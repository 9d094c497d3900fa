CONSTANTS
    Flat = FALSE
    Canvases = {blank, one, two}
SPECIFICATION OverlaySpec
INVARIANTS EachInOnePlace
PROPERTIES DrawsOnlyReturned ImplementsDisplay
