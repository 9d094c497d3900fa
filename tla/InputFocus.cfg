CONSTANTS
    Menus = {m1, m2}
    MaxWire = 4
    MaxClicks = 1
    IdleClicks = FALSE
SPECIFICATION Spec
INVARIANTS TypeOK NeverAstray ClickedOnce KeyboardBelief
SYMMETRY Symmetry
