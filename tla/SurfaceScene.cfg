CONSTANTS
    Windows = {w1, w2}
    WindowChildren = {k}
    PopupChildren = {j}
    Menus = {m, n}
    Pictures = {p1}
    Blank = Blank
    Foreign = Foreign
    Origin = Origin
    Places = {Origin, Aside}
    MAX_LAYERED = 2
    OV_ITEMS = 2
    MaxGroups = 2
    Casts = {{w1, w2, k}, {w1, k, m}, {w2, k, m}, {w1, k, n}, {w2, k, n}, {m, n, j}}
    Careless = {k}
    None = None
SPECIFICATION Spec
INVARIANTS LayersInGroup ShownOnce OverlayDrawn NothingStale
SYMMETRY Symmetry
VIEW WhatMatters
