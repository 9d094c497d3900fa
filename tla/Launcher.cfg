CONSTANTS
    RootInstalled = FALSE
    RootShell = TRUE
    AsWebos4 = FALSE
    MaxEdits = 2
VIEW WhatMatters
SPECIFICATION LauncherSpec
INVARIANTS RenderingAsChosen
PROPERTIES EditsSurvive
