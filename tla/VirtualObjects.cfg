CONSTANTS
    Objects = {o1, o2, o3, o4, o5, o6}
    Registries = {r1}
    Surfaces = {s1, s2, s3}
    NoObject = NoObject
    NoSurface = NoSurface
    MAX_VIRT = 6
    Positioners <- MCPositioners
    Window = 4
    Submenus = {s3}
    SubmenuObjects = {o5, o6}
    Casts <- MCCasts
    HandlersAct = FALSE
SPECIFICATION Spec
INVARIANTS OwnEntry LiveSurfaceFound ConfiguresCome PlacedWhereTold
SYMMETRY Symmetry
