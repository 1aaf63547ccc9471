SPECIFICATION Spec
CONSTANTS
    a1 = a1
    a2 = a2
    s1 = s1
    s2 = s2
    Apps = {a1, a2}
    Scanners = {s1, s2}
    None = None
    MaxPics = 1
SYMMETRY Symmetry
CHECK_DEADLOCK FALSE
PROPERTIES
    HandleIsNotTaken
