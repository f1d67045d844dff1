CONSTANTS
    Tasks = {t1, t2}
    t1 = t1
    t2 = t2
    ImportKinds = {"oauth", "agent"}
    Settings = {TRUE, FALSE}
    MaxTokens = 3
SPECIFICATION Spec
SYMMETRY Symmetry
PROPERTIES
    ImportedNotDisabled
