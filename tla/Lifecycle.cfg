SPECIFICATION Spec
CONSTANTS
    Accounts = {a1, a2}
    Addresses = {p, q}
    Users = {ui}
    MayEnd = TRUE
    Renewable = {a1}
    MaxChanges = 2
SYMMETRY Symmetry
INVARIANTS
    TypeOK
    StoppedStaysStopped
    RuntimeMatchesFile
    AccountsServed
    RotationsSurvive
PROPERTIES
    ChangesAreAtomic
