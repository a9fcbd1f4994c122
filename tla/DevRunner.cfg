SPECIFICATION LiveSpec
CONSTANTS
    Files = {f1}
    MaxEdits = 2
    Capacity = 1
INVARIANT OneApplication
PROPERTY ChangesAreBuilt
