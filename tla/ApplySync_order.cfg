SPECIFICATION Spec
CONSTANTS
    Names = {1, 2}
    Ordering <- MCOrdering
    Unknown = {1, 5}
    Custom = 1
    MaxTasks = 3
INVARIANT
    KnownInOrder
