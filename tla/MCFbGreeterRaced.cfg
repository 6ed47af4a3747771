SPECIFICATION Spec
CONSTANTS
    Client = {c1, c2}
    NumGreetings = 1
    Failed = Failed
    Garbage = Garbage
    MaxBoots = 1
SYMMETRY ClientSymmetry
INVARIANTS GreetsItsCaller
