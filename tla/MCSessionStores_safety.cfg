SPECIFICATION Spec
CONSTANTS
    Roots = {r1}
    Handles = {h1, h2}
    Openers = {u1, u2}
    Borrowers = {b1}
    NoHandle = NoHandle
    NoUser = NoUser
    Batch = 2
    Old = 3
    MaxId = 4
INVARIANTS TypeOK OneOpenHandle ReferencedIsOpen RecordedIsComplete
SYMMETRY Symmetry
