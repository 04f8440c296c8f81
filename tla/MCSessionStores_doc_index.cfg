SPECIFICATION Spec
CONSTANTS
    Roots = {r1}
    Handles = {h1}
    Openers = {u1}
    Borrowers = {}
    NoHandle = NoHandle
    NoUser = NoUser
    Batch = 1
    Old = 1
    MaxId = 2
INVARIANTS IndexMirrorsArchive
