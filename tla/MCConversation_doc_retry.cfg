SPECIFICATION FairSpec
CONSTANTS
    Starts = {s1, s2}
    Polite = {}
    Askers = {}
    Impatient = {}
    Deleters = {d1}
    Note = note
    NoStart = nostart
PROPERTY RetiredNeverStarts
CHECK_DEADLOCK FALSE
