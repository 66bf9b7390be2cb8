SPECIFICATION FairSpec
CONSTANTS
    MaxNumber = 2
    g1 = g1
    g2 = g2
    Readers = {r1, r2}
    Groups = {g1}
    Junk = Junk
    None = None
    InitialTexts <- NoText
    Faults = {}
    MaxStarts = 2
    MaxChanges = 1
INVARIANT NoLitter
PROPERTY SavesEnd
CHECK_DEADLOCK FALSE
