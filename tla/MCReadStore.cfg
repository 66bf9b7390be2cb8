SPECIFICATION Spec
CONSTANTS
    MaxNumber = 2
    g1 = g1
    g2 = g2
    Readers = {r1}
    Groups = {g1, g2}
    Junk = Junk
    None = None
    InitialTexts <- EditedTexts
    Faults = {"unreadable", "create", "write", "rename", "crash"}
    MaxStarts = 3
    MaxChanges = 2
INVARIANT NeverHalfWritten
PROPERTIES ChangesAreDirty UnsubscribedKept ImplementsAtomicStore
CHECK_DEADLOCK FALSE
