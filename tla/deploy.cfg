\* Two images over two revisions, with interruptions, overlapping scripts and manual runs.
CONSTANTS
    None = None
    old = old
    broken = broken
    head = head
    Images = {old, head}
    Rev <- MCRev
    Shells = {s1, s2}
    Manual = {old}
    Sound <- MCSound
SPECIFICATION FairSpec
INVARIANTS
    ServedSchema
    NoClashPast0003
    TagWasHealthy
    TagIsOnline
PROPERTIES
    SoundImageServes
    DeploymentsEnd
