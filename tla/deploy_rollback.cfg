\* A release with migrations is rolled back.
CONSTANTS
    None = None
    old = old
    broken = broken
    head = head
    Images = {old, broken, head}
    Rev <- MCRev
    Shells = {s1, s2}
    Manual = {old}
    Sound <- MCSound
SPECIFICATION Spec
INVARIANTS
    RollbackServes
