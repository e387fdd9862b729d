SPECIFICATION Spec
CONSTANTS
    k = k
    o1 = o1
    o2 = o2
    p = p
    q = q
    None = None
    Keys = {k}
    Passphrases = {p, q}
    Objects = {o1, o2}
    ToKey <- Mine
    UnlockMax = 1
    MaxEntries = 2
INVARIANTS NothingMissed StaysOpenable ChanSurvives
PROPERTY NoGap
SYMMETRY Symmetric
