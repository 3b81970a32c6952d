SPECIFICATION AllSpec
CONSTANTS
    Device = {d1, d2}
    Id = {i1, i2, i3, i4, i5}
    MaxBatch = 2
    MaxRecords = 2
    PageSize = 1
    MaxPushes = 3
    MaxErases = 0
    MaxVersion = 3
    Nobody = Nobody
    Eraser = Eraser
    d1 = d1
    d2 = d2
    i1 = i1
    i2 = i2
    i3 = i3
    i4 = i4
    i5 = i5
    u1 = u1
    u2 = u2
    e1 = e1
    e2 = e2
    t1 = t1
SYMMETRY Perms
INVARIANTS NothingMissed QuotaOvershoot SignInsKept
PROPERTIES ReplacesWhatItSaw 
CHECK_DEADLOCK FALSE
