SPECIFICATION FairSpec
CONSTANTS
    Device = {d1, d2}
    Id = {i1, i2}
    MaxBatch = 1
    MaxRecords = 2
    PageSize = 1
    MaxPushes = 2
    MaxErases = 1
    MaxVersion = 2
    Nobody = Nobody
    Eraser = Eraser
    d1 = d1
    d2 = d2
    d3 = d3
    i1 = i1
    i2 = i2
    i3 = i3
    i4 = i4
PROPERTY EveryRequestSettles
CHECK_DEADLOCK FALSE
