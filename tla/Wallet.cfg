SPECIFICATION AllSpec
CONSTANTS
    a1 = a1
    a2 = a2
    a3 = a3
    k1 = k1
    k2 = k2
    c1 = c1
    Groceries = Groceries
    None = None
    c2 = c2
    c3 = c3
    g1 = g1
    p1 = p1
    p2 = p2
    b1 = b1
    b2 = b2
    l1 = l1
    l2 = l2
    x1 = x1
    x2 = x2
    s1 = s1
    Team = Team
    MonthLen <- SevenYears
    Starts <- Days
    Periods = {0, 2, 5}
    Horizon = 1200
  
PROPERTIES RightOccurrence 
CHECK_DEADLOCK FALSE
