SPECIFICATION Spec
CONSTANTS
    t1 = t1
    t2 = t2
    r1 = r1
    r2 = r2
    r3 = r3
    a1 = a1
    a2 = a2
    v1 = v1  v2 = v2  s1 = s1  s2 = s2
    o1 = o1  o2 = o2  root = root  p1 = p1  p2 = p2
    Null = Null
    Types = {t1, t2}
    FirstType = t1
    FirstPeriod <- MCFirstPeriod
    FirstOffer <- MCFirstOffer
    MaxRows = 5
    MaxUsed = 1
    Offers <- MCOffers
    NewPeriods <- MCNewPeriods
    TypeChanges <- MCTypeChanges
    EventChanges <- MCEventChanges
    Requests = {r1, r2, r3}
    Starts <- MCStarts
    Artists = {a1, a2}
    Venues = {v1, v2}
    Stages = {s1, s2}
    FirstEntry <- MCFirstEntry
    FirstStage <- MCFirstStage
    People = {root, p1, p2}
    Orgs = {o1, o2}
    Admins = {root}
    Members <- MCMembers
    MaxJobs = 4
    MaxTries = 2
SYMMETRY MCSymmetry
CHECK_DEADLOCK FALSE
INVARIANTS
    PricesAgree
    EventIsAsSent
    ImportsGoOn
    ListedAsMeant
PROPERTIES
    PurchaseHistoryKept
    PlacesAreKept
