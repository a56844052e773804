SPECIFICATION Spec
CONSTANTS
    h1 = h1
    h2 = h2
    h3 = h3
    c1 = c1
    lower = lower
    upper = upper
    other = other
    t1 = t1
    r1 = r1
    r2 = r2
    Null = Null
    Holds = {h1, h2, h3}
    FirstParent <- MCFirstParent
    Codes = {c1}
    Words = {lower, upper, other}
    Upper <- MCUpper
    FirstWord <- MCFirstWord
    Types = {t1}
    EventTypes = {t1}
    Requests = {r1, r2}
    Organizers = {r1, r2}
    Quantities = {2, 4}
    MaxTickets = 5
    FirstTickets <- MCFirstTickets
SYMMETRY MCSymmetry
INVARIANTS
    StockIsAsAsked
    CodesAreClear
PROPERTIES
    TakenTicketsStay
