SPECIFICATION Spec
CONSTANTS
    Null = Null
    A = A  B = B  h = h  low = low  high = high  door = door  flat = flat  e = e
    Types = {A, B}
    Holds = {h}
    HoldFor <- MCHoldFor
    Events = {e}
    EventOf <- MCEventOf
    EventFee <- MCEventFee
    Pricings = {low, high, door, flat}
    PriceOf <- MCPriceOf
    Periods <- MCPeriods
    Discount <- MCDiscount
    Limit <- MCLimit
    Increment <- MCIncrement
    Schedules <- MCSchedules
    Stock <- MCStock
    Lines = {l1, l2, l3}
    Asked <- MCAsked
SYMMETRY Symmetry
INVARIANTS
    LinesAreWhole
    CartsAddUp
    LimitKept
    FeesFollow
    EventFeeFollows
