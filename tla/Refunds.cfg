SPECIFICATION Spec
CONSTANTS
    Null = Null
    Org = Org
    o1 = o1  o2 = o2
    a = a  c = c
    Orders = {o1, o2}
    Lines = {a, c}
    Charged = {a}
    OrderOf <- MCOrderOf
    Quantity <- MCDouble
    Price <- MCPrice
    Tickets = {t1, t2}
    Requests = {r1, r2}
    Faults = {"provider", "answer", "tokens", "crash"}
    MaxItems = 2
SYMMETRY Symmetry
CHECK_DEADLOCK FALSE
INVARIANTS
    LedgerAgrees
    NothingUnpaid
    OutsideAgrees
    OncePerSale
