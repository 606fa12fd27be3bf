SPECIFICATION Spec
CONSTANTS
    r1 = r1
    r2 = r2
    r3 = r3
    k1 = k1
    c1 = c1
    c2 = c2
    NoKey = NoKey
    EmptyKey = EmptyKey
    NoCustomer = NoCustomer
    Sku = {"BOOK", "PEN"}
    UnitPrice <- Prices
    Fraction = Fraction
    HighValueThreshold = 3
    Wiring = {"postgres"}
    Admin = Admin
    NoActor = NoActor
    NoOrder = NoOrder
    Key = {k1}
    Customer = {c1, c2}
    Request <- Two
    Command <- OneCommand
    Handle = Handle
    ClientsWait = FALSE
CHECK_DEADLOCK FALSE
INVARIANTS
    OneOrderPerKey
