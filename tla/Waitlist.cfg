SPECIFICATION Spec
CONSTANTS
    u1 = u1
    u2 = u2
    f1 = f1
    s1 = s1
    s2 = s2
    Nil = Nil
    User = {u1, u2}
    Flight = {f1}
    Seat = {s1, s2}
    FlightOf <- MCFlightOf2
    TTL = 1
    MaxBookings = 2
    Clv <- MCClv
    Lex <- MCLex
    MaxEntries = 2
    Proc = {p1, p2}
    Cron = {}
    Ops = {"lock", "confirm", "cancel", "join", "leave"}
    Exclusive <- WaitlistPremise
    Prompt = TRUE
INVARIANTS QInv WaitlistInSync OneRowEach
PROPERTIES PromotedOutranks PlaceKept
SYMMETRY SeatSymmetry
CHECK_DEADLOCK FALSE
