SPECIFICATION Spec
CONSTANTS
    u1 = u1
    u2 = u2
    f1 = f1
    s1 = s1
    s2 = s2
    Nil = Nil
    User = {u1, u2}
    Flight = {f1}
    Seat = {s1, s2}
    FlightOf <- MCFlightOf2
    TTL = 1
    MaxBookings = 4
    Clv <- MCClv
    Lex <- MCLex
    MaxEntries = 1
    Proc = {p1, p2}
    Cron = {c1}
    Ops = {"lock", "cancel", "join"}
    Exclusive <- WaitlistPremise
    Prompt = TRUE
PROPERTIES PromotedOnce
CHECK_DEADLOCK FALSE
