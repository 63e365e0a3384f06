SPECIFICATION FaultFairSpec
CONSTANTS
    u1 = u1
    u2 = u2
    f1 = f1
    s1 = s1
    s2 = s2
    Nil = Nil
    User = {u1}
    Flight = {f1}
    Seat = {s1}
    FlightOf <- MCFlightOf1
    TTL = 1
    MaxBookings = 2
    Clv <- MCClv
    Lex <- MCLex
    MaxEntries = 1
    Proc = {p1, p2}
    Cron = {c1}
    Ops = {"lock", "confirm", "cancel", "cleanup", "setseat", "join"}
    Exclusive <- Needed
    Prompt = TRUE
    MaxFaults = 1
PROPERTIES HoldResolves StatusLifecycle
CHECK_DEADLOCK FALSE
