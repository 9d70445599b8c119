\* Two of four requests: a realtime websocket, a playground request, one of an
\* unlimited user and one with an unlimited token; two channels, a call that fails.
SPECIFICATION Spec
CONSTANTS
    Requests = {w1, p1, u1, t1}
    Channels = {c1, c2}
    Targets = {1, 2}
    Actuals = {1}
    Fee = 1
    Wallet = 3
    Toks = {2}
    Trust = 2
    Playground = {p1}
    Unlimited = {u1}
    TokenUnlimited = {t1}
    Realtime = {w1}
    Usages = {1}
    MaxRequests = 2
    MaxUsages = 1
    MaxAttempts = 1
    MaxChannels = 2
    Faults = {"wallet", "token", "crash"}
    MaxFaults = 1
    NoChannel = NoChannel
SYMMETRY Symmetry
VIEW View
INVARIANTS
    NeverPaidOut
    ChargedWhatIsOwed
    AttemptIsCovered
CHECK_DEADLOCK FALSE
