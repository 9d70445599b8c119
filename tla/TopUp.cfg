\* An order of any provider and one of Epay, three handlers on two nodes, one
\* fault.
SPECIFICATION FairSpec
CONSTANTS
    o1 = o1
    o2 = o2
    h1 = h1
    h2 = h2
    h3 = h3
    n1 = n1
    n2 = n2
    NoOrder = NoOrder
    Orders = {o1, o2}
    Handlers = {h1, h2, h3}
    NodeOf <- TwoNodes
    Amount = 1
    QuotaPerUnit = 2
    Gateways <- AnyAndEpay
    Start = 0
    MaxWallet = 3
    Spends = TRUE
    Admin = TRUE
    Faults = {"db", "ack", "crash"}
    MaxFaults = 1
PROPERTIES
    CreditedOnce
    PaidIsCredited
CHECK_DEADLOCK FALSE
