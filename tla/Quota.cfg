SPECIFICATION Spec
CONSTANTS
    Clients = {c1, c2}
    Amounts = {1, 2}
    Start = 3
    MaxWallet = 4
    Redis = TRUE
    Modes = {TRUE, FALSE}
    Changes = {"increase", "decrease"}
    Faults = {"db_reserve", "db_change", "redis", "expire", "flush", "fill", "crash"}
    MaxFaults = 2
    None = None
SYMMETRY Symmetry

    
PROPERTIES
    IsAccount
    
CHECK_DEADLOCK FALSE
