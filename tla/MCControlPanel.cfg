SPECIFICATION Spec
CONSTANTS
    Tasks = {t1, t2, t3}
    Pids <- MCPids
    Nobody = Nobody
    NoPid = NoPid
    Checkout = Checkout
    Elsewhere = Elsewhere
    Roots <- MCRoots
    Home <- MCHome
    MaxRestarts = 1
    MaxKills = 1
INVARIANTS
    SignalsHitTheirTask
CHECK_DEADLOCK FALSE
