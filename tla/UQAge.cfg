SPECIFICATION Spec
CONSTANTS
    Producers = {"Ping", "MontarListaPedidos"}
    Pinger = "Ping"
    KindsOf <- MCKindsOf
    Dests = {1, 2}
    Schedulers = {"FIFO", "RR", "Random", "CDF"}
    SizeOf <- MCSizeOf
    BucketSize = 1
    Refill = 1
    OnlyData = FALSE
    Gaps = {1, 2}
    MaxQueue = 2
    TicksPerSecond = 4
    MaxClock = 4
PROPERTY DropsByAge
