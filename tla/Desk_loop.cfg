SPECIFICATION LoopSpec
CONSTANTS
    HourSec = 3
    DayHours = 2
    ChunkSec = 1
    IdleSec = 1
    BootSec = 1
    Late = 1
    MinTick = 2
    MaxTick = 7
    MaxTime = 20
    MaxEdits = 2
    MaxRestarts = 1
    Tickers = {loop_tick, manual_tick}
    Retention = 1
    MaxSec = 2
    MaxTicks = 3
    MaxCalls = 1
INVARIANTS
    OncePerSlot
    PauseIsHeard
    SlotIsServed
    CostIsOfItsRun
    ManifestHeals
