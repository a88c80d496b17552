SPECIFICATION WinPRSpec
CONSTANTS
    Message = {m1, m2}
    Quit = Quit
    Nothing = Nothing
    Reader = {r1, r2}
    InitialCapacity = 2
    MaxSize = 4
    MaxObjects = 5
    Thread = {t1, t2, t3}
    Nobody = Nobody
    MaxSpin = 1
    MaxDepth = 2
    MaxRounds = 3
    MaxFailures = 2
INVARIANTS SectionInv BarrierInv ObjectsInv
PROPERTIES IsFifo QueueIsFifo IsRecursiveLock WaitersReturn
