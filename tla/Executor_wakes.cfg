SPECIFICATION FairSpec
CONSTANTS
    main = main
    w1 = w1
    w2 = w2
    t1 = t1
    t2 = t2
    t3 = t3
    none = none
    None = none
    Main = main
    Wakers = {w1}
    Tasks = {t1, t2, t3}
    Limit = 2
CHECK_DEADLOCK FALSE
INVARIANT RunnablesAreNoticed
INVARIANT OnlyLateRunnablesRemain
PROPERTY BatchEnds
PROPERTY WokenTasksRun
