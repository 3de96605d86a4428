CONSTANTS
    t1 = t1
    t2 = t2
    t3 = t3
    None = None
    Threads <- MCThreads
    MaxHandles = 2
SPECIFICATION FairSpec
PROPERTIES ImplementsHandleTable PanicStaysWithItsCall MutexComesBack
