\* One MTP thread, two services: every interleaving of posts, a wait and a worker, with
\* queues that fill up.
SPECIFICATION FairSpec
CONSTANTS
    e1 = e1
    e2 = e2
    uds = uds
    w1 = w1
    Endpoints = {e1, e2}
    Mtps = {uds}
    Workers = {w1}
    MtpOf <- MCMtpOf
    MainCap = 2
    FilterCap = 2
    MaxPosts = 3
    MaxWork = 1
    MaxRequests = 2
INVARIANTS
    WantedNeverOnMain
    DmInv
PROPERTY
    EventuallyDrained
