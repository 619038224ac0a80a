CONSTANTS
    d1 = d1
    d2 = d2
    w1 = w1
    c1 = c1
    c2 = c2
    Digests = {d1, d2}
    NumBuckets = 2
    BucketOf <- MCBucketOf
    Workers = {w1}
    WorkerOf <- MCWorkerOf
    Captures = {c1}
    TcpFlows <- MCTcpFlows
    MaxDetectionPkts = 2
    QueueCap = 1
    TtlIdleFlow = 0
    TtlIdleTcpFlow = 1
    MaxTime = 1
    NoWorker = NoWorker
    NoFlow = NoFlow
    NoOwner = NoOwner
    Supervisor = Supervisor

SPECIFICATION Spec

PROPERTY ExpiringBeforeExpire
