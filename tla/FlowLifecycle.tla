--------------------------- MODULE FlowLifecycle ---------------------------
(***************************************************************************)
(* The flow-tracking core of the Netify agent: the sharded flow map       *)
(* (ndFlowMap), the capture threads that look up and insert flows, the    *)
(* detection threads that run DPI on the packets queued to them, and the  *)
(* instance thread whose update tick (ndInstance::ProcessFlows) expires   *)
(* idle flows and purges expired ones, and whose terminate path expires   *)
(* every flow before the agent exits.                                      *)
(*                                                                         *)
(* A flow record is identified by its primary digest.  Its strong         *)
(* references (shared_ptr use_count) are not a variable: they are the     *)
(* bucket's own reference plus one per capture thread holding the flow    *)
(* between its lookup and its dispatch, plus one per detection queue      *)
(* entry.  Packet contents, statistics and classification data are        *)
(* abstracted away; only the flags the lifecycle depends on are kept.     *)
(***************************************************************************)
EXTENDS Naturals, FiniteSets, Sequences, SequencesExt

CONSTANTS
    Digests,          \* primary digests of the flows the captures may see
    NumBuckets,       \* ndGC.fm_buckets
    BucketOf,         \* [Digests -> 0..NumBuckets-1]: HashToBucket
    Workers,          \* detection threads (thread_detection)
    WorkerOf,         \* [Digests -> Workers]: the sticky worker of a flow
    Captures,         \* capture threads
    TcpFlows,         \* digests whose ip_protocol is IPPROTO_TCP
    MaxDetectionPkts, \* ndGC.max_detection_pkts
    QueueCap,         \* detection queue bound (max_packet_queue)
    TtlIdleFlow,      \* ndGC.ttl_idle_flow
    TtlIdleTcpFlow,   \* ndGC.ttl_idle_tcp_flow
    MaxTime,          \* bound on the wall clock of the model
    NoWorker,         \* dpi_thread_id of a flow no detection thread owns
    NoFlow,           \* a capture thread holding no flow
    NoOwner,          \* an unlocked bucket mutex
    Supervisor        \* the instance thread, as a bucket lock owner

ASSUME
    /\ NumBuckets \in Nat \ {0}
    /\ BucketOf \in [Digests -> 0..NumBuckets-1]
    /\ WorkerOf \in [Digests -> Workers]
    /\ TcpFlows \subseteq Digests
    /\ MaxDetectionPkts \in Nat \ {0}
    /\ QueueCap \in Nat \ {0}
    /\ {TtlIdleFlow, TtlIdleTcpFlow, MaxTime} \subseteq Nat

Buckets == 0..NumBuckets-1

\* The atomic flags of ndFlow the lifecycle reads and writes.
FlagNames == {"init", "complete", "guessed", "expiring", "expired"}

\* Plugin events of one flow record before its flow_expire.
EventNames == {"new", "dpi_complete", "expiring"}

VARIABLES
    now,          \* time(NULL), seconds
    flows,        \* digests present in some bucket of the flow map
    flags,        \* flags[d]: the flags of d's record that are true
    dpiThread,    \* dpi_thread_id of d's record
    lastSeen,     \* ts_last_seen / 1000
    finAck,       \* flags.tcp_fin_ack
    active,       \* lower_packets or upper_packets non-zero since Reset()
    dpiPkts,      \* stats.detection_packets
    emitted,      \* processor plugin events already emitted for d's record
    queue,        \* queue[w]: flows queued to detection thread w
    lock,         \* lock[b]: the owner of bucket_lock[b]
    cap,          \* cap[c]: program counter and looked-up flow of capture c
    sup,          \* the instance thread's program counter and sweep state
    terminating,  \* ShouldTerminate()
    statusFlows   \* status.flows

flowVars == <<flags, dpiThread, lastSeen, finAck, active, dpiPkts, emitted>>
vars == <<now, flows, flowVars, queue, lock, cap, sup, terminating, statusFlows>>

-----------------------------------------------------------------------------
(* Derived state.                                                          *)

\* A reference besides the bucket's own: use_count() > 1.
Referenced(d) ==
    \/ \E c \in Captures : cap[c].pc = "dispatch" /\ cap[c].flow = d
    \/ \E w \in Workers : Contains(queue[w], d)

\* ProcessFlows: the idle TTL of a flow depends on its protocol and FIN.
IdleTtl(d) ==
    IF d \notin TcpFlows \/ finAck[d] THEN TtlIdleFlow ELSE TtlIdleTcpFlow

\* ProcessFlows: (ts_last_seen / 1000 + ttl) < now
IsIdle(d) == lastSeen[d] + IdleTtl(d) < now

\* ndFlow::Reset(full_reset): the flags a full reset clears.
FlowReset(f, full) ==
    IF full THEN f \ {"complete", "guessed", "init", "expired", "expiring"}
            ELSE f

\* Mutant: the expiring flag is set but no final entry is queued.
ExpireFlowNoQueue(f, w) ==
    CASE "complete" \in f -> [flags |-> f \cup {"expired"}, queued |-> FALSE]
      [] "expiring" \in f -> [flags |-> f, queued |-> FALSE]
      [] w # NoWorker     -> [flags |-> f \cup {"expiring"}, queued |-> FALSE]
      [] OTHER            -> [flags |-> f \cup {"expiring", "expired"},
                              queued |-> FALSE]

\* Mutant: the expiring test comes first, so a flow whose detection is
\* complete is sent for another (expiring) pass of its detection thread.
ExpireFlowExpiringFirst(f, w) ==
    CASE "expiring" \in f -> [flags |-> f, queued |-> FALSE]
      [] w # NoWorker     -> [flags |-> f \cup {"expiring"}, queued |-> TRUE]
      [] "complete" \in f -> [flags |-> f \cup {"expired"}, queued |-> FALSE]
      [] OTHER            -> [flags |-> f \cup {"expiring", "expired"},
                              queued |-> FALSE]

\* ndInstance::ExpireFlow on a record with flags f owned by thread w: its
\* new flags and whether a final packet-less entry is queued to w (which
\* is also when EVENT_FLOW_EXPIRING is broadcast).
ExpireFlow(f, w) ==
    CASE "complete" \in f -> [flags |-> f \cup {"expired"}, queued |-> FALSE]
      [] "expiring" \in f -> [flags |-> f, queued |-> FALSE]
      [] w # NoWorker     -> [flags |-> f \cup {"expiring"}, queued |-> TRUE]
      [] OTHER            -> [flags |-> f \cup {"expiring", "expired"},
                              queued |-> FALSE]

\* Apply the outcome r of ExpireFlow to d's record.
ApplyExpire(d, r) ==
    /\ flags' = [flags EXCEPT ![d] = r.flags]
    /\ queue' = IF r.queued
                  THEN [queue EXCEPT ![dpiThread[d]] = Append(@, d)]
                  ELSE queue
    /\ emitted' = IF r.queued THEN [emitted EXCEPT ![d] = @ \cup {"expiring"}]
                              ELSE emitted

\* Erasing d from its bucket destroys the record: every field of it is
\* reset to the value a new record starts with.
EraseRecord(d) ==
    /\ flows' = flows \ {d}
    /\ flags' = [flags EXCEPT ![d] = {}]
    /\ dpiThread' = [dpiThread EXCEPT ![d] = NoWorker]
    /\ lastSeen' = [lastSeen EXCEPT ![d] = 0]
    /\ finAck' = [finAck EXCEPT ![d] = FALSE]
    /\ active' = [active EXCEPT ![d] = FALSE]
    /\ dpiPkts' = [dpiPkts EXCEPT ![d] = 0]
    /\ emitted' = [emitted EXCEPT ![d] = {}]

\* Mutant: the budget is compared with > instead of >=.
BudgetExhaustedLate(n) == n > MaxDetectionPkts

\* A flow that has fed n packets to the DPI engine without a conclusive
\* result is finalised with the best guess: detection_packets >=
\* max_detection_pkts.
BudgetExhausted(n) == n >= MaxDetectionPkts

\* ProcessFlows: an expired record is erased when use_count() == 1, i.e.
\* only its bucket holds it.
CanPurge(d, f) == "expired" \in f /\ ~Referenced(d)

\* Mutant: the loop exit ignores the flows still in the map.
LoopExitNoCount(n) == terminating

\* The Entry loop's exit test once an IPC has been handled.
LoopExit(n) == terminating /\ n = 0

-----------------------------------------------------------------------------
(* Initial state: the instance thread has created the flow map and the    *)
(* detection threads and waits for IPC; the capture threads are running.  *)

Init ==
    /\ now = 0
    /\ flows = {}
    /\ flags = [d \in Digests |-> {}]
    /\ dpiThread = [d \in Digests |-> NoWorker]
    /\ lastSeen = [d \in Digests |-> 0]
    /\ finAck = [d \in Digests |-> FALSE]
    /\ active = [d \in Digests |-> FALSE]
    /\ dpiPkts = [d \in Digests |-> 0]
    /\ emitted = [d \in Digests |-> {}]
    /\ queue = [w \in Workers |-> <<>>]
    /\ lock = [b \in Buckets |-> NoOwner]
    /\ cap = [c \in Captures |-> [pc |-> "idle", flow |-> NoFlow]]
    /\ sup = [pc |-> "wait", mode |-> "update", bucket |-> 0,
              left |-> {}, purged |-> 0]
    /\ terminating = FALSE
    /\ statusFlows = 0

-----------------------------------------------------------------------------
(* Capture threads.  Each packet is one pass: Lookup(digest, true) takes  *)
(* the bucket lock; the flow is updated or created and inserted under it  *)
(* and the lock released; the packet is then queued to the flow's sticky  *)
(* detection thread, after which the thread's reference is dropped.       *)

\* ndFlowMap::Lookup(digest, acquire_lock = true) for a packet of flow d.
CaptureLookup(c, d) ==
    /\ cap[c].pc = "idle"
    /\ lock[BucketOf[d]] = NoOwner
    /\ lock' = [lock EXCEPT ![BucketOf[d]] = c]
    /\ cap' = [cap EXCEPT ![c] = [pc |-> "locked", flow |-> d]]
    /\ UNCHANGED <<now, flows, flowVars, queue, sup, terminating, statusFlows>>

\* A packet of a known flow: timestamps, counters and the TCP FIN state
\* are updated, then ndFlowMap::Release(digest).
CaptureUpdate(c) ==
    LET d == cap[c].flow IN
    /\ cap[c].pc = "locked"
    /\ d \in flows
    /\ lastSeen' = [lastSeen EXCEPT ![d] = now]
    /\ active' = [active EXCEPT ![d] = TRUE]
    /\ \E fin \in BOOLEAN :
          finAck' = [finAck EXCEPT ![d] = @ \/ (fin /\ d \in TcpFlows)]
    /\ lock' = [lock EXCEPT ![BucketOf[d]] = NoOwner]
    /\ cap' = [cap EXCEPT ![c].pc = "dispatch"]
    /\ UNCHANGED <<now, flows, flags, dpiThread, dpiPkts, emitted, queue, sup,
                   terminating, statusFlows>>

\* A packet of a new flow: a record is built and inserted with
\* Insert(digest, flow, unlocked = true).  On a flow hash cache hit the
\* flow skips detection and no detection thread owns it.
CaptureCreate(c) ==
    LET d == cap[c].flow IN
    /\ cap[c].pc = "locked"
    /\ d \notin flows
    /\ \E w \in {WorkerOf[d], NoWorker} :
          dpiThread' = [dpiThread EXCEPT ![d] = w]
    /\ flows' = flows \cup {d}
    /\ lastSeen' = [lastSeen EXCEPT ![d] = now]
    /\ active' = [active EXCEPT ![d] = TRUE]
    /\ statusFlows' = statusFlows + 1
    /\ lock' = [lock EXCEPT ![BucketOf[d]] = NoOwner]
    /\ cap' = [cap EXCEPT ![c].pc = "dispatch"]
    /\ UNCHANGED <<now, flags, finAck, dpiPkts, emitted, queue, sup,
                   terminating>>

\* The packet is queued to the flow's detection thread while detection is
\* incomplete; a full queue drops it.  The capture's reference is dropped.
CaptureDispatch(c) ==
    LET d == cap[c].flow
        w == dpiThread[d]
    IN
    /\ cap[c].pc = "dispatch"
    /\ queue' = IF w # NoWorker /\ "complete" \notin flags[d]
                   /\ Len(queue[w]) < QueueCap
                  THEN [queue EXCEPT ![w] = Append(@, d)]
                  ELSE queue
    /\ cap' = [cap EXCEPT ![c] = [pc |-> "idle", flow |-> NoFlow]]
    /\ UNCHANGED <<now, flows, flowVars, lock, sup, terminating, statusFlows>>

-----------------------------------------------------------------------------
(* Detection threads.  Each dequeues one entry and processes it while     *)
(* holding the entry's reference.                                          *)

\* An entry of an expiring flow: the last pass, after which the flow is
\* expired, EVENT_FLOW_EXPIRING is emitted and the DPI state released.
DetectExpiring(w) ==
    LET d == Head(queue[w]) IN
    /\ queue[w] # <<>>
    /\ "expiring" \in flags[d]
    /\ queue' = [queue EXCEPT ![w] = Tail(@)]
    /\ flags' = [flags EXCEPT ![d] = @ \cup {"expired"}]
    /\ emitted' = [emitted EXCEPT ![d] = @ \cup {"expiring"}]
    /\ UNCHANGED <<now, flows, dpiThread, lastSeen, finAck, active, dpiPkts,
                   lock, cap, sup, terminating, statusFlows>>

\* A packet of a flow whose detection is already complete is not fed to
\* the DPI engine.
DetectSkip(w) ==
    LET d == Head(queue[w]) IN
    /\ queue[w] # <<>>
    /\ "expiring" \notin flags[d]
    /\ "complete" \in flags[d]
    /\ queue' = [queue EXCEPT ![w] = Tail(@)]
    /\ UNCHANGED <<now, flows, flowVars, lock, cap, sup, terminating,
                   statusFlows>>

\* A packet fed to the DPI engine.  The engine may conclude; otherwise the
\* packet budget exhausted finalises the flow with the best guess.
DetectPacket(w) ==
    LET d == Head(queue[w])
        n == dpiPkts[d] + 1
    IN
    /\ queue[w] # <<>>
    /\ "expiring" \notin flags[d]
    /\ "complete" \notin flags[d]
    /\ queue' = [queue EXCEPT ![w] = Tail(@)]
    /\ dpiPkts' = [dpiPkts EXCEPT ![d] = n]
    /\ \E done \in BOOLEAN :
          LET fin == done \/ BudgetExhausted(n)
              new == {"init"} \cup (IF fin THEN {"complete"} ELSE {})
                              \cup (IF fin /\ ~done THEN {"guessed"} ELSE {})
          IN /\ flags' = [flags EXCEPT ![d] = @ \cup new]
             /\ emitted' = [emitted EXCEPT ![d] = @ \cup {"new"}
                               \cup (IF fin THEN {"dpi_complete"} ELSE {})]
    /\ UNCHANGED <<now, flows, dpiThread, lastSeen, finAck, active, lock, cap,
                   sup, terminating, statusFlows>>

-----------------------------------------------------------------------------
(* The instance thread (ndInstance::Entry).  An update IPC runs           *)
(* ProcessUpdate, whose last step ProcessFlows sweeps every bucket while  *)
(* holding its lock; a terminate IPC stops the capture threads and        *)
(* expires every flow (DestroyCaptureThreads(threads, true)).  The loop   *)
(* ends once terminating with no flows left; a final ProcessUpdate runs.  *)

\* The wall clock advances.
Clock ==
    /\ now < MaxTime
    /\ now' = now + 1
    /\ UNCHANGED <<flows, flowVars, queue, lock, cap, sup, terminating,
                   statusFlows>>

\* Timer IPC ndIPC_UPDATE: ProcessUpdate starts its flow sweep.
StartUpdate ==
    /\ sup.pc = "wait"
    /\ sup' = [pc |-> "acquire", mode |-> "update", bucket |-> 0,
               left |-> {}, purged |-> 0]
    /\ UNCHANGED <<now, flows, flowVars, queue, lock, cap, terminating,
                   statusFlows>>

\* IPC ndIPC_TERMINATE: Terminate(), then DestroyCaptureThreads joins the
\* capture threads (each finishes its packet first) and expires the flows.
TerminateIPC ==
    /\ sup.pc = "wait"
    /\ ~terminating
    /\ \A c \in Captures : cap[c].pc = "idle"
    /\ terminating' = TRUE
    /\ cap' = [c \in Captures |-> [pc |-> "offline", flow |-> NoFlow]]
    /\ sup' = [pc |-> "acquire", mode |-> "expire", bucket |-> 0,
               left |-> {}, purged |-> 0]
    /\ UNCHANGED <<now, flows, flowVars, queue, lock, statusFlows>>

\* flow_buckets->Acquire(b): the sweep takes the bucket lock and walks
\* the flows the bucket holds.
AcquireBucket ==
    /\ sup.pc = "acquire"
    /\ lock[sup.bucket] = NoOwner
    /\ lock' = [lock EXCEPT ![sup.bucket] = Supervisor]
    /\ sup' = [sup EXCEPT !.pc = "visit",
                          !.left = {d \in flows : BucketOf[d] = sup.bucket}]
    /\ UNCHANGED <<now, flows, flowVars, queue, cap, terminating, statusFlows>>

\* ProcessFlows on one flow of the bucket: an idle flow that is not
\* expired is expired (ExpireFlow); an expired flow only the bucket holds
\* is purged with EVENT_FLOW_EXPIRE; a live flow with detection started
\* and packets since the last tick is Reset().
ProcessFlow(d) ==
    LET r == IF "expired" \notin flags[d] /\ IsIdle(d)
               THEN ExpireFlow(flags[d], dpiThread[d])
               ELSE [flags |-> flags[d], queued |-> FALSE]
        purge == CanPurge(d, r.flags)
        reset == "expired" \notin r.flags /\ "init" \in r.flags /\ active[d]
    IN
    /\ sup.pc = "visit"
    /\ sup.mode # "expire"
    /\ d \in sup.left
    /\ sup' = [sup EXCEPT !.left = @ \ {d},
                          !.purged = @ + (IF purge THEN 1 ELSE 0)]
    /\ IF purge
         THEN EraseRecord(d) /\ UNCHANGED queue
         ELSE /\ ApplyExpire(d, [r EXCEPT !.flags = FlowReset(@, FALSE)])
              /\ active' = [active EXCEPT ![d] = @ /\ ~reset]
              /\ UNCHANGED <<flows, dpiThread, lastSeen, finAck, dpiPkts>>
    /\ UNCHANGED <<now, lock, cap, terminating, statusFlows>>

\* DestroyCaptureThreads(threads, true) on one flow of the bucket: a flow
\* neither expired nor expiring is expired (ExpireFlow).
ExpireAllFlow(d) ==
    /\ sup.pc = "visit"
    /\ sup.mode = "expire"
    /\ d \in sup.left
    /\ sup' = [sup EXCEPT !.left = @ \ {d}]
    /\ IF {"expired", "expiring"} \cap flags[d] = {}
         THEN ApplyExpire(d, ExpireFlow(flags[d], dpiThread[d]))
         ELSE UNCHANGED <<flags, queue, emitted>>
    /\ UNCHANGED <<now, flows, dpiThread, lastSeen, finAck, active, dpiPkts,
                   lock, cap, terminating, statusFlows>>

\* flow_buckets->Release(b).  After the last bucket ProcessFlows subtracts
\* the purged flows from status.flows, and the loop either waits for the
\* next IPC, or exits and runs the final ProcessUpdate, after which the
\* instance thread returns.
ReleaseBucket ==
    LET last == sup.bucket = NumBuckets - 1
        n == IF last /\ sup.mode # "expire" THEN statusFlows - sup.purged
                                            ELSE statusFlows
    IN
    /\ sup.pc = "visit"
    /\ sup.left = {}
    /\ lock' = [lock EXCEPT ![sup.bucket] = NoOwner]
    /\ statusFlows' = n
    /\ sup' = CASE ~last -> [sup EXCEPT !.pc = "acquire", !.bucket = @ + 1]
                [] sup.mode = "final" -> [sup EXCEPT !.pc = "exit"]
                [] LoopExit(n) -> [pc |-> "acquire", mode |-> "final",
                                   bucket |-> 0, left |-> {}, purged |-> 0]
                [] OTHER -> [sup EXCEPT !.pc = "wait"]
    /\ UNCHANGED <<now, flows, flowVars, queue, cap, terminating>>

\* The instance thread has returned; nothing is left to run.
Exited ==
    /\ sup.pc = "exit"
    /\ UNCHANGED vars

-----------------------------------------------------------------------------
Next ==
    \/ Clock
    \/ \E c \in Captures, d \in Digests : CaptureLookup(c, d)
    \/ \E c \in Captures : CaptureUpdate(c) \/ CaptureCreate(c)
                              \/ CaptureDispatch(c)
    \/ \E w \in Workers : DetectExpiring(w) \/ DetectSkip(w) \/ DetectPacket(w)
    \/ StartUpdate
    \/ TerminateIPC
    \/ AcquireBucket
    \/ \E d \in Digests : ProcessFlow(d) \/ ExpireAllFlow(d)
    \/ ReleaseBucket
    \/ Exited

(* A capture thread finishes the packet it has looked up; a detection     *)
(* thread blocked on its queue wakes when an entry is queued; the update  *)
(* timer keeps firing and the instance thread finishes a sweep it began.  *)
(* Packet arrival, the clock and the terminate signal are the             *)
(* environment's and carry no fairness.                                    *)
Fairness ==
    /\ \A c \in Captures : /\ WF_vars(CaptureUpdate(c))
                           /\ WF_vars(CaptureCreate(c))
                           /\ WF_vars(CaptureDispatch(c))
    /\ \A w \in Workers : /\ WF_vars(DetectExpiring(w))
                          /\ WF_vars(DetectSkip(w))
                          /\ WF_vars(DetectPacket(w))
    /\ WF_vars(StartUpdate)
    /\ WF_vars(AcquireBucket)
    /\ WF_vars(\E d \in Digests : ProcessFlow(d) \/ ExpireAllFlow(d))
    /\ WF_vars(ReleaseBucket)

Spec == Init /\ [][Next]_vars /\ Fairness

-----------------------------------------------------------------------------
(* Properties.                                                             *)

TypeOK ==
    /\ now \in 0..MaxTime
    /\ flows \subseteq Digests
    /\ flags \in [Digests -> SUBSET FlagNames]
    /\ dpiThread \in [Digests -> Workers \cup {NoWorker}]
    /\ lastSeen \in [Digests -> 0..MaxTime]
    /\ finAck \in [Digests -> BOOLEAN]
    /\ active \in [Digests -> BOOLEAN]
    /\ dpiPkts \in [Digests -> 0..MaxDetectionPkts]
    /\ emitted \in [Digests -> SUBSET EventNames]
    /\ queue \in [Workers -> Seq(Digests)]
    /\ lock \in [Buckets -> Captures \cup {NoOwner, Supervisor}]
    /\ cap \in [Captures -> [pc : {"idle", "locked", "dispatch", "offline"},
                             flow : Digests \cup {NoFlow}]]
    /\ sup.pc \in {"wait", "acquire", "visit", "exit"}
    /\ sup.mode \in {"update", "expire", "final"}
    /\ sup.left \subseteq flows
    /\ terminating \in BOOLEAN
    /\ statusFlows \in Nat

(* No lost expiry on shutdown (spec property 8): when the instance thread *)
(* returns after a terminate, every flow has been expired and purged      *)
(* (each with its flow_expire event): the flow map is empty.               *)
ExitClean ==
    sup.pc = "exit" => flows = {} /\ \A w \in Workers : queue[w] = <<>>

(* Termination: once a terminate IPC has been handled, the instance       *)
(* thread eventually leaves its IPC loop and returns, i.e. the flows left *)
(* expiring are all finalised by their detection threads and purged.      *)
TerminateDrains ==
    terminating ~> sup.pc = "exit"

(* Event order of a classified flow (spec scenario S1 and the state      *)
(* machine COMPLETE -> EXPIRING -> EXPIRED -> PURGED): a flow whose        *)
(* detection completed receives flow_expiring before its flow_expire.      *)
ExpiringBeforeExpire ==
    [][\A d \in flows \ flows' :
          "complete" \in flags[d] => "expiring" \in emitted[d]]_vars

-----------------------------------------------------------------------------
(* Refinement: the stage of a flow, read off its record, follows the      *)
(* abstract life of a flow in FlowStates.                                  *)

\* The stage of d's flow: no record, or the furthest lifecycle flag set.
FlowStage(d) ==
    CASE d \notin flows           -> "absent"
      [] "expired" \in flags[d]   -> "expired"
      [] "expiring" \in flags[d]  -> "expiring"
      [] "complete" \in flags[d]  -> "complete"
      [] OTHER                    -> "new"

Abstract == INSTANCE FlowStates WITH state <- [d \in Digests |-> FlowStage(d)]

\* Every step of the capture, detection and instance threads moves at most
\* one flow one stage along the abstract lifecycle: ExpireFlow never sends
\* a completed flow through an expiring pass, ProcessFlows' Reset(false)
\* never takes a flag back, and a record is erased only once expired.
LifecycleRefinement == Abstract!Spec

====
