---------------------------- MODULE AgentInstance ----------------------------
(***************************************************************************)
(* The life of one ndInstance around the DNS-hint cache (nd-instance.cpp, *)
(* netifyd.cpp).  main calls Run, which creates the cache and the          *)
(* detection threads and starts the instance thread (Entry); Entry makes   *)
(* an initial ProcessUpdate, starts the capture threads and serves IPC    *)
(* until it terminates, destroying the capture threads and making a final *)
(* ProcessUpdate; main then destroys the instance, whose destructor stops *)
(* and deletes the detection threads and then deletes the cache.  The     *)
(* capture and detection threads hold the cache's pointer and insert and  *)
(* look up hints concurrently with all of this.  ProcessUpdate reads the  *)
(* cache size for the status and then purges it.                          *)
(*                                                                         *)
(* The capture threads are those of CaptureSupervisor, whose actions this *)
(* module composes with the cache; the flow drain Entry waits for before  *)
(* it leaves its loop is modelled in FlowLifecycle.                        *)
(***************************************************************************)
EXTENDS Naturals, FiniteSets, Sequences, TLC

CONSTANTS
    Keys, Hosts, Ttl,
    Ifaces, Configs, Fanout, Absent, RunWithoutSources, CreateMayFail,
    SizeWidth, MaxEdits,
    NumDetect,    \* detection threads (thread_detection[0..cpus-1])
    UseDhc,       \* ndGC_USE_DHC
    RunMayFail,   \* a detection thread's Create() (or a plugin) may throw
    MaxTime       \* bound on the clock

ASSUME
    /\ UseDhc \in BOOLEAN
    /\ RunMayFail \in BOOLEAN
    /\ NumDetect \in Nat \ {0}
    /\ {Ttl, MaxTime} \subseteq Nat

VARIABLES
    conf, interfaces, threads, orphans, pc, reapCount, reapAlive, edits,
    hints, now,   \* the cache's map and the clock
    dhc,          \* dns_hint_cache: "none" (nullptr), "live", "deleted"
    detect,       \* detect[d]: "none", "run", "stopping" (Terminate()), "deleted"
    phase,        \* main and Entry before the capture threads: "init", "update0", "entry"
    dtor,         \* the next step of the destructor, 1..Len(DestructorOrder)+1
    dhcSize       \* status.dhc_size

Sup == INSTANCE CaptureSupervisor

Dhc == INSTANCE DnsHintCache

supVars == <<conf, interfaces, threads, orphans, pc, reapCount, reapAlive, edits>>

vars == <<conf, interfaces, threads, orphans, pc, reapCount, reapAlive, edits,
          hints, now, dhc, detect, phase, dtor, dhcSize>>

Detectors == 1..NumDetect

Alive == {"run", "stopping"}

\* Capture instances that have not ended, in the table or orphaned.
CapturesAlive == Sup!Alive(threads) + orphans

-----------------------------------------------------------------------------
\* Mutant: the cache is deleted before the detection threads are stopped.
DestructorOrderCacheFirst == <<"delete_dhc", "terminate_detection", "delete_detection">>

\* ~ndInstance: Terminate and Join the instance thread, then a first pass
\* calls Terminate() on every detection thread, a second pass deletes
\* (joins) them, and only then is the cache deleted.
DestructorOrder == <<"terminate_detection", "delete_detection", "delete_dhc">>

\* The destructor step due.
Stage == IF dtor <= Len(DestructorOrder) THEN DestructorOrder[dtor] ELSE "done"

\* UpdateStatus: with ndGC_USE_DHC, status.dhc_size is read with
\* dns_hint_cache->GetSize(), with no nullptr check; the rusage, memory
\* and clock fields it also refreshes are not modelled.
UpdateStatus ==
    IF UseDhc THEN dhcSize' = Dhc!GetSize ELSE UNCHANGED dhcSize

\* Mutant: ProcessUpdate refreshes the status but does not purge.
ProcessUpdateNoPurge ==
    /\ UpdateStatus
    /\ UNCHANGED hints

\* ProcessUpdate's effect on the cache: UpdateStatus reads its size, then
\* it is purged (with the ndGC_USE_DHC and nullptr checks).
ProcessUpdate ==
    /\ UpdateStatus
    /\ IF UseDhc /\ dhc = "live" THEN Dhc!Purge ELSE UNCHANGED hints

dhcVars == <<hints, now, dhc, detect, phase, dtor, dhcSize>>

-----------------------------------------------------------------------------
Init ==
    /\ Sup!Init
    /\ hints = Dhc!NoHints
    /\ now = 0
    /\ dhc = "none"
    /\ detect = [d \in Detectors |-> "none"]
    /\ phase = "init"
    /\ dtor = 1
    /\ dhcSize = 0

\* Run: the cache when ndGC_USE_DHC, then the detection threads in order;
\* a throw at the f-th Create() leaves the f-1 before it running and Run
\* returns an error, so main destroys the instance at once.  Otherwise
\* ndThread::Create starts Entry.
Run ==
    /\ phase = "init" /\ pc = "starting"
    /\ dhc' = IF UseDhc THEN "live" ELSE "none"
    /\ \E f \in IF RunMayFail THEN 0..NumDetect ELSE {0} :
         /\ detect' = [d \in Detectors |-> IF f = 0 \/ d < f THEN "run" ELSE "none"]
         /\ phase' = IF f = 0 THEN "update0" ELSE "entry"
         /\ pc' = IF f = 0 THEN pc ELSE "exited"
    /\ UNCHANGED <<conf, interfaces, threads, orphans, reapCount, reapAlive, edits,
                   hints, now, dtor, dhcSize>>

\* Entry: "Process an initial update on start-up".
EntryUpdate ==
    /\ phase = "update0"
    /\ ProcessUpdate
    /\ phase' = "entry"
    /\ UNCHANGED supVars
    /\ UNCHANGED <<now, dhc, detect, dtor>>

\* ReloadCaptureThreads, at start-up and on ndIPC_RELOAD.  A failure in
\* the loop takes Entry's exit path, with its final ProcessUpdate; one at
\* start-up returns from Entry at once.
Reload ==
    /\ phase = "entry"
    /\ Sup!Reload
    /\ IF pc' = "exited" /\ pc # "starting" THEN ProcessUpdate
                                             ELSE UNCHANGED <<hints, dhcSize>>
    /\ UNCHANGED <<now, dhc, detect, phase, dtor>>

\* IPC ndIPC_UPDATE: ReapCaptureThreads, then ProcessUpdate.
UpdateTick ==
    /\ Sup!Reap
    /\ ProcessUpdate
    /\ UNCHANGED <<now, dhc, detect, phase, dtor>>

\* The Entry loop ends; its exit path destroys the capture threads and
\* makes a final ProcessUpdate.  main's loop sees HasTerminated.
EntryExit ==
    /\ Sup!Exit
    /\ ProcessUpdate
    /\ UNCHANGED <<now, dhc, detect, phase, dtor>>

\* Capture errors, IPC terminate and configuration edits leave the cache
\* alone.
SupEnvironment ==
    /\ \/ \E i \in Ifaces : \E k \in DOMAIN threads[i] : Sup!CaptureOffline(i, k)
       \/ \E i \in Ifaces, e \in Sup!Entries : Sup!EditConfig(i, e)
       \/ Sup!TerminateIPC
    /\ UNCHANGED dhcVars

\* ndInstance::Destroy, one step of the destructor at a time, once the
\* instance thread has ended.
TerminateDetection ==
    /\ pc = "exited" /\ Stage = "terminate_detection"
    /\ detect' = [d \in Detectors |-> IF detect[d] = "run" THEN "stopping" ELSE detect[d]]
    /\ dtor' = dtor + 1
    /\ UNCHANGED supVars
    /\ UNCHANGED <<hints, now, dhc, phase, dhcSize>>

DeleteDetection ==
    /\ pc = "exited" /\ Stage = "delete_detection"
    /\ detect' = [d \in Detectors |-> IF detect[d] = "none" THEN "none" ELSE "deleted"]
    /\ dtor' = dtor + 1
    /\ UNCHANGED supVars
    /\ UNCHANGED <<hints, now, dhc, phase, dhcSize>>

DeleteDhc ==
    /\ pc = "exited" /\ Stage = "delete_dhc"
    /\ dhc' = IF dhc = "live" THEN "deleted" ELSE dhc
    /\ hints' = Dhc!NoHints
    /\ dtor' = dtor + 1
    /\ UNCHANGED supVars
    /\ UNCHANGED <<now, detect, phase, dhcSize>>

\* A capture or detection thread that is still running inserts a hint it
\* learned from a DNS answer through the pointer it was given.
InsertHint(k, h) ==
    /\ UseDhc
    /\ \E d \in Detectors : detect[d] \in Alive
       \/ CapturesAlive > 0
    /\ Dhc!Insert(k, h)
    /\ UNCHANGED supVars
    /\ UNCHANGED <<now, dhc, detect, phase, dtor, dhcSize>>

\* A second passes.
Tick ==
    /\ now < MaxTime
    /\ now' = now + 1
    /\ UNCHANGED supVars
    /\ UNCHANGED <<hints, dhc, detect, phase, dtor, dhcSize>>

Next ==
    \/ Run
    \/ EntryUpdate
    \/ Reload
    \/ UpdateTick
    \/ EntryExit
    \/ SupEnvironment
    \/ TerminateDetection
    \/ DeleteDetection
    \/ DeleteDhc
    \/ \E k \in Keys, h \in Hosts : InsertHint(k, h)
    \/ Tick

\* Entry's own ReloadCaptureThreads at start-up.
StartCapture == pc = "starting" /\ Reload

(* The update timer fires every update_interval while Entry runs; Entry   *)
(* starts its capture threads and leaves its loop by itself, main runs    *)
(* and destroys the instance, and time passes.  Reload, terminate and     *)
(* update signals from outside, capture errors, edits and hints get no    *)
(* fairness.                                                              *)
Fairness ==
    /\ WF_vars(UpdateTick)
    /\ WF_vars(Run) /\ WF_vars(EntryUpdate) /\ WF_vars(StartCapture)
    /\ WF_vars(EntryExit)
    /\ WF_vars(TerminateDetection) /\ WF_vars(DeleteDetection) /\ WF_vars(DeleteDhc)
    /\ WF_vars(Tick)

Spec == Init /\ [][Next]_vars /\ Fairness

-----------------------------------------------------------------------------
(* Properties.                                                             *)

(* CaptureSupervisor's table invariant and diff-based reload, checked on   *)
(* the composed instance.                                                  *)
TablesAgree == Sup!TablesAgree

ReloadDiff == Sup!ReloadDiff

TypeOK ==
    /\ Sup!TypeOK
    /\ DOMAIN hints \subseteq Keys
    /\ \A k \in DOMAIN hints : hints[k] \in Dhc!Hint
    /\ now \in 0..MaxTime
    /\ dhc \in {"none", "live", "deleted"}
    /\ detect \in [Detectors -> {"none", "run", "stopping", "deleted"}]
    /\ phase \in {"init", "update0", "entry"}
    /\ dtor \in 1..(Len(DestructorOrder) + 1)
    /\ dhcSize \in 0..Cardinality(Keys)

(* The cache is deleted only when no thread that holds its pointer is     *)
(* still alive: the instance thread, whose UpdateStatus reads the cache   *)
(* with no nullptr check, has returned; the destructor stops and joins    *)
(* the detection threads, and Entry's exit path the capture threads,      *)
(* before `delete dns_hint_cache`; a thread still running after it would  *)
(* read or insert into freed memory.                                      *)
NoUseAfterFree ==
    dhc = "deleted" =>
        /\ pc = "exited"
        /\ \A d \in Detectors : detect[d] \notin Alive
        /\ CapturesAlive = 0

(* An expired hint does not stay in the cache: the update tick purges it, *)
(* or the cache is deleted (spec 4.8 step 2).  Expiry alone never removes *)
(* an entry; without the purge in ProcessUpdate the map would only grow.  *)
ExpiredHintsPurged ==
    \A k \in Keys :
        (dhc = "live" /\ Dhc!Expired(k)) ~> (dhc # "live" \/ ~Dhc!Expired(k))

(* Capture stops for good once the agent terminates: after a terminate   *)
(* IPC or a reap that found no capture alive, eventually no capture       *)
(* instance runs, ever again.  A reload IPC handled before the Entry loop *)
(* exits re-creates the configured capture threads for the terminating    *)
(* agent; only the exit path's second DestroyCaptureThreads stops them.   *)
CaptureStops == (pc = "terminating") ~> [](CapturesAlive = 0)

====
