--------------------------- MODULE CaptureSupervisor ---------------------------
(***************************************************************************)
(* The instance thread's management of capture threads (nd-instance.cpp): *)
(* CreateCaptureThreads builds a group of capture instances per interface *)
(* (several with TPv3 fanout or NFQUEUE), ReloadCaptureThreads diffs the  *)
(* configured interfaces against the running ones, ReapCaptureThreads     *)
(* counts the instances still alive on every update tick and shuts the    *)
(* agent down when none is, and a terminate destroys them all.  Capture   *)
(* instances die on their own on a fatal capture error (spec 7).          *)
(***************************************************************************)
EXTENDS Naturals, Sequences, FiniteSets, FiniteSetsExt

CONSTANTS
    Ifaces,             \* interface names
    Configs,            \* interface configurations
    Fanout,             \* [Configs -> Nat]: fanout_instances, 0 when disabled
    Absent,             \* no entry for an interface
    RunWithoutSources,  \* ndGC_RUN_WITHOUT_SOURCES
    CreateMayFail,      \* a capture thread's constructor or Create() may throw
    SizeWidth,          \* bits of size_t
    MaxEdits            \* bound on configuration edits

ASSUME
    /\ Fanout \in [Configs -> Nat]
    /\ RunWithoutSources \in BOOLEAN
    /\ CreateMayFail \in BOOLEAN
    /\ SizeWidth \in Nat \ {0}
    /\ MaxEdits \in Nat

VARIABLES
    conf,        \* conf[i]: the configuration file's entry for i
    interfaces,  \* interfaces[i]: the instance's ndInterface for i
    threads,     \* threads[i]: i's capture instances, running or terminated
    orphans,     \* capture instances running but in no table
    pc,          \* the instance thread: "run", "terminating", "exited"
    reapCount,   \* the count ReapCaptureThreads last returned
    reapAlive,   \* the instances alive when it last ran
    edits

vars == <<conf, interfaces, threads, orphans, pc, reapCount, reapAlive, edits>>

Entries == Configs \cup {Absent}

Present(f) == {i \in Ifaces : f[i] # Absent}

\* The instances of a table in state st.
CountIn(t, st) ==
    MapThenSumSet(LAMBDA i : Cardinality({k \in DOMAIN t[i] : t[i][k] = st}), Ifaces)

\* Capture instances of a table that have not terminated.
Alive(t) == CountIn(t, "run")

\* Capture instances of a table for which HasTerminated() holds.
Dead(t) == CountIn(t, "dead")

\* Interfaces whose table entry exists (threads.size()).
Groups(t) == {i \in Ifaces : t[i] # <<>>}

NoThreads == [i \in Ifaces |-> <<>>]

-----------------------------------------------------------------------------
\* CreateCaptureThreads, TPv3: one instance unless fanout is enabled with
\* at least two instances.
InstanceCount(c) == IF Fanout[c] < 2 THEN 1 ELSE Fanout[c]

\* A new group of running instances for configuration c.
NewGroup(c) == [k \in 1..InstanceCount(c) |-> "run"]

\* Mutant: the count is kept in a signed integer that goes negative.
ReapCountSigned(t) == Cardinality(Groups(t)) - Dead(t)

\* ReapCaptureThreads: count = threads.size(), decremented per instance
\* that HasTerminated(), in size_t arithmetic.
ReapCountOf(t) == (Cardinality(Groups(t)) - Dead(t)) % (2^SizeWidth)

\* Mutant: every common interface is treated as changed.
ChangedAll(cf, ifs) == {i \in Present(cf) \cap Present(ifs) : TRUE}

\* ReloadCaptureThreads: common interfaces whose ndInterface differs from
\* the running one (*i->second == *iface.second fails).
Changed(cf, ifs) == {i \in Present(cf) \cap Present(ifs) : cf[i] # ifs[i]}

\* Mutant: the delete loop leaves the interfaces entry in place.
EraseKeepInterface(ifs, del) == ifs

\* The delete loop erases each deleted interface from `interfaces`.
EraseInterfaces(ifs, del) == [i \in Ifaces |-> IF i \in del THEN Absent ELSE ifs[i]]

\* std::map::insert of the new interfaces, which keeps an existing entry.
InsertInterfaces(ifs, cf, new) ==
    [i \in Ifaces |-> IF i \in new /\ ifs[i] = Absent THEN cf[i] ELSE ifs[i]]

-----------------------------------------------------------------------------
\* The constructor leaves both tables empty; the configuration file holds
\* any set of interfaces.  Entry creates the capture threads with a first
\* ReloadCaptureThreads before it starts the update timer.
Init ==
    /\ conf \in [Ifaces -> Entries]
    /\ interfaces = [i \in Ifaces |-> Absent]
    /\ threads = NoThreads
    /\ orphans = 0
    /\ pc = "starting"
    /\ reapCount = 0
    /\ reapAlive = 0
    /\ edits = 0

\* A capture instance stops on a fatal capture error.
CaptureOffline(i, k) ==
    /\ k \in DOMAIN threads[i]
    /\ threads[i][k] = "run"
    /\ threads' = [threads EXCEPT ![i][k] = "dead"]
    /\ UNCHANGED <<conf, interfaces, orphans, pc, reapCount, reapAlive, edits>>

\* The administrator edits the configuration file.
EditConfig(i, e) ==
    /\ edits < MaxEdits
    /\ e # conf[i]
    /\ conf' = [conf EXCEPT ![i] = e]
    /\ edits' = edits + 1
    /\ UNCHANGED <<interfaces, threads, orphans, pc, reapCount, reapAlive>>

\* ReloadCaptureThreads, at start-up and on IPC ndIPC_RELOAD.  Removed and
\* changed interfaces lose their instances and entries; new and changed
\* ones get a new group, inserted with std::map::insert.  When the f-th
\* construction or Create() of the new instances throws, the f-1 started
\* before it keep running in the lost threads_new, and the reload fails:
\* at start-up Entry returns, in the loop it jumps to its exit path
\* (Terminate, DestroyCaptureThreads).
Reload ==
    LET chg == Changed(conf, interfaces)
        new == (Present(conf) \ Present(interfaces)) \cup chg
        del == (Present(interfaces) \ Present(conf)) \cup chg
        ifs == EraseInterfaces(interfaces, del)
        kept == [i \in Ifaces |-> IF i \in del THEN <<>> ELSE threads[i]]
        total == MapThenSumSet(LAMBDA i : InstanceCount(conf[i]), new)
    IN
    /\ pc # "exited"
    /\ \E f \in IF CreateMayFail THEN 0..total ELSE {0} :
          IF f = 0
            THEN /\ interfaces' = InsertInterfaces(ifs, conf, new)
                 /\ threads' = [i \in Ifaces |->
                                 IF i \in new /\ kept[i] = <<>>
                                   THEN NewGroup(conf[i]) ELSE kept[i]]
                 /\ pc' = IF pc = "starting" THEN "run" ELSE pc
                 /\ UNCHANGED orphans
            ELSE /\ interfaces' = ifs
                 /\ threads' = NoThreads
                 /\ orphans' = orphans + (f - 1)
                 /\ pc' = "exited"
    /\ UNCHANGED <<conf, reapCount, reapAlive, edits>>

\* IPC ndIPC_UPDATE: ReapCaptureThreads; with no capture instance left
\* (by its count) and not already terminating, it destroys the capture
\* threads and terminates.
Reap ==
    LET n == ReapCountOf(threads) IN
    /\ pc \in {"run", "terminating"}
    /\ reapCount' = n
    /\ reapAlive' = Alive(threads)
    /\ IF pc = "run" /\ n = 0 /\ ~RunWithoutSources
         THEN /\ threads' = NoThreads
              /\ pc' = "terminating"
         ELSE UNCHANGED <<threads, pc>>
    /\ UNCHANGED <<conf, interfaces, orphans, edits>>

\* IPC ndIPC_TERMINATE: Terminate(); DestroyCaptureThreads(threads, true).
TerminateIPC ==
    /\ pc \in {"run", "terminating"}
    /\ threads' = NoThreads
    /\ pc' = "terminating"
    /\ UNCHANGED <<conf, interfaces, orphans, reapCount, reapAlive, edits>>

\* Mutant: the exit path leaves the thread table to the destructor.
ExitKeepThreads ==
    /\ pc = "terminating"
    /\ pc' = "exited"
    /\ UNCHANGED <<threads, conf, interfaces, orphans, reapCount, reapAlive, edits>>

\* The Entry loop ends (the flows are drained, see FlowLifecycle) and the
\* exit path destroys the capture threads again.
Exit ==
    /\ pc = "terminating"
    /\ threads' = NoThreads
    /\ pc' = "exited"
    /\ UNCHANGED <<conf, interfaces, orphans, reapCount, reapAlive, edits>>

Next ==
    \/ \E i \in Ifaces : \E k \in DOMAIN threads[i] : CaptureOffline(i, k)
    \/ \E i \in Ifaces, e \in Entries : EditConfig(i, e)
    \/ Reload
    \/ Reap
    \/ TerminateIPC
    \/ Exit

Spec == Init /\ [][Next]_vars

-----------------------------------------------------------------------------
(* Properties.                                                             *)

TypeOK ==
    /\ conf \in [Ifaces -> Entries]
    /\ interfaces \in [Ifaces -> Entries]
    /\ threads \in [Ifaces -> Seq({"run", "dead"})]
    /\ orphans \in Nat
    /\ pc \in {"starting", "run", "terminating", "exited"}
    /\ reapCount \in 0..(2^SizeWidth - 1)
    /\ reapAlive \in Nat
    /\ edits \in 0..MaxEdits

(* Reload is diff-based (spec 4.9 and scenario S6): a reload of the      *)
(* running agent that succeeds leaves exactly the configured interfaces, *)
(* each with the group its configuration calls for, and an interface     *)
(* whose configuration did not change keeps its instances untouched,     *)
(* terminated ones included.                                              *)
ReloadDiff ==
    [][(/\ pc \in {"starting", "run"}
        /\ pc' # "exited"
        /\ Reload)
       => /\ interfaces' = conf
          /\ \A i \in Ifaces :
                /\ Len(threads'[i]) = IF conf[i] = Absent THEN 0
                                      ELSE InstanceCount(conf[i])
                /\ conf[i] = interfaces[i] => threads'[i] = threads[i]]_vars

(* While the agent runs, the thread table and the interface table agree:  *)
(* every interface has its group of instances and every group belongs to  *)
(* a known interface with that configuration.                             *)
TablesAgree ==
    pc = "run" =>
        \A i \in Ifaces :
            Len(threads[i]) = IF interfaces[i] = Absent THEN 0
                              ELSE InstanceCount(interfaces[i])

(* ReapCaptureThreads decides on its count whether capture has stopped:   *)
(* the count it computed is zero exactly when no capture instance was     *)
(* alive (spec 4.8: shut down when no capture threads remain alive, and   *)
(* only then).                                                             *)
ReapCountsAlive == (reapCount = 0) <=> (reapAlive = 0)

(* Every running capture instance is in the thread table, where a reap,   *)
(* a reload or a terminate can reach it.                                   *)
NoOrphanThreads == orphans = 0

====
