# TLA+ models of the Netify agent (netifyd)

This directory holds TLA+ specifications of the concurrent core of the
Netify agent, together with the TLC configurations that check them.
`PROJECT.json` lists:

- every component and how far it is modelled;
- every run and the properties it checks;
- the mutant that each passing property must catch;
- the source lines each definition translates;
- the findings;
- the hazards of the code.

## 1. The system (inventory)

The agent (`src/src/nd-instance.cpp`, `ndInstance`) runs one instance
thread, capture threads, and one detection thread per DPI worker. The
capture threads (one or more per interface) and the detection threads are
not in `src/`.

| Part | Code | State | Operations that change it |
|---|---|---|---|
| C5 sharded flow map | `nd-flow-map.cpp` | buckets of `digest -> shared_ptr<ndFlow>`, one mutex per bucket | `Lookup(d, acquire)`, `Insert(d, f, unlocked)`, `Delete`, `Acquire(b)`, `Release(b)`, `Release(d)` |
| C2 flow record | `nd-flow.cpp` | atomic flags (`detection_init`, `detection_complete`, `detection_guessed`, `expiring`, `expired`, `tcp_fin_ack`, ...), counters, `ts_last_seen`, `dpi_thread_id` | ctor, `Hash`, `Reset(full)`, `UpdateLowerMaps`/`GetLowerMap` |
| C6 capture threads | outside `src/` (spec 4.6) | per-thread packet in hand | look up or create the flow under the bucket lock, then queue the packet to the flow's sticky detection thread (drop when the queue is full) |
| C7 detection threads | outside `src/` (spec 4.7) | per-thread queue of flow references | DPI pass, budget of `max_detection_pkts`, final pass of an expiring flow, the `flow_new`/`flow_dpi_complete`/`flow_expiring` events |
| C8 update tick | `ndInstance::ProcessUpdate`, `ProcessFlows`, `ExpireFlow` | `status.flows`, the flows' flags | expire idle flows, purge expired flows only the bucket holds, `Reset()` active flows |
| C9 instance supervisor | `ndInstance::Entry`, `DestroyCaptureThreads`, `ReapCaptureThreads`, `ReloadCaptureThreads` | IPC loop, capture-thread table | update, terminate (expire every flow), reload, reap, loop exit once terminating with `status.flows == 0`, final `ProcessUpdate` |
| C3 flow-hash cache | `nd-fhc.cpp` | MRU-ordered list plus index, capacity `max_fhc` | `Push` (evicts `cap / fhc_purge_divisor` at capacity), `Pop` (move to head), `Load`, `Save` |
| C4 DNS-hint cache | only `nd-dhc.hpp` | address -> (hostname, expiry) | `Insert`, `Lookup`, `Purge`, `Load`, `Save` |
| C1 address classifier | `ndFlow::GetLowerMap` | pure | `(lower_type, upper_type) -> (lower_map, other_type)` |
| categories | `nd-category.cpp` | category tag indexes, the `categories.d` domain index | `Load`, `LoadDotDirectory`, `LookupTag`, `LookupDotDirectory` suffix walk |
| Netify API | `nd-napi.cpp` | bootstrap and download request threads, token, URLs, `ttl_last_update`, download results | `Update` (bootstrap/download/collect/summary), `Terminate` |
| flow expression parser | `nd-flow-expr.cpp` | Bison tables; per parse the local/other view of a flow | `Parse`, and one semantic action per grammar rule |

**How the parts interact.**
- Capture threads and the instance thread's sweeps share the flow map, one bucket lock at a time.
- A flow's packets, and the final packet-less entry of an expiring flow, reach its sticky detection thread through that thread's queue.
- A queue entry holds a strong reference to the flow. So does a capture thread between its lookup and its dispatch.
- The update tick may erase a flow only when `use_count() == 1`.
- A terminate expires every flow. The instance thread then keeps running update ticks until `status.flows == 0`, and only then returns.

**What makes it hard.**
- The purge test races with references held outside the bucket lock.
- A completed flow takes a different expiry path from one still in detection.
- Termination depends on every expiring flow being finalised by its detection thread.
- The FHC eviction arithmetic and its persistence order.
- The per-interface versus per-instance count in `ReapCaptureThreads`.
- The signature update path: request threads, a server that fails or publishes, file copies, reloads and restarts must still converge on the published files.
- The DNS-hint cache is shared by every capture and detection thread and deleted by the destructor, so teardown order matters, and its entries leave only by the update tick's purge.
- The flow-expression predicates read the local/other view `Parse` derives from the lower map, and category predicates compare ids from two indexes.

## 2. Plan

The modules come in order of importance:

1. **FlowLifecycle** (done). The flow map, capture threads, detection threads, the update tick and the terminate path, composed in one module because they share the flow records and the bucket locks.
2. **FlowHashCache** (done), with the abstract **BoundedCache** and **LruCache** it is checked against.
3. **AddrClassifier** (done). `GetLowerMap` and `UpdateLowerMaps`.
4. **FlowExpr** (done), composed with AddrClassifier. `ndFlowParser::Parse` and every semantic action of the grammar.
5. **CaptureSupervisor** (done). Capture thread creation, reload, reap and destroy.
6. **NetifyApi**, **Categories** and their composition **SignatureUpdate** (done).
7. **DnsHintCache** and its composition with CaptureSupervisor, **AgentInstance** (done): the TTL cache of spec property 5 and the instance's life around it.
8. **FlowStates** (done): the abstract per-flow lifecycle that FlowLifecycle is shown to implement. It is the code's own machine, because completed flows skip `EXPIRING` (see Findings).

## 3. FlowLifecycle

**State.**
- `flows` is the set of digests in the map.
- Per digest, the record's `flags`, `dpiThread`, `lastSeen`, `finAck`, `active` (packets since the last `Reset()`), `dpiPkts`, and the plugin events already emitted.
- `queue[w]`, the detection queues.
- `lock[b]`, the bucket mutexes.
- `cap[c]`, a capture thread's program counter and flow.
- `sup`, the instance thread's program counter, the sweep's bucket, the flows left in it and the count purged.
- `terminating` and `statusFlows`.

The reference count is derived rather than stored: `Referenced(d)` is a capture thread in `dispatch` holding `d`, or an entry of `d` in some queue.

**Actions and the code they translate.**
- `CaptureLookup`, `CaptureUpdate`, `CaptureCreate` and `CaptureDispatch` are one packet of a capture thread, split at the bucket lock:
  - `Lookup(d, true)`;
  - update, or create and `Insert(.., true)`;
  - `Release(d)`;
  - queue to the sticky thread.
  
  An FHC hit makes `dpiThread` none.
- `DetectExpiring`, `DetectSkip` and `DetectPacket` are one dequeued entry of a detection thread.
- `StartUpdate` is the `ndIPC_UPDATE` case and `ProcessUpdate`.
- `AcquireBucket`, `ProcessFlow` and `ReleaseBucket` form the `ProcessFlows` loop. `ProcessFlow` is the whole loop body for one flow:
  - the idle test with its TTL choice;
  - `ExpireFlow`;
  - the `use_count() == 1` purge;
  - `Reset()`.
  
  `ReleaseBucket` after the last bucket does `status.flows -= flows_purged` and the Entry loop's exit test `LoopExit`.
- `TerminateIPC` and `ExpireAllFlow` are `ndIPC_TERMINATE` and `DestroyCaptureThreads(threads, true)`. The join waits for every capture thread to finish its packet.
- After the loop exits, the `final` sweep is the final `ProcessUpdate`, and `Exited` is the return.

**Fairness.** The actions get weak fairness as follows:
- Capture threads finish a packet they have started, because the bucket lock is held briefly and dispatch never blocks.
- Detection threads block on a condition variable and wake on every queued entry.
- The update timer fires every `update_interval`.
- The instance thread finishes a sweep it has begun.

Packet arrival (`CaptureLookup`), the clock and the terminate signal come from the environment and are not fair.

**Bounds** (`MCFlowLifecycle.cfg`):
- two digests in different buckets, one of them TCP;
- one detection thread;
- one capture thread;
- a detection budget of 2 packets and a queue bound of 2, so a full queue also drops a packet;
- TTLs of 0 (non-TCP and FIN-acked) and 1 (TCP), with the clock capped at 1 (`MaxTime`).

These are enough for:
- a flow to be created, classified, guessed, idled, expired through both `ExpireFlow` paths, purged and re-created;
- a capture thread to hold a flow while the sweep visits it;
- a terminate to overtake flows still in detection.

One run checks the safety properties and the liveness property together;
a clock of 1 keeps the liveness tableau small. With it a UDP flow goes
idle (`TtlIdleFlow` = 0), while a TCP flow never reaches its own idle TTL
(`TtlIdleTcpFlow` = 1) and expires only after FIN-ack, which selects the
zero TTL.

**Runs.**

| run | cfg | checks | result |
|---|---|---|---|
| lifecycle_safety | MCFlowLifecycle.cfg | `TypeOK`, `ExitClean`, `TerminateDrains`, `LifecycleRefinement` | pass, 388,685 states, about 90 s |
| lifecycle_expiring_order | MCFlowLifecycleOrder.cfg | `ExpiringBeforeExpire` | violation |

What each property means:
- `ExitClean`: the instance thread returns only with an empty map and empty queues (spec property 8).
- `TerminateDrains`: after a terminate, the instance thread eventually returns.
- `TypeOK`: includes the detection budget `dpiPkts <= max_detection_pkts` (spec property 7).
- `LifecycleRefinement`: FlowLifecycle implements FlowStates (below). A mutant of `ExpireFlow` that tests `expiring` before `detection_complete` sends a completed flow through an expiring pass, and breaks it. It also catches two other bugs. A purge that skips the `use_count() == 1` test lets a late detection step write flags into the next flow of the same digest, so that flow is born complete. A tick `Reset()` with `full_reset` sends a concluded or expiring flow back to `new`.

**Refinement: FlowStates.** `FlowStates` is what the flow table promises about one flow, as a state machine over each digest's stage: `absent`, `new`, `complete`, `expiring`, `expired`. Its steps are:
- `Create` (absent to new), `Conclude` (new to complete), `StartExpiry` (new to expiring);
- `ExpireUndetected` (new to expired: no detection thread owns the flow) and `Expire` (complete to expired);
- `FinishExpiry` (expiring to expired) and `Remove` (expired to absent);
- `ExpireAndRemove` (new or complete to absent in one step).

FlowLifecycle maps each digest to its stage with `FlowStage`: no record is `absent`, otherwise the furthest of the `expired`, `expiring` and `complete` flags, else `new`. It instantiates the abstract module as `Abstract == INSTANCE FlowStates WITH state <- ...`, and `LifecycleRefinement == Abstract!Spec` is a `PROPERTY` of the run.

The first check of this refinement, without `ExpireAndRemove`, failed. `ProcessFlows` expires an idle flow and, in the same iteration under the same bucket lock, erases it when only the bucket holds it (`nd-instance.cpp` 2451-2474), so no thread ever sees that flow expired. The abstract machine takes this step as one. That agrees with the code, and it is also why a completed flow is purged with no `EVENT_FLOW_EXPIRING` (see Findings).

## 4. FlowHashCache, BoundedCache and LruCache

`FlowHashCache.tla` models `ndFlowHashCache` (`nd-fhc.cpp`). The flow hash cache maps a flow's primary digest to its metadata digest.

**State.**
- `index`: the `std::list` of (key, value) pairs, most recently used first.
- `lookup`: the `unordered_map` from a key to its list node, modelled by the value that node holds.
- `file`: the records of the cache file, in file order.

**Actions.**
- `Push(k, v)`: a present key changes nothing (the code only logs). Otherwise:
  - when `lookup.size() == cache_size`, Push evicts `cache_size / fhc_purge_divisor` nodes from the back of the list and erases their keys from the map;
  - it then pushes the pair to the front.
- `Pop(k)`: a hit moves the node to the front. A miss changes nothing.
- `Save`: writes the list front to back.
- `Restart`: `ndInstance::Run` constructs an empty cache, and `Load` pushes the file's records in file order (`LoadOp`, a `FoldLeft` of `PushOp`).

Push and Pop hold the cache mutex, so each is one atomic step.

**Abstractions.** Two abstract modules say what the cache promises:
- `BoundedCache` is a map of at most `Capacity` entries. A new key is stored; older entries go only when the map is full; a restart restores the last save.
- `LruCache` is the recency order. A use moves a key to the front, a new key enters at the front, eviction takes keys from the back, and a restart restores the saved order.

`FlowHashCache` maps its list to each of them with `INSTANCE ... WITH`:
- `AsMap(index)` for the bounded map;
- `KeySeq(index)` for the recency order.

**Bounds.** Four digests and two metadata values.
- A capacity of 3 and a divisor of 2: a full cache evicts one entry, and a fourth key forces an eviction.

With a capacity of 2 and a divisor of 3 the eviction count is 0: TLC
finds a cache of 3 entries after three pushes (a bound of `Capacity`
entries fails). That configuration is below the divisor, a
misconfiguration rather than a state of a running agent, so it is
recorded here and as a hazard, not kept as a run.

| run | cfg | checks | result |
|---|---|---|---|
| fhc_cache | MCFlowHashCache.cfg | `TypeOK`, `IndexConsistent`, `CacheRefinement` | pass, 48,065 states, about 60 s |
| fhc_restart_order | MCFlowHashCacheRestart.cfg | `LruOrder` | violation |

What each property means:
- `IndexConsistent`: every key of the map has exactly one node, holding the value the map points to. A key left in the map after eviction would be a dangling iterator.
- `CacheRefinement`: the cache implements `BoundedCache`, including the save/load round trip of spec property 4 for the set of entries.
- `LruOrder`: the cache implements `LruCache` across restarts.

## 5. AddrClassifier and FlowExpr

`AddrClassifier.tla` models how a flow's lower map is derived from the address types of its two endpoints (`nd-flow.cpp`). `FlowExpr.tla` extends it with the flow-expression parser (`nd-flow-expr.cpp`), which reads that lower map; `MCAddrClassifier.tla` instantiates the composition.

**AddrClassifier state.** `rec` holds the flow's fields and the fields of the inner addresses of a GTP tunnel:
- `lower_type` and `upper_type`;
- `lower_map`;
- `other_type`.

The other variables are `ipVersion`, `tunnel`, and whether `UpdateLowerMaps` has run.

**AddrClassifier definitions.**
- `GetLowerMap` is the code's `else if` chain, written as the ordered list `LowerMapRules`. The first matching row wins. A row either assigns `lower_map` or, in the error rows, leaves it as it was. No matching row leaves both outputs unchanged.
- `ClassifyEndpoints` is the capture thread typing the endpoints of a new flow (spec 4.6; that code is not under `src/`).
- `UpdateLowerMaps` maps each record whose `lower_map` is still unknown.

**FlowExpr state.** `fl` is the rest of the flow a plugin's expression reads (endpoints, origin, detection results, categories, risks, SSL, conntrack mark), chosen from `Flows`. `parsed` is the expression last parsed with the lower map it saw, `result` the value `Parse` returned, and `hung` whether it never returned.

**FlowExpr definitions.** The lexer and the LALR tables are not modelled: an expression is given as its parse tree. A leaf `[f, c, v]` names the grammar nonterminal, the comparison and the value token; an inner node is `||` or `&&`.
- One operator per nonterminal translates its semantic actions: `ExprIpProto`, `ExprIpNat`, `ExprMac`, `ExprIp` (`is_addr_equal` as `IsAddrEqual`), `ExprTunnelType`, `ExprCategory`, `ExprNdpiRiskScore`, `ExprCategoryField`, `ExprHostnameRegex`, `ExprFwmark`, `ExprSsl`, `ExprOrigin`, and so on. Shared shapes are `NumRule` and `FlagRule`; `LookupTag` is `ndCategories::LookupTag`.
- `ExprLeaf` is the `yyreduce` switch; `Evaluate` is the `||`, `&&` and parenthesis rules. Bison reduces both operands before the operator, so `ParseHangs` is true when any leaf's action does not return (`RegexHangs`, from the strip loop `StripLoopHangs`).
- `ParserContext` is `Parse`'s switch on `lower_map` and `origin`: the local and other endpoints and the origin the `local_*`, `other_*` and `origin` predicates read.
- `Parse(e)` is `ndFlowParser::Parse`: an unknown lower map returns false without parsing; otherwise the value of the tree in that context.

**Reference.** `RefEval` is what an expression says of a flow, read off the field each predicate names (`FieldValue`): `!=` is the negation of `==`, a category predicate holds when the flow has a category with that tag, and a regex matches the hosts it denotes.

**Bounds.** Every pair of address types, both IP versions, and both tunnel types; this is the whole input space of the classifier. Two flows (`MCFlows`): a detected one that the lower endpoint opened, with an application, names, categories, a risk and a host, and an undetected one the upper endpoint opened with every field empty. The pass run parses `MCSideExprs` (a port, an address, the origin, and a MAC `&&` regex); the reference run parses `MCAllExprs`, about 44 trees covering every nonterminal with both values of each comparison, an `||` and an `&&`.

| run | cfg | checks | result |
|---|---|---|---|
| classifier | MCAddrClassifier.cfg | `TypeOK`, `InsideIsLocal`, `DirectionSymmetric`, `LocalIsInside` | pass, 126,402 states, about 10 s |
| expr_reference | MCAddrClassifierTunnel.cfg | `ExprMatchesReference` | violation |

What each property means:
- `InsideIsLocal`: when exactly one endpoint is local or local-net, it is the one `lower_map` names.
- `DirectionSymmetric`: swapping the endpoints of a non-local flow flips `lower_map` and keeps `other_type`. The canonical endpoint order depends on address bytes, so both orders occur.
- `LocalIsInside`: for such a flow, `Parse` gives the `local_*` predicates the inside endpoint, the `other_*` predicates the outside one, and `origin == local` holds exactly when the inside endpoint opened the flow. It takes `GetLowerMap` and both of `Parse`'s switches together.
- `ExprMatchesReference`: on a mapped flow `Parse` returns, and returns `RefEval`'s value.

TLC reports `ExprMatchesReference` violated by `tunnel_type == none` on a local flow: the action compares `other_type`, not the tunnel type. Removing that tree, each of these violates it in turn (checked one at a time): `category != T`, `category == T` or `network_category == T` for a tag the index lacks, `proto_category == T` for such a tag on the undetected flow, `detected_hostname != rx:...` on a matching host, and `detected_hostname == rx:...`, which hangs. The remaining trees all agree with the reference. See Findings.

TLC also shows that an IPv6 flow with both endpoints reserved matches no row and keeps `lower_map` unknown, so `Parse` returns false for every expression on it. The IPv4 row maps that case to local. Spec 4.1 leaves this case as an open question, so it is recorded here and not kept as a run.

## 6. CaptureSupervisor

`CaptureSupervisor.tla` models the instance thread's management of capture threads (`nd-instance.cpp`).

**State.**
- `conf`: the configuration file's interfaces.
- `interfaces`: the instance's `ndInterface` table.
- `threads`: each interface's group of capture instances, each one running or terminated.
- `orphans`: started instances that no table holds.
- `pc`: the instance thread's phase (starting, run, terminating, exited).
- `reapCount` and `reapAlive`: the count `ReapCaptureThreads` last returned, and the number of live instances when it ran.

**Actions.**
- `Reload`: the whole of `ReloadCaptureThreads`, which Entry also uses at start-up. It diffs the file's interfaces against the running ones:
  - changed interfaces are both deleted and new;
  - the delete loop erases their threads and entries;
  - `CreateCaptureThreads` builds the new groups, which are inserted with `std::map::insert`.

  When CreateMayFail is set, the f-th construction or `Create()` may throw. The reload then fails, the f-1 instances already started are lost, and Entry exits.
- `Reap`: the whole of `ReapCaptureThreads`, with its count in `SizeWidth`-bit arithmetic.
- `TerminateIPC`: `Terminate()` and `DestroyCaptureThreads`.
- `Exit`: the loop exit and the exit path's `DestroyCaptureThreads`. When the flows drain is FlowLifecycle's concern.
- `CaptureOffline`: an instance dies on a fatal capture error (spec 7; the capture threads are not under `src/`).
- `EditConfig`: the administrator edits the file.

**Bounds.** Two interfaces, and two TPv3 configurations: one without fanout and one with two instances. This lets an edit change an interface's group, and lets one instance of a group die alone. There are at most two edits. `SizeWidth = 8` stands for `size_t`: the wrap is the same at any width.

| run | cfg | checks | result |
|---|---|---|---|
| capture_supervisor | MCAgentInstance.cfg (section 6b) | `TypeOK`, `TablesAgree`, `ReloadDiff`, ... | pass |
| capture_reap_count | MCCaptureSupervisorReap.cfg | `ReapCountsAlive` | violation |
| capture_create_failure | MCCaptureSupervisorCreateFail.cfg | `NoOrphanThreads` | violation |

What each property means:
- `TablesAgree`: while the agent runs, every interface has exactly the group its configuration calls for. It fails if the delete loop forgets to erase an interface, because `insert` would then keep the old entry.
- `ReloadDiff`: a successful reload leaves exactly the configured interfaces, and an unchanged interface keeps its instances, terminated ones included (spec S6).

The pass run checks these two properties on the composition AgentInstance (section 6b), whose capture threads are this module's.

TLC also shows a reload handled after `Terminate()`, while the flows drain. It starts capture threads for new or changed interfaces of a terminating agent. This is listed as a hazard, not as a run.

## 6b. DnsHintCache and AgentInstance

**DnsHintCache** models `ndDNSHintCache`. Only its declaration and `GetSize` are in `src/include/nd-dhc.hpp`, so `Insert`, `Lookup` and `Purge` are modelled from spec 4.4 and marked spec-modelled in the map:
- `hints` is `map_ar`, a function from the keys present to `[exp, host]`; `now` is the clock, owned by the composing module.
- `Insert(k, h)` sets the entry to expire at `now + Ttl`; `Lookup(k)` answers an entry with `exp >= now` and does not refresh it; `Purge` erases the entries with `exp < now`; `GetSize` is the map's size.
- Each operation holds the cache mutex for its whole body, so each is one step.

**AgentInstance** composes CaptureSupervisor (by `INSTANCE`, so its capture threads are the real supervised ones) with the life of `ndInstance` around the cache (`nd-instance.cpp`, `netifyd.cpp`):
- `Run`: creates the cache when `ndGC_USE_DHC`, then the detection threads in order. A throw at the f-th `Create()` leaves the f-1 before it running, and `main` destroys the instance at once.
- `EntryUpdate`: Entry's initial `ProcessUpdate`.
- `Reload`, `UpdateTick`, `EntryExit`: CaptureSupervisor's `Reload`, `Reap` and `Exit`, each with the `ProcessUpdate` the code makes there. `ProcessUpdate` is `UpdateStatus` and then the purge. `UpdateStatus` reads the cache size into `status.dhc_size`, with no `nullptr` check, unlike the purge.
- `SupEnvironment`: capture errors, configuration edits and the terminate IPC, which leave the cache alone.
- `TerminateDetection`, `DeleteDetection`, `DeleteDhc`: the destructor, one pass at a time in the order `DestructorOrder` gives (`Terminate()` on every detection thread, then `delete` each, then `delete dns_hint_cache`).
- `InsertHint(k, h)`: any capture or detection thread still alive inserts a hint through the pointer it was given. `Tick`: a second passes.

**Fairness.** The update timer fires every `update_interval` while Entry runs, so `UpdateTick` is weakly fair. Entry's own start-up steps, its exit, `main`'s call of `Run` and the destructor's passes are weakly fair, and so is time. Terminate and reload signals, capture errors, edits and inserts get no fairness.

**Bounds.** The capture supervisor's instance (two interfaces, configurations of one or two fanout instances, two edits), one address key, one hostname, a TTL of 1 and a clock of 3, and one detection thread whose `Create()` may throw. A hint can then be inserted, be live at its expiry second, expire, be purged and be inserted again.

| run | cfg | checks | result |
|---|---|---|---|
| capture_supervisor | MCAgentInstance.cfg | `TypeOK`, `TablesAgree`, `ReloadDiff`, `NoUseAfterFree`, `ExpiredHintsPurged`, `CaptureStops` | pass, 220,878 states, about 90 s |

What the new properties mean:
- `NoUseAfterFree`: the cache is deleted only once three conditions hold: the instance thread has returned (its `UpdateStatus` would read a deleted cache); no detection thread runs or is stopping; and no capture instance, in the table or orphaned, is alive. The mutant that deletes the cache before the detection threads are stopped breaks it.
- `ExpiredHintsPurged`: an expired hint is eventually removed, or the cache deleted. Without the purge in `ProcessUpdate` it fails.
- `CaptureStops`: once the agent is terminating, eventually no capture instance runs, ever again. A reload IPC handled between `Terminate()` and the loop exit re-creates the configured capture threads (`Reload` is enabled while terminating). Only the exit path's second `DestroyCaptureThreads` stops them. The mutant whose exit path leaves the table to the destructor breaks the property, through exactly that interleaving.

Capture instances orphaned by a failed `Create()` (the `NoOrphanThreads` finding) keep the cache's pointer after the destructor deletes it. The pass run keeps `Create()` from failing, so that use-after-free shows up as the orphan finding rather than as a second run. The run does not check deadlock: once the instance is destroyed the process ends.

## 7. NetifyApi, Categories and SignatureUpdate

The agent keeps its application configuration and its categories file up to date from the Netify API, and reloads the categories when they change. Three modules model this path.

**NetifyApi** (`nd-napi.cpp`, `ndNetifyApiManager`).
- State: the bootstrap request (`boot`, `bootOk`), the token and URLs, the two download requests (`req`, the local file's `digest` each was started with, the `out`come it left), `download_results`, whether `ttl_napi_update` has passed (`due`), the local files, and the server (`server` versions, `healthy`, with bounded publications and outages).
- `Update` is the whole of `ndNetifyApiManager::Update`: the bootstrap is processed and erased when finished, or created; finished downloads are processed (a 401/403 clears the token and resets the TTL; a 200 is copied over the local file with `nd_copy_file`); with no download left and results pending it returns whether any succeeded and clears them; otherwise, with a token, URLs and the TTL passed, it starts one download per URL with the local file's digest.
- `BootFinish` and `DownloadFinish(t)` are the request threads' `Entry`: the HEAD, and with a digest and a 200 a GET unless `x-sha1-hash` matches. Without a digest only the HEAD runs. Each request is `Perform`: `http_rc` is -1 until the server answers, a curl error leaves it -1, a HEAD gets no body, and a GET's body goes to the temporary file.
- `TtlExpire`, `Publish`, `ServerDown` and `ServerUp` are time and the server.

**Categories** (`nd-category.cpp`, `ndCategories`).
- State: the application tag index (`tags`), the domain index (`domains`, category id to `dom:` suffixes), the files in `categories.d` and those the last scan saw.
- `Load` replaces the tag index from a file in the current format and keeps it when the file does not load. `LoadDotDirectory` rebuilds the domain index from the files in readdir order (`ScanDotD`, every order), with `insert` keeping the first entry of an id; when the scan finds no file it returns before resetting. `LookupFrom` is `LookupDotDirectory`'s suffix walk.
- `EditDotD` is an administrator adding or removing a file.

**SignatureUpdate** composes them with `INSTANCE`: `NapiTick` is the instance thread's `ndIPC_UPDATE_NAPI` handler, `Update` followed, when it returns true, by the categories part of `Reload` (`Load`, then `LoadDotDirectory`). `Restart` is the agent stopping and starting: request threads die, files persist, and the start-up `Reload` loads the categories from the files. `CrashInCopy` is the agent dying inside `nd_copy_file`: the local file, opened with `trunc`, holds part of the new content ("partial", a file that does not load), the copies earlier in Update's loop (config before categories) are complete, and the next start loads from what is on disk.

**Fairness.** `NapiTick` (the update timer fires for ever), `BootFinish` and `DownloadFinish` (curl's 60 s timeout ends every request) and `TtlExpire` (time passes) are weakly fair. The server, the administrator and restarts get none.

**Bounds.** Two published versions, where the second drops the `ads` category and renumbers `games`; one publication, one outage, one restart or crash during a copy. The files start absent or at the first version. `categories.d` holds an `ads` file and a `games` file with nested suffixes; the pass run may remove and re-add the `games` file, the dotd run either file. Four lookups: under each listing, under a parent only, and unlisted.

| run | cfg | checks | result |
|---|---|---|---|
| signature_update | MCSignatureUpdate.cfg | `TypeOK`, `InstallReported`, `DomainsMatchFiles`, `LookupSuffix`, `UpdatesPropagate` | pass, 280,560 states, about 2 min |
| napi_empty_install | MCSignatureUpdateInstall.cfg | `InstalledIsPublished` | violation |
| dotd_stale_domains | MCSignatureUpdateDotd.cfg | `DomainsMatchFiles` | violation |

What each property means:
- `InstallReported`: every file copied since the last reload has its success waiting in `download_results`, so the next summary triggers a reload.
- `DomainsMatchFiles`: the domain index is the one the scanned files define under the tag index in force, so ids renumbered by a new categories file are never mixed with old ones.
- `LookupSuffix`: the suffix walk answers with a category listing the longest listed suffix, or unknown.
- `UpdatesPropagate`: once the server stays healthy, the agent ends up for ever with both files as published and the published categories loaded, whatever failures, 401s, publications, restarts and crashes during a copy came before. A truncated file's digest never matches the server's hash, so the next round downloads it again.
- `InstalledIsPublished`: a local file is only ever replaced by a published one.

## 8. Findings

- **Completed flows skip `flow_expiring`** (`nd-instance.cpp:2329`). `ExpireFlow` marks a flow with `detection_complete` expired directly. It neither sets `expiring`, nor queues the final pass, nor broadcasts `EVENT_FLOW_EXPIRING`. The same sweep of the same tick purges it, with only `flow_expire`.

  Spec scenario S1 (a classified TCP flow) expects `flow_expiring` before `flow_expire`, and property 6 orders `expiring` before `expired`. TLC's counterexample for `ExpiringBeforeExpire`:
  1. create a flow;
  2. complete its detection;
  3. one tick expires and purges it.
- **The FHC is unbounded when `max_fhc < fhc_purge_divisor`** (`nd-fhc.cpp:52`), a misconfiguration kept as a hazard. The eviction count `cache_size / fhc_purge_divisor` is 0. Once the size passes `cache_size`, the `==` test never holds again. Counterexample: three pushes into a cache of capacity 2.
- **A restart reverses the FHC's LRU order** (`nd-fhc.cpp:127`). `Save` writes the most recent entry first, and `Load` pushes each record to the front. After a restart the least recently used entry is at the front, and the next evictions drop the most recent ones. Counterexample: push `k1`, push `k2`, save, restart.
- **`tunnel_type` expressions compare `other_type`** (`nd-flow-expr.cpp:2512`). The actions for `tunnel_type == none|gtp` and `!=` test the flow's `other_type` against the `TUNNEL_*` values. A local flow does not match `tunnel_type == none`.
- **`category != T` is not the negation of `category == T`** (`nd-flow-expr.cpp:2872`). It is true when the tag's id differs from the application category, or else from the domain category. A flow in `T` by application but not by domain matches both.
- **An unknown tag names the uncategorised flows** (`nd-category.cpp:362`). `LookupTag` returns `ND_CAT_UNKNOWN` for a tag the index lacks, the id every uncategorised flow carries, so `category == typo` or a tag a newer categories file dropped matches them.
- **`detected_hostname != rx:...` is always true** (`nd-flow-expr.cpp:3557`). The action sets the result without evaluating the regex.
- **`detected_hostname == rx:...` never returns** (`nd-flow-expr.cpp:3523`). The loop `while ((p = rx.find_first_of(":")) != npos) rx.erase(0, p);` erases up to the ':' but not the ':' itself, so from the second iteration it erases nothing. Any expression containing the predicate hangs the plugin thread that parses it, on every mapped flow.
- **A download without a local file installs an empty file** (`nd-napi.cpp:397`). With no local file there is no digest, only the HEAD runs, and its empty temporary file is copied over the local file as a success; the agent reloads empty categories until the next round. TLC finds `InstalledIsPublished` violated from a first start without the files.
- **Removing every file of `categories.d` keeps its domains** (`nd-category.cpp:394`). `LoadDotDirectory` returns before `ResetDomains` when the scan finds no file, so the domains of removed files stay loaded until a restart. TLC finds `DomainsMatchFiles` violated once both files are removed and a reload follows.
- **The reap count is per interface, the decrement per instance** (`nd-instance.cpp:2095`). With fanout, one dead instance of two makes the count 0, and the agent shuts down while the other still captures. Two dead instances wrap the count, and shutdown never comes.
- **A failed `Create()` leaks running capture threads** (`nd-instance.cpp:2051`). The instances started before the throw stay in the local `threads_new`, out of reach of every reap and destroy. Entry then exits, where spec 7 says a failed reload keeps the old configuration.

## 9. Not modelled

- Packet parsing, SHA-1 digests, statistics, rates, JSON and status files, plugin event payloads, and logging are data or formatting that no property reads.
- The flow-expression lexer (`nd-flow-expr.lpp`, not in `src/`) and the LALR tables: the model starts from parse trees, so syntax errors and `yyerror`'s throw are out of scope. Whether the parser's `_NDFP_*` state is per instance is defined in `nd-flow-parser.hpp`, which is not in `src/`.
- How a flow gets its category ids (the detection threads, not in `src/`), so a category reload between a flow's categorisation and a parse is not modelled.
- The legacy categories format (`LoadLegacy`) and `IsMember`'s network lookups.
- Netlink, the plugin part of the run-time `Reload()` (its categories part is in SignatureUpdate), and plugin reaping.
- The address-set refresh of a reload. It feeds `addr_types`, and no module models the classifier's address tables.
- `terminate_force`. It skips `DestroyCaptureThreads` and breaks out of the loop at once.
- The HTTP transfers of the API manager beyond their outcome (status code, body version), and the application configuration's own reload.
- The DNS-hint cache's `Load` and `Save` (CSV persistence): their code is not under `src/` and nothing under `src/` calls them. Which thread inserts which hint, and the lookups made when a flow is created, are in the capture and detection threads, which are not under `src/`; the model lets any live thread insert.
- The pid file (`Daemonize`, `nd_load_pid`, `nd_save_pid`, `nd_is_running`). Two agents starting together can both pass the check, which is a race between processes and the file system, outside the one-instance model. It is listed as a hazard.
- The agent status file (`SaveAgentStatus` through `nd_file_save`, read by `--status` through `nd_file_load`): its `flock` locks and descriptors are not modelled state, and `ProcessUpdate` is one step. A failed write leaks the descriptor with the exclusive lock held, after which the next save blocks the instance thread for ever; this is listed as a deadlock hazard.
- CPU affinity of detection and capture threads (the `cpu` counters of `Run` and `CreateCaptureThreads`): the affinity is applied in `ndThread`, which is not under `src/`. The counters' edges are listed as hazards.
- `ndFlow::Hash`: how many bytes it reads from `detected_protocol` depends on types declared outside `src/`, so the digest is a model value.
- `CreateCaptureInterfaces`: an interface listed under two roles keeps the first role's entry. The model's configuration has one entry per interface.
- `ndCategories::Lookup` and `ResolveTag` (the application-to-category index, used only by `--dump` style listings).
- `ndCategories::IsMember` always returns `false` (its last statement): nothing under `src/` calls it, so no modelled behaviour depends on it.
