---------------------------- MODULE SignatureUpdate ----------------------------
(***************************************************************************)
(* The signature and category update path of the agent: the instance      *)
(* thread's ndIPC_UPDATE_NAPI handler calls ndNetifyApiManager::Update,   *)
(* and when it returns true calls Reload(false), which reloads the        *)
(* categories from the file the download wrote and rebuilds the domain    *)
(* index from categories.d (nd-instance.cpp).  The agent may restart: the *)
(* files persist, the manager starts afresh, and the constructor's empty  *)
(* categories are reloaded from the files at start-up.                    *)
(***************************************************************************)
EXTENDS Naturals, FiniteSets

CONSTANTS
    Versions, TagIndex, DotFiles, Removable, DotdCategories, Unknown,
    MaxPublish, MaxOutages,
    InitFiles,     \* contents the files may hold when the agent first starts
    InitVersion,   \* the version the server first publishes
    Queries,       \* domains looked up in the dotd index
    MaxRestarts

VARIABLES
    boot, bootOk, hasToken, urls, req, digest, out, results, due,
    file, server, healthy, publishes, outages,
    tags, domains, dotd, scanned,
    installed,     \* files copied since the last Reload
    restarts

Api == INSTANCE NetifyApi
Cat == INSTANCE Categories

vars == <<boot, bootOk, hasToken, urls, req, digest, out, results, due,
          file, server, healthy, publishes, outages,
          tags, domains, dotd, scanned, installed, restarts>>

Types == Api!Types

\* ndInstance start-up: the categories constructor, then Reload(false).
StartupReload(c) == Cat!ReloadCategories(Cat!NoEntries, Cat!NoEntries, c)

-----------------------------------------------------------------------------
Init ==
    /\ Api!ManagerInit
    /\ file \in [Types -> InitFiles]
    /\ server = [t \in Types |-> InitVersion]
    /\ healthy = TRUE
    /\ publishes = 0
    /\ outages = 0
    /\ dotd = DotFiles
    /\ \E order \in Cat!ScanDotD(dotd) :
          /\ tags = Cat!Load(Cat!NoEntries, file["categories"])
          /\ domains = IF DotdCategories
                         THEN Cat!LoadDotDirectory(tags, Cat!NoEntries, order)
                         ELSE Cat!NoEntries
          /\ scanned = IF DotdCategories THEN dotd ELSE {}
    /\ installed = {}
    /\ restarts = 0

\* ndIPC_UPDATE_NAPI: Update, and Reload(false) when it returns true.
NapiTick ==
    /\ Api!Update
    /\ IF Api!UpdateReload
         THEN /\ Cat!ReloadCategories(tags, domains, file'["categories"])
              /\ installed' = {}
         ELSE /\ UNCHANGED <<tags, domains, dotd, scanned>>
              /\ installed' = installed \cup Api!Copied
    /\ UNCHANGED restarts

\* The agent stops and starts again (a crash, or a restart of the service):
\* the request threads die with it, the files and categories.d persist,
\* and the new instance loads the categories from the files.
Restart ==
    /\ restarts < MaxRestarts
    /\ restarts' = restarts + 1
    /\ Api!ManagerRestart
    /\ StartupReload(file["categories"])
    /\ installed' = {}
    /\ UNCHANGED <<file, server, healthy, publishes, outages>>

\* The agent dies in Update while nd_copy_file of download t streams the
\* temporary file over the local one: the local file, opened with trunc,
\* holds part of the new content, the copies before it in the loop are
\* complete, and the next start loads the categories from what is on disk.
CrashInCopy ==
    /\ restarts < MaxRestarts
    /\ \E t \in Api!Copied :
         file' = [Api!Install(file, Api!CopiedBefore(t, Api!Copied))
                    EXCEPT ![t] = "partial"]
    /\ restarts' = restarts + 1
    /\ Api!ManagerRestart
    /\ StartupReload(file'["categories"])
    /\ installed' = {}
    /\ UNCHANGED <<server, healthy, publishes, outages>>

catUnchanged == UNCHANGED <<tags, domains, dotd, scanned, installed, restarts>>

apiUnchanged == UNCHANGED <<boot, bootOk, hasToken, urls, req, digest, out,
                            results, due, file, server, healthy, publishes,
                            outages>>

\* The request threads and the environment leave the categories alone.
BootFinish == Api!BootFinish /\ catUnchanged

DownloadFinish(t) == Api!DownloadFinish(t) /\ catUnchanged

Environment ==
    \/ Api!TtlExpire /\ catUnchanged
    \/ \E t \in Types, v \in Versions : Api!Publish(t, v) /\ catUnchanged
    \/ Api!ServerDown /\ catUnchanged
    \/ Api!ServerUp /\ catUnchanged
    \/ \E f \in DotFiles : Cat!EditDotD(f) /\ apiUnchanged
                              /\ UNCHANGED <<installed, restarts>>

TtlExpire == Api!TtlExpire /\ catUnchanged

Next ==
    \/ NapiTick
    \/ BootFinish
    \/ \E t \in Types : DownloadFinish(t)
    \/ Environment
    \/ Restart
    \/ CrashInCopy

(* The update timer fires for ever and the instance thread handles it;   *)
(* a request thread ends within curl's 60 s timeout; time passes.  The   *)
(* server, the administrator and restarts get no fairness.               *)
Fairness ==
    /\ WF_vars(NapiTick)
    /\ WF_vars(BootFinish)
    /\ \A t \in Types : WF_vars(DownloadFinish(t))
    /\ WF_vars(TtlExpire)

Spec == Init /\ [][Next]_vars /\ Fairness

-----------------------------------------------------------------------------
(* Properties.                                                             *)

TypeOK ==
    /\ boot \in {"none", "running", "done"}
    /\ {bootOk, hasToken, urls, due, healthy} \subseteq BOOLEAN
    /\ req \in [Types -> {"none", "running", "done"}]
    /\ digest \in [Types -> Api!Contents]
    /\ out \in [Types -> Api!Outcome]
    /\ results \in [Types -> {"none", "ok", "failed"}]
    /\ file \in [Types -> Api!Contents]
    /\ server \in [Types -> Versions]
    /\ tags \in {Cat!NoEntries} \cup {TagIndex[v] : v \in Versions}
    /\ DOMAIN domains \subseteq UNION {Cat!Range(TagIndex[v]) : v \in Versions}
    /\ scanned \subseteq DotFiles
    /\ installed \subseteq Types

(* A file the update path copies is loaded: every file replaced since the *)
(* last Reload has its successful result waiting in download_results, so  *)
(* the next Update's summary returns true and the instance thread reloads. *)
(* A copy whose result were lost would leave the agent on the old indexes *)
(* until it restarts.                                                       *)
InstallReported == \A t \in installed : results[t] = "ok"

(* The domain index is the one the files of categories.d define under the *)
(* application tag index in force: each category of a known tag lists the *)
(* dom: entries of its files, and a file whose tag the index lacks adds    *)
(* nothing.  Categories load before the directory, so the ids are those of *)
(* the new index (spec 6: category source).                                *)
DomainsMatchFiles == domains = Cat!ExpectedDomains(tags, scanned)

(* LookupDotDirectory walks the suffixes of a domain at label boundaries  *)
(* (spec 3: a.b.c.d, b.c.d, c.d, d) and answers with a category listing   *)
(* the longest suffix that any category lists, or ND_CAT_UNKNOWN.         *)
LookupSuffix ==
    \A q \in Queries : Cat!LookupFrom(domains, q) = Cat!RefLookup(domains, q)

(* Once the server stays reachable, the agent ends up for ever with both  *)
(* files as the server publishes them and the categories of the published *)
(* file loaded, whatever failures, restarts, crashes in the middle of     *)
(* nd_copy_file and publications came before: a truncated local file has *)
(* a digest the server's hash never matches, so it is downloaded again.   *)
UpdatesPropagate ==
    <>[]healthy =>
        <>[](/\ \A t \in Types : file[t] = server[t]
             /\ tags = TagIndex[server["categories"]])

(* The update path writes only what the server publishes: a local         *)
(* signature or category file is never replaced by a file that does not   *)
(* load.                                                                  *)
InstalledIsPublished == \A t \in Types : file[t] \in InitFiles \cup Versions

====
