------------------------------ MODULE NetifyApi ------------------------------
(***************************************************************************)
(* ndNetifyApiManager (nd-napi.cpp): on every ndIPC_UPDATE_NAPI tick the  *)
(* instance thread calls Update, which runs a bootstrap request (token and *)
(* download URLs) every other tick, and, with a token, once per            *)
(* ttl_napi_update starts one download thread per URL: the application    *)
(* configuration and the categories file.  A download does a HEAD and,    *)
(* when it has the digest of the local file and the server's x-sha1-hash *)
(* differs (or is missing), a GET into a temporary file.  Update collects *)
(* finished downloads, copies a 200 over the local file, and once none is *)
(* left reports whether any succeeded: the caller then reloads.           *)
(*                                                                         *)
(* The request threads run concurrently with the instance thread; their   *)
(* effect is the result each one leaves for Update to read.  The server  *)
(* is the environment: it publishes versions and may fail.                *)
(***************************************************************************)
EXTENDS Integers, FiniteSets

CONSTANTS
    Versions,      \* file contents the server publishes
    MaxPublish,    \* bound on new publications
    MaxOutages     \* bound on server outages

Types == {"config", "categories"}

\* The order of Update's loop over the download requests.
TypeOrder == <<"config", "categories">>

\* A file that nd_sha1_file can read but that does not load ("empty", or
\* "partial": a copy cut short by a crash); "absent" has no digest.
Contents == Versions \cup {"absent", "empty", "partial"}

\* http_rc of a finished request: -1 is a curl error (Perform throws); a
\* 5xx takes the same path through ProcessDownloadRequest (false, nothing
\* else), and 403 the path of 401.
Codes == {200, 304, 401, -1}

VARIABLES
    boot,       \* requests[REQUEST_BOOTSTRAP]: "none", "running", "done"
    bootOk,     \* the finished bootstrap yields a token and URLs
    hasToken,   \* token is not empty
    urls,       \* urls holds both download URLs
    req,        \* req[t]: requests[t]: "none", "running", "done"
    digest,     \* digest[t]: the content the download's digest was taken of
    out,        \* out[t]: [rc, body] a finished download left
    results,    \* download_results[t]: "none", "ok" (true), "failed" (false)
    due,        \* now > ttl_last_update + ttl_napi_update
    file,       \* file[t]: path_app_config, path_cat_config
    server,     \* server[t]: the version the server publishes
    healthy,    \* the server answers every request
    publishes,
    outages

apiVars == <<boot, bootOk, hasToken, urls, req, digest, out, results, due,
             server, healthy, publishes, outages>>

Outcome == [rc : Codes, body : Contents]

NoResult == [t \in Types |-> "none"]

\* The fields of a request object that does not exist, or has not ended.
NoOutcome == [rc |-> -1, body |-> "empty"]

\* HTTP answers of the server: a healthy one answers 200, a failing one
\* anything, including an authorisation failure or no answer at all.
Answers == IF healthy THEN {200} ELSE Codes \ {304}

-----------------------------------------------------------------------------
\* ndNetifyApiManager constructor: no request, no token, no URL, and
\* ttl_last_update = 0.
ManagerInit ==
    /\ boot = "none"
    /\ bootOk = FALSE
    /\ hasToken = FALSE
    /\ urls = FALSE
    /\ req = [t \in Types |-> "none"]
    /\ digest = [t \in Types |-> "absent"]
    /\ out = [t \in Types |-> NoOutcome]
    /\ results = NoResult
    /\ due = TRUE

\* Terminate at shutdown stops and deletes every request thread; the next
\* start constructs a new manager.
ManagerRestart ==
    /\ boot' = "none"
    /\ bootOk' = FALSE
    /\ hasToken' = FALSE
    /\ urls' = FALSE
    /\ req' = [t \in Types |-> "none"]
    /\ digest' = [t \in Types |-> "absent"]
    /\ out' = [t \in Types |-> NoOutcome]
    /\ results' = NoResult
    /\ due' = TRUE

\* Mutant: the download is constructed without the local file's name, so
\* it never has a digest.
LocalDigestNone(c) == "absent"

\* ndNetifyApiDownload's constructor: the SHA-1 of the local file when
\* nd_sha1_file can read it, no digest when the file is absent.  The
\* digest is abstracted to the content it was taken of.
LocalDigest(c) == c

\* The downloads that exist when Update runs (the count `downloads`).
Downloads == {t \in Types : req[t] # "none"}

\* The finished downloads this Update processes.
Finished == {t \in Types : req[t] = "done"}

\* Mutant: the summary reports a reload only when every download succeeded.
AllSucceeded(res) ==
    /\ \E t \in Types : res[t] # "none"
    /\ \A t \in Types : res[t] \in {"none", "ok"}

\* The summary: with no download left and results pending, Update returns
\* whether any of them succeeded.
AnySucceeded(res) == \E t \in Types : res[t] = "ok"

\* Update's return value: true when the caller must reload.
UpdateReload == Downloads = {} /\ AnySucceeded(results)

\* The downloads this Update copies over a local file.
Copied == {t \in Finished : out[t].rc = 200}

\* nd_copy_file of each download in cp over its local file: the destination
\* is opened with trunc and the temporary file streamed into it, so an
\* empty temporary file leaves an empty local file, and the copy succeeds.
Install(f, cp) == [t \in Types |-> IF t \in cp THEN out[t].body ELSE f[t]]

\* ProcessDownloadRequest: a 401 or 403 clears the token and resets
\* ttl_last_update.
AuthFailure(codes) == 401 \in codes

\* ProcessDownloadRequest's result: false on a curl error, 304 or any code
\* but 200; on 200 the result of nd_copy_file, which succeeds.
DownloadResult(o) == o.rc = 200

\* The downloads of cp whose copy Update makes before the one of t.
CopiedBefore(t, cp) ==
    {u \in cp : \E i, j \in 1..2 : i < j /\ TypeOrder[i] = u /\ TypeOrder[j] = t}

-----------------------------------------------------------------------------
\* ndNetifyApiManager::Update, all of it.  The bootstrap request is
\* processed and erased when finished, or created when absent; a deleted
\* request's fields are reset.  Every
\* finished download is processed (counted all the same).  With no
\* download and results pending it returns the summary and clears the
\* results; otherwise, with a token and no download, once the TTL has
\* passed, it starts a download per URL, each with the digest of its
\* local file.
Update ==
    LET tok == IF boot = "done" THEN hasToken \/ bootOk ELSE hasToken
        codes == {out[t].rc : t \in Finished}
        tok2 == tok /\ ~AuthFailure(codes)
        summary == Downloads = {} /\ \E t \in Types : results[t] # "none"
        haveUrls == urls \/ (boot = "done" /\ bootOk)
        start == ~summary /\ tok2 /\ Downloads = {} /\ due /\ haveUrls
    IN
    /\ boot' = CASE boot = "done" -> "none"
                 [] boot = "none" -> "running"
                 [] OTHER         -> boot
    /\ urls' = haveUrls
    /\ hasToken' = tok2
    /\ file' = Install(file, Copied)
    /\ results' =
         IF summary THEN NoResult
         ELSE [t \in Types |-> IF t \notin Finished THEN results[t]
                              ELSE IF DownloadResult(out[t]) THEN "ok"
                              ELSE "failed"]
    /\ req' = [t \in Types |->
                 IF t \in Finished THEN "none"
                 ELSE IF start THEN "running" ELSE req[t]]
    /\ digest' = [t \in Types |-> IF start THEN LocalDigest(file[t])
                                 ELSE IF t \in Finished THEN "absent"
                                 ELSE digest[t]]
    /\ out' = [t \in Types |-> IF t \in Finished THEN NoOutcome ELSE out[t]]
    /\ bootOk' = (bootOk /\ boot # "done")
    /\ due' = IF start THEN FALSE ELSE due \/ AuthFailure(codes)
    /\ UNCHANGED <<server, healthy, publishes, outages>>

\* ndNetifyApiBootstrap::Entry and ProcessBootstrapRequest's verdict: a
\* healthy server provides the token and both endpoints; a failing one
\* may not (curl error, HTTP or status failure, site provisioning,
\* malformed data).
BootFinish ==
    /\ boot = "running"
    /\ boot' = "done"
    /\ bootOk' \in IF healthy THEN {TRUE} ELSE BOOLEAN
    /\ UNCHANGED <<hasToken, urls, req, digest, out, results, due, file,
                   server, healthy, publishes, outages>>

\* ndNetifyApiThread::Perform with an answer rc of the server: http_rc is
\* set to -1 and the content cleared before the request, and a curl error
\* throws with http_rc still -1.  A HEAD (CURLOPT_NOBODY) receives no body;
\* a GET's body is appended (AppendContent) to the temporary file, which
\* only a 200 makes the published content.
Perform(method, rc, published) ==
    [rc |-> rc, body |-> IF method = "GET" /\ rc = 200 THEN published
                                                     ELSE "empty"]

\* ndNetifyApiDownload::Entry.  The HEAD; with a digest and a 200, a
\* matching x-sha1-hash makes it 304, anything else a GET whose body goes
\* to the temporary file.  Without a digest there is only the HEAD, and
\* the temporary file stays empty.
DownloadFinish(t) ==
    /\ req[t] = "running"
    /\ req' = [req EXCEPT ![t] = "done"]
    /\ \E h \in Answers, g \in Answers, hdr \in IF healthy THEN {TRUE} ELSE BOOLEAN :
         out' = [out EXCEPT ![t] =
                  IF digest[t] = "absent" \/ h # 200
                    THEN Perform("HEAD", h, server[t])
                  ELSE IF hdr /\ digest[t] = server[t]
                    THEN [rc |-> 304, body |-> "empty"]
                  ELSE Perform("GET", g, server[t])]
    /\ UNCHANGED <<boot, bootOk, hasToken, urls, digest, results, due, file,
                   server, healthy, publishes, outages>>

\* ttl_napi_update seconds pass since the last download round.
TtlExpire ==
    /\ ~due
    /\ due' = TRUE
    /\ UNCHANGED <<boot, bootOk, hasToken, urls, req, digest, out, results,
                   file, server, healthy, publishes, outages>>

\* The server publishes a new version of a file.
Publish(t, v) ==
    /\ publishes < MaxPublish
    /\ v # server[t]
    /\ server' = [server EXCEPT ![t] = v]
    /\ publishes' = publishes + 1
    /\ UNCHANGED <<boot, bootOk, hasToken, urls, req, digest, out, results,
                   due, file, healthy, outages>>

\* The server starts or stops failing.
ServerDown ==
    /\ healthy /\ outages < MaxOutages
    /\ healthy' = FALSE
    /\ outages' = outages + 1
    /\ UNCHANGED <<boot, bootOk, hasToken, urls, req, digest, out, results,
                   due, file, server, publishes>>

ServerUp ==
    /\ ~healthy
    /\ healthy' = TRUE
    /\ UNCHANGED <<boot, bootOk, hasToken, urls, req, digest, out, results,
                   due, file, server, publishes, outages>>

====
