------------------------------ MODULE Categories ------------------------------
(***************************************************************************)
(* ndCategories (nd-category.cpp): the application category index, loaded *)
(* from the categories file the Netify API downloads, and the domain index *)
(* loaded from the categories.d directory, whose files name a category by *)
(* its tag and list "dom:" suffixes.  ndInstance::Reload loads the file,   *)
(* then the directory; both hold the categories lock for the whole load.   *)
(*                                                                         *)
(* A file's content is abstracted to a version the server published (a    *)
(* well-formed file in the current format, with its application tag index *)
(* TagIndex[v]) or to a content that does not load ("absent", "empty",    *)
(* "partial").  A domain is the sequence of its labels, so stripping up to *)
(* and including the first '.' is Tail.                                    *)
(***************************************************************************)
EXTENDS Naturals, Sequences, FiniteSets, SequencesExt

CONSTANTS
    Versions,       \* category files as published
    TagIndex,       \* TagIndex[v]: application_tag_index of v, tag -> id
    DotFiles,       \* files of categories.d, [tag, doms]
    Removable,      \* the files an administrator may add or remove
    DotdCategories, \* ndGC_DOTD_CATEGORIES
    Unknown         \* ND_CAT_UNKNOWN

ASSUME
    /\ \A v \in Versions : Unknown \notin Range(TagIndex[v])
    /\ Removable \subseteq DotFiles
    /\ DotdCategories \in BOOLEAN

VARIABLES
    tags,     \* categories[TYPE_APP].tag
    domains,  \* domains: category id -> set of domain suffixes
    dotd,     \* the files present in categories.d
    scanned   \* the files present when LoadDotDirectory last ran

catVars == <<tags, domains, dotd, scanned>>

NoEntries == [x \in {} |-> x]

-----------------------------------------------------------------------------
\* nd_scan_dotd: the regular files whose name starts with a digit and ends
\* in .conf, in readdir order, which is unspecified (no sort); the scan
\* fails when it finds none.
ScanDotD(files) == SetToSeqs(files)

\* Mutant: Load fills the index without ResetCategories.
LoadNoReset(t, c) == IF c \in Versions THEN TagIndex[c] @@ t ELSE t

\* Load(filename): a file that does not open or does not parse leaves the
\* index as it was; a current-format file replaces it (ResetCategories,
\* then the file's application_tag_index).
Load(t, c) == IF c \in Versions THEN TagIndex[c] ELSE t

\* One file of the scan.  A tag the application index does not know
\* rejects the file; dom: entries are inserted under the tag's id with
\* std::unordered_map::insert, which keeps an id already present.
LoadDotFile(t, d, f) ==
    IF f.tag \notin DOMAIN t \/ f.doms = {} \/ t[f.tag] \in DOMAIN d
      THEN d
      ELSE d @@ (t[f.tag] :> f.doms)

\* Mutant: the domain index is not reset before the files are read.
LoadDotDirectoryNoReset(t, d, order) ==
    IF order = <<>> THEN d
    ELSE FoldLeft(LAMBDA acc, f : LoadDotFile(t, acc, f), d, order)

\* LoadDotDirectory: nd_scan_dotd lists the files in readdir order and
\* fails when there is none, and then the function returns at once, before
\* ResetDomains; otherwise the index is rebuilt from the files in order.
LoadDotDirectory(t, d, order) ==
    IF order = <<>> THEN d
    ELSE FoldLeft(LAMBDA acc, f : LoadDotFile(t, acc, f), NoEntries, order)

RECURSIVE LookupFromNoTld(_, _)
\* Mutant: the walk gives up before the last label.
LookupFromNoTld(d, s) ==
    LET hits == {id \in DOMAIN d : s \in d[id]} IN
    IF hits # {} THEN hits
    ELSE IF Len(s) > 2 THEN LookupFromNoTld(d, Tail(s)) ELSE {Unknown}

RECURSIVE LookupFrom(_, _)
\* LookupDotDirectory(domain): the do-while looks the search string up in
\* every category (in the unordered_map's order, so any listing category
\* may answer) and, on a miss, strips the first label while one '.' is
\* left.  The set of ids the code may return.
LookupFrom(d, s) ==
    LET hits == {id \in DOMAIN d : s \in d[id]} IN
    IF hits # {} THEN hits
    ELSE IF Len(s) > 1 THEN LookupFrom(d, Tail(s)) ELSE {Unknown}

-----------------------------------------------------------------------------
\* The part of ndInstance::Reload that concerns categories, from the
\* indexes t0 and d0 and on the categories file content c: Load, then
\* LoadDotDirectory when dotd categories are enabled, the files in some
\* readdir order.
ReloadCategories(t0, d0, c) ==
    LET t == Load(t0, c) IN
    /\ tags' = t
    /\ IF DotdCategories
         THEN \E order \in ScanDotD(dotd) :
                 /\ domains' = LoadDotDirectory(t, d0, order)
                 /\ scanned' = dotd
         ELSE /\ domains' = d0
              /\ UNCHANGED scanned
    /\ UNCHANGED dotd

\* An administrator adds or removes a file of categories.d.
EditDotD(f) ==
    /\ f \in Removable
    /\ dotd' = IF f \in dotd THEN dotd \ {f} ELSE dotd \cup {f}
    /\ UNCHANGED <<tags, domains, scanned>>

-----------------------------------------------------------------------------
\* Reference for the directory index: every category of the tag index
\* with the union of the dom: entries of all its files.
ExpectedDomains(t, files) ==
    LET listed == {f \in files : f.tag \in DOMAIN t /\ f.doms # {}} IN
    [id \in {t[f.tag] : f \in listed} |->
        UNION {f.doms : f \in {g \in listed : t[g.tag] = id}}]

\* Reference for the lookup: the categories listing the longest suffix of
\* the domain, at a label boundary, that any category lists.
RefLookup(d, dom) ==
    LET sufs == {SubSeq(dom, i, Len(dom)) : i \in 1..Len(dom)}
        listed == {s \in sufs : \E id \in DOMAIN d : s \in d[id]}
    IN IF listed = {} THEN {Unknown}
       ELSE LET best == CHOOSE s \in listed :
                          \A o \in listed : Len(o) <= Len(s)
            IN {id \in DOMAIN d : best \in d[id]}

====
