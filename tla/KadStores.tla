----------------------------- MODULE KadStores ------------------------------
(***************************************************************************)
(* What the KAD service stores for other nodes: the keywords published to  *)
(* it (keyword_store_by_keyword, src/src/kad/service/keyword.rs) and the   *)
(* sources of files (sources_by_file, src/src/kad/service.rs), our own     *)
(* among them.                                                             *)
(*                                                                         *)
(* A definition marked "Slip" is a mistaken form of the one after it.      *)
(***************************************************************************)
EXTENDS Integers, FiniteSets

CONSTANTS
    Keywords, Files,
    Nodes,              \* ids of sources
    Me,                 \* our own id
    StoreMaxKeywords,   \* store_keyword_max_keywords
    StoreMaxTotal,      \* store_keyword_max_total_hits
    StoreTTL,           \* store_keyword_evict_age_secs
    MaxFiles,           \* source_store_max_files
    MaxPerFile,         \* source_store_max_sources_per_file
    MaxSources          \* source_store_max_total_sources

\* What the constants may be; KadServices assumes it.
StoresAssumption ==
    /\ IsFiniteSet(Keywords) /\ IsFiniteSet(Files) /\ IsFiniteSet(Nodes)
    /\ Me \in Nodes
    /\ {StoreMaxKeywords, StoreMaxTotal, MaxFiles, MaxPerFile, MaxSources} \subseteq Nat
    /\ StoreTTL \in Nat \ {0}

VARIABLES
    store,       \* keyword_store_by_keyword: the age of each file, by keyword
    store_total, \* keyword_store_total
    sources      \* sources_by_file

storeVars == <<store, store_total, sources>>

Nothing == [f \in {} |-> 0]

Init ==
    /\ store = [k \in Keywords |-> Nothing]
    /\ store_total = 0
    /\ sources = [f \in Files |-> {}]

-----------------------------------------------------------------------------
(* The keywords other nodes published. *)

Stored(s) == {k \in Keywords : s[k] # Nothing}

Size(s, K) == Cardinality(UNION {{k} \X DOMAIN s[k] : k \in K})

\* The age of a keyword is that of its freshest file.
Freshest(s, k) == CHOOSE a \in {s[k][f] : f \in DOMAIN s[k]} : \A f \in DOMAIN s[k] : a <= s[k][f]

\* The keywords that may be dropped, the oldest first, until Enough stay.
OldestStored(s, Enough(_)) ==
    {D \in SUBSET Stored(s) :
        /\ \A gone \in D, kept \in Stored(s) \ D : Freshest(s, gone) >= Freshest(s, kept)
        /\ Enough(Stored(s) \ D)
        /\ D = {} \/ \E last \in D :
              /\ \A gone \in D : Freshest(s, gone) >= Freshest(s, last)
              /\ ~ Enough((Stored(s) \ D) \cup {last})}

Without(s, K) == [k \in Keywords |-> IF k \in K THEN Nothing ELSE s[k]]

\* saturating_sub.
Less(n, m) == IF n > m THEN n - m ELSE 0

\* The keywords of D are removed from s, and their files from the total n.
Dropped(s, n, D) == <<Without(s, D), Less(n, Size(s, D))>>

\* The keyword cap, which counts keywords.
KeywordCap(s, n) ==
    {Dropped(s, n, D) : D \in OldestStored(s, LAMBDA K : Cardinality(K) <= StoreMaxKeywords)}

\* The hits cap, which trusts the total.
HitsCap(s, n) ==
    {Dropped(s, n, D) :
        D \in OldestStored(s, LAMBDA K : Less(n, Size(s, Stored(s) \ K)) <= StoreMaxTotal)}

\* enforce_keyword_store_limits: what may become of the store s with the total n.
StoreLimits(s, n) ==
    IF StoreMaxKeywords = 0 \/ StoreMaxTotal = 0 THEN {<<Without(s, Keywords), 0>>}
    ELSE UNION {HitsCap(p[1], p[2]) : p \in KeywordCap(s, n)}

StoreBecomes(p) ==
    /\ store' = p[1]
    /\ store_total' = p[2]
    /\ UNCHANGED sources

\* A KADEMLIA2_PUBLISH_KEY_REQ with the files of F.  Each file that is new
\* counts one, and the limits are looked at only when there is one.
PublishKeyReq(k, F) ==
    LET seen == [store EXCEPT ![k] = [f \in DOMAIN @ \cup F |-> IF f \in F THEN 0 ELSE @[f]]]
        new  == F \ DOMAIN store[k]
    IN  IF new = {} THEN StoreBecomes(<<seen, store_total>>)
        ELSE \E p \in StoreLimits(seen, store_total + Cardinality(new)) : StoreBecomes(p)

Old(k) == {f \in DOMAIN store[k] : store[k][f] >= StoreTTL}

\* maintain_keyword_store.
MaintainStore ==
    LET fresh == [k \in Keywords |-> [f \in DOMAIN store[k] \ Old(k) |-> store[k][f]]]
        gone  == UNION {{k} \X Old(k) : k \in Keywords}
    IN  \E p \in StoreLimits(fresh, Less(store_total, Cardinality(gone))) : StoreBecomes(p)

\* delete_keyword_search with purge_results.
PurgeStored(k) == StoreBecomes(Dropped(store, store_total, {k}))

StoreClock ==
    /\ store' = [k \in Keywords |-> [f \in DOMAIN store[k] |->
                    IF store[k][f] < StoreTTL THEN store[k][f] + 1 ELSE StoreTTL]]
    /\ UNCHANGED <<store_total, sources>>

-----------------------------------------------------------------------------
(* The sources of files. *)

Listed(src) == {f \in Files : src[f] # {}}

Entries(src) == UNION {{f} \X src[f] : f \in Files}

\* Slip: the smallest file goes, our own or not.
FileVictimsBySize(src) ==
    {f \in Listed(src) : \A g \in Listed(src) : Cardinality(src[f]) <= Cardinality(src[g])}

\* The file the files cap removes: one without us, with the fewest sources.
FileVictims(src) ==
    LET foreign == {f \in Listed(src) : Me \notin src[f]}
        among   == IF foreign # {} THEN foreign ELSE Listed(src)
    IN  {f \in among : \A g \in among : Cardinality(src[f]) <= Cardinality(src[g])}

OnlyMe(src) == [f \in Files |-> src[f] \cap {Me}]

\* enforce_source_store_files_cap.  At most one file is new at a time, and
\* the cap held before.
FilesCap(src) ==
    IF MaxFiles = 0 THEN {[f \in Files |-> IF Me \in src[f] THEN src[f] ELSE {}]}
    ELSE IF Cardinality(Listed(src)) <= MaxFiles THEN {src}
    ELSE {[src EXCEPT ![f] = {}] : f \in FileVictims(src)}

\* Any source but ours when there is another.
SourceVictims(S) == IF S \ {Me} # {} THEN S \ {Me} ELSE S

\* enforce_source_store_per_file_cap, for the file that got a source.
PerFileCap(src, f) ==
    IF MaxPerFile = 0 THEN {OnlyMe(src)}
    ELSE IF Cardinality(src[f]) <= MaxPerFile THEN {src}
    ELSE {[src EXCEPT ![f] = @ \ {n}] : n \in SourceVictims(src[f])}

\* The file that loses a source to the total cap: one with a source that is
\* not us, with the most sources.
LargestFiles(src) ==
    LET mixed == {f \in Files : src[f] \ {Me} # {}}
        among == IF mixed # {} THEN mixed ELSE Listed(src)
    IN  {f \in among : \A g \in among : Cardinality(src[f]) >= Cardinality(src[g])}

\* enforce_source_store_total_cap.
SourcesCap(src) ==
    IF MaxSources = 0 THEN {OnlyMe(src)}
    ELSE IF Cardinality(Entries(src)) <= MaxSources THEN {src}
    ELSE UNION {{[src EXCEPT ![f] = @ \ {n}] : n \in SourceVictims(src[f])} : f \in LargestFiles(src)}

\* Slip: the cap on all sources is left to the other two.
SourceLimitsByFile(src, f) == UNION {PerFileCap(t, f) : t \in FilesCap(src)}

\* enforce_source_store_limits after a source of f was stored.
SourceLimits(src, f) ==
    UNION {SourcesCap(u) : u \in UNION {PerFileCap(t, f) : t \in FilesCap(src)}}

WithSource(f, n) == [sources EXCEPT ![f] = @ \cup {n}]

\* A source is stored, and then the limits are looked at.
StoreSource(f, n) ==
    /\ \E src \in SourceLimits(WithSource(f, n), f) : sources' = src
    /\ UNCHANGED <<store, store_total>>

\* A PUBLISH_SOURCE_REQ of n for f.
PublishSourceReq(f, n) == StoreSource(f, n)

\* One entry of a SEARCH_RES that names n; the limits are looked at after each.
SourceResult(f, n) == StoreSource(f, n)

\* We publish f: cache_local_published_source.
PublishSource(f) == StoreSource(f, Me)

Next ==
    \/ \E k \in Keywords, F \in SUBSET Files : PublishKeyReq(k, F)
    \/ \E k \in Keywords : PurgeStored(k)
    \/ MaintainStore
    \/ StoreClock
    \/ \E f \in Files, n \in Nodes : PublishSourceReq(f, n)
    \/ \E f \in Files, n \in Nodes : SourceResult(f, n)
    \/ \E f \in Files : PublishSource(f)

Spec == Init /\ [][Next]_storeVars

-----------------------------------------------------------------------------
(* Properties. *)

\* The keyword store's total, moved by each of four operations, is the number
\* of stored files, and both its caps hold, although they are looked at only
\* where a file is new; and the three caps of the source store, each with its own choice of victim, hold together
\* after they ran one after the other.
StoresWithinCaps ==
    /\ store_total = Size(store, Keywords)
    /\ Cardinality(Stored(store)) <= StoreMaxKeywords
    /\ store_total <= StoreMaxTotal
    /\ MaxFiles > 0 => Cardinality(Listed(sources)) <= MaxFiles
    /\ MaxPerFile > 0 => \A f \in Files : Cardinality(sources[f]) <= MaxPerFile
    /\ MaxSources > 0 => Cardinality(Entries(sources)) <= MaxSources

\* We stop being listed as a source of a file we share only when every file
\* that stays listed is one we share as well.
LocalSourceOutlives ==
    [][\A f \in Files :
          Me \in sources[f] /\ Me \notin sources'[f] =>
              \A g \in Listed(sources') : Me \in sources'[g]]_storeVars
=============================================================================
