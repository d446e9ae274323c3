---------------------------- MODULE KeywordCache ----------------------------
(***************************************************************************)
(* The results of keyword searches the KAD service keeps                   *)
(* (src/src/kad/service/keyword.rs): hits by keyword and file, the         *)
(* keywords somebody was interested in, and the running total of hits.     *)
(* The handlers and the maintenance branch of the service are its steps.   *)
(* Times are ages; entries of one age may go in any order.                 *)
(*                                                                         *)
(* A definition marked "Slip" is a mistaken form of the one after it.      *)
(***************************************************************************)
EXTENDS Integers, FiniteSets

CONSTANTS
    Keywords, Files,
    RequireInterest, \* keyword_require_interest
    MaxKeywords,     \* keyword_max_keywords
    MaxPerKeyword,   \* keyword_max_hits_per_keyword, 0 for no limit
    MaxTotal,        \* keyword_max_total_hits, 0 for no limit
    InterestTTL, ResultsTTL

\* What the constants may be; KadServices assumes it.
CacheAssumption ==
    /\ IsFiniteSet(Keywords) /\ IsFiniteSet(Files)
    /\ RequireInterest \in BOOLEAN
    /\ {MaxKeywords, MaxPerKeyword, MaxTotal} \subseteq Nat
    /\ {InterestTTL, ResultsTTL} \subseteq Nat \ {0}

VARIABLES
    hits,       \* keyword_hits_by_keyword: the age of each hit, by keyword
    interest,   \* keyword_interest: the age of each interest
    hits_total  \* keyword_hits_total

cache == [hits |-> hits, interest |-> interest, total |-> hits_total]
cacheVars == <<hits, interest, hits_total>>

Empty == [x \in {} |-> 0]

Init ==
    /\ hits = [k \in Keywords |-> Empty]
    /\ interest = Empty
    /\ hits_total = 0

Become(c) ==
    /\ hits' = c.hits
    /\ interest' = c.interest
    /\ hits_total' = c.total

-----------------------------------------------------------------------------
(* Eviction. *)

Only(ages, S) == [x \in S |-> ages[x]]

\* The sets that may go when the oldest go first until what stays is Enough:
\* no more than needed, and everything when nothing is enough.
OldestUntil(ages, Enough(_)) ==
    LET all == DOMAIN ages
    IN  {D \in SUBSET all :
            /\ \A gone \in D, kept \in all \ D : ages[gone] >= ages[kept]
            /\ Enough(all \ D) \/ D = all
            /\ D = {} \/ \E last \in D :
                  /\ \A gone \in D : ages[gone] >= ages[last]
                  /\ ~ Enough(all \ (D \ {last}))}

Pairs(h, K) == UNION {{k} \X DOMAIN h[k] : k \in K}

\* The keywords of K lose their interest and their hits.
Drop(c, K) ==
    [hits     |-> [k \in Keywords |-> IF k \in K THEN Empty ELSE c.hits[k]],
     interest |-> Only(c.interest, DOMAIN c.interest \ K),
     total    |-> c.total - Cardinality(Pairs(c.hits, K))]

\* The hits of F[k] leave each keyword k.
Remove(c, F) ==
    [c EXCEPT !.hits = [k \in Keywords |-> Only(@[k], DOMAIN @[k] \ F[k])],
              !.total = @ - Cardinality(UNION {{k} \X F[k] : k \in Keywords})]

\* enforce_keyword_interest_limit.
InterestLimit(c) ==
    IF MaxKeywords = 0 THEN {Drop(c, Keywords)}
    ELSE {Drop(c, K) : K \in OldestUntil(c.interest, LAMBDA S : Cardinality(S) <= MaxKeywords)}

\* enforce_keyword_per_keyword_cap for the keywords of K.
PerKeywordCap(c, K) ==
    LET surplus(k) ==
            IF MaxPerKeyword = 0 \/ k \notin K THEN {{}}
            ELSE OldestUntil(c.hits[k], LAMBDA S : Cardinality(S) <= MaxPerKeyword)
        choices == UNION {{k} \X surplus(k) : k \in Keywords}
    IN  {Remove(c, F) : F \in {G \in [Keywords -> {x[2] : x \in choices}] :
                                  \A k \in Keywords : <<k, G[k]>> \in choices}}

\* enforce_keyword_total_cap: the keywords of the oldest interest go.
TotalCap(c) ==
    IF MaxTotal = 0 \/ c.total <= MaxTotal THEN {c}
    ELSE {Drop(c, K) : K \in OldestUntil(c.interest,
            LAMBDA S : c.total - Cardinality(Pairs(c.hits, DOMAIN c.interest \ S)) <= MaxTotal)}

SizeLimits(c, K) == UNION {TotalCap(d) : d \in PerKeywordCap(c, K)}

-----------------------------------------------------------------------------
(* Steps. *)

Touched(c, k) ==
    [c EXCEPT !.interest = [x \in DOMAIN @ \cup {k} |-> IF x = k THEN 0 ELSE @[x]]]

\* A search, a publish or a request for results touches the interest.
TouchInterest(k) == \E c \in InterestLimit(Touched(cache, k)) : Become(c)

\* Slip: a hit seen again is counted again.
WithHitsRecounted(c, k, F) ==
    [c EXCEPT !.hits[k] = [f \in DOMAIN @ \cup F |-> IF f \in F THEN 0 ELSE @[f]],
              !.total = @ + Cardinality(F)]

WithHits(c, k, F) ==
    [c EXCEPT !.hits[k] = [f \in DOMAIN @ \cup F |-> IF f \in F THEN 0 ELSE @[f]],
              !.total = @ + Cardinality(F \ DOMAIN c.hits[k])]

Accepts(c, k) == RequireInterest => k \in DOMAIN c.interest

\* KadServiceCommand::PublishKeyword shows our own publish among the hits.
PublishLocally(k, f) ==
    \E c \in InterestLimit(Touched(cache, k)) :
        IF Accepts(c, k)
        THEN \E d \in SizeLimits(WithHits(c, k, {f}), Keywords) : Become(d)
        ELSE Become(c)

\* A KADEMLIA2_SEARCH_RES with the files of F for a keyword.
SearchRes(k, F) ==
    /\ Accepts(cache, k)
    /\ \E c \in SizeLimits(WithHits(cache, k, F), {k}) : Become(c)

\* delete_keyword_search with purge_results.
PurgeSearch(k) == Become(Drop(cache, {k}))

ExpiredInterest(c) == Drop(c, {k \in DOMAIN c.interest : c.interest[k] >= InterestTTL})

Uninteresting(c) ==
    IF RequireInterest THEN Drop(c, Keywords \ DOMAIN c.interest) ELSE c

ExpiredHits(c) ==
    Remove(c, [k \in Keywords |-> {f \in DOMAIN c.hits[k] : c.hits[k][f] >= ResultsTTL}])

\* maintain_keyword_cache.
Maintain ==
    \E c \in InterestLimit(ExpiredHits(Uninteresting(ExpiredInterest(cache)))) :
        \E d \in SizeLimits(c, Keywords) : Become(d)

Aged(ages, ttl) == [x \in DOMAIN ages |-> IF ages[x] < ttl THEN ages[x] + 1 ELSE ttl]

Clock ==
    /\ hits' = [k \in Keywords |-> Aged(hits[k], ResultsTTL)]
    /\ interest' = Aged(interest, InterestTTL)
    /\ UNCHANGED hits_total

Next ==
    \/ \E k \in Keywords : TouchInterest(k)
    \/ \E k \in Keywords, f \in Files : PublishLocally(k, f)
    \/ \E k \in Keywords, F \in SUBSET Files : SearchRes(k, F)
    \/ \E k \in Keywords : PurgeSearch(k)
    \/ Maintain
    \/ Clock

Spec == Init /\ [][Next]_cacheVars

-----------------------------------------------------------------------------
(* Properties. *)

\* The running total, which the total cap acts on and five operations keep by
\* differences, is the number of hits; and with interest required, every hit
\* can be found by the eviction that walks the interests, so that all three
\* caps hold after every step.
CacheWithinCaps ==
    /\ hits_total = Cardinality(Pairs(hits, Keywords))
    /\ RequireInterest =>
        /\ \A k \in Keywords : hits[k] # Empty => k \in DOMAIN interest
        /\ Cardinality(DOMAIN interest) <= MaxKeywords
        /\ MaxTotal > 0 => Cardinality(Pairs(hits, Keywords)) <= MaxTotal
        /\ MaxPerKeyword > 0 => \A k \in Keywords : Cardinality(DOMAIN hits[k]) <= MaxPerKeyword
=============================================================================
