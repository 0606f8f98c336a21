------------------------------ MODULE Ranking ------------------------------
(***************************************************************************)
(* How a search ranks what the store returns (Memory::search in            *)
(* src/core/src/memory.rs, and src/core/src/reranker.rs): a window of the  *)
(* nearest records, the filters, the keyword pass, the entity boost, the   *)
(* cut to top_k and the optional reranker.  A score is a distance: smaller *)
(* is better.                                                              *)
(*                                                                         *)
(* A search is the record                                                  *)
(*   [found |-> the records of the scope, in the order the store holds     *)
(*              them, each [id, dist, kind, keyword, linked, overlap,      *)
(*              answer],                                                   *)
(*    top_k, threshold, rerank]                                            *)
(* where kind says what the filters see of the record, keyword is its      *)
(* score in the keyword search (Unfound when it has none), linked whether  *)
(* an entity the query mentions links it, overlap the words of the query   *)
(* its content holds and answer what a model says of its relevance.        *)
(* Scores are integers in a unit fine enough to be exact: 1/240 before the *)
(* reranker.                                                               *)
(***************************************************************************)
EXTENDS Arrangements

CONSTANTS SEARCH_CANDIDATE_MULTIPLIER, SEARCH_CANDIDATE_FLOOR,
          max_top_k        \* the ceiling the server configures

ASSUME RankingAssumption ==
    /\ SEARCH_CANDIDATE_MULTIPLIER \in Nat /\ SEARCH_CANDIDATE_FLOOR \in Nat
    /\ max_top_k \in Nat

Unfound == 99              \* above every keyword score
NoThreshold == 99          \* above every distance
Answered(results) == [status |-> "ok", results |-> results]
Refused == [status |-> "refused", results |-> <<>>]
Failed == [status |-> "failed", results |-> <<>>]

search_candidate_limit(top_k) ==
    Most({top_k * SEARCH_CANDIDATE_MULTIPLIER, SEARCH_CANDIDATE_FLOOR})

\* The store's own search: nearest first, within the threshold, at most limit.
StoreSearch(q) ==
    LET near == Retained(q.found, {i \in DOMAIN q.found : q.found[i].dist =< q.threshold})
    IN  Cut(Sorted(near, [i \in DOMAIN near |-> near[i].dist]), search_candidate_limit(q.top_k))

\* Entity records are never results; the others are when they are not expired
\* and match the filters.
Matching(s) == Retained(s, {i \in DOMAIN s : s[i].kind = "memory"})
Candidates(q) ==
    LET found == Matching(StoreSearch(q))
    IN  [i \in DOMAIN found |-> [rec |-> found[i], score |-> 240 * found[i].dist]]

\* The keyword search sees every record of the scope, entity records too.
KeywordScores(q) == {r.keyword : r \in Elements(q.found)} \ {Unfound}

\* In sixths, exact for the ranges of the inputs.
normalize_distance(score, least, most) ==
    IF most > least THEN ((score - least) * 6) \div (most - least) ELSE 0

\* A record the keyword search missed taken for its best one.
KeywordPartOrZero(r, scores) ==
    IF r.keyword = Unfound THEN 0 ELSE normalize_distance(r.keyword, Least(scores), Most(scores))

KeywordPart(r, scores) ==
    IF r.keyword = Unfound THEN 6 ELSE normalize_distance(r.keyword, Least(scores), Most(scores))

combine_with_keyword_scores(results, scores) ==
    LET dists == {r.rec.dist : r \in Elements(results)}
        combined(r) == 20 * (normalize_distance(r.dist, Least(dists), Most(dists)) + KeywordPart(r, scores))
    IN  ByScore([i \in DOMAIN results |-> [rec |-> results[i].rec, score |-> combined(results[i].rec)]])

KeywordPass(q, results) ==
    IF results = <<>> \/ KeywordScores(q) = {}
    THEN results
    ELSE combine_with_keyword_scores(results, KeywordScores(q))

\* A linked record has its distance cut by ENTITY_BOOST_FRACTION = 0.15.
apply_entity_boost(results) ==
    ByScore([i \in DOMAIN results |->
                IF results[i].rec.linked
                THEN [results[i] EXCEPT !.score = (@ * 17) \div 20]
                ELSE results[i]])

-----------------------------------------------------------------------------
(* The rerankers.  Each gives every result a new score and sorts again.    *)

\* The words of the query the content lacks, out of two, next to the distance
\* normalised again: in a unit that all the results share.
LocalOverlapReranker(results) ==
    LET scores == {r.score : r \in Elements(results)}
        range  == Most(scores) - Least(scores)
        lexical(r) == 2 - r.rec.overlap
        rescored(r) == IF range > 0 THEN 2 * (r.score - Least(scores)) + lexical(r) * range ELSE lexical(r)
    IN  ByScore([i \in DOMAIN results |-> [results[i] EXCEPT !.score = rescored(results[i])]])

\* A model's answer is the sequence of the numbers in it, in tenths: the first
\* with a decimal point counts, or else the first; an answer without a number,
\* and a model that fails, stand for one half.
NoAnswer == <<>>
extract_score(answer) ==
    LET decimals == {i \in DOMAIN answer : answer[i].decimal}
        chosen   == IF decimals # {} THEN Least(decimals) ELSE 1
        value    == answer[chosen].tenths
    IN  IF answer = NoAnswer THEN 5 ELSE Most({0, Least({10, value})})

LlmReranker(results) ==
    ByScore([i \in DOMAIN results |->
                [results[i] EXCEPT !.score = 10 - extract_score(results[i].rec.answer)]])

\* A cross-encoder answers for the whole list at once, or not at all.
FastEmbedReranker(results) ==
    IF \E r \in Elements(results) : r.rec.answer = NoAnswer
    THEN Failed
    ELSE Answered(LlmReranker(results))

Reranked(how, results) ==
    IF how = "none" \/ results = <<>>
    THEN Answered(results)
    ELSE CASE how = "local_overlap" -> Answered(LocalOverlapReranker(results))
           [] how = "llm"           -> Answered(LlmReranker(results))
           [] how = "fastembed"     -> FastEmbedReranker(results)

BeforeRerank(q) == apply_entity_boost(KeywordPass(q, Candidates(q)))

search(q) ==
    IF q.top_k = 0 \/ q.top_k > max_top_k \/ q.rerank = "unconfigured"
    THEN Refused
    ELSE Reranked(q.rerank, Cut(BeforeRerank(q), q.top_k))

-----------------------------------------------------------------------------
(* The inputs: three records of one scope and how they are searched.       *)
Whole(n) == [decimal |-> FALSE, tenths |-> 10 * n]
Decimal(t) == [decimal |-> TRUE, tenths |-> t]
Answers == <<<<Whole(8), Decimal(3)>>, <<Whole(7)>>, NoAnswer>>

Distances == {<<0, 1, 3>>, <<3, 1, 0>>, <<1, 1, 0>>, <<0, 0, 0>>, <<1, 2, 1>>, <<2, 1, 1>>, <<0, 3, 3>>}
Keywords == {<<Unfound, Unfound, Unfound>>, <<0, Unfound, 2>>, <<Unfound, 2, 0>>, <<3, 2, 0>>, <<1, 1, Unfound>>}
Links == {{}, {1}, {2, 3}}
Kinds == {<<"memory", a, b>> : a \in {"memory", "expired"}, b \in {"memory", "entity", "unmatched"}}

Search(d, k, w, l, n, t, how) ==
    [found |-> [i \in 1..3 |-> [id |-> i, dist |-> d[i], kind |-> k[i], keyword |-> w[i],
                                linked |-> i \in l, overlap |-> i % 3, answer |-> Answers[i]]],
     top_k |-> n, threshold |-> t, rerank |-> how]

Searches ==
    {Search(d, k, w, l, n, t, how) :
        d \in Distances, k \in Kinds, w \in Keywords, l \in Links, n \in 1..3,
        t \in {1, NoThreshold}, how \in {"none", "local_overlap", "llm", "fastembed"}}
    \cup {Search(d, k, <<0, 1, 2>>, {}, n, NoThreshold, how) :
            d \in Distances, k \in Kinds, n \in 0..4, how \in {"none", "unconfigured"}}

-----------------------------------------------------------------------------
\* Of two results of a search, a beats b when it is nearer and not behind in
\* either of the other passes.
Beats(a, b) == a.dist < b.dist /\ a.keyword =< b.keyword /\ (b.linked => a.linked)

\* A search returns distinct records of the window that pass the filters, as
\* many of them as asked for, best score first; a record that is left out is
\* beaten by none that is kept, and without a reranker none is listed before a
\* record that beats it, whatever the keyword pass and the boost do to the
\* scores (Memory::search and the rerankers).
RankedWell(q) ==
    LET out      == search(q).results
        eligible == Elements(Matching(StoreSearch(q)))
        kept     == {out[i].rec : i \in DOMAIN out}
    IN  search(q).status = "ok" =>
           /\ kept \subseteq eligible
           /\ Cardinality(kept) = Len(out)
           /\ Len(out) = Least({q.top_k, Cardinality(eligible)})
           /\ \A i, j \in DOMAIN out : i < j => out[i].score =< out[j].score
           /\ \A b \in kept, a \in eligible \ kept : ~Beats(a, b)
           /\ q.rerank = "none" => \A i, j \in DOMAIN out : i < j => ~Beats(out[j].rec, out[i].rec)
=============================================================================
