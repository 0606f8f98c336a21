---------------------------- MODULE StoreReads -----------------------------
(***************************************************************************)
(* What the vector stores answer (src/core/src/vector_store.rs): the row a *)
(* record is kept in and read back from, the pages of a list, and the two  *)
(* searches.  The stores are asked one question at a time here; how their  *)
(* writes interleave is VectorStores.                                      *)
(*                                                                         *)
(* A store holds a sequence of records in the order its database returns   *)
(* them, which is the order of the ids only where a statement says so.  A  *)
(* record is [id, vector, mine, words, bm25, cover]: its vector, of two    *)
(* numbers here; whether it satisfies the filters; the words of its text;  *)
(* and the numbers by which SQLite and Postgres rank that text for the     *)
(* words asked for, which are their own and any numbers.  A result is a    *)
(* record with its score, and a smaller score is better.                   *)
(*                                                                         *)
(* The stores do not measure alike.  Two sum the differences of the        *)
(* numbers, Postgres and Qdrant take the Euclidean distance, Chroma and    *)
(* Milvus its square, and each compares its own number with the threshold. *)
(* A Euclidean score stands here as its square, next to the square of the  *)
(* threshold: the order and the comparison are the same.  The indexes of   *)
(* the remote stores are approximate: what they do not reach (`missed') is *)
(* an input.                                                               *)
(***************************************************************************)
EXTENDS Arrangements, SequencesExt

CONSTANTS PAGE_SIZE,           \* of a scroll of Qdrant and a query of Milvus
          MILVUS_MAX_TOP_K,
          U32                  \* 2^32: what Chroma's counts are cut to

ASSUME StoreReadsAssumption ==
    /\ PAGE_SIZE \in Nat \ {0} /\ MILVUS_MAX_TOP_K \in Nat \ {0}
    /\ U32 \in Nat /\ U32 > MILVUS_MAX_TOP_K
    /\ U32 > 4                \* the records of the inputs below

StoreKinds == {"memory", "sqlite", "postgres", "qdrant", "chroma", "milvus"}
NoLimit == -1                  \* no threshold: the engine refuses a negative one

Lesser(a, b) == IF a < b THEN a ELSE b
Page(s, offset, limit) == SubSeq(s, offset + 1, Lesser(offset + limit, Len(s)))
Ids(records) == [i \in DOMAIN records |-> records[i].id]
InOrder(ids) == Sorted(ids, ids)

-----------------------------------------------------------------------------
(* Lists.  SQLite and Postgres sort and cut in the statement; Qdrant and   *)
(* Milvus read everything page by page, sort, and cut; Chroma cuts in its  *)
(* own order and sorts the page; the in-memory store has no order.         *)
InMemoryList(records, offset, limit) == Page(Ids(records), offset, limit)
SqliteList(records, offset, limit) == Page(InOrder(Ids(records)), offset, limit)
PostgresList(records, offset, limit) == Page(InOrder(Ids(records)), offset, limit)

\* The first pages of a list, one after the other.
Pages(ids, size, pages) == FlattenSeq([p \in 1..pages |-> Page(ids, (p - 1) * size, size)])

\* A scroll ends at the page after which the server names no next one.
Scrolled(records) == Pages(Ids(records), PAGE_SIZE, (Len(records) + PAGE_SIZE - 1) \div PAGE_SIZE)
QdrantList(records, offset, limit) == Page(InOrder(Scrolled(records)), offset, limit)

ChromaList(records, offset, limit) == InOrder(Page(Ids(records), offset % U32, limit % U32))

\* The pages of a query up to the first that is not full.
Unfilled(ids, size) == CHOOSE p \in 1..(Len(ids) + 1) :
    /\ Len(Page(ids, (p - 1) * size, size)) < size
    /\ \A o \in 1..(p - 1) : Len(Page(ids, (o - 1) * size, size)) = size

\* The next page asked for one record too far.
QueriedPast(records) ==
    FlattenSeq([p \in 1..Unfilled(Ids(records), PAGE_SIZE) |->
                   Page(Ids(records), (p - 1) * (PAGE_SIZE + 1), PAGE_SIZE)])
Queried(records) == Pages(Ids(records), PAGE_SIZE, Unfilled(Ids(records), PAGE_SIZE))
MilvusList(records, offset, limit) == Page(InOrder(Queried(records)), offset, limit)

List(kind, records, offset, limit) ==
    CASE kind = "memory"   -> InMemoryList(records, offset, limit)
      [] kind = "sqlite"   -> SqliteList(records, offset, limit)
      [] kind = "postgres" -> PostgresList(records, offset, limit)
      [] kind = "qdrant"   -> QdrantList(records, offset, limit)
      [] kind = "chroma"   -> ChromaList(records, offset, limit)
      [] kind = "milvus"   -> MilvusList(records, offset, limit)

-----------------------------------------------------------------------------
(* Searches by distance, of a question q.                                  *)
Gap(a, b) == IF a < b THEN b - a ELSE a - b
Manhattan(records, v) ==
    [r \in Elements(records) |-> Gap(r.vector[1], v[1]) + Gap(r.vector[2], v[2])]
SquaredL2(records, v) ==
    [r \in Elements(records) |->
        Gap(r.vector[1], v[1]) * Gap(r.vector[1], v[1]) + Gap(r.vector[2], v[2]) * Gap(r.vector[2], v[2])]

Mine(records) == Retained(records, {i \in DOMAIN records : records[i].mine})
Reached(records, missed) == Retained(records, {i \in DOMAIN records : records[i].id \notin missed})

\* The records with their scores, and the results within a threshold.
Scored(records, measure) ==
    [i \in DOMAIN records |-> [rec |-> records[i], score |-> measure[records[i]]]]
Within(results, threshold) ==
    Retained(results, {i \in DOMAIN results : threshold = NoLimit \/ results[i].score =< threshold})
Square(threshold) == IF threshold = NoLimit THEN NoLimit ELSE threshold * threshold

\* What the database of a remote store finds, nearest first.
Nearest(q) == ByScore(Scored(Mine(Reached(q.records, q.missed)), SquaredL2(q.records, q.vector)))

InMemorySearch(q) ==
    Cut(ByScore(Within(Scored(Mine(q.records), Manhattan(q.records, q.vector)), q.threshold)), q.top_k)
SqliteSearch(q) ==
    Cut(ByScore(Within(Scored(Mine(q.records), Manhattan(q.records, q.vector)), q.threshold)), q.top_k)

\* The threshold is part of the statement in Postgres; the other remote stores
\* apply it to what their database returned, after the limit.
PostgresSearch(q) == Cut(Within(Nearest(q), Square(q.threshold)), q.top_k)
QdrantSearch(q) == Within(Cut(Nearest(q), q.top_k), Square(q.threshold))
ChromaSearch(q) == Within(Cut(Nearest(q), q.top_k % U32), q.threshold)
MilvusSearch(q) ==
    LET limit == IF q.top_k < 1 THEN 1 ELSE Lesser(q.top_k, MILVUS_MAX_TOP_K)
    IN  Within(Cut(Nearest(q), limit), q.threshold)

Searched(q) ==
    CASE q.kind = "memory"   -> InMemorySearch(q)
      [] q.kind = "sqlite"   -> SqliteSearch(q)
      [] q.kind = "postgres" -> PostgresSearch(q)
      [] q.kind = "qdrant"   -> QdrantSearch(q)
      [] q.kind = "chroma"   -> ChromaSearch(q)
      [] q.kind = "milvus"   -> MilvusSearch(q)

-----------------------------------------------------------------------------
(* Searches by words.  SQLite finds the texts that have any of the words   *)
(* asked for, as they are written; Postgres those that have them all, with *)
(* the words of no meaning left out and the others cut to their stems.     *)
(* The other stores have no keyword search.                                *)
StopWords == {"the"}
Stem(word) == IF word = "running" THEN "run" ELSE word
Lexemes(words) == {Stem(w) : w \in words \ StopWords}

fts_match(q) == {r \in Elements(q.records) : r.words \cap q.words # {}}
tsquery_match(q) ==
    {r \in Elements(q.records) : Lexemes(q.words) # {} /\ Lexemes(q.words) \subseteq Lexemes(r.words)}

Bm25(records) == [r \in Elements(records) |-> r.bm25]
CoverRank(records) == [r \in Elements(records) |-> r.cover]
Among(records, S) == Retained(records, {i \in DOMAIN records : records[i] \in S})

\* SQLite ranks the rows that match, skips those whose record is gone or not
\* asked for, and stops after the one that makes it top_k.
Here(results, gone) ==
    Retained(results, {i \in DOMAIN results : results[i].rec.mine /\ results[i].rec.id \notin gone})

\* Cut before the rows are skipped, as a LIMIT in the statement would.
SqliteKeywordsLimited(q) ==
    Here(Cut(ByScore(Scored(Among(q.records, fts_match(q)), Bm25(q.records))), q.top_k), q.gone)
SqliteKeywords(q) ==
    LET ranked == ByScore(Scored(Among(q.records, fts_match(q)), Bm25(q.records)))
    IN  Cut(Here(ranked, q.gone), IF q.top_k = 0 THEN 1 ELSE q.top_k)

\* In one statement on one table, in which no row outlives its record.
PostgresKeywords(q) ==
    Cut(ByScore(Scored(Mine(Among(q.records, tsquery_match(q))), CoverRank(q.records))), q.top_k)

KeywordsSearched(q) == IF q.kind = "sqlite" THEN SqliteKeywords(q) ELSE PostgresKeywords(q)

-----------------------------------------------------------------------------
(* Rows.  A payload is a function from keys to texts.  SQLite and Postgres *)
(* keep it in a column of its own, Chroma as metadata; Qdrant adds the id  *)
(* to it and Milvus keeps all in one row, where a key of the payload named *)
(* like a field replaces the field.                                        *)
Row(f, g) == [k \in DOMAIN f \cup DOMAIN g |-> IF k \in DOMAIN f THEN f[k] ELSE g[k]]
Without(f, keys) == [k \in DOMAIN f \ keys |-> f[k]]

QdrantRow(id, payload) == Row([k \in {"__memoria_id"} |-> id], payload)
QdrantBack(row) == [id |-> row["__memoria_id"], payload |-> Without(row, {"__memoria_id"})]

milvus_row_json(id, payload) == Row(payload, [k \in {"id", "vector"} |-> IF k = "id" THEN id ELSE "numbers"])
\* A vector column that holds a text reads as an empty vector.
milvus_entity_row_to_record(row) ==
    [id |-> row["id"], payload |-> Without(row, {"id", "vector"})]

ReservedKeys(kind) ==
    CASE kind = "qdrant" -> {"__memoria_id"} [] kind = "milvus" -> {"id", "vector"} [] OTHER -> {}

ReadBack(kind, id, payload) ==
    CASE kind = "qdrant" -> QdrantBack(QdrantRow(id, payload))
      [] kind = "milvus" -> milvus_entity_row_to_record(milvus_row_json(id, payload))
      [] OTHER           -> [id |-> id, payload |-> payload]

-----------------------------------------------------------------------------
(* The inputs: a store with up to four records, in any order of its own.   *)
Wordings == {{"run", "the"}, {"running"}, {"the", "running"}}
Keys == {"content", "user_id", "id", "vector", "__memoria_id"}
Payloads == {[k \in ks |-> "text"] : ks \in SUBSET Keys}

Shape(i, v, t, m) ==
    [id |-> i, vector |-> v[i], mine |-> i # m, words |-> t[i], bm25 |-> -(i % 3), cover |-> -((i + m) % 2)]
Orders(n) == {o \in [1..n -> 1..n] : \A i, j \in 1..n : i # j => o[i] # o[j]}
Contents(v, t, m) == UNION {{[i \in 1..n |-> Shape(o[i], v, t, m)] : o \in Orders(n)} : n \in 0..4}

Near == <<<<0, 0>>, <<0, 1>>, <<1, 1>>, <<0, 2>>>>
Far == <<<<2, 2>>, <<3, 0>>, <<0, 1>>, <<0, 3>>>>
Short == <<{"run"}, {"the"}, {"running", "the"}, {}>>
Long == <<{"run", "running"}, {"running"}, {"run", "the"}, {"the"}>>

Listings ==
    {[kind |-> k, records |-> r, page |-> n] :
        k \in StoreKinds, r \in Contents(Near, Short, 0), n \in {1, 2, 3, U32 - 1}}
Lookups ==
    {[kind |-> k, records |-> r, vector |-> <<0, 0>>, top_k |-> n, threshold |-> t, missed |-> a] :
        k \in StoreKinds, r \in Contents(Near, Short, 0) \cup Contents(Far, Short, 2),
        n \in {1, 2, 3, U32 - 1}, t \in {NoLimit, 2, 3}, a \in {{}, {1}, {2, 3}}}
KeywordLookups ==
    {[kind |-> "sqlite", records |-> r, words |-> w, top_k |-> n, gone |-> g] :
        r \in Contents(Near, Short, 0) \cup Contents(Near, Long, 2), w \in Wordings \cup {{}},
        n \in {1, 2, 3}, g \in {{}, {1}, {2, 3}}}
    \cup {[kind |-> "postgres", records |-> r, words |-> w, top_k |-> n, gone |-> {}] :
            r \in Contents(Near, Short, 0) \cup Contents(Near, Long, 2), w \in Wordings \cup {{}},
            n \in {1, 2, 3}}
Rows == {[kind |-> k, payload |-> p] : k \in StoreKinds, p \in Payloads}

-----------------------------------------------------------------------------
\* The pages of a list, read up to one that is not full, give every id once,
\* in the order of the ids in the stores that sort the whole list before they
\* cut it (VectorStore::list).
ListsEverythingOnce(q) ==
    LET pages == [p \in 1..(Len(q.records) \div q.page + 1) |-> List(q.kind, q.records, (p - 1) * q.page, q.page)]
        all   == FlattenSeq(pages)
    IN  /\ Len(all) = Len(q.records)
        /\ {all[i] : i \in DOMAIN all} = {q.records[i].id : i \in DOMAIN q.records}
        /\ q.kind \notin {"memory", "chroma"} => \A i, j \in DOMAIN all : i < j => all[i] < all[j]

\* A record reads back as it was written, unless its payload uses a key that
\* the store's row reserves (Qdrant then loses that key, Milvus the field).
ReadsBack(q) ==
    DOMAIN q.payload \cap ReservedKeys(q.kind) = {}
        => ReadBack(q.kind, "r1", q.payload) = [id |-> "r1", payload |-> q.payload]

\* The results are the n best of the records that fit, or all of them, each
\* once, best first.
TheBest(results, fits, measure, n) ==
    LET kept == {results[i].rec : i \in DOMAIN results}
    IN  /\ kept \subseteq fits
        /\ Cardinality(kept) = Len(results)
        /\ Len(results) = Lesser(n, Cardinality(fits))
        /\ \A i \in DOMAIN results : results[i].score = measure[results[i].rec]
        /\ \A i, j \in DOMAIN results : i < j => results[i].score =< results[j].score
        /\ \A a \in kept, b \in fits \ kept : measure[a] =< measure[b]

OwnMeasure(q) ==
    IF q.kind \in {"memory", "sqlite"} THEN Manhattan(q.records, q.vector) ELSE SquaredL2(q.records, q.vector)
OwnThreshold(q) == IF q.kind \in {"postgres", "qdrant"} THEN Square(q.threshold) ELSE q.threshold
OwnReach(q, r) == q.kind \in {"memory", "sqlite"} \/ r.id \notin q.missed
OwnLimit(q) == IF q.kind = "milvus" THEN Lesser(q.top_k, MILVUS_MAX_TOP_K) ELSE q.top_k

\* Each store keeps the nearest of the records within the threshold, by its
\* own measure: those that apply the threshold after the limit, or limit what
\* they are asked for, lose none of them (the search of each store).
KeepsTheNearest(q) ==
    LET fits == {r \in Elements(q.records) :
                    /\ r.mine /\ OwnReach(q, r)
                    /\ OwnThreshold(q) = NoLimit \/ OwnMeasure(q)[r] =< OwnThreshold(q)}
    IN  TheBest(Searched(q), fits, OwnMeasure(q), OwnLimit(q))

\* Each store with a keyword search keeps the best of the texts that match by
\* its own rule: rows of records that are gone or of other scopes take no
\* place (the keyword_search of SQLite and Postgres).
KeepsTheBestTexts(q) ==
    LET matching == IF q.kind = "sqlite" THEN fts_match(q) ELSE tsquery_match(q)
        measure  == IF q.kind = "sqlite" THEN Bm25(q.records) ELSE CoverRank(q.records)
    IN  TheBest(KeywordsSearched(q), {r \in matching : r.mine /\ r.id \notin q.gone}, measure, q.top_k)
=============================================================================
