------------------------- MODULE VectorStores_proofs -------------------------
(* Proofs about the stores outside the program: types, the contract of the *)
(* trait, one dimension, the collection, the words of sqlite, and that     *)
(* they implement StoreContract.                                           *)
EXTENDS VectorStores, SequenceTheorems, FiniteSetTheorems, TLAPS

-----------------------------------------------------------------------------
(* How far a call can be.                                                  *)

\* The statements that are left of a call, by what is known of its answer.
SqliteLeft(j) ==
  \/ j.op = "open" /\ j.answer = "none" /\ j.todo \in {<<"ensure">>, <<>>}
  \/ /\ j.op = "insert" /\ j.answer = "none"
     /\ j.todo \in {<<"check", "put", "unindex", "index">>, <<"put", "unindex", "index">>}
  \/ j.op = "update" /\ j.answer = "none" /\ j.todo = <<"change", "unindex", "index">>
  \/ j.op = "update" /\ j.answer = "missing" /\ j.todo = <<>>
  \/ /\ j.op \in {"insert", "update"} /\ j.answer = "ok"
     /\ j.todo \in {<<"unindex", "index">>, <<"index">>, <<>>}
  \/ j.op = "delete" /\ j.answer = "none" /\ j.todo = <<"remove", "unindex">>
  \/ j.op = "delete" /\ j.answer = "ok" /\ j.todo \in {<<"unindex">>, <<>>}
  \/ j.op = "reset" /\ j.answer = "none" /\ j.todo = <<"clear", "unindexAll">>
  \/ j.op = "reset" /\ j.answer = "ok" /\ j.todo \in {<<"unindexAll">>, <<>>}

PostgresLeft(j) ==
  \/ j.op = "open" /\ j.answer = "none" /\ j.todo \in {<<"ensure">>, <<>>}
  \/ j.op = "insert" /\ j.answer = "none" /\ j.todo = <<"put">>
  \/ j.op = "update" /\ j.answer = "none" /\ j.todo = <<"change">>
  \/ j.op = "update" /\ j.answer = "missing" /\ j.todo = <<>>
  \/ j.op = "delete" /\ j.answer = "none" /\ j.todo = <<"remove">>
  \/ j.op = "reset" /\ j.answer = "none" /\ j.todo = <<"clear">>
  \/ j.op # "open" /\ j.answer = "ok" /\ j.todo = <<>>

\* The three with a dispatcher differ in what opens and resets them.
RemoteLeft(j) ==
  \/ j.op = "insert" /\ j.answer = "none" /\ j.todo = <<"put">>
  \/ j.op = "update" /\ j.answer = "none" /\ j.todo \in {<<"find", "put">>, <<"put">>}
  \/ j.op = "update" /\ j.answer = "missing" /\ j.todo = <<>>
  \/ j.op = "delete" /\ j.answer = "none" /\ j.todo = <<"remove">>
  \/ j.op \notin {"open", "reset"} /\ j.answer = "ok" /\ j.todo = <<>>

QdrantLeft(j) ==
  \/ /\ j.op = "open" /\ j.answer = "none"
     /\ j.todo \in {<<"has", "createOrKeep">>, <<"createOrKeep">>, <<>>}
  \/ j.op = "reset" /\ j.answer = "none" /\ j.todo = <<"drop", "create">>
  \/ j.op = "reset" /\ j.answer = "ok" /\ j.todo \in {<<"create">>, <<>>}

ChromaLeft(j) ==
  \/ j.op = "open" /\ j.answer = "none" /\ j.todo \in {<<"ensure">>, <<>>}
  \/ j.op = "reset" /\ j.answer = "none" /\ j.todo = <<"drop", "ensure">>
  \/ j.op = "reset" /\ j.answer = "ok" /\ j.todo \in {<<"ensure">>, <<>>}

MilvusLeft(j) ==
  \/ /\ j.op = "open" /\ j.answer = "none"
     /\ j.todo \in {<<"has", "create", "load">>, <<"create", "load">>, <<"load">>, <<>>}
  \/ j.op = "reset" /\ j.answer = "none" /\ j.todo = <<"drop", "has", "create", "load">>
  \/ /\ j.op = "reset" /\ j.answer = "ok"
     /\ j.todo \in {<<"has", "create", "load">>, <<"create", "load">>, <<"load">>, <<>>}

Left(j) ==
  \/ backend = "sqlite" /\ SqliteLeft(j)
  \/ backend = "postgres" /\ PostgresLeft(j)
  \/ Dispatched /\ RemoteLeft(j)
  \/ backend = "qdrant" /\ QdrantLeft(j)
  \/ backend = "chroma" /\ ChromaLeft(j)
  \/ backend = "milvus" /\ MilvusLeft(j)

LEMMA Heads ==
  /\ Head(<<"ensure">>) = "ensure" /\ Head(<<"load">>) = "load"
  /\ Head(<<"has", "createOrKeep">>) = "has" /\ Head(<<"has", "create", "load">>) = "has"
  /\ Head(<<"createOrKeep">>) = "createOrKeep"
  /\ Head(<<"create">>) = "create" /\ Head(<<"create", "load">>) = "create"
  /\ Head(<<"check", "put", "unindex", "index">>) = "check"
  /\ Head(<<"put", "unindex", "index">>) = "put" /\ Head(<<"put">>) = "put"
  /\ Head(<<"find", "put">>) = "find"
  /\ Head(<<"change", "unindex", "index">>) = "change" /\ Head(<<"change">>) = "change"
  /\ Head(<<"remove", "unindex">>) = "remove" /\ Head(<<"remove">>) = "remove"
  /\ Head(<<"clear", "unindexAll">>) = "clear" /\ Head(<<"clear">>) = "clear"
  /\ Head(<<"unindex", "index">>) = "unindex" /\ Head(<<"unindex">>) = "unindex"
  /\ Head(<<"index">>) = "index" /\ Head(<<"unindexAll">>) = "unindexAll"
  /\ Head(<<"drop", "create">>) = "drop" /\ Head(<<"drop", "ensure">>) = "drop"
  /\ Head(<<"drop", "has", "create", "load">>) = "drop"
OBVIOUS

LEMMA Tails ==
  /\ Tail(<<"ensure">>) = <<>> /\ Tail(<<"load">>) = <<>>
  /\ Tail(<<"has", "createOrKeep">>) = <<"createOrKeep">>
  /\ Tail(<<"has", "create", "load">>) = <<"create", "load">>
  /\ Tail(<<"createOrKeep">>) = <<>>
  /\ Tail(<<"create">>) = <<>> /\ Tail(<<"create", "load">>) = <<"load">>
  /\ Tail(<<"check", "put", "unindex", "index">>) = <<"put", "unindex", "index">>
  /\ Tail(<<"put", "unindex", "index">>) = <<"unindex", "index">> /\ Tail(<<"put">>) = <<>>
  /\ Tail(<<"find", "put">>) = <<"put">>
  /\ Tail(<<"change", "unindex", "index">>) = <<"unindex", "index">> /\ Tail(<<"change">>) = <<>>
  /\ Tail(<<"remove", "unindex">>) = <<"unindex">> /\ Tail(<<"remove">>) = <<>>
  /\ Tail(<<"clear", "unindexAll">>) = <<"unindexAll">> /\ Tail(<<"clear">>) = <<>>
  /\ Tail(<<"unindex", "index">>) = <<"index">> /\ Tail(<<"unindex">>) = <<>>
  /\ Tail(<<"index">>) = <<>> /\ Tail(<<"unindexAll">>) = <<>>
  /\ Tail(<<"drop", "create">>) = <<"create">> /\ Tail(<<"drop", "ensure">>) = <<"ensure">>
  /\ Tail(<<"drop", "has", "create", "load">>) = <<"has", "create", "load">>
OBVIOUS

\* Where a call is when it is about to run a statement.
LEMMA AtCheck ==
  ASSUME NEW j, Left(j), j.todo # <<>>, Head(j.todo) = "check"
  PROVE  /\ backend = "sqlite" /\ j.op = "insert" /\ j.answer = "none"
         /\ j.todo = <<"check", "put", "unindex", "index">> /\ Tail(j.todo) = <<"put", "unindex", "index">>
BY Heads, Tails, ZenonT(30) DEF Left, SqliteLeft, PostgresLeft, RemoteLeft, QdrantLeft, ChromaLeft, MilvusLeft, Dispatched

LEMMA AtPut ==
  ASSUME NEW j, Left(j), j.todo # <<>>, Head(j.todo) = "put"
  PROVE  \/ /\ backend = "sqlite" /\ j.op = "insert" /\ j.answer = "none"
            /\ j.todo = <<"put", "unindex", "index">> /\ Tail(j.todo) = <<"unindex", "index">>
         \/ /\ backend = "postgres" /\ j.op = "insert" /\ j.answer = "none"
            /\ j.todo = <<"put">> /\ Tail(j.todo) = <<>>
         \/ /\ Dispatched /\ j.op \in {"insert", "update"} /\ j.answer = "none"
            /\ j.todo = <<"put">> /\ Tail(j.todo) = <<>>
BY Heads, Tails, ZenonT(30) DEF Left, SqliteLeft, PostgresLeft, RemoteLeft, QdrantLeft, ChromaLeft, MilvusLeft, Dispatched

LEMMA AtChange ==
  ASSUME NEW j, Left(j), j.todo # <<>>, Head(j.todo) = "change"
  PROVE  \/ /\ backend = "sqlite" /\ j.op = "update" /\ j.answer = "none"
            /\ j.todo = <<"change", "unindex", "index">> /\ Tail(j.todo) = <<"unindex", "index">>
         \/ /\ backend = "postgres" /\ j.op = "update" /\ j.answer = "none"
            /\ j.todo = <<"change">> /\ Tail(j.todo) = <<>>
BY Heads, Tails, ZenonT(30) DEF Left, SqliteLeft, PostgresLeft, RemoteLeft, QdrantLeft, ChromaLeft, MilvusLeft, Dispatched

LEMMA AtFind ==
  ASSUME NEW j, Left(j), j.todo # <<>>, Head(j.todo) = "find"
  PROVE  /\ Dispatched /\ j.op = "update" /\ j.answer = "none"
         /\ j.todo = <<"find", "put">> /\ Tail(j.todo) = <<"put">>
BY Heads, Tails, ZenonT(30) DEF Left, SqliteLeft, PostgresLeft, RemoteLeft, QdrantLeft, ChromaLeft, MilvusLeft, Dispatched

LEMMA AtRemove ==
  ASSUME NEW j, Left(j), j.todo # <<>>, Head(j.todo) = "remove"
  PROVE  \/ /\ backend = "sqlite" /\ j.op = "delete" /\ j.answer = "none"
            /\ j.todo = <<"remove", "unindex">> /\ Tail(j.todo) = <<"unindex">>
         \/ /\ backend # "sqlite" /\ j.op = "delete" /\ j.answer = "none"
            /\ j.todo = <<"remove">> /\ Tail(j.todo) = <<>>
BY Heads, Tails, ZenonT(30) DEF Left, SqliteLeft, PostgresLeft, RemoteLeft, QdrantLeft, ChromaLeft, MilvusLeft, Dispatched

LEMMA AtClear ==
  ASSUME NEW j, Left(j), j.todo # <<>>, Head(j.todo) = "clear"
  PROVE  \/ /\ backend = "sqlite" /\ j.op = "reset" /\ j.answer = "none"
            /\ j.todo = <<"clear", "unindexAll">> /\ Tail(j.todo) = <<"unindexAll">>
         \/ /\ backend = "postgres" /\ j.op = "reset" /\ j.answer = "none"
            /\ j.todo = <<"clear">> /\ Tail(j.todo) = <<>>
BY Heads, Tails, ZenonT(30) DEF Left, SqliteLeft, PostgresLeft, RemoteLeft, QdrantLeft, ChromaLeft, MilvusLeft, Dispatched

LEMMA AtUnindex ==
  ASSUME NEW j, Left(j), j.todo # <<>>, Head(j.todo) = "unindex"
  PROVE  \/ /\ backend = "sqlite" /\ j.op \in {"insert", "update"} /\ j.answer = "ok"
            /\ j.todo = <<"unindex", "index">> /\ Tail(j.todo) = <<"index">>
         \/ /\ backend = "sqlite" /\ j.op = "delete" /\ j.answer = "ok"
            /\ j.todo = <<"unindex">> /\ Tail(j.todo) = <<>>
BY Heads, Tails, ZenonT(30) DEF Left, SqliteLeft, PostgresLeft, RemoteLeft, QdrantLeft, ChromaLeft, MilvusLeft, Dispatched

LEMMA AtIndex ==
  ASSUME NEW j, Left(j), j.todo # <<>>, Head(j.todo) = "index"
  PROVE  /\ backend = "sqlite" /\ j.op \in {"insert", "update"} /\ j.answer = "ok"
         /\ j.todo = <<"index">> /\ Tail(j.todo) = <<>>
BY Heads, Tails, ZenonT(30) DEF Left, SqliteLeft, PostgresLeft, RemoteLeft, QdrantLeft, ChromaLeft, MilvusLeft, Dispatched

LEMMA AtUnindexAll ==
  ASSUME NEW j, Left(j), j.todo # <<>>, Head(j.todo) = "unindexAll"
  PROVE  /\ backend = "sqlite" /\ j.op = "reset" /\ j.answer = "ok"
         /\ j.todo = <<"unindexAll">> /\ Tail(j.todo) = <<>>
BY Heads, Tails, ZenonT(30) DEF Left, SqliteLeft, PostgresLeft, RemoteLeft, QdrantLeft, ChromaLeft, MilvusLeft, Dispatched

LEMMA AtDrop ==
  ASSUME NEW j, Left(j), j.todo # <<>>, Head(j.todo) = "drop"
  PROVE  \/ /\ backend = "qdrant" /\ j.op = "reset" /\ j.answer = "none"
            /\ j.todo = <<"drop", "create">> /\ Tail(j.todo) = <<"create">>
         \/ /\ backend = "chroma" /\ j.op = "reset" /\ j.answer = "none"
            /\ j.todo = <<"drop", "ensure">> /\ Tail(j.todo) = <<"ensure">>
         \/ /\ backend = "milvus" /\ j.op = "reset" /\ j.answer = "none"
            /\ j.todo = <<"drop", "has", "create", "load">> /\ Tail(j.todo) = <<"has", "create", "load">>
BY Heads, Tails, ZenonT(30) DEF Left, SqliteLeft, PostgresLeft, RemoteLeft, QdrantLeft, ChromaLeft, MilvusLeft, Dispatched

LEMMA AtHas ==
  ASSUME NEW j, Left(j), j.todo # <<>>, Head(j.todo) = "has"
  PROVE  \/ /\ backend = "qdrant" /\ j.op = "open" /\ j.answer = "none"
            /\ j.todo = <<"has", "createOrKeep">> /\ Tail(j.todo) = <<"createOrKeep">>
         \/ /\ backend = "milvus" /\ j.op = "open" /\ j.answer = "none"
            /\ j.todo = <<"has", "create", "load">> /\ Tail(j.todo) = <<"create", "load">>
         \/ /\ backend = "milvus" /\ j.op = "reset" /\ j.answer = "ok"
            /\ j.todo = <<"has", "create", "load">> /\ Tail(j.todo) = <<"create", "load">>
BY Heads, Tails, ZenonT(30) DEF Left, SqliteLeft, PostgresLeft, RemoteLeft, QdrantLeft, ChromaLeft, MilvusLeft, Dispatched

LEMMA AtCreate ==
  ASSUME NEW j, Left(j), j.todo # <<>>, Head(j.todo) = "create"
  PROVE  \/ /\ backend = "qdrant" /\ j.op = "reset" /\ j.answer = "ok"
            /\ j.todo = <<"create">> /\ Tail(j.todo) = <<>>
         \/ /\ backend = "milvus" /\ j.op = "open" /\ j.answer = "none"
            /\ j.todo = <<"create", "load">> /\ Tail(j.todo) = <<"load">>
         \/ /\ backend = "milvus" /\ j.op = "reset" /\ j.answer = "ok"
            /\ j.todo = <<"create", "load">> /\ Tail(j.todo) = <<"load">>
BY Heads, Tails, ZenonT(30) DEF Left, SqliteLeft, PostgresLeft, RemoteLeft, QdrantLeft, ChromaLeft, MilvusLeft, Dispatched

LEMMA AtCreateOrKeep ==
  ASSUME NEW j, Left(j), j.todo # <<>>, Head(j.todo) = "createOrKeep"
  PROVE  /\ backend = "qdrant" /\ j.op = "open" /\ j.answer = "none"
         /\ j.todo = <<"createOrKeep">> /\ Tail(j.todo) = <<>>
BY Heads, Tails, ZenonT(30) DEF Left, SqliteLeft, PostgresLeft, RemoteLeft, QdrantLeft, ChromaLeft, MilvusLeft, Dispatched

LEMMA AtEnsure ==
  ASSUME NEW j, Left(j), j.todo # <<>>, Head(j.todo) = "ensure"
  PROVE  \/ /\ backend \in {"sqlite", "postgres", "chroma"} /\ j.op = "open" /\ j.answer = "none"
            /\ j.todo = <<"ensure">> /\ Tail(j.todo) = <<>>
         \/ /\ backend = "chroma" /\ j.op = "reset" /\ j.answer = "ok"
            /\ j.todo = <<"ensure">> /\ Tail(j.todo) = <<>>
BY Heads, Tails, ZenonT(30) DEF Left, SqliteLeft, PostgresLeft, RemoteLeft, QdrantLeft, ChromaLeft, MilvusLeft, Dispatched

LEMMA AtLoad ==
  ASSUME NEW j, Left(j), j.todo # <<>>, Head(j.todo) = "load"
  PROVE  \/ /\ backend = "milvus" /\ j.op = "open" /\ j.answer = "none"
            /\ j.todo = <<"load">> /\ Tail(j.todo) = <<>>
         \/ /\ backend = "milvus" /\ j.op = "reset" /\ j.answer = "ok"
            /\ j.todo = <<"load">> /\ Tail(j.todo) = <<>>
BY Heads, Tails, ZenonT(30) DEF Left, SqliteLeft, PostgresLeft, RemoteLeft, QdrantLeft, ChromaLeft, MilvusLeft, Dispatched

USE CallersAssumption, RecordsAssumption, BackendsAssumption, NoCallAssumption

-----------------------------------------------------------------------------
(* Types.                                                                  *)

\* A call that has not begun to run has all its statements before it; stores
\* of a fixed dimension are given no other.
JobOK(j) ==
  /\ Left(j)
  /\ j.state = "queued" => j.answer = "none" /\ j.todo = Plan(j.op) /\ j.op # "open"
  /\ Allowed(j.op, j.value)

JobsOK == \A c \in Callers : ~Idle(c) => JobOK(job[c])

\* The callers that are about to add a row of words for i.
Indexing(i) == {c \in Callers : ~Idle(c) /\ job[c].id = i /\ job[c].todo = <<"index">>}

RowsBounded ==
  \A i \in Ids : \A t \in Texts \ {NoText} :
    words[i][t] + Cardinality(Indexing(i)) <= Cardinality(Callers)

\* A process that does not run, or opens its store, serves no call, and but
\* for postgres one call of a process runs at a time.
PhasesOK ==
  /\ \A c \in Callers : ~Idle(c) =>
       phase[home[c]] = IF job[c].op = "open" THEN "opening" ELSE "up"
  /\ \A c, d \in Callers :
       (c # d /\ home[c] = home[d] /\ ~Idle(c)) =>
         /\ job[c].op = "open" => Idle(d)
         /\ Running(c) /\ Running(d) => backend = "postgres"

LEMMA OneStatement == ASSUME NEW S, NEW a \in S PROVE <<a>> \in Seq(S)
OBVIOUS

LEMMA TwoStatements == ASSUME NEW S, NEW a \in S, NEW b \in S PROVE <<a, b>> \in Seq(S)
OBVIOUS

LEMMA ThreeStatements == ASSUME NEW S, NEW a \in S, NEW b \in S, NEW c \in S PROVE <<a, b, c>> \in Seq(S)
OBVIOUS

LEMMA FourStatements ==
  ASSUME NEW S, NEW a \in S, NEW b \in S, NEW c \in S, NEW d \in S
  PROVE  <<a, b, c, d>> \in Seq(S)
OBVIOUS

LEMMA PlanType ==
  ASSUME backend \in Backends, NEW op \in Ops \cup {"open"}
  PROVE  Plan(op) \in Seq(Statements) /\ Plan(op) # <<>>
<1> DEFINE Plans == Seq(Statements) \ {<<>>}
<1>1. {SqliteOpen, SqliteInsert, SqliteUpdate, SqliteDelete, SqliteReset} \subseteq Plans
  BY OneStatement, TwoStatements, ThreeStatements, FourStatements
     DEF SqliteOpen, SqliteInsert, SqliteUpdate, SqliteDelete, SqliteReset, Statements
<1>2. {PgOpen, PgInsert, PgUpdate, PgDelete, PgReset} \subseteq Plans
  BY OneStatement DEF PgOpen, PgInsert, PgUpdate, PgDelete, PgReset, Statements
<1>3. {QdrantOpen, QdrantInsert, QdrantUpdate, QdrantDelete, QdrantReset} \subseteq Plans
  BY OneStatement, TwoStatements
     DEF QdrantOpen, QdrantInsert, QdrantUpdate, QdrantDelete, QdrantReset, Statements
<1>4. {ChromaOpen, ChromaInsert, ChromaUpdate, ChromaDelete, ChromaReset} \subseteq Plans
  BY OneStatement, TwoStatements
     DEF ChromaOpen, ChromaInsert, ChromaUpdate, ChromaDelete, ChromaReset, Statements
<1>5. {MilvusOpen, MilvusInsert, MilvusUpdate, MilvusDelete, MilvusReset} \subseteq Plans
  BY OneStatement, TwoStatements, ThreeStatements, FourStatements
     DEF MilvusOpen, MilvusInsert, MilvusUpdate, MilvusDelete, MilvusReset, Statements
<1> HIDE DEF Plans
<1>6. ASSUME backend = "sqlite"
      PROVE  Plan(op) \in Plans
  BY <1>1, <1>6 DEF Plan, Ops
<1>7. ASSUME backend = "postgres"
      PROVE  Plan(op) \in Plans
  BY <1>2, <1>7 DEF Plan, Ops
<1>8. ASSUME backend = "qdrant"
      PROVE  Plan(op) \in Plans
  BY <1>3, <1>8 DEF Plan, Ops
<1>9. ASSUME backend = "chroma"
      PROVE  Plan(op) \in Plans
  BY <1>4, <1>9 DEF Plan, Ops
<1>10. ASSUME backend = "milvus"
      PROVE  Plan(op) \in Plans
  BY <1>5, <1>10 DEF Plan, Ops
<1>11. Plan(op) \in Plans
  BY <1>6, <1>7, <1>8, <1>9, <1>10
<1> QED
  BY <1>11 DEF Plans

LEMMA PlanLeft ==
  ASSUME backend \in Backends, NEW j, j.op \in Ops \cup {"open"}, j.answer = "none", j.todo = Plan(j.op)
  PROVE  Left(j)
<1>1. CASE backend = "sqlite"
  BY <1>1 DEF Plan, Ops, Left, SqliteLeft, SqliteOpen, SqliteInsert, SqliteUpdate, SqliteDelete, SqliteReset
<1>2. CASE backend = "postgres"
  BY <1>2 DEF Plan, Ops, Left, PostgresLeft, PgOpen, PgInsert, PgUpdate, PgDelete, PgReset
<1>3. CASE backend = "qdrant"
  BY <1>3 DEF Plan, Ops, Left, RemoteLeft, QdrantLeft, Dispatched,
     QdrantOpen, QdrantInsert, QdrantUpdate, QdrantDelete, QdrantReset
<1>4. CASE backend = "chroma"
  BY <1>4 DEF Plan, Ops, Left, RemoteLeft, ChromaLeft, Dispatched,
     ChromaOpen, ChromaInsert, ChromaUpdate, ChromaDelete, ChromaReset
<1>5. CASE backend = "milvus"
  BY <1>5 DEF Plan, Ops, Left, RemoteLeft, MilvusLeft, Dispatched,
     MilvusOpen, MilvusInsert, MilvusUpdate, MilvusDelete, MilvusReset
<1> QED
  BY <1>1, <1>2, <1>3, <1>4, <1>5

LEMMA AnyType == AnyId \in Ids /\ NoValue \in Values /\ NoValue.dimension = Fixed
BY DEF AnyId, NoValue

LEMMA NewJobType ==
  ASSUME backend \in Backends, NEW op \in Ops \cup {"open"}, NEW i \in Ids, NEW v \in Values
  PROVE  /\ NewJob(op, i, v) \in Job
         /\ [NewJob(op, i, v) EXCEPT !.state = "running"] \in Job
BY PlanType DEF NewJob, Job

LEMMA NoCallApart == \A j \in Job : j # NoCall
OBVIOUS

TypeInv == TypeOK /\ JobsOK /\ RowsBounded /\ PhasesOK

\* The call of c goes on: these statements are left, this is known of the
\* answer, and no other call changes.
Moves(c, todo, answer) ==
  /\ job' \in [Callers -> Job \cup {NoCall}] /\ job'[c] \in Job
  /\ \A d \in Callers \ {c} : job'[d] = job[d]
  /\ job'[c].op = job[c].op /\ job'[c].id = job[c].id /\ job'[c].value = job[c].value
  /\ job'[c].state = job[c].state /\ job'[c].alone = job[c].alone
  /\ job'[c].todo = todo /\ job'[c].answer = answer

LEMMA JobType ==
  ASSUME TypeInv, NEW c \in Callers, ~Idle(c)
  PROVE  /\ job \in [Callers -> Job \cup {NoCall}] /\ job[c] \in Job /\ JobOK(job[c])
         /\ job[c].op \in Ops \cup {"open"} /\ job[c].id \in Ids /\ job[c].value \in Values
         /\ job[c].todo \in Seq(Statements)
BY DEF TypeInv, TypeOK, JobsOK, Idle, Job

LEMMA ReplaceMoves ==
  ASSUME TypeInv, NEW c \in Callers, ~Idle(c), NEW t, NEW a,
         NEW j \in Job, job' = [job EXCEPT ![c] = j], j.todo = t, j.answer = a,
         j.op = job[c].op, j.id = job[c].id, j.value = job[c].value,
         j.state = job[c].state, j.alone = job[c].alone
  PROVE  Moves(c, t, a)
BY JobType DEF Moves

LEMMA SetMoves ==
  ASSUME TypeInv, NEW c \in Callers, ~Idle(c),
         NEW t \in Seq(Statements), NEW a \in {"none", "ok", "missing"},
         job' = [job EXCEPT ![c].todo = t, ![c].answer = a]
  PROVE  Moves(c, t, a)
<1> DEFINE j == [job[c] EXCEPT !.todo = t, !.answer = a]
<1>1. job' = [job EXCEPT ![c] = j]
  BY JobType
<1>2. j \in Job
  BY JobType, ZenonT(30) DEF Job
<1>3. /\ j.todo = t /\ j.answer = a
      /\ j.op = job[c].op /\ j.id = job[c].id /\ j.value = job[c].value
      /\ j.state = job[c].state /\ j.alone = job[c].alone
  BY JobType DEF Job
<1> HIDE DEF j
<1> QED
  BY <1>1, <1>2, <1>3, ReplaceMoves

LEMMA TodoMoves ==
  ASSUME TypeInv, NEW c \in Callers, ~Idle(c), NEW t \in Seq(Statements),
         job' = [job EXCEPT ![c].todo = t]
  PROVE  Moves(c, t, job[c].answer)
<1> DEFINE j == [job[c] EXCEPT !.todo = t]
<1>1. job' = [job EXCEPT ![c] = j]
  BY JobType
<1>2. j \in Job
  BY JobType, ZenonT(30) DEF Job
<1>3. /\ j.todo = t /\ j.answer = job[c].answer
      /\ j.op = job[c].op /\ j.id = job[c].id /\ j.value = job[c].value
      /\ j.state = job[c].state /\ j.alone = job[c].alone
  BY JobType DEF Job
<1> HIDE DEF j
<1> QED
  BY <1>1, <1>2, <1>3, ReplaceMoves

LEMMA StepTail ==
  ASSUME TypeInv, NEW c \in Callers, NEW s, Step(c, s)
  PROVE  /\ ~Idle(c) /\ Running(c) /\ JobOK(job[c]) /\ Left(job[c])
         /\ job[c].todo # <<>> /\ Head(job[c].todo) = s
         /\ Tail(job[c].todo) \in Seq(Statements)
BY JobType, HeadTailProperties DEF Step, Running, JobOK

LEMMA DoneMoves ==
  ASSUME TypeInv, NEW c \in Callers, NEW s, Step(c, s), Done(c)
  PROVE  Moves(c, Tail(job[c].todo), job[c].answer)
<1>1. job' = [job EXCEPT ![c].todo = Tail(job[c].todo)]
  BY StepTail, JobType DEF Done
<1> QED
  BY <1>1, StepTail, TodoMoves

LEMMA DoneAsMoves ==
  ASSUME TypeInv, NEW c \in Callers, NEW s, Step(c, s), DoneAs(c, "ok")
  PROVE  Moves(c, Tail(job[c].todo), "ok")
<1>1. job' = [job EXCEPT ![c].todo = Tail(job[c].todo), ![c].answer = "ok"]
  BY StepTail, JobType DEF DoneAs
<1> QED
  BY <1>1, StepTail, SetMoves

LEMMA SkipMoves ==
  ASSUME TypeInv, NEW c \in Callers, NEW s, Step(c, s), Skip(c), Tail(job[c].todo) # <<>>
  PROVE  Moves(c, Tail(Tail(job[c].todo)), job[c].answer)
<1>1. job' = [job EXCEPT ![c].todo = Tail(Tail(job[c].todo))]
  BY StepTail, JobType DEF Skip
<1>2. Tail(Tail(job[c].todo)) \in Seq(Statements)
  BY StepTail, HeadTailProperties
<1> QED
  BY <1>1, <1>2, StepTail, TodoMoves

LEMMA MissingMoves ==
  ASSUME TypeInv, NEW c \in Callers, NEW s, Step(c, s),
         job' = [job EXCEPT ![c].todo = <<>>, ![c].answer = "missing"]
  PROVE  Moves(c, <<>>, "missing")
BY EmptySeq, StepTail, SetMoves

-----------------------------------------------------------------------------
(* Each statement takes its call one step on.                              *)

\* The call goes on within its plan.
GoesOn(c, todo, answer) == Running(c) /\ Moves(c, todo, answer) /\ Left(job'[c])

LEMMA PutMoves ==
  ASSUME TypeInv, NEW c \in Callers, Put(c)
  PROVE  GoesOn(c, Tail(job[c].todo), "ok")
<1>1. Step(c, "put") /\ Left(job[c]) /\ job[c].todo # <<>> /\ Head(job[c].todo) = "put"
  BY StepTail DEF Put
<1>2. Moves(c, Tail(job[c].todo), "ok")
  BY <1>1, DoneAsMoves DEF Put
<1>3. Left(job'[c])
  BY <1>1, <1>2, AtPut DEF Left, SqliteLeft, PostgresLeft, RemoteLeft, QdrantLeft, ChromaLeft, MilvusLeft, Dispatched, Moves
<1> QED
  BY <1>1, <1>2, <1>3 DEF GoesOn, Step

LEMMA RemoveMoves ==
  ASSUME TypeInv, NEW c \in Callers, Remove(c)
  PROVE  GoesOn(c, Tail(job[c].todo), "ok")
<1>1. Step(c, "remove") /\ Left(job[c]) /\ job[c].todo # <<>> /\ Head(job[c].todo) = "remove"
  BY StepTail DEF Remove
<1>2. Moves(c, Tail(job[c].todo), "ok")
  BY <1>1, DoneAsMoves DEF Remove
<1>3. Left(job'[c])
  BY <1>1, <1>2, AtRemove DEF Left, SqliteLeft, PostgresLeft, RemoteLeft, QdrantLeft, ChromaLeft, MilvusLeft, Dispatched, Moves
<1> QED
  BY <1>1, <1>2, <1>3 DEF GoesOn, Step

LEMMA ClearMoves ==
  ASSUME TypeInv, NEW c \in Callers, Clear(c)
  PROVE  GoesOn(c, Tail(job[c].todo), "ok")
<1>1. Step(c, "clear") /\ Left(job[c]) /\ job[c].todo # <<>> /\ Head(job[c].todo) = "clear"
  BY StepTail DEF Clear
<1>2. Moves(c, Tail(job[c].todo), "ok")
  BY <1>1, DoneAsMoves DEF Clear
<1>3. Left(job'[c])
  BY <1>1, <1>2, AtClear DEF Left, SqliteLeft, PostgresLeft, RemoteLeft, QdrantLeft, ChromaLeft, MilvusLeft, Dispatched, Moves
<1> QED
  BY <1>1, <1>2, <1>3 DEF GoesOn, Step

LEMMA UnindexMoves ==
  ASSUME TypeInv, NEW c \in Callers, Unindex(c)
  PROVE  GoesOn(c, Tail(job[c].todo), job[c].answer)
<1>1. Step(c, "unindex") /\ Left(job[c]) /\ job[c].todo # <<>> /\ Head(job[c].todo) = "unindex"
  BY StepTail DEF Unindex
<1>2. Moves(c, Tail(job[c].todo), job[c].answer)
  BY <1>1, DoneMoves DEF Unindex
<1>3. Left(job'[c])
  BY <1>1, <1>2, AtUnindex DEF Left, SqliteLeft, PostgresLeft, RemoteLeft, QdrantLeft, ChromaLeft, MilvusLeft, Dispatched, Moves
<1> QED
  BY <1>1, <1>2, <1>3 DEF GoesOn, Step

LEMMA IndexMoves ==
  ASSUME TypeInv, NEW c \in Callers, Index(c)
  PROVE  GoesOn(c, Tail(job[c].todo), job[c].answer)
<1>1. Step(c, "index") /\ Left(job[c]) /\ job[c].todo # <<>> /\ Head(job[c].todo) = "index"
  BY StepTail DEF Index
<1>2. Moves(c, Tail(job[c].todo), job[c].answer)
  BY <1>1, DoneMoves DEF Index
<1>3. Left(job'[c])
  BY <1>1, <1>2, AtIndex DEF Left, SqliteLeft, PostgresLeft, RemoteLeft, QdrantLeft, ChromaLeft, MilvusLeft, Dispatched, Moves
<1> QED
  BY <1>1, <1>2, <1>3 DEF GoesOn, Step

LEMMA UnindexAllMoves ==
  ASSUME TypeInv, NEW c \in Callers, UnindexAll(c)
  PROVE  GoesOn(c, Tail(job[c].todo), job[c].answer)
<1>1. Step(c, "unindexAll") /\ Left(job[c]) /\ job[c].todo # <<>> /\ Head(job[c].todo) = "unindexAll"
  BY StepTail DEF UnindexAll
<1>2. Moves(c, Tail(job[c].todo), job[c].answer)
  BY <1>1, DoneMoves DEF UnindexAll
<1>3. Left(job'[c])
  BY <1>1, <1>2, AtUnindexAll DEF Left, SqliteLeft, PostgresLeft, RemoteLeft, QdrantLeft, ChromaLeft, MilvusLeft, Dispatched, Moves
<1> QED
  BY <1>1, <1>2, <1>3 DEF GoesOn, Step

LEMMA DropMoves ==
  ASSUME TypeInv, NEW c \in Callers, Drop(c)
  PROVE  GoesOn(c, Tail(job[c].todo), "ok")
<1>1. Step(c, "drop") /\ Left(job[c]) /\ job[c].todo # <<>> /\ Head(job[c].todo) = "drop"
  BY StepTail DEF Drop
<1>2. Moves(c, Tail(job[c].todo), "ok")
  BY <1>1, DoneAsMoves DEF Drop
<1>3. Left(job'[c])
  BY <1>1, <1>2, AtDrop DEF Left, SqliteLeft, PostgresLeft, RemoteLeft, QdrantLeft, ChromaLeft, MilvusLeft, Dispatched, Moves
<1> QED
  BY <1>1, <1>2, <1>3 DEF GoesOn, Step

LEMMA EnsureMoves ==
  ASSUME TypeInv, NEW c \in Callers, Ensure(c)
  PROVE  GoesOn(c, Tail(job[c].todo), job[c].answer)
<1>1. Step(c, "ensure") /\ Left(job[c]) /\ job[c].todo # <<>> /\ Head(job[c].todo) = "ensure"
  BY StepTail DEF Ensure
<1>2. Moves(c, Tail(job[c].todo), job[c].answer)
  BY <1>1, DoneMoves DEF Ensure
<1>3. Left(job'[c])
  BY <1>1, <1>2, AtEnsure DEF Left, SqliteLeft, PostgresLeft, RemoteLeft, QdrantLeft, ChromaLeft, MilvusLeft, Dispatched, Moves
<1> QED
  BY <1>1, <1>2, <1>3 DEF GoesOn, Step

LEMMA LoadMoves ==
  ASSUME TypeInv, NEW c \in Callers, Load(c)
  PROVE  GoesOn(c, Tail(job[c].todo), job[c].answer)
<1>1. Step(c, "load") /\ Left(job[c]) /\ job[c].todo # <<>> /\ Head(job[c].todo) = "load"
  BY StepTail DEF Load
<1>2. Moves(c, Tail(job[c].todo), job[c].answer)
  BY <1>1, DoneMoves DEF Load
<1>3. Left(job'[c])
  BY <1>1, <1>2, AtLoad DEF Left, SqliteLeft, PostgresLeft, RemoteLeft, QdrantLeft, ChromaLeft, MilvusLeft, Dispatched, Moves
<1> QED
  BY <1>1, <1>2, <1>3 DEF GoesOn, Step

LEMMA CheckMoves ==
  ASSUME TypeInv, NEW c \in Callers, Check(c)
  PROVE  Ends(c) \/ GoesOn(c, Tail(job[c].todo), job[c].answer)
<1>1. Step(c, "check") /\ Left(job[c]) /\ job[c].todo # <<>> /\ Head(job[c].todo) = "check"
  BY StepTail DEF Check
<1>2. SUFFICES ASSUME ~Ends(c)
              PROVE  GoesOn(c, Tail(job[c].todo), job[c].answer)
  OBVIOUS
<1>3. Moves(c, Tail(job[c].todo), job[c].answer)
  BY <1>1, <1>2, DoneMoves DEF Check
<1>4. Left(job'[c])
  BY <1>1, <1>3, AtCheck DEF Left, SqliteLeft, PostgresLeft, RemoteLeft, QdrantLeft, ChromaLeft, MilvusLeft, Dispatched, Moves
<1> QED
  BY <1>1, <1>3, <1>4 DEF GoesOn, Step

LEMMA ChangeMoves ==
  ASSUME TypeInv, NEW c \in Callers, Change(c)
  PROVE  IF job[c].id \in Live THEN GoesOn(c, Tail(job[c].todo), "ok")
         ELSE GoesOn(c, <<>>, "missing")
<1>1. Step(c, "change") /\ Left(job[c]) /\ job[c].todo # <<>> /\ Head(job[c].todo) = "change"
  BY StepTail DEF Change
<1>2. CASE job[c].id \in Live
  <2>1. Moves(c, Tail(job[c].todo), "ok")
    BY <1>1, <1>2, DoneAsMoves DEF Change
  <2>2. Left(job'[c])
    BY <1>1, <2>1, AtChange DEF Left, SqliteLeft, PostgresLeft, RemoteLeft, QdrantLeft, ChromaLeft, MilvusLeft, Dispatched, Moves
  <2> QED
    BY <1>1, <1>2, <2>1, <2>2 DEF GoesOn, Step
<1>3. CASE job[c].id \notin Live
  <2>1. Moves(c, <<>>, "missing")
    BY <1>1, <1>3, MissingMoves DEF Change
  <2>2. Left(job'[c])
    BY <1>1, <2>1, AtChange DEF Left, SqliteLeft, PostgresLeft, RemoteLeft, QdrantLeft, ChromaLeft, MilvusLeft, Dispatched, Moves
  <2> QED
    BY <1>1, <1>3, <2>1, <2>2 DEF GoesOn, Step
<1> QED
  BY <1>2, <1>3

LEMMA FindMoves ==
  ASSUME TypeInv, NEW c \in Callers, Find(c)
  PROVE  IF job[c].id \in Live THEN GoesOn(c, Tail(job[c].todo), job[c].answer)
         ELSE GoesOn(c, <<>>, "missing")
<1>1. Step(c, "find") /\ Left(job[c]) /\ job[c].todo # <<>> /\ Head(job[c].todo) = "find"
  BY StepTail DEF Find
<1>2. CASE job[c].id \in Live
  <2>1. Moves(c, Tail(job[c].todo), job[c].answer)
    BY <1>1, <1>2, DoneMoves DEF Find
  <2>2. Left(job'[c])
    BY <1>1, <2>1, AtFind DEF Left, SqliteLeft, PostgresLeft, RemoteLeft, QdrantLeft, ChromaLeft, MilvusLeft, Dispatched, Moves
  <2> QED
    BY <1>1, <1>2, <2>1, <2>2 DEF GoesOn, Step
<1>3. CASE job[c].id \notin Live
  <2>1. Moves(c, <<>>, "missing")
    BY <1>1, <1>3, MissingMoves DEF Find
  <2>2. Left(job'[c])
    BY <1>1, <2>1, AtFind DEF Left, SqliteLeft, PostgresLeft, RemoteLeft, QdrantLeft, ChromaLeft, MilvusLeft, Dispatched, Moves
  <2> QED
    BY <1>1, <1>3, <2>1, <2>2 DEF GoesOn, Step
<1> QED
  BY <1>2, <1>3

LEMMA HasMoves ==
  ASSUME TypeInv, NEW c \in Callers, Has(c)
  PROVE  IF exists THEN GoesOn(c, Tail(Tail(job[c].todo)), job[c].answer)
         ELSE GoesOn(c, Tail(job[c].todo), job[c].answer)
<1>1. Step(c, "has") /\ Left(job[c]) /\ job[c].todo # <<>> /\ Head(job[c].todo) = "has"
  BY StepTail DEF Has
<1>2. Tail(job[c].todo) \in {<<"createOrKeep">>, <<"create", "load">>}
  BY <1>1, AtHas
<1>3. Tail(Tail(job[c].todo)) = IF Tail(job[c].todo) = <<"createOrKeep">> THEN <<>> ELSE <<"load">>
  BY <1>2, Tails
<1>4. CASE exists
  <2>1. Moves(c, Tail(Tail(job[c].todo)), job[c].answer)
    <3>1. <<"createOrKeep">> # <<>> /\ <<"create", "load">> # <<>>
      OBVIOUS
    <3>2. Tail(job[c].todo) # <<>>
      BY <1>2, <3>1
    <3>3. Skip(c)
      BY <1>4 DEF Has
    <3> QED
      BY <1>1, <3>2, <3>3, SkipMoves
  <2>2. Left(job'[c])
    BY <1>1, <1>3, <2>1, AtHas DEF Left, SqliteLeft, PostgresLeft, RemoteLeft, QdrantLeft, ChromaLeft, MilvusLeft, Dispatched, Moves
  <2> QED
    BY <1>1, <1>4, <2>1, <2>2 DEF GoesOn, Step
<1>5. CASE ~exists
  <2>1. Moves(c, Tail(job[c].todo), job[c].answer)
    BY <1>1, <1>5, DoneMoves DEF Has
  <2>2. Left(job'[c])
    BY <1>1, <2>1, AtHas, ZenonT(30) DEF Left, SqliteLeft, PostgresLeft, RemoteLeft, QdrantLeft, ChromaLeft, MilvusLeft, Dispatched, Moves
  <2> QED
    BY <1>1, <1>5, <2>1, <2>2 DEF GoesOn, Step
<1> QED
  BY <1>4, <1>5

LEMMA CreateMoves ==
  ASSUME TypeInv, NEW c \in Callers, Create(c)
  PROVE  GoesOn(c, Tail(job[c].todo), job[c].answer)
<1>1. PICK s \in {"create", "createOrKeep"} : Step(c, s)
  BY DEF Create
<1>2. Left(job[c]) /\ job[c].todo # <<>> /\ Head(job[c].todo) = s
  BY <1>1, StepTail
<1>3. Moves(c, Tail(job[c].todo), job[c].answer)
  BY <1>1, DoneMoves DEF Create
<1>4. Left(job'[c])
  BY <1>2, <1>3, AtCreate, AtCreateOrKeep, ZenonT(30)
     DEF Left, SqliteLeft, PostgresLeft, RemoteLeft, QdrantLeft, ChromaLeft, MilvusLeft, Dispatched, Moves
<1> QED
  BY <1>1, <1>3, <1>4 DEF GoesOn, Step

\* No statement does anything else to the calls.
LEMMA StatementMoves ==
  ASSUME TypeInv, NEW c \in Callers, Statement(c)
  PROVE  (Check(c) /\ Ends(c)) \/ \E t, a : GoesOn(c, t, a)
BY CheckMoves, PutMoves, ChangeMoves, FindMoves, RemoveMoves, ClearMoves, UnindexMoves, IndexMoves,
   UnindexAllMoves, DropMoves, HasMoves, CreateMoves, EnsureMoves, LoadMoves DEF Statement

-----------------------------------------------------------------------------
(* The invariant of types.                                                 *)

LEMMA RowTypes ==
  /\ NoRows \in [Texts \ {NoText} -> {0}]
  /\ \A r : RowsFor(r) \in [Texts \ {NoText} -> {0, 1}]
  /\ RowsFor(Nothing) = NoRows
BY DEF NoRows, RowsFor

LEMMA Bound == Cardinality(Callers) \in Nat /\ Cardinality(Callers) >= 1
<1>1. Cardinality(Callers) \in Nat /\ Cardinality(Callers) # 0
  BY FS_CardinalityType, FS_EmptySet
<1> QED
  BY <1>1

LEMMA IndexingSize ==
  ASSUME NEW i
  PROVE  /\ IsFiniteSet(Indexing(i)) /\ Cardinality(Indexing(i)) \in Nat
         /\ Cardinality(Indexing(i)) <= Cardinality(Callers)
BY FS_Subset, FS_CardinalityType DEF Indexing

\* The rows and the bound after a step that adds no row.
LEMMA RowsKeep ==
  ASSUME TypeInv, words' \in [Ids -> [Texts \ {NoText} -> Nat]],
         \A i \in Ids : \/ words'[i] = NoRows
                        \/ words'[i] = words[i] /\ Indexing(i)' \subseteq Indexing(i)
  PROVE  RowsBounded' /\ words' \in [Ids -> [Texts \ {NoText} -> 0 .. Cardinality(Callers)]]
<1>1. \A i \in Ids : \A t \in Texts \ {NoText} :
        words'[i][t] + Cardinality(Indexing(i)') <= Cardinality(Callers)
  <2> SUFFICES ASSUME NEW i \in Ids, NEW t \in Texts \ {NoText}
               PROVE  words'[i][t] + Cardinality(Indexing(i)') <= Cardinality(Callers)
    OBVIOUS
  <2>1. Cardinality(Indexing(i)') \in Nat /\ Cardinality(Indexing(i)') <= Cardinality(Callers)
    BY FS_Subset, FS_CardinalityType DEF Indexing
  <2>2. CASE words'[i] = NoRows
    BY <2>1, <2>2, Bound DEF NoRows
  <2>3. CASE words'[i] = words[i] /\ Indexing(i)' \subseteq Indexing(i)
    <3>1. words[i][t] + Cardinality(Indexing(i)) <= Cardinality(Callers)
      BY DEF TypeInv, RowsBounded
    <3>2. Cardinality(Indexing(i)') <= Cardinality(Indexing(i))
      BY <2>3, IndexingSize, FS_Subset
    <3>3. words[i][t] \in Nat
      BY Bound DEF TypeInv, TypeOK
    <3> QED
      BY <2>1, <2>3, <3>1, <3>2, <3>3, IndexingSize, Bound
  <2> QED
    BY <2>2, <2>3
<1>2. ASSUME NEW i \in Ids, NEW t \in Texts \ {NoText}
      PROVE  words'[i][t] \in 0 .. Cardinality(Callers)
  <2>1. Cardinality(Indexing(i)') \in Nat
    BY FS_Subset, FS_CardinalityType DEF Indexing
  <2>2. words'[i][t] \in Nat
    OBVIOUS
  <2> QED
    BY <1>1, <2>1, <2>2, Bound
<1> QED
  BY <1>1, <1>2 DEF RowsBounded

\* The call of c goes on, or ends: no other is about to add a row.
LEMMA IndexingKeeps ==
  ASSUME TypeInv, NEW c \in Callers, \A d \in Callers \ {c} : job'[d] = job[d],
         job'[c] = NoCall \/ job'[c].todo # <<"index">>, NEW i
  PROVE  Indexing(i)' \subseteq Indexing(i) \ {c}
BY DEF Indexing, Idle

\* A call that has the same statements left, and the same to know of it, is as
\* far as it was.
LEMMA JobStaysOK ==
  ASSUME NEW d, JobOK(job[d]), backend' = backend,
         job'[d].op = job[d].op, job'[d].value = job[d].value,
         job'[d].todo = job[d].todo, job'[d].answer = job[d].answer,
         job'[d].state = "queued" => job[d].state = "queued"
  PROVE  JobOK(job[d])'
<1>1. Left(job[d])'
  <2>1. SqliteLeft(job[d]) => SqliteLeft(job[d])'
    BY DEF SqliteLeft
  <2>2. PostgresLeft(job[d]) => PostgresLeft(job[d])'
    BY DEF PostgresLeft
  <2>3. RemoteLeft(job[d]) => RemoteLeft(job[d])'
    BY DEF RemoteLeft
  <2>4. QdrantLeft(job[d]) => QdrantLeft(job[d])'
    BY DEF QdrantLeft
  <2>5. ChromaLeft(job[d]) => ChromaLeft(job[d])'
    BY DEF ChromaLeft
  <2>6. MilvusLeft(job[d]) => MilvusLeft(job[d])'
    BY DEF MilvusLeft
  <2> QED
    BY <2>1, <2>2, <2>3, <2>4, <2>5, <2>6 DEF JobOK, Left, Dispatched
<1>2. job'[d].state = "queued" =>
        job'[d].answer = "none" /\ job'[d].todo = Plan(job[d].op)' /\ job'[d].op # "open"
  <2>1. Plan(job[d].op)' = Plan(job[d].op)
    BY DEF Plan
  <2> QED
    BY <2>1 DEF JobOK
<1>3. Allowed(job[d].op, job[d].value)'
  BY DEF JobOK, Allowed
<1> QED
  BY <1>1, <1>2, <1>3 DEF JobOK

\* The step of a call keeps the types of everything but the database.
LEMMA GoesOnKeeps ==
  ASSUME TypeInv, NEW c \in Callers, NEW t, NEW a, GoesOn(c, t, a),
         UNCHANGED <<backend, home, phase, queue, calls>>
  PROVE  JobsOK' /\ PhasesOK' /\ job' \in [Callers -> Job \cup {NoCall}]
<1>1. /\ \A d \in Callers \ {c} : job'[d] = job[d]
      /\ job'[c] # NoCall /\ job[c] # NoCall /\ job'[c].op = job[c].op /\ job'[c].value = job[c].value
      /\ job'[c].state = job[c].state /\ job[c].state = "running"
  BY DEF GoesOn, Moves, Running, Idle
<1>3. JobOK(job[c])'
  BY <1>1 DEF GoesOn, JobOK, TypeInv, JobsOK, Idle, Allowed, Left, SqliteLeft, PostgresLeft, RemoteLeft,
     QdrantLeft, ChromaLeft, MilvusLeft, Dispatched
<1>4. ASSUME NEW d \in Callers \ {c}, job[d] # NoCall
      PROVE  JobOK(job[d])'
  <2>1. JobOK(job[d]) /\ job'[d] = job[d] /\ backend' = backend
    BY <1>1, <1>4 DEF TypeInv, JobsOK, Idle
  <2> QED
    BY <2>1, JobStaysOK
<1>5. JobsOK'
  BY <1>1, <1>3, <1>4 DEF JobsOK, Idle
<1>6. PhasesOK'
  BY <1>1 DEF TypeInv, PhasesOK, Idle, Running
<1> QED
  BY <1>5, <1>6 DEF GoesOn, Moves

\* The call of c ends.
LEMMA EndsKeeps ==
  ASSUME TypeInv, NEW c \in Callers, Ends(c), UNCHANGED <<backend, home>>,
         \A d \in Callers \ {c} : ~Idle(d) => phase'[home[d]] = phase[home[d]]
  PROVE  /\ JobsOK' /\ PhasesOK' /\ job' \in [Callers -> Job \cup {NoCall}]
         /\ \A i : Indexing(i)' \subseteq Indexing(i)
<1>1. job \in [Callers -> Job \cup {NoCall}]
  BY DEF TypeInv, TypeOK
<1>2. job'[c] = NoCall /\ \A d \in Callers \ {c} : job'[d] = job[d]
  BY <1>1 DEF Ends
<1>3. ASSUME NEW d \in Callers \ {c}, job[d] # NoCall
      PROVE  JobOK(job[d])'
  <2>1. JobOK(job[d]) /\ job'[d] = job[d]
    BY <1>2, <1>3 DEF TypeInv, JobsOK, Idle
  <2> QED
    BY <2>1, JobStaysOK
<1>4. JobsOK'
  BY <1>2, <1>3 DEF JobsOK, Idle
<1>5. PhasesOK'
  BY <1>2 DEF TypeInv, PhasesOK, Idle, Running
<1>6. job' \in [Callers -> Job \cup {NoCall}]
  BY <1>1 DEF Ends
<1> QED
  BY <1>2, <1>4, <1>5, <1>6, IndexingKeeps

LEMMA WordsType ==
  ASSUME TypeInv
  PROVE  words \in [Ids -> [Texts \ {NoText} -> Nat]]
<1>1. words \in [Ids -> [Texts \ {NoText} -> 0 .. Cardinality(Callers)]]
  BY DEF TypeInv, TypeOK
<1>2. \A i \in Ids : words[i] \in [Texts \ {NoText} -> Nat]
  <2> SUFFICES ASSUME NEW i \in Ids
               PROVE  words[i] \in [Texts \ {NoText} -> Nat]
    OBVIOUS
  <2>1. words[i] \in [Texts \ {NoText} -> 0 .. Cardinality(Callers)]
    BY <1>1
  <2>2. \A t \in Texts \ {NoText} : words[i][t] \in Nat
    BY <2>1, Bound
  <2> QED
    BY <2>1, <2>2
<1> QED
  BY <1>1, <1>2

\* A step that leaves the rows of words, and adds no call that adds one.
LEMMA SameRows ==
  ASSUME TypeInv, words' = words, \A i \in Ids : Indexing(i)' \subseteq Indexing(i)
  PROVE  RowsBounded' /\ words' \in [Ids -> [Texts \ {NoText} -> 0 .. Cardinality(Callers)]]
<1>1. words \in [Ids -> [Texts \ {NoText} -> Nat]]
  BY WordsType
<1> QED
  BY <1>1, RowsKeep

LEMMA GoesOnRows ==
  ASSUME TypeInv, NEW c \in Callers, NEW t, NEW a, GoesOn(c, t, a), t # <<"index">>, words' = words
  PROVE  RowsBounded' /\ words' \in [Ids -> [Texts \ {NoText} -> 0 .. Cardinality(Callers)]]
<1>1. \A i \in Ids : Indexing(i)' \subseteq Indexing(i)
  BY IndexingKeeps DEF GoesOn, Moves
<1> QED
  BY <1>1, SameRows

LEMMA NotIndex ==
  /\ <<>> # <<"index">> /\ <<"create">> # <<"index">> /\ <<"ensure">> # <<"index">> /\ <<"load">> # <<"index">>
  /\ <<"createOrKeep">> # <<"index">> /\ <<"create", "load">> # <<"index">> /\ <<"put">> # <<"index">>
  /\ <<"has", "create", "load">> # <<"index">> /\ <<"unindexAll">> # <<"index">> /\ <<"unindex">> # <<"index">>
  /\ <<"unindex", "index">> # <<"index">> /\ <<"put", "unindex", "index">> # <<"index">>
OBVIOUS

\* Statements other than those on words.
LEMMA QuietStatement ==
  ASSUME TypeInv, NEW c \in Callers,
         \/ (Check(c) /\ ~Ends(c)) \/ Put(c) \/ Change(c) \/ Find(c) \/ Remove(c) \/ Clear(c)
         \/ Drop(c) \/ Has(c) \/ Create(c) \/ Ensure(c) \/ Load(c)
  PROVE  \E t, a : GoesOn(c, t, a) /\ t # <<"index">>
<1>1. ASSUME NEW s, Step(c, s)
      PROVE  Left(job[c]) /\ job[c].todo # <<>> /\ Head(job[c].todo) = s
  BY <1>1, StepTail
<1>2. CASE Check(c) /\ ~Ends(c)
  BY <1>1, <1>2, CheckMoves, AtCheck, NotIndex DEF Check
<1>3. CASE Put(c)
  BY <1>1, <1>3, PutMoves, AtPut, NotIndex DEF Put
<1>4. CASE Change(c)
  BY <1>1, <1>4, ChangeMoves, AtChange, NotIndex DEF Change
<1>5. CASE Find(c)
  BY <1>1, <1>5, FindMoves, AtFind, NotIndex DEF Find
<1>6. CASE Remove(c)
  BY <1>1, <1>6, RemoveMoves, AtRemove, NotIndex DEF Remove
<1>7. CASE Clear(c)
  BY <1>1, <1>7, ClearMoves, AtClear, NotIndex DEF Clear
<1>8. CASE Drop(c)
  BY <1>1, <1>8, DropMoves, AtDrop, NotIndex DEF Drop
<1>9. CASE Has(c)
  BY <1>1, <1>9, HasMoves, AtHas, NotIndex, Tails, ZenonT(30) DEF Has
<1>10. CASE Create(c)
  BY <1>1, <1>10, CreateMoves, AtCreate, AtCreateOrKeep, NotIndex DEF Create
<1>11. CASE Ensure(c)
  BY <1>1, <1>11, EnsureMoves, AtEnsure, NotIndex DEF Ensure
<1>12. CASE Load(c)
  BY <1>1, <1>12, LoadMoves, AtLoad, NotIndex DEF Load
<1> QED
  BY <1>2, <1>3, <1>4, <1>5, <1>6, <1>7, <1>8, <1>9, <1>10, <1>11, <1>12

\* What no statement changes, and the types of what they change.
LEMMA StatementFrame ==
  ASSUME TypeInv, NEW c \in Callers, Statement(c)
  PROVE  /\ UNCHANGED <<backend, home, phase, queue, calls, torn>>
         /\ records' \in [Ids -> Values \cup {Nothing}]
         /\ exists' \in BOOLEAN /\ attached' \subseteq Processes
         /\ mixed' \in BOOLEAN /\ cut' \in BOOLEAN
         /\ words' # words => Unindex(c) \/ Index(c) \/ UnindexAll(c)
<1>0. /\ home[c] \in Processes /\ records \in [Ids -> Values \cup {Nothing}]
      /\ exists \in BOOLEAN /\ attached \subseteq Processes /\ mixed \in BOOLEAN /\ cut \in BOOLEAN
  BY DEF TypeInv, TypeOK
<1>1. job[c].id \in Ids /\ job[c].value \in Values
  BY JobType DEF Statement, Running
<1>2. CASE Put(c) \/ Change(c)
  <2>1. records' \in [Ids -> Values \cup {Nothing}]
    BY <1>0, <1>1, <1>2 DEF Put, Change
  <2>2. mixed' \in BOOLEAN
    BY <1>0, <1>2 DEF Put, Change
  <2> QED
    BY <1>0, <1>2, <2>1, <2>2 DEF Put, Change
<1>3. CASE Check(c) \/ Find(c) \/ Remove(c) \/ Clear(c) \/ Has(c)
  BY <1>0, <1>3 DEF Check, Find, Remove, Clear, Has, database, history
<1>4. CASE Unindex(c) \/ Index(c) \/ UnindexAll(c)
  BY <1>0, <1>4 DEF Unindex, Index, UnindexAll, history
<1>5. CASE Drop(c) \/ Create(c) \/ Ensure(c) \/ Load(c)
  BY <1>0, <1>5 DEF Drop, Create, Ensure, Load, history
<1> QED
  BY <1>2, <1>3, <1>4, <1>5 DEF Statement

LEMMA IndexRows ==
  ASSUME TypeInv, NEW c \in Callers, Index(c)
  PROVE  RowsBounded' /\ words' \in [Ids -> [Texts \ {NoText} -> 0 .. Cardinality(Callers)]]
<1> DEFINE n == Cardinality(Callers)
<1>1. GoesOn(c, <<>>, job[c].answer) /\ job[c].todo = <<"index">> /\ ~Idle(c)
  BY StepTail, IndexMoves, AtIndex, ZenonT(30) DEF Index
<1>2. job[c].id \in Ids /\ job[c].value.text \in Texts
  BY <1>1, JobType DEF Texts
<1>3. words \in [Ids -> [Texts \ {NoText} -> 0 .. n]]
  BY DEF TypeInv, TypeOK
<1>4. \A i \in Ids : Indexing(i)' \subseteq Indexing(i) \ {c}
  BY <1>1, IndexingKeeps, NotIndex DEF GoesOn, Moves
<1>5. CASE job[c].value.text = NoText
  BY <1>4, <1>5, SameRows DEF Index
<1>6. CASE job[c].value.text # NoText
  <2>1. words' = [words EXCEPT ![job[c].id][job[c].value.text] = @ + 1]
    BY <1>6 DEF Index
  <2>2. words' \in [Ids -> [Texts \ {NoText} -> Nat]]
    <3> DEFINE row == [words[job[c].id] EXCEPT ![job[c].value.text] = @ + 1]
    <3>1. words[job[c].id] \in [Texts \ {NoText} -> Nat]
      BY <1>2, WordsType
    <3>2. row \in [Texts \ {NoText} -> Nat]
      BY <1>2, <1>6, <3>1
    <3>3. words' = [words EXCEPT ![job[c].id] = row]
      BY <1>2, <2>1, WordsType
    <3> HIDE DEF row
    <3> QED
      BY <1>2, <3>2, <3>3, WordsType
  <2>3. ASSUME NEW i \in Ids, NEW t \in Texts \ {NoText}
        PROVE  words'[i][t] + Cardinality(Indexing(i)') <= n
    <3>1. words[i][t] + Cardinality(Indexing(i)) <= n /\ words[i][t] \in Nat
      BY <1>3, Bound DEF TypeInv, RowsBounded
    <3>2. Cardinality(Indexing(i)') \in Nat /\ Cardinality(Indexing(i)') <= Cardinality(Indexing(i))
      BY <1>4, IndexingSize, FS_Subset, FS_CardinalityType
    <3>3. CASE i = job[c].id
      <4>1. c \in Indexing(i)
        BY <1>1, <3>3 DEF Indexing
      <4>2. Cardinality(Indexing(i) \ {c}) = Cardinality(Indexing(i)) - 1 /\ IsFiniteSet(Indexing(i) \ {c})
        BY <4>1, IndexingSize, FS_RemoveElement
      <4>3. Cardinality(Indexing(i)') <= Cardinality(Indexing(i)) - 1
        BY <1>4, <4>2, FS_Subset
      <4>4. words'[i][t] = words[i][t] \/ words'[i][t] = words[i][t] + 1
        BY <1>2, <1>3, <2>1
      <4> QED
        BY <3>1, <3>2, <4>3, <4>4, IndexingSize, Bound
    <3>4. CASE i # job[c].id
      <4>1. words'[i][t] = words[i][t]
        BY <1>3, <2>1, <3>4
      <4> QED
        BY <3>1, <3>2, <4>1, IndexingSize, Bound
    <3> QED
      BY <3>3, <3>4
  <2>4. ASSUME NEW i \in Ids, NEW t \in Texts \ {NoText}
        PROVE  words'[i][t] \in 0 .. n
    <3>1. Cardinality(Indexing(i)') \in Nat /\ words'[i][t] \in Nat
      BY <1>4, <2>2, IndexingSize, FS_Subset, FS_CardinalityType
    <3> QED
      BY <2>3, <3>1, Bound
  <2> QED
    BY <2>2, <2>3, <2>4 DEF RowsBounded
<1> QED
  BY <1>5, <1>6

LEMMA UnindexRows ==
  ASSUME TypeInv, NEW c \in Callers, Unindex(c) \/ UnindexAll(c)
  PROVE  RowsBounded' /\ words' \in [Ids -> [Texts \ {NoText} -> 0 .. Cardinality(Callers)]]
<1>1. NoRows \in [Texts \ {NoText} -> Nat]
  BY DEF NoRows
<1>2. CASE Unindex(c)
  <2>1. \E t, a : Moves(c, t, a)
    BY <1>2, UnindexMoves DEF GoesOn
  <2>2. /\ words' = [words EXCEPT ![job[c].id] = NoRows]
        /\ words' \in [Ids -> [Texts \ {NoText} -> Nat]]
    BY <1>1, <1>2, WordsType DEF Unindex
  <2>3. \A i \in Ids : i = job[c].id => words'[i] = NoRows
    BY <2>2, WordsType
  <2>4. \A i \in Ids : i # job[c].id => words'[i] = words[i] /\ Indexing(i)' \subseteq Indexing(i)
    BY <2>1, <2>2, WordsType DEF Moves, Indexing, Idle
  <2> QED
    BY <2>2, <2>3, <2>4, RowsKeep
<1>3. CASE UnindexAll(c)
  BY <1>1, <1>3, RowsKeep DEF UnindexAll
<1> QED
  BY <1>2, <1>3

LEMMA StatementType ==
  ASSUME TypeInv, NEW c \in Callers, Statement(c)
  PROVE  TypeInv'
<1>1. JobsOK' /\ PhasesOK' /\ job' \in [Callers -> Job \cup {NoCall}]
  BY StatementFrame, StatementMoves, GoesOnKeeps, EndsKeeps
<1>2. RowsBounded' /\ words' \in [Ids -> [Texts \ {NoText} -> 0 .. Cardinality(Callers)]]
  <2>1. CASE Unindex(c) \/ UnindexAll(c)
    BY <2>1, UnindexRows
  <2>2. CASE Index(c)
    BY <2>2, IndexRows
  <2>3. CASE Check(c) /\ Ends(c)
    <3>1. UNCHANGED <<words, backend, home, phase>>
      BY <2>3 DEF Check, database
    <3> QED
      BY <2>3, <3>1, EndsKeeps, SameRows
  <2>4. CASE ~(Unindex(c) \/ UnindexAll(c) \/ Index(c) \/ (Check(c) /\ Ends(c)))
    <3>1. words' = words /\ \E t, a : GoesOn(c, t, a) /\ t # <<"index">>
      BY <2>4, StatementFrame, QuietStatement DEF Statement
    <3> QED
      BY <3>1, GoesOnRows
  <2> QED
    BY <2>1, <2>2, <2>3, <2>4
<1>3. TypeOK'
  BY <1>1, <1>2, StatementFrame DEF TypeInv, TypeOK
<1> QED
  BY <1>1, <1>2, <1>3 DEF TypeInv

LEMMA NoneIsNotIndex ==
  ASSUME NEW j, Left(j), j.answer = "none"
  PROVE  j.todo # <<"index">>
<1> SUFFICES ASSUME j.todo = <<"index">>
             PROVE  FALSE
  OBVIOUS
<1>1. j.todo # <<>> /\ Head(j.todo) = "index"
  BY Heads, NotIndex
<1> QED
  BY <1>1, AtIndex

\* A call that begins.
LEMMA BeginKeeps ==
  ASSUME TypeInv, NEW c \in Callers, Idle(c), NEW j \in Job, job' = [job EXCEPT ![c] = j],
         JobOK(j), j.answer = "none", UNCHANGED <<backend, home, words>>,
         phase'[home[c]] = IF j.op = "open" THEN "opening" ELSE "up",
         \A d \in Callers \ {c} : ~Idle(d) => phase'[home[d]] = phase[home[d]],
         \A d \in Callers \ {c} : ~Idle(d) /\ home[d] = home[c] =>
           job[d].op # "open" /\ j.op # "open" /\ j.state # "running"
  PROVE  /\ JobsOK' /\ PhasesOK' /\ job' \in [Callers -> Job \cup {NoCall}]
         /\ RowsBounded' /\ words' \in [Ids -> [Texts \ {NoText} -> 0 .. Cardinality(Callers)]]
<1>1. job \in [Callers -> Job \cup {NoCall}]
  BY DEF TypeInv, TypeOK
<1>2. job'[c] = j /\ j # NoCall /\ \A d \in Callers \ {c} : job'[d] = job[d]
  BY <1>1
<1>3. JobOK(job[c])'
  BY <1>2 DEF JobOK, Allowed, Left, SqliteLeft, PostgresLeft, RemoteLeft, QdrantLeft, ChromaLeft, MilvusLeft,
     Dispatched, Plan
<1>4. ASSUME NEW d \in Callers \ {c}, job[d] # NoCall
      PROVE  JobOK(job[d])'
  <2>1. JobOK(job[d]) /\ job'[d] = job[d]
    BY <1>2, <1>4 DEF TypeInv, JobsOK, Idle
  <2> QED
    BY <2>1, JobStaysOK
<1>5. JobsOK'
  BY <1>2, <1>3, <1>4 DEF JobsOK, Idle
<1>6. PhasesOK'
  BY <1>2 DEF TypeInv, PhasesOK, Idle, Running
<1>7. job' \in [Callers -> Job \cup {NoCall}]
  BY <1>1
<1>8. j.todo # <<"index">>
  BY NoneIsNotIndex DEF JobOK
<1>9. \A i \in Ids : Indexing(i)' \subseteq Indexing(i)
  BY <1>2, <1>8, IndexingKeeps
<1>10. RowsBounded' /\ words' \in [Ids -> [Texts \ {NoText} -> 0 .. Cardinality(Callers)]]
  BY <1>9, SameRows
<1> QED
  BY <1>5, <1>6, <1>7, <1>10

LEMMA HomeType ==
  ASSUME TypeInv, NEW c \in Callers
  PROVE  home[c] \in Processes /\ phase \in [Processes -> {"down", "opening", "up", "dead"}]
BY DEF TypeInv, TypeOK

LEMMA OpenType ==
  ASSUME TypeInv, NEW c \in Callers, Open(c)
  PROVE  TypeInv'
<1> DEFINE j == [NewJob("open", AnyId, NoValue) EXCEPT !.state = "running"]
<1>1. /\ j \in Job /\ j.op = "open" /\ j.answer = "none" /\ j.state = "running" /\ j.todo = Plan("open")
      /\ j.value = NoValue
  BY NewJobType, AnyType DEF NewJob, TypeInv, TypeOK
<1>2. JobOK(j)
  BY <1>1, PlanLeft DEF JobOK, Allowed, Ops, TypeInv, TypeOK
<1> HIDE DEF j
<1>3. /\ job' = [job EXCEPT ![c] = j] /\ Idle(c) /\ phase[home[c]] = "down"
      /\ phase' = [phase EXCEPT ![home[c]] = "opening"]
      /\ UNCHANGED <<backend, home, records, words, exists, attached, queue, calls, torn, mixed, cut>>
  BY DEF Open, j, database, history
<1>4. \A d \in Callers : ~Idle(d) => home[d] # home[c]
  BY <1>3 DEF TypeInv, PhasesOK
<1>5. /\ phase' \in [Processes -> {"down", "opening", "up", "dead"}] /\ phase'[home[c]] = "opening"
      /\ \A d \in Callers \ {c} : ~Idle(d) => phase'[home[d]] = phase[home[d]]
  BY <1>3, <1>4, HomeType
<1>6. /\ JobsOK' /\ PhasesOK' /\ job' \in [Callers -> Job \cup {NoCall}]
      /\ RowsBounded' /\ words' \in [Ids -> [Texts \ {NoText} -> 0 .. Cardinality(Callers)]]
  <2>1. phase'[home[c]] = IF j.op = "open" THEN "opening" ELSE "up"
    BY <1>1, <1>5
  <2>2. \A d \in Callers \ {c} : ~Idle(d) /\ home[d] = home[c] =>
          job[d].op # "open" /\ j.op # "open" /\ j.state # "running"
    BY <1>4
  <2>3. j \in Job /\ j.answer = "none" /\ UNCHANGED <<backend, home, words>>
    BY <1>1, <1>3
  <2> QED
    BY <1>2, <1>3, <1>5, <2>1, <2>2, <2>3, BeginKeeps
<1>7. TypeOK'
  BY <1>3, <1>5, <1>6 DEF TypeInv, TypeOK
<1> QED
  BY <1>6, <1>7 DEF TypeInv

LEMMA CallType ==
  ASSUME TypeInv, NEW c \in Callers, Call(c)
  PROVE  TypeInv'
<1>1. PICK op \in Ops, i \in Ids, v \in Values : Allowed(op, v) /\ job' = [job EXCEPT ![c] = NewJob(op, i, v)]
  BY DEF Call
<1> DEFINE j == NewJob(op, i, v)
<1>2. /\ j \in Job /\ j.op = op /\ j.answer = "none" /\ j.state = "queued" /\ j.todo = Plan(op) /\ j.value = v
      /\ op # "open"
  BY NewJobType DEF NewJob, TypeInv, TypeOK, Ops
<1>3. JobOK(j)
  BY <1>1, <1>2, PlanLeft DEF JobOK, TypeInv, TypeOK
<1> HIDE DEF j
<1>4. /\ job' = [job EXCEPT ![c] = j] /\ Idle(c) /\ phase[home[c]] = "up" /\ calls < MaxCalls /\ calls' = calls + 1
      /\ UNCHANGED <<backend, home, records, words, exists, attached, phase, torn, mixed, cut>>
  BY <1>1 DEF Call, j, database, history
<1>5. \A d \in Callers \ {c} : ~Idle(d) /\ home[d] = home[c] => job[d].op # "open"
  BY <1>4 DEF TypeInv, PhasesOK
<1>6. /\ JobsOK' /\ PhasesOK' /\ job' \in [Callers -> Job \cup {NoCall}]
      /\ RowsBounded' /\ words' \in [Ids -> [Texts \ {NoText} -> 0 .. Cardinality(Callers)]]
  <2>1. UNCHANGED <<backend, home, words>> /\ phase' = phase
    BY <1>4 DEF database
  <2>2. phase'[home[c]] = IF j.op = "open" THEN "opening" ELSE "up"
    BY <1>2, <1>4, <2>1
  <2>3. \A d \in Callers \ {c} : ~Idle(d) => phase'[home[d]] = phase[home[d]]
    BY <2>1
  <2>4. \A d \in Callers \ {c} : ~Idle(d) /\ home[d] = home[c] =>
          job[d].op # "open" /\ j.op # "open" /\ j.state # "running"
    BY <1>2, <1>5
  <2>5. Idle(c) /\ j \in Job /\ job' = [job EXCEPT ![c] = j] /\ JobOK(j) /\ j.answer = "none"
    BY <1>2, <1>3, <1>4
  <2> QED
    BY <2>1, <2>2, <2>3, <2>4, <2>5, BeginKeeps
<1>7. queue' \in [Processes -> Seq(Callers)]
  <2>1. queue \in [Processes -> Seq(Callers)] /\ home[c] \in Processes
    BY DEF TypeInv, TypeOK
  <2>2. Append(queue[home[c]], c) \in Seq(Callers)
    BY <2>1, AppendProperties
  <2> QED
    BY <2>1, <2>2 DEF Call
<1>8. calls' \in 0 .. MaxCalls
  BY <1>4 DEF TypeInv, TypeOK
<1>9. TypeOK'
  BY <1>4, <1>6, <1>7, <1>8 DEF TypeInv, TypeOK
<1> QED
  BY <1>6, <1>9 DEF TypeInv

\* What Run changes of the calls: that of c runs now, and those it overlaps
\* are not alone.
LEMMA RunJobs ==
  ASSUME TypeInv, NEW c \in Callers, Run(c)
  PROVE  /\ job' \in [Callers -> Job \cup {NoCall}]
         /\ \A d \in Callers : job'[d] = NoCall <=> job[d] = NoCall
         /\ \A d \in Callers : job[d] # NoCall =>
              /\ job'[d].op = job[d].op /\ job'[d].id = job[d].id /\ job'[d].value = job[d].value
              /\ job'[d].todo = job[d].todo /\ job'[d].answer = job[d].answer
              /\ d # c => job'[d].state = job[d].state
              /\ d \in Others(c) => ~job'[d].alone
              /\ d # c /\ d \notin Others(c) => job'[d].alone = job[d].alone
         /\ job[c] # NoCall /\ job'[c].state = "running" /\ job'[c].alone = (Others(c) = {})
<1>1. job \in [Callers -> Job \cup {NoCall}] /\ job[c] # NoCall
  BY DEF Run, Idle, TypeInv, TypeOK
<1> DEFINE mine == [job[c] EXCEPT !.state = "running", !.alone = Others(c) = {}]
           other(d) == [job[d] EXCEPT !.alone = FALSE]
<1>2. \A d \in Callers : job'[d] = IF d = c THEN mine ELSE IF d \in Others(c) THEN other(d) ELSE job[d]
  BY DEF Run
<1>3. job' = [d \in Callers |-> IF d = c THEN mine ELSE IF d \in Others(c) THEN other(d) ELSE job[d]]
  BY DEF Run
<1>4. (Others(c) = {}) \in BOOLEAN
  OBVIOUS
<1>5. /\ mine \in Job /\ mine.op = job[c].op /\ mine.id = job[c].id /\ mine.value = job[c].value
      /\ mine.todo = job[c].todo /\ mine.answer = job[c].answer /\ mine.state = "running"
  BY <1>1, <1>4, ZenonT(30) DEF Job
<1>6. mine.alone = (Others(c) = {})
  BY <1>1 DEF Job
<1>7. \A d \in Others(c) : job[d] \in Job /\ d # c
  BY <1>1 DEF Others, Running, Idle
<1>8. \A d \in Others(c) :
        /\ other(d) \in Job /\ other(d).op = job[d].op /\ other(d).id = job[d].id
        /\ other(d).value = job[d].value /\ other(d).todo = job[d].todo
        /\ other(d).answer = job[d].answer /\ other(d).state = job[d].state /\ other(d).alone = FALSE
  BY <1>7, ZenonT(30) DEF Job
<1>9. job' \in [Callers -> Job \cup {NoCall}]
  BY <1>1, <1>3, <1>5, <1>8
<1>10. job'[c] = mine
  BY <1>2
<1>11. \A d \in Others(c) : d \in Callers /\ job'[d] = other(d)
  BY <1>2, <1>7 DEF Others
<1>12. \A d \in Callers \ {c} : d \notin Others(c) => job'[d] = job[d]
  BY <1>2
<1> HIDE DEF mine, other
<1>13. ASSUME NEW d \in Callers, job[d] # NoCall
       PROVE  /\ job'[d] # NoCall
              /\ job'[d].op = job[d].op /\ job'[d].id = job[d].id /\ job'[d].value = job[d].value
              /\ job'[d].todo = job[d].todo /\ job'[d].answer = job[d].answer
              /\ d # c => job'[d].state = job[d].state
              /\ d \in Others(c) => ~job'[d].alone
              /\ d # c /\ d \notin Others(c) => job'[d].alone = job[d].alone
  <2>1. CASE d = c
    BY <1>5, <1>7, <1>10, <2>1
  <2>2. CASE d \in Others(c)
    BY <1>7, <1>8, <1>11, <2>2
  <2>3. CASE d # c /\ d \notin Others(c)
    BY <1>12, <1>13, <2>3
  <2> QED
    BY <2>1, <2>2, <2>3
<1>14. ASSUME NEW d \in Callers, job[d] = NoCall
       PROVE  job'[d] = NoCall
  <2>1. d # c /\ d \notin Others(c)
    BY <1>1, <1>14 DEF Others, Running, Idle
  <2> QED
    BY <1>12, <1>14, <2>1
<1> QED
  BY <1>1, <1>5, <1>6, <1>9, <1>10, <1>13, <1>14

LEMMA RunType ==
  ASSUME TypeInv, NEW c \in Callers, Run(c)
  PROVE  TypeInv'
<1>1. /\ UNCHANGED <<backend, home, records, words, exists, attached, phase, calls, mixed, cut>>
      /\ job[c].state = "queued" /\ job[c] # NoCall /\ CanRun(c)
  BY DEF Run, Idle, database
<1>2. ASSUME NEW d \in Callers, job'[d] # NoCall
      PROVE  JobOK(job[d])'
  <2>1. JobOK(job[d]) /\ job[d] # NoCall
    BY <1>2, RunJobs DEF TypeInv, JobsOK, Idle
  <2>2. job'[d].state = "queued" => job[d].state = "queued"
    BY <2>1, RunJobs
  <2> QED
    BY <1>1, <2>1, <2>2, RunJobs, JobStaysOK
<1>3. JobsOK'
  BY <1>2 DEF JobsOK, Idle
<1>4. PhasesOK'
  <2>1. job[c].op # "open"
    BY <1>1 DEF TypeInv, JobsOK, JobOK, Idle
  <2>2. \A d \in Callers : home[d] = home[c] /\ Running(d) => backend = "postgres"
    BY <1>1 DEF CanRun
  <2> QED
    BY <1>1, <2>1, <2>2, RunJobs DEF TypeInv, PhasesOK, Idle, Running
<1>5. \A i : Indexing(i)' \subseteq Indexing(i)
  BY RunJobs DEF Indexing, Idle
<1>6. RowsBounded' /\ words' \in [Ids -> [Texts \ {NoText} -> 0 .. Cardinality(Callers)]]
  BY <1>1, <1>5, SameRows
<1>7. queue' \in [Processes -> Seq(Callers)]
  <2>1. queue \in [Processes -> Seq(Callers)] /\ home[c] \in Processes
    BY DEF TypeInv, TypeOK
  <2>2. Dispatched => Tail(queue[home[c]]) \in Seq(Callers)
    BY <1>1, <2>1, HeadTailProperties DEF CanRun
  <2> QED
    BY <2>1, <2>2 DEF Run
<1>8. torn' \subseteq Ids
  <2>1. torn \subseteq Ids /\ Touched(c) \subseteq Ids
    BY <1>1 DEF Touched, TypeInv, TypeOK, Job
  <2> QED
    BY <2>1 DEF Run
<1>9. TypeOK'
  BY <1>1, <1>6, <1>7, <1>8, RunJobs DEF TypeInv, TypeOK
<1> QED
  BY <1>3, <1>4, <1>6, <1>9 DEF TypeInv

LEMMA TouchedType ==
  ASSUME TypeInv, NEW c \in Callers, ~Idle(c)
  PROVE  Touched(c) \subseteq Ids
BY JobType DEF Touched

LEMMA EndingType ==
  ASSUME TypeInv, NEW c \in Callers, Return(c) \/ Fail(c)
  PROVE  TypeInv'
<1>1. /\ UNCHANGED <<backend, home, records, words, exists, queue, calls, mixed>>
      /\ Ends(c) /\ ~Idle(c)
  BY DEF Return, Fail, Running, database
<1>2. phase' = phase \/ (job[c].op = "open" /\ \E l \in {"up", "down"} : phase' = [phase EXCEPT ![home[c]] = l])
  BY DEF Return, Fail
<1>3. \A d \in Callers \ {c} : ~Idle(d) => phase'[home[d]] = phase[home[d]]
  BY <1>1, <1>2, HomeType DEF TypeInv, PhasesOK
<1>4. phase' \in [Processes -> {"down", "opening", "up", "dead"}]
  BY <1>2, HomeType
<1>5. /\ JobsOK' /\ PhasesOK' /\ job' \in [Callers -> Job \cup {NoCall}]
      /\ \A i : Indexing(i)' \subseteq Indexing(i)
  BY <1>1, <1>3, EndsKeeps
<1>6. RowsBounded' /\ words' \in [Ids -> [Texts \ {NoText} -> 0 .. Cardinality(Callers)]]
  BY <1>1, <1>5, SameRows
<1>7. torn \subseteq Ids /\ attached \subseteq Processes /\ cut \in BOOLEAN
  BY DEF TypeInv, TypeOK
<1>8. attached' \subseteq Processes /\ torn' \subseteq Ids
  BY <1>1, <1>7, TouchedType DEF Return, Fail, Broken, database
<1>9. cut' \in BOOLEAN
  BY <1>7 DEF Return, Fail, Broken
<1>10. TypeOK'
  BY <1>1, <1>4, <1>5, <1>6, <1>8, <1>9 DEF TypeInv, TypeOK
<1> QED
  BY <1>5, <1>6, <1>10 DEF TypeInv

LEMMA StopType ==
  ASSUME TypeInv, NEW p \in Processes, Crash(p) \/ DispatcherEnds(p)
  PROVE  TypeInv'
<1>1. /\ UNCHANGED <<backend, home, records, words, exists, calls, mixed>>
      /\ queue' = [queue EXCEPT ![p] = <<>>]
      /\ job' = [c \in Callers |-> IF home[c] = p THEN NoCall ELSE job[c]]
  BY DEF Crash, DispatcherEnds, database
<1>2. \E l \in {"down", "dead"} : phase' = [phase EXCEPT ![p] = l]
  BY DEF Crash, DispatcherEnds
<1>3. phase' \in [Processes -> {"down", "opening", "up", "dead"}]
  BY <1>2 DEF TypeInv, TypeOK
<1>4. \A c \in Callers : job'[c] # NoCall => job'[c] = job[c] /\ job[c] # NoCall /\ phase'[home[c]] = phase[home[c]]
  BY <1>1, <1>2, HomeType
<1>5. ASSUME NEW c \in Callers, job'[c] # NoCall
      PROVE  JobOK(job[c])'
  <2>1. JobOK(job[c])
    BY <1>4, <1>5 DEF TypeInv, JobsOK, Idle
  <2> QED
    BY <1>1, <1>4, <1>5, <2>1, JobStaysOK
<1>6. JobsOK'
  BY <1>5 DEF JobsOK, Idle
<1>7. PhasesOK'
  BY <1>1, <1>4 DEF TypeInv, PhasesOK, Idle, Running
<1>8. job' \in [Callers -> Job \cup {NoCall}]
  BY <1>1 DEF TypeInv, TypeOK
<1>9. \A i : Indexing(i)' \subseteq Indexing(i)
  BY <1>4 DEF Indexing, Idle
<1>10. RowsBounded' /\ words' \in [Ids -> [Texts \ {NoText} -> 0 .. Cardinality(Callers)]]
  BY <1>1, <1>9, SameRows
<1>11. queue' \in [Processes -> Seq(Callers)]
  BY <1>1, EmptySeq DEF TypeInv, TypeOK
<1>12. torn \subseteq Ids /\ attached \subseteq Processes /\ cut \in BOOLEAN
  BY DEF TypeInv, TypeOK
<1>13. attached' \subseteq Processes /\ torn' \subseteq Ids
  BY <1>12, TouchedType DEF Crash, DispatcherEnds, Broken, Running, database
<1>14. cut' \in BOOLEAN
  BY <1>12 DEF Crash, DispatcherEnds, Broken
<1>15. TypeOK'
  BY <1>1, <1>3, <1>8, <1>10, <1>11, <1>13, <1>14 DEF TypeInv, TypeOK
<1> QED
  BY <1>6, <1>7, <1>10, <1>15 DEF TypeInv

LEMMA InitType == Init => TypeInv
<1> SUFFICES ASSUME Init
             PROVE  TypeInv
  OBVIOUS
<1>1. \A c \in Callers : job[c] = NoCall
  BY DEF Init
<1>2. words \in [Ids -> [Texts \ {NoText} -> {0, 1}]]
  BY RowTypes DEF Init
<1>3. words \in [Ids -> [Texts \ {NoText} -> 0 .. Cardinality(Callers)]]
  <2>1. {0, 1} \subseteq 0 .. Cardinality(Callers)
    BY Bound
  <2>2. ASSUME NEW i \in Ids
        PROVE  words[i] \in [Texts \ {NoText} -> 0 .. Cardinality(Callers)]
    <3>1. words[i] \in [Texts \ {NoText} -> {0, 1}]
      BY <1>2
    <3>2. \A t \in Texts \ {NoText} : words[i][t] \in 0 .. Cardinality(Callers)
      BY <2>1, <3>1
    <3> QED
      BY <3>1, <3>2
  <2> QED
    BY <1>2, <2>2
<1>4. TypeOK
  <2>1. home \in [Callers -> Processes] /\ backend \in Backends
    BY DEF Init, Processes
  <2>2. records \in [Ids -> Values \cup {Nothing}]
    BY DEF Init
  <2>3. queue \in [Processes -> Seq(Callers)]
    BY EmptySeq DEF Init
  <2>4. job \in [Callers -> Job \cup {NoCall}] /\ phase \in [Processes -> {"down", "opening", "up", "dead"}]
    BY DEF Init
  <2>5. exists \in BOOLEAN /\ mixed \in BOOLEAN /\ cut \in BOOLEAN
    BY DEF Init
  <2>6. attached \subseteq Processes /\ calls \in 0 .. MaxCalls /\ torn \subseteq Ids
    BY DEF Init
  <2> QED
    BY <1>3, <2>1, <2>2, <2>3, <2>4, <2>5, <2>6 DEF TypeOK
<1>5. JobsOK /\ PhasesOK
  BY <1>1 DEF JobsOK, PhasesOK, Idle, Running
<1>6. RowsBounded
  <2>1. \A i \in Ids : Indexing(i) = {}
    BY <1>1 DEF Indexing, Idle
  <2>2. \A i \in Ids : \A t \in Texts \ {NoText} : words[i][t] \in {0, 1}
    BY <1>2
  <2> QED
    BY <2>1, <2>2, Bound, FS_EmptySet DEF RowsBounded
<1> QED
  BY <1>4, <1>5, <1>6 DEF TypeInv

LEMMA NextType ==
  ASSUME TypeInv, [Next]_vars
  PROVE  TypeInv'
<1>1. CASE UNCHANGED vars
  <2>1. TypeOK'
    BY <1>1 DEF vars, TypeInv, TypeOK
  <2>2. JobsOK'
    <3>1. job' = job /\ backend' = backend
      BY <1>1 DEF vars
    <3>2. ASSUME NEW c \in Callers, job'[c] # NoCall PROVE JobOK(job[c])'
      BY <3>1, <3>2, JobStaysOK DEF TypeInv, JobsOK, Idle
    <3> QED
      BY <3>2 DEF JobsOK, Idle
  <2>3. PhasesOK' /\ RowsBounded'
    BY <1>1 DEF vars, TypeInv, PhasesOK, RowsBounded, Indexing, Idle, Running
  <2> QED
    BY <2>1, <2>2, <2>3 DEF TypeInv
<1> QED
  BY <1>1, StopType, OpenType, CallType, RunType, StatementType, EndingType DEF Next, Work

\* Every variable keeps its type, and the calls of all callers together leave
\* at most one row of words each (sync_fts of the sqlite store).
THEOREM TypeCorrect == Spec => []TypeOK
<1>1. TypeInv => TypeOK
  BY DEF TypeInv
<1> QED
  BY <1>1, InitType, NextType, PTL DEF Spec

-----------------------------------------------------------------------------
(* One dimension.                                                          *)

\* sqlite has checked the dimension of the record that it inserts next.
Checked(c) == ~Idle(c) /\ job[c].todo = <<"put", "unindex", "index">>

\* What the check has found still holds, if nobody else can change it.
CheckStays ==
  \A c \in Callers : Checked(c) =>
    \/ mixed
    \/ \E d \in Callers : home[d] # home[c]
    \/ \A i \in Live : records[i].dimension = job[c].value.dimension

\* Other stores hold no record of another length than they were opened with.
DimensionInv ==
  /\ backend # "sqlite" => \A i \in Live : records[i].dimension = Fixed
  /\ CheckStays
  /\ OneDimension

LEMMA NotChecked ==
  LET t == <<"put", "unindex", "index">> IN
  /\ <<>> # t /\ <<"create">> # t /\ <<"ensure">> # t /\ <<"load">> # t
  /\ <<"createOrKeep">> # t /\ <<"create", "load">> # t /\ <<"put">> # t
  /\ <<"has", "create", "load">> # t /\ <<"unindexAll">> # t /\ <<"unindex">> # t
  /\ <<"unindex", "index">> # t /\ <<"index">> # t
OBVIOUS

LEMMA LeftChecked ==
  ASSUME NEW j, Left(j), j.todo = <<"put", "unindex", "index">>
  PROVE  backend = "sqlite" /\ j.op = "insert" /\ j.answer = "none"
<1>1. j.todo # <<>> /\ Head(j.todo) = "put"
  BY Heads, NotChecked
<1>2. j.todo # <<"put">>
  BY NotChecked
<1> QED
  BY <1>1, <1>2, AtPut

\* No call begins after the check.
LEMMA PlanUnchecked ==
  ASSUME backend \in Backends, NEW op \in Ops \cup {"open"}
  PROVE  Plan(op) # <<"put", "unindex", "index">>
<1> DEFINE j == NewJob(op, AnyId, NoValue)
<1>1. j.op = op /\ j.answer = "none" /\ j.todo = Plan(op)
  BY DEF NewJob
<1> HIDE DEF j
<1> SUFFICES ASSUME Plan(op) = <<"put", "unindex", "index">>
             PROVE  FALSE
  OBVIOUS
<1>2. backend = "sqlite" /\ op = "insert"
  BY <1>1, PlanLeft, LeftChecked
<1>3. Plan(op) = <<"check", "put", "unindex", "index">>
  BY <1>2 DEF Plan, SqliteInsert
<1> QED
  BY <1>3, Heads

LEMMA CheckedRuns ==
  ASSUME TypeInv, NEW c \in Callers, Checked(c)
  PROVE  backend = "sqlite" /\ Running(c)
<1>1. JobOK(job[c]) /\ job[c] \in Job /\ ~Idle(c)
  BY JobType DEF Checked
<1>2. backend = "sqlite"
  BY <1>1, LeftChecked DEF Checked, JobOK
<1>3. Plan(job[c].op) # job[c].todo
  BY <1>1, JobType, PlanUnchecked DEF Checked, TypeInv, TypeOK
<1> QED
  BY <1>1, <1>2, <1>3 DEF JobOK, Running, Job

\* A step that adds no record and checks none.
LEMMA DimensionKeeps ==
  ASSUME DimensionInv, UNCHANGED <<backend, home>>, mixed => mixed',
         \A i \in Ids : records'[i] \in {Nothing, records[i]},
         \A c \in Callers : Checked(c)' => Checked(c) /\ job'[c].value = job[c].value
  PROVE  DimensionInv'
<1>1. Live' \subseteq Live /\ \A i \in Live' : records'[i] = records[i]
  BY DEF Live
<1>2. OneDimension'
  BY <1>1 DEF OneDimension, DimensionInv
<1>3. CheckStays'
  BY <1>1 DEF CheckStays, DimensionInv
<1> QED
  BY <1>1, <1>2, <1>3 DEF DimensionInv

\* Only the check leads to the state after it.
LEMMA ChecksOnly ==
  ASSUME TypeInv, NEW c \in Callers, Statement(c), ~Check(c) \/ Ends(c)
  PROVE  \A d \in Callers : Checked(d)' => d # c /\ job'[d] = job[d]
<1>1. CASE Ends(c)
  BY <1>1 DEF Ends, Checked, Idle, TypeInv, TypeOK
<1>2. CASE ~Ends(c) /\ ~Check(c)
  <2>1. PICK t, a : GoesOn(c, t, a)
    BY <1>2, StatementMoves
  <2>2. ASSUME NEW s, Step(c, s)
        PROVE  Left(job[c]) /\ job[c].todo # <<>> /\ Head(job[c].todo) = s
    BY <2>2, StepTail
  <2>3. ASSUME job'[c].todo = <<"put", "unindex", "index">>
        PROVE  FALSE
    <3>1. backend = "sqlite" /\ job[c].op = "insert" /\ job'[c].answer = "none"
      BY <2>1, <2>3, LeftChecked DEF GoesOn, Moves
    <3>2. ~Put(c)
      BY <3>1, PutMoves DEF GoesOn, Moves
    <3>3. ~Unindex(c) /\ ~Index(c)
      <4>1. Unindex(c) => job[c].todo # <<>> /\ Head(job[c].todo) = "unindex" /\ Left(job[c])
        BY <2>2 DEF Unindex
      <4>2. Index(c) => job[c].todo # <<>> /\ Head(job[c].todo) = "index" /\ Left(job[c])
        BY <2>2 DEF Index
      <4>3. ~Unindex(c)
        BY <3>1, <4>1, UnindexMoves, AtUnindex, SMTT(30) DEF GoesOn, Moves
      <4>4. ~Index(c)
        BY <3>1, <4>2, IndexMoves, AtIndex, SMTT(30) DEF GoesOn, Moves
      <4> QED
        BY <4>3, <4>4
    <3>4. /\ ~Change(c) /\ ~Find(c) /\ ~Remove(c) /\ ~Clear(c) /\ ~UnindexAll(c)
          /\ ~Drop(c) /\ ~Has(c) /\ ~Create(c) /\ ~Ensure(c) /\ ~Load(c)
      BY <2>2, <3>1, AtChange, AtFind, AtRemove, AtClear, AtUnindexAll, AtDrop, AtHas, AtCreate, AtCreateOrKeep,
         AtEnsure, AtLoad DEF Change, Find, Remove, Clear, UnindexAll, Drop, Has, Create, Ensure, Load
    <3> QED
      BY <1>2, <3>2, <3>3, <3>4 DEF Statement
  <2> QED
    BY <2>1, <2>3 DEF Checked, Idle, GoesOn, Moves
<1> QED
  BY <1>1, <1>2

\* A step that writes the record of c's call.
LEMMA WriteDimension ==
  ASSUME TypeInv, DimensionInv, NEW c \in Callers, Put(c) \/ (Change(c) /\ job[c].id \in Live)
  PROVE  DimensionInv'
<1>1. /\ records' = [records EXCEPT ![job[c].id] = job[c].value] /\ UNCHANGED <<backend, home>>
      /\ mixed => mixed'
      /\ records \in [Ids -> Values \cup {Nothing}] /\ job[c].id \in Ids /\ job[c].value \in Values
      /\ Running(c) /\ ~Idle(c)
  BY StepTail, JobType DEF Put, Change, Step, TypeInv, TypeOK
<1>2. Statement(c)
  BY <1>1 DEF Statement
<1>3. /\ Put(c) \/ Change(c) => JobOK(job[c]) /\ job[c].op \in {"insert", "update"} /\ ~Check(c)
      /\ (Put(c) /\ backend = "sqlite") => Checked(c)
  <2>1. ASSUME Put(c)
        PROVE  /\ JobOK(job[c]) /\ job[c].op \in {"insert", "update"} /\ ~Check(c)
               /\ backend = "sqlite" => Checked(c)
    <3>1. Step(c, "put") /\ JobOK(job[c]) /\ Left(job[c]) /\ job[c].todo # <<>> /\ Head(job[c].todo) = "put"
      BY <2>1, StepTail DEF Put
    <3>2. ~Check(c)
      BY <3>1 DEF Check, Step
    <3> QED
      BY <1>1, <3>1, <3>2, AtPut DEF Checked, Dispatched
  <2>2. ASSUME Change(c)
        PROVE  JobOK(job[c]) /\ job[c].op \in {"insert", "update"} /\ ~Check(c)
    <3>1. Step(c, "change") /\ JobOK(job[c]) /\ Left(job[c]) /\ job[c].todo # <<>> /\ Head(job[c].todo) = "change"
      BY <2>2, StepTail DEF Change
    <3>2. ~Check(c)
      BY <3>1 DEF Check, Step
    <3> QED
      BY <3>1, <3>2, AtChange
  <2> QED
    BY <2>1, <2>2
<1>4. JobOK(job[c]) /\ job[c].op \in {"insert", "update"} /\ ~Check(c)
  BY <1>3
<1>5. Live' \subseteq Live \cup {job[c].id} /\ \A i \in Live' : i # job[c].id => records'[i] = records[i]
  BY <1>1 DEF Live
<1>6. records'[job[c].id] = job[c].value
  BY <1>1
<1>7. CASE backend # "sqlite"
  <2>1. job[c].value.dimension = Fixed
    BY <1>4, <1>7 DEF JobOK, Allowed
  <2>2. \A i \in Live' : records'[i].dimension = Fixed
    BY <1>5, <1>6, <1>7, <2>1 DEF DimensionInv
  <2>3. OneDimension'
    BY <2>2 DEF OneDimension
  <2>4. \A d \in Callers : ~Checked(d)'
    BY <1>2, <1>4, <1>7, ChecksOnly, CheckedRuns DEF Checked, Idle
  <2> QED
    BY <1>1, <1>7, <2>2, <2>3, <2>4 DEF DimensionInv, CheckStays
<1>8. CASE backend = "sqlite" /\ mixed'
  BY <1>1, <1>8 DEF DimensionInv, CheckStays, OneDimension
<1>9. CASE backend = "sqlite" /\ ~mixed'
  <2>1. \A i \in Live \ {job[c].id} : records[i].dimension = job[c].value.dimension
    <3>1. CASE Change(c) /\ job[c].id \in Live
      <4>1. mixed' = (mixed \/ MixedBy(c))
        BY <3>1 DEF Change
      <4>2. ~MixedBy(c)
        BY <1>9, <4>1
      <4> QED
        BY <4>2 DEF MixedBy
    <3>2. CASE Put(c) /\ \E d \in Callers : home[d] # home[c]
      <4>1. mixed' = (mixed \/ (MixedBy(c) /\ \E d \in Callers : home[d] # home[c]))
        BY <3>2 DEF Put
      <4>2. ~MixedBy(c)
        BY <1>9, <3>2, <4>1
      <4> QED
        BY <4>2 DEF MixedBy
    <3>3. CASE Put(c) /\ ~\E d \in Callers : home[d] # home[c]
      <4>1. Checked(c)
        BY <1>9, <1>3, <3>3 DEF Put
      <4> QED
        BY <1>1, <1>9, <3>3, <4>1 DEF DimensionInv, CheckStays
    <3> QED
      BY <3>1, <3>2, <3>3
  <2>2. \A i \in Live' : records'[i].dimension = job[c].value.dimension
    BY <1>5, <1>6, <2>1
  <2>3. OneDimension'
    BY <2>2 DEF OneDimension
  <2>4. ASSUME NEW d \in Callers, Checked(d)'
        PROVE  \E e \in Callers : home'[e] # home'[d]
    <3>1. d # c /\ job'[d] = job[d]
      BY <1>2, <1>4, <2>4, ChecksOnly
    <3>2. Checked(d)
      BY <2>4, <3>1 DEF Checked, Idle
    <3>3. Running(d)
      BY <3>2, CheckedRuns
    <3>4. home[d] # home[c]
      BY <1>1, <1>9, <3>1, <3>3 DEF TypeInv, PhasesOK, Running
    <3> QED
      BY <1>1, <3>4
  <2> QED
    BY <1>1, <1>9, <2>3, <2>4 DEF DimensionInv, CheckStays
<1> QED
  BY <1>7, <1>8, <1>9

LEMMA CheckDimension ==
  ASSUME TypeInv, DimensionInv, NEW c \in Callers, Check(c), ~Ends(c)
  PROVE  DimensionInv'
<1>1. /\ UNCHANGED <<backend, home, records, mixed>> /\ Live' = Live
      /\ \A d \in Callers \ {c} : job'[d] = job[d]
      /\ job'[c].value = job[c].value
  BY CheckMoves DEF Check, database, history, GoesOn, Moves, Live
<1>2. Live = {} \/ \E i \in Live : records[i].dimension = job[c].value.dimension
  BY DEF Check
<1>3. mixed \/ \A i \in Live : records[i].dimension = job[c].value.dimension
  BY <1>2 DEF DimensionInv, OneDimension
<1>4. CheckStays'
  BY <1>1, <1>3 DEF CheckStays, DimensionInv, Checked, Idle
<1> QED
  BY <1>1, <1>4 DEF DimensionInv, OneDimension

LEMMA NextDimension ==
  ASSUME TypeInv, DimensionInv, [Next]_vars
  PROVE  DimensionInv'
<1>1. CASE UNCHANGED vars
  BY <1>1, DimensionKeeps DEF vars, Checked, Idle
<1>2. ASSUME NEW p \in Processes, Crash(p) \/ DispatcherEnds(p)
      PROVE  DimensionInv'
  BY <1>2, DimensionKeeps DEF Crash, DispatcherEnds, database, Checked, Idle
<1>3. ASSUME NEW c \in Callers, Open(c) \/ Call(c)
      PROVE  DimensionInv'
  <2>1. \A d \in Callers \ {c} : job'[d] = job[d]
    BY <1>3 DEF Open, Call, TypeInv, TypeOK
  <2>2. \E op \in Ops \cup {"open"} : job'[c].todo = Plan(op)
    BY <1>3 DEF Open, Call, TypeInv, TypeOK, NewJob
  <2>3. ~Checked(c)'
    BY <2>2, PlanUnchecked DEF Checked, TypeInv, TypeOK
  <2>4. UNCHANGED <<backend, home, records, mixed>>
    BY <1>3 DEF Open, Call, database, history
  <2> QED
    BY <2>1, <2>3, <2>4, DimensionKeeps DEF Checked, Idle
<1>4. ASSUME NEW c \in Callers, Run(c)
      PROVE  DimensionInv'
  BY <1>4, RunJobs, DimensionKeeps DEF Run, database, Checked, Idle
<1>5. ASSUME NEW c \in Callers, Return(c) \/ Fail(c)
      PROVE  DimensionInv'
  <2>1. Ends(c) /\ UNCHANGED <<backend, home, records, mixed>>
    BY <1>5 DEF Return, Fail, database
  <2>2. job'[c] = NoCall /\ \A d \in Callers \ {c} : job'[d] = job[d]
    BY <2>1 DEF Ends, TypeInv, TypeOK
  <2> QED
    BY <2>1, <2>2, DimensionKeeps DEF Checked, Idle
<1>6. ASSUME NEW c \in Callers, Statement(c)
      PROVE  DimensionInv'
  <2>1. CASE Put(c) \/ (Change(c) /\ job[c].id \in Live)
    BY <2>1, WriteDimension
  <2>2. CASE Check(c) /\ ~Ends(c)
    BY <2>2, CheckDimension
  <2>3. CASE ~(Put(c) \/ (Change(c) /\ job[c].id \in Live) \/ (Check(c) /\ ~Ends(c)))
    <3>1. /\ UNCHANGED <<backend, home, mixed>>
          /\ \A i \in Ids : records'[i] \in {Nothing, records[i]}
      BY <1>6, <2>3 DEF TypeInv, TypeOK, Statement, Check, Change, Find, Remove, Clear, Unindex, Index, UnindexAll, Drop,
         Has, Create, Ensure, Load, database, history
    <3>2. \A d \in Callers : Checked(d)' => d # c /\ job'[d] = job[d]
      BY <1>6, <2>3, ChecksOnly
    <3> QED
      BY <3>1, <3>2, DimensionKeeps DEF Checked, Idle
  <2> QED
    BY <2>1, <2>2, <2>3
<1> QED
  BY <1>1, <1>2, <1>3, <1>4, <1>5, <1>6 DEF Next, Work

LEMMA InitDimension == Init => DimensionInv
<1> SUFFICES ASSUME Init
             PROVE  DimensionInv
  OBVIOUS
<1>1. \A i \in Live : records[i].dimension = Fixed
  BY DEF Init, Live
<1> QED
  BY <1>1 DEF Init, DimensionInv, CheckStays, OneDimension, Checked, Idle

\* All records of a store have vectors of one length, unless an update of
\* sqlite has changed it or an insert came between the check and the insert of
\* another process (ensure_dimension of the sqlite store is not one statement
\* with what follows; the other stores check before they send anything).
THEOREM DimensionsAgree == Spec => []OneDimension
<1>1. TypeInv /\ DimensionInv => OneDimension
  BY DEF DimensionInv
<1>2. Init => TypeInv /\ DimensionInv
  BY InitType, InitDimension
<1>3. TypeInv /\ DimensionInv /\ [Next]_vars => (TypeInv /\ DimensionInv)'
  BY NextType, NextDimension
<1> QED
  BY <1>1, <1>2, <1>3, PTL DEF Spec

-----------------------------------------------------------------------------
(* The collection.                                                         *)

\* A reset has dropped the collection and has not made it again.
Resetting(c) ==
  Dispatched /\ Running(c) /\ job[c].op = "reset" /\ job[c].answer = "ok" /\ job[c].todo # <<>>

\* Nobody has made the collection yet.
Fresh ==
  /\ \A p \in Processes : phase[p] \in {"down", "opening"}
  /\ \A c \in Callers : Idle(c) \/ job[c].todo \notin {<<>>, <<"load">>}

ExistsInv == exists \/ cut \/ (\E c \in Callers : Resetting(c)) \/ Fresh

LEMMA FreshOpens ==
  ASSUME TypeInv, Fresh, NEW c \in Callers, ~Idle(c)
  PROVE  /\ job[c].op = "open" /\ Running(c) /\ phase[home[c]] = "opening"
         /\ job[c].answer = "none" /\ job[c].todo \notin {<<>>, <<"load">>}
<1>1. job[c] \in Job /\ JobOK(job[c]) /\ home[c] \in Processes
  BY JobType DEF TypeInv, TypeOK
<1>2. job[c].op = "open" /\ phase[home[c]] = "opening"
  BY <1>1 DEF Fresh, TypeInv, PhasesOK
<1>3. Running(c)
  BY <1>1, <1>2 DEF JobOK, Running, Job
<1>4. job[c].answer = "none"
  BY <1>1, <1>2 DEF JobOK, Left, SqliteLeft, PostgresLeft, RemoteLeft, QdrantLeft, ChromaLeft, MilvusLeft
<1> QED
  BY <1>2, <1>3, <1>4 DEF Fresh

LEMMA NotLast ==
  /\ <<"createOrKeep">> \notin {<<>>, <<"load">>} /\ <<"create", "load">> \notin {<<>>, <<"load">>}
  /\ <<"create">> # <<>> /\ <<"ensure">> # <<>> /\ <<"load">> # <<>> /\ <<"has", "create", "load">> # <<>>
  /\ <<"ensure">> # <<"load">> /\ <<"has", "createOrKeep">> \notin {<<>>, <<"load">>}
  /\ <<"has", "create", "load">> # <<"load">>
OBVIOUS

LEMMA OpenPlan ==
  ASSUME backend \in Backends
  PROVE  Plan("open") \notin {<<>>, <<"load">>}
BY NotLast DEF Plan, SqliteOpen, PgOpen, QdrantOpen, ChromaOpen, MilvusOpen

\* A step that leaves the collection, and every reset that has dropped it.
LEMMA ExistsKeeps ==
  ASSUME ExistsInv, ~Fresh, UNCHANGED <<backend, exists>>, cut => cut',
         \A c \in Callers : Resetting(c) => cut' \/ exists' \/ Resetting(c)'
  PROVE  ExistsInv'
BY DEF ExistsInv

LEMMA StatementExists ==
  ASSUME TypeInv, ExistsInv, NEW c \in Callers, Statement(c)
  PROVE  ExistsInv'
<1>1. ASSUME NEW s, Step(c, s)
      PROVE  Left(job[c]) /\ job[c].todo # <<>> /\ Head(job[c].todo) = s
  BY <1>1, StepTail
<1>2. CASE Create(c) \/ Ensure(c)
  BY <1>2 DEF Create, Ensure, ExistsInv
<1>3. CASE Drop(c)
  <2>1. GoesOn(c, Tail(job[c].todo), "ok") /\ Tail(job[c].todo) # <<>> /\ job[c].op = "reset" /\ Dispatched
    BY <1>1, <1>3, DropMoves, AtDrop, NotLast DEF Drop, Dispatched
  <2>2. Running(c)'
    BY <2>1 DEF GoesOn, Moves, Running, Idle
  <2>3. Dispatched'
    BY <1>3, <2>1 DEF Drop, Dispatched
  <2>4. Resetting(c)'
    BY <2>1, <2>2, <2>3 DEF Resetting, GoesOn, Moves
  <2> QED
    BY <2>4 DEF ExistsInv
<1>4. CASE ~Create(c) /\ ~Ensure(c) /\ ~Drop(c)
  <2>1. exists' = exists /\ cut' = cut /\ backend' = backend /\ phase' = phase /\ Dispatched' = Dispatched
    BY <1>4 DEF Statement, Check, Put, Change, Find, Remove, Clear, Unindex, Index, UnindexAll,
       Has, Load, database, history, Dispatched
  <2>2. CASE exists \/ cut
    BY <2>1, <2>2 DEF ExistsInv
  <2>3. CASE ~exists /\ ~cut
    <3>1. ~Load(c) /\ ~Put(c) /\ ~Change(c) /\ ~Find(c) /\ ~Remove(c) /\ ~Clear(c)
      BY <2>3 DEF Load, Put, Change, Find, Remove, Clear, Reaches, Reads
    <3>2. Check(c) \/ Unindex(c) \/ Index(c) \/ UnindexAll(c) \/ Has(c)
      BY <1>4, <3>1 DEF Statement
    <3>3. ASSUME Check(c) \/ Unindex(c) \/ Index(c) \/ UnindexAll(c)
          PROVE  ~Dispatched /\ job[c].op # "open"
      BY <1>1, <3>3, AtCheck, AtUnindex, AtIndex, AtUnindexAll
         DEF Check, Unindex, Index, UnindexAll, Dispatched
    <3>4. ASSUME Has(c)
          PROVE  /\ GoesOn(c, Tail(job[c].todo), job[c].answer)
                 /\ Tail(job[c].todo) \notin {<<>>, <<"load">>}
      BY <1>1, <2>3, <3>4, HasMoves, AtHas, NotLast DEF Has
    <3>5. CASE \E d \in Callers : Resetting(d)
      <4>1. PICK d \in Callers : Resetting(d)
        BY <3>5
      <4>2. Has(c)
        BY <3>2, <3>3, <4>1 DEF Resetting
      <4>3. Resetting(d)'
        BY <2>1, <3>4, <4>1, <4>2 DEF Resetting, GoesOn, Moves, Running, Idle
      <4> QED
        BY <4>3 DEF ExistsInv
    <3>6. CASE Fresh
      <4>1. Has(c)
        BY <3>2, <3>3, <3>6, FreshOpens DEF Statement, Running
      <4>2. Fresh'
        BY <2>1, <3>4, <3>6, <4>1 DEF Fresh, GoesOn, Moves, Running, Idle
      <4> QED
        BY <4>2 DEF ExistsInv
    <3> QED
      BY <2>3, <3>5, <3>6 DEF ExistsInv
  <2> QED
    BY <2>2, <2>3
<1> QED
  BY <1>2, <1>3, <1>4

\* The calls of some callers end early.
LEMMA BrokenExists ==
  ASSUME TypeInv, ExistsInv, NEW gone \in SUBSET Callers, Broken(gone), UNCHANGED <<backend, exists>>,
         \A c \in Callers : Running(c) => c \in gone \/ job'[c] = job[c],
         \A c \in Callers : job'[c] \in {NoCall, job[c]},
         Fresh => \A p \in Processes : phase'[p] \in {phase[p], "down"}
  PROVE  ExistsInv'
<1>1. cut' = (cut \/ \E c \in gone : job[c].op = "reset" /\ job[c].answer = "ok" /\ ~exists)
  BY DEF Broken
<1>2. CASE exists \/ cut
  BY <1>1, <1>2 DEF ExistsInv
<1>3. ASSUME ~exists, NEW c \in Callers, Resetting(c)
      PROVE  ExistsInv'
  <2>1. CASE c \in gone
    BY <1>1, <1>3, <2>1 DEF ExistsInv, Resetting
  <2>2. CASE c \notin gone
    <3>1. job'[c] = job[c]
      BY <1>3, <2>2 DEF Resetting
    <3>2. Resetting(c)'
      BY <1>3, <3>1 DEF Resetting, Running, Idle, Dispatched
    <3> QED
      BY <3>2 DEF ExistsInv
  <2> QED
    BY <2>1, <2>2
<1>4. CASE Fresh
  <2>1. \A p \in Processes : phase'[p] \in {"down", "opening"}
    BY <1>4 DEF Fresh
  <2>2. \A c \in Callers : Idle(c)' \/ job'[c].todo \notin {<<>>, <<"load">>}
    BY <1>4 DEF Fresh, Idle
  <2> QED
    BY <2>1, <2>2 DEF ExistsInv, Fresh
<1> QED
  BY <1>2, <1>3, <1>4 DEF ExistsInv

LEMMA NextExists ==
  ASSUME TypeInv, ExistsInv, [Next]_vars
  PROVE  ExistsInv'
<1>1. CASE UNCHANGED vars
  BY <1>1 DEF vars, ExistsInv, Resetting, Fresh, Running, Idle, Dispatched
<1>2. ASSUME NEW p \in Processes, Crash(p) \/ DispatcherEnds(p)
      PROVE  ExistsInv'
  <2> DEFINE gone == {c \in Callers : home[c] = p /\ Running(c)}
  <2>1. Broken(gone) /\ UNCHANGED <<backend, exists>>
    BY <1>2 DEF Crash, DispatcherEnds, database
  <2>2. \A c \in Callers : job'[c] = IF home[c] = p THEN NoCall ELSE job[c]
    BY <1>2 DEF Crash, DispatcherEnds
  <2>3. ASSUME Fresh
        PROVE  \A q \in Processes : phase'[q] \in {phase[q], "down"}
    <3>1. phase[p] # "up"
      BY <2>3 DEF Fresh
    <3>2. phase' = [phase EXCEPT ![p] = "down"]
      BY <1>2, <3>1 DEF Crash, DispatcherEnds
    <3> QED
      BY <3>2 DEF TypeInv, TypeOK
  <2>4. \A c \in Callers : Running(c) => c \in gone \/ job'[c] = job[c]
    BY <2>2
  <2>5. gone \in SUBSET Callers
    OBVIOUS
  <2> HIDE DEF gone
  <2> QED
    BY <2>1, <2>2, <2>3, <2>4, <2>5, BrokenExists
<1>3. ASSUME NEW c \in Callers, Open(c)
      PROVE  ExistsInv'
  <2>1. /\ UNCHANGED <<backend, exists, cut>> /\ Idle(c) /\ \A d \in Callers \ {c} : job'[d] = job[d]
        /\ phase' = [phase EXCEPT ![home[c]] = "opening"]
    BY <1>3 DEF Open, database, history, TypeInv, TypeOK
  <2>2. job'[c].todo = Plan("open")
    BY <1>3 DEF Open, TypeInv, TypeOK, NewJob
  <2>3. CASE Fresh
    <3>1. \A p \in Processes : phase'[p] \in {"down", "opening"}
      BY <2>1, <2>3, HomeType DEF Fresh
    <3>2. \A d \in Callers : Idle(d)' \/ job'[d].todo \notin {<<>>, <<"load">>}
      BY <2>1, <2>2, <2>3, OpenPlan DEF Fresh, Idle, TypeInv, TypeOK
    <3> QED
      BY <3>1, <3>2 DEF ExistsInv, Fresh
  <2>4. CASE ~Fresh
    BY <2>1, <2>4, ExistsKeeps DEF Resetting, Running, Idle, Dispatched
  <2> QED
    BY <2>3, <2>4
<1>4. ASSUME NEW c \in Callers, Call(c)
      PROVE  ExistsInv'
  <2>1. /\ UNCHANGED <<backend, exists, cut>> /\ Idle(c) /\ \A d \in Callers \ {c} : job'[d] = job[d]
        /\ phase[home[c]] = "up"
    BY <1>4 DEF Call, database, history, TypeInv, TypeOK
  <2>2. ~Fresh
    BY <2>1, HomeType DEF Fresh
  <2> QED
    BY <2>1, <2>2, ExistsKeeps DEF Resetting, Running, Idle, Dispatched
<1>5. ASSUME NEW c \in Callers, Run(c)
      PROVE  ExistsInv'
  <2>1. UNCHANGED <<backend, exists, cut>> /\ ~Idle(c) /\ ~Running(c)
    BY <1>5 DEF Run, database, Running
  <2>2. ~Fresh
    BY <2>1, FreshOpens
  <2>3. \A d \in Callers : Resetting(d) => Resetting(d)'
    BY <1>5, <2>1, RunJobs DEF Resetting, Running, Idle, Dispatched
  <2> QED
    BY <2>1, <2>2, <2>3, ExistsKeeps
<1>6. ASSUME NEW c \in Callers, Return(c)
      PROVE  ExistsInv'
  <2>1. /\ UNCHANGED <<backend, exists, cut>> /\ ~Idle(c) /\ job[c].todo = <<>>
        /\ \A d \in Callers \ {c} : job'[d] = job[d]
    BY <1>6 DEF Return, Ends, Running, database, TypeInv, TypeOK
  <2>2. ~Fresh
    BY <2>1 DEF Fresh
  <2>3. \A d \in Callers : Resetting(d) => Resetting(d)'
    BY <2>1 DEF Resetting, Running, Idle, Dispatched
  <2> QED
    BY <2>1, <2>2, <2>3, ExistsKeeps
<1>7. ASSUME NEW c \in Callers, Fail(c)
      PROVE  ExistsInv'
  <2>1. Broken({c}) /\ UNCHANGED <<backend, exists>> /\ {c} \in SUBSET Callers
    BY <1>7 DEF Fail
  <2>2. job'[c] = NoCall /\ \A d \in Callers \ {c} : job'[d] = job[d]
    BY <1>7 DEF Fail, Ends, TypeInv, TypeOK
  <2>3. \A p \in Processes : phase'[p] \in {phase[p], "down"}
    BY <1>7, HomeType DEF Fail
  <2>4. \A d \in Callers : Running(d) => d \in {c} \/ job'[d] = job[d]
    BY <2>2
  <2>5. \A d \in Callers : job'[d] \in {NoCall, job[d]}
    BY <2>2
  <2> QED
    BY <2>1, <2>3, <2>4, <2>5, BrokenExists
<1> QED
  BY <1>1, <1>2, <1>3, <1>4, <1>5, <1>6, <1>7, StatementExists DEF Next, Work

LEMMA InitExists == Init => ExistsInv
BY DEF Init, ExistsInv, Fresh, Idle

\* The collection of a store that is open is there, but for the time of a reset
\* and after one that ended between its two requests (delete_collection and
\* create_collection of the stores with a dispatcher): no opening, crash or race
\* of two processes loses it otherwise.
THEOREM CollectionStays == Spec => []CollectionExists
<1>1. TypeInv /\ ExistsInv => CollectionExists
  BY DEF ExistsInv, CollectionExists, Resetting, Fresh
<1>2. Init => TypeInv /\ ExistsInv
  BY InitType, InitExists
<1>3. TypeInv /\ ExistsInv /\ [Next]_vars => (TypeInv /\ ExistsInv)'
  BY NextType, NextExists
<1> QED
  BY <1>1, <1>2, <1>3, PTL DEF Spec

-----------------------------------------------------------------------------
(* The words of sqlite.                                                    *)

\* The calls that run and change i.
Changing(c, i) == Running(c) /\ job[c].op # "open" /\ i \in Touched(c)

\* What a call leaves in the table of records.
After(j) == IF j.op \in {"insert", "update"} THEN j.value ELSE Nothing

\* What c has done to the record and the rows of i, if nobody has interfered.
Halfway(c, i) ==
  /\ (job[c].answer = "ok" /\ (job[c].alone \/ i \notin torn)) =>
       /\ records[i] = After(job[c])
       /\ job[c].todo = <<"index">> => words[i] = NoRows
       /\ job[c].todo = <<>> => words[i] = RowsFor(After(job[c]))
  /\ (job[c].answer # "ok" /\ i \notin torn) => words[i] = RowsFor(records[i])

\* Two calls that change an id at the same time know of each other.
OverlapsKnown ==
  \A c, d \in Callers : \A i \in Ids :
    (c # d /\ Changing(c, i) /\ Changing(d, i)) => i \in torn /\ ~job[c].alone

WordsInv ==
  backend = "sqlite" =>
    /\ OverlapsKnown
    /\ \A c \in Callers : \A i \in Ids : Changing(c, i) => Halfway(c, i)
    /\ \A i \in Ids :
         \/ i \in torn \/ words[i] = RowsFor(records[i])
         \/ \E c \in Callers : Changing(c, i)

\* A call that another one overlaps is neither alone nor on an id not torn.
LEMMA OverlappedHalfway ==
  ASSUME NEW c, NEW i, ~job[c].alone, i \in torn
  PROVE  Halfway(c, i)
BY DEF Halfway

LEMMA ChangingKeeps ==
  ASSUME NEW c \in Callers, job'[c] = job[c]
  PROVE  /\ Touched(c)' = Touched(c) /\ Running(c)' = Running(c)
         /\ \A i : Changing(c, i)' = Changing(c, i)
BY DEF Touched, Running, Idle, Changing

LEMMA HalfwayKeeps ==
  ASSUME NEW c \in Callers, NEW i \in Ids, Halfway(c, i), job'[c] = job[c],
         records'[i] = records[i], words'[i] = words[i], torn \subseteq torn' \/ (i \in torn => i \in torn')
  PROVE  Halfway(c, i)'
BY DEF Halfway, After, RowsFor, NoRows

LEMMA MovesChanging ==
  ASSUME TypeInv, NEW c \in Callers, NEW t, NEW a, GoesOn(c, t, a)
  PROVE  /\ \A d \in Callers : Touched(d)' = Touched(d) /\ (\A i : Changing(d, i)' = Changing(d, i))
         /\ job'[c].alone = job[c].alone
<1>1. ASSUME NEW d \in Callers
      PROVE  Touched(d)' = Touched(d) /\ Running(d)' = Running(d) /\ job'[d].op = job[d].op
  <2>1. CASE d = c
    BY <2>1 DEF GoesOn, Moves, Touched, Running, Idle
  <2>2. CASE d # c
    BY <2>2, ChangingKeeps DEF GoesOn, Moves
  <2> QED
    BY <2>1, <2>2
<1> QED
  BY <1>1 DEF Changing, GoesOn, Moves

\* A statement of c's call does what it should to the ids that c changes, and
\* nothing to the others.
LEMMA MovesWords ==
  ASSUME TypeInv, WordsInv, backend = "sqlite", NEW c \in Callers, NEW t, NEW a, GoesOn(c, t, a),
         UNCHANGED <<backend, torn>>,
         \A i \in Ids : ~Changing(c, i) => records'[i] = records[i] /\ words'[i] = words[i],
         \A i \in Ids : Changing(c, i) => Halfway(c, i)'
  PROVE  WordsInv'
<1>1. /\ OverlapsKnown
      /\ \A d \in Callers : \A i \in Ids : Changing(d, i) => Halfway(d, i)
      /\ \A i \in Ids :
           \/ i \in torn \/ words[i] = RowsFor(records[i])
           \/ \E d \in Callers : Changing(d, i)
  BY DEF WordsInv
<1>2. /\ \A d \in Callers : \A i : Changing(d, i)' = Changing(d, i)
      /\ job'[c].alone = job[c].alone /\ \A d \in Callers \ {c} : job'[d] = job[d]
  BY MovesChanging DEF GoesOn, Moves
<1>3. OverlapsKnown'
  BY <1>1, <1>2 DEF OverlapsKnown
<1>4. ASSUME NEW d \in Callers, NEW i \in Ids, Changing(d, i)'
      PROVE  Halfway(d, i)'
  <2>1. Changing(d, i) /\ Halfway(d, i)
    BY <1>1, <1>2, <1>4
  <2>2. CASE d = c
    BY <2>1, <2>2
  <2>3. CASE d # c /\ Changing(c, i)
    <3>1. i \in torn' /\ ~job'[d].alone
      BY <1>1, <1>2, <2>1, <2>3 DEF OverlapsKnown
    <3> QED
      BY <3>1 DEF Halfway
  <2>4. CASE d # c /\ ~Changing(c, i)
    BY <1>2, <2>1, <2>4, HalfwayKeeps
  <2> QED
    BY <2>2, <2>3, <2>4
<1>5. ASSUME NEW i \in Ids, i \notin torn', \A d \in Callers : ~Changing(d, i)'
      PROVE  words'[i] = RowsFor(records[i])'
  <2>1. ~Changing(c, i) /\ words[i] = RowsFor(records[i])
    BY <1>1, <1>2, <1>5
  <2> QED
    BY <2>1 DEF RowsFor, NoRows
<1> QED
  BY <1>3, <1>4, <1>5 DEF WordsInv

\* Calls end, and leave their mark where they have begun to change something.
LEMMA EndsWords ==
  ASSUME TypeInv, WordsInv, NEW gone \in SUBSET Callers,
         \A c \in Callers : job'[c] \in {NoCall, job[c]},
         \A c \in Callers \ gone : Running(c) => job'[c] = job[c],
         \A c \in gone : Running(c) /\ job[c].answer = "ok" => Touched(c) \subseteq torn',
         torn \subseteq torn', UNCHANGED <<backend, records, words>>
  PROVE  WordsInv'
<1> SUFFICES ASSUME backend = "sqlite"
             PROVE  WordsInv'
  BY DEF WordsInv
<1>1. /\ OverlapsKnown
      /\ \A d \in Callers : \A i \in Ids : Changing(d, i) => Halfway(d, i)
      /\ \A i \in Ids :
           \/ i \in torn \/ words[i] = RowsFor(records[i])
           \/ \E d \in Callers : Changing(d, i)
  BY DEF WordsInv
<1>2. \A c \in Callers : \A i : Changing(c, i)' => job'[c] = job[c] /\ Changing(c, i)
  BY ChangingKeeps DEF Changing, Running, Idle
<1>3. OverlapsKnown'
  BY <1>1, <1>2 DEF OverlapsKnown
<1>4. \A c \in Callers : \A i \in Ids : Changing(c, i)' => Halfway(c, i)'
  BY <1>1, <1>2, HalfwayKeeps
<1>5. ASSUME NEW i \in Ids, i \notin torn', \A c \in Callers : ~Changing(c, i)'
      PROVE  words'[i] = RowsFor(records[i])'
  <2>1. RowsFor(records[i])' = RowsFor(records[i]) /\ i \notin torn
    BY <1>5 DEF RowsFor, NoRows
  <2>2. ASSUME NEW c \in Callers, Changing(c, i)
        PROVE  words[i] = RowsFor(records[i])
    <3>1. c \in gone
      BY <1>5, <2>2, ChangingKeeps DEF Changing
    <3>2. job[c].answer # "ok"
      BY <1>5, <2>2, <3>1 DEF Changing
    <3> QED
      BY <1>1, <2>1, <2>2, <3>2 DEF Halfway
  <2> QED
    BY <1>1, <2>1, <2>2
<1> QED
  BY <1>3, <1>4, <1>5 DEF WordsInv

LEMMA CheckWords ==
  ASSUME TypeInv, WordsInv, NEW c \in Callers, Check(c), Ends(c)
  PROVE  WordsInv'
<1>1. /\ UNCHANGED <<backend, records, words, torn>>
      /\ job'[c] = NoCall /\ \A d \in Callers \ {c} : job'[d] = job[d]
  BY DEF Check, Ends, database, history, TypeInv, TypeOK
<1>2. job[c].answer = "none"
  BY StepTail, AtCheck DEF Check
<1>3. {c} \in SUBSET Callers
  OBVIOUS
<1> QED
  BY <1>1, <1>2, <1>3, EndsWords

\* What a statement does, if c is in sqlite.
LEMMA StatementWords ==
  ASSUME TypeInv, WordsInv, backend = "sqlite", NEW c \in Callers, Statement(c), ~Ends(c)
  PROVE  WordsInv'
<1>0. ASSUME NEW s, Step(c, s)
      PROVE  Left(job[c]) /\ job[c].todo # <<>> /\ Head(job[c].todo) = s
  BY <1>0, StepTail
<1>1. /\ records \in [Ids -> Values \cup {Nothing}] /\ words \in [Ids -> [Texts \ {NoText} -> Nat]]
      /\ UNCHANGED <<backend, torn>> /\ Running(c)
      /\ job[c].id \in Ids /\ job[c].value \in Values
  BY WordsType, StatementFrame, JobType DEF TypeInv, TypeOK, Statement, Running
<1>2. \A i \in Ids : Changing(c, i) => Halfway(c, i)
  BY DEF WordsInv
<1>3. ASSUME job[c].op \in {"insert", "update", "delete"}
      PROVE  \A i \in Ids : Changing(c, i) <=> i = job[c].id
  BY <1>1, <1>3 DEF Changing, Touched
<1>4. CASE Check(c)
  <2>1. GoesOn(c, Tail(job[c].todo), job[c].answer) /\ job[c].answer = "none" /\ UNCHANGED <<records, words>>
    BY <1>0, <1>4, CheckMoves, AtCheck DEF Check, database
  <2>2. ASSUME NEW i \in Ids, Changing(c, i)
        PROVE  Halfway(c, i)'
    <3>1. RowsFor(records[i])' = RowsFor(records[i])
      BY <2>1 DEF RowsFor, NoRows
    <3> QED
      BY <1>1, <1>2, <2>1, <2>2, <3>1 DEF Halfway, GoesOn, Moves
  <2> QED
    BY <1>1, <2>1, <2>2, MovesWords
<1>5. CASE Put(c) \/ (Change(c) /\ job[c].id \in Live)
  <2>1. /\ GoesOn(c, <<"unindex", "index">>, "ok") /\ job[c].op \in {"insert", "update"}
        /\ records' = [records EXCEPT ![job[c].id] = job[c].value] /\ words' = words
    <3>1. CASE Put(c)
      BY <1>0, <3>1, PutMoves, AtPut DEF Put, Dispatched
    <3>2. CASE Change(c) /\ job[c].id \in Live
      BY <1>0, <3>2, ChangeMoves, AtChange DEF Change
    <3> QED
      BY <1>5, <3>1, <3>2
  <2>2. <<"unindex", "index">> # <<"index">> /\ <<"unindex", "index">> # <<>>
    OBVIOUS
  <2>3. ASSUME NEW i \in Ids, Changing(c, i)
        PROVE  Halfway(c, i)'
    <3>1. i = job[c].id
      BY <1>3, <2>1, <2>3
    <3> QED
      BY <1>1, <2>1, <2>2, <3>1 DEF Halfway, After, GoesOn, Moves
  <2>4. \A i \in Ids : ~Changing(c, i) => records'[i] = records[i] /\ words'[i] = words[i]
    BY <1>1, <1>3, <2>1
  <2> QED
    BY <1>1, <2>1, <2>3, <2>4, MovesWords
<1>6. CASE Change(c) /\ job[c].id \notin Live
  <2>1. /\ GoesOn(c, <<>>, "missing") /\ job[c].answer = "none" /\ UNCHANGED <<records, words>>
    BY <1>0, <1>6, ChangeMoves, AtChange DEF Change
  <2>2. ASSUME NEW i \in Ids, Changing(c, i)
        PROVE  Halfway(c, i)'
    <3>1. RowsFor(records[i])' = RowsFor(records[i])
      BY <2>1 DEF RowsFor, NoRows
    <3> QED
      BY <1>1, <1>2, <2>1, <2>2, <3>1 DEF Halfway, GoesOn, Moves
  <2> QED
    BY <1>1, <2>1, <2>2, MovesWords
<1>7. CASE Remove(c)
  <2>1. /\ GoesOn(c, <<"unindex">>, "ok") /\ job[c].op = "delete"
        /\ records' = [records EXCEPT ![job[c].id] = Nothing] /\ words' = words
    BY <1>0, <1>7, RemoveMoves, AtRemove DEF Remove
  <2>2. <<"unindex">> # <<"index">> /\ <<"unindex">> # <<>>
    OBVIOUS
  <2>3. ASSUME NEW i \in Ids, Changing(c, i)
        PROVE  Halfway(c, i)'
    <3>1. i = job[c].id
      BY <1>3, <2>1, <2>3
    <3> QED
      BY <1>1, <2>1, <2>2, <3>1 DEF Halfway, After, GoesOn, Moves
  <2>4. \A i \in Ids : ~Changing(c, i) => records'[i] = records[i] /\ words'[i] = words[i]
    BY <1>1, <1>3, <2>1
  <2> QED
    BY <1>1, <2>1, <2>3, <2>4, MovesWords
<1>8. CASE Clear(c)
  <2>1. /\ GoesOn(c, <<"unindexAll">>, "ok") /\ job[c].op = "reset"
        /\ records' = [i \in Ids |-> Nothing] /\ words' = words
    BY <1>0, <1>8, ClearMoves, AtClear DEF Clear
  <2>2. <<"unindexAll">> # <<"index">> /\ <<"unindexAll">> # <<>>
    OBVIOUS
  <2>3. \A i \in Ids : Changing(c, i)
    BY <1>1, <2>1 DEF Changing, Touched
  <2>4. \A i \in Ids : Halfway(c, i)'
    BY <1>1, <2>1, <2>2 DEF Halfway, After, GoesOn, Moves
  <2> QED
    BY <1>1, <2>1, <2>3, <2>4, MovesWords
<1>9. CASE Unindex(c)
  <2>1. /\ job[c].answer = "ok" /\ GoesOn(c, Tail(job[c].todo), "ok")
        /\ job[c].op \in {"insert", "update", "delete"}
        /\ Tail(job[c].todo) = <<>> => job[c].op = "delete"
        /\ records' = records /\ words' = [words EXCEPT ![job[c].id] = NoRows]
    <3>1. /\ job[c].answer = "ok" /\ job[c].op \in {"insert", "update", "delete"}
          /\ Tail(job[c].todo) = <<>> => job[c].op = "delete"
      BY <1>0, <1>9, AtUnindex, NotIndex DEF Unindex
    <3> QED
      BY <1>9, <3>1, UnindexMoves DEF Unindex
  <2>2. ASSUME NEW i \in Ids, Changing(c, i)
        PROVE  Halfway(c, i)'
    <3>1. i = job[c].id /\ Halfway(c, i)
      BY <1>2, <1>3, <2>1, <2>2
    <3>2. words'[i] = NoRows /\ NoRows' = NoRows /\ records'[i] = records[i]
      BY <1>1, <2>1, <3>1 DEF NoRows
    <3>3. After(job[c])' = After(job[c])
      BY <2>1 DEF After, GoesOn, Moves
    <3>4. Tail(job[c].todo) = <<>> => RowsFor(After(job[c]))' = NoRows
      BY <2>1, <3>3 DEF After, RowsFor, NoRows
    <3> QED
      BY <1>1, <2>1, <3>1, <3>2, <3>3, <3>4 DEF Halfway, GoesOn, Moves
  <2>3. \A i \in Ids : ~Changing(c, i) => records'[i] = records[i] /\ words'[i] = words[i]
    BY <1>1, <1>3, <2>1
  <2> QED
    BY <1>1, <2>1, <2>2, <2>3, MovesWords
<1>10. CASE Index(c)
  <2>1. /\ job[c].answer = "ok" /\ GoesOn(c, <<>>, "ok") /\ job[c].todo = <<"index">>
        /\ job[c].op \in {"insert", "update"} /\ records' = records
    <3>1. Step(c, "index") /\ records' = records
      BY <1>10 DEF Index
    <3>2. job[c].answer = "ok" /\ job[c].todo = <<"index">> /\ Tail(job[c].todo) = <<>> /\ job[c].op \in {"insert", "update"}
      BY <1>0, <3>1, AtIndex
    <3>3. GoesOn(c, Tail(job[c].todo), job[c].answer)
      BY <1>10, IndexMoves
    <3> QED
      BY <3>1, <3>2, <3>3
  <2>2. words' = IF job[c].value.text = NoText THEN words
                 ELSE [words EXCEPT ![job[c].id][job[c].value.text] = @ + 1]
    BY <1>10 DEF Index
  <2>3. ASSUME words[job[c].id] = NoRows
        PROVE  words'[job[c].id] = RowsFor(job[c].value)
    <3>1. job[c].value # Nothing /\ job[c].value.text \in Texts
      BY <1>1 DEF Texts
    <3>2. CASE job[c].value.text = NoText
      BY <2>2, <2>3, <3>1, <3>2 DEF RowsFor, NoRows
    <3>3. CASE job[c].value.text # NoText
      <4>1. words'[job[c].id] = [NoRows EXCEPT ![job[c].value.text] = @ + 1]
        BY <1>1, <2>2, <2>3, <3>3
      <4>2. NoRows[job[c].value.text] + 1 = 1
        BY <3>1, <3>3 DEF NoRows
      <4> QED
        BY <3>1, <3>3, <4>1, <4>2 DEF RowsFor, NoRows
    <3> QED
      BY <3>2, <3>3
  <2>4. ASSUME NEW i \in Ids, Changing(c, i)
        PROVE  Halfway(c, i)'
    <3>1. i = job[c].id /\ Halfway(c, i)
      BY <1>2, <1>3, <2>1, <2>4
    <3>2. After(job[c])' = job[c].value /\ After(job[c]) = job[c].value
      BY <2>1 DEF After, GoesOn, Moves
    <3>3. RowsFor(After(job[c]))' = RowsFor(job[c].value)
      BY <3>2 DEF RowsFor, NoRows
    <3>4. /\ job'[c].answer = "ok" /\ job'[c].alone = job[c].alone /\ torn' = torn /\ records'[i] = records[i]
          /\ job'[c].todo = <<>>
      BY <1>1, <2>1 DEF GoesOn, Moves
    <3>5. (job[c].alone \/ i \notin torn) => records[i] = job[c].value /\ words[i] = NoRows
      BY <2>1, <3>1, <3>2 DEF Halfway
    <3>6. (job[c].alone \/ i \notin torn) => words'[i] = RowsFor(job[c].value)
      BY <2>3, <3>1, <3>5
    <3> QED
      BY <3>2, <3>3, <3>4, <3>5, <3>6, NotIndex DEF Halfway
  <2>5. \A i \in Ids : ~Changing(c, i) => records'[i] = records[i] /\ words'[i] = words[i]
    BY <1>1, <1>3, <2>1, <2>2
  <2> QED
    BY <1>1, <2>1, <2>4, <2>5, MovesWords
<1>11. CASE UnindexAll(c)
  <2>1. /\ job[c].answer = "ok" /\ GoesOn(c, <<>>, "ok") /\ job[c].op = "reset"
        /\ records' = records /\ words' = [i \in Ids |-> NoRows]
    <3>1. Step(c, "unindexAll") /\ records' = records /\ words' = [i \in Ids |-> NoRows]
      BY <1>11 DEF UnindexAll
    <3>2. job[c].answer = "ok" /\ Tail(job[c].todo) = <<>> /\ job[c].op = "reset"
      BY <1>0, <3>1, AtUnindexAll
    <3>3. GoesOn(c, Tail(job[c].todo), job[c].answer)
      BY <1>11, UnindexAllMoves
    <3> QED
      BY <3>1, <3>2, <3>3
  <2>2. \A i \in Ids : Changing(c, i)
    BY <1>1, <2>1 DEF Changing, Touched
  <2>3. \A i \in Ids : words'[i] = RowsFor(Nothing)
    BY <2>1, RowTypes
  <2>4. After(job[c])' = Nothing /\ After(job[c]) = Nothing /\ RowsFor(After(job[c]))' = RowsFor(Nothing)
    BY <2>1 DEF After, GoesOn, Moves, RowsFor, NoRows
  <2>5. \A i \in Ids : Halfway(c, i)'
    BY <1>1, <1>2, <2>1, <2>2, <2>3, <2>4, NotIndex DEF Halfway, GoesOn, Moves
  <2> QED
    BY <1>1, <2>1, <2>2, <2>5, MovesWords
<1>12. CASE Ensure(c)
  <2>1. /\ GoesOn(c, Tail(job[c].todo), job[c].answer) /\ job[c].op = "open" /\ UNCHANGED <<records, words>>
    BY <1>0, <1>12, EnsureMoves, AtEnsure DEF Ensure
  <2>2. \A i \in Ids : ~Changing(c, i)
    BY <2>1 DEF Changing
  <2> QED
    BY <1>1, <2>1, <2>2, MovesWords
<1>13. ~Find(c) /\ ~Drop(c) /\ ~Has(c) /\ ~Create(c) /\ ~Load(c)
  BY <1>0, AtFind, AtDrop, AtHas, AtCreate, AtCreateOrKeep, AtLoad DEF Find, Drop, Has, Create, Load, Dispatched
<1> QED
  BY <1>4, <1>5, <1>6, <1>7, <1>8, <1>9, <1>10, <1>11, <1>12, <1>13 DEF Statement

\* A call that begins to run meets the others on its ids.
LEMMA RunWords ==
  ASSUME TypeInv, WordsInv, NEW c \in Callers, Run(c)
  PROVE  WordsInv'
<1> SUFFICES ASSUME backend = "sqlite"
             PROVE  WordsInv'
  BY DEF WordsInv, Run
<1>1. /\ OverlapsKnown
      /\ \A d \in Callers : \A i \in Ids : Changing(d, i) => Halfway(d, i)
      /\ \A i \in Ids :
           \/ i \in torn \/ words[i] = RowsFor(records[i])
           \/ \E d \in Callers : Changing(d, i)
  BY DEF WordsInv
<1>2. /\ UNCHANGED <<backend, home, records, words>> /\ ~Running(c)
      /\ job[c] # NoCall /\ job[c].state = "queued" /\ CanRun(c)
      /\ torn' = torn \cup UNION {Touched(d) \cap Touched(c) : d \in Others(c)}
  BY DEF Run, database, Running, Idle
<1>3. JobOK(job[c])
  BY <1>2 DEF TypeInv, JobsOK, Idle
<1>4. job[c].op # "open" /\ job[c].answer = "none"
  BY <1>2, <1>3 DEF JobOK
<1>5. \A d \in Callers : Touched(d)' = Touched(d)
  <2> SUFFICES ASSUME NEW d \in Callers
               PROVE  Touched(d)' = Touched(d)
    OBVIOUS
  <2>1. job'[d] = job[d] \/ (job'[d].op = job[d].op /\ job'[d].id = job[d].id)
    BY RunJobs
  <2> QED
    BY <2>1 DEF Touched
<1>11. ASSUME NEW d \in Callers \ {c}
       PROVE  /\ \A i : Changing(d, i)' <=> Changing(d, i)
              /\ Running(d) => job[d] # NoCall
  BY <1>5, RunJobs DEF Changing, Running, Idle
<1>6. \A i \in Ids : Changing(c, i)' <=> i \in Touched(c)
  BY <1>2, <1>4, <1>5, RunJobs DEF Changing, Running, Idle
<1>7. ASSUME NEW d \in Callers \ {c}, NEW i \in Ids, Changing(d, i), i \in Touched(c)
      PROVE  d \in Others(c) /\ i \in torn' /\ ~job'[d].alone /\ ~job'[c].alone
  <2>1. home[d] # home[c]
    BY <1>2, <1>7 DEF CanRun, Changing
  <2>2. d \in Others(c)
    BY <1>7, <2>1 DEF Others, Changing
  <2>3. ~job'[d].alone /\ ~job'[c].alone
    BY <1>11, <1>7, <2>2, RunJobs DEF Changing
  <2>4. i \in torn'
    BY <1>2, <1>7, <2>2 DEF Changing
  <2> QED
    BY <2>2, <2>3, <2>4
<1>8. OverlapsKnown'
  <2> SUFFICES ASSUME NEW d \in Callers, NEW e \in Callers, NEW i \in Ids,
                      d # e, Changing(d, i)', Changing(e, i)'
               PROVE  i \in torn' /\ ~job'[d].alone
    BY DEF OverlapsKnown
  <2>1. CASE d = c
    BY <1>11, <1>6, <1>7, <2>1
  <2>2. CASE e = c
    BY <1>11, <1>6, <1>7, <2>2
  <2>3. CASE d # c /\ e # c
    <3>1. i \in torn /\ ~job[d].alone /\ job[d] # NoCall
      BY <1>1, <1>11, <2>3 DEF OverlapsKnown, Changing
    <3> QED
      BY <1>2, <2>3, <3>1, RunJobs
  <2> QED
    BY <2>1, <2>2, <2>3
<1>9. ASSUME NEW d \in Callers, NEW i \in Ids, Changing(d, i)'
      PROVE  Halfway(d, i)'
  <2>1. CASE d = c
    <3>1. job'[c].answer = "none"
      BY <1>2, <1>4, RunJobs
    <3>2. i \notin torn' => words[i] = RowsFor(records[i])
      BY <1>1, <1>2, <1>6, <1>7, <1>9, <2>1 DEF Changing
    <3> QED
      BY <1>2, <2>1, <3>1, <3>2 DEF Halfway, RowsFor, NoRows
  <2>2. CASE d # c
    <3>1. Changing(d, i) /\ Halfway(d, i) /\ job[d] # NoCall
      BY <1>1, <1>11, <1>9, <2>2 DEF Changing
    <3>2. /\ job'[d].op = job[d].op /\ job'[d].value = job[d].value
          /\ job'[d].todo = job[d].todo /\ job'[d].answer = job[d].answer
          /\ job'[d].alone => job[d].alone
      BY <2>2, <3>1, RunJobs
    <3>3. i \in torn => i \in torn'
      BY <1>2
    <3> QED
      BY <1>2, <3>1, <3>2, <3>3 DEF Halfway, After, RowsFor, NoRows
  <2> QED
    BY <2>1, <2>2
<1>10. ASSUME NEW i \in Ids, i \notin torn', \A d \in Callers : ~Changing(d, i)'
       PROVE  words'[i] = RowsFor(records[i])'
  <2>1. i \notin torn /\ \A d \in Callers : ~Changing(d, i)
    BY <1>2, <1>11, <1>10 DEF Changing
  <2> QED
    BY <1>1, <1>2, <2>1 DEF RowsFor, NoRows
<1> QED
  BY <1>8, <1>9, <1>10 DEF WordsInv

\* A call that was alone has repaired what earlier ones have left.
LEMMA ReturnWords ==
  ASSUME TypeInv, WordsInv, NEW c \in Callers, Return(c)
  PROVE  WordsInv'
<1> SUFFICES ASSUME backend = "sqlite"
             PROVE  WordsInv'
  BY DEF WordsInv, Return
<1>1. /\ OverlapsKnown
      /\ \A d \in Callers : \A i \in Ids : Changing(d, i) => Halfway(d, i)
      /\ \A i \in Ids :
           \/ i \in torn \/ words[i] = RowsFor(records[i])
           \/ \E d \in Callers : Changing(d, i)
  BY DEF WordsInv
<1>2. /\ UNCHANGED <<backend, records, words>> /\ Running(c) /\ job[c].todo = <<>>
      /\ job'[c] = NoCall /\ \A d \in Callers \ {c} : job'[d] = job[d]
  BY DEF Return, Ends, database, TypeInv, TypeOK
<1>3. \/ torn' = torn
      \/ job[c].op # "open" /\ job[c].alone /\ job[c].answer = "ok" /\ torn' = torn \ Touched(c)
  BY DEF Return
<1>4. \A d \in Callers : \A i : Changing(d, i)' => d # c /\ Changing(d, i)
  BY <1>2, ChangingKeeps DEF Changing, Running, Idle
<1>5. ASSUME NEW d \in Callers \ {c}, NEW i \in Ids, Changing(d, i)
      PROVE  i \in torn => i \in torn'
  <2>1. CASE job[c].alone /\ job[c].op # "open"
    <3>1. ~Changing(c, i)
      BY <1>1, <1>5, <2>1 DEF OverlapsKnown
    <3> QED
      BY <1>2, <1>3, <2>1, <3>1 DEF Changing
  <2>2. CASE ~(job[c].alone /\ job[c].op # "open")
    BY <1>3, <2>2
  <2> QED
    BY <2>1, <2>2
<1>6. OverlapsKnown'
  BY <1>1, <1>2, <1>4, <1>5 DEF OverlapsKnown
<1>7. ASSUME NEW d \in Callers, NEW i \in Ids, Changing(d, i)'
      PROVE  Halfway(d, i)'
  <2>1. d # c /\ Changing(d, i) /\ Halfway(d, i) /\ (i \in torn => i \in torn')
    BY <1>1, <1>4, <1>5, <1>7
  <2> QED
    BY <1>2, <2>1, HalfwayKeeps
<1>8. ASSUME NEW i \in Ids, i \notin torn', \A d \in Callers : ~Changing(d, i)'
      PROVE  words'[i] = RowsFor(records[i])'
  <2>1. \A d \in Callers \ {c} : ~Changing(d, i)
    BY <1>2, <1>8, ChangingKeeps
  <2>2. CASE Changing(c, i)
    <3>1. Halfway(c, i)
      BY <1>1, <2>2
    <3>2. (job[c].alone /\ job[c].answer = "ok") \/ i \notin torn
      BY <1>3, <1>8
    <3> QED
      BY <1>2, <3>1, <3>2 DEF Halfway, RowsFor, NoRows
  <2>3. CASE ~Changing(c, i)
    <3>1. i \notin torn
      BY <1>2, <1>3, <1>8, <2>3 DEF Changing
    <3> QED
      BY <1>1, <1>2, <2>1, <2>3, <3>1 DEF RowsFor, NoRows
  <2> QED
    BY <2>2, <2>3
<1> QED
  BY <1>6, <1>7, <1>8 DEF WordsInv

LEMMA NextWords ==
  ASSUME TypeInv, WordsInv, [Next]_vars
  PROVE  WordsInv'
<1>1. CASE UNCHANGED vars
  <2>1. {} \in SUBSET Callers
    OBVIOUS
  <2> QED
    BY <1>1, <2>1, EndsWords DEF vars
<1>2. ASSUME NEW p \in Processes, Crash(p) \/ DispatcherEnds(p)
      PROVE  WordsInv'
  <2> DEFINE gone == {c \in Callers : home[c] = p /\ Running(c)}
  <2>1. Broken(gone) /\ UNCHANGED <<backend, records, words>>
    BY <1>2 DEF Crash, DispatcherEnds, database
  <2>2. \A c \in Callers : job'[c] = IF home[c] = p THEN NoCall ELSE job[c]
    BY <1>2 DEF Crash, DispatcherEnds
  <2>3. torn \subseteq torn' /\ \A c \in gone : job[c].answer = "ok" => Touched(c) \subseteq torn'
    BY <2>1 DEF Broken
  <2>4. \A c \in Callers \ gone : Running(c) => job'[c] = job[c]
    BY <2>2
  <2>5. gone \in SUBSET Callers
    OBVIOUS
  <2> HIDE DEF gone
  <2> QED
    BY <2>1, <2>2, <2>3, <2>4, <2>5, EndsWords
<1>3. ASSUME NEW c \in Callers, Open(c) \/ Call(c)
      PROVE  WordsInv'
  <2>1. /\ UNCHANGED <<backend, records, words, torn>> /\ Idle(c) /\ \A d \in Callers \ {c} : job'[d] = job[d]
        /\ \A i : ~Changing(c, i)'
    BY <1>3 DEF Open, Call, NewJob, database, history, TypeInv, TypeOK, Changing, Running, Idle
  <2>2. \A i : ~Changing(c, i)
    BY <2>1 DEF Changing, Running
  <2>3. \A d \in Callers : \A i : Changing(d, i)' => d # c /\ Changing(d, i)
    BY <2>1, ChangingKeeps
  <2>4. OverlapsKnown => OverlapsKnown'
    BY <2>1, <2>3 DEF OverlapsKnown
  <2>5. ASSUME backend = "sqlite", NEW d \in Callers, NEW i \in Ids, Changing(d, i)'
        PROVE  Halfway(d, i)'
    BY <2>1, <2>3, <2>5, HalfwayKeeps DEF WordsInv
  <2>6. ASSUME backend = "sqlite", NEW i \in Ids, i \notin torn', \A d \in Callers : ~Changing(d, i)'
        PROVE  words'[i] = RowsFor(records[i])'
    <3>1. \A d \in Callers : ~Changing(d, i)
      BY <2>1, <2>2, <2>6, ChangingKeeps
    <3> QED
      BY <2>1, <2>6, <3>1 DEF WordsInv, RowsFor, NoRows
  <2> QED
    BY <2>1, <2>4, <2>5, <2>6 DEF WordsInv
<1>4. ASSUME NEW c \in Callers, Fail(c)
      PROVE  WordsInv'
  <2>1. Broken({c}) /\ UNCHANGED <<backend, records, words>>
    BY <1>4 DEF Fail
  <2>2. job'[c] = NoCall /\ \A d \in Callers \ {c} : job'[d] = job[d]
    BY <1>4 DEF Fail, Ends, TypeInv, TypeOK
  <2>3. torn \subseteq torn' /\ (job[c].answer = "ok" => Touched(c) \subseteq torn')
    BY <2>1 DEF Broken
  <2>4. {c} \in SUBSET Callers
    OBVIOUS
  <2> QED
    BY <2>1, <2>2, <2>3, <2>4, EndsWords
<1>5. ASSUME NEW c \in Callers, Statement(c)
      PROVE  WordsInv'
  <2>1. CASE backend # "sqlite"
    BY <1>5, <2>1, StatementFrame DEF WordsInv
  <2>2. CASE Ends(c)
    <3>1. Check(c)
      <4>1. ASSUME NEW t, NEW a, GoesOn(c, t, a)
            PROVE  FALSE
        BY <2>2, <4>1 DEF GoesOn, Moves, Ends
      <4> QED
        BY <1>5, <4>1, StatementMoves
    <3> QED
      BY <2>2, <3>1, CheckWords
  <2>3. CASE backend = "sqlite" /\ ~Ends(c)
    BY <1>5, <2>3, StatementWords
  <2> QED
    BY <2>1, <2>2, <2>3
<1> QED
  BY <1>1, <1>2, <1>3, <1>4, <1>5, RunWords, ReturnWords DEF Next, Work

LEMMA InitWords == Init => WordsInv
BY DEF Init, WordsInv, OverlapsKnown, Changing, Running, Idle

\* In the sqlite store the table of words has exactly one row for each record
\* that has a text, and it is of this text, unless a call on the id was cut
\* short or met one of another process; the next call that completes alone
\* repairs it (insert, update, delete and sync_fts are separate statements).
THEOREM WordsAreExact == Spec => []WordsFollowRecords
<1>1. TypeInv /\ WordsInv => WordsFollowRecords
  BY DEF WordsInv, WordsFollowRecords, Changing
<1>2. Init => TypeInv /\ WordsInv
  BY InitType, InitWords
<1>3. TypeInv /\ WordsInv /\ [Next]_vars => (TypeInv /\ WordsInv)'
  BY NextType, NextWords
<1> QED
  BY <1>1, <1>2, <1>3, PTL DEF Spec

-----------------------------------------------------------------------------
(* What an update has found.                                               *)

\* An update that has found its record still has it, if nobody else can take
\* it away.
FoundStays ==
  \A c \in Callers :
    (~Idle(c) /\ job[c].op = "update" /\ job[c].todo = <<"put">>) =>
      records[job[c].id] # Nothing \/ Revivals

LEMMA NotPut ==
  /\ <<>> # <<"put">> /\ <<"find", "put">> # <<"put">> /\ <<"change", "unindex", "index">> # <<"put">>
  /\ <<"change">> # <<"put">> /\ <<"unindex", "index">> # <<"put">> /\ <<"index">> # <<"put">> /\ <<"unindex">> # <<"put">>
  /\ <<"index">> # <<"put">> /\ <<"put", "unindex", "index">> # <<"put">>
OBVIOUS

\* Only a store with a dispatcher looks first, and only while the call runs.
LEMMA PutOfUpdate ==
  ASSUME TypeInv, NEW c \in Callers, ~Idle(c), job[c].op = "update", job[c].todo = <<"put">>
  PROVE  Dispatched /\ Running(c) /\ job[c].answer = "none"
<1>1. JobOK(job[c]) /\ job[c] \in Job
  BY JobType
<1>2. Dispatched /\ job[c].answer = "none"
  BY <1>1, NotPut DEF JobOK, Left, SqliteLeft, PostgresLeft, RemoteLeft, QdrantLeft, ChromaLeft, MilvusLeft
<1>3. Plan("update") # <<"put">>
  BY <1>2, NotPut DEF Dispatched, Plan, QdrantUpdate, ChromaUpdate, MilvusUpdate
<1>4. Running(c)
  BY <1>1, <1>3 DEF JobOK, Running, Job
<1> QED
  BY <1>2, <1>4

LEMMA SameRevivals ==
  ASSUME UNCHANGED <<backend, home>>
  PROVE  Revivals' = Revivals
BY DEF Revivals, Dispatched

\* A step that leaves the records, and sends no update to its put.
LEMMA FoundKeeps ==
  ASSUME FoundStays, UNCHANGED <<backend, home, records>>,
         \A c \in Callers : ~Idle(c)' /\ job'[c].op = "update" /\ job'[c].todo = <<"put">> =>
           ~Idle(c) /\ job[c].op = "update" /\ job[c].todo = <<"put">> /\ job'[c].id = job[c].id
  PROVE  FoundStays'
BY SameRevivals DEF FoundStays

LEMMA FoundStatement ==
  ASSUME TypeInv, FoundStays, NEW c \in Callers, Statement(c)
  PROVE  FoundStays'
<1>1. Revivals' = Revivals /\ Running(c)
  BY StatementFrame, SameRevivals DEF Statement
<1>2. /\ \A d \in Callers \ {c} : job'[d] = job[d]
      /\ job'[c] = NoCall \/ (job'[c].op = job[c].op /\ job'[c].id = job[c].id)
  <2>1. CASE Ends(c)
    BY <1>1, <2>1, JobType DEF Ends, Running
  <2>2. CASE ~Ends(c)
    BY <2>2, StatementMoves DEF GoesOn, Moves
  <2> QED
    BY <2>1, <2>2
<1>3. ASSUME NEW d \in Callers \ {c}, ~Idle(d), job[d].op = "update", job[d].todo = <<"put">>
      PROVE  Revivals
  <2>1. Dispatched /\ Running(d)
    BY <1>3, PutOfUpdate
  <2>2. home[d] # home[c]
    BY <1>1, <1>3, <2>1 DEF TypeInv, PhasesOK, Dispatched, Running
  <2> QED
    BY <2>1, <2>2 DEF Revivals
<1>4. ASSUME job'[c] # NoCall, job'[c].op = "update", job'[c].todo = <<"put">>
      PROVE  records'[job'[c].id] # Nothing
  <2>0. job[c].op = "update" /\ job[c] # NoCall
    BY <1>1, <1>2, <1>4 DEF Running, Idle
  <2>1. ASSUME NEW s, Step(c, s)
        PROVE  Left(job[c]) /\ job[c].todo # <<>> /\ Head(job[c].todo) = s
    BY <2>1, StepTail
  <2>2. CASE Find(c)
    <3>1. job[c].id \in Live
      BY <1>4, <2>2, FindMoves, NotPut DEF GoesOn, Moves
    <3> QED
      BY <1>2, <1>4, <2>2, <3>1 DEF Find, database, Live
  <2>3. CASE Put(c)
    <3>1. Left(job[c]) /\ job[c].todo # <<>> /\ Head(job[c].todo) = "put" /\ job'[c].todo = Tail(job[c].todo)
      BY <2>1, <2>3, PutMoves DEF Put, GoesOn, Moves
    <3>2. Tail(job[c].todo) # <<"put">>
      BY <3>1, AtPut, NotPut
    <3> QED
      BY <1>4, <3>1, <3>2
  <2>4. CASE Change(c)
    <3>1. /\ Left(job[c]) /\ job[c].todo # <<>> /\ Head(job[c].todo) = "change"
          /\ job'[c].todo \in {<<>>, Tail(job[c].todo)}
      BY <2>1, <2>4, ChangeMoves DEF Change, GoesOn, Moves
    <3>2. Tail(job[c].todo) # <<"put">>
      BY <3>1, AtChange, NotPut
    <3> QED
      BY <1>4, <3>1, <3>2, NotPut
  <2>5. CASE Unindex(c)
    <3>1. Left(job[c]) /\ job[c].todo # <<>> /\ Head(job[c].todo) = "unindex" /\ job'[c].todo = Tail(job[c].todo)
      BY <2>1, <2>5, UnindexMoves DEF Unindex, GoesOn, Moves
    <3>2. Tail(job[c].todo) # <<"put">>
      BY <3>1, AtUnindex, NotPut
    <3> QED
      BY <1>4, <3>1, <3>2
  <2>6. CASE Index(c)
    <3>1. Left(job[c]) /\ job[c].todo # <<>> /\ Head(job[c].todo) = "index" /\ job'[c].todo = Tail(job[c].todo)
      BY <2>1, <2>6, IndexMoves DEF Index, GoesOn, Moves
    <3>2. Tail(job[c].todo) # <<"put">>
      BY <3>1, AtIndex, NotPut
    <3> QED
      BY <1>4, <3>1, <3>2
  <2>7. CASE Check(c) \/ Remove(c) \/ Clear(c) \/ UnindexAll(c) \/ Drop(c) \/ Has(c) \/ Create(c) \/ Ensure(c) \/ Load(c)
    BY <2>0, <2>1, <2>7, AtCheck, AtRemove, AtClear, AtUnindexAll, AtDrop, AtHas, AtCreate, AtCreateOrKeep, AtEnsure, AtLoad
       DEF Check, Remove, Clear, UnindexAll, Drop, Has, Create, Ensure, Load
  <2> QED
    BY <2>2, <2>3, <2>4, <2>5, <2>6, <2>7 DEF Statement
<1> QED
  BY <1>1, <1>2, <1>3, <1>4 DEF FoundStays, Idle

LEMMA NextFound ==
  ASSUME TypeInv, FoundStays, [Next]_vars
  PROVE  FoundStays'
<1>1. CASE UNCHANGED vars
  BY <1>1, FoundKeeps DEF vars, Idle
<1>2. ASSUME NEW p \in Processes, Crash(p) \/ DispatcherEnds(p)
      PROVE  FoundStays'
  BY <1>2, FoundKeeps DEF Crash, DispatcherEnds, database, Idle
<1>3. ASSUME NEW c \in Callers, Open(c)
      PROVE  FoundStays'
  <2> DEFINE j == [NewJob("open", AnyId, NoValue) EXCEPT !.state = "running"]
  <2>1. j.op = "open"
    BY DEF NewJob
  <2> HIDE DEF j
  <2>2. job' = [job EXCEPT ![c] = j] /\ UNCHANGED <<backend, home, records>> /\ job \in [Callers -> Job \cup {NoCall}]
    BY <1>3 DEF Open, j, database, TypeInv, TypeOK
  <2> QED
    BY <2>1, <2>2, FoundKeeps DEF Idle
<1>4. ASSUME NEW c \in Callers, Call(c)
      PROVE  FoundStays'
  <2>1. PICK op \in Ops, i \in Ids, v \in Values : job' = [job EXCEPT ![c] = NewJob(op, i, v)]
    BY <1>4 DEF Call
  <2> DEFINE j == NewJob(op, i, v)
  <2>2. j.op = op /\ j.todo = Plan(op)
    BY DEF NewJob
  <2>3. op = "update" => j.todo # <<"put">>
    BY <2>2, NotPut DEF Plan, TypeInv, TypeOK, SqliteUpdate, PgUpdate, QdrantUpdate, ChromaUpdate, MilvusUpdate
  <2> HIDE DEF j
  <2>4. job' = [job EXCEPT ![c] = j] /\ UNCHANGED <<backend, home, records>> /\ job \in [Callers -> Job \cup {NoCall}]
    BY <1>4, <2>1 DEF Call, j, database, TypeInv, TypeOK
  <2> QED
    BY <2>2, <2>3, <2>4, FoundKeeps DEF Idle
<1>5. ASSUME NEW c \in Callers, Run(c)
      PROVE  FoundStays'
  BY <1>5, RunJobs, FoundKeeps DEF Run, database, Idle
<1>6. ASSUME NEW c \in Callers, Return(c) \/ Fail(c)
      PROVE  FoundStays'
  <2>1. job' = [job EXCEPT ![c] = NoCall] /\ UNCHANGED <<backend, home, records>> /\ job \in [Callers -> Job \cup {NoCall}]
    BY <1>6 DEF Return, Fail, Ends, database, TypeInv, TypeOK
  <2> QED
    BY <2>1, FoundKeeps DEF Idle
<1> QED
  BY <1>1, <1>2, <1>3, <1>4, <1>5, <1>6, FoundStatement DEF Next, Work

LEMMA InitFound == Init => FoundStays
BY DEF Init, FoundStays, Idle

-----------------------------------------------------------------------------
(* The calls as their callers see them.                                    *)

Seen(j) == [op |-> j.op, id |-> j.id, value |-> j.value, answer |-> j.answer]

LEMMA View ==
  ASSUME TypeInv, NEW c \in Callers
  PROVE  /\ (Idle(c) \/ job[c].op = "open") => CallView[c] = NoCall
         /\ (~Idle(c) /\ job[c].op # "open") =>
              CallView[c] = Seen(job[c]) /\ CallView[c] \in Contract!Call /\ CallView[c] # NoCall
<1>1. (Idle(c) \/ job[c].op = "open") => CallView[c] = NoCall
  BY DEF CallView
<1>2. ASSUME ~Idle(c), job[c].op # "open"
      PROVE  CallView[c] = Seen(job[c]) /\ CallView[c] \in Contract!Call /\ CallView[c] # NoCall
  <2>1. CallView[c] = Seen(job[c])
    BY <1>2 DEF CallView, Seen
  <2>2. Seen(job[c]) \in Contract!Call
    BY <1>2, JobType DEF Seen, Contract!Call, Job, Ops
  <2> QED
    BY <2>1, <2>2
<1> QED
  BY <1>1, <1>2

\* A call of a store that is being opened is not one of the contract.
LEMMA OpenUnseen ==
  ASSUME TypeInv, NEW c \in Callers, NEW t, NEW a, GoesOn(c, t, a), job[c].op = "open"
  PROVE  CallView' = CallView
BY DEF CallView, GoesOn, Moves, Running, Idle

\* A call that goes on without an answer is still the same to its caller.
LEMMA NoAnswerUnseen ==
  ASSUME TypeInv, NEW c \in Callers, NEW t, GoesOn(c, t, job[c].answer)
  PROVE  CallView' = CallView
BY DEF CallView, GoesOn, Moves, Running, Idle

LEMMA AnswerSeen ==
  ASSUME TypeInv, NEW c \in Callers, NEW t, NEW a, GoesOn(c, t, a), job[c].op # "open"
  PROVE  /\ CallView' = [CallView EXCEPT ![c].answer = a]
         /\ CallView[c] # NoCall
         /\ CallView[c].op = job[c].op /\ CallView[c].id = job[c].id
         /\ CallView[c].value = job[c].value /\ CallView[c].answer = job[c].answer
<1>1. /\ job'[c] # NoCall /\ job[c] # NoCall /\ \A d \in Callers \ {c} : job'[d] = job[d]
      /\ Seen(job'[c]) = [Seen(job[c]) EXCEPT !.answer = a]
      /\ job'[c].op # "open"
  BY DEF GoesOn, Moves, Running, Idle, Seen
<1>2. CallView[c] = Seen(job[c]) /\ CallView[c] # NoCall
  BY <1>1, View DEF Idle
<1>3. CallView'[c] = Seen(job'[c])
  BY <1>1 DEF CallView, Seen, Idle
<1>4. \A d \in Callers \ {c} : CallView'[d] = CallView[d]
  BY <1>1 DEF CallView, Idle
<1> DEFINE s == [Seen(job[c]) EXCEPT !.answer = a]
<1>5. CallView' = [CallView EXCEPT ![c] = s]
  <2>1. CallView'[c] = s
    BY <1>1, <1>3
  <2> HIDE DEF s
  <2>2. CallView' = [d \in Callers |-> CallView'[d]] /\ CallView = [d \in Callers |-> CallView[d]]
    BY DEF CallView
  <2> QED
    BY <1>4, <2>1, <2>2
<1>6. CallView' = [CallView EXCEPT ![c].answer = a]
  BY <1>2, <1>5
<1> QED
  BY <1>2, <1>6 DEF Seen

\* The call of c takes effect.
LEMMA TakesEffect ==
  ASSUME TypeInv, NEW c \in Callers, NEW t, NEW a, GoesOn(c, t, a),
         job[c].op # "open", job[c].answer = "none",
         UNCHANGED <<backend, home>>
  PROVE  Contract!Pending(c, job[c].op) /\ Contract!Effect(c, a, records')
BY AnswerSeen, SameRevivals DEF Contract!Pending, Contract!Effect

\* The calls of some callers end.
LEMMA EndsSeen ==
  ASSUME TypeInv, NEW c \in Callers, Ends(c), UNCHANGED <<backend, home, records>>
  PROVE  Contract!Return(c) \/ UNCHANGED <<records, CallView, Revivals>>
<1>1. job'[c] = NoCall /\ \A d \in Callers \ {c} : job'[d] = job[d]
  BY DEF Ends, TypeInv, TypeOK
<1>2. CallView' = [CallView EXCEPT ![c] = NoCall]
  <2>1. CallView'[c] = NoCall /\ \A d \in Callers \ {c} : CallView'[d] = CallView[d]
    BY <1>1 DEF CallView, Idle
  <2>2. CallView' = [d \in Callers |-> CallView'[d]] /\ CallView = [d \in Callers |-> CallView[d]]
    BY DEF CallView
  <2> QED
    BY <2>1, <2>2
<1>3. CASE CallView[c] = NoCall
  <2>1. CallView = [d \in Callers |-> CallView[d]]
    BY DEF CallView
  <2> QED
    BY <1>2, <1>3, <2>1, SameRevivals
<1>4. CASE CallView[c] # NoCall
  BY <1>2, <1>4, SameRevivals DEF Contract!Return
<1> QED
  BY <1>3, <1>4

-----------------------------------------------------------------------------
(* Steps.                                                                  *)

LEMMA PutMaps ==
  ASSUME TypeInv, FoundStays, NEW c \in Callers, Put(c)
  PROVE  Contract!Insert(c) \/ Contract!Update(c)
<1>1. Step(c, "put") /\ Left(job[c]) /\ job[c].todo # <<>> /\ Head(job[c].todo) = "put"
  BY StepTail DEF Put
<1>2. /\ job[c].op \in {"insert", "update"} /\ job[c].answer = "none"
      /\ job[c].op = "update" => job[c].todo = <<"put">>
  BY <1>1, AtPut
<1>3. GoesOn(c, Tail(job[c].todo), "ok")
  BY PutMoves
<1>4. Contract!Pending(c, job[c].op) /\ Contract!Effect(c, "ok", records')
  BY <1>2, <1>3, TakesEffect DEF Put
<1>5. CallView[c].id = job[c].id /\ CallView[c].value = job[c].value
  BY <1>2, <1>3, AnswerSeen
<1>6. records' = [records EXCEPT ![CallView[c].id] = CallView[c].value]
  BY <1>5 DEF Put
<1>7. job[c].op = "update" => records[CallView[c].id] # Nothing \/ Revivals
  BY <1>2, <1>3, <1>5 DEF FoundStays, GoesOn, Running
<1> QED
  BY <1>2, <1>4, <1>6, <1>7 DEF Contract!Insert, Contract!Update

LEMMA ChangeMaps ==
  ASSUME TypeInv, NEW c \in Callers, Change(c)
  PROVE  Contract!Update(c) \/ Contract!UpdateMissing(c)
<1>1. Step(c, "change") /\ Left(job[c]) /\ job[c].todo # <<>> /\ Head(job[c].todo) = "change"
  BY StepTail DEF Change
<1>2. job[c].op = "update" /\ job[c].answer = "none" /\ UNCHANGED <<backend, home>>
  BY <1>1, AtChange DEF Change
<1>3. CASE job[c].id \in Live
  <2>1. GoesOn(c, Tail(job[c].todo), "ok")
    BY <1>3, ChangeMoves
  <2>2. CallView[c].id = job[c].id /\ CallView[c].value = job[c].value
    BY <1>2, <2>1, AnswerSeen
  <2>3. records' = [records EXCEPT ![CallView[c].id] = CallView[c].value]
    BY <1>3, <2>2 DEF Change
  <2> QED
    BY <1>2, <1>3, <2>1, <2>2, <2>3, TakesEffect DEF Contract!Update, Live
<1>4. CASE job[c].id \notin Live
  <2>1. GoesOn(c, <<>>, "missing")
    BY <1>4, ChangeMoves
  <2>2. CallView[c].id = job[c].id /\ job[c].id \in Ids
    BY <1>2, <2>1, AnswerSeen, JobType DEF GoesOn, Running
  <2>3. records' = records
    BY <1>4 DEF Change
  <2> QED
    BY <1>2, <1>4, <2>1, <2>2, <2>3, TakesEffect DEF Contract!UpdateMissing, Live
<1> QED
  BY <1>3, <1>4

LEMMA FindMaps ==
  ASSUME TypeInv, NEW c \in Callers, Find(c)
  PROVE  Contract!UpdateMissing(c) \/ UNCHANGED <<records, CallView, Revivals>>
<1>1. Step(c, "find") /\ Left(job[c]) /\ job[c].todo # <<>> /\ Head(job[c].todo) = "find"
  BY StepTail DEF Find
<1>2. job[c].op = "update" /\ job[c].answer = "none" /\ UNCHANGED <<backend, home, records>>
  BY <1>1, AtFind DEF Find, database
<1>3. CASE job[c].id \in Live
  BY <1>2, <1>3, FindMoves, NoAnswerUnseen, SameRevivals
<1>4. CASE job[c].id \notin Live
  <2>1. GoesOn(c, <<>>, "missing")
    BY <1>4, FindMoves
  <2>2. CallView[c].id = job[c].id /\ job[c].id \in Ids
    BY <1>2, <2>1, AnswerSeen, JobType DEF GoesOn, Running
  <2> QED
    BY <1>2, <1>4, <2>1, <2>2, TakesEffect DEF Contract!UpdateMissing, Live
<1> QED
  BY <1>3, <1>4

LEMMA RemoveMaps ==
  ASSUME TypeInv, NEW c \in Callers, Remove(c)
  PROVE  Contract!Delete(c)
<1>1. Step(c, "remove") /\ Left(job[c]) /\ job[c].todo # <<>> /\ Head(job[c].todo) = "remove"
  BY StepTail DEF Remove
<1>2. job[c].op = "delete" /\ job[c].answer = "none" /\ UNCHANGED <<backend, home>>
  BY <1>1, AtRemove DEF Remove
<1>3. GoesOn(c, Tail(job[c].todo), "ok")
  BY RemoveMoves
<1>4. CallView[c].id = job[c].id
  BY <1>2, <1>3, AnswerSeen
<1>5. records' = [records EXCEPT ![CallView[c].id] = Nothing]
  BY <1>4 DEF Remove
<1> QED
  BY <1>2, <1>3, <1>5, TakesEffect DEF Contract!Delete

LEMMA ResetMaps ==
  ASSUME TypeInv, NEW c \in Callers, Clear(c) \/ Drop(c)
  PROVE  Contract!Reset(c)
<1>1. PICK s \in {"clear", "drop"} :
        Step(c, s) /\ Left(job[c]) /\ job[c].todo # <<>> /\ Head(job[c].todo) = s
  BY StepTail DEF Clear, Drop
<1>2. /\ job[c].op = "reset" /\ job[c].answer = "none"
      /\ UNCHANGED <<backend, home>> /\ records' = [i \in Ids |-> Nothing]
  BY <1>1, AtClear, AtDrop DEF Clear, Drop
<1>3. GoesOn(c, Tail(job[c].todo), "ok")
  BY ClearMoves, DropMoves
<1> QED
  BY <1>2, <1>3, TakesEffect DEF Contract!Reset

\* The other statements go unseen: what is known of the answer stays, or the
\* check of sqlite refuses the record and the call returns.
LEMMA OtherMaps ==
  ASSUME TypeInv, NEW c \in Callers,
         \/ Check(c) \/ Unindex(c) \/ Index(c) \/ UnindexAll(c)
         \/ Has(c) \/ Create(c) \/ Ensure(c) \/ Load(c)
  PROVE  Contract!Return(c) \/ UNCHANGED <<records, CallView, Revivals>>
<1>1. UNCHANGED <<backend, home, records>>
  BY DEF Check, Unindex, Index, UnindexAll, Has, Create, Ensure, Load, database
<1>2. Ends(c) \/ \E t : GoesOn(c, t, job[c].answer)
  BY CheckMoves, UnindexMoves, IndexMoves, UnindexAllMoves, HasMoves, CreateMoves, EnsureMoves, LoadMoves
<1> QED
  BY <1>1, <1>2, EndsSeen, NoAnswerUnseen, SameRevivals

LEMMA StatementMaps ==
  ASSUME TypeInv, FoundStays, NEW c \in Callers, Statement(c)
  PROVE  Contract!Next \/ UNCHANGED <<records, CallView, Revivals>>
BY PutMaps, ChangeMaps, FindMaps, RemoveMaps, ResetMaps, OtherMaps DEF Statement, Contract!Next

LEMMA OpenMaps ==
  ASSUME TypeInv, NEW c \in Callers, Open(c)
  PROVE  UNCHANGED <<records, CallView, Revivals>>
<1> DEFINE j == [NewJob("open", AnyId, NoValue) EXCEPT !.state = "running"]
<1>1. j.op = "open"
  BY DEF NewJob
<1> HIDE DEF j
<1>2. /\ job' = [job EXCEPT ![c] = j] /\ Idle(c) /\ UNCHANGED <<backend, home, records>>
      /\ job \in [Callers -> Job \cup {NoCall}]
  BY DEF Open, j, database, TypeInv, TypeOK
<1>3. job'[c] = j /\ \A d \in Callers \ {c} : job'[d] = job[d]
  BY <1>2
<1>4. \A d \in Callers : CallView'[d] = CallView[d]
  BY <1>1, <1>2, <1>3 DEF CallView, Idle
<1>5. CallView' = [d \in Callers |-> CallView'[d]] /\ CallView = [d \in Callers |-> CallView[d]]
  BY DEF CallView
<1>6. CallView' = CallView
  BY <1>4, <1>5
<1> QED
  BY <1>2, <1>6, SameRevivals

LEMMA CallMaps ==
  ASSUME TypeInv, NEW c \in Callers, Call(c)
  PROVE  Contract!Begin(c)
<1>1. PICK op \in Ops, i \in Ids, v \in Values : job' = [job EXCEPT ![c] = NewJob(op, i, v)]
  BY DEF Call
<1> DEFINE j == NewJob(op, i, v)
           new == [op |-> op, id |-> i, value |-> v, answer |-> "none"]
<1>2. j \in Job /\ j.op # "open" /\ Seen(j) = new
  BY NewJobType DEF NewJob, Seen, Ops, TypeInv, TypeOK
<1>3. new \in Contract!Call /\ new.answer = "none"
  BY DEF Contract!Call, Ops
<1> HIDE DEF j, new
<1>4. /\ job' = [job EXCEPT ![c] = j] /\ Idle(c) /\ UNCHANGED <<backend, home, records>>
      /\ job \in [Callers -> Job \cup {NoCall}]
  BY <1>1 DEF Call, j, database, TypeInv, TypeOK
<1>5. job'[c] = j /\ \A d \in Callers \ {c} : job'[d] = job[d]
  BY <1>4
<1>6. CallView[c] = NoCall
  BY <1>4, View
<1>7. CallView'[c] = new /\ \A d \in Callers \ {c} : CallView'[d] = CallView[d]
  BY <1>2, <1>5 DEF CallView, Idle, Seen
<1>8. CallView' = [d \in Callers |-> CallView'[d]] /\ CallView = [d \in Callers |-> CallView[d]]
  BY DEF CallView
<1>9. CallView' = [CallView EXCEPT ![c] = new]
  BY <1>7, <1>8
<1> QED
  BY <1>3, <1>4, <1>6, <1>9, SameRevivals DEF Contract!Begin

LEMMA RunMaps ==
  ASSUME TypeInv, NEW c \in Callers, Run(c)
  PROVE  UNCHANGED <<records, CallView, Revivals>>
<1>1. UNCHANGED <<backend, home, records>>
  BY DEF Run, database
<1>2. \A d \in Callers : CallView'[d] = CallView[d]
  BY RunJobs DEF CallView, Idle
<1>3. CallView' = [d \in Callers |-> CallView'[d]] /\ CallView = [d \in Callers |-> CallView[d]]
  BY DEF CallView
<1>4. CallView' = CallView
  BY <1>2, <1>3
<1> QED
  BY <1>1, <1>4, SameRevivals

LEMMA StopMaps ==
  ASSUME TypeInv, NEW p \in Processes, Crash(p) \/ DispatcherEnds(p)
  PROVE  Contract!Stop
<1> DEFINE gone == {c \in Callers : home[c] = p}
<1>1. /\ UNCHANGED <<backend, home, records>>
      /\ job' = [c \in Callers |-> IF home[c] = p THEN NoCall ELSE job[c]]
  BY DEF Crash, DispatcherEnds, database
<1>2. CallView' = [c \in Callers |-> IF c \in gone THEN NoCall ELSE CallView[c]]
  BY <1>1 DEF CallView, Idle
<1> QED
  BY <1>1, <1>2, SameRevivals DEF Contract!Stop

-----------------------------------------------------------------------------
LEMMA InitMaps == Init => Contract!Init
BY DEF Init, Contract!Init, CallView, Idle, Revivals

\* Every store outside the program keeps the contract of the trait VectorStore,
\* however many callers and processes there are, whichever statement fails and
\* whenever a process is killed: each call takes effect at one instant between
\* its beginning and its answer, or not at all.  Only an update of a store that
\* looks first can bring back what another process has deleted.
THEOREM StoresKeepContract == Spec => ContractHolds
<1> DEFINE Inv == TypeInv /\ FoundStays
<1>1. Init => Inv
  BY InitType, InitFound
<1>2. Inv /\ [Next]_vars => Inv'
  BY NextType, NextFound
<1>3. Inv /\ [Next]_vars => [Contract!Next]_<<records, CallView, Revivals>>
  <2> SUFFICES ASSUME TypeInv, FoundStays, [Next]_vars
               PROVE  Contract!Next \/ UNCHANGED <<records, CallView, Revivals>>
    OBVIOUS
  <2>1. CASE UNCHANGED vars
    <3>1. CallView' = CallView
      BY <2>1 DEF vars, CallView, Idle
    <3> QED
      BY <2>1, <3>1, SameRevivals DEF vars
  <2>2. ASSUME NEW p \in Processes, Crash(p) \/ DispatcherEnds(p)
        PROVE  Contract!Next
    BY <2>2, StopMaps DEF Contract!Next
  <2>3. ASSUME NEW c \in Callers, Open(c) \/ Call(c) \/ Run(c)
        PROVE  Contract!Next \/ UNCHANGED <<records, CallView, Revivals>>
    BY <2>3, OpenMaps, CallMaps, RunMaps DEF Contract!Next
  <2>4. ASSUME NEW c \in Callers, Return(c) \/ Fail(c)
        PROVE  Contract!Next \/ UNCHANGED <<records, CallView, Revivals>>
    <3>1. Ends(c) /\ UNCHANGED <<backend, home, records>>
      BY <2>4 DEF Return, Fail, database
    <3> QED
      BY <3>1, EndsSeen DEF Contract!Next
  <2> QED
    BY <2>1, <2>2, <2>3, <2>4, StatementMaps DEF Next, Work
<1> QED
  BY <1>1, <1>2, <1>3, InitMaps, PTL DEF Spec, ContractHolds, Contract!Spec
=============================================================================
