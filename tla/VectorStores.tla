---------------------------- MODULE VectorStores ----------------------------
(***************************************************************************)
(* The stores that keep their records outside the program.  A call of the  *)
(* trait is a few statements or requests to the database, each of them     *)
(* atomic there, with nothing that holds them together:                    *)
(*                                                                         *)
(*   sqlite    a connection behind a mutex; a table of records and one of  *)
(*             their words, kept in step by hand                           *)
(*   postgres  a pool of connections; one statement for each call          *)
(*   qdrant, chroma, milvus                                                *)
(*             a dispatcher thread takes commands from a queue, one after  *)
(*             the other, and answers each on a channel of its own         *)
(*                                                                         *)
(* Processes can share a database; the threads of a process share a store. *)
(* A process can be killed and a statement can fail at any point.  Calls   *)
(* that only read are left out.                                            *)
(***************************************************************************)
EXTENDS Naturals, Sequences, FiniteSets

CONSTANTS
  Backends,   \* the stores to check; a behaviour has one
  Callers,    \* what calls the trait
  Daemon,     \* the process of all callers, if they share one
  Ids,
  Values,     \* what a record can hold: its text and the length of its vector
  NoText,     \* the text of a record without one
  Fixed,      \* the length that other stores than sqlite are opened with
  MaxCalls,   \* Bounds the model: the calls of a behaviour
  Nothing, NoCall

ASSUME BackendsAssumption == Backends \subseteq {"sqlite", "postgres", "qdrant", "chroma", "milvus"}
ASSUME CallersAssumption == Daemon \notin Callers /\ IsFiniteSet(Callers) /\ Callers # {}
ASSUME RecordsAssumption ==
  /\ \A v \in Values : DOMAIN v = {"text", "dimension"}
  /\ [text |-> NoText, dimension |-> Fixed] \in Values
  /\ Ids # {} /\ Nothing \notin Values /\ MaxCalls \in Nat

Texts == {v.text : v \in Values}

Processes == Callers \cup {Daemon}

VARIABLES
  backend,
  home,      \* the process of each caller
  records,   \* the database: the record of each id, or Nothing
  words,     \* sqlite: how many rows of the table of words have this id and text
  exists,    \* the table or collection is there
  attached,  \* chroma: the processes whose handle is of this collection;
             \* milvus: those that can read it, since it is loaded
  phase,     \* of each process: "down", "opening", "up", or "dead" when its
             \* dispatcher has ended
  queue,     \* the commands of each process that wait for its dispatcher
  job,       \* the call of each caller, with the statements to run
  calls,     \* how many calls have begun
  torn,      \* history variable: the ids for which the two tables of sqlite may differ
  mixed,     \* history variable: records of several dimensions may be there
  cut        \* history variable: a reset has ended between its two requests

vars == <<backend, home, records, words, exists, attached, phase, queue, job, calls, torn, mixed, cut>>
database == <<records, words, exists, attached>>
history == <<torn, mixed, cut>>

-----------------------------------------------------------------------------
(* The statements of each call, in their order.                            *)

Statements ==
  {"ensure", "has", "create", "createOrKeep", "load", "check", "put", "find", "change",
   "remove", "clear", "drop", "unindex", "index", "unindexAll"}

\* sqlite.
SqliteOpen == <<"ensure">>
\* Faulty variants: without the check, or without taking the old rows away.
SqliteInsertUnchecked == <<"put", "unindex", "index">>
SqliteInsertAgain == <<"check", "put", "index">>

SqliteInsert == <<"check", "put", "unindex", "index">>
SqliteUpdate == <<"change", "unindex", "index">>
\* Faulty variant: the row of words stays.
SqliteDeleteRecord == <<"remove">>

SqliteDelete == <<"remove", "unindex">>
SqliteReset == <<"clear", "unindexAll">>

\* postgres.
PgOpen == <<"ensure">>
PgInsert == <<"put">>
\* Faulty variant: upserts, as insert does.
PgUpsert == <<"put">>

PgUpdate == <<"change">>
PgDelete == <<"remove">>
PgReset == <<"clear">>

\* qdrant.
QdrantOpen == <<"has", "createOrKeep">>
QdrantInsert == <<"put">>
QdrantUpdate == <<"find", "put">>
QdrantDelete == <<"remove">>
QdrantReset == <<"drop", "create">>

\* chroma.
ChromaOpen == <<"ensure">>
ChromaInsert == <<"put">>
ChromaUpdate == <<"find", "put">>
ChromaDelete == <<"remove">>
ChromaReset == <<"drop", "ensure">>

\* milvus.
MilvusOpen == <<"has", "create", "load">>
MilvusInsert == <<"put">>
MilvusUpdate == <<"find", "put">>
MilvusDelete == <<"remove">>
\* Faulty variant: the collection is made again by the next open only.
MilvusDrop == <<"drop">>

MilvusReset == <<"drop", "has", "create", "load">>

Plan(op) ==
  CASE backend = "sqlite" ->
         [open |-> SqliteOpen, insert |-> SqliteInsert, update |-> SqliteUpdate,
          delete |-> SqliteDelete, reset |-> SqliteReset][op]
    [] backend = "postgres" ->
         [open |-> PgOpen, insert |-> PgInsert, update |-> PgUpdate,
          delete |-> PgDelete, reset |-> PgReset][op]
    [] backend = "qdrant" ->
         [open |-> QdrantOpen, insert |-> QdrantInsert, update |-> QdrantUpdate,
          delete |-> QdrantDelete, reset |-> QdrantReset][op]
    [] backend = "chroma" ->
         [open |-> ChromaOpen, insert |-> ChromaInsert, update |-> ChromaUpdate,
          delete |-> ChromaDelete, reset |-> ChromaReset][op]
    [] backend = "milvus" ->
         [open |-> MilvusOpen, insert |-> MilvusInsert, update |-> MilvusUpdate,
          delete |-> MilvusDelete, reset |-> MilvusReset][op]

Dispatched == backend \in {"qdrant", "chroma", "milvus"}

-----------------------------------------------------------------------------
Ops == {"insert", "update", "delete", "reset"}

Job ==
  [op     : Ops \cup {"open"},
   id     : Ids, value : Values,
   state  : {"queued", "running"},
   todo   : Seq(Statements),             \* the statements that are left
   answer : {"none", "ok", "missing"},   \* known as soon as the change is made
   alone  : BOOLEAN]                     \* no other process has interfered

NoValue == [text |-> NoText, dimension |-> Fixed]
AnyId == CHOOSE i \in Ids : TRUE

NewJob(op, i, v) ==
  [op |-> op, id |-> i, value |-> v, state |-> "queued", todo |-> Plan(op), answer |-> "none", alone |-> TRUE]

\* The ids that a call changes.
Touched(c) == IF job[c].op = "reset" THEN Ids ELSE {job[c].id}

Idle(c) == job[c] = NoCall
Running(c) == ~Idle(c) /\ job[c].state = "running"
Step(c, statement) == Running(c) /\ job[c].todo # <<>> /\ Head(job[c].todo) = statement

Done(c) == job' = [job EXCEPT ![c].todo = Tail(@)]
DoneAs(c, answer) == job' = [job EXCEPT ![c].todo = Tail(@), ![c].answer = answer]
Skip(c) == job' = [job EXCEPT ![c].todo = Tail(Tail(@))]

Ends(c) == job' = [job EXCEPT ![c] = NoCall]

\* A call of another process that is under way and changes the same ids.
Others(c) ==
  {d \in Callers \ {c} : Running(d) /\ home[d] # home[c] /\ job[d].op # "open"
                          /\ Touched(d) \cap Touched(c) # {}}

\* A call ends early: what it leaves behind, after its first statement.
Broken(gone) ==
  /\ torn' = torn \cup UNION {Touched(c) : c \in {d \in gone : job[d].answer = "ok"}}
  /\ cut' = (cut \/ \E c \in gone : job[c].op = "reset" /\ job[c].answer = "ok" /\ ~exists)

NoRows == [t \in Texts \ {NoText} |-> 0]

\* The rows of the table of words that a record should have.
RowsFor(record) ==
  IF record = Nothing THEN NoRows ELSE [t \in DOMAIN NoRows |-> IF record.text = t THEN 1 ELSE 0]

\* Earlier runs have left any records, of one dimension.
Init ==
  /\ backend \in Backends
  /\ home \in {[c \in Callers |-> Daemon], [c \in Callers |-> c]}
  /\ \/ exists = FALSE /\ records = [i \in Ids |-> Nothing]
     \/ /\ exists = TRUE
        /\ records \in [Ids -> {v \in Values : v.dimension = Fixed} \cup {Nothing}]
  /\ words = [i \in Ids |-> IF backend = "sqlite" THEN RowsFor(records[i]) ELSE NoRows]
  /\ attached = {}
  /\ phase = [p \in Processes |-> "down"]
  /\ queue = [p \in Processes |-> <<>>]
  /\ job = [c \in Callers |-> NoCall]
  /\ calls = 0
  /\ torn = {} /\ mixed = FALSE /\ cut = FALSE

-----------------------------------------------------------------------------
(* Processes and calls.                                                    *)

\* The store is opened; a dispatcher reports when it has found or made its
\* collection, and open waits for this.
Open(c) ==
  /\ phase[home[c]] = "down" /\ Idle(c)
  /\ phase' = [phase EXCEPT ![home[c]] = "opening"]
  /\ job' = [job EXCEPT ![c] = [NewJob("open", AnyId, NoValue) EXCEPT !.state = "running"]]
  /\ UNCHANGED <<backend, home, database, queue, calls, history>>

\* A process is killed, or ends.
Crash(p) ==
  /\ phase[p] # "down"
  /\ phase' = [phase EXCEPT ![p] = "down"]
  /\ queue' = [queue EXCEPT ![p] = <<>>]
  /\ job' = [c \in Callers |-> IF home[c] = p THEN NoCall ELSE job[c]]
  /\ attached' = IF backend = "chroma" THEN attached \ {p} ELSE attached
  /\ Broken({c \in Callers : home[c] = p /\ Running(c)})
  /\ UNCHANGED <<backend, home, records, words, exists, calls, mixed>>

\* Faulty variant: the calls that wait get no answer.
DispatcherEndsSilently(p) ==
  /\ Dispatched /\ phase[p] = "up"
  /\ phase' = [phase EXCEPT ![p] = "dead"]
  /\ queue' = [queue EXCEPT ![p] = <<>>]
  /\ UNCHANGED <<backend, home, database, job, calls, history>>

\* The dispatcher thread ends, by a panic: the calls that wait get an error,
\* and so does every later one.
DispatcherEnds(p) ==
  /\ Dispatched /\ phase[p] = "up"
  /\ phase' = [phase EXCEPT ![p] = "dead"]
  /\ queue' = [queue EXCEPT ![p] = <<>>]
  /\ job' = [c \in Callers |-> IF home[c] = p THEN NoCall ELSE job[c]]
  /\ Broken({c \in Callers : home[c] = p /\ Running(c)})
  /\ UNCHANGED <<backend, home, database, calls, mixed>>

\* Stores with a fixed dimension refuse another one before anything else.
Allowed(op, v) == backend = "sqlite" \/ op \notin {"insert", "update"} \/ v.dimension = Fixed

Call(c) ==
  /\ phase[home[c]] = "up" /\ Idle(c) /\ calls < MaxCalls
  /\ \E op \in Ops, i \in Ids, v \in Values :
       /\ Allowed(op, v)
       /\ op \in {"delete", "reset"} => v = NoValue
       /\ op = "reset" => i = AnyId
       /\ job' = [job EXCEPT ![c] = NewJob(op, i, v)]
  /\ queue' = IF Dispatched THEN [queue EXCEPT ![home[c]] = Append(@, c)] ELSE queue
  /\ calls' = calls + 1
  /\ UNCHANGED <<backend, home, database, phase, history>>

\* A mutex lets one caller in, a dispatcher takes the first command, and the
\* pool has a connection for every caller.
CanRun(c) ==
  LET p == home[c] IN
  /\ backend # "postgres" => \A d \in Callers : home[d] = p => ~Running(d)
  /\ Dispatched => queue[p] # <<>> /\ Head(queue[p]) = c

Run(c) ==
  /\ ~Idle(c) /\ job[c].state = "queued" /\ CanRun(c)
  /\ queue' = IF Dispatched THEN [queue EXCEPT ![home[c]] = Tail(@)] ELSE queue
  /\ job' = [d \in Callers |->
       IF d = c THEN [job[c] EXCEPT !.state = "running", !.alone = Others(c) = {}]
       ELSE IF d \in Others(c) THEN [job[d] EXCEPT !.alone = FALSE]
       ELSE job[d]]
  /\ torn' = torn \cup UNION {Touched(d) \cap Touched(c) : d \in Others(c)}
  /\ UNCHANGED <<backend, home, database, phase, calls, mixed, cut>>

\* All statements have run.
Return(c) ==
  /\ Running(c) /\ job[c].todo = <<>>
  /\ IF job[c].op = "open"
     THEN phase' = [phase EXCEPT ![home[c]] = "up"] /\ torn' = torn
     ELSE /\ phase' = phase
          /\ torn' = IF job[c].alone /\ job[c].answer = "ok" THEN torn \ Touched(c) ELSE torn
  /\ Ends(c)
  /\ UNCHANGED <<backend, home, database, queue, calls, mixed, cut>>

\* A statement fails, or its answer is lost: the call returns the error.  A
\* process that cannot open its store ends; chroma keeps its old handle when
\* the new one does not arrive.
Fail(c) ==
  /\ Running(c)
  /\ attached' = IF /\ backend = "chroma"
                    /\ job[c].op = "open" \/ (job[c].op = "reset" /\ job[c].answer = "ok")
                 THEN attached \ {home[c]} ELSE attached
  /\ phase' = IF job[c].op = "open" THEN [phase EXCEPT ![home[c]] = "down"] ELSE phase
  /\ Broken({c})
  /\ Ends(c)
  /\ UNCHANGED <<backend, home, records, words, exists, queue, calls, mixed>>

-----------------------------------------------------------------------------
(* Statements.                                                             *)

\* The statement finds its table or collection.
Reaches(c) == exists /\ (backend = "chroma" => home[c] \in attached)
Reads(c) == Reaches(c) /\ (backend = "milvus" => home[c] \in attached)

Live == {i \in Ids : records[i] # Nothing}

\* Any record that is there gives the dimension; without one, all will do.
Check(c) ==
  /\ Step(c, "check")
  /\ \/ Live = {} /\ Done(c)
     \/ /\ \E i \in Live : records[i].dimension = job[c].value.dimension
        /\ Done(c)
     \/ /\ \E i \in Live : records[i].dimension # job[c].value.dimension
        /\ Ends(c)
  /\ UNCHANGED <<backend, home, database, phase, queue, calls, history>>

MixedBy(c) == \E i \in Live \ {job[c].id} : records[i].dimension # job[c].value.dimension

\* INSERT ... ON CONFLICT, or upsert.
Put(c) ==
  /\ Step(c, "put") /\ Reaches(c)
  /\ records' = [records EXCEPT ![job[c].id] = job[c].value]
  /\ mixed' = (mixed \/ (MixedBy(c) /\ \E d \in Callers : home[d] # home[c]))
  /\ DoneAs(c, "ok")
  /\ UNCHANGED <<backend, home, words, exists, attached, phase, queue, calls, torn, cut>>

\* UPDATE: of no row if the record is missing.
Change(c) ==
  /\ Step(c, "change") /\ Reaches(c)
  /\ IF job[c].id \in Live
     THEN /\ records' = [records EXCEPT ![job[c].id] = job[c].value]
          /\ mixed' = (mixed \/ MixedBy(c))
          /\ DoneAs(c, "ok")
     ELSE /\ job' = [job EXCEPT ![c].todo = <<>>, ![c].answer = "missing"]
          /\ UNCHANGED <<records, mixed>>
  /\ UNCHANGED <<backend, home, words, exists, attached, phase, queue, calls, torn, cut>>

\* Remote stores look whether the record is there before they upsert it.
Find(c) ==
  /\ Step(c, "find") /\ Reads(c)
  /\ IF job[c].id \in Live
     THEN Done(c)
     ELSE job' = [job EXCEPT ![c].todo = <<>>, ![c].answer = "missing"]
  /\ UNCHANGED <<backend, home, database, phase, queue, calls, history>>

Remove(c) ==
  /\ Step(c, "remove") /\ Reaches(c)
  /\ records' = [records EXCEPT ![job[c].id] = Nothing]
  /\ DoneAs(c, "ok")
  /\ UNCHANGED <<backend, home, words, exists, attached, phase, queue, calls, history>>

Clear(c) ==
  /\ Step(c, "clear") /\ Reaches(c)
  /\ records' = [i \in Ids |-> Nothing]
  /\ DoneAs(c, "ok")
  /\ UNCHANGED <<backend, home, words, exists, attached, phase, queue, calls, history>>

\* sync_fts takes the rows of the id away ...
Unindex(c) ==
  /\ Step(c, "unindex")
  /\ words' = [words EXCEPT ![job[c].id] = NoRows]
  /\ Done(c)
  /\ UNCHANGED <<backend, home, records, exists, attached, phase, queue, calls, history>>

\* ... and adds one for the new text, if there is any.
Index(c) ==
  /\ Step(c, "index")
  /\ words' = IF job[c].value.text = NoText THEN words
              ELSE [words EXCEPT ![job[c].id][job[c].value.text] = @ + 1]
  /\ Done(c)
  /\ UNCHANGED <<backend, home, records, exists, attached, phase, queue, calls, history>>

UnindexAll(c) ==
  /\ Step(c, "unindexAll")
  /\ words' = [i \in Ids |-> NoRows]
  /\ Done(c)
  /\ UNCHANGED <<backend, home, records, exists, attached, phase, queue, calls, history>>

\* The collection goes, and every handle to it is stale.  Dropping what is
\* not there is an error in chroma only.
Drop(c) ==
  /\ Step(c, "drop") /\ (exists \/ backend # "chroma")
  /\ exists' = FALSE /\ attached' = {}
  /\ records' = [i \in Ids |-> Nothing]
  /\ DoneAs(c, "ok")
  /\ UNCHANGED <<backend, home, words, phase, queue, calls, history>>

\* A collection that is there needs no request to create it.
Has(c) ==
  /\ Step(c, "has")
  /\ IF exists THEN Skip(c) ELSE Done(c)
  /\ UNCHANGED <<backend, home, database, phase, queue, calls, history>>

\* create_collection: an error if another process was faster, unless the
\* code takes this for success.
Create(c) ==
  /\ \/ Step(c, "create") /\ ~exists
     \/ Step(c, "createOrKeep")
  /\ exists' = TRUE /\ cut' = FALSE
  /\ Done(c)
  /\ UNCHANGED <<backend, home, records, words, attached, phase, queue, calls, torn, mixed>>

\* CREATE ... IF NOT EXISTS, get_or_create_collection.
Ensure(c) ==
  /\ Step(c, "ensure")
  /\ exists' = TRUE /\ cut' = FALSE
  /\ attached' = attached \cup {home[c]}
  /\ Done(c)
  /\ UNCHANGED <<backend, home, records, words, phase, queue, calls, torn, mixed>>

\* load_collection, for all processes.
Load(c) ==
  /\ Step(c, "load") /\ exists
  /\ attached' = Processes
  /\ Done(c)
  /\ UNCHANGED <<backend, home, records, words, exists, phase, queue, calls, history>>

-----------------------------------------------------------------------------
Statement(c) ==
  Running(c) /\ (
  \/ Check(c) \/ Put(c) \/ Change(c) \/ Find(c) \/ Remove(c) \/ Clear(c)
  \/ Unindex(c) \/ Index(c) \/ UnindexAll(c)
  \/ Drop(c) \/ Has(c) \/ Create(c) \/ Ensure(c) \/ Load(c))

\* What goes on without the outside: a statement that cannot be run fails.
Work(c) == Run(c) \/ Statement(c) \/ Return(c) \/ Fail(c)

Next ==
  \/ \E p \in Processes : Crash(p) \/ DispatcherEnds(p)
  \/ \E c \in Callers : Open(c) \/ Call(c) \/ Work(c)

\* A dispatcher goes on with its commands, in the order of the queue.  The
\* mutex of sqlite lets anyone in who waits, so nothing is claimed for it.
Spec == Init /\ [][Next]_vars /\ \A c \in Callers : WF_vars(Dispatched /\ Work(c))

-----------------------------------------------------------------------------
(* Properties                                                              *)

\* Every variable has its type.  The calls of all callers together leave at most
\* one row of words each: whoever adds a row has taken the others away.
TypeOK ==
  /\ backend \in Backends /\ home \in [Callers -> Processes]
  /\ records \in [Ids -> Values \cup {Nothing}]
  /\ words \in [Ids -> [Texts \ {NoText} -> 0 .. Cardinality(Callers)]]
  /\ exists \in BOOLEAN /\ attached \subseteq Processes
  /\ phase \in [Processes -> {"down", "opening", "up", "dead"}]
  /\ queue \in [Processes -> Seq(Callers)]
  /\ job \in [Callers -> Job \cup {NoCall}]
  /\ calls \in 0 .. MaxCalls
  /\ torn \subseteq Ids /\ mixed \in BOOLEAN /\ cut \in BOOLEAN

\* In sqlite the table of words has exactly one row for each record that has
\* a text, and it is of this text: unless a call on the id was cut short or
\* met one of another process.  The next call that completes repairs it.
WordsFollowRecords ==
  \A i \in Ids :
    \/ backend # "sqlite" \/ i \in torn
    \/ \E c \in Callers : Running(c) /\ i \in Touched(c)
    \/ words[i] = RowsFor(records[i])

\* All records have one dimension, unless update has changed it, or an insert
\* came between the check and the insert of another process.
OneDimension ==
  \/ mixed
  \/ \A i, j \in Live : records[i].dimension = records[j].dimension

\* The collection of a store that is open is there, but for the time of a
\* reset and after one that was cut short.
CollectionExists ==
  \/ exists \/ cut
  \/ \A p \in Processes : phase[p] # "up"
  \/ \E c \in Callers : Running(c) /\ job[c].op = "reset" /\ job[c].answer = "ok"

\* The calls as their callers see them, of an open store.
CallView ==
  [c \in Callers |->
    IF Idle(c) THEN NoCall
    ELSE IF job[c].op = "open" THEN NoCall
    ELSE [op |-> job[c].op, id |-> job[c].id, value |-> job[c].value, answer |-> job[c].answer]]

\* An update brings back a deleted record only if it looks first, in a remote
\* store that processes share.
Revivals == Dispatched /\ \E c, d \in Callers : home[c] # home[d]

Contract == INSTANCE StoreContract WITH table <- records, call <- CallView, revivals <- Revivals

ASSUME NoCallAssumption == NoCall \notin Job /\ NoCall \notin Contract!Call

\* The calls of every store implement the contract of the trait.
ContractHolds == Contract!Spec

\* Every call to a store with a dispatcher returns, also if the dispatcher
\* ends, the process is killed or the database does not answer as it should.
CallsReturn == \A c \in Callers : (Dispatched /\ ~Idle(c)) ~> Idle(c)
=============================================================================
