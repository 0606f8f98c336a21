---------------------------- MODULE MemoryEngine ----------------------------
(***************************************************************************)
(* Memory (core/src/memory.rs) called by several threads at once.          *)
(*                                                                         *)
(* One call of a Memory method is a sequence of vector store calls and     *)
(* history updates.  The store serialises its own calls and the history    *)
(* has its own mutex, but no lock spans two of them, so the steps of       *)
(* different calls interleave.  Each action below is one store call, or    *)
(* one update under the history lock, with the local computation around    *)
(* it.                                                                     *)
(*                                                                         *)
(* A store call in Faults may fail without effect; if it is a write its    *)
(* effect may also take place before the error is returned (a lost reply,  *)
(* or the second statement of the SQLite store failing).                   *)
(***************************************************************************)
EXTENDS MemoryRecords

CONSTANTS
  Threads,   \* threads that run Memory methods
  Ops,       \* the methods that clients call: bounds the model
  Adders,    \* the threads whose clients call add
  MaxItems,  \* messages or facts of one add: bounds the model
  Faults     \* provider and store calls that may fail

ASSUME OpsAssumption ==
  Ops \subseteq {"add", "procedural", "update", "delete", "reset", "list"}
ASSUME AddersAssumption == Adders \subseteq Threads
ASSUME MaxItemsAssumption == MaxItems \in Nat
ASSUME FaultsAssumption ==
  Faults \subseteq {"embed", "insert", "search", "get", "update", "delete", "list"}

VARIABLES
  store,    \* the records of the vector store, NoRecord where there is none
  history,  \* the events recorded for each id
  nextId,   \* the next id that next_record_id returns
  origin,   \* history variable: the scope under which each id was inserted
  pc,       \* the next step of each thread, "idle" between calls
  job       \* the arguments and local variables of each thread's call

vars == <<store, history, nextId, origin, pc, job>>

-----------------------------------------------------------------------------
Labels ==
  {"idle", "dedup", "insert", "log", "linkList", "linkScan", "linkUpdate",
   "updStore", "delGet", "delStore", "delLog", "reset", "list"}

Events == {"Added", "Deleted"}

Job ==
  [op    : Ops \cup {"none"},
   query : Query,
   items : Seq(Contents),             \* what add still has to store
   link  : BOOLEAN,                   \* add links entities, procedural add does not
   mem   : Ids \cup {0},              \* the memory that add inserted last
   ents  : SUBSET Entities,           \* its entities that are not linked yet
   ent   : Entities \cup {NoValue},   \* the one being linked
   id    : Ids \cup {0},              \* the record being changed
   copy  : Record \cup {NoRecord},    \* what the call read and will write back
   logs  : BOOLEAN,                   \* delete saw a content
   todo  : SUBSET Ids,                \* listed ids that are not read yet
   seen  : SUBSET Ids,                \* all ids that reset listed
   out   : SUBSET Ids,                \* ids that list will return
   show  : BOOLEAN]                   \* show_expired

NoQuery == [tags |-> {}, meta |-> NoValue]

NoJob ==
  [op |-> "none", query |-> NoQuery, items |-> <<>>, link |-> FALSE, mem |-> 0,
   ents |-> {}, ent |-> NoValue, id |-> 0, copy |-> NoRecord, logs |-> FALSE,
   todo |-> {}, seen |-> {}, out |-> {}, show |-> FALSE]

Live == {i \in Ids : store[i] # NoRecord}

Allocated == {i \in Ids : i < nextId}

Init ==
  /\ store = [i \in Ids |-> NoRecord]
  /\ history = [i \in Ids |-> <<>>]
  /\ nextId = 1
  /\ origin = [i \in Ids |-> {}]
  /\ pc = [t \in Threads |-> "idle"]
  /\ job = [t \in Threads |-> NoJob]

-----------------------------------------------------------------------------
(* Control of one call.                                                    *)

At(t, label) == pc[t] = label

Goto(t, label, j) ==
  /\ pc' = [pc EXCEPT ![t] = label]
  /\ job' = [job EXCEPT ![t] = j]

Return(t) == Goto(t, "idle", NoJob)

Begin(t, op) == At(t, "idle") /\ op \in Ops

Log(i, event) == history' = [history EXCEPT ![i] = Append(@, event)]

Write(i, r) == store' = [store EXCEPT ![i] = r]

\* Insert a record under a fresh id.
InsertNew(r) ==
  /\ nextId \in Ids
  /\ Write(nextId, r)
  /\ origin' = [origin EXCEPT ![nextId] = r.tags]
  /\ nextId' = nextId + 1
  /\ UNCHANGED history

\* The effect of a write took place but the caller gets an error.
LostReply(t, call) == call \in Faults /\ Return(t)

-----------------------------------------------------------------------------
(* add                                                                     *)

Item(t) == Head(job[t].items)

AddBegin(t) ==
  /\ Begin(t, "add") /\ t \in Adders
  /\ \E tags \in Scopes, m \in Metas \cup {NoValue}, n \in 1 .. MaxItems :
     \E items \in [1 .. n -> Contents] :
       Goto(t, "dedup", [NoJob EXCEPT !.op = "add", !.query = [tags |-> tags, meta |-> m],
                                      !.items = items, !.link = TRUE])
  /\ UNCHANGED <<store, history, nextId, origin>>

\* Procedural memories are summarised into one record, which is neither
\* looked up nor linked.
ProceduralBegin(t) ==
  /\ Begin(t, "procedural") /\ t \in Adders
  /\ \E tags \in Scopes, c \in Contents :
       Goto(t, "insert", [NoJob EXCEPT !.op = "procedural",
                                       !.query = [tags |-> tags, meta |-> NoValue],
                                       !.items = <<c>>])
  /\ UNCHANGED <<store, history, nextId, origin>>

\* Faulty variant: only the first item of a batch is looked up.
NextItemUnchecked(t) ==
  IF Len(job[t].items) <= 1
  THEN Return(t)
  ELSE Goto(t, "insert", [NoJob EXCEPT !.op = job[t].op, !.query = job[t].query,
                                       !.items = Tail(job[t].items), !.link = TRUE])

\* Go on with the next message or fact, or return the ids.
NextItem(t) ==
  IF Len(job[t].items) <= 1
  THEN Return(t)
  ELSE Goto(t, "dedup", [NoJob EXCEPT !.op = job[t].op, !.query = job[t].query,
                                      !.items = Tail(job[t].items), !.link = TRUE])

\* Does the store hold the item within the scope already?
Known(t) ==
  \E i \in Live : Matches(job[t].query, store[i]) /\ store[i].content = Item(t)

\* A failed search counts as "not known".
AddDedup(t) ==
  /\ At(t, "dedup")
  /\ \/ Known(t) /\ NextItem(t)
     \/ (~Known(t) \/ "search" \in Faults) /\ Goto(t, "insert", job[t])
  /\ UNCHANGED <<store, history, nextId, origin>>

\* Faulty variant: the error of the insert is dropped.
AddInsertUnchecked(t) ==
  /\ At(t, "insert")
  /\ \/ InsertNew(MemoryRecord(job[t].query, Item(t)))
     \/ "insert" \in Faults /\ UNCHANGED <<store, history, nextId, origin>>
  /\ nextId \in Ids
  /\ Goto(t, "log", [job[t] EXCEPT !.mem = nextId])

AddInsert(t) ==
  /\ At(t, "insert")
  /\ InsertNew(MemoryRecord(job[t].query, Item(t)))
  /\ \/ Goto(t, "log", [job[t] EXCEPT !.mem = nextId])
     \/ LostReply(t, "insert")

AddLog(t) ==
  /\ At(t, "log")
  /\ Log(job[t].mem, "Added")
  /\ IF job[t].link /\ EntitiesOf[Item(t)] # {}
     THEN Goto(t, "linkList", [job[t] EXCEPT !.ents = EntitiesOf[Item(t)]])
     ELSE NextItem(t)
  /\ UNCHANGED <<store, nextId, origin>>

-----------------------------------------------------------------------------
(* link_entities: find or create the record of each entity of the new      *)
(* memory and add the memory to its links.                                 *)

NextEntity(t) ==
  IF job[t].ents = {job[t].ent}
  THEN NextItem(t)
  ELSE Goto(t, "linkList", [job[t] EXCEPT !.ents = @ \ {job[t].ent}, !.ent = NoValue, !.id = 0,
                                          !.copy = NoRecord, !.todo = {}])

LinkList(t) ==
  /\ At(t, "linkList")
  /\ \E e \in job[t].ents :
       Goto(t, "linkScan", [job[t] EXCEPT !.ent = e, !.todo = Live])
  /\ UNCHANGED <<store, history, nextId, origin>>

\* Read one of the listed records; the order depends on the store.
LinkScan(t) ==
  /\ At(t, "linkScan")
  /\ \E i \in job[t].todo :
       IF i \in Live /\ IsEntityFor(job[t].query, job[t].ent, store[i])
       THEN IF job[t].mem \in store[i].links
            THEN NextEntity(t)
            ELSE Goto(t, "linkUpdate", [job[t] EXCEPT !.id = i, !.todo = {},
                          !.copy = [store[i] EXCEPT !.links = @ \cup {job[t].mem}]])
       ELSE Goto(t, "linkScan", [job[t] EXCEPT !.todo = @ \ {i}])
  /\ UNCHANGED <<store, history, nextId, origin>>

\* Faulty variant: the store inserts the copy when the record is gone.
LinkUpsert(t) ==
  /\ At(t, "linkUpdate")
  /\ Write(job[t].id, job[t].copy)
  /\ NextEntity(t)
  /\ UNCHANGED <<history, nextId, origin>>

\* Write the copy back; the store answers NotFound if the record is gone.
LinkUpdate(t) ==
  /\ At(t, "linkUpdate")
  /\ \/ /\ job[t].id \in Live
        /\ Write(job[t].id, job[t].copy)
        /\ NextEntity(t) \/ LostReply(t, "update")
     \/ /\ job[t].id \notin Live
        /\ Return(t)
        /\ UNCHANGED store
  /\ UNCHANGED <<history, nextId, origin>>

LinkInsert(t) ==
  /\ At(t, "linkScan") /\ job[t].todo = {}
  /\ InsertNew(EntityRecord(job[t].query, job[t].ent, job[t].mem))
  /\ NextEntity(t) \/ LostReply(t, "insert")

-----------------------------------------------------------------------------
(* update                                                                  *)

\* Validate, read the record and merge the edit into the copy.
UpdateBegin(t) ==
  /\ Begin(t, "update")
  /\ \E i \in Live, edit \in Edit :
       /\ EditAllowed(edit)
       /\ Goto(t, "updStore", [NoJob EXCEPT !.op = "update", !.id = i,
                                            !.copy = Merge(store[i], edit)])
  /\ UNCHANGED <<store, history, nextId, origin>>

\* Faulty variant: the store inserts the copy when the record is gone.
UpsertStore(t) ==
  /\ At(t, "updStore")
  /\ Write(job[t].id, job[t].copy)
  /\ Return(t)
  /\ UNCHANGED <<history, nextId, origin>>

UpdateStore(t) ==
  /\ At(t, "updStore")
  /\ IF job[t].id \in Live THEN Write(job[t].id, job[t].copy) ELSE UNCHANGED store
  /\ Return(t)
  /\ UNCHANGED <<history, nextId, origin>>

-----------------------------------------------------------------------------
(* delete, called by a client or by reset                                  *)

\* Faulty variant: delete reads the record as search does.
HasUnexpiredContent(i) ==
  i \in Live /\ store[i].content # NoValue /\ ~IsExpired(store[i])

HasContent(i) == i \in Live /\ store[i].content # NoValue

DeleteBegin(t) ==
  /\ Begin(t, "delete")
  /\ \E i \in Allocated :
       Goto(t, "delStore", [NoJob EXCEPT !.op = "delete", !.id = i, !.logs = HasContent(i)])
  /\ UNCHANGED <<store, history, nextId, origin>>

ResetDelete(t) ==
  /\ At(t, "delGet")
  /\ Goto(t, "delStore", [job[t] EXCEPT !.logs = HasContent(job[t].id)])
  /\ UNCHANGED <<store, history, nextId, origin>>

AfterDelete(t) ==
  IF job[t].op = "reset"
  THEN Goto(t, "reset", [job[t] EXCEPT !.id = 0, !.logs = FALSE])
  ELSE Return(t)

DeleteStore(t) ==
  /\ At(t, "delStore")
  /\ Write(job[t].id, NoRecord)
  /\ \/ job[t].logs /\ Goto(t, "delLog", job[t])
     \/ ~job[t].logs /\ AfterDelete(t)
     \/ LostReply(t, "delete")
  /\ UNCHANGED <<history, nextId, origin>>

DeleteLog(t) ==
  /\ At(t, "delLog")
  /\ Log(job[t].id, "Deleted")
  /\ AfterDelete(t)
  /\ UNCHANGED <<store, nextId, origin>>

-----------------------------------------------------------------------------
(* reset: delete every record that matches, one at a time                  *)

\* Unlike add and list, reset accepts the empty scope.
ResetBegin(t) ==
  /\ Begin(t, "reset")
  /\ \E tags \in Scopes \cup {{}}, m \in Metas \cup {NoValue} :
       Goto(t, "reset", [NoJob EXCEPT !.op = "reset", !.query = [tags |-> tags, meta |-> m],
                                      !.todo = Live, !.seen = Live])
  /\ UNCHANGED <<store, history, nextId, origin>>

\* Faulty variants: reset passes over expired records; reset keeps the ids
\* that do not match.
ResetGetUnexpired(t) ==
  /\ At(t, "reset")
  /\ \E i \in job[t].todo :
       IF i \in Live /\ Matches(job[t].query, store[i]) /\ ~IsExpired(store[i])
       THEN Goto(t, "delGet", [job[t] EXCEPT !.id = i, !.todo = @ \ {i}])
       ELSE Goto(t, "reset", [job[t] EXCEPT !.todo = @ \ {i}])
  /\ UNCHANGED <<store, history, nextId, origin>>

ResetGetAgain(t) ==
  /\ At(t, "reset")
  /\ \E i \in job[t].todo :
       /\ i \in Live /\ Matches(job[t].query, store[i])
       /\ Goto(t, "delGet", [job[t] EXCEPT !.id = i, !.todo = @ \ {i}])
  /\ UNCHANGED <<store, history, nextId, origin>>

ResetGet(t) ==
  /\ At(t, "reset")
  /\ \E i \in job[t].todo :
       IF i \in Live /\ Matches(job[t].query, store[i])
       THEN Goto(t, "delGet", [job[t] EXCEPT !.id = i, !.todo = @ \ {i}])
       ELSE Goto(t, "reset", [job[t] EXCEPT !.todo = @ \ {i}])
  /\ UNCHANGED <<store, history, nextId, origin>>

ResetReturn(t) ==
  /\ At(t, "reset") /\ job[t].todo = {}
  /\ Return(t)
  /\ UNCHANGED <<store, history, nextId, origin>>

-----------------------------------------------------------------------------
(* list: list the ids, then read each record to decide whether it is kept  *)

ListBegin(t) ==
  /\ Begin(t, "list")
  /\ \E tags \in Scopes, show \in BOOLEAN :
       Goto(t, "list", [NoJob EXCEPT !.op = "list", !.query = [tags |-> tags, meta |-> NoValue],
                                     !.show = show, !.todo = Live])
  /\ UNCHANGED <<store, history, nextId, origin>>

\* An id whose record cannot be read any more is kept.
ListGet(t) ==
  /\ At(t, "list")
  /\ \E i \in job[t].todo :
       LET kept == i \in Live => ListKeeps(job[t].query, job[t].show, store[i]) IN
       \/ /\ kept \/ "get" \in Faults
          /\ Goto(t, "list", [job[t] EXCEPT !.todo = @ \ {i}, !.out = @ \cup {i}])
       \/ /\ ~kept
          /\ Goto(t, "list", [job[t] EXCEPT !.todo = @ \ {i}])
  /\ UNCHANGED <<store, history, nextId, origin>>

ListReturn(t) ==
  /\ At(t, "list") /\ job[t].todo = {}
  /\ Return(t)
  /\ UNCHANGED <<store, history, nextId, origin>>

-----------------------------------------------------------------------------
\* The calls whose failure ends the thread's method with an error.
Pending(t) ==
  CASE At(t, "insert")                        -> {"insert"}
    [] At(t, "linkList")                      -> {"list"}
    [] At(t, "linkScan") /\ job[t].todo # {}  -> {"get"}
    [] At(t, "linkScan") /\ job[t].todo = {}  -> {"embed", "insert"}
    [] At(t, "linkUpdate")                    -> {"update"}
    [] At(t, "updStore")                      -> {"embed", "update"}
    [] At(t, "delGet")                        -> {"get"}
    [] At(t, "delStore")                      -> {"delete"}
    [] At(t, "reset") /\ job[t].todo # {}     -> {"get"}
    [] OTHER                                  -> {}

CallFails(t) ==
  /\ Pending(t) \cap Faults # {}
  /\ Return(t)
  /\ UNCHANGED <<store, history, nextId, origin>>

\* The model has no id left: the insert is not tried and the call ends.
OutOfIds(t) ==
  /\ nextId \notin Ids
  /\ At(t, "insert") \/ (At(t, "linkScan") /\ job[t].todo = {})
  /\ Return(t)
  /\ UNCHANGED <<store, history, nextId, origin>>

Call(t) ==
  \/ AddBegin(t) \/ ProceduralBegin(t) \/ UpdateBegin(t)
  \/ DeleteBegin(t) \/ ResetBegin(t) \/ ListBegin(t)

Step(t) ==
  \/ AddDedup(t) \/ AddInsert(t) \/ AddLog(t)
  \/ LinkList(t) \/ LinkScan(t) \/ LinkUpdate(t) \/ LinkInsert(t)
  \/ UpdateStore(t)
  \/ ResetDelete(t) \/ DeleteStore(t) \/ DeleteLog(t)
  \/ ResetGet(t) \/ ResetReturn(t)
  \/ ListGet(t) \/ ListReturn(t)
  \/ OutOfIds(t)

Next == \E t \in Threads : Call(t) \/ Step(t) \/ CallFails(t)

Spec == Init /\ [][Next]_vars

\* A thread that is inside a method is scheduled again; calls need not fail.
FairSpec == Spec /\ \A t \in Threads : WF_vars(Step(t))

-----------------------------------------------------------------------------
(* Properties                                                              *)

\* Every variable has its type.
TypeOK ==
  /\ store \in [Ids -> Record \cup {NoRecord}]
  /\ history \in [Ids -> Seq(Events)]
  /\ nextId \in 1 .. MaxId + 1
  /\ origin \in [Ids -> SUBSET Tags]
  /\ pc \in [Threads -> Labels]
  /\ job \in [Threads -> Job]

Logged(i, event) == \E n \in 1 .. Len(history[i]) : history[i][n] = event

\* Once the history of an id says Deleted, no record has this id, whatever
\* updates, links and resets were under way when it was deleted.
DeletedIsFinal == \A i \in Ids : Logged(i, "Deleted") => i \notin Live

\* A record keeps the scope under which it was inserted: no update and no
\* write-back of a copy moves a memory to another user, agent or run.
ScopeIsFixed == \A i \in Live : store[i].tags = origin[i]

\* When reset(scope) without filter returns its count, none of the records
\* that existed when it started is left in the scope.
ResetIsComplete ==
  \A t \in Threads :
    (At(t, "reset") /\ job[t].todo = {} /\ job[t].query.meta = NoValue) =>
      \A i \in job[t].seen \cap Live : ~Matches(job[t].query, store[i])

\* Every id that list is about to return and that still has a record is a
\* memory of the requested scope.
ListedRecordsMatch ==
  \A t \in Threads : At(t, "list") =>
    \A i \in job[t].out \cap Live :
      /\ ~IsEntityRecord(store[i])
      /\ job[t].query.tags \subseteq store[i].tags

\* An entity record links only ids that were inserted, each under a scope
\* whose entries the entity record carries too.
LinksStayInScope ==
  \A i \in Live : \A m \in store[i].links :
    /\ m \in Allocated
    /\ origin[m] \subseteq store[i].tags

Busy(i) == \E t \in Threads : pc[t] \in {"log", "delLog"} /\ i \in {job[t].mem, job[t].id}

\* The state of RecordLifecycle that a state of the engine stands for.
phaseBar ==
  [i \in Ids |-> IF i \notin Allocated THEN "unborn" ELSE IF i \in Live THEN "live" ELSE "gone"]
scopeBar == [i \in Ids |-> IF i \in Live THEN store[i].tags ELSE origin[i]]
auditedBar == {i \in Ids : Logged(i, "Deleted")}

Lifecycle == INSTANCE RecordLifecycle WITH
  RecordIds <- Ids, ScopeSets <- Scopes,
  phase <- phaseBar, scope <- scopeBar, audited <- auditedBar

\* The engine implements RecordLifecycle: under every interleaving of adds,
\* updates, links, deletes and resets, an id is never reused or revived, the
\* scope of a record is fixed, and Deleted is logged after the removal.
RecordsLiveOnce == Lifecycle!LifecycleSpec

\* Without failures the history is complete: of an id on which no call has a
\* history entry outstanding, a memory in the store was Added, and an Added
\* memory that left the store was Deleted.
HistoryIsComplete ==
  \A i \in Ids : ~Busy(i) =>
    /\ (i \in Live /\ ~IsEntityRecord(store[i])) => Logged(i, "Added")
    /\ (Logged(i, "Added") /\ i \notin Live) => Logged(i, "Deleted")

\* With one adder, no update, no procedural add and no failing search, the
\* store never holds the same fact twice under the same scope and metadata:
\* deletes and resets that run in between cannot make add store a duplicate.
NoDuplicateFacts ==
  \A i, k \in Live :
    (i # k /\ ~IsEntityRecord(store[i]) /\ ~IsEntityRecord(store[k])) =>
      <<store[i].tags, store[i].meta, store[i].content>> #
      <<store[k].tags, store[k].meta, store[k].content>>

\* reset removes a record only if the record carries every entry of the scope.
ResetStaysInScope ==
  [][\A t \in Threads :
       (At(t, "delStore") /\ pc'[t] # "delStore" /\ job[t].op = "reset") =>
         \A i \in Live : store'[i] = NoRecord => job[t].query.tags \subseteq store[i].tags]_vars

\* Every call returns: no scan, retry or write-back keeps a method running.
EveryCallReturns == \A t \in Threads : pc[t] # "idle" ~> pc[t] = "idle"

\* list(scope) returns ids of that scope only (the assertion of
\* test_list_only_returns_records_within_the_requested_scope).
ListStaysInScope ==
  \A t \in Threads : At(t, "list") =>
    \A i \in job[t].out : job[t].query.tags \subseteq origin[i]
=============================================================================
