------------------------ MODULE MemoryEngine_proofs ------------------------
(* Proofs that MemoryEngine maintains EngineInv, and what follows from it; *)
(* then, with it, that the history is complete and that facts are unique.  *)
EXTENDS MemoryEngineInv, SequenceTheorems, TLAPS

\* The part of EngineInv that does not speak of the calls.
StorePart ==
  /\ store \in [Ids -> Record \cup {NoRecord}]
  /\ history \in [Ids -> Seq(Events)]
  /\ nextId \in 1 .. MaxId + 1
  /\ origin \in [Ids -> SUBSET Tags]
  /\ StoreOK(store, origin, nextId)
  /\ HistoryOK(store, nextId, history)

\* What every step does to the store: it stays sound and only evolves.
Effect ==
  /\ StorePart'
  /\ Evolves(store, origin, nextId, store', origin', nextId')

-----------------------------------------------------------------------------
(* What a call knows survives the steps of the other calls.                *)

LEMMA EvolvesKeepsLinks ==
  ASSUME NEW st, NEW og, NEW nx, NEW st2, NEW og2, NEW nx2, NEW r,
         Evolves(st, og, nx, st2, og2, nx2), LinksOK(og, nx, r)
  PROVE  LinksOK(og2, nx2, r)
BY DEF Evolves, LinksOK

LEMMA EvolvesKeepsJob ==
  ASSUME NEW st, NEW og, NEW nx, NEW st2, NEW og2, NEW nx2, NEW l, NEW j,
         Evolves(st, og, nx, st2, og2, nx2), JobOK(st, og, nx, l, j)
  PROVE  JobOK(st2, og2, nx2, l, j)
<1>1. AddOK(og2, nx2, l, j)
  BY DEF JobOK, AddOK, Evolves
<1>2. WriteBackOK(st2, og2, nx2, l, j)
  BY EvolvesKeepsLinks DEF JobOK, WriteBackOK, Evolves
<1>3. DeleteOK(st2, nx2, l, j)
  BY DEF JobOK, DeleteOK, Evolves
<1>4. ScanOK(nx2, j)
  BY DEF JobOK, ScanOK, Evolves
<1>5. ResetOK(st2, l, j)
  BY DEF JobOK, ResetOK, DeleteOK, ScanOK, Evolves
<1>6. ListOK(st2, l, j)
  BY DEF JobOK, ListOK, ScanOK, Evolves
<1> QED
  BY <1>1, <1>2, <1>3, <1>4, <1>5, <1>6 DEF JobOK

\* A step of thread t that leaves its call sound keeps the invariant.
LEMMA CallStep ==
  ASSUME EngineInv, NEW t \in Threads, NEW l \in Labels, NEW j \in Job,
         Goto(t, l, j), Effect, JobOK(store', origin', nextId', l, j)
  PROVE  EngineInv'
<1>1. TypeOK'
  BY DEF EngineInv, TypeOK, Goto, Effect, StorePart
<1>2. ASSUME NEW u \in Threads
      PROVE  JobOK(store', origin', nextId', pc'[u], job'[u])
  <2>1. CASE u = t
    BY <2>1 DEF Goto, EngineInv, TypeOK
  <2>2. CASE u # t
    <3>1. pc'[u] = pc[u] /\ job'[u] = job[u]
      BY <2>2 DEF Goto, EngineInv, TypeOK
    <3>2. JobOK(store, origin, nextId, pc[u], job[u])
      BY DEF EngineInv
    <3> QED
      BY <3>1, <3>2, EvolvesKeepsJob DEF Effect
  <2> QED
    BY <2>1, <2>2
<1> QED
  BY <1>1, <1>2 DEF EngineInv, Effect, StorePart

-----------------------------------------------------------------------------
(* The effects.                                                            *)

LEMMA NoEffect ==
  ASSUME EngineInv, UNCHANGED <<store, history, nextId, origin>>
  PROVE  Effect
BY DEF EngineInv, TypeOK, Effect, StorePart, StoreOK, HistoryOK, Evolves, Used, Present

LEMMA InsertEffect ==
  ASSUME EngineInv, NEW r \in Record, InsertNew(r), LinksOK(origin, nextId, r)
  PROVE  /\ Effect
         /\ nextId \in Used(nextId')
         /\ origin'[nextId] = r.tags
<1> USE DEF InsertNew, Write
<1>1. /\ store' \in [Ids -> Record \cup {NoRecord}]
      /\ history' \in [Ids -> Seq(Events)]
      /\ nextId' \in 1 .. MaxId + 1
      /\ origin' \in [Ids -> SUBSET Tags]
  BY MaxIdAssumption DEF EngineInv, TypeOK, Ids, Record
<1>2. Evolves(store, origin, nextId, store', origin', nextId')
  BY DEF EngineInv, TypeOK, Evolves, Used, Present, Ids
<1>3. StoreOK(store', origin', nextId')
  <2> SUFFICES ASSUME NEW i \in Ids, Present(store', i)
               PROVE  /\ i \in Used(nextId')
                      /\ store'[i].tags = origin'[i]
                      /\ LinksOK(origin', nextId', store'[i])
    BY DEF StoreOK
  <2>1. CASE i = nextId
    BY <2>1, <1>2, EvolvesKeepsLinks DEF EngineInv, TypeOK, Used, Ids
  <2>2. CASE i # nextId
    BY <2>2, <1>2, EvolvesKeepsLinks DEF EngineInv, TypeOK, StoreOK, Used, Ids, Present
  <2> QED
    BY <2>1, <2>2
<1>4. HistoryOK(store', nextId', history')
  BY <1>2 DEF EngineInv, TypeOK, HistoryOK, Evolves, Used, Present, Ids
<1> QED
  BY <1>1, <1>2, <1>3, <1>4 DEF Effect, StorePart, EngineInv, TypeOK, Used, Ids

LEMMA WriteEffect ==
  ASSUME EngineInv, NEW i \in Live, NEW r \in Record, Write(i, r),
         UNCHANGED <<history, nextId, origin>>,
         r.tags = origin[i], r.kind = store[i].kind, LinksOK(origin, nextId, r)
  PROVE  Effect
<1> USE DEF Write, Live
<1>0. NoRecord \notin Record
  BY NoRecordAssumption
<1>1. /\ store' \in [Ids -> Record \cup {NoRecord}]
      /\ history' \in [Ids -> Seq(Events)]
      /\ nextId' \in 1 .. MaxId + 1
      /\ origin' \in [Ids -> SUBSET Tags]
  BY DEF EngineInv, TypeOK
<1>2. Evolves(store, origin, nextId, store', origin', nextId')
  BY DEF EngineInv, TypeOK, Evolves, Used, Present, StoreOK
<1>3. StoreOK(store', origin', nextId')
  <2> SUFFICES ASSUME NEW k \in Ids, Present(store', k)
               PROVE  /\ k \in Used(nextId')
                      /\ store'[k].tags = origin'[k]
                      /\ LinksOK(origin', nextId', store'[k])
    BY DEF StoreOK
  <2>1. CASE k = i
    BY <2>1, <1>2, EvolvesKeepsLinks DEF EngineInv, TypeOK, StoreOK, Present
  <2>2. CASE k # i
    BY <2>2, <1>2, EvolvesKeepsLinks DEF EngineInv, TypeOK, StoreOK, Present
  <2> QED
    BY <2>1, <2>2
<1>4. HistoryOK(store', nextId', history')
  BY <1>2 DEF EngineInv, TypeOK, HistoryOK, Present
<1> QED
  BY <1>1, <1>2, <1>3, <1>4 DEF Effect, StorePart

LEMMA RemoveEffect ==
  ASSUME EngineInv, NEW i \in Ids, Write(i, NoRecord), UNCHANGED <<history, nextId, origin>>
  PROVE  Effect /\ ~Present(store', i)
<1> USE DEF Write
<1>1. /\ store' \in [Ids -> Record \cup {NoRecord}]
      /\ history' \in [Ids -> Seq(Events)]
      /\ nextId' \in 1 .. MaxId + 1
      /\ origin' \in [Ids -> SUBSET Tags]
  BY DEF EngineInv, TypeOK
<1>2. Evolves(store, origin, nextId, store', origin', nextId') /\ ~Present(store', i)
  BY DEF EngineInv, TypeOK, Evolves, Used, Present
<1>3. StoreOK(store', origin', nextId')
  BY <1>2, EvolvesKeepsLinks DEF EngineInv, TypeOK, StoreOK, Present
<1>4. HistoryOK(store', nextId', history')
  BY DEF EngineInv, TypeOK, HistoryOK, Present
<1> QED
  BY <1>1, <1>2, <1>3, <1>4 DEF Effect, StorePart

LEMMA LogEffect ==
  ASSUME EngineInv, NEW i \in Used(nextId), NEW e \in Events, Log(i, e),
         UNCHANGED <<store, nextId, origin>>, e = "Deleted" => ~Present(store, i)
  PROVE  Effect
<1> USE DEF Log
<1>0. i \in Ids /\ history[i] \in Seq(Events)
  BY DEF Used, EngineInv, TypeOK
<1>1. history' \in [Ids -> Seq(Events)]
  BY <1>0, AppendProperties DEF EngineInv, TypeOK
<1>2. Evolves(store, origin, nextId, store', origin', nextId')
  BY DEF Evolves
<1>3. HistoryOK(store', nextId', history')
  <2> SUFFICES ASSUME NEW k \in Ids, NEW n \in 1 .. Len(history'[k]), history'[k][n] = "Deleted"
               PROVE  k \in Used(nextId) /\ ~Present(store, k)
    BY DEF HistoryOK
  <2>1. CASE k # i
    BY <2>1 DEF EngineInv, TypeOK, HistoryOK
  <2>2. CASE k = i /\ n = Len(history[i]) + 1
    BY <2>2, <1>0, AppendProperties DEF EngineInv, TypeOK
  <2>3. CASE k = i /\ n # Len(history[i]) + 1
    <3>1. history'[i] = Append(history[i], e)
      BY <1>0 DEF EngineInv, TypeOK
    <3>2. n \in 1 .. Len(history[i]) /\ history[i][n] = "Deleted"
      BY <3>1, <2>3, <1>0, AppendProperties, LenProperties
    <3> QED
      BY <3>2, <2>3, <1>0 DEF EngineInv, HistoryOK
  <2> QED
    BY <2>1, <2>2, <2>3
<1> QED
  BY <1>1, <1>2, <1>3 DEF Effect, StorePart, EngineInv, TypeOK

-----------------------------------------------------------------------------
(* Ways to go on with, or to end, a call.                                  *)

LEMMA NoJobType == NoJob \in Job /\ "idle" \in Labels
<1>1. <<>> \in Seq(Contents)
  BY EmptySeq
<1> QED
  BY <1>1 DEF NoJob, Job, NoQuery, Query, NoRecord, Labels

\* What the call of thread t relied on before a step holds after it.
LEMMA OldJob ==
  ASSUME EngineInv, Effect, NEW t \in Threads
  PROVE  JobOK(store', origin', nextId', pc[t], job[t]) /\ job[t] \in Job /\ pc[t] \in Labels
BY EvolvesKeepsJob DEF EngineInv, TypeOK, Effect

LEMMA ReturnStep ==
  ASSUME EngineInv, NEW t \in Threads, Return(t), Effect
  PROVE  EngineInv'
<1>1. JobOK(store', origin', nextId', "idle", NoJob)
  BY DEF JobOK, AddOK, WriteBackOK, DeleteOK, ScanOK, ResetOK, ResetLabels, ListOK, NoJob, Used
<1> QED
  BY <1>1, NoJobType, CallStep DEF Return

LEMMA NextItemStep ==
  ASSUME EngineInv, NEW t \in Threads, NextItem(t), Effect, job[t].items # <<>>,
         job[t].query.tags \in Scopes
  PROVE  EngineInv'
<1>1. CASE Len(job[t].items) <= 1
  BY <1>1, ReturnStep DEF NextItem
<1>2. CASE ~(Len(job[t].items) <= 1)
  <2>1. job[t] \in Job
    BY OldJob
  <2>2. job[t].items \in Seq(Contents)
    BY <2>1 DEF Job
  <2>3. Tail(job[t].items) \in Seq(Contents) /\ Tail(job[t].items) # <<>>
    <3>1. /\ Tail(job[t].items) \in Seq(Contents)
          /\ Len(Tail(job[t].items)) = Len(job[t].items) - 1
      BY <2>2, HeadTailProperties
    <3>2. Len(job[t].items) \in Nat
      BY <2>2, LenProperties
    <3>3. Len(Tail(job[t].items)) # 0
      <4> DEFINE n == Len(job[t].items)
                 m == Len(Tail(job[t].items))
      <4>1. n \in Nat /\ ~(n <= 1) /\ m = n - 1
        BY <1>2, <3>1, <3>2
      <4> HIDE DEF n, m
      <4>2. m # 0
        BY <4>1
      <4> QED
        BY <4>2 DEF m
    <3> QED
      BY <3>1, <3>3, EmptySeq
  <2> DEFINE j == [NoJob EXCEPT !.op = job[t].op, !.query = job[t].query,
                                !.items = Tail(job[t].items), !.link = TRUE]
  <2>4. j \in Job /\ "dedup" \in Labels
    BY <2>1, <2>3, NoJobType, ZenonT(30) DEF Job, NoJob, Labels
  <2>5. JobOK(store', origin', nextId', "dedup", j)
    BY <2>3, <2>1 DEF JobOK, AddOK, WriteBackOK, DeleteOK, ScanOK, ResetOK, ResetLabels, ListOK, NoJob, Used
  <2>6. Goto(t, "dedup", j)
    BY <1>2 DEF NextItem
  <2> HIDE DEF j
  <2> QED
    BY <2>4, <2>5, <2>6, CallStep
<1> QED
  BY <1>1, <1>2

LEMMA NextEntityStep ==
  ASSUME EngineInv, NEW t \in Threads, NextEntity(t), Effect,
         pc[t] \in {"linkScan", "linkUpdate"}
  PROVE  EngineInv'
<1>1. JobOK(store', origin', nextId', pc[t], job[t]) /\ job[t] \in Job
  BY OldJob
<1>2. job[t].items # <<>> /\ job[t].query.tags \in Scopes
  BY <1>1 DEF JobOK, AddOK
<1>3. CASE job[t].ents = {job[t].ent}
  BY <1>2, <1>3, NextItemStep DEF NextEntity
<1>4. CASE job[t].ents # {job[t].ent}
  <2> DEFINE j == [job[t] EXCEPT !.ents = @ \ {job[t].ent}, !.ent = NoValue, !.id = 0,
                                 !.copy = NoRecord, !.todo = {}]
  <2>1. j \in Job /\ "linkList" \in Labels
    BY <1>1 DEF Job, Labels, NoRecord
  <2>2. JobOK(store', origin', nextId', "linkList", j)
    <3>1. AddOK(origin', nextId', "linkList", j)
      BY <1>1 DEF JobOK, AddOK, Job
    <3>2. ResetOK(store', "linkList", j)
      BY DEF ResetOK, ResetLabels
    <3> QED
      BY <1>1, <3>1, <3>2 DEF JobOK, WriteBackOK, DeleteOK, ScanOK, ListOK, Job
  <2>3. Goto(t, "linkList", j)
    BY <1>4 DEF NextEntity
  <2> HIDE DEF j
  <2> QED
    BY <2>1, <2>2, <2>3, CallStep
<1> QED
  BY <1>3, <1>4

-----------------------------------------------------------------------------
(* add                                                                     *)

LEMMA AddBeginStep ==
  ASSUME EngineInv, NEW t \in Threads, AddBegin(t)
  PROVE  EngineInv'
<1>1. Effect
  BY NoEffect DEF AddBegin
<1>2. PICK tags \in Scopes, m \in Metas \cup {NoValue}, n \in 1 .. MaxItems :
        \E items \in [1 .. n -> Contents] :
          Goto(t, "dedup", [NoJob EXCEPT !.op = "add", !.query = [tags |-> tags, meta |-> m],
                                         !.items = items, !.link = TRUE])
  BY DEF AddBegin
<1>2a. PICK items \in [1 .. n -> Contents] :
        Goto(t, "dedup", [NoJob EXCEPT !.op = "add", !.query = [tags |-> tags, meta |-> m],
                                       !.items = items, !.link = TRUE])
  BY <1>2
<1>3. items \in Seq(Contents) /\ items # <<>>
  <2>1. n \in Nat /\ n # 0
    BY MaxItemsAssumption
  <2>2. items \in Seq(Contents)
    BY <2>1, SeqDef
  <2>3. DOMAIN items = 1 .. n /\ 1 \in 1 .. n
    BY <2>1
  <2> QED
    BY <2>2, <2>3
<1> DEFINE j == [NoJob EXCEPT !.op = "add", !.query = [tags |-> tags, meta |-> m],
                              !.items = items, !.link = TRUE]
<1>4. j \in Job /\ "dedup" \in Labels
  BY <1>3, NoJobType, ScopesAssumption DEF AddBegin, Begin, Job, NoJob, Labels, Query
<1>5. JobOK(store', origin', nextId', "dedup", j)
  BY <1>3 DEF JobOK, AddOK, WriteBackOK, DeleteOK, ScanOK, ResetOK, ResetLabels, ListOK, NoJob, Used
<1> HIDE DEF j
<1> QED
  BY <1>1, <1>2a, <1>4, <1>5, CallStep DEF j

LEMMA ProceduralBeginStep ==
  ASSUME EngineInv, NEW t \in Threads, ProceduralBegin(t)
  PROVE  EngineInv'
<1>1. Effect
  BY NoEffect DEF ProceduralBegin
<1>2. PICK tags \in Scopes, c \in Contents :
        Goto(t, "insert", [NoJob EXCEPT !.op = "procedural",
                                        !.query = [tags |-> tags, meta |-> NoValue],
                                        !.items = <<c>>])
  BY DEF ProceduralBegin
<1> DEFINE j == [NoJob EXCEPT !.op = "procedural",
                              !.query = [tags |-> tags, meta |-> NoValue], !.items = <<c>>]
<1>3. <<c>> \in Seq(Contents) /\ <<c>> # <<>>
  OBVIOUS
<1>4. j \in Job /\ "insert" \in Labels
  BY <1>3, NoJobType, ScopesAssumption DEF ProceduralBegin, Begin, Job, NoJob, Labels, Query
<1>5. JobOK(store', origin', nextId', "insert", j)
  BY <1>3 DEF JobOK, AddOK, WriteBackOK, DeleteOK, ScanOK, ResetOK, ResetLabels, ListOK, NoJob, Used
<1> HIDE DEF j
<1> QED
  BY <1>1, <1>2, <1>4, <1>5, CallStep DEF j

LEMMA AddDedupStep ==
  ASSUME EngineInv, NEW t \in Threads, AddDedup(t)
  PROVE  EngineInv'
<1>1. Effect
  BY NoEffect DEF AddDedup
<1>2. /\ JobOK(store', origin', nextId', "dedup", job[t])
      /\ job[t] \in Job
  BY <1>1, OldJob DEF AddDedup, At
<1>3. job[t].items # <<>> /\ job[t].query.tags \in Scopes
  BY <1>2 DEF JobOK, AddOK
<1>4. JobOK(store', origin', nextId', "insert", job[t])
  BY <1>2 DEF JobOK, AddOK, WriteBackOK, DeleteOK, ResetOK, ResetLabels, ListOK
<1>5. CASE NextItem(t)
  BY <1>1, <1>3, <1>5, NextItemStep
<1>6. CASE Goto(t, "insert", job[t])
  BY <1>1, <1>2, <1>4, <1>6, CallStep DEF Labels
<1> QED
  BY <1>5, <1>6 DEF AddDedup

LEMMA ItemType ==
  ASSUME EngineInv, NEW t \in Threads, job[t].items # <<>>
  PROVE  Item(t) \in Contents /\ job[t].query \in Query
<1>1. job[t] \in Job
  BY DEF EngineInv, TypeOK
<1> QED
  BY <1>1, HeadTailProperties DEF Job, Item

LEMMA AddInsertStep ==
  ASSUME EngineInv, NEW t \in Threads, AddInsert(t)
  PROVE  EngineInv'
<1> DEFINE r == MemoryRecord(job[t].query, Item(t))
<1>1. /\ JobOK(store, origin, nextId, "insert", job[t])
      /\ job[t] \in Job
  BY DEF EngineInv, TypeOK, AddInsert, At
<1>2. job[t].items # <<>> /\ job[t].query.tags \in Scopes
  BY <1>1 DEF JobOK, AddOK
<1>3. r \in Record /\ r.links = {} /\ r.tags = job[t].query.tags
  BY <1>2, ItemType DEF MemoryRecord, Record, Query
<1>4. InsertNew(r)
  BY DEF AddInsert
<1> HIDE DEF r
<1>5. LinksOK(origin, nextId, r)
  BY <1>3 DEF LinksOK
<1>6. Effect /\ nextId \in Used(nextId') /\ origin'[nextId] = r.tags
  BY <1>3, <1>4, <1>5, InsertEffect
<1>7. CASE Goto(t, "log", [job[t] EXCEPT !.mem = nextId])
  <2> DEFINE j == [job[t] EXCEPT !.mem = nextId]
  <2>1. j \in Job /\ "log" \in Labels
    BY <1>1, <1>6 DEF Job, Labels, Used
  <2>2. JobOK(store', origin', nextId', "insert", job[t])
    BY <1>6, OldJob DEF AddInsert, At
  <2>3. JobOK(store', origin', nextId', "log", j)
    <3>1. AddOK(origin', nextId', "log", j)
      BY <1>1, <1>2, <1>3, <1>6 DEF AddOK, Job
    <3> QED
      BY <3>1, <1>1, <2>2 DEF JobOK, WriteBackOK, DeleteOK, ScanOK, ResetOK, ResetLabels, ListOK, Job
  <2> HIDE DEF j
  <2> QED
    BY <1>6, <1>7, <2>1, <2>3, CallStep DEF j
<1>8. CASE LostReply(t, "insert")
  BY <1>6, <1>8, ReturnStep DEF LostReply
<1> QED
  BY <1>7, <1>8 DEF AddInsert

LEMMA AddLogStep ==
  ASSUME EngineInv, NEW t \in Threads, AddLog(t)
  PROVE  EngineInv'
<1>1. /\ JobOK(store, origin, nextId, "log", job[t])
      /\ job[t] \in Job
  BY DEF EngineInv, TypeOK, AddLog, At
<1>2. job[t].items # <<>> /\ job[t].query.tags \in Scopes /\ job[t].mem \in Used(nextId)
  BY <1>1 DEF JobOK, AddOK
<1>3. Effect
  BY <1>2, LogEffect DEF AddLog, Events
<1>4. CASE Goto(t, "linkList", [job[t] EXCEPT !.ents = EntitiesOf[Item(t)]])
  <2> DEFINE j == [job[t] EXCEPT !.ents = EntitiesOf[Item(t)]]
  <2>1. j \in Job /\ "linkList" \in Labels
    BY <1>1, <1>2, ItemType, EntitiesOfAssumption DEF Job, Labels
  <2>2. JobOK(store', origin', nextId', "log", job[t])
    BY <1>3, OldJob DEF AddLog, At
  <2>3. JobOK(store', origin', nextId', "linkList", j)
    BY <1>1, <2>2 DEF JobOK, AddOK, WriteBackOK, DeleteOK, ScanOK, ResetOK, ResetLabels, ListOK, Job
  <2> HIDE DEF j
  <2> QED
    BY <1>3, <1>4, <2>1, <2>3, CallStep DEF j
<1>5. CASE NextItem(t)
  BY <1>2, <1>3, <1>5, NextItemStep
<1> QED
  BY <1>4, <1>5 DEF AddLog

-----------------------------------------------------------------------------
(* link_entities                                                           *)

\* The ids that are live may be scanned.
LEMMA LiveIsUsed ==
  ASSUME EngineInv
  PROVE  Live \subseteq Used(nextId) /\ Live \subseteq Ids /\ Allocated = Used(nextId)
BY DEF EngineInv, StoreOK, Live, Present, Allocated, Used

LEMMA LinkListStep ==
  ASSUME EngineInv, NEW t \in Threads, LinkList(t)
  PROVE  EngineInv'
<1>1. Effect
  BY NoEffect DEF LinkList
<1>2. /\ JobOK(store', origin', nextId', "linkList", job[t])
      /\ job[t] \in Job
  BY <1>1, OldJob DEF LinkList, At
<1>3. PICK e \in job[t].ents :
        Goto(t, "linkScan", [job[t] EXCEPT !.ent = e, !.todo = Live])
  BY DEF LinkList
<1> DEFINE j == [job[t] EXCEPT !.ent = e, !.todo = Live]
<1>4. j \in Job /\ "linkScan" \in Labels /\ e \in Entities
  BY <1>2, LiveIsUsed DEF Job, Labels
<1>5. Live \subseteq Used(nextId')
  BY LiveIsUsed DEF LinkList
<1>6. JobOK(store', origin', nextId', "linkScan", j)
  BY <1>2, <1>4, <1>5 DEF JobOK, AddOK, WriteBackOK, DeleteOK, ScanOK, ResetOK, ResetLabels, ListOK, Job
<1> HIDE DEF j
<1> QED
  BY <1>1, <1>3, <1>4, <1>6, CallStep DEF j

\* Adding the new memory to the links of a matching entity record gives a
\* copy that may be written back.
LEMMA LinkedCopy ==
  ASSUME EngineInv, NEW t \in Threads, At(t, "linkScan"), NEW i \in Live,
         IsEntityFor(job[t].query, job[t].ent, store[i])
  PROVE  LET r == [store[i] EXCEPT !.links = @ \cup {job[t].mem}]
         IN  /\ r \in Record /\ r.tags = origin[i] /\ r.kind = store[i].kind
             /\ LinksOK(origin, nextId, r)
<1> DEFINE r == [store[i] EXCEPT !.links = @ \cup {job[t].mem}]
<1>1. /\ JobOK(store, origin, nextId, "linkScan", job[t])
      /\ job[t] \in Job
  BY DEF EngineInv, TypeOK, At
<1>2. job[t].mem \in Used(nextId) /\ origin[job[t].mem] = job[t].query.tags
  BY <1>1 DEF JobOK, AddOK
<1>3. /\ store[i] \in Record /\ store[i].tags = origin[i]
      /\ LinksOK(origin, nextId, store[i])
  BY DEF EngineInv, TypeOK, StoreOK, Live, Present
<1>4. job[t].query.tags \subseteq store[i].tags
  BY DEF IsEntityFor, Matches
<1>5. /\ r \in Record /\ r.tags = store[i].tags /\ r.kind = store[i].kind
      /\ r.links = store[i].links \cup {job[t].mem}
  BY <1>2, <1>3 DEF Record, Used
<1> HIDE DEF r
<1>6. LinksOK(origin, nextId, r)
  BY <1>2, <1>3, <1>4, <1>5 DEF LinksOK
<1> QED
  BY <1>3, <1>5, <1>6 DEF r

LEMMA LinkScanStep ==
  ASSUME EngineInv, NEW t \in Threads, LinkScan(t)
  PROVE  EngineInv'
<1>1. Effect /\ UNCHANGED <<store, history, nextId, origin>>
  BY NoEffect DEF LinkScan
<1>2. /\ JobOK(store', origin', nextId', "linkScan", job[t])
      /\ job[t] \in Job
  BY <1>1, OldJob DEF LinkScan, At
<1>3. CASE NextEntity(t)
  BY <1>1, <1>3, NextEntityStep DEF LinkScan, At
<1>4. ASSUME NEW i \in Live, IsEntityFor(job[t].query, job[t].ent, store[i]),
             Goto(t, "linkUpdate", [job[t] EXCEPT !.id = i, !.todo = {},
                      !.copy = [store[i] EXCEPT !.links = @ \cup {job[t].mem}]])
      PROVE  EngineInv'
  <2> DEFINE r == [store[i] EXCEPT !.links = @ \cup {job[t].mem}]
  <2>1. /\ r \in Record /\ r.tags = origin[i] /\ r.kind = store[i].kind
        /\ LinksOK(origin, nextId, r)
    BY <1>4, LinkedCopy DEF LinkScan
  <2> HIDE DEF r
  <2> DEFINE j == [job[t] EXCEPT !.id = i, !.todo = {}, !.copy = r]
  <2>2. j \in Job /\ "linkUpdate" \in Labels
    BY <1>2, <2>1, LiveIsUsed DEF Job, Labels
  <2>3. WriteBackOK(store', origin', nextId', "linkUpdate", j)
    BY <1>1, <1>2, <2>1, LiveIsUsed DEF WriteBackOK, Job
  <2>4. JobOK(store', origin', nextId', "linkUpdate", j)
    BY <1>2, <2>3 DEF JobOK, AddOK, DeleteOK, ScanOK, ResetOK, ResetLabels, ListOK, Job
  <2>5. Goto(t, "linkUpdate", j)
    BY <1>4 DEF r
  <2> HIDE DEF j
  <2> QED
    BY <1>1, <2>2, <2>4, <2>5, CallStep
<1>5. ASSUME NEW i \in job[t].todo, Goto(t, "linkScan", [job[t] EXCEPT !.todo = @ \ {i}])
      PROVE  EngineInv'
  <2> DEFINE j == [job[t] EXCEPT !.todo = @ \ {i}]
  <2>1. j \in Job /\ "linkScan" \in Labels
    BY <1>2 DEF Job, Labels
  <2>2. JobOK(store', origin', nextId', "linkScan", j)
    BY <1>2 DEF JobOK, AddOK, WriteBackOK, DeleteOK, ScanOK, ResetOK, ResetLabels, ListOK, Job
  <2> HIDE DEF j
  <2> QED
    BY <1>1, <1>5, <2>1, <2>2, CallStep DEF j
<1> QED
  BY <1>3, <1>4, <1>5 DEF LinkScan

\* Writing back a copy that the call holds is sound.
LEMMA WriteBackEffect ==
  ASSUME EngineInv, NEW t \in Threads, pc[t] \in {"linkUpdate", "updStore"},
         job[t].id \in Live, Write(job[t].id, job[t].copy),
         UNCHANGED <<history, nextId, origin>>
  PROVE  Effect
<1>1. WriteBackOK(store, origin, nextId, pc[t], job[t])
  BY DEF EngineInv, JobOK
<1>2. Present(store, job[t].id)
  BY DEF Live, Present
<1> QED
  BY <1>1, <1>2, WriteEffect DEF WriteBackOK

LEMMA LinkUpdateStep ==
  ASSUME EngineInv, NEW t \in Threads, LinkUpdate(t)
  PROVE  EngineInv'
<1>1. pc[t] = "linkUpdate" /\ UNCHANGED <<history, nextId, origin>>
  BY DEF LinkUpdate, At
<1>2. CASE job[t].id \in Live /\ Write(job[t].id, job[t].copy)
  BY <1>1, <1>2, WriteBackEffect, NextEntityStep, ReturnStep DEF LinkUpdate, LostReply
<1>3. CASE Return(t) /\ UNCHANGED store
  BY <1>1, <1>3, NoEffect, ReturnStep
<1> QED
  BY <1>2, <1>3 DEF LinkUpdate

LEMMA LinkInsertStep ==
  ASSUME EngineInv, NEW t \in Threads, LinkInsert(t)
  PROVE  EngineInv'
<1> DEFINE r == EntityRecord(job[t].query, job[t].ent, job[t].mem)
<1>1. /\ JobOK(store, origin, nextId, "linkScan", job[t])
      /\ job[t] \in Job
  BY DEF EngineInv, TypeOK, LinkInsert, At
<1>2. /\ job[t].mem \in Used(nextId) /\ origin[job[t].mem] = job[t].query.tags
      /\ job[t].query \in Query /\ job[t].ent \in Entities
  BY <1>1 DEF JobOK, AddOK, Job
<1>3. r \in Record /\ r.links = {job[t].mem} /\ r.tags = job[t].query.tags
  BY <1>2 DEF EntityRecord, Record, Query, Used
<1>4. InsertNew(r)
  BY DEF LinkInsert
<1> HIDE DEF r
<1>5. LinksOK(origin, nextId, r)
  BY <1>2, <1>3 DEF LinksOK
<1>6. Effect
  BY <1>3, <1>4, <1>5, InsertEffect
<1> QED
  BY <1>6, NextEntityStep, ReturnStep DEF LinkInsert, LostReply, At

-----------------------------------------------------------------------------
(* update                                                                  *)

LEMMA UpdateBeginStep ==
  ASSUME EngineInv, NEW t \in Threads, UpdateBegin(t)
  PROVE  EngineInv'
<1>1. Effect /\ UNCHANGED <<store, history, nextId, origin>>
  BY NoEffect DEF UpdateBegin
<1>2. PICK i \in Live, edit \in Edit :
        /\ EditAllowed(edit)
        /\ Goto(t, "updStore", [NoJob EXCEPT !.op = "update", !.id = i,
                                             !.copy = Merge(store[i], edit)])
  BY DEF UpdateBegin
<1> DEFINE r == Merge(store[i], edit)
<1>3. /\ store[i] \in Record /\ store[i].tags = origin[i]
      /\ LinksOK(origin, nextId, store[i])
  BY DEF EngineInv, TypeOK, StoreOK, Live, Present
<1>4. /\ r \in Record /\ r.tags = store[i].tags /\ r.kind = store[i].kind
      /\ r.links = store[i].links
  BY <1>2, <1>3 DEF Merge, EditAllowed, Edit, Record
<1> HIDE DEF r
<1>5. LinksOK(origin, nextId, r)
  BY <1>3, <1>4 DEF LinksOK
<1> DEFINE j == [NoJob EXCEPT !.op = "update", !.id = i, !.copy = r]
<1>6. j \in Job /\ "updStore" \in Labels
  BY <1>4, LiveIsUsed, NoJobType DEF UpdateBegin, Begin, Job, NoJob, Labels
<1>7. WriteBackOK(store', origin', nextId', "updStore", j)
  BY <1>1, <1>3, <1>4, <1>5, LiveIsUsed DEF WriteBackOK, NoJob
<1>8. JobOK(store', origin', nextId', "updStore", j)
  BY <1>7 DEF JobOK, AddOK, DeleteOK, ScanOK, ResetOK, ResetLabels, ListOK, NoJob, Used
<1>9. Goto(t, "updStore", j)
  BY <1>2 DEF r
<1> HIDE DEF j
<1> QED
  BY <1>1, <1>6, <1>8, <1>9, CallStep

LEMMA UpdateStoreStep ==
  ASSUME EngineInv, NEW t \in Threads, UpdateStore(t)
  PROVE  EngineInv'
<1>1. pc[t] = "updStore" /\ Return(t) /\ UNCHANGED <<history, nextId, origin>>
  BY DEF UpdateStore, At
<1>2. CASE job[t].id \in Live /\ Write(job[t].id, job[t].copy)
  BY <1>1, <1>2, WriteBackEffect, ReturnStep
<1>3. CASE UNCHANGED store
  BY <1>1, <1>3, NoEffect, ReturnStep
<1> QED
  BY <1>2, <1>3 DEF UpdateStore
-----------------------------------------------------------------------------
(* delete                                                                  *)

LEMMA DeleteBeginStep ==
  ASSUME EngineInv, NEW t \in Threads, DeleteBegin(t)
  PROVE  EngineInv'
<1>1. Effect /\ UNCHANGED <<store, history, nextId, origin>>
  BY NoEffect DEF DeleteBegin
<1>2. PICK i \in Allocated :
        Goto(t, "delStore", [NoJob EXCEPT !.op = "delete", !.id = i, !.logs = HasContent(i)])
  BY DEF DeleteBegin
<1> DEFINE j == [NoJob EXCEPT !.op = "delete", !.id = i, !.logs = HasContent(i)]
<1>3. HasContent(i) \in BOOLEAN /\ i \in Ids /\ i \in Used(nextId')
  BY <1>1, LiveIsUsed DEF HasContent, Allocated
<1>4. j \in Job /\ "delStore" \in Labels
  BY <1>3, NoJobType DEF DeleteBegin, Begin, Job, NoJob, Labels
<1>5. JobOK(store', origin', nextId', "delStore", j)
  BY <1>3 DEF JobOK, AddOK, WriteBackOK, DeleteOK, ScanOK, ResetOK, ResetLabels, ListOK, NoJob, Used
<1> HIDE DEF j
<1> QED
  BY <1>1, <1>2, <1>4, <1>5, CallStep DEF j

LEMMA ResetDeleteStep ==
  ASSUME EngineInv, NEW t \in Threads, ResetDelete(t)
  PROVE  EngineInv'
<1>1. Effect
  BY NoEffect DEF ResetDelete
<1>2. /\ JobOK(store', origin', nextId', "delGet", job[t])
      /\ job[t] \in Job
  BY <1>1, OldJob DEF ResetDelete, At
<1> DEFINE j == [job[t] EXCEPT !.logs = HasContent(job[t].id)]
<1>3. HasContent(job[t].id) \in BOOLEAN
  BY DEF HasContent
<1>4. j \in Job /\ "delStore" \in Labels
  BY <1>2, <1>3 DEF Job, Labels
<1>5. JobOK(store', origin', nextId', "delStore", j)
  BY <1>2 DEF JobOK, AddOK, WriteBackOK, DeleteOK, ScanOK, ResetOK, ResetLabels, ListOK, Job
<1> HIDE DEF j
<1> QED
  BY <1>1, <1>4, <1>5, CallStep DEF ResetDelete, j

\* delete may return, to its caller or to reset, once the record is gone.
LEMMA AfterDeleteStep ==
  ASSUME EngineInv, NEW t \in Threads, AfterDelete(t), Effect,
         pc[t] \in {"delStore", "delLog"}, ~Present(store', job[t].id)
  PROVE  EngineInv'
<1>1. JobOK(store', origin', nextId', pc[t], job[t]) /\ job[t] \in Job
  BY OldJob
<1>2. CASE job[t].op = "reset"
  <2> DEFINE j == [job[t] EXCEPT !.id = 0, !.logs = FALSE]
  <2>1. j \in Job /\ "reset" \in Labels
    BY <1>1 DEF Job, Labels
  <2>2. ResetOK(store', "reset", j)
    BY <1>1, <1>2 DEF JobOK, ResetOK, ResetLabels, Job
  <2>3. JobOK(store', origin', nextId', "reset", j)
    BY <1>1, <2>2 DEF JobOK, AddOK, WriteBackOK, DeleteOK, ScanOK, ListOK, Job
  <2>4. Goto(t, "reset", j)
    BY <1>2 DEF AfterDelete
  <2> HIDE DEF j
  <2> QED
    BY <2>1, <2>3, <2>4, CallStep
<1>3. CASE job[t].op # "reset"
  BY <1>3, ReturnStep DEF AfterDelete
<1> QED
  BY <1>2, <1>3

LEMMA DeleteStoreStep ==
  ASSUME EngineInv, NEW t \in Threads, DeleteStore(t)
  PROVE  EngineInv'
<1>1. /\ pc[t] = "delStore" /\ Write(job[t].id, NoRecord)
      /\ UNCHANGED <<history, nextId, origin>>
  BY DEF DeleteStore, At
<1>2. job[t].id \in Ids
  BY <1>1 DEF EngineInv, JobOK, DeleteOK, Used
<1>3. Effect /\ ~Present(store', job[t].id)
  BY <1>1, <1>2, RemoveEffect
<1>4. CASE Goto(t, "delLog", job[t])
  <2>1. JobOK(store', origin', nextId', "delStore", job[t]) /\ job[t] \in Job
    BY <1>1, <1>3, OldJob
  <2>2. ResetOK(store', "delLog", job[t])
    BY <1>3, <2>1 DEF JobOK, ResetOK, ResetLabels
  <2>3. JobOK(store', origin', nextId', "delLog", job[t])
    BY <1>3, <2>1, <2>2 DEF JobOK, AddOK, WriteBackOK, DeleteOK, ScanOK, ListOK
  <2> QED
    BY <1>3, <1>4, <2>1, <2>3, CallStep DEF Labels
<1>5. CASE AfterDelete(t)
  BY <1>1, <1>3, <1>5, AfterDeleteStep
<1>6. CASE LostReply(t, "delete")
  BY <1>3, <1>6, ReturnStep DEF LostReply
<1> QED
  BY <1>4, <1>5, <1>6 DEF DeleteStore

LEMMA DeleteLogStep ==
  ASSUME EngineInv, NEW t \in Threads, DeleteLog(t)
  PROVE  EngineInv'
<1>1. /\ pc[t] = "delLog" /\ Log(job[t].id, "Deleted")
      /\ UNCHANGED <<store, nextId, origin>>
  BY DEF DeleteLog, At
<1>2. job[t].id \in Used(nextId) /\ ~Present(store, job[t].id)
  BY <1>1 DEF EngineInv, JobOK, DeleteOK
<1>3. Effect
  BY <1>1, <1>2, LogEffect DEF Events
<1> QED
  BY <1>1, <1>2, <1>3, AfterDeleteStep DEF DeleteLog, Present

-----------------------------------------------------------------------------
(* reset                                                                   *)

LEMMA ResetBeginStep ==
  ASSUME EngineInv, NEW t \in Threads, ResetBegin(t)
  PROVE  EngineInv'
<1>1. Effect /\ UNCHANGED <<store, history, nextId, origin>>
  BY NoEffect DEF ResetBegin
<1>2. PICK tags \in Scopes \cup {{}}, m \in Metas \cup {NoValue} :
        Goto(t, "reset", [NoJob EXCEPT !.op = "reset", !.query = [tags |-> tags, meta |-> m],
                                       !.todo = Live, !.seen = Live])
  BY DEF ResetBegin
<1> DEFINE j == [NoJob EXCEPT !.op = "reset", !.query = [tags |-> tags, meta |-> m],
                              !.todo = Live, !.seen = Live]
<1>3. j \in Job /\ "reset" \in Labels
  BY LiveIsUsed, NoJobType, ScopesAssumption DEF ResetBegin, Begin, Job, NoJob, Labels, Query
<1>4. Live \subseteq Used(nextId')
  BY <1>1, LiveIsUsed
<1>5. JobOK(store', origin', nextId', "reset", j)
  BY <1>4 DEF JobOK, AddOK, WriteBackOK, DeleteOK, ScanOK, ResetOK, ListOK, NoJob
<1> HIDE DEF j
<1> QED
  BY <1>1, <1>2, <1>3, <1>5, CallStep DEF j

LEMMA ResetGetStep ==
  ASSUME EngineInv, NEW t \in Threads, ResetGet(t)
  PROVE  EngineInv'
<1>1. Effect /\ UNCHANGED <<store, history, nextId, origin>>
  BY NoEffect DEF ResetGet
<1>2. /\ JobOK(store', origin', nextId', "reset", job[t])
      /\ job[t] \in Job
  BY <1>1, OldJob DEF ResetGet, At
<1>3. ASSUME NEW i \in job[t].todo, i \in Live, Matches(job[t].query, store[i]),
             Goto(t, "delGet", [job[t] EXCEPT !.id = i, !.todo = @ \ {i}])
      PROVE  EngineInv'
  <2> DEFINE j == [job[t] EXCEPT !.id = i, !.todo = @ \ {i}]
  <2>1. j \in Job /\ "delGet" \in Labels
    BY <1>2 DEF Job, Labels
  <2>2. ResetOK(store', "delGet", j)
    BY <1>1, <1>2, <1>3 DEF JobOK, ResetOK, ResetLabels, Job, Live, Present, Matches
  <2>3. JobOK(store', origin', nextId', "delGet", j)
    BY <1>2, <2>2 DEF JobOK, AddOK, WriteBackOK, DeleteOK, ScanOK, ListOK, Job
  <2> HIDE DEF j
  <2> QED
    BY <1>1, <1>3, <2>1, <2>3, CallStep DEF j
<1>4. ASSUME NEW i \in job[t].todo, ~(i \in Live /\ Matches(job[t].query, store[i])),
             Goto(t, "reset", [job[t] EXCEPT !.todo = @ \ {i}])
      PROVE  EngineInv'
  <2> DEFINE j == [job[t] EXCEPT !.todo = @ \ {i}]
  <2>1. j \in Job /\ "reset" \in Labels
    BY <1>2 DEF Job, Labels
  <2>2. \/ ~Present(store', i)
        \/ job[t].query.meta # NoValue
        \/ ~(job[t].query.tags \subseteq store'[i].tags)
    BY <1>1, <1>2, <1>4 DEF Live, Present, Matches, Job
  <2>3. ResetOK(store', "reset", j)
    BY <1>2, <2>2 DEF JobOK, ResetOK, ResetLabels, Job
  <2>4. JobOK(store', origin', nextId', "reset", j)
    BY <1>2, <2>3 DEF JobOK, AddOK, WriteBackOK, DeleteOK, ScanOK, ListOK, Job
  <2> HIDE DEF j
  <2> QED
    BY <1>1, <1>4, <2>1, <2>4, CallStep DEF j
<1> QED
  BY <1>3, <1>4 DEF ResetGet

LEMMA ResetReturnStep ==
  ASSUME EngineInv, NEW t \in Threads, ResetReturn(t)
  PROVE  EngineInv'
BY NoEffect, ReturnStep DEF ResetReturn

-----------------------------------------------------------------------------
(* list                                                                    *)

LEMMA ListBeginStep ==
  ASSUME EngineInv, NEW t \in Threads, ListBegin(t)
  PROVE  EngineInv'
<1>1. Effect /\ UNCHANGED <<store, history, nextId, origin>>
  BY NoEffect DEF ListBegin
<1>2. PICK tags \in Scopes, show \in BOOLEAN :
        Goto(t, "list", [NoJob EXCEPT !.op = "list", !.query = [tags |-> tags, meta |-> NoValue],
                                      !.show = show, !.todo = Live])
  BY DEF ListBegin
<1> DEFINE j == [NoJob EXCEPT !.op = "list", !.query = [tags |-> tags, meta |-> NoValue],
                              !.show = show, !.todo = Live]
<1>3. j \in Job /\ "list" \in Labels
  BY LiveIsUsed, NoJobType, ScopesAssumption, ZenonT(30) DEF ListBegin, Begin, Job, NoJob, Labels, Query
<1>4. Live \subseteq Used(nextId')
  BY <1>1, LiveIsUsed
<1>5. JobOK(store', origin', nextId', "list", j)
  BY <1>4 DEF JobOK, AddOK, WriteBackOK, DeleteOK, ScanOK, ResetOK, ResetLabels, ListOK, NoJob
<1> HIDE DEF j
<1> QED
  BY <1>1, <1>2, <1>3, <1>5, CallStep DEF j

LEMMA ListGetStep ==
  ASSUME EngineInv, NEW t \in Threads, ListGet(t)
  PROVE  EngineInv'
<1>1. Effect /\ UNCHANGED <<store, history, nextId, origin>>
  BY NoEffect DEF ListGet
<1>2. /\ JobOK(store', origin', nextId', "list", job[t])
      /\ job[t] \in Job
  BY <1>1, OldJob DEF ListGet, At
<1>3. ASSUME NEW i \in job[t].todo,
             (i \in Live => ListKeeps(job[t].query, job[t].show, store[i])) \/ "get" \in Faults,
             Goto(t, "list", [job[t] EXCEPT !.todo = @ \ {i}, !.out = @ \cup {i}])
      PROVE  EngineInv'
  <2> DEFINE j == [job[t] EXCEPT !.todo = @ \ {i}, !.out = @ \cup {i}]
  <2>1. j \in Job /\ "list" \in Labels
    BY <1>2 DEF Job, Labels
  <2>2. ("get" \notin Faults /\ Present(store', i)) =>
          store'[i].kind = "memory" /\ job[t].query.tags \subseteq store'[i].tags
    <3> SUFFICES ASSUME "get" \notin Faults, Present(store', i)
                 PROVE  store'[i].kind = "memory" /\ job[t].query.tags \subseteq store'[i].tags
      OBVIOUS
    <3>1. i \in Ids
      BY <1>2 DEF Job
    <3>2. ListKeeps(job[t].query, job[t].show, store[i])
      BY <1>1, <1>3, <3>1 DEF Live, Present
    <3>3. store[i] \in Record
      BY <1>1, <3>1 DEF EngineInv, TypeOK, Present
    <3> QED
      BY <1>1, <3>2, <3>3 DEF ListKeeps, IsEntityRecord, Matches, Record
  <2>3. ListOK(store', "list", j)
    BY <1>2, <2>2 DEF JobOK, ListOK, Job
  <2>4. JobOK(store', origin', nextId', "list", j)
    BY <1>2, <2>3 DEF JobOK, AddOK, WriteBackOK, DeleteOK, ScanOK, ResetOK, ResetLabels, Job
  <2> HIDE DEF j
  <2> QED
    BY <1>1, <1>3, <2>1, <2>4, CallStep DEF j
<1>4. ASSUME NEW i \in job[t].todo, Goto(t, "list", [job[t] EXCEPT !.todo = @ \ {i}])
      PROVE  EngineInv'
  <2> DEFINE j == [job[t] EXCEPT !.todo = @ \ {i}]
  <2>1. j \in Job /\ "list" \in Labels
    BY <1>2 DEF Job, Labels
  <2>2. JobOK(store', origin', nextId', "list", j)
    BY <1>2 DEF JobOK, AddOK, WriteBackOK, DeleteOK, ScanOK, ResetOK, ResetLabels, ListOK, Job
  <2> HIDE DEF j
  <2> QED
    BY <1>1, <1>4, <2>1, <2>2, CallStep DEF j
<1> QED
  BY <1>3, <1>4 DEF ListGet

LEMMA ListReturnStep ==
  ASSUME EngineInv, NEW t \in Threads, ListReturn(t)
  PROVE  EngineInv'
BY NoEffect, ReturnStep DEF ListReturn

LEMMA CallFailsStep ==
  ASSUME EngineInv, NEW t \in Threads, CallFails(t) \/ OutOfIds(t)
  PROVE  EngineInv'
BY NoEffect, ReturnStep DEF CallFails, OutOfIds

\* A step changes the control state of its own thread only.
LEMMA OtherThreads ==
  ASSUME EngineInv, NEW u \in Threads, Call(u) \/ Step(u) \/ CallFails(u),
         NEW t \in Threads, u # t
  PROVE  pc'[t] = pc[t]
<1>1. \A l, j : Goto(u, l, j) => pc'[t] = pc[t]
  BY DEF Goto, EngineInv, TypeOK
<1>2. (NextItem(u) \/ NextEntity(u) \/ AfterDelete(u) \/ Return(u)) => pc'[t] = pc[t]
  BY <1>1 DEF NextItem, NextEntity, AfterDelete, Return
<1>3. CASE Call(u)
  BY <1>1, <1>3 DEF Call, AddBegin, ProceduralBegin, UpdateBegin, DeleteBegin, ResetBegin,
     ListBegin
<1>4. CASE Step(u)
  BY <1>1, <1>2, <1>4 DEF Step, AddDedup, AddInsert, AddLog, LinkList, LinkScan, LinkUpdate,
     LinkInsert, UpdateStore, ResetDelete, DeleteStore, DeleteLog, ResetGet, ResetReturn,
     ListGet, ListReturn, OutOfIds, LostReply
<1>5. CASE CallFails(u)
  BY <1>2, <1>5 DEF CallFails
<1> QED
  BY <1>3, <1>4, <1>5

-----------------------------------------------------------------------------
(* The invariant and what follows from it.                                 *)

LEMMA InitialState == Init => EngineInv
<1> SUFFICES ASSUME Init
             PROVE  EngineInv
  OBVIOUS
<1>1. TypeOK
  BY MaxIdAssumption, NoJobType, EmptySeq DEF Init, TypeOK
<1>2. StoreOK(store, origin, nextId)
  BY DEF Init, StoreOK, Present
<1>3. HistoryOK(store, nextId, history)
  BY EmptySeq DEF Init, HistoryOK
<1>4. JobOK(store, origin, nextId, "idle", NoJob)
  BY DEF JobOK, AddOK, WriteBackOK, DeleteOK, ScanOK, ResetOK, ResetLabels, ListOK, NoJob, Used
<1> QED
  BY <1>1, <1>2, <1>3, <1>4 DEF Init, EngineInv

LEMMA EveryStep == EngineInv /\ [Next]_vars => EngineInv'
<1> SUFFICES ASSUME EngineInv, [Next]_vars
             PROVE  EngineInv'
  OBVIOUS
<1>1. ASSUME NEW t \in Threads, Call(t)
      PROVE  EngineInv'
  BY <1>1, AddBeginStep, ProceduralBeginStep, UpdateBeginStep, DeleteBeginStep,
     ResetBeginStep, ListBeginStep DEF Call
<1>2. ASSUME NEW t \in Threads, Step(t)
      PROVE  EngineInv'
  BY <1>2, AddDedupStep, AddInsertStep, AddLogStep, LinkListStep, LinkScanStep,
     LinkUpdateStep, LinkInsertStep, UpdateStoreStep, ResetDeleteStep, DeleteStoreStep,
     DeleteLogStep, ResetGetStep, ResetReturnStep, ListGetStep, ListReturnStep,
     CallFailsStep DEF Step
<1>3. CASE UNCHANGED vars
  BY <1>3 DEF vars, EngineInv, TypeOK, StoreOK, HistoryOK, JobOK, AddOK, WriteBackOK,
     DeleteOK, ScanOK, ResetOK, ListOK, LinksOK, Used, Present
<1> QED
  BY <1>1, <1>2, <1>3, CallFailsStep DEF Next

\* The engine keeps its inductive invariant, for any number of threads, any
\* calls and any failing store calls.
THEOREM Invariance == Spec => []EngineInv
BY InitialState, EveryStep, PTL DEF Spec

\* The variables keep their types.
THEOREM TypeCorrect == Spec => []TypeOK
<1>1. EngineInv => TypeOK
  BY DEF EngineInv
<1> QED
  BY <1>1, Invariance, PTL

\* Once the history of an id says Deleted, no record has it again: no add,
\* update or link that was under way brings it back.
THEOREM DeletedStaysDeleted == Spec => []DeletedIsFinal
<1>1. EngineInv => DeletedIsFinal
  BY DEF EngineInv, HistoryOK, DeletedIsFinal, Logged, Live, Present
<1> QED
  BY <1>1, Invariance, PTL

\* A record never moves to another user, agent or run.
THEOREM ScopeStaysFixed == Spec => []ScopeIsFixed
<1>1. EngineInv => ScopeIsFixed
  BY DEF EngineInv, StoreOK, ScopeIsFixed, Live, Present
<1> QED
  BY <1>1, Invariance, PTL

\* Entity records link only memories of their own scope, although their
\* links are updated by reading, merging and writing back without a lock.
THEOREM LinksAreScoped == Spec => []LinksStayInScope
<1>1. EngineInv => LinksStayInScope
  BY LiveIsUsed DEF EngineInv, StoreOK, LinksOK, LinksStayInScope, Live, Present
<1> QED
  BY <1>1, Invariance, PTL

\* When reset returns its count, what it found in the scope is gone.
THEOREM ResetCompletes == Spec => []ResetIsComplete
<1>1. EngineInv => ResetIsComplete
  <2> SUFFICES ASSUME EngineInv, NEW t \in Threads, pc[t] = "reset", job[t].todo = {},
                      job[t].query.meta = NoValue, NEW i \in job[t].seen, i \in Live
               PROVE  ~Matches(job[t].query, store[i])
    BY DEF ResetIsComplete, At
  <2>1. JobOK(store, origin, nextId, "reset", job[t]) /\ job[t] \in Job
    BY DEF EngineInv, TypeOK
  <2>2. job[t].op = "reset"
    BY <2>1 DEF JobOK, ResetOK
  <2> QED
    BY <2>1, <2>2 DEF JobOK, ResetOK, ResetLabels, Live, Present, Matches
<1> QED
  BY <1>1, Invariance, PTL

\* If reading a record cannot fail, every id that list returns and that still
\* has a record is a memory of the requested scope.
THEOREM ListingMatches == "get" \notin Faults => (Spec => []ListedRecordsMatch)
<1> SUFFICES ASSUME "get" \notin Faults
             PROVE  Spec => []ListedRecordsMatch
  OBVIOUS
<1>1. EngineInv => ListedRecordsMatch
  BY DEF EngineInv, JobOK, ListOK, ListedRecordsMatch, At, Live, Present, IsEntityRecord
<1> QED
  BY <1>1, Invariance, PTL

\* reset removes a record only if the record carries the whole scope, even
\* though it decided so in an earlier step.
THEOREM ResetIsScoped == Spec => ResetStaysInScope
<1>1. EngineInv /\ [Next]_vars =>
        [\A t \in Threads :
           (At(t, "delStore") /\ pc'[t] # "delStore" /\ job[t].op = "reset") =>
             \A i \in Live : store'[i] = NoRecord => job[t].query.tags \subseteq store[i].tags]_vars
  <2> SUFFICES ASSUME EngineInv, Next, NEW t \in Threads, pc[t] = "delStore",
                      pc'[t] # "delStore", job[t].op = "reset",
                      NEW i \in Live, store'[i] = NoRecord
               PROVE  job[t].query.tags \subseteq store[i].tags
    BY DEF At, vars
  <2>1. ResetOK(store, "delStore", job[t])
    BY DEF EngineInv, JobOK
  <2>2. Step(t) \/ CallFails(t)
    <3>1. PICK u \in Threads : Call(u) \/ Step(u) \/ CallFails(u)
      BY DEF Next
    <3>2. CASE u # t
      BY <3>1, <3>2, OtherThreads
    <3>3. CASE u = t
      BY <3>1, <3>3 DEF Call, Begin, At, AddBegin, ProceduralBegin, UpdateBegin,
         DeleteBegin, ResetBegin, ListBegin
    <3> QED
      BY <3>2, <3>3
  <2>3. \/ UNCHANGED store
        \/ Write(job[t].id, NoRecord)
    BY <2>2 DEF Step, At, AddDedup, AddInsert, AddLog, LinkList, LinkScan, LinkUpdate,
       LinkInsert, UpdateStore, ResetDelete, DeleteStore, DeleteLog, ResetGet, ResetReturn,
       ListGet, ListReturn, CallFails, OutOfIds
  <2>4. i \in Ids /\ store[i] # NoRecord
    BY DEF Live
  <2>5. i = job[t].id
    BY <2>3, <2>4 DEF Write, EngineInv, TypeOK
  <2> QED
    BY <2>1, <2>4, <2>5 DEF ResetOK, Present
<1> QED
  BY <1>1, Invariance, PTL DEF Spec, ResetStaysInScope

-----------------------------------------------------------------------------
(* Where a call goes on.                                                   *)

\* The labels at which a call neither owes a history entry nor is about to
\* write a copy back or to delete.
PlainLabels == {"idle", "dedup", "insert", "linkList", "linkScan", "reset", "delGet", "list"}

\* The labels of add.
AddLabels == {"dedup", "insert", "log", "linkList", "linkScan", "linkUpdate"}

LEMMA GotoThreads ==
  ASSUME EngineInv, NEW t \in Threads, NEW l, NEW j, Goto(t, l, j)
  PROVE  /\ pc'[t] = l /\ job'[t] = j
         /\ \A u \in Threads \ {t} : pc'[u] = pc[u] /\ job'[u] = job[u]
BY DEF EngineInv, TypeOK, Goto

LEMMA NextItemMoves ==
  ASSUME NEW t, NextItem(t)
  PROVE  \E l \in {"idle", "dedup"} : \E j : Goto(t, l, j)
BY DEF NextItem, Return

LEMMA NextEntityMoves ==
  ASSUME NEW t, NextEntity(t)
  PROVE  \E l \in {"idle", "dedup", "linkList"} : \E j : Goto(t, l, j)
BY NextItemMoves DEF NextEntity

LEMMA AfterDeleteMoves ==
  ASSUME NEW t, AfterDelete(t)
  PROVE  \E l \in {"idle", "reset"} : \E j : Goto(t, l, j)
BY DEF AfterDelete, Return

\* A call that begins or goes on without a write, to a plain label.
PlainMove(t) ==
  /\ UNCHANGED <<store, history, nextId>>
  /\ pc[t] \notin {"log", "delLog"}
  /\ \E l \in PlainLabels : \E j :
       /\ Goto(t, l, j)
       /\ l \in AddLabels => t \in Adders \/ pc[t] \in AddLabels
       /\ l = "insert" => \/ "procedural" \in Ops
                          \/ j = job[t] /\ (~Known(t) \/ "search" \in Faults)

LEMMA AddMoves ==
  ASSUME NEW t, AddBegin(t) \/ ProceduralBegin(t) \/ AddDedup(t) \/ LinkList(t)
  PROVE  PlainMove(t)
<1>1. CASE AddBegin(t)
  <2>1. \E l \in {"dedup"} : \E j : Goto(t, l, j)
    BY <1>1 DEF AddBegin
  <2> QED
    BY <1>1, <2>1 DEF AddBegin, Begin, At, PlainMove, PlainLabels
<1>2. CASE ProceduralBegin(t)
  <2>1. \E l \in {"insert"} : \E j : Goto(t, l, j)
    BY <1>2 DEF ProceduralBegin
  <2> QED
    BY <1>2, <2>1 DEF ProceduralBegin, Begin, At, PlainMove, PlainLabels
<1>3. CASE AddDedup(t)
  <2>1. CASE NextItem(t)
    BY <1>3, <2>1, NextItemMoves DEF AddDedup, At, PlainMove, PlainLabels, AddLabels
  <2>2. CASE (~Known(t) \/ "search" \in Faults) /\ Goto(t, "insert", job[t])
    BY <1>3, <2>2 DEF AddDedup, At, PlainMove, PlainLabels, AddLabels
  <2> QED
    BY <1>3, <2>1, <2>2 DEF AddDedup
<1>4. CASE LinkList(t)
  <2>1. \E l \in {"linkScan"} : \E j : Goto(t, l, j)
    BY <1>4 DEF LinkList
  <2> QED
    BY <1>4, <2>1 DEF LinkList, At, PlainMove, PlainLabels, AddLabels
<1> QED
  BY <1>1, <1>2, <1>3, <1>4

LEMMA ScanMoves ==
  ASSUME NEW t, ResetBegin(t) \/ ResetGet(t) \/ ResetReturn(t)
                  \/ ListBegin(t) \/ ListGet(t) \/ ListReturn(t)
  PROVE  PlainMove(t)
<1>1. CASE ResetBegin(t)
  <2>1. \E l \in {"reset"} : \E j : Goto(t, l, j)
    BY <1>1 DEF ResetBegin
  <2> QED
    BY <1>1, <2>1 DEF ResetBegin, Begin, At, PlainMove, PlainLabels, AddLabels
<1>2. CASE ResetGet(t)
  <2>1. \E l \in {"reset", "delGet"} : \E j : Goto(t, l, j)
    BY <1>2 DEF ResetGet
  <2> QED
    BY <1>2, <2>1 DEF ResetGet, At, PlainMove, PlainLabels, AddLabels
<1>3. CASE ListBegin(t)
  <2>1. \E l \in {"list"} : \E j : Goto(t, l, j)
    BY <1>3 DEF ListBegin
  <2> QED
    BY <1>3, <2>1 DEF ListBegin, Begin, At, PlainMove, PlainLabels, AddLabels
<1>4. CASE ListGet(t)
  <2>1. \E l \in {"list"} : \E j : Goto(t, l, j)
    BY <1>4 DEF ListGet
  <2> QED
    BY <1>4, <2>1 DEF ListGet, At, PlainMove, PlainLabels, AddLabels
<1>5. CASE ResetReturn(t) \/ ListReturn(t)
  BY <1>5 DEF ResetReturn, ListReturn, Return, At, PlainMove, PlainLabels, AddLabels
<1> QED
  BY <1>1, <1>2, <1>3, <1>4, <1>5

LEMMA EndMoves ==
  ASSUME NEW t, CallFails(t) \/ OutOfIds(t)
  PROVE  PlainMove(t)
<1>1. CASE CallFails(t)
  <2>1. pc[t] \notin {"log", "delLog"}
    BY <1>1 DEF CallFails, Pending, At
  <2> QED
    BY <1>1, <2>1 DEF CallFails, Return, PlainMove, PlainLabels, AddLabels
<1>2. CASE OutOfIds(t)
  BY <1>2 DEF OutOfIds, Return, At, PlainMove, PlainLabels, AddLabels
<1> QED
  BY <1>1, <1>2

\* A scan goes on, or has found the record to write back.
LEMMA LinkScanMoves ==
  ASSUME NEW t, LinkScan(t)
  PROVE  \/ PlainMove(t)
         \/ /\ UNCHANGED <<store, history, nextId>> /\ pc[t] = "linkScan"
            /\ \E i \in Live :
                 /\ IsEntityRecord(store[i])
                 /\ Goto(t, "linkUpdate", [job[t] EXCEPT !.id = i, !.todo = {},
                               !.copy = [store[i] EXCEPT !.links = @ \cup {job[t].mem}]])
<1>1. /\ UNCHANGED <<store, history, nextId>> /\ pc[t] = "linkScan"
  BY DEF LinkScan, At
<1>2. ASSUME NEW l \in {"idle", "dedup", "linkList", "linkScan"}, NEW j, Goto(t, l, j)
      PROVE  PlainMove(t)
  BY <1>1, <1>2 DEF PlainMove, PlainLabels, AddLabels
<1>3. CASE NextEntity(t)
  BY <1>2, <1>3, NextEntityMoves
<1>4. CASE \E i : Goto(t, "linkScan", [job[t] EXCEPT !.todo = @ \ {i}])
  BY <1>2, <1>4
<1> QED
  BY <1>1, <1>3, <1>4 DEF LinkScan, IsEntityFor

-----------------------------------------------------------------------------
(* The history.  A memory that was inserted and not logged, or deleted and *)
(* not logged, is owed to it by a call that is about to pay.               *)

LoggedIn(h, i, event) == \E n \in 1 .. Len(h[i]) : h[i][n] = event

\* Added is in the history of i, or a call is about to put it there.
AddedIn(h, l, j, i) ==
  LoggedIn(h, i, "Added") \/ \E t \in Threads : l[t] = "log" /\ j[t].mem = i

DeletedIn(h, l, j, i) ==
  LoggedIn(h, i, "Deleted") \/ \E t \in Threads : l[t] = "delLog" /\ j[t].id = i

\* A memory has a content, so its deletion is logged.
Filled(r) == r.kind = "memory" => r.content # NoValue

\* The part about one id: only memories are Added, and one that is gone is
\* Deleted.
IdComplete(st, nx, h, l, j, i) ==
  /\ Present(st, i) => /\ Filled(st[i])
                       /\ st[i].kind = "memory" <=> AddedIn(h, l, j, i)
  /\ AddedIn(h, l, j, i) => i \in Used(nx)
  /\ (AddedIn(h, l, j, i) /\ ~Present(st, i)) => DeletedIn(h, l, j, i)

\* The part about one call.
CallComplete(st, l, j) ==
  /\ l \in {"linkUpdate", "updStore"} => Filled(j.copy)
  /\ (l = "delStore" /\ Present(st, j.id) /\ st[j.id].kind = "memory") => j.logs

CompleteInv ==
  /\ \A i \in Ids : IdComplete(store, nextId, history, pc, job, i)
  /\ \A t \in Threads : CallComplete(store, pc[t], job[t])

\* A step of one call does not disturb the others.
LEMMA CompleteStep ==
  ASSUME EngineInv, CompleteInv, Effect, NEW t \in Threads, NEW l, NEW j, Goto(t, l, j),
         \A i \in Ids : IdComplete(store', nextId', history', pc', job', i),
         CallComplete(store', l, j)
  PROVE  CompleteInv'
<1>1. /\ pc'[t] = l /\ job'[t] = j
      /\ \A u \in Threads \ {t} : pc'[u] = pc[u] /\ job'[u] = job[u]
  BY GotoThreads
<1>2. ASSUME NEW u \in Threads \ {t} PROVE CallComplete(store', pc[u], job[u])
  <2>1. CallComplete(store, pc[u], job[u])
    BY DEF CompleteInv
  <2>2. pc[u] = "delStore" => job[u].id \in Used(nextId)
    BY DEF EngineInv, JobOK, DeleteOK
  <2> QED
    BY <2>1, <2>2 DEF CallComplete, Effect, Evolves
<1> QED
  BY <1>1, <1>2 DEF CompleteInv

\* Nothing is logged, and no call begins or ends to owe an entry.
LEMMA SameEntries ==
  ASSUME EngineInv, NEW t \in Threads, NEW l, NEW j, Goto(t, l, j), history' = history,
         pc[t] \notin {"log", "delLog"}, l \notin {"log", "delLog"}, NEW i
  PROVE  /\ AddedIn(history', pc', job', i) <=> AddedIn(history, pc, job, i)
         /\ DeletedIn(history', pc', job', i) <=> DeletedIn(history, pc, job, i)
BY GotoThreads DEF AddedIn, DeletedIn, LoggedIn

\* Such a step, if it changes no record but by another one of the same kind.
LEMMA QuietComplete ==
  ASSUME EngineInv, CompleteInv, Effect, NEW t \in Threads, NEW l, NEW j, Goto(t, l, j),
         UNCHANGED <<history, nextId>>, pc[t] \notin {"log", "delLog"}, l \notin {"log", "delLog"},
         \A i \in Ids : Present(store', i) =>
           Present(store, i) /\ store'[i].kind = store[i].kind /\ Filled(store'[i]),
         \A i \in Ids : Present(store, i) => Present(store', i) \/ store[i].kind # "memory",
         CallComplete(store', l, j)
  PROVE  CompleteInv'
<1>1. ASSUME NEW i \in Ids PROVE IdComplete(store', nextId', history', pc', job', i)
  <2>1. IdComplete(store, nextId, history, pc, job, i)
    BY DEF CompleteInv
  <2> QED
    BY <2>1, SameEntries DEF IdComplete
<1> QED
  BY <1>1, CompleteStep

LEMMA PlainComplete ==
  ASSUME EngineInv, CompleteInv, NEW t \in Threads, PlainMove(t), Effect
  PROVE  CompleteInv'
<1>1. PICK l \in PlainLabels : \E j : Goto(t, l, j)
  BY DEF PlainMove
<1>2. PICK j : Goto(t, l, j)
  BY <1>1
<1>3. /\ l \notin {"log", "delLog"} /\ CallComplete(store', l, j)
      /\ pc[t] \notin {"log", "delLog"} /\ UNCHANGED <<store, history, nextId>>
  BY DEF PlainLabels, CallComplete, PlainMove
<1>4. \A i \in Ids : Present(store, i) => Filled(store[i])
  BY DEF CompleteInv, IdComplete
<1>5. \A i \in Ids : Present(store', i) =>
         Present(store, i) /\ store'[i].kind = store[i].kind /\ Filled(store'[i])
  BY <1>3, <1>4
<1> QED
  BY <1>2, <1>3, <1>5, QuietComplete

\* A copy that takes the place of its record.
LEMMA WriteBackComplete ==
  ASSUME EngineInv, CompleteInv, NEW t \in Threads, pc[t] \in {"linkUpdate", "updStore"},
         job[t].id \in Live, Write(job[t].id, job[t].copy), UNCHANGED <<history, nextId, origin>>,
         NEW l \in PlainLabels, NEW j, Goto(t, l, j)
  PROVE  CompleteInv'
<1>1. Effect
  BY WriteBackEffect
<1>2. WriteBackOK(store, origin, nextId, pc[t], job[t]) /\ CallComplete(store, pc[t], job[t])
  BY DEF EngineInv, JobOK, CompleteInv
<1>3. /\ store' = [store EXCEPT ![job[t].id] = job[t].copy]
      /\ store \in [Ids -> Record \cup {NoRecord}] /\ job[t].id \in Ids
      /\ Present(store, job[t].id)
  BY DEF Write, EngineInv, TypeOK, Live, Present
<1>4. /\ job[t].copy \in Record /\ job[t].copy.kind = store[job[t].id].kind
      /\ Filled(job[t].copy)
  BY <1>2, <1>3 DEF WriteBackOK, CallComplete
<1>5. Present(store', job[t].id)
  BY <1>3, <1>4, NoRecordAssumption DEF Present
<1>6. \A i \in Ids : Present(store, i) => Filled(store[i])
  BY DEF CompleteInv, IdComplete
<1>7. \A i \in Ids : Present(store', i) =>
         Present(store, i) /\ store'[i].kind = store[i].kind /\ Filled(store'[i])
  BY <1>3, <1>4, <1>6 DEF Present
<1>8. \A i \in Ids : Present(store, i) => Present(store', i)
  BY <1>3, <1>5 DEF Present
<1>9. l \notin {"log", "delLog"} /\ CallComplete(store', l, j)
  BY DEF PlainLabels, CallComplete
<1> QED
  BY <1>1, <1>7, <1>8, <1>9, QuietComplete

\* An insert of a memory, which is owed its entry, or of an entity record,
\* which is not.
LEMMA InsertComplete ==
  ASSUME EngineInv, CompleteInv, NEW t \in Threads, NEW r \in Record, InsertNew(r), Effect,
         Filled(r), NEW l, NEW j, Goto(t, l, j), pc[t] \notin {"log", "delLog"},
         l \in PlainLabels \cup {"log"}, r.kind = "memory" <=> l = "log",
         l = "log" => j.mem = nextId
  PROVE  CompleteInv'
<1>1. /\ pc'[t] = l /\ job'[t] = j
      /\ \A u \in Threads \ {t} : pc'[u] = pc[u] /\ job'[u] = job[u]
  BY GotoThreads
<1>2. /\ store' = [store EXCEPT ![nextId] = r] /\ history' = history
      /\ nextId' = nextId + 1 /\ nextId \in Ids
      /\ store \in [Ids -> Record \cup {NoRecord}]
  BY DEF InsertNew, Write, EngineInv, TypeOK
<1>3. CallComplete(store', l, j)
  BY DEF PlainLabels, CallComplete
<1>4. /\ ~Present(store, nextId) /\ nextId \notin Used(nextId)
      /\ nextId \in Used(nextId') /\ Used(nextId) \subseteq Used(nextId')
  BY <1>2 DEF EngineInv, StoreOK, Used, Ids
<1>5. ASSUME NEW i \in Ids
      PROVE  AddedIn(history', pc', job', i) <=>
               AddedIn(history, pc, job, i) \/ (r.kind = "memory" /\ i = nextId)
  BY <1>1, <1>2 DEF AddedIn, LoggedIn
<1>6. ASSUME NEW i \in Ids
      PROVE  DeletedIn(history, pc, job, i) => DeletedIn(history', pc', job', i)
  BY <1>1, <1>2 DEF DeletedIn, LoggedIn
<1>7. ASSUME NEW i \in Ids PROVE IdComplete(store', nextId', history', pc', job', i)
  <2>1. IdComplete(store, nextId, history, pc, job, i)
    BY DEF CompleteInv
  <2>2. CASE i = nextId
    <3>1. ~AddedIn(history, pc, job, i)
      BY <1>4, <2>1, <2>2 DEF IdComplete
    <3>2. Present(store', i) /\ store'[i] = r
      BY <1>2, <2>2, NoRecordAssumption DEF Present
    <3> QED
      BY <1>4, <1>5, <2>2, <3>1, <3>2 DEF IdComplete
  <2>3. CASE i # nextId
    <3>1. store'[i] = store[i] /\ (Present(store', i) <=> Present(store, i))
      BY <1>2, <2>3 DEF Present
    <3> QED
      BY <1>4, <1>5, <1>6, <2>1, <2>3, <3>1 DEF IdComplete
  <2> QED
    BY <2>2, <2>3
<1> QED
  BY <1>3, <1>7, CompleteStep

\* What a call about to insert, or to link, inserts.
LEMMA AddInsertComplete ==
  ASSUME EngineInv, CompleteInv, "insert" \notin Faults, NEW t \in Threads, AddInsert(t)
  PROVE  CompleteInv'
<1> DEFINE r == MemoryRecord(job[t].query, Item(t))
           j == [job[t] EXCEPT !.mem = nextId]
<1>1. JobOK(store, origin, nextId, "insert", job[t]) /\ job[t] \in Job
  BY DEF EngineInv, TypeOK, AddInsert, At
<1>2. Item(t) \in Contents /\ job[t].query \in Query
  BY <1>1, ItemType DEF JobOK, AddOK
<1>3. r \in Record /\ r.links = {} /\ r.kind = "memory" /\ r.content = Item(t)
  BY <1>2 DEF MemoryRecord, Record, Query
<1>4. InsertNew(r) /\ Goto(t, "log", j) /\ pc[t] = "insert"
  BY DEF AddInsert, LostReply, At
<1>5. j.mem = nextId
  BY <1>1 DEF Job
<1>6. Filled(r)
  BY <1>2, <1>3, NoValueAssumption DEF Filled
<1> HIDE DEF r, j
<1>7. Effect
  BY <1>3, <1>4, InsertEffect DEF LinksOK
<1> QED
  BY <1>3, <1>4, <1>5, <1>6, <1>7, InsertComplete

LEMMA LinkInsertComplete ==
  ASSUME EngineInv, CompleteInv, NEW t \in Threads, LinkInsert(t)
  PROVE  CompleteInv'
<1> DEFINE r == EntityRecord(job[t].query, job[t].ent, job[t].mem)
<1>1. JobOK(store, origin, nextId, "linkScan", job[t]) /\ job[t] \in Job
  BY DEF EngineInv, TypeOK, LinkInsert, At
<1>2. /\ job[t].mem \in Used(nextId) /\ origin[job[t].mem] = job[t].query.tags
      /\ job[t].query \in Query /\ job[t].ent \in Entities
  BY <1>1 DEF JobOK, AddOK, Job
<1>3. r \in Record /\ r.links = {job[t].mem} /\ r.tags = job[t].query.tags /\ r.kind = "entity"
  BY <1>2 DEF EntityRecord, Record, Query, Used
<1>4. InsertNew(r) /\ pc[t] = "linkScan"
  BY DEF LinkInsert, At
<1>5. PICK l \in {"idle", "dedup", "linkList"} : \E j : Goto(t, l, j)
  BY NextEntityMoves DEF LinkInsert, LostReply, Return
<1>6. PICK j : Goto(t, l, j)
  BY <1>5
<1> HIDE DEF r
<1>7. Effect
  BY <1>2, <1>3, <1>4, InsertEffect DEF LinksOK
<1>8. Filled(r)
  BY <1>3 DEF Filled
<1> QED
  BY <1>3, <1>4, <1>5, <1>6, <1>7, <1>8, InsertComplete DEF PlainLabels

\* An entry that was owed is paid.
LEMMA LogEntries ==
  ASSUME EngineInv, NEW k \in Used(nextId), NEW e \in Events, Log(k, e)
  PROVE  \A i \in Ids, f \in Events :
           LoggedIn(history', i, f) <=> LoggedIn(history, i, f) \/ (i = k /\ f = e)
<1> SUFFICES ASSUME NEW i \in Ids, NEW f \in Events
             PROVE  LoggedIn(history', i, f) <=> LoggedIn(history, i, f) \/ (i = k /\ f = e)
  OBVIOUS
<1>1. history' = [history EXCEPT ![k] = Append(@, e)] /\ history \in [Ids -> Seq(Events)] /\ k \in Ids
  BY DEF Log, EngineInv, TypeOK, Used
<1>2. CASE i # k
  BY <1>1, <1>2 DEF LoggedIn
<1>3. CASE i = k
  <2> DEFINE s == history[k]
  <2>1. s \in Seq(Events) /\ history'[i] = Append(s, e) /\ history[i] = s
    BY <1>1, <1>3
  <2> HIDE DEF s
  <2>2. /\ Len(s) \in Nat /\ Len(Append(s, e)) = Len(s) + 1
        /\ \A n \in 1 .. Len(s) : Append(s, e)[n] = s[n]
        /\ Append(s, e)[Len(s) + 1] = e
    BY <2>1, AppendProperties, LenProperties
  <2>3. ASSUME NEW n \in 1 .. Len(s) PROVE n \in 1 .. Len(s) + 1
    BY <2>2
  <2>4. ASSUME NEW n \in 1 .. Len(s) + 1 PROVE n \in 1 .. Len(s) \/ n = Len(s) + 1
    BY <2>2
  <2>5. Len(s) + 1 \in 1 .. Len(s) + 1
    BY <2>2
  <2> QED
    BY <1>3, <2>1, <2>2, <2>3, <2>4, <2>5 DEF LoggedIn
<1> QED
  BY <1>2, <1>3

LEMMA AddLogComplete ==
  ASSUME EngineInv, CompleteInv, NEW t \in Threads, AddLog(t)
  PROVE  CompleteInv'
<1>1. /\ pc[t] = "log" /\ Log(job[t].mem, "Added") /\ UNCHANGED <<store, nextId, origin>>
  BY DEF AddLog, At
<1>2. job[t].mem \in Used(nextId)
  BY <1>1 DEF EngineInv, JobOK, AddOK
<1>3. Effect
  BY <1>1, <1>2, LogEffect DEF Events
<1>4. PICK l \in {"idle", "dedup", "linkList"} : \E j : Goto(t, l, j)
  <2>1. CASE NextItem(t)
    BY <2>1, NextItemMoves
  <2> QED
    BY <2>1 DEF AddLog
<1>5. PICK j : Goto(t, l, j)
  BY <1>4
<1>6. /\ pc'[t] = l /\ job'[t] = j
      /\ \A u \in Threads \ {t} : pc'[u] = pc[u] /\ job'[u] = job[u]
  BY <1>5, GotoThreads
<1>7. \A i \in Ids, f \in Events :
        LoggedIn(history', i, f) <=> LoggedIn(history, i, f) \/ (i = job[t].mem /\ f = "Added")
  BY <1>1, <1>2, LogEntries DEF Events
<1>8. ASSUME NEW i \in Ids
      PROVE  AddedIn(history', pc', job', i) <=> AddedIn(history, pc, job, i)
  BY <1>1, <1>4, <1>6, <1>7 DEF AddedIn, Events
<1>9. ASSUME NEW i \in Ids
      PROVE  DeletedIn(history', pc', job', i) <=> DeletedIn(history, pc, job, i)
  BY <1>1, <1>4, <1>6, <1>7 DEF DeletedIn, Events
<1>10. \A i \in Ids : IdComplete(store', nextId', history', pc', job', i)
  BY <1>1, <1>8, <1>9 DEF CompleteInv, IdComplete
<1>11. CallComplete(store', l, j)
  BY <1>4 DEF CallComplete
<1> QED
  BY <1>3, <1>5, <1>10, <1>11, CompleteStep

LEMMA DeleteLogComplete ==
  ASSUME EngineInv, CompleteInv, NEW t \in Threads, DeleteLog(t)
  PROVE  CompleteInv'
<1>1. /\ pc[t] = "delLog" /\ Log(job[t].id, "Deleted") /\ UNCHANGED <<store, nextId, origin>>
  BY DEF DeleteLog, At
<1>2. job[t].id \in Used(nextId) /\ ~Present(store, job[t].id)
  BY <1>1 DEF EngineInv, JobOK, DeleteOK
<1>3. Effect
  BY <1>1, <1>2, LogEffect DEF Events
<1>4. PICK l \in {"idle", "reset"} : \E j : Goto(t, l, j)
  BY AfterDeleteMoves DEF DeleteLog
<1>5. PICK j : Goto(t, l, j)
  BY <1>4
<1>6. /\ pc'[t] = l /\ job'[t] = j
      /\ \A u \in Threads \ {t} : pc'[u] = pc[u] /\ job'[u] = job[u]
  BY <1>5, GotoThreads
<1>7. \A i \in Ids, f \in Events :
        LoggedIn(history', i, f) <=> LoggedIn(history, i, f) \/ (i = job[t].id /\ f = "Deleted")
  BY <1>1, <1>2, LogEntries DEF Events
<1>8. ASSUME NEW i \in Ids
      PROVE  AddedIn(history', pc', job', i) <=> AddedIn(history, pc, job, i)
  BY <1>1, <1>4, <1>6, <1>7 DEF AddedIn, Events
<1>9. ASSUME NEW i \in Ids
      PROVE  DeletedIn(history, pc, job, i) => DeletedIn(history', pc', job', i)
  BY <1>1, <1>4, <1>6, <1>7 DEF DeletedIn, Events
<1>10. \A i \in Ids : IdComplete(store', nextId', history', pc', job', i)
  BY <1>1, <1>8, <1>9 DEF CompleteInv, IdComplete
<1>11. CallComplete(store', l, j)
  BY <1>4 DEF CallComplete
<1> QED
  BY <1>3, <1>5, <1>10, <1>11, CompleteStep

\* A delete of a memory owes its entry from then on.
LEMMA DeleteStoreComplete ==
  ASSUME EngineInv, CompleteInv, "delete" \notin Faults, NEW t \in Threads, DeleteStore(t)
  PROVE  CompleteInv'
<1>1. /\ pc[t] = "delStore" /\ Write(job[t].id, NoRecord)
      /\ UNCHANGED <<history, nextId, origin>>
  BY DEF DeleteStore, At
<1>2. job[t].id \in Ids /\ job[t].id \in Used(nextId)
  BY <1>1 DEF EngineInv, JobOK, DeleteOK, Used
<1>3. Effect /\ ~Present(store', job[t].id)
  BY <1>1, <1>2, RemoveEffect
<1>4. \A i \in Ids \ {job[t].id} : store'[i] = store[i] /\ (Present(store', i) <=> Present(store, i))
  BY <1>1 DEF Write, EngineInv, TypeOK, Present
<1>5. CallComplete(store, "delStore", job[t])
  BY <1>1 DEF CompleteInv
<1>6. \A i \in Ids : Present(store, i) => Filled(store[i])
  BY DEF CompleteInv, IdComplete
<1>7. CASE job[t].logs /\ Goto(t, "delLog", job[t])
  <2>1. /\ pc'[t] = "delLog" /\ job'[t] = job[t]
        /\ \A u \in Threads \ {t} : pc'[u] = pc[u] /\ job'[u] = job[u]
    BY <1>7, GotoThreads
  <2>2. ASSUME NEW i \in Ids
        PROVE  AddedIn(history', pc', job', i) <=> AddedIn(history, pc, job, i)
    BY <1>1, <2>1 DEF AddedIn, LoggedIn
  <2>3. ASSUME NEW i \in Ids
        PROVE  /\ DeletedIn(history, pc, job, i) => DeletedIn(history', pc', job', i)
               /\ i = job[t].id => DeletedIn(history', pc', job', i)
    BY <1>1, <2>1 DEF DeletedIn, LoggedIn
  <2>4. ASSUME NEW i \in Ids PROVE IdComplete(store', nextId', history', pc', job', i)
    <3>1. IdComplete(store, nextId, history, pc, job, i)
      BY DEF CompleteInv
    <3>2. CASE i = job[t].id
      BY <1>1, <1>2, <1>3, <2>3, <3>2 DEF IdComplete
    <3>3. CASE i # job[t].id
      BY <1>1, <1>4, <2>2, <2>3, <3>1, <3>3 DEF IdComplete
    <3> QED
      BY <3>2, <3>3
  <2>5. CallComplete(store', "delLog", job[t])
    BY DEF CallComplete
  <2> QED
    BY <1>3, <1>7, <2>4, <2>5, CompleteStep
<1>8. CASE ~job[t].logs /\ AfterDelete(t)
  <2>1. PICK l \in {"idle", "reset"} : \E j : Goto(t, l, j)
    BY <1>8, AfterDeleteMoves
  <2>2. PICK j : Goto(t, l, j)
    BY <2>1
  <2>3. \A i \in Ids : Present(store', i) =>
          Present(store, i) /\ store'[i].kind = store[i].kind /\ Filled(store'[i])
    BY <1>3, <1>4, <1>6
  <2>4. \A i \in Ids : Present(store, i) => Present(store', i) \/ store[i].kind # "memory"
    BY <1>4, <1>5, <1>8 DEF CallComplete
  <2>5. CallComplete(store', l, j) /\ l \notin {"log", "delLog"}
    BY <2>1 DEF CallComplete
  <2> QED
    BY <1>1, <1>3, <2>2, <2>3, <2>4, <2>5, QuietComplete
<1> QED
  BY <1>7, <1>8 DEF DeleteStore, LostReply

\* A call takes a copy to write back, or decides whether it will log.
LEMMA ReadComplete ==
  ASSUME EngineInv, CompleteInv, NEW t \in Threads, UNCHANGED <<store, history, nextId, origin>>,
         pc[t] \notin {"log", "delLog"}, NEW l, NEW j, Goto(t, l, j), l \notin {"log", "delLog"},
         CallComplete(store, l, j)
  PROVE  CompleteInv'
<1>1. Effect
  BY NoEffect
<1>2. \A i \in Ids : Present(store', i) =>
         Present(store, i) /\ store'[i].kind = store[i].kind /\ Filled(store'[i])
  BY DEF CompleteInv, IdComplete
<1>3. \A i \in Ids : Present(store, i) => Present(store', i) \/ store[i].kind # "memory"
  OBVIOUS
<1>4. CallComplete(store', l, j)
  OBVIOUS
<1> QED
  BY <1>1, <1>2, <1>3, <1>4, QuietComplete

LEMMA LinkScanComplete ==
  ASSUME EngineInv, CompleteInv, NEW t \in Threads, LinkScan(t)
  PROVE  CompleteInv'
<1>1. UNCHANGED <<store, history, nextId, origin>> /\ pc[t] = "linkScan" /\ job[t] \in Job
  BY DEF LinkScan, At, EngineInv, TypeOK
<1>2. CASE PlainMove(t)
  BY <1>1, <1>2, NoEffect, PlainComplete
<1>3. ASSUME NEW i \in Live, IsEntityRecord(store[i]),
             Goto(t, "linkUpdate", [job[t] EXCEPT !.id = i, !.todo = {},
                      !.copy = [store[i] EXCEPT !.links = @ \cup {job[t].mem}]])
      PROVE  CompleteInv'
  <2> DEFINE r == [store[i] EXCEPT !.links = @ \cup {job[t].mem}]
             j == [job[t] EXCEPT !.id = i, !.todo = {}, !.copy = r]
  <2>1. store[i] \in Record
    BY DEF EngineInv, TypeOK, Live
  <2>2. r.kind = "entity"
    BY <1>3, <2>1 DEF IsEntityRecord, Record
  <2> HIDE DEF r
  <2>3. j.copy = r
    BY <1>1 DEF Job
  <2>4. Goto(t, "linkUpdate", j)
    BY <1>3 DEF r
  <2> HIDE DEF j
  <2>5. CallComplete(store, "linkUpdate", j)
    BY <2>2, <2>3 DEF CallComplete, Filled
  <2> QED
    BY <1>1, <2>4, <2>5, ReadComplete
<1> QED
  BY <1>2, <1>3, LinkScanMoves

LEMMA LinkUpdateComplete ==
  ASSUME EngineInv, CompleteInv, NEW t \in Threads, LinkUpdate(t)
  PROVE  CompleteInv'
<1>1. pc[t] = "linkUpdate" /\ UNCHANGED <<history, nextId, origin>>
  BY DEF LinkUpdate, At
<1>2. PICK l \in {"idle", "dedup", "linkList"} : \E j : Goto(t, l, j)
  BY NextEntityMoves DEF LinkUpdate, LostReply, Return
<1>3. PICK j : Goto(t, l, j)
  BY <1>2
<1>4. l \in PlainLabels /\ l \notin {"log", "delLog"} /\ CallComplete(store, l, j)
  BY DEF PlainLabels, CallComplete
<1>5. CASE job[t].id \in Live /\ Write(job[t].id, job[t].copy)
  BY <1>1, <1>3, <1>4, <1>5, WriteBackComplete
<1>6. CASE UNCHANGED store
  BY <1>1, <1>3, <1>4, <1>6, ReadComplete
<1> QED
  BY <1>5, <1>6 DEF LinkUpdate

LEMMA UpdateBeginComplete ==
  ASSUME EngineInv, CompleteInv, NEW t \in Threads, UpdateBegin(t)
  PROVE  CompleteInv'
<1>1. UNCHANGED <<store, history, nextId, origin>> /\ pc[t] = "idle"
  BY DEF UpdateBegin, Begin, At
<1>2. PICK i \in Live, edit \in Edit :
        Goto(t, "updStore", [NoJob EXCEPT !.op = "update", !.id = i,
                                          !.copy = Merge(store[i], edit)])
  BY DEF UpdateBegin
<1> DEFINE r == Merge(store[i], edit)
           j == [NoJob EXCEPT !.op = "update", !.id = i, !.copy = r]
<1>3. store[i] \in Record /\ Filled(store[i]) /\ edit \in Edit
  BY DEF EngineInv, TypeOK, Live, CompleteInv, IdComplete, Present
<1>4. r.kind = store[i].kind /\ r.content = (IF edit.content = NoValue THEN store[i].content ELSE edit.content)
  BY <1>3 DEF Merge, Record
<1>5. Filled(r)
  BY <1>3, <1>4 DEF Filled
<1> HIDE DEF r
<1>6. j.copy = r
  BY NoJobType DEF Job
<1>7. Goto(t, "updStore", j)
  BY <1>2 DEF r
<1> HIDE DEF j
<1>8. CallComplete(store, "updStore", j)
  BY <1>5, <1>6 DEF CallComplete
<1> QED
  BY <1>1, <1>7, <1>8, ReadComplete

LEMMA UpdateStoreComplete ==
  ASSUME EngineInv, CompleteInv, NEW t \in Threads, UpdateStore(t)
  PROVE  CompleteInv'
<1>1. /\ pc[t] = "updStore" /\ UNCHANGED <<history, nextId, origin>>
      /\ Goto(t, "idle", NoJob)
  BY DEF UpdateStore, At, Return
<1>2. "idle" \in PlainLabels /\ CallComplete(store, "idle", NoJob)
  BY DEF PlainLabels, CallComplete
<1>3. CASE job[t].id \in Live /\ Write(job[t].id, job[t].copy)
  BY <1>1, <1>2, <1>3, WriteBackComplete
<1>4. CASE UNCHANGED store
  BY <1>1, <1>2, <1>4, ReadComplete
<1> QED
  BY <1>3, <1>4 DEF UpdateStore

\* What delete has read of a memory is enough to know that it has to log.
LEMMA DeleteReadComplete ==
  ASSUME EngineInv, CompleteInv, NEW t \in Threads, DeleteBegin(t) \/ ResetDelete(t)
  PROVE  CompleteInv'
<1>1. UNCHANGED <<store, history, nextId, origin>> /\ pc[t] \notin {"log", "delLog"}
  BY DEF DeleteBegin, ResetDelete, Begin, At
<1>2. ASSUME NEW i \in Ids, NEW j, Goto(t, "delStore", j), j.id = i, j.logs = HasContent(i)
      PROVE  CompleteInv'
  <2>1. (Present(store, i) /\ store[i].kind = "memory") => HasContent(i)
    BY DEF CompleteInv, IdComplete, Filled, HasContent, Live, Present
  <2>2. CallComplete(store, "delStore", j)
    BY <1>2, <2>1 DEF CallComplete
  <2> QED
    BY <1>1, <1>2, <2>2, ReadComplete
<1>3. CASE DeleteBegin(t)
  <2>1. PICK i \in Allocated :
          Goto(t, "delStore", [NoJob EXCEPT !.op = "delete", !.id = i, !.logs = HasContent(i)])
    BY <1>3 DEF DeleteBegin
  <2> DEFINE j == [NoJob EXCEPT !.op = "delete", !.id = i, !.logs = HasContent(i)]
  <2>2. i \in Ids /\ j.id = i /\ j.logs = HasContent(i)
    BY NoJobType DEF Job, Allocated
  <2> HIDE DEF j
  <2> QED
    BY <1>2, <2>1, <2>2 DEF j
<1>4. CASE ResetDelete(t)
  <2> DEFINE j == [job[t] EXCEPT !.logs = HasContent(job[t].id)]
  <2>1. Goto(t, "delStore", j) /\ pc[t] = "delGet" /\ job[t] \in Job
    BY <1>4 DEF ResetDelete, At, EngineInv, TypeOK
  <2>2. job[t].id \in Ids
    BY <2>1 DEF EngineInv, JobOK, DeleteOK, Used
  <2>3. j.id = job[t].id /\ j.logs = HasContent(job[t].id)
    BY <2>1 DEF Job
  <2> HIDE DEF j
  <2> QED
    BY <1>2, <2>1, <2>2, <2>3
<1> QED
  BY <1>3, <1>4

LEMMA InitComplete == Init => CompleteInv
BY DEF Init, CompleteInv, IdComplete, CallComplete, AddedIn, LoggedIn, Present

LEMMA NextComplete ==
  ASSUME Faults \cap {"insert", "delete"} = {}, EngineInv, CompleteInv, [Next]_vars
  PROVE  CompleteInv'
<1>1. CASE UNCHANGED vars
  BY <1>1 DEF vars, CompleteInv, IdComplete, CallComplete, AddedIn, DeletedIn, LoggedIn, Present, Filled, Used
<1>2. ASSUME NEW t \in Threads, PlainMove(t), UNCHANGED origin PROVE CompleteInv'
  BY <1>2, NoEffect, PlainComplete DEF PlainMove
<1>3. ASSUME NEW t \in Threads, Call(t) PROVE CompleteInv'
  <2>1. CASE AddBegin(t) \/ ProceduralBegin(t) \/ ResetBegin(t) \/ ListBegin(t)
    <3>1. PlainMove(t)
      BY <2>1, AddMoves, ScanMoves
    <3>2. UNCHANGED origin
      BY <2>1 DEF AddBegin, ProceduralBegin, ResetBegin, ListBegin
    <3> QED
      BY <1>2, <3>1, <3>2
  <2>2. CASE UpdateBegin(t)
    BY <2>2, UpdateBeginComplete
  <2>3. CASE DeleteBegin(t)
    BY <2>3, DeleteReadComplete
  <2> QED
    BY <1>3, <2>1, <2>2, <2>3 DEF Call
<1>4. ASSUME NEW t \in Threads, CallFails(t) PROVE CompleteInv'
  BY <1>2, <1>4, EndMoves DEF CallFails
<1>5. ASSUME NEW t \in Threads, Step(t) PROVE CompleteInv'
  <2>1. CASE AddDedup(t) \/ LinkList(t) \/ ResetGet(t) \/ ResetReturn(t) \/ ListGet(t)
             \/ ListReturn(t) \/ OutOfIds(t)
    <3>1. PlainMove(t)
      BY <2>1, AddMoves, ScanMoves, EndMoves
    <3>2. UNCHANGED origin
      BY <2>1 DEF AddDedup, LinkList, ResetGet, ResetReturn, ListGet, ListReturn, OutOfIds
    <3> QED
      BY <1>2, <3>1, <3>2
  <2>2. CASE AddInsert(t) \/ AddLog(t)
    BY <2>2, AddInsertComplete, AddLogComplete
  <2>3. CASE LinkScan(t) \/ LinkUpdate(t) \/ LinkInsert(t)
    BY <2>3, LinkScanComplete, LinkUpdateComplete, LinkInsertComplete
  <2>4. CASE UpdateStore(t) \/ ResetDelete(t)
    BY <2>4, UpdateStoreComplete, DeleteReadComplete
  <2>5. CASE DeleteStore(t) \/ DeleteLog(t)
    BY <2>5, DeleteStoreComplete, DeleteLogComplete
  <2> QED
    BY <1>5, <2>1, <2>2, <2>3, <2>4, <2>5 DEF Step
<1> QED
  BY <1>1, <1>3, <1>4, <1>5 DEF Next

\* If no insert and no delete fails, the history is complete: of an id on which
\* no call has an entry outstanding, a memory in the store was Added, and an
\* Added one that left it was Deleted (add and delete, which push their entries
\* after the store call).
THEOREM HistoryCompletes ==
  Faults \cap {"insert", "delete"} = {} => (Spec => []HistoryIsComplete)
<1> SUFFICES ASSUME Faults \cap {"insert", "delete"} = {} PROVE Spec => []HistoryIsComplete
  OBVIOUS
<1>1. EngineInv /\ CompleteInv /\ [Next]_vars => CompleteInv'
  BY NextComplete
<1>2. EngineInv /\ CompleteInv => HistoryIsComplete
  <2> SUFFICES ASSUME EngineInv, CompleteInv, NEW i \in Ids, ~Busy(i)
               PROVE  /\ (i \in Live /\ ~IsEntityRecord(store[i])) => Logged(i, "Added")
                      /\ (Logged(i, "Added") /\ i \notin Live) => Logged(i, "Deleted")
    BY DEF HistoryIsComplete
  <2>1. IdComplete(store, nextId, history, pc, job, i)
    BY DEF CompleteInv
  <2>2. /\ AddedIn(history, pc, job, i) <=> Logged(i, "Added")
        /\ DeletedIn(history, pc, job, i) <=> Logged(i, "Deleted")
    BY DEF Busy, AddedIn, DeletedIn, LoggedIn, Logged
  <2>3. i \in Live <=> Present(store, i)
    BY DEF Live, Present
  <2>4. i \in Live => store[i].kind \in {"memory", "entity"}
    BY DEF EngineInv, TypeOK, Live, Record
  <2> QED
    BY <2>1, <2>2, <2>3, <2>4 DEF IdComplete, IsEntityRecord
<1> QED
  BY <1>1, <1>2, InitComplete, Invariance, PTL DEF Spec

-----------------------------------------------------------------------------
(* No duplicates.  From its look-up to its insert an add has the records   *)
(* of its fact to itself, since nothing else inserts or rewrites memories. *)

SameFact(r, s) == r.tags = s.tags /\ r.meta = s.meta /\ r.content = s.content

IsMemory(st, i) == Present(st, i) /\ st[i].kind = "memory"

NoSuchFact(st, r) == \A i \in Ids : IsMemory(st, i) => ~SameFact(st[i], r)

CallUnique(st, t, l, j) ==
  /\ l # "updStore"
  /\ l \in AddLabels => t \in Adders
  /\ l = "insert" => NoSuchFact(st, MemoryRecord(j.query, Head(j.items)))
  /\ l = "linkUpdate" => j.copy.kind = "entity"

UniqueInv ==
  /\ \A i, k \in Ids : (i # k /\ IsMemory(store, i) /\ IsMemory(store, k)) => ~SameFact(store[i], store[k])
  /\ \A t \in Threads : CallUnique(store, t, pc[t], job[t])

\* Only one thread adds, and by no other method than the one that looks up.
OneAdder == (\A s, t \in Adders : s = t) /\ Ops \cap {"update", "procedural"} = {}

\* A step that adds no memory and changes none.
LEMMA UniqueStep ==
  ASSUME EngineInv, UniqueInv, NEW t \in Threads, NEW l, NEW j, Goto(t, l, j),
         \A i \in Ids : IsMemory(store', i) => IsMemory(store, i) /\ store'[i] = store[i],
         CallUnique(store', t, l, j)
  PROVE  UniqueInv'
<1>1. /\ pc'[t] = l /\ job'[t] = j
      /\ \A u \in Threads \ {t} : pc'[u] = pc[u] /\ job'[u] = job[u]
  BY GotoThreads
<1>2. ASSUME NEW u \in Threads \ {t} PROVE CallUnique(store', u, pc[u], job[u])
  <2>1. CallUnique(store, u, pc[u], job[u])
    BY DEF UniqueInv
  <2>2. \A r : NoSuchFact(store, r) => NoSuchFact(store', r)
    BY DEF NoSuchFact
  <2> QED
    BY <2>1, <2>2 DEF CallUnique
<1>3. \A i, k \in Ids : (i # k /\ IsMemory(store', i) /\ IsMemory(store', k)) => ~SameFact(store'[i], store'[k])
  BY DEF UniqueInv
<1> QED
  BY <1>1, <1>2, <1>3 DEF UniqueInv

LEMMA PlainUnique ==
  ASSUME OneAdder, "search" \notin Faults, EngineInv, UniqueInv, NEW t \in Threads, PlainMove(t)
  PROVE  UniqueInv'
<1>1. PICK l \in PlainLabels : \E j :
        /\ Goto(t, l, j)
        /\ l \in AddLabels => t \in Adders \/ pc[t] \in AddLabels
        /\ l = "insert" => j = job[t] /\ ~Known(t)
  BY DEF PlainMove, OneAdder
<1>2. PICK j :
        /\ Goto(t, l, j)
        /\ l \in AddLabels => t \in Adders \/ pc[t] \in AddLabels
        /\ l = "insert" => j = job[t] /\ ~Known(t)
  BY <1>1
<1>3. l \in AddLabels => t \in Adders
  BY <1>2 DEF UniqueInv, CallUnique
<1>4. ASSUME ~Known(t), NEW i \in Ids, IsMemory(store, i)
      PROVE  ~SameFact(store[i], MemoryRecord(job[t].query, Head(job[t].items)))
  <2>1. i \in Live
    BY <1>4 DEF IsMemory, Present, Live
  <2> QED
    BY <1>4, <2>1 DEF Known, Matches, SameFact, MemoryRecord, Item
<1>5. store' = store /\ l \notin {"updStore", "linkUpdate"}
  BY <1>1 DEF PlainMove, PlainLabels
<1>6. CallUnique(store', t, l, j)
  BY <1>2, <1>3, <1>4, <1>5 DEF CallUnique, NoSuchFact
<1> QED
  BY <1>2, <1>5, <1>6, UniqueStep

\* The insert of a memory, by the only thread that could do so.
LEMMA AddInsertUnique ==
  ASSUME OneAdder, EngineInv, UniqueInv, NEW t \in Threads, AddInsert(t)
  PROVE  UniqueInv'
<1> DEFINE r == MemoryRecord(job[t].query, Head(job[t].items))
<1>1. InsertNew(r) /\ pc[t] = "insert"
  BY DEF AddInsert, At, Item
<1>2. NoSuchFact(store, r) /\ t \in Adders
  BY <1>1 DEF UniqueInv, CallUnique, AddLabels
<1>3. PICK l \in {"idle", "log"} : \E j : Goto(t, l, j)
  BY DEF AddInsert, LostReply, Return
<1>4. PICK j : Goto(t, l, j)
  BY <1>3
<1>5. /\ pc'[t] = l /\ job'[t] = j
      /\ \A u \in Threads \ {t} : pc'[u] = pc[u] /\ job'[u] = job[u]
  BY <1>4, GotoThreads
<1> HIDE DEF r
<1>6. store'[nextId] = r /\ \A i \in Ids \ {nextId} : store'[i] = store[i]
  BY <1>1 DEF InsertNew, Write, EngineInv, TypeOK
<1>7. \A i, k \in Ids : (i # k /\ IsMemory(store', i) /\ IsMemory(store', k)) => ~SameFact(store'[i], store'[k])
  <2> SUFFICES ASSUME NEW i \in Ids, NEW k \in Ids, i # k, IsMemory(store', i), IsMemory(store', k)
               PROVE  ~SameFact(store'[i], store'[k])
    OBVIOUS
  <2>1. CASE i # nextId /\ k # nextId
    BY <1>6, <2>1 DEF UniqueInv, IsMemory, Present
  <2>2. CASE i = nextId
    BY <1>2, <1>6, <2>2 DEF NoSuchFact, SameFact, IsMemory, Present
  <2>3. CASE k = nextId
    BY <1>2, <1>6, <2>3 DEF NoSuchFact, SameFact, IsMemory, Present
  <2> QED
    BY <2>1, <2>2, <2>3
<1>8. ASSUME NEW u \in Threads PROVE CallUnique(store', u, pc'[u], job'[u])
  <2>1. CASE u = t
    BY <1>2, <1>3, <1>5, <2>1 DEF CallUnique
  <2>2. CASE u # t
    <3>1. CallUnique(store, u, pc[u], job[u])
      BY DEF UniqueInv
    <3>2. pc[u] # "insert"
      BY <1>2, <2>2, <3>1 DEF CallUnique, AddLabels, OneAdder
    <3> QED
      BY <1>5, <2>2, <3>1, <3>2 DEF CallUnique
  <2> QED
    BY <2>1, <2>2
<1> QED
  BY <1>7, <1>8 DEF UniqueInv

\* The calls that write or read entity records.
LEMMA LinkUnique ==
  ASSUME OneAdder, "search" \notin Faults, EngineInv, UniqueInv, NEW t \in Threads,
         LinkScan(t) \/ LinkUpdate(t) \/ LinkInsert(t)
  PROVE  UniqueInv'
<1>1. ASSUME NEW l \in {"idle", "dedup", "linkList"}, NEW j, Goto(t, l, j),
             pc[t] \in {"linkScan", "linkUpdate"},
             \A i \in Ids : IsMemory(store', i) => IsMemory(store, i) /\ store'[i] = store[i]
      PROVE  UniqueInv'
  <2>1. t \in Adders
    BY <1>1 DEF UniqueInv, CallUnique, AddLabels
  <2>2. CallUnique(store', t, l, j)
    BY <2>1 DEF CallUnique
  <2> QED
    BY <1>1, <2>2, UniqueStep
<1>2. CASE LinkScan(t)
  <2>1. ASSUME NEW i \in Live, IsEntityRecord(store[i]), pc[t] = "linkScan", store' = store,
               Goto(t, "linkUpdate", [job[t] EXCEPT !.id = i, !.todo = {},
                        !.copy = [store[i] EXCEPT !.links = @ \cup {job[t].mem}]])
        PROVE  UniqueInv'
    <3> DEFINE r == [store[i] EXCEPT !.links = @ \cup {job[t].mem}]
               j == [job[t] EXCEPT !.id = i, !.todo = {}, !.copy = r]
    <3>1. store[i] \in Record /\ job[t] \in Job
      BY DEF EngineInv, TypeOK, Live
    <3>2. r.kind = "entity"
      BY <2>1, <3>1 DEF IsEntityRecord, Record
    <3> HIDE DEF r
    <3>3. j.copy = r
      BY <3>1 DEF Job
    <3>4. Goto(t, "linkUpdate", j)
      BY <2>1 DEF r
    <3> HIDE DEF j
    <3>5. CallUnique(store', t, "linkUpdate", j)
      BY <2>1, <3>2, <3>3 DEF CallUnique, UniqueInv, AddLabels
    <3> QED
      BY <2>1, <3>4, <3>5, UniqueStep
  <2> QED
    BY <1>2, <2>1, LinkScanMoves, PlainUnique
<1>3. CASE LinkUpdate(t)
  <2>1. PICK l \in {"idle", "dedup", "linkList"} : \E j : Goto(t, l, j)
    BY <1>3, NextEntityMoves DEF LinkUpdate, LostReply, Return
  <2>2. pc[t] = "linkUpdate" /\ (Write(job[t].id, job[t].copy) \/ store' = store)
    BY <1>3 DEF LinkUpdate, At
  <2>3. job[t].copy.kind = "entity"
    BY <2>2 DEF UniqueInv, CallUnique
  <2>4. \A i \in Ids : IsMemory(store', i) => IsMemory(store, i) /\ store'[i] = store[i]
    BY <2>2, <2>3 DEF Write, IsMemory, Present, EngineInv, TypeOK
  <2> QED
    BY <1>1, <2>1, <2>2, <2>4
<1>4. CASE LinkInsert(t)
  <2>1. PICK l \in {"idle", "dedup", "linkList"} : \E j : Goto(t, l, j)
    BY <1>4, NextEntityMoves DEF LinkInsert, LostReply, Return
  <2>2. pc[t] = "linkScan" /\ InsertNew(EntityRecord(job[t].query, job[t].ent, job[t].mem))
    BY <1>4 DEF LinkInsert, At
  <2>3. EntityRecord(job[t].query, job[t].ent, job[t].mem).kind = "entity"
    BY DEF EntityRecord
  <2>4. \A i \in Ids : IsMemory(store', i) => IsMemory(store, i) /\ store'[i] = store[i]
    BY <2>2, <2>3 DEF InsertNew, Write, IsMemory, Present, EngineInv, TypeOK
  <2> QED
    BY <1>1, <2>1, <2>2, <2>4
<1> QED
  BY <1>2, <1>3, <1>4

LEMMA AddLogUnique ==
  ASSUME EngineInv, UniqueInv, NEW t \in Threads, AddLog(t)
  PROVE  UniqueInv'
<1>1. PICK l \in {"idle", "dedup", "linkList"} : \E j : Goto(t, l, j)
  <2>1. CASE NextItem(t)
    BY <2>1, NextItemMoves
  <2> QED
    BY <2>1 DEF AddLog
<1>2. t \in Adders /\ store' = store
  BY DEF AddLog, At, UniqueInv, CallUnique, AddLabels
<1>3. \A j : CallUnique(store', t, l, j)
  BY <1>1, <1>2 DEF CallUnique
<1> QED
  BY <1>1, <1>2, <1>3, UniqueStep

LEMMA DeleteUnique ==
  ASSUME EngineInv, UniqueInv, NEW t \in Threads,
         DeleteBegin(t) \/ ResetDelete(t) \/ DeleteStore(t) \/ DeleteLog(t)
  PROVE  UniqueInv'
<1>1. PICK l \in {"idle", "reset", "delStore", "delLog"} : \E j : Goto(t, l, j)
  BY AfterDeleteMoves DEF DeleteBegin, ResetDelete, DeleteStore, DeleteLog, LostReply, Return
<1>2. \A j : CallUnique(store', t, l, j)
  BY <1>1 DEF CallUnique, AddLabels
<1>3. Write(job[t].id, NoRecord) \/ store' = store
  BY DEF DeleteBegin, ResetDelete, DeleteStore, DeleteLog
<1>4. \A i \in Ids : IsMemory(store', i) => IsMemory(store, i) /\ store'[i] = store[i]
  BY <1>3 DEF Write, IsMemory, Present, EngineInv, TypeOK
<1> QED
  BY <1>1, <1>2, <1>4, UniqueStep

LEMMA NextUnique ==
  ASSUME OneAdder, "search" \notin Faults, EngineInv, UniqueInv, [Next]_vars
  PROVE  UniqueInv'
<1>1. CASE UNCHANGED vars
  BY <1>1 DEF vars, UniqueInv, CallUnique, IsMemory, NoSuchFact, SameFact, Present
<1>2. ASSUME NEW t \in Threads, Call(t) PROVE UniqueInv'
  <2>1. ~UpdateBegin(t)
    BY DEF UpdateBegin, Begin, OneAdder
  <2> QED
    BY <1>2, <2>1, AddMoves, ScanMoves, PlainUnique, DeleteUnique DEF Call
<1>3. ASSUME NEW t \in Threads, Step(t) PROVE UniqueInv'
  <2>1. ~UpdateStore(t)
    BY DEF UpdateStore, At, UniqueInv, CallUnique
  <2>2. CASE AddInsert(t) \/ AddLog(t) \/ LinkScan(t) \/ LinkUpdate(t) \/ LinkInsert(t)
    BY <2>2, AddInsertUnique, AddLogUnique, LinkUnique
  <2>3. CASE AddDedup(t) \/ LinkList(t) \/ ResetGet(t) \/ ResetReturn(t) \/ ListGet(t)
             \/ ListReturn(t) \/ OutOfIds(t)
    BY <2>3, AddMoves, ScanMoves, EndMoves, PlainUnique
  <2>4. CASE ResetDelete(t) \/ DeleteStore(t) \/ DeleteLog(t)
    BY <2>4, DeleteUnique
  <2> QED
    BY <1>3, <2>1, <2>2, <2>3, <2>4 DEF Step
<1>4. ASSUME NEW t \in Threads, CallFails(t) PROVE UniqueInv'
  BY <1>4, EndMoves, PlainUnique
<1> QED
  BY <1>1, <1>2, <1>3, <1>4 DEF Next

LEMMA InitUnique == Init => UniqueInv
BY DEF Init, UniqueInv, CallUnique, IsMemory, Present, AddLabels

\* Where one thread adds, no client updates, and the search of add does not
\* fail, the store never holds a fact twice under one scope and metadata, also
\* not if deletes and resets run between its look-up and its insert (add).
THEOREM FactsStayUnique ==
  (OneAdder /\ "search" \notin Faults) => (Spec => []NoDuplicateFacts)
<1> SUFFICES ASSUME OneAdder, "search" \notin Faults PROVE Spec => []NoDuplicateFacts
  OBVIOUS
<1>1. EngineInv /\ UniqueInv /\ [Next]_vars => UniqueInv'
  BY NextUnique
<1>2. EngineInv /\ UniqueInv => NoDuplicateFacts
  <2> SUFFICES ASSUME EngineInv, UniqueInv, NEW i \in Live, NEW k \in Live, i # k,
                      ~IsEntityRecord(store[i]), ~IsEntityRecord(store[k])
               PROVE  ~SameFact(store[i], store[k])
    BY DEF NoDuplicateFacts, SameFact
  <2>1. store[i] \in Record /\ store[k] \in Record
    BY DEF EngineInv, TypeOK, Live
  <2>2. store[i].kind = "memory" /\ store[k].kind = "memory"
    BY <2>1 DEF IsEntityRecord, Record
  <2> QED
    BY <2>2 DEF UniqueInv, IsMemory, Present, Live
<1> QED
  BY <1>1, <1>2, InitUnique, Invariance, PTL DEF Spec

-----------------------------------------------------------------------------
(* Proof that MemoryEngine implements RecordLifecycle.                     *)

bars == <<phaseBar, scopeBar, auditedBar>>

\* Between steps the abstract scope is the scope at the insertion.
LEMMA ScopeBar ==
  ASSUME EngineInv, EngineInv'
  PROVE  scopeBar = origin /\ scopeBar' = origin'
<1>1. scopeBar = origin
  BY DEF EngineInv, TypeOK, StoreOK, scopeBar, Live, Present
<1>2. scopeBar' = origin'
  BY DEF EngineInv, TypeOK, StoreOK, scopeBar, Live, Present
<1> QED
  BY <1>1, <1>2

\* An insert creates the record.
LEMMA InsertCreates ==
  ASSUME EngineInv, EngineInv', NEW r \in Record, r.tags \in Scopes, InsertNew(r)
  PROVE  Lifecycle!LifecycleNext
<1>1. nextId \in Ids /\ nextId' = nextId + 1 /\ nextId \in Nat
  BY DEF InsertNew, Ids
<1>2. r # NoRecord
  BY NoRecordAssumption
<1>3. scopeBar' = [scopeBar EXCEPT ![nextId] = r.tags]
  <2>1. scopeBar' = origin' /\ scopeBar = origin
    BY ScopeBar
  <2> QED
    BY <2>1 DEF InsertNew
<1>4. phaseBar[nextId] = "unborn"
  BY <1>1 DEF phaseBar, Allocated
<1>5. phaseBar' = [phaseBar EXCEPT ![nextId] = "live"]
  <2>1. \A i \in Ids : i # nextId => (i \in Allocated' <=> i \in Allocated) /\ (i \in Live' <=> i \in Live)
    BY <1>1 DEF InsertNew, Write, Allocated, Live, EngineInv, TypeOK, Ids
  <2>2. nextId \in Allocated' /\ nextId \in Live'
    BY <1>1, <1>2 DEF InsertNew, Write, Allocated, Live, EngineInv, TypeOK
  <2> QED
    BY <1>1, <2>1, <2>2 DEF phaseBar
<1>6. UNCHANGED auditedBar
  BY DEF InsertNew, auditedBar, Logged
<1>7. Lifecycle!Create(nextId, r.tags)
  BY <1>3, <1>4, <1>5, <1>6 DEF Lifecycle!Create
<1> QED
  BY <1>1, <1>7 DEF Lifecycle!LifecycleNext

\* A step that changes neither which records exist nor a deletion event
\* changes nothing in the abstract state.
LEMMA SamePhases ==
  ASSUME EngineInv, EngineInv', UNCHANGED <<nextId, origin, Live, auditedBar>>
  PROVE  UNCHANGED bars
<1>1. UNCHANGED scopeBar
  BY ScopeBar
<1>2. UNCHANGED phaseBar
  BY DEF phaseBar, Allocated
<1> QED
  BY <1>1, <1>2 DEF bars

LEMMA NothingChanges ==
  ASSUME EngineInv, EngineInv', UNCHANGED <<store, history, nextId, origin>>
  PROVE  UNCHANGED bars
BY SamePhases DEF Live, auditedBar, Logged

LEMMA WriteBackChangesNothing ==
  ASSUME EngineInv, EngineInv', NEW t \in Threads, pc[t] \in {"linkUpdate", "updStore"},
         job[t].id \in Live, Write(job[t].id, job[t].copy), UNCHANGED <<history, nextId, origin>>
  PROVE  UNCHANGED bars
<1>1. job[t].copy # NoRecord
  BY NoRecordAssumption DEF EngineInv, JobOK, WriteBackOK
<1>2. UNCHANGED Live
  BY <1>1 DEF Write, Live, EngineInv, TypeOK
<1>3. UNCHANGED auditedBar
  BY DEF auditedBar, Logged
<1> QED
  BY <1>2, <1>3, SamePhases

\* The delete of the store removes the record, or finds none.
LEMMA DeleteRemoves ==
  ASSUME EngineInv, EngineInv', NEW i \in Used(nextId), Write(i, NoRecord),
         UNCHANGED <<history, nextId, origin>>
  PROVE  Lifecycle!LifecycleNext \/ UNCHANGED bars
<1>1. i \in Ids /\ i \in Allocated
  BY LiveIsUsed DEF Used
<1>2. UNCHANGED auditedBar
  BY DEF auditedBar, Logged
<1>3. CASE i \notin Live
  <2>1. UNCHANGED Live
    BY <1>1, <1>3 DEF Write, Live, EngineInv, TypeOK
  <2> QED
    BY <1>2, <2>1, SamePhases
<1>4. CASE i \in Live
  <2>1. UNCHANGED scopeBar
    BY ScopeBar
  <2>2. phaseBar[i] = "live"
    BY <1>1, <1>4 DEF phaseBar
  <2>3. Live' = Live \ {i} /\ UNCHANGED Allocated
    BY <1>1 DEF Write, Live, Allocated, EngineInv, TypeOK
  <2>4. phaseBar' = [phaseBar EXCEPT ![i] = "gone"]
    BY <1>1, <2>3 DEF phaseBar
  <2>5. Lifecycle!Remove(i)
    BY <1>2, <2>1, <2>2, <2>4 DEF Lifecycle!Remove
  <2> QED
    BY <1>1, <2>5 DEF Lifecycle!LifecycleNext
<1> QED
  BY <1>3, <1>4

\* Only a Deleted event is visible in the abstract state.
LEMMA LoggedAfter ==
  ASSUME EngineInv, NEW i \in Ids, NEW e \in Events, Log(i, e)
  PROVE  auditedBar' = IF e = "Deleted" THEN auditedBar \cup {i} ELSE auditedBar
<1>1. history \in [Ids -> Seq(Events)] /\ history[i] \in Seq(Events)
  BY DEF EngineInv, TypeOK
<1>2. \A k \in Ids : k # i => history'[k] = history[k]
  BY <1>1 DEF Log
<1>3. history'[i] = Append(history[i], e)
  BY <1>1 DEF Log
<1>4. /\ Len(history'[i]) = Len(history[i]) + 1
      /\ history'[i][Len(history[i]) + 1] = e
      /\ \A n \in 1 .. Len(history[i]) : history'[i][n] = history[i][n]
      /\ Len(history[i]) \in Nat
  BY <1>1, <1>3, AppendProperties, LenProperties
<1>5. Logged(i, "Deleted")' <=> Logged(i, "Deleted") \/ e = "Deleted"
  <2> DEFINE n == Len(history[i])
             Was == \E k \in 1 .. n : history[i][k] = "Deleted"
             Is == \E k \in 1 .. n + 1 : history'[i][k] = "Deleted"
  <2>1. n \in Nat /\ history'[i][n + 1] = e /\ \A k \in 1 .. n : history'[i][k] = history[i][k]
    BY <1>4
  <2> HIDE DEF n
  <2>2. Is <=> Was \/ e = "Deleted"
    BY <2>1
  <2> QED
    BY <1>4, <2>2 DEF Logged, n
<1>6. \A k \in Ids : k # i => (Logged(k, "Deleted")' <=> Logged(k, "Deleted"))
  BY <1>2 DEF Logged
<1> QED
  BY <1>5, <1>6 DEF auditedBar

LEMMA AddedIsInvisible ==
  ASSUME EngineInv, EngineInv', NEW i \in Ids, Log(i, "Added"), UNCHANGED <<store, nextId, origin>>
  PROVE  UNCHANGED bars
<1>1. UNCHANGED auditedBar
  BY LoggedAfter DEF Events
<1> QED
  BY <1>1, SamePhases DEF Live

LEMMA DeletedIsAudited ==
  ASSUME EngineInv, EngineInv', NEW i \in Used(nextId), ~Present(store, i), Log(i, "Deleted"),
         UNCHANGED <<store, nextId, origin>>
  PROVE  Lifecycle!LifecycleNext
<1>1. i \in Ids /\ i \in Allocated
  BY LiveIsUsed DEF Used
<1>2. phaseBar[i] = "gone"
  BY <1>1 DEF phaseBar, Live, Present
<1>3. auditedBar' = auditedBar \cup {i}
  BY <1>1, LoggedAfter DEF Events
<1>4. UNCHANGED <<phaseBar, scopeBar>>
  BY ScopeBar DEF phaseBar, Live, Allocated
<1>5. Lifecycle!Audit(i)
  BY <1>2, <1>3, <1>4 DEF Lifecycle!Audit
<1> QED
  BY <1>1, <1>5 DEF Lifecycle!LifecycleNext

-----------------------------------------------------------------------------
LEMMA InitMaps == Init => Lifecycle!LifecycleInit
<1> SUFFICES ASSUME Init
             PROVE  Lifecycle!LifecycleInit
  OBVIOUS
<1>1. phaseBar = [i \in Ids |-> "unborn"]
  BY DEF Init, phaseBar, Allocated, Ids
<1>2. scopeBar = [i \in Ids |-> {}]
  BY DEF Init, scopeBar, Live
<1>3. auditedBar = {}
  BY EmptySeq DEF Init, auditedBar, Logged
<1> QED
  BY <1>1, <1>2, <1>3 DEF Lifecycle!LifecycleInit

LEMMA StepMaps ==
  ASSUME EngineInv, EngineInv', NEW t \in Threads, Call(t) \/ Step(t) \/ CallFails(t)
  PROVE  Lifecycle!LifecycleNext \/ UNCHANGED bars
<1>1. job[t] \in Job /\ JobOK(store, origin, nextId, pc[t], job[t])
  BY DEF EngineInv, TypeOK
<1>2. CASE UNCHANGED <<store, history, nextId, origin>>
  BY <1>2, NothingChanges
<1>3. CASE AddInsert(t)
  <2>1. job[t].items # <<>> /\ job[t].query.tags \in Scopes
    BY <1>1, <1>3 DEF AddInsert, At, JobOK, AddOK
  <2> DEFINE r == MemoryRecord(job[t].query, Item(t))
  <2>2. r \in Record /\ r.tags = job[t].query.tags
    BY <2>1, ItemType DEF MemoryRecord, Record, Query
  <2>3. InsertNew(r)
    BY <1>3 DEF AddInsert
  <2> HIDE DEF r
  <2> QED
    BY <2>1, <2>2, <2>3, InsertCreates
<1>4. CASE LinkInsert(t)
  <2>1. /\ job[t].query.tags \in Scopes /\ job[t].mem \in Used(nextId)
        /\ job[t].ent \in Entities /\ job[t].query \in Query
    BY <1>1, <1>4 DEF LinkInsert, At, JobOK, AddOK, Job
  <2> DEFINE r == EntityRecord(job[t].query, job[t].ent, job[t].mem)
  <2>2. r \in Record /\ r.tags = job[t].query.tags
    BY <2>1 DEF EntityRecord, Record, Query, Used
  <2>3. InsertNew(r)
    BY <1>4 DEF LinkInsert
  <2> HIDE DEF r
  <2> QED
    BY <2>1, <2>2, <2>3, InsertCreates
<1>5. CASE AddLog(t)
  <2>1. job[t].mem \in Ids
    BY <1>1, <1>5 DEF AddLog, At, JobOK, AddOK, Used
  <2> QED
    BY <1>5, <2>1, AddedIsInvisible DEF AddLog
<1>6. CASE LinkUpdate(t)
  BY <1>2, <1>6, WriteBackChangesNothing DEF LinkUpdate, At
<1>7. CASE UpdateStore(t)
  BY <1>2, <1>7, WriteBackChangesNothing DEF UpdateStore, At
<1>8. CASE DeleteStore(t)
  <2>1. job[t].id \in Used(nextId)
    BY <1>1, <1>8 DEF DeleteStore, At, JobOK, DeleteOK
  <2> QED
    BY <1>8, <2>1, DeleteRemoves DEF DeleteStore
<1>9. CASE DeleteLog(t)
  <2>1. job[t].id \in Used(nextId) /\ ~Present(store, job[t].id)
    BY <1>1, <1>9 DEF DeleteLog, At, JobOK, DeleteOK
  <2> QED
    BY <1>9, <2>1, DeletedIsAudited DEF DeleteLog
<1> QED
  BY <1>2, <1>3, <1>4, <1>5, <1>6, <1>7, <1>8, <1>9 DEF Call, Step, AddBegin,
     ProceduralBegin, UpdateBegin, DeleteBegin, ResetBegin, ListBegin, AddDedup, LinkList,
     LinkScan, ResetDelete, ResetGet, ResetReturn, ListGet, ListReturn, CallFails, OutOfIds

\* The engine implements RecordLifecycle: whatever calls run at the same time
\* and whichever store calls fail, an id is used once, its scope is fixed, it
\* is removed at most once, and Deleted is logged only after the removal.
THEOREM Refinement == Spec => RecordsLiveOnce
<1>1. EngineInv /\ EngineInv' /\ [Next]_vars => [Lifecycle!LifecycleNext]_(Lifecycle!lifecycle)
  <2> SUFFICES ASSUME EngineInv, EngineInv', [Next]_vars
               PROVE  [Lifecycle!LifecycleNext]_bars
    BY DEF bars, Lifecycle!lifecycle
  <2>1. CASE Next
    BY <2>1, StepMaps DEF Next
  <2>2. CASE UNCHANGED vars
    BY <2>2, NothingChanges DEF vars
  <2> QED
    BY <2>1, <2>2
<1> QED
  BY <1>1, InitMaps, Invariance, PTL DEF Spec, RecordsLiveOnce, Lifecycle!LifecycleSpec
=============================================================================
