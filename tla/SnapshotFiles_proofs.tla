------------------------ MODULE SnapshotFiles_proofs ------------------------
(* Theorems about the snapshot files, for any number of threads, processes *)
(* and records: their types, that the files of server and mcp parse, and   *)
(* that a restart finds what was saved.                                    *)
EXTENDS SnapshotFiles, TLAPS

USE ProgramsAssumption, DaemonAssumption, SnapshotBoundsAssumption, NothingAssumption, NamesAssumption

-----------------------------------------------------------------------------
(* Types.                                                                  *)

ContentOf(f) == IF f = "store" THEN StoreContent ELSE HistoryContent

\* The request of t has a copy of the file that it saves.
Saving(t) == pc[t] \in {"read", "fill", "rename"}

FilesTyped ==
  /\ files \in [Files \cup Threads -> Content \cup {Broken}]
  /\ \A f \in Files : files[f] \in ContentOf(f) \cup {Broken}

MemoryTyped ==
  /\ memory \in [Processes -> [Files -> Content]]
  /\ \A p \in Processes : \A f \in Files : memory[p][f] \in ContentOf(f)

\* What the local variables of a request hold where they are used; a process
\* that is not up runs no request.
JobOK(t) ==
  /\ pc[t] \in {"addLog", "delLog"} => job[t].id \in Ids
  /\ job[t].file = "history" => job[t].todo = {} /\ pc[t] \in {"copy", "read", "fill", "rename"}
  /\ Saving(t) => job[t].copy \in ContentOf(job[t].file)
  /\ phase[home[t]] # "up" => pc[t] = "idle" /\ dirty[t] = Clean

\* Nobody else touches the temporary file of a thread.
TemporaryOK(t) ==
  /\ pc[t] = "rename" => program # "cli" /\ files[t] = job[t].copy
  /\ (pc[t] = "fill" /\ program # "cli") => files[t] = Broken

TypeInv ==
  /\ TypeOK /\ FilesTyped /\ MemoryTyped
  /\ \A t \in Threads : JobOK(t) /\ TemporaryOK(t)

LEMMA Contents ==
  /\ StoreContent \subseteq Content /\ HistoryContent \subseteq Content
  /\ Empty("store") \in StoreContent /\ Empty("history") \in HistoryContent
  /\ \A f \in Files : Empty(f) \in ContentOf(f) /\ ContentOf(f) \subseteq Content /\ Broken \notin ContentOf(f)
  /\ NoMemory \in [Files -> Content]
  /\ \A f \in Files : NoMemory[f] \in ContentOf(f)
<1>1. StoreContent \subseteq Content /\ HistoryContent \subseteq Content
  BY DEF Content
<1>2. Empty("store") \in StoreContent /\ Empty("history") \in HistoryContent
  BY DEF Empty, StoreContent, HistoryContent
<1>3. \A f \in Files : Empty(f) \in ContentOf(f) /\ ContentOf(f) \subseteq Content
  BY <1>1, <1>2 DEF ContentOf, Files
<1> QED
  BY <1>1, <1>2, <1>3 DEF NoMemory

LEMMA NoJobType ==
  /\ NoJob \in Job /\ NoJob.file = "store" /\ NoJob.todo = {} /\ Clean \in [Files -> SUBSET Ids]
  /\ \A f \in Files : Clean[f] = {}
BY Contents DEF NoJob, Job, Files, Clean

LEMMA HomeType ==
  ASSUME TypeInv
  PROVE  /\ home \in [Threads -> Processes]
         /\ program = "cli" => \A t \in Threads : home[t] = t
         /\ program \in {"server", "mcp", "cli"}
BY DEF TypeInv, TypeOK, Homes, Processes

LEMMA OpsType ==
  ASSUME TypeInv
  PROVE  Ops \subseteq {"add", "update", "delete", "reset", "deleteEntity", "init"}
<1>1. program \in {"server", "mcp", "cli"}
  BY HomeType
<1> QED
  BY <1>1 DEF Ops

LEMMA GotoType ==
  ASSUME TypeInv, NEW t \in Threads, NEW label \in Labels, NEW j \in Job, Goto(t, label, j)
  PROVE  /\ pc' \in [Threads -> Labels] /\ job' \in [Threads -> Job]
         /\ pc'[t] = label /\ job'[t] = j
         /\ \A u \in Threads \ {t} : pc'[u] = pc[u] /\ job'[u] = job[u]
BY DEF Goto, TypeInv, TypeOK

LEMMA ChangeType ==
  ASSUME TypeInv, NEW t \in Threads, NEW f \in Files, NEW i \in Ids, NEW value,
         value \in IF f = "store" THEN Values \cup {Nothing} ELSE SUBSET {"Added", "Deleted"},
         Change(t, f, i, value)
  PROVE  /\ MemoryTyped'
         /\ \A p \in Processes : \A g \in Files : \A k \in Ids :
              memory'[p][g][k] = IF p = home[t] /\ g = f /\ k = i THEN value ELSE memory[p][g][k]
         /\ dirty' \in [Threads -> [Files -> SUBSET Ids]] /\ risk' \in [Files -> SUBSET Ids]
         /\ \A u \in Threads \ {t} : dirty'[u] = dirty[u]
         /\ \A g \in Files : dirty'[t][g] = IF g = f THEN dirty[t][g] \cup {i} ELSE dirty[t][g]
         /\ \A g \in Files : risk'[g] = IF g = f /\ CopyHeld(t, f) THEN risk[g] \cup {i} ELSE risk[g]
<1>1. /\ memory \in [Processes -> [Files -> Content]] /\ home[t] \in Processes
      /\ dirty \in [Threads -> [Files -> SUBSET Ids]] /\ risk \in [Files -> SUBSET Ids]
  BY HomeType DEF TypeInv, TypeOK, MemoryTyped
<1>2. memory[home[t]][f] \in ContentOf(f)
  BY <1>1 DEF TypeInv, MemoryTyped
<1> DEFINE new == [memory[home[t]][f] EXCEPT ![i] = value]
<1>3. new \in ContentOf(f) /\ \A k \in Ids : new[k] = IF k = i THEN value ELSE memory[home[t]][f][k]
  <2>1. CASE f = "store"
    BY <1>2, <2>1 DEF ContentOf, StoreContent
  <2>2. CASE f = "history"
    BY <1>2, <2>2 DEF ContentOf, HistoryContent
  <2> QED
    BY <2>1, <2>2 DEF Files
<1>4. memory' = [memory EXCEPT ![home[t]][f] = new]
  BY <1>1 DEF Change
<1>5. new \in Content
  BY <1>3, Contents
<1> HIDE DEF new
<1>6. memory' \in [Processes -> [Files -> Content]]
  BY <1>1, <1>4, <1>5
<1>7. \A p \in Processes : \A g \in Files :
        memory'[p][g] = IF p = home[t] /\ g = f THEN new ELSE memory[p][g]
  BY <1>1, <1>4
<1>8. MemoryTyped'
  BY <1>3, <1>6, <1>7 DEF MemoryTyped, TypeInv
<1>9. \A p \in Processes : \A g \in Files : \A k \in Ids :
        memory'[p][g][k] = IF p = home[t] /\ g = f /\ k = i THEN value ELSE memory[p][g][k]
  BY <1>3, <1>7
<1>10. /\ dirty' \in [Threads -> [Files -> SUBSET Ids]]
       /\ \A u \in Threads \ {t} : dirty'[u] = dirty[u]
       /\ \A g \in Files : dirty'[t][g] = IF g = f THEN dirty[t][g] \cup {i} ELSE dirty[t][g]
  BY <1>1 DEF Change
<1>11. /\ risk' \in [Files -> SUBSET Ids]
       /\ \A g \in Files : risk'[g] = IF g = f /\ CopyHeld(t, f) THEN risk[g] \cup {i} ELSE risk[g]
  BY <1>1 DEF Change
<1> QED
  BY <1>8, <1>9, <1>10, <1>11

\* The request ends; in the command line client its process does.
LEMMA EndType ==
  ASSUME TypeInv, NEW t \in Threads, NEW unsaved \in [Files -> SUBSET Ids], End(t, unsaved)
  PROVE  /\ MemoryTyped' /\ phase' \in [Processes -> {"down", "loading", "up"}]
         /\ pc' \in [Threads -> Labels] /\ job' \in [Threads -> Job]
         /\ pc'[t] = "idle" /\ job'[t] = NoJob
         /\ \A u \in Threads \ {t} : pc'[u] = pc[u] /\ job'[u] = job[u] /\ dirty'[u] = dirty[u]
         /\ dirty' \in [Threads -> [Files -> SUBSET Ids]] /\ dirty'[t] = Clean
         /\ risk' \in [Files -> SUBSET Ids] /\ \A g \in Files : risk'[g] = risk[g] \cup unsaved[g]
         /\ \A p \in Processes : 
              \/ phase'[p] = phase[p] /\ memory'[p] = memory[p]
              \/ p = home[t] /\ phase'[p] = "down" /\ \A u \in Threads \ {t} : home[u] # p
<1>1. /\ memory \in [Processes -> [Files -> Content]] /\ home \in [Threads -> Processes]
      /\ phase \in [Processes -> {"down", "loading", "up"}] /\ t \in Processes
      /\ dirty \in [Threads -> [Files -> SUBSET Ids]] /\ risk \in [Files -> SUBSET Ids]
  BY HomeType DEF TypeInv, TypeOK, MemoryTyped, Processes
<1>2. Goto(t, "idle", NoJob) /\ "idle" \in Labels
  BY DEF End, Labels
<1>3. /\ pc' \in [Threads -> Labels] /\ job' \in [Threads -> Job]
      /\ pc'[t] = "idle" /\ job'[t] = NoJob
      /\ \A u \in Threads \ {t} : pc'[u] = pc[u] /\ job'[u] = job[u]
  BY <1>2, GotoType, NoJobType
<1>4. /\ dirty' \in [Threads -> [Files -> SUBSET Ids]] /\ dirty'[t] = Clean
      /\ \A u \in Threads \ {t} : dirty'[u] = dirty[u]
  BY <1>1, NoJobType DEF End
<1>5. risk' \in [Files -> SUBSET Ids] /\ \A g \in Files : risk'[g] = risk[g] \cup unsaved[g]
  BY <1>1 DEF End
<1>6. CASE program = "cli"
  <2>1. phase' = [phase EXCEPT ![t] = "down"] /\ memory' = [memory EXCEPT ![t] = NoMemory]
    BY <1>6 DEF End
  <2>2. MemoryTyped'
    BY <1>1, <2>1, Contents DEF MemoryTyped, TypeInv
  <2>3. \A p \in Processes : 
          \/ phase'[p] = phase[p] /\ memory'[p] = memory[p]
          \/ p = home[t] /\ phase'[p] = "down" /\ \A u \in Threads \ {t} : home[u] # p
    BY <1>1, <1>6, <2>1, HomeType
  <2> QED
    BY <1>1, <1>3, <1>4, <1>5, <2>1, <2>2, <2>3
<1>7. CASE program # "cli"
  <2>1. phase' = phase /\ memory' = memory
    BY <1>1, <1>7 DEF End
  <2>2. MemoryTyped'
    BY <2>1 DEF MemoryTyped, TypeInv
  <2> QED
    BY <1>1, <1>3, <1>4, <1>5, <2>1, <2>2
<1> QED
  BY <1>6, <1>7

\* A step that does not move a thread.
LEMMA OtherJobs ==
  ASSUME TypeInv, NEW u \in Threads, pc'[u] = pc[u], job'[u] = job[u], dirty'[u] = dirty[u],
         UNCHANGED <<program, home>>, files'[u] = files[u],
         phase'[home[u]] = phase[home[u]] \/ (pc[u] = "idle" /\ dirty[u] = Clean)
  PROVE  JobOK(u)' /\ TemporaryOK(u)'
<1>1. JobOK(u) /\ TemporaryOK(u)
  BY DEF TypeInv
<1>2. Clean' = Clean /\ \A f : ContentOf(f)' = ContentOf(f)
  BY DEF Clean, ContentOf
<1> QED
  BY <1>1, <1>2 DEF JobOK, TemporaryOK, Saving

\* A request changes a record, or begins, and saves nothing.
LEMMA QuietType ==
  ASSUME TypeInv, NEW t \in Threads, NEW label \in Labels, NEW j \in Job, Goto(t, label, j),
         label \in {"addLog", "delLog"} => j.id \in Ids,
         j.file = "history" => j.todo = {} /\ label \in {"copy", "read", "fill", "rename"},
         label \in {"read", "fill", "rename"} => j.copy \in ContentOf(j.file),
         label = "fill" /\ program # "cli" => files'[t] = Broken,
         label = "rename" => program # "cli" /\ files'[t] = j.copy,
         phase[home[t]] = "up", UNCHANGED <<program, home, phase>>,
         MemoryTyped', FilesTyped', \A u \in Threads \ {t} : files'[u] = files[u],
         nextId' \in 1 .. MaxId + 1, requests' \in 0 .. MaxRequests,
         dirty' \in [Threads -> [Files -> SUBSET Ids]], risk' \in [Files -> SUBSET Ids],
         \A u \in Threads \ {t} : dirty'[u] = dirty[u]
  PROVE  TypeInv'
<1>1. /\ pc' \in [Threads -> Labels] /\ job' \in [Threads -> Job]
      /\ pc'[t] = label /\ job'[t] = j
      /\ \A u \in Threads \ {t} : pc'[u] = pc[u] /\ job'[u] = job[u]
  BY GotoType
<1>2. \A f : ContentOf(f)' = ContentOf(f)
  BY DEF ContentOf
<1>3. JobOK(t)'
  BY <1>1, <1>2 DEF JobOK, Saving
<1>4. TemporaryOK(t)'
  BY <1>1 DEF TemporaryOK
<1>5. \A u \in Threads : JobOK(u)' /\ TemporaryOK(u)'
  BY <1>1, <1>3, <1>4, OtherJobs
<1>6. TypeOK'
  <2>1. \A p \in Processes : memory'[p]["store"] \in StoreContent /\ memory'[p]["history"] \in HistoryContent
    BY DEF MemoryTyped, ContentOf, Files
  <2>2. files' \in [Files \cup Threads -> Content \cup {Broken}]
    BY DEF FilesTyped
  <2>3. program' \in Programs /\ home' \in Homes' /\ phase' \in [Processes -> {"down", "loading", "up"}]
    BY DEF TypeInv, TypeOK, Homes
  <2> QED
    BY <1>1, <2>1, <2>2, <2>3 DEF TypeOK
<1> QED
  BY <1>5, <1>6 DEF TypeInv

LEMMA ThreadFacts ==
  ASSUME TypeInv, NEW t \in Threads
  PROVE  /\ job[t] \in Job /\ pc[t] \in Labels /\ home[t] \in Processes /\ t \notin Files
         /\ pc[t] # "idle" => phase[home[t]] = "up"
         /\ nextId \in 1 .. MaxId + 1 /\ requests \in 0 .. MaxRequests
         /\ dirty \in [Threads -> [Files -> SUBSET Ids]] /\ risk \in [Files -> SUBSET Ids]
         /\ files \in [Files \cup Threads -> Content \cup {Broken}]
         /\ Live(t) \subseteq Ids
         /\ JobOK(t) /\ TemporaryOK(t)
BY HomeType DEF TypeInv, TypeOK, JobOK, Live

LEMMA SameFiles ==
  ASSUME TypeInv, files' = files
  PROVE  FilesTyped' /\ \A u : files'[u] = files[u]
BY DEF FilesTyped, TypeInv, ContentOf

LEMMA SameMemory ==
  ASSUME TypeInv, memory' = memory
  PROVE  MemoryTyped'
BY DEF MemoryTyped, TypeInv, ContentOf

LEMMA BeginCounts ==
  ASSUME TypeInv, NEW t \in Threads, NEW op, Begin(t, op)
  PROVE  /\ requests' \in 0 .. MaxRequests /\ phase[home[t]] = "up"
         /\ op \in {"add", "update", "delete", "reset", "deleteEntity", "init"}
BY ThreadFacts, OpsType DEF Begin

\* What the steps of a request change.
LEMMA AddMoves ==
  ASSUME TypeInv, NEW t \in Threads, Add(t)
  PROVE  /\ nextId \in Ids /\ phase[home[t]] = "up"
         /\ \E v \in Values, j \in Job :
              Change(t, "store", nextId, v) /\ Goto(t, "addLog", j) /\ j.id = nextId /\ j.file = "store"
<1> DEFINE j == [NoJob EXCEPT !.op = "add", !.id = nextId]
<1>1. j \in Job /\ j.id = nextId /\ j.file = "store" /\ nextId \in Ids
  BY NoJobType DEF Add, Job, NoJob
<1>2. Goto(t, "addLog", j)
  BY DEF Add
<1> HIDE DEF j
<1>3. PICK v \in Values : Change(t, "store", nextId, v)
  BY DEF Add
<1> QED
  BY <1>1, <1>2, <1>3, BeginCounts DEF Add

LEMMA AddType ==
  ASSUME TypeInv, NEW t \in Threads, Add(t)
  PROVE  TypeInv'
<1>1. PICK v \in Values, j \in Job :
        Change(t, "store", nextId, v) /\ Goto(t, "addLog", j) /\ j.id = nextId /\ j.file = "store"
  BY AddMoves
<1>2. nextId \in Ids
  BY AddMoves
<1>3. /\ MemoryTyped' /\ dirty' \in [Threads -> [Files -> SUBSET Ids]] /\ risk' \in [Files -> SUBSET Ids]
      /\ \A u \in Threads \ {t} : dirty'[u] = dirty[u]
  BY <1>1, <1>2, ChangeType DEF Files
<1>4. nextId' \in 1 .. MaxId + 1
  BY <1>2 DEF Ids, Add
<1>5. requests' \in 0 .. MaxRequests /\ phase[home[t]] = "up"
  BY BeginCounts DEF Add
<1>6. UNCHANGED <<program, home, files, phase>>
  BY DEF Add
<1> QED
  BY <1>1, <1>2, <1>3, <1>4, <1>5, <1>6, SameFiles, QuietType DEF Labels

LEMMA LogMoves ==
  ASSUME TypeInv, NEW t \in Threads, AddLog(t) \/ DeleteLog(t)
  PROVE  /\ job[t].id \in Ids /\ phase[home[t]] = "up" /\ job[t].file # "history"
         /\ UNCHANGED <<program, home, files, phase, nextId, requests>>
         /\ \E value \in SUBSET {"Added", "Deleted"}, label \in {"copy", "delete"} :
              Change(t, "history", job[t].id, value) /\ Goto(t, label, job[t])
<1>1. PICK e \in {"Added", "Deleted"}, label \in {"copy", "delete"} : LogEntry(t, e) /\ Goto(t, label, job[t])
  BY DEF AddLog, DeleteLog
<1>2. /\ pc[t] \in {"addLog", "delLog"} /\ job[t].id \in Ids /\ phase[home[t]] = "up" /\ job[t].file # "history"
  BY ThreadFacts DEF AddLog, DeleteLog, At, JobOK
<1>3. memory[home[t]]["history"] \in HistoryContent
  BY ThreadFacts DEF TypeInv, MemoryTyped, ContentOf, Files
<1> DEFINE value == Mine(t, "history")[job[t].id] \cup {e}
<1>4. value \in SUBSET {"Added", "Deleted"}
  BY <1>2, <1>3 DEF Mine, HistoryContent
<1>5. Change(t, "history", job[t].id, value)
  BY <1>1 DEF LogEntry
<1> HIDE DEF value
<1>6. UNCHANGED <<program, home, files, phase, nextId, requests>>
  BY DEF AddLog, DeleteLog
<1> QED
  BY <1>1, <1>2, <1>4, <1>5, <1>6

LEMMA LogType ==
  ASSUME TypeInv, NEW t \in Threads, AddLog(t) \/ DeleteLog(t)
  PROVE  TypeInv'
<1>1. /\ job[t].id \in Ids /\ phase[home[t]] = "up" /\ job[t].file # "history"
      /\ UNCHANGED <<program, home, files, phase, nextId, requests>>
  BY LogMoves
<1>2. PICK value \in SUBSET {"Added", "Deleted"}, label \in {"copy", "delete"} :
        Change(t, "history", job[t].id, value) /\ Goto(t, label, job[t])
  BY LogMoves
<1>3. "history" \in Files /\ "history" # "store"
  BY DEF Files
<1>4. /\ MemoryTyped' /\ dirty' \in [Threads -> [Files -> SUBSET Ids]] /\ risk' \in [Files -> SUBSET Ids]
      /\ \A u \in Threads \ {t} : dirty'[u] = dirty[u]
  BY <1>1, <1>2, <1>3, ChangeType
<1> QED
  BY <1>1, <1>2, <1>4, SameFiles, ThreadFacts, QuietType DEF Labels

LEMMA UpdateMoves ==
  ASSUME TypeInv, NEW t \in Threads, Update(t)
  PROVE  \E i \in Ids, v \in Values, j \in Job :
           Change(t, "store", i, v) /\ Goto(t, "copy", j) /\ j.file = "store"
<1> DEFINE j == [NoJob EXCEPT !.op = "update"]
<1>1. j \in Job /\ j.file = "store" /\ Goto(t, "copy", j)
  BY NoJobType DEF Update, Job, NoJob
<1> HIDE DEF j
<1>2. PICK i \in Live(t), v \in Values : Change(t, "store", i, v)
  BY DEF Update
<1> QED
  BY <1>1, <1>2, ThreadFacts

LEMMA UpdateType ==
  ASSUME TypeInv, NEW t \in Threads, Update(t)
  PROVE  TypeInv'
<1>1. PICK i \in Ids, v \in Values, j \in Job :
        Change(t, "store", i, v) /\ Goto(t, "copy", j) /\ j.file = "store"
  BY UpdateMoves
<1>2. /\ MemoryTyped' /\ dirty' \in [Threads -> [Files -> SUBSET Ids]] /\ risk' \in [Files -> SUBSET Ids]
      /\ \A u \in Threads \ {t} : dirty'[u] = dirty[u]
  BY <1>1, ChangeType DEF Files
<1>3. requests' \in 0 .. MaxRequests /\ phase[home[t]] = "up" /\ UNCHANGED <<program, home, files, phase, nextId>>
  BY BeginCounts DEF Update
<1> QED
  BY <1>1, <1>2, <1>3, SameFiles, ThreadFacts, QuietType DEF Labels

LEMMA BeginMoves ==
  ASSUME TypeInv, NEW t \in Threads, InitStore(t) \/ DeleteBegin(t)
  PROVE  \E label \in {"copy", "delete"}, j \in Job : j.file = "store" /\ Goto(t, label, j)
<1>1. CASE InitStore(t)
  <2>1. [NoJob EXCEPT !.op = "init"] \in Job /\ [NoJob EXCEPT !.op = "init"].file = "store"
    BY NoJobType DEF Job, NoJob
  <2> QED
    BY <1>1, <2>1 DEF InitStore
<1>2. CASE DeleteBegin(t)
  <2>0. PICK op \in Ops : \E ids \in IF op = "delete" THEN {{i} : i \in Ids} ELSE {Live(t)} :
          Goto(t, "delete", [NoJob EXCEPT !.op = op, !.todo = ids])
    BY <1>2 DEF DeleteBegin
  <2>1. PICK ids \in SUBSET Ids : Goto(t, "delete", [NoJob EXCEPT !.op = op, !.todo = ids])
    <3>1. Live(t) \in SUBSET Ids /\ {{i} : i \in Ids} \subseteq SUBSET Ids
      BY ThreadFacts
    <3> QED
      BY <2>0, <3>1
  <2> DEFINE j == [NoJob EXCEPT !.op = op, !.todo = ids]
  <2>2. j \in Job /\ j.file = "store"
    BY NoJobType, OpsType DEF Job, NoJob
  <2> QED
    BY <2>1, <2>2
<1> QED
  BY <1>1, <1>2

LEMMA BeginType ==
  ASSUME TypeInv, NEW t \in Threads, InitStore(t) \/ DeleteBegin(t)
  PROVE  TypeInv'
<1>1. UNCHANGED <<program, home, files, phase, memory, nextId, dirty, risk>>
  BY DEF InitStore, DeleteBegin
<1>2. requests' \in 0 .. MaxRequests /\ phase[home[t]] = "up"
  BY BeginCounts DEF InitStore, DeleteBegin
<1>3. PICK label \in {"copy", "delete"}, j \in Job : j.file = "store" /\ Goto(t, label, j)
  BY BeginMoves
<1> QED
  BY <1>1, <1>2, <1>3, SameFiles, SameMemory, ThreadFacts, QuietType DEF Labels

LEMMA DeleteMoves ==
  ASSUME TypeInv, NEW t \in Threads, Delete(t)
  PROVE  /\ UNCHANGED <<program, home, files, phase, nextId, requests>> /\ phase[home[t]] = "up"
         /\ \/ \E i \in Ids, j \in Job :
                 /\ Change(t, "store", i, Nothing) /\ Goto(t, "delLog", j)
                 /\ j.id = i /\ j.file # "history"
            \/ \E j \in Job :
                 Goto(t, "delete", j) /\ UNCHANGED <<memory, dirty, risk>> /\ j.file # "history"
<1>1. PICK i \in job[t].todo :
        IF i \in Live(t)
        THEN /\ Change(t, "store", i, Nothing)
             /\ Goto(t, "delLog", [job[t] EXCEPT !.id = i, !.todo = @ \ {i}])
        ELSE /\ Goto(t, "delete", [job[t] EXCEPT !.todo = @ \ {i}])
             /\ UNCHANGED <<memory, dirty, risk>>
  BY DEF Delete
<1>2. /\ UNCHANGED <<program, home, files, phase, nextId, requests>>
      /\ phase[home[t]] = "up" /\ job[t] \in Job /\ job[t].file # "history" /\ i \in Ids
  BY ThreadFacts DEF Delete, At, JobOK, Job
<1>3. CASE i \in Live(t)
  <2> DEFINE j == [job[t] EXCEPT !.id = i, !.todo = @ \ {i}]
  <2>1. j \in Job /\ j.id = i /\ j.file # "history" /\ Goto(t, "delLog", j) /\ Change(t, "store", i, Nothing)
    BY <1>1, <1>2, <1>3 DEF Job
  <2> HIDE DEF j
  <2> QED
    BY <1>2, <2>1
<1>4. CASE i \notin Live(t)
  <2> DEFINE j == [job[t] EXCEPT !.todo = @ \ {i}]
  <2>1. j \in Job /\ j.file # "history" /\ Goto(t, "delete", j) /\ UNCHANGED <<memory, dirty, risk>>
    BY <1>1, <1>2, <1>4 DEF Job
  <2> HIDE DEF j
  <2> QED
    BY <1>2, <2>1
<1> QED
  BY <1>3, <1>4

LEMMA DeleteType ==
  ASSUME TypeInv, NEW t \in Threads, Delete(t)
  PROVE  TypeInv'
<1>1. UNCHANGED <<program, home, files, phase, nextId, requests>> /\ phase[home[t]] = "up"
  BY DeleteMoves
<1>2. ASSUME NEW i \in Ids, NEW j \in Job, Change(t, "store", i, Nothing), Goto(t, "delLog", j),
             j.id = i, j.file # "history"
      PROVE  TypeInv'
  <2>1. /\ MemoryTyped' /\ dirty' \in [Threads -> [Files -> SUBSET Ids]] /\ risk' \in [Files -> SUBSET Ids]
        /\ \A u \in Threads \ {t} : dirty'[u] = dirty[u]
    BY <1>2, ChangeType DEF Files
  <2> QED
    BY <1>1, <1>2, <2>1, SameFiles, ThreadFacts, QuietType DEF Labels
<1>3. ASSUME NEW j \in Job, Goto(t, "delete", j), UNCHANGED <<memory, dirty, risk>>, j.file # "history"
      PROVE  TypeInv'
  BY <1>1, <1>3, SameFiles, SameMemory, ThreadFacts, QuietType DEF Labels
<1> QED
  BY <1>2, <1>3, DeleteMoves

\* What Copy takes.
LEMMA CopyMoves ==
  ASSUME TypeInv, NEW t \in Threads, Copy(t)
  PROVE  /\ UNCHANGED <<program, home, files, phase, memory, nextId, requests, dirty, risk>>
         /\ phase[home[t]] = "up"
         /\ \E j \in Job :
              /\ Goto(t, "read", j) /\ j.file = job[t].file /\ j.copy \in ContentOf(j.file)
              /\ \/ j.file = "store" /\ j.todo = Live(t) /\ j.copy = Empty("store")
                 \/ j.file = "history" /\ j.todo = {} /\ j.copy = Mine(t, "history")
<1>1. job[t] \in Job /\ phase[home[t]] = "up" /\ JobOK(t) /\ Live(t) \subseteq Ids
  BY ThreadFacts DEF Copy, At
<1>2. CASE job[t].file = "store" /\ Goto(t, "read", [job[t] EXCEPT !.todo = Live(t), !.copy = Empty("store")])
  <2> DEFINE j == [job[t] EXCEPT !.todo = Live(t), !.copy = Empty("store")]
  <2>1. j \in Job /\ j.file = "store" /\ j.todo = Live(t) /\ j.copy = Empty("store")
    BY <1>1, <1>2, Contents DEF Job
  <2>2. j.copy \in ContentOf(j.file) /\ Goto(t, "read", j)
    BY <1>2, <2>1, Contents DEF ContentOf
  <2> HIDE DEF j
  <2> QED
    BY <1>1, <1>2, <2>1, <2>2 DEF Copy
<1>3. CASE job[t].file = "history" /\ Goto(t, "read", [job[t] EXCEPT !.copy = Mine(t, "history")])
  <2> DEFINE j == [job[t] EXCEPT !.copy = Mine(t, "history")]
  <2>1. Mine(t, "history") \in HistoryContent
    BY ThreadFacts DEF Mine, TypeInv, MemoryTyped, ContentOf, Files
  <2>2. j \in Job /\ j.file = "history" /\ j.todo = {} /\ j.copy = Mine(t, "history")
    BY <1>1, <1>3, <2>1, Contents DEF Job, JobOK
  <2>3. j.copy \in ContentOf(j.file) /\ Goto(t, "read", j)
    BY <1>3, <2>1, <2>2 DEF ContentOf
  <2> HIDE DEF j
  <2> QED
    BY <1>1, <1>3, <2>2, <2>3 DEF Copy
<1> QED
  BY <1>2, <1>3 DEF Copy

LEMMA CopyType ==
  ASSUME TypeInv, NEW t \in Threads, Copy(t)
  PROVE  TypeInv'
<1>1. PICK j \in Job :
        /\ Goto(t, "read", j) /\ j.copy \in ContentOf(j.file)
        /\ j.file = "store" \/ j.todo = {}
  BY CopyMoves
<1> QED
  BY <1>1, CopyMoves, SameFiles, SameMemory, ThreadFacts, QuietType DEF Labels, Files

LEMMA ReadMoves ==
  ASSUME TypeInv, NEW t \in Threads, Read(t)
  PROVE  /\ UNCHANGED <<program, home, files, phase, memory, nextId, requests, dirty, risk>>
         /\ phase[home[t]] = "up" /\ job[t].file = "store"
         /\ \E i \in job[t].todo, j \in Job :
              /\ i \in Ids /\ Goto(t, "read", j) /\ j.file = "store" /\ j.copy \in StoreContent
              /\ j.todo = job[t].todo \ {i}
              /\ \A k \in Ids : j.copy[k] = IF k = i THEN Mine(t, "store")[i] ELSE job[t].copy[k]
<1>1. PICK i \in job[t].todo :
        Goto(t, "read", [job[t] EXCEPT !.todo = @ \ {i}, !.copy[i] = Mine(t, "store")[i]])
  BY DEF Read
<1>2. job[t] \in Job /\ JobOK(t) /\ pc[t] = "read" /\ phase[home[t]] = "up" /\ home[t] \in Processes
  BY ThreadFacts DEF Read, At
<1>3. i \in Ids /\ job[t].file = "store" /\ job[t].copy \in StoreContent
  BY <1>1, <1>2 DEF JobOK, Job, Files, Saving, ContentOf
<1>4. Mine(t, "store")[i] \in Values \cup {Nothing}
  BY <1>2, <1>3 DEF Mine, TypeInv, MemoryTyped, ContentOf, Files, StoreContent
<1> DEFINE copy == [job[t].copy EXCEPT ![i] = Mine(t, "store")[i]]
           j == [job[t] EXCEPT !.todo = @ \ {i}, !.copy = copy]
<1>5. copy \in StoreContent /\ \A k \in Ids : copy[k] = IF k = i THEN Mine(t, "store")[i] ELSE job[t].copy[k]
  BY <1>3, <1>4 DEF StoreContent
<1>6. Goto(t, "read", j)
  BY <1>1
<1> HIDE DEF copy
<1>7. j \in Job /\ j.file = "store" /\ j.copy = copy /\ j.todo = job[t].todo \ {i}
  BY <1>2, <1>3, <1>5, Contents DEF Job
<1> HIDE DEF j
<1> QED
  BY <1>2, <1>3, <1>5, <1>6, <1>7 DEF Read

LEMMA ReadType ==
  ASSUME TypeInv, NEW t \in Threads, Read(t)
  PROVE  TypeInv'
<1>1. PICK j \in Job : Goto(t, "read", j) /\ j.file = "store" /\ j.copy \in ContentOf(j.file)
  BY ReadMoves DEF ContentOf
<1> QED
  BY <1>1, ReadMoves, SameFiles, SameMemory, ThreadFacts, QuietType DEF Labels

LEMMA OpenType ==
  ASSUME TypeInv, NEW t \in Threads, Open(t)
  PROVE  TypeInv'
<1>1. /\ pc[t] = "read" /\ phase[home[t]] = "up" /\ job[t] \in Job /\ JobOK(t)
      /\ Goto(t, "fill", job[t]) /\ UNCHANGED <<program, home, phase, memory, nextId, requests, dirty, risk>>
  BY ThreadFacts DEF Open, CopyDone, At
<1>2. Target(t) \in Files \cup Threads /\ (Target(t) \in Threads => Target(t) = t)
      /\ (program # "cli" => Target(t) = t)
  BY <1>1 DEF Target, Job
<1>3. files' = [files EXCEPT ![Target(t)] = Broken]
  BY DEF Open
<1>4. FilesTyped'
  BY <1>2, <1>3 DEF FilesTyped, TypeInv, ContentOf
<1>5. /\ program # "cli" => files'[t] = Broken
      /\ \A u \in Threads \ {t} : files'[u] = files[u]
  BY <1>2, <1>3, ThreadFacts
<1> QED
  BY <1>1, <1>4, <1>5, SameMemory, ThreadFacts, QuietType DEF Labels, JobOK, Saving

\* What is left of a request whose file is written, or could not be: it goes
\* on with the history, or ends; what it has changed is still to be saved, or
\* is at risk, but for the file in "kept".
Finishes(t, kept) ==
  /\ pc'[t] \in {"copy", "idle"} /\ job'[t] \in Job /\ job'[t].todo = {}
  /\ job'[t].file = "history" => pc'[t] = "copy"
  /\ pc'[t] = "copy" => phase' = phase
  /\ pc'[t] = "idle" => dirty'[t] = Clean
  /\ pc' \in [Threads -> Labels] /\ job' \in [Threads -> Job]
  /\ phase' \in [Processes -> {"down", "loading", "up"}] /\ MemoryTyped'
  /\ dirty' \in [Threads -> [Files -> SUBSET Ids]] /\ risk' \in [Files -> SUBSET Ids]
  /\ \A u \in Threads \ {t} : pc'[u] = pc[u] /\ job'[u] = job[u] /\ dirty'[u] = dirty[u]
  /\ \A g \in Files : risk[g] \subseteq risk'[g]
  /\ \A g \in Files \ kept : dirty[t][g] \subseteq dirty'[t][g] \cup risk'[g]
  /\ \A p \in Processes :
       \/ phase'[p] = phase[p] /\ memory'[p] = memory[p]
       \/ p = home[t] /\ phase'[p] = "down" /\ \A u \in Threads \ {t} : home[u] # p

LEMMA EndFinishes ==
  ASSUME TypeInv, NEW t \in Threads, NEW unsaved \in [Files -> SUBSET Ids], NEW kept,
         End(t, unsaved), \A g \in Files \ kept : dirty[t][g] \subseteq unsaved[g]
  PROVE  Finishes(t, kept)
<1>1. NoJob \in Job /\ NoJob.file = "store" /\ NoJob.todo = {}
  BY NoJobType
<1> QED
  BY <1>1, EndType DEF Finishes

LEMMA HistoryFinishes ==
  ASSUME TypeInv, NEW t \in Threads, NEW kept, job[t].file = "store",
         Goto(t, "copy", [NoJob EXCEPT !.op = job[t].op, !.file = "history"]),
         dirty' = [dirty EXCEPT ![t]["store"] = {}], UNCHANGED <<phase, memory>>,
         risk' \in [Files -> SUBSET Ids], \A g \in Files : risk[g] \subseteq risk'[g],
         "store" \in kept \/ dirty[t]["store"] \subseteq risk'["store"]
  PROVE  Finishes(t, kept)
<1> DEFINE j == [NoJob EXCEPT !.op = job[t].op, !.file = "history"]
<1>1. j \in Job /\ j.file = "history" /\ j.todo = {}
  BY NoJobType, ThreadFacts DEF Job, NoJob, Files
<1>2. Goto(t, "copy", j) /\ "copy" \in Labels
  BY DEF Labels
<1> HIDE DEF j
<1>3. /\ pc' \in [Threads -> Labels] /\ job' \in [Threads -> Job]
      /\ pc'[t] = "copy" /\ job'[t] = j
      /\ \A u \in Threads \ {t} : pc'[u] = pc[u] /\ job'[u] = job[u]
  BY <1>1, <1>2, GotoType
<1>4. /\ dirty' \in [Threads -> [Files -> SUBSET Ids]]
      /\ \A u \in Threads \ {t} : dirty'[u] = dirty[u]
      /\ dirty'[t]["history"] = dirty[t]["history"]
  BY ThreadFacts DEF Files
<1>5. \A g \in Files \ kept : dirty[t][g] \subseteq dirty'[t][g] \cup risk'[g]
  BY <1>4 DEF Files
<1>6. phase' \in [Processes -> {"down", "loading", "up"}] /\ MemoryTyped'
  BY SameMemory DEF TypeInv, TypeOK
<1> QED
  BY <1>1, <1>3, <1>4, <1>5, <1>6 DEF Finishes

LEMMA NextFileFinishes ==
  ASSUME TypeInv, NEW t \in Threads, NextFile(t)
  PROVE  Finishes(t, {job[t].file})
<1>1. dirty[t] \in [Files -> SUBSET Ids] /\ job[t].file \in Files /\ risk \in [Files -> SUBSET Ids]
  BY ThreadFacts DEF Job
<1>2. CASE job[t].file = "store" /\ SavesHistory(job[t].op)
  BY <1>1, <1>2, HistoryFinishes DEF NextFile
<1>3. CASE ~(job[t].file = "store" /\ SavesHistory(job[t].op))
  <2> DEFINE unsaved == [dirty[t] EXCEPT ![job[t].file] = {}]
  <2>1. unsaved \in [Files -> SUBSET Ids] /\ \A g \in Files \ {job[t].file} : dirty[t][g] \subseteq unsaved[g]
    BY <1>1
  <2>2. End(t, unsaved)
    BY <1>3 DEF NextFile
  <2> HIDE DEF unsaved
  <2> QED
    BY <2>1, <2>2, EndFinishes
<1> QED
  BY <1>2, <1>3

LEMMA FailureFinishes ==
  ASSUME TypeInv, NEW t \in Threads, WriteFails(t) \/ AddFails(t)
  PROVE  Finishes(t, {})
<1>1. dirty[t] \in [Files -> SUBSET Ids] /\ job[t].file \in Files /\ risk \in [Files -> SUBSET Ids]
  BY ThreadFacts DEF Job
<1>2. CASE End(t, dirty[t])
  BY <1>1, <1>2, EndFinishes
<1>3. CASE ~End(t, dirty[t])
  <2>1. /\ job[t].file = "store" /\ Goto(t, "copy", [NoJob EXCEPT !.op = job[t].op, !.file = "history"])
        /\ dirty' = [dirty EXCEPT ![t]["store"] = {}] /\ UNCHANGED <<phase, memory>>
        /\ risk' = [risk EXCEPT !["store"] = @ \cup dirty[t]["store"]]
    BY <1>3 DEF WriteFails, AddFails
  <2>2. /\ risk' \in [Files -> SUBSET Ids] /\ \A g \in Files : risk[g] \subseteq risk'[g]
        /\ dirty[t]["store"] \subseteq risk'["store"]
    BY <1>1, <2>1 DEF Files
  <2> QED
    BY <2>1, <2>2, HistoryFinishes
<1> QED
  BY <1>2, <1>3

LEMMA FinishType ==
  ASSUME TypeInv, NEW t \in Threads, NEW kept, Finishes(t, kept), pc[t] # "idle",
         UNCHANGED <<program, home, nextId, requests>>,
         FilesTyped', \A u \in Threads \ {t} : files'[u] = files[u]
  PROVE  TypeInv'
<1>1. phase[home[t]] = "up"
  BY ThreadFacts
<1>2. JobOK(t)' /\ TemporaryOK(t)'
  BY <1>1 DEF Finishes, JobOK, TemporaryOK, Saving
<1>3. \A u \in Threads \ {t} : JobOK(u)' /\ TemporaryOK(u)'
  <2> SUFFICES ASSUME NEW u \in Threads \ {t} PROVE JobOK(u)' /\ TemporaryOK(u)'
    OBVIOUS
  <2>1. phase'[home[u]] = phase[home[u]]
    BY HomeType DEF Finishes
  <2> QED
    BY <2>1, OtherJobs DEF Finishes
<1>4. TypeOK'
  <2>1. \A p \in Processes : memory'[p]["store"] \in StoreContent /\ memory'[p]["history"] \in HistoryContent
    BY DEF Finishes, MemoryTyped, ContentOf, Files
  <2>2. files' \in [Files \cup Threads -> Content \cup {Broken}]
    BY DEF FilesTyped
  <2>3. program' \in Programs /\ home' \in Homes' /\ nextId' \in 1 .. MaxId + 1 /\ requests' \in 0 .. MaxRequests
    BY DEF TypeInv, TypeOK, Homes
  <2> QED
    BY <2>1, <2>2, <2>3 DEF TypeOK, Finishes
<1> QED
  BY <1>2, <1>3, <1>4 DEF TypeInv, Finishes

LEMMA FailureType ==
  ASSUME TypeInv, NEW t \in Threads, WriteFails(t) \/ AddFails(t)
  PROVE  TypeInv'
<1>1. pc[t] # "idle" /\ UNCHANGED <<program, home, files, nextId, requests>>
  BY DEF WriteFails, AddFails, CopyDone, At
<1> QED
  BY <1>1, FailureFinishes, FinishType, SameFiles

\* What Fill writes.
LEMMA FillMoves ==
  ASSUME TypeInv, NEW t \in Threads, Fill(t)
  PROVE  /\ pc[t] = "fill" /\ phase[home[t]] = "up" /\ UNCHANGED <<program, home, nextId, requests>>
         /\ FilesTyped' /\ \A u \in Threads \ {t} : files'[u] = files[u]
         /\ \/ /\ program = "cli" /\ Finishes(t, {job[t].file})
               /\ files'[job[t].file] \in {job[t].copy, Broken}
               /\ \A f \in Files \ {job[t].file} : files'[f] = files[f]
            \/ /\ program # "cli" /\ Goto(t, "rename", job[t]) /\ UNCHANGED <<phase, memory, dirty, risk>>
               /\ files'[t] = job[t].copy
               /\ \A f \in Files : files'[f] = files[f]
<1>1. /\ pc[t] = "fill" /\ phase[home[t]] = "up" /\ job[t] \in Job /\ JobOK(t) /\ TemporaryOK(t)
      /\ UNCHANGED <<program, home, nextId, requests>>
  BY ThreadFacts DEF Fill, At
<1>2. PICK text \in {job[t].copy} \cup (IF files[Target(t)] = Broken THEN {} ELSE {Broken}) :
        files' = [files EXCEPT ![Target(t)] = text]
  BY DEF Fill
<1>3. job[t].copy \in ContentOf(job[t].file) /\ job[t].copy \in Content /\ job[t].file \in Files
  BY <1>1, Contents DEF JobOK, Saving, Job
<1>4. files \in [Files \cup Threads -> Content \cup {Broken}] /\ t \notin Files
  BY ThreadFacts
<1>5. CASE program = "cli"
  <2>1. files' = [files EXCEPT ![job[t].file] = text] /\ text \in {job[t].copy, Broken}
    BY <1>2, <1>5 DEF Target
  <2>2. FilesTyped'
    BY <1>3, <2>1 DEF FilesTyped, TypeInv, ContentOf
  <2>3. /\ files'[job[t].file] \in {job[t].copy, Broken}
        /\ \A f \in (Files \cup Threads) \ {job[t].file} : files'[f] = files[f]
    BY <1>3, <1>4, <2>1
  <2>4. \A u \in Threads : u # job[t].file
    BY <1>3
  <2> QED
    BY <1>1, <1>3, <1>5, <2>2, <2>3, <2>4, NextFileFinishes DEF Fill
<1>6. CASE program # "cli"
  <2>1. files' = [files EXCEPT ![t] = text] /\ text = job[t].copy
    BY <1>1, <1>2, <1>6 DEF Target, TemporaryOK
  <2>2. FilesTyped'
    BY <1>3, <1>4, <2>1 DEF FilesTyped, TypeInv, ContentOf
  <2>3. files'[t] = job[t].copy /\ \A f \in (Files \cup Threads) \ {t} : files'[f] = files[f]
    BY <1>4, <2>1
  <2> QED
    BY <1>1, <1>4, <1>6, <2>2, <2>3 DEF Fill
<1> QED
  BY <1>5, <1>6

LEMMA FillType ==
  ASSUME TypeInv, NEW t \in Threads, Fill(t)
  PROVE  TypeInv'
<1>1. /\ pc[t] = "fill" /\ phase[home[t]] = "up" /\ UNCHANGED <<program, home, nextId, requests>>
      /\ FilesTyped' /\ \A u \in Threads \ {t} : files'[u] = files[u]
  BY FillMoves
<1>2. CASE Finishes(t, {job[t].file})
  BY <1>1, <1>2, FinishType
<1>3. CASE program # "cli" /\ Goto(t, "rename", job[t]) /\ UNCHANGED <<phase, memory, dirty, risk>> /\ files'[t] = job[t].copy
  BY <1>1, <1>3, SameMemory, ThreadFacts, QuietType DEF Labels, JobOK, Saving
<1> QED
  BY <1>2, <1>3, FillMoves

LEMMA RenameMoves ==
  ASSUME TypeInv, NEW t \in Threads, Rename(t)
  PROVE  /\ pc[t] = "rename" /\ phase[home[t]] = "up" /\ UNCHANGED <<program, home, nextId, requests>>
         /\ FilesTyped' /\ \A u \in Threads \ {t} : files'[u] = files[u]
         /\ Finishes(t, {job[t].file})
         /\ files'[job[t].file] = job[t].copy /\ job[t].copy \in Content
         /\ \A f \in Files \ {job[t].file} : files'[f] = files[f]
<1>1. /\ pc[t] = "rename" /\ phase[home[t]] = "up" /\ job[t] \in Job /\ JobOK(t) /\ TemporaryOK(t)
      /\ UNCHANGED <<program, home, nextId, requests>> /\ NextFile(t)
  BY ThreadFacts DEF Rename, At
<1>2. program # "cli" /\ Target(t) = t /\ files[t] = job[t].copy
  BY <1>1 DEF TemporaryOK, Target
<1>3. job[t].copy \in ContentOf(job[t].file) /\ job[t].copy \in Content /\ job[t].file \in Files
  BY <1>1, Contents DEF JobOK, Saving, Job
<1>4. files \in [Files \cup Threads -> Content \cup {Broken}] /\ t \notin Files /\ Threads \cap Files = {}
  BY ThreadFacts
<1>5. files' = [files EXCEPT ![job[t].file] = job[t].copy, ![t] = Broken]
  BY <1>2 DEF Rename
<1>6. /\ files' \in [Files \cup Threads -> Content \cup {Broken}]
      /\ files'[job[t].file] = job[t].copy
      /\ \A f \in (Files \cup Threads) \ {t, job[t].file} : files'[f] = files[f]
  BY <1>3, <1>4, <1>5
<1>7. FilesTyped'
  BY <1>3, <1>4, <1>6 DEF FilesTyped, TypeInv, ContentOf
<1> QED
  BY <1>1, <1>3, <1>4, <1>6, <1>7, NextFileFinishes

LEMMA RenameType ==
  ASSUME TypeInv, NEW t \in Threads, Rename(t)
  PROVE  TypeInv'
<1>1. pc[t] # "idle"
  BY RenameMoves
<1> QED
  BY <1>1, RenameMoves, FinishType

\* A process reads a snapshot.
LEMMA LoadMoves ==
  ASSUME TypeInv, NEW p \in Running, Start(p) \/ LoadHistory(p)
  PROVE  \E f \in Files :
           /\ p \in Processes /\ phase[p] # "up"
           /\ \/ f = "store" /\ phase[p] = "down" /\ phase' = [phase EXCEPT ![p] = "loading"]
              \/ f = "history" /\ phase[p] = "loading" /\ phase' = [phase EXCEPT ![p] = "up"]
           /\ Load(p, f) /\ MemoryTyped'
           /\ \A q \in Processes : \A g \in Files :
                memory'[q][g] = IF q = p /\ g = f THEN Loaded(f) ELSE memory[q][g]
           /\ risk' \in [Files -> SUBSET Ids] /\ \A g \in Files : risk[g] \subseteq risk'[g]
           /\ \A t \in Threads : home[t] # p => dirty[t][f] \subseteq risk'[f]
           /\ (Others(p) # {} /\ files[f] = Broken) => risk'[f] = Ids
<1>1. PICK f \in Files :
        /\ Load(p, f)
        /\ \/ f = "store" /\ phase[p] = "down" /\ phase' = [phase EXCEPT ![p] = "loading"]
           \/ f = "history" /\ phase[p] = "loading" /\ phase' = [phase EXCEPT ![p] = "up"]
  BY DEF Start, LoadHistory, Files
<1>2. p \in Processes /\ phase[p] # "up"
  BY <1>1, HomeType DEF Running
<1>3. Loaded(f) \in ContentOf(f) /\ Loaded(f) \in Content
  BY Contents DEF Loaded, TypeInv, FilesTyped
<1>4. memory \in [Processes -> [Files -> Content]] /\ memory' = [memory EXCEPT ![p][f] = Loaded(f)]
  BY <1>1 DEF TypeInv, MemoryTyped, Load
<1>5. /\ memory' \in [Processes -> [Files -> Content]]
      /\ \A q \in Processes : \A g \in Files :
           memory'[q][g] = IF q = p /\ g = f THEN Loaded(f) ELSE memory[q][g]
  BY <1>2, <1>3, <1>4
<1>6. MemoryTyped'
  BY <1>3, <1>5 DEF TypeInv, MemoryTyped, ContentOf
<1>7. /\ dirty \in [Threads -> [Files -> SUBSET Ids]] /\ risk \in [Files -> SUBSET Ids]
  BY DEF TypeInv, TypeOK
<1> DEFINE theirs == UNION {dirty[t][f] : t \in {u \in Threads : home[u] # p}}
           all == IF Others(p) # {} /\ files[f] = Broken THEN Ids ELSE {}
<1>8. risk' = [risk EXCEPT ![f] = @ \cup theirs \cup all]
  BY <1>1 DEF Load
<1>9. theirs \subseteq Ids /\ \A t \in Threads : home[t] # p => dirty[t][f] \subseteq theirs
  BY <1>7
<1>10. all \subseteq Ids /\ ((Others(p) # {} /\ files[f] = Broken) => all = Ids)
  OBVIOUS
<1> HIDE DEF theirs, all
<1>11. /\ risk' \in [Files -> SUBSET Ids] /\ \A g \in Files : risk[g] \subseteq risk'[g]
       /\ theirs \subseteq risk'[f] /\ all \subseteq risk'[f]
  BY <1>7, <1>8, <1>9, <1>10
<1>12. \A t \in Threads : home[t] # p => dirty[t][f] \subseteq risk'[f]
  BY <1>9, <1>11
<1>13. (Others(p) # {} /\ files[f] = Broken) => risk'[f] = Ids
  BY <1>10, <1>11
<1> QED
  BY <1>1, <1>2, <1>5, <1>6, <1>11, <1>12, <1>13

LEMMA LoadType ==
  ASSUME TypeInv, NEW p \in Running, Start(p) \/ LoadHistory(p)
  PROVE  TypeInv'
<1>1. PICK f \in Files :
        /\ p \in Processes /\ phase[p] # "up" /\ Load(p, f) /\ MemoryTyped'
        /\ \E x \in {"loading", "up"} : phase' = [phase EXCEPT ![p] = x]
        /\ risk' \in [Files -> SUBSET Ids]
  BY LoadMoves
<1>2. UNCHANGED <<program, home, files, nextId, pc, job, requests, dirty>>
  BY <1>1 DEF Load
<1>3. /\ phase' \in [Processes -> {"down", "loading", "up"}]
      /\ \A q \in Processes \ {p} : phase'[q] = phase[q]
  BY <1>1 DEF TypeInv, TypeOK
<1>4. \A u \in Threads : JobOK(u)' /\ TemporaryOK(u)'
  <2> SUFFICES ASSUME NEW u \in Threads PROVE JobOK(u)' /\ TemporaryOK(u)'
    OBVIOUS
  <2>1. home[u] \in Processes /\ JobOK(u)
    BY ThreadFacts
  <2>2. phase'[home[u]] = phase[home[u]] \/ (pc[u] = "idle" /\ dirty[u] = Clean)
    BY <1>1, <1>3, <2>1 DEF JobOK
  <2> QED
    BY <1>2, <2>2, OtherJobs
<1>5. FilesTyped'
  BY <1>2, SameFiles
<1>6. TypeOK'
  <2>1. \A q \in Processes : memory'[q]["store"] \in StoreContent /\ memory'[q]["history"] \in HistoryContent
    BY <1>1 DEF MemoryTyped, ContentOf, Files
  <2>2. program' \in Programs /\ home' \in Homes'
    BY <1>2 DEF TypeInv, TypeOK, Homes
  <2> QED
    BY <1>1, <1>2, <1>3, <2>1, <2>2 DEF TypeInv, TypeOK
<1> QED
  BY <1>1, <1>4, <1>5, <1>6 DEF TypeInv

LEMMA CrashMoves ==
  ASSUME TypeInv, NEW p \in Running, Crash(p)
  PROVE  /\ UNCHANGED <<program, home, nextId, requests, risk>> /\ p \in Processes
         /\ phase' \in [Processes -> {"down", "loading", "up"}] /\ phase'[p] = "down"
         /\ MemoryTyped' /\ FilesTyped' /\ pc' \in [Threads -> Labels] /\ job' \in [Threads -> Job]
         /\ dirty' \in [Threads -> [Files -> SUBSET Ids]]
         /\ \A q \in Processes \ {p} : phase'[q] = phase[q] /\ memory'[q] = memory[q]
         /\ \A f \in Files : files'[f] = files[f]
         /\ \A u \in Threads :
              IF home[u] = p THEN pc'[u] = "idle" /\ job'[u] = NoJob /\ dirty'[u] = Clean
              ELSE pc'[u] = pc[u] /\ job'[u] = job[u] /\ dirty'[u] = dirty[u] /\ files'[u] = files[u]
<1>1. UNCHANGED <<program, home, nextId, requests, risk>> /\ p \in Processes
  BY HomeType DEF Crash, Running
<1>2. /\ phase' \in [Processes -> {"down", "loading", "up"}] /\ phase'[p] = "down"
      /\ \A q \in Processes \ {p} : phase'[q] = phase[q]
  BY <1>1 DEF Crash, TypeInv, TypeOK
<1>3. memory' = [memory EXCEPT ![p] = NoMemory] /\ memory \in [Processes -> [Files -> Content]]
  BY DEF Crash, TypeInv, MemoryTyped
<1>4. MemoryTyped' /\ \A q \in Processes \ {p} : memory'[q] = memory[q]
  BY <1>1, <1>3, Contents DEF MemoryTyped, TypeInv, ContentOf
<1> DEFINE mine == {t \in Threads : home[t] = p}
<1>5. /\ pc' = [t \in Threads |-> IF t \in mine THEN "idle" ELSE pc[t]]
      /\ job' = [t \in Threads |-> IF t \in mine THEN NoJob ELSE job[t]]
      /\ dirty' = [t \in Threads |-> IF t \in mine THEN Clean ELSE dirty[t]]
      /\ files' = [f \in DOMAIN files |-> IF f \in mine THEN Broken ELSE files[f]]
  BY DEF Crash
<1>6. /\ mine \subseteq Threads /\ \A u \in Threads : u \in mine <=> home[u] = p
      /\ \A f \in Files : f \notin mine
  OBVIOUS
<1> HIDE DEF mine
<1>7. /\ pc' \in [Threads -> Labels] /\ job' \in [Threads -> Job] /\ dirty' \in [Threads -> [Files -> SUBSET Ids]]
  BY <1>5, NoJobType DEF TypeInv, TypeOK, Labels
<1>8. files \in [Files \cup Threads -> Content \cup {Broken}]
  BY DEF TypeInv, FilesTyped
<1>9. files' = [f \in Files \cup Threads |-> IF f \in mine THEN Broken ELSE files[f]]
  BY <1>5, <1>8
<1>10. /\ files' \in [Files \cup Threads -> Content \cup {Broken}]
       /\ \A f \in Files : files'[f] = files[f]
       /\ \A u \in Threads \ mine : files'[u] = files[u]
  BY <1>6, <1>8, <1>9
<1>11. FilesTyped'
  BY <1>10 DEF FilesTyped, TypeInv, ContentOf
<1>12. \A u \in Threads :
         IF home[u] = p THEN pc'[u] = "idle" /\ job'[u] = NoJob /\ dirty'[u] = Clean
         ELSE pc'[u] = pc[u] /\ job'[u] = job[u] /\ dirty'[u] = dirty[u] /\ files'[u] = files[u]
  BY <1>5, <1>6, <1>10
<1> QED
  BY <1>1, <1>2, <1>4, <1>7, <1>10, <1>11, <1>12

LEMMA CrashType ==
  ASSUME TypeInv, NEW p \in Running, Crash(p)
  PROVE  TypeInv'
<1>1. \A u \in Threads : JobOK(u)' /\ TemporaryOK(u)'
  <2> SUFFICES ASSUME NEW u \in Threads PROVE JobOK(u)' /\ TemporaryOK(u)'
    OBVIOUS
  <2>1. CASE home[u] = p
    <3>1. pc'[u] = "idle" /\ job'[u].file = "store" /\ dirty'[u] = Clean
      BY <2>1, CrashMoves, NoJobType
    <3> QED
      BY <3>1 DEF JobOK, TemporaryOK, Saving, Clean
  <2>2. CASE home[u] # p
    <3>1. phase'[home[u]] = phase[home[u]]
      BY <2>2, CrashMoves, ThreadFacts
    <3> QED
      BY <2>2, <3>1, CrashMoves, OtherJobs
  <2> QED
    BY <2>1, <2>2
<1>2. TypeOK'
  <2>1. \A q \in Processes : memory'[q]["store"] \in StoreContent /\ memory'[q]["history"] \in HistoryContent
    BY CrashMoves DEF MemoryTyped, ContentOf, Files
  <2>2. program' \in Programs /\ home' \in Homes'
    BY CrashMoves DEF TypeInv, TypeOK, Homes
  <2>3. files' \in [Files \cup Threads -> Content \cup {Broken}]
    BY CrashMoves DEF FilesTyped
  <2> QED
    BY CrashMoves, <2>1, <2>2, <2>3 DEF TypeInv, TypeOK
<1> QED
  BY <1>1, <1>2, CrashMoves DEF TypeInv

LEMMA InitType == Init => TypeInv
<1> SUFFICES ASSUME Init PROVE TypeInv
  OBVIOUS
<1>1. PICK kept \in [1 .. Kept -> Values] :
        files = [f \in Files \cup Threads |->
          CASE f = "store"   -> [i \in Ids |-> IF i <= Kept THEN kept[i] ELSE Nothing]
            [] f = "history" -> [i \in Ids |-> IF i <= Kept THEN {"Added"} ELSE {}]
            [] OTHER         -> Broken]
  BY DEF Init
<1>2. FilesTyped
  <2> DEFINE store == [i \in Ids |-> IF i <= Kept THEN kept[i] ELSE Nothing]
             history == [i \in Ids |-> IF i <= Kept THEN {"Added"} ELSE {}]
  <2>1. store \in StoreContent /\ history \in HistoryContent
    BY DEF StoreContent, HistoryContent, Ids
  <2>2. files = [f \in Files \cup Threads |->
                   CASE f = "store" -> store [] f = "history" -> history [] OTHER -> Broken]
    BY <1>1
  <2> HIDE DEF store, history
  <2>3. files["store"] = store /\ files["history"] = history /\ \A t \in Threads : files[t] = Broken
    BY <2>2 DEF Files
  <2>4. store \in Content /\ history \in Content
    BY <2>1 DEF Content
  <2>5. files \in [Files \cup Threads -> Content \cup {Broken}]
    BY <2>2, <2>4
  <2> QED
    BY <2>1, <2>3, <2>5 DEF FilesTyped, ContentOf, Files
<1>3. MemoryTyped
  BY Contents DEF Init, MemoryTyped
<1>4. \A t \in Threads : JobOK(t) /\ TemporaryOK(t)
  BY NoJobType DEF Init, JobOK, TemporaryOK, Saving
<1>5. TypeOK
  <2>1. \A p \in Processes : memory[p]["store"] \in StoreContent /\ memory[p]["history"] \in HistoryContent
    BY <1>3 DEF MemoryTyped, ContentOf, Files
  <2>2. nextId \in 1 .. MaxId + 1 /\ requests \in 0 .. MaxRequests
    BY DEF Init
  <2>3. pc \in [Threads -> Labels] /\ job \in [Threads -> Job] /\ dirty \in [Threads -> [Files -> SUBSET Ids]]
        /\ risk \in [Files -> SUBSET Ids] /\ phase \in [Processes -> {"down", "loading", "up"}]
    BY NoJobType DEF Init, Labels
  <2> QED
    BY <1>2, <2>1, <2>2, <2>3 DEF Init, TypeOK, FilesTyped
<1> QED
  BY <1>2, <1>3, <1>4, <1>5 DEF TypeInv

LEMMA NextType == TypeInv /\ [Next]_vars => TypeInv'
<1> SUFFICES ASSUME TypeInv, [Next]_vars PROVE TypeInv'
  OBVIOUS
<1>1. CASE UNCHANGED vars
  BY <1>1 DEF vars, TypeInv, TypeOK, FilesTyped, MemoryTyped, JobOK, TemporaryOK, Homes, Saving, ContentOf
<1>2. ASSUME NEW p \in Running, Start(p) \/ LoadHistory(p) \/ Crash(p) PROVE TypeInv'
  BY <1>2, LoadType, CrashType
<1>3. ASSUME NEW t \in Threads, Request(t) PROVE TypeInv'
  BY <1>3, AddType, LogType, FailureType, UpdateType, BeginType, DeleteType DEF Request
<1>4. ASSUME NEW t \in Threads, Save(t) PROVE TypeInv'
  BY <1>4, CopyType, ReadType, OpenType, FillType, RenameType, FailureType DEF Save
<1> QED
  BY <1>1, <1>2, <1>3, <1>4 DEF Next

LEMMA TypeAlways == Spec => []TypeInv
BY InitType, NextType, PTL DEF Spec

\* Every variable always has its type, whatever the program, the number of its
\* threads and processes, and the bounds.
THEOREM TypeCorrect == Spec => []TypeOK
<1>1. TypeInv => TypeOK
  BY DEF TypeInv
<1> QED
  BY <1>1, TypeAlways, PTL

-----------------------------------------------------------------------------
(* The files of server and mcp parse.                                      *)

LEMMA ParseStep == TypeInv /\ FilesParse /\ [Next]_vars => FilesParse'
<1> SUFFICES ASSUME TypeInv, FilesParse, [Next]_vars, program' # "cli", NEW f \in Files
             PROVE  files'[f] # Broken
  BY DEF FilesParse
<1> USE DEF FilesParse
<1>1. CASE UNCHANGED vars
  BY <1>1 DEF vars
<1>2. ASSUME NEW p \in Running, Start(p) \/ LoadHistory(p) \/ Crash(p) PROVE files'[f] # Broken
  <2>1. files'[f] = files[f] /\ program' = program
    BY <1>2, CrashMoves DEF Start, LoadHistory, Load
  <2> QED
    BY <2>1
<1>3. ASSUME NEW t \in Threads, Request(t) PROVE files'[f] # Broken
  BY <1>3 DEF Request, Add, AddLog, AddFails, Update, InitStore, DeleteBegin, Delete, DeleteLog
<1>4. ASSUME NEW t \in Threads, Save(t) PROVE files'[f] # Broken
  <2>1. CASE Copy(t) \/ Read(t) \/ WriteFails(t)
    BY <2>1 DEF Copy, Read, WriteFails
  <2>2. CASE Open(t)
    <3>1. program' = program /\ files' = [files EXCEPT ![t] = Broken] /\ f # t
      BY <2>2, ThreadFacts DEF Open, Target
    <3> QED
      BY <3>1, ThreadFacts
  <2>3. CASE Fill(t)
    BY <2>3, FillMoves
  <2>4. CASE Rename(t)
    <3>1. /\ program' = program /\ files'[job[t].file] = job[t].copy /\ job[t].copy \in Content
          /\ \A g \in Files \ {job[t].file} : files'[g] = files[g]
      BY <2>4, RenameMoves
    <3>2. CASE f = job[t].file
      BY <3>1, <3>2
    <3>3. CASE f # job[t].file
      BY <3>1, <3>3
    <3> QED
      BY <3>2, <3>3
  <2> QED
    BY <1>4, <2>1, <2>2, <2>3, <2>4 DEF Save
<1> QED
  BY <1>1, <1>2, <1>3, <1>4 DEF Next

\* Whenever server or mcp is killed, and however many requests save at once,
\* both of its files parse.
THEOREM FilesAlwaysParse == Spec => []FilesParse
<1>1. Init => FilesParse
  <2> SUFFICES ASSUME Init, NEW f \in Files PROVE files[f] # Broken
    BY DEF FilesParse
  <2>1. PICK kept \in [1 .. Kept -> Values] :
          files = [g \in Files \cup Threads |->
            CASE g = "store"   -> [i \in Ids |-> IF i <= Kept THEN kept[i] ELSE Nothing]
              [] g = "history" -> [i \in Ids |-> IF i <= Kept THEN {"Added"} ELSE {}]
              [] OTHER         -> Broken]
    BY DEF Init
  <2>2. /\ [i \in Ids |-> IF i <= Kept THEN kept[i] ELSE Nothing] \in StoreContent
        /\ [i \in Ids |-> IF i <= Kept THEN {"Added"} ELSE {}] \in HistoryContent
    BY DEF StoreContent, HistoryContent, Ids
  <2>3. CASE f = "store"
    BY <2>1, <2>2, <2>3, Contents
  <2>4. CASE f = "history"
    BY <2>1, <2>2, <2>4, Contents
  <2> QED
    BY <2>3, <2>4 DEF Files
<1> QED
  BY <1>1, TypeAlways, ParseStep, PTL DEF Spec

-----------------------------------------------------------------------------
(* A restart finds what was saved.                                         *)

\* The process has read the file.
Has(p, f) == phase[p] = "up" \/ (phase[p] = "loading" /\ f = "store")

\* What the process holds of a record is in the file, is still to be saved by
\* a request of this very process, or is at risk.
Saved(p, f, i) ==
  Has(p, f) =>
    \/ files[f] = Broken \/ i \in risk[f]
    \/ \E t \in Threads : home[t] = p /\ i \in dirty[t][f]
    \/ files[f][i] = memory[p][f][i]

\* Two processes hold the same of a record, or it is at risk.
Agree(p, q, f, i) == (Has(p, f) /\ Has(q, f)) => i \in risk[f] \/ memory[p][f][i] = memory[q][f][i]

\* The copy that a request will write is what its Memory still holds: of the
\* records that it has read.
Copied(t, i) ==
  Saving(t) =>
    \/ i \in risk[job[t].file]
    \/ job[t].file = "store" /\ pc[t] = "read" /\ i \in job[t].todo
    \/ job[t].copy[i] = Mine(t, job[t].file)[i]

SavedInv ==
  /\ \A p \in Processes : \A f \in Files : \A i \in Ids : Saved(p, f, i)
  /\ \A p, q \in Processes : \A f \in Files : \A i \in Ids : Agree(p, q, f, i)
  /\ \A t \in Threads : \A i \in Ids : Copied(t, i)

\* A step that changes the local variables of one request only.
LEMMA QuietSaved ==
  ASSUME TypeInv, SavedInv, NEW t \in Threads, NEW label \in Labels, NEW j \in Job, Goto(t, label, j),
         UNCHANGED <<home, phase, memory, dirty, risk>>,
         \A f \in Files : files'[f] \in {files[f], Broken},
         label \in {"read", "fill", "rename"} =>
           \A i \in Ids :
             \/ i \in risk[j.file]
             \/ j.file = "store" /\ label = "read" /\ i \in j.todo
             \/ j.copy[i] = Mine(t, j.file)[i]
  PROVE  SavedInv'
<1>1. /\ pc'[t] = label /\ job'[t] = j
      /\ \A u \in Threads \ {t} : pc'[u] = pc[u] /\ job'[u] = job[u]
  BY GotoType
<1>2. \A p \in Processes : \A f \in Files : \A i \in Ids : Saved(p, f, i)'
  BY DEF SavedInv, Saved, Has
<1>3. \A p, q \in Processes : \A f \in Files : \A i \in Ids : Agree(p, q, f, i)'
  BY DEF SavedInv, Agree, Has
<1>4. \A i \in Ids : Copied(t, i)'
  BY <1>1 DEF Copied, Saving, Mine
<1>5. \A u \in Threads \ {t} : \A i \in Ids : Copied(u, i)'
  BY <1>1 DEF SavedInv, Copied, Saving, Mine
<1> QED
  BY <1>2, <1>3, <1>4, <1>5 DEF SavedInv

LEMMA BeginSaved ==
  ASSUME TypeInv, SavedInv, NEW t \in Threads, InitStore(t) \/ DeleteBegin(t)
  PROVE  SavedInv'
<1>1. UNCHANGED <<home, files, phase, memory, dirty, risk>>
  BY DEF InitStore, DeleteBegin
<1>2. PICK label \in {"copy", "delete"}, j \in Job : Goto(t, label, j)
  BY BeginMoves
<1> QED
  BY <1>1, <1>2, QuietSaved DEF Labels

LEMMA CopySaved ==
  ASSUME TypeInv, SavedInv, NEW t \in Threads, Copy(t)
  PROVE  SavedInv'
<1>1. PICK j \in Job :
        /\ Goto(t, "read", j) /\ j.file = job[t].file
        /\ \/ j.file = "store" /\ j.todo = Live(t) /\ j.copy = Empty("store")
           \/ j.file = "history" /\ j.todo = {} /\ j.copy = Mine(t, "history")
  BY CopyMoves
<1>2. \A i \in Ids : (j.file = "store" /\ i \in j.todo) \/ j.copy[i] = Mine(t, j.file)[i]
  BY <1>1 DEF Live, Empty
<1> QED
  BY <1>1, <1>2, CopyMoves, QuietSaved DEF Labels

LEMMA ReadSaved ==
  ASSUME TypeInv, SavedInv, NEW t \in Threads, Read(t)
  PROVE  SavedInv'
<1>1. PICK i \in job[t].todo, j \in Job :
        /\ i \in Ids /\ Goto(t, "read", j) /\ j.file = "store"
        /\ j.todo = job[t].todo \ {i}
        /\ \A k \in Ids : j.copy[k] = IF k = i THEN Mine(t, "store")[i] ELSE job[t].copy[k]
  BY ReadMoves
<1>2. pc[t] = "read" /\ job[t].file = "store"
  BY ReadMoves DEF Read, At
<1>3. \A k \in Ids : k \in risk["store"] \/ k \in j.todo \/ j.copy[k] = Mine(t, "store")[k]
  BY <1>1, <1>2 DEF SavedInv, Copied, Saving
<1> QED
  BY <1>1, <1>3, ReadMoves, QuietSaved DEF Labels

LEMMA OpenSaved ==
  ASSUME TypeInv, SavedInv, NEW t \in Threads, Open(t)
  PROVE  SavedInv'
<1>1. /\ pc[t] = "read" /\ job[t] \in Job /\ job[t].todo = {} /\ Goto(t, "fill", job[t])
      /\ UNCHANGED <<program, home, phase, memory, nextId, requests, dirty, risk>>
      /\ files' = [files EXCEPT ![Target(t)] = Broken]
  BY ThreadFacts DEF Open, CopyDone, At
<1>2. \A f \in Files : files'[f] \in {files[f], Broken}
  BY <1>1, ThreadFacts
<1>3. \A i \in Ids : i \in risk[job[t].file] \/ job[t].copy[i] = Mine(t, job[t].file)[i]
  BY <1>1 DEF SavedInv, Copied, Saving
<1> QED
  BY <1>1, <1>2, <1>3, QuietSaved DEF Labels

LEMMA ChangeMoves ==
  ASSUME TypeInv, NEW t \in Threads, NEW f \in Files, NEW i \in Ids, NEW value,
         value \in IF f = "store" THEN Values \cup {Nothing} ELSE SUBSET {"Added", "Deleted"},
         Change(t, f, i, value)
  PROVE  /\ \A p \in Processes : \A g \in Files : \A k \in Ids :
              ~(p = home[t] /\ g = f /\ k = i) => memory'[p][g][k] = memory[p][g][k]
         /\ \A u \in Threads : \A g \in Files : dirty[u][g] \subseteq dirty'[u][g]
         /\ \A g \in Files : risk[g] \subseteq risk'[g]
         /\ i \in dirty'[t][f] /\ (CopyHeld(t, f) => i \in risk'[f])
<1>1. \A p \in Processes : \A g \in Files : \A k \in Ids :
        ~(p = home[t] /\ g = f /\ k = i) => memory'[p][g][k] = memory[p][g][k]
  BY ChangeType
<1>2. dirty \in [Threads -> [Files -> SUBSET Ids]] /\ risk \in [Files -> SUBSET Ids]
  BY DEF TypeInv, TypeOK
<1>3. dirty' = [dirty EXCEPT ![t][f] = dirty[t][f] \cup {i}]
  BY <1>2 DEF Change
<1>4. risk' = IF CopyHeld(t, f) THEN [risk EXCEPT ![f] = risk[f] \cup {i}] ELSE risk
  BY <1>2 DEF Change
<1>5. i \in dirty'[t][f] /\ \A u \in Threads : \A g \in Files : dirty[u][g] \subseteq dirty'[u][g]
  BY <1>2, <1>3
<1>6. (\A g \in Files : risk[g] \subseteq risk'[g]) /\ (CopyHeld(t, f) => i \in risk'[f])
  BY <1>2, <1>4
<1> QED
  BY <1>1, <1>5, <1>6

\* A record is changed: the request that did it has not saved, and whoever
\* holds a copy may write that, or lacks the change.
LEMMA ChangeSaved ==
  ASSUME TypeInv, SavedInv, NEW t \in Threads, NEW f \in Files, NEW i \in Ids, NEW value,
         value \in IF f = "store" THEN Values \cup {Nothing} ELSE SUBSET {"Added", "Deleted"},
         Change(t, f, i, value), UNCHANGED <<home, files, phase>>, phase[home[t]] = "up",
         NEW label \in Labels, NEW j \in Job, Goto(t, label, j), label \notin {"read", "fill", "rename"}
  PROVE  SavedInv'
<1>1. /\ pc'[t] = label /\ job'[t] = j
      /\ \A u \in Threads \ {t} : pc'[u] = pc[u] /\ job'[u] = job[u]
  BY GotoType
<1>2. \A p \in Processes : \A g \in Files : \A k \in Ids :
        ~(p = home[t] /\ g = f /\ k = i) => memory'[p][g][k] = memory[p][g][k]
  BY ChangeMoves
<1>3. \A u \in Threads : \A g \in Files : dirty[u][g] \subseteq dirty'[u][g]
  BY ChangeMoves
<1>4. i \in dirty'[t][f] /\ (CopyHeld(t, f) => i \in risk'[f])
  BY ChangeMoves
<1>5. \A g \in Files : risk[g] \subseteq risk'[g]
  BY ChangeMoves
<1>6. \A p \in Processes : \A g \in Files : \A k \in Ids : Saved(p, g, k)'
  <2> SUFFICES ASSUME NEW p \in Processes, NEW g \in Files, NEW k \in Ids PROVE Saved(p, g, k)'
    OBVIOUS
  <2>1. CASE p = home[t] /\ g = f /\ k = i
    BY <1>4, <2>1 DEF Saved
  <2>2. CASE ~(p = home[t] /\ g = f /\ k = i)
    <3>1. memory'[p][g][k] = memory[p][g][k]
      BY <1>2, <2>2
    <3>2. Saved(p, g, k)
      BY DEF SavedInv
    <3> QED
      BY <1>3, <1>5, <3>1, <3>2 DEF Saved, Has
  <2> QED
    BY <2>1, <2>2
<1>7. \A q \in Processes : q # home[t] /\ Has(q, f) => i \in risk'[f]
  <2> SUFFICES ASSUME NEW q \in Processes, q # home[t], Has(q, f) PROVE CopyHeld(t, f)
    BY <1>4
  <2> QED
    BY DEF Has, CopyHeld, Others
<1>8. \A p, q \in Processes : \A g \in Files : \A k \in Ids : Agree(p, q, g, k)'
  <2> SUFFICES ASSUME NEW p \in Processes, NEW q \in Processes, NEW g \in Files, NEW k \in Ids,
                      Has(p, g), Has(q, g)
               PROVE  k \in risk'[g] \/ memory'[p][g][k] = memory'[q][g][k]
    BY DEF Agree, Has
  <2>1. k \in risk[g] \/ memory[p][g][k] = memory[q][g][k]
    BY DEF SavedInv, Agree
  <2>2. CASE p = q
    BY <2>2
  <2>3. CASE ~(g = f /\ k = i) \/ (p # home[t] /\ q # home[t])
    <3>1. memory'[p][g][k] = memory[p][g][k] /\ memory'[q][g][k] = memory[q][g][k]
      BY <1>2, <2>3
    <3> QED
      BY <1>5, <2>1, <3>1
  <2>4. CASE g = f /\ k = i /\ p # q /\ home[t] \in {p, q}
    BY <1>7, <2>4
  <2> QED
    BY <2>2, <2>3, <2>4
<1>9. \A u \in Threads : \A k \in Ids : Copied(u, k)'
  <2>1. \A k \in Ids : Copied(t, k)'
    BY <1>1 DEF Copied, Saving
  <2> SUFFICES ASSUME NEW u \in Threads \ {t}, NEW k \in Ids, Saving(u)
               PROVE  \/ k \in risk'[job[u].file]
                      \/ job[u].file = "store" /\ pc[u] = "read" /\ k \in job[u].todo
                      \/ job[u].copy[k] = memory'[home[u]][job[u].file][k]
    BY <1>1, <2>1 DEF Copied, Saving, Mine
  <2>2. Copied(u, k) /\ home[u] \in Processes /\ job[u].file \in Files
    BY ThreadFacts DEF SavedInv, Job
  <2>3. CASE job[u].file = f /\ k = i
    <3>1. CopyHeld(t, f)
      BY <2>3 DEF CopyHeld, Saving
    <3> QED
      BY <1>4, <2>3, <3>1
  <2>4. CASE ~(job[u].file = f /\ k = i)
    <3>1. memory'[home[u]][job[u].file][k] = memory[home[u]][job[u].file][k]
      BY <1>2, <2>2, <2>4
    <3>2. risk[job[u].file] \subseteq risk'[job[u].file]
      BY <1>5, <2>2
    <3> QED
      BY <2>2, <3>1, <3>2 DEF Copied, Mine
  <2> QED
    BY <2>3, <2>4
<1> QED
  BY <1>6, <1>8, <1>9 DEF SavedInv

LEMMA RequestSaved ==
  ASSUME TypeInv, SavedInv, NEW t \in Threads, Add(t) \/ AddLog(t) \/ Update(t) \/ Delete(t) \/ DeleteLog(t)
  PROVE  SavedInv'
<1>1. CASE Add(t)
  <2>1. PICK v \in Values, j \in Job : Change(t, "store", nextId, v) /\ Goto(t, "addLog", j)
    BY <1>1, AddMoves
  <2> QED
    BY <1>1, <2>1, AddMoves, ChangeSaved DEF Add, Labels, Files
<1>2. CASE AddLog(t) \/ DeleteLog(t)
  <2>1. PICK value \in SUBSET {"Added", "Deleted"}, label \in {"copy", "delete"} :
          Change(t, "history", job[t].id, value) /\ Goto(t, label, job[t])
    BY <1>2, LogMoves
  <2> QED
    BY <1>2, <2>1, LogMoves, ThreadFacts, ChangeSaved DEF AddLog, DeleteLog, Labels, Files
<1>3. CASE Update(t)
  <2>1. PICK i \in Ids, v \in Values, j \in Job : Change(t, "store", i, v) /\ Goto(t, "copy", j)
    BY <1>3, UpdateMoves
  <2> QED
    BY <1>3, <2>1, BeginCounts, ChangeSaved DEF Update, Labels, Files
<1>4. CASE Delete(t)
  <2>1. /\ phase[home[t]] = "up" /\ UNCHANGED <<home, files, phase>>
        /\ \/ \E i \in Ids, j \in Job : Change(t, "store", i, Nothing) /\ Goto(t, "delLog", j)
           \/ \E j \in Job : Goto(t, "delete", j) /\ UNCHANGED <<memory, dirty, risk>>
    BY <1>4, DeleteMoves
  <2>2. ASSUME NEW i \in Ids, NEW j \in Job, Change(t, "store", i, Nothing), Goto(t, "delLog", j) PROVE SavedInv'
    BY <2>1, <2>2, ChangeSaved DEF Labels, Files
  <2>3. ASSUME NEW j \in Job, Goto(t, "delete", j), UNCHANGED <<memory, dirty, risk>> PROVE SavedInv'
    BY <2>1, <2>3, QuietSaved DEF Labels
  <2> QED
    BY <2>1, <2>2, <2>3
<1> QED
  BY <1>1, <1>2, <1>3, <1>4

\* A file is written, or is not; the request goes on, or ends.
LEMMA FinishSaved ==
  ASSUME TypeInv, SavedInv, NEW t \in Threads, NEW kept, Finishes(t, kept), kept \in {{}, {job[t].file}},
         phase[home[t]] = "up", home' = home, job[t].file \in Files,
         kept # {} => pc[t] \in {"fill", "rename"} /\ files'[job[t].file] \in {job[t].copy, Broken},
         \A f \in Files \ kept : files'[f] = files[f]
  PROVE  SavedInv'
<1>1. \A p \in Processes : \A g \in Files :
        Has(p, g)' => Has(p, g) /\ memory'[p] = memory[p] /\ phase'[p] = phase[p]
  BY DEF Has, Finishes
<1>2. \A g \in Files : risk[g] \subseteq risk'[g]
  BY DEF Finishes
<1>3. ASSUME NEW p \in Processes, NEW g \in Files, NEW i \in Ids, Has(p, g)'
      PROVE  \/ files'[g] = Broken \/ i \in risk'[g]
             \/ \E u \in Threads : home[u] = p /\ i \in dirty'[u][g]
             \/ files'[g][i] = memory'[p][g][i]
  <2>1. Has(p, g) /\ memory'[p] = memory[p]
    BY <1>1, <1>3
  <2>2. Saved(p, g, i)
    BY DEF SavedInv
  <2>3. CASE g \in kept
    <3>1. g = job[t].file /\ pc[t] \in {"fill", "rename"} /\ files'[g] \in {job[t].copy, Broken}
      BY <2>3
    <3>2. i \in risk[g] \/ job[t].copy[i] = memory[home[t]][g][i]
      BY <3>1 DEF SavedInv, Copied, Saving, Mine
    <3>3. home[t] \in Processes /\ Has(home[t], g)
      BY ThreadFacts DEF Has
    <3>4. i \in risk[g] \/ memory[home[t]][g][i] = memory[p][g][i]
      BY <2>1, <3>3 DEF SavedInv, Agree
    <3> QED
      BY <1>2, <2>1, <3>1, <3>2, <3>4
  <2>4. CASE g \notin kept
    <3>1. files'[g] = files[g]
      BY <2>4
    <3>2. \A u \in Threads : i \in dirty[u][g] => i \in dirty'[u][g] \/ i \in risk'[g]
      BY <2>4 DEF Finishes
    <3> QED
      BY <1>2, <2>1, <2>2, <3>1, <3>2 DEF Saved
  <2> QED
    BY <2>3, <2>4
<1>4. \A p \in Processes : \A g \in Files : \A i \in Ids : Saved(p, g, i)'
  BY <1>3 DEF Saved
<1>5. \A p, q \in Processes : \A g \in Files : \A i \in Ids : Agree(p, q, g, i)'
  <2> SUFFICES ASSUME NEW p \in Processes, NEW q \in Processes, NEW g \in Files, NEW i \in Ids,
                      Has(p, g)', Has(q, g)'
               PROVE  i \in risk'[g] \/ memory'[p][g][i] = memory'[q][g][i]
    BY DEF Agree
  <2>1. i \in risk[g] \/ memory[p][g][i] = memory[q][g][i]
    BY <1>1 DEF SavedInv, Agree
  <2> QED
    BY <1>1, <1>2, <2>1
<1>6. \A u \in Threads : \A i \in Ids : Copied(u, i)'
  <2>1. \A i \in Ids : Copied(t, i)'
    BY DEF Copied, Saving, Finishes
  <2>4. \A u \in Threads \ {t} : pc'[u] = pc[u] /\ job'[u] = job[u]
    BY DEF Finishes
  <2> SUFFICES ASSUME NEW u \in Threads \ {t}, NEW i \in Ids, Saving(u)
               PROVE  \/ i \in risk'[job[u].file]
                      \/ job[u].file = "store" /\ pc[u] = "read" /\ i \in job[u].todo
                      \/ job[u].copy[i] = memory'[home[u]][job[u].file][i]
    BY <2>1, <2>4 DEF Copied, Saving, Mine
  <2>2. memory'[home[u]] = memory[home[u]] /\ job[u].file \in Files
    BY ThreadFacts DEF Finishes, Job
  <2>3. Copied(u, i)
    BY DEF SavedInv
  <2> QED
    BY <1>2, <2>2, <2>3 DEF Copied, Mine
<1> QED
  BY <1>4, <1>5, <1>6 DEF SavedInv

LEMMA FailureSaved ==
  ASSUME TypeInv, SavedInv, NEW t \in Threads, WriteFails(t) \/ AddFails(t)
  PROVE  SavedInv'
<1>1. pc[t] # "idle" /\ UNCHANGED <<program, home, files, nextId, requests>>
  BY DEF WriteFails, AddFails, CopyDone, At
<1>2. phase[home[t]] = "up" /\ job[t].file \in Files
  BY <1>1, ThreadFacts DEF Job
<1> QED
  BY <1>1, <1>2, FailureFinishes, FinishSaved

LEMMA FillSaved ==
  ASSUME TypeInv, SavedInv, NEW t \in Threads, Fill(t)
  PROVE  SavedInv'
<1>1. /\ pc[t] = "fill" /\ phase[home[t]] = "up" /\ UNCHANGED <<program, home, nextId, requests>>
      /\ job[t] \in Job /\ job[t].file \in Files
  BY FillMoves, ThreadFacts DEF Job
<1>2. CASE /\ Finishes(t, {job[t].file}) /\ files'[job[t].file] \in {job[t].copy, Broken}
           /\ \A f \in Files \ {job[t].file} : files'[f] = files[f]
  BY <1>1, <1>2, FinishSaved
<1>3. CASE /\ Goto(t, "rename", job[t]) /\ UNCHANGED <<phase, memory, dirty, risk>>
           /\ \A f \in Files : files'[f] = files[f]
  <2>1. \A i \in Ids : i \in risk[job[t].file] \/ job[t].copy[i] = Mine(t, job[t].file)[i]
    BY <1>1 DEF SavedInv, Copied, Saving
  <2> QED
    BY <1>1, <1>3, <2>1, QuietSaved DEF Labels
<1> QED
  BY <1>2, <1>3, FillMoves

LEMMA RenameSaved ==
  ASSUME TypeInv, SavedInv, NEW t \in Threads, Rename(t)
  PROVE  SavedInv'
<1>1. job[t].file \in Files
  BY ThreadFacts DEF Job
<1> QED
  BY <1>1, RenameMoves, FinishSaved

\* A process starts: it lacks what others have not saved, and all of a file
\* that does not parse.
LEMMA LoadSaved ==
  ASSUME TypeInv, SavedInv, NEW p \in Running, Start(p) \/ LoadHistory(p)
  PROVE  SavedInv'
<1>1. PICK f \in Files :
           /\ p \in Processes /\ phase[p] # "up"
           /\ \/ f = "store" /\ phase[p] = "down" /\ phase' = [phase EXCEPT ![p] = "loading"]
              \/ f = "history" /\ phase[p] = "loading" /\ phase' = [phase EXCEPT ![p] = "up"]
           /\ Load(p, f)
           /\ \A q \in Processes : \A g \in Files :
                memory'[q][g] = IF q = p /\ g = f THEN Loaded(f) ELSE memory[q][g]
           /\ \A g \in Files : risk[g] \subseteq risk'[g]
           /\ \A t \in Threads : home[t] # p => dirty[t][f] \subseteq risk'[f]
           /\ (Others(p) # {} /\ files[f] = Broken) => risk'[f] = Ids
  BY LoadMoves, SMTT(30)
<1>2. UNCHANGED <<program, home, files, nextId, pc, job, requests, dirty>>
  BY <1>1 DEF Load
<1>3. \A q \in Processes : \A g \in Files : Has(q, g)' <=> Has(q, g) \/ (q = p /\ g = f)
  BY <1>1 DEF Has, TypeInv, TypeOK, Files
<1>4. \A q \in Processes : \A g \in Files : ~(q = p /\ g = f) => memory'[q][g] = memory[q][g]
  BY <1>1
<1>5. \A i \in Ids : files[f] = Broken \/ files[f][i] = memory'[p][f][i]
  BY <1>1 DEF Loaded
<1>6. \A q \in Processes : \A g \in Files : \A i \in Ids : Saved(q, g, i)'
  BY <1>1, <1>2, <1>3, <1>4, <1>5 DEF SavedInv, Saved
<1>7. ASSUME NEW q \in Processes, q # p, Has(q, f), NEW i \in Ids
      PROVE  i \in risk'[f] \/ memory'[q][f][i] = memory'[p][f][i]
  <2>1. q \in Others(p)
    BY <1>7 DEF Others, Has
  <2>2. CASE files[f] = Broken
    BY <1>1, <2>1, <2>2
  <2>3. CASE files[f] # Broken
    <3>1. \/ i \in risk[f] \/ \E t \in Threads : home[t] = q /\ i \in dirty[t][f]
          \/ files[f][i] = memory[q][f][i]
      BY <1>7, <2>3 DEF SavedInv, Saved
    <3> QED
      BY <1>1, <1>4, <1>5, <1>7, <2>3, <3>1
  <2> QED
    BY <2>2, <2>3
<1>8. \A q, r \in Processes : \A g \in Files : \A i \in Ids : Agree(q, r, g, i)'
  <2> SUFFICES ASSUME NEW q \in Processes, NEW r \in Processes, NEW g \in Files, NEW i \in Ids,
                      Has(q, g)', Has(r, g)'
               PROVE  i \in risk'[g] \/ memory'[q][g][i] = memory'[r][g][i]
    BY DEF Agree
  <2>1. CASE q = r
    BY <2>1
  <2>2. CASE q # r /\ g = f /\ p \in {q, r}
    BY <1>3, <1>7, <2>2
  <2>3. CASE ~(g = f /\ p \in {q, r})
    <3>1. Has(q, g) /\ Has(r, g)
      BY <1>3, <2>3
    <3>2. i \in risk[g] \/ memory[q][g][i] = memory[r][g][i]
      BY <3>1 DEF SavedInv, Agree
    <3> QED
      BY <1>1, <1>4, <2>3, <3>2
  <2> QED
    BY <2>1, <2>2, <2>3
<1>9. \A u \in Threads : \A i \in Ids : Copied(u, i)'
  <2> SUFFICES ASSUME NEW u \in Threads, NEW i \in Ids, Saving(u)
               PROVE  \/ i \in risk'[job[u].file]
                      \/ job[u].file = "store" /\ pc[u] = "read" /\ i \in job[u].todo
                      \/ job[u].copy[i] = memory'[home[u]][job[u].file][i]
    BY <1>2 DEF Copied, Saving, Mine
  <2>1. home[u] \in Processes /\ home[u] # p /\ job[u].file \in Files
    BY <1>1, ThreadFacts DEF Saving, Job
  <2>2. Copied(u, i)
    BY DEF SavedInv
  <2> QED
    BY <1>1, <1>4, <2>1, <2>2 DEF Copied, Mine
<1> QED
  BY <1>6, <1>8, <1>9 DEF SavedInv

LEMMA CrashSaved ==
  ASSUME TypeInv, SavedInv, NEW p \in Running, Crash(p)
  PROVE  SavedInv'
<1>1. /\ UNCHANGED <<home, risk>> /\ p \in Processes /\ phase'[p] = "down"
      /\ \A q \in Processes \ {p} : phase'[q] = phase[q] /\ memory'[q] = memory[q]
      /\ \A f \in Files : files'[f] = files[f]
      /\ \A u \in Threads :
           IF home[u] = p THEN pc'[u] = "idle"
           ELSE pc'[u] = pc[u] /\ job'[u] = job[u] /\ dirty'[u] = dirty[u]
  BY CrashMoves
<1>2. \A q \in Processes : \A g \in Files : Has(q, g)' => q # p /\ Has(q, g) /\ memory'[q] = memory[q]
  BY <1>1 DEF Has
<1>3. \A q \in Processes : \A g \in Files : \A i \in Ids : Saved(q, g, i)'
  <2> SUFFICES ASSUME NEW q \in Processes, NEW g \in Files, NEW i \in Ids, Has(q, g)'
               PROVE  \/ files'[g] = Broken \/ i \in risk'[g]
                      \/ \E t \in Threads : home'[t] = q /\ i \in dirty'[t][g]
                      \/ files'[g][i] = memory'[q][g][i]
    BY DEF Saved
  <2>1. q # p /\ Has(q, g) /\ memory'[q] = memory[q]
    BY <1>2
  <2>2. Saved(q, g, i)
    BY DEF SavedInv
  <2> QED
    BY <1>1, <2>1, <2>2 DEF Saved
<1>4. \A q, r \in Processes : \A g \in Files : \A i \in Ids : Agree(q, r, g, i)'
  BY <1>1, <1>2 DEF SavedInv, Agree
<1>5. \A u \in Threads : \A i \in Ids : Copied(u, i)'
  <2> SUFFICES ASSUME NEW u \in Threads, NEW i \in Ids, Saving(u)' PROVE Copied(u, i)'
    BY DEF Copied
  <2>1. home[u] # p /\ home[u] \in Processes
    BY <1>1, ThreadFacts DEF Saving
  <2>2. /\ pc'[u] = pc[u] /\ job'[u] = job[u] /\ memory'[home[u]] = memory[home[u]]
        /\ Copied(u, i)
    BY <1>1, <2>1 DEF SavedInv
  <2> QED
    BY <1>1, <2>2 DEF Copied, Saving, Mine
<1> QED
  BY <1>3, <1>4, <1>5 DEF SavedInv

LEMMA SavedStep == TypeInv /\ SavedInv /\ [Next]_vars => SavedInv'
<1> SUFFICES ASSUME TypeInv, SavedInv, [Next]_vars PROVE SavedInv'
  OBVIOUS
<1>1. CASE UNCHANGED vars
  BY <1>1 DEF vars, SavedInv, Saved, Agree, Copied, Has, Saving, Mine
<1>2. ASSUME NEW p \in Running, Start(p) \/ LoadHistory(p) \/ Crash(p) PROVE SavedInv'
  BY <1>2, LoadSaved, CrashSaved
<1>3. ASSUME NEW t \in Threads, Request(t) PROVE SavedInv'
  BY <1>3, RequestSaved, FailureSaved, BeginSaved DEF Request
<1>4. ASSUME NEW t \in Threads, Save(t) PROVE SavedInv'
  BY <1>4, CopySaved, ReadSaved, OpenSaved, FillSaved, RenameSaved, FailureSaved DEF Save
<1> QED
  BY <1>1, <1>2, <1>3, <1>4 DEF Next

\* Once the requests that changed a record have saved, a restart finds of it
\* what the Memory of the process holds, whatever crashed, failed or ran at the
\* same time: unless a change of this very record met a copy taken before it,
\* or was not saved.
THEOREM SavedIsFound == Spec => []ChangesAreSaved
<1>1. Init => SavedInv
  BY DEF Init, SavedInv, Saved, Agree, Copied, Has, Saving
<1>2. TypeInv /\ SavedInv => ChangesAreSaved
  <2> SUFFICES ASSUME TypeInv, SavedInv, NEW t \in Threads, NEW f \in Files, NEW i \in Ids,
                      phase[home[t]] = "up"
               PROVE  \/ files[f] = Broken \/ i \in risk[f] \/ \E u \in Threads : i \in dirty[u][f]
                      \/ files[f][i] = Mine(t, f)[i]
    BY DEF ChangesAreSaved
  <2>1. Saved(home[t], f, i)
    BY ThreadFacts DEF SavedInv
  <2> QED
    BY <2>1 DEF Saved, Has, Mine
<1> QED
  BY <1>1, <1>2, TypeAlways, SavedStep, PTL DEF Spec
=============================================================================
