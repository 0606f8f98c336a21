--------------------------- MODULE SnapshotFiles ---------------------------
(***************************************************************************)
(* The JSON snapshots of the in-memory store and of the history, as the    *)
(* programs of the workspace keep them: load at the start, save after each *)
(* request that changed something.                                         *)
(*                                                                         *)
(*   server  one process; requests run on threads that share one Memory;   *)
(*           a file is written under a new name and renamed                *)
(*   mcp     the same with tool calls, and with the history saved always;  *)
(*           every client starts a process of its own over the same files  *)
(*   cli     each request is a process with its own Memory; files are      *)
(*           written in place                                              *)
(*                                                                         *)
(* What a method of Memory does to one record is one step here; module     *)
(* MemoryEngine has the details.  Entity records are left out: snapshots   *)
(* do not hold them.                                                       *)
(***************************************************************************)
EXTENDS Naturals, FiniteSets

CONSTANTS
  Programs,  \* the programs to check; one of them runs
  Threads,   \* what runs requests: threads of one process, or processes
  Daemon,    \* the process whose threads they are, if they share one
  MaxId,     \* Bounds the model: record ids are 1 .. MaxId
  Kept,      \* Bounds the model: the records that earlier runs have left
  MaxRequests,  \* Bounds the model: the requests of a behaviour
  Values,    \* what a record can hold
  Nothing,   \* no record
  Broken     \* a file that does not parse

ASSUME ProgramsAssumption == Programs \subseteq {"server", "mcp", "cli"}
ASSUME DaemonAssumption == Daemon \notin Threads
ASSUME SnapshotBoundsAssumption == MaxId \in Nat /\ MaxRequests \in Nat /\ Kept \in 0 .. MaxId
ASSUME NothingAssumption == Nothing \notin Values

Ids == 1 .. MaxId

Files == {"store", "history"}

\* Of the history of a record only the kinds of its entries are kept.
StoreContent == [Ids -> Values \cup {Nothing}]
HistoryContent == [Ids -> SUBSET {"Added", "Deleted"}]
Content == StoreContent \cup HistoryContent

\* The temporary files have other names than the snapshots, and a file that
\* does not parse has no content.
ASSUME NamesAssumption == Threads \cap Files = {} /\ Broken \notin Content

Empty(f) == [i \in Ids |-> IF f = "store" THEN Nothing ELSE {}]

VARIABLES
  program,  \* the program that runs
  home,     \* the process that each thread belongs to
  files,    \* contents: the two snapshots, and the temporary file of each thread
  phase,    \* of each process: "down", "loading" (the history is missing) or "up"
  memory,   \* the Memory of each process: its store and its history
  nextId,   \* the next id; ids are unique over processes and restarts
  pc,       \* the next step of each thread
  job,      \* the local variables of each thread's request
  requests, \* how many requests have begun
  dirty,    \* history variable: what each request changed and has not saved yet
  risk      \* history variable: the ids whose change a race, an error or an
            \* unsaving request may have kept from the files

vars == <<program, home, files, phase, memory, nextId, pc, job, requests, dirty, risk>>

-----------------------------------------------------------------------------
Labels == {"idle", "addLog", "delete", "delLog", "copy", "read", "fill", "rename"}

Ops ==
  CASE program = "server" -> {"add", "update", "delete", "reset", "deleteEntity"}
    [] program = "mcp"    -> {"add", "update", "delete", "reset"}
    [] program = "cli"    -> {"add", "update", "delete", "init"}

SavesHistory(op) ==
  CASE program = "server" -> op \notin {"update", "deleteEntity"}
    [] program = "mcp"    -> TRUE
    [] program = "cli"    -> op \notin {"update", "init"}

Processes == Threads \cup {Daemon}
Homes ==
  (IF program = "cli" THEN {} ELSE {[t \in Threads |-> Daemon]})
    \cup (IF program = "server" THEN {} ELSE {[t \in Threads |-> t]})
Running == {home[t] : t \in Threads}

Job ==
  [op   : {"none", "add", "update", "delete", "reset", "deleteEntity", "init"},
   id   : Ids \cup {0},     \* the record that was added or deleted last
   todo : SUBSET Ids,       \* records to delete, or to read for the snapshot
   file : Files,            \* the file being saved
   copy : Content]          \* what will be written

NoJob == [op |-> "none", id |-> 0, todo |-> {}, file |-> "store", copy |-> Empty("store")]
NoMemory == [f \in Files |-> Empty(f)]
Clean == [f \in Files |-> {}]

\* Faulty variant: the text is taken as it is.
LoadedUnparsed(f) == files[f]

\* What a program reads from a snapshot: nothing if the file does not parse.
Loaded(f) == IF files[f] = Broken THEN Empty(f) ELSE files[f]

\* The files are what earlier runs have left.
Init ==
  /\ program \in Programs
  /\ home \in Homes
  /\ nextId = Kept + 1
  /\ \E kept \in [1 .. Kept -> Values] :
       files = [f \in Files \cup Threads |->
         CASE f = "store"   -> [i \in Ids |-> IF i <= Kept THEN kept[i] ELSE Nothing]
           [] f = "history" -> [i \in Ids |-> IF i <= Kept THEN {"Added"} ELSE {}]
           [] OTHER         -> Broken]
  /\ phase = [p \in Processes |-> "down"]
  /\ memory = [p \in Processes |-> NoMemory]
  /\ pc = [t \in Threads |-> "idle"]
  /\ job = [t \in Threads |-> NoJob]
  /\ requests = 0
  /\ dirty = [t \in Threads |-> Clean]
  /\ risk = Clean

-----------------------------------------------------------------------------
(* Processes.                                                              *)

Others(p) == {q \in Processes \ {p} : phase[q] # "down"}

\* Read one snapshot.  The changes that another process has not saved yet
\* are missing, and so is everything while it writes the file in place.
Load(p, f) ==
  /\ memory' = [memory EXCEPT ![p][f] = Loaded(f)]
  /\ risk' = [risk EXCEPT ![f] =
                @ \cup (UNION {dirty[t][f] : t \in {u \in Threads : home[u] # p}})
                  \cup (IF Others(p) # {} /\ files[f] = Broken THEN Ids ELSE {})]
  /\ UNCHANGED <<program, home, files, nextId, pc, job, requests, dirty>>

Start(p) ==
  /\ phase[p] = "down"
  /\ phase' = [phase EXCEPT ![p] = "loading"]
  /\ Load(p, "store")

LoadHistory(p) ==
  /\ phase[p] = "loading"
  /\ phase' = [phase EXCEPT ![p] = "up"]
  /\ Load(p, "history")

\* Killed, or stopped: the process loses its Memory and its requests, and no
\* other uses the names of its temporary files.
Crash(p) ==
  /\ phase[p] # "down"
  /\ phase' = [phase EXCEPT ![p] = "down"]
  /\ memory' = [memory EXCEPT ![p] = NoMemory]
  /\ LET mine == {t \in Threads : home[t] = p} IN
     /\ pc' = [t \in Threads |-> IF t \in mine THEN "idle" ELSE pc[t]]
     /\ job' = [t \in Threads |-> IF t \in mine THEN NoJob ELSE job[t]]
     /\ dirty' = [t \in Threads |-> IF t \in mine THEN Clean ELSE dirty[t]]
     /\ files' = [f \in DOMAIN files |-> IF f \in mine THEN Broken ELSE files[f]]
  /\ UNCHANGED <<program, home, nextId, requests, risk>>

-----------------------------------------------------------------------------
(* Requests.                                                               *)

At(t, label) == pc[t] = label

Goto(t, label, j) ==
  /\ pc' = [pc EXCEPT ![t] = label]
  /\ job' = [job EXCEPT ![t] = j]

\* The store or the history of the thread's own Memory.
Mine(t, f) == memory[home[t]][f]

Live(t) == {i \in Ids : Mine(t, "store")[i] # Nothing}

\* Another request holds a copy of the file's content and may write it later.
CopyHeld(t, f) ==
  \/ \E u \in Threads \ {t} : job[u].file = f /\ pc[u] \in {"read", "fill", "rename"}
  \/ \E p \in Others(home[t]) : phase[p] = "up" \/ f = "store"

\* Change record i in the Memory of the thread.
Change(t, f, i, value) ==
  /\ memory' = [memory EXCEPT ![home[t]][f][i] = value]
  /\ dirty' = [dirty EXCEPT ![t][f] = @ \cup {i}]
  /\ risk' = IF CopyHeld(t, f) THEN [risk EXCEPT ![f] = @ \cup {i}] ELSE risk

LogEntry(t, event) == Change(t, "history", job[t].id, Mine(t, "history")[job[t].id] \cup {event})

Begin(t, op) ==
  /\ At(t, "idle") /\ phase[home[t]] = "up" /\ op \in Ops
  /\ requests < MaxRequests
  /\ requests' = requests + 1

Add(t) ==
  /\ Begin(t, "add") /\ nextId \in Ids
  /\ \E v \in Values : Change(t, "store", nextId, v)
  /\ nextId' = nextId + 1
  /\ Goto(t, "addLog", [NoJob EXCEPT !.op = "add", !.id = nextId])
  /\ UNCHANGED <<program, home, files, phase>>

AddLog(t) ==
  /\ At(t, "addLog")
  /\ LogEntry(t, "Added")
  /\ Goto(t, "copy", job[t])
  /\ UNCHANGED <<program, home, files, phase, nextId, requests>>

Update(t) ==
  /\ Begin(t, "update")
  /\ \E i \in Live(t), v \in Values : Change(t, "store", i, v)
  /\ Goto(t, "copy", [NoJob EXCEPT !.op = "update"])
  /\ UNCHANGED <<program, home, files, phase, nextId>>

\* init of the command line client saves the store that it loaded.
InitStore(t) ==
  /\ Begin(t, "init")
  /\ Goto(t, "copy", [NoJob EXCEPT !.op = "init"])
  /\ UNCHANGED <<program, home, files, phase, memory, nextId, dirty, risk>>

\* delete of one record, or reset over all of them.
DeleteBegin(t) ==
  /\ \E op \in Ops \cap {"delete", "reset", "deleteEntity"} :
       /\ Begin(t, op)
       /\ \E ids \in IF op = "delete" THEN {{i} : i \in Ids} ELSE {Live(t)} :
            Goto(t, "delete", [NoJob EXCEPT !.op = op, !.todo = ids])
  /\ UNCHANGED <<program, home, files, phase, memory, nextId, dirty, risk>>

Delete(t) ==
  /\ At(t, "delete")
  /\ \E i \in job[t].todo :
       IF i \in Live(t)
       THEN /\ Change(t, "store", i, Nothing)
            /\ Goto(t, "delLog", [job[t] EXCEPT !.id = i, !.todo = @ \ {i}])
       ELSE /\ Goto(t, "delete", [job[t] EXCEPT !.todo = @ \ {i}])
            /\ UNCHANGED <<memory, dirty, risk>>
  /\ UNCHANGED <<program, home, files, phase, nextId, requests>>

DeleteLog(t) ==
  /\ At(t, "delLog")
  /\ LogEntry(t, "Deleted")
  /\ Goto(t, "delete", job[t])
  /\ UNCHANGED <<program, home, files, phase, nextId, requests>>

\* The request ends.  What it has not saved stays unsaved, and a process of
\* the command line client ends with it.
End(t, unsaved) ==
  /\ Goto(t, "idle", NoJob)
  /\ risk' = [f \in Files |-> risk[f] \cup unsaved[f]]
  /\ dirty' = [dirty EXCEPT ![t] = Clean]
  /\ phase' = [phase EXCEPT ![t] = IF program = "cli" THEN "down" ELSE @]
  /\ memory' = [memory EXCEPT ![t] = IF program = "cli" THEN NoMemory ELSE @]

\* add fails after its insert, when it embeds or links an entity: the error
\* is returned before anything is saved.
AddFails(t) ==
  /\ At(t, "copy") /\ job[t].op = "add" /\ job[t].file = "store"
  /\ End(t, dirty[t])
  /\ UNCHANGED <<program, home, files, nextId, requests>>

-----------------------------------------------------------------------------
(* save_store and save_history.                                            *)

\* list_all gives the ids; the history is cloned under its lock.
Copy(t) ==
  /\ At(t, "copy") \/ (At(t, "delete") /\ job[t].todo = {})
  /\ \/ /\ job[t].file = "store"
        /\ Goto(t, "read", [job[t] EXCEPT !.todo = Live(t), !.copy = Empty("store")])
     \/ /\ job[t].file = "history"
        /\ Goto(t, "read", [job[t] EXCEPT !.copy = Mine(t, "history")])
  /\ UNCHANGED <<program, home, files, phase, memory, nextId, requests, dirty, risk>>

Read(t) ==
  /\ At(t, "read")
  /\ \E i \in job[t].todo :
       Goto(t, "read", [job[t] EXCEPT !.todo = @ \ {i}, !.copy[i] = Mine(t, "store")[i]])
  /\ UNCHANGED <<program, home, files, phase, memory, nextId, requests, dirty, risk>>

\* Faulty variant: every program writes the files in place.
InPlace(t) == job[t].file

\* The file that is opened: server and mcp use a name of their own for each
\* save.
Target(t) == IF program = "cli" THEN job[t].file ELSE t

\* The copy is complete.
CopyDone(t) == At(t, "read") /\ job[t].todo = {}

\* Writing empties the file ...
Open(t) ==
  /\ CopyDone(t)
  /\ files' = [files EXCEPT ![Target(t)] = Broken]
  /\ Goto(t, "fill", job[t])
  /\ UNCHANGED <<program, home, phase, memory, nextId, requests, dirty, risk>>

\* Faulty variant: the history is never saved.
StoreOnly(t) == End(t, [f \in Files |-> {}])

\* The history follows the store, unless the request does not save it.
NextFile(t) ==
  IF job[t].file = "store" /\ SavesHistory(job[t].op)
  THEN /\ Goto(t, "copy", [NoJob EXCEPT !.op = job[t].op, !.file = "history"])
       /\ dirty' = [dirty EXCEPT ![t]["store"] = {}]
       /\ UNCHANGED <<phase, memory, risk>>
  ELSE End(t, [dirty[t] EXCEPT ![job[t].file] = {}])

\* ... and fills it; over what another process has written since, the text
\* may not parse.
Fill(t) ==
  /\ At(t, "fill")
  /\ \E text \in {job[t].copy} \cup (IF files[Target(t)] = Broken THEN {} ELSE {Broken}) :
       files' = [files EXCEPT ![Target(t)] = text]
  /\ IF program = "cli"
     THEN NextFile(t)
     ELSE Goto(t, "rename", job[t]) /\ UNCHANGED <<phase, memory, dirty, risk>>
  /\ UNCHANGED <<program, home, nextId, requests>>

Rename(t) ==
  /\ At(t, "rename")
  /\ files' = [files EXCEPT ![job[t].file] = files[Target(t)], ![Target(t)] = Broken]
  /\ NextFile(t)
  /\ UNCHANGED <<program, home, nextId, requests>>

\* A write or the renaming fails; the request goes on all the same.
WriteFails(t) ==
  /\ CopyDone(t) \/ pc[t] \in {"fill", "rename"}
  /\ LET f == job[t].file IN
     /\ IF f = "store" /\ SavesHistory(job[t].op)
        THEN /\ Goto(t, "copy", [NoJob EXCEPT !.op = job[t].op, !.file = "history"])
             /\ dirty' = [dirty EXCEPT ![t]["store"] = {}]
             /\ risk' = [risk EXCEPT ![f] = @ \cup dirty[t][f]]
             /\ UNCHANGED <<phase, memory>>
        ELSE End(t, dirty[t])
  /\ UNCHANGED <<program, home, files, nextId, requests>>

-----------------------------------------------------------------------------
Request(t) ==
  \/ Add(t) \/ AddLog(t) \/ AddFails(t) \/ Update(t) \/ InitStore(t)
  \/ DeleteBegin(t) \/ Delete(t) \/ DeleteLog(t)

Save(t) ==
  \/ Copy(t) \/ Read(t)
  \/ Open(t) \/ Fill(t) \/ Rename(t) \/ WriteFails(t)

Next ==
  \/ \E p \in Running : Start(p) \/ LoadHistory(p) \/ Crash(p)
  \/ \E t \in Threads : Request(t) \/ Save(t)

Spec == Init /\ [][Next]_vars

-----------------------------------------------------------------------------
(* Properties                                                              *)

\* Every variable has its type.
TypeOK ==
  /\ program \in Programs /\ home \in Homes
  /\ files \in [Files \cup Threads -> Content \cup {Broken}]
  /\ phase \in [Processes -> {"down", "loading", "up"}]
  /\ \A p \in Processes :
       /\ memory[p]["store"] \in StoreContent
       /\ memory[p]["history"] \in HistoryContent
  /\ nextId \in 1 .. MaxId + 1
  /\ pc \in [Threads -> Labels]
  /\ job \in [Threads -> Job]
  /\ dirty \in [Threads -> [Files -> SUBSET Ids]]
  /\ risk \in [Files -> SUBSET Ids]
  /\ requests \in 0 .. MaxRequests

\* Once the requests that changed a record have saved, a restart finds of this
\* record what the Memory of the process holds, also after crashes, failed
\* writes and any overlap of requests: unless a change of this very record met
\* a copy taken before it, or was not saved.
ChangesAreSaved ==
  \A t \in Threads : \A f \in Files : \A i \in Ids :
    \/ phase[home[t]] # "up"
    \/ files[f] = Broken
    \/ i \in risk[f]
    \/ \E u \in Threads : i \in dirty[u][f]
    \/ files[f][i] = Mine(t, f)[i]

\* Whenever server or mcp is killed, and however many requests save at once,
\* both of its files parse (the assertion of
\* write_atomically_never_corrupts_the_file_under_concurrent_writers).
FilesParse == program # "cli" => \A f \in Files : files[f] # Broken

=============================================================================
