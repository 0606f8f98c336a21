----------------------------- MODULE DreamLock -----------------------------
(***************************************************************************)
(* When the OpenCode plugin lets a session consolidate the memories of a   *)
(* scope ("dream"): integrations/opencode-plugin/src/dream.ts and the      *)
(* hooks of index.ts that call it.                                         *)
(*                                                                         *)
(* The processes that work in one scope share two files, dream-state.json  *)
(* and dream.lock.  A process runs its hooks on one thread and gives way   *)
(* only where a hook awaits, but the processes interleave at every file    *)
(* operation.  writeFileSync empties the file before it fills it, and a    *)
(* process may be killed at any point.                                     *)
(***************************************************************************)
EXTENDS Naturals, FiniteSets

CONSTANTS
  Processes,    \* opencode processes; a process that ended can be started again
  Sessions,     \* chat sessions; a later process may resume one
  MaxRunning,   \* processes that run at once: bounds the model
  Crashes,      \* may a process be killed?
  StaleAge,     \* LOCK_STALE_MS, in ticks of the clock
  MinAge,       \* minHours, in ticks of the clock
  MinSessions,  \* minSessions
  MaxCount,     \* Bounds the model: the session counter stops here
  MaxTime,      \* Bounds the model: the clock stops here
  Nothing       \* no lock, no session, or the content of a file that does not parse

ASSUME AgesAssumption == StaleAge \in Nat /\ MaxTime \in Nat /\ MinAge \in 0 .. MaxTime
ASSUME CountAssumption == MinSessions \in Nat \ {0} /\ MaxCount \in Nat /\ MinSessions <= MaxCount
ASSUME RunningAssumption == MaxRunning \in Nat /\ Crashes \in BOOLEAN

VARIABLES
  now,                  \* Date.now(); 0 is long before the first tick
  state,                \* dream-state.json, Nothing if it does not parse
  lock,                 \* dream.lock, Nothing if there is none
  running,              \* the processes that run
  checkedSessions,      \* per process: sessions whose gates were checked
  waiting,              \* per process: sessions whose hook awaits countMemories
  dreamActiveSessions,  \* per process: sessions that may consolidate
  dreamWriteSeen,       \* per process: a consolidating session changed a memory
  task,                 \* per process: what its thread does between two awaits
  grants,               \* history variable: when the active sessions got the lock
  recorded,             \* history variable: time of the last recorded completion
  stolen,               \* history variable: was a fresh lock removed while another
                        \* process that created it runs?
  lost,                 \* history variable: the state forgot the completion
  raced                 \* history variable: processes that had passed the gates,
                        \* but not tried the lock, when a completion was recorded

files == <<state, lock>>
hooks == <<checkedSessions, waiting, dreamActiveSessions, dreamWriteSeen>>
ghosts == <<grants, recorded, stolen, lost, raced>>
vars == <<now, files, running, hooks, task, ghosts>>

Times == 0 .. MaxTime

DreamState == [lastConsolidatedAt : Times, sessionsSince : 0 .. MaxCount,
               lastSessionId : Sessions \cup {Nothing}]

\* A lock file does not parse between its creation and its first write.
Lock == [pid : Processes, startedAt : Times, parses : BOOLEAN]

ASSUME NothingAssumption == Nothing \notin DreamState /\ Nothing \notin Lock

EmptyState == [lastConsolidatedAt |-> 0, sessionsSince |-> 0, lastSessionId |-> Nothing]

Labels == {"idle", "truncate", "fill", "lockRead", "lockUnlink", "lockCreate", "lockFill"}

Task == [at : Labels, session : Sessions \cup {Nothing}, copy : DreamState, dispose : BOOLEAN]

Idle == [at |-> "idle", session |-> Nothing, copy |-> EmptyState, dispose |-> FALSE]

\* The clock starts where the time gate is open for a state that was never
\* written.
Init ==
  /\ now = MinAge
  /\ state = Nothing /\ lock = Nothing
  /\ running = {}
  /\ checkedSessions = [p \in Processes |-> {}]
  /\ waiting = [p \in Processes |-> {}]
  /\ dreamActiveSessions = [p \in Processes |-> {}]
  /\ dreamWriteSeen = [p \in Processes |-> FALSE]
  /\ task = [p \in Processes |-> Idle]
  /\ grants = {} /\ recorded = 0 /\ stolen = FALSE /\ lost = FALSE
  /\ raced = {}

-----------------------------------------------------------------------------
(* Processes and the clock.                                                *)

At(p, label) == p \in running /\ task[p].at = label

Run(p, t) == task' = [task EXCEPT ![p] = t]

Goto(p, label) == Run(p, [task[p] EXCEPT !.at = label])

Add(f, p, s) == [f EXCEPT ![p] = @ \cup {s}]

Start(p) ==
  /\ p \notin running /\ Cardinality(running) < MaxRunning
  /\ running' = running \cup {p}
  /\ UNCHANGED <<now, files, hooks, task, ghosts>>

\* The process is gone with everything it had in memory.
End(p) ==
  /\ running' = running \ {p}
  /\ checkedSessions' = [checkedSessions EXCEPT ![p] = {}]
  /\ waiting' = [waiting EXCEPT ![p] = {}]
  /\ dreamActiveSessions' = [dreamActiveSessions EXCEPT ![p] = {}]
  /\ dreamWriteSeen' = [dreamWriteSeen EXCEPT ![p] = FALSE]
  /\ Run(p, Idle)
  /\ grants' = {g \in grants : g.pid # p}

Crash(p) ==
  /\ Crashes /\ p \in running
  /\ End(p)
  /\ lost' = (lost \/ task[p].at = "fill")
  /\ UNCHANGED <<now, files, recorded, stolen, raced>>

Tick ==
  /\ now < MaxTime
  /\ now' = now + 1
  /\ UNCHANGED <<files, running, hooks, task, ghosts>>

-----------------------------------------------------------------------------
(* dream-state.json                                                        *)

readState == IF state = Nothing THEN EmptyState ELSE state

\* incrementSessionCount counts s unless it was the last session counted.
Increment(st, s) ==
  [st EXCEPT !.sessionsSince = IF @ < MaxCount THEN @ + 1 ELSE @, !.lastSessionId = s]

\* chat.message of a session that is new to this process: count it, then
\* await countMemories.
ChatMessage(p, s) ==
  /\ At(p, "idle") /\ s \notin checkedSessions[p]
  /\ checkedSessions' = Add(checkedSessions, p, s)
  /\ IF readState.lastSessionId # s
     THEN /\ Run(p, [at |-> "truncate", session |-> s, copy |-> Increment(readState, s),
                     dispose |-> FALSE])
          /\ UNCHANGED waiting
     ELSE waiting' = Add(waiting, p, s) /\ UNCHANGED task
  /\ UNCHANGED <<now, files, running, dreamActiveSessions, dreamWriteSeen, ghosts>>

\* writeState opens the file, which empties it ...
Truncate(p) ==
  /\ At(p, "truncate")
  /\ state' = Nothing
  /\ Goto(p, "fill")
  /\ UNCHANGED <<now, lock, running, hooks, ghosts>>

\* ... and writes the text; over a longer text that another process has
\* written since, the two do not parse.
Written(p) == {task[p].copy} \cup IF state = Nothing THEN {} ELSE {Nothing}

FillCount(p) ==
  /\ At(p, "fill") /\ ~task[p].dispose
  /\ state' \in Written(p)
  /\ Run(p, Idle)
  /\ waiting' = Add(waiting, p, task[p].session)
  /\ lost' = (lost \/ state' = Nothing \/ task[p].copy.lastConsolidatedAt # recorded)
  /\ UNCHANGED <<now, lock, running, checkedSessions, dreamActiveSessions, dreamWriteSeen, grants, recorded, stolen, raced>>

FillCompletion(p) ==
  /\ At(p, "fill") /\ task[p].dispose
  /\ state' \in Written(p)
  /\ End(p)
  /\ recorded' = task[p].copy.lastConsolidatedAt
  /\ lost' = (state' = Nothing)
  /\ raced' = raced \cup {q \in running : task[q].at \in {"lockRead", "lockUnlink", "lockCreate"}}
  /\ UNCHANGED <<now, lock, stolen>>

\* writeState throws before it empties the file: the hook ends without
\* counting, or the process without recording the completion.
WriteFails(p) ==
  /\ At(p, "truncate")
  /\ IF task[p].dispose THEN End(p) ELSE Run(p, Idle) /\ UNCHANGED <<running, hooks, grants>>
  /\ UNCHANGED <<now, files, recorded, stolen, lost, raced>>

\* It throws after: the file stays empty or half written, unless another
\* process has written it since.
FillFails(p) ==
  /\ At(p, "fill")
  /\ state' \in {state, Nothing}
  /\ lost' = (lost \/ state' = Nothing)
  /\ IF task[p].dispose THEN End(p) ELSE Run(p, Idle) /\ UNCHANGED <<running, hooks, grants>>
  /\ UNCHANGED <<now, lock, recorded, stolen, raced>>

\* Faulty variant: the time of the last consolidation is not compared.
checkSessionGate == readState.sessionsSince >= MinSessions

checkCheapGates ==
  /\ now - readState.lastConsolidatedAt >= MinAge
  /\ readState.sessionsSince >= MinSessions

\* countMemories answers and the gates are checked; too few memories, or an
\* error, end the hook.
CheckGates(p, s) ==
  /\ At(p, "idle") /\ s \in waiting[p]
  /\ waiting' = [waiting EXCEPT ![p] = @ \ {s}]
  /\ \/ checkCheapGates /\ Run(p, [Idle EXCEPT !.at = "lockRead", !.session = s])
     \/ UNCHANGED task
  /\ raced' = raced \ {p}
  /\ UNCHANGED <<now, files, running, checkedSessions, dreamActiveSessions, dreamWriteSeen, grants, recorded, stolen, lost>>

-----------------------------------------------------------------------------
(* dream.lock                                                              *)

LockAge == now - lock.startedAt

existing ==
  CASE lock = Nothing                            -> "none"
    [] lock # Nothing /\ ~lock.parses            -> "broken"
    [] lock # Nothing /\ lock.parses             -> IF LockAge < StaleAge THEN "fresh" ELSE "stale"

\* acquireDreamLock reads the lock: a fresh one refuses, a stale one is
\* unlinked; with none, or one that does not parse, it tries to create one.
LockRead(p) ==
  /\ At(p, "lockRead")
  /\ \/ existing = "fresh" /\ Run(p, Idle)
     \/ existing = "stale" /\ Goto(p, "lockUnlink")
     \/ existing \in {"none", "broken"} /\ Goto(p, "lockCreate")
  /\ UNCHANGED <<now, files, running, hooks, ghosts>>

\* unlinkSync removes whatever lock is there now.
Unlink(p) ==
  /\ lock' = Nothing
  /\ stolen' = (stolen \/ (lock # Nothing /\ lock.pid \in running \ {p} /\ LockAge < StaleAge))

LockUnlink(p) ==
  /\ At(p, "lockUnlink")
  /\ IF lock # Nothing
     THEN Unlink(p) /\ Goto(p, "lockCreate")
     ELSE Run(p, Idle) /\ UNCHANGED <<lock, stolen>>
  /\ UNCHANGED <<now, state, running, hooks, grants, recorded, lost, raced>>

TakeLock(p) ==
  /\ lock' = [pid |-> p, startedAt |-> now, parses |-> FALSE]
  /\ grants' = grants \cup {[pid |-> p, session |-> task[p].session, at |-> now]}
  /\ Goto(p, "lockFill")

\* Faulty variant: createLockFile overwrites an existing lock.
LockOverwrite(p) ==
  /\ At(p, "lockCreate")
  /\ TakeLock(p)
  /\ UNCHANGED <<now, state, running, hooks, recorded, stolen, lost, raced>>

\* createLockFile creates the file only if there is none (flag wx) ...
LockCreate(p) ==
  /\ At(p, "lockCreate")
  /\ IF lock = Nothing THEN TakeLock(p) ELSE Run(p, Idle) /\ UNCHANGED <<lock, grants>>
  /\ UNCHANGED <<now, state, running, hooks, recorded, stolen, lost, raced>>

\* ... and writes it, if it is still there; the session may consolidate.
LockFill(p) ==
  /\ At(p, "lockFill")
  /\ lock' = IF lock # Nothing /\ lock.pid = p THEN [lock EXCEPT !.parses = TRUE] ELSE lock
  /\ dreamActiveSessions' = Add(dreamActiveSessions, p, task[p].session)
  /\ Run(p, Idle)
  /\ UNCHANGED <<now, state, running, checkedSessions, waiting, dreamWriteSeen, ghosts>>

\* The write fails: the session may not consolidate, but the file stays.
LockFillFails(p) ==
  /\ At(p, "lockFill")
  /\ Run(p, Idle)
  /\ grants' = {g \in grants : g.pid # p \/ g.session # task[p].session}
  /\ UNCHANGED <<now, files, running, hooks, recorded, stolen, lost, raced>>

-----------------------------------------------------------------------------
(* The other hooks.                                                        *)

\* Faulty variant: the write of any session counts.
AnyWriteSeen(p, s) ==
  /\ At(p, "idle") /\ s \in checkedSessions[p]
  /\ dreamWriteSeen' = [dreamWriteSeen EXCEPT ![p] = TRUE]
  /\ UNCHANGED <<now, files, running, checkedSessions, waiting, dreamActiveSessions, task, ghosts>>

\* tool.execute.after of a tool that changes a memory.
WriteSeen(p, s) ==
  /\ At(p, "idle") /\ s \in dreamActiveSessions[p]
  /\ dreamWriteSeen' = [dreamWriteSeen EXCEPT ![p] = TRUE]
  /\ UNCHANGED <<now, files, running, checkedSessions, waiting, dreamActiveSessions, task, ghosts>>

\* Faulty variant: the completion holds the time of the next consolidation.
DisposeNextTime(p) ==
  /\ At(p, "idle") /\ dreamWriteSeen[p]
  /\ Run(p, [Idle EXCEPT !.at = "truncate", !.dispose = TRUE,
                         !.copy = [EmptyState EXCEPT !.lastConsolidatedAt = now + MinAge]])
  /\ UNCHANGED <<now, files, running, hooks, ghosts>>

\* dispose records the completion, or removes the lock file.
DisposeComplete(p) ==
  /\ At(p, "idle") /\ dreamWriteSeen[p]
  /\ Run(p, [Idle EXCEPT !.at = "truncate", !.dispose = TRUE,
                         !.copy = [EmptyState EXCEPT !.lastConsolidatedAt = now]])
  /\ UNCHANGED <<now, files, running, hooks, ghosts>>

DisposeRelease(p) ==
  /\ At(p, "idle") /\ ~dreamWriteSeen[p]
  /\ Unlink(p)
  /\ End(p)
  /\ UNCHANGED <<now, state, recorded, lost, raced>>

-----------------------------------------------------------------------------
Hook(p) ==
  \/ \E s \in Sessions : ChatMessage(p, s) \/ CheckGates(p, s) \/ WriteSeen(p, s)
  \/ DisposeComplete(p) \/ DisposeRelease(p)

FileStep(p) ==
  \/ Truncate(p) \/ FillCount(p) \/ FillCompletion(p) \/ WriteFails(p) \/ FillFails(p)
  \/ LockRead(p) \/ LockUnlink(p) \/ LockCreate(p) \/ LockFill(p) \/ LockFillFails(p)

Next ==
  \/ Tick
  \/ \E p \in Processes : Start(p) \/ Crash(p) \/ Hook(p) \/ FileStep(p)

Spec == Init /\ [][Next]_vars

-----------------------------------------------------------------------------
(* Properties                                                              *)

\* Every variable has its type.
TypeOK ==
  /\ now \in Times
  /\ state \in DreamState \cup {Nothing}
  /\ lock \in Lock \cup {Nothing}
  /\ running \subseteq Processes
  /\ {checkedSessions, waiting, dreamActiveSessions}
       \subseteq [Processes -> SUBSET Sessions]
  /\ dreamWriteSeen \in [Processes -> BOOLEAN]
  /\ task \in [Processes -> Task]

\* Two sessions that may consolidate got the lock StaleAge apart, unless a
\* process removed the fresh lock of another that still runs: dispose does so
\* without having acquired it, and two processes can find the same stale lock.
GrantsAreApart ==
  \A g, h \in grants :
    (g # h /\ ~stolen) => (g.at - h.at >= StaleAge \/ h.at - g.at >= StaleAge)

\* No session gets the lock within MinAge of the last recorded completion,
\* also after crashes: unless its process had passed the gates before that
\* completion was recorded, or a write lost the completion.
ConsolidationIsRare ==
  [][\A g \in grants' \ grants : g.pid \in raced \/ lost \/ now - recorded >= MinAge]_vars

\* A completion is recorded only by a process that got the lock, whatever
\* sessions changed memories in the meantime.
CompletionIsEarned ==
  [][recorded' # recorded => \E g \in grants : g.pid \in running \ running']_vars

\* Two sessions never consolidate at once (README.md of the plugin: "a
\* filesystem lock so two concurrent sessions can't consolidate at once").
OneConsolidation ==
  \A p, q \in Processes : \A s \in dreamActiveSessions[p], r \in dreamActiveSessions[q] :
    <<p, s>> = <<q, r>>
=============================================================================
