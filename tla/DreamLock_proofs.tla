-------------------------- MODULE DreamLock_proofs --------------------------
(* Proofs that the variables of DreamLock keep their types, that grants of *)
(* the lock are apart unless a fresh lock was removed, that a recorded     *)
(* completion keeps other sessions from the lock, and that only a process  *)
(* that had the lock records one.                                          *)
EXTENDS DreamLock, TLAPS

-----------------------------------------------------------------------------
(* Types.                                                                  *)

Grant == [pid : Processes, session : Sessions, at : Times]

LockLabels == {"lockRead", "lockUnlink", "lockCreate", "lockFill"}

\* What TypeOK needs to be inductive: the history variables, and the session
\* of a hook that is under way.
TaskOK(t) ==
  /\ t.at # "idle" /\ ~t.dispose => t.session \in Sessions
  /\ t.at \in LockLabels => ~t.dispose

TypeInv ==
  /\ TypeOK
  /\ \A p \in Processes : TaskOK(task[p]) /\ (p \notin running => task[p] = Idle)
  /\ grants \subseteq Grant /\ recorded \in Times
  /\ stolen \in BOOLEAN /\ lost \in BOOLEAN /\ raced \subseteq Processes

USE AgesAssumption, CountAssumption, NothingAssumption

LEMMA EmptyStateType == EmptyState \in DreamState
BY DEF EmptyState, DreamState, Times

LEMMA IdleType == Idle \in Task /\ TaskOK(Idle) /\ Idle.at = "idle" /\ ~Idle.dispose
BY EmptyStateType DEF Idle, Task, Labels, TaskOK, LockLabels

LEMMA ReadStateType ==
  ASSUME TypeInv
  PROVE  readState \in DreamState
BY EmptyStateType DEF readState, TypeInv, TypeOK

\* What TypeInv says of the hook of a process, and of the sets of one.
LEMMA TaskType ==
  ASSUME TypeInv, NEW p \in Processes
  PROVE  /\ task[p] \in Task /\ TaskOK(task[p])
         /\ task \in [Processes -> Task]
         /\ checkedSessions \in [Processes -> SUBSET Sessions]
         /\ waiting \in [Processes -> SUBSET Sessions]
         /\ dreamActiveSessions \in [Processes -> SUBSET Sessions]
BY DEF TypeInv, TypeOK

\* The thread of p goes on with task t.
LEMMA RunType ==
  ASSUME TypeInv, NEW p \in Processes, p \in running, NEW t \in Task, TaskOK(t), Run(p, t)
  PROVE  /\ task' \in [Processes -> Task] /\ task'[p] = t
         /\ \A q \in Processes : TaskOK(task'[q]) /\ (q # p => task'[q] = task[q])
         /\ \A q \in Processes \ running : task'[q] = Idle
BY DEF TypeInv, TypeOK, Run

LEMMA GotoType ==
  ASSUME TypeInv, NEW p \in Processes, At(p, "truncate") \/ At(p, "lockRead") \/ At(p, "lockUnlink") \/ At(p, "lockCreate"),
         NEW l \in Labels, Goto(p, l), l \in LockLabels => task[p].at \in LockLabels
  PROVE  /\ task' \in [Processes -> Task]
         /\ task'[p] = [task[p] EXCEPT !.at = l]
         /\ \A q \in Processes : TaskOK(task'[q]) /\ (q # p => task'[q] = task[q])
         /\ \A q \in Processes \ running : task'[q] = Idle
<1> DEFINE t == [task[p] EXCEPT !.at = l]
<1>1. task[p] \in Task /\ TaskOK(task[p])
  BY DEF TypeInv, TypeOK
<1>2. t \in Task /\ t.at = l /\ t.session = task[p].session /\ t.dispose = task[p].dispose
  BY <1>1 DEF Task
<1>3. TaskOK(t)
  BY <1>1, <1>2 DEF TaskOK, At, LockLabels
<1> QED
  BY <1>2, <1>3, RunType DEF Goto, At

LEMMA AddType ==
  ASSUME NEW f \in [Processes -> SUBSET Sessions], NEW p \in Processes, NEW s \in Sessions
  PROVE  /\ Add(f, p, s) \in [Processes -> SUBSET Sessions]
         /\ \A q \in Processes : Add(f, p, s)[q] = IF q = p THEN f[p] \cup {s} ELSE f[q]
BY DEF Add

\* The end of process p.
LEMMA EndType ==
  ASSUME TypeInv, NEW p \in Processes, End(p)
  PROVE  /\ running' \subseteq Processes
         /\ {checkedSessions', waiting', dreamActiveSessions'} \subseteq [Processes -> SUBSET Sessions]
         /\ dreamWriteSeen' \in [Processes -> BOOLEAN]
         /\ task' \in [Processes -> Task] /\ task'[p] = Idle
         /\ \A q \in Processes : TaskOK(task'[q]) /\ (q # p => task'[q] = task[q])
         /\ \A q \in Processes \ running' : task'[q] = Idle
         /\ grants' \subseteq Grant
<1>1. /\ running \subseteq Processes /\ grants \subseteq Grant
      /\ dreamWriteSeen \in [Processes -> BOOLEAN]
      /\ \A q \in Processes : TaskOK(task[q]) /\ (q \notin running => task[q] = Idle)
  BY DEF TypeInv, TypeOK
<1> QED
  BY <1>1, TaskType, IdleType DEF End, Run

LEMMA WrittenType ==
  ASSUME TypeInv, NEW p \in Processes
  PROVE  Written(p) \subseteq DreamState \cup {Nothing}
BY TaskType DEF Written, Task

LEMMA InitType == Init => TypeInv
<1> SUFFICES ASSUME Init
             PROVE  TypeInv
  OBVIOUS
<1>1. TypeOK
  BY IdleType DEF Init, TypeOK, Times
<1>2. grants \subseteq Grant /\ recorded \in Times /\ raced \subseteq Processes
  BY DEF Init, Times
<1>3. stolen \in BOOLEAN /\ lost \in BOOLEAN
  BY DEF Init
<1>4. \A p \in Processes : TaskOK(task[p]) /\ (p \notin running => task[p] = Idle)
  BY IdleType DEF Init
<1> QED
  BY <1>1, <1>2, <1>3, <1>4 DEF TypeInv

LEMMA ProcessType ==
  ASSUME TypeInv, Tick \/ \E p \in Processes : Start(p) \/ Crash(p)
  PROVE  TypeInv'
<1>1. CASE Tick
  BY <1>1 DEF Tick, TypeInv, TypeOK, Times, files, hooks, ghosts, Lock, TaskOK
<1>2. CASE \E p \in Processes : Start(p)
  BY <1>2 DEF Start, TypeInv, TypeOK, files, hooks, ghosts
<1>3. ASSUME NEW p \in Processes, Crash(p)
      PROVE  TypeInv'
  <2>1. lost' \in BOOLEAN /\ stolen' \in BOOLEAN
    BY <1>3 DEF Crash, TypeInv
  <2>2. TypeOK' /\ recorded' \in Times /\ raced' \subseteq Processes
    BY <1>3, EndType DEF Crash, TypeInv, TypeOK, files, Times, Lock
  <2> QED
    BY <1>3, <2>1, <2>2, EndType DEF Crash, TypeInv
<1> QED
  BY <1>1, <1>2, <1>3

LEMMA ChatMessageType ==
  ASSUME TypeInv, NEW p \in Processes, NEW s \in Sessions, ChatMessage(p, s)
  PROVE  TypeInv'
<1> DEFINE t == [at |-> "truncate", session |-> s, copy |-> Increment(readState, s), dispose |-> FALSE]
<1>1. Increment(readState, s) \in DreamState
  <2>1. readState \in DreamState
    BY ReadStateType
  <2>2. readState.sessionsSince \in 0 .. MaxCount /\ MaxCount \in Nat
    BY <2>1 DEF DreamState
  <2>3. (IF readState.sessionsSince < MaxCount THEN readState.sessionsSince + 1
         ELSE readState.sessionsSince) \in 0 .. MaxCount
    BY <2>2
  <2> QED
    BY <2>1, <2>3 DEF Increment, DreamState
<1>2. t \in Task /\ TaskOK(t)
  BY <1>1 DEF Task, Labels, TaskOK, LockLabels
<1>3. /\ task' \in [Processes -> Task]
      /\ \A q \in Processes : TaskOK(task'[q]) /\ (q \notin running => task'[q] = Idle)
  BY <1>2, RunType, TaskType DEF ChatMessage, At, TypeInv
<1>4. waiting' \in [Processes -> SUBSET Sessions]
  <2>1. waiting' = waiting \/ waiting' = Add(waiting, p, s)
    BY DEF ChatMessage
  <2>2. waiting \in [Processes -> SUBSET Sessions]
    BY TaskType
  <2>3. Add(waiting, p, s) \in [Processes -> SUBSET Sessions]
    BY <2>2, AddType
  <2> QED
    BY <2>1, <2>2, <2>3
<1>5. checkedSessions' \in [Processes -> SUBSET Sessions]
  BY AddType, TaskType DEF ChatMessage
<1> QED
  BY <1>3, <1>4, <1>5 DEF ChatMessage, TypeInv, TypeOK, files, ghosts

LEMMA CheckGatesType ==
  ASSUME TypeInv, NEW p \in Processes, NEW s \in Sessions, CheckGates(p, s)
  PROVE  TypeInv'
<1> DEFINE t == [Idle EXCEPT !.at = "lockRead", !.session = s]
<1>1. t \in Task /\ TaskOK(t)
  BY IdleType DEF Idle, Task, Labels, TaskOK, LockLabels
<1>2. /\ task' \in [Processes -> Task]
      /\ \A q \in Processes : TaskOK(task'[q]) /\ (q \notin running => task'[q] = Idle)
  BY <1>1, RunType, TaskType DEF CheckGates, At, TypeInv
<1>3. waiting' \in [Processes -> SUBSET Sessions] /\ raced' \subseteq Processes
  BY TaskType DEF CheckGates, TypeInv
<1> QED
  BY <1>2, <1>3 DEF CheckGates, TypeInv, TypeOK, files

LEMMA OtherHookType ==
  ASSUME TypeInv, NEW p \in Processes,
         (\E s \in Sessions : WriteSeen(p, s)) \/ DisposeComplete(p) \/ DisposeRelease(p)
  PROVE  TypeInv'
<1>1. CASE \E s \in Sessions : WriteSeen(p, s)
  BY <1>1 DEF WriteSeen, TypeInv, TypeOK, files, ghosts
<1>2. CASE DisposeComplete(p)
  <2> DEFINE c == [EmptyState EXCEPT !.lastConsolidatedAt = now]
             t == [Idle EXCEPT !.at = "truncate", !.dispose = TRUE, !.copy = c]
  <2>1. c \in DreamState
    BY EmptyStateType DEF TypeInv, TypeOK, EmptyState, DreamState
  <2>2. t \in Task /\ TaskOK(t)
    BY <2>1, IdleType DEF Idle, Task, Labels, TaskOK, LockLabels
  <2>3. /\ task' \in [Processes -> Task]
        /\ \A q \in Processes : TaskOK(task'[q]) /\ (q \notin running => task'[q] = Idle)
    BY <1>2, <2>2, RunType DEF DisposeComplete, At, TypeInv
  <2> QED
    BY <1>2, <2>3 DEF DisposeComplete, TypeInv, TypeOK, files, hooks, ghosts
<1>3. CASE DisposeRelease(p)
  <2>1. lock' = Nothing
    BY <1>3 DEF DisposeRelease, Unlink
  <2>2. stolen' \in BOOLEAN /\ lost' \in BOOLEAN
    BY <1>3 DEF DisposeRelease, Unlink, TypeInv
  <2>3. TypeOK' /\ recorded' \in Times /\ raced' \subseteq Processes
    BY <1>3, <2>1, EndType DEF DisposeRelease, TypeInv, TypeOK
  <2> QED
    BY <1>3, <2>2, <2>3, EndType DEF DisposeRelease, TypeInv
<1> QED
  BY <1>1, <1>2, <1>3

LEMMA StateStepType ==
  ASSUME TypeInv, NEW p \in Processes,
         Truncate(p) \/ FillCount(p) \/ FillCompletion(p) \/ WriteFails(p) \/ FillFails(p)
  PROVE  TypeInv'
<1>1. CASE Truncate(p)
  BY <1>1, GotoType DEF Truncate, TypeInv, TypeOK, hooks, ghosts, Labels, LockLabels
<1>2. CASE FillCount(p)
  <2>1. task[p].session \in Sessions /\ p \in running
    BY <1>2, TaskType DEF FillCount, At, TaskOK
  <2>2. /\ task' \in [Processes -> Task]
        /\ \A q \in Processes : TaskOK(task'[q]) /\ (q \notin running => task'[q] = Idle)
    BY <1>2, <2>1, IdleType, RunType DEF FillCount, TypeInv
  <2>3. waiting' \in [Processes -> SUBSET Sessions] /\ state' \in DreamState \cup {Nothing}
    BY <1>2, <2>1, AddType, TaskType, WrittenType DEF FillCount
  <2>4. lost' \in BOOLEAN
    BY <1>2 DEF FillCount, TypeInv
  <2> QED
    BY <1>2, <2>2, <2>3, <2>4 DEF FillCount, TypeInv, TypeOK
<1>3. CASE FillCompletion(p)
  <2>1. state' \in DreamState \cup {Nothing} /\ recorded' \in Times /\ raced' \subseteq Processes
    BY <1>3, TaskType, WrittenType DEF FillCompletion, TypeInv, TypeOK, Task, DreamState
  <2>2. lost' \in BOOLEAN
    BY <1>3 DEF FillCompletion
  <2>3. TypeOK'
    BY <1>3, <2>1, EndType DEF FillCompletion, TypeInv, TypeOK
  <2> QED
    BY <1>3, <2>1, <2>2, <2>3, EndType DEF FillCompletion, TypeInv
<1>4. CASE WriteFails(p)
  <2>1. CASE task[p].dispose
    <3>1. TypeOK'
      BY <1>4, <2>1, EndType DEF WriteFails, TypeInv, TypeOK, files
    <3> QED
      BY <1>4, <2>1, <3>1, EndType DEF WriteFails, TypeInv
  <2>2. CASE ~task[p].dispose
    <3>1. /\ task' \in [Processes -> Task]
          /\ \A q \in Processes : TaskOK(task'[q]) /\ (q \notin running => task'[q] = Idle)
      BY <1>4, <2>2, IdleType, RunType DEF WriteFails, At, TypeInv
    <3> QED
      BY <1>4, <2>2, <3>1 DEF WriteFails, TypeInv, TypeOK, files, hooks
  <2> QED
    BY <2>1, <2>2
<1>5. CASE FillFails(p)
  <2>1. state' \in DreamState \cup {Nothing} /\ lost' \in BOOLEAN
    BY <1>5 DEF FillFails, TypeInv, TypeOK
  <2>2. CASE task[p].dispose
    <3>1. TypeOK'
      BY <1>5, <2>1, <2>2, EndType DEF FillFails, TypeInv, TypeOK
    <3> QED
      BY <1>5, <2>1, <2>2, <3>1, EndType DEF FillFails, TypeInv
  <2>3. CASE ~task[p].dispose
    <3>1. /\ task' \in [Processes -> Task]
          /\ \A q \in Processes : TaskOK(task'[q]) /\ (q \notin running => task'[q] = Idle)
      BY <1>5, <2>3, IdleType, RunType DEF FillFails, At, TypeInv
    <3> QED
      BY <1>5, <2>1, <2>3, <3>1 DEF FillFails, TypeInv, TypeOK, hooks
  <2> QED
    BY <2>2, <2>3
<1> QED
  BY <1>1, <1>2, <1>3, <1>4, <1>5

LEMMA LockStepType ==
  ASSUME TypeInv, NEW p \in Processes,
         LockRead(p) \/ LockUnlink(p) \/ LockCreate(p) \/ LockFill(p) \/ LockFillFails(p)
  PROVE  TypeInv'
<1> DEFINE TasksType ==
             /\ task' \in [Processes -> Task]
             /\ \A q \in Processes : TaskOK(task'[q]) /\ (q \notin running => task'[q] = Idle)
<1>1. p \in running /\ task[p].at \in LockLabels /\ task[p].session \in Sessions
  BY TaskType DEF LockRead, LockUnlink, LockCreate, LockFill, LockFillFails, At, TaskOK, LockLabels
<1>2. ASSUME Run(p, Idle)
      PROVE  TasksType
  BY <1>1, <1>2, IdleType, RunType DEF TypeInv
<1>3. ASSUME NEW l \in {"lockUnlink", "lockCreate", "lockFill"}, Goto(p, l),
             task[p].at \in {"lockRead", "lockUnlink", "lockCreate"}
      PROVE  TasksType
  BY <1>1, <1>3, GotoType DEF TypeInv, At, Labels
<1>4. CASE LockRead(p)
  BY <1>2, <1>3, <1>4 DEF LockRead, At, TypeInv, TypeOK, files, hooks, ghosts
<1>5. CASE LockUnlink(p)
  <2>1. TasksType /\ lock' \in Lock \cup {Nothing}
    BY <1>2, <1>3, <1>5 DEF LockUnlink, Unlink, At, TypeInv, TypeOK
  <2>2. stolen' \in BOOLEAN
    BY <1>5 DEF LockUnlink, Unlink, TypeInv
  <2> QED
    BY <1>5, <2>1, <2>2 DEF LockUnlink, TypeInv, TypeOK, hooks
<1>6. CASE LockCreate(p)
  <2>1. TasksType
    BY <1>2, <1>3, <1>6 DEF LockCreate, TakeLock, At
  <2>2. [pid |-> p, startedAt |-> now, parses |-> FALSE] \in Lock
    BY DEF Lock, TypeInv, TypeOK
  <2>3. lock' \in Lock \cup {Nothing}
    BY <1>6, <2>2 DEF LockCreate, TakeLock, TypeInv, TypeOK
  <2>4. [pid |-> p, session |-> task[p].session, at |-> now] \in Grant
    BY <1>1 DEF Grant, TypeInv, TypeOK
  <2>5. grants' \subseteq Grant
    BY <1>6, <2>4 DEF LockCreate, TakeLock, TypeInv
  <2> QED
    BY <1>6, <2>1, <2>3, <2>5 DEF LockCreate, TypeInv, TypeOK, hooks
<1>7. CASE LockFill(p)
  <2>1. TasksType
    BY <1>2, <1>7 DEF LockFill
  <2>2. dreamActiveSessions' \in [Processes -> SUBSET Sessions] /\ lock' \in Lock \cup {Nothing}
    BY <1>1, <1>7, AddType, TaskType DEF LockFill, Lock, TypeInv, TypeOK
  <2> QED
    BY <1>7, <2>1, <2>2 DEF LockFill, TypeInv, TypeOK, ghosts
<1>8. CASE LockFillFails(p)
  BY <1>2, <1>8 DEF LockFillFails, TypeInv, TypeOK, files, hooks
<1> QED
  BY <1>4, <1>5, <1>6, <1>7, <1>8

LEMMA NextType ==
  ASSUME TypeInv, [Next]_vars
  PROVE  TypeInv'
<1>1. CASE UNCHANGED vars
  BY <1>1 DEF vars, files, hooks, ghosts, TypeInv, TypeOK
<1> QED
  BY <1>1, ProcessType, ChatMessageType, CheckGatesType, OtherHookType, StateStepType, LockStepType
     DEF Next, Hook, FileStep

\* Every variable keeps its type, also the history variables, whatever
\* processes are started, killed and interleaved (the hooks of index.ts).
THEOREM TypeCorrect == Spec => []TypeOK
<1>1. TypeInv => TypeOK
  BY DEF TypeInv
<1> QED
  BY <1>1, InitType, NextType, PTL DEF Spec

-----------------------------------------------------------------------------
(* Grants are apart.                                                       *)

\* A grant that is not StaleAge old is that of the lock file.
YoungGrantsHoldTheLock ==
  \A g \in grants :
    \/ now - g.at >= StaleAge
    \/ lock # Nothing /\ lock.pid = g.pid /\ lock.startedAt = g.at

\* A process is not about to unlink a fresh lock of its own.
OwnLockIsStale ==
  \A p \in Processes :
    (task[p].at = "lockUnlink" /\ lock # Nothing /\ lock.pid = p) => LockAge >= StaleAge

ApartInv ==
  /\ \A g \in grants : g.pid \in running
  /\ OwnLockIsStale
  /\ stolen \/ (YoungGrantsHoldTheLock /\ GrantsAreApart)

LEMMA AgesType ==
  ASSUME TypeInv
  PROVE  /\ now \in Nat
         /\ \A g \in grants : g.at \in Nat /\ g.pid \in Processes
         /\ lock # Nothing => lock \in Lock /\ lock.startedAt \in Nat
         /\ StaleAge \in Nat
BY DEF TypeInv, TypeOK, Times, Grant, Lock

LEMMA AgeIsNumber ==
  ASSUME TypeInv, lock # Nothing
  PROVE  LockAge < StaleAge \/ LockAge >= StaleAge
<1>1. now \in Nat /\ lock.startedAt \in Nat /\ StaleAge \in Nat
  BY AgesType
<1> QED
  BY <1>1 DEF LockAge

\* A step that does not create or remove the lock, nor moves the clock.
LEMMA ApartKeeps ==
  ASSUME TypeInv, ApartInv, now' = now, stolen' = stolen,
         \/ lock' = lock
         \/ lock # Nothing /\ lock' # Nothing /\ lock'.pid = lock.pid /\ lock'.startedAt = lock.startedAt,
         grants' \subseteq grants, \A g \in grants' : g.pid \in running',
         \A q \in Processes : task'[q].at = "lockUnlink" =>
           task[q].at = "lockUnlink" \/ lock = Nothing \/ LockAge >= StaleAge
  PROVE  ApartInv'
<1>1. OwnLockIsStale'
  BY DEF ApartInv, OwnLockIsStale, LockAge
<1>2. ASSUME ~stolen
      PROVE  YoungGrantsHoldTheLock' /\ GrantsAreApart'
  BY <1>2 DEF ApartInv, YoungGrantsHoldTheLock, GrantsAreApart
<1> QED
  BY <1>1, <1>2 DEF ApartInv

\* The lock file is removed; what else p does with it is in the hypotheses.
LEMMA UnlinkApart ==
  ASSUME TypeInv, ApartInv, NEW p \in Processes, Unlink(p), now' = now,
         grants' \subseteq grants, \A g \in grants' : g.pid \in running /\ g.pid \in running',
         \A g \in grants' : g.pid = p => OwnLockIsStale /\ task[p].at = "lockUnlink"
  PROVE  ApartInv'
<1>1. lock' = Nothing
  BY DEF Unlink
<1>2. OwnLockIsStale'
  BY <1>1 DEF OwnLockIsStale
<1>3. ASSUME ~stolen'
      PROVE  YoungGrantsHoldTheLock' /\ GrantsAreApart'
  <2>1. ~stolen /\ ~(lock # Nothing /\ lock.pid \in running \ {p} /\ LockAge < StaleAge)
    BY <1>3 DEF Unlink
  <2>2. ASSUME NEW g \in grants'
        PROVE  now - g.at >= StaleAge
    <3>1. CASE now - g.at >= StaleAge
      BY <3>1
    <3>2. CASE lock # Nothing /\ lock.pid = g.pid /\ lock.startedAt = g.at
      <4>1. CASE g.pid = p
        BY <3>2, <4>1 DEF OwnLockIsStale, LockAge
      <4>2. CASE g.pid # p
        <5>1. ~(LockAge < StaleAge)
          BY <2>1, <3>2, <4>2
        <5>2. LockAge >= StaleAge
          BY <3>2, <5>1, AgeIsNumber
        <5> QED
          BY <3>2, <5>2 DEF LockAge
      <4> QED
        BY <4>1, <4>2
    <3> QED
      BY <2>1, <3>1, <3>2 DEF ApartInv, YoungGrantsHoldTheLock
  <2> QED
    BY <2>1, <2>2 DEF ApartInv, YoungGrantsHoldTheLock, GrantsAreApart
<1> QED
  BY <1>2, <1>3 DEF ApartInv

LEMMA EndApart ==
  ASSUME TypeInv, ApartInv, NEW p \in Processes, End(p)
  PROVE  /\ grants' \subseteq grants
         /\ \A g \in grants' : g.pid # p /\ g.pid \in running /\ g.pid \in running'
         /\ \A q \in Processes : task'[q].at = "lockUnlink" => task[q].at = "lockUnlink"
<1>1. \A q \in Processes : task'[q] = Idle \/ task'[q] = task[q]
  BY EndType
<1> QED
  BY <1>1, IdleType DEF End, ApartInv

LEMMA CreateApart ==
  ASSUME TypeInv, ApartInv, NEW p \in Processes, LockCreate(p), lock = Nothing
  PROVE  ApartInv'
<1> DEFINE new == [pid |-> p, session |-> task[p].session, at |-> now]
<1>1. /\ lock' = [pid |-> p, startedAt |-> now, parses |-> FALSE] /\ grants' = grants \cup {new}
      /\ now' = now /\ stolen' = stolen /\ running' = running /\ p \in running
  BY DEF LockCreate, TakeLock, At
<1>2. \A q \in Processes : task'[q].at = "lockUnlink" => task[q].at = "lockUnlink" /\ q # p
  <2>1. task'[p] = [task[p] EXCEPT !.at = "lockFill"] /\ \A q \in Processes \ {p} : task'[q] = task[q]
    BY GotoType DEF LockCreate, TakeLock, Labels, LockLabels, At
  <2>2. task'[p].at = "lockFill"
    BY <2>1, TaskType DEF Task
  <2> QED
    BY <2>1, <2>2
<1>3. OwnLockIsStale'
  BY <1>1, <1>2 DEF OwnLockIsStale
<1>4. \A g \in grants' : g.pid \in running'
  BY <1>1 DEF ApartInv
<1>5. ASSUME ~stolen
      PROVE  YoungGrantsHoldTheLock' /\ GrantsAreApart'
  <2>1. \A g \in grants : now - g.at >= StaleAge
    BY <1>5 DEF ApartInv, YoungGrantsHoldTheLock
  <2>2. lock' # Nothing /\ lock'.pid = new.pid /\ lock'.startedAt = new.at
    <3>1. [pid |-> p, startedAt |-> now, parses |-> FALSE] \in Lock
      BY DEF Lock, TypeInv, TypeOK
    <3> QED
      BY <1>1, <3>1
  <2>3. YoungGrantsHoldTheLock'
    BY <1>1, <2>1, <2>2 DEF YoungGrantsHoldTheLock
  <2>4. new.at = now
    OBVIOUS
  <2>5. GrantsAreApart'
    BY <1>1, <1>5, <2>1, <2>4 DEF ApartInv, GrantsAreApart
  <2> QED
    BY <2>3, <2>5
<1> QED
  BY <1>1, <1>3, <1>4, <1>5 DEF ApartInv

LEMMA LockStepApart ==
  ASSUME TypeInv, ApartInv, NEW p \in Processes,
         LockRead(p) \/ LockUnlink(p) \/ LockCreate(p) \/ LockFill(p) \/ LockFillFails(p)
  PROVE  ApartInv'
<1>1. ASSUME Run(p, Idle) \/ \E l \in {"lockCreate"} : Goto(p, l) /\ (At(p, "lockRead") \/ At(p, "lockUnlink")),
             p \in running
      PROVE  \A q \in Processes : task'[q].at = "lockUnlink" => task[q].at = "lockUnlink" /\ q # p
  <2>1. CASE Run(p, Idle)
    BY <1>1, <2>1, IdleType, RunType
  <2>2. CASE Goto(p, "lockCreate") /\ (At(p, "lockRead") \/ At(p, "lockUnlink"))
    <3>1. task'[p] = [task[p] EXCEPT !.at = "lockCreate"] /\ \A q \in Processes \ {p} : task'[q] = task[q]
      BY <2>2, GotoType DEF Labels, LockLabels, At
    <3> QED
      BY <3>1, TaskType DEF Task
  <2> QED
    BY <1>1, <2>1, <2>2
<1>2. CASE LockRead(p)
  <2>1. CASE existing = "stale"
    <3>1. lock # Nothing /\ ~(LockAge < StaleAge)
      BY <2>1 DEF existing
    <3>2. LockAge >= StaleAge
      BY <3>1, AgeIsNumber
    <3> QED
      BY <1>2, <3>2, ApartKeeps DEF LockRead, ghosts, files, ApartInv
  <2>2. CASE existing # "stale"
    BY <1>1, <1>2, <2>2, ApartKeeps DEF LockRead, At, ghosts, files, ApartInv
  <2> QED
    BY <2>1, <2>2
<1>3. CASE LockUnlink(p)
  <2>1. CASE lock # Nothing
    BY <1>3, <2>1, UnlinkApart DEF LockUnlink, At, ApartInv
  <2>2. CASE lock = Nothing
    BY <1>1, <1>3, <2>2, ApartKeeps DEF LockUnlink, At, ApartInv
  <2> QED
    BY <2>1, <2>2
<1>4. CASE LockCreate(p)
  <2>1. CASE lock = Nothing
    BY <1>4, <2>1, CreateApart
  <2>2. CASE lock # Nothing
    BY <1>1, <1>4, <2>2, ApartKeeps DEF LockCreate, At, ApartInv
  <2> QED
    BY <2>1, <2>2
<1>5. CASE LockFill(p)
  <2>1. ASSUME lock # Nothing
        PROVE  [lock EXCEPT !.parses = TRUE] \in Lock
    BY <2>1, AgesType DEF Lock
  <2>2. \/ lock' = lock
        \/ lock # Nothing /\ lock' # Nothing /\ lock'.pid = lock.pid /\ lock'.startedAt = lock.startedAt
    BY <1>5, <2>1, AgesType DEF LockFill, Lock
  <2> QED
    BY <1>1, <1>5, <2>2, ApartKeeps DEF LockFill, At, ghosts, ApartInv
<1>6. CASE LockFillFails(p)
  BY <1>1, <1>6, ApartKeeps DEF LockFillFails, At, files, ApartInv
<1> QED
  BY <1>2, <1>3, <1>4, <1>5, <1>6

LEMMA StateStepApart ==
  ASSUME TypeInv, ApartInv, NEW p \in Processes,
         Truncate(p) \/ FillCount(p) \/ FillCompletion(p) \/ WriteFails(p) \/ FillFails(p)
  PROVE  ApartInv'
<1>1. CASE Truncate(p)
  <2>1. task'[p] = [task[p] EXCEPT !.at = "fill"] /\ \A q \in Processes \ {p} : task'[q] = task[q]
    BY <1>1, GotoType DEF Truncate, Labels, LockLabels
  <2>2. task'[p].at # "lockUnlink"
    BY <2>1, TaskType DEF Task
  <2> QED
    BY <1>1, <2>1, <2>2, ApartKeeps DEF Truncate, ghosts, ApartInv
<1>2. CASE FillCount(p)
  <2>1. task'[p] = Idle /\ \A q \in Processes \ {p} : task'[q] = task[q]
    BY <1>2, IdleType, RunType DEF FillCount, At
  <2> QED
    BY <1>2, <2>1, IdleType, ApartKeeps DEF FillCount, ApartInv
<1>3. CASE FillCompletion(p)
  BY <1>3, EndApart, ApartKeeps DEF FillCompletion
<1>4. CASE WriteFails(p)
  <2>1. CASE task[p].dispose
    BY <1>4, <2>1, EndApart, ApartKeeps DEF WriteFails, files
  <2>2. CASE ~task[p].dispose
    <3>1. task'[p] = Idle /\ \A q \in Processes \ {p} : task'[q] = task[q]
      BY <1>4, <2>2, IdleType, RunType DEF WriteFails, At
    <3> QED
      BY <1>4, <2>2, <3>1, IdleType, ApartKeeps DEF WriteFails, files, ApartInv
  <2> QED
    BY <2>1, <2>2
<1>5. CASE FillFails(p)
  <2>1. CASE task[p].dispose
    BY <1>5, <2>1, EndApart, ApartKeeps DEF FillFails
  <2>2. CASE ~task[p].dispose
    <3>1. task'[p] = Idle /\ \A q \in Processes \ {p} : task'[q] = task[q]
      BY <1>5, <2>2, IdleType, RunType DEF FillFails, At
    <3> QED
      BY <1>5, <2>2, <3>1, IdleType, ApartKeeps DEF FillFails, ApartInv
  <2> QED
    BY <2>1, <2>2
<1> QED
  BY <1>1, <1>2, <1>3, <1>4, <1>5

\* Where a hook that begins goes to.
LEMMA HookTask ==
  ASSUME TypeInv, NEW p \in Processes,
         (\E s \in Sessions : ChatMessage(p, s) \/ CheckGates(p, s) \/ WriteSeen(p, s)) \/ DisposeComplete(p)
  PROVE  /\ \A q \in Processes \ {p} : task'[q] = task[q]
         /\ task'[p] = task[p] \/ task'[p].at \in {"truncate", "lockRead"}
<1>1. task \in [Processes -> Task]
  BY TaskType
<1>2. CASE \E s \in Sessions : ChatMessage(p, s)
  BY <1>1, <1>2 DEF ChatMessage, Run
<1>3. CASE \E s \in Sessions : CheckGates(p, s)
  BY <1>1, <1>3, ZenonT(30) DEF CheckGates, Run, Idle
<1>4. CASE \E s \in Sessions : WriteSeen(p, s)
  BY <1>1, <1>4 DEF WriteSeen
<1>5. CASE DisposeComplete(p)
  BY <1>1, <1>5 DEF DisposeComplete, Run, Idle
<1> QED
  BY <1>2, <1>3, <1>4, <1>5

LEMMA HookApart ==
  ASSUME TypeInv, ApartInv, NEW p \in Processes, Hook(p)
  PROVE  ApartInv'
<1>1. CASE DisposeRelease(p)
  BY <1>1, EndApart, UnlinkApart DEF DisposeRelease
<1>2. CASE ~DisposeRelease(p)
  <2>1. /\ now' = now /\ stolen' = stolen /\ lock' = lock
        /\ grants' = grants /\ running' = running
    BY <1>2 DEF Hook, ChatMessage, CheckGates, WriteSeen, DisposeComplete, files, ghosts
  <2>2. \A q \in Processes : task'[q].at = "lockUnlink" => task[q].at = "lockUnlink"
    BY <1>2, HookTask DEF Hook
  <2> QED
    BY <2>1, <2>2, ApartKeeps DEF ApartInv
<1> QED
  BY <1>1, <1>2

LEMMA TickApart ==
  ASSUME TypeInv, ApartInv, Tick
  PROVE  ApartInv'
<1>1. /\ now' = now + 1 /\ now \in Nat /\ StaleAge \in Nat
      /\ lock' = lock /\ task' = task /\ grants' = grants /\ running' = running /\ stolen' = stolen
  BY AgesType DEF Tick, files, ghosts
<1>2. \A n \in Nat : now - n >= StaleAge => now' - n >= StaleAge
  BY <1>1
<1>3. OwnLockIsStale'
  BY <1>1, <1>2, AgesType DEF ApartInv, OwnLockIsStale, LockAge
<1>4. ASSUME ~stolen
      PROVE  YoungGrantsHoldTheLock' /\ GrantsAreApart'
  BY <1>1, <1>2, <1>4, AgesType DEF ApartInv, YoungGrantsHoldTheLock, GrantsAreApart
<1> QED
  BY <1>1, <1>3, <1>4 DEF ApartInv

LEMMA InitApart == Init => ApartInv
BY DEF Init, ApartInv, OwnLockIsStale, YoungGrantsHoldTheLock, GrantsAreApart

LEMMA NextApart ==
  ASSUME TypeInv, ApartInv, [Next]_vars
  PROVE  ApartInv'
<1>1. ASSUME NEW p \in Processes, Start(p)
      PROVE  ApartInv'
  BY <1>1, ApartKeeps DEF Start, files, ghosts, ApartInv
<1>2. ASSUME NEW p \in Processes, Crash(p)
      PROVE  ApartInv'
  BY <1>2, EndApart, ApartKeeps DEF Crash, files
<1>3. CASE UNCHANGED vars
  BY <1>3 DEF vars, files, ghosts, ApartInv, OwnLockIsStale, YoungGrantsHoldTheLock, GrantsAreApart, LockAge
<1> QED
  BY <1>1, <1>2, <1>3, TickApart, HookApart, StateStepApart, LockStepApart DEF Next, FileStep

\* Sessions that may consolidate got the lock StaleAge apart, unless a process
\* removed the fresh lock of another that runs (acquireDreamLock, dispose).
THEOREM GrantsStayApart == Spec => []GrantsAreApart
<1>1. Spec => [](TypeInv /\ ApartInv)
  BY InitType, NextType, InitApart, NextApart, PTL DEF Spec
<1>2. TypeInv /\ ApartInv => GrantsAreApart
  BY DEF ApartInv, GrantsAreApart
<1> QED
  BY <1>1, <1>2, PTL

-----------------------------------------------------------------------------
(* Consolidation is rare.                                                  *)

\* The state file has the completion that was recorded, and what was checked
\* of it for a process still holds.
Passed == {"lockRead", "lockUnlink", "lockCreate"}

RareInv ==
  /\ lost \/ state = Nothing \/ state.lastConsolidatedAt = recorded
  /\ \A p \in Processes :
       task[p].at \in Passed =>
         p \in raced \/ lost \/ now - recorded >= MinAge

\* A step that reads no state file and records nothing.
LEMMA RareKeeps ==
  ASSUME TypeInv, RareInv, now' = now, recorded' = recorded, lost => lost', raced' = raced,
         state' = state \/ state' = Nothing \/ lost',
         \A q \in Processes : task'[q].at \in Passed => task[q].at \in Passed
  PROVE  RareInv'
BY DEF RareInv

LEMMA RareAge ==
  ASSUME TypeInv
  PROVE  now \in Nat /\ recorded \in Nat /\ MinAge \in Nat
BY DEF TypeInv, TypeOK, Times

\* A process that ends its task has passed no gate; the others keep theirs.
LEMMA EndTask ==
  ASSUME TypeInv, NEW p \in Processes, End(p)
  PROVE  \A q \in Processes : task'[q].at \in Passed => task[q].at \in Passed /\ q # p
BY EndType, IdleType DEF Passed

LEMMA IdleTask ==
  ASSUME TypeInv, NEW p \in Processes, p \in running, Run(p, Idle)
  PROVE  \A q \in Processes : task'[q].at \in Passed => task[q].at \in Passed /\ q # p
BY RunType, IdleType DEF Passed

LEMMA CheckGatesRare ==
  ASSUME TypeInv, RareInv, NEW p \in Processes, NEW s \in Sessions, CheckGates(p, s)
  PROVE  RareInv'
<1>1. /\ state' = state /\ lost' = lost /\ recorded' = recorded /\ now' = now
      /\ \A q \in Processes \ {p} : q \in raced' <=> q \in raced
      /\ \A q \in Processes \ {p} : task'[q] = task[q]
  BY HookTask DEF CheckGates, files
<1>2. CASE UNCHANGED task
  <2>1. task[p].at = "idle" /\ task' = task
    BY <1>2 DEF CheckGates, At
  <2> QED
    BY <1>1, <2>1 DEF RareInv, Passed
<1>3. CASE checkCheapGates
  <2>1. state # Nothing
    BY <1>3 DEF checkCheapGates, readState, EmptyState
  <2>2. lost \/ now - recorded >= MinAge
    BY <1>3, <2>1 DEF checkCheapGates, readState, RareInv
  <2> QED
    BY <1>1, <2>2 DEF RareInv
<1> QED
  BY <1>2, <1>3 DEF CheckGates

LEMMA HookRare ==
  ASSUME TypeInv, RareInv, NEW p \in Processes, Hook(p)
  PROVE  RareInv'
<1>1. CASE DisposeRelease(p)
  BY <1>1, EndTask, RareKeeps DEF DisposeRelease
<1>2. CASE \E s \in Sessions : CheckGates(p, s)
  BY <1>2, CheckGatesRare
<1>3. ASSUME NEW s \in Sessions, ChatMessage(p, s)
      PROVE  RareInv'
  <2>1. task'[p] = task[p] \/ task'[p].at = "truncate"
    BY <1>3, TaskType DEF ChatMessage, Run
  <2>2. \A q \in Processes : task'[q].at \in Passed => task[q].at \in Passed
    BY <1>3, <2>1, HookTask DEF Passed
  <2> QED
    BY <1>3, <2>2, RareKeeps DEF ChatMessage, files, ghosts
<1>4. CASE \E s \in Sessions : WriteSeen(p, s)
  BY <1>4, RareKeeps DEF WriteSeen, files, ghosts
<1>5. CASE DisposeComplete(p)
  <2>1. task'[p].at = "truncate"
    BY <1>5, TaskType DEF DisposeComplete, Run, Idle
  <2>2. \A q \in Processes : task'[q].at \in Passed => task[q].at \in Passed
    BY <1>5, <2>1, HookTask DEF Passed
  <2> QED
    BY <1>5, <2>2, RareKeeps DEF DisposeComplete, files, ghosts
<1> QED
  BY <1>1, <1>2, <1>3, <1>4, <1>5 DEF Hook

LEMMA StateStepRare ==
  ASSUME TypeInv, RareInv, NEW p \in Processes,
         Truncate(p) \/ FillCount(p) \/ FillCompletion(p) \/ WriteFails(p) \/ FillFails(p)
  PROVE  RareInv'
<1>1. CASE Truncate(p)
  <2>1. task'[p] = [task[p] EXCEPT !.at = "fill"] /\ \A q \in Processes \ {p} : task'[q] = task[q]
    BY <1>1, GotoType DEF Truncate, Labels, LockLabels
  <2>2. task'[p].at \notin Passed
    BY <2>1, TaskType DEF Task, Passed
  <2> QED
    BY <1>1, <2>1, <2>2, RareKeeps DEF Truncate, ghosts
<1>2. CASE FillCount(p)
  <2>1. lost' \/ (~lost /\ state' # Nothing /\ task[p].copy.lastConsolidatedAt = recorded)
    BY <1>2 DEF FillCount
  <2>2. lost' \/ state'.lastConsolidatedAt = recorded
    BY <1>2, <2>1 DEF FillCount, Written
  <2>3. lost => lost'
    BY <1>2 DEF FillCount
  <2>4. \A q \in Processes : task'[q].at \in Passed => task[q].at \in Passed
    BY <1>2, IdleTask DEF FillCount, At
  <2> QED
    BY <1>2, <2>2, <2>3, <2>4 DEF FillCount, RareInv
<1>3. CASE FillCompletion(p)
  <2>1. lost' \/ state' = task[p].copy
    BY <1>3 DEF FillCompletion, Written
  <2>2. \A q \in Processes : task'[q].at \in Passed => q \in raced'
    <3> SUFFICES ASSUME NEW q \in Processes, task'[q].at \in Passed
                 PROVE  q \in raced'
      OBVIOUS
    <3>1. task[q].at \in Passed /\ q \in running
      BY <1>3, EndTask, IdleType DEF FillCompletion, TypeInv, Passed
    <3> QED
      BY <1>3, <3>1 DEF FillCompletion, Passed
  <2> QED
    BY <1>3, <2>1, <2>2 DEF FillCompletion, RareInv
<1>4. CASE WriteFails(p)
  <2>1. \A q \in Processes : task'[q].at \in Passed => task[q].at \in Passed
    BY <1>4, EndTask, IdleTask DEF WriteFails, At
  <2> QED
    BY <1>4, <2>1, RareKeeps DEF WriteFails, files
<1>5. CASE FillFails(p)
  <2>1. \A q \in Processes : task'[q].at \in Passed => task[q].at \in Passed
    BY <1>5, EndTask, IdleTask DEF FillFails, At
  <2> QED
    BY <1>5, <2>1, RareKeeps DEF FillFails
<1> QED
  BY <1>1, <1>2, <1>3, <1>4, <1>5

LEMMA LockStepRare ==
  ASSUME TypeInv, RareInv, NEW p \in Processes,
         LockRead(p) \/ LockUnlink(p) \/ LockCreate(p) \/ LockFill(p) \/ LockFillFails(p)
  PROVE  RareInv'
<1>1. /\ now' = now /\ recorded' = recorded /\ lost' = lost /\ raced' = raced /\ state' = state
      /\ p \in running
  BY DEF LockRead, LockUnlink, LockCreate, LockFill, LockFillFails, files, ghosts, At
<1>2. \/ Run(p, Idle)
      \/ task[p].at \in Passed /\ \E l \in {"lockUnlink", "lockCreate", "lockFill"} : Goto(p, l)
  BY DEF LockRead, LockUnlink, LockCreate, TakeLock, LockFill, LockFillFails, At, Passed
<1>3. \A q \in Processes : task'[q].at \in Passed => task[q].at \in Passed
  <2>1. CASE Run(p, Idle)
    BY <1>1, <2>1, IdleTask
  <2>2. CASE task[p].at \in Passed /\ \E l \in {"lockUnlink", "lockCreate", "lockFill"} : Goto(p, l)
    BY <2>2, TaskType DEF Goto, Run
  <2> QED
    BY <1>2, <2>1, <2>2
<1> QED
  BY <1>1, <1>3, RareKeeps

LEMMA InitRare == Init => RareInv
BY IdleType DEF Init, RareInv, Passed

LEMMA NextRare ==
  ASSUME TypeInv, RareInv, [Next]_vars
  PROVE  RareInv'
<1>1. CASE Tick
  <2>1. \A n \in Nat : now - n >= MinAge => now' - n >= MinAge
    BY <1>1, RareAge DEF Tick
  <2> QED
    BY <1>1, <2>1, RareAge DEF Tick, files, ghosts, RareInv
<1>2. ASSUME NEW p \in Processes, Start(p)
      PROVE  RareInv'
  BY <1>2, RareKeeps DEF Start, files, ghosts
<1>3. ASSUME NEW p \in Processes, Crash(p)
      PROVE  RareInv'
  BY <1>3, EndTask, RareKeeps DEF Crash, files
<1>4. CASE UNCHANGED vars
  BY <1>4, RareKeeps DEF vars, files, ghosts
<1> QED
  BY <1>1, <1>2, <1>3, <1>4, HookRare, StateStepRare, LockStepRare DEF Next, FileStep

\* Only createLockFile grants the lock.
LEMMA OnlyCreateGrants ==
  ASSUME TypeInv, [Next]_vars, NEW g \in grants' \ grants
  PROVE  \E p \in Processes : LockCreate(p) /\ g.pid = p
<1>1. CASE \E p \in Processes : LockCreate(p)
  BY <1>1 DEF LockCreate, TakeLock
<1>2. CASE ~\E p \in Processes : LockCreate(p)
  <2>1. \A p \in Processes :
           \/ grants' \subseteq grants
           \/ ~Crash(p) /\ ~FillCompletion(p) /\ ~WriteFails(p) /\ ~FillFails(p) /\ ~DisposeRelease(p)
    BY DEF Crash, FillCompletion, WriteFails, FillFails, DisposeRelease, End
  <2>2. grants' \subseteq grants
    BY <1>2, <2>1 DEF Next, Tick, Start, Hook, FileStep, ChatMessage, CheckGates, WriteSeen, DisposeComplete,
         Truncate, FillCount, LockRead, LockUnlink, LockFill, LockFillFails, vars, ghosts
  <2> QED
    BY <2>2
<1> QED
  BY <1>1, <1>2

\* No session gets the lock within MinAge of the last recorded completion,
\* unless its process had passed the gates before, or a write lost the
\* completion (checkCheapGates before acquireDreamLock).
THEOREM ConsolidationStaysRare == Spec => ConsolidationIsRare
<1> DEFINE Rare == \A g \in grants' \ grants : g.pid \in raced \/ lost \/ now - recorded >= MinAge
<1>1. ASSUME TypeInv, RareInv, [Next]_vars
      PROVE  Rare
  <2> SUFFICES ASSUME NEW g \in grants' \ grants
               PROVE  g.pid \in raced \/ lost \/ now - recorded >= MinAge
    OBVIOUS
  <2>1. PICK p \in Processes : LockCreate(p) /\ g.pid = p
    BY <1>1, OnlyCreateGrants
  <2>2. task[p].at \in Passed
    BY <2>1 DEF LockCreate, At, Passed
  <2> QED
    BY <1>1, <2>1, <2>2 DEF RareInv
<1>2. Spec => [](TypeInv /\ RareInv)
  BY InitType, NextType, InitRare, NextRare, PTL DEF Spec
<1> QED
  BY <1>1, <1>2, PTL DEF Spec, ConsolidationIsRare

-----------------------------------------------------------------------------
(* A completion is earned.                                                 *)

HasGrant(p, s) == \E g \in grants : g.pid = p /\ g.session = s

\* A session is at one place of its way to consolidation, and consolidates
\* only with a grant; what is recorded was written by such a session.
EarnedBy(p) ==
  /\ waiting[p] \cup dreamActiveSessions[p] \subseteq checkedSessions[p]
  /\ waiting[p] \cap dreamActiveSessions[p] = {}
  /\ task[p].at # "idle" /\ ~task[p].dispose =>
       task[p].session \in checkedSessions[p] \ (waiting[p] \cup dreamActiveSessions[p])
  /\ task[p].at = "lockFill" => HasGrant(p, task[p].session)
  /\ \A s \in dreamActiveSessions[p] : HasGrant(p, s)
  /\ dreamWriteSeen[p] => dreamActiveSessions[p] # {}
  /\ task[p].dispose => dreamWriteSeen[p]

EarnedInv == \A p \in Processes : EarnedBy(p)

\* Process q keeps what it has.
EarnedKept(q) ==
  /\ task'[q] = task[q]
  /\ checkedSessions'[q] = checkedSessions[q] /\ waiting'[q] = waiting[q]
  /\ dreamActiveSessions'[q] = dreamActiveSessions[q] /\ dreamWriteSeen'[q] = dreamWriteSeen[q]
  /\ \A g \in grants : g.pid = q => g \in grants'

LEMMA EarnedKeeps ==
  ASSUME EarnedInv, NEW q \in Processes, EarnedKept(q)
  PROVE  EarnedBy(q)'
BY DEF EarnedInv, EarnedBy, EarnedKept, HasGrant

\* A process that ended has nothing left.
LEMMA EndEarned ==
  ASSUME TypeInv, EarnedInv, NEW p \in Processes, End(p)
  PROVE  EarnedInv'
<1>1. EarnedBy(p)'
  <2>1. task'[p] = Idle
    BY EndType
  <2>2. /\ checkedSessions'[p] = {} /\ waiting'[p] = {} /\ dreamActiveSessions'[p] = {}
        /\ dreamWriteSeen'[p] = FALSE
    BY TaskType DEF End, TypeInv, TypeOK
  <2> QED
    BY <2>1, <2>2, IdleType DEF EarnedBy
<1>2. ASSUME NEW q \in Processes \ {p}
      PROVE  EarnedBy(q)'
  <2>1. EarnedKept(q)
    BY TaskType, EndType DEF End, EarnedKept, TypeInv, TypeOK
  <2> QED
    BY <2>1, EarnedKeeps
<1> QED
  BY <1>1, <1>2 DEF EarnedInv

\* The hook of p ends, or goes on with the same session.
LEMMA TaskEarned ==
  ASSUME TypeInv, EarnedInv, NEW p \in Processes, UNCHANGED <<hooks, grants>>,
         \A q \in Processes \ {p} : task'[q] = task[q],
         task'[p].dispose => task[p].dispose,
         \/ task'[p].at = "idle"
         \/ /\ task[p].at # "idle" /\ task'[p].session = task[p].session
            /\ task[p].dispose => task'[p].dispose,
         task'[p].at = "lockFill" => HasGrant(p, task'[p].session)
  PROVE  EarnedInv'
<1>1. EarnedBy(p)'
  BY DEF hooks, EarnedInv, EarnedBy, HasGrant
<1>2. ASSUME NEW q \in Processes \ {p}
      PROVE  EarnedBy(q)'
  BY EarnedKeeps DEF EarnedKept, hooks
<1> QED
  BY <1>1, <1>2 DEF EarnedInv

LEMMA IdleEarned ==
  ASSUME TypeInv, EarnedInv, NEW p \in Processes, p \in running, UNCHANGED <<hooks, grants>>, Run(p, Idle)
  PROVE  EarnedInv'
BY TaskEarned, RunType, IdleType

LEMMA GotoEarned ==
  ASSUME TypeInv, EarnedInv, NEW p \in Processes, UNCHANGED <<hooks, grants>>,
         NEW l \in {"fill", "lockUnlink", "lockCreate"}, Goto(p, l), task[p].at # "idle"
  PROVE  EarnedInv'
<1>1. /\ \A q \in Processes \ {p} : task'[q] = task[q]
      /\ task'[p].at = l /\ task'[p].session = task[p].session /\ task'[p].dispose = task[p].dispose
  BY TaskType DEF Goto, Run, Task
<1> QED
  BY <1>1, TaskEarned

LEMMA ChatMessageEarned ==
  ASSUME TypeInv, EarnedInv, NEW p \in Processes, NEW s \in Sessions, ChatMessage(p, s)
  PROVE  EarnedInv'
<1> DEFINE t == [at |-> "truncate", session |-> s, copy |-> Increment(readState, s), dispose |-> FALSE]
<1>1. /\ checkedSessions'[p] = checkedSessions[p] \cup {s}
      /\ \A q \in Processes \ {p} : checkedSessions'[q] = checkedSessions[q]
  <2>1. checkedSessions' = Add(checkedSessions, p, s)
    BY DEF ChatMessage
  <2> QED
    BY <2>1, TaskType DEF Add
<1>2. \A q \in Processes \ {p} : waiting'[q] = waiting[q]
  <2>1. waiting' = waiting \/ waiting' = Add(waiting, p, s)
    BY DEF ChatMessage
  <2> QED
    BY <2>1, TaskType DEF Add
<1>3. s \notin checkedSessions[p] /\ task[p].at = "idle" /\ EarnedBy(p)
  BY DEF ChatMessage, At, EarnedInv
<1>4. \/ waiting'[p] = waiting[p] \cup {s} /\ task'[p] = task[p]
      \/ waiting'[p] = waiting[p] /\ task'[p] = t
  <2>1. \/ waiting' = Add(waiting, p, s) /\ task' = task
        \/ waiting' = waiting /\ task' = [task EXCEPT ![p] = t]
    BY DEF ChatMessage, Run
  <2>2. Add(waiting, p, s)[p] = waiting[p] \cup {s}
    BY TaskType DEF Add
  <2> QED
    BY <2>1, <2>2, TaskType
<1>5. /\ dreamActiveSessions' = dreamActiveSessions /\ dreamWriteSeen' = dreamWriteSeen
      /\ grants' = grants
  BY DEF ChatMessage, ghosts
<1>6. EarnedBy(p)'
  BY <1>1, <1>3, <1>4, <1>5 DEF EarnedBy, HasGrant
<1>7. ASSUME NEW q \in Processes \ {p}
      PROVE  EarnedBy(q)'
  BY <1>1, <1>2, <1>5, HookTask, EarnedKeeps DEF EarnedKept
<1> QED
  BY <1>6, <1>7 DEF EarnedInv

LEMMA CheckGatesEarned ==
  ASSUME TypeInv, EarnedInv, NEW p \in Processes, NEW s \in Sessions, CheckGates(p, s)
  PROVE  EarnedInv'
<1>1. /\ waiting'[p] = waiting[p] \ {s} /\ s \in waiting[p] /\ task[p].at = "idle" /\ EarnedBy(p)
      /\ \A q \in Processes \ {p} : waiting'[q] = waiting[q]
  BY TaskType DEF CheckGates, At, EarnedInv
<1>2. task'[p] = task[p] \/ (task'[p].at = "lockRead" /\ task'[p].session = s /\ task'[p].dispose = FALSE)
  BY TaskType DEF CheckGates, Run, Idle
<1>3. /\ dreamActiveSessions' = dreamActiveSessions /\ dreamWriteSeen' = dreamWriteSeen
      /\ checkedSessions' = checkedSessions /\ grants' = grants
  BY DEF CheckGates
<1>4. EarnedBy(p)'
  BY <1>1, <1>2, <1>3 DEF EarnedBy, HasGrant
<1>5. ASSUME NEW q \in Processes \ {p}
      PROVE  EarnedBy(q)'
  BY <1>1, <1>3, HookTask, EarnedKeeps DEF EarnedKept
<1> QED
  BY <1>4, <1>5 DEF EarnedInv

LEMMA OtherHookEarned ==
  ASSUME TypeInv, EarnedInv, NEW p \in Processes,
         (\E s \in Sessions : WriteSeen(p, s)) \/ DisposeComplete(p) \/ DisposeRelease(p)
  PROVE  EarnedInv'
<1>1. CASE \E s \in Sessions : WriteSeen(p, s)
  <2>1. /\ task' = task /\ checkedSessions' = checkedSessions /\ waiting' = waiting
        /\ dreamActiveSessions' = dreamActiveSessions /\ grants' = grants
        /\ dreamActiveSessions[p] # {} /\ task[p].at = "idle"
    BY <1>1 DEF WriteSeen, ghosts, At
  <2>2. dreamWriteSeen' = [dreamWriteSeen EXCEPT ![p] = TRUE] /\ dreamWriteSeen \in [Processes -> BOOLEAN]
    BY <1>1 DEF WriteSeen, TypeInv, TypeOK
  <2>3. EarnedBy(p)'
    BY <2>1, <2>2 DEF EarnedInv, EarnedBy, HasGrant
  <2>4. ASSUME NEW q \in Processes \ {p}
        PROVE  EarnedBy(q)'
    BY <2>1, <2>2, EarnedKeeps DEF EarnedKept
  <2> QED
    BY <2>3, <2>4 DEF EarnedInv
<1>2. CASE DisposeComplete(p)
  <2>1. UNCHANGED <<hooks, grants>> /\ dreamWriteSeen[p] /\ task'[p].dispose /\ task'[p].at = "truncate"
    BY <1>2, TaskType DEF DisposeComplete, Run, Idle, ghosts
  <2>2. EarnedBy(p)'
    BY <2>1 DEF EarnedInv, EarnedBy, HasGrant, hooks
  <2>3. ASSUME NEW q \in Processes \ {p}
        PROVE  EarnedBy(q)'
    BY <1>2, <2>1, HookTask, EarnedKeeps DEF EarnedKept, hooks
  <2> QED
    BY <2>2, <2>3 DEF EarnedInv
<1>3. CASE DisposeRelease(p)
  BY <1>3, EndEarned DEF DisposeRelease
<1> QED
  BY <1>1, <1>2, <1>3

LEMMA StateStepEarned ==
  ASSUME TypeInv, EarnedInv, NEW p \in Processes,
         Truncate(p) \/ FillCount(p) \/ FillCompletion(p) \/ WriteFails(p) \/ FillFails(p)
  PROVE  EarnedInv'
<1>1. CASE Truncate(p)
  BY <1>1, GotoEarned DEF Truncate, ghosts, At
<1>2. CASE FillCount(p)
  <2> DEFINE s == task[p].session
  <2>1. task[p].at = "fill" /\ ~task[p].dispose /\ p \in running /\ s \in Sessions /\ EarnedBy(p)
    BY <1>2, TaskType DEF FillCount, At, TaskOK, EarnedInv
  <2>2. /\ waiting'[p] = waiting[p] \cup {s}
        /\ \A q \in Processes \ {p} : waiting'[q] = waiting[q]
    <3>1. waiting' = Add(waiting, p, s)
      BY <1>2 DEF FillCount
    <3> QED
      BY <3>1, TaskType DEF Add
  <2>3. task'[p] = Idle /\ \A q \in Processes \ {p} : task'[q] = task[q]
    BY <1>2, <2>1, RunType, IdleType DEF FillCount
  <2>4. /\ dreamActiveSessions' = dreamActiveSessions /\ dreamWriteSeen' = dreamWriteSeen
        /\ checkedSessions' = checkedSessions /\ grants' = grants
    BY <1>2 DEF FillCount
  <2>5. EarnedBy(p)'
    BY <2>1, <2>2, <2>3, <2>4, IdleType DEF EarnedBy, HasGrant
  <2>6. ASSUME NEW q \in Processes \ {p}
        PROVE  EarnedBy(q)'
    BY <2>2, <2>3, <2>4, EarnedKeeps DEF EarnedKept
  <2> QED
    BY <2>5, <2>6 DEF EarnedInv
<1>3. CASE FillCompletion(p)
  BY <1>3, EndEarned DEF FillCompletion
<1>4. CASE WriteFails(p)
  BY <1>4, EndEarned, IdleEarned DEF WriteFails, At
<1>5. CASE FillFails(p)
  BY <1>5, EndEarned, IdleEarned DEF FillFails, At
<1> QED
  BY <1>1, <1>2, <1>3, <1>4, <1>5

LEMMA LockStepEarned ==
  ASSUME TypeInv, EarnedInv, NEW p \in Processes,
         LockRead(p) \/ LockUnlink(p) \/ LockCreate(p) \/ LockFill(p) \/ LockFillFails(p)
  PROVE  EarnedInv'
<1>0. p \in running /\ task[p].at # "idle" /\ ~task[p].dispose /\ task[p].session \in Sessions /\ EarnedBy(p)
  BY TaskType DEF LockRead, LockUnlink, LockCreate, LockFill, LockFillFails, At, TaskOK, LockLabels, EarnedInv
<1>1. CASE LockRead(p)
  BY <1>0, <1>1, IdleEarned, GotoEarned DEF LockRead, ghosts
<1>2. CASE LockUnlink(p)
  BY <1>0, <1>2, IdleEarned, GotoEarned DEF LockUnlink
<1>3. CASE LockCreate(p)
  <2>1. CASE lock = Nothing
    <3>1. /\ \A q \in Processes \ {p} : task'[q] = task[q]
          /\ task'[p].session = task[p].session /\ task'[p].dispose = task[p].dispose
          /\ task'[p].at = "lockFill"
      BY <1>3, <2>1, TaskType DEF LockCreate, TakeLock, Goto, Run, Task
    <3>2. grants \subseteq grants' /\ HasGrant(p, task[p].session)'
      <4>1. grants' = grants \cup {[pid |-> p, session |-> task[p].session, at |-> now]}
        BY <1>3, <2>1 DEF LockCreate, TakeLock
      <4> DEFINE new == [pid |-> p, session |-> task[p].session, at |-> now]
      <4>2. new \in grants' /\ new.pid = p /\ new.session = task'[p].session
        BY <3>1, <4>1
      <4>3. \E g \in grants' : g.pid = p /\ g.session = task'[p].session
        BY <4>2
      <4> QED
        BY <4>1, <4>3 DEF HasGrant
    <3>3. EarnedBy(p)'
      BY <1>0, <1>3, <3>1, <3>2 DEF LockCreate, hooks, EarnedBy, HasGrant
    <3>4. ASSUME NEW q \in Processes \ {p}
          PROVE  EarnedBy(q)'
      BY <1>3, <3>1, <3>2, EarnedKeeps DEF LockCreate, hooks, EarnedKept
    <3> QED
      BY <3>3, <3>4 DEF EarnedInv
  <2>2. CASE lock # Nothing
    BY <1>0, <1>3, <2>2, IdleEarned DEF LockCreate
  <2> QED
    BY <2>1, <2>2
<1>4. CASE LockFill(p)
  <2>1. task'[p] = Idle /\ \A q \in Processes \ {p} : task'[q] = task[q]
    BY <1>0, <1>4, RunType, IdleType DEF LockFill
  <2>2. /\ dreamActiveSessions'[p] = dreamActiveSessions[p] \cup {task[p].session}
        /\ \A q \in Processes \ {p} : dreamActiveSessions'[q] = dreamActiveSessions[q]
    <3>1. dreamActiveSessions' = Add(dreamActiveSessions, p, task[p].session)
      BY <1>4 DEF LockFill
    <3> QED
      BY <3>1, TaskType DEF Add
  <2>3. /\ waiting' = waiting /\ checkedSessions' = checkedSessions /\ dreamWriteSeen' = dreamWriteSeen
        /\ grants' = grants /\ task[p].at = "lockFill"
    BY <1>4 DEF LockFill, ghosts, At
  <2>4. EarnedBy(p)'
    BY <1>0, <2>1, <2>2, <2>3, IdleType DEF EarnedBy, HasGrant
  <2>5. ASSUME NEW q \in Processes \ {p}
        PROVE  EarnedBy(q)'
    BY <2>1, <2>2, <2>3, EarnedKeeps DEF EarnedKept
  <2> QED
    BY <2>4, <2>5 DEF EarnedInv
<1>5. CASE LockFillFails(p)
  <2>1. task'[p] = Idle /\ \A q \in Processes \ {p} : task'[q] = task[q]
    BY <1>0, <1>5, RunType, IdleType DEF LockFillFails
  <2>2. /\ waiting' = waiting /\ checkedSessions' = checkedSessions /\ dreamWriteSeen' = dreamWriteSeen
        /\ dreamActiveSessions' = dreamActiveSessions
        /\ grants' = {g \in grants : g.pid # p \/ g.session # task[p].session}
    BY <1>5 DEF LockFillFails, hooks
  <2>3. task[p].session \notin dreamActiveSessions[p]
    BY <1>0 DEF EarnedBy
  <2>4. EarnedBy(p)'
    BY <1>0, <2>1, <2>2, <2>3, IdleType DEF EarnedBy, HasGrant
  <2>5. ASSUME NEW q \in Processes \ {p}
        PROVE  EarnedBy(q)'
    BY <2>1, <2>2, EarnedKeeps DEF EarnedKept
  <2> QED
    BY <2>4, <2>5 DEF EarnedInv
<1> QED
  BY <1>1, <1>2, <1>3, <1>4, <1>5

LEMMA InitEarned == Init => EarnedInv
BY IdleType DEF Init, EarnedInv, EarnedBy

LEMMA NextEarned ==
  ASSUME TypeInv, EarnedInv, [Next]_vars
  PROVE  EarnedInv'
<1>1. CASE Tick \/ UNCHANGED vars \/ \E p \in Processes : Start(p)
  BY <1>1, EarnedKeeps DEF Tick, Start, vars, hooks, ghosts, EarnedKept, EarnedInv
<1>2. CASE \E p \in Processes : Crash(p)
  BY <1>2, EndEarned DEF Crash
<1> QED
  BY <1>1, <1>2, ChatMessageEarned, CheckGatesEarned, OtherHookEarned, StateStepEarned, LockStepEarned
     DEF Next, Hook, FileStep

\* A completion is recorded only by a process that got the lock, and it ends
\* with it, whatever sessions changed memories meanwhile (dispose after
\* tool.execute.after).
THEOREM CompletionStaysEarned == Spec => CompletionIsEarned
<1> DEFINE Earned == recorded' # recorded => \E g \in grants : g.pid \in running \ running'
<1>1. ASSUME TypeInv, EarnedInv, [Next]_vars
      PROVE  Earned
  <2> SUFFICES ASSUME recorded' # recorded
               PROVE  \E g \in grants : g.pid \in running \ running'
    OBVIOUS
  <2>1. PICK p \in Processes : FillCompletion(p)
    BY <1>1 DEF Next, Tick, Start, Crash, Hook, FileStep, ChatMessage, CheckGates, WriteSeen, DisposeComplete,
         DisposeRelease, Truncate, FillCount, WriteFails, FillFails, LockRead, LockUnlink, LockCreate, LockFill,
         LockFillFails, vars, ghosts
  <2>2. task[p].dispose /\ p \in running /\ running' = running \ {p} /\ EarnedBy(p)
    BY <1>1, <2>1 DEF FillCompletion, At, End, EarnedInv
  <2>3. PICK s \in dreamActiveSessions[p] : HasGrant(p, s)
    BY <2>2 DEF EarnedBy
  <2> QED
    BY <2>2, <2>3 DEF HasGrant
<1>2. Spec => [](TypeInv /\ EarnedInv)
  BY InitType, NextType, InitEarned, NextEarned, PTL DEF Spec
<1> QED
  BY <1>1, <1>2, PTL DEF Spec, CompletionIsEarned

=============================================================================
