-------------------------- MODULE Accounts_proofs --------------------------
(* Proofs that the variables of Accounts keep their types, that            *)
(* registration closes, that a restart finds what the store holds, and     *)
(* that what is saved has its owner.                                       *)
EXTENDS Accounts, SequenceTheorems, WellFoundedInduction, TLAPS

-----------------------------------------------------------------------------
(* Types.                                                                  *)

\* A least element of a set of numbers.
LEMMA LeastElement ==
  ASSUME NEW S, S \subseteq Nat, S # {}
  PROVE  \E n \in S : \A m \in S : n <= m
<1> DEFINE R == {p \in Nat \X Nat : p[1] < p[2]}
<1>1. IsWellFoundedOn(R, Nat)
  BY NatLessThanWellFounded DEF OpToRel
<1>2. PICK n \in S : \A m \in S : <<m, n>> \notin R
  BY <1>1, WFMin
<1>3. \A m \in S : ~(m < n)
  BY <1>2
<1> QED
  BY <1>3

\* What a change of one user keeps.
LEMMA MapUsers ==
  ASSUME NEW s \in Seq(User), NEW f,
         f = [n \in DOMAIN s |-> f[n]], \A n \in DOMAIN s : f[n] \in User
  PROVE  f \in Seq(User) /\ Len(f) = Len(s)
<1>1. f = [n \in 1 .. Len(s) |-> f[n]]
  BY LenProperties
<1>2. \A n \in 1 .. Len(s) : f[n] \in User
  BY LenProperties
<1> QED
  BY <1>1, <1>2, IsASeq, LenProperties

USE AccountsBoundsAssumption DEF Kinds

LEMMA IdsAreIds == 1 \in Ids /\ 0 \notin Ids /\ Ids \subseteq Nat
BY DEF Ids

LEMMA NoAccountsType == Absent \in Owned /\ NoAccounts \in Snapshot
BY EmptySeq DEF Absent, Owned, NoAccounts, Snapshot

LEMMA NoJobType == NoJob \in Job
BY NoAccountsType DEF NoJob, Job

\* What TypeOK needs to be inductive: a thread that is about to store
\* something has it.
JobFilled(l, j) ==
  /\ l = "insert" => j.email \in Emails /\ j.password \in Passwords
  /\ l = "change" /\ j.op = "patch" => j.email \in Emails
  /\ l = "change" /\ j.op = "password" => j.password \in Passwords
  /\ l \notin {"idle", "insert"} => j.user \in Ids
  /\ j.op = "refresh" => j.ref \in Ids /\ j.new \in Ids
  /\ j.op = "revoke" => j.ref \in Ids

ThreadsOK ==
  /\ pc \in [Threads -> Labels] /\ job \in [Threads -> Job]
  /\ \A t \in Threads : JobFilled(pc[t], job[t])

TypeInv == TypeOK /\ ThreadsOK

LEMMA FirstWithType ==
  ASSUME TypeOK, NEW e, WithEmail(e) # {}
  PROVE  FirstWith(e) \in User
<1>1. WithEmail(e) \subseteq Nat /\ WithEmail(e) \subseteq 1 .. Len(store.users)
  BY LenProperties DEF WithEmail, TypeOK, Snapshot
<1>2. (CHOOSE n \in WithEmail(e) : \A m \in WithEmail(e) : n <= m) \in WithEmail(e)
  BY <1>1, LeastElement
<1>3. store.users \in Seq(User)
  BY DEF TypeOK, Snapshot
<1> QED
  BY <1>1, <1>2, <1>3, ElementOfSeq DEF FirstWith

\* The parts of TypeOK that a thread's own step disturbs.
LEMMA GotoType ==
  ASSUME TypeInv, NEW t \in Threads, NEW l \in Labels, NEW j \in Job, JobFilled(l, j), Goto(t, l, j)
  PROVE  ThreadsOK'
<1>1. /\ pc' \in [Threads -> Labels] /\ job' \in [Threads -> Job]
      /\ pc'[t] = l /\ job'[t] = j
      /\ \A u \in Threads \ {t} : pc'[u] = pc[u] /\ job'[u] = job[u]
  BY DEF TypeInv, TypeOK, Goto
<1>2. ASSUME NEW u \in Threads PROVE JobFilled(pc'[u], job'[u])
  <2>1. CASE u = t
    BY <1>1, <2>1
  <2>2. CASE u # t
    BY <1>1, <2>2 DEF TypeInv, ThreadsOK
  <2> QED
    BY <2>1, <2>2
<1> QED
  BY <1>1, <1>2 DEF ThreadsOK

LEMMA GotoThreads ==
  ASSUME TypeInv, NEW t \in Threads, NEW l, NEW j, Goto(t, l, j)
  PROVE  /\ pc'[t] = l /\ job'[t] = j
         /\ \A u \in Threads \ {t} : pc'[u] = pc[u] /\ job'[u] = job[u]
BY DEF Goto, TypeInv, TypeOK

\* A thread that goes on with the same job, past the label where it stores it.
LEMMA StayType ==
  ASSUME TypeInv, NEW t \in Threads, ~At(t, "idle"), ~At(t, "insert"),
         NEW l \in {"users", "keys", "tokens", "write"}, Goto(t, l, job[t])
  PROVE  ThreadsOK'
<1>1. JobFilled(l, job[t])
  BY DEF TypeInv, ThreadsOK, JobFilled, At
<1>2. job[t] \in Job /\ l \in Labels
  BY DEF TypeInv, TypeOK, Labels
<1> QED
  BY <1>1, <1>2, GotoType

LEMMA AnswerType ==
  ASSUME TypeInv, NEW t \in Threads, Answer(t)
  PROVE  ThreadsOK'
<1>1. JobFilled("idle", NoJob)
  BY DEF JobFilled, NoJob
<1> QED
  BY <1>1, NoJobType, GotoType DEF Answer, Labels

LEMMA ChangedType ==
  ASSUME TypeOK, NEW t \in Threads, NEW k \in Kinds, NEW ids \in SUBSET Ids, Changed(t, k, ids)
  PROVE  dirty' \in [Threads -> [Kinds -> SUBSET Ids]] /\ risk' \in [Kinds -> SUBSET Ids]
BY DEF TypeOK, Changed

\* A store with one new key or token, or with one that is out of use.
LEMMA OwnedType ==
  ASSUME NEW s \in [Ids -> Owned], NEW i \in Ids, NEW u \in Ids \cup {0}, NEW a \in BOOLEAN
  PROVE  /\ [s EXCEPT ![i] = [owner |-> u, active |-> a]] \in [Ids -> Owned]
         /\ [s EXCEPT ![i].active = a] \in [Ids -> Owned]
BY DEF Owned

-----------------------------------------------------------------------------

LEMMA InitType == Init => TypeInv
<1> SUFFICES ASSUME Init PROVE TypeInv
  OBVIOUS
<1>1. file \in Snapshot /\ next \in [Kinds -> 1 .. MaxId + 1]
  <2>1. CASE file = NoAccounts /\ next = [k \in Kinds |-> 1]
    BY <2>1, NoAccountsType
  <2>2. CASE /\ \E e \in Emails, p \in Passwords :
                  file = Saved([id |-> 1, email |-> e, password |-> p, onboarded |-> FALSE])
             /\ next = [k \in Kinds |-> 2]
    <3>1. PICK e \in Emails, p \in Passwords :
            file = Saved([id |-> 1, email |-> e, password |-> p, onboarded |-> FALSE])
      BY <2>2
    <3> DEFINE u == [id |-> 1, email |-> e, password |-> p, onboarded |-> FALSE]
    <3>2. u \in User /\ <<u>> \in Seq(User)
      BY IdsAreIds DEF User
    <3>3. Absent \in Owned /\ [owner |-> 1, active |-> TRUE] \in Owned
      BY IdsAreIds DEF Absent, Owned
    <3>4. Saved(u) \in Snapshot
      BY <3>2, <3>3 DEF Saved, Snapshot
    <3> QED
      BY <2>2, <3>1, <3>4
  <2> QED
    BY <2>1, <2>2 DEF Init
<1>2. pc \in [Threads -> Labels] /\ job \in [Threads -> Job]
  BY NoJobType DEF Init, Labels
<1>3. dirty \in [Threads -> [Kinds -> SUBSET Ids]] /\ risk \in [Kinds -> SUBSET Ids]
  BY DEF Init, NoneOf
<1>4. requests \in 0 .. MaxRequests
  BY DEF Init
<1>5. TypeOK
  BY <1>1, <1>2, <1>3, <1>4 DEF Init, TypeOK
<1>6. \A t \in Threads : JobFilled(pc[t], job[t])
  BY DEF Init, JobFilled, NoJob
<1> QED
  BY <1>2, <1>5, <1>6 DEF TypeInv, ThreadsOK

LEMMA BeginType ==
  ASSUME TypeInv, NEW t \in Threads, NEW op, Begin(t, op)
  PROVE  requests' \in 0 .. MaxRequests
BY DEF Begin, TypeInv, TypeOK

LEMMA BeginAsType ==
  ASSUME TypeInv, NEW t \in Threads, NEW j \in Job,
         NEW op \in {"patch", "password", "onboard", "create", "revoke"}, BeginAs(t, op, j),
         j.user \in Ids,
         op = "patch" => j.email \in Emails,
         op = "password" => j.password \in Passwords,
         op = "revoke" => j.ref \in Ids
  PROVE  TypeInv'
<1> DEFINE k == [j EXCEPT !.op = op]
<1>1. k \in Job /\ JobFilled("change", k)
  BY DEF Job, JobFilled
<1>2. ThreadsOK'
  BY <1>1, GotoType DEF BeginAs, Labels
<1>3. requests' \in 0 .. MaxRequests
  BY BeginType DEF BeginAs
<1> QED
  BY <1>2, <1>3 DEF BeginAs, TypeInv, TypeOK, ThreadsOK, history

LEMMA RegisterType ==
  ASSUME TypeInv, NEW t \in Threads, Register(t)
  PROVE  TypeInv'
<1>1. ASSUME NEW e \in Emails, NEW p \in Passwords
      PROVE  LET j == [NoJob EXCEPT !.op = "register", !.email = e, !.password = p] IN
             j \in Job /\ JobFilled("insert", j)
  BY NoJobType DEF NoJob, Job, JobFilled
<1>2. ThreadsOK'
  BY <1>1, GotoType, AnswerType DEF Register, Labels
<1>3. requests' \in 0 .. MaxRequests
  BY BeginType DEF Register
<1>4. raced' \in BOOLEAN
  BY Zenon DEF Register
<1> QED
  BY <1>2, <1>3, <1>4 DEF Register, TypeInv, TypeOK, ThreadsOK

LEMMA InsertUserType ==
  ASSUME TypeInv, NEW t \in Threads, InsertUser(t)
  PROVE  TypeInv'
<1> DEFINE id == next["users"]
           u == [id |-> id, email |-> job[t].email, password |-> job[t].password, onboarded |-> FALSE]
           j == [NoJob EXCEPT !.op = "register", !.user = id]
<1>1. u \in User
  BY DEF InsertUser, TypeInv, ThreadsOK, JobFilled, At, User
<1>2. store' \in Snapshot
  BY <1>1, AppendProperties DEF InsertUser, TypeInv, TypeOK, Snapshot
<1>3. j \in Job /\ JobFilled("issue", j)
  BY NoJobType DEF InsertUser, NoJob, Job, JobFilled
<1>4. ThreadsOK'
  BY <1>3, GotoType DEF InsertUser, Labels
<1>5. dirty' \in [Threads -> [Kinds -> SUBSET Ids]] /\ risk' \in [Kinds -> SUBSET Ids]
  BY ChangedType DEF InsertUser, TypeInv
<1>6. next' \in [Kinds -> 1 .. MaxId + 1]
  BY DEF InsertUser, TypeInv, TypeOK, Ids
<1> QED
  BY <1>2, <1>4, <1>5, <1>6 DEF InsertUser, TypeInv, TypeOK, ThreadsOK, history

LEMMA LoginType ==
  ASSUME TypeInv, NEW t \in Threads, Login(t)
  PROVE  TypeInv'
<1>1. ASSUME NEW e \in Emails, WithEmail(e) # {}
      PROVE  LET j == [NoJob EXCEPT !.op = "login", !.user = FirstWith(e).id] IN
             j \in Job /\ JobFilled("issue", j)
  BY <1>1, NoJobType, FirstWithType DEF TypeInv, NoJob, Job, User, JobFilled
<1>2. ThreadsOK'
  BY <1>1, GotoType, AnswerType DEF Login, Labels
<1>3. requests' \in 0 .. MaxRequests
  BY BeginType DEF Login
<1> QED
  BY <1>2, <1>3 DEF Login, TypeInv, TypeOK, ThreadsOK, history

\* A new key or token of the user that the request is for.
LEMMA IssueType ==
  ASSUME TypeInv, NEW t \in Threads, NEW k \in {"keys", "tokens"}, next[k] \in Ids,
         ~At(t, "idle"), ~At(t, "insert"),
         store' = [store EXCEPT ![k][next[k]] = [owner |-> job[t].user, active |-> TRUE]],
         next' = [next EXCEPT ![k] = next[k] + 1],
         Changed(t, k, {next[k]}), Goto(t, "users", job[t]),
         UNCHANGED <<up, file, sessions, requests, history>>
  PROVE  TypeInv'
<1>1. store' \in Snapshot
  BY OwnedType DEF TypeInv, TypeOK, Snapshot, Job
<1>2. ThreadsOK'
  BY StayType
<1>3. dirty' \in [Threads -> [Kinds -> SUBSET Ids]] /\ risk' \in [Kinds -> SUBSET Ids]
  BY ChangedType DEF TypeInv
<1>4. next' \in [Kinds -> 1 .. MaxId + 1]
  BY DEF TypeInv, TypeOK, Ids
<1> QED
  BY <1>1, <1>2, <1>3, <1>4 DEF TypeInv, TypeOK, ThreadsOK, history

\* The step of Refresh that rotates the token old.
Rotate(t, old) ==
  LET new == next["tokens"]
      owner == store.tokens[old].owner IN
  /\ Presented(old) /\ next["tokens"] \in Ids
  /\ store' = [store EXCEPT !.tokens[old].active = FALSE,
                            !.tokens[new] = [owner |-> owner, active |-> TRUE]]
  /\ next' = [next EXCEPT !["tokens"] = new + 1]
  /\ Changed(t, "tokens", {old, new})
  /\ Goto(t, "find", [NoJob EXCEPT !.op = "refresh", !.user = owner, !.ref = old, !.new = new])

LEMMA RefreshCases ==
  ASSUME NEW t \in Threads, Refresh(t)
  PROVE  /\ Begin(t, "refresh")
         /\ UNCHANGED <<up, file, sessions, history>>
         /\ \/ Answer(t) /\ UNCHANGED <<store, next, dirty, risk>>
            \/ \E old \in Ids : Rotate(t, old)
BY DEF Refresh, Rotate

\* What the tokens are after a rotation.
LEMMA RotateTokens ==
  ASSUME TypeOK, NEW t \in Threads, NEW old \in Ids, Rotate(t, old)
  PROVE  /\ store' \in Snapshot
         /\ store'.users = store.users /\ store'.keys = store.keys
         /\ store'.tokens[next["tokens"]] = [owner |-> store.tokens[old].owner, active |-> TRUE]
         /\ old # next["tokens"] => /\ store'.tokens[old].owner = store.tokens[old].owner
                                    /\ store'.tokens[old].active = FALSE
         /\ \A i \in Ids \ {old, next["tokens"]} : store'.tokens[i] = store.tokens[i]
<1> DEFINE new == next["tokens"]
           owner == store.tokens[old].owner
           X == [store.tokens EXCEPT ![old].active = FALSE]
           Y == [X EXCEPT ![new] = [owner |-> owner, active |-> TRUE]]
<1>1. owner \in Ids \cup {0} /\ store.tokens[old] \in Owned
  BY DEF TypeOK, Snapshot, Owned
<1>2. X \in [Ids -> Owned] /\ X[old].owner = owner /\ X[old].active = FALSE
  <2>1. store.tokens \in [Ids -> Owned]
    BY DEF TypeOK, Snapshot
  <2>2. X[old].owner = owner /\ X[old].active = FALSE
    BY <1>1, <2>1 DEF Owned
  <2> QED
    BY <2>1, <2>2, OwnedType
<1>3. Y \in [Ids -> Owned]
  BY <1>1, <1>2, OwnedType DEF Rotate
<1>4. /\ Y[new] = [owner |-> owner, active |-> TRUE]
      /\ old # new => Y[old].owner = owner /\ Y[old].active = FALSE
      /\ \A i \in Ids \ {old, new} : Y[i] = store.tokens[i]
  BY <1>2 DEF Rotate, TypeOK, Snapshot
<1>5. store' = [store EXCEPT !.tokens = Y]
  BY DEF Rotate, TypeOK, Snapshot
<1> HIDE DEF Y
<1> QED
  BY <1>3, <1>4, <1>5 DEF TypeOK, Snapshot

LEMMA RefreshType ==
  ASSUME TypeInv, NEW t \in Threads, Refresh(t)
  PROVE  TypeInv'
<1>1. requests' \in 0 .. MaxRequests
  BY RefreshCases, BeginType
<1>2. CASE Answer(t) /\ UNCHANGED <<store, next, dirty, risk>>
  BY <1>1, <1>2, AnswerType, RefreshCases DEF TypeInv, TypeOK, ThreadsOK, history
<1>3. CASE \E old \in Ids : Rotate(t, old)
  <2>1. PICK old \in Ids : Rotate(t, old)
    BY <1>3
  <2> DEFINE new == next["tokens"]
             owner == store.tokens[old].owner
             j == [NoJob EXCEPT !.op = "refresh", !.user = owner, !.ref = old, !.new = new]
  <2>2. owner \in Ids
    BY <2>1 DEF Rotate, Presented, TypeInv, TypeOK, Snapshot, Owned
  <2>3. j \in Job /\ JobFilled("find", j)
    BY <2>1, <2>2, NoJobType DEF Rotate, Job, JobFilled
  <2>4. ThreadsOK'
    BY <2>1, <2>3, GotoType DEF Rotate, Labels
  <2>5. dirty' \in [Threads -> [Kinds -> SUBSET Ids]] /\ risk' \in [Kinds -> SUBSET Ids]
    BY <2>1, ChangedType DEF Rotate, TypeInv
  <2>6. next' \in [Kinds -> 1 .. MaxId + 1]
    BY <2>1 DEF Rotate, TypeInv, TypeOK, Ids
  <2>7. store' \in Snapshot
    BY <2>1, RotateTokens DEF TypeInv
  <2> QED
    BY <1>1, <2>4, <2>5, <2>6, <2>7, RefreshCases DEF TypeInv, TypeOK, ThreadsOK, history
<1> QED
  BY <1>2, <1>3, RefreshCases

LEMMA RefreshUserType ==
  ASSUME TypeInv, NEW t \in Threads, RefreshUser(t)
  PROVE  TypeInv'
<1>1. ThreadsOK'
  BY StayType, AnswerType DEF RefreshUser, At
<1>2. dirty' \in [Threads -> [Kinds -> SUBSET Ids]] /\ risk' \in [Kinds -> SUBSET Ids]
  BY DEF RefreshUser, TypeInv, TypeOK, NoneOf
<1> QED
  BY <1>1, <1>2 DEF RefreshUser, TypeInv, TypeOK, ThreadsOK, history

\* ChangeUser keeps the types when what it makes of a user is a user.
LEMMA ChangeUserType ==
  ASSUME TypeInv, NEW t \in Threads, NEW users, At(t, "change"),
         users = [n \in DOMAIN store.users |-> users[n]],
         \A n \in DOMAIN store.users : users[n] \in User,
         store' = [store EXCEPT !.users = users],
         Changed(t, "users", {job[t].user}),
         Goto(t, "users", job[t]),
         UNCHANGED <<up, file, next, sessions, requests, history>>
  PROVE  TypeInv'
<1>1. users \in Seq(User)
  BY MapUsers DEF TypeInv, TypeOK, Snapshot
<1>2. store' \in Snapshot
  BY <1>1 DEF TypeInv, TypeOK, Snapshot
<1>3. ThreadsOK'
  BY StayType DEF At
<1>4. job[t].user \in Ids
  BY DEF TypeInv, ThreadsOK, JobFilled, At
<1>5. dirty' \in [Threads -> [Kinds -> SUBSET Ids]] /\ risk' \in [Kinds -> SUBSET Ids]
  BY <1>4, ChangedType DEF TypeInv
<1> QED
  BY <1>2, <1>3, <1>5 DEF TypeInv, TypeOK, ThreadsOK, history

LEMMA AsType ==
  ASSUME NEW u \in Ids
  PROVE  /\ As(u) \in Job /\ As(u).user = u
         /\ \A e \in Emails : LET j == [As(u) EXCEPT !.email = e] IN
              j \in Job /\ j.user = u /\ j.email = e
         /\ \A p \in Passwords : LET j == [As(u) EXCEPT !.password = p] IN
              j \in Job /\ j.user = u /\ j.password = p
         /\ \A i \in Ids : LET j == [As(u) EXCEPT !.ref = i] IN
              j \in Job /\ j.user = u /\ j.ref = i
BY NoJobType DEF As, Job

LEMMA StoredUsers ==
  ASSUME TypeInv, NEW n \in DOMAIN store.users
  PROVE  store.users[n] \in User
<1>1. store.users \in Seq(User)
  BY DEF TypeInv, TypeOK, Snapshot
<1> QED
  BY <1>1, ElementOfSeq, LenProperties

LEMMA UserRequestType ==
  ASSUME TypeInv, NEW t \in Threads, UserRequest(t)
  PROVE  TypeInv'
<1>1. CASE MePatch(t)
  BY <1>1, AsType, BeginAsType DEF MePatch
<1>2. CASE ChangePassword(t)
  BY <1>2, AsType, BeginAsType DEF ChangePassword
<1>3. CASE OnboardingComplete(t)
  BY <1>3, AsType, BeginAsType DEF OnboardingComplete
<1>4. CASE CreateApiKey(t)
  BY <1>4, AsType, BeginAsType DEF CreateApiKey
<1>5. CASE RevokeApiKey(t)
  BY <1>5, AsType, BeginAsType DEF RevokeApiKey
<1>6. CASE UpdateProfile(t)
  <2> DEFINE Now(u) == [u EXCEPT !.email = job[t].email]
             users == [n \in DOMAIN store.users |->
                         IF store.users[n].id = job[t].user THEN Now(store.users[n]) ELSE store.users[n]]
  <2>0. job[t].email \in Emails /\ At(t, "change")
    BY <1>6 DEF UpdateProfile, ChangeUser, At, TypeInv, ThreadsOK, JobFilled
  <2>1. \A n \in DOMAIN store.users : users[n] \in User
    BY <2>0, StoredUsers DEF User
  <2> QED
    BY <1>6, <2>1, ChangeUserType DEF UpdateProfile, ChangeUser
<1>7. CASE UpdatePasswordHash(t)
  <2> DEFINE Now(u) == [u EXCEPT !.password = job[t].password]
             users == [n \in DOMAIN store.users |->
                         IF store.users[n].id = job[t].user THEN Now(store.users[n]) ELSE store.users[n]]
  <2>0. job[t].password \in Passwords /\ At(t, "change")
    BY <1>7 DEF UpdatePasswordHash, ChangeUser, At, TypeInv, ThreadsOK, JobFilled
  <2>1. \A n \in DOMAIN store.users : users[n] \in User
    BY <2>0, StoredUsers DEF User
  <2> QED
    BY <1>7, <2>1, ChangeUserType DEF UpdatePasswordHash, ChangeUser
<1>8. CASE MarkOnboardingComplete(t)
  <2> DEFINE Now(u) == [u EXCEPT !.onboarded = TRUE]
             users == [n \in DOMAIN store.users |->
                         IF store.users[n].id = job[t].user THEN Now(store.users[n]) ELSE store.users[n]]
  <2>1. \A n \in DOMAIN store.users : users[n] \in User
    BY StoredUsers DEF User
  <2> QED
    BY <1>8, <2>1, ChangeUserType DEF MarkOnboardingComplete, ChangeUser
<1>9. CASE InsertApiKey(t)
  BY <1>9, IssueType DEF InsertApiKey, At
<1>10. CASE MarkRevoked(t)
  <2>1. job[t].ref \in Ids
    BY <1>10 DEF MarkRevoked, TypeInv, ThreadsOK, JobFilled, At
  <2>2. store' \in Snapshot
    BY <1>10, <2>1, OwnedType DEF MarkRevoked, TypeInv, TypeOK, Snapshot
  <2>3. ThreadsOK'
    BY <1>10, StayType DEF MarkRevoked, At
  <2>4. dirty' \in [Threads -> [Kinds -> SUBSET Ids]] /\ risk' \in [Kinds -> SUBSET Ids]
    BY <1>10, <2>1, ChangedType DEF MarkRevoked, TypeInv
  <2> QED
    BY <1>10, <2>2, <2>3, <2>4 DEF MarkRevoked, TypeInv, TypeOK, ThreadsOK, history
<1> QED
  BY <1>1, <1>2, <1>3, <1>4, <1>5, <1>6, <1>7, <1>8, <1>9, <1>10 DEF UserRequest

LEMMA AnsweredType ==
  ASSUME TypeInv, NEW t \in Threads, At(t, "write"), Answered(t),
         file' \in Snapshot, risk' \in [Kinds -> SUBSET Ids]
  PROVE  TypeInv'
<1>1. ThreadsOK'
  BY AnswerType DEF Answered
<1>2. JobFilled("write", job[t])
  BY DEF TypeInv, ThreadsOK, At
<1>3. sessions' \subseteq Ids
  BY <1>2 DEF Answered, TypeInv, TypeOK, JobFilled
<1>4. chain' \subseteq Ids \X Ids /\ revoked' \subseteq Ids
  BY <1>2 DEF Answered, TypeInv, TypeOK, JobFilled
<1>5. dirty' \in [Threads -> [Kinds -> SUBSET Ids]]
  BY DEF Answered, TypeInv, TypeOK, NoneOf
<1> QED
  BY <1>1, <1>3, <1>4, <1>5 DEF Answered, TypeInv, TypeOK, ThreadsOK

LEMMA SaveType ==
  ASSUME TypeInv, NEW t \in Threads, Save(t)
  PROVE  TypeInv'
<1>1. CASE Copy(t)
  <2> DEFINE j == [job[t] EXCEPT !.copy[pc[t]] = store[pc[t]]]
  <2>1. pc[t] \in Kinds /\ store \in Snapshot /\ job[t] \in Job /\ job[t].copy \in Snapshot
    BY <1>1 DEF Copy, TypeInv, TypeOK, Job
  <2>2. [job[t].copy EXCEPT ![pc[t]] = store[pc[t]]] \in Snapshot
    BY <2>1 DEF Snapshot
  <2>3. j \in Job
    BY <2>1, <2>2 DEF Job
  <2>4. JobFilled(SaveOrder[pc[t]], j)
    BY <2>1, <2>3 DEF TypeInv, ThreadsOK, JobFilled, SaveOrder, Job
  <2>5. SaveOrder[pc[t]] \in Labels
    BY <2>1 DEF SaveOrder, Labels
  <2>6. ThreadsOK'
    BY <1>1, <2>3, <2>4, <2>5, GotoType DEF Copy
  <2> QED
    BY <1>1, <2>6 DEF Copy, TypeInv, TypeOK, ThreadsOK, history
<1>2. CASE Write(t)
  BY <1>2, AnsweredType DEF Write, TypeInv, TypeOK, Job
<1>3. CASE WriteFails(t)
  BY <1>3, AnsweredType DEF WriteFails, TypeInv, TypeOK
<1> QED
  BY <1>1, <1>2, <1>3 DEF Save

LEMMA IdleType ==
  ASSUME pc' = [t \in Threads |-> "idle"], job' = [t \in Threads |-> NoJob]
  PROVE  ThreadsOK'
BY NoJobType DEF ThreadsOK, JobFilled, NoJob, Labels

LEMMA NextType == TypeInv /\ [Next]_vars => TypeInv'
<1> SUFFICES ASSUME TypeInv, [Next]_vars PROVE TypeInv'
  OBVIOUS
<1>1. CASE Crash
  BY <1>1, IdleType, NoAccountsType DEF Crash, TypeInv, TypeOK, ThreadsOK, NoneOf, history
<1>2. CASE Start
  BY <1>2 DEF Start, TypeInv, TypeOK, ThreadsOK, history
<1>3. CASE \E u \in sessions : Expire(u)
  BY <1>3 DEF Expire, TypeInv, TypeOK, ThreadsOK, history
<1>4. ASSUME NEW t \in Threads, OpenRequest(t) PROVE TypeInv'
  <2>1. CASE IssueToken(t)
    BY <2>1, IssueType DEF IssueToken, At
  <2> QED
    BY <1>4, <2>1, RegisterType, InsertUserType, LoginType, RefreshType, RefreshUserType DEF OpenRequest
<1>5. CASE UNCHANGED vars
  BY <1>5 DEF vars, TypeInv, TypeOK, ThreadsOK, history
<1> QED
  BY <1>1, <1>2, <1>3, <1>4, <1>5, UserRequestType, SaveType DEF Next

\* Every variable keeps its type, for any threads, addresses and bounds.
THEOREM TypeCorrect == Spec => []TypeOK
<1>1. Spec => []TypeInv
  BY InitType, NextType, PTL DEF Spec
<1>2. TypeInv => TypeOK
  BY DEF TypeInv
<1> QED
  BY <1>1, <1>2, PTL

-----------------------------------------------------------------------------
(* Registration.  While no two registrations have overlapped, the one that *)
(* is about to insert an account is alone, and there is no account yet.    *)

SingleAccount ==
  /\ Len(store.users) <= 1 /\ Len(file.users) <= 1
  /\ \A t \in Threads : Len(job[t].copy.users) <= 1
  /\ \A t \in Threads : At(t, "insert") => store.users = <<>>
  /\ \A t, u \in Threads : At(t, "insert") /\ At(u, "insert") => t = u

RegistrationInv ==
  /\ raced \/ SingleAccount
  /\ \A t \in Threads : At(t, "insert") => job[t].op = "register"
  /\ up \/ \A t \in Threads : At(t, "idle")

\* A step of a thread that does not get ready to insert an account.
LEMMA RegistrationStep ==
  ASSUME TypeInv, RegistrationInv,
         NEW t \in Threads, NEW l, NEW j, Goto(t, l, j), l # "insert",
         up, up' = up, raced => raced',
         ~raced => /\ Len(store'.users) <= 1 /\ Len(file'.users) <= 1
                   /\ Len(j.copy.users) <= 1
                   /\ \A u \in Threads \ {t} : At(u, "insert") => store'.users = <<>>
  PROVE  RegistrationInv'
<1>1. /\ pc'[t] = l /\ job'[t] = j
      /\ \A u \in Threads \ {t} : pc'[u] = pc[u] /\ job'[u] = job[u]
  BY DEF Goto, TypeInv, TypeOK
<1>2. \A u \in Threads : pc'[u] = "insert" => u # t /\ pc[u] = "insert"
  BY <1>1
<1>3. raced' \/ SingleAccount'
  BY <1>1, <1>2 DEF RegistrationInv, SingleAccount, At
<1>4. \A u \in Threads : pc'[u] = "insert" => job'[u].op = "register"
  BY <1>1, <1>2 DEF RegistrationInv, At
<1> QED
  BY <1>3, <1>4 DEF RegistrationInv, At

\* What it asks of the steps that leave the accounts and the file alone.
LEMMA RegistrationKept ==
  ASSUME TypeInv, RegistrationInv,
         NEW t \in Threads, NEW l, NEW j, Goto(t, l, j), l # "insert",
         up, up' = up, raced => raced',
         store'.users = store.users, file' = file,
         j.copy.users = <<>> \/ j.copy = job[t].copy
  PROVE  RegistrationInv'
<1>1. Len(<<>>) = 0
  OBVIOUS
<1>2. ~raced => Len(j.copy.users) <= 1
  BY <1>1 DEF RegistrationInv, SingleAccount
<1> QED
  BY <1>2, RegistrationStep DEF RegistrationInv, SingleAccount

LEMMA BusyIsUp ==
  ASSUME RegistrationInv, NEW t \in Threads, ~At(t, "idle")
  PROVE  up
BY DEF RegistrationInv

LEMMA NoJobCopy == NoJob.copy = NoAccounts /\ NoJob.copy.users = <<>> /\ NoJob.op = "none"
BY DEF NoJob, NoAccounts

LEMMA RegistrationAnswer ==
  ASSUME TypeInv, RegistrationInv, NEW t \in Threads, Answer(t),
         up, up' = up, raced => raced', store'.users = store.users, file' = file
  PROVE  RegistrationInv'
BY NoJobCopy, RegistrationKept DEF Answer

LEMMA InitRegistration == Init => RegistrationInv
<1> SUFFICES ASSUME Init PROVE RegistrationInv
  OBVIOUS
<1>0. \A s : s = <<>> => Len(s) <= 1
  OBVIOUS
<1>1. Len(file.users) <= 1
  <2>1. file = NoAccounts \/ \E u : file = Saved(u)
    BY DEF Init
  <2>2. ASSUME NEW u PROVE Len(Saved(u).users) <= 1
    BY DEF Saved
  <2> QED
    BY <1>0, <2>1, <2>2, NoJobCopy
<1>2. \A t \in Threads : Len(job[t].copy.users) <= 1 /\ At(t, "idle")
  <2>1. ASSUME NEW t \in Threads PROVE job[t].copy.users = <<>> /\ pc[t] = "idle"
    BY NoJobCopy DEF Init
  <2>2. \A t \in Threads : Len(job[t].copy.users) <= 1
    BY <1>0, <2>1
  <2> QED
    BY <2>1, <2>2 DEF At
<1> QED
  BY <1>1, <1>2 DEF Init, RegistrationInv, SingleAccount, At

LEMMA RegisterKeeps ==
  ASSUME TypeInv, RegistrationInv, NEW t \in Threads, Register(t)
  PROVE  RegistrationInv'
<1>1. CASE registration_is_allowed
  <2>1. PICK e \in Emails, p \in Passwords :
          Goto(t, "insert", [NoJob EXCEPT !.op = "register", !.email = e, !.password = p])
    BY <1>1 DEF Register
  <2>2. /\ job'[t].op = "register" /\ job'[t].copy.users = <<>> /\ pc'[t] = "insert"
        /\ \A u \in Threads \ {t} : pc'[u] = pc[u] /\ job'[u] = job[u]
    BY <2>1, NoJobCopy, NoJobType DEF Goto, TypeInv, TypeOK, Job
  <2>3. raced' = (raced \/ \E u \in Threads : job[u].op = "register" /\ At(u, "insert"))
    BY DEF Register
  <2>4. raced' \/ (~raced /\ \A u \in Threads : ~At(u, "insert"))
    BY <2>3, Zenon DEF RegistrationInv
  <2>5. CASE ~raced /\ \A u \in Threads : ~At(u, "insert")
    <3>1. \A u \in Threads : pc'[u] = "insert" => u = t
      BY <2>2, <2>5 DEF At
    <3>2. \A u \in Threads : Len(job'[u].copy.users) <= 1
      BY <2>2, <2>5 DEF RegistrationInv, SingleAccount
    <3>3. SingleAccount'
      BY <1>1, <2>5, <3>1, <3>2
      DEF Register, registration_is_allowed, RegistrationInv, SingleAccount, At
    <3>4. \A u \in Threads : pc'[u] = "insert" => job'[u].op = "register"
      BY <2>2, <3>1
    <3> QED
      BY <3>3, <3>4 DEF Register, Begin, RegistrationInv, At
  <2>6. CASE raced'
    <3>1. \A u \in Threads : pc'[u] = "insert" => job'[u].op = "register"
      BY <2>2 DEF RegistrationInv, At
    <3> QED
      BY <2>6, <3>1 DEF Register, Begin, RegistrationInv, At
  <2> QED
    BY <2>4, <2>5, <2>6
<1>2. CASE ~registration_is_allowed
  BY <1>2, RegistrationAnswer, Zenon DEF Register, Begin
<1> QED
  BY <1>1, <1>2

LEMMA InsertUserKeeps ==
  ASSUME TypeInv, RegistrationInv, NEW t \in Threads, InsertUser(t)
  PROVE  RegistrationInv'
<1> DEFINE id == next["users"]
           u == [id |-> id, email |-> job[t].email, password |-> job[t].password, onboarded |-> FALSE]
           j == [NoJob EXCEPT !.op = "register", !.user = id]
<1>1. Goto(t, "issue", j) /\ j.copy.users = <<>> /\ Len(<<>>) = 0
  BY NoJobType, NoJobCopy DEF InsertUser, Job
<1>2. store'.users = Append(store.users, u)
  BY DEF InsertUser, TypeInv, TypeOK, Snapshot
<1>3. ~raced => Len(store'.users) <= 1
  <2>1. ~raced => store.users = <<>>
    BY DEF InsertUser, RegistrationInv, SingleAccount
  <2>2. Len(Append(<<>>, u)) = 1
    OBVIOUS
  <2> HIDE DEF u
  <2> QED
    BY <1>2, <2>1, <2>2
<1>4. ~raced => \A v \in Threads \ {t} : ~At(v, "insert")
  BY DEF InsertUser, RegistrationInv, SingleAccount
<1>5. up /\ up' = up /\ raced' = raced /\ file' = file
  BY BusyIsUp DEF InsertUser, At, history
<1>6. ~raced => Len(file'.users) <= 1
  BY <1>5 DEF RegistrationInv, SingleAccount
<1> HIDE DEF j
<1>7. ~raced => Len(j.copy.users) <= 1
  BY <1>1
<1> QED
  BY <1>1, <1>3, <1>4, <1>5, <1>6, <1>7, RegistrationStep

\* A change of an account adds none.
LEMMA ChangeUserKeeps ==
  ASSUME TypeInv, RegistrationInv, NEW t \in Threads, NEW users, At(t, "change"),
         users = [n \in DOMAIN store.users |-> users[n]],
         store' = [store EXCEPT !.users = users],
         Goto(t, "users", job[t]),
         UNCHANGED <<up, file, next, sessions, requests, history>>
  PROVE  RegistrationInv'
<1>1. store'.users = users
  BY DEF TypeInv, TypeOK, Snapshot
<1>2. DOMAIN users = DOMAIN store.users
  OBVIOUS
<1>3. store.users \in Seq(User)
  BY DEF TypeInv, TypeOK, Snapshot
<1>4. up /\ up' = up /\ raced' = raced /\ file' = file
  BY BusyIsUp DEF At, history
<1>5. ~raced => \A u \in Threads : At(u, "insert") => store'.users = <<>>
  BY <1>1, <1>2 DEF RegistrationInv, SingleAccount
<1> QED
  BY <1>1, <1>4, <1>5, RegistrationStep DEF RegistrationInv, SingleAccount

LEMMA BeginAsKeeps ==
  ASSUME TypeInv, RegistrationInv, NEW t \in Threads, NEW op, NEW j,
         BeginAs(t, op, j), j.copy.users = <<>>, j \in Job
  PROVE  RegistrationInv'
<1>1. [j EXCEPT !.op = op].copy.users = <<>>
  BY DEF Job
<1> QED
  BY <1>1, RegistrationKept DEF BeginAs, Begin, history

LEMMA OpenRequestKeeps ==
  ASSUME TypeInv, RegistrationInv, NEW t \in Threads, OpenRequest(t)
  PROVE  RegistrationInv'
<1>1. CASE Login(t)
  <2>1. CASE Answer(t)
    BY <1>1, <2>1, RegistrationAnswer DEF Login, Begin, history
  <2>2. CASE \E e \in Emails : Goto(t, "issue", [NoJob EXCEPT !.op = "login", !.user = FirstWith(e).id])
    <3>1. PICK e \in Emails : Goto(t, "issue", [NoJob EXCEPT !.op = "login", !.user = FirstWith(e).id])
      BY <2>2
    <3>2. [NoJob EXCEPT !.op = "login", !.user = FirstWith(e).id].copy.users = <<>>
      BY NoJobType, NoJobCopy DEF Job
    <3> QED
      BY <1>1, <3>1, <3>2, RegistrationKept DEF Login, Begin, history
  <2> QED
    BY <1>1, <2>1, <2>2 DEF Login
<1>2. CASE IssueToken(t)
  <2>1. store'.users = store.users
    BY <1>2 DEF IssueToken, TypeInv, TypeOK, Snapshot
  <2>2. up
    BY <1>2, BusyIsUp DEF IssueToken, At
  <2> QED
    BY <1>2, <2>1, <2>2, RegistrationKept DEF IssueToken, history
<1>3. CASE Refresh(t)
  <2>1. CASE Answer(t) /\ UNCHANGED <<store, next, dirty, risk>>
    BY <1>3, <2>1, RegistrationAnswer, RefreshCases DEF Begin, history
  <2>2. CASE \E old \in Ids : Rotate(t, old)
    <3>1. PICK old \in Ids : Rotate(t, old)
      BY <2>2
    <3> DEFINE j == [NoJob EXCEPT !.op = "refresh", !.user = store.tokens[old].owner,
                                  !.ref = old, !.new = next["tokens"]]
    <3>2. Goto(t, "find", j) /\ j.copy.users = <<>>
      BY <3>1, NoJobType, NoJobCopy DEF Rotate, Job
    <3>3. store'.users = store.users
      BY <3>1, RotateTokens DEF TypeInv
    <3> HIDE DEF j
    <3> QED
      BY <1>3, <3>2, <3>3, RegistrationKept, RefreshCases DEF Begin, history
  <2> QED
    BY <1>3, <2>1, <2>2, RefreshCases
<1>4. CASE RefreshUser(t)
  <2>1. up
    BY <1>4, BusyIsUp DEF RefreshUser, At
  <2> QED
    BY <1>4, <2>1, RegistrationKept, RegistrationAnswer DEF RefreshUser, history
<1> QED
  BY <1>1, <1>2, <1>3, <1>4, RegisterKeeps, InsertUserKeeps DEF OpenRequest

LEMMA AsCopy ==
  ASSUME NEW u
  PROVE  /\ As(u).copy.users = <<>>
         /\ \A e : [As(u) EXCEPT !.email = e].copy.users = <<>>
         /\ \A p : [As(u) EXCEPT !.password = p].copy.users = <<>>
         /\ \A i : [As(u) EXCEPT !.ref = i].copy.users = <<>>
BY NoJobCopy DEF As, NoJob

LEMMA UserRequestKeeps ==
  ASSUME TypeInv, RegistrationInv, NEW t \in Threads, UserRequest(t)
  PROVE  RegistrationInv'
<1>1. CASE MePatch(t)
  <2>1. PICK u \in Ids, e \in Emails : BeginAs(t, "patch", [As(u) EXCEPT !.email = e])
    BY <1>1 DEF MePatch
  <2> DEFINE j == [As(u) EXCEPT !.email = e]
  <2>2. j \in Job /\ j.copy.users = <<>> /\ BeginAs(t, "patch", j)
    BY <2>1, AsType, AsCopy
  <2> HIDE DEF j
  <2> QED
    BY <2>2, BeginAsKeeps
<1>2. CASE ChangePassword(t)
  <2>1. PICK u \in Ids, p \in Passwords : BeginAs(t, "password", [As(u) EXCEPT !.password = p])
    BY <1>2 DEF ChangePassword
  <2> DEFINE j == [As(u) EXCEPT !.password = p]
  <2>2. j \in Job /\ j.copy.users = <<>> /\ BeginAs(t, "password", j)
    BY <2>1, AsType, AsCopy
  <2> HIDE DEF j
  <2> QED
    BY <2>2, BeginAsKeeps
<1>3. CASE OnboardingComplete(t)
  BY <1>3, AsType, AsCopy, BeginAsKeeps DEF OnboardingComplete
<1>4. CASE CreateApiKey(t)
  BY <1>4, AsType, AsCopy, BeginAsKeeps DEF CreateApiKey
<1>5. CASE RevokeApiKey(t)
  <2>1. PICK u \in Ids, i \in Ids : BeginAs(t, "revoke", [As(u) EXCEPT !.ref = i])
    BY <1>5 DEF RevokeApiKey
  <2> DEFINE j == [As(u) EXCEPT !.ref = i]
  <2>2. j \in Job /\ j.copy.users = <<>> /\ BeginAs(t, "revoke", j)
    BY <2>1, AsType, AsCopy
  <2> HIDE DEF j
  <2> QED
    BY <2>2, BeginAsKeeps
<1>6. CASE UpdateProfile(t)
  BY <1>6, ChangeUserKeeps DEF UpdateProfile, ChangeUser
<1>7. CASE UpdatePasswordHash(t)
  BY <1>7, ChangeUserKeeps DEF UpdatePasswordHash, ChangeUser
<1>8. CASE MarkOnboardingComplete(t)
  BY <1>8, ChangeUserKeeps DEF MarkOnboardingComplete, ChangeUser
<1>9. CASE InsertApiKey(t) \/ MarkRevoked(t)
  <2>1. store'.users = store.users /\ Goto(t, "users", job[t])
    BY <1>9 DEF InsertApiKey, MarkRevoked, TypeInv, TypeOK, Snapshot
  <2>2. up
    BY <1>9, BusyIsUp DEF InsertApiKey, MarkRevoked, At
  <2>3. UNCHANGED <<up, raced, file>>
    BY <1>9 DEF InsertApiKey, MarkRevoked, history
  <2> QED
    BY <2>1, <2>2, <2>3, RegistrationKept
<1> QED
  BY <1>1, <1>2, <1>3, <1>4, <1>5, <1>6, <1>7, <1>8, <1>9 DEF UserRequest

LEMMA SaveKeeps ==
  ASSUME TypeInv, RegistrationInv, NEW t \in Threads, Save(t)
  PROVE  RegistrationInv'
<1>0. ~At(t, "idle")
  BY DEF Save, Copy, Write, WriteFails, At
<1>1. CASE Copy(t)
  <2> DEFINE j == [job[t] EXCEPT !.copy[pc[t]] = store[pc[t]]]
  <2>1. pc[t] \in Kinds /\ Goto(t, SaveOrder[pc[t]], j) /\ SaveOrder[pc[t]] # "insert"
    BY <1>1 DEF Copy, SaveOrder
  <2>2. j.copy.users = IF At(t, "users") THEN store.users ELSE job[t].copy.users
    BY <2>1 DEF At, TypeInv, TypeOK, Job, Snapshot
  <2> HIDE DEF j
  <2>3. ~raced => Len(j.copy.users) <= 1
    BY <2>2 DEF RegistrationInv, SingleAccount
  <2>4. up /\ UNCHANGED <<up, raced, store, file>>
    BY <1>0, <1>1, BusyIsUp DEF Copy, history
  <2> QED
    BY <2>1, <2>3, <2>4, RegistrationStep DEF RegistrationInv, SingleAccount
<1>2. CASE Write(t) \/ WriteFails(t)
  <2>1. up /\ UNCHANGED <<up, raced, store>> /\ Goto(t, "idle", NoJob)
    BY <1>0, <1>2, BusyIsUp DEF Write, WriteFails, Answered, Answer
  <2>2. ~raced => Len(file'.users) <= 1 /\ Len(NoJob.copy.users) <= 1
    BY <1>2, NoJobCopy DEF Write, WriteFails, RegistrationInv, SingleAccount
  <2> QED
    BY <2>1, <2>2, RegistrationStep DEF RegistrationInv, SingleAccount
<1> QED
  BY <1>1, <1>2 DEF Save

LEMMA NextRegistration == TypeInv /\ RegistrationInv /\ [Next]_vars => RegistrationInv'
<1> SUFFICES ASSUME TypeInv, RegistrationInv, [Next]_vars PROVE RegistrationInv'
  OBVIOUS
<1>1. CASE Crash
  <2>1. \A t \in Threads : pc'[t] = "idle" /\ job'[t].copy.users = <<>>
    BY <1>1, NoJobCopy DEF Crash
  <2>2. store'.users = <<>> /\ file' = file /\ raced' = raced
    BY <1>1, NoJobCopy DEF Crash, history
  <2>3. \A s : s = <<>> => Len(s) <= 1
    OBVIOUS
  <2>4. raced' \/ SingleAccount'
    BY <2>1, <2>2, <2>3 DEF RegistrationInv, SingleAccount, At
  <2> QED
    BY <2>1, <2>4 DEF RegistrationInv, At
<1>2. CASE Start
  BY <1>2 DEF Start, RegistrationInv, SingleAccount, At, history
<1>3. CASE \E u \in sessions : Expire(u)
  BY <1>3 DEF Expire, RegistrationInv, SingleAccount, At, history
<1>4. CASE UNCHANGED vars
  BY <1>4 DEF vars, RegistrationInv, SingleAccount, At
<1> QED
  BY <1>1, <1>2, <1>3, <1>4, OpenRequestKeeps, UserRequestKeeps, SaveKeeps DEF Next

\* Unless two registrations have overlapped, there is at most one account,
\* whatever else runs, also after restarts (register and insert_user).
THEOREM RegistrationIsClosed == Spec => []RegistrationCloses
<1>1. Spec => [](TypeInv /\ RegistrationInv)
  BY InitType, NextType, InitRegistration, NextRegistration, PTL DEF Spec
<1>2. TypeInv /\ RegistrationInv => RegistrationCloses
  BY DEF RegistrationInv, SingleAccount, RegistrationCloses
<1> QED
  BY <1>1, <1>2, PTL

-----------------------------------------------------------------------------
(* What a restart finds.  A copy that a request holds is of what the store *)
(* still holds, but for the ids at risk; so whichever request writes last, *)
(* the file agrees with the store.                                         *)

\* The labels at which a request holds a copy of the list.
Holding(k) ==
  CASE k = "users"  -> {"keys", "tokens", "write"}
    [] k = "keys"   -> {"tokens", "write"}
    [] k = "tokens" -> {"write"}

\* What a list of this kind has under an id.
Entry(s, k, i) == IF k = "users" THEN {u \in {s[n] : n \in DOMAIN s} : u.id = i} ELSE s[i]

FileSaved ==
  up => \A k \in Kinds, i \in Ids :
          \/ i \in risk[k] \/ \E t \in Threads : i \in dirty[t][k]
          \/ Entry(file[k], k, i) = Entry(store[k], k, i)

CopiesAgree ==
  \A t \in Threads, k \in Kinds, i \in Ids :
    pc[t] \in Holding(k) => i \in risk[k] \/ Entry(job[t].copy[k], k, i) = Entry(store[k], k, i)

\* A request that ends without saving has changed nothing, or tokens only.
DirtyIsSaved ==
  \A t \in Threads :
    /\ pc[t] \in {"idle", "insert"} => dirty[t] = NoneOf
    /\ pc[t] = "find" => dirty[t]["users"] = {} /\ dirty[t]["keys"] = {}

SavedInv == FileSaved /\ CopiesAgree /\ DirtyIsSaved

\* A step of one thread that leaves the file alone.
LEMMA SavedStep ==
  ASSUME TypeInv, SavedInv, NEW t \in Threads, NEW l, NEW j, Goto(t, l, j),
         UNCHANGED <<up, file>>,
         \A u \in Threads \ {t} : dirty'[u] = dirty[u],
         \A k \in Kinds : risk[k] \subseteq risk'[k] /\ dirty[t][k] \subseteq dirty'[t][k] \cup risk'[k],
         \A k \in Kinds, i \in Ids :
           \/ Entry(store'[k], k, i) = Entry(store[k], k, i)
           \/ i \in dirty'[t][k] /\ (CopyHeld(t, k) => i \in risk'[k]),
         \A k \in Kinds : l \in Holding(k) =>
           /\ store'[k] = store[k]
           /\ j.copy[k] = store[k] \/ (j.copy[k] = job[t].copy[k] /\ pc[t] \in Holding(k)),
         l \in {"idle", "insert"} => dirty'[t] = NoneOf,
         l = "find" => dirty'[t]["users"] = {} /\ dirty'[t]["keys"] = {}
  PROVE  SavedInv'
<1>1. /\ pc'[t] = l /\ job'[t] = j
      /\ \A u \in Threads \ {t} : pc'[u] = pc[u] /\ job'[u] = job[u]
  BY GotoThreads
<1>2. FileSaved'
  <2> SUFFICES ASSUME up', NEW k \in Kinds, NEW i \in Ids
               PROVE  \/ i \in risk'[k] \/ \E u \in Threads : i \in dirty'[u][k]
                      \/ Entry(file'[k], k, i) = Entry(store'[k], k, i)
    BY DEF FileSaved, Entry
  <2>1. \/ i \in risk[k] \/ \E u \in Threads : i \in dirty[u][k]
        \/ Entry(file[k], k, i) = Entry(store[k], k, i)
    BY DEF SavedInv, FileSaved
  <2>2. \A u \in Threads : i \in dirty[u][k] => i \in dirty'[u][k] \cup risk'[k]
    OBVIOUS
  <2>3. risk[k] \subseteq risk'[k]
    OBVIOUS
  <2> QED
    BY <2>1, <2>2, <2>3
<1>3. CopiesAgree'
  <2> SUFFICES ASSUME NEW u \in Threads, NEW k \in Kinds, NEW i \in Ids, pc'[u] \in Holding(k)
               PROVE  i \in risk'[k] \/ Entry(job'[u].copy[k], k, i) = Entry(store'[k], k, i)
    BY DEF CopiesAgree, Entry, Holding
  <2>1. risk[k] \subseteq risk'[k]
    OBVIOUS
  <2>2. pc[u] \in Holding(k) => i \in risk[k] \/ Entry(job[u].copy[k], k, i) = Entry(store[k], k, i)
    BY DEF SavedInv, CopiesAgree
  <2>3. CASE u = t
    BY <1>1, <2>1, <2>2, <2>3
  <2>4. CASE u # t
    <3>1. pc[u] \in Holding(k) /\ job'[u] = job[u]
      BY <1>1, <2>4
    <3>2. CopyHeld(t, k)
      BY <2>4, <3>1 DEF CopyHeld, Holding
    <3> QED
      BY <2>1, <2>2, <3>1, <3>2
  <2> QED
    BY <2>3, <2>4
<1>4. DirtyIsSaved'
  BY <1>1 DEF SavedInv, DirtyIsSaved, NoneOf
<1> QED
  BY <1>2, <1>3, <1>4 DEF SavedInv

\* One that changes nothing, and nothing is copied.
LEMMA QuietSaved ==
  ASSUME TypeInv, SavedInv, NEW t \in Threads, NEW l, NEW j, Goto(t, l, j),
         UNCHANGED <<up, store, file, dirty, risk>>,
         l \in {"idle", "insert"} => pc[t] \in {"idle", "insert"},
         l \notin {"find", "keys", "tokens", "write"}
  PROVE  SavedInv'
<1>1. \A k \in Kinds : l \notin Holding(k)
  BY DEF Holding
<1>2. l \in {"idle", "insert"} => dirty'[t] = NoneOf
  BY DEF SavedInv, DirtyIsSaved
<1> QED
  BY <1>1, <1>2, SavedStep

LEMMA ChangedFacts ==
  ASSUME TypeInv, NEW t \in Threads, NEW kind \in Kinds, NEW ids, Changed(t, kind, ids)
  PROVE  /\ \A u \in Threads \ {t} : dirty'[u] = dirty[u]
         /\ \A k \in Kinds : risk[k] \subseteq risk'[k] /\ dirty[t][k] \subseteq dirty'[t][k]
         /\ \A k \in Kinds \ {kind} : dirty'[t][k] = dirty[t][k]
         /\ ids \subseteq dirty'[t][kind]
         /\ CopyHeld(t, kind) => ids \subseteq risk'[kind]
<1>1. dirty \in [Threads -> [Kinds -> SUBSET Ids]] /\ risk \in [Kinds -> SUBSET Ids]
  BY DEF TypeInv, TypeOK
<1>2. dirty' = [dirty EXCEPT ![t][kind] = dirty[t][kind] \cup ids]
  BY <1>1 DEF Changed
<1>3. risk' = IF CopyHeld(t, kind) THEN [risk EXCEPT ![kind] = risk[kind] \cup ids] ELSE risk
  BY <1>1 DEF Changed
<1>4. /\ \A u \in Threads \ {t} : dirty'[u] = dirty[u]
      /\ \A k \in Kinds : dirty[t][k] \subseteq dirty'[t][k]
      /\ \A k \in Kinds \ {kind} : dirty'[t][k] = dirty[t][k]
      /\ ids \subseteq dirty'[t][kind]
  BY <1>1, <1>2
<1>5. (\A k \in Kinds : risk[k] \subseteq risk'[k]) /\ (CopyHeld(t, kind) => ids \subseteq risk'[kind])
  BY <1>1, <1>3
<1> QED
  BY <1>4, <1>5

\* One that changes entries of one list and records it.
LEMMA ChangedSaved ==
  ASSUME TypeInv, SavedInv, NEW t \in Threads, NEW kind \in Kinds, NEW ids, Changed(t, kind, ids),
         NEW l, NEW j, Goto(t, l, j), UNCHANGED <<up, file>>,
         \A k \in Kinds \ {kind} : store'[k] = store[k],
         \A i \in Ids \ ids : Entry(store'[kind], kind, i) = Entry(store[kind], kind, i),
         l \in {"issue", "users"} \/ (l = "find" /\ kind = "tokens" /\ At(t, "idle"))
  PROVE  SavedInv'
<1>1. \A k \in Kinds : l \notin Holding(k)
  BY DEF Holding
<1>2. \A k \in Kinds \ {kind}, i \in Ids : Entry(store'[k], k, i) = Entry(store[k], k, i)
  OBVIOUS
<1>3. \A k \in Kinds, i \in Ids :
        \/ Entry(store'[k], k, i) = Entry(store[k], k, i)
        \/ i \in dirty'[t][k] /\ (CopyHeld(t, k) => i \in risk'[k])
  <2> SUFFICES ASSUME NEW k \in Kinds, NEW i \in Ids
               PROVE  \/ Entry(store'[k], k, i) = Entry(store[k], k, i)
                      \/ i \in dirty'[t][k] /\ (CopyHeld(t, k) => i \in risk'[k])
    OBVIOUS
  <2>1. CASE k # kind
    BY <1>2, <2>1
  <2>2. CASE k = kind /\ i \notin ids
    BY <2>2
  <2>3. CASE k = kind /\ i \in ids
    BY <2>3, ChangedFacts
  <2> QED
    BY <2>1, <2>2, <2>3
<1>4. l = "find" => dirty'[t]["users"] = {} /\ dirty'[t]["keys"] = {}
  <2>1. l = "find" => dirty[t] = NoneOf /\ kind = "tokens"
    BY DEF SavedInv, DirtyIsSaved, At
  <2> QED
    BY <2>1, ChangedFacts DEF NoneOf
<1> QED
  BY <1>1, <1>3, <1>4, ChangedFacts, SavedStep

\* One more account, under an id of its own.
LEMMA AppendEntry ==
  ASSUME NEW s \in Seq(User), NEW u \in User, NEW i \in Ids, i # u.id
  PROVE  Entry(Append(s, u), "users", i) = Entry(s, "users", i)
<1>1. /\ DOMAIN Append(s, u) = 1 .. Len(s) + 1 /\ DOMAIN s = 1 .. Len(s) /\ Len(s) \in Nat
      /\ \A n \in 1 .. Len(s) : Append(s, u)[n] = s[n]
      /\ Append(s, u)[Len(s) + 1] = u
  BY AppendProperties, LenProperties
<1>2. {Append(s, u)[n] : n \in DOMAIN Append(s, u)} = {s[n] : n \in DOMAIN s} \cup {u}
  <2> DEFINE a == Append(s, u)
             m == Len(s)
  <2>1. DOMAIN a = DOMAIN s \cup {m + 1} /\ \A n \in DOMAIN s : a[n] = s[n]
    BY <1>1
  <2>2. a[m + 1] = u
    BY <1>1
  <2> HIDE DEF a, m
  <2> QED
    BY <2>1, <2>2
<1> QED
  BY <1>2 DEF Entry

LEMMA InsertUserSaved ==
  ASSUME TypeInv, SavedInv, NEW t \in Threads, InsertUser(t)
  PROVE  SavedInv'
<1> DEFINE id == next["users"]
           u == [id |-> id, email |-> job[t].email, password |-> job[t].password, onboarded |-> FALSE]
           j == [NoJob EXCEPT !.op = "register", !.user = id]
<1>1. u \in User /\ u.id = id
  BY DEF InsertUser, TypeInv, ThreadsOK, JobFilled, At, User
<1>2. store' = [store EXCEPT !.users = Append(store.users, u)] /\ store \in Snapshot
  BY DEF InsertUser, TypeInv, TypeOK
<1>3. Goto(t, "issue", j) /\ Changed(t, "users", {id}) /\ UNCHANGED <<up, file>>
  BY DEF InsertUser
<1> HIDE DEF u, j
<1>4. store'.users = Append(store.users, u) /\ store'.keys = store.keys /\ store'.tokens = store.tokens
  BY <1>2 DEF Snapshot
<1>5. \A i \in Ids \ {id} : Entry(store'["users"], "users", i) = Entry(store["users"], "users", i)
  BY <1>1, <1>2, <1>4, AppendEntry DEF Snapshot
<1> QED
  BY <1>3, <1>4, <1>5, ChangedSaved

LEMMA IssueSaved ==
  ASSUME TypeInv, SavedInv, NEW t \in Threads, NEW kind \in {"keys", "tokens"}, next[kind] \in Ids, NEW value,
         store' = [store EXCEPT ![kind][next[kind]] = value],
         Changed(t, kind, {next[kind]}), Goto(t, "users", job[t]), UNCHANGED <<up, file>>
  PROVE  SavedInv'
<1>1. store \in Snapshot
  BY DEF TypeInv, TypeOK
<1>2. \A k \in Kinds \ {kind} : store'[k] = store[k]
  BY <1>1 DEF Snapshot
<1>3. \A i \in Ids \ {next[kind]} : store'[kind][i] = store[kind][i]
  BY <1>1 DEF Snapshot
<1>4. \A i \in Ids \ {next[kind]} : Entry(store'[kind], kind, i) = Entry(store[kind], kind, i)
  BY <1>3 DEF Entry
<1> QED
  BY <1>2, <1>4, ChangedSaved

LEMMA MarkRevokedSaved ==
  ASSUME TypeInv, SavedInv, NEW t \in Threads, MarkRevoked(t)
  PROVE  SavedInv'
<1>1. store \in Snapshot
  BY DEF TypeInv, TypeOK
<1>2. /\ store' = [store EXCEPT !.keys[job[t].ref].active = FALSE]
      /\ Changed(t, "keys", {job[t].ref}) /\ Goto(t, "users", job[t]) /\ UNCHANGED <<up, file>>
  BY DEF MarkRevoked
<1>3. \A k \in Kinds \ {"keys"} : store'[k] = store[k]
  BY <1>1, <1>2 DEF Snapshot
<1>4. \A i \in Ids \ {job[t].ref} : store'["keys"][i] = store["keys"][i]
  BY <1>1, <1>2 DEF Snapshot
<1>5. \A i \in Ids \ {job[t].ref} : Entry(store'["keys"], "keys", i) = Entry(store["keys"], "keys", i)
  BY <1>4 DEF Entry
<1> QED
  BY <1>2, <1>3, <1>5, ChangedSaved

LEMMA RefreshSaved ==
  ASSUME TypeInv, SavedInv, NEW t \in Threads, Refresh(t)
  PROVE  SavedInv'
<1>1. CASE Answer(t) /\ UNCHANGED <<store, next, dirty, risk>>
  BY <1>1, RefreshCases, QuietSaved DEF Answer, Begin, At
<1>2. CASE \E old \in Ids : Rotate(t, old)
  <2>1. PICK old \in Ids : Rotate(t, old)
    BY <1>2
  <2> DEFINE j == [NoJob EXCEPT !.op = "refresh", !.user = store.tokens[old].owner,
                                !.ref = old, !.new = next["tokens"]]
             ids == {old, next["tokens"]}
  <2>2. Goto(t, "find", j) /\ Changed(t, "tokens", ids)
    BY <2>1 DEF Rotate
  <2>3. /\ store'.users = store.users /\ store'.keys = store.keys
        /\ \A i \in Ids \ ids : store'.tokens[i] = store.tokens[i]
    BY <2>1, RotateTokens DEF TypeInv
  <2>4. UNCHANGED <<up, file>> /\ At(t, "idle")
    BY RefreshCases DEF Begin
  <2> HIDE DEF j, ids
  <2>5. \A i \in Ids \ ids : Entry(store'["tokens"], "tokens", i) = Entry(store["tokens"], "tokens", i)
    BY <2>3 DEF Entry
  <2> QED
    BY <2>2, <2>3, <2>4, <2>5, ChangedSaved
<1> QED
  BY <1>1, <1>2, RefreshCases

LEMMA RefreshUserSaved ==
  ASSUME TypeInv, SavedInv, NEW t \in Threads, RefreshUser(t)
  PROVE  SavedInv'
<1>1. UNCHANGED <<up, file, store>> /\ pc[t] = "find"
  BY DEF RefreshUser, At
<1>2. CASE Goto(t, "users", job[t]) /\ UNCHANGED <<dirty, risk>>
  BY <1>1, <1>2, QuietSaved
<1>3. CASE /\ Answer(t) /\ risk' = [risk EXCEPT !["tokens"] = @ \cup dirty[t]["tokens"]]
           /\ dirty' = [dirty EXCEPT ![t] = NoneOf]
  <2>1. dirty \in [Threads -> [Kinds -> SUBSET Ids]] /\ risk \in [Kinds -> SUBSET Ids]
    BY DEF TypeInv, TypeOK
  <2>2. dirty[t]["users"] = {} /\ dirty[t]["keys"] = {}
    BY <1>1 DEF SavedInv, DirtyIsSaved
  <2>3. dirty'[t] = NoneOf /\ \A u \in Threads \ {t} : dirty'[u] = dirty[u]
    BY <1>3, <2>1
  <2>4. \A k \in Kinds : risk[k] \subseteq risk'[k] /\ dirty[t][k] \subseteq dirty'[t][k] \cup risk'[k]
    BY <1>3, <2>1, <2>2
  <2>5. \A k \in Kinds : "idle" \notin Holding(k)
    BY DEF Holding
  <2> QED
    BY <1>1, <1>3, <2>3, <2>4, <2>5, SavedStep DEF Answer
<1> QED
  BY <1>2, <1>3 DEF RefreshUser

LEMMA OpenRequestSaved ==
  ASSUME TypeInv, SavedInv, NEW t \in Threads, OpenRequest(t)
  PROVE  SavedInv'
<1>1. CASE Register(t)
  <2>1. PICK l \in {"idle", "insert"} : \E j : Goto(t, l, j)
    BY <1>1 DEF Register, Answer
  <2> QED
    BY <1>1, <2>1, QuietSaved DEF Register, Begin, At
<1>2. CASE Login(t)
  <2>1. PICK l \in {"idle", "issue"} : \E j : Goto(t, l, j)
    BY <1>2 DEF Login, Answer
  <2> QED
    BY <1>2, <2>1, QuietSaved DEF Login, Begin, At
<1>3. CASE IssueToken(t)
  BY <1>3, IssueSaved DEF IssueToken
<1> QED
  BY <1>1, <1>2, <1>3, InsertUserSaved, RefreshSaved, RefreshUserSaved DEF OpenRequest

LEMMA BeginAsSaved ==
  ASSUME TypeInv, SavedInv, NEW t \in Threads, NEW op, NEW j, BeginAs(t, op, j)
  PROVE  SavedInv'
BY QuietSaved DEF BeginAs

\* A change of one account.
LEMMA ChangeUserSaved ==
  ASSUME TypeInv, SavedInv, NEW t \in Threads, NEW users,
         users = [n \in DOMAIN store.users |-> users[n]],
         \A n \in DOMAIN store.users :
           /\ users[n].id = store.users[n].id
           /\ store.users[n].id # job[t].user => users[n] = store.users[n],
         store' = [store EXCEPT !.users = users],
         Changed(t, "users", {job[t].user}), Goto(t, "users", job[t]), UNCHANGED <<up, file>>
  PROVE  SavedInv'
<1>1. /\ store'.users = users /\ store'.keys = store.keys /\ store'.tokens = store.tokens
  BY DEF TypeInv, TypeOK, Snapshot
<1>2. ASSUME NEW i \in Ids \ {job[t].user} PROVE Entry(users, "users", i) = Entry(store.users, "users", i)
  <2>1. DOMAIN users = DOMAIN store.users
    OBVIOUS
  <2>2. \A n \in DOMAIN users : users[n].id = i \/ store.users[n].id = i => users[n] = store.users[n]
    BY <1>2
  <2> DEFINE Of(s) == {u \in {s[n] : n \in DOMAIN s} : u.id = i}
  <2>3. Of(users) \subseteq Of(store.users) /\ Of(store.users) \subseteq Of(users)
    BY <2>1, <2>2, ZenonT(30)
  <2>4. Of(users) = Of(store.users)
    BY <2>3
  <2> QED
    BY <2>4 DEF Entry
<1>3. \A k \in Kinds \ {"users"} : store'[k] = store[k]
  BY <1>1
<1>4. \A i \in Ids \ {job[t].user} : Entry(store'["users"], "users", i) = Entry(store["users"], "users", i)
  BY <1>1, <1>2
<1> QED
  BY <1>3, <1>4, ChangedSaved

\* What the three changes of an account make of the list.
LEMMA UsersChange ==
  ASSUME TypeInv, NEW t \in Threads, UpdateProfile(t) \/ UpdatePasswordHash(t) \/ MarkOnboardingComplete(t)
  PROVE  \E users :
           /\ users = [n \in DOMAIN store.users |-> users[n]]
           /\ \A n \in DOMAIN store.users :
                /\ users[n].id = store.users[n].id
                /\ store.users[n].id # job[t].user => users[n] = store.users[n]
           /\ store' = [store EXCEPT !.users = users]
<1>1. CASE UpdateProfile(t)
  <2> DEFINE users == [n \in DOMAIN store.users |->
                         IF store.users[n].id = job[t].user
                         THEN [store.users[n] EXCEPT !.email = job[t].email] ELSE store.users[n]]
  <2>1. \A n \in DOMAIN store.users : users[n].id = store.users[n].id
    BY StoredUsers DEF User
  <2>2. store' = [store EXCEPT !.users = users]
    BY <1>1 DEF UpdateProfile, ChangeUser
  <2> QED
    BY <2>1, <2>2
<1>2. CASE UpdatePasswordHash(t)
  <2> DEFINE users == [n \in DOMAIN store.users |->
                         IF store.users[n].id = job[t].user
                         THEN [store.users[n] EXCEPT !.password = job[t].password] ELSE store.users[n]]
  <2>1. \A n \in DOMAIN store.users : users[n].id = store.users[n].id
    BY StoredUsers DEF User
  <2>2. store' = [store EXCEPT !.users = users]
    BY <1>2 DEF UpdatePasswordHash, ChangeUser
  <2> QED
    BY <2>1, <2>2
<1>3. CASE MarkOnboardingComplete(t)
  <2> DEFINE users == [n \in DOMAIN store.users |->
                         IF store.users[n].id = job[t].user
                         THEN [store.users[n] EXCEPT !.onboarded = TRUE] ELSE store.users[n]]
  <2>1. \A n \in DOMAIN store.users : users[n].id = store.users[n].id
    BY StoredUsers DEF User
  <2>2. store' = [store EXCEPT !.users = users]
    BY <1>3 DEF MarkOnboardingComplete, ChangeUser
  <2> QED
    BY <2>1, <2>2
<1> QED
  BY <1>1, <1>2, <1>3

LEMMA UserRequestSaved ==
  ASSUME TypeInv, SavedInv, NEW t \in Threads, UserRequest(t)
  PROVE  SavedInv'
<1>1. CASE MePatch(t) \/ ChangePassword(t) \/ OnboardingComplete(t) \/ CreateApiKey(t) \/ RevokeApiKey(t)
  BY <1>1, BeginAsSaved DEF MePatch, ChangePassword, OnboardingComplete, CreateApiKey, RevokeApiKey
<1>2. CASE InsertApiKey(t)
  BY <1>2, IssueSaved DEF InsertApiKey
<1>3. CASE MarkRevoked(t)
  BY <1>3, MarkRevokedSaved
<1>4. CASE UpdateProfile(t) \/ UpdatePasswordHash(t) \/ MarkOnboardingComplete(t)
  <2>1. PICK users :
          /\ users = [n \in DOMAIN store.users |-> users[n]]
          /\ \A n \in DOMAIN store.users :
               /\ users[n].id = store.users[n].id
               /\ store.users[n].id # job[t].user => users[n] = store.users[n]
          /\ store' = [store EXCEPT !.users = users]
    BY <1>4, UsersChange
  <2>2. Changed(t, "users", {job[t].user}) /\ Goto(t, "users", job[t]) /\ UNCHANGED <<up, file>>
    BY <1>4 DEF UpdateProfile, UpdatePasswordHash, MarkOnboardingComplete, ChangeUser
  <2> QED
    BY <2>1, <2>2, ChangeUserSaved
<1> QED
  BY <1>1, <1>2, <1>3, <1>4 DEF UserRequest

\* The three lists are copied one after the other.
LEMMA CopyMoves ==
  ASSUME TypeInv, NEW t \in Threads, Copy(t)
  PROVE  /\ UNCHANGED <<up, store, file, next, sessions, requests, history, dirty, risk>>
         /\ pc[t] \in Kinds
         /\ \E l \in {"keys", "tokens", "write"}, j \in Job :
              /\ Goto(t, l, j) /\ l = SaveOrder[pc[t]] /\ j.user = job[t].user
              /\ \A k \in Kinds : l \in Holding(k) =>
                   j.copy[k] = store[k] \/ (j.copy[k] = job[t].copy[k] /\ pc[t] \in Holding(k))
<1> DEFINE l == SaveOrder[pc[t]]
           copy == [job[t].copy EXCEPT ![pc[t]] = store[pc[t]]]
           j == [job[t] EXCEPT !.copy = copy]
<1>1. pc[t] \in Kinds /\ store \in Snapshot /\ job[t] \in Job /\ job[t].copy \in Snapshot
  BY DEF Copy, TypeInv, TypeOK, Job
<1>2. /\ copy \in Snapshot /\ copy[pc[t]] = store[pc[t]]
      /\ \A k \in Kinds \ {pc[t]} : copy[k] = job[t].copy[k]
  BY <1>1 DEF Snapshot
<1>3. Goto(t, l, j)
  BY DEF Copy
<1> HIDE DEF copy
<1>4. j \in Job /\ j.user = job[t].user /\ j.copy = copy
  BY <1>1, <1>2 DEF Job
<1>5. l \in {"keys", "tokens", "write"} /\ \A k \in Kinds : l \in Holding(k) => k = pc[t] \/ pc[t] \in Holding(k)
  BY <1>1 DEF SaveOrder, Holding
<1> HIDE DEF j, l
<1>6. \A k \in Kinds : l \in Holding(k) =>
        j.copy[k] = store[k] \/ (j.copy[k] = job[t].copy[k] /\ pc[t] \in Holding(k))
  BY <1>1, <1>2, <1>4, <1>5
<1>7. UNCHANGED <<up, store, file, next, sessions, requests, history, dirty, risk>>
  BY DEF Copy
<1> QED
  BY <1>1, <1>3, <1>4, <1>5, <1>6, <1>7 DEF l

LEMMA CopySaved ==
  ASSUME TypeInv, SavedInv, NEW t \in Threads, Copy(t)
  PROVE  SavedInv'
<1>1. PICK l \in {"keys", "tokens", "write"}, j \in Job :
        /\ Goto(t, l, j)
        /\ \A k \in Kinds : l \in Holding(k) =>
             j.copy[k] = store[k] \/ (j.copy[k] = job[t].copy[k] /\ pc[t] \in Holding(k))
  BY CopyMoves
<1>2. UNCHANGED <<up, store, file, dirty, risk>>
  BY CopyMoves
<1> QED
  BY <1>1, <1>2, SavedStep

\* The copies of a request that writes them are all made.
LEMMA WriteSaved ==
  ASSUME TypeInv, SavedInv, NEW t \in Threads, Write(t) \/ WriteFails(t)
  PROVE  SavedInv'
<1>1. dirty \in [Threads -> [Kinds -> SUBSET Ids]] /\ risk \in [Kinds -> SUBSET Ids]
  BY DEF TypeInv, TypeOK
<1>2. /\ pc[t] = "write" /\ Goto(t, "idle", NoJob) /\ UNCHANGED <<up, store>>
      /\ dirty' = [dirty EXCEPT ![t] = NoneOf]
  BY DEF Write, WriteFails, Answered, Answer, At
<1>3. \/ file' = job[t].copy /\ risk' = risk
      \/ file' = file /\ \A k \in Kinds : risk'[k] = risk[k] \cup dirty[t][k]
  BY DEF Write, WriteFails
<1>4. /\ pc'[t] = "idle" /\ dirty'[t] = NoneOf
      /\ \A u \in Threads \ {t} : pc'[u] = pc[u] /\ job'[u] = job[u] /\ dirty'[u] = dirty[u]
  BY <1>1, <1>2, GotoThreads
<1>5. \A k \in Kinds : pc[t] \in Holding(k) /\ "idle" \notin Holding(k)
  BY <1>2 DEF Holding
<1>6. \A k \in Kinds : risk[k] \subseteq risk'[k]
  BY <1>3
<1>7. FileSaved'
  <2> SUFFICES ASSUME up', NEW k \in Kinds, NEW i \in Ids
               PROVE  \/ i \in risk'[k] \/ \E u \in Threads : i \in dirty'[u][k]
                      \/ Entry(file'[k], k, i) = Entry(store'[k], k, i)
    BY DEF FileSaved, Entry
  <2>1. CASE file' = job[t].copy /\ risk' = risk
    <3>1. i \in risk[k] \/ Entry(job[t].copy[k], k, i) = Entry(store[k], k, i)
      BY <1>5 DEF SavedInv, CopiesAgree
    <3> QED
      BY <1>2, <2>1, <3>1
  <2>2. CASE file' = file /\ risk'[k] = risk[k] \cup dirty[t][k]
    <3>1. \/ i \in risk[k] \/ \E u \in Threads : i \in dirty[u][k]
          \/ Entry(file[k], k, i) = Entry(store[k], k, i)
      BY <1>2 DEF SavedInv, FileSaved
    <3>2. \A u \in Threads : i \in dirty[u][k] => i \in dirty'[u][k] \/ i \in risk'[k]
      BY <1>4, <2>2
    <3> QED
      BY <1>2, <2>2, <3>1, <3>2
  <2> QED
    BY <1>3, <2>1, <2>2
<1>8. CopiesAgree'
  <2> SUFFICES ASSUME NEW u \in Threads, NEW k \in Kinds, NEW i \in Ids, pc'[u] \in Holding(k)
               PROVE  i \in risk'[k] \/ Entry(job'[u].copy[k], k, i) = Entry(store'[k], k, i)
    BY DEF CopiesAgree, Entry, Holding
  <2>1. u # t /\ pc'[u] = pc[u] /\ job'[u] = job[u]
    BY <1>4, <1>5
  <2>2. i \in risk[k] \/ Entry(job[u].copy[k], k, i) = Entry(store[k], k, i)
    BY <2>1 DEF SavedInv, CopiesAgree
  <2> QED
    BY <1>2, <1>6, <2>1, <2>2
<1>9. DirtyIsSaved'
  BY <1>4 DEF SavedInv, DirtyIsSaved, NoneOf
<1> QED
  BY <1>7, <1>8, <1>9 DEF SavedInv

\* All requests are gone.
LEMMA RestartSaved ==
  ASSUME TypeInv, SavedInv, RegistrationInv, Crash \/ Start
  PROVE  SavedInv'
<1>1. CASE Crash
  <2>1. \A t \in Threads : pc'[t] = "idle" /\ dirty'[t] = NoneOf
    BY <1>1 DEF Crash
  <2>2. ~up'
    BY <1>1 DEF Crash
  <2> QED
    BY <2>1, <2>2 DEF SavedInv, FileSaved, CopiesAgree, DirtyIsSaved, Holding, NoneOf
<1>2. CASE Start
  <2>1. \A t \in Threads : pc'[t] = "idle" /\ dirty'[t] = dirty[t] /\ pc[t] = "idle"
    BY <1>2 DEF Start, RegistrationInv, At
  <2>2. store' = file /\ file' = file
    BY <1>2 DEF Start
  <2>3. FileSaved'
    BY <2>2 DEF FileSaved, Entry
  <2> QED
    BY <2>1, <2>3 DEF SavedInv, CopiesAgree, DirtyIsSaved, Holding, NoneOf
<1> QED
  BY <1>1, <1>2

LEMMA NextSaved == TypeInv /\ RegistrationInv /\ SavedInv /\ [Next]_vars => SavedInv'
<1> SUFFICES ASSUME TypeInv, RegistrationInv, SavedInv, [Next]_vars PROVE SavedInv'
  OBVIOUS
<1>1. CASE Crash \/ Start
  BY <1>1, RestartSaved
<1>2. CASE UNCHANGED <<up, store, file, pc, job, dirty, risk>>
  BY <1>2 DEF SavedInv, FileSaved, CopiesAgree, DirtyIsSaved, Holding, Entry, NoneOf
<1>3. ASSUME NEW t \in Threads, OpenRequest(t) \/ UserRequest(t) \/ Save(t) PROVE SavedInv'
  BY <1>3, OpenRequestSaved, UserRequestSaved, CopySaved, WriteSaved DEF Save
<1>4. CASE UNCHANGED vars \/ \E u \in sessions : Expire(u)
  BY <1>2, <1>4 DEF vars, Expire
<1> QED
  BY <1>1, <1>3, <1>4 DEF Next

\* Between requests, a restart finds what the store holds, but for what an
\* overlap or a failed write kept from the file (save and the handlers).
THEOREM SavedIsFound == Spec => []AccountsAreSaved
<1>1. Init => SavedInv
  BY DEF Init, SavedInv, FileSaved, CopiesAgree, DirtyIsSaved, Holding, NoneOf
<1>2. SavedInv => AccountsAreSaved
  <2> SUFFICES ASSUME SavedInv, up
               PROVE  LET clean(kind) == Ids \ (risk[kind] \cup (UNION {dirty[t][kind] : t \in Threads}))
                          of(snapshot, i) == {u \in {snapshot.users[n] : n \in DOMAIN snapshot.users} : u.id = i} IN
                      /\ \A i \in clean("users") : of(file, i) = of(store, i)
                      /\ \A kind \in {"keys", "tokens"} : \A i \in clean(kind) : file[kind][i] = store[kind][i]
    BY DEF AccountsAreSaved
  <2>1. \A k \in Kinds : \A i \in Ids \ (risk[k] \cup (UNION {dirty[t][k] : t \in Threads})) :
          Entry(file[k], k, i) = Entry(store[k], k, i)
    BY DEF SavedInv, FileSaved
  <2>2. \A i \in Ids \ (risk["users"] \cup (UNION {dirty[t]["users"] : t \in Threads})) :
          Entry(file.users, "users", i) = Entry(store.users, "users", i)
    BY <2>1
  <2>3. \A kind \in {"keys", "tokens"} : \A i \in Ids \ (risk[kind] \cup (UNION {dirty[t][kind] : t \in Threads})) :
          file[kind][i] = store[kind][i]
    BY <2>1 DEF Entry
  <2> QED
    BY <2>2, <2>3 DEF Entry
<1>3. Spec => [](TypeInv /\ RegistrationInv /\ SavedInv)
  BY <1>1, InitType, NextType, InitRegistration, NextRegistration, NextSaved, PTL DEF Spec
<1> QED
  BY <1>2, <1>3, PTL

-----------------------------------------------------------------------------
(* The owners of what is saved.  A request that has copied the users keeps *)
(* them locked until it has the keys and the tokens, so the accounts it    *)
(* copied are those that the others can be of.                             *)

IdsOf(s) == {s[n].id : n \in DOMAIN s}

OwnerKnown(entry, users) == entry.owner \in {0} \cup IdsOf(users)

OwnersInv ==
  /\ \A k \in {"keys", "tokens"}, i \in Ids :
       /\ OwnerKnown(store[k][i], store.users)
       /\ OwnerKnown(file[k][i], file.users)
       /\ \A t \in Threads : pc[t] \in Holding(k) => OwnerKnown(job[t].copy[k][i], job[t].copy.users)
  /\ \A t \in Threads : pc[t] \notin {"idle", "insert"} => job[t].user \in IdsOf(store.users)
  /\ \A t \in Threads : pc[t] \in {"keys", "tokens"} => IdsOf(job[t].copy.users) = IdsOf(store.users)

\* A step of one thread that leaves the file alone and adds no account.
LEMMA OwnersStep ==
  ASSUME TypeInv, OwnersInv, NEW t \in Threads, NEW l, NEW j, Goto(t, l, j),
         UNCHANGED file, IdsOf(store'.users) = IdsOf(store.users),
         \A k \in {"keys", "tokens"}, i \in Ids : OwnerKnown(store'[k][i], store.users),
         l \notin {"idle", "insert"} => j.user \in IdsOf(store.users),
         l \in Holding("users") => IdsOf(j.copy.users) = IdsOf(store.users),
         \A k \in {"keys", "tokens"}, i \in Ids : l \in Holding(k) => OwnerKnown(j.copy[k][i], store.users)
  PROVE  OwnersInv'
<1>1. /\ pc'[t] = l /\ job'[t] = j
      /\ \A u \in Threads \ {t} : pc'[u] = pc[u] /\ job'[u] = job[u]
  BY GotoThreads
<1>2. l \in {"keys", "tokens"} \/ (\E k \in {"keys", "tokens"} : l \in Holding(k)) => l \in Holding("users")
  BY DEF Holding
<1>3. ASSUME NEW k \in {"keys", "tokens"}, NEW i \in Ids
      PROVE  /\ OwnerKnown(store'[k][i], store'.users)
             /\ OwnerKnown(file'[k][i], file'.users)
             /\ \A u \in Threads : pc'[u] \in Holding(k) => OwnerKnown(job'[u].copy[k][i], job'[u].copy.users)
  <2>1. OwnerKnown(store'[k][i], store'.users) /\ OwnerKnown(file'[k][i], file'.users)
    BY DEF OwnersInv, OwnerKnown
  <2>2. l \in Holding(k) => OwnerKnown(j.copy[k][i], j.copy.users)
    BY <1>2 DEF OwnerKnown
  <2> QED
    BY <1>1, <2>1, <2>2 DEF OwnersInv
<1>4. \A u \in Threads : pc'[u] \notin {"idle", "insert"} => job'[u].user \in IdsOf(store'.users)
  BY <1>1 DEF OwnersInv
<1>5. \A u \in Threads : pc'[u] \in {"keys", "tokens"} => IdsOf(job'[u].copy.users) = IdsOf(store'.users)
  BY <1>1, <1>2 DEF OwnersInv
<1> QED
  BY <1>3, <1>4, <1>5 DEF OwnersInv, Holding, OwnerKnown, IdsOf

\* One that makes no copy and changes no key or token.
LEMMA QuietOwners ==
  ASSUME TypeInv, OwnersInv, NEW t \in Threads, NEW l, NEW j, Goto(t, l, j),
         UNCHANGED <<store, file>>,
         l \notin {"keys", "tokens", "write"},
         l \notin {"idle", "insert"} => j.user \in IdsOf(store.users)
  PROVE  OwnersInv'
<1>1. \A k \in Kinds : l \notin Holding(k)
  BY DEF Holding
<1>2. \A k \in {"keys", "tokens"}, i \in Ids : OwnerKnown(store'[k][i], store.users)
  BY DEF OwnersInv
<1> QED
  BY <1>1, <1>2, OwnersStep

LEMMA BeginAsOwners ==
  ASSUME TypeInv, OwnersInv, NEW t \in Threads, NEW op, NEW j \in Job, BeginAs(t, op, j)
  PROVE  OwnersInv'
<1> DEFINE k == [j EXCEPT !.op = op]
<1>1. k.user = j.user /\ j.user \in IdsOf(store.users)
  BY DEF BeginAs, CurrentUser, UserIds, IdsOf, Job
<1>2. Goto(t, "change", k) /\ UNCHANGED <<store, file>>
  BY DEF BeginAs
<1> HIDE DEF k
<1> QED
  BY <1>1, <1>2, QuietOwners

\* A new key or token, or one that is put out of use, of an account that is there.
LEMMA IssueOwners ==
  ASSUME TypeInv, OwnersInv, NEW t \in Threads, NEW kind \in {"keys", "tokens"}, next[kind] \in Ids,
         pc[t] \in {"issue", "change"},
         store' = [store EXCEPT ![kind][next[kind]] = [owner |-> job[t].user, active |-> TRUE]],
         Goto(t, "users", job[t]), UNCHANGED file
  PROVE  OwnersInv'
<1>1. store \in Snapshot
  BY DEF TypeInv, TypeOK
<1>2. /\ store'.users = store.users
      /\ \A k \in {"keys", "tokens"}, i \in Ids :
           store'[k][i] = IF k = kind /\ i = next[kind] THEN [owner |-> job[t].user, active |-> TRUE] ELSE store[k][i]
  BY <1>1 DEF Snapshot
<1>3. job[t].user \in IdsOf(store.users)
  BY DEF OwnersInv
<1>4. \A k \in {"keys", "tokens"}, i \in Ids : OwnerKnown(store'[k][i], store.users)
  BY <1>2, <1>3, SMTT(30) DEF OwnersInv, OwnerKnown
<1>5. \A k \in Kinds : "users" \notin Holding(k)
  BY DEF Holding
<1> QED
  BY <1>2, <1>3, <1>4, <1>5, OwnersStep

LEMMA MarkRevokedOwners ==
  ASSUME TypeInv, OwnersInv, NEW t \in Threads, MarkRevoked(t)
  PROVE  OwnersInv'
<1>1. store \in Snapshot /\ job[t].ref \in Ids /\ pc[t] = "change"
  BY DEF TypeInv, TypeOK, ThreadsOK, JobFilled, MarkRevoked, At
<1>2. /\ store' = [store EXCEPT !.keys[job[t].ref].active = FALSE]
      /\ Goto(t, "users", job[t]) /\ UNCHANGED file
  BY DEF MarkRevoked, history
<1>3. /\ store'.users = store.users
      /\ \A k \in {"keys", "tokens"}, i \in Ids : store'[k][i].owner = store[k][i].owner
  BY <1>1, <1>2 DEF Snapshot, Owned
<1>4. job[t].user \in IdsOf(store.users)
  BY <1>1 DEF OwnersInv
<1>5. \A k \in {"keys", "tokens"}, i \in Ids : OwnerKnown(store'[k][i], store.users)
  BY <1>3 DEF OwnersInv, OwnerKnown
<1>6. \A k \in Kinds : "users" \notin Holding(k)
  BY DEF Holding
<1> QED
  BY <1>2, <1>3, <1>4, <1>5, <1>6, OwnersStep

LEMMA ChangeUserOwners ==
  ASSUME TypeInv, OwnersInv, NEW t \in Threads, pc[t] = "change", NEW users,
         users = [n \in DOMAIN store.users |-> users[n]],
         \A n \in DOMAIN store.users : users[n].id = store.users[n].id,
         store' = [store EXCEPT !.users = users],
         Goto(t, "users", job[t]), UNCHANGED file
  PROVE  OwnersInv'
<1>1. store'.users = users /\ store'.keys = store.keys /\ store'.tokens = store.tokens
  BY DEF TypeInv, TypeOK, Snapshot
<1>2. IdsOf(users) = IdsOf(store.users)
  <2>1. DOMAIN users = DOMAIN store.users
    OBVIOUS
  <2> QED
    BY <2>1 DEF IdsOf
<1>3. job[t].user \in IdsOf(store.users)
  BY DEF OwnersInv
<1>4. \A k \in {"keys", "tokens"}, i \in Ids : OwnerKnown(store'[k][i], store.users)
  BY <1>1 DEF OwnersInv
<1>5. \A k \in Kinds : "users" \notin Holding(k)
  BY DEF Holding
<1> QED
  BY <1>1, <1>2, <1>3, <1>4, <1>5, OwnersStep

LEMMA UserRequestOwners ==
  ASSUME TypeInv, OwnersInv, NEW t \in Threads, UserRequest(t)
  PROVE  OwnersInv'
<1>1. CASE MePatch(t) \/ ChangePassword(t) \/ OnboardingComplete(t) \/ CreateApiKey(t) \/ RevokeApiKey(t)
  BY <1>1, AsType, BeginAsOwners DEF MePatch, ChangePassword, OnboardingComplete, CreateApiKey, RevokeApiKey
<1>2. CASE InsertApiKey(t)
  BY <1>2, IssueOwners DEF InsertApiKey, At, history
<1>3. CASE MarkRevoked(t)
  BY <1>3, MarkRevokedOwners
<1>4. CASE UpdateProfile(t) \/ UpdatePasswordHash(t) \/ MarkOnboardingComplete(t)
  <2>1. PICK users :
          /\ users = [n \in DOMAIN store.users |-> users[n]]
          /\ \A n \in DOMAIN store.users : users[n].id = store.users[n].id
          /\ store' = [store EXCEPT !.users = users]
    BY <1>4, UsersChange
  <2>2. pc[t] = "change" /\ Goto(t, "users", job[t]) /\ UNCHANGED file
    BY <1>4 DEF UpdateProfile, UpdatePasswordHash, MarkOnboardingComplete, ChangeUser, At, history
  <2> QED
    BY <2>1, <2>2, ChangeUserOwners
<1> QED
  BY <1>1, <1>2, <1>3, <1>4 DEF UserRequest

LEMMA RefreshOwners ==
  ASSUME TypeInv, OwnersInv, NEW t \in Threads, Refresh(t)
  PROVE  OwnersInv'
<1>1. UNCHANGED file
  BY RefreshCases
<1>2. CASE Answer(t) /\ UNCHANGED <<store, next, dirty, risk>>
  BY <1>1, <1>2, QuietOwners DEF Answer
<1>3. CASE \E old \in Ids : Rotate(t, old)
  <2>1. PICK old \in Ids : Rotate(t, old)
    BY <1>3
  <2> DEFINE owner == store.tokens[old].owner
             j == [NoJob EXCEPT !.op = "refresh", !.user = owner, !.ref = old, !.new = next["tokens"]]
  <2>2. Goto(t, "find", j) /\ owner # 0 /\ j.user = owner
    BY <2>1, NoJobType DEF Rotate, Presented, Job
  <2>3. /\ store'.users = store.users /\ store'.keys = store.keys
        /\ \A i \in Ids : store'.tokens[i].owner \in {owner, store.tokens[i].owner}
    <3>1. /\ store'.users = store.users /\ store'.keys = store.keys
          /\ store'.tokens[next["tokens"]].owner = owner
          /\ old # next["tokens"] => store'.tokens[old].owner = owner
          /\ \A i \in Ids \ {old, next["tokens"]} : store'.tokens[i] = store.tokens[i]
      <4>1. TypeOK
        BY DEF TypeInv
      <4>2. store'.tokens[next["tokens"]] = [owner |-> owner, active |-> TRUE]
        BY <2>1, <4>1, RotateTokens
      <4>3. store'.tokens[next["tokens"]].owner = owner
        BY <4>2
      <4> QED
        BY <2>1, <4>1, <4>3, RotateTokens
    <3> QED
      BY <3>1
  <2> HIDE DEF j
  <2>4. owner \in IdsOf(store.users)
    BY <2>2 DEF OwnersInv, OwnerKnown
  <2> HIDE DEF owner
  <2>5. \A k \in {"keys", "tokens"}, i \in Ids : OwnerKnown(store'[k][i], store.users)
    BY <2>3, <2>4 DEF OwnersInv, OwnerKnown
  <2>6. \A k \in Kinds : "find" \notin Holding(k)
    BY DEF Holding
  <2> QED
    BY <1>1, <2>2, <2>3, <2>4, <2>5, <2>6, OwnersStep
<1> QED
  BY <1>2, <1>3, RefreshCases

\* A new account, while no request that saves has the users locked.
LEMMA InsertUserOwners ==
  ASSUME TypeInv, OwnersInv, NEW t \in Threads, InsertUser(t)
  PROVE  OwnersInv'
<1> DEFINE id == next["users"]
           u == [id |-> id, email |-> job[t].email, password |-> job[t].password, onboarded |-> FALSE]
           j == [NoJob EXCEPT !.op = "register", !.user = id]
<1>1. \A v \in Threads \ {t} : pc[v] \notin {"keys", "tokens"}
  BY DEF InsertUser, Free, Locking
<1>2. store' = [store EXCEPT !.users = Append(store.users, u)] /\ store \in Snapshot
  BY DEF InsertUser, TypeInv, TypeOK
<1>3. Goto(t, "issue", j) /\ UNCHANGED file /\ j.user = id
  BY NoJobType DEF InsertUser, Job
<1>4. u.id = id
  OBVIOUS
<1> HIDE DEF u, j
<1>5. store'.users = Append(store.users, u) /\ store'.keys = store.keys /\ store'.tokens = store.tokens
  BY <1>2 DEF Snapshot
<1>6. IdsOf(store.users) \subseteq IdsOf(store'.users) /\ id \in IdsOf(store'.users)
  <2> DEFINE s == store.users
             n == Len(s) + 1
  <2>1. s \in Seq(User) /\ DOMAIN s = 1 .. Len(s) /\ Len(s) \in Nat
    BY <1>2, LenProperties DEF Snapshot
  <2> HIDE DEF s
  <2>2. /\ DOMAIN Append(s, u) = 1 .. n /\ Append(s, u)[n] = u
        /\ \A m \in 1 .. Len(s) : Append(s, u)[m] = s[m]
    BY <2>1
  <2>3. DOMAIN s \subseteq DOMAIN Append(s, u) /\ n \in DOMAIN Append(s, u)
    BY <2>1, <2>2
  <2> QED
    BY <1>4, <1>5, <2>1, <2>2, <2>3 DEF IdsOf, s
<1>7. pc'[t] = "issue" /\ job'[t] = j /\ \A v \in Threads \ {t} : pc'[v] = pc[v] /\ job'[v] = job[v]
  BY <1>3, GotoThreads
<1>8. "issue" \notin {"keys", "tokens"} /\ \A k \in Kinds : "issue" \notin Holding(k)
  BY DEF Holding
<1>9. \A k \in {"keys", "tokens"}, i \in Ids :
        /\ OwnerKnown(store'[k][i], store'.users)
        /\ OwnerKnown(file'[k][i], file'.users)
        /\ \A v \in Threads : pc'[v] \in Holding(k) => OwnerKnown(job'[v].copy[k][i], job'[v].copy.users)
  <2>1. \A k \in {"keys", "tokens"}, i \in Ids : OwnerKnown(store'[k][i], store'.users)
    BY <1>5, <1>6 DEF OwnersInv, OwnerKnown
  <2>2. \A k \in {"keys", "tokens"}, i \in Ids : OwnerKnown(file'[k][i], file'.users)
    BY <1>3 DEF OwnersInv
  <2> QED
    BY <1>7, <1>8, <2>1, <2>2 DEF OwnersInv
<1>10. \A v \in Threads : pc'[v] \notin {"idle", "insert"} => job'[v].user \in IdsOf(store'.users)
  BY <1>3, <1>6, <1>7 DEF OwnersInv
<1>11. \A v \in Threads : pc'[v] \notin {"keys", "tokens"}
  BY <1>1, <1>7, <1>8
<1> QED
  BY <1>9, <1>10, <1>11 DEF OwnersInv, Holding, OwnerKnown, IdsOf

LEMMA OpenRequestOwners ==
  ASSUME TypeInv, OwnersInv, NEW t \in Threads, OpenRequest(t)
  PROVE  OwnersInv'
<1>1. CASE Register(t)
  <2>1. PICK l \in {"idle", "insert"} : \E j : Goto(t, l, j)
    BY <1>1 DEF Register, Answer
  <2> QED
    BY <1>1, <2>1, QuietOwners DEF Register
<1>2. CASE Login(t)
  <2>1. CASE Answer(t)
    BY <1>2, <2>1, QuietOwners DEF Login, Answer, history
  <2>2. CASE \E e \in Emails : WithEmail(e) # {} /\ Goto(t, "issue", [NoJob EXCEPT !.op = "login", !.user = FirstWith(e).id])
    <3>1. PICK e \in Emails : WithEmail(e) # {} /\ Goto(t, "issue", [NoJob EXCEPT !.op = "login", !.user = FirstWith(e).id])
      BY <2>2
    <3> DEFINE j == [NoJob EXCEPT !.op = "login", !.user = FirstWith(e).id]
    <3>2. j.user = FirstWith(e).id
      BY NoJobType DEF Job
    <3>3. FirstWith(e).id \in IdsOf(store.users)
      <4>1. WithEmail(e) \subseteq Nat /\ WithEmail(e) \subseteq DOMAIN store.users
        BY LenProperties DEF WithEmail, TypeInv, TypeOK, Snapshot
      <4>2. (CHOOSE n \in WithEmail(e) : \A m \in WithEmail(e) : n <= m) \in WithEmail(e)
        BY <3>1, <4>1, LeastElement
      <4> QED
        BY <4>1, <4>2 DEF FirstWith, IdsOf
    <3>4. Goto(t, "issue", j)
      BY <3>1
    <3> HIDE DEF j
    <3> QED
      BY <1>2, <3>2, <3>3, <3>4, QuietOwners DEF Login, history
  <2> QED
    BY <1>2, <2>1, <2>2 DEF Login
<1>3. CASE IssueToken(t)
  BY <1>3, IssueOwners DEF IssueToken, At, history
<1>4. CASE RefreshUser(t)
  <2>1. pc[t] = "find" /\ UNCHANGED <<store, file>>
    BY <1>4 DEF RefreshUser, At, history
  <2>2. job[t].user \in IdsOf(store.users)
    BY <2>1 DEF OwnersInv
  <2> QED
    BY <1>4, <2>1, <2>2, QuietOwners DEF RefreshUser, Answer
<1> QED
  BY <1>1, <1>2, <1>3, <1>4, InsertUserOwners, RefreshOwners DEF OpenRequest

LEMMA SaveOwners ==
  ASSUME TypeInv, OwnersInv, NEW t \in Threads, Save(t)
  PROVE  OwnersInv'
<1>1. CASE Copy(t)
  <2>1. PICK l \in {"keys", "tokens", "write"}, j \in Job :
          /\ Goto(t, l, j) /\ j.user = job[t].user
          /\ \A k \in Kinds : l \in Holding(k) =>
               j.copy[k] = store[k] \/ (j.copy[k] = job[t].copy[k] /\ pc[t] \in Holding(k))
    BY <1>1, CopyMoves
  <2>2. pc[t] \in Kinds /\ UNCHANGED <<store, file>>
    BY <1>1, CopyMoves
  <2>3. /\ job[t].user \in IdsOf(store.users)
        /\ \A k \in {"keys", "tokens"}, i \in Ids : OwnerKnown(store'[k][i], store.users)
    BY <2>2 DEF OwnersInv
  <2>4. pc[t] \in Holding("users") => IdsOf(job[t].copy.users) = IdsOf(store.users)
    BY <2>2 DEF OwnersInv, Holding
  <2>5. l \in Holding("users") => IdsOf(j.copy.users) = IdsOf(store.users)
    BY <2>1, <2>4
  <2>6. ASSUME NEW k \in {"keys", "tokens"}, NEW i \in Ids, l \in Holding(k)
        PROVE  OwnerKnown(j.copy[k][i], store.users)
    <3>1. CASE j.copy[k] = store[k]
      BY <3>1 DEF OwnersInv
    <3>2. CASE j.copy[k] = job[t].copy[k] /\ pc[t] \in Holding(k)
      <4>1. OwnerKnown(job[t].copy[k][i], job[t].copy.users)
        BY <3>2 DEF OwnersInv
      <4>2. pc[t] \in Holding("users")
        BY <3>2 DEF Holding
      <4> QED
        BY <2>4, <3>2, <4>1, <4>2 DEF OwnerKnown
    <3> QED
      BY <2>1, <2>6, <3>1, <3>2
  <2> QED
    BY <2>1, <2>2, <2>3, <2>5, <2>6, OwnersStep
<1>2. CASE Write(t) \/ WriteFails(t)
  <2>1. /\ pc[t] = "write" /\ Goto(t, "idle", NoJob) /\ UNCHANGED store
        /\ file' \in {file, job[t].copy}
    BY <1>2 DEF Write, WriteFails, Answered, Answer, At
  <2>2. /\ pc'[t] = "idle" /\ \A u \in Threads \ {t} : pc'[u] = pc[u] /\ job'[u] = job[u]
    BY <2>1, GotoThreads
  <2>3. \A k \in Kinds : pc[t] \in Holding(k) /\ "idle" \notin Holding(k)
    BY <2>1 DEF Holding
  <2>4. \A k \in {"keys", "tokens"}, i \in Ids : OwnerKnown(file'[k][i], file'.users)
    <3>1. CASE file' = file
      BY <3>1 DEF OwnersInv
    <3>2. CASE file' = job[t].copy
      BY <2>3, <3>2 DEF OwnersInv
    <3> QED
      BY <2>1, <3>1, <3>2
  <2>5. \A k \in {"keys", "tokens"}, i \in Ids :
          /\ OwnerKnown(store'[k][i], store'.users)
          /\ \A u \in Threads : pc'[u] \in Holding(k) => OwnerKnown(job'[u].copy[k][i], job'[u].copy.users)
    BY <2>1, <2>2, <2>3 DEF OwnersInv
  <2>6. \A u \in Threads : pc'[u] \notin {"idle", "insert"} => job'[u].user \in IdsOf(store'.users)
    BY <2>1, <2>2 DEF OwnersInv
  <2>7. \A u \in Threads : pc'[u] \in {"keys", "tokens"} => IdsOf(job'[u].copy.users) = IdsOf(store'.users)
    BY <2>1, <2>2 DEF OwnersInv
  <2> QED
    BY <2>4, <2>5, <2>6, <2>7 DEF OwnersInv, Holding, OwnerKnown, IdsOf
<1> QED
  BY <1>1, <1>2 DEF Save

LEMMA NoOwners == \A k \in {"keys", "tokens"}, i \in Ids : NoAccounts[k][i].owner = 0
BY DEF NoAccounts, Absent

\* A restart, before and after which no request runs.
LEMMA RestartOwners ==
  ASSUME TypeInv, RegistrationInv, OwnersInv, Crash \/ Start
  PROVE  OwnersInv'
<1>1. \A t \in Threads : pc'[t] = "idle"
  BY DEF Crash, Start, RegistrationInv, At
<1>2. file' = file /\ (store' = NoAccounts \/ store' = file)
  BY DEF Crash, Start
<1>3. \A k \in {"keys", "tokens"}, i \in Ids :
        OwnerKnown(store'[k][i], store'.users) /\ OwnerKnown(file'[k][i], file'.users)
  BY <1>2, NoOwners DEF OwnersInv, OwnerKnown
<1>4. \A k \in Kinds : "idle" \notin Holding(k)
  BY DEF Holding
<1> QED
  BY <1>1, <1>3, <1>4 DEF OwnersInv, Holding, OwnerKnown, IdsOf

LEMMA NextOwners == TypeInv /\ RegistrationInv /\ OwnersInv /\ [Next]_vars => OwnersInv'
<1> SUFFICES ASSUME TypeInv, RegistrationInv, OwnersInv, [Next]_vars PROVE OwnersInv'
  OBVIOUS
<1>1. ASSUME UNCHANGED <<store, file, pc, job>> PROVE OwnersInv'
  <2>1. store' = store /\ file' = file /\ pc' = pc /\ job' = job
    BY <1>1
  <2>2. /\ \A k \in {"keys", "tokens"}, i \in Ids :
             /\ OwnerKnown(store'[k][i], store'.users)
             /\ OwnerKnown(file'[k][i], file'.users)
             /\ \A t \in Threads : pc'[t] \in Holding(k) => OwnerKnown(job'[t].copy[k][i], job'[t].copy.users)
        /\ \A t \in Threads : pc'[t] \notin {"idle", "insert"} => job'[t].user \in IdsOf(store'.users)
        /\ \A t \in Threads : pc'[t] \in {"keys", "tokens"} => IdsOf(job'[t].copy.users) = IdsOf(store'.users)
    BY <2>1 DEF OwnersInv
  <2> QED
    BY <2>2 DEF OwnersInv, Holding, OwnerKnown, IdsOf
<1>2. CASE UNCHANGED vars \/ \E u \in sessions : Expire(u)
  BY <1>1, <1>2 DEF vars, Expire
<1> QED
  BY <1>2, RestartOwners, OpenRequestOwners, UserRequestOwners, SaveOwners DEF Next

LEMMA InitOwners == Init => OwnersInv
<1> SUFFICES ASSUME Init PROVE OwnersInv
  OBVIOUS
<1>1. \A t \in Threads : pc[t] = "idle"
  BY DEF Init
<1>2. store = file /\ (file = NoAccounts \/ \E u : u.id = 1 /\ file = Saved(u))
  <2>1. \A e, p : [id |-> 1, email |-> e, password |-> p, onboarded |-> FALSE].id = 1
    OBVIOUS
  <2> QED
    BY <2>1 DEF Init
<1>3. ASSUME NEW u, u.id = 1
      PROVE  \A k \in {"keys", "tokens"}, i \in Ids : OwnerKnown(Saved(u)[k][i], Saved(u).users)
  <2>1. IdsOf(<<u>>) = {1}
    BY <1>3 DEF IdsOf
  <2> QED
    BY <2>1 DEF Saved, Absent, OwnerKnown
<1>4. \A k \in {"keys", "tokens"}, i \in Ids : OwnerKnown(store[k][i], store.users) /\ OwnerKnown(file[k][i], file.users)
  BY <1>2, <1>3, NoOwners DEF OwnerKnown
<1>5. \A k \in Kinds : "idle" \notin Holding(k)
  BY DEF Holding
<1> QED
  BY <1>1, <1>4, <1>5 DEF OwnersInv

\* Every key and token of the file has its account there, whatever else runs
\* and whichever copy was written last (save, which keeps the locks it takes,
\* and the order in which it takes them).
THEOREM OwnersAreSaved == Spec => []SavedOwnersExist
<1>1. OwnersInv => SavedOwnersExist
  BY DEF OwnersInv, SavedOwnersExist, OwnerKnown, IdsOf
<1>2. Spec => [](TypeInv /\ RegistrationInv /\ OwnersInv)
  BY InitType, NextType, InitRegistration, NextRegistration, InitOwners, NextOwners, PTL DEF Spec
<1> QED
  BY <1>1, <1>2, PTL

-----------------------------------------------------------------------------
(* Proofs that a key or a token which has been put out of use stays so, and *)
(* that a refresh token gives one other at most.                            *)
(*                                                                          *)
(* The argument is about the copies.  A request that puts a key or token    *)
(* out of use finds every other copy either not made yet, and then it will  *)
(* be of the changed store, or held by a request that has not written it,   *)
(* and then the id is at risk.  So the copies of an id that is not at risk  *)
(* all agree that it is out of use, before the request is answered, and     *)
(* with them the file that any of them may be written to.                   *)

\* The request of a thread at label l has put key or token i out of use.
JobSpends(l, j, k, i) ==
  /\ j.ref = i
  /\ \/ k = "tokens" /\ j.op = "refresh"
     \/ k = "keys" /\ j.op = "revoke" /\ l # "change"

Spends(t, k, i) == JobSpends(pc[t], job[t], k, i)

\* An answered request has put it out of use.
Spent(k, i) ==
  \/ k = "tokens" /\ \E c \in chain : c[1] = i
  \/ k = "keys" /\ i \in revoked

Out(s, i) == ~s[i].active

\* The labels at which a request holds a copy of the list.
Held(k) == IF k = "keys" THEN {"tokens", "write"} ELSE {"write"}

\* An id that has not been given is nowhere.
FreshOK(k) ==
  \A i \in Ids : next[k] <= i =>
    /\ store[k][i].owner = 0 /\ file[k][i].owner = 0
    /\ \A t \in Threads : job[t].copy[k][i].owner = 0

CopiesOK(k) == \A t \in Threads : pc[t] \notin Held(k) => job[t].copy[k] = NoAccounts[k]

DirtyOK(k) == \A t \in Threads, i \in Ids : Spends(t, k, i) => i \in dirty[t][k]

SpentOK(k) ==
  \A i \in Ids \ risk[k] :
    /\ Spent(k, i) => Out(file[k], i)
    /\ Spent(k, i) \/ (\E t \in Threads : Spends(t, k, i)) =>
         /\ i < next[k]
         /\ Out(store[k], i)
         /\ \A t \in Threads : Out(job[t].copy[k], i)

KindInv(k) == FreshOK(k) /\ CopiesOK(k) /\ DirtyOK(k) /\ SpentOK(k)

RefsOK ==
  \A t \in Threads :
    /\ At(t, "idle") => job[t] = NoJob
    /\ job[t].op = "revoke" => job[t].ref < next["keys"]

\* A token that is not at risk is used by one request.
UsedOnce ==
  /\ \A t, u \in Threads, i \in Ids \ risk["tokens"] :
       Spends(t, "tokens", i) /\ Spends(u, "tokens", i) => t = u
  /\ \A t \in Threads, i \in Ids \ risk["tokens"] : ~(Spends(t, "tokens", i) /\ Spent("tokens", i))
  /\ RotatedOnce

OutOfUseInv == KindInv("keys") /\ KindInv("tokens") /\ RefsOK /\ UsedOnce

-----------------------------------------------------------------------------
(* What a step of one thread has to respect.                               *)

LEMMA NextIsNat ==
  ASSUME TypeInv, NEW k \in {"keys", "tokens"}
  PROVE  next[k] \in Nat
BY AccountsBoundsAssumption DEF TypeInv, TypeOK, Kinds

LEMMA NothingAtAll ==
  ASSUME NEW k \in {"keys", "tokens"}
  PROVE  /\ \A i \in Ids : NoAccounts[k][i].owner = 0 /\ Out(NoAccounts[k], i)
         /\ NoJob.copy[k] = NoAccounts[k]
         /\ \A l, i : ~JobSpends(l, NoJob, k, i)
BY DEF NoAccounts, Absent, Out, NoJob, JobSpends

\* A step that leaves the file alone and answers nothing.
LEMMA KindStep ==
  ASSUME TypeInv, NEW k \in {"keys", "tokens"}, KindInv(k),
         NEW t \in Threads, NEW l, NEW j, Goto(t, l, j),
         UNCHANGED <<file, chain, revoked>>,
         next'[k] \in Nat, next[k] <= next'[k], risk[k] \subseteq risk'[k],
         \A u \in Threads \ {t} : dirty[u][k] \subseteq dirty'[u][k],
         \/ j.copy[k] = NoAccounts[k]
         \/ j.copy[k] = job[t].copy[k] /\ (l \in Held(k) \/ pc[t] \notin Held(k))
         \/ j.copy[k] = store[k] /\ l \in Held(k),
         \A i \in Ids : next'[k] <= i => store'[k][i] = store[k][i],
         \A i \in Ids : i < next[k] /\ Out(store[k], i) => Out(store'[k], i),
         \A i \in Ids : JobSpends(l, j, k, i) =>
           /\ i \in dirty'[t][k]
           /\ \/ i \in risk'[k]
              \/ Spends(t, k, i)
              \/ /\ i < next[k] /\ Out(store'[k], i) /\ Out(j.copy[k], i)
                 /\ \A u \in Threads \ {t} : Out(job[u].copy[k], i)
  PROVE  KindInv(k)'
<1>0. /\ next[k] \in Nat /\ Ids \subseteq Nat
      /\ pc'[t] = l /\ job'[t] = j
      /\ \A u \in Threads \ {t} : pc'[u] = pc[u] /\ job'[u] = job[u]
  BY GotoThreads, IdsAreIds, NextIsNat
<1>1. FreshOK(k)'
  <2> SUFFICES ASSUME NEW i \in Ids, next'[k] <= i
               PROVE  /\ store'[k][i].owner = 0 /\ file'[k][i].owner = 0
                      /\ \A u \in Threads : job'[u].copy[k][i].owner = 0
    BY DEF FreshOK
  <2>1. next[k] <= i
    BY <1>0
  <2>2. /\ store[k][i].owner = 0 /\ file[k][i].owner = 0
        /\ \A u \in Threads : job[u].copy[k][i].owner = 0
    BY <2>1 DEF KindInv, FreshOK
  <2>3. j.copy[k][i].owner = 0
    BY <2>2, NothingAtAll
  <2> QED
    BY <1>0, <2>2, <2>3
<1>2. CopiesOK(k)'
  BY <1>0 DEF KindInv, CopiesOK
<1>3. DirtyOK(k)'
  BY <1>0 DEF KindInv, DirtyOK, Spends
<1>4. SpentOK(k)'
  <2> SUFFICES ASSUME NEW i \in Ids \ risk'[k]
               PROVE  /\ Spent(k, i)' => Out(file'[k], i)
                      /\ Spent(k, i)' \/ (\E u \in Threads : Spends(u, k, i)') =>
                           /\ i < next'[k]
                           /\ Out(store'[k], i)
                           /\ \A u \in Threads : Out(job'[u].copy[k], i)
    BY DEF SpentOK, Out
  <2>1. Spent(k, i)' <=> Spent(k, i)
    BY DEF Spent
  <2>2. i \in Ids \ risk[k]
    OBVIOUS
  <2>3. \A u \in Threads \ {t} : Spends(u, k, i)' => Spends(u, k, i)
    BY <1>0 DEF Spends
  <2>4. Spends(t, k, i)' <=> JobSpends(l, j, k, i)
    BY <1>0 DEF Spends
  <2>5. CASE Spent(k, i) \/ \E u \in Threads : Spends(u, k, i)
    <3>1. /\ i < next[k] /\ Out(store[k], i)
          /\ \A u \in Threads : Out(job[u].copy[k], i)
      BY <2>2, <2>5 DEF KindInv, SpentOK
    <3>2. Out(j.copy[k], i)
      BY <3>1, NothingAtAll DEF Out
    <3> QED
      BY <1>0, <2>1, <2>2, <3>1, <3>2 DEF KindInv, SpentOK
  <2>6. CASE /\ i < next[k] /\ Out(store'[k], i) /\ Out(j.copy[k], i)
             /\ \A u \in Threads \ {t} : Out(job[u].copy[k], i)
    <3>1. Spent(k, i) => Out(file[k], i)
      BY <2>2 DEF KindInv, SpentOK
    <3>2. \A u \in Threads : Out(job'[u].copy[k], i)
      BY <1>0, <2>6
    <3>3. i < next'[k]
      BY <1>0, <2>6
    <3> QED
      BY <2>1, <2>6, <3>1, <3>2, <3>3 DEF Out
  <2> QED
    BY <2>1, <2>3, <2>4, <2>5, <2>6
<1> QED
  BY <1>1, <1>2, <1>3, <1>4 DEF KindInv

\* A step that leaves the keys, or the tokens, alone.
LEMMA KindKept ==
  ASSUME TypeInv, NEW k \in {"keys", "tokens"}, KindInv(k),
         NEW t \in Threads, NEW l, NEW j, Goto(t, l, j),
         UNCHANGED <<file, chain, revoked>>,
         next'[k] = next[k], store'[k] = store[k], risk[k] \subseteq risk'[k],
         \A u \in Threads \ {t} : dirty[u][k] \subseteq dirty'[u][k],
         \/ j.copy[k] = NoAccounts[k]
         \/ j.copy[k] = job[t].copy[k] /\ (l \in Held(k) \/ pc[t] \notin Held(k))
         \/ j.copy[k] = store[k] /\ l \in Held(k),
         \A i \in Ids : JobSpends(l, j, k, i) => Spends(t, k, i) /\ dirty[t][k] \subseteq dirty'[t][k]
  PROVE  KindInv(k)'
<1>1. \A i \in Ids : JobSpends(l, j, k, i) => i \in dirty'[t][k] /\ Spends(t, k, i)
  BY DEF KindInv, DirtyOK
<1>2. next[k] \in Nat
  BY NextIsNat
<1> QED
  BY <1>1, <1>2, KindStep

LEMMA RefsStep ==
  ASSUME TypeInv, RefsOK, NEW t \in Threads, NEW l, NEW j, Goto(t, l, j),
         l = "idle" => j = NoJob, j.op = "revoke" => j.ref < next'["keys"],
         next'["keys"] \in Nat, next["keys"] <= next'["keys"]
  PROVE  RefsOK'
<1>1. /\ pc'[t] = l /\ job'[t] = j
      /\ \A u \in Threads \ {t} : pc'[u] = pc[u] /\ job'[u] = job[u]
  BY GotoThreads
<1>2. next["keys"] \in Nat /\ \A u \in Threads : job[u].ref \in Nat
  <2>1. \A u \in Threads : job[u].ref \in Ids \cup {0}
    BY DEF TypeInv, TypeOK, Job
  <2>2. next["keys"] \in Nat
    BY NextIsNat
  <2>3. Ids \cup {0} \subseteq Nat
    BY IdsAreIds
  <2> QED
    BY <2>1, <2>2, <2>3
<1> QED
  BY <1>1, <1>2 DEF RefsOK, At

LEMMA UsedStep ==
  ASSUME TypeInv, UsedOnce, NEW t \in Threads, NEW l, NEW j, Goto(t, l, j),
         chain' = chain, risk["tokens"] \subseteq risk'["tokens"],
         \A i \in Ids \ risk'["tokens"] : JobSpends(l, j, "tokens", i) =>
           \/ Spends(t, "tokens", i)
           \/ ~Spent("tokens", i) /\ \A u \in Threads \ {t} : ~Spends(u, "tokens", i)
  PROVE  UsedOnce'
<1>1. /\ pc'[t] = l /\ job'[t] = j
      /\ \A u \in Threads \ {t} : pc'[u] = pc[u] /\ job'[u] = job[u]
  BY GotoThreads
<1>2. \A i : Spent("tokens", i)' <=> Spent("tokens", i)
  BY DEF Spent
<1>3. RotatedOnce'
  BY DEF UsedOnce, RotatedOnce
<1>4. /\ \A i : Spends(t, "tokens", i)' <=> JobSpends(l, j, "tokens", i)
      /\ \A u \in Threads \ {t}, i \in Ids : Spends(u, "tokens", i)' <=> Spends(u, "tokens", i)
  BY <1>1 DEF Spends
<1>5. \A u, v \in Threads, i \in Ids \ risk'["tokens"] :
        Spends(u, "tokens", i)' /\ Spends(v, "tokens", i)' => u = v
  BY <1>4 DEF UsedOnce
<1>6. \A u \in Threads, i \in Ids \ risk'["tokens"] : ~(Spends(u, "tokens", i)' /\ Spent("tokens", i)')
  BY <1>2, <1>4 DEF UsedOnce
<1> QED
  BY <1>3, <1>5, <1>6 DEF UsedOnce

-----------------------------------------------------------------------------
(* Steps that put nothing out of use and make nothing.                     *)

\* The ids and what is put out of use stay; at most the accounts change.
Quiet ==
  /\ UNCHANGED <<file, chain, revoked>>
  /\ \A k \in {"keys", "tokens"} :
       next'[k] = next[k] /\ store'[k] = store[k] /\ risk[k] \subseteq risk'[k]

\* What the other requests have changed is still to be saved.
OthersDirty(t) ==
  \A u \in Threads \ {t}, k \in {"keys", "tokens"} : dirty[u][k] \subseteq dirty'[u][k]

\* A request that begins, or one that ends without an answer to record.
Begins(l, j) ==
  /\ j.copy = NoAccounts
  /\ j.op # "refresh" /\ (j.op = "revoke" => l = "change" /\ j.ref < next["keys"])
  /\ l = "idle" => j = NoJob

LEMMA BeginsStep ==
  ASSUME TypeInv, OutOfUseInv, Quiet, NEW t \in Threads, OthersDirty(t),
         NEW l, NEW j, Goto(t, l, j), Begins(l, j)
  PROVE  OutOfUseInv'
<1>1. ASSUME NEW k \in {"keys", "tokens"}, NEW i PROVE ~JobSpends(l, j, k, i)
  BY DEF Begins, JobSpends
<1>2. ASSUME NEW k \in {"keys", "tokens"}, KindInv(k) PROVE KindInv(k)'
  BY <1>1, <1>2, KindKept DEF Begins, Quiet, OthersDirty
<1>3. KindInv("keys")' /\ KindInv("tokens")'
  BY <1>2 DEF OutOfUseInv
<1>4. next'["keys"] = next["keys"] /\ next["keys"] \in Nat
  BY NextIsNat DEF Quiet
<1>5. RefsOK'
  BY <1>4, RefsStep DEF Begins, OutOfUseInv
<1>6. chain' = chain /\ risk["tokens"] \subseteq risk'["tokens"]
  BY DEF Quiet
<1>7. UsedOnce'
  BY <1>1, <1>6, UsedStep DEF OutOfUseInv
<1> QED
  BY <1>3, <1>5, <1>7 DEF OutOfUseInv

\* A request goes on, with a copy of one list more, or with the same ones.
GoesOn(t, l, j) ==
  /\ j.op = job[t].op /\ j.ref = job[t].ref
  /\ l \notin {"idle", "change"} /\ (job[t].op = "revoke" => ~At(t, "change"))
  /\ \A k \in {"keys", "tokens"} :
       \/ j.copy[k] = job[t].copy[k] /\ (l \in Held(k) \/ pc[t] \notin Held(k))
       \/ j.copy[k] = store[k] /\ l \in Held(k)
  /\ \A k \in {"keys", "tokens"} : dirty[t][k] \subseteq dirty'[t][k]

LEMMA GoesOnStep ==
  ASSUME TypeInv, OutOfUseInv, Quiet, NEW t \in Threads, OthersDirty(t),
         NEW l, NEW j, Goto(t, l, j), GoesOn(t, l, j)
  PROVE  OutOfUseInv'
<1>1. ASSUME NEW k \in {"keys", "tokens"}, NEW i, JobSpends(l, j, k, i) PROVE Spends(t, k, i)
  BY <1>1 DEF GoesOn, Spends, JobSpends, At
<1>2. ASSUME NEW k \in {"keys", "tokens"}, KindInv(k) PROVE KindInv(k)'
  BY <1>1, <1>2, KindKept DEF GoesOn, Quiet, OthersDirty
<1>3. KindInv("keys")' /\ KindInv("tokens")'
  BY <1>2 DEF OutOfUseInv
<1>4. next'["keys"] = next["keys"] /\ next["keys"] \in Nat
  BY NextIsNat DEF Quiet
<1>5. j.op = "revoke" => j.ref < next'["keys"]
  BY <1>4 DEF GoesOn, OutOfUseInv, RefsOK
<1>6. RefsOK'
  BY <1>4, <1>5, RefsStep DEF GoesOn, OutOfUseInv
<1>7. chain' = chain /\ risk["tokens"] \subseteq risk'["tokens"]
  BY DEF Quiet
<1>8. UsedOnce'
  BY <1>1, <1>7, UsedStep DEF OutOfUseInv
<1> QED
  BY <1>3, <1>6, <1>8 DEF OutOfUseInv

LEMMA AnswerBegins == Begins("idle", NoJob)
BY DEF Begins, NoJob

\* What has been changed is recorded for the request, and for no other.
LEMMA ChangedDirty ==
  ASSUME TypeInv, NEW t \in Threads, NEW kind \in {"users", "keys", "tokens"}, NEW ids,
         Changed(t, kind, ids)
  PROVE  /\ OthersDirty(t)
         /\ \A k \in {"keys", "tokens"} : dirty[t][k] \subseteq dirty'[t][k]
         /\ dirty'[t][kind] = dirty[t][kind] \cup ids
         /\ \A k \in {"keys", "tokens"} : risk[k] \subseteq risk'[k]
         /\ CopyHeld(t, kind) => ids \subseteq risk'[kind]
BY DEF Changed, OthersDirty, TypeInv, TypeOK, Kinds

LEMMA NothingDirty ==
  ASSUME NEW t \in Threads, UNCHANGED <<dirty, risk>>
  PROVE  /\ OthersDirty(t)
         /\ \A k \in {"keys", "tokens"} : dirty[t][k] \subseteq dirty'[t][k]
         /\ \A k \in {"keys", "tokens"} : risk[k] \subseteq risk'[k]
BY DEF OthersDirty

LEMMA BeginAsOut ==
  ASSUME TypeInv, OutOfUseInv, NEW t \in Threads, NEW j \in Job, j.copy = NoAccounts,
         NEW op \in {"patch", "password", "onboard", "create", "revoke"}, BeginAs(t, op, j),
         op = "revoke" => j.ref < next["keys"]
  PROVE  OutOfUseInv'
<1> DEFINE k == [j EXCEPT !.op = op]
<1>1. Goto(t, "change", k) /\ Begins("change", k)
  BY DEF BeginAs, Begins, Job
<1>2. Quiet /\ OthersDirty(t)
  BY NothingDirty DEF BeginAs, history, Quiet
<1> HIDE DEF k
<1> QED
  BY <1>1, <1>2, BeginsStep

LEMMA ChangeUserOut ==
  ASSUME TypeInv, OutOfUseInv, NEW t \in Threads, At(t, "change"), job[t].op # "revoke",
         NEW users, store' = [store EXCEPT !.users = users], NEW ids, Changed(t, "users", ids),
         Goto(t, "users", job[t]),
         UNCHANGED <<up, file, next, sessions, requests, history>>
  PROVE  OutOfUseInv'
<1>1. store'.keys = store.keys /\ store'.tokens = store.tokens
  BY DEF TypeInv, TypeOK, Snapshot
<1>2. Quiet /\ OthersDirty(t)
  BY <1>1, ChangedDirty DEF history, Quiet
<1>3. GoesOn(t, "users", job[t])
  BY ChangedDirty DEF GoesOn, Held, At
<1> QED
  BY <1>2, <1>3, GoesOnStep

-----------------------------------------------------------------------------
(* Steps that make a key or a token, or put one out of use.                *)

\* A new key or token is none that has been put out of use.
LEMMA IssueOut ==
  ASSUME TypeInv, OutOfUseInv, NEW t \in Threads, NEW k \in {"keys", "tokens"}, next[k] \in Ids,
         pc[t] \in {"issue", "change"}, pc[t] = "change" => job[t].op # "revoke",
         store' = [store EXCEPT ![k][next[k]] = [owner |-> job[t].user, active |-> TRUE]],
         next' = [next EXCEPT ![k] = next[k] + 1],
         Changed(t, k, {next[k]}), Goto(t, "users", job[t]),
         UNCHANGED <<up, file, sessions, requests, history>>
  PROVE  OutOfUseInv'
<1> DEFINE o == IF k = "keys" THEN "tokens" ELSE "keys"
<1>1. o \in {"keys", "tokens"} /\ o # k /\ {"keys", "tokens"} = {k, o}
  OBVIOUS
<1>2. next[k] \in Nat /\ next[o] \in Nat /\ next'[k] = next[k] + 1 /\ next'[o] = next[o] /\ Ids \subseteq Nat
  BY <1>1, NextIsNat, IdsAreIds DEF TypeInv, TypeOK, Kinds
<1>3. /\ store'[o] = store[o]
      /\ \A i \in Ids : i # next[k] => store'[k][i] = store[k][i]
  BY <1>1 DEF TypeInv, TypeOK, Snapshot
<1>4. /\ OthersDirty(t)
      /\ \A x \in {"keys", "tokens"} : dirty[t][x] \subseteq dirty'[t][x] /\ risk[x] \subseteq risk'[x]
  BY ChangedDirty
<1>5. UNCHANGED <<file, chain, revoked>>
  BY DEF history
<1>6. ASSUME NEW x, NEW i, JobSpends("users", job[t], x, i) PROVE Spends(t, x, i)
  BY <1>6 DEF JobSpends, Spends
<1>7. "users" \notin Held(k) /\ pc[t] \notin Held(k) /\ "users" \notin Held(o) /\ pc[t] \notin Held(o)
  BY DEF Held
<1>8. KindInv(o)'
  BY <1>1, <1>2, <1>3, <1>4, <1>5, <1>6, <1>7, KindKept DEF OutOfUseInv, OthersDirty
<1>9. KindInv(k)'
  <2>1. \A i \in Ids : next'[k] <= i => store'[k][i] = store[k][i]
    BY <1>2, <1>3
  <2>2. \A i \in Ids : i < next[k] /\ Out(store[k], i) => Out(store'[k], i)
    BY <1>2, <1>3 DEF Out
  <2>3. \A i \in Ids : JobSpends("users", job[t], k, i) => i \in dirty'[t][k] /\ Spends(t, k, i)
    BY <1>4, <1>6 DEF OutOfUseInv, KindInv, DirtyOK
  <2>4. KindInv(k) /\ next[k] <= next'[k] /\ next'[k] \in Nat
    BY <1>2 DEF OutOfUseInv
  <2> QED
    BY <1>4, <1>5, <1>7, <2>1, <2>2, <2>3, <2>4, KindStep DEF OthersDirty
<1>10. RefsOK'
  <2>1. next["keys"] <= next'["keys"] /\ next'["keys"] \in Nat
    BY <1>1, <1>2
  <2>2. next["keys"] \in Nat /\ job[t].ref \in Nat
    <3>1. job[t].ref \in Ids \cup {0}
      BY DEF TypeInv, TypeOK, Job
    <3> QED
      BY <3>1, NextIsNat, IdsAreIds
  <2>3. job[t].op = "revoke" => job[t].ref < next'["keys"]
    BY <2>1, <2>2 DEF OutOfUseInv, RefsOK
  <2> QED
    BY <2>1, <2>3, RefsStep DEF OutOfUseInv
<1>11. UsedOnce'
  BY <1>4, <1>5, <1>6, UsedStep DEF OutOfUseInv
<1> QED
  BY <1>8, <1>9, <1>10, <1>11 DEF OutOfUseInv

\* mark_revoked: a copy that has the key active is held, and puts it at risk.
LEMMA MarkRevokedOut ==
  ASSUME TypeInv, OutOfUseInv, NEW t \in Threads, MarkRevoked(t)
  PROVE  OutOfUseInv'
<1> DEFINE r == job[t].ref
<1>1. pc[t] = "change" /\ job[t].op = "revoke" /\ r \in Ids /\ r < next["keys"]
  BY DEF MarkRevoked, At, TypeInv, ThreadsOK, JobFilled, OutOfUseInv, RefsOK
<1>2. Goto(t, "users", job[t]) /\ UNCHANGED <<file, chain, revoked, next>>
  BY DEF MarkRevoked, history
<1>3. /\ store'.tokens = store.tokens
      /\ Out(store'.keys, r)
      /\ \A i \in Ids \ {r} : store'.keys[i] = store.keys[i]
      /\ store'.keys[r].owner = store.keys[r].owner
  <2>1. store.keys \in [Ids -> Owned] /\ store.keys[r] \in Owned
    BY <1>1 DEF TypeInv, TypeOK, Snapshot
  <2>2. store' = [store EXCEPT !.keys[r].active = FALSE]
    BY DEF MarkRevoked
  <2> QED
    BY <1>1, <2>1, <2>2 DEF TypeInv, TypeOK, Snapshot, Owned, Out
<1>4. /\ OthersDirty(t)
      /\ \A x \in {"keys", "tokens"} : dirty[t][x] \subseteq dirty'[t][x] /\ risk[x] \subseteq risk'[x]
      /\ r \in dirty'[t]["keys"]
      /\ CopyHeld(t, "keys") => r \in risk'["keys"]
  BY ChangedDirty DEF MarkRevoked
<1>5. next["keys"] \in Nat /\ next["tokens"] \in Nat /\ Ids \subseteq Nat
  BY NextIsNat, IdsAreIds
<1>6. KindInv("tokens")'
  <2>1. \A i \in Ids : ~JobSpends("users", job[t], "tokens", i)
    BY <1>1 DEF JobSpends
  <2>2. pc[t] \notin Held("tokens")
    BY <1>1 DEF Held
  <2> QED
    BY <1>2, <1>3, <1>4, <2>1, <2>2, KindKept DEF OutOfUseInv, OthersDirty
<1>7. KindInv("keys")'
  <2>1. job[t].copy["keys"] = NoAccounts["keys"]
    BY <1>1 DEF OutOfUseInv, KindInv, CopiesOK, Held
  <2>2. ASSUME NEW i \in Ids, next["keys"] <= i PROVE store'["keys"][i] = store["keys"][i]
    <3>1. i \in Nat /\ r \in Nat /\ next["keys"] \in Nat /\ r < next["keys"]
      BY <1>1, <1>5
    <3>2. i # r
      BY <2>2, <3>1
    <3> QED
      BY <1>3, <3>2
  <2>3. \A i \in Ids : i < next["keys"] /\ Out(store["keys"], i) => Out(store'["keys"], i)
    BY <1>3 DEF Out
  <2>4. r \in risk'["keys"] \/ \A u \in Threads \ {t} : Out(job[u].copy["keys"], r)
    <3> SUFFICES ASSUME ~CopyHeld(t, "keys"), NEW u \in Threads \ {t}
                 PROVE  Out(job[u].copy["keys"], r)
      BY <1>4
    <3>1. pc[u] \notin Held("keys")
      BY DEF CopyHeld, Held
    <3> QED
      BY <1>1, <3>1, NothingAtAll DEF OutOfUseInv, KindInv, CopiesOK
  <2>5. Out(job[t].copy["keys"], r)
    BY <1>1, <2>1, NothingAtAll
  <2>6. ASSUME NEW i \in Ids, JobSpends("users", job[t], "keys", i) PROVE i = r
    BY <2>6 DEF JobSpends
  <2>7. \A i \in Ids : JobSpends("users", job[t], "keys", i) =>
          /\ i \in dirty'[t]["keys"]
          /\ \/ i \in risk'["keys"]
             \/ /\ i < next["keys"] /\ Out(store'["keys"], i) /\ Out(job[t].copy["keys"], i)
                /\ \A u \in Threads \ {t} : Out(job[u].copy["keys"], i)
    BY <1>1, <1>3, <1>4, <2>4, <2>5, <2>6
  <2>8. next'["keys"] = next["keys"] /\ next'["keys"] \in Nat /\ next["keys"] <= next'["keys"]
    BY <1>2, <1>5
  <2>9. KindInv("keys")
    BY DEF OutOfUseInv
  <2> QED
    BY <1>2, <1>4, <2>1, <2>2, <2>3, <2>7, <2>8, <2>9, KindStep DEF OthersDirty
<1>8. RefsOK'
  BY <1>1, <1>2, <1>5, RefsStep DEF OutOfUseInv
<1>9. UsedOnce'
  <2>1. \A i \in Ids : ~JobSpends("users", job[t], "tokens", i)
    BY <1>1 DEF JobSpends
  <2> QED
    BY <1>2, <1>4, <2>1, UsedStep DEF OutOfUseInv
<1> QED
  BY <1>6, <1>7, <1>8, <1>9 DEF OutOfUseInv

\* rotate_refresh_token: of two requests with one token, the second finds it
\* out of use.
LEMMA RotateOut ==
  ASSUME TypeInv, OutOfUseInv, up, NEW t \in Threads, NEW old \in Ids, Rotate(t, old),
         UNCHANGED <<file, chain, revoked>>
  PROVE  OutOfUseInv'
<1> DEFINE new == next["tokens"]
           j == [NoJob EXCEPT !.op = "refresh", !.user = store.tokens[old].owner, !.ref = old, !.new = new]
<1>1. Goto(t, "find", j) /\ j.op = "refresh" /\ j.ref = old /\ j.copy = NoAccounts /\ new \in Ids
  BY NoJobType, NoJobCopy DEF Rotate, Job
<1> HIDE DEF j
<1>2. next["keys"] \in Nat /\ new \in Nat /\ Ids \subseteq Nat /\ old \in Nat
  BY NextIsNat, IdsAreIds
<1>3. next'["keys"] = next["keys"] /\ next'["tokens"] = new + 1
  BY DEF Rotate, TypeInv, TypeOK, Kinds
<1>4. old < new
  <2>1. store["tokens"][old].owner # 0
    BY DEF Rotate, Presented
  <2> QED
    BY <1>2, <2>1 DEF OutOfUseInv, KindInv, FreshOK
<1>5. /\ store'["keys"] = store["keys"]
      /\ Out(store'["tokens"], old)
      /\ \A i \in Ids \ {old, new} : store'["tokens"][i] = store["tokens"][i]
  <2>1. old # new
    BY <1>2, <1>4
  <2>2. TypeOK
    BY DEF TypeInv
  <2>3. store'.tokens[old].active = FALSE
    BY <2>1, <2>2, RotateTokens
  <2> QED
    BY <2>2, <2>3, RotateTokens DEF Out
<1>6. /\ OthersDirty(t)
      /\ \A x \in {"keys", "tokens"} : dirty[t][x] \subseteq dirty'[t][x] /\ risk[x] \subseteq risk'[x]
      /\ old \in dirty'[t]["tokens"]
      /\ CopyHeld(t, "tokens") => old \in risk'["tokens"]
  <2>1. Changed(t, "tokens", {old, new})
    BY DEF Rotate
  <2> QED
    BY <2>1, ChangedDirty
<1>7. /\ j.copy["keys"] = NoAccounts["keys"] /\ j.copy["tokens"] = NoAccounts["tokens"]
      /\ \A i : ~JobSpends("find", j, "keys", i)
      /\ \A i : JobSpends("find", j, "tokens", i) => i = old
  BY <1>1 DEF JobSpends
<1>8. KindInv("keys")'
  BY <1>1, <1>3, <1>5, <1>6, <1>7, KindKept DEF OutOfUseInv, OthersDirty
<1>9. KindInv("tokens")'
  <2>1. ASSUME NEW i \in Ids, new + 1 <= i PROVE store'["tokens"][i] = store["tokens"][i]
    <3>1. i # new /\ i # old
      BY <1>2, <1>4, <2>1
    <3> QED
      BY <1>5, <3>1
  <2>2. ASSUME NEW i \in Ids, i < new, Out(store["tokens"], i) PROVE Out(store'["tokens"], i)
    <3>1. i # new
      BY <1>2, <2>2
    <3> QED
      BY <1>5, <2>2, <3>1 DEF Out
  <2>3. old \in risk'["tokens"] \/ \A u \in Threads \ {t} : Out(job[u].copy["tokens"], old)
    <3> SUFFICES ASSUME ~CopyHeld(t, "tokens"), NEW u \in Threads \ {t}
                 PROVE  Out(job[u].copy["tokens"], old)
      BY <1>6
    <3>1. pc[u] \notin Held("tokens")
      BY DEF CopyHeld, Held
    <3> QED
      BY <3>1, NothingAtAll DEF OutOfUseInv, KindInv, CopiesOK
  <2>4. Out(j.copy["tokens"], old)
    BY <1>7, NothingAtAll
  <2>5. \A i \in Ids : JobSpends("find", j, "tokens", i) =>
          /\ i \in dirty'[t]["tokens"]
          /\ \/ i \in risk'["tokens"]
             \/ /\ i < new /\ Out(store'["tokens"], i) /\ Out(j.copy["tokens"], i)
                /\ \A u \in Threads \ {t} : Out(job[u].copy["tokens"], i)
    BY <1>4, <1>5, <1>6, <1>7, <2>3, <2>4
  <2>6. next'["tokens"] \in Nat /\ new <= next'["tokens"]
    BY <1>2, <1>3
  <2>7. KindInv("tokens")
    BY DEF OutOfUseInv
  <2>8. \A i \in Ids : next'["tokens"] <= i => store'["tokens"][i] = store["tokens"][i]
    BY <1>3, <2>1
  <2> QED
    BY <1>1, <1>6, <1>7, <2>2, <2>5, <2>6, <2>7, <2>8, KindStep DEF OthersDirty
<1>10. RefsOK'
  BY <1>1, <1>2, <1>3, RefsStep DEF OutOfUseInv
<1>11. UsedOnce'
  <2>1. ~Out(store["tokens"], old)
    BY DEF Rotate, Presented, Out
  <2>2. \/ old \in risk["tokens"]
        \/ (~Spent("tokens", old) /\ \A u \in Threads : ~Spends(u, "tokens", old))
    BY <2>1 DEF OutOfUseInv, KindInv, SpentOK
  <2>3. risk["tokens"] \subseteq risk'["tokens"]
    BY <1>6
  <2>4. \A i \in Ids \ risk'["tokens"] : JobSpends("find", j, "tokens", i) =>
          ~Spent("tokens", i) /\ \A u \in Threads \ {t} : ~Spends(u, "tokens", i)
    BY <1>7, <2>2, <2>3
  <2> QED
    BY <1>1, <2>3, <2>4, UsedStep DEF OutOfUseInv
<1> QED
  BY <1>8, <1>9, <1>10, <1>11 DEF OutOfUseInv

-----------------------------------------------------------------------------
(* The answer, and the restart.                                            *)

\* The request has written its copies, or what it changed is at risk.
LEMMA AnsweredOut ==
  ASSUME TypeInv, OutOfUseInv, NEW t \in Threads, At(t, "write"), Answered(t),
         \A k \in {"keys", "tokens"} :
           /\ risk[k] \subseteq risk'[k]
           /\ (file'[k] = job[t].copy[k] \/ (file'[k] = file[k] /\ dirty[t][k] \subseteq risk'[k]))
  PROVE  OutOfUseInv'
<1>1. /\ pc'[t] = "idle" /\ job'[t] = NoJob
      /\ \A u \in Threads \ {t} : pc'[u] = pc[u] /\ job'[u] = job[u] /\ dirty'[u] = dirty[u]
      /\ store' = store /\ next' = next
  BY GotoThreads DEF Answered, Answer, TypeInv, TypeOK
<1>2. ASSUME NEW k \in {"keys", "tokens"}, NEW i
      PROVE  /\ ~Spends(t, k, i)'
             /\ \A u \in Threads \ {t} : Spends(u, k, i)' <=> Spends(u, k, i)
             /\ Spent(k, i)' => Spent(k, i) \/ Spends(t, k, i)
  <2>1. Spent(k, i)' => Spent(k, i) \/ Spends(t, k, i)
    BY DEF Spent, Spends, JobSpends, Answered, At
  <2> QED
    BY <1>1, <2>1, NothingAtAll DEF Spends
<1>3. ASSUME NEW k \in {"keys", "tokens"}, KindInv(k) PROVE KindInv(k)'
  <2>1. FreshOK(k)'
    BY <1>1, <1>3, NothingAtAll DEF KindInv, FreshOK
  <2>2. CopiesOK(k)'
    BY <1>1, <1>3, NothingAtAll DEF KindInv, CopiesOK
  <2>3. DirtyOK(k)'
    BY <1>1, <1>2, <1>3 DEF KindInv, DirtyOK
  <2>4. ASSUME NEW i \in Ids \ risk'[k]
        PROVE  /\ Spent(k, i)' => Out(file'[k], i)
               /\ Spent(k, i)' \/ (\E u \in Threads : Spends(u, k, i)') =>
                    /\ i < next'[k]
                    /\ Out(store'[k], i)
                    /\ \A u \in Threads : Out(job'[u].copy[k], i)
    <3>1. i \in Ids \ risk[k]
      OBVIOUS
    <3>2. Spent(k, i)' \/ (\E u \in Threads : Spends(u, k, i)') =>
            Spent(k, i) \/ \E u \in Threads : Spends(u, k, i)
      BY <1>2
    <3>3. Spent(k, i)' \/ (\E u \in Threads : Spends(u, k, i)') =>
            /\ i < next[k] /\ Out(store[k], i)
            /\ \A u \in Threads : Out(job[u].copy[k], i)
      BY <1>3, <3>1, <3>2 DEF KindInv, SpentOK
    <3>4. Spent(k, i)' => Out(file'[k], i)
      <4>1. CASE file'[k] = job[t].copy[k]
        BY <3>3, <4>1 DEF Out
      <4>2. CASE file'[k] = file[k] /\ dirty[t][k] \subseteq risk'[k]
        <5>1. ~Spends(t, k, i)
          BY <1>3, <4>2 DEF KindInv, DirtyOK
        <5> QED
          BY <1>2, <1>3, <3>1, <4>2, <5>1 DEF KindInv, SpentOK, Out
      <4> QED
        BY <4>1, <4>2
    <3>5. Out(NoJob.copy[k], i)
      BY NothingAtAll
    <3> QED
      BY <1>1, <3>3, <3>4, <3>5 DEF Out
  <2>5. SpentOK(k)'
    BY <2>4 DEF SpentOK, Out
  <2> QED
    BY <2>1, <2>2, <2>3, <2>5 DEF KindInv
<1>4. RefsOK'
  BY <1>1 DEF OutOfUseInv, RefsOK, At, NoJob
<1>5. UsedOnce'
  <2>1. UsedOnce
    BY DEF OutOfUseInv
  <2>2. ASSUME NEW u \in Threads, NEW i \in Ids \ risk'["tokens"]
        PROVE  ~(Spends(u, "tokens", i)' /\ Spent("tokens", i)')
    BY <1>2, <2>1 DEF UsedOnce
  <2>3. \A u, v \in Threads, i \in Ids \ risk'["tokens"] :
          Spends(u, "tokens", i)' /\ Spends(v, "tokens", i)' => u = v
    BY <1>2, <2>1 DEF UsedOnce
  <2>4. ASSUME NEW a \in chain', NEW b \in chain', a[1] = b[1], a # b
        PROVE  a[1] \in risk'["tokens"]
    <3>1. a[1] \in Ids
      <4>1. chain' \subseteq Ids \X Ids
        <5>1. JobFilled("write", job[t])
          BY DEF TypeInv, ThreadsOK, At
        <5> QED
          BY <5>1 DEF Answered, TypeInv, TypeOK, JobFilled
      <4> QED
        BY <4>1
    <3>2. CASE a \in chain /\ b \in chain
      BY <2>1, <2>4, <3>2 DEF UsedOnce, RotatedOnce
    <3>3. CASE ~(a \in chain /\ b \in chain)
      <4>1. job[t].op = "refresh" /\ a[1] = job[t].ref /\ (a \in chain \/ b \in chain)
        BY <2>4, <3>3 DEF Answered
      <4>2. Spends(t, "tokens", a[1]) /\ Spent("tokens", a[1])
        BY <2>4, <4>1 DEF Spends, JobSpends, Spent
      <4> QED
        BY <2>1, <3>1, <4>2 DEF UsedOnce
    <3> QED
      BY <3>2, <3>3
  <2> QED
    BY <2>2, <2>3, <2>4 DEF UsedOnce, RotatedOnce
<1> QED
  BY <1>3, <1>4, <1>5 DEF OutOfUseInv

\* A start or a stop: the store holds nothing or what the file holds.
LEMMA RestartOut ==
  ASSUME TypeInv, OutOfUseInv,
         \A t \in Threads : pc'[t] = "idle" /\ job'[t] = NoJob,
         store' = file \/ store' = NoAccounts,
         UNCHANGED <<file, next, chain, revoked, risk>>
  PROVE  OutOfUseInv'
<1>1. ASSUME NEW k \in {"keys", "tokens"}, NEW i, NEW t \in Threads PROVE ~Spends(t, k, i)'
  BY NothingAtAll DEF Spends
<1>2. ASSUME NEW k \in {"keys", "tokens"}, KindInv(k) PROVE KindInv(k)'
  <2>1. FreshOK(k)'
    BY <1>2, NothingAtAll DEF KindInv, FreshOK
  <2>2. CopiesOK(k)'
    BY NothingAtAll DEF CopiesOK
  <2>3. DirtyOK(k)'
    BY <1>1 DEF DirtyOK
  <2>4. ASSUME NEW i \in Ids \ risk[k], Spent(k, i)
        PROVE  i < next[k] /\ Out(file[k], i) /\ Out(store'[k], i)
               /\ \A t \in Threads : Out(job'[t].copy[k], i)
    <3>1. i < next[k] /\ Out(file[k], i)
      BY <1>2, <2>4 DEF KindInv, SpentOK
    <3>2. Out(NoAccounts[k], i) /\ Out(NoJob.copy[k], i)
      BY NothingAtAll
    <3> QED
      BY <3>1, <3>2 DEF Out
  <2>5. \A i : Spent(k, i)' <=> Spent(k, i)
    BY DEF Spent
  <2>6. SpentOK(k)'
    BY <1>1, <2>4, <2>5 DEF SpentOK, Out
  <2> QED
    BY <2>1, <2>2, <2>3, <2>6 DEF KindInv
<1>3. RefsOK'
  BY DEF RefsOK, At, NoJob
<1>4. UsedOnce'
  BY <1>1 DEF OutOfUseInv, UsedOnce, RotatedOnce
<1> QED
  BY <1>2, <1>3, <1>4 DEF OutOfUseInv

-----------------------------------------------------------------------------

LEMMA InitOut == Init => OutOfUseInv
<1> SUFFICES ASSUME Init PROVE OutOfUseInv
  OBVIOUS
<1>1. \A t \in Threads : pc[t] = "idle" /\ job[t] = NoJob
  BY DEF Init
<1>2. store = file /\ chain = {} /\ revoked = {}
  BY DEF Init
<1>3. ASSUME NEW k \in {"keys", "tokens"}
      PROVE  /\ \A i : ~Spent(k, i)
             /\ \A t \in Threads : \A i : ~Spends(t, k, i)
  BY <1>1, <1>2, NothingAtAll DEF Spent, Spends
<1>4. ASSUME NEW k \in {"keys", "tokens"} PROVE FreshOK(k)
  <2>1. \A i \in Ids : next[k] <= i => file[k][i].owner = 0
    <3>1. CASE file = NoAccounts
      BY <3>1, NothingAtAll
    <3>2. CASE (\E u : file = Saved(u)) /\ next = [x \in Kinds |-> 2]
      <4>1. \A i \in Ids : 2 <= i => i # 1
        BY IdsAreIds
      <4> QED
        BY <3>2, <4>1 DEF Saved, Absent, Kinds
    <3> QED
      BY <3>1, <3>2 DEF Init
  <2>2. \A t \in Threads, i \in Ids : job[t].copy[k][i].owner = 0
    BY <1>1, NothingAtAll
  <2> QED
    BY <1>2, <2>1, <2>2 DEF FreshOK
<1>5. ASSUME NEW k \in {"keys", "tokens"} PROVE KindInv(k)
  BY <1>1, <1>3, <1>4, NothingAtAll DEF KindInv, CopiesOK, DirtyOK, SpentOK
<1>6. RefsOK
  BY <1>1, NoJobCopy DEF RefsOK
<1>7. UsedOnce
  BY <1>2, <1>3 DEF UsedOnce, RotatedOnce
<1> QED
  BY <1>5, <1>6, <1>7 DEF OutOfUseInv

LEMMA OpenRequestOut ==
  ASSUME TypeInv, OutOfUseInv, NEW t \in Threads, OpenRequest(t)
  PROVE  OutOfUseInv'
<1>1. CASE Register(t)
  <2>1. Quiet /\ OthersDirty(t)
    BY <1>1, NothingDirty DEF Register, Quiet
  <2>2. \A e \in Emails, p \in Passwords :
          Begins("insert", [NoJob EXCEPT !.op = "register", !.email = e, !.password = p])
    BY DEF Begins, NoJob
  <2> QED
    BY <1>1, <2>1, <2>2, AnswerBegins, BeginsStep DEF Register, Answer
<1>2. CASE InsertUser(t)
  <2>1. store'.keys = store.keys /\ store'.tokens = store.tokens
    BY <1>2 DEF InsertUser, TypeInv, TypeOK, Snapshot
  <2>2. next'["keys"] = next["keys"] /\ next'["tokens"] = next["tokens"]
    BY <1>2 DEF InsertUser, TypeInv, TypeOK, Kinds
  <2>3. Changed(t, "users", {next["users"]}) /\ UNCHANGED <<file, chain, revoked>>
    BY <1>2 DEF InsertUser, history
  <2>4. Quiet /\ OthersDirty(t)
    BY <2>1, <2>2, <2>3, ChangedDirty DEF Quiet
  <2>5. Begins("issue", [NoJob EXCEPT !.op = "register", !.user = next["users"]])
    BY DEF Begins, NoJob
  <2> QED
    BY <1>2, <2>4, <2>5, BeginsStep DEF InsertUser
<1>3. CASE Login(t)
  <2>1. Quiet /\ OthersDirty(t)
    BY <1>3, NothingDirty DEF Login, Quiet, history
  <2>2. \A u : Begins("issue", [NoJob EXCEPT !.op = "login", !.user = u])
    BY DEF Begins, NoJob
  <2> QED
    BY <1>3, <2>1, <2>2, AnswerBegins, BeginsStep DEF Login, Answer
<1>4. CASE IssueToken(t)
  <2>1. pc[t] = "issue"
    BY <1>4 DEF IssueToken, At
  <2> QED
    BY <1>4, <2>1, IssueOut DEF IssueToken
<1>5. CASE Refresh(t)
  <2>1. up /\ UNCHANGED <<file, chain, revoked>>
    BY <1>5, RefreshCases DEF Begin, history
  <2>2. CASE Answer(t) /\ UNCHANGED <<store, next, dirty, risk>>
    <3>1. Quiet /\ OthersDirty(t)
      BY <2>1, <2>2, NothingDirty DEF Quiet
    <3> QED
      BY <2>2, <3>1, AnswerBegins, BeginsStep DEF Answer
  <2> QED
    BY <1>5, <2>1, <2>2, RefreshCases, RotateOut
<1>6. CASE RefreshUser(t)
  <2>1. UNCHANGED <<store, next, file, chain, revoked>>
    BY <1>6 DEF RefreshUser, history
  <2>2. OthersDirty(t) /\ Quiet
    BY <1>6, <2>1 DEF RefreshUser, OthersDirty, Quiet, TypeInv, TypeOK, Kinds
  <2>3. CASE Answer(t)
    BY <2>2, <2>3, AnswerBegins, BeginsStep DEF Answer
  <2>4. CASE Goto(t, "users", job[t]) /\ UNCHANGED <<dirty, risk>>
    <3>1. GoesOn(t, "users", job[t])
      BY <1>6, <2>4 DEF RefreshUser, GoesOn, Held, At
    <3> QED
      BY <2>2, <2>4, <3>1, GoesOnStep
  <2> QED
    BY <1>6, <2>3, <2>4 DEF RefreshUser
<1> QED
  BY <1>1, <1>2, <1>3, <1>4, <1>5, <1>6 DEF OpenRequest

LEMMA UserRequestOut ==
  ASSUME TypeInv, OutOfUseInv, NEW t \in Threads, UserRequest(t)
  PROVE  OutOfUseInv'
<1>0. \A u : As(u).copy = NoAccounts
  BY NoJobCopy DEF As, NoJob
<1>1. CASE MePatch(t)
  <2>1. PICK u \in Ids, e \in Emails : BeginAs(t, "patch", [As(u) EXCEPT !.email = e])
    BY <1>1 DEF MePatch
  <2> DEFINE j == [As(u) EXCEPT !.email = e]
  <2>2. j \in Job /\ j.copy = NoAccounts
    BY <1>0, AsType DEF As, NoJob
  <2> HIDE DEF j
  <2> QED
    BY <2>1, <2>2, BeginAsOut DEF j
<1>2. CASE ChangePassword(t)
  <2>1. PICK u \in Ids, p \in Passwords : BeginAs(t, "password", [As(u) EXCEPT !.password = p])
    BY <1>2 DEF ChangePassword
  <2> DEFINE j == [As(u) EXCEPT !.password = p]
  <2>2. j \in Job /\ j.copy = NoAccounts /\ BeginAs(t, "password", j)
    BY <1>0, <2>1, AsType DEF As, NoJob
  <2> HIDE DEF j
  <2> QED
    BY <2>2, BeginAsOut
<1>3. CASE OnboardingComplete(t)
  BY <1>0, <1>3, AsType, BeginAsOut DEF OnboardingComplete
<1>4. CASE CreateApiKey(t)
  BY <1>0, <1>4, AsType, BeginAsOut DEF CreateApiKey
<1>5. CASE RevokeApiKey(t)
  <2>1. PICK u \in Ids, i \in Ids :
          store.keys[i].owner = u /\ BeginAs(t, "revoke", [As(u) EXCEPT !.ref = i])
    BY <1>5 DEF RevokeApiKey
  <2> DEFINE j == [As(u) EXCEPT !.ref = i]
  <2>2. j \in Job /\ j.copy = NoAccounts /\ j.ref = i /\ BeginAs(t, "revoke", j)
    BY <1>0, <2>1, AsType DEF As, NoJob
  <2>3. i < next["keys"]
    <3>1. store["keys"][i].owner # 0 /\ next["keys"] \in Nat /\ i \in Nat
      BY <2>1, IdsAreIds, NextIsNat
    <3> QED
      BY <3>1 DEF OutOfUseInv, KindInv, FreshOK
  <2> HIDE DEF j
  <2> QED
    BY <2>2, <2>3, BeginAsOut
<1>6. CASE UpdateProfile(t)
  BY <1>6, ChangeUserOut DEF UpdateProfile, ChangeUser
<1>7. CASE UpdatePasswordHash(t)
  BY <1>7, ChangeUserOut DEF UpdatePasswordHash, ChangeUser
<1>8. CASE MarkOnboardingComplete(t)
  BY <1>8, ChangeUserOut DEF MarkOnboardingComplete, ChangeUser
<1>9. CASE InsertApiKey(t)
  BY <1>9, IssueOut DEF InsertApiKey, At
<1> QED
  BY <1>1, <1>2, <1>3, <1>4, <1>5, <1>6, <1>7, <1>8, <1>9, MarkRevokedOut DEF UserRequest

LEMMA SaveOut ==
  ASSUME TypeInv, OutOfUseInv, NEW t \in Threads, Save(t)
  PROVE  OutOfUseInv'
<1>1. CASE Copy(t)
  <2> DEFINE l == SaveOrder[pc[t]]
             j == [job[t] EXCEPT !.copy[pc[t]] = store[pc[t]]]
  <2>1. pc[t] \in {"users", "keys", "tokens"} /\ Goto(t, l, j)
    BY <1>1 DEF Copy, Kinds
  <2>2. job[t] \in Job /\ job[t].copy \in Snapshot
    BY DEF TypeInv, TypeOK, Job
  <2>3. /\ j.op = job[t].op /\ j.ref = job[t].ref
        /\ \A k \in {"keys", "tokens"} :
             j.copy[k] = IF k = pc[t] THEN store[k] ELSE job[t].copy[k]
    BY <2>1, <2>2 DEF Job, Snapshot
  <2>4. /\ l \notin {"idle", "change"} /\ pc[t] # "change"
        /\ \A k \in {"keys", "tokens"} :
             IF k = pc[t] THEN l \in Held(k) ELSE l \in Held(k) \/ pc[t] \notin Held(k)
    BY <2>1 DEF SaveOrder, Held
  <2> HIDE DEF l, j
  <2>5. UNCHANGED <<store, file, next, chain, revoked, dirty, risk>>
    BY <1>1 DEF Copy, history
  <2>6. Quiet /\ OthersDirty(t) /\ \A k \in {"keys", "tokens"} : dirty[t][k] \subseteq dirty'[t][k]
    BY <2>5, NothingDirty DEF Quiet
  <2>7. GoesOn(t, l, j)
    BY <2>3, <2>4, <2>6 DEF GoesOn, At
  <2> QED
    BY <2>1, <2>6, <2>7, GoesOnStep
<1>2. CASE Write(t)
  <2>1. At(t, "write") /\ Answered(t) /\ file' = job[t].copy /\ risk' = risk
    BY <1>2 DEF Write
  <2>2. \A k \in {"keys", "tokens"} : file'[k] = job[t].copy[k] /\ risk[k] \subseteq risk'[k]
    BY <2>1
  <2>3. \A k \in {"keys", "tokens"} :
          /\ risk[k] \subseteq risk'[k]
          /\ (file'[k] = job[t].copy[k] \/ (file'[k] = file[k] /\ dirty[t][k] \subseteq risk'[k]))
    BY <2>2
  <2> QED
    BY <2>1, <2>3, AnsweredOut
<1>3. CASE WriteFails(t)
  <2>1. \A k \in {"keys", "tokens"} : risk'[k] = risk[k] \cup dirty[t][k]
    BY <1>3 DEF WriteFails, Kinds
  <2> QED
    BY <1>3, <2>1, AnsweredOut DEF WriteFails
<1> QED
  BY <1>1, <1>2, <1>3 DEF Save

LEMMA NextOut == TypeInv /\ RegistrationInv /\ OutOfUseInv /\ [Next]_vars => OutOfUseInv'
<1> SUFFICES ASSUME TypeInv, RegistrationInv, OutOfUseInv, [Next]_vars PROVE OutOfUseInv'
  OBVIOUS
<1>1. CASE Crash
  BY <1>1, RestartOut DEF Crash, history
<1>2. CASE Start
  <2>1. \A t \in Threads : pc[t] = "idle" /\ job[t] = NoJob
    BY <1>2 DEF Start, RegistrationInv, OutOfUseInv, RefsOK, At
  <2> QED
    BY <1>2, <2>1, RestartOut DEF Start, history
<1>3. CASE (\E u \in sessions : Expire(u)) \/ UNCHANGED vars
  <2>1. UNCHANGED <<store, file, next, pc, job, chain, revoked, dirty, risk>>
    BY <1>3 DEF Expire, vars, history
  <2>2. KindInv("keys")' /\ KindInv("tokens")'
    BY <2>1 DEF OutOfUseInv, KindInv, FreshOK, CopiesOK, DirtyOK, SpentOK, Spends, Spent, Out
  <2>3. RefsOK' /\ UsedOnce'
    BY <2>1 DEF OutOfUseInv, RefsOK, At, UsedOnce, RotatedOnce, Spends, Spent
  <2> QED
    BY <2>2, <2>3 DEF OutOfUseInv
<1> QED
  BY <1>1, <1>2, <1>3, OpenRequestOut, UserRequestOut, SaveOut DEF Next

LEMMA AlwaysOut == Spec => [](TypeInv /\ OutOfUseInv)
BY InitType, NextType, InitRegistration, NextRegistration, InitOut, NextOut, PTL DEF Spec

\* However many clients present a refresh token, and however often the
\* server is killed, one of them gets another for it, unless the file has
\* missed it (rotate_refresh_token and save).
THEOREM RotationIsOnce == Spec => []RotatedOnce
<1>1. TypeInv /\ OutOfUseInv => RotatedOnce
  BY DEF OutOfUseInv, UsedOnce
<1> QED
  BY <1>1, AlwaysOut, PTL

\* What an answered request has put out of use stays so, also over restarts,
\* unless the file has missed it (mark_revoked, rotate_refresh_token, save).
THEOREM OutOfUseForGood == Spec => []NothingComesBack
<1>1. TypeInv /\ OutOfUseInv => NothingComesBack
  <2> SUFFICES ASSUME TypeInv, OutOfUseInv PROVE NothingComesBack
    OBVIOUS
  <2>1. ASSUME NEW i \in revoked \ risk["keys"] PROVE ~store.keys[i].active
    <3>1. i \in Ids \ risk["keys"] /\ Spent("keys", i)
      BY DEF TypeInv, TypeOK, Spent
    <3>2. Out(store["keys"], i)
      BY <3>1 DEF OutOfUseInv, KindInv, SpentOK
    <3> QED
      BY <3>2 DEF Out
  <2>2. ASSUME NEW c \in chain, c[1] \notin risk["tokens"] PROVE ~store.tokens[c[1]].active
    <3>1. c[1] \in Ids \ risk["tokens"] /\ Spent("tokens", c[1])
      BY <2>2 DEF TypeInv, TypeOK, Spent
    <3>2. Out(store["tokens"], c[1])
      BY <3>1 DEF OutOfUseInv, KindInv, SpentOK
    <3> QED
      BY <3>2 DEF Out
  <2> QED
    BY <2>1, <2>2 DEF NothingComesBack
<1> QED
  BY <1>1, AlwaysOut, PTL
=============================================================================
