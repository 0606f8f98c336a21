------------------------------ MODULE Accounts ------------------------------
(***************************************************************************)
(* The accounts of the HTTP server: users, API keys and refresh tokens in  *)
(* an AuthStore, three lists with a lock each, and the file that each      *)
(* request which changed one of them saves all three to.                   *)
(*                                                                         *)
(* A request runs on a thread of its own.  One step is what happens under  *)
(* one lock: a handler looks something up, releases the lock, and takes    *)
(* another one to change the store.  Only a request that saves holds more  *)
(* than one: it takes the three one after the other and lets them go       *)
(* together.  Names, labels, hashes and times are left out; an e-mail      *)
(* address stands for all its spellings.                                   *)
(***************************************************************************)
EXTENDS Naturals, Sequences

CONSTANTS
  Threads,      \* what runs requests
  Emails, Passwords,
  MaxId,        \* Bounds the model: ids of each kind are 1 .. MaxId
  MaxRequests   \* Bounds the model: the requests of a behaviour

ASSUME AccountsBoundsAssumption == MaxId \in Nat \ {0} /\ MaxRequests \in Nat

Ids == 1 .. MaxId
Kinds == {"users", "keys", "tokens"}

User == [id : Ids, email : Emails, password : Passwords, onboarded : BOOLEAN]
Owned == [owner : Ids \cup {0}, active : BOOLEAN]  \* owner 0: not there

\* AuthSnapshot: what the store holds, and what its file holds.
Snapshot == [users : Seq(User), keys : [Ids -> Owned], tokens : [Ids -> Owned]]

Absent == [owner |-> 0, active |-> FALSE]
NoAccounts == [users |-> <<>>, keys |-> [i \in Ids |-> Absent], tokens |-> [i \in Ids |-> Absent]]

\* What an earlier run has saved: one account with a key and a token.
Saved(u) ==
  [users |-> <<u>>,
   keys   |-> [i \in Ids |-> IF i = 1 THEN [owner |-> 1, active |-> TRUE] ELSE Absent],
   tokens |-> [i \in Ids |-> IF i = 1 THEN [owner |-> 1, active |-> TRUE] ELSE Absent]]

VARIABLES
  up,        \* the server runs
  store,     \* the AuthStore
  file,      \* the file
  next,      \* the next id of each kind; ids are unique over restarts
  sessions,  \* the users with an access token that has not expired
  pc,        \* the next step of each thread
  job,       \* the local variables of each thread
  requests,  \* how many requests have begun
  raced,     \* history variable: two registrations have overlapped
  chain,     \* history variable: each token rotated by an answered request,
             \* with the token it gave
  revoked,   \* history variable: the keys that an answered request has revoked
  dirty,     \* history variable: what each request changed and has not saved yet
  risk       \* history variable: what an overlap or a failed write may have
             \* kept from the file

vars == <<up, store, file, next, sessions, pc, job, requests, raced, chain, revoked, dirty, risk>>
history == <<raced, chain, revoked>>

-----------------------------------------------------------------------------
Job ==
  [op       : {"none", "register", "login", "refresh", "patch", "password", "onboard",
               "create", "revoke"},
   user     : Ids \cup {0},     \* the account found or made
   email    : Emails \cup {"none"},
   password : Passwords \cup {"none"},
   ref      : Ids \cup {0},     \* the key or token that the request names
   new      : Ids \cup {0},     \* the token that it gets for it
   copy     : Snapshot]         \* the copy to save, as far as it has been made

NoJob == [op |-> "none", user |-> 0, email |-> "none", password |-> "none", ref |-> 0, new |-> 0,
          copy |-> NoAccounts]

Labels == {"idle", "insert", "issue", "find", "change", "users", "keys", "tokens", "write"}

NoneOf == [k \in Kinds |-> {}]

At(t, label) == pc[t] = label

Goto(t, label, j) ==
  /\ pc' = [pc EXCEPT ![t] = label]
  /\ job' = [job EXCEPT ![t] = j]

Begin(t, op) ==
  /\ up /\ At(t, "idle") /\ requests < MaxRequests
  /\ requests' = requests + 1

\* verify_password: a hash matches the password it was made of, also one of
\* the older kind.
Verify(u, password) == u.password = password

UserIds == {store.users[n].id : n \in DOMAIN store.users}
TheUser(id) == CHOOSE u \in {store.users[n] : n \in DOMAIN store.users} : u.id = id

\* find_user_by_email: the first account with this address.
WithEmail(email) == {n \in DOMAIN store.users : store.users[n].email = email}
FirstWith(email) == store.users[CHOOSE n \in WithEmail(email) : \A m \in WithEmail(email) : n <= m]

\* Another request has copied this list and has not written it yet.
CopyHeld(t, kind) ==
  \E u \in Threads \ {t} :
    pc[u] \in CASE kind = "users"  -> {"keys", "tokens", "write"}
                [] kind = "keys"   -> {"tokens", "write"}
                [] kind = "tokens" -> {"write"}

\* What a request that saves has locked of each kind, by its next step: the
\* lists that it has copied, until it has copied the last one.
Locking == [users |-> {"keys", "tokens"}, keys |-> {"tokens"}, tokens |-> {}]

\* Faulty variant: each lock is released before the next one is taken.
NeverHeld(t, kind) == TRUE

\* No other request holds the lock of this list.
Free(t, kind) == \A u \in Threads \ {t} : pc[u] \notin Locking[kind]

\* The request has changed these of one kind.
Changed(t, kind, ids) ==
  /\ dirty' = [dirty EXCEPT ![t][kind] = @ \cup ids]
  /\ risk' = IF CopyHeld(t, kind) THEN [risk EXCEPT ![kind] = @ \cup ids] ELSE risk

\* The answer has been sent; a thread that answers takes a new request.
Answer(t) == Goto(t, "idle", NoJob)

-----------------------------------------------------------------------------
(* The server starts and stops.                                            *)

\* A file that is missing or does not parse gives an empty store; renaming
\* never leaves one that does not parse.
Init ==
  /\ up = TRUE
  /\ \/ /\ file = NoAccounts
        /\ next = [k \in Kinds |-> 1]
     \/ /\ \E e \in Emails, p \in Passwords :
             file = Saved([id |-> 1, email |-> e, password |-> p, onboarded |-> FALSE])
        /\ next = [k \in Kinds |-> 2]
  /\ store = file
  /\ sessions = {}
  /\ pc = [t \in Threads |-> "idle"]
  /\ job = [t \in Threads |-> NoJob]
  /\ requests = 0
  /\ raced = FALSE /\ chain = {} /\ revoked = {}
  /\ dirty = [t \in Threads |-> NoneOf]
  /\ risk = NoneOf

Crash ==
  /\ up /\ up' = FALSE
  /\ store' = NoAccounts
  /\ pc' = [t \in Threads |-> "idle"]
  /\ job' = [t \in Threads |-> NoJob]
  /\ dirty' = [t \in Threads |-> NoneOf]
  /\ UNCHANGED <<file, next, sessions, requests, history, risk>>

Start ==
  /\ ~up /\ up' = TRUE
  /\ store' = file
  /\ UNCHANGED <<file, next, sessions, pc, job, requests, history, dirty, risk>>

\* The last access token of a user expires.
Expire(u) ==
  /\ sessions' = sessions \ {u}
  /\ UNCHANGED <<up, store, file, next, pc, job, requests, history, dirty, risk>>

-----------------------------------------------------------------------------
(* Registration and login.                                                 *)

\* Faulty variant: registration never closes.
always_allowed == TRUE

registration_is_allowed == store.users = <<>>

\* The count is read before the password is hashed, which takes long.
Register(t) ==
  /\ Begin(t, "register") /\ Free(t, "users")
  /\ raced' = (raced \/ \E u \in Threads : job[u].op = "register" /\ At(u, "insert"))
  /\ IF registration_is_allowed
     THEN \E e \in Emails, p \in Passwords :
            Goto(t, "insert", [NoJob EXCEPT !.op = "register", !.email = e, !.password = p])
     ELSE Answer(t)
  /\ UNCHANGED <<up, store, file, next, sessions, chain, revoked, dirty, risk>>

InsertUser(t) ==
  /\ At(t, "insert") /\ Free(t, "users") /\ next["users"] \in Ids
  /\ LET id == next["users"] IN
     /\ store' = [store EXCEPT !.users =
          Append(@, [id |-> id, email |-> job[t].email, password |-> job[t].password, onboarded |-> FALSE])]
     /\ next' = [next EXCEPT !["users"] = id + 1]
     /\ Changed(t, "users", {id})
     /\ Goto(t, "issue", [NoJob EXCEPT !.op = "register", !.user = id])
  /\ UNCHANGED <<up, file, sessions, requests, history>>

\* Without such an account the password is checked against a dummy hash, to
\* the same answer.
Login(t) ==
  /\ Begin(t, "login") /\ Free(t, "users")
  /\ \E e \in Emails, p \in Passwords :
       IF WithEmail(e) # {} /\ Verify(FirstWith(e), p)
       THEN Goto(t, "issue", [NoJob EXCEPT !.op = "login", !.user = FirstWith(e).id])
       ELSE Answer(t)
  /\ UNCHANGED <<up, store, file, next, sessions, history, dirty, risk>>

IssueToken(t) ==
  /\ At(t, "issue") /\ next["tokens"] \in Ids
  /\ LET id == next["tokens"] IN
     /\ store' = [store EXCEPT !.tokens[id] = [owner |-> job[t].user, active |-> TRUE]]
     /\ next' = [next EXCEPT !["tokens"] = id + 1]
     /\ Changed(t, "tokens", {id})
     /\ Goto(t, "users", job[t])
  /\ UNCHANGED <<up, file, sessions, requests, history>>

-----------------------------------------------------------------------------
(* Refresh.                                                                *)

\* Faulty variant: a token can be used again.
PresentedAny(id) == store.tokens[id].owner # 0

Presented(id) == store.tokens[id].owner # 0 /\ store.tokens[id].active

\* rotate_refresh_token: the old token is revoked and a new one made under
\* one lock.
Refresh(t) ==
  /\ Begin(t, "refresh")
  /\ \E old \in Ids :
       \/ /\ ~Presented(old)
          /\ Answer(t)
          /\ UNCHANGED <<store, next, dirty, risk>>
       \/ /\ Presented(old) /\ next["tokens"] \in Ids
          /\ LET new == next["tokens"]
                 owner == store.tokens[old].owner IN
             /\ store' = [store EXCEPT !.tokens[old].active = FALSE,
                                       !.tokens[new] = [owner |-> owner, active |-> TRUE]]
             /\ next' = [next EXCEPT !["tokens"] = new + 1]
             /\ Changed(t, "tokens", {old, new})
             /\ Goto(t, "find", [NoJob EXCEPT !.op = "refresh", !.user = owner, !.ref = old, !.new = new])
  /\ UNCHANGED <<up, file, sessions, history>>

\* A token whose account is missing is used up, and nothing is saved.
RefreshUser(t) ==
  /\ At(t, "find") /\ Free(t, "users")
  /\ IF job[t].user \in UserIds
     THEN Goto(t, "users", job[t]) /\ UNCHANGED <<dirty, risk>>
     ELSE /\ Answer(t)
          /\ risk' = [risk EXCEPT !["tokens"] = @ \cup dirty[t]["tokens"]]
          /\ dirty' = [dirty EXCEPT ![t] = NoneOf]
  /\ UNCHANGED <<up, store, file, next, sessions, requests, history>>

-----------------------------------------------------------------------------
(* Requests of a user who is logged in.                                    *)

\* current_user_from_headers: an access token that has not expired, of an
\* account that exists.  The handler goes on with a copy of the account.
CurrentUser(u) == u \in sessions /\ u \in UserIds

BeginAs(t, op, j) ==
  /\ Begin(t, op)
  /\ Free(t, "users") /\ CurrentUser(j.user)
  /\ Goto(t, "change", [j EXCEPT !.op = op])
  /\ UNCHANGED <<up, store, file, next, sessions, history, dirty, risk>>

As(u) == [NoJob EXCEPT !.user = u]

MePatch(t) ==
  \E u \in Ids, e \in Emails : BeginAs(t, "patch", [As(u) EXCEPT !.email = e])

ChangePassword(t) ==
  \E u \in Ids, old, new \in Passwords :
    /\ CurrentUser(u) /\ Verify(TheUser(u), old)
    /\ BeginAs(t, "password", [As(u) EXCEPT !.password = new])

OnboardingComplete(t) == \E u \in Ids : BeginAs(t, "onboard", As(u))

CreateApiKey(t) == \E u \in Ids : BeginAs(t, "create", As(u))

\* The key is one of the user's own; keys stay and keep their owner.
RevokeApiKey(t) ==
  \E u, id \in Ids :
    /\ Free(t, "keys") /\ store.keys[id].owner = u
    /\ BeginAs(t, "revoke", [As(u) EXCEPT !.ref = id])

\* A handler finds the account again by its id and changes it.
ChangeUser(t, op, Now(_)) ==
  /\ At(t, "change") /\ job[t].op = op /\ Free(t, "users")
  /\ store' = [store EXCEPT !.users =
       [n \in DOMAIN @ |-> IF @[n].id = job[t].user THEN Now(@[n]) ELSE @[n]]]
  /\ Changed(t, "users", {job[t].user})
  /\ Goto(t, "users", job[t])
  /\ UNCHANGED <<up, file, next, sessions, requests, history>>

UpdateProfile(t) ==
  LET Now(u) == [u EXCEPT !.email = job[t].email] IN ChangeUser(t, "patch", Now)

\* Whatever the password is by now, and whoever changed it since it was checked.
UpdatePasswordHash(t) ==
  LET Now(u) == [u EXCEPT !.password = job[t].password] IN ChangeUser(t, "password", Now)

MarkOnboardingComplete(t) ==
  LET Now(u) == [u EXCEPT !.onboarded = TRUE] IN ChangeUser(t, "onboard", Now)

InsertApiKey(t) ==
  /\ At(t, "change") /\ job[t].op = "create" /\ Free(t, "keys") /\ next["keys"] \in Ids
  /\ LET id == next["keys"] IN
     /\ store' = [store EXCEPT !.keys[id] = [owner |-> job[t].user, active |-> TRUE]]
     /\ next' = [next EXCEPT !["keys"] = id + 1]
     /\ Changed(t, "keys", {id})
     /\ Goto(t, "users", job[t])
  /\ UNCHANGED <<up, file, sessions, requests, history>>

MarkRevoked(t) ==
  /\ At(t, "change") /\ job[t].op = "revoke" /\ Free(t, "keys")
  /\ store' = [store EXCEPT !.keys[job[t].ref].active = FALSE]
  /\ Changed(t, "keys", {job[t].ref})
  /\ Goto(t, "users", job[t])
  /\ UNCHANGED <<up, file, next, sessions, requests, history>>

-----------------------------------------------------------------------------
(* save: the three lists, each with its lock, and all let go after the     *)
(* last; then the file.                                                    *)

\* Faulty variants: the tokens are left out, or written to another place.
SaveNoTokens == [users |-> "keys", keys |-> "write", tokens |-> "write"]
SaveElsewhere == [users |-> "keys", keys |-> "tokens", tokens |-> "written"]

SaveOrder == [users |-> "keys", keys |-> "tokens", tokens |-> "write"]

Copy(t) ==
  /\ pc[t] \in Kinds /\ Free(t, pc[t])
  /\ Goto(t, SaveOrder[pc[t]], [job[t] EXCEPT !.copy[pc[t]] = store[pc[t]]])
  /\ UNCHANGED <<up, store, file, next, sessions, requests, history, dirty, risk>>

\* The answer: an access token for a login, and what is now out of use.
Answered(t) ==
  /\ Answer(t)
  /\ sessions' = IF job[t].op \in {"register", "login", "refresh"} THEN sessions \cup {job[t].user} ELSE sessions
  /\ chain' = IF job[t].op = "refresh" THEN chain \cup {<<job[t].ref, job[t].new>>} ELSE chain
  /\ revoked' = IF job[t].op = "revoke" THEN revoked \cup {job[t].ref} ELSE revoked
  /\ dirty' = [dirty EXCEPT ![t] = NoneOf]
  /\ UNCHANGED <<up, store, next, requests, raced>>

\* Faulty variant: the file is left as it is.
WriteNothing(t) ==
  /\ At(t, "write")
  /\ Answered(t)
  /\ UNCHANGED <<file, risk>>

Write(t) ==
  /\ At(t, "write")
  /\ file' = job[t].copy
  /\ Answered(t)
  /\ UNCHANGED risk

\* An error of save is ignored: the client gets the same answer.
WriteFails(t) ==
  /\ At(t, "write")
  /\ risk' = [k \in Kinds |-> risk[k] \cup dirty[t][k]]
  /\ Answered(t)
  /\ UNCHANGED file

-----------------------------------------------------------------------------
\* The routes without and with an access token; a request that is refused
\* changes and saves nothing.
OpenRequest(t) ==
  \/ Register(t) \/ InsertUser(t) \/ Login(t) \/ IssueToken(t)
  \/ Refresh(t) \/ RefreshUser(t)

UserRequest(t) ==
  \/ MePatch(t) \/ UpdateProfile(t)
  \/ ChangePassword(t) \/ UpdatePasswordHash(t)
  \/ OnboardingComplete(t) \/ MarkOnboardingComplete(t)
  \/ CreateApiKey(t) \/ InsertApiKey(t)
  \/ RevokeApiKey(t) \/ MarkRevoked(t)

Save(t) == Copy(t) \/ Write(t) \/ WriteFails(t)

Next ==
  \/ Crash \/ Start
  \/ \E u \in sessions : Expire(u)
  \/ \E t \in Threads : OpenRequest(t) \/ UserRequest(t) \/ Save(t)

Spec == Init /\ [][Next]_vars

-----------------------------------------------------------------------------
(* Properties                                                              *)

\* Every variable has its type.
TypeOK ==
  /\ up \in BOOLEAN /\ raced \in BOOLEAN
  /\ store \in Snapshot /\ file \in Snapshot
  /\ next \in [Kinds -> 1 .. MaxId + 1]
  /\ sessions \subseteq Ids
  /\ pc \in [Threads -> Labels] /\ job \in [Threads -> Job]
  /\ requests \in 0 .. MaxRequests
  /\ chain \subseteq Ids \X Ids
  /\ revoked \subseteq Ids
  /\ dirty \in [Threads -> [Kinds -> SUBSET Ids]] /\ risk \in [Kinds -> SUBSET Ids]

\* Registration closes with the first account: there is a second one only
\* if two registrations have overlapped.
RegistrationCloses == raced \/ Len(store.users) <= 1

\* One refresh token gives at most one other, however many clients present
\* it and however often the server is killed, unless the file has missed it.
RotatedOnce ==
  \A a, b \in chain : a[1] = b[1] /\ a # b => a[1] \in risk["tokens"]

\* A key or token that an answered request has put out of use stays so, also
\* over restarts, unless an overlap or a failed write kept it from the file.
NothingComesBack ==
  /\ \A i \in revoked \ risk["keys"] : ~store.keys[i].active
  /\ \A c \in chain : c[1] \in risk["tokens"] \/ ~store.tokens[c[1]].active

\* Between requests, a restart finds what the store holds, but for what an
\* overlap or a failed write kept from the file.
AccountsAreSaved ==
  LET clean(kind) == Ids \ (risk[kind] \cup UNION {dirty[t][kind] : t \in Threads})
      of(snapshot, i) == {u \in {snapshot.users[n] : n \in DOMAIN snapshot.users} : u.id = i} IN
  up => /\ \A i \in clean("users") : of(file, i) = of(store, i)
        /\ \A kind \in {"keys", "tokens"} : \A i \in clean(kind) : file[kind][i] = store[kind][i]

\* Every key and token of the file has its account there, also of accounts
\* that are registered while another request saves.
SavedOwnersExist ==
  \A kind \in {"keys", "tokens"} : \A i \in Ids :
    file[kind][i].owner \in {0} \cup {file.users[n].id : n \in DOMAIN file.users}
=============================================================================
