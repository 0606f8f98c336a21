-------------------------- MODULE DirectParts_proofs --------------------------
(***************************************************************************)
(* Proofs about the parts that need no recursion: what a bucket of the     *)
(* rate limiter pays out, for any sequence of requests in any order that   *)
(* their readings of the clock come in; what one request may do to a       *)
(* server, whatever the server holds; how a program starts, in any         *)
(* environment; and, from Ranking_proofs and StoreReads_proofs, how a      *)
(* search ranks and what the stores answer.  Together they give the        *)
(* properties of DirectParts.                                              *)
(***************************************************************************)
EXTENDS DirectParts, StoreReads_proofs

-----------------------------------------------------------------------------
(* The rate limiter.                                                       *)

Bucket == [tokens : 0 .. Capacity, last_refill : Nat]
Call == [caller : Callers, key : Addresses, now : Nat]
Ledger == [first : Nat, last : Nat, spent : Nat, earned : Nat, ordered : BOOLEAN, starved : BOOLEAN]

LimiterTypeInv ==
    /\ clock \in Nat
    /\ DOMAIN buckets \subseteq Addresses
    /\ \A key \in DOMAIN buckets : buckets[key] \in Bucket
    /\ waiting \subseteq Call
    /\ DOMAIN ledgers \subseteq DOMAIN buckets
    /\ \A key \in DOMAIN ledgers : ledgers[key] \in Ledger

\* An account that agrees with the bucket of its address: what it spent and
\* what the bucket still has was in the bucket or came with the time.
Balanced(ledger, bucket) ==
    /\ ledger.last = bucket.last_refill
    /\ ledger.spent + bucket.tokens =< Capacity + ledger.earned
    /\ ledger.ordered => /\ ledger.first =< ledger.last
                         /\ ledger.earned = (ledger.last - ledger.first) * Refill
    /\ ~ledger.starved

BudgetInv == LimiterTypeInv /\ \A key \in DOMAIN ledgers : Balanced(ledgers[key], buckets[key])

-----------------------------------------------------------------------------
\* The units that come back between two times are a natural number, and the
\* product is what it is: the leaves below need no more of it.
LEMMA ElapsedFacts ==
    ASSUME NEW from \in Nat, NEW to \in Nat
    PROVE  /\ Elapsed(from, to) \in Nat
           /\ Elapsed(from, to) * Refill \in Nat
           /\ from =< to => Elapsed(from, to) = to - from
<1>1. Elapsed(from, to) \in Nat /\ (from =< to => Elapsed(from, to) = to - from)
  BY DEF Elapsed
<1>2. \A x \in Nat : x * Refill \in Nat
  BY LimiterAssumption
<1> QED BY <1>1, <1>2

\* What a request finds is a bucket of its time.
LEMMA FoundFacts ==
    ASSUME LimiterTypeInv, NEW key, NEW now \in Nat
    PROVE  /\ Found(key, now) \in Bucket
           /\ Found(key, now).last_refill = now
           /\ key \notin DOMAIN buckets => Found(key, now).tokens = Capacity
           /\ key \in DOMAIN buckets =>
                Found(key, now).tokens =
                   Smaller(buckets[key].tokens + Elapsed(buckets[key].last_refill, now) * Refill, Capacity)
<1> DEFINE b == IF key \in DOMAIN buckets THEN buckets[key] ELSE Fresh(now)
           e == Elapsed(b.last_refill, now) * Refill
<1>1. b \in Bucket
  BY LimiterAssumption DEF LimiterTypeInv, Bucket, Fresh
<1>2. b.tokens \in 0 .. Capacity /\ b.last_refill \in Nat
  BY <1>1 DEF Bucket
<1>3. e \in Nat
  BY <1>2, ElapsedFacts
<1>4. Found(key, now) = [tokens |-> Smaller(b.tokens + e, Capacity), last_refill |-> now]
  BY DEF Found, Refilled
<1>5. Smaller(b.tokens + e, Capacity) \in 0 .. Capacity
  <2> HIDE DEF e, b
  <2> QED BY <1>2, <1>3, LimiterAssumption DEF Smaller
<1>6. Found(key, now) \in Bucket /\ Found(key, now).last_refill = now
  BY <1>4, <1>5 DEF Bucket
<1>7. key \notin DOMAIN buckets => Found(key, now).tokens = Capacity
  <2> SUFFICES ASSUME key \notin DOMAIN buckets PROVE Found(key, now).tokens = Capacity
    OBVIOUS
  <2>1. b.tokens = Capacity
    BY DEF Fresh
  <2> HIDE DEF e, b
  <2> QED BY <1>3, <1>4, <2>1, LimiterAssumption DEF Smaller
<1> QED BY <1>4, <1>6, <1>7

\* One request of an address whose stretch has an account that agrees with the
\* bucket: the next account agrees with the next bucket.
LEMMA ContinuedBalances ==
    ASSUME LimiterTypeInv, NEW key \in DOMAIN ledgers, Balanced(ledgers[key], buckets[key]),
           NEW now \in Nat,
           NEW tokens, tokens = Found(key, now).tokens - Paid(key, now)
    PROVE  /\ Continued(ledgers[key], key, now) \in Ledger
           /\ Balanced(Continued(ledgers[key], key, now), [tokens |-> tokens, last_refill |-> now])
<1> DEFINE ledger == ledgers[key]
           bucket == buckets[key]
           e == Elapsed(ledger.last, now) * Refill
           found == Found(key, now).tokens
           paid == Paid(key, now)
<1>1. key \in DOMAIN buckets /\ bucket \in Bucket /\ ledger \in Ledger
  BY DEF LimiterTypeInv
<1>2. /\ ledger.first \in Nat /\ ledger.last \in Nat /\ ledger.spent \in Nat /\ ledger.earned \in Nat
      /\ ledger.ordered \in BOOLEAN /\ ledger.starved \in BOOLEAN
      /\ bucket.tokens \in Nat /\ bucket.last_refill \in Nat
  BY <1>1, LimiterAssumption DEF Bucket, Ledger
<1>3. e \in Nat /\ bucket.last_refill = ledger.last
  BY <1>2, ElapsedFacts DEF Balanced
<1>4. found = Smaller(bucket.tokens + e, Capacity) /\ found \in Nat
  BY <1>1, <1>3, FoundFacts, LimiterAssumption DEF Bucket
<1>5. paid \in Nat /\ (Allowed(key, now) <=> found >= Token) /\ (Allowed(key, now) => paid = Token)
  BY LimiterAssumption DEF Paid, Allowed
<1>6. Continued(ledger, key, now)
        = [first |-> ledger.first, last |-> now, spent |-> ledger.spent + paid, earned |-> ledger.earned + e,
           ordered |-> ledger.ordered /\ ledger.last =< now,
           starved |-> ledger.starved \/ (e >= Token /\ ~Allowed(key, now))]
  BY DEF Continued
<1>7. Continued(ledger, key, now) \in Ledger
  <2> HIDE DEF e, paid, ledger
  <2> QED BY <1>2, <1>3, <1>5, <1>6 DEF Ledger
<1>8. ledger.spent + paid + tokens =< Capacity + ledger.earned + e
  <2>1. ledger.spent + bucket.tokens =< Capacity + ledger.earned
    BY DEF Balanced
  <2>2. found =< bucket.tokens + e
    <3> HIDE DEF e, found, bucket
    <3> QED BY <1>2, <1>3, <1>4, LimiterAssumption DEF Smaller
  <2> HIDE DEF e, found, bucket, paid, ledger
  <2> QED BY <1>2, <1>3, <1>4, <1>5, <2>1, <2>2, LimiterAssumption DEF found, paid
<1>9. ~(e >= Token /\ ~Allowed(key, now))
  <2> SUFFICES ASSUME e >= Token PROVE found >= Token
    BY <1>5
  <2> HIDE DEF e, found, bucket
  <2> QED BY <1>2, <1>3, <1>4, LimiterAssumption DEF Smaller
<1>10. ASSUME ledger.ordered, ledger.last =< now
       PROVE  ledger.first =< now /\ ledger.earned + e = (now - ledger.first) * Refill
  <2>1. ledger.first =< ledger.last /\ ledger.earned = (ledger.last - ledger.first) * Refill
    BY <1>10 DEF Balanced
  <2>2. e = (now - ledger.last) * Refill
    BY <1>2, <1>10, ElapsedFacts
  <2>3. \A f, l, n, r \in Int : (l - f) * r + (n - l) * r = (n - f) * r
    OBVIOUS
  <2>4. ledger.earned + e = (now - ledger.first) * Refill
    BY <1>2, <2>1, <2>2, <2>3, LimiterAssumption
  <2> QED BY <1>2, <1>10, <2>1, <2>4
<1>11. ~ledger.starved
  BY DEF Balanced
<1> HIDE DEF e, paid, found, ledger, bucket
<1> DEFINE after == [tokens |-> tokens, last_refill |-> now]
           next == Continued(ledger, key, now)
<1>12. /\ after.tokens = tokens /\ after.last_refill = now
       /\ next.first = ledger.first /\ next.last = now
       /\ next.spent = ledger.spent + paid /\ next.earned = ledger.earned + e
       /\ next.ordered = (ledger.ordered /\ ledger.last =< now)
       /\ next.starved = (ledger.starved \/ (e >= Token /\ ~Allowed(key, now)))
  BY <1>6
<1> HIDE DEF after, next
<1>13. next.spent + after.tokens =< Capacity + next.earned
  BY <1>2, <1>3, <1>4, <1>5, <1>8, <1>12, LimiterAssumption
<1>14. next.ordered => next.first =< next.last /\ next.earned = (next.last - next.first) * Refill
  BY <1>10, <1>12
<1>15. ~next.starved
  BY <1>9, <1>11, <1>12
<1>16. Balanced(next, after)
  BY <1>12, <1>13, <1>14, <1>15 DEF Balanced
<1> QED BY <1>7, <1>16 DEF ledger, next, after

\* The same of the account that a request opens.
LEMMA OpenedBalances ==
    ASSUME LimiterTypeInv, NEW key, NEW now \in Nat,
           NEW tokens, tokens = Found(key, now).tokens - Paid(key, now)
    PROVE  /\ Opened(key, now) \in Ledger
           /\ Balanced(Opened(key, now), [tokens |-> tokens, last_refill |-> now])
<1> DEFINE found == Found(key, now).tokens
           paid == Paid(key, now)
<1>1. found \in 0 .. Capacity /\ (key \notin DOMAIN buckets => found = Capacity)
  BY FoundFacts DEF Bucket
<1>2. paid \in Nat /\ (Allowed(key, now) <=> found >= Token)
  BY LimiterAssumption DEF Paid, Allowed
<1>3. Opened(key, now)
        = [first |-> now, last |-> now, spent |-> paid, earned |-> 0, ordered |-> TRUE,
           starved |-> key \notin DOMAIN buckets /\ ~Allowed(key, now)]
  BY DEF Opened
<1>4. ~(key \notin DOMAIN buckets /\ ~Allowed(key, now))
  BY <1>1, <1>2, LimiterAssumption
<1>5. paid + tokens =< Capacity
  BY <1>1, <1>2, LimiterAssumption
<1>6. (now - now) * Refill = 0
  BY LimiterAssumption
<1> HIDE DEF found, paid
<1>7. Opened(key, now) \in Ledger
  BY <1>2, <1>3 DEF Ledger
<1> DEFINE after == [tokens |-> tokens, last_refill |-> now]
           next == Opened(key, now)
<1>8. /\ after.tokens = tokens /\ after.last_refill = now
      /\ next.first = now /\ next.last = now /\ next.spent = paid /\ next.earned = 0
      /\ next.starved = (key \notin DOMAIN buckets /\ ~Allowed(key, now))
  BY <1>3
<1> HIDE DEF after, next
<1>9. next.spent + after.tokens =< Capacity + next.earned
  BY <1>5, <1>8, LimiterAssumption
<1>10. next.ordered => next.first =< next.last /\ next.earned = (next.last - next.first) * Refill
  BY <1>6, <1>8
<1>11. ~next.starved
  BY <1>4, <1>8
<1>12. Balanced(next, after)
  BY <1>8, <1>9, <1>10, <1>11 DEF Balanced
<1> QED BY <1>7, <1>12 DEF next, after

-----------------------------------------------------------------------------
LEMMA BudgetInit == LimiterInit => BudgetInv
BY DEF LimiterInit, BudgetInv, LimiterTypeInv

LEMMA TickKeepsBudget == BudgetInv /\ Tick => BudgetInv'
BY DEF BudgetInv, LimiterTypeInv, Tick, Balanced

LEMMA ArriveKeepsBudget ==
    ASSUME BudgetInv, NEW caller \in Callers, NEW key \in Addresses, Arrive(caller, key)
    PROVE  BudgetInv'
<1>1. [caller |-> caller, key |-> key, now |-> clock] \in Call
  BY DEF BudgetInv, LimiterTypeInv, Call
<1> QED BY <1>1 DEF BudgetInv, LimiterTypeInv, Arrive, Balanced

LEMMA ConsumeKeepsBudget ==
    ASSUME BudgetInv, NEW call \in waiting, check_and_consume(call)
    PROVE  BudgetInv'
<1> DEFINE key == call.key
           now == call.now
           found == Found(key, now)
           left == [found EXCEPT !.tokens = IF Allowed(key, now) THEN @ - Token ELSE @]
           tokens == found.tokens - Paid(key, now)
<1>1. LimiterTypeInv /\ key \in Addresses /\ now \in Nat
  BY DEF BudgetInv, LimiterTypeInv, Call
<1>2. found \in Bucket /\ found.last_refill = now
  BY <1>1, FoundFacts
<1>3. tokens \in 0 .. Capacity
  BY <1>2, LimiterAssumption DEF Paid, Allowed, Bucket
<1>4. left = [tokens |-> tokens, last_refill |-> now]
  BY <1>2, LimiterAssumption DEF Paid, Bucket
<1>5. left \in Bucket
  BY <1>1, <1>3, <1>4 DEF Bucket
<1>6. /\ clock' = clock
      /\ waiting' = waiting \ {call}
      /\ DOMAIN buckets' = DOMAIN buckets \cup {key}
      /\ buckets'[key] = left
      /\ \A k \in DOMAIN buckets : k # key => buckets'[k] = buckets[k]
      /\ Account(key, now)
  BY DEF check_and_consume
<1> HIDE DEF left, tokens, found
<1>7. /\ DOMAIN ledgers' \subseteq DOMAIN ledgers \cup {key}
      /\ \A k \in DOMAIN ledgers : k # key => ledgers'[k] = ledgers[k]
      /\ key \in DOMAIN ledgers' =>
            \/ key \in DOMAIN ledgers /\ ledgers'[key] = Continued(ledgers[key], key, now)
            \/ ledgers'[key] = Opened(key, now)
  BY <1>6 DEF Account
<1>8. key \in DOMAIN ledgers' => ledgers'[key] \in Ledger /\ Balanced(ledgers'[key], left)
  <2>1. ASSUME key \in DOMAIN ledgers
        PROVE  LET l == Continued(ledgers[key], key, now) IN l \in Ledger /\ Balanced(l, left)
    <3>1. Balanced(ledgers[key], buckets[key])
      BY <2>1 DEF BudgetInv
    <3> QED BY <1>1, <1>4, <2>1, <3>1, ContinuedBalances DEF tokens, found
  <2>2. Opened(key, now) \in Ledger /\ Balanced(Opened(key, now), left)
    BY <1>1, <1>4, OpenedBalances DEF tokens, found
  <2> QED BY <1>7, <2>1, <2>2
<1>9. LimiterTypeInv'
  BY <1>1, <1>5, <1>6, <1>7, <1>8 DEF LimiterTypeInv
<1>10. ASSUME NEW k \in DOMAIN ledgers' PROVE Balanced(ledgers'[k], buckets'[k])
  <2>1. CASE k = key
    BY <1>6, <1>8, <2>1
  <2>2. CASE k # key
    <3>1. k \in DOMAIN ledgers /\ k \in DOMAIN buckets
      BY <1>1, <1>7, <2>2 DEF LimiterTypeInv
    <3> QED BY <1>6, <1>7, <2>2, <3>1 DEF BudgetInv
  <2> QED BY <2>1, <2>2
<1>11. \A k \in DOMAIN ledgers' : Balanced(ledgers'[k], buckets'[k])
  BY <1>10
<1> QED BY <1>9, <1>11 DEF BudgetInv, Balanced

LEMMA LimiterStep == BudgetInv /\ [LimiterNext]_limiter => BudgetInv'
<1> SUFFICES ASSUME BudgetInv, [LimiterNext]_limiter PROVE BudgetInv'
  OBVIOUS
<1>1. CASE UNCHANGED limiter
  BY <1>1 DEF limiter, BudgetInv, LimiterTypeInv, Balanced
<1> QED BY <1>1, TickKeepsBudget, ArriveKeepsBudget, ConsumeKeepsBudget DEF LimiterNext

LEMMA BudgetFollows == BudgetInv => BudgetHolds
<1> SUFFICES ASSUME BudgetInv, NEW key \in DOMAIN ledgers
             PROVE  /\ ledgers[key].spent =< Capacity + ledgers[key].earned
                    /\ ledgers[key].ordered =>
                          ledgers[key].spent =< Capacity + (ledgers[key].last - ledgers[key].first) * Refill
                    /\ ~ledgers[key].starved
  BY DEF BudgetHolds
<1>1. Balanced(ledgers[key], buckets[key])
  BY DEF BudgetInv
<1>2. buckets[key].tokens \in Nat /\ ledgers[key].spent \in Nat /\ ledgers[key].earned \in Nat
  BY LimiterAssumption DEF BudgetInv, LimiterTypeInv, Bucket, Ledger
<1>3. ledgers[key].spent =< Capacity + ledgers[key].earned
  BY <1>1, <1>2, LimiterAssumption DEF Balanced
<1> QED BY <1>1, <1>3 DEF Balanced

\* For any callers, addresses, capacity and rate: whatever the order in which
\* the requests of an address take the lock, no stretch of them gets more than
\* the bucket holds and the time in it refills, and none is starved
\* (RateLimiter::check_and_consume).
THEOREM BudgetIsKept == LimiterSpec => []BudgetHolds
<1>1. LimiterSpec => []BudgetInv
  BY BudgetInit, LimiterStep, PTL DEF LimiterSpec
<1> QED BY <1>1, BudgetFollows, PTL

-----------------------------------------------------------------------------
(* Requests.                                                               *)

\* A server with any memories of a set and any history of another, and any
\* request.
ServerOf(Records, Histories) ==
    [key : BOOLEAN, persist : BOOLEAN, records : Records, history : Histories,
     file : Records, historyFile : Histories, tokens : Nat, log : Nat]
CallOf(Targets) ==
    [route : Routes, cred : Credentials, body : {"good", "bad"}, id : Targets, engine : Engines,
     size : Sizes, preflight : BOOLEAN]

\* RefusedLeavesNoTrace and SuccessIsSaved of a response at hand.
NoTrace(s, q, r) ==
    /\ r.status \in Refusals => ~Changed(s, r.server) /\ SavedOf(s) = SavedOf(r.server)
    /\ r.status \in {204, 413, 429} => r.server = s
    /\ r.status = 401 => (r.server = s \/ q.route = "unknown")
    /\ Changed(s, r.server) => (~s.key \/ q.cred # "none")
    /\ Cardinality(DOMAIN s.records \ DOMAIN r.server.records) > 1 => q.cred \in {"admin key", "admin session"}
    /\ \A i \in DOMAIN s.records \ DOMAIN r.server.records :
          i # q.id => q.cred \in {"admin key", "admin session"}
    /\ s.tokens = 0 => ~Changed(s, r.server)
Saved(s, q, r) ==
    r.status \in {200, 201} /\ Changed(s, r.server) =>
       IF r.server.persist
       THEN /\ r.server.file = r.server.records
            /\ q.route = "update" =>
                  r.server.history = s.history /\ r.server.historyFile = s.historyFile
            /\ q.route \notin {"update", "delete_entity"} => r.server.historyFile = r.server.history
       ELSE SavedOf(r.server) = SavedOf(s)
Kept(s, q, r) == NoTrace(s, q, r) /\ Saved(s, q, r)

\* What a handler may answer: a refusal with the memories as they were, none of
\* the statuses of the layers around it, and no record deleted but the one that
\* is named, unless for an administrator.
Reasonable(s, q, a) ==
    /\ a.status \in Refusals => a.records = s.records /\ a.history = s.history
    /\ a.status \notin {204, 401, 413, 429}
    /\ (\A i \in DOMAIN s.records \ DOMAIN a.records : i = q.id) \/ caller_is_admin(s, q.cred)
Reads(s, a) ==
    /\ a.records = s.records /\ a.history = s.history
    /\ a.status \notin {204, 401, 413, 429}

-----------------------------------------------------------------------------
(* The handlers.                                                           *)
LEMMA AnswerFacts ==
    ASSUME NEW status, NEW s, NEW a, a = Answer(status, s)
    PROVE  a.status = status /\ a.records = s.records /\ a.history = s.history
BY DEF Answer

LEMMA StatusOfAnError ==
    ASSUME NEW engine \in Engines, engine # "works"
    PROVE  error_response(engine) \in {400, 404, 500}
<1>1. CASE engine = "refuses"
  <2>1. error_response(engine) = 400
    BY <1>1 DEF error_response
  <2> QED BY <2>1
<1>2. CASE engine \in {"breaks", "breaks midway"}
  <2>1. error_response(engine) = 500
    BY <1>2 DEF error_response
  <2> QED BY <2>1
<1> QED BY <1>1, <1>2 DEF Engines

LEMMA ReadFacts ==
    ASSUME NEW s, NEW q, q.engine \in Engines, q.body \in {"good", "bad"}
    PROVE  /\ Reads(s, handle_health(s, q)) /\ Reads(s, handle_ready(s, q))
           /\ Reads(s, handle_list_entities(s, q)) /\ Reads(s, handle_get_configure(s, q))
           /\ Reads(s, handle_get_configure_providers(s, q)) /\ Reads(s, handle_generate_instructions(s, q))
           /\ Reads(s, handle_get_requests(s, q)) /\ Reads(s, handle_list_memory(s, q))
           /\ Reads(s, handle_get_memory(s, q)) /\ Reads(s, handle_search_memory(s, q))
           /\ Reads(s, handle_get_history(s, q))
<1>1. ASSUME NEW status, status \notin {204, 401, 413, 429} PROVE Reads(s, Answer(status, s))
  BY <1>1 DEF Reads, Answer
<1>2. /\ 200 \notin {204, 401, 413, 429} /\ 400 \notin {204, 401, 413, 429} /\ 403 \notin {204, 401, 413, 429}
      /\ 404 \notin {204, 401, 413, 429} /\ 500 \notin {204, 401, 413, 429} /\ 503 \notin {204, 401, 413, 429}
  OBVIOUS
<1>3. q.engine # "works" => error_response(q.engine) \notin {204, 401, 413, 429}
  BY StatusOfAnError
<1>4. Reads(s, Read(s, q))
  BY <1>1, <1>2, <1>3 DEF Read
<1> QED BY <1>1, <1>2, <1>3, <1>4
        DEF handle_health, handle_ready, handle_list_entities, handle_get_configure,
            handle_get_configure_providers, handle_generate_instructions, handle_get_requests,
            handle_list_memory, handle_get_memory, handle_search_memory, handle_get_history

LEMMA UnchangedIsReasonable ==
    ASSUME NEW s, NEW q, NEW status, status \notin {204, 401, 413, 429}, NEW a, a = Answer(status, s)
    PROVE  Reasonable(s, q, a)
BY AnswerFacts DEF Reasonable

LEMMA AddedFacts ==
    ASSUME NEW Rec, NEW His, NEW s \in ServerOf(Rec, His), NEW ids
    PROVE  DOMAIN s.records \in SUBSET (DOMAIN Added(s, ids).records)
BY DEF Added, ServerOf

LEMMA DeletedFacts ==
    ASSUME NEW Rec, NEW His, NEW s \in ServerOf(Rec, His), NEW ids
    PROVE  DOMAIN s.records \ DOMAIN Deleted(s, ids).records \in SUBSET ids
BY DEF Deleted, ServerOf

LEMMA CreateFacts ==
    ASSUME NEW Rec, NEW His, NEW s \in ServerOf(Rec, His), NEW q, q.engine \in Engines,
           NEW a, a = handle_create_memory(s, q)
    PROVE  Reasonable(s, q, a) /\ a.status # 200
<1>1. ASSUME NEW ids, NEW status, status \in {201, 500}, a = Answer(status, Added(s, ids))
      PROVE  Reasonable(s, q, a)
  <2> DEFINE t == Added(s, ids)
  <2>1. DOMAIN s.records \in SUBSET (DOMAIN t.records)
    BY AddedFacts
  <2> HIDE DEF t
  <2>2. a.status = status /\ a.records = t.records
    BY <1>1, AnswerFacts DEF t
  <2> QED BY <1>1, <2>1, <2>2 DEF Reasonable, Refusals
<1>2. CASE q.body # "good"
  <2>1. a = Answer(400, s)
    BY <1>2 DEF handle_create_memory
  <2> QED BY <2>1, UnchangedIsReasonable, AnswerFacts
<1>3. CASE q.body = "good" /\ q.engine = "works"
  <2>1. a = Answer(201, Added(s, {Facts[1], Facts[2]}))
    BY <1>3 DEF handle_create_memory
  <2>2. a.status = 201
    BY <2>1 DEF Answer
  <2>3. Reasonable(s, q, a)
    BY <1>1, <2>1
  <2> QED BY <2>2, <2>3
<1>4. CASE q.body = "good" /\ q.engine = "breaks midway"
  <2>1. a = Answer(500, Added(s, {Facts[1]}))
    BY <1>4 DEF handle_create_memory
  <2>2. a.status = 500
    BY <2>1 DEF Answer
  <2>3. Reasonable(s, q, a)
    BY <1>1, <2>1
  <2> QED BY <2>2, <2>3
<1>5. CASE q.body = "good" /\ q.engine \notin {"works", "breaks midway"}
  <2>1. a = Answer(error_response(q.engine), s)
    BY <1>5 DEF handle_create_memory
  <2>2. error_response(q.engine) \in {400, 404, 500}
    BY <1>5, StatusOfAnError, ZenonT(30)
  <2> QED BY <2>1, <2>2, UnchangedIsReasonable, AnswerFacts
<1> QED BY <1>2, <1>3, <1>4, <1>5

LEMMA UpdateFacts ==
    ASSUME NEW Rec, NEW His, NEW s \in ServerOf(Rec, His), NEW q, q.engine \in Engines,
           NEW a, a = handle_update_memory(s, q)
    PROVE  Reasonable(s, q, a) /\ a.status # 201 /\ a.history = s.history
<1>1. CASE q.body # "good" \/ (q.engine = "works" /\ q.id \notin DOMAIN s.records)
  BY <1>1, UnchangedIsReasonable, AnswerFacts DEF handle_update_memory
<1>2. CASE q.body = "good" /\ q.engine # "works"
  <2>1. a = Answer(error_response(q.engine), s)
    BY <1>2 DEF handle_update_memory
  <2>2. error_response(q.engine) \in {400, 404, 500}
    BY <1>2, StatusOfAnError
  <2> QED BY <2>1, <2>2, UnchangedIsReasonable, AnswerFacts
<1>3. CASE q.body = "good" /\ q.engine = "works" /\ q.id \in DOMAIN s.records
  <2> DEFINE t == [s EXCEPT !.records[q.id] = "second"]
  <2>1. a = Answer(200, t)
    BY <1>3 DEF handle_update_memory
  <2>2. t.history = s.history /\ DOMAIN t.records = DOMAIN s.records
    BY DEF ServerOf
  <2> HIDE DEF t
  <2>3. a.status = 200 /\ a.records = t.records /\ a.history = t.history
    BY <2>1, AnswerFacts
  <2> QED BY <2>2, <2>3 DEF Reasonable, Refusals
<1> QED BY <1>1, <1>2, <1>3

LEMMA DeleteFacts ==
    ASSUME NEW Rec, NEW His, NEW s \in ServerOf(Rec, His), NEW q, q.engine \in Engines,
           NEW a, a = handle_delete_memory(s, q)
    PROVE  Reasonable(s, q, a) /\ a.status # 201
<1>1. CASE q.engine = "works"
  <2> DEFINE t == Deleted(s, {q.id} \cap DOMAIN s.records)
  <2>1. a = Answer(200, t)
    BY <1>1 DEF handle_delete_memory
  <2>2. DOMAIN s.records \ DOMAIN t.records \in SUBSET ({q.id} \cap DOMAIN s.records)
    BY DeletedFacts
  <2> HIDE DEF t
  <2>3. a.status = 200 /\ a.records = t.records /\ a.history = t.history
    BY <2>1, AnswerFacts
  <2> QED BY <2>2, <2>3 DEF Reasonable, Refusals
<1>2. CASE q.engine # "works"
  <2>1. a = Answer(error_response(q.engine), s)
    BY <1>2 DEF handle_delete_memory
  <2>2. error_response(q.engine) \in {400, 404, 500}
    BY <1>2, StatusOfAnError
  <2> QED BY <2>1, <2>2, UnchangedIsReasonable, AnswerFacts
<1> QED BY <1>1, <1>2

LEMMA ResetFacts ==
    ASSUME NEW s, NEW q, q.engine \in Engines, NEW ids, caller_is_admin(s, q.cred),
           NEW a, a = Reset(s, q, ids)
    PROVE  Reasonable(s, q, a) /\ a.status # 201
<1>1. ASSUME NEW t, NEW status, status \in {200, 500}, a = Answer(status, t)
      PROVE  Reasonable(s, q, a) /\ a.status # 201
  BY <1>1, AnswerFacts DEF Reasonable, Refusals
<1>2. CASE q.engine = "works"
  BY <1>1, <1>2 DEF Reset
<1>3. CASE q.engine = "breaks midway" /\ ids # {}
  <2> DEFINE first == {CHOOSE i \in ids : TRUE}
  <2>1. a = Answer(500, Deleted(s, first))
    BY <1>3 DEF Reset
  <2> HIDE DEF first
  <2> QED BY <1>1, <2>1
<1>4. CASE q.engine # "works" /\ ~(q.engine = "breaks midway" /\ ids # {})
  <2>1. a = Answer(error_response(q.engine), s)
    BY <1>4 DEF Reset
  <2>2. error_response(q.engine) \in {400, 404, 500}
    BY <1>4, StatusOfAnError, ZenonT(30)
  <2> QED BY <2>1, <2>2, UnchangedIsReasonable, AnswerFacts
<1> QED BY <1>2, <1>3, <1>4

LEMMA ResetsAreForAdministrators ==
    ASSUME NEW s, NEW q, q.engine \in Engines,
           NEW a, a \in {handle_delete_all(s, q), handle_delete_entity(s, q), handle_reset_all(s, q)}
    PROVE  Reasonable(s, q, a) /\ a.status # 201
<1>1. CASE a \in {Answer(403, s), Answer(400, s)}
  <2>1. PICK status \in {400, 403} : a = Answer(status, s)
    BY <1>1
  <2> QED BY <2>1, UnchangedIsReasonable, AnswerFacts
<1>2. CASE caller_is_admin(s, q.cred) /\ \E ids : a = Reset(s, q, ids)
  BY <1>2, ResetFacts
<1>3. a \in {Answer(403, s), Answer(400, s)} \/ (caller_is_admin(s, q.cred) /\ \E ids : a = Reset(s, q, ids))
  BY DEF handle_delete_all, handle_delete_entity, handle_reset_all
<1> QED BY <1>1, <1>2, <1>3

-----------------------------------------------------------------------------
(* Around the handlers: the limiter, the save and the log.                 *)
LEMMA KeepingFacts ==
    ASSUME NEW Rec, NEW His, NEW s \in ServerOf(Rec, His), NEW a, NEW after, after = Keeping(s, a)
    PROVE  after = [key |-> s.key, persist |-> s.persist, records |-> a.records, history |-> a.history,
                    file |-> s.file, historyFile |-> s.historyFile, tokens |-> s.tokens, log |-> s.log]
<1>1. s = [key |-> s.key, persist |-> s.persist, records |-> s.records, history |-> s.history,
           file |-> s.file, historyFile |-> s.historyFile, tokens |-> s.tokens, log |-> s.log]
  BY DEF ServerOf
<1> QED BY <1>1 DEF Keeping

LEMMA SavingFacts ==
    ASSUME NEW Rec, NEW His, NEW s \in ServerOf(Rec, His), NEW a, NEW status, NEW both \in BOOLEAN,
           NEW after, after = Saving(s, a, status, both),
           NEW saves, saves = (s.persist /\ a.status = status)
    PROVE  after = [key |-> s.key, persist |-> s.persist, records |-> a.records, history |-> a.history,
                    file |-> IF saves THEN a.records ELSE s.file,
                    historyFile |-> IF saves /\ both THEN a.history ELSE s.historyFile,
                    tokens |-> s.tokens, log |-> s.log]
<1> DEFINE t == Keeping(s, a)
<1>1. t = [key |-> s.key, persist |-> s.persist, records |-> a.records, history |-> a.history,
           file |-> s.file, historyFile |-> s.historyFile, tokens |-> s.tokens, log |-> s.log]
  BY KeepingFacts
<1>2. after = IF saves THEN [t EXCEPT !.file = a.records, !.historyFile = IF both THEN a.history ELSE @] ELSE t
  BY DEF Saving, Keeping
<1> HIDE DEF t
<1>3. CASE saves /\ both
  BY <1>1, <1>2, <1>3
<1>4. CASE saves /\ ~both
  BY <1>1, <1>2, <1>4
<1>5. CASE ~saves
  BY <1>1, <1>2, <1>5
<1> QED BY <1>3, <1>4, <1>5

LEMMA WrapFacts ==
    ASSUME NEW s, NEW status, NEW records, NEW history, NEW file, NEW historyFile,
           NEW after, after = [key |-> s.key, persist |-> s.persist, records |-> records, history |-> history,
                               file |-> file, historyFile |-> historyFile, tokens |-> s.tokens, log |-> s.log],
           NEW r, r = wrap_handler(s, status, after)
    PROVE  /\ s.tokens = 0 => r.status = 429 /\ r.server = s
           /\ s.tokens # 0 => /\ r.status = status
                              /\ r.server.records = records /\ r.server.history = history
                              /\ r.server.file = file /\ r.server.historyFile = historyFile
                              /\ r.server.persist = s.persist
BY DEF wrap_handler

LEMMA StoppedIsInOrder ==
    ASSUME NEW s, NEW q, NEW r, r.server = s
    PROVE  Kept(s, q, r)
<1>1. ~Changed(s, s)
  BY DEF Changed
<1>2. Cardinality(DOMAIN s.records \ DOMAIN s.records) = 0
  <2>1. DOMAIN s.records \ DOMAIN s.records = {}
    OBVIOUS
  <2> QED BY <2>1, FS_EmptySet
<1>3. /\ ~Changed(s, r.server) /\ SavedOf(s) = SavedOf(r.server)
      /\ \A i \in DOMAIN s.records \ DOMAIN r.server.records : FALSE
      /\ ~(Cardinality(DOMAIN s.records \ DOMAIN r.server.records) > 1)
  BY <1>1, <1>2
<1>4. NoTrace(s, q, r)
  BY <1>3 DEF NoTrace
<1>5. Saved(s, q, r)
  BY <1>3 DEF Saved
<1> QED BY <1>4, <1>5 DEF Kept

LEMMA ReadsAreInOrder ==
    ASSUME NEW Rec, NEW His, NEW s \in ServerOf(Rec, His), NEW q, NEW a, Reads(s, a),
           NEW r, r = Wrapped(s, a)
    PROVE  Kept(s, q, r)
<1> DEFINE t == r.server
<1>1. CASE s.tokens = 0
  <2>1. r.server = s
    BY <1>1 DEF Wrapped, wrap_handler
  <2> QED BY <2>1, StoppedIsInOrder
<1>2. CASE s.tokens # 0
  <2>1. /\ r.status = a.status
        /\ t.records = s.records /\ t.history = s.history
        /\ t.file = s.file /\ t.historyFile = s.historyFile
    <3>1. Keeping(s, a) = [key |-> s.key, persist |-> s.persist, records |-> a.records, history |-> a.history,
                           file |-> s.file, historyFile |-> s.historyFile, tokens |-> s.tokens, log |-> s.log]
      BY KeepingFacts
    <3>2. r = wrap_handler(s, a.status, Keeping(s, a))
      BY DEF Wrapped
    <3> QED BY <1>2, <3>1, <3>2, WrapFacts DEF Reads
  <2>2. r.status \notin {204, 401, 413, 429}
    BY <2>1 DEF Reads
  <2> HIDE DEF t
  <2>3. ~Changed(s, t) /\ SavedOf(s) = SavedOf(t)
    BY <2>1 DEF Changed, SavedOf
  <2>4. /\ \A i \in DOMAIN s.records \ DOMAIN t.records : FALSE
        /\ ~(Cardinality(DOMAIN s.records \ DOMAIN t.records) > 1)
    <3>1. DOMAIN s.records \ DOMAIN t.records = {} /\ Cardinality({}) = 0
      BY <2>1, FS_EmptySet
    <3> QED BY <3>1
  <2>5. NoTrace(s, q, r)
    BY <2>2, <2>3, <2>4 DEF NoTrace, t
  <2>6. Saved(s, q, r)
    BY <2>3 DEF Saved, t
  <2> QED BY <2>5, <2>6 DEF Kept
<1> QED BY <1>1, <1>2

LEMMA WritesAreInOrder ==
    ASSUME NEW Rec, NEW His, NEW s \in ServerOf(Rec, His),
           NEW q, q.cred \in Credentials, is_authorized(s, q.cred),
           NEW a, Reasonable(s, q, a),
           NEW status \in {200, 201}, a.status \in {200, 201} => a.status = status,
           NEW both \in BOOLEAN,
           q.route = "update" => a.history = s.history /\ ~both,
           q.route \notin {"update", "delete_entity"} => both,
           NEW r, r = wrap_handler(s, a.status, Saving(s, a, status, both))
    PROVE  Kept(s, q, r)
<1> DEFINE t == r.server
           saves == s.persist /\ a.status = status
<1>1. CASE s.tokens = 0
  <2>1. r.server = s
    BY <1>1 DEF wrap_handler
  <2> QED BY <2>1, StoppedIsInOrder
<1>2. CASE s.tokens # 0
  <2>1. /\ r.status = a.status
        /\ t.records = a.records /\ t.history = a.history
        /\ t.file = (IF saves THEN a.records ELSE s.file)
        /\ t.historyFile = (IF saves /\ both THEN a.history ELSE s.historyFile)
        /\ t.persist = s.persist
    <3>1. Saving(s, a, status, both)
            = [key |-> s.key, persist |-> s.persist, records |-> a.records, history |-> a.history,
               file |-> IF saves THEN a.records ELSE s.file,
               historyFile |-> IF saves /\ both THEN a.history ELSE s.historyFile,
               tokens |-> s.tokens, log |-> s.log]
      <4> DEFINE after == Saving(s, a, status, both)
      <4>1. after = Saving(s, a, status, both) /\ saves = (s.persist /\ a.status = status)
        OBVIOUS
      <4> HIDE DEF after, saves
      <4>2. after = [key |-> s.key, persist |-> s.persist, records |-> a.records, history |-> a.history,
                     file |-> IF saves THEN a.records ELSE s.file,
                     historyFile |-> IF saves /\ both THEN a.history ELSE s.historyFile,
                     tokens |-> s.tokens, log |-> s.log]
        BY <4>1, SavingFacts
      <4> QED BY <4>1, <4>2
    <3> HIDE DEF saves
    <3> QED BY <1>2, <3>1, WrapFacts
  <2>2. r.status \notin {204, 401, 413, 429}
    BY <2>1 DEF Reasonable
  <2>3. ~s.key \/ q.cred # "none"
    BY DEF is_authorized
  <2>4. caller_is_admin(s, q.cred) => q.cred \in {"admin key", "admin session"}
    BY DEF caller_is_admin
  <2> DEFINE gone == DOMAIN s.records \ DOMAIN t.records
  <2>5. (\A i \in gone : i = q.id) \/ q.cred \in {"admin key", "admin session"}
    BY <2>1, <2>4, ZenonT(30) DEF Reasonable
  <2>6. Cardinality(gone) > 1 => q.cred \in {"admin key", "admin session"}
    <3> SUFFICES ASSUME \A i \in gone : i = q.id PROVE ~(Cardinality(gone) > 1)
      BY <2>5
    <3>1. gone = {} \/ gone = {q.id}
      OBVIOUS
    <3> HIDE DEF gone
    <3>2. Cardinality(gone) = 0 \/ Cardinality(gone) = 1
      <4>1. Cardinality({}) = 0 /\ Cardinality({q.id}) = 1
        BY FS_EmptySet, FS_Singleton
      <4> QED BY <3>1, <4>1
    <3> QED BY <3>2
  <2>7. r.status \in Refusals => ~Changed(s, t) /\ SavedOf(s) = SavedOf(t)
    <3> SUFFICES ASSUME r.status \in Refusals PROVE ~Changed(s, t) /\ SavedOf(s) = SavedOf(t)
      OBVIOUS
    <3>1. a.records = s.records /\ a.history = s.history
      BY <2>1 DEF Reasonable
    <3>2. CASE ~saves
      BY <2>1, <3>1, <3>2 DEF Changed, SavedOf
    <3>3. CASE saves
      BY <2>1, <3>3 DEF Refusals
    <3> QED BY <3>2, <3>3
  <2> HIDE DEF t, gone, saves
  <2>8. NoTrace(s, q, r)
    <3>1. NoTrace(s, q, r) <=>
             /\ r.status \in Refusals => ~Changed(s, t) /\ SavedOf(s) = SavedOf(t)
             /\ r.status \in {204, 413, 429} => t = s
             /\ r.status = 401 => (t = s \/ q.route = "unknown")
             /\ Changed(s, t) => (~s.key \/ q.cred # "none")
             /\ Cardinality(gone) > 1 => q.cred \in {"admin key", "admin session"}
             /\ \A i \in gone : i # q.id => q.cred \in {"admin key", "admin session"}
             /\ s.tokens = 0 => ~Changed(s, t)
      BY DEF NoTrace, t, gone
    <3>2. \A i \in gone : i # q.id => q.cred \in {"admin key", "admin session"}
      BY <2>5
    <3> QED BY <1>2, <2>2, <2>3, <2>6, <2>7, <3>1, <3>2
  <2>9. Saved(s, q, r)
    <3> SUFFICES ASSUME r.status \in {200, 201}
                 PROVE  IF t.persist
                        THEN /\ t.file = t.records
                             /\ q.route = "update" => t.history = s.history /\ t.historyFile = s.historyFile
                             /\ q.route \notin {"update", "delete_entity"} => t.historyFile = t.history
                        ELSE SavedOf(t) = SavedOf(s)
      BY DEF Saved, t
    <3>1. saves = s.persist
      BY <2>1 DEF saves, ServerOf
    <3>2. CASE s.persist
      <4>1. t.file = t.records /\ t.historyFile = (IF both THEN t.history ELSE s.historyFile)
        BY <2>1, <3>1, <3>2
      <4> QED BY <2>1, <3>2, <4>1
    <3>3. CASE ~s.persist
      BY <2>1, <3>1, <3>3 DEF SavedOf
    <3> QED BY <2>1, <3>2, <3>3
  <2> QED BY <2>8, <2>9 DEF Kept
<1> QED BY <1>1, <1>2

-----------------------------------------------------------------------------
(* The routes, and the layers in front of them.                            *)
LEMMA ReadingRoutes ==
    ASSUME NEW Rec, NEW His, NEW Targets, NEW s \in ServerOf(Rec, His), NEW q \in CallOf(Targets),
           q.route \in {"health", "ready", "entities", "configure", "providers", "instructions", "requests",
                        "list", "get", "search", "history"}
    PROVE  Kept(s, q, Served(s, q))
<1>1. q.engine \in Engines /\ q.body \in {"good", "bad"}
  BY DEF CallOf
<1>2. \A a : Reads(s, a) => Kept(s, q, Wrapped(s, a))
  BY ReadsAreInOrder
<1>3. CASE q.route = "health"
  <2>1. Served(s, q) = Wrapped(s, handle_health(s, q))
    BY <1>3 DEF Served, axum_handle_health
  <2> QED BY <1>1, <1>2, <2>1, ReadFacts
<1>4. CASE q.route = "ready"
  <2>1. Served(s, q) = Wrapped(s, handle_ready(s, q))
    BY <1>4 DEF Served, axum_handle_ready
  <2> QED BY <1>1, <1>2, <2>1, ReadFacts
<1>5. CASE q.route = "entities"
  <2>1. Served(s, q) = Wrapped(s, handle_list_entities(s, q))
    BY <1>5 DEF Served, axum_handle_list_entities
  <2> QED BY <1>1, <1>2, <2>1, ReadFacts
<1>6. CASE q.route = "configure"
  <2>1. Served(s, q) = Wrapped(s, handle_get_configure(s, q))
    BY <1>6 DEF Served, axum_handle_get_configure
  <2> QED BY <1>1, <1>2, <2>1, ReadFacts
<1>7. CASE q.route = "providers"
  <2>1. Served(s, q) = Wrapped(s, handle_get_configure_providers(s, q))
    BY <1>7 DEF Served, axum_handle_get_configure_providers
  <2> QED BY <1>1, <1>2, <2>1, ReadFacts
<1>8. CASE q.route = "instructions"
  <2>1. Served(s, q) = Wrapped(s, handle_generate_instructions(s, q))
    BY <1>8 DEF Served, axum_handle_generate_instructions
  <2> QED BY <1>1, <1>2, <2>1, ReadFacts
<1>9. CASE q.route = "requests"
  <2>1. Served(s, q) = Wrapped(s, handle_get_requests(s, q))
    BY <1>9 DEF Served, axum_handle_get_requests
  <2> QED BY <1>1, <1>2, <2>1, ReadFacts
<1>10. CASE q.route = "list"
  <2>1. Served(s, q) = Wrapped(s, handle_list_memory(s, q))
    BY <1>10 DEF Served, axum_handle_list_memory
  <2> QED BY <1>1, <1>2, <2>1, ReadFacts
<1>11. CASE q.route = "get"
  <2>1. Served(s, q) = Wrapped(s, handle_get_memory(s, q))
    BY <1>11 DEF Served, axum_handle_get_memory
  <2> QED BY <1>1, <1>2, <2>1, ReadFacts
<1>12. CASE q.route = "search"
  <2>1. Served(s, q) = Wrapped(s, handle_search_memory(s, q))
    BY <1>12 DEF Served, axum_handle_search_memory
  <2> QED BY <1>1, <1>2, <2>1, ReadFacts
<1>13. CASE q.route = "history"
  <2>1. Served(s, q) = Wrapped(s, handle_get_history(s, q))
    BY <1>13 DEF Served, axum_handle_get_history
  <2> QED BY <1>1, <1>2, <2>1, ReadFacts
<1> QED BY <1>3, <1>4, <1>5, <1>6, <1>7, <1>8, <1>9, <1>10, <1>11, <1>12, <1>13

LEMMA WritingRoutes ==
    ASSUME NEW Rec, NEW His, NEW Targets, NEW s \in ServerOf(Rec, His), NEW q \in CallOf(Targets),
           q.route \in {"create", "update", "delete", "delete_all", "delete_entity", "reset"},
           is_authorized(s, q.cred)
    PROVE  Kept(s, q, Served(s, q))
<1>1. q.engine \in Engines /\ q.cred \in Credentials
  BY DEF CallOf
<1>2. ASSUME NEW a, Reasonable(s, q, a), NEW status \in {200, 201},
             a.status \in {200, 201} => a.status = status, NEW both \in BOOLEAN,
             q.route = "update" => a.history = s.history /\ ~both,
             q.route \notin {"update", "delete_entity"} => both,
             Served(s, q) = wrap_handler(s, a.status, Saving(s, a, status, both))
      PROVE  Kept(s, q, Served(s, q))
  BY <1>1, <1>2, WritesAreInOrder
<1>3. CASE q.route = "create"
  <2> DEFINE a == handle_create_memory(s, q)
  <2>1. Served(s, q) = wrap_handler(s, a.status, Saving(s, a, 201, TRUE))
    BY <1>3 DEF Served, axum_handle_create_memory
  <2>2. Reasonable(s, q, a) /\ a.status # 200
    BY <1>1, CreateFacts
  <2> HIDE DEF a
  <2> QED BY <1>2, <1>3, <2>1, <2>2
<1>4. CASE q.route = "update"
  <2> DEFINE a == handle_update_memory(s, q)
  <2>1. Served(s, q) = wrap_handler(s, a.status, Saving(s, a, 200, FALSE))
    BY <1>4 DEF Served, axum_handle_update_memory
  <2>2. Reasonable(s, q, a) /\ a.status # 201 /\ a.history = s.history
    BY <1>1, UpdateFacts
  <2> HIDE DEF a
  <2> QED BY <1>2, <1>4, <2>1, <2>2
<1>5. CASE q.route = "delete"
  <2> DEFINE a == handle_delete_memory(s, q)
             both == TRUE
  <2>1. Served(s, q) = wrap_handler(s, a.status, Saving(s, a, 200, both))
    BY <1>5 DEF Served, axum_handle_delete_memory
  <2>2. Reasonable(s, q, a) /\ a.status # 201
    BY <1>1, DeleteFacts
  <2> HIDE DEF a
  <2>3. a.status \in {200, 201} => a.status = 200
    BY <2>2
  <2>4. /\ 200 \in {200, 201} /\ both \in BOOLEAN
        /\ q.route = "update" => a.history = s.history /\ ~both
        /\ q.route \notin {"update", "delete_entity"} => both
    BY <1>5
  <2>5. Reasonable(s, q, a)
    BY <2>2
  <2> HIDE DEF both
  <2> QED BY <1>2, <2>1, <2>3, <2>4, <2>5
<1>6. CASE q.route = "delete_all"
  <2> DEFINE a == handle_delete_all(s, q)
             both == TRUE
  <2>1. Served(s, q) = wrap_handler(s, a.status, Saving(s, a, 200, both))
    BY <1>6 DEF Served, axum_handle_delete_all
  <2>2. Reasonable(s, q, a) /\ a.status # 201
    BY <1>1, ResetsAreForAdministrators
  <2> HIDE DEF a
  <2>3. a.status \in {200, 201} => a.status = 200
    BY <2>2
  <2>4. /\ 200 \in {200, 201} /\ both \in BOOLEAN
        /\ q.route = "update" => a.history = s.history /\ ~both
        /\ q.route \notin {"update", "delete_entity"} => both
    BY <1>6
  <2>5. Reasonable(s, q, a)
    BY <2>2
  <2> HIDE DEF both
  <2> QED BY <1>2, <2>1, <2>3, <2>4, <2>5
<1>7. CASE q.route = "delete_entity"
  <2> DEFINE a == handle_delete_entity(s, q)
             both == FALSE
  <2>1. Served(s, q) = wrap_handler(s, a.status, Saving(s, a, 200, both))
    BY <1>7 DEF Served, axum_handle_delete_entity
  <2>2. Reasonable(s, q, a) /\ a.status # 201
    BY <1>1, ResetsAreForAdministrators
  <2> HIDE DEF a
  <2>3. a.status \in {200, 201} => a.status = 200
    BY <2>2
  <2>4. /\ 200 \in {200, 201} /\ both \in BOOLEAN
        /\ q.route = "update" => a.history = s.history /\ ~both
        /\ q.route \notin {"update", "delete_entity"} => both
    BY <1>7
  <2>5. Reasonable(s, q, a)
    BY <2>2
  <2> HIDE DEF both
  <2> QED BY <1>2, <2>1, <2>3, <2>4, <2>5
<1>8. CASE q.route = "reset"
  <2> DEFINE a == handle_reset_all(s, q)
             both == TRUE
  <2>1. Served(s, q) = wrap_handler(s, a.status, Saving(s, a, 200, both))
    BY <1>8 DEF Served, axum_handle_reset_all
  <2>2. Reasonable(s, q, a) /\ a.status # 201
    BY <1>1, ResetsAreForAdministrators
  <2> HIDE DEF a
  <2>3. a.status \in {200, 201} => a.status = 200
    BY <2>2
  <2>4. /\ 200 \in {200, 201} /\ both \in BOOLEAN
        /\ q.route = "update" => a.history = s.history /\ ~both
        /\ q.route \notin {"update", "delete_entity"} => both
    BY <1>8
  <2>5. Reasonable(s, q, a)
    BY <2>2
  <2> HIDE DEF both
  <2> QED BY <1>2, <2>1, <2>3, <2>4, <2>5
<1> QED BY <1>3, <1>4, <1>5, <1>6, <1>7, <1>8

LEMMA UnknownRoute ==
    ASSUME NEW Rec, NEW His, NEW s \in ServerOf(Rec, His), NEW q, q.route = "unknown"
    PROVE  Kept(s, q, unknown_route_fallback(s, q))
<1> DEFINE r == unknown_route_fallback(s, q)
           t == r.server
<1>1. CASE q.size = "large" \/ s.tokens = 0
  <2>1. r.server = s
    BY <1>1 DEF unknown_route_fallback, wrap_handler
  <2> QED BY <2>1, StoppedIsInOrder
<1>2. CASE q.size # "large" /\ s.tokens # 0
  <2>1. s = [key |-> s.key, persist |-> s.persist, records |-> s.records, history |-> s.history,
             file |-> s.file, historyFile |-> s.historyFile, tokens |-> s.tokens, log |-> s.log]
    BY DEF ServerOf
  <2> DEFINE status == IF is_authorized(s, q.cred) THEN 404 ELSE 401
  <2>2. r = wrap_handler(s, status, s)
    BY <1>2 DEF unknown_route_fallback
  <2>3. status \in {401, 404}
    OBVIOUS
  <2> HIDE DEF r, status
  <2>4. /\ r.status = status /\ t.records = s.records /\ t.history = s.history
        /\ t.file = s.file /\ t.historyFile = s.historyFile
    BY <1>2, <2>1, <2>2, WrapFacts
  <2> HIDE DEF t
  <2>5. ~Changed(s, t) /\ SavedOf(s) = SavedOf(t)
    BY <2>4 DEF Changed, SavedOf
  <2>6. /\ \A i \in DOMAIN s.records \ DOMAIN t.records : FALSE
        /\ ~(Cardinality(DOMAIN s.records \ DOMAIN t.records) > 1)
    <3>1. DOMAIN s.records \ DOMAIN t.records = {} /\ Cardinality({}) = 0
      BY <2>4, FS_EmptySet
    <3> QED BY <3>1
  <2>7. NoTrace(s, q, r)
    <3>1. r.status \notin {204, 413, 429}
      BY <2>3, <2>4
    <3> QED BY <2>5, <2>6, <3>1 DEF NoTrace, t
  <2>8. Saved(s, q, r)
    BY <2>5 DEF Saved, t
  <2> QED BY <2>7, <2>8 DEF Kept, r
<1> QED BY <1>1, <1>2

\* Whatever a server holds and whatever it is asked, the request leaves it as
\* RefusedLeavesNoTrace and SuccessIsSaved say.
THEOREM EveryExchangeIsInOrder ==
    ASSUME NEW Rec, NEW His, NEW Targets, NEW x,
           x.server \in ServerOf(Rec, His), x.call \in CallOf(Targets)
    PROVE  Exchanged(x)
<1> DEFINE s == x.server
           q == x.call
           r == respond(s, q)
<1>1. s \in ServerOf(Rec, His) /\ q \in CallOf(Targets) /\ r = respond(s, q)
  OBVIOUS
<1> SUFFICES Kept(s, q, r)
  BY <1>1 DEF Kept, NoTrace, Saved, Exchanged, RefusedLeavesNoTrace, SuccessIsSaved
<1> HIDE DEF s, q, r
<1>0. q.route \in Routes
  BY <1>1 DEF CallOf
<1>2. CASE q.size = "declared large"
  <2>1. r.server = s
    BY <1>1, <1>2 DEF respond, body_size_limit_middleware
  <2> QED BY <2>1, StoppedIsInOrder
<1>3. CASE q.size # "declared large" /\ (q.preflight \/ (q.route \in GatedRoutes /\ ~is_authorized(s, q.cred)))
  <2>1. r.server = s
    BY <1>1, <1>3 DEF respond, body_size_limit_middleware, cors_middleware, auth_gate_middleware
  <2> QED BY <2>1, StoppedIsInOrder
<1>4. CASE q.size # "declared large" /\ ~q.preflight /\ ~(q.route \in GatedRoutes /\ ~is_authorized(s, q.cred))
  <2>1. r = Served(s, q)
    BY <1>1, <1>4 DEF respond, body_size_limit_middleware, cors_middleware, auth_gate_middleware
  <2>2. CASE q.route = "unknown"
    <3>1. Served(s, q) = unknown_route_fallback(s, q)
      BY <2>2 DEF Served
    <3> QED BY <1>1, <2>1, <2>2, <3>1, UnknownRoute
  <2>3. CASE q.route \in {"create", "update", "delete", "delete_all", "delete_entity", "reset"}
    <3>1. is_authorized(s, q.cred)
      BY <1>4, <2>3 DEF GatedRoutes
    <3> QED BY <1>1, <2>1, <2>3, <3>1, WritingRoutes
  <2>4. CASE q.route \in {"health", "ready", "entities", "configure", "providers", "instructions", "requests",
                          "list", "get", "search", "history"}
    BY <1>1, <2>1, <2>4, ReadingRoutes
  <2> QED BY <1>0, <2>2, <2>3, <2>4 DEF Routes, OpenRoutes, GatedRoutes
<1> QED BY <1>2, <1>3, <1>4

-----------------------------------------------------------------------------
(* How a program starts.                                                   *)

\* A program that started took every step, and has what each gave.
LEMMA StartedFacts ==
    ASSUME NEW program, NEW names, NEW steps, DOMAIN names = DOMAIN steps,
           \A i, j \in DOMAIN names : names[i] = names[j] => i = j,
           NEW p, p = Started(program, names, steps), p.status = "started"
    PROVE  /\ p.program = program
           /\ \A i \in DOMAIN names : steps[i].ok /\ p.has[names[i]] = steps[i].value
<1> DEFINE wrong == {i \in DOMAIN steps : ~steps[i].ok}
           has == [n \in {names[i] : i \in DOMAIN names} |-> steps[CHOOSE i \in DOMAIN names : names[i] = n].value]
<1>1. p = IF wrong # {}
          THEN [program |-> program, status |-> "refused", why |-> steps[First(wrong)].value]
          ELSE [program |-> program, status |-> "started", has |-> has]
  BY DEF Started
<1>2. wrong = {}
  <2> SUFFICES ASSUME wrong # {} PROVE FALSE
    OBVIOUS
  <2>1. p.status = "refused"
    BY <1>1
  <2> QED BY <2>1
<1>3. p.program = program /\ p.has = has
  BY <1>1, <1>2
<1>4. ASSUME NEW i \in DOMAIN names PROVE has[names[i]] = steps[i].value
  <2>1. (CHOOSE j \in DOMAIN names : names[j] = names[i]) = i
    <3>1. \E j \in DOMAIN names : names[j] = names[i]
      OBVIOUS
    <3> QED BY <3>1
  <2> QED BY <2>1
<1> HIDE DEF has
<1>5. \A i \in DOMAIN names : steps[i].ok
  BY <1>2
<1> QED BY <1>3, <1>4, <1>5

LEMMA ServerStarted ==
    ASSUME NEW env, NEW built, NEW works, NEW p, p = server_main(env, built, works), p.status = "started"
    PROVE  /\ p.program = "server"
           /\ resolve_auth_config(env).ok /\ p.has["auth"] = resolve_auth_config(env).value
           /\ resolve_engine_limits(env).ok /\ p.has["limits"] = resolve_engine_limits(env).value
           /\ validate_cors_origin(resolve_cors_origin(env)).ok
           /\ p.has["cors"] = validate_cors_origin(resolve_cors_origin(env)).value
           /\ resolve_llm_provider(env, built, works).ok
           /\ p.has["llm"] = resolve_llm_provider(env, built, works).value
           /\ resolve_embedding_provider(env, built, works).ok
           /\ p.has["embedding"] = resolve_embedding_provider(env, built, works).value
           /\ resolve_jwt_secret(env).ok
           /\ resolve_vector_store(env, built, works, "local", resolve_store_path(env), resolve_sqlite_path(env)).ok
           /\ p.has["store"] = resolve_vector_store(env, built, works, "local", resolve_store_path(env),
                                                    resolve_sqlite_path(env)).value
<1> DEFINE names == <<"auth", "limits", "cors", "llm", "embedding", "reranker", "jwt", "store", "accounts", "history">>
           auth == resolve_auth_config(env)
           limits == resolve_engine_limits(env)
           cors == validate_cors_origin(resolve_cors_origin(env))
           llm == resolve_llm_provider(env, built, works)
           embedding == resolve_embedding_provider(env, built, works)
           reranker == resolve_reranker(env, built, works)
           jwt == resolve_jwt_secret(env)
           store == resolve_vector_store(env, built, works, "local", resolve_store_path(env), resolve_sqlite_path(env))
           accounts == Given(resolve_auth_store_path(env))
           history == Given(resolve_history_path(resolve_store_path(env)))
           steps == <<auth, limits, cors, llm, embedding, reranker, jwt, store, accounts, history>>
<1>1. p = Started("server", names, steps)
  BY DEF server_main
<1>2. DOMAIN names = 1 .. 10 /\ \A i, j \in 1 .. 10 : names[i] = names[j] => i = j
  OBVIOUS
<1> HIDE DEF auth, limits, cors, llm, embedding, reranker, jwt, store, accounts, history
<1>3. DOMAIN steps = 1 .. 10
  OBVIOUS
<1>4. /\ names[1] = "auth" /\ names[2] = "limits" /\ names[3] = "cors" /\ names[4] = "llm"
      /\ names[5] = "embedding" /\ names[8] = "store"
      /\ steps[1] = auth /\ steps[2] = limits /\ steps[3] = cors /\ steps[4] = llm /\ steps[5] = embedding
      /\ steps[7] = jwt /\ steps[8] = store
  OBVIOUS
<1> HIDE DEF names, steps
<1>5. p.program = "server" /\ \A i \in 1 .. 10 : steps[i].ok /\ p.has[names[i]] = steps[i].value
  BY <1>1, <1>2, <1>3, StartedFacts
<1>6. /\ 1 \in 1 .. 10 /\ 2 \in 1 .. 10 /\ 3 \in 1 .. 10 /\ 4 \in 1 .. 10 /\ 5 \in 1 .. 10 /\ 7 \in 1 .. 10
      /\ 8 \in 1 .. 10
  OBVIOUS
<1>7. /\ auth.ok /\ p.has["auth"] = auth.value /\ limits.ok /\ p.has["limits"] = limits.value
      /\ cors.ok /\ p.has["cors"] = cors.value /\ llm.ok /\ p.has["llm"] = llm.value
      /\ embedding.ok /\ p.has["embedding"] = embedding.value /\ jwt.ok
      /\ store.ok /\ p.has["store"] = store.value
  BY <1>4, <1>5, <1>6
<1> QED BY <1>5, <1>7 DEF auth, limits, cors, llm, embedding, jwt, store

LEMMA CliStarted ==
    ASSUME NEW env, NEW built, NEW works, NEW p, p = cli_main(env, built, works), p.status = "started"
    PROVE  /\ p.program = "cli"
           /\ resolve_llm_provider(env, built, works).ok
           /\ p.has["llm"] = resolve_llm_provider(env, built, works).value
           /\ resolve_embedding_provider(env, built, works).ok
           /\ p.has["embedding"] = resolve_embedding_provider(env, built, works).value
           /\ p.has["store"] = [kind |-> "local", place |-> cli_resolve_store_path(env), snapshot |-> TRUE]
<1> DEFINE names == <<"llm", "embedding", "reranker", "store", "history">>
           llm == resolve_llm_provider(env, built, works)
           embedding == resolve_embedding_provider(env, built, works)
           reranker == resolve_reranker(env, built, works)
           store == Store("local", cli_resolve_store_path(env), TRUE)
           history == Given(resolve_history_path(cli_resolve_store_path(env)))
           steps == <<llm, embedding, reranker, store, history>>
<1>1. p = Started("cli", names, steps)
  BY DEF cli_main, Remote, cli_resolve_llm_provider, cli_resolve_embedding_provider, cli_resolve_reranker
<1>2. DOMAIN names = 1 .. 5 /\ \A i, j \in 1 .. 5 : names[i] = names[j] => i = j
  OBVIOUS
<1>3. store.value = [kind |-> "local", place |-> cli_resolve_store_path(env), snapshot |-> TRUE]
  BY DEF Store, Given
<1> HIDE DEF llm, embedding, reranker, store, history
<1>4. DOMAIN steps = 1 .. 5
  OBVIOUS
<1>5. /\ names[1] = "llm" /\ names[2] = "embedding" /\ names[4] = "store"
      /\ steps[1] = llm /\ steps[2] = embedding /\ steps[4] = store
      /\ 1 \in 1 .. 5 /\ 2 \in 1 .. 5 /\ 4 \in 1 .. 5
  OBVIOUS
<1> HIDE DEF names, steps
<1>6. p.program = "cli" /\ \A i \in 1 .. 5 : steps[i].ok /\ p.has[names[i]] = steps[i].value
  BY <1>1, <1>2, <1>4, StartedFacts
<1>7. /\ llm.ok /\ p.has["llm"] = llm.value
      /\ embedding.ok /\ p.has["embedding"] = embedding.value /\ p.has["store"] = store.value
  BY <1>5, <1>6
<1> QED BY <1>3, <1>6, <1>7 DEF llm, embedding

LEMMA McpStarted ==
    ASSUME NEW env, NEW built, NEW works, NEW p, p = mcp_main(env, built, works), p.status = "started"
    PROVE  /\ p.program = "mcp"
           /\ resolve_llm_provider(env, built, works).ok
           /\ p.has["llm"] = resolve_llm_provider(env, built, works).value
           /\ resolve_embedding_provider(env, built, works).ok
           /\ p.has["embedding"] = resolve_embedding_provider(env, built, works).value
           /\ mcp_resolve_vector_store(env, built, works).ok
           /\ p.has["store"] = mcp_resolve_vector_store(env, built, works).value
<1> DEFINE names == <<"llm", "embedding", "store", "history">>
           llm == resolve_llm_provider(env, built, works)
           embedding == resolve_embedding_provider(env, built, works)
           store == mcp_resolve_vector_store(env, built, works)
           history == Given(resolve_history_path(mcp_resolve_store_path(env)))
           steps == <<llm, embedding, store, history>>
<1>1. p = Started("mcp", names, steps)
  BY DEF mcp_main, Remote, mcp_resolve_llm_provider, mcp_resolve_embedding_provider
<1>2. DOMAIN names = 1 .. 4 /\ \A i, j \in 1 .. 4 : names[i] = names[j] => i = j
  OBVIOUS
<1> HIDE DEF llm, embedding, store, history
<1>3. DOMAIN steps = 1 .. 4
  OBVIOUS
<1>4. /\ names[1] = "llm" /\ names[2] = "embedding" /\ names[3] = "store"
      /\ steps[1] = llm /\ steps[2] = embedding /\ steps[3] = store
      /\ 1 \in 1 .. 4 /\ 2 \in 1 .. 4 /\ 3 \in 1 .. 4
  OBVIOUS
<1> HIDE DEF names, steps
<1>5. p.program = "mcp" /\ \A i \in 1 .. 4 : steps[i].ok /\ p.has[names[i]] = steps[i].value
  BY <1>1, <1>2, <1>3, StartedFacts
<1>6. /\ llm.ok /\ p.has["llm"] = llm.value
      /\ embedding.ok /\ p.has["embedding"] = embedding.value /\ store.ok /\ p.has["store"] = store.value
  BY <1>4, <1>5
<1> QED BY <1>5, <1>6 DEF llm, embedding, store

-----------------------------------------------------------------------------
(* The resolve functions.                                                  *)
LEMMA GivenFacts ==
    ASSUME NEW v
    PROVE  /\ Given(v).ok /\ Given(v).value = v
           /\ ~Refuse(v).ok
BY DEF Given, Refuse

LEMMA ProviderFacts ==
    ASSUME NEW kind, NEW model, NEW url
    PROVE  Provider(kind, model, url).value.kind = kind
BY DEF Provider, Given

LEMMA OllamaFacts ==
    ASSUME NEW model, NEW default, NEW url, NEW r, r = OllamaProvider(model, default, url), r.ok
    PROVE  r.value.kind = "ollama"
<1>1. CASE validate(Or(model, default))
  BY <1>1, ProviderFacts DEF OllamaProvider
<1>2. CASE ~validate(Or(model, default))
  BY <1>2, GivenFacts DEF OllamaProvider
<1> QED BY <1>1, <1>2

LEMMA OneModelFacts ==
    ASSUME NEW kind, NEW model, NEW known, NEW works,
           NEW r, r = OneModelProvider(kind, model, known, works), r.ok
    PROVE  works /\ r.value.kind = kind
<1>1. CASE Or(model, known) = known /\ works
  BY <1>1, ProviderFacts DEF OneModelProvider
<1>2. CASE ~(Or(model, known) = known /\ works)
  BY <1>2, GivenFacts DEF OneModelProvider
<1> QED BY <1>1, <1>2

\* A provider that is found is the one the environment names, and is at hand
\* if it is not Ollama's.
LEMMA LlmFacts ==
    ASSUME NEW env, NEW built, NEW works, NEW r, r = resolve_llm_provider(env, built, works), r.ok
    PROVE  /\ r.value.kind = Or(env["LLM_PROVIDER"], "local")
           /\ r.value.kind \in {"local", "ollama"} \/ works
<1> DEFINE choice == Or(env["LLM_PROVIDER"], "local")
           url == resolve_ollama_base_url(env["LLM_BASE_URL"], env["OLLAMA_HOST"])
<1>1. r = CASE choice = "local" -> Provider("local", NoModel, NoUrl)
            [] choice = "ollama" /\ "ollama" \in built -> OllamaProvider(env["LLM_MODEL"], "qwen", url)
            [] choice = "candle" /\ "candle" \in built -> OneModelProvider("candle", env["LLM_MODEL"], "qwen-q4", works)
            [] OTHER -> Refuse("LLM_PROVIDER")
  BY DEF resolve_llm_provider
<1> HIDE DEF choice, url
<1>2. CASE choice = "local"
  <2>1. r = Provider("local", NoModel, NoUrl)
    BY <1>1, <1>2
  <2>2. r.value.kind = "local"
    BY <2>1, ProviderFacts
  <2> QED BY <1>2, <2>2 DEF choice
<1>3. CASE choice = "ollama" /\ "ollama" \in built
  <2>1. r = OllamaProvider(env["LLM_MODEL"], "qwen", url)
    BY <1>1, <1>3
  <2> QED BY <1>3, <2>1, OllamaFacts DEF choice
<1>4. CASE choice = "candle" /\ "candle" \in built
  <2>1. r = OneModelProvider("candle", env["LLM_MODEL"], "qwen-q4", works)
    BY <1>1, <1>4
  <2> QED BY <1>4, <2>1, OneModelFacts DEF choice
<1>5. CASE ~(choice = "local") /\ ~(choice = "ollama" /\ "ollama" \in built) /\ ~(choice = "candle" /\ "candle" \in built)
  <2>1. r = Refuse("LLM_PROVIDER")
    BY <1>1, <1>5
  <2> QED BY <2>1, GivenFacts
<1> QED BY <1>2, <1>3, <1>4, <1>5

LEMMA EmbeddingFacts ==
    ASSUME NEW env, NEW built, NEW works, NEW r, r = resolve_embedding_provider(env, built, works), r.ok
    PROVE  /\ r.value.kind = Or(env["EMBEDDING_PROVIDER"], "local")
           /\ r.value.kind \in {"local", "ollama"} \/ works
<1> DEFINE choice == Or(env["EMBEDDING_PROVIDER"], "local")
           url == resolve_ollama_base_url(env["EMBEDDING_BASE_URL"], env["OLLAMA_HOST"])
<1>1. r = CASE choice = "local" -> Provider("local", NoModel, NoUrl)
            [] choice = "ollama" /\ "ollama" \in built -> OllamaProvider(env["EMBEDDING_MODEL"], "nomic", url)
            [] choice = "fastembed" /\ "fastembed" \in built ->
                  OneModelProvider("fastembed", env["EMBEDDING_MODEL"], "minilm", works)
            [] OTHER -> Refuse("EMBEDDING_PROVIDER")
  BY DEF resolve_embedding_provider
<1> HIDE DEF choice, url
<1>2. CASE choice = "local"
  <2>1. r = Provider("local", NoModel, NoUrl)
    BY <1>1, <1>2
  <2>2. r.value.kind = "local"
    BY <2>1, ProviderFacts
  <2> QED BY <1>2, <2>2 DEF choice
<1>3. CASE choice = "ollama" /\ "ollama" \in built
  <2>1. r = OllamaProvider(env["EMBEDDING_MODEL"], "nomic", url)
    BY <1>1, <1>3
  <2> QED BY <1>3, <2>1, OllamaFacts DEF choice
<1>4. CASE choice = "fastembed" /\ "fastembed" \in built
  <2>1. r = OneModelProvider("fastembed", env["EMBEDDING_MODEL"], "minilm", works)
    BY <1>1, <1>4
  <2> QED BY <1>4, <2>1, OneModelFacts DEF choice
<1>5. CASE ~(choice = "local") /\ ~(choice = "ollama" /\ "ollama" \in built) /\ ~(choice = "fastembed" /\ "fastembed" \in built)
  <2>1. r = Refuse("EMBEDDING_PROVIDER")
    BY <1>1, <1>5
  <2> QED BY <2>1, GivenFacts
<1> QED BY <1>2, <1>3, <1>4, <1>5

\* A store that is found is the one the environment names, is at hand, and has
\* a snapshot exactly when it is the in-memory one.
LEMMA VectorStoreFacts ==
    ASSUME NEW env, NEW built, NEW works, NEW default, NEW store_path, NEW sqlite_path,
           NEW r, r = resolve_vector_store(env, built, works, default, store_path, sqlite_path), r.ok
    PROVE  /\ r.value.kind = Or(env["VECTOR_STORE"], default)
           /\ r.value.kind = "local" \/ works
           /\ r.value.snapshot = (r.value.kind = "local")
           /\ r.value.kind \notin Networked => r.value.place \in {store_path, sqlite_path}
<1> DEFINE choice == Or(env["VECTOR_STORE"], default)
<1>1. r = CASE choice = "local" -> Store("local", store_path, TRUE)
            [] choice = "sqlite" /\ "sqlite" \in built /\ works -> Store("sqlite", sqlite_path, FALSE)
            [] choice \in Networked \cap built -> NetworkedStore(choice, env, works)
            [] OTHER -> Refuse("VECTOR_STORE")
  BY DEF resolve_vector_store
<1>2. "local" \notin Networked /\ "sqlite" \notin Networked
  BY DEF Networked
<1> SUFFICES /\ r.value.kind = choice /\ (r.value.kind = "local" \/ works)
             /\ r.value.snapshot = (r.value.kind = "local")
             /\ r.value.kind \notin Networked => r.value.place \in {store_path, sqlite_path}
  OBVIOUS
<1> HIDE DEF choice
<1>3. CASE choice = "local"
  <2>1. r = Store("local", store_path, TRUE)
    BY <1>1, <1>2, <1>3
  <2>2. r.value.kind = "local" /\ r.value.place = store_path /\ r.value.snapshot = TRUE
    BY <2>1 DEF Store, Given
  <2> QED BY <1>3, <2>2
<1>4. CASE choice = "sqlite" /\ "sqlite" \in built /\ works
  <2>1. r = Store("sqlite", sqlite_path, FALSE)
    BY <1>1, <1>2, <1>4
  <2>2. r.value.kind = "sqlite" /\ r.value.place = sqlite_path /\ r.value.snapshot = FALSE
    BY <2>1 DEF Store, Given
  <2> QED BY <1>4, <2>2
<1>5. CASE choice \in Networked \cap built
  <2>1. r = NetworkedStore(choice, env, works)
    BY <1>1, <1>2, <1>5
  <2> DEFINE place == <<env["URL"], Or(env["NAME"], "memoria_vectors")>>
  <2>2. works /\ r = Store(choice, place, FALSE)
    BY <2>1, GivenFacts DEF NetworkedStore
  <2> HIDE DEF place
  <2>3. r.value.kind = choice /\ r.value.snapshot = FALSE
    <3>1. r = Given([kind |-> choice, place |-> place, snapshot |-> FALSE])
      BY <2>2 DEF Store
    <3>2. r.value = [kind |-> choice, place |-> place, snapshot |-> FALSE]
      BY <3>1, GivenFacts
    <3> QED BY <3>2
  <2> QED BY <1>2, <1>5, <2>2, <2>3
<1>6. CASE ~(choice = "local") /\ ~(choice = "sqlite" /\ "sqlite" \in built /\ works) /\ ~(choice \in Networked \cap built)
  <2>1. r = Refuse("VECTOR_STORE")
    BY <1>1, <1>6
  <2> QED BY <2>1, GivenFacts
<1> QED BY <1>3, <1>4, <1>5, <1>6

-----------------------------------------------------------------------------
(* The three properties, in every environment.                             *)
LEMMA EveryServerIsGuarded ==
    ASSUME NEW q
    PROVE  ServerIsGuarded(q)
<1> DEFINE env == q.env
           s == server_main(q.env, q.built, q.works)
<1> SUFFICES ASSUME s.status = "started"
             PROVE  /\ env["API_KEY"] \in {Unset, ""} => (s.has["auth"] = "open" /\ env["ALLOW_NO_AUTH"] = "1")
                    /\ env["JWT_SECRET"] \notin {Unset, ""}
                    /\ s.has["limits"] > 0
                    /\ s.has["cors"] # "*"
  BY DEF ServerIsGuarded
<1>1. /\ resolve_auth_config(env).ok /\ s.has["auth"] = resolve_auth_config(env).value
      /\ resolve_engine_limits(env).ok /\ s.has["limits"] = resolve_engine_limits(env).value
      /\ validate_cors_origin(resolve_cors_origin(env)).ok
      /\ s.has["cors"] = validate_cors_origin(resolve_cors_origin(env)).value
      /\ resolve_jwt_secret(env).ok
  <2>1. s = server_main(env, q.built, q.works)
    OBVIOUS
  <2> HIDE DEF env, s
  <2> QED BY <2>1, ServerStarted
<1> HIDE DEF env, s
<1>2. ASSUME env["API_KEY"] \in {Unset, ""} PROVE s.has["auth"] = "open" /\ env["ALLOW_NO_AUTH"] = "1"
  <2>1. env["ALLOW_NO_AUTH"] = "1"
    <3> SUFFICES ASSUME env["ALLOW_NO_AUTH"] # "1" PROVE FALSE
      OBVIOUS
    <3>1. resolve_auth_config(env) = Refuse("API_KEY")
      BY <1>2 DEF resolve_auth_config
    <3> QED BY <1>1, <3>1, GivenFacts
  <2>2. resolve_auth_config(env) = Given("open")
    BY <1>2, <2>1 DEF resolve_auth_config
  <2> QED BY <1>1, <2>1, <2>2, GivenFacts
<1>3. env["JWT_SECRET"] \notin {Unset, ""}
  <2> SUFFICES ASSUME env["JWT_SECRET"] \in {Unset, ""} PROVE FALSE
    OBVIOUS
  <2>1. resolve_jwt_secret(env) = Refuse("JWT_SECRET")
    BY DEF resolve_jwt_secret
  <2> QED BY <1>1, <2>1, GivenFacts
<1>4. s.has["limits"] > 0
  <2> DEFINE v == env["MAX_TOP_K"]
             r == resolve_engine_limits(env)
  <2>1. r = CASE v = Unset -> Given(DEFAULT_MAX_TOP_K)
              [] v # Unset /\ Trimmed(v) \in DOMAIN Number \ {"0"} -> Given(Number[Trimmed(v)])
              [] OTHER -> Refuse("MAX_TOP_K")
    BY DEF resolve_engine_limits, parse_positive_limit
  <2>2. s.has["limits"] = r.value /\ r.ok
    BY <1>1
  <2> HIDE DEF r, v
  <2>3. CASE v = Unset
    <3>1. r = Given(DEFAULT_MAX_TOP_K)
      BY <2>1, <2>3
    <3> QED BY <2>2, <3>1, GivenFacts DEF DEFAULT_MAX_TOP_K
  <2>4. CASE v # Unset /\ Trimmed(v) \in DOMAIN Number \ {"0"}
    <3>1. r = Given(Number[Trimmed(v)])
      BY <2>1, <2>4
    <3>2. Trimmed(v) = "7"
      BY <2>4 DEF Number
    <3>3. Number["7"] = 7
      BY DEF Number
    <3> QED BY <2>2, <3>1, <3>2, <3>3, GivenFacts
  <2>5. CASE ~(v = Unset) /\ ~(v # Unset /\ Trimmed(v) \in DOMAIN Number \ {"0"})
    <3>1. r = Refuse("MAX_TOP_K")
      BY <2>1, <2>5
    <3> QED BY <2>2, <3>1, GivenFacts
  <2> QED BY <2>3, <2>4, <2>5
<1>5. s.has["cors"] # "*"
  <2> DEFINE origin == resolve_cors_origin(env)
  <2>1. origin # "*"
    <3> SUFFICES ASSUME origin = "*" PROVE FALSE
      OBVIOUS
    <3>1. validate_cors_origin(origin) = Refuse("CORS_ORIGIN")
      BY DEF validate_cors_origin
    <3> QED BY <1>1, <3>1, GivenFacts
  <2> HIDE DEF origin
  <2>2. validate_cors_origin(origin) = Given(origin)
    BY <2>1 DEF validate_cors_origin
  <2> QED BY <1>1, <2>1, <2>2, GivenFacts DEF origin
<1> QED BY <1>2, <1>3, <1>4, <1>5

\* What the programs that started have.
LEMMA ProgramsStarted ==
    ASSUME NEW env, NEW built, NEW works,
           NEW p \in {server_main(env, built, works), cli_main(env, built, works), mcp_main(env, built, works)},
           p.status = "started"
    PROVE  /\ p.program \in {"server", "cli", "mcp"}
           /\ p.program = "server" => p = server_main(env, built, works)
           /\ p.program = "cli" => p = cli_main(env, built, works)
           /\ p.program = "mcp" => p = mcp_main(env, built, works)
           /\ resolve_llm_provider(env, built, works).ok
           /\ p.has["llm"] = resolve_llm_provider(env, built, works).value
           /\ resolve_embedding_provider(env, built, works).ok
           /\ p.has["embedding"] = resolve_embedding_provider(env, built, works).value
<1>1. CASE p = server_main(env, built, works)
  BY <1>1, ServerStarted
<1>2. CASE p = cli_main(env, built, works)
  BY <1>2, CliStarted, ZenonT(30)
<1>3. CASE p = mcp_main(env, built, works)
  BY <1>3, McpStarted
<1> QED BY <1>1, <1>2, <1>3

\* Where the store of a program may be, unless a server of its own holds it.
Places(env, program) ==
    CASE program = "server" -> {resolve_store_path(env), resolve_sqlite_path(env)}
      [] program = "cli" -> {cli_resolve_store_path(env)}
      [] program = "mcp" -> {mcp_resolve_store_path(env), mcp_resolve_sqlite_path(env)}

LEMMA PlacesOfPrograms ==
    ASSUME NEW env
    PROVE  /\ Places(env, "server") = {resolve_store_path(env), resolve_sqlite_path(env)}
           /\ Places(env, "cli") = {cli_resolve_store_path(env)}
           /\ Places(env, "mcp") = {mcp_resolve_store_path(env), mcp_resolve_sqlite_path(env)}
BY DEF Places

\* The store of a program that started.
LEMMA StoreStarted ==
    ASSUME NEW env, NEW built, NEW works,
           NEW p \in {server_main(env, built, works), cli_main(env, built, works), mcp_main(env, built, works)},
           p.status = "started"
    PROVE  /\ p.program # "cli" =>
                 p.has["store"].kind = Or(env["VECTOR_STORE"], IF p.program = "mcp" THEN "sqlite" ELSE "local")
           /\ p.has["store"].snapshot = (p.has["store"].kind = "local")
           /\ p.has["store"].kind = "local" \/ works
           /\ p.has["store"].kind \notin Networked => p.has["store"].place \in Places(env, p.program)
<1> DEFINE store == p.has["store"]
<1>1. CASE p.program = "server"
  <2>1. p = server_main(env, built, works)
    BY <1>1, ProgramsStarted
  <2>2. LET r == resolve_vector_store(env, built, works, "local", resolve_store_path(env), resolve_sqlite_path(env))
        IN  r.ok /\ store = r.value
    BY <2>1, ServerStarted
  <2> HIDE DEF store
  <2>3. /\ store.kind = Or(env["VECTOR_STORE"], "local")
        /\ store.kind = "local" \/ works
        /\ store.snapshot = (store.kind = "local")
        /\ store.kind \notin Networked => store.place \in {resolve_store_path(env), resolve_sqlite_path(env)}
    BY <2>2, VectorStoreFacts
  <2> QED BY <1>1, <2>3, PlacesOfPrograms DEF store
<1>2. CASE p.program = "cli"
  <2>1. p = cli_main(env, built, works)
    BY <1>2, ProgramsStarted
  <2>2. store = [kind |-> "local", place |-> cli_resolve_store_path(env), snapshot |-> TRUE]
    BY <2>1, CliStarted
  <2> HIDE DEF store
  <2>3. /\ store.kind = "local" /\ store.snapshot = (store.kind = "local")
        /\ store.place \in {cli_resolve_store_path(env)}
    BY <2>2
  <2> QED BY <1>2, <2>3, PlacesOfPrograms DEF store
<1>3. CASE p.program = "mcp"
  <2>1. p = mcp_main(env, built, works)
    BY <1>3, ProgramsStarted
  <2>2. LET r == resolve_vector_store(env, built, works, "sqlite", mcp_resolve_store_path(env), mcp_resolve_sqlite_path(env))
        IN  r.ok /\ store = r.value
    BY <2>1, McpStarted DEF mcp_resolve_vector_store
  <2> HIDE DEF store
  <2>3. /\ store.kind = Or(env["VECTOR_STORE"], "sqlite")
        /\ store.kind = "local" \/ works
        /\ store.snapshot = (store.kind = "local")
        /\ store.kind \notin Networked => store.place \in {mcp_resolve_store_path(env), mcp_resolve_sqlite_path(env)}
    BY <2>2, VectorStoreFacts
  <2> QED BY <1>3, <2>3, PlacesOfPrograms DEF store
<1> QED BY <1>1, <1>2, <1>3, ProgramsStarted

LEMMA NeverFallsBack ==
    ASSUME NEW q, q.works \in BOOLEAN
    PROVE  NothingFallsBack(q)
<1> SUFFICES ASSUME NEW p \in {server_main(q.env, q.built, q.works), cli_main(q.env, q.built, q.works),
                               mcp_main(q.env, q.built, q.works)},
                    p.status = "started"
             PROVE  /\ Names(q.env, "LLM_PROVIDER", "local", p.has["llm"].kind)
                    /\ Names(q.env, "EMBEDDING_PROVIDER", "local", p.has["embedding"].kind)
                    /\ p.program # "cli" =>
                         Names(q.env, "VECTOR_STORE", IF p.program = "mcp" THEN "sqlite" ELSE "local",
                               p.has["store"].kind)
                    /\ p.has["store"].snapshot = (p.has["store"].kind = "local")
                    /\ ~q.works => /\ {p.has["llm"].kind, p.has["embedding"].kind} \subseteq {"local", "ollama"}
                                   /\ p.has["store"].kind = "local"
  BY DEF NothingFallsBack
<1> DEFINE env == q.env
           built == q.built
           works == q.works
<1>1. p \in {server_main(env, built, works), cli_main(env, built, works), mcp_main(env, built, works)}
  OBVIOUS
<1>2. works \in BOOLEAN
  OBVIOUS
<1> HIDE DEF env, built, works
<1>3. /\ p.has["llm"].kind = Or(env["LLM_PROVIDER"], "local")
      /\ p.has["llm"].kind \in {"local", "ollama"} \/ works
  <2>1. LET r == resolve_llm_provider(env, built, works) IN r.ok /\ p.has["llm"] = r.value
    BY <1>1, ProgramsStarted
  <2> QED BY <2>1, LlmFacts
<1>4. /\ p.has["embedding"].kind = Or(env["EMBEDDING_PROVIDER"], "local")
      /\ p.has["embedding"].kind \in {"local", "ollama"} \/ works
  <2>1. LET r == resolve_embedding_provider(env, built, works) IN r.ok /\ p.has["embedding"] = r.value
    BY <1>1, ProgramsStarted
  <2> QED BY <2>1, EmbeddingFacts
<1>5. /\ p.program # "cli" =>
           p.has["store"].kind = Or(env["VECTOR_STORE"], IF p.program = "mcp" THEN "sqlite" ELSE "local")
      /\ p.has["store"].snapshot = (p.has["store"].kind = "local")
      /\ p.has["store"].kind = "local" \/ works
  BY <1>1, StoreStarted
<1>6. ~works => /\ {p.has["llm"].kind, p.has["embedding"].kind} \subseteq {"local", "ollama"}
                /\ p.has["store"].kind = "local"
  BY <1>2, <1>3, <1>4, <1>5
<1>7. /\ Names(env, "LLM_PROVIDER", "local", p.has["llm"].kind)
      /\ Names(env, "EMBEDDING_PROVIDER", "local", p.has["embedding"].kind)
      /\ p.program # "cli" =>
           Names(env, "VECTOR_STORE", IF p.program = "mcp" THEN "sqlite" ELSE "local", p.has["store"].kind)
  BY <1>3, <1>4, <1>5 DEF Names
<1> QED BY <1>5, <1>6, <1>7 DEF env, works

\* Without paths of their own the programs keep their files apart.
LEMMA PathsApart ==
    ASSUME NEW env, env["STORE_PATH"] = Unset, env["SQLITE_PATH"] = Unset
    PROVE  /\ resolve_store_path(env) = <<"~/.memoria", "server-store.json">>
           /\ resolve_sqlite_path(env) = <<"~/.memoria", "server-store.db">>
           /\ mcp_resolve_store_path(env) = <<"~/.memoria", "mcp-store.json">>
           /\ mcp_resolve_sqlite_path(env) = <<"~/.memoria", "mcp-store.db">>
           /\ cli_resolve_store_path(env) \in {<<"argument", "store">>, <<"configured", "store">>,
                                               <<"~/.memoria", "store.json">>}
<1>1. /\ resolve_store_path(env) = <<"~/.memoria", "server-store.json">>
      /\ resolve_sqlite_path(env) = <<"~/.memoria", "server-store.db">>
      /\ mcp_resolve_store_path(env) = <<"~/.memoria", "mcp-store.json">>
      /\ mcp_resolve_sqlite_path(env) = <<"~/.memoria", "mcp-store.db">>
  BY DEF resolve_store_path, resolve_sqlite_path, mcp_resolve_store_path, mcp_resolve_sqlite_path,
         Path, Home, IsSet
<1>2. cli_resolve_store_path(env) \in {<<"argument", "store">>, <<"configured", "store">>,
                                       <<"~/.memoria", "store.json">>}
  <2>1. CASE IsSet(env["ARG_STORE_PATH"])
    <3>1. cli_resolve_store_path(env) = <<"argument", "store">>
      BY <2>1 DEF cli_resolve_store_path, IsSet
    <3> QED BY <3>1
  <2>2. CASE ~IsSet(env["ARG_STORE_PATH"]) /\ env["CONFIG_FILE"] = "store_path"
    <3>1. cli_resolve_store_path(env) = <<"configured", "store">>
      BY <2>2 DEF cli_resolve_store_path, IsSet
    <3> QED BY <3>1
  <2>3. CASE ~IsSet(env["ARG_STORE_PATH"]) /\ env["CONFIG_FILE"] # "store_path"
    <3>1. cli_resolve_store_path(env) = <<"~/.memoria", "store.json">>
      BY <2>3 DEF cli_resolve_store_path, IsSet, Home
    <3> QED BY <3>1
  <2> QED BY <2>1, <2>2, <2>3
<1> QED BY <1>1, <1>2

LEMMA ProgramsAlwaysAgree ==
    ASSUME NEW q
    PROVE  ProgramsAgree(q)
<1> DEFINE env == q.env
           s == server_main(q.env, q.built, q.works)
           c == cli_main(q.env, q.built, q.works)
           m == mcp_main(q.env, q.built, q.works)
           up == {p \in {s, c, m} : p.status = "started"}
<1>1. \A p, o \in up : p.has["llm"] = o.has["llm"] /\ p.has["embedding"] = o.has["embedding"]
  BY ProgramsStarted
<1>2. ASSUME env["STORE_PATH"] = Unset, env["SQLITE_PATH"] = Unset,
             NEW p \in up, NEW o \in up, p.program # o.program,
             {p.has["store"].kind, o.has["store"].kind} \cap Networked = {}
      PROVE  p.has["store"].place # o.has["store"].place
  <2>1. /\ p \in {s, c, m} /\ p.status = "started" /\ p.has["store"].kind \notin Networked
        /\ o \in {s, c, m} /\ o.status = "started" /\ o.has["store"].kind \notin Networked
    BY <1>2
  <2>2. /\ p.has["store"].place \in Places(env, p.program) /\ p.program \in {"server", "cli", "mcp"}
        /\ o.has["store"].place \in Places(env, o.program) /\ o.program \in {"server", "cli", "mcp"}
    BY <2>1, StoreStarted, ProgramsStarted
  <2> HIDE DEF env, up, s, c, m
  <2>4. /\ resolve_store_path(env) = <<"~/.memoria", "server-store.json">>
        /\ resolve_sqlite_path(env) = <<"~/.memoria", "server-store.db">>
        /\ mcp_resolve_store_path(env) = <<"~/.memoria", "mcp-store.json">>
        /\ mcp_resolve_sqlite_path(env) = <<"~/.memoria", "mcp-store.db">>
        /\ cli_resolve_store_path(env) \in {<<"argument", "store">>, <<"configured", "store">>,
                                            <<"~/.memoria", "store.json">>}
    BY <1>2, PathsApart
  <2>5. /\ \A x \in Places(env, "server"), y \in Places(env, "cli") : x # y
        /\ \A x \in Places(env, "server"), y \in Places(env, "mcp") : x # y
        /\ \A x \in Places(env, "cli"), y \in Places(env, "mcp") : x # y
    BY <2>4, PlacesOfPrograms
  <2>6. CASE p.program = "server"
    <3>1. p.has["store"].place \in Places(env, "server")
      BY <2>2, <2>6
    <3>2. o.program = "cli" \/ o.program = "mcp"
      BY <1>2, <2>2, <2>6
    <3>3. o.has["store"].place \in Places(env, "cli") \/ o.has["store"].place \in Places(env, "mcp")
      BY <2>2, <3>2
    <3> QED BY <2>5, <3>1, <3>3
  <2>7. CASE p.program = "cli"
    <3>1. p.has["store"].place \in Places(env, "cli")
      BY <2>2, <2>7
    <3>2. o.program = "server" \/ o.program = "mcp"
      BY <1>2, <2>2, <2>7
    <3>3. o.has["store"].place \in Places(env, "server") \/ o.has["store"].place \in Places(env, "mcp")
      BY <2>2, <3>2
    <3> QED BY <2>5, <3>1, <3>3
  <2>8. CASE p.program = "mcp"
    <3>1. p.has["store"].place \in Places(env, "mcp")
      BY <2>2, <2>8
    <3>2. o.program = "server" \/ o.program = "cli"
      BY <1>2, <2>2, <2>8
    <3>3. o.has["store"].place \in Places(env, "server") \/ o.has["store"].place \in Places(env, "cli")
      BY <2>2, <3>2
    <3> QED BY <2>5, <3>1, <3>3
  <2> QED BY <2>2, <2>6, <2>7, <2>8
<1> QED BY <1>1, <1>2 DEF ProgramsAgree

\* In every environment, whatever a binary was built with and whether or not
\* what it needs is at hand, the programs start as StartsAsConfigured says.
THEOREM EveryStartIsAsConfigured ==
    ASSUME NEW q, q.works \in BOOLEAN
    PROVE  StartsAsConfigured(q)
BY EveryServerIsGuarded, NeverFallsBack, ProgramsAlwaysAgree DEF StartsAsConfigured

-----------------------------------------------------------------------------
(* The properties of DirectParts.                                          *)

Cards == [decimal : BOOLEAN, tenths : Int]

LEMMA AnswersAreNumbers == \A i \in 1 .. 3 : Answers[i] \in Seq(Cards)
<1>1. \A n \in Int : Whole(n) \in Cards /\ Decimal(n) \in Cards
  BY DEF Whole, Decimal, Cards
<1>2. /\ Answers[1] = <<Whole(8), Decimal(3)>> /\ Answers[2] = <<Whole(7)>> /\ Answers[3] = <<>>
  BY DEF Answers, NoAnswer
<1>3. \A a, b \in Cards : <<a, b>> \in Seq(Cards) /\ <<a>> \in Seq(Cards) /\ <<>> \in Seq(Cards)
  OBVIOUS
<1>4. Whole(8) \in Cards /\ Decimal(3) \in Cards /\ Whole(7) \in Cards
  BY <1>1
<1>5. Answers[1] \in Seq(Cards) /\ Answers[2] \in Seq(Cards) /\ Answers[3] \in Seq(Cards)
  BY <1>2, <1>3, <1>4
<1> QED BY <1>5

KindsOfRecord == {"memory", "expired", "entity", "unmatched"}

LEMMA TripleIsFunction ==
    ASSUME NEW S, NEW a \in S, NEW b \in S, NEW c \in S
    PROVE  <<a, b, c>> \in [1 .. 3 -> S]
OBVIOUS

\* The searches of the inputs are searches that a caller may ask.
LEMMA SearchIsAskable ==
    ASSUME NEW d \in [1 .. 3 -> Nat], NEW k \in [1 .. 3 -> KindsOfRecord], NEW w \in [1 .. 3 -> 0 .. Unfound],
           NEW l, NEW n \in Nat, NEW t \in Int,
           NEW how \in {"none", "local_overlap", "llm", "fastembed", "unconfigured"}
    PROVE  Askable(Search(d, k, w, l, n, t, how))
<1> DEFINE found == [i \in 1 .. 3 |-> [id |-> i, dist |-> d[i], kind |-> k[i], keyword |-> w[i],
                                       linked |-> i \in l, overlap |-> i % 3, answer |-> Answers[i]]]
<1>1. \A i \in 1 .. 3 : found[i] \in FoundRecord /\ found[i].id = i
  <2> TAKE i \in 1 .. 3
  <2>1. i \in Nat /\ d[i] \in Nat /\ k[i] \in KindsOfRecord /\ w[i] \in 0 .. Unfound /\ i % 3 \in Int
        /\ Answers[i] \in Seq(Cards) /\ (i \in l) \in BOOLEAN
    BY AnswersAreNumbers
  <2>2. found[i] = [id |-> i, dist |-> d[i], kind |-> k[i], keyword |-> w[i],
                    linked |-> i \in l, overlap |-> i % 3, answer |-> Answers[i]]
    OBVIOUS
  <2> HIDE DEF found
  <2> QED BY <2>1, <2>2 DEF FoundRecord, Cards, KindsOfRecord
<1>2. found \in [1 .. 3 -> FoundRecord]
  <2>1. found = [i \in 1 .. 3 |-> found[i]]
    OBVIOUS
  <2> HIDE DEF found
  <2> QED BY <1>1, <2>1
<1>3. Search(d, k, w, l, n, t, how) = [found |-> found, top_k |-> n, threshold |-> t, rerank |-> how]
  BY DEF Search
<1> HIDE DEF found
<1>4. found \in Seq(FoundRecord) /\ Len(found) = 3
  <2>1. SUFFICES ASSUME NEW m \in Nat, m = 3 PROVE found \in Seq(FoundRecord) /\ Len(found) = m
    OBVIOUS
  <2>2. found \in [1 .. m -> FoundRecord]
    BY <1>2, <2>1
  <2> QED BY <2>2, ListIsSeq
<1> DEFINE q == Search(d, k, w, l, n, t, how)
<1>5. q.found = found /\ q.top_k = n /\ q.threshold = t /\ q.rerank = how
  BY <1>3
<1> HIDE DEF q
<1>6. \A i, j \in 1 .. 3 : i # j => found[i].id # found[j].id
  BY <1>1
<1>7. Askable(q)
  BY <1>4, <1>5, <1>6 DEF Askable
<1> QED BY <1>7 DEF q

LEMMA SearchesAreAskable == \A q \in Searches : Askable(q)
<1>1. /\ Distances \in SUBSET [1 .. 3 -> Nat]
      /\ Keywords \in SUBSET [1 .. 3 -> 0 .. Unfound]
      /\ Kinds \in SUBSET [1 .. 3 -> KindsOfRecord]
      /\ <<0, 1, 2>> \in [1 .. 3 -> 0 .. Unfound]
      /\ NoThreshold \in Int
  <2>1. \A a, b, c \in Nat : <<a, b, c>> \in [1 .. 3 -> Nat]
    OBVIOUS
  <2>2. Distances \in SUBSET [1 .. 3 -> Nat]
    BY <2>1 DEF Distances
  <2>3. \A a, b, c \in 0 .. Unfound : <<a, b, c>> \in [1 .. 3 -> 0 .. Unfound]
    OBVIOUS
  <2>4. {0, 1, 2, 3, Unfound} \in SUBSET (0 .. Unfound)
    BY DEF Unfound
  <2>5. Keywords \in SUBSET [1 .. 3 -> 0 .. Unfound] /\ <<0, 1, 2>> \in [1 .. 3 -> 0 .. Unfound]
    BY <2>3, <2>4 DEF Keywords
  <2>6. \A a, b, c \in KindsOfRecord : <<a, b, c>> \in [1 .. 3 -> KindsOfRecord]
    BY TripleIsFunction
  <2>7. Kinds \in SUBSET [1 .. 3 -> KindsOfRecord]
    BY <2>6 DEF Kinds, KindsOfRecord
  <2> QED BY <2>2, <2>5, <2>7 DEF NoThreshold
<1>2. SUFFICES ASSUME NEW q \in Searches PROVE Askable(q)
  OBVIOUS
<1>3. CASE \E d \in Distances, k \in Kinds, w \in Keywords, l \in Links, n \in 1 .. 3, t \in {1, NoThreshold},
              how \in {"none", "local_overlap", "llm", "fastembed"} : q = Search(d, k, w, l, n, t, how)
  <2>1. PICK d \in Distances, k \in Kinds, w \in Keywords, l \in Links, n \in 1 .. 3, t \in {1, NoThreshold},
             how \in {"none", "local_overlap", "llm", "fastembed"} : q = Search(d, k, w, l, n, t, how)
    BY <1>3
  <2>2. n \in Nat /\ t \in Int
    BY <1>1
  <2> QED BY <1>1, <2>1, <2>2, SearchIsAskable
<1>4. CASE \E d \in Distances, k \in Kinds, n \in 0 .. 4, how \in {"none", "unconfigured"} :
              q = Search(d, k, <<0, 1, 2>>, {}, n, NoThreshold, how)
  <2>1. PICK d \in Distances, k \in Kinds, n \in 0 .. 4, how \in {"none", "unconfigured"} :
              q = Search(d, k, <<0, 1, 2>>, {}, n, NoThreshold, how)
    BY <1>4
  <2> QED BY <1>1, <2>1, SearchIsAskable
<1> QED BY <1>3, <1>4 DEF Searches

\* A store of the inputs, filled in any order: with vectors of two numbers, it
\* is one that any store may be asked about.
LEMMA ContentsAreHeld ==
    ASSUME NEW v \in [1 .. 4 -> Seq(Int)], \A i \in 1 .. 4 : Len(v[i]) = 2,
           NEW t, NEW m \in Int, NEW r \in Contents(v, t, m)
    PROVE  /\ Held(r) /\ Len(r) < U32
           /\ \A x \in Elements(r) : Len(x.vector) = 2
<1>1. U32 \in Nat /\ U32 > 4
  BY StoreReadsAssumption
<1> DEFINE four == 4
<1>2. PICK n \in 0 .. 4 : \E o \in Orders(n) : r = [i \in 1 .. n |-> Shape(o[i], v, t, m)]
  BY DEF Contents
<1>3. PICK o \in Orders(n) : r = [i \in 1 .. n |-> Shape(o[i], v, t, m)]
  BY <1>2
<1>4. n \in Nat /\ n =< 4 /\ o \in [1 .. n -> 1 .. n] /\ \A i, j \in 1 .. n : i # j => o[i] # o[j]
  BY DEF Orders
<1>5. ASSUME NEW i \in 1 .. n
      PROVE  IsRecord(r[i]) /\ r[i].id = o[i] /\ Len(r[i].vector) = 2
  <2>1. r[i] = [id |-> o[i], vector |-> v[o[i]], mine |-> o[i] # m, words |-> t[o[i]],
                bm25 |-> -(o[i] % 3), cover |-> -((o[i] + m) % 2)]
    BY <1>3 DEF Shape
  <2>2. o[i] \in 1 .. 4 /\ o[i] \in Int
    <3>1. o[i] \in 1 .. n
      BY <1>4
    <3>2. \A k \in 1 .. n : k \in 1 .. 4 /\ k \in Int
      BY <1>4
    <3> QED BY <3>1, <3>2
  <2>3. -(o[i] % 3) \in Int /\ -((o[i] + m) % 2) \in Int
    BY <2>2
  <2>4. v[o[i]] \in Seq(Int) /\ Len(v[o[i]]) = 2
    BY <2>2
  <2>5. (o[i] # m) \in BOOLEAN
    OBVIOUS
  <2> QED BY <2>1, <2>2, <2>3, <2>4, <2>5 DEF IsRecord
<1>6. r \in Seq(Elements(r)) /\ Len(r) = n /\ \A x \in Elements(r) : IsRecord(x)
  <2>1. r \in [1 .. n -> Elements(r)] /\ DOMAIN r = 1 .. n
    BY <1>3 DEF Elements
  <2>2. r \in Seq(Elements(r)) /\ Len(r) = n
    BY <1>4, <2>1, ListIsSeq
  <2> QED BY <1>5, <2>1, <2>2 DEF Elements
<1>7. ASSUME NEW i \in 1 .. n, NEW j \in 1 .. n, i # j PROVE r[i].id # r[j].id
  <2>1. r[i].id = o[i] /\ r[j].id = o[j]
    BY <1>5
  <2> QED BY <1>4, <1>7, <2>1
<1>8. Len(r) < U32
  BY <1>1, <1>4, <1>6
<1>9. \A x \in Elements(r) : Len(x.vector) = 2
  BY <1>5, <1>6 DEF Elements
<1> QED BY <1>6, <1>7, <1>8, <1>9 DEF Held

\* The vectors of the inputs are four, of two numbers each.
LEMMA VectorsAreTyped ==
    ASSUME NEW v \in {Near, Far}
    PROVE  v \in [1 .. 4 -> Seq(Int)] /\ \A i \in 1 .. 4 : Len(v[i]) = 2
<1> DEFINE Pairs == {w \in Seq(Int) : Len(w) = 2}
<1>1. \A a, b \in Int : <<a, b>> \in Pairs
  OBVIOUS
<1> HIDE DEF Pairs
<1>2. ASSUME NEW a, NEW b, NEW c, NEW d, NEW S, a \in S, b \in S, c \in S, d \in S
      PROVE  <<a, b, c, d>> \in [1 .. 4 -> S]
  BY <1>2
<1>3. /\ <<0, 0>> \in Pairs /\ <<0, 1>> \in Pairs /\ <<1, 1>> \in Pairs /\ <<0, 2>> \in Pairs
      /\ <<2, 2>> \in Pairs /\ <<3, 0>> \in Pairs /\ <<0, 3>> \in Pairs
  BY <1>1
<1>4. Near \in [1 .. 4 -> Pairs] /\ Far \in [1 .. 4 -> Pairs]
  BY <1>2, <1>3 DEF Near, Far
<1> QED BY <1>4 DEF Pairs

LEMMA InputsAreHeld ==
    ASSUME NEW v \in {Near, Far}, NEW t, NEW m \in Int, NEW r \in Contents(v, t, m)
    PROVE  Held(r) /\ Len(r) < U32 /\ \A x \in Elements(r) : Len(x.vector) = 2
BY VectorsAreTyped, ContentsAreHeld

LEMMA ListingsAreListable == \A q \in Listings : Listable(q)
<1> SUFFICES ASSUME NEW q \in Listings PROVE Listable(q)
  OBVIOUS
<1>1. PICK k \in StoreKinds, r \in Contents(Near, Short, 0), n \in {1, 2, 3, U32 - 1} :
         q = [kind |-> k, records |-> r, page |-> n]
  BY DEF Listings
<1>2. n \in 1 .. (U32 - 1)
  BY StoreReadsAssumption
<1>3. Held(r) /\ Len(r) < U32
  BY InputsAreHeld
<1> QED BY <1>1, <1>2, <1>3 DEF Listable

LEMMA LookupsAreSearchable == \A q \in Lookups : Searchable(q)
<1> SUFFICES ASSUME NEW q \in Lookups PROVE Searchable(q)
  OBVIOUS
<1>1. PICK k \in StoreKinds, r \in Contents(Near, Short, 0) \cup Contents(Far, Short, 2),
           n \in {1, 2, 3, U32 - 1}, t \in {NoLimit, 2, 3}, a \in {{}, {1}, {2, 3}} :
         q = [kind |-> k, records |-> r, vector |-> <<0, 0>>, top_k |-> n, threshold |-> t, missed |-> a]
  BY DEF Lookups
<1>2. n \in 1 .. (U32 - 1) /\ t \in Int
  BY StoreReadsAssumption DEF NoLimit
<1>3. Held(r) /\ \A x \in Elements(r) : Len(x.vector) = 2
  <2>1. CASE r \in Contents(Near, Short, 0)
    BY <2>1, InputsAreHeld
  <2>2. CASE r \in Contents(Far, Short, 2)
    BY <2>2, InputsAreHeld
  <2> QED BY <2>1, <2>2
<1>4. <<0, 0>> \in [{1, 2} -> Int]
  <2>1. {1, 2} = 1 .. 2
    OBVIOUS
  <2>2. <<0, 0>> \in [1 .. 2 -> Int]
    OBVIOUS
  <2> QED BY <2>1, <2>2
<1>5. /\ q.kind = k /\ q.records = r /\ q.vector = <<0, 0>> /\ q.top_k = n /\ q.threshold = t
  BY <1>1
<1> QED BY <1>2, <1>3, <1>4, <1>5 DEF Searchable

LEMMA KeywordLookupsAreSearchable == \A q \in KeywordLookups : KeywordSearchable(q)
<1> SUFFICES ASSUME NEW q \in KeywordLookups PROVE KeywordSearchable(q)
  OBVIOUS
<1> DEFINE C == Contents(Near, Short, 0) \cup Contents(Near, Long, 2)
<1>1. ASSUME NEW r \in C PROVE Held(r)
  <2>1. CASE r \in Contents(Near, Short, 0)
    BY <2>1, InputsAreHeld
  <2>2. CASE r \in Contents(Near, Long, 2)
    BY <2>2, InputsAreHeld
  <2> QED BY <1>1, <2>1, <2>2 DEF C
<1> HIDE DEF C
<1>2. CASE \E r \in C, w \in Wordings \cup {{}}, n \in {1, 2, 3}, g \in {{}, {1}, {2, 3}} :
              q = [kind |-> "sqlite", records |-> r, words |-> w, top_k |-> n, gone |-> g]
  BY <1>1, <1>2 DEF KeywordSearchable
<1>3. CASE \E r \in C, w \in Wordings \cup {{}}, n \in {1, 2, 3} :
              q = [kind |-> "postgres", records |-> r, words |-> w, top_k |-> n, gone |-> {}]
  BY <1>1, <1>3 DEF KeywordSearchable
<1> QED BY <1>2, <1>3 DEF KeywordLookups, C

LEMMA ExchangesAreTyped ==
    ASSUME NEW x \in Exchanges
    PROVE  x.server \in ServerOf(Memories, {{}}) /\ x.call \in CallOf({"r1"})
<1>1. x.server \in Servers /\ x.call \in Calls
  BY DEF Exchanges
<1>2. x.server \in ServerOf(Memories, {{}})
  BY <1>1, RequestsAssumption DEF Servers, ServerOf
<1>3. x.call \in CallOf({"r1"})
  BY <1>1 DEF Calls, CallOf
<1> QED BY <1>2, <1>3

\* Each part is asked one of its questions.
Asked ==
    /\ part = "search" => input \in Searches
    /\ part = "list" => input \in Listings
    /\ part = "nearest" => input \in Lookups
    /\ part = "words" => input \in KeywordLookups
    /\ part = "row" => input \in Rows
    /\ part = "server" => input \in Exchanges
    /\ part = "start" => input \in Starts

LEMMA AlwaysAsked == DirectSpec => []Asked
<1>1. DirectInit => Asked
  BY DEF DirectInit, Asked
<1>2. Asked /\ [DirectNext]_<<part, input, limiter>> => Asked'
  <2> SUFFICES ASSUME Asked, [DirectNext]_<<part, input, limiter>> PROVE Asked'
    OBVIOUS
  <2>1. CASE AskSearch
    BY <2>1 DEF AskSearch, Ask, Asked
  <2>2. CASE AskServer
    BY <2>2 DEF AskServer, Ask, Asked
  <2>3. CASE AskStart
    BY <2>3 DEF AskStart, Ask, Asked
  <2>4. CASE AskLimiter
    BY <2>4 DEF AskLimiter, Ask, Asked
  <2>5. CASE Limit
    BY <2>5 DEF Limit, Asked
  <2>6. CASE UNCHANGED <<part, input, limiter>>
    BY <2>6 DEF Asked
  <2>7. CASE AskList
    BY <2>7 DEF AskList, Ask, Asked
  <2>8. CASE AskNearest
    BY <2>8 DEF AskNearest, Ask, Asked
  <2>9. CASE AskWords
    BY <2>9 DEF AskWords, Ask, Asked
  <2>10. CASE AskRow
    BY <2>10 DEF AskRow, Ask, Asked
  <2> QED BY <2>1, <2>2, <2>3, <2>4, <2>5, <2>6, <2>7, <2>8, <2>9, <2>10 DEF DirectNext
<1> QED BY <1>1, <1>2, PTL DEF DirectSpec

\* A search keeps the best of the records it may return and lists none before
\* one that is better in every pass, from any of the questions (Memory::search).
\* SearchRanksWell has the same of every search there can be.
THEOREM SearchesRankTheBest == DirectSpec => []RanksTheBest
<1>1. Asked => RanksTheBest
  BY SearchesAreAskable, SearchRanksWell DEF Asked, RanksTheBest
<1> QED BY <1>1, AlwaysAsked, PTL

\* The six stores give every id once over the pages of a list, and give back
\* the records they were given (vector_store.rs).  EveryListIsComplete and
\* EveryRowReadsBack have it of every store, page and payload.
THEOREM StoresAlwaysGiveBack == DirectSpec => []StoresGiveBackEverything
<1>1. \A q \in Rows : ReadsBack(q)
  <2> SUFFICES ASSUME NEW q \in Rows PROVE ReadsBack(q)
    OBVIOUS
  <2>1. PICK k \in StoreKinds, f \in Payloads : q = [kind |-> k, payload |-> f]
    BY DEF Rows
  <2>2. f = [x \in DOMAIN f |-> f[x]]
    BY DEF Payloads
  <2> QED BY <2>1, <2>2, EveryRowReadsBack
<1>2. Asked => StoresGiveBackEverything
  BY <1>1, ListingsAreListable, EveryListIsComplete DEF Asked, StoresGiveBackEverything
<1> QED BY <1>2, AlwaysAsked, PTL

\* Each store finds the best of what fits by its own measure (the search and
\* keyword_search of vector_store.rs).  EverySearchKeepsTheNearest and
\* EveryKeywordSearchKeepsTheBest have it of every store and question.
THEOREM StoresAlwaysFindTheBest == DirectSpec => []StoresFindTheBest
<1>1. Asked => StoresFindTheBest
  BY LookupsAreSearchable, EverySearchKeepsTheNearest, KeywordLookupsAreSearchable, EveryKeywordSearchKeepsTheBest
     DEF Asked, StoresFindTheBest
<1> QED BY <1>1, AlwaysAsked, PTL

\* A request the server refuses leaves no trace, one that succeeds is saved,
\* and only an administrator deletes in bulk (the routes, layers and handlers
\* of the server).  EveryExchangeIsInOrder has it of every server and request.
THEOREM RequestsStayGuarded == DirectSpec => []RequestsAreGuarded
<1>1. Asked => RequestsAreGuarded
  BY ExchangesAreTyped, EveryExchangeIsInOrder DEF Asked, RequestsAreGuarded
<1> QED BY <1>1, AlwaysAsked, PTL

\* A program that starts uses what its environment names, and the server never
\* starts unguarded without being told (the resolve functions and main of the
\* three programs).  EveryStartIsAsConfigured has it of every environment.
THEOREM StartsAreAsConfigured == DirectSpec => []OnlyAsConfigured
<1>1. \A q \in Starts : q.works \in BOOLEAN
  <2> SUFFICES ASSUME NEW q \in Starts PROVE q.works \in BOOLEAN
    OBVIOUS
  <2>1. CASE q \in {[env |-> e, built |-> b, works |-> w] : e \in Own, b \in {{}}, w \in {TRUE}}
    <3>1. PICK e \in Own, b \in {{}}, w \in {TRUE} : q = [env |-> e, built |-> b, works |-> w]
      BY <2>1
    <3>2. w \in BOOLEAN
      OBVIOUS
    <3> QED BY <3>1, <3>2
  <2>2. CASE q \in {[env |-> e, built |-> b, works |-> w] :
                       e \in Models \cup Embeddings \cup Stores, b \in {{}, AllFeatures}, w \in BOOLEAN}
    BY <2>2
  <2> QED BY <2>1, <2>2 DEF Starts
<1>2. Asked => OnlyAsConfigured
  BY <1>1, EveryStartIsAsConfigured DEF Asked, OnlyAsConfigured
<1> QED BY <1>2, AlwaysAsked, PTL

\* Among the other parts too the limiter keeps to its budget
\* (RateLimiter::check_and_consume).
THEOREM BudgetIsKeptAmongTheParts == DirectSpec => []BudgetHolds
<1>1. DirectInit => LimiterInit
  BY DEF DirectInit
<1>2. [DirectNext]_<<part, input, limiter>> => [LimiterNext]_limiter
  BY DEF DirectNext, AskSearch, AskList, AskNearest, AskWords, AskRow, AskServer, AskStart, AskLimiter, Ask, Limit
<1>3. DirectSpec => LimiterSpec
  BY <1>1, <1>2, PTL DEF DirectSpec, LimiterSpec
<1> QED BY <1>3, BudgetIsKept, PTL
=============================================================================
