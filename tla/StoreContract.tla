--------------------------- MODULE StoreContract ---------------------------
(***************************************************************************)
(* What the trait VectorStore promises its callers, whatever the store     *)
(* behind it: each call changes the table at one instant between its       *)
(* beginning and its answer, or not at all.  A call that ends with an      *)
(* error may have changed the table.                                       *)
(***************************************************************************)
CONSTANTS Callers, Ids, Values, Nothing, NoCall

VARIABLES
  table,    \* the record of each id, or Nothing
  call,     \* the call of each caller, with its answer as soon as it is known
  revivals  \* an update may bring back what another process has deleted

Call == [op : {"insert", "update", "delete", "reset"}, id : Ids, value : Values,
         answer : {"none", "ok", "missing"}]

Init == table \in [Ids -> Values \cup {Nothing}] /\ call = [c \in Callers |-> NoCall] /\ revivals \in BOOLEAN

Begin(c) ==
  /\ call[c] = NoCall
  /\ \E new \in Call : new.answer = "none" /\ call' = [call EXCEPT ![c] = new]
  /\ UNCHANGED <<table, revivals>>

Pending(c, op) == call[c] # NoCall /\ call[c].op = op /\ call[c].answer = "none"

\* The call takes effect and its answer is known.
Effect(c, answer, now) ==
  /\ call' = [call EXCEPT ![c].answer = answer]
  /\ table' = now
  /\ UNCHANGED revivals

Insert(c) == Pending(c, "insert") /\ Effect(c, "ok", [table EXCEPT ![call[c].id] = call[c].value])

Update(c) ==
  /\ Pending(c, "update") /\ (table[call[c].id] # Nothing \/ revivals)
  /\ Effect(c, "ok", [table EXCEPT ![call[c].id] = call[c].value])

UpdateMissing(c) ==
  Pending(c, "update") /\ table[call[c].id] = Nothing /\ Effect(c, "missing", table)

Delete(c) == Pending(c, "delete") /\ Effect(c, "ok", [table EXCEPT ![call[c].id] = Nothing])

Reset(c) == Pending(c, "reset") /\ Effect(c, "ok", [i \in Ids |-> Nothing])

\* The call returns: its answer if there is one, or an error.
Return(c) ==
  /\ call[c] # NoCall
  /\ call' = [call EXCEPT ![c] = NoCall]
  /\ UNCHANGED <<table, revivals>>

\* A process ends, and the calls of its callers with it.
Stop ==
  /\ \E gone \in SUBSET Callers : call' = [c \in Callers |-> IF c \in gone THEN NoCall ELSE call[c]]
  /\ UNCHANGED <<table, revivals>>

Next ==
  \/ Stop
  \/ \E c \in Callers :
       \/ Begin(c) \/ Return(c)
       \/ Insert(c) \/ Update(c) \/ UpdateMissing(c) \/ Delete(c) \/ Reset(c)

Spec == Init /\ [][Next]_<<table, call, revivals>>
=============================================================================
