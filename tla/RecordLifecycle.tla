-------------------------- MODULE RecordLifecycle --------------------------
(***************************************************************************)
(* What the memory engine promises about one record, whichever calls run   *)
(* at the same time: an id is used once; its record is created under a     *)
(* scope that never changes, is removed at most once and never comes back; *)
(* and the history speaks of a deletion only after the removal.            *)
(***************************************************************************)
CONSTANTS RecordIds, ScopeSets

VARIABLES
  phase,    \* "unborn", then "live", then "gone"
  scope,    \* the scope of each record, {} before it is created
  audited   \* the ids whose history tells of their deletion

lifecycle == <<phase, scope, audited>>

LifecycleInit ==
  /\ phase = [i \in RecordIds |-> "unborn"]
  /\ scope = [i \in RecordIds |-> {}]
  /\ audited = {}

Create(i, s) ==
  /\ phase[i] = "unborn"
  /\ phase' = [phase EXCEPT ![i] = "live"]
  /\ scope' = [scope EXCEPT ![i] = s]
  /\ UNCHANGED audited

Remove(i) ==
  /\ phase[i] = "live"
  /\ phase' = [phase EXCEPT ![i] = "gone"]
  /\ UNCHANGED <<scope, audited>>

Audit(i) ==
  /\ phase[i] = "gone"
  /\ audited' = audited \cup {i}
  /\ UNCHANGED <<phase, scope>>

LifecycleNext ==
  \E i \in RecordIds :
    \/ \E s \in ScopeSets : Create(i, s)
    \/ Remove(i)
    \/ Audit(i)

LifecycleSpec == LifecycleInit /\ [][LifecycleNext]_lifecycle
=============================================================================
