------------------------- MODULE DreamSessionCount -------------------------
(***************************************************************************)
(* DreamLock with a history variable: which sessions were counted since    *)
(* the last consolidation.                                                 *)
(***************************************************************************)
EXTENDS DreamLock

VARIABLE counted

CountInit == Init /\ counted = {}

CountNext ==
  /\ Next
  /\ counted' =
       IF recorded' # recorded
       THEN {}
       ELSE counted \cup {task[p].session : p \in {q \in Processes : FillCount(q)}}

CountSpec == CountInit /\ [][CountNext]_<<vars, counted>>

\* The sessions counted since the last consolidation are distinct (README.md
\* of the plugin: "5 distinct sessions since").
SessionsAreDistinct == state # Nothing => state.sessionsSince <= Cardinality(counted)
=============================================================================
