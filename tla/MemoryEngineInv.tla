-------------------------- MODULE MemoryEngineInv --------------------------
(***************************************************************************)
(* The inductive invariant of MemoryEngine.                                *)
(*                                                                         *)
(* Its parts are stated of a store st, the scopes og under which ids were  *)
(* inserted and the next id nx, so that one part can be compared before    *)
(* and after a step.  What a call has read stays useful because the store  *)
(* only Evolves: ids below nx are never revived, and a live record keeps   *)
(* its kind and its scope.                                                 *)
(***************************************************************************)
EXTENDS MemoryEngine

Used(nx) == {i \in Ids : i < nx}

Present(st, i) == st[i] # NoRecord

\* The links of r name inserted memories whose scope r carries.
LinksOK(og, nx, r) == \A m \in r.links : m \in Used(nx) /\ og[m] \subseteq r.tags

StoreOK(st, og, nx) ==
  \A i \in Ids : Present(st, i) =>
    /\ i \in Used(nx)
    /\ st[i].tags = og[i]
    /\ LinksOK(og, nx, st[i])

HistoryOK(st, nx, h) ==
  \A i \in Ids : (\E n \in 1 .. Len(h[i]) : h[i][n] = "Deleted") =>
    i \in Used(nx) /\ ~Present(st, i)

Evolves(st, og, nx, st2, og2, nx2) ==
  /\ Used(nx) \subseteq Used(nx2)
  /\ \A i \in Used(nx) :
       /\ og2[i] = og[i]
       /\ Present(st2, i) => /\ Present(st, i)
                             /\ st2[i].tags = st[i].tags
                             /\ st2[i].kind = st[i].kind

-----------------------------------------------------------------------------
(* A call at label l with the local variables j.                           *)

AddOK(og, nx, l, j) ==
  /\ l \in {"dedup", "insert", "log", "linkList", "linkScan", "linkUpdate"} =>
       j.items # <<>> /\ j.query.tags \in Scopes
  /\ l \in {"log", "linkList", "linkScan", "linkUpdate"} =>
       j.mem \in Used(nx) /\ og[j.mem] = j.query.tags
  /\ l \in {"linkScan", "linkUpdate"} => j.ent \in Entities

\* The copy may be written back: it has the scope and kind of the record.
WriteBackOK(st, og, nx, l, j) ==
  l \in {"linkUpdate", "updStore"} =>
    /\ j.id \in Used(nx)
    /\ j.copy \in Record
    /\ j.copy.tags = og[j.id]
    /\ LinksOK(og, nx, j.copy)
    /\ Present(st, j.id) => st[j.id].kind = j.copy.kind

DeleteOK(st, nx, l, j) ==
  /\ l \in {"delGet", "delStore", "delLog"} => j.id \in Used(nx)
  /\ l = "delLog" => ~Present(st, j.id)

ScanOK(nx, j) == j.todo \cup j.seen \cup j.out \subseteq Used(nx)

ResetLabels == {"reset", "delGet", "delStore", "delLog"}

\* Of the ids that reset has dealt with, only the one it is about to delete
\* may still be in the scope, and that one is in the scope.
ResetOK(st, l, j) ==
  /\ l \in {"reset", "delGet"} => j.op = "reset"
  /\ (l \in ResetLabels /\ j.op = "reset" /\ j.query.meta = NoValue) =>
       \A i \in j.seen \ j.todo :
         \/ ~Present(st, i)
         \/ ~(j.query.tags \subseteq st[i].tags)
         \/ l \in {"delGet", "delStore"} /\ i = j.id
  /\ (l \in {"delGet", "delStore"} /\ j.op = "reset" /\ Present(st, j.id)) =>
       j.query.tags \subseteq st[j.id].tags

ListOK(st, l, j) ==
  (l = "list" /\ "get" \notin Faults) =>
    \A i \in j.out : Present(st, i) =>
      st[i].kind = "memory" /\ j.query.tags \subseteq st[i].tags

JobOK(st, og, nx, l, j) ==
  /\ AddOK(og, nx, l, j)
  /\ WriteBackOK(st, og, nx, l, j)
  /\ DeleteOK(st, nx, l, j)
  /\ ScanOK(nx, j)
  /\ ResetOK(st, l, j)
  /\ ListOK(st, l, j)

EngineInv ==
  /\ TypeOK
  /\ StoreOK(store, origin, nextId)
  /\ HistoryOK(store, nextId, history)
  /\ \A t \in Threads : JobOK(store, origin, nextId, pc[t], job[t])
=============================================================================
