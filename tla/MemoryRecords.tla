--------------------------- MODULE MemoryRecords ---------------------------
(***************************************************************************)
(* The records that a memoria vector store holds, and the predicates that  *)
(* core/src/memory.rs evaluates on one record.                             *)
(*                                                                         *)
(* A payload is a string map.  Its scope entries (user_id, agent_id,       *)
(* run_id with their values) are a set of tags, so that "every scope entry *)
(* occurs in the payload" is set inclusion; all other metadata is one      *)
(* value, NoValue when there is none.  The vector is left out: equal       *)
(* contents have equal vectors and nothing below tells them apart further. *)
(***************************************************************************)
EXTENDS Naturals, FiniteSets, Sequences

CONSTANTS
  MaxId,       \* Bounds the model: record ids are 1 .. MaxId
  Tags,        \* scope entries: a key with its value
  Scopes,      \* the scopes clients use; each holds a user, agent or run id
  Metas,       \* values of the other metadata
  Stale,       \* those of them that carry an expiration date in the past
  Contents,    \* texts of messages and facts
  Entities,    \* (type, text) pairs that extract_entities can find
  EntitiesOf,  \* the entities found in a content
  NoValue      \* an absent map entry, or no record

ASSUME MaxIdAssumption == MaxId \in Nat
ASSUME ScopesAssumption == Scopes \subseteq (SUBSET Tags) \ {{}}
ASSUME StaleAssumption == Stale \subseteq Metas
ASSUME EntitiesOfAssumption == EntitiesOf \in [Contents -> SUBSET Entities]
ASSUME NoValueAssumption == NoValue \notin Contents \cup Entities \cup Metas

Ids == 1 .. MaxId

\* What a caller passes as scope: scope entries, and for add also metadata.
Query == [tags : SUBSET Tags, meta : Metas \cup {NoValue}]

\* A VectorRecord: a memory, or the entity record that lists the memories
\* which mention an entity (linked_memory_ids).
Record ==
  [kind    : {"memory", "entity"},
   tags    : SUBSET Tags,
   meta    : Metas \cup {NoValue},
   content : Contents \cup {NoValue},
   entity  : Entities \cup {NoValue},
   links   : SUBSET Ids]

NoRecord == NoValue
ASSUME NoRecordAssumption == NoRecord \notin Record

\* (A scope that has an entry named content keeps it instead of the fact in the
\* code; no client passes one, and Query has none.)
MemoryRecord(q, c) ==
  [kind |-> "memory", tags |-> q.tags, meta |-> q.meta,
   content |-> c, entity |-> NoValue, links |-> {}]

EntityRecord(q, e, memory) ==
  [kind |-> "entity", tags |-> q.tags, meta |-> q.meta,
   content |-> NoValue, entity |-> e, links |-> {memory}]

\* Faulty variant: some entry of the scope occurs in the payload.
MatchesSome(q, r) ==
  \/ q.tags \cap r.tags # {}
  \/ q.meta # NoValue /\ q.meta = r.meta

\* Every entry of the scope occurs in the payload.
Matches(q, r) ==
  /\ q.tags \subseteq r.tags
  /\ q.meta \in {NoValue, r.meta}

IsEntityRecord(r) == r.kind = "entity"

IsExpired(r) == r.meta \in Stale

\* Faulty variant: list does not compare the scope.
ListKeepsAll(q, showExpired, r) ==
  ~IsEntityRecord(r) /\ (showExpired \/ ~IsExpired(r))

\* Does list(scope, show_expired) keep a record that it could read?
ListKeeps(q, showExpired, r) ==
  /\ ~IsEntityRecord(r)
  /\ Matches(q, r)
  /\ showExpired \/ ~IsExpired(r)

\* Is r the record that find_existing_entity_record looks for?
IsEntityFor(q, e, r) ==
  /\ IsEntityRecord(r)
  /\ Matches(q, r)
  /\ r.entity = e

\* The arguments of update: new content, new metadata, and the scope entries
\* that the metadata map names.
Edit ==
  [content : Contents \cup {NoValue},
   meta    : Metas \cup {NoValue},
   scope   : Scopes \cup {{}}]

\* Faulty variant: update does not validate the metadata.
EditUnchecked(edit) == TRUE

\* update refuses a metadata map that names user_id, agent_id or run_id.
EditAllowed(edit) == edit.scope = {}

\* update merges the edit into the payload that it read.
Merge(r, edit) ==
  [r EXCEPT !.content = IF edit.content = NoValue THEN @ ELSE edit.content,
            !.meta    = IF edit.meta = NoValue THEN @ ELSE edit.meta,
            !.tags    = IF edit.scope = {} THEN @ ELSE edit.scope]
=============================================================================
