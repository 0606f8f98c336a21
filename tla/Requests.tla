------------------------------ MODULE Requests -----------------------------
(***************************************************************************)
(* What the HTTP server does with one request on its memory routes         *)
(* (src/server/src/main.rs): the size limit, the CORS answer, the routes,  *)
(* the authorisation, the rate limiter, the handler, the save and the      *)
(* request log, in that order.  The account routes are in Accounts, and    *)
(* how the saves of concurrent requests interleave in SnapshotFiles.       *)
(*                                                                         *)
(* A server is the record                                                  *)
(*   [key     |-> whether an admin key is configured,                      *)
(*    persist |-> whether the store is the in-memory one with a snapshot,  *)
(*    records |-> the memories: a function from ids to what they say,      *)
(*    history |-> the set of <<id, event>>,                                *)
(*    file, historyFile |-> what is saved of the two,                      *)
(*    tokens  |-> the requests the limiter lets the caller still make,     *)
(*    log     |-> how many entries the request log has].                   *)
(* A request is a route, a credential, a body, the id it names, how the    *)
(* engine takes it, its size and whether it is a CORS preflight.           *)
(***************************************************************************)
EXTENDS Integers, Sequences, FiniteSets

CONSTANT MAX_ENTRIES             \* of the request log

ASSUME RequestsAssumption == MAX_ENTRIES \in Nat

Owner == [i \in {"r1", "r2", "r3", "n1", "n2"} |-> IF i = "r2" THEN "bob" ELSE "alice"]
Facts == <<"n1", "n2">>          \* what a create extracts

-----------------------------------------------------------------------------
(* Credentials: the admin key or a session as a bearer token, an API key   *)
(* in its own header.  A session that has expired, and a key that was      *)
(* revoked, are like none.                                                 *)
Credentials == {"none", "admin key", "admin session", "user session", "api key"}

is_authorized(s, cred) == ~s.key \/ cred # "none"
\* Whoever is let in taken for an administrator.
AnyoneIsAdmin(s, cred) == is_authorized(s, cred)
caller_is_admin(s, cred) == (s.key /\ cred = "admin key") \/ cred = "admin session"

-----------------------------------------------------------------------------
(* Handlers: the status of the answer and what becomes of the memories.    *)
(* The engine may refuse a request as invalid, break before it changed     *)
(* anything, or break midway.                                              *)
Answer(status, s) == [status |-> status, records |-> s.records, history |-> s.history]
error_response(engine) == CASE engine = "refuses" -> 400 [] engine = "misses" -> 404 [] OTHER -> 500

Added(s, ids) ==
    [s EXCEPT !.records = [i \in DOMAIN @ \cup ids |-> IF i \in ids THEN "first" ELSE @[i]],
              !.history = @ \cup (ids \X {"added"})]
Deleted(s, ids) ==
    [s EXCEPT !.records = [i \in DOMAIN @ \ ids |-> @[i]],
              !.history = @ \cup (ids \X {"deleted"})]

handle_create_memory(s, q) ==
    IF q.body # "good" THEN Answer(400, s)
    ELSE CASE q.engine = "works"         -> Answer(201, Added(s, {Facts[1], Facts[2]}))
           [] q.engine = "breaks midway" -> Answer(500, Added(s, {Facts[1]}))
           [] OTHER                      -> Answer(error_response(q.engine), s)

handle_get_memory(s, q) ==
    IF q.engine # "works" THEN Answer(error_response(q.engine), s)
    ELSE IF q.id \in DOMAIN s.records THEN Answer(200, s) ELSE Answer(404, s)

\* The other routes that only read.
Read(s, q) == IF q.engine = "works" THEN Answer(200, s) ELSE Answer(error_response(q.engine), s)
handle_list_memory(s, q) == Read(s, q)
handle_get_history(s, q) == Read(s, q)
handle_list_entities(s, q) == Read(s, q)
handle_search_memory(s, q) == IF q.body # "good" THEN Answer(400, s) ELSE Read(s, q)
handle_health(s, q) == Answer(200, s)
handle_ready(s, q) == IF q.engine = "works" THEN Answer(200, s) ELSE Answer(503, s)
handle_get_configure(s, q) == Answer(200, s)
handle_get_configure_providers(s, q) == Answer(200, s)
handle_generate_instructions(s, q) == Answer(200, s)
handle_get_requests(s, q) == Answer(IF caller_is_admin(s, q.cred) THEN 200 ELSE 403, s)

handle_update_memory(s, q) ==
    IF q.body # "good" THEN Answer(400, s)
    ELSE IF q.engine # "works" THEN Answer(error_response(q.engine), s)
    ELSE IF q.id \notin DOMAIN s.records THEN Answer(404, s)
    ELSE Answer(200, [s EXCEPT !.records[q.id] = "second"])

handle_delete_memory(s, q) ==
    IF q.engine = "works" THEN Answer(200, Deleted(s, {q.id} \cap DOMAIN s.records))
    ELSE Answer(error_response(q.engine), s)

\* A reset deletes one record after the other and stops at the first error.
Reset(s, q, ids) ==
    CASE q.engine = "works" -> Answer(200, Deleted(s, ids))
      [] q.engine = "breaks midway" /\ ids # {} -> Answer(500, Deleted(s, {CHOOSE i \in ids : TRUE}))
      [] OTHER -> Answer(error_response(q.engine), s)
Of(s, user) == {i \in DOMAIN s.records : Owner[i] = user}

handle_delete_all(s, q) ==
    IF ~caller_is_admin(s, q.cred) THEN Answer(403, s)
    ELSE IF q.body # "good" THEN Answer(400, s)
    ELSE Reset(s, q, Of(s, "alice"))
handle_delete_entity(s, q) ==
    IF ~caller_is_admin(s, q.cred) THEN Answer(403, s)
    ELSE IF q.body # "good" THEN Answer(400, s)         \* an entity type that is none
    ELSE Reset(s, q, Of(s, "alice"))
handle_reset_all(s, q) ==
    IF ~caller_is_admin(s, q.cred) THEN Answer(403, s) ELSE Reset(s, q, DOMAIN s.records)

-----------------------------------------------------------------------------
(* Around the handlers.                                                    *)
append(log) == IF log = MAX_ENTRIES THEN log ELSE log + 1

\* What is saved when the status is the one the route saves on.
Saving(s, a, status, both) ==
    LET after == [s EXCEPT !.records = a.records, !.history = a.history]
    IN  IF s.persist /\ a.status = status
        THEN [after EXCEPT !.file = a.records, !.historyFile = IF both THEN a.history ELSE @]
        ELSE after
Keeping(s, a) == [s EXCEPT !.records = a.records, !.history = a.history]

wrap_handler(s, status, after) ==
    IF s.tokens = 0 THEN [status |-> 429, server |-> s]
    ELSE [status |-> status, server |-> [after EXCEPT !.tokens = s.tokens - 1, !.log = append(s.log)]]

Wrapped(s, a) == wrap_handler(s, a.status, Keeping(s, a))
axum_handle_health(s, q) == Wrapped(s, handle_health(s, q))
axum_handle_ready(s, q) == Wrapped(s, handle_ready(s, q))
axum_handle_list_entities(s, q) == Wrapped(s, handle_list_entities(s, q))
axum_handle_get_configure(s, q) == Wrapped(s, handle_get_configure(s, q))
axum_handle_get_configure_providers(s, q) == Wrapped(s, handle_get_configure_providers(s, q))
axum_handle_generate_instructions(s, q) == Wrapped(s, handle_generate_instructions(s, q))
axum_handle_get_requests(s, q) == Wrapped(s, handle_get_requests(s, q))
axum_handle_list_memory(s, q) == Wrapped(s, handle_list_memory(s, q))
axum_handle_get_memory(s, q) == Wrapped(s, handle_get_memory(s, q))
axum_handle_search_memory(s, q) == Wrapped(s, handle_search_memory(s, q))
axum_handle_get_history(s, q) == Wrapped(s, handle_get_history(s, q))

axum_handle_create_memory(s, q) ==
    LET a == handle_create_memory(s, q) IN wrap_handler(s, a.status, Saving(s, a, 201, TRUE))
axum_handle_update_memory(s, q) ==
    LET a == handle_update_memory(s, q) IN wrap_handler(s, a.status, Saving(s, a, 200, FALSE))
axum_handle_delete_memory(s, q) ==
    LET a == handle_delete_memory(s, q) IN wrap_handler(s, a.status, Saving(s, a, 200, TRUE))
axum_handle_delete_all(s, q) ==
    LET a == handle_delete_all(s, q) IN wrap_handler(s, a.status, Saving(s, a, 200, TRUE))
axum_handle_delete_entity(s, q) ==
    LET a == handle_delete_entity(s, q) IN wrap_handler(s, a.status, Saving(s, a, 200, FALSE))
axum_handle_reset_all(s, q) ==
    LET a == handle_reset_all(s, q) IN wrap_handler(s, a.status, Saving(s, a, 200, TRUE))

\* A route nobody serves still costs a token and an entry of the log.
unknown_route_fallback(s, q) ==
    IF q.size = "large" THEN [status |-> 413, server |-> s]
    ELSE wrap_handler(s, IF is_authorized(s, q.cred) THEN 404 ELSE 401, s)

OpenRoutes == {"health", "ready"}
GatedRoutes == {"entities", "configure", "providers", "instructions", "requests", "list", "get", "search",
                "history", "create", "update", "delete", "delete_all", "delete_entity", "reset"}
Routes == OpenRoutes \cup GatedRoutes \cup {"unknown"}

Served(s, q) ==
    CASE q.route = "health" -> axum_handle_health(s, q)
      [] q.route = "ready" -> axum_handle_ready(s, q)
      [] q.route = "entities" -> axum_handle_list_entities(s, q)
      [] q.route = "configure" -> axum_handle_get_configure(s, q)
      [] q.route = "providers" -> axum_handle_get_configure_providers(s, q)
      [] q.route = "instructions" -> axum_handle_generate_instructions(s, q)
      [] q.route = "requests" -> axum_handle_get_requests(s, q)
      [] q.route = "list" -> axum_handle_list_memory(s, q)
      [] q.route = "get" -> axum_handle_get_memory(s, q)
      [] q.route = "search" -> axum_handle_search_memory(s, q)
      [] q.route = "history" -> axum_handle_get_history(s, q)
      [] q.route = "create" -> axum_handle_create_memory(s, q)
      [] q.route = "update" -> axum_handle_update_memory(s, q)
      [] q.route = "delete" -> axum_handle_delete_memory(s, q)
      [] q.route = "delete_all" -> axum_handle_delete_all(s, q)
      [] q.route = "delete_entity" -> axum_handle_delete_entity(s, q)
      [] q.route = "reset" -> axum_handle_reset_all(s, q)
      [] q.route = "unknown" -> unknown_route_fallback(s, q)

\* The gate is a layer of the routes that need it: it answers before the
\* limiter counts the request.
auth_gate_middleware(s, q) ==
    IF q.route \in GatedRoutes /\ ~is_authorized(s, q.cred)
    THEN [status |-> 401, server |-> s]
    ELSE Served(s, q)

cors_middleware(s, q) ==
    IF q.preflight THEN [status |-> 204, server |-> s] ELSE auth_gate_middleware(s, q)
body_size_limit_middleware(s, q) ==
    IF q.size = "declared large" THEN [status |-> 413, server |-> s] ELSE cors_middleware(s, q)
respond(s, q) == body_size_limit_middleware(s, q)

-----------------------------------------------------------------------------
(* The inputs: one request to a server in each of a few states.            *)
Memories == {[i \in ids |-> "first"] : ids \in SUBSET {"r1", "r2"}}
Servers ==
    {[key |-> k, persist |-> p, records |-> r, history |-> {}, file |-> r, historyFile |-> {},
      tokens |-> t, log |-> l] : k, p \in BOOLEAN, r \in Memories, t \in {0, 1}, l \in {0, MAX_ENTRIES}}
\* A body is large if it is over MAX_REQUEST_BODY_BYTES and under the limit of
\* axum's own; without a declared length only the fallback measures it.
Sizes == {"small", "large", "declared large"}
Engines == {"works", "refuses", "breaks", "breaks midway"}
HasBody == {"create", "update", "search", "delete_all", "delete_entity"}
Calls ==
    {[route |-> r, cred |-> c, body |-> b, id |-> "r1", engine |-> e, size |-> z, preflight |-> f] :
        r \in Routes, c \in Credentials, b \in {"good", "bad"}, e \in Engines, z \in Sizes, f \in BOOLEAN}
Exchanges ==
    {x \in [server : Servers, call : Calls] :
        /\ x.call.body = "bad" => x.call.route \in HasBody
        /\ x.call.size = "small" \/ x.server.log = 0
        /\ x.call.preflight => x.call.engine = "works" /\ x.server.persist
        /\ x.call.size # "small" => x.call.engine = "works" /\ x.server.persist}

-----------------------------------------------------------------------------
Refusals == {204, 400, 401, 403, 404, 413, 429}
Changed(s, t) == s.records # t.records \/ s.history # t.history
SavedOf(s) == <<s.file, s.historyFile>>

\* Whatever a server is asked, a request it refuses changes no memory, no file
\* and, when it is stopped before the limiter, neither the limiter nor the
\* log; memories change only for a caller who is let in, and those of others
\* are deleted in bulk only for an administrator.
RefusedLeavesNoTrace(x) ==
    LET s == x.server
        q == x.call
        r == respond(s, q)
        t == r.server
    IN  /\ r.status \in Refusals => ~Changed(s, t) /\ SavedOf(s) = SavedOf(t)
        /\ r.status \in {204, 413, 429} => t = s
        /\ r.status = 401 => (t = s \/ q.route = "unknown")
        /\ Changed(s, t) => (~s.key \/ q.cred # "none")
        /\ Cardinality(DOMAIN s.records \ DOMAIN t.records) > 1 => q.cred \in {"admin key", "admin session"}
        /\ \A i \in DOMAIN s.records \ DOMAIN t.records :
              i # q.id => q.cred \in {"admin key", "admin session"}
        /\ s.tokens = 0 => ~Changed(s, t)

\* A request that succeeds leaves the files as the memories are; the history
\* file is the exception after the deletion of an entity, an update writes no
\* history and saves none, and without a snapshot nothing is saved.
SuccessIsSaved(x) ==
    LET r == respond(x.server, x.call)
        t == r.server
    IN  r.status \in {200, 201} /\ Changed(x.server, t) =>
           IF t.persist
           THEN /\ t.file = t.records
                /\ x.call.route = "update" =>
                      t.history = x.server.history /\ t.historyFile = x.server.historyFile
                /\ x.call.route \notin {"update", "delete_entity"} => t.historyFile = t.history
           ELSE SavedOf(t) = SavedOf(x.server)

Exchanged(x) == RefusedLeavesNoTrace(x) /\ SuccessIsSaved(x)
=============================================================================
