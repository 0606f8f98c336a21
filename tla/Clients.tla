------------------------------ MODULE Clients ------------------------------
(***************************************************************************)
(* The two clients of the memory engine that work with a store of their    *)
(* own or with a server: the commands of the command line client (run and  *)
(* run_remote in src/cli/src/main.rs) and the tools of the MCP server      *)
(* (MemoriaMcpServer and RemoteClient in src/mcp/src/main.rs).  The server *)
(* they call, and the state of the memories, are those of Requests.        *)
(*                                                                         *)
(* A call is the record                                                    *)
(*   [op, id, engine |-> as in Requests,                                   *)
(*    cred    |-> what the client sends as a bearer token,                 *)
(*    secret  |-> whether a tool was given the right secret,               *)
(*    scoped  |-> whether a scope was given,                               *)
(*    expired |-> whether a tool asks for expired memories too,            *)
(*    gone    |-> the memories another caller deletes meanwhile,           *)
(*    order   |-> the order in which the answers of parallel requests      *)
(*                come in]                                                 *)
(***************************************************************************)
EXTENDS Integers, Sequences, FiniteSets

CONSTANT MAX_ENTRIES
Server == INSTANCE Requests

Expired == {"r2"}
Visible(s, all) == {i \in DOMAIN s.records : all \/ i \notin Expired}
Routes == [add |-> "create", search |-> "search", get |-> "get", list |-> "list", update |-> "update",
           delete |-> "delete", history |-> "history", status |-> "ready",
           delete_all |-> "delete_all", entities |-> "entities"]
Mutations == {"add", "update", "delete", "delete_all"}

-----------------------------------------------------------------------------
(* The engine, called directly or by the server's handlers, and what an    *)
(* operation that succeeded shows.                                         *)
Engine(op, s, q) ==
    CASE op = "add"      -> Server!handle_create_memory(s, q)
      [] op = "search"   -> Server!handle_search_memory(s, q)
      [] op = "get"      -> Server!handle_get_memory(s, q)
      [] op = "list"     -> Server!handle_list_memory(s, q)
      [] op = "update"   -> Server!handle_update_memory(s, q)
      [] op = "delete"   -> Server!handle_delete_memory(s, q)
      [] op = "history"  -> Server!handle_get_history(s, q)
      [] op = "entities" -> Server!handle_list_entities(s, q)
      [] op = "status"   -> Server!handle_ready(s, q)
      [] op = "delete_all" -> Server!Reset(s, q, Server!Of(s, "alice"))
      [] op \in {"init", "whoami"} -> Server!Answer(200, s)
Success == {200, 201}

\* The events of one memory, and the users with the number of their memories.
history(s, id) == {h \in s.history : h[1] = id}
list_entities(s) ==
    {<<Server!Owner[i], Cardinality(Server!Of(s, Server!Owner[i]))>> : i \in DOMAIN s.records}

Body(op, before, after, q, all) ==
    CASE op = "add" -> DOMAIN after.records \ DOMAIN before.records
      [] op \in {"search", "list"} -> Visible(after, all)
      [] op = "get" -> {after.records[q.id]}
      [] op = "history" -> history(after, q.id)
      [] op = "entities" -> list_entities(after)
      [] op = "delete_all" -> {Cardinality(DOMAIN before.records \ DOMAIN after.records)}
      [] OTHER -> {}

Outcome(ok, shows, s) == [ok |-> ok, shows |-> shows, server |-> s]
Failure(s) == Outcome(FALSE, {}, s)

\* One request to the server with the client's token (remote_request, authed);
\* whatever is not a success is an error to the client (send, ensure_success).
Request(q) == [route |-> Routes[q.op], cred |-> q.cred, body |-> "good", id |-> q.id, engine |-> q.engine,
               size |-> "small", preflight |-> FALSE]
Understood(r, s, q, all) ==
    IF r.status \in Success THEN Outcome(TRUE, Body(q.op, s, r.server, q, all), r.server) ELSE Failure(r.server)
Send(s, q, all) == Understood(Server!respond(s, Request(q)), s, q, all)

-----------------------------------------------------------------------------
(* The command line client.  A command of its own loads the files, asks    *)
(* the engine and saves; the process then ends.                            *)
Loaded(s) == [s EXCEPT !.records = s.file, !.history = s.historyFile]
save_store(s) == [s EXCEPT !.file = s.records]
save_history(s) == [s EXCEPT !.historyFile = s.history]

Saved(op, t) ==
    CASE op \in {"add", "delete"}  -> save_history(save_store(t))
      [] op \in {"update", "init"} -> save_store(t)
      [] OTHER -> t
Exit(a, l, q) ==
    IF a.status \notin Success THEN Failure(l)
    ELSE Outcome(TRUE, Body(q.op, l, Server!Keeping(l, a), q, TRUE), Saved(q.op, Server!Keeping(l, a)))
cli_run(s, q) == Exit(Engine(q.op, Loaded(s), q), Loaded(s), q)

\* A remote list does not ask for expired memories, a remote search does.
cli_run_remote(s, q) ==
    IF q.op \in {"init", "whoami"} THEN Outcome(TRUE, {}, s) ELSE Send(s, q, q.op = "search")

-----------------------------------------------------------------------------
(* The tools of the MCP server: the secret, then the engine or the server, *)
(* then, with an engine of its own, the save.                              *)
check_secret(q) == q.secret
persist_after_mutation(s) == save_history(IF s.persist THEN save_store(s) ELSE s)

Persisted(a, s, t, q) ==
    IF a.status \notin Success THEN Failure(t)
    ELSE Outcome(TRUE, Body(q.op, s, t, q, q.expired),
                 IF q.op \in Mutations THEN persist_after_mutation(t) ELSE t)
Returned(a, s, q) == Persisted(a, s, Server!Keeping(s, a), q)
LocalTool(s, q) == Returned(Engine(q.op, s, q), s, q)
RemoteTool(s, q) == Send(s, q, q.expired)
Tool(remote, s, q) ==
    IF ~check_secret(q) THEN Failure(s) ELSE IF remote THEN RemoteTool(s, q) ELSE LocalTool(s, q)

\* The tools that do nothing else.
OneCall == {"search", "get", "history", "add", "delete", "entities"}

\* Every memory at once is not to be deleted by a tool.
delete_all_memories(remote, s, q) == IF q.scoped THEN Tool(remote, s, q) ELSE Failure(s)

DeletedMeanwhile(s, ids) == [s EXCEPT !.records = [i \in DOMAIN @ \ ids |-> @[i]]]

\* The memory is read again after its update and only then saved: remotely the
\* second request may be refused when the first was not, and another caller
\* may have deleted the memory.
ReadAgain(s, q) ==
    LET got == Engine("get", s, q)
    IN  CASE got.status \in Success -> Outcome(TRUE, Body("get", s, s, q, TRUE), persist_after_mutation(s))
          [] got.status = 404       -> Failure(persist_after_mutation(s))
          [] OTHER                  -> Failure(s)
LocalUpdate(a, s, q) ==
    IF a.status \in Success THEN ReadAgain(DeletedMeanwhile(Server!Keeping(s, a), q.gone), q) ELSE Failure(s)
RemoteUpdate(done, q) ==
    IF done.ok THEN RemoteTool(DeletedMeanwhile(done.server, q.gone), [q EXCEPT !.op = "get"]) ELSE done
update_memory(remote, s, q) ==
    IF ~check_secret(q) THEN Failure(s)
    ELSE IF remote THEN RemoteUpdate(RemoteTool(s, q), q) ELSE LocalUpdate(Engine("update", s, q), s, q)

\* A listing and one request for every memory in it, in parallel; the answers
\* are put in the order of the listing.  A memory that is gone is skipped, any
\* other answer that is no success fails the tool.
RECURSIVE Fetched(_, _, _)
Fetched(got, ids, q) ==
    IF ids = <<>> THEN got
    ELSE LET r == Server!respond(got.server, Request([q EXCEPT !.op = "get", !.id = Head(ids)]))
         IN  Fetched([ok |-> got.ok /\ r.status \in {200, 404},
                      shows |-> got.shows \cup (IF r.status = 200 THEN {Head(ids)} ELSE {}),
                      server |-> r.server], Tail(ids), q)
InOrder(ids) == SelectSeq(<<"n1", "n2", "r1", "r2", "r3">>, LAMBDA i : i \in ids)

\* The memories as the answers came in.
AsTheyCame(order, found) == SelectSeq(order, LAMBDA i : i \in found)
Sorted(order, found) == InOrder(found)

InParallel(got, order) == IF got.ok THEN Outcome(TRUE, Sorted(order, got.shows), got.server) ELSE Failure(got.server)
Records(remote, listed, now, q) ==
    CASE ~listed.ok -> listed
      [] listed.ok /\ ~remote -> Outcome(TRUE, InOrder(listed.shows \cap DOMAIN now.records), now)
      [] listed.ok /\ remote ->
            InParallel(Fetched(Outcome(TRUE, {}, now), SelectSeq(q.order, LAMBDA i : i \in listed.shows), q), q.order)
Listed(remote, listed, q) == Records(remote, listed, DeletedMeanwhile(listed.server, q.gone), q)
get_memories(remote, s, q) == Listed(remote, Tool(remote, s, [q EXCEPT !.op = "list"]), q)

-----------------------------------------------------------------------------
(* The inputs.                                                             *)
Memories == {[i \in ids |-> "first"] : ids \in SUBSET {"r1", "r2", "r3"}}
Places ==
    {[key |-> TRUE, persist |-> p, records |-> r, history |-> h, file |-> r, historyFile |-> h, tokens |-> t, log |-> 0] :
        p \in BOOLEAN, r \in Memories, h \in {{}, {<<"r1", "added">>}}, t \in {0, 1, 2, 9}}
Commands == {"add", "search", "get", "list", "update", "delete", "history", "status", "init", "whoami"}
Tools == {"search", "get", "get_memories", "history", "add", "update", "delete", "delete_all", "entities"}
Bearers == {"none", "admin key", "user session"}
Orders == {<<"r1", "r2", "r3">>, <<"r3", "r1", "r2">>, <<"r2", "r3", "r1">>}

Call(client, op, id, engine, cred, secret, scoped, expired, gone, order) ==
    [client |-> client, op |-> op, id |-> id, engine |-> engine, cred |-> cred, body |-> "good", secret |-> secret,
     scoped |-> scoped, expired |-> expired, gone |-> gone, order |-> order]
Uses ==
    {[place |-> s, call |-> c] :
        s \in Places,
        c \in {Call("cli", op, i, e, b, TRUE, TRUE, TRUE, {}, <<"r1", "r2", "r3">>) :
                  op \in Commands, i \in {"r1", "r2"}, e \in Server!Engines, b \in Bearers}
              \cup {Call("mcp", op, "r1", e, b, k, z, x, {}, <<"r1", "r2", "r3">>) :
                       op \in Tools \ {"get_memories"}, e \in Server!Engines, b \in Bearers, k, z, x \in BOOLEAN}
              \cup {Call("mcp", "update", "r1", e, b, TRUE, TRUE, TRUE, {"r1"}, <<"r1", "r2", "r3">>) :
                       e \in Server!Engines, b \in Bearers}
              \cup {Call("mcp", "get_memories", "r1", e, b, TRUE, TRUE, x, g, o) :
                       e \in {"works", "breaks"}, b \in Bearers, x \in BOOLEAN, g \in {{}, {"r1"}, {"r2", "r3"}}, o \in Orders}}

Done(remote, s, q) ==
    IF q.client = "cli" THEN (IF remote THEN cli_run_remote(s, q) ELSE cli_run(s, q))
    ELSE CASE q.op \in OneCall -> Tool(remote, s, q)
           [] q.op = "get_memories" -> get_memories(remote, s, q)
           [] q.op = "update" -> update_memory(remote, s, q)
           [] q.op = "delete_all" -> delete_all_memories(remote, s, q)

-----------------------------------------------------------------------------
Admitted(s, q) ==
    /\ q.op = "delete_all" => q.cred = "admin key"
    /\ q.cred # "none" \/ q.op = "status"
    /\ s.tokens >= CASE q.op = "update" /\ q.client = "mcp" -> 2
                     [] q.op = "get_memories" -> 1 + Cardinality(DOMAIN s.records)
                     [] OTHER -> 1

\* A remote list of the command line client leaves out what has expired.
HidesExpired(q) == q.client = "cli" /\ q.op = "list"

\* A command or a tool does the same with a server as with a store of its own:
\* when it succeeds remotely it shows what it shows locally and leaves the
\* same memories and history; when it succeeds locally it does so remotely
\* too, if the server lets the caller in as often as it has to ask; and when
\* it fails remotely nothing has changed, but for a call that broke midway
\* and an update that was not read back.
Agree(near, far, q, s) ==
    /\ far.ok => /\ near.ok
                 /\ far.shows = IF HidesExpired(q) THEN near.shows \ Expired ELSE near.shows
                 /\ near.server.records = far.server.records
                 /\ near.server.history = far.server.history
    /\ near.ok /\ Admitted(s, q) => far.ok
    /\ ~far.ok => \/ DeletedMeanwhile(far.server, q.gone).records = DeletedMeanwhile(s, q.gone).records
                  \/ q.engine = "breaks midway"
                  \/ q.client = "mcp" /\ q.op = "update" /\ s.tokens = 1
    /\ q.client = "mcp" /\ ~q.secret => far = Failure(s) /\ near = Failure(s)
RemoteAsLocal(x) == Agree(Done(FALSE, x.place, x.call), Done(TRUE, x.place, x.call), x.call, x.place)
=============================================================================
