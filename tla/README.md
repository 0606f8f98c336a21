# memoria-mcp in TLA+

memoria-mcp stores memories of chat agents: texts that belong to a user, an
agent or a run, found again by similarity and key words. It is a Rust workspace
(`core`, `server`, `mcp`, `cli`) with an OpenCode plugin in TypeScript. This
directory holds TLA+ models of it, TLC configurations that check them on small
instances, and proofs that TLAPS checks for every instance. `PROJECT.json`
lists the components, the runs, the hazards of the code, and for each
definition of the models the source lines it stands for.

    tlc -config MemoryEngine_calls.cfg MCMemoryEngine.tla     # one of the runs
    tlc -config PureParts.cfg PureParts.tla                   # the functions
    tlapm VectorStores_proofs.tla     # the proofs: the modules *_proofs

## 1. The system

| Component | State | Operations | Talks to |
| --- | --- | --- | --- |
| Memory engine, `core/src/memory.rs` | the history map under a mutex; everything else is in the store | `add`, `update`, `delete`, `reset`, `list`, `list_ids`, `search`, `history`, `list_entities` | vector store, LLM, embedding and reranking providers, by calls |
| Vector stores, `core/src/vector_store.rs` | records: id, vector, payload; in memory, SQLite, Postgres, Qdrant, Chroma, Milvus | insert, search, get, update, delete, list, reset, keyword search | a database, for the remote ones through one dispatcher thread |
| Filters, entities, errors, `core/src/{filter,entity,error}.rs` | none | pure functions | |
| Providers, `core/src/{llm,embedding,reranker}.rs` | none | calls to models | external services |
| HTTP server, `server/src/main.rs` | engine, rate limiter, snapshot files | memory routes, accounts, settings | engine, account store; saves snapshots after each change |
| Accounts, `server/src/{auth_store,crypto,request_log}.rs` | users, refresh tokens, API keys, request log | register, login, refresh, keys | a JSON snapshot |
| MCP server and installer, `mcp/src` | engine, store and history files; client configuration files | tools; install and uninstall | engine, files |
| Command line, `cli/src/main.rs` | store and history files, shared by processes | the engine's methods | engine or HTTP server, files |
| OpenCode plugin, `integrations/opencode-plugin/src` | `dream-state.json`, `dream.lock`; per process the sessions it serves | hooks of the editor | HTTP server; other plugin processes through the two files |

The server runs a request handler on a blocking thread (`wrap_handler`), and
all handlers share one engine. The engine has no lock of its own around a
method: the store serialises single calls and the history has a mutex, so the
store calls of different methods interleave. This is the first hard behaviour
of the system. The others are failing store calls, where a write may have
happened although it reports an error; snapshots that concurrent requests write
in any order; command line processes that load and save one file; and the plugin
processes that coordinate through two files and may be killed at any operation.

What makes each component correct:

- Engine: no call ever touches or shows a record outside its scope; ids are used
  once and deletions are final although `update`, `link_entities` and `reset`
  act on copies they read earlier; `reset` leaves nothing of what it found; the
  history tells of every record; `add` stores a fact once; every call returns.
- Stores: the contract of the `VectorStore` trait; for SQLite the agreement of
  the records and the full-text table; a collection that is there although reset
  drops it; an answer to every caller of a dispatcher; lists and rows that give
  back everything, and searches that find the best by the measure of the store.
- Snapshots: an acknowledged change survives a restart; a crash leaves the
  former snapshot or the new one.
- Accounts: a single first account, refresh tokens that work once, revoked
  keys that stay revoked over restarts, a limiter that pays out what the bucket and the time give.
- Routes and clients: a request that is refused leaves no trace, one that
  succeeds is saved; a client does with a server what it does without one; a
  program uses what it was configured with or does not start.
- Installer: the files of other programs keep everything that is theirs.
- Plugin: consolidations are apart in time, need their gates, and are recorded
  only when earned.

The hazards of the code, each at its line and with the properties that
cover it or the reason why none does, are in `PROJECT.json`.

## 2. The modules

| Module | Content |
| --- | --- |
| `MemoryRecords` | records, scopes, and the predicates the engine evaluates on one record |
| `MemoryEngine` | the methods of `Memory` called by several threads; properties |
| `RecordLifecycle` | abstract specification: what the engine promises about one record |
| `MemoryEngineInv` | the inductive invariant `EngineInv` |
| `MCMemoryEngine` | values of the constants for TLC |
| `MemoryEngine_proofs` | `EngineInv` is inductive; the invariants that follow; the history is complete, facts are unique; the engine implements `RecordLifecycle` |
| `DreamLock` | the plugin's consolidation: state file, lock file, hooks, processes, clock |
| `DreamSessionCount` | `DreamLock` with a history variable for the counted sessions |
| `MCDreamLock` | symmetries for TLC |
| `DreamLock_proofs` | types; grants are apart; consolidation is rare and earned |
| `SnapshotFiles` | the JSON files of the server, the MCP server and the command line client |
| `MCSnapshotFiles` | symmetries for TLC |
| `SnapshotFiles_proofs` | types; the files parse; a restart finds what was saved |
| `Accounts`, `MCAccounts` | the server's users, API keys and refresh tokens, and the file they are saved to |
| `Accounts_proofs` | types; the closing of registration; a restart finds what was saved, with its owners; keys and tokens out of use stay so; a token gives one other |
| `StoreContract` | abstract specification: what the trait `VectorStore` promises its callers |
| `VectorStores`, `MCVectorStores` | the five stores outside the program, statement by statement |
| `VectorStores_proofs` | types; one dimension, a collection that stays, words that follow the records; the five stores implement `StoreContract` |
| `DirectParts` | asks one of the five modules below one question, or runs the rate limiter |
| `Arrangements` | sequences sorted by a key, filtered and cut |
| `Ranking` | search: window, keyword pass, entity boost, rerankers |
| `Ranking_proofs` | what sorting does; every search ranks well |
| `StoreReads` | list, search and keyword search of six stores; rows and payloads |
| `StoreReads_proofs` | every list is complete, every row reads back, every search keeps the best |
| `Requests` | one request to the server: layers, routes, handlers, save and log |
| `Configuration` | the start of the three programs: what they take from their environment |
| `RateLimiter` | the token buckets, a state machine of callers and a clock |
| `DirectParts_proofs` | the limiter keeps to its budget; requests and starts are in order; the properties of `DirectParts` |
| `PureParts` | `DirectParts` and the four modules below, the specification that is run |
| `Filters` | filter expressions: evaluation, parser, and the client's serialiser |
| `Installer` | the edits of TOML and JSON files, the choice of files, their replacement |
| `Clients` | the command line client and the MCP tools, with an engine of their own or a server |
| `Providers` | facts of a conversation, completions, vectors of batches, entities of a text |

`MemoryEngine` takes the store as atomic; `VectorStores` refines that store.
`Clients` instantiates `Requests`, the server it talks to. `DirectParts` extends
`Ranking`, `StoreReads`, `Requests`, `Configuration` and `RateLimiter`, whose definitions need no
recursion, so its properties are proved; `PureParts` extends `DirectParts` and
instantiates the four modules whose definitions are recursive. Otherwise the modules
share no state, as the components they model do not.

### MemoryEngine and memory.rs

A method of `Memory` is split where it calls the store or the history; what it
computes in between is part of one of these actions. `pc[t]` names the next call
of thread `t`, `job[t]` holds the arguments and locals that are used later.

| Method | Actions in order |
| --- | --- |
| `add` | `AddBegin`; per fact `AddDedup` (search), `AddInsert`, `AddLog`, then per entity `LinkList`, `LinkScan` (get), and `LinkUpdate` or `LinkInsert` |
| `add`, procedural | `ProceduralBegin`, `AddInsert`, `AddLog` |
| `update` | `UpdateBegin` (get and merge), `UpdateStore` |
| `delete` | `DeleteBegin` (get), `DeleteStore`, `DeleteLog` |
| `reset` | `ResetBegin` (list); per id `ResetGet`, and for those that match `ResetDelete` (the get of `delete`), `DeleteStore`, `DeleteLog`; `ResetReturn` |
| `list` | `ListBegin` (list); per id `ListGet`; `ListReturn` |

`CallFails` lets the pending call fail, which ends the method with its error as
`?` does; where the code goes on after an error (the search of `add`, the get of
`list_ids`) the action itself has the failing outcome. `LostReply` is a write
that took place and reports an error: a broken connection, or in SQLite the
second of two statements failing. A call that is refused without touching the
store (an empty scope, an update of a scope key or of a missing id) changes
nothing and is no step.

Abstractions:

- A payload is its scope entries as a set of `tags`, one value for all other
  metadata, and a content. Clients are assumed not to put the keys that the
  engine itself uses for entity records into their metadata.
- Vectors are left out; a fact is known to `add` if a record in the scope has its
  content. The search before an insert looks at 100 candidates at most; the
  model has fewer records.
- The facts that the LLM extracts are any sequence over `Contents`.
- Ids are handed out by one counter, as `next_record_id` and
  `next_entity_record_id` do for practical purposes; `MaxId` bounds the model,
  and a call that finds no id left ends (`OutOfIds`).
- The store's own operations are atomic. This is what the mutex of the in-memory
  store gives. What the other stores give is `StoreContract`: one instant per call
  too, but for two processes that share a remote store (`revivals`).

### DreamLock and the plugin

The actions are the hooks of `index.ts` up to the next file operation, and the
file operations of `dream.ts` one by one: `writeFileSync` empties the file
(`Truncate`) and then writes (`FillCount`, `FillCompletion`); it may fail before the
one (`WriteFails`) or after it (`FillFails`), and then leaves the file as it was or empty; acquiring the lock
is `LockRead`, `LockUnlink` when it found a stale lock, `LockCreate` (flag `wx`)
and `LockFill`. `task[p]` is what the process's single thread is doing; a
process gives way only at `await countMemories`, which is the set `waiting`.
`Crash` kills a process at any point, `Start` runs it again. `now` counts in
ticks, and `StaleAge`, `MinAge` are the lock's and the gate's limits in ticks.
The host is taken to end the process after `dispose`. The text that the plugin
injects and the file with the thresholds are left out; the number of memories is
an arbitrary answer.

`grants`, `recorded`, `stolen`, `lost` and `raced` are history variables: they
are read by no action's guard, only by the properties.

### SnapshotFiles and the three programs

The three programs keep an in-memory store and the history in two JSON files by
the same scheme: load both at the start, change memory, save a copy of the whole
store and then of the whole history. They differ in who shares what, so one
module models them and `program` selects one:

| | server | mcp | cli |
| --- | --- | --- | --- |
| requests run in | threads of one process | threads of one process, or processes | processes that end with the request |
| a file is written | under a new name, then renamed | the same | in place |
| requests that save the store only | update, delete entity | none | update, init |

`home[t]` is the process of thread `t`. `Start` and `LoadHistory` are the two
reads of a starting program; a file that does not parse is an empty one. A
request changes memory (`Add`, `AddLog`, `Update`, `Delete`, `DeleteLog`) and then
saves: `Copy` (`list_all`, or the history under its lock), `Read` (one record of
the store at a time), `Open`, `Fill` and, where the code renames, `Rename`; then
`NextFile` goes on to the history or ends the request. `AddFails` is an error of
add after its insert, which returns without saving. `WriteFails` is a failed write
or rename, which all programs ignore. `Crash` kills a process at any point and
loses the temporary files, whose names no other process uses.

Abstractions: a method of `Memory` takes one step per record and log entry
(`MemoryEngine` has its races); of a history only the kinds of the entries are
kept; entity records are left out, because `save_store` leaves them out; ids are
unique over processes and restarts. Two processes that write one file in place
may also leave a text that does not parse.

The code does not keep every acknowledged change: a copy that was taken before
the change may be written after it. So `ChangesAreSaved` is stated per record, with
two history variables. `dirty[t]` holds what the request of `t` changed and has not
saved yet; `risk` holds, for the rest of the behaviour, the records whose change met
a copy held by another request or process, was not saved by its own request, or
failed to be written. For all other records a restart finds what the process
holds. `FilesParse` is the assertion of the test
`write_atomically_never_corrupts_the_file_under_concurrent_writers`, with crashes
added.

### Accounts, auth_store.rs and the account routes

An `AuthStore` is three lists, `users`, `keys` and `tokens`, with a lock each. A handler
takes one lock after the other, so a request is a few actions, and `pc[t]` says
which comes next:

| Route | Actions in order |
| --- | --- |
| register | `Register` (is there an account?), `InsertUser` (after hashing), `IssueToken`, save |
| login | `Login` (look-up and password), `IssueToken`, save |
| refresh | `Refresh` (rotation under one lock), `RefreshUser`, save |
| profile, password, onboarding | `MePatch`, `ChangePassword` or `OnboardingComplete` (the session's account), then the change by id, save |
| API keys | `CreateApiKey`, `InsertApiKey`, or `RevokeApiKey`, `MarkRevoked`, then save |

save is `Copy` once per list and then `Write` (the rename) or `WriteFails`, whose error
the handlers ignore. The three guards of `save` live until the last list is copied
(`Locking`), and meanwhile another request that needs one of these locks waits (`Free`). A request that is refused does nothing after its first
action. `Crash` and `Start` stop the server at any point and load the file again.
`SnapshotFiles` has the steps of writing a file by renaming; here it is one step.
Hashes, signatures, token strings and times are left out: a password verifies if
it is the one that was set, a session ends by `Expire`. As in `SnapshotFiles`, `dirty`
and `risk` hold what a request has not saved yet and what an overlap or a failed
write may have kept from the file; `raced`, `chain` and `revoked` are history
variables too.

### VectorStores, StoreContract and vector_store.rs

A call of the trait is a list of statements (`SqliteInsert` is check, put, unindex,
index), each of them atomic in the database, and `Plan` gives the list for each store
and call. The statements are actions (`Check`, `Put`, `Change`, `Find`, `Remove`, `Clear`,
`Unindex`, `Index`, `UnindexAll`, `Drop`, `Has`, `Create`, `Ensure`, `Load`). `CanRun` is what holds
calls apart: the mutex of SQLite, the queue of a dispatcher, or nothing for the
pool of Postgres. `home` says whether the callers share a process; processes share
the database. `Fail` ends a call with an error before or after any statement,
`Crash` kills a process, and `DispatcherEnds` is a panic in a dispatcher thread: the
channels are closed, and whoever waits gets an error. A record is its text and the
length of its vector. `torn`, `mixed` and `cut` are history variables: the ids whose
last call was cut short or met one of another process, whether records of two
dimensions may be there, and whether a reset ended between its two requests.

`StoreContract` is written from the trait and its tests (`VectorStoreContractTests`): a
call takes effect at one instant or not at all, an update of a missing id answers
NotFound and changes nothing. The refinement maps a call to its first effective
statement; the later ones are stutters.

### RateLimiter and check_and_consume

A caller reads the clock and then takes the lock of the buckets: `Arrive` is the
first, `check_and_consume` the rest, and `Tick` the clock between them. So the times of
two requests may reach a bucket in the wrong order, and the later one finds a
`last_refill` ahead of its own time: `duration_since` is then zero (`Elapsed`), and
`last_refill` goes back. Tokens are counted in units, the code's fractions of a token.
`ledgers` is a history variable: for an address it keeps the account of a stretch of
requests, which may begin at any request of it and then has all that follow.
`BudgetHolds` says of any such stretch that it was allowed no more than the bucket and
the time in it refill, and that none of it was starved. After two requests that passed
each other on the way to the lock, the time between them comes back a second time;
`ordered` tells the stretches without such a pair, and for these the time is that
between the first request and the last.

### DirectParts, PureParts and the functions

The other parts keep no state, or their state is an argument (`Requests`, `Clients`). A
behaviour asks one of them one question, so the states are the
questions and the invariants are the properties of the answers. The functions keep
the names of the code. What stands for data: a text is a member of a small
ordered set, some of which are numbers (`Filters`); a TOML file is a sequence of
lines of ten kinds, a JSON file what its parse gives (`Installer`); scores are
integers in a unit in which the code's fractions are exact (`Ranking`); a message is
its lines, a line its sentences (`Providers`); a memory says "first" or "second"
(`Requests`).

The constants of the code are scaled down, so that a few records reach them:
`SEARCH_CANDIDATE_MULTIPLIER` 1 and `SEARCH_CANDIDATE_FLOOR` 2 instead of 20 and 500,
`PAGE_SIZE` 2 instead of 1000, `MILVUS_MAX_TOP_K` 3, 2^32 as 16, `MAX_ENTRIES` 2, a
bucket of two tokens, a completion of three. The functions depend on them only by
comparison.

The six stores do not measure alike, so `StoreReads` gives each its own measure: the
sum of the differences (`Manhattan`) in memory and SQLite, the Euclidean distance in
Postgres and Qdrant, its square (`SquaredL2`) in Chroma and Milvus. A Euclidean distance
stands there as its square, next to the square of the threshold. The indexes of the
remote stores are approximate: the records that one does not reach are an input
(`missed`). A vector has two numbers. SQLite finds the texts with any of the words as they
are written, Postgres those with all of them by their stems; the ranks that the two
databases compute are any numbers (`bm25`, `cover`). `Ranking` takes the answer of a store
as it comes; its `dist` is the measure of whichever store is configured.

What these models say of the code beside their properties:

- The local provider drops the later lines of a message unless they have a label,
  and joins the last sentence of a message to the next one if it is not ended
  (`FactsFollowTheText`). An `add` without messages, which the server accepts, leaves it the
  heading of the prompt, and that is stored as a fact.
- An element of an embedding that is no number is dropped, so that the vector is
  shorter than the others and nobody is told (`BatchIsOneByOne`).
- The MCP tool for updates reads the memory back by a second request, which may be
  refused although the update took place; and with an engine of its own it saves
  only after the read. A remote listing costs one token of the limiter for each
  memory.
- A local command that fails midway saves nothing, a request to the server leaves
  what it did in memory. A remote `list` of the command line client hides expired
  memories, a local one shows them.
- The pages of Chroma are cut before they are sorted, so only the pages are in
  order. Qdrant and Milvus reserve keys of the payload (`ReadsBack`).
- One threshold means different numbers in different stores, and a keyword search
  matches other texts in SQLite than in Postgres. Nothing in the repository says
  which is meant, so each store is compared with its own measure only
  (`KeepsTheNearest`, `KeepsTheBestTexts`). Milvus gives no more than its ceiling.
- A keyword search of SQLite for no results at all (`top_k` 0) gives one: the loop
  compares after it has pushed.
- Ollama is not contacted at the start: a program starts beside a server that is not
  reachable, and each call fails.
- A vector dimension of 0 is accepted at the start.
- The installer drops a comment or a setting that it does not know inside its own
  entry, and takes `opencode.jsonc` for plain JSON: comments make it fail and the
  file stays.

## 3. The runs

| Run | Bounds | What it shows |
| --- | --- | --- |
| `engine_calls` | 2 threads, 2 ids, scopes {alice} and {bob}, 2 contents, one expired metadata value, all methods without linking | `DeletedIsFinal`, `ScopeIsFixed`, `ResetIsComplete`, `ListedRecordsMatch`, `HistoryIsComplete`, `ResetStaysInScope` |
| `engine_links` | 2 threads, 3 ids, nested scopes {alice}, {alice, agent}, one entity, writes that fail or lose their reply | `LinksStayInScope`; the engine implements `RecordLifecycle` (`RecordsLiveOnce`) |
| `engine_dedup` | 2 threads, 3 ids, nested scopes, batches of 2, one adder | `NoDuplicateFacts` |
| `engine_returns` | 2 threads, 2 ids, one scope, one entity, every call may fail | `EngineInv`, with `TypeOK` in it, is an invariant (the check that precedes its proof); `EveryCallReturns` |
| `engine_listing` | 2 threads, 2 ids, scopes {alice} and {bob} | expected violation, see section 5 |
| `snapshots` | 2 threads or processes, 2 ids of which one is in the files at the start, 2 values, 2 requests, any number of crashes and restarts; all three programs | `ChangesAreSaved`, `FilesParse`, `TypeOK` |
| `dream_gates` | 2 processes, 2 sessions, crashes, clock up to 2 | `GrantsAreApart`, `ConsolidationIsRare`, `CompletionIsEarned`, `TypeOK` |
| `dream_exclusive` | 2 processes, 2 sessions | expected violation, see section 5 |
| `dream_distinct` | 1 process at a time, restarted, 2 sessions | expected violation, see section 5 |
| `accounts` | 2 threads, 2 addresses, 2 passwords, 3 ids of each kind, 3 requests, any number of crashes and restarts; an empty file or one with an account, a key and a token | `RegistrationCloses`, `RotatedOnce`, `NothingComesBack`, `AccountsAreSaved`, `SavedOwnersExist`, `TypeOK` |
| `stores` | 5 stores, 2 callers in one process or two, 2 ids, records of 2 dimensions, with a text or without, 2 calls, any number of failures and kills; any content at the start | `ContractHolds` (refinement), `WordsFollowRecords`, `OneDimension`, `CollectionExists`, `CallsReturn`, `TypeOK` |
| `parts` | 271,526 questions; for the limiter, a million states of 2 callers, 2 addresses, a clock up to 3, a bucket of two tokens that a quarter of comes back in a tick | ten properties of nine parts, see `DirectParts` and `PureParts`; the stores have two, `StoresGiveBackEverything` and `StoresFindTheBest` |

Why the bounds are enough. Each hazard of the engine is a race of one call with
one other on one record, with a second record to tell what must not change:
two threads and two ids contain them, and a finished call lets its thread begin
any other, so longer histories of the ids arise too. Linking needs three ids, a
memory of each add and the entity record both race for; nested scopes make one
scope match records of the other. The proofs of section 4 remove the bounds
for every safety property of the engine, the stores, the snapshots, the accounts
and the plugin that a run finds to hold. In the plugin the races are between two processes
over two files; two sessions let one process consolidate while another is
refused. `StaleAge` = `MinAge` = 1 with a clock of 3 values makes a lock stale, a
gate open and close again; an instance with `MinAge` = 2 and 5 clock values was
checked as well and holds, but takes longer. For the snapshots a race is one
of two requests on one file, with crashes and restarts around it, and a second
record shows what the race must leave alone; instances with three requests were
checked for each program as well. For the accounts the third request is the one
that notices: two overlap, and one later uses what they left, before or after a
restart. For the stores two calls race; what earlier calls may have left is any
initial content, and a call cut short is repaired or made worse by the second.

The questions of `parts`: every filter of depth three over two fields; three
records in every arrangement of distances, key words and links; up to four records
in every order under pages of one to three, and at two placings of their vectors and
texts under limits, thresholds and records that are not reached; TOML files of up to four lines and a
few longer ones; every request in every state of a small server; every environment
in which the settings of one group are free; every call of every tool and command
against a local and a remote store. The limiter runs in every interleaving of two
callers, which is what it takes for two requests to pass each other; the clock can
refill most of a bucket and leave a caller behind by all of it, and the
accounts that the behaviour may open keep the state space finite, since the bucket is
bounded and time is. For the five parts of `DirectParts` section 4 removes the bounds.

Fairness. `FairSpec` has weak fairness of each thread's `Step`: a request's
thread is scheduled by the operating system as long as it can run, and store
calls answer or fail. There is no fairness of `Call`, so clients may stop, and
none of `CallFails`, so liveness never leans on a failure. In `VectorStores` fairness
is stated for the calls of a store with a dispatcher: its thread takes the
commands in the order of its queue, and a request to the database ends, by an
answer or by an error. That it ends is an assumption: on some statements the code sets
no timeout of its own and relies on the client library and the database. `CallsReturn` then holds although the dispatcher may end at
any point. For SQLite nothing is stated, since its mutex may let others in for ever,
and for Postgres there is nothing to wait for. For the plugin none is stated: a lock that was
created and not written by a killed process is never taken over, and the
repository promises nothing here.

Deadlock is checked in every run but `parts`, whose behaviours end with the
question, or with the limiter when its clock has reached the bound.

## 4. What is proved

Every safety property that a run checks of one of the five large state machines
(`MemoryEngine`, `VectorStores`, `SnapshotFiles`, `Accounts`, `DreamLock`) is a theorem of its
specification, and so are the two refinements; of the ten properties of `parts` six are
theorems, those of `DirectParts`. The theorems hold for every value
of the constants under the `ASSUME`s of the modules, which TLC evaluates in every
run. Most of them say that constants are of their types and that a placeholder
(`NoValue`, `Nothing`, `NoCall`, `Broken`, `Daemon`) is none of the values it stands
beside; the others are named below. Each inductive invariant was checked with TLC
under the bounds of its run before it was proved; `EngineInv` is a property of a
run.

### The engine

For any threads, scopes, contents, entities, metadata and methods, any `MaxId` and
any set of failing calls. Scopes are not empty (`ScopesAssumption`), which the
engine checks before it begins.

| Theorem | Statement |
| --- | --- |
| `Invariance` | `Spec => []EngineInv` |
| `TypeCorrect` | `Spec => []TypeOK` |
| `DeletedStaysDeleted` | `Spec => []DeletedIsFinal` |
| `ScopeStaysFixed` | `Spec => []ScopeIsFixed` |
| `LinksAreScoped` | `Spec => []LinksStayInScope` |
| `ResetCompletes` | `Spec => []ResetIsComplete` |
| `ResetIsScoped` | `Spec => ResetStaysInScope` |
| `ListingMatches` | `"get" \notin Faults => (Spec => []ListedRecordsMatch)` |
| `HistoryCompletes` | `Faults \cap {"insert", "delete"} = {} => (Spec => []HistoryIsComplete)` |
| `FactsStayUnique` | `(OneAdder /\ "search" \notin Faults) => (Spec => []NoDuplicateFacts)` |
| `Refinement` | `Spec => RecordsLiveOnce` |

The argument. None of the invariants is inductive: each depends on what the
calls under way hold in their local variables. `EngineInv` adds that: `StoreOK`
(a live record has a used id, the scope of its insertion and links within that
scope), `HistoryOK` (an id with Deleted in its history is used and has no
record), and for each call `JobOK`: an add works under a client's scope for a
memory inserted under it; a copy that will be written back has the scope and
kind of its record; a call at the step that logs a deletion has no record left;
reset has dealt with the ids it no longer holds; list keeps only what matches.

Why the steps of other threads preserve `JobOK` is one relation, `Evolves`: ids
below the counter are never revived, and a live record keeps kind and scope.
`EvolvesKeepsJob` shows that `JobOK` survives any such change. Each
action's lemma then has two parts: the store evolves (`InsertEffect`,
`WriteEffect`, `RemoveEffect`, `LogEffect`, `NoEffect`), and the acting thread's
new job is sound; `CallStep` puts the two together. The fact that `update` and
`link_entities` cannot bring back a deleted record rests on one thing only, that
a store's `update` answers NotFound for a missing id (`UpdateStore`,
`LinkUpdate`).

The history (`CompleteInv`) is an account of debts. An id is added if its history
says Added or a call is about to say so, and deleted likewise; then a live record
is added exactly if it is a memory, and an added id without a record is deleted.
For the last part a delete must have seen a content of whatever memory it takes
away (`CallComplete`), so every memory, and every copy that will be written back as
one, has a content (`Filled`). The theorem has the two failures under which the
code does lose an entry as its hypothesis, and no other.

No duplicates (`UniqueInv`): from the look-up of an add to its insert there is no
such fact in the store (`NoSuchFact`). The hypotheses are what this needs: nobody
else inserts memories (`OneAdder` has at most one adding thread, and no procedural
add, which looks nothing up), no update changes a content, and the look-up does not
fail. `link_entities` writes meanwhile, but only entity records.

`Refinement` maps an id to unborn, live or gone, and shows that an insert is
`Create`, a delete of an existing record `Remove`, the first Deleted entry
`Audit`, and everything else a stutter, with `EngineInv` on both sides.

### The stores

For any finite, non-empty set of callers in any arrangement of processes, any ids,
any values of which each has a text and a dimension, and any backends of the five.
`RecordsAssumption` also asks for a value without a text among them (`NoValue`), which
stands for the argument of calls that carry none.

| Theorem | Statement |
| --- | --- |
| `TypeCorrect` | `Spec => []TypeOK` |
| `DimensionsAgree` | `Spec => []OneDimension` |
| `CollectionStays` | `Spec => []CollectionExists` |
| `WordsAreExact` | `Spec => []WordsFollowRecords` |
| `StoresKeepContract` | `Spec => ContractHolds` |

A call knows where it is by the statements it has left. `TypeInv` therefore says of
each call which remainders of its plan, and which answers with them, it can be at
(`JobOK`, `Left`), and that processes are up, opening or down as their calls say
(`PhasesOK`). `DimensionInv` adds that a call of SQLite that has checked and not
put yet still finds the records of the length it compared with, unless another
process came between (`CheckStays`). `ExistsInv` says that a collection that is missing was
dropped by a reset under way or cut short, or is that of a store never opened.
`WordsInv` follows the two tables of SQLite for every id between the statements of a call:
two calls that change one id at once come from two processes and make it `torn`, and
of a call alone with its id `Halfway` says what the rows are after each statement.

`StoresKeepContract` shows that every step of a store is a step of `StoreContract` or a
stutter, with `TypeInv` and `FoundStays` on both sides: an update that has found its
record still has it when it puts, unless the store is remote and shared by
processes. This is the one place where a store may revive a record (`Revivals`).

### The snapshots

For any threads in any arrangement of processes, ids, values and programs.

| Theorem | Statement |
| --- | --- |
| `TypeCorrect` | `Spec => []TypeOK` |
| `FilesAlwaysParse` | `Spec => []FilesParse` |
| `SavedIsFound` | `Spec => []ChangesAreSaved` |

`FilesParse` needs of a thread about to rename that its temporary file is its whole
copy, and that nobody else writes under that name (`TemporaryOK`, part of `TypeInv`).
`SavedInv` relates a record in a file, in the memories of all processes, and in
every copy on its way to a file, unless it is at risk or dirty: the file agrees with
each memory (`Saved`), the memories agree (`Agree`), and a copy agrees with the memory
it was made of, but for the records that it has not read yet (`Copied`). So it does
not matter which copy is written last. `QuietSaved` and its companions say what a
step has to respect.

### The accounts

For any threads, addresses and passwords, any `MaxId` > 0 and `MaxRequests`, any
number of crashes, restarts and failed writes.

| Theorem | Statement |
| --- | --- |
| `TypeCorrect` | `Spec => []TypeOK` |
| `RegistrationIsClosed` | `Spec => []RegistrationCloses` |
| `SavedIsFound` | `Spec => []AccountsAreSaved` |
| `OwnersAreSaved` | `Spec => []SavedOwnersExist` |
| `RotationIsOnce` | `Spec => []RotatedOnce` |
| `OutOfUseForGood` | `Spec => []NothingComesBack` |

`TypeOK` needs `JobFilled`: a thread about to store an address, a password or the
owner of a token has one. `RegistrationInv` says that, while no two
registrations have overlapped, a thread about to insert an account is alone and
finds no account in the store; the file and every copy on its way to the file
hold one at most, so no restart brings a second one.

What a restart finds is the argument of the snapshots again, for three lists that
are copied one after the other: `SavedInv` relates store, file and the copies that a
request holds at its label (`Holding`). `OwnersInv` adds that the owners of all keys and
tokens are accounts of the same snapshot, in the store, in the file and in what each
request has copied, and that a request that has copied the users, and not yet the
tokens, has all the users there are: it holds their lock, so no account is
registered, and no key of such an account made, before the last list is
copied. No registration is excepted.

For keys and tokens out of use the argument is about copies too. A request that puts
an id out of use does so under the lock that `save` copies the list under. Another request
either has no copy yet, and will get one of the changed list, or it holds an older
one, and then the id is in `risk`. So for an id outside `risk`, `SpentOK` says that
once it is out of use, it is so in the store and in every copy, even before the
request is answered; after the answer the file agrees too, since the request has
written its own copy, and whatever is written later is out of use as well. `FreshOK`
(an id not yet given is nowhere) keeps a new key or token apart from a spent one,
and `UsedOnce` follows: a request presents a token that is in use, so it is not one
that another request has spent. `KindStep` states what a step has to respect to
keep all this for one of the two lists, and each action's lemma shows that it
does.

### The plugin

For any processes, sessions, ages, thresholds and clock. `AgesAssumption` lets the
clock of the model reach `MinAge`, since the plugin starts long after time 0.

| Theorem | Statement |
| --- | --- |
| `TypeCorrect` | `Spec => []TypeOK` |
| `GrantsStayApart` | `Spec => []GrantsAreApart` |
| `ConsolidationStaysRare` | `Spec => ConsolidationIsRare` |
| `CompletionStaysEarned` | `Spec => CompletionIsEarned` |

`ApartInv`: unless a fresh lock was stolen, a grant younger than the stale age still has
its lock in the file, so another process that creates the file is at least that much
later; and no process is about to unlink a fresh lock of its own. `RareInv`: the state
file has the last completion unless a write lost it, and a process past its gates
still satisfies the age that it checked unless a completion raced it. `EarnedInv`
follows a session from the gates to the grant and to the write that lets `dispose`
record it. The exceptions are those of the properties, no others.

### The rate limiter

For any callers, addresses, bucket and rate, of which `LimiterAssumption` only asks that a
bucket holds a token at least.

| Theorem | Statement |
| --- | --- |
| `BudgetIsKept` | `LimiterSpec => []BudgetHolds` |
| `BudgetIsKeptAmongTheParts` | `DirectSpec => []BudgetHolds` |

`BudgetInv` compares each account with the bucket of its address (`Balanced`): what was
spent and what the bucket still has, together, is no more than a full bucket and what the
time brought back. A request adds the same to both sides, or less where the bucket
runs over; it does not matter that its time may be earlier than that of the one
before. That nobody is starved follows from the same: a full bucket or a token's
time is enough for a request, and what other addresses do does not touch the bucket.

### The functions

| Theorem | Statement |
| --- | --- |
| `SearchRanksWell` | `Askable(q)` implies `RankedWell(q)` |
| `EveryListIsComplete` | `Listable(q)` implies `ListsEverythingOnce(q)` |
| `EveryRowReadsBack` | any payload implies `ReadsBack(q)` |
| `EverySearchKeepsTheNearest` | `Searchable(q)` implies `KeepsTheNearest(q)` |
| `EveryKeywordSearchKeepsTheBest` | `KeywordSearchable(q)` implies `KeepsTheBestTexts(q)` |
| `EveryExchangeIsInOrder` | any request in any state of a server implies `Exchanged` |
| `EveryStartIsAsConfigured` | any environment implies `StartsAsConfigured` |
| `SearchesRankTheBest` | `DirectSpec => []RanksTheBest` |
| `StoresAlwaysGiveBack` | `DirectSpec => []StoresGiveBackEverything` |
| `StoresAlwaysFindTheBest` | `DirectSpec => []StoresFindTheBest` |
| `RequestsStayGuarded` | `DirectSpec => []RequestsAreGuarded` |
| `StartsAreAsConfigured` | `DirectSpec => []OnlyAsConfigured` |

The first seven are about every input, the last five apply them to the inputs that
the specification enumerates. `DirectSpec` is the part of the specification of `PureParts`
that needs no recursion; `PureParts` adds questions to other parts only, and TLC
checks the same properties there.

*Ranking.* `Askable` is any number of records with distinct ids and any distances,
scores, links and answers of a model. Under the argument lies what `Arranged` does: its
indices are those it was given, each once, in the order of their keys (`Spots` is a
bijection that `PlacesGrow` makes monotone). A list of results then `Complete`ly has the records
of a set, is `Ascending` in its scores, which are `NonNegative`, and in it no record stands
before one that beats it (`NoneOvertaken`). The window gives such a list; the keyword
pass and the entity boost each turn one into another, the former because a
distance and a keyword score are normalised monotonically, the latter because it favours
the linked; the cut keeps what nothing left out beats; a reranker reorders.

*Stores.* `Listable` is any number of records below 2^32 with distinct ids in any order, and any
page. Pages one after the other are the first records (`PagesJoin`) and enough of
them are all (`PagesAreAll`), so a store that reads everything before it sorts has
everything, and Chroma, which sorts each page by itself, has the same records in each
(`FlattenAlike`). `Searchable` is any vectors of two numbers, any records that the index misses,
any threshold and limit; `KeywordSearchable` any words, any ranks and any rows whose record is
gone. A list of results is `Measured` if it has each record of a set once with its score;
scoring, sorting and filtering keep it so (`ScoredFacts`, `SortedByScore`, `RetainedResults`), each
store in its own order. What a cut keeps is at least as good as what it leaves out
(`BestAreCut`), and that stays so if the threshold comes after the limit: where the limit
took something away, what was taken is no nearer than anything kept, so a
result within the threshold is only lost to nearer ones (`BestAreCutFirst`). The inductions
over the number of pages and the length of a list are about a set of numbers
(`SetInduction`), which the provers can be given, where the library's theorems take an
operator.

*Requests.* `Kept` is `NoTrace` and `Saved` of the response, whatever the server's memories,
history and files. A handler is `Reasonable`: its refusals change nothing, and it deletes the
record that is named or is called by an administrator. What the layers and `wrap_handler` make
of a reasonable answer is in order (`WritesAreInOrder`, `ReadsAreInOrder`), so is what
they stop (`StoppedIsInOrder`), and each route has a reasonable handler.

*Starts.* `StartedFacts` says what a program that has started has resolved, from the order
in which its `main` does so. Each `resolve` function gives what the environment names or fails
(`LlmFacts`, `EmbeddingFacts`, `VectorStoreFacts`), and the paths of the programs differ where none
is named (`PathsApart`).

### Only model-checked

`EveryCallReturns` and `CallsReturn`: liveness under fairness is out of TLAPS's reach.

`FilterSurvivesTheWire`, `InstallsOnlyItself`, `RemoteAsLocal` and `NothingIsMixedUp`: `Filters`, `Installer`,
`Clients` and `Providers` follow the code in recursive operators, over expressions, lines,
answers fetched one by one and words, with which the provers cannot work. Their
properties are checked for every input up to the bounds of section 3.

`WordsFollowRecords`, `NothingComesBack` and the like are proved of the models in which a
statement of a database, or the writing of a file of `Accounts`, is one step. The steps below
that are those of the databases, and of `SnapshotFiles`.

## 5. Where the code and its texts disagree

- `engine_listing`: `list_ids` keeps an id when `get` fails or finds nothing
  (`core/src/memory.rs:344`), before it compares the scope. If a record of bob is
  deleted between the listing and the read, `list(alice)` returns its id; a test
  (`core/src/memory.rs:3015`) asserts "listing alice's scope must not surface bob's
  record".
- `dream_exclusive`: `dispose` removes `dream.lock` whether or not its process
  acquired it (`index.ts:162`), so a refused process frees the lock of the one
  that consolidates, and a third session gets it. The plugin's README (line 56)
  says "plus a filesystem lock so two concurrent sessions can't consolidate at
  once". `GrantsAreApart` says what is left: without such a removal, grants
  are at least the stale age apart.
- `dream_distinct`: sessions are counted by comparison with the last one only
  (`dream.ts:88`), so a session resumed after another counts again; the README
  (line 56) says "5 distinct sessions since".

Two properties are stated with the limits that the code has. `NoDuplicateFacts`
holds with one adder: two adds of one fact both find it missing. `HistoryIsComplete`
holds without failing calls: a delete whose reply is lost leaves no entry.

## 6. Not modelled, and the plan

Left out for good: hashing, signing and token formats, the weights of the models
with their tokenising and sampling, the MCP protocol (a library), the layout of
output and of error texts, the routes that only read an account, Docker and CI
files. The databases behind the stores are external: tables whose single
statements are atomic. The plugin's HTTP client and project look-up have no state.

The model of the plugin leaves out the file with the thresholds and the text it
injects; that of the providers leaves out the description of images. `Accounts` has
one step for the writing of its file, since `SnapshotFiles` has the steps of the
same function.

Planned, in this order:

1. An abstract specification for `SnapshotFiles` and `Accounts` together: per record
   the last saved value, which a restart must find.
2. The thresholds file of the plugin, which its hooks read again each time.
