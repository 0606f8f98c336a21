--------------------------- MODULE Configuration ---------------------------
(***************************************************************************)
(* How the three programs start (main and the resolve functions of         *)
(* src/server/src/main.rs, src/cli/src/main.rs and src/mcp/src/main.rs):   *)
(* what they read from the environment, in which order, what makes them    *)
(* refuse to start, and which providers, store and files they then use.    *)
(*                                                                         *)
(* An environment is a function from the names of the settings (without    *)
(* MEMORIA_) to values; Unset is the value of a variable that is not       *)
(* there.  built is the set of the features a binary was compiled with,    *)
(* works whether what a provider or a store needs is at hand when it is    *)
(* opened: a model to load, a database that answers.  Nothing is asked of  *)
(* Ollama before the first call, so one that is not there stops no start.  *)
(***************************************************************************)
EXTENDS Integers, Sequences, FiniteSets

Unset == "(unset)"
IsSet(v) == v # Unset
Blank == {"", " "}
Or(v, default) == IF IsSet(v) THEN v ELSE default

\* What a step of a start gives: a value, or the name of what it refuses.
Given(v) == [ok |-> TRUE, value |-> v]
Refuse(setting) == [ok |-> FALSE, value |-> setting]

-----------------------------------------------------------------------------
(* The server's own settings.                                              *)
resolve_auth_config(env) ==
    CASE env["API_KEY"] \notin {Unset, ""} -> Given("key")
      [] env["API_KEY"] \in {Unset, ""} /\ env["ALLOW_NO_AUTH"] = "1" -> Given("open")
      [] OTHER -> Refuse("API_KEY")

resolve_jwt_secret(env) ==
    IF env["JWT_SECRET"] \in {Unset, ""} THEN Refuse("JWT_SECRET") ELSE Given("secret")

resolve_cors_origin(env) == IF env["CORS_ORIGIN"] = "" THEN Unset ELSE env["CORS_ORIGIN"]
validate_cors_origin(origin) == IF origin = "*" THEN Refuse("CORS_ORIGIN") ELSE Given(origin)

\* The texts that are numbers, for a limit (trimmed) and for a dimension.
Trimmed(v) == IF v = " 7 " THEN "7" ELSE v
Number == [t \in {"0", "7"} |-> IF t = "0" THEN 0 ELSE 7]
parse_positive_limit(v, default) ==
    CASE v = Unset -> Given(default)
      [] v # Unset /\ Trimmed(v) \in DOMAIN Number \ {"0"} -> Given(Number[Trimmed(v)])
      [] OTHER -> Refuse("MAX_TOP_K")

\* The three limits are read alike; one stands for them.
DEFAULT_MAX_TOP_K == 1000
resolve_engine_limits(env) == parse_positive_limit(env["MAX_TOP_K"], DEFAULT_MAX_TOP_K)

-----------------------------------------------------------------------------
(* Providers.  The address of Ollama is what MEMORIA_* says, else what     *)
(* OLLAMA_HOST says, else its default; an address without scheme or port   *)
(* gets them.                                                              *)
Usable(v) == IF v \in Blank THEN Unset ELSE v
resolve_ollama_base_url(memoria_value, ollama_host) == Or(Usable(memoria_value), Usable(ollama_host))

OLLAMA_DEFAULT_BASE_URL == "http://localhost:11434"
normalize_ollama_base_url(raw) ==
    CASE raw \in Blank \cup {OLLAMA_DEFAULT_BASE_URL} -> OLLAMA_DEFAULT_BASE_URL
      [] raw = "host" -> "http://host:11434"
      [] raw = "host:1" -> "http://host:1"
      [] raw \in {"https://host", "https://host/"} -> "https://host"

Provider(kind, model, url) == Given([kind |-> kind, model |-> model, url |-> url])
NoModel == ""
NoUrl == ""

\* LlmConfig::validate and EmbeddingConfig::validate, as far as the programs
\* can fail them: they never set a temperature or dimensions.
validate(model) == model \notin Blank

\* Only the model's name can be wrong: the address is not tried.  (The client
\* that cannot be built at all, for want of TLS, is left out.)
OllamaProvider(model, default, url) ==
    IF validate(Or(model, default))
    THEN Provider("ollama", Or(model, default), normalize_ollama_base_url(Or(url, OLLAMA_DEFAULT_BASE_URL)))
    ELSE Refuse("MODEL")

\* A provider with a model of its own knows no other.
OneModelProvider(kind, model, known, works) ==
    IF Or(model, known) = known /\ works THEN Provider(kind, known, NoUrl) ELSE Refuse("MODEL")

resolve_llm_provider(env, built, works) ==
    LET choice == Or(env["LLM_PROVIDER"], "local")
        url    == resolve_ollama_base_url(env["LLM_BASE_URL"], env["OLLAMA_HOST"])
    IN  CASE choice = "local" -> Provider("local", NoModel, NoUrl)
          [] choice = "ollama" /\ "ollama" \in built -> OllamaProvider(env["LLM_MODEL"], "qwen", url)
          [] choice = "candle" /\ "candle" \in built -> OneModelProvider("candle", env["LLM_MODEL"], "qwen-q4", works)
          [] OTHER -> Refuse("LLM_PROVIDER")

resolve_embedding_provider(env, built, works) ==
    LET choice == Or(env["EMBEDDING_PROVIDER"], "local")
        url    == resolve_ollama_base_url(env["EMBEDDING_BASE_URL"], env["OLLAMA_HOST"])
    IN  CASE choice = "local" -> Provider("local", NoModel, NoUrl)
          [] choice = "ollama" /\ "ollama" \in built -> OllamaProvider(env["EMBEDDING_MODEL"], "nomic", url)
          [] choice = "fastembed" /\ "fastembed" \in built ->
                OneModelProvider("fastembed", env["EMBEDDING_MODEL"], "minilm", works)
          [] OTHER -> Refuse("EMBEDDING_PROVIDER")

resolve_reranker(env, built, works) ==
    LET choice == env["RERANKER"]
    IN  CASE choice = Unset -> Provider("none", NoModel, NoUrl)
          [] choice = "local" -> Provider("local", NoModel, NoUrl)
          [] choice = "llm" -> resolve_llm_provider(env, built, works)
          [] choice = "fastembed" /\ "fastembed" \in built /\ works -> Provider("fastembed", "bge", NoUrl)
          [] OTHER -> Refuse("RERANKER")

\* The command line client and the MCP server have copies of these.
cli_resolve_llm_provider(env, built, works) == resolve_llm_provider(env, built, works)
cli_resolve_embedding_provider(env, built, works) == resolve_embedding_provider(env, built, works)
cli_resolve_reranker(env, built, works) == resolve_reranker(env, built, works)
mcp_resolve_llm_provider(env, built, works) == resolve_llm_provider(env, built, works)
mcp_resolve_embedding_provider(env, built, works) == resolve_embedding_provider(env, built, works)

-----------------------------------------------------------------------------
(* Files and stores.  A path is a directory and a name.                    *)
Given_path == <<"given", "store">>
Home(name) == <<"~/.memoria", name>>
Path(override, default) == IF IsSet(override) THEN Given_path ELSE Home(default)

resolve_store_path(env) == Path(env["STORE_PATH"], "server-store.json")
resolve_sqlite_path(env) == Path(env["SQLITE_PATH"], "server-store.db")
resolve_auth_store_path(env) == Path(env["AUTH_STORE_PATH"], "auth-store.json")
mcp_resolve_store_path(env) == Path(env["STORE_PATH"], "mcp-store.json")
mcp_resolve_sqlite_path(env) == Path(env["SQLITE_PATH"], "mcp-store.db")
resolve_history_path(store_path) == <<store_path[1], "history.json">>

\* An argument wins over the environment, which wins over the config file.
cli_resolve_store_path(env) ==
    CASE IsSet(env["ARG_STORE_PATH"]) -> <<"argument", "store">>
      [] ~IsSet(env["ARG_STORE_PATH"]) /\ IsSet(env["STORE_PATH"]) -> Given_path
      [] ~IsSet(env["ARG_STORE_PATH"]) /\ ~IsSet(env["STORE_PATH"]) /\ env["CONFIG_FILE"] = "store_path" ->
            <<"configured", "store">>
      [] OTHER -> Home("store.json")      \* and when the file has no path, or does not parse

Networked == {"postgres", "qdrant", "chroma", "milvus"}
Store(kind, place, snapshot) == Given([kind |-> kind, place |-> place, snapshot |-> snapshot])

\* The dimension is parsed as an unsigned number: 0 is one.
NetworkedStore(kind, env, works) ==
    IF IsSet(env["URL"]) /\ env["DIMENSION"] \in DOMAIN Number /\ works
    THEN Store(kind, <<env["URL"], Or(env["NAME"], "memoria_vectors")>>, FALSE)
    ELSE Refuse("VECTOR_STORE")

\* A store the binary was not built with, replaced by the snapshot.
resolve_falling_back(env, built, works, default, store_path, sqlite_path) ==
    IF Or(env["VECTOR_STORE"], default) = "sqlite" /\ "sqlite" \in built /\ works
    THEN Store("sqlite", sqlite_path, FALSE)
    ELSE Store("local", store_path, TRUE)

resolve_vector_store(env, built, works, default, store_path, sqlite_path) ==
    LET choice == Or(env["VECTOR_STORE"], default)
    IN  CASE choice = "local" -> Store("local", store_path, TRUE)
          [] choice = "sqlite" /\ "sqlite" \in built /\ works -> Store("sqlite", sqlite_path, FALSE)
          [] choice \in Networked \cap built -> NetworkedStore(choice, env, works)
          [] OTHER -> Refuse("VECTOR_STORE")

mcp_resolve_vector_store(env, built, works) ==
    resolve_vector_store(env, built, works, "sqlite", mcp_resolve_store_path(env), mcp_resolve_sqlite_path(env))

-----------------------------------------------------------------------------
(* A start: the steps in the order the program takes them.  The first one  *)
(* that refuses ends it.                                                   *)
First(S) == CHOOSE i \in S : \A j \in S : i =< j
Started(program, names, steps) ==
    LET wrong == {i \in DOMAIN steps : ~steps[i].ok}
    IN  IF wrong # {}
        THEN [program |-> program, status |-> "refused", why |-> steps[First(wrong)].value]
        ELSE [program |-> program, status |-> "started",
              has |-> [n \in {names[i] : i \in DOMAIN names} |->
                          steps[CHOOSE i \in DOMAIN names : names[i] = n].value]]

server_main(env, built, works) ==
    Started("server",
        <<"auth", "limits", "cors", "llm", "embedding", "reranker", "jwt", "store", "accounts", "history">>,
        <<resolve_auth_config(env), resolve_engine_limits(env), validate_cors_origin(resolve_cors_origin(env)),
          resolve_llm_provider(env, built, works), resolve_embedding_provider(env, built, works),
          resolve_reranker(env, built, works), resolve_jwt_secret(env),
          resolve_vector_store(env, built, works, "local", resolve_store_path(env), resolve_sqlite_path(env)),
          Given(resolve_auth_store_path(env)), Given(resolve_history_path(resolve_store_path(env)))>>)

\* With a server's address the other two are its clients and read nothing else;
\* a key that is empty is none.
Remote(program, env) ==
    [program |-> program, status |-> "remote", key |-> env["API_KEY"] \notin {Unset, ""}]

cli_main(env, built, works) ==
    IF IsSet(env["SERVER_URL"]) THEN Remote("cli", env)
    ELSE Started("cli",
        <<"llm", "embedding", "reranker", "store", "history">>,
        <<cli_resolve_llm_provider(env, built, works), cli_resolve_embedding_provider(env, built, works),
          cli_resolve_reranker(env, built, works), Store("local", cli_resolve_store_path(env), TRUE),
          Given(resolve_history_path(cli_resolve_store_path(env)))>>)

mcp_main(env, built, works) ==
    IF IsSet(env["SERVER_URL"]) THEN Remote("mcp", env)
    ELSE Started("mcp",
        <<"llm", "embedding", "store", "history">>,
        <<mcp_resolve_llm_provider(env, built, works), mcp_resolve_embedding_provider(env, built, works),
          mcp_resolve_vector_store(env, built, works), Given(resolve_history_path(mcp_resolve_store_path(env)))>>)

-----------------------------------------------------------------------------
(* The inputs: an environment that starts everything, with the settings of *)
(* one group at a time changed in every way.                               *)
Settings == {"API_KEY", "ALLOW_NO_AUTH", "JWT_SECRET", "CORS_ORIGIN", "MAX_TOP_K", "LLM_PROVIDER", "LLM_MODEL",
             "LLM_BASE_URL", "OLLAMA_HOST", "EMBEDDING_PROVIDER", "EMBEDDING_MODEL", "EMBEDDING_BASE_URL", "RERANKER",
             "STORE_PATH", "SQLITE_PATH", "AUTH_STORE_PATH", "ARG_STORE_PATH", "CONFIG_FILE", "VECTOR_STORE", "URL",
             "DIMENSION", "NAME", "SERVER_URL"}
Base == [s \in Settings |-> IF s \in {"API_KEY", "JWT_SECRET"} THEN "x" ELSE Unset]
With(changes) == [s \in Settings |-> IF s \in DOMAIN changes THEN changes[s] ELSE Base[s]]

Texts == {Unset, "", "x"}
Urls == {Unset, " ", "host", "https://host/"}
Own == {With([API_KEY |-> k, ALLOW_NO_AUTH |-> a, JWT_SECRET |-> j, CORS_ORIGIN |-> c, MAX_TOP_K |-> m, SERVER_URL |-> u]) :
          k, j \in Texts, a \in {Unset, "0", "1"}, c \in {Unset, "", "*", "site"},
          m \in {Unset, "0", " 7 ", "x"}, u \in {Unset, "http://server"}}
Models == {With([LLM_PROVIDER |-> l, LLM_MODEL |-> n, LLM_BASE_URL |-> u, OLLAMA_HOST |-> h, RERANKER |-> r]) :
             l \in {Unset, "local", "ollama", "candle", "other"}, n \in {Unset, "", "qwen-q4"},
             u, h \in Urls, r \in {Unset, "llm", "fastembed", "other"}}
Embeddings == {With([EMBEDDING_PROVIDER |-> p, EMBEDDING_MODEL |-> n, EMBEDDING_BASE_URL |-> u, RERANKER |-> "local"]) :
                 p \in {Unset, "ollama", "fastembed", "other"}, n \in {Unset, " ", "minilm"}, u \in {Unset, "host:1"}}
Stores == {With([VECTOR_STORE |-> v, URL |-> u, DIMENSION |-> d, NAME |-> n, STORE_PATH |-> p, SQLITE_PATH |-> p,
                 ARG_STORE_PATH |-> a, CONFIG_FILE |-> c]) :
             v \in {Unset, "local", "sqlite", "postgres", "milvus", "other"}, u, n \in {Unset, "x"},
             d \in {Unset, "x", "0", "7"}, p, a \in {Unset, "x"}, c \in {Unset, "broken", "store_path"}}
AllFeatures == {"ollama", "candle", "fastembed", "sqlite"} \cup Networked
Starts ==
    {[env |-> e, built |-> b, works |-> w] : e \in Own, b \in {{}}, w \in {TRUE}}
    \cup {[env |-> e, built |-> b, works |-> w] :
            e \in Models \cup Embeddings \cup Stores, b \in {{}, AllFeatures}, w \in BOOLEAN}

-----------------------------------------------------------------------------
(* What a start may use: what the environment names, or the default.       *)
Names(env, setting, default, found) == found = Or(env[setting], default)

\* The server starts only with a key or the explicit permission to go without
\* one, with a secret, and with limits above zero; it never allows every
\* origin.
ServerIsGuarded(q) ==
    LET s == server_main(q.env, q.built, q.works)
    IN  s.status = "started" =>
           /\ q.env["API_KEY"] \in {Unset, ""} => (s.has["auth"] = "open" /\ q.env["ALLOW_NO_AUTH"] = "1")
           /\ q.env["JWT_SECRET"] \notin {Unset, ""}
           /\ s.has["limits"] > 0
           /\ s.has["cors"] # "*"

\* Whatever a program uses is what the environment names: a provider or a
\* store that is unknown, not built in or not at hand is a refusal and never
\* replaced by another one.  Only Ollama need not be at hand.
NothingFallsBack(q) ==
    \A p \in {server_main(q.env, q.built, q.works), cli_main(q.env, q.built, q.works), mcp_main(q.env, q.built, q.works)} :
        p.status = "started" =>
            /\ Names(q.env, "LLM_PROVIDER", "local", p.has["llm"].kind)
            /\ Names(q.env, "EMBEDDING_PROVIDER", "local", p.has["embedding"].kind)
            /\ p.program # "cli" =>
                  Names(q.env, "VECTOR_STORE", IF p.program = "mcp" THEN "sqlite" ELSE "local", p.has["store"].kind)
            /\ p.has["store"].snapshot = (p.has["store"].kind = "local")
            /\ ~q.works => /\ {p.has["llm"].kind, p.has["embedding"].kind} \subseteq {"local", "ollama"}
                           /\ p.has["store"].kind = "local"

\* In one environment the three programs use the same providers, so the
\* vectors of a store they share can be compared; without a path of their own
\* their stores are three different files.
ProgramsAgree(q) ==
    LET s == server_main(q.env, q.built, q.works)
        c == cli_main(q.env, q.built, q.works)
        m == mcp_main(q.env, q.built, q.works)
        up == {p \in {s, c, m} : p.status = "started"}
    IN  /\ \A p, o \in up : p.has["llm"] = o.has["llm"] /\ p.has["embedding"] = o.has["embedding"]
        /\ (q.env["STORE_PATH"] = Unset /\ q.env["SQLITE_PATH"] = Unset) =>
              \A p, o \in up :
                 p.program # o.program /\ {p.has["store"].kind, o.has["store"].kind} \cap Networked = {}
                    => p.has["store"].place # o.has["store"].place

StartsAsConfigured(q) == ServerIsGuarded(q) /\ NothingFallsBack(q) /\ ProgramsAgree(q)
=============================================================================
