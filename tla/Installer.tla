----------------------------- MODULE Installer -----------------------------
(***************************************************************************)
(* The installer of the MCP server (src/mcp/src/install.rs): it finds the  *)
(* configuration files of the MCP clients, adds an entry for memoria to    *)
(* each, or removes it, and replaces the files.                            *)
(*                                                                         *)
(* A TOML file is the sequence of its lines, drawn from a few; a JSON file *)
(* is what its parse gives.  A file that does not end in a line break is   *)
(* left out.                                                               *)
(***************************************************************************)
EXTENDS Integers, Sequences, FiniteSets, SequencesExt

Memoria == "[mcp_servers.memoria]"
MemoriaEnv == "[mcp_servers.memoria.env]"
MemoriaTools == "[mcp_servers.memoria.tools]"
Headers == {Memoria, MemoriaEnv, MemoriaTools, "[mcp_servers.memoria2]", "[other]"}
Lines == Headers \cup {"a = old", "b = 1", "# note", "", "command = old"}

\* A file of nothing and no file are the same to the edit of a TOML file.
Edit(action, contents) == [action |-> action, contents |-> contents]
Writes(edit) == edit.action \in {"added", "updated", "removed"}

\* A table whose name begins with that of memoria taken for one of memoria's.
IsMemoriaPrefix(line) == line \in Headers \ {"[other]"}
is_memoria_table(line) == line \in {Memoria, MemoriaEnv, MemoriaTools}
is_blank_or_comment(line) == line \in {"", "# note"}
toml_line_key(line) ==
    CASE line \in {"a = old", "a = new"} -> "a" [] line = "b = 1" -> "b" [] OTHER -> "command"

-----------------------------------------------------------------------------
(* TOML.  The lines of memoria are those of its tables, up to the last     *)
(* that is neither blank nor a comment.                                    *)
TableAt(lines, i) ==
    LET headers == {h \in 1..i : lines[h] \in Headers}
    IN  IF headers = {} THEN "" ELSE lines[CHOOSE h \in headers : \A o \in headers : o =< h]
UnderMemoria(lines, i) == is_memoria_table(TableAt(lines, i))
memoria_toml_ranges(lines) ==
    {i \in DOMAIN lines :
        \E j \in i..Len(lines) : /\ \A k \in i..j : UnderMemoria(lines, k)
                                 /\ ~is_blank_or_comment(lines[j])}

\* The lines whose indices satisfy P, in their order.
Where(lines, P(_)) ==
    LET indices == SelectSeq([i \in DOMAIN lines |-> i], P)
    IN  [n \in DOMAIN indices |-> lines[indices[n]]]
Kept(lines) == LET ours == memoria_toml_ranges(lines) IN Where(lines, LAMBDA i : i \notin ours)

\* The variables of the old entry that the new one does not set.
preserved_toml_env(lines, env) ==
    LET ours   == memoria_toml_ranges(lines)
        old(i) == /\ i \in ours
                  /\ TableAt(lines, i) = MemoriaEnv
                  /\ lines[i] \notin Headers
                  /\ ~is_blank_or_comment(lines[i])
                  /\ toml_line_key(lines[i]) \notin env
    IN  Where(lines, old)

\* An entry is the set of the variables it sets.
EnvLines(env) == IF env = {} THEN <<>> ELSE <<"a = new">>
render_toml_block(env, preserved) ==
    <<Memoria, "command = new", "args = []">>
    \o (IF env = {} /\ preserved = <<>> THEN <<>> ELSE <<"", MemoriaEnv>> \o EnvLines(env) \o preserved)

RECURSIVE Trimmed(_)
Trimmed(lines) ==
    IF lines # <<>> /\ Last(lines) = "" THEN Trimmed(Front(lines)) ELSE lines

upsert_toml(lines, env) ==
    LET ours    == memoria_toml_ranges(lines)
        block   == render_toml_block(env, preserved_toml_env(lines, env))
        first   == CHOOSE i \in ours : \A j \in ours : i =< j
        before  == SubSeq(lines, 1, first - 1)
        after   == Where(lines, LAMBDA i : i > first /\ i \notin ours)
        spliced == before \o block \o after
        rest    == Trimmed(lines)
        added   == (IF rest = <<>> THEN <<>> ELSE Append(rest, "")) \o block
        updated == Trimmed(IF ours = {} THEN added ELSE spliced)
    IN  IF updated = lines THEN Edit("unchanged", lines)
        ELSE Edit(IF ours = {} THEN "added" ELSE "updated", updated)

\* Blank lines right after a removed range go with it when a blank line, or
\* the start of the file, is right before it.
GoesToo(lines, ours, i) ==
    \E e \in ours :
        /\ e < i /\ \A k \in (e + 1)..i : k \notin ours /\ lines[k] = ""
        /\ \E s \in ours : /\ s =< e /\ s..e \subseteq ours
                           /\ s = 1 \/ (s - 1 \notin ours /\ lines[s - 1] = "")

remove_toml(lines) ==
    LET ours == memoria_toml_ranges(lines)
    IN  IF ours = {} THEN Edit("absent", lines)
        ELSE Edit("removed", Trimmed(Where(lines, LAMBDA i : i \notin ours /\ ~GoesToo(lines, ours, i))))

-----------------------------------------------------------------------------
(* JSON.  A file is absent or blank (NoRoot), not to be parsed (Broken),   *)
(* or a root object: its other keys, whether the container of the servers  *)
(* is an object, and the servers.  A server is its command, its            *)
(* environment, whose values are texts or something else, and whether it   *)
(* has settings the installer does not write.                              *)
Root(parse, rest, container, servers) ==
    [parse |-> parse, rest |-> rest, container |-> container, servers |-> servers]
NoRoot == Root("none", {}, "none", <<>>)
Broken == Root("broken", {}, "none", <<>>)
WithServers(root, servers) == Root("object", root.rest, "object", servers)

With(f, k, v) == [x \in DOMAIN f \cup {k} |-> IF x = k THEN v ELSE f[x]]
Failed == Edit("error", NoRoot)

\* The new entry with the texts of the old environment it does not set.
with_previous_json_env(servers, env) ==
    LET old == IF "memoria" \in DOMAIN servers THEN servers["memoria"].env ELSE <<>>
        texts == {k \in DOMAIN old : old[k] # "number"}
    IN  [k \in env \cup texts |-> IF k \in env THEN "new" ELSE old[k]]

upsert_json(root, env) ==
    LET entry   == [command |-> "new", env |-> with_previous_json_env(root.servers, env), more |-> FALSE]
        updated == WithServers(root, With(root.servers, "memoria", entry))
    IN  IF root.parse = "broken" \/ root.container = "other" THEN Failed
        ELSE IF "memoria" \notin DOMAIN root.servers THEN Edit("added", updated)
        ELSE IF root.servers["memoria"] = entry THEN Edit("unchanged", root)
        ELSE Edit("updated", updated)

remove_json(root) ==
    IF root.parse = "broken" \/ root.container = "other" THEN Failed
    ELSE IF "memoria" \in DOMAIN root.servers
    THEN Edit("removed", WithServers(root, [k \in DOMAIN root.servers \ {"memoria"} |-> root.servers[k]]))
    ELSE Edit("absent", root)

-----------------------------------------------------------------------------
(* Which file is a client's, and which clients are configured.             *)
Clients == {"claude-code", "claude-desktop", "cursor", "opencode", "codex"}

\* An environment: the variables that are set and whether the system is macOS.
config_home(e) == IF "XDG_CONFIG_HOME" \in e.set THEN "xdg" ELSE "home/.config"
config_dir(client, e) ==
    CASE client = "claude-code" -> IF "CLAUDE_CONFIG_DIR" \in e.set THEN <<"claude">> ELSE <<"home", ".claude">>
      [] client = "claude-desktop" -> IF e.macos THEN <<"home", "Library", "Claude">> ELSE <<config_home(e), "Claude">>
      [] client = "cursor" -> <<"home", ".cursor">>
      [] client = "opencode" -> <<config_home(e), "opencode">>
      [] client = "codex" -> IF "CODEX_HOME" \in e.set THEN <<"codex">> ELSE <<"home", ".codex">>

\* Opencode reads either of two names: the plain one wins when it exists.
config_path(client, e, files) ==
    LET dir   == config_dir(client, e)
        json  == Append(dir, "opencode.json")
        jsonc == Append(dir, "opencode.jsonc")
    IN  CASE client = "claude-code" ->
               Append(IF "CLAUDE_CONFIG_DIR" \in e.set THEN <<"claude">> ELSE <<"home">>, ".claude.json")
          [] client = "claude-desktop" -> Append(dir, "claude_desktop_config.json")
          [] client = "cursor" -> Append(dir, "mcp.json")
          [] client = "opencode" -> IF json \notin files /\ jsonc \in files THEN jsonc ELSE json
          [] client = "codex" -> Append(dir, "config.toml")

is_detected(client, e, files, dirs) ==
    config_path(client, e, files) \in files \/ config_dir(client, e) \in dirs

\* One run of install or uninstall, on what memoria's entry is in each file:
\* "none" for a file without it.
Apply(op, dry_run, before) ==
    IF dry_run THEN before ELSE IF op = "install" THEN "entry" ELSE "none"

run(op, requested, e, dry_run, files, dirs) ==
    LET chosen == {c \in Clients : requested = {} \/ c \in requested}
        touched == {c \in chosen : requested # {} \/ is_detected(c, e, DOMAIN files, dirs)}
        paths == {config_path(c, e, DOMAIN files) : c \in touched}
        written == IF dry_run THEN {} ELSE
                   {p \in paths : op = "install" \/ (p \in DOMAIN files /\ files[p] # "none")}
    IN  [p \in DOMAIN files \cup written |->
            IF p \in written THEN Apply(op, dry_run, "none") ELSE files[p]]

\* The states of the disk while a file is replaced: the file, its copy and the
\* new file under a temporary name.
Disk(path, bak, temp) == [path |-> path, bak |-> bak, temp |-> temp]

\* One state per call replace_file makes: a new file is written in place; an
\* old one is copied aside and replaced by a rename.
replace_file(exists, before, after) ==
    IF exists
    THEN <<Disk(before, "none", "none"), Disk(before, before, "none"), Disk(before, before, "part"),
           Disk(before, before, after), Disk(after, before, "none")>>
    ELSE <<Disk("none", "none", "none"), Disk("part", "none", "none"), Disk(after, "none", "none")>>

-----------------------------------------------------------------------------
(* The inputs.                                                             *)
Few == {Memoria, MemoriaEnv, "[mcp_servers.memoria2]", "a = old", "b = 1", ""}
TomlFiles ==
    UNION {[1..n -> Lines] : n \in 0..3} \cup [1..4 -> Few]
    \cup {<<Memoria, x, MemoriaTools, "[other]", y, MemoriaEnv, "b = 1", z>> : x, y, z \in Few}
    \cup {<<"[other]", "", Memoria, "", MemoriaEnv, "# note", x, y, "# note", "", "[other]">> : x, y \in Few}

Server(command, env, more) == [command |-> command, env |-> env, more |-> more]
Environments == UNION {[ks -> {"old", "new", "number"}] : ks \in SUBSET {"a", "b"}}
OurEntries == {Server(c, e, m) : c \in {"old", "new"}, e \in Environments, m \in BOOLEAN}
Other(f) == With(f, "other", Server("theirs", <<>>, TRUE))
JsonFiles ==
    {NoRoot, Broken, Root("object", {"theme"}, "none", <<>>), Root("object", {"theme"}, "other", <<>>),
     Root("object", {}, "object", <<>>), Root("object", {"theme"}, "object", Other(<<>>))}
    \cup {Root("object", {"theme"}, "object", With(f, "memoria", s)) : s \in OurEntries, f \in {<<>>, Other(<<>>)}}

Variables == SUBSET {"XDG_CONFIG_HOME", "CLAUDE_CONFIG_DIR", "CODEX_HOME"}
Systems == {[set |-> v, macos |-> m] : v \in Variables, m \in BOOLEAN}
SomeFiles(e) ==
    LET all == {config_path(c, e, {}) : c \in Clients} \cup {Append(config_dir("opencode", e), "opencode.jsonc")}
    IN  UNION {[fs -> {"none", "entry"}] : fs \in {{}, {config_path("codex", e, {})}, all,
                 {Append(config_dir("opencode", e), "opencode.jsonc"), config_path("cursor", e, {})}}}

TomlEdits == {[lines |-> l, env |-> e] : l \in TomlFiles, e \in {{}, {"a"}}}
JsonEdits == {[root |-> r, env |-> e] : r \in JsonFiles, e \in {{}, {"a"}}}
Runs ==
    UNION {{[e |-> e, files |-> f, dirs |-> d, requested |-> r] :
              f \in SomeFiles(e), d \in {{}, {config_dir("claude-code", e)}},
              r \in {{}, {"claude-code"}, {"opencode", "codex"}}} : e \in Systems}

-----------------------------------------------------------------------------
Rest(lines) == SelectSeq(Kept(lines), LAMBDA line : line # "")
\* The settings that stand in a table of somebody else, and the headers of such.
Foreign(lines) ==
    Where(lines, LAMBDA i : /\ TableAt(lines, i) \notin {Memoria, MemoriaEnv, MemoriaTools}
                            /\ lines[i] \notin {"", "# note"})
Variable(lines, line) ==
    \E i \in memoria_toml_ranges(lines) : TableAt(lines, i) = MemoriaEnv /\ lines[i] = line

\* Installing into a TOML file, and removing from it, keeps every line that is
\* not of memoria's tables, in its order, and a variable of the old entry stays
\* unless the new entry sets it.
TomlKeepsTheRest(q) ==
    LET up == upsert_toml(q.lines, q.env).contents
    IN  /\ Rest(up) = Rest(q.lines)
        /\ Rest(remove_toml(q.lines).contents) = Rest(q.lines)
        /\ Foreign(up) = Foreign(q.lines)
        /\ Foreign(remove_toml(q.lines).contents) = Foreign(q.lines)
        /\ Variable(q.lines, "b = 1") <=> Variable(up, "b = 1")
        /\ q.env = {} => (Variable(q.lines, "a = old") <=> Variable(up, "a = old"))
        /\ q.env = {"a"} => (Variable(up, "a = new") /\ ~Variable(up, "a = old"))

\* So it is in a JSON file, which an edit that fails leaves alone.
JsonKeepsTheRest(q) ==
    \A edit \in {upsert_json(q.root, q.env), remove_json(q.root)} :
        Writes(edit) =>
            /\ edit.contents.rest = q.root.rest
            /\ \A k \in DOMAIN q.root.servers \ {"memoria"} : edit.contents.servers[k] = q.root.servers[k]
            /\ \A k \in {"a", "b"} \ q.env :
                  (/\ edit.action = "updated"
                   /\ k \in DOMAIN q.root.servers["memoria"].env
                   /\ q.root.servers["memoria"].env[k] # "number")
                      => edit.contents.servers["memoria"].env[k] = q.root.servers["memoria"].env[k]

\* Wherever it stops, a replacement leaves the old file or the new one in
\* place, and a copy of the old one once the new one is there.
ReplacesSafely ==
    \A n \in DOMAIN replace_file(TRUE, "old", "new") :
        LET disk == replace_file(TRUE, "old", "new")[n]
        IN  disk.path \in {"old", "new"} /\ (disk.path = "new" => disk.bak = "old")

\* Installing twice is installing once; what was installed is removed, and a
\* file that had no entry is then what it was, up to blank lines at its end.
TomlSettles(q) ==
    LET up == upsert_toml(q.lines, q.env).contents
    IN  /\ upsert_toml(up, q.env).action = "unchanged"
        /\ remove_toml(remove_toml(up).contents).action = "absent"
        /\ remove_toml(q.lines).action = "absent" => remove_toml(up).contents = Trimmed(q.lines)

JsonSettles(q) ==
    LET up == upsert_json(q.root, q.env)
    IN  up.action # "error" =>
           /\ upsert_json(up.contents, q.env).action = "unchanged"
           /\ remove_json(remove_json(up.contents).contents).action = "absent"

\* Every entry an install wrote is found again by an uninstall that is told no
\* client; a dry run writes nothing; a client that is neither found nor named
\* gets no file.
RunsSettle(q) ==
    LET installed == run("install", q.requested, q.e, FALSE, q.files, q.dirs)
        removed   == run("uninstall", {}, q.e, FALSE, installed, q.dirs)
        new       == {p \in DOMAIN installed : p \notin DOMAIN q.files \/ q.files[p] # installed[p]}
    IN  /\ \A p \in new : removed[p] = "none"
        /\ run("install", q.requested, q.e, TRUE, q.files, q.dirs) = q.files
        /\ \A c \in Clients \ q.requested :
              ~is_detected(c, q.e, DOMAIN q.files, q.dirs)
                 => config_path(c, q.e, DOMAIN installed) \notin DOMAIN installed
=============================================================================
