----------------------------- MODULE PureParts ------------------------------
(***************************************************************************)
(* The parts of memoria that are functions of what they are given, and the *)
(* rate limiter: DirectParts and those whose models are recursive.  What   *)
(* the parts compute, and the properties of it, are in the modules         *)
(* instantiated here; a behaviour asks one question and stops.             *)
(***************************************************************************)
EXTENDS DirectParts

\* Of Providers: the length of a completion of the built-in model.
CONSTANT CANDLE_MAX_NEW_TOKENS

ASSUME PartsAssumption == CANDLE_MAX_NEW_TOKENS \in Nat \ {0}

vars == <<part, input, limiter>>

FilterParts == INSTANCE Filters
InstallParts == INSTANCE Installer
ClientParts == INSTANCE Clients
ProviderParts == INSTANCE Providers

-----------------------------------------------------------------------------
Init == DirectInit

AskFilter == Ask("filter", FilterParts!Documents)
AskTomlEdit == Ask("toml edit", InstallParts!TomlEdits)
AskJsonEdit == Ask("json edit", InstallParts!JsonEdits)
AskInstaller == Ask("installer", InstallParts!Runs)
AskClient == Ask("client", ClientParts!Uses)
AskFacts == Ask("facts", ProviderParts!Conversations)
AskBatch == Ask("batch", ProviderParts!Batches)
AskCompletion == Ask("completion", ProviderParts!Completions)
AskQuotations == Ask("quotations", ProviderParts!Sayings)
AskNames == Ask("names", ProviderParts!Mentions)

Next ==
    \/ DirectNext
    \/ AskFilter
    \/ AskTomlEdit \/ AskJsonEdit \/ AskInstaller \/ AskClient
    \/ AskFacts \/ AskBatch \/ AskCompletion \/ AskQuotations \/ AskNames

Spec == Init /\ [][Next]_vars

-----------------------------------------------------------------------------
\* A filter means the same to the command line client that reads it and to the
\* server it is sent to (filter.rs, filter_expr_to_json).
FilterSurvivesTheWire == part = "filter" => FilterParts!SurvivesTheWire(input)

\* The installer changes its own entry and nothing else, loses no file when it
\* stops halfway, and installing again or removing what was installed has the
\* effect it says (install.rs).
InstallsOnlyItself ==
    /\ part = "toml edit" => InstallParts!TomlKeepsTheRest(input) /\ InstallParts!TomlSettles(input)
    /\ part = "json edit" => InstallParts!JsonKeepsTheRest(input) /\ InstallParts!JsonSettles(input)
    /\ part = "installer" => InstallParts!RunsSettle(input) /\ InstallParts!ReplacesSafely

\* A client does with a server what it does with a store of its own (the
\* commands of the command line client, the tools of the MCP server).
RemoteAsLocal == part = "client" => ClientParts!RemoteAsLocal(input)

\* The providers lose nothing of what they are given and mix nothing up: the
\* facts of a conversation, the vectors of a batch, the end of a completion,
\* the entities of a text (llm.rs, embedding.rs, entity.rs).
NothingIsMixedUp ==
    /\ part = "facts" => ProviderParts!FactsFollowTheText(input)
    /\ part = "batch" => ProviderParts!BatchIsOneByOne(input)
    /\ part = "completion" => ProviderParts!CompletionsEnd(input)
    /\ part = "quotations" => ProviderParts!QuotationsStandApart(input)
    /\ part = "names" => ProviderParts!NamesAreFoundAgain(input)
=============================================================================
