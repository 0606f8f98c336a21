---------------------------- MODULE DirectParts -----------------------------
(***************************************************************************)
(* The parts of memoria whose models need no recursion: how a search ranks *)
(* its results, what the stores answer, what the server does with one      *)
(* request, how a program starts, and the rate limiter.  A behaviour asks  *)
(* one question of one of them and stops; only the rate limiter has a      *)
(* state and goes on.  What the parts compute, and the properties of it,   *)
(* are in the modules extended here.                                       *)
(***************************************************************************)
EXTENDS Ranking, StoreReads, Requests, Configuration, RateLimiter

VARIABLES part,        \* the part that was asked, "none" before the question
          input        \* the question

-----------------------------------------------------------------------------
Ask(p, questions) == part = "none" /\ part' = p /\ input' \in questions /\ UNCHANGED limiter

DirectInit == part = "none" /\ input = <<>> /\ LimiterInit

AskSearch == Ask("search", Searches)
AskList == Ask("list", Listings)
AskNearest == Ask("nearest", Lookups)
AskWords == Ask("words", KeywordLookups)
AskRow == Ask("row", Rows)
AskServer == Ask("server", Exchanges)
AskStart == Ask("start", Starts)
AskLimiter == Ask("limiter", {<<>>})
Limit == part = "limiter" /\ LimiterNext /\ UNCHANGED <<part, input>>

DirectNext ==
    \/ AskSearch
    \/ AskList \/ AskNearest \/ AskWords \/ AskRow
    \/ AskServer \/ AskStart
    \/ AskLimiter \/ Limit

DirectSpec == DirectInit /\ [][DirectNext]_<<part, input, limiter>>

-----------------------------------------------------------------------------
\* A search keeps the best of the records it may return and lists none before
\* one that is better in every pass (Memory::search, the rerankers).
RanksTheBest == part = "search" => RankedWell(input)

\* The six stores give every id once over the pages of a list, and give back
\* the records they were given (the list, insert and get of vector_store.rs).
StoresGiveBackEverything ==
    /\ part = "list" => ListsEverythingOnce(input)
    /\ part = "row" => ReadsBack(input)

\* Each store finds the best of what fits by its own measure, wherever in the
\* search it applies the threshold, the limit and the filters (the search and
\* keyword_search of vector_store.rs).
StoresFindTheBest ==
    /\ part = "nearest" => KeepsTheNearest(input)
    /\ part = "words" => KeepsTheBestTexts(input)

\* A request the server refuses leaves no trace in the memories or the files,
\* one that succeeds is saved, and only an administrator deletes in bulk (the
\* routes, layers and handlers of the server).
RequestsAreGuarded == part = "server" => Exchanged(input)

\* A program that starts uses what its environment names, never a substitute,
\* and the server never starts unguarded without being told (the resolve
\* functions and main of the three programs).
OnlyAsConfigured == part = "start" => StartsAsConfigured(input)
=============================================================================
