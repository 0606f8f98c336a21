--------------------------- MODULE MCMemoryEngine ---------------------------
(* Values for the constants of MemoryEngine in the TLC runs.               *)
EXTENDS MemoryEngineInv, TLC

CONSTANTS alice, bob, agent,   \* scope entries
          tea, chai,           \* contents; tea mentions the entity Assam
          assam, old

\* Two users, the first also with an agent: the scopes {alice} and
\* {alice, agent} overlap, {bob} is apart from both.
MCTags == {alice, bob, agent}
OneScope == {{alice}}
NestedScopes == {{alice}, {alice, agent}}
SeparateScopes == {{alice}, {bob}}

OneContent == {tea}
TwoContents == {tea, chai}
NoMetas == {}
OldMetas == {old}
NoEntities == {}
OneEntity == {assam}
NothingFound == [c \in Contents |-> {}]
TeaMentionsAssam == [c \in Contents |-> IF c = tea THEN {assam} ELSE {}]

ThreadSymmetry == Permutations(Threads)
=============================================================================
