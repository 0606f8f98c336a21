--------------------------- MODULE Ranking_proofs ---------------------------
(***************************************************************************)
(* That a search ranks what the store returns as it must, for every        *)
(* search: any number of records, any distances, keyword scores, entity    *)
(* links and answers of a model.                                           *)
(*                                                                         *)
(* The argument follows the code.  A list of results has every record of   *)
(* a set once (Complete), in the order of the scores (Ascending), none of  *)
(* them negative (NonNegative), and no record stands behind one that it    *)
(* beats (NoneOvertaken).  The window gives such a list, the keyword pass  *)
(* and the entity boost each turn one into another, cutting it keeps what  *)
(* nothing left out beats, and a reranker gives the same records in the    *)
(* order of its own scores.  Under this lies what sorting does: the        *)
(* indices of a list in the order of their keys are those indices, each    *)
(* once.                                                                   *)
(***************************************************************************)
EXTENDS Ranking, FiniteSetTheorems, SequenceTheorems, TLAPS

-----------------------------------------------------------------------------
(* Arranged: the indices in the order of their keys.                       *)

\* The indices that come no later than i, and the place of i among all.
UpTo(I, key, i) == {j \in I : key[j] < key[i] \/ (key[j] = key[i] /\ j =< i)}
Place(I, key, i) == Cardinality(UpTo(I, key, i))
Spots(I, key) == [m \in 1 .. Cardinality(I) |-> CHOOSE i \in I : Place(I, key, i) = m]

ComesFirst(key, i, j) == key[i] < key[j] \/ (key[i] = key[j] /\ i < j)

LEMMA ArrangedBySpots ==
    ASSUME NEW s, NEW I, NEW key
    PROVE  Arranged(s, I, key) = [m \in 1 .. Cardinality(I) |-> s[Spots(I, key)[m]]]
BY DEF Arranged, Spots, Place, UpTo

\* An index that comes first has the smaller place.
LEMMA PlacesGrow ==
    ASSUME NEW I \in SUBSET Nat, IsFiniteSet(I), NEW key, \A i \in I : key[i] \in Int,
           NEW i \in I, NEW j \in I, ComesFirst(key, i, j)
    PROVE  Place(I, key, i) < Place(I, key, j)
<1>1. UpTo(I, key, i) \in SUBSET UpTo(I, key, j)
  <2> SUFFICES ASSUME NEW k \in I, key[k] < key[i] \/ (key[k] = key[i] /\ k =< i)
               PROVE  key[k] < key[j] \/ (key[k] = key[j] /\ k =< j)
    BY DEF UpTo
  <2>1. /\ key[k] \in Int /\ key[i] \in Int /\ key[j] \in Int
        /\ k \in Nat /\ i \in Nat /\ j \in Nat
    OBVIOUS
  <2> QED BY <2>1 DEF ComesFirst
<1>2. j \in UpTo(I, key, j) /\ j \notin UpTo(I, key, i)
  BY DEF UpTo, ComesFirst
<1>3. UpTo(I, key, j) \in SUBSET I
  BY DEF UpTo
<1>4. IsFiniteSet(UpTo(I, key, j)) /\ IsFiniteSet(UpTo(I, key, i))
  BY <1>1, <1>3, FS_Subset
<1>5. Place(I, key, i) \in Nat /\ Place(I, key, j) \in Nat
  BY <1>4, FS_CardinalityType DEF Place
<1>6. /\ Place(I, key, i) =< Place(I, key, j)
      /\ Place(I, key, j) = Place(I, key, i) => UpTo(I, key, j) = UpTo(I, key, i)
  BY <1>1, <1>4, FS_Subset DEF Place
<1> QED BY <1>2, <1>5, <1>6

\* Every place is taken, once.
LEMMA PlacesAreTaken ==
    ASSUME NEW I \in SUBSET Nat, IsFiniteSet(I), NEW key, \A i \in I : key[i] \in Int
    PROVE  /\ Cardinality(I) \in Nat
           /\ \A i \in I : Place(I, key, i) \in 1 .. Cardinality(I)
           /\ \A i, j \in I : i # j => Place(I, key, i) # Place(I, key, j)
           /\ \A m \in 1 .. Cardinality(I) : \E i \in I : Place(I, key, i) = m
<1> DEFINE c == Cardinality(I)
           place == [i \in I |-> Place(I, key, i)]
<1>1. c \in Nat
  BY FS_CardinalityType
<1>2. ASSUME NEW i \in I PROVE Place(I, key, i) \in 1 .. c
  <2>1. UpTo(I, key, i) \in SUBSET I /\ i \in UpTo(I, key, i)
    BY DEF UpTo
  <2>2. IsFiniteSet(UpTo(I, key, i)) /\ Place(I, key, i) =< c
    BY <2>1, FS_Subset DEF Place
  <2>3. Place(I, key, i) \in Nat /\ Place(I, key, i) # 0
    BY <2>1, <2>2, FS_CardinalityType, FS_EmptySet DEF Place
  <2> QED BY <1>1, <2>2, <2>3
<1>3. ASSUME NEW i \in I, NEW j \in I, i # j PROVE Place(I, key, i) # Place(I, key, j)
  <2>1. ComesFirst(key, i, j) \/ ComesFirst(key, j, i)
    BY <1>3 DEF ComesFirst
  <2>2. Place(I, key, i) < Place(I, key, j) \/ Place(I, key, j) < Place(I, key, i)
    BY <2>1, PlacesGrow
  <2> QED BY <1>1, <1>2, <2>2
<1>4. place \in Injection(I, 1 .. c)
  <2>1. place \in [I -> 1 .. c]
    BY <1>2
  <2>2. \A i, j \in I : place[i] = place[j] => i = j
    BY <1>3
  <2> QED BY <2>1, <2>2 DEF Injection, IsInjective
<1>5. IsFiniteSet(1 .. c) /\ Cardinality(1 .. c) = c
  BY <1>1, FS_Interval
<1>6. place \in Surjection(I, 1 .. c)
  BY <1>4, <1>5, FS_Injection
<1>7. \A m \in 1 .. c : \E i \in I : place[i] = m
  BY <1>6 DEF Surjection
<1> QED BY <1>1, <1>2, <1>3, <1>7

\* So the spots are the indices, each once, in the order of their keys, and
\* indices with equal keys keep theirs.
LEMMA SpotsPermute ==
    ASSUME NEW I \in SUBSET Nat, IsFiniteSet(I), NEW key, \A i \in I : key[i] \in Int,
           NEW spots, spots = Spots(I, key)
    PROVE  /\ Cardinality(I) \in Nat
           /\ spots \in [1 .. Cardinality(I) -> I]
           /\ \A i \in I : \E m \in 1 .. Cardinality(I) : spots[m] = i
           /\ \A m, o \in 1 .. Cardinality(I) : m < o => ComesFirst(key, spots[m], spots[o])
<1> DEFINE c == Cardinality(I)
<1>1. ASSUME NEW m \in 1 .. c PROVE spots[m] \in I /\ Place(I, key, spots[m]) = m
  <2>1. \E i \in I : Place(I, key, i) = m
    BY PlacesAreTaken
  <2> QED BY <2>1 DEF Spots
<1>2. spots \in [1 .. c -> I]
  BY <1>1 DEF Spots
<1>3. ASSUME NEW i \in I PROVE \E m \in 1 .. c : spots[m] = i
  <2>1. Place(I, key, i) \in 1 .. c
    BY PlacesAreTaken
  <2>2. Place(I, key, spots[Place(I, key, i)]) = Place(I, key, i) /\ spots[Place(I, key, i)] \in I
    BY <1>1, <2>1
  <2>3. \A j, k \in I : Place(I, key, j) = Place(I, key, k) => j = k
    BY PlacesAreTaken
  <2>4. spots[Place(I, key, i)] = i
    BY <2>2, <2>3
  <2> QED BY <2>1, <2>4
<1>4. ASSUME NEW m \in 1 .. c, NEW o \in 1 .. c, m < o
      PROVE  ComesFirst(key, spots[m], spots[o])
  <2>1. /\ spots[m] \in I /\ Place(I, key, spots[m]) = m
        /\ spots[o] \in I /\ Place(I, key, spots[o]) = o
    BY <1>1
  <2>2. ~ComesFirst(key, spots[o], spots[m])
    <3>1. ComesFirst(key, spots[o], spots[m]) => o < m
      BY <2>1, PlacesGrow
    <3> QED BY <1>4, <3>1, PlacesAreTaken
  <2>3. spots[m] # spots[o]
    BY <1>4, <2>1, PlacesAreTaken
  <2>4. spots[m] \in Nat /\ spots[o] \in Nat /\ key[spots[m]] \in Int /\ key[spots[o]] \in Int
    BY <2>1
  <2> QED BY <2>2, <2>3, <2>4 DEF ComesFirst
<1> QED BY <1>2, <1>3, <1>4, PlacesAreTaken

LEMMA ListIsSeq ==
    ASSUME NEW S, NEW n \in Nat, NEW s \in [1 .. n -> S]
    PROVE  s \in Seq(S) /\ Len(s) = n
<1>1. s \in Seq(S)
  BY SeqDef
<1>2. Len(s) \in Nat /\ 1 .. Len(s) = 1 .. n
  BY <1>1, LenProperties
<1> QED BY <1>1, <1>2

\* t has the elements of s at the indices I, which spots puts in order.
ArrangedAs(t, s, I, key, spots) ==
    /\ spots \in [1 .. Len(t) -> I]
    /\ \A m \in 1 .. Len(t) : t[m] = s[spots[m]]
    /\ \A i \in I : \E m \in 1 .. Len(t) : spots[m] = i
    /\ \A m, o \in 1 .. Len(t) : m < o => ComesFirst(key, spots[m], spots[o])

\* Arranging some of a sequence gives a sequence of these elements.
LEMMA ArrangedFacts ==
    ASSUME NEW S, NEW s \in Seq(S), NEW I \in SUBSET (DOMAIN s), NEW key, \A i \in I : key[i] \in Int,
           NEW t, t = Arranged(s, I, key)
    PROVE  /\ t \in Seq(S) /\ Len(t) = Cardinality(I)
           /\ \E spots : ArrangedAs(t, s, I, key, spots)
<1> DEFINE c == Cardinality(I)
           spots == Spots(I, key)
<1>1. Len(s) \in Nat /\ DOMAIN s = 1 .. Len(s) /\ \A i \in 1 .. Len(s) : s[i] \in S
  BY LenProperties
<1>2. I \in SUBSET Nat /\ IsFiniteSet(I)
  <2>1. IsFiniteSet(1 .. Len(s))
    BY <1>1, FS_Interval
  <2>2. I \in SUBSET (1 .. Len(s))
    BY <1>1
  <2> QED BY <2>1, <2>2, FS_Subset
<1>3. /\ c \in Nat
      /\ spots \in [1 .. c -> I]
      /\ \A i \in I : \E m \in 1 .. c : spots[m] = i
      /\ \A m, o \in 1 .. c : m < o => ComesFirst(key, spots[m], spots[o])
  BY <1>2, SpotsPermute
<1>4. t = [m \in 1 .. c |-> s[spots[m]]]
  BY ArrangedBySpots
<1> HIDE DEF c, spots
<1>5. t \in [1 .. c -> S]
  BY <1>1, <1>3, <1>4
<1>6. t \in Seq(S) /\ Len(t) = c
  BY <1>3, <1>5, ListIsSeq
<1>7. \A m \in 1 .. Len(t) : t[m] = s[spots[m]]
  BY <1>4, <1>6
<1>8. ArrangedAs(t, s, I, key, spots)
  BY <1>3, <1>6, <1>7 DEF ArrangedAs
<1> QED BY <1>6, <1>8 DEF c

-----------------------------------------------------------------------------
(* The least and the most of a set of numbers, and the scale between them. *)
LEMMA Extremes ==
    ASSUME NEW T \in SUBSET Int, IsFiniteSet(T), T # {}
    PROVE  /\ Least(T) \in T /\ \A x \in T : Least(T) =< x
           /\ Most(T) \in T /\ \A x \in T : x =< Most(T)
<1> DEFINE c == Cardinality(T)
           I == 1 .. c
<1>1. c \in Nat /\ c # 0 /\ ExistsBijection(1 .. c, T)
  BY FS_CardinalityType, FS_EmptySet
<1>2. PICK f \in Bijection(1 .. c, T) : TRUE
  BY <1>1 DEF ExistsBijection
<1>3. f \in [I -> T] /\ \A x \in T : \E i \in I : f[i] = x
  BY <1>2 DEF Bijection, Injection, Surjection
<1>4. I \in SUBSET Nat /\ IsFiniteSet(I) /\ Cardinality(I) = c /\ \A i \in I : f[i] \in Int
  <2>1. IsFiniteSet(I) /\ Cardinality(I) = c
    BY <1>1, FS_Interval
  <2>2. I \in SUBSET Nat
    BY <1>1
  <2>3. \A i \in I : f[i] \in Int
    BY <1>3
  <2> QED BY <2>1, <2>2, <2>3
<1> DEFINE spots == Spots(I, f)
<1>5. /\ spots \in [1 .. c -> I]
      /\ \A i \in I : \E m \in 1 .. c : spots[m] = i
      /\ \A m, o \in 1 .. c : m < o => ComesFirst(f, spots[m], spots[o])
  <2> HIDE DEF I
  <2> QED BY <1>4, SpotsPermute
<1> HIDE DEF spots, c
<1>6. ASSUME NEW m \in 1 .. c, NEW o \in 1 .. c, m < o
      PROVE  f[spots[m]] =< f[spots[o]]
  <2>1. ComesFirst(f, spots[m], spots[o])
    BY <1>5, <1>6
  <2>2. f[spots[m]] \in Int /\ f[spots[o]] \in Int
    BY <1>4, <1>5
  <2> QED BY <2>1, <2>2 DEF ComesFirst
<1>7. \A x \in T : \E m \in 1 .. c : x = f[spots[m]]
  BY <1>3, <1>5
<1>8. 1 \in 1 .. c /\ c \in 1 .. c /\ f[spots[1]] \in T /\ f[spots[c]] \in T
  BY <1>1, <1>3, <1>5
<1>9. ASSUME NEW x \in T PROVE f[spots[1]] =< x /\ x =< f[spots[c]]
  <2>1. PICK m \in 1 .. c : x = f[spots[m]]
    BY <1>7
  <2>2. (m = 1 \/ 1 < m) /\ (m = c \/ m < c)
    BY <1>1
  <2>3. f[spots[1]] \in Int /\ f[spots[c]] \in Int
    BY <1>8
  <2> QED BY <1>6, <1>8, <2>1, <2>2, <2>3
<1>10. \E x \in T : \A y \in T : x =< y
  BY <1>8, <1>9
<1>11. \E x \in T : \A y \in T : y =< x
  BY <1>8, <1>9
<1> QED BY <1>10, <1>11 DEF Least, Most

LEMMA ExtremesOfTwo ==
    ASSUME NEW a \in Int, NEW b \in Int
    PROVE  /\ Least({a, b}) = IF a =< b THEN a ELSE b
           /\ Most({a, b}) = IF a =< b THEN b ELSE a
<1> DEFINE T == {a, b}
<1>1. IsFiniteSet(T) /\ T # {} /\ T \in SUBSET Int
  <2>1. IsFiniteSet({a}) /\ {a} \cup {b} = T
    BY FS_Singleton
  <2> QED BY <2>1, FS_AddElement
<1>2. /\ Least(T) \in T /\ \A x \in T : Least(T) =< x
      /\ Most(T) \in T /\ \A x \in T : x =< Most(T)
  <2> HIDE DEF T
  <2> QED BY <1>1, Extremes
<1> QED BY <1>2

\* Division keeps the order of the numbers it divides.
LEMMA DivisionKeepsOrder ==
    ASSUME NEW a \in Int, NEW b \in Int, a =< b, NEW d \in Nat \ {0}
    PROVE  /\ a \div d \in Int /\ b \div d \in Int
           /\ a \div d =< b \div d
<1> DEFINE x == a \div d
           y == b \div d
<1>1. /\ x \in Int /\ y \in Int
      /\ a % d \in 0 .. (d - 1) /\ b % d \in 0 .. (d - 1)
      /\ a = d * x + (a % d) /\ b = d * y + (b % d)
  OBVIOUS
<1>2. d * x < d * (y + 1)
  <2>1. d * x =< a /\ b < d * y + d
    BY <1>1
  <2>2. d * (y + 1) = d * y + d
    BY <1>1
  <2> QED BY <1>1, <2>1, <2>2
<1> HIDE DEF x, y
<1>3. \A u, v \in Int : d * u < d * v => u < v
  OBVIOUS
<1>4. x < y + 1
  BY <1>1, <1>2, <1>3
<1> QED BY <1>1, <1>4 DEF x, y

\* A normalised score keeps the order of the scores, and lies in its range.
LEMMA NormalizeFacts ==
    ASSUME NEW least \in Int, NEW most \in Int, NEW x \in least .. most, NEW y \in least .. most, x =< y
    PROVE  /\ normalize_distance(x, least, most) \in 0 .. 6
           /\ normalize_distance(y, least, most) \in 0 .. 6
           /\ normalize_distance(x, least, most) =< normalize_distance(y, least, most)
<1>1. CASE most > least
  <2> DEFINE d == most - least
  <2>1. d \in Nat \ {0}
    BY <1>1
  <2>2. /\ normalize_distance(x, least, most) = ((x - least) * 6) \div d
        /\ normalize_distance(y, least, most) = ((y - least) * 6) \div d
    BY <1>1 DEF normalize_distance
  <2>3. /\ 0 =< (x - least) * 6 /\ (x - least) * 6 =< (y - least) * 6 /\ (y - least) * 6 =< d * 6
        /\ (x - least) * 6 \in Int /\ (y - least) * 6 \in Int /\ d * 6 \in Int
    OBVIOUS
  <2>4. 0 \div d = 0 /\ (d * 6) \div d = 6
    BY <2>1
  <2> HIDE DEF d
  <2>5. /\ 0 \div d =< ((x - least) * 6) \div d
        /\ ((x - least) * 6) \div d =< ((y - least) * 6) \div d
        /\ ((y - least) * 6) \div d =< (d * 6) \div d
        /\ ((x - least) * 6) \div d \in Int /\ ((y - least) * 6) \div d \in Int
    BY <2>1, <2>3, DivisionKeepsOrder
  <2> QED BY <2>2, <2>4, <2>5
<1>2. CASE ~(most > least)
  BY <1>2 DEF normalize_distance
<1> QED BY <1>1, <1>2

\* The image of a sequence is finite.
LEMMA ElementsAreFinite ==
    ASSUME NEW S, NEW s \in Seq(S), NEW f, NEW J \in SUBSET (DOMAIN s)
    PROVE  IsFiniteSet({f[i] : i \in J})
<1> DEFINE T == {f[i] : i \in J}
           g == [i \in J |-> f[i]]
<1>1. Len(s) \in Nat /\ DOMAIN s = 1 .. Len(s)
  BY LenProperties
<1>2. IsFiniteSet(1 .. Len(s))
  BY <1>1, FS_Interval
<1>3. IsFiniteSet(J)
  BY <1>1, <1>2, FS_Subset
<1>4. g \in Surjection(J, T)
  BY DEF Surjection
<1> QED BY <1>3, <1>4, FS_Surjection

-----------------------------------------------------------------------------
(* Lists of records: what each step of a search does to one.               *)

\* A record that the store may find, and a search that a caller may ask.
FoundRecord ==
    [id : Nat, dist : Nat, kind : {"memory", "expired", "entity", "unmatched"}, keyword : 0 .. Unfound,
     linked : BOOLEAN, overlap : Int, answer : Seq([decimal : BOOLEAN, tenths : Int])]
Askable(q) ==
    /\ q.found \in Seq(FoundRecord)
    /\ \A i, j \in 1 .. Len(q.found) : i # j => q.found[i].id # q.found[j].id
    /\ q.top_k \in Nat /\ q.threshold \in Int
    /\ q.rerank \in {"none", "local_overlap", "llm", "fastembed", "unconfigured"}

Distinct(s) == \A i, j \in 1 .. Len(s) : i # j => s[i] # s[j]
NearestFirst(s) == \A i, j \in 1 .. Len(s) : i < j => s[i].dist =< s[j].dist

\* The results of a search that has every record of E, once.
Complete(results, E) ==
    /\ results \in Seq([rec : E, score : Int])
    /\ \A r \in E : \E i \in 1 .. Len(results) : results[i].rec = r
    /\ \A i, j \in 1 .. Len(results) : i # j => results[i].rec # results[j].rec
Ascending(results) == \A i, j \in 1 .. Len(results) : i < j => results[i].score =< results[j].score
NonNegative(results) == \A i \in 1 .. Len(results) : results[i].score >= 0
NoneOvertaken(results) == \A i, j \in 1 .. Len(results) : Beats(results[i].rec, results[j].rec) => i < j

\* Retained elements keep their order.
LEMMA RetainedFacts ==
    ASSUME NEW S, NEW s \in Seq(S), NEW I \in SUBSET (DOMAIN s), NEW t, t = Retained(s, I)
    PROVE  /\ t \in Seq(S)
           /\ \E key, spots : /\ ArrangedAs(t, s, I, key, spots)
                             /\ \A m, o \in 1 .. Len(t) : m < o => spots[m] < spots[o]
<1> DEFINE key == [i \in I |-> i]
<1>1. \A i \in I : key[i] \in Int /\ key[i] = i
  BY LenProperties
<1>2. t = Arranged(s, I, key)
  BY DEF Retained
<1> HIDE DEF key
<1>3. t \in Seq(S)
  BY <1>1, <1>2, ArrangedFacts
<1>4. PICK spots : ArrangedAs(t, s, I, key, spots)
  BY <1>1, <1>2, ArrangedFacts
<1>5. ASSUME NEW m \in 1 .. Len(t), NEW o \in 1 .. Len(t), m < o PROVE spots[m] < spots[o]
  <2>1. ComesFirst(key, spots[m], spots[o]) /\ spots[m] \in I /\ spots[o] \in I
    BY <1>4, <1>5 DEF ArrangedAs
  <2> QED BY <1>1, <2>1 DEF ComesFirst
<1> QED BY <1>3, <1>4, <1>5

\* What is retained is as distinct and as near-first as it was, and has the
\* elements at the indices.
LEMMA RetainedKeeps ==
    ASSUME NEW S, NEW s \in Seq(S), NEW I \in SUBSET (DOMAIN s), NEW t, t = Retained(s, I)
    PROVE  /\ t \in Seq(S)
           /\ \A m \in 1 .. Len(t) : \E i \in I : t[m] = s[i]
           /\ \A i \in I : \E m \in 1 .. Len(t) : t[m] = s[i]
           /\ Distinct(s) => Distinct(t)
           /\ NearestFirst(s) => NearestFirst(t)
<1>1. DOMAIN s = 1 .. Len(s) /\ Len(s) \in Nat
  BY LenProperties
<1>2. t \in Seq(S)
  BY RetainedFacts
<1>2a. PICK key, spots : /\ ArrangedAs(t, s, I, key, spots)
                        /\ \A m, o \in 1 .. Len(t) : m < o => spots[m] < spots[o]
  BY RetainedFacts
<1>3. /\ spots \in [1 .. Len(t) -> I]
      /\ \A m \in 1 .. Len(t) : t[m] = s[spots[m]]
      /\ \A i \in I : \E m \in 1 .. Len(t) : spots[m] = i
      /\ \A m, o \in 1 .. Len(t) : m < o => spots[m] < spots[o]
  BY <1>2a DEF ArrangedAs
<1>4. Len(t) \in Nat
  BY <1>2, LenProperties
<1>5. \A m \in 1 .. Len(t) : spots[m] \in I /\ spots[m] \in 1 .. Len(s)
  BY <1>1, <1>3
<1>6. ASSUME NEW m \in 1 .. Len(t), NEW o \in 1 .. Len(t), m # o PROVE spots[m] # spots[o]
  <2>1. m < o \/ o < m
    BY <1>4, <1>6
  <2> QED BY <1>1, <1>3, <1>5, <2>1
<1>7. Distinct(s) => Distinct(t)
  BY <1>3, <1>5, <1>6 DEF Distinct
<1>8. NearestFirst(s) => NearestFirst(t)
  BY <1>3, <1>5 DEF NearestFirst
<1>9. \A i \in I : \E m \in 1 .. Len(t) : t[m] = s[i]
  BY <1>3
<1> QED BY <1>2, <1>3, <1>5, <1>7, <1>8, <1>9

LEMMA CutFacts ==
    ASSUME NEW S, NEW s \in Seq(S), NEW n \in Nat, NEW t, t = Cut(s, n)
    PROVE  /\ t \in Seq(S)
           /\ Len(t) = IF n =< Len(s) THEN n ELSE Len(s)
           /\ \A m \in 1 .. Len(t) : t[m] = s[m]
<1> DEFINE k == Least({n, Len(s)})
<1>1. Len(s) \in Nat /\ \A i \in 1 .. Len(s) : s[i] \in S
  BY LenProperties
<1>2. k = IF n =< Len(s) THEN n ELSE Len(s)
  BY <1>1, ExtremesOfTwo
<1>3. t = SubSeq(s, 1, k)
  BY DEF Cut
<1> HIDE DEF k
<1>4. k \in Nat /\ k =< Len(s)
  BY <1>1, <1>2
<1>5. \A i \in 1 .. k : s[i] \in S
  BY <1>1, <1>4
<1>6. /\ t \in Seq(S) /\ Len(t) = IF 1 =< k THEN k - 1 + 1 ELSE 0
      /\ \A i \in 1 .. k - 1 + 1 : t[i] = s[1 + i - 1]
  BY <1>3, <1>4, <1>5, SubSeqProperties
<1>7. Len(t) = k
  BY <1>4, <1>6
<1>8. ASSUME NEW m \in 1 .. Len(t) PROVE t[m] = s[m]
  <2>1. m \in 1 .. k - 1 + 1 /\ 1 + m - 1 = m
    BY <1>4, <1>7
  <2> QED BY <1>6, <2>1
<1> QED BY <1>2, <1>6, <1>7, <1>8

\* The store's search: records of the scope, each once, nearest first.
LEMMA StoreSearchFacts ==
    ASSUME NEW q, Askable(q), NEW s, s = StoreSearch(q)
    PROVE  /\ s \in Seq(FoundRecord) /\ Distinct(s) /\ NearestFirst(s)
           /\ \A m \in 1 .. Len(s) : \E i \in 1 .. Len(q.found) : s[m] = q.found[i]
<1> DEFINE I == {i \in DOMAIN q.found : q.found[i].dist =< q.threshold}
           near == Retained(q.found, I)
           key == [i \in DOMAIN near |-> near[i].dist]
           sorted == Arranged(near, DOMAIN near, key)
           limit == search_candidate_limit(q.top_k)
<1>1. q.found \in Seq(FoundRecord) /\ DOMAIN q.found = 1 .. Len(q.found) /\ q.top_k \in Nat
  BY LenProperties DEF Askable
<1>2. Distinct(q.found)
  BY DEF Askable, Distinct
<1>3. /\ near \in Seq(FoundRecord) /\ Distinct(near)
      /\ \A m \in 1 .. Len(near) : \E i \in 1 .. Len(q.found) : near[m] = q.found[i]
  <2>1. I \in SUBSET (DOMAIN q.found)
    OBVIOUS
  <2> HIDE DEF I
  <2> QED BY <1>1, <1>2, <2>1, RetainedKeeps
<1>4. s = Cut(sorted, limit)
  BY DEF StoreSearch, Sorted
<1> HIDE DEF near
<1>5. Len(near) \in Nat /\ DOMAIN near = 1 .. Len(near) /\ \A i \in DOMAIN near : near[i].dist \in Nat
  <2>1. Len(near) \in Nat /\ DOMAIN near = 1 .. Len(near) /\ \A i \in DOMAIN near : near[i] \in FoundRecord
    BY <1>3, LenProperties
  <2> QED BY <2>1 DEF FoundRecord
<1>6. \A i \in DOMAIN near : key[i] \in Int /\ key[i] = near[i].dist
  BY <1>5
<1> HIDE DEF key
<1>7. sorted \in Seq(FoundRecord)
  BY <1>3, <1>6, ArrangedFacts
<1>7a. PICK spots : ArrangedAs(sorted, near, DOMAIN near, key, spots)
  BY <1>3, <1>6, ArrangedFacts
<1>8. /\ spots \in [1 .. Len(sorted) -> DOMAIN near]
      /\ \A m \in 1 .. Len(sorted) : sorted[m] = near[spots[m]]
      /\ \A m, o \in 1 .. Len(sorted) : m < o => ComesFirst(key, spots[m], spots[o])
  BY <1>7a DEF ArrangedAs
<1> HIDE DEF sorted
<1>9. Len(sorted) \in Nat
  BY <1>7, LenProperties
<1>10. ASSUME NEW m \in 1 .. Len(sorted), NEW o \in 1 .. Len(sorted), m < o
       PROVE  sorted[m].dist =< sorted[o].dist /\ spots[m] # spots[o]
  <2>1. ComesFirst(key, spots[m], spots[o]) /\ spots[m] \in DOMAIN near /\ spots[o] \in DOMAIN near
    BY <1>8, <1>10
  <2>2. sorted[m].dist = key[spots[m]] /\ sorted[o].dist = key[spots[o]]
    BY <1>6, <1>8, <2>1
  <2> QED BY <1>5, <1>6, <2>1, <2>2 DEF ComesFirst
<1>11. Distinct(sorted)
  <2> SUFFICES ASSUME NEW m \in 1 .. Len(sorted), NEW o \in 1 .. Len(sorted), m # o
               PROVE  sorted[m] # sorted[o]
    BY DEF Distinct
  <2>1. m < o \/ o < m
    BY <1>9
  <2>2. spots[m] # spots[o]
    BY <1>10, <2>1
  <2>3. spots[m] \in 1 .. Len(near) /\ spots[o] \in 1 .. Len(near)
    BY <1>5, <1>8
  <2>4. near[spots[m]] # near[spots[o]]
    BY <1>3, <2>2, <2>3 DEF Distinct
  <2> QED BY <1>8, <2>4
<1>12. limit \in Nat
  <2>1. q.top_k * SEARCH_CANDIDATE_MULTIPLIER \in Nat
    BY <1>1, RankingAssumption
  <2>2. \A a, b \in Nat : Most({a, b}) \in Nat
    BY ExtremesOfTwo
  <2> QED BY <2>1, <2>2, RankingAssumption DEF search_candidate_limit
<1>13. /\ s \in Seq(FoundRecord)
       /\ Len(s) = IF limit =< Len(sorted) THEN limit ELSE Len(sorted)
       /\ \A m \in 1 .. Len(s) : s[m] = sorted[m]
  BY <1>4, <1>7, <1>12, CutFacts
<1>14. \A m \in 1 .. Len(s) : m \in 1 .. Len(sorted)
  BY <1>9, <1>12, <1>13
<1>15. Distinct(s)
  BY <1>11, <1>13, <1>14 DEF Distinct
<1>16. NearestFirst(s)
  BY <1>10, <1>13, <1>14 DEF NearestFirst
<1>17. \A m \in 1 .. Len(s) : \E i \in 1 .. Len(q.found) : s[m] = q.found[i]
  <2> SUFFICES ASSUME NEW m \in 1 .. Len(s) PROVE \E i \in 1 .. Len(q.found) : s[m] = q.found[i]
    OBVIOUS
  <2>1. spots[m] \in 1 .. Len(near) /\ s[m] = near[spots[m]]
    BY <1>5, <1>8, <1>13, <1>14
  <2> QED BY <1>3, <2>1
<1> QED BY <1>13, <1>15, <1>16, <1>17

-----------------------------------------------------------------------------
(* Results: what sorting them by their scores keeps and achieves.          *)
LEMMA CompleteFacts ==
    ASSUME NEW E, NEW results, Complete(results, E)
    PROVE  /\ Len(results) \in Nat /\ DOMAIN results = 1 .. Len(results)
           /\ \A i \in 1 .. Len(results) :
                 /\ results[i] \in [rec : E, score : Int]
                 /\ results[i].rec \in E /\ results[i].score \in Int
<1>1. results \in Seq([rec : E, score : Int])
  BY DEF Complete
<1>2. Len(results) \in Nat /\ DOMAIN results = 1 .. Len(results)
      /\ \A i \in 1 .. Len(results) : results[i] \in [rec : E, score : Int]
  BY <1>1, LenProperties
<1> QED BY <1>2

LEMMA ByScoreFacts ==
    ASSUME NEW E, NEW results, Complete(results, E), NEW sorted, sorted = ByScore(results)
    PROVE  /\ Complete(sorted, E) /\ Ascending(sorted)
           /\ Len(sorted) = Len(results)
           /\ NonNegative(results) => NonNegative(sorted)
           /\ (\A i, j \in 1 .. Len(results) :
                   Beats(results[i].rec, results[j].rec) => i < j /\ results[i].score =< results[j].score)
                => NoneOvertaken(sorted)
<1> DEFINE key == [i \in DOMAIN results |-> results[i].score]
           R == [rec : E, score : Int]
<1>1. /\ Len(results) \in Nat /\ DOMAIN results = 1 .. Len(results)
      /\ \A i \in 1 .. Len(results) : results[i] \in R /\ results[i].rec \in E /\ results[i].score \in Int
      /\ results \in Seq(R)
  BY CompleteFacts DEF Complete
<1>2. sorted = Arranged(results, DOMAIN results, key)
  BY DEF ByScore, Sorted
<1>3. \A i \in DOMAIN results : key[i] = results[i].score /\ key[i] \in Int
  BY <1>1
<1> HIDE DEF key, R
<1>4. sorted \in Seq(R) /\ Len(sorted) = Cardinality(DOMAIN results)
  <2> DEFINE I == DOMAIN results
  <2>1. /\ results \in Seq(R) /\ I \in SUBSET (DOMAIN results)
        /\ \A i \in I : key[i] \in Int
        /\ sorted = Arranged(results, I, key)
    BY <1>1, <1>2, <1>3
  <2> HIDE DEF I
  <2>2. sorted \in Seq(R) /\ Len(sorted) = Cardinality(I)
    BY <2>1, ArrangedFacts
  <2> QED BY <2>2 DEF I
<1>5. Cardinality(DOMAIN results) = Len(results)
  <2>1. \A n \in Nat : Cardinality(1 .. n) = n
    <3> TAKE n \in Nat
    <3>1. Cardinality(1 .. n) = IF 1 > n THEN 0 ELSE n - 1 + 1
      BY FS_Interval
    <3> QED BY <3>1
  <2> QED BY <1>1, <2>1
<1>6. \E spots : ArrangedAs(sorted, results, DOMAIN results, key, spots)
  <2> DEFINE I == DOMAIN results
  <2>1. /\ results \in Seq(R) /\ I \in SUBSET (DOMAIN results)
        /\ \A i \in I : key[i] \in Int
        /\ sorted = Arranged(results, I, key)
    BY <1>1, <1>2, <1>3
  <2> HIDE DEF I
  <2>2. \E spots : ArrangedAs(sorted, results, I, key, spots)
    BY <2>1, ArrangedFacts
  <2> QED BY <2>2 DEF I
<1>6a. PICK spots : ArrangedAs(sorted, results, DOMAIN results, key, spots)
  BY <1>6
<1>7. /\ Len(sorted) = Len(results)
      /\ \A m \in 1 .. Len(sorted) : spots[m] \in 1 .. Len(results) /\ sorted[m] = results[spots[m]]
      /\ \A i \in 1 .. Len(results) : \E m \in 1 .. Len(sorted) : spots[m] = i
      /\ \A m, o \in 1 .. Len(sorted) : m < o => ComesFirst(key, spots[m], spots[o])
  BY <1>1, <1>4, <1>5, <1>6a DEF ArrangedAs
<1>8. ASSUME NEW m \in 1 .. Len(sorted), NEW o \in 1 .. Len(sorted), m < o
      PROVE  /\ sorted[m].score =< sorted[o].score /\ spots[m] # spots[o]
             /\ sorted[m].score = sorted[o].score => spots[m] < spots[o]
  <2>1. ComesFirst(key, spots[m], spots[o])
    BY <1>7, <1>8
  <2>2. \A n \in 1 .. Len(sorted) : /\ spots[n] \in 1 .. Len(results)
                                      /\ key[spots[n]] = sorted[n].score /\ key[spots[n]] \in Int
    <3> TAKE n \in 1 .. Len(sorted)
    <3>1. spots[n] \in 1 .. Len(results) /\ spots[n] \in DOMAIN results /\ sorted[n] = results[spots[n]]
      BY <1>1, <1>7
    <3>2. key[spots[n]] = results[spots[n]].score /\ key[spots[n]] \in Int
      BY <1>3, <3>1
    <3> QED BY <3>1, <3>2
  <2> QED BY <1>1, <2>1, <2>2 DEF ComesFirst
<1>9. \A m, o \in 1 .. Len(sorted) : m # o => spots[m] # spots[o]
  <2> SUFFICES ASSUME NEW m \in 1 .. Len(sorted), NEW o \in 1 .. Len(sorted), m # o
               PROVE  spots[m] # spots[o]
    OBVIOUS
  <2>1. m < o \/ o < m
    BY <1>1, <1>7
  <2> QED BY <1>8, <2>1
<1>10. Complete(sorted, E)
  <2>1. \A r \in E : \E i \in 1 .. Len(sorted) : sorted[i].rec = r
    <3> SUFFICES ASSUME NEW r \in E PROVE \E i \in 1 .. Len(sorted) : sorted[i].rec = r
      OBVIOUS
    <3>1. PICK i \in 1 .. Len(results) : results[i].rec = r
      BY DEF Complete
    <3>2. PICK m \in 1 .. Len(sorted) : spots[m] = i
      BY <1>7
    <3> QED BY <1>7, <3>1, <3>2
  <2>2. ASSUME NEW m \in 1 .. Len(sorted), NEW o \in 1 .. Len(sorted), m # o
        PROVE  sorted[m].rec # sorted[o].rec
    <3>1. spots[m] \in 1 .. Len(results) /\ spots[o] \in 1 .. Len(results) /\ spots[m] # spots[o]
      BY <1>7, <1>9, <2>2
    <3>2. results[spots[m]].rec # results[spots[o]].rec
      BY <3>1 DEF Complete
    <3> QED BY <1>7, <3>2
  <2> QED BY <1>4, <2>1, <2>2 DEF Complete, R
<1>11. Ascending(sorted)
  BY <1>8 DEF Ascending
<1>12. NonNegative(results) => NonNegative(sorted)
  BY <1>7 DEF NonNegative
<1>13. ASSUME \A i, j \in 1 .. Len(results) :
                  Beats(results[i].rec, results[j].rec) => i < j /\ results[i].score =< results[j].score,
              NEW m \in 1 .. Len(sorted), NEW o \in 1 .. Len(sorted), Beats(sorted[m].rec, sorted[o].rec)
       PROVE  m < o
  <2>1. /\ spots[m] \in 1 .. Len(results) /\ spots[o] \in 1 .. Len(results)
        /\ spots[m] < spots[o] /\ sorted[m].score =< sorted[o].score
    BY <1>7, <1>13, ZenonT(30)
  <2>2. sorted[m].score \in Int /\ sorted[o].score \in Int
    BY <1>1, <1>7
  <2>3. ~(o < m)
    <3> SUFFICES ASSUME o < m PROVE FALSE
      OBVIOUS
    <3>1. sorted[o].score =< sorted[m].score /\ (sorted[o].score = sorted[m].score => spots[o] < spots[m])
      BY <1>8
    <3> QED BY <1>1, <2>1, <2>2, <3>1
  <2>4. m # o
    BY <1>1, <2>1
  <2> QED BY <1>1, <1>7, <2>3, <2>4
<1> QED BY <1>4, <1>5, <1>10, <1>11, <1>12, <1>13 DEF NoneOvertaken

\* New scores for the same records.
LEMMA RescoredIsComplete ==
    ASSUME NEW E, NEW results, Complete(results, E),
           NEW rescored, DOMAIN rescored = DOMAIN results,
           rescored = [i \in DOMAIN results |-> rescored[i]],
           \A i \in 1 .. Len(results) :
               rescored[i] \in [rec : E, score : Int] /\ rescored[i].rec = results[i].rec
    PROVE  Complete(rescored, E) /\ Len(rescored) = Len(results)
<1>1. Len(results) \in Nat /\ DOMAIN results = 1 .. Len(results)
  BY CompleteFacts
<1>2. rescored \in [1 .. Len(results) -> [rec : E, score : Int]]
  BY <1>1
<1>3. rescored \in Seq([rec : E, score : Int]) /\ Len(rescored) = Len(results)
  BY <1>1, <1>2, ListIsSeq
<1> QED BY <1>3 DEF Complete

\* A list that has every record of a set once is as long as the set.
LEMMA CompleteIsAsLong ==
    ASSUME NEW E, NEW results, Complete(results, E)
    PROVE  /\ IsFiniteSet(E) /\ Cardinality(E) = Len(results)
           /\ {results[i].rec : i \in DOMAIN results} = E
<1> DEFINE n == Len(results)
           recs == [i \in 1 .. n |-> results[i].rec]
<1>1. n \in Nat /\ DOMAIN results = 1 .. n /\ \A i \in 1 .. n : results[i].rec \in E
  BY CompleteFacts
<1>2. recs \in [1 .. n -> E]
  BY <1>1
<1>3. \A i, j \in 1 .. n : recs[i] = recs[j] => i = j
  BY DEF Complete
<1>4. \A r \in E : \E i \in 1 .. n : recs[i] = r
  BY DEF Complete
<1>5. recs \in Bijection(1 .. n, E)
  BY <1>2, <1>3, <1>4 DEF Bijection, Injection, Surjection, IsInjective
<1>6. IsFiniteSet(1 .. n) /\ Cardinality(1 .. n) = n
  <2>1. /\ IsFiniteSet(1 .. n)
        /\ Cardinality(1 .. n) = IF 1 > n THEN 0 ELSE n - 1 + 1
    BY <1>1, FS_Interval
  <2> QED BY <1>1, <2>1
<1>7. IsFiniteSet(E) /\ Cardinality(E) = n
  <2>1. ExistsBijection(1 .. n, E)
    BY <1>5 DEF ExistsBijection
  <2> HIDE DEF n
  <2> QED BY <1>6, <2>1, FS_Bijection
<1>8. {results[i].rec : i \in 1 .. n} = E
  BY <1>1, <1>4
<1> QED BY <1>1, <1>7, <1>8

\* The candidates: every record of the window that passes the filters, nearest
\* first.
LEMMA CandidatesFacts ==
    ASSUME NEW q, Askable(q), NEW E, E = Elements(Matching(StoreSearch(q))),
           NEW results, results = Candidates(q)
    PROVE  /\ E \in SUBSET FoundRecord /\ E \in SUBSET Elements(q.found)
           /\ Complete(results, E) /\ Ascending(results) /\ NonNegative(results) /\ NoneOvertaken(results)
<1> DEFINE s == StoreSearch(q)
           I == {i \in DOMAIN s : s[i].kind = "memory"}
           t == Retained(s, I)
<1>1. /\ s \in Seq(FoundRecord) /\ Distinct(s) /\ NearestFirst(s)
      /\ \A m \in 1 .. Len(s) : \E i \in 1 .. Len(q.found) : s[m] = q.found[i]
  BY StoreSearchFacts
<1>2. Len(s) \in Nat /\ DOMAIN s = 1 .. Len(s)
  BY <1>1, LenProperties
<1>3. I \in SUBSET (DOMAIN s)
  OBVIOUS
<1>4. t = Matching(StoreSearch(q))
  BY DEF Matching
<1> HIDE DEF s, I
<1>5. /\ t \in Seq(FoundRecord) /\ Distinct(t) /\ NearestFirst(t)
      /\ \A m \in 1 .. Len(t) : \E i \in I : t[m] = s[i]
  BY <1>1, <1>3, RetainedKeeps
<1>6. results = [i \in DOMAIN t |-> [rec |-> t[i], score |-> 240 * t[i].dist]]
  BY <1>4 DEF Candidates
<1> HIDE DEF t
<1>7. Len(t) \in Nat /\ DOMAIN t = 1 .. Len(t) /\ \A i \in 1 .. Len(t) : t[i] \in FoundRecord
  BY <1>5, LenProperties
<1>8. E = {t[i] : i \in 1 .. Len(t)}
  BY <1>4, <1>7 DEF Elements
<1>9. \A i \in 1 .. Len(t) : t[i].dist \in Nat
  BY <1>7 DEF FoundRecord
<1>10. E \in SUBSET FoundRecord
  BY <1>7, <1>8
<1>11. E \in SUBSET Elements(q.found)
  <2> SUFFICES ASSUME NEW r \in E PROVE r \in Elements(q.found)
    OBVIOUS
  <2>1. PICK m \in 1 .. Len(t) : r = t[m]
    BY <1>8
  <2>2. PICK i \in I : t[m] = s[i]
    BY <1>5
  <2>3. PICK k \in 1 .. Len(q.found) : s[i] = q.found[k]
    BY <1>1, <1>2, <1>3
  <2>4. DOMAIN q.found = 1 .. Len(q.found)
    BY LenProperties DEF Askable
  <2> QED BY <2>1, <2>2, <2>3, <2>4 DEF Elements
<1>12. \A i \in 1 .. Len(t) : /\ results[i] \in [rec : E, score : Int]
                             /\ results[i].rec = t[i] /\ results[i].score = 240 * t[i].dist
  <2> TAKE i \in 1 .. Len(t)
  <2>1. results[i] = [rec |-> t[i], score |-> 240 * t[i].dist]
    BY <1>6, <1>7
  <2>2. t[i] \in E /\ 240 * t[i].dist \in Int
    BY <1>8, <1>9
  <2> QED BY <2>1, <2>2
<1>13. results \in Seq([rec : E, score : Int]) /\ Len(results) = Len(t)
  <2>1. results \in [1 .. Len(t) -> [rec : E, score : Int]]
    BY <1>6, <1>7, <1>12
  <2> QED BY <1>7, <2>1, ListIsSeq
<1>14. Complete(results, E)
  <2>1. \A r \in E : \E i \in 1 .. Len(results) : results[i].rec = r
    BY <1>8, <1>12, <1>13, SMTT(30)
  <2>2. \A i, j \in 1 .. Len(results) : i # j => results[i].rec # results[j].rec
    BY <1>5, <1>12, <1>13 DEF Distinct
  <2> QED BY <1>13, <2>1, <2>2 DEF Complete
<1>15. Ascending(results)
  <2> SUFFICES ASSUME NEW i \in 1 .. Len(t), NEW j \in 1 .. Len(t), i < j
               PROVE  results[i].score =< results[j].score
    BY <1>13 DEF Ascending
  <2>1. t[i].dist =< t[j].dist /\ t[i].dist \in Nat /\ t[j].dist \in Nat
    BY <1>5, <1>9 DEF NearestFirst
  <2> QED BY <1>12, <2>1
<1>16. NonNegative(results)
  <2> SUFFICES ASSUME NEW i \in 1 .. Len(t) PROVE results[i].score >= 0
    BY <1>13 DEF NonNegative
  <2> QED BY <1>9, <1>12
<1>17. NoneOvertaken(results)
  <2> SUFFICES ASSUME NEW i \in 1 .. Len(t), NEW j \in 1 .. Len(t), Beats(results[i].rec, results[j].rec)
               PROVE  i < j
    BY <1>13 DEF NoneOvertaken
  <2>1. t[i].dist < t[j].dist /\ t[i].dist \in Nat /\ t[j].dist \in Nat
    BY <1>9, <1>12 DEF Beats
  <2>2. j < i => t[j].dist =< t[i].dist
    BY <1>5 DEF NearestFirst
  <2> QED BY <1>7, <2>1, <2>2
<1> QED BY <1>10, <1>11, <1>14, <1>15, <1>16, <1>17

\* A record not behind another in the keyword search has no larger part of the
\* combined score for it.
LEMMA KeywordPartFacts ==
    ASSUME NEW q, Askable(q), NEW a \in Elements(q.found), NEW b \in Elements(q.found),
           a.keyword =< b.keyword, NEW scores, scores = KeywordScores(q), scores # {}
    PROVE  /\ KeywordPart(a, scores) \in 0 .. 6 /\ KeywordPart(b, scores) \in 0 .. 6
           /\ KeywordPart(a, scores) =< KeywordPart(b, scores)
<1>1. /\ q.found \in Seq(FoundRecord) /\ Len(q.found) \in Nat /\ DOMAIN q.found = 1 .. Len(q.found)
      /\ \A i \in DOMAIN q.found : q.found[i] \in FoundRecord
  BY LenProperties DEF Askable
<1>2. \A r \in Elements(q.found) : r.keyword \in 0 .. Unfound
  BY <1>1 DEF Elements, FoundRecord
<1>3. scores \in SUBSET Int
  BY <1>2 DEF KeywordScores
<1>4. IsFiniteSet(scores)
  <2> DEFINE f == [i \in DOMAIN q.found |-> q.found[i].keyword]
             J == DOMAIN q.found
  <2>1. J \in SUBSET (DOMAIN q.found)
    OBVIOUS
  <2>2. scores \in SUBSET {f[i] : i \in J}
    BY DEF KeywordScores, Elements
  <2> HIDE DEF f, J
  <2>3. IsFiniteSet({f[i] : i \in J})
    BY <1>1, <2>1, ElementsAreFinite
  <2> QED BY <2>2, <2>3, FS_Subset
<1>5. /\ Least(scores) \in Int /\ Most(scores) \in Int
      /\ \A r \in Elements(q.found) : r.keyword # Unfound => r.keyword \in Least(scores) .. Most(scores)
  <2>1. /\ Least(scores) \in scores /\ \A x \in scores : Least(scores) =< x
        /\ Most(scores) \in scores /\ \A x \in scores : x =< Most(scores)
    BY <1>3, <1>4, Extremes
  <2>2. \A r \in Elements(q.found) : r.keyword # Unfound => r.keyword \in scores /\ r.keyword \in Int
    BY <1>2 DEF KeywordScores
  <2> QED BY <1>3, <2>1, <2>2
<1>6. a.keyword \in 0 .. Unfound /\ b.keyword \in 0 .. Unfound
  BY <1>2
<1>7. CASE b.keyword # Unfound
  <2>1. a.keyword # Unfound
    BY <1>6, <1>7 DEF Unfound
  <2>2. a.keyword \in Least(scores) .. Most(scores) /\ b.keyword \in Least(scores) .. Most(scores)
    BY <1>5, <1>7, <2>1
  <2>3. /\ normalize_distance(a.keyword, Least(scores), Most(scores)) \in 0 .. 6
        /\ normalize_distance(b.keyword, Least(scores), Most(scores)) \in 0 .. 6
        /\ normalize_distance(a.keyword, Least(scores), Most(scores))
             =< normalize_distance(b.keyword, Least(scores), Most(scores))
    BY <1>5, <2>2, NormalizeFacts
  <2> QED BY <1>7, <2>1, <2>3 DEF KeywordPart
<1>8. CASE b.keyword = Unfound
  <2>1. CASE a.keyword = Unfound
    BY <1>8, <2>1 DEF KeywordPart
  <2>2. CASE a.keyword # Unfound
    <3>1. a.keyword \in Least(scores) .. Most(scores)
      BY <1>5, <2>2
    <3>2. normalize_distance(a.keyword, Least(scores), Most(scores)) \in 0 .. 6
      BY <1>5, <3>1, NormalizeFacts
    <3> QED BY <1>8, <2>2, <3>2 DEF KeywordPart
  <2> QED BY <2>1, <2>2
<1> QED BY <1>7, <1>8

\* The keyword pass keeps every record, and puts none behind one it beats.
LEMMA KeywordPassFacts ==
    ASSUME NEW q, Askable(q), NEW E \in SUBSET FoundRecord, E \in SUBSET Elements(q.found),
           NEW results, Complete(results, E), Ascending(results), NonNegative(results), NoneOvertaken(results),
           NEW passed, passed = KeywordPass(q, results)
    PROVE  Complete(passed, E) /\ Ascending(passed) /\ NonNegative(passed) /\ NoneOvertaken(passed)
<1> DEFINE scores == KeywordScores(q)
<1>1. CASE results = <<>> \/ scores = {}
  BY <1>1 DEF KeywordPass
<1>2. CASE ~(results = <<>> \/ scores = {})
  <2> DEFINE dists == {r.rec.dist : r \in Elements(results)}
             near(r) == normalize_distance(r.dist, Least(dists), Most(dists))
             combined(r) == 20 * (near(r) + KeywordPart(r, scores))
             rescored == [i \in DOMAIN results |-> [rec |-> results[i].rec, score |-> combined(results[i].rec)]]
  <2>1. passed = ByScore(rescored)
    BY <1>2 DEF KeywordPass, combine_with_keyword_scores
  <2>2. /\ Len(results) \in Nat /\ DOMAIN results = 1 .. Len(results)
        /\ \A i \in 1 .. Len(results) : results[i].rec \in E
        /\ results \in Seq([rec : E, score : Int])
    BY CompleteFacts DEF Complete
  <2>2a. \A i \in 1 .. Len(results) : /\ results[i].rec.dist \in Nat /\ results[i].rec.keyword \in 0 .. Unfound
                                      /\ results[i].rec \in Elements(q.found)
    <3> TAKE i \in 1 .. Len(results)
    <3> DEFINE r == results[i].rec
    <3>1. r \in FoundRecord /\ r \in Elements(q.found)
      BY <2>2
    <3> HIDE DEF r
    <3>2. r.dist \in Nat /\ r.keyword \in 0 .. Unfound
      BY <3>1 DEF FoundRecord
    <3> QED BY <3>1, <3>2 DEF r
  <2>3. /\ dists \in SUBSET Int /\ IsFiniteSet(dists)
        /\ \A i \in 1 .. Len(results) : results[i].rec.dist \in dists
    <3> DEFINE f == [i \in DOMAIN results |-> results[i].rec.dist]
               J == DOMAIN results
    <3>1. J \in SUBSET (DOMAIN results)
      OBVIOUS
    <3>2. dists = {f[i] : i \in J}
      BY DEF Elements
    <3>3. \A i \in J : f[i] \in Nat /\ f[i] = results[i].rec.dist
      BY <2>2, <2>2a
    <3> HIDE DEF f, J
    <3>4. IsFiniteSet({f[i] : i \in J})
      BY <2>2, <3>1, ElementsAreFinite
    <3>5. dists \in SUBSET Int
      <4>1. \A i \in J : f[i] \in Int
        BY <3>3
      <4> HIDE DEF dists
      <4> QED BY <3>2, <4>1
    <3>6. \A i \in J : results[i].rec.dist \in dists
      BY <3>2, <3>3
    <3> HIDE DEF dists
    <3>7. IsFiniteSet(dists)
      BY <3>2, <3>4
    <3> QED BY <2>2, <3>5, <3>6, <3>7 DEF J
  <2>4. /\ Least(dists) \in Int /\ Most(dists) \in Int
        /\ \A i \in 1 .. Len(results) : results[i].rec.dist \in Least(dists) .. Most(dists)
    <3> HIDE DEF dists
    <3>2. dists # {}
      <4>1. Len(results) # 0
        BY <1>2, <2>2, EmptySeq
      <4>2. 1 \in 1 .. Len(results)
        BY <2>2, <4>1
      <4> QED BY <2>3, <4>2
    <3>3. /\ Least(dists) \in dists /\ \A x \in dists : Least(dists) =< x
          /\ Most(dists) \in dists /\ \A x \in dists : x =< Most(dists)
      BY <2>3, <3>2, Extremes
    <3>4. Least(dists) \in Int /\ Most(dists) \in Int
      BY <2>3, <3>3
    <3>5. \A i \in 1 .. Len(results) : /\ results[i].rec.dist \in Int
                                       /\ Least(dists) =< results[i].rec.dist
                                       /\ results[i].rec.dist =< Most(dists)
      BY <2>3, <3>3
    <3> QED BY <3>4, <3>5
  <2> HIDE DEF dists, scores
  <2>5. \A i \in 1 .. Len(results) : near(results[i].rec) \in 0 .. 6
    BY <2>4, NormalizeFacts
  <2>6. \A i \in 1 .. Len(results) : KeywordPart(results[i].rec, scores) \in 0 .. 6
    <3> TAKE i \in 1 .. Len(results)
    <3>1. results[i].rec \in Elements(q.found) /\ results[i].rec.keyword =< results[i].rec.keyword
      BY <2>2a
    <3> QED BY <1>2, <3>1, KeywordPartFacts DEF scores
  <2>7. \A i \in 1 .. Len(results) : combined(results[i].rec) \in Nat
    BY <2>5, <2>6, SMTT(30)
  <2>8. ASSUME NEW i \in 1 .. Len(results), NEW j \in 1 .. Len(results),
               Beats(results[i].rec, results[j].rec)
        PROVE  i < j /\ combined(results[i].rec) =< combined(results[j].rec)
    <3>1. i < j
      BY <2>8 DEF NoneOvertaken
    <3>2. results[i].rec.dist < results[j].rec.dist /\ results[i].rec.keyword =< results[j].rec.keyword
      BY <2>8 DEF Beats
    <3>3. near(results[i].rec) =< near(results[j].rec)
      <4>1. results[i].rec.dist =< results[j].rec.dist
        BY <2>4, <3>2
      <4> QED BY <2>4, <4>1, NormalizeFacts
    <3>4. KeywordPart(results[i].rec, scores) =< KeywordPart(results[j].rec, scores)
      <4>1. results[i].rec \in Elements(q.found) /\ results[j].rec \in Elements(q.found)
        BY <2>2
      <4> QED BY <1>2, <3>2, <4>1, KeywordPartFacts DEF scores
    <3>5. \A w, x, y, z \in 0 .. 6 : w =< x /\ y =< z => 20 * (w + y) =< 20 * (x + z)
      OBVIOUS
    <3>6. combined(results[i].rec) =< combined(results[j].rec)
      BY <2>5, <2>6, <3>3, <3>4, <3>5
    <3> QED BY <3>1, <3>6
  <2> HIDE DEF combined
  <2>9. /\ DOMAIN rescored = DOMAIN results
        /\ rescored = [i \in DOMAIN results |-> rescored[i]]
        /\ \A i \in 1 .. Len(results) :
              /\ rescored[i] \in [rec : E, score : Int]
              /\ rescored[i].rec = results[i].rec /\ rescored[i].score = combined(results[i].rec)
    <3>1. \A i \in 1 .. Len(results) : rescored[i] = [rec |-> results[i].rec, score |-> combined(results[i].rec)]
      BY <2>2
    <3> QED BY <2>2, <2>7, <3>1
  <2>9a. \A i \in 1 .. Len(results) : rescored[i].score \in Nat
    BY <2>7, <2>9
  <2>9b. \A i, j \in 1 .. Len(results) :
            Beats(results[i].rec, results[j].rec) => i < j /\ rescored[i].score =< rescored[j].score
    <3> SUFFICES ASSUME NEW i \in 1 .. Len(results), NEW j \in 1 .. Len(results),
                        Beats(results[i].rec, results[j].rec)
                 PROVE  i < j /\ rescored[i].score =< rescored[j].score
      OBVIOUS
    <3>1. i < j /\ combined(results[i].rec) =< combined(results[j].rec)
      BY <2>8
    <3> QED BY <2>9, <3>1
  <2>9c. /\ DOMAIN rescored = DOMAIN results
        /\ rescored = [i \in DOMAIN results |-> rescored[i]]
        /\ \A i \in 1 .. Len(results) :
              rescored[i] \in [rec : E, score : Int] /\ rescored[i].rec = results[i].rec
    BY <2>9
  <2> HIDE DEF rescored
  <2>10. Complete(rescored, E) /\ Len(rescored) = Len(results)
    BY <2>9c, RescoredIsComplete
  <2>11. NonNegative(rescored)
    BY <2>9a, <2>10 DEF NonNegative
  <2>12. \A i, j \in 1 .. Len(rescored) :
            Beats(rescored[i].rec, rescored[j].rec) => i < j /\ rescored[i].score =< rescored[j].score
    BY <2>9b, <2>9c, <2>10
  <2> QED BY <2>1, <2>10, <2>11, <2>12, ByScoreFacts
<1> QED BY <1>1, <1>2

\* The boost cuts a distance by a share of it, so it keeps their order among
\* the linked records and among the others.
LEMMA BoostFacts ==
    ASSUME NEW s \in Nat, NEW t \in Nat, s =< t
    PROVE  /\ (s * 17) \div 20 \in Nat
           /\ (s * 17) \div 20 =< s
           /\ (s * 17) \div 20 =< (t * 17) \div 20
<1>1. s * 17 \in Int /\ t * 17 \in Int /\ s * 17 =< t * 17 /\ s * 17 =< s * 20 /\ 0 =< s * 17 /\ s * 20 \in Int
  OBVIOUS
<1>2. 0 \div 20 = 0 /\ (s * 20) \div 20 = s
  OBVIOUS
<1>3. /\ (s * 17) \div 20 \in Int
      /\ 0 \div 20 =< (s * 17) \div 20
      /\ (s * 17) \div 20 =< (s * 20) \div 20
      /\ (s * 17) \div 20 =< (t * 17) \div 20
  BY <1>1, DivisionKeepsOrder
<1> QED BY <1>2, <1>3

LEMMA EntityBoostFacts ==
    ASSUME NEW E \in SUBSET FoundRecord,
           NEW results, Complete(results, E), Ascending(results), NonNegative(results), NoneOvertaken(results),
           NEW boosted, boosted = apply_entity_boost(results)
    PROVE  Complete(boosted, E) /\ Ascending(boosted) /\ NonNegative(boosted) /\ NoneOvertaken(boosted)
<1> DEFINE boost(r) == IF r.rec.linked THEN [r EXCEPT !.score = (@ * 17) \div 20] ELSE r
           rescored == [i \in DOMAIN results |-> boost(results[i])]
<1>1. boosted = ByScore(rescored)
  BY DEF apply_entity_boost
<1>2. /\ Len(results) \in Nat /\ DOMAIN results = 1 .. Len(results)
      /\ \A i \in 1 .. Len(results) : /\ results[i] \in [rec : E, score : Int]
                                     /\ results[i].score \in Nat /\ results[i].rec.linked \in BOOLEAN
  <2>1. /\ Len(results) \in Nat /\ DOMAIN results = 1 .. Len(results)
        /\ \A i \in 1 .. Len(results) :
              results[i] \in [rec : E, score : Int] /\ results[i].rec \in FoundRecord /\ results[i].score \in Int
    BY CompleteFacts
  <2>2. \A i \in 1 .. Len(results) : results[i].score \in Nat
    BY <2>1 DEF NonNegative
  <2>3. \A i \in 1 .. Len(results) : results[i].rec.linked \in BOOLEAN
    BY <2>1 DEF FoundRecord
  <2> QED BY <2>1, <2>2, <2>3
<1>3. ASSUME NEW r \in [rec : E, score : Int], r.score \in Nat
      PROVE  /\ boost(r) \in [rec : E, score : Int] /\ boost(r).rec = r.rec
             /\ boost(r).score \in Nat
             /\ r.rec.linked => boost(r).score = (r.score * 17) \div 20
             /\ ~r.rec.linked => boost(r).score = r.score
  <2>1. (r.score * 17) \div 20 \in Nat
    BY <1>3, BoostFacts
  <2>2. CASE r.rec.linked
    <3>1. boost(r) = [rec |-> r.rec, score |-> (r.score * 17) \div 20]
      BY <2>2
    <3> HIDE DEF boost
    <3> QED BY <2>1, <2>2, <3>1
  <2>3. CASE ~r.rec.linked
    BY <1>3, <2>3
  <2> QED BY <2>2, <2>3
<1> HIDE DEF boost
<1>4. /\ DOMAIN rescored = DOMAIN results
      /\ rescored = [i \in DOMAIN results |-> rescored[i]]
      /\ \A i \in 1 .. Len(results) :
            /\ rescored[i] = boost(results[i])
            /\ rescored[i] \in [rec : E, score : Int] /\ rescored[i].rec = results[i].rec
            /\ rescored[i].score \in Nat
  BY <1>2, <1>3
<1> HIDE DEF rescored
<1>5. Complete(rescored, E) /\ Len(rescored) = Len(results)
  BY <1>4, RescoredIsComplete
<1>6. NonNegative(rescored)
  <2>1. \A i \in 1 .. Len(rescored) : rescored[i].score \in Nat
    BY <1>4, <1>5
  <2> QED BY <2>1 DEF NonNegative
<1>7. ASSUME NEW i \in 1 .. Len(rescored), NEW j \in 1 .. Len(rescored),
             Beats(rescored[i].rec, rescored[j].rec)
      PROVE  i < j /\ rescored[i].score =< rescored[j].score
  <2>1. i < j
    BY <1>4, <1>5, <1>7 DEF NoneOvertaken
  <2>2. results[i].score =< results[j].score /\ results[i].score \in Nat /\ results[j].score \in Nat
    BY <1>2, <1>5, <2>1 DEF Ascending
  <2>3. results[j].rec.linked => results[i].rec.linked
    BY <1>4, <1>5, <1>7 DEF Beats
  <2>4. /\ (results[i].score * 17) \div 20 =< results[i].score
        /\ (results[i].score * 17) \div 20 =< (results[j].score * 17) \div 20
        /\ (results[i].score * 17) \div 20 \in Nat
    BY <2>2, BoostFacts
  <2>5. CASE results[j].rec.linked
    <3>1. /\ rescored[j].score = (results[j].score * 17) \div 20
          /\ rescored[i].score = (results[i].score * 17) \div 20
      BY <1>2, <1>3, <1>4, <1>5, <2>3, <2>5
    <3> QED BY <2>1, <2>4, <3>1
  <2>6. CASE ~results[j].rec.linked
    <3>1. rescored[j].score = results[j].score
      BY <1>2, <1>3, <1>4, <1>5, <2>6
    <3>2. rescored[i].score = results[i].score \/ rescored[i].score = (results[i].score * 17) \div 20
      BY <1>2, <1>3, <1>4, <1>5
    <3> QED BY <2>1, <2>2, <2>4, <3>1, <3>2
  <2> QED BY <2>5, <2>6
<1> QED BY <1>1, <1>5, <1>6, <1>7, ByScoreFacts

-----------------------------------------------------------------------------
(* The rerankers: the same records, in ascending order of the new scores.  *)

LEMMA ScoreOfAnAnswer ==
    ASSUME NEW answer \in Seq([decimal : BOOLEAN, tenths : Int])
    PROVE  extract_score(answer) \in Int
<1> DEFINE decimals == {i \in DOMAIN answer : answer[i].decimal}
           chosen == IF decimals # {} THEN Least(decimals) ELSE 1
           value == answer[chosen].tenths
<1>1. /\ Len(answer) \in Nat /\ DOMAIN answer = 1 .. Len(answer)
      /\ \A i \in 1 .. Len(answer) : answer[i] \in [decimal : BOOLEAN, tenths : Int]
  BY LenProperties
<1>2. CASE answer = NoAnswer
  BY <1>2 DEF extract_score
<1>3. CASE answer # NoAnswer
  <2>1. Len(answer) # 0
    BY <1>3, EmptySeq DEF NoAnswer
  <2>2. decimals \in SUBSET (1 .. Len(answer))
    BY <1>1
  <2> HIDE DEF decimals
  <2>3. decimals # {} => Least(decimals) \in decimals
    <3>1. IsFiniteSet(decimals) /\ decimals \in SUBSET Int
      <4> DEFINE n == Len(answer)
      <4>1. n \in Nat
        BY <1>1
      <4>2. decimals \in SUBSET (1 .. n)
        BY <2>2
      <4> HIDE DEF n
      <4>3. IsFiniteSet(1 .. n)
        BY <4>1, FS_Interval
      <4>4. 1 .. n \in SUBSET Int
        BY <4>1
      <4> QED BY <4>2, <4>3, <4>4, FS_Subset
    <3> QED BY <3>1, Extremes
  <2>4. chosen \in 1 .. Len(answer)
    <3>1. 1 \in 1 .. Len(answer)
      BY <1>1, <2>1
    <3> QED BY <2>2, <2>3, <3>1
  <2> HIDE DEF chosen
  <2>5. value \in Int
    BY <1>1, <2>4
  <2>6. extract_score(answer) = Most({0, Least({10, value})})
    BY <1>3 DEF extract_score, decimals, chosen
  <2> HIDE DEF value
  <2>7. Least({10, value}) \in Int
    BY <2>5, ExtremesOfTwo
  <2>8. \A x \in Int : Most({0, x}) \in Int
    <3> TAKE x \in Int
    <3>1. 0 \in Int
      OBVIOUS
    <3>2. Most({0, x}) = IF 0 =< x THEN x ELSE 0
      BY <3>1, ExtremesOfTwo
    <3> QED BY <3>2
  <2> QED BY <2>6, <2>7, <2>8
<1> QED BY <1>2, <1>3

LEMMA RescoredAndSorted ==
    ASSUME NEW E, NEW results, Complete(results, E),
           NEW score, \A i \in 1 .. Len(results) : score[i] \in Int,
           NEW sorted, sorted = ByScore([i \in DOMAIN results |-> [results[i] EXCEPT !.score = score[i]]])
    PROVE  Complete(sorted, E) /\ Ascending(sorted) /\ Len(sorted) = Len(results)
<1> DEFINE rescored == [i \in DOMAIN results |-> [results[i] EXCEPT !.score = score[i]]]
<1>1. /\ Len(results) \in Nat /\ DOMAIN results = 1 .. Len(results)
      /\ \A i \in 1 .. Len(results) : results[i] \in [rec : E, score : Int]
  BY CompleteFacts
<1>2. /\ DOMAIN rescored = DOMAIN results
      /\ rescored = [i \in DOMAIN results |-> rescored[i]]
      /\ \A i \in 1 .. Len(results) :
            rescored[i] \in [rec : E, score : Int] /\ rescored[i].rec = results[i].rec
  BY <1>1
<1>3. sorted = ByScore(rescored)
  OBVIOUS
<1> HIDE DEF rescored
<1>4. Complete(rescored, E) /\ Len(rescored) = Len(results)
  BY <1>2, RescoredIsComplete
<1> QED BY <1>3, <1>4, ByScoreFacts

LEMMA LocalOverlapFacts ==
    ASSUME NEW E \in SUBSET FoundRecord, NEW results, Complete(results, E), results # <<>>,
           NEW sorted, sorted = LocalOverlapReranker(results)
    PROVE  Complete(sorted, E) /\ Ascending(sorted) /\ Len(sorted) = Len(results)
<1> DEFINE scores == {r.score : r \in Elements(results)}
           range == Most(scores) - Least(scores)
           lexical(r) == 2 - r.rec.overlap
           rescored(r) == IF range > 0 THEN 2 * (r.score - Least(scores)) + lexical(r) * range ELSE lexical(r)
           score == [i \in DOMAIN results |-> rescored(results[i])]
<1>1. /\ Len(results) \in Nat /\ DOMAIN results = 1 .. Len(results)
      /\ results \in Seq([rec : E, score : Int])
      /\ \A i \in 1 .. Len(results) : results[i].rec \in FoundRecord /\ results[i].score \in Int
  BY CompleteFacts DEF Complete
<1>2. scores \in SUBSET Int /\ IsFiniteSet(scores) /\ scores # {}
  <2> DEFINE f == [i \in DOMAIN results |-> results[i].score]
             J == DOMAIN results
  <2>1. J \in SUBSET (DOMAIN results) /\ scores = {f[i] : i \in J} /\ \A i \in J : f[i] \in Int
    BY <1>1 DEF Elements
  <2>2. J # {}
    BY <1>1, EmptySeq
  <2> HIDE DEF f, J, scores
  <2>3. IsFiniteSet({f[i] : i \in J})
    BY <1>1, <2>1, ElementsAreFinite
  <2>4. scores # {}
    BY <2>1, <2>2
  <2>5. scores \in SUBSET Int
    BY <2>1
  <2> QED BY <2>1, <2>3, <2>4, <2>5
<1>3. sorted = ByScore([i \in DOMAIN results |-> [results[i] EXCEPT !.score = score[i]]])
  <2>1. sorted = ByScore([i \in DOMAIN results |-> [results[i] EXCEPT !.score = rescored(results[i])]])
    BY DEF LocalOverlapReranker
  <2> HIDE DEF rescored
  <2>2. \A i \in DOMAIN results : score[i] = rescored(results[i])
    OBVIOUS
  <2>3. [i \in DOMAIN results |-> [results[i] EXCEPT !.score = rescored(results[i])]]
          = [i \in DOMAIN results |-> [results[i] EXCEPT !.score = score[i]]]
    BY <2>2
  <2> QED BY <2>1, <2>3
<1> HIDE DEF scores
<1>4. Least(scores) \in Int /\ Most(scores) \in Int
  BY <1>2, Extremes
<1>5. \A i \in 1 .. Len(results) : score[i] \in Int
  <2> TAKE i \in 1 .. Len(results)
  <2>1. results[i].rec.overlap \in Int /\ results[i].score \in Int
    <3> DEFINE r == results[i].rec
    <3>1. r \in FoundRecord
      BY <1>1
    <3> HIDE DEF r
    <3>2. r.overlap \in Int
      BY <3>1 DEF FoundRecord
    <3> QED BY <1>1, <3>2 DEF r
  <2>2. lexical(results[i]) \in Int /\ range \in Int
    BY <1>4, <2>1
  <2> HIDE DEF lexical, range
  <2>3. 2 * (results[i].score - Least(scores)) + lexical(results[i]) * range \in Int
    <3>1. \A a, b, c, d \in Int : 2 * (a - b) + c * d \in Int
      OBVIOUS
    <3> QED BY <1>4, <2>1, <2>2, <3>1
  <2>4. score[i] = rescored(results[i])
    BY <1>1
  <2> QED BY <2>2, <2>3, <2>4
<1> HIDE DEF score
<1> QED BY <1>3, <1>5, RescoredAndSorted

LEMMA LlmRerankerFacts ==
    ASSUME NEW E \in SUBSET FoundRecord, NEW results, Complete(results, E),
           NEW sorted, sorted = LlmReranker(results)
    PROVE  Complete(sorted, E) /\ Ascending(sorted) /\ Len(sorted) = Len(results)
<1> DEFINE score == [i \in DOMAIN results |-> 10 - extract_score(results[i].rec.answer)]
<1>1. /\ DOMAIN results = 1 .. Len(results)
      /\ \A i \in 1 .. Len(results) : results[i].rec \in FoundRecord
  BY CompleteFacts
<1>2. sorted = ByScore([i \in DOMAIN results |-> [results[i] EXCEPT !.score = score[i]]])
  <2>1. [i \in DOMAIN results |-> [results[i] EXCEPT !.score = 10 - extract_score(results[i].rec.answer)]]
          = [i \in DOMAIN results |-> [results[i] EXCEPT !.score = score[i]]]
    OBVIOUS
  <2> QED BY <2>1 DEF LlmReranker
<1>3. \A i \in 1 .. Len(results) : score[i] \in Int
  <2> TAKE i \in 1 .. Len(results)
  <2> DEFINE r == results[i].rec
  <2>1. r \in FoundRecord /\ score[i] = 10 - extract_score(r.answer)
    BY <1>1
  <2> HIDE DEF r, score
  <2>2. r.answer \in Seq([decimal : BOOLEAN, tenths : Int])
    BY <2>1 DEF FoundRecord
  <2>3. extract_score(r.answer) \in Int
    BY <2>2, ScoreOfAnAnswer
  <2> QED BY <2>1, <2>3
<1> HIDE DEF score
<1> QED BY <1>2, <1>3, RescoredAndSorted

LEMMA RerankedFacts ==
    ASSUME NEW E \in SUBSET FoundRecord, NEW results, Complete(results, E), Ascending(results),
           NEW how \in {"none", "local_overlap", "llm", "fastembed"},
           NEW out, out = Reranked(how, results).results, Reranked(how, results).status = "ok"
    PROVE  /\ Complete(out, E) /\ Ascending(out) /\ Len(out) = Len(results)
           /\ how = "none" => out = results
<1> USE DEF Answered
<1>1. CASE how = "none"
  BY <1>1 DEF Reranked
<1>2. CASE how # "none" /\ results = <<>>
  <2>1. Reranked(how, results) = Answered(results)
    BY <1>2 DEF Reranked
  <2> QED BY <1>2, <2>1
<1>3. CASE how = "local_overlap" /\ results # <<>>
  <2>1. out = LocalOverlapReranker(results)
    BY <1>3 DEF Reranked
  <2> QED BY <1>3, <2>1, LocalOverlapFacts
<1>4. CASE how = "llm" /\ results # <<>>
  <2>1. out = LlmReranker(results)
    BY <1>4 DEF Reranked
  <2> QED BY <1>4, <2>1, LlmRerankerFacts
<1>5. CASE how = "fastembed" /\ results # <<>>
  <2>1. Reranked(how, results) = FastEmbedReranker(results)
    BY <1>5 DEF Reranked
  <2>2. out = LlmReranker(results)
    BY <2>1 DEF FastEmbedReranker, Failed
  <2> QED BY <1>5, <2>2, LlmRerankerFacts
<1> QED BY <1>1, <1>2, <1>3, <1>4, <1>5

-----------------------------------------------------------------------------
LEMMA CompleteCut ==
    ASSUME NEW E, NEW results, Complete(results, E), NEW n \in Nat, NEW cut, cut = Cut(results, n),
           NEW K, K = {cut[i].rec : i \in DOMAIN cut}
    PROVE  /\ Complete(cut, K) /\ K \in SUBSET E
           /\ Len(cut) = IF n =< Len(results) THEN n ELSE Len(results)
           /\ \A i \in 1 .. Len(cut) : i \in 1 .. Len(results) /\ cut[i] = results[i]
<1>1. /\ Len(results) \in Nat /\ results \in Seq([rec : E, score : Int])
      /\ \A i \in 1 .. Len(results) : /\ results[i] \in [rec : E, score : Int]
                                     /\ results[i].rec \in E /\ results[i].score \in Int
  BY CompleteFacts DEF Complete
<1>2. /\ cut \in Seq([rec : E, score : Int])
      /\ Len(cut) = IF n =< Len(results) THEN n ELSE Len(results)
      /\ \A i \in 1 .. Len(cut) : cut[i] = results[i]
  BY <1>1, CutFacts
<1>3. Len(cut) \in Nat /\ DOMAIN cut = 1 .. Len(cut)
  BY <1>2, LenProperties
<1>4. \A i \in 1 .. Len(cut) : i \in 1 .. Len(results)
  BY <1>1, <1>2, <1>3
<1>5. \A i \in 1 .. Len(cut) : cut[i] \in [rec : K, score : Int]
  <2> TAKE i \in 1 .. Len(cut)
  <2>1. cut[i] \in [rec : E, score : Int] /\ cut[i].rec \in K
    BY <1>1, <1>2, <1>3, <1>4
  <2> QED BY <2>1
<1>6. cut \in Seq([rec : K, score : Int])
  <2>1. cut = [i \in 1 .. Len(cut) |-> cut[i]]
    BY <1>2, <1>3, SeqDef
  <2>2. cut \in [1 .. Len(cut) -> [rec : K, score : Int]]
    BY <1>5, <2>1
  <2> QED BY <1>3, <2>2, ListIsSeq
<1>7. K \in SUBSET E
  BY <1>1, <1>2, <1>3, <1>4
<1>8. \A r \in K : \E i \in 1 .. Len(cut) : cut[i].rec = r
  BY <1>3
<1>9. \A i, j \in 1 .. Len(cut) : i # j => cut[i].rec # cut[j].rec
  <2> SUFFICES ASSUME NEW i \in 1 .. Len(cut), NEW j \in 1 .. Len(cut), i # j
               PROVE  cut[i].rec # cut[j].rec
    OBVIOUS
  <2>1. results[i].rec # results[j].rec
    BY <1>4 DEF Complete
  <2> QED BY <1>2, <2>1
<1> QED BY <1>2, <1>4, <1>6, <1>7, <1>8, <1>9 DEF Complete

\* Every search that a caller may ask ranks what the store returns as it must,
\* whatever the records, their scores and the model's answers, however many
\* there are.
THEOREM SearchRanksWell ==
    ASSUME NEW q, Askable(q)
    PROVE  RankedWell(q)
<1> DEFINE E == Elements(Matching(StoreSearch(q)))
           candidates == Candidates(q)
           passed == KeywordPass(q, candidates)
           before == apply_entity_boost(passed)
           cut == Cut(before, q.top_k)
           K == {cut[i].rec : i \in DOMAIN cut}
           out == search(q).results
           kept == {out[i].rec : i \in DOMAIN out}
<1> SUFFICES ASSUME search(q).status = "ok"
             PROVE  /\ kept \subseteq E
                    /\ Cardinality(kept) = Len(out)
                    /\ Len(out) = Least({q.top_k, Cardinality(E)})
                    /\ \A i, j \in DOMAIN out : i < j => out[i].score =< out[j].score
                    /\ \A b \in kept, a \in E \ kept : ~Beats(a, b)
                    /\ q.rerank = "none" => \A i, j \in DOMAIN out : i < j => ~Beats(out[j].rec, out[i].rec)
  BY DEF RankedWell
<1>1. /\ E \in SUBSET FoundRecord /\ E \in SUBSET Elements(q.found)
      /\ Complete(candidates, E) /\ Ascending(candidates) /\ NonNegative(candidates) /\ NoneOvertaken(candidates)
  BY CandidatesFacts
<1> HIDE DEF candidates, E
<1>2. Complete(passed, E) /\ Ascending(passed) /\ NonNegative(passed) /\ NoneOvertaken(passed)
  BY <1>1, KeywordPassFacts
<1> HIDE DEF passed
<1>3. Complete(before, E) /\ Ascending(before) /\ NonNegative(before) /\ NoneOvertaken(before)
  BY <1>1, <1>2, EntityBoostFacts
<1>4. before = BeforeRerank(q)
  BY DEF BeforeRerank, passed, candidates
<1> HIDE DEF before
<1>5. /\ q.rerank # "unconfigured"
      /\ search(q) = Reranked(q.rerank, cut)
  BY <1>4 DEF search, Refused
<1>6. q.top_k \in Nat /\ q.rerank \in {"none", "local_overlap", "llm", "fastembed"}
  BY <1>5 DEF Askable
<1>7. /\ Complete(cut, K) /\ K \in SUBSET E
      /\ Len(cut) = IF q.top_k =< Len(before) THEN q.top_k ELSE Len(before)
      /\ \A i \in 1 .. Len(cut) : i \in 1 .. Len(before) /\ cut[i] = before[i]
  <2>1. \A n \in Nat : \A c, L : c = Cut(before, n) /\ L = {c[i].rec : i \in DOMAIN c}
          => /\ Complete(c, L) /\ L \in SUBSET E
             /\ Len(c) = IF n =< Len(before) THEN n ELSE Len(before)
             /\ \A i \in 1 .. Len(c) : i \in 1 .. Len(before) /\ c[i] = before[i]
    BY <1>3, CompleteCut
  <2> QED BY <1>6, <2>1
<1> HIDE DEF cut, K
<1>8. Ascending(cut) /\ NoneOvertaken(cut)
  BY <1>3, <1>7 DEF Ascending, NoneOvertaken
<1>9. /\ Complete(out, K) /\ Ascending(out) /\ Len(out) = Len(cut)
      /\ q.rerank = "none" => out = cut
  <2>1. K \in SUBSET FoundRecord
    BY <1>1, <1>7
  <2>2. out = Reranked(q.rerank, cut).results /\ Reranked(q.rerank, cut).status = "ok"
    BY <1>5
  <2> HIDE DEF out
  <2> QED BY <1>6, <1>7, <1>8, <2>1, <2>2, RerankedFacts
<1> HIDE DEF out
<1>10. kept = K /\ Cardinality(K) = Len(out)
  BY <1>9, CompleteIsAsLong
<1>11. Cardinality(E) = Len(before) /\ Len(before) \in Nat
  BY <1>3, CompleteIsAsLong, CompleteFacts
<1>12. Len(out) = Least({q.top_k, Cardinality(E)})
  BY <1>6, <1>7, <1>9, <1>11, ExtremesOfTwo
<1>13. DOMAIN out = 1 .. Len(out) /\ Len(out) \in Nat
  BY <1>9, CompleteFacts
<1>14. \A i, j \in DOMAIN out : i < j => out[i].score =< out[j].score
  BY <1>9, <1>13 DEF Ascending
<1>15. ASSUME NEW b \in K, NEW a \in E \ K PROVE ~Beats(a, b)
  <2>1. PICK i \in 1 .. Len(cut) : cut[i].rec = b
    BY <1>7 DEF Complete
  <2>2. PICK j \in 1 .. Len(before) : before[j].rec = a
    BY <1>3 DEF Complete
  <2>3. i \in 1 .. Len(before) /\ before[i].rec = b
    BY <1>7, <2>1
  <2>4. ~(j < i)
    <3> SUFFICES ASSUME j < i PROVE FALSE
      OBVIOUS
    <3>1. Len(cut) \in Nat /\ j \in 1 .. Len(cut)
      BY <1>9, <1>13, <2>1
    <3>2. cut[j].rec = a /\ cut[j].rec \in K
      BY <1>7, <2>2, <3>1, CompleteFacts
    <3> QED BY <1>15, <3>2
  <2> QED BY <1>3, <2>2, <2>3, <2>4 DEF NoneOvertaken
<1>16. q.rerank = "none" => \A i, j \in DOMAIN out : i < j => ~Beats(out[j].rec, out[i].rec)
  <2> SUFFICES ASSUME q.rerank = "none", NEW i \in 1 .. Len(out), NEW j \in 1 .. Len(out), i < j,
                      Beats(out[j].rec, out[i].rec)
               PROVE  FALSE
    BY <1>13
  <2>1. out = cut
    BY <1>9
  <2>2. j < i
    BY <1>8, <2>1 DEF NoneOvertaken
  <2> QED BY <1>13, <2>2
<1> QED BY <1>7, <1>10, <1>12, <1>14, <1>15, <1>16
=============================================================================
