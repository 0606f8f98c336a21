-------------------------- MODULE StoreReads_proofs --------------------------
(***************************************************************************)
(* What the stores answer, whatever they hold and whatever they are asked: *)
(* any records with distinct ids, any vectors (of two numbers) and words,  *)
(* any page, limit, threshold, and any records that an index misses.       *)
(*                                                                         *)
(* A list is read in pages, and pages one after the other are the first    *)
(* records (PagesJoin); enough of them are all (PagesAreAll), so the       *)
(* stores that read everything before they sort have everything, and the   *)
(* one that sorts each page by itself has the same records in each page    *)
(* (FlattenAlike).  A search is a list of results that is scored, sorted,  *)
(* filtered and cut, in an order of the store's own; each of these steps   *)
(* keeps the list complete (ScoredFacts to CutResults), and the limit may  *)
(* come before the threshold (BestAreCutFirst): of what it leaves out,     *)
(* nothing is nearer than anything that it keeps.                          *)
(***************************************************************************)
EXTENDS StoreReads, Ranking_proofs

-----------------------------------------------------------------------------
\* Induction, for a set of numbers.
LEMMA SetInduction ==
    ASSUME NEW S, 0 \in S, \A n \in Nat : n \in S => n + 1 \in S
    PROVE  \A n \in Nat : n \in S
<1> SUFFICES ASSUME NEW n \in Nat, n \notin S PROVE FALSE
  OBVIOUS
<1> DEFINE T == {m \in 0 .. n : m \notin S}
<1>1. IsFiniteSet(0 .. n) /\ T \in SUBSET (0 .. n) /\ n \in T
  BY FS_Interval
<1>2. IsFiniteSet(T) /\ T \in SUBSET Int /\ T # {}
  BY <1>1, FS_Subset
<1>3. Least(T) \in T /\ \A x \in T : Least(T) =< x
  <2> HIDE DEF T
  <2> QED BY <1>2, Extremes
<1>4. PICK m \in T : \A x \in T : m =< x
  BY <1>3
<1>5. m \in 0 .. n /\ m \notin S /\ m # 0
  BY <1>4
<1>6. m - 1 \in Nat /\ m - 1 \in 0 .. n /\ (m - 1) + 1 = m
  BY <1>5
<1>7. m - 1 \notin S
  BY <1>5, <1>6
<1> QED BY <1>4, <1>6, <1>7

-----------------------------------------------------------------------------
(* FlattenSeq, and what its recursion defines.                             *)
Joins(g, f, n) == g = [i \in 1 .. n |-> IF i = 1 THEN f[i] ELSE g[i - 1] \o f[i]]

LEMMA JoinsExist ==
    ASSUME NEW f
    PROVE  \A n \in Nat : \E g : Joins(g, f, n)
<1> DEFINE S == {n \in Nat : \E g : Joins(g, f, n)}
<1>1. 0 \in S
  <2> DEFINE g == [i \in 1 .. 0 |-> f[i]]
  <2>1. g = [i \in 1 .. 0 |-> IF i = 1 THEN f[i] ELSE g[i - 1] \o f[i]]
    OBVIOUS
  <2> QED BY <2>1 DEF Joins
<1>2. ASSUME NEW n \in Nat, n \in S PROVE n + 1 \in S
  <2>1. PICK g : Joins(g, f, n)
    BY <1>2
  <2> DEFINE h == [i \in 1 .. n + 1 |->
                     IF i = n + 1 THEN (IF i = 1 THEN f[i] ELSE g[n] \o f[i]) ELSE g[i]]
  <2>2. ASSUME NEW i \in 1 .. n + 1
        PROVE  h[i] = IF i = 1 THEN f[i] ELSE h[i - 1] \o f[i]
    <3>1. CASE i = n + 1 /\ i = 1
      BY <3>1
    <3>2. CASE i = n + 1 /\ i # 1
      <4>1. i - 1 = n /\ n \in 1 .. n + 1 /\ n # n + 1
        BY <3>2
      <4> QED BY <3>2, <4>1
    <3>3. CASE i # n + 1
      <4>1. i \in 1 .. n
        BY <3>3
      <4>2. g[i] = IF i = 1 THEN f[i] ELSE g[i - 1] \o f[i]
        BY <2>1, <4>1 DEF Joins
      <4>3. h[i] = g[i]
        BY <3>3
      <4>4. i # 1 => h[i - 1] = g[i - 1]
        BY <4>1
      <4> QED BY <4>2, <4>3, <4>4
    <3> QED BY <3>1, <3>2, <3>3
  <2>3. h = [i \in 1 .. n + 1 |-> IF i = 1 THEN f[i] ELSE h[i - 1] \o f[i]]
    <3>1. h = [i \in 1 .. n + 1 |-> h[i]]
      OBVIOUS
    <3> HIDE DEF h
    <3> QED BY <2>2, <3>1
  <2>4. \E k : Joins(k, f, n + 1)
    <3> HIDE DEF h
    <3> QED BY <2>3 DEF Joins
  <2> QED BY <2>4
<1>3. \A n \in Nat : n \in S
  <2> HIDE DEF S
  <2> QED BY <1>1, <1>2, SetInduction
<1> QED BY <1>3

\* A sequence of sequences is joined one by one.
Growing(g, f, n) ==
    /\ g[1] = f[1]
    /\ \A i \in 1 .. n : i # 1 => g[i] = g[i - 1] \o f[i]
    /\ FlattenSeq(f) = g[n]

LEMMA FlattenFacts ==
    ASSUME NEW S, NEW n \in Nat, NEW f \in [1 .. n -> Seq(S)]
    PROVE  /\ n = 0 => FlattenSeq(f) = <<>>
           /\ n # 0 => \E g \in [1 .. n -> Seq(S)] : Growing(g, f, n)
<1>1. Len(f) = n
  BY ListIsSeq
<1>2. ASSUME n = 0 PROVE FlattenSeq(f) = <<>>
  <2>1. f \in Seq(Seq(S)) /\ Len(f) = 0
    BY <1>1, <1>2, ListIsSeq
  <2>2. f = <<>>
    BY <2>1, EmptySeq
  <2>3. FlattenSeq(f) = f
    BY <2>1 DEF FlattenSeq
  <2> QED BY <2>2, <2>3
<1>3. ASSUME n # 0
      PROVE  \E g \in [1 .. n -> Seq(S)] : Growing(g, f, n)
  <2> DEFINE g == CHOOSE g : g = [i \in 1 .. n |-> IF i = 1 THEN f[i] ELSE g[i - 1] \o f[i]]
  <2>1. FlattenSeq(f) = g[n]
    BY <1>1, <1>3 DEF FlattenSeq
  <2>2. g = [i \in 1 .. n |-> IF i = 1 THEN f[i] ELSE g[i - 1] \o f[i]]
    BY JoinsExist DEF Joins
  <2> HIDE DEF g
  <2>3. \A i \in 1 .. n : g[i] = IF i = 1 THEN f[i] ELSE g[i - 1] \o f[i]
    BY <2>2
  <2>4. \A i \in 1 .. n : g[i] \in Seq(S)
    <3> DEFINE I == {k \in Nat : \A i \in 1 .. n : i = k + 1 => g[i] \in Seq(S)}
    <3>1. 0 \in I
      BY <1>3, <2>3
    <3>2. ASSUME NEW k \in Nat, k \in I PROVE k + 1 \in I
      <4> SUFFICES ASSUME NEW i \in 1 .. n, i = k + 1 + 1 PROVE g[i] \in Seq(S)
        OBVIOUS
      <4>1. i # 1 /\ i - 1 \in 1 .. n /\ i - 1 = k + 1
        OBVIOUS
      <4>2. g[i - 1] \in Seq(S)
        BY <3>2, <4>1
      <4>3. g[i] = g[i - 1] \o f[i]
        BY <2>3, <4>1
      <4>4. f[i] \in Seq(S)
        OBVIOUS
      <4> QED BY <4>2, <4>3, <4>4, ConcatProperties
    <3>3. \A k \in Nat : k \in I
      <4> HIDE DEF I
      <4> QED BY <3>1, <3>2, SetInduction
    <3> SUFFICES ASSUME NEW i \in 1 .. n PROVE g[i] \in Seq(S)
      OBVIOUS
    <3>4. i - 1 \in Nat /\ i - 1 + 1 = i
      OBVIOUS
    <3>5. i - 1 \in I
      BY <3>3, <3>4
    <3> QED BY <3>4, <3>5
  <2>5. g \in [1 .. n -> Seq(S)]
    BY <2>2, <2>4
  <2>6. 1 \in 1 .. n
    BY <1>3
  <2>7. Growing(g, f, n)
    BY <2>1, <2>3, <2>6 DEF Growing
  <2> QED BY <2>5, <2>7
<1> QED BY <1>2, <1>3

-----------------------------------------------------------------------------
(* Pages.                                                                  *)
LEMMA PageFacts ==
    ASSUME NEW S, NEW s \in Seq(S), NEW offset \in Nat, NEW limit \in Nat, NEW t, t = Page(s, offset, limit)
    PROVE  /\ t \in Seq(S) /\ Len(t) \in Nat
           /\ Len(t) = IF Len(s) =< offset THEN 0 ELSE Lesser(limit, Len(s) - offset)
           /\ \A i \in 1 .. Len(t) : i + offset \in 1 .. Len(s) /\ t[i] = s[i + offset]
<1> DEFINE last == Lesser(offset + limit, Len(s))
<1>1. Len(s) \in Nat /\ \A i \in 1 .. Len(s) : s[i] \in S
  BY LenProperties
<1>2. last \in Nat /\ last =< Len(s) /\ last =< offset + limit
  BY <1>1 DEF Lesser
<1>3. \A i \in (offset + 1) .. last : s[i] \in S
  BY <1>1, <1>2
<1>4. t = SubSeq(s, offset + 1, last)
  BY DEF Page
<1>5. last - offset = IF Len(s) =< offset THEN Len(s) - offset ELSE Lesser(limit, Len(s) - offset)
  BY <1>1 DEF Lesser
<1> HIDE DEF last
<1>6. /\ t \in Seq(S)
      /\ Len(t) = IF offset + 1 =< last THEN last - (offset + 1) + 1 ELSE 0
      /\ \A i \in 1 .. last - (offset + 1) + 1 : t[i] = s[(offset + 1) + i - 1]
  BY <1>2, <1>3, <1>4, SubSeqProperties
<1>7. Len(t) = IF offset =< last THEN last - offset ELSE 0
  BY <1>2, <1>6
<1>8. Len(t) = IF Len(s) =< offset THEN 0 ELSE Lesser(limit, Len(s) - offset)
  BY <1>1, <1>2, <1>5, <1>7 DEF Lesser
<1>9. ASSUME NEW i \in 1 .. Len(t) PROVE i + offset \in 1 .. Len(s) /\ t[i] = s[i + offset]
  <2>1. i \in 1 .. last - (offset + 1) + 1 /\ (offset + 1) + i - 1 = i + offset /\ i + offset =< last
    BY <1>2, <1>7
  <2> QED BY <1>1, <1>2, <1>6, <2>1
<1> QED BY <1>2, <1>6, <1>7, <1>8, <1>9

\* The first n elements.
Take(s, n) == Page(s, 0, n)

\* Taking more is taking and appending the next page.
LEMMA PageAppends ==
    ASSUME NEW S, NEW s \in Seq(S), NEW a \in Nat, NEW b \in Nat
    PROVE  Take(s, a) \o Page(s, a, b) = Take(s, a + b)
<1> DEFINE t == Take(s, a)
           p == Page(s, a, b)
           u == Take(s, a + b)
<1>1. Len(s) \in Nat
  BY LenProperties
<1>2. /\ t \in Seq(S) /\ Len(t) \in Nat
      /\ Len(t) = IF Len(s) =< 0 THEN 0 ELSE Lesser(a, Len(s) - 0)
      /\ \A i \in 1 .. Len(t) : i + 0 \in 1 .. Len(s) /\ t[i] = s[i + 0]
  BY PageFacts DEF Take
<1>3. /\ p \in Seq(S) /\ Len(p) \in Nat
      /\ Len(p) = IF Len(s) =< a THEN 0 ELSE Lesser(b, Len(s) - a)
      /\ \A i \in 1 .. Len(p) : i + a \in 1 .. Len(s) /\ p[i] = s[i + a]
  BY PageFacts
<1>4. /\ u \in Seq(S) /\ Len(u) \in Nat
      /\ Len(u) = IF Len(s) =< 0 THEN 0 ELSE Lesser(a + b, Len(s) - 0)
      /\ \A i \in 1 .. Len(u) : i + 0 \in 1 .. Len(s) /\ u[i] = s[i + 0]
  <2>1. a + b \in Nat
    OBVIOUS
  <2> QED BY <2>1, PageFacts DEF Take
<1> HIDE DEF t, p, u
<1>5. /\ t \o p \in Seq(S) /\ Len(t \o p) = Len(t) + Len(p)
      /\ \A i \in 1 .. Len(t) + Len(p) : (t \o p)[i] = IF i <= Len(t) THEN t[i] ELSE p[i - Len(t)]
  BY <1>2, <1>3, ConcatProperties
<1>6. Len(t) + Len(p) = Len(u) /\ (Len(p) # 0 => Len(t) = a)
  <2>1. CASE Len(s) =< a
    BY <1>1, <1>2, <1>3, <1>4, <2>1 DEF Lesser
  <2>2. CASE ~(Len(s) =< a)
    <3>1. Len(t) = a
      BY <1>1, <1>2, <2>2 DEF Lesser
    <3>2. Len(p) = IF b < Len(s) - a THEN b ELSE Len(s) - a
      BY <1>3, <2>2 DEF Lesser
    <3>3. Len(u) = IF a + b < Len(s) THEN a + b ELSE Len(s)
      BY <1>1, <1>4, <2>2 DEF Lesser
    <3> QED BY <1>1, <2>2, <3>1, <3>2, <3>3
  <2> QED BY <2>1, <2>2
<1>7. ASSUME NEW i \in 1 .. Len(u) PROVE (t \o p)[i] = u[i]
  <2>1. u[i] = s[i] /\ i \in 1 .. Len(t) + Len(p) /\ i \in Nat
    BY <1>4, <1>6
  <2>2. CASE i =< Len(t)
    <3>1. i \in 1 .. Len(t) /\ i + 0 = i
      BY <1>2, <2>1, <2>2
    <3> QED BY <1>2, <1>5, <2>1, <2>2, <3>1
  <2>3. CASE ~(i =< Len(t))
    <3>1. Len(p) # 0 /\ i - Len(t) \in 1 .. Len(p)
      BY <1>2, <1>3, <2>1, <2>3
    <3>2. (i - Len(t)) + a = i
      BY <1>2, <1>6, <2>1, <3>1
    <3> QED BY <1>3, <1>5, <2>1, <2>3, <3>1, <3>2
  <2> QED BY <2>2, <2>3
<1>8. t \o p = u
  BY <1>4, <1>5, <1>6, <1>7, SeqEqual
<1> QED BY <1>8 DEF t, p, u

\* The first pages together are the first elements.
LEMMA PagesJoin ==
    ASSUME NEW S, NEW s \in Seq(S), NEW size \in Nat, NEW n \in Nat
    PROVE  Pages(s, size, n) = Take(s, n * size)
<1> DEFINE f == [p \in 1 .. n |-> Page(s, (p - 1) * size, size)]
<1>1. \A k \in Nat : k * size \in Nat /\ (k + 1) * size = k * size + size
  OBVIOUS
<1>2. f \in [1 .. n -> Seq(S)]
  <2> SUFFICES ASSUME NEW p \in 1 .. n PROVE Page(s, (p - 1) * size, size) \in Seq(S)
    OBVIOUS
  <2>1. p - 1 \in Nat
    OBVIOUS
  <2> QED BY <1>1, <2>1, PageFacts
<1>3. \A p \in 1 .. n : f[p] = Page(s, (p - 1) * size, size)
  OBVIOUS
<1>4. Pages(s, size, n) = FlattenSeq(f)
  BY DEF Pages
<1> HIDE DEF f
<1>5. Take(s, 0) = <<>>
  <2>1. Take(s, 0) \in Seq(S) /\ Len(Take(s, 0)) = IF Len(s) =< 0 THEN 0 ELSE Lesser(0, Len(s) - 0)
    BY PageFacts DEF Take
  <2>2. Len(Take(s, 0)) = 0
    BY <2>1, LenProperties DEF Lesser
  <2> QED BY <2>1, <2>2, EmptySeq
<1>6. CASE n = 0
  <2>1. n * size = 0
    BY <1>6
  <2>2. FlattenSeq(f) = <<>>
    BY <1>2, <1>6, FlattenFacts
  <2> QED BY <1>4, <1>5, <2>1, <2>2
<1>7. CASE n # 0
  <2>0. PICK g \in [1 .. n -> Seq(S)] : Growing(g, f, n)
    BY <1>2, <1>7, FlattenFacts
  <2>1. /\ g[1] = f[1]
        /\ \A i \in 1 .. n : i # 1 => g[i] = g[i - 1] \o f[i]
        /\ FlattenSeq(f) = g[n]
    BY <2>0 DEF Growing
  <2> DEFINE I == {k \in Nat : k + 1 \in 1 .. n => g[k + 1] = Take(s, (k + 1) * size)}
  <2>2. 0 \in I
    <3>1. 1 \in 1 .. n /\ 1 - 1 = 0 /\ 0 * size = 0 /\ (0 + 1) * size = size /\ 0 + 1 = 1
      BY <1>7
    <3>2. g[1] = Page(s, 0, size)
      BY <1>3, <2>1, <3>1
    <3> QED BY <3>1, <3>2 DEF Take
  <2>3. ASSUME NEW k \in Nat, k \in I PROVE k + 1 \in I
    <3> DEFINE j == k + 1
    <3> SUFFICES ASSUME j + 1 \in 1 .. n PROVE g[j + 1] = Take(s, (j + 1) * size)
      OBVIOUS
    <3>1. j \in 1 .. n /\ j + 1 # 1 /\ (j + 1) - 1 = j /\ j \in Nat
      OBVIOUS
    <3>2. g[j] = Take(s, j * size)
      BY <2>3, <3>1
    <3> HIDE DEF j, I
    <3>3. g[j + 1] = g[j] \o f[j + 1]
      BY <2>1, <3>1
    <3>4. f[j + 1] = Page(s, j * size, size)
      BY <1>3, <3>1
    <3>5. Take(s, j * size) \o Page(s, j * size, size) = Take(s, j * size + size)
      BY <1>1, <3>1, PageAppends
    <3> QED BY <1>1, <3>1, <3>2, <3>3, <3>4, <3>5
  <2>4. \A k \in Nat : k \in I
    <3> HIDE DEF I
    <3> QED BY <2>2, <2>3, SetInduction
  <2>5. n - 1 \in Nat /\ (n - 1) + 1 = n /\ n \in 1 .. n
    BY <1>7
  <2>5a. n - 1 \in I
    BY <2>4, <2>5
  <2>6. g[n] = Take(s, n * size)
    BY <2>5, <2>5a
  <2> QED BY <1>4, <2>1, <2>6
<1> QED BY <1>6, <1>7

-----------------------------------------------------------------------------
(* What sequences of the same lengths and elements give when joined.       *)
LEMMA ConcatElements ==
    ASSUME NEW S, NEW s \in Seq(S), NEW t \in Seq(S)
    PROVE  /\ s \o t \in Seq(S) /\ Len(s \o t) = Len(s) + Len(t)
           /\ Elements(s \o t) = Elements(s) \cup Elements(t)
<1>1. /\ Len(s) \in Nat /\ DOMAIN s = 1 .. Len(s)
      /\ Len(t) \in Nat /\ DOMAIN t = 1 .. Len(t)
  BY LenProperties
<1>2. /\ s \o t \in Seq(S) /\ Len(s \o t) = Len(s) + Len(t)
      /\ \A i \in 1 .. Len(s) + Len(t) : (s \o t)[i] = IF i <= Len(s) THEN s[i] ELSE t[i - Len(s)]
  BY ConcatProperties
<1>3. DOMAIN (s \o t) = 1 .. Len(s) + Len(t)
  BY <1>2, LenProperties
<1>4. ASSUME NEW x \in Elements(s \o t) PROVE x \in Elements(s) \cup Elements(t)
  <2>1. PICK i \in 1 .. Len(s) + Len(t) : x = (s \o t)[i]
    BY <1>3 DEF Elements
  <2>2. CASE i =< Len(s)
    <3>1. i \in DOMAIN s
      BY <1>1, <2>2
    <3> QED BY <1>2, <2>1, <2>2, <3>1 DEF Elements
  <2>3. CASE ~(i =< Len(s))
    <3>1. i - Len(s) \in DOMAIN t
      BY <1>1, <2>3
    <3> QED BY <1>2, <2>1, <2>3, <3>1 DEF Elements
  <2> QED BY <2>2, <2>3
<1>5. ASSUME NEW x \in Elements(s) PROVE x \in Elements(s \o t)
  <2>1. PICK i \in 1 .. Len(s) : x = s[i]
    BY <1>1 DEF Elements
  <2>2. i \in 1 .. Len(s) + Len(t) /\ i =< Len(s)
    BY <1>1
  <2> QED BY <1>2, <1>3, <2>1, <2>2 DEF Elements
<1>6. ASSUME NEW x \in Elements(t) PROVE x \in Elements(s \o t)
  <2>1. PICK i \in 1 .. Len(t) : x = t[i]
    BY <1>1 DEF Elements
  <2>2. Len(s) + i \in 1 .. Len(s) + Len(t) /\ ~(Len(s) + i =< Len(s)) /\ Len(s) + i - Len(s) = i
    BY <1>1
  <2> QED BY <1>2, <1>3, <2>1, <2>2 DEF Elements
<1> QED BY <1>2, <1>4, <1>5, <1>6

Alike(s, t) == Len(s) = Len(t) /\ Elements(s) = Elements(t)

LEMMA FlattenAlike ==
    ASSUME NEW S, NEW n \in Nat, NEW f \in [1 .. n -> Seq(S)], NEW g \in [1 .. n -> Seq(S)],
           \A p \in 1 .. n : Alike(f[p], g[p])
    PROVE  /\ FlattenSeq(f) \in Seq(S) /\ FlattenSeq(g) \in Seq(S)
           /\ Alike(FlattenSeq(f), FlattenSeq(g))
<1>1. CASE n = 0
  <2>1. FlattenSeq(f) = <<>> /\ FlattenSeq(g) = <<>>
    BY <1>1, FlattenFacts
  <2>2. <<>> \in Seq(S)
    OBVIOUS
  <2> QED BY <2>1, <2>2 DEF Alike
<1>2. CASE n # 0
  <2>1. PICK u \in [1 .. n -> Seq(S)] : Growing(u, f, n)
    BY <1>2, FlattenFacts
  <2>2. PICK v \in [1 .. n -> Seq(S)] : Growing(v, g, n)
    BY <1>2, FlattenFacts
  <2> DEFINE I == {k \in Nat : \A i \in 1 .. n : i = k + 1 => Alike(u[i], v[i])}
  <2>3. 0 \in I
    BY <1>2, <2>1, <2>2 DEF Growing
  <2>4. ASSUME NEW k \in Nat, k \in I PROVE k + 1 \in I
    <3> SUFFICES ASSUME NEW i \in 1 .. n, i = k + 1 + 1 PROVE Alike(u[i], v[i])
      OBVIOUS
    <3>1. i # 1 /\ i - 1 \in 1 .. n /\ i - 1 = k + 1
      OBVIOUS
    <3>2. Alike(u[i - 1], v[i - 1])
      BY <2>4, <3>1
    <3>3. u[i] = u[i - 1] \o f[i] /\ v[i] = v[i - 1] \o g[i]
      BY <2>1, <2>2, <3>1 DEF Growing
    <3>4. u[i - 1] \in Seq(S) /\ v[i - 1] \in Seq(S) /\ f[i] \in Seq(S) /\ g[i] \in Seq(S)
      BY <3>1
    <3>5. /\ Len(u[i]) = Len(u[i - 1]) + Len(f[i]) /\ Elements(u[i]) = Elements(u[i - 1]) \cup Elements(f[i])
          /\ Len(v[i]) = Len(v[i - 1]) + Len(g[i]) /\ Elements(v[i]) = Elements(v[i - 1]) \cup Elements(g[i])
      BY <3>3, <3>4, ConcatElements
    <3> QED BY <3>2, <3>5 DEF Alike
  <2>5. \A k \in Nat : k \in I
    <3> HIDE DEF I
    <3> QED BY <2>3, <2>4, SetInduction
  <2>6. n - 1 \in Nat /\ (n - 1) + 1 = n /\ n \in 1 .. n
    BY <1>2
  <2>7. n - 1 \in I
    BY <2>5, <2>6
  <2>8. Alike(u[n], v[n])
    BY <2>6, <2>7
  <2> QED BY <2>1, <2>2, <2>6, <2>8 DEF Growing
<1> QED BY <1>1, <1>2

-----------------------------------------------------------------------------
(* Searches.  A list of results that has every record of a set once, with  *)
(* the scores of a measure, stays one when it is sorted, filtered and cut. *)

\* A record that a store may hold, with any words at all, and its contents.
IsRecord(r) ==
    r.id \in Int /\ r.vector \in Seq(Int) /\ r.mine \in BOOLEAN /\ r.bm25 \in Int /\ r.cover \in Int
Held(records) ==
    /\ records \in Seq(Elements(records)) /\ \A r \in Elements(records) : IsRecord(r)
    /\ \A i, j \in 1 .. Len(records) : i # j => records[i].id # records[j].id

OwnScores(results, measure) == \A i \in 1 .. Len(results) : results[i].score = measure[results[i].rec]

\* The results with their records and scores, in the order of the scores.
Measured(results, E, measure) ==
    Complete(results, E) /\ OwnScores(results, measure)

LEMMA ScoredFacts ==
    ASSUME NEW S, NEW records \in Seq(S), Distinct(records),
           NEW measure, \A r \in Elements(records) : measure[r] \in Int,
           NEW E, E = Elements(records)
    PROVE  Measured(Scored(records, measure), E, measure)
<1> DEFINE out == Scored(records, measure)
<1>1. Len(records) \in Nat /\ DOMAIN records = 1 .. Len(records)
  BY LenProperties
<1>2. \A i \in 1 .. Len(records) : records[i] \in E
  BY <1>1 DEF Elements
<1>3. out = [i \in 1 .. Len(records) |-> [rec |-> records[i], score |-> measure[records[i]]]]
  BY <1>1 DEF Scored
<1> HIDE DEF out
<1>4. \A i \in 1 .. Len(records) : /\ out[i].rec = records[i] /\ out[i].score = measure[records[i]]
                                  /\ out[i] \in [rec : E, score : Int]
  BY <1>2, <1>3
<1>5. out \in [1 .. Len(records) -> [rec : E, score : Int]]
  BY <1>3, <1>4
<1>6. out \in Seq([rec : E, score : Int]) /\ Len(out) = Len(records)
  BY <1>1, <1>5, ListIsSeq
<1>7. \A r \in E : \E i \in 1 .. Len(out) : out[i].rec = r
  <2> SUFFICES ASSUME NEW r \in E PROVE \E i \in 1 .. Len(out) : out[i].rec = r
    OBVIOUS
  <2>1. PICK i \in 1 .. Len(records) : r = records[i]
    BY <1>1 DEF Elements
  <2> QED BY <1>4, <1>6, <2>1
<1>8. \A i, j \in 1 .. Len(out) : i # j => out[i].rec # out[j].rec
  BY <1>4, <1>6 DEF Distinct
<1>9. OwnScores(out, measure)
  BY <1>4, <1>6 DEF OwnScores
<1> QED BY <1>6, <1>7, <1>8, <1>9 DEF Complete, Measured, out

LEMMA SortedByScore ==
    ASSUME NEW E, NEW measure, NEW results, Measured(results, E, measure)
    PROVE  Measured(ByScore(results), E, measure) /\ Ascending(ByScore(results))
<1> DEFINE t == ByScore(results)
           R == [rec : E, score : Int]
           key == [i \in DOMAIN results |-> results[i].score]
<1>1. /\ Complete(results, E) /\ results \in Seq(R)
      /\ DOMAIN results = 1 .. Len(results) /\ \A i \in 1 .. Len(results) : results[i].score \in Int
  BY CompleteFacts DEF Measured, Complete
<1>2. Complete(t, E) /\ Ascending(t)
  BY <1>1, ByScoreFacts
<1>3. t = Arranged(results, DOMAIN results, key) /\ \A i \in DOMAIN results : key[i] \in Int
  BY <1>1 DEF ByScore, Sorted
<1> HIDE DEF t, R, key
<1>4. PICK spots : ArrangedAs(t, results, DOMAIN results, key, spots)
  BY <1>1, <1>3, ArrangedFacts
<1>5. \A m \in 1 .. Len(t) : spots[m] \in 1 .. Len(results) /\ t[m] = results[spots[m]]
  BY <1>1, <1>4 DEF ArrangedAs
<1>6. OwnScores(t, measure)
  BY <1>5 DEF OwnScores, Measured
<1> QED BY <1>2, <1>6 DEF Measured, t

LEMMA RetainedResults ==
    ASSUME NEW E, NEW measure, NEW results, Measured(results, E, measure),
           NEW I \in SUBSET (DOMAIN results), NEW K, K = {results[i].rec : i \in I}
    PROVE  /\ Measured(Retained(results, I), K, measure) /\ K \in SUBSET E
           /\ Ascending(results) => Ascending(Retained(results, I))
<1> DEFINE t == Retained(results, I)
           R == [rec : E, score : Int]
<1>1. /\ Complete(results, E) /\ results \in Seq(R)
      /\ DOMAIN results = 1 .. Len(results) /\ Len(results) \in Nat
      /\ \A i \in 1 .. Len(results) : results[i] \in R /\ results[i].rec \in E /\ results[i].score \in Int
  BY CompleteFacts DEF Measured, Complete
<1> HIDE DEF R
<1>2. t \in Seq(R) /\ \E key, spots : /\ ArrangedAs(t, results, I, key, spots)
                                     /\ \A m, o \in 1 .. Len(t) : m < o => spots[m] < spots[o]
  BY <1>1, RetainedFacts
<1>3. PICK key, spots : /\ ArrangedAs(t, results, I, key, spots)
                       /\ \A m, o \in 1 .. Len(t) : m < o => spots[m] < spots[o]
  BY <1>2
<1> HIDE DEF t
<1>4. /\ \A m \in 1 .. Len(t) : spots[m] \in I /\ t[m] = results[spots[m]]
      /\ \A i \in I : \E m \in 1 .. Len(t) : spots[m] = i
  BY <1>3 DEF ArrangedAs
<1>5. Len(t) \in Nat /\ DOMAIN t = 1 .. Len(t) /\ t = [m \in 1 .. Len(t) |-> t[m]]
  BY <1>2, LenProperties, SeqDef
<1>6. \A m \in 1 .. Len(t) : t[m] \in [rec : K, score : Int]
  <2> SUFFICES ASSUME NEW m \in 1 .. Len(t) PROVE t[m] \in [rec : K, score : Int]
    OBVIOUS
  <2>1. spots[m] \in I /\ spots[m] \in 1 .. Len(results) /\ t[m] = results[spots[m]]
    BY <1>1, <1>4
  <2>2. results[spots[m]] \in R /\ results[spots[m]].rec \in K
    BY <1>1, <2>1
  <2> QED BY <2>1, <2>2 DEF R
<1>7. t \in Seq([rec : K, score : Int])
  <2>1. t \in [1 .. Len(t) -> [rec : K, score : Int]]
    BY <1>5, <1>6
  <2> QED BY <1>5, <2>1, ListIsSeq
<1>8. \A r \in K : \E m \in 1 .. Len(t) : t[m].rec = r
  <2> SUFFICES ASSUME NEW i \in I PROVE \E m \in 1 .. Len(t) : t[m].rec = results[i].rec
    OBVIOUS
  <2> QED BY <1>4
<1>9. ASSUME NEW m \in 1 .. Len(t), NEW o \in 1 .. Len(t), m # o PROVE t[m].rec # t[o].rec
  <2>1. m < o \/ o < m
    BY <1>5, <1>9
  <2>2. spots[m] \in 1 .. Len(results) /\ spots[o] \in 1 .. Len(results)
    BY <1>1, <1>4
  <2>3. spots[m] # spots[o]
    BY <1>1, <1>3, <2>1, <2>2
  <2>4. results[spots[m]].rec # results[spots[o]].rec
    BY <1>1, <2>2, <2>3 DEF Complete
  <2> QED BY <1>4, <2>4
<1>10. Complete(t, K)
  BY <1>7, <1>8, <1>9 DEF Complete
<1>11. OwnScores(t, measure)
  BY <1>1, <1>4 DEF OwnScores, Measured
<1>12. K \in SUBSET E
  BY <1>1
<1>13. Ascending(results) => Ascending(t)
  <2> SUFFICES ASSUME Ascending(results), NEW m \in 1 .. Len(t), NEW o \in 1 .. Len(t), m < o
               PROVE  t[m].score =< t[o].score
    BY DEF Ascending
  <2>1. spots[m] \in 1 .. Len(results) /\ spots[o] \in 1 .. Len(results) /\ spots[m] < spots[o]
    BY <1>1, <1>3, <1>4
  <2> QED BY <1>4, <2>1 DEF Ascending
<1> QED BY <1>10, <1>11, <1>12, <1>13 DEF Measured, t

\* What a sorted list has when it is cut.
LEMMA CutResults ==
    ASSUME NEW E, NEW measure, NEW results, Measured(results, E, measure), Ascending(results), NEW n \in Nat,
           NEW cut, cut = Cut(results, n), NEW K, K = {cut[i].rec : i \in DOMAIN cut}
    PROVE  /\ Measured(cut, K, measure) /\ Ascending(cut) /\ K \in SUBSET E
           /\ IsFiniteSet(E) /\ Cardinality(K) = Len(cut) /\ Len(cut) = Lesser(n, Cardinality(E))
           /\ \A r \in K, s \in E \ K : measure[r] =< measure[s]
<1>1. Complete(results, E) /\ Len(results) \in Nat
  BY CompleteFacts DEF Measured
<1>2. /\ Complete(cut, K) /\ K \in SUBSET E
      /\ Len(cut) = IF n =< Len(results) THEN n ELSE Len(results)
      /\ \A i \in 1 .. Len(cut) : i \in 1 .. Len(results) /\ cut[i] = results[i]
  BY <1>1, CompleteCut
<1>3. IsFiniteSet(E) /\ Cardinality(E) = Len(results) /\ Cardinality(K) = Len(cut)
  BY <1>1, <1>2, CompleteIsAsLong
<1>4. Len(cut) = Lesser(n, Cardinality(E))
  BY <1>1, <1>2, <1>3 DEF Lesser
<1>5. OwnScores(cut, measure)
  BY <1>2 DEF OwnScores, Measured
<1>6. Ascending(cut)
  BY <1>2 DEF Ascending
<1>7. ASSUME NEW r \in K, NEW s \in E \ K PROVE measure[r] =< measure[s]
  <2>1. PICK i \in 1 .. Len(cut) : cut[i].rec = r
    BY <1>2 DEF Complete
  <2>2. PICK j \in 1 .. Len(results) : results[j].rec = s
    BY <1>1 DEF Complete
  <2>3. Len(cut) \in Nat /\ DOMAIN cut = 1 .. Len(cut)
    BY <1>2, CompleteFacts
  <2>4. j \notin 1 .. Len(cut)
    BY <1>2, <1>7, <2>2, <2>3
  <2>5. i < j /\ i \in 1 .. Len(results) /\ results[i].rec = r
    BY <1>1, <1>2, <2>1, <2>3, <2>4
  <2>6. results[i].score =< results[j].score
    BY <2>5 DEF Ascending
  <2> QED BY <2>2, <2>5, <2>6 DEF Measured, OwnScores
<1> QED BY <1>2, <1>3, <1>4, <1>5, <1>6, <1>7 DEF Measured

\* So the limit after the threshold keeps the best of what is within it.
LEMMA BestAreCut ==
    ASSUME NEW E, NEW measure, NEW results, Measured(results, E, measure), Ascending(results), NEW n \in Nat
    PROVE  TheBest(Cut(results, n), E, measure, n)
<1> DEFINE cut == Cut(results, n)
           K == {cut[i].rec : i \in DOMAIN cut}
<1>1. /\ Measured(cut, K, measure) /\ Ascending(cut) /\ K \in SUBSET E
      /\ IsFiniteSet(E) /\ Cardinality(K) = Len(cut) /\ Len(cut) = Lesser(n, Cardinality(E))
      /\ \A r \in K, s \in E \ K : measure[r] =< measure[s]
  <2>1. cut = Cut(results, n)
    OBVIOUS
  <2> HIDE DEF cut
  <2> QED BY <2>1, CutResults
<1>2. DOMAIN cut = 1 .. Len(cut)
  <2> HIDE DEF cut, K
  <2> QED BY <1>1, CompleteFacts DEF Measured
<1> HIDE DEF cut
<1> QED BY <1>1, <1>2 DEF TheBest, Measured, OwnScores, Ascending, cut

\* And so does the limit before it: a record within the threshold that the
\* limit left out is behind all that it kept, which are then within it too.
LEMMA BestAreCutFirst ==
    ASSUME NEW E, NEW measure, NEW results, Measured(results, E, measure), Ascending(results), NEW n \in Nat,
           NEW t \in Int
    PROVE  TheBest(Within(Cut(results, n), t), {r \in E : t = NoLimit \/ measure[r] =< t}, measure, n)
<1> DEFINE F == {r \in E : t = NoLimit \/ measure[r] =< t}
           cut == Cut(results, n)
           K == {cut[i].rec : i \in DOMAIN cut}
           I == {i \in DOMAIN cut : t = NoLimit \/ cut[i].score =< t}
           out == Retained(cut, I)
           L == {cut[i].rec : i \in I}
<1>1. /\ Measured(cut, K, measure) /\ Ascending(cut) /\ K \in SUBSET E
      /\ IsFiniteSet(E) /\ Cardinality(K) = Len(cut) /\ Len(cut) = Lesser(n, Cardinality(E))
      /\ \A r \in K, s \in E \ K : measure[r] =< measure[s]
  <2>1. cut = Cut(results, n)
    OBVIOUS
  <2> HIDE DEF cut
  <2> QED BY <2>1, CutResults
<1> HIDE DEF cut
<1>2. DOMAIN cut = 1 .. Len(cut) /\ Len(cut) \in Nat /\ \A i \in 1 .. Len(cut) : cut[i].score = measure[cut[i].rec]
  BY <1>1, CompleteFacts DEF Measured, OwnScores
<1>3. Measured(out, L, measure) /\ Ascending(out)
  <2>1. I \in SUBSET (DOMAIN cut)
    OBVIOUS
  <2> HIDE DEF I, K
  <2> QED BY <1>1, <2>1, RetainedResults
<1>4. Within(cut, t) = out
  BY DEF Within
<1>5. L = K \cap F
  <2>1. L \subseteq K \cap F
    BY <1>1, <1>2
  <2>2. K \cap F \subseteq L
    BY <1>2
  <2> QED BY <2>1, <2>2
<1> HIDE DEF I, K, out, L
<1>6. /\ DOMAIN out = 1 .. Len(out) /\ Len(out) \in Nat /\ Cardinality(L) = Len(out)
      /\ {out[i].rec : i \in DOMAIN out} = L
  BY <1>3, CompleteFacts, CompleteIsAsLong DEF Measured
<1>7. IsFiniteSet(F) /\ IsFiniteSet(K) /\ Cardinality(F) \in Nat /\ Cardinality(E) \in Nat
  <2>1. F \in SUBSET E
    OBVIOUS
  <2> QED BY <1>1, <2>1, FS_Subset, FS_CardinalityType
<1>8. Len(out) = Lesser(n, Cardinality(F)) /\ \A r \in L, s \in F \ L : measure[r] =< measure[s]
  <2>1. CASE F \subseteq K
    <3>1. L = F
      BY <1>5, <2>1
    <3>2. Cardinality(F) =< Cardinality(K)
      BY <1>7, <2>1, FS_Subset
    <3>3. Cardinality(K) =< n
      BY <1>1, <1>7 DEF Lesser
    <3>4. Len(out) = Cardinality(F) /\ Cardinality(F) \in Nat /\ Cardinality(F) =< n
      <4> HIDE DEF F
      <4> QED BY <1>1, <1>6, <1>7, <3>1, <3>2, <3>3
    <3>5. \A c \in Nat : c =< n => Lesser(n, c) = c
      BY DEF Lesser
    <3> HIDE DEF F
    <3> QED BY <3>1, <3>4, <3>5
  <2>2. CASE ~(F \subseteq K)
    <3>1. PICK s \in F : s \notin K
      BY <2>2
    <3>2. s \in E \ K /\ (t # NoLimit => measure[s] =< t /\ measure[s] \in Int)
      <4>1. PICK j \in 1 .. Len(results) : results[j].rec = s /\ results[j].score \in Int
        BY <3>1, CompleteFacts DEF Measured, Complete
      <4> QED BY <3>1, <4>1 DEF Measured, OwnScores
    <3>3. \A r \in K : measure[r] \in Int
      <4> SUFFICES ASSUME NEW r \in K PROVE measure[r] \in Int
        OBVIOUS
      <4>1. PICK i \in 1 .. Len(cut) : cut[i].rec = r /\ cut[i].score \in Int
        BY <1>1, CompleteFacts DEF Measured, Complete
      <4> QED BY <1>2, <4>1
    <3>4. K \subseteq F
      BY <1>1, <3>2, <3>3
    <3>5. L = K
      BY <1>5, <3>4
    <3>6. Cardinality(K) =< Cardinality(F)
      BY <1>7, <3>4, FS_Subset
    <3>7. Cardinality(K) # Cardinality(E)
      <4>1. K # E /\ K \in SUBSET E
        BY <1>1, <3>2
      <4> QED BY <1>1, <4>1, FS_Subset
    <3>8. Cardinality(K) = n
      BY <1>1, <1>7, <3>7 DEF Lesser
    <3>9. Len(out) = Lesser(n, Cardinality(F))
      <4>1. Len(out) = n
        BY <1>6, <3>5, <3>8
      <4>2. \A c \in Nat : n =< c => Lesser(n, c) = n
        BY DEF Lesser
      <4>3. n =< Cardinality(F)
        BY <3>6, <3>8
      <4> QED BY <1>7, <4>1, <4>2, <4>3
    <3>10. \A r \in L, x \in F \ L : measure[r] =< measure[x]
      BY <1>1, <3>5
    <3> QED BY <3>9, <3>10
  <2> QED BY <2>1, <2>2
<1>9. L \subseteq F
  BY <1>5
<1>10. TheBest(out, F, measure, n)
  BY <1>3, <1>6, <1>8, <1>9 DEF TheBest, Measured, OwnScores, Ascending
<1> QED BY <1>4, <1>10 DEF cut

-----------------------------------------------------------------------------
(* Rows.                                                                   *)

\* A row gives back every payload, of any keys and texts, that does not use its
\* reserved keys.
THEOREM EveryRowReadsBack ==
    ASSUME NEW q, q.payload = [k \in DOMAIN q.payload |-> q.payload[k]]
    PROVE  ReadsBack(q)
<1> DEFINE p == q.payload
<1> SUFFICES ASSUME DOMAIN p \cap ReservedKeys(q.kind) = {}
             PROVE  ReadBack(q.kind, "r1", p) = [id |-> "r1", payload |-> p]
  BY DEF ReadsBack
<1>1. p = [k \in DOMAIN p |-> p[k]]
  OBVIOUS
<1> HIDE DEF p
<1>2. CASE q.kind = "qdrant"
  <2> DEFINE row == QdrantRow("r1", p)
             back == Without(row, {"__memoria_id"})
  <2>1. "__memoria_id" \notin DOMAIN p
    BY <1>2 DEF ReservedKeys
  <2>2. /\ DOMAIN row = {"__memoria_id"} \cup DOMAIN p /\ row["__memoria_id"] = "r1"
        /\ \A k \in DOMAIN p : row[k] = p[k]
    BY <2>1 DEF QdrantRow, Row
  <2>3. back = [k \in DOMAIN row \ {"__memoria_id"} |-> row[k]]
    BY DEF Without
  <2> HIDE DEF row
  <2>4. DOMAIN row \ {"__memoria_id"} = DOMAIN p
    BY <2>1, <2>2
  <2>5. back = p
    BY <1>1, <2>2, <2>3, <2>4
  <2>6. ReadBack(q.kind, "r1", p) = QdrantBack(row)
    BY <1>2 DEF ReadBack, row
  <2> QED BY <2>2, <2>5, <2>6 DEF QdrantBack
<1>3. CASE q.kind = "milvus"
  <2> DEFINE row == milvus_row_json("r1", p)
             back == Without(row, {"id", "vector"})
  <2>1. "id" \notin DOMAIN p /\ "vector" \notin DOMAIN p
    BY <1>3 DEF ReservedKeys
  <2>2. /\ DOMAIN row = {"id", "vector"} \cup DOMAIN p /\ row["id"] = "r1"
        /\ \A k \in DOMAIN p : row[k] = p[k]
    BY <2>1 DEF milvus_row_json, Row
  <2>3. back = [k \in DOMAIN row \ {"id", "vector"} |-> row[k]]
    BY DEF Without
  <2> HIDE DEF row
  <2>4. DOMAIN row \ {"id", "vector"} = DOMAIN p
    BY <2>1, <2>2
  <2>5. back = p
    BY <1>1, <2>2, <2>3, <2>4
  <2>6. ReadBack(q.kind, "r1", p) = milvus_entity_row_to_record(row)
    BY <1>3 DEF ReadBack, row
  <2> QED BY <2>2, <2>5, <2>6 DEF milvus_entity_row_to_record
<1>4. CASE q.kind # "qdrant" /\ q.kind # "milvus"
  BY <1>4 DEF ReadBack
<1> QED BY <1>2, <1>3, <1>4

-----------------------------------------------------------------------------
(* Lists.                                                                  *)
LEMMA TakeFacts ==
    ASSUME NEW S, NEW s \in Seq(S), NEW n \in Nat, NEW t, t = Take(s, n)
    PROVE  /\ t \in Seq(S) /\ Len(t) \in Nat /\ Len(t) = Lesser(n, Len(s))
           /\ \A i \in 1 .. Len(t) : i \in 1 .. Len(s) /\ t[i] = s[i]
<1>1. Len(s) \in Nat
  BY LenProperties
<1>2. /\ t \in Seq(S) /\ Len(t) \in Nat
      /\ Len(t) = IF Len(s) =< 0 THEN 0 ELSE Lesser(n, Len(s) - 0)
      /\ \A i \in 1 .. Len(t) : i + 0 \in 1 .. Len(s) /\ t[i] = s[i + 0]
  BY PageFacts DEF Take
<1>3. Len(t) = Lesser(n, Len(s))
  BY <1>1, <1>2 DEF Lesser
<1>4. \A i \in 1 .. Len(t) : i + 0 = i
  OBVIOUS
<1> QED BY <1>2, <1>3, <1>4

LEMMA TakeAll ==
    ASSUME NEW S, NEW s \in Seq(S), NEW n \in Nat, n >= Len(s)
    PROVE  Take(s, n) = s
<1>1. Len(s) \in Nat
  BY LenProperties
<1>2. /\ Take(s, n) \in Seq(S) /\ Len(Take(s, n)) \in Nat /\ Len(Take(s, n)) = Lesser(n, Len(s))
      /\ \A i \in 1 .. Len(Take(s, n)) : i \in 1 .. Len(s) /\ Take(s, n)[i] = s[i]
  BY TakeFacts
<1>3. Lesser(n, Len(s)) = Len(s)
  BY <1>1 DEF Lesser
<1> QED BY <1>2, <1>3, SeqEqual

\* Enough pages are everything.
LEMMA PagesAreAll ==
    ASSUME NEW S, NEW s \in Seq(S), NEW size \in Nat, NEW n \in Nat, n * size >= Len(s)
    PROVE  Pages(s, size, n) = s
<1>1. n * size \in Nat
  OBVIOUS
<1>2. Pages(s, size, n) = Take(s, n * size)
  BY PagesJoin
<1> QED BY <1>1, <1>2, TakeAll

LEMMA DivisionFacts ==
    ASSUME NEW a \in Nat, NEW d \in Nat \ {0}
    PROVE  /\ a \div d \in Nat /\ a % d \in 0 .. (d - 1)
           /\ a = (a \div d) * d + (a % d) /\ (a \div d) * d \in Nat
           /\ ((a \div d) + 1) * d = (a \div d) * d + d
<1>1. /\ a \div d \in Int /\ a % d \in 0 .. (d - 1)
      /\ a = d * (a \div d) + (a % d)
  OBVIOUS
<1>2. 0 \div d =< a \div d /\ 0 \div d = 0
  <2>1. 0 \div d = 0
    OBVIOUS
  <2> QED BY <2>1, DivisionKeepsOrder
<1>3. a \div d \in Nat
  BY <1>1, <1>2
<1> DEFINE x == a \div d
<1> HIDE DEF x
<1>4. \A y \in Nat : y * d \in Nat /\ d * y = y * d /\ (y + 1) * d = y * d + d
  OBVIOUS
<1> QED BY <1>1, <1>3, <1>4

\* A page after the last record is short, and one before it is full.
LEMMA PageLengths ==
    ASSUME NEW S, NEW s \in Seq(S), NEW size \in Nat \ {0}, NEW p \in Nat \ {0}
    PROVE  /\ Len(Page(s, (p - 1) * size, size)) < size => p * size > Len(s)
           /\ p * size =< Len(s) => Len(Page(s, (p - 1) * size, size)) = size
           /\ p * size > Len(s) => Len(Page(s, (p - 1) * size, size)) < size
<1> DEFINE o == (p - 1) * size
<1>1. o \in Nat /\ p * size = o + size /\ p * size \in Nat /\ Len(s) \in Nat
  <2>1. \A y \in Nat : y * size \in Nat /\ (y + 1) * size = y * size + size
    OBVIOUS
  <2>2. p - 1 \in Nat /\ (p - 1) + 1 = p
    OBVIOUS
  <2>3. Len(s) \in Nat
    BY LenProperties
  <2> QED BY <2>1, <2>2, <2>3
<1> HIDE DEF o
<1>2. Len(Page(s, o, size)) = IF Len(s) =< o THEN 0 ELSE Lesser(size, Len(s) - o)
  BY <1>1, PageFacts
<1> DEFINE n == p * size
<1> HIDE DEF n
<1>3. /\ Len(Page(s, o, size)) < size => n > Len(s)
      /\ n =< Len(s) => Len(Page(s, o, size)) = size
      /\ n > Len(s) => Len(Page(s, o, size)) < size
  BY <1>1, <1>2 DEF Lesser, n
<1> QED BY <1>3 DEF o, n

\* The pages of a query up to one that is not full are everything.
LEMMA UnfilledFacts ==
    ASSUME NEW S, NEW s \in Seq(S), NEW size \in Nat \ {0}
    PROVE  Unfilled(s, size) \in Nat \ {0} /\ Unfilled(s, size) * size > Len(s)
<1> DEFINE n == Len(s)
           last == (n \div size) + 1
           Ends(p) == /\ Len(Page(s, (p - 1) * size, size)) < size
                      /\ \A o \in 1..(p - 1) : Len(Page(s, (o - 1) * size, size)) = size
<1>1. n \in Nat
  BY LenProperties
<1>2. /\ n \div size \in Nat /\ n % size \in 0 .. (size - 1)
      /\ n = (n \div size) * size + (n % size) /\ (n \div size) * size \in Nat
      /\ ((n \div size) + 1) * size = (n \div size) * size + size
  <2> HIDE DEF n
  <2> QED BY <1>1, DivisionFacts
<1>3. last \in Nat \ {0} /\ last * size > n /\ (last - 1) * size =< n /\ last - 1 = n \div size
  BY <1>1, <1>2
<1>4. last - 1 =< n
  <2>1. \A y \in Nat : y =< y * size
    OBVIOUS
  <2> QED BY <1>2, <1>3, <2>1
<1>5. last \in 1 .. (n + 1)
  BY <1>1, <1>3, <1>4
<1> HIDE DEF last
<1>6. Ends(last)
  <2>1. Len(Page(s, (last - 1) * size, size)) < size
    BY <1>3, PageLengths
  <2>2. ASSUME NEW o \in 1 .. (last - 1) PROVE Len(Page(s, (o - 1) * size, size)) = size
    <3>1. o \in Nat \ {0} /\ o =< last - 1 /\ last - 1 \in Nat
      BY <1>3
    <3>2. \A x, y \in Nat : x =< y => x * size =< y * size
      OBVIOUS
    <3>3. o * size =< (last - 1) * size
      BY <3>1, <3>2
    <3>4. o * size \in Nat /\ (last - 1) * size \in Nat
      BY <3>1
    <3>5. o * size =< n
      BY <1>1, <1>3, <3>3, <3>4
    <3> QED BY <3>1, <3>5, PageLengths
  <2> QED BY <2>1, <2>2
<1> DEFINE u == CHOOSE p \in 1 .. (n + 1) : Ends(p)
<1>7. u \in 1 .. (n + 1) /\ Ends(u)
  <2> HIDE DEF Ends
  <2> QED BY <1>5, <1>6
<1>8. Unfilled(s, size) = u
  BY DEF Unfilled
<1> HIDE DEF u
<1>9. u \in Nat \ {0} /\ Len(Page(s, (u - 1) * size, size)) < size
  BY <1>7
<1>10. u * size > n
  BY <1>9, PageLengths
<1> QED BY <1>8, <1>9, <1>10

\* A sorted list of numbers.
LEMMA InOrderFacts ==
    ASSUME NEW ids \in Seq(Int), NEW t, t = InOrder(ids)
    PROVE  /\ t \in Seq(Int) /\ Alike(t, ids)
           /\ Distinct(ids) => \A i, j \in 1 .. Len(t) : i < j => t[i] < t[j]
<1> DEFINE J == DOMAIN ids
<1>1. J = 1 .. Len(ids) /\ Len(ids) \in Nat /\ \A i \in J : ids[i] \in Int
  BY LenProperties
<1>2. t = Arranged(ids, J, ids) /\ J \in SUBSET (DOMAIN ids)
  BY DEF InOrder, Sorted
<1>3. Cardinality(J) = Len(ids)
  BY <1>1, FS_Interval
<1> HIDE DEF J
<1>4. t \in Seq(Int) /\ Len(t) = Cardinality(J) /\ \E e : ArrangedAs(t, ids, J, ids, e)
  BY <1>1, <1>2, ArrangedFacts
<1>5. PICK e : ArrangedAs(t, ids, J, ids, e)
  BY <1>4
<1>6. /\ e \in [1 .. Len(t) -> J]
      /\ \A m \in 1 .. Len(t) : t[m] = ids[e[m]]
      /\ \A i \in J : \E m \in 1 .. Len(t) : e[m] = i
      /\ \A m, o \in 1 .. Len(t) : m < o => ComesFirst(ids, e[m], e[o])
  BY <1>5 DEF ArrangedAs
<1>7. DOMAIN t = 1 .. Len(t)
  BY <1>4, LenProperties
<1>8. Elements(t) = Elements(ids)
  <2>1. ASSUME NEW x \in Elements(t) PROVE x \in Elements(ids)
    <3>1. PICK m \in 1 .. Len(t) : x = t[m]
      BY <1>7 DEF Elements
    <3>2. e[m] \in DOMAIN ids /\ x = ids[e[m]]
      BY <1>2, <1>6, <3>1
    <3> QED BY <3>2 DEF Elements
  <2>2. ASSUME NEW x \in Elements(ids) PROVE x \in Elements(t)
    <3>1. PICK i \in J : x = ids[i]
      BY DEF Elements, J
    <3>2. PICK m \in 1 .. Len(t) : e[m] = i
      BY <1>6
    <3>3. x = t[m] /\ m \in DOMAIN t
      BY <1>6, <1>7, <3>1, <3>2
    <3> QED BY <3>3 DEF Elements
  <2> QED BY <2>1, <2>2
<1>9. ASSUME Distinct(ids), NEW i \in 1 .. Len(t), NEW j \in 1 .. Len(t), i < j
      PROVE  t[i] < t[j]
  <2>1. ComesFirst(ids, e[i], e[j]) /\ e[i] \in J /\ e[j] \in J /\ t[i] = ids[e[i]] /\ t[j] = ids[e[j]]
    BY <1>6, <1>9
  <2>2. e[i] \in Nat /\ e[j] \in Nat /\ ids[e[i]] \in Int /\ ids[e[j]] \in Int
    BY <1>1, <2>1
  <2>3. ids[e[i]] = ids[e[j]] => e[i] = e[j]
    BY <1>1, <1>9, <2>1 DEF Distinct
  <2> QED BY <2>1, <2>2, <2>3 DEF ComesFirst
<1> QED BY <1>3, <1>4, <1>8, <1>9 DEF Alike

\* A list that a store may be asked for: the counts fit the numbers of every
\* store.
Listable(q) ==
    /\ q.kind \in StoreKinds
    /\ Held(q.records) /\ Len(q.records) < U32
    /\ q.page \in 1 .. (U32 - 1)

\* The ids of the records of a store, and the pages a reader asks for.
LEMMA IdsFacts ==
    ASSUME NEW q, Listable(q), NEW ids, ids = Ids(q.records)
    PROVE  /\ ids \in Seq(Int) /\ Len(ids) = Len(q.records) /\ Len(ids) \in Nat
           /\ Elements(ids) = {q.records[i].id : i \in DOMAIN q.records}
           /\ Distinct(ids)
<1>1. /\ Len(q.records) \in Nat /\ DOMAIN q.records = 1 .. Len(q.records)
      /\ \A i \in 1 .. Len(q.records) : IsRecord(q.records[i])
  BY LenProperties DEF Listable, Held, Elements
<1>2. \A i \in 1 .. Len(q.records) : q.records[i].id \in Int
  BY <1>1 DEF IsRecord
<1>3. ids \in [1 .. Len(q.records) -> Int] /\ \A i \in 1 .. Len(q.records) : ids[i] = q.records[i].id
  BY <1>1, <1>2 DEF Ids
<1>4. ids \in Seq(Int) /\ Len(ids) = Len(q.records)
  BY <1>1, <1>3, ListIsSeq
<1>5. Elements(ids) = {q.records[i].id : i \in DOMAIN q.records}
  BY <1>1, <1>3 DEF Elements
<1>6. Distinct(ids)
  <2>1. \A i, j \in 1 .. Len(q.records) : i # j => q.records[i].id # q.records[j].id
    BY DEF Listable, Held
  <2> QED BY <1>3, <1>4, <2>1 DEF Distinct
<1> QED BY <1>1, <1>4, <1>5, <1>6

\* What the stores that read everything first have read.
LEMMA AllIsRead ==
    ASSUME NEW q, Listable(q)
    PROVE  /\ Scrolled(q.records) = Ids(q.records)
           /\ Queried(q.records) = Ids(q.records)
<1> DEFINE ids == Ids(q.records)
           n == Len(ids)
           last == (n + PAGE_SIZE - 1) \div PAGE_SIZE
<1>1. ids \in Seq(Int) /\ n = Len(q.records) /\ n \in Nat
  BY IdsFacts
<1> HIDE DEF ids
<1>2. PAGE_SIZE \in Nat \ {0}
  BY StoreReadsAssumption
<1>3. last \in Nat /\ last * PAGE_SIZE >= n
  <2> DEFINE a == n + PAGE_SIZE - 1
  <2>1. a \in Nat
    BY <1>1, <1>2
  <2>2. /\ a \div PAGE_SIZE \in Nat /\ a % PAGE_SIZE \in 0 .. (PAGE_SIZE - 1)
        /\ a = (a \div PAGE_SIZE) * PAGE_SIZE + (a % PAGE_SIZE) /\ (a \div PAGE_SIZE) * PAGE_SIZE \in Nat
    <3> HIDE DEF a
    <3> QED BY <1>2, <2>1, DivisionFacts
  <2> DEFINE m == (a \div PAGE_SIZE) * PAGE_SIZE
             rest == a % PAGE_SIZE
  <2>3. m >= n
    <3>1. m \in Nat /\ rest \in 0 .. (PAGE_SIZE - 1) /\ n + PAGE_SIZE - 1 = m + rest
      BY <2>2
    <3> HIDE DEF m, rest
    <3> QED BY <1>1, <1>2, <3>1
  <2> QED BY <2>2, <2>3
<1>4. Scrolled(q.records) = Pages(ids, PAGE_SIZE, last)
  BY <1>1 DEF Scrolled, ids
<1>5. Unfilled(ids, PAGE_SIZE) \in Nat \ {0} /\ Unfilled(ids, PAGE_SIZE) * PAGE_SIZE > n
  BY <1>1, <1>2, UnfilledFacts
<1>6. Queried(q.records) = Pages(ids, PAGE_SIZE, Unfilled(ids, PAGE_SIZE))
  BY DEF Queried, ids
<1>7. Pages(ids, PAGE_SIZE, last) = ids
  <2> HIDE DEF last
  <2> QED BY <1>1, <1>2, <1>3, PagesAreAll
<1>8. Pages(ids, PAGE_SIZE, Unfilled(ids, PAGE_SIZE)) = ids
  <2> DEFINE u == Unfilled(ids, PAGE_SIZE)
  <2>1. u \in Nat /\ u * PAGE_SIZE >= n
    BY <1>1, <1>2, <1>5
  <2> HIDE DEF u
  <2>2. Pages(ids, PAGE_SIZE, u) = ids
    BY <1>1, <1>2, <2>1, PagesAreAll
  <2> QED BY <2>2 DEF u
<1> QED BY <1>4, <1>6, <1>7, <1>8 DEF ids

\* ListsEverythingOnce, for any store, any records and any size of a page: the
\* pages of every list give every id once.
THEOREM EveryListIsComplete ==
    ASSUME NEW q, Listable(q)
    PROVE  ListsEverythingOnce(q)
<1> DEFINE r == q.records
           ids == Ids(r)
           n == Len(r) \div q.page + 1
           pages == [p \in 1 .. n |-> List(q.kind, r, (p - 1) * q.page, q.page)]
           plain == [p \in 1 .. n |-> Page(ids, (p - 1) * q.page, q.page)]
           sorted == [p \in 1 .. n |-> Page(InOrder(ids), (p - 1) * q.page, q.page)]
<1>1. /\ q.kind \in StoreKinds /\ q.page \in Nat \ {0} /\ q.page < U32 /\ U32 \in Nat
      /\ Len(r) < U32
  BY StoreReadsAssumption DEF Listable, Held
<1>2. /\ ids \in Seq(Int) /\ Len(ids) = Len(r) /\ Len(ids) \in Nat
      /\ Elements(ids) = {r[i].id : i \in DOMAIN r} /\ Distinct(ids)
  BY IdsFacts
<1>3. /\ InOrder(ids) \in Seq(Int) /\ Alike(InOrder(ids), ids)
      /\ \A i, j \in 1 .. Len(InOrder(ids)) : i < j => InOrder(ids)[i] < InOrder(ids)[j]
  <2> HIDE DEF ids
  <2> QED BY <1>2, InOrderFacts
<1> HIDE DEF ids
<1>4. /\ n \in Nat /\ n * q.page >= Len(r)
      /\ \A p \in 1 .. n : (p - 1) * q.page \in Nat /\ (p - 1) * q.page =< Len(r)
  <2> DEFINE L == Len(r)
             d == L \div q.page
  <2>1. L \in Nat
    BY <1>2
  <2>2. /\ d \in Nat /\ L % q.page \in 0 .. (q.page - 1)
        /\ L = d * q.page + (L % q.page) /\ d * q.page \in Nat
        /\ (d + 1) * q.page = d * q.page + q.page
    <3> HIDE DEF L
    <3> QED BY <1>1, <2>1, DivisionFacts
  <2>3. n = d + 1 /\ n \in Nat
    BY <2>2
  <2>4. n * q.page >= L
    <3> DEFINE m == d * q.page
               rest == L % q.page
    <3>1. m \in Nat /\ rest \in 0 .. (q.page - 1) /\ L = m + rest /\ n * q.page = m + q.page
      BY <2>2, <2>3
    <3> HIDE DEF m, rest, n, L
    <3> QED BY <1>1, <2>1, <3>1
  <2>5. ASSUME NEW p \in 1 .. n PROVE (p - 1) * q.page \in Nat /\ (p - 1) * q.page =< L
    <3> DEFINE o == p - 1
    <3>1. o \in Nat /\ o =< d
      BY <2>2, <2>3
    <3>2. d * q.page \in Nat /\ d * q.page =< L
      BY <2>1, <2>2
    <3> HIDE DEF o, d, L, n
    <3>3. \A x, y \in Nat : x =< y => x * q.page =< y * q.page /\ x * q.page \in Nat
      BY <1>1
    <3>4. o * q.page =< d * q.page /\ o * q.page \in Nat
      BY <2>2, <3>1, <3>3
    <3>5. o * q.page \in Nat /\ o * q.page =< L
      BY <2>1, <3>2, <3>4
    <3> QED BY <3>5 DEF o
  <2> QED BY <2>3, <2>4, <2>5
<1> HIDE DEF n
<1>5. FlattenSeq(plain) = ids
  <2>1. FlattenSeq(plain) = Pages(ids, q.page, n)
    BY DEF Pages
  <2> QED BY <1>1, <1>2, <1>4, <2>1, PagesAreAll
<1>6. FlattenSeq(sorted) = InOrder(ids)
  <2>1. FlattenSeq(sorted) = Pages(InOrder(ids), q.page, n)
    BY DEF Pages
  <2>2. n * q.page >= Len(InOrder(ids))
    BY <1>2, <1>3, <1>4 DEF Alike
  <2> QED BY <1>1, <1>3, <1>4, <2>1, <2>2, PagesAreAll
<1> DEFINE all == FlattenSeq(pages)
<1>7. all \in Seq(Int) /\ Alike(all, ids)
      /\ (q.kind \notin {"memory", "chroma"} => all = InOrder(ids))
  <2>1. CASE q.kind = "memory"
    <3>1. pages = plain
      BY <2>1 DEF List, InMemoryList, ids
    <3> QED BY <1>2, <1>5, <2>1, <3>1 DEF Alike
  <2>2. CASE q.kind \in {"sqlite", "postgres", "qdrant", "milvus"}
    <3>1. Scrolled(r) = ids /\ Queried(r) = ids
      BY AllIsRead DEF ids
    <3>2. \A o, l : List(q.kind, r, o, l) = Page(InOrder(ids), o, l)
      BY <2>2, <3>1 DEF List, SqliteList, PostgresList, QdrantList, MilvusList, ids
    <3>3. pages = sorted
      BY <3>2
    <3> QED BY <1>3, <1>6, <3>3
  <2>3. CASE q.kind = "chroma"
    <3>1. ASSUME NEW p \in 1 .. n
          PROVE  /\ Page(ids, (p - 1) * q.page, q.page) \in Seq(Int)
                 /\ InOrder(Page(ids, (p - 1) * q.page, q.page)) \in Seq(Int)
                 /\ Alike(InOrder(Page(ids, (p - 1) * q.page, q.page)), Page(ids, (p - 1) * q.page, q.page))
                 /\ List(q.kind, r, (p - 1) * q.page, q.page) = InOrder(Page(ids, (p - 1) * q.page, q.page))
      <4> DEFINE o == (p - 1) * q.page
                 x == Page(ids, o, q.page)
      <4>1. o \in Nat /\ o < U32
        BY <1>1, <1>2, <1>4
      <4> HIDE DEF o
      <4>2. o % U32 = o /\ q.page % U32 = q.page
        BY <1>1, <4>1
      <4>3. x \in Seq(Int)
        BY <1>1, <1>2, <4>1, PageFacts
      <4>4. List(q.kind, r, o, q.page) = InOrder(x)
        BY <2>3, <4>2 DEF List, ChromaList, ids
      <4> HIDE DEF x
      <4>5. InOrder(x) \in Seq(Int) /\ Alike(InOrder(x), x)
        BY <4>3, InOrderFacts
      <4> QED BY <4>3, <4>4, <4>5 DEF x, o
    <3>2. /\ pages \in [1 .. n -> Seq(Int)] /\ plain \in [1 .. n -> Seq(Int)]
          /\ \A p \in 1 .. n : Alike(pages[p], plain[p])
      BY <3>1
    <3> HIDE DEF pages, plain
    <3>3. FlattenSeq(pages) \in Seq(Int) /\ Alike(FlattenSeq(pages), FlattenSeq(plain))
      BY <1>4, <3>2, FlattenAlike
    <3> QED BY <1>5, <2>3, <3>3
  <2>4. q.kind \in {"memory", "chroma"} \cup {"sqlite", "postgres", "qdrant", "milvus"}
    BY <1>1 DEF StoreKinds
  <2> QED BY <2>1, <2>2, <2>3, <2>4
<1> HIDE DEF all
<1>8. Len(all) = Len(r) /\ {all[i] : i \in DOMAIN all} = {r[i].id : i \in DOMAIN r}
  <2>1. Elements(all) = {all[i] : i \in DOMAIN all}
    BY DEF Elements
  <2> QED BY <1>2, <1>7, <2>1 DEF Alike
<1>9. q.kind \notin {"memory", "chroma"} => \A i, j \in DOMAIN all : i < j => all[i] < all[j]
  <2>1. DOMAIN all = 1 .. Len(all)
    BY <1>7, LenProperties
  <2> QED BY <1>3, <1>7, <2>1
<1> QED BY <1>8, <1>9 DEF ListsEverythingOnce, all, n

-----------------------------------------------------------------------------
(* The searches.                                                           *)
LEMMA RetainedRecords ==
    ASSUME NEW S, NEW records \in Seq(S), Distinct(records), NEW I \in SUBSET (DOMAIN records)
    PROVE  /\ Retained(records, I) \in Seq(S) /\ Distinct(Retained(records, I))
           /\ Elements(Retained(records, I)) = {records[i] : i \in I}
<1> DEFINE t == Retained(records, I)
<1>1. /\ t \in Seq(S) /\ Distinct(t)
      /\ \A m \in 1 .. Len(t) : \E i \in I : t[m] = records[i]
      /\ \A i \in I : \E m \in 1 .. Len(t) : t[m] = records[i]
  BY RetainedKeeps
<1>2. DOMAIN t = 1 .. Len(t)
  BY <1>1, LenProperties
<1> HIDE DEF t
<1>3. Elements(t) = {records[i] : i \in I}
  BY <1>1, <1>2 DEF Elements
<1> QED BY <1>1, <1>3 DEF t

LEMMA HeldFacts ==
    ASSUME NEW records, Held(records)
    PROVE  /\ records \in Seq(Elements(records)) /\ Distinct(records)
           /\ DOMAIN records = 1 .. Len(records) /\ \A r \in Elements(records) : IsRecord(r)
<1>1. records \in Seq(Elements(records)) /\ DOMAIN records = 1 .. Len(records)
  BY LenProperties DEF Held
<1> QED BY <1>1 DEF Held, Distinct

LEMMA MineFacts ==
    ASSUME NEW T, NEW records \in Seq(T), Distinct(records)
    PROVE  /\ Mine(records) \in Seq(T) /\ Distinct(Mine(records))
           /\ Elements(Mine(records)) = {r \in Elements(records) : r.mine}
<1> DEFINE I == {i \in DOMAIN records : records[i].mine}
<1>1. I \in SUBSET (DOMAIN records)
  OBVIOUS
<1>2. {records[i] : i \in I} = {r \in Elements(records) : r.mine}
  BY DEF Elements
<1> HIDE DEF I
<1>3. /\ Retained(records, I) \in Seq(T) /\ Distinct(Retained(records, I))
      /\ Elements(Retained(records, I)) = {records[i] : i \in I}
  BY <1>1, RetainedRecords
<1> QED BY <1>2, <1>3 DEF Mine, I

LEMMA ReachedFacts ==
    ASSUME NEW T, NEW records \in Seq(T), Distinct(records), NEW missed
    PROVE  /\ Reached(records, missed) \in Seq(T) /\ Distinct(Reached(records, missed))
           /\ Elements(Reached(records, missed)) = {r \in Elements(records) : r.id \notin missed}
<1> DEFINE I == {i \in DOMAIN records : records[i].id \notin missed}
<1>1. I \in SUBSET (DOMAIN records)
  OBVIOUS
<1>2. {records[i] : i \in I} = {r \in Elements(records) : r.id \notin missed}
  BY DEF Elements
<1> HIDE DEF I
<1>3. /\ Retained(records, I) \in Seq(T) /\ Distinct(Retained(records, I))
      /\ Elements(Retained(records, I)) = {records[i] : i \in I}
  BY <1>1, RetainedRecords
<1> QED BY <1>2, <1>3 DEF Reached, I

LEMMA AmongFacts ==
    ASSUME NEW T, NEW records \in Seq(T), Distinct(records), NEW S \in SUBSET Elements(records)
    PROVE  /\ Among(records, S) \in Seq(T) /\ Distinct(Among(records, S))
           /\ Elements(Among(records, S)) = S
<1> DEFINE I == {i \in DOMAIN records : records[i] \in S}
<1>1. I \in SUBSET (DOMAIN records)
  OBVIOUS
<1>2. {records[i] : i \in I} = S
  BY DEF Elements
<1> HIDE DEF I
<1>3. /\ Retained(records, I) \in Seq(T) /\ Distinct(Retained(records, I))
      /\ Elements(Retained(records, I)) = {records[i] : i \in I}
  BY <1>1, RetainedRecords
<1> QED BY <1>2, <1>3 DEF Among, I

\* The results within a threshold.
LEMMA WithinFacts ==
    ASSUME NEW E, NEW measure, NEW results, Measured(results, E, measure), NEW t,
           NEW F, F = {r \in E : t = NoLimit \/ measure[r] =< t}
    PROVE  /\ Measured(Within(results, t), F, measure)
           /\ Ascending(results) => Ascending(Within(results, t))
<1> DEFINE I == {i \in DOMAIN results : t = NoLimit \/ results[i].score =< t}
           K == {results[i].rec : i \in I}
<1>1. /\ DOMAIN results = 1 .. Len(results)
      /\ \A i \in 1 .. Len(results) : results[i].rec \in E /\ results[i].score = measure[results[i].rec]
      /\ \A r \in E : \E i \in 1 .. Len(results) : results[i].rec = r
  BY CompleteFacts DEF Measured, Complete, OwnScores
<1>2. K = F
  <2>1. K \subseteq F
    BY <1>1
  <2>2. F \subseteq K
    BY <1>1
  <2> QED BY <2>1, <2>2
<1>3. I \in SUBSET (DOMAIN results)
  OBVIOUS
<1>4. Measured(Retained(results, I), K, measure) /\ (Ascending(results) => Ascending(Retained(results, I)))
  <2> HIDE DEF I
  <2> QED BY <1>3, RetainedResults
<1> QED BY <1>2, <1>4 DEF Within

\* A distance is a number.
LEMMA GapIsInt == \A a, b \in Int : Gap(a, b) \in Int
BY DEF Gap

LEMMA MeasuresAreInt ==
    ASSUME NEW records, \A r \in Elements(records) : IsRecord(r), NEW v \in [{1, 2} -> Int],
           \A r \in Elements(records) : Len(r.vector) = 2
    PROVE  \A r \in Elements(records) :
               Manhattan(records, v)[r] \in Int /\ SquaredL2(records, v)[r] \in Int
<1> SUFFICES ASSUME NEW r \in Elements(records)
             PROVE  Manhattan(records, v)[r] \in Int /\ SquaredL2(records, v)[r] \in Int
  OBVIOUS
<1>1. r.vector \in Seq(Int) /\ Len(r.vector) = 2
  BY DEF IsRecord
<1>2. r.vector[1] \in Int /\ r.vector[2] \in Int /\ v[1] \in Int /\ v[2] \in Int
  BY <1>1
<1> DEFINE a == Gap(r.vector[1], v[1])
           b == Gap(r.vector[2], v[2])
<1>3. a \in Int /\ b \in Int
  BY <1>2, GapIsInt
<1>4. Manhattan(records, v)[r] = a + b /\ SquaredL2(records, v)[r] = a * a + b * b
  BY DEF Manhattan, SquaredL2
<1> HIDE DEF a, b
<1> QED BY <1>3, <1>4

\* A search that a store may be asked for: a vector of two numbers, and a limit
\* that fits the numbers of every store.
Searchable(q) ==
    /\ q.kind \in StoreKinds
    /\ Held(q.records) /\ \A r \in Elements(q.records) : Len(r.vector) = 2
    /\ q.vector \in [{1, 2} -> Int]
    /\ q.top_k \in 1 .. (U32 - 1) /\ q.threshold \in Int

LEMMA NearestFacts ==
    ASSUME NEW q, Searchable(q)
    PROVE  /\ Measured(Nearest(q), {r \in Elements(q.records) : r.mine /\ r.id \notin q.missed}, SquaredL2(q.records, q.vector))
           /\ Ascending(Nearest(q))
<1> DEFINE records == q.records
           reached == Reached(records, q.missed)
           mine == Mine(reached)
           E == {r \in Elements(records) : r.mine /\ r.id \notin q.missed}
           measure == SquaredL2(records, q.vector)
<1>1. /\ records \in Seq(Elements(records)) /\ Distinct(records) /\ \A r \in Elements(records) : IsRecord(r)
  BY HeldFacts DEF Searchable
<1>2. \A r \in Elements(records) : measure[r] \in Int
  BY <1>1, MeasuresAreInt DEF Searchable
<1> HIDE DEF records, measure
<1>3. /\ reached \in Seq(Elements(records)) /\ Distinct(reached)
      /\ Elements(reached) = {r \in Elements(records) : r.id \notin q.missed}
  BY <1>1, ReachedFacts
<1> HIDE DEF reached
<1>4. mine \in Seq(Elements(records)) /\ Distinct(mine) /\ Elements(mine) = E
  <2>1. mine \in Seq(Elements(records)) /\ Distinct(mine) /\ Elements(mine) = {r \in Elements(reached) : r.mine}
    BY <1>3, MineFacts
  <2> QED BY <1>3, <2>1
<1> HIDE DEF mine
<1>5. \A r \in E : measure[r] \in Int
  BY <1>2
<1> HIDE DEF E
<1>6. Measured(Scored(mine, measure), E, measure)
  BY <1>4, <1>5, ScoredFacts
<1>7. Measured(ByScore(Scored(mine, measure)), E, measure) /\ Ascending(ByScore(Scored(mine, measure)))
  BY <1>6, SortedByScore
<1> QED BY <1>7 DEF Nearest, E, mine, reached, measure, records

\* KeepsTheNearest, for any store and any question: each keeps the nearest of
\* the records within the threshold by its own measure.
THEOREM EverySearchKeepsTheNearest ==
    ASSUME NEW q, Searchable(q)
    PROVE  KeepsTheNearest(q)
<1> DEFINE measure == OwnMeasure(q)
           t == OwnThreshold(q)
           E == {r \in Elements(q.records) : r.mine /\ OwnReach(q, r)}
           fits == {r \in E : t = NoLimit \/ measure[r] =< t}
<1>1. /\ q.kind \in StoreKinds /\ q.top_k \in Nat /\ 1 =< q.top_k /\ q.top_k < U32 /\ U32 \in Nat
      /\ q.threshold \in Int /\ MILVUS_MAX_TOP_K \in Nat \ {0}
  BY StoreReadsAssumption DEF Searchable
<1>2. /\ {r \in Elements(q.records) :
             /\ r.mine /\ OwnReach(q, r)
             /\ OwnThreshold(q) = NoLimit \/ OwnMeasure(q)[r] =< OwnThreshold(q)} = fits
      /\ t \in Int
  BY <1>1 DEF OwnThreshold, Square, NoLimit
<1> SUFFICES TheBest(Searched(q), fits, measure, OwnLimit(q))
  BY <1>2 DEF KeepsTheNearest
<1>3. CASE q.kind \in {"memory", "sqlite"}
  <2> DEFINE mine == Mine(q.records)
             scored == Scored(mine, measure)
  <2>1. /\ measure = Manhattan(q.records, q.vector) /\ t = q.threshold /\ OwnLimit(q) = q.top_k
        /\ E = {r \in Elements(q.records) : r.mine}
    BY <1>3 DEF OwnMeasure, OwnThreshold, OwnLimit, OwnReach
  <2>2. /\ q.records \in Seq(Elements(q.records)) /\ Distinct(q.records) /\ \A r \in Elements(q.records) : IsRecord(r)
    BY HeldFacts DEF Searchable
  <2>3. \A r \in E : measure[r] \in Int
    BY <2>1, <2>2, MeasuresAreInt DEF Searchable
  <2>4. mine \in Seq(Elements(q.records)) /\ Distinct(mine) /\ Elements(mine) = E
    BY <2>1, <2>2, MineFacts
  <2>5. Searched(q) = Cut(ByScore(Within(scored, t)), q.top_k)
    BY <1>3, <2>1 DEF Searched, InMemorySearch, SqliteSearch
  <2> HIDE DEF measure, t, E, mine
  <2>6. Measured(scored, E, measure)
    BY <2>3, <2>4, ScoredFacts
  <2> HIDE DEF scored
  <2>7. Measured(Within(scored, t), fits, measure)
    BY <2>6, WithinFacts
  <2> HIDE DEF fits
  <2>8. Measured(ByScore(Within(scored, t)), fits, measure) /\ Ascending(ByScore(Within(scored, t)))
    BY <2>7, SortedByScore
  <2>9. TheBest(Cut(ByScore(Within(scored, t)), q.top_k), fits, measure, q.top_k)
    BY <1>1, <2>8, BestAreCut
  <2> QED BY <2>1, <2>5, <2>9
<1>4. CASE q.kind \notin {"memory", "sqlite"}
  <2>1. measure = SquaredL2(q.records, q.vector) /\ E = {r \in Elements(q.records) : r.mine /\ r.id \notin q.missed}
    BY <1>4 DEF OwnMeasure, OwnReach
  <2>2. Measured(Nearest(q), E, measure) /\ Ascending(Nearest(q))
    BY <2>1, NearestFacts
  <2>3. ASSUME NEW k \in Nat PROVE TheBest(Within(Cut(Nearest(q), k), t), fits, measure, k)
    <3> HIDE DEF measure, t, E
    <3> QED BY <1>2, <2>2, BestAreCutFirst
  <2>4. CASE q.kind = "postgres"
    <3>1. Searched(q) = Cut(Within(Nearest(q), t), q.top_k) /\ OwnLimit(q) = q.top_k
      BY <2>4 DEF Searched, PostgresSearch, OwnThreshold, OwnLimit
    <3> HIDE DEF measure, t, E
    <3>2. Measured(Within(Nearest(q), t), fits, measure) /\ Ascending(Within(Nearest(q), t))
      BY <2>2, WithinFacts
    <3> HIDE DEF fits
    <3>3. TheBest(Cut(Within(Nearest(q), t), q.top_k), fits, measure, q.top_k)
      BY <1>1, <3>2, BestAreCut
    <3> QED BY <3>1, <3>3
  <2>5. CASE q.kind = "qdrant"
    <3>1. Searched(q) = Within(Cut(Nearest(q), q.top_k), t) /\ OwnLimit(q) = q.top_k
      BY <2>5 DEF Searched, QdrantSearch, OwnThreshold, OwnLimit
    <3> HIDE DEF measure, t, E, fits
    <3> QED BY <1>1, <2>3, <3>1
  <2>6. CASE q.kind = "chroma"
    <3>1. q.top_k % U32 = q.top_k
      BY <1>1
    <3>2. Searched(q) = Within(Cut(Nearest(q), q.top_k), t) /\ OwnLimit(q) = q.top_k
      BY <2>6, <3>1 DEF Searched, ChromaSearch, OwnThreshold, OwnLimit
    <3> HIDE DEF measure, t, E, fits
    <3> QED BY <1>1, <2>3, <3>2
  <2>7. CASE q.kind = "milvus"
    <3> DEFINE k == Lesser(q.top_k, MILVUS_MAX_TOP_K)
    <3>1. k \in Nat /\ OwnLimit(q) = k /\ ~(q.top_k < 1)
      BY <1>1, <2>7 DEF OwnLimit, Lesser
    <3>2. Searched(q) = Within(Cut(Nearest(q), k), t)
      BY <2>7, <3>1 DEF Searched, MilvusSearch, OwnThreshold
    <3> HIDE DEF measure, t, E, fits, k
    <3> QED BY <2>3, <3>1, <3>2
  <2> QED BY <1>1, <1>4, <2>4, <2>5, <2>6, <2>7 DEF StoreKinds
<1> QED BY <1>3, <1>4

\* A keyword search of a store that has one.  Postgres keeps the words in the
\* row of the record, so none outlives it.
KeywordSearchable(q) ==
    /\ q.kind \in {"sqlite", "postgres"} /\ (q.kind = "postgres" => q.gone = {})
    /\ Held(q.records) /\ q.top_k \in Nat \ {0}

\* KeepsTheBestTexts, for any texts, words and ranks, and any rows left over.
THEOREM EveryKeywordSearchKeepsTheBest ==
    ASSUME NEW q, KeywordSearchable(q)
    PROVE  KeepsTheBestTexts(q)
<1> DEFINE matching == IF q.kind = "sqlite" THEN fts_match(q) ELSE tsquery_match(q)
           measure == IF q.kind = "sqlite" THEN Bm25(q.records) ELSE CoverRank(q.records)
           fits == {r \in matching : r.mine /\ r.id \notin q.gone}
           among == Among(q.records, matching)
<1>1. /\ q.records \in Seq(Elements(q.records)) /\ Distinct(q.records) /\ \A r \in Elements(q.records) : IsRecord(r)
      /\ q.top_k \in Nat /\ q.top_k # 0
  BY HeldFacts DEF KeywordSearchable
<1>2. matching \in SUBSET Elements(q.records)
  BY DEF fts_match, tsquery_match
<1>3. \A r \in Elements(q.records) : measure[r] \in Int
  <2>1. \A r \in Elements(q.records) : r.bm25 \in Int /\ r.cover \in Int
    BY <1>1 DEF IsRecord
  <2> QED BY <2>1 DEF Bm25, CoverRank
<1> SUFFICES TheBest(KeywordsSearched(q), fits, measure, q.top_k)
  BY DEF KeepsTheBestTexts
<1>4. among \in Seq(Elements(q.records)) /\ Distinct(among) /\ Elements(among) = matching
  <2> HIDE DEF matching
  <2> QED BY <1>1, <1>2, AmongFacts
<1>5. CASE q.kind = "sqlite"
  <2> DEFINE scored == Scored(among, measure)
             ranked == ByScore(scored)
             I == {i \in DOMAIN ranked : ranked[i].rec.mine /\ ranked[i].rec.id \notin q.gone}
             K == {ranked[i].rec : i \in I}
             here == Retained(ranked, I)
  <2>1. KeywordsSearched(q) = Cut(here, q.top_k)
    BY <1>1, <1>5 DEF KeywordsSearched, SqliteKeywords, Here
  <2> HIDE DEF matching, measure, among
  <2>2. Measured(scored, matching, measure)
    BY <1>2, <1>3, <1>4, ScoredFacts
  <2> HIDE DEF scored
  <2>3. Measured(ranked, matching, measure) /\ Ascending(ranked)
    BY <2>2, SortedByScore
  <2> HIDE DEF ranked
  <2>4. I \in SUBSET (DOMAIN ranked)
    OBVIOUS
  <2>5. K = fits
    <3>1. /\ DOMAIN ranked = 1 .. Len(ranked) /\ (\A i \in 1 .. Len(ranked) : ranked[i].rec \in matching)
          /\ \A r \in matching : \E i \in 1 .. Len(ranked) : ranked[i].rec = r
      BY <2>3, CompleteFacts DEF Measured, Complete
    <3>2. K \subseteq fits
      BY <3>1
    <3>3. fits \subseteq K
      BY <3>1
    <3> QED BY <3>2, <3>3
  <2>6. Measured(here, K, measure) /\ Ascending(here)
    <3> HIDE DEF I
    <3> QED BY <2>3, <2>4, RetainedResults
  <2> HIDE DEF I, K, here, fits
  <2>7. TheBest(Cut(here, q.top_k), fits, measure, q.top_k)
    BY <1>1, <2>5, <2>6, BestAreCut
  <2> QED BY <2>1, <2>7
<1>6. CASE q.kind = "postgres"
  <2> DEFINE mine == Mine(among)
             scored == Scored(mine, measure)
  <2>1. KeywordsSearched(q) = Cut(ByScore(scored), q.top_k)
    BY <1>6 DEF KeywordsSearched, PostgresKeywords
  <2>2. q.gone = {}
    BY <1>6 DEF KeywordSearchable
  <2> HIDE DEF matching, measure, among
  <2>3. mine \in Seq(Elements(q.records)) /\ Distinct(mine) /\ Elements(mine) = fits
    <3>1. mine \in Seq(Elements(q.records)) /\ Distinct(mine) /\ Elements(mine) = {r \in Elements(among) : r.mine}
      BY <1>4, MineFacts
    <3> QED BY <1>4, <2>2, <3>1
  <2>4. \A r \in fits : measure[r] \in Int
    BY <1>2, <1>3
  <2> HIDE DEF mine, fits
  <2>5. Measured(scored, fits, measure)
    BY <2>3, <2>4, ScoredFacts
  <2> HIDE DEF scored
  <2>6. Measured(ByScore(scored), fits, measure) /\ Ascending(ByScore(scored))
    BY <2>5, SortedByScore
  <2>7. TheBest(Cut(ByScore(scored), q.top_k), fits, measure, q.top_k)
    BY <1>1, <2>6, BestAreCut
  <2> QED BY <2>1, <2>7
<1> QED BY <1>5, <1>6 DEF KeywordSearchable
=============================================================================
