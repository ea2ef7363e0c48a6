--------------------------- MODULE CodegenProofs ---------------------------
(***************************************************************************)
(* Theorems about Codegen for every set of schemas and of keywords, and    *)
(* types nested to any finite depth.                                       *)
(*                                                                         *)
(* CodegenInv says how far the generator is; at the end it says that the   *)
(* schema's items are all resolved and all of Writes is written. The rest  *)
(* is about Writes: it has a file for each item and an index for each      *)
(* directory, at different paths unless there is a clash, and the indexes  *)
(* declare what lies beside them.                                          *)
(***************************************************************************)
EXTENDS Codegen, SequenceTheorems, FiniteSetTheorems, TLAPS

-----------------------------------------------------------------------------
(* Induction over the naturals, for a set of them.                         *)

LEMMA LeastNat ==
  ASSUME NEW T \in SUBSET Nat, T # {}
  PROVE  \E k \in T : \A j \in T : k <= j
<1> DEFINE R == StrictSubsetOrdering(Nat)
           S == FiniteSubsetsOf(Nat)
           Segments == {1 .. k : k \in T}
<1>1. Segments \subseteq S /\ Segments # {}
  <2>1. \A k \in T : IsFiniteSet(1 .. k) /\ 1 .. k \in SUBSET Nat
    <3> TAKE k \in T
    <3>1. k \in Int /\ 1 \in Int
      OBVIOUS
    <3>2. IsFiniteSet(1 .. k)
      BY <3>1, FS_Interval
    <3> QED BY <3>1, <3>2
  <2> QED BY <2>1 DEF FiniteSubsetsOf
<1>2. IsWellFoundedOn(R, S)
  BY FS_StrictSubsetOrderingWellFounded
<1> HIDE DEF R, S, Segments
<1>3. PICK b \in Segments : \A c \in Segments : <<c, b>> \notin R
  BY <1>1, <1>2, WFMin
<1>4. PICK k \in T : b = 1 .. k
  BY <1>3 DEF Segments
<1>5. ASSUME NEW j \in T PROVE k <= j
  <2>1. 1 .. j \in Segments /\ 1 .. j \in SUBSET Nat /\ 1 .. k \in SUBSET Nat
    BY DEF Segments
  <2>2. <<1 .. j, 1 .. k>> \notin R
    BY <1>3, <1>4, <2>1
  <2>3. ~(1 .. j \subseteq 1 .. k /\ 1 .. j # 1 .. k)
    BY <2>1, <2>2 DEF R, StrictSubsetOrdering
  <2>4. ASSUME j < k PROVE FALSE
    <3>1. k \in 1 .. k /\ k \notin 1 .. j /\ 1 .. j \subseteq 1 .. k
      BY <2>4
    <3> QED BY <3>1, <2>3
  <2> QED BY <2>4
<1> QED BY <1>5

LEMMA SetInduction ==
  ASSUME NEW T, 0 \in T, \A k \in Nat : k \in T => k + 1 \in T
  PROVE  Nat \subseteq T
<1> SUFFICES ASSUME Nat \ T # {} PROVE FALSE
  OBVIOUS
<1>1. PICK k \in Nat \ T : \A j \in Nat \ T : k <= j
  BY LeastNat
<1>2. k - 1 \in Nat /\ ~(k <= k - 1)
  BY <1>1
<1>3. k - 1 \in T
  BY <1>1, <1>2
<1> QED BY <1>1, <1>2, <1>3

-----------------------------------------------------------------------------
(* FlattenSeq, as the library's recursion computes it.                     *)

LEMMA FlattenSteps ==
  ASSUME NEW S, NEW seqs \in Seq(Seq(S)), seqs # <<>>
  PROVE  \E g : /\ g \in [1 .. Len(seqs) -> Seq(S)]
                /\ g[1] = seqs[1]
                /\ \A i \in 2 .. Len(seqs) : g[i] = g[i - 1] \o seqs[i]
                /\ FlattenSeq(seqs) = g[Len(seqs)]
<1> DEFINE n == Len(seqs)
           Solves(g, k) == g = [i \in 1 .. k |-> IF i = 1 THEN seqs[i] ELSE g[i - 1] \o seqs[i]]
           T == {k \in Nat : k <= n => \E g : Solves(g, k)}
           f[i \in 1 .. n] == IF i = 1 THEN seqs[i] ELSE f[i - 1] \o seqs[i]
<1>1. n \in Nat \ {0} /\ \A i \in 1 .. n : seqs[i] \in Seq(S)
  BY EmptySeq, LenProperties
<1>2. 0 \in T
  <2>1. Solves([i \in 1 .. 0 |-> seqs], 0)
    OBVIOUS
  <2> QED BY <2>1
<1>3. ASSUME NEW k \in Nat, k \in T PROVE k + 1 \in T
  <2> SUFFICES ASSUME k + 1 <= n PROVE \E g : Solves(g, k + 1)
    <3> HIDE DEF Solves
    <3> QED OBVIOUS
  <2>1. PICK g : Solves(g, k)
    <3>1. k <= n
      BY <1>1
    <3> HIDE DEF Solves
    <3> QED BY <1>3, <3>1
  <2> DEFINE last == IF k + 1 = 1 THEN seqs[k + 1] ELSE g[k] \o seqs[k + 1]
             h == [i \in 1 .. k + 1 |-> IF i = k + 1 THEN last ELSE g[i]]
  <2>2. \A i \in 1 .. k : h[i] = g[i]
    OBVIOUS
  <2>3. h[k + 1] = last
    OBVIOUS
  <2>4. h = [i \in 1 .. k + 1 |-> h[i]]
    OBVIOUS
  <2> HIDE DEF h
  <2>5. \A i \in 1 .. k + 1 : h[i] = IF i = 1 THEN seqs[i] ELSE h[i - 1] \o seqs[i]
    <3> TAKE i \in 1 .. k + 1
    <3>1. CASE i = k + 1
      BY <2>2, <2>3, <3>1
    <3>2. CASE i # k + 1
      <4>1. i \in 1 .. k /\ (i # 1 => i - 1 \in 1 .. k)
        BY <3>2
      <4>2. g[i] = IF i = 1 THEN seqs[i] ELSE g[i - 1] \o seqs[i]
        BY <2>1, <4>1
      <4> QED BY <2>2, <4>1, <4>2
    <3> QED BY <3>1, <3>2
  <2>6. Solves(h, k + 1)
    BY <2>4, <2>5
  <2> QED BY <2>6
<1>4. \E g : Solves(g, n)
  <2>1. Nat \subseteq T
    <3>1. \A k \in Nat : k \in T => k + 1 \in T
      BY <1>3
    <3> HIDE DEF T
    <3> QED BY <1>2, <3>1, SetInduction
  <2> HIDE DEF Solves
  <2> QED BY <1>1, <2>1
<1>5. Solves(f, n)
  <2>1. f = CHOOSE g : Solves(g, n)
    BY DEF f
  <2> HIDE DEF f, Solves
  <2> QED BY <1>4, <2>1
<1>6. FlattenSeq(seqs) = f[n]
  BY <1>1, Zenon DEF FlattenSeq, f
<1> HIDE DEF f
<1>7. \A i \in 1 .. n : f[i] = IF i = 1 THEN seqs[i] ELSE f[i - 1] \o seqs[i]
  BY <1>5
<1>8. \A i \in 1 .. n : f[i] \in Seq(S)
  <2> DEFINE U == {k \in Nat : k \in 1 .. n => f[k] \in Seq(S)}
  <2>1. 0 \in U
    OBVIOUS
  <2>2. ASSUME NEW k \in Nat, k \in U PROVE k + 1 \in U
    <3> SUFFICES ASSUME k + 1 \in 1 .. n PROVE f[k + 1] \in Seq(S)
      OBVIOUS
    <3>1. CASE k = 0
      BY <1>1, <1>7, <3>1
    <3>2. CASE k # 0
      <4>1. f[k] \in Seq(S) /\ seqs[k + 1] \in Seq(S)
        BY <1>1, <2>2, <3>2
      <4>2. f[k + 1] = f[k] \o seqs[k + 1]
        <5>1. k + 1 \in 1 .. n /\ k + 1 # 1 /\ (k + 1) - 1 = k
          BY <3>2
        <5> QED BY <1>7, <5>1
      <4> QED BY <4>1, <4>2, ConcatProperties
    <3> QED BY <3>1, <3>2
  <2>3. Nat \subseteq U
    <3> HIDE DEF U
    <3> QED BY <2>1, <2>2, SetInduction
  <2> QED BY <2>3
<1>9. f \in [1 .. n -> Seq(S)]
  BY <1>5, <1>8
<1>10. f[1] = seqs[1]
  BY <1>1, <1>7
<1>11. ASSUME NEW i \in 2 .. n PROVE f[i] = f[i - 1] \o seqs[i]
  <2>1. i \in 1 .. n /\ i # 1
    BY <1>1
  <2> QED BY <1>7, <2>1
<1> QED
  BY <1>6, <1>9, <1>10, <1>11

(* A flat list has what the lists in it have.                              *)
LEMMA FlattenRange ==
  ASSUME NEW S, NEW seqs \in Seq(Seq(S))
  PROVE  /\ FlattenSeq(seqs) \in Seq(S)
         /\ Range(FlattenSeq(seqs)) = UNION {Range(seqs[i]) : i \in 1 .. Len(seqs)}
<1>1. CASE seqs = <<>>
  <2>1. Len(seqs) = 0 /\ FlattenSeq(seqs) = <<>>
    BY <1>1, EmptySeq DEF FlattenSeq
  <2>2. <<>> \in Seq(S) /\ Range(<<>>) = {}
    BY EmptySeq DEF Range
  <2> QED BY <2>1, <2>2
<1>2. CASE seqs # <<>>
  <2> DEFINE n == Len(seqs)
  <2>1. n \in Nat \ {0} /\ \A i \in 1 .. n : seqs[i] \in Seq(S)
    BY <1>2, EmptySeq, LenProperties
  <2>2. PICK g : /\ g \in [1 .. n -> Seq(S)]
                 /\ g[1] = seqs[1]
                 /\ \A i \in 2 .. n : g[i] = g[i - 1] \o seqs[i]
                 /\ FlattenSeq(seqs) = g[n]
    BY <1>2, FlattenSteps
  <2> DEFINE T == {k \in Nat : k \in 1 .. n => Range(g[k]) = UNION {Range(seqs[i]) : i \in 1 .. k}}
  <2>3. 0 \in T
    OBVIOUS
  <2>4. ASSUME NEW k \in Nat, k \in T PROVE k + 1 \in T
    <3> SUFFICES ASSUME k + 1 \in 1 .. n
                 PROVE  Range(g[k + 1]) = UNION {Range(seqs[i]) : i \in 1 .. k + 1}
      OBVIOUS
    <3>1. CASE k = 0
      <4>1. 1 .. k + 1 = {1}
        BY <3>1
      <4> QED BY <2>2, <3>1, <4>1
    <3>2. CASE k # 0
      <4>1. g[k + 1] = g[k] \o seqs[k + 1] /\ g[k] \in Seq(S) /\ seqs[k + 1] \in Seq(S)
        <5>1. k + 1 \in 2 .. n /\ (k + 1) - 1 = k /\ k \in 1 .. n
          BY <2>1, <3>2
        <5> QED BY <2>1, <2>2, <5>1
      <4>2. Range(g[k + 1]) = Range(g[k]) \cup Range(seqs[k + 1])
        BY <4>1, RangeConcatenation
      <4>3. Range(g[k]) = UNION {Range(seqs[i]) : i \in 1 .. k}
        BY <2>1, <2>4, <3>2
      <4>4. 1 .. k + 1 = (1 .. k) \cup {k + 1}
        OBVIOUS
      <4> QED BY <4>2, <4>3, <4>4
    <3> QED BY <3>1, <3>2
  <2>5. Nat \subseteq T
    <3> HIDE DEF T
    <3> QED BY <2>3, <2>4, SetInduction
  <2>6. n \in T /\ n \in 1 .. n
    <3> HIDE DEF T
    <3> QED BY <2>1, <2>5
  <2>7. Range(g[n]) = UNION {Range(seqs[i]) : i \in 1 .. n}
    BY <2>6
  <2>8. FlattenSeq(seqs) \in Seq(S)
    BY <2>2, <2>6
  <2> QED BY <2>2, <2>7, <2>8
<1> QED BY <1>1, <1>2

LEMMA InSteps ==
  ASSUME NEW S, NEW items \in Seq(S), NEW module
  PROVE  LET pieces == [i \in DOMAIN items |-> IF items[i].module = module
                                               THEN <<items[i]>> ELSE <<>>] IN
         /\ pieces \in Seq(Seq(S)) /\ Len(pieces) = Len(items)
         /\ In(items, module) = FlattenSeq(pieces)
<1> DEFINE pieces == [i \in DOMAIN items |-> IF items[i].module = module
                                             THEN <<items[i]>> ELSE <<>>]
<1>1. Len(items) \in Nat /\ DOMAIN items = 1 .. Len(items) /\ \A i \in DOMAIN items : items[i] \in S
  BY LenProperties
<1>2. \A i \in DOMAIN items : (IF items[i].module = module THEN <<items[i]>> ELSE <<>>) \in Seq(S)
  BY <1>1
<1>3. pieces \in [1 .. Len(items) -> Seq(S)]
  BY <1>1, <1>2
<1> QED
  BY <1>1, <1>3 DEF In

(* The items of a module are those of the list that are in it.             *)
LEMMA InFacts ==
  ASSUME NEW S, NEW items \in Seq(S), NEW module
  PROVE  /\ In(items, module) \in Seq(S)
         /\ Range(In(items, module)) = {r \in Range(items) : r.module = module}
<1> DEFINE pieces == [i \in DOMAIN items |-> IF items[i].module = module
                                             THEN <<items[i]>> ELSE <<>>]
<1>1. /\ pieces \in Seq(Seq(S)) /\ Len(pieces) = Len(items)
      /\ In(items, module) = FlattenSeq(pieces)
  BY InSteps
<1>2. DOMAIN items = 1 .. Len(items)
  BY LenProperties
<1>3. \A i \in DOMAIN items : Range(pieces[i]) = IF items[i].module = module THEN {items[i]} ELSE {}
  BY DEF Range
<1> HIDE DEF pieces
<1>4. UNION {Range(pieces[i]) : i \in 1 .. Len(pieces)} = {r \in Range(items) : r.module = module}
  <2>1. \A r : r \in Range(items) <=> \E i \in DOMAIN items : r = items[i]
    BY DEF Range
  <2>2. \A r : \A i \in DOMAIN items :
          r \in Range(pieces[i]) <=> items[i].module = module /\ r = items[i]
    BY <1>3
  <2>3. DOMAIN items = 1 .. Len(pieces)
    BY <1>1, <1>2
  <2> DEFINE A == UNION {Range(pieces[i]) : i \in 1 .. Len(pieces)}
             B == {r \in Range(items) : r.module = module}
  <2>4. \A r : r \in A <=> \E i \in DOMAIN items : r \in Range(pieces[i])
    BY <2>3, Zenon
  <2>5. \A r : r \in B <=> \E i \in DOMAIN items : r = items[i] /\ r.module = module
    BY <2>1, Zenon
  <2>6. \A r : r \in A <=> r \in B
    <3> TAKE r
    <3> HIDE DEF A, B
    <3>1. ASSUME r \in A PROVE r \in B
      <4>1. PICK i \in DOMAIN items : r \in Range(pieces[i])
        BY <2>4, <3>1
      <4>2. items[i].module = module /\ r = items[i]
        BY <2>2, <4>1
      <4> QED BY <2>5, <4>2
    <3>2. ASSUME r \in B PROVE r \in A
      <4>1. PICK i \in DOMAIN items : r = items[i] /\ r.module = module
        BY <2>5, <3>2
      <4>2. r \in Range(pieces[i])
        BY <2>2, <4>1
      <4> QED BY <2>4, <4>2
    <3> QED BY <3>1, <3>2
  <2> QED BY <2>6
<1> QED
  BY <1>1, <1>4, FlattenRange

(* A module has no file twice if its part of the list has not.             *)
LEMMA InOnce ==
  ASSUME NEW S, NEW items \in Seq(S), NEW module,
         \A i, j \in DOMAIN items :
           items[i].module = module /\ items[j].module = module
             /\ items[i].file = items[j].file => i = j
  PROVE  \A i, j \in DOMAIN In(items, module) :
           In(items, module)[i].file = In(items, module)[j].file => i = j
<1> DEFINE n == Len(items)
           pieces == [i \in DOMAIN items |-> IF items[i].module = module
                                             THEN <<items[i]>> ELSE <<>>]
<1>1. /\ pieces \in Seq(Seq(S)) /\ Len(pieces) = n
      /\ In(items, module) = FlattenSeq(pieces)
  BY InSteps
<1>2. n \in Nat /\ DOMAIN items = 1 .. n /\ \A i \in DOMAIN items : items[i] \in S
  BY LenProperties
<1>3. \A i \in 1 .. n : pieces[i] = IF items[i].module = module THEN <<items[i]>> ELSE <<>>
  BY <1>2
<1> HIDE DEF pieces
<1>4. CASE pieces = <<>>
  BY <1>1, <1>4, FlattenRange, EmptySeq DEF FlattenSeq
<1>5. CASE pieces # <<>>
  <2>1. PICK g : /\ g \in [1 .. n -> Seq(S)]
                 /\ g[1] = pieces[1]
                 /\ \A i \in 2 .. n : g[i] = g[i - 1] \o pieces[i]
                 /\ FlattenSeq(pieces) = g[n]
    <3>1. Len(pieces) = n /\ pieces \in Seq(Seq(S))
      BY <1>1
    <3>2. \E g : /\ g \in [1 .. Len(pieces) -> Seq(S)]
                 /\ g[1] = pieces[1]
                 /\ \A i \in 2 .. Len(pieces) : g[i] = g[i - 1] \o pieces[i]
                 /\ FlattenSeq(pieces) = g[Len(pieces)]
      BY <1>5, <3>1, FlattenSteps
    <3> QED BY <3>1, <3>2, Zenon
  <2> DEFINE From(s, k) ==
               /\ \A a \in 1 .. Len(s) : \E i \in 1 .. k : s[a] = items[i] /\ items[i].module = module
               /\ \A a, b \in 1 .. Len(s) : s[a].file = s[b].file => a = b
             T == {k \in Nat : k \in 1 .. n => From(g[k], k)}
  <2>2. 0 \in T
    OBVIOUS
  <2>3. ASSUME NEW k \in Nat, k \in T PROVE k + 1 \in T
    <3> SUFFICES ASSUME k + 1 \in 1 .. n PROVE From(g[k + 1], k + 1)
      <4> HIDE DEF From
      <4> QED OBVIOUS
    <3> DEFINE s == g[k]
               t == g[k + 1]
    <3>1. pieces[k + 1] = IF items[k + 1].module = module THEN <<items[k + 1]>> ELSE <<>>
      BY <1>3
    <3>2. CASE k = 0
      BY <2>1, <3>1, <3>2
    <3>3. CASE k # 0
      <4>1. k \in 1 .. n /\ k + 1 \in 2 .. n /\ (k + 1) - 1 = k
        BY <1>2, <3>3
      <4>2. t = s \o pieces[k + 1] /\ s \in Seq(S)
        BY <2>1, <4>1
      <4>3. From(s, k)
        <5> HIDE DEF From
        <5> QED BY <2>3, <4>1
      <4>6. Len(s) \in Nat
        BY <4>2, LenProperties
      <4> HIDE DEF s, t
      <4>4. CASE items[k + 1].module # module
        <5>1. t = s
          BY <3>1, <4>2, <4>4, ConcatEmptySeq
        <5>2. From(s, k + 1)
          BY <4>3
        <5>3. From(t, k + 1)
          BY <5>1, <5>2
        <5> QED BY <5>3 DEF t
      <4>5. CASE items[k + 1].module = module
        <5>1. t = s \o <<items[k + 1]>> /\ <<items[k + 1]>> \in Seq(S)
          BY <1>2, <3>1, <4>2, <4>5
        <5>2. /\ Len(t) = Len(s) + 1
              /\ \A a \in 1 .. Len(s) : t[a] = s[a]
              /\ t[Len(s) + 1] = items[k + 1]
          BY <4>2, <5>1, ConcatProperties
        <5>3. \A a \in 1 .. Len(t) : \E i \in 1 .. k + 1 : t[a] = items[i] /\ items[i].module = module
          BY <4>3, <4>5, <4>6, <5>2
        <5>4. \A a \in 1 .. Len(s) : t[a].file # items[k + 1].file
          <6> SUFFICES ASSUME NEW a \in 1 .. Len(s), t[a].file = items[k + 1].file PROVE FALSE
            OBVIOUS
          <6>1. PICK i \in 1 .. k : s[a] = items[i] /\ items[i].module = module
            BY <4>3
          <6>2. i = k + 1
            BY <1>2, <4>1, <4>5, <5>2, <6>1
          <6> QED BY <6>2
        <5>5. \A a, b \in 1 .. Len(t) : t[a].file = t[b].file => a = b
          <6> SUFFICES ASSUME NEW a \in 1 .. Len(t), NEW b \in 1 .. Len(t), t[a].file = t[b].file
                       PROVE  a = b
            OBVIOUS
          <6>1. CASE a \in 1 .. Len(s) /\ b \in 1 .. Len(s)
            BY <4>3, <5>2, <6>1
          <6>2. CASE a = Len(s) + 1 /\ b = Len(s) + 1
            BY <6>2
          <6>3. CASE a \in 1 .. Len(s) /\ b = Len(s) + 1
            BY <5>2, <5>4, <6>3
          <6>4. CASE a = Len(s) + 1 /\ b \in 1 .. Len(s)
            BY <5>2, <5>4, <6>4
          <6> QED BY <4>6, <5>2, <6>1, <6>2, <6>3, <6>4
        <5>6. From(t, k + 1)
          BY <5>3, <5>5
        <5> QED BY <5>6 DEF t
      <4> QED BY <4>4, <4>5
    <3> QED BY <3>2, <3>3
  <2>4. Nat \subseteq T
    <3> HIDE DEF T
    <3> QED BY <2>2, <2>3, SetInduction
  <2>5. n \in 1 .. n
    BY <1>1, <1>2, <1>5, EmptySeq
  <2>6. From(g[n], n)
    <3> HIDE DEF From
    <3> QED BY <2>4, <2>5
  <2>7. DOMAIN g[n] = 1 .. Len(g[n])
    BY <2>1, <2>5, LenProperties
  <2>8. \A a, b \in DOMAIN g[n] : g[n][a].file = g[n][b].file => a = b
    BY <2>6, <2>7
  <2>9. In(items, module) = g[n]
    BY <1>1, <2>1
  <2> QED BY <2>8, <2>9
<1> QED BY <1>4, <1>5

(* SetToSeq lists a finite set, every element once.                        *)
LEMMA ListOfSet ==
  ASSUME NEW S, IsFiniteSet(S)
  PROVE  /\ SetToSeq(S) \in Seq(S)
         /\ Range(SetToSeq(S)) = S
         /\ \A i, j \in 1 .. Len(SetToSeq(S)) : SetToSeq(S)[i] = SetToSeq(S)[j] => i = j
<1> DEFINE n == Cardinality(S)
           f == SetToSeq(S)
<1>1. n \in Nat /\ \E g \in [1 .. n -> S] : IsInjective(g)
  BY FS_CardinalityType DEF ExistsBijection, Bijection, Injection
<1>2. f \in [1 .. n -> S] /\ IsInjective(f)
  BY <1>1 DEF SetToSeq
<1>3. f \in Seq(S) /\ Len(f) = n /\ DOMAIN f = 1 .. n
  BY <1>1, <1>2
<1>4. f \in Injection(1 .. n, S)
  BY <1>2 DEF Injection
<1>5. IsFiniteSet(1 .. n) /\ Cardinality(1 .. n) = n
  BY <1>1, FS_Interval
<1>6. f \in Surjection(1 .. n, S)
  BY <1>4, <1>5, FS_Injection
<1>7. Range(f) = S
  BY <1>2, <1>3, <1>6 DEF Range, Surjection
<1> QED
  BY <1>2, <1>3, <1>7 DEF IsInjective

-----------------------------------------------------------------------------
(* The two recursions over types are well founded: a type's parts are less *)
(* deep than it is.                                                        *)

LEMMA PartsOfSpecs ==
  ASSUME NEW spec \in Specs
  PROVE  /\ Inner(spec) \in Seq(Specs) /\ Depth[spec] \in Nat
         /\ \A i \in DOMAIN Inner(spec) : /\ Inner(spec)[i] \in Specs
                                          /\ Depth[Inner(spec)[i]] \in Nat
                                          /\ Depth[Inner(spec)[i]] < Depth[spec]
<1>1. Inner(spec) \in Seq(Specs)
  BY CodegenAssumption
<1>2. \A i \in DOMAIN Inner(spec) : Inner(spec)[i] \in Specs
  BY <1>1, LenProperties, ElementOfSeq
<1> QED
  BY <1>1, <1>2, CodegenAssumption

LEMMA DepthInduction ==
  ASSUME NEW T,
         \A spec \in Specs : (\A i \in DOMAIN Inner(spec) : Inner(spec)[i] \in T) => spec \in T
  PROVE  Specs \subseteq T
<1> DEFINE U == {k \in Nat : \A spec \in Specs : Depth[spec] < k => spec \in T}
<1>1. 0 \in U
  BY PartsOfSpecs
<1>2. ASSUME NEW k \in Nat, k \in U PROVE k + 1 \in U
  <2> SUFFICES ASSUME NEW spec \in Specs, Depth[spec] < k + 1 PROVE spec \in T
    OBVIOUS
  <2>1. \A i \in DOMAIN Inner(spec) : Inner(spec)[i] \in Specs /\ Depth[Inner(spec)[i]] < k
    BY PartsOfSpecs
  <2>2. \A i \in DOMAIN Inner(spec) : Inner(spec)[i] \in T
    BY <1>2, <2>1
  <2> QED BY <2>2
<1>3. Nat \subseteq U
  <2> HIDE DEF U
  <2> QED BY <1>1, <1>2, SetInduction
<1> SUFFICES ASSUME NEW spec \in Specs PROVE spec \in T
  OBVIOUS
<1>4. Depth[spec] + 1 \in Nat /\ Depth[spec] < Depth[spec] + 1
  BY PartsOfSpecs
<1> QED BY <1>3, <1>4

(* What a table of resolutions gives for the parts of a type.              *)
Of(g, spec) == [i \in DOMAIN Inner(spec) |-> g[Inner(spec)[i]]]

(* A table that is right for the types less deep than k.                   *)
Resolves(g, k) == \A s \in Specs : Depth[s] < k => g[s] = Resolution(s, Of(g, s))

LEMMA ResolvesAgree ==
  ASSUME NEW g, NEW h, NEW k \in Nat, Resolves(g, k), Resolves(h, k),
         NEW s \in Specs, Depth[s] < k
  PROVE  g[s] = h[s]
<1> DEFINE T == {t \in Specs : Depth[t] < k => g[t] = h[t]}
<1>1. ASSUME NEW t \in Specs, \A i \in DOMAIN Inner(t) : Inner(t)[i] \in T
      PROVE  t \in T
  <2> SUFFICES ASSUME Depth[t] < k PROVE g[t] = h[t]
    OBVIOUS
  <2>1. ASSUME NEW i \in DOMAIN Inner(t) PROVE g[Inner(t)[i]] = h[Inner(t)[i]]
    <3>1. Inner(t)[i] \in T
      BY <1>1
    <3>2. Depth[Inner(t)[i]] < k
      BY PartsOfSpecs
    <3> QED BY <3>1, <3>2
  <2>2. Of(g, t) = Of(h, t)
    BY <2>1 DEF Of
  <2> QED BY <2>2 DEF Resolves
<1>2. Specs \subseteq T
  <2> HIDE DEF T
  <2> QED BY <1>1, DepthInduction
<1> QED BY <1>2

LEMMA ResolvesExist ==
  ASSUME NEW k \in Nat
  PROVE  \E g : Resolves(g, k)
<1> DEFINE T == {n \in Nat : \E g : Resolves(g, n)}
<1>1. 0 \in T
  <2>1. Resolves(Depth, 0)
    BY PartsOfSpecs DEF Resolves
  <2> QED BY <2>1
<1>2. ASSUME NEW n \in Nat, n \in T PROVE n + 1 \in T
  <2>1. PICK g : Resolves(g, n)
    BY <1>2
  <2> DEFINE h == [s \in Specs |-> Resolution(s, Of(g, s))]
  <2>2. \A s \in Specs : h[s] = Resolution(s, Of(g, s))
    OBVIOUS
  <2> HIDE DEF h
  <2>3. ASSUME NEW s \in Specs, Depth[s] < n + 1 PROVE h[s] = Resolution(s, Of(h, s))
    <3>1. \A i \in DOMAIN Inner(s) : Inner(s)[i] \in Specs /\ Depth[Inner(s)[i]] < n
      BY <2>3, PartsOfSpecs
    <3>2. \A i \in DOMAIN Inner(s) : h[Inner(s)[i]] = g[Inner(s)[i]]
      BY <2>1, <2>2, <3>1 DEF Resolves
    <3>3. Of(h, s) = Of(g, s)
      BY <3>2 DEF Of
    <3> QED BY <2>2, <3>3
  <2>4. Resolves(h, n + 1)
    BY <2>3 DEF Resolves
  <2> QED BY <2>4
<1>3. Nat \subseteq T
  <2> HIDE DEF T
  <2> QED BY <1>1, <1>2, SetInduction
<1> QED BY <1>3

LEMMA ResolveTypeEquation ==
  ASSUME NEW spec \in Specs
  PROVE  ResolveType[spec] = Resolution(spec, Of(ResolveType, spec))
<1> DEFINE G(s) == CHOOSE g : Resolves(g, Depth[s] + 1)
           f == [s \in Specs |-> G(s)[s]]
           Eq(g) == g = [s \in Specs |-> Resolution(s, Of(g, s))]
<1>1. ASSUME NEW s \in Specs PROVE Resolves(G(s), Depth[s] + 1)
  <2>1. \E g : Resolves(g, Depth[s] + 1)
    BY PartsOfSpecs, ResolvesExist
  <2> QED BY <2>1
<1> HIDE DEF G
<1>2. ASSUME NEW s \in Specs PROVE f[s] = Resolution(s, Of(f, s))
  <2>1. G(s)[s] = Resolution(s, Of(G(s), s))
    BY <1>1, PartsOfSpecs DEF Resolves
  <2>2. ASSUME NEW i \in DOMAIN Inner(s) PROVE f[Inner(s)[i]] = G(s)[Inner(s)[i]]
    <3> DEFINE t == Inner(s)[i]
    <3>1. /\ t \in Specs /\ Depth[t] \in Nat /\ Depth[s] \in Nat /\ Depth[t] < Depth[s]
      BY PartsOfSpecs
    <3> HIDE DEF t
    <3>2. Resolves(G(t), Depth[t] + 1) /\ Resolves(G(s), Depth[t] + 1)
      <4>1. Resolves(G(s), Depth[s] + 1)
        BY <1>1
      <4>2. \A r \in Specs : Depth[r] < Depth[t] + 1 => Depth[r] < Depth[s] + 1
        BY <3>1, PartsOfSpecs
      <4>3. Resolves(G(s), Depth[t] + 1)
        BY <4>1, <4>2 DEF Resolves
      <4> QED BY <1>1, <3>1, <4>3
    <3>3. G(t)[t] = G(s)[t]
      BY <3>1, <3>2, ResolvesAgree
    <3>4. f[t] = G(t)[t]
      BY <3>1
    <3> QED BY <3>3, <3>4 DEF t
  <2>3. Of(f, s) = Of(G(s), s)
    BY <2>2 DEF Of
  <2> QED BY <2>1, <2>3
<1>3. Eq(f)
  BY <1>2
<1>4. Eq(ResolveType)
  <2>1. ResolveType = CHOOSE g : Eq(g)
    BY DEF ResolveType, Of
  <2> HIDE DEF Eq, f
  <2> QED BY <1>3, <2>1
<1> QED
  BY <1>4

(* The parts of a type are the least set that has it and, with a type, the *)
(* types it is made of.                                                    *)
LEMMA PartsEquation ==
  ASSUME NEW spec \in Specs
  PROVE  Parts[spec] = {spec} \cup UNION {Parts[Inner(spec)[i]] : i \in DOMAIN Inner(spec)}
<1> DEFINE Closed(C) == \A q \in C : \A i \in DOMAIN Inner(q) : Inner(q)[i] \in C
           Least(s) == {p \in Specs : \A C \in SUBSET Specs : s \in C /\ Closed(C) => p \in C}
           f == [s \in Specs |-> Least(s)]
           Eq(g) == g = [s \in Specs |->
                           {s} \cup UNION {g[Inner(s)[i]] : i \in DOMAIN Inner(s)}]
<1>1. ASSUME NEW s \in Specs
      PROVE  Least(s) = {s} \cup UNION {Least(Inner(s)[i]) : i \in DOMAIN Inner(s)}
  <2> DEFINE R == {s} \cup UNION {Least(Inner(s)[i]) : i \in DOMAIN Inner(s)}
  <2>1. \A q \in R : q = s \/ \E i \in DOMAIN Inner(s) : q \in Least(Inner(s)[i])
    OBVIOUS
  <2>2. \A i \in DOMAIN Inner(s) : \A q \in Least(Inner(s)[i]) : q \in R
    OBVIOUS
  <2>3. R \in SUBSET Specs /\ s \in R
    OBVIOUS
  <2> HIDE DEF R
  <2>4. ASSUME NEW q \in R, NEW j \in DOMAIN Inner(q) PROVE Inner(q)[j] \in R
    <3>1. q \in Specs /\ Inner(q)[j] \in Specs
      BY <2>3, PartsOfSpecs
    <3>2. CASE q = s
      <4>1. Inner(q)[j] \in Least(Inner(q)[j])
        BY <3>1
      <4> QED BY <2>2, <3>2, <4>1
    <3>3. CASE q # s
      <4>1. PICK i \in DOMAIN Inner(s) : q \in Least(Inner(s)[i])
        BY <2>1, <3>3
      <4>2. Inner(q)[j] \in Least(Inner(s)[i])
        BY <3>1, <4>1
      <4> QED BY <2>2, <4>2
    <3> QED BY <3>2, <3>3
  <2>5. Closed(R)
    BY <2>4
  <2>6. Least(s) \subseteq R
    BY <2>3, <2>5
  <2>7. R \subseteq Least(s)
    <3>1. s \in Least(s)
      OBVIOUS
    <3>2. \A i \in DOMAIN Inner(s) : Least(Inner(s)[i]) \subseteq Least(s)
      OBVIOUS
    <3> HIDE DEF Least
    <3> QED BY <2>1, <3>1, <3>2
  <2> QED BY <2>6, <2>7 DEF R
<1>2. Eq(f)
  <2>1. \A s \in Specs : \A i \in DOMAIN Inner(s) : f[Inner(s)[i]] = Least(Inner(s)[i])
    BY PartsOfSpecs
  <2>2. \A s \in Specs : f[s] = Least(s)
    OBVIOUS
  <2>3. f = [s \in Specs |-> f[s]]
    OBVIOUS
  <2> HIDE DEF f, Least
  <2>4. ASSUME NEW s \in Specs
        PROVE  f[s] = {s} \cup UNION {f[Inner(s)[i]] : i \in DOMAIN Inner(s)}
    <3>1. {f[Inner(s)[i]] : i \in DOMAIN Inner(s)} = {Least(Inner(s)[i]) : i \in DOMAIN Inner(s)}
      BY <2>1
    <3> QED BY <1>1, <2>2, <3>1
  <2> QED BY <2>3, <2>4
<1>3. Eq(Parts)
  <2>1. Parts = CHOOSE g : Eq(g)
    BY DEF Parts
  <2> HIDE DEF Eq, f
  <2> QED BY <1>2, <2>1
<1> QED
  BY <1>3

-----------------------------------------------------------------------------
(* What types resolve to.                                                  *)

AllUnions == {Union(spec, Variants(spec)) : spec \in Specs}

LEMMA ResolveTypeSteps ==
  ASSUME NEW spec \in Specs
  PROVE  /\ ResolveType[spec].unions = Registered(spec, Variants(spec))
         /\ ResolveType[spec].rust = RustType(spec, Variants(spec))
         /\ Registered(spec, Variants(spec)) =
              FlattenSeq([i \in DOMAIN Inner(spec) |-> ResolveType[Inner(spec)[i]].unions])
              \o IF spec.kind = "oneOf" THEN <<Union(spec, Variants(spec))>> ELSE <<>>
<1>1. ResolveType[spec] = Resolution(spec, Variants(spec))
  BY ResolveTypeEquation DEF Of, Variants
<1>2. [i \in DOMAIN Variants(spec) |-> Variants(spec)[i].unions]
        = [i \in DOMAIN Inner(spec) |-> ResolveType[Inner(spec)[i]].unions]
  BY DEF Variants
<1>3. /\ ResolveType[spec].unions = Registered(spec, Variants(spec))
      /\ ResolveType[spec].rust = RustType(spec, Variants(spec))
  BY <1>1 DEF Resolution
<1>4. Registered(spec, Variants(spec)) =
        FlattenSeq([i \in DOMAIN Inner(spec) |-> ResolveType[Inner(spec)[i]].unions])
        \o IF spec.kind = "oneOf" THEN <<Union(spec, Variants(spec))>> ELSE <<>>
  <2> DEFINE of == [i \in DOMAIN Variants(spec) |-> Variants(spec)[i].unions]
  <2>1. Registered(spec, Variants(spec)) =
          FlattenSeq(of) \o IF spec.kind = "oneOf" THEN <<Union(spec, Variants(spec))>> ELSE <<>>
    BY Zenon DEF Registered
  <2> HIDE DEF of
  <2> QED BY <1>2, <2>1 DEF of
<1> QED
  BY <1>3, <1>4

LEMMA UnionsTyped ==
  ASSUME NEW spec \in Specs
  PROVE  /\ ResolveType[spec].unions \in Seq(AllUnions)
         /\ [i \in DOMAIN Inner(spec) |-> ResolveType[Inner(spec)[i]].unions] \in Seq(Seq(AllUnions))
         /\ Len([i \in DOMAIN Inner(spec) |-> ResolveType[Inner(spec)[i]].unions]) = Len(Inner(spec))
<1> DEFINE T == {s \in Specs : ResolveType[s].unions \in Seq(AllUnions)}
           lists(s) == [i \in DOMAIN Inner(s) |-> ResolveType[Inner(s)[i]].unions]
<1>1. ASSUME NEW s \in Specs, \A i \in DOMAIN Inner(s) : Inner(s)[i] \in T
      PROVE  lists(s) \in Seq(Seq(AllUnions)) /\ Len(lists(s)) = Len(Inner(s))
  <2>1. Len(Inner(s)) \in Nat /\ DOMAIN Inner(s) = 1 .. Len(Inner(s))
    BY PartsOfSpecs, LenProperties
  <2>2. \A i \in DOMAIN Inner(s) : ResolveType[Inner(s)[i]].unions \in Seq(AllUnions)
    BY <1>1
  <2> QED BY <2>1, <2>2
<1>2. ASSUME NEW s \in Specs, \A i \in DOMAIN Inner(s) : Inner(s)[i] \in T
      PROVE  s \in T
  <2>1. FlattenSeq(lists(s)) \in Seq(AllUnions)
    BY <1>1, <1>2, FlattenRange
  <2>2. Union(s, Variants(s)) \in AllUnions
    BY DEF AllUnions
  <2>3. (IF s.kind = "oneOf" THEN <<Union(s, Variants(s))>> ELSE <<>>) \in Seq(AllUnions)
    BY <2>2, EmptySeq
  <2>4. ResolveType[s].unions
          = FlattenSeq(lists(s)) \o IF s.kind = "oneOf" THEN <<Union(s, Variants(s))>> ELSE <<>>
    BY ResolveTypeSteps
  <2>5. ResolveType[s].unions \in Seq(AllUnions)
    <3> HIDE DEF lists
    <3> QED BY <2>1, <2>3, <2>4, ConcatProperties
  <2> QED BY <2>5
<1>3. Specs \subseteq T
  <2> HIDE DEF T
  <2> QED BY <1>2, DepthInduction
<1> QED
  BY <1>1, <1>3, PartsOfSpecs

(* A type registers the unions of its parts and, if it is one, itself.     *)
LEMMA UnionsOfParts ==
  ASSUME NEW spec \in Specs
  PROVE  /\ spec.kind = "oneOf" => Union(spec, Variants(spec)) \in Range(ResolveType[spec].unions)
         /\ \A i \in DOMAIN Inner(spec) :
              Range(ResolveType[Inner(spec)[i]].unions) \subseteq Range(ResolveType[spec].unions)
<1> DEFINE lists == [i \in DOMAIN Inner(spec) |-> ResolveType[Inner(spec)[i]].unions]
           own == IF spec.kind = "oneOf" THEN <<Union(spec, Variants(spec))>> ELSE <<>>
<1>1. lists \in Seq(Seq(AllUnions)) /\ Len(lists) = Len(Inner(spec))
  BY UnionsTyped
<1>2. Union(spec, Variants(spec)) \in AllUnions
  BY DEF AllUnions
<1>3. own \in Seq(AllUnions)
  BY <1>2, EmptySeq
<1>4. ResolveType[spec].unions = FlattenSeq(lists) \o own
  BY ResolveTypeSteps
<1>5. DOMAIN Inner(spec) = 1 .. Len(lists)
  BY <1>1, PartsOfSpecs, LenProperties
<1>6. \A i \in DOMAIN Inner(spec) : lists[i] = ResolveType[Inner(spec)[i]].unions
  OBVIOUS
<1>7. spec.kind = "oneOf" => Union(spec, Variants(spec)) \in Range(own)
  BY DEF Range
<1> HIDE DEF lists, own
<1>8. /\ FlattenSeq(lists) \in Seq(AllUnions)
      /\ Range(FlattenSeq(lists)) = UNION {Range(lists[i]) : i \in 1 .. Len(lists)}
  BY <1>1, FlattenRange
<1>9. Range(ResolveType[spec].unions) = Range(FlattenSeq(lists)) \cup Range(own)
  BY <1>3, <1>4, <1>8, RangeConcatenation
<1> QED
  BY <1>5, <1>6, <1>7, <1>8, <1>9

(* Every union among the parts of a type is registered.                    *)
LEMMA PartsRegistered ==
  ASSUME NEW spec \in Specs, NEW part \in Parts[spec]
  PROVE  /\ part \in Specs
         /\ part.kind = "oneOf" => Union(part, Variants(part)) \in Range(ResolveType[spec].unions)
<1> DEFINE T == {s \in Specs : \A p \in Parts[s] :
                   /\ p \in Specs
                   /\ p.kind = "oneOf" => Union(p, Variants(p)) \in Range(ResolveType[s].unions)}
<1>1. ASSUME NEW s \in Specs, \A i \in DOMAIN Inner(s) : Inner(s)[i] \in T
      PROVE  s \in T
  <2> SUFFICES ASSUME NEW p \in Parts[s]
               PROVE  /\ p \in Specs
                      /\ p.kind = "oneOf" => Union(p, Variants(p)) \in Range(ResolveType[s].unions)
    OBVIOUS
  <2>1. CASE p = s
    BY <2>1, UnionsOfParts
  <2>2. CASE p # s
    <3>1. PICK i \in DOMAIN Inner(s) : p \in Parts[Inner(s)[i]]
      BY <2>2, PartsEquation
    <3>2. Inner(s)[i] \in T
      BY <1>1
    <3> QED BY <3>1, <3>2, UnionsOfParts
  <2> QED BY <2>1, <2>2
<1>2. Specs \subseteq T
  <2> HIDE DEF T
  <2> QED BY <1>1, DepthInduction
<1> QED
  BY <1>2

LEMMA UnionShape ==
  ASSUME NEW u \in AllUnions
  PROVE  u.kind = "unions" /\ u.module = <<>> /\ u.file = Snake(u.name)
BY DEF AllUnions, Union

(* The unions of an item are those of its fields' types.                   *)
LEMMA FieldUnionsFacts ==
  ASSUME NEW item \in Item
  PROVE  /\ FieldUnions(item) \in Seq(AllUnions)
         /\ \A i \in DOMAIN item.fields :
              /\ item.fields[i] \in Specs
              /\ Range(ResolveType[item.fields[i]].unions) \subseteq Range(FieldUnions(item))
<1> DEFINE lists == [i \in DOMAIN item.fields |-> ResolveType[item.fields[i]].unions]
<1>1. item.fields \in Seq(Specs)
  BY DEF Item
<1>2. /\ Len(item.fields) \in Nat /\ DOMAIN item.fields = 1 .. Len(item.fields)
      /\ \A i \in DOMAIN item.fields : item.fields[i] \in Specs
  BY <1>1, LenProperties, ElementOfSeq
<1>3. \A i \in DOMAIN item.fields : ResolveType[item.fields[i]].unions \in Seq(AllUnions)
  BY <1>2, UnionsTyped
<1>4. lists \in Seq(Seq(AllUnions)) /\ Len(lists) = Len(item.fields)
  BY <1>2, <1>3
<1>5. \A i \in DOMAIN item.fields : lists[i] = ResolveType[item.fields[i]].unions
  OBVIOUS
<1>6. FieldUnions(item) = FlattenSeq(lists)
  BY Zenon DEF FieldUnions
<1> HIDE DEF lists
<1>7. /\ FieldUnions(item) \in Seq(AllUnions)
      /\ Range(FieldUnions(item)) = UNION {Range(lists[i]) : i \in 1 .. Len(lists)}
  BY <1>4, <1>6, FlattenRange
<1> QED
  BY <1>2, <1>4, <1>5, <1>7

(* After new unions are registered every name they have is taken, by one   *)
(* of them if none had it.                                                 *)
LEMMA InsertUnionsFacts ==
  ASSUME NEW map, NEW S, NEW new \in Seq(S)
  PROVE  /\ map \subseteq InsertUnions(map, new)
         /\ InsertUnions(map, new) \subseteq map \cup Range(new)
         /\ IsFiniteSet(map) => IsFiniteSet(InsertUnions(map, new))
         /\ \A i \in DOMAIN new : \E v \in InsertUnions(map, new) : v.name = new[i].name
<1>1. Len(new) \in Nat /\ DOMAIN new = 1 .. Len(new)
  BY LenProperties
<1>2. map \subseteq InsertUnions(map, new)
  BY DEF InsertUnions
<1>3. InsertUnions(map, new) \subseteq map \cup Range(new)
  BY DEF InsertUnions, Range
<1>4. ASSUME IsFiniteSet(map) PROVE IsFiniteSet(InsertUnions(map, new))
  <2>1. IsFiniteSet(DOMAIN new)
    BY <1>1, FS_Interval
  <2>2. IsFiniteSet(Range(new))
    <3>1. Range(new) = {new[i] : i \in DOMAIN new}
      BY DEF Range
    <3>2. new \in Surjection(DOMAIN new, Range(new))
      BY <3>1 DEF Surjection
    <3> QED BY <2>1, <3>2, FS_Surjection
  <2>3. IsFiniteSet(map \cup Range(new))
    BY <1>4, <2>2, FS_Union
  <2> QED BY <1>3, <2>3, FS_Subset
<1>5. ASSUME NEW i \in DOMAIN new
      PROVE  \E v \in InsertUnions(map, new) : v.name = new[i].name
  <2>1. CASE \E v \in map : v.name = new[i].name
    BY <1>2, <2>1
  <2>2. CASE \A v \in map : v.name # new[i].name
    <3> DEFINE Same == {j \in DOMAIN new : new[j].name = new[i].name}
    <3>1. Same \in SUBSET Nat /\ Same # {}
      BY <1>1
    <3>2. PICK k \in Same : \A j \in Same : k <= j
      BY <3>1, LeastNat
    <3>3. \A j \in 1 .. (k - 1) : new[j].name # new[k].name
      BY <1>1, <3>2
    <3>4. new[k] \in InsertUnions(map, new)
      BY <2>2, <3>2, <3>3 DEF InsertUnions
    <3> QED BY <3>2, <3>4
  <2> QED BY <2>1, <2>2
<1> QED BY <1>2, <1>3, <1>4, <1>5

-----------------------------------------------------------------------------
(* What is resolved, as far as the lists are read.                         *)

Phases == Lists \cup {"emit", "failed", "done"}

Seen(list) ==
  IF at = list THEN 1 .. (next - 1)
  ELSE IF at = "types" \/ (at = "resources" /\ list = "functions") THEN {}
  ELSE 1 .. Len(schema[list])

Chosen(list) == {k \in Seen(list) : k \in 1 .. Len(schema[list]) /\ Taken(schema[list][k])}

AllItems == {ResolveItem(list, item) : list \in Lists, item \in Item}

Typed ==
  /\ schema \in Schemas /\ at \in Phases /\ next \in Nat \ {0}
  /\ resolved \in [Lists -> Seq(AllItems)]
  /\ IsFiniteSet(unions)

(* An item is resolved for what was read and is to be taken, and no other. *)
ItemsResolved ==
  /\ \A list \in Lists : \A i \in 1 .. Len(resolved[list]) :
       \E k \in Chosen(list) : resolved[list][i] = ResolveItem(list, schema[list][k])
  /\ \A list \in Lists : \A k \in Chosen(list) :
       \E i \in 1 .. Len(resolved[list]) : resolved[list][i] = ResolveItem(list, schema[list][k])

(* Two items of a list have one path only if the schema repeats it.        *)
OnePathEach ==
  ~Repeated =>
    \A list \in Lists : \A i, j \in 1 .. Len(resolved[list]) :
      PathOf(resolved[list][i]) = PathOf(resolved[list][j]) => i = j

(* A union is registered for each name that was needed, and no other.      *)
UnionsResolved ==
  /\ \A u \in unions : \E list \in Lists : \E k \in Chosen(list) :
       u \in Range(FieldUnions(schema[list][k]))
  /\ \A list \in Lists : \A k \in Chosen(list) : \A u \in Range(FieldUnions(schema[list][k])) :
       \E v \in unions : v.name = u.name

(* The files are the writes so far, the last of each path.                 *)
FilesWritten ==
  /\ at \in Lists => files = {}
  /\ at \notin Lists =>
       /\ \A i \in 1 .. (next - 1) : i <= Len(Writes)
       /\ \A f \in files : \E i \in 1 .. (next - 1) : f = Writes[i]
       /\ \A i \in 1 .. (next - 1) : \E f \in files : f[1] = Writes[i][1]
  /\ at = "done" => next > Len(Writes)

CodegenInv ==
  Typed /\ ItemsResolved /\ OnePathEach /\ UnionsResolved /\ FilesWritten

LEMMA SchemaTyped ==
  ASSUME schema \in Schemas, NEW list \in Lists
  PROVE  /\ Len(schema[list]) \in Nat /\ DOMAIN schema[list] = 1 .. Len(schema[list])
         /\ \A k \in 1 .. Len(schema[list]) : schema[list][k] \in Item
<1>1. schema[list] \in Seq(Item)
  BY CodegenAssumption
<1> QED BY <1>1, LenProperties, ElementOfSeq

LEMMA ListsApart ==
  /\ "types" \in Lists /\ "resources" \in Lists /\ "functions" \in Lists
  /\ "emit" \notin Lists /\ "done" \notin Lists /\ "failed" \notin Lists
  /\ \A list \in Lists : list = "types" \/ list = "resources" \/ list = "functions"
BY DEF Lists

LEMMA InitCodegenInv == Init => CodegenInv
<1> SUFFICES ASSUME Init PROVE CodegenInv
  OBVIOUS
<1> USE DEF Init
<1>1. \A list \in Lists : Chosen(list) = {}
  BY ListsApart DEF Chosen, Seen
<1>2. \A list \in Lists : resolved[list] = <<>> /\ Len(resolved[list]) = 0
  BY EmptySeq
<1>3. Typed
  <2>1. resolved \in [Lists -> Seq(AllItems)]
    BY EmptySeq
  <2>2. IsFiniteSet(unions)
    BY FS_EmptySet
  <2> QED BY <2>1, <2>2, ListsApart DEF Typed, Phases
<1>4. ItemsResolved /\ OnePathEach /\ UnionsResolved
  BY <1>1, <1>2 DEF ItemsResolved, OnePathEach, UnionsResolved
<1>5. FilesWritten
  BY ListsApart DEF FilesWritten
<1> QED BY <1>3, <1>4, <1>5 DEF CodegenInv

LEMMA ChosenFinished ==
  ASSUME Typed, NEW list \in Lists, NEW after, at = list, at' = after,
         next > Len(schema[list]), next' = 1, schema' = schema,
         \/ list = "types" /\ after = "resources"
         \/ list = "resources" /\ after = "functions"
         \/ list = "functions" /\ after = "emit"
  PROVE  \A l \in Lists : Chosen(l)' = Chosen(l)
<1>1. \A l \in Lists : Len(schema[l]) \in Nat
  BY SchemaTyped DEF Typed
<1>2. next \in Nat /\ 1 .. (next' - 1) = {}
  BY DEF Typed
<1>3. ASSUME NEW l \in Lists, NEW k \in 1 .. Len(schema[l]) PROVE k \in Seen(l)' <=> k \in Seen(l)
  BY <1>1, <1>2, <1>3, ListsApart DEF Seen
<1> QED BY <1>3 DEF Chosen

LEMMA ChosenNext ==
  ASSUME Typed, NEW list \in Lists, at = list, at' = at,
         next <= Len(schema[list]), next' = next + 1, schema' = schema,
         NEW l \in Lists
  PROVE  Chosen(l)' = Chosen(l) \cup (IF l = list /\ Taken(schema[list][next]) THEN {next} ELSE {})
<1>1. Len(schema[l]) \in Nat /\ next \in Nat \ {0}
  BY SchemaTyped DEF Typed
<1>2. CASE l = list
  <2>1. Seen(l)' = 1 .. next /\ Seen(l) = 1 .. (next - 1)
    BY <1>1, <1>2 DEF Seen
  <2>2. next \in 1 .. Len(schema[l])
    BY <1>1, <1>2
  <2> QED BY <1>1, <1>2, <2>1, <2>2 DEF Chosen
<1>3. CASE l # list
  <2>1. Seen(l)' = Seen(l)
    BY <1>3 DEF Seen
  <2> QED BY <1>3, <2>1 DEF Chosen
<1> QED BY <1>2, <1>3

LEMMA WritesSame == UNCHANGED <<resolved, unions>> => Writes' = Writes
BY DEF Writes, Services, TypesDir, Types, WithUnions, TypesMod, LibRs

(* The list and what follows it.                                           *)
Follows(list, after) ==
  \/ list = "types" /\ after = "resources"
  \/ list = "resources" /\ after = "functions"
  \/ list = "functions" /\ after = "emit"

LEMMA ListEnds ==
  ASSUME CodegenInv, NEW list \in Lists, NEW after, Follows(list, after),
         Resolve(list, after), next > Len(schema[list])
  PROVE  CodegenInv'
<1> USE DEF CodegenInv
<1>1. /\ at = list /\ at' = after /\ next' = 1 /\ schema' = schema
      /\ resolved' = resolved /\ unions' = unions /\ files' = files
  BY DEF Resolve
<1>2. \A l \in Lists : Chosen(l)' = Chosen(l)
  BY <1>1, ChosenFinished DEF Follows
<1>3. Typed'
  <2>1. after \in Phases
    BY DEF Follows, Phases, Lists
  <2> QED BY <1>1, <2>1 DEF Typed
<1>4. ItemsResolved'
  BY <1>1, <1>2 DEF ItemsResolved
<1>5. OnePathEach'
  BY <1>1 DEF OnePathEach, Repeated
<1>6. UnionsResolved'
  BY <1>1, <1>2 DEF UnionsResolved
<1>7. FilesWritten'
  <2>1. files = {} /\ at' # "done"
    BY <1>1 DEF FilesWritten, Follows
  <2>2. 1 .. (next' - 1) = {}
    BY <1>1
  <2> QED BY <1>1, <2>1, <2>2 DEF FilesWritten
<1> QED BY <1>3, <1>4, <1>5, <1>6, <1>7

LEMMA ItemSkipped ==
  ASSUME CodegenInv, NEW list \in Lists, NEW after, Resolve(list, after),
         next <= Len(schema[list]), ~Taken(schema[list][next])
  PROVE  CodegenInv'
<1> USE DEF CodegenInv
<1>0. Len(schema[list]) \in Nat /\ next \in Nat \ {0}
  BY SchemaTyped DEF Typed
<1>1. /\ at = list /\ at' = at /\ next' = next + 1 /\ schema' = schema
      /\ resolved' = resolved /\ unions' = unions /\ files' = files
  BY <1>0 DEF Resolve
<1>2. \A l \in Lists : Chosen(l)' = Chosen(l)
  BY <1>1, ChosenNext
<1>3. Typed'
  BY <1>0, <1>1 DEF Typed
<1>4. ItemsResolved'
  BY <1>1, <1>2 DEF ItemsResolved
<1>5. OnePathEach'
  BY <1>1 DEF OnePathEach, Repeated
<1>6. UnionsResolved'
  BY <1>1, <1>2 DEF UnionsResolved
<1>7. FilesWritten'
  BY <1>1, ListsApart DEF FilesWritten
<1> QED BY <1>3, <1>4, <1>5, <1>6, <1>7

LEMMA ItemTaken ==
  ASSUME CodegenInv, NEW list \in Lists, NEW after, Resolve(list, after),
         next <= Len(schema[list]), Taken(schema[list][next])
  PROVE  CodegenInv'
<1> USE DEF CodegenInv
<1> DEFINE item == schema[list][next]
           new == ResolveItem(list, item)
           before == resolved[list]
           n == Len(before)
<1>0. /\ Len(schema[list]) \in Nat /\ next \in Nat \ {0} /\ next \in 1 .. Len(schema[list])
      /\ item \in Item
  BY SchemaTyped DEF Typed
<1>1. /\ at = list /\ at' = at /\ next' = next + 1 /\ schema' = schema
      /\ resolved' = [resolved EXCEPT ![list] = Append(@, new)]
      /\ unions' = InsertUnions(unions, FieldUnions(item)) /\ files' = files
  BY <1>0 DEF Resolve
<1>2. /\ Chosen(list)' = Chosen(list) \cup {next}
      /\ \A l \in Lists \ {list} : Chosen(l)' = Chosen(l)
  BY <1>1, ChosenNext
<1>3. new \in AllItems /\ before \in Seq(AllItems) /\ n \in Nat
  BY <1>0, LenProperties DEF AllItems, Typed
<1>4. /\ \A l \in Lists \ {list} : resolved'[l] = resolved[l]
      /\ resolved'[list] \in Seq(AllItems) /\ Len(resolved'[list]) = n + 1
      /\ \A i \in 1 .. n : resolved'[list][i] = before[i]
      /\ resolved'[list][n + 1] = new
  <2>1. /\ resolved'[list] = Append(before, new)
        /\ \A l \in Lists \ {list} : resolved'[l] = resolved[l]
    BY <1>1 DEF Typed
  <2>2. /\ Append(before, new) \in Seq(AllItems) /\ Len(Append(before, new)) = n + 1
        /\ \A i \in 1 .. n : Append(before, new)[i] = before[i]
        /\ Append(before, new)[n + 1] = new
    <3> HIDE DEF before, new
    <3> QED BY <1>3, AppendProperties
  <2> HIDE DEF before, new
  <2> QED BY <2>1, <2>2
<1>5. FieldUnions(item) \in Seq(AllUnions)
  BY <1>0, FieldUnionsFacts
<1>6. Typed'
  <2>1. resolved' \in [Lists -> Seq(AllItems)]
    <3> HIDE DEF new
    <3> QED BY <1>1, <1>4 DEF Typed
  <2>2. IsFiniteSet(unions')
    BY <1>1, <1>5, InsertUnionsFacts DEF Typed
  <2> QED BY <1>0, <1>1, <2>1, <2>2 DEF Typed
<1> HIDE DEF new, before, item
<1>7. ItemsResolved'
  <2>1. ASSUME NEW l \in Lists, NEW i \in 1 .. Len(resolved'[l])
        PROVE  \E k \in Chosen(l)' : resolved'[l][i] = ResolveItem(l, schema[l][k])
    <3>1. CASE l # list
      <4>1. resolved'[l] = resolved[l] /\ Chosen(l)' = Chosen(l)
        BY <1>2, <1>4, <3>1
      <4> QED BY <2>1, <4>1 DEF ItemsResolved
    <3>2. CASE l = list /\ i = n + 1
      BY <1>2, <1>4, <3>2 DEF new, item
    <3>3. CASE l = list /\ i # n + 1
      <4>1. i \in 1 .. n
        BY <1>3, <1>4, <2>1, <3>3
      <4>2. PICK k \in Chosen(list) : before[i] = ResolveItem(list, schema[list][k])
        BY <4>1 DEF ItemsResolved, before
      <4>3. k \in Chosen(list)' /\ resolved'[list][i] = before[i]
        BY <1>2, <1>4, <4>1
      <4> QED BY <3>3, <4>2, <4>3
    <3> QED BY <3>1, <3>2, <3>3
  <2>2. ASSUME NEW l \in Lists, NEW k \in Chosen(l)'
        PROVE  \E i \in 1 .. Len(resolved'[l]) : resolved'[l][i] = ResolveItem(l, schema[l][k])
    <3>1. CASE l # list
      BY <1>2, <1>4, <2>2, <3>1 DEF ItemsResolved
    <3>2. CASE l = list /\ k = next
      <4>1. n + 1 \in 1 .. Len(resolved'[l])
        BY <1>3, <1>4, <3>2
      <4> QED BY <1>4, <3>2, <4>1 DEF new, item
    <3>3. CASE l = list /\ k # next
      <4>1. k \in Chosen(l)
        BY <1>2, <2>2, <3>3
      <4>2. PICK i \in 1 .. Len(resolved[l]) : resolved[l][i] = ResolveItem(l, schema[l][k])
        BY <4>1 DEF ItemsResolved
      <4>3. i \in 1 .. n /\ i \in 1 .. Len(resolved'[l])
        BY <1>3, <1>4, <3>3, <4>2 DEF before
      <4> QED BY <1>4, <3>3, <4>2, <4>3 DEF before
    <3> QED BY <3>1, <3>2, <3>3
  <2>3. \A l \in Lists : \A i \in 1 .. Len(resolved'[l]) :
          \E k \in Chosen(l)' : resolved'[l][i] = ResolveItem(l, schema'[l][k])
    BY <1>1, <2>1
  <2>4. \A l \in Lists : \A k \in Chosen(l)' :
          \E i \in 1 .. Len(resolved'[l]) : resolved'[l][i] = ResolveItem(l, schema'[l][k])
    BY <1>1, <2>2
  <2> QED BY <2>3, <2>4 DEF ItemsResolved
<1>8. OnePathEach'
  <2> SUFFICES ASSUME ~Repeated
               PROVE  \A l \in Lists : \A i, j \in 1 .. Len(resolved'[l]) :
                        PathOf(resolved'[l][i]) = PathOf(resolved'[l][j]) => i = j
    BY <1>1 DEF OnePathEach, Repeated
  <2>1. \A l \in Lists : \A i, j \in 1 .. Len(resolved[l]) :
          PathOf(resolved[l][i]) = PathOf(resolved[l][j]) => i = j
    BY DEF OnePathEach
  <2>2. ASSUME NEW i \in 1 .. n PROVE PathOf(before[i]) # PathOf(new)
    <3>1. PICK k \in Chosen(list) : before[i] = ResolveItem(list, schema[list][k])
      BY DEF ItemsResolved, before
    <3>2. k \in 1 .. (next - 1) /\ k \in DOMAIN schema[list] /\ Taken(schema[list][k])
      BY <1>1, <3>1, SchemaTyped DEF Chosen, Seen, Typed
    <3>3. next \in DOMAIN schema[list] /\ k # next
      BY <1>0, <3>2, SchemaTyped DEF Typed
    <3> QED BY <3>1, <3>2, <3>3 DEF Repeated, new, item
  <2>3. ASSUME NEW l \in Lists, NEW i \in 1 .. Len(resolved'[l]), NEW j \in 1 .. Len(resolved'[l]),
               PathOf(resolved'[l][i]) = PathOf(resolved'[l][j])
        PROVE  i = j
    <3>1. CASE l # list
      BY <1>4, <2>1, <2>3, <3>1
    <3>2. CASE l = list
      <4>1. (i \in 1 .. n \/ i = n + 1) /\ (j \in 1 .. n \/ j = n + 1)
        BY <1>3, <1>4, <3>2
      <4>2. CASE i \in 1 .. n /\ j \in 1 .. n
        BY <1>4, <2>1, <2>3, <3>2, <4>2 DEF before
      <4>3. CASE i \in 1 .. n /\ j = n + 1
        BY <1>4, <2>2, <2>3, <3>2, <4>3
      <4>4. CASE i = n + 1 /\ j \in 1 .. n
        BY <1>4, <2>2, <2>3, <3>2, <4>4
      <4> QED BY <4>1, <4>2, <4>3, <4>4
    <3> QED BY <3>1, <3>2
  <2> QED BY <2>3
<1>9. UnionsResolved'
  <2>1. /\ unions \subseteq unions' /\ unions' \subseteq unions \cup Range(FieldUnions(item))
        /\ \A u \in Range(FieldUnions(item)) : \E v \in unions' : v.name = u.name
    BY <1>1, <1>5, InsertUnionsFacts DEF Range
  <2>2. ASSUME NEW u \in unions'
        PROVE  \E l \in Lists : \E k \in Chosen(l)' : u \in Range(FieldUnions(schema[l][k]))
    <3>1. CASE u \in unions
      BY <1>2, <3>1 DEF UnionsResolved
    <3>2. CASE u \notin unions
      BY <1>2, <2>1, <3>2 DEF item
    <3> QED BY <3>1, <3>2
  <2>3. ASSUME NEW l \in Lists, NEW k \in Chosen(l)', NEW u \in Range(FieldUnions(schema[l][k]))
        PROVE  \E v \in unions' : v.name = u.name
    <3>1. CASE k \in Chosen(l)
      BY <2>1, <2>3, <3>1 DEF UnionsResolved
    <3>2. CASE k \notin Chosen(l)
      <4>1. l = list /\ k = next
        BY <1>2, <2>3, <3>2
      <4> QED BY <2>1, <2>3, <4>1 DEF item
    <3> QED BY <3>1, <3>2
  <2> QED BY <1>1, <2>2, <2>3 DEF UnionsResolved
<1>10. FilesWritten'
  BY <1>1, ListsApart DEF FilesWritten
<1> QED BY <1>6, <1>7, <1>8, <1>9, <1>10

LEMMA FileWritten == CodegenInv /\ WriteFile => CodegenInv'
<1> SUFFICES ASSUME CodegenInv, WriteFile PROVE CodegenInv'
  OBVIOUS
<1> USE DEF CodegenInv
<1>1. /\ at = "emit" /\ at' = at /\ next <= Len(Writes) /\ next' = next + 1
      /\ files' = {f \in files : f[1] # Writes[next][1]} \cup {Writes[next]}
      /\ UNCHANGED <<schema, resolved, unions>>
  BY DEF WriteFile
<1>2. Writes' = Writes
  BY <1>1, WritesSame
<1>3. next \in Nat \ {0} /\ 1 .. (next' - 1) = (1 .. (next - 1)) \cup {next}
  BY <1>1 DEF Typed
<1>4. Typed' /\ ItemsResolved' /\ OnePathEach' /\ UnionsResolved'
  <2>1. \A l \in Lists : Chosen(l)' = Chosen(l)
    BY <1>1, ListsApart DEF Chosen, Seen
  <2>2. Typed'
    BY <1>1, <1>3 DEF Typed
  <2>3. ItemsResolved'
    BY <1>1, <2>1 DEF ItemsResolved
  <2>4. OnePathEach'
    BY <1>1 DEF OnePathEach, Repeated
  <2>5. UnionsResolved'
    BY <1>1, <2>1 DEF UnionsResolved
  <2> QED BY <2>2, <2>3, <2>4, <2>5
<1>5. FilesWritten'
  <2> DEFINE W == Writes
  <2>1. /\ \A i \in 1 .. (next - 1) : i <= Len(W)
        /\ \A f \in files : \E i \in 1 .. (next - 1) : f = W[i]
        /\ \A i \in 1 .. (next - 1) : \E f \in files : f[1] = W[i][1]
    BY <1>1, ListsApart DEF FilesWritten
  <2> HIDE DEF W
  <2>2. \A i \in 1 .. (next' - 1) : i <= Len(W)
    BY <1>1, <1>3, <2>1 DEF W
  <2>3. files' = {f \in files : f[1] # W[next][1]} \cup {W[next]}
    BY <1>1 DEF W
  <2>4. ASSUME NEW f \in files' PROVE \E i \in 1 .. (next' - 1) : f = W[i]
    BY <1>3, <2>1, <2>3
  <2>5. ASSUME NEW i \in 1 .. (next' - 1) PROVE \E f \in files' : f[1] = W[i][1]
    <3>1. CASE i = next
      BY <2>3, <3>1
    <3>2. CASE i # next
      <4>1. PICK f \in files : f[1] = W[i][1]
        BY <1>3, <2>1, <3>2
      <4>2. CASE f[1] = W[next][1]
        BY <2>3, <4>1, <4>2
      <4>3. CASE f[1] # W[next][1]
        BY <2>3, <4>1, <4>3
      <4> QED BY <4>2, <4>3
    <3> QED BY <3>1, <3>2
  <2> QED
    BY <1>1, <1>2, <2>2, <2>4, <2>5, ListsApart DEF FilesWritten, W
<1> QED BY <1>4, <1>5

LEMMA EmissionEnds ==
  ASSUME CodegenInv, WriteFails \/ Finish
  PROVE  CodegenInv'
<1> USE DEF CodegenInv
<1>1. /\ at = "emit" /\ next' = next /\ UNCHANGED <<schema, resolved, unions, files>>
      /\ at' = "failed" \/ (at' = "done" /\ next > Len(Writes))
  BY DEF WriteFails, Finish
<1>2. Writes' = Writes
  BY <1>1, WritesSame
<1>3. \A l \in Lists : Chosen(l)' = Chosen(l)
  BY <1>1, ListsApart DEF Chosen, Seen
<1>4. Typed'
  BY <1>1 DEF Typed, Phases
<1>5. ItemsResolved'
  BY <1>1, <1>3 DEF ItemsResolved
<1>6. OnePathEach'
  BY <1>1 DEF OnePathEach, Repeated
<1>7. UnionsResolved'
  BY <1>1, <1>3 DEF UnionsResolved
<1>8. FilesWritten'
  <2>1. at \notin Lists /\ at' \notin Lists
    BY <1>1, ListsApart
  <2> QED BY <1>1, <1>2, <2>1 DEF FilesWritten
<1> QED BY <1>4, <1>5, <1>6, <1>7, <1>8

LEMMA StutterCodegenInv == CodegenInv /\ UNCHANGED vars => CodegenInv'
<1> SUFFICES ASSUME CodegenInv, UNCHANGED vars PROVE CodegenInv'
  OBVIOUS
<1>1. UNCHANGED <<schema, at, next, resolved, unions, files>>
  BY DEF vars
<1>2. Writes' = Writes
  BY <1>1, WritesSame
<1>3. \A l \in Lists : Chosen(l)' = Chosen(l)
  BY <1>1 DEF Chosen, Seen
<1>4. Typed' /\ OnePathEach'
  BY <1>1 DEF CodegenInv, Typed, OnePathEach, Repeated
<1>5. ItemsResolved' /\ UnionsResolved'
  BY <1>1, <1>3 DEF CodegenInv, ItemsResolved, UnionsResolved
<1>6. FilesWritten'
  BY <1>1, <1>2 DEF CodegenInv, FilesWritten
<1> QED BY <1>4, <1>5, <1>6 DEF CodegenInv

(* What is resolved and written at every step: for each item read that is  *)
(* no overlay and whose token parses its resolution, for each union name   *)
(* needed one union, and the last write so far of every path.              *)
THEOREM SpecCodegenInv == Spec => []CodegenInv
<1>1. Init => CodegenInv
  BY InitCodegenInv
<1>2. CodegenInv /\ [Next]_vars => CodegenInv'
  <2> SUFFICES ASSUME CodegenInv, [Next]_vars PROVE CodegenInv'
    OBVIOUS
  <2>1. ASSUME NEW list \in Lists, NEW after, Follows(list, after), Resolve(list, after)
        PROVE  CodegenInv'
    <3>1. Len(schema[list]) \in Nat /\ next \in Nat
      BY SchemaTyped DEF CodegenInv, Typed
    <3>2. CASE next > Len(schema[list])
      BY <2>1, <3>2, ListEnds
    <3>3. CASE next <= Len(schema[list])
      BY <2>1, <3>3, ItemSkipped, ItemTaken
    <3> QED BY <3>1, <3>2, <3>3
  <2>2. CASE ResolveComplexType
    BY <2>1, <2>2, ListsApart DEF ResolveComplexType, Follows
  <2>3. CASE ResolveResource
    BY <2>1, <2>3, ListsApart DEF ResolveResource, Follows
  <2>4. CASE ResolveFunction
    BY <2>1, <2>4, ListsApart DEF ResolveFunction, Follows
  <2>5. CASE WriteFile
    BY <2>5, FileWritten
  <2>6. CASE WriteFails \/ Finish
    BY <2>6, EmissionEnds
  <2>7. CASE UNCHANGED vars
    BY <2>7, StutterCodegenInv
  <2> QED BY <2>2, <2>3, <2>4, <2>5, <2>6, <2>7 DEF Next
<1> QED BY <1>1, <1>2, PTL DEF Spec

-----------------------------------------------------------------------------
(* When main is done: everything of the schema is resolved, once.          *)

Finished == CodegenInv /\ at = "done" /\ ~Clash

LEMMA ResolvedAll ==
  ASSUME Finished, NEW list \in Lists
  PROVE  /\ resolved[list] \in Seq(AllItems) /\ Len(resolved[list]) \in Nat
         /\ Range(resolved[list]) = {ResolveItem(list, item) : item \in Kept(list)}
         /\ Range(resolved[list]) = {resolved[list][i] : i \in 1 .. Len(resolved[list])}
         /\ \A item \in Kept(list) : item \in Item
<1> USE DEF Finished, CodegenInv
<1>1. /\ DOMAIN schema[list] = 1 .. Len(schema[list])
      /\ \A k \in 1 .. Len(schema[list]) : schema[list][k] \in Item
  BY SchemaTyped DEF Typed
<1>2. Chosen(list) = {k \in DOMAIN schema[list] : Taken(schema[list][k])}
  BY <1>1, ListsApart DEF Chosen, Seen
<1>3. resolved[list] \in Seq(AllItems)
  BY DEF Typed
<1>4. DOMAIN resolved[list] = 1 .. Len(resolved[list]) /\ Len(resolved[list]) \in Nat
  BY <1>3, LenProperties
<1>5. Kept(list) = {schema[list][k] : k \in Chosen(list)}
  BY <1>2 DEF Kept, Range
<1>6. Range(resolved[list]) = {resolved[list][i] : i \in 1 .. Len(resolved[list])}
  BY <1>4 DEF Range
<1>7. {resolved[list][i] : i \in 1 .. Len(resolved[list])}
        = {ResolveItem(list, item) : item \in Kept(list)}
  <2>1. \A i \in 1 .. Len(resolved[list]) : \E item \in Kept(list) :
          resolved[list][i] = ResolveItem(list, item)
    BY <1>5 DEF ItemsResolved
  <2>2. \A item \in Kept(list) : \E i \in 1 .. Len(resolved[list]) :
          resolved[list][i] = ResolveItem(list, item)
    BY <1>5 DEF ItemsResolved
  <2> QED BY <2>1, <2>2
<1> QED
  BY <1>1, <1>2, <1>3, <1>4, <1>5, <1>6, <1>7

(* Unions of one name would be two files at one place.                     *)
LEMMA UnionsAll ==
  ASSUME Finished
  PROVE  unions = UNION {Range(FieldUnions(item)) : item \in AllKept}
<1> USE DEF Finished, CodegenInv
<1> DEFINE Needed == UNION {Range(FieldUnions(item)) : item \in AllKept}
<1>1. \A list \in Lists : /\ DOMAIN schema[list] = 1 .. Len(schema[list])
                          /\ Chosen(list) = {k \in DOMAIN schema[list] : Taken(schema[list][k])}
  BY SchemaTyped, ListsApart DEF Typed, Chosen, Seen
<1>2. \A list \in Lists : Kept(list) = {schema[list][k] : k \in Chosen(list)}
  BY <1>1 DEF Kept, Range
<1>3. \A item \in AllKept : \E list \in Lists : \E k \in Chosen(list) : item = schema[list][k]
  BY <1>2 DEF AllKept
<1>4. \A list \in Lists : \A k \in Chosen(list) : schema[list][k] \in AllKept
  BY <1>2 DEF AllKept
<1>5. unions \subseteq Needed
  BY <1>4 DEF UnionsResolved
<1>6. ASSUME NEW u \in Needed PROVE u \in unions
  <2>1. PICK item \in AllKept : u \in Range(FieldUnions(item))
    OBVIOUS
  <2>2. PICK list \in Lists : \E k \in Chosen(list) : item = schema[list][k]
    BY <1>3
  <2>3. PICK v \in unions : v.name = u.name
    BY <2>1, <2>2 DEF UnionsResolved
  <2>4. u \in Everything /\ v \in Everything
    BY <1>5, <2>3 DEF Everything
  <2>5. \A w \in Needed : w \in AllUnions
    <3>1. \A i \in AllKept : i \in Item
      BY ResolvedAll DEF AllKept
    <3>2. \A i \in AllKept : Range(FieldUnions(i)) \subseteq AllUnions
      BY <3>1, FieldUnionsFacts, RangeOfSeq
    <3> QED BY <3>2
  <2>6. PathOf(u) = PathOf(v)
    BY <1>5, <2>3, <2>5, UnionShape DEF PathOf, Dir
  <2>7. u = v
    BY <2>4, <2>6 DEF Clash, SamePlace
  <2> QED BY <2>3, <2>7
<1> QED BY <1>5, <1>6

(* The shape of what is resolved, and where it goes.                       *)
LEMMA EverythingShape ==
  ASSUME Finished, NEW r \in Everything
  PROVE  \/ r.kind = "unions" /\ r \in unions /\ r.module = <<>>
         \/ /\ r.kind \in Lists /\ r \in Range(resolved[r.kind])
            /\ \E item \in Kept(r.kind) : item \in Item /\ r = ResolveItem(r.kind, item)
<1>1. CASE r \in Items
  <2>1. PICK list \in Lists : \E item \in Kept(list) : r = ResolveItem(list, item)
    BY <1>1 DEF Items
  <2>2. PICK item \in Kept(list) : r = ResolveItem(list, item)
    BY <2>1
  <2>3. r.kind = list
    BY <2>2 DEF ResolveItem
  <2> QED BY <2>2, <2>3, ResolvedAll
<1>2. CASE r \notin Items
  <2>1. r \in unions
    BY <1>2, UnionsAll DEF Everything
  <2>2. PICK item \in AllKept : r \in Range(FieldUnions(item))
    BY <1>2 DEF Everything
  <2>3. item \in Item
    BY ResolvedAll DEF AllKept
  <2>4. r \in AllUnions
    BY <2>2, <2>3, FieldUnionsFacts, RangeOfSeq
  <2> QED BY <2>1, <2>4, UnionShape
<1> QED BY <1>1, <1>2

LEMMA SameElements ==
  ASSUME NEW S, NEW s \in Seq(S), NEW t \in Seq(S), Len(s) = Len(t),
         \A i \in 1 .. Len(s) : s[i] = t[i]
  PROVE  s = t
BY SeqEqual

(* A path spelled out.                                                     *)
LEMMA Pairs ==
  ASSUME NEW a, NEW b, NEW c
  PROVE  /\ Append(<<a>>, b) = <<a, b>> /\ <<a>> \o <<b>> = <<a, b>>
         /\ Append(<<a, b>>, c) = <<a, b, c>>
<1> DEFINE S == {a, b, c}
<1>0. a \in S /\ b \in S /\ c \in S
  OBVIOUS
<1> HIDE DEF S
<1>1. <<a>> \in Seq(S) /\ <<b>> \in Seq(S) /\ <<a, b>> \in Seq(S) /\ <<a, b, c>> \in Seq(S)
  BY <1>0
<1>2. Len(<<a>>) = 1 /\ Len(<<b>>) = 1 /\ Len(<<a, b>>) = 2 /\ Len(<<a, b, c>>) = 3
  OBVIOUS
<1>3. Append(<<a>>, b) = <<a, b>>
  <2> DEFINE s == Append(<<a>>, b)
             t == <<a, b>>
  <2>1. s \in Seq(S) /\ Len(s) = 2 /\ s[1] = a /\ s[2] = b
    BY <1>0, <1>1, <1>2, AppendProperties
  <2>2. t \in Seq(S) /\ Len(t) = 2 /\ t[1] = a /\ t[2] = b
    BY <1>1, <1>2
  <2> HIDE DEF s, t
  <2>3. \A i \in 1 .. Len(s) : s[i] = t[i]
    BY <2>1, <2>2
  <2>4. s = t
    BY <2>1, <2>2, <2>3, SameElements
  <2> QED BY <2>4 DEF s, t
<1>4. <<a>> \o <<b>> = <<a, b>>
  <2> DEFINE s == <<a>> \o <<b>>
             t == <<a, b>>
  <2>1. s \in Seq(S) /\ Len(s) = 2 /\ s[1] = a /\ s[2] = b
    BY <1>0, <1>1, <1>2, ConcatProperties
  <2>2. t \in Seq(S) /\ Len(t) = 2 /\ t[1] = a /\ t[2] = b
    BY <1>1, <1>2
  <2> HIDE DEF s, t
  <2>3. \A i \in 1 .. Len(s) : s[i] = t[i]
    BY <2>1, <2>2
  <2>4. s = t
    BY <2>1, <2>2, <2>3, SameElements
  <2> QED BY <2>4 DEF s, t
<1>5. Append(<<a, b>>, c) = <<a, b, c>>
  <2> DEFINE s == Append(<<a, b>>, c)
             t == <<a, b, c>>
  <2>1. s \in Seq(S) /\ Len(s) = 3 /\ s[1] = a /\ s[2] = b /\ s[3] = c
    BY <1>0, <1>1, <1>2, AppendProperties
  <2>2. t \in Seq(S) /\ Len(t) = 3 /\ t[1] = a /\ t[2] = b /\ t[3] = c
    BY <1>1, <1>2
  <2> HIDE DEF s, t
  <2>3. \A i \in 1 .. Len(s) : s[i] = t[i]
    BY <2>1, <2>2
  <2>4. s = t
    BY <2>1, <2>2, <2>3, SameElements
  <2> QED BY <2>4 DEF s, t
<1> QED BY <1>3, <1>4, <1>5

LEMMA Characters ==
  /\ "/" \notin Upper \cup Lower \cup Digit \cup {"_"}
  /\ {"t", "y", "p", "e", "s"} \subseteq Lower \ Digit
<1>1. "/" \notin Upper /\ "/" \notin Digit /\ {"t", "y", "p", "e", "s"} \cap Digit = {}
  BY DEF Upper, LowerOf, Digit
<1>2. "/" \notin Lower
  BY DEF Lower, Upper, LowerOf
<1>3. /\ LowerOf["T"] = "t" /\ LowerOf["Y"] = "y" /\ LowerOf["P"] = "p"
      /\ LowerOf["E"] = "e" /\ LowerOf["S"] = "s" /\ {"T", "Y", "P", "E", "S"} \subseteq Upper
  BY DEF Upper, LowerOf
<1>4. {"t", "y", "p", "e", "s"} \subseteq Lower
  BY <1>3 DEF Lower
<1> QED BY <1>1, <1>2, <1>4

(* What may be a module's name is one directory.                           *)
LEMMA FoundWhole ==
  ASSUME NEW m, Found(m)
  PROVE  m # <<>> /\ Components(m) = <<m>>
<1>1. "/" \notin Range(m)
  BY Characters DEF Found
<1>2. Components(m) = <<m>>
  BY <1>1 DEF Components
<1> QED BY <1>2 DEF Found

LEMMA NamesFound ==
  ASSUME Finished, NEW r \in Everything
  PROVE  Found(r.file) /\ (r.module # <<>> => Found(r.module))
BY DEF Finished, Clash, NotIdentifier

LEMMA Places ==
  ASSUME Finished, NEW r \in Everything
  PROVE  /\ r.kind \in {"types", "unions"} /\ r.module = <<>> =>
              Dir(r) = <<TypesName>> /\ PathOf(r) = <<TypesName, r.file>>
         /\ r.kind \in {"types", "unions"} /\ r.module # <<>> =>
              Dir(r) = <<TypesName, r.module>> /\ PathOf(r) = <<TypesName, r.module, r.file>>
         /\ r.kind \notin {"types", "unions"} /\ r.module = <<>> =>
              Dir(r) = <<>> /\ PathOf(r) = <<r.file>>
         /\ r.kind \notin {"types", "unions"} /\ r.module # <<>> =>
              Dir(r) = <<r.module>> /\ PathOf(r) = <<r.module, r.file>>
<1> DEFINE t == TypesName
           m == r.module
           f == r.file
           S == {t, m}
<1>1. <<>> \in Seq(S) /\ <<t>> \in Seq(S) /\ <<m>> \in Seq(S)
  BY EmptySeq
<1>2. <<t>> \o <<m>> = <<t, m>> /\ <<t>> \o <<>> = <<t>> /\ <<>> \o <<m>> = <<m>> /\ <<>> \o <<>> = <<>>
  <2>1. <<t>> \o <<>> = <<t>> /\ <<>> \o <<m>> = <<m>> /\ <<>> \o <<>> = <<>>
    <3> HIDE DEF t, m, S
    <3> QED BY <1>1, ConcatEmptySeq
  <2>2. <<t>> \o <<m>> = <<t, m>>
    <3> HIDE DEF t, m
    <3> QED BY Pairs
  <2> QED BY <2>1, <2>2
<1>3. /\ r.kind \in {"types", "unions"} /\ m = <<>> => Dir(r) = <<t>>
      /\ r.kind \in {"types", "unions"} /\ m # <<>> => Dir(r) = <<t, m>>
      /\ r.kind \notin {"types", "unions"} /\ m = <<>> => Dir(r) = <<>>
      /\ r.kind \notin {"types", "unions"} /\ m # <<>> => Dir(r) = <<m>>
  <2>1. m # <<>> => Components(m) = <<m>>
    BY NamesFound, FoundWhole
  <2> HIDE DEF m, t
  <2> QED BY <1>2, <2>1 DEF Dir, Top, Below, m, t
<1>4. /\ Append(<<t>>, f) = <<t, f>> /\ Append(<<t, m>>, f) = <<t, m, f>>
      /\ Append(<<>>, f) = <<f>> /\ Append(<<m>>, f) = <<m, f>>
  <2> HIDE DEF t, m, f
  <2>1. Append(<<>>, f) = <<f>>
    OBVIOUS
  <2> QED BY <2>1, Pairs
<1> QED BY <1>3, <1>4 DEF PathOf

(* Two lists of items of different kinds, one after the other.             *)
LEMMA JoinedLists ==
  ASSUME ~SamePlace, NEW a \in Seq(Everything), NEW b \in Seq(Everything),
         \A i \in 1 .. Len(a), j \in 1 .. Len(b) : a[i].kind # b[j].kind,
         \A i, j \in 1 .. Len(a) : PathOf(a[i]) = PathOf(a[j]) => i = j,
         \A i, j \in 1 .. Len(b) : PathOf(b[i]) = PathOf(b[j]) => i = j
  PROVE  /\ a \o b \in Seq(Everything)
         /\ Range(a \o b) = Range(a) \cup Range(b)
         /\ \A i, j \in 1 .. Len(a \o b) : PathOf((a \o b)[i]) = PathOf((a \o b)[j]) => i = j
<1> DEFINE c == a \o b
           k == Len(a)
           n == Len(b)
<1>1. k \in Nat /\ n \in Nat /\ DOMAIN a = 1 .. k /\ DOMAIN b = 1 .. n
  BY LenProperties
<1>2. /\ c \in Seq(Everything) /\ Len(c) = k + n
      /\ \A i \in 1 .. k + n : c[i] = IF i <= k THEN a[i] ELSE b[i - k]
  BY ConcatProperties
<1>3. Range(c) = Range(a) \cup Range(b)
  BY RangeConcatenation
<1> HIDE DEF c, k, n
<1>4. \A i \in 1 .. k + n : c[i] \in Everything
  BY <1>2, ElementOfSeq
<1>5. ASSUME NEW i \in 1 .. k + n, NEW j \in 1 .. k + n, PathOf(c[i]) = PathOf(c[j])
      PROVE  i = j
  <2>1. c[i] = c[j]
    BY <1>4, <1>5 DEF SamePlace
  <2>2. CASE i <= k /\ j <= k
    <3>1. i \in 1 .. k /\ j \in 1 .. k /\ c[i] = a[i] /\ c[j] = a[j]
      BY <1>1, <1>2, <2>2
    <3> QED BY <1>5, <3>1 DEF k
  <2>3. CASE i > k /\ j > k
    <3>1. i - k \in 1 .. n /\ j - k \in 1 .. n /\ c[i] = b[i - k] /\ c[j] = b[j - k]
      BY <1>1, <1>2, <2>3
    <3>2. i - k = j - k
      BY <1>5, <3>1 DEF n
    <3> QED BY <1>1, <3>2
  <2>4. CASE i <= k /\ j > k
    <3>1. i \in 1 .. k /\ j - k \in 1 .. n /\ c[i] = a[i] /\ c[j] = b[j - k]
      BY <1>1, <1>2, <2>4
    <3>2. a[i].kind # b[j - k].kind
      BY <3>1 DEF k, n
    <3> QED BY <2>1, <3>1, <3>2
  <2>5. CASE i > k /\ j <= k
    <3>1. j \in 1 .. k /\ i - k \in 1 .. n /\ c[j] = a[j] /\ c[i] = b[i - k]
      BY <1>1, <1>2, <2>5
    <3>2. a[j].kind # b[i - k].kind
      BY <3>1 DEF k, n
    <3> QED BY <2>1, <3>1, <3>2
  <2> QED BY <1>1, <2>2, <2>3, <2>4, <2>5
<1>6. \A i, j \in 1 .. Len(c) : PathOf(c[i]) = PathOf(c[j]) => i = j
  BY <1>2, <1>5
<1> QED BY <1>2, <1>3, <1>6 DEF c

(* Everything is listed, once: the types and unions, and the services.     *)
LEMMA ResolvedOnce ==
  ASSUME Finished, NEW list \in Lists
  PROVE  /\ resolved[list] \in Seq(Everything)
         /\ \A i, j \in 1 .. Len(resolved[list]) :
              PathOf(resolved[list][i]) = PathOf(resolved[list][j]) => i = j
         /\ Range(resolved[list]) = {r \in Everything : r.kind = list}
         /\ \A i \in 1 .. Len(resolved[list]) : resolved[list][i].kind = list
<1>1. /\ resolved[list] \in Seq(AllItems) /\ Len(resolved[list]) \in Nat
      /\ Range(resolved[list]) = {ResolveItem(list, item) : item \in Kept(list)}
      /\ Range(resolved[list]) = {resolved[list][i] : i \in 1 .. Len(resolved[list])}
  BY ResolvedAll
<1>2. Range(resolved[list]) \subseteq Everything
  BY <1>1 DEF Everything, Items
<1>3. \A i, j \in 1 .. Len(resolved[list]) :
        PathOf(resolved[list][i]) = PathOf(resolved[list][j]) => i = j
  BY DEF Finished, CodegenInv, OnePathEach, Clash
<1>4. \A r \in Range(resolved[list]) : r.kind = list
  BY <1>1 DEF ResolveItem
<1>5. \A r \in Everything : r.kind = list => r \in Range(resolved[list])
  BY EverythingShape, ListsApart
<1>6. resolved[list] \in [1 .. Len(resolved[list]) -> Everything]
  BY <1>1, <1>2, LenProperties
<1>7. resolved[list] \in Seq(Everything)
  BY <1>1, <1>6
<1>8. Range(resolved[list]) = {r \in Everything : r.kind = list}
  BY <1>2, <1>4, <1>5
<1> QED BY <1>1, <1>3, <1>4, <1>7, <1>8

LEMMA TypesAll ==
  ASSUME Finished
  PROVE  /\ Types \in Seq(Everything)
         /\ Range(Types) = {r \in Everything : r.kind \in {"types", "unions"}}
         /\ \A i, j \in 1 .. Len(Types) : PathOf(Types[i]) = PathOf(Types[j]) => i = j
<1> DEFINE a == SetToSeq(unions)
           b == resolved["types"]
<1>1. ~SamePlace /\ IsFiniteSet(unions)
  BY DEF Finished, Clash, CodegenInv, Typed
<1>2. a \in Seq(unions) /\ Range(a) = unions /\ \A i, j \in 1 .. Len(a) : a[i] = a[j] => i = j
  BY <1>1, ListOfSet
<1>3. unions \subseteq Everything
  BY UnionsAll DEF Everything
<1>4. \A u \in unions : u.kind = "unions"
  <2>1. ASSUME NEW u \in unions PROVE u.kind = "unions"
    <3>1. PICK item \in AllKept : u \in Range(FieldUnions(item))
      BY UnionsAll
    <3>2. item \in Item
      BY ResolvedAll DEF AllKept
    <3>3. u \in AllUnions
      BY <3>1, <3>2, FieldUnionsFacts, RangeOfSeq
    <3> QED BY <3>3, UnionShape
  <2> QED BY <2>1
<1>5. unions = {r \in Everything : r.kind = "unions"}
  <2>1. \A r \in Everything : r.kind = "unions" => r \in unions
    BY EverythingShape, ListsApart DEF Lists
  <2> QED BY <1>3, <1>4, <2>1
<1>6. /\ b \in Seq(Everything) /\ Range(b) = {r \in Everything : r.kind = "types"}
      /\ \A i, j \in 1 .. Len(b) : PathOf(b[i]) = PathOf(b[j]) => i = j
      /\ \A i \in 1 .. Len(b) : b[i].kind = "types"
  BY ResolvedOnce DEF Lists
<1> HIDE DEF a, b
<1>7. a \in Seq(Everything) /\ \A i \in 1 .. Len(a) : a[i] \in unions
  <2>1. /\ Len(a) \in Nat /\ a \in [1 .. Len(a) -> unions]
    BY <1>2, LenProperties
  <2>2. a \in [1 .. Len(a) -> Everything]
    BY <1>3, <2>1
  <2> QED BY <2>1, <2>2
<1>8. \A i, j \in 1 .. Len(a) : PathOf(a[i]) = PathOf(a[j]) => i = j
  BY <1>1, <1>2, <1>3, <1>7 DEF SamePlace
<1>9. \A i \in 1 .. Len(a), j \in 1 .. Len(b) : a[i].kind # b[j].kind
  BY <1>4, <1>6, <1>7
<1>10. Types = a \o b
  BY DEF Types, WithUnions, a, b
<1>11. Range(a) \cup Range(b) = {r \in Everything : r.kind \in {"types", "unions"}}
  BY <1>2, <1>5, <1>6
<1> HIDE DEF Types
<1> QED BY <1>1, <1>6, <1>7, <1>8, <1>9, <1>10, <1>11, JoinedLists

LEMMA ServicesAll ==
  ASSUME Finished
  PROVE  /\ Services \in Seq(Everything)
         /\ Range(Services) = {r \in Everything : r.kind \in {"resources", "functions"}}
         /\ \A i, j \in 1 .. Len(Services) : PathOf(Services[i]) = PathOf(Services[j]) => i = j
<1> DEFINE a == resolved["resources"]
           b == resolved["functions"]
<1>1. ~SamePlace
  BY DEF Finished, Clash
<1>2. /\ a \in Seq(Everything) /\ Range(a) = {r \in Everything : r.kind = "resources"}
      /\ \A i, j \in 1 .. Len(a) : PathOf(a[i]) = PathOf(a[j]) => i = j
      /\ \A i \in 1 .. Len(a) : a[i].kind = "resources"
  BY ResolvedOnce DEF Lists
<1>3. /\ b \in Seq(Everything) /\ Range(b) = {r \in Everything : r.kind = "functions"}
      /\ \A i, j \in 1 .. Len(b) : PathOf(b[i]) = PathOf(b[j]) => i = j
      /\ \A i \in 1 .. Len(b) : b[i].kind = "functions"
  BY ResolvedOnce DEF Lists
<1>4. Services = a \o b
  BY DEF Services
<1> HIDE DEF a, b, Services
<1>5. Range(a) \cup Range(b) = {r \in Everything : r.kind \in {"resources", "functions"}}
  BY <1>2, <1>3
<1>6. \A i \in 1 .. Len(a), j \in 1 .. Len(b) : a[i].kind # b[j].kind
  BY <1>2, <1>3
<1> QED BY <1>1, <1>2, <1>3, <1>4, <1>5, <1>6, JoinedLists

(* The part of a list that is in one module has no file twice.             *)
LEMMA SamePath ==
  ASSUME NEW r, NEW s, r.module = s.module, r.file = s.file,
         r.kind \in {"types", "unions"} <=> s.kind \in {"types", "unions"}
  PROVE  PathOf(r) = PathOf(s)
BY DEF PathOf, Dir, Top

LEMMA BelowModule ==
  ASSUME Finished, NEW items, items = Types \/ items = Services, NEW m \in Modules(items)
  PROVE  Below(<<>>, m) = <<m>> /\ Below(<<TypesName>>, m) = <<TypesName, m>>
<1>1. PICK r \in Everything : r.module = m /\ m # <<>>
  BY TypesAll, ServicesAll DEF Modules
<1>2. Components(m) = <<m>>
  BY <1>1, NamesFound, FoundWhole
<1>3. <<TypesName>> \o <<m>> = <<TypesName, m>> /\ <<>> \o <<m>> = <<m>>
  <2>1. <<TypesName>> \o <<m>> = <<TypesName, m>>
    BY Pairs
  <2>2. <<>> \o <<m>> = <<m>>
    <3>1. <<m>> \in Seq({m})
      OBVIOUS
    <3> QED BY <3>1, ConcatEmptySeq
  <2> QED BY <2>1, <2>2
<1> QED BY <1>1, <1>2, <1>3 DEF Below

LEMMA PartOnce ==
  ASSUME Finished, NEW items, items = Types \/ items = Services, NEW module
  PROVE  /\ items \in Seq(Everything)
         /\ IsFiniteSet(Modules(items))
         /\ In(items, module) \in Seq(Everything)
         /\ Range(In(items, module)) = {r \in Range(items) : r.module = module}
         /\ \A i, j \in DOMAIN In(items, module) :
              In(items, module)[i].file = In(items, module)[j].file => i = j
<1>1. /\ items \in Seq(Everything)
      /\ \A i, j \in 1 .. Len(items) : PathOf(items[i]) = PathOf(items[j]) => i = j
      /\ \A r, s \in Range(items) : r.kind \in {"types", "unions"} <=> s.kind \in {"types", "unions"}
  BY TypesAll, ServicesAll
<1>2. DOMAIN items = 1 .. Len(items) /\ Len(items) \in Nat
  BY <1>1, LenProperties
<1>3. ASSUME NEW i \in DOMAIN items, NEW j \in DOMAIN items,
             items[i].module = items[j].module, items[i].file = items[j].file
      PROVE  i = j
  <2>1. items[i] \in Range(items) /\ items[j] \in Range(items)
    BY DEF Range
  <2>2. PathOf(items[i]) = PathOf(items[j])
    BY <1>1, <1>3, <2>1, SamePath
  <2> QED BY <1>1, <1>2, <2>2
<1>4. IsFiniteSet(Modules(items))
  <2>1. IsFiniteSet(DOMAIN items)
    BY <1>2, FS_Interval
  <2> DEFINE f == [i \in DOMAIN items |-> items[i].module]
             T == {items[i].module : i \in DOMAIN items}
  <2>2. f \in Surjection(DOMAIN items, T)
    BY DEF Surjection
  <2>3. IsFiniteSet(T)
    BY <2>1, <2>2, FS_Surjection
  <2>4. Modules(items) \subseteq T
    BY DEF Modules, Range
  <2> QED BY <2>3, <2>4, FS_Subset
<1>5. \A i, j \in DOMAIN items :
        items[i].module = module /\ items[j].module = module
          /\ items[i].file = items[j].file => i = j
  BY <1>3
<1> QED
  BY <1>1, <1>4, <1>5, InFacts, InOnce

LEMMA ItemFilesFacts ==
  ASSUME NEW S, NEW items \in Seq(S), NEW W, \A r \in S : ItemFile(r) \in W
  PROVE  /\ ItemFiles(items) \in Seq(W)
         /\ Range(ItemFiles(items)) = {ItemFile(r) : r \in Range(items)}
<1>1. Len(items) \in Nat /\ DOMAIN items = 1 .. Len(items) /\ \A i \in DOMAIN items : items[i] \in S
  BY LenProperties
<1>2. ItemFiles(items) \in [1 .. Len(items) -> W]
  BY <1>1 DEF ItemFiles
<1>3. ItemFiles(items) \in Seq(W)
  BY <1>1, <1>2
<1>4. Range(ItemFiles(items)) = {ItemFile(items[i]) : i \in DOMAIN items}
  BY DEF ItemFiles, Range
<1>5. Range(items) = {items[i] : i \in DOMAIN items}
  BY DEF Range
<1> QED BY <1>3, <1>4, <1>5

(* One module is written for its items, and its index.                     *)
LEMMA ModuleFacts ==
  ASSUME NEW S, NEW items \in Seq(S), NEW dir, NEW W, \A r \in S : ItemFile(r) \in W,
         Index(dir, Declarations(items)) \in W
  PROVE  /\ Module(dir, items) \in Seq(W)
         /\ Range(Module(dir, items)) =
              {ItemFile(r) : r \in Range(items)} \cup {Index(dir, Declarations(items))}
<1> DEFINE a == ItemFiles(items)
           b == Index(dir, Declarations(items))
<1>1. a \in Seq(W) /\ Range(a) = {ItemFile(r) : r \in Range(items)} /\ b \in W
  BY ItemFilesFacts
<1>2. Module(dir, items) = Append(a, b)
  BY DEF Module
<1> HIDE DEF a, b
<1>3. /\ Append(a, b) \in Seq(W) /\ Len(Append(a, b)) = Len(a) + 1 /\ Len(a) \in Nat
      /\ \A i \in 1 .. Len(a) : Append(a, b)[i] = a[i]
      /\ Append(a, b)[Len(a) + 1] = b
  BY <1>1, AppendProperties, LenProperties
<1>4. Range(Append(a, b)) = Range(a) \cup {b}
  <2>1. DOMAIN Append(a, b) = 1 .. (Len(a) + 1) /\ DOMAIN a = 1 .. Len(a)
    BY <1>1, <1>3, LenProperties
  <2>2. \A x \in Range(Append(a, b)) : x \in Range(a) \cup {b}
    BY <1>3, <2>1 DEF Range
  <2>3. \A x \in Range(a) : x \in Range(Append(a, b))
    <3> SUFFICES ASSUME NEW i \in 1 .. Len(a) PROVE a[i] \in Range(Append(a, b))
      BY <2>1 DEF Range
    <3>1. i \in DOMAIN Append(a, b) /\ Append(a, b)[i] = a[i]
      BY <1>3, <2>1
    <3> HIDE <1>3
    <3> QED BY <3>1 DEF Range
  <2>4. b \in Range(Append(a, b))
    BY <1>3, <2>1 DEF Range
  <2> QED BY <2>2, <2>3, <2>4
<1> QED BY <1>1, <1>2, <1>3, <1>4 DEF b

(* Every module of a list is written.                                      *)
LEMMA ModuleFilesFacts ==
  ASSUME NEW S, NEW items \in Seq(S), IsFiniteSet(Modules(items)), NEW dir,
         NEW W, \A r \in S : ItemFile(r) \in W,
         \A m \in Modules(items) : Index(Below(dir, m), Declarations(In(items, m))) \in W
  PROVE  /\ ModuleFiles(dir, items) \in Seq(W)
         /\ Range(ModuleFiles(dir, items)) =
              {ItemFile(r) : r \in {r \in Range(items) : r.module # <<>>}}
                \cup {Index(Below(dir, m), Declarations(In(items, m))) : m \in Modules(items)}
<1> DEFINE modules == SetToSeq(Modules(items))
           pieces == [i \in DOMAIN modules |->
                        Module(Below(dir, modules[i]), In(items, modules[i]))]
           Written(m) == {ItemFile(r) : r \in {r \in Range(items) : r.module = m}}
                           \cup {Index(Below(dir, m), Declarations(In(items, m)))}
<1>1. modules \in Seq(Modules(items)) /\ Range(modules) = Modules(items)
  BY ListOfSet
<1>2. /\ Len(modules) \in Nat /\ DOMAIN modules = 1 .. Len(modules)
      /\ \A i \in DOMAIN modules : modules[i] \in Modules(items)
  BY <1>1, LenProperties
<1>3. ASSUME NEW m \in Modules(items)
      PROVE  /\ Module(Below(dir, m), In(items, m)) \in Seq(W)
             /\ Range(Module(Below(dir, m), In(items, m))) = Written(m)
  <2>1. In(items, m) \in Seq(S) /\ Range(In(items, m)) = {r \in Range(items) : r.module = m}
    BY InFacts
  <2>2. Index(Below(dir, m), Declarations(In(items, m))) \in W
    OBVIOUS
  <2>3. /\ Module(Below(dir, m), In(items, m)) \in Seq(W)
        /\ Range(Module(Below(dir, m), In(items, m))) =
             {ItemFile(r) : r \in Range(In(items, m))}
               \cup {Index(Below(dir, m), Declarations(In(items, m)))}
    BY <2>1, <2>2, ModuleFacts
  <2> QED BY <2>1, <2>3
<1>4. ModuleFiles(dir, items) = FlattenSeq(pieces)
  BY Zenon DEF ModuleFiles
<1>5. \A i \in DOMAIN modules : pieces[i] \in Seq(W) /\ Range(pieces[i]) = Written(modules[i])
  <2> HIDE DEF Written, modules
  <2> QED BY <1>2, <1>3
<1>6. pieces \in Seq(Seq(W)) /\ Len(pieces) = Len(modules)
  <2>1. DOMAIN pieces = DOMAIN modules
    OBVIOUS
  <2> HIDE DEF modules, Written
  <2>2. pieces \in [1 .. Len(modules) -> Seq(W)]
    BY <1>2, <1>5
  <2> QED BY <1>2, <2>2
<1> HIDE DEF pieces
<1>7. /\ FlattenSeq(pieces) \in Seq(W)
      /\ Range(FlattenSeq(pieces)) = UNION {Range(pieces[i]) : i \in 1 .. Len(pieces)}
  BY <1>6, FlattenRange
<1> HIDE DEF modules
<1>8. UNION {Range(pieces[i]) : i \in 1 .. Len(pieces)} = UNION {Written(m) : m \in Modules(items)}
  <2> HIDE DEF Written
  <2>1. \A i \in DOMAIN modules : Range(pieces[i]) = Written(modules[i])
    BY <1>5
  <2>2. \A m \in Modules(items) : \E i \in DOMAIN modules : m = modules[i]
    BY <1>1 DEF Range
  <2>3. 1 .. Len(pieces) = DOMAIN modules
    BY <1>2, <1>6
  <2> QED BY <1>2, <2>1, <2>2, <2>3
<1>9. UNION {Written(m) : m \in Modules(items)} =
        {ItemFile(r) : r \in {r \in Range(items) : r.module # <<>>}}
          \cup {Index(Below(dir, m), Declarations(In(items, m))) : m \in Modules(items)}
  <2>1. \A r \in Range(items) : r.module # <<>> <=> r.module \in Modules(items)
    BY DEF Modules
  <2>2. \A m \in Modules(items) : m # <<>>
    BY DEF Modules
  <2> QED BY <2>1, <2>2
<1> QED BY <1>4, <1>7, <1>8, <1>9

-----------------------------------------------------------------------------
(* What is written: an item's file for everything, the indexes, Cargo.toml. *)

ServiceIndexes == {Index(<<m>>, Declarations(In(Services, m))) : m \in Modules(Services)}

TypeIndexes ==
  {Index(<<TypesName, m>>, Declarations(In(Types, m))) : m \in Modules(Types)}

Written ==
  {CargoToml, LibRs} \cup {ItemFile(r) : r \in Everything} \cup ServiceIndexes
    \cup IF Types = <<>> THEN {} ELSE TypeIndexes \cup {TypesMod}

LEMMA Concatenated ==
  ASSUME NEW S, NEW a \in Seq(S), NEW b \in Seq(S)
  PROVE  a \o b \in Seq(S) /\ Range(a \o b) = Range(a) \cup Range(b)
BY ConcatProperties, RangeConcatenation

LEMMA SingleFacts ==
  ASSUME NEW S, NEW a \in S
  PROVE  <<a>> \in Seq(S) /\ Range(<<a>>) = {a}
BY DEF Range

LEMMA ServicesWritten ==
  ASSUME Finished
  PROVE  LET a == ItemFiles(In(Services, <<>>))
             b == ModuleFiles(<<>>, Services) IN
         /\ a \in Seq(Written) /\ b \in Seq(Written)
         /\ Range(a) \cup Range(b) =
              {ItemFile(r) : r \in {r \in Everything : r.kind \in {"resources", "functions"}}}
                \cup ServiceIndexes
<1> DEFINE a == ItemFiles(In(Services, <<>>))
           b == ModuleFiles(<<>>, Services)
           d == <<>>
           Mine == {r \in Everything : r.kind \in {"resources", "functions"}}
<1>1. Services \in Seq(Everything) /\ Range(Services) = Mine
  BY ServicesAll
<1>2. /\ IsFiniteSet(Modules(Services)) /\ In(Services, <<>>) \in Seq(Everything)
      /\ Range(In(Services, <<>>)) = {r \in Range(Services) : r.module = <<>>}
  BY PartOnce
<1>3. \A r \in Everything : ItemFile(r) \in Written
  BY DEF Written
<1>4. \A m \in Modules(Services) : Below(d, m) = <<m>>
  BY BelowModule
<1> HIDE DEF d
<1>5. \A m \in Modules(Services) : Index(Below(d, m), Declarations(In(Services, m))) \in Written
  BY <1>4 DEF Written, ServiceIndexes
<1>6. a \in Seq(Written) /\ Range(a) = {ItemFile(r) : r \in Range(In(Services, <<>>))}
  BY <1>2, <1>3, ItemFilesFacts
<1>7. /\ ModuleFiles(d, Services) \in Seq(Written)
      /\ Range(ModuleFiles(d, Services)) =
           {ItemFile(r) : r \in {r \in Range(Services) : r.module # <<>>}}
             \cup {Index(Below(d, m), Declarations(In(Services, m))) : m \in Modules(Services)}
  BY <1>1, <1>2, <1>3, <1>5, ModuleFilesFacts
<1>8. {Index(Below(d, m), Declarations(In(Services, m))) : m \in Modules(Services)}
        = ServiceIndexes
  <2> DEFINE X(m) == Declarations(In(Services, m))
  <2> HIDE DEF X
  <2>1. \A m \in Modules(Services) : Index(Below(d, m), X(m)) = Index(<<m>>, X(m))
    BY <1>4
  <2>2. {Index(Below(d, m), X(m)) : m \in Modules(Services)}
          = {Index(<<m>>, X(m)) : m \in Modules(Services)}
    BY <2>1
  <2>3. ServiceIndexes = {Index(<<m>>, X(m)) : m \in Modules(Services)}
    BY DEF ServiceIndexes, X
  <2> QED BY <2>2, <2>3 DEF X
<1>11. b = ModuleFiles(d, Services)
  BY DEF d
<1> HIDE DEF a, b
<1>9. Range(a) \cup Range(b) = {ItemFile(r) : r \in Range(Services)} \cup ServiceIndexes
  BY <1>2, <1>6, <1>7, <1>8, <1>11
<1>10. Range(a) \cup Range(b) = {ItemFile(r) : r \in Mine} \cup ServiceIndexes
  BY <1>1, <1>9
<1> QED BY <1>6, <1>7, <1>10, <1>11 DEF a, b

LEMMA TypesWritten ==
  ASSUME Finished
  PROVE  /\ TypesDir \in Seq(Written)
         /\ Range(TypesDir) =
              {ItemFile(r) : r \in {r \in Everything : r.kind \in {"types", "unions"}}}
                \cup IF Types = <<>> THEN {} ELSE TypeIndexes \cup {TypesMod}
<1> DEFINE Mine == {r \in Everything : r.kind \in {"types", "unions"}}
<1>1. Types \in Seq(Everything) /\ Range(Types) = Mine
  BY TypesAll
<1>2. CASE Types = <<>>
  <2>1. Range(<<>>) = {} /\ <<>> \in Seq(Written)
    BY DEF Range
  <2>2. Mine = {}
    BY <1>1, <1>2, <2>1
  <2>3. TypesDir = <<>>
    BY <1>2 DEF TypesDir
  <2>4. {ItemFile(r) : r \in Mine} = {}
    BY <2>2
  <2> HIDE DEF Mine
  <2>5. Range(TypesDir) = {ItemFile(r) : r \in Mine} \cup {}
    BY <2>1, <2>3, <2>4
  <2> QED BY <1>2, <2>1, <2>3, <2>5 DEF Mine
<1>3. CASE Types # <<>>
  <2> DEFINE t == <<TypesName>>
             a == ItemFiles(In(Types, <<>>))
             b == ModuleFiles(t, Types)
             c == <<TypesMod>>
  <2>2. /\ IsFiniteSet(Modules(Types)) /\ In(Types, <<>>) \in Seq(Everything)
        /\ Range(In(Types, <<>>)) = {r \in Range(Types) : r.module = <<>>}
    BY PartOnce
  <2>3. \A r \in Everything : ItemFile(r) \in Written
    BY DEF Written
  <2>4. \A m \in Modules(Types) : Below(t, m) = <<TypesName, m>>
    BY BelowModule
  <2>5. TypesMod \in Written /\ TypeIndexes \subseteq Written
    BY <1>3 DEF Written
  <2>6. /\ {Index(Below(t, m), Declarations(In(Types, m))) : m \in Modules(Types)} = TypeIndexes
        /\ \A m \in Modules(Types) : Index(Below(t, m), Declarations(In(Types, m))) \in Written
    <3> DEFINE X(m) == Declarations(In(Types, m))
    <3> HIDE DEF t, X
    <3>1. \A m \in Modules(Types) : Index(Below(t, m), X(m)) = Index(<<TypesName, m>>, X(m))
      BY <2>4
    <3>2. {Index(Below(t, m), X(m)) : m \in Modules(Types)}
            = {Index(<<TypesName, m>>, X(m)) : m \in Modules(Types)}
      BY <3>1
    <3>3. TypeIndexes = {Index(<<TypesName, m>>, X(m)) : m \in Modules(Types)}
      BY DEF TypeIndexes, X
    <3>4. \A m \in Modules(Types) : Index(Below(t, m), X(m)) \in TypeIndexes
      BY <3>2, <3>3
    <3>5. \A m \in Modules(Types) : Index(Below(t, m), X(m)) \in Written
      BY <2>5, <3>4
    <3> QED BY <3>2, <3>3, <3>5 DEF X
  <2>7. a \in Seq(Written) /\ Range(a) = {ItemFile(r) : r \in Range(In(Types, <<>>))}
    BY <2>2, <2>3, ItemFilesFacts
  <2>8. /\ b \in Seq(Written)
        /\ Range(b) = {ItemFile(r) : r \in {r \in Range(Types) : r.module # <<>>}}
             \cup {Index(Below(t, m), Declarations(In(Types, m))) : m \in Modules(Types)}
    <3>1. Types \in Seq(Everything) /\ IsFiniteSet(Modules(Types))
      BY <1>1, <2>2
    <3>2. \A m \in Modules(Types) : Index(Below(t, m), Declarations(In(Types, m))) \in Written
      BY <2>6
    <3> HIDE DEF t
    <3>3. /\ ModuleFiles(t, Types) \in Seq(Written)
          /\ Range(ModuleFiles(t, Types)) =
               {ItemFile(r) : r \in {r \in Range(Types) : r.module # <<>>}}
                 \cup {Index(Below(t, m), Declarations(In(Types, m))) : m \in Modules(Types)}
      <4> HIDE DEF a, b, c, Mine
      <4>1. Types \in Seq(Everything)
        BY <3>1
      <4>2. IsFiniteSet(Modules(Types))
        BY <3>1
      <4>3. ModuleFiles(t, Types) \in Seq(Written)
        BY <2>3, <3>2, <4>1, <4>2, ModuleFilesFacts
      <4>4. Range(ModuleFiles(t, Types)) =
               {ItemFile(r) : r \in {r \in Range(Types) : r.module # <<>>}}
                 \cup {Index(Below(t, m), Declarations(In(Types, m))) : m \in Modules(Types)}
        BY <2>3, <3>2, <4>1, <4>2, ModuleFilesFacts
      <4> QED BY <4>3, <4>4
    <3> QED BY <3>3
  <2>9. c \in Seq(Written) /\ Range(c) = {TypesMod}
    BY <2>5, SingleFacts
  <2>10. TypesDir = a \o b \o c
    BY <1>3 DEF TypesDir
  <2> HIDE DEF a, b, c
  <2>11. a \o b \in Seq(Written) /\ Range(a \o b) = Range(a) \cup Range(b)
    BY <2>7, <2>8, Concatenated
  <2>12. TypesDir \in Seq(Written) /\ Range(TypesDir) = Range(a) \cup Range(b) \cup Range(c)
    <3> DEFINE d == a \o b
    <3> HIDE DEF d
    <3>1. d \in Seq(Written) /\ Range(d) = Range(a) \cup Range(b) /\ TypesDir = d \o c
      BY <2>10, <2>11 DEF d
    <3> QED BY <2>9, <3>1, Concatenated
  <2>13. Range(a) \cup Range(b) = {ItemFile(r) : r \in Range(Types)} \cup TypeIndexes
    <3> HIDE DEF t
    <3> QED BY <2>2, <2>6, <2>7, <2>8
  <2>14. {ItemFile(r) : r \in Range(Types)} = {ItemFile(r) : r \in Mine}
    BY <1>1
  <2> HIDE DEF Mine
  <2>15. Range(TypesDir) = {ItemFile(r) : r \in Mine} \cup (TypeIndexes \cup {TypesMod})
    BY <2>9, <2>12, <2>13, <2>14
  <2> QED BY <1>3, <2>12, <2>15 DEF Mine
<1> QED BY <1>2, <1>3

LEMMA WritesAll ==
  ASSUME Finished
  PROVE  Writes \in Seq(Written) /\ Range(Writes) = Written
<1> DEFINE a == <<CargoToml>>
           b == ItemFiles(In(Services, <<>>))
           c == ModuleFiles(<<>>, Services)
           e == <<LibRs>>
           Its(kinds) == {ItemFile(r) : r \in {r \in Everything : r.kind \in kinds}}
<1>1. a \in Seq(Written) /\ Range(a) = {CargoToml} /\ e \in Seq(Written) /\ Range(e) = {LibRs}
  <2>1. CargoToml \in Written /\ LibRs \in Written
    BY DEF Written
  <2> QED BY <2>1, SingleFacts
<1>2. /\ b \in Seq(Written) /\ c \in Seq(Written)
      /\ Range(b) \cup Range(c) = Its({"resources", "functions"}) \cup ServiceIndexes
  BY ServicesWritten
<1>3. /\ TypesDir \in Seq(Written)
      /\ Range(TypesDir) = Its({"types", "unions"})
           \cup IF Types = <<>> THEN {} ELSE TypeIndexes \cup {TypesMod}
  BY TypesWritten
<1>4. Writes = a \o b \o c \o TypesDir \o e
  BY DEF Writes
<1>5. \A r \in Everything : r.kind \in {"types", "unions"} \/ r.kind \in {"resources", "functions"}
  BY EverythingShape DEF Lists
<1>6. Its({"resources", "functions"}) \cup Its({"types", "unions"}) = {ItemFile(r) : r \in Everything}
  BY <1>5
<1> HIDE DEF a, b, c, e, Its
<1>7. ASSUME NEW x \in Seq(Written), NEW y \in Seq(Written)
      PROVE  x \o y \in Seq(Written) /\ Range(x \o y) = Range(x) \cup Range(y)
  BY Concatenated
<1>8. PICK x : x = a \o b
  OBVIOUS
<1>9. PICK y : y = x \o c
  OBVIOUS
<1>12. PICK z : z = y \o TypesDir
  OBVIOUS
<1>10. /\ Writes \in Seq(Written)
       /\ Range(Writes) = Range(a) \cup Range(b) \cup Range(c) \cup Range(TypesDir) \cup Range(e)
  <2>1. x \in Seq(Written) /\ Range(x) = Range(a) \cup Range(b)
    BY <1>1, <1>2, <1>7, <1>8
  <2>2. y \in Seq(Written) /\ Range(y) = Range(x) \cup Range(c)
    BY <1>2, <1>7, <1>9, <2>1
  <2>3. z \in Seq(Written) /\ Range(z) = Range(y) \cup Range(TypesDir)
    BY <1>3, <1>7, <1>12, <2>2
  <2>4. Writes = z \o e
    BY <1>4, <1>8, <1>9, <1>12
  <2> HIDE DEF Writes
  <2>5. Writes \in Seq(Written) /\ Range(Writes) = Range(z) \cup Range(e)
    BY <1>1, <1>7, <2>3, <2>4
  <2> QED BY <2>1, <2>2, <2>3, <2>5
<1>11. Range(Writes) = {CargoToml, LibRs}
         \cup (Its({"resources", "functions"}) \cup Its({"types", "unions"})) \cup ServiceIndexes
         \cup IF Types = <<>> THEN {} ELSE TypeIndexes \cup {TypesMod}
  BY <1>1, <1>2, <1>3, <1>10
<1> QED BY <1>6, <1>10, <1>11 DEF Written

LEMMA IndexPaths ==
  ASSUME NEW x, NEW m
  PROVE  /\ Index(<<>>, x)[1] = <<LibName>>
         /\ Index(<<m>>, x)[1] = <<m, ModName>>
         /\ Index(<<TypesName, m>>, x)[1] = <<TypesName, m, ModName>>
<1> DEFINE t == TypesName
           mod == ModName
<1> HIDE DEF t, mod
<1>1. <<m>> # <<>> /\ <<t, m>> # <<>>
  OBVIOUS
<1>2. Append(<<m>>, mod) = <<m, mod>> /\ Append(<<t, m>>, mod) = <<t, m, mod>>
  BY Pairs
<1> USE DEF t, mod
<1>3. /\ Index(<<m>>, x) = <<Append(<<m>>, mod), [kind |-> "index", declares |-> x]>>
      /\ Index(<<t, m>>, x) = <<Append(<<t, m>>, mod), [kind |-> "index", declares |-> x]>>
      /\ Index(<<>>, x) = << <<LibName>>, [kind |-> "index", declares |-> x]>>
  BY <1>1 DEF Index
<1> HIDE DEF t, mod
<1>4. Index(<<m>>, x)[1] = <<m, mod>> /\ Index(<<t, m>>, x)[1] = <<t, m, mod>>
  BY <1>2, <1>3
<1>5. Index(<<>>, x)[1] = <<LibName>>
  BY <1>3
<1> QED BY <1>4, <1>5 DEF t, mod

(* No item is at the path of an index, of lib.rs or of Cargo.toml.         *)
LEMMA ItemPaths ==
  ASSUME Finished, NEW r \in Everything
  PROVE  /\ PathOf(r) # <<>> /\ PathOf(r) # <<LibName>>
         /\ \A m : PathOf(r) # <<m, ModName>>
         /\ \A m, n : PathOf(r) # <<m, n, ModName>>
<1> DEFINE mod == ModName
<1>1. ~Reserved
  BY DEF Finished, Clash
<1>2. /\ ~(Last(PathOf(r)) = mod /\ Dir(r) # <<>>)
      /\ PathOf(r) # <<LibName>>
  BY <1>1 DEF Reserved
<1> HIDE DEF mod
<1>3. \A a, b : Last(<<a, b>>) = b
  BY DEF Last
<1>4. \A a, b, c : Last(<<a, b, c>>) = c
  BY DEF Last
<1>5. \A a, b, c : <<a>> # <<>> /\ <<a, b>> # <<>> /\ <<a, b, c>> # <<>>
  OBVIOUS
<1>6. \/ Dir(r) = <<>> /\ PathOf(r) = <<r.file>>
      \/ \E a : Dir(r) = <<a>> /\ PathOf(r) = <<a, r.file>>
      \/ \E a, b : Dir(r) = <<a, b>> /\ PathOf(r) = <<a, b, r.file>>
  BY Places
<1>7. CASE Dir(r) = <<>> /\ PathOf(r) = <<r.file>>
  BY <1>2, <1>7 DEF mod
<1>8. CASE \E a : Dir(r) = <<a>> /\ PathOf(r) = <<a, r.file>>
  <2>1. PICK a : Dir(r) = <<a>> /\ PathOf(r) = <<a, r.file>>
    BY <1>8
  <2>2. r.file # mod
    BY <1>2, <1>3, <1>5, <2>1
  <2> QED BY <1>2, <2>1, <2>2 DEF mod
<1>9. CASE \E a, b : Dir(r) = <<a, b>> /\ PathOf(r) = <<a, b, r.file>>
  <2>1. PICK a, b : Dir(r) = <<a, b>> /\ PathOf(r) = <<a, b, r.file>>
    BY <1>9
  <2>2. r.file # mod
    BY <1>2, <1>4, <1>5, <2>1
  <2> QED BY <1>2, <2>1, <2>2 DEF mod
<1> QED BY <1>6, <1>7, <1>8, <1>9

(* No module of the services is called types.                              *)
LEMMA ModulesApart ==
  ASSUME Finished, NEW m \in Modules(Services)
  PROVE  m # TypesName
<1>1. PICK r \in Range(Services) : r.module = m
  BY DEF Modules
<1>2. r \in Everything /\ r.kind \in {"resources", "functions"}
  BY <1>1, ServicesAll
<1> QED BY <1>1, <1>2 DEF Finished, Clash, Reserved

LEMMA WrittenPaths ==
  ASSUME Finished, NEW v \in Written
  PROVE  \/ \E r \in Everything : v = ItemFile(r) /\ v[1] = PathOf(r)
         \/ v = CargoToml /\ v[1] = <<>>
         \/ v = LibRs /\ v[1] = <<LibName>>
         \/ v = TypesMod /\ v[1] = <<TypesName, ModName>>
         \/ \E m : /\ m # TypesName /\ v = Index(<<m>>, Declarations(In(Services, m)))
                   /\ v[1] = <<m, ModName>>
         \/ \E m : /\ v = Index(<<TypesName, m>>, Declarations(In(Types, m)))
                   /\ v[1] = <<TypesName, m, ModName>>
<1>1. CASE \E r \in Everything : v = ItemFile(r)
  BY <1>1 DEF ItemFile
<1>2. CASE v = CargoToml
  BY <1>2 DEF CargoToml
<1>3. CASE v = LibRs
  BY <1>3, IndexPaths DEF LibRs
<1>4. CASE v = TypesMod
  BY <1>4, IndexPaths DEF TypesMod
<1>5. CASE v \in ServiceIndexes
  <2>1. PICK m \in Modules(Services) : v = Index(<<m>>, Declarations(In(Services, m)))
    BY <1>5 DEF ServiceIndexes
  <2>2. v[1] = <<m, ModName>>
    BY <2>1, IndexPaths
  <2> QED BY <2>1, <2>2, ModulesApart
<1>6. CASE v \in TypeIndexes
  <2>1. PICK m \in Modules(Types) : v = Index(<<TypesName, m>>, Declarations(In(Types, m)))
    BY <1>6 DEF TypeIndexes
  <2>2. v[1] = <<TypesName, m, ModName>>
    BY <2>1, IndexPaths
  <2> QED BY <2>1, <2>2
<1> QED BY <1>1, <1>2, <1>3, <1>4, <1>5, <1>6 DEF Written

(* Nothing written is at the path of something else.                       *)
LEMMA WrittenOnce ==
  ASSUME Finished, NEW v \in Written, NEW w \in Written, v[1] = w[1]
  PROVE  v = w
<1> DEFINE t == TypesName
           mod == ModName
           lib == <<LibName>>
           Service(m) == Index(<<m>>, Declarations(In(Services, m)))
           Type(m) == Index(<<t, m>>, Declarations(In(Types, m)))
           IsItem(x) == \E r \in Everything : x = ItemFile(r) /\ x[1] = PathOf(r)
           IsIndex(x) == \/ x = CargoToml /\ x[1] = <<>>
                         \/ x = LibRs /\ x[1] = lib
                         \/ x = TypesMod /\ x[1] = <<t, mod>>
                         \/ \E m : m # t /\ x = Service(m) /\ x[1] = <<m, mod>>
                         \/ \E m : x = Type(m) /\ x[1] = <<t, m, mod>>
<1>1. \A x \in Written : IsItem(x) \/ IsIndex(x)
  BY WrittenPaths
<1>2. ASSUME NEW x \in Written, NEW y \in Written, IsItem(x), IsIndex(y) PROVE x[1] # y[1]
  <2>1. PICK r \in Everything : x[1] = PathOf(r)
    BY <1>2
  <2>2. /\ PathOf(r) # <<>> /\ PathOf(r) # lib /\ \A m : PathOf(r) # <<m, mod>>
        /\ \A m, n : PathOf(r) # <<m, n, mod>>
    BY ItemPaths
  <2>3. y[1] = <<>> \/ y[1] = lib \/ y[1] = <<t, mod>> \/ (\E m : y[1] = <<m, mod>>)
          \/ \E m : y[1] = <<t, m, mod>>
    BY <1>2
  <2> HIDE DEF lib, mod, t
  <2> QED BY <2>1, <2>2, <2>3
<1>3. CASE IsItem(v) /\ IsItem(w)
  <2>1. PICK r \in Everything : v = ItemFile(r) /\ v[1] = PathOf(r)
    BY <1>3
  <2>2. PICK s \in Everything : w = ItemFile(s) /\ w[1] = PathOf(s)
    BY <1>3
  <2>3. r = s
    BY <2>1, <2>2 DEF Finished, Clash, SamePlace
  <2> QED BY <2>1, <2>2, <2>3
<1>4. CASE IsIndex(v) /\ IsIndex(w)
  <2>1. lib = <<LibName>> /\ mod # t
    BY DEF ModName, TypesName
  <2>2. PICK l : lib = <<l>>
    BY <2>1
  <2> HIDE DEF lib, mod, t, Service, Type
  <2>3. CASE v[1] = <<>> \/ v[1] = lib
    <3>1. v = w \/ \E a, b, c : w[1] = <<a, b>> \/ w[1] = <<a, b, c>> \/ (v[1] = lib /\ w[1] = <<>>)
                                  \/ (v[1] = <<>> /\ w[1] = lib)
      BY <1>4, <2>3, <2>2
    <3>2. \A a, b, c : /\ <<>> # <<l>> /\ <<>> # <<a, b>> /\ <<l>> # <<a, b>>
                       /\ <<>> # <<a, b, c>> /\ <<l>> # <<a, b, c>>
      OBVIOUS
    <3> QED BY <2>2, <2>3, <3>1, <3>2
  <2>4. CASE \E m : v[1] = <<m, mod>>
    <3>1. \A a, b, c, d, e : /\ <<a, b>> # <<c>> /\ <<a, b>> # <<>> /\ <<a, b>> # <<c, d, e>>
                             /\ <<a, b>> = <<c, d>> => a = c
      OBVIOUS
    <3> QED BY <1>4, <2>2, <2>4, <3>1
  <2>5. CASE \E m : v[1] = <<t, m, mod>>
    <3>1. \A a, b, c, d, e, f :
            /\ <<a, b, c>> # <<d>> /\ <<a, b, c>> # <<>> /\ <<a, b, c>> # <<d, e>>
            /\ <<a, b, c>> = <<d, e, f>> => b = e
      OBVIOUS
    <3> QED BY <1>4, <2>2, <2>5, <3>1
  <2> QED BY <1>4, <2>3, <2>4, <2>5
<1> QED BY <1>1, <1>2, <1>3, <1>4

(* What is written is on disk at the end, and nothing else.                *)
LEMMA FilesAll ==
  ASSUME Finished
  PROVE  files = Written
<1>1. Writes \in Seq(Written) /\ Range(Writes) = Written
  BY WritesAll
<1>2. Len(Writes) \in Nat /\ DOMAIN Writes = 1 .. Len(Writes)
  BY <1>1, LenProperties
<1>3. /\ \A f \in files : \E i \in 1 .. (next - 1) : f = Writes[i]
      /\ \A i \in 1 .. (next - 1) : \E f \in files : f[1] = Writes[i][1]
      /\ \A i \in 1 .. (next - 1) : i <= Len(Writes)
      /\ next > Len(Writes) /\ next \in Nat \ {0}
  BY ListsApart DEF Finished, CodegenInv, FilesWritten, Typed
<1> HIDE DEF Writes
<1>4. 1 .. (next - 1) = DOMAIN Writes
  BY <1>2, <1>3
<1>5. files \subseteq Written
  BY <1>1, <1>3, <1>4 DEF Range
<1>6. ASSUME NEW w \in Written PROVE w \in files
  <2>1. PICK i \in DOMAIN Writes : w = Writes[i]
    BY <1>1 DEF Range
  <2>2. PICK f \in files : f[1] = w[1]
    BY <1>3, <1>4, <2>1
  <2>3. f = w
    BY <1>5, <2>2, WrittenOnce
  <2> QED BY <2>2, <2>3
<1> QED BY <1>5, <1>6

-----------------------------------------------------------------------------
(* The indexes lead to everything.                                         *)

Once(s, x) == \E i \in DOMAIN s : \A j \in DOMAIN s : s[j] = x <=> j = i

Named == {r.file : r \in Everything} \cup {r.module : r \in Everything} \cup {TypesName}

LEMMA OnceJoined ==
  ASSUME NEW S, NEW s \in Seq(S), NEW t \in Seq(S), NEW x,
         \/ Once(s, x) /\ x \notin Range(t)
         \/ x \notin Range(s) /\ Once(t, x)
  PROVE  Once(s \o t, x)
<1> DEFINE c == s \o t
           k == Len(s)
           n == Len(t)
<1>1. k \in Nat /\ n \in Nat /\ DOMAIN s = 1 .. k /\ DOMAIN t = 1 .. n
  BY LenProperties
<1>2. /\ c \in Seq(S) /\ Len(c) = k + n
      /\ \A i \in 1 .. k + n : c[i] = IF i <= k THEN s[i] ELSE t[i - k]
  BY ConcatProperties
<1> HIDE DEF c, k, n
<1>3. DOMAIN c = 1 .. k + n
  BY <1>2, LenProperties
<1>4. /\ \A i \in 1 .. k : i \in 1 .. k + n /\ c[i] = s[i]
      /\ \A i \in 1 .. n : i + k \in 1 .. k + n /\ c[i + k] = t[i]
  BY <1>1, <1>2
<1>5. \A j \in 1 .. k + n : j \in 1 .. k \/ \E i \in 1 .. n : j = i + k
  <2> SUFFICES ASSUME NEW j \in 1 .. k + n, j \notin 1 .. k PROVE \E i \in 1 .. n : j = i + k
    OBVIOUS
  <2>1. j - k \in 1 .. n /\ j = (j - k) + k
    BY <1>1
  <2> QED BY <2>1
<1>6. CASE Once(s, x) /\ x \notin Range(t)
  <2>0. PICK i \in DOMAIN s : \A j \in DOMAIN s : s[j] = x <=> j = i
    BY <1>6, Zenon DEF Once
  <2>1. i \in 1 .. k /\ \A j \in 1 .. k : s[j] = x <=> j = i
    BY <1>1, <2>0
  <2>2. \A j \in 1 .. n : t[j] # x
    BY <1>1, <1>6 DEF Range
  <2>3. \A j \in 1 .. n : j + k # i
    BY <1>1
  <2>4. ASSUME NEW j \in 1 .. k + n PROVE c[j] = x <=> j = i
    <3>1. CASE j \in 1 .. k
      BY <1>4, <2>1, <3>1
    <3>2. CASE \E l \in 1 .. n : j = l + k
      BY <1>4, <2>2, <2>3, <3>2
    <3> QED BY <1>5, <3>1, <3>2
  <2>5. i \in DOMAIN c
    BY <1>3, <1>4, <2>1
  <2> QED BY <1>3, <2>4, <2>5 DEF Once, c
<1>7. CASE x \notin Range(s) /\ Once(t, x)
  <2>0. PICK i \in DOMAIN t : \A j \in DOMAIN t : t[j] = x <=> j = i
    BY <1>7, Zenon DEF Once
  <2>1. i \in 1 .. n /\ \A j \in 1 .. n : t[j] = x <=> j = i
    BY <1>1, <2>0
  <2>2. \A j \in 1 .. k : s[j] # x
    BY <1>1, <1>7 DEF Range
  <2>3. \A j \in 1 .. k : j # i + k
    BY <1>1
  <2>4. ASSUME NEW j \in 1 .. k + n PROVE c[j] = x <=> j = i + k
    <3>1. CASE j \in 1 .. k
      BY <1>4, <2>2, <2>3, <3>1
    <3>2. CASE \E l \in 1 .. n : j = l + k
      <4>1. PICK l \in 1 .. n : j = l + k
        BY <3>2
      <4>2. c[j] = t[l]
        BY <1>4, <4>1
      <4>3. l = i <=> j = i + k
        BY <1>1, <4>1
      <4> QED BY <2>1, <4>2, <4>3
    <3> QED BY <1>5, <3>1, <3>2
  <2>5. i + k \in DOMAIN c
    BY <1>3, <1>4, <2>1
  <2> QED BY <1>3, <2>4, <2>5 DEF Once, c
<1> QED BY <1>6, <1>7

LEMMA OnceListed ==
  ASSUME NEW T, IsFiniteSet(T), NEW x \in T
  PROVE  Once(SetToSeq(T), x)
<1> DEFINE s == SetToSeq(T)
<1>1. /\ s \in Seq(T) /\ Range(s) = T
      /\ \A i, j \in 1 .. Len(s) : s[i] = s[j] => i = j
  BY ListOfSet
<1> HIDE DEF s
<1>2. DOMAIN s = 1 .. Len(s)
  BY <1>1, LenProperties
<1>3. PICK i \in DOMAIN s : s[i] = x
  BY <1>1 DEF Range
<1>4. \A j \in DOMAIN s : s[j] = x <=> j = i
  BY <1>1, <1>2, <1>3
<1> QED BY <1>3, <1>4 DEF Once, s

(* The names declared for the part of a list that is in one module.        *)
LEMMA DeclaredPart ==
  ASSUME Finished, NEW items, items = Types \/ items = Services, NEW module
  PROVE  LET d == Declarations(In(items, module)) IN
         /\ d \in Seq(Named)
         /\ Range(d) = {r.file : r \in {r \in Range(items) : r.module = module}}
         /\ \A r \in Range(items) : r.module = module => Once(d, r.file)
<1> DEFINE part == In(items, module)
           d == Declarations(part)
<1>1. /\ items \in Seq(Everything) /\ part \in Seq(Everything)
      /\ Range(part) = {r \in Range(items) : r.module = module}
      /\ \A i, j \in DOMAIN part : part[i].file = part[j].file => i = j
  BY PartOnce
<1> HIDE DEF part
<1>2. d = [i \in DOMAIN part |-> part[i].file]
  BY DEF Declarations, Names
<1>3. /\ Len(part) \in Nat /\ DOMAIN part = 1 .. Len(part)
      /\ \A i \in DOMAIN part : part[i] \in Everything
  BY <1>1, LenProperties
<1> HIDE DEF d
<1>4. d \in Seq(Named)
  <2>1. \A i \in DOMAIN part : part[i].file \in Named
    BY <1>3 DEF Named
  <2>2. d \in [1 .. Len(part) -> Named]
    BY <1>2, <1>3, <2>1
  <2> QED BY <1>3, <2>2
<1>5. Range(d) = {part[i].file : i \in DOMAIN part}
  BY <1>2 DEF Range
<1>6. Range(part) = {part[i] : i \in DOMAIN part}
  BY DEF Range
<1>7. {part[i].file : i \in DOMAIN part} = {r.file : r \in Range(part)}
  BY <1>6
<1>8. ASSUME NEW r \in Range(items), r.module = module PROVE Once(d, r.file)
  <2>1. PICK i \in DOMAIN part : part[i] = r
    BY <1>1, <1>6, <1>8
  <2>2. \A j \in DOMAIN part : d[j] = r.file <=> j = i
    BY <1>1, <1>2, <2>1
  <2>3. DOMAIN d = DOMAIN part
    BY <1>2
  <2> QED BY <2>2, <2>3 DEF Once
<1>9. Range(d) = {r.file : r \in {r \in Range(items) : r.module = module}}
  BY <1>1, <1>5, <1>7
<1> QED BY <1>4, <1>8, <1>9 DEF d, part

LEMMA IndexDeclares ==
  ASSUME Finished, NEW dir, NEW d, NEW x, Index(dir, d) \in Written, Once(d, x)
  PROVE  Declares(dir, x)
<1> DEFINE f == Index(dir, d)
           content == [kind |-> "index", declares |-> d]
           path == Index(dir, <<>>)[1]
<1>1. f \in files
  BY FilesAll
<1>2. f[1] = path /\ f[2] = content
  BY DEF Index
<1>3. f[2] \in DirIndex(dir)
  <2> HIDE DEF f
  <2> QED BY <1>1, <1>2 DEF DirIndex
<1>4. content.kind = "index" /\ content.declares = d
  OBVIOUS
<1> HIDE DEF content
<1> QED BY <1>2, <1>3, <1>4 DEF Declares, Once

(* lib.rs declares every module of the services, once, what is in no       *)
(* module, and types if there are some.                                    *)
LEMMA LibDeclares ==
  ASSUME Finished
  PROVE  /\ \A m \in Modules(Services) : Declares(<<>>, m)
         /\ \A r \in Range(Services) : r.module = <<>> => Declares(<<>>, r.file)
         /\ Types # <<>> => Declares(<<>>, TypesName)
<1> DEFINE top == IF Types = <<>> THEN <<>> ELSE <<TypesName>>
           modules == SetToSeq(Modules(Services))
           d == Declarations(In(Services, <<>>))
<1>1. /\ d \in Seq(Named)
      /\ Range(d) = {r.file : r \in {r \in Range(Services) : r.module = <<>>}}
      /\ \A r \in Range(Services) : r.module = <<>> => Once(d, r.file)
  BY DeclaredPart
<1>2. Services \in Seq(Everything) /\ Range(Services) \subseteq Everything /\ IsFiniteSet(Modules(Services))
  BY ServicesAll, PartOnce
<1>3. Modules(Services) \subseteq Named
  BY <1>2 DEF Modules, Named
<1>4. modules \in Seq(Named) /\ Range(modules) = Modules(Services)
  <2>1. modules \in Seq(Modules(Services)) /\ Range(modules) = Modules(Services)
    BY <1>2, ListOfSet
  <2> HIDE DEF modules
  <2>2. Len(modules) \in Nat /\ modules \in [1 .. Len(modules) -> Modules(Services)]
    BY <2>1, LenProperties
  <2>3. modules \in [1 .. Len(modules) -> Named]
    BY <1>3, <2>2
  <2> QED BY <2>1, <2>2, <2>3
<1>5. top \in Seq(Named) /\ Range(top) = IF Types = <<>> THEN {} ELSE {TypesName}
  <2>1. TypesName \in Named
    BY DEF Named
  <2>2. <<>> \in Seq(Named) /\ Range(<<>>) = {}
    BY DEF Range
  <2>3. <<TypesName>> \in Seq(Named) /\ Range(<<TypesName>>) = {TypesName}
    BY <2>1, SingleFacts
  <2> HIDE DEF d, modules
  <2> QED BY <2>2, <2>3
<1>6. LibRs = Index(<<>>, top \o modules \o d)
  BY DEF LibRs
<1>7. \A m \in Modules(Services) : m # TypesName
  BY ModulesApart
<1>8. \A r \in Range(Services) : r.module = <<>> => r.file # TypesName /\ r.file \notin Modules(Services)
  <2> SUFFICES ASSUME NEW r \in Range(Services), r.module = <<>>
               PROVE  r.file # TypesName /\ r.file \notin Modules(Services)
    OBVIOUS
  <2>1. r \in Everything /\ r.kind \notin {"types", "unions"}
    BY ServicesAll
  <2>2. PathOf(r) = <<r.file>>
    BY <2>1, Places
  <2>3. r.file # TypesName
    BY <2>1, <2>2 DEF Finished, Clash, Reserved
  <2>4. ASSUME r.file \in Modules(Services) PROVE FALSE
    <3>1. PICK s \in Range(Services) : s.module = r.file /\ s.module # <<>>
      BY <2>4 DEF Modules
    <3>2. s \in Everything /\ s.kind \notin {"types", "unions"}
      BY ServicesAll
    <3>3. Dir(s) = <<s.module>>
      BY <3>1, <3>2, Places
    <3> QED BY <2>1, <2>2, <3>1, <3>2, <3>3 DEF Finished, Clash, Reserved
  <2> QED BY <2>3, <2>4
<1> DEFINE front == top \o modules
<1>9. LibRs = Index(<<>>, front \o d)
  BY <1>6
<1> HIDE DEF top, modules, d
<1>10. front \in Seq(Named) /\ Range(front) = Range(top) \cup Range(modules)
  BY <1>4, <1>5, Concatenated
<1>11. ASSUME NEW x, Once(front \o d, x) PROVE Declares(<<>>, x)
  <2>1. Index(<<>>, front \o d) \in Written
    BY <1>9 DEF Written
  <2> QED BY <1>11, <2>1, IndexDeclares
<1>12. ASSUME NEW m \in Modules(Services) PROVE Declares(<<>>, m)
  <2>1. Once(modules, m)
    BY <1>2, OnceListed DEF modules
  <2>2. m \notin Range(top) /\ m \notin Range(d)
    BY <1>1, <1>5, <1>7, <1>8
  <2>3. Once(front, m)
    BY <1>4, <1>5, <2>1, <2>2, OnceJoined
  <2> HIDE DEF front
  <2>4. Once(front \o d, m)
    BY <1>1, <1>10, <2>2, <2>3, OnceJoined
  <2> QED BY <1>11, <2>4
<1>13. ASSUME NEW r \in Range(Services), r.module = <<>> PROVE Declares(<<>>, r.file)
  <2>1. r.file \notin Range(front)
    BY <1>4, <1>5, <1>8, <1>10, <1>13
  <2> HIDE DEF front
  <2>2. Once(front \o d, r.file)
    BY <1>1, <1>10, <1>13, <2>1, OnceJoined
  <2> QED BY <1>11, <2>2
<1>14. ASSUME Types # <<>> PROVE Declares(<<>>, TypesName)
  <2>1. top = <<TypesName>>
    BY <1>14 DEF top
  <2>2. Once(top, TypesName)
    BY <2>1 DEF Once
  <2>3. TypesName \notin Range(modules) /\ TypesName \notin Range(d)
    BY <1>1, <1>4, <1>7, <1>8
  <2>4. Once(front, TypesName)
    BY <1>4, <1>5, <2>2, <2>3, OnceJoined
  <2> HIDE DEF front
  <2>5. Once(front \o d, TypesName)
    BY <1>1, <1>10, <2>3, <2>4, OnceJoined
  <2> QED BY <1>11, <2>5
<1> QED BY <1>12, <1>13, <1>14

(* types/mod.rs declares every module of the types, once, and the types    *)
(* that are in no module.                                                  *)
LEMMA TypesDeclares ==
  ASSUME Finished, Types # <<>>
  PROVE  /\ \A m \in Modules(Types) : Declares(<<TypesName>>, m)
         /\ \A r \in Range(Types) : r.module = <<>> => Declares(<<TypesName>>, r.file)
<1> DEFINE t == <<TypesName>>
           modules == SetToSeq(Modules(Types))
           d == Declarations(In(Types, <<>>))
<1>1. /\ d \in Seq(Named)
      /\ Range(d) = {r.file : r \in {r \in Range(Types) : r.module = <<>>}}
      /\ \A r \in Range(Types) : r.module = <<>> => Once(d, r.file)
  BY DeclaredPart
<1>2. Types \in Seq(Everything) /\ Range(Types) \subseteq Everything /\ IsFiniteSet(Modules(Types))
  BY TypesAll, PartOnce
<1>3. Modules(Types) \subseteq Named
  BY <1>2 DEF Modules, Named
<1>4. modules \in Seq(Named) /\ Range(modules) = Modules(Types)
  <2>1. modules \in Seq(Modules(Types)) /\ Range(modules) = Modules(Types)
    BY <1>2, ListOfSet
  <2> HIDE DEF modules
  <2>2. Len(modules) \in Nat /\ modules \in [1 .. Len(modules) -> Modules(Types)]
    BY <2>1, LenProperties
  <2>3. modules \in [1 .. Len(modules) -> Named]
    BY <1>3, <2>2
  <2> QED BY <2>1, <2>2, <2>3
<1>5. TypesMod = Index(t, d \o modules)
  BY DEF TypesMod
<1>6. \A r \in Range(Types) : r.module = <<>> => r.file \notin Modules(Types)
  <2> SUFFICES ASSUME NEW r \in Range(Types), r.module = <<>>, r.file \in Modules(Types)
               PROVE  FALSE
    OBVIOUS
  <2>1. r \in Everything /\ r.kind \in {"types", "unions"}
    BY TypesAll
  <2>2. PathOf(r) = <<TypesName, r.file>>
    BY <2>1, Places
  <2>3. PICK s \in Range(Types) : s.module = r.file /\ s.module # <<>>
    BY DEF Modules
  <2>4. s \in Everything /\ s.kind \in {"types", "unions"}
    BY TypesAll
  <2>5. Dir(s) = <<TypesName, s.module>>
    BY <2>3, <2>4, Places
  <2> QED BY <2>1, <2>2, <2>3, <2>4, <2>5 DEF Finished, Clash, Reserved
<1> HIDE DEF modules, d, t
<1>7. ASSUME NEW x, Once(d \o modules, x) PROVE Declares(t, x)
  <2>1. Index(t, d \o modules) \in Written
    BY <1>5 DEF Written
  <2> QED BY <1>7, <2>1, IndexDeclares
<1>8. ASSUME NEW m \in Modules(Types) PROVE Declares(t, m)
  <2>1. Once(modules, m)
    BY <1>2, OnceListed DEF modules
  <2>2. m \notin Range(d)
    BY <1>1, <1>6
  <2>3. Once(d \o modules, m)
    BY <1>1, <1>4, <2>1, <2>2, OnceJoined
  <2> QED BY <1>7, <2>3
<1>9. ASSUME NEW r \in Range(Types), r.module = <<>> PROVE Declares(t, r.file)
  <2>1. r.file \notin Range(modules)
    BY <1>4, <1>6, <1>9
  <2>2. Once(d \o modules, r.file)
    BY <1>1, <1>4, <1>9, <2>1, OnceJoined
  <2> QED BY <1>7, <2>2
<1> QED BY <1>8, <1>9 DEF t

(* A module's index declares what is in it.                                *)
LEMMA ModuleDeclares ==
  ASSUME Finished
  PROVE  /\ \A r \in Range(Services) : r.module # <<>> => Declares(<<r.module>>, r.file)
         /\ \A r \in Range(Types) : r.module # <<>> => Declares(<<TypesName, r.module>>, r.file)
<1>1. ASSUME NEW r \in Range(Services), r.module # <<>> PROVE Declares(<<r.module>>, r.file)
  <2>1. r.module \in Modules(Services)
    BY <1>1 DEF Modules
  <2>2. Index(<<r.module>>, Declarations(In(Services, r.module))) \in Written
    BY <2>1 DEF Written, ServiceIndexes
  <2>3. Once(Declarations(In(Services, r.module)), r.file)
    BY DeclaredPart
  <2> QED BY <2>2, <2>3, IndexDeclares
<1>2. ASSUME NEW r \in Range(Types), r.module # <<>>
      PROVE  Declares(<<TypesName, r.module>>, r.file)
  <2>1. r.module \in Modules(Types)
    BY <1>2 DEF Modules
  <2>2. Types # <<>>
    <3>1. Range(<<>>) = {}
      BY DEF Range
    <3> QED BY <3>1
  <2>3. Index(<<TypesName, r.module>>, Declarations(In(Types, r.module))) \in Written
    BY <2>1, <2>2 DEF Written, TypeIndexes
  <2>4. Once(Declarations(In(Types, r.module)), r.file)
    BY DeclaredPart
  <2> QED BY <2>3, <2>4, IndexDeclares
<1> QED BY <1>1, <1>2

LEMMA TypesFound == Found(TypesName)
<1>1. TypesName \notin {<<>>, <<"_">>} \cup Keyword \cup SpecialKeyword
  BY CodegenAssumption DEF TypesName
<1>2. Range(TypesName) \subseteq {"t", "y", "p", "e", "s"} /\ TypesName[1] = "t"
  BY DEF TypesName, Range
<1> QED BY <1>1, <1>2, Characters DEF Found

LEMMA Prefix ==
  ASSUME NEW S, NEW s \in Seq(S), NEW n \in 0 .. Len(s), NEW t \in Seq(S), Len(t) = n,
         \A i \in 1 .. n : t[i] = s[i]
  PROVE  SubSeq(s, 1, n) = t
<1>1. Len(s) \in Nat
  BY LenProperties
<1>2. /\ SubSeq(s, 1, n) \in Seq(S) /\ Len(SubSeq(s, 1, n)) = n
      /\ \A i \in 1 .. n : SubSeq(s, 1, n)[i] = s[i]
  BY <1>1, SubSeqProperties
<1> DEFINE u == SubSeq(s, 1, n)
<1> HIDE DEF u
<1>3. u \in Seq(S) /\ Len(u) = Len(t) /\ \A i \in 1 .. Len(u) : u[i] = t[i]
  BY <1>2 DEF u
<1>4. u = t
  BY <1>3, SameElements
<1> QED BY <1>4 DEF u

(* What it takes to reach a file at each depth.                            *)
LEMMA ReachableSteps ==
  ASSUME NEW a, NEW b, NEW c
  PROVE  /\ Declares(<<>>, a) /\ Found(a) => Reachable(<<a>>)
         /\ /\ Declares(<<>>, a) /\ Found(a)
            /\ Declares(<<a>>, b) /\ Found(b)
            => Reachable(<<a, b>>)
         /\ /\ Declares(<<>>, a) /\ Found(a)
            /\ Declares(<<a>>, b) /\ Found(b)
            /\ Declares(<<a, b>>, c) /\ Found(c)
            => Reachable(<<a, b, c>>)
<1> DEFINE S == {a, b, c}
           none == <<>>
           one == <<a>>
           two == <<a, b>>
           three == <<a, b, c>>
<1>1. /\ none \in Seq(S) /\ one \in Seq(S) /\ two \in Seq(S) /\ three \in Seq(S)
      /\ Len(none) = 0 /\ Len(one) = 1 /\ Len(two) = 2 /\ Len(three) = 3
      /\ one[1] = a /\ two[1] = a /\ two[2] = b /\ three[1] = a /\ three[2] = b /\ three[3] = c
  OBVIOUS
<1> HIDE DEF S, none, one, two, three
<1>2. \A s \in {one, two, three} : SubSeq(s, 1, 0) = none
  <2> SUFFICES ASSUME NEW s \in {one, two, three} PROVE SubSeq(s, 1, 0) = none
    OBVIOUS
  <2>1. s \in Seq(S) /\ 0 \in 0 .. Len(s)
    BY <1>1
  <2>2. \A i \in 1 .. 0 : none[i] = s[i]
    OBVIOUS
  <2> QED BY <1>1, <2>1, <2>2, Prefix
<1>3. \A s \in {two, three} : SubSeq(s, 1, 1) = one
  <2> SUFFICES ASSUME NEW s \in {two, three} PROVE SubSeq(s, 1, 1) = one
    OBVIOUS
  <2>1. s \in Seq(S) /\ 1 \in 0 .. Len(s) /\ \A i \in 1 .. 1 : one[i] = s[i]
    BY <1>1
  <2> QED BY <1>1, <2>1, Prefix
<1>4. SubSeq(three, 1, 2) = two
  <2>1. three \in Seq(S) /\ 2 \in 0 .. Len(three) /\ \A i \in 1 .. 2 : two[i] = three[i]
    BY <1>1
  <2> QED BY <1>1, <2>1, Prefix
<1> DEFINE Leads(s, i) == /\ Declares(SubSeq(s, 1, i - 1), s[i]) /\ Found(s[i])
<1>5. \A s : Reachable(s) <=> \A i \in 1 .. Len(s) : Leads(s, i)
  BY DEF Reachable
<1>6. 1 - 1 = 0 /\ 2 - 1 = 1 /\ 3 - 1 = 2
  OBVIOUS
<1>7. ASSUME Declares(none, a), Found(a) PROVE Reachable(one)
  <2>1. Leads(one, 1)
    BY <1>1, <1>2, <1>6, <1>7
  <2>2. 1 .. Len(one) = {1}
    BY <1>1
  <2> HIDE DEF Leads
  <2> QED BY <1>5, <2>1, <2>2
<1>8. ASSUME Declares(none, a), Found(a), Declares(one, b), Found(b)
      PROVE  Reachable(two)
  <2>1. Leads(two, 1)
    BY <1>1, <1>2, <1>6, <1>8
  <2>2. Leads(two, 2)
    BY <1>1, <1>3, <1>6, <1>8
  <2>3. 1 .. Len(two) = {1, 2}
    BY <1>1
  <2> HIDE DEF Leads
  <2> QED BY <1>5, <2>1, <2>2, <2>3
<1>9. ASSUME Declares(none, a), Found(a), Declares(one, b), Found(b),
             Declares(two, c), Found(c)
      PROVE  Reachable(three)
  <2>1. Leads(three, 1)
    BY <1>1, <1>2, <1>6, <1>9
  <2>2. Leads(three, 2)
    BY <1>1, <1>3, <1>6, <1>9
  <2>3. Leads(three, 3)
    BY <1>1, <1>4, <1>6, <1>9
  <2>4. 1 .. Len(three) = {1, 2, 3}
    BY <1>1
  <2> HIDE DEF Leads
  <2> QED BY <1>5, <2>1, <2>2, <2>3, <2>4
<1> QED BY <1>7, <1>8, <1>9 DEF none, one, two, three

(* Everything is reached.                                                  *)
LEMMA EverythingReached ==
  ASSUME Finished, NEW r \in Everything
  PROVE  Reachable(PathOf(r))
<1>1. Found(r.file) /\ (r.module # <<>> => Found(r.module))
  BY NamesFound
<1>2. Found(TypesName)
  BY TypesFound
<1>3. r.kind \in {"types", "unions"} \/ r.kind \in {"resources", "functions"}
  BY EverythingShape DEF Lists
<1>4. CASE r.kind \in {"resources", "functions"}
  <2>1. r \in Range(Services) /\ r.kind \notin {"types", "unions"}
    BY <1>4, ServicesAll
  <2>2. CASE r.module = <<>>
    <3>1. PathOf(r) = <<r.file>> /\ Declares(<<>>, r.file)
      BY <2>1, <2>2, Places, LibDeclares
    <3> QED BY <1>1, <3>1, ReachableSteps
  <2>3. CASE r.module # <<>>
    <3>1. r.module \in Modules(Services)
      BY <2>1, <2>3 DEF Modules
    <3>2. PathOf(r) = <<r.module, r.file>> /\ Declares(<<>>, r.module) /\ Declares(<<r.module>>, r.file)
      BY <2>1, <2>3, <3>1, Places, LibDeclares, ModuleDeclares
    <3> QED BY <1>1, <2>3, <3>2, ReachableSteps
  <2> QED BY <2>2, <2>3
<1>5. CASE r.kind \in {"types", "unions"}
  <2>1. r \in Range(Types)
    BY <1>5, TypesAll
  <2>2. Types # <<>>
    <3>1. Range(<<>>) = {}
      BY DEF Range
    <3> QED BY <2>1, <3>1
  <2>3. Declares(<<>>, TypesName)
    BY <2>2, LibDeclares
  <2>4. CASE r.module = <<>>
    <3>1. PathOf(r) = <<TypesName, r.file>> /\ Declares(<<TypesName>>, r.file)
      BY <1>5, <2>1, <2>2, <2>4, Places, TypesDeclares
    <3> QED BY <1>1, <1>2, <2>3, <3>1, ReachableSteps
  <2>5. CASE r.module # <<>>
    <3>1. r.module \in Modules(Types)
      BY <2>1, <2>5 DEF Modules
    <3>2. /\ PathOf(r) = <<TypesName, r.module, r.file>>
          /\ Declares(<<TypesName>>, r.module)
          /\ Declares(<<TypesName, r.module>>, r.file)
      BY <1>5, <2>1, <2>2, <2>5, <3>1, Places, TypesDeclares, ModuleDeclares
    <3> QED BY <1>1, <1>2, <2>3, <2>5, <3>2, ReachableSteps
  <2> QED BY <2>4, <2>5
<1> QED BY <1>3, <1>4, <1>5

(* Every item that is no overlay and whose token parses, and every union,  *)
(* has its own file, which the indexes lead to, unless two have one file   *)
(* or one has a file or a module that Rust cannot name.                    *)
THEOREM SpecNothingLost == Spec => []NothingLost
<1>1. CodegenInv => NothingLost
  <2> SUFFICES ASSUME CodegenInv, at = "done", ~Clash, NEW r \in Everything
               PROVE  ItemFile(r) \in files /\ Reachable(PathOf(r))
    BY DEF NothingLost
  <2>1. Finished
    BY DEF Finished
  <2>2. ItemFile(r) \in files
    BY <2>1, FilesAll DEF Written
  <2> QED BY <2>1, <2>2, EverythingReached
<1> QED BY <1>1, SpecCodegenInv, PTL

-----------------------------------------------------------------------------
(* What a type in a field denotes.                                         *)

LEMMA DirOfPath ==
  ASSUME Finished, NEW r \in Everything
  PROVE  Front(PathOf(r)) = Dir(r)
<1> DEFINE d == Dir(r)
           p == PathOf(r)
           S == {TypesName, r.module, r.file}
<1>1. d \in Seq(S)
  <2>1. d = <<TypesName>> \/ d = <<TypesName, r.module>> \/ d = <<>> \/ d = <<r.module>>
    BY Places
  <2>2. PICK t : t = TypesName
    OBVIOUS
  <2>3. t \in S /\ r.module \in S
    BY <2>2
  <2>4. d = <<t>> \/ d = <<t, r.module>> \/ d = <<>> \/ d = <<r.module>>
    BY <2>1, <2>2
  <2> HIDE DEF d, S
  <2>5. \A m \in S : <<t>> \in Seq(S) /\ <<t, m>> \in Seq(S) /\ <<>> \in Seq(S) /\ <<m>> \in Seq(S)
    BY <2>3
  <2> QED BY <2>3, <2>4, <2>5
<1>2. r.file \in S /\ p = Append(d, r.file)
  BY DEF PathOf
<1> HIDE DEF d, p, S
<1>3. /\ p \in Seq(S) /\ Len(p) = Len(d) + 1 /\ Len(d) \in Nat
      /\ \A i \in 1 .. Len(d) : p[i] = d[i]
  BY <1>1, <1>2, AppendProperties, LenProperties
<1>4. Len(p) - 1 = Len(d) /\ Len(d) \in 0 .. Len(p)
  BY <1>3
<1>5. SubSeq(p, 1, Len(d)) = d
  BY <1>1, <1>3, <1>4, Prefix
<1>6. Front(p) = d
  BY <1>4, <1>5 DEF Front
<1> QED BY <1>6 DEF d, p

LEMMA Denotes ==
  ASSUME Finished, NEW r \in Everything, ~Misnamed(r), r.kind \in {"types", "unions"},
         NEW type, type.module = r.module, type.name = r.name
  PROVE  Denoted(type) = {r}
<1> DEFINE dir == Below(<<TypesName>>, type.module)
           There == {g \in files : /\ g[2].kind \in {"types", "unions"}
                                   /\ g[2].name = type.name /\ Found(type.name)
                                   /\ Front(g[1]) = dir
                                   /\ Reachable(g[1])}
<1>1. Denoted(type) = {f[2] : f \in There}
  BY Zenon DEF Denoted
<1>2. dir = Dir(r)
  BY DEF Dir, Top
<1>3. ItemFile(r) \in There /\ ItemFile(r)[2] = r
  <2>1. ItemFile(r) \in files
    BY FilesAll DEF Written
  <2>2. ItemFile(r)[1] = PathOf(r) /\ ItemFile(r)[2] = r
    BY DEF ItemFile
  <2>3. Front(PathOf(r)) = dir
    BY <1>2, DirOfPath
  <2>4. Reachable(PathOf(r))
    BY EverythingReached
  <2>5. Found(r.name)
    BY DEF Misnamed
  <2> HIDE DEF dir
  <2> QED BY <2>1, <2>2, <2>3, <2>4, <2>5
<1>4. ASSUME NEW g \in There PROVE g[2] = r
  <2> HIDE DEF dir
  <2>1. g \in Written /\ g[2].kind \in {"types", "unions"}
    BY FilesAll
  <2>2. PICK s \in Everything : g = ItemFile(s)
    <3>1. \A i, d : Index(i, d)[2].kind = "index"
      BY DEF Index
    <3>2. CargoToml[2].kind = "manifest"
      BY DEF CargoToml
    <3>3. LibRs[2].kind = "index" /\ TypesMod[2].kind = "index"
      BY <3>1 DEF LibRs, TypesMod
    <3>4. \A v \in ServiceIndexes \cup TypeIndexes : v[2].kind = "index"
      BY <3>1 DEF ServiceIndexes, TypeIndexes
    <3>5. g # CargoToml /\ g # LibRs /\ g # TypesMod /\ g \notin ServiceIndexes \cup TypeIndexes
      BY <2>1, <3>2, <3>3, <3>4
    <3> QED BY <2>1, <3>5 DEF Written
  <2>3. g[1] = PathOf(s) /\ g[2] = s
    BY <2>2 DEF ItemFile
  <2>4. s.name = r.name /\ Dir(s) = Dir(r)
    BY <1>2, <2>3, DirOfPath
  <2>5. s.kind \in {"types", "unions"}
    BY <2>1, <2>3
  <2>6. s.module = r.module
    <3>1. \A m, n : /\ <<TypesName>> # <<TypesName, m>>
                    /\ <<TypesName, m>> = <<TypesName, n>> => m = n
      OBVIOUS
    <3>2. /\ r.module = <<>> => Dir(r) = <<TypesName>>
          /\ r.module # <<>> => Dir(r) = <<TypesName, r.module>>
      BY Places
    <3>3. /\ s.module = <<>> => Dir(s) = <<TypesName>>
          /\ s.module # <<>> => Dir(s) = <<TypesName, s.module>>
      BY <2>5, Places
    <3> QED BY <2>4, <3>1, <3>2, <3>3
  <2>7. s = r
    BY <2>4, <2>5, <2>6 DEF Misnamed
  <2> QED BY <2>3, <2>7
<1> HIDE DEF There
<1>5. {f[2] : f \in There} = {r}
  BY <1>3, <1>4
<1> QED BY <1>1, <1>5

(* A oneOf mentioned in a field denotes the union of its own variants, and *)
(* a $ref the schema's type of its token, unless that type has the name of *)
(* another, or two items have one file, or one has a name that Rust does   *)
(* not accept.                                                             *)
THEOREM SpecMentionsDenote == Spec => []MentionsDenote
<1>1. ASSUME Finished, NEW spec \in Mentioned, spec.kind = "oneOf",
             ~Misnamed(Union(spec, Variants(spec)))
      PROVE  Denoted(ResolveType[spec].rust) = {Union(spec, Variants(spec))}
  <2> DEFINE u == Union(spec, Variants(spec))
  <2>1. PICK item \in AllKept : \E n \in DOMAIN item.fields : spec \in Parts[item.fields[n]]
    BY <1>1 DEF Mentioned
  <2>2. PICK n \in DOMAIN item.fields : spec \in Parts[item.fields[n]]
    BY <2>1
  <2>3. item \in Item
    BY <1>1, ResolvedAll DEF AllKept
  <2>4. /\ item.fields[n] \in Specs
        /\ Range(ResolveType[item.fields[n]].unions) \subseteq Range(FieldUnions(item))
    BY <2>3, FieldUnionsFacts
  <2>5. spec \in Specs /\ u \in Range(ResolveType[item.fields[n]].unions)
    BY <1>1, <2>2, <2>4, PartsRegistered
  <2>6. u \in Everything
    BY <2>4, <2>5 DEF Everything
  <2>7. u.kind = "unions" /\ u.module = <<>> /\ u.name = VariantName(spec, Variants(spec))
    BY DEF Union
  <2>8. ResolveType[spec].rust = TypePath(<<>>, VariantName(spec, Variants(spec)))
    BY <1>1, <2>5, ResolveTypeSteps DEF RustType
  <2> DEFINE type == ResolveType[spec].rust
  <2>9. type.module = u.module /\ type.name = u.name
    BY <2>7, <2>8 DEF TypePath
  <2>10. Finished /\ ~Misnamed(u)
    BY <1>1
  <2> HIDE DEF u, type
  <2>11. Denoted(type) = {u}
    BY <2>6, <2>7, <2>9, <2>10, Denotes
  <2> QED BY <2>11 DEF u, type
<1>2. ASSUME Finished, NEW spec \in Mentioned, spec.kind = "ref",
             NEW item \in Kept("types"), item.token = spec.token,
             ~Misnamed(ResolveItem("types", item))
      PROVE  Denoted(ResolveType[spec].rust) = {ResolveItem("types", item)}
  <2> DEFINE r == ResolveItem("types", item)
             type == ResolveType[spec].rust
  <2>1. spec \in Specs
    <3>1. PICK i \in AllKept : \E n \in DOMAIN i.fields : spec \in Parts[i.fields[n]]
      BY DEF Mentioned
    <3>2. PICK n \in DOMAIN i.fields : spec \in Parts[i.fields[n]]
      BY <3>1
    <3>3. i \in Item
      BY <1>2, ResolvedAll DEF AllKept
    <3>4. i.fields[n] \in Specs
      BY <3>3, FieldUnionsFacts
    <3> QED BY <3>2, <3>4, PartsRegistered
  <2>2. r \in Everything
    BY DEF Everything, Items, Lists
  <2>3. type = ResolveTypeRef(item.token)
    BY <1>2, <2>1, ResolveTypeSteps DEF RustType
  <2>4. /\ r.kind = "types" /\ r.module = Identifier(ModuleOf(item.token))
        /\ r.name = Pascal(item.token[3]) /\ Parsed(item.token)
    BY DEF ResolveItem, Kept, Taken
  <2>5. type.module = r.module /\ type.name = r.name
    BY <2>3, <2>4 DEF ResolveTypeRef, TypePath
  <2>6. Finished /\ ~Misnamed(r)
    BY <1>2
  <2> HIDE DEF r, type
  <2>7. Denoted(type) = {r}
    BY <2>2, <2>4, <2>5, <2>6, Denotes
  <2> QED BY <2>7 DEF r, type
<1>3. CodegenInv => MentionsDenote
  <2> SUFFICES ASSUME CodegenInv, at = "done", ~Clash PROVE MentionsDenote
    BY DEF MentionsDenote
  <2>1. Finished
    BY DEF Finished
  <2> QED BY <1>1, <1>2, <2>1 DEF MentionsDenote
<1> QED BY <1>3, SpecCodegenInv, PTL
=============================================================================
