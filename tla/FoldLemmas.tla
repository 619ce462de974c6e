----------------------------- MODULE FoldLemmas -----------------------------
(***************************************************************************)
(* What the folds and FlattenSeq of the community modules compute: a fold  *)
(* for its step given as a function of a result and a place.               *)
(***************************************************************************)
EXTENDS Integers, Sequences, SequencesExt, FiniteSetTheorems, SequenceTheorems,
        WellFoundedInduction, TLAPS

(* Induction, for a set of numbers.                                        *)
LEMMA FromZero ==
  ASSUME NEW S, 0 \in S, \A n \in Nat : n \in S => n + 1 \in S
  PROVE  \A n \in Nat : n \in S
<1> DEFINE T == {n \in Nat : n \notin S}
<1>1. CASE T = {}
  BY <1>1
<1>2. CASE T # {}
  <2>1. IsWellFoundedOn(OpToRel(<, Nat), Nat)
    BY NatLessThanWellFounded
  <2>2. PICK x \in T : \A y \in T : ~(<<y, x>> \in OpToRel(<, Nat))
    <3> HIDE DEF T
    <3>1. T \subseteq Nat
      BY DEF T
    <3> QED
      BY <1>2, <2>1, <3>1, WFMin
  <2>3. x \in Nat /\ x # 0 /\ x - 1 \in Nat
    OBVIOUS
  <2>4. x - 1 \in T
    BY <2>3
  <2>5. <<x - 1, x>> \in OpToRel(<, Nat)
    BY <2>3 DEF OpToRel
  <2> QED
    BY <2>2, <2>4, <2>5
<1> QED
  BY <1>1, <1>2

(* The greatest of the numbers up to n + 1 is n + 1, if it is one of them. *)
LEMMA MaxIsTop ==
  ASSUME NEW n \in Nat, NEW s \in SUBSET (1..(n + 1)), n + 1 \in s
  PROVE  Max(s) = n + 1
<1>1. \A y \in s : n + 1 >= y
  OBVIOUS
<1>2. \A x \in s : (\A y \in s : x >= y) => x = n + 1
  OBVIOUS
<1> QED
  BY <1>1, <1>2 DEF Max

(* A set of numbers up to n has a greatest one.                            *)
LEMMA MaxIsIn ==
  ASSUME NEW n \in Nat, NEW s \in SUBSET (1..n), s # {}
  PROVE  Max(s) \in s
<1> DEFINE S == {k \in Nat : \A t \in SUBSET (1..k) : t # {} => \E x \in t : \A y \in t : x >= y}
<1>1. 0 \in S
  <2>1. 1..0 = {}
    OBVIOUS
  <2> QED
    BY <2>1
<1>2. ASSUME NEW k \in Nat, k \in S PROVE k + 1 \in S
  <2> SUFFICES ASSUME NEW t \in SUBSET (1..(k + 1)), t # {} PROVE \E x \in t : \A y \in t : x >= y
    OBVIOUS
  <2>1. CASE k + 1 \in t
    BY <2>1
  <2>2. CASE k + 1 \notin t
    BY <1>2, <2>2
  <2> QED
    BY <2>1, <2>2
<1> HIDE DEF S
<1>3. n \in S
  BY <1>1, <1>2, FromZero
<1> QED
  BY <1>3 DEF S, Max

(* The first k + 1 places are the first k, and then one.                   *)
LEMMA UpTo ==
  ASSUME NEW n \in Nat, NEW k \in 0..(n - 1)
  PROVE  /\ Max(1..(k + 1)) = k + 1 /\ (1..(k + 1)) \ {k + 1} = 1..k
         /\ 1..(k + 1) # {} /\ 1..(k + 1) \in SUBSET (1..n)
<1>1. Max(1..(k + 1)) = k + 1
  BY MaxIsTop
<1>2. (1..(k + 1)) \ {k + 1} = 1..k
  OBVIOUS
<1>3. k + 1 \in 1..(k + 1) /\ 1..(k + 1) \in SUBSET (1..n)
  OBVIOUS
<1> QED
  BY <1>1, <1>2, <1>3

(* A fold over the places up to n, as Folds defines it.                    *)
Folds(n, b, G, it) ==
  it = [s \in SUBSET (1..n) |-> IF s = {} THEN b ELSE G[<<it[s \ {Max(s)}], Max(s)>>]]

(* A fold is defined over the first n places, whatever n is.               *)
LEMMA FoldExists ==
  ASSUME NEW T, NEW b \in T, NEW G, \A x \in T : \A i \in Nat \ {0} : G[<<x, i>>] \in T
  PROVE  \A n \in Nat : \E it \in [SUBSET (1..n) -> T] : Folds(n, b, G, it)
<1> DEFINE S == {n \in Nat : \E it \in [SUBSET (1..n) -> T] : Folds(n, b, G, it)}
<1>1. 0 \in S
  <2> DEFINE it == [s \in SUBSET (1..0) |-> b]
  <2>1. it \in [SUBSET (1..0) -> T] /\ \A s \in SUBSET (1..0) : s = {}
    OBVIOUS
  <2>2. Folds(0, b, G, it)
    BY <2>1 DEF Folds
  <2> QED
    BY <2>1, <2>2
<1>2. ASSUME NEW n \in Nat, n \in S PROVE n + 1 \in S
  <2>1. PICK it \in [SUBSET (1..n) -> T] : Folds(n, b, G, it)
    BY <1>2
  <2> DEFINE new == [s \in SUBSET (1..(n + 1)) |->
                       IF n + 1 \in s THEN G[<<it[s \ {n + 1}], n + 1>>] ELSE it[s]]
  <2>2. \A s \in SUBSET (1..(n + 1)) : s \ {n + 1} \in SUBSET (1..n)
    OBVIOUS
  <2>3. \A s \in SUBSET (1..(n + 1)) : n + 1 \notin s => s \in SUBSET (1..n)
    OBVIOUS
  <2>4. new \in [SUBSET (1..(n + 1)) -> T]
    BY <2>2, <2>3
  <2>5. \A s \in SUBSET (1..n) : new[s] = it[s]
    OBVIOUS
  <2>6. ASSUME NEW s \in SUBSET (1..(n + 1))
        PROVE  new[s] = IF s = {} THEN b ELSE G[<<new[s \ {Max(s)}], Max(s)>>]
    <3>1. CASE n + 1 \in s
      <4>1. Max(s) = n + 1
        BY <3>1, MaxIsTop
      <4> QED
        BY <2>2, <2>5, <3>1, <4>1
    <3>2. CASE n + 1 \notin s
      <4>1. new[s] = it[s] /\ s \in SUBSET (1..n)
        BY <2>3, <3>2
      <4>2. it[s] = IF s = {} THEN b ELSE G[<<it[s \ {Max(s)}], Max(s)>>]
        BY <2>1, <4>1 DEF Folds
      <4>3. s \ {Max(s)} \in SUBSET (1..n)
        BY <4>1
      <4> HIDE DEF new
      <4> QED
        BY <2>5, <4>1, <4>2, <4>3
    <3> QED
      BY <3>1, <3>2
  <2>7. Folds(n + 1, b, G, new)
    <3> DEFINE eq(s) == IF s = {} THEN b ELSE G[<<new[s \ {Max(s)}], Max(s)>>]
    <3>1. \A s \in SUBSET (1..(n + 1)) : new[s] = eq(s)
      BY <2>6
    <3>2. new = [s \in SUBSET (1..(n + 1)) |-> new[s]]
      OBVIOUS
    <3> HIDE DEF new
    <3> QED
      BY <3>1, <3>2 DEF Folds
  <2> HIDE DEF new
  <2> QED
    BY <2>4, <2>7
<1> HIDE DEF S
<1>3. \A n \in Nat : n \in S
  BY <1>1, <1>2, FromZero
<1> QED
  BY <1>3 DEF S

(* What holds at first and from place to place holds to the end.           *)
LEMMA ToEach ==
  ASSUME NEW n \in Nat, NEW S, 0 \in S, \A k \in 0..(n - 1) : k \in S => k + 1 \in S
  PROVE  \A k \in 0..n : k \in S
<1> DEFINE U == S \cup {k \in Nat : k > n}
<1>1. 0 \in U /\ \A k \in Nat : k \in U => k + 1 \in U
  OBVIOUS
<1> HIDE DEF U
<1>2. \A k \in Nat : k \in U
  BY <1>1, FromZero
<1> QED
  BY <1>2 DEF U

---------------------------------------------------------------------------
(* Sequences one after the other: FlattenSeq, as its LET defines it.       *)

(* One sequence after the other, and a sequence of one element: names for  *)
(* them, so that a proof can speak of them without their definitions.      *)
Cat(x, y) == x \o y
One(e) == <<e>>

(* What Cat and One return.                                                *)
LEMMA CatTyped ==
  ASSUME NEW T, NEW x \in Seq(T), NEW y \in Seq(T)
  PROVE  Cat(x, y) \in Seq(T)
BY ConcatProperties DEF Cat

LEMMA CatJoined ==
  ASSUME NEW T, NEW x \in Seq(T), NEW y \in Seq(T), NEW z \in Seq(T)
  PROVE  Cat(Cat(x, y), z) = Cat(x, Cat(y, z))
BY ConcatAssociative DEF Cat

LEMMA CatNothing ==
  ASSUME NEW T, NEW x \in Seq(T)
  PROVE  Cat(x, <<>>) = x /\ Cat(<<>>, x) = x
BY ConcatEmptySeq DEF Cat

LEMMA CatOne ==
  ASSUME NEW T, NEW x \in Seq(T), NEW e \in T
  PROVE  One(e) \in Seq(T) /\ Append(x, e) = Cat(x, One(e)) /\ Append(x, e) \in Seq(T)
<1>1. One(e) \in Seq(T)
  BY DEF One
<1> QED
  BY <1>1, AppendIsConcat, AppendProperties DEF Cat, One

LEMMA CatElements ==
  ASSUME NEW T, NEW x \in Seq(T), NEW y \in Seq(T)
  PROVE  /\ Len(x) \in Nat /\ Len(y) \in Nat /\ Len(Cat(x, y)) = Len(x) + Len(y)
         /\ \A i \in 1..Len(x) : Cat(x, y)[i] = x[i]
         /\ \A i \in 1..Len(y) : Cat(x, y)[Len(x) + i] = y[i]
         /\ \A i \in 1..Len(Cat(x, y)) : i \in 1..Len(x) \/ i - Len(x) \in 1..Len(y)
<1>1. Len(x) \in Nat /\ Len(y) \in Nat
  BY LenProperties
<1> QED
  BY <1>1, ConcatProperties DEF Cat

(* FlattenSeq, as its LET defines it.                                      *)
Flattens(ss, h) ==
  h = [i \in 1..Len(ss) |-> IF i = 1 THEN ss[i] ELSE h[i - 1] \o ss[i]]

(* The function that the LET of FlattenSeq names exists.                   *)
LEMMA FlattenExists ==
  ASSUME NEW T, NEW ss \in Seq(Seq(T))
  PROVE  \E h : Flattens(ss, h)
<1> DEFINE n == Len(ss)
           Up(k) == \E h \in [1..k -> Seq(T)] :
                      \A i \in 1..k : h[i] = IF i = 1 THEN ss[i] ELSE h[i - 1] \o ss[i]
           S == {k \in Nat : k <= n => Up(k)}
<1>1. n \in Nat /\ \A i \in 1..n : ss[i] \in Seq(T)
  BY LenProperties, ElementOfSeq
<1>2. 0 \in S
  <2>1. [i \in 1..0 |-> <<>>] \in [1..0 -> Seq(T)] /\ \A i \in 1..0 : FALSE
    OBVIOUS
  <2> QED
    BY <2>1
<1>3. ASSUME NEW k \in Nat, k \in S PROVE k + 1 \in S
  <2> HIDE DEF n, Up
  <2> SUFFICES ASSUME k + 1 <= n PROVE Up(k + 1)
    OBVIOUS
  <2>0. k <= n /\ k + 1 \in 1..n /\ 1 \in 1..n
    BY <1>1
  <2>1. PICK h \in [1..k -> Seq(T)] :
               \A i \in 1..k : h[i] = IF i = 1 THEN ss[i] ELSE h[i - 1] \o ss[i]
    BY <1>3, <2>0 DEF Up
  <2> DEFINE g == [i \in 1..(k + 1) |->
                     IF i = k + 1 THEN (IF k = 0 THEN ss[1] ELSE h[k] \o ss[k + 1]) ELSE h[i]]
  <2>2. ss[k + 1] \in Seq(T) /\ ss[1] \in Seq(T)
    BY <1>1, <2>0
  <2>3. k # 0 => h[k] \in Seq(T) /\ h[k] \o ss[k + 1] \in Seq(T)
    BY <2>1, <2>2, ConcatProperties
  <2>4. g \in [1..(k + 1) -> Seq(T)]
    BY <2>1, <2>2, <2>3
  <2>5. ASSUME NEW i \in 1..(k + 1) PROVE g[i] = IF i = 1 THEN ss[i] ELSE g[i - 1] \o ss[i]
    <3>1. CASE i = k + 1
      BY <3>1
    <3>2. CASE i # k + 1
      <4>1. i \in 1..k /\ i \in 1..(k + 1) /\ (i # 1 => i - 1 \in 1..(k + 1) /\ i - 1 # k + 1)
        BY <3>2
      <4>2. g[i] = h[i] /\ (i # 1 => g[i - 1] = h[i - 1])
        BY <3>2, <4>1
      <4> HIDE DEF g
      <4> QED
        BY <2>1, <4>1, <4>2
    <3> QED
      BY <3>1, <3>2
  <2> HIDE DEF g
  <2> QED
    BY <2>4, <2>5 DEF Up
<1> HIDE DEF S
<1>4. n \in S
  BY <1>1, <1>2, <1>3, FromZero
<1>5. PICK h \in [1..n -> Seq(T)] :
             \A i \in 1..n : h[i] = IF i = 1 THEN ss[i] ELSE h[i - 1] \o ss[i]
  BY <1>1, <1>4 DEF S
<1>6. h = [i \in 1..n |-> IF i = 1 THEN ss[i] ELSE h[i - 1] \o ss[i]]
  BY <1>5
<1> QED
  BY <1>6 DEF Flattens

(* FlattenSeq goes from one sequence to the next.                          *)
LEMMA FlattenRuns ==
  ASSUME NEW T, NEW ss \in Seq(Seq(T)), ss # <<>>
  PROVE  \E h : /\ h[1] = ss[1]
                /\ \A k \in 1..(Len(ss) - 1) : h[k + 1] = h[k] \o ss[k + 1]
                /\ FlattenSeq(ss) = h[Len(ss)]
<1> DEFINE h == CHOOSE h : Flattens(ss, h)
<1>1. Len(ss) \in Nat /\ Len(ss) # 0
  BY LenProperties, EmptySeq
<1>2. FlattenSeq(ss) = h[Len(ss)]
  BY <1>1 DEF FlattenSeq, Flattens
<1>3. Flattens(ss, h)
  BY FlattenExists
<1> HIDE DEF h
<1>4. \A i \in 1..Len(ss) : h[i] = IF i = 1 THEN ss[i] ELSE h[i - 1] \o ss[i]
  BY <1>3 DEF Flattens
<1>5. h[1] = ss[1]
  BY <1>1, <1>4
<1>6. ASSUME NEW k \in 1..(Len(ss) - 1) PROVE h[k + 1] = h[k] \o ss[k + 1]
  <2>1. k + 1 \in 1..Len(ss) /\ k + 1 # 1 /\ (k + 1) - 1 = k
    BY <1>1
  <2> QED
    <3>1. \A i \in 1..Len(ss) : i # 1 => h[i] = h[i - 1] \o ss[i]
      BY <1>4
    <3>2. h[k + 1] = h[(k + 1) - 1] \o ss[k + 1]
      BY <2>1, <3>1
    <3> QED
      BY <2>1, <3>2, Zenon
<1> QED
  BY <1>2, <1>5, <1>6

(* A function on 1..n is a sequence of length n.                           *)
LEMMA SeqFrom ==
  ASSUME NEW T, NEW n \in Nat, NEW s \in [1..n -> T]
  PROVE  s \in Seq(T) /\ Len(s) = n
<1>1. s \in Seq(T)
  BY SeqDef
<1> QED
  BY <1>1, LenProperties

LEMMA FlattenOfNothing == FlattenSeq(<<>>) = <<>>
BY DEF FlattenSeq

(* One sequence more.                                                      *)
LEMMA FlattenGrows ==
  ASSUME NEW T, NEW ss \in Seq(Seq(T)), NEW x \in Seq(T)
  PROVE  /\ FlattenSeq(ss) \in Seq(T)
         /\ FlattenSeq(Append(ss, x)) = FlattenSeq(ss) \o x
<1> DEFINE tt == Append(ss, x)
           n == Len(ss)
<1>1. /\ n \in Nat /\ tt \in Seq(Seq(T)) /\ tt # <<>> /\ Len(tt) = n + 1 /\ tt[n + 1] = x
      /\ \A k \in 1..n : tt[k] = ss[k] /\ ss[k] \in Seq(T)
      /\ ss = <<>> <=> n = 0
  BY LenProperties, ElementOfSeq, AppendProperties, EmptySeq
<1>2. PICK g : /\ g[1] = tt[1]
               /\ \A k \in 1..(Len(tt) - 1) : g[k + 1] = g[k] \o tt[k + 1]
               /\ FlattenSeq(tt) = g[Len(tt)]
  <2> HIDE DEF tt
  <2> QED
    BY <1>1, FlattenRuns
<1>3. CASE n = 0
  <2>1. ss = <<>> /\ FlattenSeq(ss) = <<>> /\ <<>> \in Seq(T)
    BY <1>1, <1>3, FlattenOfNothing, EmptySeq
  <2>2. FlattenSeq(tt) = x
    <3> HIDE DEF tt
    <3> QED
      BY <1>1, <1>2, <1>3
  <2> QED
    BY <2>1, <2>2, ConcatEmptySeq
<1>4. CASE n # 0
  <2>1. PICK h : /\ h[1] = ss[1]
                 /\ \A k \in 1..(n - 1) : h[k + 1] = h[k] \o ss[k + 1]
                 /\ FlattenSeq(ss) = h[n]
    BY <1>1, <1>4, FlattenRuns
  <2> HIDE DEF tt, n
  <2> DEFINE S == {k \in Nat : k + 1 <= n => g[k + 1] = h[k + 1] /\ h[k + 1] \in Seq(T)}
  <2>2. 0 \in S
    BY <1>1, <1>2, <1>4, <2>1
  <2>3. ASSUME NEW k \in Nat, k \in S PROVE k + 1 \in S
    <3> SUFFICES ASSUME k + 2 <= n PROVE g[k + 2] = h[k + 2] /\ h[k + 2] \in Seq(T)
      OBVIOUS
    <3>1. k + 1 \in 1..(n - 1) /\ k + 1 \in 1..(Len(tt) - 1) /\ k + 2 \in 1..n /\ (k + 1) + 1 = k + 2
      BY <1>1
    <3>2. h[k + 2] = h[k + 1] \o ss[k + 2] /\ g[k + 2] = g[k + 1] \o ss[k + 2]
      BY <1>1, <1>2, <2>1, <3>1
    <3>3. g[k + 1] = h[k + 1] /\ h[k + 1] \in Seq(T) /\ ss[k + 2] \in Seq(T)
      <4>1. k + 1 <= n /\ ss[k + 2] \in Seq(T)
        BY <1>1, <3>1
      <4> QED
        BY <2>3, <4>1
    <3> QED
      BY <3>2, <3>3, ConcatProperties
  <2> HIDE DEF S
  <2>4. n - 1 \in S
    <3>1. \A k \in Nat : k \in S
      BY <2>2, <2>3, FromZero
    <3> QED
      BY <1>1, <1>4, <3>1
  <2>5. g[n] = h[n] /\ h[n] \in Seq(T)
    BY <1>1, <1>4, <2>4 DEF S
  <2>6. g[n + 1] = g[n] \o x
    <3>1. n \in 1..(Len(tt) - 1)
      BY <1>1, <1>4
    <3> QED
      BY <1>1, <1>2, <3>1
  <2> QED
    BY <1>1, <1>2, <2>1, <2>5, <2>6 DEF tt, n
<1> QED
  BY <1>3, <1>4

(* A sequence is reached from the empty one, element by element.           *)
LEMMA ByPrefix ==
  ASSUME NEW T, NEW s \in Seq(T)
  PROVE  /\ Len(s) \in Nat
         /\ SubSeq(s, 1, 0) = <<>> /\ SubSeq(s, 1, Len(s)) = s
         /\ \A k \in 0..Len(s) : SubSeq(s, 1, k) \in Seq(T)
         /\ \A k \in 0..(Len(s) - 1) :
              /\ s[k + 1] \in T /\ k + 1 \in 1..Len(s)
              /\ SubSeq(s, 1, k + 1) = Append(SubSeq(s, 1, k), s[k + 1])
<1>1. Len(s) \in Nat /\ \A i \in 1..Len(s) : s[i] \in T
  BY LenProperties, ElementOfSeq
<1>2. SubSeq(s, 1, 0) = <<>>
  BY SubSeqEmpty
<1>3. SubSeq(s, 1, Len(s)) = s
  BY SubSeqFull
<1>4. ASSUME NEW k \in 0..Len(s) PROVE SubSeq(s, 1, k) \in Seq(T)
  <2>1. \A i \in 1..k : s[i] \in T
    BY <1>1
  <2> QED
    BY <2>1, SubSeqProperties
<1>5. ASSUME NEW k \in 0..(Len(s) - 1)
      PROVE  /\ s[k + 1] \in T /\ k + 1 \in 1..Len(s)
             /\ SubSeq(s, 1, k + 1) = Append(SubSeq(s, 1, k), s[k + 1])
  <2>1. k + 1 \in 1..Len(s) /\ 1 \in 1..Len(s) /\ k + 1 \in 1..Len(s) /\ k \in 0..Len(s)
        /\ (k + 1) - 1 = k
    BY <1>1
  <2>2. SubSeq(s, 1, k + 1) = SubSeq(s, 1, k) \o <<s[k + 1]>>
    BY <2>1, SubSeqRecursiveSecond
  <2>3. Append(SubSeq(s, 1, k), s[k + 1]) = SubSeq(s, 1, k) \o <<s[k + 1]>>
    BY <1>1, <1>4, <2>1, AppendIsConcat
  <2> QED
    BY <1>1, <2>1, <2>2, <2>3
<1> QED
  BY <1>1, <1>2, <1>3, <1>4, <1>5

(* How many elements of a sequence are in a set.                           *)
Count(s, A) == Cardinality({i \in DOMAIN s : s[i] \in A})

(* An element more, a sequence more.                                       *)
LEMMA CountGrows ==
  ASSUME NEW T, NEW A, NEW s \in Seq(T), NEW x \in T
  PROVE  /\ Count(<<>>, A) = 0 /\ Count(s, A) \in Nat
         /\ Count(Append(s, x), A) = Count(s, A) + (IF x \in A THEN 1 ELSE 0)
<1> DEFINE n == Len(s)
           old == {i \in DOMAIN s : s[i] \in A}
           new == {i \in DOMAIN Append(s, x) : Append(s, x)[i] \in A}
<1>1. /\ n \in Nat /\ DOMAIN s = 1..n /\ DOMAIN Append(s, x) = 1..(n + 1)
      /\ Append(s, x)[n + 1] = x /\ \A i \in 1..n : Append(s, x)[i] = s[i]
  BY LenProperties, AppendProperties
<1>2. IsFiniteSet(old) /\ Cardinality(old) \in Nat
  <2>1. IsFiniteSet(1..n) /\ old \in SUBSET (1..n)
    BY <1>1, FS_Interval
  <2> QED
    BY <2>1, FS_Subset, FS_CardinalityType
<1>3. new = IF x \in A THEN old \cup {n + 1} ELSE old
  BY <1>1
<1>4. n + 1 \notin old
  BY <1>1
<1>5. Count(<<>>, A) = 0
  <2>1. {i \in DOMAIN <<>> : <<>>[i] \in A} = {}
    OBVIOUS
  <2> QED
    BY <2>1, FS_EmptySet DEF Count
<1> HIDE DEF old, new
<1>6. Cardinality(new) = Cardinality(old) + (IF x \in A THEN 1 ELSE 0)
  <2>1. Cardinality(old \cup {n + 1}) = Cardinality(old) + 1
    BY <1>2, <1>4, FS_AddElement
  <2> QED
    BY <1>2, <1>3, <2>1
<1> QED
  BY <1>2, <1>5, <1>6 DEF Count, old, new

LEMMA CountConcat ==
  ASSUME NEW T, NEW A, NEW s \in Seq(T), NEW t \in Seq(T)
  PROVE  Count(s \o t, A) = Count(s, A) + Count(t, A)
<1> DEFINE n == Len(t)
           p(k) == SubSeq(t, 1, k)
           Adds(u) == Count(s \o u, A) = Count(s, A) + Count(u, A)
           S == {k \in Nat : k <= n => Adds(p(k))}
<1>1. n \in Nat /\ p(0) = <<>> /\ p(n) = t
  BY ByPrefix
<1>2. CASE T = {}
  <2>1. s = <<>> /\ t = <<>>
    BY <1>2, LenProperties, EmptySeq, ElementOfSeq
  <2>2. {i \in DOMAIN <<>> : <<>>[i] \in A} = {} /\ <<>> \o <<>> = <<>>
    BY <2>1, ConcatEmptySeq
  <2> QED
    BY <2>1, <2>2, FS_EmptySet DEF Count
<1>3. ASSUME T # {} PROVE 0 \in S
  <2>1. s \o <<>> = s /\ Count(<<>>, A) = 0 /\ Count(s, A) \in Nat
    BY <1>3, ConcatEmptySeq, CountGrows
  <2>2. Adds(<<>>)
    BY <2>1
  <2> HIDE DEF p, Adds
  <2> QED
    BY <1>1, <2>2
<1>4. ASSUME NEW u \in Seq(T), NEW x \in T, Adds(u) PROVE Adds(Append(u, x))
  <2>1. s \o u \in Seq(T) /\ s \o Append(u, x) = Append(s \o u, x)
    <3>1. s \o u \in Seq(T) /\ <<x>> \in Seq(T)
      BY ConcatProperties
    <3>2. Append(u, x) = u \o <<x>> /\ Append(s \o u, x) = (s \o u) \o <<x>>
      BY <3>1, AppendIsConcat
    <3> QED
      BY <3>1, <3>2, ConcatAssociative
  <2> DEFINE d == IF x \in A THEN 1 ELSE 0
  <2>2. Count(Append(u, x), A) = Count(u, A) + d /\ Count(u, A) \in Nat
    BY CountGrows
  <2>3. Count(Append(s \o u, x), A) = Count(s \o u, A) + d /\ Count(s, A) \in Nat
    <3> DEFINE v == s \o u
    <3>1. v \in Seq(T)
      BY <2>1
    <3> HIDE DEF v
    <3>2. Count(Append(v, x), A) = Count(v, A) + d /\ Count(s, A) \in Nat
      BY <3>1, CountGrows
    <3> QED
      BY <3>2 DEF v
  <2>4. d \in Nat
    OBVIOUS
  <2> HIDE DEF d
  <2> QED
    BY <1>4, <2>1, <2>2, <2>3, <2>4
<1>5. ASSUME NEW k \in Nat, k \in S PROVE k + 1 \in S
  <2> SUFFICES ASSUME k + 1 <= n PROVE Adds(p(k + 1))
    <3> HIDE DEF Adds, p
    <3> QED
      OBVIOUS
  <2>1. k \in 0..(n - 1) /\ k \in 0..n /\ k <= n
    BY <1>1
  <2>2. p(k + 1) = Append(p(k), t[k + 1]) /\ p(k) \in Seq(T) /\ t[k + 1] \in T
    BY <2>1, ByPrefix
  <2>3. Adds(p(k))
    BY <1>5, <2>1
  <2> HIDE DEF Adds, p
  <2> QED
    BY <1>4, <2>2, <2>3
<1> HIDE DEF p, Adds
<1>6. T # {} => n \in S
  <2> HIDE DEF S, n
  <2> QED
    BY <1>1, <1>3, <1>5, FromZero
<1>7. T # {} => Adds(t)
  BY <1>1, <1>6
<1> QED
  BY <1>2, <1>7 DEF Adds

(* The sequences that the elements of s stand for, one after the other.    *)
FlatMap(f, s) == FlattenSeq([i \in DOMAIN s |-> f[s[i]]])

(* FlatMap over an element more, and over a sequence more.                 *)
LEMMA FlatMapGrows ==
  ASSUME NEW S, NEW T, NEW f \in [S -> Seq(T)], NEW s \in Seq(S)
  PROVE  /\ FlatMap(f, <<>>) = <<>> /\ FlatMap(f, s) \in Seq(T)
         /\ \A x \in S : FlatMap(f, Append(s, x)) = Cat(FlatMap(f, s), f[x])
<1> DEFINE g(u) == [i \in DOMAIN u |-> f[u[i]]]
<1>1. ASSUME NEW u \in Seq(S)
      PROVE  /\ g(u) \in Seq(Seq(T)) /\ Len(g(u)) = Len(u) /\ Len(u) \in Nat
             /\ \A i \in 1..Len(u) : g(u)[i] = f[u[i]]
  <2>1. Len(u) \in Nat /\ DOMAIN u = 1..Len(u) /\ \A i \in 1..Len(u) : f[u[i]] \in Seq(T)
    BY LenProperties, ElementOfSeq
  <2>2. g(u) = [i \in 1..Len(u) |-> f[u[i]]]
    BY <2>1
  <2> HIDE DEF g
  <2>3. g(u) \in [1..Len(u) -> Seq(T)]
    BY <2>1, <2>2
  <2>4. g(u) \in Seq(Seq(T)) /\ Len(g(u)) = Len(u)
    BY <2>1, <2>3, SeqFrom
  <2> QED
    BY <2>1, <2>2, <2>4
<1>2. FlatMap(f, <<>>) = <<>>
  <2>1. [i \in DOMAIN <<>> |-> f[<<>>[i]]] = <<>>
    OBVIOUS
  <2> QED
    BY <2>1, FlattenOfNothing DEF FlatMap
<1>3. FlatMap(f, s) \in Seq(T)
  <2>1. g(s) \in Seq(Seq(T)) /\ <<>> \in Seq(T)
    BY <1>1, EmptySeq
  <2>2. FlattenSeq(g(s)) \in Seq(T)
    <3> HIDE DEF g
    <3> QED
      BY <2>1, FlattenGrows
  <2> QED
    BY <2>2 DEF FlatMap
<1>4. ASSUME NEW x \in S PROVE FlatMap(f, Append(s, x)) = FlatMap(f, s) \o f[x]
  <2> DEFINE u == Append(s, x)
  <2>1. /\ u \in Seq(S) /\ Len(u) = Len(s) + 1 /\ u[Len(s) + 1] = x
        /\ \A i \in 1..Len(s) : u[i] = s[i]
    BY AppendProperties
  <2> HIDE DEF u
  <2> DEFINE a == g(u)
             b == Append(g(s), f[x])
  <2>2. a \in Seq(Seq(T)) /\ Len(a) = Len(s) + 1 /\ \A i \in 1..(Len(s) + 1) : a[i] = f[u[i]]
    BY <1>1, <2>1
  <2>3. /\ b \in Seq(Seq(T)) /\ Len(b) = Len(s) + 1 /\ b[Len(s) + 1] = f[x]
        /\ \A i \in 1..Len(s) : b[i] = f[s[i]]
    <3>1. g(s) \in Seq(Seq(T)) /\ Len(g(s)) = Len(s) /\ \A i \in 1..Len(s) : g(s)[i] = f[s[i]]
      BY <1>1
    <3>2. f[x] \in Seq(T)
      OBVIOUS
    <3> HIDE DEF g
    <3> QED
      BY <3>1, <3>2, AppendProperties
  <2>4. \A i \in 1..(Len(s) + 1) : a[i] = b[i]
    <3> HIDE DEF a, b
    <3> SUFFICES ASSUME NEW i \in 1..(Len(s) + 1) PROVE a[i] = b[i]
      OBVIOUS
    <3>1. a[i] = f[u[i]]
      BY <2>2
    <3>2. CASE i = Len(s) + 1
      BY <2>1, <2>3, <3>1, <3>2
    <3>3. CASE i \in 1..Len(s)
      BY <2>1, <2>3, <3>1, <3>3
    <3> QED
      BY <1>1, <3>2, <3>3
  <2>5. a = b
    <3> HIDE DEF a, b
    <3> QED
      BY <2>2, <2>3, <2>4, SeqEqual
  <2>6. g(s) \in Seq(Seq(T)) /\ f[x] \in Seq(T)
    BY <1>1
  <2>7. FlattenSeq(b) = FlattenSeq(g(s)) \o f[x]
    <3> HIDE DEF g
    <3> QED
      BY <2>6, FlattenGrows
  <2>8. FlatMap(f, u) = FlattenSeq(a) /\ FlatMap(f, s) = FlattenSeq(g(s))
    BY DEF FlatMap
  <2> HIDE DEF a, b, g
  <2> QED
    BY <2>5, <2>7, <2>8 DEF u
<1> QED
  BY <1>2, <1>3, <1>4 DEF Cat

LEMMA FlatMapAppend ==
  ASSUME NEW S, NEW T, NEW f \in [S -> Seq(T)], NEW s \in Seq(S), NEW x \in S
  PROVE  FlatMap(f, Append(s, x)) = Cat(FlatMap(f, s), f[x])
BY FlatMapGrows

Joins(R, T, U) ==
  /\ <<<<>>, <<>>>> \in R
  /\ \A x, v \in Seq(T) : \A y, w \in Seq(U) :
       <<x, y>> \in R /\ <<v, w>> \in R => <<Cat(x, v), Cat(y, w)>> \in R

(* What holds of the sequences of each element, and of one after the other *)
(* if it holds of both, holds of all of them.                              *)
LEMMA FlatMapRelates ==
  ASSUME NEW S, NEW T, NEW U, NEW f \in [S -> Seq(T)], NEW g \in [S -> Seq(U)], NEW s \in Seq(S),
         NEW R, Joins(R, T, U), \A e \in S : <<f[e], g[e]>> \in R
  PROVE  <<FlatMap(f, s), FlatMap(g, s)>> \in R
<1> DEFINE p(k) == SubSeq(s, 1, k)
           K == {k \in 0..Len(s) : <<FlatMap(f, p(k)), FlatMap(g, p(k))>> \in R}
<1>1. Len(s) \in Nat /\ p(0) = <<>> /\ p(Len(s)) = s
  BY ByPrefix
<1>2. 0 \in K
  <2>1. FlatMap(f, <<>>) = <<>> /\ FlatMap(g, <<>>) = <<>>
    BY FlatMapGrows
  <2> HIDE DEF p
  <2>2. 0 \in 0..Len(s) /\ <<<<>>, <<>>>> \in R
    BY <1>1 DEF Joins
  <2> QED
    BY <1>1, <2>1, <2>2
<1>3. ASSUME NEW k \in 0..(Len(s) - 1), k \in K PROVE k + 1 \in K
  <2>1. k \in 0..Len(s) /\ k + 1 \in 1..Len(s) /\ k + 1 \in 0..Len(s)
    BY <1>1
  <2>2. p(k) \in Seq(S) /\ s[k + 1] \in S /\ p(k + 1) = Append(p(k), s[k + 1])
    BY <2>1, ByPrefix
  <2> DEFINE x == s[k + 1]
  <2>3. <<FlatMap(f, p(k)), FlatMap(g, p(k))>> \in R /\ <<f[x], g[x]>> \in R
    BY <1>3, <2>1, <2>2
  <2> HIDE DEF p, x
  <2>4. /\ FlatMap(f, p(k)) \in Seq(T) /\ FlatMap(g, p(k)) \in Seq(U)
        /\ f[x] \in Seq(T) /\ g[x] \in Seq(U)
        /\ FlatMap(f, Append(p(k), x)) = Cat(FlatMap(f, p(k)), f[x])
        /\ FlatMap(g, Append(p(k), x)) = Cat(FlatMap(g, p(k)), g[x])
    <3>1. x \in S /\ p(k) \in Seq(S)
      BY <2>2 DEF x
    <3> DEFINE u == p(k)
    <3>2. u \in Seq(S)
      BY <3>1
    <3> HIDE DEF u
    <3>3. FlatMap(f, u) \in Seq(T) /\ FlatMap(g, u) \in Seq(U)
      BY <3>2, FlatMapGrows
    <3>4. f[x] \in Seq(T) /\ g[x] \in Seq(U)
      BY <3>1
    <3>5. FlatMap(f, Append(u, x)) = Cat(FlatMap(f, u), f[x])
      BY <3>1, <3>2, FlatMapAppend
    <3>6. FlatMap(g, Append(u, x)) = Cat(FlatMap(g, u), g[x])
      BY <3>1, <3>2, FlatMapAppend
    <3> QED
      BY <3>3, <3>4, <3>5, <3>6, Zenon DEF u
  <2>5. <<FlatMap(f, Append(p(k), x)), FlatMap(g, Append(p(k), x))>> \in R
    BY <2>3, <2>4 DEF Joins
  <2> QED
    BY <2>1, <2>2, <2>5 DEF x
<1> HIDE DEF K
<1>4. Len(s) \in K
  <2>1. \A k \in 0..Len(s) : k \in K
    BY <1>1, <1>2, <1>3, ToEach
  <2> QED
    BY <1>1, <2>1
<1> QED
  BY <1>1, <1>4 DEF K

LEMMA FlatMapConcat ==
  ASSUME NEW S, NEW T, NEW f \in [S -> Seq(T)], NEW s \in Seq(S), NEW t \in Seq(S)
  PROVE  FlatMap(f, Cat(s, t)) = Cat(FlatMap(f, s), FlatMap(f, t))
<1> DEFINE p(k) == SubSeq(t, 1, k)
           K == {k \in 0..Len(t) : FlatMap(f, Cat(s, p(k))) = Cat(FlatMap(f, s), FlatMap(f, p(k)))}
<1>1. Len(t) \in Nat /\ p(0) = <<>> /\ p(Len(t)) = t
  BY ByPrefix
<1>2. FlatMap(f, s) \in Seq(T) /\ FlatMap(f, <<>>) = <<>> /\ Cat(s, <<>>) = s
  BY FlatMapGrows, CatNothing
<1>3. 0 \in K
  <2>1. Cat(FlatMap(f, s), <<>>) = FlatMap(f, s)
    BY <1>2, CatNothing
  <2> HIDE DEF p
  <2>2. 0 \in 0..Len(t)
    BY <1>1
  <2> QED
    BY <1>1, <1>2, <2>1, <2>2
<1>4. ASSUME NEW u \in Seq(S), NEW x \in S, FlatMap(f, Cat(s, u)) = Cat(FlatMap(f, s), FlatMap(f, u))
      PROVE  FlatMap(f, Cat(s, Append(u, x))) = Cat(FlatMap(f, s), FlatMap(f, Append(u, x)))
  <2>1. Cat(s, u) \in Seq(S) /\ Cat(s, Append(u, x)) = Append(Cat(s, u), x)
    <3>1. Cat(s, u) \in Seq(S) /\ One(x) \in Seq(S) /\ Append(u, x) = Cat(u, One(x))
      BY CatTyped, CatOne
    <3>2. Append(Cat(s, u), x) = Cat(Cat(s, u), One(x))
      BY <3>1, CatOne
    <3>3. Cat(Cat(s, u), One(x)) = Cat(s, Cat(u, One(x)))
      BY <3>1, CatJoined
    <3> QED
      BY <3>1, <3>2, <3>3, Zenon
  <2> DEFINE v == Cat(s, u)
  <2>2. v \in Seq(S)
    BY <2>1
  <2> HIDE DEF v
  <2>3. FlatMap(f, Append(v, x)) = Cat(FlatMap(f, v), f[x])
    BY <2>2, FlatMapAppend
  <2>4. FlatMap(f, Append(u, x)) = Cat(FlatMap(f, u), f[x])
    BY FlatMapAppend
  <2>6. FlatMap(f, u) \in Seq(T) /\ f[x] \in Seq(T)
    BY FlatMapGrows
  <2>5. Cat(Cat(FlatMap(f, s), FlatMap(f, u)), f[x]) = Cat(FlatMap(f, s), Cat(FlatMap(f, u), f[x]))
    BY <1>2, <2>6, CatJoined
  <2> QED
    BY <1>4, <2>1, <2>3, <2>4, <2>5, Zenon DEF v
<1>5. ASSUME NEW k \in 0..(Len(t) - 1), k \in K PROVE k + 1 \in K
  <2>1. k \in 0..Len(t) /\ k + 1 \in 0..Len(t)
    BY <1>1
  <2>2. p(k) \in Seq(S) /\ t[k + 1] \in S /\ p(k + 1) = Append(p(k), t[k + 1])
    BY <2>1, ByPrefix
  <2> HIDE DEF p
  <2>3. FlatMap(f, Cat(s, p(k))) = Cat(FlatMap(f, s), FlatMap(f, p(k)))
    BY <1>5
  <2> QED
    BY <1>4, <2>1, <2>2, <2>3
<1> HIDE DEF K
<1>6. Len(t) \in K
  <2>1. \A k \in 0..Len(t) : k \in K
    BY <1>1, <1>3, <1>5, ToEach
  <2> QED
    BY <1>1, <2>1
<1> QED
  BY <1>1, <1>6 DEF K
=============================================================================
