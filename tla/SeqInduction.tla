---------------------------- MODULE SeqInduction ----------------------------
(***************************************************************************)
(* Induction on the natural numbers over a set, and with it what FlattenSeq *)
(* computes: a set that misses a number misses a least one.                *)
(***************************************************************************)
EXTENDS SequencesExt, SequenceTheorems, WellFoundedInduction, TLAPS

\* A set that contains zero, and with every number the next, contains them all.
LEMMA Induction ==
    ASSUME NEW T, 0 \in T, \A n \in Nat : n \in T => n + 1 \in T
    PROVE  Nat \subseteq T
<1> DEFINE R == OpToRel(<, Nat)
           U == Nat \ T
<1>1. R = {p \in Nat \X Nat : p[1] < p[2]}
  BY DEF OpToRel
<1>2. SUFFICES ASSUME U # {} PROVE FALSE
  OBVIOUS
<1>3. PICK x \in U : \A y \in U : ~ (<<y, x>> \in R)
  <2>1. IsWellFoundedOn(R, Nat)
    BY NatLessThanWellFounded
  <2> HIDE DEF R
  <2> QED BY <1>2, <2>1, WFMin
<1>4. x # 0 /\ x - 1 \in Nat
  OBVIOUS
<1>5. <<x - 1, x>> \in R
  <2>1. <<x - 1, x>> \in Nat \X Nat /\ x - 1 < x
    BY <1>4
  <2> HIDE DEF R
  <2> QED BY <1>1, <2>1
<1>6. x - 1 \in T
  BY <1>3, <1>4, <1>5
<1> QED BY <1>4, <1>6

\* f is the function by which FlattenSeq flattens s.
FlatOf(f, s) == f = [i \in 1..Len(s) |-> IF i = 1 THEN s[i] ELSE f[i - 1] \o s[i]]

\* Such a function exists: by induction on the length up to which it is defined.
LEMMA FlattenDef ==
    ASSUME NEW S, NEW s \in Seq(Seq(S)), s # << >>
    PROVE  \E f : FlatOf(f, s) /\ FlattenSeq(s) = f[Len(s)]
<1> DEFINE Upto(f, n) == f = [i \in 1..n |-> IF i = 1 THEN s[i] ELSE f[i - 1] \o s[i]]
           T == {n \in Nat : \E f : Upto(f, n)}
<1>1. 0 \in T
  <2>1. Upto(<< >>, 0)
    OBVIOUS
  <2> QED BY <2>1
<1>2. ASSUME NEW n \in Nat, n \in T PROVE n + 1 \in T
  <2>1. PICK f : Upto(f, n)
    BY <1>2
  <2> DEFINE last == IF n + 1 = 1 THEN s[n + 1] ELSE f[n] \o s[n + 1]
             g == [i \in 1..(n + 1) |-> IF i = n + 1 THEN last ELSE f[i]]
  <2>2. ASSUME NEW i \in 1..(n + 1)
        PROVE  g[i] = IF i = 1 THEN s[i] ELSE g[i - 1] \o s[i]
    <3>1. CASE i = n + 1
      BY <3>1
    <3>2. CASE i # n + 1
      <4>1. i \in 1..n
        BY <3>2
      <4>2. f[i] = IF i = 1 THEN s[i] ELSE f[i - 1] \o s[i]
        BY <2>1, <4>1
      <4>3. g[i] = f[i] /\ (i # 1 => g[i - 1] = f[i - 1])
        BY <4>1
      <4> QED BY <4>2, <4>3
    <3> QED BY <3>1, <3>2
  <2>3. g = [i \in 1..(n + 1) |-> g[i]]
    OBVIOUS
  <2>4. Upto(g, n + 1)
    <3> HIDE DEF g
    <3> QED BY <2>2, <2>3
  <2> QED
    <3> HIDE DEF g, Upto
    <3> QED BY <2>4
<1>3. Len(s) \in T
  <2> HIDE DEF T
  <2> QED BY <1>1, <1>2, Induction
<1>4. \E f : FlatOf(f, s)
  BY <1>3 DEF FlatOf
<1> QED
  <2> DEFINE flatten == CHOOSE f : FlatOf(f, s)
  <2>1. FlatOf(flatten, s)
    BY <1>4
  <2>2. Len(s) # 0
    OBVIOUS
  <2>3. FlattenSeq(s) = flatten[Len(s)]
    BY <2>2 DEF FlattenSeq, FlatOf
  <2> QED BY <2>1, <2>3

\* Nothing flattened is nothing.
LEMMA FlattenNone == FlattenSeq(<< >>) = << >>
BY DEF FlattenSeq

\* What it is at one place.
LEMMA FlatMember ==
    ASSUME NEW s, NEW f, FlatOf(f, s), NEW i \in 1..Len(s)
    PROVE  f[i] = IF i = 1 THEN s[i] ELSE f[i - 1] \o s[i]
BY DEF FlatOf

\* It leads to sequences of the elements.
LEMMA FlatType ==
    ASSUME NEW S, NEW s \in Seq(Seq(S)), NEW f, FlatOf(f, s)
    PROVE  \A i \in 1..Len(s) : f[i] \in Seq(S)
<1> DEFINE T == {n \in Nat : n \in 1..Len(s) => f[n] \in Seq(S)}
<1>1. 0 \in T
  OBVIOUS
<1>2. ASSUME NEW n \in Nat, n \in T PROVE n + 1 \in T
  <2> SUFFICES ASSUME n + 1 \in 1..Len(s) PROVE f[n + 1] \in Seq(S)
    OBVIOUS
  <2>1. f[n + 1] = IF n + 1 = 1 THEN s[n + 1] ELSE f[n] \o s[n + 1]
    BY FlatMember
  <2>2. s[n + 1] \in Seq(S)
    OBVIOUS
  <2>3. n + 1 # 1 => f[n] \in Seq(S)
    BY <1>2
  <2> QED BY <2>1, <2>2, <2>3
<1>3. Nat \subseteq T
  <2> HIDE DEF T
  <2> QED BY <1>1, <1>2, Induction
<1> QED BY <1>3

\* Sequences of sequences are flattened to a sequence of their elements.
LEMMA FlattenType ==
    ASSUME NEW S, NEW s \in Seq(Seq(S)) PROVE FlattenSeq(s) \in Seq(S)
<1>1. CASE s = << >>
  <2>1. << >> \in Seq(S)
    OBVIOUS
  <2> QED BY Zenon, <1>1, <2>1, FlattenNone
<1>2. CASE s # << >>
  <2>1. PICK f : FlatOf(f, s) /\ FlattenSeq(s) = f[Len(s)]
    BY <1>2, FlattenDef
  <2>2. Len(s) \in 1..Len(s)
    BY <1>2
  <2> QED BY <2>1, <2>2, FlatType
<1> QED BY <1>1, <1>2

\* One sequence more is flattened to the end.
LEMMA FlattenAppend ==
    ASSUME NEW S, NEW s \in Seq(Seq(S)), NEW x \in Seq(S)
    PROVE  FlattenSeq(Append(s, x)) = FlattenSeq(s) \o x
<1> DEFINE a == Append(s, x)
<1>0. ASSUME NEW A, NEW b \in Seq(A), NEW y \in A
      PROVE  /\ Append(b, y) \in Seq(A) /\ Append(b, y) # << >>
             /\ Len(Append(b, y)) = Len(b) + 1 /\ Len(b) \in Nat
  BY AppendProperties, LenProperties
<1>1. a \in Seq(Seq(S)) /\ a # << >> /\ Len(a) = Len(s) + 1 /\ Len(s) \in Nat
  BY <1>0
<1>2. a[Len(s) + 1] = x /\ \A i \in 1..Len(s) : a[i] = s[i]
  OBVIOUS
<1> HIDE DEF a
<1>3. PICK g : FlatOf(g, a) /\ FlattenSeq(a) = g[Len(a)]
  BY <1>1, FlattenDef
<1>4. CASE s = << >>
  <2>1. g[1] = a[1]
    BY <1>1, <1>3, <1>4, FlatMember
  <2> QED BY <1>1, <1>2, <1>3, <1>4, <2>1, FlattenNone DEF a
<1>5. CASE s # << >>
  <2>1. PICK f : FlatOf(f, s) /\ FlattenSeq(s) = f[Len(s)]
    BY <1>5, FlattenDef
  <2> DEFINE T == {n \in Nat : n \in 1..Len(s) => f[n] = g[n]}
  <2>2. 0 \in T
    OBVIOUS
  <2>3. ASSUME NEW n \in Nat, n \in T PROVE n + 1 \in T
    <3> SUFFICES ASSUME n + 1 \in 1..Len(s) PROVE f[n + 1] = g[n + 1]
      OBVIOUS
    <3>1. f[n + 1] = IF n + 1 = 1 THEN s[n + 1] ELSE f[n + 1 - 1] \o s[n + 1]
      BY <2>1, FlatMember
    <3>2. g[n + 1] = IF n + 1 = 1 THEN a[n + 1] ELSE g[n + 1 - 1] \o a[n + 1]
      <4>1. n + 1 \in 1..Len(a)
        BY <1>1
      <4> QED BY <1>3, <4>1, FlatMember
    <3>3. n + 1 # 1 => f[n] = g[n]
      BY <2>3
    <3> QED BY <1>2, <3>1, <3>2, <3>3
  <2>4. Nat \subseteq T
    <3> HIDE DEF T
    <3> QED BY <2>2, <2>3, Induction
  <2>5. Len(s) \in 1..Len(s) /\ f[Len(s)] = g[Len(s)]
    BY <1>1, <1>5, <2>4
  <2>6. g[Len(a)] = g[Len(s)] \o x
    <3>1. Len(a) \in 1..Len(a) /\ Len(a) # 1 /\ Len(a) - 1 = Len(s)
      BY <1>1, <2>5
    <3>2. g[Len(a)] = g[Len(a) - 1] \o a[Len(a)]
      BY <1>3, <3>1, FlatMember
    <3> QED BY <1>1, <1>2, <3>1, <3>2
  <2> QED BY <1>3, <2>1, <2>5, <2>6 DEF a
<1> QED BY <1>4, <1>5

\* The same, by the length.
LEMMA FlattenNext ==
    ASSUME NEW S, NEW n \in Nat, NEW f \in [1..(n + 1) -> Seq(S)]
    PROVE  FlattenSeq(f) = FlattenSeq([i \in 1..n |-> f[i]]) \o f[n + 1]
<1> DEFINE s == [i \in 1..n |-> f[i]]
<1>1. s \in Seq(Seq(S)) /\ f[n + 1] \in Seq(S) /\ Len(s) = n
  OBVIOUS
<1>2. f = Append(s, f[n + 1])
  OBVIOUS
<1> HIDE DEF s
<1>3. FlattenSeq(Append(s, f[n + 1])) = FlattenSeq(s) \o f[n + 1]
  BY <1>1, FlattenAppend
<1> QED BY <1>2, <1>3 DEF s
=============================================================================
