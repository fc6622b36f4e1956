--------------------------- MODULE TabText_proofs ---------------------------
(***************************************************************************)
(* What word_wrap makes of a text: no line of it is longer than the column *)
(* (LinesFit) and all its letters are still there (WrapKeepsLetters). Both *)
(* are shown one word after the other, and of a word that is cut one piece *)
(* after the other.                                                        *)
(***************************************************************************)
EXTENDS TabText, SeqInduction, FiniteSetTheorems

----------------------------------------------------------------------------
(* The least and the greatest of some numbers. *)

LEMMA Least ==
    ASSUME NEW S \in SUBSET Nat, S # {}
    PROVE  Min(S) \in S /\ \A y \in S : Min(S) <= y
<1> DEFINE T == {n \in Nat : \A y \in S : y > n}
<1>1. \E x \in S : \A y \in S : x <= y
  <2> SUFFICES ASSUME \A x \in S : \E y \in S : ~(x <= y) PROVE FALSE
    OBVIOUS
  <2>1. 0 \in T
    OBVIOUS
  <2>2. ASSUME NEW n \in Nat, n \in T PROVE n + 1 \in T
    <3>1. \A y \in S : y >= n + 1
      BY <2>2
    <3>2. n + 1 \notin S
      BY <3>1
    <3> QED BY <3>1, <3>2
  <2>3. Nat \subseteq T
    <3> HIDE DEF T
    <3> QED BY <2>1, <2>2, Induction
  <2>4. PICK x \in S : TRUE
    OBVIOUS
  <2> QED BY <2>3, <2>4
<1> QED BY <1>1 DEF Min

LEMMA Greatest ==
    ASSUME NEW n \in Nat, NEW S \in SUBSET (0..n), S # {}
    PROVE  Max(S) \in S /\ \A y \in S : y <= Max(S)
<1> DEFINE D == {n - x : x \in S}
<1>0. \A x \in S : x \in Nat /\ x <= n
  OBVIOUS
<1>1. D \in SUBSET Nat /\ D # {}
  <2>1. \A x \in S : n - x \in Nat
    BY <1>0
  <2> QED BY <2>1
<1>2. PICK d \in D : \A y \in D : d <= y
  <2> HIDE DEF D
  <2> QED BY <1>1, Least
<1>3. PICK x \in S : d = n - x
  OBVIOUS
<1>4. ASSUME NEW y \in S PROVE y <= x
  <2>1. n - y \in D
    OBVIOUS
  <2> HIDE DEF D
  <2>2. n - x <= n - y /\ x \in Nat /\ y \in Nat
    BY <1>0, <1>2, <1>3, <2>1
  <2> QED BY <2>2
<1>5. \E z \in S : \A y \in S : z >= y
  BY <1>4
<1> QED BY <1>5 DEF Max

\* Finitely many numbers have a bound,
LEMMA Bounded ==
    ASSUME NEW n \in Nat, NEW g \in [1..n -> Nat]
    PROVE  \E b \in Nat : \A i \in 1..n : g[i] <= b
<1> DEFINE T == {k \in Nat : \E b \in Nat : \A i \in 1..n : i <= k => g[i] <= b}
<1>1. 0 \in T
  OBVIOUS
<1>2. ASSUME NEW k \in Nat, k \in T PROVE k + 1 \in T
  <2>1. PICK b \in Nat : \A i \in 1..n : i <= k => g[i] <= b
    BY <1>2
  <2>2. CASE k + 1 \in 1..n
    <3>1. PICK c \in Nat : c >= b /\ c >= g[k + 1]
      BY <2>2
    <3>2. ASSUME NEW i \in 1..n, i <= k + 1 PROVE g[i] <= c
      <4>1. CASE i = k + 1
        BY <3>1, <4>1
      <4>2. CASE i # k + 1
        <5>1. i <= k /\ g[i] \in Nat
          BY <3>2, <4>2
        <5> QED BY <2>1, <3>1, <5>1
      <4> QED BY <4>1, <4>2
    <3> QED BY <3>2
  <2>3. CASE k + 1 \notin 1..n
    BY <2>1, <2>3
  <2> QED BY <2>2, <2>3
<1>3. n \in T
  <2> HIDE DEF T
  <2> QED BY <1>1, <1>2, Induction
<1> QED BY <1>3

\* and so the greatest of them and zero.
LEMMA GreatestOf ==
    ASSUME NEW n \in Nat, NEW g \in [1..n -> Nat], NEW I \in SUBSET (1..n)
    PROVE  LET S == {0} \cup {g[i] : i \in I}
           IN  Max(S) \in S /\ Max(S) \in Nat /\ \A i \in I : g[i] <= Max(S)
<1> DEFINE S == {0} \cup {g[i] : i \in I}
<1>1. PICK b \in Nat : \A i \in 1..n : g[i] <= b
  BY Bounded
<1>2. S \in SUBSET (0..b) /\ S # {} /\ \A i \in I : g[i] \in S
  BY <1>1
<1> HIDE DEF S
<1>3. Max(S) \in S /\ \A y \in S : y <= Max(S)
  BY <1>2, Greatest
<1>4. Max(S) \in Nat
  <2>1. PICK x : x = Max(S)
    OBVIOUS
  <2>2. x \in 0..b
    BY <1>2, <1>3, <2>1
  <2> QED BY <2>1, <2>2
<1> QED BY <1>2, <1>3, <1>4 DEF S

----------------------------------------------------------------------------
(* Trimming and the words of a text. *)

LEMMA Windows ==
    ASSUME NEW C, NEW s \in Seq(C), NEW a \in Nat, NEW b \in Nat, 1 <= a, b <= Len(s)
    PROVE  /\ SubSeq(s, a, b) \in Seq(C)
           /\ Len(SubSeq(s, a, b)) = IF a <= b THEN b - a + 1 ELSE 0
           /\ \A i \in 1..Len(SubSeq(s, a, b)) : SubSeq(s, a, b)[i] = s[a + i - 1]
BY SubSeqProperties

LEMMA TrimLeft ==
    ASSUME NEW C, NEW s \in Seq(C)
    PROVE  trim_left(s) \in Seq(C) /\ Len(trim_left(s)) <= Len(s)
<1> DEFINE ink == {i \in 1..Len(s) : s[i] \notin Space}
<1>1. Len(s) \in Nat
  BY LenProperties
<1>2. CASE ink = {}
  BY <1>1, <1>2, EmptySeq DEF trim_left
<1>3. CASE ink # {}
  <2>0. ink \in SUBSET Nat
    OBVIOUS
  <2>1. Min(ink) \in ink
    <3> HIDE DEF ink
    <3> QED BY <1>1, <1>3, <2>0, Least
  <2>2. Min(ink) \in 1..Len(s)
    BY <2>1
  <2>3. trim_left(s) = SubSeq(s, Min(ink), Len(s))
    BY <1>3 DEF trim_left
  <2> HIDE DEF ink
  <2> QED BY <1>1, <2>2, <2>3, Windows
<1> QED BY <1>2, <1>3

LEMMA TrimRight ==
    ASSUME NEW C, NEW s \in Seq(C)
    PROVE  trim_right(s) \in Seq(C) /\ Len(trim_right(s)) <= Len(s)
<1> DEFINE ink == {i \in 1..Len(s) : s[i] \notin Space}
<1>1. Len(s) \in Nat
  BY LenProperties
<1>2. CASE ink = {}
  BY <1>1, <1>2, EmptySeq DEF trim_right
<1>3. CASE ink # {}
  <2>0. ink \in SUBSET (0..Len(s))
    OBVIOUS
  <2>1. Max(ink) \in ink
    <3> HIDE DEF ink
    <3> QED BY <1>1, <1>3, <2>0, Greatest
  <2>2. Max(ink) \in 1..Len(s)
    BY <2>1
  <2>3. trim_right(s) = SubSeq(s, 1, Max(ink))
    BY <1>3 DEF trim_right
  <2> HIDE DEF ink
  <2> QED BY <1>1, <2>2, <2>3, Windows
<1> QED BY <1>2, <1>3

LEMMA Trim ==
    ASSUME NEW C, NEW s \in Seq(C)
    PROVE  trim(s) \in Seq(C) /\ Len(trim(s)) <= Len(s)
<1>1. trim_right(s) \in Seq(C) /\ Len(trim_right(s)) <= Len(s)
  BY TrimRight
<1>2. trim(s) \in Seq(C) /\ Len(trim(s)) <= Len(trim_right(s))
  BY <1>1, TrimLeft DEF trim
<1> QED BY <1>1, <1>2, LenProperties

\* w is the function by which explode_string makes words of s.
WordsOf(w, s) ==
    w = [n \in 0..Len(s) |-> IF n = 0 THEN << << >> >> ELSE AddCharacter(w[n - 1], s[n])]

\* Such a function exists: by induction on the length up to which it is defined.
LEMMA WordsDef ==
    ASSUME NEW C, NEW s \in Seq(C)
    PROVE  \E w : WordsOf(w, s) /\ explode_string(s) = w[Len(s)]
<1> DEFINE Upto(f, n) ==
              f = [i \in 0..n |-> IF i = 0 THEN << << >> >> ELSE AddCharacter(f[i - 1], s[i])]
           T == {n \in Nat : \E f : Upto(f, n)}
<1>1. 0 \in T
  <2> DEFINE f == [i \in 0..0 |-> << << >> >>]
  <2>1. Upto(f, 0)
    OBVIOUS
  <2> QED BY <2>1
<1>2. ASSUME NEW n \in Nat, n \in T PROVE n + 1 \in T
  <2>1. PICK f : Upto(f, n)
    BY <1>2
  <2> DEFINE last == AddCharacter(f[n], s[n + 1])
             g == [i \in 0..(n + 1) |-> IF i = n + 1 THEN last ELSE f[i]]
  <2>2. ASSUME NEW i \in 0..(n + 1)
        PROVE  g[i] = IF i = 0 THEN << << >> >> ELSE AddCharacter(g[i - 1], s[i])
    <3>1. CASE i = n + 1
      BY <3>1
    <3>2. CASE i # n + 1
      <4>1. i \in 0..n
        BY <3>2
      <4>2. f[i] = IF i = 0 THEN << << >> >> ELSE AddCharacter(f[i - 1], s[i])
        BY <2>1, <4>1
      <4>3. g[i] = f[i] /\ (i # 0 => g[i - 1] = f[i - 1])
        BY <4>1
      <4> QED BY <4>2, <4>3
    <3> QED BY <3>1, <3>2
  <2>3. g = [i \in 0..(n + 1) |-> g[i]]
    OBVIOUS
  <2>4. Upto(g, n + 1)
    <3> HIDE DEF g
    <3> QED BY <2>2, <2>3
  <2> QED
    <3> HIDE DEF g, Upto
    <3> QED BY <2>4
<1>3. Len(s) \in T
  <2> HIDE DEF T
  <2> QED BY <1>1, <1>2, Induction, LenProperties
<1>4. \E f : WordsOf(f, s)
  BY <1>3 DEF WordsOf
<1> DEFINE words == CHOOSE f : WordsOf(f, s)
<1>5. WordsOf(words, s)
  BY <1>4
<1>6. explode_string(s) = words[Len(s)]
  BY DEF explode_string, WordsOf
<1> QED BY <1>5, <1>6

\* One character makes at most one word longer, by one.
LEMMA CharacterAdded ==
    ASSUME NEW C, NEW k \in Nat, NEW words \in Seq(Seq(C)), words # << >>, NEW c \in C,
           \A n \in 1..Len(words) : Len(words[n]) <= k
    PROVE  LET more == AddCharacter(words, c)
           IN  /\ more \in Seq(Seq(C)) /\ more # << >>
               /\ \A n \in 1..Len(more) : Len(more[n]) <= k + 1
<1> DEFINE m == Len(words)
           word == Append(words[m], c)
           grown == [words EXCEPT ![m] = word]
           more == AddCharacter(words, c)
<1>1. m \in Nat /\ m # 0 /\ \A n \in 1..m : words[n] \in Seq(C) /\ Len(words[n]) \in Nat
  BY EmptySeq, LenProperties, ElementOfSeq
<1>2. word \in Seq(C) /\ Len(word) <= k + 1
  <2>1. m \in 1..m
    BY <1>1
  <2>2. words[m] \in Seq(C) /\ Len(words[m]) \in Nat /\ Len(words[m]) <= k
    BY <1>1, <2>1
  <2> HIDE DEF m
  <2>3. word \in Seq(C) /\ Len(word) = Len(words[m]) + 1
    BY <2>2, AppendProperties
  <2> HIDE DEF word
  <2> QED BY <2>2, <2>3
<1>3. grown \in Seq(Seq(C)) /\ Len(grown) = m /\ \A n \in 1..m : Len(grown[n]) <= k + 1
  <2>1. grown \in Seq(Seq(C)) /\ Len(grown) = m
    BY <1>1, <1>2, ExceptSeq
  <2>2. \A n \in 1..m : grown[n] = IF n = m THEN word ELSE words[n]
    BY <1>1, <1>2, ExceptSeq
  <2> HIDE DEF grown, word
  <2> QED BY <1>1, <1>2, <2>1, <2>2
<1>4. << >> \in Seq(C) /\ Len(<< >>) = 0 /\ <<c>> \in Seq(C) /\ Len(<<c>>) = 1
  OBVIOUS
<1>5. CASE index_of_any(c) = "space"
  <2> DEFINE new == << <<c>>, << >> >>
  <2>1. new \in Seq(Seq(C)) /\ Len(new) = 2 /\ new[1] = <<c>> /\ new[2] = << >>
    BY <1>4
  <2>2. more = words \o new
    BY <1>5 DEF AddCharacter
  <2> HIDE DEF new
  <2>3. more \in Seq(Seq(C)) /\ Len(more) = m + 2
        /\ \A n \in 1..(m + 2) : more[n] = IF n <= m THEN words[n] ELSE new[n - m]
    <3> DEFINE S == Seq(C)
    <3>0. words \in Seq(S) /\ new \in Seq(S)
      BY <2>1
    <3> HIDE DEF more, S
    <3>3. words \o new \in Seq(S) /\ Len(words \o new) = Len(words) + Len(new)
          /\ \A n \in 1..Len(words) + Len(new) :
                (words \o new)[n] = IF n <= Len(words) THEN words[n] ELSE new[n - Len(words)]
      BY <3>0, ConcatProperties
    <3>1. more \in Seq(Seq(C)) /\ Len(more) = m + 2
      BY <2>1, <2>2, <3>3 DEF S
    <3>2. \A n \in 1..(m + 2) : more[n] = IF n <= m THEN words[n] ELSE new[n - m]
      BY <2>1, <2>2, <3>3
    <3> QED BY <3>1, <3>2
  <2> HIDE DEF more
  <2>4. ASSUME NEW n \in 1..(m + 2) PROVE Len(more[n]) <= k + 1
    <3>0. more[n] = IF n <= m THEN words[n] ELSE new[n - m]
      BY <2>3
    <3> HIDE DEF m
    <3>1. CASE n <= m
      <4>1. n \in 1..m /\ more[n] = words[n]
        BY <1>1, <3>0, <3>1
      <4>2. Len(words[n]) \in Nat /\ Len(words[n]) <= k
        BY <1>1, <4>1 DEF m
      <4> QED BY <4>1, <4>2
    <3>2. CASE n = m + 1
      <4>1. more[n] = <<c>>
        BY <1>1, <2>1, <3>0, <3>2
      <4> QED BY <1>4, <4>1
    <3>3. CASE n = m + 2
      <4>1. more[n] = << >>
        BY <1>1, <2>1, <3>0, <3>3
      <4> QED BY <1>4, <4>1
    <3> QED BY <1>1, <3>1, <3>2, <3>3
  <2>5. more # << >>
    BY <1>1, <2>3, EmptySeq
  <2> QED BY <2>3, <2>4, <2>5 DEF more
<1>6. CASE index_of_any(c) = "dash"
  <2>1. more = Append(grown, << >>)
    BY <1>6 DEF AddCharacter
  <2> HIDE DEF grown
  <2>2. /\ more \in Seq(Seq(C)) /\ Len(more) = m + 1 /\ more[m + 1] = << >>
        /\ \A n \in 1..m : more[n] = grown[n]
    BY <1>3, <1>4, <2>1, AppendProperties
  <2> HIDE DEF more
  <2>3. ASSUME NEW n \in 1..(m + 1) PROVE Len(more[n]) <= k + 1
    <3>1. CASE n = m + 1
      BY <1>4, <2>2, <3>1
    <3>2. CASE n # m + 1
      <4> HIDE DEF m
      <4>1. n \in 1..m
        BY <1>1, <3>2
      <4> QED BY <1>3, <2>2, <4>1
    <3> QED BY <3>1, <3>2
  <2>4. more # << >>
    BY <1>1, <2>2, EmptySeq
  <2> QED BY <2>2, <2>3, <2>4 DEF more
<1>7. CASE index_of_any(c) # "space" /\ index_of_any(c) # "dash"
  <2>1. more = grown
    BY <1>7 DEF AddCharacter
  <2> HIDE DEF grown
  <2>2. more # << >>
    BY <1>1, <1>3, <2>1, EmptySeq
  <2> QED BY <1>3, <2>1, <2>2
<1> QED BY <1>5, <1>6, <1>7

\* The words have the characters of the text and are no longer than it.
LEMMA WordsType ==
    ASSUME NEW C, NEW s \in Seq(C)
    PROVE  /\ explode_string(s) \in Seq(Seq(C))
           /\ \A n \in 1..Len(explode_string(s)) : Len(explode_string(s)[n]) <= Len(s)
<1>1. PICK w : WordsOf(w, s) /\ explode_string(s) = w[Len(s)]
  BY WordsDef
<1>2. Len(s) \in Nat
  BY LenProperties
<1>3. ASSUME NEW n \in 0..Len(s)
      PROVE  w[n] = IF n = 0 THEN << << >> >> ELSE AddCharacter(w[n - 1], s[n])
  BY <1>1 DEF WordsOf
<1> DEFINE Good(k) == /\ w[k] \in Seq(Seq(C)) /\ w[k] # << >>
                      /\ \A n \in 1..Len(w[k]) : Len(w[k][n]) <= k
           T == {k \in Nat : k <= Len(s) => Good(k)}
<1>4. 0 \in T
  <2>1. w[0] = << << >> >>
    BY <1>2, <1>3
  <2>2. << << >> >> \in Seq(Seq(C)) /\ Len(<< << >> >>) = 1 /\ << << >> >>[1] = << >>
        /\ Len(<< >>) = 0
    OBVIOUS
  <2>3. Good(0)
    BY <2>1, <2>2
  <2> QED BY <2>3
<1>5. ASSUME NEW k \in Nat, k \in T PROVE k + 1 \in T
  <2> SUFFICES ASSUME k + 1 <= Len(s) PROVE Good(k + 1)
    OBVIOUS
  <2>1. Good(k)
    BY <1>2, <1>5
  <2>2. k + 1 \in 0..Len(s) /\ k + 1 # 0 /\ k + 1 - 1 = k /\ k + 1 \in 1..Len(s)
    BY <1>2
  <2>3. w[k + 1] = AddCharacter(w[k], s[k + 1])
    BY <1>3, <2>2
  <2>4. s[k + 1] \in C
    BY <2>2, ElementOfSeq
  <2> QED BY ZenonT(30), <2>1, <2>3, <2>4, CharacterAdded
<1>6. Len(s) \in T
  <2> HIDE DEF T
  <2> QED BY <1>2, <1>4, <1>5, Induction
<1> QED BY <1>1, <1>2, <1>6
----------------------------------------------------------------------------
(* Lines. *)

\* No line of x is longer than width: so many characters have a newline among them.
Fits(x, width) ==
    \A a \in 1..Len(x) : \A b \in a..Len(x) :
        (\A i \in a..b : x[i] # "\n") => b - a < width

\* The last line of x has at most n characters.
Ends(x, n) == n \in 0..Len(x) /\ (n < Len(x) => x[Len(x) - n] = "\n")

\* A word is put to the end of the last line when there is room for it.
LEMMA WordFits ==
    ASSUME NEW D, NEW x \in Seq(D), NEW y \in Seq(D), NEW width \in Nat, NEW n \in Nat,
           Fits(x, width), Ends(x, n), n + Len(y) <= width
    PROVE  x \o y \in Seq(D) /\ Fits(x \o y, width) /\ Ends(x \o y, n + Len(y))
<1> DEFINE z == x \o y
<1>1. Len(x) \in Nat /\ Len(y) \in Nat
  BY LenProperties
<1>2. z \in Seq(D) /\ Len(z) = Len(x) + Len(y)
      /\ \A i \in 1..Len(x) : z[i] = x[i]
  <2>1. z \in Seq(D) /\ Len(z) = Len(x) + Len(y)
    BY ConcatProperties
  <2>2. ASSUME NEW i \in 1..Len(x) PROVE z[i] = x[i]
    <3>1. i \in 1..Len(x) + Len(y) /\ i <= Len(x)
      BY <1>1
    <3> QED BY <3>1, ConcatProperties
  <2> QED BY <2>1, <2>2
<1>3. n \in 0..Len(x) /\ (n < Len(x) => x[Len(x) - n] = "\n")
  BY DEF Ends
<1> HIDE DEF z
<1>4. ASSUME NEW a \in 1..Len(z), NEW b \in a..Len(z), \A i \in a..b : z[i] # "\n"
      PROVE  b - a < width
  <2>1. CASE b <= Len(x)
    <3>1. a \in 1..Len(x) /\ b \in a..Len(x)
      BY <1>1, <1>2, <2>1
    <3>2. \A i \in a..b : x[i] # "\n"
      BY SMTT(40), <1>1, <1>2, <1>4, <2>1
    <3> QED BY <3>1, <3>2 DEF Fits
  <2>2. CASE b > Len(x)
    <3>1. ASSUME a <= Len(x) - n PROVE FALSE
      <4>1. Len(x) - n \in a..b /\ Len(x) - n \in 1..Len(x) /\ n < Len(x)
        BY <1>1, <1>3, <2>2, <3>1
      <4> QED BY <1>2, <1>3, <1>4, <4>1
    <3> QED BY <1>1, <1>2, <3>1
  <2> QED BY <1>1, <1>2, <2>1, <2>2
<1>5. Fits(z, width)
  BY <1>4 DEF Fits
<1>6. Ends(z, n + Len(y))
  <2>1. n + Len(y) \in 0..Len(z)
    BY <1>1, <1>2, <1>3
  <2>2. ASSUME n + Len(y) < Len(z) PROVE z[Len(z) - (n + Len(y))] = "\n"
    <3>1. n < Len(x) /\ Len(z) - (n + Len(y)) = Len(x) - n /\ Len(x) - n \in 1..Len(x)
      BY <1>1, <1>2, <1>3, <2>2
    <3> QED BY <1>2, <1>3, <3>1
  <2> QED BY <2>1, <2>2 DEF Ends
<1> QED BY <1>2, <1>5, <1>6 DEF z

\* A newline ends a line.
LEMMA BreakFits ==
    ASSUME NEW D, "\n" \in D, NEW x \in Seq(D), NEW width \in Nat, Fits(x, width)
    PROVE  LET z == x \o <<"\n">> IN z \in Seq(D) /\ Fits(z, width) /\ Ends(z, 0)
<1> DEFINE z == Append(x, "\n")
<1>1. Len(x) \in Nat
  BY LenProperties
<1>2. z \in Seq(D) /\ Len(z) = Len(x) + 1 /\ z[Len(x) + 1] = "\n"
      /\ \A i \in 1..Len(x) : z[i] = x[i]
  BY AppendProperties
<1>3. x \o <<"\n">> = z
  OBVIOUS
<1> HIDE DEF z
<1>4. ASSUME NEW a \in 1..Len(z), NEW b \in a..Len(z), \A i \in a..b : z[i] # "\n"
      PROVE  b - a < width
  <2>1. b # Len(x) + 1
    BY <1>1, <1>2, <1>4
  <2>2. a \in 1..Len(x) /\ b \in a..Len(x)
    BY <1>1, <1>2, <2>1
  <2>3. \A i \in a..b : x[i] # "\n"
    BY <1>1, <1>2, <1>4, <2>2
  <2> QED BY <2>2, <2>3 DEF Fits
<1>5. Fits(z, width)
  BY <1>4 DEF Fits
<1>6. Ends(z, 0)
  BY <1>1, <1>2 DEF Ends
<1> QED BY <1>2, <1>3, <1>5, <1>6

\* A hyphenated piece of a word is put on a line of its own.
LEMMA PieceFits ==
    ASSUME NEW D, "\n" \in D, "-" \in D, NEW x \in Seq(D), NEW y \in Seq(D), NEW width \in Nat,
           Fits(x, width), Ends(x, 0), Len(y) < width
    PROVE  LET z == x \o (y \o <<"-", "\n">>)
           IN  z \in Seq(D) /\ Fits(z, width) /\ Ends(z, 0)
<1> DEFINE v == y \o <<"-">>
           z == (x \o v) \o <<"\n">>
<1>1. v \in Seq(D) /\ Len(v) = Len(y) + 1 /\ Len(y) \in Nat
  <2>1. <<"-">> \in Seq(D) /\ Len(<<"-">>) = 1
    OBVIOUS
  <2> QED BY <2>1, ConcatProperties, LenProperties
<1>2. x \o (y \o <<"-", "\n">>) = z
  <2>1. <<"-", "\n">> = <<"-">> \o <<"\n">> /\ <<"-">> \in Seq(D) /\ <<"\n">> \in Seq(D)
    OBVIOUS
  <2>2. y \o <<"-", "\n">> = v \o <<"\n">>
    BY SMTT(40), <2>1, ConcatAssociative
  <2> HIDE DEF v
  <2>3. x \o (v \o <<"\n">>) = z
    BY SMTT(40), <1>1, <2>1, ConcatAssociative
  <2> HIDE DEF z
  <2> QED BY Zenon, <2>2, <2>3
<1> HIDE DEF v
<1>3. 0 + Len(v) <= width
  BY <1>1
<1>4. x \o v \in Seq(D) /\ Fits(x \o v, width)
  BY <1>1, <1>3, WordFits
<1>5. z \in Seq(D) /\ Fits(z, width) /\ Ends(z, 0)
  BY <1>4, BreakFits
<1> QED BY <1>2, <1>5

\* A word is cut as long as the rest does not fit, and the rest fits.
LEMMA PiecesCut ==
    ASSUME NEW D, NEW word \in Seq(D), NEW width \in Nat, width > 1 \/ Len(word) <= width
    PROVE  /\ Pieces(word, width) \in Nat
           /\ Len(word) - Pieces(word, width) * (width - 1) <= width
           /\ \A n \in 1..Pieces(word, width) :
                 width > 1 /\ Len(word) - (n - 1) * (width - 1) > width
<1> DEFINE S == {n \in 0..Len(word) : Len(word) - n * (width - 1) <= width}
<1>1. Len(word) \in Nat
  BY LenProperties
<1>2. S \in SUBSET Nat
  OBVIOUS
<1>3. S # {}
  <2>1. CASE Len(word) <= width
    <3>1. Len(word) - 0 * (width - 1) = Len(word) /\ 0 \in 0..Len(word)
      BY <1>1
    <3> QED BY <2>1, <3>1
  <2>2. CASE width > 1
    <3>1. Len(word) * (width - 1) >= Len(word)
      <4>1. PICK k \in Nat : width - 1 = k + 1
        <5>1. width - 2 \in Nat /\ width - 1 = width - 2 + 1
          BY <2>2
        <5> QED BY <5>1
      <4>2. PICK m \in Nat : m = Len(word)
        BY <1>1
      <4>3. m * (k + 1) = m * k + m /\ m * k >= 0
        OBVIOUS
      <4> QED BY <4>1, <4>2, <4>3
    <3>2. Len(word) - Len(word) * (width - 1) <= width /\ Len(word) \in 0..Len(word)
      BY <1>1, <3>1
    <3> QED BY <3>2
  <2> QED BY <2>1, <2>2
<1>4. Pieces(word, width) = Min(S)
  BY DEF Pieces, Length
<1> DEFINE p == Min(S)
<1>5. p \in S /\ \A n \in S : p <= n
  <2> HIDE DEF S
  <2> QED BY <1>2, <1>3, Least
<1>6. p \in 0..Len(word) /\ Len(word) - p * (width - 1) <= width
  <2> HIDE DEF p
  <2> QED BY <1>5
<1>7. ASSUME NEW n \in 1..p PROVE width > 1 /\ Len(word) - (n - 1) * (width - 1) > width
  <2>1. p \in Nat /\ n - 1 \in 0..Len(word) /\ ~(p <= n - 1)
    <3> HIDE DEF p
    <3> QED BY <1>1, <1>6
  <2>2. n - 1 \notin S
    <3> HIDE DEF p, S
    <3> QED BY <1>5, <2>1
  <2>3. ~(Len(word) - (n - 1) * (width - 1) <= width)
    BY <2>1, <2>2
  <2>4. 0 \notin S
    <3>1. ~(p <= 0)
      <4> HIDE DEF p
      <4> QED BY <2>1
    <3> HIDE DEF S, p
    <3> QED BY <1>5, <3>1
  <2>5. ~(Len(word) <= width)
    <3>1. Len(word) - 0 * (width - 1) = Len(word) /\ 0 \in 0..Len(word)
      BY <1>1
    <3> QED BY <2>4, <3>1
  <2>6. (n - 1) * (width - 1) \in Int
    <3> HIDE DEF p
    <3> QED BY <2>1
  <2> QED BY <1>1, <2>3, <2>5, <2>6
<1>8. p \in Nat
  <2> HIDE DEF p
  <2> QED BY <1>6
<1> QED BY <1>4, <1>6, <1>7, <1>8

\* The pieces a word is cut into are put on a line each.
LEMMA PiecesFit ==
    ASSUME NEW D, "\n" \in D, "-" \in D, NEW x \in Seq(D), NEW word \in Seq(D),
           NEW width \in Nat, width > 1 \/ Len(word) <= width, Fits(x, width), Ends(x, 0)
    PROVE  LET piece(p) ==
                   SubSeq(word, (p - 1) * (width - 1) + 1, p * (width - 1)) \o <<"-", "\n">>
               z == x \o FlattenSeq([p \in 1..Pieces(word, width) |-> piece(p)])
           IN  /\ z \in Seq(D) /\ Fits(z, width) /\ Ends(z, 0)
               /\ FlattenSeq([p \in 1..Pieces(word, width) |-> piece(p)]) \in Seq(D)
<1> DEFINE chunk(p) == SubSeq(word, (p - 1) * (width - 1) + 1, p * (width - 1))
           n == Pieces(word, width)
           F == [p \in 1..n |-> chunk(p) \o <<"-", "\n">>]
           upto(k) == FlattenSeq([p \in 1..k |-> F[p]])
           Good(k) == /\ upto(k) \in Seq(D) /\ x \o upto(k) \in Seq(D)
                      /\ Fits(x \o upto(k), width) /\ Ends(x \o upto(k), 0)
           T == {k \in Nat : k <= n => Good(k)}
<1>1. n \in Nat /\ Len(word) \in Nat
  BY PiecesCut, LenProperties
<1>2. ASSUME NEW p \in 1..n
      PROVE  chunk(p) \in Seq(D) /\ Len(chunk(p)) < width
  <2>1. width > 1 /\ Len(word) - (p - 1) * (width - 1) > width
    BY PiecesCut
  <2> HIDE DEF n
  <2>2. PICK a \in Nat : a = (p - 1) * (width - 1)
    <3>1. PICK i \in Nat, j \in Nat : i = p - 1 /\ j = width - 1
      BY <1>1, <2>1
    <3>2. i * j \in Nat
      OBVIOUS
    <3> QED BY <3>1, <3>2
  <2>3. p * (width - 1) = a + (width - 1)
    <3>1. PICK i \in Nat, j \in Nat : i = p - 1 /\ j = width - 1
      BY <1>1, <2>1
    <3>2. (i + 1) * j = i * j + j
      OBVIOUS
    <3>3. p = i + 1
      BY <1>1, <3>1
    <3> QED BY <2>2, <3>1, <3>2, <3>3
  <2>4. a + 1 \in Nat /\ a + (width - 1) \in Nat /\ 1 <= a + 1 /\ a + (width - 1) <= Len(word)
        /\ a + 1 <= a + (width - 1)
    BY <1>1, <2>1, <2>2
  <2>5. chunk(p) = SubSeq(word, a + 1, a + (width - 1))
    BY <2>2, <2>3
  <2> HIDE DEF chunk
  <2>6. chunk(p) \in Seq(D) /\ Len(chunk(p)) = a + (width - 1) - (a + 1) + 1
    BY <2>4, <2>5, Windows
  <2> QED BY <2>6
<1>3. ASSUME NEW p \in 1..n PROVE F[p] \in Seq(D)
  <2>1. <<"-", "\n">> \in Seq(D)
    OBVIOUS
  <2>2. F[p] = chunk(p) \o <<"-", "\n">>
    BY <1>3
  <2> HIDE DEF F, chunk, n
  <2> QED BY <1>2, <1>3, <2>1, <2>2, ConcatProperties
<1>4. 0 \in T
  <2>1. [p \in 1..0 |-> F[p]] = << >>
    OBVIOUS
  <2> HIDE DEF F
  <2>2. upto(0) = << >>
    BY <2>1, FlattenNone
  <2>3. x \o << >> = x /\ << >> \in Seq(D)
    BY EmptySeq
  <2>4. Good(0)
    <3> HIDE DEF upto
    <3> QED BY <2>2, <2>3
  <2> QED BY <2>4
<1>5. ASSUME NEW k \in Nat, k \in T PROVE k + 1 \in T
  <2> SUFFICES ASSUME k + 1 <= n PROVE Good(k + 1)
    OBVIOUS
  <2> DEFINE f == [p \in 1..(k + 1) |-> F[p]]
             y == chunk(k + 1)
  <2>1. Good(k) /\ k + 1 \in 1..n
    <3> HIDE DEF n, Good
    <3> QED BY <1>1, <1>5
  <2>2. y \in Seq(D) /\ Len(y) < width /\ F[k + 1] = y \o <<"-", "\n">>
    <3> HIDE DEF n, chunk
    <3> QED BY <1>2, <2>1
  <2>3. f \in [1..(k + 1) -> Seq(D)]
    <3>1. \A p \in 1..(k + 1) : F[p] \in Seq(D)
      <4> HIDE DEF n, F
      <4> QED BY <1>1, <1>3, <2>1
    <3> HIDE DEF F
    <3> QED BY <3>1
  <2>4. [i \in 1..k |-> f[i]] = [p \in 1..k |-> F[p]] /\ f[k + 1] = F[k + 1]
    <3> HIDE DEF F
    <3> QED OBVIOUS
  <2>5. upto(k + 1) = upto(k) \o F[k + 1]
    <3> HIDE DEF F
    <3>1. upto(k + 1) = FlattenSeq(f) /\ upto(k) = FlattenSeq([p \in 1..k |-> F[p]])
      OBVIOUS
    <3> HIDE DEF f, upto
    <3>2. FlattenSeq(f) = FlattenSeq([i \in 1..k |-> f[i]]) \o f[k + 1]
      BY <2>3, FlattenNext
    <3> QED BY Zenon, <2>4, <3>1, <3>2
  <2> DEFINE u == upto(k)
             v == x \o u
             z == v \o (y \o <<"-", "\n">>)
  <2> HIDE DEF F, chunk, upto
  <2>6. z \in Seq(D) /\ Fits(z, width) /\ Ends(z, 0)
    <3>1. v \in Seq(D) /\ Fits(v, width) /\ Ends(v, 0)
      BY <2>1
    <3> HIDE DEF y, v
    <3> QED BY <2>2, <3>1, PieceFits
  <2>7. <<"-", "\n">> \in Seq(D)
    OBVIOUS
  <2>8. y \o <<"-", "\n">> \in Seq(D)
    <3> HIDE DEF y
    <3> QED BY <2>2, <2>7, ConcatProperties
  <2>9. u \o F[k + 1] \in Seq(D) /\ x \o (u \o F[k + 1]) = z
    <3>1. u \in Seq(D)
      BY <2>1
    <3> DEFINE g == y \o <<"-", "\n">>
    <3>2. F[k + 1] = g /\ g \in Seq(D)
      BY <2>2, <2>8
    <3> HIDE DEF u, y, g
    <3>3. u \o g \in Seq(D)
      BY <3>1, <3>2, ConcatProperties
    <3>4. (x \o u) \o g = x \o (u \o g)
      BY SMTT(40), <3>1, <3>2, ConcatAssociative
    <3>5. z = (x \o u) \o g
      BY DEF g
    <3> HIDE DEF z
    <3> QED BY Zenon, <3>2, <3>3, <3>4, <3>5
  <2> HIDE DEF z
  <2> QED BY Zenon, <2>5, <2>6, <2>9 DEF u
<1>6. Good(n)
  <2>1. Nat \subseteq T
    <3> HIDE DEF T
    <3> QED BY <1>4, <1>5, Induction
  <2>2. n \in T
    <3> HIDE DEF T, n
    <3> QED BY <1>1, <2>1
  <2>3. n <= n
    <3> HIDE DEF n
    <3> QED BY <1>1
  <2> HIDE DEF Good, n
  <2> QED BY <2>2, <2>3
<1>7. [p \in 1..n |-> F[p]] = F
  <2> HIDE DEF n, chunk
  <2> QED OBVIOUS
<1>8. upto(n) = FlattenSeq(F)
  <2> HIDE DEF n, F
  <2> QED BY <1>7
<1> HIDE DEF upto
<1>9. FlattenSeq(F) \in Seq(D) /\ x \o FlattenSeq(F) \in Seq(D)
      /\ Fits(x \o FlattenSeq(F), width) /\ Ends(x \o FlattenSeq(F), 0)
  <2> HIDE DEF n, F
  <2> QED BY <1>6, <1>8
<1> QED BY Zenon, <1>9

\* What word_wrap has made of the words so far: its lines fit, and the length it
\* keeps is that of the last one.
Wrapped(acc, D, width) ==
    /\ acc.text \in Seq(D) /\ acc.len \in Nat
    /\ Fits(acc.text, width) /\ Ends(acc.text, acc.len)

\* One word more, cut or not, and the lines still fit.
LEMMA PutWordFits ==
    ASSUME NEW D, "\n" \in D, "-" \in D, NEW acc, NEW word \in Seq(D), NEW width \in Nat,
           Wrapped(acc, D, width), width > 1 \/ Len(word) <= width
    PROVE  Wrapped(PutWord(acc, word, width), D, width)
<1> DEFINE x == acc.text
           n == Pieces(word, width)
           more == PutWord(acc, word, width)
<1>1. x \in Seq(D) /\ acc.len \in Nat /\ Len(word) \in Nat
      /\ Fits(x, width) /\ Ends(x, acc.len)
  BY LenProperties DEF Wrapped
<1>2. CASE acc.len + Len(word) <= width
  <2>1. more.text = x \o word /\ more.len = acc.len + Len(word)
    BY <1>2 DEF PutWord, Length
  <2>2. x \o word \in Seq(D) /\ Fits(x \o word, width) /\ Ends(x \o word, acc.len + Len(word))
    <3>1. PICK l \in Nat : l = acc.len
      BY <1>1
    <3> HIDE DEF x
    <3> QED BY <1>1, <1>2, <3>1, WordFits
  <2> HIDE DEF more, x
  <2> QED BY <1>1, <2>1, <2>2 DEF Wrapped, more
<1>3. CASE ~(acc.len + Len(word) <= width)
  <2> DEFINE y == x \o (IF acc.len > 0 THEN <<"\n">> ELSE << >>)
             piece(p) == SubSeq(word, (p - 1) * (width - 1) + 1, p * (width - 1)) \o <<"-", "\n">>
             F == FlattenSeq([p \in 1..n |-> piece(p)])
             end == SubSeq(word, n * (width - 1) + 1, Len(word))
             rest == trim_left(end)
             z == y \o F
  <2>1. more.text = z \o rest /\ more.len = Len(rest)
    BY <1>3 DEF PutWord, Length
  <2>2. y \in Seq(D) /\ Fits(y, width) /\ Ends(y, 0)
    <3>1. CASE acc.len > 0
      <4>1. y = x \o <<"\n">>
        BY <3>1
      <4> HIDE DEF x, y
      <4> QED BY <1>1, <4>1, BreakFits
    <3>2. CASE ~(acc.len > 0)
      <4>0. y = x \o << >>
        BY <3>2
      <4>1. y = x \o << >> /\ acc.len = 0
        <5> HIDE DEF x, y
        <5> QED BY <1>1, <3>2, <4>0
      <4> HIDE DEF x, y
      <4>2. y = x
        BY <1>1, <4>1
      <4> QED BY <1>1, <4>1, <4>2
    <3> QED BY <3>1, <3>2
  <2>3. z \in Seq(D) /\ Fits(z, width) /\ Ends(z, 0)
    <3> HIDE DEF y
    <3> QED BY <2>2, PiecesFit
  <2>4. rest \in Seq(D) /\ Len(rest) <= width /\ Len(rest) \in Nat
    <3>1. n \in Nat /\ Len(word) - n * (width - 1) <= width
          /\ \A p \in 1..n : width > 1
      BY PiecesCut
    <3> HIDE DEF n
    <3>2. PICK a \in Nat : a = n * (width - 1)
      <4>1. CASE n = 0
        <5>1. n * (width - 1) = 0
          BY <4>1
        <5> QED BY <5>1
      <4>2. CASE n # 0
        <5>1. width > 1
          BY <3>1, <4>2
        <5>2. PICK j \in Nat : j = width - 1
          BY <5>1
        <5>3. n * j \in Nat
          BY <3>1
        <5> QED BY <5>2, <5>3
      <4> QED BY <4>1, <4>2
    <3>3. end = SubSeq(word, a + 1, Len(word)) /\ Len(word) - a <= width
      BY <3>1, <3>2
    <3> HIDE DEF end
    <3>4. end \in Seq(D) /\ Len(end) <= width
      <4>1. end \in Seq(D) /\ Len(end) = IF a + 1 <= Len(word) THEN Len(word) - (a + 1) + 1 ELSE 0
        BY <1>1, <3>3, Windows
      <4> QED BY <1>1, <3>3, <4>1
    <3>5. rest \in Seq(D) /\ Len(rest) <= Len(end)
      BY <3>4, TrimLeft
    <3> HIDE DEF rest
    <3> QED BY <3>4, <3>5, LenProperties
  <2> HIDE DEF z, rest
  <2>5. z \o rest \in Seq(D) /\ Fits(z \o rest, width) /\ Ends(z \o rest, 0 + Len(rest))
    BY <2>3, <2>4, WordFits
  <2>6. 0 + Len(rest) = Len(rest)
    BY <2>4
  <2> HIDE DEF more
  <2> QED BY <2>1, <2>4, <2>5, <2>6 DEF Wrapped, more
<1> QED BY <1>2, <1>3

\* w is the function by which word_wrap puts the words together.
WrapsTo(w, words, width) ==
    w = [n \in 0..Len(words) |-> IF n = 0 THEN [text |-> << >>, len |-> 0]
                                  ELSE PutWord(w[n - 1], words[n], width)]

LEMMA WrapDef ==
    ASSUME NEW C, NEW s \in Seq(C), NEW width
    PROVE  \E w : /\ WrapsTo(w, explode_string(s), width)
                  /\ word_wrap(s, width) = w[Len(explode_string(s))].text
<1> DEFINE words == explode_string(s)
           none == [text |-> << >>, len |-> 0]
           Upto(f, n) ==
              f = [i \in 0..n |-> IF i = 0 THEN none ELSE PutWord(f[i - 1], words[i], width)]
           T == {n \in Nat : \E f : Upto(f, n)}
<1> HIDE DEF none, words
<1>1. 0 \in T
  <2> DEFINE f == [i \in 0..0 |-> none]
  <2>1. Upto(f, 0)
    OBVIOUS
  <2> QED BY <2>1
<1>2. ASSUME NEW n \in Nat, n \in T PROVE n + 1 \in T
  <2>1. PICK f : Upto(f, n)
    BY <1>2
  <2> DEFINE last == PutWord(f[n], words[n + 1], width)
             g == [i \in 0..(n + 1) |-> IF i = n + 1 THEN last ELSE f[i]]
  <2>2. ASSUME NEW i \in 0..(n + 1)
        PROVE  g[i] = IF i = 0 THEN none ELSE PutWord(g[i - 1], words[i], width)
    <3>1. CASE i = n + 1
      BY <3>1
    <3>2. CASE i # n + 1
      <4>1. i \in 0..n
        BY <3>2
      <4>2. f[i] = IF i = 0 THEN none ELSE PutWord(f[i - 1], words[i], width)
        BY <2>1, <4>1
      <4>3. g[i] = f[i] /\ (i # 0 => g[i - 1] = f[i - 1])
        BY <4>1
      <4> QED BY <4>2, <4>3
    <3> QED BY <3>1, <3>2
  <2>3. g = [i \in 0..(n + 1) |-> g[i]]
    OBVIOUS
  <2>4. Upto(g, n + 1)
    <3> HIDE DEF g
    <3> QED BY <2>2, <2>3
  <2> QED
    <3> HIDE DEF g, Upto
    <3> QED BY <2>4
<1>3. Len(words) \in T
  <2>1. Len(words) \in Nat
    BY WordsType, LenProperties DEF words
  <2> HIDE DEF T
  <2> QED BY <1>1, <1>2, <2>1, Induction
<1>4. \E f : WrapsTo(f, words, width)
  BY <1>3 DEF WrapsTo, none
<1> DEFINE wraps == CHOOSE f : WrapsTo(f, words, width)
<1>5. WrapsTo(wraps, words, width)
  BY <1>4
<1>6. word_wrap(s, width) = wraps[Len(words)].text
  BY DEF word_wrap, WrapsTo, words
<1> QED BY <1>5, <1>6 DEF words

\* The lines of a text that has been wrapped fit.
LEMMA WrapFits ==
    ASSUME NEW D, "\n" \in D, "-" \in D, NEW s \in Seq(D), NEW width \in Nat,
           WrapEnds(s, width)
    PROVE  word_wrap(s, width) \in Seq(D) /\ Fits(word_wrap(s, width), width)
<1>1. PICK w : /\ WrapsTo(w, explode_string(s), width)
               /\ word_wrap(s, width) = w[Len(explode_string(s))].text
  BY WrapDef
<1> DEFINE words == explode_string(s)
           T == {k \in Nat : k <= Len(words) => Wrapped(w[k], D, width)}
<1>2. words \in Seq(Seq(D)) /\ Len(words) \in Nat
  BY WordsType, LenProperties
<1>3. ASSUME NEW n \in 1..Len(words)
      PROVE  words[n] \in Seq(D) /\ (width > 1 \/ Len(words[n]) <= width)
  <2>1. DOMAIN words = 1..Len(words)
    BY <1>2, LenProperties
  <2>2. width > 1 \/ \A k \in DOMAIN words : Len(words[k]) <= width
    BY DEF WrapEnds, Length
  <2> HIDE DEF words
  <2> QED BY <1>2, <1>3, <2>1, <2>2, ElementOfSeq
<1>4. ASSUME NEW n \in 0..Len(words)
      PROVE  w[n] = IF n = 0 THEN [text |-> << >>, len |-> 0]
                    ELSE PutWord(w[n - 1], words[n], width)
  BY <1>1 DEF WrapsTo
<1> HIDE DEF words
<1>5. 0 \in T
  <2>1. w[0] = [text |-> << >>, len |-> 0]
    BY <1>2, <1>4
  <2>2. Len(<< >>) = 0 /\ << >> \in Seq(D)
    BY EmptySeq
  <2>3. Fits(<< >>, width) /\ Ends(<< >>, 0)
    BY <2>2 DEF Fits, Ends
  <2>4. w[0].text = << >> /\ w[0].len = 0
    BY <2>1
  <2>5. Wrapped(w[0], D, width)
    BY <2>2, <2>3, <2>4 DEF Wrapped
  <2> QED BY <2>5
<1>6. ASSUME NEW k \in Nat, k \in T PROVE k + 1 \in T
  <2> SUFFICES ASSUME k + 1 <= Len(words) PROVE Wrapped(w[k + 1], D, width)
    OBVIOUS
  <2>1. Wrapped(w[k], D, width)
    BY <1>2, <1>6
  <2>2. k + 1 \in 0..Len(words) /\ k + 1 # 0 /\ k + 1 - 1 = k /\ k + 1 \in 1..Len(words)
    BY <1>2
  <2>3. w[k + 1] = PutWord(w[k], words[k + 1], width)
    BY <1>4, <2>2
  <2>4. words[k + 1] \in Seq(D) /\ (width > 1 \/ Len(words[k + 1]) <= width)
    BY <1>3, <2>2
  <2> QED BY <2>1, <2>3, <2>4, PutWordFits
<1>7. Len(words) \in T
  <2> HIDE DEF T
  <2> QED BY <1>2, <1>5, <1>6, Induction
<1>8. Wrapped(w[Len(words)], D, width)
  BY <1>2, <1>7
<1> QED BY <1>1, <1>8 DEF Wrapped, words

----------------------------------------------------------------------------
(* The lines of a text. *)

LEMMA FiniteNumbers ==
    ASSUME NEW N \in Nat, NEW S \in SUBSET (0..N)
    PROVE  IsFiniteSet(S) /\ Cardinality(S) \in Nat /\ \A x \in S : x \in Nat
<1>1. IsFiniteSet(0..N)
  BY FS_Interval
<1>2. IsFiniteSet(S)
  BY <1>1, FS_Subset
<1> QED BY <1>2, FS_CardinalityType

\* Every number below their number is that of the members below one of them.
LEMMA Nth ==
    ASSUME NEW N \in Nat, NEW S \in SUBSET (0..N), NEW n \in Nat, n < Cardinality(S)
    PROVE  \E c \in S : Cardinality({d \in S : d < c}) = n
<1> DEFINE below(c) == {d \in S : d < c}
           T == {k \in Nat : k < Cardinality(S) => \E c \in S : Cardinality(below(c)) = k}
<1>1. IsFiniteSet(S) /\ Cardinality(S) \in Nat /\ \A x \in S : x \in Nat
  BY FiniteNumbers
<1>2. 0 \in T
  <2> SUFFICES ASSUME 0 < Cardinality(S) PROVE \E c \in S : Cardinality(below(c)) = 0
    OBVIOUS
  <2>1. S # {} /\ S \in SUBSET Nat
    BY <1>1, FS_EmptySet
  <2>2. Min(S) \in S /\ \A y \in S : Min(S) <= y
    BY <2>1, Least
  <2>3. PICK c \in S : \A y \in S : c <= y
    BY <2>2
  <2>4. below(c) = {}
    <3>1. \A d \in S : ~(d < c)
      BY <1>1, <2>3
    <3> QED BY <3>1
  <2> HIDE DEF below
  <2> QED BY <2>4, FS_EmptySet
<1>3. ASSUME NEW k \in Nat, k \in T PROVE k + 1 \in T
  <2> SUFFICES ASSUME k + 1 < Cardinality(S) PROVE \E c \in S : Cardinality(below(c)) = k + 1
    OBVIOUS
  <2>1. PICK c \in S : Cardinality(below(c)) = k
    BY <1>1, <1>3
  <2>2. IsFiniteSet(below(c)) /\ c \notin below(c)
    BY <1>1, FS_Subset
  <2>3. Cardinality(below(c) \cup {c}) = k + 1
    <3> HIDE DEF below
    <3> QED BY <2>1, <2>2, FS_AddElement
  <2> DEFINE above == {d \in S : d > c}
  <2>4. above # {} /\ above \in SUBSET Nat
    <3>1. CASE above = {}
      <4>1. S = below(c) \cup {c}
        <5>1. \A d \in S : ~(d > c)
          BY <3>1
        <5>2. \A d \in S : d < c \/ d = c
          BY <1>1, <5>1
        <5> QED BY <5>2
      <4> HIDE DEF below, above
      <4> QED BY <1>1, <2>3, <4>1
    <3>2. above \in SUBSET Nat
      BY <1>1
    <3> HIDE DEF above
    <3> QED BY <3>1, <3>2
  <2>5. Min(above) \in above /\ \A y \in above : Min(above) <= y
    <3> HIDE DEF above
    <3> QED BY <2>4, Least
  <2>6. PICK x \in above : \A y \in above : x <= y
    BY <2>5
  <2>7. below(x) = below(c) \cup {c} /\ x \in S
    <3>1. x \in S /\ x > c /\ \A d \in S : d > c => x <= d
      BY <2>6
    <3>2. \A d \in S : d < x <=> (d < c \/ d = c)
      BY <1>1, <3>1
    <3> QED BY <3>1, <3>2
  <2> HIDE DEF below, above
  <2> QED BY <2>3, <2>7
<1>4. n \in T
  <2> HIDE DEF T
  <2> QED BY <1>2, <1>3, Induction
<1> QED BY <1>4

\* Two with successive numbers follow each other.
LEMMA Successive ==
    ASSUME NEW N \in Nat, NEW S \in SUBSET (0..N), NEW a \in S, NEW b \in S,
           Cardinality({d \in S : d < b}) = Cardinality({d \in S : d < a}) + 1
    PROVE  a < b /\ \A d \in S : ~(a < d /\ d < b)
<1> DEFINE below(c) == {d \in S : d < c}
<1>1. ASSUME NEW c \in S
      PROVE  /\ IsFiniteSet(below(c)) /\ Cardinality(below(c)) \in Nat
             /\ Cardinality(below(c) \cup {c}) = Cardinality(below(c)) + 1
             /\ IsFiniteSet(below(c) \cup {c})
  <2>1. IsFiniteSet(S) /\ \A x \in S : x \in Nat
    BY FiniteNumbers
  <2>2. IsFiniteSet(below(c)) /\ c \notin below(c)
    BY <2>1, FS_Subset
  <2> HIDE DEF below
  <2> QED BY <2>2, FS_AddElement, FS_CardinalityType
<1>2. ASSUME NEW c \in S, NEW e \in S, c < e
      PROVE  Cardinality(below(c)) + 1 <= Cardinality(below(e))
  <2>1. below(c) \cup {c} \in SUBSET below(e)
    <3>1. \A x \in S : x \in Nat
      BY FiniteNumbers
    <3>2. \A d \in S : (d < c \/ d = c) => d < e
      BY <1>2, <3>1
    <3> QED BY <1>2, <3>2
  <2> HIDE DEF below
  <2>2. Cardinality(below(c) \cup {c}) <= Cardinality(below(e))
    BY <1>1, <2>1, FS_Subset
  <2> QED BY <1>1, <2>2
<1>3. Cardinality(below(b)) = Cardinality(below(a)) + 1
  OBVIOUS
<1> DEFINE size(c) == Cardinality(below(c))
<1>6. /\ \A c \in S : c \in Nat /\ size(c) \in Nat
      /\ \A c \in S : \A e \in S : c < e => size(c) + 1 <= size(e)
      /\ size(b) = size(a) + 1
  BY <1>1, <1>2, <1>3, FiniteNumbers
<1> HIDE DEF below, size
<1>4. a < b
  <2>1. CASE a = b
    BY <1>6, <2>1
  <2>2. CASE b < a
    BY <1>6, <2>2
  <2> QED BY <1>6, <2>1, <2>2
<1>5. ASSUME NEW d \in S, a < d, d < b PROVE FALSE
  BY <1>5, <1>6
<1> QED BY <1>4, <1>5

LEMMA TupleSeq ==
    ASSUME NEW S, NEW n \in Nat, NEW f \in [1..n -> S]
    PROVE  /\ SubSeq(f, 1, n) = f
           /\ f \in Seq(S)
           /\ Len(f) = n
<1>1. f \in Seq(S) /\ Len(f) = n
  OBVIOUS
<1> QED BY <1>1, SubSeqFull

\* The line of s between a and b, which are newlines or the ends of s.
LineOf(s, a, b, line) ==
    /\ a \in 0..Len(s) /\ b \in 1..(Len(s) + 1) /\ a < b
    /\ a = 0 \/ s[a] = "\n"
    /\ b = Len(s) + 1 \/ s[b] = "\n"
    /\ line = SubSeq(s, a + 1, b - 1)
    /\ \A i \in (a + 1)..(b - 1) : s[i] # "\n"

LEMMA Pair ==
    ASSUME NEW x, NEW y, x # y
    PROVE  IsFiniteSet({x} \cup {y}) /\ Cardinality({x} \cup {y}) = 2
<1>1. PICK S : S = {x}
  OBVIOUS
<1>2. IsFiniteSet(S) /\ Cardinality(S) = 1 /\ y \notin S
  BY <1>1, FS_Singleton
<1>3. IsFiniteSet(S \cup {y}) /\ Cardinality(S \cup {y}) = 1 + 1
  BY <1>2, FS_AddElement
<1> QED BY <1>1, <1>3

Newlines(s) == {i \in 1..Len(s) : s[i] = "\n"}

\* The m lines of s between the cuts c: its newlines and its ends.
CutAt(s, c, m, lines, D) ==
    /\ m \in Nat \ {0} /\ lines \in [1..m -> Seq(D)]
    /\ c[0] = 0 /\ c[m] = Len(s) + 1
    /\ m = Cardinality(Newlines(s)) + 1
    /\ \A n \in 1..m : LineOf(s, c[n - 1], c[n], lines[n])

\* Every line is what is between a newline or an end of the text and the next, and
\* none but the last can be missing.
LEMMA CutLines ==
    ASSUME NEW D, NEW s \in Seq(D)
    PROVE  \E m, lines, c :
              /\ CutAt(s, c, m, lines, D)
              /\ split_lines(s) = IF lines[m] = << >> THEN SubSeq(lines, 1, m - 1) ELSE lines
<1> DEFINE cuts == {0, Len(s) + 1} \cup {i \in 1..Len(s) : s[i] = "\n"}
           N == Len(s) + 1
           below(c) == {d \in cuts : d < c}
           Cut(n) == CHOOSE c \in cuts : Cardinality(below(c)) = n
           m == Cardinality(cuts) - 1
           f == [n \in 1..m |-> SubSeq(s, Cut(n - 1) + 1, Cut(n) - 1)]
           lines == SubSeq(f, 1, m)
<1>1. Len(s) \in Nat /\ N \in Nat
  BY LenProperties
<1>2. cuts \in SUBSET (0..N) /\ 0 \in cuts /\ N \in cuts /\ 0 # N
  BY <1>1
<1>3. IsFiniteSet(cuts) /\ Cardinality(cuts) \in Nat
  <2> HIDE DEF cuts, N
  <2> QED BY <1>1, <1>2, FiniteNumbers
<1>4. m \in Nat \ {0}
  <2> DEFINE ends == {0} \cup {N}
  <2>1. IsFiniteSet(ends) /\ Cardinality(ends) = 2
    <3> HIDE DEF N
    <3> QED BY <1>2, Pair
  <2>2. ends \in SUBSET cuts
    <3> HIDE DEF cuts, N
    <3> QED BY <1>2
  <2> HIDE DEF cuts, N, ends
  <2>3. 2 <= Cardinality(cuts)
    BY <1>3, <2>1, <2>2, FS_Subset
  <2> QED BY <1>3, <2>3
<1>5. ASSUME NEW n \in 0..m
      PROVE  Cut(n) \in cuts /\ Cardinality(below(Cut(n))) = n
  <2>1. n \in Nat /\ n < Cardinality(cuts)
    <3> HIDE DEF cuts
    <3> QED BY <1>3, <1>4
  <2>2. \E c \in cuts : Cardinality(below(c)) = n
    <3> HIDE DEF cuts, N
    <3> QED BY <1>1, <1>2, <2>1, Nth
  <2> HIDE DEF cuts, below
  <2> QED BY <2>2
<1> HIDE DEF m
<1>6. ASSUME NEW n \in 1..m
      PROVE  LET a == Cut(n - 1)
                 b == Cut(n)
             IN  a \in cuts /\ b \in cuts /\ a < b /\ \A d \in cuts : ~(a < d /\ d < b)
  <2> DEFINE a == Cut(n - 1)
             b == Cut(n)
  <2>1. n - 1 \in 0..m /\ n \in 0..m /\ n = n - 1 + 1
    BY <1>4
  <2>2. a \in cuts /\ Cardinality(below(a)) = n - 1 /\ b \in cuts /\ Cardinality(below(b)) = n
    <3> HIDE DEF Cut, cuts, below
    <3> QED BY <1>5, <2>1
  <2> HIDE DEF a, b
  <2>3. Cardinality(below(b)) = Cardinality(below(a)) + 1
    BY <2>1, <2>2
  <2> HIDE DEF cuts, N
  <2>4. a < b /\ \A d \in cuts : ~(a < d /\ d < b)
    BY <1>1, <1>2, <2>2, <2>3, Successive
  <2> QED BY <2>2, <2>4 DEF a, b
<1> DEFINE good(n) == LineOf(s, Cut(n - 1), Cut(n), SubSeq(s, Cut(n - 1) + 1, Cut(n) - 1))
<1>7. ASSUME NEW n \in 1..m PROVE good(n)
  <2> DEFINE a == Cut(n - 1)
             b == Cut(n)
  <2>1. a \in cuts /\ b \in cuts /\ a < b /\ \A d \in cuts : ~(a < d /\ d < b)
    <3> HIDE DEF Cut, cuts
    <3> QED BY <1>6
  <2> HIDE DEF a, b
  <2>2. /\ a \in 0..Len(s) /\ b \in 1..(Len(s) + 1)
        /\ (a = 0 \/ s[a] = "\n") /\ (b = Len(s) + 1 \/ s[b] = "\n")
    BY <1>1, <2>1
  <2>3. ASSUME NEW i \in (a + 1)..(b - 1) PROVE s[i] # "\n"
    <3>1. i \in 1..Len(s) /\ a < i /\ i < b
      BY <1>1, <2>2
    <3>2. i \notin cuts
      <4> HIDE DEF cuts
      <4> QED BY <2>1, <3>1
    <3> QED BY <3>1, <3>2
  <2> HIDE DEF cuts
  <2>4. LineOf(s, a, b, SubSeq(s, a + 1, b - 1))
    BY <2>1, <2>2, <2>3 DEF LineOf
  <2> HIDE DEF Cut
  <2> QED BY <2>4 DEF a, b
<1>8. f \in [1..m -> Seq(D)]
  <2>1. ASSUME NEW n \in 1..m PROVE SubSeq(s, Cut(n - 1) + 1, Cut(n) - 1) \in Seq(D)
    <3> DEFINE a == Cut(n - 1)
               b == Cut(n)
    <3>1. a \in 0..Len(s) /\ b \in 1..(Len(s) + 1) /\ a < b
      <4> HIDE DEF Cut
      <4> QED BY <1>7 DEF LineOf
    <3> HIDE DEF a, b
    <3>2. SubSeq(s, a + 1, b - 1) \in Seq(D)
      BY <1>1, <3>1, Windows
    <3> HIDE DEF Cut
    <3> QED BY <3>2 DEF a, b
  <2> HIDE DEF Cut
  <2> QED BY <2>1
<1>9. lines = f /\ lines \in [1..m -> Seq(D)] /\ Len(lines) = m
  <2> HIDE DEF f
  <2> DEFINE S == Seq(D)
  <2>1. m \in Nat /\ f \in [1..m -> S]
    BY <1>4, <1>8
  <2> HIDE DEF S
  <2>2. lines = f /\ Len(f) = m
    BY <2>1, TupleSeq
  <2> HIDE DEF lines
  <2> QED BY <1>8, <2>2
<1>10. split_lines(s) = IF lines[m] = << >> THEN SubSeq(lines, 1, m - 1) ELSE lines
  <2>1. split_lines(s) = IF Last(lines) = << >> THEN Front(lines) ELSE lines
    BY DEF split_lines, Tuple, m
  <2> HIDE DEF lines
  <2> QED BY <1>9, <2>1 DEF Last, Front
<1> DEFINE cut == [n \in 0..m |-> Cut(n)]
<1>11. ASSUME NEW n \in 1..m PROVE LineOf(s, cut[n - 1], cut[n], lines[n])
  <2>1. f[n] = SubSeq(s, Cut(n - 1) + 1, Cut(n) - 1)
    OBVIOUS
  <2>2. n - 1 \in 0..m /\ n \in 0..m
    BY <1>4
  <2> HIDE DEF Cut, f, lines
  <2>3. cut[n - 1] = Cut(n - 1) /\ cut[n] = Cut(n)
    BY <2>2
  <2> QED BY <1>7, <1>9, <2>1, <2>3
<1>12. m = Cardinality(Newlines(s)) + 1
  <2> DEFINE ends == {0} \cup {N}
  <2>1. cuts = Newlines(s) \cup ends /\ Newlines(s) \cap ends = {}
    BY <1>1 DEF Newlines
  <2>2. IsFiniteSet(ends) /\ Cardinality(ends) = 2
    <3> HIDE DEF N
    <3> QED BY <1>2, Pair
  <2>3. Newlines(s) \in SUBSET (0..N)
    BY <1>1 DEF Newlines
  <2>4. IsFiniteSet(Newlines(s)) /\ Cardinality(Newlines(s)) \in Nat
    <3> HIDE DEF N
    <3> QED BY <1>1, <2>3, FiniteNumbers
  <2> HIDE DEF cuts, ends
  <2>5. Newlines(s) \cap ends = {} /\ Cardinality({}) = 0
    BY <2>1, FS_EmptySet
  <2>6. Cardinality(cuts) = Cardinality(Newlines(s)) + Cardinality(ends)
    <3>1. Cardinality(Newlines(s) \cup ends) = Cardinality(Newlines(s)) + Cardinality(ends)
                                                - Cardinality(Newlines(s) \cap ends)
      BY <2>2, <2>4, FS_Union
    <3>2. Cardinality(Newlines(s) \cap ends) = 0 /\ Cardinality(cuts) = Cardinality(Newlines(s) \cup ends)
      BY Zenon, <2>1, <2>5
    <3>3. Cardinality(ends) \in Nat
      BY <2>2
    <3> QED BY <2>4, <3>1, <3>2, <3>3
  <2> QED BY <2>2, <2>4, <2>6 DEF m
<1>13. cut[0] = 0
  <2>1. 0 \in 0..m /\ Cardinality(below(Cut(0))) = 0 /\ Cut(0) \in cuts
    <3>1. 0 \in 0..m
      BY <1>4
    <3> HIDE DEF cuts, Cut, below
    <3> QED BY <1>5, <3>1
  <2>2. PICK a : a = Cut(0)
    OBVIOUS
  <2> HIDE DEF Cut
  <2>3. below(a) = {}
    <3>1. IsFiniteSet(below(a))
      <4>1. below(a) \in SUBSET cuts
        OBVIOUS
      <4> HIDE DEF cuts, below
      <4> QED BY <1>3, <4>1, FS_Subset
    <3> HIDE DEF cuts, below
    <3> QED BY <2>1, <2>2, <3>1, FS_EmptySet
  <2>4. ~(0 < a) /\ a \in 0..N
    BY <1>2, <2>1, <2>2, <2>3
  <2>5. a = 0
    BY <1>1, <2>4
  <2> QED BY <2>1, <2>2, <2>5
<1>14. cut[m] = Len(s) + 1
  <2>1. m \in 0..m /\ Cardinality(below(Cut(m))) = m /\ Cut(m) \in cuts
    <3>1. m \in 0..m
      BY <1>4
    <3> HIDE DEF cuts, Cut, below
    <3> QED BY <1>5, <3>1
  <2>2. PICK a : a = Cut(m)
    OBVIOUS
  <2>3. cut[m] = a
    BY <2>1, <2>2
  <2> HIDE DEF Cut, cut
  <2>4. CASE a # N
    <3>1. a \in 0..N /\ N \in cuts
      BY <1>2, <2>1, <2>2
    <3>2. a < N
      BY <1>1, <2>4, <3>1
    <3>3. below(a) \cup {a} \in SUBSET below(N)
      <4>1. \A d \in cuts : d \in 0..N
        BY <1>2
      <4> HIDE DEF cuts
      <4> QED BY <1>1, <2>1, <2>2, <3>1, <3>2, <4>1
    <3>4. below(N) \cup {N} \in SUBSET cuts /\ N \notin below(N) /\ a \notin below(a)
      <4> HIDE DEF cuts
      <4> QED BY <1>1, <1>2, <3>1
    <3>5. below(a) \in SUBSET cuts /\ below(N) \in SUBSET cuts
      OBVIOUS
    <3> HIDE DEF cuts, below, N
    <3>6. /\ IsFiniteSet(below(a)) /\ IsFiniteSet(below(N))
          /\ IsFiniteSet(below(a) \cup {a}) /\ IsFiniteSet(below(N) \cup {N})
      BY <1>3, <3>5, FS_Subset, FS_AddElement
    <3>7. /\ Cardinality(below(a) \cup {a}) = m + 1
          /\ Cardinality(below(N) \cup {N}) = Cardinality(below(N)) + 1
          /\ Cardinality(below(N)) \in Nat
      BY <2>1, <2>2, <3>4, <3>6, FS_AddElement, FS_CardinalityType
    <3>8. Cardinality(below(a) \cup {a}) <= Cardinality(below(N))
      BY <3>3, <3>6, FS_Subset
    <3>9. Cardinality(below(N) \cup {N}) <= Cardinality(cuts)
      BY <1>3, <3>4, FS_Subset
    <3> QED BY <1>3, <3>7, <3>8, <3>9 DEF m
  <2> QED BY <2>3, <2>4
<1> HIDE DEF lines, cut
<1>15. CutAt(s, cut, m, lines, D)
  BY <1>4, <1>9, <1>11, <1>12, <1>13, <1>14 DEF CutAt
<1> QED BY <1>10, <1>15

LEMMA SplitLines ==
    ASSUME NEW D, NEW s \in Seq(D)
    PROVE  \E m \in Nat \ {0} : \E lines \in [1..m -> Seq(D)] :
              /\ split_lines(s) = IF lines[m] = << >> THEN SubSeq(lines, 1, m - 1) ELSE lines
              /\ \A n \in 1..m : \E a, b : LineOf(s, a, b, lines[n])
              /\ (\A i \in 1..Len(s) : s[i] # "\n") => m = 1
<1>1. PICK m, lines, c :
          /\ CutAt(s, c, m, lines, D)
          /\ split_lines(s) = IF lines[m] = << >> THEN SubSeq(lines, 1, m - 1) ELSE lines
  BY CutLines
<1>2. ASSUME \A i \in 1..Len(s) : s[i] # "\n" PROVE m = 1
  <2>1. Newlines(s) = {} /\ Cardinality({}) = 0
    BY <1>2, FS_EmptySet DEF Newlines
  <2> QED BY <1>1, <2>1 DEF CutAt
<1>3. \A n \in 1..m : \E a, b : LineOf(s, a, b, lines[n])
  BY <1>1 DEF CutAt
<1>4. m \in Nat \ {0} /\ lines \in [1..m -> Seq(D)]
  BY <1>1 DEF CutAt
<1> QED BY <1>1, <1>2, <1>3, <1>4

\* The lines of a text are as long as they are in it,
LEMMA LinesOfText ==
    ASSUME NEW D, NEW s \in Seq(D)
    PROVE  LET lines == split_lines(s)
           IN  /\ lines \in Seq(Seq(D))
               /\ \A n \in 1..Len(lines) : \E a, b : LineOf(s, a, b, lines[n])
<1> DEFINE r == split_lines(s)
<1>0. PICK m \in Nat \ {0} : \E lines \in [1..m -> Seq(D)] :
          /\ r = IF lines[m] = << >> THEN SubSeq(lines, 1, m - 1) ELSE lines
          /\ \A n \in 1..m : \E a, b : LineOf(s, a, b, lines[n])
  BY SplitLines
<1> HIDE DEF r
<1>1. PICK lines \in [1..m -> Seq(D)] :
          /\ r = IF lines[m] = << >> THEN SubSeq(lines, 1, m - 1) ELSE lines
          /\ \A n \in 1..m : \E a, b : LineOf(s, a, b, lines[n])
  BY <1>0
<1> DEFINE S == Seq(D)
<1>2. lines \in Seq(S) /\ Len(lines) = m
  <2> HIDE DEF S
  <2> QED BY <1>1, TupleSeq DEF S
<1>3. CASE lines[m] = << >>
  <2>1. r = SubSeq(lines, 1, m - 1)
    BY <1>1, <1>3
  <2>2. m - 1 \in Nat /\ m - 1 <= Len(lines) /\ (IF 1 <= m - 1 THEN m - 1 - 1 + 1 ELSE 0) = m - 1
    BY <1>1, <1>2
  <2> HIDE DEF S
  <2>3. r \in Seq(S) /\ Len(r) = m - 1 /\ \A i \in 1..(m - 1) : r[i] = lines[1 + i - 1]
    <3>1. 1 \in Nat /\ 1 <= 1
      OBVIOUS
    <3>2. r \in Seq(S) /\ Len(r) = m - 1 /\ \A i \in 1..Len(r) : r[i] = lines[1 + i - 1]
      BY <1>2, <2>1, <2>2, <3>1, Windows
    <3> QED BY <3>2
  <2>4. ASSUME NEW n \in 1..(m - 1) PROVE r[n] = lines[n] /\ n \in 1..m
    <3>1. 1 + n - 1 = n /\ n \in 1..m
      BY <1>1
    <3> QED BY <2>3, <3>1
  <2>5. \A n \in 1..Len(r) : \E a, b : LineOf(s, a, b, r[n])
    BY <1>1, <2>3, <2>4
  <2> QED BY <2>3, <2>5 DEF r, S
<1>4. CASE lines[m] # << >>
  <2>1. r = lines
    BY <1>1, <1>4
  <2> HIDE DEF S
  <2>2. r \in Seq(S) /\ \A n \in 1..Len(r) : \E a, b : LineOf(s, a, b, r[n])
    BY <1>1, <1>2, <2>1
  <2> QED BY <2>2 DEF r, S
<1> QED BY <1>3, <1>4

\* and a text without newlines is its only line.
LEMMA OneLine ==
    ASSUME NEW D, NEW s \in Seq(D), \A i \in 1..Len(s) : s[i] # "\n"
    PROVE  Len(split_lines(s)) = IF s = << >> THEN 0 ELSE 1
<1> DEFINE r == split_lines(s)
<1>1. PICK m \in Nat \ {0} : \E lines \in [1..m -> Seq(D)] :
          /\ r = IF lines[m] = << >> THEN SubSeq(lines, 1, m - 1) ELSE lines
          /\ \A n \in 1..m : \E a, b : LineOf(s, a, b, lines[n])
          /\ (\A i \in 1..Len(s) : s[i] # "\n") => m = 1
  BY SplitLines
<1> HIDE DEF r
<1>2. m = 1
  BY <1>1
<1>3. PICK lines \in [1..1 -> Seq(D)] :
          /\ r = IF lines[1] = << >> THEN SubSeq(lines, 1, 0) ELSE lines
          /\ \A n \in 1..1 : \E a, b : LineOf(s, a, b, lines[n])
  BY <1>1, <1>2
<1>4. lines \in Seq(Seq(D)) /\ Len(lines) = 1
  BY <1>3, TupleSeq
<1>5. PICK a, b : LineOf(s, a, b, lines[1])
  BY <1>3
<1>6. Len(s) \in Nat /\ a = 0 /\ b = Len(s) + 1
  BY <1>5 DEF LineOf
<1>7. lines[1] = s
  BY <1>5, <1>6, SubSeqFull DEF LineOf
<1>8. CASE s = << >>
  <2>1. Len(SubSeq(lines, 1, 0)) = 0
    BY <1>4, SubSeqProperties
  <2> QED BY <1>3, <1>7, <1>8, <2>1 DEF r
<1>9. CASE s # << >>
  BY <1>3, <1>4, <1>7, <1>9 DEF r
<1> QED BY <1>8, <1>9

\* An empty text stays empty.
LEMMA NothingWrapped ==
    ASSUME NEW width \in Nat
    PROVE  word_wrap(<< >>, width) = << >>
<1>1. PICK w : WordsOf(w, << >>) /\ explode_string(<< >>) = w[Len(<< >>)]
  BY WordsDef, EmptySeq
<1>2. Len(<< >>) = 0
  OBVIOUS
<1>3. explode_string(<< >>) = << << >> >>
  BY <1>1, <1>2 DEF WordsOf
<1>4. PICK x : /\ WrapsTo(x, << << >> >>, width)
               /\ word_wrap(<< >>, width) = x[Len(<< << >> >>)].text
  <2>1. PICK s \in Seq({1}) : s = << >>
    BY EmptySeq
  <2>2. PICK x : /\ WrapsTo(x, explode_string(s), width)
                 /\ word_wrap(s, width) = x[Len(explode_string(s))].text
    BY WrapDef
  <2> QED BY <1>3, <2>1, <2>2
<1>5. x[0] = [text |-> << >>, len |-> 0] /\ x[1] = PutWord(x[0], << >>, width)
  <2>1. Len(<< << >> >>) = 1 /\ << << >> >>[1] = << >>
    OBVIOUS
  <2> QED BY <1>4, <2>1 DEF WrapsTo
<1>6. x[1].text = << >> \o << >>
  BY <1>2, <1>5 DEF PutWord, Length
<1> QED BY <1>4, <1>6

\* However a text is wrapped, hyphenated and cut into lines, none is longer than
\* the column: word_wrap (format.hpp:411-447) and split_lines (format.hpp:450-463).
THEOREM LinesFit ==
    ASSUME NEW D, "\n" \in D, "-" \in D, NEW s \in Seq(D), NEW width \in Nat,
           WrapEnds(s, width)
    PROVE  LET lines == split_lines(word_wrap(s, width))
           IN  \A n \in DOMAIN lines : Length(lines[n]) <= width
<1> DEFINE x == word_wrap(s, width)
           lines == split_lines(x)
<1>1. x \in Seq(D) /\ Fits(x, width)
  BY WrapFits
<1> HIDE DEF x
<1>2. lines \in Seq(Seq(D)) /\ \A n \in 1..Len(lines) : \E a, b : LineOf(x, a, b, lines[n])
  BY <1>1, LinesOfText
<1>3. DOMAIN lines = 1..Len(lines)
  <2> DEFINE S == Seq(D)
  <2>1. lines \in Seq(S)
    BY <1>2
  <2> HIDE DEF S, lines
  <2> QED BY <2>1, LenProperties
<1> HIDE DEF lines
<1>4. ASSUME NEW n \in 1..Len(lines) PROVE Length(lines[n]) <= width
  <2>1. PICK a, b : LineOf(x, a, b, lines[n])
    BY <1>2
  <2>2. PICK N \in Nat : N = Len(x)
    BY <1>1, LenProperties
  <2>3. a \in 0..N /\ b \in 1..(N + 1) /\ a < b /\ \A i \in (a + 1)..(b - 1) : x[i] # "\n"
    BY <2>1, <2>2 DEF LineOf
  <2>4. CASE a + 1 = b
    <3>1. Len(lines[n]) = 0
      BY <1>1, <2>1, <2>3, <2>4, SubSeqProperties DEF LineOf
    <3> QED BY <3>1 DEF Length
  <2>5. CASE a + 1 < b
    <3>1. (a + 1) \in Nat /\ (b - 1) \in Nat /\ 1 <= a + 1 /\ b - 1 <= N /\ a + 1 <= b - 1
      BY <2>3, <2>5
    <3>2. Len(lines[n]) = (b - 1) - (a + 1) + 1
      BY <1>1, <2>1, <2>2, <3>1, Windows DEF LineOf
    <3>3. a + 1 \in 1..Len(x) /\ b - 1 \in (a + 1)..Len(x)
      BY <2>2, <3>1
    <3>4. (b - 1) - (a + 1) < width
      BY <1>1, <2>3, <3>3 DEF Fits
    <3>5. (b - 1) - (a + 1) + 1 <= width
      BY <2>3, <3>4
    <3> QED BY <3>2, <3>5 DEF Length
  <2> QED BY <2>3, <2>4, <2>5
<1> QED BY <1>3, <1>4 DEF lines, x

----------------------------------------------------------------------------
(* The characters of some set in a text, in their order. *)

\* f is h texts, the characters of which are in C.
Parts(f, h, C) == h \in Nat /\ f \in [1..h -> Seq(C)]

\* What the first n of some texts are flattened to.
Flat(f, n) == FlattenSeq([i \in 1..n |-> f[i]])

LEMMA FlattenedUpto ==
    ASSUME NEW C, NEW h, NEW f, Parts(f, h, C), NEW n \in 0..h
    PROVE  /\ Flat(f, n) \in Seq(C)
           /\ n = 0 => Flat(f, n) = << >>
           /\ n < h => Flat(f, n + 1) = Flat(f, n) \o f[n + 1]
           /\ n = h => Flat(f, n) = FlattenSeq(f)
<1> DEFINE g == [i \in 1..n |-> f[i]]
           e == [i \in 1..(n + 1) |-> f[i]]
<1>0. h \in Nat /\ f \in [1..h -> Seq(C)]
  BY DEF Parts
<1>1. g \in [1..n -> Seq(C)] /\ n \in Nat
  BY <1>0
<1>2. FlattenSeq(g) \in Seq(C)
  <2> HIDE DEF g
  <2>1. g \in Seq(Seq(C))
    BY <1>1, TupleSeq
  <2> QED BY <2>1, FlattenType
<1>3. n = 0 => FlattenSeq(g) = << >>
  <2>1. n = 0 => g = << >>
    OBVIOUS
  <2> HIDE DEF g
  <2> QED BY <2>1, FlattenNone
<1>4. n < h => FlattenSeq(e) = FlattenSeq(g) \o f[n + 1]
  <2> SUFFICES ASSUME n < h PROVE FlattenSeq(e) = FlattenSeq(g) \o f[n + 1]
    OBVIOUS
  <2>1. e \in [1..(n + 1) -> Seq(C)]
    BY <1>0
  <2>2. [i \in 1..n |-> e[i]] = g /\ e[n + 1] = f[n + 1]
    BY <1>0
  <2> HIDE DEF e, g
  <2>3. FlattenSeq(e) = FlattenSeq([i \in 1..n |-> e[i]]) \o e[n + 1]
    BY <1>1, <2>1, FlattenNext
  <2> QED BY <2>2, <2>3
<1>5. n = h => g = f
  BY <1>0
<1> QED BY Zenon, <1>2, <1>3, <1>4, <1>5 DEF Flat

\* One character is in S or not.
Picked(c, S) == IF c \in S THEN <<c>> ELSE << >>

LEMMA PickedType ==
    ASSUME NEW C, NEW c \in C, NEW S
    PROVE  Picked(c, S) \in Seq(C)
BY DEF Picked

LEMMA OnlyNone ==
    ASSUME NEW S
    PROVE  Only(<< >>, S) = << >>
<1>1. [k \in DOMAIN << >> |-> IF << >>[k] \in S THEN << << >>[k] >> ELSE << >>] = << >>
  OBVIOUS
<1> QED BY Zenon, <1>1, FlattenNone DEF Only

LEMMA OnlyType ==
    ASSUME NEW C, NEW s \in Seq(C), NEW S
    PROVE  Only(s, S) \in Seq(C)
<1> DEFINE f == [k \in 1..Len(s) |-> Picked(s[k], S)]
<1>1. Len(s) \in Nat /\ \A k \in 1..Len(s) : s[k] \in C
  OBVIOUS
<1>2. f \in [1..Len(s) -> Seq(C)]
  BY <1>1, PickedType
<1>3. Only(s, S) = FlattenSeq(f)
  <2>1. DOMAIN s = 1..Len(s)
    OBVIOUS
  <2> QED BY Zenon, <2>1 DEF Only, Picked
<1> HIDE DEF f
<1>4. f \in Seq(Seq(C))
  BY <1>1, <1>2, TupleSeq
<1> QED BY Zenon, <1>3, <1>4, FlattenType

LEMMA OnlyAppend ==
    ASSUME NEW C, NEW s \in Seq(C), NEW c \in C, NEW S
    PROVE  Only(Append(s, c), S) = Only(s, S) \o Picked(c, S)
<1> DEFINE a == Append(s, c)
           f == [k \in 1..Len(s) |-> Picked(s[k], S)]
           g == [k \in 1..(Len(s) + 1) |-> Picked(a[k], S)]
<1>1. /\ Len(s) \in Nat /\ DOMAIN s = 1..Len(s) /\ DOMAIN a = 1..(Len(s) + 1)
      /\ \A k \in 1..Len(s) : a[k] = s[k]
      /\ a[Len(s) + 1] = c /\ a \in Seq(C)
      /\ \A k \in 1..(Len(s) + 1) : a[k] \in C
  OBVIOUS
<1>2. Only(s, S) = FlattenSeq(f) /\ Only(a, S) = FlattenSeq(g)
  <2> HIDE DEF a
  <2> QED BY Zenon, <1>1 DEF Only, Picked
<1> HIDE DEF a
<1>3. g \in [1..(Len(s) + 1) -> Seq(C)]
  BY <1>1, PickedType
<1>4. [k \in 1..Len(s) |-> g[k]] = f /\ g[Len(s) + 1] = Picked(c, S)
  BY <1>1
<1> HIDE DEF f, g
<1>5. FlattenSeq(g) = FlattenSeq([k \in 1..Len(s) |-> g[k]]) \o g[Len(s) + 1]
  BY <1>1, <1>3, FlattenNext
<1> QED BY Zenon, <1>2, <1>4, <1>5 DEF a

\* Two texts are put together.
LEMMA OnlyConcat ==
    ASSUME NEW C, NEW a \in Seq(C), NEW b \in Seq(C), NEW S
    PROVE  Only(a \o b, S) = Only(a, S) \o Only(b, S)
<1> DEFINE T == {n \in Nat : n <= Len(b) =>
                    Only(a \o SubSeq(b, 1, n), S) = Only(a, S) \o Only(SubSeq(b, 1, n), S)}
<1>1. 0 \in T
  <2>1. SubSeq(b, 1, 0) = << >> /\ a \o << >> = a
    OBVIOUS
  <2>2. Only(a, S) \o << >> = Only(a, S)
    <3>1. Only(a, S) \in Seq(C)
      BY OnlyType
    <3> QED BY <3>1
  <2>3. Only(a \o SubSeq(b, 1, 0), S) = Only(a, S) \o Only(SubSeq(b, 1, 0), S)
    BY Zenon, <2>1, <2>2, OnlyNone
  <2> QED BY <2>3
<1>2. ASSUME NEW n \in Nat, n \in T PROVE n + 1 \in T
  <2> SUFFICES ASSUME n + 1 <= Len(b)
               PROVE  Only(a \o SubSeq(b, 1, n + 1), S) = Only(a, S) \o Only(SubSeq(b, 1, n + 1), S)
    OBVIOUS
  <2>1. PICK x : x = SubSeq(b, 1, n)
    OBVIOUS
  <2>2. PICK c : c = b[n + 1]
    OBVIOUS
  <2>3. x \in Seq(C) /\ c \in C
    BY <2>1, <2>2
  <2>4. SubSeq(b, 1, n + 1) = Append(x, c)
    BY <2>1, <2>2
  <2>5. a \o Append(x, c) = Append(a \o x, c) /\ a \o x \in Seq(C)
    BY <2>3
  <2>6. Only(a \o x, S) = Only(a, S) \o Only(x, S)
    <3>1. n <= Len(b)
      OBVIOUS
    <3> QED BY <1>2, <2>1, <3>1
  <2>7. Only(Append(a \o x, c), S) = Only(a \o x, S) \o Picked(c, S)
    BY <2>3, <2>5, OnlyAppend
  <2>8. Only(Append(x, c), S) = Only(x, S) \o Picked(c, S)
    BY <2>3, OnlyAppend
  <2>9. \A p, q, r \in Seq(C) : (p \o q) \o r = p \o (q \o r)
    BY SMTT(40)
  <2>10. Only(a, S) \in Seq(C) /\ Only(x, S) \in Seq(C) /\ Picked(c, S) \in Seq(C)
    BY <2>3, OnlyType, PickedType
  <2>11. (Only(a, S) \o Only(x, S)) \o Picked(c, S) = Only(a, S) \o (Only(x, S) \o Picked(c, S))
    BY ZenonT(30), <2>9, <2>10
  <2>12. Only(a \o Append(x, c), S) = (Only(a, S) \o Only(x, S)) \o Picked(c, S)
    BY Zenon, <2>5, <2>6, <2>7
  <2> QED BY Zenon, <2>4, <2>8, <2>11, <2>12
<1>3. Only(a \o SubSeq(b, 1, Len(b)), S) = Only(a, S) \o Only(SubSeq(b, 1, Len(b)), S)
  <2>1. Nat \subseteq T
    <3> HIDE DEF T
    <3> QED BY <1>1, <1>2, Induction
  <2>2. Len(b) \in Nat /\ Len(b) <= Len(b)
    OBVIOUS
  <2> QED BY Zenon, <2>1, <2>2
<1>4. SubSeq(b, 1, Len(b)) = b
  OBVIOUS
<1> QED BY Zenon, <1>3, <1>4

\* A text of other characters.
LEMMA OnlyOther ==
    ASSUME NEW A, NEW s \in Seq(A), NEW S, A \cap S = {}
    PROVE  Only(s, S) = << >>
<1> DEFINE f == [k \in 1..Len(s) |-> Picked(s[k], S)]
<1>1. Len(s) \in Nat /\ DOMAIN s = 1..Len(s) /\ \A k \in 1..Len(s) : s[k] \in A
  OBVIOUS
<1>2. f \in [1..Len(s) -> Seq({})]
  <2>1. << >> \in Seq({})
    BY EmptySeq
  <2>2. ASSUME NEW k \in 1..Len(s) PROVE Picked(s[k], S) \in Seq({})
    BY <1>1, <2>1 DEF Picked
  <2> QED BY <2>2
<1>3. Only(s, S) = FlattenSeq(f)
  BY Zenon, <1>1 DEF Only, Picked
<1> HIDE DEF f
<1>4. f \in Seq(Seq({}))
  BY <1>1, <1>2, TupleSeq
<1>5. FlattenSeq(f) \in Seq({})
  BY <1>4, FlattenType
<1>6. \A x \in Seq({}) : x = << >>
  OBVIOUS
<1> QED BY Zenon, <1>3, <1>5, <1>6

\* Texts, those of lines among them from the one after top on and between texts of
\* other characters, have the characters of the lines.
Shift(f, h, lines, m, top, S) ==
    \A k \in 1..h : IF k - top \in 1..m THEN Only(f[k], S) = Only(lines[k - top], S)
                    ELSE Only(f[k], S) = << >>

LEMMA OnlyShifted ==
    ASSUME NEW C, NEW h, NEW f, Parts(f, h, C), NEW S,
           NEW top \in Nat, NEW m, NEW lines, Parts(lines, m, C), top + m <= h,
           Shift(f, h, lines, m, top, S)
    PROVE  Only(FlattenSeq(f), S) = Only(FlattenSeq(lines), S)
<1>0. /\ h \in Nat /\ \A k \in 1..h : f[k] \in Seq(C)
      /\ m \in Nat /\ \A k \in 1..m : lines[k] \in Seq(C)
  BY DEF Parts
<1> DEFINE At(n) == IF n <= top THEN 0 ELSE IF n - top <= m THEN n - top ELSE m
           T == {n \in Nat : n <= h => Only(Flat(f, n), S) = Only(Flat(lines, At(n)), S)}
<1>1. ASSUME NEW n \in Nat PROVE At(n) \in 0..m
  BY <1>0
<1>2. 0 \in T
  <2>1. At(0) = 0 /\ 0 \in 0..h /\ 0 \in 0..m
    BY <1>0
  <2>2. Flat(f, 0) = << >> /\ Flat(lines, 0) = << >>
    BY <2>1, FlattenedUpto
  <2> HIDE DEF At
  <2> QED BY <2>1, <2>2
<1>3. ASSUME NEW n \in Nat, n \in T PROVE n + 1 \in T
  <2> SUFFICES ASSUME n + 1 <= h PROVE Only(Flat(f, n + 1), S) = Only(Flat(lines, At(n + 1)), S)
    <3> HIDE DEF At
    <3> QED OBVIOUS
  <2>1. n \in 0..h /\ n < h /\ n + 1 \in 1..h
    BY <1>0
  <2>2. Flat(f, n) \in Seq(C) /\ Flat(f, n + 1) = Flat(f, n) \o f[n + 1]
    BY <2>1, FlattenedUpto
  <2>3. Only(Flat(f, n), S) = Only(Flat(lines, At(n)), S)
    <3> HIDE DEF At
    <3> QED BY <1>3, <2>1
  <2>4. Only(Flat(f, n + 1), S) = Only(Flat(f, n), S) \o Only(f[n + 1], S)
    <3>1. f[n + 1] \in Seq(C)
      BY <1>0, <2>1
    <3>2. Only(Flat(f, n) \o f[n + 1], S) = Only(Flat(f, n), S) \o Only(f[n + 1], S)
      BY SMTT(40), <2>2, <3>1, OnlyConcat
    <3> QED BY Zenon, <2>2, <3>2
  <2>5. CASE n + 1 - top \in 1..m
    <3>1. PICK a : a = n - top
      OBVIOUS
    <3>2. a \in 0..m /\ a < m /\ At(n) = a /\ At(n + 1) = a + 1 /\ a + 1 \in 1..m
          /\ n + 1 - top = a + 1
      BY <1>0, <2>5, <3>1
    <3>3. Flat(lines, a) \in Seq(C) /\ Flat(lines, a + 1) = Flat(lines, a) \o lines[a + 1]
      BY <3>2, FlattenedUpto
    <3>4. lines[a + 1] \in Seq(C)
      BY <1>0, <3>2
    <3> HIDE DEF At
    <3>5. Only(Flat(lines, a) \o lines[a + 1], S) = Only(Flat(lines, a), S) \o Only(lines[a + 1], S)
      BY SMTT(40), <3>3, <3>4, OnlyConcat
    <3>6. Only(f[n + 1], S) = Only(lines[a + 1], S)
      BY <2>1, <2>5, <3>2 DEF Shift
    <3> QED BY Zenon, <2>3, <2>4, <3>2, <3>3, <3>5, <3>6
  <2>6. CASE n + 1 - top \notin 1..m
    <3>1. At(n + 1) = At(n)
      BY <1>0, <2>6
    <3> HIDE DEF At
    <3>2. Only(f[n + 1], S) = << >>
      BY <2>1, <2>6 DEF Shift
    <3>3. Only(Flat(f, n), S) \o << >> = Only(Flat(f, n), S)
      <4>1. Only(Flat(f, n), S) \in Seq(C)
        BY <2>2, OnlyType
      <4> QED BY <4>1
    <3> QED BY Zenon, <2>3, <2>4, <3>1, <3>2, <3>3
  <2> QED BY <2>5, <2>6
<1>4. Only(Flat(f, h), S) = Only(Flat(lines, m), S)
  <2>1. At(h) = m /\ h <= h
    BY <1>0
  <2>2. Nat \subseteq T
    <3> HIDE DEF T
    <3> QED BY <1>2, <1>3, Induction
  <2> HIDE DEF At
  <2> QED BY <1>0, <2>1, <2>2
<1>5. Flat(f, h) = FlattenSeq(f) /\ Flat(lines, m) = FlattenSeq(lines)
  <2>1. h \in 0..h /\ m \in 0..m
    BY <1>0
  <2> QED BY <2>1, FlattenedUpto
<1> QED BY Zenon, <1>4, <1>5

LEMMA FlattenedOne ==
    ASSUME NEW C, NEW g, Parts(g, 1, C)
    PROVE  FlattenSeq(g) = g[1]
<1>1. 1 \in 0..1 /\ 0 \in 0..1 /\ 0 < 1 /\ 0 + 1 = 1 /\ 1 \in 1..1
  OBVIOUS
<1>2. Flat(g, 0 + 1) = Flat(g, 0) \o g[0 + 1]
  BY <1>1, FlattenedUpto
<1>3. Flat(g, 0) = << >>
  BY <1>1, FlattenedUpto
<1>4. Flat(g, 1) = FlattenSeq(g)
  BY <1>1, FlattenedUpto
<1>5. << >> \o g[1] = g[1]
  BY <1>1 DEF Parts
<1> QED BY <1>1, <1>2, <1>3, <1>4, <1>5

\* One text among texts of other characters.
LEMMA OnlyOne ==
    ASSUME NEW C, NEW h, NEW f, Parts(f, h, C), NEW S, NEW i \in 1..h,
           \A k \in 1..h : k # i => Only(f[k], S) = << >>
    PROVE  Only(FlattenSeq(f), S) = Only(f[i], S)
<1> DEFINE g == [k \in 1..1 |-> f[i]]
<1>1. PICK top \in Nat : top = i - 1 /\ top + 1 <= h
  BY DEF Parts
<1>2. Parts(g, 1, C) /\ g[1] = f[i]
  BY DEF Parts
<1> HIDE DEF g
<1>3. Shift(f, h, g, 1, top, S)
  <2> SUFFICES ASSUME NEW k \in 1..h
               PROVE  IF k - top \in 1..1 THEN Only(f[k], S) = Only(g[k - top], S)
                      ELSE Only(f[k], S) = << >>
    BY DEF Shift
  <2>1. CASE k = i
    <3>1. k - top = 1 /\ k - top \in 1..1
      BY <1>1, <2>1
    <3> QED BY <1>2, <2>1, <3>1
  <2>2. CASE k # i
    <3>1. k - top \notin 1..1
      BY <1>1, <2>2
    <3> QED BY <2>2, <3>1
  <2> QED BY <2>1, <2>2
<1>4. Only(FlattenSeq(f), S) = Only(FlattenSeq(g), S)
  BY <1>1, <1>2, <1>3, OnlyShifted
<1>5. FlattenSeq(g) = f[i]
  BY <1>2, FlattenedOne
<1> QED BY <1>4, <1>5

\* Texts that have the same characters.
LEMMA OnlyEach ==
    ASSUME NEW C, NEW h, NEW f, NEW g, Parts(f, h, C), Parts(g, h, C), NEW S,
           \A k \in 1..h : Only(f[k], S) = Only(g[k], S)
    PROVE  Only(FlattenSeq(f), S) = Only(FlattenSeq(g), S)
<1>0. h \in Nat
  BY DEF Parts
<1>1. PICK top \in Nat : top = 0
  OBVIOUS
<1>2. top + h <= h /\ \A k \in 1..h : k - top = k /\ k - top \in 1..h
  BY <1>0, <1>1
<1>3. Shift(f, h, g, h, top, S)
  BY <1>2 DEF Shift
<1> QED BY <1>2, <1>3, OnlyShifted

\* A text is cut in two.
LEMMA OnlyCut ==
    ASSUME NEW C, NEW s \in Seq(C), NEW n \in 0..Len(s), NEW S
    PROVE  Only(s, S) = Only(SubSeq(s, 1, n), S) \o Only(SubSeq(s, n + 1, Len(s)), S)
<1>0. Len(s) \in Nat
  BY LenProperties
<1>1. SubSeq(s, 1, n) \o SubSeq(s, n + 1, Len(s)) = SubSeq(s, 1, Len(s))
  <2>1. 1 \in 1..Len(s) + 1 /\ n \in 1 - 1..Len(s) /\ Len(s) \in n..Len(s)
    BY <1>0
  <2> QED BY <2>1, ConcatAdjacentSubSeq
<1>2. SubSeq(s, 1, Len(s)) = s
  BY SubSeqFull
<1>3. PICK a : a = SubSeq(s, 1, n)
  OBVIOUS
<1>4. PICK b : b = SubSeq(s, n + 1, Len(s))
  OBVIOUS
<1>5. a \in Seq(C) /\ b \in Seq(C)
  BY <1>0, <1>3, <1>4, Windows
<1>6. Only(a \o b, S) = Only(a, S) \o Only(b, S)
  BY <1>5, OnlyConcat
<1> QED BY Zenon, <1>1, <1>2, <1>3, <1>4, <1>6

----------------------------------------------------------------------------
(* What is trimmed off, and what words are made of. *)

LEMMA OnlyTrimLeft ==
    ASSUME NEW C, NEW s \in Seq(C), NEW S, S \cap Space = {}
    PROVE  Only(trim_left(s), S) = Only(s, S)
<1> DEFINE ink == {i \in 1..Len(s) : s[i] \notin Space}
<1>1. Len(s) \in Nat
  BY LenProperties
<1>2. CASE ink = {}
  <2>1. s \in Seq(Space)
    <3>1. \A i \in 1..Len(s) : s[i] \in Space
      BY <1>2
    <3> QED BY <1>1, <3>1
  <2>2. Only(s, S) = << >>
    BY <2>1, OnlyOther
  <2>3. trim_left(s) = << >>
    BY <1>2 DEF trim_left
  <2> QED BY Zenon, <2>2, <2>3, OnlyNone
<1>3. CASE ink # {}
  <2>0. ink \in SUBSET Nat
    OBVIOUS
  <2>1. Min(ink) \in ink /\ \A i \in ink : Min(ink) <= i
    <3> HIDE DEF ink
    <3> QED BY <1>1, <1>3, <2>0, Least
  <2>10. PICK x : x = Min(ink)
    OBVIOUS
  <2>11. x \in 1..Len(s)
    BY <2>1, <2>10
  <2>2. PICK n \in 0..Len(s) : n + 1 = x /\ n + 1 <= Len(s)
    BY <1>1, <2>11
  <2>3. trim_left(s) = SubSeq(s, n + 1, Len(s))
    BY <1>3, <2>2, <2>10 DEF trim_left
  <2>4. \A i \in 1..n : s[i] \in Space
    BY <1>1, <2>1, <2>2, <2>10
  <2> HIDE DEF ink
  <2>5. SubSeq(s, 1, n) \in Seq(Space)
    BY <1>1, <2>4
  <2>6. Only(SubSeq(s, 1, n), S) = << >>
    BY <2>5, OnlyOther
  <2>7. Only(SubSeq(s, n + 1, Len(s)), S) \in Seq(C)
    <3>1. SubSeq(s, n + 1, Len(s)) \in Seq(C)
      BY <1>1, Windows
    <3> QED BY <3>1, OnlyType
  <2>8. << >> \o Only(SubSeq(s, n + 1, Len(s)), S) = Only(SubSeq(s, n + 1, Len(s)), S)
    BY <2>7
  <2>9. Only(s, S) = Only(SubSeq(s, 1, n), S) \o Only(SubSeq(s, n + 1, Len(s)), S)
    BY OnlyCut
  <2> QED BY Zenon, <2>3, <2>6, <2>8, <2>9
<1> QED BY <1>2, <1>3

LEMMA OnlyTrimRight ==
    ASSUME NEW C, NEW s \in Seq(C), NEW S, S \cap Space = {}
    PROVE  Only(trim_right(s), S) = Only(s, S)
<1> DEFINE ink == {i \in 1..Len(s) : s[i] \notin Space}
<1>1. Len(s) \in Nat
  BY LenProperties
<1>2. CASE ink = {}
  <2>1. s \in Seq(Space)
    <3>1. \A i \in 1..Len(s) : s[i] \in Space
      BY <1>2
    <3> QED BY <1>1, <3>1
  <2>2. Only(s, S) = << >>
    BY <2>1, OnlyOther
  <2>3. trim_right(s) = << >>
    BY <1>2 DEF trim_right
  <2> QED BY Zenon, <2>2, <2>3, OnlyNone
<1>3. CASE ink # {}
  <2>0. ink \in SUBSET (0..Len(s))
    OBVIOUS
  <2>1. Max(ink) \in ink /\ \A i \in ink : i <= Max(ink)
    <3> HIDE DEF ink
    <3> QED BY <1>1, <1>3, <2>0, Greatest
  <2>10. PICK n : n = Max(ink)
    OBVIOUS
  <2>2. n \in 0..Len(s)
    BY <1>1, <2>1, <2>10
  <2>3. trim_right(s) = SubSeq(s, 1, n)
    BY <1>3, <2>10 DEF trim_right
  <2>4. \A i \in (n + 1)..Len(s) : s[i] \in Space
    BY <1>1, <2>1, <2>2, <2>10
  <2> HIDE DEF ink
  <2>5. SubSeq(s, n + 1, Len(s)) \in Seq(Space)
    BY <1>1, <2>2, <2>4
  <2>6. Only(SubSeq(s, n + 1, Len(s)), S) = << >>
    BY <2>5, OnlyOther
  <2>7. Only(SubSeq(s, 1, n), S) \in Seq(C)
    <3>1. SubSeq(s, 1, n) \in Seq(C)
      BY <1>1, <2>2, Windows
    <3> QED BY <3>1, OnlyType
  <2>8. Only(SubSeq(s, 1, n), S) \o << >> = Only(SubSeq(s, 1, n), S)
    BY <2>7
  <2>9. Only(s, S) = Only(SubSeq(s, 1, n), S) \o Only(SubSeq(s, n + 1, Len(s)), S)
    BY <2>2, OnlyCut
  <2> QED BY Zenon, <2>3, <2>6, <2>8, <2>9
<1> QED BY <1>2, <1>3

LEMMA OnlyTrim ==
    ASSUME NEW C, NEW s \in Seq(C), NEW S, S \cap Space = {}
    PROVE  Only(trim(s), S) = Only(s, S)
<1>1. trim_right(s) \in Seq(C)
  BY TrimRight
<1> QED BY <1>1, OnlyTrimLeft, OnlyTrimRight DEF trim

\* A character that is put to the words is put to the text of them all.
LEMMA CharacterKept ==
    ASSUME NEW C, NEW words \in Seq(Seq(C)), words # << >>, NEW c \in C
    PROVE  FlattenSeq(AddCharacter(words, c)) = Append(FlattenSeq(words), c)
<1>1. PICK m \in Nat : Len(words) = m + 1
  <2>1. PICK k : k = Len(words)
    OBVIOUS
  <2>2. k \in Nat /\ k # 0
    BY <2>1, EmptySeq, LenProperties
  <2>3. k - 1 \in Nat /\ k = k - 1 + 1
    BY <2>2
  <2> QED BY <2>1, <2>3
<1>2. words \in [1..(m + 1) -> Seq(C)]
  BY <1>1
<1>3. words[m + 1] \in Seq(C)
  BY <1>2
<1> DEFINE grown == [words EXCEPT ![m + 1] = Append(words[m + 1], c)]
           front == FlattenSeq([i \in 1..m |-> words[i]])
<1>4. front \in Seq(C)
  <2>1. [i \in 1..m |-> words[i]] \in Seq(Seq(C))
    BY <1>2
  <2> QED BY <2>1, FlattenType
<1>5. FlattenSeq(words) = front \o words[m + 1]
  BY <1>2, FlattenNext
<1>6. grown \in [1..(m + 1) -> Seq(C)]
  BY <1>2, <1>3
<1>7. FlattenSeq(grown) = Append(FlattenSeq(words), c)
  <2>1. [i \in 1..m |-> grown[i]] = [i \in 1..m |-> words[i]] /\ grown[m + 1] = Append(words[m + 1], c)
    BY <1>2
  <2>2. FlattenSeq(grown) = FlattenSeq([i \in 1..m |-> grown[i]]) \o grown[m + 1]
    <3> HIDE DEF grown
    <3> QED BY <1>6, FlattenNext
  <2>3. front \o Append(words[m + 1], c) = Append(front \o words[m + 1], c)
    <3> HIDE DEF front
    <3> QED BY SMTT(40), <1>3, <1>4
  <2> HIDE DEF grown
  <2> QED BY Zenon, <1>5, <2>1, <2>2, <2>3
<1>8. grown \in Seq(Seq(C)) /\ FlattenSeq(words) \in Seq(C) /\ FlattenSeq(grown) \in Seq(C)
  <2>1. grown \in Seq(Seq(C))
    <3> HIDE DEF grown
    <3> QED BY <1>6
  <2> HIDE DEF grown
  <2> QED BY <2>1, FlattenType
<1>9. << >> \in Seq(C) /\ <<c>> \in Seq(C)
  OBVIOUS
<1> HIDE DEF front
<1>10. CASE index_of_any(c) = "space"
  <2>1. AddCharacter(words, c) = words \o << <<c>>, << >> >>
    BY <1>10 DEF AddCharacter
  <2> DEFINE more == Append(words, <<c>>)
  <2>2. words \o << <<c>>, << >> >> = Append(more, << >>) /\ more \in Seq(Seq(C))
    BY <1>9
  <2>3. FlattenSeq(more) = FlattenSeq(words) \o <<c>>
    BY <1>9, FlattenAppend
  <2> HIDE DEF more
  <2>4. FlattenSeq(Append(more, << >>)) = FlattenSeq(more) \o << >>
    BY <1>9, <2>2, FlattenAppend
  <2>5. (FlattenSeq(words) \o <<c>>) \o << >> = Append(FlattenSeq(words), c)
    BY <1>8
  <2> QED BY Zenon, <2>1, <2>2, <2>3, <2>4, <2>5
<1>11. CASE index_of_any(c) = "dash"
  <2>1. AddCharacter(words, c) = Append(grown, << >>)
    BY <1>1, <1>11 DEF AddCharacter
  <2> HIDE DEF grown
  <2>2. FlattenSeq(Append(grown, << >>)) = FlattenSeq(grown) \o << >>
    BY <1>8, <1>9, FlattenAppend
  <2>3. FlattenSeq(grown) \o << >> = FlattenSeq(grown)
    BY <1>8
  <2> QED BY Zenon, <1>7, <2>1, <2>2, <2>3
<1>12. CASE index_of_any(c) # "space" /\ index_of_any(c) # "dash"
  <2>1. AddCharacter(words, c) = grown
    BY <1>1, <1>12 DEF AddCharacter
  <2> HIDE DEF grown
  <2> QED BY <1>7, <2>1
<1> QED BY <1>10, <1>11, <1>12

\* The words together are the text.
LEMMA WordsKept ==
    ASSUME NEW C, NEW s \in Seq(C)
    PROVE  FlattenSeq(explode_string(s)) = s
<1>1. PICK w : WordsOf(w, s) /\ explode_string(s) = w[Len(s)]
  BY WordsDef
<1>2. Len(s) \in Nat
  BY LenProperties
<1>3. ASSUME NEW n \in 0..Len(s)
      PROVE  w[n] = IF n = 0 THEN << << >> >> ELSE AddCharacter(w[n - 1], s[n])
  BY <1>1 DEF WordsOf
<1> DEFINE Good(n) == /\ w[n] \in Seq(Seq(C)) /\ w[n] # << >>
                      /\ FlattenSeq(w[n]) = SubSeq(s, 1, n)
           T == {n \in Nat : n <= Len(s) => Good(n)}
<1>4. 0 \in T
  <2>1. w[0] = << << >> >>
    BY <1>2, <1>3
  <2>2. << << >> >> \in Seq(Seq(C)) /\ << << >> >> # << >> /\ SubSeq(s, 1, 0) = << >>
    OBVIOUS
  <2>3. FlattenSeq(<< << >> >>) = << >>
    <3>1. PICK e \in Seq(C) : e = << >>
      BY EmptySeq
    <3>2. <<e>> \in [1..1 -> Seq(C)] /\ <<e>>[1] = e
      OBVIOUS
    <3>3. FlattenSeq(<<e>>) = e
      BY <3>2, FlattenedOne DEF Parts
    <3> QED BY Zenon, <3>1, <3>3
  <2> QED BY Zenon, <2>1, <2>2, <2>3
<1>5. ASSUME NEW n \in Nat, n \in T PROVE n + 1 \in T
  <2> SUFFICES ASSUME n + 1 <= Len(s) PROVE Good(n + 1)
    OBVIOUS
  <2>1. Good(n)
    BY <1>2, <1>5
  <2>2. n + 1 \in 0..Len(s) /\ n + 1 # 0 /\ n + 1 - 1 = n /\ n + 1 \in 1..Len(s)
    BY <1>2
  <2>3. w[n + 1] = AddCharacter(w[n], s[n + 1])
    BY <1>3, <2>2
  <2>4. s[n + 1] \in C
    BY <2>2, ElementOfSeq
  <2>5. FlattenSeq(w[n + 1]) = Append(FlattenSeq(w[n]), s[n + 1])
    BY <2>1, <2>3, <2>4, CharacterKept
  <2>6. Append(SubSeq(s, 1, n), s[n + 1]) = SubSeq(s, 1, n + 1)
    BY <2>2
  <2>7. w[n + 1] \in Seq(Seq(C)) /\ w[n + 1] # << >>
    <3>1. PICK k \in Nat : \A i \in 1..Len(w[n]) : Len(w[n][i]) <= k
      <4> DEFINE g == [i \in 1..Len(w[n]) |-> Len(w[n][i])]
      <4>1. Len(w[n]) \in Nat /\ g \in [1..Len(w[n]) -> Nat]
        BY <2>1
      <4> HIDE DEF g
      <4>2. \E b \in Nat : \A i \in 1..Len(w[n]) : g[i] <= b
        BY <4>1, Bounded
      <4> QED BY <4>2 DEF g
    <3>2. PICK x : x = w[n]
      OBVIOUS
    <3>3. PICK c : c = s[n + 1]
      OBVIOUS
    <3>4. x \in Seq(Seq(C)) /\ x # << >> /\ c \in C /\ \A i \in 1..Len(x) : Len(x[i]) <= k
      BY Zenon, <2>1, <2>4, <3>1, <3>2, <3>3
    <3>5. AddCharacter(x, c) \in Seq(Seq(C)) /\ AddCharacter(x, c) # << >>
      BY ZenonT(30), <3>4, CharacterAdded
    <3> QED BY Zenon, <2>3, <3>2, <3>3, <3>5
  <2> QED BY Zenon, <2>1, <2>5, <2>6, <2>7
<1>6. Good(Len(s))
  <2>1. Nat \subseteq T
    <3> HIDE DEF T
    <3> QED BY <1>4, <1>5, Induction
  <2> HIDE DEF Good
  <2> QED BY <1>2, <2>1
<1>7. SubSeq(s, 1, Len(s)) = s
  BY SubSeqFull
<1> QED BY Zenon, <1>1, <1>6, <1>7

----------------------------------------------------------------------------
(* What is kept of a text that is wrapped: all but spaces, newlines and hyphens. *)

\* Line ends and hyphens have no letters.
Letters(S) == S \cap Space = {} /\ "\n" \notin S /\ "-" \notin S

\* n lines of q letters and a hyphen that a word is cut into,
Chunks(word, q, n) ==
    [p \in 1..n |-> SubSeq(word, (p - 1) * q + 1, p * q) \o <<"-", "\n">>]

\* have its letters.
LEMMA PiecesKept ==
    ASSUME NEW D, "\n" \in D, "-" \in D, NEW word \in Seq(D), NEW q \in Nat, NEW n \in Nat,
           n * q <= Len(word), NEW S, Letters(S)
    PROVE  /\ FlattenSeq(Chunks(word, q, n)) \in Seq(D)
           /\ Only(FlattenSeq(Chunks(word, q, n)), S) = Only(SubSeq(word, 1, n * q), S)
<1> DEFINE chunk(p) == SubSeq(word, (p - 1) * q + 1, p * q)
           F == Chunks(word, q, n)
           T == {m \in Nat : m <= n => Only(Flat(F, m), S) = Only(SubSeq(word, 1, m * q), S)}
<1>0. Len(word) \in Nat
  BY LenProperties
<1>1. ASSUME NEW m \in Nat, m < n
      PROVE  \E a, b \in Nat : /\ a = m * q /\ b = (m + 1) * q /\ a <= b /\ b <= Len(word)
                               /\ chunk(m + 1) = SubSeq(word, a + 1, b)
  <2>1. PICK a \in Nat : a = m * q
    OBVIOUS
  <2>2. (m + 1) * q = a + q
    BY <2>1
  <2>3. PICK d \in Nat : n = (m + 1) + d
    <3>1. n - (m + 1) \in Nat /\ n = (m + 1) + (n - (m + 1))
      BY <1>1
    <3> QED BY <3>1
  <2>4. n * q = (m + 1) * q + d * q /\ d * q \in Nat
    BY <2>3
  <2>5. a + q <= Len(word)
    BY <1>0, <2>2, <2>4
  <2>6. m + 1 - 1 = m
    OBVIOUS
  <2>7. chunk(m + 1) = SubSeq(word, a + 1, a + q)
    BY <2>1, <2>2, <2>6
  <2> HIDE DEF chunk
  <2> QED BY <2>1, <2>2, <2>5, <2>7
<1>2. <<"-", "\n">> \in Seq(D) /\ <<"-", "\n">> \in Seq({"-", "\n"})
  OBVIOUS
<1>3. ASSUME NEW m \in Nat, m < n
      PROVE  /\ F[m + 1] \in Seq(D)
             /\ Only(SubSeq(word, 1, (m + 1) * q), S)
                    = Only(SubSeq(word, 1, m * q), S) \o Only(F[m + 1], S)
  <2>1. PICK a, b \in Nat : /\ a = m * q /\ b = (m + 1) * q /\ a <= b /\ b <= Len(word)
                            /\ chunk(m + 1) = SubSeq(word, a + 1, b)
    BY <1>1, <1>3
  <2>2. F[m + 1] = chunk(m + 1) \o <<"-", "\n">>
    BY <1>3 DEF Chunks
  <2>3. PICK x : x = SubSeq(word, 1, a)
    OBVIOUS
  <2>4. PICK y : y = SubSeq(word, a + 1, b)
    OBVIOUS
  <2>5. PICK e : e = <<"-", "\n">>
    OBVIOUS
  <2>6. x \in Seq(D) /\ y \in Seq(D) /\ e \in Seq(D) /\ e \in Seq({"-", "\n"})
    BY <1>0, <1>2, <2>1, <2>3, <2>4, <2>5, Windows
  <2>7. x \o y = SubSeq(word, 1, b)
    <3>1. 1 \in 1..Len(word) + 1 /\ a \in 1 - 1..Len(word) /\ b \in a..Len(word)
      BY <1>0, <2>1
    <3>2. SubSeq(word, 1, a) \o SubSeq(word, a + 1, b) = SubSeq(word, 1, b)
      BY <3>1, ConcatAdjacentSubSeq
    <3> QED BY <2>3, <2>4, <3>2
  <2>8. Only(x \o y, S) = Only(x, S) \o Only(y, S)
    BY SMTT(40), <2>6, OnlyConcat
  <2>9. Only(y \o e, S) = Only(y, S)
    <3>1. Only(y \o e, S) = Only(y, S) \o Only(e, S)
      BY SMTT(40), <2>6, OnlyConcat
    <3>2. Only(e, S) = << >>
      <4>1. {"-", "\n"} \cap S = {}
        BY DEF Letters
      <4> QED BY <2>6, <4>1, OnlyOther
    <3>3. Only(y, S) \o << >> = Only(y, S)
      <4>1. Only(y, S) \in Seq(D)
        BY <2>6, OnlyType
      <4> QED BY <4>1
    <3> QED BY Zenon, <3>1, <3>2, <3>3
  <2>10. y \o e \in Seq(D)
    BY <2>6
  <2>11. F[m + 1] = y \o e
    BY Zenon, <2>1, <2>2, <2>4, <2>5
  <2> HIDE DEF F, chunk
  <2> QED BY Zenon, <2>1, <2>3, <2>7, <2>8, <2>9, <2>10, <2>11
<1>4. Parts(F, n, D)
  <2>1. ASSUME NEW p \in 1..n PROVE F[p] \in Seq(D)
    <3>1. PICK m \in Nat : m < n /\ p = m + 1
      <4>1. p - 1 \in Nat /\ p - 1 < n /\ p = p - 1 + 1
        OBVIOUS
      <4> QED BY <4>1
    <3> HIDE DEF F
    <3> QED BY <1>3, <3>1
  <2>2. F = [p \in 1..n |-> F[p]]
    BY DEF Chunks
  <2> HIDE DEF F
  <2>3. F \in [1..n -> Seq(D)]
    BY <2>1, <2>2
  <2> QED BY <2>3 DEF Parts
<1> HIDE DEF F, chunk
<1>5. 0 \in T
  <2>1. Flat(F, 0) = << >>
    <3>1. 0 \in 0..n
      OBVIOUS
    <3> QED BY <1>4, <3>1, FlattenedUpto
  <2>2. SubSeq(word, 1, 0 * q) = << >>
    <3>1. 0 * q = 0
      OBVIOUS
    <3>2. SubSeq(word, 1, 0) = << >>
      OBVIOUS
    <3> QED BY <3>1, <3>2
  <2> QED BY Zenon, <2>1, <2>2
<1>6. ASSUME NEW m \in Nat, m \in T PROVE m + 1 \in T
  <2> SUFFICES ASSUME m + 1 <= n
               PROVE  Only(Flat(F, m + 1), S) = Only(SubSeq(word, 1, (m + 1) * q), S)
    OBVIOUS
  <2>1. m < n /\ m <= n /\ m \in 0..n
    OBVIOUS
  <2>2. Only(Flat(F, m), S) = Only(SubSeq(word, 1, m * q), S)
    BY <1>6, <2>1
  <2>3. Flat(F, m) \in Seq(D) /\ Flat(F, m + 1) = Flat(F, m) \o F[m + 1]
    BY <1>4, <2>1, FlattenedUpto
  <2>4. F[m + 1] \in Seq(D)
    BY <1>3, <2>1
  <2>5. Only(Flat(F, m) \o F[m + 1], S) = Only(Flat(F, m), S) \o Only(F[m + 1], S)
    BY SMTT(40), <2>3, <2>4, OnlyConcat
  <2>6. Only(SubSeq(word, 1, (m + 1) * q), S)
            = Only(SubSeq(word, 1, m * q), S) \o Only(F[m + 1], S)
    BY <1>3, <2>1
  <2> QED BY Zenon, <2>2, <2>3, <2>5, <2>6
<1>7. Only(Flat(F, n), S) = Only(SubSeq(word, 1, n * q), S)
  <2>1. Nat \subseteq T
    <3> HIDE DEF T
    <3> QED BY <1>5, <1>6, Induction
  <2>2. n <= n
    OBVIOUS
  <2> QED BY Zenon, <2>1, <2>2
<1>8. Flat(F, n) = FlattenSeq(F)
  <2>1. n \in 0..n
    OBVIOUS
  <2> QED BY <1>4, <2>1, FlattenedUpto
<1>9. FlattenSeq(F) \in Seq(D)
  <2>1. F \in Seq(Seq(D))
    BY <1>4, TupleSeq DEF Parts
  <2> QED BY <2>1, FlattenType
<1> QED BY Zenon, <1>7, <1>8, <1>9 DEF F

\* What s has of S is in a and then in b.
MadeOf(s, a, b, S) == Only(s, S) = Only(a, S) \o Only(b, S)

\* The lines that are cut off a word, and what is left of it.
Cut(word, width) == FlattenSeq(Chunks(word, width - 1, Pieces(word, width)))

Rest(word, width) ==
    trim_left(SubSeq(word, Pieces(word, width) * (width - 1) + 1, Len(word)))

\* The lines that a word is cut into and the rest of it have its letters.
LEMMA CutKept ==
    ASSUME NEW D, "\n" \in D, "-" \in D, NEW word \in Seq(D), NEW width \in Nat,
           width > 1 \/ Len(word) <= width, NEW S, Letters(S)
    PROVE  /\ Cut(word, width) \in Seq(D) /\ Rest(word, width) \in Seq(D)
           /\ MadeOf(word, Cut(word, width), Rest(word, width), S)
<1> DEFINE n == Pieces(word, width)
           F == Chunks(word, width - 1, n)
           end == SubSeq(word, n * (width - 1) + 1, Len(word))
           rest == trim_left(end)
<1>0. Len(word) \in Nat
  BY LenProperties
<1>1. n \in Nat /\ \A k \in 1..n : width > 1 /\ Len(word) - (k - 1) * (width - 1) > width
  BY PiecesCut
<1> HIDE DEF n
<1>2. PICK a \in Nat : /\ a = n * (width - 1) /\ a <= Len(word)
                       /\ FlattenSeq(F) \in Seq(D)
                       /\ Only(FlattenSeq(F), S) = Only(SubSeq(word, 1, a), S)
  <2>1. CASE n = 0
    <3>1. n * (width - 1) = 0 /\ 0 <= Len(word)
      BY <1>0, <2>1
    <3>2. F = << >>
      BY <2>1 DEF Chunks
    <3>3. SubSeq(word, 1, 0) = << >> /\ << >> \in Seq(D)
      OBVIOUS
    <3> HIDE DEF F
    <3>4. FlattenSeq(F) = << >>
      BY <3>2, FlattenNone
    <3>5. /\ 0 = n * (width - 1) /\ 0 <= Len(word) /\ FlattenSeq(F) \in Seq(D)
          /\ Only(FlattenSeq(F), S) = Only(SubSeq(word, 1, 0), S) /\ 0 \in Nat
      BY <3>1, <3>3, <3>4
    <3> QED BY Zenon, <3>5
  <2>2. CASE n # 0
    <3>1. PICK q \in Nat : q = width - 1
      <4>1. width > 1
        BY <1>1, <2>2
      <4> QED BY <4>1
    <3>2. n * q \in Nat /\ n * q <= Len(word)
      <4>1. n \in 1..n
        BY <1>1, <2>2
      <4>2. Len(word) - (n - 1) * q > q + 1
        BY <1>1, <3>1, <4>1
      <4>3. PICK b \in Nat : n = b + 1
        <5>1. n - 1 \in Nat /\ n = n - 1 + 1
          BY <1>1, <2>2
        <5> QED BY <5>1
      <4>4. PICK c \in Nat : c = b * q
        OBVIOUS
      <4>5. n * q = c + q /\ (n - 1) * q = c
        BY <4>3, <4>4
      <4> QED BY <1>0, <4>2, <4>4, <4>5
    <3> DEFINE G == Chunks(word, q, n)
    <3>3. F = G
      BY <3>1
    <3>4. FlattenSeq(G) \in Seq(D) /\ Only(FlattenSeq(G), S) = Only(SubSeq(word, 1, n * q), S)
      BY <1>1, <3>2, PiecesKept
    <3>5. n * q = n * (width - 1)
      BY <3>1
    <3> HIDE DEF F, G
    <3> QED BY Zenon, <3>2, <3>3, <3>4, <3>5
  <2> QED BY <2>1, <2>2
<1>3. end = SubSeq(word, a + 1, Len(word)) /\ end \in Seq(D)
  <2>1. SubSeq(word, a + 1, Len(word)) \in Seq(D)
    BY <1>0, <1>2, Windows
  <2> QED BY <1>2, <2>1
<1> HIDE DEF F, end
<1>4. rest \in Seq(D) /\ Only(rest, S) = Only(end, S)
  <2>1. S \cap Space = {}
    BY DEF Letters
  <2> QED BY <1>3, <2>1, TrimLeft, OnlyTrimLeft
<1>5. Only(word, S) = Only(SubSeq(word, 1, a), S) \o Only(SubSeq(word, a + 1, Len(word)), S)
  <2>1. a \in 0..Len(word)
    BY <1>2
  <2> QED BY <2>1, OnlyCut
<1> QED BY Zenon, <1>2, <1>3, <1>4, <1>5 DEF F, end, n, Cut, Rest, MadeOf

LEMMA PutWordKept ==
    ASSUME NEW D, "\n" \in D, "-" \in D, NEW acc, NEW word \in Seq(D), NEW width \in Nat,
           acc.text \in Seq(D), width > 1 \/ Len(word) <= width, NEW S, Letters(S)
    PROVE  Only(PutWord(acc, word, width).text, S) = Only(acc.text, S) \o Only(word, S)
<1> DEFINE more == PutWord(acc, word, width)
<1>0. \A a, b \in Seq(D) : Only(a \o b, S) = Only(a, S) \o Only(b, S)
  BY SMTT(40), OnlyConcat
<1>1. CASE acc.len + Len(word) <= width
  <2>1. more.text = acc.text \o word
    BY <1>1 DEF PutWord, Length
  <2>2. Only(acc.text \o word, S) = Only(acc.text, S) \o Only(word, S)
    BY Zenon, <1>0
  <2> QED BY <2>1, <2>2
<1>2. CASE ~(acc.len + Len(word) <= width)
  <2> DEFINE break == IF acc.len > 0 THEN <<"\n">> ELSE << >>
             pieces == Cut(word, width)
             rest == Rest(word, width)
  <2>1. more.text = ((acc.text \o break) \o pieces) \o rest
    BY <1>2 DEF PutWord, Length, Chunks, Cut, Rest
  <2>2. /\ pieces \in Seq(D) /\ rest \in Seq(D)
        /\ Only(word, S) = Only(pieces, S) \o Only(rest, S)
    <3>1. pieces \in Seq(D) /\ rest \in Seq(D) /\ MadeOf(word, pieces, rest, S)
      BY CutKept
    <3> QED BY Zenon, <3>1 DEF MadeOf
  <2>3. break \in Seq(D) /\ break \in Seq({"\n"})
    <3>1. << >> \in Seq(D) /\ << >> \in Seq({"\n"}) /\ <<"\n">> \in Seq(D) /\ <<"\n">> \in Seq({"\n"})
      OBVIOUS
    <3> QED BY <3>1
  <2>4. Only(break, S) = << >>
    <3>1. {"\n"} \cap S = {}
      BY DEF Letters
    <3> HIDE DEF break
    <3> QED BY <2>3, <3>1, OnlyOther
  <2> HIDE DEF break, pieces, rest, more
  <2>5. acc.text \o break \in Seq(D) /\ (acc.text \o break) \o pieces \in Seq(D)
    BY <2>2, <2>3
  <2>6. Only(acc.text \o break, S) = Only(acc.text, S) \o Only(break, S)
    BY Zenon, <1>0, <2>3
  <2>7. Only((acc.text \o break) \o pieces, S) = Only(acc.text \o break, S) \o Only(pieces, S)
    BY Zenon, <1>0, <2>2, <2>5
  <2>8. Only(((acc.text \o break) \o pieces) \o rest, S)
            = Only((acc.text \o break) \o pieces, S) \o Only(rest, S)
    BY Zenon, <1>0, <2>2, <2>5
  <2>9. Only(acc.text, S) \in Seq(D) /\ Only(pieces, S) \in Seq(D) /\ Only(rest, S) \in Seq(D)
    BY <2>2, OnlyType
  <2>10. \A p, q, r \in Seq(D) : ((p \o << >>) \o q) \o r = p \o (q \o r)
    BY SMTT(40)
  <2>11. ((Only(acc.text, S) \o << >>) \o Only(pieces, S)) \o Only(rest, S)
             = Only(acc.text, S) \o (Only(pieces, S) \o Only(rest, S))
    BY ZenonT(30), <2>9, <2>10
  <2>12. Only(more.text, S) = ((Only(acc.text, S) \o << >>) \o Only(pieces, S)) \o Only(rest, S)
    BY Zenon, <2>1, <2>4, <2>6, <2>7, <2>8
  <2> QED BY Zenon, <2>2, <2>11, <2>12 DEF more
<1> QED BY <1>1, <1>2

\* However a text is wrapped, its letters are kept, in their order: word_wrap
\* (format.hpp:411-447) only adds and takes spaces, newlines and hyphens.
THEOREM WrapKeepsLetters ==
    ASSUME NEW D, "\n" \in D, "-" \in D, NEW s \in Seq(D), NEW width \in Nat,
           WrapEnds(s, width), NEW S, Letters(S)
    PROVE  Only(word_wrap(s, width), S) = Only(s, S)
<1>1. PICK w : /\ WrapsTo(w, explode_string(s), width)
               /\ word_wrap(s, width) = w[Len(explode_string(s))].text
  BY WrapDef
<1> DEFINE words == explode_string(s)
           Good(k) == /\ Wrapped(w[k], D, width)
                      /\ Only(w[k].text, S) = Only(Flat(words, k), S)
           T == {k \in Nat : k <= Len(words) => Good(k)}
<1>2. words \in Seq(Seq(D)) /\ Len(words) \in Nat
  BY WordsType, LenProperties
<1>3. ASSUME NEW n \in 1..Len(words)
      PROVE  words[n] \in Seq(D) /\ (width > 1 \/ Len(words[n]) <= width)
  <2>1. DOMAIN words = 1..Len(words)
    BY <1>2, LenProperties
  <2>2. width > 1 \/ \A k \in DOMAIN words : Len(words[k]) <= width
    BY DEF WrapEnds, Length
  <2> HIDE DEF words
  <2> QED BY <1>2, <1>3, <2>1, <2>2, ElementOfSeq
<1>4. ASSUME NEW n \in 0..Len(words)
      PROVE  w[n] = IF n = 0 THEN [text |-> << >>, len |-> 0]
                    ELSE PutWord(w[n - 1], words[n], width)
  BY <1>1 DEF WrapsTo
<1>5. FlattenSeq(words) = s
  BY WordsKept
<1> HIDE DEF words
<1>6. Parts(words, Len(words), D)
  <2>1. words \in [1..Len(words) -> Seq(D)]
    BY <1>2
  <2> QED BY <1>2, <2>1 DEF Parts
<1>7. 0 \in T
  <2>1. w[0] = [text |-> << >>, len |-> 0]
    BY <1>2, <1>4
  <2>2. Len(<< >>) = 0 /\ << >> \in Seq(D)
    BY EmptySeq
  <2>3. Fits(<< >>, width) /\ Ends(<< >>, 0)
    BY <2>2 DEF Fits, Ends
  <2>4. w[0].text = << >> /\ w[0].len = 0
    BY <2>1
  <2>5. Wrapped(w[0], D, width)
    BY <2>2, <2>3, <2>4 DEF Wrapped
  <2>6. Flat(words, 0) = << >>
    <3>1. 0 \in 0..Len(words)
      BY <1>2
    <3> QED BY <1>6, <3>1, FlattenedUpto
  <2> QED BY Zenon, <2>4, <2>5, <2>6
<1>8. ASSUME NEW k \in Nat, k \in T PROVE k + 1 \in T
  <2> SUFFICES ASSUME k + 1 <= Len(words) PROVE Good(k + 1)
    OBVIOUS
  <2>1. Good(k)
    BY <1>2, <1>8
  <2>2. k + 1 \in 0..Len(words) /\ k + 1 # 0 /\ k + 1 - 1 = k /\ k + 1 \in 1..Len(words)
        /\ k \in 0..Len(words) /\ k < Len(words)
    BY <1>2
  <2>3. w[k + 1] = PutWord(w[k], words[k + 1], width)
    BY <1>4, <2>2
  <2>4. words[k + 1] \in Seq(D) /\ (width > 1 \/ Len(words[k + 1]) <= width)
    BY <1>3, <2>2
  <2>5. Wrapped(w[k + 1], D, width)
    BY <2>1, <2>3, <2>4, PutWordFits
  <2>6. w[k].text \in Seq(D)
    BY <2>1 DEF Wrapped
  <2>7. Only(w[k + 1].text, S) = Only(w[k].text, S) \o Only(words[k + 1], S)
    <3>1. \A word \in Seq(D) : \A acc :
              acc.text \in Seq(D) /\ (width > 1 \/ Len(word) <= width) =>
                  Only(PutWord(acc, word, width).text, S) = Only(acc.text, S) \o Only(word, S)
      BY PutWordKept
    <3> QED BY Zenon, <2>3, <2>4, <2>6, <3>1
  <2>8. Flat(words, k) \in Seq(D) /\ Flat(words, k + 1) = Flat(words, k) \o words[k + 1]
    BY <1>6, <2>2, FlattenedUpto
  <2>9. Only(Flat(words, k) \o words[k + 1], S) = Only(Flat(words, k), S) \o Only(words[k + 1], S)
    <3>1. \A a, b \in Seq(D) : Only(a \o b, S) = Only(a, S) \o Only(b, S)
      BY OnlyConcat
    <3> QED BY Zenon, <2>4, <2>8, <3>1
  <2> QED BY Zenon, <2>1, <2>5, <2>7, <2>8, <2>9
<1>9. Good(Len(words))
  <2>1. Nat \subseteq T
    <3> HIDE DEF T
    <3> QED BY <1>7, <1>8, Induction
  <2> HIDE DEF Good
  <2> QED BY <1>2, <2>1
<1>10. Flat(words, Len(words)) = FlattenSeq(words)
  <2>1. Len(words) \in 0..Len(words)
    BY <1>2
  <2> QED BY <1>6, <2>1, FlattenedUpto
<1> QED BY Zenon, <1>1, <1>5, <1>9, <1>10 DEF words

\* Cutting at the newlines keeps all other characters,
LEMMA CutsKept ==
    ASSUME NEW D, NEW s \in Seq(D), NEW c, NEW m, NEW lines, CutAt(s, c, m, lines, D),
           NEW S, "\n" \notin S
    PROVE  Only(FlattenSeq(lines), S) = Only(s, S)
<1>0. /\ m \in Nat \ {0} /\ lines \in [1..m -> Seq(D)] /\ c[0] = 0 /\ c[m] = Len(s) + 1
      /\ \A n \in 1..m : LineOf(s, c[n - 1], c[n], lines[n])
  BY DEF CutAt
<1>1. Parts(lines, m, D) /\ Len(s) \in Nat
  BY <1>0, LenProperties DEF Parts
<1> DEFINE before(n) == SubSeq(s, 1, c[n] - 1)
           T == {n \in Nat : n <= m => Only(Flat(lines, n), S) = Only(before(n), S)}
<1>2. 0 \in T
  <2>1. before(0) = << >>
    <3>1. c[0] - 1 = -1
      BY <1>0
    <3>2. SubSeq(s, 1, -1) = << >>
      OBVIOUS
    <3> QED BY <3>1, <3>2
  <2>2. Flat(lines, 0) = << >>
    <3>1. 0 \in 0..m
      BY <1>0
    <3> QED BY <1>1, <3>1, FlattenedUpto
  <2> HIDE DEF before
  <2> QED BY <2>1, <2>2
<1>3. ASSUME NEW n \in Nat, n \in T PROVE n + 1 \in T
  <2> SUFFICES ASSUME n + 1 <= m PROVE Only(Flat(lines, n + 1), S) = Only(before(n + 1), S)
    <3> HIDE DEF before
    <3> QED OBVIOUS
  <2>1. n + 1 \in 1..m /\ n + 1 - 1 = n /\ n \in 0..m /\ n < m
    BY <1>0
  <2>2. Only(Flat(lines, n), S) = Only(before(n), S)
    <3> HIDE DEF before
    <3> QED BY <1>3, <2>1
  <2>3. PICK a, b, line : a = c[n] /\ b = c[n + 1] /\ line = lines[n + 1]
    OBVIOUS
  <2>4. LineOf(s, a, b, line)
    <3>1. PICK k : k = n + 1
      OBVIOUS
    <3>2. LineOf(s, c[k - 1], c[k], lines[k])
      BY <1>0, <2>1, <3>1
    <3>3. k - 1 = n
      BY <2>1, <3>1
    <3> QED BY <2>3, <3>1, <3>2, <3>3
  <2>5. /\ a \in 0..Len(s) /\ b \in 1..(Len(s) + 1) /\ a < b
        /\ a = 0 \/ s[a] = "\n"
        /\ line = SubSeq(s, a + 1, b - 1)
    BY <2>4 DEF LineOf
  <2>6. Flat(lines, n) \in Seq(D) /\ Flat(lines, n + 1) = Flat(lines, n) \o line
    BY <1>1, <2>1, <2>3, FlattenedUpto
  <2>7. line \in Seq(D)
    BY <1>0, <2>1, <2>3
  <2>8. Only(Flat(lines, n + 1), S) = Only(SubSeq(s, 1, a - 1), S) \o Only(line, S)
    <3>1. \A x, y \in Seq(D) : Only(x \o y, S) = Only(x, S) \o Only(y, S)
      BY OnlyConcat
    <3>2. Only(Flat(lines, n) \o line, S) = Only(Flat(lines, n), S) \o Only(line, S)
      BY Zenon, <2>6, <2>7, <3>1
    <3> QED BY Zenon, <2>2, <2>3, <2>6, <3>2
  <2>9. CASE a = 0
    <3>1. SubSeq(s, 1, a - 1) = << >>
      BY <2>9
    <3>2. line = SubSeq(s, 1, b - 1)
      BY <2>5, <2>9
    <3>3. Only(line, S) \in Seq(D)
      BY <2>7, OnlyType
    <3>4. Only(<< >>, S) \o Only(line, S) = Only(line, S)
      BY <3>3, OnlyNone
    <3> QED BY Zenon, <2>3, <2>8, <3>1, <3>2, <3>4
  <2>10. CASE a # 0
    <3>1. PICK x, y : x = SubSeq(s, 1, a - 1) /\ y = SubSeq(s, 1, a)
      OBVIOUS
    <3>2. /\ 1 \in 1..Len(s) + 1 /\ a \in 1 - 1..Len(s) /\ b - 1 \in a..Len(s)
          /\ a \in 1..Len(s) /\ a - 1 \in Nat /\ b - 1 \in Nat /\ a - 1 <= Len(s)
      BY <1>1, <2>5, <2>10
    <3>3. y \o line = SubSeq(s, 1, b - 1)
      BY <2>5, <3>1, <3>2, ConcatAdjacentSubSeq
    <3>4. x \in Seq(D) /\ y \in Seq(D) /\ s[a] = "\n" /\ s[a] \in D
      BY <2>5, <2>10, <3>1, <3>2
    <3>5. y = Append(x, s[a])
      BY <3>1, <3>2
    <3>6. Only(y, S) = Only(x, S)
      <4>1. Only(Append(x, s[a]), S) = Only(x, S) \o Picked(s[a], S)
        BY <3>4, OnlyAppend
      <4>2. Picked(s[a], S) = << >>
        BY <3>4 DEF Picked
      <4>3. Only(x, S) \o << >> = Only(x, S)
        <5>1. Only(x, S) \in Seq(D)
          BY <3>4, OnlyType
        <5> QED BY <5>1
      <4> QED BY Zenon, <3>5, <4>1, <4>2, <4>3
    <3>7. Only(y \o line, S) = Only(y, S) \o Only(line, S)
      <4>1. \A p, q \in Seq(D) : Only(p \o q, S) = Only(p, S) \o Only(q, S)
        BY OnlyConcat
      <4> QED BY Zenon, <2>7, <3>4, <4>1
    <3> QED BY Zenon, <2>3, <2>8, <3>1, <3>3, <3>6, <3>7
  <2> QED BY <2>9, <2>10
<1>4. Only(Flat(lines, m), S) = Only(before(m), S)
  <2>1. Nat \subseteq T
    <3> HIDE DEF T
    <3> QED BY <1>2, <1>3, Induction
  <2>2. m \in Nat /\ m <= m
    BY <1>0
  <2> HIDE DEF before
  <2> QED BY <2>1, <2>2
<1>5. before(m) = s
  <2>1. c[m] - 1 = Len(s)
    BY <1>0, <1>1
  <2> QED BY <2>1, SubSeqFull
<1>6. Flat(lines, m) = FlattenSeq(lines)
  <2>1. m \in 0..m
    BY <1>0
  <2> QED BY <1>1, <2>1, FlattenedUpto
<1> HIDE DEF before
<1> QED BY Zenon, <1>4, <1>5, <1>6

\* also when the last line, an empty one, is none; and there are as many lines as
\* get_cell_height counts.
LEMMA SplitKept ==
    ASSUME NEW D, NEW s \in Seq(D), NEW S, "\n" \notin S
    PROVE  LET lines == split_lines(s)
           IN  /\ lines \in Seq(Seq(D))
               /\ Only(FlattenSeq(lines), S) = Only(s, S)
               /\ Len(lines) = Cardinality(Newlines(s))
                                   + IF s # << >> /\ Last(s) # "\n" THEN 1 ELSE 0
<1> DEFINE r == split_lines(s)
<1>1. PICK m, lines, c :
          /\ CutAt(s, c, m, lines, D)
          /\ r = IF lines[m] = << >> THEN SubSeq(lines, 1, m - 1) ELSE lines
  BY CutLines
<1> HIDE DEF r
<1>2. /\ m \in Nat \ {0} /\ lines \in [1..m -> Seq(D)] /\ c[m] = Len(s) + 1
      /\ m = Cardinality(Newlines(s)) + 1 /\ LineOf(s, c[m - 1], c[m], lines[m])
  BY <1>1 DEF CutAt
<1>3. Only(FlattenSeq(lines), S) = Only(s, S)
  BY <1>1, CutsKept
<1>4. PICK a : a = c[m - 1]
  OBVIOUS
<1>5. /\ a \in 0..Len(s) /\ Len(s) \in Nat
      /\ a = 0 \/ s[a] = "\n"
      /\ lines[m] = SubSeq(s, a + 1, Len(s))
      /\ \A i \in (a + 1)..Len(s) : s[i] # "\n"
  <2>1. LineOf(s, a, Len(s) + 1, lines[m])
    BY <1>2, <1>4
  <2>2. Len(s) + 1 - 1 = Len(s) /\ Len(s) \in Nat
    BY LenProperties
  <2> QED BY <2>1, <2>2 DEF LineOf
<1> DEFINE Q == Seq(D)
<1>6. lines \in Seq(Q) /\ Len(lines) = m /\ Cardinality(Newlines(s)) = m - 1
  <2> HIDE DEF Q
  <2>1. lines \in Seq(Q) /\ Len(lines) = m
    BY ZenonT(30), <1>2, TupleSeq DEF Q
  <2>2. Newlines(s) \in SUBSET (0..Len(s))
    BY <1>5 DEF Newlines
  <2>3. Cardinality(Newlines(s)) \in Nat
    BY <1>5, <2>2, FiniteNumbers
  <2> QED BY <1>2, <2>1, <2>3
<1>7. lines[m] = << >> <=> ~(s # << >> /\ Last(s) # "\n")
  <2>1. CASE a = Len(s)
    <3>1. lines[m] = << >>
      BY <1>5, <2>1
    <3>2. a = 0 => s = << >>
      BY <1>5, <2>1, EmptySeq
    <3>3. a # 0 => Last(s) = "\n"
      BY <1>5, <2>1 DEF Last
    <3> QED BY <3>1, <3>2, <3>3
  <2>2. CASE a # Len(s)
    <3>1. a + 1 \in 1..Len(s) /\ Len(s) \in (a + 1)..Len(s)
      BY <1>5, <2>2
    <3>2. Last(s) # "\n" /\ s # << >>
      BY <1>5, <3>1 DEF Last
    <3>3. Len(SubSeq(s, a + 1, Len(s))) # 0
      <4>1. /\ a + 1 \in Nat /\ 1 <= a + 1 /\ Len(s) <= Len(s) /\ a + 1 <= Len(s)
            /\ Len(s) - (a + 1) + 1 # 0
        BY <1>5, <3>1
      <4>2. Len(SubSeq(s, a + 1, Len(s))) = Len(s) - (a + 1) + 1
        BY <1>5, <4>1, Windows
      <4> QED BY <4>1, <4>2
    <3>4. lines[m] # << >>
      <4>1. Len(lines[m]) # 0
        BY Zenon, <1>5, <3>3
      <4>2. Len(<< >>) = 0
        OBVIOUS
      <4> QED BY Zenon, <4>1, <4>2
    <3> QED BY <3>2, <3>4
  <2> QED BY <2>1, <2>2
<1>8. CASE lines[m] # << >>
  <2> HIDE DEF Q
  <2>1. r = lines
    BY <1>1, <1>8
  <2>2. Len(lines) = Cardinality(Newlines(s)) + 1
    BY <1>2, <1>6
  <2> QED BY <1>3, <1>6, <1>7, <1>8, <2>1, <2>2 DEF r, Q
<1>9. CASE lines[m] = << >>
  <2>1. r = SubSeq(lines, 1, m - 1)
    BY <1>1, <1>9
  <2>2. PICK k : k = m - 1
    OBVIOUS
  <2>3. k \in Nat /\ k <= m /\ k < m /\ k + 1 = m /\ k \in 0..m
    BY <1>2, <2>2
  <2>4. r = [i \in 1..k |-> lines[i]]
    <3> HIDE DEF Q
    <3> QED BY <1>6, <2>1, <2>2, <2>3
  <2>5. r \in Seq(Q) /\ Len(r) = k
    <3>1. lines \in [1..m -> Q]
      BY <1>2
    <3> HIDE DEF Q
    <3>2. r \in [1..k -> Q]
      BY <2>3, <2>4, <3>1
    <3> QED BY <2>3, <3>2, TupleSeq
  <2>6. Parts(lines, m, D) /\ m \in 0..m
    BY <1>2 DEF Parts
  <2>7. Flat(lines, k + 1) = Flat(lines, k) \o lines[k + 1] /\ Flat(lines, k) \in Seq(D)
    <3>1. \A n \in 0..m : /\ Flat(lines, n) \in Seq(D)
                          /\ n < m => Flat(lines, n + 1) = Flat(lines, n) \o lines[n + 1]
      BY <2>6, FlattenedUpto
    <3> QED BY Zenon, <2>3, <3>1
  <2>8. Flat(lines, m) = FlattenSeq(lines)
    BY <2>6, FlattenedUpto
  <2>9. Flat(lines, k) \o << >> = Flat(lines, k)
    BY <2>7
  <2>10. FlattenSeq(r) = FlattenSeq(lines)
    BY Zenon, <1>9, <2>3, <2>4, <2>7, <2>8, <2>9 DEF Flat
  <2>11. Len(r) = Cardinality(Newlines(s))
    BY <1>6, <2>2, <2>5
  <2> HIDE DEF Q
  <2>12. Only(FlattenSeq(r), S) = Only(s, S)
    BY <1>3, <2>10
  <2>13. Len(r) = Cardinality(Newlines(s)) + 0
    BY <1>6, <2>3, <2>5, <2>11
  <2> QED BY <1>7, <1>9, <2>5, <2>12, <2>13 DEF r, Q
<1> QED BY <1>8, <1>9

\* A text of which all characters are wanted.
LEMMA OnlyAll ==
    ASSUME NEW S, NEW s \in Seq(S)
    PROVE  Only(s, S) = s
<1> DEFINE T == {n \in Nat : \A u \in Seq(S) : Len(u) = n => Only(u, S) = u}
<1>1. 0 \in T
  <2>1. \A u \in Seq(S) : Len(u) = 0 => u = << >>
    BY EmptySeq
  <2> QED BY <2>1, OnlyNone
<1>2. ASSUME NEW n \in Nat, n \in T PROVE n + 1 \in T
  <2> SUFFICES ASSUME NEW u \in Seq(S), Len(u) = n + 1 PROVE Only(u, S) = u
    BY <1>2
  <2>1. PICK v \in Seq(S), c \in S : u = Append(v, c) /\ Len(v) = n
    <3>1. u = Append(SubSeq(u, 1, n), u[n + 1]) /\ SubSeq(u, 1, n) \in Seq(S) /\ u[n + 1] \in S
          /\ Len(SubSeq(u, 1, n)) = n
      OBVIOUS
    <3> QED BY <3>1
  <2>2. Only(v, S) = v
    BY <1>2, <2>1
  <2>3. Only(Append(v, c), S) = Only(v, S) \o Picked(c, S)
    BY OnlyAppend
  <2>4. v \o <<c>> = Append(v, c)
    OBVIOUS
  <2> QED BY <2>1, <2>2, <2>3, <2>4 DEF Picked
<1> HIDE DEF T
<1>3. Nat \subseteq T
  BY <1>1, <1>2, Induction
<1> QED BY <1>3, LenProperties DEF T

\* Texts are flattened one after the other.
Flats(f, h) ==
    \A k \in 0..h : /\ k = 0 => Flat(f, k) = << >>
                    /\ k < h => Flat(f, k + 1) = Flat(f, k) \o f[k + 1]
                    /\ k = h => Flat(f, k) = FlattenSeq(f)

LEMMA FlatSteps ==
    ASSUME NEW C, NEW h, NEW f, Parts(f, h, C)
    PROVE  Flats(f, h)
<1> SUFFICES ASSUME NEW k \in 0..h
             PROVE  /\ k = 0 => Flat(f, k) = << >>
                    /\ k < h => Flat(f, k + 1) = Flat(f, k) \o f[k + 1]
                    /\ k = h => Flat(f, k) = FlattenSeq(f)
  BY Zenon DEF Flats
<1> QED BY FlattenedUpto
=============================================================================
