------------------------------ MODULE TabText ------------------------------
(***************************************************************************)
(* The text functions of tabulate's Format (libs/tabulate/format.hpp). A   *)
(* text is a sequence of one-character strings, each of one byte and one   *)
(* column wide: both ways of get_sequence_length, with and without support *)
(* for multi-byte characters, count the characters.                        *)
(***************************************************************************)
EXTENDS Integers, Sequences, SequencesExt, FiniteSetsExt

Space == {" ", "\t", "\n"}

\* The characters of s that are in S, in their order.
Only(s, S) == FlattenSeq([k \in DOMAIN s |-> IF s[k] \in S THEN <<s[k]>> ELSE << >>])

\* get_sequence_length
Length(s) == Len(s)

trim_left(s) ==
    LET ink == {i \in 1..Len(s) : s[i] \notin Space}
    IN  IF ink = {} THEN << >> ELSE SubSeq(s, Min(ink), Len(s))

trim_right(s) ==
    LET ink == {i \in 1..Len(s) : s[i] \notin Space}
    IN  IF ink = {} THEN << >> ELSE SubSeq(s, 1, Max(ink))

trim(s) == trim_left(trim_right(s))

\* <<F(1), ..., F(n)>>
Tuple(n, F(_)) == SubSeq([k \in 1..n |-> F(k)], 1, n)

\* The lines of s; an empty one at the end is no line.
split_lines(s) ==
    LET cuts     == {0, Len(s) + 1} \cup {i \in 1..Len(s) : s[i] = "\n"}
        Cut(n)   == CHOOSE c \in cuts : Cardinality({d \in cuts : d < c}) = n
        lines    == Tuple(Cardinality(cuts) - 1,
                          LAMBDA n : SubSeq(s, Cut(n - 1) + 1, Cut(n) - 1))
    IN  IF Last(lines) = << >> THEN Front(lines) ELSE lines

\* What a character is to explode_string.
index_of_any(c) ==
    CASE c \in {" ", "\t"} -> "space" [] c = "-" -> "dash" [] OTHER -> "letter"

\* Where the next word starts: a space is a word of its own, a dash sticks to the
\* word before it.
AddCharacter(words, c) ==
    LET grown == [words EXCEPT ![Len(words)] = Append(@, c)]
    IN  CASE index_of_any(c) = "space" -> words \o << <<c>>, << >> >>
          [] index_of_any(c) = "dash"  -> Append(grown, << >>)
          [] OTHER -> grown

explode_string(s) ==
    LET words[n \in 0..Len(s)] ==
            IF n = 0 THEN << << >> >> ELSE AddCharacter(words[n - 1], s[n])
    IN  words[Len(s)]

\* How many hyphenated pieces a word is cut into until the rest fits.
Pieces(word, width) ==
    Min({n \in 0..Length(word) : Length(word) - n * (width - 1) <= width})

\* The loop of word_wrap that cuts a word ends only if a piece is not empty.
WrapEnds(s, width) ==
    width > 1 \/ \A n \in DOMAIN explode_string(s) : Length(explode_string(s)[n]) <= width

\* Mutant: the length of the rest of a cut word is forgotten.
PutWord_Forgets(acc, word, width) ==
    LET n == Pieces(word, width)
    IN  IF acc.len + Length(word) <= width
        THEN [text |-> acc.text \o word, len |-> acc.len + Length(word)]
        ELSE [text |-> acc.text \o <<"\n">> \o word, len |-> n]

\* One turn of word_wrap: acc is the result and the length of its last line.
PutWord(acc, word, width) ==
    LET n      == Pieces(word, width)
        piece(p) == SubSeq(word, (p - 1) * (width - 1) + 1, p * (width - 1)) \o <<"-", "\n">>
        rest   == trim_left(SubSeq(word, n * (width - 1) + 1, Len(word)))
    IN  IF acc.len + Length(word) <= width
        THEN [text |-> acc.text \o word, len |-> acc.len + Length(word)]
        ELSE [text |-> acc.text \o (IF acc.len > 0 THEN <<"\n">> ELSE << >>)
                           \o FlattenSeq([p \in 1..n |-> piece(p)]) \o rest,
              len  |-> Length(rest)]

\* word_wrap, where WrapEnds(s, width).
word_wrap(s, width) ==
    LET words == explode_string(s)
        wrapped[n \in 0..Len(words)] ==
            IF n = 0 THEN [text |-> << >>, len |-> 0]
            ELSE PutWord(wrapped[n - 1], words[n], width)
    IN  wrapped[Len(words)].text
=============================================================================
