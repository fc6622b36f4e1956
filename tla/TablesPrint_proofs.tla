------------------------- MODULE TablesPrint_proofs -------------------------
(***************************************************************************)
(* What a print of a table writes. It is put together from the borders and *)
(* the lines of the cells: what holds of each of these pieces and is kept  *)
(* when they are put side by side holds of the whole (PrintedIn): where    *)
(* the styles end, and the letters of each cell.                           *)
(***************************************************************************)
EXTENDS Tables_proofs

----------------------------------------------------------------------------
(* Pieces that are put together. *)

Tokens == Characters \cup Codes

\* A set of pieces of text with all that can be put together from them.
Language(P) ==
    /\ P \subseteq Seq(Tokens)
    /\ << >> \in P
    /\ \A a, b \in P : a \o b \in P

\* Pieces that are flattened are put together.
LEMMA Flattened ==
    ASSUME NEW P, Language(P), NEW s \in Seq(P)
    PROVE  FlattenSeq(s) \in P
<1>1. P \subseteq Seq(Tokens) /\ << >> \in P /\ \A a, b \in P : a \o b \in P
  BY DEF Language
<1>2. s \in Seq(Seq(Tokens))
  BY <1>1, Widened
<1>3. CASE s = << >>
  BY <1>1, <1>3, FlattenNone
<1>4. CASE s # << >>
  <2>1. PICK f : FlatOf(f, s) /\ FlattenSeq(s) = f[Len(s)]
    BY <1>2, <1>4, FlattenDef
  <2> DEFINE T == {n \in Nat : n \in 1..Len(s) => f[n] \in P}
  <2>2. 0 \in T
    OBVIOUS
  <2>3. ASSUME NEW n \in Nat, n \in T PROVE n + 1 \in T
    <3> SUFFICES ASSUME n + 1 \in 1..Len(s) PROVE f[n + 1] \in P
      OBVIOUS
    <3>1. f[n + 1] = IF n + 1 = 1 THEN s[n + 1] ELSE f[n + 1 - 1] \o s[n + 1]
      BY <2>1, FlatMember
    <3>2. s[n + 1] \in P
      BY ElementOfSeq
    <3>3. n + 1 # 1 => n \in 1..Len(s) /\ n + 1 - 1 = n
      BY <1>2, LenProperties
    <3> QED BY <1>1, <2>3, <3>1, <3>2, <3>3
  <2>4. Nat \subseteq T
    <3> HIDE DEF T
    <3> QED BY <2>2, <2>3, Induction
  <2>5. Len(s) \in 1..Len(s) /\ Len(s) \in Nat
    BY <1>4, EmptySeq
  <2> QED BY <2>1, <2>4, <2>5
<1> QED BY <1>3, <1>4

LEMMA Single ==
    ASSUME NEW S, NEW x \in S PROVE <<x>> \in Seq(S)
OBVIOUS

LEMMA Few ==
    ASSUME NEW S, NEW x \in S, NEW y \in S, NEW z \in S
    PROVE  <<x, y>> \in Seq(S) /\ <<x, y, z>> \in Seq(S)
OBVIOUS

\* The same, of a function.
LEMMA Joined ==
    ASSUME NEW P, Language(P), NEW n \in Nat, NEW f \in [1..n -> P]
    PROVE  FlattenSeq(f) \in P
BY Flattened, TupleSeq

LEMMA SpacesAre ==
    ASSUME NEW n \in Int
    PROVE  Spaces(n) \in Seq({" "})
<1>1. CASE n < 1
  BY <1>1, EmptySeq DEF Spaces
<1>2. CASE ~(n < 1)
  <2>1. n \in Nat /\ [k \in 1..n |-> " "] \in [1..n -> {" "}]
    BY <1>2
  <2> QED BY <1>2, <2>1, TupleSeq DEF Spaces
<1> QED BY Zenon, <1>1, <1>2

----------------------------------------------------------------------------
(* Styles. *)

FontTokens == Range(FontCodes)

ColorTokens == Range(ForegroundCodes) \cup Range(BackgroundCodes)

LEMMA TokensAre ==
    /\ Codes = FontTokens \cup ColorTokens \cup {ResetCode}
    /\ FontTokens \cap ColorTokens = {}
    /\ ResetCode \notin FontTokens /\ ResetCode \notin ColorTokens
    /\ Characters \cap Codes = {}
<1>1. FontTokens = {"ESC[1m", "ESC[2m", "ESC[3m", "ESC[4m", "ESC[5m", "ESC[7m", "ESC[8m", "ESC[9m"}
  BY DEF FontCodes, FontTokens, Range
<1>2. Range(ForegroundCodes) = {"ESC[30m", "ESC[31m", "ESC[32m", "ESC[33m", "ESC[34m", "ESC[35m",
                                "ESC[36m", "ESC[37m"}
  BY DEF ForegroundCodes, Range
<1>3. Range(BackgroundCodes) = {"ESC[40m", "ESC[41m", "ESC[42m", "ESC[43m", "ESC[44m", "ESC[45m",
                                "ESC[46m", "ESC[47m"}
  BY DEF BackgroundCodes, Range
<1>4. Codes = FontTokens \cup ColorTokens \cup {ResetCode}
  BY Zenon DEF Codes, FontTokens, ColorTokens
<1>5. FontTokens \cap ColorTokens = {} /\ ResetCode \notin FontTokens /\ ResetCode \notin ColorTokens
  BY <1>1, <1>2, <1>3 DEF ColorTokens, ResetCode
<1> QED BY <1>4, <1>5 DEF Characters

\* A colour is at most one code,
LEMMA ColorCodes ==
    ASSUME NEW stream, NEW color \in Color
    PROVE  /\ apply_foreground_color(stream, color) \in Seq(ColorTokens)
           /\ apply_background_color(stream, color) \in Seq(ColorTokens)
<1>1. << >> \in Seq(ColorTokens)
  BY EmptySeq
<1>2. CASE color = "none"
  BY <1>1, <1>2 DEF apply_foreground_color, apply_background_color
<1>3. CASE color # "none"
  <2>1. color \in DOMAIN ForegroundCodes /\ color \in DOMAIN BackgroundCodes
    BY <1>3 DEF Color, ForegroundCodes, BackgroundCodes
  <2>2. ForegroundCodes[color] \in ColorTokens /\ BackgroundCodes[color] \in ColorTokens
    BY <2>1 DEF ColorTokens, Range
  <2>3. \A c \in ColorTokens : <<c>> \in Seq(ColorTokens)
    OBVIOUS
  <2> QED BY <1>1, <1>3, <2>2, <2>3 DEF apply_foreground_color, apply_background_color, Emit
<1> QED BY <1>2, <1>3

\* and a style of the font one for each of its styles.
LEMMA StyleCodes ==
    ASSUME NEW stream, NEW styles
    PROVE  FlattenSeq([n \in 1..8 |->
               IF FontOrder[n] \in styles THEN apply_font_style(stream, FontOrder[n]) ELSE << >>])
               \in Seq(FontTokens)
<1> DEFINE f == [n \in 1..8 |->
               IF FontOrder[n] \in styles THEN apply_font_style(stream, FontOrder[n]) ELSE << >>]
<1>1. << >> \in Seq(FontTokens)
  BY EmptySeq
<1>2. ASSUME NEW n \in 1..8 PROVE f[n] \in Seq(FontTokens)
  <2>1. FontOrder[n] \in DOMAIN FontCodes
    BY DEF FontOrder, FontCodes
  <2>2. FontCodes[FontOrder[n]] \in FontTokens
    BY <2>1 DEF FontTokens, Range
  <2>3. <<FontCodes[FontOrder[n]]>> \in Seq(FontTokens)
    BY <2>2
  <2>4. apply_font_style(stream, FontOrder[n]) \in Seq(FontTokens)
    BY <1>1, <2>3 DEF apply_font_style, Emit
  <2> QED BY <1>1, <2>4
<1>3. f \in [1..8 -> Seq(FontTokens)]
  BY <1>2
<1>4. f \in Seq(Seq(FontTokens))
  <2> HIDE DEF f
  <2> QED BY <1>3, TupleSeq
<1> QED BY <1>4, FlattenType


LEMMA NoStyles ==
    ASSUME NEW stream
    PROVE  FlattenSeq([n \in 1..8 |->
               IF FontOrder[n] \in {} THEN apply_font_style(stream, FontOrder[n]) ELSE << >>])
               = << >>
<1> DEFINE f == [n \in 1..8 |-> << >>]
<1>1. f \in [1..8 -> Seq({})]
  BY EmptySeq
<1>2. f \in Seq(Seq({}))
  <2> HIDE DEF f
  <2> QED BY <1>1, TupleSeq
<1> HIDE DEF f
<1>3. FlattenSeq(f) \in Seq({})
  BY <1>2, FlattenType
<1>4. FlattenSeq(f) = << >>
  BY <1>3
<1> QED BY <1>4 DEF f

\* What goes to a stream before a text and after it.
LEMMA ElementStyle ==
    ASSUME NEW stream, NEW foreground \in Color, NEW background \in Color, NEW styles
    PROVE  /\ apply_element_style(stream, foreground, background, {}) \in Seq(ColorTokens)
           /\ apply_element_style(stream, foreground, background, styles)
                  \in Seq(FontTokens \cup ColorTokens)
           /\ reset(stream) \in Seq({ResetCode})
<1> DEFINE colors == apply_foreground_color(stream, foreground)
                         \o apply_background_color(stream, background)
           fonts(st) == FlattenSeq([n \in 1..8 |->
               IF FontOrder[n] \in st THEN apply_font_style(stream, FontOrder[n]) ELSE << >>])
<1>1. colors \in Seq(ColorTokens)
  BY ColorCodes, ConcatProperties
<1>2. fonts(styles) \in Seq(FontTokens) /\ fonts({}) = << >>
  BY StyleCodes, NoStyles
<1>3. /\ apply_element_style(stream, foreground, background, styles) = colors \o fonts(styles)
      /\ apply_element_style(stream, foreground, background, {}) = colors \o fonts({})
  BY DEF apply_element_style
<1> HIDE DEF colors, fonts
<1>4. colors \o fonts({}) \in Seq(ColorTokens)
  BY <1>1, <1>2, ConcatEmptySeq
<1>5. colors \in Seq(FontTokens \cup ColorTokens) /\ fonts(styles) \in Seq(FontTokens \cup ColorTokens)
  BY <1>1, <1>2, Widened
<1>6. colors \o fonts(styles) \in Seq(FontTokens \cup ColorTokens)
  BY <1>5, ConcatProperties
<1>7. reset(stream) \in Seq({ResetCode})
  <2>1. <<ResetCode>> \in Seq({ResetCode}) /\ << >> \in Seq({ResetCode})
    OBVIOUS
  <2> QED BY <2>1 DEF reset, Emit
<1> QED BY <1>3, <1>4, <1>6, <1>7

\* To a stream that is no terminal, nothing goes.
LEMMA PlainStream ==
    ASSUME NEW stream, ~is_colorized(stream), NEW foreground, NEW background, NEW styles
    PROVE  /\ apply_element_style(stream, foreground, background, styles) = << >>
           /\ reset(stream) = << >>
<1>1. /\ apply_foreground_color(stream, foreground) = << >>
      /\ apply_background_color(stream, background) = << >>
      /\ \A n \in 1..8 : apply_font_style(stream, FontOrder[n]) = << >>
      /\ reset(stream) = << >>
  BY DEF apply_foreground_color, apply_background_color, apply_font_style, reset, Emit
<1> DEFINE f == [n \in 1..8 |->
               IF FontOrder[n] \in styles THEN apply_font_style(stream, FontOrder[n]) ELSE << >>]
           g == [n \in 1..8 |->
               IF FontOrder[n] \in {} THEN apply_font_style(stream, FontOrder[n]) ELSE << >>]
<1>2. f = g
  <2>1. \A n \in 1..8 : (IF FontOrder[n] \in styles THEN apply_font_style(stream, FontOrder[n]) ELSE << >>)
                            = (IF FontOrder[n] \in {} THEN apply_font_style(stream, FontOrder[n]) ELSE << >>)
    BY <1>1
  <2> QED BY <2>1
<1>3. FlattenSeq(f) = << >>
  BY <1>2, NoStyles
<1>4. << >> \o << >> = << >>
  OBVIOUS
<1>5. apply_element_style(stream, foreground, background, styles)
          = apply_foreground_color(stream, foreground) \o apply_background_color(stream, background)
                \o FlattenSeq(f)
  BY DEF apply_element_style
<1> HIDE DEF f
<1> QED BY <1>1, <1>3, <1>4, <1>5

----------------------------------------------------------------------------
(* The lines of a cell. *)

\* A cell of format f and text s in a column of width w, which a print can wrap.
Wrappable(f, s, w) ==
    /\ f["padding_left"] \in Nat /\ f["padding_right"] \in Nat
    /\ w \in Nat
    /\ (\A i \in 1..Len(s) : s[i] # "\n") => WrapEnds(s, content_width(f, w))

\* Wrapping adds hyphens and newlines,
LEMMA WrappedType ==
    ASSUME NEW D, "\n" \in D, "-" \in D, NEW s \in Seq(D), NEW f, NEW w, Wrappable(f, s, w)
    PROVE  wrapped(f, s, w) \in Seq(D)
<1>1. DOMAIN s = 1..Len(s)
  BY LenProperties
<1>2. CASE \E n \in DOMAIN s : s[n] = "\n"
  BY <1>2 DEF wrapped
<1>3. CASE ~\E n \in DOMAIN s : s[n] = "\n"
  <2>1. WrapEnds(s, content_width(f, w))
    BY <1>1, <1>3 DEF Wrappable
  <2>2. content_width(f, w) \in Nat
    BY DEF content_width, Wrappable
  <2> QED BY <1>3, <2>1, <2>2, WrapFits DEF wrapped
<1> QED BY <1>2, <1>3

\* and what is then a line of the cell has no newline.
LEMMA LinesType ==
    ASSUME NEW D, "\n" \in D, "-" \in D, NEW s \in Seq(D), NEW f, NEW w, Wrappable(f, s, w)
    PROVE  LET lines == splitted_cell_text(f, s, w)
           IN  /\ lines \in Seq(Seq(D))
               /\ \A n \in DOMAIN lines : trimmed(f, lines[n]) \in Seq(D \ {"\n"})
<1> DEFINE lines == splitted_cell_text(f, s, w)
<1>1. PICK x : x = wrapped(f, s, w)
  OBVIOUS
<1>2. x \in Seq(D)
  BY <1>1, WrappedType
<1>3. lines = split_lines(x)
  BY <1>1 DEF splitted_cell_text
<1>4. lines \in Seq(Seq(D)) /\ \A n \in 1..Len(lines) : \E a, b : LineOf(x, a, b, lines[n])
  BY <1>2, <1>3, LinesOfText
<1> HIDE DEF lines
<1>5. DOMAIN lines = 1..Len(lines)
  BY <1>4, LenProperties
<1>6. ASSUME NEW n \in DOMAIN lines PROVE trimmed(f, lines[n]) \in Seq(D \ {"\n"})
  <2>1. PICK a, b : LineOf(x, a, b, lines[n])
    BY <1>4, <1>5
  <2>2. PICK y : y = lines[n]
    OBVIOUS
  <2>3. a \in Nat /\ b \in Nat /\ Len(x) \in Nat /\ b - 1 <= Len(x)
    BY <1>2, <2>1, LenProperties DEF LineOf
  <2>4. ASSUME NEW i \in (a + 1)..(b - 1) PROVE x[i] \in D \ {"\n"}
    <3>1. i \in 1..Len(x)
      BY <2>3
    <3>2. x[i] \in D
      BY <1>2, <3>1, ElementOfSeq
    <3> QED BY <2>1, <3>2 DEF LineOf
  <2>5. y \in Seq(D \ {"\n"})
    BY <2>1, <2>2, <2>3, <2>4, SubSeqProperties DEF LineOf
  <2>6. trimmed(f, y) \in {trim(y), trim_left(y), trim_right(y), y}
    BY DEF trimmed
  <2> QED BY <2>2, <2>5, <2>6, Trim, TrimLeft, TrimRight
<1> QED BY <1>4, <1>6 DEF lines

----------------------------------------------------------------------------
(* The sheet of which a print knows everything. *)

\* Every member a print reads has a value.
FullFormat(f) ==
    /\ \A m \in PaddingMembers : f[m] \in Nat
    /\ f["height"] \in Nat \cup {NoValue}
    /\ f["font_align"] \in FontAlign
    /\ \A m \in ColorMembers : f[m] \in Color
    /\ \A m \in TextMembers : f[m] \in BorderValues

Full(u) ==
    /\ Padded(u)
    /\ \A p \in Positions(u) : FullFormat(u.cells[p[1]][p[2]])

LEMMA SettledFull ==
    ASSUME NEW u, WellFormed(u)
    PROVE  Full(Settled(u))
<1> DEFINE v == Settled(u)
<1>1. WellFormed(v) /\ v.text = u.text
  BY SettledLooks DEF Looked
<1>2. Positions(v) = Positions(u)
  BY <1>1 DEF Positions, estimate_num_columns
<1>3. ASSUME NEW p \in Positions(u), NEW m \in TypedMembers
      PROVE  /\ v.cells[p[1]][p[2]][m] \in TypeOf(m) \cup {NoValue}
             /\ m \notin SizeMembers => v.cells[p[1]][p[2]][m] \in TypeOf(m)
  <2>1. m \in Members /\ m # "font_style"
    BY TypedAreMembers
  <2>2. v.cells[p[1]][p[2]][m] = ShownAt(u, p, m) /\ v.cells[p[1]][p[2]] \in Formats
    BY <2>1, SettledLooks DEF Look
  <2>3. v.cells[p[1]][p[2]][m] \in TypeOf(m) \cup {NoValue}
    BY <2>2, FormatType DEF Typed
  <2>4. ASSUME m \notin SizeMembers PROVE v.cells[p[1]][p[2]][m] # NoValue
    <3>1. u.table[m] # NoValue
      BY <2>1, <2>4 DEF WellFormed, Members
    <3> QED BY <2>1, <2>2, <3>1 DEF ShownAt, Shown
  <2> QED BY <2>3, <2>4
<1>4. ASSUME NEW p \in Positions(u) PROVE FullFormat(v.cells[p[1]][p[2]])
  <2>1. PaddingMembers \subseteq TypedMembers /\ \A m \in PaddingMembers : m \notin SizeMembers /\ TypeOf(m) = Nat
    BY TypeOfMember DEF TypedMembers, Sizes, SizeMembers, PaddingMembers
  <2>2. "height" \in TypedMembers /\ TypeOf("height") = Nat
    BY TypeOfMember DEF TypedMembers, Sizes, SizeMembers
  <2>3. "font_align" \in TypedMembers /\ "font_align" \notin SizeMembers
    BY DEF TypedMembers, SizeMembers
  <2>4. ColorMembers \subseteq TypedMembers /\ \A m \in ColorMembers : m \notin SizeMembers /\ TypeOf(m) = Color
    BY TypeOfMember DEF TypedMembers, Sizes
  <2>5. TextMembers \subseteq TypedMembers /\ \A m \in TextMembers : m \notin SizeMembers /\ TypeOf(m) = BorderValues
    BY TypeOfMember DEF TypedMembers, Sizes
  <2> HIDE DEF v
  <2> QED BY <1>3, <1>4, <2>1, <2>2, <2>3, <2>4, <2>5, TypeOfMember DEF FullFormat
<1>5. Padded(v)
  BY SettledPadded
<1> HIDE DEF v
<1> QED BY <1>2, <1>4, <1>5 DEF Full, v

LEMMA FullCells ==
    ASSUME NEW u, Full(u), NEW i \in 1..Len(u.text), NEW j \in 1..estimate_num_columns(u)
    PROVE  /\ u.text[i][j] \in Texts
           /\ FullFormat(u.cells[i][j])
           /\ column_width(u, j) \in Nat
<1> DEFINE p == <<i, j>>
<1>1. Padded(u) /\ p \in Positions(u) /\ p[1] = i /\ p[2] = j
  BY DEF Full, Positions
<1>2. FullFormat(u.cells[i][j])
  <2> HIDE DEF p
  <2> QED BY <1>1 DEF Full
<1> QED BY <1>1, <1>2, PaddedCells, ColumnWidth

\* Every cell of the sheet can be wrapped in its column.
Returns(u) ==
    \A i \in 1..Len(u.text), j \in 1..estimate_num_columns(u) :
        Wrappable(u.cells[i][j], u.text[i][j], column_width(u, j))

LEMMA ReturnsUnlessHangs ==
    ASSUME NEW u, Full(u), ~PrintHangs(u)
    PROVE  Returns(u)
<1> SUFFICES ASSUME NEW i \in 1..Len(u.text), NEW j \in 1..estimate_num_columns(u)
             PROVE  Wrappable(u.cells[i][j], u.text[i][j], column_width(u, j))
  BY DEF Returns
<1>1. u.text[i][j] \in Texts /\ FullFormat(u.cells[i][j]) /\ column_width(u, j) \in Nat
  BY FullCells
<1>2. WellFormed(u)
  BY DEF Full, Padded
<1>3. i \in DOMAIN u.text /\ j \in DOMAIN u.text[i]
  <2>1. u.text \in Seq(Seq(Texts)) /\ Len(u.text[i]) = estimate_num_columns(u)
    BY <1>2, WellFormedRows
  <2> DEFINE S == Seq(Texts)
  <2>2. u.text \in Seq(S)
    BY <2>1
  <2> HIDE DEF S
  <2>3. u.text[i] \in S /\ DOMAIN u.text = 1..Len(u.text)
    BY <2>2, ElementOfSeq, LenProperties
  <2>4. DOMAIN u.text[i] = 1..Len(u.text[i])
    BY <2>3, LenProperties DEF S
  <2> QED BY <2>1, <2>3, <2>4
<1>4. PICK s \in Texts : s = u.text[i][j]
  BY <1>1
<1>5. PICK f : f = u.cells[i][j]
  OBVIOUS
<1>6. PICK w \in Nat : w = column_width(u, j)
  BY <1>1
<1>7. DOMAIN s = 1..Len(s)
  BY LenProperties DEF Texts
<1>8. ~((\A n \in DOMAIN s : s[n] # "\n") /\ ~WrapEnds(s, content_width(f, w)))
  BY <1>3, <1>4, <1>5, <1>6, Zenon DEF PrintHangs
<1>9. "padding_left" \in PaddingMembers /\ "padding_right" \in PaddingMembers
  BY DEF PaddingMembers
<1>10. Wrappable(f, s, w)
  BY <1>1, <1>5, <1>7, <1>8, <1>9 DEF Wrappable, FullFormat
<1> QED BY <1>4, <1>5, <1>6, <1>10

LEMMA Widths ==
    ASSUME NEW u, Full(u), u.text # << >>
    PROVE  \A j \in 1..estimate_num_columns(u) : column_widths(u)[j] = column_width(u, j)
<1> DEFINE k == estimate_num_columns(u)
           g == [j \in 1..k |-> column_width(u, j)]
<1>1. k \in Nat /\ Len(u.text) \in Nat /\ 1 \in 1..Len(u.text)
  <2>1. WellFormed(u)
    BY DEF Full, Padded
  <2>2. u.text \in Seq(Seq(Texts)) /\ k \in Nat
    BY <2>1, WellFormedRows
  <2> QED BY <2>2, EmptySeq
<1>2. \A j \in 1..k : column_width(u, j) \in Nat
  BY <1>1, FullCells
<1>3. g \in [1..k -> Nat]
  BY <1>2
<1>4. column_widths(u) = SubSeq(g, 1, k)
  BY DEF column_widths, Tuple
<1>5. column_widths(u) = g
  <2> HIDE DEF g, k
  <2> QED BY <1>1, <1>3, <1>4, TupleSeq
<1> QED BY <1>5

LEMMA CellHeight ==
    ASSUME NEW f, FullFormat(f), NEW s \in Texts, NEW w, Wrappable(f, s, w)
    PROVE  get_cell_height(f, s, w) \in Nat
<1>1. PICK x : x = wrapped(f, s, w)
  OBVIOUS
<1>2. x \in Seq(Characters)
  <2>1. "\n" \in Characters /\ "-" \in Characters
    BY Zenon, MarksAreCharacters DEF Marks
  <2> QED BY <1>1, <2>1, WrappedType DEF Texts
<1> DEFINE breaks == {n \in DOMAIN x : x[n] = "\n"}
<1>3. Cardinality(breaks) \in Nat
  <2>1. Len(x) \in Nat /\ breaks \in SUBSET (0..Len(x))
    BY <1>2, LenProperties
  <2> HIDE DEF breaks
  <2> QED BY <2>1, FiniteNumbers
<1>4. f["padding_top"] \in Nat /\ f["padding_bottom"] \in Nat
  BY DEF FullFormat, PaddingMembers
<1>5. get_cell_height(f, s, w)
          = f["padding_top"] + Cardinality(breaks)
                + (IF x # << >> /\ Last(x) # "\n" THEN 1 ELSE 0) + f["padding_bottom"]
  BY <1>1 DEF get_cell_height
<1> HIDE DEF breaks
<1> QED BY <1>3, <1>4, <1>5

\* The larger of two numbers.
LEMMA Larger ==
    ASSUME NEW a \in Nat, NEW b \in Nat
    PROVE  Max({a, b}) \in Nat /\ a <= Max({a, b}) /\ b <= Max({a, b})
<1> DEFINE m == a + b
           S == {a, b}
<1>1. m \in Nat /\ S \in SUBSET (0..m) /\ S # {} /\ a \in S /\ b \in S /\ \A x \in S : x \in Nat
  OBVIOUS
<1> HIDE DEF m, S
<1>2. Max(S) \in S /\ \A y \in S : y <= Max(S)
  BY <1>1, Greatest
<1> QED BY <1>1, <1>2 DEF S

LEMMA RowHeight ==
    ASSUME NEW u, Full(u), Returns(u), NEW i \in 1..Len(u.text)
    PROVE  /\ row_height(u, i, column_widths(u)) \in Nat
           /\ \A j \in 1..estimate_num_columns(u) :
                 get_cell_height(u.cells[i][j], u.text[i][j], column_width(u, j))
                     <= row_height(u, i, column_widths(u))
<1> DEFINE k == estimate_num_columns(u)
           H(j) == u.cells[i][j]["height"]
           I == {j \in 1..k : H(j) # NoValue}
           g == [j \in 1..k |-> IF H(j) # NoValue THEN H(j) ELSE 0]
           h == [j \in 1..k |-> get_cell_height(u.cells[i][j], u.text[i][j], column_width(u, j))]
<1>1. k \in Nat /\ DOMAIN u.cells[i] = 1..k /\ u.text # << >>
  <2>1. WellFormed(u)
    BY DEF Full, Padded
  <2>2. u.cells[i] \in Seq(Formats) /\ Len(u.cells[i]) = k /\ k \in Nat
    BY <2>1, WellFormedRows
  <2>3. u.text # << >>
    BY EmptySeq
  <2> QED BY <2>2, <2>3, LenProperties
<1>2. ASSUME NEW j \in 1..k PROVE g[j] \in Nat /\ h[j] \in Nat
  <2>1. /\ u.text[i][j] \in Texts /\ FullFormat(u.cells[i][j])
        /\ Wrappable(u.cells[i][j], u.text[i][j], column_width(u, j))
    BY FullCells DEF Returns
  <2>2. H(j) \in Nat \cup {NoValue}
    BY <2>1 DEF FullFormat
  <2>3. get_cell_height(u.cells[i][j], u.text[i][j], column_width(u, j)) \in Nat
    BY <2>1, CellHeight
  <2> QED BY <2>2, <2>3
<1>3. g \in [1..k -> Nat] /\ h \in [1..k -> Nat]
  <2> HIDE DEF k
  <2> QED BY <1>2
<1>4. get_configured_height(u, i) \in Nat
  <2>1. get_configured_height(u, i) = Max({0} \cup {H(j) : j \in I})
    <3>1. get_configured_height(u, i) =
              Max({0} \cup {u.cells[i][j]["height"] :
                               j \in {j \in DOMAIN u.cells[i] : u.cells[i][j]["height"] # NoValue}})
      BY DEF get_configured_height
    <3>2. I = {j \in DOMAIN u.cells[i] : u.cells[i][j]["height"] # NoValue}
      <4> HIDE DEF k
      <4> QED BY <1>1
    <3> HIDE DEF I
    <3> QED BY <3>1, <3>2
  <2>2. {H(j) : j \in I} = {g[j] : j \in I}
    <3>1. \A j \in I : g[j] = H(j)
      OBVIOUS
    <3> HIDE DEF g, I, H
    <3> QED BY <3>1
  <2>3. I \in SUBSET (1..k)
    OBVIOUS
  <2>4. g \in [1..k -> Nat]
    BY <1>3
  <2>5. k \in Nat
    BY <1>1
  <2> HIDE DEF g, h, I, H, k
  <2>6. Max({0} \cup {g[j] : j \in I}) \in Nat
    BY Zenon, <2>3, <2>4, <2>5, GreatestOf
  <2> QED BY Zenon, <2>1, <2>2, <2>6
<1>5. /\ get_computed_height(u, i, column_widths(u)) \in Nat
      /\ \A j \in 1..k : h[j] <= get_computed_height(u, i, column_widths(u))
  <2>1. \A j \in 1..k : column_widths(u)[j] = column_width(u, j)
    BY <1>1, Widths
  <2>2. {get_cell_height(u.cells[i][j], u.text[i][j], column_widths(u)[j]) : j \in DOMAIN u.cells[i]}
            = {h[j] : j \in 1..k}
    <3> HIDE DEF k
    <3> QED BY <1>1, <2>1
  <2>3. get_computed_height(u, i, column_widths(u)) = Max({0} \cup {h[j] : j \in 1..k})
    <3> HIDE DEF h, k
    <3> QED BY <2>2 DEF get_computed_height
  <2>4. 1..k \in SUBSET (1..k)
    OBVIOUS
  <2> HIDE DEF h, k
  <2> QED BY ZenonT(30), <1>1, <1>3, <2>3, <2>4, GreatestOf
<1>6. \A j \in 1..k : h[j] = get_cell_height(u.cells[i][j], u.text[i][j], column_width(u, j))
  OBVIOUS
<1>7. PICK a \in Nat : a = get_configured_height(u, i)
  BY <1>4
<1>8. PICK b \in Nat : b = get_computed_height(u, i, column_widths(u))
  BY <1>5
<1>9. row_height(u, i, column_widths(u)) = Max({a, b})
  BY <1>7, <1>8 DEF row_height
<1>10. Max({a, b}) \in Nat /\ b <= Max({a, b})
  BY Larger
<1>11. ASSUME NEW j \in 1..k PROVE h[j] <= Max({a, b})
  <2>1. h[j] \in Nat /\ h[j] <= b
    BY <1>2, <1>5, <1>8
  <2> HIDE DEF h
  <2> QED BY <1>10, <2>1
<1> HIDE DEF h
<1> QED BY <1>6, <1>9, <1>10, <1>11

----------------------------------------------------------------------------
(* A print is put together from its pieces. *)

\* The pieces between the texts of the cells.
Framing(P, stream) ==
    /\ newline(stream) \in P
    /\ \A s \in Seq({" "}) : s \in P
    /\ \A foreground, background \in Color : \A s \in BorderValues \cup {<<" ">>} :
           Styled(stream, foreground, background, s) \in P

\* What is printed of a cell in a line of its row, x between the borders.
Piece(stream, f, x) ==
    apply_element_style(stream, f["font_color"], f["font_background_color"], {})
        \o x \o reset(stream)

\* The pieces of a cell.
Containing(P, stream, f, lines, w) ==
    /\ Piece(stream, f, Spaces(w)) \in P
    /\ \A n \in DOMAIN lines :
           LET x == print_content(stream, f, trimmed(f, lines[n]), w)
           IN  x \in Seq(Tokens) /\ Piece(stream, f, x) \in P

LEMMA StyledPiece ==
    ASSUME NEW P, NEW stream, Framing(P, stream), NEW f, FullFormat(f),
           NEW a \in ColorMembers, NEW b \in ColorMembers, NEW s \in BorderValues \cup {<<" ">>}
    PROVE  Styled(stream, f[a], f[b], s) \in P
BY Zenon DEF Framing, FullFormat

\* The members a print reads.
LEMMA PrintedMembers ==
    /\ {"font_color", "font_background_color", "column_separator_color",
        "column_separator_background_color", "border_left_color", "border_right_color",
        "border_top_color", "border_bottom_color", "border_left_background_color",
        "border_right_background_color", "border_top_background_color",
        "border_bottom_background_color", "corner_top_left_color", "corner_top_right_color",
        "corner_bottom_left_color", "corner_bottom_right_color",
        "corner_top_left_background_color", "corner_top_right_background_color",
        "corner_bottom_left_background_color", "corner_bottom_right_background_color"}
            \subseteq ColorMembers
    /\ {"border_left", "border_right", "border_top", "border_bottom", "corner_top_left",
        "corner_top_right", "corner_bottom_left", "corner_bottom_right", "column_separator"}
            \subseteq TextMembers
    /\ << >> \in BorderValues
BY DEF ColorMembers, TextMembers, BorderColors, BorderBackgrounds, CornerColors,
       CornerBackgrounds, BorderTexts, CornerTexts, BorderValues

LEMMA Regrouped ==
    \A a, b, c, d \in Seq(Tokens) : a \o b \o c \o d = a \o (b \o c \o d)
<1> TAKE a, b, c, d \in Seq(Tokens)
<1> QED BY SMTT(40)

LEMMA CellLine ==
    ASSUME NEW P, Language(P), NEW stream, Framing(P, stream), NEW f, FullFormat(f),
           NEW w \in Nat, NEW lines, Containing(P, stream, f, lines, w),
           NEW j, NEW n, NEW k
    PROVE  print_row_in_cell(stream, f, j, n, w, k, lines) \in P
<1>1. P \subseteq Seq(Tokens) /\ << >> \in P /\ \A a, b \in P : a \o b \in P
  BY DEF Language
<1>2. /\ f["font_color"] \in Color /\ f["font_background_color"] \in Color
      /\ f["border_left"] \in BorderValues /\ f["border_right"] \in BorderValues
      /\ f["column_separator"] \in BorderValues
  BY PrintedMembers DEF FullFormat
<1>3. PICK a : a = IF f["show_border_left"]
                   THEN Styled(stream, f["border_left_color"], f["border_left_background_color"],
                               f["border_left"])
                   ELSE << >>
  OBVIOUS
<1>4. PICK b : b = IF f["show_column_separator"]
                   THEN Styled(stream, f["column_separator_color"],
                               f["column_separator_background_color"],
                               IF j # 1 THEN f["column_separator"] ELSE << >>)
                   ELSE << >>
  OBVIOUS
<1>5. PICK c : c = apply_element_style(stream, f["font_color"], f["font_background_color"], {})
  OBVIOUS
<1>6. PICK m : m = IF k - f["padding_top"] \in DOMAIN lines
                   THEN print_content(stream, f, trimmed(f, lines[k - f["padding_top"]]), w)
                   ELSE Spaces(w)
  OBVIOUS
<1>7. PICK r : r = reset(stream)
  OBVIOUS
<1>8. PICK d : d = IF j = n /\ f["show_border_right"]
                   THEN Styled(stream, f["border_right_color"], f["border_right_background_color"],
                               f["border_right"])
                   ELSE << >>
  OBVIOUS
<1>9. print_row_in_cell(stream, f, j, n, w, k, lines) = a \o b \o c \o m \o r \o d
  BY Zenon, <1>3, <1>4, <1>5, <1>6, <1>7, <1>8 DEF print_row_in_cell
<1>10. a \in P /\ b \in P /\ d \in P
  BY Zenon, <1>1, <1>2, <1>3, <1>4, <1>8, PrintedMembers, StyledPiece
<1>11. c \in Seq(Tokens) /\ r \in Seq(Tokens)
  <2>1. ColorTokens \subseteq Tokens /\ {ResetCode} \subseteq Tokens
    BY TokensAre DEF Tokens
  <2>2. c \in Seq(ColorTokens) /\ r \in Seq({ResetCode})
    BY <1>2, <1>5, <1>7, ElementStyle
  <2> QED BY <2>1, <2>2, Widened
<1>12. m \in Seq(Tokens) /\ c \o m \o r \in P
  <2>0. \A x : Piece(stream, f, x) = c \o x \o r
    BY <1>5, <1>7 DEF Piece
  <2>1. Spaces(w) \in Seq(Tokens)
    <3>1. {" "} \subseteq Tokens
      BY Zenon, MarksAreCharacters DEF Tokens, Marks
    <3>2. Spaces(w) \in Seq({" "})
      <4>1. w \in Int
        OBVIOUS
      <4> QED BY Zenon, <4>1, SpacesAre
    <3> QED BY Zenon, <3>1, <3>2, Widened
  <2>2. CASE k - f["padding_top"] \in DOMAIN lines
    <3>1. m = print_content(stream, f, trimmed(f, lines[k - f["padding_top"]]), w)
      BY <1>6, <2>2
    <3>2. m \in Seq(Tokens) /\ Piece(stream, f, m) \in P
      BY Zenon, <2>2, <3>1 DEF Containing
    <3> QED BY <2>0, <3>2
  <2>3. CASE ~(k - f["padding_top"] \in DOMAIN lines)
    <3>1. m = Spaces(w)
      BY <1>6, <2>3
    <3> QED BY <2>0, <2>1, <3>1 DEF Containing
  <2> QED BY <2>2, <2>3
<1>13. a \o b \in P /\ a \o b \in Seq(Tokens)
  BY <1>1, <1>10
<1>14. a \o b \o c \o m \o r = (a \o b) \o (c \o m \o r)
  <2> DEFINE Groups(x, y, z, e) == x \o y \o z \o e = x \o (y \o z \o e)
  <2>1. \A x, y, z, e \in Seq(Tokens) : Groups(x, y, z, e)
    BY Zenon, Regrouped
  <2>2. Groups(a \o b, c, m, r)
    <3> HIDE DEF Groups
    <3> QED BY Zenon, <1>11, <1>12, <1>13, <2>1
  <2> QED BY Zenon, <2>2
<1>15. a \o b \o c \o m \o r \in P
  BY <1>1, <1>12, <1>13, <1>14
<1> QED BY Zenon, <1>1, <1>9, <1>10, <1>15

LEMMA CellTop ==
    ASSUME NEW P, Language(P), NEW stream, Framing(P, stream), NEW f, FullFormat(f),
           NEW w \in Nat, NEW i, NEW j, NEW n
    PROVE  print_cell_border_top(stream, f, i, j, n, w) \in P
<1> DEFINE shown(s) == IF f["show_row_separator"] /\ i = 1 THEN <<" ">> ELSE s
<1>1. P \subseteq Seq(Tokens) /\ << >> \in P /\ \A a, b \in P : a \o b \in P
  BY DEF Language
<1>2. /\ shown(f["corner_top_left"]) \in BorderValues \cup {<<" ">>}
      /\ shown(f["border_top"]) \in BorderValues \cup {<<" ">>}
      /\ shown(f["corner_top_right"]) \in BorderValues \cup {<<" ">>}
  BY Zenon, PrintedMembers DEF FullFormat
<1>3. PICK a : a = Styled(stream, f["corner_top_left_color"],
                          f["corner_top_left_background_color"], shown(f["corner_top_left"]))
  BY Zenon
<1>4. PICK b : b = Styled(stream, f["border_top_color"], f["border_top_background_color"],
                          shown(f["border_top"]))
  BY Zenon
<1>5. PICK c : c = IF j = n
                   THEN Styled(stream, f["corner_top_right_color"],
                               f["corner_top_right_background_color"],
                               shown(f["corner_top_right"]))
                   ELSE << >>
  BY Zenon
<1>6. a \in P /\ b \in P /\ c \in P
  <2> HIDE DEF shown
  <2> QED BY Zenon, <1>1, <1>2, <1>3, <1>4, <1>5, PrintedMembers, StyledPiece
<1> DEFINE x == FlattenSeq([k \in 1..w |-> b])
<1>7. x \in P
  <2>1. [k \in 1..w |-> b] \in [1..w -> P]
    BY <1>6
  <2> QED BY <2>1, Joined
<1>8. print_cell_border_top(stream, f, i, j, n, w) = << >> \/ print_cell_border_top(stream, f, i, j, n, w) = a \o x \o c
  BY Zenon, <1>3, <1>4, <1>5 DEF print_cell_border_top, Join
<1>9. a \o x \o c \in P
  <2> HIDE DEF x
  <2> QED BY <1>1, <1>6, <1>7
<1> HIDE DEF x
<1> QED BY Zenon, <1>1, <1>8, <1>9

LEMMA CellBottom ==
    ASSUME NEW P, Language(P), NEW stream, Framing(P, stream), NEW f, FullFormat(f),
           NEW w \in Nat, NEW j, NEW n
    PROVE  print_cell_border_bottom(stream, f, j, n, w) \in P
<1>1. P \subseteq Seq(Tokens) /\ << >> \in P /\ \A a, b \in P : a \o b \in P
  BY DEF Language
<1>2. /\ f["corner_bottom_left"] \in BorderValues /\ f["border_bottom"] \in BorderValues
      /\ f["corner_bottom_right"] \in BorderValues
  BY PrintedMembers DEF FullFormat
<1>3. PICK a : a = Styled(stream, f["corner_bottom_left_color"],
                          f["corner_bottom_left_background_color"], f["corner_bottom_left"])
  OBVIOUS
<1>4. PICK b : b = Styled(stream, f["border_bottom_color"], f["border_bottom_background_color"],
                          f["border_bottom"])
  OBVIOUS
<1>5. PICK c : c = IF j = n
                   THEN Styled(stream, f["corner_bottom_right_color"],
                               f["corner_bottom_right_background_color"],
                               f["corner_bottom_right"])
                   ELSE << >>
  OBVIOUS
<1>6. a \in P /\ b \in P /\ c \in P
  BY Zenon, <1>1, <1>2, <1>3, <1>4, <1>5, PrintedMembers, StyledPiece
<1> DEFINE x == FlattenSeq([k \in 1..w |-> b])
<1>7. x \in P
  <2>1. [k \in 1..w |-> b] \in [1..w -> P]
    BY <1>6
  <2> QED BY <2>1, Joined
<1>8. print_cell_border_bottom(stream, f, j, n, w) = << >> \/ print_cell_border_bottom(stream, f, j, n, w) = a \o x \o c
  BY <1>3, <1>4, <1>5 DEF print_cell_border_bottom, Join
<1>9. a \o x \o c \in P
  <2> HIDE DEF x
  <2> QED BY <1>1, <1>6, <1>7
<1> HIDE DEF x
<1> QED BY Zenon, <1>1, <1>8, <1>9

\* All that is known of a sheet whose cells are printed in P.
Printable(P, stream, u) ==
    /\ Language(P) /\ Framing(P, stream)
    /\ Full(u) /\ Returns(u)
    /\ \A i \in 1..Len(u.text), j \in 1..estimate_num_columns(u) :
           Containing(P, stream, u.cells[i][j],
                      splitted_cell_text(u.cells[i][j], u.text[i][j], column_width(u, j)),
                      column_width(u, j))

LEMMA Columns ==
    ASSUME NEW u, Full(u), u.text # << >>
    PROVE  /\ estimate_num_columns(u) \in Nat
           /\ \A j \in 1..estimate_num_columns(u) :
                 column_widths(u)[j] = column_width(u, j) /\ column_width(u, j) \in Nat
<1>1. WellFormed(u)
  BY DEF Full, Padded
<1>2. estimate_num_columns(u) \in Nat /\ Len(u.text) \in Nat /\ 1 \in 1..Len(u.text)
  <2>1. u.text \in Seq(Seq(Texts)) /\ estimate_num_columns(u) \in Nat
    BY <1>1, WellFormedRows
  <2> QED BY <2>1, EmptySeq
<1>3. \A j \in 1..estimate_num_columns(u) : column_width(u, j) \in Nat
  BY <1>2, FullCells
<1> QED BY <1>2, <1>3, Widths

\* The border above a row and the one below it,
LEMMA BordersPrinted ==
    ASSUME NEW P, Language(P), NEW stream, Framing(P, stream), NEW u, Full(u),
           NEW i \in 1..Len(u.text), u.text # << >>
    PROVE  /\ print_top(stream, u, i, column_widths(u)) \in P
           /\ print_bottom(stream, u, i, column_widths(u)) \in P
<1> DEFINE n == estimate_num_columns(u)
           widths == column_widths(u)
           Top(j) == print_cell_border_top(stream, u.cells[i][j], i, j, n, widths[j])
           Bottom(j) == print_cell_border_bottom(stream, u.cells[i][j], j, n, widths[j])
<1>1. Language(P) /\ Framing(P, stream) /\ Full(u)
  OBVIOUS
<1>2. << >> \in P /\ newline(stream) \in P /\ \A a, b \in P : a \o b \in P
  BY Zenon, <1>1 DEF Language, Framing
<1>3. n \in Nat /\ \A j \in 1..n : widths[j] \in Nat
  BY <1>1, Columns
<1>4. ASSUME NEW j \in 1..n PROVE Top(j) \in P /\ Bottom(j) \in P
  <2>1. FullFormat(u.cells[i][j])
    BY <1>1, FullCells
  <2> HIDE DEF widths, n
  <2> QED BY <1>1, <1>3, <2>1, CellTop, CellBottom
<1>5. Join(n, Top) \in P /\ Join(n, Bottom) \in P
  <2>1. [j \in 1..n |-> Top(j)] \in [1..n -> P] /\ [j \in 1..n |-> Bottom(j)] \in [1..n -> P]
    <3> HIDE DEF Top, Bottom, n
    <3> QED BY <1>4
  <2> HIDE DEF Top, Bottom, n
  <2> QED BY <1>1, <1>3, <2>1, Joined DEF Join
<1> DEFINE Above == IF \A j \in 1..n : has_border_top(u.cells[i][j]) THEN newline(stream) ELSE << >>
           Below == IF \A j \in 1..n : u.cells[i][j]["corner_bottom_left"] # << >>
                                       \/ u.cells[i][j]["border_bottom"] # << >>
                    THEN newline(stream) ELSE << >>
<1>6. Above \in P /\ Below \in P
  <2> HIDE DEF n
  <2> QED BY <1>2
<1>7. print_top(stream, u, i, widths) = Join(n, Top) \o Above
  BY Zenon DEF print_top
<1>8. print_bottom(stream, u, i, widths) = Below \o Join(n, Bottom)
  BY Zenon DEF print_bottom
<1> HIDE DEF n, Top, Bottom, Above, Below
<1> QED BY Zenon, <1>2, <1>5, <1>6, <1>7, <1>8

\* Line k of row i.
PrintedLine(stream, u, i, k) ==
    LET n    == estimate_num_columns(u)
        text == Tuple(n, LAMBDA j : splitted_cell_text(u.cells[i][j], u.text[i][j],
                                                       column_widths(u)[j]))
    IN  Join(n, LAMBDA j : print_row_in_cell(stream, u.cells[i][j], j, n, column_widths(u)[j],
                                             k, text[j]))

\* a line of a row,
LEMMA LinePrinted ==
    ASSUME NEW P, NEW stream, NEW u, Printable(P, stream, u), NEW i \in 1..Len(u.text),
           u.text # << >>, NEW k
    PROVE  PrintedLine(stream, u, i, k) \in P
<1> DEFINE n == estimate_num_columns(u)
           widths == column_widths(u)
           Lines(j) == splitted_cell_text(u.cells[i][j], u.text[i][j], widths[j])
           text == Tuple(n, Lines)
           InCell(j) == print_row_in_cell(stream, u.cells[i][j], j, n, widths[j], k, text[j])
<1>1. Language(P) /\ Framing(P, stream) /\ Full(u)
  BY DEF Printable
<1>2. n \in Nat /\ \A j \in 1..n : widths[j] = column_width(u, j) /\ widths[j] \in Nat
  BY <1>1, Columns
<1>3. \A j \in 1..n : text[j] = Lines(j)
  <2> DEFINE g == [j \in 1..n |-> Lines(j)]
             S == {Lines(j) : j \in 1..n}
  <2>1. g \in [1..n -> S]
    <3> HIDE DEF Lines, n
    <3> QED OBVIOUS
  <2>2. text = SubSeq(g, 1, n)
    BY DEF Tuple
  <2>3. \A j \in 1..n : g[j] = Lines(j)
    <3> HIDE DEF Lines, n
    <3> QED OBVIOUS
  <2>4. text = g
    <3> HIDE DEF g, S, n, text
    <3> QED BY <1>2, <2>1, <2>2, TupleSeq
  <2> HIDE DEF g, n, text, Lines
  <2> QED BY <2>3, <2>4
<1>4. ASSUME NEW j \in 1..n PROVE InCell(j) \in P
  <2>1. FullFormat(u.cells[i][j])
    BY <1>1, FullCells
  <2>2. Containing(P, stream, u.cells[i][j], Lines(j), widths[j])
    BY Zenon, <1>2 DEF Printable
  <2>3. Containing(P, stream, u.cells[i][j], text[j], widths[j])
    <3> HIDE DEF text, Lines, widths, n
    <3> QED BY <1>3, <2>2
  <2> HIDE DEF text, Lines, widths, n
  <2> QED BY <1>1, <1>2, <2>1, <2>3, CellLine
<1>5. Join(n, InCell) \in P
  <2>1. [j \in 1..n |-> InCell(j)] \in [1..n -> P]
    <3> HIDE DEF InCell, n
    <3> QED BY <1>4
  <2> HIDE DEF InCell, n
  <2> QED BY <1>1, <1>2, <2>1, Joined DEF Join
<1> QED BY Zenon, <1>5 DEF PrintedLine

\* a row,
LEMMA RowPrinted ==
    ASSUME NEW P, NEW stream, NEW u, Printable(P, stream, u), NEW i \in 1..Len(u.text),
           u.text # << >>
    PROVE  print_row(stream, u, i, column_widths(u)) \in P
<1> DEFINE widths == column_widths(u)
           height == row_height(u, i, widths)
           Ended(k) == PrintedLine(stream, u, i, k) \o IF k < height THEN newline(stream) ELSE << >>
<1>1. Language(P) /\ Framing(P, stream) /\ Full(u) /\ Returns(u)
  BY DEF Printable
<1>2. << >> \in P /\ newline(stream) \in P /\ \A a, b \in P : a \o b \in P
  BY Zenon, <1>1 DEF Language, Framing
<1>3. \A k : PrintedLine(stream, u, i, k) \in P
  BY LinePrinted
<1>4. height \in Nat
  BY <1>1, RowHeight
<1>5. \A k \in 1..height : Ended(k) \in P
  <2> HIDE DEF height
  <2> QED BY <1>2, <1>3
<1>6. Join(height, Ended) \in P
  <2>1. [k \in 1..height |-> Ended(k)] \in [1..height -> P]
    <3> HIDE DEF Ended, height
    <3> QED BY <1>5
  <2> HIDE DEF Ended, height
  <2> QED BY <1>1, <1>4, <2>1, Joined DEF Join
<1> QED BY Zenon, <1>6 DEF print_row, PrintedLine

\* and the table.
LEMMA PrintedIn ==
    ASSUME NEW P, NEW stream, NEW u, Printable(P, stream, u)
    PROVE  print_table(stream, u) \in P
<1> DEFINE rows == Len(u.text)
           widths == column_widths(u)
           Row(i) == print_top(stream, u, i, widths) \o print_row(stream, u, i, widths)
                         \o (IF i = rows THEN print_bottom(stream, u, i, widths)
                             ELSE newline(stream))
<1>1. Language(P) /\ Framing(P, stream) /\ Full(u)
  BY DEF Printable
<1>2. << >> \in P /\ newline(stream) \in P /\ \A a, b \in P : a \o b \in P
  BY Zenon, <1>1 DEF Language, Framing
<1>3. rows \in Nat /\ (rows # 0 => u.text # << >>)
  <2>1. u.text \in Seq(Seq(Texts))
    BY <1>1, WellFormedRows DEF Full, Padded
  <2> DEFINE S == Seq(Texts)
  <2>2. u.text \in Seq(S)
    BY <2>1
  <2> HIDE DEF S
  <2> QED BY <2>2, LenProperties, EmptySeq
<1>4. ASSUME NEW i \in 1..rows PROVE Row(i) \in P
  <2>1. u.text # << >>
    BY <1>3
  <2>2. /\ print_top(stream, u, i, widths) \in P /\ print_bottom(stream, u, i, widths) \in P
        /\ print_row(stream, u, i, widths) \in P
    BY <1>1, <2>1, BordersPrinted, RowPrinted
  <2> HIDE DEF widths, rows
  <2> QED BY Zenon, <1>2, <2>2
<1>5. Join(rows, Row) \in P
  <2>1. [i \in 1..rows |-> Row(i)] \in [1..rows -> P]
    <3> HIDE DEF Row, rows
    <3> QED BY <1>4
  <2> HIDE DEF Row, rows
  <2> QED BY <1>1, <1>3, <2>1, Joined DEF Join
<1> QED BY Zenon, <1>5 DEF print_table

----------------------------------------------------------------------------
(* What is printed of a line of a cell. *)

\* How spaces on one side or on both are put together.
After(a, b, c, d) == a \o (b \o c) \o d = a \o b \o (c \o d)
Before(a, b, c, d) == a \o (b \o c) \o d = (a \o b) \o c \o d
Around(a, b, c, d, e) == a \o (b \o c \o d) \o e = (a \o b) \o c \o (d \o e)

LEMMA Sides ==
    \A a, b, c, d, e \in Seq(Tokens) : After(a, b, c, d) /\ Before(a, b, c, d) /\ Around(a, b, c, d, e)
<1> TAKE a, b, c, d, e \in Seq(Tokens)
<1>1. After(a, b, c, d)
  BY SMTT(40) DEF After
<1>2. Before(a, b, c, d)
  BY DEF Before
<1>3. Around(a, b, c, d, e)
  BY SMTT(40) DEF Around
<1> QED BY <1>1, <1>2, <1>3

\* The styled text of the line stands between spaces.
LEMMA ContentParts ==
    ASSUME NEW stream, NEW f, FullFormat(f), NEW line \in Texts, NEW w \in Nat,
           styled_content(stream, f, line) \in Seq(Tokens)
    PROVE  \E a, b \in Seq({" "}) :
               print_content(stream, f, line, w) = a \o styled_content(stream, f, line) \o b
<1>1. /\ f["padding_left"] \in Nat /\ f["padding_right"] \in Nat
      /\ f["font_align"] \in {"left", "right", "center"}
  BY DEF FullFormat, PaddingMembers, FontAlign
<1>2. num_spaces(f, line, w) \in Int
  BY <1>1, LenProperties DEF num_spaces, Length, Texts
<1>3. PICK n \in Int : n = num_spaces(f, line, w)
  BY <1>2
<1>4. PICK m \in Int : m = IF n % 2 = 0 THEN n \div 2 ELSE n \div 2 + 1
  OBVIOUS
<1>5. PICK s : s = styled_content(stream, f, line)
  OBVIOUS
<1> DEFINE T == Seq({" "})
<1>6. /\ Spaces(f["padding_left"]) \in T /\ Spaces(f["padding_right"]) \in T
      /\ Spaces(n) \in T /\ Spaces(m) \in T /\ Spaces(n - m) \in T
  <2>1. \A i \in Int : Spaces(i) \in T
    BY Zenon, SpacesAre
  <2>2. n - m \in Int /\ f["padding_left"] \in Int /\ f["padding_right"] \in Int
    BY <1>1
  <2> HIDE DEF T
  <2> QED BY <2>1, <2>2
<1>7. T \subseteq Seq(Tokens) /\ \A a, b \in T : a \o b \in T
  <2>1. {" "} \subseteq Tokens
    BY Zenon, MarksAreCharacters DEF Tokens, Marks
  <2>2. \A a, b \in T : a \o b \in T
    BY Zenon, ConcatProperties
  <2> QED BY Zenon, <2>1, <2>2, Widened
<1>8. PICK l \in T, r \in T, p \in T, q \in T, o \in T :
          /\ l = Spaces(f["padding_left"]) /\ r = Spaces(f["padding_right"])
          /\ p = Spaces(n) /\ q = Spaces(m) /\ o = Spaces(n - m)
  BY Zenon, <1>6
<1>9. s \in Seq(Tokens) /\ l \in Seq(Tokens) /\ r \in Seq(Tokens) /\ p \in Seq(Tokens)
      /\ q \in Seq(Tokens) /\ o \in Seq(Tokens)
  <2> HIDE DEF T
  <2> QED BY Zenon, <1>5, <1>7
<1> DEFINE Split(x) == \E a, b \in T : x = a \o s \o b
<1>10. After(l, s, p, r) /\ Before(l, p, s, r) /\ Around(l, q, s, o, r)
  BY Zenon, <1>9, Sides
<1>11. /\ l \o (s \o p) \o r = l \o s \o (p \o r)
       /\ l \o (p \o s) \o r = (l \o p) \o s \o r
       /\ l \o (q \o s \o o) \o r = (l \o q) \o s \o (o \o r)
  BY Zenon, <1>10 DEF After, Before, Around
<1>12. l \o q \in T /\ l \o p \in T /\ p \o r \in T /\ o \o r \in T
  <2> HIDE DEF T
  <2> QED BY Zenon, <1>7
<1>13. Split(l \o (s \o p) \o r) /\ Split(l \o (p \o s) \o r) /\ Split(l \o (q \o s \o o) \o r)
  <2>1. Split(l \o (s \o p) \o r)
    <3> HIDE DEF T
    <3> QED BY Zenon, <1>11, <1>12
  <2>2. Split(l \o (p \o s) \o r)
    <3> HIDE DEF T
    <3> QED BY Zenon, <1>11, <1>12
  <2>3. Split(l \o (q \o s \o o) \o r)
    <3> HIDE DEF T
    <3> QED BY Zenon, <1>11, <1>12
  <2> QED BY Zenon, <2>1, <2>2, <2>3
<1>14. print_content(stream, f, line, w) \in {l \o (s \o p) \o r, l \o (p \o s) \o r,
                                               l \o (q \o s \o o) \o r}
  <2>1. CASE f["font_align"] = "left"
    <3>1. print_content(stream, f, line, w) = l \o (s \o p) \o r
      BY Zenon, <1>3, <1>5, <1>8, <2>1 DEF print_content, print_content_left_aligned
    <3> QED BY Zenon, <3>1
  <2>2. CASE f["font_align"] = "right"
    <3>1. print_content(stream, f, line, w) = l \o (p \o s) \o r
      BY Zenon, <1>3, <1>5, <1>8, <2>2 DEF print_content, print_content_right_aligned
    <3> QED BY Zenon, <3>1
  <2>3. CASE f["font_align"] = "center"
    <3>1. print_content_center_aligned(stream, f, line, w) = q \o s \o o
      BY Zenon, <1>3, <1>4, <1>5, <1>8 DEF print_content_center_aligned
    <3>2. print_content(stream, f, line, w) = l \o (q \o s \o o) \o r
      BY Zenon, <1>8, <2>3, <3>1 DEF print_content
    <3> QED BY Zenon, <3>2
  <2> QED BY Zenon, <1>1, <2>1, <2>2, <2>3
<1>15. Split(print_content(stream, f, line, w))
  <2> HIDE DEF Split
  <2> QED BY Zenon, <1>13, <1>14
<1> QED BY Zenon, <1>5, <1>15

----------------------------------------------------------------------------
(* A terminal. *)

\* What of C stands in s is taken back before an element of E.
Closed(s, C, E) ==
    \A k \in 1..Len(s) : s[k] \in C =>
        \E r \in k..Len(s) : s[r] = ResetCode /\ \A n \in k..r : s[n] \notin E

LEMMA ClosedNone ==
    ASSUME NEW A, NEW C, NEW E, NEW s \in Seq(A), A \cap C = {}
    PROVE  Closed(s, C, E)
<1> SUFFICES ASSUME NEW k \in 1..Len(s), s[k] \in C PROVE FALSE
  BY DEF Closed
<1> QED BY ElementOfSeq

LEMMA ClosedReset ==
    ASSUME NEW A, NEW C, NEW E, NEW s \in Seq(A), A \cap E = {}, ResetCode \notin E
    PROVE  Closed(s \o <<ResetCode>>, C, E)
<1> DEFINE x == s \o <<ResetCode>>
<1>1. Len(s) \in Nat /\ \A n \in 1..Len(s) : s[n] \notin E
  BY ElementOfSeq, LenProperties
<1>2. Len(x) = Len(s) + 1 /\ x[Len(s) + 1] = ResetCode /\ \A n \in 1..Len(s) : x[n] = s[n]
  OBVIOUS
<1> HIDE DEF x
<1>3. Closed(x, C, E)
  <2> SUFFICES ASSUME NEW k \in 1..Len(x)
               PROVE  \E r \in k..Len(x) : x[r] = ResetCode /\ \A n \in k..r : x[n] \notin E
    BY DEF Closed
  <2>1. \A n \in k..(Len(s) + 1) : x[n] \notin E
    <3> TAKE n \in k..(Len(s) + 1)
    <3>1. CASE n \in 1..Len(s)
      BY <1>1, <1>2, <3>1
    <3>2. CASE n = Len(s) + 1
      BY <1>2, <3>2
    <3> QED BY <1>1, <1>2, <3>1, <3>2
  <2> QED BY <1>1, <1>2, <2>1
<1> QED BY <1>3 DEF x

LEMMA ClosedConcat ==
    ASSUME NEW C, NEW E, NEW s \in Seq(Tokens), NEW u \in Seq(Tokens),
           Closed(s, C, E), Closed(u, C, E)
    PROVE  Closed(s \o u, C, E)
<1> DEFINE x == s \o u
<1>1. Len(s) \in Nat /\ Len(u) \in Nat
  BY LenProperties
<1>2. /\ Len(x) = Len(s) + Len(u)
      /\ \A n \in 1..Len(s) : x[n] = s[n]
      /\ \A n \in 1..Len(u) : x[Len(s) + n] = u[n]
  OBVIOUS
<1> HIDE DEF x
<1>3. ASSUME NEW k \in 1..Len(x), x[k] \in C
      PROVE  \E r \in k..Len(x) : x[r] = ResetCode /\ \A n \in k..r : x[n] \notin E
  <2>1. CASE k <= Len(s)
    <3>1. s[k] \in C /\ k \in 1..Len(s)
      BY <1>1, <1>2, <1>3, <2>1
    <3>2. PICK r \in k..Len(s) : s[r] = ResetCode /\ \A n \in k..r : s[n] \notin E
      BY <3>1 DEF Closed
    <3>3. r \in k..Len(x) /\ x[r] = s[r]
      BY <1>1, <1>2, <3>2
    <3>4. \A n \in k..r : x[n] = s[n]
      BY <1>1, <1>2, <3>2
    <3> QED BY <3>2, <3>3, <3>4
  <2>2. CASE ~(k <= Len(s))
    <3>1. PICK m \in 1..Len(u) : k = Len(s) + m
      <4>1. k - Len(s) \in 1..Len(u) /\ k = Len(s) + (k - Len(s))
        BY <1>1, <1>2, <2>2
      <4> QED BY <4>1
    <3>2. u[m] \in C
      BY <1>2, <1>3, <3>1
    <3>3. PICK r \in m..Len(u) : u[r] = ResetCode /\ \A n \in m..r : u[n] \notin E
      BY <3>2 DEF Closed
    <3>4. Len(s) + r \in k..Len(x) /\ x[Len(s) + r] = u[r]
      BY <1>1, <1>2, <3>1, <3>3
    <3>5. ASSUME NEW n \in k..(Len(s) + r) PROVE x[n] \notin E
      <4>1. PICK l \in m..r : n = Len(s) + l
        <5>1. n - Len(s) \in m..r /\ n = Len(s) + (n - Len(s))
          BY <1>1, <3>1, <3>3
        <5> QED BY <5>1
      <4>2. l \in 1..Len(u) /\ u[l] \notin E
        BY <1>1, <3>3
      <4> QED BY <1>2, <4>1, <4>2
    <3> QED BY <3>3, <3>4, <3>5
  <2> QED BY <2>1, <2>2
<1> QED BY <1>3 DEF Closed, x

\* What is taken back before an element of E, and what is on a terminal: no style of
\* the font before an element of B, and no colour before the end of a line.
Kept(C, E) == {s \in Seq(Tokens) : Closed(s, C, E)}

Terminal(B) == Kept(FontTokens, B) \cap Kept(ColorTokens, {"\n"})

LEMMA KeptLanguage ==
    ASSUME NEW C, NEW E
    PROVE  Language(Kept(C, E))
<1>1. << >> \in Kept(C, E)
  <2>1. << >> \in Seq({}) /\ << >> \in Seq(Tokens)
    BY EmptySeq
  <2> QED BY <2>1, ClosedNone DEF Kept
<1>2. ASSUME NEW a \in Kept(C, E), NEW b \in Kept(C, E) PROVE a \o b \in Kept(C, E)
  <2>1. a \in Seq(Tokens) /\ b \in Seq(Tokens) /\ Closed(a, C, E) /\ Closed(b, C, E)
    BY DEF Kept
  <2>2. a \o b \in Seq(Tokens) /\ Closed(a \o b, C, E)
    BY <2>1, ConcatProperties, ClosedConcat
  <2> QED BY <2>2 DEF Kept
<1> QED BY <1>1, <1>2 DEF Language, Kept

LEMMA TerminalLanguage ==
    ASSUME NEW B
    PROVE  Language(Terminal(B))
<1>1. Language(Kept(FontTokens, B)) /\ Language(Kept(ColorTokens, {"\n"}))
  BY KeptLanguage
<1> QED BY <1>1 DEF Language, Terminal

LEMMA KeptNone ==
    ASSUME NEW A, A \subseteq Tokens, NEW C, NEW E, A \cap C = {}
    PROVE  Seq(A) \subseteq Kept(C, E)
<1> SUFFICES ASSUME NEW s \in Seq(A) PROVE s \in Kept(C, E)
  OBVIOUS
<1>1. s \in Seq(Tokens)
  BY Widened
<1> QED BY <1>1, ClosedNone DEF Kept

LEMMA KeptReset ==
    ASSUME NEW A, A \subseteq Tokens, NEW C, NEW E, A \cap E = {}, ResetCode \notin E,
           NEW s \in Seq(A)
    PROVE  s \o <<ResetCode>> \in Kept(C, E)
<1>1. s \in Seq(Tokens)
  BY Widened
<1>2. <<ResetCode>> \in Seq(Tokens)
  BY TokensAre DEF Tokens
<1>3. s \o <<ResetCode>> \in Seq(Tokens)
  BY <1>1, <1>2, ConcatProperties
<1> QED BY <1>3, ClosedReset DEF Kept

\* The borders are texts, and if a program sets none longer than a line, no print does.
LEMMA BordersAreTexts ==
    /\ BorderValues \subseteq Texts
    /\ BordersInLine => BorderValues \subseteq Seq(Characters \ {"\n"})
<1> SUFFICES ASSUME NEW s \in BorderValues
             PROVE  s \in Texts /\ (BordersInLine => s \in Seq(Characters \ {"\n"}))
  OBVIOUS
<1>1. CASE s \in {<<"-">>, <<"|">>, <<"+">>, << >>, <<"EM DASH">>}
  <2>1. /\ "-" \in Characters \ {"\n"} /\ "|" \in Characters \ {"\n"}
        /\ "+" \in Characters \ {"\n"} /\ "EM DASH" \in Characters \ {"\n"}
    BY Zenon, MarksAreCharacters DEF Marks
  <2> DEFINE D == Characters \ {"\n"}
  <2>2. s \in Seq(D)
    <3>1. "-" \in D /\ "|" \in D /\ "+" \in D /\ "EM DASH" \in D
      BY Zenon, <2>1
    <3> HIDE DEF D
    <3>2. /\ <<"-">> \in Seq(D) /\ <<"|">> \in Seq(D) /\ <<"+">> \in Seq(D)
          /\ <<"EM DASH">> \in Seq(D) /\ << >> \in Seq(D)
      BY Zenon, <3>1, Single, EmptySeq
    <3> QED BY Zenon, <1>1, <3>2
  <2>3. Characters \ {"\n"} \subseteq Characters
    OBVIOUS
  <2> QED BY <2>2, <2>3, Widened DEF Texts
<1>2. CASE s \notin {<<"-">>, <<"|">>, <<"+">>, << >>, <<"EM DASH">>}
  <2>0. s \in Borders
    BY Zenon, <1>2 DEF BorderValues
  <2>1. PICK p \in DOMAIN Programs :
            s \in {Programs[p].calls[k].value :
                       k \in {k \in DOMAIN Programs[p].calls :
                                 Programs[p].calls[k].setter \in TextSetters}}
    BY Zenon, <2>0 DEF Borders
  <2>2. PICK k \in DOMAIN Programs[p].calls :
            Programs[p].calls[k].setter \in TextSetters /\ s = Programs[p].calls[k].value
    BY <2>1
  <2>3. s \in Seq(Letter)
    BY Zenon, <2>2, ProgramsAssumption
  <2>4. Letter \subseteq Characters
    BY DEF Letter, Characters
  <2>5. s \in Texts
    BY <2>3, <2>4, Widened DEF Texts
  <2>6. ASSUME BordersInLine PROVE s \in Seq(Characters \ {"\n"})
    <3>1. "\n" \notin ToSet(s)
      BY <2>0, <2>6 DEF BordersInLine
    <3>2. \A i \in 1..Len(s) : s[i] \in Characters /\ s[i] # "\n"
      BY <2>5, <3>1, LenProperties, ElementOfSeq DEF ToSet, Texts
    <3>3. Len(s) \in Nat /\ s \in [1..Len(s) -> Characters \ {"\n"}]
      BY <2>5, <3>2, LenProperties DEF Texts
    <3> QED BY <3>3, TupleSeq
  <2> QED BY <2>5, <2>6
<1> QED BY Zenon, <1>1, <1>2

LEMMA TerminalFraming ==
    ASSUME NEW B, BordersInLine
    PROVE  Framing(Terminal(B), Cout(TRUE))
<1> DEFINE stream == Cout(TRUE)
           P == Terminal(B)
<1>1. reset(stream) = <<ResetCode>>
  BY DEF reset, Emit, Cout, is_colorized, is_atty
<1>2. /\ FontTokens \subseteq Tokens /\ ColorTokens \subseteq Tokens /\ ResetCode \in Tokens
      /\ Characters \subseteq Tokens /\ "\n" \in Characters /\ " " \in Characters
  BY Zenon, TokensAre, MarksAreCharacters DEF Tokens, Marks
<1>3. newline(stream) \in P
  <2>1. newline(stream) \in Seq({ResetCode, "\n"})
    <3>1. newline(stream) = <<ResetCode>> \o <<"\n">>
      BY <1>1 DEF newline
    <3>2. <<ResetCode>> \in Seq({ResetCode, "\n"}) /\ <<"\n">> \in Seq({ResetCode, "\n"})
      OBVIOUS
    <3> QED BY <3>1, <3>2, ConcatProperties
  <2>2. {ResetCode, "\n"} \subseteq Tokens
    BY Zenon, <1>2
  <2>3. {ResetCode, "\n"} \cap FontTokens = {} /\ {ResetCode, "\n"} \cap ColorTokens = {}
    BY Zenon, <1>2, TokensAre
  <2>4. Seq({ResetCode, "\n"}) \subseteq Kept(FontTokens, B)
    BY <2>2, <2>3, KeptNone
  <2>5. Seq({ResetCode, "\n"}) \subseteq Kept(ColorTokens, {"\n"})
    BY <2>2, <2>3, KeptNone
  <2> QED BY <2>1, <2>4, <2>5 DEF Terminal
<1>4. Seq({" "}) \subseteq P
  <2>1. {" "} \subseteq Tokens /\ {" "} \cap FontTokens = {} /\ {" "} \cap ColorTokens = {}
    BY Zenon, <1>2, TokensAre
  <2>2. Seq({" "}) \subseteq Kept(FontTokens, B)
    BY Zenon, <2>1, KeptNone
  <2>3. Seq({" "}) \subseteq Kept(ColorTokens, {"\n"})
    BY Zenon, <2>1, KeptNone
  <2> QED BY Zenon, <2>2, <2>3 DEF Terminal
<1>5. ASSUME NEW foreground \in Color, NEW background \in Color,
             NEW s \in BorderValues \cup {<<" ">>}
      PROVE  Styled(stream, foreground, background, s) \in P
  <2>1. PICK c : c = apply_element_style(stream, foreground, background, {})
    BY Zenon
  <2>2. c \in Seq(ColorTokens)
    BY Zenon, <2>1, ElementStyle
  <2>3. s \in Seq(Characters \ {"\n"})
    <3>1. <<" ">> \in Seq(Characters \ {"\n"})
      <4>1. " " \in Characters \ {"\n"}
        BY Zenon, <1>2
      <4> QED BY Zenon, <4>1, Single
    <3> QED BY Zenon, <1>5, <3>1, BordersAreTexts
  <2> DEFINE A == ColorTokens \cup (Characters \ {"\n"})
  <2>4. c \o s \in Seq(A)
    <3>1. ColorTokens \subseteq A /\ Characters \ {"\n"} \subseteq A
      BY Zenon
    <3> HIDE DEF A
    <3>2. c \in Seq(A) /\ s \in Seq(A)
      BY Zenon, <2>2, <2>3, <3>1, Widened
    <3> QED BY Zenon, <3>2, ConcatProperties
  <2>5. A \cup {ResetCode} \subseteq Tokens /\ A \subseteq A \cup {ResetCode}
    BY Zenon, <1>2
  <2>6. (A \cup {ResetCode}) \cap FontTokens = {} /\ A \cap {"\n"} = {} /\ ResetCode \notin {"\n"}
    BY Zenon, <1>2, TokensAre
  <2>7. (c \o s) \o <<ResetCode>> \in Kept(ColorTokens, {"\n"})
    <3> HIDE DEF A
    <3> QED BY Zenon, <2>4, <2>5, <2>6, KeptReset
  <2>8. (c \o s) \o <<ResetCode>> \in Kept(FontTokens, B)
    <3> DEFINE R == A \cup {ResetCode}
    <3>1. c \o s \in Seq(R)
      <4> HIDE DEF A
      <4> QED BY Zenon, <2>4, <2>5, Widened
    <3>2. <<ResetCode>> \in Seq(R)
      <4>1. ResetCode \in R
        BY Zenon
      <4> QED BY Zenon, <4>1, Single
    <3> HIDE DEF R
    <3>3. (c \o s) \o <<ResetCode>> \in Seq(R)
      BY Zenon, <3>1, <3>2, ConcatProperties
    <3> QED BY Zenon, <2>5, <2>6, <3>3, KeptNone DEF R
  <2>9. Styled(stream, foreground, background, s) = (c \o s) \o <<ResetCode>>
    BY Zenon, <1>1, <2>1 DEF Styled
  <2> QED BY Zenon, <2>7, <2>8, <2>9 DEF Terminal
<1> HIDE DEF P, stream
<1> QED BY Zenon, <1>3, <1>4, <1>5 DEF Framing, P, stream

\* What can stand in a line.
Inline == Tokens \ {"\n"}

LEMMA InlineTokens ==
    /\ FontTokens \cup ColorTokens \subseteq Inline /\ ResetCode \in Inline /\ " " \in Inline
    /\ Characters \ {"\n"} \subseteq Inline /\ Inline \subseteq Tokens
    /\ Inline \cap {"\n"} = {} /\ ResetCode \notin {"\n"}
BY Zenon, TokensAre, MarksAreCharacters DEF Inline, Tokens, Marks

\* The styled text of a line keeps its styles.
LEMMA StyledLine ==
    ASSUME NEW B, B \subseteq Characters, NEW f, FullFormat(f),
           NEW line \in Seq(Characters \ {"\n"}),
           f["font_style"] = {} \/ line \in Seq(Characters \ B)
    PROVE  /\ styled_content(Cout(TRUE), f, line) \in Kept(FontTokens, B)
           /\ styled_content(Cout(TRUE), f, line) \in Seq(Inline)
<1>1. f["font_color"] \in Color /\ f["font_background_color"] \in Color
  BY PrintedMembers DEF FullFormat
<1>2. reset(Cout(TRUE)) = <<ResetCode>>
  BY DEF reset, Emit, Cout, is_colorized, is_atty
<1>3. PICK a : a = apply_element_style(Cout(TRUE), f["font_color"], f["font_background_color"],
                                       f["font_style"])
  OBVIOUS
<1>4. PICK c : c = apply_element_style(Cout(TRUE), f["font_color"], f["font_background_color"], {})
  OBVIOUS
<1>5. a \in Seq(FontTokens \cup ColorTokens) /\ c \in Seq(ColorTokens)
  BY <1>1, <1>3, <1>4, ElementStyle
<1>6. f["font_style"] = {} => a \in Seq(ColorTokens)
  BY <1>3, <1>4, <1>5
<1>7. styled_content(Cout(TRUE), f, line) = ((a \o line) \o <<ResetCode>>) \o c
  BY <1>2, <1>3, <1>4 DEF styled_content
<1>8. Characters \subseteq Tokens /\ ColorTokens \subseteq Tokens /\ FontTokens \subseteq Tokens
      /\ ResetCode \in Tokens
  BY TokensAre DEF Tokens
<1>9. line \in Seq(Characters)
  <2>1. Characters \ {"\n"} \subseteq Characters
    OBVIOUS
  <2> QED BY <2>1, Widened
<1>10. c \in Kept(FontTokens, B)
  BY <1>5, <1>8, TokensAre, KeptNone
<1>11. (a \o line) \o <<ResetCode>> \in Kept(FontTokens, B)
  <2>1. CASE f["font_style"] = {}
    <3> DEFINE A == ColorTokens \cup Characters \cup {ResetCode}
    <3>1. ColorTokens \subseteq A /\ Characters \subseteq A /\ ResetCode \in A
          /\ A \subseteq Tokens /\ A \cap FontTokens = {}
      BY <1>8, TokensAre
    <3> HIDE DEF A
    <3>2. a \in Seq(A) /\ line \in Seq(A)
      BY <1>6, <1>9, <2>1, <3>1, Widened
    <3>3. <<ResetCode>> \in Seq(A)
      BY Zenon, <3>1, Single
    <3>4. a \o line \in Seq(A)
      BY <3>2, ConcatProperties
    <3>5. (a \o line) \o <<ResetCode>> \in Seq(A)
      BY <3>3, <3>4, ConcatProperties
    <3> QED BY <3>1, <3>5, KeptNone
  <2>2. CASE line \in Seq(Characters \ B)
    <3> DEFINE A == FontTokens \cup ColorTokens \cup (Characters \ B)
    <3>1. FontTokens \cup ColorTokens \subseteq A /\ Characters \ B \subseteq A
          /\ A \subseteq Tokens /\ A \cap B = {} /\ ResetCode \notin B
      BY <1>8, TokensAre
    <3> HIDE DEF A
    <3>2. a \in Seq(A) /\ line \in Seq(A)
      BY <1>5, <2>2, <3>1, Widened
    <3>3. a \o line \in Seq(A)
      BY <3>2, ConcatProperties
    <3> QED BY <3>1, <3>3, KeptReset
  <2> QED BY <2>1, <2>2
<1>12. styled_content(Cout(TRUE), f, line) \in Kept(FontTokens, B)
  BY <1>7, <1>10, <1>11, KeptLanguage DEF Language
<1>13. styled_content(Cout(TRUE), f, line) \in Seq(Inline)
  <2>1. a \in Seq(Inline) /\ c \in Seq(Inline) /\ line \in Seq(Inline)
    <3>1. ColorTokens \subseteq Inline
      BY Zenon, InlineTokens
    <3> QED BY Zenon, <1>5, <3>1, InlineTokens, Widened
  <2>2. <<ResetCode>> \in Seq(Inline)
    BY Zenon, InlineTokens, Single
  <2>3. a \o line \in Seq(Inline)
    BY <2>1, ConcatProperties
  <2>4. (a \o line) \o <<ResetCode>> \in Seq(Inline)
    BY <2>2, <2>3, ConcatProperties
  <2>5. ((a \o line) \o <<ResetCode>>) \o c \in Seq(Inline)
    BY <2>1, <2>4, ConcatProperties
  <2> QED BY <1>7, <2>5
<1> QED BY <1>12, <1>13

\* What stands between the borders keeps its styles in the cell.
LEMMA TerminalPiece ==
    ASSUME NEW B, NEW f, FullFormat(f), NEW x \in Seq(Inline), x \in Kept(FontTokens, B)
    PROVE  Piece(Cout(TRUE), f, x) \in Terminal(B)
<1>1. f["font_color"] \in Color /\ f["font_background_color"] \in Color
  BY PrintedMembers DEF FullFormat
<1>2. reset(Cout(TRUE)) = <<ResetCode>>
  BY DEF reset, Emit, Cout, is_colorized, is_atty
<1>3. PICK c : c = apply_element_style(Cout(TRUE), f["font_color"], f["font_background_color"], {})
  OBVIOUS
<1>4. c \in Seq(ColorTokens)
  BY <1>1, <1>3, ElementStyle
<1>5. Piece(Cout(TRUE), f, x) = (c \o x) \o <<ResetCode>>
  BY <1>2, <1>3 DEF Piece
<1>6. (c \o x) \o <<ResetCode>> \in Kept(FontTokens, B)
  <2>1. c \in Kept(FontTokens, B)
    BY Zenon, <1>4, TokensAre, InlineTokens, KeptNone DEF Tokens
  <2>2. <<ResetCode>> \in Kept(FontTokens, B)
    <3>1. {ResetCode} \subseteq Tokens /\ {ResetCode} \cap FontTokens = {}
      BY TokensAre DEF Tokens
    <3>2. <<ResetCode>> \in Seq({ResetCode})
      OBVIOUS
    <3> QED BY <3>1, <3>2, KeptNone
  <2>3. c \o x \in Kept(FontTokens, B)
    BY <2>1, KeptLanguage DEF Language
  <2> QED BY <2>2, <2>3, KeptLanguage DEF Language
<1>7. (c \o x) \o <<ResetCode>> \in Kept(ColorTokens, {"\n"})
  <2>1. ColorTokens \subseteq Inline
    BY Zenon, InlineTokens
  <2>2. c \in Seq(Inline)
    BY <1>4, <2>1, Widened
  <2>3. c \o x \in Seq(Inline)
    BY <2>2, ConcatProperties
  <2> QED BY Zenon, <2>3, InlineTokens, KeptReset
<1> QED BY <1>5, <1>6, <1>7 DEF Terminal

LEMMA TerminalContaining ==
    ASSUME NEW B, B \subseteq Characters, NEW f, FullFormat(f), NEW w \in Nat, NEW lines,
           \A n \in DOMAIN lines :
               /\ trimmed(f, lines[n]) \in Seq(Characters \ {"\n"})
               /\ f["font_style"] = {} \/ trimmed(f, lines[n]) \in Seq(Characters \ B)
    PROVE  Containing(Terminal(B), Cout(TRUE), f, lines, w)
<1>1. \A s \in Seq({" "}) : s \in Seq(Inline) /\ s \in Kept(FontTokens, B)
  <2>1. {" "} \subseteq Inline /\ {" "} \subseteq Tokens /\ {" "} \cap FontTokens = {}
    BY Zenon, InlineTokens, TokensAre, MarksAreCharacters DEF Marks
  <2> QED BY Zenon, <2>1, Widened, KeptNone
<1>2. Piece(Cout(TRUE), f, Spaces(w)) \in Terminal(B)
  <2>1. w \in Int
    OBVIOUS
  <2>2. Spaces(w) \in Seq({" "})
    BY Zenon, <2>1, SpacesAre
  <2> QED BY Zenon, <1>1, <2>2, TerminalPiece
<1>3. ASSUME NEW n \in DOMAIN lines
      PROVE  LET x == print_content(Cout(TRUE), f, trimmed(f, lines[n]), w)
             IN  x \in Seq(Tokens) /\ Piece(Cout(TRUE), f, x) \in Terminal(B)
  <2>1. PICK line : line = trimmed(f, lines[n])
    OBVIOUS
  <2>2. PICK s : s = styled_content(Cout(TRUE), f, line)
    OBVIOUS
  <2>3. /\ line \in Seq(Characters \ {"\n"})
        /\ f["font_style"] = {} \/ line \in Seq(Characters \ B)
    BY <2>1
  <2>4. s \in Kept(FontTokens, B) /\ s \in Seq(Inline)
    BY Zenon, <2>2, <2>3, StyledLine
  <2>5. line \in Texts
    <3>1. Characters \ {"\n"} \subseteq Characters
      OBVIOUS
    <3> QED BY <2>3, <3>1, Widened DEF Texts
  <2>6. s \in Seq(Tokens)
    BY Zenon, <2>4, InlineTokens, Widened
  <2>7. PICK a \in Seq({" "}), b \in Seq({" "}) :
            print_content(Cout(TRUE), f, line, w) = a \o s \o b
    BY Zenon, <2>2, <2>5, <2>6, ContentParts
  <2>8. a \o s \in Kept(FontTokens, B)
    BY Zenon, <1>1, <2>4, KeptLanguage DEF Language
  <2>9. (a \o s) \o b \in Kept(FontTokens, B)
    BY Zenon, <1>1, <2>8, KeptLanguage DEF Language
  <2>10. a \o s \in Seq(Inline)
    BY Zenon, <1>1, <2>4, ConcatProperties
  <2>11. (a \o s) \o b \in Seq(Inline)
    BY Zenon, <1>1, <2>10, ConcatProperties
  <2>12. PICK x : x = (a \o s) \o b
    BY Zenon
  <2>13. x \in Seq(Tokens) /\ Piece(Cout(TRUE), f, x) \in Terminal(B)
    <3>1. x \in Seq(Inline) /\ x \in Kept(FontTokens, B)
      BY Zenon, <2>9, <2>11, <2>12
    <3> QED BY Zenon, <3>1, InlineTokens, Widened, TerminalPiece
  <2> QED BY Zenon, <2>1, <2>7, <2>12, <2>13
<1> QED BY Zenon, <1>2, <1>3 DEF Containing

\* A print to a terminal, with cells that have no style of the font or no element of B.
LEMMA TerminalPrint ==
    ASSUME NEW B, B \subseteq Characters, "-" \notin B, BordersInLine,
           NEW u, Full(u), Returns(u),
           \A i \in 1..Len(u.text), j \in 1..estimate_num_columns(u) :
               \/ u.cells[i][j]["font_style"] = {}
               \/ u.text[i][j] \in Seq((Characters \ B) \cup {"\n"})
    PROVE  print_table(Cout(TRUE), u) \in Terminal(B)
<1>1. ASSUME NEW i \in 1..Len(u.text), NEW j \in 1..estimate_num_columns(u)
      PROVE  Containing(Terminal(B), Cout(TRUE), u.cells[i][j],
                        splitted_cell_text(u.cells[i][j], u.text[i][j], column_width(u, j)),
                        column_width(u, j))
  <2>1. PICK f : f = u.cells[i][j]
    OBVIOUS
  <2>2. PICK s : s = u.text[i][j]
    OBVIOUS
  <2>3. PICK w : w = column_width(u, j)
    OBVIOUS
  <2>4. s \in Texts /\ FullFormat(f) /\ w \in Nat
    BY <2>1, <2>2, <2>3, FullCells
  <2>5. Wrappable(f, s, w)
    BY <2>1, <2>2, <2>3 DEF Returns
  <2>6. PICK lines : lines = splitted_cell_text(f, s, w)
    OBVIOUS
  <2>7. \A n \in DOMAIN lines : trimmed(f, lines[n]) \in Seq(Characters \ {"\n"})
    <3>1. "\n" \in Characters /\ "-" \in Characters
      BY Zenon, MarksAreCharacters DEF Marks
    <3> QED BY <2>4, <2>5, <2>6, <3>1, LinesType DEF Texts
  <2>8. ASSUME f["font_style"] # {}, NEW n \in DOMAIN lines
        PROVE  trimmed(f, lines[n]) \in Seq(Characters \ B)
    <3> DEFINE D == (Characters \ B) \cup {"\n"}
    <3>1. s \in Seq(D)
      BY <2>1, <2>2, <2>8
    <3>2. "\n" \in D /\ "-" \in D /\ D \ {"\n"} \subseteq Characters \ B
      BY Zenon, MarksAreCharacters DEF Marks
    <3> HIDE DEF D
    <3>3. trimmed(f, lines[n]) \in Seq(D \ {"\n"})
      BY <2>5, <2>6, <2>8, <3>1, <3>2, LinesType
    <3> QED BY <3>2, <3>3, Widened
  <2>9. Containing(Terminal(B), Cout(TRUE), f, lines, w)
    BY <2>4, <2>7, <2>8, TerminalContaining
  <2> QED BY Zenon, <2>1, <2>2, <2>3, <2>6, <2>9
<1>2. Printable(Terminal(B), Cout(TRUE), u)
  BY Zenon, <1>1, TerminalLanguage, TerminalFraming DEF Printable
<1> QED BY <1>2, PrintedIn

----------------------------------------------------------------------------
(* A string stream. *)

\* All that is put together from some characters.
LEMMA SeqLanguage ==
    ASSUME NEW A, A \subseteq Tokens
    PROVE  Language(Seq(A))
<1>1. Seq(A) \subseteq Seq(Tokens)
  BY Widened
<1>2. << >> \in Seq(A)
  BY EmptySeq
<1>3. \A a, b \in Seq(A) : a \o b \in Seq(A)
  BY ConcatProperties
<1> QED BY <1>1, <1>2, <1>3 DEF Language

LEMMA TextsLanguage == Language(Texts)
BY SeqLanguage DEF Texts, Tokens

\* What is styled for a string stream is not styled at all.
LEMMA Unstyled ==
    ASSUME NEW s \in Texts
    PROVE  << >> \o s = s /\ s \o << >> = s
BY ConcatEmptySeq DEF Texts

LEMMA StringPlain == ~is_colorized(StringStream)
BY DEF is_colorized, is_atty, StringStream

LEMMA StringFraming == Framing(Texts, StringStream)
<1>1. newline(StringStream) \in Texts
  <2>1. newline(StringStream) = << >> \o <<"\n">>
    BY StringPlain, PlainStream DEF newline
  <2>2. <<"\n">> \in Texts
    <3>1. "\n" \in Characters
      BY Zenon, MarksAreCharacters DEF Marks
    <3> QED BY Zenon, <3>1, Single DEF Texts
  <2> QED BY <2>1, <2>2, Unstyled
<1>2. Seq({" "}) \subseteq Texts
  <2>1. {" "} \subseteq Characters
    BY Zenon, MarksAreCharacters DEF Marks
  <2> QED BY Zenon, <2>1, Widened DEF Texts
<1>3. ASSUME NEW foreground \in Color, NEW background \in Color,
             NEW s \in BorderValues \cup {<<" ">>}
      PROVE  Styled(StringStream, foreground, background, s) \in Texts
  <2>1. s \in Texts
    <3>1. " " \in Characters
      BY Zenon, MarksAreCharacters DEF Marks
    <3>2. <<" ">> \in Texts
      BY Zenon, <3>1, Single DEF Texts
    <3> QED BY Zenon, <1>3, <3>2, BordersAreTexts
  <2>2. Styled(StringStream, foreground, background, s) = << >> \o s \o << >>
    BY Zenon, StringPlain, PlainStream DEF Styled
  <2> QED BY Zenon, <2>1, <2>2, Unstyled
<1> QED BY Zenon, <1>1, <1>2, <1>3 DEF Framing

LEMMA StringContaining ==
    ASSUME NEW f, FullFormat(f), NEW w \in Nat, NEW lines,
           \A n \in DOMAIN lines : trimmed(f, lines[n]) \in Texts
    PROVE  Containing(Texts, StringStream, f, lines, w)
<1>1. \A x \in Texts : Piece(StringStream, f, x) = x
  <2> TAKE x \in Texts
  <2>1. Piece(StringStream, f, x) = << >> \o x \o << >>
    BY StringPlain, PlainStream DEF Piece
  <2> QED BY <2>1, Unstyled
<1>2. Seq({" "}) \subseteq Texts
  BY Zenon, StringFraming DEF Framing
<1>3. Spaces(w) \in Texts
  <2>1. w \in Int
    OBVIOUS
  <2>2. Spaces(w) \in Seq({" "})
    BY Zenon, <2>1, SpacesAre
  <2> QED BY Zenon, <1>2, <2>2
<1>4. ASSUME NEW n \in DOMAIN lines
      PROVE  print_content(StringStream, f, trimmed(f, lines[n]), w) \in Texts
  <2>1. PICK line \in Texts : line = trimmed(f, lines[n])
    OBVIOUS
  <2>2. styled_content(StringStream, f, line) = line
    <3>1. styled_content(StringStream, f, line) = << >> \o line \o << >> \o << >>
      BY StringPlain, PlainStream DEF styled_content
    <3> QED BY <3>1, Unstyled
  <2>3. styled_content(StringStream, f, line) \in Seq(Tokens)
    BY <2>2, TextsLanguage DEF Language
  <2>4. \E a, b \in Seq({" "}) :
            print_content(StringStream, f, line, w) = a \o styled_content(StringStream, f, line) \o b
    BY ZenonT(30), <2>3, ContentParts
  <2>5. PICK a \in Seq({" "}), b \in Seq({" "}) :
            print_content(StringStream, f, line, w) = a \o line \o b
    BY Zenon, <2>2, <2>4
  <2>6. a \o line \in Texts
    BY Zenon, <1>2, TextsLanguage DEF Language
  <2>7. (a \o line) \o b \in Texts
    BY Zenon, <1>2, <2>6, TextsLanguage DEF Language
  <2> QED BY Zenon, <2>1, <2>5, <2>7
<1>5. Texts \subseteq Seq(Tokens)
  BY TextsLanguage DEF Language
<1> QED BY Zenon, <1>1, <1>3, <1>4, <1>5 DEF Containing

\* A print to a string is a text.
LEMMA StringPrint ==
    ASSUME NEW u, Full(u), Returns(u)
    PROVE  print_table(StringStream, u) \in Texts
<1>1. ASSUME NEW i \in 1..Len(u.text), NEW j \in 1..estimate_num_columns(u)
      PROVE  Containing(Texts, StringStream, u.cells[i][j],
                        splitted_cell_text(u.cells[i][j], u.text[i][j], column_width(u, j)),
                        column_width(u, j))
  <2>1. PICK f : f = u.cells[i][j]
    OBVIOUS
  <2>2. PICK s : s = u.text[i][j]
    OBVIOUS
  <2>3. PICK w : w = column_width(u, j)
    OBVIOUS
  <2>4. s \in Texts /\ FullFormat(f) /\ w \in Nat
    BY <2>1, <2>2, <2>3, FullCells
  <2>5. Wrappable(f, s, w)
    BY <2>1, <2>2, <2>3 DEF Returns
  <2>6. PICK lines : lines = splitted_cell_text(f, s, w)
    OBVIOUS
  <2>7. \A n \in DOMAIN lines : trimmed(f, lines[n]) \in Texts
    <3>1. "\n" \in Characters /\ "-" \in Characters /\ Characters \ {"\n"} \subseteq Characters
      BY Zenon, MarksAreCharacters DEF Marks
    <3>2. \A n \in DOMAIN lines : trimmed(f, lines[n]) \in Seq(Characters \ {"\n"})
      BY <2>4, <2>5, <2>6, <3>1, LinesType DEF Texts
    <3> QED BY <3>1, <3>2, Widened DEF Texts
  <2>8. Containing(Texts, StringStream, f, lines, w)
    BY <2>4, <2>7, StringContaining
  <2> QED BY Zenon, <2>1, <2>2, <2>3, <2>6, <2>8
<1>2. Printable(Texts, StringStream, u)
  BY Zenon, <1>1, TextsLanguage, StringFraming DEF Printable
<1> QED BY <1>2, PrintedIn

----------------------------------------------------------------------------
(* The exporters. *)

LEMMA TupleFunction ==
    ASSUME NEW n \in Nat, NEW f, f = [k \in 1..n |-> f[k]]
    PROVE  SubSeq(f, 1, n) = f
<1> DEFINE S == {f[k] : k \in 1..n}
<1>1. f \in [1..n -> S]
  OBVIOUS
<1> HIDE DEF S
<1> QED BY <1>1, TupleSeq

\* A cell of the rows that are looked at.
LEMMA CellLookedAt ==
    ASSUME NEW u, WellFormed(u), NEW I, NEW i \in 1..Len(u.text), i \in I,
           NEW j \in 1..estimate_num_columns(u)
    PROVE  LookAtCells(u, I).cells[i][j] = merge(u.cells[i][j], RowAfter(u, i, j))
<1> DEFINE n == Len(u.text)
           k == estimate_num_columns(u)
           Cell(p, q) == IF p \in I THEN merge(u.cells[p][q], RowAfter(u, p, q)) ELSE u.cells[p][q]
           Cells1(p) == Tuple(Len(u.cells[p]), LAMBDA q : Cell(p, q))
           rows == [p \in 1..n |-> Cells1(p)]
           row == [q \in 1..k |-> Cell(i, q)]
<1>1. n \in Nat /\ k \in Nat /\ Len(u.cells) = n /\ Len(u.cells[i]) = k
  BY WellFormedRows
<1>2. LookAtCells(u, I).cells = Tuple(Len(u.cells), Cells1)
  BY Zenon DEF LookAtCells
<1>3. Tuple(Len(u.cells), Cells1) = SubSeq(rows, 1, n)
  <2> HIDE DEF Cells1, n
  <2> QED BY <1>1 DEF Tuple
<1>4. SubSeq(rows, 1, n) = rows
  <2>1. rows = [p \in 1..n |-> rows[p]]
    <3> HIDE DEF Cells1, n
    <3> QED OBVIOUS
  <2> HIDE DEF rows, n
  <2> QED BY <1>1, <2>1, TupleFunction
<1>5. rows[i] = Cells1(i)
  <2> HIDE DEF Cells1
  <2> QED OBVIOUS
<1>6. Cells1(i) = SubSeq(row, 1, k)
  <2> HIDE DEF Cell, k
  <2> QED BY <1>1 DEF Tuple
<1>7. SubSeq(row, 1, k) = row
  <2>1. row = [q \in 1..k |-> row[q]]
    <3> HIDE DEF Cell, k
    <3> QED OBVIOUS
  <2> HIDE DEF row, k
  <2> QED BY <1>1, <2>1, TupleFunction
<1>8. row[j] = merge(u.cells[i][j], RowAfter(u, i, j))
  <2>1. row[j] = Cell(i, j)
    <3> HIDE DEF Cell
    <3> QED OBVIOUS
  <2> QED BY <2>1
<1> HIDE DEF Cells1, rows, row, Cell, n, k
<1> QED BY <1>2, <1>3, <1>4, <1>5, <1>6, <1>7, <1>8

\* A cell that has been looked at is aligned.
LEMMA FirstRowAligned ==
    ASSUME NEW u, WellFormed(u), u.text # << >>, NEW j \in 1..estimate_num_columns(u)
    PROVE  LookAtCells(u, {1}).cells[1][j]["font_align"] \in FontAlign
<1> DEFINE m == "font_align"
<1>1. Len(u.text) \in Nat /\ 1 \in 1..Len(u.text) /\ estimate_num_columns(u) \in Nat
  BY WellFormedRows, EmptySeq
<1>2. LookAtCells(u, {1}).cells[1][j] = merge(u.cells[1][j], RowAfter(u, 1, j))
  BY <1>1, CellLookedAt
<1>3. RowAfter(u, 1, j) \in RowsLooked(u, 1)
  BY <1>1, RowAfterLooks
<1>4. m \in Members /\ m # "font_style" /\ m \in TypedMembers /\ m \in Defaulted /\ TypeOf(m) = FontAlign
  BY TypeOfMember, TypedAreMembers DEF TypedMembers, Defaulted, FontMembers
<1>5. u.cells[1][j] \in Formats /\ u.rows[1] \in Formats /\ u.table \in Formats
  BY <1>1, WellFormedRows, ElementOfSeq
<1>6. u.table[m] \in FontAlign
  BY <1>4, <1>5, FormatType DEF WellFormed, Typed
<1>7. u.rows[1][m] \in FontAlign \cup {NoValue} /\ u.cells[1][j][m] \in FontAlign \cup {NoValue}
  BY <1>4, <1>5, FormatType DEF Typed
<1>8. \A align \in FontAlign : align # NoValue
  BY NoValueAssumption
<1>9. RowAfter(u, 1, j)[m] \in FontAlign
  <2>1. \A q \in RowsLooked(u, 1) : q[m] \in FontAlign
    BY <1>4, <1>6, <1>7, <1>8 DEF RowsLooked, merge, value_or
  <2> QED BY <1>3, <2>1
<1>10. merge(u.cells[1][j], RowAfter(u, 1, j))[m] \in FontAlign
  BY <1>4, <1>7, <1>9 DEF merge, value_or
<1> QED BY <1>2, <1>10

LEMMA AlignmentType ==
    ASSUME NEW u, NEW k \in Nat, DOMAIN u.text[1] = 1..k,
           \A j \in 1..k : u.cells[1][j]["font_align"] \in FontAlign,
           NEW P, NEW l \in P, NEW c \in P, NEW r \in P
    PROVE  Alignment(u, l, c, r) \in [1..k -> P]
<1> DEFINE align(j) == u.cells[1][j]["font_align"]
           text(j) == CASE align(j) = "left"   -> l
                        [] align(j) = "center" -> c
                        [] align(j) = "right"  -> r
           f == [j \in 1..k |-> text(j)]
<1>1. Alignment(u, l, c, r) = f
  BY DEF Alignment
<1>2. ASSUME NEW j \in 1..k PROVE text(j) \in P
  <2>1. align(j) \in FontAlign
    OBVIOUS
  <2> HIDE DEF align
  <2>2. text(j) \in {l, c, r}
    BY <2>1 DEF FontAlign
  <2> HIDE DEF text
  <2> QED BY <2>2
<1> HIDE DEF text
<1>3. f \in [1..k -> P]
  BY <1>2
<1> QED BY <1>1, <1>3

LEMMA SeparatedType ==
    ASSUME NEW P, Language(P), NEW k \in Nat, NEW f \in [1..k -> P], NEW separator \in P
    PROVE  Separated(f, separator) \in P
<1>1. DOMAIN f = 1..k /\ Len(f) = k
  BY TupleSeq
<1> DEFINE g == [j \in 1..k |-> f[j] \o IF j < k THEN separator ELSE << >>]
<1>2. g \in [1..k -> P]
  <2>1. ASSUME NEW j \in 1..k PROVE f[j] \o (IF j < k THEN separator ELSE << >>) \in P
    <3>1. PICK x \in P : x = IF j < k THEN separator ELSE << >>
      BY DEF Language
    <3>2. f[j] \in P
      OBVIOUS
    <3>3. f[j] \o x \in P
      BY Zenon, <3>2 DEF Language
    <3> QED BY <3>1, <3>3
  <2> QED BY <2>1
<1>3. Separated(f, separator) = FlattenSeq(g)
  BY <1>1 DEF Separated
<1> HIDE DEF g
<1> QED BY Zenon, <1>2, <1>3, Joined

LEMMA CellTexts ==
    ASSUME NEW u, WellFormed(u), NEW i \in 1..Len(u.text)
    PROVE  /\ DOMAIN u.text[i] = 1..estimate_num_columns(u)
           /\ \A j \in 1..estimate_num_columns(u) : u.text[i][j] \in Texts
           /\ u.text[i] \in [1..estimate_num_columns(u) -> Texts]
<1>1. u.text \in Seq(Seq(Texts)) /\ Len(u.text[i]) = estimate_num_columns(u)
  BY WellFormedRows
<1> DEFINE S == Seq(Texts)
<1>2. u.text[i] \in S
  <2>1. u.text \in Seq(S)
    BY <1>1
  <2> HIDE DEF S
  <2> QED BY <2>1, ElementOfSeq
<1>3. u.text[i] \in [1..estimate_num_columns(u) -> Texts]
  BY <1>1, <1>2, LenProperties
<1> QED BY <1>3

\* What AsciiDocExporter and LatexExporter write is text.
LEMMA FormattedType ==
    ASSUME NEW f, NEW s \in Texts
    PROVE  add_formatted_cell(f, s) \in Texts
<1>1. PICK b \in Texts : b = IF "bold" \in f["font_style"] THEN <<"*">> ELSE << >>
  <2>1. "*" \in Characters
    BY Zenon, MarksAreCharacters DEF Marks
  <2>2. <<"*">> \in Texts /\ << >> \in Texts
    BY Zenon, <2>1, Single, EmptySeq DEF Texts
  <2> QED BY <2>2
<1>2. PICK i \in Texts : i = IF "italic" \in f["font_style"] THEN <<"_">> ELSE << >>
  <2>1. "_" \in Characters
    BY Zenon, MarksAreCharacters DEF Marks
  <2>2. <<"_">> \in Texts /\ << >> \in Texts
    BY Zenon, <2>1, Single, EmptySeq DEF Texts
  <2> QED BY Zenon, <2>2
<1>3. \A x, y \in Texts : x \o y \in Texts
  BY TextsLanguage DEF Language
<1>4. b \o i \o s \o i \o b \in Texts
  BY Zenon, <1>3
<1> QED BY Zenon, <1>1, <1>2, <1>4 DEF add_formatted_cell

\* What an exporter writes besides the texts is made of characters in A.
MarkedUp(kind, A) == A \subseteq Tokens /\ Markup(kind) \cup {" ", "\n"} \subseteq A

LEMMA TextsMarkedUp ==
    ASSUME NEW kind \in {"asciidoc", "latex"}
    PROVE  MarkedUp(kind, Characters)
<1>1. Markup(kind) \cup {" ", "\n"} \subseteq Marks
  BY ZenonT(30) DEF Markup, Marks
<1> QED BY Zenon, <1>1, MarksAreCharacters DEF MarkedUp, Tokens

\* Row i of a table in AsciiDoc.
AsciiDocRow(u, i) ==
    FlattenSeq([j \in DOMAIN u.text[i] |->
                   <<"|">> \o add_formatted_cell(u.cells[i][j], u.text[i][j])])
        \o <<"\n">> \o IF i = 1 THEN <<"\n">> ELSE << >>

AsciiDocRows(u) == Join(Len(u.text), LAMBDA i : AsciiDocRow(u, i))

\* They are between markup made of characters in A.
AsciiDocIn(u, A) ==
    \E x : \E a, b \in Seq(A) :
        /\ WellFormed(x) /\ x.text = u.text
        /\ AsciiDoc(u).text = a \o AsciiDocRows(x) \o b

LEMMA AsciiDocParts ==
    ASSUME NEW u, WellFormed(u), u.text # << >>, NEW A, MarkedUp("asciidoc", A)
    PROVE  AsciiDocIn(u, A)
<1> DEFINE P == Seq(A)
           v == LookAtCells(u, {1})
           x == LookAtCells(v, DOMAIN u.text)
           k == estimate_num_columns(x)
           first == <<"[", "c", "o", "l", "s", "=", "\"">>
           second == <<"\"", "]", "\n", "|", "=", "=", "=", "\n">>
           third == <<"|", "=", "=", "=">>
           columns == Separated(Alignment(x, <<"<">>, <<"^">>, <<">">>), <<",">>)
<1>1. /\ Looked(u, v) /\ Looked(v, x) /\ WellFormed(v) /\ WellFormed(x)
      /\ v.text = u.text /\ x.text = u.text
  <2>1. Looked(u, v) /\ WellFormed(v) /\ v.text = u.text
    BY LookAtCellsLooks DEF Looked
  <2> HIDE DEF v
  <2>2. Looked(v, x) /\ WellFormed(x) /\ x.text = v.text
    BY <2>1, LookAtCellsLooks DEF Looked
  <2> QED BY <2>1, <2>2
<1>2. /\ k = estimate_num_columns(u) /\ k = estimate_num_columns(v) /\ k \in Nat
      /\ Len(x.text) \in Nat /\ 1 \in 1..Len(x.text)
  <2> HIDE DEF v, x
  <2>1. Len(x.text) \in Nat /\ 1 \in 1..Len(x.text)
    BY <1>1, WellFormedRows, EmptySeq
  <2> QED BY <1>1, <2>1, WellFormedRows DEF estimate_num_columns
<1>3. Language(P) /\ \A s, y \in P : s \o y \in P
  BY Zenon, SeqLanguage DEF Language, MarkedUp
<1>4. /\ "[" \in A /\ "c" \in A /\ "o" \in A /\ "l" \in A /\ "s" \in A /\ "=" \in A
      /\ "\"" \in A /\ "]" \in A /\ "\n" \in A /\ "|" \in A
      /\ "<" \in A /\ "^" \in A /\ ">" \in A /\ "," \in A
  BY Zenon DEF Markup, MarkedUp
<1>5. first \in P /\ second \in P /\ third \in P
  <2>1. ASSUME NEW C, NEW q, "[" \in C, "c" \in C, "o" \in C, "l" \in C, "s" \in C, "=" \in C, q \in C
        PROVE  <<"[", "c", "o", "l", "s", "=", q>> \in Seq(C)
    BY <2>1
  <2>2. ASSUME NEW C, NEW q, q \in C, "]" \in C, "\n" \in C, "|" \in C, "=" \in C
        PROVE  <<q, "]", "\n", "|", "=", "=", "=", "\n">> \in Seq(C) /\ <<"|", "=", "=", "=">> \in Seq(C)
    BY <2>2
  <2>3. first \in P
    BY Zenon, <1>4, <2>1
  <2>4. second \in P /\ third \in P
    BY Zenon, <1>4, <2>2
  <2> QED BY Zenon, <2>3, <2>4
<1>6. columns \in P
  <2>0. <<"<">> \in P /\ <<"^">> \in P /\ <<">">> \in P /\ <<",">> \in P
    BY Zenon, <1>4, Single
  <2>1. \A j \in 1..k : x.cells[1][j]["font_align"] \in FontAlign
    <3> TAKE j \in 1..k
    <3>1. v.cells[1][j]["font_align"] \in FontAlign
      BY <1>1, <1>2, FirstRowAligned
    <3>2. <<1, j>> \in Positions(v)
      <4> HIDE DEF v, x
      <4> QED BY <1>1, <1>2 DEF Positions
    <3>3. "font_align" \in Members
      BY DEF Members, Defaulted, FontMembers
    <3>4. Keeps("font_align", v.cells[1][j]["font_align"], x.cells[1][j]["font_align"])
      <4> HIDE DEF v, x
      <4>1. \A p \in Positions(v) :
                Keeps("font_align", v.cells[p[1]][p[2]]["font_align"], x.cells[p[1]][p[2]]["font_align"])
        BY <1>1, <3>3 DEF Looked
      <4> QED BY <3>2, <4>1
    <3>5. \A align \in FontAlign : align # NoValue
      BY NoValueAssumption
    <3> HIDE DEF v, x
    <3> QED BY <3>1, <3>4, <3>5 DEF Keeps
  <2>2. DOMAIN x.text[1] = 1..k
    <3> HIDE DEF v, x
    <3> QED BY <1>1, <1>2, CellTexts
  <2> HIDE DEF x, k, P
  <2>3. Alignment(x, <<"<">>, <<"^">>, <<">">>) \in [1..k -> P]
    BY Zenon, <1>2, <2>0, <2>1, <2>2, AlignmentType
  <2> QED BY Zenon, <1>2, <1>3, <2>0, <2>3, SeparatedType
<1>7. AsciiDoc(u).text = first \o columns \o second \o AsciiDocRows(x) \o third
  BY Zenon DEF AsciiDoc, AsciiDocRow, AsciiDocRows
<1> HIDE DEF first, second, third, columns, P, v, x
<1>8. first \o columns \in P
  BY Zenon, <1>3, <1>5, <1>6
<1>9. first \o columns \o second \in P
  BY Zenon, <1>3, <1>5, <1>8
<1> QED BY Zenon, <1>1, <1>5, <1>7, <1>9 DEF P, AsciiDocIn

LEMMA AsciiDocTexts ==
    ASSUME NEW u, WellFormed(u), u.text # << >>
    PROVE  AsciiDoc(u).text \in Texts
<1>1. MarkedUp("asciidoc", Characters)
  BY TextsMarkedUp
<1>2. PICK x : \E a, b \in Texts :
          /\ WellFormed(x) /\ x.text = u.text
          /\ AsciiDoc(u).text = a \o AsciiDocRows(x) \o b
  <2>1. AsciiDocIn(u, Characters)
    BY <1>1, AsciiDocParts
  <2> QED BY <2>1 DEF AsciiDocIn, Texts
<1>3. PICK k \in Nat : k = estimate_num_columns(x)
  BY <1>2, WellFormedRows
<1>4. \A s, y \in Texts : s \o y \in Texts
  BY TextsLanguage DEF Language
<1>5. <<"|">> \in Texts /\ <<"\n">> \in Texts /\ << >> \in Texts
  <2>1. "|" \in Characters /\ "\n" \in Characters
    BY Zenon, MarksAreCharacters DEF Marks
  <2> QED BY Zenon, <2>1, Single, EmptySeq DEF Texts
<1>6. ASSUME NEW i \in 1..Len(x.text) PROVE AsciiDocRow(x, i) \in Texts
  <2> DEFINE g == [j \in 1..k |-> <<"|">> \o add_formatted_cell(x.cells[i][j], x.text[i][j])]
             ends == IF i = 1 THEN <<"\n">> ELSE << >>
  <2>1. DOMAIN x.text[i] = 1..k /\ \A j \in 1..k : x.text[i][j] \in Texts
    BY <1>2, <1>3, CellTexts
  <2>2. \A j \in 1..k : <<"|">> \o add_formatted_cell(x.cells[i][j], x.text[i][j]) \in Texts
    BY Zenon, <1>4, <1>5, <2>1, FormattedType
  <2>3. g \in [1..k -> Texts]
    BY <2>2
  <2>4. AsciiDocRow(x, i) = FlattenSeq(g) \o <<"\n">> \o ends
    <3>1. [j \in DOMAIN x.text[i] |-> <<"|">> \o add_formatted_cell(x.cells[i][j], x.text[i][j])] = g
      BY <2>1
    <3> HIDE DEF g
    <3> QED BY Zenon, <3>1 DEF AsciiDocRow
  <2>5. ends \in Texts
    BY Zenon, <1>5
  <2> HIDE DEF g, ends
  <2>6. FlattenSeq(g) \in Texts
    BY Zenon, <2>3, Joined, TextsLanguage
  <2>7. FlattenSeq(g) \o <<"\n">> \in Texts
    BY Zenon, <1>4, <1>5, <2>6
  <2>8. FlattenSeq(g) \o <<"\n">> \o ends \in Texts
    BY Zenon, <1>4, <2>5, <2>7
  <2> QED BY Zenon, <2>4, <2>8
<1>7. AsciiDocRows(x) \in Texts
  <2>1. [i \in 1..Len(x.text) |-> AsciiDocRow(x, i)] \in [1..Len(x.text) -> Texts]
    BY <1>6
  <2>2. Len(x.text) \in Nat
    BY <1>2, WellFormedRows
  <2> QED BY Zenon, <2>1, <2>2, Joined, TextsLanguage DEF Join, AsciiDocRows
<1> QED BY Zenon, <1>2, <1>4, <1>7

\* Row i of a table in LaTeX.
LatexRow(u, options, i) ==
    Indentation(options) \o Separated(u.text[i], <<" ", "&", " ">>) \o <<" ", "\\\\", "\n">>

LatexRows(u, options) == Join(Len(u.text), LAMBDA i : LatexRow(u, options, i))

LatexIn(u, options, A) ==
    \E x : \E a, b \in Seq(A) :
        /\ WellFormed(x) /\ x.text = u.text
        /\ Latex(u, options).text = a \o LatexRows(x, options) \o b

\* What is written of a row besides its texts.
LEMMA LatexMarks ==
    ASSUME NEW A, MarkedUp("latex", A), NEW options, options.indentation \in Nat \cup {NoValue}
    PROVE  /\ <<" ", "&", " ">> \in Seq(A) /\ <<" ", "\\\\", "\n">> \in Seq(A)
           /\ Indentation(options) \in Seq(A)
<1>1. " " \in A /\ "&" \in A /\ "\\\\" \in A /\ "\n" \in A
  BY Zenon DEF Markup, MarkedUp
<1>3. Indentation(options) \in Seq(A)
  <2>1. CASE options.indentation = NoValue
    BY <2>1, EmptySeq DEF Indentation
  <2>2. CASE options.indentation # NoValue
    <3>1. PICK n \in Int : n = options.indentation
      BY <2>2
    <3>2. {" "} \subseteq A
      BY Zenon, <1>1
    <3>3. Spaces(n) \in Seq(A)
      BY Zenon, <3>2, SpacesAre, Widened
    <3> QED BY <2>2, <3>1, <3>3 DEF Indentation
  <2> QED BY <2>1, <2>2
<1>4. <<" ", "&", " ">> \in Seq(A)
  BY Zenon, <1>1, Few
<1>5. <<" ", "\\\\", "\n">> \in Seq(A)
  BY Zenon, <1>1, Few
<1> QED BY Zenon, <1>3, <1>4, <1>5

LEMMA LatexParts ==
    ASSUME NEW u, WellFormed(u), u.text # << >>, NEW options, NEW A, MarkedUp("latex", A)
    PROVE  LatexIn(u, options, A)
<1> DEFINE P == Seq(A)
           v == LookAtCells(u, {1})
           k == estimate_num_columns(v)
           first == <<"\\begin{tabular}", "\n", "{">>
           second == <<"}", "\n">>
           third == <<"\\end{tabular}">>
           columns == FlattenSeq(Alignment(v, <<"l">>, <<"c">>, <<"r">>))
<1>1. WellFormed(v) /\ v.text = u.text
  BY LookAtCellsLooks DEF Looked
<1>2. /\ k = estimate_num_columns(u) /\ k \in Nat
      /\ Len(v.text) \in Nat /\ 1 \in 1..Len(v.text)
  <2> HIDE DEF v
  <2>1. Len(v.text) \in Nat /\ 1 \in 1..Len(v.text)
    BY <1>1, WellFormedRows, EmptySeq
  <2> QED BY <1>1, <2>1, WellFormedRows DEF estimate_num_columns
<1>3. Language(P) /\ \A s, y \in P : s \o y \in P
  BY Zenon, SeqLanguage DEF Language, MarkedUp
<1>4. /\ "\\begin{tabular}" \in A /\ "\n" \in A /\ "{" \in A /\ "}" \in A
      /\ "\\end{tabular}" \in A /\ "l" \in A /\ "c" \in A /\ "r" \in A
  BY Zenon DEF Markup, MarkedUp
<1>5. first \in P /\ second \in P /\ third \in P
  <2>3. first \in P
    BY Zenon, <1>4, Few
  <2>4. second \in P
    BY Zenon, <1>4, Few
  <2>5. third \in P
    BY Zenon, <1>4, Single
  <2> QED BY Zenon, <2>3, <2>4, <2>5
<1>6. columns \in P
  <2>0. <<"l">> \in P /\ <<"c">> \in P /\ <<"r">> \in P
    BY Zenon, <1>4, Single
  <2>1. \A j \in 1..k : v.cells[1][j]["font_align"] \in FontAlign
    BY <1>2, FirstRowAligned
  <2>2. DOMAIN v.text[1] = 1..k
    <3> HIDE DEF v
    <3> QED BY <1>1, <1>2, CellTexts
  <2> HIDE DEF v, k, P
  <2>3. Alignment(v, <<"l">>, <<"c">>, <<"r">>) \in [1..k -> P]
    BY Zenon, <1>2, <2>0, <2>1, <2>2, AlignmentType
  <2> QED BY Zenon, <1>2, <1>3, <2>3, Joined
<1>7. Latex(u, options).text = first \o columns \o second \o LatexRows(v, options) \o third
  BY Zenon DEF Latex, LatexRow, LatexRows
<1> HIDE DEF first, second, third, columns, P, v, k
<1>8. first \o columns \in P
  BY Zenon, <1>3, <1>5, <1>6
<1>9. first \o columns \o second \in P
  BY Zenon, <1>3, <1>5, <1>8
<1> QED BY Zenon, <1>1, <1>5, <1>7, <1>9 DEF P, LatexIn

LEMMA LatexTexts ==
    ASSUME NEW u, WellFormed(u), u.text # << >>, NEW options,
           options.indentation \in Nat \cup {NoValue}
    PROVE  Latex(u, options).text \in Texts
<1>1. MarkedUp("latex", Characters)
  BY TextsMarkedUp
<1>2. PICK x : \E a, b \in Texts :
          /\ WellFormed(x) /\ x.text = u.text
          /\ Latex(u, options).text = a \o LatexRows(x, options) \o b
  <2>1. LatexIn(u, options, Characters)
    BY <1>1, LatexParts
  <2> QED BY <2>1 DEF LatexIn, Texts
<1>3. PICK k \in Nat : k = estimate_num_columns(x)
  BY <1>2, WellFormedRows
<1>4. \A s, y \in Texts : s \o y \in Texts
  BY TextsLanguage DEF Language
<1>5. /\ <<" ", "&", " ">> \in Texts /\ <<" ", "\\\\", "\n">> \in Texts
      /\ Indentation(options) \in Texts
  BY Zenon, <1>1, LatexMarks DEF Texts
<1>6. ASSUME NEW i \in 1..Len(x.text) PROVE LatexRow(x, options, i) \in Texts
  <2>1. x.text[i] \in [1..k -> Texts]
    BY <1>2, <1>3, CellTexts
  <2>2. Separated(x.text[i], <<" ", "&", " ">>) \in Texts
    BY Zenon, <1>3, <1>5, <2>1, SeparatedType, TextsLanguage
  <2>3. Indentation(options) \o Separated(x.text[i], <<" ", "&", " ">>) \in Texts
    BY Zenon, <1>4, <1>5, <2>2
  <2> QED BY Zenon, <1>4, <1>5, <2>3 DEF LatexRow
<1>7. LatexRows(x, options) \in Texts
  <2>1. [i \in 1..Len(x.text) |-> LatexRow(x, options, i)] \in [1..Len(x.text) -> Texts]
    BY <1>6
  <2>2. Len(x.text) \in Nat
    BY <1>2, WellFormedRows
  <2> QED BY Zenon, <2>1, <2>2, Joined, TextsLanguage DEF Join, LatexRows
<1> QED BY Zenon, <1>2, <1>4, <1>7

----------------------------------------------------------------------------
(* The tables of E2Info. *)

\* Every format of the sheet has member m in V.
Holds(u, m, V) ==
    /\ u.table[m] \in V
    /\ \A i \in 1..Len(u.text) : u.rows[i][m] \in V
    /\ \A p \in Positions(u) : u.cells[p[1]][p[2]][m] \in V

LEMMA SelfOwned ==
    ASSUME NEW u, WellFormed(u)
    PROVE  Owned(u.cells, u)
BY WellFormedRows DEF Owned, Keeps

LEMMA CreateHolds ==
    ASSUME NEW m \in Members, NEW V, set_defaults[m] \in V
    PROVE  Holds(create, m, V)
<1>1. create.text = << >> /\ create.table = set_defaults
  BY DEF create
<1>2. 1..Len(create.text) = {}
  BY <1>1, EmptySeq
<1>3. Positions(create) = {}
  BY <1>2 DEF Positions
<1> QED BY <1>1, <1>2, <1>3 DEF Holds

\* A row that is added has no formats.
LEMMA AddRowHolds ==
    ASSUME NEW u, WellFormed(u), NEW m \in Members, NEW V, NoValue \in V, Holds(u, m, V),
           NEW texts \in Seq(Texts),
           u.text # << >> => Len(texts) <= estimate_num_columns(u)
    PROVE  LET w == add_row(u, texts)
           IN  /\ WellFormed(w) /\ Holds(w, m, V)
               /\ Len(w.text) = Len(u.text) + 1
               /\ estimate_num_columns(w) = IF u.text = << >> THEN Len(texts)
                                            ELSE estimate_num_columns(u)
<1>1. PICK w : w = add_row(u, texts)
  OBVIOUS
<1>2. /\ WellFormed(w) /\ Len(w.text) = Len(u.text) + 1
      /\ estimate_num_columns(w) = IF u.text = << >> THEN Len(texts)
                                   ELSE estimate_num_columns(u)
  BY Zenon, <1>1, SelfOwned, AddRowKeeps
<1>3. PICK x : w = AppendRow(u, x)
  BY Zenon, <1>1 DEF add_row
<1>4. /\ w.table = u.table /\ w.text = Append(u.text, x) /\ w.rows = Append(u.rows, Format)
      /\ w.cells = Append(u.cells, Tuple(Len(x), LAMBDA j : Format))
  BY <1>3 DEF AppendRow
<1>5. PICK n \in Nat : n = Len(u.text) /\ Len(u.rows) = n /\ Len(u.cells) = n /\ Len(w.text) = n + 1
  BY <1>2, WellFormedRows
<1>6. Format[m] \in V
  BY DEF Format
<1>7. ASSUME NEW i \in 1..Len(w.text) PROVE w.rows[i][m] \in V
  <2>1. u.rows \in Seq(Formats)
    BY WellFormedRows
  <2>2. /\ \A k \in 1..n : w.rows[k] = u.rows[k]
        /\ w.rows[n + 1] = Format
    BY SMTT(40), <1>4, <1>5, <2>1, EmptyFormat, AppendProperties
  <2>3. CASE i \in 1..n
    BY <1>5, <2>2, <2>3 DEF Holds
  <2>4. CASE i = n + 1
    BY <1>6, <2>2, <2>4
  <2> QED BY <1>5, <1>7, <2>3, <2>4
<1>8. ASSUME NEW p \in Positions(w) PROVE w.cells[p[1]][p[2]][m] \in V
  <2>1. p[1] \in 1..(n + 1) /\ p[2] \in 1..estimate_num_columns(w)
    BY <1>5 DEF Positions
  <2>2. /\ \A k \in 1..n : w.cells[k] = u.cells[k]
        /\ w.cells[n + 1] = Tuple(Len(x), LAMBDA j : Format)
    <3>1. PICK row : row = Tuple(Len(x), LAMBDA j : Format)
      OBVIOUS
    <3>2. w.cells = Append(u.cells, row)
      BY <1>4, <3>1
    <3>3. Len(u.cells) \in Nat /\ u.cells \in Seq(Seq(Formats))
      BY WellFormedRows, LenProperties
    <3> QED BY SMTT(40), <1>5, <3>1, <3>2, <3>3, AppendProperties
  <2>3. CASE p[1] \in 1..n
    <3>1. p \in Positions(u)
      BY <1>2, <1>5, <2>1, <2>3 DEF Positions
    <3> QED BY <2>2, <2>3, <3>1 DEF Holds
  <2>4. CASE p[1] = n + 1
    <3>1. n + 1 \in 1..Len(w.text) /\ WellFormed(w)
      BY <1>2, <1>5
    <3>2. Len(w.cells[n + 1]) = estimate_num_columns(w)
      BY <3>1, WellFormedRows
    <3> QED BY <1>6, <2>1, <2>2, <2>4, <3>2 DEF Tuple
  <2> QED BY <1>5, <2>1, <2>3, <2>4
<1>9. w.table[m] \in V
  BY <1>4 DEF Holds
<1>10. Holds(w, m, V)
  BY <1>7, <1>8, <1>9 DEF Holds
<1> QED BY Zenon, <1>1, <1>2, <1>10

\* The text of a cell set.
LEMMA SetTextHolds ==
    ASSUME NEW u, WellFormed(u), NEW m \in Members, NEW V, Holds(u, m, V),
           NEW i \in 1..Len(u.text), NEW j \in 1..estimate_num_columns(u), NEW s \in Texts
    PROVE  LET w == set_text(u, i, j, s)
           IN  /\ WellFormed(w) /\ Holds(w, m, V)
               /\ Len(w.text) = Len(u.text)
               /\ estimate_num_columns(w) = estimate_num_columns(u)
<1> DEFINE row == [u.text[i] EXCEPT ![j] = s]
           text == [u.text EXCEPT ![i] = row]
           w == [text |-> text, table |-> u.table, rows |-> u.rows, cells |-> u.cells]
<1>1. /\ u.text \in Seq(Seq(Texts)) /\ Len(u.text) \in Nat
      /\ \A k \in 1..Len(u.text) : Len(u.text[k]) = estimate_num_columns(u)
  BY WellFormedRows
<1>2. row \in Seq(Texts) /\ Len(row) = estimate_num_columns(u)
  <2>1. u.text[i] \in Seq(Texts)
    <3> DEFINE S == Seq(Texts)
    <3>1. u.text \in Seq(S)
      BY <1>1
    <3> HIDE DEF S
    <3> QED BY <3>1, ElementOfSeq DEF S
  <2>2. j \in 1..Len(u.text[i])
    BY <1>1
  <2> QED BY <1>1, <2>1, <2>2, ExceptSeq
<1>3. /\ text \in Seq(Seq(Texts)) /\ Len(text) = Len(u.text)
      /\ \A k \in 1..Len(u.text) : text[k] = IF k = i THEN row ELSE u.text[k]
  <2> DEFINE S == Seq(Texts)
  <2>1. u.text \in Seq(S) /\ row \in S
    BY <1>1, <1>2
  <2> HIDE DEF S, row
  <2> QED BY <2>1, ExceptSeq DEF S
<1>4. set_text(u, i, j, s) = w
  <2>1. u = [text |-> u.text, table |-> u.table, rows |-> u.rows, cells |-> u.cells]
    BY SheetRecord
  <2>2. [u EXCEPT !.text = text] = w
    <3> HIDE DEF text
    <3> QED BY <2>1
  <2>3. set_text(u, i, j, s) = [u EXCEPT !.text = text]
    BY DEF set_text
  <2> QED BY <2>2, <2>3
<1>5. w.text = text /\ w.table = u.table /\ w.rows = u.rows /\ w.cells = u.cells
  OBVIOUS
<1>6. estimate_num_columns(w) = estimate_num_columns(u)
  <2>1. text # << >> /\ u.text # << >> /\ 1 \in 1..Len(u.text)
    <3> HIDE DEF text
    <3> QED BY <1>1, <1>3, EmptySeq
  <2>2. Len(text[1]) = Len(u.text[1])
    <3> HIDE DEF text, row
    <3> QED BY <1>1, <1>2, <1>3, <2>1
  <2> HIDE DEF w, text
  <2> QED BY <1>5, <2>1, <2>2 DEF estimate_num_columns
<1>7. w \in Sheets
  <2>1. u.table \in Formats /\ u.rows \in Seq(Formats) /\ u.cells \in Seq(Seq(Formats))
    BY WellFormedRows
  <2> HIDE DEF text
  <2> QED BY <1>3, <2>1 DEF Sheets
<1> HIDE DEF w
<1>8. \A k \in 1..Len(w.text) : Len(w.text[k]) = estimate_num_columns(w)
  <2> HIDE DEF text, row
  <2> QED BY <1>1, <1>2, <1>3, <1>5, <1>6
<1>9. WellFormed(w)
  <2> HIDE DEF text
  <2> QED BY <1>3, <1>5, <1>6, <1>7, <1>8, WellFormedRows DEF WellFormed
<1>10. Holds(w, m, V)
  <2>1. Positions(w) = Positions(u)
    BY <1>3, <1>5, <1>6 DEF Positions
  <2> HIDE DEF text
  <2> QED BY <1>3, <1>5, <2>1 DEF Holds
<1> HIDE DEF text
<1> QED BY Zenon, <1>3, <1>4, <1>5, <1>6, <1>9, <1>10

\* A setter of other members leaves m as it is on the table,
LEMMA SetTableHolds ==
    ASSUME NEW u, WellFormed(u), NEW m \in Members, NEW V, Holds(u, m, V),
           NEW s, NEW v, Legal(s, v), Set(u.table, s, v)[m] \in V
    PROVE  LET w == SetTable(u, s, v)
           IN  WellFormed(w) /\ Holds(w, m, V) /\ w.text = u.text
<1>1. PICK w : w = SetTable(u, s, v)
  OBVIOUS
<1>2. WellFormed(w) /\ w.text = u.text
  BY Zenon, <1>1, SelfOwned, SetTableKeeps
<1>3. w.table = Set(u.table, s, v) /\ w.rows = u.rows /\ w.cells = u.cells
  <2>1. u = [text |-> u.text, table |-> u.table, rows |-> u.rows, cells |-> u.cells]
    BY SheetRecord
  <2>2. PICK d : d = Set(u.table, s, v)
    OBVIOUS
  <2>3. w = [u EXCEPT !.table = d]
    BY <1>1, <2>2 DEF SetTable
  <2> QED BY <2>1, <2>2, <2>3
<1>4. Positions(w) = Positions(u)
  BY <1>2 DEF Positions, estimate_num_columns
<1>5. Holds(w, m, V)
  BY <1>2, <1>3, <1>4 DEF Holds
<1> QED BY Zenon, <1>1, <1>2, <1>5

\* or on a row.
LEMMA SetRowHolds ==
    ASSUME NEW u, WellFormed(u), NEW m \in Members, NEW V, Holds(u, m, V),
           NEW s, NEW v, Legal(s, v), NEW i \in 1..Len(u.text),
           \A f : f[m] = Merged(m, u.rows[i][m], u.table[m]) => Set(f, s, v)[m] \in V
    PROVE  LET w == SetRow(u, i, s, v)
           IN  WellFormed(w) /\ Holds(w, m, V) /\ w.text = u.text
<1>1. PICK w : w = SetRow(u, i, s, v)
  OBVIOUS
<1>2. WellFormed(w) /\ w.text = u.text
  BY ZenonT(30), <1>1, SelfOwned, SetRowKeeps
<1>3. PICK r : r = merge(u.rows[i], u.table)
  OBVIOUS
<1>4. Set(r, s, v)[m] \in V
  BY <1>3, MergeMember
<1>5. /\ w.table = u.table /\ w.cells = u.cells
      /\ \A k \in 1..Len(u.text) : w.rows[k] = IF k = i THEN Set(r, s, v) ELSE u.rows[k]
  <2>1. u = [text |-> u.text, table |-> u.table, rows |-> u.rows, cells |-> u.cells]
    BY SheetRecord
  <2>2. LookAtRow(u, i) = [u EXCEPT !.rows = [u.rows EXCEPT ![i] = r]]
    BY <1>3 DEF LookAtRow
  <2>3. PICK x : x = LookAtRow(u, i)
    OBVIOUS
  <2>4. x = [text |-> u.text, table |-> u.table, rows |-> [u.rows EXCEPT ![i] = r],
             cells |-> u.cells]
    BY <2>1, <2>2, <2>3
  <2>5. DOMAIN u.rows = 1..Len(u.text)
    BY WellFormedRows, LenProperties
  <2>6. x.rows[i] = r /\ \A k \in 1..Len(u.text) : k # i => x.rows[k] = u.rows[k]
    BY <2>4, <2>5
  <2>7. PICK q : q = Set(r, s, v)
    OBVIOUS
  <2>8. w = [x EXCEPT !.rows = [x.rows EXCEPT ![i] = q]]
    <3>1. w = [x EXCEPT !.rows[i] = Set(x.rows[i], s, v)]
      BY <1>1, <2>3 DEF SetRow
    <3> QED BY <2>6, <2>7, <3>1
  <2>9. DOMAIN x.rows = 1..Len(u.text)
    BY <2>4, <2>5
  <2>10. w.rows = [x.rows EXCEPT ![i] = q] /\ w.table = u.table /\ w.cells = u.cells
    BY <2>4, <2>8
  <2> QED BY <2>6, <2>7, <2>9, <2>10
<1>6. Positions(w) = Positions(u)
  BY <1>2 DEF Positions, estimate_num_columns
<1>7. Holds(w, m, V)
  BY <1>2, <1>4, <1>5, <1>6 DEF Holds
<1> QED BY Zenon, <1>1, <1>2, <1>7

\* A print returns when no column is configured to a width.
LEMMA UnconfiguredReturns ==
    ASSUME NEW u, WellFormed(u), Holds(u, "width", {NoValue})
    PROVE  Full(Settled(u)) /\ Returns(Settled(u))
<1>1. PICK v : v = Settled(u)
  OBVIOUS
<1>2. WellFormed(v) /\ v.text = u.text
  BY <1>1, SettledLooks DEF Looked
<1>3. Positions(v) = Positions(u) /\ estimate_num_columns(v) = estimate_num_columns(u)
  BY <1>2 DEF Positions, estimate_num_columns
<1>4. "width" \in Members /\ "width" # "font_style"
  BY DEF Members, SizeMembers
<1>5. ASSUME NEW p \in Positions(v) PROVE v.cells[p[1]][p[2]]["width"] = NoValue
  <2>1. v.cells[p[1]][p[2]]["width"] = ShownAt(u, p, "width")
    BY <1>1, <1>3, <1>4, SettledLooks DEF Look
  <2>2. u.table["width"] = NoValue /\ u.cells[p[1]][p[2]]["width"] = NoValue
    BY <1>3 DEF Holds
  <2>3. u.rows[p[1]]["width"] = NoValue
    BY <1>3 DEF Holds, Positions
  <2> QED BY <1>4, <2>1, <2>2, <2>3 DEF ShownAt, Shown
<1>6. ASSUME NEW j \in 1..estimate_num_columns(v) PROVE get_configured_width(v, j) = 0
  <2>1. DOMAIN v.cells = 1..Len(v.text)
    BY <1>2, WellFormedRows, LenProperties
  <2>2. ASSUME NEW i \in DOMAIN v.cells PROVE v.cells[i][j]["width"] = NoValue
    <3>1. <<i, j>> \in Positions(v)
      BY <2>1 DEF Positions
    <3> QED BY <1>5, <3>1
  <2>3. {v.cells[i][j]["width"] : i \in {i \in DOMAIN v.cells : v.cells[i][j]["width"] # NoValue}} = {}
    BY <2>2
  <2>4. get_configured_width(v, j) = Max({0} \cup {})
    BY <2>3 DEF get_configured_width
  <2>5. Max({0} \cup {}) = 0
    BY DEF Max
  <2> QED BY <2>4, <2>5
<1>7. ~Narrow(v)
  <2> SUFFICES ASSUME NEW c \in Cells(v), NEW k, get_configured_width(v, c[2]) \in 1..k PROVE FALSE
    BY Zenon DEF Narrow
  <2>1. c[2] \in 1..estimate_num_columns(v)
    BY DEF Cells
  <2>2. get_configured_width(v, c[2]) = 0
    BY <1>6, <2>1
  <2> QED BY <2>2
<1>8. Padded(v)
  BY <1>1, SettledPadded
<1>9. ~PrintHangs(v)
  BY <1>7, <1>8, HangsInNarrow
<1>10. Full(v)
  BY <1>1, SettledFull
<1>11. Returns(v)
  BY <1>9, <1>10, ReturnsUnlessHangs
<1> QED BY <1>1, <1>10, <1>11

\* No cell has a style when none has been set.
LEMMA UnstyledCells ==
    ASSUME NEW u, WellFormed(u), Holds(u, "font_style", {NoValue, {}}),
           NEW i \in 1..Len(u.text), NEW j \in 1..estimate_num_columns(u)
    PROVE  Settled(u).cells[i][j]["font_style"] = {}
<1>1. PICK p : p = <<i, j>>
  OBVIOUS
<1>2. p \in Positions(u) /\ p[1] = i /\ p[2] = j
  BY <1>1 DEF Positions
<1>3. Settled(u).cells[i][j]["font_style"] = ShownAt(u, p, "font_style")
  BY <1>2, FontStyleIsMember, SettledLooks DEF Look
<1>4. u.table["font_style"] = {}
  BY FontStyleIsMember DEF Holds, WellFormed
<1>5. u.rows[i]["font_style"] \in {NoValue, {}} /\ u.cells[i][j]["font_style"] \in {NoValue, {}}
  BY <1>2 DEF Holds
<1>6. ASSUME NEW a \in {NoValue, {}} PROVE Layered(a, {}) = {}
  BY DEF Layered, Styles
<1>7. ShownAt(u, p, "font_style") = Layered(u.cells[i][j]["font_style"],
                                            Layered(u.rows[i]["font_style"], {}))
  BY Zenon, <1>2, <1>4 DEF ShownAt, Shown
<1> QED BY <1>3, <1>5, <1>6, <1>7

\* What the provers should know of the rows of e2NodesInfoTab.
NodeRows(f, nodes) ==
    f = [n \in 0..Len(nodes) |->
            IF n = 0 THEN add_row(create, [k \in DOMAIN Titles |-> <<Titles[k]>>])
            ELSE AddNode(f[n - 1], nodes[n])]

LEMMA NodeRowsDef ==
    ASSUME NEW S, NEW nodes \in Seq(S)
    PROVE  \E f : /\ NodeRows(f, nodes)
                  /\ e2NodesInfoTab(nodes) =
                        SetRow(SetRow(SetTable(f[Len(nodes)], "column_separator", << >>),
                                      1, "font_align", "center"), 1, "font_style", {"bold"})
<1> DEFINE titles == add_row(create, [k \in DOMAIN Titles |-> <<Titles[k]>>])
           Upto(f, n) ==
              f = [i \in 0..n |-> IF i = 0 THEN titles ELSE AddNode(f[i - 1], nodes[i])]
           T == {n \in Nat : \E f : Upto(f, n)}
<1> HIDE DEF titles
<1>1. 0 \in T
  <2> DEFINE f == [i \in 0..0 |-> titles]
  <2>1. Upto(f, 0)
    OBVIOUS
  <2> QED BY <2>1
<1>2. ASSUME NEW n \in Nat, n \in T PROVE n + 1 \in T
  <2>1. PICK f : Upto(f, n)
    BY <1>2
  <2> DEFINE last == AddNode(f[n], nodes[n + 1])
             g == [i \in 0..(n + 1) |-> IF i = n + 1 THEN last ELSE f[i]]
  <2>2. ASSUME NEW i \in 0..(n + 1)
        PROVE  g[i] = IF i = 0 THEN titles ELSE AddNode(g[i - 1], nodes[i])
    <3>1. CASE i = n + 1
      BY <3>1
    <3>2. CASE i # n + 1
      <4>1. i \in 0..n
        BY <3>2
      <4>2. f[i] = IF i = 0 THEN titles ELSE AddNode(f[i - 1], nodes[i])
        BY <2>1, <4>1
      <4>3. g[i] = f[i] /\ (i # 0 => g[i - 1] = f[i - 1])
        BY <4>1
      <4> QED BY <4>2, <4>3
    <3> QED BY <3>1, <3>2
  <2>3. g = [i \in 0..(n + 1) |-> g[i]]
    OBVIOUS
  <2>4. Upto(g, n + 1)
    <3> HIDE DEF g
    <3> QED BY <2>2, <2>3
  <2> QED
    <3> HIDE DEF g, Upto
    <3> QED BY <2>4
<1>3. Len(nodes) \in T
  <2> HIDE DEF T
  <2> QED BY <1>1, <1>2, Induction, LenProperties
<1>4. \E f : NodeRows(f, nodes)
  BY <1>3 DEF NodeRows, titles
<1> DEFINE rows == CHOOSE f : NodeRows(f, nodes)
<1>5. NodeRows(rows, nodes)
  BY <1>4
<1>6. e2NodesInfoTab(nodes) =
          SetRow(SetRow(SetTable(rows[Len(nodes)], "column_separator", << >>),
                        1, "font_align", "center"), 1, "font_style", {"bold"})
  BY DEF e2NodesInfoTab, NodeRows
<1> QED BY <1>5, <1>6

LEMMA LetterTexts ==
    ASSUME NEW x \in Letter
    PROVE  <<x>> \in Texts
<1>1. x \in Characters
  BY Zenon DEF Letter, Characters
<1> QED BY Zenon, <1>1, Single DEF Texts

LEMMA MarkTexts ==
    ASSUME NEW x \in Marks
    PROVE  <<x>> \in Texts
<1>1. x \in Characters
  BY MarksAreCharacters
<1> QED BY Zenon, <1>1, Single DEF Texts

LEMMA TitleTexts ==
    /\ [k \in DOMAIN Titles |-> <<Titles[k]>>] \in Seq(Texts)
    /\ Len([k \in DOMAIN Titles |-> <<Titles[k]>>]) = 8
<1>1. DOMAIN Titles = 1..8
  <2>1. ASSUME NEW a, NEW b, NEW c, NEW d, NEW e, NEW f, NEW g, NEW h
        PROVE  DOMAIN <<a, b, c, d, e, f, g, h>> = 1..8
    OBVIOUS
  <2> QED BY Zenon, <2>1 DEF Titles
<1>2. ASSUME NEW k \in 1..8 PROVE Titles[k] \in Marks
  <2>1. /\ Titles[1] = "index" /\ Titles[2] = "nb_id" /\ Titles[3] = "mcc" /\ Titles[4] = "mnc"
        /\ Titles[5] = "mnc_digit_len" /\ Titles[6] = "ran_type" /\ Titles[7] = "cu_du_id"
        /\ Titles[8] = "supported rf_ids"
    BY DEF Titles
  <2>2. k \in {1, 2, 3, 4, 5, 6, 7, 8}
    BY <1>2
  <2> QED BY ZenonT(30), <2>1, <2>2 DEF Marks
<1>3. PICK f : f = [k \in 1..8 |-> <<Titles[k]>>]
  OBVIOUS
<1>4. f \in [1..8 -> Texts]
  BY <1>2, <1>3, MarkTexts
<1>5. f \in Seq(Texts) /\ Len(f) = 8
  <2>1. PICK n \in Nat : n = 8
    OBVIOUS
  <2>2. f \in [1..n -> Texts]
    BY <1>4, <2>1
  <2>3. f \in Seq(Texts) /\ Len(f) = n
    BY <2>2, TupleSeq
  <2> QED BY <2>1, <2>3
<1> QED BY <1>1, <1>3, <1>5

\* One more node.
LEMMA AddNodeHolds ==
    ASSUME NEW u, WellFormed(u), NEW m \in Members, NEW V, NoValue \in V, Holds(u, m, V),
           u.text # << >>, estimate_num_columns(u) = 8, NEW node \in E2Node,
           ToString(Len(u.text) - 1) \in Letter
    PROVE  LET w == AddNode(u, node)
           IN  /\ WellFormed(w) /\ Holds(w, m, V)
               /\ Len(w.text) = Len(u.text) + 1 /\ estimate_num_columns(w) = 8
<1>1. PICK texts : texts = FirstCells(Len(u.text) - 1, node)
  OBVIOUS
<1>2. texts \in Seq(Texts) /\ Len(texts) = 6
  <2>1. /\ node.nb_id \in Letter /\ node.mcc \in Letter /\ node.mnc \in Letter
        /\ node.mnc_digit_len \in Letter /\ node.type \in Letter
    BY DEF E2Node
  <2>2. PICK a \in Texts : a = <<ToString(Len(u.text) - 1)>>
    BY LetterTexts
  <2>3. PICK b \in Texts : b = <<node.nb_id>>
    BY <2>1, LetterTexts
  <2>4. PICK c \in Texts : c = <<node.mcc>>
    BY <2>1, LetterTexts
  <2>5. PICK d \in Texts : d = <<node.mnc>>
    BY <2>1, LetterTexts
  <2>6. PICK e \in Texts : e = <<node.mnc_digit_len>>
    BY <2>1, LetterTexts
  <2>7. PICK f \in Texts : f = <<node.type>>
    BY <2>1, LetterTexts
  <2>8. texts = <<a, b, c, d, e, f>>
    BY <1>1, <2>2, <2>3, <2>4, <2>5, <2>6, <2>7 DEF FirstCells
  <2> QED BY <2>8
<1>3. PICK rf \in Texts : rf = FlattenSeq([k \in DOMAIN node.rf |-> <<node.rf[k], " ">>])
  <2>1. node.rf \in Seq(Letter)
    BY DEF E2Node
  <2>2. PICK n \in Nat : n = Len(node.rf) /\ DOMAIN node.rf = 1..n
    BY <2>1, LenProperties
  <2>3. PICK f : f = [k \in 1..n |-> <<node.rf[k], " ">>]
    BY Zenon
  <2>4. ASSUME NEW k \in 1..n PROVE f[k] \in Texts
    <3>1. node.rf[k] \in Characters
      BY <2>1, <2>2, ElementOfSeq DEF Letter, Characters
    <3>2. " " \in Characters
      BY Zenon, MarksAreCharacters DEF Marks
    <3>3. ASSUME NEW D, NEW x \in D, NEW y \in D PROVE <<x, y>> \in Seq(D)
      BY <3>3
    <3>4. <<node.rf[k], " ">> \in Seq(Characters)
      BY Zenon, <3>1, <3>2, <3>3
    <3> QED BY Zenon, <2>3, <3>4 DEF Texts
  <2>5. f \in [1..n -> Texts]
    BY Zenon, <2>3, <2>4
  <2>6. FlattenSeq(f) \in Texts
    BY <2>5, TextsLanguage, Joined
  <2> QED BY Zenon, <2>2, <2>3, <2>6
<1>4. PICK v : v = add_row(u, texts)
  OBVIOUS
<1>5. PICK n \in Nat : n = Len(u.text)
  BY WellFormedRows
<1>6. /\ WellFormed(v) /\ Holds(v, m, V) /\ Len(v.text) = n + 1
      /\ estimate_num_columns(v) = 8
  <2>1. Len(texts) <= estimate_num_columns(u)
    BY <1>2
  <2> QED BY Zenon, <1>2, <1>4, <1>5, <2>1, AddRowHolds
<1>7. PICK w : w = IF NODE_IS_MONOLITHIC(node.type) \/ NODE_IS_CU(node.type) THEN v
                   ELSE set_text(v, Len(v.text), 7, <<node.cu_du_id>>)
  OBVIOUS
<1>8. n + 1 \in 1..Len(v.text) /\ 7 \in 1..8 /\ 8 \in 1..8
  BY <1>6
<1>9. WellFormed(w) /\ Holds(w, m, V) /\ Len(w.text) = n + 1 /\ estimate_num_columns(w) = 8
  <2>1. PICK s \in Texts : s = <<node.cu_du_id>>
    <3>1. node.cu_du_id \in Letter
      BY DEF E2Node
    <3> QED BY <3>1, LetterTexts
  <2>2. PICK x : x = set_text(v, n + 1, 7, s)
    OBVIOUS
  <2>3. 7 \in 1..estimate_num_columns(v)
    BY <1>6, <1>8
  <2>4. WellFormed(x) /\ Holds(x, m, V) /\ Len(x.text) = n + 1 /\ estimate_num_columns(x) = 8
    BY ZenonT(30), <1>6, <1>8, <2>2, <2>3, SetTextHolds
  <2> QED BY Zenon, <1>6, <1>7, <2>1, <2>2, <2>4
<1>10. PICK x : x = set_text(w, n + 1, 8, rf)
  OBVIOUS
<1>11. WellFormed(x) /\ Holds(x, m, V) /\ Len(x.text) = n + 1 /\ estimate_num_columns(x) = 8
  <2>1. 8 \in 1..estimate_num_columns(w) /\ n + 1 \in 1..Len(w.text)
    BY <1>6, <1>8, <1>9
  <2> QED BY ZenonT(30), <1>9, <1>10, <2>1, SetTextHolds
<1>12. AddNode(u, node) = x
  BY Zenon, <1>1, <1>3, <1>4, <1>6, <1>7, <1>10 DEF AddNode
<1> QED BY Zenon, <1>5, <1>11, <1>12

\* The setters that E2Info calls.
LEMMA E2Calls ==
    /\ Legal("column_separator", << >>) /\ Legal("font_align", "center")
    /\ Legal("border_top", <<"EM DASH">>) /\ Legal("border_bottom", <<"EM DASH">>)
    /\ Legal("font_style", {"bold"})
<1>1. << >> \in Values /\ << >> # NoValue
  <2>1. "locale" \in Members /\ "locale" \in Defaulted
    BY DEF Members, Defaulted, ScreenMembers
  <2>2. set_defaults["locale"] = << >>
    BY <2>1 DEF set_defaults, Default, SizeMembers, CornerTexts, ShowMembers
  <2>3. set_defaults["locale"] \in Values
    BY Zenon, <2>1 DEF Values
  <2> QED BY <2>1, <2>2, <2>3, NoValueAssumption
<1>2. <<"EM DASH">> \in Values /\ <<"EM DASH">> # NoValue
  BY Zenon, DashAssumption DEF Values
<1>3. << >> \in BorderValues /\ <<"EM DASH">> \in BorderValues
  BY Zenon DEF BorderValues
<1>4. ASSUME NEW s \in {"column_separator", "border_top", "border_bottom"},
             NEW v \in BorderValues, v \in Values, v # NoValue
      PROVE  Legal(s, v)
  <2>1. s \in DOMAIN Setters
    BY CalledAreSetters DEF CalledSetters
  <2>2. \A m \in Setters[s] : m \in TextMembers
    BY <2>1, SettersProper DEF Proper, Bordering
  <2> QED BY <1>4, <2>1, <2>2, TypeOfMember DEF Legal
<1>5. Legal("font_style", {"bold"})
  <2>1. {"bold"} \in SUBSET FontStyle
    BY BoldIsStyle
  <2>2. {"bold"} \in Values /\ {"bold"} # NoValue
    BY Zenon, <2>1, NoValueAssumption DEF Values
  <2> QED BY <2>1, <2>2, CalledAreSetters DEF Legal
<1> QED BY Zenon, <1>1, <1>2, <1>3, <1>4, <1>5, MarkdownCalls

\* They set neither a width nor, but for the last, a style.
LEMMA E2Members ==
    ASSUME NEW f, NEW v
    PROVE  /\ Legal("column_separator", v) => Set(f, "column_separator", v)["width"] = f["width"]
           /\ Legal("font_align", v) => Set(f, "font_align", v)["width"] = f["width"]
           /\ Set(f, "font_style", v)["width"] = f["width"]
           /\ \A s : s # "font_style" /\ Legal(s, v) => Set(f, s, v)["font_style"] = f["font_style"]
           /\ \A s \in {"border_top", "border_bottom"} :
                 Legal(s, v) => Set(f, s, v)["width"] = f["width"]
<1>1. "width" \in Members /\ "width" \in Sizes /\ "width" # "font_style"
  BY DEF Members, SizeMembers, Sizes
<1>2. ASSUME NEW s \in {"column_separator", "font_align", "border_top", "border_bottom"}
      PROVE  Set(f, s, v)["width"] = f["width"]
  <2>1. s \in DOMAIN Setters
    BY CalledAreSetters DEF CalledSetters
  <2>2. s \notin DOMAIN SizeSetters
    BY DEF SizeSetters
  <2>3. s \notin DOMAIN ShowSetters /\ s \notin DOMAIN HideSetters /\ s # "font_style"
    BY DEF ShowSetters, HideSetters
  <2>4. Set(f, s, v) = Assign(f, Setters[s], v)
    BY Zenon, <2>3 DEF Set
  <2>5. "width" \notin Setters[s]
    BY <1>1, <2>1, <2>2, SettersProper DEF Proper
  <2> QED BY <1>1, <2>4, <2>5 DEF Assign
<1>3. Set(f, "font_style", v)["width"] = f["width"]
  BY <1>1, StyleSet DEF font_style, Assign
<1>4. ASSUME NEW s, s # "font_style", Legal(s, v)
      PROVE  Set(f, s, v)["font_style"] = f["font_style"]
  <2>1. PICK M, w : "font_style" \notin M /\ Set(f, s, v) = Assign(f, M, w)
    BY <1>4, SetMember
  <2> QED BY <2>1, FontStyleIsMember DEF Assign
<1> QED BY <1>2, <1>3, <1>4

\* The table of the nodes.
LEMMA NodesSheet ==
    ASSUME NEW nodes \in Seq(E2Node), \A n \in DOMAIN nodes : ToString(n - 1) \in Letter
    PROVE  WellFormed(e2NodesInfoTab(nodes)) /\ Holds(e2NodesInfoTab(nodes), "width", {NoValue})
<1>1. PICK f : /\ NodeRows(f, nodes)
               /\ e2NodesInfoTab(nodes) =
                     SetRow(SetRow(SetTable(f[Len(nodes)], "column_separator", << >>),
                                   1, "font_align", "center"), 1, "font_style", {"bold"})
  BY NodeRowsDef
<1>2. "width" \in Members
  BY DEF Members, SizeMembers
<1> DEFINE Rows(u, n) == /\ WellFormed(u) /\ Holds(u, "width", {NoValue})
                         /\ Len(u.text) = n + 1 /\ estimate_num_columns(u) = 8
           T == {n \in Nat : n \in 0..Len(nodes) => Rows(f[n], n)}
<1>3. Len(nodes) \in Nat /\ DOMAIN nodes = 1..Len(nodes)
  BY LenProperties
<1>0. /\ f[0] = add_row(create, [k \in DOMAIN Titles |-> <<Titles[k]>>])
      /\ \A n \in 1..Len(nodes) : f[n] = AddNode(f[n - 1], nodes[n])
  <2>1. PICK first : first = add_row(create, [k \in DOMAIN Titles |-> <<Titles[k]>>])
    OBVIOUS
  <2>2. f = [n \in 0..Len(nodes) |-> IF n = 0 THEN first ELSE AddNode(f[n - 1], nodes[n])]
    BY Zenon, <1>1, <2>1 DEF NodeRows
  <2>3. PICK l \in Nat : l = Len(nodes)
    BY <1>3
  <2>4. f[0] = first
    BY <2>2, <2>3
  <2>5. ASSUME NEW n \in 1..l PROVE f[n] = AddNode(f[n - 1], nodes[n])
    <3>1. n \in 0..l /\ n # 0
      BY <2>5
    <3> QED BY Zenon, <2>2, <2>3, <3>1
  <2> QED BY <2>1, <2>3, <2>4, <2>5
<1>4. 0 \in T
  <2>1. PICK titles \in Seq(Texts) :
            titles = [k \in DOMAIN Titles |-> <<Titles[k]>>] /\ Len(titles) = 8
    BY TitleTexts
  <2>2. f[0] = add_row(create, titles)
    BY <1>3, <1>0, <2>1
  <2>3. set_defaults["width"] = NoValue
    <3>1. set_defaults["width"] = Default("width")
      BY <1>2 DEF set_defaults
    <3> QED BY <3>1 DEF Default, SizeMembers, CornerTexts, ShowMembers
  <2>4. WellFormed(create) /\ create.text = << >> /\ Holds(create, "width", {NoValue})
    BY <1>2, <2>3, CreateKeeps, CreateHolds
  <2>5. PICK u : u = f[0]
    OBVIOUS
  <2>6. /\ WellFormed(u) /\ Holds(u, "width", {NoValue})
        /\ Len(u.text) = Len(create.text) + 1 /\ estimate_num_columns(u) = 8
    <3>1. NoValue \in {NoValue}
      OBVIOUS
    <3> QED BY Zenon, <1>2, <2>1, <2>2, <2>4, <2>5, <3>1, AddRowHolds
  <2>7. Len(create.text) = 0
    BY <2>4, EmptySeq
  <2>8. Rows(u, 0)
    BY <2>6, <2>7
  <2> HIDE DEF Rows
  <2> QED BY <2>5, <2>8
<1>5. ASSUME NEW n \in Nat, n \in T PROVE n + 1 \in T
  <2> SUFFICES ASSUME n + 1 \in 0..Len(nodes) PROVE Rows(f[n + 1], n + 1)
    BY DEF T
  <2>1. PICK k : k = n + 1 /\ k \in 1..Len(nodes) /\ k \in DOMAIN nodes /\ k - 1 = n
    BY <1>3
  <2>0. n \in 0..Len(nodes)
    BY <1>3
  <2>2. PICK u : u = f[n]
    OBVIOUS
  <2>3. Rows(u, n)
    BY <1>5, <2>2, <2>0
  <2>4. PICK node \in E2Node : node = nodes[k]
    BY <2>1, ElementOfSeq
  <2>5. PICK w : w = AddNode(u, node)
    OBVIOUS
  <2>6. f[n + 1] = w
    <3>1. f[k] = AddNode(f[k - 1], nodes[k])
      BY Zenon, <1>0, <2>1
    <3> QED BY Zenon, <2>1, <2>2, <2>4, <2>5, <3>1
  <2>7. u.text # << >> /\ Len(u.text) - 1 = n
    BY <2>3, EmptySeq
  <2>8. ToString(Len(u.text) - 1) \in Letter
    <3>1. ToString(k - 1) \in Letter
      BY Zenon, <2>1
    <3> QED BY Zenon, <2>1, <2>7, <3>1
  <2>9. /\ WellFormed(w) /\ Holds(w, "width", {NoValue})
        /\ Len(w.text) = Len(u.text) + 1 /\ estimate_num_columns(w) = 8
    <3>1. NoValue \in {NoValue}
      OBVIOUS
    <3> QED BY Zenon, <1>2, <2>3, <2>5, <2>7, <2>8, <3>1, AddNodeHolds
  <2> QED BY <2>3, <2>6, <2>9
<1>6. Nat \subseteq T
  <2> HIDE DEF T
  <2> QED BY <1>4, <1>5, Induction
<1>7. PICK u : u = f[Len(nodes)]
  OBVIOUS
<1>8. WellFormed(u) /\ Holds(u, "width", {NoValue}) /\ 1 \in 1..Len(u.text)
  <2>1. PICK l \in Nat : l = Len(nodes) /\ l \in 0..Len(nodes)
    BY <1>3
  <2>2. Rows(f[Len(nodes)], Len(nodes))
    <3>1. l \in T
      BY Zenon, <1>6, <2>1
    <3> HIDE DEF Rows
    <3> QED BY <2>1, <3>1
  <2>3. WellFormed(u) /\ Holds(u, "width", {NoValue}) /\ Len(u.text) = Len(nodes) + 1
    BY Zenon, <1>7, <2>2
  <2> QED BY <1>3, <2>3
<1>9. PICK v : v = SetTable(u, "column_separator", << >>)
  OBVIOUS
<1>10. WellFormed(v) /\ Holds(v, "width", {NoValue}) /\ 1 \in 1..Len(v.text)
  <2>1. Set(u.table, "column_separator", << >>)["width"] \in {NoValue}
    BY ZenonT(30), <1>8, E2Calls, E2Members DEF Holds
  <2>2. WellFormed(v) /\ Holds(v, "width", {NoValue}) /\ v.text = u.text
    <3>1. Legal("column_separator", << >>)
      BY Zenon, E2Calls
    <3> QED BY <1>2, <1>8, <1>9, <2>1, <3>1, SetTableHolds
  <2> QED BY <1>8, <2>2
<1>11. ASSUME NEW x, WellFormed(x), Holds(x, "width", {NoValue}), 1 \in 1..Len(x.text),
              NEW s, NEW a, Legal(s, a), \A g : Set(g, s, a)["width"] = g["width"]
       PROVE  LET y == SetRow(x, 1, s, a)
              IN  WellFormed(y) /\ Holds(y, "width", {NoValue}) /\ 1 \in 1..Len(y.text)
  <2>1. PICK y : y = SetRow(x, 1, s, a)
    OBVIOUS
  <2>2. Merged("width", x.rows[1]["width"], x.table["width"]) = NoValue
    BY <1>11 DEF Merged, Holds
  <2>3. \A g : g["width"] = Merged("width", x.rows[1]["width"], x.table["width"])
               => Set(g, s, a)["width"] \in {NoValue}
    BY <1>11, <2>2
  <2>4. WellFormed(y) /\ Holds(y, "width", {NoValue}) /\ y.text = x.text
    BY <1>2, <1>11, <2>1, <2>3, SetRowHolds
  <2> QED BY <1>11, <2>1, <2>4
<1>12. PICK w : w = SetRow(v, 1, "font_align", "center")
  OBVIOUS
<1>13. WellFormed(w) /\ Holds(w, "width", {NoValue}) /\ 1 \in 1..Len(w.text)
  <2>1. \A g : Set(g, "font_align", "center")["width"] = g["width"]
    BY Zenon, E2Calls, E2Members
  <2> QED BY Zenon, <1>10, <1>11, <1>12, <2>1, E2Calls
<1>14. PICK y : y = SetRow(w, 1, "font_style", {"bold"})
  OBVIOUS
<1>15. WellFormed(y) /\ Holds(y, "width", {NoValue})
  <2>1. \A g : Set(g, "font_style", {"bold"})["width"] = g["width"]
    BY E2Members
  <2> QED BY Zenon, <1>11, <1>13, <1>14, <2>1, E2Calls
<1> QED BY <1>1, <1>7, <1>9, <1>12, <1>14, <1>15

\* The same for the cells of the table around them.
LEMMA TitleSheet ==
    ASSUME NEW inner \in Texts, NEW m \in {"width", "font_style"}
    PROVE  LET title  == add_row(create, << <<"Information of connected E2 nodes">> >>)
               format == SetTable(SetTable(SetTable(title, "column_separator", << >>),
                             "border_top", <<"EM DASH">>), "border_bottom", <<"EM DASH">>)
               center == SetRow(format, 1, "font_align", "center")
               u      == add_row(center, <<inner>>)
           IN  WellFormed(u) /\ Holds(u, m, {NoValue} \cup {set_defaults[m]})
<1> DEFINE V == {NoValue} \cup {set_defaults[m]}
<1>1. m \in Members /\ NoValue \in V
  BY FontStyleIsMember DEF Members, SizeMembers
<1>2. set_defaults["width"] = NoValue /\ set_defaults["font_style"] = {}
  <2>1. set_defaults["width"] = Default("width")
    BY DEF set_defaults, Members, SizeMembers
  <2>2. set_defaults["font_style"] = {}
    BY FontStyleIsMember DEF set_defaults
  <2> QED BY <2>1, <2>2 DEF Default, SizeMembers, CornerTexts, ShowMembers
<1>3. set_defaults[m] \in V
  OBVIOUS
<1>4. ASSUME NEW s \in {"column_separator", "border_top", "border_bottom", "font_align"},
             NEW v, Legal(s, v), NEW f
      PROVE  Set(f, s, v)[m] = f[m]
  BY <1>4, E2Members
<1>5. ASSUME NEW a \in V, NEW b \in V, m = "font_style" => b # NoValue
      PROVE  Merged(m, a, b) \in V
  <2>1. merge_styles({}, {}) = {}
    BY DEF merge_styles
  <2> QED BY <1>2, <1>5, <2>1 DEF Merged
<1> HIDE DEF V
<1>6. PICK text \in Texts : text = <<"Information of connected E2 nodes">>
  <2>1. "Information of connected E2 nodes" \in Marks
    BY DEF Marks
  <2> QED BY Zenon, <2>1, MarkTexts
<1>7. PICK u : u = add_row(create, <<text>>)
  OBVIOUS
<1>8. WellFormed(u) /\ Holds(u, m, V) /\ Len(u.text) = 1 /\ estimate_num_columns(u) = 1
  <2>1. WellFormed(create) /\ create.text = << >> /\ Holds(create, m, V)
    BY <1>1, <1>3, CreateKeeps, CreateHolds
  <2>2. PICK texts : texts = <<text>>
    OBVIOUS
  <2>3. texts \in Seq(Texts) /\ Len(texts) = 1
    BY <2>2
  <2>4. Len(create.text) + 1 = 1
    BY <2>1, EmptySeq
  <2> QED BY Zenon, <1>1, <1>7, <2>1, <2>2, <2>3, <2>4, AddRowHolds
<1>9. ASSUME NEW x, WellFormed(x), Holds(x, m, V),
             NEW s \in {"column_separator", "border_top", "border_bottom"}, NEW v, Legal(s, v)
      PROVE  LET y == SetTable(x, s, v) IN WellFormed(y) /\ Holds(y, m, V) /\ y.text = x.text
  <2>1. Set(x.table, s, v)[m] \in V
    BY <1>4, <1>9 DEF Holds
  <2> QED BY <1>1, <1>9, <2>1, SetTableHolds
<1>10. PICK a : a = SetTable(u, "column_separator", << >>)
  OBVIOUS
<1>11. WellFormed(a) /\ Holds(a, m, V) /\ a.text = u.text
  BY Zenon, <1>8, <1>9, <1>10, E2Calls
<1>12. PICK b : b = SetTable(a, "border_top", <<"EM DASH">>)
  BY Zenon
<1>13. WellFormed(b) /\ Holds(b, m, V) /\ b.text = a.text
  BY Zenon, <1>9, <1>11, <1>12, E2Calls
<1>14. PICK c : c = SetTable(b, "border_bottom", <<"EM DASH">>)
  BY Zenon
<1>15. WellFormed(c) /\ Holds(c, m, V) /\ c.text = b.text
  BY Zenon, <1>9, <1>13, <1>14, E2Calls
<1>16. PICK d : d = SetRow(c, 1, "font_align", "center")
  OBVIOUS
<1>17. WellFormed(d) /\ Holds(d, m, V) /\ d.text = c.text
  <2>1. 1 \in 1..Len(c.text)
    <3>1. Len(c.text) = 1
      BY Zenon, <1>8, <1>11, <1>13, <1>15
    <3> QED BY <3>1
  <2>2. m = "font_style" => c.table[m] # NoValue
    BY <1>15, FontStyleIsMember DEF WellFormed
  <2>3. Merged(m, c.rows[1][m], c.table[m]) \in V
    BY <1>5, <1>15, <2>1, <2>2 DEF Holds
  <2>4. \A f : f[m] = Merged(m, c.rows[1][m], c.table[m])
               => Set(f, "font_align", "center")[m] \in V
    BY ZenonT(30), <1>4, <2>3, E2Calls
  <2>5. Legal("font_align", "center")
    BY Zenon, E2Calls
  <2> QED BY <1>1, <1>15, <1>16, <2>1, <2>4, <2>5, SetRowHolds
<1>18. PICK e : e = add_row(d, <<inner>>)
  OBVIOUS
<1>19. WellFormed(e) /\ Holds(e, m, V)
  <2>1. PICK texts : texts = <<inner>>
    OBVIOUS
  <2>2. texts \in Seq(Texts) /\ Len(texts) = 1
    BY <2>1
  <2>3. estimate_num_columns(d) = 1
    BY <1>8, <1>11, <1>13, <1>15, <1>17 DEF estimate_num_columns
  <2>4. Len(texts) <= estimate_num_columns(d)
    BY <2>2, <2>3
  <2> QED BY Zenon, <1>1, <1>17, <1>18, <2>1, <2>2, <2>4, AddRowHolds
<1> QED BY Zenon, <1>6, <1>7, <1>10, <1>12, <1>14, <1>16, <1>18, <1>19 DEF V

\* What printE2Nodes writes to a terminal: no cell has a font style.
LEMMA E2Print ==
    ASSUME NEW B, B \subseteq Characters, "-" \notin B, BordersInLine,
           NEW nodes \in Seq(E2Node), \A n \in DOMAIN nodes : ToString(n - 1) \in Letter
    PROVE  printE2Nodes(Cout(TRUE), nodes) \in Terminal(B)
<1>1. PICK x : x = e2NodesInfoTab(nodes)
  OBVIOUS
<1>2. WellFormed(x) /\ Holds(x, "width", {NoValue})
  BY <1>1, NodesSheet
<1>3. PICK inner : inner = print_table(StringStream, Settled(x))
  OBVIOUS
<1>4. inner \in Texts
  BY <1>2, <1>3, UnconfiguredReturns, StringPrint
<1>5. PICK u : u = e2NodesInfoTabHdr(nodes)
  OBVIOUS
<1>6. ASSUME NEW m \in {"width", "font_style"}
      PROVE  WellFormed(u) /\ Holds(u, m, {NoValue} \cup {set_defaults[m]})
  <2>1. u = LET title  == add_row(create, << <<"Information of connected E2 nodes">> >>)
                format == SetTable(SetTable(SetTable(title, "column_separator", << >>),
                              "border_top", <<"EM DASH">>), "border_bottom", <<"EM DASH">>)
                center == SetRow(format, 1, "font_align", "center")
            IN  add_row(center, <<inner>>)
    BY Zenon, <1>1, <1>3, <1>5 DEF e2NodesInfoTabHdr
  <2> QED BY Zenon, <1>4, <2>1, TitleSheet
<1>7. set_defaults["width"] = NoValue /\ set_defaults["font_style"] = {}
  <2>1. set_defaults["width"] = Default("width")
    BY DEF set_defaults, Members, SizeMembers
  <2>2. set_defaults["font_style"] = {}
    BY FontStyleIsMember DEF set_defaults
  <2> QED BY <2>1, <2>2 DEF Default, SizeMembers, CornerTexts, ShowMembers
<1>8. WellFormed(u) /\ Holds(u, "width", {NoValue}) /\ Holds(u, "font_style", {NoValue, {}})
  <2>1. {NoValue} \cup {NoValue} = {NoValue} /\ {NoValue} \cup {{}} = {NoValue, {}}
    OBVIOUS
  <2>2. /\ WellFormed(u) /\ Holds(u, "width", {NoValue} \cup {NoValue})
        /\ Holds(u, "font_style", {NoValue} \cup {{}})
    BY Zenon, <1>6, <1>7
  <2> QED BY Zenon, <2>1, <2>2
<1>9. PICK v : v = Settled(u)
  OBVIOUS
<1>10. Full(v) /\ Returns(v)
  BY <1>8, <1>9, UnconfiguredReturns
<1>11. v.text = u.text /\ estimate_num_columns(v) = estimate_num_columns(u)
  BY <1>8, <1>9, SettledLooks DEF Looked, estimate_num_columns
<1>12. \A i \in 1..Len(v.text), j \in 1..estimate_num_columns(v) :
           v.cells[i][j]["font_style"] = {}
  BY <1>8, <1>9, <1>11, UnstyledCells
<1>13. PICK y : y = print_table(Cout(TRUE), v)
  OBVIOUS
<1>14. y \in Terminal(B)
  BY Zenon, <1>10, <1>12, <1>13, TerminalPrint
<1>15. <<"\n">> \in Terminal(B)
  <2>1. {"\n"} \subseteq Tokens /\ {"\n"} \cap FontTokens = {} /\ {"\n"} \cap ColorTokens = {}
    BY Zenon, MarksAreCharacters, TokensAre DEF Marks, Tokens
  <2>2. <<"\n">> \in Seq({"\n"})
    OBVIOUS
  <2> QED BY <2>1, <2>2, KeptNone DEF Terminal
<1>16. y \o <<"\n">> \in Terminal(B)
  BY Zenon, <1>14, <1>15, TerminalLanguage DEF Language
<1>17. printE2Nodes(Cout(TRUE), nodes) = y \o <<"\n">>
  BY Zenon, <1>5, <1>9, <1>13 DEF printE2Nodes
<1> QED BY <1>16, <1>17

LEMMA MarkdownTexts ==
    ASSUME NEW u, WellFormed(u), u.text # << >>, NEW kept, ~MarkdownHangs(u, kept)
    PROVE  MarkdownDump(u, kept).text \in Texts
<1>1. PICK x : x = apply_markdown_format(u, kept)
  OBVIOUS
<1>2. WellFormed(x.sheet)
  BY Zenon, <1>1, MarkdownSheet
<1>3. PICK v : v = Settled(x.sheet)
  OBVIOUS
<1>4. Full(v)
  BY <1>2, <1>3, SettledFull
<1>5. ~PrintHangs(v)
  BY Zenon, <1>1, <1>3 DEF MarkdownHangs
<1>6. print_table(StringStream, v) \in Texts
  BY <1>4, <1>5, ReturnsUnlessHangs, StringPrint
<1>7. MarkdownDump(u, kept).text = print_table(StringStream, v)
  BY <1>1, <1>3 DEF MarkdownDump
<1> QED BY <1>6, <1>7

----------------------------------------------------------------------------
(* Every call of a program. *)

\* What is known of what has been written.
Contained ==
    /\ out.kind \in {"print", "e2"} => out.text \in Terminal(Between)
    /\ out.kind \notin {"print", "e2"} => out.text \in Texts

LEMMA BetweenType == Between \subseteq Characters /\ "-" \notin Between
<1>1. {"\n", "|", "+", " "} \subseteq Characters
  BY Zenon, MarksAreCharacters DEF Marks
<1>2. "-" \notin {"\n", "|", "+", " "}
  OBVIOUS
<1> QED BY Zenon, <1>1, <1>2 DEF Between

\* The texts of the cells are of other characters.
LEMMA TextsBetween ==
    ASSUME IInv, NEW i \in 1..Len(t.text), NEW j \in 1..estimate_num_columns(t)
    PROVE  t.text[i][j] \in Seq((Characters \ Between) \cup {"\n"})
<1>1. PICK s : s = t.text[i][j]
  OBVIOUS
<1>2. s \in Texts
  <2>1. t.text \in Seq(Seq(Texts)) /\ Len(t.text[i]) = estimate_num_columns(t)
    BY WellFormedRows DEF IInv
  <2>2. t.text[i] \in Seq(Texts)
    <3> DEFINE S == Seq(Texts)
    <3>1. t.text \in Seq(S)
      BY <2>1
    <3> HIDE DEF S
    <3> QED BY <3>1, ElementOfSeq DEF S
  <2> QED BY <1>1, <2>1, <2>2, ElementOfSeq
<1>3. PICK n \in Nat : n = Len(s) /\ s \in [1..n -> Characters]
  BY <1>2, LenProperties DEF Texts
<1>4. <<i, j>> \in Cells(t)
  <2>1. <<i, j>> \in Positions(t)
    BY DEF Positions
  <2> QED BY <2>1, CellsArePositions
<1>5. ASSUME NEW x \in Between, x # "\n" PROVE x \notin ToSet(s)
  <2>1. PICK c : c = <<i, j>>
    OBVIOUS
  <2>2. c \in Cells(t) /\ t.text[c[1]][c[2]] = s
    BY <1>1, <1>4, <2>1
  <2> QED BY Zenon, <1>5, <2>2 DEF Between
<1>6. ASSUME NEW k \in 1..n PROVE s[k] \in (Characters \ Between) \cup {"\n"}
  <2>1. s[k] \in Characters /\ s[k] \in ToSet(s)
    BY <1>3 DEF ToSet
  <2> QED BY <1>5, <2>1
<1>7. s \in [1..n -> (Characters \ Between) \cup {"\n"}]
  BY <1>3, <1>6
<1>8. s \in Seq((Characters \ Between) \cup {"\n"})
  BY <1>7, TupleSeq
<1> QED BY <1>1, <1>8

LEMMA BetweenKept ==
    ASSUME t'.text = t.text
    PROVE  Between' = Between
<1>1. estimate_num_columns(t)' = estimate_num_columns(t)
  BY DEF estimate_num_columns
<1>2. Cells(t)' = Cells(t)
  BY <1>1 DEF Cells
<1> QED BY <1>2 DEF Between

LEMMA ContainedInit == Init => Contained
<1>1. Nothing.kind = "none" /\ Nothing.text = << >>
  BY DEF Nothing
<1>2. << >> \in Texts
  BY EmptySeq DEF Texts
<1> QED BY <1>1, <1>2 DEF Init, Contained

LEMMA WrittenParts ==
    ASSUME NEW kind, NEW text
    PROVE  Written(kind, text).kind = kind /\ Written(kind, text).text = text
BY DEF Written

\* A step that writes a text without styles.
LEMMA PlainStep ==
    ASSUME out'.kind \notin {"print", "e2"}, out'.text \in Texts
    PROVE  Contained'
BY Zenon DEF Contained

LEMMA PrintStep ==
    ASSUME BordersInLine, IInv, PrintTable
    PROVE  Contained'
<1>1. WellFormed(t) /\ ~PrintHangs(Settled(t)) /\ t' = Settled(t)
  BY DEF PrintTable, IInv
<1>2. PICK u : u = Settled(t)
  OBVIOUS
<1>3. Full(u) /\ Returns(u)
  BY <1>1, <1>2, SettledFull, ReturnsUnlessHangs
<1>4. u.text = t.text /\ estimate_num_columns(u) = estimate_num_columns(t)
  BY <1>1, <1>2, SettledLooks DEF Looked, estimate_num_columns
<1>5. PICK B : B = Between
  OBVIOUS
<1>6. \A i \in 1..Len(u.text), j \in 1..estimate_num_columns(u) :
          u.text[i][j] \in Seq((Characters \ B) \cup {"\n"})
  BY <1>4, <1>5, TextsBetween
<1>7. PICK text : text = print_table(Cout(TRUE), u)
  BY Zenon
<1>8. text \in Terminal(B)
  BY <1>3, <1>5, <1>6, <1>7, BetweenType, TerminalPrint
<1>9. out'.kind = "print" /\ out'.text = text
  <2>1. out' = Written("print", text)
    BY Zenon, <1>1, <1>2, <1>7 DEF PrintTable
  <2> QED BY <2>1, WrittenParts
<1>10. Between' = Between
  BY <1>1, <1>2, <1>4, BetweenKept
<1> QED BY Zenon, <1>5, <1>8, <1>9, <1>10 DEF Contained

LEMMA E2Step ==
    ASSUME BordersInLine, IInv, PrintE2Nodes
    PROVE  Contained'
<1>1. t' = t
  BY Zenon DEF PrintE2Nodes
<1>2. PICK k \in DOMAIN Program.nodes :
          out' = [kind |-> "e2", text |-> printE2Nodes(Cout(TRUE), Program.nodes[k]),
                  nodes |-> Program.nodes[k], shape |-> << >>]
  BY DEF PrintE2Nodes
<1>3. PICK nodes : nodes = Program.nodes[k]
  OBVIOUS
<1>4. nodes \in Seq(E2Node) /\ \A n \in DOMAIN nodes : ToString(n - 1) \in Letter
  <2>1. /\ Program.nodes \in Seq(Seq(E2Node))
        /\ \A n \in DOMAIN Program.nodes[k] : ToString(n - 1) \in Letter
    BY ProgramsAssumption DEF IInv, Program
  <2> DEFINE S == Seq(E2Node)
  <2>2. Program.nodes \in Seq(S)
    BY <2>1
  <2> HIDE DEF S
  <2>3. Program.nodes[k] \in S
    BY <2>2, LenProperties, ElementOfSeq
  <2> QED BY Zenon, <1>3, <2>1, <2>3 DEF S
<1>5. PICK text : text = printE2Nodes(Cout(TRUE), nodes)
  OBVIOUS
<1>6. text \in Terminal(Between)
  BY Zenon, <1>4, <1>5, BetweenType, E2Print
<1>7. out'.kind = "e2" /\ out'.text = text
  BY <1>2, <1>3, <1>5
<1>8. Between' = Between
  BY Zenon, <1>1, BetweenKept
<1> QED BY Zenon, <1>6, <1>7, <1>8 DEF Contained

LEMMA ContainedNext ==
    ASSUME ~OneExporter, BordersInLine, IInv, Contained, [Next]_vars
    PROVE  Contained'
<1>0. << >> \in Texts
  BY EmptySeq DEF Texts
<1>1. CASE AddRow \/ SetTableFormat \/ SetRowFormat \/ SetCellFormat \/ SetColumnFormat
  <2>1. out' = Nothing
    BY Zenon, <1>1 DEF AddRow, SetTableFormat, SetRowFormat, SetCellFormat, SetColumnFormat
  <2>2. out'.kind = "none" /\ out'.text = << >>
    BY <2>1 DEF Nothing
  <2> QED BY <1>0, <2>2, PlainStep
<1>2. CASE PrintTable
  BY <1>2, PrintStep
<1>3. CASE Str
  <2>1. WellFormed(t) /\ ~PrintHangs(Settled(t)) /\ t' = Settled(t)
    BY <1>3 DEF Str, IInv
  <2>2. PICK text : text = print_table(StringStream, t')
    OBVIOUS
  <2>3. text \in Texts
    BY <2>1, <2>2, SettledFull, ReturnsUnlessHangs, StringPrint
  <2>4. out' = Written("str", text)
    BY Zenon, <1>3, <2>2 DEF Str
  <2> QED BY <2>3, <2>4, WrittenParts, PlainStep
<1>4. CASE Shape
  <2>1. out' = [kind |-> "shape", text |-> << >>, nodes |-> << >>, shape |-> shape(t')]
    BY Zenon, <1>4 DEF Shape
  <2>2. out'.kind = "shape" /\ out'.text = << >>
    BY <2>1
  <2> QED BY <1>0, <2>2, PlainStep
<1>5. CASE PrintNeverReturns
  <2>1. PICK text : text = << >>
    OBVIOUS
  <2>2. out' = Written("print hangs", text)
    BY Zenon, <1>5, <2>1 DEF PrintNeverReturns
  <2>3. text \in Texts
    BY Zenon, <1>0, <2>1
  <2>4. out'.kind = "print hangs" /\ out'.text = text
    BY Zenon, <2>2, WrittenParts
  <2>5. out'.kind \notin {"print", "e2"}
    BY Zenon, <2>4
  <2> QED BY Zenon, <2>3, <2>4, <2>5, PlainStep
<1>6. CASE DumpMarkdown
  <2>1. WellFormed(t) /\ t.text # << >> /\ ~MarkdownHangs(t, formats)
    BY Zenon, <1>6 DEF DumpMarkdown, Exportable, IInv
  <2>2. PICK text : text = MarkdownDump(t, formats).text
    OBVIOUS
  <2>3. text \in Texts
    BY <2>1, <2>2, MarkdownTexts
  <2>4. out' = Written("markdown", text)
    BY Zenon, <1>6, <2>2 DEF DumpMarkdown
  <2> QED BY <2>3, <2>4, WrittenParts, PlainStep
<1>7. CASE DumpNeverReturns
  <2>1. PICK text : text = << >>
    OBVIOUS
  <2>2. out' = Written("dump hangs", text)
    BY Zenon, <1>7, <2>1 DEF DumpNeverReturns
  <2>3. text \in Texts
    BY Zenon, <1>0, <2>1
  <2>4. out'.kind = "dump hangs" /\ out'.text = text
    BY Zenon, <2>2, WrittenParts
  <2>5. out'.kind \notin {"print", "e2"}
    BY Zenon, <2>4
  <2> QED BY Zenon, <2>3, <2>4, <2>5, PlainStep
<1>8. CASE DumpAsciiDoc
  <2>1. WellFormed(t) /\ t.text # << >>
    BY Zenon, <1>8 DEF DumpAsciiDoc, Exportable, IInv
  <2>2. PICK text : text = AsciiDoc(t).text
    OBVIOUS
  <2>3. text \in Texts
    BY <2>1, <2>2, AsciiDocTexts
  <2>4. out' = Written("asciidoc", text)
    BY Zenon, <1>8, <2>2 DEF DumpAsciiDoc
  <2> QED BY <2>3, <2>4, WrittenParts, PlainStep
<1>9. CASE DumpLatex
  <2>1. WellFormed(t) /\ t.text # << >>
    BY Zenon, <1>9 DEF DumpLatex, Exportable, IInv
  <2>2. PICK indentation \in {NoValue, 2} :
            out' = Written("latex", Latex(t, [indentation |-> indentation]).text)
    BY Zenon, <1>9 DEF DumpLatex
  <2>3. PICK options : options = [indentation |-> indentation]
    OBVIOUS
  <2>4. options.indentation \in Nat \cup {NoValue}
    BY <2>3
  <2>5. PICK text : text = Latex(t, options).text
    OBVIOUS
  <2>6. text \in Texts
    BY <2>1, <2>4, <2>5, LatexTexts
  <2>7. out' = Written("latex", text)
    BY Zenon, <2>2, <2>3, <2>5
  <2> QED BY <2>6, <2>7, WrittenParts, PlainStep
<1>10. CASE PrintE2Nodes
  BY <1>10, E2Step
<1>11. CASE UNCHANGED vars
  <2>1. out' = out /\ t' = t
    BY Zenon, <1>11 DEF vars
  <2>2. Between' = Between
    BY Zenon, <2>1, BetweenKept
  <2> QED BY Zenon, <2>1, <2>2 DEF Contained
<1> QED BY Zenon, <1>1, <1>2, <1>3, <1>4, <1>5, <1>6, <1>7, <1>8, <1>9, <1>10, <1>11 DEF Next

\* A style that is kept ends before what it must not reach, and in what is written.
LEMMA KeptEnds ==
    ASSUME NEW C, NEW E, NEW s \in Kept(C, E), NEW k \in DOMAIN s, s[k] \in C
    PROVE  /\ \A n \in k..Len(s) : s[n] \in E => \E r \in k..n : s[r] = ResetCode
           /\ \E r \in k..Len(s) : s[r] = ResetCode
<1>1. s \in Seq(Tokens) /\ Closed(s, C, E)
  BY DEF Kept
<1>2. Len(s) \in Nat /\ k \in 1..Len(s)
  BY <1>1, LenProperties
<1>3. PICK r \in k..Len(s) : s[r] = ResetCode /\ \A n \in k..r : s[n] \notin E
  BY <1>1, <1>2 DEF Closed
<1>4. ASSUME NEW n \in k..Len(s), s[n] \in E PROVE r \in k..n
  <2>1. n \notin k..r
    BY <1>3, <1>4
  <2> QED BY <1>2, <2>1
<1> QED BY <1>3, <1>4

\* The style of a cell stays in it, whatever the table, its texts and its formats
\* are: on a terminal no font style is left on where a text ends, and no colour at
\* the end of a line; a string and a dump have no styles (printer.hpp:61-120,
\* table_internal.hpp:209-389, termcolor.hpp). It is asked that no border or corner
\* set by the program has a newline in it.
THEOREM StylesContained ==
    ASSUME ~OneExporter, BordersInLine PROVE Spec => []StylesStayInCells
<1>1. ASSUME Contained PROVE StylesStayInCells
  <2>1. PICK s : s = out.text
    OBVIOUS
  <2>2. Range(FontCodes) = FontTokens
    BY Zenon DEF FontTokens
  <2>3. ASSUME out.kind \in {"print", "e2"}, NEW k \in DOMAIN s, s[k] \in Codes \ {ResetCode}
        PROVE  /\ \A n \in k..Len(s) :
                     s[n] \in (IF s[k] \in Range(FontCodes) THEN Between ELSE {"\n"}) =>
                        \E r \in k..n : s[r] = ResetCode
               /\ \E r \in k..Len(s) : s[r] = ResetCode
    <3>1. s \in Kept(FontTokens, Between) /\ s \in Kept(ColorTokens, {"\n"})
      BY <1>1, <2>1, <2>3 DEF Contained, Terminal
    <3>2. CASE s[k] \in Range(FontCodes)
      <4>1. s[k] \in FontTokens
        BY Zenon, <2>2, <3>2
      <4>2. /\ \A n \in k..Len(s) : s[n] \in Between => \E r \in k..n : s[r] = ResetCode
            /\ \E r \in k..Len(s) : s[r] = ResetCode
        BY <2>3, <3>1, <4>1, KeptEnds
      <4>3. (IF s[k] \in Range(FontCodes) THEN Between ELSE {"\n"}) = Between
        BY <3>2
      <4> QED BY Zenon, <4>2, <4>3
    <3>3. CASE s[k] \notin Range(FontCodes)
      <4>1. s[k] \in ColorTokens
        BY <2>2, <2>3, <3>3, TokensAre
      <4>2. /\ \A n \in k..Len(s) : s[n] \in {"\n"} => \E r \in k..n : s[r] = ResetCode
            /\ \E r \in k..Len(s) : s[r] = ResetCode
        BY <2>3, <3>1, <4>1, KeptEnds
      <4>3. (IF s[k] \in Range(FontCodes) THEN Between ELSE {"\n"}) = {"\n"}
        BY <3>3
      <4> QED BY Zenon, <4>2, <4>3
    <3> QED BY Zenon, <3>2, <3>3
  <2>4. ASSUME out.kind \notin {"print", "e2"}, NEW k \in DOMAIN s PROVE s[k] \notin Codes
    <3>1. s \in Seq(Characters)
      BY <1>1, <2>1, <2>4 DEF Contained, Texts
    <3>2. s[k] \in Characters
      BY <3>1, <2>4, LenProperties, ElementOfSeq
    <3> QED BY <3>2, TokensAre
  <2> QED BY ZenonT(30), <2>1, <2>3, <2>4 DEF StylesStayInCells
<1> DEFINE CInv == IInv /\ Contained
<1>2. Init => CInv
  BY IndInit, ContainedInit
<1>3. ASSUME ~OneExporter, BordersInLine PROVE CInv /\ [Next]_vars => CInv'
  BY <1>3, IndNext, ContainedNext
<1>4. CInv => StylesStayInCells
  BY <1>1
<1> QED BY <1>2, <1>3, <1>4, PTL DEF Spec

----------------------------------------------------------------------------
(* The letters of the texts. *)

Without(S) == Seq(Tokens \ S)

\* Letters that are never written around a text.
Unframed(S) == Letters(S) /\ S \subseteq Characters /\ BorderValues \subseteq Without(S)

LEMMA WithoutLanguage ==
    ASSUME NEW S
    PROVE  Language(Without(S))
<1>1. Tokens \ S \subseteq Tokens
  OBVIOUS
<1>2. Without(S) \subseteq Seq(Tokens)
  BY <1>1, Widened DEF Without
<1> QED BY <1>2, EmptySeq, ConcatProperties DEF Language, Without

LEMMA WithoutNone ==
    ASSUME NEW S, NEW x \in Without(S)
    PROVE  Only(x, S) = << >>
<1>1. (Tokens \ S) \cap S = {}
  OBVIOUS
<1> QED BY <1>1, OnlyOther DEF Without

\* Styles, spaces, newlines and borders are without them.
LEMMA StylesWithout ==
    ASSUME NEW S, S \subseteq Characters, NEW stream, NEW foreground \in Color,
           NEW background \in Color, NEW styles
    PROVE  /\ apply_element_style(stream, foreground, background, styles) \in Without(S)
           /\ reset(stream) \in Without(S)
<1>1. FontTokens \cup ColorTokens \subseteq Tokens \ S /\ {ResetCode} \subseteq Tokens \ S
  BY TokensAre DEF Tokens
<1>2. /\ apply_element_style(stream, foreground, background, styles)
             \in Seq(FontTokens \cup ColorTokens)
      /\ reset(stream) \in Seq({ResetCode})
  BY ElementStyle
<1> QED BY Zenon, <1>1, <1>2, Widened DEF Without

LEMMA WithoutFraming ==
    ASSUME NEW S, Unframed(S), NEW stream
    PROVE  Framing(Without(S), stream)
<1>0. /\ S \subseteq Characters /\ BorderValues \subseteq Without(S)
      /\ " " \notin S /\ "\n" \notin S
  BY Zenon DEF Unframed, Letters, Space
<1>1. \A a, b \in Without(S) : a \o b \in Without(S)
  BY WithoutLanguage DEF Language
<1>2. " " \in Tokens \ S /\ "\n" \in Tokens \ S
  <2>1. " " \in Characters /\ "\n" \in Characters
    BY Zenon, MarksAreCharacters DEF Marks
  <2> QED BY Zenon, <1>0, <2>1 DEF Tokens
<1>3. \A foreground, background \in Color :
          /\ apply_element_style(stream, foreground, background, {}) \in Without(S)
          /\ reset(stream) \in Without(S)
  BY Zenon, <1>0, StylesWithout
<1>4. newline(stream) \in Without(S)
  <2>1. <<"\n">> \in Without(S)
    BY Zenon, <1>2, Single DEF Without
  <2>2. reset(stream) \in Without(S)
    <3>1. "none" \in Color
      BY DEF Color
    <3> QED BY Zenon, <1>3, <3>1
  <2> QED BY Zenon, <1>1, <2>1, <2>2 DEF newline
<1>5. \A s \in Seq({" "}) : s \in Without(S)
  <2>1. {" "} \subseteq Tokens \ S
    BY Zenon, <1>2
  <2> QED BY Zenon, <2>1, Widened DEF Without
<1>6. <<" ">> \in Without(S)
  BY Zenon, <1>2, Single DEF Without
<1>7. ASSUME NEW foreground \in Color, NEW background \in Color,
             NEW s \in BorderValues \cup {<<" ">>}
      PROVE  Styled(stream, foreground, background, s) \in Without(S)
  <2>1. s \in Without(S)
    BY Zenon, <1>0, <1>6
  <2> QED BY Zenon, <1>1, <1>3, <2>1 DEF Styled
<1> QED BY Zenon, <1>4, <1>5, <1>7 DEF Framing

\* What is between pieces that are without them.
LEMMA AmongOthers ==
    ASSUME NEW S, NEW a \in Without(S), NEW b \in Without(S), NEW y \in Seq(Tokens)
    PROVE  a \o y \o b \in Seq(Tokens) /\ Only(a \o y \o b, S) = Only(y, S)
<1>1. a \in Seq(Tokens) /\ b \in Seq(Tokens)
  BY WithoutLanguage DEF Language
<1>2. \A p, q \in Seq(Tokens) : Only(p \o q, S) = Only(p, S) \o Only(q, S)
  BY OnlyConcat
<1>3. a \o y \in Seq(Tokens) /\ (a \o y) \o b \in Seq(Tokens)
  BY <1>1, ConcatProperties
<1>4. Only(a \o y, S) = Only(a, S) \o Only(y, S)
  BY Zenon, <1>1, <1>2
<1>5. Only((a \o y) \o b, S) = Only(a \o y, S) \o Only(b, S)
  BY Zenon, <1>1, <1>2, <1>3
<1>6. Only(a, S) = << >> /\ Only(b, S) = << >>
  BY WithoutNone
<1>7. (<< >> \o Only(y, S)) \o << >> = Only(y, S)
  <2>1. Only(y, S) \in Seq(Tokens)
    BY OnlyType
  <2> QED BY <2>1
<1> QED BY Zenon, <1>3, <1>4, <1>5, <1>6, <1>7

\* A line of a text has its letters however it is trimmed, styled, aligned and padded.
LEMMA TrimmedLetters ==
    ASSUME NEW S, Letters(S), NEW f, NEW line \in Texts
    PROVE  trimmed(f, line) \in Texts /\ Only(trimmed(f, line), S) = Only(line, S)
<1>1. line \in Seq(Characters) /\ S \cap Space = {}
  BY DEF Texts, Letters
<1>2. \A x \in {trim(line), trim_left(line), trim_right(line), line} :
          x \in Seq(Characters) /\ Only(x, S) = Only(line, S)
  <2>1. \A x \in Seq(Characters) :
            /\ trim(x) \in Seq(Characters) /\ trim_left(x) \in Seq(Characters)
            /\ trim_right(x) \in Seq(Characters)
    BY Trim, TrimLeft, TrimRight
  <2>2. \A x \in Seq(Characters) :
            /\ Only(trim(x), S) = Only(x, S) /\ Only(trim_left(x), S) = Only(x, S)
            /\ Only(trim_right(x), S) = Only(x, S)
    BY <1>1, OnlyTrim, OnlyTrimLeft, OnlyTrimRight
  <2> QED BY Zenon, <1>1, <2>1, <2>2
<1>3. trimmed(f, line) \in {trim(line), trim_left(line), trim_right(line), line}
  BY DEF trimmed
<1> QED BY Zenon, <1>2, <1>3 DEF Texts

LEMMA ContentLetters ==
    ASSUME NEW S, Unframed(S), NEW stream, NEW f, FullFormat(f), NEW line \in Texts,
           NEW w \in Nat
    PROVE  LET x == print_content(stream, f, line, w)
           IN  x \in Seq(Tokens) /\ Only(x, S) = Only(line, S)
<1>0. S \subseteq Characters /\ Language(Without(S)) /\ Framing(Without(S), stream)
  BY WithoutLanguage, WithoutFraming DEF Unframed
<1>1. f["font_color"] \in Color /\ f["font_background_color"] \in Color
  BY PrintedMembers DEF FullFormat
<1>2. PICK a : a = apply_element_style(stream, f["font_color"], f["font_background_color"],
                                       f["font_style"])
  OBVIOUS
<1>3. PICK c : c = apply_element_style(stream, f["font_color"], f["font_background_color"], {})
  OBVIOUS
<1>4. PICK r : r = reset(stream)
  OBVIOUS
<1>5. a \in Without(S) /\ c \in Without(S) /\ r \in Without(S) /\ << >> \in Without(S)
  BY Zenon, <1>0, <1>1, <1>2, <1>3, <1>4, StylesWithout DEF Language
<1>6. line \in Seq(Tokens)
  <2>1. Characters \subseteq Tokens
    BY DEF Tokens
  <2> QED BY <2>1, Widened DEF Texts
<1>7. PICK y : y = a \o line \o r
  OBVIOUS
<1>8. y \in Seq(Tokens) /\ Only(y, S) = Only(line, S)
  BY Zenon, <1>5, <1>6, <1>7, AmongOthers
<1>9. << >> \o y \o c \in Seq(Tokens) /\ Only(<< >> \o y \o c, S) = Only(y, S)
  <2>1. \A b \in Without(S) : \A d \in Without(S) :
            b \o y \o d \in Seq(Tokens) /\ Only(b \o y \o d, S) = Only(y, S)
    BY <1>8, AmongOthers
  <2> QED BY Zenon, <1>5, <2>1
<1>10. << >> \o y \o c = y \o c
  <2>1. << >> \o y = y
    BY <1>8
  <2> QED BY Zenon, <2>1
<1>11. PICK x : x = styled_content(stream, f, line)
  OBVIOUS
<1>12. x = y \o c
  BY Zenon, <1>2, <1>3, <1>4, <1>7, <1>11 DEF styled_content
<1>13. x \in Seq(Tokens) /\ Only(x, S) = Only(line, S)
  BY Zenon, <1>8, <1>9, <1>10, <1>12
<1>14. \E p, q \in Seq({" "}) : print_content(stream, f, line, w) = p \o x \o q
  BY ZenonT(30), <1>11, <1>13, ContentParts
<1>15. PICK p \in Seq({" "}), q \in Seq({" "}) : print_content(stream, f, line, w) = p \o x \o q
  BY Zenon, <1>14
<1>16. p \in Without(S) /\ q \in Without(S)
  BY Zenon, <1>0 DEF Framing
<1>17. p \o x \o q \in Seq(Tokens) /\ Only(p \o x \o q, S) = Only(x, S)
  BY Zenon, <1>13, <1>16, AmongOthers
<1> QED BY Zenon, <1>13, <1>15, <1>17

\* Line k of a row has the letters of the line that is in a cell there.
LEMMA CellLetters ==
    ASSUME NEW S, Unframed(S), NEW stream, NEW f, FullFormat(f), NEW w \in Nat,
           NEW lines \in Seq(Texts), NEW j, NEW n, NEW k
    PROVE  LET x == print_row_in_cell(stream, f, j, n, w, k, lines)
           IN  /\ x \in Seq(Tokens)
               /\ k - f["padding_top"] \in DOMAIN lines =>
                      Only(x, S) = Only(lines[k - f["padding_top"]], S)
               /\ k - f["padding_top"] \notin DOMAIN lines => Only(x, S) = << >>
<1> DEFINE P == Without(S)
<1>0. Language(P) /\ Framing(P, stream) /\ S \subseteq Characters /\ Letters(S)
  BY WithoutLanguage, WithoutFraming DEF Unframed
<1> HIDE DEF P
<1>1. P \subseteq Seq(Tokens) /\ << >> \in P /\ \A a, b \in P : a \o b \in P
  BY <1>0 DEF Language
<1>2. /\ f["font_color"] \in Color /\ f["font_background_color"] \in Color
      /\ f["border_left"] \in BorderValues /\ f["border_right"] \in BorderValues
      /\ f["column_separator"] \in BorderValues
  BY PrintedMembers DEF FullFormat
<1>3. PICK a : a = IF f["show_border_left"]
                   THEN Styled(stream, f["border_left_color"], f["border_left_background_color"],
                               f["border_left"])
                   ELSE << >>
  OBVIOUS
<1>4. PICK b : b = IF f["show_column_separator"]
                   THEN Styled(stream, f["column_separator_color"],
                               f["column_separator_background_color"],
                               IF j # 1 THEN f["column_separator"] ELSE << >>)
                   ELSE << >>
  OBVIOUS
<1>5. PICK c : c = apply_element_style(stream, f["font_color"], f["font_background_color"], {})
  OBVIOUS
<1>6. PICK m : m = IF k - f["padding_top"] \in DOMAIN lines
                   THEN print_content(stream, f, trimmed(f, lines[k - f["padding_top"]]), w)
                   ELSE Spaces(w)
  OBVIOUS
<1>7. PICK r : r = reset(stream)
  OBVIOUS
<1>8. PICK d : d = IF j = n /\ f["show_border_right"]
                   THEN Styled(stream, f["border_right_color"], f["border_right_background_color"],
                               f["border_right"])
                   ELSE << >>
  OBVIOUS
<1>9. print_row_in_cell(stream, f, j, n, w, k, lines) = a \o b \o c \o m \o r \o d
  BY Zenon, <1>3, <1>4, <1>5, <1>6, <1>7, <1>8 DEF print_row_in_cell
<1>10. a \in P /\ b \in P /\ d \in P
  BY Zenon, <1>0, <1>1, <1>2, <1>3, <1>4, <1>8, PrintedMembers, StyledPiece
<1>11. c \in P /\ r \in P
  BY Zenon, <1>0, <1>2, <1>5, <1>7, StylesWithout DEF P
<1>12. PICK before : before = a \o b \o c
  OBVIOUS
<1>13. before \in P
  BY Zenon, <1>1, <1>10, <1>11, <1>12
<1>14. ASSUME m \in Seq(Tokens)
       PROVE  LET x == print_row_in_cell(stream, f, j, n, w, k, lines)
              IN  x \in Seq(Tokens) /\ Only(x, S) = Only(m, S)
  <2>1. PICK y : y = before \o m \o r
    OBVIOUS
  <2>2. y \in Seq(Tokens) /\ Only(y, S) = Only(m, S)
    BY Zenon, <1>11, <1>13, <1>14, <2>1, AmongOthers DEF P
  <2>3. \A p, q \in P : p \o y \o q \in Seq(Tokens) /\ Only(p \o y \o q, S) = Only(y, S)
    BY <2>2, AmongOthers DEF P
  <2>4. << >> \o y \o d \in Seq(Tokens) /\ Only(<< >> \o y \o d, S) = Only(y, S)
    BY Zenon, <1>1, <1>10, <2>3
  <2>5. << >> \o y = y
    BY <2>2
  <2> QED BY Zenon, <1>9, <1>12, <2>1, <2>2, <2>4, <2>5
<1>15. CASE k - f["padding_top"] \in DOMAIN lines
  <2>1. PICK line : line = lines[k - f["padding_top"]]
    OBVIOUS
  <2>2. line \in Texts
    BY <1>15, <2>1, LenProperties, ElementOfSeq
  <2>3. trimmed(f, line) \in Texts /\ Only(trimmed(f, line), S) = Only(line, S)
    BY <1>0, <2>2, TrimmedLetters
  <2>4. m = print_content(stream, f, trimmed(f, line), w)
    BY <1>6, <1>15, <2>1
  <2>5. m \in Seq(Tokens) /\ Only(m, S) = Only(trimmed(f, line), S)
    BY <2>3, <2>4, ContentLetters
  <2> QED BY Zenon, <1>14, <1>15, <2>1, <2>3, <2>5
<1>16. CASE k - f["padding_top"] \notin DOMAIN lines
  <2>1. m = Spaces(w)
    BY <1>6, <1>16
  <2>2. m \in Seq({" "})
    <3>1. w \in Int
      OBVIOUS
    <3> QED BY Zenon, <2>1, <3>1, SpacesAre
  <2>3. m \in P
    BY Zenon, <1>0, <2>2 DEF Framing
  <2>4. m \in Seq(Tokens) /\ Only(m, S) = << >>
    BY <1>1, <2>3, WithoutNone DEF P
  <2> QED BY Zenon, <1>14, <1>16, <2>4
<1> QED BY Zenon, <1>15, <1>16

\* The lines of a cell have the letters of its text, and its row is high enough for
\* them.
Spread(S, f, s, w) ==
    LET lines == splitted_cell_text(f, s, w)
    IN  /\ lines \in Seq(Texts)
        /\ Only(FlattenSeq(lines), S) = Only(s, S)
        /\ f["padding_top"] + Len(lines) <= get_cell_height(f, s, w)
        /\ s \in Seq(Characters \ S) => \A n \in DOMAIN lines : Only(lines[n], S) = << >>

LEMMA LinesLetters ==
    ASSUME NEW S, Letters(S), NEW f, FullFormat(f), NEW s \in Texts, NEW w,
           Wrappable(f, s, w)
    PROVE  Spread(S, f, s, w)
<1>1. "\n" \in Characters /\ "-" \in Characters /\ s \in Seq(Characters)
  BY Zenon, MarksAreCharacters DEF Marks, Texts
<1>2. PICK x : x = wrapped(f, s, w)
  OBVIOUS
<1>3. x \in Seq(Characters)
  BY <1>1, <1>2, WrappedType
<1>4. "\n" \notin S /\ "-" \notin S
  BY DEF Letters
<1>5. Only(x, S) = Only(s, S)
  <2>1. DOMAIN s = 1..Len(s)
    BY <1>1, LenProperties
  <2>2. CASE \E n \in DOMAIN s : s[n] = "\n"
    BY <1>2, <2>2 DEF wrapped
  <2>3. CASE ~\E n \in DOMAIN s : s[n] = "\n"
    <3>1. PICK v : v = content_width(f, w)
      OBVIOUS
    <3>2. WrapEnds(s, v) /\ v \in Nat
      BY <2>1, <2>3, <3>1 DEF content_width, Wrappable
    <3>3. x = word_wrap(s, v)
      BY <1>2, <2>3, <3>1 DEF wrapped
    <3> QED BY <1>1, <3>2, <3>3, WrapKeepsLetters
  <2> QED BY <2>2, <2>3
<1>6. PICK lines : lines = splitted_cell_text(f, s, w)
  OBVIOUS
<1>7. lines = split_lines(x)
  BY <1>2, <1>6 DEF splitted_cell_text
<1>8. /\ lines \in Seq(Texts)
      /\ Only(FlattenSeq(lines), S) = Only(x, S)
      /\ Len(lines) = Cardinality(Newlines(x)) + IF x # << >> /\ Last(x) # "\n" THEN 1 ELSE 0
  BY <1>3, <1>4, <1>7, SplitKept DEF Texts
<1>9. f["padding_top"] + Len(lines) <= get_cell_height(f, s, w)
  <2>1. DOMAIN x = 1..Len(x) /\ Len(x) \in Nat
    BY <1>3, LenProperties
  <2>2. {n \in DOMAIN x : x[n] = "\n"} = Newlines(x)
    BY <2>1 DEF Newlines
  <2>3. Cardinality(Newlines(x)) \in Nat
    <3>1. Newlines(x) \in SUBSET (0..Len(x))
      BY <2>1 DEF Newlines
    <3> QED BY <2>1, <3>1, FiniteNumbers
  <2>4. f["padding_top"] \in Nat /\ f["padding_bottom"] \in Nat
    BY DEF FullFormat, PaddingMembers
  <2>5. PICK one \in Nat : one = IF x # << >> /\ Last(x) # "\n" THEN 1 ELSE 0
    OBVIOUS
  <2>6. get_cell_height(f, s, w)
            = f["padding_top"] + Cardinality(Newlines(x)) + one + f["padding_bottom"]
    BY Zenon, <1>2, <2>2, <2>5 DEF get_cell_height
  <2>7. Len(lines) = Cardinality(Newlines(x)) + one
    BY Zenon, <1>8, <2>5
  <2> QED BY <2>3, <2>4, <2>6, <2>7
<1>10. ASSUME s \in Seq(Characters \ S), NEW n \in DOMAIN lines PROVE Only(lines[n], S) = << >>
  <2> DEFINE D == Characters \ S
  <2>1. "\n" \in D /\ "-" \in D /\ s \in Seq(D) /\ D \cap S = {}
    BY <1>1, <1>4, <1>10
  <2> HIDE DEF D
  <2>2. lines \in Seq(Seq(D))
    BY <1>6, <2>1, LinesType
  <2>3. lines[n] \in Seq(D)
    <3> DEFINE Q == Seq(D)
    <3>1. lines \in Seq(Q)
      BY <2>2
    <3> HIDE DEF Q
    <3>2. lines[n] \in Q
      BY <1>10, <3>1, LenProperties, ElementOfSeq
    <3> QED BY <3>2 DEF Q
  <2> QED BY <2>1, <2>3, OnlyOther
<1> QED BY Zenon, <1>5, <1>6, <1>8, <1>9, <1>10 DEF Spread

\* In row i all cells but the one in column o are of other letters.
Owner(u, i, o, S) ==
    \A j \in 1..estimate_num_columns(u) : j # o => u.text[i][j] \in Seq(Characters \ S)

CellLines(u, i, j) == splitted_cell_text(u.cells[i][j], u.text[i][j], column_width(u, j))

\* So a line of the row has the letters of the line of that cell,
LEMMA LineLetters ==
    ASSUME NEW S, Unframed(S), NEW stream, NEW u, Full(u), Returns(u), u.text # << >>,
           NEW i \in 1..Len(u.text), NEW o \in 1..estimate_num_columns(u), Owner(u, i, o, S),
           NEW k
    PROVE  LET x   == PrintedLine(stream, u, i, k)
               top == u.cells[i][o]["padding_top"]
           IN  /\ x \in Seq(Tokens)
               /\ k - top \in DOMAIN CellLines(u, i, o) =>
                      Only(x, S) = Only(CellLines(u, i, o)[k - top], S)
               /\ k - top \notin DOMAIN CellLines(u, i, o) => Only(x, S) = << >>
<1> DEFINE n == estimate_num_columns(u)
           widths == column_widths(u)
           Lines(j) == splitted_cell_text(u.cells[i][j], u.text[i][j], widths[j])
           text == Tuple(n, Lines)
           InCell(j) == print_row_in_cell(stream, u.cells[i][j], j, n, widths[j], k, text[j])
           f == [j \in 1..n |-> InCell(j)]
<1>1. Letters(S) /\ S \subseteq Characters
  BY DEF Unframed
<1>2. n \in Nat /\ \A j \in 1..n : widths[j] = column_width(u, j) /\ widths[j] \in Nat
  BY Columns
<1>3. \A j \in 1..n : text[j] = CellLines(u, i, j)
  <2> DEFINE g == [j \in 1..n |-> Lines(j)]
             Q == {Lines(j) : j \in 1..n}
  <2>1. g \in [1..n -> Q]
    <3> HIDE DEF Lines, n
    <3> QED OBVIOUS
  <2>2. text = SubSeq(g, 1, n)
    BY DEF Tuple
  <2>3. \A j \in 1..n : g[j] = Lines(j)
    <3> HIDE DEF Lines, n
    <3> QED OBVIOUS
  <2>4. text = g
    <3> HIDE DEF g, Q, n, text
    <3> QED BY <1>2, <2>1, <2>2, TupleSeq
  <2>5. \A j \in 1..n : Lines(j) = CellLines(u, i, j)
    <3> HIDE DEF n, widths
    <3> QED BY <1>2 DEF CellLines
  <2> HIDE DEF g, n, text, Lines
  <2> QED BY <2>3, <2>4, <2>5
<1>4. ASSUME NEW j \in 1..n
      PROVE  LET top == u.cells[i][j]["padding_top"]
             IN  /\ InCell(j) \in Seq(Tokens)
                 /\ k - top \in DOMAIN CellLines(u, i, j) =>
                        Only(InCell(j), S) = Only(CellLines(u, i, j)[k - top], S)
                 /\ k - top \notin DOMAIN CellLines(u, i, j) => Only(InCell(j), S) = << >>
                 /\ j # o => Only(InCell(j), S) = << >>
  <2>1. PICK c, s, lines, w : /\ c = u.cells[i][j] /\ s = u.text[i][j]
                              /\ lines = CellLines(u, i, j) /\ w = widths[j]
    OBVIOUS
  <2>2. FullFormat(c) /\ s \in Texts /\ Wrappable(c, s, w) /\ lines = splitted_cell_text(c, s, w)
        /\ w \in Nat
    <3>1. /\ u.text[i][j] \in Texts /\ FullFormat(u.cells[i][j]) /\ column_width(u, j) \in Nat
          /\ Wrappable(u.cells[i][j], u.text[i][j], column_width(u, j))
      BY FullCells DEF Returns
    <3>2. w = column_width(u, j)
      BY <1>2, <2>1
    <3> QED BY Zenon, <2>1, <3>1, <3>2 DEF CellLines
  <2>3. /\ lines \in Seq(Texts)
        /\ s \in Seq(Characters \ S) => \A p \in DOMAIN lines : Only(lines[p], S) = << >>
    <3>1. Spread(S, c, s, w)
      BY <1>1, <2>2, LinesLetters
    <3> QED BY Zenon, <2>2, <3>1 DEF Spread
  <2>4. PICK x : x = print_row_in_cell(stream, c, j, n, w, k, lines)
    OBVIOUS
  <2>5. InCell(j) = x
    <3> HIDE DEF text, Lines, widths, n
    <3> QED BY <1>3, <2>1, <2>4
  <2>6. /\ x \in Seq(Tokens)
        /\ k - c["padding_top"] \in DOMAIN lines =>
               Only(x, S) = Only(lines[k - c["padding_top"]], S)
        /\ k - c["padding_top"] \notin DOMAIN lines => Only(x, S) = << >>
    BY <2>2, <2>3, <2>4, CellLetters
  <2>7. j # o => Only(x, S) = << >>
    <3>1. j # o => s \in Seq(Characters \ S)
      BY <2>1 DEF Owner
    <3> QED BY Zenon, <2>3, <2>6, <3>1
  <2> HIDE DEF InCell, text, Lines, widths, n
  <2> QED BY Zenon, <2>1, <2>5, <2>6, <2>7
<1> HIDE DEF InCell
<1>5. Parts(f, n, Tokens) /\ \A j \in 1..n : f[j] = InCell(j)
  <2> HIDE DEF n
  <2> QED BY <1>2, <1>4 DEF Parts
<1>6. o \in 1..n /\ \A j \in 1..n : j # o => Only(f[j], S) = << >>
  <2> HIDE DEF f, n
  <2> QED BY <1>4, <1>5 DEF n
<1>7. PrintedLine(stream, u, i, k) = FlattenSeq(f)
  BY Zenon DEF PrintedLine, Join, InCell
<1> HIDE DEF f, n
<1>8. Only(FlattenSeq(f), S) = Only(f[o], S)
  BY <1>5, <1>6, OnlyOne
<1>9. FlattenSeq(f) \in Seq(Tokens)
  <2>1. n \in 0..n
    BY <1>2
  <2> QED BY <1>5, <2>1, FlattenedUpto
<1>10. f[o] = InCell(o)
  BY <1>5, <1>6
<1> QED BY Zenon, <1>4, <1>6, <1>7, <1>8, <1>9, <1>10

\* the row has those of its text,
LEMMA RowLetters ==
    ASSUME NEW S, Unframed(S), NEW stream, NEW u, Full(u), Returns(u), u.text # << >>,
           NEW i \in 1..Len(u.text), NEW o \in 1..estimate_num_columns(u), Owner(u, i, o, S)
    PROVE  LET x == print_row(stream, u, i, column_widths(u))
           IN  x \in Seq(Tokens) /\ Only(x, S) = Only(u.text[i][o], S)
<1> DEFINE widths == column_widths(u)
           height == row_height(u, i, widths)
           Ended(k) == PrintedLine(stream, u, i, k) \o IF k < height THEN newline(stream) ELSE << >>
           f == [k \in 1..height |-> Ended(k)]
<1>1. PICK c, s, w, lines, top : /\ c = u.cells[i][o] /\ s = u.text[i][o]
                                 /\ w = column_width(u, o) /\ lines = CellLines(u, i, o)
                                 /\ top = u.cells[i][o]["padding_top"]
  BY Zenon
<1>2. /\ u.text[i][o] \in Texts /\ FullFormat(u.cells[i][o])
      /\ Wrappable(u.cells[i][o], u.text[i][o], column_width(u, o))
  BY FullCells DEF Returns
<1>3. /\ s \in Texts /\ FullFormat(c) /\ Wrappable(c, s, w)
      /\ lines = splitted_cell_text(c, s, w) /\ top = c["padding_top"]
  BY Zenon, <1>1, <1>2 DEF CellLines
<1>4. Spread(S, c, s, w)
  BY <1>3, LinesLetters DEF Unframed
<1>5. /\ lines \in Seq(Texts) /\ Only(FlattenSeq(lines), S) = Only(s, S)
      /\ top + Len(lines) <= get_cell_height(c, s, w)
  BY Zenon, <1>3, <1>4 DEF Spread
<1>6. height \in Nat /\ get_cell_height(c, s, w) <= height
  <2>1. /\ row_height(u, i, column_widths(u)) \in Nat
        /\ get_cell_height(u.cells[i][o], u.text[i][o], column_width(u, o))
               <= row_height(u, i, column_widths(u))
    BY RowHeight
  <2> QED BY Zenon, <1>1, <2>1
<1>7. top \in Nat /\ Len(lines) \in Nat /\ DOMAIN lines = 1..Len(lines)
      /\ get_cell_height(c, s, w) \in Nat
  <2>1. top \in Nat
    BY <1>3 DEF FullFormat, PaddingMembers
  <2>2. get_cell_height(c, s, w) \in Nat
    BY <1>3, CellHeight
  <2> QED BY <1>5, <2>1, <2>2, LenProperties
<1> HIDE DEF height
<1>8. top + Len(lines) <= height
  BY <1>5, <1>6, <1>7
<1>9. ASSUME NEW k
      PROVE  /\ PrintedLine(stream, u, i, k) \in Seq(Tokens)
             /\ k - top \in DOMAIN lines =>
                    Only(PrintedLine(stream, u, i, k), S) = Only(lines[k - top], S)
             /\ k - top \notin DOMAIN lines => Only(PrintedLine(stream, u, i, k), S) = << >>
  <2>1. LET x == PrintedLine(stream, u, i, k)
            q == u.cells[i][o]["padding_top"]
        IN  /\ x \in Seq(Tokens)
            /\ k - q \in DOMAIN CellLines(u, i, o) =>
                   Only(x, S) = Only(CellLines(u, i, o)[k - q], S)
            /\ k - q \notin DOMAIN CellLines(u, i, o) => Only(x, S) = << >>
    BY LineLetters
  <2> QED BY Zenon, <1>1, <2>1
<1>10. ASSUME NEW k \in 1..height
       PROVE  /\ Ended(k) \in Seq(Tokens)
              /\ Only(Ended(k), S) = Only(PrintedLine(stream, u, i, k), S)
  <2>1. PICK x, y : /\ x = PrintedLine(stream, u, i, k)
                    /\ y = IF k < height THEN newline(stream) ELSE << >>
    BY Zenon
  <2>2. x \in Seq(Tokens)
    BY <1>9, <2>1
  <2>3. y \in Without(S) /\ << >> \in Without(S)
    BY Zenon, <2>1, WithoutFraming, WithoutLanguage DEF Framing, Language
  <2>4. << >> \o x \o y \in Seq(Tokens) /\ Only(<< >> \o x \o y, S) = Only(x, S)
    <3>1. \A a, b \in Without(S) : a \o x \o b \in Seq(Tokens) /\ Only(a \o x \o b, S) = Only(x, S)
      BY <2>2, AmongOthers
    <3> QED BY Zenon, <2>3, <3>1
  <2>5. << >> \o x = x
    BY <2>2
  <2> QED BY Zenon, <2>1, <2>4, <2>5
<1> HIDE DEF Ended
<1>11. Parts(f, height, Tokens) /\ \A k \in 1..height : f[k] = Ended(k)
  BY <1>6, <1>10 DEF Parts
<1> HIDE DEF f
<1>12. Shift(f, height, lines, Len(lines), top, S)
  BY Zenon, <1>7, <1>9, <1>10, <1>11 DEF Shift
<1>13. Parts(lines, Len(lines), Tokens)
  <2> DEFINE Q == Seq(Tokens)
  <2>1. Texts \subseteq Q
    BY TextsLanguage DEF Language
  <2> HIDE DEF Q
  <2>2. \A k \in 1..Len(lines) : lines[k] \in Q
    BY <1>5, <1>7, <2>1, ElementOfSeq
  <2>3. lines \in [1..Len(lines) -> Q]
    BY <1>5, <1>7, <2>2
  <2> QED BY <1>7, <2>3 DEF Parts, Q
<1>14. Only(FlattenSeq(f), S) = Only(FlattenSeq(lines), S)
  BY <1>7, <1>8, <1>11, <1>12, <1>13, OnlyShifted
<1>15. FlattenSeq(f) \in Seq(Tokens)
  <2>1. height \in 0..height
    BY <1>6
  <2> QED BY <1>11, <2>1, FlattenedUpto
<1>16. print_row(stream, u, i, widths) = FlattenSeq(f)
  BY Zenon DEF print_row, PrintedLine, Join, f, Ended, height
<1> QED BY Zenon, <1>1, <1>5, <1>14, <1>15, <1>16

\* and the print of a table, of which no other row has the letters either, too.
LEMMA TableLetters ==
    ASSUME NEW S, Unframed(S), NEW stream, NEW u, Full(u), Returns(u),
           NEW r \in 1..Len(u.text), NEW o \in 1..estimate_num_columns(u),
           \A i \in 1..Len(u.text) : Owner(u, i, o, S),
           \A i \in 1..Len(u.text) : i # r => u.text[i][o] \in Seq(Characters \ S)
    PROVE  Only(print_table(stream, u), S) = Only(u.text[r][o], S)
<1> DEFINE rows == Len(u.text)
           widths == column_widths(u)
           Above(i) == print_top(stream, u, i, widths)
           Below(i) == IF i = rows THEN print_bottom(stream, u, i, widths) ELSE newline(stream)
           Row(i) == Above(i) \o print_row(stream, u, i, widths) \o Below(i)
           f == [i \in 1..rows |-> Row(i)]
<1>1. rows \in Nat /\ u.text # << >>
  <2>1. u.text \in Seq(Seq(Texts))
    BY WellFormedRows DEF Full, Padded
  <2> DEFINE Q == Seq(Texts)
  <2>2. u.text \in Seq(Q)
    BY <2>1
  <2> HIDE DEF Q
  <2> QED BY <2>2, LenProperties, EmptySeq
<1>2. Language(Without(S)) /\ Framing(Without(S), stream) /\ newline(stream) \in Without(S)
  BY Zenon, WithoutFraming, WithoutLanguage DEF Framing
<1>3. ASSUME NEW i \in 1..rows
      PROVE  Row(i) \in Seq(Tokens) /\ Only(Row(i), S) = Only(u.text[i][o], S)
  <2>1. PICK x : x = print_row(stream, u, i, widths)
    OBVIOUS
  <2>2. x \in Seq(Tokens) /\ Only(x, S) = Only(u.text[i][o], S)
    BY <1>1, <2>1, RowLetters
  <2>3. Above(i) \in Without(S) /\ Below(i) \in Without(S)
    <3>1. /\ print_top(stream, u, i, widths) \in Without(S)
          /\ print_bottom(stream, u, i, widths) \in Without(S)
      BY <1>1, <1>2, BordersPrinted
    <3> HIDE DEF rows, widths
    <3> QED BY Zenon, <1>2, <3>1
  <2> HIDE DEF Above, Below, widths
  <2>4. \A a, b \in Without(S) : a \o x \o b \in Seq(Tokens) /\ Only(a \o x \o b, S) = Only(x, S)
    BY <2>2, AmongOthers
  <2> QED BY Zenon, <2>1, <2>2, <2>3, <2>4
<1> HIDE DEF Row
<1>4. Parts(f, rows, Tokens) /\ \A i \in 1..rows : f[i] = Row(i)
  <2> HIDE DEF rows
  <2> QED BY <1>1, <1>3 DEF Parts
<1> HIDE DEF f
<1>5. \A i \in 1..rows : i # r => Only(f[i], S) = << >>
  <2> SUFFICES ASSUME NEW i \in 1..rows, i # r PROVE Only(f[i], S) = << >>
    OBVIOUS
  <2>1. u.text[i][o] \in Seq(Characters \ S) /\ (Characters \ S) \cap S = {}
    OBVIOUS
  <2>2. Only(u.text[i][o], S) = << >>
    BY <2>1, OnlyOther
  <2> QED BY <1>3, <1>4, <2>2
<1>6. Only(FlattenSeq(f), S) = Only(f[r], S)
  BY <1>4, <1>5, OnlyOne
<1>7. print_table(stream, u) = FlattenSeq(f)
  BY Zenon DEF print_table, Join, f, Row
<1> QED BY <1>3, <1>4, <1>6, <1>7

----------------------------------------------------------------------------
(* The letters that are no other cell's and not written around the texts. *)

Mine(u, c, kind) ==
    LET others == UNION {Ink(u.text[d[1]][d[2]]) : d \in Cells(u) \ {c}}
    IN  Ink(u.text[c[1]][c[2]]) \ (others \cup Markup(kind))

\* What NothingLost says of a text that is written for u.
KeepsLetters(text, u, kind) ==
    \A c \in Cells(u) :
        Only(text, Mine(u, c, kind)) = Only(u.text[c[1]][c[2]], Mine(u, c, kind))

\* The letters S are in no text but that of cell c.
Alone(u, c, S) ==
    /\ Letters(S) /\ S \subseteq Characters
    /\ \A d \in Positions(u) : d # c => u.text[d[1]][d[2]] \in Seq(Characters \ S)

LEMMA CellPositions ==
    ASSUME NEW u, WellFormed(u)
    PROVE  Cells(u) = Positions(u)
<1>1. DOMAIN u.text = 1..Len(u.text)
  BY WellFormedRows, LenProperties
<1> QED BY <1>1 DEF Cells, Positions

LEMMA InkType ==
    ASSUME NEW s \in Texts
    PROVE  Letters(Ink(s)) /\ Ink(s) \subseteq Characters
<1>1. ToSet(s) \subseteq Characters
  BY LenProperties, ElementOfSeq DEF ToSet, Texts
<1>2. "\n" \in Space
  BY DEF Space
<1> QED BY <1>1, <1>2 DEF Ink, Letters

\* A text of which no ink is in S.
LEMMA NoInk ==
    ASSUME NEW s \in Texts, NEW S, Letters(S), Ink(s) \cap S = {}
    PROVE  s \in Seq(Characters \ S)
<1>1. PICK n \in Nat : n = Len(s) /\ s \in [1..n -> Characters]
  BY LenProperties DEF Texts
<1>2. ASSUME NEW k \in 1..n PROVE s[k] \in Characters \ S
  <2>1. s[k] \in Characters /\ s[k] \in ToSet(s)
    BY <1>1 DEF ToSet
  <2>2. s[k] \in Space \cup {"-"} => s[k] \notin S
    BY DEF Letters
  <2>3. s[k] \notin Space \cup {"-"} => s[k] \in Ink(s)
    BY <2>1 DEF Ink
  <2> QED BY <2>1, <2>2, <2>3
<1>3. s \in [1..n -> Characters \ S]
  BY <1>1, <1>2
<1> QED BY <1>3, TupleSeq

LEMMA MineAlone ==
    ASSUME NEW u, WellFormed(u), NEW c \in Positions(u), NEW kind
    PROVE  Alone(u, c, Mine(u, c, kind)) /\ Mine(u, c, kind) \cap Markup(kind) = {}
<1>1. \A d \in Positions(u) : u.text[d[1]][d[2]] \in Texts
  BY CellTexts DEF Positions
<1>2. PICK S : S = Mine(u, c, kind)
  OBVIOUS
<1>3. S \subseteq Ink(u.text[c[1]][c[2]]) /\ S \cap Markup(kind) = {}
  <2> DEFINE ink == Ink(u.text[c[1]][c[2]])
             others == UNION {Ink(u.text[d[1]][d[2]]) : d \in Cells(u) \ {c}}
  <2>1. S = ink \ (others \cup Markup(kind))
    BY Zenon, <1>2 DEF Mine
  <2> HIDE DEF ink, others
  <2>2. S \subseteq ink /\ S \cap Markup(kind) = {}
    BY <2>1
  <2> QED BY <2>2 DEF ink
<1>4. Letters(S) /\ S \subseteq Characters
  <2>1. Letters(Ink(u.text[c[1]][c[2]])) /\ Ink(u.text[c[1]][c[2]]) \subseteq Characters
    BY <1>1, InkType
  <2> QED BY <1>3, <2>1 DEF Letters
<1>5. ASSUME NEW d \in Positions(u), d # c PROVE u.text[d[1]][d[2]] \in Seq(Characters \ S)
  <2>1. Ink(u.text[d[1]][d[2]]) \cap S = {}
    <3>1. d \in Cells(u) \ {c}
      BY <1>5, CellPositions
    <3> QED BY Zenon, <1>2, <3>1 DEF Mine
  <2> QED BY <1>1, <1>4, <2>1, NoInk
<1> QED BY Zenon, <1>2, <1>3, <1>4, <1>5 DEF Alone

\* The borders of a print or of Markdown are written around the texts.
LEMMA MineUnframed ==
    ASSUME NEW S, Letters(S), S \subseteq Characters, NEW kind,
           kind \notin {"asciidoc", "latex"}, S \cap Markup(kind) = {}
    PROVE  Unframed(S) /\ ":" \notin S
<1>1. Markup(kind) = {"|", "+", ":", "EM DASH"} \cup UNION {ToSet(s) : s \in Borders}
  <2>1. kind # "asciidoc" /\ kind # "latex"
    OBVIOUS
  <2> QED BY Zenon, <2>1 DEF Markup
<1>2. {"|", "+", ":", "EM DASH"} \cap S = {} /\ \A s \in Borders : ToSet(s) \cap S = {}
  BY Zenon, <1>1
<1>3. ASSUME NEW s \in BorderValues PROVE s \in Without(S)
  <2> DEFINE D == Tokens \ S
  <2>1. CASE s \in {<<"-">>, <<"|">>, <<"+">>, << >>, <<"EM DASH">>}
    <3>1. /\ "-" \in Characters /\ "|" \in Characters
          /\ "+" \in Characters /\ "EM DASH" \in Characters
      BY Zenon, MarksAreCharacters DEF Marks
    <3>2. "-" \in D /\ "|" \in D /\ "+" \in D /\ "EM DASH" \in D
      <4>1. "-" \notin S
        BY Zenon DEF Letters
      <4>2. "|" \notin S /\ "+" \notin S /\ "EM DASH" \notin S
        BY Zenon, <1>2
      <4> QED BY Zenon, <3>1, <4>1, <4>2 DEF Tokens
    <3> HIDE DEF D
    <3>3. /\ <<"-">> \in Seq(D) /\ <<"|">> \in Seq(D) /\ <<"+">> \in Seq(D)
          /\ <<"EM DASH">> \in Seq(D) /\ << >> \in Seq(D)
      BY Zenon, <3>2, Single, EmptySeq
    <3>4. s \in Seq(D)
      BY Zenon, <2>1, <3>3
    <3> QED BY Zenon, <3>4 DEF Without, D
  <2>2. CASE s \notin {<<"-">>, <<"|">>, <<"+">>, << >>, <<"EM DASH">>}
    <3>1. s \in Borders
      BY Zenon, <2>2 DEF BorderValues
    <3>2. s \in Texts /\ ToSet(s) \cap S = {}
      BY Zenon, <1>2, <3>1, BordersAreTexts
    <3>3. \A i \in 1..Len(s) : s[i] \in Characters /\ s[i] \notin S
      BY <3>2, LenProperties, ElementOfSeq DEF ToSet, Texts
    <3>4. Len(s) \in Nat /\ s \in [1..Len(s) -> Tokens \ S]
      BY <3>2, <3>3, LenProperties DEF Texts, Tokens
    <3> QED BY <3>4, TupleSeq DEF Without
  <2> QED BY Zenon, <2>1, <2>2
<1> QED BY Zenon, <1>2, <1>3 DEF Unframed

\* What is asked of the places of the letters.
LEMMA AlonePlaces ==
    ASSUME NEW u, NEW c \in Positions(u), NEW S, Alone(u, c, S)
    PROVE  /\ c[1] \in 1..Len(u.text) /\ c[2] \in 1..estimate_num_columns(u)
           /\ \A i \in 1..Len(u.text) : Owner(u, i, c[2], S)
           /\ \A i \in 1..Len(u.text) : i # c[1] => u.text[i][c[2]] \in Seq(Characters \ S)
<1>1. c[1] \in 1..Len(u.text) /\ c[2] \in 1..estimate_num_columns(u)
  BY DEF Positions
<1>2. ASSUME NEW i \in 1..Len(u.text), NEW j \in 1..estimate_num_columns(u), i # c[1] \/ j # c[2]
      PROVE  u.text[i][j] \in Seq(Characters \ S)
  <2>1. PICK d : d = <<i, j>>
    OBVIOUS
  <2>2. d \in Positions(u) /\ d # c /\ d[1] = i /\ d[2] = j
    BY <1>2, <2>1 DEF Positions
  <2> QED BY <2>2 DEF Alone
<1> QED BY <1>1, <1>2 DEF Owner

\* A print keeps the letters.
LEMMA PrintKeeps ==
    ASSUME NEW u, WellFormed(u), ~PrintHangs(Settled(u)), NEW stream,
           NEW kind \in {"print", "str"}
    PROVE  KeepsLetters(print_table(stream, Settled(u)), u, kind)
<1> SUFFICES ASSUME NEW c \in Cells(u)
             PROVE  Only(print_table(stream, Settled(u)), Mine(u, c, kind))
                        = Only(u.text[c[1]][c[2]], Mine(u, c, kind))
  BY DEF KeepsLetters
<1>1. PICK S : S = Mine(u, c, kind)
  OBVIOUS
<1>2. c \in Positions(u) /\ Alone(u, c, S) /\ S \cap Markup(kind) = {}
  BY <1>1, CellPositions, MineAlone
<1>3. Unframed(S)
  BY <1>2, MineUnframed DEF Alone
<1>4. PICK v : v = Settled(u)
  OBVIOUS
<1>5. Full(v) /\ Returns(v)
  BY <1>4, SettledFull, ReturnsUnlessHangs
<1>6. v.text = u.text /\ estimate_num_columns(v) = estimate_num_columns(u)
  BY <1>4, SettledLooks DEF Looked, estimate_num_columns
<1>7. /\ c[1] \in 1..Len(v.text) /\ c[2] \in 1..estimate_num_columns(v)
      /\ \A i \in 1..Len(v.text) : Owner(v, i, c[2], S)
      /\ \A i \in 1..Len(v.text) : i # c[1] => v.text[i][c[2]] \in Seq(Characters \ S)
  BY <1>2, <1>6, AlonePlaces DEF Owner
<1>8. Only(print_table(stream, v), S) = Only(v.text[c[1]][c[2]], S)
  BY <1>3, <1>5, <1>7, TableLetters
<1> QED BY <1>1, <1>4, <1>6, <1>8

\* Row i of a table in Markdown.
MarkdownRow(i) == IF i = 1 THEN 1 ELSE i + 1

\* The row of alignments stands second; the others are as before.
LEMMA MarkdownRows ==
    ASSUME NEW u, WellFormed(u), u.text # << >>, NEW kept
    PROVE  LET v == apply_markdown_format(u, kept).sheet
           IN  /\ Len(v.text) = Len(u.text) + 1
               /\ estimate_num_columns(v) = estimate_num_columns(u)
               /\ \A i \in 1..Len(u.text) : v.text[MarkdownRow(i)] = u.text[i]
               /\ \A j \in 1..estimate_num_columns(u) : v.text[2][j] \in Seq({":", "-"})
<1>1. PICK v : v = apply_markdown_format(u, kept).sheet
  OBVIOUS
<1>2. PICK k : k = estimate_num_columns(u)
  OBVIOUS
<1>3. PICK texts \in [1..k -> Seq({":", "-"})] : v.text = InsertAt(u.text, 2, texts)
  BY <1>1, <1>2, MarkdownSheet
<1> DEFINE Q == Seq(Texts)
<1>4. u.text \in Seq(Q) /\ Len(u.text) \in Nat \ {0} /\ k \in Nat
  BY <1>2, WellFormedRows, EmptySeq
<1>5. texts \in Q
  <2>1. {":", "-"} \subseteq Characters
    BY Zenon, MarksAreCharacters DEF Marks
  <2>2. texts \in [1..k -> Texts]
    BY <1>3, <2>1, Widened DEF Texts
  <2> QED BY <1>4, <2>2, TupleSeq
<1> HIDE DEF Q
<1>6. PICK w : w = u.text
  OBVIOUS
<1>7. /\ InsertAt(w, 2, texts) \in Seq(Q)
      /\ Len(InsertAt(w, 2, texts)) = Len(w) + 1
      /\ \A i \in 1..Len(w) : InsertAt(w, 2, texts)[IF i = 1 THEN 1 ELSE i + 1] = w[i]
      /\ InsertAt(w, 2, texts)[2] = texts
  <2>1. w \in Seq(Q) /\ w # << >>
    BY <1>4, <1>6
  <2> QED BY <1>5, <2>1, Inserted
<1>8. /\ Len(v.text) = Len(u.text) + 1 /\ v.text[2] = texts
      /\ \A i \in 1..Len(u.text) : v.text[MarkdownRow(i)] = u.text[i]
  BY <1>3, <1>6, <1>7 DEF MarkdownRow
<1>9. estimate_num_columns(v) = k
  <2>1. 1 \in 1..Len(u.text) /\ MarkdownRow(1) = 1
    BY <1>4 DEF MarkdownRow
  <2>2. v.text[1] = u.text[1]
    BY <1>8, <2>1
  <2>3. v.text # << >>
    <3>1. PICK y : y = v.text
      OBVIOUS
    <3>2. y \in Seq(Q) /\ Len(y) # 0
      BY <1>3, <1>4, <1>6, <1>7, <3>1
    <3> QED BY <3>1, <3>2, EmptySeq
  <2> QED BY <1>2, <2>2, <2>3 DEF estimate_num_columns
<1> QED BY <1>1, <1>2, <1>3, <1>8, <1>9

LEMMA MarkdownKeeps ==
    ASSUME NEW u, WellFormed(u), u.text # << >>, NEW kept, ~MarkdownHangs(u, kept)
    PROVE  KeepsLetters(MarkdownDump(u, kept).text, u, "markdown")
<1> SUFFICES ASSUME NEW c \in Cells(u)
             PROVE  Only(MarkdownDump(u, kept).text, Mine(u, c, "markdown"))
                        = Only(u.text[c[1]][c[2]], Mine(u, c, "markdown"))
  BY DEF KeepsLetters
<1>1. PICK S : S = Mine(u, c, "markdown")
  OBVIOUS
<1>2. c \in Positions(u) /\ Alone(u, c, S) /\ S \cap Markup("markdown") = {}
  BY <1>1, CellPositions, MineAlone
<1>3. Unframed(S) /\ ":" \notin S /\ "-" \notin S
  BY <1>2, MineUnframed DEF Alone, Letters
<1>4. PICK x : x = apply_markdown_format(u, kept)
  OBVIOUS
<1>5. /\ WellFormed(x.sheet)
      /\ Len(x.sheet.text) = Len(u.text) + 1
      /\ estimate_num_columns(x.sheet) = estimate_num_columns(u)
      /\ \A i \in 1..Len(u.text) : x.sheet.text[MarkdownRow(i)] = u.text[i]
      /\ \A j \in 1..estimate_num_columns(u) : x.sheet.text[2][j] \in Seq({":", "-"})
  BY <1>4, MarkdownSheet, MarkdownRows
<1>6. PICK v : v = Settled(x.sheet)
  OBVIOUS
<1>7. Full(v) /\ Returns(v)
  <2>1. Full(v)
    BY <1>5, <1>6, SettledFull
  <2>2. ~PrintHangs(v)
    BY Zenon, <1>4, <1>6 DEF MarkdownHangs
  <2> QED BY <2>1, <2>2, ReturnsUnlessHangs
<1>8. v.text = x.sheet.text /\ estimate_num_columns(v) = estimate_num_columns(u)
  BY <1>5, <1>6, SettledLooks DEF Looked, estimate_num_columns
<1>9. PICK r : r = MarkdownRow(c[1])
  OBVIOUS
<1>10. /\ c[1] \in 1..Len(u.text) /\ c[2] \in 1..estimate_num_columns(u)
       /\ Len(u.text) \in Nat
       /\ \A i \in 1..Len(u.text) : Owner(u, i, c[2], S)
       /\ \A i \in 1..Len(u.text) : i # c[1] => u.text[i][c[2]] \in Seq(Characters \ S)
  BY <1>2, AlonePlaces, WellFormedRows
<1>11. r \in 1..Len(v.text) /\ v.text[r] = u.text[c[1]]
  BY SMTT(40), <1>5, <1>8, <1>9, <1>10 DEF MarkdownRow
<1>12. \A j \in 1..estimate_num_columns(v) : v.text[2][j] \in Seq(Characters \ S)
  <2>1. {":", "-"} \subseteq Characters \ S
    <3>1. {":", "-"} \subseteq Characters
      BY Zenon, MarksAreCharacters DEF Marks
    <3> QED BY <1>3, <3>1
  <2> QED BY <1>5, <1>8, <2>1, Widened
<1>13. ASSUME NEW i \in 1..Len(v.text), i # 2
       PROVE  \E n \in 1..Len(u.text) : i = MarkdownRow(n) /\ v.text[i] = u.text[n]
  <2>1. PICK n : n = IF i = 1 THEN 1 ELSE i - 1
    OBVIOUS
  <2>2. n \in 1..Len(u.text) /\ i = MarkdownRow(n)
    BY <1>5, <1>8, <1>10, <1>13, <2>1 DEF MarkdownRow
  <2> QED BY <1>5, <1>8, <2>2
<1>14. \A i \in 1..Len(v.text) : Owner(v, i, c[2], S)
  <2> SUFFICES ASSUME NEW i \in 1..Len(v.text), i # 2 PROVE Owner(v, i, c[2], S)
    BY <1>12 DEF Owner
  <2>1. PICK n \in 1..Len(u.text) : v.text[i] = u.text[n]
    BY <1>13
  <2> QED BY <1>8, <1>10, <2>1 DEF Owner
<1>15. \A i \in 1..Len(v.text) : i # r => v.text[i][c[2]] \in Seq(Characters \ S)
  <2> SUFFICES ASSUME NEW i \in 1..Len(v.text), i # 2, i # r
               PROVE  v.text[i][c[2]] \in Seq(Characters \ S)
    BY <1>8, <1>10, <1>12
  <2>1. PICK n \in 1..Len(u.text) : i = MarkdownRow(n) /\ v.text[i] = u.text[n]
    BY <1>13
  <2>2. n # c[1]
    BY <1>9, <2>1
  <2> QED BY <1>10, <2>1, <2>2
<1>16. c[2] \in 1..estimate_num_columns(v)
  BY <1>8, <1>10
<1>17. Only(print_table(StringStream, v), S) = Only(v.text[r][c[2]], S)
  BY <1>3, <1>7, <1>11, <1>14, <1>15, <1>16, TableLetters
<1>18. MarkdownDump(u, kept).text = print_table(StringStream, v)
  BY <1>4, <1>6 DEF MarkdownDump
<1> QED BY <1>1, <1>11, <1>17, <1>18

\* A text has the letters of what it is written of, beside other characters.
LEMMA Beside ==
    ASSUME NEW S, NEW a \in Without(S), NEW y \in Seq(Tokens)
    PROVE  /\ a \o y \in Seq(Tokens) /\ Only(a \o y, S) = Only(y, S)
           /\ y \o a \in Seq(Tokens) /\ Only(y \o a, S) = Only(y, S)
<1>1. a \in Seq(Tokens) /\ Only(a, S) = << >>
  BY WithoutNone, Widened DEF Without
<1>2. a \o y \in Seq(Tokens) /\ y \o a \in Seq(Tokens)
  BY <1>1, ConcatProperties
<1>3. PICK x \in Seq(Tokens) : x = Only(y, S)
  BY OnlyType
<1>4. << >> \o x = x /\ x \o << >> = x
  OBVIOUS
<1>5. Only(a \o y, S) = Only(a, S) \o Only(y, S) /\ Only(y \o a, S) = Only(y, S) \o Only(a, S)
  <2>1. \A p, q \in Seq(Tokens) : Only(p \o q, S) = Only(p, S) \o Only(q, S)
    BY SMTT(40), OnlyConcat
  <2> QED BY Zenon, <1>1, <2>1
<1> QED BY <1>1, <1>2, <1>3, <1>4, <1>5

\* Pieces that have the letters of some texts, of which one alone has any in S.
Owning(g, k, s, o, S) ==
    /\ Parts(g, k, Tokens) /\ o \in 1..k
    /\ \A j \in 1..k : Only(g[j], S) = Only(s[j], S)
    /\ \A j \in 1..k : j # o => s[j] \in Seq(Characters \ S)

LEMMA OwnersOnly ==
    ASSUME NEW S, NEW k, NEW g, NEW s, NEW o, Owning(g, k, s, o, S)
    PROVE  FlattenSeq(g) \in Seq(Tokens) /\ Only(FlattenSeq(g), S) = Only(s[o], S)
<1>0. /\ Parts(g, k, Tokens) /\ o \in 1..k
      /\ \A j \in 1..k : Only(g[j], S) = Only(s[j], S)
      /\ \A j \in 1..k : j # o => s[j] \in Seq(Characters \ S)
  BY Zenon DEF Owning
<1>1. ASSUME NEW j \in 1..k, j # o PROVE Only(g[j], S) = << >>
  <2>1. s[j] \in Seq(Characters \ S) /\ (Characters \ S) \cap S = {}
    BY <1>0, <1>1
  <2>2. Only(s[j], S) = << >>
    BY <2>1, OnlyOther
  <2> QED BY <1>0, <2>2
<1>2. Only(FlattenSeq(g), S) = Only(g[o], S)
  BY <1>0, <1>1, OnlyOne
<1>3. FlattenSeq(g) \in Seq(Tokens)
  <2>1. k \in 0..k
    BY <1>0 DEF Parts
  <2> QED BY <1>0, <2>1, FlattenedUpto
<1> QED BY <1>0, <1>2, <1>3

LEMMA MineMarkedUp ==
    ASSUME NEW S, Letters(S), NEW kind, kind \in {"asciidoc", "latex"}, S \cap Markup(kind) = {}
    PROVE  MarkedUp(kind, Tokens \ S)
<1>1. Markup(kind) \cup {" ", "\n"} \subseteq Tokens
  BY Zenon, TextsMarkedUp DEF MarkedUp, Tokens
<1>2. " " \notin S /\ "\n" \notin S
  BY Zenon DEF Letters, Space
<1> QED BY Zenon, <1>1, <1>2 DEF MarkedUp

LEMMA FormattedLetters ==
    ASSUME NEW S, "*" \in Tokens \ S, "_" \in Tokens \ S, NEW f, NEW s \in Texts
    PROVE  /\ add_formatted_cell(f, s) \in Seq(Tokens)
           /\ Only(add_formatted_cell(f, s), S) = Only(s, S)
<1>0. <<"*">> \in Without(S) /\ <<"_">> \in Without(S) /\ << >> \in Without(S)
  BY Zenon, Single, EmptySeq DEF Without
<1>1. PICK b \in Without(S) : b = IF "bold" \in f["font_style"] THEN <<"*">> ELSE << >>
  BY Zenon, <1>0
<1>2. PICK i \in Without(S) : i = IF "italic" \in f["font_style"] THEN <<"_">> ELSE << >>
  BY Zenon, <1>0
<1>3. s \in Seq(Tokens) /\ b \o i \in Without(S)
  BY Zenon, TextsLanguage, WithoutLanguage DEF Language
<1>4. b \o i \o s \in Seq(Tokens) /\ Only(b \o i \o s, S) = Only(s, S)
  BY Zenon, <1>3, Beside
<1>5. b \o i \o s \o i \in Seq(Tokens) /\ Only(b \o i \o s \o i, S) = Only(s, S)
  BY Zenon, <1>4, Beside
<1>6. b \o i \o s \o i \o b \in Seq(Tokens) /\ Only(b \o i \o s \o i \o b, S) = Only(s, S)
  BY Zenon, <1>5, Beside
<1> QED BY Zenon, <1>1, <1>2, <1>6 DEF add_formatted_cell

LEMMA AsciiDocKeeps ==
    ASSUME NEW u, WellFormed(u), u.text # << >>
    PROVE  KeepsLetters(AsciiDoc(u).text, u, "asciidoc")
<1> SUFFICES ASSUME NEW c \in Cells(u)
             PROVE  Only(AsciiDoc(u).text, Mine(u, c, "asciidoc"))
                        = Only(u.text[c[1]][c[2]], Mine(u, c, "asciidoc"))
  BY DEF KeepsLetters
<1>1. PICK S : S = Mine(u, c, "asciidoc")
  OBVIOUS
<1>2. c \in Positions(u) /\ Alone(u, c, S) /\ S \cap Markup("asciidoc") = {}
  BY <1>1, CellPositions, MineAlone
<1>3. MarkedUp("asciidoc", Tokens \ S)
  BY <1>2, MineMarkedUp DEF Alone
<1>4. /\ "|" \in Tokens \ S /\ "\n" \in Tokens \ S /\ "*" \in Tokens \ S /\ "_" \in Tokens \ S
      /\ Language(Without(S)) /\ << >> \in Without(S)
  BY Zenon, <1>3, WithoutLanguage DEF MarkedUp, Markup, Language
<1>5. <<"|">> \in Without(S) /\ <<"\n">> \in Without(S)
  BY Zenon, <1>4, Single DEF Without
<1>6. PICK x : \E a, b \in Without(S) :
          /\ WellFormed(x) /\ x.text = u.text
          /\ AsciiDoc(u).text = a \o AsciiDocRows(x) \o b
  <2>1. AsciiDocIn(u, Tokens \ S)
    BY <1>3, AsciiDocParts
  <2> QED BY <2>1 DEF AsciiDocIn, Without
<1>7. PICK k : k = estimate_num_columns(x)
  OBVIOUS
<1>8. PICK r : r = c[1]
  OBVIOUS
<1>9. PICK o : o = c[2]
  OBVIOUS
<1>10. /\ r \in 1..Len(x.text) /\ o \in 1..k /\ Len(x.text) \in Nat /\ k \in Nat
       /\ \A i \in 1..Len(x.text) : \A j \in 1..k :
             j # o => x.text[i][j] \in Seq(Characters \ S)
       /\ \A i \in 1..Len(x.text) : i # r => x.text[i][o] \in Seq(Characters \ S)
  <2>1. k = estimate_num_columns(u)
    BY <1>6, <1>7 DEF estimate_num_columns
  <2> QED BY <1>2, <1>6, <1>8, <1>9, <2>1, AlonePlaces, WellFormedRows DEF Owner
<1>11. ASSUME NEW i \in 1..Len(x.text)
       PROVE  AsciiDocRow(x, i) \in Seq(Tokens) /\ Only(AsciiDocRow(x, i), S) = Only(x.text[i][o], S)
  <2> DEFINE Cell(j) == <<"|">> \o add_formatted_cell(x.cells[i][j], x.text[i][j])
             g == [j \in 1..k |-> Cell(j)]
             ends == IF i = 1 THEN <<"\n">> ELSE << >>
  <2>1. DOMAIN x.text[i] = 1..k /\ \A j \in 1..k : x.text[i][j] \in Texts
    BY <1>6, <1>7, CellTexts
  <2>2. ASSUME NEW j \in 1..k PROVE Cell(j) \in Seq(Tokens) /\ Only(Cell(j), S) = Only(x.text[i][j], S)
    <3>1. PICK y : y = add_formatted_cell(x.cells[i][j], x.text[i][j])
      OBVIOUS
    <3>2. y \in Seq(Tokens) /\ Only(y, S) = Only(x.text[i][j], S)
      BY Zenon, <1>4, <2>1, <3>1, FormattedLetters
    <3>3. <<"|">> \o y \in Seq(Tokens) /\ Only(<<"|">> \o y, S) = Only(y, S)
      BY Zenon, <1>5, <3>2, Beside
    <3> QED BY Zenon, <3>1, <3>2, <3>3
  <2> HIDE DEF Cell
  <2>3. Parts(g, k, Tokens) /\ \A j \in 1..k : g[j] = Cell(j)
    BY <1>10, <2>2 DEF Parts
  <2>4. AsciiDocRow(x, i) = FlattenSeq(g) \o <<"\n">> \o ends
    <3>1. [j \in DOMAIN x.text[i] |-> <<"|">> \o add_formatted_cell(x.cells[i][j], x.text[i][j])] = g
      BY Zenon, <2>1 DEF Cell
    <3> HIDE DEF g
    <3> QED BY Zenon, <3>1 DEF AsciiDocRow
  <2>5. ends \in Without(S)
    BY Zenon, <1>4, <1>5
  <2> HIDE DEF g, ends
  <2>6. PICK y : y = FlattenSeq(g)
    OBVIOUS
  <2>7. Owning(g, k, x.text[i], o, S)
    BY <1>10, <2>2, <2>3 DEF Owning
  <2>8. y \in Seq(Tokens) /\ Only(y, S) = Only(x.text[i][o], S)
    BY <2>6, <2>7, OwnersOnly
  <2>9. y \o <<"\n">> \in Seq(Tokens) /\ Only(y \o <<"\n">>, S) = Only(y, S)
    BY Zenon, <1>5, <2>8, Beside
  <2>10. /\ y \o <<"\n">> \o ends \in Seq(Tokens)
         /\ Only(y \o <<"\n">> \o ends, S) = Only(y \o <<"\n">>, S)
    BY Zenon, <2>5, <2>9, Beside
  <2> QED BY Zenon, <2>4, <2>6, <2>8, <2>9, <2>10
<1>12. PICK rows \in Seq(Tokens) :
           rows = AsciiDocRows(x) /\ Only(rows, S) = Only(x.text[r][o], S)
  <2> DEFINE f == [i \in 1..Len(x.text) |-> AsciiDocRow(x, i)]
             s == [i \in 1..Len(x.text) |-> x.text[i][o]]
  <2>1. Parts(f, Len(x.text), Tokens) /\ \A i \in 1..Len(x.text) : f[i] = AsciiDocRow(x, i)
    BY <1>10, <1>11 DEF Parts
  <2>2. /\ \A i \in 1..Len(x.text) : Only(f[i], S) = Only(s[i], S)
        /\ \A i \in 1..Len(x.text) : i # r => s[i] \in Seq(Characters \ S)
        /\ s[r] = x.text[r][o]
    BY <1>10, <1>11
  <2>4. Owning(f, Len(x.text), s, r, S)
    BY Zenon, <1>10, <2>1, <2>2 DEF Owning
  <2>3. AsciiDocRows(x) = FlattenSeq(f)
    BY Zenon DEF AsciiDocRows, Join
  <2> HIDE DEF f, s
  <2>5. FlattenSeq(f) \in Seq(Tokens) /\ Only(FlattenSeq(f), S) = Only(s[r], S)
    BY <2>4, OwnersOnly
  <2> QED BY <2>2, <2>3, <2>5
<1>13. PICK a \in Without(S), b \in Without(S) : AsciiDoc(u).text = a \o rows \o b
  BY Zenon, <1>6, <1>12
<1>14. Only(a \o rows \o b, S) = Only(rows, S)
  BY Zenon, <1>12, <1>13, AmongOthers
<1> QED BY <1>1, <1>6, <1>8, <1>9, <1>12, <1>13, <1>14

LEMMA LatexKeeps ==
    ASSUME NEW u, WellFormed(u), u.text # << >>, NEW options,
           options.indentation \in Nat \cup {NoValue}
    PROVE  KeepsLetters(Latex(u, options).text, u, "latex")
<1> SUFFICES ASSUME NEW c \in Cells(u)
             PROVE  Only(Latex(u, options).text, Mine(u, c, "latex"))
                        = Only(u.text[c[1]][c[2]], Mine(u, c, "latex"))
  BY DEF KeepsLetters
<1>1. PICK S : S = Mine(u, c, "latex")
  OBVIOUS
<1>2. c \in Positions(u) /\ Alone(u, c, S) /\ S \cap Markup("latex") = {}
  BY <1>1, CellPositions, MineAlone
<1>3. MarkedUp("latex", Tokens \ S)
  BY <1>2, MineMarkedUp DEF Alone
<1>4. << >> \in Without(S) /\ \A y \in Texts : y \in Seq(Tokens)
  BY WithoutLanguage, TextsLanguage DEF Language
<1>5. PICK before \in Without(S), between \in Without(S), after \in Without(S) :
          /\ before = Indentation(options)
          /\ between = <<" ", "&", " ">> /\ after = <<" ", "\\\\", "\n">>
  BY Zenon, <1>3, LatexMarks DEF Without
<1>6. PICK x : \E a, b \in Without(S) :
          /\ WellFormed(x) /\ x.text = u.text
          /\ Latex(u, options).text = a \o LatexRows(x, options) \o b
  <2>1. LatexIn(u, options, Tokens \ S)
    BY <1>3, LatexParts
  <2> QED BY <2>1 DEF LatexIn, Without
<1>7. PICK k : k = estimate_num_columns(x)
  OBVIOUS
<1>8. PICK r : r = c[1]
  OBVIOUS
<1>9. PICK o : o = c[2]
  OBVIOUS
<1>10. /\ r \in 1..Len(x.text) /\ o \in 1..k /\ Len(x.text) \in Nat /\ k \in Nat
       /\ \A i \in 1..Len(x.text) : \A j \in 1..k :
             j # o => x.text[i][j] \in Seq(Characters \ S)
       /\ \A i \in 1..Len(x.text) : i # r => x.text[i][o] \in Seq(Characters \ S)
  <2>1. k = estimate_num_columns(u)
    BY <1>6, <1>7 DEF estimate_num_columns
  <2> QED BY <1>2, <1>6, <1>8, <1>9, <2>1, AlonePlaces, WellFormedRows DEF Owner
<1>11. ASSUME NEW i \in 1..Len(x.text)
       PROVE  /\ LatexRow(x, options, i) \in Seq(Tokens)
              /\ Only(LatexRow(x, options, i), S) = Only(x.text[i][o], S)
  <2>0. x.text[i] \in [1..k -> Texts]
    BY <1>6, <1>7, CellTexts
  <2>1. PICK s : s = x.text[i]
    OBVIOUS
  <2> DEFINE Cell(j) == s[j] \o IF j < k THEN between ELSE << >>
             g == [j \in 1..k |-> Cell(j)]
  <2>2. ASSUME NEW j \in 1..k PROVE Cell(j) \in Seq(Tokens) /\ Only(Cell(j), S) = Only(s[j], S)
    <3>1. PICK y \in Without(S) : y = IF j < k THEN between ELSE << >>
      BY <1>4
    <3>2. s[j] \in Seq(Tokens)
      BY <1>4, <2>0, <2>1
    <3>3. s[j] \o y \in Seq(Tokens) /\ Only(s[j] \o y, S) = Only(s[j], S)
      BY <3>2, Beside
    <3> QED BY Zenon, <3>1, <3>3
  <2>3. Separated(s, between) = FlattenSeq(g)
    <3>1. DOMAIN s = 1..k /\ Len(s) = k
      BY <1>10, <2>0, <2>1, TupleSeq
    <3>2. [j \in DOMAIN s |-> s[j] \o IF j < Len(s) THEN between ELSE << >>] = g
      BY Zenon, <3>1
    <3> HIDE DEF g
    <3> QED BY Zenon, <3>2 DEF Separated
  <2> HIDE DEF Cell
  <2>4. Parts(g, k, Tokens) /\ \A j \in 1..k : g[j] = Cell(j)
    BY <1>10, <2>2 DEF Parts
  <2> HIDE DEF g
  <2>5. Owning(g, k, s, o, S)
    BY <1>10, <2>1, <2>2, <2>4 DEF Owning
  <2>6. PICK y : y = Separated(s, between)
    OBVIOUS
  <2>7. y \in Seq(Tokens) /\ Only(y, S) = Only(s[o], S)
    BY <2>3, <2>5, <2>6, OwnersOnly
  <2>8. before \o y \o after \in Seq(Tokens) /\ Only(before \o y \o after, S) = Only(y, S)
    BY Zenon, <2>7, AmongOthers
  <2>9. LatexRow(x, options, i) = before \o y \o after
    BY Zenon, <1>5, <2>1, <2>6 DEF LatexRow
  <2> QED BY Zenon, <2>1, <2>7, <2>8, <2>9
<1>12. PICK rows \in Seq(Tokens) :
           rows = LatexRows(x, options) /\ Only(rows, S) = Only(x.text[r][o], S)
  <2> DEFINE f == [i \in 1..Len(x.text) |-> LatexRow(x, options, i)]
             s == [i \in 1..Len(x.text) |-> x.text[i][o]]
  <2>1. Parts(f, Len(x.text), Tokens) /\ \A i \in 1..Len(x.text) : f[i] = LatexRow(x, options, i)
    BY <1>10, <1>11 DEF Parts
  <2>2. /\ \A i \in 1..Len(x.text) : Only(f[i], S) = Only(s[i], S)
        /\ \A i \in 1..Len(x.text) : i # r => s[i] \in Seq(Characters \ S)
        /\ s[r] = x.text[r][o]
    BY <1>10, <1>11
  <2>3. Owning(f, Len(x.text), s, r, S)
    BY Zenon, <1>10, <2>1, <2>2 DEF Owning
  <2>4. LatexRows(x, options) = FlattenSeq(f)
    BY Zenon DEF LatexRows, Join
  <2> HIDE DEF f, s
  <2>5. FlattenSeq(f) \in Seq(Tokens) /\ Only(FlattenSeq(f), S) = Only(s[r], S)
    BY <2>3, OwnersOnly
  <2> QED BY <2>2, <2>4, <2>5
<1>13. PICK a \in Without(S), b \in Without(S) : Latex(u, options).text = a \o rows \o b
  BY Zenon, <1>6, <1>12
<1>14. Only(a \o rows \o b, S) = Only(rows, S)
  BY Zenon, <1>12, <1>13, AmongOthers
<1> QED BY <1>1, <1>6, <1>8, <1>9, <1>12, <1>13, <1>14

----------------------------------------------------------------------------
(* Every call of a program again. *)

\* What is written for a table keeps its letters when the table has been looked at.
LEMMA KeptForTable ==
    ASSUME NEW u, NEW v, v.text = u.text, NEW text, NEW kind, KeepsLetters(text, u, kind)
    PROVE  KeepsLetters(text, v, kind)
<1>1. Cells(v) = Cells(u)
  BY DEF Cells, estimate_num_columns
<1>2. \A c : Mine(v, c, kind) = Mine(u, c, kind)
  BY <1>1 DEF Mine
<1> QED BY <1>1, <1>2 DEF KeepsLetters

LettersShown == out.kind \in Exports \ {"shape"} => KeepsLetters(out.text, t, out.kind)

LEMMA LettersAreShown == LettersShown <=> NothingLost
BY Zenon DEF LettersShown, NothingLost, KeepsLetters, Mine

\* A step that writes the table,
LEMMA ShownStep ==
    ASSUME t'.text = t.text, NEW kind, NEW text, out' = Written(kind, text),
           KeepsLetters(text, t, kind)
    PROVE  LettersShown'
<1>1. KeepsLetters(text, t', kind)
  BY KeptForTable
<1>2. out'.kind = kind /\ out'.text = text
  BY WrittenParts
<1> QED BY <1>1, <1>2 DEF LettersShown

\* and one that does not.
LEMMA UnshownStep ==
    ASSUME out'.kind \notin Exports \ {"shape"}
    PROVE  LettersShown'
BY Zenon DEF LettersShown


LEMMA ShownNext ==
    ASSUME ~OneExporter, IInv, LettersShown, [Next]_vars
    PROVE  LettersShown'
<1>1. CASE AddRow \/ SetTableFormat \/ SetRowFormat \/ SetCellFormat \/ SetColumnFormat
  <2>1. out' = Nothing
    BY Zenon, <1>1 DEF AddRow, SetTableFormat, SetRowFormat, SetCellFormat, SetColumnFormat
  <2>2. out'.kind \notin Exports \ {"shape"}
    BY <2>1 DEF Nothing, Exports
  <2> QED BY <2>2, UnshownStep
<1>2. ASSUME PrintTable \/ Str \/ Shape \/ DumpMarkdown \/ DumpAsciiDoc \/ DumpLatex
      PROVE  t'.text = t.text
  BY <1>2, Writes DEF Looked
<1>3. WellFormed(t)
  BY DEF IInv
<1>4. CASE PrintTable
  <2>1. ~PrintHangs(Settled(t)) /\ t' = Settled(t)
    BY Zenon, <1>4 DEF PrintTable
  <2>2. PICK text : text = print_table(Cout(TRUE), t')
    BY Zenon
  <2>3. out' = Written("print", text)
    BY Zenon, <1>4, <2>2 DEF PrintTable
  <2>4. KeepsLetters(text, t, "print")
    BY Zenon, <1>3, <2>1, <2>2, PrintKeeps
  <2> QED BY <1>2, <1>4, <2>3, <2>4, ShownStep
<1>5. CASE Str
  <2>1. ~PrintHangs(Settled(t)) /\ t' = Settled(t)
    BY Zenon, <1>5 DEF Str
  <2>2. PICK text : text = print_table(StringStream, t')
    OBVIOUS
  <2>3. out' = Written("str", text)
    BY Zenon, <1>5, <2>2 DEF Str
  <2>4. KeepsLetters(text, t, "str")
    BY <1>3, <2>1, <2>2, PrintKeeps
  <2> QED BY <1>2, <1>5, <2>3, <2>4, ShownStep
<1>6. CASE Shape
  <2>1. out' = [kind |-> "shape", text |-> << >>, nodes |-> << >>, shape |-> shape(t')]
    BY Zenon, <1>6 DEF Shape
  <2>2. out'.kind \notin Exports \ {"shape"}
    BY <2>1
  <2> QED BY <2>2, UnshownStep
<1>7. CASE PrintNeverReturns \/ DumpNeverReturns \/ PrintE2Nodes
  <2>1. out'.kind \in {"e2"} \cup Hung
    BY <1>7, OtherKind
  <2>2. out'.kind \notin Exports \ {"shape"}
    BY Zenon, <2>1 DEF Hung, Exports
  <2> QED BY <2>2, UnshownStep
<1>8. CASE DumpMarkdown
  <2>1. t.text # << >> /\ ~MarkdownHangs(t, formats)
    BY Zenon, <1>8 DEF DumpMarkdown, Exportable
  <2>2. PICK text : text = MarkdownDump(t, formats).text
    OBVIOUS
  <2>3. out' = Written("markdown", text)
    BY Zenon, <1>8, <2>2 DEF DumpMarkdown
  <2>4. KeepsLetters(text, t, "markdown")
    BY <1>3, <2>1, <2>2, MarkdownKeeps
  <2> QED BY <1>2, <1>8, <2>3, <2>4, ShownStep
<1>9. CASE DumpAsciiDoc
  <2>1. t.text # << >>
    BY Zenon, <1>9 DEF DumpAsciiDoc, Exportable
  <2>2. PICK text : text = AsciiDoc(t).text
    OBVIOUS
  <2>3. out' = Written("asciidoc", text)
    BY Zenon, <1>9, <2>2 DEF DumpAsciiDoc
  <2>4. KeepsLetters(text, t, "asciidoc")
    BY <1>3, <2>1, <2>2, AsciiDocKeeps
  <2> QED BY <1>2, <1>9, <2>3, <2>4, ShownStep
<1>10. CASE DumpLatex
  <2>1. t.text # << >>
    BY Zenon, <1>10 DEF DumpLatex, Exportable
  <2>2. PICK indentation \in {NoValue, 2} :
            out' = Written("latex", Latex(t, [indentation |-> indentation]).text)
    BY Zenon, <1>10 DEF DumpLatex
  <2>3. PICK options : options = [indentation |-> indentation]
    OBVIOUS
  <2>4. options.indentation \in Nat \cup {NoValue}
    BY <2>3
  <2>5. PICK text : text = Latex(t, options).text
    OBVIOUS
  <2>6. out' = Written("latex", text)
    BY Zenon, <2>2, <2>3, <2>5
  <2>7. KeepsLetters(text, t, "latex")
    BY <1>3, <2>1, <2>4, <2>5, LatexKeeps
  <2> QED BY <1>2, <1>10, <2>6, <2>7, ShownStep
<1>11. CASE UNCHANGED vars
  <2>1. out' = out /\ t' = t
    BY Zenon, <1>11 DEF vars
  <2>2. (LettersShown <=> out.kind \in Exports \ {"shape"} => KeepsLetters(out.text, t, out.kind))'
    BY Zenon DEF LettersShown
  <2> QED BY Zenon, <2>1, <2>2 DEF LettersShown
<1> QED BY Zenon, <1>1, <1>4, <1>5, <1>6, <1>7, <1>8, <1>9, <1>10, <1>11 DEF Next

\* Whatever the program has set and written before, a print or a dump of a table
\* has every letter of a text that is no other cell's and not written around the
\* texts, once and in its order: none is lost when the text is trimmed, wrapped,
\* hyphenated, cut into lines, spread over the lines of its row, padded and styled
\* (format.hpp:411-464, table_internal.hpp:152-389, printer.hpp:75-152,
\* markdown_exporter.hpp:41-47, asciidoc_exporter.hpp:48-68, latex_exporter.hpp:66-98).
THEOREM LettersKept == ASSUME ~OneExporter PROVE Spec => []NothingLost
<1> DEFINE LInv == IInv /\ LettersShown
<1>1. Init => LInv
  <2>1. "none" \notin Exports \ {"shape"}
    BY DEF Exports
  <2>2. Init => out.kind = "none"
    BY DEF Init, Nothing
  <2> QED BY Zenon, <2>1, <2>2, IndInit DEF LettersShown
<1>2. ASSUME ~OneExporter PROVE LInv /\ [Next]_vars => LInv'
  BY <1>2, IndNext, ShownNext
<1>3. LInv => NothingLost
  BY LettersAreShown
<1> QED BY <1>1, <1>2, <1>3, PTL DEF Spec

----------------------------------------------------------------------------
(* Where the lines of a print end. *)

\* Pieces of a line of which n characters are seen.
Strip(n) == {s \in Seq(Inline) : Len(Only(s, Characters)) = n}

LEMMA StripsConcat ==
    ASSUME NEW m \in Nat, NEW n \in Nat, NEW a \in Strip(m), NEW b \in Strip(n)
    PROVE  a \o b \in Strip(m + n)
<1>1. a \in Seq(Inline) /\ b \in Seq(Inline) /\ Len(Only(a, Characters)) = m
      /\ Len(Only(b, Characters)) = n
  BY DEF Strip
<1>2. Only(a \o b, Characters) = Only(a, Characters) \o Only(b, Characters)
  BY <1>1, OnlyConcat
<1>3. Only(a, Characters) \in Seq(Inline) /\ Only(b, Characters) \in Seq(Inline)
  BY <1>1, OnlyType
<1>4. a \o b \in Seq(Inline)
      /\ Len(Only(a, Characters) \o Only(b, Characters)) = m + n
  BY <1>1, <1>3, ConcatProperties
<1> QED BY <1>2, <1>4 DEF Strip

LEMMA CodesStrip ==
    ASSUME NEW s \in Seq(Codes)
    PROVE  s \in Strip(0)
<1>1. Codes \subseteq Inline
  BY Zenon, TokensAre, InlineTokens
<1>2. s \in Seq(Inline)
  BY Zenon, <1>1, Widened
<1>3. Only(s, Characters) = << >>
  <2>1. Codes \cap Characters = {}
    BY TokensAre
  <2> QED BY Zenon, <2>1, OnlyOther
<1> QED BY <1>2, <1>3, EmptySeq DEF Strip

LEMMA CharactersStrip ==
    ASSUME NEW s \in Seq(Characters \ {"\n"})
    PROVE  s \in Strip(Len(s)) /\ Len(s) \in Nat
<1>1. s \in Seq(Inline)
  BY Zenon, InlineTokens, Widened
<1>2. s \in Seq(Characters)
  <2>1. Characters \ {"\n"} \subseteq Characters
    OBVIOUS
  <2> QED BY Zenon, <2>1, Widened
<1>3. Only(s, Characters) = s
  BY Zenon, <1>2, OnlyAll
<1> QED BY <1>1, <1>2, <1>3, LenProperties DEF Strip

LEMMA SpacesStrip ==
    ASSUME NEW n \in Nat
    PROVE  Spaces(n) \in Strip(n)
<1>1. Spaces(n) \in Seq({" "})
  <2>1. n \in Int
    OBVIOUS
  <2> QED BY Zenon, <2>1, SpacesAre
<1>2. {" "} \subseteq Characters \ {"\n"}
  <2>1. " " \in Characters
    BY Zenon, MarksAreCharacters DEF Marks
  <2> QED BY Zenon, <2>1
<1>3. Spaces(n) \in Seq(Characters \ {"\n"})
  BY Zenon, <1>1, <1>2, Widened
<1>4. Len(Spaces(n)) = n
  BY DEF Spaces
<1> QED BY <1>3, <1>4, CharactersStrip

\* The codes around a text are not seen.
LEMMA CodesAround ==
    ASSUME NEW stream, NEW foreground \in Color, NEW background \in Color, NEW styles
    PROVE  /\ apply_element_style(stream, foreground, background, styles) \in Strip(0)
           /\ apply_element_style(stream, foreground, background, {}) \in Strip(0)
           /\ reset(stream) \in Strip(0)
<1>1. FontTokens \cup ColorTokens \subseteq Codes /\ ColorTokens \subseteq Codes
      /\ {ResetCode} \subseteq Codes
  BY TokensAre
<1>2. /\ apply_element_style(stream, foreground, background, {}) \in Seq(Codes)
      /\ apply_element_style(stream, foreground, background, styles) \in Seq(Codes)
      /\ reset(stream) \in Seq(Codes)
  BY Zenon, <1>1, ElementStyle, Widened
<1> QED BY <1>2, CodesStrip

LEMMA StyledStrip ==
    ASSUME NEW stream, NEW foreground \in Color, NEW background \in Color, NEW n \in Nat,
           NEW s \in Strip(n)
    PROVE  Styled(stream, foreground, background, s) \in Strip(n)
<1>1. PICK a \in Strip(0), b \in Strip(0) :
          /\ a = apply_element_style(stream, foreground, background, {})
          /\ b = reset(stream)
  BY CodesAround
<1>2. a \o s \in Strip(0 + n)
  BY StripsConcat
<1>3. a \o s \in Strip(n) /\ (a \o s) \o b \in Strip(n + 0)
  <2>1. 0 + n = n
    OBVIOUS
  <2>2. a \o s \in Strip(n)
    BY <1>2, <2>1
  <2> QED BY <2>2, StripsConcat
<1>4. n + 0 = n
  OBVIOUS
<1> QED BY <1>1, <1>3, <1>4 DEF Styled

\* Strips put together: after k of them edge[k] characters are seen.
Adds(edge, d, n) == edge[0] = 0 /\ \A k \in 1..n : edge[k] = edge[k - 1] + d[k]

LEMMA JoinedStrips ==
    ASSUME NEW n \in Nat, NEW d \in [1..n -> Nat], NEW edge \in [0..n -> Nat],
           Adds(edge, d, n), NEW f \in [1..n -> Seq(Inline)], \A k \in 1..n : f[k] \in Strip(d[k])
    PROVE  FlattenSeq(f) \in Strip(edge[n])
<1>1. Parts(f, n, Inline)
  BY DEF Parts
<1>7. Flats(f, n)
  BY Zenon, <1>1, FlatSteps
<1> DEFINE T == {k \in Nat : k <= n => Flat(f, k) \in Strip(edge[k])}
<1>2. 0 \in T
  <2>1. << >> \in Strip(0) /\ edge[0] = 0
    BY CodesStrip, EmptySeq DEF Adds
  <2>2. 0 \in 0..n
    OBVIOUS
  <2>3. Flat(f, 0) = << >>
    BY Zenon, <1>7, <2>2 DEF Flats
  <2> QED BY <2>1, <2>3
<1>3. ASSUME NEW k \in Nat, k \in T PROVE k + 1 \in T
  <2> SUFFICES ASSUME k + 1 <= n PROVE Flat(f, k + 1) \in Strip(edge[k + 1])
    OBVIOUS
  <2>1. k \in 0..n /\ k < n /\ k + 1 \in 1..n /\ (k + 1) - 1 = k
    OBVIOUS
  <2>2. Flat(f, k + 1) = Flat(f, k) \o f[k + 1]
    BY Zenon, <1>7, <2>1 DEF Flats
  <2>3. Flat(f, k) \in Strip(edge[k]) /\ f[k + 1] \in Strip(d[k + 1])
    BY <1>3, <2>1
  <2>4. edge[k] \in Nat /\ d[k + 1] \in Nat /\ edge[k + 1] = edge[k] + d[k + 1]
    BY <2>1 DEF Adds
  <2> QED BY <2>2, <2>3, <2>4, StripsConcat
<1> HIDE DEF T
<1>4. n \in T
  BY <1>2, <1>3, Induction
<1>5. n \in 0..n
  OBVIOUS
<1>6. Flat(f, n) = FlattenSeq(f)
  BY Zenon, <1>5, <1>7 DEF Flats
<1> QED BY <1>4, <1>6 DEF T

LEMMA ThreeStrips ==
    ASSUME NEW k \in Nat, NEW m \in Nat, NEW n \in Nat,
           NEW a \in Strip(k), NEW b \in Strip(m), NEW c \in Strip(n)
    PROVE  a \o b \o c \in Strip(k + m + n)
<1>1. a \o b \in Strip(k + m)
  BY StripsConcat
<1>2. k + m \in Nat
  OBVIOUS
<1> QED BY <1>1, <1>2, StripsConcat

\* A border in its colours is as wide as it is long.
LEMMA BorderStrip ==
    ASSUME BordersInLine, NEW stream, NEW f, FullFormat(f), NEW a \in ColorMembers,
           NEW b \in ColorMembers, NEW s \in BorderValues \cup {<<" ">>}
    PROVE  Len(s) \in Nat /\ Styled(stream, f[a], f[b], s) \in Strip(Len(s))
<1>1. f[a] \in Color /\ f[b] \in Color
  BY Zenon DEF FullFormat
<1>2. s \in Seq(Characters \ {"\n"})
  <2>1. " " \in Characters \ {"\n"}
    BY Zenon, MarksAreCharacters DEF Marks
  <2>2. <<" ">> \in Seq(Characters \ {"\n"})
    BY Zenon, <2>1, Single
  <2> QED BY Zenon, <2>2, BordersAreTexts
<1>3. s \in Strip(Len(s)) /\ Len(s) \in Nat
  BY Zenon, <1>2, CharactersStrip
<1> QED BY Zenon, <1>1, <1>3, StyledStrip

LEMMA StyledContentStrip ==
    ASSUME NEW stream, NEW f, FullFormat(f), NEW line \in Seq(Characters \ {"\n"})
    PROVE  styled_content(stream, f, line) \in Strip(Len(line)) /\ Len(line) \in Nat
<1>1. f["font_color"] \in Color /\ f["font_background_color"] \in Color
  BY PrintedMembers DEF FullFormat
<1>2. PICK a \in Strip(0), b \in Strip(0), r \in Strip(0) :
          /\ a = apply_element_style(stream, f["font_color"], f["font_background_color"],
                                     f["font_style"])
          /\ b = apply_element_style(stream, f["font_color"], f["font_background_color"], {})
          /\ r = reset(stream)
  BY Zenon, <1>1, CodesAround
<1>3. PICK k \in Nat : k = Len(line) /\ line \in Strip(k)
  BY CharactersStrip
<1>4. 0 \in Nat /\ 0 + k + 0 = k /\ k + 0 = k
  OBVIOUS
<1>5. a \o line \o r \in Strip(k)
  BY <1>3, <1>4, ThreeStrips
<1>6. (a \o line \o r) \o b \in Strip(k)
  BY <1>4, <1>5, StripsConcat
<1> QED BY Zenon, <1>2, <1>3, <1>6 DEF styled_content

\* A line of a text that fits, with its padding, is as wide as its column.
LEMMA ContentStrip ==
    ASSUME NEW stream, NEW f, FullFormat(f), NEW line \in Seq(Characters \ {"\n"}),
           NEW w \in Nat, num_spaces(f, line, w) \in Nat
    PROVE  print_content(stream, f, line, w) \in Strip(w)
<1>1. /\ f["padding_left"] \in Nat /\ f["padding_right"] \in Nat
      /\ f["font_align"] \in {"left", "right", "center"}
  BY DEF FullFormat, PaddingMembers, FontAlign
<1>0. PICK k \in Nat : k = Len(line)
  BY LenProperties
<1>2. PICK s \in Strip(k) : s = styled_content(stream, f, line)
  BY Zenon, <1>0, StyledContentStrip
<1>3. PICK n \in Nat : n = num_spaces(f, line, w)
  OBVIOUS
<1>4. PICK p \in Nat, q \in Nat : p = f["padding_left"] /\ q = f["padding_right"]
  BY <1>1
<1>5. p + (k + n) + q = w
  <2>1. n = w - (k + p + q)
    BY Zenon, <1>0, <1>3, <1>4 DEF num_spaces, Length
  <2> QED BY <2>1
<1>6. PICK m \in Nat, o \in Nat : /\ m = IF n % 2 = 0 THEN n \div 2 ELSE n \div 2 + 1
                                  /\ o = n - m
  <2>1. CASE n % 2 = 0
    <3>1. n \div 2 \in Nat /\ n - (n \div 2) \in Nat
      OBVIOUS
    <3> QED BY Zenon, <2>1, <3>1
  <2>2. CASE n % 2 # 0
    <3>1. n \div 2 + 1 \in Nat /\ n - (n \div 2 + 1) \in Nat
      BY <2>2
    <3> QED BY Zenon, <2>2, <3>1
  <2> QED BY Zenon, <2>1, <2>2
<1>7. PICK l, r, x, y, z :
          /\ l \in Strip(p) /\ r \in Strip(q) /\ x \in Strip(n) /\ y \in Strip(m) /\ z \in Strip(o)
          /\ l = Spaces(p) /\ r = Spaces(q) /\ x = Spaces(n) /\ y = Spaces(m) /\ z = Spaces(o)
  BY Zenon, SpacesStrip
<1>8. s \o x \in Strip(k + n) /\ x \o s \in Strip(n + k) /\ y \o s \o z \in Strip(m + k + o)
  BY Zenon, <1>2, <1>7, StripsConcat, ThreeStrips
<1>9. n + k = k + n /\ m + k + o = k + n /\ k + n \in Nat
  BY <1>6
<1>10. s \o x \in Strip(k + n) /\ x \o s \in Strip(k + n) /\ y \o s \o z \in Strip(k + n)
  BY Zenon, <1>8, <1>9
<1>11. /\ l \o (s \o x) \o r \in Strip(w) /\ l \o (x \o s) \o r \in Strip(w)
       /\ l \o (y \o s \o z) \o r \in Strip(w)
  BY Zenon, <1>5, <1>7, <1>9, <1>10, ThreeStrips
<1>12. CASE f["font_align"] = "left"
  <2>1. print_content(stream, f, line, w) = l \o (s \o x) \o r
    BY Zenon, <1>2, <1>3, <1>4, <1>7, <1>12 DEF print_content, print_content_left_aligned
  <2> QED BY Zenon, <1>11, <2>1
<1>13. CASE f["font_align"] = "right"
  <2>1. print_content(stream, f, line, w) = l \o (x \o s) \o r
    BY Zenon, <1>2, <1>3, <1>4, <1>7, <1>13 DEF print_content, print_content_right_aligned
  <2> QED BY Zenon, <1>11, <2>1
<1>14. CASE f["font_align"] = "center"
  <2>1. print_content_center_aligned(stream, f, line, w) = y \o s \o z
    BY Zenon, <1>2, <1>3, <1>6, <1>7 DEF print_content_center_aligned
  <2>2. print_content(stream, f, line, w) = l \o (y \o s \o z) \o r
    BY Zenon, <1>4, <1>7, <1>14, <2>1 DEF print_content
  <2> QED BY Zenon, <1>11, <2>2
<1> QED BY Zenon, <1>1, <1>12, <1>13, <1>14

\* A cell that has all its borders, one character wide, and a text without newlines
\* in a column wider than its padding.
RuledCell(f, j, s, w) ==
    /\ \A m \in ShowMembers : f[m]
    /\ Len(f["border_left"])
           + (IF j > 1 /\ f["show_column_separator"] THEN Len(f["column_separator"]) ELSE 0) = 1
    /\ Len(f["border_right"]) = 1
    /\ \A m \in CornerTexts \cup {"border_top", "border_bottom"} : Len(f[m]) = 1
    /\ "\n" \notin ToSet(s)
    /\ w > f["padding_left"] + f["padding_right"]

\* The border at the end of a line.
EndBorder(j, n) == IF j = n THEN 1 ELSE 0

\* What is printed of such a cell in a line of its row.
LEMMA CellContentStrip ==
    ASSUME NEW stream, NEW f, FullFormat(f), NEW j, NEW s \in Texts, NEW w \in Nat,
           Wrappable(f, s, w), RuledCell(f, j, s, w), NEW k
    PROVE  LET lines == splitted_cell_text(f, s, w)
           IN  (IF k - f["padding_top"] \in DOMAIN lines
                THEN print_content(stream, f, trimmed(f, lines[k - f["padding_top"]]), w)
                ELSE Spaces(w)) \in Strip(w)
<1> DEFINE lines == splitted_cell_text(f, s, w)
<1>1. CASE k - f["padding_top"] \in DOMAIN lines
  <2>1. PICK n, line : n = k - f["padding_top"] /\ line = trimmed(f, lines[n]) /\ n \in DOMAIN lines
    BY <1>1
  <2>2. line \in Seq(Characters \ {"\n"})
    <3>1. "\n" \in Characters /\ "-" \in Characters /\ s \in Seq(Characters)
      BY Zenon, MarksAreCharacters DEF Marks, Texts
    <3> QED BY <2>1, <3>1, LinesType
  <2>3. f["padding_left"] \in Nat /\ f["padding_right"] \in Nat
    BY DEF Wrappable
  <2>4. \A i \in 1..Len(s) : s[i] # "\n"
    <3>1. DOMAIN s = 1..Len(s)
      BY LenProperties DEF Texts
    <3> QED BY <3>1 DEF RuledCell, ToSet
  <2>5. ~(num_spaces(f, line, w) < 0)
    <3>1. w > f["padding_left"] + f["padding_right"]
      BY DEF RuledCell
    <3>2. ASSUME num_spaces(f, line, w) < 0 PROVE w <= f["padding_left"] + f["padding_right"]
      <4>1. (\A i \in 1..Len(s) : s[i] # "\n") => WrapEnds(s, content_width(f, w))
        BY Zenon DEF Wrappable
      <4> QED BY Zenon, <2>1, <2>3, <2>4, <3>2, <4>1, LinesOfCell
    <3> QED BY <2>3, <3>1, <3>2
  <2>6. num_spaces(f, line, w) \in Nat
    <3>1. Len(line) \in Nat
      BY <2>2, LenProperties
    <3>2. num_spaces(f, line, w) \in Int
      BY <2>3, <3>1 DEF num_spaces, Length
    <3> QED BY <2>5, <3>2
  <2>7. print_content(stream, f, line, w) \in Strip(w)
    BY <2>2, <2>6, ContentStrip
  <2> QED BY Zenon, <1>1, <2>1, <2>7
<1>2. CASE k - f["padding_top"] \notin DOMAIN lines
  BY Zenon, <1>2, SpacesStrip
<1> QED BY Zenon, <1>1, <1>2

LEMMA CellLineStrip ==
    ASSUME BordersInLine, NEW stream, NEW f, FullFormat(f), NEW j \in Nat \ {0}, NEW s \in Texts,
           NEW w \in Nat, Wrappable(f, s, w), RuledCell(f, j, s, w), NEW n, NEW k
    PROVE  print_row_in_cell(stream, f, j, n, w, k, splitted_cell_text(f, s, w))
               \in Strip(w + 1 + EndBorder(j, n))
<1>1. /\ f["font_color"] \in Color /\ f["font_background_color"] \in Color
      /\ f["border_left"] \in BorderValues /\ f["border_right"] \in BorderValues
      /\ f["column_separator"] \in BorderValues /\ << >> \in BorderValues
      /\ f["show_border_left"] /\ f["show_border_right"]
  BY PrintedMembers DEF FullFormat, RuledCell, ShowMembers
<1>2. PICK l, a :
          /\ l \in Nat /\ a \in Strip(l)
          /\ l = Len(f["border_left"])
          /\ a = IF f["show_border_left"]
                 THEN Styled(stream, f["border_left_color"], f["border_left_background_color"],
                             f["border_left"])
                 ELSE << >>
  BY ZenonT(30), <1>1, PrintedMembers, BorderStrip
<1>3. PICK q, b :
          /\ q \in Nat /\ b \in Strip(q)
          /\ q = IF j > 1 /\ f["show_column_separator"] THEN Len(f["column_separator"]) ELSE 0
          /\ b = IF f["show_column_separator"]
                 THEN Styled(stream, f["column_separator_color"],
                             f["column_separator_background_color"],
                             IF j # 1 THEN f["column_separator"] ELSE << >>)
                 ELSE << >>
  <2> DEFINE Divided ==
          \E q, b :
              /\ q \in Nat /\ b \in Strip(q)
              /\ q = IF j > 1 /\ f["show_column_separator"] THEN Len(f["column_separator"]) ELSE 0
              /\ b = IF f["show_column_separator"]
                     THEN Styled(stream, f["column_separator_color"],
                                 f["column_separator_background_color"],
                                 IF j # 1 THEN f["column_separator"] ELSE << >>)
                     ELSE << >>
  <2>1. j > 1 <=> j # 1
    OBVIOUS
  <2>2. << >> \in Strip(0) /\ 0 \in Nat
    BY CodesStrip, EmptySeq
  <2>3. Len(<< >>) = 0
    OBVIOUS
  <2>4. ASSUME ~f["show_column_separator"] PROVE Divided
    BY <2>2, <2>4
  <2>5. ASSUME f["show_column_separator"], j # 1 PROVE Divided
    <3>1. PICK o, x : /\ o \in Nat /\ x \in Strip(o) /\ o = Len(f["column_separator"])
                      /\ x = Styled(stream, f["column_separator_color"],
                                    f["column_separator_background_color"],
                                    f["column_separator"])
      BY ZenonT(30), <1>1, PrintedMembers, BorderStrip
    <3> QED BY <2>1, <2>5, <3>1
  <2>6. ASSUME f["show_column_separator"], ~(j # 1) PROVE Divided
    <3>1. PICK x : /\ x \in Strip(0)
                   /\ x = Styled(stream, f["column_separator_color"],
                                 f["column_separator_background_color"], << >>)
      BY Zenon, <1>1, <2>3, PrintedMembers, BorderStrip
    <3> QED BY <2>1, <2>2, <2>6, <3>1
  <2>7. Divided
    <3> HIDE DEF Divided
    <3> QED BY Zenon, <2>4, <2>5, <2>6
  <2> QED BY Zenon, <2>7
<1>4. PICK c \in Strip(0), r \in Strip(0) :
          /\ c = apply_element_style(stream, f["font_color"], f["font_background_color"], {})
          /\ r = reset(stream)
  BY Zenon, <1>1, CodesAround
<1>5. PICK lines : lines = splitted_cell_text(f, s, w)
  OBVIOUS
<1>6. PICK m \in Strip(w) :
          m = IF k - f["padding_top"] \in DOMAIN lines
              THEN print_content(stream, f, trimmed(f, lines[k - f["padding_top"]]), w)
              ELSE Spaces(w)
  BY Zenon, <1>5, CellContentStrip
<1>7. PICK d \in Strip(EndBorder(j, n)) :
          d = IF j = n /\ f["show_border_right"]
              THEN Styled(stream, f["border_right_color"], f["border_right_background_color"],
                          f["border_right"])
              ELSE << >>
  <2>1. Len(f["border_right"]) = 1
    BY DEF RuledCell
  <2>2. Styled(stream, f["border_right_color"], f["border_right_background_color"],
               f["border_right"]) \in Strip(1)
    BY Zenon, <1>1, <2>1, PrintedMembers, BorderStrip
  <2>3. << >> \in Strip(0)
    BY CodesStrip, EmptySeq
  <2> QED BY <1>1, <2>2, <2>3 DEF EndBorder
<1>8. print_row_in_cell(stream, f, j, n, w, k, lines) = a \o b \o c \o m \o r \o d
  BY Zenon, <1>2, <1>3, <1>4, <1>6, <1>7 DEF print_row_in_cell
<1>9. l + q = 1
  BY <1>2, <1>3 DEF RuledCell
<1>10. a \o b \in Strip(1)
  BY <1>2, <1>3, <1>9, StripsConcat
<1>11. a \o b \o c \in Strip(1)
  <2>1. 1 + 0 = 1 /\ 1 \in Nat /\ 0 \in Nat
    OBVIOUS
  <2> QED BY Zenon, <1>4, <1>10, <2>1, StripsConcat
<1>12. a \o b \o c \o m \in Strip(w + 1)
  <2>1. 1 + w = w + 1 /\ 1 \in Nat
    OBVIOUS
  <2> QED BY Zenon, <1>6, <1>11, <2>1, StripsConcat
<1>13. a \o b \o c \o m \o r \in Strip(w + 1)
  <2>1. w + 1 + 0 = w + 1 /\ 0 \in Nat /\ w + 1 \in Nat
    OBVIOUS
  <2> QED BY Zenon, <1>4, <1>12, <2>1, StripsConcat
<1>14. a \o b \o c \o m \o r \o d \in Strip(w + 1 + EndBorder(j, n))
  <2>1. EndBorder(j, n) \in Nat /\ w + 1 \in Nat
    BY DEF EndBorder
  <2> QED BY Zenon, <1>7, <1>13, <2>1, StripsConcat
<1> QED BY Zenon, <1>5, <1>8, <1>14

LEMMA RepeatedStrip ==
    ASSUME NEW w \in Nat, NEW x \in Strip(1)
    PROVE  FlattenSeq([k \in 1..w |-> x]) \in Strip(w)
<1>1. PICK d, edge, f : /\ d = [k \in 1..w |-> 1] /\ edge = [k \in 0..w |-> k]
                        /\ f = [k \in 1..w |-> x]
  OBVIOUS
<1>2. d \in [1..w -> Nat] /\ edge \in [0..w -> Nat] /\ edge[w] = w
  BY <1>1
<1>3. Adds(edge, d, w)
  <2>1. edge[0] = 0
    BY <1>1
  <2>2. ASSUME NEW k \in 1..w PROVE edge[k] = edge[k - 1] + d[k]
    <3>1. k \in 0..w /\ k - 1 \in 0..w
      OBVIOUS
    <3>2. edge[k] = k /\ edge[k - 1] = k - 1 /\ d[k] = 1
      BY <1>1, <3>1
    <3> QED BY <3>2
  <2> QED BY Zenon, <2>1, <2>2 DEF Adds
<1>4. x \in Seq(Inline)
  BY DEF Strip
<1>5. f \in [1..w -> Seq(Inline)] /\ \A k \in 1..w : f[k] \in Strip(d[k])
  BY <1>1, <1>4
<1>6. FlattenSeq(f) \in Strip(edge[w])
  BY <1>2, <1>3, <1>5, JoinedStrips
<1> QED BY <1>1, <1>2, <1>6

\* The borders of such a cell.
LEMMA CellTopStrip ==
    ASSUME BordersInLine, NEW stream, NEW f, FullFormat(f), NEW i, NEW j, NEW s, NEW n,
           NEW w \in Nat, RuledCell(f, j, s, w)
    PROVE  /\ has_border_top(f)
           /\ print_cell_border_top(stream, f, i, j, n, w) \in Strip(w + 1 + EndBorder(j, n))
<1> DEFINE shown(x) == IF f["show_row_separator"] /\ i = 1 THEN <<" ">> ELSE x
<1>0. /\ f["corner_top_left"] \in BorderValues /\ f["border_top"] \in BorderValues
      /\ f["corner_top_right"] \in BorderValues /\ f["show_border_top"]
      /\ Len(f["corner_top_left"]) = 1 /\ Len(f["border_top"]) = 1
      /\ Len(f["corner_top_right"]) = 1
  BY PrintedMembers DEF FullFormat, RuledCell, ShowMembers, CornerTexts
<1>1. has_border_top(f)
  <2>1. f["border_top"] # << >>
    <3>1. Len(<< >>) # 1
      OBVIOUS
    <3> QED BY Zenon, <1>0, <3>1
  <2> QED BY <1>0, <2>1 DEF has_border_top
<1>2. ASSUME NEW x \in BorderValues, Len(x) = 1
      PROVE  shown(x) \in BorderValues \cup {<<" ">>} /\ Len(shown(x)) = 1
  BY Zenon, <1>2
<1>3. ASSUME NEW a \in ColorMembers, NEW b \in ColorMembers, NEW x \in BorderValues, Len(x) = 1
      PROVE  Styled(stream, f[a], f[b], shown(x)) \in Strip(1)
  <2> HIDE DEF shown
  <2> QED BY Zenon, <1>2, <1>3, BorderStrip
<1>4. PICK a \in Strip(1) : a = Styled(stream, f["corner_top_left_color"],
                          f["corner_top_left_background_color"], shown(f["corner_top_left"]))
  <2> HIDE DEF shown
  <2> QED BY <1>0, <1>3, PrintedMembers
<1>5. PICK b \in Strip(1) : b = Styled(stream, f["border_top_color"],
                          f["border_top_background_color"], shown(f["border_top"]))
  <2> HIDE DEF shown
  <2> QED BY <1>0, <1>3, PrintedMembers
<1>6. PICK c \in Strip(EndBorder(j, n)) :
                   c = IF j = n
                   THEN Styled(stream, f["corner_top_right_color"],
                               f["corner_top_right_background_color"],
                               shown(f["corner_top_right"]))
                   ELSE << >>
  <2>1. << >> \in Strip(0)
    BY CodesStrip, EmptySeq
  <2>2. Styled(stream, f["corner_top_right_color"], f["corner_top_right_background_color"],
               shown(f["corner_top_right"])) \in Strip(1)
    <3> HIDE DEF shown
    <3> QED BY <1>0, <1>3, PrintedMembers
  <2> HIDE DEF shown
  <2> QED BY <2>1, <2>2 DEF EndBorder
<1>7. PICK x \in Strip(w) : x = FlattenSeq([k \in 1..w |-> b])
  BY RepeatedStrip
<1>8. print_cell_border_top(stream, f, i, j, n, w) = a \o x \o c
  BY Zenon, <1>1, <1>4, <1>5, <1>6, <1>7 DEF print_cell_border_top, Join
<1>9. EndBorder(j, n) \in Nat /\ 1 + w + EndBorder(j, n) = w + 1 + EndBorder(j, n) /\ 1 \in Nat
  BY DEF EndBorder
<1>10. a \o x \o c \in Strip(w + 1 + EndBorder(j, n))
  BY Zenon, <1>9, ThreeStrips
<1> QED BY Zenon, <1>1, <1>8, <1>10

LEMMA CellBottomStrip ==
    ASSUME BordersInLine, NEW stream, NEW f, FullFormat(f), NEW j, NEW s, NEW n,
           NEW w \in Nat, RuledCell(f, j, s, w)
    PROVE  /\ f["border_bottom"] # << >>
           /\ print_cell_border_bottom(stream, f, j, n, w) \in Strip(w + 1 + EndBorder(j, n))
<1>0. /\ f["corner_bottom_left"] \in BorderValues /\ f["border_bottom"] \in BorderValues
      /\ f["corner_bottom_right"] \in BorderValues /\ f["show_border_bottom"]
      /\ Len(f["corner_bottom_left"]) = 1 /\ Len(f["border_bottom"]) = 1
      /\ Len(f["corner_bottom_right"]) = 1
  BY PrintedMembers DEF FullFormat, RuledCell, ShowMembers, CornerTexts
<1>1. f["border_bottom"] # << >>
  <2>1. Len(<< >>) # 1
    OBVIOUS
  <2> QED BY Zenon, <1>0, <2>1
<1>3. ASSUME NEW a \in ColorMembers, NEW b \in ColorMembers, NEW x \in BorderValues, Len(x) = 1
      PROVE  Styled(stream, f[a], f[b], x) \in Strip(1)
  BY Zenon, <1>3, BorderStrip
<1>4. PICK a \in Strip(1) : a = Styled(stream, f["corner_bottom_left_color"],
                          f["corner_bottom_left_background_color"], f["corner_bottom_left"])
  BY <1>0, <1>3, PrintedMembers
<1>5. PICK b \in Strip(1) : b = Styled(stream, f["border_bottom_color"],
                          f["border_bottom_background_color"], f["border_bottom"])
  BY <1>0, <1>3, PrintedMembers
<1>6. PICK c \in Strip(EndBorder(j, n)) :
                   c = IF j = n
                   THEN Styled(stream, f["corner_bottom_right_color"],
                               f["corner_bottom_right_background_color"],
                               f["corner_bottom_right"])
                   ELSE << >>
  <2>1. << >> \in Strip(0)
    BY CodesStrip, EmptySeq
  <2>2. Styled(stream, f["corner_bottom_right_color"],
               f["corner_bottom_right_background_color"], f["corner_bottom_right"]) \in Strip(1)
    BY <1>0, <1>3, PrintedMembers
  <2> QED BY <2>1, <2>2 DEF EndBorder
<1>7. PICK x \in Strip(w) : x = FlattenSeq([k \in 1..w |-> b])
  BY RepeatedStrip
<1>8. print_cell_border_bottom(stream, f, j, n, w) = a \o x \o c
  BY Zenon, <1>0, <1>1, <1>4, <1>5, <1>6, <1>7 DEF print_cell_border_bottom, Join
<1>9. EndBorder(j, n) \in Nat /\ 1 + w + EndBorder(j, n) = w + 1 + EndBorder(j, n) /\ 1 \in Nat
  BY DEF EndBorder
<1>10. a \o x \o c \in Strip(w + 1 + EndBorder(j, n))
  BY Zenon, <1>9, ThreeStrips
<1> QED BY Zenon, <1>1, <1>8, <1>10

\* f is the function by which LineWidth adds up the widths of n columns.
WidthsTo(f, widths, n) ==
    f = [j \in 0..n |-> IF j = 0 THEN 1 ELSE f[j - 1] + widths[j] + 1]

\* What it adds up to.
RightOf(f, widths, n) ==
    /\ f \in [0..n -> Nat] /\ f[0] = 1
    /\ \A j \in 1..n : f[j] = f[j - 1] + widths[j] + 1
    /\ \A j \in 0..n : f[j] >= 1
    /\ LineWidth(widths, n) = f[n]

LEMMA WidthDef ==
    ASSUME NEW n \in Nat, NEW widths, \A j \in 1..n : widths[j] \in Nat
    PROVE  \E f : RightOf(f, widths, n)
<1> DEFINE Upto(f, k) == f = [j \in 0..k |-> IF j = 0 THEN 1 ELSE f[j - 1] + widths[j] + 1]
           T == {k \in Nat : \E f : Upto(f, k)}
<1>1. 0 \in T
  <2> DEFINE f == [j \in 0..0 |-> 1]
  <2>1. Upto(f, 0)
    OBVIOUS
  <2> QED BY <2>1
<1>2. ASSUME NEW k \in Nat, k \in T PROVE k + 1 \in T
  <2>1. PICK f : Upto(f, k)
    BY <1>2
  <2> DEFINE last == f[k] + widths[k + 1] + 1
             g == [j \in 0..(k + 1) |-> IF j = k + 1 THEN last ELSE f[j]]
  <2>2. ASSUME NEW j \in 0..(k + 1)
        PROVE  g[j] = IF j = 0 THEN 1 ELSE g[j - 1] + widths[j] + 1
    <3>1. CASE j = k + 1
      BY <3>1
    <3>2. CASE j # k + 1
      <4>1. j \in 0..k
        BY <3>2
      <4>2. f[j] = IF j = 0 THEN 1 ELSE f[j - 1] + widths[j] + 1
        BY <2>1, <4>1
      <4>3. g[j] = f[j] /\ (j # 0 => g[j - 1] = f[j - 1])
        BY <4>1
      <4> QED BY <4>2, <4>3
    <3> QED BY <3>1, <3>2
  <2>3. g = [j \in 0..(k + 1) |-> g[j]]
    OBVIOUS
  <2>4. Upto(g, k + 1)
    <3> HIDE DEF g
    <3> QED BY <2>2, <2>3
  <2> QED
    <3> HIDE DEF g, Upto
    <3> QED BY <2>4
<1>3. \E f : WidthsTo(f, widths, n)
  <2>1. n \in T
    <3> HIDE DEF T
    <3> QED BY <1>1, <1>2, Induction
  <2> QED BY <2>1 DEF WidthsTo
<1> DEFINE f == CHOOSE f : WidthsTo(f, widths, n)
<1>4. WidthsTo(f, widths, n)
  BY <1>3
<1>5. LineWidth(widths, n) = f[n]
  BY DEF LineWidth, WidthsTo
<1> HIDE DEF f
<1>6. \A j \in 0..n : f[j] = IF j = 0 THEN 1 ELSE f[j - 1] + widths[j] + 1
  BY <1>4 DEF WidthsTo
<1> DEFINE U == {k \in Nat : k <= n => f[k] \in Nat /\ f[k] >= 1}
<1>7. 0 \in U
  BY <1>6
<1>8. ASSUME NEW k \in Nat, k \in U PROVE k + 1 \in U
  <2> SUFFICES ASSUME k + 1 <= n PROVE f[k + 1] \in Nat /\ f[k + 1] >= 1
    OBVIOUS
  <2>1. k + 1 \in 0..n /\ k + 1 # 0 /\ (k + 1) - 1 = k /\ k + 1 \in 1..n /\ k <= n
    OBVIOUS
  <2>2. f[k + 1] = f[k] + widths[k + 1] + 1
    BY <1>6, <2>1
  <2>3. f[k] \in Nat /\ widths[k + 1] \in Nat
    BY <1>8, <2>1
  <2> QED BY <2>2, <2>3
<1>9. \A k \in 0..n : f[k] \in Nat /\ f[k] >= 1
  <2>1. Nat \subseteq U
    <3> HIDE DEF U
    <3> QED BY <1>7, <1>8, Induction
  <2> QED BY <2>1
<1>10. f \in [0..n -> Nat]
  <2>1. DOMAIN f = 0..n /\ f = [j \in 0..n |-> f[j]]
    BY <1>4 DEF WidthsTo
  <2> QED BY <1>9, <2>1
<1>11. f[0] = 1 /\ \A j \in 1..n : f[j] = f[j - 1] + widths[j] + 1
  BY <1>6
<1>12. RightOf(f, widths, n)
  BY Zenon, <1>5, <1>9, <1>10, <1>11 DEF RightOf
<1> QED BY Zenon, <1>12

\* Something of every column, from its left border on, is a line.
LEMMA LineStrip ==
    ASSUME NEW n \in Nat, n # 0, NEW widths, \A j \in 1..n : widths[j] \in Nat,
           NEW f \in [1..n -> Seq(Inline)],
           \A j \in 1..n : f[j] \in Strip(widths[j] + 1 + EndBorder(j, n))
    PROVE  FlattenSeq(f) \in Strip(LineWidth(widths, n))
<1>1. PICK r : RightOf(r, widths, n)
  BY WidthDef
<1>2. PICK d, edge : /\ d = [j \in 1..n |-> widths[j] + 1 + EndBorder(j, n)]
                     /\ edge = [j \in 0..n |-> IF j = n THEN r[n] ELSE r[j] - 1]
  OBVIOUS
<1>3. \A j \in 1..n : EndBorder(j, n) \in Nat
  BY DEF EndBorder
<1>4. /\ r \in [0..n -> Nat] /\ r[0] = 1
      /\ \A j \in 1..n : r[j] = r[j - 1] + widths[j] + 1
      /\ \A j \in 0..n : r[j] >= 1 /\ r[j] \in Nat
      /\ LineWidth(widths, n) = r[n]
  BY <1>1 DEF RightOf
<1>5. d \in [1..n -> Nat]
  BY <1>2, <1>3
<1>6. edge \in [0..n -> Nat]
  <2>1. ASSUME NEW j \in 0..n PROVE edge[j] \in Nat
    <3>1. r[j] >= 1 /\ r[j] \in Nat
      BY <1>4
    <3> QED BY <1>2, <3>1
  <2> QED BY <1>2, <2>1
<1>7. Adds(edge, d, n)
  <2>1. edge[0] = 0
    BY <1>2, <1>4
  <2>2. ASSUME NEW j \in 1..n PROVE edge[j] = edge[j - 1] + d[j]
    <3>1. j - 1 \in 0..n /\ j - 1 # n /\ j \in 0..n
      OBVIOUS
    <3>2. PICK x \in Nat, w \in Nat : x = r[j - 1] /\ w = widths[j] /\ r[j] = x + w + 1
      BY <1>4, <3>1
    <3>3. edge[j - 1] = x - 1
      BY <1>2, <3>1, <3>2
    <3>4. CASE j = n
      <4>1. d[j] = w + 2
        BY <1>2, <3>2, <3>4 DEF EndBorder
      <4>2. edge[j] = x + w + 1
        BY <1>2, <3>1, <3>2, <3>4
      <4>3. x + w + 1 = (x - 1) + (w + 2)
        OBVIOUS
      <4> QED BY Zenon, <3>3, <4>1, <4>2, <4>3
    <3>5. CASE j # n
      <4>1. d[j] = w + 1
        BY <1>2, <3>2, <3>5 DEF EndBorder
      <4>2. edge[j] = (x + w + 1) - 1
        BY <1>2, <3>1, <3>2, <3>5
      <4>3. (x + w + 1) - 1 = (x - 1) + (w + 1)
        OBVIOUS
      <4> QED BY Zenon, <3>3, <4>1, <4>2, <4>3
    <3> QED BY <3>4, <3>5
  <2> QED BY Zenon, <2>1, <2>2 DEF Adds
<1>8. \A j \in 1..n : f[j] \in Strip(d[j])
  BY <1>2
<1>9. FlattenSeq(f) \in Strip(edge[n])
  BY <1>5, <1>6, <1>7, <1>8, JoinedStrips
<1>10. edge[n] = LineWidth(widths, n)
  BY <1>2, <1>4
<1> QED BY <1>9, <1>10

\* A line of a table has a border.
LEMMA LineWidthType ==
    ASSUME NEW n \in Nat, NEW widths, \A j \in 1..n : widths[j] \in Nat
    PROVE  LineWidth(widths, n) \in Nat /\ LineWidth(widths, n) >= 1
<1>1. PICK r : RightOf(r, widths, n)
  BY WidthDef
<1>2. n \in 0..n
  OBVIOUS
<1> QED BY <1>1, <1>2 DEF RightOf

\* The cells of a table that is ruled are.
LEMMA RuledCells ==
    ASSUME NEW u, Full(u), u.text # << >>, Ruled(u), NEW i \in 1..Len(u.text),
           NEW j \in 1..estimate_num_columns(u)
    PROVE  RuledCell(u.cells[i][j], j, u.text[i][j], column_width(u, j))
<1>1. <<i, j>> \in Cells(u)
  <2>1. Cells(u) = Positions(u)
    BY CellPositions DEF Full, Padded
  <2> QED BY <2>1 DEF Positions
<1>2. PICK c : c = <<i, j>> /\ c[1] = i /\ c[2] = j
  <2>1. <<i, j>>[1] = i /\ <<i, j>>[2] = j
    OBVIOUS
  <2> QED BY Zenon, <2>1
<1>3. /\ \A m \in ShowMembers : u.cells[c[1]][c[2]][m]
      /\ Len(u.cells[c[1]][c[2]]["border_left"])
             + (IF c[2] > 1 /\ u.cells[c[1]][c[2]]["show_column_separator"]
                THEN Len(u.cells[c[1]][c[2]]["column_separator"]) ELSE 0) = 1
      /\ Len(u.cells[c[1]][c[2]]["border_right"]) = 1
      /\ \A m \in CornerTexts \cup {"border_top", "border_bottom"} :
             Len(u.cells[c[1]][c[2]][m]) = 1
      /\ "\n" \notin ToSet(u.text[c[1]][c[2]])
      /\ column_widths(u)[c[2]] > u.cells[c[1]][c[2]]["padding_left"]
                                      + u.cells[c[1]][c[2]]["padding_right"]
  BY Zenon, <1>1, <1>2 DEF Ruled
<1>4. column_widths(u)[j] = column_width(u, j)
  BY Columns
<1> QED BY Zenon, <1>2, <1>3, <1>4 DEF RuledCell

\* It has a column.
LEMMA RuledColumns ==
    ASSUME NEW u, Full(u), Returns(u), u.text # << >>, Ruled(u)
    PROVE  /\ estimate_num_columns(u) \in Nat /\ estimate_num_columns(u) # 0
           /\ \A i \in 1..Len(u.text) : row_height(u, i, column_widths(u)) > 0
<1>1. WellFormed(u) /\ estimate_num_columns(u) \in Nat
  BY Columns DEF Full, Padded
<1>2. u.text \in Seq(Seq(Texts)) /\ Len(u.text) \in Nat
  BY <1>1, WellFormedRows
<1>3. 1 \in 1..Len(u.text) /\ DOMAIN u.text = 1..Len(u.text)
  BY <1>2, EmptySeq, LenProperties
<1>4. \A i \in 1..Len(u.text) : row_height(u, i, column_widths(u)) > 0
  BY <1>3 DEF Ruled
<1>5. SUFFICES ASSUME estimate_num_columns(u) = 0 PROVE FALSE
  BY <1>1, <1>4
<1>6. DOMAIN u.cells[1] = {}
  <2>1. u.cells[1] \in Seq(Formats) /\ Len(u.cells[1]) = 0
    BY <1>1, <1>3, <1>5, WellFormedRows
  <2> QED BY <2>1, LenProperties
<1>7. Max({0}) = 0
  <2>1. {0} \in SUBSET (0..0) /\ {0} # {} /\ 0 \in Nat
    OBVIOUS
  <2>2. Max({0}) \in {0}
    BY Zenon, <2>1, Greatest
  <2> QED BY <2>2
<1>8. get_configured_height(u, 1) = 0
  <2>1. {0} \cup {u.cells[1][j]["height"] :
                     j \in {j \in DOMAIN u.cells[1] : u.cells[1][j]["height"] # NoValue}} = {0}
    BY <1>6
  <2> QED BY Zenon, <1>7, <2>1 DEF get_configured_height
<1>9. get_computed_height(u, 1, column_widths(u)) = 0
  <2>1. {0} \cup {get_cell_height(u.cells[1][j], u.text[1][j], column_widths(u)[j]) :
                     j \in DOMAIN u.cells[1]} = {0}
    BY <1>6
  <2> QED BY Zenon, <1>7, <2>1 DEF get_computed_height
<1>10. row_height(u, 1, column_widths(u)) = 0
  <2>1. {0, 0} = {0}
    OBVIOUS
  <2> QED BY Zenon, <1>7, <1>8, <1>9, <2>1 DEF row_height
<1> QED BY <1>3, <1>4, <1>10

\* The number of characters that are seen of its lines.
Across(u) == LineWidth(column_widths(u), estimate_num_columns(u))

\* What is printed of every column together.
LEMMA AcrossStrip ==
    ASSUME NEW u, Full(u), Returns(u), u.text # << >>, Ruled(u), NEW f,
           f \in [1..estimate_num_columns(u) -> Seq(Inline)],
           \A j \in 1..estimate_num_columns(u) :
              f[j] \in Strip(column_width(u, j) + 1 + EndBorder(j, estimate_num_columns(u)))
    PROVE  FlattenSeq(f) \in Strip(Across(u))
<1>1. PICK n, widths : /\ n \in Nat
                       /\ n = estimate_num_columns(u) /\ widths = column_widths(u)
  BY Columns
<1>2. n # 0 /\ \A j \in 1..n : widths[j] = column_width(u, j) /\ column_width(u, j) \in Nat
  BY <1>1, Columns, RuledColumns
<1>3. FlattenSeq(f) \in Strip(LineWidth(widths, n))
  BY <1>1, <1>2, LineStrip
<1> QED BY <1>1, <1>3 DEF Across

\* What is known of a sheet the lines of which end in the same place.
Lineal(u) == Full(u) /\ Returns(u) /\ u.text # << >> /\ Ruled(u)

\* The border above a row,
LEMMA TopStrip ==
    ASSUME BordersInLine, NEW stream, NEW u, Lineal(u), NEW i \in 1..Len(u.text)
    PROVE  \E x \in Strip(Across(u)) :
               print_top(stream, u, i, column_widths(u)) = x \o newline(stream)
<1> DEFINE n == estimate_num_columns(u)
           Top(j) == print_cell_border_top(stream, u.cells[i][j], i, j, n, column_widths(u)[j])
           f == [j \in 1..n |-> Top(j)]
<1>1. Full(u) /\ Returns(u) /\ u.text # << >> /\ Ruled(u) /\ n \in Nat
  BY Columns DEF Lineal
<1>2. ASSUME NEW j \in 1..n
      PROVE  /\ has_border_top(u.cells[i][j])
             /\ Top(j) \in Strip(column_width(u, j) + 1 + EndBorder(j, n))
  <2>1. FullFormat(u.cells[i][j]) /\ column_width(u, j) \in Nat
    BY <1>1, FullCells
  <2>2. RuledCell(u.cells[i][j], j, u.text[i][j], column_width(u, j))
    BY <1>1, RuledCells
  <2>3. column_widths(u)[j] = column_width(u, j)
    BY <1>1, Columns
  <2> HIDE DEF n
  <2> QED BY <2>1, <2>2, <2>3, CellTopStrip
<1>3. f \in [1..n -> Seq(Inline)]
      /\ \A j \in 1..n : f[j] \in Strip(column_width(u, j) + 1 + EndBorder(j, n))
  <2> HIDE DEF Top, n
  <2> QED BY <1>2 DEF Strip
<1>4. FlattenSeq(f) \in Strip(Across(u))
  <2> HIDE DEF f
  <2> QED BY <1>1, <1>3, AcrossStrip
<1>5. print_top(stream, u, i, column_widths(u)) = FlattenSeq(f) \o newline(stream)
  <2>1. \A j \in 1..n : has_border_top(u.cells[i][j])
    BY <1>2
  <2> QED BY Zenon, <2>1 DEF print_top, Join
<1> HIDE DEF f
<1> QED BY Zenon, <1>4, <1>5

\* the one below it,
LEMMA BottomStrip ==
    ASSUME BordersInLine, NEW stream, NEW u, Lineal(u), NEW i \in 1..Len(u.text)
    PROVE  \E x \in Strip(Across(u)) :
               print_bottom(stream, u, i, column_widths(u)) = newline(stream) \o x
<1> DEFINE n == estimate_num_columns(u)
           Bottom(j) == print_cell_border_bottom(stream, u.cells[i][j], j, n, column_widths(u)[j])
           f == [j \in 1..n |-> Bottom(j)]
<1>1. Full(u) /\ Returns(u) /\ u.text # << >> /\ Ruled(u) /\ n \in Nat
  BY Columns DEF Lineal
<1>2. ASSUME NEW j \in 1..n
      PROVE  /\ u.cells[i][j]["border_bottom"] # << >>
             /\ Bottom(j) \in Strip(column_width(u, j) + 1 + EndBorder(j, n))
  <2>1. FullFormat(u.cells[i][j]) /\ column_width(u, j) \in Nat
    BY <1>1, FullCells
  <2>2. RuledCell(u.cells[i][j], j, u.text[i][j], column_width(u, j))
    BY <1>1, RuledCells
  <2>3. column_widths(u)[j] = column_width(u, j)
    BY <1>1, Columns
  <2> HIDE DEF n
  <2> QED BY <2>1, <2>2, <2>3, CellBottomStrip
<1>3. f \in [1..n -> Seq(Inline)]
      /\ \A j \in 1..n : f[j] \in Strip(column_width(u, j) + 1 + EndBorder(j, n))
  <2> HIDE DEF Bottom, n
  <2> QED BY <1>2 DEF Strip
<1>4. FlattenSeq(f) \in Strip(Across(u))
  <2> HIDE DEF f
  <2> QED BY <1>1, <1>3, AcrossStrip
<1>5. print_bottom(stream, u, i, column_widths(u)) = newline(stream) \o FlattenSeq(f)
  <2>1. \A j \in 1..n : u.cells[i][j]["corner_bottom_left"] # << >>
                            \/ u.cells[i][j]["border_bottom"] # << >>
    BY <1>2
  <2> QED BY Zenon, <2>1 DEF print_bottom, Join
<1> HIDE DEF f
<1> QED BY Zenon, <1>4, <1>5

\* and a line of the row.
LEMMA LineStripped ==
    ASSUME BordersInLine, NEW stream, NEW u, Lineal(u), NEW i \in 1..Len(u.text), NEW k
    PROVE  PrintedLine(stream, u, i, k) \in Strip(Across(u))
<1> DEFINE n == estimate_num_columns(u)
           widths == column_widths(u)
           Lines(j) == splitted_cell_text(u.cells[i][j], u.text[i][j], widths[j])
           text == Tuple(n, Lines)
           InCell(j) == print_row_in_cell(stream, u.cells[i][j], j, n, widths[j], k, text[j])
           f == [j \in 1..n |-> InCell(j)]
<1>1. Full(u) /\ Returns(u) /\ u.text # << >> /\ Ruled(u) /\ n \in Nat
  BY Columns DEF Lineal
<1>2. \A j \in 1..n : widths[j] = column_width(u, j) /\ widths[j] \in Nat
  BY <1>1, Columns
<1>3. \A j \in 1..n : text[j] = Lines(j)
  <2> DEFINE g == [j \in 1..n |-> Lines(j)]
             S == {Lines(j) : j \in 1..n}
  <2>1. g \in [1..n -> S]
    <3> HIDE DEF Lines, n
    <3> QED OBVIOUS
  <2>2. text = SubSeq(g, 1, n)
    BY DEF Tuple
  <2>3. \A j \in 1..n : g[j] = Lines(j)
    <3> HIDE DEF Lines, n
    <3> QED OBVIOUS
  <2>4. text = g
    <3> HIDE DEF g, S, n, text
    <3> QED BY <1>1, <2>1, <2>2, TupleSeq
  <2> HIDE DEF g, n, text, Lines
  <2> QED BY <2>3, <2>4
<1>4. ASSUME NEW j \in 1..n
      PROVE  InCell(j) \in Strip(column_width(u, j) + 1 + EndBorder(j, n))
  <2>1. PICK w \in Nat : w = widths[j] /\ w = column_width(u, j)
    BY <1>2
  <2>2. /\ FullFormat(u.cells[i][j]) /\ u.text[i][j] \in Texts
        /\ Wrappable(u.cells[i][j], u.text[i][j], w)
    BY <1>1, <2>1, FullCells DEF Returns
  <2>3. RuledCell(u.cells[i][j], j, u.text[i][j], w)
    BY <1>1, <2>1, RuledCells
  <2>4. text[j] = splitted_cell_text(u.cells[i][j], u.text[i][j], w)
    BY <1>3, <2>1
  <2>5. j \in Nat \ {0}
    BY <1>1
  <2>6. print_row_in_cell(stream, u.cells[i][j], j, n, w, k,
                          splitted_cell_text(u.cells[i][j], u.text[i][j], w))
            \in Strip(w + 1 + EndBorder(j, n))
    <3> HIDE DEF n
    <3> QED BY <2>2, <2>3, <2>5, CellLineStrip
  <2> HIDE DEF text, Lines
  <2> QED BY Zenon, <2>1, <2>4, <2>6
<1>5. f \in [1..n -> Seq(Inline)]
      /\ \A j \in 1..n : f[j] \in Strip(column_width(u, j) + 1 + EndBorder(j, n))
  <2> HIDE DEF InCell, n
  <2> QED BY <1>4 DEF Strip
<1>6. FlattenSeq(f) \in Strip(Across(u))
  <2> HIDE DEF f
  <2> QED BY <1>1, <1>5, AcrossStrip
<1> QED BY Zenon, <1>6 DEF PrintedLine, Join

\* x is h lines, of L characters each with their newlines.
Lined(x, L, h) ==
    /\ Len(x) = h * L
    /\ \A k \in 1..Len(x) : x[k] = "\n" <=> \E m \in 1..h : k = m * L

LEMMA Multiples ==
    ASSUME NEW L \in Nat, L # 0, NEW m \in Nat, NEW n \in Nat
    PROVE  /\ m * L \in Nat
           /\ (m + n) * L = m * L + n * L
           /\ m * L <= n * L <=> m <= n
<1>1. m * L \in Nat
  OBVIOUS
<1>2. (m + n) * L = m * L + n * L
  OBVIOUS
<1>3. m * L <= n * L <=> m <= n
  OBVIOUS
<1> QED BY <1>1, <1>2, <1>3

LEMMA LinedConcat ==
    ASSUME NEW D, NEW x \in Seq(D), NEW y \in Seq(D), NEW L \in Nat, L # 0,
           NEW h \in Nat, NEW g \in Nat, Lined(x, L, h), Lined(y, L, g)
    PROVE  Lined(x \o y, L, h + g)
<1>1. PICK a \in Nat, b \in Nat : a = h * L /\ b = g * L
  BY Multiples
<1>2. Len(x) = a /\ Len(y) = b /\ (h + g) * L = a + b
  BY ZenonT(30), <1>1, Multiples DEF Lined
<1>3. PICK z : z = x \o y
  OBVIOUS
<1>4. /\ Len(z) = a + b
      /\ \A k \in 1..(a + b) : z[k] = IF k <= a THEN x[k] ELSE y[k - a]
  BY <1>2, <1>3, ConcatProperties
<1>5. ASSUME NEW k \in 1..(a + b) PROVE z[k] = "\n" <=> \E m \in 1..(h + g) : k = m * L
  <2>1. CASE k <= a
    <3>1. k \in 1..a
      BY <2>1
    <3>2. x[k] = "\n" <=> \E m \in 1..h : k = m * L
      BY <1>2, <3>1 DEF Lined
    <3>3. ASSUME NEW m \in 1..(h + g), k = m * L PROVE m \in 1..h
      <4>1. m \in Nat
        OBVIOUS
      <4>2. m * L <= h * L
        BY Zenon, <1>1, <2>1, <3>3
      <4>3. m <= h
        BY Zenon, <4>1, <4>2, Multiples
      <4> QED BY <4>3
    <3>4. \A m \in 1..h : m \in 1..(h + g)
      OBVIOUS
    <3>5. z[k] = x[k]
      BY <1>4, <2>1
    <3> QED BY Zenon, <3>2, <3>3, <3>4, <3>5
  <2>2. CASE ~(k <= a)
    <3>1. k - a \in 1..b
      BY <2>2
    <3>2. y[k - a] = "\n" <=> \E m \in 1..g : k - a = m * L
      BY <1>2, <3>1 DEF Lined
    <3>3. ASSUME NEW m \in 1..g, k - a = m * L PROVE k = (m + h) * L
      <4>1. m \in Nat
        OBVIOUS
      <4>2. PICK c \in Nat : c = m * L
        BY <4>1, Multiples
      <4>3. (m + h) * L = c + a
        BY ZenonT(30), <1>1, <4>1, <4>2, Multiples
      <4>4. k - a = c
        BY Zenon, <3>3, <4>2
      <4> QED BY <4>3, <4>4
    <3>4. ASSUME NEW m \in 1..(h + g), k = m * L PROVE \E d \in 1..g : k - a = d * L
      <4>1. m \in Nat
        OBVIOUS
      <4>2. ~(m * L <= h * L)
        BY Zenon, <1>1, <2>2, <3>4
      <4>3. ~(m <= h)
        BY Zenon, <4>1, <4>2, Multiples
      <4>4. PICK d \in Nat : d = m - h
        BY <4>3
      <4>5. d \in 1..g /\ m = d + h
        BY <4>3, <4>4
      <4>6. PICK c \in Nat : c = d * L
        BY <4>4, Multiples
      <4>7. (d + h) * L = c + a
        <5>1. d \in Nat
          BY <4>4
        <5> QED BY ZenonT(30), <1>1, <4>6, <5>1, Multiples
      <4>8. k - a = c
        <5>1. k = c + a
          BY Zenon, <3>4, <4>5, <4>7
        <5> QED BY <5>1
      <4>9. k - a = d * L
        BY Zenon, <4>6, <4>8
      <4> QED BY Zenon, <4>5, <4>9
    <3>5. z[k] = y[k - a]
      BY <1>4, <2>2
    <3>6. \A m \in 1..g : m + h \in 1..(h + g)
      OBVIOUS
    <3> QED BY Zenon, <3>2, <3>3, <3>4, <3>5, <3>6
  <2> QED BY <2>1, <2>2
<1> QED BY Zenon, <1>2, <1>3, <1>4, <1>5 DEF Lined

\* What is seen of it are lines of L characters.
Grid(L) == {s \in Seq(Tokens) : \E h \in Nat : Lined(Only(s, Characters), L, h)}

LEMMA GridLanguage ==
    ASSUME NEW L \in Nat, L # 0
    PROVE  Language(Grid(L))
<1>1. Grid(L) \subseteq Seq(Tokens)
  BY DEF Grid
<1>2. << >> \in Grid(L)
  <2>1. Only(<< >>, Characters) = << >>
    BY OnlyNone
  <2>2. Len(<< >>) = 0 /\ 0 * L = 0 /\ 1..0 = {}
    OBVIOUS
  <2>3. Lined(<< >>, L, 0)
    BY <2>2 DEF Lined
  <2>4. << >> \in Seq(Tokens) /\ 0 \in Nat
    BY EmptySeq
  <2> QED BY Zenon, <2>1, <2>3, <2>4 DEF Grid
<1>3. ASSUME NEW a \in Grid(L), NEW b \in Grid(L) PROVE a \o b \in Grid(L)
  <2>1. a \in Seq(Tokens) /\ b \in Seq(Tokens) /\ a \o b \in Seq(Tokens)
    BY <1>1, ConcatProperties
  <2>2. PICK h \in Nat : Lined(Only(a, Characters), L, h)
    BY DEF Grid
  <2>3. PICK g \in Nat : Lined(Only(b, Characters), L, g)
    BY DEF Grid
  <2>4. Only(a, Characters) \in Seq(Tokens) /\ Only(b, Characters) \in Seq(Tokens)
        /\ Only(a \o b, Characters) = Only(a, Characters) \o Only(b, Characters)
    <3>1. Only(a, Characters) \in Seq(Tokens) /\ Only(b, Characters) \in Seq(Tokens)
      BY Zenon, <2>1, OnlyType
    <3>2. Only(a \o b, Characters) = Only(a, Characters) \o Only(b, Characters)
      BY <2>1, OnlyConcat
    <3> QED BY <3>1, <3>2
  <2>5. Lined(Only(a, Characters) \o Only(b, Characters), L, h + g)
    BY <2>2, <2>3, <2>4, LinedConcat
  <2>6. h + g \in Nat
    OBVIOUS
  <2> QED BY Zenon, <2>1, <2>4, <2>5, <2>6 DEF Grid
<1> QED BY Zenon, <1>1, <1>2, <1>3 DEF Language

\* The end of a line.
LEMMA NewlineSeen ==
    ASSUME NEW stream
    PROVE  newline(stream) \in Seq(Tokens) /\ Only(newline(stream), Characters) = <<"\n">>
<1>1. reset(stream) \in Seq(Tokens) /\ Only(reset(stream), Characters) = << >>
  <2>1. "none" \in Color
    BY DEF Color
  <2>2. reset(stream) \in Seq({ResetCode})
    BY <2>1, ElementStyle
  <2>3. {ResetCode} \subseteq Tokens /\ {ResetCode} \cap Characters = {}
    BY TokensAre DEF Tokens
  <2> QED BY Zenon, <2>2, <2>3, Widened, OnlyOther
<1>2. "\n" \in Characters /\ "\n" \in Tokens
  BY Zenon, MarksAreCharacters DEF Marks, Tokens
<1>3. <<"\n">> \in Seq(Characters) /\ <<"\n">> \in Seq(Tokens)
  BY <1>2, Single
<1>4. Only(<<"\n">>, Characters) = <<"\n">>
  BY <1>3, OnlyAll
<1>5. Only(reset(stream) \o <<"\n">>, Characters) = << >> \o <<"\n">>
  <2>1. reset(stream) \in Seq(Tokens) /\ <<"\n">> \in Seq(Tokens)
    BY <1>1, <1>3
  <2>2. Only(reset(stream) \o <<"\n">>, Characters)
            = Only(reset(stream), Characters) \o Only(<<"\n">>, Characters)
    <3>1. PICK r, e : r = reset(stream) /\ e = <<"\n">>
      OBVIOUS
    <3>2. r \in Seq(Tokens) /\ e \in Seq(Tokens)
      BY <2>1, <3>1
    <3>3. Only(r \o e, Characters) = Only(r, Characters) \o Only(e, Characters)
      BY <3>2, OnlyConcat
    <3> QED BY Zenon, <3>1, <3>3
  <2> QED BY Zenon, <1>1, <1>4, <2>2
<1>6. << >> \o <<"\n">> = <<"\n">>
  OBVIOUS
<1>7. reset(stream) \o <<"\n">> \in Seq(Tokens)
  BY <1>1, <1>3, ConcatProperties
<1> QED BY <1>5, <1>6, <1>7 DEF newline

\* A strip with its newline is a line.
LEMMA StripLine ==
    ASSUME NEW n \in Nat, NEW x \in Strip(n), NEW stream
    PROVE  x \o newline(stream) \in Grid(n + 1)
<1>1. x \in Seq(Inline) /\ x \in Seq(Tokens) /\ Len(Only(x, Characters)) = n
  <2>1. x \in Seq(Inline) /\ Len(Only(x, Characters)) = n
    BY DEF Strip
  <2> QED BY Zenon, <2>1, InlineTokens, Widened
<1>2. PICK y : y = Only(x, Characters)
  OBVIOUS
<1>3. y \in Seq(Inline) /\ Len(y) = n
  BY <1>1, <1>2, OnlyType
<1>4. \A k \in 1..n : y[k] # "\n"
  <2>1. \A k \in 1..n : y[k] \in Inline
    BY <1>3, ElementOfSeq
  <2> QED BY <2>1 DEF Inline
<1>5. PICK z : z = y \o <<"\n">>
  OBVIOUS
<1>6. Only(x \o newline(stream), Characters) = z
  <2>1. x \in Seq(Tokens) /\ newline(stream) \in Seq(Tokens)
    BY <1>1, NewlineSeen
  <2>2. Only(x \o newline(stream), Characters)
            = Only(x, Characters) \o Only(newline(stream), Characters)
    BY <2>1, OnlyConcat
  <2> QED BY Zenon, <1>2, <1>5, <2>2, NewlineSeen
<1>7. Len(z) = n + 1 /\ (\A k \in 1..n : z[k] = y[k]) /\ z[n + 1] = "\n"
  BY <1>3, <1>5
<1>8. Lined(z, n + 1, 1)
  <2>1. 1 * (n + 1) = n + 1
    OBVIOUS
  <2>2. ASSUME NEW k \in 1..(n + 1) PROVE z[k] = "\n" <=> k = n + 1
    BY <1>4, <1>7
  <2>3. 1..1 = {1}
    OBVIOUS
  <2> QED BY Zenon, <1>7, <2>1, <2>2, <2>3 DEF Lined
<1>9. x \o newline(stream) \in Seq(Tokens)
  BY <1>1, NewlineSeen, ConcatProperties
<1> QED BY <1>6, <1>8, <1>9 DEF Grid

\* Pieces that are put together but for the end of the last.
LEMMA EndedParts ==
    ASSUME NEW P, Language(P), NEW n \in Nat, n # 0, NEW f \in [1..n -> Seq(Tokens)],
           \A k \in 1..n : k < n => f[k] \in P, NEW e \in Seq(Tokens), f[n] \o e \in P
    PROVE  FlattenSeq(f) \in Seq(Tokens) /\ FlattenSeq(f) \o e \in P
<1>1. PICK m \in Nat : n = m + 1
  <2>1. n - 1 \in Nat /\ n = (n - 1) + 1
    OBVIOUS
  <2> QED BY <2>1
<1>2. Parts(f, n, Tokens)
  BY DEF Parts
<1>3. Flats(f, n)
  BY Zenon, <1>2, FlatSteps
<1>4. m \in 0..n /\ n \in 0..n /\ m < n
  BY <1>1
<1>5. Flat(f, n) = Flat(f, m) \o f[n] /\ FlattenSeq(f) = Flat(f, n)
  BY Zenon, <1>1, <1>3, <1>4 DEF Flats
<1>6. Flat(f, m) \in P
  <2>1. [k \in 1..m |-> f[k]] \in [1..m -> P]
    <3>1. \A k \in 1..m : f[k] \in P
      BY <1>1
    <3> QED BY <3>1
  <2> QED BY Zenon, <2>1, Joined DEF Flat
<1>7. P \subseteq Seq(Tokens) /\ \A a, b \in P : a \o b \in P
  BY DEF Language
<1>8. Flat(f, m) \in Seq(Tokens) /\ f[n] \in Seq(Tokens)
  BY <1>4, <1>6, <1>7
<1>9. (Flat(f, m) \o f[n]) \o e = Flat(f, m) \o (f[n] \o e)
  <2>1. \A a, b, c \in Seq(Tokens) : (a \o b) \o c = a \o (b \o c)
    BY SMTT(40)
  <2> QED BY Zenon, <1>8, <2>1
<1>10. Flat(f, m) \o (f[n] \o e) \in P
  BY <1>6, <1>7
<1>11. FlattenSeq(f) \in Seq(Tokens)
  BY <1>5, <1>8, ConcatProperties
<1> QED BY Zenon, <1>5, <1>9, <1>10, <1>11

\* The lines of a row, with a newline at the end,
LEMMA RowGrid ==
    ASSUME BordersInLine, NEW stream, NEW u, Lineal(u), NEW i \in 1..Len(u.text)
    PROVE  /\ print_row(stream, u, i, column_widths(u)) \in Seq(Tokens)
           /\ print_row(stream, u, i, column_widths(u)) \o newline(stream)
                  \in Grid(Across(u) + 1)
<1> DEFINE widths == column_widths(u)
           height == row_height(u, i, widths)
           Ended(k) == PrintedLine(stream, u, i, k) \o IF k < height THEN newline(stream) ELSE << >>
           f == [k \in 1..height |-> Ended(k)]
           P == Grid(Across(u) + 1)
<1>1. Full(u) /\ Returns(u) /\ u.text # << >> /\ Ruled(u)
  BY DEF Lineal
<1>2. height \in Nat /\ height # 0
  <2>1. height \in Nat /\ height > 0
    BY <1>1, RowHeight, RuledColumns
  <2> HIDE DEF height
  <2> QED BY <2>1
<1>3. Across(u) \in Nat
  BY <1>1, Columns, LineWidthType DEF Across
<1>4. Language(P)
  <2>1. Across(u) + 1 \in Nat /\ Across(u) + 1 # 0
    BY <1>3
  <2> QED BY Zenon, <2>1, GridLanguage
<1>5. newline(stream) \in Seq(Tokens)
  BY NewlineSeen
<1>6. \A k : /\ PrintedLine(stream, u, i, k) \in Seq(Tokens)
             /\ PrintedLine(stream, u, i, k) \o newline(stream) \in P
             /\ PrintedLine(stream, u, i, k) \o << >> = PrintedLine(stream, u, i, k)
  <2> TAKE k
  <2>1. PICK x \in Strip(Across(u)) : x = PrintedLine(stream, u, i, k)
    BY LineStripped
  <2>2. x \in Seq(Tokens)
    <3>1. x \in Seq(Inline)
      BY DEF Strip
    <3> QED BY Zenon, <3>1, InlineTokens, Widened
  <2>3. x \o newline(stream) \in P
    BY Zenon, <1>3, StripLine
  <2>4. x \o << >> = x
    BY <2>2
  <2> QED BY Zenon, <2>1, <2>2, <2>3, <2>4
<1>7. f \in [1..height -> Seq(Tokens)]
  <2>1. \A k \in 1..height : Ended(k) \in Seq(Tokens)
    <3> HIDE DEF height
    <3> QED BY <1>5, <1>6, ConcatProperties
  <2> HIDE DEF Ended, height
  <2> QED BY <2>1
<1>8. \A k \in 1..height : k < height => f[k] \in P
  <2>1. \A k \in 1..height : f[k] = Ended(k)
    <3> HIDE DEF Ended, height
    <3> QED OBVIOUS
  <2>2. \A k \in 1..height : k < height => Ended(k) \in P
    <3> HIDE DEF P, height
    <3> QED BY Zenon, <1>6
  <2> HIDE DEF Ended, height, f, P
  <2> QED BY Zenon, <2>1, <2>2
<1>9. f[height] \o newline(stream) \in P
  <2>1. height \in 1..height /\ ~(height < height)
    <3> HIDE DEF height
    <3> QED BY <1>2
  <2>2. f[height] = Ended(height)
    <3> HIDE DEF Ended, height
    <3> QED BY <2>1
  <2>3. Ended(height) = PrintedLine(stream, u, i, height)
    <3> HIDE DEF height
    <3> QED BY Zenon, <1>6, <2>1
  <2> HIDE DEF Ended, height, f, P
  <2> QED BY Zenon, <1>6, <2>2, <2>3
<1>10. FlattenSeq(f) \in Seq(Tokens) /\ FlattenSeq(f) \o newline(stream) \in P
  <2> HIDE DEF f, height, P
  <2> QED BY <1>2, <1>4, <1>5, <1>7, <1>8, <1>9, EndedParts
<1>11. print_row(stream, u, i, widths) = FlattenSeq(f)
  BY Zenon DEF print_row, PrintedLine, Join
<1> HIDE DEF f, height
<1> QED BY Zenon, <1>10, <1>11

\* the parts of a row between which no newline stands alone,
LEMMA RowLines ==
    ASSUME NEW P, Language(P), NEW top, NEW row, NEW bottom, NEW end,
           top \in Seq(Tokens), row \in Seq(Tokens), bottom \in Seq(Tokens), end \in Seq(Tokens),
           top \o end \in P, row \o end \in P, bottom \o end \in P
    PROVE  /\ (top \o end) \o row \o end \in P
           /\ (top \o end) \o row \o (end \o bottom) \in Seq(Tokens)
           /\ ((top \o end) \o row \o (end \o bottom)) \o end \in P
<1>1. P \subseteq Seq(Tokens) /\ \A a, b \in P : a \o b \in P
  BY DEF Language
<1>2. \A a, b, c \in Seq(Tokens) : (a \o b) \o c = a \o (b \o c) /\ a \o b \in Seq(Tokens)
  <2> TAKE a, b, c \in Seq(Tokens)
  <2> QED BY SMTT(40)
<1>3. PICK x \in P : x = top \o end
  OBVIOUS
<1>4. (x \o row) \o end = x \o (row \o end) /\ x \o row \in Seq(Tokens)
  BY Zenon, <1>1, <1>2
<1>5. x \o (row \o end) \in P
  BY Zenon, <1>1
<1>6. (x \o row) \o (end \o bottom) = ((x \o row) \o end) \o bottom
  BY ZenonT(30), <1>2, <1>4
<1>7. PICK y \in P : y = (x \o row) \o end
  BY Zenon, <1>4, <1>5
<1>8. (y \o bottom) \o end = y \o (bottom \o end) /\ y \o bottom \in Seq(Tokens)
  BY Zenon, <1>1, <1>2
<1>9. y \o (bottom \o end) \in P
  BY Zenon, <1>1
<1> QED BY Zenon, <1>3, <1>6, <1>7, <1>8, <1>9

\* and the print of the table are lines of the same length.
LEMMA TableGrid ==
    ASSUME BordersInLine, NEW stream, NEW u, Lineal(u)
    PROVE  /\ print_table(stream, u) \in Seq(Tokens)
           /\ print_table(stream, u) \o newline(stream) \in Grid(Across(u) + 1)
<1> DEFINE rows == Len(u.text)
           widths == column_widths(u)
           Row(i) == print_top(stream, u, i, widths) \o print_row(stream, u, i, widths)
                         \o (IF i = rows THEN print_bottom(stream, u, i, widths)
                             ELSE newline(stream))
           f == [i \in 1..rows |-> Row(i)]
           P == Grid(Across(u) + 1)
<1>1. Full(u) /\ Returns(u) /\ u.text # << >> /\ Ruled(u)
  BY DEF Lineal
<1>2. rows \in Nat /\ rows # 0
  <2>1. u.text \in Seq(Seq(Texts))
    BY <1>1, WellFormedRows DEF Full, Padded
  <2> DEFINE S == Seq(Texts)
  <2>2. u.text \in Seq(S)
    BY <2>1
  <2> HIDE DEF S
  <2> QED BY <1>1, <2>2, LenProperties, EmptySeq
<1>3. Across(u) \in Nat
  BY <1>1, Columns, LineWidthType DEF Across
<1>4. Language(P)
  <2>1. Across(u) + 1 \in Nat /\ Across(u) + 1 # 0
    BY <1>3
  <2> QED BY Zenon, <2>1, GridLanguage
<1>5. newline(stream) \in Seq(Tokens)
  BY NewlineSeen
<1>6. \A x \in Strip(Across(u)) : x \in Seq(Tokens) /\ x \o newline(stream) \in P
  <2> TAKE x \in Strip(Across(u))
  <2>1. x \in Seq(Tokens)
    <3>1. x \in Seq(Inline)
      BY DEF Strip
    <3> QED BY Zenon, <3>1, InlineTokens, Widened
  <2> QED BY Zenon, <1>3, <2>1, StripLine
<1>7. ASSUME NEW i \in 1..rows
      PROVE  /\ i < rows => Row(i) \in P
             /\ Row(i) \in Seq(Tokens)
             /\ i = rows => Row(i) \o newline(stream) \in P
  <2>1. PICK top \in Strip(Across(u)) :
            print_top(stream, u, i, widths) = top \o newline(stream)
    BY TopStrip
  <2>2. PICK bottom \in Strip(Across(u)) :
            print_bottom(stream, u, i, widths) = newline(stream) \o bottom
    BY BottomStrip
  <2>3. PICK row : row = print_row(stream, u, i, widths)
    OBVIOUS
  <2>4. row \in Seq(Tokens) /\ row \o newline(stream) \in P
    BY <2>3, RowGrid
  <2>5. /\ top \in Seq(Tokens) /\ bottom \in Seq(Tokens)
        /\ top \o newline(stream) \in P /\ bottom \o newline(stream) \in P
    BY <1>6
  <2> HIDE DEF P, rows, widths
  <2>6. /\ (top \o newline(stream)) \o row \o newline(stream) \in P
        /\ (top \o newline(stream)) \o row \o (newline(stream) \o bottom) \in Seq(Tokens)
        /\ ((top \o newline(stream)) \o row \o (newline(stream) \o bottom)) \o newline(stream) \in P
    BY Zenon, <1>4, <1>5, <2>4, <2>5, RowLines
  <2>7. P \subseteq Seq(Tokens)
    BY <1>4 DEF Language
  <2>8. i < rows => i # rows
    BY <1>2
  <2>9. /\ i # rows => Row(i) = (top \o newline(stream)) \o row \o newline(stream)
        /\ i = rows => Row(i) = (top \o newline(stream)) \o row \o (newline(stream) \o bottom)
    BY Zenon, <2>1, <2>2, <2>3
  <2> HIDE DEF Row
  <2> QED BY Zenon, <2>6, <2>7, <2>8, <2>9
<1>8. f \in [1..rows -> Seq(Tokens)] /\ \A i \in 1..rows : f[i] = Row(i)
  <2> HIDE DEF Row, rows
  <2> QED BY <1>7
<1>9. FlattenSeq(f) \in Seq(Tokens) /\ FlattenSeq(f) \o newline(stream) \in P
  <2>1. rows \in 1..rows
    <3> HIDE DEF rows
    <3> QED BY <1>2
  <2>2. (\A i \in 1..rows : i < rows => f[i] \in P) /\ f[rows] \o newline(stream) \in P
    <3> HIDE DEF f, rows, P, Row
    <3> QED BY Zenon, <1>7, <1>8, <2>1
  <2>3. f \in [1..rows -> Seq(Tokens)]
    BY <1>8
  <2> HIDE DEF f, rows, P
  <2> QED BY <1>2, <1>4, <1>5, <2>2, <2>3, EndedParts
<1>10. print_table(stream, u) = FlattenSeq(f)
  BY Zenon DEF print_table, Join
<1> HIDE DEF f
<1> QED BY Zenon, <1>9, <1>10

\* The multiples of L are the numbers that L divides.
LEMMA Divided ==
    ASSUME NEW L \in Nat, L # 0, NEW k \in Nat
    PROVE  (\E m \in Nat : k = m * L) <=> k % L = 0
<1>1. PICK q \in Nat, r \in Nat : /\ q = k \div L /\ r = k % L
                                  /\ r = k - L * q /\ r < L
  <2>1. k \div L \in Nat /\ k % L \in Nat /\ k % L = k - L * (k \div L) /\ k % L < L
    OBVIOUS
  <2> QED BY <2>1
<1>2. PICK p \in Nat : p = q * L
  BY Multiples
<1>3. r = k - p
  <2>1. L * q = q * L
    OBVIOUS
  <2> QED BY Zenon, <1>1, <1>2, <2>1
<1>4. ASSUME r = 0 PROVE \E m \in Nat : k = m * L
  <2>1. k = p
    BY <1>3, <1>4
  <2> QED BY Zenon, <1>2, <2>1
<1>5. ASSUME NEW m \in Nat, k = m * L PROVE r = 0
  <2>1. q <= m
    <3>1. ~(m + 1 <= q)
      <4>1. PICK a \in Nat : a = (m + 1) * L
        <5>1. m + 1 \in Nat
          OBVIOUS
        <5> QED BY <5>1, Multiples
      <4>2. a = k + L
        <5>1. (m + 1) * L = m * L + L
          OBVIOUS
        <5> QED BY Zenon, <1>5, <4>1, <5>1
      <4>3. m + 1 \in Nat
        OBVIOUS
      <4>4. m + 1 <= q => a <= p
        BY Zenon, <1>2, <4>1, <4>3, Multiples
      <4> QED BY <1>3, <4>2, <4>4
    <3> QED BY <3>1
  <2>2. m <= q
    <3>1. ~(q + 1 <= m)
      <4>1. PICK a \in Nat : a = (q + 1) * L
        <5>1. q + 1 \in Nat
          OBVIOUS
        <5> QED BY <5>1, Multiples
      <4>2. a = p + L
        <5>1. (q + 1) * L = q * L + L
          OBVIOUS
        <5> QED BY Zenon, <1>2, <4>1, <5>1
      <4>3. q + 1 \in Nat
        OBVIOUS
      <4>4. q + 1 <= m => a <= k
        BY Zenon, <1>5, <4>1, <4>3, Multiples
      <4>5. r < L
        BY <1>1
      <4> QED BY <1>3, <4>2, <4>4, <4>5
    <3> QED BY <3>1
  <2>3. q = m
    BY <2>1, <2>2
  <2>4. p = k
    BY Zenon, <1>2, <1>5, <2>3
  <2> QED BY <1>3, <2>4
<1>6. r = k % L
  BY <1>1
<1> QED BY Zenon, <1>4, <1>5, <1>6

LEMMA CountMultiples ==
    ASSUME NEW L \in Nat, L # 0, NEW n \in Nat
    PROVE  LET S == {m * L : m \in 1..n} IN IsFiniteSet(S) /\ Cardinality(S) = n
<1> DEFINE S == {m * L : m \in 1..n}
           f == [m \in 1..n |-> m * L]
<1>1. f \in [1..n -> S] /\ \A s \in S : \E m \in 1..n : f[m] = s
  OBVIOUS
<1>2. ASSUME NEW a \in 1..n, NEW b \in 1..n, f[a] = f[b] PROVE a = b
  <2>1. a \in Nat /\ b \in Nat /\ f[a] = a * L /\ f[b] = b * L
    OBVIOUS
  <2>2. PICK x \in Nat, y \in Nat : x = a * L /\ y = b * L
    BY Zenon, <2>1, Multiples
  <2>3. x = y
    BY Zenon, <1>2, <2>1, <2>2
  <2>4. x <= y /\ y <= x
    BY <2>3
  <2>5. a <= b /\ b <= a
    BY Zenon, <2>1, <2>2, <2>4, Multiples
  <2> QED BY <2>1, <2>5
<1>3. f \in Bijection(1..n, S)
  <2>1. f \in Injection(1..n, S)
    <3>1. DOMAIN f = 1..n
      OBVIOUS
    <3> HIDE DEF f, S
    <3> QED BY Zenon, <1>1, <1>2, <3>1 DEF Injection, IsInjective
  <2>2. f \in Surjection(1..n, S)
    <3> HIDE DEF f, S
    <3> QED BY Zenon, <1>1 DEF Surjection
  <2> HIDE DEF f, S
  <2> QED BY Zenon, <2>1, <2>2 DEF Bijection
<1>4. IsFiniteSet(1..n) /\ Cardinality(1..n) = n
  <2>1. 1 \in Int /\ n \in Int
    OBVIOUS
  <2>2. (IF 1 > n THEN 0 ELSE n - 1 + 1) = n
    OBVIOUS
  <2> QED BY Zenon, <2>1, <2>2, FS_Interval
<1> HIDE DEF f, S
<1>5. ExistsBijection(1..n, S)
  BY Zenon, <1>3 DEF ExistsBijection
<1>6. IsFiniteSet(S) /\ Cardinality(S) = n
  BY Zenon, <1>4, <1>5, FS_Bijection
<1> QED BY <1>6 DEF S

\* Lines that are equally long, but for the newline of the last: g of them and one
\* more, of w characters.
Even(v, w, g) ==
    /\ Len(v) = g * (w + 1) + w
    /\ {k \in DOMAIN v : v[k] = "\n"} = {m * (w + 1) : m \in 1..g}

LEMMA LinedEven ==
    ASSUME NEW D, NEW v \in Seq(D), NEW w \in Nat, NEW h \in Nat,
           Lined(v \o <<"\n">>, w + 1, h)
    PROVE  \E g \in Nat : Even(v, w, g)
<1>1. PICK L \in Nat : L = w + 1 /\ L # 0
  <2>1. w + 1 \in Nat /\ w + 1 # 0
    OBVIOUS
  <2> QED BY Zenon, <2>1
<1>2. PICK z : z = v \o <<"\n">>
  OBVIOUS
<1>3. /\ Len(z) = Len(v) + 1 /\ Len(v) \in Nat
      /\ \A k \in 1..Len(v) : z[k] = v[k]
  BY <1>2
<1>4. /\ Len(z) = h * L
      /\ \A k \in 1..Len(z) : z[k] = "\n" <=> \E m \in 1..h : k = m * L
  BY Zenon, <1>1, <1>2 DEF Lined
<1>5. h # 0
  <2>1. 0 * L = 0
    OBVIOUS
  <2>2. Len(z) # 0
    BY <1>3
  <2> QED BY Zenon, <1>4, <2>1, <2>2
<1>6. PICK g \in Nat : h = g + 1
  <2>1. h - 1 \in Nat /\ h = (h - 1) + 1
    BY <1>5
  <2> QED BY <2>1
<1>7. PICK a \in Nat : a = g * L
  BY <1>1, Multiples
<1>8. h * L = a + L
  <2>1. (g + 1) * L = g * L + L
    OBVIOUS
  <2> QED BY Zenon, <1>6, <1>7, <2>1
<1>9. Len(v) = a + w
  <2>1. Len(v) + 1 = a + L
    BY Zenon, <1>3, <1>4, <1>8
  <2> QED BY <1>1, <1>3, <2>1
<1>10. ASSUME NEW k \in 1..Len(v), v[k] = "\n" PROVE \E m \in 1..g : k = m * L
  <2>1. k \in 1..Len(z) /\ z[k] = "\n"
    BY <1>3, <1>10
  <2>2. PICK m \in 1..h : k = m * L
    BY Zenon, <1>4, <2>1
  <2>3. m \in Nat /\ m <= h
    OBVIOUS
  <2>4. m # h
    <3>1. k # a + L
      BY <1>1, <1>9
    <3> QED BY Zenon, <1>8, <2>2, <3>1
  <2>5. m \in 1..g
    BY <1>6, <2>3, <2>4
  <2> QED BY Zenon, <2>2, <2>5
<1>11. ASSUME NEW m \in 1..g PROVE m * L \in 1..Len(v) /\ v[m * L] = "\n"
  <2>1. m \in Nat /\ m <= g /\ 1 <= m /\ m \in 1..h /\ 1 \in Nat
    BY <1>6
  <2>2. PICK k \in Nat, b \in Nat : k = m * L /\ b = 1 * L
    BY <1>1, <2>1, Multiples
  <2>3. k <= a /\ b <= k
    BY Zenon, <1>1, <1>7, <2>1, <2>2, Multiples
  <2>4. b = L
    BY <2>2
  <2>5. k \in 1..Len(v)
    BY <1>1, <1>9, <2>3, <2>4
  <2>6. k \in 1..Len(z)
    BY <1>3, <2>5
  <2>7. z[k] = "\n"
    BY Zenon, <1>4, <2>1, <2>2, <2>6
  <2> QED BY <1>3, <2>2, <2>5, <2>7
<1>12. {k \in DOMAIN v : v[k] = "\n"} = {m * L : m \in 1..g}
  <2>1. DOMAIN v = 1..Len(v)
    OBVIOUS
  <2> QED BY Zenon, <1>10, <1>11, <2>1
<1>13. Even(v, w, g)
  BY Zenon, <1>1, <1>7, <1>9, <1>12 DEF Even
<1> QED BY Zenon, <1>13

LEMMA EvenRectangular ==
    ASSUME NEW D, NEW v \in Seq(D), NEW w \in Nat, w # 0, NEW g \in Nat, Even(v, w, g)
    PROVE  Rectangular(v)
<1>1. PICK L \in Nat : L = w + 1 /\ L # 0
  <2>1. w + 1 \in Nat /\ w + 1 # 0
    OBVIOUS
  <2> QED BY Zenon, <2>1
<1>2. PICK a \in Nat : a = g * L
  BY <1>1, Multiples
<1>3. Len(v) = a + w /\ DOMAIN v = 1..Len(v)
  <2>1. Len(v) = a + w
    BY Zenon, <1>1, <1>2 DEF Even
  <2> QED BY <2>1
<1>4. {k \in DOMAIN v : v[k] = "\n"} = {m * L : m \in 1..g}
  BY Zenon, <1>1 DEF Even
<1>5. w \in 1..Len(v)
  BY <1>3
<1>6. PICK b \in Nat : b = (g + 1) * L /\ b = a + L
  <2>1. (g + 1) * L = g * L + L
    OBVIOUS
  <2>2. a + L \in Nat
    OBVIOUS
  <2> QED BY Zenon, <1>2, <2>1, <2>2
<1>7. (Len(v) + 1) % L = 0
  <2>1. Len(v) + 1 = b
    BY <1>1, <1>3, <1>6
  <2>2. g + 1 \in Nat
    OBVIOUS
  <2>3. b % L = 0
    BY Zenon, <1>1, <1>6, <2>2, Divided
  <2> QED BY Zenon, <2>1, <2>3
<1>8. ASSUME NEW k \in DOMAIN v PROVE v[k] = "\n" <=> k % L = 0
  <2>1. k \in Nat /\ k # 0 /\ k <= Len(v)
    BY <1>3
  <2>2. k % L = 0 <=> \E m \in Nat : k = m * L
    BY Zenon, <1>1, <2>1, Divided
  <2>3. v[k] = "\n" <=> \E m \in 1..g : k = m * L
    <3>1. v[k] = "\n" <=> k \in {n \in DOMAIN v : v[n] = "\n"}
      BY Zenon, <1>8
    <3> QED BY Zenon, <1>4, <3>1
  <2>4. ASSUME NEW m \in Nat, k = m * L PROVE m \in 1..g
    <3>1. m # 0
      <4>1. 0 * L = 0
        OBVIOUS
      <4> QED BY Zenon, <2>1, <2>4, <4>1
    <3>2. ~(b <= k)
      BY <1>1, <1>3, <1>6, <2>1
    <3>3. ~(g + 1 <= m)
      <4>1. g + 1 \in Nat
        OBVIOUS
      <4>2. ~((g + 1) * L <= m * L)
        BY Zenon, <1>6, <2>4, <3>2
      <4> QED BY Zenon, <1>1, <2>4, <4>1, <4>2, Multiples
    <3> QED BY <3>1, <3>3
  <2>5. \A m \in 1..g : m \in Nat
    OBVIOUS
  <2> QED BY Zenon, <2>2, <2>3, <2>4, <2>5
<1> QED BY Zenon, <1>1, <1>5, <1>7, <1>8 DEF Rectangular

LEMMA EvenShape ==
    ASSUME NEW D, NEW v \in Seq(D), NEW w \in Nat, w # 0, NEW g \in Nat, Even(v, w, g)
    PROVE  LET ends == {k \in DOMAIN v : v[k] = "\n"}
           IN  /\ (IF ends = {} THEN Len(v) ELSE Min(ends) - 1) = w
               /\ (w + 1) * (Cardinality(ends) + IF Len(v) \in ends \cup {0} THEN 0 ELSE 1)
                      = Len(v) + 1
<1>1. PICK L \in Nat : L = w + 1 /\ L # 0
  <2>1. w + 1 \in Nat /\ w + 1 # 0
    OBVIOUS
  <2> QED BY Zenon, <2>1
<1>2. PICK a \in Nat : a = g * L
  BY <1>1, Multiples
<1>3. Len(v) = a + w
  BY Zenon, <1>1, <1>2 DEF Even
<1>4. PICK ends : ends = {k \in DOMAIN v : v[k] = "\n"} /\ ends = {m * L : m \in 1..g}
  BY Zenon, <1>1 DEF Even
<1>5. ASSUME NEW m \in 1..g PROVE m * L \in Nat /\ L <= m * L /\ m * L <= a
  <2>1. m \in Nat /\ 1 \in Nat /\ 1 <= m /\ m <= g
    OBVIOUS
  <2>2. 1 * L <= m * L /\ m * L <= g * L /\ m * L \in Nat
    BY Zenon, <1>1, <2>1, Multiples
  <2>3. 1 * L = L
    OBVIOUS
  <2> QED BY Zenon, <1>2, <2>2, <2>3
<1>6. (IF ends = {} THEN Len(v) ELSE Min(ends) - 1) = w
  <2>1. CASE g = 0
    <3>1. 0 * L = 0 /\ 1..0 = {}
      OBVIOUS
    <3>2. a = 0 /\ ends = {}
      BY Zenon, <1>2, <1>4, <2>1, <3>1
    <3> QED BY <1>3, <3>2
  <2>2. CASE g # 0
    <3>1. 1 \in 1..g /\ 1 * L = L
      BY <2>2
    <3>2. L \in ends
      BY Zenon, <1>4, <3>1
    <3>3. ends \in SUBSET Nat /\ \A k \in ends : L <= k
      BY Zenon, <1>4, <1>5
    <3>4. Min(ends) \in ends /\ Min(ends) <= L
      <4>1. ends # {}
        BY <3>2
      <4> QED BY Zenon, <3>2, <3>3, <4>1, Least
    <3>5. PICK x \in Nat : x = Min(ends) /\ x <= L /\ L <= x
      BY Zenon, <3>3, <3>4
    <3>6. x = L /\ x - 1 = w
      BY <1>1, <3>5
    <3> QED BY Zenon, <3>2, <3>5, <3>6
  <2> QED BY Zenon, <2>1, <2>2
<1>7. Len(v) \notin ends \cup {0}
  <2>1. a + w # 0 /\ ~(a + w <= a)
    OBVIOUS
  <2>2. a + w \notin ends
    BY Zenon, <1>4, <1>5, <2>1
  <2> QED BY <1>3, <2>1, <2>2
<1>8. Cardinality(ends) = g
  BY ZenonT(30), <1>1, <1>4, CountMultiples
<1>9. (w + 1) * (g + 1) = Len(v) + 1
  <2>1. L * (g + 1) = g * L + L
    OBVIOUS
  <2>2. a + L = (a + w) + 1
    BY <1>1
  <2> QED BY Zenon, <1>1, <1>2, <1>3, <2>1, <2>2
<1>10. (w + 1) * (Cardinality(ends) + IF Len(v) \in ends \cup {0} THEN 0 ELSE 1) = Len(v) + 1
  BY Zenon, <1>7, <1>8, <1>9
<1> QED BY Zenon, <1>4, <1>6, <1>10

\* What is seen of a text with styles.
LEMMA VisibleCharacters ==
    ASSUME NEW s \in Seq(Tokens)
    PROVE  Visible(s) = Only(s, Characters)
<1>1. ASSUME NEW k \in DOMAIN s PROVE s[k] \in ToSet(s) \ Codes <=> s[k] \in Characters
  <2>1. s[k] \in Tokens
    BY <1>1, LenProperties, ElementOfSeq
  <2>2. s[k] \in ToSet(s)
    BY DEF ToSet
  <2>3. Characters \cap Codes = {}
    BY TokensAre
  <2> QED BY <2>1, <2>2, <2>3 DEF Tokens
<1>2. PICK S : S = ToSet(s) \ Codes
  OBVIOUS
<1>3. [k \in DOMAIN s |-> IF s[k] \in S THEN <<s[k]>> ELSE << >>]
          = [k \in DOMAIN s |-> IF s[k] \in Characters THEN <<s[k]>> ELSE << >>]
  BY <1>1, <1>2
<1> QED BY Zenon, <1>2, <1>3 DEF Visible, Only

\* What is seen of a print are lines that are equally long,
LEMMA PrintEven ==
    ASSUME BordersInLine, NEW stream, NEW u, Lineal(u)
    PROVE  LET v == Only(print_table(stream, u), Characters)
           IN  /\ Across(u) \in Nat /\ Across(u) # 0 /\ v \in Seq(Tokens)
               /\ \E g \in Nat : Even(v, Across(u), g)
<1>1. PICK p, w, e : p = print_table(stream, u) /\ w = Across(u) /\ e = newline(stream)
  OBVIOUS
<1>2. w \in Nat /\ w # 0
  <2>1. w \in Nat /\ w >= 1
    BY <1>1, Columns, LineWidthType DEF Across, Lineal
  <2> QED BY <2>1
<1>3. p \in Seq(Tokens) /\ p \o e \in Grid(w + 1)
  BY <1>1, TableGrid
<1>4. e \in Seq(Tokens) /\ Only(e, Characters) = <<"\n">>
  BY <1>1, NewlineSeen
<1>5. PICK v \in Seq(Tokens) : v = Only(p, Characters)
  BY <1>3, OnlyType
<1>6. Only(p \o e, Characters) = v \o <<"\n">>
  <2>1. p \in Seq(Tokens) /\ e \in Seq(Tokens)
    BY <1>3, <1>4
  <2>2. Only(p \o e, Characters) = Only(p, Characters) \o Only(e, Characters)
    BY <2>1, OnlyConcat
  <2> QED BY Zenon, <1>4, <1>5, <2>2
<1>7. PICK h \in Nat : Lined(v \o <<"\n">>, w + 1, h)
  BY Zenon, <1>3, <1>6 DEF Grid
<1>8. \E g \in Nat : Even(v, w, g)
  BY Zenon, <1>2, <1>5, <1>7, LinedEven
<1> QED BY Zenon, <1>1, <1>2, <1>5, <1>8

LEMMA PrintAligned ==
    ASSUME BordersInLine, NEW stream, NEW u, Lineal(u)
    PROVE  Rectangular(Visible(print_table(stream, u)))
<1>1. PICK v \in Seq(Tokens), w \in Nat, g \in Nat :
          v = Only(print_table(stream, u), Characters) /\ w # 0 /\ Even(v, w, g)
  BY Zenon, PrintEven
<1>2. Rectangular(v)
  BY <1>1, EvenRectangular
<1>3. print_table(stream, u) \in Seq(Tokens)
  BY TableGrid
<1> QED BY Zenon, <1>1, <1>2, <1>3, VisibleCharacters

\* and its shape is theirs.
LEMMA ShapeAligned ==
    ASSUME BordersInLine, NEW u, Lineal(u)
    PROVE  /\ shape(u)[1] = Across(u)
           /\ (shape(u)[1] + 1) * shape(u)[2] = Len(print_table(StringStream, u)) + 1
<1>1. PICK p : p = print_table(StringStream, u)
  OBVIOUS
<1>2. p \in Seq(Characters)
  BY <1>1, StringPrint DEF Lineal, Texts
<1>3. Only(p, Characters) = p
  BY Zenon, <1>2, OnlyAll
<1>4. PICK w \in Nat, g \in Nat : w = Across(u) /\ w # 0 /\ Even(p, w, g)
  BY Zenon, <1>1, <1>3, PrintEven
<1>5. PICK ends : ends = {k \in DOMAIN p : p[k] = "\n"}
  OBVIOUS
<1>6. PICK x, y : /\ x = IF ends = {} THEN Len(p) ELSE Min(ends) - 1
                  /\ y = Cardinality(ends) + IF Len(p) \in ends \cup {0} THEN 0 ELSE 1
  OBVIOUS
<1>7. shape(u) = <<x, y>>
  BY Zenon, <1>1, <1>5, <1>6 DEF shape, Length
<1>8. x = w /\ (w + 1) * y = Len(p) + 1
  BY Zenon, <1>2, <1>4, <1>5, <1>6, EvenShape
<1>9. shape(u)[1] = x /\ shape(u)[2] = y
  BY <1>7
<1> QED BY Zenon, <1>1, <1>4, <1>8, <1>9

\* What Aligned says of what is written of a table.
LinesOf(o, u) ==
    o.kind \in {"print", "str", "shape"} /\ u.text # << >> /\ Ruled(u) =>
        /\ o.kind # "shape" => Rectangular(Visible(o.text))
        /\ o.kind = "shape" =>
              /\ o.shape[1] = Across(u)
              /\ (o.shape[1] + 1) * o.shape[2] = Len(print_table(StringStream, u)) + 1

LEMMA LinesOfOut == (LinesOf(out, t) <=> Aligned) /\ (LinesOf(out', t') <=> Aligned')
BY Zenon DEF LinesOf, Aligned, Across

\* A step that prints the table leaves one that can be printed.
LEMMA PrintedLineal ==
    ASSUME IInv, ~PrintHangs(Settled(t)), NEW u, u = Settled(t), u.text # << >>, Ruled(u)
    PROVE  Lineal(u)
<1>1. WellFormed(t)
  BY DEF IInv
<1>2. Full(u) /\ Returns(u)
  BY <1>1, SettledFull, ReturnsUnlessHangs
<1> QED BY Zenon, <1>2 DEF Lineal

LEMMA LinesNext ==
    ASSUME ~OneExporter, BordersInLine, IInv, LinesOf(out, t), [Next]_vars
    PROVE  LinesOf(out', t')
<1>1. ASSUME out'.kind \notin {"print", "str", "shape"} PROVE LinesOf(out', t')
  BY Zenon, <1>1 DEF LinesOf
<1>2. CASE AddRow \/ SetTableFormat \/ SetRowFormat \/ SetCellFormat \/ SetColumnFormat
  <2>1. out' = Nothing
    BY Zenon, <1>2 DEF AddRow, SetTableFormat, SetRowFormat, SetCellFormat, SetColumnFormat
  <2>2. out'.kind \notin {"print", "str", "shape"}
    BY <2>1 DEF Nothing
  <2> QED BY <1>1, <2>2
<1>3. ASSUME NEW kind \in {"print", "str"}, NEW stream, NEW u, NEW text,
             text = print_table(stream, u), ~PrintHangs(Settled(t)), u = Settled(t), t' = u,
             out' = Written(kind, text)
      PROVE  LinesOf(out', t')
  <2>1. out'.kind = kind /\ out'.text = text
    BY Zenon, <1>3, WrittenParts
  <2>2. kind # "shape"
    OBVIOUS
  <2>3. ASSUME u.text # << >>, Ruled(u) PROVE Rectangular(Visible(text))
    <3>1. Lineal(u)
      BY Zenon, <1>3, <2>3, PrintedLineal
    <3> QED BY Zenon, <1>3, <3>1, PrintAligned
  <2> QED BY Zenon, <1>3, <2>1, <2>2, <2>3 DEF LinesOf
<1>4. CASE PrintTable
  <2>1. ~PrintHangs(Settled(t)) /\ t' = Settled(t)
    BY Zenon, <1>4 DEF PrintTable
  <2>2. PICK u : u = Settled(t)
    OBVIOUS
  <2>3. PICK text : text = print_table(Cout(TRUE), u)
    BY Zenon
  <2>4. out' = Written("print", text)
    BY Zenon, <1>4, <2>1, <2>2, <2>3 DEF PrintTable
  <2> QED BY Zenon, <1>3, <2>1, <2>2, <2>3, <2>4
<1>5. CASE Str
  <2>1. ~PrintHangs(Settled(t)) /\ t' = Settled(t)
    BY Zenon, <1>5 DEF Str
  <2>2. PICK u : u = Settled(t)
    OBVIOUS
  <2>3. PICK text : text = print_table(StringStream, u)
    OBVIOUS
  <2>4. out' = Written("str", text)
    BY Zenon, <1>5, <2>1, <2>2, <2>3 DEF Str
  <2> QED BY Zenon, <1>3, <2>1, <2>2, <2>3, <2>4
<1>6. CASE Shape
  <2>1. ~PrintHangs(Settled(t)) /\ t' = Settled(t)
    BY Zenon, <1>6 DEF Shape
  <2>2. PICK u : u = Settled(t)
    OBVIOUS
  <2>3. PICK sides : sides = shape(u)
    OBVIOUS
  <2>4. out' = [kind |-> "shape", text |-> << >>, nodes |-> << >>, shape |-> sides]
    BY Zenon, <1>6, <2>1, <2>2, <2>3 DEF Shape
  <2>5. out'.kind = "shape" /\ out'.shape = sides
    BY <2>4
  <2>6. ASSUME u.text # << >>, Ruled(u)
        PROVE  /\ sides[1] = Across(u)
               /\ (sides[1] + 1) * sides[2] = Len(print_table(StringStream, u)) + 1
    <3>1. Lineal(u)
      BY Zenon, <2>1, <2>2, <2>6, PrintedLineal
    <3> QED BY Zenon, <2>3, <3>1, ShapeAligned
  <2> QED BY Zenon, <2>1, <2>2, <2>5, <2>6 DEF LinesOf
<1>7. CASE PrintNeverReturns \/ DumpNeverReturns \/ PrintE2Nodes
  <2>1. out'.kind \in {"e2"} \cup Hung
    BY <1>7, OtherKind
  <2> QED BY Zenon, <1>1, <2>1 DEF Hung
<1>8. CASE DumpMarkdown \/ DumpAsciiDoc \/ DumpLatex
  <2>1. PICK kind \in {"markdown", "asciidoc", "latex"} : \E text : out' = Written(kind, text)
    BY Zenon, <1>8 DEF DumpMarkdown, DumpAsciiDoc, DumpLatex
  <2>2. out'.kind = kind
    BY ZenonT(30), <2>1, WrittenParts
  <2> QED BY Zenon, <1>1, <2>2
<1>9. CASE UNCHANGED vars
  BY Zenon, <1>9 DEF vars
<1> QED BY Zenon, <1>2, <1>4, <1>5, <1>6, <1>7, <1>8, <1>9 DEF Next

\* Whatever the program has set and written before, the lines of a printed table
\* all end in the same place if every cell has borders as wide as one character:
\* every cell is written in as many characters as its column is wide, in every line
\* of its row, however its text is wrapped, cut, hyphenated, aligned and padded, and
\* the lines above and below it too; the escape sequences on a terminal take no
\* width (printer.hpp:61-200, table_internal.hpp:87-105, 209-419, table.hpp:113-121). It is
\* asked that no border or corner set by the program is a newline.
THEOREM LinesAligned == ASSUME ~OneExporter, BordersInLine PROVE Spec => []Aligned
<1> DEFINE AInv == IInv /\ LinesOf(out, t)
<1>1. Init => AInv
  <2>1. Init => out.kind = "none"
    BY DEF Init, Nothing
  <2>2. out.kind = "none" => LinesOf(out, t)
    BY Zenon DEF LinesOf
  <2> QED BY Zenon, <2>1, <2>2, IndInit
<1>2. ASSUME ~OneExporter, BordersInLine PROVE AInv /\ [Next]_vars => AInv'
  BY Zenon, <1>2, IndNext, LinesNext
<1>3. AInv => Aligned
  BY LinesOfOut
<1> QED BY <1>1, <1>2, <1>3, PTL DEF Spec
=============================================================================
