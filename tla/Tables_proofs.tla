--------------------------- MODULE Tables_proofs ---------------------------
(***************************************************************************)
(* What holds of Tables for every program: the parts of a table fit        *)
(* together (TypeOK), no optional the printer reads is empty               *)
(* (NoEmptyOptional), what is set on a cell is shown (OwnSettingShown) and *)
(* writing a table leaves it as it was (DumpRestores). These rest on what  *)
(* a look at a cell does to one member of its format: merge is idempotent  *)
(* from the second time on, so that a print sees the same value before and *)
(* after any number of looks (Shown, below). A call never returns only if  *)
(* a column was made narrow (HangsOnlyIfNarrow): that rests on the lines   *)
(* of TabText_proofs and on the widths of the columns.                     *)
(***************************************************************************)
EXTENDS Tables, TabText_proofs

----------------------------------------------------------------------------
(* One member of a format. *)

\* The values a member can have.
Values ==
    {NoValue, TRUE, FALSE} \cup {set_defaults[m] : m \in Members} \cup (SUBSET FontStyle)
        \cup FontAlign \cup {<<"EM DASH">>}
        \cup UNION {{Programs[p].calls[k].value : k \in DOMAIN Programs[p].calls} :
                       p \in DOMAIN Programs}

StyleValues == (SUBSET FontStyle) \cup {NoValue}

\* The texts that borders, corners and separators can be.
BorderValues ==
    {<<"-">>, <<"|">>, <<"+">>, << >>, <<"EM DASH">>} \cup Borders

\* The members that a print does more with than ask whether they are set, and what
\* they can be.
Sizes == SizeMembers \cup PaddingMembers

TypedMembers == Sizes \cup {"font_align"} \cup ColorMembers \cup TextMembers

TypeOf(m) ==
    IF m = "font_align" THEN FontAlign
    ELSE IF m \in ColorMembers THEN Color ELSE IF m \in TextMembers THEN BorderValues ELSE Nat

Typed(f) == \A m \in TypedMembers : f[m] \in TypeOf(m) \cup {NoValue}

Formats == {f \in [Members -> Values] : f["font_style"] \in StyleValues /\ Typed(f)}

\* What merge makes of one member.
Merged(m, a, b) ==
    IF a = NoValue THEN b ELSE IF m = "font_style" THEN merge_styles(a, b) ELSE a

\* Repeated looks add the styles of what is below, and bold when there are any.
Styles(a) == IF a = NoValue THEN {} ELSE a
Layered(a, b) == IF b = {} THEN Styles(a) ELSE Styles(a) \cup b \cup {"bold"}

\* What is shown for a member that is c on the cell, r on its row and d on the
\* table, in the end.
Shown(m, c, r, d) ==
    IF m = "font_style" THEN Layered(c, Layered(r, d))
    ELSE IF c # NoValue THEN c ELSE IF r # NoValue THEN r ELSE d

\* b still has what has been set to a.
Keeps(m, a, b) ==
    a # NoValue => b # NoValue /\ IF m = "font_style" THEN a \subseteq b ELSE b = a

\* The member of a row of value r after one look or more.
RowLooks(m, r, d) == {Merged(m, r, d), Merged(m, Merged(m, r, d), d)}

LEMMA MergeMember ==
    ASSUME NEW f, NEW g, NEW m \in Members
    PROVE  merge(f, g)[m] = Merged(m, f[m], g[m])
BY DEF merge, value_or, Merged

LEMMA FontStyleIsMember == "font_style" \in Members /\ "font_style" \in Defaulted
BY DEF Members, Defaulted, FontMembers

LEMMA BoldIsStyle == "bold" \in FontStyle
BY DEF FontStyle

LEMMA FormatType ==
    ASSUME NEW f
    PROVE  f \in Formats <=>
              f \in [Members -> Values] /\ f["font_style"] \in StyleValues /\ Typed(f)
BY Zenon DEF Formats

LEMMA TypedAreMembers == TypedMembers \subseteq Members /\ "font_style" \notin TypedMembers
<1>1. ColorMembers \subseteq Members /\ "font_style" \notin ColorMembers
  BY DEF ColorMembers, Members, Defaulted, FontMembers, BorderColors, BorderBackgrounds,
         CornerColors, CornerBackgrounds, SeparatorMembers
<1>2. TextMembers \subseteq Members /\ "font_style" \notin TextMembers
  BY DEF TextMembers, Members, Defaulted, BorderTexts, CornerTexts, SeparatorMembers
<1>3. Sizes \subseteq Members /\ "font_style" \notin Sizes
  BY DEF Sizes, Members, Defaulted, SizeMembers, PaddingMembers
<1> QED BY <1>1, <1>2, <1>3 DEF TypedMembers, Members, Defaulted, FontMembers

\* No member is of two types.
LEMMA TypeOfMember ==
    /\ TypeOf("font_align") = FontAlign
    /\ \A m \in Sizes : TypeOf(m) = Nat /\ m # "font_align"
    /\ \A m \in ColorMembers : TypeOf(m) = Color /\ m # "font_align" /\ m \notin Sizes
    /\ \A m \in TextMembers : /\ TypeOf(m) = BorderValues /\ m # "font_align"
                               /\ m \notin Sizes /\ m \notin ColorMembers
<1>1. \A m \in Sizes : m \notin ColorMembers /\ m \notin TextMembers /\ m # "font_align"
  BY DEF Sizes, SizeMembers, PaddingMembers, ColorMembers, BorderColors, BorderBackgrounds,
         CornerColors, CornerBackgrounds, TextMembers, BorderTexts, CornerTexts
<1>2. \A m \in TextMembers : m \notin ColorMembers /\ m # "font_align"
  BY DEF ColorMembers, BorderColors, BorderBackgrounds, CornerColors, CornerBackgrounds,
         TextMembers, BorderTexts, CornerTexts
<1>3. \A m \in ColorMembers : m # "font_align"
  BY DEF ColorMembers, BorderColors, BorderBackgrounds, CornerColors, CornerBackgrounds
<1> QED BY <1>1, <1>2, <1>3 DEF TypeOf

LEMMA StyleType ==
    ASSUME NEW x \in StyleValues, x # NoValue
    PROVE  x \in SUBSET FontStyle
BY DEF StyleValues

\* Merging stays in the values of formats; the format below must have a style,
\* for merge takes it without asking.
LEMMA MergeType ==
    ASSUME NEW f \in Formats, NEW g \in Formats, g["font_style"] # NoValue
    PROVE  merge(f, g) \in Formats
<1>0. g["font_style"] \in SUBSET FontStyle
  BY FormatType, StyleType
<1>2. merge(f, g)["font_style"] \in StyleValues
  <2>1. CASE f["font_style"] = NoValue
    BY <1>0, <2>1, MergeMember, FontStyleIsMember DEF Merged, StyleValues
  <2>2. CASE f["font_style"] # NoValue
    <3>1. f["font_style"] \in SUBSET FontStyle
      BY <2>2, FormatType, StyleType
    <3>2. ASSUME NEW A \in SUBSET FontStyle, NEW B \in SUBSET FontStyle
          PROVE  merge_styles(A, B) \in SUBSET FontStyle
      BY <3>2, BoldIsStyle DEF merge_styles
    <3>3. merge_styles(f["font_style"], g["font_style"]) \in SUBSET FontStyle
      BY <1>0, <3>1, <3>2
    <3> QED BY <2>2, <3>3, MergeMember, FontStyleIsMember DEF Merged, StyleValues
  <2> QED BY <2>1, <2>2
<1>1. ASSUME NEW m \in Members PROVE merge(f, g)[m] \in Values
  <2>1. f[m] \in Values /\ g[m] \in Values
    BY <1>1, FormatType
  <2>2. CASE m = "font_style"
    <3>1. ASSUME NEW x \in StyleValues PROVE x \in Values
      BY <3>1, Zenon DEF StyleValues, Values
    <3> QED BY <1>2, <2>2, <3>1
  <2>3. CASE m # "font_style"
    BY <2>1, <2>3, MergeMember DEF Merged
  <2> QED BY <2>2, <2>3
<1>3. merge(f, g) = [m \in Members |-> merge(f, g)[m]]
  BY DEF merge
<1>4. merge(f, g) \in [Members -> Values]
  BY <1>1, <1>3
<1>5. ASSUME NEW m \in TypedMembers PROVE merge(f, g)[m] \in TypeOf(m) \cup {NoValue}
  <2>1. m \in Members /\ m # "font_style"
    BY TypedAreMembers
  <2>2. f[m] \in TypeOf(m) \cup {NoValue} /\ g[m] \in TypeOf(m) \cup {NoValue}
    BY FormatType DEF Typed
  <2> QED BY <2>1, <2>2, MergeMember DEF Merged
<1> QED BY <1>2, <1>4, <1>5, FormatType DEF Typed

\* What a look adds to styles: nothing when there are none below, and else what
\* is below and perhaps bold.
Added(a, b, q) ==
    /\ q \in SUBSET FontStyle
    /\ b = {} => q = Styles(a)
    /\ Styles(a) \cup b \subseteq q
    /\ q \subseteq Styles(a) \cup b \cup {"bold"}

LEMMA LookedStyles ==
    ASSUME NEW a \in StyleValues, NEW b \in SUBSET FontStyle
    PROVE  /\ Added(a, b, Merged("font_style", a, b))
           /\ Added(a, b, Merged("font_style", Merged("font_style", a, b), b))
<1>1. ASSUME NEW x \in SUBSET FontStyle
      PROVE  /\ x # NoValue
             /\ Merged("font_style", x, b) = merge_styles(x, b)
             /\ Added(x, b, merge_styles(x, b))
  BY <1>1, NoValueAssumption, BoldIsStyle DEF Merged, Added, Styles, merge_styles
<1>2. CASE a = NoValue
  <2>1. Merged("font_style", a, b) = b
    BY <1>2 DEF Merged
  <2>2. Merged("font_style", b, b) = merge_styles(b, b) /\ Added(b, b, merge_styles(b, b))
    BY <1>1
  <2>3. Styles(a) = {} /\ Styles(b) = b
    BY <1>1, <1>2 DEF Styles
  <2>4. Added(a, b, b)
    BY <2>3 DEF Added
  <2>5. Added(a, b, merge_styles(b, b))
    BY <2>2, <2>3 DEF Added
  <2> QED BY <2>1, <2>2, <2>4, <2>5
<1>3. CASE a # NoValue
  <2>1. a \in SUBSET FontStyle
    BY <1>3 DEF StyleValues
  <2> DEFINE q == merge_styles(a, b)
  <2>2. Merged("font_style", a, b) = q /\ Added(a, b, q)
    BY <1>1, <2>1
  <2>3. q \in SUBSET FontStyle
    BY <2>2 DEF Added
  <2>4. Merged("font_style", q, b) = merge_styles(q, b) /\ Added(q, b, merge_styles(q, b))
    BY <1>1, <2>3
  <2>5. Styles(q) = q /\ Styles(a) = a
    BY <1>1, <2>1, <2>3 DEF Styles
  <2> HIDE DEF q
  <2>6. Added(a, b, merge_styles(q, b))
    BY <2>2, <2>4, <2>5 DEF Added
  <2> QED BY <2>2, <2>4, <2>6
<1> QED BY <1>2, <1>3

LEMMA LayeredBetween ==
    ASSUME NEW a \in StyleValues, NEW b \in SUBSET FontStyle, NEW q, Added(a, b, q)
    PROVE  Layered(q, b) = Layered(a, b)
BY NoValueAssumption DEF Added, Layered, Styles, StyleValues

LEMMA LayeredType ==
    ASSUME NEW a \in StyleValues, NEW b \in SUBSET FontStyle
    PROVE  Layered(a, b) \in SUBSET FontStyle
<1>1. Styles(a) \in SUBSET FontStyle
  <2>1. CASE a = NoValue
    BY <2>1 DEF Styles
  <2>2. CASE a # NoValue
    BY <2>2, StyleType DEF Styles
  <2> QED BY <2>1, <2>2
<1> QED BY <1>1, BoldIsStyle DEF Layered

\* Looking at the row again does not change what is shown,
LEMMA LookedRowShown ==
    ASSUME NEW m \in Members, NEW c, NEW r, NEW d, NEW q \in RowLooks(m, r, d),
           m = "font_style" => r \in StyleValues /\ d \in SUBSET FontStyle
    PROVE  Shown(m, c, q, d) = Shown(m, c, r, d)
<1>1. CASE m # "font_style"
  BY <1>1 DEF Shown, Merged, RowLooks
<1>2. CASE m = "font_style"
  <2>1. Added(r, d, q)
    BY <1>2, LookedStyles DEF RowLooks
  <2>2. Layered(q, d) = Layered(r, d)
    BY <1>2, <2>1, LayeredBetween
  <2> QED BY <1>2, <2>2 DEF Shown
<1> QED BY <1>1, <1>2

\* nor does looking at the cell,
LEMMA LookedCellShown ==
    ASSUME NEW m \in Members, NEW c, NEW r, NEW d, NEW q \in RowLooks(m, r, d),
           m = "font_style" => c \in StyleValues /\ r \in StyleValues /\ d \in SUBSET FontStyle
    PROVE  /\ Shown(m, Merged(m, c, q), r, d) = Shown(m, c, r, d)
           /\ Keeps(m, c, Merged(m, c, q))
<1>1. CASE m # "font_style"
  BY <1>1 DEF Shown, Merged, RowLooks, Keeps
<1>2. CASE m = "font_style"
  <2>1. Added(r, d, q)
    BY <1>2, LookedStyles DEF RowLooks
  <2>2. q \in SUBSET FontStyle
    BY <2>1 DEF Added
  <2> DEFINE l == Layered(r, d)
             x == Merged(m, c, q)
  <2>3. Added(c, q, x)
    BY <1>2, <2>2, LookedStyles
  <2>4. (l = {} => q = {}) /\ q \subseteq l /\ (l # {} => "bold" \in l \/ q = l)
    BY <1>2, <2>1 DEF Added, Layered
  <2>5. Layered(x, l) = Layered(c, l)
    <3> HIDE DEF l, x
    <3>1. Styles(x) = x
      BY <2>3, NoValueAssumption DEF Added, Styles
    <3> QED BY <2>3, <2>4, <3>1 DEF Added, Layered
  <2>6. Keeps(m, c, x)
    <3> HIDE DEF x
    <3> QED BY <1>2, <2>3, NoValueAssumption DEF Added, Keeps, Styles
  <2> QED BY <1>2, <2>5, <2>6 DEF Shown
<1> QED BY <1>1, <1>2

\* and a third look changes nothing.
LEMMA SecondLook ==
    ASSUME NEW r \in StyleValues, NEW d \in SUBSET FontStyle
    PROVE  LET r2 == Merged("font_style", Merged("font_style", r, d), d)
           IN  r2 = Layered(r, d) /\ Merged("font_style", r2, d) = r2
<1> DEFINE r1 == Merged("font_style", r, d)
           r2 == Merged("font_style", r1, d)
           r3 == Merged("font_style", r2, d)
<1>1. Added(r, d, r1) /\ Added(r, d, r2)
  BY LookedStyles
<1>2. r1 \in SUBSET FontStyle /\ r2 \in SUBSET FontStyle
  BY <1>1 DEF Added
<1>3. r2 = Layered(r, d)
  <2> HIDE DEF r1
  <2>1. r2 = merge_styles(r1, d)
    BY <1>2, NoValueAssumption DEF Merged
  <2> HIDE DEF r2
  <2> QED BY <1>1, <1>2, <2>1, NoValueAssumption DEF merge_styles, Layered, Added, Styles
<1>4. r3 = Layered(r, d)
  <2> HIDE DEF r2
  <2>1. r3 = merge_styles(r2, d)
    BY <1>2, NoValueAssumption DEF Merged
  <2> HIDE DEF r3
  <2> QED BY <1>1, <1>3, <2>1 DEF merge_styles, Layered, Added
<1> QED BY <1>3, <1>4

LEMMA ThirdLook ==
    ASSUME NEW m \in Members, NEW r, NEW d,
           m = "font_style" => r \in StyleValues /\ d \in SUBSET FontStyle
    PROVE  LET r2 == Merged(m, Merged(m, r, d), d) IN Merged(m, r2, d) = r2
<1>1. CASE m # "font_style"
  BY <1>1 DEF Merged
<1>2. CASE m = "font_style"
  BY <1>2, SecondLook
<1> QED BY <1>1, <1>2

\* After three looks what is shown is what the cell has.
LEMMA ThriceShown ==
    ASSUME NEW m \in Members, NEW c, NEW r, NEW d,
           m = "font_style" => c \in StyleValues /\ r \in StyleValues /\ d \in SUBSET FontStyle
    PROVE  LET r1 == Merged(m, r, d)
               r2 == Merged(m, r1, d)
               r3 == Merged(m, r2, d)
           IN  Merged(m, Merged(m, Merged(m, c, r1), r2), r3) = Shown(m, c, r, d)
<1>1. CASE m # "font_style"
  BY <1>1 DEF Shown, Merged
<1>2. CASE m = "font_style"
  <2> DEFINE r1 == Merged(m, r, d)
             r2 == Merged(m, r1, d)
             r3 == Merged(m, r2, d)
             c1 == Merged(m, c, r1)
             c2 == Merged(m, c1, r2)
             c3 == Merged(m, c2, r3)
             l  == Layered(r, d)
  <2>1. Added(r, d, r1) /\ Added(r, d, r2)
    BY <1>2, LookedStyles
  <2>2. r1 \in SUBSET FontStyle /\ r2 \in SUBSET FontStyle
    BY <2>1 DEF Added
  <2>3. r2 = l
    BY <1>2, SecondLook
  <2>4. r3 = l
    BY <1>2, SecondLook
  <2>5. Added(c, r1, c1)
    <3> HIDE DEF r1
    <3> QED BY <1>2, <2>2, LookedStyles
  <2>6. c1 \in SUBSET FontStyle /\ l \in SUBSET FontStyle
    BY <1>2, <2>5, LayeredType DEF Added
  <2>7. c2 = merge_styles(c1, l) /\ c1 # NoValue
    <3> HIDE DEF r2, c1, l
    <3> QED BY <1>2, <2>3, <2>6, NoValueAssumption DEF Merged
  <2>8. c2 \in SUBSET FontStyle
    <3> HIDE DEF c1, l, c2
    <3> QED BY <2>6, <2>7, BoldIsStyle DEF merge_styles
  <2>9. c3 = merge_styles(c2, l)
    <3> HIDE DEF r3, c2, l
    <3> QED BY <1>2, <2>4, <2>8, NoValueAssumption DEF Merged
  <2>10. r1 \subseteq l /\ (l = {} => r1 = {}) /\ (l # {} => "bold" \in l \/ r1 = l)
    <3> HIDE DEF r1
    <3> QED BY <1>2, <2>1 DEF Added, Layered
  <2>11. c3 = Layered(c, l)
    <3> HIDE DEF r1, c1, c2, c3, l
    <3>1. c2 = c1 \cup l \cup (IF c1 \cap l = {} THEN {} ELSE {"bold"})
      BY <2>7 DEF merge_styles
    <3>2. c3 = c2 \cup (IF l = {} THEN {} ELSE {"bold"})
      BY <2>9, <3>1 DEF merge_styles
    <3>3. Styles(c) \cup r1 \subseteq c1 /\ c1 \subseteq Styles(c) \cup r1 \cup {"bold"}
          /\ (r1 = {} => c1 = Styles(c))
      BY <2>5 DEF Added
    <3> QED BY <2>10, <3>1, <3>2, <3>3 DEF Layered
  <2> QED BY <1>2, <2>11 DEF Shown
<1> QED BY <1>1, <1>2

----------------------------------------------------------------------------
(* Sheets. *)

\* What is written around the texts of a program; the provers do not know that
\* those are strings.
Marks ==
    {" ", "\n", "-", ":", "|", "+", "EM DASH", "Information of connected E2 nodes",
     "index", "nb_id", "mcc", "mnc", "mnc_digit_len", "ran_type", "cu_du_id",
     "supported rf_ids", "[", "]", "c", "o", "l", "s", "r", "=", "\"", "<", "^", ">", ",",
     "*", "_", "\\begin{tabular}", "{", "}", "&", "\\\\", "\\end{tabular}"}

Characters == (STRING \cup Marks) \ Codes

Texts == Seq(Characters)

Sheets ==
    [text : Seq(Seq(Texts)), table : Formats, rows : Seq(Formats),
     cells : Seq(Seq(Formats))]

\* The parts of a sheet fit together, and the table has what is printed.
WellFormed(u) ==
    /\ u \in Sheets
    /\ Len(u.rows) = Len(u.text) /\ Len(u.cells) = Len(u.text)
    /\ \A i \in 1..Len(u.text) :
          Len(u.text[i]) = estimate_num_columns(u) /\ Len(u.cells[i]) = estimate_num_columns(u)
    /\ \A m \in Defaulted : u.table[m] # NoValue

Positions(u) == (1..Len(u.text)) \X (1..estimate_num_columns(u))

\* What is shown for member m of the cell at p.
ShownAt(u, p, m) ==
    Shown(m, u.cells[p[1]][p[2]][m], u.rows[p[1]][m], u.table[m])

\* v is u after looks at its rows and cells.
Looked(u, v) ==
    /\ WellFormed(v)
    /\ v.text = u.text /\ v.table = u.table
    /\ \A p \in Positions(u) : \A m \in Members :
          /\ ShownAt(v, p, m) = ShownAt(u, p, m)
          /\ Keeps(m, u.cells[p[1]][p[2]][m], v.cells[p[1]][p[2]][m])

\* What one look or more makes of row i, and of a cell of it.
RowsLooked(u, i) == {merge(u.rows[i], u.table), merge(merge(u.rows[i], u.table), u.table)}

LEMMA CodesAre ==
    Codes = {"ESC[1m", "ESC[2m", "ESC[3m", "ESC[4m", "ESC[5m", "ESC[7m", "ESC[8m", "ESC[9m",
             "ESC[30m", "ESC[31m", "ESC[32m", "ESC[33m", "ESC[34m", "ESC[35m", "ESC[36m",
             "ESC[37m", "ESC[40m", "ESC[41m", "ESC[42m", "ESC[43m", "ESC[44m", "ESC[45m",
             "ESC[46m", "ESC[47m", "ESC[00m"}
<1>1. Range(FontCodes) = {"ESC[1m", "ESC[2m", "ESC[3m", "ESC[4m", "ESC[5m", "ESC[7m", "ESC[8m", "ESC[9m"}
  BY DEF FontCodes, Range
<1>2. Range(ForegroundCodes) = {"ESC[30m", "ESC[31m", "ESC[32m", "ESC[33m", "ESC[34m", "ESC[35m",
                                "ESC[36m", "ESC[37m"}
  BY DEF ForegroundCodes, Range
<1>3. Range(BackgroundCodes) = {"ESC[40m", "ESC[41m", "ESC[42m", "ESC[43m", "ESC[44m", "ESC[45m",
                                "ESC[46m", "ESC[47m"}
  BY DEF BackgroundCodes, Range
<1> QED BY <1>1, <1>2, <1>3 DEF Codes, ResetCode

LEMMA MarksAreCharacters == Marks \subseteq Characters
BY CodesAre DEF Marks, Characters

LEMMA Widened ==
    ASSUME NEW A, NEW B, A \subseteq B
    PROVE  Seq(A) \subseteq Seq(B)
<1> SUFFICES ASSUME NEW s \in Seq(A) PROVE s \in Seq(B)
  OBVIOUS
<1>1. s \in [1..Len(s) -> A] /\ Len(s) \in Nat
  BY LenProperties
<1>2. s \in [1..Len(s) -> B]
  BY <1>1
<1> QED BY <1>1, <1>2, TupleSeq

LEMMA ColumnsType ==
    ASSUME NEW u, u.text \in Seq(Seq(Texts))
    PROVE  estimate_num_columns(u) \in Nat
<1>1. CASE u.text = << >>
  BY <1>1 DEF estimate_num_columns
<1>2. CASE u.text # << >>
  <2>1. u.text[1] \in Seq(Texts)
    BY <1>2, EmptySeq, ElementOfSeq, LenProperties
  <2> QED BY <1>2, <2>1, LenProperties DEF estimate_num_columns
<1> QED BY <1>1, <1>2

LEMMA WellFormedRows ==
    ASSUME NEW u, WellFormed(u)
    PROVE  /\ u.text \in Seq(Seq(Texts)) /\ Len(u.text) \in Nat
           /\ estimate_num_columns(u) \in Nat
           /\ u.table \in Formats /\ u.table["font_style"] \in SUBSET FontStyle
           /\ u.rows \in Seq(Formats) /\ u.cells \in Seq(Seq(Formats))
           /\ Len(u.rows) = Len(u.text) /\ Len(u.cells) = Len(u.text)
           /\ \A i \in 1..Len(u.text) :
                 /\ u.rows[i] \in Formats /\ u.cells[i] \in Seq(Formats)
                 /\ Len(u.cells[i]) = estimate_num_columns(u)
                 /\ Len(u.text[i]) = estimate_num_columns(u)
<1>1. u.table \in Formats /\ u.rows \in Seq(Formats) /\ u.cells \in Seq(Seq(Formats))
      /\ u.text \in Seq(Seq(Texts))
  BY DEF WellFormed, Sheets
<1>2. Len(u.rows) = Len(u.text) /\ Len(u.cells) = Len(u.text) /\ Len(u.text) \in Nat
  BY <1>1, LenProperties DEF WellFormed
<1>3. ASSUME NEW i \in 1..Len(u.text)
      PROVE  /\ u.rows[i] \in Formats /\ u.cells[i] \in Seq(Formats)
             /\ Len(u.cells[i]) = estimate_num_columns(u)
             /\ Len(u.text[i]) = estimate_num_columns(u)
  BY <1>1, <1>2, <1>3, ElementOfSeq DEF WellFormed
<1>4. u.table["font_style"] \in SUBSET FontStyle
  BY <1>1, FontStyleIsMember, FormatType, StyleType DEF WellFormed
<1> QED BY <1>1, <1>2, <1>3, <1>4, ColumnsType

LEMMA WellFormedCells ==
    ASSUME NEW u, WellFormed(u), NEW p \in Positions(u)
    PROVE  /\ p[1] \in 1..Len(u.text) /\ p[2] \in 1..estimate_num_columns(u)
           /\ u.table \in Formats /\ u.rows[p[1]] \in Formats
           /\ u.cells[p[1]][p[2]] \in Formats
           /\ u.table["font_style"] \in SUBSET FontStyle
<1>1. p[1] \in 1..Len(u.text) /\ p[2] \in 1..estimate_num_columns(u)
  BY DEF Positions
<1>2. u.cells[p[1]] \in Seq(Formats) /\ Len(u.cells[p[1]]) = estimate_num_columns(u)
  BY <1>1, WellFormedRows
<1>3. u.cells[p[1]][p[2]] \in Formats
  BY <1>1, <1>2, ElementOfSeq
<1> QED BY <1>1, <1>3, WellFormedRows

LEMMA RowsLookedType ==
    ASSUME NEW u, WellFormed(u), NEW i \in 1..Len(u.text), NEW q \in RowsLooked(u, i)
    PROVE  /\ q \in Formats /\ q["font_style"] # NoValue
           /\ \A m \in Members : q[m] \in RowLooks(m, u.rows[i][m], u.table[m])
<1> DEFINE r  == u.rows[i]
           d  == u.table
           r1 == merge(r, d)
<1>1. r \in Formats /\ d \in Formats /\ d["font_style"] \in SUBSET FontStyle
  BY WellFormedRows
<1>2. q = r1 \/ q = merge(r1, d)
  BY DEF RowsLooked
<1> HIDE DEF r, d
<1>3. d["font_style"] # NoValue
  BY <1>1, NoValueAssumption
<1>4. r1 \in Formats /\ merge(r1, d) \in Formats
  BY <1>1, <1>3, MergeType
<1>5. \A m \in Members : q[m] \in RowLooks(m, r[m], d[m])
  BY <1>2, MergeMember DEF RowLooks
<1>6. q["font_style"] # NoValue
  <2>1. r["font_style"] \in StyleValues
    BY <1>1, FormatType
  <2>2. Added(r["font_style"], d["font_style"], q["font_style"])
    BY <1>1, <1>5, <2>1, FontStyleIsMember, LookedStyles DEF RowLooks
  <2> QED BY <2>2, NoValueAssumption DEF Added
<1> QED BY <1>2, <1>4, <1>5, <1>6 DEF r, d

LEMMA KeepsTransitive ==
    ASSUME NEW m, NEW a, NEW b, NEW c, Keeps(m, a, b), Keeps(m, b, c)
    PROVE  Keeps(m, a, c)
BY DEF Keeps

\* A look at a cell.
LEMMA CellLooked ==
    ASSUME NEW u, WellFormed(u), NEW p \in Positions(u), NEW q \in RowsLooked(u, p[1]),
           NEW c \in Formats
    PROVE  /\ merge(c, q) \in Formats
           /\ \A m \in Members :
                 /\ Shown(m, merge(c, q)[m], u.rows[p[1]][m], u.table[m])
                        = Shown(m, c[m], u.rows[p[1]][m], u.table[m])
                 /\ Keeps(m, c[m], merge(c, q)[m])
<1>1. q \in Formats /\ q["font_style"] # NoValue
      /\ \A m \in Members : q[m] \in RowLooks(m, u.rows[p[1]][m], u.table[m])
  BY WellFormedCells, RowsLookedType
<1>2. merge(c, q) \in Formats
  BY <1>1, MergeType
<1>3. c["font_style"] \in StyleValues /\ u.rows[p[1]]["font_style"] \in StyleValues
      /\ u.table["font_style"] \in SUBSET FontStyle
  BY WellFormedCells, FormatType
<1>4. ASSUME NEW m \in Members
      PROVE  /\ Shown(m, merge(c, q)[m], u.rows[p[1]][m], u.table[m])
                    = Shown(m, c[m], u.rows[p[1]][m], u.table[m])
             /\ Keeps(m, c[m], merge(c, q)[m])
  BY <1>1, <1>3, MergeMember, LookedCellShown
<1> QED BY <1>2, <1>4

\* A sheet of which every row and cell is as before or has been looked at.
LEMMA OnlyLooks ==
    ASSUME NEW u, WellFormed(u), NEW rows \in Seq(Formats), NEW cells \in Seq(Seq(Formats)),
           Len(rows) = Len(u.text), Len(cells) = Len(u.text),
           \A i \in 1..Len(u.text) : Len(cells[i]) = estimate_num_columns(u),
           \A i \in 1..Len(u.text) : rows[i] \in {u.rows[i]} \cup RowsLooked(u, i),
           \A p \in Positions(u) :
               cells[p[1]][p[2]] \in {u.cells[p[1]][p[2]]}
                   \cup {merge(u.cells[p[1]][p[2]], q) : q \in RowsLooked(u, p[1])}
    PROVE  Looked(u, [text |-> u.text, table |-> u.table, rows |-> rows, cells |-> cells])
<1> DEFINE v == [text |-> u.text, table |-> u.table, rows |-> rows, cells |-> cells]
<1>1. v \in Sheets
  BY WellFormedRows DEF Sheets
<1>2. estimate_num_columns(v) = estimate_num_columns(u)
  BY DEF estimate_num_columns
<1>3. WellFormed(v)
  BY SMTT(40), <1>1, <1>2, WellFormedRows DEF WellFormed
<1>4. ASSUME NEW p \in Positions(u), NEW m \in Members
      PROVE  /\ ShownAt(v, p, m) = ShownAt(u, p, m)
             /\ Keeps(m, u.cells[p[1]][p[2]][m], v.cells[p[1]][p[2]][m])
  <2> DEFINE c == u.cells[p[1]][p[2]]
             x == v.cells[p[1]][p[2]]
             r == u.rows[p[1]]
             y == v.rows[p[1]]
             d == u.table
  <2>1. /\ p[1] \in 1..Len(u.text) /\ c \in Formats /\ r \in Formats
        /\ d["font_style"] \in SUBSET FontStyle
    BY WellFormedCells
  <2>2. Shown(m, x[m], r[m], d[m]) = Shown(m, c[m], r[m], d[m]) /\ Keeps(m, c[m], x[m])
    <3>1. CASE x = c
      BY <3>1 DEF Keeps
    <3>2. CASE x # c
      <4>1. PICK q \in RowsLooked(u, p[1]) : x = merge(c, q)
        BY <3>2
      <4> QED BY SMTT(40), <2>1, <4>1, CellLooked
    <3> QED BY <3>1, <3>2
  <2>3. Shown(m, x[m], y[m], d[m]) = Shown(m, x[m], r[m], d[m])
    <3>1. CASE y = r
      BY <3>1
    <3>2. CASE y # r
      <4>1. y \in RowsLooked(u, p[1])
        BY <2>1, <3>2
      <4>2. y[m] \in RowLooks(m, r[m], d[m])
        BY <2>1, <4>1, RowsLookedType
      <4>3. r["font_style"] \in StyleValues
        BY <2>1, FormatType
      <4> HIDE DEF r, d, x, y
      <4> QED BY <2>1, <4>2, <4>3, LookedRowShown
    <3> QED BY <3>1, <3>2
  <2> QED BY <2>2, <2>3 DEF ShownAt
<1> QED BY <1>3, <1>4 DEF Looked

LEMMA LookedTransitive ==
    ASSUME NEW u, NEW v, NEW w, Looked(u, v), Looked(v, w)
    PROVE  Looked(u, w)
<1>1. estimate_num_columns(v) = estimate_num_columns(u) /\ Positions(v) = Positions(u)
  BY DEF Looked, Positions, estimate_num_columns
<1>2. ASSUME NEW p \in Positions(u), NEW m \in Members
      PROVE  /\ ShownAt(w, p, m) = ShownAt(u, p, m)
             /\ Keeps(m, u.cells[p[1]][p[2]][m], w.cells[p[1]][p[2]][m])
  BY <1>1, KeepsTransitive DEF Looked
<1> QED BY <1>2 DEF Looked

\* A sequence of n sequences of k formats.
LEMMA NestedTuples ==
    ASSUME NEW n \in Nat, NEW k \in Nat, NEW g \in [1..n -> [1..k -> Formats]]
    PROVE  LET cells == SubSeq([i \in 1..n |-> SubSeq(g[i], 1, k)], 1, n)
           IN  /\ cells \in Seq(Seq(Formats)) /\ Len(cells) = n
               /\ \A i \in 1..n : Len(cells[i]) = k /\ \A j \in 1..k : cells[i][j] = g[i][j]
<1> DEFINE f == [i \in 1..n |-> SubSeq(g[i], 1, k)]
<1>1. ASSUME NEW i \in 1..n
      PROVE  f[i] = g[i] /\ f[i] \in Seq(Formats) /\ Len(f[i]) = k
  BY <1>1, TupleSeq
<1>2. f \in [1..n -> Seq(Formats)]
  BY <1>1
<1> HIDE DEF f
<1>3. SubSeq(f, 1, n) = f /\ f \in Seq(Seq(Formats)) /\ Len(f) = n
  BY <1>2, TupleSeq
<1> QED BY <1>1, <1>3 DEF f

\* Every cell looked at once.
LEMMA LookAtAllLooks ==
    ASSUME NEW u, WellFormed(u)
    PROVE  /\ Looked(u, LookAtAll(u))
           /\ \A p \in Positions(u) :
                 LET r == merge(u.rows[p[1]], u.table)
                 IN  /\ LookAtAll(u).rows[p[1]] = r
                     /\ LookAtAll(u).cells[p[1]][p[2]] = merge(u.cells[p[1]][p[2]], r)
<1> DEFINE n == Len(u.text)
           k == estimate_num_columns(u)
           rows == [i \in 1..n |-> merge(u.rows[i], u.table)]
           g == [i \in 1..n |-> [j \in 1..k |-> merge(u.cells[i][j], rows[i])]]
           cells == SubSeq([i \in 1..n |-> SubSeq(g[i], 1, k)], 1, n)
<1>1. n \in Nat /\ k \in Nat /\ Len(u.rows) = n /\ Len(u.cells) = n
      /\ \A i \in 1..n : Len(u.cells[i]) = k
  BY WellFormedRows
<1>2. ASSUME NEW i \in 1..n
      PROVE  rows[i] \in RowsLooked(u, i) /\ rows[i] \in Formats /\ rows[i]["font_style"] # NoValue
  BY <1>2, RowsLookedType DEF RowsLooked
<1>3. SubSeq(rows, 1, n) = rows /\ rows \in Seq(Formats) /\ Len(rows) = n
  <2>1. rows \in [1..n -> Formats]
    BY <1>2
  <2> HIDE DEF rows, n
  <2> QED BY <1>1, <2>1, TupleSeq
<1>4. ASSUME NEW i \in 1..n, NEW j \in 1..k
      PROVE  u.cells[i][j] \in Formats
  BY <1>4, WellFormedRows, ElementOfSeq
<1>5. ASSUME NEW i \in 1..n, NEW j \in 1..k
      PROVE  g[i][j] = merge(u.cells[i][j], rows[i]) /\ g[i][j] \in Formats
  <2> HIDE DEF rows
  <2> QED BY <1>2, <1>4, <1>5, MergeType
<1>6. g \in [1..n -> [1..k -> Formats]]
  <2> HIDE DEF rows, n, k
  <2>1. ASSUME NEW i \in 1..n PROVE g[i] \in [1..k -> Formats]
    BY <1>5, <2>1
  <2> QED BY <2>1
<1>7. /\ cells \in Seq(Seq(Formats)) /\ Len(cells) = n
      /\ \A i \in 1..n : Len(cells[i]) = k /\ \A j \in 1..k : cells[i][j] = g[i][j]
  <2> HIDE DEF g, n, k
  <2> QED BY <1>1, <1>6, NestedTuples
<1>8. LookAtAll(u) = [text |-> u.text, table |-> u.table, rows |-> rows, cells |-> cells]
  <2>1. Tuple(Len(u.rows), LAMBDA i : merge(u.rows[i], u.table)) = rows
    BY <1>1, <1>3 DEF Tuple
  <2>2. Tuple(Len(u.cells), LAMBDA i :
            Tuple(Len(u.cells[i]), LAMBDA j : merge(u.cells[i][j], merge(u.rows[i], u.table)))) = cells
    <3>1. ASSUME NEW i \in 1..n
          PROVE  Tuple(Len(u.cells[i]), LAMBDA j :
                           merge(u.cells[i][j], merge(u.rows[i], u.table)))
                     = SubSeq(g[i], 1, k)
      <4>1. SubSeq(g[i], 1, k) = SubSeq([j \in 1..k |-> merge(u.cells[i][j], rows[i])], 1, k)
        BY <3>1
      <4>2. rows[i] = merge(u.rows[i], u.table)
        BY <3>1
      <4> HIDE DEF g, rows, k, n
      <4> QED BY <1>1, <3>1, <4>1, <4>2 DEF Tuple
    <3> HIDE DEF g, k, rows
    <3> QED BY <1>1, <3>1 DEF Tuple
  <2> HIDE DEF rows, cells
  <2> QED BY <2>1, <2>2 DEF LookAtAll
<1>9. ASSUME NEW p \in Positions(u)
      PROVE  /\ p[1] \in 1..n
             /\ rows[p[1]] = merge(u.rows[p[1]], u.table)
             /\ cells[p[1]][p[2]] = merge(u.cells[p[1]][p[2]], rows[p[1]])
  <2>1. p[1] \in 1..n /\ p[2] \in 1..k
    BY <1>9, WellFormedCells
  <2>2. rows[p[1]] = merge(u.rows[p[1]], u.table)
    BY <2>1
  <2> HIDE DEF rows, cells
  <2> QED BY <1>5, <1>7, <2>1, <2>2
<1>10. Looked(u, LookAtAll(u))
  <2> HIDE DEF rows, cells
  <2>1. ASSUME NEW p \in Positions(u)
        PROVE  cells[p[1]][p[2]] \in {u.cells[p[1]][p[2]]}
                   \cup {merge(u.cells[p[1]][p[2]], q) : q \in RowsLooked(u, p[1])}
    BY <1>2, <1>9, <2>1
  <2>2. \A i \in 1..Len(u.text) : Len(cells[i]) = estimate_num_columns(u)
    BY <1>7
  <2>3. \A i \in 1..Len(u.text) : rows[i] \in {u.rows[i]} \cup RowsLooked(u, i)
    BY <1>2
  <2>4. Len(rows) = Len(u.text) /\ Len(cells) = Len(u.text)
    BY <1>3, <1>7
  <2> HIDE DEF g, n, k
  <2> QED BY <1>3, <1>7, <1>8, <2>1, <2>2, <2>3, <2>4, OnlyLooks
<1> HIDE DEF rows, cells
<1> QED BY <1>8, <1>9, <1>10

\* What a print makes of a sheet, and what it shows.
LEMMA SettledLooks ==
    ASSUME NEW u, WellFormed(u)
    PROVE  /\ Looked(u, Settled(u))
           /\ \A p \in Positions(u) :
                 /\ Look(u, p[1], p[2]) \in Formats
                 /\ \A m \in Members : Look(u, p[1], p[2])[m] = ShownAt(u, p, m)
<1> DEFINE u1 == LookAtAll(u)
           u2 == LookAtAll(u1)
           u3 == LookAtAll(u2)
<1>1. Looked(u, u1) /\ WellFormed(u1)
  BY LookAtAllLooks DEF Looked
<1>2. Looked(u1, u2) /\ WellFormed(u2)
  <2> HIDE DEF u1
  <2> QED BY <1>1, LookAtAllLooks DEF Looked
<1>3. Looked(u2, u3) /\ WellFormed(u3)
  <2> HIDE DEF u2
  <2> QED BY <1>2, LookAtAllLooks DEF Looked
<1>4. u3 = Settled(u)
  BY DEF Settled
<1>5. Looked(u, u3)
  <2> HIDE DEF u1, u2, u3
  <2> QED BY SMTT(40), <1>1, <1>2, <1>3, LookedTransitive
<1>6. ASSUME NEW p \in Positions(u)
      PROVE  /\ u3.cells[p[1]][p[2]] \in Formats
             /\ \A m \in Members : u3.cells[p[1]][p[2]][m] = ShownAt(u, p, m)
  <2> DEFINE c == u.cells[p[1]][p[2]]
             r == u.rows[p[1]]
             d == u.table
             r1 == merge(r, d)
             r2 == merge(r1, d)
             r3 == merge(r2, d)
  <2>1. p \in Positions(u1) /\ p \in Positions(u2) /\ p \in Positions(u3)
        /\ u1.table = d /\ u2.table = d
    <3> HIDE DEF u1, u2, u3
    <3> QED BY <1>1, <1>2, <1>3, <1>6 DEF Looked, Positions, estimate_num_columns
  <2>2. u1.rows[p[1]] = r1 /\ u1.cells[p[1]][p[2]] = merge(c, r1)
    BY <1>6, LookAtAllLooks
  <2>3. u2.rows[p[1]] = r2 /\ u2.cells[p[1]][p[2]] = merge(merge(c, r1), r2)
    <3> HIDE DEF u1, c, r1
    <3> QED BY <1>1, <2>1, <2>2, LookAtAllLooks
  <2>4. u3.cells[p[1]][p[2]] = merge(merge(merge(c, r1), r2), r3)
    <3> HIDE DEF u2, c, r1, r2
    <3> QED BY <1>2, <2>1, <2>3, LookAtAllLooks
  <2>5. u3.cells[p[1]][p[2]] \in Formats
    BY <1>3, <2>1, WellFormedCells
  <2>6. c["font_style"] \in StyleValues /\ r["font_style"] \in StyleValues
        /\ d["font_style"] \in SUBSET FontStyle
    BY <1>6, WellFormedCells, FormatType
  <2>7. ASSUME NEW m \in Members
        PROVE  merge(merge(merge(c, r1), r2), r3)[m] = Shown(m, c[m], r[m], d[m])
    <3> HIDE DEF c, r, d
    <3>1. /\ r1[m] = Merged(m, r[m], d[m])
          /\ r2[m] = Merged(m, r1[m], d[m])
          /\ r3[m] = Merged(m, r2[m], d[m])
      BY <2>7, MergeMember
    <3> HIDE DEF r1, r2, r3
    <3>2. merge(merge(merge(c, r1), r2), r3)[m]
              = Merged(m, Merged(m, Merged(m, c[m], r1[m]), r2[m]), r3[m])
      BY <2>7, MergeMember
    <3>3. Merged(m, Merged(m, Merged(m, c[m], r1[m]), r2[m]), r3[m])
              = Shown(m, c[m], r[m], d[m])
      BY <2>6, <2>7, <3>1, ThriceShown
    <3> QED BY <3>2, <3>3
  <2> HIDE DEF u3
  <2> QED BY <2>4, <2>5, <2>7 DEF ShownAt
<1> HIDE DEF u3
<1> QED BY <1>4, <1>5, <1>6 DEF Look

\* Sheets that only differ by looks are printed alike.
LEMMA LookedLook ==
    ASSUME NEW u, NEW v, WellFormed(u), Looked(u, v), NEW p \in Positions(u)
    PROVE  Look(v, p[1], p[2]) = Look(u, p[1], p[2])
<1>1. WellFormed(v) /\ p \in Positions(v)
  BY DEF Looked, Positions, estimate_num_columns
<1>2. Look(u, p[1], p[2]) \in Formats /\ Look(v, p[1], p[2]) \in Formats
  BY <1>1, SettledLooks
<1>3. \A m \in Members : Look(v, p[1], p[2])[m] = Look(u, p[1], p[2])[m]
  BY <1>1, SettledLooks DEF Looked
<1>4. Look(u, p[1], p[2]) \in [Members -> Values] /\ Look(v, p[1], p[2]) \in [Members -> Values]
  BY <1>2, FormatType
<1> QED BY <1>3, <1>4

----------------------------------------------------------------------------
(* What the exporters leave. *)

LEMMA RowAfterLooks ==
    ASSUME NEW u, NEW i, NEW n \in Nat
    PROVE  /\ RowAfter(u, i, n) \in {u.rows[i]} \cup RowsLooked(u, i)
           /\ n > 0 => RowAfter(u, i, n) \in RowsLooked(u, i)
BY DEF RowAfter, RowsLooked

\* The cells of some rows looked at.
LEMMA LookAtCellsLooks ==
    ASSUME NEW u, WellFormed(u), NEW I
    PROVE  Looked(u, LookAtCells(u, I))
<1> DEFINE n == Len(u.text)
           k == estimate_num_columns(u)
           rows == [i \in 1..n |-> IF i \in I THEN RowAfter(u, i, k) ELSE u.rows[i]]
           g == [i \in 1..n |-> [j \in 1..k |->
                    IF i \in I THEN merge(u.cells[i][j], RowAfter(u, i, j))
                    ELSE u.cells[i][j]]]
           cells == SubSeq([i \in 1..n |-> SubSeq(g[i], 1, k)], 1, n)
<1>1. n \in Nat /\ k \in Nat /\ Len(u.rows) = n /\ Len(u.cells) = n
      /\ \A i \in 1..n : Len(u.cells[i]) = k /\ u.rows[i] \in Formats
  BY WellFormedRows
<1>2. ASSUME NEW i \in 1..n
      PROVE  rows[i] \in {u.rows[i]} \cup RowsLooked(u, i) /\ rows[i] \in Formats
  <2>1. rows[i] \in {u.rows[i]} \cup RowsLooked(u, i)
    BY <1>1, <1>2, RowAfterLooks
  <2> HIDE DEF rows
  <2> QED BY <1>1, <1>2, <2>1, RowsLookedType
<1>3. SubSeq(rows, 1, n) = rows /\ rows \in Seq(Formats) /\ Len(rows) = n
  <2>1. rows \in [1..n -> Formats]
    BY <1>2
  <2> HIDE DEF rows, n
  <2> QED BY <1>1, <2>1, TupleSeq
<1>4. ASSUME NEW i \in 1..n, NEW j \in 1..k
      PROVE  /\ g[i][j] \in {u.cells[i][j]} \cup {merge(u.cells[i][j], q) : q \in RowsLooked(u, i)}
             /\ g[i][j] \in Formats
  <2>1. u.cells[i][j] \in Formats
    BY <1>4, WellFormedRows, ElementOfSeq
  <2>2. g[i][j] = IF i \in I THEN merge(u.cells[i][j], RowAfter(u, i, j)) ELSE u.cells[i][j]
    BY <1>4
  <2>3. RowAfter(u, i, j) \in RowsLooked(u, i)
    BY <1>1, <1>4, RowAfterLooks
  <2>4. merge(u.cells[i][j], RowAfter(u, i, j)) \in Formats
    BY <1>4, <2>1, <2>3, RowsLookedType, MergeType
  <2> HIDE DEF g
  <2> QED BY <2>1, <2>2, <2>3, <2>4
<1>5. g \in [1..n -> [1..k -> Formats]]
  <2> HIDE DEF n, k
  <2>1. ASSUME NEW i \in 1..n PROVE g[i] \in [1..k -> Formats]
    BY <1>4, <2>1
  <2> QED BY <2>1
<1>6. /\ cells \in Seq(Seq(Formats)) /\ Len(cells) = n
      /\ \A i \in 1..n : Len(cells[i]) = k /\ \A j \in 1..k : cells[i][j] = g[i][j]
  <2> HIDE DEF g, n, k
  <2> QED BY <1>1, <1>5, NestedTuples
<1>7. LookAtCells(u, I) = [text |-> u.text, table |-> u.table, rows |-> rows, cells |-> cells]
  <2>1. Tuple(Len(u.rows), LAMBDA i :
            IF i \in I THEN RowAfter(u, i, Len(u.cells[i])) ELSE u.rows[i]) = rows
    <3>1. [i \in 1..Len(u.rows) |->
              IF i \in I THEN RowAfter(u, i, Len(u.cells[i])) ELSE u.rows[i]] = rows
      <4> HIDE DEF k, n
      <4> QED BY <1>1
    <3> HIDE DEF rows, n
    <3> QED BY <1>1, <1>3, <3>1 DEF Tuple
  <2>2. Tuple(Len(u.cells), LAMBDA i : Tuple(Len(u.cells[i]), LAMBDA j :
            IF i \in I THEN merge(u.cells[i][j], RowAfter(u, i, j)) ELSE u.cells[i][j])) = cells
    <3>1. ASSUME NEW i \in 1..n
          PROVE  Tuple(Len(u.cells[i]), LAMBDA j :
                     IF i \in I THEN merge(u.cells[i][j], RowAfter(u, i, j)) ELSE u.cells[i][j])
                     = SubSeq(g[i], 1, k)
      <4>1. g[i] = [j \in 1..k |->
                IF i \in I THEN merge(u.cells[i][j], RowAfter(u, i, j)) ELSE u.cells[i][j]]
        BY <3>1
      <4> HIDE DEF g, k, n
      <4> QED BY <1>1, <3>1, <4>1 DEF Tuple
    <3> HIDE DEF g, k
    <3> QED BY <1>1, <3>1 DEF Tuple
  <2> HIDE DEF rows, cells
  <2> QED BY <2>1, <2>2 DEF LookAtCells
<1>8. ASSUME NEW p \in Positions(u)
      PROVE  cells[p[1]][p[2]] \in {u.cells[p[1]][p[2]]}
                 \cup {merge(u.cells[p[1]][p[2]], q) : q \in RowsLooked(u, p[1])}
  <2>1. p[1] \in 1..n /\ p[2] \in 1..k
    BY <1>8, WellFormedCells
  <2> HIDE DEF cells, g, n, k
  <2> QED BY <1>4, <1>6, <2>1
<1>9. \A i \in 1..Len(u.text) : Len(cells[i]) = estimate_num_columns(u)
  BY <1>6
<1>10. \A i \in 1..Len(u.text) : rows[i] \in {u.rows[i]} \cup RowsLooked(u, i)
  BY <1>2
<1>11. Len(rows) = Len(u.text) /\ Len(cells) = Len(u.text)
  BY <1>3, <1>6
<1> HIDE DEF rows, cells, g, n, k
<1> QED BY <1>3, <1>6, <1>7, <1>8, <1>9, <1>10, <1>11, OnlyLooks

LEMMA AsciiDocLooks ==
    ASSUME NEW u, WellFormed(u)
    PROVE  Looked(u, AsciiDoc(u).sheet)
<1> DEFINE v == LookAtCells(u, {1})
<1>1. Looked(u, v) /\ WellFormed(v)
  BY LookAtCellsLooks DEF Looked
<1>2. AsciiDoc(u).sheet = LookAtCells(v, DOMAIN u.text)
  BY Zenon DEF AsciiDoc
<1> HIDE DEF v
<1>3. Looked(v, LookAtCells(v, DOMAIN u.text))
  BY <1>1, LookAtCellsLooks
<1> QED BY <1>1, <1>2, <1>3, LookedTransitive

LEMMA LatexLooks ==
    ASSUME NEW x, NEW u, WellFormed(u)
    PROVE  Looked(u, Latex(u, x).sheet)
<1>1. Latex(u, x).sheet = LookAtCells(u, {1})
  BY Zenon DEF Latex
<1> QED BY <1>1, LookAtCellsLooks

\* A second element inserted, and the second element removed.
LEMMA Inserted ==
    ASSUME NEW S, NEW s \in Seq(S), s # << >>, NEW e \in S
    PROVE  /\ InsertAt(s, 2, e) \in Seq(S)
           /\ Len(InsertAt(s, 2, e)) = Len(s) + 1
           /\ \A i \in 1..Len(s) : InsertAt(s, 2, e)[IF i = 1 THEN 1 ELSE i + 1] = s[i]
           /\ InsertAt(s, 2, e)[2] = e
<1> DEFINE a == SubSeq(s, 1, 1)
           b == SubSeq(s, 2, Len(s))
           ae == a \o <<e>>
<1>1. Len(s) \in Nat \ {0} /\ \A i \in 1..Len(s) : s[i] \in S
  BY EmptySeq, ElementOfSeq
<1>2. a \in Seq(S) /\ Len(a) = 1 /\ a[1] = s[1]
  BY <1>1, SubSeqProperties
<1>3. b \in Seq(S) /\ Len(b) = Len(s) - 1 /\ \A i \in 1..Len(s) - 1 : b[i] = s[i + 1]
  <2>1. Len(b) = IF 2 <= Len(s) THEN Len(s) - 2 + 1 ELSE 0
    BY <1>1, SubSeqProperties
  <2>2. b \in Seq(S) /\ \A i \in 1..Len(s) - 2 + 1 : b[i] = s[2 + i - 1]
    BY <1>1, SubSeqProperties
  <2> HIDE DEF b
  <2>3. ASSUME NEW i \in 1..Len(s) - 1 PROVE b[i] = s[i + 1]
    <3>1. i \in 1..Len(s) - 2 + 1 /\ 2 + i - 1 = i + 1
      BY <1>1
    <3>2. b[i] = s[2 + i - 1]
      BY <2>2, <3>1
    <3> QED BY <3>1, <3>2
  <2>4. Len(b) = Len(s) - 1
    <3>1. \A n \in Nat \ {0} : (IF 2 <= n THEN n - 2 + 1 ELSE 0) = n - 1
      OBVIOUS
    <3> QED BY <1>1, <2>1, <3>1
  <2>5. \A i \in 1..Len(s) - 1 : b[i] = s[i + 1]
    BY <2>3
  <2> QED BY <2>2, <2>4, <2>5
<1> DEFINE z == <<e>>
<1>4. z \in Seq(S) /\ Len(z) = 1 /\ z[1] = e
  OBVIOUS
<1>5. ae \in Seq(S) /\ Len(ae) = 2 /\ ae[1] = s[1] /\ ae[2] = e
  <2> HIDE DEF a, z
  <2>1. /\ a \o z \in Seq(S) /\ Len(a \o z) = Len(a) + Len(z)
        /\ \A i \in 1..Len(a) + Len(z) :
              (a \o z)[i] = IF i <= Len(a) THEN a[i] ELSE z[i - Len(a)]
    BY <1>2, <1>4, ConcatProperties
  <2>2. 1 <= Len(a) /\ ~(2 <= Len(a)) /\ 2 - Len(a) = 1 /\ Len(a) + Len(z) = 2
    BY <1>2, <1>4
  <2>3. (a \o z)[1] = a[1] /\ (a \o z)[2] = z[1]
    BY <2>1, <2>2
  <2> QED BY <1>2, <1>4, <2>1, <2>2, <2>3 DEF z
<1>6. ae \o b \in Seq(S) /\ Len(ae \o b) = Len(s) + 1
      /\ \A i \in 1..Len(s) + 1 : (ae \o b)[i] = IF i <= 2 THEN ae[i] ELSE b[i - 2]
  <2> HIDE DEF ae, b
  <2>1. ae \o b \in Seq(S) /\ Len(ae \o b) = Len(ae) + Len(b)
        /\ \A i \in 1..Len(ae) + Len(b) :
              (ae \o b)[i] = IF i <= Len(ae) THEN ae[i] ELSE b[i - Len(ae)]
    BY <1>3, <1>5, ConcatProperties
  <2>2. Len(ae) = 2 /\ Len(ae) + Len(b) = Len(s) + 1
    BY <1>1, <1>3, <1>5
  <2> QED BY <2>1, <2>2
<1>7. InsertAt(s, 2, e) = ae \o b
  BY DEF InsertAt
<1> HIDE DEF ae, b
<1>8. ASSUME NEW i \in 1..Len(s)
      PROVE  (ae \o b)[IF i = 1 THEN 1 ELSE i + 1] = s[i]
  <2>1. CASE i = 1
    BY <1>1, <1>5, <1>6, <2>1
  <2>2. CASE i # 1
    <3>1. i + 1 \in 1..Len(s) + 1 /\ ~(i + 1 <= 2) /\ i - 1 \in 1..Len(s) - 1 /\ i + 1 - 2 = i - 1
      BY <1>1, <2>2
    <3>2. (ae \o b)[i + 1] = b[i - 1]
      BY <1>6, <3>1
    <3>3. b[i - 1] = s[i - 1 + 1] /\ i - 1 + 1 = i
      BY <1>3, <3>1
    <3> QED BY <2>2, <3>2, <3>3
  <2> QED BY <2>1, <2>2
<1>9. (ae \o b)[2] = e
  <2>1. 2 \in 1..Len(s) + 1
    BY <1>1
  <2> QED BY <1>5, <1>6, <2>1
<1> QED BY <1>6, <1>7, <1>8, <1>9

LEMMA Removed ==
    ASSUME NEW S, NEW s \in Seq(S), NEW n \in Nat \ {0}, Len(s) = n + 1
    PROVE  /\ RemoveAt(s, 2) \in Seq(S)
           /\ Len(RemoveAt(s, 2)) = n
           /\ \A i \in 1..n : RemoveAt(s, 2)[i] = s[IF i = 1 THEN 1 ELSE i + 1]
<1> DEFINE a == SubSeq(s, 1, 1)
           b == SubSeq(s, 3, n + 1)
<1>1. \A i \in 1..n + 1 : s[i] \in S
  BY ElementOfSeq
<1>2. a \in Seq(S) /\ Len(a) = 1 /\ a[1] = s[1]
  BY <1>1, SubSeqProperties
<1>3. b \in Seq(S) /\ Len(b) = n - 1 /\ \A i \in 1..n - 1 : b[i] = s[i + 2]
  <2>1. Len(b) = IF 3 <= n + 1 THEN n + 1 - 3 + 1 ELSE 0
    BY <1>1, SubSeqProperties
  <2>2. b \in Seq(S) /\ \A i \in 1..n + 1 - 3 + 1 : b[i] = s[3 + i - 1]
    BY <1>1, SubSeqProperties
  <2> HIDE DEF b
  <2>3. ASSUME NEW i \in 1..n - 1 PROVE b[i] = s[i + 2]
    <3>1. i \in 1..n + 1 - 3 + 1 /\ 3 + i - 1 = i + 2
      OBVIOUS
    <3>2. b[i] = s[3 + i - 1]
      BY <2>2, <3>1
    <3> QED BY <3>1, <3>2
  <2> QED BY <2>1, <2>2, <2>3
<1>4. RemoveAt(s, 2) = a \o b
  BY DEF RemoveAt
<1> HIDE DEF a, b
<1>5. a \o b \in Seq(S) /\ Len(a \o b) = n
      /\ \A i \in 1..n : (a \o b)[i] = IF i <= 1 THEN a[i] ELSE b[i - 1]
  <2>1. a \o b \in Seq(S) /\ Len(a \o b) = Len(a) + Len(b)
        /\ \A i \in 1..Len(a) + Len(b) :
              (a \o b)[i] = IF i <= Len(a) THEN a[i] ELSE b[i - Len(a)]
    BY <1>2, <1>3, ConcatProperties
  <2>2. Len(a) = 1 /\ Len(a) + Len(b) = n
    BY <1>2, <1>3
  <2> QED BY <2>1, <2>2
<1>6. ASSUME NEW i \in 1..n
      PROVE  (a \o b)[i] = s[IF i = 1 THEN 1 ELSE i + 1]
  <2>1. CASE i = 1
    BY <1>2, <1>5, <2>1
  <2>2. CASE i # 1
    <3>1. ~(i <= 1) /\ i - 1 \in 1..n - 1 /\ i - 1 + 2 = i + 1
      BY <2>2
    <3> QED BY <1>3, <1>5, <2>2, <3>1
  <2> QED BY <2>1, <2>2
<1> QED BY <1>4, <1>5, <1>6

LEMMA InsertedRemoved ==
    ASSUME NEW S, NEW s \in Seq(S), s # << >>, NEW e
    PROVE  RemoveAt(InsertAt(s, 2, e), 2) = s
<1> DEFINE T == S \cup {e}
           x == InsertAt(s, 2, e)
           y == RemoveAt(x, 2)
<1>1. s \in Seq(T) /\ Len(s) \in Nat \ {0}
  <2>1. Len(s) \in Nat /\ s \in [1..Len(s) -> S] /\ Len(s) # 0
    BY EmptySeq, LenProperties
  <2>2. s \in [1..Len(s) -> T]
    BY <2>1
  <2> HIDE DEF T
  <2> QED BY <2>1, <2>2, TupleSeq
<1>2. e \in T
  OBVIOUS
<1>3. x \in Seq(T) /\ Len(x) = Len(s) + 1
      /\ \A i \in 1..Len(s) : x[IF i = 1 THEN 1 ELSE i + 1] = s[i]
  <2> HIDE DEF T
  <2> QED BY <1>1, <1>2, Inserted
<1> HIDE DEF x, T
<1>4. y \in Seq(T) /\ Len(y) = Len(s) /\ \A i \in 1..Len(s) : y[i] = x[IF i = 1 THEN 1 ELSE i + 1]
  BY ZenonT(30), <1>1, <1>3, Removed
<1> HIDE DEF y
<1>5. y = s
  BY <1>1, <1>3, <1>4, SeqEqual
<1> QED BY <1>5 DEF y, x

\* The places of the cells are all different.
LEMMA PlaceBound ==
    ASSUME NEW n \in Nat, NEW k \in Nat, NEW i \in 1..n, NEW j \in 1..k
    PROVE  (i - 1) * k + j \in 1..n * k
<1>1. PICK e \in Nat : n = i + e
  <2>1. n - i \in Nat /\ n = i + (n - i)
    OBVIOUS
  <2> QED BY <2>1
<1>2. n * k = (i - 1) * k + k + e * k
  BY <1>1
<1>3. (i - 1) * k \in Nat /\ e * k \in Nat /\ n * k \in Nat
  BY <1>1
<1> HIDE DEF Place
<1> QED BY <1>2, <1>3

LEMMA PlaceUnique ==
    ASSUME NEW k \in Nat, NEW i \in Nat, NEW j \in 1..k, NEW a \in Nat, NEW b \in 1..k,
           (i - 1) * k + j = (a - 1) * k + b
    PROVE  i = a /\ j = b
<1>1. ASSUME NEW x \in Nat, NEW y \in Nat, NEW p \in 1..k, NEW q \in 1..k, x < y
      PROVE  (x - 1) * k + p # (y - 1) * k + q
  <2>1. PICK e \in Nat : y = x + 1 + e
    <3>1. y - x - 1 \in Nat /\ y = x + 1 + (y - x - 1)
      BY <1>1
    <3> QED BY <3>1
  <2>2. (y - 1) * k = (x - 1) * k + k + e * k
    BY <2>1
  <2>3. (x - 1) * k \in Int /\ e * k \in Nat
    BY <2>1
  <2> QED BY <1>1, <2>2, <2>3
<1>2. ~(i < a) /\ ~(a < i)
  BY <1>1
<1>3. i = a
  BY <1>2
<1> QED BY <1>3

\* The format kept for a cell is at its place.
LEMMA KeptAtPlace ==
    ASSUME NEW u, WellFormed(u), NEW i \in 1..Len(u.text), NEW j \in 1..estimate_num_columns(u)
    PROVE  KeptFormats(u)[Place(u, i, j)] = KeptFormat(u, i, j)
<1> DEFINE n == Len(u.text)
           k == estimate_num_columns(u)
           At(K) == CHOOSE c \in (1..n) \X (1..k) : Place(u, c[1], c[2]) = K
           f == [K \in 1..n * k |-> KeptFormat(u, At(K)[1], At(K)[2])]
<1>1. n \in Nat /\ k \in Nat
  BY WellFormedRows
<1>2. n * k \in Nat
  BY <1>1
<1>3. KeptFormats(u) = SubSeq(f, 1, n * k)
  BY DEF KeptFormats, RowIterator, CellIterator, Tuple
<1>4. SubSeq(f, 1, n * k) = f
  <2> DEFINE l == n * k
             S == {f[K] : K \in 1..l}
  <2>1. f \in [1..l -> S]
    OBVIOUS
  <2> HIDE DEF f, S, l
  <2>2. l \in Nat
    BY <1>2 DEF l
  <2>3. SubSeq(f, 1, l) = f
    BY <2>1, <2>2, TupleSeq
  <2> QED BY <2>3 DEF l
<1>5. Place(u, i, j) \in 1..n * k
  BY <1>1, PlaceBound DEF Place
<1>6. At(Place(u, i, j)) = <<i, j>>
  <2>1. \A c \in (1..n) \X (1..k) : Place(u, c[1], c[2]) = Place(u, i, j) => c = <<i, j>>
    <3>1. ASSUME NEW a \in 1..n, NEW b \in 1..k, Place(u, a, b) = Place(u, i, j)
          PROVE  a = i /\ b = j
      <4>1. (a - 1) * k + b = (i - 1) * k + j
        BY <3>1 DEF Place
      <4> HIDE DEF k, n
      <4>2. a \in Nat /\ i \in Nat /\ b \in 1..k /\ j \in 1..k
        BY <1>1, <3>1 DEF n, k
      <4> QED BY <1>1, <4>1, <4>2, PlaceUnique
    <3> QED BY <3>1
  <2>2. <<i, j>> \in (1..n) \X (1..k) /\ Place(u, <<i, j>>[1], <<i, j>>[2]) = Place(u, i, j)
    OBVIOUS
  <2> HIDE DEF n, k
  <2> QED BY <2>1, <2>2
<1> HIDE DEF n, k, At
<1>7. f[Place(u, i, j)] = KeptFormat(u, i, j)
  BY <1>5, <1>6
<1> QED BY <1>3, <1>4, <1>7

LEMMA KeptIsTuple ==
    ASSUME NEW u, WellFormed(u)
    PROVE  << >> \o KeptFormats(u) = KeptFormats(u)
<1> DEFINE l == Len(u.text) * estimate_num_columns(u)
           cells == (1..Len(u.text)) \X (1..estimate_num_columns(u))
           At(k) == CHOOSE c \in cells : Place(u, c[1], c[2]) = k
           f == [k \in 1..l |-> KeptFormat(u, At(k)[1], At(k)[2])]
           S == {f[k] : k \in 1..l}
<1>1. KeptFormats(u) = SubSeq(f, 1, l)
  BY DEF KeptFormats, RowIterator, CellIterator, Tuple
<1>2. l \in Nat
  BY WellFormedRows
<1>3. f \in [1..l -> S]
  OBVIOUS
<1> HIDE DEF f, S, l
<1>4. f \in Seq(S) /\ SubSeq(f, 1, l) = f
  BY <1>2, <1>3, TupleSeq
<1> QED BY <1>1, <1>4, ConcatEmptySeq

\* The rows of a sheet of which nothing else need be well-formed.
LEMMA RowsOnce ==
    ASSUME NEW v, v.rows \in Seq(Formats), v.table \in Formats,
           v.table["font_style"] \in SUBSET FontStyle
    PROVE  LET w == LookAtAll(v)
           IN  /\ w = [text |-> v.text, table |-> v.table, rows |-> w.rows, cells |-> w.cells]
               /\ w.rows \in Seq(Formats) /\ Len(w.rows) = Len(v.rows)
               /\ \A i \in 1..Len(v.rows) : w.rows[i] = merge(v.rows[i], v.table)
<1> DEFINE n == Len(v.rows)
           rows == [i \in 1..n |-> merge(v.rows[i], v.table)]
           w == LookAtAll(v)
<1>1. n \in Nat /\ v.table["font_style"] # NoValue
  BY LenProperties, NoValueAssumption
<1>2. rows \in [1..n -> Formats]
  BY <1>1, MergeType, ElementOfSeq
<1>3. SubSeq(rows, 1, n) = rows /\ rows \in Seq(Formats) /\ Len(rows) = n
  <2> HIDE DEF rows, n
  <2> QED BY <1>1, <1>2, TupleSeq
<1>4. Tuple(Len(v.rows), LAMBDA i : merge(v.rows[i], v.table)) = rows
  BY <1>3 DEF Tuple
<1>5. w.text = v.text /\ w.table = v.table /\ w.rows = rows
      /\ w = [text |-> w.text, table |-> w.table, rows |-> w.rows, cells |-> w.cells]
  <2> HIDE DEF rows
  <2> QED BY <1>4 DEF LookAtAll
<1>6. \A i \in 1..n : rows[i] = merge(v.rows[i], v.table)
  OBVIOUS
<1> HIDE DEF w, rows
<1> QED BY <1>3, <1>5, <1>6 DEF w

LEMMA RowsThrice ==
    ASSUME NEW v, v.rows \in Seq(Formats), v.table \in Formats,
           v.table["font_style"] \in SUBSET FontStyle
    PROVE  LET w == Settled(v)
           IN  /\ w = [text |-> v.text, table |-> v.table, rows |-> w.rows, cells |-> w.cells]
               /\ w.rows \in Seq(Formats) /\ Len(w.rows) = Len(v.rows)
               /\ \A i \in 1..Len(v.rows) :
                     w.rows[i] = merge(merge(merge(v.rows[i], v.table), v.table), v.table)
<1> DEFINE v1 == LookAtAll(v)
           v2 == LookAtAll(v1)
           v3 == LookAtAll(v2)
           d == v.table
<1>1. /\ v1.text = v.text /\ v1.table = d
      /\ v1.rows \in Seq(Formats) /\ Len(v1.rows) = Len(v.rows)
      /\ \A i \in 1..Len(v.rows) : v1.rows[i] = merge(v.rows[i], d)
  BY RowsOnce
<1> HIDE DEF v1
<1>2. /\ v2.text = v.text /\ v2.table = d
      /\ v2.rows \in Seq(Formats) /\ Len(v2.rows) = Len(v.rows)
      /\ \A i \in 1..Len(v.rows) : v2.rows[i] = merge(v1.rows[i], d)
  BY <1>1, RowsOnce
<1> HIDE DEF v2
<1>3. /\ v3 = [text |-> v.text, table |-> d, rows |-> v3.rows, cells |-> v3.cells]
      /\ v3.rows \in Seq(Formats) /\ Len(v3.rows) = Len(v.rows)
      /\ \A i \in 1..Len(v.rows) : v3.rows[i] = merge(v2.rows[i], d)
  BY <1>2, RowsOnce
<1>4. v3 = Settled(v)
  BY DEF Settled, v2, v1
<1> HIDE DEF v3
<1> QED BY <1>1, <1>2, <1>3, <1>4

LEMMA EmptyFormat == Format \in Formats
<1>1. \A m \in Members : Format[m] = NoValue
  BY DEF Format
<1>2. Format \in [Members -> Values]
  BY Zenon DEF Format, Values
<1>3. Typed(Format)
  BY <1>1, TypedAreMembers DEF Typed
<1> QED BY <1>1, <1>2, <1>3, FontStyleIsMember, FormatType DEF StyleValues

\* However often a row has been looked at, three looks more end in the same.
LEMMA RowSettles ==
    ASSUME NEW u, WellFormed(u), NEW i \in 1..Len(u.text),
           NEW q \in {u.rows[i]} \cup RowsLooked(u, i)
    PROVE  merge(merge(merge(q, u.table), u.table), u.table) \in RowsLooked(u, i)
<1> DEFINE r == u.rows[i]
           d == u.table
           r1 == merge(r, d)
           r2 == merge(r1, d)
<1>1. r \in Formats /\ d \in Formats /\ d["font_style"] \in SUBSET FontStyle
  BY WellFormedRows
<1>2. q = r \/ q = r1 \/ q = r2
  BY DEF RowsLooked
<1>3. r2 \in RowsLooked(u, i)
  BY DEF RowsLooked
<1> HIDE DEF r, d
<1>4. r["font_style"] \in StyleValues /\ d["font_style"] # NoValue
  BY <1>1, FormatType, NoValueAssumption
<1>5. r1 \in Formats
  BY <1>1, <1>4, MergeType
<1>6. r2 \in Formats
  <2> HIDE DEF r1
  <2> QED BY <1>1, <1>4, <1>5, MergeType
<1>7. merge(r2, d) \in Formats
  <2> HIDE DEF r2
  <2> QED BY <1>1, <1>4, <1>6, MergeType
<1>8. ASSUME NEW m \in Members PROVE merge(r2, d)[m] = r2[m]
  <2>1. r1[m] = Merged(m, r[m], d[m])
    BY <1>8, MergeMember
  <2> HIDE DEF r1
  <2>2. r2[m] = Merged(m, r1[m], d[m])
    BY <1>8, MergeMember
  <2> HIDE DEF r2
  <2>3. merge(r2, d)[m] = Merged(m, r2[m], d[m])
    BY <1>8, MergeMember
  <2> QED BY <1>1, <1>4, <1>8, <2>1, <2>2, <2>3, ThirdLook
<1>9. merge(r2, d) = r2
  <2> HIDE DEF r2
  <2>1. r2 \in [Members -> Values] /\ merge(r2, d) \in [Members -> Values]
    BY <1>6, <1>7, FormatType
  <2> QED BY <1>8, <2>1
<1>10. CASE q = r
  <2> HIDE DEF r1
  <2> QED BY <1>3, <1>9, <1>10 DEF d, r1
<1>11. CASE q = r1
  <2> HIDE DEF r1
  <2> QED BY <1>3, <1>9, <1>11 DEF d
<1>12. CASE q = r2
  <2> HIDE DEF r2
  <2> QED BY <1>3, <1>9, <1>12 DEF d
<1> QED BY <1>2, <1>10, <1>11, <1>12

\* A dump by an exporter that holds no formats leaves a sheet whose cells have
\* been looked at, no more.
LEMMA MarkdownLooks ==
    ASSUME NEW u, WellFormed(u), u.text # << >>
    PROVE  Looked(u, MarkdownDump(u, << >>).sheet)
<1> DEFINE n == Len(u.text)
           k == estimate_num_columns(u)
           d == u.table
           rows0 == [i \in 1..n |-> RowAfter(u, i, 2 * k)]
           x == apply_markdown_format(u, << >>)
           a == x.sheet
           p == Settled(a)
           rows == RemoveAt(p.rows, 2)
           fs == KeptFormats(u)
           g == [i \in 1..n |-> [j \in 1..k |-> fs[Place(u, i, j)]]]
           cells == SubSeq([i \in 1..n |-> SubSeq(g[i], 1, k)], 1, n)
<1>1. /\ u.text \in Seq(Seq(Texts)) /\ n \in Nat \ {0} /\ k \in Nat
      /\ d \in Formats /\ d["font_style"] \in SUBSET FontStyle
      /\ Len(u.rows) = n
      /\ \A i \in 1..n : Len(u.cells[i]) = k /\ Len(u.text[i]) = k /\ u.rows[i] \in Formats
  BY WellFormedRows, EmptySeq
<1>2. ASSUME NEW i \in 1..n
      PROVE  rows0[i] \in {u.rows[i]} \cup RowsLooked(u, i) /\ rows0[i] \in Formats
  <2>1. rows0[i] \in {u.rows[i]} \cup RowsLooked(u, i)
    BY <1>1, <1>2, RowAfterLooks
  <2> HIDE DEF rows0
  <2> QED BY <1>1, <1>2, <2>1, RowsLookedType
<1>3. SubSeq(rows0, 1, n) = rows0 /\ rows0 \in Seq(Formats) /\ Len(rows0) = n
  <2>1. rows0 \in [1..n -> Formats]
    BY <1>2
  <2> HIDE DEF rows0, n
  <2> QED BY <1>1, <2>1, TupleSeq
<1>4. PICK texts : a.text = InsertAt(u.text, 2, texts)
                   /\ a.table = d /\ a.rows = InsertAt(rows0, 2, Format)
  <2>1. Tuple(Len(u.rows), LAMBDA i : RowAfter(u, i, 2 * Len(u.cells[i]))) = rows0
    <3>1. [i \in 1..Len(u.rows) |-> RowAfter(u, i, 2 * Len(u.cells[i]))] = rows0
      <4> HIDE DEF n, k
      <4> QED BY <1>1
    <3> HIDE DEF rows0, n
    <3> QED BY <1>1, <1>3, <3>1 DEF Tuple
  <2> HIDE DEF rows0
  <2> QED BY <2>1 DEF apply_markdown_format, add_alignment_header_row
<1>5. x.formats = fs
  BY KeptIsTuple DEF apply_markdown_format
<1>6. a.rows \in Seq(Formats) /\ Len(a.rows) = n + 1
      /\ \A i \in 1..n : a.rows[IF i = 1 THEN 1 ELSE i + 1] = rows0[i]
  <2>1. rows0 # << >>
    <3> HIDE DEF rows0, n
    <3> QED BY <1>1, <1>3, EmptySeq
  <2>2. /\ InsertAt(rows0, 2, Format) \in Seq(Formats)
        /\ Len(InsertAt(rows0, 2, Format)) = Len(rows0) + 1
        /\ \A i \in 1..Len(rows0) :
              InsertAt(rows0, 2, Format)[IF i = 1 THEN 1 ELSE i + 1] = rows0[i]
    <3> HIDE DEF rows0, n
    <3>1. PICK w : w = rows0
      OBVIOUS
    <3>2. w \in Seq(Formats) /\ w # << >> /\ Format \in Formats
      BY <1>3, <2>1, <3>1, EmptyFormat
    <3>3. /\ InsertAt(w, 2, Format) \in Seq(Formats)
          /\ Len(InsertAt(w, 2, Format)) = Len(w) + 1
          /\ \A i \in 1..Len(w) : InsertAt(w, 2, Format)[IF i = 1 THEN 1 ELSE i + 1] = w[i]
      BY <3>2, Inserted
    <3> QED BY <3>1, <3>3
  <2> HIDE DEF rows0, x, n
  <2> QED BY <1>3, <1>4, <2>2
<1>7. /\ p = [text |-> a.text, table |-> d, rows |-> p.rows, cells |-> p.cells]
      /\ p.rows \in Seq(Formats) /\ Len(p.rows) = n + 1
      /\ \A i \in 1..n + 1 : p.rows[i] = merge(merge(merge(a.rows[i], d), d), d)
  <2> HIDE DEF x, n, d
  <2>1. a.rows \in Seq(Formats) /\ a.table \in Formats /\ a.table["font_style"] \in SUBSET FontStyle
    BY <1>1, <1>4, <1>6
  <2>2. /\ p = [text |-> a.text, table |-> a.table, rows |-> p.rows, cells |-> p.cells]
        /\ p.rows \in Seq(Formats) /\ Len(p.rows) = Len(a.rows)
        /\ \A i \in 1..Len(a.rows) :
              p.rows[i] = merge(merge(merge(a.rows[i], a.table), a.table), a.table)
    BY <2>1, RowsThrice
  <2> HIDE DEF p
  <2> QED BY <1>4, <1>6, <2>2
<1>8. rows \in Seq(Formats) /\ Len(rows) = n
      /\ \A i \in 1..n : rows[i] = p.rows[IF i = 1 THEN 1 ELSE i + 1]
  <2> HIDE DEF p, n
  <2> QED BY <1>1, <1>7, Removed
<1>9. ASSUME NEW i \in 1..n PROVE rows[i] \in RowsLooked(u, i)
  <2> DEFINE l == IF i = 1 THEN 1 ELSE i + 1
  <2>1. l \in 1..n + 1
    BY <1>1, <1>9
  <2>2. a.rows[l] = rows0[i] /\ rows[i] = p.rows[l]
    BY <1>6, <1>8, <1>9
  <2> HIDE DEF l, rows, p, x, rows0
  <2>3. rows[i] = merge(merge(merge(rows0[i], d), d), d)
    BY <1>7, <2>1, <2>2
  <2> QED BY <1>2, <1>9, <2>3, RowSettles
<1>10. RemoveAt(p.text, 2) = u.text
  <2>1. p.text = InsertAt(u.text, 2, texts)
    <3> HIDE DEF p, x
    <3> QED BY <1>4, <1>7
  <2> QED BY <1>1, <2>1, InsertedRemoved
<1>11. ASSUME NEW i \in 1..n, NEW j \in 1..k
       PROVE  /\ g[i][j] = fs[Place(u, i, j)]
              /\ g[i][j] \in {merge(u.cells[i][j], q) : q \in RowsLooked(u, i)}
              /\ g[i][j] \in Formats
  <2>1. g[i][j] = fs[Place(u, i, j)]
    BY <1>11
  <2>2. fs[Place(u, i, j)] = KeptFormat(u, i, j)
    BY <1>11, KeptAtPlace
  <2>3. RowAfter(u, i, 2 * j - 1) \in RowsLooked(u, i)
    <3>1. 2 * j - 1 \in Nat /\ 2 * j - 1 > 0
      BY <1>1, <1>11
    <3> QED BY <3>1, RowAfterLooks
  <2>4. u.cells[i][j] \in Formats
    BY <1>11, WellFormedRows, ElementOfSeq
  <2> HIDE DEF g
  <2>5. g[i][j] = merge(u.cells[i][j], RowAfter(u, i, 2 * j - 1))
    BY <2>1, <2>2 DEF KeptFormat
  <2> QED BY <1>11, <2>1, <2>3, <2>4, <2>5, RowsLookedType, MergeType
<1>12. g \in [1..n -> [1..k -> Formats]]
  <2> HIDE DEF n, k, fs
  <2>1. ASSUME NEW i \in 1..n PROVE g[i] \in [1..k -> Formats]
    BY <1>11, <2>1
  <2> QED BY <2>1
<1>13. /\ cells \in Seq(Seq(Formats)) /\ Len(cells) = n
       /\ \A i \in 1..n : Len(cells[i]) = k /\ \A j \in 1..k : cells[i][j] = g[i][j]
  <2> HIDE DEF g, n, k
  <2>1. n \in Nat /\ k \in Nat
    BY <1>1
  <2> QED BY <1>12, <2>1, NestedTuples
<1>14. MarkdownDump(u, << >>).sheet
           = [text |-> u.text, table |-> d, rows |-> rows, cells |-> cells]
  <2> DEFINE v == [p EXCEPT !.text = RemoveAt(@, 2), !.rows = RemoveAt(@, 2)]
  <2>1. v.text = u.text /\ v.table = d /\ v.rows = rows
    <3> HIDE DEF p
    <3> QED BY <1>7, <1>10
  <2> HIDE DEF v
  <2>2. \A i, j : Place(v, i, j) = Place(u, i, j)
    BY <2>1 DEF Place, estimate_num_columns
  <2>3. Tuple(Len(v.text), LAMBDA i : Tuple(Len(v.text[i]), LAMBDA j : fs[Place(v, i, j)]))
            = cells
    <3>1. ASSUME NEW i \in 1..n
          PROVE  Tuple(Len(v.text[i]), LAMBDA j : fs[Place(v, i, j)]) = SubSeq(g[i], 1, k)
      <4>1. g[i] = [j \in 1..k |-> fs[Place(u, i, j)]]
        BY <3>1
      <4> HIDE DEF g, k, n, fs
      <4> QED BY <1>1, <2>1, <2>2, <3>1, <4>1 DEF Tuple
    <3> HIDE DEF g, k, fs
    <3> QED BY <1>1, <2>1, <3>1 DEF Tuple
  <2>4. MarkdownDump(u, << >>).sheet = restore_table_format(p, fs)
    <3> HIDE DEF fs
    <3> QED BY <1>5 DEF MarkdownDump
  <2> HIDE DEF cells, rows, fs
  <2>5. restore_table_format(p, fs)
            = [text |-> v.text, table |-> v.table, rows |-> v.rows, cells |-> cells]
    <3> HIDE DEF p
    <3> QED BY <2>3 DEF restore_table_format, v
  <2> HIDE DEF p
  <2> QED BY <2>1, <2>4, <2>5
<1>15. ASSUME NEW q \in Positions(u)
       PROVE  cells[q[1]][q[2]] \in {u.cells[q[1]][q[2]]}
                  \cup {merge(u.cells[q[1]][q[2]], y) : y \in RowsLooked(u, q[1])}
  <2>1. q[1] \in 1..n /\ q[2] \in 1..k
    BY <1>15, WellFormedCells
  <2> HIDE DEF cells, g, n, k
  <2> QED BY <1>11, <1>13, <2>1
<1>16. \A i \in 1..Len(u.text) : Len(cells[i]) = estimate_num_columns(u)
  BY <1>13
<1>17. \A i \in 1..Len(u.text) : rows[i] \in {u.rows[i]} \cup RowsLooked(u, i)
  BY <1>9
<1>18. Len(rows) = Len(u.text) /\ Len(cells) = Len(u.text)
  BY <1>8, <1>13
<1> HIDE DEF rows, cells, g, n, k, p
<1> QED BY ZenonT(30), <1>8, <1>13, <1>14, <1>15, <1>16, <1>17, <1>18, OnlyLooks

----------------------------------------------------------------------------
(* What a setter does to a format. *)

\* Setters of the texts of borders, with which tabulate or E2Info is called.
Bordering ==
    {"border_left", "border_right", "border_top", "border_bottom", "column_separator", "corner"}

\* Styles are set by font_style alone, and no setter sets members of two types.
Proper(setters) ==
    \A s \in DOMAIN setters : \A m \in setters[s] :
        /\ m # "font_style"
        /\ m = "font_align" <=> s = "font_align"
        /\ m \in Sizes => s \in DOMAIN SizeSetters
        /\ m \in ColorMembers => setters[s] \subseteq ColorMembers
        /\ m \in TextMembers => setters[s] \subseteq TextMembers
        /\ s \in Bordering => m \in TextMembers

LEMMA OverProper ==
    ASSUME NEW f, NEW g, Proper(f), Proper(g)
    PROVE  Proper(Over(f, g))
BY DEF Proper, Over

LEMMA SizeProper == Proper(SizeSetters)
<1>1. \A s \in DOMAIN SizeSetters :
          s \notin Bordering /\ s # "font_align" /\ SizeSetters[s] \subseteq Sizes
  BY DEF SizeSetters, PaddingMembers, Sizes, SizeMembers, Bordering
<1> QED BY <1>1, TypeOfMember, TypedAreMembers DEF Proper, TypedMembers

LEMMA BorderProper == Proper(BorderSetters) /\ Proper(BorderGroupSetters)
<1>1. \A s \in DOMAIN BorderSetters :
          /\ s # "font_align" /\ BorderSetters[s] = {s}
          /\ s \in ColorMembers \cup TextMembers /\ (s \in Bordering => s \in TextMembers)
  BY DEF BorderSetters, BorderTexts, BorderColors, BorderBackgrounds, ColorMembers,
         TextMembers, Bordering
<1>2. \A s \in DOMAIN BorderGroupSetters :
          /\ s # "font_align" /\ s \notin Bordering
          /\ \/ BorderGroupSetters[s] \subseteq TextMembers
             \/ BorderGroupSetters[s] \subseteq ColorMembers
  BY DEF BorderGroupSetters, ColorMembers, TextMembers, Bordering
<1> QED BY <1>1, <1>2, TypeOfMember, TypedAreMembers DEF Proper, TypedMembers

LEMMA CornerProper == Proper(CornerSetters) /\ Proper(CornerGroupSetters)
<1>1. \A s \in DOMAIN CornerSetters :
          /\ s # "font_align" /\ CornerSetters[s] = {s}
          /\ s \in ColorMembers \cup TextMembers /\ s \notin Bordering
  BY DEF CornerSetters, CornerTexts, CornerColors, CornerBackgrounds, ColorMembers,
         TextMembers, Bordering
<1>2. \A s \in DOMAIN CornerGroupSetters :
          /\ s # "font_align" /\ (s \in Bordering => CornerGroupSetters[s] \subseteq TextMembers)
          /\ \/ CornerGroupSetters[s] \subseteq TextMembers
             \/ CornerGroupSetters[s] \subseteq ColorMembers
  BY DEF CornerGroupSetters, ColorMembers, TextMembers, Bordering
<1> QED BY <1>1, <1>2, TypeOfMember, TypedAreMembers DEF Proper, TypedMembers

LEMMA OtherProper == Proper(SeparatorSetters) /\ Proper(FontSetters) /\ Proper(ScreenSetters)
<1>1. \A s \in DOMAIN SeparatorSetters :
          /\ s # "font_align" /\ SeparatorSetters[s] = {s}
          /\ s \in ColorMembers \cup TextMembers /\ (s \in Bordering => s \in TextMembers)
  BY DEF SeparatorSetters, ColorMembers, TextMembers, Bordering
<1>2. \A s \in DOMAIN FontSetters :
          /\ s \notin Bordering
          /\ \/ s = "font_align" /\ FontSetters[s] = {"font_align"}
             \/ s # "font_align" /\ FontSetters[s] \subseteq ColorMembers
  BY DEF FontSetters, ColorMembers, Bordering
<1>3. \A s \in DOMAIN ScreenSetters :
          /\ s # "font_align" /\ ScreenSetters[s] = {s} /\ s \notin Bordering
          /\ s \notin TypedMembers /\ s # "font_style"
  BY DEF ScreenSetters, Bordering, TypedMembers, Sizes, SizeMembers, PaddingMembers,
         ColorMembers, BorderColors, BorderBackgrounds, CornerColors, CornerBackgrounds,
         TextMembers, BorderTexts, CornerTexts
<1>4. Proper(SeparatorSetters)
  BY <1>1, TypeOfMember, TypedAreMembers DEF Proper, TypedMembers
<1>5. Proper(FontSetters)
  BY <1>2, TypeOfMember, TypedAreMembers DEF Proper, TypedMembers
<1>6. Proper(ScreenSetters)
  BY <1>3 DEF Proper, TypedMembers
<1> QED BY <1>4, <1>5, <1>6

\* The members of these are TRUE or FALSE.
LEMMA ShowSettersAreSetters ==
    /\ "font_style" \notin DOMAIN ShowSetters \cup DOMAIN HideSetters
    /\ \A s \in DOMAIN ShowSetters : s \notin DOMAIN HideSetters
    /\ \A s \in DOMAIN ShowSetters : \A m \in {"font_style"} \cup TypedMembers : m \notin ShowSetters[s]
    /\ \A s \in DOMAIN HideSetters : \A m \in {"font_style"} \cup TypedMembers : m \notin HideSetters[s]
<1> DEFINE shown == ShowMembers \cup {"show_column_separator", "show_row_separator"}
<1>1. \A m \in shown : m # "font_style" /\ m \notin TypedMembers
  BY DEF ShowMembers, TypedMembers, Sizes, SizeMembers, PaddingMembers,
         ColorMembers, BorderColors, BorderBackgrounds, CornerColors, CornerBackgrounds,
         TextMembers, BorderTexts, CornerTexts
<1>2. \A s \in DOMAIN ShowSetters : ShowSetters[s] \subseteq shown
  BY DEF ShowSetters, ShowMembers
<1>3. \A s \in DOMAIN HideSetters : HideSetters[s] \subseteq shown
  BY DEF HideSetters, ShowMembers
<1>4. /\ "font_style" \notin DOMAIN ShowSetters \cup DOMAIN HideSetters
      /\ \A s \in DOMAIN ShowSetters : s \notin DOMAIN HideSetters
  BY DEF ShowSetters, HideSetters
<1> HIDE DEF shown
<1> QED BY <1>1, <1>2, <1>3, <1>4

LEMMA ShowProper == Proper(ShowSetters) /\ Proper(HideSetters)
<1>1. \A s \in DOMAIN ShowSetters \cup DOMAIN HideSetters : s # "font_align" /\ s \notin Bordering
  BY DEF ShowSetters, HideSetters, Bordering
<1> QED BY <1>1, ShowSettersAreSetters DEF Proper, TypedMembers

LEMMA SettersProper == Proper(Setters)
BY OverProper, SizeProper, BorderProper, CornerProper, OtherProper, ShowProper DEF Setters

\* The arguments of the calls of a program.
Legal(s, v) ==
    /\ s \in DOMAIN Setters \cup {"font_style"}
    /\ v \in Values /\ v # NoValue
    /\ s \in DOMAIN Setters /\ s \notin DOMAIN ShowSetters /\ s \notin DOMAIN HideSetters =>
          \A m \in TypedMembers : m \in Setters[s] => v \in TypeOf(m)
    /\ s = "font_style" => v \in SUBSET FontStyle

\* Every other setter gives some members the same value.
LEMMA SetMember ==
    ASSUME NEW s, s # "font_style", NEW v, Legal(s, v)
    PROVE  \E M, w :
              /\ w \in Values /\ w # NoValue /\ "font_style" \notin M
              /\ \A m \in TypedMembers : m \in M => w \in TypeOf(m)
              /\ \A f : Set(f, s, v) = Assign(f, M, w)
<1>1. TRUE \in Values /\ FALSE \in Values
  BY DEF Values
<1>2. CASE s \in DOMAIN ShowSetters
  <2>1. ASSUME NEW f PROVE Set(f, s, v) = Assign(f, ShowSetters[s], TRUE)
    BY <1>2, ShowSettersAreSetters DEF Set
  <2> QED BY <1>1, <1>2, <2>1, NoValueAssumption, ShowSettersAreSetters
<1>3. CASE s \notin DOMAIN ShowSetters /\ s \in DOMAIN HideSetters
  <2>1. \A f : Set(f, s, v) = Assign(f, HideSetters[s], FALSE)
    BY <1>3 DEF Set
  <2> QED BY <1>1, <1>3, <2>1, NoValueAssumption, ShowSettersAreSetters
<1>4. CASE s \notin DOMAIN ShowSetters /\ s \notin DOMAIN HideSetters
  <2>1. \A f : Set(f, s, v) = Assign(f, Setters[s], v)
    BY <1>4 DEF Set
  <2>2. s \in DOMAIN Setters /\ v \in Values /\ v # NoValue
        /\ \A m \in TypedMembers : m \in Setters[s] => v \in TypeOf(m)
    BY <1>4 DEF Legal
  <2>3. "font_style" \notin Setters[s]
    BY <2>2, SettersProper DEF Proper
  <2> QED BY <2>1, <2>2, <2>3
<1> QED BY <1>2, <1>3, <1>4

LEMMA StyleSet ==
    ASSUME NEW f, NEW v
    PROVE  Set(f, "font_style", v) = font_style(f, v)
BY ShowSettersAreSetters DEF Set

LEMMA SetType ==
    ASSUME NEW f \in Formats, NEW s, NEW v, Legal(s, v)
    PROVE  /\ Set(f, s, v) \in Formats
           /\ \A m \in Members : f[m] # NoValue => Set(f, s, v)[m] # NoValue
<1>0. f \in [Members -> Values] /\ f["font_style"] \in StyleValues /\ Typed(f)
  BY FormatType
<1>1. CASE s = "font_style"
  <2> DEFINE w == IF f["font_style"] = NoValue THEN v ELSE f["font_style"] \cup v
             x == [m \in Members |-> IF m = "font_style" THEN w ELSE f[m]]
  <2>1. v \in SUBSET FontStyle
    BY <1>1 DEF Legal
  <2>2. w \in SUBSET FontStyle
    BY <1>0, <2>1, StyleType
  <2>3. w \in Values /\ w # NoValue /\ w \in StyleValues
    <3> HIDE DEF w
    <3> QED BY Zenon, <2>2, NoValueAssumption DEF Values, StyleValues
  <2>4. Set(f, s, v) = x
    <3> HIDE DEF w
    <3>1. font_style(f, v) = Assign(f, {"font_style"}, w)
      BY DEF font_style, w
    <3> QED BY <1>1, <3>1, StyleSet DEF Assign
  <2> HIDE DEF w
  <2>5. x \in [Members -> Values] /\ x["font_style"] \in StyleValues
    BY <1>0, <2>3, FontStyleIsMember
  <2>6. \A m \in Members : f[m] # NoValue => x[m] # NoValue
    BY <2>3
  <2>7. Typed(x)
    BY <1>0, TypedAreMembers DEF Typed
  <2> HIDE DEF x
  <2> QED BY <2>4, <2>5, <2>6, <2>7, FormatType
<1>2. CASE s # "font_style"
  <2>1. PICK M, w :
           /\ w \in Values /\ w # NoValue /\ "font_style" \notin M
           /\ \A m \in TypedMembers : m \in M => w \in TypeOf(m)
           /\ \A g : Set(g, s, v) = Assign(g, M, w)
    BY <1>2, SetMember DEF Legal
  <2> DEFINE x == [m \in Members |-> IF m \in M THEN w ELSE f[m]]
  <2>2. Set(f, s, v) = x
    BY <2>1 DEF Assign
  <2>3. x \in [Members -> Values] /\ x["font_style"] \in StyleValues
    BY <1>0, <2>1, FontStyleIsMember
  <2>4. \A m \in Members : f[m] # NoValue => x[m] # NoValue
    BY <2>1
  <2>5. Typed(x)
    BY <1>0, <2>1, TypedAreMembers DEF Typed
  <2> HIDE DEF x
  <2> QED BY <2>2, <2>3, <2>4, <2>5, FormatType
<1> QED BY <1>1, <1>2

\* A setter called on a and on b keeps what b keeps of a.
LEMMA SetKeeps ==
    ASSUME NEW a, NEW b \in Formats, NEW s, NEW v, Legal(s, v), NEW m \in Members,
           Keeps(m, a[m], b[m])
    PROVE  Keeps(m, Set(a, s, v)[m], Set(b, s, v)[m])
<1>1. CASE s = "font_style"
  <2>1. CASE m # "font_style"
    BY <1>1, <2>1, StyleSet DEF font_style, Assign
  <2>2. CASE m = "font_style"
    <3> DEFINE W(x) == IF x = NoValue THEN v ELSE x \cup v
    <3>1. Set(a, s, v)[m] = W(a[m]) /\ Set(b, s, v)[m] = W(b[m])
      <4>1. ASSUME NEW g PROVE Set(g, s, v)["font_style"] = W(g["font_style"])
        <5>1. font_style(g, v) = Assign(g, {"font_style"}, W(g["font_style"]))
          BY DEF font_style
        <5> HIDE DEF W
        <5>2. Assign(g, {"font_style"}, W(g["font_style"]))["font_style"] = W(g["font_style"])
          BY FontStyleIsMember DEF Assign
        <5> QED BY <1>1, <5>1, <5>2, StyleSet
      <4> HIDE DEF W
      <4> QED BY <2>2, <4>1
    <3>2. v \in SUBSET FontStyle /\ b["font_style"] \in StyleValues
      BY <1>1, FormatType DEF Legal
    <3>3. W(b["font_style"]) \in SUBSET FontStyle
      <4>1. CASE b["font_style"] = NoValue
        BY <3>2, <4>1
      <4>2. CASE b["font_style"] # NoValue
        <5>1. b["font_style"] \in SUBSET FontStyle
          BY <3>2, <4>2, StyleType
        <5> QED BY <3>2, <4>2, <5>1
      <4> QED BY <4>1, <4>2
    <3>4. W(b["font_style"]) # NoValue
      <4> HIDE DEF W
      <4> QED BY <3>3, NoValueAssumption
    <3>5. W(a[m]) \subseteq W(b[m])
      <4>1. CASE a[m] = NoValue
        BY <4>1
      <4>2. CASE a[m] # NoValue
        <5>1. b[m] # NoValue /\ a[m] \subseteq b[m]
          BY <2>2, <4>2 DEF Keeps
        <5> QED BY <4>2, <5>1
      <4> QED BY <4>1, <4>2
    <3> HIDE DEF W
    <3> QED BY <2>2, <3>1, <3>4, <3>5 DEF Keeps
  <2> QED BY <2>1, <2>2
<1>2. CASE s # "font_style"
  <2>1. PICK M, w :
           /\ w \in Values /\ w # NoValue /\ "font_style" \notin M
           /\ \A g : Set(g, s, v) = Assign(g, M, w)
    BY <1>2, SetMember DEF Legal
  <2> QED BY <2>1 DEF Assign, Keeps
<1> QED BY <1>1, <1>2

----------------------------------------------------------------------------
(* What a call makes of a sheet. *)

\* o is what has been set on the cells of u themselves.
Owned(o, u) ==
    /\ o \in Seq(Seq(Formats)) /\ Len(o) = Len(u.text)
    /\ \A i \in 1..Len(u.text) : Len(o[i]) = estimate_num_columns(u)
    /\ \A p \in Positions(u) : \A m \in Members :
          Keeps(m, o[p[1]][p[2]][m], u.cells[p[1]][p[2]][m])

LEMMA OwnedLooked ==
    ASSUME NEW u, NEW v, NEW o, Owned(o, u), Looked(u, v)
    PROVE  Owned(o, v)
<1>1. estimate_num_columns(v) = estimate_num_columns(u) /\ Positions(v) = Positions(u)
      /\ v.text = u.text
  BY DEF Looked, Positions, estimate_num_columns
<1>2. ASSUME NEW p \in Positions(u), NEW m \in Members
      PROVE  Keeps(m, o[p[1]][p[2]][m], v.cells[p[1]][p[2]][m])
  BY KeepsTransitive DEF Owned, Looked
<1> QED BY <1>1, <1>2 DEF Owned

\* The formats of a sheet replaced.
LEMMA Reformatted ==
    ASSUME NEW u, WellFormed(u), NEW table \in Formats, NEW rows \in Seq(Formats),
           NEW cells \in Seq(Seq(Formats)),
           Len(rows) = Len(u.text), Len(cells) = Len(u.text),
           \A i \in 1..Len(u.text) : Len(cells[i]) = estimate_num_columns(u),
           \A m \in Defaulted : table[m] # NoValue
    PROVE  LET v == [text |-> u.text, table |-> table, rows |-> rows, cells |-> cells]
           IN  WellFormed(v) /\ estimate_num_columns(v) = estimate_num_columns(u)
               /\ Positions(v) = Positions(u)
<1> DEFINE v == [text |-> u.text, table |-> table, rows |-> rows, cells |-> cells]
<1>1. v \in Sheets
  BY WellFormedRows DEF Sheets
<1>2. v.text = u.text /\ v.table = table /\ v.rows = rows /\ v.cells = cells
  OBVIOUS
<1>3. estimate_num_columns(v) = estimate_num_columns(u)
  BY DEF estimate_num_columns
<1> HIDE DEF v
<1>4. WellFormed(v)
  BY <1>1, <1>2, <1>3, WellFormedRows DEF WellFormed
<1> QED BY <1>2, <1>3, <1>4 DEF v, Positions

LEMMA SheetRecord ==
    ASSUME NEW u, WellFormed(u)
    PROVE  u = [text |-> u.text, table |-> u.table, rows |-> u.rows, cells |-> u.cells]
BY DEF WellFormed, Sheets

LEMMA DefaultedAreMembers == Defaulted \subseteq Members
BY DEF Members

\* What a setter of the table makes of a sheet.
LEMMA SetTableMakes ==
    ASSUME NEW u, WellFormed(u), NEW s, NEW v, Legal(s, v)
    PROVE  LET w == SetTable(u, s, v)
           IN  /\ WellFormed(w) /\ Positions(w) = Positions(u)
               /\ w.text = u.text /\ estimate_num_columns(w) = estimate_num_columns(u)
               /\ w.table = Set(u.table, s, v) /\ w.rows = u.rows /\ w.cells = u.cells
<1> DEFINE d == Set(u.table, s, v)
           w == [text |-> u.text, table |-> d, rows |-> u.rows, cells |-> u.cells]
<1>1. d \in Formats /\ \A m \in Defaulted : d[m] # NoValue
  BY WellFormedRows, SetType, DefaultedAreMembers DEF WellFormed
<1>2. SetTable(u, s, v) = w
  <2> HIDE DEF d
  <2> QED BY SheetRecord DEF SetTable, d
<1>3. w.text = u.text /\ w.table = d /\ w.rows = u.rows /\ w.cells = u.cells
  OBVIOUS
<1>4. WellFormed(w) /\ estimate_num_columns(w) = estimate_num_columns(u)
      /\ Positions(w) = Positions(u)
  <2> HIDE DEF d
  <2>1. /\ u.rows \in Seq(Formats) /\ u.cells \in Seq(Seq(Formats))
        /\ Len(u.rows) = Len(u.text) /\ Len(u.cells) = Len(u.text)
        /\ \A i \in 1..Len(u.text) : Len(u.cells[i]) = estimate_num_columns(u)
    BY WellFormedRows
  <2> QED BY <1>1, <2>1, Reformatted
<1> HIDE DEF w
<1> QED BY <1>2, <1>3, <1>4

LEMMA SetTableKeeps ==
    ASSUME NEW u, WellFormed(u), NEW o, Owned(o, u), NEW s, NEW v, Legal(s, v)
    PROVE  LET w == SetTable(u, s, v)
           IN  WellFormed(w) /\ Owned(o, w) /\ w.text = u.text
<1> DEFINE w == SetTable(u, s, v)
<1>1. /\ WellFormed(w) /\ Positions(w) = Positions(u) /\ w.text = u.text
      /\ estimate_num_columns(w) = estimate_num_columns(u) /\ w.cells = u.cells
  BY SetTableMakes
<1> HIDE DEF w
<1>2. Owned(o, w)
  BY <1>1 DEF Owned
<1> QED BY <1>1, <1>2 DEF w

\* What a setter of a row makes of a sheet: the row is looked at first.
LEMMA SetRowMakes ==
    ASSUME NEW u, WellFormed(u), NEW s, NEW v, Legal(s, v), NEW i \in 1..Len(u.text)
    PROVE  LET w == SetRow(u, i, s, v)
           IN  /\ WellFormed(w) /\ Positions(w) = Positions(u)
               /\ w.text = u.text /\ estimate_num_columns(w) = estimate_num_columns(u)
               /\ w.table = u.table /\ w.cells = u.cells
               /\ \A a \in 1..Len(u.text) :
                     w.rows[a] = IF a = i THEN Set(merge(u.rows[i], u.table), s, v) ELSE u.rows[a]
<1> DEFINE r == Set(merge(u.rows[i], u.table), s, v)
           rows == [u.rows EXCEPT ![i] = r]
           w == [text |-> u.text, table |-> u.table, rows |-> rows, cells |-> u.cells]
<1>1. r \in Formats
  <2>1. merge(u.rows[i], u.table) \in Formats
    BY WellFormedRows, MergeType, NoValueAssumption
  <2> QED BY <2>1, SetType
<1>2. SetRow(u, i, s, v) = w
  <2>1. i \in DOMAIN u.rows
    BY WellFormedRows, LenProperties
  <2>2. u = [text |-> u.text, table |-> u.table, rows |-> u.rows, cells |-> u.cells]
    BY SheetRecord
  <2>3. u.rows = [k \in DOMAIN u.rows |-> u.rows[k]]
    BY WellFormedRows, LenProperties
  <2>4. LookAtRow(u, i) = [text |-> u.text, table |-> u.table,
                           rows |-> [u.rows EXCEPT ![i] = merge(u.rows[i], u.table)],
                           cells |-> u.cells]
    BY <2>2 DEF LookAtRow
  <2>5. [[u.rows EXCEPT ![i] = merge(u.rows[i], u.table)] EXCEPT ![i] = r] = rows
    <3> HIDE DEF r
    <3> QED BY <2>1, <2>3
  <2>6. [u.rows EXCEPT ![i] = merge(u.rows[i], u.table)][i] = merge(u.rows[i], u.table)
    BY <2>1
  <2> HIDE DEF rows
  <2> QED BY <2>4, <2>5, <2>6 DEF SetRow
<1>3. rows \in Seq(Formats) /\ Len(rows) = Len(u.text)
      /\ \A a \in 1..Len(u.text) : rows[a] = IF a = i THEN r ELSE u.rows[a]
  <2> HIDE DEF r
  <2> QED BY <1>1, WellFormedRows, ExceptSeq
<1>4. w.text = u.text /\ w.table = u.table /\ w.rows = rows /\ w.cells = u.cells
  OBVIOUS
<1>5. WellFormed(w) /\ estimate_num_columns(w) = estimate_num_columns(u)
      /\ Positions(w) = Positions(u)
  <2> HIDE DEF rows
  <2> QED BY ZenonT(30), <1>3, WellFormedRows, Reformatted DEF WellFormed
<1> HIDE DEF w, rows
<1> QED BY <1>2, <1>3, <1>4, <1>5

LEMMA SetRowKeeps ==
    ASSUME NEW u, WellFormed(u), NEW o, Owned(o, u), NEW s, NEW v, Legal(s, v),
           NEW i \in 1..Len(u.text)
    PROVE  LET w == SetRow(u, i, s, v)
           IN  WellFormed(w) /\ Owned(o, w) /\ w.text = u.text
<1> DEFINE w == SetRow(u, i, s, v)
<1>1. /\ WellFormed(w) /\ Positions(w) = Positions(u) /\ w.text = u.text
      /\ estimate_num_columns(w) = estimate_num_columns(u) /\ w.cells = u.cells
  BY SetRowMakes
<1> HIDE DEF w
<1>2. Owned(o, w)
  BY <1>1 DEF Owned
<1> QED BY <1>1, <1>2 DEF w

\* One cell of nested sequences replaced.
LEMMA ExceptCell ==
    ASSUME NEW cells \in Seq(Seq(Formats)), NEW i \in 1..Len(cells), NEW j \in 1..Len(cells[i]),
           NEW f \in Formats
    PROVE  LET x == [cells EXCEPT ![i][j] = f]
           IN  /\ x \in Seq(Seq(Formats)) /\ Len(x) = Len(cells)
               /\ \A a \in 1..Len(cells) :
                     /\ Len(x[a]) = Len(cells[a])
                     /\ \A b \in 1..Len(cells[a]) :
                           x[a][b] = IF a = i /\ b = j THEN f ELSE cells[a][b]
<1> DEFINE row == [cells[i] EXCEPT ![j] = f]
           x == [cells EXCEPT ![i] = row]
<1>1. cells[i] \in Seq(Formats)
  BY ElementOfSeq
<1>2. row \in Seq(Formats) /\ Len(row) = Len(cells[i])
      /\ \A b \in 1..Len(cells[i]) : row[b] = IF b = j THEN f ELSE cells[i][b]
  BY <1>1, ExceptSeq
<1>3. x \in Seq(Seq(Formats)) /\ Len(x) = Len(cells)
      /\ \A a \in 1..Len(cells) : x[a] = IF a = i THEN row ELSE cells[a]
  <2> HIDE DEF row
  <2> QED BY <1>2, ExceptSeq
<1>4. [cells EXCEPT ![i][j] = f] = x
  OBVIOUS
<1> HIDE DEF row, x
<1> QED BY <1>2, <1>3, <1>4

\* What a setter of a cell makes of a sheet: the cell, and so its row, is looked at
\* first.
LEMMA SetCellMakes ==
    ASSUME NEW u, WellFormed(u), NEW s, NEW v, Legal(s, v),
           NEW i \in 1..Len(u.text), NEW j \in 1..estimate_num_columns(u)
    PROVE  LET w == SetCell(u, i, j, s, v)
               q == merge(u.rows[i], u.table)
               f == Set(merge(u.cells[i][j], q), s, v)
           IN  /\ WellFormed(w) /\ Positions(w) = Positions(u)
               /\ w.text = u.text /\ estimate_num_columns(w) = estimate_num_columns(u)
               /\ w.table = u.table
               /\ \A a \in 1..Len(u.text) :
                     /\ w.rows[a] = IF a = i THEN q ELSE u.rows[a]
                     /\ \A b \in 1..estimate_num_columns(u) :
                           w.cells[a][b] = IF a = i /\ b = j THEN f ELSE u.cells[a][b]
<1> DEFINE q == merge(u.rows[i], u.table)
           c == merge(u.cells[i][j], q)
           f == Set(c, s, v)
           rows == [u.rows EXCEPT ![i] = q]
           cells == [u.cells EXCEPT ![i][j] = f]
           w == [text |-> u.text, table |-> u.table, rows |-> rows, cells |-> cells]
<1>1. /\ u.rows \in Seq(Formats) /\ Len(u.rows) = Len(u.text) /\ i \in DOMAIN u.rows
      /\ u.cells \in Seq(Seq(Formats)) /\ Len(u.cells) = Len(u.text)
      /\ \A a \in 1..Len(u.text) : Len(u.cells[a]) = estimate_num_columns(u)
      /\ u.cells[i] \in Seq(Formats) /\ u.table \in Formats
  BY WellFormedRows, LenProperties
<1>2. q \in RowsLooked(u, i) /\ q \in Formats /\ q["font_style"] # NoValue
  <2>1. q \in RowsLooked(u, i)
    BY DEF RowsLooked
  <2> HIDE DEF q
  <2> QED BY <2>1, RowsLookedType
<1>3. u.cells[i][j] \in Formats
  BY <1>1, ElementOfSeq
<1>4. c \in Formats
  <2> DEFINE p == <<i, j>>
  <2>1. p \in Positions(u) /\ p[1] = i /\ p[2] = j
    BY DEF Positions
  <2> HIDE DEF p, q
  <2> QED BY <1>2, <1>3, <2>1, CellLooked
<1>5. f \in Formats
  <2> HIDE DEF c
  <2> QED BY <1>4, SetType
<1>6. /\ cells \in Seq(Seq(Formats)) /\ Len(cells) = Len(u.text)
      /\ \A a \in 1..Len(u.text) :
            /\ Len(cells[a]) = estimate_num_columns(u)
            /\ \A b \in 1..estimate_num_columns(u) :
                  cells[a][b] = IF a = i /\ b = j THEN f ELSE u.cells[a][b]
  <2> HIDE DEF f
  <2> QED BY SMTT(40), <1>1, <1>5, ExceptCell
<1>7. rows \in Seq(Formats) /\ Len(rows) = Len(u.text)
      /\ \A a \in 1..Len(u.text) : rows[a] = IF a = i THEN q ELSE u.rows[a]
  <2> HIDE DEF q
  <2> QED BY <1>1, <1>2, ExceptSeq
<1>8. SetCell(u, i, j, s, v) = w
  <2>1. u = [text |-> u.text, table |-> u.table, rows |-> u.rows, cells |-> u.cells]
    BY SheetRecord
  <2>2. LookAtRow(u, i) = [text |-> u.text, table |-> u.table, rows |-> rows, cells |-> u.cells]
    BY <2>1 DEF LookAtRow
  <2>3. rows[i] = q
    BY <1>1
  <2> HIDE DEF rows, q
  <2>4. LookAtCell(u, i, j) = [text |-> u.text, table |-> u.table, rows |-> rows,
                              cells |-> [u.cells EXCEPT ![i][j] = merge(@, q)]]
    BY <2>2, <2>3 DEF LookAtCell
  <2>5. [u.cells EXCEPT ![i][j] = merge(@, q)] = [u.cells EXCEPT ![i][j] = c]
    OBVIOUS
  <2> HIDE DEF c
  <2>6. SetCell(u, i, j, s, v) = [text |-> u.text, table |-> u.table, rows |-> rows,
            cells |-> [[u.cells EXCEPT ![i][j] = c] EXCEPT ![i][j] = Set(@, s, v)]]
    BY <2>4, <2>5 DEF SetCell
  <2>7. [[u.cells EXCEPT ![i][j] = c] EXCEPT ![i][j] = Set(@, s, v)] = cells
    <3> DEFINE y == [u.cells EXCEPT ![i][j] = c]
    <3>1. /\ y \in Seq(Seq(Formats)) /\ Len(y) = Len(u.text)
          /\ \A a \in 1..Len(u.text) :
                /\ Len(y[a]) = estimate_num_columns(u)
                /\ \A b \in 1..estimate_num_columns(u) :
                      y[a][b] = IF a = i /\ b = j THEN c ELSE u.cells[a][b]
      BY SMTT(40), <1>1, <1>4, ExceptCell
    <3>2. y[i][j] = c
      BY <3>1
    <3> DEFINE z == [y EXCEPT ![i][j] = f]
    <3>3. [y EXCEPT ![i][j] = Set(@, s, v)] = z
      <4> HIDE DEF y
      <4> QED BY <3>2
    <3> HIDE DEF y, f
    <3>4. /\ z \in Seq(Seq(Formats)) /\ Len(z) = Len(u.text)
          /\ \A a \in 1..Len(u.text) :
                /\ Len(z[a]) = estimate_num_columns(u)
                /\ \A b \in 1..estimate_num_columns(u) :
                      z[a][b] = IF a = i /\ b = j THEN f ELSE y[a][b]
      BY <1>5, <3>1, ExceptCell
    <3> HIDE DEF z, cells
    <3>5. ASSUME NEW a \in 1..Len(u.text) PROVE z[a] = cells[a]
      <4>1. z[a] \in Seq(Formats) /\ cells[a] \in Seq(Formats)
        BY <1>6, <3>4, <3>5, ElementOfSeq
      <4>2. Len(z[a]) = estimate_num_columns(u) /\ Len(cells[a]) = estimate_num_columns(u)
        BY <1>6, <3>4, <3>5
      <4>3. ASSUME NEW b \in 1..estimate_num_columns(u) PROVE z[a][b] = cells[a][b]
        <5>1. z[a][b] = IF a = i /\ b = j THEN f ELSE y[a][b]
          BY <3>4, <3>5, <4>3
        <5>2. y[a][b] = IF a = i /\ b = j THEN c ELSE u.cells[a][b]
          BY <3>1, <3>5, <4>3
        <5>3. cells[a][b] = IF a = i /\ b = j THEN f ELSE u.cells[a][b]
          BY <1>6, <3>5, <4>3
        <5> QED BY <5>1, <5>2, <5>3
      <4> QED BY <4>1, <4>2, <4>3, SeqEqual
    <3>6. z = cells
      <4>1. z \in Seq(Seq(Formats)) /\ cells \in Seq(Seq(Formats)) /\ Len(z) = Len(cells)
        BY <1>6, <3>4
      <4>2. \A a \in 1..Len(z) : z[a] = cells[a]
        BY <3>4, <3>5
      <4> QED BY <4>1, <4>2, SeqEqual
    <3> QED BY <3>3, <3>6 DEF y
  <2> QED BY <2>6, <2>7
<1>9. w.text = u.text /\ w.table = u.table /\ w.rows = rows /\ w.cells = cells
  OBVIOUS
<1>10. WellFormed(w) /\ estimate_num_columns(w) = estimate_num_columns(u)
       /\ Positions(w) = Positions(u)
  <2>1. \A a \in 1..Len(u.text) : Len(cells[a]) = estimate_num_columns(u)
    BY <1>6
  <2>2. \A m \in Defaulted : u.table[m] # NoValue
    BY DEF WellFormed
  <2> HIDE DEF rows, cells
  <2> QED BY ZenonT(30), <1>1, <1>6, <1>7, <2>1, <2>2, Reformatted
<1> HIDE DEF w, rows, cells, f
<1> QED BY <1>6, <1>7, <1>8, <1>9, <1>10 DEF f

LEMMA SetCellKeeps ==
    ASSUME NEW u, WellFormed(u), NEW o, Owned(o, u), NEW s, NEW v, Legal(s, v),
           NEW i \in 1..Len(u.text), NEW j \in 1..estimate_num_columns(u)
    PROVE  LET w == SetCell(u, i, j, s, v)
           IN  WellFormed(w) /\ Owned([o EXCEPT ![i][j] = Set(@, s, v)], w) /\ w.text = u.text
<1> DEFINE c == merge(u.cells[i][j], merge(u.rows[i], u.table))
           f == Set(c, s, v)
           w == SetCell(u, i, j, s, v)
           e == Set(o[i][j], s, v)
           oo == [o EXCEPT ![i][j] = e]
<1>1. /\ WellFormed(w) /\ Positions(w) = Positions(u)
      /\ w.text = u.text /\ estimate_num_columns(w) = estimate_num_columns(u)
      /\ \A a \in 1..Len(u.text) : \A b \in 1..estimate_num_columns(u) :
            w.cells[a][b] = IF a = i /\ b = j THEN f ELSE u.cells[a][b]
  BY SetCellMakes
<1> HIDE DEF w
<1>2. c \in Formats /\ \A m \in Members : Keeps(m, u.cells[i][j][m], c[m])
  <2> DEFINE p == <<i, j>>
             q == merge(u.rows[i], u.table)
  <2>1. p \in Positions(u) /\ p[1] = i /\ p[2] = j
    BY DEF Positions
  <2>2. q \in RowsLooked(u, i)
    BY DEF RowsLooked
  <2> HIDE DEF p, q
  <2>3. u.cells[i][j] \in Formats
    BY <2>1, WellFormedCells
  <2> QED BY <2>1, <2>2, <2>3, CellLooked DEF q
<1>3. /\ o \in Seq(Seq(Formats)) /\ Len(o) = Len(u.text) /\ o[i] \in Seq(Formats)
       /\ \A a \in 1..Len(u.text) : Len(o[a]) = estimate_num_columns(u)
       /\ o[i][j] \in Formats
  <2>1. o \in Seq(Seq(Formats)) /\ Len(o) = Len(u.text)
        /\ \A a \in 1..Len(u.text) : Len(o[a]) = estimate_num_columns(u)
    BY DEF Owned
  <2>2. o[i] \in Seq(Formats)
    BY <2>1, ElementOfSeq
  <2> QED BY <2>1, <2>2, ElementOfSeq
<1>4. e \in Formats
  BY <1>3, SetType
<1>5. /\ oo \in Seq(Seq(Formats)) /\ Len(oo) = Len(u.text)
       /\ \A a \in 1..Len(u.text) :
             /\ Len(oo[a]) = estimate_num_columns(u)
             /\ \A b \in 1..estimate_num_columns(u) :
                   oo[a][b] = IF a = i /\ b = j THEN e ELSE o[a][b]
  <2> HIDE DEF e
  <2> QED BY <1>3, <1>4, ExceptCell
<1>6. [o EXCEPT ![i][j] = Set(@, s, v)] = oo
  OBVIOUS
<1>7. ASSUME NEW p \in Positions(u), NEW m \in Members
      PROVE  Keeps(m, oo[p[1]][p[2]][m], w.cells[p[1]][p[2]][m])
  <2>1. p[1] \in 1..Len(u.text) /\ p[2] \in 1..estimate_num_columns(u)
    BY <1>7, WellFormedCells
  <2>2. Keeps(m, o[p[1]][p[2]][m], u.cells[p[1]][p[2]][m])
    BY <1>7 DEF Owned
  <2> HIDE DEF oo
  <2>3. CASE p[1] = i /\ p[2] = j
    <3>1. Keeps(m, o[i][j][m], c[m])
      BY <1>2, <2>2, <2>3, KeepsTransitive
    <3> HIDE DEF c
    <3>2. Keeps(m, e[m], f[m])
      BY <1>2, <3>1, SetKeeps
    <3> HIDE DEF e, f
    <3> QED BY <1>1, <1>5, <2>1, <2>3, <3>2
  <2>4. CASE ~(p[1] = i /\ p[2] = j)
    <3> HIDE DEF e, f
    <3> QED BY <1>1, <1>5, <2>1, <2>2, <2>4
  <2> QED BY <2>3, <2>4
<1> HIDE DEF oo
<1>8. Owned(oo, w)
  BY <1>1, <1>5, <1>7 DEF Owned
<1> QED BY <1>1, <1>6, <1>8 DEF w

\* The rows x, whose column j is replaced by g, as TLC's tuples.
ColumnSet(x, n, j, g) == SubSeq([i \in 1..n |-> [x[i] EXCEPT ![j] = g[i]]], 1, n)

\* One column of nested sequences replaced.
\* x is n rows of k formats.
NestedRows(x, n, k) ==
    /\ x \in Seq(Seq(Formats)) /\ Len(x) = n
    /\ \A i \in 1..n : Len(x[i]) = k

LEMMA ExceptColumn ==
    ASSUME NEW n \in Nat, NEW k \in Nat, NEW x, NestedRows(x, n, k),
           NEW j \in 1..k, NEW g \in [1..n -> Formats]
    PROVE  LET y == ColumnSet(x, n, j, g)
           IN  /\ NestedRows(y, n, k)
               /\ \A a \in 1..n : \A b \in 1..k :
                     y[a][b] = IF b = j THEN g[a] ELSE x[a][b]
<1>0. /\ x \in Seq(Seq(Formats)) /\ Len(x) = n
      /\ \A i \in 1..n : Len(x[i]) = k
  BY DEF NestedRows
<1> DEFINE f == [i \in 1..n |-> [x[i] EXCEPT ![j] = g[i]]]
<1>1. ASSUME NEW a \in 1..n
      PROVE  /\ f[a] \in Seq(Formats) /\ Len(f[a]) = k
             /\ \A b \in 1..k : f[a][b] = IF b = j THEN g[a] ELSE x[a][b]
  <2>1. x[a] \in Seq(Formats) /\ Len(x[a]) = k /\ g[a] \in Formats
    BY <1>0, <1>1, ElementOfSeq
  <2>2. f[a] = [x[a] EXCEPT ![j] = g[a]]
    BY <1>1
  <2> HIDE DEF f
  <2> QED BY <2>1, <2>2, ExceptSeq
<1>2. f \in [1..n -> Seq(Formats)]
  <2>1. \A a \in 1..n : f[a] \in Seq(Formats)
    BY <1>1
  <2> QED BY <2>1
<1> HIDE DEF f
<1>3. SubSeq(f, 1, n) = f /\ f \in Seq(Seq(Formats)) /\ Len(f) = n
  BY <1>2, TupleSeq
<1> DEFINE y == SubSeq(f, 1, n)
<1>4. y = f
  BY <1>3
<1> HIDE DEF y
<1>5. /\ y \in Seq(Seq(Formats)) /\ Len(y) = n
      /\ \A a \in 1..n :
            /\ Len(y[a]) = k
            /\ \A b \in 1..k : y[a][b] = IF b = j THEN g[a] ELSE x[a][b]
  BY Zenon, <1>1, <1>3, <1>4
<1> QED BY Zenon, <1>5 DEF y, f, ColumnSet, NestedRows

\* What a setter of a column makes of a sheet: all of its cells are looked at first.
LEMMA SetColumnMakes ==
    ASSUME NEW u, WellFormed(u), NEW s, NEW v, Legal(s, v),
           s \in ColumnSetters, NEW j \in 1..estimate_num_columns(u)
    PROVE  LET w == SetColumn(u, j, s, v)
           IN  /\ WellFormed(w) /\ Positions(w) = Positions(u)
               /\ w.text = u.text /\ estimate_num_columns(w) = estimate_num_columns(u)
               /\ w.table = u.table
               /\ \A a \in 1..Len(u.text) :
                     /\ w.rows[a] = merge(u.rows[a], u.table)
                     /\ w.cells[a][j] = Set(merge(u.cells[a][j], w.rows[a]), s, v)
                     /\ \A b \in 1..estimate_num_columns(u) :
                           b # j => w.cells[a][b] = u.cells[a][b]
<1> DEFINE n == Len(u.text)
           k == estimate_num_columns(u)
           rows == [i \in 1..n |-> merge(u.rows[i], u.table)]
           g == [i \in 1..n |-> Set(merge(u.cells[i][j], rows[i]), s, v)]
           cells == ColumnSet(u.cells, n, j, g)
           w == [text |-> u.text, table |-> u.table, rows |-> rows, cells |-> cells]
<1>1. /\ n \in Nat /\ k \in Nat /\ Len(u.rows) = n /\ Len(u.cells) = n
      /\ u.cells \in Seq(Seq(Formats)) /\ u.table \in Formats
      /\ \A i \in 1..n : Len(u.cells[i]) = k /\ u.cells[i] \in Seq(Formats)
  BY WellFormedRows
<1>2. ASSUME NEW i \in 1..n
      PROVE  rows[i] \in RowsLooked(u, i) /\ rows[i] \in Formats
  BY <1>2, RowsLookedType DEF RowsLooked
<1>3. SubSeq(rows, 1, n) = rows /\ rows \in Seq(Formats) /\ Len(rows) = n
  <2>1. rows \in [1..n -> Formats]
    BY <1>2
  <2> HIDE DEF rows, n
  <2> QED BY <1>1, <2>1, TupleSeq
<1>4. ASSUME NEW i \in 1..n
      PROVE  /\ u.cells[i][j] \in Formats
             /\ merge(u.cells[i][j], rows[i]) \in Formats
  <2> DEFINE p == <<i, j>>
  <2>1. p \in Positions(u) /\ p[1] = i /\ p[2] = j
    BY <1>4 DEF Positions
  <2>2. u.cells[i][j] \in Formats
    BY <1>1, <1>4, ElementOfSeq
  <2> HIDE DEF p, rows
  <2> QED BY <1>2, <1>4, <2>1, <2>2, CellLooked
<1>5. g \in [1..n -> Formats]
  <2> HIDE DEF rows, n
  <2>1. ASSUME NEW i \in 1..n PROVE g[i] \in Formats
    BY <1>4, <2>1, SetType
  <2> QED BY <2>1
<1>6. /\ cells \in Seq(Seq(Formats)) /\ Len(cells) = n
      /\ \A a \in 1..n :
            /\ Len(cells[a]) = k
            /\ \A b \in 1..k : cells[a][b] = IF b = j THEN g[a] ELSE u.cells[a][b]
  <2>1. NestedRows(u.cells, n, k)
    BY <1>1 DEF NestedRows
  <2>2. j \in 1..k
    OBVIOUS
  <2> HIDE DEF g, n, k
  <2>3. /\ NestedRows(cells, n, k)
        /\ \A a \in 1..n : \A b \in 1..k :
              cells[a][b] = IF b = j THEN g[a] ELSE u.cells[a][b]
    BY <1>1, <1>5, <2>1, <2>2, ExceptColumn
  <2> HIDE DEF cells
  <2> QED BY Zenon, <2>3 DEF NestedRows
<1>7. SetColumn(u, j, s, v) = w
  <2>1. Tuple(Len(u.rows), LAMBDA i : merge(u.rows[i], u.table)) = rows
    BY <1>1, <1>3 DEF Tuple
  <2>2. Tuple(Len(u.cells), LAMBDA i :
            [u.cells[i] EXCEPT ![j] = Set(merge(@, merge(u.rows[i], u.table)), s, v)]) = cells
    <3>1. ASSUME NEW i \in 1..n
          PROVE  [u.cells[i] EXCEPT ![j] = Set(merge(@, merge(u.rows[i], u.table)), s, v)]
                     = [u.cells[i] EXCEPT ![j] = g[i]]
      BY <3>1
    <3> HIDE DEF g
    <3> QED BY <1>1, <3>1 DEF Tuple, ColumnSet
  <2> HIDE DEF rows, cells
  <2> QED BY <2>1, <2>2 DEF SetColumn
<1>8. w.text = u.text /\ w.table = u.table /\ w.rows = rows /\ w.cells = cells
  OBVIOUS
<1>9. WellFormed(w) /\ estimate_num_columns(w) = estimate_num_columns(u)
       /\ Positions(w) = Positions(u)
  <2>1. \A a \in 1..Len(u.text) : Len(cells[a]) = estimate_num_columns(u)
    BY <1>6
  <2>2. \A m \in Defaulted : u.table[m] # NoValue
    BY SMTT(40) DEF WellFormed
  <2> HIDE DEF rows, cells
  <2> QED BY ZenonT(30), <1>1, <1>3, <1>6, <2>1, <2>2, Reformatted
<1>10. ASSUME NEW a \in 1..n
       PROVE  /\ rows[a] = merge(u.rows[a], u.table)
              /\ cells[a][j] = Set(merge(u.cells[a][j], rows[a]), s, v)
              /\ \A b \in 1..k : b # j => cells[a][b] = u.cells[a][b]
  <2>1. rows[a] = merge(u.rows[a], u.table) /\ g[a] = Set(merge(u.cells[a][j], rows[a]), s, v)
    BY <1>10
  <2>2. j \in 1..k
    OBVIOUS
  <2> HIDE DEF rows, g, cells, k, n
  <2> QED BY <1>6, <1>10, <2>1, <2>2
<1> HIDE DEF w, rows, cells
<1> QED BY <1>7, <1>8, <1>9, <1>10

LEMMA SetColumnKeeps ==
    ASSUME NEW u, WellFormed(u), NEW o, Owned(o, u), NEW s, NEW v, Legal(s, v),
           s \in ColumnSetters, NEW j \in 1..estimate_num_columns(u)
    PROVE  LET w  == SetColumn(u, j, s, v)
               oo == Tuple(Len(o), LAMBDA i : [o[i] EXCEPT ![j] = Set(@, s, v)])
           IN  WellFormed(w) /\ Owned(oo, w) /\ w.text = u.text
<1> DEFINE n == Len(u.text)
           k == estimate_num_columns(u)
           c == [i \in 1..n |-> merge(u.cells[i][j], merge(u.rows[i], u.table))]
           h == [i \in 1..n |-> Set(o[i][j], s, v)]
           oo == ColumnSet(o, n, j, h)
           w == SetColumn(u, j, s, v)
<1>1. /\ WellFormed(w) /\ Positions(w) = Positions(u) /\ n \in Nat /\ k \in Nat
      /\ w.text = u.text /\ estimate_num_columns(w) = k
      /\ \A a \in 1..n :
            /\ w.cells[a][j] = Set(c[a], s, v)
            /\ \A b \in 1..k : b # j => w.cells[a][b] = u.cells[a][b]
  <2>1. /\ WellFormed(w) /\ Positions(w) = Positions(u)
        /\ w.text = u.text /\ estimate_num_columns(w) = k
        /\ \A a \in 1..n :
              /\ w.rows[a] = merge(u.rows[a], u.table)
              /\ w.cells[a][j] = Set(merge(u.cells[a][j], w.rows[a]), s, v)
              /\ \A b \in 1..k : b # j => w.cells[a][b] = u.cells[a][b]
    <3> HIDE DEF c, h, oo
    <3> QED BY SMTT(30), SetColumnMakes
  <2> HIDE DEF w
  <2>2. n \in Nat /\ k \in Nat
    BY WellFormedRows
  <2>3. \A a \in 1..n : w.cells[a][j] = Set(c[a], s, v)
    BY <2>1
  <2> QED BY <2>1, <2>2, <2>3
<1> HIDE DEF w
<1>2. ASSUME NEW a \in 1..n
      PROVE  /\ c[a] \in Formats
             /\ \A m \in Members : Keeps(m, u.cells[a][j][m], c[a][m])
  <2> DEFINE p == <<a, j>>
             q == merge(u.rows[a], u.table)
  <2>1. p \in Positions(u) /\ p[1] = a /\ p[2] = j
    BY <1>2 DEF Positions
  <2>2. q \in RowsLooked(u, a) /\ c[a] = merge(u.cells[a][j], q)
    BY <1>2 DEF RowsLooked
  <2> HIDE DEF p, q, c
  <2>3. u.cells[a][j] \in Formats
    BY <2>1, WellFormedCells
  <2> QED BY <2>1, <2>2, <2>3, CellLooked
<1>3. /\ o \in Seq(Seq(Formats)) /\ Len(o) = n
      /\ \A a \in 1..n : Len(o[a]) = k /\ o[a] \in Seq(Formats)
  BY ElementOfSeq DEF Owned
<1>4. ASSUME NEW i \in 1..n
      PROVE  h[i] \in Formats
  <2>1. o[i][j] \in Formats
    BY <1>1, <1>3, <1>4, ElementOfSeq
  <2>2. h[i] = Set(o[i][j], s, v)
    BY <1>4
  <2> HIDE DEF h
  <2> QED BY <2>1, <2>2, SetType
<1>5. /\ oo \in Seq(Seq(Formats)) /\ Len(oo) = n
      /\ \A a \in 1..n :
            /\ Len(oo[a]) = k
            /\ \A b \in 1..k : oo[a][b] = IF b = j THEN h[a] ELSE o[a][b]
  <2>1. h \in [1..n -> Formats]
    BY <1>4
  <2>2. NestedRows(o, n, k)
    BY <1>3 DEF NestedRows
  <2>3. j \in 1..k
    OBVIOUS
  <2> HIDE DEF h, n, k
  <2>4. /\ NestedRows(oo, n, k)
        /\ \A a \in 1..n : \A b \in 1..k : oo[a][b] = IF b = j THEN h[a] ELSE o[a][b]
    BY <1>1, <2>1, <2>2, <2>3, ExceptColumn
  <2> HIDE DEF oo
  <2> QED BY Zenon, <2>4 DEF NestedRows
<1>6. Tuple(Len(o), LAMBDA i : [o[i] EXCEPT ![j] = Set(@, s, v)]) = oo
  <2>1. ASSUME NEW i \in 1..n
        PROVE  [o[i] EXCEPT ![j] = Set(@, s, v)] = [o[i] EXCEPT ![j] = h[i]]
    BY <2>1
  <2> HIDE DEF h
  <2> QED BY <1>3, <2>1 DEF Tuple, ColumnSet
<1>7. ASSUME NEW p \in Positions(u), NEW m \in Members
      PROVE  Keeps(m, oo[p[1]][p[2]][m], w.cells[p[1]][p[2]][m])
  <2>1. p[1] \in 1..n /\ p[2] \in 1..k
    BY <1>7, WellFormedCells
  <2>2. Keeps(m, o[p[1]][p[2]][m], u.cells[p[1]][p[2]][m])
    BY <1>7 DEF Owned
  <2>3. CASE p[2] = j
    <3>1. c[p[1]] \in Formats /\ Keeps(m, u.cells[p[1]][j][m], c[p[1]][m])
      BY <1>2, <1>7, <2>1
    <3>2. h[p[1]] = Set(o[p[1]][j], s, v)
      BY <2>1
    <3> HIDE DEF oo, h, c, n, k
    <3>3. Keeps(m, o[p[1]][j][m], c[p[1]][m])
      BY <2>2, <2>3, <3>1, KeepsTransitive
    <3>4. Keeps(m, h[p[1]][m], Set(c[p[1]], s, v)[m])
      BY <3>1, <3>2, <3>3, <1>7, SetKeeps
    <3>5. oo[p[1]][p[2]] = h[p[1]] /\ w.cells[p[1]][p[2]] = Set(c[p[1]], s, v)
      BY ZenonT(30), <1>1, <1>5, <2>1, <2>3
    <3> QED BY <3>4, <3>5
  <2>4. CASE p[2] # j
    <3> HIDE DEF oo, h, c, n, k
    <3>1. oo[p[1]][p[2]] = o[p[1]][p[2]] /\ w.cells[p[1]][p[2]] = u.cells[p[1]][p[2]]
      BY <1>1, <1>5, <2>1, <2>4
    <3> QED BY <2>2, <3>1
  <2> QED BY <2>3, <2>4
<1>8. Owned(oo, w)
  <2>1. oo \in Seq(Seq(Formats)) /\ Len(oo) = Len(w.text)
        /\ \A a \in 1..Len(w.text) : Len(oo[a]) = estimate_num_columns(w)
    <3> HIDE DEF oo
    <3> QED BY <1>1, <1>5
  <2> HIDE DEF oo, c, h
  <2> QED BY <1>1, <1>7, <2>1 DEF Owned
<1> HIDE DEF oo
<1> QED BY <1>1, <1>6, <1>8 DEF w

LEMMA AddRowKeeps ==
    ASSUME NEW u, WellFormed(u), NEW o, Owned(o, u), NEW texts \in Seq(Texts),
           u.text # << >> => Len(texts) <= estimate_num_columns(u)
    PROVE  LET w == add_row(u, texts)
           IN  /\ WellFormed(w)
               /\ Owned(Append(o, Tuple(Len(Last(w.text)), LAMBDA j : Format)), w)
               /\ Len(w.text) = Len(u.text) + 1
               /\ estimate_num_columns(w) = IF u.text = << >> THEN Len(texts)
                                            ELSE estimate_num_columns(u)
<1> DEFINE n == Len(u.text)
           k == estimate_num_columns(u)
           size == IF Len(texts) < k THEN k ELSE Len(texts)
           f == [j \in 1..size |-> IF j <= Len(texts) THEN texts[j] ELSE << >>]
           line == SubSeq(f, 1, size)
           blank == SubSeq([j \in 1..size |-> Format], 1, size)
           text == Append(u.text, line)
           rows == Append(u.rows, Format)
           cells == Append(u.cells, blank)
           oo == Append(o, blank)
           w == [text |-> text, table |-> u.table, rows |-> rows, cells |-> cells]
<1>1. /\ n \in Nat /\ k \in Nat /\ Len(u.rows) = n /\ Len(u.cells) = n
      /\ u.text \in Seq(Seq(Texts)) /\ u.cells \in Seq(Seq(Formats))
      /\ u.rows \in Seq(Formats) /\ u.table \in Formats
      /\ \A i \in 1..n : Len(u.cells[i]) = k /\ Len(u.text[i]) = k
  BY WellFormedRows
<1>2. Len(texts) \in Nat /\ size \in Nat
  <2>1. Len(texts) \in Nat
    BY LenProperties
  <2> HIDE DEF k
  <2> QED BY <1>1, <2>1
<1>3. u.text = << >> => n = 0 /\ size = Len(texts)
  <2>1. u.text = << >> => n = 0 /\ k = 0
    BY DEF estimate_num_columns
  <2> HIDE DEF n, k
  <2> QED BY <1>2, <2>1
<1>4. u.text # << >> => n > 0 /\ size = k
  <2>1. u.text # << >> => n # 0
    BY <1>1, EmptySeq
  <2>2. u.text # << >> => Len(texts) <= k
    OBVIOUS
  <2> HIDE DEF n, k
  <2> QED BY <1>1, <1>2, <2>1, <2>2
<1>5. line \in Seq(Texts) /\ Len(line) = size
  <2>1. ASSUME NEW j \in 1..size PROVE f[j] \in Texts
    <3>1. CASE j <= Len(texts)
      <4>1. f[j] = texts[j]
        BY <3>1, <2>1
      <4>2. j \in 1..Len(texts)
        <5> HIDE DEF size
        <5> QED BY <1>2, <3>1, <2>1
      <4> QED BY <4>1, <4>2, ElementOfSeq
    <3>2. CASE ~(j <= Len(texts))
      <4>1. f[j] = << >>
        BY <3>2, <2>1
      <4> QED BY <4>1, EmptySeq DEF Texts
    <3> QED BY <3>1, <3>2
  <2>2. f \in [1..size -> Texts]
    <3> HIDE DEF size
    <3> QED BY <2>1
  <2> HIDE DEF f, size
  <2> QED BY <1>2, <2>2, TupleSeq
<1>6. blank \in Seq(Formats) /\ Len(blank) = size /\ \A j \in 1..size : blank[j] = Format
  <2> DEFINE z == [j \in 1..size |-> Format]
  <2>1. z \in [1..size -> Formats]
    BY EmptyFormat
  <2>2. \A j \in 1..size : z[j] = Format
    OBVIOUS
  <2> HIDE DEF size, z
  <2>3. SubSeq(z, 1, size) = z /\ z \in Seq(Formats) /\ Len(z) = size
    BY <1>2, <2>1, TupleSeq
  <2>4. blank = SubSeq(z, 1, size)
    BY DEF z
  <2> HIDE DEF blank
  <2> QED BY <2>2, <2>3, <2>4
<1> HIDE DEF size, f, line, blank
<1>7. /\ text \in Seq(Seq(Texts)) /\ Len(text) = n + 1 /\ text # << >>
      /\ \A i \in 1..n : text[i] = u.text[i]
      /\ text[n + 1] = line
  <2> DEFINE S == Seq(Texts)
  <2>1. u.text \in Seq(S) /\ line \in S
    BY <1>1, <1>5
  <2> HIDE DEF S
  <2>2. text \in Seq(S) /\ Len(text) = n + 1
    BY <2>1, AppendProperties
  <2>4. text # << >>
    <3>1. Len(text) # 0
      <4> HIDE DEF text, n
      <4> QED BY <1>1, <2>2
    <3> HIDE DEF text
    <3> QED BY <3>1
  <2>3. (\A i \in 1..n : text[i] = u.text[i]) /\ text[n + 1] = line
    BY <2>1, AppendProperties
  <2> HIDE DEF text
  <2> QED BY <2>2, <2>3, <2>4 DEF S
<1>8. rows \in Seq(Formats) /\ Len(rows) = n + 1
  BY <1>1, EmptyFormat, AppendProperties
<1>9. /\ cells \in Seq(Seq(Formats)) /\ Len(cells) = n + 1
      /\ \A i \in 1..n : cells[i] = u.cells[i]
      /\ cells[n + 1] = blank
  <2> DEFINE S == Seq(Formats)
  <2>1. u.cells \in Seq(S) /\ blank \in S /\ Len(u.cells) = n
    BY <1>1, <1>6
  <2> HIDE DEF S, n, k
  <2> QED BY <2>1, AppendProperties DEF S
<1>10. o \in Seq(Seq(Formats)) /\ Len(o) = n /\ \A i \in 1..n : Len(o[i]) = k
  BY DEF Owned
<1>11. /\ oo \in Seq(Seq(Formats)) /\ Len(oo) = n + 1
       /\ \A i \in 1..n : oo[i] = o[i]
       /\ oo[n + 1] = blank
  <2>1. Len(o) + 1 = n + 1 /\ 1..Len(o) = 1..n
    BY <1>10
  <2> HIDE DEF n
  <2> QED BY <1>6, <1>10, <2>1, AppendProperties
<1>12. w.text = text /\ w.table = u.table /\ w.rows = rows /\ w.cells = cells
  OBVIOUS
<1>13. w \in Sheets
  <2> HIDE DEF text, rows, cells
  <2> QED BY <1>1, <1>7, <1>8, <1>9 DEF Sheets
<1>14. add_row(u, texts) = w
  <2>1. Tuple(size, LAMBDA j : IF j <= Len(texts) THEN texts[j] ELSE << >>) = line
    BY DEF Tuple, line, f
  <2>2. Tuple(size, LAMBDA j : Format) = blank
    BY DEF Tuple, blank
  <2>3. add_row(u, texts) =
            AppendRow(u, Tuple(size, LAMBDA j : IF j <= Len(texts) THEN texts[j] ELSE << >>))
    BY Zenon DEF add_row, size
  <2>4. add_row(u, texts) = AppendRow(u, line)
    BY Zenon, <2>1, <2>3
  <2>5. AppendRow(u, line) =
            [text |-> Append(u.text, line), table |-> u.table, rows |-> Append(u.rows, Format),
             cells |-> Append(u.cells, Tuple(Len(line), LAMBDA j : Format))]
    BY DEF AppendRow
  <2>6. Len(line) = size
    BY <1>5
  <2> QED BY <2>2, <2>4, <2>5, <2>6
<1> HIDE DEF w
<1>15. estimate_num_columns(w) = size
  <2>1. estimate_num_columns(w) = Len(text[1])
    BY <1>7, <1>12 DEF estimate_num_columns
  <2>2. CASE u.text = << >>
    <3> HIDE DEF text, n
    <3> QED BY <1>3, <1>5, <1>7, <2>1, <2>2
  <2>3. CASE u.text # << >>
    <3>1. 1 \in 1..n
      <4> HIDE DEF n
      <4> QED BY <1>1, <1>4, <2>3
    <3> HIDE DEF text, n, k
    <3> QED BY <1>1, <1>4, <1>7, <2>1, <2>3, <3>1
  <2> QED BY <2>2, <2>3
<1>16. ASSUME NEW i \in 1..n + 1
       PROVE  /\ Len(text[i]) = size /\ Len(cells[i]) = size /\ Len(oo[i]) = size
              /\ i # n + 1 => i \in 1..n /\ size = k
              /\ i = n + 1 => cells[i] = blank /\ oo[i] = blank
  <2>1. CASE i = n + 1
    <3> HIDE DEF text, cells, oo, n, k
    <3> QED BY <1>1, <1>5, <1>6, <1>7, <1>9, <1>11, <2>1
  <2>2. CASE i # n + 1
    <3>1. i \in 1..n /\ n > 0
      <4> HIDE DEF n
      <4> QED BY <1>1, <1>16, <2>2
    <3>2. size = k
      <4> HIDE DEF n, k
      <4> QED BY <1>3, <1>4, <3>1
    <3> HIDE DEF text, cells, oo, n, k
    <3> QED BY <1>1, <1>7, <1>9, <1>10, <1>11, <2>2, <3>1, <3>2
  <2> QED BY <2>1, <2>2
<1>17. WellFormed(w)
  <2>1. \A m \in Defaulted : w.table[m] # NoValue
    BY <1>12 DEF WellFormed
  <2> HIDE DEF text, rows, cells, n
  <2> QED BY <1>7, <1>8, <1>9, <1>12, <1>13, <1>15, <1>16, <2>1 DEF WellFormed
<1>18. ASSUME NEW p \in Positions(w), NEW m \in Members
       PROVE  Keeps(m, oo[p[1]][p[2]][m], cells[p[1]][p[2]][m])
  <2>1. p[1] \in 1..n + 1 /\ p[2] \in 1..size
    <3>1. p[1] \in 1..Len(w.text) /\ p[2] \in 1..estimate_num_columns(w)
      BY <1>17, <1>18, WellFormedCells
    <3> HIDE DEF text, n
    <3> QED BY <1>7, <1>12, <1>15, <3>1
  <2>2. CASE p[1] = n + 1
    <3>1. oo[p[1]][p[2]] = Format
      <4> HIDE DEF oo, n
      <4> QED BY <1>6, <1>16, <2>1, <2>2
    <3>2. Format[m] = NoValue
      BY DEF Format
    <3> QED BY <3>1, <3>2 DEF Keeps
  <2>3. CASE p[1] # n + 1
    <3>1. p[1] \in 1..n /\ size = k
      <4> HIDE DEF oo, text, cells, n, k
      <4> QED BY <1>16, <2>1, <2>3
    <3> DEFINE a == p[1]
               b == p[2]
               q == <<a, b>>
    <3>2. a \in 1..n /\ b \in 1..k /\ q \in Positions(u) /\ q[1] = a /\ q[2] = b
      BY <2>1, <3>1 DEF Positions
    <3> HIDE DEF a, b, q
    <3>3. Keeps(m, o[a][b][m], u.cells[a][b][m])
      BY <1>18, <3>2 DEF Owned
    <3> HIDE DEF oo, cells, n, k
    <3>4. oo[a] = o[a] /\ cells[a] = u.cells[a]
      BY <1>9, <1>11, <3>2
    <3> QED BY <3>3, <3>4 DEF a, b
  <2> QED BY <2>2, <2>3
<1>19. Owned(oo, w)
  <2> HIDE DEF oo, text, cells, n
  <2> QED BY <1>7, <1>11, <1>12, <1>15, <1>16, <1>18 DEF Owned
<1>20. Tuple(Len(Last(w.text)), LAMBDA j : Format) = blank
  <2>1. Last(w.text) = line
    <3> HIDE DEF text, n
    <3> QED BY <1>7, <1>12 DEF Last
  <2> QED BY <1>5, <2>1 DEF Tuple, blank
<1>21. Owned(Append(o, Tuple(Len(Last(w.text)), LAMBDA j : Format)), w)
  BY <1>19, <1>20
<1>22. Len(w.text) = Len(u.text) + 1
  BY <1>7, <1>12
<1>23. estimate_num_columns(w) = IF u.text = << >> THEN Len(texts) ELSE estimate_num_columns(u)
  BY <1>3, <1>4, <1>15
<1> QED BY <1>14, <1>17, <1>21, <1>22, <1>23

----------------------------------------------------------------------------
(* The steps of the program. With one exporter for all dumps the restoring   *)
(* of the formats is wrong, as a run shows: the theorems are about programs  *)
(* that take a new exporter for every dump.                                  *)

Kinds == Exports \cup {"none", "e2"} \cup Hung

\* The inductive invariant: the parts of the table fit together, every cell still
\* has what has been set on it, however much has been merged into its format, the
\* first row is as long as the program makes it, and an exporter starts with no
\* formats kept.
IInv ==
    /\ prog \in DOMAIN Programs
    /\ steps \in 0..Program.steps
    /\ out.kind \in Kinds
    /\ formats = << >>
    /\ WellFormed(t)
    /\ Owned(own, t)
    /\ t.text # << >> => estimate_num_columns(t) = Len(Program.rows[1])

LEMMA DefaultsTyped ==
    ASSUME NEW m \in TypedMembers
    PROVE  set_defaults[m] \in TypeOf(m) \cup {NoValue}
<1>1. set_defaults[m] = Default(m)
  BY TypedAreMembers DEF set_defaults
<1>2. CASE m \in Sizes
  <2>1. Default(m) \in {NoValue, 0, 1}
    BY <1>2 DEF Sizes, SizeMembers, PaddingMembers, Default, CornerTexts, ShowMembers
  <2> QED BY <1>1, <1>2, <2>1, TypeOfMember
<1>3. CASE m = "font_align"
  BY <1>1, <1>3, TypeOfMember DEF Default, SizeMembers, CornerTexts, ShowMembers, FontAlign
<1>4. CASE m \in ColorMembers
  <2>1. Default(m) = "none"
    <3>1. /\ m \notin SizeMembers /\ m # "font_align" /\ m \notin {"padding_left", "padding_right"}
          /\ m \notin {"padding_top", "padding_bottom"} /\ m \notin {"border_top", "border_bottom"}
          /\ m \notin {"border_left", "border_right", "column_separator"}
      BY <1>4, TypeOfMember DEF Sizes, SizeMembers, PaddingMembers, TextMembers, BorderTexts
    <3>2. m \notin CornerTexts
      BY <1>4, TypeOfMember DEF TextMembers
    <3>3. /\ m \notin ShowMembers \cup {"show_column_separator"}
          /\ m \notin {"multi_byte_characters", "show_row_separator"}
          /\ m # "locale" /\ m # "trim_mode"
      BY <1>4 DEF ColorMembers, BorderColors, BorderBackgrounds, CornerColors, CornerBackgrounds,
                  ShowMembers
    <3> QED BY <3>1, <3>2, <3>3, Zenon DEF Default
  <2> QED BY <1>1, <1>4, <2>1, TypeOfMember DEF Color
<1>5. CASE m \in TextMembers
  <2>1. Default(m) \in {<<"-">>, <<"|">>, <<"+">>}
    BY <1>5 DEF TextMembers, BorderTexts, Default, SizeMembers, CornerTexts, ShowMembers
  <2>2. Default(m) \in BorderValues
    BY <2>1, Zenon DEF BorderValues
  <2> QED BY <1>1, <1>5, <2>2, TypeOfMember
<1> QED BY <1>2, <1>3, <1>4, <1>5 DEF TypedMembers

LEMMA DefaultsType ==
    set_defaults \in Formats /\ \A m \in Defaulted : set_defaults[m] # NoValue
<1>1. set_defaults \in [Members -> Values]
  <2>1. ASSUME NEW m \in Members PROVE set_defaults[m] \in Values
    BY <2>1, Zenon DEF Values
  <2>2. set_defaults = [m \in Members |-> set_defaults[m]]
    BY DEF set_defaults
  <2> QED BY <2>1, <2>2
<1>2. set_defaults["font_style"] = {}
  BY FontStyleIsMember DEF set_defaults
<1>3. {} \in StyleValues
  BY DEF StyleValues
<1>4. ASSUME NEW m \in TypedMembers PROVE set_defaults[m] \in TypeOf(m) \cup {NoValue}
  BY DefaultsTyped
<1> QED BY <1>1, <1>2, <1>3, <1>4, NoValueAssumption, FormatType DEF Typed

LEMMA CreateKeeps == WellFormed(create) /\ Owned(<< >>, create) /\ create.text = << >>
<1>1. create = [text |-> << >>, table |-> set_defaults, rows |-> << >>, cells |-> << >>]
  BY DEF create
<1>2. create.text = << >> /\ create.table = set_defaults /\ create.rows = << >>
      /\ create.cells = << >>
  BY <1>1
<1>3. create \in Sheets
  BY <1>1, DefaultsType, EmptySeq DEF Sheets
<1>4. Len(<< >>) = 0
  BY EmptySeq
<1>5. WellFormed(create)
  BY <1>2, <1>3, <1>4, DefaultsType DEF WellFormed
<1>6. Positions(create) = {}
  BY <1>2, <1>4 DEF Positions
<1> QED BY <1>2, <1>4, <1>5, <1>6, EmptySeq DEF Owned

\* Every call of a setter the program makes has a value for it.
LEMMA CallsLegal ==
    ASSUME NEW p \in DOMAIN Programs, NEW k \in DOMAIN Programs[p].calls
    PROVE  Legal(Programs[p].calls[k].setter, Programs[p].calls[k].value)
<1> DEFINE c == Programs[p].calls[k]
<1>1. /\ c.setter \in DOMAIN Setters \cup {"font_style"} /\ c.value # NoValue
      /\ c.setter \in DOMAIN SizeSetters => c.value \in Nat
      /\ c.setter = "font_align" => c.value \in FontAlign
      /\ c.setter = "font_style" => c.value \in SUBSET FontStyle
      /\ c.setter \in ColorSetters => c.value \in Color
  BY ProgramsAssumption
<1>2. c.value \in Values
  <2> DEFINE called(r) == {Programs[r].calls[h].value : h \in DOMAIN Programs[r].calls}
  <2>1. c.value \in called(p)
    OBVIOUS
  <2>2. called(p) \in {called(r) : r \in DOMAIN Programs}
    OBVIOUS
  <2>3. Values = {NoValue, TRUE, FALSE} \cup {set_defaults[m] : m \in Members}
                     \cup (SUBSET FontStyle) \cup FontAlign \cup {<<"EM DASH">>}
                     \cup UNION {called(r) : r \in DOMAIN Programs}
    BY DEF Values
  <2> HIDE DEF called, c
  <2> QED BY Zenon, <2>1, <2>2, <2>3
<1>3. c.setter \in TextSetters => c.value \in BorderValues
  <2> DEFINE bordering(r) == {Programs[r].calls[h].value :
                                 h \in {h \in DOMAIN Programs[r].calls :
                                          Programs[r].calls[h].setter \in TextSetters}}
  <2>1. c.setter \in TextSetters => c.value \in bordering(p)
    OBVIOUS
  <2>2. bordering(p) \in {bordering(r) : r \in DOMAIN Programs}
    OBVIOUS
  <2>3. BorderValues = {<<"-">>, <<"|">>, <<"+">>, << >>, <<"EM DASH">>}
                           \cup UNION {bordering(r) : r \in DOMAIN Programs}
    BY DEF BorderValues, Borders
  <2> HIDE DEF bordering, c
  <2> QED BY Zenon, <2>1, <2>2, <2>3
<1> HIDE DEF c
<1>4. ASSUME c.setter \in DOMAIN Setters, NEW m \in TypedMembers, m \in Setters[c.setter]
      PROVE  c.value \in TypeOf(m)
  <2>1. /\ m = "font_align" => c.setter = "font_align"
        /\ m \in Sizes => c.setter \in DOMAIN SizeSetters
        /\ m \in ColorMembers => Setters[c.setter] \subseteq ColorMembers
        /\ m \in TextMembers => Setters[c.setter] \subseteq TextMembers
    BY <1>4, SettersProper DEF Proper
  <2>2. CASE m = "font_align"
    BY <1>1, <2>1, <2>2, TypeOfMember
  <2>3. CASE m \in Sizes
    BY <1>1, <2>1, <2>3, TypeOfMember
  <2>4. CASE m \in ColorMembers
    BY <1>1, <1>4, <2>1, <2>4, TypeOfMember DEF ColorSetters
  <2>5. CASE m \in TextMembers
    BY <1>3, <1>4, <2>1, <2>5, TypeOfMember DEF TextSetters
  <2> QED BY <2>2, <2>3, <2>4, <2>5 DEF TypedMembers
<1>5. Legal(c.setter, c.value)
  BY <1>1, <1>2, <1>4 DEF Legal
<1> QED BY <1>5 DEF c

LEMMA StepCounted ==
    ASSUME IInv, NextCall
    PROVE  prog' = prog /\ Program' = Program /\ steps' \in 0..Program.steps
<1>1. Program.steps \in Nat
  BY ProgramsAssumption DEF IInv, Program
<1>2. steps' = steps + 1 /\ steps < Program.steps /\ prog' = prog /\ steps \in 0..Program.steps
  BY DEF NextCall, IInv
<1>3. steps' \in 0..Program.steps
  BY <1>1, <1>2
<1> QED BY <1>2, <1>3 DEF Program

\* What writes the table only looks at it.
LEMMA Writes ==
    ASSUME ~OneExporter, IInv,
           PrintTable \/ Str \/ Shape \/ DumpMarkdown \/ DumpAsciiDoc \/ DumpLatex
    PROVE  /\ Looked(t, t') /\ own' = own /\ formats' = << >>
           /\ out'.kind \in Exports /\ NextCall
<1>1. WellFormed(t) /\ formats = << >>
  BY DEF IInv
<1>2. \A kind, text : Written(kind, text).kind = kind
  BY DEF Written
<1>3. CASE PrintTable
  BY <1>1, <1>2, <1>3, SettledLooks DEF PrintTable, Exports
<1>4. CASE Str
  BY <1>1, <1>2, <1>4, SettledLooks DEF Str, Exports
<1>8. CASE Shape
  BY <1>1, <1>8, SettledLooks DEF Shape, Exports
<1>5. CASE DumpMarkdown
  BY <1>1, <1>2, <1>5, MarkdownLooks DEF DumpMarkdown, Exportable, Exports
<1>6. CASE DumpAsciiDoc
  BY <1>1, <1>2, <1>6, AsciiDocLooks DEF DumpAsciiDoc, Exports
<1>7. CASE DumpLatex
  BY <1>1, <1>2, <1>7, LatexLooks DEF DumpLatex, Exports
<1> QED BY <1>3, <1>4, <1>5, <1>6, <1>7, <1>8

\* The invariant only depends on what Looked keeps.
LEMMA LooksKeep ==
    ASSUME IInv, Looked(t, t'), own' = own, formats' = << >>, prog' = prog,
           steps' \in 0..Program.steps, out'.kind \in Kinds
    PROVE  IInv'
<1>1. WellFormed(t') /\ Owned(own', t')
  BY OwnedLooked DEF IInv, Looked
<1>2. t'.text = t.text /\ estimate_num_columns(t') = estimate_num_columns(t)
  BY DEF Looked, estimate_num_columns
<1>3. Program' = Program
  BY DEF Program
<1> QED BY <1>1, <1>2, <1>3 DEF IInv

LEMMA Unlooked ==
    ASSUME NEW u, WellFormed(u)
    PROVE  Looked(u, u)
BY DEF Looked, Keeps

LEMMA AddRowStep == ASSUME IInv, AddRow PROVE IInv'
<1> DEFINE texts == Program.rows[Len(t.text) + 1]
           u == add_row(t, texts)
<1>1. /\ Program.rows \in Seq(Seq(Seq(Letter)))
      /\ \A r \in DOMAIN Program.rows : Len(Program.rows[r]) <= Len(Program.rows[1])
  BY ProgramsAssumption DEF IInv, Program
<1>2. Len(t.text) \in Nat /\ Len(t.text) < Len(Program.rows)
  BY WellFormedRows DEF IInv, AddRow
<1>3. Len(t.text) + 1 \in DOMAIN Program.rows /\ Len(t.text) + 1 \in 1..Len(Program.rows)
  BY <1>1, <1>2, LenProperties
<1>4. texts \in Seq(Texts) /\ Len(texts) <= Len(Program.rows[1])
  <2> DEFINE S == Seq(Letter)
  <2>1. Seq(Letter) \subseteq Texts
    BY Widened DEF Texts, Characters, Letter
  <2>2. texts \in Seq(Seq(Letter)) /\ Len(texts) <= Len(Program.rows[1])
    BY <1>1, <1>3, ElementOfSeq
  <2>3. texts \in Seq(S) /\ S \subseteq Texts
    BY <2>1, <2>2
  <2> HIDE DEF S
  <2> QED BY <2>2, <2>3, Widened
<1>5. t.text = << >> => texts = Program.rows[1]
  BY EmptySeq
<1>6. /\ t' = u
      /\ own' = Append(own, Tuple(Len(Last(u.text)), LAMBDA j : Format))
      /\ out' = Nothing /\ prog' = prog /\ formats' = formats /\ steps' = steps
  BY DEF AddRow
<1> HIDE DEF texts
<1>7. t.text # << >> => Len(texts) <= estimate_num_columns(t)
  BY <1>4 DEF IInv
<1>8. /\ WellFormed(u)
      /\ Owned(Append(own, Tuple(Len(Last(u.text)), LAMBDA j : Format)), u)
      /\ estimate_num_columns(u) = IF t.text = << >> THEN Len(texts)
                                    ELSE estimate_num_columns(t)
  BY <1>4, <1>7, AddRowKeeps DEF IInv
<1> HIDE DEF u
<1>9. estimate_num_columns(u) = Len(Program.rows[1])
  BY <1>5, <1>8 DEF IInv
<1>10. out'.kind \in Kinds
  BY <1>6 DEF Nothing, Kinds
<1>11. Program' = Program
  BY <1>6 DEF Program
<1> QED BY <1>6, <1>8, <1>9, <1>10, <1>11 DEF IInv

\* A setter leaves the texts alone.
LEMMA SetStep ==
    ASSUME IInv, NextCall, out' = Nothing, formats' = formats,
           WellFormed(t'), Owned(own', t'), t'.text = t.text
    PROVE  IInv'
<1>1. estimate_num_columns(t') = estimate_num_columns(t)
  BY DEF estimate_num_columns
<1>2. out'.kind \in Kinds
  BY DEF Nothing, Kinds
<1> QED BY <1>1, <1>2, StepCounted DEF IInv

LEMMA SetTableStep == ASSUME IInv, SetTableFormat PROVE IInv'
<1>1. PICK k \in DOMAIN Program.calls :
          t' = SetTable(t, Program.calls[k].setter, Program.calls[k].value)
  BY DEF SetTableFormat
<1>2. Legal(Program.calls[k].setter, Program.calls[k].value)
  BY <1>1, CallsLegal DEF IInv, Program
<1>3. WellFormed(t') /\ Owned(own, t') /\ t'.text = t.text
  BY <1>1, <1>2, SetTableKeeps DEF IInv
<1> QED BY <1>3, SetStep DEF SetTableFormat

LEMMA SetRowStep == ASSUME IInv, SetRowFormat PROVE IInv'
<1>1. PICK k \in DOMAIN Program.calls :
          /\ Program.calls[k].i \in DOMAIN t.rows
          /\ t' = SetRow(t, Program.calls[k].i, Program.calls[k].setter, Program.calls[k].value)
  BY DEF SetRowFormat
<1>2. Legal(Program.calls[k].setter, Program.calls[k].value)
  BY <1>1, CallsLegal DEF IInv, Program
<1>3. DOMAIN t.rows = 1..Len(t.text)
  BY WellFormedRows, LenProperties DEF IInv
<1>4. WellFormed(t') /\ Owned(own, t') /\ t'.text = t.text
  BY SMTT(40), <1>1, <1>2, <1>3, SetRowKeeps DEF IInv
<1> QED BY <1>4, SetStep DEF SetRowFormat

LEMMA SetCellStep == ASSUME IInv, SetCellFormat PROVE IInv'
<1>1. PICK k \in DOMAIN Program.calls :
          LET c == Program.calls[k]
          IN  /\ c.i \in DOMAIN t.cells
              /\ c.j \in DOMAIN t.cells[c.i]
              /\ t' = SetCell(t, c.i, c.j, c.setter, c.value)
              /\ own' = [own EXCEPT ![c.i][c.j] = Set(@, c.setter, c.value)]
  BY Zenon DEF SetCellFormat
<1> DEFINE c == Program.calls[k]
<1>2. Legal(c.setter, c.value)
  BY <1>1, CallsLegal DEF IInv, Program
<1>3. DOMAIN t.cells = 1..Len(t.text)
      /\ \A i \in 1..Len(t.text) : DOMAIN t.cells[i] = 1..estimate_num_columns(t)
  BY WellFormedRows, LenProperties DEF IInv
<1> HIDE DEF c
<1>4. c.i \in 1..Len(t.text) /\ c.j \in 1..estimate_num_columns(t)
  BY <1>1, <1>3 DEF c
<1>5. t' = SetCell(t, c.i, c.j, c.setter, c.value)
      /\ own' = [own EXCEPT ![c.i][c.j] = Set(@, c.setter, c.value)]
  BY <1>1 DEF c
<1>6. WellFormed(t') /\ Owned(own', t') /\ t'.text = t.text
  <2> DEFINE i == c.i
             j == c.j
             s == c.setter
             v == c.value
  <2>1. i \in 1..Len(t.text) /\ j \in 1..estimate_num_columns(t) /\ Legal(s, v)
    BY <1>2, <1>4
  <2>2. t' = SetCell(t, i, j, s, v) /\ own' = [own EXCEPT ![i][j] = Set(@, s, v)]
    BY <1>5
  <2>3. WellFormed(t) /\ Owned(own, t)
    BY DEF IInv
  <2> HIDE DEF i, j, s, v
  <2>4. WellFormed(SetCell(t, i, j, s, v)) /\ SetCell(t, i, j, s, v).text = t.text
        /\ Owned([own EXCEPT ![i][j] = Set(@, s, v)], SetCell(t, i, j, s, v))
    BY <2>1, <2>3, SetCellKeeps
  <2> QED BY <2>2, <2>4
<1> QED BY ZenonT(30), <1>6, SetStep DEF SetCellFormat

LEMMA SetColumnStep == ASSUME IInv, SetColumnFormat PROVE IInv'
<1>1. PICK k \in DOMAIN Program.calls :
          LET c == Program.calls[k]
          IN  /\ c.j \in 1..estimate_num_columns(t)
              /\ t' = SetColumn(t, c.j, c.setter, c.value)
              /\ own' = IF c.setter \notin ColumnSetters THEN own
                        ELSE Tuple(Len(own), LAMBDA i :
                                 [own[i] EXCEPT ![c.j] = Set(@, c.setter, c.value)])
  BY DEF SetColumnFormat
<1> DEFINE c == Program.calls[k]
<1>2. Legal(c.setter, c.value)
  BY <1>1, CallsLegal DEF IInv, Program
<1>3. /\ c.j \in 1..estimate_num_columns(t)
      /\ t' = SetColumn(t, c.j, c.setter, c.value)
      /\ own' = IF c.setter \notin ColumnSetters THEN own
                ELSE Tuple(Len(own), LAMBDA i :
                         [own[i] EXCEPT ![c.j] = Set(@, c.setter, c.value)])
  BY <1>1
<1> HIDE DEF c
<1>4. CASE c.setter \notin ColumnSetters
  <2>1. t' = t /\ own' = own
    BY <1>3, <1>4 DEF SetColumn
  <2> QED BY <2>1, SetStep DEF SetColumnFormat, IInv
<1>5. CASE c.setter \in ColumnSetters
  <2>1. own' = Tuple(Len(own), LAMBDA i : [own[i] EXCEPT ![c.j] = Set(@, c.setter, c.value)])
    BY <1>3, <1>5
  <2>2. WellFormed(t') /\ Owned(own', t') /\ t'.text = t.text
    <3> DEFINE j == c.j
               s == c.setter
               v == c.value
               oo == Tuple(Len(own), LAMBDA i : [own[i] EXCEPT ![j] = Set(@, s, v)])
    <3>1. j \in 1..estimate_num_columns(t) /\ Legal(s, v) /\ s \in ColumnSetters
      BY <1>2, <1>3, <1>5
    <3>2. t' = SetColumn(t, j, s, v) /\ own' = oo
      BY <1>3, <2>1
    <3>3. WellFormed(t) /\ Owned(own, t)
      BY DEF IInv
    <3> HIDE DEF j, s, v
    <3>4. WellFormed(SetColumn(t, j, s, v)) /\ SetColumn(t, j, s, v).text = t.text
          /\ Owned(oo, SetColumn(t, j, s, v))
      BY <3>1, <3>3, SetColumnKeeps
    <3> HIDE DEF oo
    <3> QED BY <3>2, <3>4
  <2> QED BY <2>2, SetStep DEF SetColumnFormat
<1> QED BY <1>4, <1>5

LEMMA WriteStep ==
    ASSUME ~OneExporter, IInv,
           PrintTable \/ Str \/ Shape \/ DumpMarkdown \/ DumpAsciiDoc \/ DumpLatex
    PROVE  IInv'
<1>1. /\ Looked(t, t') /\ own' = own /\ formats' = << >>
      /\ out'.kind \in Exports /\ NextCall
  BY Writes
<1>2. prog' = prog /\ steps' \in 0..Program.steps
  BY <1>1, StepCounted
<1>3. out'.kind \in Kinds
  BY <1>1 DEF Kinds
<1> QED BY <1>1, <1>2, <1>3, LooksKeep

LEMMA OtherKind ==
    ASSUME PrintNeverReturns \/ DumpNeverReturns \/ PrintE2Nodes
    PROVE  out'.kind \in {"e2"} \cup Hung
<1>1. CASE PrintNeverReturns \/ DumpNeverReturns
  <2>1. PICK kind \in Hung : out' = Written(kind, << >>)
    BY Zenon, <1>1 DEF PrintNeverReturns, DumpNeverReturns, Hung
  <2>2. Written(kind, << >>).kind = kind
    BY DEF Written
  <2> QED BY <2>1, <2>2
<1>2. CASE PrintE2Nodes
  <2>1. PICK k \in DOMAIN Program.nodes :
            out' = [kind |-> "e2", text |-> printE2Nodes(Cout(TRUE), Program.nodes[k]),
                    nodes |-> Program.nodes[k], shape |-> << >>]
    BY <1>2 DEF PrintE2Nodes
  <2>2. out'.kind = "e2"
    BY <2>1
  <2> QED BY <2>2
<1> QED BY <1>1, <1>2

\* The steps that change neither the table nor what has been set.
LEMMA OtherStep ==
    ASSUME IInv, PrintNeverReturns \/ DumpNeverReturns \/ PrintE2Nodes
    PROVE  IInv'
<1>1. t' = t /\ own' = own /\ formats' = formats /\ NextCall
  BY Zenon DEF PrintNeverReturns, DumpNeverReturns, PrintE2Nodes
<1>2. out'.kind \in Kinds
  BY OtherKind DEF Kinds
<1>3. Looked(t, t') /\ formats' = << >>
  BY <1>1, Unlooked DEF IInv
<1> QED BY <1>1, <1>2, <1>3, StepCounted, LooksKeep

LEMMA IndInit == Init => IInv
<1> SUFFICES ASSUME Init PROVE IInv
  OBVIOUS
<1>1. prog \in DOMAIN Programs /\ Program.steps \in Nat
  BY ProgramsAssumption DEF Init, Program
<1>2. steps \in 0..Program.steps
  BY <1>1 DEF Init
<1>3. out.kind \in Kinds
  BY DEF Init, Nothing, Kinds
<1> QED BY <1>1, <1>2, <1>3, CreateKeeps DEF Init, IInv

LEMMA IndNext == ASSUME ~OneExporter, IInv, [Next]_vars PROVE IInv'
<1>1. CASE AddRow
  BY <1>1, AddRowStep
<1>2. CASE SetTableFormat
  BY <1>2, SetTableStep
<1>3. CASE SetRowFormat
  BY <1>3, SetRowStep
<1>4. CASE SetCellFormat
  BY <1>4, SetCellStep
<1>5. CASE SetColumnFormat
  BY <1>5, SetColumnStep
<1>6. CASE PrintTable \/ Str \/ Shape \/ DumpMarkdown \/ DumpAsciiDoc \/ DumpLatex
  BY <1>6, WriteStep
<1>7. CASE PrintNeverReturns \/ DumpNeverReturns \/ PrintE2Nodes
  BY <1>7, OtherStep
<1>8. CASE UNCHANGED vars
  BY <1>8 DEF vars, IInv, Program
<1> QED BY <1>1, <1>2, <1>3, <1>4, <1>5, <1>6, <1>7, <1>8 DEF Next

\* The invariant holds of every program that takes a new exporter for each dump.
THEOREM Inductive == ASSUME ~OneExporter PROVE Spec => []IInv
BY IndInit, IndNext, PTL DEF Spec

----------------------------------------------------------------------------
\* Cells and their looks, as the properties name them.
LEMMA CellsArePositions == ASSUME IInv PROVE Cells(t) = Positions(t)
<1>1. DOMAIN t.text = 1..Len(t.text)
  BY WellFormedRows, LenProperties DEF IInv
<1> QED BY <1>1 DEF Cells, Positions

\* The parts of a table fit together, after any calls of add_row, of setters, of
\* the printer and of the exporters (table_internal.hpp:61-69).
THEOREM Types == ASSUME ~OneExporter PROVE Spec => []TypeOK
<1>1. ASSUME IInv PROVE TypeOK
  <2>1. /\ Len(t.text) = Len(t.rows) /\ Len(t.text) = Len(t.cells) /\ Len(t.text) = Len(own)
        /\ DOMAIN t.text = 1..Len(t.text) /\ DOMAIN t.table = Members
    BY <1>1, WellFormedRows, LenProperties DEF IInv, Owned, Formats
  <2>2. ASSUME NEW i \in 1..Len(t.text)
        PROVE  /\ DOMAIN t.rows[i] = Members
               /\ DOMAIN t.text[i] = 1..estimate_num_columns(t)
               /\ DOMAIN t.cells[i] = 1..estimate_num_columns(t)
               /\ DOMAIN own[i] = 1..estimate_num_columns(t)
    <3>1. t.rows[i] \in Formats /\ Len(t.text[i]) = estimate_num_columns(t)
          /\ t.cells[i] \in Seq(Formats) /\ Len(t.cells[i]) = estimate_num_columns(t)
          /\ t.text \in Seq(Seq(Texts))
      BY <1>1, <2>2, WellFormedRows DEF IInv
    <3>2. t.text[i] \in Seq(Texts)
      BY <2>2, <3>1, ElementOfSeq
    <3>3. own[i] \in Seq(Formats) /\ Len(own[i]) = estimate_num_columns(t)
      BY <1>1, <2>2, ElementOfSeq DEF IInv, Owned
    <3>4. DOMAIN t.rows[i] = Members
      BY <3>1 DEF Formats
    <3> QED BY <3>1, <3>2, <3>3, <3>4, LenProperties
  <2>3. ASSUME NEW i \in 1..Len(t.text), NEW j \in 1..estimate_num_columns(t)
        PROVE  DOMAIN t.cells[i][j] = Members /\ DOMAIN own[i][j] = Members
    <3>1. t.cells[i] \in Seq(Formats) /\ j \in 1..Len(t.cells[i])
      BY <1>1, <2>3, WellFormedRows DEF IInv
    <3>2. own[i] \in Seq(Formats) /\ j \in 1..Len(own[i])
      BY <1>1, <2>3, ElementOfSeq DEF IInv, Owned
    <3>3. t.cells[i][j] \in Formats /\ own[i][j] \in Formats
      BY <3>1, <3>2, ElementOfSeq
    <3> QED BY <3>3 DEF Formats
  <2>4. out.kind \in {"none", "print", "str", "shape", "markdown", "asciidoc", "latex", "e2"} \cup Hung
    BY <1>1 DEF IInv, Kinds, Exports
  <2>5. prog \in DOMAIN Programs /\ steps \in 0..Program.steps
    BY <1>1 DEF IInv
  <2>6. ASSUME NEW i \in DOMAIN t.text
        PROVE  /\ DOMAIN t.rows[i] = Members
               /\ DOMAIN t.text[i] = 1..estimate_num_columns(t)
               /\ DOMAIN t.cells[i] = DOMAIN t.text[i] /\ DOMAIN own[i] = DOMAIN t.text[i]
               /\ \A j \in DOMAIN t.cells[i] :
                     DOMAIN t.cells[i][j] = Members /\ DOMAIN own[i][j] = Members
    <3>1. i \in 1..Len(t.text)
      BY <2>1, <2>6
    <3> QED BY ZenonT(30), <2>2, <2>3, <3>1
  <2> QED BY <2>1, <2>4, <2>5, <2>6 DEF TypeOK
<1> QED BY <1>1, Inductive, PTL

\* A member that set_defaults sets is shown with a value.
LEMMA ShownValue ==
    ASSUME NEW u, WellFormed(u), NEW p \in Positions(u), NEW m \in Defaulted
    PROVE  ShownAt(u, p, m) # NoValue
<1>1. m \in Members /\ u.table[m] # NoValue
  BY DefaultedAreMembers DEF WellFormed
<1>2. CASE m = "font_style"
  <2>1. /\ u.cells[p[1]][p[2]][m] \in StyleValues /\ u.rows[p[1]][m] \in StyleValues
        /\ u.table[m] \in SUBSET FontStyle
    BY <1>2, WellFormedCells, FormatType
  <2>2. Layered(u.rows[p[1]][m], u.table[m]) \in SUBSET FontStyle
    BY <2>1, LayeredType
  <2>3. ShownAt(u, p, m) \in SUBSET FontStyle
    BY <1>2, <2>1, <2>2, LayeredType DEF ShownAt, Shown
  <2> QED BY <2>3, NoValueAssumption
<1>3. CASE m # "font_style"
  BY <1>1, <1>3 DEF ShownAt, Shown
<1> QED BY <1>2, <1>3

\* No optional the printer reads is empty (table_internal.hpp:209-389): every
\* member but the sizes has a value on the table, and no merge or setter takes it.
THEOREM OptionalsHaveValues == ASSUME ~OneExporter PROVE Spec => []NoEmptyOptional
<1>1. ASSUME IInv PROVE NoEmptyOptional
  <2> SUFFICES ASSUME NEW c \in Cells(t), NEW m \in Defaulted
               PROVE  LookAt(t, c)[m] # NoValue
    BY DEF NoEmptyOptional
  <2>1. c \in Positions(t) /\ m \in Members /\ WellFormed(t)
    BY <1>1, CellsArePositions, DefaultedAreMembers DEF IInv
  <2>2. LookAt(t, c)[m] = ShownAt(t, c, m)
    BY <2>1, SettledLooks DEF LookAt
  <2>3. ShownAt(t, c, m) # NoValue
    BY <2>1, ShownValue
  <2> QED BY <2>2, <2>3
<1> QED BY <1>1, Inductive, PTL

\* What has been set on a cell or on its column is what is printed for it, however
\* often the formats below it have been merged into its own (format.hpp:473-725).
THEOREM OwnIsShown == ASSUME ~OneExporter PROVE Spec => []OwnSettingShown
<1>1. ASSUME IInv PROVE OwnSettingShown
  <2> SUFFICES ASSUME NEW c \in Cells(t), NEW m \in Members, own[c[1]][c[2]][m] # NoValue
               PROVE  IF m = "font_style" THEN own[c[1]][c[2]][m] \subseteq LookAt(t, c)[m]
                      ELSE LookAt(t, c)[m] = own[c[1]][c[2]][m]
    BY DEF OwnSettingShown
  <2>1. c \in Positions(t)
    BY <1>1, CellsArePositions
  <2>2. LookAt(t, c)[m] = ShownAt(t, c, m)
    BY <1>1, <2>1, SettledLooks DEF IInv, LookAt
  <2>3. Keeps(m, own[c[1]][c[2]][m], t.cells[c[1]][c[2]][m])
    BY <1>1, <2>1 DEF IInv, Owned
  <2> QED BY Zenon, <2>2, <2>3 DEF Keeps, ShownAt, Shown, Layered, Styles
<1> QED BY <1>1, Inductive, PTL

\* Printing or exporting a table changes neither a text nor what will be shown for
\* a cell: the Markdown exporter takes out the row it has put in and gives every
\* cell the format it has kept (markdown_exporter.hpp:98-135).
THEOREM WritingRestores == ASSUME ~OneExporter PROVE Spec => DumpRestores
<1> DEFINE Restores ==
      out'.kind \in Exports =>
          /\ t'.text = t.text
          /\ \A c \in Cells(t) : LookAt(t', c) = LookAt(t, c)
<1>1. ASSUME ~OneExporter, IInv, [Next]_vars PROVE [Restores]_vars
  <2>1. CASE PrintTable \/ Str \/ Shape \/ DumpMarkdown \/ DumpAsciiDoc \/ DumpLatex
    <3>1. Looked(t, t') /\ WellFormed(t)
      BY <1>1, <2>1, Writes DEF IInv
    <3>2. ASSUME NEW c \in Cells(t) PROVE LookAt(t', c) = LookAt(t, c)
      BY <1>1, <3>1, <3>2, CellsArePositions, LookedLook DEF LookAt
    <3> QED BY <3>1, <3>2 DEF Looked
  <2>2. CASE \/ AddRow \/ SetTableFormat \/ SetRowFormat \/ SetCellFormat \/ SetColumnFormat
             \/ PrintNeverReturns \/ DumpNeverReturns \/ PrintE2Nodes
    <3>1. out'.kind \in {"none", "e2"} \cup Hung
      <4>1. CASE AddRow \/ SetTableFormat \/ SetRowFormat \/ SetCellFormat \/ SetColumnFormat
        <5>1. out' = Nothing
          BY Zenon, <4>1 DEF AddRow, SetTableFormat, SetRowFormat, SetCellFormat, SetColumnFormat
        <5> QED BY SMTT(40), <5>1 DEF Nothing
      <4>2. CASE PrintNeverReturns \/ DumpNeverReturns \/ PrintE2Nodes
        BY <4>2, OtherKind
      <4> QED BY <2>2, <4>1, <4>2
    <3> QED BY Zenon, <3>1 DEF Exports, Hung
  <2>3. CASE UNCHANGED vars
    BY <2>3
  <2> QED BY <1>1, <2>1, <2>2, <2>3 DEF Next
<1> QED BY <1>1, Inductive, PTL DEF Spec, DumpRestores

----------------------------------------------------------------------------
(* What a setter reaches. *)

\* What a setter that gives the member m the value v makes of it; v is NoValue when
\* the setter is not about m.
Put(m, x, v) ==
    IF v = NoValue THEN x ELSE IF m = "font_style" THEN Styles(x) \cup v ELSE v

\* The styles q are b and s, and perhaps bold.
StylesJoin(b, s, q) == b \cup s \subseteq q /\ q \subseteq b \cup s \cup {"bold"}

\* What setting m to v does to what is shown, when nothing nearer to the cell has a
\* value (open).
Reaches(m, v, open, before, after) ==
    IF v = NoValue THEN after = before
    ELSE IF m = "font_style" THEN StylesJoin(before, v, after)
    ELSE after = IF open THEN v ELSE before

LEMMA SetPuts ==
    ASSUME NEW f, NEW s, NEW v, Legal(s, v), NEW m \in Members
    PROVE  /\ Set(f, s, v)[m] = Put(m, f[m], Set(Format, s, v)[m])
           /\ m = "font_style" => Set(Format, s, v)[m] \in StyleValues
<1>0. Format[m] = NoValue
  BY DEF Format
<1>1. CASE s = "font_style" /\ m = "font_style"
  <2>1. v \in SUBSET FontStyle /\ v # NoValue
    BY <1>1 DEF Legal
  <2>2. ASSUME NEW g
        PROVE  Set(g, s, v)[m] = IF g[m] = NoValue THEN v ELSE g[m] \cup v
    BY <1>1, StyleSet, FontStyleIsMember DEF font_style, Assign
  <2>3. Set(Format, s, v)[m] = v
    BY <1>0, <2>2
  <2> QED BY <1>1, <2>1, <2>2, <2>3 DEF Put, Styles, StyleValues
<1>2. CASE s = "font_style" /\ m # "font_style"
  <2>1. ASSUME NEW g PROVE Set(g, s, v)[m] = g[m]
    BY <1>2, StyleSet DEF font_style, Assign
  <2> QED BY <1>0, <1>2, <2>1 DEF Put
<1>3. CASE s # "font_style"
  <2>1. PICK M, w :
           /\ w \in Values /\ w # NoValue /\ "font_style" \notin M
           /\ \A g : Set(g, s, v) = Assign(g, M, w)
    BY <1>3, SetMember DEF Legal
  <2>2. ASSUME NEW g PROVE Set(g, s, v)[m] = IF m \in M THEN w ELSE g[m]
    BY <2>1 DEF Assign
  <2>3. CASE m \in M
    BY <2>1, <2>2, <2>3 DEF Put
  <2>4. CASE m \notin M
    BY <1>0, <2>2, <2>4 DEF Put, StyleValues
  <2> QED BY <2>3, <2>4
<1> QED BY <1>1, <1>2, <1>3

\* Styles set on one layer are shown with all that is above and below it.
LEMMA LayeredUnion ==
    ASSUME NEW a \in StyleValues, NEW b \in SUBSET FontStyle, NEW v \in SUBSET FontStyle
    PROVE  Layered(Styles(a) \cup v, b) = Layered(a, b) \cup v
<1> DEFINE x == Styles(a) \cup v
<1>1. Styles(a) \in SUBSET FontStyle
  BY StyleType DEF Styles
<1>2. x \in SUBSET FontStyle
  BY <1>1
<1>3. Styles(x) = x
  <2> HIDE DEF x
  <2> QED BY <1>2, NoValueAssumption DEF Styles
<1>4. Layered(x, b) = IF b = {} THEN x ELSE x \cup b \cup {"bold"}
  <2> HIDE DEF x
  <2> QED BY <1>3 DEF Layered
<1> QED BY <1>4 DEF Layered

LEMMA LayeredJoin ==
    ASSUME NEW a \in StyleValues, NEW b \in SUBSET FontStyle, NEW q \in SUBSET FontStyle,
           NEW v \in SUBSET FontStyle, StylesJoin(b, v, q)
    PROVE  StylesJoin(Layered(a, b), v, Layered(a, q))
BY DEF StylesJoin, Layered

\* A member set on the table,
LEMMA TableReaches ==
    ASSUME NEW m \in Members, NEW c, NEW r, NEW d, NEW v,
           m = "font_style" => /\ c \in StyleValues /\ r \in StyleValues
                               /\ d \in SUBSET FontStyle /\ v \in StyleValues
    PROVE  Reaches(m, v, c = NoValue /\ r = NoValue,
                   Shown(m, c, r, d), Shown(m, c, r, Put(m, d, v)))
<1>1. CASE v = NoValue
  BY <1>1 DEF Reaches, Put
<1>2. CASE v # NoValue /\ m # "font_style"
  BY <1>2 DEF Reaches, Put, Shown
<1>3. CASE v # NoValue /\ m = "font_style"
  <2>1. v \in SUBSET FontStyle /\ Styles(d) = d
    BY <1>3, StyleType, NoValueAssumption DEF Styles
  <2> DEFINE q == d \cup v
             l == Layered(r, d)
             k == Layered(r, q)
  <2>2. Put(m, d, v) = q /\ q \in SUBSET FontStyle /\ StylesJoin(d, v, q)
    BY <1>3, <2>1 DEF Put, StylesJoin
  <2> HIDE DEF q
  <2>3. l \in SUBSET FontStyle /\ k \in SUBSET FontStyle /\ StylesJoin(l, v, k)
    BY <1>3, <2>1, <2>2, LayeredType, LayeredJoin
  <2>4. Shown(m, c, r, d) = Layered(c, l) /\ Shown(m, c, r, q) = Layered(c, k)
    BY <1>3 DEF Shown
  <2> HIDE DEF l, k
  <2>5. StylesJoin(Layered(c, l), v, Layered(c, k))
    BY <1>3, <2>1, <2>3, LayeredJoin
  <2> QED BY <1>3, <2>2, <2>4, <2>5 DEF Reaches
<1> QED BY <1>1, <1>2, <1>3

\* on a row, which is looked at before,
LEMMA RowReaches ==
    ASSUME NEW m \in Members, NEW c, NEW r, NEW d, NEW q \in RowLooks(m, r, d), NEW v,
           m = "font_style" => /\ c \in StyleValues /\ r \in StyleValues
                               /\ d \in SUBSET FontStyle /\ v \in StyleValues
    PROVE  Reaches(m, v, c = NoValue, Shown(m, c, r, d), Shown(m, c, Put(m, q, v), d))
<1>1. CASE v = NoValue
  BY <1>1, LookedRowShown DEF Reaches, Put
<1>2. CASE v # NoValue /\ m # "font_style"
  BY <1>2 DEF Reaches, Put, Shown
<1>3. CASE v # NoValue /\ m = "font_style"
  <2>1. v \in SUBSET FontStyle /\ Added(r, d, q)
    BY <1>3, StyleType, LookedStyles DEF RowLooks
  <2>2. q \in SUBSET FontStyle /\ q \in StyleValues
    BY <2>1 DEF Added, StyleValues
  <2> DEFINE l == Layered(r, d)
             x == Put(m, q, v)
             k == Layered(x, d)
  <2>3. x = Styles(q) \cup v
    BY <1>3 DEF Put
  <2>4. k = Layered(q, d) \cup v /\ Layered(q, d) = l
    <3>1. Layered(Styles(q) \cup v, d) = Layered(q, d) \cup v
      BY <1>3, <2>1, <2>2, LayeredUnion
    <3> HIDE DEF x
    <3> QED BY <1>3, <2>1, <2>3, <3>1, LayeredBetween
  <2>5. l \in SUBSET FontStyle
    BY <1>3, LayeredType
  <2>6. Shown(m, c, r, d) = Layered(c, l) /\ Shown(m, c, x, d) = Layered(c, k)
    BY <1>3 DEF Shown
  <2> HIDE DEF l, x, k
  <2>7. k \in SUBSET FontStyle /\ StylesJoin(l, v, k)
    BY <2>1, <2>4, <2>5 DEF StylesJoin
  <2>8. StylesJoin(Layered(c, l), v, Layered(c, k))
    BY <1>3, <2>1, <2>5, <2>7, LayeredJoin
  <2> QED BY <1>3, <2>6, <2>8 DEF Reaches, x
<1> QED BY <1>1, <1>2, <1>3

\* and on a cell, which is looked at with its row before.
LEMMA CellReaches ==
    ASSUME NEW m \in Members, NEW c, NEW r, NEW d, NEW q \in RowLooks(m, r, d), NEW v,
           m = "font_style" => /\ c \in StyleValues /\ r \in StyleValues
                               /\ d \in SUBSET FontStyle /\ v \in StyleValues
    PROVE  Reaches(m, v, TRUE,
                   Shown(m, c, r, d), Shown(m, Put(m, Merged(m, c, q), v), q, d))
<1> DEFINE x == Merged(m, c, q)
<1>0. Shown(m, x, q, d) = Shown(m, c, r, d)
  <2>1. Shown(m, x, r, d) = Shown(m, c, r, d)
    BY LookedCellShown
  <2>2. Shown(m, x, q, d) = Shown(m, x, r, d)
    <3> HIDE DEF x
    <3> QED BY LookedRowShown
  <2> QED BY <2>1, <2>2
<1>1. CASE v = NoValue
  BY <1>0, <1>1 DEF Reaches, Put
<1>2. CASE v # NoValue /\ m # "font_style"
  BY <1>2 DEF Reaches, Put, Shown
<1>3. CASE v # NoValue /\ m = "font_style"
  <2>1. v \in SUBSET FontStyle /\ Added(r, d, q)
    BY <1>3, StyleType, LookedStyles DEF RowLooks
  <2>2. q \in SUBSET FontStyle /\ q \in StyleValues
    BY <2>1 DEF Added, StyleValues
  <2>3. x \in StyleValues
    <3>1. Added(c, q, x)
      BY <1>3, <2>2, LookedStyles
    <3> HIDE DEF x
    <3> QED BY <3>1 DEF Added, StyleValues
  <2> DEFINE l == Layered(q, d)
             y == Put(m, x, v)
  <2>4. l \in SUBSET FontStyle
    BY <1>3, <2>2, LayeredType
  <2>5. y = Styles(x) \cup v
    <3> HIDE DEF x
    <3> QED BY <1>3 DEF Put
  <2> HIDE DEF x, y
  <2>6. Shown(m, x, q, d) = Layered(x, l) /\ Shown(m, y, q, d) = Layered(y, l)
    BY <1>3 DEF Shown
  <2> HIDE DEF l
  <2>7. Layered(y, l) = Layered(x, l) \cup v
    <3>1. Layered(Styles(x) \cup v, l) = Layered(x, l) \cup v
      BY <2>1, <2>3, <2>4, LayeredUnion
    <3> QED BY <2>5, <3>1
  <2>8. StylesJoin(Layered(x, l), v, Layered(y, l))
    BY <2>7 DEF StylesJoin
  <2> QED BY <1>0, <1>3, <2>6, <2>8 DEF Reaches, x, y
<1> QED BY <1>1, <1>2, <1>3

LEMMA LayersType ==
    ASSUME NEW u, WellFormed(u), NEW p \in Positions(u), NEW s, NEW v, Legal(s, v),
           NEW m \in Members, m = "font_style"
    PROVE  /\ u.cells[p[1]][p[2]][m] \in StyleValues /\ u.rows[p[1]][m] \in StyleValues
           /\ u.table[m] \in SUBSET FontStyle /\ Set(Format, s, v)[m] \in StyleValues
BY WellFormedCells, FormatType, SetPuts

\* What the setters of the table, of a row, of a cell and of a column do to what is
\* shown for a member of the cell at p.
LEMMA SetTableReaches ==
    ASSUME NEW u, WellFormed(u), NEW s, NEW v, Legal(s, v),
           NEW p \in Positions(u), NEW m \in Members
    PROVE  Reaches(m, Set(Format, s, v)[m],
                   u.cells[p[1]][p[2]][m] = NoValue /\ u.rows[p[1]][m] = NoValue,
                   ShownAt(u, p, m), ShownAt(SetTable(u, s, v), p, m))
<1> DEFINE w == SetTable(u, s, v)
           x == Set(Format, s, v)[m]
           c == u.cells[p[1]][p[2]][m]
           r == u.rows[p[1]][m]
           d == u.table[m]
<1>1. w.table = Set(u.table, s, v) /\ w.rows = u.rows /\ w.cells = u.cells
  BY SetTableMakes
<1>2. w.table[m] = Put(m, d, x)
  <2>1. Set(u.table, s, v)[m] = Put(m, d, x)
    BY SetPuts
  <2> HIDE DEF w, x
  <2> QED BY <1>1, <2>1
<1>3. ShownAt(u, p, m) = Shown(m, c, r, d) /\ ShownAt(w, p, m) = Shown(m, c, r, Put(m, d, x))
  <2> HIDE DEF w, x
  <2> QED BY <1>1, <1>2 DEF ShownAt
<1>4. m = "font_style" => /\ c \in StyleValues /\ r \in StyleValues
                          /\ d \in SUBSET FontStyle /\ x \in StyleValues
  BY LayersType
<1> HIDE DEF w, x, c, r, d
<1>5. Reaches(m, x, c = NoValue /\ r = NoValue, Shown(m, c, r, d), Shown(m, c, r, Put(m, d, x)))
  BY <1>4, TableReaches
<1>6. Reaches(m, x, c = NoValue /\ r = NoValue, ShownAt(u, p, m), ShownAt(w, p, m))
  BY Zenon, <1>3, <1>5
<1> QED BY Zenon, <1>6 DEF w, x, c, r

LEMMA SetRowReaches ==
    ASSUME NEW u, WellFormed(u), NEW s, NEW v, Legal(s, v), NEW i \in 1..Len(u.text),
           NEW p \in Positions(u), NEW m \in Members
    PROVE  /\ p[1] = i => Reaches(m, Set(Format, s, v)[m], u.cells[p[1]][p[2]][m] = NoValue,
                                  ShownAt(u, p, m), ShownAt(SetRow(u, i, s, v), p, m))
           /\ p[1] # i => ShownAt(SetRow(u, i, s, v), p, m) = ShownAt(u, p, m)
<1> DEFINE w == SetRow(u, i, s, v)
           x == Set(Format, s, v)[m]
           c == u.cells[p[1]][p[2]][m]
           r == u.rows[p[1]][m]
           d == u.table[m]
           y == merge(u.rows[i], u.table)
           z == Set(y, s, v)
           q == y[m]
<1>0. p[1] \in 1..Len(u.text)
  BY WellFormedCells
<1>1. /\ w.table = u.table /\ w.cells = u.cells
      /\ \A a \in 1..Len(u.text) : w.rows[a] = IF a = i THEN z ELSE u.rows[a]
  BY SetRowMakes
<1>2. ShownAt(u, p, m) = Shown(m, c, r, d)
  BY DEF ShownAt
<1>3. ASSUME p[1] # i PROVE ShownAt(w, p, m) = ShownAt(u, p, m)
  <2> HIDE DEF w, z
  <2> QED BY <1>0, <1>1, <1>3 DEF ShownAt
<1>4. ASSUME p[1] = i
      PROVE  Reaches(m, x, c = NoValue, ShownAt(u, p, m), ShownAt(w, p, m))
  <2>1. z[m] = Put(m, q, x)
    <3> HIDE DEF y
    <3> QED BY SetPuts
  <2>2. q \in RowLooks(m, r, d)
    BY <1>4, MergeMember DEF RowLooks
  <2>3. ShownAt(w, p, m) = Shown(m, c, Put(m, q, x), d)
    <3> HIDE DEF w, x, z, q
    <3> QED BY <1>0, <1>1, <1>4, <2>1 DEF ShownAt
  <2>4. m = "font_style" => /\ c \in StyleValues /\ r \in StyleValues
                            /\ d \in SUBSET FontStyle /\ x \in StyleValues
    BY LayersType
  <2> HIDE DEF w, x, c, r, d, q
  <2>5. Reaches(m, x, c = NoValue, Shown(m, c, r, d), Shown(m, c, Put(m, q, x), d))
    BY <2>2, <2>4, RowReaches
  <2> QED BY Zenon, <1>2, <2>3, <2>5
<1> QED BY Zenon, <1>3, <1>4

\* A setter of cells reaches a cell, whatever is nearer, if the cell is one of them,
\* and otherwise leaves it.
OnlyReaches(meant, m, v, before, after) ==
    IF meant THEN Reaches(m, v, TRUE, before, after) ELSE after = before

\* A cell that is looked at with its row and then set, the row included or not.
LEMMA SetCellReaches ==
    ASSUME NEW u, WellFormed(u), NEW s, NEW v, Legal(s, v),
           NEW i \in 1..Len(u.text), NEW j \in 1..estimate_num_columns(u),
           NEW p \in Positions(u), NEW m \in Members
    PROVE  OnlyReaches(p = <<i, j>>, m, Set(Format, s, v)[m], ShownAt(u, p, m),
                       ShownAt(SetCell(u, i, j, s, v), p, m))
<1> DEFINE w == SetCell(u, i, j, s, v)
           x == Set(Format, s, v)[m]
           c == u.cells[p[1]][p[2]][m]
           r == u.rows[p[1]][m]
           d == u.table[m]
           k == merge(u.rows[i], u.table)
           g == merge(u.cells[i][j], k)
           f == Set(g, s, v)
           q == k[m]
<1>0. p[1] \in 1..Len(u.text) /\ p[2] \in 1..estimate_num_columns(u) /\ p = <<p[1], p[2]>>
  BY WellFormedCells DEF Positions
<1>1. /\ w.table = u.table
      /\ \A a \in 1..Len(u.text) :
            /\ w.rows[a] = IF a = i THEN k ELSE u.rows[a]
            /\ \A b \in 1..estimate_num_columns(u) :
                  w.cells[a][b] = IF a = i /\ b = j THEN f ELSE u.cells[a][b]
  BY SetCellMakes
<1>2. ShownAt(u, p, m) = Shown(m, c, r, d)
  BY DEF ShownAt
<1>3. p[1] = i => q \in RowLooks(m, r, d)
  BY MergeMember DEF RowLooks
<1>4. m = "font_style" => /\ c \in StyleValues /\ r \in StyleValues
                          /\ d \in SUBSET FontStyle /\ x \in StyleValues
  BY LayersType
<1>5. ASSUME p # <<i, j>> PROVE ShownAt(w, p, m) = ShownAt(u, p, m)
  <2>1. ~(p[1] = i /\ p[2] = j)
    BY <1>0, <1>5
  <2>2. w.cells[p[1]][p[2]] = u.cells[p[1]][p[2]]
        /\ w.rows[p[1]] = IF p[1] = i THEN k ELSE u.rows[p[1]]
    <3> HIDE DEF w, f, k
    <3> QED BY <1>0, <1>1, <2>1
  <2>3. CASE p[1] # i
    <3> HIDE DEF w, k
    <3> QED BY <1>1, <2>2, <2>3 DEF ShownAt
  <2>4. CASE p[1] = i
    <3>1. ShownAt(w, p, m) = Shown(m, c, q, d)
      <4> HIDE DEF w, k
      <4> QED BY <1>1, <2>2, <2>4 DEF ShownAt
    <3> HIDE DEF w, c, r, d, q
    <3> QED BY <1>2, <1>3, <1>4, <2>4, <3>1, LookedRowShown
  <2> QED BY <2>3, <2>4
<1>6. ASSUME p = <<i, j>>
      PROVE  Reaches(m, x, TRUE, ShownAt(u, p, m), ShownAt(w, p, m))
  <2>0. p[1] = i /\ p[2] = j
    BY <1>6
  <2>1. f[m] = Put(m, Merged(m, c, q), x)
    <3>1. g[m] = Merged(m, c, q)
      <4> HIDE DEF k
      <4> QED BY <2>0, MergeMember
    <3> HIDE DEF g
    <3>2. f[m] = Put(m, g[m], x)
      BY SetPuts
    <3> QED BY <3>1, <3>2
  <2>2. ShownAt(w, p, m) = Shown(m, Put(m, Merged(m, c, q), x), q, d)
    <3> HIDE DEF w, x, f, k
    <3>1. w.cells[p[1]][p[2]] = f /\ w.rows[p[1]] = k
      BY <1>0, <1>1, <2>0
    <3> QED BY <1>1, <2>1, <3>1 DEF ShownAt
  <2> HIDE DEF w, x, c, r, d, q
  <2>3. Reaches(m, x, TRUE, Shown(m, c, r, d), Shown(m, Put(m, Merged(m, c, q), x), q, d))
    BY <1>3, <1>4, <2>0, CellReaches
  <2> QED BY Zenon, <1>2, <2>2, <2>3
<1> QED BY Zenon, <1>5, <1>6 DEF OnlyReaches, w, x

LEMMA SetColumnReaches ==
    ASSUME NEW u, WellFormed(u), NEW s, NEW v, Legal(s, v), s \in ColumnSetters,
           NEW j \in 1..estimate_num_columns(u), NEW p \in Positions(u), NEW m \in Members
    PROVE  OnlyReaches(p[2] = j, m, Set(Format, s, v)[m], ShownAt(u, p, m),
                       ShownAt(SetColumn(u, j, s, v), p, m))
<1> DEFINE w == SetColumn(u, j, s, v)
           x == Set(Format, s, v)[m]
           c == u.cells[p[1]][p[2]][m]
           r == u.rows[p[1]][m]
           d == u.table[m]
           k == merge(u.rows[p[1]], u.table)
           g == merge(u.cells[p[1]][j], k)
           f == Set(g, s, v)
           q == k[m]
<1>0. p[1] \in 1..Len(u.text) /\ p[2] \in 1..estimate_num_columns(u)
  BY WellFormedCells
<1>1. /\ w.table = u.table /\ w.rows[p[1]] = k /\ w.cells[p[1]][j] = f
      /\ p[2] # j => w.cells[p[1]][p[2]] = u.cells[p[1]][p[2]]
  <2>1. /\ w.table = u.table
        /\ \A a \in 1..Len(u.text) :
              /\ w.rows[a] = merge(u.rows[a], u.table)
              /\ w.cells[a][j] = Set(merge(u.cells[a][j], w.rows[a]), s, v)
              /\ \A b \in 1..estimate_num_columns(u) :
                    b # j => w.cells[a][b] = u.cells[a][b]
    BY SetColumnMakes
  <2> HIDE DEF w
  <2> QED BY <1>0, <2>1
<1>2. ShownAt(u, p, m) = Shown(m, c, r, d)
  BY DEF ShownAt
<1>3. q \in RowLooks(m, r, d)
  BY MergeMember DEF RowLooks
<1>4. m = "font_style" => /\ c \in StyleValues /\ r \in StyleValues
                          /\ d \in SUBSET FontStyle /\ x \in StyleValues
  BY LayersType
<1>5. ASSUME p[2] # j PROVE ShownAt(w, p, m) = ShownAt(u, p, m)
  <2>1. ShownAt(w, p, m) = Shown(m, c, q, d)
    <3> HIDE DEF w, k
    <3> QED BY <1>1, <1>5 DEF ShownAt
  <2> HIDE DEF w, c, r, d, q
  <2> QED BY <1>2, <1>3, <1>4, <2>1, LookedRowShown
<1>6. ASSUME p[2] = j
      PROVE  Reaches(m, x, TRUE, ShownAt(u, p, m), ShownAt(w, p, m))
  <2>1. f[m] = Put(m, Merged(m, c, q), x)
    <3>1. g[m] = Merged(m, c, q)
      <4> HIDE DEF k
      <4> QED BY <1>6, MergeMember
    <3> HIDE DEF g
    <3>2. f[m] = Put(m, g[m], x)
      BY SetPuts
    <3> QED BY <3>1, <3>2
  <2>2. ShownAt(w, p, m) = Shown(m, Put(m, Merged(m, c, q), x), q, d)
    <3> HIDE DEF w, x, f, k
    <3> QED BY <1>1, <1>6, <2>1 DEF ShownAt
  <2> HIDE DEF w, x, c, r, d, q
  <2>3. Reaches(m, x, TRUE, Shown(m, c, r, d), Shown(m, Put(m, Merged(m, c, q), x), q, d))
    BY <1>3, <1>4, CellReaches
  <2> QED BY Zenon, <1>2, <2>2, <2>3
<1> QED BY Zenon, <1>5, <1>6 DEF OnlyReaches, w, x

\* After a print each cell has a value of its own for what set_defaults sets.
PrintStored ==
    out.kind \in Stored =>
        \A p \in Positions(t) : \A m \in Defaulted : t.cells[p[1]][p[2]][m] # NoValue

LEMMA StoredNext == ASSUME ~OneExporter, IInv, PrintStored, [Next]_vars PROVE PrintStored'
<1>1. CASE PrintTable \/ Str \/ Shape
  <2>1. t' = Settled(t) /\ WellFormed(t)
    BY <1>1 DEF PrintTable, Str, Shape, IInv
  <2>2. Positions(Settled(t)) = Positions(t)
    BY <2>1, SettledLooks DEF Looked, Positions, estimate_num_columns
  <2>3. ASSUME NEW p \in Positions(t), NEW m \in Defaulted
        PROVE  Settled(t).cells[p[1]][p[2]][m] # NoValue
    BY <2>1, <2>3, SettledLooks, ShownValue, DefaultedAreMembers DEF Look
  <2> QED BY <2>1, <2>2, <2>3 DEF PrintStored
<1>2. CASE DumpMarkdown \/ DumpAsciiDoc \/ DumpLatex
  <2>1. out'.kind \in {"markdown", "asciidoc", "latex"}
    BY <1>2 DEF DumpMarkdown, DumpAsciiDoc, DumpLatex, Written
  <2> QED BY <2>1 DEF PrintStored, Stored
<1>3. CASE AddRow \/ SetTableFormat \/ SetRowFormat \/ SetCellFormat \/ SetColumnFormat
  <2>1. out' = Nothing
    BY Zenon, <1>3 DEF AddRow, SetTableFormat, SetRowFormat, SetCellFormat, SetColumnFormat
  <2>2. Nothing.kind = "none"
    BY DEF Nothing
  <2> QED BY <2>1, <2>2 DEF PrintStored, Stored
<1>4. CASE PrintNeverReturns \/ DumpNeverReturns \/ PrintE2Nodes
  BY Zenon, <1>4, OtherKind DEF PrintStored, Stored, Hung
<1>5. CASE UNCHANGED vars
  BY <1>5 DEF vars, PrintStored
<1> QED BY <1>1, <1>2, <1>3, <1>4, <1>5 DEF Next

LEMMA StoredHolds == ASSUME ~OneExporter PROVE Spec => [](IInv /\ PrintStored)
<1>1. Init => PrintStored
  <2>1. Nothing.kind = "none"
    BY DEF Nothing
  <2> QED BY <2>1 DEF Init, PrintStored, Stored
<1> QED BY <1>1, StoredNext, IndInit, IndNext, PTL DEF Spec

\* What Reached asks of a cell, when the call is meant for it and when it is not.
LEMMA ReachedMeant ==
    ASSUME NEW c, NEW p, Meant(c, p), NEW m, NEW set, NEW before, NEW after,
           Reaches(m, set, Open(c, p, m), before, after),
           /\ out.kind \in Stored
           /\ c.on \in {"table", "row"}
           /\ m \in Defaulted
           => ~Open(c, p, m)
    PROVE  Reached(c, p, m, set, before, after)
<1>1. CASE set = NoValue
  BY <1>1 DEF Reached, Reaches
<1>2. CASE set # NoValue /\ m = "font_style"
  BY <1>2 DEF Reached, Reaches, StylesJoin
<1>3. CASE set # NoValue /\ m # "font_style"
  <2>1. after = IF Open(c, p, m) THEN set ELSE before
    BY <1>3 DEF Reaches
  <2> QED BY <1>3, <2>1 DEF Reached
<1> QED BY <1>1, <1>2, <1>3

LEMMA ReachedOther ==
    ASSUME NEW c, NEW p, ~Meant(c, p), NEW m, NEW set, NEW before
    PROVE  Reached(c, p, m, set, before, before)
BY DEF Reached

\* What a call of a setter does to one member of one cell, layer by layer.
LEMMA CallOfTable ==
    ASSUME IInv, PrintStored, NEW c, Legal(c.setter, c.value), c.on = "table",
           t' = SetTable(t, c.setter, c.value), NEW p \in Positions(t), NEW m \in Members
    PROVE  /\ Reached(c, p, m, SetBy(c)[m], ShownAt(t, p, m), ShownAt(t', p, m))
           /\ t'.text = t.text
<1> DEFINE s == c.setter
           v == c.value
           set == Set(Format, s, v)[m]
           before == ShownAt(t, p, m)
<1>1. WellFormed(t) /\ Legal(s, v) /\ t' = SetTable(t, s, v)
  BY DEF IInv
<1>2. SetBy(c)[m] = set
  BY DEF SetBy
<1>3. Meant(c, p)
  BY DEF Meant
<1>4. Open(c, p, m) = (t.cells[p[1]][p[2]][m] = NoValue /\ t.rows[p[1]][m] = NoValue)
  BY DEF Open
<1>5. out.kind \in Stored /\ m \in Defaulted => ~Open(c, p, m)
  BY <1>4 DEF PrintStored
<1> HIDE DEF s, v
<1>6. /\ Reaches(m, set, t.cells[p[1]][p[2]][m] = NoValue /\ t.rows[p[1]][m] = NoValue,
                 before, ShownAt(SetTable(t, s, v), p, m))
      /\ SetTable(t, s, v).text = t.text
  BY <1>1, SetTableReaches, SetTableMakes
<1> HIDE DEF set, before
<1>7. Reaches(m, set, Open(c, p, m), before, ShownAt(t', p, m)) /\ t'.text = t.text
  BY Zenon, <1>1, <1>4, <1>6
<1>8. Reached(c, p, m, set, before, ShownAt(t', p, m))
  BY <1>3, <1>5, <1>7, ReachedMeant
<1> QED BY Zenon, <1>2, <1>7, <1>8 DEF before

LEMMA CallOfRow ==
    ASSUME IInv, PrintStored, NEW c, Legal(c.setter, c.value), c.on = "row",
           c.i \in DOMAIN t.rows, t' = SetRow(t, c.i, c.setter, c.value),
           NEW p \in Positions(t), NEW m \in Members
    PROVE  /\ Reached(c, p, m, SetBy(c)[m], ShownAt(t, p, m), ShownAt(t', p, m))
           /\ t'.text = t.text
<1> DEFINE s == c.setter
           v == c.value
           i == c.i
           set == Set(Format, s, v)[m]
           before == ShownAt(t, p, m)
<1>1. /\ WellFormed(t) /\ Legal(s, v) /\ t' = SetRow(t, i, s, v)
      /\ i \in 1..Len(t.text)
  BY WellFormedRows DEF IInv
<1>2. SetBy(c)[m] = set
  BY DEF SetBy
<1>3. Meant(c, p) <=> p[1] = i
  BY DEF Meant
<1>4. Open(c, p, m) = (t.cells[p[1]][p[2]][m] = NoValue)
  BY DEF Open
<1>5. out.kind \in Stored /\ m \in Defaulted => ~Open(c, p, m)
  BY <1>4 DEF PrintStored
<1> HIDE DEF s, v, i
<1>6. /\ p[1] = i => Reaches(m, set, t.cells[p[1]][p[2]][m] = NoValue,
                             before, ShownAt(SetRow(t, i, s, v), p, m))
      /\ p[1] # i => ShownAt(SetRow(t, i, s, v), p, m) = before
      /\ SetRow(t, i, s, v).text = t.text
  BY <1>1, SetRowReaches, SetRowMakes
<1> HIDE DEF set, before
<1>7. /\ p[1] = i => Reaches(m, set, Open(c, p, m), before, ShownAt(t', p, m))
      /\ p[1] # i => ShownAt(t', p, m) = before
      /\ t'.text = t.text
  BY Zenon, <1>1, <1>4, <1>6
<1>8. CASE p[1] = i
  <2>1. Reached(c, p, m, set, before, ShownAt(t', p, m))
    BY <1>3, <1>5, <1>7, <1>8, ReachedMeant
  <2> QED BY Zenon, <1>2, <1>7, <2>1 DEF before
<1>9. CASE p[1] # i
  <2>1. Reached(c, p, m, set, before, before)
    BY <1>3, <1>9, ReachedOther
  <2> QED BY Zenon, <1>2, <1>7, <1>9, <2>1 DEF before
<1> QED BY <1>8, <1>9

LEMMA CallOfCell ==
    ASSUME IInv, NEW c, Legal(c.setter, c.value), c.on = "cell",
           <<c.i, c.j>> \in Cells(t), t' = SetCell(t, c.i, c.j, c.setter, c.value),
           NEW p \in Positions(t), NEW m \in Members
    PROVE  /\ Reached(c, p, m, SetBy(c)[m], ShownAt(t, p, m), ShownAt(t', p, m))
           /\ t'.text = t.text
<1> DEFINE s == c.setter
           v == c.value
           i == c.i
           j == c.j
           set == Set(Format, s, v)[m]
           before == ShownAt(t, p, m)
<1>1. /\ WellFormed(t) /\ Legal(s, v) /\ t' = SetCell(t, i, j, s, v)
      /\ i \in 1..Len(t.text) /\ j \in 1..estimate_num_columns(t)
  BY CellsArePositions DEF IInv, Positions
<1>2. SetBy(c)[m] = set
  BY DEF SetBy
<1>3. Meant(c, p) <=> p = <<i, j>>
  BY DEF Meant
<1>4. Open(c, p, m) = TRUE
  BY DEF Open
<1> HIDE DEF s, v, i, j
<1>6. OnlyReaches(p = <<i, j>>, m, set, before, ShownAt(SetCell(t, i, j, s, v), p, m))
  BY <1>1, SetCellReaches
<1>5. t'.text = t.text
  <2>1. SetCell(t, i, j, s, v).text = t.text
    BY <1>1, SetCellMakes
  <2> QED BY <1>1, <2>1
<1> HIDE DEF set, before
<1>7. /\ p = <<i, j>> => Reaches(m, set, Open(c, p, m), before, ShownAt(t', p, m))
      /\ p # <<i, j>> => ShownAt(t', p, m) = before
  BY Zenon, <1>1, <1>4, <1>6 DEF OnlyReaches
<1>8. CASE p = <<i, j>>
  <2>1. Reached(c, p, m, set, before, ShownAt(t', p, m))
    BY <1>3, <1>7, <1>8, ReachedMeant
  <2> QED BY Zenon, <1>2, <1>5, <1>7, <2>1 DEF before
<1>9. CASE p # <<i, j>>
  <2>1. Reached(c, p, m, set, before, before)
    BY <1>3, <1>9, ReachedOther
  <2> QED BY Zenon, <1>2, <1>5, <1>7, <1>9, <2>1 DEF before
<1> QED BY <1>8, <1>9

LEMMA CallOfColumn ==
    ASSUME IInv, NEW c, Legal(c.setter, c.value), c.on = "column",
           c.j \in 1..estimate_num_columns(t), t' = SetColumn(t, c.j, c.setter, c.value),
           NEW p \in Positions(t), NEW m \in Members
    PROVE  /\ Reached(c, p, m, SetBy(c)[m], ShownAt(t, p, m), ShownAt(t', p, m))
           /\ t'.text = t.text
<1> DEFINE s == c.setter
           v == c.value
           j == c.j
           set == Set(Format, s, v)[m]
           before == ShownAt(t, p, m)
<1>1. /\ WellFormed(t) /\ Legal(s, v) /\ t' = SetColumn(t, j, s, v)
      /\ j \in 1..estimate_num_columns(t)
  BY DEF IInv
<1>2. SetBy(c)[m] = set
  BY DEF SetBy
<1>3. Meant(c, p) <=> p[2] = j /\ s \in ColumnSetters
  BY DEF Meant
<1>4. Open(c, p, m) = TRUE
  BY DEF Open
<1> HIDE DEF s, v, j
<1>5. CASE s \in ColumnSetters
  <2>1. OnlyReaches(p[2] = j, m, set, before, ShownAt(SetColumn(t, j, s, v), p, m))
    BY <1>1, <1>5, SetColumnReaches
  <2>0. t'.text = t.text
    <3>1. SetColumn(t, j, s, v).text = t.text
      BY <1>1, <1>5, SetColumnMakes
    <3> QED BY <1>1, <3>1
  <2> HIDE DEF set, before
  <2>2. /\ p[2] = j => Reaches(m, set, Open(c, p, m), before, ShownAt(t', p, m))
        /\ p[2] # j => ShownAt(t', p, m) = before
    BY Zenon, <1>1, <1>4, <2>1 DEF OnlyReaches
  <2>3. CASE p[2] = j
    <3>1. Reached(c, p, m, set, before, ShownAt(t', p, m))
      BY <1>3, <1>5, <2>2, <2>3, ReachedMeant
    <3> QED BY Zenon, <1>2, <2>0, <2>2, <3>1 DEF before
  <2>4. CASE p[2] # j
    <3>1. Reached(c, p, m, set, before, before)
      BY <1>3, <2>4, ReachedOther
    <3> QED BY Zenon, <1>2, <2>0, <2>2, <2>4, <3>1 DEF before
  <2> QED BY <2>3, <2>4
<1>6. CASE s \notin ColumnSetters
  <2>1. t' = t
    BY <1>1, <1>6 DEF SetColumn
  <2>2. Reached(c, p, m, set, before, before)
    BY <1>3, <1>6, ReachedOther
  <2> QED BY Zenon, <1>2, <2>1, <2>2 DEF before
<1> QED BY <1>5, <1>6

LEMMA CallShown ==
    ASSUME IInv, PrintStored, NEW c, Legal(c.setter, c.value), Called(c),
           NEW p \in Positions(t), NEW m \in Members
    PROVE  /\ Reached(c, p, m, SetBy(c)[m], ShownAt(t, p, m), ShownAt(t', p, m))
           /\ t'.text = t.text
<1>1. CASE c.on = "table" /\ t' = SetTable(t, c.setter, c.value)
  BY Zenon, <1>1, CallOfTable
<1>2. CASE c.on = "row" /\ c.i \in DOMAIN t.rows /\ t' = SetRow(t, c.i, c.setter, c.value)
  BY Zenon, <1>2, CallOfRow
<1>3. CASE /\ c.on = "cell" /\ <<c.i, c.j>> \in Cells(t)
           /\ t' = SetCell(t, c.i, c.j, c.setter, c.value)
  BY Zenon, <1>3, CallOfCell
<1>4. CASE /\ c.on = "column" /\ c.j \in 1..estimate_num_columns(t)
           /\ t' = SetColumn(t, c.j, c.setter, c.value)
  BY Zenon, <1>4, CallOfColumn
<1> QED BY Zenon, <1>1, <1>2, <1>3, <1>4 DEF Called

\* Every call of a setter reaches the cells it is meant for and no others, and what
\* is set on the table or on a row no cell that has been printed.
THEOREM SettersReach == ASSUME ~OneExporter PROVE Spec => SetterReaches
<1>1. ASSUME IInv, PrintStored, IInv', NEW k \in DOMAIN Program.calls
      PROVE  CallReaches(Program.calls[k])
  <2> DEFINE c == Program.calls[k]
  <2>1. Legal(c.setter, c.value)
    BY <1>1, CallsLegal DEF IInv, Program
  <2> HIDE DEF c
  <2>2. ASSUME Called(c), NEW p \in Cells(t), NEW m \in Members
        PROVE  Reached(c, p, m, SetBy(c)[m],
                       Settled(t).cells[p[1]][p[2]][m], Settled(t').cells[p[1]][p[2]][m])
    <3>1. p \in Positions(t) /\ WellFormed(t) /\ WellFormed(t')
      BY <1>1, <2>2, CellsArePositions DEF IInv
    <3>2. Positions(t') = Positions(t)
      <4>1. t'.text = t.text
        BY <1>1, <2>1, <2>2, <3>1, CallShown
      <4> QED BY <4>1 DEF Positions, estimate_num_columns
    <3>3. Settled(t).cells[p[1]][p[2]][m] = ShownAt(t, p, m)
      BY <2>2, <3>1, SettledLooks DEF Look
    <3>4. Settled(t').cells[p[1]][p[2]][m] = ShownAt(t', p, m)
      BY <2>2, <3>1, <3>2, SettledLooks DEF Look
    <3> QED BY <1>1, <2>1, <2>2, <3>1, <3>3, <3>4, CallShown
  <2>3. CallReaches(c)
    BY <2>2 DEF CallReaches
  <2> QED BY <2>3 DEF c
<1>2. ASSUME IInv, PrintStored, IInv', [Next]_vars
      PROVE  [\A k \in DOMAIN Program.calls : CallReaches(Program.calls[k])]_vars
  BY <1>1, <1>2
<1> QED BY <1>2, StoredHolds, PTL DEF Spec, SetterReaches

----------------------------------------------------------------------------
(* Which calls never return. *)

\* A cell is wide enough for its padding and every line of its text, when the
\* column is not configured.
LEMMA CellWidth ==
    ASSUME NEW f, f["padding_left"] \in Nat, f["padding_right"] \in Nat, NEW s \in Texts
    PROVE  LET padding == f["padding_left"] + f["padding_right"]
               lines   == split_lines(s)
           IN  /\ get_cell_width(f, s) \in Nat
               /\ \A n \in 1..Len(lines) :
                     Len(lines[n]) \in Nat /\ padding + Len(lines[n]) <= get_cell_width(f, s)
               /\ (\A i \in 1..Len(s) : s[i] # "\n") =>
                     get_cell_width(f, s) = padding + Len(s)
<1> DEFINE padding == f["padding_left"] + f["padding_right"]
           lines == split_lines(s)
           g == [n \in 1..Len(lines) |-> Length(lines[n])]
           longest == Max({0} \cup {Length(lines[n]) : n \in DOMAIN lines})
<1>1. s \in Seq(Characters) /\ Len(s) \in Nat /\ padding \in Nat
  BY LenProperties DEF Texts
<1>2. lines \in Seq(Texts) /\ \A n \in 1..Len(lines) : \E a, b : LineOf(s, a, b, lines[n])
  BY <1>1, LinesOfText DEF Texts
<1> HIDE DEF lines
<1>3. Len(lines) \in Nat /\ DOMAIN lines = 1..Len(lines)
  BY <1>2, LenProperties
<1>4. ASSUME NEW n \in 1..Len(lines)
      PROVE  Len(lines[n]) \in Nat /\ Len(lines[n]) <= Len(s)
  <2>1. PICK a, b : LineOf(s, a, b, lines[n])
    BY <1>2
  <2>2. PICK N \in Nat : N = Len(s)
    BY <1>1
  <2>3. a \in 0..N /\ b \in 1..(N + 1) /\ a < b /\ lines[n] = SubSeq(s, a + 1, b - 1)
    BY <2>1, <2>2 DEF LineOf
  <2>4. a + 1 \in Nat /\ b - 1 \in Nat /\ 1 <= a + 1 /\ b - 1 <= Len(s)
    BY <2>2, <2>3
  <2>5. Len(lines[n]) = IF a + 1 <= b - 1 THEN b - 1 - (a + 1) + 1 ELSE 0
    BY <1>1, <2>3, <2>4, Windows
  <2> QED BY <2>2, <2>3, <2>5
<1>5. longest \in Nat /\ longest \in {0} \cup {g[n] : n \in 1..Len(lines)}
      /\ \A n \in 1..Len(lines) : g[n] <= longest
  <2>1. g \in [1..Len(lines) -> Nat]
    BY <1>4 DEF Length
  <2>2. {Length(lines[n]) : n \in DOMAIN lines} = {g[n] : n \in 1..Len(lines)}
    BY <1>3
  <2>3. 1..Len(lines) \in SUBSET (1..Len(lines))
    OBVIOUS
  <2> HIDE DEF g
  <2> QED BY <1>3, <2>1, <2>2, <2>3, GreatestOf
<1>6. get_cell_width(f, s) = padding + IF Len(lines) = 1 THEN Len(s) ELSE longest
  BY DEF get_cell_width, lines, Length
<1> HIDE DEF longest, padding
<1>7. get_cell_width(f, s) \in Nat
  BY <1>1, <1>5, <1>6
<1>8. ASSUME NEW n \in 1..Len(lines)
      PROVE  Len(lines[n]) \in Nat /\ padding + Len(lines[n]) <= get_cell_width(f, s)
  <2>1. g[n] = Len(lines[n])
    BY DEF Length
  <2>2. Len(lines[n]) \in Nat /\ Len(lines[n]) <= Len(s) /\ Len(lines[n]) <= longest
    BY <1>4, <1>5, <2>1
  <2> QED BY <1>1, <1>5, <1>6, <2>2
<1>9. ASSUME \A i \in 1..Len(s) : s[i] # "\n"
      PROVE  get_cell_width(f, s) = padding + Len(s)
  <2>1. Len(lines) = IF s = << >> THEN 0 ELSE 1
    BY <1>1, <1>9, OneLine DEF lines
  <2>2. CASE s = << >>
    <3>1. Len(lines) = 0 /\ Len(s) = 0
      BY <2>1, <2>2
    <3>2. longest = 0
      BY <1>5, <3>1
    <3> QED BY <1>6, <3>1, <3>2
  <2>3. CASE s # << >>
    BY <1>6, <2>1, <2>3
  <2> QED BY <2>2, <2>3
<1> QED BY <1>7, <1>8, <1>9 DEF padding, lines

\* The sheet of which a print knows every width.
Padded(u) ==
    /\ WellFormed(u)
    /\ \A p \in Positions(u) :
          LET f == u.cells[p[1]][p[2]]
          IN  f["padding_left"] \in Nat /\ f["padding_right"] \in Nat

LEMMA PaddedCells ==
    ASSUME NEW u, Padded(u), NEW i \in 1..Len(u.text), NEW j \in 1..estimate_num_columns(u)
    PROVE  /\ u.text[i][j] \in Texts
           /\ u.cells[i][j]["width"] \in Nat \cup {NoValue}
           /\ u.cells[i][j]["padding_left"] \in Nat /\ u.cells[i][j]["padding_right"] \in Nat
<1> DEFINE p == <<i, j>>
<1>1. WellFormed(u) /\ p \in Positions(u) /\ p[1] = i /\ p[2] = j
  BY DEF Padded, Positions
<1>2. u.cells[i][j] \in Formats
  <2> HIDE DEF p
  <2> QED BY <1>1, WellFormedCells
<1>3. u.text \in Seq(Seq(Texts)) /\ Len(u.text[i]) = estimate_num_columns(u)
  BY <1>1, WellFormedRows
<1>4. u.text[i] \in Seq(Texts)
  <2> DEFINE S == Seq(Texts)
  <2>1. u.text \in Seq(S)
    BY <1>3
  <2> HIDE DEF S
  <2> QED BY <2>1, ElementOfSeq DEF S
<1>5. u.text[i][j] \in Texts
  BY <1>3, <1>4, ElementOfSeq
<1>6. u.cells[i][j]["width"] \in Nat \cup {NoValue}
  <2>1. "width" \in TypedMembers /\ TypeOf("width") = Nat
    BY TypeOfMember DEF TypedMembers, Sizes, SizeMembers
  <2> QED BY <1>2, <2>1, FormatType DEF Typed
<1> HIDE DEF p
<1>7. u.cells[i][j]["padding_left"] \in Nat /\ u.cells[i][j]["padding_right"] \in Nat
  BY <1>1 DEF Padded
<1> QED BY <1>5, <1>6, <1>7

\* A column is as wide as it is configured to be or, when it is not, as its cells
\* need it to be.
LEMMA ColumnWidth ==
    ASSUME NEW u, Padded(u), NEW i \in 1..Len(u.text), NEW j \in 1..estimate_num_columns(u)
    PROVE  /\ get_configured_width(u, j) \in Nat
           /\ column_width(u, j) \in Nat
           /\ IF get_configured_width(u, j) = 0
              THEN get_cell_width(u.cells[i][j], u.text[i][j]) <= column_width(u, j)
              ELSE column_width(u, j) = get_configured_width(u, j)
<1> DEFINE n == Len(u.text)
           W(k) == u.cells[k][j]["width"]
           I == {k \in 1..n : W(k) # NoValue}
           g == [k \in 1..n |-> IF W(k) # NoValue THEN W(k) ELSE 0]
           h == [k \in 1..n |-> get_cell_width(u.cells[k][j], u.text[k][j])]
<1>1. n \in Nat /\ DOMAIN u.text = 1..n /\ DOMAIN u.cells = 1..n
  <2>1. WellFormed(u)
    BY DEF Padded
  <2>2. u.text \in Seq(Seq(Texts)) /\ u.cells \in Seq(Seq(Formats)) /\ Len(u.cells) = Len(u.text)
    BY <2>1, WellFormedRows
  <2> QED BY <2>2, LenProperties
<1>2. ASSUME NEW k \in 1..n PROVE g[k] \in Nat /\ h[k] \in Nat
  <2>1. /\ u.text[k][j] \in Texts /\ u.cells[k][j]["width"] \in Nat \cup {NoValue}
        /\ u.cells[k][j]["padding_left"] \in Nat /\ u.cells[k][j]["padding_right"] \in Nat
    BY <1>2, PaddedCells
  <2>2. get_cell_width(u.cells[k][j], u.text[k][j]) \in Nat
    BY <2>1, CellWidth
  <2> QED BY <1>2, <2>1, <2>2
<1>3. g \in [1..n -> Nat] /\ h \in [1..n -> Nat]
  <2> HIDE DEF n
  <2> QED BY <1>2
<1>4. get_configured_width(u, j) \in Nat
  <2>1. get_configured_width(u, j) = Max({0} \cup {W(k) : k \in I})
    <3>1. get_configured_width(u, j) =
              Max({0} \cup {u.cells[k][j]["width"] :
                               k \in {k \in DOMAIN u.cells : u.cells[k][j]["width"] # NoValue}})
      BY DEF get_configured_width
    <3>2. I = {k \in DOMAIN u.cells : u.cells[k][j]["width"] # NoValue}
      <4> HIDE DEF n
      <4> QED BY <1>1
    <3> HIDE DEF I
    <3> QED BY <3>1, <3>2
  <2>2. {W(k) : k \in I} = {g[k] : k \in I}
    <3>1. \A k \in I : g[k] = W(k)
      OBVIOUS
    <3> HIDE DEF g, I, W
    <3> QED BY <3>1
  <2>3. I \in SUBSET (1..n)
    OBVIOUS
  <2> HIDE DEF g, I, W, n
  <2> QED BY ZenonT(30), <1>1, <1>3, <2>1, <2>2, <2>3, GreatestOf
<1>5. get_computed_width(u, j) \in Nat /\ h[i] <= get_computed_width(u, j)
  <2>1. get_computed_width(u, j) = Max({0} \cup {h[k] : k \in 1..n})
    <3>1. {get_cell_width(u.cells[k][j], u.text[k][j]) : k \in DOMAIN u.text} = {h[k] : k \in 1..n}
      <4> HIDE DEF n
      <4> QED BY <1>1
    <3> HIDE DEF h, n
    <3> QED BY <3>1 DEF get_computed_width
  <2>2. 1..n \in SUBSET (1..n)
    OBVIOUS
  <2> HIDE DEF h
  <2> QED BY ZenonT(30), <1>1, <1>3, <2>1, <2>2, GreatestOf
<1>6. h[i] = get_cell_width(u.cells[i][j], u.text[i][j])
  OBVIOUS
<1> HIDE DEF h
<1> QED BY <1>4, <1>5, <1>6 DEF column_width

LEMMA Trimmed ==
    ASSUME NEW f, NEW s \in Texts
    PROVE  Len(trimmed(f, s)) \in Nat /\ Len(trimmed(f, s)) <= Len(s)
<1>1. s \in Seq(Characters) /\ Len(s) \in Nat
  BY LenProperties DEF Texts
<1>2. trimmed(f, s) \in {trim(s), trim_left(s), trim_right(s), s}
  BY DEF trimmed
<1>3. ASSUME NEW x \in {trim(s), trim_left(s), trim_right(s), s}
      PROVE  x \in Seq(Characters) /\ Len(x) <= Len(s)
  BY <1>1, Trim, TrimLeft, TrimRight
<1> QED BY <1>2, <1>3, LenProperties

\* A text without newlines that word_wrap cannot cut is in a narrow column.
LEMMA Uncut ==
    ASSUME NEW f, f["padding_left"] \in Nat, f["padding_right"] \in Nat, NEW s \in Texts,
           \A i \in 1..Len(s) : s[i] # "\n", NEW w \in Nat,
           get_cell_width(f, s) <= w
    PROVE  WrapEnds(s, content_width(f, w))
<1> DEFINE padding == f["padding_left"] + f["padding_right"]
           words == explode_string(s)
<1>1. s \in Seq(Characters) /\ Len(s) \in Nat /\ padding \in Nat
  BY LenProperties DEF Texts
<1>2. get_cell_width(f, s) = padding + Len(s)
  BY CellWidth
<1>3. words \in Seq(Seq(Characters)) /\ \A n \in 1..Len(words) : Len(words[n]) <= Len(s)
  BY <1>1, WordsType
<1>4. content_width(f, w) = IF w > padding THEN w - padding ELSE w
  BY DEF content_width
<1> HIDE DEF padding, words
<1>5. content_width(f, w) \in Nat /\ Len(s) <= content_width(f, w)
  BY <1>1, <1>2, <1>4
<1>6. ASSUME NEW n \in DOMAIN words PROVE Length(words[n]) <= content_width(f, w)
  <2> DEFINE S == Seq(Characters)
  <2>1. words \in Seq(S)
    BY <1>3
  <2>2. n \in 1..Len(words) /\ words[n] \in S
    <3> HIDE DEF S
    <3> QED BY <1>6, <2>1, LenProperties, ElementOfSeq
  <2>3. Len(words[n]) \in Nat /\ Len(words[n]) <= Len(s)
    BY <1>3, <2>2, LenProperties
  <2> QED BY <1>1, <1>5, <2>3 DEF Length
<1> QED BY <1>6 DEF WrapEnds, words

\* A line that does not fit into a column wide enough for its cell, or for two
\* letters, has a newline in its text.
LEMMA LinesOfCell ==
    ASSUME NEW f, f["padding_left"] \in Nat, f["padding_right"] \in Nat, NEW s \in Texts,
           NEW w \in Nat,
           (\A i \in 1..Len(s) : s[i] # "\n") => WrapEnds(s, content_width(f, w)),
           NEW n \in DOMAIN splitted_cell_text(f, s, w),
           num_spaces(f, trimmed(f, splitted_cell_text(f, s, w)[n]), w) < 0
    PROVE  IF \A i \in 1..Len(s) : s[i] # "\n"
           THEN w <= f["padding_left"] + f["padding_right"] /\ s # << >>
           ELSE w < get_cell_width(f, s)
<1> DEFINE padding == f["padding_left"] + f["padding_right"]
           lines == splitted_cell_text(f, s, w)
           line == lines[n]
<1>1. s \in Seq(Characters) /\ Len(s) \in Nat /\ padding \in Nat /\ DOMAIN s = 1..Len(s)
  BY LenProperties DEF Texts
<1>2. content_width(f, w) = IF w > padding THEN w - padding ELSE w
  BY DEF content_width
<1>3. ASSUME NEW x \in Seq(Characters), lines = split_lines(x)
      PROVE  n \in 1..Len(lines) /\ line \in Texts
  <2>1. lines \in Seq(Texts)
    BY <1>3, LinesOfText DEF Texts
  <2> HIDE DEF lines
  <2> QED BY <2>1, LenProperties, ElementOfSeq DEF lines
<1>4. ASSUME line \in Texts PROVE Len(line) \in Nat /\ padding + Len(line) > w
  <2>1. Len(trimmed(f, line)) \in Nat /\ Len(trimmed(f, line)) <= Len(line) /\ Len(line) \in Nat
    BY <1>4, Trimmed, LenProperties DEF Texts
  <2>2. w - (Len(trimmed(f, line)) + f["padding_left"] + f["padding_right"]) < 0
    BY DEF num_spaces, Length
  <2> HIDE DEF line
  <2> QED BY <2>1, <2>2
<1>5. CASE \A i \in 1..Len(s) : s[i] # "\n"
  <2> DEFINE x == word_wrap(s, content_width(f, w))
  <2>1. lines = split_lines(x)
    BY <1>1, <1>5 DEF splitted_cell_text, wrapped
  <2>2. content_width(f, w) \in Nat /\ WrapEnds(s, content_width(f, w))
    <3> HIDE DEF padding
    <3> QED BY <1>1, <1>2, <1>5
  <2>3. "\n" \in Characters /\ "-" \in Characters
    BY Zenon, MarksAreCharacters DEF Marks
  <2>4. x \in Seq(Characters)
    BY <1>1, <2>2, <2>3, WrapFits
  <2>5. Len(line) <= content_width(f, w)
    <3>1. \A k \in DOMAIN split_lines(x) : Length(split_lines(x)[k]) <= content_width(f, w)
      BY <1>1, <2>2, <2>3, LinesFit
    <3> HIDE DEF x
    <3> QED BY <2>1, <3>1 DEF Length
  <2> HIDE DEF x
  <2>6. n \in 1..Len(lines) /\ Len(line) \in Nat /\ padding + Len(line) > w
    BY <1>3, <1>4, <2>1, <2>4
  <2>7. s # << >>
    <3> SUFFICES ASSUME s = << >> PROVE FALSE
      OBVIOUS
    <3>1. x = << >>
      BY <2>2, NothingWrapped DEF x
    <3>2. Len(split_lines(<< >>)) = 0
      <4>1. PICK z \in Seq({1}) : z = << >>
        BY EmptySeq
      <4>2. Len(z) = 0
        BY <4>1
      <4>3. \A i \in 1..Len(z) : z[i] # "\n"
        BY <4>2
      <4> QED BY <4>1, <4>3, OneLine
    <3> HIDE DEF lines
    <3> QED BY <2>1, <2>6, <3>1, <3>2
  <2>8. w <= padding
    <3> HIDE DEF padding, line
    <3> QED BY <1>1, <1>2, <2>5, <2>6
  <2> QED BY <1>5, <2>7, <2>8
<1>6. CASE \E i \in 1..Len(s) : s[i] = "\n"
  <2>1. lines = split_lines(s)
    BY <1>1, <1>6 DEF splitted_cell_text, wrapped
  <2>2. n \in 1..Len(lines) /\ Len(line) \in Nat /\ padding + Len(line) > w
    BY <1>1, <1>3, <1>4, <2>1
  <2>3. get_cell_width(f, s) \in Nat /\ padding + Len(line) <= get_cell_width(f, s)
    <3>1. /\ get_cell_width(f, s) \in Nat
          /\ \A k \in 1..Len(split_lines(s)) :
                padding + Len(split_lines(s)[k]) <= get_cell_width(f, s)
      BY CellWidth
    <3> HIDE DEF padding, lines
    <3> QED BY <2>1, <2>2, <3>1
  <2>4. w < get_cell_width(f, s)
    <3> HIDE DEF padding, line
    <3> QED BY <1>1, <2>2, <2>3
  <2> QED BY <1>6, <2>4
<1> QED BY <1>5, <1>6

\* A print of a sheet whose widths are known hangs only in a narrow column.
LEMMA HangsInNarrow ==
    ASSUME NEW u, Padded(u), PrintHangs(u)
    PROVE  Narrow(u)
<1>1. /\ u.text \in Seq(Seq(Texts)) /\ DOMAIN u.text = 1..Len(u.text)
      /\ \A i \in 1..Len(u.text) : DOMAIN u.text[i] = 1..estimate_num_columns(u)
  <2> DEFINE S == Seq(Texts)
  <2>1. /\ u.text \in Seq(S)
        /\ \A i \in 1..Len(u.text) : Len(u.text[i]) = estimate_num_columns(u)
    BY WellFormedRows DEF Padded
  <2>2. DOMAIN u.text = 1..Len(u.text) /\ \A i \in 1..Len(u.text) : u.text[i] \in S
    <3> HIDE DEF S
    <3> QED BY <2>1, LenProperties, ElementOfSeq
  <2>3. \A i \in 1..Len(u.text) : DOMAIN u.text[i] = 1..Len(u.text[i])
    BY <2>2, LenProperties
  <2> QED BY <2>1, <2>2, <2>3
<1>2. PICK i \in DOMAIN u.text, j \in 1..estimate_num_columns(u) :
          LET f == u.cells[i][j]
              s == u.text[i][j]
              w == column_width(u, j)
          IN  IF (\A n \in DOMAIN s : s[n] # "\n") /\ ~WrapEnds(s, content_width(f, w)) THEN TRUE
              ELSE /\ f["font_align"] = "center"
                   /\ \E n \in DOMAIN splitted_cell_text(f, s, w) :
                         num_spaces(f, trimmed(f, splitted_cell_text(f, s, w)[n]), w) < 0
  BY <1>1 DEF PrintHangs
<1> DEFINE f == u.cells[i][j]
           s == u.text[i][j]
           w == column_width(u, j)
           width == get_configured_width(u, j)
           padding == f["padding_left"] + f["padding_right"]
<1>3. i \in 1..Len(u.text) /\ <<i, j>> \in Cells(u)
  BY <1>1 DEF Cells
<1>4. /\ s \in Texts /\ f["padding_left"] \in Nat /\ f["padding_right"] \in Nat
  BY <1>3, PaddedCells
<1>5. /\ width \in Nat /\ w \in Nat
      /\ IF width = 0 THEN get_cell_width(f, s) <= w ELSE w = width
  BY <1>3, ColumnWidth
<1>6. Len(s) \in Nat /\ DOMAIN s = 1..Len(s)
  BY <1>4, LenProperties DEF Texts
<1>7. get_cell_width(f, s) \in Nat /\ padding \in Nat
      /\ ((\A k \in 1..Len(s) : s[k] # "\n") => get_cell_width(f, s) = padding + Len(s))
  <2> HIDE DEF f, s
  <2>1. padding \in Nat
    BY <1>4
  <2>2. /\ get_cell_width(f, s) \in Nat
        /\ (\A k \in 1..Len(s) : s[k] # "\n") => get_cell_width(f, s) = padding + Len(s)
    BY <1>4, CellWidth
  <2> QED BY <2>1, <2>2
<1>8. content_width(f, w) = IF w > padding THEN w - padding ELSE w
  BY DEF content_width
<1>9. \/ width \in 1..(padding + 1)
      \/ /\ "\n" \in ToSet(s) /\ f["font_align"] = "center"
         /\ width \in 1..(get_cell_width(f, s) - 1)
  <2>1. CASE (\A n \in DOMAIN s : s[n] # "\n") /\ ~WrapEnds(s, content_width(f, w))
    <3>1. width # 0
      <4> HIDE DEF f, s, w, width
      <4> QED BY <1>4, <1>5, <1>6, <2>1, Uncut
    <3>2. content_width(f, w) <= 1
      <4>1. ~(content_width(f, w) > 1)
        BY <2>1 DEF WrapEnds
      <4> HIDE DEF f, w, padding
      <4> QED BY <1>5, <1>7, <1>8, <4>1
    <3> HIDE DEF f, s, w, width, padding
    <3> QED BY <1>5, <1>7, <1>8, <3>1, <3>2
  <2>2. CASE ~((\A n \in DOMAIN s : s[n] # "\n") /\ ~WrapEnds(s, content_width(f, w)))
    <3>1. PICK n \in DOMAIN splitted_cell_text(f, s, w) :
              num_spaces(f, trimmed(f, splitted_cell_text(f, s, w)[n]), w) < 0
      BY <1>2, <2>2
    <3>2. f["font_align"] = "center"
      BY <1>2, <2>2
    <3> HIDE DEF f, s, w, width
    <3>3. IF \A k \in 1..Len(s) : s[k] # "\n"
          THEN w <= padding /\ s # << >>
          ELSE w < get_cell_width(f, s)
      BY <1>4, <1>5, <1>6, <2>2, <3>1, LinesOfCell
    <3>4. CASE \A k \in 1..Len(s) : s[k] # "\n"
      <4>1. Len(s) # 0
        BY <1>4, <3>3, <3>4, EmptySeq DEF Texts
      <4> HIDE DEF padding
      <4> QED BY <1>5, <1>6, <1>7, <3>3, <3>4, <4>1
    <3>5. CASE ~(\A k \in 1..Len(s) : s[k] # "\n")
      <4>1. "\n" \in ToSet(s)
        BY <1>6, <3>5 DEF ToSet
      <4> HIDE DEF padding
      <4> QED BY <1>5, <1>7, <3>2, <3>3, <3>5, <4>1
    <3> QED BY <3>4, <3>5
  <2> QED BY <2>1, <2>2
<1> DEFINE c == <<i, j>>
<1>10. c \in Cells(u) /\ c[1] = i /\ c[2] = j
  BY <1>3
<1> HIDE DEF c
<1> QED BY <1>9, <1>10 DEF Narrow

\* Once looked at, every cell has its paddings.
LEMMA SettledPadded ==
    ASSUME NEW u, WellFormed(u)
    PROVE  Padded(Settled(u))
<1> DEFINE v == Settled(u)
<1>1. WellFormed(v) /\ v.text = u.text
  BY SettledLooks DEF Looked
<1>2. Positions(v) = Positions(u)
  BY <1>1 DEF Positions, estimate_num_columns
<1>3. ASSUME NEW p \in Positions(u), NEW m \in {"padding_left", "padding_right"}
      PROVE  v.cells[p[1]][p[2]][m] \in Nat
  <2>1. m \in TypedMembers /\ m \in Defaulted /\ m \in Members /\ m # "font_style" /\ TypeOf(m) = Nat
    BY TypeOfMember DEF TypedMembers, Sizes, Members, Defaulted, PaddingMembers
  <2>2. v.cells[p[1]][p[2]][m] = ShownAt(u, p, m) /\ v.cells[p[1]][p[2]] \in Formats
    BY <2>1, SettledLooks DEF Look
  <2>3. u.table[m] # NoValue
    BY <2>1 DEF WellFormed
  <2>4. v.cells[p[1]][p[2]][m] # NoValue
    BY <2>1, <2>2, <2>3 DEF ShownAt, Shown
  <2>5. v.cells[p[1]][p[2]][m] \in TypeOf(m) \cup {NoValue}
    BY <2>1, <2>2, FormatType DEF Typed
  <2> QED BY <2>1, <2>4, <2>5
<1> HIDE DEF v
<1> QED BY <1>1, <1>2, <1>3 DEF Padded, v

\* The setters that the Markdown exporter and E2Info call.
CalledSetters ==
    {"hide_border_top", "hide_border_bottom", "border_left", "border_right", "border_top",
     "border_bottom", "column_separator", "corner", "font_align"}

LEMMA CalledAreSetters ==
    CalledSetters \subseteq DOMAIN Setters /\ "font_style" \notin DOMAIN Setters
<1>1. ASSUME NEW s \in CalledSetters
      PROVE  \/ s \in DOMAIN BorderSetters \/ s \in DOMAIN CornerGroupSetters
             \/ s \in DOMAIN SeparatorSetters \/ s \in DOMAIN FontSetters
             \/ s \in DOMAIN HideSetters
  BY DEF CalledSetters, BorderSetters, BorderTexts, CornerGroupSetters, SeparatorSetters,
         FontSetters, HideSetters
<1> DEFINE h1 == Over(ShowSetters, HideSetters)
           h2 == Over(ScreenSetters, h1)
           h3 == Over(FontSetters, h2)
           h4 == Over(SeparatorSetters, h3)
           h5 == Over(CornerGroupSetters, h4)
           h6 == Over(CornerSetters, h5)
           h7 == Over(BorderGroupSetters, h6)
           h8 == Over(BorderSetters, h7)
<1>2. ASSUME NEW f, NEW g PROVE DOMAIN Over(f, g) = DOMAIN f \cup DOMAIN g
  BY DEF Over
<1>3. /\ DOMAIN h1 = DOMAIN ShowSetters \cup DOMAIN HideSetters
      /\ DOMAIN h2 = DOMAIN ScreenSetters \cup DOMAIN h1
      /\ DOMAIN h3 = DOMAIN FontSetters \cup DOMAIN h2
      /\ DOMAIN h4 = DOMAIN SeparatorSetters \cup DOMAIN h3
  BY <1>2, Zenon
<1>4. /\ DOMAIN h5 = DOMAIN CornerGroupSetters \cup DOMAIN h4
      /\ DOMAIN h6 = DOMAIN CornerSetters \cup DOMAIN h5
      /\ DOMAIN h7 = DOMAIN BorderGroupSetters \cup DOMAIN h6
      /\ DOMAIN h8 = DOMAIN BorderSetters \cup DOMAIN h7
  <2> HIDE DEF h4
  <2> QED BY <1>2, Zenon
<1>5. DOMAIN Setters = DOMAIN SizeSetters \cup DOMAIN h8
  <2>1. Setters = Over(SizeSetters, h8)
    BY Zenon DEF Setters
  <2> HIDE DEF h8
  <2> QED BY <1>2, <2>1, Zenon
<1>6. /\ "font_style" \notin DOMAIN SizeSetters /\ "font_style" \notin DOMAIN BorderSetters
      /\ "font_style" \notin DOMAIN BorderGroupSetters
  BY DEF SizeSetters, BorderSetters, BorderTexts, BorderColors, BorderBackgrounds,
         BorderGroupSetters
<1>7. /\ "font_style" \notin DOMAIN CornerSetters /\ "font_style" \notin DOMAIN CornerGroupSetters
      /\ "font_style" \notin DOMAIN SeparatorSetters /\ "font_style" \notin DOMAIN FontSetters
  BY DEF CornerSetters, CornerTexts, CornerColors, CornerBackgrounds, CornerGroupSetters,
         SeparatorSetters, FontSetters
<1>8. /\ "font_style" \notin DOMAIN ScreenSetters /\ "font_style" \notin DOMAIN ShowSetters
      /\ "font_style" \notin DOMAIN HideSetters
  BY DEF ScreenSetters, ShowSetters, HideSetters
<1> HIDE DEF h1, h2, h3, h4, h5, h6, h7, h8
<1>9. "font_style" \notin DOMAIN Setters
  BY <1>3, <1>4, <1>5, <1>6, <1>7, <1>8
<1>10. ASSUME NEW s \in CalledSetters PROVE s \in DOMAIN Setters
  BY <1>1, <1>3, <1>4, <1>5, <1>10
<1> QED BY <1>9, <1>10

LEMMA MarkdownCalls ==
    /\ Legal("hide_border_top", FALSE) /\ Legal("hide_border_bottom", FALSE)
    /\ Legal("border_left", <<"|">>) /\ Legal("border_right", <<"|">>)
    /\ Legal("column_separator", <<"|">>) /\ Legal("corner", <<"|">>)
    /\ Legal("font_align", "right") /\ Legal("font_align", "center")
<1> DEFINE calls == {"hide_border_top", "hide_border_bottom", "border_left", "border_right",
                     "column_separator", "corner", "font_align"}
<1>1. \A s \in calls : s \in DOMAIN Setters
  BY CalledAreSetters DEF CalledSetters
<1>2. <<"|">> \in Values /\ <<"|">> # NoValue
  <2>1. set_defaults["border_left"] = <<"|">>
    BY DEF set_defaults, Default, Members, SizeMembers, Defaulted, BorderTexts, CornerTexts,
           ShowMembers
  <2>2. "border_left" \in Defaulted /\ "border_left" \in Members
    BY DEF Members, Defaulted, BorderTexts
  <2> QED BY <2>1, <2>2, NoValueAssumption, Zenon DEF Values
<1>3. FALSE \in Values /\ FALSE # NoValue
  BY NoValueAssumption DEF Values
<1>4. ASSUME NEW v \in FontAlign PROVE v \in Values
  BY Zenon DEF Values
<1>5. \A v \in FontAlign : v # NoValue
  BY NoValueAssumption
<1>6. ASSUME NEW s \in calls, s \in Bordering PROVE Legal(s, <<"|">>)
  <2>1. <<"|">> \in BorderValues
    BY Zenon DEF BorderValues
  <2>2. \A m \in Setters[s] : m \in TextMembers
    BY <1>1, <1>6, SettersProper DEF Proper
  <2> QED BY <1>1, <1>2, <1>6, <2>1, <2>2, TypeOfMember DEF Legal, Bordering
<1>7. ASSUME NEW v \in FontAlign PROVE Legal("font_align", v)
  <2>1. "font_align" \in DOMAIN Setters
    BY <1>1
  <2>2. \A m \in Setters["font_align"] : m = "font_align"
    BY <2>1, SettersProper DEF Proper
  <2> QED BY <1>4, <1>5, <2>1, <2>2, TypeOfMember DEF Legal
<1>8. Legal("hide_border_top", FALSE) /\ Legal("hide_border_bottom", FALSE)
  <2>1. "hide_border_top" \in DOMAIN HideSetters /\ "hide_border_bottom" \in DOMAIN HideSetters
    BY DEF HideSetters
  <2> QED BY <1>1, <1>3, <2>1 DEF Legal
<1> QED BY <1>6, <1>7, <1>8 DEF Bordering, FontAlign

LEMMA MarkdownFormatType ==
    ASSUME NEW f \in Formats
    PROVE  /\ MarkdownFormat(f) \in Formats
           /\ \A m \in Members : f[m] # NoValue => MarkdownFormat(f)[m] # NoValue
<1> DEFINE Grows(a, b) == b \in Formats /\ \A m \in Members : a[m] # NoValue => b[m] # NoValue
           Step(a, s, v) == Grows(a, Set(a, s, v))
<1>1. ASSUME NEW a \in Formats
      PROVE  /\ Step(a, "hide_border_top", FALSE) /\ Step(a, "hide_border_bottom", FALSE)
             /\ Step(a, "border_left", <<"|">>) /\ Step(a, "border_right", <<"|">>)
             /\ Step(a, "column_separator", <<"|">>) /\ Step(a, "corner", <<"|">>)
  <2>1. ASSUME NEW s, NEW v, Legal(s, v) PROVE Step(a, s, v)
    BY <1>1, <2>1, SetType
  <2> HIDE DEF Step
  <2> QED BY <2>1, MarkdownCalls
<1>2. PICK a : a = Set(f, "hide_border_top", FALSE)
  OBVIOUS
<1>3. PICK b : b = Set(a, "hide_border_bottom", FALSE)
  OBVIOUS
<1>4. PICK c : c = Set(b, "border_left", <<"|">>)
  OBVIOUS
<1>5. PICK d : d = Set(c, "border_right", <<"|">>)
  OBVIOUS
<1>6. PICK e : e = Set(d, "column_separator", <<"|">>)
  OBVIOUS
<1>7. PICK g : g = Set(e, "corner", <<"|">>)
  OBVIOUS
<1>8. MarkdownFormat(f) = g
  BY <1>2, <1>3, <1>4, <1>5, <1>6, <1>7 DEF MarkdownFormat
<1>9. Grows(f, a) /\ Grows(a, b) /\ Grows(b, c)
  BY <1>1, <1>2, <1>3, <1>4
<1>10. Grows(c, d) /\ Grows(d, e) /\ Grows(e, g)
  BY <1>1, <1>5, <1>6, <1>7, <1>9
<1> QED BY <1>8, <1>9, <1>10

LEMMA AlignmentFormatType ==
    ASSUME NEW f \in Formats, NEW s
    PROVE  AlignmentFormat(f, s) \in Formats
<1>1. AlignmentFormat(f, s) \in {f, Set(f, "font_align", "right"), Set(f, "font_align", "center")}
  BY DEF AlignmentFormat
<1> QED BY <1>1, MarkdownCalls, SetType

LEMMA MarkdownCellType ==
    ASSUME NEW u, WellFormed(u), NEW i \in 1..Len(u.text), NEW j \in 1..estimate_num_columns(u)
    PROVE  MarkdownCell(u, i, j) \in Formats /\ MarkdownCell(u, i, j)["font_align"] \in FontAlign
<1> DEFINE m == "font_align"
           q1 == RowAfter(u, i, 2 * j - 1)
           q2 == RowAfter(u, i, 2 * j)
           kept == merge(u.cells[i][j], q1)
           looked == merge(kept, q2)
<1>1. u.cells[i][j] \in Formats
  BY WellFormedRows, ElementOfSeq
<1>2. q1 \in RowsLooked(u, i) /\ q2 \in RowsLooked(u, i)
  <2>1. 2 * j - 1 \in Nat /\ 2 * j - 1 > 0 /\ 2 * j \in Nat /\ 2 * j > 0
    BY WellFormedRows
  <2> QED BY <2>1, RowAfterLooks
<1> HIDE DEF q1, q2
<1>3. /\ q1 \in Formats /\ q1["font_style"] # NoValue
      /\ q2 \in Formats /\ q2["font_style"] # NoValue
      /\ \A x \in Members : q2[x] \in RowLooks(x, u.rows[i][x], u.table[x])
  BY <1>2, RowsLookedType
<1>4. kept \in Formats
  BY <1>1, <1>3, MergeType
<1>5. m \in Members /\ m \in Defaulted /\ m # "font_style" /\ m \in TypedMembers
  BY DEF Members, Defaulted, FontMembers, TypedMembers
<1>6. q2[m] # NoValue
  <2>1. u.table[m] # NoValue
    BY <1>5 DEF WellFormed
  <2> HIDE DEF m
  <2> QED BY <1>3, <1>5, <2>1 DEF RowLooks, Merged
<1> HIDE DEF kept
<1>7. looked \in Formats /\ looked[m] # NoValue
  <2>1. looked \in Formats
    BY <1>3, <1>4, MergeType
  <2>2. looked[m] = Merged(m, kept[m], q2[m])
    BY <1>5, MergeMember
  <2> HIDE DEF m, looked
  <2> QED BY <1>5, <1>6, <2>1, <2>2 DEF Merged
<1>8. MarkdownCell(u, i, j) = MarkdownFormat(looked)
  BY DEF MarkdownCell, KeptFormat, kept, q1, q2
<1> HIDE DEF looked
<1>9. MarkdownFormat(looked) \in Formats /\ MarkdownFormat(looked)[m] # NoValue
  BY <1>5, <1>7, MarkdownFormatType
<1>10. MarkdownFormat(looked)[m] \in FontAlign
  <2>1. MarkdownFormat(looked)[m] \in TypeOf(m) \cup {NoValue}
    BY <1>5, <1>9, FormatType DEF Typed
  <2> QED BY <1>9, <2>1, TypeOfMember
<1> QED BY <1>8, <1>9, <1>10

\* The texts of the row of alignments have no other characters.
LEMMA AlignmentTextsType ==
    ASSUME NEW D, ":" \in D, "-" \in D, NEW u, NEW k \in Nat, DOMAIN u.text[1] = 1..k,
           \A j \in 1..k : u.cells[1][j]["font_align"] \in FontAlign
    PROVE  AlignmentTexts(u) \in [1..k -> Seq(D)]
<1> DEFINE l == <<":", "-", "-", "-", "-">>
           c == <<":", "-", "-", "-", ":">>
           r == <<"-", "-", "-", "-", ":">>
           align(j) == u.cells[1][j]["font_align"]
           text(j) == CASE align(j) = "left"   -> l
                        [] align(j) = "center" -> c
                        [] align(j) = "right"  -> r
           f == [j \in 1..k |-> text(j)]
<1>1. l \in Seq(D) /\ c \in Seq(D) /\ r \in Seq(D)
  OBVIOUS
<1>2. AlignmentTexts(u) = f
  <2> HIDE DEF l, c, r
  <2>1. AlignmentTexts(u) = Alignment(u, l, c, r)
    BY DEF AlignmentTexts, l, c, r
  <2> QED BY <2>1 DEF Alignment
<1> HIDE DEF l, c, r
<1>3. ASSUME NEW j \in 1..k PROVE text(j) \in Seq(D)
  <2>1. align(j) \in FontAlign
    OBVIOUS
  <2> HIDE DEF align
  <2>2. text(j) \in {l, c, r}
    BY <2>1 DEF FontAlign
  <2> HIDE DEF text
  <2> QED BY <1>1, <2>2
<1> HIDE DEF text
<1>4. f \in [1..k -> Seq(D)]
  BY <1>3
<1> QED BY <1>2, <1>4

\* The sheet that the Markdown exporter prints.
LEMMA MarkdownSheet ==
    ASSUME NEW u, WellFormed(u), u.text # << >>, NEW kept
    PROVE  LET v == apply_markdown_format(u, kept).sheet
               D == {":", "-"}
           IN  /\ WellFormed(v)
               /\ \E texts \in [1..estimate_num_columns(u) -> Seq(D)] :
                      v.text = InsertAt(u.text, 2, texts)
<1> DEFINE D == {":", "-"}
           n == Len(u.text)
           k == estimate_num_columns(u)
           rows == [i \in 1..n |-> RowAfter(u, i, 2 * k)]
           g == [i \in 1..n |-> [j \in 1..k |-> MarkdownCell(u, i, j)]]
           cells == SubSeq([i \in 1..n |-> SubSeq(g[i], 1, k)], 1, n)
           changed == [text |-> u.text, table |-> u.table, rows |-> rows, cells |-> cells]
           texts == AlignmentTexts(changed)
           line == [j \in 1..k |-> AlignmentFormat(MarkdownFormat(u.table), texts[j])]
           v == [text |-> InsertAt(u.text, 2, texts), table |-> u.table,
                 rows |-> InsertAt(rows, 2, Format), cells |-> InsertAt(cells, 2, line)]
<1>1. /\ u.text \in Seq(Seq(Texts)) /\ n \in Nat \ {0} /\ k \in Nat
      /\ u.table \in Formats
      /\ Len(u.rows) = n /\ Len(u.cells) = n
      /\ \A i \in 1..n : Len(u.cells[i]) = k /\ Len(u.text[i]) = k /\ u.rows[i] \in Formats
  BY WellFormedRows, EmptySeq
<1>2. ASSUME NEW i \in 1..n PROVE rows[i] \in Formats
  <2>1. rows[i] \in {u.rows[i]} \cup RowsLooked(u, i)
    BY <1>1, <1>2, RowAfterLooks
  <2> HIDE DEF rows
  <2> QED BY <1>1, <1>2, <2>1, RowsLookedType
<1>3. SubSeq(rows, 1, n) = rows /\ rows \in Seq(Formats) /\ Len(rows) = n
  <2>1. rows \in [1..n -> Formats]
    BY <1>2
  <2> HIDE DEF rows, n
  <2> QED BY <1>1, <2>1, TupleSeq
<1>4. ASSUME NEW i \in 1..n, NEW j \in 1..k
      PROVE  g[i][j] \in Formats /\ g[i][j]["font_align"] \in FontAlign
  BY <1>4, MarkdownCellType
<1>5. g \in [1..n -> [1..k -> Formats]]
  <2> HIDE DEF n, k
  <2>1. ASSUME NEW i \in 1..n PROVE g[i] \in [1..k -> Formats]
    BY <1>4, <2>1
  <2> QED BY <2>1
<1>6. /\ cells \in Seq(Seq(Formats)) /\ Len(cells) = n
      /\ \A i \in 1..n : Len(cells[i]) = k /\ \A j \in 1..k : cells[i][j] = g[i][j]
  <2> HIDE DEF g, n, k
  <2>1. n \in Nat /\ k \in Nat
    BY <1>1
  <2> QED BY <1>5, <2>1, NestedTuples
<1>7. apply_markdown_format(u, kept).sheet = add_alignment_header_row(changed)
  <2>1. Tuple(Len(u.rows), LAMBDA i : RowAfter(u, i, 2 * Len(u.cells[i]))) = rows
    <3>1. [i \in 1..Len(u.rows) |-> RowAfter(u, i, 2 * Len(u.cells[i]))] = rows
      <4> HIDE DEF n, k
      <4> QED BY <1>1
    <3> HIDE DEF rows, n
    <3> QED BY <1>1, <1>3, <3>1 DEF Tuple
  <2>2. Tuple(Len(u.cells), LAMBDA i : Tuple(Len(u.cells[i]), LAMBDA j : MarkdownCell(u, i, j)))
            = cells
    <3>1. ASSUME NEW i \in 1..n
          PROVE  Tuple(Len(u.cells[i]), LAMBDA j : MarkdownCell(u, i, j)) = SubSeq(g[i], 1, k)
      <4>1. g[i] = [j \in 1..k |-> MarkdownCell(u, i, j)]
        BY <3>1
      <4> HIDE DEF g, k, n
      <4> QED BY <1>1, <3>1, <4>1 DEF Tuple
    <3> HIDE DEF g, k
    <3> QED BY <1>1, <3>1 DEF Tuple
  <2> HIDE DEF rows, cells
  <2> QED BY <2>1, <2>2 DEF apply_markdown_format
<1> DEFINE T == {x \in Seq(Texts) : Len(x) = k}
           C == {x \in Seq(Formats) : Len(x) = k}
<1>8. /\ texts \in [1..k -> Texts] /\ DOMAIN texts = 1..k /\ texts \in T
      /\ texts \in [1..k -> Seq(D)]
  <2>1. DOMAIN u.text[1] = 1..k
    <3> DEFINE S == Seq(Texts)
    <3>1. u.text \in Seq(S)
      BY <1>1
    <3> HIDE DEF S, k
    <3>2. u.text[1] \in S /\ Len(u.text[1]) = k
      BY <1>1, <3>1, ElementOfSeq
    <3> QED BY <3>2, LenProperties DEF S
  <2>2. \A j \in 1..k : cells[1][j]["font_align"] \in FontAlign
    <3>1. 1 \in 1..n
      BY <1>1
    <3> HIDE DEF cells, g, n, k
    <3> QED BY <1>4, <1>6, <3>1
  <2>3. changed.text = u.text /\ changed.cells = cells
    OBVIOUS
  <2>6. D \subseteq Characters
    BY Zenon, MarksAreCharacters DEF Marks
  <2>7. ":" \in D /\ "-" \in D
    OBVIOUS
  <2> HIDE DEF changed, cells, k, D
  <2>8. texts \in [1..k -> Seq(D)]
    BY <1>1, <2>1, <2>2, <2>3, <2>7, AlignmentTextsType
  <2>4. texts \in [1..k -> Texts]
    <3>1. Seq(D) \subseteq Texts
      BY <2>6, Widened DEF Texts
    <3> HIDE DEF texts
    <3> QED BY <2>8, <3>1
  <2> HIDE DEF texts
  <2>5. texts \in Seq(Texts) /\ Len(texts) = k
    BY <1>1, <2>4, TupleSeq
  <2> QED BY <2>4, <2>5, <2>8 DEF D
<1>9. line \in C
  <2>1. ASSUME NEW j \in 1..k PROVE line[j] \in Formats
    <3>1. MarkdownFormat(u.table) \in Formats
      BY <1>1, MarkdownFormatType
    <3>2. AlignmentFormat(MarkdownFormat(u.table), texts[j]) \in Formats
      BY <3>1, AlignmentFormatType
    <3> QED BY <2>1, <3>2
  <2>2. line \in [1..k -> Formats]
    <3> HIDE DEF k
    <3> QED BY <2>1
  <2> HIDE DEF line, k
  <2>3. line \in Seq(Formats) /\ Len(line) = k
    BY <1>1, <2>2, TupleSeq
  <2> QED BY <2>3
<1>10. add_alignment_header_row(changed) = v
  <2>1. /\ changed.text = u.text /\ changed.table = u.table /\ changed.rows = rows
        /\ changed.cells = cells
    OBVIOUS
  <2> HIDE DEF changed, rows, cells
  <2> QED BY <1>8, <2>1 DEF add_alignment_header_row
<1>11. u.text \in Seq(T) /\ cells \in Seq(C)
  <2> DEFINE A == Seq(Texts)
             B == Seq(Formats)
  <2>1. u.text \in Seq(A) /\ cells \in Seq(B)
    BY <1>1, <1>6
  <2>2. T = {x \in A : Len(x) = k} /\ C = {x \in B : Len(x) = k}
    OBVIOUS
  <2> HIDE DEF A, B, T, C, cells, k
  <2>3. \A i \in 1..n : u.text[i] \in T /\ cells[i] \in C
    BY <1>1, <1>6, <2>1, <2>2, ElementOfSeq
  <2>4. u.text \in [1..n -> T] /\ cells \in [1..n -> C]
    <3>1. u.text = [i \in 1..n |-> u.text[i]] /\ cells = [i \in 1..n |-> cells[i]]
      BY <1>6, <2>1, LenProperties
    <3> HIDE DEF n
    <3> QED BY <2>3, <3>1
  <2> HIDE DEF n
  <2> QED BY <1>1, <2>4, TupleSeq
<1>12. u.text # << >> /\ cells # << >> /\ rows # << >>
  <2> HIDE DEF cells, rows
  <2> QED BY <1>1, <1>3, <1>6, EmptySeq
<1>13. /\ v.text \in Seq(T) /\ Len(v.text) = n + 1
       /\ v.cells \in Seq(C) /\ Len(v.cells) = n + 1
       /\ v.rows \in Seq(Formats) /\ Len(v.rows) = n + 1
  <2>1. v.text = InsertAt(u.text, 2, texts) /\ v.cells = InsertAt(cells, 2, line)
        /\ v.rows = InsertAt(rows, 2, Format)
    OBVIOUS
  <2> HIDE DEF v, T, C, cells, line, rows, texts
  <2>0. Len(u.text) = n
    OBVIOUS
  <2> HIDE DEF n
  <2>2. v.text \in Seq(T) /\ Len(v.text) = n + 1
    <3>1. u.text \in Seq(T) /\ u.text # << >> /\ texts \in T
      BY <1>8, <1>11, <1>12
    <3>2. PICK w : w = u.text
      OBVIOUS
    <3>3. w \in Seq(T) /\ w # << >> /\ texts \in T
      BY <3>1, <3>2
    <3>4. InsertAt(w, 2, texts) \in Seq(T) /\ Len(InsertAt(w, 2, texts)) = Len(w) + 1
      BY <3>3, Inserted
    <3> QED BY <2>0, <2>1, <3>2, <3>4
  <2>3. v.cells \in Seq(C) /\ Len(v.cells) = n + 1
    <3>1. cells \in Seq(C) /\ cells # << >> /\ line \in C
      BY <1>9, <1>11, <1>12
    <3>2. InsertAt(cells, 2, line) \in Seq(C) /\ Len(InsertAt(cells, 2, line)) = Len(cells) + 1
      BY <3>1, Inserted
    <3> QED BY <1>6, <2>1, <3>2
  <2>4. v.rows \in Seq(Formats) /\ Len(v.rows) = n + 1
    <3>1. rows \in Seq(Formats) /\ rows # << >> /\ Format \in Formats
      BY <1>3, <1>12, EmptyFormat
    <3>2. InsertAt(rows, 2, Format) \in Seq(Formats)
          /\ Len(InsertAt(rows, 2, Format)) = Len(rows) + 1
      BY <3>1, Inserted
    <3> QED BY <1>3, <2>1, <3>2
  <2> QED BY <2>2, <2>3, <2>4
<1>14. \A i \in 1..(n + 1) : v.text[i] \in T /\ v.cells[i] \in C
  <2> HIDE DEF v, T, C
  <2> QED BY <1>13, ElementOfSeq
<1>15. v.text \in Seq(Seq(Texts)) /\ v.cells \in Seq(Seq(Formats))
  <2>1. T \subseteq Seq(Texts) /\ C \subseteq Seq(Formats)
    OBVIOUS
  <2> HIDE DEF v, T, C
  <2> DEFINE A == Seq(Texts)
             B == Seq(Formats)
  <2>2. T \subseteq A /\ C \subseteq B
    BY <2>1
  <2> HIDE DEF A, B
  <2>3. v.text \in Seq(A) /\ v.cells \in Seq(B)
    BY <1>13, <2>2, Widened
  <2> QED BY <2>3 DEF A, B
<1>16. v \in Sheets /\ v.table = u.table
  <2>1. v = [text |-> v.text, table |-> u.table, rows |-> v.rows, cells |-> v.cells]
    OBVIOUS
  <2> HIDE DEF v
  <2> QED BY <1>1, <1>13, <1>15, <2>1 DEF Sheets
<1>17. estimate_num_columns(v) = k /\ \A i \in 1..(n + 1) : Len(v.text[i]) = k /\ Len(v.cells[i]) = k
  <2>1. \A i \in 1..(n + 1) : Len(v.text[i]) = k /\ Len(v.cells[i]) = k
    <3> HIDE DEF v, k
    <3> QED BY <1>14
  <2>2. v.text # << >> /\ 1 \in 1..(n + 1)
    <3> HIDE DEF v
    <3> QED BY <1>1, <1>13, EmptySeq
  <2> HIDE DEF v, k
  <2> QED BY <2>1, <2>2 DEF estimate_num_columns
<1>18. \A m \in Defaulted : u.table[m] # NoValue
  BY DEF WellFormed
<1>19. v.text = InsertAt(u.text, 2, texts)
  OBVIOUS
<1> HIDE DEF v, k, n, T, C, changed, texts, D
<1>20. WellFormed(v)
  BY <1>13, <1>16, <1>17, <1>18 DEF WellFormed
<1>21. apply_markdown_format(u, kept).sheet = v
  BY <1>7, <1>10
<1>22. \E y \in [1..k -> Seq(D)] : v.text = InsertAt(u.text, 2, y)
  BY <1>8, <1>19
<1> QED BY <1>20, <1>21, <1>22 DEF D, k

\* What is known after a call that never returned: no step follows it, and the
\* table is as it was.
Waits ==
    /\ out.kind = "print hangs" => PrintHangs(Settled(t))
    /\ out.kind = "dump hangs" => t.text # << >> /\ MarkdownHangs(t, formats)

LEMMA WaitsInit == Init => Waits
BY DEF Init, Nothing, Waits

LEMMA WaitsNext == ASSUME ~OneExporter, IInv, Waits, [Next]_vars PROVE Waits'
<1>1. CASE AddRow \/ SetTableFormat \/ SetRowFormat \/ SetCellFormat \/ SetColumnFormat
  <2>1. out' = Nothing
    BY Zenon, <1>1 DEF AddRow, SetTableFormat, SetRowFormat, SetCellFormat, SetColumnFormat
  <2> QED BY ZenonT(30), <2>1 DEF Nothing, Waits
<1>2. CASE PrintTable \/ Str \/ Shape \/ DumpMarkdown \/ DumpAsciiDoc \/ DumpLatex
  <2>1. out'.kind \in Exports
    BY <1>2, Writes
  <2> QED BY Zenon, <2>1 DEF Exports, Waits
<1>3. CASE PrintNeverReturns
  <2>1. t' = t /\ PrintHangs(Settled(t)) /\ out' = Written("print hangs", << >>)
    BY Zenon, <1>3 DEF PrintNeverReturns
  <2>2. out'.kind = "print hangs"
    BY Zenon, <2>1 DEF Written
  <2>3. PrintHangs(Settled(t'))
    BY Zenon, <2>1
  <2> QED BY Zenon, <2>2, <2>3 DEF Waits
<1>4. CASE DumpNeverReturns
  <2>1. /\ t' = t /\ formats' = formats /\ t.text # << >> /\ MarkdownHangs(t, formats)
        /\ out' = Written("dump hangs", << >>)
    BY Zenon, <1>4 DEF DumpNeverReturns, Exportable
  <2>2. out'.kind = "dump hangs"
    BY Zenon, <2>1 DEF Written
  <2>3. t'.text # << >> /\ MarkdownHangs(t', formats')
    BY Zenon, <2>1
  <2> QED BY Zenon, <2>2, <2>3 DEF Waits
<1>5. CASE PrintE2Nodes
  <2>1. PICK k \in DOMAIN Program.nodes :
            out' = [kind |-> "e2", text |-> printE2Nodes(Cout(TRUE), Program.nodes[k]),
                    nodes |-> Program.nodes[k], shape |-> << >>]
    BY <1>5 DEF PrintE2Nodes
  <2>2. out'.kind = "e2"
    BY <2>1
  <2> QED BY Zenon, <2>2 DEF Waits
<1>6. CASE UNCHANGED vars
  BY Zenon, <1>6 DEF vars, Waits
<1> QED BY <1>1, <1>2, <1>3, <1>4, <1>5, <1>6 DEF Next

\* A print or a dump that never returns has a column configured so narrow that
\* word_wrap cuts off no letter or that no spaces fit beside a centred line
\* (format.hpp:433-437, printer.hpp:98-113).
THEOREM HangsExplained == ASSUME ~OneExporter PROVE Spec => []HangsOnlyIfNarrow
<1>1. ASSUME IInv, Waits PROVE HangsOnlyIfNarrow
  <2>1. WellFormed(t)
    BY <1>1 DEF IInv
  <2>2. ASSUME out.kind = "print hangs" PROVE Narrow(Settled(t))
    <3>1. PrintHangs(Settled(t))
      BY Zenon, <1>1, <2>2 DEF Waits
    <3> QED BY <2>1, <3>1, SettledPadded, HangsInNarrow
  <2>3. ASSUME out.kind = "dump hangs"
        PROVE  Narrow(Settled(apply_markdown_format(t, formats).sheet))
    <3> DEFINE v == apply_markdown_format(t, formats).sheet
    <3>1. t.text # << >> /\ PrintHangs(Settled(v))
      BY Zenon, <1>1, <2>3 DEF Waits, MarkdownHangs
    <3>2. WellFormed(v)
      BY Zenon, <2>1, <3>1, MarkdownSheet
    <3> HIDE DEF v
    <3>3. Narrow(Settled(v))
      BY <3>1, <3>2, SettledPadded, HangsInNarrow
    <3> QED BY <3>3 DEF v
  <2> QED BY Zenon, <2>2, <2>3 DEF HangsOnlyIfNarrow
<1> DEFINE HInv == IInv /\ Waits
<1>2. Init => HInv
  BY IndInit, WaitsInit
<1>3. ASSUME ~OneExporter PROVE HInv /\ [Next]_vars => HInv'
  BY <1>3, IndNext, WaitsNext
<1>4. HInv => HangsOnlyIfNarrow
  BY <1>1
<1> QED BY <1>2, <1>3, <1>4, PTL DEF Spec
=============================================================================
