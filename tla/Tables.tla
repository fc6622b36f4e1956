------------------------------- MODULE Tables -------------------------------
(***************************************************************************)
(* A program that uses tabulate: it adds the rows of a table and, in any   *)
(* order and between the rows, calls setters of the formats of the table,  *)
(* of its rows, cells and columns, prints the table and exports it; or it  *)
(* prints E2 nodes (src/e2Info.cpp). What makes the order matter is that   *)
(* looking at a format stores it (table_internal.hpp, Cell::format) and    *)
(* that an exporter changes the formats and puts them back.                *)
(***************************************************************************)
EXTENDS TabExport, E2Info

CONSTANTS
    Programs,     \* what the program may do, see ProgramsAssumption
    OneExporter   \* whether one MarkdownExporter does all the dumps

\* Texts and borders are made of letters, one column wide each; an escape sequence
\* is none.
Letter == STRING \ Codes

E2Node ==
    [nb_id : Letter, mcc : Letter, mnc : Letter, mnc_digit_len : Letter, type : Letter,
     cu_du_id : Letter, rf : Seq(Letter)]

\* A program has the rows it adds, the calls of setters it may make (on what, with
\* its place, which setter, with what value), the lists of nodes it may print and
\* a bound on its steps. No row is longer than the first: get_computed_width reads
\* the cells of every row in every column.
ASSUME ProgramsAssumption ==
    /\ OneExporter \in BOOLEAN
    /\ \A p \in DOMAIN Programs :
          /\ Programs[p].steps \in Nat
          /\ Programs[p].rows \in Seq(Seq(Seq(Letter)))
          /\ \A r \in DOMAIN Programs[p].rows :
                Len(Programs[p].rows[r]) <= Len(Programs[p].rows[1])
          /\ \A k \in DOMAIN Programs[p].calls :
                LET c == Programs[p].calls[k]
                IN  /\ c.setter \in DOMAIN Setters \cup {"font_style"}
                    /\ c.value # NoValue
                    /\ c.setter \in DOMAIN SizeSetters => c.value \in Nat
                    /\ c.setter = "font_align" => c.value \in FontAlign
                    /\ c.setter = "font_style" => c.value \in SUBSET FontStyle
                    /\ c.setter \in ColorSetters => c.value \in Color
                    /\ c.setter \in TextSetters => c.value \in Seq(Letter)
          /\ Programs[p].nodes \in Seq(Seq(E2Node))
          /\ \A k \in DOMAIN Programs[p].nodes :
                \A n \in DOMAIN Programs[p].nodes[k] : ToString(n - 1) \in Letter

\* The borders, corners and separators that programs set.
Borders ==
    UNION {{Programs[p].calls[k].value :
               k \in {k \in DOMAIN Programs[p].calls :
                         Programs[p].calls[k].setter \in TextSetters}} :
              p \in DOMAIN Programs}

VARIABLES
    prog,      \* the program, an index of Programs
    t,         \* the table
    own,       \* what has been set on each cell itself, or on its column
    formats,   \* formats_ of the exporter
    out,       \* what the last step wrote
    steps      \* the calls so far, those of add_row not counted

vars == <<prog, t, own, formats, out, steps>>

Program == Programs[prog]

Nothing == [kind |-> "none", text |-> << >>, nodes |-> << >>, shape |-> << >>]

Written(kind, text) == [kind |-> kind, text |-> text, nodes |-> << >>, shape |-> << >>]

\* What is left of a call that never returns.
Hung == {"print hangs", "dump hangs"}

Init ==
    /\ prog \in DOMAIN Programs
    /\ t = create
    /\ own = << >>
    /\ formats = << >>
    /\ out = Nothing
    /\ steps = 0

\* The program's next call, unless the last one never returned.
NextCall ==
    /\ out.kind \notin Hung
    /\ steps < Program.steps
    /\ steps' = steps + 1
    /\ UNCHANGED prog

----------------------------------------------------------------------------
AddRow ==
    /\ out.kind \notin Hung
    /\ Len(t.text) < Len(Program.rows)
    /\ LET u == add_row(t, Program.rows[Len(t.text) + 1])
       IN  /\ t' = u
           /\ own' = Append(own, Tuple(Len(Last(u.text)), LAMBDA j : Format))
    /\ out' = Nothing
    /\ UNCHANGED <<prog, formats, steps>>

SetTableFormat ==
    /\ NextCall
    /\ \E k \in DOMAIN Program.calls :
          LET c == Program.calls[k]
          IN  /\ c.on = "table"
              /\ t' = SetTable(t, c.setter, c.value)
    /\ out' = Nothing
    /\ UNCHANGED <<own, formats>>

SetRowFormat ==
    /\ NextCall
    /\ \E k \in DOMAIN Program.calls :
          LET c == Program.calls[k]
          IN  /\ c.on = "row"
              /\ c.i \in DOMAIN t.rows
              /\ t' = SetRow(t, c.i, c.setter, c.value)
    /\ out' = Nothing
    /\ UNCHANGED <<own, formats>>

SetCellFormat ==
    /\ NextCall
    /\ \E k \in DOMAIN Program.calls :
          LET c == Program.calls[k]
          IN  /\ c.on = "cell"
              /\ c.i \in DOMAIN t.cells
              /\ c.j \in DOMAIN t.cells[c.i]
              /\ t' = SetCell(t, c.i, c.j, c.setter, c.value)
              /\ own' = [own EXCEPT ![c.i][c.j] = Set(@, c.setter, c.value)]
    /\ out' = Nothing
    /\ UNCHANGED formats

SetColumnFormat ==
    /\ NextCall
    /\ \E k \in DOMAIN Program.calls :
          LET c == Program.calls[k]
          IN  /\ c.on = "column"
              /\ c.j \in 1..estimate_num_columns(t)
              /\ t' = SetColumn(t, c.j, c.setter, c.value)
              /\ own' = IF c.setter \notin ColumnSetters THEN own
                        ELSE Tuple(Len(own), LAMBDA i :
                                 [own[i] EXCEPT ![c.j] = Set(@, c.setter, c.value)])
    /\ out' = Nothing
    /\ UNCHANGED formats

----------------------------------------------------------------------------
\* The program writes the table to a terminal.
PrintTable ==
    /\ NextCall
    /\ ~PrintHangs(Settled(t))
    /\ t' = Settled(t)
    /\ out' = Written("print", print_table(Cout(TRUE), t'))
    /\ UNCHANGED <<own, formats>>

\* Table::str
Str ==
    /\ NextCall
    /\ ~PrintHangs(Settled(t))
    /\ t' = Settled(t)
    /\ out' = Written("str", print_table(StringStream, t'))
    /\ UNCHANGED <<own, formats>>

\* The table's width and height, for which it is printed.
Shape ==
    /\ NextCall
    /\ ~PrintHangs(Settled(t))
    /\ t' = Settled(t)
    /\ out' = [kind |-> "shape", text |-> << >>, nodes |-> << >>, shape |-> shape(t')]
    /\ UNCHANGED <<own, formats>>

PrintNeverReturns ==
    /\ NextCall
    /\ PrintHangs(Settled(t))
    /\ out' = Written("print hangs", << >>)
    /\ UNCHANGED <<t, own, formats>>

\* The exporters read the first row before they know there is one.
Exportable == t.text # << >>

DumpMarkdown ==
    /\ NextCall
    /\ Exportable
    /\ ~MarkdownHangs(t, formats)
    /\ LET d == MarkdownDump(t, formats)
       IN  /\ t' = d.sheet
           /\ formats' = IF OneExporter THEN d.formats ELSE << >>
           /\ out' = Written("markdown", d.text)
    /\ UNCHANGED own

DumpNeverReturns ==
    /\ NextCall
    /\ Exportable
    /\ MarkdownHangs(t, formats)
    /\ out' = Written("dump hangs", << >>)
    /\ UNCHANGED <<t, own, formats>>

DumpAsciiDoc ==
    /\ NextCall
    /\ Exportable
    /\ LET d == AsciiDoc(t)
       IN  /\ t' = d.sheet
           /\ out' = Written("asciidoc", d.text)
    /\ UNCHANGED <<own, formats>>

DumpLatex ==
    /\ NextCall
    /\ Exportable
    /\ \E indentation \in {NoValue, 2} :
          LET d == Latex(t, [indentation |-> indentation])
          IN  /\ t' = d.sheet
              /\ out' = Written("latex", d.text)
    /\ UNCHANGED <<own, formats>>

\* E2Info::printE2Nodes, with tables of its own.
PrintE2Nodes ==
    /\ NextCall
    /\ \E k \in DOMAIN Program.nodes :
          out' = [kind |-> "e2", text |-> printE2Nodes(Cout(TRUE), Program.nodes[k]),
                  nodes |-> Program.nodes[k], shape |-> << >>]
    /\ UNCHANGED <<t, own, formats>>

Next ==
    \/ AddRow
    \/ SetTableFormat \/ SetRowFormat \/ SetCellFormat \/ SetColumnFormat
    \/ PrintTable \/ Str \/ Shape \/ PrintNeverReturns
    \/ DumpMarkdown \/ DumpNeverReturns \/ DumpAsciiDoc \/ DumpLatex
    \/ PrintE2Nodes

Spec == Init /\ [][Next]_vars

----------------------------------------------------------------------------
Cells(u) == {<<i, j>> : i \in DOMAIN u.text, j \in 1..estimate_num_columns(u)}

LookAt(u, c) == Look(u, c[1], c[2])

\* The parts of a table always fit together: every row has the cells of the
\* first, whatever add_row was given, and every cell its format.
TypeOK ==
    /\ prog \in DOMAIN Programs
    /\ steps \in 0..Program.steps
    /\ DOMAIN t.table = Members
    /\ Len(t.text) = Len(t.rows) /\ Len(t.text) = Len(t.cells) /\ Len(t.text) = Len(own)
    /\ \A i \in DOMAIN t.text :
          /\ DOMAIN t.rows[i] = Members
          /\ DOMAIN t.text[i] = 1..estimate_num_columns(t)
          /\ DOMAIN t.cells[i] = DOMAIN t.text[i] /\ DOMAIN own[i] = DOMAIN t.text[i]
          /\ \A j \in DOMAIN t.cells[i] :
                DOMAIN t.cells[i][j] = Members /\ DOMAIN own[i][j] = Members
    /\ out.kind \in {"none", "print", "str", "shape", "markdown", "asciidoc", "latex", "e2"} \cup Hung

\* Printer takes the value of every optional of a cell's format but the sizes
\* without asking whether there is one (table_internal.hpp:209-389): whatever has
\* been called before, there is one. A format can lose nothing to a merge.
NoEmptyOptional ==
    \A c \in Cells(t) : \A m \in Defaulted : LookAt(t, c)[m] # NoValue

\* What has been set on a cell, or on its column, is what is printed for it,
\* whatever is set on its row or on the table before or after, and whatever has
\* been printed or exported in between.
OwnSettingShown ==
    \A c \in Cells(t) : \A m \in Members :
        LET set == own[c[1]][c[2]][m]
        IN  set # NoValue =>
                IF m = "font_style" THEN set \subseteq LookAt(t, c)[m]
                ELSE LookAt(t, c)[m] = set

\* What call c sets on a format, the cells it is about, and whether nothing nearer
\* to the cell at p already has a value for the member m.
SetBy(c) == Set(Format, c.setter, c.value)

Meant(c, p) ==
    \/ c.on = "table"
    \/ c.on = "row" /\ p[1] = c.i
    \/ c.on = "cell" /\ p = <<c.i, c.j>>
    \/ c.on = "column" /\ p[2] = c.j /\ c.setter \in ColumnSetters

Open(c, p, m) ==
    /\ c.on \in {"table", "row"} => t.cells[p[1]][p[2]][m] = NoValue
    /\ c.on = "table" => t.rows[p[1]][m] = NoValue

\* The step is a call of the setter of c.
Called(c) ==
    /\ steps' # steps /\ out' = Nothing
    /\ \/ c.on = "table" /\ t' = SetTable(t, c.setter, c.value)
       \/ c.on = "row" /\ c.i \in DOMAIN t.rows /\ t' = SetRow(t, c.i, c.setter, c.value)
       \/ /\ c.on = "cell" /\ <<c.i, c.j>> \in Cells(t)
          /\ t' = SetCell(t, c.i, c.j, c.setter, c.value)
       \/ /\ c.on = "column" /\ c.j \in 1..estimate_num_columns(t)
          /\ t' = SetColumn(t, c.j, c.setter, c.value)

\* The outputs of the calls that have just stored a value on every cell.
Stored == {"print", "str", "shape"}

\* What call c, which sets the member m to set, makes of what the cell at p shows.
Reached(c, p, m, set, before, after) ==
    IF ~Meant(c, p) \/ set = NoValue THEN after = before
    ELSE IF m = "font_style"
    THEN /\ before \cup set \subseteq after
         /\ after \subseteq before \cup set \cup {"bold"}
    ELSE /\ after = IF Open(c, p, m) THEN set ELSE before
         /\ (out.kind \in Stored /\ c.on \in {"table", "row"} /\ m \in Defaulted)
                => after = before

\* If the step is call c, each cell is printed as that call means it to be.
CallReaches(c) ==
    Called(c) =>
        LET set    == SetBy(c)
            before == Settled(t).cells
            after  == Settled(t').cells
        IN  \A p \in Cells(t) : \A m \in Members :
                Reached(c, p, m, set[m], before[p[1]][p[2]][m], after[p[1]][p[2]][m])

\* A setter changes how a cell is printed only if it is meant for the cell, and only
\* the members it sets; it does so unless a nearer format already has a value, which
\* after a print each cell has. Only styles add up, and bold comes with them when
\* merging finds a style twice.
SetterReaches ==
    [][\A k \in DOMAIN Program.calls : CallReaches(Program.calls[k])]_vars

Exports == {"print", "str", "shape", "markdown", "asciidoc", "latex"}

\* Writing a table leaves it as it was: the same texts, and every cell will be
\* printed as it would have been. The Markdown exporter changes the format of
\* every cell for the dump and puts it back (markdown_exporter.hpp:103-135).
DumpRestores ==
    [][out'.kind \in Exports =>
          /\ t'.text = t.text
          /\ \A c \in Cells(t) : LookAt(t', c) = LookAt(t, c)]_vars

----------------------------------------------------------------------------
Visible(s) == Only(s, ToSet(s) \ Codes)

Ink(s) == ToSet(s) \ (Space \cup {"-"})

\* The lines of s are all equally long and none is empty.
Rectangular(s) ==
    \E w \in 1..Len(s) :
        /\ (Len(s) + 1) % (w + 1) = 0
        /\ \A k \in DOMAIN s : s[k] = "\n" <=> k % (w + 1) = 0

\* A table whose lines can be expected to match: every cell has all its borders,
\* one character wide in every direction, a text without newlines and a column
\* that is wider than its padding; no row is empty.
Ruled(u) ==
    LET f(c)    == u.cells[c[1]][c[2]]
        left(c) == Len(f(c)["border_left"])
                       + IF c[2] > 1 /\ f(c)["show_column_separator"]
                         THEN Len(f(c)["column_separator"]) ELSE 0
    IN  /\ \A c \in Cells(u) :
              /\ \A m \in ShowMembers : f(c)[m]
              /\ left(c) = 1 /\ Len(f(c)["border_right"]) = 1
              /\ \A m \in CornerTexts \cup {"border_top", "border_bottom"} : Len(f(c)[m]) = 1
              /\ "\n" \notin ToSet(u.text[c[1]][c[2]])
              /\ column_widths(u)[c[2]] > f(c)["padding_left"] + f(c)["padding_right"]
        /\ \A i \in DOMAIN u.text : row_height(u, i, column_widths(u)) > 0

\* The width of a line: n columns and a border on the left of each and at the end.
LineWidth(widths, n) ==
    LET right[j \in 0..n] == IF j = 0 THEN 1 ELSE right[j - 1] + widths[j] + 1
    IN  right[n]

\* The lines of a printed table all end in the same place, however its texts are
\* wrapped, hyphenated, aligned and padded; its shape is theirs, and as wide as the
\* columns and the borders between them.
Aligned ==
    (out.kind \in {"print", "str", "shape"} /\ t.text # << >> /\ Ruled(t)) =>
        /\ out.kind # "shape" => Rectangular(Visible(out.text))
        /\ out.kind = "shape" =>
              /\ out.shape[1] = LineWidth(column_widths(t), estimate_num_columns(t))
              /\ (out.shape[1] + 1) * out.shape[2] = Len(print_table(StringStream, t)) + 1

\* What is written around the texts: borders and corners, those a program sets
\* among them, or the commands of a markup language.
Markup(kind) ==
    CASE kind = "asciidoc" ->
            {"[", "c", "o", "l", "s", "=", "\"", "<", "^", ">", ",", "]", "|", "*", "_"}
      [] kind = "latex" ->
            {"\\begin{tabular}", "{", "l", "c", "r", "}", "&", "\\\\", "\\end{tabular}"}
      [] OTHER -> {"|", "+", ":", "EM DASH"} \cup UNION {ToSet(s) : s \in Borders}

\* No letter of a cell is cut off or moved when its text is wrapped, hyphenated
\* and spread over the lines of its row: the letters that are no other cell's and
\* not written around the texts are written once each, in their order.
NothingLost ==
    out.kind \in Exports \ {"shape"} =>
        \A c \in Cells(t) :
            LET others == UNION {Ink(t.text[d[1]][d[2]]) : d \in Cells(t) \ {c}}
                mine   == Ink(t.text[c[1]][c[2]]) \ (others \cup Markup(out.kind))
            IN  Only(out.text, mine) = Only(t.text[c[1]][c[2]], mine)

\* What is only between the texts of the cells: the ends of the lines, and borders
\* and spaces when no text has them.
Between ==
    {"\n"} \cup
        {x \in {"|", "+", " "} : \A c \in Cells(t) : x \notin ToSet(t.text[c[1]][c[2]])}

\* No border that a program sets is longer than a line.
BordersInLine == \A s \in Borders : "\n" \notin ToSet(s)

\* The style of a cell stays in it. On a terminal no font style reaches what is
\* between the texts, and no colour the end of a line; elsewhere nothing is
\* styled at all.
StylesStayInCells ==
    LET s == out.text
        Ended(k, ends) == \A n \in k..Len(s) : s[n] \in ends =>
                              \E r \in k..n : s[r] = ResetCode
    IN  IF out.kind \in {"print", "e2"}
        THEN \A k \in DOMAIN s : s[k] \in Codes \ {ResetCode} =>
                /\ Ended(k, IF s[k] \in Range(FontCodes) THEN Between ELSE {"\n"})
                /\ \E r \in k..Len(s) : s[r] = ResetCode
        ELSE \A k \in DOMAIN s : s[k] \notin Codes

\* A column of u is configured narrower than its padding and one letter more than a
\* hyphen, or than a line of a text with newlines, which is to be centred.
Narrow(u) ==
    \E c \in Cells(u) :
        LET f     == u.cells[c[1]][c[2]]
            s     == u.text[c[1]][c[2]]
            width == get_configured_width(u, c[2])
        IN  \/ width \in 1..(f["padding_left"] + f["padding_right"] + 1)
            \/ /\ "\n" \in ToSet(s) /\ f["font_align"] = "center"
               /\ width \in 1..(get_cell_width(f, s) - 1)

\* A print or a dump that never returns has been given such a column: with widths
\* that tabulate has computed, or that leave two letters, word_wrap always gets on
\* (format.hpp:433-435) and no line is longer than its column (printer.hpp:98).
\* A dump has a row of its own, whose padding is the table's, not the cells'.
HangsOnlyIfNarrow ==
    /\ out.kind = "print hangs" => Narrow(Settled(t))
    /\ out.kind = "dump hangs" =>
          Narrow(Settled(apply_markdown_format(t, formats).sheet))

\* What the cells of a node are to hold, below the titles of their columns.
NodeCells(n, node) ==
    << <<ToString(n)>>, <<node.nb_id>>, <<node.mcc>>, <<node.mnc>>,
       <<node.mnc_digit_len>>, <<node.type>>,
       IF NODE_IS_MONOLITHIC(node.type) \/ NODE_IS_CU(node.type) THEN << >>
       ELSE <<node.cu_du_id>>,
       node.rf >>

\* Where the bars of a line are, and what is written after each of them and before
\* the next.
Bars(line) == {k \in DOMAIN line : line[k] = "|"}

BetweenBars(line) ==
    LET Behind(k) == Cardinality({b \in Bars(line) : b <= k})
    IN  [j \in 1..Cardinality(Bars(line)) |->
            FlattenSeq([k \in DOMAIN line |->
                           IF k \notin Bars(line) /\ Behind(k) = j /\ line[k] \notin Space
                           THEN <<line[k]>> ELSE << >>])]

\* The lines that have more than borders.
InkedLines(s) ==
    SelectSeq(split_lines(s),
              LAMBDA line : ~(Ink(line) \subseteq Codes \cup {"|", "+", "EM DASH"}))

\* printE2Nodes prints a table into a cell of another one, yet each node is on a
\* line of its own, in the order of the nodes, and each of its identifiers between
\* the same bars as its title, which are in the same places of every line. A node
\* without a cu_du_id has nothing there.
E2NodesShown ==
    out.kind = "e2" =>
        LET inked      == InkedLines(out.text)
            lines      == [n \in DOMAIN inked |-> Visible(inked[n])]
            Row(cells) == << << >> >> \o cells \o << << >>, << >> >>
        IN  /\ Len(lines) = Len(out.nodes) + 2
            /\ BetweenBars(lines[1]) = << <<"Information of connected E2 nodes">>, << >> >>
            /\ BetweenBars(lines[2]) = Row([j \in DOMAIN Titles |-> <<Titles[j]>>])
            /\ \A n \in DOMAIN out.nodes :
                  /\ BetweenBars(lines[n + 2]) = Row(NodeCells(n - 1, out.nodes[n]))
                  /\ Bars(lines[n + 2]) = Bars(lines[2])
=============================================================================
