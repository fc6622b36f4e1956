----------------------------- MODULE TabExport -----------------------------
(***************************************************************************)
(* The exporters of tabulate: what dump returns for a sheet and, for       *)
(* Markdown, what it leaves behind in the formats of the cells.            *)
(***************************************************************************)
EXTENDS TabPrint

\* Row i after n looks at it; the third look changes nothing any more.
RowAfter(t, i, n) ==
    CASE n = 0 -> t.rows[i]
      [] n = 1 -> merge(t.rows[i], t.table)
      [] OTHER -> merge(merge(t.rows[i], t.table), t.table)

\* The cells of the rows in I have been looked at, from left to right.
LookAtCells(t, I) ==
    [text  |-> t.text, table |-> t.table,
     rows  |-> Tuple(Len(t.rows), LAMBDA i :
                   IF i \in I THEN RowAfter(t, i, Len(t.cells[i])) ELSE t.rows[i]),
     cells |-> Tuple(Len(t.cells), LAMBDA i :
                   Tuple(Len(t.cells[i]), LAMBDA j :
                       IF i \in I THEN merge(t.cells[i][j], RowAfter(t, i, j))
                       ELSE t.cells[i][j]))]

\* The cells of the first row, which have been looked at, say how their columns
\* are aligned.
Alignment(t, left, center, right) ==
    [j \in DOMAIN t.text[1] |->
        CASE t.cells[1][j]["font_align"] = "left"   -> left
          [] t.cells[1][j]["font_align"] = "center" -> center
          [] t.cells[1][j]["font_align"] = "right"  -> right]

----------------------------------------------------------------------------
\* The setters the exporter calls on every cell.
MarkdownFormat(f) ==
    LET bar == <<"|">>
        g   == Set(Set(f, "hide_border_top", FALSE), "hide_border_bottom", FALSE)
        h   == Set(Set(g, "border_left", bar), "border_right", bar)
    IN  Set(Set(h, "column_separator", bar), "corner", bar)

\* What `for (auto row : table)` goes through, in this order, and what
\* `for (auto &cell : row)` does: every row has as many cells as the first.
RowIterator(t) == 1..Len(t.text)

CellIterator(t) == 1..estimate_num_columns(t)

\* The place of a cell among the cells, in that order.
Place(t, i, j) == (i - 1) * estimate_num_columns(t) + j

\* A cell is looked at and its format kept,
KeptFormat(t, i, j) == merge(t.cells[i][j], RowAfter(t, i, 2 * j - 1))

\* then it is looked at again and changed.
MarkdownCell(t, i, j) ==
    MarkdownFormat(merge(KeptFormat(t, i, j), RowAfter(t, i, 2 * j)))

KeptFormats(t) ==
    LET cells == RowIterator(t) \X CellIterator(t)
        At(k) == CHOOSE c \in cells : Place(t, c[1], c[2]) = k
    IN  Tuple(Len(t.text) * estimate_num_columns(t),
              LAMBDA k : KeptFormat(t, At(k)[1], At(k)[2]))

AlignmentTexts(t) ==
    Alignment(t, <<":", "-", "-", "-", "-">>, <<":", "-", "-", "-", ":">>,
              <<"-", "-", "-", "-", ":">>)

\* The format of a cell of the row of alignments: f, aligned like its column.
AlignmentFormat(f, s) ==
    CASE Head(s) = "-" -> Set(f, "font_align", "right")
      [] Last(s) = "-" -> f
      [] OTHER -> Set(f, "font_align", "center")

\* The row that stands second in Markdown.
add_alignment_header_row(t) ==
    LET texts == AlignmentTexts(t)
    IN  [text  |-> InsertAt(t.text, 2, texts), table |-> t.table,
         rows  |-> InsertAt(t.rows, 2, Format),
         cells |-> InsertAt(t.cells, 2, [j \in DOMAIN texts |->
                       AlignmentFormat(MarkdownFormat(t.table), texts[j])])]

apply_markdown_format(t, formats) ==
    LET changed ==
            [text  |-> t.text, table |-> t.table,
             rows  |-> Tuple(Len(t.rows), LAMBDA i : RowAfter(t, i, 2 * Len(t.cells[i]))),
             cells |-> Tuple(Len(t.cells), LAMBDA i :
                           Tuple(Len(t.cells[i]), LAMBDA j : MarkdownCell(t, i, j)))]
    IN  [sheet   |-> add_alignment_header_row(changed),
         formats |-> formats \o KeptFormats(t)]

\* Mutant: the kept formats are handed out one too late.
restore_table_format_OffByOne(t, formats) ==
    LET u == [t EXCEPT !.text = RemoveAt(@, 2), !.rows = RemoveAt(@, 2)]
    IN  [text |-> u.text, table |-> u.table, rows |-> u.rows,
         cells |-> Tuple(Len(u.text), LAMBDA i : Tuple(Len(u.text[i]), LAMBDA j :
                       formats[Min({Place(u, i, j) + 1, Len(formats)})]))]

\* Mutant: the row of alignments stays, and keeps the formats that are left over.
restore_table_format_KeepsRow(t, formats) ==
    [t EXCEPT !.cells = Tuple(Len(t.text), LAMBDA i : Tuple(Len(t.text[i]), LAMBDA j :
        IF Place(t, i, j) > Len(formats) THEN t.cells[i][j] ELSE formats[Place(t, i, j)]))]

\* t has been printed: looking at its rows again changes nothing. The row of
\* alignments is removed and the cells get the kept formats, from the first on.
restore_table_format(t, formats) ==
    LET u == [t EXCEPT !.text = RemoveAt(@, 2), !.rows = RemoveAt(@, 2)]
    IN  [text |-> u.text, table |-> u.table, rows |-> u.rows,
         cells |-> Tuple(Len(u.text), LAMBDA i : Tuple(Len(u.text[i]), LAMBDA j :
                       formats[Place(u, i, j)]))]

\* MarkdownExporter::dump of an exporter that holds formats: the text, the
\* sheet after it and the formats the exporter holds then.
MarkdownDump(t, formats) ==
    LET x == apply_markdown_format(t, formats)
        p == Settled(x.sheet)
    IN  [text    |-> print_table(StringStream, p),
         sheet   |-> restore_table_format(p, x.formats),
         formats |-> x.formats]

\* Markdown hangs like print does, with the formats it has set.
MarkdownHangs(t, formats) == PrintHangs(Settled(apply_markdown_format(t, formats).sheet))

----------------------------------------------------------------------------
add_formatted_cell(f, s) ==
    LET bold   == IF "bold" \in f["font_style"] THEN <<"*">> ELSE << >>
        italic == IF "italic" \in f["font_style"] THEN <<"_">> ELSE << >>
    IN  bold \o italic \o s \o italic \o bold

\* A sequence with a separator between its members.
Separated(s, separator) ==
    FlattenSeq([k \in DOMAIN s |-> s[k] \o IF k < Len(s) THEN separator ELSE << >>])

\* AsciiDocExporter::dump
AsciiDoc(t) ==
    LET u      == LookAtCells(LookAtCells(t, {1}), DOMAIN t.text)
        Row(i) == FlattenSeq([j \in DOMAIN u.text[i] |->
                      <<"|">> \o add_formatted_cell(u.cells[i][j], u.text[i][j])])
    IN  [sheet |-> u,
         text  |->
            <<"[", "c", "o", "l", "s", "=", "\"">>
                \o Separated(Alignment(u, <<"<">>, <<"^">>, <<">">>), <<",">>)
                \o <<"\"", "]", "\n", "|", "=", "=", "=", "\n">>
                \o Join(Len(u.text), LAMBDA i :
                       Row(i) \o <<"\n">> \o IF i = 1 THEN <<"\n">> ELSE << >>)
                \o <<"|", "=", "=", "=">>]

\* What goes before a row, as the options of the exporter say.
Indentation(options) ==
    IF options.indentation = NoValue THEN << >> ELSE Spaces(options.indentation)

\* LatexExporter::dump
Latex(t, options) ==
    LET u == LookAtCells(t, {1})
    IN  [sheet |-> u,
         text  |->
            <<"\\begin{tabular}", "\n", "{">>
                \o FlattenSeq(Alignment(u, <<"l">>, <<"c">>, <<"r">>)) \o <<"}", "\n">>
                \o Join(Len(u.text), LAMBDA i :
                       Indentation(options) \o Separated(u.text[i], <<" ", "&", " ">>)
                           \o <<" ", "\\\\", "\n">>)
                \o <<"\\end{tabular}">>]
=============================================================================
