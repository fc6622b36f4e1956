----------------------------- MODULE TabSheet ------------------------------
(***************************************************************************)
(* A table of tabulate (table.hpp, table_internal.hpp, row.hpp, cell.hpp,  *)
(* column.hpp) and what Printer makes of it (printer.hpp). A sheet holds   *)
(* the texts of the cells, row by row, and the formats of the table, of    *)
(* its rows and of its cells.                                              *)
(***************************************************************************)
EXTENDS TabFormat, TabText, TabStyle

\* The constructor of Table.
create == [text |-> << >>, table |-> set_defaults, rows |-> << >>, cells |-> << >>]

estimate_num_columns(t) == IF t.text = << >> THEN 0 ELSE Len(t.text[1])

\* TableInternal::add_row: a row and its cells are made without formats.
AppendRow(t, texts) ==
    [text  |-> Append(t.text, texts), table |-> t.table,
     rows  |-> Append(t.rows, Format),
     cells |-> Append(t.cells, Tuple(Len(texts), LAMBDA j : Format))]

\* A row shorter than the first is filled up with empty cells.
add_row(t, texts) ==
    LET columns == estimate_num_columns(t)
        size    == IF Len(texts) < columns THEN columns ELSE Len(texts)
    IN  AppendRow(t, Tuple(size, LAMBDA j : IF j <= Len(texts) THEN texts[j] ELSE << >>))

set_text(t, i, j, s) == [t EXCEPT !.text[i][j] = s]

----------------------------------------------------------------------------
\* Row::format and Cell::format store what they return: from then on it is the
\* row's, or the cell's, own format.
LookAtRow(t, i) == [t EXCEPT !.rows[i] = merge(@, t.table)]

LookAtCell(t, i, j) ==
    LET r == LookAtRow(t, i) IN [r EXCEPT !.cells[i][j] = merge(@, r.rows[i])]

\* Mutant: a cell is looked at without its row.
LookAtAll_SkipsRow(t) ==
    [text  |-> t.text, table |-> t.table,
     rows  |-> Tuple(Len(t.rows), LAMBDA i : merge(t.rows[i], t.table)),
     cells |-> Tuple(Len(t.cells), LAMBDA i :
                   Tuple(Len(t.cells[i]), LAMBDA j : merge(t.cells[i][j], t.table)))]

\* Every cell looked at once.
LookAtAll(t) ==
    [text  |-> t.text, table |-> t.table,
     rows  |-> Tuple(Len(t.rows), LAMBDA i : merge(t.rows[i], t.table)),
     cells |-> Tuple(Len(t.cells), LAMBDA i :
                   Tuple(Len(t.cells[i]), LAMBDA j :
                       merge(t.cells[i][j], merge(t.rows[i], t.table))))]

\* Printing looks at every cell at least three times; the third look changes
\* nothing any more.
Settled(t) == LookAtAll(LookAtAll(LookAtAll(t)))

\* The format a print of t uses for a cell.
Look(t, i, j) == Settled(t).cells[i][j]

\* A setter called on the format of the table, of a row, of a cell, of the
\* cells of a column.
SetTable(t, s, v) == [t EXCEPT !.table = Set(@, s, v)]

SetRow(t, i, s, v) ==
    LET r == LookAtRow(t, i) IN [r EXCEPT !.rows[i] = Set(@, s, v)]

SetCell(t, i, j, s, v) ==
    LET c == LookAtCell(t, i, j) IN [c EXCEPT !.cells[i][j] = Set(@, s, v)]

SetColumn(t, j, s, v) ==
    IF s \notin ColumnSetters THEN t
    ELSE [text  |-> t.text, table |-> t.table,
          rows  |-> Tuple(Len(t.rows), LAMBDA i : merge(t.rows[i], t.table)),
          cells |-> Tuple(Len(t.cells), LAMBDA i :
                        [t.cells[i] EXCEPT ![j] =
                            Set(merge(@, merge(t.rows[i], t.table)), s, v)])]

----------------------------------------------------------------------------
\* The size of cells. f is the format of a cell.
get_cell_width(f, s) ==
    LET lines == split_lines(s)
    IN  f["padding_left"] + f["padding_right"]
            + IF Len(lines) = 1 THEN Length(s)
              ELSE Max({0} \cup {Length(lines[n]) : n \in DOMAIN lines})

\* The larger of what the cells of a column are configured to.
get_configured_width(t, j) ==
    Max({0} \cup {t.cells[i][j]["width"] :
                     i \in {i \in DOMAIN t.cells : t.cells[i][j]["width"] # NoValue}})

get_computed_width(t, j) ==
    Max({0} \cup {get_cell_width(t.cells[i][j], t.text[i][j]) : i \in DOMAIN t.text})

column_width(t, j) ==
    IF get_configured_width(t, j) # 0 THEN get_configured_width(t, j)
    ELSE get_computed_width(t, j)

\* Mutant: the padding is forgotten.
content_width_NoPadding(f, width) == width

content_width(f, width) ==
    LET padding == f["padding_left"] + f["padding_right"]
    IN  IF width > padding THEN width - padding ELSE width

\* The text of a cell in a column of this width; newlines in it are respected.
wrapped(f, s, width) ==
    IF \E n \in DOMAIN s : s[n] = "\n" THEN s ELSE word_wrap(s, content_width(f, width))

get_cell_height(f, s, width) ==
    LET text     == wrapped(f, s, width)
        newlines == Cardinality({n \in DOMAIN text : text[n] = "\n"})
    IN  f["padding_top"] + newlines
            + (IF text # << >> /\ Last(text) # "\n" THEN 1 ELSE 0) + f["padding_bottom"]

get_configured_height(t, i) ==
    LET cells == t.cells[i]
    IN  Max({0} \cup {cells[j]["height"] :
                         j \in {j \in DOMAIN cells : cells[j]["height"] # NoValue}})

get_computed_height(t, i, widths) ==
    Max({0} \cup {get_cell_height(t.cells[i][j], t.text[i][j], widths[j]) :
                     j \in DOMAIN t.cells[i]})

\* Mutant: a configured height goes before the height of the text, as a
\* configured width does.
row_height_Configured(t, i, widths) ==
    IF get_configured_height(t, i) # 0 THEN get_configured_height(t, i)
    ELSE get_computed_height(t, i, widths)

row_height(t, i, widths) ==
    Max({get_configured_height(t, i), get_computed_height(t, i, widths)})
=============================================================================
