----------------------------- MODULE TabPrint ------------------------------
(***************************************************************************)
(* What Printer::print_table writes for a sheet whose cells have been      *)
(* looked at (table_internal.hpp, printer.hpp): a sequence of characters   *)
(* and escape sequences.                                                   *)
(***************************************************************************)
EXTENDS TabSheet

\* n spaces, none when n is negative.
Spaces(n) == IF n < 1 THEN << >> ELSE [k \in 1..n |-> " "]

newline(stream) == reset(stream) \o <<"\n">>

Join(n, Part(_)) == FlattenSeq([k \in 1..n |-> Part(k)])

trimmed(f, line) ==
    CASE f["trim_mode"] = "kBoth"  -> trim(line)
      [] f["trim_mode"] = "kLeft"  -> trim_left(line)
      [] f["trim_mode"] = "kRight" -> trim_right(line)
      [] OTHER -> line

\* The spaces a line leaves free in its column; unsigned in the code.
num_spaces(f, line, width) ==
    width - (Length(line) + f["padding_left"] + f["padding_right"])

\* Mutant: the font style is not taken back before the padding.
styled_content_NoReset(stream, f, line) ==
    apply_element_style(stream, f["font_color"], f["font_background_color"], f["font_style"])
        \o line

\* The text alone has the font style, not the padding.
styled_content(stream, f, line) ==
    apply_element_style(stream, f["font_color"], f["font_background_color"], f["font_style"])
        \o line \o reset(stream)
        \o apply_element_style(stream, f["font_color"], f["font_background_color"], {})

print_content_left_aligned(stream, f, line, width) ==
    styled_content(stream, f, line) \o Spaces(num_spaces(f, line, width))

print_content_right_aligned(stream, f, line, width) ==
    Spaces(num_spaces(f, line, width)) \o styled_content(stream, f, line)

print_content_center_aligned(stream, f, line, width) ==
    LET n      == num_spaces(f, line, width)
        before == IF n % 2 = 0 THEN n \div 2 ELSE n \div 2 + 1
    IN  Spaces(before) \o styled_content(stream, f, line) \o Spaces(n - before)

\* One line of the text of a cell, with its padding.
print_content(stream, f, line, width) ==
    Spaces(f["padding_left"])
        \o (CASE f["font_align"] = "left"   -> print_content_left_aligned(stream, f, line, width)
              [] f["font_align"] = "center" -> print_content_center_aligned(stream, f, line, width)
              [] f["font_align"] = "right"  -> print_content_right_aligned(stream, f, line, width))
        \o Spaces(f["padding_right"])

\* Line k of a row, in the cell at column j of n.
print_row_in_cell(stream, f, j, n, width, k, lines) ==
    (IF f["show_border_left"]
     THEN Styled(stream, f["border_left_color"], f["border_left_background_color"],
                 f["border_left"])
     ELSE << >>)
    \o (IF f["show_column_separator"]
        THEN Styled(stream, f["column_separator_color"], f["column_separator_background_color"],
                    IF j # 1 THEN f["column_separator"] ELSE << >>)
        ELSE << >>)
    \o apply_element_style(stream, f["font_color"], f["font_background_color"], {})
    \o (IF k - f["padding_top"] \in DOMAIN lines
        THEN print_content(stream, f, trimmed(f, lines[k - f["padding_top"]]), width)
        ELSE Spaces(width))
    \o reset(stream)
    \o (IF j = n /\ f["show_border_right"]
        THEN Styled(stream, f["border_right_color"], f["border_right_background_color"],
                    f["border_right"])
        ELSE << >>)

has_border_top(f) ==
    (f["corner_top_left"] # << >> \/ f["border_top"] # << >>) /\ f["show_border_top"]

\* The first row has blanks instead when row separators are shown.
print_cell_border_top(stream, f, i, j, n, width) ==
    LET shown(s) == IF f["show_row_separator"] /\ i = 1 THEN <<" ">> ELSE s
    IN  IF ~has_border_top(f) THEN << >>
        ELSE Styled(stream, f["corner_top_left_color"], f["corner_top_left_background_color"],
                    shown(f["corner_top_left"]))
             \o Join(width, LAMBDA c :
                    Styled(stream, f["border_top_color"], f["border_top_background_color"],
                           shown(f["border_top"])))
             \o (IF j = n
                 THEN Styled(stream, f["corner_top_right_color"],
                             f["corner_top_right_background_color"],
                             shown(f["corner_top_right"]))
                 ELSE << >>)

print_cell_border_bottom(stream, f, j, n, width) ==
    IF (f["corner_bottom_left"] = << >> /\ f["border_bottom"] = << >>)
           \/ ~f["show_border_bottom"]
    THEN << >>
    ELSE Styled(stream, f["corner_bottom_left_color"], f["corner_bottom_left_background_color"],
                f["corner_bottom_left"])
         \o Join(width, LAMBDA c :
                Styled(stream, f["border_bottom_color"], f["border_bottom_background_color"],
                       f["border_bottom"]))
         \o (IF j = n
             THEN Styled(stream, f["corner_bottom_right_color"],
                         f["corner_bottom_right_background_color"], f["corner_bottom_right"])
             ELSE << >>)

----------------------------------------------------------------------------
\* The lines of the text of a cell.
splitted_cell_text(f, s, width) == split_lines(wrapped(f, s, width))

\* The lines of row i between its borders.
print_row(stream, t, i, widths) ==
    LET n      == estimate_num_columns(t)
        height == row_height(t, i, widths)
        text   == Tuple(n, LAMBDA j :
                      splitted_cell_text(t.cells[i][j], t.text[i][j], widths[j]))
        Line(k) == Join(n, LAMBDA j :
                       print_row_in_cell(stream, t.cells[i][j], j, n, widths[j], k, text[j]))
    IN  Join(height, LAMBDA k : Line(k) \o IF k < height THEN newline(stream) ELSE << >>)

\* The border above row i, and its newline if every cell of the row has one.
print_top(stream, t, i, widths) ==
    LET n == estimate_num_columns(t)
    IN  Join(n, LAMBDA j : print_cell_border_top(stream, t.cells[i][j], i, j, n, widths[j]))
        \o (IF \A j \in 1..n : has_border_top(t.cells[i][j]) THEN newline(stream) ELSE << >>)

print_bottom(stream, t, i, widths) ==
    LET n == estimate_num_columns(t)
    IN  (IF \A j \in 1..n : t.cells[i][j]["corner_bottom_left"] # << >>
                            \/ t.cells[i][j]["border_bottom"] # << >>
         THEN newline(stream) ELSE << >>)
        \o Join(n, LAMBDA j : print_cell_border_bottom(stream, t.cells[i][j], j, n, widths[j]))

\* compute_cell_dimensions: the widths of the columns.
column_widths(t) ==
    Tuple(estimate_num_columns(t), LAMBDA j : column_width(t, j))

print_table(stream, t) ==
    LET rows   == Len(t.text)
        widths == column_widths(t)
    IN  Join(rows, LAMBDA i :
            print_top(stream, t, i, widths) \o print_row(stream, t, i, widths)
                \o (IF i = rows THEN print_bottom(stream, t, i, widths) ELSE newline(stream)))

\* The length of the first of the lines printed, and how many there are.
shape(t) ==
    LET s    == print_table(StringStream, t)
        ends == {k \in DOMAIN s : s[k] = "\n"}
    IN  << IF ends = {} THEN Length(s) ELSE Min(ends) - 1,
           Cardinality(ends) + IF Len(s) \in ends \cup {0} THEN 0 ELSE 1 >>

\* print_table never returns: word_wrap cuts a word into pieces of no letters, or
\* the spaces around a centred line wrap below zero.
PrintHangs(t) ==
    \E i \in DOMAIN t.text : \E j \in DOMAIN t.text[i] :
        LET f == t.cells[i][j]
            s == t.text[i][j]
            w == column_width(t, j)
        IN  IF (\A n \in DOMAIN s : s[n] # "\n") /\ ~WrapEnds(s, content_width(f, w)) THEN TRUE
            ELSE /\ f["font_align"] = "center"
                 /\ \E n \in DOMAIN splitted_cell_text(f, s, w) :
                       num_spaces(f, trimmed(f, splitted_cell_text(f, s, w)[n]), w) < 0
=============================================================================
