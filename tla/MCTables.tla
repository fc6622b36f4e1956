------------------------------ MODULE MCTables ------------------------------
(***************************************************************************)
(* Small tables, and calls that make formats, widths, wrapping, alignment, *)
(* styles and exports meet.                                                *)
(***************************************************************************)
EXTENDS Tables

OnTable(s, v)      == [on |-> "table", i |-> 1, j |-> 1, setter |-> s, value |-> v]
OnRow(i, s, v)     == [on |-> "row", i |-> i, j |-> 1, setter |-> s, value |-> v]
OnCell(i, j, s, v) == [on |-> "cell", i |-> i, j |-> j, setter |-> s, value |-> v]
OnColumn(j, s, v)  == [on |-> "column", i |-> 1, j |-> j, setter |-> s, value |-> v]

\* The same member set on the table, on a row, on a cell and on a column.
Layers ==
    [rows  |-> << << <<"A">>, <<"B">> >>, << <<"D">> >> >>,
     calls |-> << OnTable("font_align", "right"), OnRow(1, "font_align", "center"),
                  OnCell(1, 2, "font_align", "left"), OnColumn(2, "font_align", "center"),
                  OnTable("font_style", {"bold"}), OnRow(2, "font_style", {"italic"}),
                  OnCell(2, 1, "font_style", {"italic"}), OnColumn(1, "locale", <<"C">>),
                  OnColumn(1, "hide_border", TRUE) >>,
     nodes |-> << >>, steps |-> 4]

\* Texts that have to be wrapped: words, dashes, spaces, newlines.
Wraps ==
    [rows  |-> << << <<"A", "B", "E", "F", "G", " ", "H">> >>,
                  << <<"I", "-", "J", " ", "K", "M">> >> >>,
     calls |-> << OnTable("column_separator", << >>), OnColumn(1, "width", 4),
                  OnColumn(1, "width", 5), OnCell(1, 1, "width", 3),
                  OnRow(1, "height", 1), OnRow(1, "font_align", "center"),
                  OnTable("padding_left", 0), OnTable("color", "red") >>,
     nodes |-> << >>, steps |-> 4]

\* Two columns without doubled separators, on which the lines must match.
Lines ==
    [rows  |-> << << <<"A", "B">>, <<"D", "-", "E">> >>, << << >>, <<"F">> >> >>,
     calls |-> << OnTable("column_separator", << >>), OnTable("border_left", << >>),
                  OnColumn(2, "width", 5), OnCell(1, 1, "padding", 2),
                  OnTable("show_row_separator", TRUE), OnRow(2, "color", "green"),
                  OnCell(1, 1, "font_style", {"underline", "bold"}),
                  OnCell(2, 2, "hide_border_top", TRUE) >>,
     nodes |-> << >>, steps |-> 4]

\* A text with newlines.
Newlines ==
    [rows  |-> << << <<"A", "\n", "\n", "B", "D", "\n">> >> >>,
     calls |-> << OnCell(1, 1, "width", 3), OnCell(1, 1, "font_align", "center"),
                  OnTable("trim_mode", "kLeft"), OnTable("padding_top", 1) >>,
     nodes |-> << >>, steps |-> 4]

\* Cells without the padding of the table, in columns as narrow as they may be.
Narrows ==
    [rows  |-> << << <<"A", "B", "D">> >> >>,
     calls |-> << OnCell(1, 1, "padding", 0), OnColumn(1, "width", 2),
                  OnColumn(1, "width", 3), OnRow(1, "font_align", "center") >>,
     nodes |-> << >>, steps |-> 4]

Du  == [nb_id |-> "N1", mcc |-> "505", mnc |-> "1", mnc_digit_len |-> "2",
        type |-> "ngran_gNB_DU", cu_du_id |-> "U7", rf |-> <<"R2", "R3">>]
Gnb == [nb_id |-> "N2", mcc |-> "505", mnc |-> "1", mnc_digit_len |-> "2",
        type |-> "ngran_gNB", cu_du_id |-> "U8", rf |-> << >>]
Cu  == [nb_id |-> "N3", mcc |-> "505", mnc |-> "1", mnc_digit_len |-> "2",
        type |-> "ngran_gNB_CU", cu_du_id |-> "U9", rf |-> <<"R2">>]

Nodes ==
    [rows |-> << >>, calls |-> << >>,
     nodes |-> << << >>, <<Du>>, <<Gnb, Du>>, <<Du, Cu>> >>, steps |-> 1]

SetterPrograms == <<Layers, Lines>>

MCPrograms == <<Layers, Wraps, Lines, Newlines, Narrows, Nodes>>

\* What the theorem about StylesStayInCells asks of the programs.
ASSUME BordersInLine
=============================================================================
