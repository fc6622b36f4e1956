------------------------------- MODULE E2Info -------------------------------
(***************************************************************************)
(* E2Info::printE2Nodes (src/e2Info.cpp): the table of the connected E2    *)
(* nodes, printed into a cell of another table. A node is a record of its  *)
(* identifiers; a title or an identifier is a text of one character.       *)
(***************************************************************************)
EXTENDS TabPrint, TLC

\* ngran_node_t, by whether the node is split and which part it is.
NODE_IS_MONOLITHIC(type) == type \in {"ngran_gNB", "ngran_eNB"}
NODE_IS_CU(type)         == type \in {"ngran_gNB_CU", "ngran_eNB_CU"}

\* The text of a border is a value.
ASSUME DashAssumption == <<"EM DASH">> # NoValue

Titles ==
    << "index", "nb_id", "mcc", "mnc", "mnc_digit_len", "ran_type", "cu_du_id",
       "supported rf_ids" >>

\* The position of the node, and the members of its id, in a row of six cells.
FirstCells(n, node) ==
    << <<ToString(n)>>, <<node.nb_id>>, <<node.mcc>>, <<node.mnc>>,
       <<node.mnc_digit_len>>, <<node.type>> >>

\* Mutant: the RAN functions go into the first cell that is still empty.
AddNode_FirstFree(t, node) ==
    LET u == add_row(t, FirstCells(Len(t.text) - 1, node))
        v == IF NODE_IS_MONOLITHIC(node.type) \/ NODE_IS_CU(node.type) THEN u
             ELSE set_text(u, Len(u.text), 7, <<node.cu_du_id>>)
        j == IF v.text[Len(u.text)][7] = << >> THEN 7 ELSE 8
    IN  set_text(v, Len(u.text), j, FlattenSeq([k \in DOMAIN node.rf |-> <<node.rf[k], " ">>]))

\* One turn of the loop over the nodes: t has a row of titles and one row for
\* each of the nodes before this one.
AddNode(t, node) ==
    LET u == add_row(t, FirstCells(Len(t.text) - 1, node))
        v == IF NODE_IS_MONOLITHIC(node.type) \/ NODE_IS_CU(node.type) THEN u
             ELSE set_text(u, Len(u.text), 7, <<node.cu_du_id>>)
    IN  set_text(v, Len(u.text), 8, FlattenSeq([k \in DOMAIN node.rf |-> <<node.rf[k], " ">>]))

e2NodesInfoTab(nodes) ==
    LET titles == add_row(create, [k \in DOMAIN Titles |-> <<Titles[k]>>])
        rows[n \in 0..Len(nodes)] ==
            IF n = 0 THEN titles ELSE AddNode(rows[n - 1], nodes[n])
        format == SetTable(rows[Len(nodes)], "column_separator", << >>)
    IN  SetRow(SetRow(format, 1, "font_align", "center"), 1, "font_style", {"bold"})

e2NodesInfoTabHdr(nodes) ==
    LET title  == add_row(create, << <<"Information of connected E2 nodes">> >>)
        format == SetTable(SetTable(SetTable(title, "column_separator", << >>),
                      "border_top", <<"EM DASH">>), "border_bottom", <<"EM DASH">>)
        center == SetRow(format, 1, "font_align", "center")
    IN  add_row(center, << print_table(StringStream, Settled(e2NodesInfoTab(nodes))) >>)

printE2Nodes(stream, nodes) ==
    print_table(stream, Settled(e2NodesInfoTabHdr(nodes))) \o <<"\n">>
=============================================================================
