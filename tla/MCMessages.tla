----------------------------- MODULE MCMessages -----------------------------
(***************************************************************************)
(* The indications of the instances: few, but each kind of UE identity, of *)
(* record and of description is in one of them.                            *)
(***************************************************************************)
EXTENDS KpmMessages

U(type, f1ap, ran) == [type |-> type, f1ap |-> f1ap, ran |-> ran]
D(recs, incomplete) == [recs |-> recs, incomplete |-> incomplete]
R(ue, info, items) == [ue |-> ue, info |-> info, data |-> items]

\* A split gNB and a monolithic one; two granularity periods, the second of
\* them incomplete and shorter; a name for integers only and one for both.
TwoUes == [age |-> 2, reports |->
    <<R(U("GNB", 2, TRUE), <<"DRB.UEThpDl", "RRU.PrbTotDl">>,
        <<D(<<"real", "int">>, FALSE), D(<<"int">>, TRUE)>>),
      R(U("GNB", NoList, FALSE), <<"RRU.PrbTotDl">>, <<D(<<"real">>, TRUE)>>)>>]
\* A DU and a CU-UP, with a data item without records and a report without data.
SplitUes == [age |-> 0, reports |->
    <<R(U("GNB_DU", NoList, TRUE), <<"DRB.RlcSduDelayDl">>,
        <<D(<< >>, TRUE), D(<<"real">>, FALSE)>>),
      R(U("GNB_CU_UP", NoList, FALSE), <<"DRB.UEThpUl">>, << >>)>>]
\* No UE: the list of reports is empty. The clock of the E2 node is ahead of
\* the xApp's.
NoUe == [age |-> -1, reports |-> << >>]
\* An identity that is not 5G, and a list of F1AP identities without elements.
OddUes == [age |-> 3, reports |->
    <<R(U("ENB", NoList, TRUE), <<"DRB.UEThpUl">>, <<D(<<"int">>, FALSE)>>),
      R(U("GNB", 0, FALSE), <<"DRB.UEThpUl">>, <<D(<<"int">>, FALSE)>>)>>]

\* What the data generator of the E2 nodes sends as well: more records than
\* descriptions, a description by identifier, no value; and no description.
Longer == [age |-> 1, reports |->
    <<R(U("GNB", NoList, FALSE), <<"DRB.UEThpDl">>, <<D(<<"int", "real">>, FALSE)>>)>>]
ById == [age |-> 1, reports |->
    <<R(U("GNB", NoList, FALSE), <<"DRB.UEThpDl", IdType>>,
        <<D(<<"int">>, FALSE), D(<<"int", "int">>, FALSE)>>)>>]
NoValue == [age |-> 1, reports |->
    <<R(U("GNB", NoList, FALSE), <<"DRB.UEThpDl">>, <<D(<<"none">>, FALSE)>>)>>]
Undescribed == [age |-> 1, reports |->
    <<R(U("GNB", NoList, FALSE), << >>, <<D(<<"int">>, FALSE)>>)>>]
\* A measurement srsRAN reports, under the name the documentation gives it.
SrsRan == [age |-> 1, reports |->
    <<R(U("GNB", NoList, FALSE), <<"DRB.RlcPacketDropRateDl">>, <<D(<<"int">>, FALSE)>>)>>]

----------------------------------------------------------------------------
GoodMessages == {TwoUes, SplitUes, NoUe, OddUes}
HeaderOnly == {NoUe}
MainMessages == {NoUe, NoValue}
SmallMessages == {TwoUes, NoUe}
AllMessages == GoodMessages \cup {Longer, ById, NoValue, Undescribed}
LongerMessages == {Longer}
NoValueMessages == {NoValue}
SrsRanMessages == {SrsRan}

=============================================================================
