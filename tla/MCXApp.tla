------------------------------- MODULE MCXApp -------------------------------
(***************************************************************************)
(* Instances of XApp for TLC: the nodes are numbers and differ in the RAN  *)
(* functions they announce.                                                *)
(***************************************************************************)
EXTENDS XApp, MCMessages

CONSTANTS t1, t2

OneThread  == {t1}
TwoThreads == {t1, t2}

----------------------------------------------------------------------------
S(type, fmt) == [type |-> type, fmt |-> fmt]
Kpm(triggers, styles) ==
    [id |-> KPM_RAN_FUNC_ID, defn |-> "KPM", triggers |-> triggers, styles |-> styles]
Other(id) == [id |-> id, defn |-> "other", triggers |-> << >>, styles |-> << >>]

Reports   == <<Kpm(<<1>>, <<S(4, 4)>>)>>
ReportsToo == <<Other(3), Kpm(<<1>>, <<S(4, 4), S(1, 1)>>)>>
NoReport  == <<Kpm(<< >>, << >>), Other(3)>>   \* the CU-CP of a split gNB

\* The style that is implemented, in a format that is not.
Odd        == <<Kpm(<<1>>, <<S(4, 1)>>)>>
StyleOne   == <<Kpm(<<1>>, <<S(1, 1), S(4, 4)>>)>>
NoKpm      == <<Other(3)>>

OneNode == 1..1      TwoNodes == 1..2     FourNodes == 1..4
PairRf     == <<Reports, ReportsToo>>
MixedRf    == <<NoReport, Reports, ReportsToo, Odd>>
NoKpmRf    == <<NoKpm>>
StyleOneRf == <<StyleOne>>
=============================================================================
