---------------------------- MODULE KpmMessages ----------------------------
(***************************************************************************)
(* What an indication carries and what sm_cb_kpm prints for each part of   *)
(* it: the constant-level half of the KPM callback (src/kpmManager.cpp).   *)
(* An indication m is a record                                             *)
(*   age     the local clock at the callback's entry minus the header's    *)
(*           collectStartTime, in microseconds: negative when the clock of *)
(*           the E2 node is ahead of the xApp's                            *)
(*   reports the reports of format 3, one per UE, each with                *)
(*     ue    its identity: type, f1ap (length of gnb_cu_ue_f1ap_lst, or    *)
(*           NoList for a null pointer), ran (ran_ue_id is present)        *)
(*     info  meas_info_lst: measurement names, or IdType                   *)
(*     data  meas_data_lst: the values of the records, "int", "real" or    *)
(*           "none", and the incomplete flag                               *)
(***************************************************************************)
EXTENDS Integers, Sequences

CONSTANT Wrap   \* 2^64, the number of values of u_int64_t

ASSUME WrapAssumption == Wrap \in Nat \ {0}

NoList == -1
IdType == "ID_MEAS_TYPE"

Ue     == [type : STRING, f1ap : Nat \cup {NoList}, ran : BOOLEAN]
Data   == [recs : Seq({"int", "real", "none"}), incomplete : BOOLEAN]
Report == [ue : Ue, info : Seq(STRING), data : Seq(Data)]
Indication == [age : Int, reports : Seq(Report)]

----------------------------------------------------------------------------
\* Mutant: the latency as a signed number.
Latency_Signed(m) == m.age

\* u_int64_t latency: the subtraction of two unsigned numbers wraps.
Latency(m) == m.age % Wrap

\* A line of the log. Only a header carries a number and a latency; "at" is
\* the place in the indication of what the line prints.
Kinds == {"header", "gNB-CU", "gNB", "gNB-DU", "gNB-CU-UP", "ran_ue_id",
          "not supported", "value", "not yet supported", "garbage", "not reliable"}
Line == [ind : Nat, kind : Kinds, num : Nat, lat : Nat, at : Seq(Nat)]
LineOf(k, kind, at) ==
    [ind |-> k, kind |-> kind, num |-> 0, lat |-> 0, at |-> at]
Header(k, n, l) ==
    [ind |-> k, kind |-> "header", num |-> n, lat |-> l, at |-> << >>]

SUPPORTED_MEASUREMENTS ==
    {"DRB.PdcpSduVolumeDL", "DRB.PdcpSduVolumeUL", "DRB.RlcSduDelayDl",
     "DRB.UEThpDl", "DRB.UEThpUl", "RRU.PrbTotDl", "RRU.PrbTotUl",
     "RlcPacketDropRateDl", "PacketSuccessRateUlgNBUu",
     "RlcSduTransmittedVolumeDL", "RlcSduTransmittedVolumeUL"}

int_meas_value(name) ==
    IF name \in SUPPORTED_MEASUREMENTS THEN "value" ELSE "not yet supported"

real_meas_value(name) ==
    IF name \in {"DRB.UEThpDl", "DRB.UEThpUl", "DRB.RlcSduDelayDl"}
    THEN "value" ELSE "not yet supported"

----------------------------------------------------------------------------
\* print_ue_id: the lines of the u-th UE of indication k.
RanUeId(k, u, ue) == IF ue.ran THEN <<LineOf(k, "ran_ue_id", <<u>>)>> ELSE << >>

print_ue_id(k, u, ue) ==
    CASE ue.type = "GNB" /\ ue.f1ap # NoList ->
            [i \in 1..ue.f1ap |-> LineOf(k, "gNB-CU", <<u, i>>)] \o RanUeId(k, u, ue)
      [] ue.type = "GNB" /\ ue.f1ap = NoList ->
            <<LineOf(k, "gNB", <<u>>)>> \o RanUeId(k, u, ue)
      [] ue.type = "GNB_DU" ->
            <<LineOf(k, "gNB-DU", <<u>>)>> \o RanUeId(k, u, ue)
      [] ue.type = "GNB_CU_UP" ->
            <<LineOf(k, "gNB-CU-UP", <<u>>)>> \o RanUeId(k, u, ue)
      [] OTHER -> <<LineOf(k, "not supported", <<u>>)>>

\* What printing a record can do: the kind of line, or the end of the process.
\* get_meas_value has no function for a record without a value.
get_meas_value(name, value) ==
    CASE value = "int"  -> {int_meas_value(name)}
      [] value = "real" -> {real_meas_value(name)}
      [] OTHER -> {"crashed"}

match_meas_type_id == {"aborted"}   \* "not yet supported"

match_meas_name_type(name, value) == get_meas_value(name, value)

\* Record j of data item d. Its description is read from meas_info_lst with the
\* record's own index: past the end of that list the type, the name and the
\* value are whatever is there.
match_meas_type(report, d, j) ==
    IF j > Len(report.info) THEN {"garbage", "aborted", "crashed"}
    ELSE IF report.info[j] = IdType THEN match_meas_type_id
    ELSE match_meas_name_type(report.info[j], report.data[d].recs[j])

\* The lines of one record: its own, then the warning of an incomplete item.
RecordLines(k, at, outcome, incomplete) ==
    <<LineOf(k, outcome, at)>> \o
    (IF incomplete THEN <<LineOf(k, "not reliable", at)>> ELSE << >>)
============================================================================
