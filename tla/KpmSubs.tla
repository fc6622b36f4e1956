------------------------------ MODULE KpmSubs -------------------------------
(***************************************************************************)
(* How the xApp decides what to do with an E2 node (src/kpmManager.cpp):   *)
(* get_kpm_idx finds the KPM service model in the RAN functions the node   *)
(* announced, gen_kpm_subs makes a subscription from its definition.       *)
(*                                                                         *)
(* A RAN function is a record                                              *)
(*   id, defn  its number and the kind of its definition                   *)
(*   triggers  the formats in ric_event_trigger_style_list                 *)
(*   styles    ric_report_style_list: type and action definition format    *)
(* An empty list is a null pointer.                                        *)
(***************************************************************************)
EXTENDS Integers, Sequences, FiniteSetsExt

CONSTANT MemoryRunsOut   \* whether an allocation may fail

ASSUME MemoryAssumption == MemoryRunsOut \in BOOLEAN

KPM_RAN_FUNC_ID == 2
END_RIC_SERVICE_REPORT == 5

\* get_kpm_idx: the places it may return; 0 is its failed assertion. The loop
\* goes one past the end of the list, where the id is whatever is there.
get_kpm_idx(rf) ==
    LET kpm == {i \in 1..Len(rf) : rf[i].id = KPM_RAN_FUNC_ID}
    IN  IF kpm # {} THEN {Min(kpm)} ELSE {Len(rf) + 1, 0}

\* Mutant: the format of the style is not asserted.
fill_report_style_4_AnyFormat(style) == {"send"}

\* The format is asserted, and so are the allocations, but for the one of
\* fill_kpm_label.
fill_report_style_4(style) ==
    IF style.fmt # 4 THEN {"aborted"}
    ELSE {"send"} \cup (IF MemoryRunsOut THEN {"aborted", "crashed"} ELSE {})

\* The call through the table: only report style 4 has a function, the other
\* entries are null.
get_kpm_act_def(style) ==
    IF style.type # 4 THEN {"crashed"} ELSE fill_report_style_4(style)

gen_kpm_subs(f) ==
    IF f.triggers = << >> \/ f.triggers[1] # 1 THEN {"aborted"}
    ELSE get_kpm_act_def(f.styles[1])
             \cup (IF MemoryRunsOut THEN {"aborted"} ELSE {})

\* What start does with a node before it calls the library: send it the
\* subscription, skip it, or end the process. Past the end of the list the
\* definition is whatever is there, too.
Prepare(rf) ==
    UNION {
        IF i = 0 THEN {"aborted"}
        ELSE IF i > Len(rf) THEN {"send", "skip", "aborted", "crashed"}
        ELSE IF rf[i].defn # "KPM" THEN {"aborted"}
        ELSE IF rf[i].styles = << >> THEN {"skip"}
        ELSE gen_kpm_subs(rf[i]) : i \in get_kpm_idx(rf)}
=============================================================================
