--------------------------- MODULE KpmSubsAlloc ----------------------------
(***************************************************************************)
(* The data of a subscription, allocation by allocation: gen_kpm_subs,     *)
(* fill_report_style_4, filter_predicate, fill_act_def_frm_1 and           *)
(* fill_kpm_label build a tree of blocks that free_kpm_sub_data releases   *)
(* (src/kpmManager.cpp). Any allocation may fail when memory runs out:     *)
(* all but one are asserted.                                               *)
(*                                                                         *)
(* A KPM function definition is the record of KpmSubs whose report styles  *)
(* also name their measurements, in the field names.                       *)
(***************************************************************************)
EXTENDS KpmSubs

CONSTANTS Functions,   \* the KPM function definitions nodes may announce
          Names,       \* the measurement names
          MaxMeas,     \* bound: the measurements of a report style
          MaxSubs      \* bound: the subscriptions the run prepares

ASSUME BoundsAssumption == MaxMeas \in Nat /\ MaxSubs \in Nat

ASSUME FunctionsAssumption ==
    \A f \in Functions :
        /\ f.triggers \in Seq(Nat)
        /\ f.styles # << >>
        /\ f.styles[1].names \in Seq(Names) /\ Len(f.styles[1].names) <= MaxMeas

VARIABLES
    at,     \* the allocation, call or loop the main thread is at
    fn,     \* the definition of the node being prepared
    k,      \* the index of the loop over the measurements
    sub,    \* kpm_sub: its pointers, its lengths and the names it carries
    heap,   \* how many blocks of each kind and measurement are allocated
    subs    \* the subscriptions prepared so far

avars == <<at, fn, k, sub, heap, subs>>

\* The blocks, named by the field that points to them; those of a measurement
\* have its index.
Single  == {"ad", "matching_cond_lst", "test_cond", "test_cond_value",
            "octet_string_value", "buf", "meas_info_lst"}
PerMeas == {"name", "label_info_lst", "noLabel"}
Block   == (Single \X {0}) \cup (PerMeas \X (1..MaxMeas))

NullSub == [ptrs |-> {}, meas_info_lst_len |-> 0, labelled |-> {}, names |-> << >>]

report_item == fn.styles[1]
size == Len(report_item.names)

Init ==
    /\ at = "idle" /\ fn \in Functions /\ k = 1 /\ sub = NullSub
    /\ heap = [b \in Block |-> 0] /\ subs = 0

----------------------------------------------------------------------------
\* calloc has a block b; s is the subscription's data with the pointer stored.
Allocates(b, s) ==
    /\ heap' = [heap EXCEPT ![b] = @ + 1]
    /\ sub' = [s EXCEPT !.ptrs = @ \cup {b}]

\* The process ends: a failed assertion, or a write through a null pointer.
Ends(how) == at' = how /\ UNCHANGED <<sub, heap>>

\* calloc(...) and its assertion "Memory exhausted".
Calloc(here, b, s, next) ==
    /\ at = here
    /\ \/ Allocates(b, s) /\ at' = next
       \/ MemoryRunsOut /\ Ends("aborted")
    /\ UNCHANGED <<fn, subs>>

\* gen_kpm_subs up to its allocation: the assertions on the event trigger.
Generate(f) ==
    /\ at = "idle" /\ subs < MaxSubs
    /\ fn' = f /\ sub' = NullSub /\ subs' = subs + 1
    /\ at' = IF f.triggers # << >> /\ f.triggers[1] = 1 THEN "ad" ELSE "aborted"
    /\ UNCHANGED <<k, heap>>

AllocAd == Calloc("ad", <<"ad", 0>>, sub, "style") /\ UNCHANGED k

\* The call through the table get_kpm_act_def, and the assertion on the format
\* at the head of fill_report_style_4.
CallStyle ==
    /\ at = "style"
    /\ at' = CASE report_item.type # 4 -> "crashed"
               [] report_item.type = 4 /\ report_item.fmt # 4 -> "aborted"
               [] OTHER -> "matching_cond_lst"
    /\ UNCHANGED <<fn, k, sub, heap, subs>>

AllocMatchingCond ==
    Calloc("matching_cond_lst", <<"matching_cond_lst", 0>>, sub, "test_cond") /\ UNCHANGED k

\* filter_predicate
AllocTestCond ==
    Calloc("test_cond", <<"test_cond", 0>>, sub, "test_cond_value") /\ UNCHANGED k
AllocTestCondValue ==
    Calloc("test_cond_value", <<"test_cond_value", 0>>, sub, "octet_string_value")
        /\ UNCHANGED k
AllocOctetString ==
    Calloc("octet_string_value", <<"octet_string_value", 0>>, sub, "buf") /\ UNCHANGED k
AllocBuf == Calloc("buf", <<"buf", 0>>, sub, "meas_info_lst") /\ UNCHANGED k

\* Mutant: the length is not stored.
AllocMeasInfo_NoLength ==
    Calloc("meas_info_lst", <<"meas_info_lst", 0>>, sub, "name") /\ k' = 1

\* Mutant: the loop starts before the first measurement.
AllocMeasInfo_FromZero ==
    Calloc("meas_info_lst", <<"meas_info_lst", 0>>,
           [sub EXCEPT !.meas_info_lst_len = size], "name")
        /\ k' = 0

\* The head of fill_act_def_frm_1: calloc(0, ...) has a block as well.
AllocMeasInfo ==
    Calloc("meas_info_lst", <<"meas_info_lst", 0>>,
           [sub EXCEPT !.meas_info_lst_len = size], "name")
        /\ k' = 1

\* copy_byte_array(...name)
CopyName ==
    /\ k <= size
    /\ Calloc("name", <<"name", k>>,
              [sub EXCEPT !.names = Append(@, report_item.names[k])], "label_info_lst")
    /\ UNCHANGED k

AllocLabel ==
    Calloc("label_info_lst", <<"label_info_lst", k>>,
           [sub EXCEPT !.labelled = @ \cup {k}], "noLabel")
        /\ UNCHANGED k

\* Mutant: without memory the measurement goes without its label.
FillKpmLabel_Checked ==
    /\ at = "noLabel"
    /\ Allocates(<<"noLabel", k>>, sub) \/ (MemoryRunsOut /\ UNCHANGED <<sub, heap>>)
    /\ at' = "name" /\ k' = k + 1
    /\ UNCHANGED <<fn, subs>>

\* fill_kpm_label: the one allocation without an assertion is written to.
FillKpmLabel ==
    /\ at = "noLabel"
    /\ \/ Allocates(<<"noLabel", k>>, sub) /\ at' = "name" /\ k' = k + 1
       \/ MemoryRunsOut /\ Ends("crashed") /\ UNCHANGED k
    /\ UNCHANGED <<fn, subs>>

\* The loop is over; the structures are returned and copied into *kpm_sub.ad.
EndMeas ==
    /\ at = "name" /\ k > size
    /\ at' = "send"
    /\ UNCHANGED <<fn, k, sub, heap, subs>>

\* report_sm_xapp_api returns, and its success is asserted.
Answer ==
    /\ at = "send"
    /\ at' \in {"answered", "aborted"}
    /\ UNCHANGED <<fn, k, sub, heap, subs>>

\* The blocks free_kpm_sub_data comes to, from kpm_sub along its lengths.
Reachable(s) ==
    {b \in s.ptrs : /\ b[2] <= s.meas_info_lst_len
                    /\ b[1] = "noLabel" => b[2] \in s.labelled}

\* Mutant: the call is missing.
FreeKpmSubData_Missing ==
    /\ at = "answered"
    /\ at' = "idle"
    /\ UNCHANGED <<fn, k, sub, heap, subs>>

FreeKpmSubData ==
    /\ at = "answered"
    /\ heap' = [b \in Block |-> IF b \in Reachable(sub) THEN heap[b] - 1 ELSE heap[b]]
    /\ at' = "idle"
    /\ UNCHANGED <<fn, k, sub, subs>>

Done == (at \in {"aborted", "crashed"} \/ (at = "idle" /\ subs = MaxSubs)) /\ UNCHANGED avars

Next ==
    \/ \E f \in Functions : Generate(f)
    \/ AllocAd \/ CallStyle \/ AllocMatchingCond
    \/ AllocTestCond \/ AllocTestCondValue \/ AllocOctetString \/ AllocBuf
    \/ AllocMeasInfo \/ CopyName \/ AllocLabel \/ FillKpmLabel \/ EndMeas
    \/ Answer \/ FreeKpmSubData
    \/ Done

Spec == Init /\ [][Next]_avars

----------------------------------------------------------------------------
\* The types of the variables of gen_kpm_subs and the functions it calls.
TypeOK ==
    /\ at \in Single \cup PerMeas
               \cup {"idle", "style", "send", "answered", "aborted", "crashed"}
    /\ fn \in Functions
    /\ k \in 1..MaxMeas + 1
    /\ sub \in [ptrs : SUBSET Block, meas_info_lst_len : 0..MaxMeas,
                labelled : SUBSET (1..MaxMeas), names : Seq(Names)]
    /\ heap \in [Block -> Nat]
    /\ subs \in 0..MaxSubs

\* free_kpm_sub_data gives back what gen_kpm_subs and its helpers allocated:
\* as long as the process lives, a block is allocated exactly if kpm_sub leads
\* to it, and between two nodes nothing is, however many were prepared before.
HeapIsTree ==
    /\ at \notin {"idle", "aborted", "crashed"} =>
          \A b \in Block : heap[b] = IF b \in sub.ptrs THEN 1 ELSE 0
    /\ at \in {"send", "answered"} => Reachable(sub) = sub.ptrs
    /\ at = "idle" => \A b \in Block : heap[b] = 0

\* What report_sm_xapp_api is given is whole: every block is there, and the
\* measurements are those of the report style, in its order, each with a label.
SubscriptionWhole ==
    at = "send" =>
        /\ sub.names = report_item.names /\ sub.meas_info_lst_len = size
        /\ sub.ptrs = (Single \X {0}) \cup (PerMeas \X (1..size))

\* The details of gen_kpm_subs are what XApp takes it for: one block, made
\* whole or not at all, with the outcomes KpmSubs gives it, and gone when the
\* next node is prepared.
Life == INSTANCE KpmSubLife WITH
    phase  <- IF at \in Single \cup PerMeas \cup {"style"} THEN "idle" ELSE at,
    blocks <- IF at \in {"idle", "send", "answered"} THEN heap[<<"ad", 0>>] ELSE 0,
    subs   <- IF at \in Single \cup PerMeas \cup {"style"} THEN subs - 1 ELSE subs

OneBlock == Life!Spec
=============================================================================
