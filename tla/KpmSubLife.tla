---------------------------- MODULE KpmSubLife -----------------------------
(***************************************************************************)
(* The life of the data of one subscription as KpmManager::start sees it:  *)
(* gen_kpm_subs delivers a whole block or ends the process, the library    *)
(* answers, free_kpm_sub_data takes the block away before the next node is *)
(* prepared. This is what XApp does with its block "kpm_sub".              *)
(***************************************************************************)
EXTENDS KpmSubs

CONSTANTS Functions,   \* the KPM function definitions nodes may announce
          MaxSubs      \* bound: the subscriptions the run prepares

VARIABLES
    phase,    \* between two nodes, waiting for the answer, answered, or over
    blocks,   \* the blocks "kpm_sub" allocated and not freed
    subs      \* the subscriptions prepared so far

lvars == <<phase, blocks, subs>>

Init == phase = "idle" /\ blocks = 0 /\ subs = 0

\* gen_kpm_subs, with the outcomes KpmSubs gives it.
Generate(f) ==
    /\ phase = "idle" /\ subs < MaxSubs
    /\ \E o \in gen_kpm_subs(f) :
          /\ phase' = o
          /\ blocks' = IF o = "send" THEN blocks + 1 ELSE blocks
    /\ subs' = subs + 1

\* report_sm_xapp_api returns, and its success is asserted: the end of the
\* process takes the block along.
Answer ==
    /\ phase = "send"
    /\ \/ phase' = "answered" /\ blocks' = blocks
       \/ phase' = "aborted" /\ blocks' = 0
    /\ UNCHANGED subs

Free ==
    /\ phase = "answered"
    /\ phase' = "idle" /\ blocks' = blocks - 1
    /\ UNCHANGED subs

Next == (\E f \in Functions : Generate(f)) \/ Answer \/ Free

Spec == Init /\ [][Next]_lvars
=============================================================================
