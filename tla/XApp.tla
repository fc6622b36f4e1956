-------------------------------- MODULE XApp --------------------------------
(***************************************************************************)
(* The xApp: its main thread (main and KpmManager::start), the near-RT RIC *)
(* behind the FlexRIC library, the E2 nodes, and the threads of the        *)
(* library, which run the callback (KpmCallback).                          *)
(*                                                                         *)
(* The library and the RIC are not part of this code: they are modelled    *)
(* from how the code uses them. A call of report_sm_xapp_api returns when  *)
(* the RIC has accepted or refused the subscription; from its acceptance   *)
(* on indications come, also before the call has returned. A call of       *)
(* rm_report_sm_xapp_api returns when the subscription is removed.         *)
(***************************************************************************)
EXTENDS KpmSubs, KpmMessages

CONSTANTS Nodes,      \* the E2 nodes
          Rf,         \* the RAN functions each node announces
          Threads, NoThread, Messages, MaxInd   \* see KpmCallback

ASSUME NodesAssumption == IsFiniteSet(Nodes)

ASSUME ThreadsAssumption ==
    NoThread \notin Threads /\ Messages \subseteq Indication /\ MaxInd \in Nat

ASSUME FiniteThreads == IsFiniteSet(Threads)

\* A node announces a RAN function once.
ASSUME RfAssumption ==
    \A n \in Nodes :
        /\ Rf[n] \in Seq([id : Nat, defn : {"KPM", "other"}, triggers : Seq(Nat),
                         styles : Seq([type : Nat, fmt : Nat])])
        /\ \A f, g \in 1..Len(Rf[n]) : Rf[n][f].id = Rf[n][g].id => f = g

VARIABLES
    main,       \* where the main thread is
    i,          \* the index of the loops of start
    e2Nodes,    \* the E2 nodes as they were when main asked for them
    hndl,       \* the handles returned by the library; NoHandle: no success
    ans,        \* what the call of report_sm_xapp_api is about to return
    mem,        \* the blocks of memory the main thread has allocated
    connected,  \* the E2 nodes connected to the RIC
    ric,        \* the subscriptions the RIC has accepted; a handle is a place
    inbox, taken, pc, ind, lat, cur, mtx, counter, log, proc   \* KpmCallback

CB == INSTANCE KpmCallback

startVars == <<main, i, e2Nodes, hndl, ans, mem>>
ricVars   == <<connected, ric>>
cbVars    == <<inbox, taken, pc, ind, lat, cur, mtx, counter, log, proc>>
vars      == <<startVars, ricVars, cbVars>>

NoHandle == 0

\* The ways to list a set of nodes.
Listings(S) ==
    {s \in [1..Cardinality(S) -> S] :
        \A a, b \in 1..Cardinality(S) : a # b => s[a] # s[b]}

Init ==
    /\ main = "init" /\ i = 1 /\ e2Nodes = << >> /\ hndl = << >>
    /\ ans = NoHandle /\ mem = {}
    /\ connected \in SUBSET Nodes /\ ric = << >>
    /\ CB!Init

----------------------------------------------------------------------------
\* The main thread goes on at l, or ends the process there.
Goto(l) == main' = l /\ UNCHANGED cbVars
EndsProcess(l) ==
    /\ main' = l
    /\ proc' = "ended"
    /\ UNCHANGED <<inbox, taken, pc, ind, lat, cur, mtx, counter, log>>

At(l) == proc = "up" /\ main = l

\* The arguments, the logger and init_xapp_api.
InitXapp ==
    /\ At("init")
    /\ Goto("nodes")
    /\ UNCHANGED <<i, e2Nodes, hndl, ans, mem, ricVars>>

\* e2_nodes_xapp_api, and the assertion that a node is connected.
GetNodes ==
    /\ At("nodes")
    /\ e2Nodes' \in Listings(connected)
    /\ mem' = mem \cup {"e2Nodes"}
    /\ IF Len(e2Nodes') > 0 THEN Goto("start") ELSE EndsProcess("aborted")
    /\ UNCHANGED <<i, hndl, ans, ricVars>>

\* The head of start: the mutex is initialised, the handles are allocated.
Start ==
    /\ At("start")
    /\ main' = "subs"
    /\ mtx' = NoThread
    /\ hndl' = [n \in 1..Len(e2Nodes) |-> NoHandle]
    /\ mem' = mem \cup {"hndl"}
    /\ i' = 1
    /\ UNCHANGED <<e2Nodes, ans, ricVars, inbox, taken, pc, ind, lat, cur,
                   counter, log, proc>>

StartOutOfMemory ==
    /\ At("start") /\ MemoryRunsOut
    /\ EndsProcess("aborted")
    /\ UNCHANGED <<i, e2Nodes, hndl, ans, mem, ricVars>>

\* One node of the first loop, as far as the call of report_sm_xapp_api.
PrepareNode ==
    /\ At("subs") /\ i <= Len(e2Nodes)
    /\ \E o \in Prepare(Rf[e2Nodes[i]]) :
          \/ o = "send" /\ Goto("report") /\ mem' = mem \cup {"kpm_sub"} /\ UNCHANGED i
          \/ o = "skip" /\ Goto("subs") /\ i' = i + 1 /\ UNCHANGED mem
          \/ o \in {"aborted", "crashed"} /\ EndsProcess(o) /\ UNCHANGED <<i, mem>>
    /\ UNCHANGED <<e2Nodes, hndl, ans, ricVars>>

\* The RIC answers the subscription request.
RicAccepts ==
    /\ At("report") /\ e2Nodes[i] \in connected
    /\ ric' = Append(ric, [node |-> e2Nodes[i], live |-> TRUE])
    /\ ans' = Len(ric')
    /\ Goto("reported")
    /\ UNCHANGED <<i, e2Nodes, hndl, mem, connected>>

RicRefuses ==
    /\ At("report")
    /\ ans' = NoHandle
    /\ Goto("reported")
    /\ UNCHANGED <<i, e2Nodes, hndl, mem, ricVars>>

\* Mutant: the handles are stored one after the other.
Reported_Compact ==
    /\ At("reported")
    /\ IF ans # NoHandle
       THEN /\ hndl' = [hndl EXCEPT ![ans] = ans]
            /\ Goto("subs") /\ mem' = mem \ {"kpm_sub"} /\ i' = i + 1
       ELSE EndsProcess("aborted") /\ UNCHANGED <<mem, i, hndl>>
    /\ UNCHANGED <<e2Nodes, ans, ricVars>>

\* Mutant: the subscription's data are not freed.
Reported_Leak ==
    /\ At("reported")
    /\ hndl' = [hndl EXCEPT ![i] = ans]
    /\ IF ans # NoHandle
       THEN Goto("subs") /\ i' = i + 1
       ELSE EndsProcess("aborted") /\ UNCHANGED i
    /\ UNCHANGED <<e2Nodes, ans, mem, ricVars>>

\* The call returns: the handle is stored, the assertion that it succeeded,
\* free_kpm_sub_data.
Reported ==
    /\ At("reported")
    /\ hndl' = [hndl EXCEPT ![i] = ans]
    /\ IF ans # NoHandle
       THEN Goto("subs") /\ mem' = mem \ {"kpm_sub"} /\ i' = i + 1
       ELSE EndsProcess("aborted") /\ UNCHANGED <<mem, i>>
    /\ UNCHANGED <<e2Nodes, ans, ricVars>>

\* Mutant: the mutex is initialised after the subscriptions.
EndSubs_InitsMutex ==
    /\ At("subs") /\ i > Len(e2Nodes)
    /\ main' = "sleep" /\ mtx' = NoThread
    /\ UNCHANGED <<i, e2Nodes, hndl, ans, mem, ricVars, inbox, taken, pc, ind,
                   lat, cur, counter, log, proc>>

EndSubs ==
    /\ At("subs") /\ i > Len(e2Nodes)
    /\ Goto("sleep")
    /\ UNCHANGED <<i, e2Nodes, hndl, ans, mem, ricVars>>

\* Mutant: the second loop starts before the first node.
Wake_FromZero ==
    /\ At("sleep")
    /\ i' = 0
    /\ Goto("rm")
    /\ UNCHANGED <<e2Nodes, hndl, ans, mem, ricVars>>

\* The time of the experiment is over.
Wake ==
    /\ At("sleep")
    /\ i' = 1
    /\ Goto("rm")
    /\ UNCHANGED <<e2Nodes, hndl, ans, mem, ricVars>>

\* Mutant: only the first handle is removed.
RmNode_First ==
    /\ At("rm") /\ i <= Len(e2Nodes)
    /\ IF hndl[i] = 1 THEN Goto("removing") /\ UNCHANGED i
                      ELSE Goto("rm") /\ i' = i + 1
    /\ UNCHANGED <<e2Nodes, hndl, ans, mem, ricVars>>

\* One node of the second loop, as far as the call of rm_report_sm_xapp_api.
RmNode ==
    /\ At("rm") /\ i <= Len(e2Nodes)
    /\ IF hndl[i] # NoHandle THEN Goto("removing") /\ UNCHANGED i
                             ELSE Goto("rm") /\ i' = i + 1
    /\ UNCHANGED <<e2Nodes, hndl, ans, mem, ricVars>>

\* The RIC removes the subscription and the call returns.
RicRemoves ==
    /\ At("removing")
    /\ ric' = [ric EXCEPT ![hndl[i]].live = FALSE]
    /\ i' = i + 1
    /\ Goto("rm")
    /\ UNCHANGED <<e2Nodes, hndl, ans, mem, connected>>

\* Mutant: the second loop leaves out the last node.
EndRm_OffByOne ==
    /\ At("rm") /\ i >= Len(e2Nodes)
    /\ mem' = mem \ {"hndl"}
    /\ Goto("stop")
    /\ UNCHANGED <<i, e2Nodes, hndl, ans, ricVars>>

\* The end of start runs its deferred free(hndl).
EndRm ==
    /\ At("rm") /\ i > Len(e2Nodes)
    /\ mem' = mem \ {"hndl"}
    /\ Goto("stop")
    /\ UNCHANGED <<i, e2Nodes, hndl, ans, ricVars>>

\* try_stop_xapp_api returns true, "all xApp processes have been completed":
\* nothing is subscribed, no indication is waiting and no callback runs. While
\* it returns false the loop of main goes round.
Quiet ==
    /\ \A h \in 1..Len(ric) : ~ric[h].live
    /\ taken = Len(inbox) /\ \A t \in Threads : pc[t] = "idle"

\* Mutant: main does not wait for the library.
TryStop_Once ==
    /\ At("stop")
    /\ Goto("finished")
    /\ UNCHANGED <<i, e2Nodes, hndl, ans, mem, ricVars>>

TryStop ==
    /\ At("stop") /\ Quiet
    /\ Goto("finished")
    /\ UNCHANGED <<i, e2Nodes, hndl, ans, mem, ricVars>>

\* main returns: the deferred free_e2_node_arr_xapp, and the process exits.
Exit ==
    /\ At("finished")
    /\ mem' = mem \ {"e2Nodes"}
    /\ EndsProcess("exited")
    /\ UNCHANGED <<i, e2Nodes, hndl, ans, ricVars>>

----------------------------------------------------------------------------
\* E2 nodes come and go.
Connect(n) ==
    /\ proc = "up" /\ n \notin connected
    /\ connected' = connected \cup {n}
    /\ UNCHANGED <<startVars, ric, cbVars>>

Disconnect(n) ==
    /\ proc = "up" /\ n \in connected
    /\ connected' = connected \ {n}
    /\ UNCHANGED <<startVars, ric, cbVars>>

\* A node with a subscription sends an indication.
Indicate(h, m) ==
    /\ ric[h].live /\ ric[h].node \in connected
    /\ CB!Deliver(m)
    /\ UNCHANGED <<startVars, ricVars>>

Callback(t) == CB!ThreadStep(t) /\ UNCHANGED <<startVars, ricVars>>

\* The process is over.
Over == proc # "up" /\ UNCHANGED vars

MainStep ==
    \/ InitXapp \/ GetNodes \/ Start \/ StartOutOfMemory \/ PrepareNode
    \/ Reported \/ EndSubs \/ Wake \/ RmNode \/ EndRm \/ TryStop \/ Exit

RicStep == RicAccepts \/ RicRefuses \/ RicRemoves

Next ==
    \/ MainStep
    \/ RicStep
    \/ \E n \in Nodes : Connect(n) \/ Disconnect(n)
    \/ \E h \in 1..Len(ric), m \in Messages : Indicate(h, m)
    \/ \E t \in Threads : Callback(t)
    \/ Over

Spec == Init /\ [][Next]_vars

\* The threads run, and the RIC answers every request.
FairSpec ==
    /\ Spec
    /\ WF_vars(MainStep) /\ WF_vars(RicStep)
    /\ \A t \in Threads : WF_vars(Callback(t))

----------------------------------------------------------------------------
\* The types of the variables of main, start, the RIC and the nodes.
TypeOK ==
    /\ main \in {"init", "nodes", "start", "subs", "report", "reported", "sleep",
                 "rm", "removing", "stop", "finished", "exited", "aborted", "crashed"}
    /\ i \in Nat \ {0}
    /\ e2Nodes \in Seq(Nodes)
    /\ hndl \in Seq(Nat)
    /\ ans \in Nat
    /\ mem \in SUBSET {"e2Nodes", "hndl", "kpm_sub"}
    /\ connected \in SUBSET Nodes
    /\ ric \in Seq([node : Nodes, live : BOOLEAN])

Live == {h \in 1..Len(ric) : ric[h].live}

\* When start returns every subscription the RIC has accepted is removed, also
\* when nodes were skipped, came or went ("Remove the handle previously
\* returned").
CleanStop == main \in {"stop", "finished", "exited"} => Live = {}

\* The inductive invariant behind CleanStop and MemoryBalanced: every live
\* subscription has its handle at an index the second loop still has to visit,
\* or the library is about to return it.
HandlesKept ==
    /\ main \in {"subs", "report", "reported", "sleep", "rm", "removing"} =>
          Len(hndl) = Len(e2Nodes)
    /\ main \in {"report", "reported", "removing"} => i <= Len(e2Nodes)
    /\ main = "removing" => hndl[i] # NoHandle
    /\ main \in {"subs", "report", "reported"} =>
          \A n \in 1..Len(hndl) : n >= i => hndl[n] = NoHandle
    /\ ans <= Len(ric) /\ \A n \in 1..Len(hndl) : hndl[n] <= Len(ric)
    /\ \A h \in Live :
          \/ main \in {"aborted", "crashed"}
          \/ main = "reported" /\ ans = h
          \/ /\ main \in {"subs", "report", "reported", "sleep"}
             /\ \E n \in 1..Len(hndl) : hndl[n] = h
          \/ /\ main \in {"rm", "removing"}
             /\ \E n \in 1..Len(hndl) : n >= i /\ hndl[n] = h

\* Until the mutex is initialised nothing is subscribed and no callback runs.
QuietBeforeStart ==
    main \in {"init", "nodes", "start"} =>
        /\ ric = << >> /\ inbox = << >> /\ taken = 0 /\ mtx = NoThread
        /\ \A t \in Threads : pc[t] = "idle"

\* A node announced KPM with a list of report styles.
HasReportService(n) ==
    \E f \in 1..Len(Rf[n]) : Rf[n][f].id = KPM_RAN_FUNC_ID /\ Rf[n][f].styles # << >>

\* During the experiment each listed node that announced the REPORT service holds
\* exactly one subscription, the one whose handle is at its index. No other node
\* holds one: none that offers no report, and none that joined the RIC after the
\* nodes were listed, for the list is never read again.
ReportingNodesSubscribed ==
    main = "sleep" =>
        /\ \A n \in 1..Len(e2Nodes) :
              {h \in Live : ric[h].node = e2Nodes[n]} =
                  IF HasReportService(e2Nodes[n]) THEN {hndl[n]} ELSE {}
        /\ {ric[h].node : h \in Live} \subseteq {e2Nodes[n] : n \in 1..Len(e2Nodes)}

\* A node that announced KPM is subscribed to only for what the xApp can read:
\* a periodic trigger, and report style 4 in the format it fills in.
SubscribedFit ==
    \A h \in 1..Len(ric) : \A f \in 1..Len(Rf[ric[h].node]) :
        LET fn == Rf[ric[h].node][f]
        IN  fn.id = KPM_RAN_FUNC_ID =>
                /\ fn.defn = "KPM" /\ fn.triggers # << >> /\ fn.triggers[1] = 1
                /\ fn.styles[1] = [type |-> 4, fmt |-> 4]

\* A block of memory is there while it is used, and none is left at the exit:
\* the deferred frees and free_kpm_sub_data.
MemoryBalanced ==
    /\ main \in {"start", "subs", "report", "reported", "sleep", "rm", "removing",
                 "stop", "finished"} => "e2Nodes" \in mem
    /\ main \in {"subs", "report", "reported", "sleep", "rm", "removing"} => "hndl" \in mem
    /\ main \in {"report", "reported"} => "kpm_sub" \in mem
    /\ "kpm_sub" \in mem => main \in {"report", "reported", "aborted"}
    /\ main \in {"stop", "finished"} => "hndl" \notin mem
    /\ main = "exited" => mem = {}

IInv == TypeOK /\ HandlesKept /\ QuietBeforeStart /\ MemoryBalanced

\* The process exits only when every indication delivered is reported: no
\* callback is cut off by the exit.
NothingCutOff ==
    main = "exited" => counter = Len(inbox) + 1 /\ \A t \in Threads : pc[t] = "idle"

\* The callback works in the xApp as it does alone: nothing the main thread
\* does, the initialisation of the mutex in particular, disturbs it.
CallbackIsKpmCallback == CB!Spec

\* The xApp ends.
Termination == <>(proc # "up")

\* Every indication the library has received is reported, unless the process is
\* aborted or crashes: no thread waits for the mutex for ever, and the exit of
\* main comes after the last report.
EveryIndicationReported ==
    \A k \in 1..MaxInd :
        k <= Len(inbox) ~> \/ CB!Reported(k)
                           \/ main \in {"aborted", "crashed"} \/ proc \in {"aborted", "crashed"}

\* get_kpm_idx: a node that does not announce KPM is not subscribed to.
KpmListed ==
    main = "report" =>
        \E f \in 1..Len(Rf[e2Nodes[i]]) : Rf[e2Nodes[i]][f].id = KPM_RAN_FUNC_ID

\* start: "if REPORT Service is supported by E2 node, send SUBSCRIPTION". A
\* node that offers a style does not crash the xApp.
ReportServiceServed == main # "crashed"
=============================================================================
