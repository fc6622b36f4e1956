---------------------------- MODULE XApp_proofs -----------------------------
(***************************************************************************)
(* Proofs about the xApp, for any number of E2 nodes, whatever RAN         *)
(* functions they announce, whenever they come and go.                     *)
(***************************************************************************)
EXTENDS XApp, FiniteSetTheorems, SequenceTheorems, TLAPS

CBP == INSTANCE KpmReports_proofs

\* The invariant holds when the xApp starts.
LEMMA InitIInv == Init => IInv
BY DEF Init, CB!Init, IInv, TypeOK, HandlesKept, QuietBeforeStart, MemoryBalanced,
       Live, NoHandle

\* Every step of the xApp, of the RIC, of a node and of a callback keeps it.
LEMMA NextIInv == IInv /\ [Next]_vars => IInv'
<1> SUFFICES ASSUME IInv, [Next]_vars PROVE IInv'
  OBVIOUS
<1>0. TypeOK /\ HandlesKept /\ QuietBeforeStart /\ MemoryBalanced
  BY DEF IInv
<1> USE <1>0
<1>1. ASSUME InitXapp PROVE IInv'
  <2>1. TypeOK'
    BY <1>1 DEF InitXapp, At, Goto, EndsProcess, ricVars, cbVars, NoHandle, TypeOK
  <2>2. HandlesKept'
    BY <1>1 DEF InitXapp, At, Goto, EndsProcess, ricVars, cbVars, NoHandle, TypeOK, HandlesKept, Live
  <2>3. QuietBeforeStart'
    BY <1>1 DEF InitXapp, At, Goto, EndsProcess, ricVars, cbVars, NoHandle, QuietBeforeStart
  <2>4. MemoryBalanced'
    BY <1>1 DEF InitXapp, At, Goto, EndsProcess, ricVars, cbVars, NoHandle, MemoryBalanced
  <2> QED BY <2>1, <2>2, <2>3, <2>4 DEF IInv
<1>2. ASSUME GetNodes PROVE IInv'
  <2>1. TypeOK'
    <3>1. PICK s \in Listings(connected) : e2Nodes' = s
      BY <1>2 DEF GetNodes
    <3>2. IsFiniteSet(connected)
      BY NodesAssumption, FS_Subset DEF TypeOK
    <3>3. Cardinality(connected) \in Nat
      BY <3>2, FS_CardinalityType
    <3>4. s \in [1..Cardinality(connected) -> Nodes]
      BY <3>1 DEF Listings, TypeOK
    <3>5. e2Nodes' \in Seq(Nodes)
      BY <3>1, <3>3, <3>4
    <3>6. main' \in {"start", "aborted"} /\ UNCHANGED <<i, hndl, ans, connected, ric>>
          /\ mem' = mem \cup {"e2Nodes"}
      BY <1>2 DEF GetNodes, Goto, EndsProcess, ricVars
    <3> QED BY <3>5, <3>6 DEF TypeOK
  <2>2. HandlesKept'
    BY <1>2 DEF GetNodes, At, Goto, EndsProcess, ricVars, cbVars, NoHandle, Listings, TypeOK, HandlesKept, Live
  <2>3. QuietBeforeStart'
    BY <1>2 DEF GetNodes, At, Goto, EndsProcess, ricVars, cbVars, NoHandle, Listings, QuietBeforeStart
  <2>4. MemoryBalanced'
    BY <1>2 DEF GetNodes, At, Goto, EndsProcess, ricVars, cbVars, NoHandle, Listings, MemoryBalanced
  <2> QED BY <2>1, <2>2, <2>3, <2>4 DEF IInv
<1>3. ASSUME Start PROVE IInv'
  <2>1. TypeOK'
    BY <1>3 DEF Start, At, Goto, EndsProcess, ricVars, cbVars, NoHandle, TypeOK
  <2>2. HandlesKept'
    BY <1>3 DEF Start, At, Goto, EndsProcess, ricVars, cbVars, NoHandle, TypeOK, HandlesKept, Live
  <2>3. QuietBeforeStart'
    BY <1>3 DEF Start, At, Goto, EndsProcess, ricVars, cbVars, NoHandle, QuietBeforeStart
  <2>4. MemoryBalanced'
    BY <1>3 DEF Start, At, Goto, EndsProcess, ricVars, cbVars, NoHandle, MemoryBalanced
  <2> QED BY <2>1, <2>2, <2>3, <2>4 DEF IInv
<1>4. ASSUME StartOutOfMemory PROVE IInv'
  <2>1. TypeOK'
    BY <1>4 DEF StartOutOfMemory, At, Goto, EndsProcess, ricVars, cbVars, NoHandle, TypeOK
  <2>2. HandlesKept'
    BY <1>4 DEF StartOutOfMemory, At, Goto, EndsProcess, ricVars, cbVars, NoHandle, TypeOK, HandlesKept, Live
  <2>3. QuietBeforeStart'
    BY <1>4 DEF StartOutOfMemory, At, Goto, EndsProcess, ricVars, cbVars, NoHandle, QuietBeforeStart
  <2>4. MemoryBalanced'
    BY <1>4 DEF StartOutOfMemory, At, Goto, EndsProcess, ricVars, cbVars, NoHandle, MemoryBalanced
  <2> QED BY <2>1, <2>2, <2>3, <2>4 DEF IInv
<1>5. ASSUME PrepareNode PROVE IInv'
  <2>1. TypeOK'
    <3>1. UNCHANGED <<e2Nodes, hndl, ans, connected, ric>>
      BY <1>5 DEF PrepareNode, ricVars
    <3>2. /\ main' \in {"report", "subs", "aborted", "crashed"}
          /\ i' \in {i, i + 1} /\ mem' \in {mem, mem \cup {"kpm_sub"}}
      BY <1>5 DEF PrepareNode, Goto, EndsProcess
    <3>3. i' \in Nat \ {0} /\ mem' \in SUBSET {"e2Nodes", "hndl", "kpm_sub"}
      BY <3>2 DEF TypeOK
    <3> QED BY <3>1, <3>2, <3>3 DEF TypeOK
  <2>2. HandlesKept'
    BY <1>5 DEF PrepareNode, At, Goto, EndsProcess, ricVars, cbVars, NoHandle, TypeOK, HandlesKept, Live
  <2>3. QuietBeforeStart'
    BY <1>5 DEF PrepareNode, At, Goto, EndsProcess, ricVars, cbVars, NoHandle, QuietBeforeStart
  <2>4. MemoryBalanced'
    BY <1>5 DEF PrepareNode, At, Goto, EndsProcess, ricVars, cbVars, NoHandle, MemoryBalanced
  <2> QED BY <2>1, <2>2, <2>3, <2>4 DEF IInv
<1>6. ASSUME RicAccepts PROVE IInv'
  <2>1. TypeOK'
    BY <1>6 DEF RicAccepts, At, Goto, EndsProcess, ricVars, cbVars, NoHandle, TypeOK
  <2>2. HandlesKept'
    BY <1>6 DEF RicAccepts, At, Goto, EndsProcess, ricVars, cbVars, NoHandle, TypeOK, HandlesKept, Live
  <2>3. QuietBeforeStart'
    BY <1>6 DEF RicAccepts, At, Goto, EndsProcess, ricVars, cbVars, NoHandle, QuietBeforeStart
  <2>4. MemoryBalanced'
    BY <1>6 DEF RicAccepts, At, Goto, EndsProcess, ricVars, cbVars, NoHandle, MemoryBalanced
  <2> QED BY <2>1, <2>2, <2>3, <2>4 DEF IInv
<1>7. ASSUME RicRefuses PROVE IInv'
  <2>1. TypeOK'
    BY <1>7 DEF RicRefuses, At, Goto, EndsProcess, ricVars, cbVars, NoHandle, TypeOK
  <2>2. HandlesKept'
    BY <1>7 DEF RicRefuses, At, Goto, EndsProcess, ricVars, cbVars, NoHandle, TypeOK, HandlesKept, Live
  <2>3. QuietBeforeStart'
    BY <1>7 DEF RicRefuses, At, Goto, EndsProcess, ricVars, cbVars, NoHandle, QuietBeforeStart
  <2>4. MemoryBalanced'
    BY <1>7 DEF RicRefuses, At, Goto, EndsProcess, ricVars, cbVars, NoHandle, MemoryBalanced
  <2> QED BY <2>1, <2>2, <2>3, <2>4 DEF IInv
<1>8. ASSUME Reported PROVE IInv'
  <2>1. TypeOK'
    <3>1. UNCHANGED <<e2Nodes, ans, connected, ric>> /\ hndl' = [hndl EXCEPT ![i] = ans]
      BY <1>8 DEF Reported, ricVars
    <3>2. /\ main' \in {"subs", "aborted"}
          /\ i' \in {i, i + 1} /\ mem' \in {mem, mem \ {"kpm_sub"}}
      BY <1>8 DEF Reported, Goto, EndsProcess
    <3>3. i' \in Nat \ {0} /\ mem' \in SUBSET {"e2Nodes", "hndl", "kpm_sub"}
      BY <3>2 DEF TypeOK
    <3>4. hndl' \in Seq(Nat)
      <4>1. i \in 1..Len(hndl)
        BY <1>8 DEF Reported, At, HandlesKept, TypeOK
      <4> QED BY <3>1, <4>1, ExceptSeq DEF TypeOK
    <3> QED BY <3>1, <3>2, <3>3, <3>4 DEF TypeOK
  <2>2. HandlesKept'
    BY SMTT(30), <1>8
       DEF Reported, At, Goto, EndsProcess, ricVars, NoHandle, TypeOK, HandlesKept, Live
  <2>3. QuietBeforeStart'
    BY <1>8 DEF Reported, At, Goto, EndsProcess, ricVars, cbVars, NoHandle, QuietBeforeStart
  <2>4. MemoryBalanced'
    BY <1>8 DEF Reported, At, Goto, EndsProcess, ricVars, cbVars, NoHandle, MemoryBalanced
  <2> QED BY <2>1, <2>2, <2>3, <2>4 DEF IInv
<1>9. ASSUME EndSubs PROVE IInv'
  <2>1. TypeOK'
    BY <1>9 DEF EndSubs, At, Goto, EndsProcess, ricVars, cbVars, NoHandle, TypeOK
  <2>2. HandlesKept'
    BY <1>9 DEF EndSubs, At, Goto, EndsProcess, ricVars, cbVars, NoHandle, TypeOK, HandlesKept, Live
  <2>3. QuietBeforeStart'
    BY <1>9 DEF EndSubs, At, Goto, EndsProcess, ricVars, cbVars, NoHandle, QuietBeforeStart
  <2>4. MemoryBalanced'
    BY <1>9 DEF EndSubs, At, Goto, EndsProcess, ricVars, cbVars, NoHandle, MemoryBalanced
  <2> QED BY <2>1, <2>2, <2>3, <2>4 DEF IInv
<1>10. ASSUME Wake PROVE IInv'
  <2>1. TypeOK'
    BY <1>10 DEF Wake, At, Goto, EndsProcess, ricVars, cbVars, NoHandle, TypeOK
  <2>2. HandlesKept'
    BY <1>10 DEF Wake, At, Goto, EndsProcess, ricVars, cbVars, NoHandle, TypeOK, HandlesKept, Live
  <2>3. QuietBeforeStart'
    BY <1>10 DEF Wake, At, Goto, EndsProcess, ricVars, cbVars, NoHandle, QuietBeforeStart
  <2>4. MemoryBalanced'
    BY <1>10 DEF Wake, At, Goto, EndsProcess, ricVars, cbVars, NoHandle, MemoryBalanced
  <2> QED BY <2>1, <2>2, <2>3, <2>4 DEF IInv
<1>11. ASSUME RmNode PROVE IInv'
  <2>1. TypeOK'
    BY <1>11 DEF RmNode, At, Goto, EndsProcess, ricVars, cbVars, NoHandle, TypeOK
  <2>2. HandlesKept'
    BY <1>11 DEF RmNode, At, Goto, EndsProcess, ricVars, cbVars, NoHandle, TypeOK, HandlesKept, Live
  <2>3. QuietBeforeStart'
    BY <1>11 DEF RmNode, At, Goto, EndsProcess, ricVars, cbVars, NoHandle, QuietBeforeStart
  <2>4. MemoryBalanced'
    BY <1>11 DEF RmNode, At, Goto, EndsProcess, ricVars, cbVars, NoHandle, MemoryBalanced
  <2> QED BY <2>1, <2>2, <2>3, <2>4 DEF IInv
<1>12. ASSUME RicRemoves PROVE IInv'
  <2>1. TypeOK'
    <3>1. /\ UNCHANGED <<e2Nodes, hndl, ans, mem, connected>> /\ main' = "rm" /\ i' = i + 1
          /\ ric' = [ric EXCEPT ![hndl[i]].live = FALSE]
      BY <1>12 DEF RicRemoves, Goto
    <3>2. ric' \in Seq([node : Nodes, live : BOOLEAN])
      <4> DEFINE h == hndl[i]
      <4>1. i \in 1..Len(hndl) /\ h # NoHandle
        BY <1>12 DEF RicRemoves, At, HandlesKept, TypeOK
      <4>2. h \in 1..Len(ric)
        BY <4>1 DEF HandlesKept, TypeOK, NoHandle
      <4>3. PICK x : x = [ric[h] EXCEPT !.live = FALSE]
        OBVIOUS
      <4>4. x \in [node : Nodes, live : BOOLEAN]
        <5>1. ric[h] \in [node : Nodes, live : BOOLEAN]
          <6>1. ric \in Seq([node : Nodes, live : BOOLEAN])
            BY DEF TypeOK
          <6> HIDE DEF h
          <6> QED BY <4>2, <6>1, ElementOfSeq
        <5> QED BY <4>3, <5>1
      <4>5. ric' = [ric EXCEPT ![h] = x]
        BY <3>1, <4>3
      <4>6. ric \in Seq([node : Nodes, live : BOOLEAN])
        BY DEF TypeOK
      <4> HIDE DEF h, IInv
      <4> QED BY <4>2, <4>4, <4>5, <4>6, ExceptSeq
    <3> QED BY <3>1, <3>2 DEF TypeOK
  <2>2. HandlesKept'
    BY <1>12 DEF RicRemoves, At, Goto, EndsProcess, ricVars, cbVars, NoHandle, TypeOK, HandlesKept, Live
  <2>3. QuietBeforeStart'
    BY <1>12 DEF RicRemoves, At, Goto, EndsProcess, ricVars, cbVars, NoHandle, QuietBeforeStart
  <2>4. MemoryBalanced'
    BY <1>12 DEF RicRemoves, At, Goto, EndsProcess, ricVars, cbVars, NoHandle, MemoryBalanced
  <2> QED BY <2>1, <2>2, <2>3, <2>4 DEF IInv
<1>13. ASSUME EndRm PROVE IInv'
  <2>1. TypeOK'
    BY <1>13 DEF EndRm, At, Goto, EndsProcess, ricVars, cbVars, NoHandle, TypeOK
  <2>2. HandlesKept'
    BY <1>13 DEF EndRm, At, Goto, EndsProcess, ricVars, cbVars, NoHandle, TypeOK, HandlesKept, Live
  <2>3. QuietBeforeStart'
    BY <1>13 DEF EndRm, At, Goto, EndsProcess, ricVars, cbVars, NoHandle, QuietBeforeStart
  <2>4. MemoryBalanced'
    BY <1>13 DEF EndRm, At, Goto, EndsProcess, ricVars, cbVars, NoHandle, MemoryBalanced
  <2> QED BY <2>1, <2>2, <2>3, <2>4 DEF IInv
<1>14. ASSUME TryStop PROVE IInv'
  <2>1. TypeOK'
    BY <1>14 DEF TryStop, At, Goto, EndsProcess, ricVars, cbVars, NoHandle, TypeOK
  <2>2. HandlesKept'
    BY <1>14 DEF TryStop, At, Goto, EndsProcess, ricVars, cbVars, NoHandle, TypeOK, HandlesKept, Live
  <2>3. QuietBeforeStart'
    BY <1>14 DEF TryStop, At, Goto, EndsProcess, ricVars, cbVars, NoHandle, QuietBeforeStart
  <2>4. MemoryBalanced'
    BY <1>14 DEF TryStop, At, Goto, EndsProcess, ricVars, cbVars, NoHandle, MemoryBalanced
  <2> QED BY <2>1, <2>2, <2>3, <2>4 DEF IInv
<1>15. ASSUME Exit PROVE IInv'
  <2>1. TypeOK'
    BY <1>15 DEF Exit, At, Goto, EndsProcess, ricVars, cbVars, NoHandle, TypeOK
  <2>2. HandlesKept'
    BY <1>15 DEF Exit, At, Goto, EndsProcess, ricVars, cbVars, NoHandle, TypeOK, HandlesKept, Live
  <2>3. QuietBeforeStart'
    BY <1>15 DEF Exit, At, Goto, EndsProcess, ricVars, cbVars, NoHandle, QuietBeforeStart
  <2>4. MemoryBalanced'
    <3>1. main' = "exited" /\ mem' = mem \ {"e2Nodes"} /\ main = "finished"
      BY <1>15 DEF Exit, At, EndsProcess
    <3>2. "hndl" \notin mem /\ "kpm_sub" \notin mem
      BY <3>1 DEF MemoryBalanced
    <3>t. mem \subseteq {"e2Nodes", "hndl", "kpm_sub"}
      BY DEF TypeOK
    <3>3. mem' = {}
      BY <3>1, <3>2, <3>t
    <3> QED BY <3>1, <3>3 DEF MemoryBalanced
  <2> QED BY <2>1, <2>2, <2>3, <2>4 DEF IInv
<1>16. ASSUME NEW n \in Nodes, Connect(n) \/ Disconnect(n) PROVE IInv'
  <2>1. TypeOK'
    BY <1>16 DEF Connect, Disconnect, startVars, ricVars, cbVars, TypeOK
  <2>2. HandlesKept'
    BY <1>16 DEF Connect, Disconnect, startVars, ricVars, cbVars, TypeOK, HandlesKept, Live
  <2>3. QuietBeforeStart'
    BY <1>16 DEF Connect, Disconnect, startVars, ricVars, cbVars, QuietBeforeStart
  <2>4. MemoryBalanced'
    BY <1>16 DEF Connect, Disconnect, startVars, ricVars, cbVars, MemoryBalanced
  <2> QED BY <2>1, <2>2, <2>3, <2>4 DEF IInv
<1>17. ASSUME NEW h \in 1..Len(ric), NEW m \in Messages, Indicate(h, m) PROVE IInv'
  <2>1. TypeOK'
    BY <1>17 DEF Indicate, CB!Deliver, startVars, ricVars, cbVars, TypeOK
  <2>2. HandlesKept'
    BY <1>17 DEF Indicate, CB!Deliver, startVars, ricVars, cbVars, TypeOK, HandlesKept, Live
  <2>3. QuietBeforeStart'
    BY <1>17 DEF Indicate, CB!Deliver, startVars, ricVars, cbVars, QuietBeforeStart
  <2>4. MemoryBalanced'
    BY <1>17 DEF Indicate, CB!Deliver, startVars, ricVars, cbVars, MemoryBalanced
  <2> QED BY <2>1, <2>2, <2>3, <2>4 DEF IInv
<1>18. ASSUME NEW t \in Threads, Callback(t) PROVE IInv'
  <2>1. TypeOK'
    BY <1>18 DEF Callback, CB!ThreadStep, startVars, ricVars, cbVars, TypeOK
  <2>2. HandlesKept'
    BY <1>18 DEF Callback, CB!ThreadStep, startVars, ricVars, cbVars, TypeOK, HandlesKept, Live
  <2>3. QuietBeforeStart'
    BY <1>18
       DEF Callback, CB!ThreadStep, CB!Enter, CB!Lock, CB!PrintHeader, CB!PrintUe,
           CB!PrintRecord, CB!NextData, CB!NextUe, CB!CountUp, CB!Unlock,
           startVars, ricVars, QuietBeforeStart
  <2>4. MemoryBalanced'
    BY <1>18 DEF Callback, CB!ThreadStep, startVars, ricVars, cbVars, MemoryBalanced
  <2> QED BY <2>1, <2>2, <2>3, <2>4 DEF IInv
<1>19. ASSUME UNCHANGED vars PROVE IInv'
  <2>1. TypeOK'
    BY <1>19 DEF vars, startVars, ricVars, cbVars, TypeOK
  <2>2. HandlesKept'
    BY <1>19 DEF vars, startVars, ricVars, cbVars, TypeOK, HandlesKept, Live
  <2>3. QuietBeforeStart'
    BY <1>19 DEF vars, startVars, ricVars, cbVars, QuietBeforeStart
  <2>4. MemoryBalanced'
    BY <1>19 DEF vars, startVars, ricVars, cbVars, MemoryBalanced
  <2> QED BY <2>1, <2>2, <2>3, <2>4 DEF IInv
<1> QED
  BY <1>1, <1>2, <1>3, <1>4, <1>5, <1>6, <1>7, <1>8, <1>9, <1>10, <1>11, <1>12, <1>13, <1>14, <1>15, <1>16, <1>17, <1>18, <1>19
     DEF Next, MainStep, RicStep, Over

\* Every step of the xApp is a step of the callback or leaves it alone: the end
\* of the main thread ends the process, and the mutex is initialised while it
\* is free.
LEMMA NextCallback == IInv /\ [Next]_vars => [CB!Next]_(CB!vars)
<1> SUFFICES ASSUME QuietBeforeStart, [Next]_vars PROVE [CB!Next]_(CB!vars)
  BY DEF IInv
<1>1. ASSUME NEW l, Goto(l) PROVE UNCHANGED CB!vars
  BY <1>1 DEF Goto, cbVars, CB!vars
<1>2. ASSUME NEW l, EndsProcess(l), proc = "up" PROVE CB!Next
  BY <1>2 DEF EndsProcess, CB!Next, CB!ProcessEnds
<1>3. CASE MainStep \/ RicStep
  <2>1. CASE Start
    BY <2>1 DEF Start, At, QuietBeforeStart, CB!vars
  <2>2. CASE InitXapp \/ EndSubs \/ Wake \/ EndRm \/ TryStop \/ RicStep
    BY <1>1, <2>2 DEF InitXapp, EndSubs, Wake, EndRm, TryStop, RicStep,
                      RicAccepts, RicRefuses, RicRemoves
  <2>3. CASE GetNodes \/ PrepareNode \/ Reported \/ RmNode
    BY <1>1, <1>2, <2>3 DEF GetNodes, PrepareNode, Reported, RmNode, At
  <2>4. CASE StartOutOfMemory \/ Exit
    BY <1>2, <2>4 DEF StartOutOfMemory, Exit, At
  <2> QED BY <1>3, <2>1, <2>2, <2>3, <2>4 DEF MainStep
<1>4. ASSUME NEW n \in Nodes, Connect(n) \/ Disconnect(n) PROVE UNCHANGED CB!vars
  BY <1>4 DEF Connect, Disconnect, cbVars, CB!vars
<1>5. ASSUME NEW h, NEW m \in Messages, Indicate(h, m) PROVE CB!Next
  BY <1>5 DEF Indicate, CB!Next
<1>6. ASSUME NEW t \in Threads, Callback(t) PROVE CB!Next
  BY <1>6 DEF Callback, CB!Next
<1>7. CASE UNCHANGED vars \/ Over
  BY <1>7 DEF vars, cbVars, CB!vars, Over
<1> QED BY <1>3, <1>4, <1>5, <1>6, <1>7 DEF Next

-----------------------------------------------------------------------------
\* The states of the main thread, the RIC and the nodes have their types.
THEOREM TypeCorrect == Spec => []TypeOK
<1>1. IInv => TypeOK
  BY DEF IInv
<1> QED BY <1>1, InitIInv, NextIInv, PTL DEF Spec

\* When start returns no subscription the RIC accepted is left.
THEOREM StopsClean == Spec => []CleanStop
<1>1. IInv => CleanStop
  BY DEF IInv, HandlesKept, CleanStop
<1> QED BY <1>1, InitIInv, NextIInv, PTL DEF Spec

\* No block of memory is used after it is freed, and none is left at the exit.
THEOREM FreesAll == Spec => []MemoryBalanced
<1>1. IInv => MemoryBalanced
  BY DEF IInv
<1> QED BY <1>1, InitIInv, NextIInv, PTL DEF Spec

\* Within the xApp the callback is the callback of KpmCallback: what is proved
\* of that one holds here.
THEOREM RefinesCallback == Spec => CallbackIsKpmCallback
<1>1. Init => CB!Init
  BY DEF Init
<1> QED
  BY <1>1, InitIInv, NextIInv, NextCallback, PTL
     DEF Spec, CallbackIsKpmCallback, CB!Spec

\* KpmCallback and its theorems are taken into the xApp as two instances. They
\* are the same: they print the same lines,
LEMMA SameLines ==
    /\ \A k, n, l : CB!Header(k, n, l) = CBP!Header(k, n, l)
    /\ \A k, u, ue : CB!print_ue_id(k, u, ue) = CBP!print_ue_id(k, u, ue)
    /\ \A r, d, j : CB!match_meas_type(r, d, j) = CBP!match_meas_type(r, d, j)
    /\ \A k, at, o, inc : CB!RecordLines(k, at, o, inc) = CBP!RecordLines(k, at, o, inc)
<1>1. \A k, n, l : CB!Header(k, n, l) = CBP!Header(k, n, l)
  BY DEF CB!Header, CBP!Header
<1>2. ASSUME NEW k, NEW u, NEW ue
      PROVE  CB!print_ue_id(k, u, ue) = CBP!print_ue_id(k, u, ue)
  BY ZenonT(40) DEF CB!print_ue_id, CBP!print_ue_id, CB!NoList, CBP!NoList,
                    CB!RanUeId, CBP!RanUeId, CB!LineOf, CBP!LineOf
<1>3. \A r, d, j : CB!match_meas_type(r, d, j) = CBP!match_meas_type(r, d, j)
  BY DEF CB!match_meas_type, CBP!match_meas_type, CB!match_meas_name_type,
         CBP!match_meas_name_type, CB!match_meas_type_id,
         CBP!match_meas_type_id, CB!get_meas_value, CBP!get_meas_value,
         CB!int_meas_value, CBP!int_meas_value, CB!real_meas_value,
         CBP!real_meas_value, CB!SUPPORTED_MEASUREMENTS,
         CBP!SUPPORTED_MEASUREMENTS, CB!IdType, CBP!IdType
<1>4. \A k, at, o, inc : CB!RecordLines(k, at, o, inc) = CBP!RecordLines(k, at, o, inc)
  BY Zenon DEF CB!RecordLines, CBP!RecordLines, CB!LineOf, CBP!LineOf
<1> QED BY <1>1, <1>2, <1>3, <1>4

\* read the same parts of an indication,
LEMMA SameReads ==
    \A t : /\ CB!message(t) = CBP!message(t) /\ CB!report(t) = CBP!report(t)
           /\ CB!data(t) = CBP!data(t)
BY DEF CB!message, CBP!message, CB!report, CBP!report, CB!data, CBP!data

\* and take the same steps.
LEMMA SameSteps == [CB!Next]_(CB!vars) => [CBP!Next]_(CBP!vars)
<1>1. \A m : CB!Deliver(m) => CBP!Deliver(m)
  BY DEF CB!Deliver, CBP!Deliver
<1>2. ASSUME NEW t, CB!ThreadStep(t) PROVE CBP!ThreadStep(t)
  <2> USE DEF CB!Goto, CBP!Goto, CB!At, CBP!At
  <2>1. CB!Enter(t) => CBP!Enter(t)
    BY DEF CB!Enter, CBP!Enter, CB!Latency, CBP!Latency
  <2>2. CB!Lock(t) => CBP!Lock(t)
    BY DEF CB!Lock, CBP!Lock
  <2>3. CB!PrintHeader(t) => CBP!PrintHeader(t)
    BY SameLines DEF CB!PrintHeader, CBP!PrintHeader
  <2>4. CB!PrintUe(t) => CBP!PrintUe(t)
    BY SameLines, SameReads DEF CB!PrintUe, CBP!PrintUe
  <2>5. CB!PrintRecord(t) => CBP!PrintRecord(t)
    BY SameLines, SameReads DEF CB!PrintRecord, CBP!PrintRecord
  <2>6. CB!NextData(t) => CBP!NextData(t)
    BY SameReads DEF CB!NextData, CBP!NextData
  <2>7. CB!NextUe(t) => CBP!NextUe(t)
    BY SameReads DEF CB!NextUe, CBP!NextUe
  <2>8. CB!CountUp(t) => CBP!CountUp(t)
    BY SameReads DEF CB!CountUp, CBP!CountUp
  <2>9. CB!Unlock(t) => CBP!Unlock(t)
    BY DEF CB!Unlock, CBP!Unlock
  <2> QED BY <1>2, <2>1, <2>2, <2>3, <2>4, <2>5, <2>6, <2>7, <2>8, <2>9
          DEF CB!ThreadStep, CBP!ThreadStep
<1>3. CB!ProcessEnds => CBP!ProcessEnds
  BY DEF CB!ProcessEnds, CBP!ProcessEnds
<1>4. CB!Ended \/ UNCHANGED CB!vars => UNCHANGED CBP!vars
  BY DEF CB!Ended, CB!vars, CBP!vars
<1> QED BY <1>1, <1>2, <1>3, <1>4 DEF CB!Next, CBP!Next

\* While subscriptions are made and removed, and nodes come and go, reports do
\* not mix, are numbered in order, and a callback ends the process only over an
\* indication it cannot print.
THEOREM ReportsInXApp ==
    Spec => [](CB!BlocksContiguous /\ CB!NumberedInOrder /\ CB!DeathHasCause)
<1>1. Messages \subseteq CBP!Indication
  BY ThreadsAssumption
     DEF Indication, CBP!Indication, Report, CBP!Report, Data, CBP!Data, Ue, CBP!Ue,
         NoList, CBP!NoList
<1>2. /\ CBP!Spec => []CBP!BlocksContiguous
      /\ CBP!Spec => []CBP!NumberedInOrder
      /\ CBP!Spec => []CBP!DeathHasCause
  BY <1>1, ThreadsAssumption, WrapAssumption, CBP!Contiguous, CBP!Numbered,
     CBP!DeathsExplained
<1>3. CB!Init => CBP!Init
  BY DEF CB!Init, CBP!Init
<1>4. CBP!BlocksContiguous => CB!BlocksContiguous
  BY DEF CB!BlocksContiguous, CBP!BlocksContiguous
<1>5. CBP!NumberedInOrder => CB!NumberedInOrder
  BY DEF CB!NumberedInOrder, CBP!NumberedInOrder, CB!Headers, CBP!Headers
<1>6. CBP!DeathHasCause => CB!DeathHasCause
  <2>1. \A t : CBP!Unprintable(t) = CB!Unprintable(t)
    BY SameReads DEF CB!Unprintable, CBP!Unprintable, CB!IdType, CBP!IdType
  <2> QED BY <2>1 DEF CB!DeathHasCause, CBP!DeathHasCause
<1> QED
  BY <1>2, <1>3, <1>4, <1>5, <1>6, RefinesCallback, SameSteps, PTL
     DEF CallbackIsKpmCallback, CB!Spec, CBP!Spec

\* In the xApp too what is on the screen grows by whole reports: whichever node
\* an indication comes from, and whatever the other threads do meanwhile, its
\* report is printed line by line, whole, with its number, or the process ends.
THEOREM WholeReportsInXApp == Spec => CBP!WholeReports
<1>1. Messages \subseteq CBP!Indication
  BY ThreadsAssumption
     DEF Indication, CBP!Indication, Report, CBP!Report, Data, CBP!Data, Ue, CBP!Ue,
         NoList, CBP!NoList
<1>2. CBP!Spec => CBP!WholeReports
  BY <1>1, ThreadsAssumption, WrapAssumption, CBP!Reporting
<1>3. CB!Init => CBP!Init
  BY DEF CB!Init, CBP!Init
<1> QED
  BY <1>2, <1>3, RefinesCallback, SameSteps, PTL
     DEF CallbackIsKpmCallback, CB!Spec, CBP!Spec

----------------------------------------------------------------------------
(* The subscriptions of the xApp: which nodes hold one during the experiment,  *)
(* what is subscribed to, and that the exit cuts off no callback.              *)

\* Every node announces KPM; get_kpm_idx does not leave its list.
KpmAnnounced == \A n \in Nodes : \E f \in 1..Len(Rf[n]) : Rf[n][f].id = KPM_RAN_FUNC_ID

\* gen_kpm_subs can make a subscription for the node.
MaySend(n) == "send" \in Prepare(Rf[n])

\* The states in which start has handles and may still get more.
Subscribing == {"subs", "report", "reported", "sleep"}

\* The inductive invariant behind ReportingNodesSubscribed and SubscribedFit.
Ledger ==
    /\ \A a, b \in 1..Len(e2Nodes) : e2Nodes[a] = e2Nodes[b] => a = b
    /\ main = "report" => MaySend(e2Nodes[i])
    /\ \A h \in 1..Len(ric) : MaySend(ric[h].node)
    /\ main = "reported" /\ ans # NoHandle =>
          ans \in 1..Len(ric) /\ ric[ans].live /\ ric[ans].node = e2Nodes[i]
    /\ main \in Subscribing =>
          \A n \in 1..Len(e2Nodes) : hndl[n] # NoHandle =>
              hndl[n] \in 1..Len(ric) /\ ric[hndl[n]].live /\ ric[hndl[n]].node = e2Nodes[n]
    /\ main = "sleep" => i > Len(e2Nodes)
    /\ KpmAnnounced /\ main \in {"report", "reported"} => HasReportService(e2Nodes[i])
    /\ KpmAnnounced /\ main \in Subscribing =>
          \A n \in 1..Len(e2Nodes) :
              n < i => (hndl[n] # NoHandle <=> HasReportService(e2Nodes[n]))

----------------------------------------------------------------------------
\* A node that announces KPM is prepared from what it announced.
LEMMA PrepareKpm ==
    ASSUME NEW n \in Nodes, NEW f \in 1..Len(Rf[n]), Rf[n][f].id = KPM_RAN_FUNC_ID,
           NEW o \in Prepare(Rf[n])
    PROVE  /\ o = "skip" <=> (Rf[n][f].defn = "KPM" /\ Rf[n][f].styles = << >>)
           /\ o = "send" =>
                 /\ Rf[n][f].defn = "KPM" /\ Rf[n][f].triggers # << >>
                 /\ Rf[n][f].triggers[1] = 1 /\ Rf[n][f].styles # << >>
                 /\ Rf[n][f].styles[1] = [type |-> 4, fmt |-> 4]
<1>0. Rf[n] \in Seq([id : Nat, defn : {"KPM", "other"}, triggers : Seq(Nat),
                     styles : Seq([type : Nat, fmt : Nat])])
  BY RfAssumption
<1>1. {g \in 1..Len(Rf[n]) : Rf[n][g].id = KPM_RAN_FUNC_ID} = {f}
  BY RfAssumption
<1>2. get_kpm_idx(Rf[n]) = {f}
  <2>1. Min({f}) = f
    BY <1>0 DEF Min
  <2> QED BY <1>1, <2>1 DEF get_kpm_idx
<1>3. f # 0 /\ ~(f > Len(Rf[n]))
  BY <1>0
<1>4. o \in (IF Rf[n][f].defn # "KPM" THEN {"aborted"}
             ELSE IF Rf[n][f].styles = << >> THEN {"skip"}
             ELSE gen_kpm_subs(Rf[n][f]))
  BY <1>2, <1>3 DEF Prepare
<1>5. \A x \in gen_kpm_subs(Rf[n][f]) :
         /\ x # "skip"
         /\ x = "send" => /\ Rf[n][f].triggers # << >> /\ Rf[n][f].triggers[1] = 1
                          /\ Rf[n][f].styles[1].type = 4 /\ Rf[n][f].styles[1].fmt = 4
  BY DEF gen_kpm_subs, get_kpm_act_def, fill_report_style_4
<1>6. ASSUME Rf[n][f].styles # << >>, Rf[n][f].styles[1].type = 4, Rf[n][f].styles[1].fmt = 4
      PROVE  Rf[n][f].styles[1] = [type |-> 4, fmt |-> 4]
  <2>0. Rf[n][f] \in [id : Nat, defn : {"KPM", "other"}, triggers : Seq(Nat),
                     styles : Seq([type : Nat, fmt : Nat])]
    BY <1>0, ElementOfSeq
  <2>1. Rf[n][f].styles \in Seq([type : Nat, fmt : Nat])
    BY <2>0
  <2>2. Rf[n][f].styles[1] \in [type : Nat, fmt : Nat]
    <3>1. PICK s : s = Rf[n][f].styles
      OBVIOUS
    <3>2. s \in Seq([type : Nat, fmt : Nat]) /\ s # << >>
      BY <1>6, <2>1, <3>1
    <3>3. 1 \in 1..Len(s)
      BY <3>2
    <3> QED BY <3>1, <3>2, <3>3, ElementOfSeq
  <2> QED BY <1>6, <2>2
<1> QED BY <1>4, <1>5, <1>6

\* With no more than one KPM function per node, what the node announced decides
\* whether it is subscribed to.
LEMMA SentReports ==
    ASSUME KpmAnnounced, NEW n \in Nodes
    PROVE  /\ MaySend(n) => HasReportService(n)
           /\ "skip" \in Prepare(Rf[n]) => ~HasReportService(n)
<1>1. PICK f \in 1..Len(Rf[n]) : Rf[n][f].id = KPM_RAN_FUNC_ID
  BY DEF KpmAnnounced
<1>2. \A g \in 1..Len(Rf[n]) : Rf[n][g].id = KPM_RAN_FUNC_ID => g = f
  BY <1>1, RfAssumption
<1>3. MaySend(n) => HasReportService(n)
  <2> SUFFICES ASSUME MaySend(n) PROVE HasReportService(n)
    OBVIOUS
  <2>1. Rf[n][f].styles # << >>
    BY <1>1, PrepareKpm DEF MaySend
  <2> QED BY <1>1, <2>1 DEF HasReportService
<1>4. "skip" \in Prepare(Rf[n]) => ~HasReportService(n)
  <2> SUFFICES ASSUME "skip" \in Prepare(Rf[n]) PROVE ~HasReportService(n)
    OBVIOUS
  <2>1. Rf[n][f].styles = << >>
    BY <1>1, PrepareKpm
  <2> QED BY <1>2, <2>1 DEF HasReportService
<1> QED BY <1>3, <1>4

----------------------------------------------------------------------------
LEMMA InitLedger == Init => Ledger
BY DEF Init, Ledger, NoHandle, Subscribing

\* A step that changes nothing the ledger reads keeps it, when it does not enter
\* a state the ledger speaks of.
LEMMA LedgerStays ==
    ASSUME Ledger, UNCHANGED <<e2Nodes, ric>>, main' \notin Subscribing
    PROVE  Ledger'
BY DEF Ledger, Subscribing

\* So does one that leaves the main thread, its variables and the RIC alone.
LEMMA LedgerUnchanged ==
    ASSUME Ledger, UNCHANGED <<main, i, e2Nodes, hndl, ans, ric>>
    PROVE  Ledger'
BY DEF Ledger, HasReportService, Subscribing

\* The main thread's steps before and after the subscriptions.
LEMMA OutsideLedger ==
    ASSUME IInv, Ledger,
           InitXapp \/ GetNodes \/ Start \/ StartOutOfMemory \/ EndSubs \/ Wake
               \/ RmNode \/ EndRm \/ TryStop \/ Exit \/ RicRemoves
    PROVE  Ledger'
<1>1. ASSUME InitXapp \/ StartOutOfMemory \/ Wake \/ RmNode \/ EndRm \/ TryStop \/ Exit
      PROVE  Ledger'
  <2>1. UNCHANGED <<e2Nodes, ric>> /\ main' \notin Subscribing
    BY <1>1 DEF InitXapp, StartOutOfMemory, Wake, RmNode, EndRm, TryStop, Exit,
                Goto, EndsProcess, ricVars, Subscribing
  <2> QED BY <2>1, LedgerStays
<1>2. ASSUME GetNodes PROVE Ledger'
  <2>1. ric = << >> /\ ric' = << >> /\ main' \notin Subscribing
    BY <1>2 DEF IInv, QuietBeforeStart, GetNodes, At, Goto, EndsProcess, ricVars, Subscribing
  <2>2. PICK s \in Listings(connected) : e2Nodes' = s
    BY <1>2 DEF GetNodes
  <2>3. IsFiniteSet(connected)
    BY NodesAssumption, FS_Subset DEF IInv, TypeOK
  <2>4. Cardinality(connected) \in Nat
    BY <2>3, FS_CardinalityType
  <2>5. \A a, b \in 1..Len(s) : s[a] = s[b] => a = b
    BY <2>4 DEF Listings
  <2>6. Len(ric') = 0
    BY <2>1
  <2> QED BY <2>1, <2>2, <2>5, <2>6 DEF Ledger, Subscribing
<1>3. ASSUME Start PROVE Ledger'
  <2>1. /\ main' = "subs" /\ i' = 1 /\ UNCHANGED <<e2Nodes, ric>>
        /\ hndl' = [n \in 1..Len(e2Nodes) |-> NoHandle]
    BY <1>3 DEF Start, ricVars
  <2>2. \A n \in 1..Len(e2Nodes) : hndl'[n] = NoHandle
    BY <2>1
  <2>3. \A n \in 1..Len(e2Nodes) : ~(n < i')
    BY <2>1
  <2> QED BY <2>1, <2>2, <2>3 DEF Ledger, Subscribing
<1>4. ASSUME EndSubs PROVE Ledger'
  <2>1. main = "subs" /\ i > Len(e2Nodes) /\ main' = "sleep" /\ UNCHANGED <<i, e2Nodes, hndl, ric>>
    BY <1>4 DEF EndSubs, At, Goto, ricVars
  <2> QED BY <2>1 DEF Ledger, Subscribing, HasReportService
<1>5. ASSUME RicRemoves PROVE Ledger'
  <2>1. main' = "rm" /\ e2Nodes' = e2Nodes /\ ric' = [ric EXCEPT ![hndl[i]].live = FALSE]
    BY <1>5 DEF RicRemoves, Goto
  <2>2. ric \in Seq([node : Nodes, live : BOOLEAN])
    BY DEF IInv, TypeOK
  <2>3. Len(ric') = Len(ric) /\ \A h \in 1..Len(ric) : ric'[h].node = ric[h].node
    BY <2>1, <2>2
  <2> QED BY <2>1, <2>3 DEF Ledger, MaySend, Subscribing
<1> QED BY <1>1, <1>2, <1>3, <1>4, <1>5

\* A node is prepared: asked for its subscription, or skipped.
LEMMA PrepareLedger == ASSUME IInv, Ledger, PrepareNode PROVE Ledger'
<1>1. /\ main = "subs" /\ i <= Len(e2Nodes) /\ UNCHANGED <<e2Nodes, hndl, ans, ric>>
  BY DEF PrepareNode, At, ricVars
<1>2. i \in 1..Len(e2Nodes) /\ e2Nodes[i] \in Nodes /\ i \in Nat
  BY <1>1, ElementOfSeq DEF IInv, TypeOK
<1>3. PICK o \in Prepare(Rf[e2Nodes[i]]) :
          \/ o = "send" /\ main' = "report" /\ i' = i
          \/ o = "skip" /\ main' = "subs" /\ i' = i + 1
          \/ main' \in {"aborted", "crashed"}
  BY DEF PrepareNode, Goto, EndsProcess
<1>4. CASE o = "send" /\ main' = "report" /\ i' = i
  <2>1. MaySend(e2Nodes[i])
    BY <1>3, <1>4 DEF MaySend
  <2>2. KpmAnnounced => HasReportService(e2Nodes[i])
    BY <1>2, <2>1, SentReports
  <2> QED BY <1>1, <1>4, <2>1, <2>2 DEF Ledger, Subscribing, HasReportService, MaySend
<1>5. CASE o = "skip" /\ main' = "subs" /\ i' = i + 1
  <2>1. KpmAnnounced => ~HasReportService(e2Nodes[i])
    BY <1>2, <1>3, <1>5, SentReports
  <2>2. hndl[i] = NoHandle
    BY <1>1, <1>2 DEF IInv, HandlesKept
  <2>3. ASSUME KpmAnnounced, NEW n \in 1..Len(e2Nodes), n < i + 1
        PROVE  hndl[n] # NoHandle <=> HasReportService(e2Nodes[n])
    <3>1. n < i \/ n = i
      BY <1>2, <2>3
    <3> QED BY <1>1, <2>1, <2>2, <2>3, <3>1 DEF Ledger, Subscribing
  <2>4. KpmAnnounced' = KpmAnnounced
    BY DEF KpmAnnounced
  <2> QED BY <1>1, <1>5, <2>3, <2>4 DEF Ledger, Subscribing, HasReportService, MaySend
<1>6. CASE main' \in {"aborted", "crashed"}
  BY <1>1, <1>6, LedgerStays DEF Subscribing
<1> QED BY <1>3, <1>4, <1>5, <1>6

\* The RIC answers: an accepted subscription is the one of the node asked for.
LEMMA AnswerLedger == ASSUME IInv, Ledger, RicAccepts \/ RicRefuses PROVE Ledger'
<1>0. /\ main = "report" /\ main' = "reported" /\ UNCHANGED <<i, e2Nodes, hndl>>
      /\ i \in 1..Len(e2Nodes)
  BY DEF RicAccepts, RicRefuses, At, Goto, IInv, HandlesKept, TypeOK
<1>1. ASSUME RicRefuses PROVE Ledger'
  <2>1. ans' = NoHandle /\ ric' = ric
    BY <1>1 DEF RicRefuses, ricVars
  <2> QED BY <1>0, <2>1 DEF Ledger, Subscribing, HasReportService, MaySend
<1>2. ASSUME RicAccepts PROVE Ledger'
  <2>1. ric' = Append(ric, [node |-> e2Nodes[i], live |-> TRUE]) /\ ans' = Len(ric')
    BY <1>2 DEF RicAccepts
  <2>2. ric \in Seq([node : Nodes, live : BOOLEAN]) /\ e2Nodes[i] \in Nodes
    BY <1>0, ElementOfSeq DEF IInv, TypeOK
  <2>3. /\ Len(ric') = Len(ric) + 1 /\ Len(ric) \in Nat
        /\ ric'[Len(ric')].node = e2Nodes[i] /\ ric'[Len(ric')].live
        /\ \A h \in 1..Len(ric) : ric'[h] = ric[h]
    BY <2>1, <2>2
  <2>4. \A h \in 1..Len(ric') : MaySend(ric'[h].node)
    BY <1>0, <2>3 DEF Ledger
  <2> QED BY <1>0, <2>1, <2>3, <2>4 DEF Ledger, Subscribing, HasReportService, MaySend
<1> QED BY <1>1, <1>2

\* The handle is stored.
LEMMA ReportedLedger == ASSUME IInv, Ledger, Reported PROVE Ledger'
<1>1. /\ main = "reported" /\ hndl' = [hndl EXCEPT ![i] = ans] /\ UNCHANGED <<e2Nodes, ric>>
      /\ \/ ans # NoHandle /\ main' = "subs" /\ i' = i + 1
         \/ main' = "aborted"
  BY DEF Reported, At, Goto, EndsProcess, ricVars
<1>2. CASE main' = "aborted"
  BY <1>1, <1>2, LedgerStays DEF Subscribing
<1>3. CASE ans # NoHandle /\ main' = "subs" /\ i' = i + 1
  <2>1. /\ i \in 1..Len(e2Nodes) /\ i \in Nat /\ Len(hndl) = Len(e2Nodes) /\ hndl \in Seq(Nat)
    BY <1>1 DEF IInv, HandlesKept, TypeOK
  <2>2. hndl'[i] = ans /\ \A n \in 1..Len(e2Nodes) : n # i => hndl'[n] = hndl[n]
    BY <1>1, <2>1
  <2>3. ans \in 1..Len(ric) /\ ric[ans].live /\ ric[ans].node = e2Nodes[i]
    BY <1>1, <1>3 DEF Ledger
  <2>4. ASSUME NEW n \in 1..Len(e2Nodes), hndl'[n] # NoHandle
        PROVE  hndl'[n] \in 1..Len(ric) /\ ric[hndl'[n]].live /\ ric[hndl'[n]].node = e2Nodes[n]
    BY <1>1, <2>2, <2>3, <2>4 DEF Ledger, Subscribing
  <2>5. ASSUME KpmAnnounced, NEW n \in 1..Len(e2Nodes), n < i + 1
        PROVE  hndl'[n] # NoHandle <=> HasReportService(e2Nodes[n])
    <3>1. n < i \/ n = i
      BY <2>1, <2>5
    <3> QED BY <1>1, <1>3, <2>2, <2>5, <3>1, SMTT(30) DEF Ledger, Subscribing
  <2>6. KpmAnnounced' = KpmAnnounced
    BY DEF KpmAnnounced
  <2> QED BY <1>1, <1>3, <2>4, <2>5, <2>6 DEF Ledger, Subscribing, HasReportService, MaySend
<1> QED BY <1>1, <1>2, <1>3

\* Every step keeps the ledger.
LEMMA NextLedger == IInv /\ Ledger /\ [Next]_vars => Ledger'
<1> SUFFICES ASSUME IInv, Ledger, [Next]_vars PROVE Ledger'
  OBVIOUS
<1>1. CASE MainStep
  BY <1>1, OutsideLedger, PrepareLedger, ReportedLedger DEF MainStep
<1>2. CASE RicStep
  BY <1>2, OutsideLedger, AnswerLedger DEF RicStep
<1>3. CASE \/ \E n \in Nodes : Connect(n) \/ Disconnect(n)
           \/ \E h \in 1..Len(ric), m \in Messages : Indicate(h, m)
           \/ \E t \in Threads : Callback(t)
           \/ Over \/ UNCHANGED vars
  <2>1. UNCHANGED <<main, i, e2Nodes, hndl, ans, ric>>
    BY <1>3 DEF Connect, Disconnect, Indicate, Callback, Over, vars, startVars, ricVars
  <2> QED BY <2>1, LedgerUnchanged
<1> QED BY <1>1, <1>2, <1>3 DEF Next

LEMMA LedgerHolds == Spec => [](IInv /\ Ledger)
BY InitIInv, NextIInv, InitLedger, NextLedger, PTL DEF Spec

----------------------------------------------------------------------------
\* Only what the xApp can read is subscribed to, whatever the nodes announce.
THEOREM FitSubscribed == Spec => []SubscribedFit
<1>1. IInv /\ Ledger => SubscribedFit
  <2> SUFFICES ASSUME IInv, Ledger, NEW h \in 1..Len(ric), NEW f \in 1..Len(Rf[ric[h].node]),
                      Rf[ric[h].node][f].id = KPM_RAN_FUNC_ID
               PROVE  LET fn == Rf[ric[h].node][f]
                      IN  /\ fn.defn = "KPM" /\ fn.triggers # << >> /\ fn.triggers[1] = 1
                          /\ fn.styles[1] = [type |-> 4, fmt |-> 4]
    BY DEF SubscribedFit
  <2>1. ric[h].node \in Nodes
    <3>1. ric[h] \in [node : Nodes, live : BOOLEAN]
      BY ElementOfSeq DEF IInv, TypeOK
    <3> QED BY <3>1
  <2>2. MaySend(ric[h].node)
    BY DEF Ledger
  <2> QED BY <2>1, <2>2, PrepareKpm DEF MaySend
<1> QED BY <1>1, LedgerHolds, PTL

\* When every node announces KPM, each listed node with a report service holds
\* exactly one subscription during the experiment, the one its handle names, and
\* no node outside the list holds any.
THEOREM ReportersSubscribed ==
    ASSUME KpmAnnounced PROVE Spec => []ReportingNodesSubscribed
<1>1. IInv /\ Ledger => ReportingNodesSubscribed
  <2> SUFFICES ASSUME IInv, Ledger, main = "sleep" PROVE ReportingNodesSubscribed
    BY DEF ReportingNodesSubscribed
  <2>1. Len(hndl) = Len(e2Nodes) /\ i > Len(e2Nodes)
    BY DEF IInv, HandlesKept, TypeOK, Ledger
  <2>2. ASSUME NEW h \in Live
        PROVE  \E m \in 1..Len(e2Nodes) : hndl[m] = h /\ h # NoHandle /\ ric[h].node = e2Nodes[m]
    <3>1. PICK m \in 1..Len(hndl) : hndl[m] = h
      BY DEF IInv, HandlesKept
    <3> QED BY <2>1, <3>1 DEF Live, NoHandle, Ledger, Subscribing
  <2>3. ASSUME NEW n \in 1..Len(e2Nodes)
        PROVE  {h \in Live : ric[h].node = e2Nodes[n]} =
                   IF HasReportService(e2Nodes[n]) THEN {hndl[n]} ELSE {}
    <3>1. hndl[n] # NoHandle <=> HasReportService(e2Nodes[n])
      BY <2>1 DEF Ledger, Subscribing, IInv, HandlesKept, TypeOK
    <3>2. ASSUME NEW h \in Live, ric[h].node = e2Nodes[n] PROVE h = hndl[n] /\ hndl[n] # NoHandle
      BY <2>2, <2>3, <3>2 DEF Ledger
    <3>3. hndl[n] # NoHandle => hndl[n] \in Live /\ ric[hndl[n]].node = e2Nodes[n]
      BY <2>3 DEF Ledger, Subscribing, Live
    <3> QED BY <3>1, <3>2, <3>3
  <2>4. {ric[h].node : h \in Live} \subseteq {e2Nodes[n] : n \in 1..Len(e2Nodes)}
    BY <2>2
  <2> QED BY <2>3, <2>4 DEF ReportingNodesSubscribed
<1> QED BY <1>1, LedgerHolds, PTL

----------------------------------------------------------------------------
\* The threads with an indication that is taken and not yet counted.
Uncounted == {"lock", "header", "ue", "meas"}
InFlight  == {t \in Threads : pc[t] \in Uncounted}

\* Every indication taken is counted or in flight. From the end of the loop of
\* main on, nothing is subscribed, waiting or in flight.
Counting ==
    /\ inbox \in Seq(Messages) /\ taken \in Nat /\ counter \in Nat
    /\ pc \in [Threads -> Uncounted \cup {"idle", "unlock"}]
    /\ taken = counter - 1 + Cardinality(InFlight)
    /\ main \in {"finished", "exited"} => Quiet

LEMMA InitCounting == Init => Counting
<1> SUFFICES ASSUME Init PROVE Counting
  OBVIOUS
<1>1. pc = [t \in Threads |-> "idle"]
  BY DEF Init, CB!Init
<1>2. InFlight = {}
  BY <1>1 DEF InFlight, Uncounted
<1> QED BY <1>1, <1>2, FS_EmptySet DEF Init, CB!Init, Counting, Uncounted

\* How a move of one thread changes the number in flight.
LEMMA Moves ==
    ASSUME pc \in [Threads -> Uncounted \cup {"idle", "unlock"}], NEW t \in Threads,
           NEW l \in Uncounted \cup {"idle", "unlock"}, CB!Goto(t, l)
    PROVE  /\ pc' \in [Threads -> Uncounted \cup {"idle", "unlock"}]
           /\ Cardinality(InFlight) \in Nat
           /\ (pc[t] \in Uncounted <=> l \in Uncounted) =>
                 Cardinality(InFlight') = Cardinality(InFlight)
           /\ pc[t] \notin Uncounted /\ l \in Uncounted =>
                 Cardinality(InFlight') = Cardinality(InFlight) + 1
           /\ pc[t] \in Uncounted /\ l \notin Uncounted =>
                 Cardinality(InFlight') = Cardinality(InFlight) - 1
<1>0. pc' = [pc EXCEPT ![t] = l]
  BY DEF CB!Goto
<1>1. pc' \in [Threads -> Uncounted \cup {"idle", "unlock"}]
  BY <1>0
<1>2. pc'[t] = l /\ \A s \in Threads : s # t => pc'[s] = pc[s]
  BY <1>0
<1>3. IsFiniteSet(InFlight)
  BY FiniteThreads, FS_Subset DEF InFlight
<1>4. (pc[t] \in Uncounted <=> l \in Uncounted) => InFlight' = InFlight
  BY <1>2 DEF InFlight
<1>5. ASSUME pc[t] \notin Uncounted, l \in Uncounted
      PROVE  Cardinality(InFlight') = Cardinality(InFlight) + 1
  <2>1. InFlight' = InFlight \cup {t} /\ t \notin InFlight
    BY <1>2, <1>5 DEF InFlight
  <2> QED BY <1>3, <2>1, FS_AddElement
<1>6. ASSUME pc[t] \in Uncounted, l \notin Uncounted
      PROVE  Cardinality(InFlight') = Cardinality(InFlight) - 1
  <2>1. InFlight' = InFlight \ {t} /\ t \in InFlight
    BY <1>2, <1>6 DEF InFlight
  <2> QED BY <1>3, <2>1, FS_RemoveElement
<1> QED BY <1>1, <1>3, <1>4, <1>5, <1>6, FS_CardinalityType

\* The callback counts each indication it has taken once.
LEMMA CallbackCounting ==
    ASSUME Counting, NEW t \in Threads, Callback(t) PROVE Counting'
<1>0. CB!ThreadStep(t) /\ UNCHANGED <<main, ric>> /\ inbox' = inbox
  BY DEF Callback, startVars, ricVars, CB!ThreadStep, CB!Enter, CB!Lock, CB!PrintHeader, CB!PrintUe,
         CB!PrintRecord, CB!NextData, CB!NextUe, CB!CountUp, CB!Unlock
<1>1. main \notin {"finished", "exited"}
  <2>1. pc[t] # "idle" \/ taken < Len(inbox)
    BY <1>0 DEF CB!ThreadStep, CB!Enter, CB!Lock, CB!PrintHeader, CB!PrintUe,
         CB!PrintRecord, CB!NextData, CB!NextUe, CB!CountUp, CB!Unlock
  <2> QED BY <2>1 DEF Counting, Quiet
<1>2. pc \in [Threads -> Uncounted \cup {"idle", "unlock"}] /\ taken \in Nat /\ counter \in Nat
  BY DEF Counting
<1>3. CASE CB!Enter(t)
  <2>1. pc[t] = "idle" /\ CB!Goto(t, "lock") /\ taken' = taken + 1 /\ counter' = counter
    BY <1>3 DEF CB!Enter
  <2> QED BY <1>0, <1>1, <1>2, <2>1, Moves DEF Counting, Uncounted
<1>4. CASE CB!CountUp(t)
  <2>1. pc[t] = "ue" /\ CB!Goto(t, "unlock") /\ taken' = taken /\ counter' = counter + 1
    BY <1>4 DEF CB!CountUp
  <2> QED BY <1>0, <1>1, <1>2, <2>1, Moves DEF Counting, Uncounted
<1>5. CASE CB!Lock(t) \/ CB!PrintHeader(t) \/ CB!PrintUe(t) \/ CB!NextUe(t)
  <2>1. PICK l \in Uncounted : CB!Goto(t, l)
    BY <1>5 DEF CB!Lock, CB!PrintHeader, CB!PrintUe, CB!NextUe, Uncounted
  <2>2. pc[t] \in Uncounted /\ UNCHANGED <<taken, counter>>
    BY <1>5 DEF CB!Lock, CB!PrintHeader, CB!PrintUe, CB!NextUe, Uncounted
  <2> QED BY <1>0, <1>1, <1>2, <2>1, <2>2, Moves DEF Counting
<1>6. CASE CB!Unlock(t)
  <2>1. pc[t] = "unlock" /\ CB!Goto(t, "idle") /\ UNCHANGED <<taken, counter>>
    BY <1>6 DEF CB!Unlock
  <2> QED BY <1>0, <1>1, <1>2, <2>1, Moves DEF Counting, Uncounted
<1>7. CASE CB!PrintRecord(t) \/ CB!NextData(t)
  <2>1. UNCHANGED <<pc, taken, counter>>
    BY <1>7 DEF CB!PrintRecord, CB!NextData
  <2> QED BY <1>0, <1>1, <2>1 DEF Counting, InFlight
<1> QED BY <1>0, <1>3, <1>4, <1>5, <1>6, <1>7 DEF CB!ThreadStep

\* So every step keeps the count.
LEMMA NextCounting == Counting /\ [Next]_vars => Counting'
<1> SUFFICES ASSUME Counting, [Next]_vars PROVE Counting'
  OBVIOUS
<1>1. CASE MainStep
  <2>1. UNCHANGED <<inbox, taken, counter, pc>>
    BY <1>1 DEF MainStep, InitXapp, GetNodes, Start, StartOutOfMemory, PrepareNode, Reported,
                EndSubs, Wake, RmNode, EndRm, TryStop, Exit, Goto, EndsProcess, cbVars
  <2>2. main' \in {"finished", "exited"} => Quiet /\ ric' = ric
    BY <1>1 DEF MainStep, InitXapp, GetNodes, Start, StartOutOfMemory, PrepareNode, Reported,
                EndSubs, Wake, RmNode, EndRm, TryStop, Exit, Goto, EndsProcess, ricVars, At, Counting
  <2> QED BY <2>1, <2>2 DEF Counting, InFlight, Quiet
<1>2. CASE RicStep
  <2>1. UNCHANGED <<inbox, taken, counter, pc>> /\ main' \notin {"finished", "exited"}
    BY <1>2 DEF RicStep, RicAccepts, RicRefuses, RicRemoves, Goto, cbVars
  <2> QED BY <2>1 DEF Counting, InFlight
<1>3. ASSUME NEW n \in Nodes, Connect(n) \/ Disconnect(n) PROVE Counting'
  BY <1>3 DEF Connect, Disconnect, startVars, cbVars, Counting, InFlight, Quiet
<1>4. ASSUME NEW h \in 1..Len(ric), NEW m \in Messages, Indicate(h, m) PROVE Counting'
  <2>1. /\ inbox' = Append(inbox, m) /\ UNCHANGED <<taken, counter, pc, main, ric>>
        /\ ric[h].live
    BY <1>4 DEF Indicate, CB!Deliver, startVars, ricVars
  <2>2. main \notin {"finished", "exited"}
    BY <2>1 DEF Counting, Quiet
  <2> QED BY <2>1, <2>2 DEF Counting, InFlight
<1>5. ASSUME NEW t \in Threads, Callback(t) PROVE Counting'
  BY <1>5, CallbackCounting
<1>6. CASE Over \/ UNCHANGED vars
  BY <1>6 DEF Over, vars, startVars, ricVars, cbVars, Counting, InFlight, Quiet
<1> QED BY <1>1, <1>2, <1>3, <1>4, <1>5, <1>6 DEF Next

\* When main returns every indication delivered is reported: the exit cuts off
\* no callback, whatever threads the library runs.
THEOREM ExitCutsNothing == Spec => []NothingCutOff
<1>1. Counting => NothingCutOff
  <2> SUFFICES ASSUME Counting, main = "exited"
               PROVE  counter = Len(inbox) + 1 /\ \A t \in Threads : pc[t] = "idle"
    BY DEF NothingCutOff
  <2>1. taken = Len(inbox) /\ \A t \in Threads : pc[t] = "idle"
    BY DEF Counting, Quiet
  <2>2. InFlight = {}
    BY <2>1 DEF InFlight, Uncounted
  <2> QED BY <2>1, <2>2, FS_EmptySet DEF Counting
<1> QED BY <1>1, InitCounting, NextCounting, PTL DEF Spec
=============================================================================
