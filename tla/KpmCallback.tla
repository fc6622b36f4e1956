---------------------------- MODULE KpmCallback ----------------------------
(***************************************************************************)
(* sm_cb_kpm (src/kpmManager.cpp), the callback the RIC library runs for   *)
(* each indication of a KPM subscription, on threads of its own: several   *)
(* may be in it at once. A static mutex guards the printing of an          *)
(* indication and the static counter that numbers the indications.         *)
(*                                                                         *)
(* One step of a thread is one print call of the source with the control   *)
(* around it; between two of them every other thread may run. The library  *)
(* hands an indication to whichever thread is free.                        *)
(***************************************************************************)
EXTENDS KpmMessages

CONSTANTS Threads,    \* the threads on which the library runs the callback
          NoThread,   \* the holder of a free mutex
          Messages,   \* the indications an E2 node may send
          MaxInd      \* bound: how many indications are delivered

ASSUME CallbackAssumption ==
    /\ NoThread \notin Threads
    /\ Messages \subseteq Indication
    /\ MaxInd \in Nat

VARIABLES
    inbox,    \* the indications delivered so far; one is named by its place
    taken,    \* how many of them a thread has taken
    pc,       \* where each thread is in the callback
    ind,      \* the indication each thread has taken last
    lat,      \* each thread's local "latency"
    cur,      \* each thread's loop indices: UE u, data item d, record j
    mtx,      \* the static mutex: its holder
    counter,  \* the static counter
    log,      \* the lines printed
    proc      \* the process: "up", "aborted" or "crashed" in the callback, or
              \* "ended" by another thread

vars == <<inbox, taken, pc, ind, lat, cur, mtx, counter, log, proc>>

Init ==
    /\ inbox = << >> /\ taken = 0
    /\ pc  = [t \in Threads |-> "idle"]
    /\ ind = [t \in Threads |-> 0]
    /\ lat = [t \in Threads |-> 0]
    /\ cur = [t \in Threads |-> [u |-> 1, d |-> 1, j |-> 1]]
    /\ mtx = NoThread
    /\ counter = 1
    /\ log = << >>
    /\ proc = "up"

----------------------------------------------------------------------------
message(t) == inbox[ind[t]]
report(t)  == message(t).reports[cur[t].u]
data(t)    == report(t).data[cur[t].d]

Goto(t, l) == pc' = [pc EXCEPT ![t] = l]
At(t, u, d, j) == cur' = [cur EXCEPT ![t] = [u |-> u, d |-> d, j |-> j]]

\* The RIC delivers an indication.
Deliver(m) ==
    /\ proc = "up" /\ Len(inbox) < MaxInd
    /\ inbox' = Append(inbox, m)
    /\ UNCHANGED <<taken, pc, ind, lat, cur, mtx, counter, log, proc>>

\* The library calls the callback: the latency is computed before the mutex
\* is asked for, from the header of this indication.
Enter(t) ==
    /\ proc = "up" /\ pc[t] = "idle" /\ taken < Len(inbox)
    /\ taken' = taken + 1
    /\ ind' = [ind EXCEPT ![t] = taken']
    /\ lat' = [lat EXCEPT ![t] = Latency(inbox[taken'])]
    /\ Goto(t, "lock")
    /\ UNCHANGED <<inbox, cur, mtx, counter, log, proc>>

\* Mutant: the mutex is not asked for.
Lock_Missing(t) ==
    /\ proc = "up" /\ pc[t] = "lock"
    /\ mtx' = t
    /\ Goto(t, "header")
    /\ UNCHANGED <<inbox, taken, ind, lat, cur, counter, log, proc>>

\* pthread_mutex_lock
Lock(t) ==
    /\ proc = "up" /\ pc[t] = "lock" /\ mtx = NoThread
    /\ mtx' = t
    /\ Goto(t, "header")
    /\ UNCHANGED <<inbox, taken, ind, lat, cur, counter, log, proc>>

PrintHeader(t) ==
    /\ proc = "up" /\ pc[t] = "header"
    /\ log' = Append(log, Header(ind[t], counter, lat[t]))
    /\ At(t, 1, 1, 1)
    /\ Goto(t, "ue")
    /\ UNCHANGED <<inbox, taken, ind, lat, mtx, counter, proc>>

\* Mutant: the assertion wants two descriptions.
PrintUe_OffByOne(t) ==
    /\ proc = "up" /\ pc[t] = "ue" /\ cur[t].u <= Len(message(t).reports)
    /\ log' = log \o print_ue_id(ind[t], cur[t].u, report(t).ue)
    /\ proc' = IF Len(report(t).info) > 1 THEN proc ELSE "aborted"
    /\ At(t, cur[t].u, 1, 1)
    /\ Goto(t, "meas")
    /\ UNCHANGED <<inbox, taken, ind, lat, mtx, counter>>

\* The head of the loop over the UEs: print_ue_id, then the assertion at the
\* head of print_measurements.
PrintUe(t) ==
    /\ proc = "up" /\ pc[t] = "ue" /\ cur[t].u <= Len(message(t).reports)
    /\ log' = log \o print_ue_id(ind[t], cur[t].u, report(t).ue)
    /\ proc' = IF Len(report(t).info) > 0 THEN proc ELSE "aborted"
    /\ At(t, cur[t].u, 1, 1)
    /\ Goto(t, "meas")
    /\ UNCHANGED <<inbox, taken, ind, lat, mtx, counter>>

\* One record of print_measurements.
PrintRecord(t) ==
    /\ proc = "up" /\ pc[t] = "meas"
    /\ cur[t].d <= Len(report(t).data) /\ cur[t].j <= Len(data(t).recs)
    /\ \E o \in match_meas_type(report(t), cur[t].d, cur[t].j) :
          IF o \in {"aborted", "crashed"}
          THEN proc' = o /\ UNCHANGED <<log, cur>>
          ELSE /\ log' = log \o RecordLines(ind[t], <<cur[t].u, cur[t].d, cur[t].j>>,
                                            o, data(t).incomplete)
               /\ At(t, cur[t].u, cur[t].d, cur[t].j + 1)
               /\ UNCHANGED proc
    /\ UNCHANGED <<inbox, taken, pc, ind, lat, mtx, counter>>

\* Mutant: the index of the records is not started again.
NextData_KeepsRecord(t) ==
    /\ proc = "up" /\ pc[t] = "meas"
    /\ cur[t].d <= Len(report(t).data) /\ cur[t].j > Len(data(t).recs)
    /\ At(t, cur[t].u, cur[t].d + 1, cur[t].j)
    /\ UNCHANGED <<inbox, taken, pc, ind, lat, mtx, counter, log, proc>>

\* The loop over the records ends: the next data item.
NextData(t) ==
    /\ proc = "up" /\ pc[t] = "meas"
    /\ cur[t].d <= Len(report(t).data) /\ cur[t].j > Len(data(t).recs)
    /\ At(t, cur[t].u, cur[t].d + 1, 1)
    /\ UNCHANGED <<inbox, taken, pc, ind, lat, mtx, counter, log, proc>>

\* The loop over the data items ends, print_measurements returns: the next UE.
NextUe(t) ==
    /\ proc = "up" /\ pc[t] = "meas" /\ cur[t].d > Len(report(t).data)
    /\ At(t, cur[t].u + 1, 1, 1)
    /\ Goto(t, "ue")
    /\ UNCHANGED <<inbox, taken, ind, lat, mtx, counter, log, proc>>

\* Mutant: the counter is incremented inside the loop over the UEs.
CountUp_PerUe(t) ==
    /\ proc = "up" /\ pc[t] = "ue" /\ cur[t].u > Len(message(t).reports)
    /\ counter' = counter + Len(message(t).reports)
    /\ Goto(t, "unlock")
    /\ UNCHANGED <<inbox, taken, ind, lat, cur, mtx, log, proc>>

\* The loop over the UEs ends.
CountUp(t) ==
    /\ proc = "up" /\ pc[t] = "ue" /\ cur[t].u > Len(message(t).reports)
    /\ counter' = counter + 1
    /\ Goto(t, "unlock")
    /\ UNCHANGED <<inbox, taken, ind, lat, cur, mtx, log, proc>>

\* Mutant: nothing unlocks the mutex.
Unlock_Missing(t) ==
    /\ proc = "up" /\ pc[t] = "unlock"
    /\ Goto(t, "idle")
    /\ UNCHANGED <<inbox, taken, ind, lat, cur, mtx, counter, log, proc>>

\* Leaving the scope runs the deferred pthread_mutex_unlock; the callback
\* returns and its thread is free for the next indication.
Unlock(t) ==
    /\ proc = "up" /\ pc[t] = "unlock"
    /\ mtx' = NoThread
    /\ Goto(t, "idle")
    /\ UNCHANGED <<inbox, taken, ind, lat, cur, counter, log, proc>>

\* The process may be ended from outside the callback, by the main thread.
ProcessEnds ==
    /\ proc = "up"
    /\ proc' = "ended"
    /\ UNCHANGED <<inbox, taken, pc, ind, lat, cur, mtx, counter, log>>

Ended == proc # "up" /\ UNCHANGED vars

ThreadStep(t) ==
    \/ Enter(t) \/ Lock(t) \/ PrintHeader(t) \/ PrintUe(t)
    \/ PrintRecord(t) \/ NextData(t) \/ NextUe(t)
    \/ CountUp(t) \/ Unlock(t)

Next ==
    \/ \E m \in Messages : Deliver(m)
    \/ \E t \in Threads : ThreadStep(t)
    \/ ProcessEnds
    \/ Ended

Spec == Init /\ [][Next]_vars

----------------------------------------------------------------------------
\* The types of the variables of sm_cb_kpm; the latency is a u_int64_t and never
\* negative.
TypeOK ==
    /\ inbox \in Seq(Messages)
    /\ taken \in Nat
    /\ pc  \in [Threads -> {"idle", "lock", "header", "ue", "meas", "unlock"}]
    /\ ind \in [Threads -> Nat]
    /\ lat \in [Threads -> Nat]
    /\ cur \in [Threads -> [u : Nat \ {0}, d : Nat \ {0}, j : Nat \ {0}]]
    /\ mtx \in Threads \cup {NoThread}
    /\ counter \in Nat
    /\ log \in Seq(Line)
    /\ proc \in {"up", "aborted", "crashed", "ended"}

Headers == {p \in 1..Len(log) : log[p].kind = "header"}

\* The lines of an indication stand together in the log: while a thread is
\* printing one, no other thread prints (the mutex of sm_cb_kpm).
BlocksContiguous ==
    \A p, q, r \in 1..Len(log) :
        p < q /\ q < r /\ log[p].ind = log[r].ind => log[q].ind = log[p].ind

\* "KPM ind_msg %d": the indications are numbered 1, 2, 3... in the order they
\* are printed, none twice and no number left out, and every indication is
\* printed by one call only (the static counter, read and incremented under
\* the mutex).
NumberedInOrder ==
    /\ \A p, q \in Headers :
          p < q => log[p].num < log[q].num /\ log[p].ind # log[q].ind
    /\ \A p \in Headers :
          log[p].num > 1 => \E q \in Headers : q < p /\ log[q].num = log[p].num - 1

----------------------------------------------------------------------------
(***************************************************************************)
(* The inductive invariant behind the two properties above.                *)
(***************************************************************************)
Printing == {"ue", "meas"}
Inside   == {"header", "unlock"} \cup Printing

\* A thread in the callback has an indication that was taken, of its own.
OneEach ==
    /\ taken <= Len(inbox)
    /\ \A t \in Threads : pc[t] # "idle" => ind[t] \in 1..taken
    /\ \A s, t \in Threads :
          pc[s] # "idle" /\ pc[t] # "idle" /\ s # t => ind[s] # ind[t]

\* The mutex is held by the thread in the critical section.
HolderInside == \A t \in Threads : pc[t] \in Inside <=> mtx = t

\* Only taken indications are in the log. One whose thread has yet to print
\* the header is not; the one being printed ends it.
LogOfTaken ==
    /\ \A p \in 1..Len(log) : log[p].ind \in 1..taken
    /\ \A t \in Threads : pc[t] \in {"lock", "header"} =>
          \A p \in 1..Len(log) : log[p].ind # ind[t]
    /\ \A t \in Threads : pc[t] \in Printing =>
          Len(log) > 0 /\ log[Len(log)].ind = ind[t]

\* The numbers below the counter are used, the counter itself by the thread
\* that is printing, and no other number.
NumbersUsed ==
    /\ counter >= 1
    /\ \A p \in Headers :
          /\ 1 <= log[p].num /\ log[p].num <= counter
          /\ log[p].num = counter => \E t \in Threads : pc[t] \in Printing
    /\ \A n \in 1..counter - 1 : \E p \in Headers : log[p].num = n
    /\ \A t \in Threads :
          pc[t] \in Printing => \E p \in Headers : log[p].num = counter

\* The parts together.
IInv ==
    /\ TypeOK /\ OneEach /\ HolderInside /\ LogOfTaken /\ NumbersUsed
    /\ BlocksContiguous /\ NumberedInOrder

----------------------------------------------------------------------------
\* A thread stands at something it cannot print.
Unprintable(t) ==
    /\ pc[t] = "meas"
    /\ \/ report(t).info = << >>
       \/ /\ cur[t].d <= Len(report(t).data) /\ cur[t].j <= Len(data(t).recs)
          /\ \/ cur[t].j > Len(report(t).info)
             \/ report(t).info[cur[t].j] = IdType
             \/ data(t).recs[cur[t].j] = "none"

\* The callback ends the process only over an indication it cannot print: the
\* thread that did it holds the mutex and stands at a report without
\* measurement descriptions, or at a record without a description, described
\* by an identifier, or without a value (the assertions at the head of
\* print_measurements and in match_meas_type_id, the null entry of
\* get_meas_value, the index into meas_info_lst).
DeathHasCause ==
    proc \in {"aborted", "crashed"} => \E t \in Threads : mtx = t /\ Unprintable(t)

\* A thread that prints measurements is at a UE of its indication: with this
\* and IInv the property above is inductive.
AtUe == \A t \in Threads : pc[t] = "meas" => cur[t].u <= Len(message(t).reports)

\* The measurements docs/SM_KPM.md calls supported.
DocumentedMeasurements ==
    {"DRB.PdcpSduVolumeDL", "DRB.PdcpSduVolumeUL", "DRB.RlcSduDelayDl",
     "DRB.UEThpDl", "DRB.UEThpUl", "RRU.PrbTotDl", "RRU.PrbTotUl",
     "DRB.RlcPacketDropRateDl", "DRB.PacketSuccessRateUlgNBUu",
     "DRB.RlcSduTransmittedVolumeDL", "DRB.RlcSduTransmittedVolumeUL"}

\* An integer described by a name the documentation calls supported
\* (docs/SM_KPM.md) is printed as a value, never as "not yet supported".
DocumentedIsSupported ==
    \A p \in 1..Len(log) : log[p].kind = "not yet supported" =>
        LET r == inbox[log[p].ind].reports[log[p].at[1]]
        IN  r.data[log[p].at[2]].recs[log[p].at[3]] = "int" =>
                r.info[log[p].at[3]] \notin DocumentedMeasurements

\* A record is printed under a name the indication gives it: print_measurements
\* asserts that it can "correctly print measurements".
DescribedWhenPrinted == \A p \in 1..Len(log) : log[p].kind # "garbage"

\* The callback survives an indication that holds a record without a value,
\* which the table get_meas_value lists and E2 nodes may send.
NoCrash == proc # "crashed"

\* Indication k is printed and its number used up: its report is whole.
Reported(k) == \E p \in Headers : log[p].ind = k /\ log[p].num < counter
=============================================================================
