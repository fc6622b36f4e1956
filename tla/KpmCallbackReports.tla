------------------------- MODULE KpmCallbackReports -------------------------
(***************************************************************************)
(* The callback as an implementation of KpmReports: what its variables say *)
(* of the reports, and what makes each of them whole.                      *)
(***************************************************************************)
EXTENDS KpmCallback

\* The header of the report that is being printed, if one is.
Unfinished == {p \in Headers : log[p].num = counter}
HeaderNumber(n) == CHOOSE p \in Headers : log[p].num = n

\* A report counts from the increment of the counter on, and until then its
\* lines do not.
reported == [n \in 1..counter - 1 |-> log[HeaderNumber(n)].ind]
finished == IF Unfinished = {} THEN log ELSE SubSeq(log, 1, (CHOOSE p \in Unfinished : TRUE) - 1)

Reports == INSTANCE KpmReports WITH
    delivered <- inbox,
    reports   <- reported,
    output    <- finished,
    alive     <- proc = "up"

\* The log is a sequence of whole reports, numbered in order, however the threads
\* of sm_cb_kpm interleave: see KpmReports.
WholeReports == Reports!Spec

----------------------------------------------------------------------------
\* The latency a thread has computed is that of its indication.
LatencyKept(t) == pc[t] # "idle" => lat[t] = Latency(message(t))

\* The loops are at a UE, an item and a record of the indication or just behind
\* the last one; behind the last item no record has been begun.
CursorInside(t) ==
    /\ pc[t] = "ue" => cur[t].u <= Len(message(t).reports) + 1
    /\ pc[t] = "meas" =>
          /\ cur[t].u <= Len(message(t).reports)
          /\ cur[t].d <= Len(report(t).data) + 1
          /\ IF cur[t].d <= Len(report(t).data) THEN cur[t].j <= Len(data(t).recs) + 1
             ELSE cur[t].j = 1

\* What thread t has printed of its indication.
SoFar(t) ==
    <<Header(ind[t], counter, lat[t])>> \o Reports!Ues(ind[t], message(t), cur[t].u - 1)
        \o (IF pc[t] = "ue" THEN << >>
            ELSE print_ue_id(ind[t], cur[t].u, report(t).ue)
                     \o Reports!Items(ind[t], message(t), cur[t].u, cur[t].d - 1)
                     \o Reports!Records(ind[t], message(t), cur[t].u, cur[t].d, cur[t].j - 1))

\* A thread that prints has printed, at the end of the log, just what its loops
\* have gone through.
EndsWithSoFar(t) ==
    pc[t] \in Printing => \E n \in 0..Len(log) : log = SubSeq(log, 1, n) \o SoFar(t)

\* While the process lives, a thread has gone only through what can be printed.
PrintableSoFar(t) ==
    proc = "up" =>
        /\ pc[t] \in Printing =>
              \A u \in 1..Len(message(t).reports) :
                  u < cur[t].u => Reports!PrintableUe(message(t).reports[u])
        /\ pc[t] = "meas" =>
              /\ report(t).info # << >>
              /\ \A d \in 1..Len(report(t).data) : d < cur[t].d =>
                    \A j \in 1..Len(report(t).data[d].recs) :
                        Reports!PrintableRecord(report(t), d, j)
              /\ \A j \in 1..cur[t].j - 1 : Reports!PrintableRecord(report(t), cur[t].d, j)

\* The parts together: with IInv, what WholeReports rests on.
ROf(t) == LatencyKept(t) /\ CursorInside(t) /\ EndsWithSoFar(t) /\ PrintableSoFar(t)
RInv   == \A t \in Threads : ROf(t)
=============================================================================
