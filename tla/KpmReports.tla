---------------------------- MODULE KpmReports -----------------------------
(***************************************************************************)
(* What the KPM callback promises, whatever its threads do: the log is a   *)
(* sequence of whole reports, one per indication delivered, numbered from  *)
(* one, each holding every line of its indication in the order of the      *)
(* nested lists. The process may end at any time; what it had reported     *)
(* until then stands.                                                      *)
(***************************************************************************)
EXTENDS KpmMessages, SequencesExt

CONSTANTS Messages, MaxInd

VARIABLES
    delivered,  \* the indications delivered, in order
    reports,    \* the numbers of the indications reported, in order
    output,     \* the lines of their reports
    alive       \* the process has not ended

avars == <<delivered, reports, output, alive>>

\* The process can print record j of item d: it is not described by an
\* identifier and has a value.
PrintableRecord(r, d, j) ==
    j <= Len(r.info) => r.info[j] # IdType /\ r.data[d].recs[j] # "none"

\* The process can print the report of a UE whole.
PrintableUe(r) ==
    /\ r.info # << >>
    /\ \A d \in 1..Len(r.data) : \A j \in 1..Len(r.data[d].recs) : PrintableRecord(r, d, j)

Printable(m) == \A u \in 1..Len(m.reports) : PrintableUe(m.reports[u])

\* The lines of record j of item d of UE u.
Record(k, m, u, d, j) ==
    LET r == m.reports[u]
        outcome ==
            IF j > Len(r.info) THEN "garbage"
            ELSE CHOOSE o \in match_meas_type(r, d, j) : TRUE
    IN  RecordLines(k, <<u, d, j>>, outcome, r.data[d].incomplete)

\* The lines of the first n records of item d, of the first n items of UE u and
\* of the first n UEs of indication k.
Records(k, m, u, d, n) == FlattenSeq([j \in 1..n |-> Record(k, m, u, d, j)])

Items(k, m, u, n) ==
    FlattenSeq([d \in 1..n |-> Records(k, m, u, d, Len(m.reports[u].data[d].recs))])

Ues(k, m, n) ==
    FlattenSeq([u \in 1..n |->
        print_ue_id(k, u, m.reports[u].ue) \o Items(k, m, u, Len(m.reports[u].data))])

\* Indication k, the n-th reported, line by line.
Whole(k, n, m) == <<Header(k, n, Latency(m))>> \o Ues(k, m, Len(m.reports))

Init == delivered = << >> /\ reports = << >> /\ output = << >> /\ alive = TRUE

Receive(m) ==
    /\ alive /\ Len(delivered) < MaxInd
    /\ delivered' = Append(delivered, m)
    /\ UNCHANGED <<reports, output, alive>>

ReportOne(k) ==
    /\ alive /\ \A i \in 1..Len(reports) : reports[i] # k
    /\ Printable(delivered[k])
    /\ reports' = Append(reports, k)
    /\ output' = output \o Whole(k, Len(reports'), delivered[k])
    /\ UNCHANGED <<delivered, alive>>

End == alive /\ alive' = FALSE /\ UNCHANGED <<delivered, reports, output>>

Next ==
    \/ \E m \in Messages : Receive(m)
    \/ \E k \in 1..Len(delivered) : ReportOne(k)
    \/ End

Spec == Init /\ [][Next]_avars
============================================================================
