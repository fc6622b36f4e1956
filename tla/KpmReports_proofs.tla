------------------------- MODULE KpmReports_proofs -------------------------
(***************************************************************************)
(* The callback implements KpmReports: the log is a sequence of whole      *)
(* reports, for any threads and indications.                               *)
(***************************************************************************)
EXTENDS KpmCallbackReports, KpmCallback_proofs, SeqInduction

\* A line of any kind, the ends of the process included: what Record is made of
\* when the process cannot print it.
Word ==
    [ind : Nat, kind : Kinds \cup {"aborted", "crashed"}, num : Nat, lat : Nat, at : Seq(Nat)]

LEMMA LinesAreWords == Line \subseteq Word
BY DEF Line, Word

\* KpmReports means by the messages and the lines what the callback means.
LEMMA SameWords ==
    /\ \A r, d, j : Reports!match_meas_type(r, d, j) = match_meas_type(r, d, j)
    /\ \A k, at, o, inc : Reports!RecordLines(k, at, o, inc) = RecordLines(k, at, o, inc)
    /\ \A k, u, ue : Reports!print_ue_id(k, u, ue) = print_ue_id(k, u, ue)
    /\ \A k, n, l : Reports!Header(k, n, l) = Header(k, n, l)
    /\ \A m : Reports!Latency(m) = Latency(m)
    /\ Reports!IdType = IdType
    /\ \A s : Reports!FlattenSeq(s) = FlattenSeq(s)
<1>1. /\ Reports!SUPPORTED_MEASUREMENTS = SUPPORTED_MEASUREMENTS
      /\ Reports!IdType = IdType /\ Reports!NoList = NoList
  BY DEF Reports!SUPPORTED_MEASUREMENTS, SUPPORTED_MEASUREMENTS, Reports!IdType, IdType,
         Reports!NoList, NoList
<1>2. \A name : /\ Reports!int_meas_value(name) = int_meas_value(name)
                /\ Reports!real_meas_value(name) = real_meas_value(name)
  BY <1>1 DEF Reports!int_meas_value, int_meas_value, Reports!real_meas_value, real_meas_value
<1>3. \A name, value : Reports!get_meas_value(name, value) = get_meas_value(name, value)
  BY <1>2 DEF Reports!get_meas_value, get_meas_value
<1>4. ASSUME NEW r, NEW d, NEW j
      PROVE  Reports!match_meas_type(r, d, j) = match_meas_type(r, d, j)
  BY <1>1, <1>3 DEF Reports!match_meas_type, match_meas_type, Reports!match_meas_name_type,
                    match_meas_name_type, Reports!match_meas_type_id, match_meas_type_id
<1>5. \A k, kind, at : Reports!LineOf(k, kind, at) = LineOf(k, kind, at)
  BY DEF Reports!LineOf, LineOf
<1>6. \A k, at, o, inc : Reports!RecordLines(k, at, o, inc) = RecordLines(k, at, o, inc)
  BY Zenon, <1>5 DEF Reports!RecordLines, RecordLines
<1>7. \A k, u, ue : Reports!RanUeId(k, u, ue) = RanUeId(k, u, ue)
  BY <1>5 DEF Reports!RanUeId, RanUeId
<1>8. ASSUME NEW k, NEW u, NEW ue
      PROVE  Reports!print_ue_id(k, u, ue) = print_ue_id(k, u, ue)
  BY Zenon, <1>1, <1>5, <1>7 DEF Reports!print_ue_id, print_ue_id
<1>9. \A k, n, l : Reports!Header(k, n, l) = Header(k, n, l)
  BY DEF Reports!Header, Header
<1>10. \A m : Reports!Latency(m) = Latency(m)
  BY DEF Reports!Latency, Latency
<1>11. \A s : Reports!FlattenSeq(s) = FlattenSeq(s)
  BY DEF Reports!FlattenSeq, FlattenSeq
<1> QED BY <1>1, <1>4, <1>6, <1>8, <1>9, <1>10, <1>11

\* A sequence of lines is one of words.
LEMMA SeqOfWords == ASSUME NEW s \in Seq(Line) PROVE s \in Seq(Word)
BY LinesAreWords, SeqMonotonic

\* The lines of a record are words, printable or not.
LEMMA RecordType ==
    ASSUME NEW k \in Nat, NEW m, NEW u \in Nat, NEW d \in Nat, NEW j \in Nat
    PROVE  Reports!Record(k, m, u, d, j) \in Seq(Word)
<1> DEFINE r == m.reports[u]
           o == IF j > Len(r.info) THEN "garbage"
                ELSE CHOOSE x \in match_meas_type(r, d, j) : TRUE
<1>1. o \in Kinds \cup {"aborted", "crashed"}
  <2>1. ASSUME NEW name, NEW value
        PROVE  \E x : x \in get_meas_value(name, value)
    BY DEF get_meas_value
  <2>2. \E x : x \in match_meas_type(r, d, j)
    BY <2>1 DEF match_meas_type, match_meas_name_type, match_meas_type_id
  <2>3. o \in match_meas_type(r, d, j) \/ o = "garbage"
    BY <2>2
  <2> QED BY ZenonT(30), <2>3, Outcomes DEF Kinds
<1>2. <<u, d, j>> \in Seq(Nat)
  OBVIOUS
<1> HIDE DEF o
<1>3. ASSUME NEW x \in Kinds \cup {"aborted", "crashed"}
      PROVE  <<LineOf(k, x, <<u, d, j>>)>> \in Seq(Word)
  <2>1. PICK l : l = LineOf(k, x, <<u, d, j>>)
    OBVIOUS
  <2>2. l \in Word
    BY <1>2, <2>1 DEF LineOf, Word
  <2>3. <<l>> \in Seq(Word)
    BY <2>2
  <2> QED BY <2>1, <2>3
<1>4. PICK x : x = <<LineOf(k, o, <<u, d, j>>)>>
  OBVIOUS
<1>5. PICK y : y = (IF r.data[d].incomplete
                    THEN <<LineOf(k, "not reliable", <<u, d, j>>)>> ELSE << >>)
  BY Zenon
<1>6. RecordLines(k, <<u, d, j>>, o, r.data[d].incomplete) \in Seq(Word)
  <2>1. x \in Seq(Word) /\ y \in Seq(Word)
    <3>1. "not reliable" \in Kinds
      BY DEF Kinds
    <3>2. << >> \in Seq(Word)
      OBVIOUS
    <3> QED BY Zenon, <1>1, <1>3, <1>4, <1>5, <3>1, <3>2
  <2>2. x \o y \in Seq(Word)
    BY <2>1
  <2> QED BY Zenon, <1>4, <1>5, <2>2 DEF RecordLines
<1>7. Reports!Record(k, m, u, d, j) = RecordLines(k, <<u, d, j>>, o, r.data[d].incomplete)
  <2>1. Reports!match_meas_type(r, d, j) = match_meas_type(r, d, j)
    BY SameWords
  <2>2. Reports!Record(k, m, u, d, j)
           = Reports!RecordLines(k, <<u, d, j>>, o, r.data[d].incomplete)
    BY <2>1 DEF Reports!Record, o
  <2> QED BY <2>2, SameWords
<1> QED BY <1>6, <1>7

\* What the process prints of a record is the record of the report.
LEMMA RecordPrinted ==
    ASSUME NEW k, NEW m, NEW u, NEW d, NEW j \in Nat, NEW o,
           o \in match_meas_type(m.reports[u], d, j), o \notin {"aborted", "crashed"}
    PROVE  /\ Reports!Record(k, m, u, d, j)
                = RecordLines(k, <<u, d, j>>, o, m.reports[u].data[d].incomplete)
           /\ Reports!PrintableRecord(m.reports[u], d, j)
           /\ o \in {"value", "not yet supported", "garbage"}
<1> DEFINE r == m.reports[u]
<1>1. CASE j > Len(r.info)
  <2>1. o = "garbage"
    BY <1>1 DEF match_meas_type
  <2> QED BY <1>1, <2>1, SameWords DEF Reports!Record, Reports!PrintableRecord
<1>2. CASE ~(j > Len(r.info))
  <2>1. r.info[j] # IdType
    BY <1>2 DEF match_meas_type, match_meas_type_id
  <2>2. o \in get_meas_value(r.info[j], r.data[d].recs[j])
        /\ match_meas_type(r, d, j) = get_meas_value(r.info[j], r.data[d].recs[j])
    BY SMTT(40), <1>2, <2>1 DEF match_meas_type, match_meas_name_type
  <2>3. r.data[d].recs[j] # "none" /\ match_meas_type(r, d, j) = {o}
    BY Zenon, <2>2 DEF get_meas_value
  <2>4. (CHOOSE x \in match_meas_type(r, d, j) : TRUE) = o
    BY <2>3
  <2> QED BY Zenon, <1>2, <2>1, <2>3, <2>4, Outcomes, SameWords DEF Reports!Record, Reports!PrintableRecord
<1> QED BY Zenon, <1>1, <1>2

\* Nothing gone through, nothing printed.
LEMMA NothingYet ==
    ASSUME NEW k, NEW m, NEW u, NEW d
    PROVE  /\ Reports!Records(k, m, u, d, 0) = << >>
           /\ Reports!Items(k, m, u, 0) = << >> /\ Reports!Ues(k, m, 0) = << >>
<1>2. /\ [j \in 1..0 |-> Reports!Record(k, m, u, d, j)] = << >>
      /\ [e \in 1..0 |-> Reports!Records(k, m, u, e, Len(m.reports[u].data[e].recs))] = << >>
      /\ [v \in 1..0 |-> Reports!print_ue_id(k, v, m.reports[v].ue)
                            \o Reports!Items(k, m, v, Len(m.reports[v].data))] = << >>
  OBVIOUS
<1> QED BY <1>2, SameWords, FlattenNone DEF Reports!Records, Reports!Items, Reports!Ues

\* One record more.
LEMMA RecordsNext ==
    ASSUME NEW k \in Nat, NEW m, NEW u \in Nat, NEW d \in Nat, NEW n \in Nat
    PROVE  /\ Reports!Records(k, m, u, d, n) \in Seq(Word)
           /\ Reports!Records(k, m, u, d, n + 1)
                = Reports!Records(k, m, u, d, n) \o Reports!Record(k, m, u, d, n + 1)
<1> DEFINE f == [j \in 1..(n + 1) |-> Reports!Record(k, m, u, d, j)]
           g == [j \in 1..n |-> Reports!Record(k, m, u, d, j)]
<1>1. f \in [1..(n + 1) -> Seq(Word)] /\ g \in Seq(Seq(Word))
  BY RecordType
<1>2. g = [j \in 1..n |-> f[j]] /\ f[n + 1] = Reports!Record(k, m, u, d, n + 1)
  OBVIOUS
<1> HIDE DEF f, g
<1>3. FlattenSeq(f) = FlattenSeq(g) \o f[n + 1] /\ FlattenSeq(g) \in Seq(Word)
  BY <1>1, <1>2, FlattenNext, FlattenType
<1>4. Reports!Records(k, m, u, d, n) = FlattenSeq(g)
  BY SameWords DEF Reports!Records, g
<1>5. Reports!Records(k, m, u, d, n + 1) = FlattenSeq(f)
  BY SameWords DEF Reports!Records, f
<1> QED BY <1>2, <1>3, <1>4, <1>5

\* The parts of an indication are what they should be.
LEMMA IndicationTyped ==
    ASSUME NEW m \in Indication
    PROVE  /\ m.reports \in Seq(Report) /\ Len(m.reports) \in Nat
           /\ \A u \in 1..Len(m.reports) :
                 /\ m.reports[u] \in Report /\ m.reports[u].ue \in Ue
                 /\ m.reports[u].data \in Seq(Data) /\ Len(m.reports[u].data) \in Nat
                 /\ m.reports[u].info \in Seq(STRING)
                 /\ \A d \in 1..Len(m.reports[u].data) :
                       Len(m.reports[u].data[d].recs) \in Nat
<1>1. m.reports \in Seq(Report)
  BY DEF Indication
<1>2. \A r \in Report : r.ue \in Ue /\ r.data \in Seq(Data) /\ r.info \in Seq(STRING)
  BY DEF Report
<1>3. \A e \in Data : e.recs \in Seq({"int", "real", "none"})
  BY DEF Data
<1>4. \A S : \A s \in Seq(S) : Len(s) \in Nat /\ \A i \in 1..Len(s) : s[i] \in S
  OBVIOUS
<1>5. Len(m.reports) \in Nat /\ \A u \in 1..Len(m.reports) : m.reports[u] \in Report
  BY <1>1, <1>4
<1>6. ASSUME NEW u \in 1..Len(m.reports), NEW d \in 1..Len(m.reports[u].data)
      PROVE  Len(m.reports[u].data[d].recs) \in Nat
  <2>1. m.reports[u].data \in Seq(Data)
    BY <1>2, <1>5
  <2>2. m.reports[u].data[d] \in Data
    BY <1>4, <2>1
  <2>3. m.reports[u].data[d].recs \in Seq({"int", "real", "none"})
    BY <1>3, <2>2
  <2> QED BY <1>4, <2>3
<1>7. ASSUME NEW u \in 1..Len(m.reports)
      PROVE  /\ m.reports[u].ue \in Ue /\ m.reports[u].info \in Seq(STRING)
             /\ m.reports[u].data \in Seq(Data) /\ Len(m.reports[u].data) \in Nat
  BY SMTT(40), <1>2, <1>4, <1>5
<1> QED BY <1>1, <1>5, <1>6, <1>7

\* One item more: all its records.
LEMMA ItemsNext ==
    ASSUME NEW k \in Nat, NEW m \in Indication, NEW u \in 1..Len(m.reports),
           NEW n \in Nat, n <= Len(m.reports[u].data)
    PROVE  /\ Reports!Items(k, m, u, n) \in Seq(Word)
           /\ n < Len(m.reports[u].data) =>
                 Reports!Items(k, m, u, n + 1) = Reports!Items(k, m, u, n) \o
                     Reports!Records(k, m, u, n + 1, Len(m.reports[u].data[n + 1].recs))
<1> DEFINE Part(d) == Reports!Records(k, m, u, d, Len(m.reports[u].data[d].recs))
           f == [d \in 1..(n + 1) |-> Part(d)]
           g == [d \in 1..n |-> Part(d)]
<1>1. \A d \in 1..Len(m.reports[u].data) : Part(d) \in Seq(Word)
  <2> SUFFICES ASSUME NEW d \in 1..Len(m.reports[u].data) PROVE Part(d) \in Seq(Word)
    OBVIOUS
  <2>1. PICK e : e = Len(m.reports[u].data[d].recs)
    OBVIOUS
  <2>2. e \in Nat /\ d \in Nat /\ u \in Nat
    <3>1. Len(m.reports) \in Nat /\ Len(m.reports[u].data) \in Nat
      BY IndicationTyped
    <3>2. e \in Nat
      BY <2>1, IndicationTyped
    <3> QED BY <3>1, <3>2
  <2>3. Reports!Records(k, m, u, d, e) \in Seq(Word)
    BY <2>2, RecordsNext
  <2> QED BY <2>1, <2>3
<1>2. Len(m.reports[u].data) \in Nat
  BY IndicationTyped
<1> HIDE DEF Part
<1>3. g \in Seq(Seq(Word))
  BY <1>1, <1>2
<1>4. FlattenSeq(g) \in Seq(Word)
  BY <1>3, FlattenType
<1>5. Reports!Items(k, m, u, n) = FlattenSeq(g)
  BY SameWords DEF Reports!Items, Part
<1>6. Reports!Items(k, m, u, n + 1) = FlattenSeq(f)
  BY SameWords DEF Reports!Items, Part
<1>7. ASSUME n < Len(m.reports[u].data) PROVE FlattenSeq(f) = FlattenSeq(g) \o Part(n + 1)
  <2>1. f \in [1..(n + 1) -> Seq(Word)]
    BY <1>1, <1>2, <1>7
  <2>2. g = [d \in 1..n |-> f[d]] /\ f[n + 1] = Part(n + 1)
    OBVIOUS
  <2> HIDE DEF f, g
  <2> QED BY <2>1, <2>2, FlattenNext
<1> QED BY Zenon, <1>4, <1>5, <1>6, <1>7 DEF Part

\* One UE more: its identity and all its items.
LEMMA UesNext ==
    ASSUME NEW k \in Nat, NEW m \in Indication, NEW n \in Nat, n <= Len(m.reports)
    PROVE  /\ Reports!Ues(k, m, n) \in Seq(Word)
           /\ n < Len(m.reports) =>
                 Reports!Ues(k, m, n + 1) = Reports!Ues(k, m, n) \o
                     (print_ue_id(k, n + 1, m.reports[n + 1].ue)
                        \o Reports!Items(k, m, n + 1, Len(m.reports[n + 1].data)))
<1> DEFINE Part(u) == print_ue_id(k, u, m.reports[u].ue)
                         \o Reports!Items(k, m, u, Len(m.reports[u].data))
           f == [u \in 1..(n + 1) |-> Part(u)]
           g == [u \in 1..n |-> Part(u)]
<1>1. \A u \in 1..Len(m.reports) : Part(u) \in Seq(Word)
  <2> SUFFICES ASSUME NEW u \in 1..Len(m.reports) PROVE Part(u) \in Seq(Word)
    OBVIOUS
  <2>1. m.reports[u].ue \in Ue /\ Len(m.reports[u].data) \in Nat /\ u \in Nat
    <3>1. Len(m.reports) \in Nat
      BY IndicationTyped
    <3>2. m.reports[u].ue \in Ue /\ Len(m.reports[u].data) \in Nat
      BY IndicationTyped
    <3> QED BY <3>1, <3>2
  <2>2. print_ue_id(k, u, m.reports[u].ue) \in Seq(Word)
    BY <2>1, UeLinesPlain, SeqOfWords DEF Plain
  <2>3. Reports!Items(k, m, u, Len(m.reports[u].data)) \in Seq(Word)
    <3>1. PICK e : e = Len(m.reports[u].data)
      OBVIOUS
    <3>2. e \in Nat /\ e <= Len(m.reports[u].data)
      BY <2>1, <3>1
    <3>3. Reports!Items(k, m, u, e) \in Seq(Word)
      BY <3>2, ItemsNext
    <3> QED BY <3>1, <3>3
  <2> QED BY <2>2, <2>3
<1>2. Len(m.reports) \in Nat
  BY IndicationTyped
<1> HIDE DEF Part
<1>3. g \in Seq(Seq(Word))
  BY <1>1, <1>2
<1>4. FlattenSeq(g) \in Seq(Word)
  BY <1>3, FlattenType
<1>5. Reports!Ues(k, m, n) = FlattenSeq(g)
  BY SameWords DEF Reports!Ues, Part
<1>6. Reports!Ues(k, m, n + 1) = FlattenSeq(f)
  BY SameWords DEF Reports!Ues, Part
<1>7. ASSUME n < Len(m.reports) PROVE FlattenSeq(f) = FlattenSeq(g) \o Part(n + 1)
  <2>1. f \in [1..(n + 1) -> Seq(Word)]
    BY <1>1, <1>2, <1>7
  <2>2. g = [u \in 1..n |-> f[u]] /\ f[n + 1] = Part(n + 1)
    BY SMTT(40)
  <2> HIDE DEF f, g
  <2> QED BY <2>1, <2>2, FlattenNext
<1> QED BY <1>4, <1>5, <1>6, <1>7 DEF Part

-----------------------------------------------------------------------------
\* The header, the identities, the items and the records that SoFar is made of.
HeaderSo(t)  == <<Header(ind[t], counter, lat[t])>>
UesSo(t) == Reports!Ues(ind[t], message(t), cur[t].u - 1)
Identity(t) == print_ue_id(ind[t], cur[t].u, report(t).ue)
ItemsSo(t)   == Reports!Items(ind[t], message(t), cur[t].u, cur[t].d - 1)
RecordsSo(t) == Reports!Records(ind[t], message(t), cur[t].u, cur[t].d, cur[t].j - 1)

LEMMA SoFarParts ==
    ASSUME NEW t
    PROVE  /\ pc[t] = "ue" => SoFar(t) = HeaderSo(t) \o UesSo(t) \o << >>
           /\ pc[t] = "meas" => SoFar(t) = HeaderSo(t) \o UesSo(t)
                                   \o (Identity(t) \o ItemsSo(t) \o RecordsSo(t))
BY DEF SoFar, HeaderSo, UesSo, Identity, ItemsSo, RecordsSo

\* Where a thread is, and the types of what it has printed.
LEMMA Place ==
    ASSUME IInv, NEW t \in Threads, CursorInside(t), pc[t] \in Printing
    PROVE  /\ ind[t] \in Nat /\ ind[t] \in 1..Len(inbox) /\ message(t) \in Indication
           /\ cur[t].u - 1 \in Nat /\ cur[t].u - 1 <= Len(message(t).reports)
           /\ cur[t].u \in Nat /\ cur[t].d - 1 \in Nat /\ cur[t].j - 1 \in Nat
           /\ cur[t].d \in Nat /\ cur[t].j \in Nat
           /\ HeaderSo(t) \in Seq(Word) /\ UesSo(t) \in Seq(Word)
<1>1. ind[t] \in 1..Len(inbox) /\ inbox \in Seq(Messages) /\ counter \in Nat /\ lat[t] \in Nat
  BY ReportTyped DEF IInv, TypeOK
<1>2. message(t) \in Indication
  BY <1>1, CallbackAssumption DEF message
<1>3. cur[t].u \in Nat \ {0} /\ cur[t].d \in Nat \ {0} /\ cur[t].j \in Nat \ {0}
  BY Typed DEF IInv
<1>4. Len(message(t).reports) \in Nat
  BY <1>2, IndicationTyped
<1>5. cur[t].u - 1 <= Len(message(t).reports)
  BY <1>3, <1>4 DEF CursorInside, Printing
<1>6. ind[t] \in Nat
  BY <1>1
<1>7. UesSo(t) \in Seq(Word)
  BY <1>2, <1>3, <1>5, <1>6, UesNext DEF UesSo
<1>8. HeaderSo(t) \in Seq(Word)
  <2>1. PICK l : l = Header(ind[t], counter, lat[t])
    OBVIOUS
  <2>2. l \in Line
    BY <1>1, <1>6, <2>1 DEF Header, Line, Kinds
  <2>3. <<l>> \in Seq(Line)
    BY <2>2
  <2> QED BY <2>1, <2>3, SeqOfWords DEF HeaderSo
<1>9. /\ cur[t].u - 1 \in Nat /\ cur[t].d - 1 \in Nat /\ cur[t].j - 1 \in Nat
      /\ cur[t].u \in Nat /\ cur[t].d \in Nat /\ cur[t].j \in Nat
  BY <1>3
<1> QED BY Zenon, <1>1, <1>2, <1>5, <1>6, <1>7, <1>8, <1>9

\* Among the measurements it is at a UE, whose identity and items so far are lines.
LEMMA PlaceAtUe ==
    ASSUME IInv, NEW t \in Threads, CursorInside(t), pc[t] = "meas"
    PROVE  /\ cur[t].u \in 1..Len(message(t).reports)
           /\ report(t) \in Report /\ report(t) = message(t).reports[cur[t].u]
           /\ Len(report(t).data) \in Nat
           /\ cur[t].d - 1 <= Len(report(t).data)
           /\ Identity(t) \in Seq(Word) /\ ItemsSo(t) \in Seq(Word) /\ RecordsSo(t) \in Seq(Word)
<1>1. /\ ind[t] \in Nat /\ message(t) \in Indication /\ cur[t].u \in Nat /\ cur[t].u - 1 \in Nat
      /\ cur[t].d - 1 \in Nat /\ cur[t].j - 1 \in Nat /\ cur[t].d \in Nat
  BY Place DEF Printing
<1>2. cur[t].u \in 1..Len(message(t).reports)
  <2>1. Len(message(t).reports) \in Nat
    BY <1>1, IndicationTyped
  <2> QED BY <1>1, <2>1 DEF CursorInside
<1>3. report(t) \in Report /\ report(t) = message(t).reports[cur[t].u] /\ report(t).ue \in Ue
      /\ Len(report(t).data) \in Nat
  BY <1>1, <1>2, IndicationTyped DEF report
<1>4. cur[t].d - 1 <= Len(report(t).data)
  <2>1. cur[t].d <= Len(report(t).data) + 1
    BY DEF CursorInside
  <2>2. PICK c, e : c = cur[t].d /\ e = Len(report(t).data)
    OBVIOUS
  <2>3. c \in Nat /\ e \in Nat /\ c <= e + 1
    BY <1>1, <1>3, <2>1, <2>2
  <2>4. c - 1 <= e
    BY <2>3
  <2> QED BY <2>2, <2>4
<1>5. Identity(t) \in Seq(Word)
  BY ZenonT(30), <1>1, <1>3, UeLinesPlain, SeqOfWords DEF Identity, Plain
<1>6. ItemsSo(t) \in Seq(Word)
  BY <1>1, <1>2, <1>3, <1>4, ItemsNext DEF ItemsSo
<1>7. RecordsSo(t) \in Seq(Word)
  BY <1>1, RecordsNext DEF RecordsSo
<1> QED BY <1>2, <1>3, <1>4, <1>5, <1>6, <1>7

\* Printing y after x leaves x \o y at the end of the log.
LEMMA Extended ==
    ASSUME log \in Seq(Line), NEW x \in Seq(Word), NEW y \in Seq(Line),
           NEW n \in 0..Len(log), log = SubSeq(log, 1, n) \o x, log' = log \o y
    PROVE  \E i \in 0..Len(log') : log' = SubSeq(log', 1, i) \o (x \o y)
<1>1. log \in Seq(Word) /\ y \in Seq(Word) /\ Len(log) \in Nat /\ Len(y) \in Nat
  BY SeqOfWords
<1>2. Len(log') = Len(log) + Len(y)
  BY <1>1
<1>3. n \in 0..Len(log')
  BY <1>1, <1>2
<1>4. SubSeq(log', 1, n) = SubSeq(log, 1, n)
  <2>1. CASE n = 0
    BY <2>1, SubSeqEmpty
  <2>2. CASE n # 0
    <3>1. 1 \in 1..Len(log) /\ n \in 1..Len(log)
      BY <1>1, <2>2
    <3>2. SubSeq(log \o y, 1, n) = SubSeq(log, 1, n)
      BY <1>1, <3>1, SubSeqOfConcat1
    <3> QED BY <3>2
  <2> QED BY <2>1, <2>2
<1>5. SubSeq(log, 1, n) \in Seq(Word)
  BY <1>1
<1>6. PICK a \in Seq(Word) : a = SubSeq(log, 1, n)
  BY <1>5
<1>7. (a \o x) \o y = a \o (x \o y)
  BY SMTT(40), <1>1, ConcatAssociative
<1>8. log' = SubSeq(log', 1, n) \o (x \o y)
  BY <1>4, <1>6, <1>7
<1> QED BY <1>3, <1>8

\* A thread that does not move keeps its part of the invariant, while nothing
\* it depends on changes.
LEMMA Still ==
    ASSUME NEW s \in Threads, ROf(s), log' = log, counter' = counter,
           pc'[s] = pc[s], ind'[s] = ind[s], lat'[s] = lat[s], cur'[s] = cur[s],
           pc[s] # "idle" => message(s)' = message(s), proc' = proc \/ proc' # "up"
    PROVE  ROf(s)'
<1>1. CASE pc[s] = "idle"
  BY <1>1 DEF ROf, LatencyKept, CursorInside, EndsWithSoFar, PrintableSoFar, Printing
<1>2. CASE pc[s] # "idle"
  <2>1. message(s)' = message(s) /\ report(s)' = report(s) /\ data(s)' = data(s)
    BY <1>2 DEF report, data
  <2>2. SoFar(s)' = SoFar(s)
    BY <2>1 DEF SoFar
  <2>3. LatencyKept(s)' /\ CursorInside(s)'
    BY <2>1 DEF ROf, LatencyKept, CursorInside
  <2>4. EndsWithSoFar(s)'
    BY <2>2 DEF ROf, EndsWithSoFar
  <2>5. PrintableSoFar(s)'
    BY <2>1 DEF ROf, PrintableSoFar
  <2> QED BY <2>3, <2>4, <2>5 DEF ROf
<1> QED BY <1>1, <1>2

\* Of a thread that is not printing, only the latency matters.
LEMMA Outside ==
    ASSUME NEW s \in Threads, pc'[s] \notin Printing, LatencyKept(s)'
    PROVE  ROf(s)'
BY DEF ROf, CursorInside, EndsWithSoFar, PrintableSoFar, Printing

\* While one thread is inside, the others are outside and stay there.
LEMMA OthersOutside ==
    ASSUME IInv, RInv, NEW t \in Threads, pc[t] \in Inside, inbox' = inbox,
           \A s \in Threads : s # t => /\ pc'[s] = pc[s] /\ ind'[s] = ind[s]
                                      /\ lat'[s] = lat[s]
    PROVE  \A s \in Threads : s # t => ROf(s)'
<1> SUFFICES ASSUME NEW s \in Threads, s # t PROVE ROf(s)'
  OBVIOUS
<1>1. pc'[s] \notin Printing
  BY DEF IInv, HolderInside, Inside
<1>2. message(s)' = message(s)
  BY DEF message
<1>3. LatencyKept(s)'
  BY <1>2 DEF RInv, ROf, LatencyKept
<1> QED BY <1>1, <1>3, Outside

\* After the header nothing else of the indication is printed.
LEMMA HeaderStep ==
    ASSUME IInv, RInv, NEW t \in Threads, PrintHeader(t)
    PROVE  ROf(t)'
<1>1. /\ pc[t] = "header" /\ pc'[t] = "ue" /\ cur'[t].u = 1
      /\ UNCHANGED <<inbox, ind, lat, counter, proc>>
      /\ log' = Append(log, Header(ind[t], counter, lat[t]))
  BY DEF PrintHeader, Goto, At, IInv, TypeOK
<1>2. message(t)' = message(t) /\ message(t) \in Indication
  <2>1. ind[t] \in 1..Len(inbox) /\ inbox \in Seq(Messages)
    BY SMTT(40), <1>1 DEF IInv, TypeOK, OneEach
  <2>2. message(t) \in Messages
    BY <2>1 DEF message
  <2> QED BY <1>1, <2>2, CallbackAssumption DEF message
<1>3. Len(message(t).reports) \in Nat
  BY <1>2, IndicationTyped
<1>4. LatencyKept(t)' /\ CursorInside(t)'
  BY <1>1, <1>2, <1>3 DEF RInv, ROf, LatencyKept, CursorInside
<1>5. PrintableSoFar(t)'
  <2>1. \A u \in 1..Len(message(t).reports) : ~(u < 1)
    BY <1>3
  <2> QED BY <1>1, <1>2, <2>1 DEF PrintableSoFar
<1>6. SoFar(t)' = <<Header(ind[t], counter, lat[t])>>
  <2>1. Reports!Ues(ind[t], message(t), 0) = << >>
    BY NothingYet
  <2>2. SoFar(t)' = <<Header(ind'[t], counter', lat'[t])>>
                       \o Reports!Ues(ind'[t], message(t)', cur'[t].u - 1) \o << >>
    BY <1>1 DEF SoFar
  <2>3. cur'[t].u - 1 = 0
    BY <1>1
  <2>4. PICK h : h = Header(ind[t], counter, lat[t])
    OBVIOUS
  <2>5. SoFar(t)' = <<h>> \o << >> \o << >>
    BY <1>1, <1>2, <2>1, <2>2, <2>3, <2>4
  <2> QED BY <2>4, <2>5
<1>7. EndsWithSoFar(t)'
  <2>1. PICK h \in Line : h = Header(ind[t], counter, lat[t])
    <3>1. ind[t] \in Nat /\ counter \in Nat /\ lat[t] \in Nat
      BY DEF IInv, TypeOK
    <3>2. PICK h : h = Header(ind[t], counter, lat[t])
      OBVIOUS
    <3>3. h \in Line
      BY <3>1, <3>2 DEF Header, Line, Kinds
    <3> QED BY <3>2, <3>3
  <2>2. log \in Seq(Line)
    BY DEF IInv, TypeOK
  <2>3. log' = Append(log, h) /\ log' = SubSeq(log', 1, Len(log)) \o <<h>>
        /\ Len(log) \in 0..Len(log')
    BY <1>1, <2>1, <2>2
  <2> QED BY <1>6, <2>1, <2>3 DEF EndsWithSoFar
<1> QED BY <1>4, <1>5, <1>7 DEF ROf

\* At a UE: the message stays, and the thread has a report.
LEMMA UeStep ==
    ASSUME IInv, RInv, NEW t \in Threads, PrintUe(t)
    PROVE  ROf(t)'
<1>1. /\ pc[t] = "ue" /\ pc'[t] = "meas" /\ cur'[t] = [u |-> cur[t].u, d |-> 1, j |-> 1]
      /\ UNCHANGED <<inbox, ind, lat, counter>>
      /\ cur[t].u <= Len(message(t).reports)
      /\ log' = log \o print_ue_id(ind[t], cur[t].u, report(t).ue)
      /\ proc = "up" /\ (proc' = "up" => Len(report(t).info) > 0)
  BY DEF PrintUe, Goto, At, IInv, TypeOK
<1>2. ROf(t) /\ CursorInside(t) /\ PrintableSoFar(t) /\ EndsWithSoFar(t)
  BY SMTT(40) DEF RInv, ROf
<1>3. message(t)' = message(t) /\ report(t)' = report(t)
  <2>1. cur'[t].u = cur[t].u
    BY <1>1
  <2> QED BY Zenon, <1>1, <2>1 DEF message, report
<1>4. /\ ind[t] \in Nat /\ message(t) \in Indication /\ cur[t].u \in Nat \ {0}
      /\ HeaderSo(t) \in Seq(Word) /\ UesSo(t) \in Seq(Word)
  BY <1>1, <1>2, Place, Typed DEF Printing, IInv
<1>5. cur[t].u \in 1..Len(message(t).reports) /\ Len(message(t).reports) \in Nat
  BY <1>1, <1>4, IndicationTyped
<1>6. /\ report(t).ue \in Ue /\ report(t).data \in Seq(Data) /\ Len(report(t).data) \in Nat
      /\ \A d \in 1..Len(report(t).data) : Len(report(t).data[d].recs) \in Nat
      /\ report(t).info \in Seq(STRING)
  BY <1>4, <1>5, IndicationTyped DEF report
<1>7. LatencyKept(t)'
  BY <1>1, <1>3 DEF RInv, ROf, LatencyKept
<1>8. CursorInside(t)'
  <2>1. 1 <= Len(report(t).data) => 1 <= Len(report(t).data[1].recs) + 1
    BY <1>6
  <2>2. data(t)' = report(t).data[1]
    BY <1>1, <1>3 DEF data
  <2>3. 1 <= Len(report(t).data) + 1
    BY <1>6
  <2> QED BY <1>1, <1>3, <2>1, <2>2, <2>3 DEF CursorInside
<1>9. PrintableSoFar(t)'
  <2>1. proc' = "up" => report(t).info # << >>
    BY <1>1, <1>6
  <2>2. \A d \in 1..Len(report(t).data) : ~(d < 1)
    BY <1>6
  <2>3. cur'[t].u = cur[t].u /\ cur'[t].d = 1 /\ cur'[t].j = 1
    BY <1>1
  <2>4. \A u \in 1..Len(message(t).reports) :
           u < cur[t].u => Reports!PrintableUe(message(t).reports[u])
    BY <1>1, <1>2 DEF PrintableSoFar, Printing
  <2>5. \A j \in 1..cur'[t].j - 1 : FALSE
    BY <2>3
  <2> QED BY <1>3, <2>1, <2>2, <2>3, <2>4, <2>5 DEF PrintableSoFar
<1>10. PICK y \in Seq(Line) : y = print_ue_id(ind[t], cur[t].u, report(t).ue)
  BY SMTT(40), <1>4, <1>6, UeLinesPlain DEF Plain
<1>11. PICK h \in Seq(Word), b \in Seq(Word) : h = HeaderSo(t) /\ b = UesSo(t)
  BY <1>4
<1>12. SoFar(t) = h \o b \o << >>
  BY Zenon, <1>1, <1>11, SoFarParts
<1>13. SoFar(t)' = h \o b \o (y \o << >> \o << >>)
  <2>1. Reports!Items(ind[t], message(t), cur[t].u, 0) = << >>
        /\ Reports!Records(ind[t], message(t), cur[t].u, 1, 0) = << >>
    BY NothingYet
  <2>2. cur'[t].u = cur[t].u /\ cur'[t].d - 1 = 0 /\ cur'[t].j - 1 = 0 /\ cur'[t].d = 1
    BY <1>1
  <2>3. SoFar(t)' = <<Header(ind'[t], counter', lat'[t])>>
           \o Reports!Ues(ind'[t], message(t)', cur'[t].u - 1)
           \o (print_ue_id(ind'[t], cur'[t].u, report(t)'.ue)
                 \o Reports!Items(ind'[t], message(t)', cur'[t].u, cur'[t].d - 1)
                 \o Reports!Records(ind'[t], message(t)', cur'[t].u, cur'[t].d, cur'[t].j - 1))
    BY <1>1 DEF SoFar
  <2> QED BY <1>1, <1>3, <1>10, <1>11, <2>1, <2>2, <2>3 DEF HeaderSo, UesSo
<1>14. SoFar(t)' = (h \o b \o << >>) \o y /\ h \o b \o << >> \in Seq(Word)
  <2>1. y \in Seq(Word)
    BY <1>10, SeqOfWords
  <2>2. y \o << >> \o << >> = y /\ h \o b \o << >> = h \o b /\ h \o b \in Seq(Word)
    BY <2>1
  <2> QED BY <1>13, <2>1, <2>2, ConcatAssociative
<1>15. EndsWithSoFar(t)'
  <2>1. PICK n \in 0..Len(log) : log = SubSeq(log, 1, n) \o (h \o b \o << >>)
    BY <1>1, <1>2, <1>12 DEF EndsWithSoFar, Printing
  <2>2. log \in Seq(Line) /\ log' = log \o y
    BY <1>1, <1>10 DEF IInv, TypeOK
  <2>3. \E i \in 0..Len(log') : log' = SubSeq(log', 1, i) \o ((h \o b \o << >>) \o y)
    BY <1>14, <2>1, <2>2, Extended
  <2> QED BY <1>14, <2>3 DEF EndsWithSoFar
<1> QED BY <1>7, <1>8, <1>9, <1>15 DEF ROf

\* Sequences of words are joined in any order.
LEMMA Joined ==
    /\ \A x, z \in Seq(Word) : x \o z \in Seq(Word)
    /\ \A x, z, w \in Seq(Word) : x \o (z \o w) = (x \o z) \o w
BY SMTT(40), ConcatAssociative

\* What is printed after a record belongs to the sequence of the records.
LEMMA Regrouped ==
    ASSUME NEW p \in Seq(Word), NEW q \in Seq(Word), NEW r \in Seq(Word), NEW y \in Seq(Word)
    PROVE  /\ p \o (q \o (r \o y)) = (p \o (q \o r)) \o y
           /\ p \o (q \o r) \in Seq(Word)
<1>1. PICK x \in Seq(Word) : x = q \o r
  <2>1. q \o r \in Seq(Word)
    BY Joined
  <2> QED BY Zenon, <2>1
<1>2. q \o (r \o y) = x \o y
  BY SMTT(40), <1>1, Joined
<1>3. p \o (x \o y) = (p \o x) \o y /\ p \o x \in Seq(Word)
  BY SMTT(40), Joined
<1> QED BY Zenon, <1>1, <1>2, <1>3

\* What is known of a thread among the measurements, for the three steps there.
LEMMA AtMeasurements ==
    ASSUME IInv, RInv, NEW t \in Threads, pc[t] = "meas"
    PROVE  /\ ROf(t) /\ LatencyKept(t) /\ CursorInside(t) /\ PrintableSoFar(t) /\ EndsWithSoFar(t)
           /\ ind[t] \in Nat /\ message(t) \in Indication
           /\ cur[t].u \in Nat /\ cur[t].d \in Nat \ {0} /\ cur[t].j \in Nat \ {0}
           /\ cur[t].u - 1 \in Nat /\ cur[t].d - 1 \in Nat /\ cur[t].j - 1 \in Nat
           /\ Len(message(t).reports) \in Nat /\ cur[t].u \in 1..Len(message(t).reports)
           /\ report(t) = message(t).reports[cur[t].u]
           /\ Len(report(t).data) \in Nat /\ cur[t].d - 1 <= Len(report(t).data)
           /\ \A d \in 1..Len(report(t).data) : Len(report(t).data[d].recs) \in Nat
<1>1. ROf(t) /\ LatencyKept(t) /\ CursorInside(t) /\ PrintableSoFar(t) /\ EndsWithSoFar(t)
  BY DEF RInv, ROf
<1>2. /\ ind[t] \in Nat /\ message(t) \in Indication /\ cur[t].u \in Nat
      /\ cur[t].u - 1 \in Nat /\ cur[t].d - 1 \in Nat /\ cur[t].j - 1 \in Nat
  BY <1>1, Place DEF Printing
<1>3. cur[t].d \in Nat \ {0} /\ cur[t].j \in Nat \ {0}
  BY Typed DEF IInv
<1>4. /\ cur[t].u \in 1..Len(message(t).reports) /\ report(t) = message(t).reports[cur[t].u]
      /\ Len(report(t).data) \in Nat /\ cur[t].d - 1 <= Len(report(t).data)
  BY <1>1, PlaceAtUe
<1>5. Len(message(t).reports) \in Nat
  BY <1>2, IndicationTyped
<1>6. \A d \in 1..Len(report(t).data) : Len(report(t).data[d].recs) \in Nat
  BY Zenon, <1>2, <1>4, IndicationTyped
<1> QED BY Zenon, <1>1, <1>2, <1>3, <1>4, <1>5, <1>6

\* The lines it has printed.
LEMMA LinesSoFar ==
    ASSUME IInv, RInv, NEW t \in Threads, pc[t] = "meas"
    PROVE  /\ HeaderSo(t) \in Seq(Word) /\ UesSo(t) \in Seq(Word)
           /\ Identity(t) \in Seq(Word) /\ ItemsSo(t) \in Seq(Word) /\ RecordsSo(t) \in Seq(Word)
           /\ SoFar(t) = HeaderSo(t) \o UesSo(t) \o (Identity(t) \o ItemsSo(t) \o RecordsSo(t))
<1>1. CursorInside(t) /\ pc[t] \in Printing
  BY DEF RInv, ROf, Printing
<1>2. HeaderSo(t) \in Seq(Word) /\ UesSo(t) \in Seq(Word)
  BY Zenon, <1>1, Place
<1>3. Identity(t) \in Seq(Word) /\ ItemsSo(t) \in Seq(Word) /\ RecordsSo(t) \in Seq(Word)
  BY Zenon, <1>1, PlaceAtUe
<1> QED BY Zenon, <1>2, <1>3, SoFarParts

\* One record more is printed, or the process ends.
LEMMA RecordStep ==
    ASSUME IInv, RInv, NEW t \in Threads, PrintRecord(t)
    PROVE  ROf(t)'
<1>1. /\ pc[t] = "meas" /\ UNCHANGED <<inbox, pc, ind, lat, counter>>
      /\ cur[t].d <= Len(report(t).data) /\ cur[t].j <= Len(data(t).recs)
  BY DEF PrintRecord
<1>2. PICK o \in match_meas_type(report(t), cur[t].d, cur[t].j) :
        IF o \in {"aborted", "crashed"}
        THEN proc' = o /\ UNCHANGED <<log, cur>>
        ELSE /\ log' = log \o RecordLines(ind[t], <<cur[t].u, cur[t].d, cur[t].j>>,
                                          o, data(t).incomplete)
             /\ cur' = [cur EXCEPT ![t] = [u |-> cur[t].u, d |-> cur[t].d, j |-> cur[t].j + 1]]
             /\ UNCHANGED proc
  BY DEF PrintRecord, At
<1>3. message(t)' = message(t)
  BY <1>1 DEF message
<1>4. CASE o \in {"aborted", "crashed"}
  BY <1>1, <1>2, <1>3, <1>4, Still DEF RInv
<1>5. CASE o \notin {"aborted", "crashed"}
  <2>1. /\ cur'[t].u = cur[t].u /\ cur'[t].d = cur[t].d /\ cur'[t].j = cur[t].j + 1
        /\ cur'[t].j - 1 = cur[t].j /\ proc' = proc
    BY <1>2, <1>5, AtMeasurements, <1>1 DEF IInv, TypeOK
  <2>2. report(t)' = report(t) /\ data(t)' = data(t)
    BY <1>3, <2>1 DEF report, data
  <2>3. cur[t].d \in 1..Len(report(t).data)
    BY <1>1, AtMeasurements
  <2>4. data(t) = report(t).data[cur[t].d] /\ Len(data(t).recs) \in Nat
    BY <1>1, <2>3, AtMeasurements DEF data
  <2>5. /\ Reports!Record(ind[t], message(t), cur[t].u, cur[t].d, cur[t].j)
             = RecordLines(ind[t], <<cur[t].u, cur[t].d, cur[t].j>>, o, data(t).incomplete)
        /\ Reports!PrintableRecord(report(t), cur[t].d, cur[t].j)
        /\ o \in {"value", "not yet supported", "garbage"}
    <3>1. /\ ind[t] \in Nat /\ cur[t].u \in Nat /\ cur[t].d \in Nat /\ cur[t].j \in Nat
          /\ report(t) = message(t).reports[cur[t].u]
      BY <1>1, AtMeasurements
    <3>2. PICK m, k, u, d, j :
            m = message(t) /\ k = ind[t] /\ u = cur[t].u /\ d = cur[t].d /\ j = cur[t].j
      OBVIOUS
    <3>3. o \in match_meas_type(m.reports[u], d, j) /\ j \in Nat
      BY <3>1, <3>2
    <3>4. /\ Reports!Record(k, m, u, d, j)
                = RecordLines(k, <<u, d, j>>, o, m.reports[u].data[d].incomplete)
          /\ Reports!PrintableRecord(m.reports[u], d, j)
          /\ o \in {"value", "not yet supported", "garbage"}
      BY ZenonT(90), <1>5, <3>3, RecordPrinted
    <3>5. data(t) = m.reports[u].data[d] /\ report(t) = m.reports[u]
      BY <2>4, <3>1, <3>2
    <3> QED BY Zenon, <3>2, <3>4, <3>5
  <2>6. LatencyKept(t)'
    BY <1>1, <1>3, AtMeasurements DEF LatencyKept
  <2>7. CursorInside(t)'
    <3>1. cur[t].j + 1 <= Len(data(t).recs) + 1
      <4>1. PICK j, e : j = cur[t].j /\ e = Len(data(t).recs)
        OBVIOUS
      <4>2. j \in Nat /\ e \in Nat /\ j <= e
        BY <1>1, <2>4, <4>1, AtMeasurements
      <4> QED BY <4>1, <4>2
    <3> QED BY <1>1, <1>3, <2>1, <2>2, <3>1, AtMeasurements DEF CursorInside
  <2>8. PrintableSoFar(t)'
    <3>1. \A j \in 1..cur[t].j : j = cur[t].j \/ j \in 1..cur[t].j - 1
      BY <1>1, AtMeasurements
    <3>2. PrintableSoFar(t)
      BY <1>1, AtMeasurements
    <3> QED BY Zenon, <1>1, <1>3, <2>1, <2>2, <2>5, <3>1, <3>2 DEF PrintableSoFar
  <2>9. Reports!Records(ind[t], message(t), cur[t].u, cur[t].d, cur[t].j)
           = RecordsSo(t) \o Reports!Record(ind[t], message(t), cur[t].u, cur[t].d, cur[t].j)
    <3>1. PICK n \in Nat : n = cur[t].j - 1 /\ n + 1 = cur[t].j
      BY <1>1, AtMeasurements
    <3>2. PICK m, k, u, d : m = message(t) /\ k = ind[t] /\ u = cur[t].u /\ d = cur[t].d
      OBVIOUS
    <3>3. k \in Nat /\ u \in Nat /\ d \in Nat
      BY <1>1, <3>2, AtMeasurements
    <3>4. Reports!Records(k, m, u, d, n + 1)
            = Reports!Records(k, m, u, d, n) \o Reports!Record(k, m, u, d, n + 1)
      BY <3>3, RecordsNext, SMTT(60)
    <3> QED BY Zenon, <3>1, <3>2, <3>4 DEF RecordsSo
  <2>10. PICK y \in Seq(Line) : y = RecordLines(ind[t], <<cur[t].u, cur[t].d, cur[t].j>>, o,
                                               data(t).incomplete)
    <3>1. ind[t] \in Nat /\ <<cur[t].u, cur[t].d, cur[t].j>> \in Seq(Nat)
      BY <1>1, AtMeasurements
    <3> QED BY Zenon, <2>5, <3>1, RecordLinesPlain DEF Plain
  <2>11. Reports!Records(ind[t], message(t), cur[t].u, cur[t].d, cur[t].j) = RecordsSo(t) \o y
    BY Zenon, <2>5, <2>9, <2>10
  <2>12. PICK p \in Seq(Word), q \in Seq(Word), r \in Seq(Word) :
            /\ p = HeaderSo(t) \o UesSo(t) /\ q = Identity(t) \o ItemsSo(t) /\ r = RecordsSo(t)
    <3>1. /\ HeaderSo(t) \in Seq(Word) /\ UesSo(t) \in Seq(Word)
          /\ Identity(t) \in Seq(Word) /\ ItemsSo(t) \in Seq(Word) /\ RecordsSo(t) \in Seq(Word)
      BY <1>1, LinesSoFar
    <3>2. HeaderSo(t) \o UesSo(t) \in Seq(Word) /\ Identity(t) \o ItemsSo(t) \in Seq(Word)
      BY Zenon, <3>1, Joined
    <3> QED BY Zenon, <3>1, <3>2
  <2>13. SoFar(t) = p \o (q \o r)
    BY <1>1, <2>12, LinesSoFar
  <2>14. SoFar(t)' = p \o (q \o (r \o y))
    <3>1. SoFar(t)' = <<Header(ind'[t], counter', lat'[t])>>
             \o Reports!Ues(ind'[t], message(t)', cur'[t].u - 1)
             \o (print_ue_id(ind'[t], cur'[t].u, report(t)'.ue)
                   \o Reports!Items(ind'[t], message(t)', cur'[t].u, cur'[t].d - 1)
                   \o Reports!Records(ind'[t], message(t)', cur'[t].u, cur'[t].d, cur'[t].j - 1))
      BY <1>1 DEF SoFar
    <3> QED BY ZenonT(30), <1>1, <1>3, <2>1, <2>2, <2>11, <2>12, <3>1 DEF HeaderSo, UesSo, Identity, ItemsSo
  <2>15. SoFar(t)' = SoFar(t) \o y /\ SoFar(t) \in Seq(Word)
    <3>1. y \in Seq(Word)
      BY SeqOfWords
    <3>2. p \o (q \o (r \o y)) = (p \o (q \o r)) \o y /\ p \o (q \o r) \in Seq(Word)
      BY <3>1, Regrouped
    <3> QED BY Zenon, <2>13, <2>14, <3>2
  <2>16. EndsWithSoFar(t)'
    <3>1. PICK n \in 0..Len(log) : log = SubSeq(log, 1, n) \o SoFar(t)
      BY <1>1, AtMeasurements DEF EndsWithSoFar, Printing
    <3>2. log \in Seq(Line) /\ log' = log \o y
      BY <1>2, <1>5, <2>10 DEF IInv, TypeOK
    <3>3. \E k \in 0..Len(log') : log' = SubSeq(log', 1, k) \o (SoFar(t) \o y)
      BY <2>15, <3>1, <3>2, Extended
    <3> QED BY <2>15, <3>3 DEF EndsWithSoFar
  <2> QED BY <2>6, <2>7, <2>8, <2>16 DEF ROf
<1> QED BY <1>4, <1>5

\* One item more is gone through: its records have become its items.
LEMMA DataStep ==
    ASSUME IInv, RInv, NEW t \in Threads, NextData(t)
    PROVE  ROf(t)'
<1>1. /\ pc[t] = "meas" /\ UNCHANGED <<inbox, pc, ind, lat, counter, log, proc>>
      /\ cur[t].d <= Len(report(t).data) /\ cur[t].j > Len(data(t).recs)
      /\ cur'[t] = [u |-> cur[t].u, d |-> cur[t].d + 1, j |-> 1]
  BY DEF NextData, At, IInv, TypeOK
<1>2. /\ cur'[t].u = cur[t].u /\ cur'[t].d = cur[t].d + 1 /\ cur'[t].j = 1
      /\ cur'[t].d - 1 = cur[t].d /\ cur'[t].j - 1 = 0
  BY <1>1, AtMeasurements
<1>3. message(t)' = message(t) /\ report(t)' = report(t)
  BY <1>1, <1>2 DEF message, report
<1>4. /\ cur[t].d \in 1..Len(report(t).data)
      /\ data(t) = report(t).data[cur[t].d] /\ Len(data(t).recs) \in Nat
  <2>1. cur[t].d \in 1..Len(report(t).data)
    BY <1>1, AtMeasurements
  <2>2. data(t) = report(t).data[cur[t].d]
    BY DEF data
  <2> QED BY <1>1, <2>1, <2>2, AtMeasurements
<1>5. cur[t].j - 1 = Len(data(t).recs)
  <2>1. PICK j, e : j = cur[t].j /\ e = Len(data(t).recs)
    OBVIOUS
  <2>2. j \in Nat /\ e \in Nat /\ j > e /\ j <= e + 1
    BY <1>1, <1>4, <2>1, AtMeasurements DEF CursorInside
  <2>3. j - 1 = e
    BY <2>2
  <2> QED BY <2>1, <2>3
<1>6. LatencyKept(t)'
  BY <1>1, <1>3, AtMeasurements DEF LatencyKept
<1>7. CursorInside(t)'
  <2>1. cur[t].d + 1 <= Len(report(t).data) + 1
    <3>1. PICK e, d : e = Len(report(t).data) /\ d = cur[t].d
      OBVIOUS
    <3>2. e \in Nat /\ d \in Nat /\ d <= e
      BY <1>1, <3>1, AtMeasurements
    <3> QED BY <3>1, <3>2
  <2>2. ASSUME cur[t].d + 1 <= Len(report(t).data)
        PROVE  1 <= Len(report(t).data[cur[t].d + 1].recs) + 1
    <3>1. PICK b, c, e : b = cur[t].d /\ c = cur[t].d + 1 /\ e = Len(report(t).data)
      OBVIOUS
    <3>2. b \in Nat /\ e \in Nat
      BY <1>1, <3>1, AtMeasurements
    <3>3. c \in 1..e
      BY <2>2, <3>1, <3>2
    <3>4. PICK n \in Nat : n = Len(report(t).data[c].recs)
      BY <1>1, <3>1, <3>3, AtMeasurements
    <3>5. 1 <= n + 1
      OBVIOUS
    <3> QED BY Zenon, <3>1, <3>4, <3>5
  <2>3. data(t)' = report(t).data[cur[t].d + 1]
    BY <1>2, <1>3 DEF data
  <2> QED BY <1>1, <1>2, <1>3, <2>1, <2>2, <2>3, AtMeasurements DEF CursorInside
<1>8. PrintableSoFar(t)'
  <2>1. PrintableSoFar(t)
    BY <1>1, AtMeasurements
  <2>2. \A d \in 1..Len(report(t).data) : d < cur[t].d + 1 => d < cur[t].d \/ d = cur[t].d
    <3>1. PICK c, e : c = cur[t].d /\ e = Len(report(t).data)
      OBVIOUS
    <3>2. c \in Nat /\ e \in Nat
      BY <1>1, <3>1, AtMeasurements
    <3>3. \A d \in 1..e : d < c + 1 => d < c \/ d = c
      BY <3>2
    <3> QED BY Zenon, <3>1, <3>3
  <2>3. \A j \in 1..cur'[t].j - 1 : FALSE
    BY <1>2
  <2> QED BY <1>1, <1>2, <1>3, <1>4, <1>5, <2>1, <2>2, <2>3 DEF PrintableSoFar
<1>9. Reports!Items(ind[t], message(t), cur[t].u, cur[t].d) = ItemsSo(t) \o RecordsSo(t)
  <2>1. PICK n \in Nat : n = cur[t].d - 1 /\ n + 1 = cur[t].d
    BY <1>1, AtMeasurements
  <2>2. PICK m, k, u : m = message(t) /\ k = ind[t] /\ u = cur[t].u
    OBVIOUS
  <2>3. /\ k \in Nat /\ m \in Indication /\ u \in 1..Len(m.reports)
        /\ report(t) = m.reports[u]
    BY <1>1, <2>2, AtMeasurements
  <2>4. n < Len(m.reports[u].data) /\ n <= Len(m.reports[u].data)
    BY SMTT(40), <1>4, <2>1, <2>3, IndicationTyped
  <2>5. Reports!Items(k, m, u, n + 1) = Reports!Items(k, m, u, n) \o
            Reports!Records(k, m, u, n + 1, Len(m.reports[u].data[n + 1].recs))
    BY Zenon, <2>3, <2>4, ItemsNext
  <2>6. Len(m.reports[u].data[n + 1].recs) = cur[t].j - 1
    BY Zenon, <1>4, <1>5, <2>1, <2>3
  <2> QED BY Zenon, <2>1, <2>2, <2>5, <2>6 DEF ItemsSo, RecordsSo
<1>10. SoFar(t)' = SoFar(t)
  <2>1. Reports!Records(ind[t], message(t), cur[t].u, cur[t].d + 1, 0) = << >>
    BY SMTT(40), NothingYet
  <2>2. SoFar(t)' = <<Header(ind'[t], counter', lat'[t])>>
           \o Reports!Ues(ind'[t], message(t)', cur'[t].u - 1)
           \o (print_ue_id(ind'[t], cur'[t].u, report(t)'.ue)
                 \o Reports!Items(ind'[t], message(t)', cur'[t].u, cur'[t].d - 1)
                 \o Reports!Records(ind'[t], message(t)', cur'[t].u, cur'[t].d, cur'[t].j - 1))
    BY Zenon, <1>1 DEF SoFar
  <2>3. SoFar(t)' = HeaderSo(t) \o UesSo(t)
                       \o (Identity(t) \o (ItemsSo(t) \o RecordsSo(t)) \o << >>)
    BY Zenon, <1>1, <1>2, <1>3, <1>9, <2>1, <2>2 DEF HeaderSo, UesSo, Identity
  <2>4. /\ Identity(t) \in Seq(Word) /\ ItemsSo(t) \in Seq(Word) /\ RecordsSo(t) \in Seq(Word)
    BY <1>1, LinesSoFar
  <2>5. Identity(t) \o (ItemsSo(t) \o RecordsSo(t)) \o << >>
           = Identity(t) \o ItemsSo(t) \o RecordsSo(t)
    <3>1. PICK i \in Seq(Word), a \in Seq(Word), r \in Seq(Word) :
             i = Identity(t) /\ a = ItemsSo(t) /\ r = RecordsSo(t)
      BY Zenon, <2>4
    <3>2. i \o (a \o r) = (i \o a) \o r /\ (i \o a) \o r \in Seq(Word)
      BY SMTT(40), Joined
    <3>3. (i \o (a \o r)) \o << >> = (i \o a) \o r
      BY <3>2
    <3> QED BY Zenon, <3>1, <3>3
  <2> QED BY <1>1, <2>3, <2>5, LinesSoFar
<1>11. EndsWithSoFar(t)'
  <2>1. EndsWithSoFar(t)
    BY <1>1, AtMeasurements
  <2> QED BY <1>1, <1>10, <2>1 DEF EndsWithSoFar
<1> QED BY <1>6, <1>7, <1>8, <1>11 DEF ROf

\* One UE more is gone through, and all of it can be printed.
LEMMA UeDone ==
    ASSUME IInv, RInv, NEW t \in Threads, NextUe(t)
    PROVE  ROf(t)'
<1>1. /\ pc[t] = "meas" /\ pc'[t] = "ue" /\ UNCHANGED <<inbox, ind, lat, counter, log, proc>>
      /\ cur[t].d > Len(report(t).data)
      /\ cur'[t] = [u |-> cur[t].u + 1, d |-> 1, j |-> 1]
  BY DEF NextUe, At, Goto, IInv, TypeOK
<1>2. cur'[t].u = cur[t].u + 1 /\ cur'[t].u - 1 = cur[t].u
  BY <1>1, AtMeasurements
<1>3. message(t)' = message(t)
  BY <1>1 DEF message
<1>4. cur[t].d - 1 = Len(report(t).data) /\ cur[t].j = 1
  <2>1. PICK d, e : d = cur[t].d /\ e = Len(report(t).data)
    OBVIOUS
  <2>2. d \in Nat /\ e \in Nat /\ d > e /\ d <= e + 1
    BY <1>1, <2>1, AtMeasurements DEF CursorInside
  <2>3. d - 1 = e /\ ~(d <= e)
    BY <2>2
  <2> QED BY <1>1, <2>1, <2>3, AtMeasurements DEF CursorInside
<1>5. LatencyKept(t)'
  BY <1>1, <1>3, AtMeasurements DEF LatencyKept
<1>6. CursorInside(t)'
  <2>1. cur[t].u + 1 <= Len(message(t).reports) + 1
    BY SMTT(40), <1>1, AtMeasurements
  <2> QED BY <1>1, <1>2, <1>3, <2>1 DEF CursorInside
<1>7. PrintableSoFar(t)'
  <2>1. ASSUME proc = "up" PROVE Reports!PrintableUe(report(t))
    <3>1. /\ report(t).info # << >>
          /\ \A d \in 1..Len(report(t).data) : d < cur[t].d =>
                \A j \in 1..Len(report(t).data[d].recs) : Reports!PrintableRecord(report(t), d, j)
      BY <1>1, <2>1, AtMeasurements DEF PrintableSoFar
    <3>2. \A d \in 1..Len(report(t).data) : d < cur[t].d
      BY <1>1, AtMeasurements
    <3> QED BY <3>1, <3>2 DEF Reports!PrintableUe
  <2>2. \A u \in 1..Len(message(t).reports) : u < cur[t].u + 1 => u < cur[t].u \/ u = cur[t].u
    BY SMTT(40), <1>1, AtMeasurements
  <2>3. report(t) = message(t).reports[cur[t].u] /\ PrintableSoFar(t)
    BY <1>1, AtMeasurements
  <2>4. proc = "up" => \A u \in 1..Len(message(t).reports) :
           u < cur[t].u => Reports!PrintableUe(message(t).reports[u])
    BY <1>1, <2>3 DEF PrintableSoFar, Printing
  <2> QED BY <1>1, <1>2, <1>3, <2>1, <2>2, <2>3, <2>4 DEF PrintableSoFar
<1>8. Reports!Ues(ind[t], message(t), cur[t].u) = UesSo(t) \o (Identity(t) \o ItemsSo(t))
  <2>1. PICK n \in Nat : n = cur[t].u - 1 /\ n + 1 = cur[t].u
    BY <1>1, AtMeasurements
  <2>2. PICK m, k : m = message(t) /\ k = ind[t]
    OBVIOUS
  <2>3. k \in Nat /\ m \in Indication /\ n < Len(m.reports) /\ n <= Len(m.reports)
    <3>1. PICK u, e : u = cur[t].u /\ e = Len(m.reports)
      OBVIOUS
    <3>2. k \in Nat /\ m \in Indication /\ e \in Nat /\ u \in 1..e /\ n + 1 = u
      BY <1>1, <2>1, <2>2, <3>1, AtMeasurements
    <3>3. n < e /\ n <= e
      BY <3>2
    <3> QED BY Zenon, <3>1, <3>2, <3>3
  <2>4. Reports!Ues(k, m, n + 1) = Reports!Ues(k, m, n) \o
            (print_ue_id(k, n + 1, m.reports[n + 1].ue)
               \o Reports!Items(k, m, n + 1, Len(m.reports[n + 1].data)))
    BY <2>3, UesNext, SMTT(60)
  <2>5. m.reports[n + 1] = report(t)
    BY <1>1, <2>1, <2>2, AtMeasurements
  <2> QED BY Zenon, <1>4, <2>1, <2>2, <2>4, <2>5 DEF UesSo, Identity, ItemsSo
<1>9. SoFar(t)' = SoFar(t)
  <2>1. RecordsSo(t) = << >>
    <3>1. cur[t].j - 1 = 0
      BY <1>4
    <3> QED BY <3>1, NothingYet DEF RecordsSo
  <2>2. SoFar(t)' = <<Header(ind'[t], counter', lat'[t])>>
                       \o Reports!Ues(ind'[t], message(t)', cur'[t].u - 1) \o << >>
    BY <1>1 DEF SoFar
  <2>3. SoFar(t)' = HeaderSo(t) \o (UesSo(t) \o (Identity(t) \o ItemsSo(t))) \o << >>
    BY <1>1, <1>2, <1>3, <1>8, <2>2 DEF HeaderSo
  <2>4. SoFar(t) = HeaderSo(t) \o UesSo(t) \o (Identity(t) \o ItemsSo(t) \o << >>)
    BY <1>1, <2>1, LinesSoFar
  <2>5. PICK h \in Seq(Word), b \in Seq(Word), x \in Seq(Word) :
           h = HeaderSo(t) /\ b = UesSo(t) /\ x = Identity(t) \o ItemsSo(t)
    <3>1. /\ HeaderSo(t) \in Seq(Word) /\ UesSo(t) \in Seq(Word)
          /\ Identity(t) \in Seq(Word) /\ ItemsSo(t) \in Seq(Word)
      BY <1>1, LinesSoFar
    <3>2. Identity(t) \o ItemsSo(t) \in Seq(Word)
      BY Zenon, <3>1, Joined
    <3> QED BY Zenon, <3>1, <3>2
  <2>6. h \o (b \o x) = (h \o b) \o x /\ (h \o b) \o x \in Seq(Word)
    BY Joined
  <2>7. x \o << >> = x /\ (h \o (b \o x)) \o << >> = (h \o b) \o x
    BY <2>6
  <2> QED BY Zenon, <2>3, <2>4, <2>5, <2>7
<1>10. EndsWithSoFar(t)'
  <2>1. EndsWithSoFar(t)
    BY <1>1, AtMeasurements
  <2> QED BY <1>1, <1>9, <2>1 DEF EndsWithSoFar, Printing
<1> QED BY <1>5, <1>6, <1>7, <1>10 DEF ROf

\* Before the first indication nothing is printed.
LEMMA InitR == Init => RInv
BY DEF Init, RInv, ROf, LatencyKept, CursorInside, EndsWithSoFar, PrintableSoFar, Printing

\* Every step keeps what the threads have printed whole so far.
LEMMA NextR == IInv /\ RInv /\ [Next]_vars => RInv'
<1> SUFFICES ASSUME IInv, RInv, [Next]_vars PROVE RInv'
  OBVIOUS
<1>0. /\ TypeOK /\ OneEach
      /\ \A s \in Threads : ROf(s) /\ LatencyKept(s)
  BY DEF IInv, RInv, ROf
<1>1. ASSUME NEW m \in Messages, Deliver(m) PROVE RInv'
  <2> SUFFICES ASSUME NEW s \in Threads PROVE ROf(s)'
    BY DEF RInv
  <2>1. ASSUME pc[s] # "idle" PROVE message(s)' = message(s)
    <3>1. ind[s] \in 1..Len(inbox)
      BY <1>0, <2>1 DEF OneEach, TypeOK
    <3> QED BY <1>0, <1>1, <3>1 DEF Deliver, message, TypeOK
  <2> QED BY <1>0, <1>1, <2>1, Still DEF Deliver
<1>2. ASSUME NEW t \in Threads, Enter(t) PROVE RInv'
  <2> SUFFICES ASSUME NEW s \in Threads PROVE ROf(s)'
    BY DEF RInv
  <2>1. CASE s = t
    <3>1. pc'[t] = "lock" /\ ind'[t] = taken + 1 /\ lat'[t] = Latency(inbox[taken + 1])
          /\ inbox' = inbox
      BY <1>0, <1>2 DEF Enter, Goto, TypeOK
    <3>2. LatencyKept(t)'
      BY <3>1 DEF LatencyKept, message
    <3> QED BY <2>1, <3>1, <3>2, Outside DEF Printing
  <2>2. CASE s # t
    <3>1. /\ pc'[s] = pc[s] /\ ind'[s] = ind[s] /\ lat'[s] = lat[s]
          /\ UNCHANGED <<inbox, cur, counter, log, proc>>
      BY <1>0, <1>2, <2>2 DEF Enter, Goto, TypeOK
    <3> QED BY <1>0, <3>1, Still DEF message
  <2> QED BY <2>1, <2>2
<1>3. ASSUME NEW t \in Threads, Lock(t) PROVE RInv'
  <2> SUFFICES ASSUME NEW s \in Threads PROVE ROf(s)'
    BY DEF RInv
  <2>0. UNCHANGED <<inbox, ind, lat, cur, counter, log, proc>>
    BY <1>3 DEF Lock
  <2>1. CASE s = t
    <3>1. pc'[t] = "header" /\ pc[t] = "lock"
      BY <1>0, <1>3 DEF Lock, Goto, TypeOK
    <3>2. LatencyKept(t)'
      BY <1>0, <2>0, <3>1 DEF LatencyKept, message
    <3> QED BY <2>1, <3>1, <3>2, Outside DEF Printing
  <2>2. CASE s # t
    <3>1. pc'[s] = pc[s]
      BY <1>0, <1>3, <2>2 DEF Lock, Goto, TypeOK
    <3> QED BY <1>0, <2>0, <3>1, Still DEF message
  <2> QED BY <2>1, <2>2
<1>4. ASSUME NEW t \in Threads,
             \/ PrintHeader(t) \/ PrintUe(t) \/ PrintRecord(t) \/ NextData(t) \/ NextUe(t)
             \/ CountUp(t) \/ Unlock(t)
      PROVE  RInv'
  <2>1. /\ pc[t] \in Inside /\ inbox' = inbox
        /\ \A s \in Threads : s # t => /\ pc'[s] = pc[s] /\ ind'[s] = ind[s]
                                      /\ lat'[s] = lat[s]
    BY <1>0, <1>4 DEF PrintHeader, PrintUe, PrintRecord, NextData, NextUe, CountUp, Unlock,
                      Goto, Inside, Printing, TypeOK
  <2>2. ROf(t)'
    <3>1. CASE PrintHeader(t)
      BY <3>1, HeaderStep
    <3>2. CASE PrintUe(t)
      BY <3>2, UeStep
    <3>3. CASE PrintRecord(t)
      BY <3>3, RecordStep
    <3>4. CASE NextData(t)
      BY <3>4, DataStep
    <3>5. CASE NextUe(t)
      BY <3>5, UeDone
    <3>6. CASE CountUp(t) \/ Unlock(t)
      <4>1. pc[t] # "idle" /\ pc'[t] \in {"unlock", "idle"} /\ UNCHANGED <<ind, lat>>
        BY <1>0, <3>6 DEF CountUp, Unlock, Goto, TypeOK
      <4>2. LatencyKept(t)'
        BY <1>0, <2>1, <4>1 DEF LatencyKept, message
      <4> QED BY <4>1, <4>2, Outside DEF Printing
    <3> QED BY <1>4, <3>1, <3>2, <3>3, <3>4, <3>5, <3>6
  <2> QED BY <2>1, <2>2, OthersOutside DEF RInv
<1>5. ASSUME ProcessEnds \/ UNCHANGED vars PROVE RInv'
  <2> SUFFICES ASSUME NEW s \in Threads PROVE ROf(s)'
    BY DEF RInv
  <2>1. /\ UNCHANGED <<inbox, pc, ind, lat, cur, counter, log>>
        /\ proc' = proc \/ proc' # "up"
    BY <1>5 DEF ProcessEnds, vars
  <2> QED BY <1>0, <2>1, Still DEF message
<1> QED BY <1>1, <1>2, <1>3, <1>4, <1>5 DEF Next, ThreadStep, Ended

-----------------------------------------------------------------------------
\* Every number below the counter is that of one header, and at most one header
\* is unfinished.
Numbering ==
    /\ \A p, q \in Headers : log[p].num = log[q].num => p = q
    /\ \A n \in 1..counter - 1 : HeaderNumber(n) \in Headers /\ log[HeaderNumber(n)].num = n
    /\ \A p \in Unfinished : Unfinished = {p} /\ p \in Headers /\ log[p].num = counter
    /\ \A p \in Headers : log[p].num \in 1..counter

LEMMA IInvNumbering == IInv => Numbering
<1> SUFFICES ASSUME IInv PROVE Numbering
  OBVIOUS
<1>1. \A p \in Headers : p \in 1..Len(log) /\ log[p].num \in Nat
  BY Typed DEF IInv, Headers
<1>2. ASSUME NEW p \in Headers, NEW q \in Headers, log[p].num = log[q].num PROVE p = q
  <2>1. ~(p < q) /\ ~(q < p)
    BY <1>1, <1>2 DEF IInv, NumberedInOrder
  <2> QED BY <1>1, <2>1
<1>3. ASSUME NEW n \in 1..counter - 1
      PROVE  HeaderNumber(n) \in Headers /\ log[HeaderNumber(n)].num = n
  <2>1. \E p \in Headers : log[p].num = n
    BY DEF IInv, NumbersUsed
  <2> QED BY <2>1 DEF HeaderNumber
<1>4. ASSUME NEW p \in Unfinished
      PROVE  Unfinished = {p} /\ p \in Headers /\ log[p].num = counter
  BY <1>2 DEF Unfinished
<1>5. \A p \in Headers : log[p].num \in 1..counter
  BY <1>1 DEF IInv, TypeOK, NumbersUsed
<1> QED BY <1>2, <1>3, <1>4, <1>5 DEF Numbering

LEMMA NextNumbering == IInv' => Numbering'
BY IInvNumbering, PTL

\* Printing more lines of an indication reports nothing yet.
LEMMA MoreLines ==
    ASSUME IInv, Numbering, Numbering', NEW y \in Seq(Line), log' = log \o y, counter' = counter,
           Unfinished # {}
    PROVE  reported' = reported /\ finished' = finished
<1>1. log \in Seq(Line) /\ Len(log) \in Nat
  BY DEF IInv, TypeOK
<1>2. Len(log') >= Len(log) /\ Len(log') \in Nat /\ \A p \in 1..Len(log) : log'[p] = log[p]
  BY <1>1
<1>3. \A p \in Headers : p \in Headers' /\ log'[p] = log[p] /\ p \in 1..Len(log)
  BY <1>1, <1>2 DEF Headers
<1>4. ASSUME NEW n \in 1..counter - 1
      PROVE  log'[HeaderNumber(n)'] = log[HeaderNumber(n)]
  <2>1. HeaderNumber(n) \in Headers /\ log[HeaderNumber(n)].num = n
    BY DEF Numbering
  <2>2. HeaderNumber(n)' \in Headers' /\ log'[HeaderNumber(n)'].num = n
    BY DEF Numbering
  <2>3. HeaderNumber(n)' = HeaderNumber(n)
    <3>1. \A p, q \in Headers' : log'[p].num = log'[q].num => p = q
      BY DEF Numbering
    <3>2. PICK p, q : p = HeaderNumber(n) /\ q = HeaderNumber(n)'
      OBVIOUS
    <3>3. p \in Headers' /\ q \in Headers' /\ log'[p].num = log'[q].num
      BY <1>3, <2>1, <2>2, <3>2
    <3> QED BY <3>1, <3>2, <3>3
  <2> QED BY <1>3, <2>1, <2>3
<1>5. reported' = reported
  BY <1>4 DEF reported
<1>6. PICK p \in Unfinished : Unfinished = {p}
  BY DEF Numbering
<1>7. p \in Unfinished'
  BY <1>3 DEF Unfinished
<1>8. Unfinished' = {p}
  BY <1>7 DEF Numbering
<1>9. p \in 1..Len(log)
  BY <1>3 DEF Unfinished
<1>10. finished = SubSeq(log, 1, p - 1)
  BY <1>6 DEF finished
<1>11. finished' = SubSeq(log', 1, p - 1)
  BY <1>8 DEF finished
<1>12. SubSeq(log', 1, p - 1) = SubSeq(log, 1, p - 1)
  <2>1. CASE p = 1
    <3>1. p - 1 = 0
      BY <2>1
    <3> QED BY <3>1, SubSeqEmpty
  <2>2. CASE p # 1
    <3>1. 1 \in 1..Len(log) /\ p - 1 \in 1..Len(log)
      BY <1>1, <1>9, <2>2
    <3>2. SubSeq(log \o y, 1, p - 1) = SubSeq(log, 1, p - 1)
      BY <1>1, <3>1, SubSeqOfConcat1
    <3> QED BY <3>2
  <2> QED BY <2>1, <2>2
<1> QED BY <1>5, <1>10, <1>11, <1>12

\* While a thread prints, its header is unfinished; while none does, no header is.
LEMMA UnfinishedWhilePrinting ==
    ASSUME IInv
    PROVE  Unfinished # {} <=> \E t \in Threads : pc[t] \in Printing
BY DEF IInv, NumbersUsed, Unfinished

\* A header begins a report, and reports nothing yet.
LEMMA NewHeader ==
    ASSUME IInv, Numbering, IInv', Numbering', NEW t \in Threads, PrintHeader(t)
    PROVE  reported' = reported /\ finished' = finished
<1>1. /\ pc[t] = "header" /\ pc'[t] = "ue" /\ counter' = counter
      /\ log' = Append(log, Header(ind[t], counter, lat[t]))
  BY DEF PrintHeader, Goto, IInv, TypeOK
<1>2. PICK h : h = Header(ind[t], counter, lat[t])
  OBVIOUS
<1>3. log \in Seq(Line) /\ Len(log) \in Nat /\ h.kind = "header" /\ h.num = counter
  BY <1>2 DEF IInv, TypeOK, Header
<1>4. /\ Len(log') = Len(log) + 1 /\ log'[Len(log) + 1] = h
      /\ \A p \in 1..Len(log) : log'[p] = log[p]
  BY <1>1, <1>2, <1>3
<1>5. \A p \in Headers : p \in Headers' /\ log'[p] = log[p]
  BY <1>3, <1>4 DEF Headers
<1>6. Unfinished = {}
  <2>1. \A s \in Threads : pc[s] \notin Printing
    BY <1>1 DEF IInv, HolderInside, Inside, Printing
  <2> QED BY <2>1, UnfinishedWhilePrinting
<1>7. Len(log) + 1 \in Unfinished'
  <2>1. Len(log) + 1 \in Headers'
    BY <1>3, <1>4 DEF Headers
  <2> QED BY <1>1, <1>3, <1>4, <2>1 DEF Unfinished
<1>8. Unfinished' = {Len(log) + 1}
  BY <1>7 DEF Numbering
<1>9. finished' = SubSeq(log', 1, Len(log))
  <2>1. finished' = SubSeq(log', 1, (Len(log) + 1) - 1)
    BY <1>8 DEF finished
  <2> QED BY <1>3, <2>1
<1>10. finished' = finished
  <2>1. SubSeq(log', 1, Len(log)) = log
    BY <1>1, <1>2, <1>3
  <2> QED BY <1>6, <1>9, <2>1 DEF finished
<1>11. ASSUME NEW n \in 1..counter - 1
      PROVE  log'[HeaderNumber(n)'] = log[HeaderNumber(n)]
  <2>1. HeaderNumber(n) \in Headers /\ log[HeaderNumber(n)].num = n
    BY DEF Numbering
  <2>2. HeaderNumber(n)' \in Headers' /\ log'[HeaderNumber(n)'].num = n
    BY <1>1 DEF Numbering
  <2>3. \A p, q \in Headers' : log'[p].num = log'[q].num => p = q
    BY DEF Numbering
  <2>4. HeaderNumber(n)' = HeaderNumber(n)
    <3>1. PICK p, q : p = HeaderNumber(n) /\ q = HeaderNumber(n)'
      OBVIOUS
    <3>2. p \in Headers' /\ q \in Headers' /\ log'[p].num = log'[q].num
      BY <1>5, <2>1, <2>2, <3>1
    <3> QED BY <2>3, <3>1, <3>2
  <2> QED BY <1>5, <2>1, <2>4
<1>12. reported' = reported
  BY <1>1, <1>11 DEF reported
<1> QED BY <1>10, <1>12

\* A sequence with one element more is the old one with that element appended.
LEMMA OneLonger ==
    ASSUME NEW c \in Nat, NEW r \in [1..c -> Nat], NEW q \in [1..(c + 1) -> Nat],
           \A i \in 1..c : q[i] = r[i]
    PROVE  q = Append(r, q[c + 1]) /\ Len(q) = c + 1 /\ Len(r) = c
<1>1. r \in Seq(Nat) /\ Len(r) = c /\ q[c + 1] \in Nat
  <2>1. c + 1 \in 1..(c + 1)
    OBVIOUS
  <2> QED BY <2>1, LenProperties
<1>2. q \in Seq(Nat) /\ Len(q) = c + 1
  BY LenProperties
<1>3. PICK a : a = Append(r, q[c + 1])
  OBVIOUS
<1>4. a \in Seq(Nat) /\ Len(a) = c + 1 /\ a[c + 1] = q[c + 1] /\ \A i \in 1..c : a[i] = r[i]
  BY <1>1, <1>3, AppendProperties
<1>5. \A i \in 1..(c + 1) : q[i] = a[i]
  <2>1. \A i \in 1..(c + 1) : i \in 1..c \/ i = c + 1
    OBVIOUS
  <2> QED BY <1>4, <2>1
<1> QED BY <1>1, <1>2, <1>3, <1>4, <1>5, SeqEqual

\* Counting up reports the indication whole: the log ends with it, and before its
\* header stands what was reported until then.
LEMMA CountsOne ==
    ASSUME IInv, RInv, Numbering, IInv', Numbering', NEW t \in Threads, CountUp(t)
    PROVE  /\ Reports!ReportOne(ind[t]) /\ ind[t] \in 1..Len(inbox)
<1>1. /\ proc = "up" /\ pc[t] = "ue" /\ cur[t].u > Len(message(t).reports)
      /\ counter' = counter + 1 /\ UNCHANGED <<inbox, log, proc>>
  BY DEF CountUp
<1>2. LatencyKept(t) /\ CursorInside(t) /\ EndsWithSoFar(t) /\ PrintableSoFar(t)
  BY DEF RInv, ROf
<1>3. /\ ind[t] \in 1..Len(inbox) /\ message(t) \in Indication /\ cur[t].u - 1 \in Nat
      /\ cur[t].u \in Nat /\ UesSo(t) \in Seq(Word) /\ HeaderSo(t) \in Seq(Word)
  BY <1>1, <1>2, Place DEF Printing
<1>4. Len(message(t).reports) \in Nat /\ cur[t].u - 1 = Len(message(t).reports)
  <2>1. PICK e \in Nat : e = Len(message(t).reports)
    BY <1>3, IndicationTyped
  <2>2. PICK u \in Nat : u = cur[t].u
    BY <1>3
  <2>3. u > e /\ u <= e + 1
    BY <1>1, <1>2, <2>1, <2>2 DEF CursorInside
  <2>4. u - 1 = e
    BY <2>3
  <2> QED BY <2>1, <2>2, <2>4
<1>5. Reports!Printable(message(t))
  <2>1. \A u \in 1..Len(message(t).reports) : u < cur[t].u
    BY <1>1, <1>3, <1>4
  <2> QED BY <1>1, <1>2, <2>1 DEF PrintableSoFar, Reports!Printable, Printing
<1>6. PICK h : h = Header(ind[t], counter, lat[t])
  OBVIOUS
<1>7. SoFar(t) = <<h>> \o UesSo(t)
  <2>1. SoFar(t) = HeaderSo(t) \o UesSo(t) \o << >>
    BY <1>1, SoFarParts
  <2>2. HeaderSo(t) \o UesSo(t) \in Seq(Word)
    BY Zenon, <1>3, Joined
  <2>3. HeaderSo(t) \o UesSo(t) \o << >> = HeaderSo(t) \o UesSo(t)
    BY <2>2
  <2> QED BY <1>6, <2>1, <2>3 DEF HeaderSo
<1>8. SoFar(t) = Reports!Whole(ind[t], counter, message(t))
  BY <1>1, <1>2, <1>4, <1>6, <1>7, SameWords DEF UesSo, LatencyKept, Reports!Whole
<1>9. log \in Seq(Line) /\ Len(log) \in Nat
  BY DEF IInv, TypeOK
<1>10. PICK n \in 0..Len(log) : log = SubSeq(log, 1, n) \o (<<h>> \o UesSo(t))
  BY <1>1, <1>2, <1>7 DEF EndsWithSoFar, Printing
<1>11. n + 1 \in 1..Len(log) /\ log[n + 1] = h
  <2>1. PICK a \in Seq(Line), b \in Seq(Word) :
           a = SubSeq(log, 1, n) /\ Len(a) = n /\ b = UesSo(t)
    <3>1. SubSeq(log, 1, n) \in Seq(Line) /\ Len(SubSeq(log, 1, n)) = n
      BY <1>9
    <3> QED BY Zenon, <1>3, <3>1
  <2>2. log = a \o (<<h>> \o b)
    BY <1>10, <2>1
  <2>3. Len(a \o (<<h>> \o b)) = n + 1 + Len(b) /\ (a \o (<<h>> \o b))[n + 1] = h
    BY <2>1
  <2>4. Len(b) \in Nat
    BY <2>1
  <2> QED BY <2>2, <2>3, <2>4
<1>12. n + 1 \in Unfinished /\ n + 1 \in Headers
  BY <1>6, <1>11 DEF Unfinished, Headers, Header
<1>13. Unfinished = {n + 1} /\ log[n + 1].num = counter /\ log[n + 1].ind = ind[t]
  BY <1>6, <1>11, <1>12 DEF Numbering, Header
<1>14. finished = SubSeq(log, 1, n)
  <2>1. finished = SubSeq(log, 1, (n + 1) - 1)
    BY <1>13 DEF finished
  <2> QED BY <2>1
<1>15. Unfinished' = {}
  <2>1. counter \in Nat /\ Headers' = Headers
    BY <1>1 DEF IInv, TypeOK, Headers
  <2>2. \A p \in Headers : log[p].num # counter + 1
    BY <2>1 DEF Numbering
  <2> QED BY <1>1, <2>1, <2>2 DEF Unfinished
<1>16. finished' = finished \o Reports!Whole(ind[t], counter, message(t))
  BY <1>1, <1>7, <1>8, <1>10, <1>14, <1>15 DEF finished
<1>17. counter \in Nat /\ counter >= 1 /\ Headers' = Headers
  BY <1>1 DEF IInv, TypeOK, NumbersUsed, Headers
<1>18. ASSUME NEW i \in 1..counter - 1
       PROVE  HeaderNumber(i)' = HeaderNumber(i) /\ reported[i] # ind[t]
  <2>1. HeaderNumber(i) \in Headers /\ log[HeaderNumber(i)].num = i
    BY DEF Numbering
  <2>2. HeaderNumber(i)' = HeaderNumber(i)
    BY <1>1, <1>17 DEF HeaderNumber
  <2>3. HeaderNumber(i) # n + 1
    BY <1>13, <1>17, <2>1
  <2>4. log[HeaderNumber(i)].ind # log[n + 1].ind
    <3>1. PICK p : p = HeaderNumber(i)
      OBVIOUS
    <3>2. p < n + 1 \/ n + 1 < p
      BY <1>9, <2>1, <2>3, <3>1 DEF Headers
    <3> QED BY <1>12, <2>1, <3>1, <3>2 DEF IInv, NumberedInOrder
  <2> QED BY <1>13, <2>2, <2>4 DEF reported
<1>19. PICK c \in Nat : c = counter - 1 /\ counter = c + 1
  BY <1>17
<1>20. log'[HeaderNumber(c + 1)'].ind = ind[t]
  <2>1. c + 1 \in 1..counter' - 1
    BY <1>1, <1>19
  <2>2. HeaderNumber(c + 1)' \in Headers' /\ log'[HeaderNumber(c + 1)'].num = c + 1
    BY <2>1 DEF Numbering
  <2>3. \A p, q \in Headers' : log'[p].num = log'[q].num => p = q
    BY DEF Numbering
  <2>4. n + 1 \in Headers' /\ log'[n + 1].num = c + 1
    BY <1>1, <1>12, <1>13, <1>17, <1>19
  <2>5. HeaderNumber(c + 1)' = n + 1
    BY Zenon, <2>2, <2>3, <2>4
  <2> QED BY <1>1, <1>13, <2>5
<1>21. /\ reported' = Append(reported, ind[t])
       /\ Len(reported') = counter /\ Len(reported) = counter - 1
  <2>1. reported = [i \in 1..c |-> log[HeaderNumber(i)].ind]
    BY <1>19 DEF reported
  <2>2. reported' = [i \in 1..(c + 1) |-> log'[HeaderNumber(i)'].ind]
    <3>1. counter' - 1 = c + 1
      BY <1>1, <1>19
    <3> QED BY <3>1 DEF reported
  <2>3. \A i \in 1..c : log'[HeaderNumber(i)'].ind = reported[i]
    BY <1>1, <1>18, <1>19, <2>1
  <2>4. \A p \in Headers : log[p].ind \in Nat
    BY Typed DEF IInv, Headers
  <2>5. \A i \in 1..(c + 1) : log'[HeaderNumber(i)'].ind \in Nat
    <3> SUFFICES ASSUME NEW i \in 1..(c + 1) PROVE log'[HeaderNumber(i)'].ind \in Nat
      OBVIOUS
    <3>1. i \in 1..counter' - 1
      BY <1>1, <1>19
    <3>2. HeaderNumber(i)' \in Headers'
      BY <3>1 DEF Numbering
    <3> QED BY <1>1, <1>17, <2>4, <3>2
  <2>6. \A i \in 1..c : log[HeaderNumber(i)].ind \in Nat
    <3> SUFFICES ASSUME NEW i \in 1..c PROVE log[HeaderNumber(i)].ind \in Nat
      OBVIOUS
    <3>1. HeaderNumber(i) \in Headers
      BY <1>19 DEF Numbering
    <3> QED BY <2>4, <3>1
  <2>7. PICK r \in [1..c -> Nat] : r = reported
    BY <2>1, <2>6
  <2>8. PICK q \in [1..(c + 1) -> Nat] : q = reported'
    BY <2>2, <2>5
  <2>9. \A i \in 1..c : q[i] = r[i]
    BY <2>2, <2>3, <2>7, <2>8
  <2>10. q[c + 1] = ind[t]
    <3>1. c + 1 \in 1..(c + 1)
      OBVIOUS
    <3> QED BY <1>20, <2>2, <2>8, <3>1
  <2>11. q = Append(r, q[c + 1]) /\ Len(q) = c + 1 /\ Len(r) = c
    BY <2>9, OneLonger
  <2> QED BY <1>19, <2>7, <2>8, <2>10, <2>11
<1>22. \A i \in 1..Len(reported) : reported[i] # ind[t]
  BY <1>18, <1>21
<1>23. finished' = finished \o Reports!Whole(ind[t], Len(reported'), inbox[ind[t]])
  BY <1>16, <1>21 DEF message
<1> QED BY <1>1, <1>3, <1>5, <1>21, <1>22, <1>23 DEF Reports!ReportOne, message

-----------------------------------------------------------------------------
\* The callback starts as KpmReports does.
LEMMA InitReports == Init => Reports!Init
<1> SUFFICES ASSUME Init PROVE Reports!Init
  OBVIOUS
<1>1. counter = 1 /\ log = << >> /\ Headers = {} /\ inbox = << >> /\ proc = "up"
  BY DEF Init, Headers
<1>2. reported = << >>
  <2>1. counter - 1 = 0
    BY <1>1
  <2> QED BY <2>1 DEF reported
<1>3. finished = << >>
  BY <1>1 DEF finished, Unfinished
<1> QED BY <1>1, <1>2, <1>3 DEF Reports!Init

\* Every step of the callback is a step of KpmReports or changes nothing there.
LEMMA NextReports ==
    IInv /\ RInv /\ Numbering /\ IInv' /\ Numbering' /\ [Next]_vars
        => [Reports!Next]_(Reports!avars)
<1> SUFFICES ASSUME IInv, RInv, Numbering, IInv', Numbering', [Next]_vars
             PROVE  [Reports!Next]_(Reports!avars)
  OBVIOUS
<1>1. ASSUME UNCHANGED <<log, counter>> PROVE reported' = reported /\ finished' = finished
  <2>1. Headers' = Headers
    BY <1>1 DEF Headers
  <2>2. Unfinished' = Unfinished /\ \A n : HeaderNumber(n)' = HeaderNumber(n)
    BY <1>1, <2>1 DEF Unfinished, HeaderNumber
  <2> QED BY <1>1, <2>2 DEF reported, finished
<1>2. ASSUME UNCHANGED <<inbox, reported, finished>>, proc' = proc
      PROVE  UNCHANGED Reports!avars
  BY <1>2 DEF Reports!avars
<1>3. ASSUME UNCHANGED <<inbox, reported, finished>>, proc = "up", proc' # "up"
      PROVE  Reports!Next
  BY <1>3 DEF Reports!Next, Reports!End
<1>4. ASSUME NEW m \in Messages, Deliver(m) PROVE Reports!Next
  <2>1. Reports!Receive(m)
    BY <1>1, <1>4 DEF Deliver, Reports!Receive
  <2> QED BY <2>1 DEF Reports!Next
<1>5. ASSUME NEW t \in Threads, Enter(t) \/ Lock(t) \/ NextData(t) \/ NextUe(t) \/ Unlock(t)
      PROVE  UNCHANGED Reports!avars
  BY <1>1, <1>2, <1>5 DEF Enter, Lock, NextData, NextUe, Unlock
<1>6. ASSUME NEW t \in Threads, PrintHeader(t) PROVE UNCHANGED Reports!avars
  BY <1>2, <1>6, NewHeader DEF PrintHeader
<1>7. ASSUME NEW t \in Threads, PrintUe(t) PROVE [Reports!Next]_(Reports!avars)
  <2>1. /\ pc[t] = "ue" /\ UNCHANGED <<inbox, counter>> /\ proc = "up"
        /\ log' = log \o print_ue_id(ind[t], cur[t].u, report(t).ue)
        /\ cur[t].u <= Len(message(t).reports)
    BY <1>7 DEF PrintUe
  <2>2. PICK y \in Seq(Line) : y = print_ue_id(ind[t], cur[t].u, report(t).ue)
    <3>1. CursorInside(t)
      BY DEF RInv, ROf
    <3>2. /\ ind[t] \in Nat /\ message(t) \in Indication /\ cur[t].u \in Nat \ {0}
      BY <2>1, <3>1, Place, Typed DEF Printing, IInv
    <3>3. cur[t].u \in 1..Len(message(t).reports)
      BY <2>1, <3>2, IndicationTyped
    <3>4. report(t).ue \in Ue
      BY <3>2, <3>3, IndicationTyped DEF report
    <3> QED BY <3>2, <3>4, UeLinesPlain DEF Plain
  <2>3. Unfinished # {}
    BY <2>1, UnfinishedWhilePrinting DEF Printing
  <2>4. reported' = reported /\ finished' = finished
    BY <2>1, <2>2, <2>3, MoreLines
  <2> QED BY <1>2, <1>3, <2>1, <2>4
<1>8. ASSUME NEW t \in Threads, PrintRecord(t) PROVE [Reports!Next]_(Reports!avars)
  <2>1. pc[t] = "meas" /\ UNCHANGED <<inbox, counter>> /\ proc = "up"
    BY <1>8 DEF PrintRecord
  <2>2. PICK o \in match_meas_type(report(t), cur[t].d, cur[t].j) :
          IF o \in {"aborted", "crashed"}
          THEN proc' = o /\ UNCHANGED <<log, cur>>
          ELSE /\ log' = log \o RecordLines(ind[t], <<cur[t].u, cur[t].d, cur[t].j>>,
                                            o, data(t).incomplete)
               /\ UNCHANGED proc
    BY <1>8 DEF PrintRecord
  <2>3. CASE o \in {"aborted", "crashed"}
    BY <1>1, <1>3, <2>1, <2>2, <2>3
  <2>4. CASE o \notin {"aborted", "crashed"}
    <3>1. PICK y \in Seq(Line) : y = RecordLines(ind[t], <<cur[t].u, cur[t].d, cur[t].j>>, o,
                                                 data(t).incomplete)
      <4>1. ind[t] \in Nat /\ <<cur[t].u, cur[t].d, cur[t].j>> \in Seq(Nat)
        BY <2>1, AtMeasurements
      <4>2. o \in {"value", "not yet supported", "garbage"}
        BY Zenon, <2>4, Outcomes
      <4> QED BY Zenon, <4>1, <4>2, RecordLinesPlain DEF Plain
    <3>2. Unfinished # {}
      BY <2>1, UnfinishedWhilePrinting DEF Printing
    <3>3. log' = log \o y /\ proc' = proc
      BY <2>2, <2>4, <3>1
    <3>4. reported' = reported /\ finished' = finished
      BY <2>1, <3>2, <3>3, MoreLines
    <3> QED BY <1>2, <2>1, <3>3, <3>4
  <2> QED BY <2>3, <2>4
<1>9. ASSUME NEW t \in Threads, CountUp(t) PROVE Reports!Next
  BY <1>9, CountsOne DEF Reports!Next
<1>10. ASSUME ProcessEnds PROVE Reports!Next
  BY <1>1, <1>3, <1>10 DEF ProcessEnds
<1>11. ASSUME UNCHANGED vars PROVE UNCHANGED Reports!avars
  BY <1>1, <1>2, <1>11 DEF vars
<1> QED BY <1>4, <1>5, <1>6, <1>7, <1>8, <1>9, <1>10, <1>11 DEF Next, ThreadStep, Ended

\* The log is a sequence of whole reports, one per indication reported, numbered
\* from one, however the threads interleave and whenever the process ends.
THEOREM Reporting == Spec => WholeReports
<1>1. Init => IInv /\ RInv /\ Reports!Init
  BY InitIInv, InitR, InitReports
<1>2. IInv /\ RInv /\ [Next]_vars => IInv' /\ RInv'
  BY NextIInv, NextR
<1>3. IInv /\ RInv /\ [Next]_vars => [Reports!Next]_(Reports!avars)
  <2>1. IInv => Numbering
    BY IInvNumbering
  <2>2. IInv' => Numbering'
    BY NextNumbering
  <2> QED BY <2>1, <2>2, NextIInv, NextReports
<1> QED BY <1>1, <1>2, <1>3, PTL DEF Spec, WholeReports, Reports!Spec
=============================================================================
