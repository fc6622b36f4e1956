------------------------- MODULE KpmCallback_proofs -------------------------
(***************************************************************************)
(* Proofs about the KPM callback, for any number of threads, indications   *)
(* and lines.                                                              *)
(***************************************************************************)
EXTENDS KpmCallback, TLAPS

\* Lines that a thread prints after the header of indication k.
Plain(lines, k) ==
    /\ lines \in Seq(Line)
    /\ \A i \in 1..Len(lines) : lines[i].ind = k /\ lines[i].kind # "header"

\* A line made by LineOf is a line of its indication.
LEMMA LineTyped ==
    ASSUME NEW k \in Nat, NEW kind \in Kinds, NEW at \in Seq(Nat), kind # "header"
    PROVE  /\ LineOf(k, kind, at) \in Line
           /\ LineOf(k, kind, at).ind = k /\ LineOf(k, kind, at).kind # "header"
BY DEF LineOf, Line

\* No lines are plain lines.
LEMMA PlainNone ==
    ASSUME NEW k PROVE Plain(<< >>, k)
<1>1. << >> \in Seq(Line) /\ Len(<< >>) = 0
  OBVIOUS
<1> QED BY <1>1 DEF Plain

\* One line that is not a header is a plain sequence.
LEMMA PlainOne ==
    ASSUME NEW k \in Nat, NEW kind \in Kinds, NEW at \in Seq(Nat), kind # "header"
    PROVE  Plain(<<LineOf(k, kind, at)>>, k)
<1>1. PICK x : x = LineOf(k, kind, at)
  OBVIOUS
<1>2. x \in Line /\ x.ind = k /\ x.kind # "header"
  BY <1>1, LineTyped
<1>3. <<x>> \in Seq(Line) /\ Len(<<x>>) = 1 /\ <<x>>[1] = x
  BY <1>2
<1>4. Plain(<<x>>, k)
  BY <1>2, <1>3 DEF Plain
<1> QED BY <1>1, <1>4

\* Plain lines after plain lines of the same indication are plain.
LEMMA PlainConcat ==
    ASSUME NEW k, NEW a, NEW b, Plain(a, k), Plain(b, k)
    PROVE  Plain(a \o b, k)
<1>1. /\ a \o b \in Seq(Line) /\ Len(a \o b) = Len(a) + Len(b)
      /\ Len(a) \in Nat /\ Len(b) \in Nat
  BY DEF Plain
<1>2. ASSUME NEW i \in 1..Len(a \o b)
      PROVE  (a \o b)[i].ind = k /\ (a \o b)[i].kind # "header"
  <2>1. CASE i <= Len(a)
    <3>1. (a \o b)[i] = a[i] /\ i \in 1..Len(a)
      BY <2>1, <1>1 DEF Plain
    <3> QED BY <3>1 DEF Plain
  <2>2. CASE i > Len(a)
    <3>1. (a \o b)[i] = b[i - Len(a)] /\ i - Len(a) \in 1..Len(b)
      BY <2>2, <1>1 DEF Plain
    <3> QED BY <3>1 DEF Plain
  <2> QED BY <2>1, <2>2, <1>1
<1> QED BY <1>1, <1>2 DEF Plain

\* print_ue_id prints no header, and only lines of its indication.
LEMMA UeLinesPlain ==
    ASSUME NEW k \in Nat, NEW u \in Nat, NEW ue \in Ue
    PROVE  Plain(print_ue_id(k, u, ue), k)
<1> DEFINE ran == RanUeId(k, u, ue)
<1>0. <<u>> \in Seq(Nat)
  OBVIOUS
<1>1. Plain(ran, k)
  BY <1>0, PlainOne, PlainNone DEF RanUeId, Kinds
<1>2. \A kind \in Kinds : kind # "header" => Plain(<<LineOf(k, kind, <<u>>)>>, k)
  BY <1>0, PlainOne
<1>4. ASSUME ue.type = "GNB", ue.f1ap # NoList
      PROVE  Plain([i \in 1..ue.f1ap |-> LineOf(k, "gNB-CU", <<u, i>>)], k)
  <2> DEFINE f == [i \in 1..ue.f1ap |-> LineOf(k, "gNB-CU", <<u, i>>)]
  <2>1. ue.f1ap \in Nat
    BY <1>4 DEF Ue
  <2>2. ASSUME NEW i \in 1..ue.f1ap
        PROVE  /\ LineOf(k, "gNB-CU", <<u, i>>) \in Line
               /\ LineOf(k, "gNB-CU", <<u, i>>).ind = k
               /\ LineOf(k, "gNB-CU", <<u, i>>).kind # "header"
    <3>1. <<u, i>> \in Seq(Nat)
      BY <2>1
    <3> QED BY <3>1, LineTyped DEF Kinds
  <2>3. PICK g : g = f
    OBVIOUS
  <2>4. g \in [1..ue.f1ap -> Line]
    BY <2>2, <2>3
  <2>5. g \in Seq(Line) /\ Len(g) = ue.f1ap
    BY <2>1, <2>4
  <2>6. \A i \in 1..ue.f1ap : f[i].ind = k /\ f[i].kind # "header"
    BY <2>1, <2>2
  <2> QED BY <2>3, <2>5, <2>6 DEF Plain
<1>5. CASE ue.type = "GNB" /\ ue.f1ap # NoList
  BY <1>1, PlainConcat, <1>4, <1>5 DEF print_ue_id, Kinds
<1>6. CASE ue.type = "GNB" /\ ue.f1ap = NoList
  BY <1>1, <1>2, PlainConcat, <1>6 DEF print_ue_id, Kinds
<1>7. CASE ue.type = "GNB_DU"
  BY <1>1, <1>2, PlainConcat, <1>7 DEF print_ue_id, Kinds
<1>8. CASE ue.type = "GNB_CU_UP"
  BY <1>1, <1>2, PlainConcat, <1>8 DEF print_ue_id, Kinds
<1>9. CASE ue.type \notin {"GNB", "GNB_DU", "GNB_CU_UP"}
  BY <1>2, <1>9 DEF print_ue_id, Kinds
<1> QED BY <1>5, <1>6, <1>7, <1>8, <1>9

\* A record is printed as one of these, or ends the process.
LEMMA Outcomes ==
    ASSUME NEW r, NEW d, NEW j
    PROVE  match_meas_type(r, d, j) \subseteq
             {"value", "not yet supported", "garbage", "aborted", "crashed"}
BY DEF match_meas_type, match_meas_name_type, match_meas_type_id, get_meas_value, int_meas_value,
       real_meas_value

\* The lines of a record that is printed are plain.
LEMMA RecordLinesPlain ==
    ASSUME NEW k \in Nat, NEW at \in Seq(Nat), NEW inc,
           NEW o \in {"value", "not yet supported", "garbage"}
    PROVE  Plain(RecordLines(k, at, o, inc), k)
<1>1. Plain(<<LineOf(k, o, at)>>, k) /\ Plain(<<LineOf(k, "not reliable", at)>>, k)
  BY PlainOne DEF Kinds
<1>2. Plain(IF inc THEN <<LineOf(k, "not reliable", at)>> ELSE << >>, k)
  BY <1>1, PlainNone
<1> QED BY <1>1, <1>2, PlainConcat DEF RecordLines

-----------------------------------------------------------------------------
\* What printing plain lines does to the log: the old lines stay in place, the
\* headers are the same, and the last line belongs to the indication.
LEMMA PrintPlain ==
    ASSUME TypeOK, NEW k, NEW lines, Plain(lines, k), log' = log \o lines,
           Len(log) > 0, log[Len(log)].ind = k
    PROVE  /\ log' \in Seq(Line) /\ Len(log') >= Len(log)
           /\ \A p \in 1..Len(log) : log'[p] = log[p]
           /\ \A p \in Len(log)..Len(log') : log'[p].ind = k
           /\ Headers' = Headers
           /\ BlocksContiguous => BlocksContiguous'
<1>1. log \in Seq(Line) /\ lines \in Seq(Line)
  BY DEF TypeOK, Plain
<1>2. log' \in Seq(Line) /\ Len(log') = Len(log) + Len(lines)
  BY <1>1
<1>3. ASSUME NEW p \in 1..Len(log) PROVE log'[p] = log[p]
  BY <1>1
<1>4. ASSUME NEW p \in Len(log) + 1..Len(log')
      PROVE  log'[p].ind = k /\ log'[p].kind # "header"
  <2>1. log'[p] = lines[p - Len(log)] /\ p - Len(log) \in 1..Len(lines)
    BY <1>1, <1>2
  <2> QED BY <2>1 DEF Plain
<1>5. Len(log) \in Nat /\ Len(log') \in Nat /\ Len(log') >= Len(log)
  BY <1>1, <1>2
<1>6. \A p \in Len(log)..Len(log') : log'[p].ind = k
  BY <1>3, <1>4, <1>5
<1>7. Headers' = Headers
  <2>1. \A p \in 1..Len(log') :
           log'[p].kind = "header" <=> p \in 1..Len(log) /\ log[p].kind = "header"
    BY <1>3, <1>4, <1>5
  <2>2. 1..Len(log) \subseteq 1..Len(log')
    BY <1>5
  <2> QED BY <2>1, <2>2 DEF Headers
<1>8. ASSUME BlocksContiguous PROVE BlocksContiguous'
  <2> SUFFICES ASSUME NEW p \in 1..Len(log'), NEW q \in 1..Len(log'),
                      NEW r \in 1..Len(log'),
                      p < q, q < r, log'[p].ind = log'[r].ind
               PROVE  log'[q].ind = log'[p].ind
    BY DEF BlocksContiguous
  <2>1. CASE q >= Len(log)
    BY <2>1, <1>5, <1>6
  <2>2. CASE q < Len(log) /\ r <= Len(log)
    BY <2>2, <1>3, <1>5, <1>8 DEF BlocksContiguous
  <2>3. CASE q < Len(log) /\ r > Len(log)
    <3>1. log[p].ind = log[Len(log)].ind
      BY <2>3, <1>3, <1>5, <1>6
    <3> QED BY <2>3, <3>1, <1>3, <1>5, <1>8 DEF BlocksContiguous
  <2> QED BY <2>1, <2>2, <2>3, <1>5
<1> QED BY <1>2, <1>3, <1>5, <1>6, <1>7, <1>8

-----------------------------------------------------------------------------
\* The invariant holds before the first indication.
LEMMA InitIInv == Init => IInv
BY CallbackAssumption
   DEF Init, IInv, TypeOK, OneEach, HolderInside, LogOfTaken, NumbersUsed,
       BlocksContiguous, NumberedInOrder, Headers, Inside, Printing, Line

\* What the types say of one line and of one thread's loop indices.
LEMMA Typed ==
    ASSUME TypeOK
    PROVE  /\ \A p \in 1..Len(log) :
                log[p] \in Line /\ log[p].num \in Nat /\ log[p].ind \in Nat
           /\ \A t \in Threads : /\ cur[t].u \in Nat \ {0} /\ cur[t].d \in Nat \ {0}
                                 /\ cur[t].j \in Nat \ {0}
<1>1. \A p \in 1..Len(log) : log[p] \in Line
  BY DEF TypeOK
<1>2. \A l \in Line : l.num \in Nat /\ l.ind \in Nat
  BY DEF Line
<1>3. \A t \in Threads : cur[t] \in [u : Nat \ {0}, d : Nat \ {0}, j : Nat \ {0}]
  BY DEF TypeOK
<1> QED BY <1>1, <1>2, <1>3

\* Moving a thread's loop indices keeps their type.
LEMMA AtTyped ==
    ASSUME TypeOK, NEW t \in Threads,
           NEW u \in Nat \ {0}, NEW d \in Nat \ {0}, NEW j \in Nat \ {0}, At(t, u, d, j)
    PROVE  cur' \in [Threads -> [u : Nat \ {0}, d : Nat \ {0}, j : Nat \ {0}]]
BY DEF At, TypeOK

\* A thread that prints plain lines of its indication keeps the rest of the
\* invariant.
LEMMA PrintingStep ==
    ASSUME IInv, NEW t \in Threads, NEW lines, Plain(lines, ind[t]),
           log' = log \o lines, pc[t] \in Printing, pc'[t] \in Printing,
           \A s \in Threads : s # t => pc'[s] = pc[s],
           UNCHANGED <<inbox, taken, ind, mtx, counter>>
    PROVE  /\ log' \in Seq(Line) /\ OneEach' /\ HolderInside' /\ LogOfTaken'
           /\ NumbersUsed' /\ BlocksContiguous' /\ NumberedInOrder'
<1> USE DEF IInv
<1>1. Len(log) > 0 /\ log[Len(log)].ind = ind[t]
  BY DEF LogOfTaken
<1>2. /\ log' \in Seq(Line) /\ Len(log') >= Len(log)
      /\ \A p \in 1..Len(log) : log'[p] = log[p]
      /\ \A p \in Len(log)..Len(log') : log'[p].ind = ind[t]
      /\ Headers' = Headers /\ BlocksContiguous'
  BY <1>1, PrintPlain
<1>3. Len(log) \in Nat /\ Len(log') \in Nat /\ log \in Seq(Line)
  <2>1. log \in Seq(Line)
    BY DEF TypeOK
  <2> HIDE DEF IInv
  <2> QED BY <1>2, <2>1
<1>4. \A s \in Threads : s # t => pc[s] \notin Inside
  BY DEF HolderInside, Inside
<1>5. OneEach'
  BY DEF OneEach, Printing
<1>6. HolderInside'
  BY DEF HolderInside, Inside
<1>7. LogOfTaken'
  <2>1. \A p \in 1..Len(log') :
           \/ p \in 1..Len(log) /\ log'[p].ind = log[p].ind
           \/ log'[p].ind = ind[t]
    BY <1>2, <1>3
  <2>2. pc[t] # "idle" /\ pc'[t] \notin {"lock", "header"}
    BY DEF Printing
  <2>3. \A p \in 1..Len(log') : log'[p].ind \in 1..taken
    BY <2>1, <2>2 DEF LogOfTaken, OneEach
  <2>4. ASSUME NEW s \in Threads, pc'[s] \in {"lock", "header"}, NEW p \in 1..Len(log')
        PROVE  log'[p].ind # ind[s]
    <3>1. s # t /\ pc[s] \in {"lock", "header"} /\ ind[s] # ind[t]
      BY <2>2, <2>4 DEF OneEach
    <3> QED BY <2>1, <3>1 DEF LogOfTaken
  <2>5. ASSUME NEW s \in Threads, pc'[s] \in Printing
        PROVE  Len(log') > 0 /\ log'[Len(log')].ind = ind[s]
    <3>1. s = t
      BY <1>4, <2>5 DEF Inside
    <3> QED BY <1>1, <1>2, <1>3, <3>1
  <2> QED BY <2>3, <2>4, <2>5 DEF LogOfTaken
<1>8. \A p \in Headers : log'[p] = log[p]
  BY <1>2 DEF Headers
<1>9. NumbersUsed'
  <2>1. \A s \in Threads : pc[s] \in Printing => pc'[s] \in Printing
    OBVIOUS
  <2>2. \A s \in Threads : pc'[s] \in Printing => pc[s] \in Printing
    OBVIOUS
  <2>3. NumbersUsed /\ Headers' = Headers /\ counter' = counter
    BY <1>2
  <2> HIDE DEF IInv
  <2>4. \A p \in Headers : /\ 1 <= log'[p].num /\ log'[p].num <= counter
                           /\ log'[p].num = counter =>
                                 \E s \in Threads : pc'[s] \in Printing
    BY <1>8, <2>1, <2>3 DEF NumbersUsed
  <2>5. \A n \in 1..counter - 1 : \E p \in Headers : log'[p].num = n
    BY <1>8, <2>3 DEF NumbersUsed
  <2>6. \A s \in Threads : pc'[s] \in Printing => \E p \in Headers : log'[p].num = counter
    BY <1>8, <2>2, <2>3 DEF NumbersUsed
  <2>7. counter >= 1
    BY <2>3 DEF NumbersUsed
  <2> QED BY <2>3, <2>4, <2>5, <2>6, <2>7 DEF NumbersUsed
<1>10. NumberedInOrder'
  <2> HIDE DEF IInv
  <2>1. ASSUME NEW p \in Headers, NEW q \in Headers, p < q
        PROVE  log'[p].num < log'[q].num /\ log'[p].ind # log'[q].ind
    <3>1. log'[p] = log[p] /\ log'[q] = log[q]
      BY <1>8
    <3>2. log[p].num < log[q].num /\ log[p].ind # log[q].ind
      BY <2>1 DEF NumberedInOrder, IInv
    <3> QED BY <3>1, <3>2
  <2>2. ASSUME NEW p \in Headers, log'[p].num > 1
        PROVE  \E q \in Headers : q < p /\ log'[q].num = log'[p].num - 1
    <3>1. log'[p] = log[p] /\ log[p].num > 1
      BY <1>8, <2>2
    <3>2. PICK q \in Headers : q < p /\ log[q].num = log[p].num - 1
      BY <3>1 DEF NumberedInOrder, IInv
    <3> QED BY <1>8, <3>1, <3>2
  <2> QED BY <1>2, <2>1, <2>2 DEF NumberedInOrder
<1> QED BY <1>2, <1>5, <1>6, <1>7, <1>9, <1>10

\* Every step keeps the invariant.
LEMMA NextIInv == IInv /\ [Next]_vars => IInv'
<1> SUFFICES ASSUME IInv, [Next]_vars PROVE IInv'
  OBVIOUS
<1> USE CallbackAssumption, WrapAssumption DEF IInv
<1>1. ASSUME NEW m \in Messages, Deliver(m) PROVE IInv'
  BY <1>1 DEF Deliver, TypeOK, OneEach, HolderInside, LogOfTaken, NumbersUsed,
              BlocksContiguous, NumberedInOrder, Headers
<1>2. ASSUME NEW t \in Threads, Enter(t) PROVE IInv'
  <2>0. /\ taken + 1 \in 1..Len(inbox) /\ inbox[taken + 1] \in Messages
        /\ Latency(inbox[taken + 1]) \in Nat
    <3>1. taken + 1 \in 1..Len(inbox)
      BY <1>2 DEF Enter, TypeOK
    <3>2. inbox[taken + 1] \in Messages
      BY <3>1 DEF TypeOK
    <3>3. inbox[taken + 1].age \in Int
      BY <3>2 DEF Indication
    <3> QED BY <3>1, <3>2, <3>3 DEF Latency
  <2>1. TypeOK'
    <3>1. /\ UNCHANGED <<inbox, cur, mtx, counter, log, proc>> /\ taken' = taken + 1
          /\ ind' = [ind EXCEPT ![t] = taken + 1] /\ pc' = [pc EXCEPT ![t] = "lock"]
          /\ lat' = [lat EXCEPT ![t] = Latency(inbox[taken + 1])]
      BY <1>2 DEF Enter, Goto
    <3>2. taken + 1 \in Nat
      BY DEF TypeOK
    <3>3. lat' \in [Threads -> Nat]
      BY <2>0, <3>1 DEF TypeOK
    <3>4. /\ ind' \in [Threads -> Nat]
          /\ pc' \in [Threads -> {"idle", "lock", "header", "ue", "meas", "unlock"}]
      BY <3>1, <3>2 DEF TypeOK
    <3> QED BY <3>1, <3>2, <3>3, <3>4 DEF TypeOK
  <2>2. OneEach'
    <3>1. /\ taken' = taken + 1 /\ inbox' = inbox
          /\ ind' = [ind EXCEPT ![t] = taken + 1]
          /\ \A s \in Threads : s # t => pc'[s] = pc[s]
      BY <1>2 DEF Enter, Goto, TypeOK
    <3>2. \A s \in Threads : s # t => ind'[s] = ind[s]
      BY <3>1 DEF TypeOK
    <3>3. ind'[t] = taken + 1
      BY <3>1 DEF TypeOK
    <3>4. \A s \in Threads : s # t /\ pc[s] # "idle" => ind'[s] \in 1..taken
      BY <3>2 DEF OneEach
    <3>5. taken \in Nat
      BY DEF TypeOK
    <3> QED BY <3>1, <3>2, <3>3, <3>4, <3>5, <2>0 DEF OneEach
  <2>3. HolderInside'
    BY <1>2 DEF Enter, Goto, TypeOK, HolderInside, Inside, Printing
  <2>4. LogOfTaken'
    <3>1. /\ taken' = taken + 1 /\ log' = log
          /\ \A s \in Threads : s # t => pc'[s] = pc[s] /\ ind'[s] = ind[s]
          /\ pc'[t] = "lock" /\ ind'[t] = taken + 1
      BY <1>2 DEF Enter, Goto, TypeOK
    <3>2. taken \in Nat
      BY DEF TypeOK
    <3> QED BY <3>1, <3>2 DEF LogOfTaken, Printing
  <2>5. NumbersUsed'
    BY <1>2 DEF Enter, Goto, TypeOK, NumbersUsed, Headers, Printing
  <2>6. BlocksContiguous' /\ NumberedInOrder'
    BY <1>2 DEF Enter, BlocksContiguous, NumberedInOrder, Headers
  <2> QED BY <2>1, <2>2, <2>3, <2>4, <2>5, <2>6
<1>3. ASSUME NEW t \in Threads, Lock(t) PROVE IInv'
  <2>1. TypeOK'
    BY <1>3 DEF Lock, Goto, TypeOK
  <2>2. OneEach'
    BY <1>3 DEF Lock, Goto, TypeOK, OneEach
  <2>3. HolderInside'
    BY <1>3 DEF Lock, Goto, TypeOK, HolderInside, Inside, Printing
  <2>4. LogOfTaken'
    BY <1>3 DEF Lock, Goto, TypeOK, LogOfTaken, OneEach, Printing
  <2>5. NumbersUsed'
    BY <1>3 DEF Lock, Goto, TypeOK, NumbersUsed, Headers, Printing
  <2>6. BlocksContiguous' /\ NumberedInOrder'
    BY <1>3 DEF Lock, BlocksContiguous, NumberedInOrder, Headers
  <2> QED BY <2>1, <2>2, <2>3, <2>4, <2>5, <2>6
<1>4. ASSUME NEW t \in Threads, PrintHeader(t) PROVE IInv'
  <2> DEFINE h == Header(ind[t], counter, lat[t])
  <2>0. /\ log' = Append(log, h) /\ counter' = counter /\ ind' = ind
        /\ pc[t] = "header" /\ pc'[t] = "ue" /\ taken' = taken
        /\ \A s \in Threads : s # t => pc'[s] = pc[s]
    BY <1>4 DEF PrintHeader, Goto, TypeOK
  <2>a. h \in Line /\ h.ind = ind[t] /\ h.num = counter /\ h.kind = "header"
    <3>1. << >> \in Seq(Nat) /\ "header" \in Kinds
      BY DEF Kinds
    <3> QED BY <3>1 DEF Header, Line, TypeOK
  <2>b. PICK x : x = h
    OBVIOUS
  <2>c. /\ log' \in Seq(Line) /\ Len(log') = Len(log) + 1 /\ Len(log) \in Nat
        /\ \A p \in 1..Len(log) : log'[p] = log[p]
        /\ log'[Len(log) + 1] = x
    BY <2>0, <2>a, <2>b DEF TypeOK
  <2>d. Headers' = Headers \cup {Len(log) + 1}
    BY <2>a, <2>b, <2>c DEF Headers
  <2>e. \A s \in Threads : s # t => pc'[s] \notin Inside
    BY <2>0 DEF HolderInside, Inside
  <2>f. \A p \in Headers : log[p].num \in Nat /\ log[p].num < counter
    <3>1. \A s \in Threads : pc[s] \notin Printing
      BY <2>0, <2>e DEF Inside, Printing
    <3>2. counter \in Nat
      BY DEF TypeOK
    <3> QED BY <3>1, <3>2, Typed DEF NumbersUsed, Headers
  <2>1. TypeOK'
    <3>1. cur' \in [Threads -> [u : Nat \ {0}, d : Nat \ {0}, j : Nat \ {0}]]
      BY <1>4, AtTyped DEF PrintHeader
    <3> QED BY <1>4, <2>c, <3>1 DEF PrintHeader, Goto, TypeOK
  <2>2. OneEach'
    BY <1>4 DEF PrintHeader, Goto, TypeOK, OneEach
  <2>3. HolderInside'
    BY <1>4 DEF PrintHeader, Goto, TypeOK, HolderInside, Inside, Printing
  <2>4. LogOfTaken'
    <3>1. ind[t] \in 1..taken
      BY <2>0 DEF OneEach
    <3>2. \A s \in Threads : s # t /\ pc[s] # "idle" => ind[s] # ind[t]
      BY <2>0 DEF OneEach
    <3>3. \A p \in 1..Len(log') : log'[p].ind \in 1..taken'
      BY <2>0, <2>a, <2>b, <2>c, <3>1 DEF LogOfTaken
    <3>4. ASSUME NEW s \in Threads, pc'[s] \in {"lock", "header"}
          PROVE  \A p \in 1..Len(log') : log'[p].ind # ind'[s]
      BY <2>0, <2>a, <2>b, <2>c, <3>2, <3>4 DEF LogOfTaken
    <3>5. ASSUME NEW s \in Threads, pc'[s] \in Printing
          PROVE  Len(log') > 0 /\ log'[Len(log')].ind = ind'[s]
      BY <2>0, <2>a, <2>b, <2>c, <2>e, <3>5 DEF Inside
    <3> QED BY <3>3, <3>4, <3>5 DEF LogOfTaken
  <2>5. NumbersUsed'
    <3>1. log'[Len(log) + 1].num = counter /\ pc'[t] \in Printing
      BY <2>0, <2>a, <2>b, <2>c DEF Printing
    <3>2. \A p \in Headers : log'[p] = log[p]
      BY <2>c DEF Headers
    <3>3. counter \in Nat
      BY DEF TypeOK
    <3>4. Len(log) + 1 \in Headers' /\ Headers \subseteq Headers'
      BY <2>d
    <3>5. \A p \in Headers' : /\ 1 <= log'[p].num /\ log'[p].num <= counter
                              /\ \E s \in Threads : pc'[s] \in Printing
      BY <2>d, <3>1, <3>2, <3>3 DEF NumbersUsed
    <3>6. \A n \in 1..counter - 1 : \E p \in Headers' : log'[p].num = n
      BY <3>2, <3>4 DEF NumbersUsed
    <3>7. \E p \in Headers' : log'[p].num = counter
      BY <3>1, <3>4
    <3>8. counter >= 1
      BY DEF NumbersUsed
    <3> QED BY <2>0, <3>5, <3>6, <3>7, <3>8 DEF NumbersUsed
  <2>6. BlocksContiguous'
    <3>1. \A p \in 1..Len(log) : log'[p].ind # ind[t]
      BY <2>0, <2>c DEF LogOfTaken
    <3>2. log'[Len(log) + 1].ind = ind[t]
      BY <2>a, <2>b, <2>c
    <3> SUFFICES ASSUME NEW p \in 1..Len(log'), NEW q \in 1..Len(log'),
                        NEW r \in 1..Len(log'), p < q, q < r, log'[p].ind = log'[r].ind
                 PROVE  log'[q].ind = log'[p].ind
      BY DEF BlocksContiguous
    <3>3. p \in 1..Len(log) /\ q \in 1..Len(log)
      BY <2>c
    <3>4. r \in 1..Len(log)
      <4>1. log'[r].ind # ind[t]
        BY <3>1, <3>3
      <4>2. r # Len(log) + 1
        BY <3>2, <4>1
      <4> QED BY <2>c, <4>2
    <3> QED BY <2>c, <3>3, <3>4 DEF BlocksContiguous
  <2>7. NumberedInOrder'
    <3>1. log'[Len(log) + 1].num = counter /\ log'[Len(log) + 1].ind = ind[t]
      BY <2>a, <2>b, <2>c
    <3>2. \A p \in Headers : /\ log'[p] = log[p] /\ p < Len(log) + 1 /\ p \in Nat
                             /\ log'[p].ind # ind[t]
      BY <2>0, <2>c DEF Headers, LogOfTaken
    <3>3. counter \in Nat
      BY DEF TypeOK
    <3>4. counter > 1 => \E p \in Headers : log[p].num = counter - 1
      BY <3>3 DEF NumbersUsed
    <3>5. ASSUME NEW p \in Headers', NEW q \in Headers', p < q
          PROVE  log'[p].num < log'[q].num /\ log'[p].ind # log'[q].ind
      <4>1. p \in Headers
        BY <2>c, <2>d, <3>2, <3>5
      <4>2. CASE q \in Headers
        BY <3>2, <3>5, <4>1, <4>2 DEF NumberedInOrder
      <4>3. CASE q = Len(log) + 1
        BY <2>f, <3>1, <3>2, <4>1, <4>3
      <4> QED BY <2>d, <4>2, <4>3
    <3>6. ASSUME NEW p \in Headers', log'[p].num > 1
          PROVE  \E q \in Headers' : q < p /\ log'[q].num = log'[p].num - 1
      <4>1. CASE p \in Headers
        BY <2>d, <3>2, <3>6, <4>1 DEF NumberedInOrder
      <4>2. CASE p = Len(log) + 1
        BY <2>d, <3>1, <3>2, <3>4, <3>6, <4>2
      <4> QED BY <2>d, <4>1, <4>2
    <3> QED BY <3>5, <3>6 DEF NumberedInOrder
  <2> QED BY <2>1, <2>2, <2>3, <2>4, <2>5, <2>6, <2>7
<1>5. ASSUME NEW t \in Threads, PrintUe(t) PROVE IInv'
  <2> DEFINE lines == print_ue_id(ind[t], cur[t].u, report(t).ue)
  <2>1. /\ log' = log \o lines /\ pc[t] = "ue" /\ pc'[t] = "meas"
        /\ UNCHANGED <<inbox, taken, ind, mtx, counter>>
        /\ \A s \in Threads : s # t => pc'[s] = pc[s]
    BY <1>5 DEF PrintUe, Goto, TypeOK
  <2>2. Plain(lines, ind[t])
    <3>0. ind[t] \in 1..Len(inbox)
      BY <2>1 DEF OneEach, TypeOK
    <3>1. inbox[ind[t]] \in Messages /\ ind[t] \in Nat
      BY <3>0 DEF TypeOK
    <3>2. message(t).reports \in Seq(Report)
      BY <3>1 DEF message, Indication
    <3>3. cur[t].u \in Nat /\ cur[t].u \in 1..Len(message(t).reports)
      BY <1>5, <3>2, Typed DEF PrintUe
    <3>4. report(t) \in Report
      BY <3>2, <3>3 DEF report
    <3>5. report(t).ue \in Ue
      BY <3>4 DEF Report
    <3> QED BY <3>1, <3>3, <3>5, UeLinesPlain
  <2>3. pc[t] \in Printing /\ pc'[t] \in Printing
    BY <2>1 DEF Printing
  <2>4. /\ log' \in Seq(Line) /\ OneEach' /\ HolderInside' /\ LogOfTaken'
        /\ NumbersUsed' /\ BlocksContiguous' /\ NumberedInOrder'
    BY <2>1, <2>2, <2>3, PrintingStep
  <2>5. TypeOK'
    <3>1. cur' \in [Threads -> [u : Nat \ {0}, d : Nat \ {0}, j : Nat \ {0}]]
      BY <1>5, Typed, AtTyped DEF PrintUe
    <3> QED BY <1>5, <2>4, <3>1 DEF PrintUe, Goto, TypeOK
  <2> QED BY <2>4, <2>5
<1>6. ASSUME NEW t \in Threads, PrintRecord(t) PROVE IInv'
  <2>1. /\ pc[t] = "meas" /\ pc' = pc
        /\ UNCHANGED <<inbox, taken, ind, lat, mtx, counter>>
    BY <1>6 DEF PrintRecord
  <2>2. PICK o \in match_meas_type(report(t), cur[t].d, cur[t].j) :
          IF o \in {"aborted", "crashed"}
          THEN proc' = o /\ UNCHANGED <<log, cur>>
          ELSE /\ log' = log \o RecordLines(ind[t], <<cur[t].u, cur[t].d, cur[t].j>>,
                                            o, data(t).incomplete)
               /\ At(t, cur[t].u, cur[t].d, cur[t].j + 1)
               /\ UNCHANGED proc
    BY <1>6 DEF PrintRecord
  <2>3. o \in {"value", "not yet supported", "garbage", "aborted", "crashed"}
    BY Outcomes
  <2>4. ind[t] \in Nat
    BY DEF TypeOK
  <2>5. \E lines : Plain(lines, ind[t]) /\ log' = log \o lines
    <3>1. CASE o \in {"aborted", "crashed"}
      <4>1. log' = log \o << >>
        BY <2>2, <3>1 DEF TypeOK
      <4> QED BY <4>1, <2>4, PlainNone
    <3>2. CASE o \notin {"aborted", "crashed"}
      <4>1. <<cur[t].u, cur[t].d, cur[t].j>> \in Seq(Nat)
        BY Typed
      <4>2. o \in {"value", "not yet supported", "garbage"}
        BY <2>3, <3>2
      <4>3. Plain(RecordLines(ind[t], <<cur[t].u, cur[t].d, cur[t].j>>, o,
                              data(t).incomplete), ind[t])
        BY <2>4, <4>1, <4>2, RecordLinesPlain
      <4> QED BY <2>2, <3>2, <4>3
    <3> QED BY <3>1, <3>2
  <2>6. PICK lines : Plain(lines, ind[t]) /\ log' = log \o lines
    BY <2>5
  <2>7. pc[t] \in Printing /\ pc'[t] \in Printing /\ \A s \in Threads : pc'[s] = pc[s]
    BY <2>1 DEF Printing
  <2>8. /\ log' \in Seq(Line) /\ OneEach' /\ HolderInside' /\ LogOfTaken'
        /\ NumbersUsed' /\ BlocksContiguous' /\ NumberedInOrder'
    BY <2>1, <2>6, <2>7, PrintingStep
  <2>9. TypeOK'
    <3>1. CASE o \in {"aborted", "crashed"}
      BY <2>1, <2>2, <2>8, <3>1 DEF TypeOK
    <3>2. CASE o \notin {"aborted", "crashed"}
      <4>1. cur' \in [Threads -> [u : Nat \ {0}, d : Nat \ {0}, j : Nat \ {0}]]
        <5>1. cur[t].j + 1 \in Nat \ {0}
          BY Typed
        <5> QED BY <2>2, <3>2, <5>1, Typed, AtTyped
      <4> QED BY <2>1, <2>2, <2>8, <3>2, <4>1 DEF TypeOK
    <3> QED BY <3>1, <3>2
  <2> QED BY <2>8, <2>9
<1>7. ASSUME NEW t \in Threads, NextData(t) PROVE IInv'
  <2>1. TypeOK'
    <3>1. cur' \in [Threads -> [u : Nat \ {0}, d : Nat \ {0}, j : Nat \ {0}]]
      BY <1>7, Typed, AtTyped DEF NextData
    <3> QED BY <1>7, <3>1 DEF NextData, Goto, TypeOK
  <2>2. OneEach'
    BY <1>7 DEF NextData, Goto, At, TypeOK, OneEach
  <2>3. HolderInside'
    BY <1>7 DEF NextData, Goto, At, TypeOK, HolderInside, Inside, Printing
  <2>4. LogOfTaken'
    BY <1>7 DEF NextData, Goto, At, TypeOK, LogOfTaken, OneEach, Printing
  <2>5. NumbersUsed'
    BY <1>7 DEF NextData, Goto, At, TypeOK, NumbersUsed, Headers, Printing
  <2>6. BlocksContiguous' /\ NumberedInOrder'
    BY <1>7 DEF NextData, BlocksContiguous, NumberedInOrder, Headers
  <2> QED BY <2>1, <2>2, <2>3, <2>4, <2>5, <2>6
<1>8. ASSUME NEW t \in Threads, NextUe(t) PROVE IInv'
  <2>1. TypeOK'
    <3>1. cur' \in [Threads -> [u : Nat \ {0}, d : Nat \ {0}, j : Nat \ {0}]]
      BY <1>8, Typed, AtTyped DEF NextUe
    <3> QED BY <1>8, <3>1 DEF NextUe, Goto, TypeOK
  <2>2. OneEach'
    BY <1>8 DEF NextUe, Goto, At, TypeOK, OneEach
  <2>3. HolderInside'
    BY <1>8 DEF NextUe, Goto, At, TypeOK, HolderInside, Inside, Printing
  <2>4. LogOfTaken'
    BY <1>8 DEF NextUe, Goto, At, TypeOK, LogOfTaken, OneEach, Printing
  <2>5. NumbersUsed'
    BY <1>8 DEF NextUe, Goto, At, TypeOK, NumbersUsed, Headers, Printing
  <2>6. BlocksContiguous' /\ NumberedInOrder'
    BY <1>8 DEF NextUe, BlocksContiguous, NumberedInOrder, Headers
  <2> QED BY <2>1, <2>2, <2>3, <2>4, <2>5, <2>6
<1>9. ASSUME NEW t \in Threads, CountUp(t) PROVE IInv'
  <2>1. TypeOK'
    BY <1>9 DEF CountUp, Goto, TypeOK
  <2>2. OneEach'
    BY <1>9 DEF CountUp, Goto, TypeOK, OneEach
  <2>3. HolderInside'
    BY <1>9 DEF CountUp, Goto, TypeOK, HolderInside, Inside, Printing
  <2>4. LogOfTaken'
    BY <1>9 DEF CountUp, Goto, TypeOK, LogOfTaken, OneEach, Printing
  <2>5. NumbersUsed'
    <3>1. /\ counter' = counter + 1 /\ log' = log /\ Headers' = Headers
          /\ counter \in Nat /\ pc[t] = "ue" /\ pc'[t] = "unlock"
          /\ \A s \in Threads : pc'[s] \in Printing => pc[s] \in Printing /\ s # t
      BY <1>9 DEF CountUp, Goto, TypeOK, Headers, Printing
    <3>2. \A s \in Threads : pc'[s] \notin Printing
      BY <1>9, <3>1 DEF HolderInside, Inside, Printing
    <3>3. \A p \in Headers : log[p].num \in Nat
      BY Typed DEF Headers
    <3>4. \E p \in Headers : log[p].num = counter
      BY <3>1 DEF NumbersUsed, Printing
    <3> QED BY <3>1, <3>2, <3>3, <3>4 DEF NumbersUsed
  <2>6. BlocksContiguous' /\ NumberedInOrder'
    BY <1>9 DEF CountUp, BlocksContiguous, NumberedInOrder, Headers
  <2> QED BY <2>1, <2>2, <2>3, <2>4, <2>5, <2>6
<1>10. ASSUME NEW t \in Threads, Unlock(t) PROVE IInv'
  <2>1. TypeOK'
    BY <1>10 DEF Unlock, Goto, TypeOK
  <2>2. OneEach'
    BY <1>10 DEF Unlock, Goto, TypeOK, OneEach
  <2>3. HolderInside'
    BY <1>10 DEF Unlock, Goto, TypeOK, HolderInside, Inside, Printing
  <2>4. LogOfTaken'
    BY <1>10 DEF Unlock, Goto, TypeOK, LogOfTaken, OneEach, Printing
  <2>5. NumbersUsed'
    BY <1>10 DEF Unlock, Goto, TypeOK, NumbersUsed, Headers, Printing
  <2>6. BlocksContiguous' /\ NumberedInOrder'
    BY <1>10 DEF Unlock, BlocksContiguous, NumberedInOrder, Headers
  <2> QED BY <2>1, <2>2, <2>3, <2>4, <2>5, <2>6
<1>11. ASSUME ProcessEnds \/ UNCHANGED vars PROVE IInv'
  <2>1. /\ UNCHANGED <<inbox, taken, pc, ind, lat, cur, mtx, counter, log>>
        /\ proc' \in {proc, "ended"}
    BY <1>11 DEF ProcessEnds, vars
  <2>2. TypeOK'
    BY <2>1 DEF TypeOK
  <2>3. OneEach' /\ HolderInside' /\ LogOfTaken' /\ NumbersUsed'
    BY <2>1 DEF OneEach, HolderInside, LogOfTaken, NumbersUsed, Headers
  <2>4. BlocksContiguous' /\ NumberedInOrder'
    BY <2>1 DEF BlocksContiguous, NumberedInOrder, Headers
  <2> QED BY <2>2, <2>3, <2>4
<1> HIDE DEF IInv
<1>12. CASE Next
  BY <1>1, <1>2, <1>3, <1>4, <1>5, <1>6, <1>7, <1>8, <1>9, <1>10, <1>11, <1>12
     DEF Next, ThreadStep, Ended
<1> QED BY <1>11, <1>12

-----------------------------------------------------------------------------
\* A thread in the loop over the UEs has an indication, and if it is at a UE of
\* it, a report.
LEMMA ReportTyped ==
    ASSUME IInv, NEW t \in Threads, pc[t] \in Printing
    PROVE  /\ ind[t] \in 1..Len(inbox) /\ message(t).reports \in Seq(Report)
           /\ cur[t].u <= Len(message(t).reports) => report(t) \in Report
<1>1. ind[t] \in 1..Len(inbox)
  BY DEF IInv, OneEach, TypeOK, Printing
<1>2. message(t).reports \in Seq(Report)
  <2>1. inbox[ind[t]] \in Indication
    BY <1>1, CallbackAssumption DEF IInv, TypeOK
  <2> QED BY <2>1 DEF message, Indication
<1>3. ASSUME cur[t].u <= Len(message(t).reports) PROVE report(t) \in Report
  <2>1. cur[t].u \in 1..Len(message(t).reports)
    BY <1>2, <1>3, Typed DEF IInv
  <2> QED BY <1>2, <2>1 DEF report
<1> QED BY <1>1, <1>2, <1>3

\* A record whose reading ends the process is one that cannot be printed.
LEMMA FatalRecord ==
    ASSUME NEW r \in Report, NEW d \in 1..Len(r.data),
           NEW j \in 1..Len(r.data[d].recs),
           NEW o \in match_meas_type(r, d, j), o \in {"aborted", "crashed"}
    PROVE  \/ j > Len(r.info) \/ r.info[j] = IdType
           \/ r.data[d].recs[j] = "none"
<1> SUFFICES ASSUME ~(j > Len(r.info)), r.info[j] # IdType
             PROVE  r.data[d].recs[j] = "none"
  OBVIOUS
<1>1. o \in get_meas_value(r.info[j], r.data[d].recs[j])
  BY DEF match_meas_type, match_meas_name_type
<1>2. r.data[d].recs[j] \notin {"int", "real"}
  BY <1>1 DEF get_meas_value, int_meas_value, real_meas_value
<1>3. r.data[d].recs[j] \in {"int", "real", "none"}
  <2>1. r.data \in Seq(Data)
    BY DEF Report
  <2>2. r.data[d] \in Data
    BY <2>1
  <2>3. r.data[d].recs \in Seq({"int", "real", "none"})
    BY <2>2 DEF Data
  <2> QED BY <2>3
<1> QED BY <1>2, <1>3

\* The callback starts up and running.
LEMMA InitDeath == Init => AtUe /\ DeathHasCause
BY DEF Init, AtUe, DeathHasCause

\* Every step keeps the causes: only an assertion or a null function of the
\* thread that prints ends the process, and after that nothing moves.
LEMMA NextDeath == IInv /\ AtUe /\ DeathHasCause /\ [Next]_vars => AtUe' /\ DeathHasCause'
<1> SUFFICES ASSUME IInv, AtUe, DeathHasCause, [Next]_vars
             PROVE  AtUe' /\ DeathHasCause'
  OBVIOUS
<1>0. TypeOK /\ OneEach /\ HolderInside
  BY DEF IInv
<1>1. ASSUME NEW m \in Messages, Deliver(m) PROVE AtUe' /\ DeathHasCause'
  <2>1. \A t \in Threads : pc[t] = "meas" => message(t)' = message(t)
    <3> SUFFICES ASSUME NEW t \in Threads, pc[t] = "meas"
                 PROVE  message(t)' = message(t)
      OBVIOUS
    <3>1. ind[t] \in 1..Len(inbox)
      BY ReportTyped DEF Printing
    <3> QED BY <1>0, <1>1, <3>1 DEF Deliver, message, TypeOK
  <2> QED BY <1>1, <2>1 DEF Deliver, AtUe, DeathHasCause
<1>2. ASSUME NEW t \in Threads,
             Enter(t) \/ Lock(t) \/ PrintHeader(t) \/ NextUe(t) \/ CountUp(t) \/ Unlock(t)
      PROVE  AtUe' /\ DeathHasCause'
  <2>1. /\ proc' = "up" /\ inbox' = inbox /\ pc'[t] # "meas"
        /\ \A s \in Threads : s # t => /\ pc'[s] = pc[s] /\ ind'[s] = ind[s]
                                      /\ cur'[s] = cur[s]
    BY <1>0, <1>2 DEF Enter, Lock, PrintHeader, NextUe, CountUp, Unlock, Goto, At, TypeOK
  <2> QED BY <2>1 DEF AtUe, DeathHasCause, message
<1>3. ASSUME NEW t \in Threads, NextData(t) PROVE AtUe' /\ DeathHasCause'
  <2>1. /\ proc' = "up" /\ UNCHANGED <<inbox, pc, ind>> /\ cur'[t].u = cur[t].u
        /\ \A s \in Threads : s # t => cur'[s] = cur[s]
    BY <1>0, <1>3 DEF NextData, At, TypeOK
  <2> QED BY <2>1 DEF AtUe, DeathHasCause, message
<1>4. ASSUME NEW t \in Threads, PrintUe(t) PROVE AtUe' /\ DeathHasCause'
  <2>1. /\ UNCHANGED <<inbox, ind, mtx>> /\ pc[t] = "ue" /\ pc'[t] = "meas"
        /\ cur'[t].u = cur[t].u /\ cur[t].u <= Len(message(t).reports)
        /\ \A s \in Threads : s # t => pc'[s] = pc[s] /\ cur'[s] = cur[s]
        /\ proc' = IF Len(report(t).info) > 0 THEN "up" ELSE "aborted"
    BY <1>0, <1>4 DEF PrintUe, Goto, At, TypeOK
  <2>2. report(t) \in Report /\ report(t)' = report(t) /\ message(t)' = message(t)
    BY <2>1, ReportTyped DEF Printing, report, message
  <2>3. AtUe'
    BY <2>1, <2>2 DEF AtUe, message
  <2>4. CASE Len(report(t).info) > 0
    BY <2>1, <2>3, <2>4 DEF DeathHasCause
  <2>5. CASE ~(Len(report(t).info) > 0)
    <3>1. report(t).info = << >>
      BY <2>2, <2>5 DEF Report
    <3>2. mtx' = t
      BY <1>0, <2>1 DEF HolderInside, Inside, Printing
    <3>3. Unprintable(t)'
      BY <2>1, <2>2, <3>1 DEF Unprintable
    <3> QED BY <2>3, <3>2, <3>3 DEF DeathHasCause
  <2> QED BY <2>4, <2>5
<1>5. ASSUME NEW t \in Threads, PrintRecord(t) PROVE AtUe' /\ DeathHasCause'
  <2>1. /\ pc[t] = "meas" /\ proc = "up" /\ UNCHANGED <<inbox, pc, ind, mtx>>
        /\ cur[t].d <= Len(report(t).data) /\ cur[t].j <= Len(data(t).recs)
    BY <1>5 DEF PrintRecord
  <2>2. PICK o \in match_meas_type(report(t), cur[t].d, cur[t].j) :
          IF o \in {"aborted", "crashed"}
          THEN proc' = o /\ UNCHANGED <<log, cur>>
          ELSE At(t, cur[t].u, cur[t].d, cur[t].j + 1) /\ UNCHANGED proc
    BY <1>5 DEF PrintRecord
  <2>3. CASE o \in {"aborted", "crashed"}
    <3>1. cur' = cur /\ UNCHANGED <<report(t), data(t), message(t)>>
      BY <2>1, <2>2, <2>3 DEF report, data, message
    <3>2. report(t) \in Report
      BY <2>1, ReportTyped DEF AtUe, Printing
    <3>3. cur[t].d \in 1..Len(report(t).data) /\ cur[t].j \in 1..Len(data(t).recs)
      <4>1. report(t).data \in Seq(Data)
        BY <3>2 DEF Report
      <4>2. cur[t].d \in 1..Len(report(t).data)
        BY <1>0, <2>1, <4>1, Typed
      <4>3. data(t) \in Data
        BY <4>1, <4>2 DEF data
      <4>4. data(t).recs \in Seq({"int", "real", "none"})
        BY <4>3 DEF Data
      <4> QED BY <1>0, <2>1, <4>2, <4>4, Typed
    <3>4. \/ cur[t].j > Len(report(t).info) \/ report(t).info[cur[t].j] = IdType
          \/ data(t).recs[cur[t].j] = "none"
      BY <2>3, <3>2, <3>3, FatalRecord DEF data
    <3>5. Unprintable(t)
      BY <2>1, <3>4 DEF Unprintable
    <3>6. mtx = t
      BY <1>0, <2>1 DEF HolderInside, Inside, Printing
    <3>7. Unprintable(t)' /\ mtx' = t
      BY <2>1, <3>1, <3>5, <3>6 DEF Unprintable
    <3>8. AtUe'
      BY <2>1, <3>1 DEF AtUe, message
    <3>9. (\E s \in Threads : mtx = s /\ Unprintable(s))'
      BY <3>7
    <3> QED BY Zenon, <3>8, <3>9 DEF DeathHasCause
  <2>4. CASE o \notin {"aborted", "crashed"}
    <3>1. /\ proc' = "up" /\ cur'[t].u = cur[t].u
          /\ \A s \in Threads : s # t => cur'[s] = cur[s]
      BY <1>0, <2>1, <2>2, <2>4 DEF At, TypeOK
    <3> QED BY <2>1, <3>1 DEF AtUe, DeathHasCause, message
  <2> QED BY <2>3, <2>4
<1>6. ASSUME ProcessEnds \/ UNCHANGED vars PROVE AtUe' /\ DeathHasCause'
  <2>1. UNCHANGED <<inbox, pc, ind, cur, mtx>> /\ proc' \in {proc, "ended"}
    BY <1>6 DEF ProcessEnds, vars
  <2>2. \A t \in Threads : UNCHANGED <<message(t), report(t), data(t)>>
    BY <2>1 DEF message, report, data
  <2>3. AtUe'
    BY <2>1, <2>2 DEF AtUe
  <2>4. \A t \in Threads : Unprintable(t)' = Unprintable(t)
    BY <2>1, <2>2 DEF Unprintable
  <2> QED BY <2>1, <2>3, <2>4 DEF DeathHasCause
<1> QED BY <1>1, <1>2, <1>3, <1>4, <1>5, <1>6 DEF Next, ThreadStep, Ended

-----------------------------------------------------------------------------
\* The states of the callback have the types TypeOK gives them.
THEOREM TypeCorrect == Spec => []TypeOK
<1>1. IInv => TypeOK
  BY DEF IInv
<1> QED BY <1>1, InitIInv, NextIInv, PTL DEF Spec

\* However many threads the library uses, the lines of two indications never
\* mix in the log.
THEOREM Contiguous == Spec => []BlocksContiguous
<1>1. IInv => BlocksContiguous
  BY DEF IInv
<1> QED BY <1>1, InitIInv, NextIInv, PTL DEF Spec

\* The indications are numbered 1, 2, 3... in the order they are printed, each
\* of them once.
THEOREM Numbered == Spec => []NumberedInOrder
<1>1. IInv => NumberedInOrder
  BY DEF IInv
<1> QED BY <1>1, InitIInv, NextIInv, PTL DEF Spec

\* Only an indication that cannot be printed ends the process from within the
\* callback, and only while its thread holds the mutex.
THEOREM DeathsExplained == Spec => []DeathHasCause
<1> QED BY InitIInv, NextIInv, InitDeath, NextDeath, PTL DEF Spec
=============================================================================
