------------------------ MODULE KpmSubsAlloc_proofs ------------------------
(***************************************************************************)
(* Proofs about the data of a subscription, for report styles with any     *)
(* number of measurements and whichever allocation fails.                  *)
(***************************************************************************)
EXTENDS KpmSubsAlloc, SequenceTheorems, TLAPS

\* The type of kpm_sub.
SubType == [ptrs : SUBSET Block, meas_info_lst_len : 0..MaxMeas,
            labelled : SUBSET (1..MaxMeas), names : Seq(Names)]

\* Inside gen_kpm_subs.
Building == Single \cup PerMeas \cup {"style"}

\* The blocks of the first n measurements.
Meas(n) == PerMeas \X (1..n)

\* What gen_kpm_subs has asserted so far of the definition it works on.
Fit ==
    /\ at \in Building \cup {"send", "answered"} => fn.triggers # << >> /\ fn.triggers[1] = 1
    /\ at \in (Single \ {"ad"}) \cup PerMeas \cup {"send", "answered"} =>
          report_item.type = 4 /\ report_item.fmt = 4
    /\ at \in Building \cup {"send", "answered"} => subs > 0

\* What it has allocated so far.
Built ==
    /\ at = "ad" => sub.ptrs = {}
    /\ at \in {"style", "matching_cond_lst"} => sub.ptrs = {<<"ad", 0>>}
    /\ at = "test_cond" => sub.ptrs = {<<"ad", 0>>, <<"matching_cond_lst", 0>>}
    /\ at = "test_cond_value" =>
          sub.ptrs = {<<"ad", 0>>, <<"matching_cond_lst", 0>>, <<"test_cond", 0>>}
    /\ at = "octet_string_value" =>
          sub.ptrs = {<<"ad", 0>>, <<"matching_cond_lst", 0>>, <<"test_cond", 0>>,
                      <<"test_cond_value", 0>>}
    /\ at = "buf" =>
          sub.ptrs = {<<"ad", 0>>, <<"matching_cond_lst", 0>>, <<"test_cond", 0>>,
                      <<"test_cond_value", 0>>, <<"octet_string_value", 0>>}
    /\ at = "meas_info_lst" =>
          sub.ptrs = {<<"ad", 0>>, <<"matching_cond_lst", 0>>, <<"test_cond", 0>>,
                      <<"test_cond_value", 0>>, <<"octet_string_value", 0>>, <<"buf", 0>>}
    /\ at \in {"name", "send", "answered"} =>
          sub.ptrs = (Single \X {0}) \cup Meas(k - 1)
    /\ at = "label_info_lst" =>
          sub.ptrs = (Single \X {0}) \cup Meas(k - 1) \cup {<<"name", k>>}
    /\ at = "noLabel" =>
          sub.ptrs = (Single \X {0}) \cup Meas(k - 1)
                         \cup {<<"name", k>>, <<"label_info_lst", k>>}

\* How far it is with the measurements.
Listed ==
    /\ at \in Single \cup {"style"} => sub.labelled = {} /\ sub.names = << >>
    /\ at \in PerMeas \cup {"send", "answered"} => sub.meas_info_lst_len = size
    /\ at = "name" => k <= size + 1
    /\ at \in {"label_info_lst", "noLabel"} => k <= size
    /\ at \in {"send", "answered"} => k = size + 1
    /\ at \in {"name", "label_info_lst", "send", "answered"} => sub.labelled = 1..(k - 1)
    /\ at = "noLabel" => sub.labelled = 1..k
    /\ at \in {"name", "send", "answered"} => Len(sub.names) = k - 1
    /\ at \in {"label_info_lst", "noLabel"} => Len(sub.names) = k
    /\ at \in PerMeas \cup {"send", "answered"} =>
          \A j \in 1..Len(sub.names) : sub.names[j] = report_item.names[j]

\* The heap holds what kpm_sub points to, once.
Counted ==
    /\ at \in Building \cup {"send", "answered"} =>
          \A b \in Block : heap[b] = IF b \in sub.ptrs THEN 1 ELSE 0
    /\ at = "idle" => \A b \in Block : heap[b] = 0

IInv == TypeOK /\ Fit /\ Built /\ Listed /\ Counted

----------------------------------------------------------------------------
\* The measurements of the definition being prepared.
LEMMA Sizes == ASSUME TypeOK
               PROVE  /\ size \in Nat /\ size <= MaxMeas
                      /\ report_item.names \in Seq(Names)
BY FunctionsAssumption DEF TypeOK, size, report_item

\* As long as the definition stays, so do its report style and its size.
LEMMA SameItem == ASSUME fn' = fn
                  PROVE  report_item' = report_item /\ size' = size
BY DEF report_item, size

\* The end of the process leaves nothing to keep.
LEMMA EndKeeps == ASSUME IInv, at' \in {"aborted", "crashed"},
                         UNCHANGED <<fn, k, sub, heap, subs>>
                  PROVE  IInv'
BY DEF IInv, TypeOK, Fit, Built, Listed, Counted, Building, Single, PerMeas, report_item

\* A new block keeps the heap in step with the pointers.
LEMMA AllocCounted ==
    ASSUME IInv, at \in Building, NEW b \in Block, b \notin sub.ptrs,
           at' \in Building, heap' = [heap EXCEPT ![b] = @ + 1],
           sub'.ptrs = sub.ptrs \cup {b}
    PROVE  Counted'
<1>1. \A c \in Block : heap[c] = IF c \in sub.ptrs THEN 1 ELSE 0
  BY DEF IInv, Counted
<1>2. heap \in [Block -> Nat]
  BY DEF IInv, TypeOK
<1>3. \A c \in Block : heap'[c] = IF c \in sub'.ptrs THEN 1 ELSE 0
  BY <1>1, <1>2
<1>4. at' # "idle"
  BY DEF Building, Single, PerMeas
<1> QED BY <1>3, <1>4 DEF Counted

\* The invariant holds when the first node comes.
LEMMA InitIInv == Init => IInv
<1> SUFFICES ASSUME Init PROVE IInv
  OBVIOUS
<1>1. TypeOK
  BY BoundsAssumption DEF Init, TypeOK, NullSub
<1>2. Fit /\ Built /\ Listed /\ Counted
  BY DEF Init, Fit, Built, Listed, Counted, Building, Single, PerMeas
<1> QED BY <1>1, <1>2 DEF IInv

\* The allocations of gen_kpm_subs, fill_report_style_4 and filter_predicate.
LEMMA SingleKeeps ==
    ASSUME IInv, AllocAd \/ AllocMatchingCond \/ AllocTestCond \/ AllocTestCondValue
                     \/ AllocOctetString \/ AllocBuf
    PROVE  IInv'
<1>0. TypeOK /\ Fit /\ Built /\ Listed /\ Counted
  BY DEF IInv
<1>e. ASSUME at' = "aborted", UNCHANGED <<fn, k, sub, heap, subs>> PROVE IInv'
  BY <1>e, EndKeeps
<1>a. ASSUME NEW s \in Single, NEW next \in Building, at = s, <<s, 0>> \notin sub.ptrs,
             Allocates(<<s, 0>>, sub), at' = next, UNCHANGED <<fn, k, subs>>
      PROVE  TypeOK' /\ Counted' /\ sub' = [sub EXCEPT !.ptrs = sub.ptrs \cup {<<s, 0>>}]
  <2>1. <<s, 0>> \in Block
    BY DEF Block
  <2>2. sub' = [sub EXCEPT !.ptrs = sub.ptrs \cup {<<s, 0>>}]
    BY <1>a DEF Allocates
  <2>3. heap' = [heap EXCEPT ![<<s, 0>>] = @ + 1]
    BY <1>a DEF Allocates
  <2>4. sub'.ptrs = sub.ptrs \cup {<<s, 0>>}
    BY <1>0, <2>2 DEF TypeOK
  <2>5. Counted'
    BY <1>a, <2>1, <2>3, <2>4, AllocCounted DEF Building
  <2>6. heap' \in [Block -> Nat]
    BY <1>0, <2>1, <2>3 DEF TypeOK
  <2>7. sub' \in [ptrs : SUBSET Block, meas_info_lst_len : 0..MaxMeas,
                 labelled : SUBSET (1..MaxMeas), names : Seq(Names)]
    BY <1>0, <2>1, <2>2 DEF TypeOK
  <2> QED BY <1>0, <1>a, <2>2, <2>5, <2>6, <2>7 DEF TypeOK, Building
<1>1. ASSUME AllocAd PROVE IInv'
  <2>1. at = "ad" /\ UNCHANGED <<fn, k, subs>>
    BY <1>1 DEF AllocAd, Calloc
  <2>2. CASE at' = "aborted" /\ UNCHANGED <<sub, heap>>
    BY <2>1, <2>2, <1>e
  <2>3. CASE Allocates(<<"ad", 0>>, sub) /\ at' = "style"
    <3>1. <<"ad", 0>> \notin sub.ptrs /\ "ad" \in Single /\ "style" \in Building
      BY <1>0, <2>1 DEF Built, Single, Building
    <3>2. TypeOK' /\ Counted' /\ sub' = [sub EXCEPT !.ptrs = sub.ptrs \cup {<<"ad", 0>>}]
      BY <1>a, <2>1, <2>3, <3>1
    <3>3. Fit'
      BY <1>0, <2>1, <2>3 DEF Fit, Building, Single, PerMeas, report_item
    <3>4. Built'
      BY <1>0, <2>1, <2>3, <3>2 DEF Built, TypeOK
    <3>5. Listed'
      BY <1>0, <2>1, <2>3, <3>2 DEF Listed, TypeOK, Single, PerMeas
    <3> QED BY <3>2, <3>3, <3>4, <3>5 DEF IInv
  <2> QED BY <1>1, <2>2, <2>3 DEF AllocAd, Calloc, Ends
<1>2. ASSUME AllocMatchingCond PROVE IInv'
  <2>1. at = "matching_cond_lst" /\ UNCHANGED <<fn, k, subs>>
    BY <1>2 DEF AllocMatchingCond, Calloc
  <2>2. CASE at' = "aborted" /\ UNCHANGED <<sub, heap>>
    BY <2>1, <2>2, <1>e
  <2>3. CASE Allocates(<<"matching_cond_lst", 0>>, sub) /\ at' = "test_cond"
    <3>1. <<"matching_cond_lst", 0>> \notin sub.ptrs /\ "matching_cond_lst" \in Single /\ "test_cond" \in Building
      BY <1>0, <2>1 DEF Built, Single, Building
    <3>2. TypeOK' /\ Counted' /\ sub' = [sub EXCEPT !.ptrs = sub.ptrs \cup {<<"matching_cond_lst", 0>>}]
      BY <1>a, <2>1, <2>3, <3>1
    <3>3. Fit'
      BY <1>0, <2>1, <2>3 DEF Fit, Building, Single, PerMeas, report_item
    <3>4. Built'
      BY <1>0, <2>1, <2>3, <3>2 DEF Built, TypeOK
    <3>5. Listed'
      BY <1>0, <2>1, <2>3, <3>2 DEF Listed, TypeOK, Single, PerMeas
    <3> QED BY <3>2, <3>3, <3>4, <3>5 DEF IInv
  <2> QED BY <1>2, <2>2, <2>3 DEF AllocMatchingCond, Calloc, Ends
<1>3. ASSUME AllocTestCond PROVE IInv'
  <2>1. at = "test_cond" /\ UNCHANGED <<fn, k, subs>>
    BY <1>3 DEF AllocTestCond, Calloc
  <2>2. CASE at' = "aborted" /\ UNCHANGED <<sub, heap>>
    BY <2>1, <2>2, <1>e
  <2>3. CASE Allocates(<<"test_cond", 0>>, sub) /\ at' = "test_cond_value"
    <3>1. <<"test_cond", 0>> \notin sub.ptrs /\ "test_cond" \in Single /\ "test_cond_value" \in Building
      BY <1>0, <2>1 DEF Built, Single, Building
    <3>2. TypeOK' /\ Counted' /\ sub' = [sub EXCEPT !.ptrs = sub.ptrs \cup {<<"test_cond", 0>>}]
      BY <1>a, <2>1, <2>3, <3>1
    <3>3. Fit'
      BY <1>0, <2>1, <2>3 DEF Fit, Building, Single, PerMeas, report_item
    <3>4. Built'
      BY <1>0, <2>1, <2>3, <3>2 DEF Built, TypeOK
    <3>5. Listed'
      BY <1>0, <2>1, <2>3, <3>2 DEF Listed, TypeOK, Single, PerMeas
    <3> QED BY <3>2, <3>3, <3>4, <3>5 DEF IInv
  <2> QED BY <1>3, <2>2, <2>3 DEF AllocTestCond, Calloc, Ends
<1>4. ASSUME AllocTestCondValue PROVE IInv'
  <2>1. at = "test_cond_value" /\ UNCHANGED <<fn, k, subs>>
    BY <1>4 DEF AllocTestCondValue, Calloc
  <2>2. CASE at' = "aborted" /\ UNCHANGED <<sub, heap>>
    BY <2>1, <2>2, <1>e
  <2>3. CASE Allocates(<<"test_cond_value", 0>>, sub) /\ at' = "octet_string_value"
    <3>1. <<"test_cond_value", 0>> \notin sub.ptrs /\ "test_cond_value" \in Single /\ "octet_string_value" \in Building
      BY <1>0, <2>1 DEF Built, Single, Building
    <3>2. TypeOK' /\ Counted' /\ sub' = [sub EXCEPT !.ptrs = sub.ptrs \cup {<<"test_cond_value", 0>>}]
      BY <1>a, <2>1, <2>3, <3>1
    <3>3. Fit'
      BY <1>0, <2>1, <2>3 DEF Fit, Building, Single, PerMeas, report_item
    <3>4. Built'
      BY <1>0, <2>1, <2>3, <3>2 DEF Built, TypeOK
    <3>5. Listed'
      BY <1>0, <2>1, <2>3, <3>2 DEF Listed, TypeOK, Single, PerMeas
    <3> QED BY <3>2, <3>3, <3>4, <3>5 DEF IInv
  <2> QED BY <1>4, <2>2, <2>3 DEF AllocTestCondValue, Calloc, Ends
<1>5. ASSUME AllocOctetString PROVE IInv'
  <2>1. at = "octet_string_value" /\ UNCHANGED <<fn, k, subs>>
    BY <1>5 DEF AllocOctetString, Calloc
  <2>2. CASE at' = "aborted" /\ UNCHANGED <<sub, heap>>
    BY <2>1, <2>2, <1>e
  <2>3. CASE Allocates(<<"octet_string_value", 0>>, sub) /\ at' = "buf"
    <3>1. <<"octet_string_value", 0>> \notin sub.ptrs /\ "octet_string_value" \in Single /\ "buf" \in Building
      BY <1>0, <2>1 DEF Built, Single, Building
    <3>2. TypeOK' /\ Counted' /\ sub' = [sub EXCEPT !.ptrs = sub.ptrs \cup {<<"octet_string_value", 0>>}]
      BY <1>a, <2>1, <2>3, <3>1
    <3>3. Fit'
      BY <1>0, <2>1, <2>3 DEF Fit, Building, Single, PerMeas, report_item
    <3>4. Built'
      BY <1>0, <2>1, <2>3, <3>2 DEF Built, TypeOK
    <3>5. Listed'
      BY <1>0, <2>1, <2>3, <3>2 DEF Listed, TypeOK, Single, PerMeas
    <3> QED BY <3>2, <3>3, <3>4, <3>5 DEF IInv
  <2> QED BY <1>5, <2>2, <2>3 DEF AllocOctetString, Calloc, Ends
<1>6. ASSUME AllocBuf PROVE IInv'
  <2>1. at = "buf" /\ UNCHANGED <<fn, k, subs>>
    BY <1>6 DEF AllocBuf, Calloc
  <2>2. CASE at' = "aborted" /\ UNCHANGED <<sub, heap>>
    BY <2>1, <2>2, <1>e
  <2>3. CASE Allocates(<<"buf", 0>>, sub) /\ at' = "meas_info_lst"
    <3>1. <<"buf", 0>> \notin sub.ptrs /\ "buf" \in Single /\ "meas_info_lst" \in Building
      BY <1>0, <2>1 DEF Built, Single, Building
    <3>2. TypeOK' /\ Counted' /\ sub' = [sub EXCEPT !.ptrs = sub.ptrs \cup {<<"buf", 0>>}]
      BY <1>a, <2>1, <2>3, <3>1
    <3>3. Fit'
      BY <1>0, <2>1, <2>3 DEF Fit, Building, Single, PerMeas, report_item
    <3>4. Built'
      BY <1>0, <2>1, <2>3, <3>2 DEF Built, TypeOK
    <3>5. Listed'
      BY <1>0, <2>1, <2>3, <3>2 DEF Listed, TypeOK, Single, PerMeas
    <3> QED BY <3>2, <3>3, <3>4, <3>5 DEF IInv
  <2> QED BY <1>6, <2>2, <2>3 DEF AllocBuf, Calloc, Ends
<1> QED BY <1>1, <1>2, <1>3, <1>4, <1>5, <1>6

\* The definition is looked at and its report style called.
LEMMA StyleKeeps ==
    ASSUME IInv, (\E f \in Functions : Generate(f)) \/ CallStyle
    PROVE  IInv'
<1>0. TypeOK /\ Fit /\ Built /\ Listed /\ Counted
  BY DEF IInv
<1>1. ASSUME NEW f \in Functions, Generate(f) PROVE IInv'
  <2>1. /\ at = "idle" /\ subs < MaxSubs /\ at' \in {"ad", "aborted"} /\ fn' = f
        /\ sub' = NullSub /\ subs' = subs + 1 /\ k' = k /\ heap' = heap
        /\ at' = "ad" => f.triggers # << >> /\ f.triggers[1] = 1
    BY <1>1 DEF Generate
  <2>2. TypeOK'
    BY <1>0, <2>1, BoundsAssumption DEF TypeOK, NullSub, Single
  <2>3. Fit'
    BY <1>0, <2>1 DEF Fit, TypeOK, Building, Single, PerMeas
  <2>4. Built' /\ Listed'
    BY <2>1 DEF Built, Listed, NullSub, Single, PerMeas
  <2>5. Counted'
    <3>1. sub'.ptrs = {}
      BY <2>1 DEF NullSub
    <3> QED BY <1>0, <2>1, <3>1 DEF Counted
  <2> QED BY <2>2, <2>3, <2>4, <2>5 DEF IInv
<1>2. ASSUME CallStyle PROVE IInv'
  <2>1. at = "style" /\ UNCHANGED <<fn, k, sub, heap, subs>>
    BY <1>2 DEF CallStyle
  <2>2. CASE at' \in {"aborted", "crashed"}
    BY <2>1, <2>2, EndKeeps
  <2>3. CASE at' = "matching_cond_lst" /\ report_item.type = 4 /\ report_item.fmt = 4
    <3>1. TypeOK' /\ Built'
      BY <1>0, <2>1, <2>3 DEF TypeOK, Built, Single
    <3>2. Fit'
      BY <1>0, <2>1, <2>3 DEF Fit, Building, Single, PerMeas, report_item
    <3>3. Listed'
      BY <1>0, <2>1, <2>3 DEF Listed, Single, PerMeas
    <3>4. Counted'
      BY <1>0, <2>1, <2>3 DEF Counted, Building, Single, PerMeas
    <3> QED BY <3>1, <3>2, <3>3, <3>4 DEF IInv
  <2> QED BY <1>2, <2>2, <2>3 DEF CallStyle
<1> QED BY <1>1, <1>2

\* A pointer more in the data of a subscription.
LEMMA AddPointer ==
    ASSUME NEW s \in SubType, NEW b \in Block, Allocates(b, s)
    PROVE  /\ sub' \in SubType /\ sub'.ptrs = s.ptrs \cup {b}
           /\ sub'.meas_info_lst_len = s.meas_info_lst_len
           /\ sub'.labelled = s.labelled /\ sub'.names = s.names
<1>1. sub' = [s EXCEPT !.ptrs = s.ptrs \cup {b}]
  BY DEF Allocates
<1> QED BY <1>1 DEF SubType

\* The loop of fill_act_def_frm_1 and fill_kpm_label.
LEMMA MeasKeeps ==
    ASSUME IInv, AllocMeasInfo \/ CopyName \/ AllocLabel \/ FillKpmLabel \/ EndMeas
    PROVE  IInv'
<1>0. TypeOK /\ Fit /\ Built /\ Listed /\ Counted
  BY DEF IInv
<1>s. size \in Nat /\ size <= MaxMeas /\ report_item.names \in Seq(Names) /\ k \in Nat /\ k > 0
      /\ MaxMeas \in Nat
  BY <1>0, Sizes, BoundsAssumption DEF TypeOK
<1>n. size = Len(report_item.names)
  BY DEF size
<1>e. ASSUME at' \in {"aborted", "crashed"}, UNCHANGED <<fn, k, sub, heap, subs>> PROVE IInv'
  BY <1>e, EndKeeps
<1>h. ASSUME NEW b \in Block, heap' = [heap EXCEPT ![b] = @ + 1] PROVE heap' \in [Block -> Nat]
  BY <1>0, <1>h DEF TypeOK
<1>f. ASSUME fn' = fn, subs' = subs, at \in (Single \ {"ad"}) \cup PerMeas,
             at' \in PerMeas \cup {"send"}
      PROVE  Fit'
  BY <1>0, <1>f DEF Fit, Building, Single, PerMeas, report_item
<1>1. ASSUME AllocMeasInfo PROVE IInv'
  <2>1. at = "meas_info_lst" /\ fn' = fn /\ subs' = subs /\ k' = 1
    BY <1>1 DEF AllocMeasInfo, Calloc
  <2> DEFINE b == <<"meas_info_lst", 0>>
  <2>2. b \in Block /\ b \notin sub.ptrs
    BY <1>0, <2>1 DEF Built, Block, Single
  <2>3. CASE at' = "aborted" /\ UNCHANGED <<sub, heap>>
    <3>1. TypeOK'
      BY <1>0, <1>s, <2>1, <2>3 DEF TypeOK
    <3>2. Fit' /\ Built' /\ Listed' /\ Counted'
      BY <2>3 DEF Fit, Built, Listed, Counted, Building, Single, PerMeas
    <3> QED BY <3>1, <3>2 DEF IInv
  <2>4. CASE Allocates(b, [sub EXCEPT !.meas_info_lst_len = size]) /\ at' = "name"
    <3>1. heap' = [heap EXCEPT ![b] = @ + 1]
      BY <2>4 DEF Allocates
    <3> DEFINE s == [sub EXCEPT !.meas_info_lst_len = size]
    <3>s. /\ s \in SubType /\ s.ptrs = sub.ptrs /\ s.meas_info_lst_len = size
          /\ s.labelled = sub.labelled /\ s.names = sub.names
      BY <1>0, <1>s, SMTT(30) DEF TypeOK, SubType
    <3> HIDE DEF s
    <3>2. /\ sub' \in SubType
          /\ sub'.ptrs = sub.ptrs \cup {b} /\ sub'.meas_info_lst_len = size
          /\ sub'.labelled = sub.labelled /\ sub'.names = sub.names
      BY <2>2, <2>4, AddPointer, <3>s DEF s
    <3>3. TypeOK'
      BY <1>0, <1>s, <1>h, <2>1, <2>2, <2>4, <3>1, <3>2 DEF TypeOK, PerMeas, SubType
    <3>4. Counted'
      BY <2>1, <2>2, <2>4, <3>1, <3>2, AllocCounted DEF Building, Single, PerMeas
    <3>5. Fit'
      BY <1>f, <2>1, <2>4 DEF Single, PerMeas
    <3>6. Built'
      <4>1. sub'.ptrs = Single \X {0}
        BY <1>0, <2>1, <3>2 DEF Built, Single
      <4>2. Meas(k' - 1) = {}
        BY <2>1 DEF Meas
      <4> QED BY <2>4, <4>1, <4>2 DEF Built
    <3>7. Listed'
      BY <1>0, <1>s, <2>1, <2>4, <3>2, SameItem DEF Listed, Single, PerMeas
    <3> QED BY <3>3, <3>4, <3>5, <3>6, <3>7 DEF IInv
  <2> QED BY <1>1, <2>3, <2>4 DEF AllocMeasInfo, Calloc, Ends
<1>2. ASSUME CopyName PROVE IInv'
  <2>1. at = "name" /\ k <= size /\ UNCHANGED <<fn, k, subs>>
    BY <1>2 DEF CopyName, Calloc
  <2> DEFINE b == <<"name", k>>
  <2>2. b \in Block /\ b \notin sub.ptrs
    BY <1>0, <1>s, <2>1 DEF Built, Block, Single, PerMeas, Meas
  <2>3. CASE at' = "aborted" /\ UNCHANGED <<sub, heap>>
    BY <1>e, <2>1, <2>3
  <2>4. CASE Allocates(b, [sub EXCEPT !.names = Append(sub.names, report_item.names[k])])
             /\ at' = "label_info_lst"
    <3>1. heap' = [heap EXCEPT ![b] = @ + 1]
      BY <2>4 DEF Allocates
    <3>2. sub.names \in Seq(Names) /\ report_item.names[k] \in Names
      BY <1>0, <1>s, <1>n, <2>1, ElementOfSeq DEF TypeOK
    <3> DEFINE s == [sub EXCEPT !.names = Append(sub.names, report_item.names[k])]
    <3>s. /\ s \in SubType /\ s.ptrs = sub.ptrs /\ s.labelled = sub.labelled
          /\ s.meas_info_lst_len = sub.meas_info_lst_len
          /\ s.names = Append(sub.names, report_item.names[k])
      <4>1. Append(sub.names, report_item.names[k]) \in Seq(Names)
        BY <3>2
      <4> QED BY <1>0, <4>1 DEF TypeOK, SubType
    <3> HIDE DEF s
    <3>3. /\ sub' \in SubType
          /\ sub'.ptrs = sub.ptrs \cup {b} /\ sub'.meas_info_lst_len = sub.meas_info_lst_len
          /\ sub'.labelled = sub.labelled
          /\ sub'.names = Append(sub.names, report_item.names[k])
      BY <2>2, <2>4, AddPointer, <3>s DEF s
    <3>4. TypeOK'
      BY <1>0, <1>h, <2>1, <2>2, <2>4, <3>1, <3>3 DEF TypeOK, PerMeas, SubType
    <3>5. Counted'
      BY <2>1, <2>2, <2>4, <3>1, <3>3, AllocCounted DEF Building, PerMeas
    <3>6. Fit'
      BY <1>f, <2>1, <2>4 DEF PerMeas
    <3>7. Built'
      BY <1>0, <2>1, <2>4, <3>3 DEF Built
    <3>8. Listed'
      <4>1. Len(sub.names) = k - 1 /\ \A j \in 1..Len(sub.names) : sub.names[j] = report_item.names[j]
        BY <1>0, <2>1 DEF Listed, PerMeas
      <4>2. Len(sub'.names) = k /\ \A j \in 1..k : sub'.names[j] = report_item.names[j]
        BY <1>s, <3>2, <3>3, <4>1
      <4>3. sub'.labelled = 1..(k - 1) /\ sub'.meas_info_lst_len = size
        BY <1>0, <2>1, <3>3 DEF Listed, PerMeas
      <4> QED BY <2>1, <2>4, <4>2, <4>3, SameItem DEF Listed, Single, PerMeas
    <3> QED BY <3>4, <3>5, <3>6, <3>7, <3>8 DEF IInv
  <2> QED BY <1>2, <2>3, <2>4 DEF CopyName, Calloc, Ends
<1>3. ASSUME AllocLabel PROVE IInv'
  <2>1. at = "label_info_lst" /\ k <= size /\ UNCHANGED <<fn, k, subs>>
    BY <1>0, <1>3 DEF AllocLabel, Calloc, Listed
  <2> DEFINE b == <<"label_info_lst", k>>
  <2>2. b \in Block /\ b \notin sub.ptrs
    BY <1>0, <1>s, <2>1 DEF Built, Block, Single, PerMeas, Meas
  <2>3. CASE at' = "aborted" /\ UNCHANGED <<sub, heap>>
    BY <1>e, <2>1, <2>3
  <2>4. CASE Allocates(b, [sub EXCEPT !.labelled = sub.labelled \cup {k}]) /\ at' = "noLabel"
    <3>1. heap' = [heap EXCEPT ![b] = @ + 1]
      BY <2>4 DEF Allocates
    <3> DEFINE s == [sub EXCEPT !.labelled = sub.labelled \cup {k}]
    <3>s. /\ s \in SubType /\ s.ptrs = sub.ptrs /\ s.labelled = sub.labelled \cup {k}
          /\ s.meas_info_lst_len = sub.meas_info_lst_len /\ s.names = sub.names
      <4>1. sub \in SubType /\ sub.labelled \cup {k} \in SUBSET (1..MaxMeas)
        BY <1>0, <1>s, <2>1 DEF TypeOK, SubType
      <4> QED BY <4>1 DEF SubType
    <3> HIDE DEF s
    <3>3. /\ sub' \in SubType
          /\ sub'.ptrs = sub.ptrs \cup {b} /\ sub'.meas_info_lst_len = sub.meas_info_lst_len
          /\ sub'.labelled = sub.labelled \cup {k} /\ sub'.names = sub.names
      BY <2>2, <2>4, AddPointer, <3>s DEF s
    <3>4. TypeOK'
      BY <1>0, <1>h, <2>1, <2>2, <2>4, <3>1, <3>3 DEF TypeOK, PerMeas, SubType
    <3>5. Counted'
      BY <2>1, <2>2, <2>4, <3>1, <3>3, AllocCounted DEF Building, PerMeas
    <3>6. Fit'
      BY <1>f, <2>1, <2>4 DEF PerMeas
    <3>7. Built'
      BY <1>0, <2>1, <2>4, <3>3 DEF Built
    <3>8. Listed'
      <4>1. sub.labelled = 1..(k - 1) /\ sub.meas_info_lst_len = size /\ Len(sub.names) = k
            /\ \A j \in 1..Len(sub.names) : sub.names[j] = report_item.names[j]
        BY <1>0, <2>1 DEF Listed, PerMeas
      <4>2. sub'.labelled = 1..k
        BY <1>s, <3>3, <4>1
      <4> QED BY <2>1, <2>4, <3>3, <4>1, <4>2, SameItem DEF Listed, Single, PerMeas
    <3> QED BY <3>4, <3>5, <3>6, <3>7, <3>8 DEF IInv
  <2> QED BY <1>3, <2>3, <2>4 DEF AllocLabel, Calloc, Ends
<1>4. ASSUME FillKpmLabel PROVE IInv'
  <2>1. at = "noLabel" /\ k <= size /\ UNCHANGED <<fn, subs>>
    BY <1>0, <1>4 DEF FillKpmLabel, Listed
  <2> DEFINE b == <<"noLabel", k>>
  <2>2. b \in Block /\ b \notin sub.ptrs
    BY <1>0, <1>s, <2>1 DEF Built, Block, Single, PerMeas, Meas
  <2>3. CASE at' = "crashed" /\ UNCHANGED <<sub, heap, k>>
    BY <1>e, <2>1, <2>3
  <2>4. CASE Allocates(b, sub) /\ at' = "name" /\ k' = k + 1
    <3>1. heap' = [heap EXCEPT ![b] = @ + 1]
      BY <2>4 DEF Allocates
    <3>3. /\ sub' \in SubType
          /\ sub'.ptrs = sub.ptrs \cup {b} /\ sub'.meas_info_lst_len = sub.meas_info_lst_len
          /\ sub'.labelled = sub.labelled /\ sub'.names = sub.names
      BY <2>2, <2>4, AddPointer, <1>0 DEF TypeOK, SubType
    <3>4. TypeOK'
      <4>1. k' \in 1..MaxMeas + 1
        BY <1>s, <2>1, <2>4 DEF TypeOK
      <4>2. heap' \in [Block -> Nat]
        BY <1>h, <2>2, <3>1
      <4>3. fn' \in Functions /\ subs' \in 0..MaxSubs
        BY <1>0, <2>1 DEF TypeOK
      <4>4. at' \in PerMeas
        BY <2>4 DEF PerMeas
      <4> QED BY <3>3, <4>1, <4>2, <4>3, <4>4 DEF TypeOK, SubType
    <3>5. Counted'
      BY <2>1, <2>2, <2>4, <3>1, <3>3, AllocCounted DEF Building, PerMeas
    <3>6. Fit'
      BY <1>f, <2>1, <2>4 DEF PerMeas
    <3>7. Built'
      <4>1. sub'.ptrs = (Single \X {0}) \cup Meas(k - 1) \cup
                            {<<"name", k>>, <<"label_info_lst", k>>, <<"noLabel", k>>}
        BY <1>0, <2>1, <3>3 DEF Built
      <4>2. 1..(k' - 1) = (1..(k - 1)) \cup {k}
        BY <1>s, <2>4
      <4>3. Meas(k' - 1) = Meas(k - 1) \cup
                               {<<"name", k>>, <<"label_info_lst", k>>, <<"noLabel", k>>}
        BY <4>2 DEF Meas, PerMeas
      <4> QED BY <2>4, <4>1, <4>3 DEF Built
    <3>8. Listed'
      <4>1. sub.labelled = 1..k /\ sub.meas_info_lst_len = size /\ Len(sub.names) = k
            /\ \A j \in 1..Len(sub.names) : sub.names[j] = report_item.names[j]
        BY <1>0, <2>1 DEF Listed, PerMeas
      <4> QED BY <1>s, <2>1, <2>4, <3>3, <4>1, SameItem DEF Listed, Single, PerMeas
    <3> QED BY <3>4, <3>5, <3>6, <3>7, <3>8 DEF IInv
  <2> QED BY <1>4, <2>3, <2>4 DEF FillKpmLabel, Ends
<1>5. ASSUME EndMeas PROVE IInv'
  <2>1. at = "name" /\ k > size /\ at' = "send" /\ UNCHANGED <<fn, k, sub, heap, subs>>
    BY <1>5 DEF EndMeas
  <2>2. TypeOK'
    BY <1>0, <2>1 DEF TypeOK
  <2>3. Fit' /\ Built'
    BY <1>0, <1>f, <2>1 DEF Built, PerMeas
  <2>4. Listed'
    BY <1>0, <1>s, <2>1, SameItem DEF Listed, Single, PerMeas
  <2>5. Counted'
    BY <1>0, <2>1 DEF Counted, Building, PerMeas
  <2> QED BY <2>2, <2>3, <2>4, <2>5 DEF IInv
<1> QED BY <1>1, <1>2, <1>3, <1>4, <1>5

\* What free_kpm_sub_data comes to is all there is.
LEMMA AllReachable == ASSUME IInv, at \in {"send", "answered"}
                      PROVE  Reachable(sub) = sub.ptrs
<1>1. /\ sub.ptrs = (Single \X {0}) \cup (PerMeas \X (1..size))
      /\ sub.meas_info_lst_len = size /\ sub.labelled = 1..size /\ size \in Nat
  BY Sizes DEF IInv, Built, Listed, Meas
<1>2. ASSUME NEW b \in sub.ptrs PROVE b \in Reachable(sub)
  <2>1. CASE b \in Single \X {0}
    BY <1>1, <2>1 DEF Reachable, Single
  <2>2. CASE b \in PerMeas \X (1..size)
    BY <1>1, <2>2 DEF Reachable
  <2> QED BY <1>1, <2>1, <2>2
<1> QED BY <1>2 DEF Reachable

\* The answer of the library and free_kpm_sub_data.
LEMMA FreeKeeps == ASSUME IInv, Answer \/ FreeKpmSubData PROVE IInv'
<1>0. TypeOK /\ Fit /\ Built /\ Listed /\ Counted
  BY DEF IInv
<1>1. ASSUME Answer PROVE IInv'
  <2>1. at = "send" /\ at' \in {"answered", "aborted"} /\ UNCHANGED <<fn, k, sub, heap, subs>>
    BY <1>1 DEF Answer
  <2>2. CASE at' = "aborted"
    BY <2>1, <2>2, EndKeeps
  <2>3. CASE at' = "answered"
    <3>1. TypeOK' /\ Built'
      BY <1>0, <2>1, <2>3 DEF TypeOK, Built
    <3>2. Fit'
      BY <1>0, <2>1, <2>3 DEF Fit, Building, Single, PerMeas, report_item
    <3>3. Listed'
      BY <1>0, <2>1, <2>3, SameItem DEF Listed, Single, PerMeas
    <3>4. Counted'
      BY <1>0, <2>1, <2>3 DEF Counted
    <3> QED BY <3>1, <3>2, <3>3, <3>4 DEF IInv
  <2> QED BY <2>1, <2>2, <2>3
<1>2. ASSUME FreeKpmSubData PROVE IInv'
  <2>1. at = "answered" /\ at' = "idle" /\ UNCHANGED <<fn, k, sub, subs>>
    BY <1>2 DEF FreeKpmSubData
  <2>2. \A b \in Block : heap'[b] = 0
    BY <1>0, <1>2, <2>1, AllReachable DEF FreeKpmSubData, Counted
  <2>3. heap' = [b \in Block |-> 0]
    BY <1>2, <2>2 DEF FreeKpmSubData
  <2>4. TypeOK'
    BY <1>0, <2>1, <2>3 DEF TypeOK
  <2>5. Fit' /\ Built' /\ Listed'
    BY <2>1 DEF Fit, Built, Listed, Building, Single, PerMeas
  <2>6. Counted'
    BY <2>1, <2>2 DEF Counted, Building, Single, PerMeas
  <2> QED BY <2>4, <2>5, <2>6 DEF IInv
<1> QED BY <1>1, <1>2

\* Every step keeps the invariant.
LEMMA NextIInv == IInv /\ [Next]_avars => IInv'
<1> SUFFICES ASSUME IInv, [Next]_avars PROVE IInv'
  OBVIOUS
<1>1. CASE UNCHANGED avars
  <2>1. UNCHANGED <<at, fn, k, sub, heap, subs>>
    BY <1>1 DEF avars
  <2>2. TypeOK' /\ Fit' /\ Built' /\ Listed' /\ Counted'
    BY <2>1 DEF IInv, TypeOK, Fit, Built, Listed, Counted, report_item, size
  <2> QED BY <2>2 DEF IInv
<1>2. CASE Next
  BY <1>1, <1>2, SingleKeeps, StyleKeeps, MeasKeeps, FreeKeeps DEF Next, Done
<1> QED BY <1>1, <1>2

LEMMA InvariantHolds == Spec => []IInv
BY InitIInv, NextIInv, PTL DEF Spec

----------------------------------------------------------------------------
\* TypeOK of gen_kpm_subs and the functions it calls.
THEOREM TypeCorrect == Spec => []TypeOK
<1>1. IInv => TypeOK
  BY DEF IInv
<1> QED BY <1>1, InvariantHolds, PTL

\* gen_kpm_subs and free_kpm_sub_data are balanced: the heap is the tree
\* kpm_sub points to, for any number of measurements and of subscriptions.
THEOREM HeapBalanced == Spec => []HeapIsTree
<1>1. IInv => HeapIsTree
  <2> SUFFICES ASSUME IInv PROVE HeapIsTree
    OBVIOUS
  <2>1. at \in Building \cup {"idle", "send", "answered", "aborted", "crashed"}
    BY DEF IInv, TypeOK, Building
  <2> QED BY <2>1, AllReachable DEF IInv, Counted, HeapIsTree
<1> QED BY <1>1, InvariantHolds, PTL

\* report_sm_xapp_api is given a whole subscription: all measurements of the
\* report style, in order, and every block.
THEOREM SentWhole == Spec => []SubscriptionWhole
<1>1. IInv => SubscriptionWhole
  <2> SUFFICES ASSUME IInv, at = "send" PROVE
        /\ sub.names = report_item.names /\ sub.meas_info_lst_len = size
        /\ sub.ptrs = (Single \X {0}) \cup (PerMeas \X (1..size))
    BY DEF SubscriptionWhole
  <2>1. /\ size \in Nat /\ k = size + 1 /\ Len(sub.names) = k - 1
        /\ \A j \in 1..Len(sub.names) : sub.names[j] = report_item.names[j]
        /\ sub.meas_info_lst_len = size /\ sub.ptrs = (Single \X {0}) \cup Meas(k - 1)
    BY Sizes DEF IInv, Listed, Built
  <2>2. sub.names \in Seq(Names) /\ report_item.names \in Seq(Names) /\ size = Len(report_item.names)
    BY Sizes DEF IInv, TypeOK, size
  <2>3. sub.names = report_item.names
    BY <2>1, <2>2, SeqEqual
  <2> QED BY <2>1, <2>3 DEF Meas
<1> QED BY <1>1, InvariantHolds, PTL

----------------------------------------------------------------------------
\* gen_kpm_subs, with all it allocates, is the one block XApp takes it for.
THEOREM OneBlockHolds == Spec => OneBlock
<1> DEFINE phase  == IF at \in Single \cup PerMeas \cup {"style"} THEN "idle" ELSE at
           blocks == IF at \in {"idle", "send", "answered"} THEN heap[<<"ad", 0>>] ELSE 0
           made   == IF at \in Single \cup PerMeas \cup {"style"} THEN subs - 1 ELSE subs
<1>b. <<"ad", 0>> \in Block
  BY DEF Block, Single
<1>g. \A f : Life!gen_kpm_subs(f) = gen_kpm_subs(f)
  BY DEF Life!gen_kpm_subs, Life!get_kpm_act_def, Life!fill_report_style_4,
         gen_kpm_subs, get_kpm_act_def, fill_report_style_4
<1>1. Init => Life!Init
  BY <1>b DEF Init, Life!Init, Single, PerMeas
<1>2. ASSUME IInv, IInv', [Next]_avars PROVE [Life!Next]_Life!lvars
  <2>0. TypeOK /\ Fit /\ Counted /\ Counted'
    BY <1>2 DEF IInv
  <2> USE DEF Life!lvars
  <2>1. ASSUME NEW f \in Functions, Generate(f) PROVE [Life!Next]_Life!lvars
    <3>1. /\ at = "idle" /\ subs < MaxSubs /\ heap' = heap /\ subs' = subs + 1
          /\ heap[<<"ad", 0>>] = 0
          /\ \/ at' = "ad"
             \/ at' = "aborted" /\ (f.triggers = << >> \/ f.triggers[1] # 1)
      BY <1>b, <2>0, <2>1 DEF Generate, Counted
    <3>2. CASE at' = "ad"
      BY <2>0, <3>1, <3>2 DEF TypeOK, Single, PerMeas
    <3>3. CASE at' = "aborted" /\ (f.triggers = << >> \/ f.triggers[1] # 1)
      <4>1. "aborted" \in gen_kpm_subs(f)
        BY <3>3 DEF gen_kpm_subs
      <4>2. phase = "idle" /\ phase' = "aborted" /\ blocks = 0 /\ blocks' = 0
            /\ made = subs /\ made' = subs + 1
        BY <3>1, <3>3 DEF Single, PerMeas
      <4>3. Life!Generate(f)
        BY <1>g, <3>1, <4>1, <4>2 DEF Life!Generate
      <4> QED BY <4>3 DEF Life!Next
    <3> QED BY <3>1, <3>2, <3>3
  <2>2. ASSUME at \in Building, at' \in Building, UNCHANGED subs PROVE UNCHANGED Life!lvars
    BY <2>2 DEF Building, Single, PerMeas
  <2>3. ASSUME at \in Building, at' \notin Building \cup {"idle"}, UNCHANGED <<fn, subs>>,
               at' \in gen_kpm_subs(fn),
               at' = "send" => heap'[<<"ad", 0>>] = 1, at' # "answered"
        PROVE  Life!Next
    <3>1. phase = "idle" /\ phase' = at' /\ blocks = 0 /\ made = subs - 1 /\ made' = subs
          /\ blocks' = IF at' = "send" THEN blocks + 1 ELSE blocks
      BY <2>3 DEF Building, Single, PerMeas
    <3>2. subs \in Nat /\ subs > 0 /\ subs <= MaxSubs /\ fn \in Functions
      BY <2>0, <2>3, BoundsAssumption DEF TypeOK, Fit
    <3>3. Life!Generate(fn)
      <4>1. made < MaxSubs /\ made' = made + 1
        BY <3>1, <3>2, BoundsAssumption
      <4>2. phase' \in Life!gen_kpm_subs(fn)
        BY <1>g, <2>3, <3>1
      <4> HIDE DEF phase, blocks, made
      <4>3. \E o \in Life!gen_kpm_subs(fn) :
               phase' = o /\ blocks' = IF o = "send" THEN blocks + 1 ELSE blocks
        BY <3>1, <4>2
      <4> QED BY <3>1, <4>1, <4>3 DEF Life!Generate, phase, blocks, made
    <3> QED BY <3>2, <3>3 DEF Life!Next
  <2>4. ASSUME at \in Building, at' = "aborted", MemoryRunsOut, UNCHANGED <<fn, subs>>
        PROVE  Life!Next
    <3>1. fn.triggers # << >> /\ fn.triggers[1] = 1
      BY <2>0, <2>4 DEF Fit
    <3>2. "aborted" \in gen_kpm_subs(fn)
      BY <2>4, <3>1 DEF gen_kpm_subs
    <3> QED BY <2>3, <2>4, <3>2 DEF Building, Single, PerMeas
  <2>5. ASSUME AllocAd \/ AllocMatchingCond \/ AllocTestCond \/ AllocTestCondValue
                 \/ AllocOctetString \/ AllocBuf \/ AllocMeasInfo \/ CopyName \/ AllocLabel
        PROVE  [Life!Next]_Life!lvars
    <3>1. /\ at \in Building /\ UNCHANGED <<fn, subs>>
          /\ at' \in Building \/ (at' = "aborted" /\ MemoryRunsOut)
      BY <2>5 DEF AllocAd, AllocMatchingCond, AllocTestCond, AllocTestCondValue, AllocOctetString,
                  AllocBuf, AllocMeasInfo, CopyName, AllocLabel, Calloc, Ends,
                  Building, Single, PerMeas
    <3> QED BY <2>2, <2>4, <3>1
  <2>6. ASSUME CallStyle PROVE [Life!Next]_Life!lvars
    <3>1. at = "style" /\ UNCHANGED <<fn, heap, subs>> /\ fn.triggers # << >> /\ fn.triggers[1] = 1
      BY <2>0, <2>6 DEF CallStyle, Fit, Building
    <3>2. CASE at' = "matching_cond_lst"
      BY <2>2, <3>1, <3>2 DEF Building, Single
    <3>3. CASE at' = "crashed" /\ report_item.type # 4
      <4>1. at' \in gen_kpm_subs(fn)
        BY <3>1, <3>3 DEF gen_kpm_subs, get_kpm_act_def, fill_report_style_4, report_item
      <4> QED BY <2>3, <3>1, <3>3, <4>1 DEF Building, Single, PerMeas
    <3>4. CASE at' = "aborted" /\ report_item.type = 4 /\ report_item.fmt # 4
      <4>1. at' \in gen_kpm_subs(fn)
        BY <3>1, <3>4 DEF gen_kpm_subs, get_kpm_act_def, fill_report_style_4, report_item
      <4> QED BY <2>3, <3>1, <3>4, <4>1 DEF Building, Single, PerMeas
    <3> QED BY <2>6, <3>2, <3>3, <3>4 DEF CallStyle
  <2>7. ASSUME FillKpmLabel PROVE [Life!Next]_Life!lvars
    <3>1. /\ at = "noLabel" /\ UNCHANGED <<fn, subs>>
          /\ at' = "name" \/ (at' = "crashed" /\ MemoryRunsOut)
      BY <2>7 DEF FillKpmLabel, Ends
    <3>2. fn.triggers # << >> /\ fn.triggers[1] = 1 /\ report_item.type = 4 /\ report_item.fmt = 4
      BY <2>0, <3>1 DEF Fit, Building, PerMeas
    <3>3. MemoryRunsOut => "crashed" \in gen_kpm_subs(fn)
      BY <3>2 DEF gen_kpm_subs, get_kpm_act_def, fill_report_style_4, report_item
    <3> QED BY <2>2, <2>3, <3>1, <3>3 DEF Building, Single, PerMeas
  <2>8. ASSUME EndMeas PROVE [Life!Next]_Life!lvars
    <3>1. at = "name" /\ at' = "send" /\ UNCHANGED <<fn, k, sub, heap, subs>>
      BY <2>8 DEF EndMeas
    <3>2. fn.triggers # << >> /\ fn.triggers[1] = 1 /\ report_item.type = 4 /\ report_item.fmt = 4
      BY <2>0, <3>1 DEF Fit, Building, PerMeas
    <3>3. "send" \in gen_kpm_subs(fn)
      BY <3>2 DEF gen_kpm_subs, get_kpm_act_def, fill_report_style_4, report_item
    <3>4. heap'[<<"ad", 0>>] = 1
      <4>1. <<"ad", 0>> \in sub.ptrs
        BY <1>2, <3>1 DEF IInv, Built, Single
      <4> QED BY <1>b, <2>0, <3>1, <4>1 DEF Counted, Building, PerMeas
    <3> QED BY <2>3, <3>1, <3>3, <3>4 DEF Building, Single, PerMeas
  <2>9. ASSUME Answer PROVE [Life!Next]_Life!lvars
    BY <2>9 DEF Answer, Life!Answer, Life!Next, Single, PerMeas
  <2>10. ASSUME FreeKpmSubData PROVE [Life!Next]_Life!lvars
    <3>1. at = "answered" /\ at' = "idle" /\ UNCHANGED <<fn, k, sub, subs>>
      BY <2>10 DEF FreeKpmSubData
    <3>2. <<"ad", 0>> \in sub.ptrs
      BY <1>2, <3>1 DEF IInv, Built, Single
    <3>3. heap[<<"ad", 0>>] = 1 /\ heap'[<<"ad", 0>>] = 0
      BY <1>b, <2>0, <3>1, <3>2 DEF Counted, Building, PerMeas
    <3> QED BY <3>1, <3>3 DEF Life!Free, Life!Next, Single, PerMeas
  <2>11. ASSUME UNCHANGED avars PROVE [Life!Next]_Life!lvars
    BY <2>11 DEF avars
  <2> QED BY <1>2, <2>1, <2>5, <2>6, <2>7, <2>8, <2>9, <2>10, <2>11 DEF Next, Done
<1> QED BY <1>1, <1>2, InvariantHolds, PTL DEF Spec, OneBlock, Life!Spec
=============================================================================
