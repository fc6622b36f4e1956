-------------------------- MODULE MCKpmSubsAlloc ---------------------------
EXTENDS KpmSubsAlloc

\* A definition with triggers tr whose first report style has the measurements
\* ns.
Defn(tr, type, fmt, ns) ==
    [triggers |-> tr, styles |-> <<[type |-> type, fmt |-> fmt, names |-> ns]>>]

\* Every list of up to MaxMeas measurements in style 4, and the definitions the
\* xApp cannot serve.
MCNames == {"DRB.UEThpDl", "DRB.UEThpUl"}
MCFunctions ==
    {Defn(<<1>>, 4, 4, ns) : ns \in UNION {[1..n -> MCNames] : n \in 0..MaxMeas}}
    \cup {Defn(<< >>, 4, 4, << >>), Defn(<<2>>, 4, 4, << >>),
          Defn(<<1>>, 1, 1, <<"DRB.UEThpDl">>), Defn(<<1>>, 4, 1, <<"DRB.UEThpDl">>)}
=============================================================================
