----------------------------- MODULE MCConvert -----------------------------
(* Instances of Convert for TLC. *)
EXTENDS Convert, TLC

CONSTANTS p1, p2, doc, db, g1, g2

MCProcs == {p1, p2}
MCGraphs == {g1, g2}
Symmetric == Permutations(MCProcs) \cup Permutations(MCGraphs)

MCJobs ==
    {[op |-> "convert", input |-> io[1], output |-> io[2], replace |-> r] :
        io \in {<<doc, db>>, <<db, doc>>}, r \in BOOLEAN}
    \cup {[op |-> "convert", input |-> doc, output |-> doc, replace |-> TRUE]}
    \cup {[op |-> "check", input |-> i] : i \in {doc, db}}
    \cup {[op |-> "export", input |-> db, output |-> doc]}
=============================================================================
