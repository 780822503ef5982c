--------------------------- MODULE MCSabreRouting ---------------------------
(* Small instances of SabreRouting for TLC.                                *)
EXTENDS SabreRouting

CONSTANTS qa, qb, qc, t1, t2, t3, t4

Gate(q, r) == [qubits |-> <<q, r>>, measures |-> FALSE]
Read(q)    == [qubits |-> <<q>>, measures |-> TRUE]

MCNodes == {Gate(qa, qb), Gate(qb, qc), Gate(qc, qa), Read(qa), Read(qb)}

\* A triangle followed by a measurement, and one that closes again.
MCLonger == {<<Gate(qa, qb), Gate(qb, qc), Gate(qc, qa), Read(qa)>>,
             <<Gate(qa, qb), Gate(qc, qa), Gate(qb, qc), Gate(qa, qb)>>}

MCPrograms == {p \in UNION {[1..n -> MCNodes] : n \in 1..3} : WellFormed(p)} \cup MCLonger

MCLine == {{{t1, t2}, {t2, t3}, {t3, t4}}}
MCSplit == {{{t1, t2}, {t3, t4}}}
MCBoth == MCLine \cup MCSplit
=============================================================================
