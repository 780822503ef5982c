\* Three qubits on four sites: a line, and a device in two parts.
SPECIFICATION FairSpec
CONSTANTS
    qa = qa
    qb = qb
    qc = qc
    t1 = t1
    t2 = t2
    t3 = t3
    t4 = t4
    Nobody = Nobody
    Qubits = {qa, qb, qc}
    Sites = {t1, t2, t3, t4}
    Programs <- MCPrograms
    Topologies <- MCBoth
INVARIANTS
    LayoutsInverse
    ReadyExact
    RoutedFaithfully
PROPERTIES
    MapsWhenConnected
CHECK_DEADLOCK FALSE
