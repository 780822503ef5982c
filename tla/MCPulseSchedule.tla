--------------------------- MODULE MCPulseSchedule ---------------------------
(* Small instances of PulseSchedule for TLC.                               *)
EXTENDS PulseSchedule

MCDurations == {0, 1, 2}
MCBoundaryTimes == {0, 3}
MCCandidateStarts == 0..6

\* Explicit starts around the tolerance of the boundary and of each other.
MCExplicitTimes == {1, 2, 4}

\* Regions of three blocks carry no explicit start; shorter ones may.
MCInit == Init /\ (Len(blocks) = MaxBlocks => Automatic)

MCSpec == MCInit /\ [][Next]_vars /\ WF_vars(Next)
=============================================================================
