--------------------------- MODULE PulseSchedule ---------------------------
(***************************************************************************)
(* The list scheduler of one boundary-free pulse region:                   *)
(* emulator/_core/scheduling.py, schedule_pulse_run and _schedule_starts.  *)
(*                                                                         *)
(* A region is a sequence of pulse blocks in source order.  A block        *)
(* reserves a set of opaque resource claims for its duration.  Without     *)
(* explicit start times the scheduler places blocks by one forward (ASAP)  *)
(* loop and, in ALAP mode, one backward loop over the same horizon; with   *)
(* explicit start times it only validates them.  Each iteration of a loop  *)
(* is one step here.  Times are integer ticks; Epsilon is TIME_EPSILON.    *)
(***************************************************************************)
EXTENDS Integers, Sequences

CONSTANTS
    Claims,          \* resource claims a target may hand out
    Durations,       \* block durations
    ExplicitTimes,   \* explicit start_time values
    BoundaryTimes,   \* times of the preceding execution boundary
    Epsilon,         \* TIME_EPSILON
    NoStart,         \* start_time = None
    MaxBlocks,       \* bound on the length of a region
    CandidateStarts  \* rival start times the optimality properties range over

ASSUME SchedulingAssumption ==
    /\ Durations \subseteq Nat
    /\ ExplicitTimes \subseteq Nat
    /\ BoundaryTimes \subseteq Nat
    /\ CandidateStarts \subseteq Nat
    /\ Epsilon \in Nat
    /\ NoStart \notin Int
    /\ MaxBlocks \in Nat \ {0}

VARIABLES
    blocks,    \* the region, in source order
    boundary,  \* boundary_time
    mode,      \* "ASAP" or "ALAP"
    pc,        \* where schedule_pulse_run is
    cursor,    \* index of the running loop
    asap,      \* relative_asap
    relative,  \* relative, as the ALAP loop fills it
    horizon,   \* latest relative completion
    starts,    \* _ScheduledPulseRun.starts
    end        \* _ScheduledPulseRun.end_time

vars == <<blocks, boundary, mode, pc, cursor, asap, relative, horizon, starts, end>>

Block == [claims : SUBSET Claims, duration : Durations,
          start : ExplicitTimes \cup {NoStart}]

Indices == 1..Len(blocks)

\* _resource_claims_conflict: two blocks name one identical claim.
Conflict(first, second) == blocks[first].claims \cap blocks[second].claims # {}

IsGreatest(m, S) == m \in S /\ \A s \in S : s <= m
IsLeast(m, S)    == m \in S /\ \A s \in S : m <= s

Zeros == [i \in Indices |-> 0]

Init ==
    /\ blocks \in UNION {[1..n -> Block] : n \in 1..MaxBlocks}
    /\ boundary \in BoundaryTimes
    /\ mode \in {"ASAP", "ALAP"}
    /\ pc = "validate"
    /\ cursor = 1
    /\ asap = Zeros /\ relative = Zeros /\ starts = Zeros
    /\ horizon = 0 /\ end = 0

----------------------------------------------------------------------------
(* schedule_pulse_run: explicit starts.                                    *)

Explicit(i) == blocks[i].start # NoStart

\* Faulty variant: the boundary is not consulted.
ExplicitOrderIgnoringBoundary ==
    \A i \in Indices : \A earlier \in 1..(i - 1) :
       Conflict(earlier, i) =>
          blocks[i].start >= blocks[earlier].start + blocks[earlier].duration - Epsilon

\* No explicit start precedes the boundary, none reverses a claim's order.
ExplicitOrderHolds ==
    /\ \A i \in Indices : blocks[i].start >= boundary - Epsilon
    /\ \A later \in Indices : \A earlier \in 1..(later - 1) :
          Conflict(earlier, later) =>
             blocks[later].start >= blocks[earlier].start + blocks[earlier].duration - Epsilon

Reject ==
    /\ pc = "validate"
    /\ \E i \in Indices : Explicit(i)
    /\ ~ ((\A i \in Indices : Explicit(i)) /\ ExplicitOrderHolds)
    /\ pc' = "rejected"
    /\ UNCHANGED <<blocks, boundary, mode, cursor, asap, relative, horizon, starts, end>>

AcceptExplicit ==
    /\ pc = "validate"
    /\ \A i \in Indices : Explicit(i)
    /\ ExplicitOrderHolds
    /\ starts' = [i \in Indices |-> blocks[i].start]
    /\ \E last \in {blocks[i].start + blocks[i].duration : i \in Indices} :
          /\ IsGreatest(last, {blocks[i].start + blocks[i].duration : i \in Indices})
          /\ end' = last
    /\ pc' = "done"
    /\ UNCHANGED <<blocks, boundary, mode, cursor, asap, relative, horizon>>

BeginAutomatic ==
    /\ pc = "validate"
    /\ \A i \in Indices : ~Explicit(i)
    /\ pc' = "asap"
    /\ UNCHANGED <<blocks, boundary, mode, cursor, asap, relative, horizon, starts, end>>

----------------------------------------------------------------------------
(* _schedule_starts: the forward loop, the horizon, the backward loop.     *)

Completion(i) == asap[i] + blocks[i].duration

\* Faulty variants: only the neighbouring block is looked at; all blocks are.
PreviousOnly(i) == {e \in {i - 1} \cap Indices : Conflict(e, i)}
AllEarlier(i)   == 1..(i - 1)
NextOnly(i)     == {l \in {i + 1} \cap Indices : Conflict(i, l)}
AllLater(i)     == (i + 1)..Len(blocks)

\* The blocks a loop iteration waits for: earlier, or later, and conflicting.
Predecessors(i) == {e \in 1..(i - 1) : Conflict(e, i)}
Successors(i)   == {l \in (i + 1)..Len(blocks) : Conflict(i, l)}

PlaceAsap ==
    /\ pc = "asap"
    /\ cursor <= Len(blocks)
    /\ LET ready == {0} \cup {Completion(e) : e \in Predecessors(cursor)} IN
         \E start \in ready :
            /\ IsGreatest(start, ready)
            /\ asap' = [asap EXCEPT ![cursor] = start]
    /\ cursor' = cursor + 1
    /\ UNCHANGED <<blocks, boundary, mode, pc, relative, horizon, starts, end>>

\* Faulty variant: the horizon is the latest start, not the latest end.
CloseHorizonAtLatestStart ==
    /\ pc = "asap"
    /\ cursor > Len(blocks)
    /\ \E last \in {asap[i] : i \in Indices} :
          IsGreatest(last, {asap[i] : i \in Indices}) /\ horizon' = last
    /\ relative' = IF mode = "ASAP" THEN asap ELSE Zeros
    /\ cursor' = IF mode = "ASAP" THEN 0 ELSE Len(blocks)
    /\ pc' = "place"
    /\ UNCHANGED <<blocks, boundary, mode, asap, starts, end>>

CloseHorizon ==
    /\ pc = "asap"
    /\ cursor > Len(blocks)
    /\ \E last \in {Completion(i) : i \in Indices} :
          /\ IsGreatest(last, {Completion(i) : i \in Indices})
          /\ horizon' = last
    /\ relative' = IF mode = "ASAP" THEN asap ELSE Zeros
    /\ cursor' = IF mode = "ASAP" THEN 0 ELSE Len(blocks)
    /\ pc' = "place"
    /\ UNCHANGED <<blocks, boundary, mode, asap, starts, end>>

\* Faulty variant: the backward loop stops before the first block.
PlaceAlapButFirst ==
    /\ pc = "place"
    /\ cursor >= 2
    /\ LET due == {horizon} \cup {relative[l] : l \in Successors(cursor)} IN
         \E latest \in due :
            /\ IsLeast(latest, due)
            /\ relative' = [relative EXCEPT ![cursor] = latest - blocks[cursor].duration]
    /\ cursor' = cursor - 1
    /\ UNCHANGED <<blocks, boundary, mode, pc, asap, horizon, starts, end>>

PlaceAlap ==
    /\ pc = "place"
    /\ cursor >= 1
    /\ LET due == {horizon} \cup {relative[l] : l \in Successors(cursor)} IN
         \E latest \in due :
            /\ IsLeast(latest, due)
            /\ relative' = [relative EXCEPT ![cursor] = latest - blocks[cursor].duration]
    /\ cursor' = cursor - 1
    /\ UNCHANGED <<blocks, boundary, mode, pc, asap, horizon, starts, end>>

Publish ==
    /\ pc = "place"
    /\ cursor = 0
    /\ starts' = [i \in Indices |-> boundary + relative[i]]
    /\ end' = boundary + horizon
    /\ pc' = "done"
    /\ UNCHANGED <<blocks, boundary, mode, cursor, asap, relative, horizon>>

Next ==
    \/ Reject \/ AcceptExplicit \/ BeginAutomatic
    \/ PlaceAsap \/ CloseHorizon \/ PlaceAlap \/ Publish

Spec == Init /\ [][Next]_vars

\* The function is sequential code: it keeps running until it returns.
FairSpec == Spec /\ WF_vars(Next)
----------------------------------------------------------------------------
(* Properties.                                                             *)

TypeOK ==
    /\ Len(blocks) \in 1..MaxBlocks
    /\ blocks \in [Indices -> Block]
    /\ boundary \in BoundaryTimes
    /\ mode \in {"ASAP", "ALAP"}
    /\ pc \in {"validate", "asap", "place", "done", "rejected"}
    /\ cursor \in 0..(Len(blocks) + 1)
    /\ asap \in [Indices -> Nat]
    /\ relative \in [Indices -> Nat]
    /\ starts \in [Indices -> Nat]
    /\ horizon \in Nat
    /\ end \in Nat

\* Automatic: no block carries an explicit start.
Automatic == \A i \in Indices : ~Explicit(i)

Returned == pc = "done"

Tolerance == IF Automatic THEN 0 ELSE Epsilon

(* Two blocks that name one resource claim never run at the same time, and *)
(* they run in source order (scheduling.py:101-106): in both modes and for *)
(* explicit starts, up to TIME_EPSILON for the latter.                     *)
ReservationsExclusive ==
    Returned =>
       \A later \in Indices : \A earlier \in 1..(later - 1) :
          Conflict(earlier, later) =>
             starts[later] >= starts[earlier] + blocks[earlier].duration - Tolerance

(* No block starts before the boundary the region follows or ends after    *)
(* the end_time the engine advances its clock to.  For ALAP the subtracted *)
(* durations must never reach below the boundary.                          *)
WithinRegion ==
    Returned =>
       \A i \in Indices : /\ starts[i] >= boundary - Tolerance
                          /\ starts[i] + blocks[i].duration <= end

\* A rival schedule of the same region: non-negative and in source order.
Legal(s) ==
    \A later \in Indices : \A earlier \in 1..(later - 1) :
       Conflict(earlier, later) => s[later] >= s[earlier] + blocks[earlier].duration

Rivals == {s \in [Indices -> CandidateStarts] : Legal(s)}

FinishesBy(s, time) == \A i \in Indices : s[i] + blocks[i].duration <= time

(* ASAP means as soon as possible: no legal schedule starts any block      *)
(* earlier, counted from the boundary.                                     *)
AsapEarliest ==
    (Returned /\ Automatic /\ mode = "ASAP") =>
       \A s \in Rivals : \A i \in Indices : starts[i] - boundary <= s[i]

(* ALAP means as late as possible: no legal schedule that ends by the      *)
(* region's end starts any block later.                                    *)
AlapLatest ==
    (Returned /\ Automatic /\ mode = "ALAP") =>
       \A s \in Rivals : FinishesBy(s, end - boundary) =>
          \A i \in Indices : s[i] <= starts[i] - boundary

(* ASAP and ALAP share one makespan (scheduling.py:103) and it is minimal: *)
(* no legal schedule of the region ends earlier than end_time.             *)
MakespanMinimal ==
    (Returned /\ Automatic) =>
       \A s \in Rivals : \E i \in Indices :
          s[i] + blocks[i].duration >= end - boundary

(* Without explicit starts no legal schedule of the region does better, in *)
(* either mode.                                                            *)
PlacedBest == AsapEarliest /\ AlapLatest /\ MakespanMinimal

Placement == INSTANCE PulsePlacement
    WITH status <- IF pc \in {"done", "rejected"} THEN pc ELSE "open"

(* The scheduler implements the abstract placement contract: one answer    *)
(* per region, refused only because of explicit starts, placed exclusively *)
(* and inside the region otherwise.                                        *)
PlacementContract == Placement!Spec

(* Every call returns: both loops run out and no region is left half       *)
(* placed.                                                                 *)
Returns == <>(pc \in {"done", "rejected"})
=============================================================================
