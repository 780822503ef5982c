---------------------------- MODULE FrameLedger ----------------------------
(***************************************************************************)
(* The virtual-frame ledger of one pulse-emulator shot.                    *)
(*                                                                         *)
(* A gate may end with frame actions: PhaseShift adds an angle to a frame, *)
(* PhaseSwap exchanges two frames.  No pulse carries them out: the adapter *)
(* keeps a ledger of angles, binds every later drive with the angle its    *)
(* frame has at the start of the drive, and hands the ledger from region   *)
(* to region.  Which actions a drive sees is decided by comparing times    *)
(* the scheduler computed in floating point.                               *)
(*                                                                         *)
(* Code: emulator/_core/adapter_common.py, the _bind_run and evolve of the *)
(* two QuTiP adapters, and _schedule_starts with the rounding that         *)
(* PulseSchedule leaves out.  A float with a significand of Precision bits *)
(* is an integer number of ticks rounded to Precision bits; the angle of   *)
(* the n-th block of a shot is 10^(n-1), so that a ledger entry spells out *)
(* which shifts reached the frame, and how often.                          *)
(***************************************************************************)
EXTENDS Integers, Sequences, FiniteSets

LOCAL INSTANCE SequencesExt   \* FoldLeft, SetToSortSeq
LOCAL INSTANCE FiniteSetsExt  \* Max, Min

CONSTANTS
    Frames,     \* virtual frames of the device
    Library,    \* lowered gates: claims, duration, driven frames, actions
    Clocks,     \* times at which the first modelled region may begin
    Precision,  \* bits of a significand
    MaxExponent,\* bound on the exponents rounding looks at
    Epsilon,    \* TIME_EPSILON
    MaxBlocks   \* bound on the blocks of a shot

ASSUME LedgerAssumption ==
    /\ Precision \in Nat \ {0}
    /\ MaxExponent \in Nat
    /\ Epsilon \in Nat
    /\ MaxBlocks \in Nat \ {0}
    /\ Clocks \subseteq Nat
    /\ \A gate \in Library : /\ gate.duration \in Nat
                             /\ gate.drives \subseteq Frames

VARIABLES
    pc,       \* "gather": between two regions; "bind": inside _bind_run
    blocks,   \* the region in source order
    enabled,  \* one flag per block, from its classical condition
    starts,   \* _ScheduledPulseRun.starts
    end,      \* _ScheduledPulseRun.end_time
    todo,     \* indices the binding loop has not reached
    pending,  \* pending_actions: ends and sources of completed controls
    frames,   \* the ledger _bind_run works on
    bound,    \* angle each drive was bound with
    clock,    \* context.time
    context,  \* context.frame_angles
    used      \* blocks of the shot bound in earlier regions

vars == <<pc, blocks, enabled, starts, end, todo, pending, frames, bound,
          clock, context, used>>

Indices == 1..Len(blocks)

----------------------------------------------------------------------------
(* Floating-point times.                                                   *)

\* Spacing of the floats around a magnitude.
Ulp(magnitude) ==
    2 ^ Min({k \in 0..MaxExponent : magnitude < 2 ^ (Precision + k)})

\* Round to nearest, ties to even.
RoundUp(rest, low, ulp) ==
    2 * rest > ulp \/ (2 * rest = ulp /\ (low \div ulp) % 2 = 1)

RoundMagnitude(n) ==
    LET ulp == Ulp(n)
        low == (n \div ulp) * ulp
    IN  IF RoundUp(n - low, low, ulp) THEN low + ulp ELSE low

Float(n) == IF n >= 0 THEN RoundMagnitude(n) ELSE -RoundMagnitude(-n)

----------------------------------------------------------------------------
(* _schedule_starts, in floats.                                            *)

Conflict(region, i, j) == region[i].claims \cap region[j].claims # {}

Asap(region) ==
    LET asap[i \in 1..Len(region)] ==
          Max({0} \cup {Float(asap[e] + region[e].duration) :
                           e \in {e \in 1..(i - 1) : Conflict(region, e, i)}})
    IN  asap

Horizon(region) ==
    Max({Float(Asap(region)[i] + region[i].duration) : i \in 1..Len(region)})

Alap(region) ==
    LET horizon == Horizon(region)
        alap[i \in 1..Len(region)] ==
          Float(Min({horizon} \cup
                    {alap[l] : l \in {l \in (i + 1)..Len(region) : Conflict(region, i, l)}})
                - region[i].duration)
    IN  alap

\* Absolute starts: the boundary time plus the relative start.
Starts(region, mode) ==
    LET relative == IF mode = "ASAP" THEN Asap(region) ELSE Alap(region)
    IN  [i \in 1..Len(region) |-> Float(clock + relative[i])]

----------------------------------------------------------------------------
(* The ledger.                                                             *)

\* angle_rad of the i-th block of the running region.
Angle(i) == 10 ^ (used + i - 1)

Shift(ledger, frame, angle) == [ledger EXCEPT ![frame] = @ + angle]

Swap(ledger, first, second) ==
    [ledger EXCEPT ![first] = ledger[second], ![second] = ledger[first]]

\* apply_actions: the post-actions of block i, in the order it lists them.
ApplyActions(ledger, i) ==
    FoldLeft(LAMBDA acc, action :
                IF action.type = "shift"
                THEN Shift(acc, action.frame, Angle(i))
                ELSE Swap(acc, action.first, action.second),
             ledger, blocks[i].actions)

Before(first, second) ==
    \/ first.end < second.end
    \/ first.end = second.end /\ first.source < second.source

\* Actions of several events, in the order of (end, source).
ApplyEvents(ledger, events) ==
    FoldLeft(LAMBDA acc, event : ApplyActions(acc, event.source),
             ledger, SetToSortSeq(events, Before))

\* Faulty variant: the tolerance is forgotten.
ReadyExactly(start) == {event \in pending : event.end <= start}

\* apply_ready_actions: events completed by the start of a control.
Ready(start) == {event \in pending : event.end <= Float(start + Epsilon)}

----------------------------------------------------------------------------
(* One shot: regions are scheduled, bound block by block and committed.    *)

Init ==
    /\ pc = "gather"
    /\ blocks = <<>> /\ enabled = <<>> /\ starts = <<>> /\ bound = <<>>
    /\ end = 0 /\ todo = {} /\ pending = {}
    /\ clock \in Clocks
    /\ context = [f \in Frames |-> 0]
    /\ frames = context
    /\ used = 0

\* Faulty variant: the pending actions of the last region are still there.
FlushKeepingPending ==
    /\ pc = "gather"
    /\ \E n \in 1..(MaxBlocks - used) :
       \E region \in [1..n -> Library], mode \in {"ASAP", "ALAP"} :
          /\ blocks' = region
          /\ starts' = Starts(region, mode)
          /\ end' = Float(clock + Horizon(region))
          /\ enabled' \in [1..n -> BOOLEAN]
          /\ bound' = [i \in 1..n |-> <<>>]
          /\ todo' = 1..n
    /\ frames' = context
    /\ pc' = "bind"
    /\ UNCHANGED <<pending, clock, context, used>>

\* flush: place the gathered region, evaluate the conditions, start binding.
Flush ==
    /\ pc = "gather"
    /\ \E n \in 1..(MaxBlocks - used) :
       \E region \in [1..n -> Library], mode \in {"ASAP", "ALAP"} :
          /\ blocks' = region
          /\ starts' = Starts(region, mode)
          /\ end' = Float(clock + Horizon(region))
          /\ enabled' \in [1..n -> BOOLEAN]
          /\ bound' = [i \in 1..n |-> <<>>]
          /\ todo' = 1..n
    /\ frames' = context
    /\ pending' = {}
    /\ pc' = "bind"
    /\ UNCHANGED <<clock, context, used>>

\* Next in the order of (start, index).
IsNext(i) ==
    /\ i \in todo
    /\ \A j \in todo \ {i} : \/ starts[i] < starts[j]
                             \/ starts[i] = starts[j] /\ i < j

\* Faulty variant: a block whose condition fails still leaves its actions.
BindDisabledToo(i) ==
    /\ pc = "bind"
    /\ IsNext(i)
    /\ LET ledger == ApplyEvents(frames, Ready(starts[i]))
           event  == [end |-> Float(starts[i] + blocks[i].duration), source |-> i]
       IN  /\ frames' = ledger
           /\ pending' = (pending \ Ready(starts[i])) \cup {event}
           /\ bound' = [bound EXCEPT ![i] = [f \in blocks[i].drives |-> ledger[f]]]
    /\ todo' = todo \ {i}
    /\ UNCHANGED <<pc, blocks, enabled, starts, end, clock, context, used>>

\* Faulty variant: the block's own actions already turn its drive.
BindAfterOwnActions(i) ==
    /\ pc = "bind"
    /\ IsNext(i)
    /\ LET ledger == ApplyEvents(frames, Ready(starts[i]))
           own    == ApplyActions(ledger, i)
       IN  /\ frames' = IF enabled[i] THEN own ELSE ledger
           /\ pending' = pending \ Ready(starts[i])
           /\ bound' = [bound EXCEPT ![i] =
                          IF enabled[i] THEN [f \in blocks[i].drives |-> own[f]] ELSE @]
    /\ todo' = todo \ {i}
    /\ UNCHANGED <<pc, blocks, enabled, starts, end, clock, context, used>>

\* One iteration of the binding loop.
Bind(i) ==
    /\ pc = "bind"
    /\ IsNext(i)
    /\ LET ledger == ApplyEvents(frames, Ready(starts[i]))
           event  == [end |-> Float(starts[i] + blocks[i].duration), source |-> i]
       IN  /\ frames' = ledger
           /\ pending' = (pending \ Ready(starts[i])) \cup (IF enabled[i] THEN {event} ELSE {})
           /\ bound' = [bound EXCEPT ![i] =
                          IF enabled[i] THEN [f \in blocks[i].drives |-> ledger[f]] ELSE @]
    /\ todo' = todo \ {i}
    /\ UNCHANGED <<pc, blocks, enabled, starts, end, clock, context, used>>

\* Faulty variant: actions that no later control waited for are dropped.
CommitWithoutPending ==
    /\ pc = "bind"
    /\ todo = {}
    /\ frames' = frames
    /\ context' = frames'
    /\ clock' = end
    /\ used' = used + Len(blocks)
    /\ pc' = "gather"
    /\ UNCHANGED <<blocks, enabled, starts, end, todo, pending, bound>>

\* The remaining actions, then evolve publishes the ledger and the clock.
Commit ==
    /\ pc = "bind"
    /\ todo = {}
    /\ frames' = ApplyEvents(frames, pending)
    /\ context' = frames'
    /\ clock' = end
    /\ used' = used + Len(blocks)
    /\ pc' = "gather"
    /\ UNCHANGED <<blocks, enabled, starts, end, todo, pending, bound>>

Next ==
    \/ Flush
    \/ \E i \in todo : Bind(i)
    \/ Commit

Spec == Init /\ [][Next]_vars

----------------------------------------------------------------------------
(* Properties.                                                             *)

TypeOK ==
    /\ pc \in {"gather", "bind"}
    /\ blocks \in [Indices -> Library]
    /\ enabled \in [Indices -> BOOLEAN]
    /\ starts \in [Indices -> Int]
    /\ todo \subseteq Indices
    /\ \A event \in pending : event.end \in Int /\ event.source \in Indices \ todo
    /\ frames \in [Frames -> Nat]
    /\ context \in [Frames -> Nat]
    /\ used \in 0..MaxBlocks
    /\ end \in Nat /\ clock \in Nat

\* The ledger after the first k blocks, executed one by one as written.
SourceOrder(k) ==
    FoldLeft(LAMBDA acc, i : IF enabled[i] THEN ApplyActions(acc, i) ELSE acc,
             context, [i \in 1..k |-> i])

(* A drive is bound with the angles that the enabled blocks before it in   *)
(* the program have left on its frame: adapter_common.py:33, "Apply frame  *)
(* events completed before a later control starts".  Overlap, ALAP delays  *)
(* and skipped blocks never show in a phase.                               *)
DrivesSeeSourceOrder ==
    pc = "bind" =>
       \A i \in Indices \ todo :
          enabled[i] => \A f \in blocks[i].drives : bound[i][f] = SourceOrder(i - 1)[f]

(* A region hands on the ledger that source order gives: every action of   *)
(* an enabled block exactly once, and a shift on the side of a swap where  *)
(* the program wrote it (the final loop of _bind_run and evolve).          *)
LedgerFollowsSourceOrder ==
    [][pc = "bind" /\ pc' = "gather" => context' = SourceOrder(Len(blocks))]_vars

(* Actions that wait together never share a resource, so the order in      *)
(* which a batch of them is applied cannot matter.                         *)
WaitingActionsIndependent ==
    \A first, second \in pending :
       first # second => ~Conflict(blocks, first.source, second.source)

(* While a region is bound its ledger is well formed, drives read it as of *)
(* their place in the program, and what waits may be applied in any order. *)
BindingFollowsSource == TypeOK /\ DrivesSeeSourceOrder /\ WaitingActionsIndependent
=============================================================================
