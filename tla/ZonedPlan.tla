------------------------------ MODULE ZonedPlan ------------------------------
(***************************************************************************)
(* From router instructions to a verified plan: compiler/passes/na_zap.py  *)
(* and compiler/dialects/na_zoned.py.                                      *)
(*                                                                         *)
(* The pass translates instructions to events one by one, matching gates   *)
(* with the source by operation id, and then replays the whole plan: each  *)
(* event must name every atom at the position the events before it left it *)
(* in.  One instruction translated, or one event replayed, is one step; a  *)
(* ValidationError ends in "rejected".  The source program is the gate     *)
(* list of ZapSchedule: operation ids are positions in that list.          *)
(***************************************************************************)
EXTENDS ZapRouting

VARIABLES
    compiler,  \* where the pass is
    reader,    \* index of the next instruction or event
    events,    \* events of the ZonedPlan
    executed,  \* executed_ids, then operation_ids of the verifier
    position   \* position_by_atom of the verifier

planVars == <<compiler, reader, events, executed, position>>

allVars == <<routingVars, planVars>>

PlanInit ==
    /\ RoutingInit
    /\ compiler = "idle" /\ reader = 1 /\ events = <<>> /\ executed = {} /\ position = <<>>

Distinct(seq) == \A j, k \in DOMAIN seq : j # k => seq[j] # seq[k]

Begin ==
    /\ compiler = "idle" /\ router = "routed"
    /\ compiler' = "translate"
    /\ UNCHANGED <<routingVars, reader, events, executed, position>>

----------------------------------------------------------------------------
(* _translate_trace.                                                       *)

IsGateBatch(i) == i.type \in {"1qGate", "2qGate"}

\* The operands of a gate batch, gate by gate, are those of the source.
MatchesSource(i) ==
    /\ i.ids # <<>>
    /\ ToSet(i.ids) \subseteq Indices
    /\ Distinct(i.ids)
    /\ ToSet(i.ids) \cap executed = {}
    /\ i.qs = FlattenSeq([k \in DOMAIN i.ids |-> Operands(i.ids[k])])

Translatable(i) ==
    /\ Distinct(i.qs) /\ ToSet(i.qs) \subseteq Atoms
    /\ Len(i.from) = Len(i.qs) /\ Len(i.to) = Len(i.qs)
    /\ i.type = "Init" => reader = 1 /\ i.qs = AtomSeq
    /\ IsGateBatch(i) => MatchesSource(i)

Translate ==
    /\ compiler = "translate" /\ reader <= Len(instructions)
    /\ LET i == instructions[reader] IN
          IF Translatable(i)
          THEN /\ position' = IF i.type = "Init" THEN [q \in Atoms |-> i.from[q + 1]] ELSE position
               /\ events' = IF i.type = "Init" THEN events ELSE Append(events, i)
               /\ executed' = executed \cup ToSet(i.ids)
               /\ reader' = reader + 1
               /\ compiler' = compiler
          ELSE /\ compiler' = "rejected"
               /\ UNCHANGED <<reader, events, executed, position>>
    /\ UNCHANGED routingVars

\* Init must have come, and every source gate must have been executed.
FinishTranslation ==
    /\ compiler = "translate" /\ reader > Len(instructions)
    /\ compiler' = IF position # <<>> /\ executed = Indices THEN "replay" ELSE "rejected"
    /\ reader' = 1
    /\ executed' = {}
    /\ UNCHANGED <<routingVars, events, position>>

----------------------------------------------------------------------------
(* verify_zoned_plan.                                                      *)

Replayable(e) ==
    /\ Distinct(e.qs)
    /\ \A k \in DOMAIN e.qs : e.from[k] = position[e.qs[k]]
    /\ IsGateBatch(e) => e.ids # <<>> /\ ToSet(e.ids) \cap executed = {}

\* Faulty variant: the replay forgets where moves end.
ReplayWithoutMoving ==
    /\ compiler = "replay" /\ reader <= Len(events)
    /\ LET e == events[reader] IN
          IF Replayable(e)
          THEN executed' = executed \cup ToSet(e.ids) /\ reader' = reader + 1 /\ compiler' = compiler
          ELSE compiler' = "rejected" /\ UNCHANGED <<reader, executed>>
    /\ UNCHANGED <<routingVars, events, position>>

Replay ==
    /\ compiler = "replay" /\ reader <= Len(events)
    /\ LET e == events[reader]
           IndexOf(q) == CHOOSE k \in DOMAIN e.qs : e.qs[k] = q
       IN IF Replayable(e)
          THEN /\ position' = [q \in Atoms |-> IF Contains(e.qs, q) THEN e.to[IndexOf(q)] ELSE position[q]]
               /\ executed' = executed \cup ToSet(e.ids)
               /\ reader' = reader + 1
               /\ compiler' = compiler
          ELSE /\ compiler' = "rejected"
               /\ UNCHANGED <<reader, executed, position>>
    /\ UNCHANGED <<routingVars, events>>

\* _verify_provenance: the plan holds the gates of the source.
Accept ==
    /\ compiler = "replay" /\ reader > Len(events)
    /\ compiler' = IF executed = Indices THEN "compiled" ELSE "rejected"
    /\ UNCHANGED <<routingVars, reader, events, executed, position>>

Ended ==
    \/ compiler \in {"compiled", "rejected"} \/ router = "failed"
    \/ strategy = "separate" /\ pc = "done"

\* The call has returned or raised.
Rest == Ended /\ UNCHANGED allVars

PlanNext ==
    \/ RoutingNext /\ UNCHANGED planVars
    \/ Begin \/ Translate \/ FinishTranslation \/ Replay \/ Accept
    \/ Rest

\* One thread runs the call to its end: WF_allVars(PlanNext), written without
\* ENABLED (TLC evaluates it without caching, and a placement is expensive).
\* That no state before the end is stuck is TLC's deadlock check.
RunsOn == <>[]Ended \/ []<><<TRUE>>_allVars

PlanSpec == PlanInit /\ [][PlanNext]_allVars /\ RunsOn

----------------------------------------------------------------------------
(* Properties.                                                             *)

PlanTypeOK ==
    /\ TypeOK
    /\ router \in {"idle", "place", "batch", "park", "detour", "move", "settle", "routed", "failed"}
    /\ compiler \in {"idle", "translate", "replay", "compiled", "rejected"}
    /\ stage \in 0..depth
    /\ waiting \subseteq Atoms
    /\ ToSet(batch) \subseteq Atoms /\ activated \subseteq ToSet(batch) /\ parked \subseteq activated
    /\ executed \subseteq Indices
    /\ reader \in 1..(Len(instructions) + 1)

(* A verified plan is the source program: on every atom the gates stand in *)
(* the order of the source, each once, whichever stages and batches they   *)
(* were put in (na_zap.py:52-124).                                         *)
PlanKeepsSource ==
    compiler = "compiled" =>
       LET run == FlattenSeq([k \in DOMAIN events |-> events[k].ids])
       IN  \A q \in Atoms :
              SelectSeq(run, LAMBDA i : q \in gates[i])
                 = Sorted({i \in Indices : q \in gates[i]})

(* From placement to the verified plan: no two atoms in one place, pairs   *)
(* meet alone, and the plan is the source.                                 *)
PlanSound == PlanTypeOK /\ AtomsApart /\ GatesMeet /\ PlanKeepsSource

(* Every gate list for which there is room compiles: placement never runs  *)
(* out of traps, the parking and detour loops end, and neither translation *)
(* nor replay rejects what the router wrote.                               *)
CompilationSucceeds == strategy = "joint" ~> compiler = "compiled"
=============================================================================
