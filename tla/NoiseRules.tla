----------------------------- MODULE NoiseRules -----------------------------
(***************************************************************************)
(* Noise: first the declarations (noise/catalog.py, loss.py, readout.py,   *)
(* relaxation.py, transition_relaxation.py), the matrix rules that turn    *)
(* one into Kraus operators and the pulse rules that turn one into         *)
(* Lindblad operators (lindblad.py); then what a NoiseModel accepts        *)
(* (model.py), and what it answers for an occurrence of an operation, for  *)
(* the background of a subsystem and for a measured target.                *)
(*                                                                         *)
(* Probabilities count 25ths, so that the square roots of 9/25 and 16/25   *)
(* are exact.  An argument the caller may omit is a set of at most one     *)
(* value.  An operator is [w, m], for sqrt(w) m, a rule's operators are    *)
(* [den, ops], and den divides every weight.                               *)
(*                                                                         *)
(* A target is [kind, id]: a "ref" into a quantum register, a "bit" (a ref *)
(* into another register), a register "view", a hashable device "label" or *)
(* an unhashable "list".  A selector is <<>> (every target) or a sequence  *)
(* of targets; positions are {} (the full extent) or {sequence}, counted   *)
(* from 0.  A registration is [decl, op, selector, positions], with op     *)
(* "background" when the caller gave none.                                 *)
(***************************************************************************)
EXTENDS GateMatrices

Whole == 25
Given(arg) == arg # {}
ValueOf(arg) == CHOOSE v \in arg : TRUE

\* _require_probability and _require_rate (every value here is a number).
IsProbability(v) == v \in 0..Whole
IsRate(v) == v >= 0

\* __post_init__ of Depolarizing, AmplitudeDamping and PhaseDamping: exactly one
\* strength, in its range.
OneStrength(d) ==
    /\ Cardinality({f \in {"p", "rate", "tPhi"} : Given(d[f])}) = 1
    /\ Given(d.p) => IsProbability(ValueOf(d.p))
    /\ Given(d.rate) => IsRate(ValueOf(d.rate))
    /\ Given(d.tPhi) => ValueOf(d.tPhi) > 0

\* _normalize_pauli_terms: its refusals, and the terms with the identity first and
\* the probability that the others leave it.
Letters == {"I", "X", "Y", "Z"}
IsIdentity(letters) == \A k \in DOMAIN letters : letters[k] = "I"
Errors(terms) == SelectSeq(terms, LAMBDA t : ~IsIdentity(t[1]))
Assigned(terms) == Total(Len(Errors(terms)), LAMBDA k: Errors(terms)[k][2])
PauliTermsAccepted(terms) ==
    /\ terms # <<>>
    /\ \A k \in DOMAIN terms :
          /\ terms[k][1] # <<>>
          /\ \A n \in DOMAIN terms[k][1] : terms[k][1][n] \in Letters
          /\ Len(terms[k][1]) = Len(terms[1][1])
          /\ IsProbability(terms[k][2])
          /\ \A j \in 1..(k - 1) : terms[j][1] # terms[k][1]
    /\ Assigned(terms) <= Whole
    /\ \A k \in DOMAIN terms :
          IsIdentity(terms[k][1]) => terms[k][2] = Whole - Assigned(terms)
PauliTerms(terms) ==
    <<<<[k \in DOMAIN terms[1][1] |-> "I"], Whole - Assigned(terms)>>>> \o Errors(terms)

\* TransitionRelaxation.__init__: <<source, destination, coefficient>> triples.
TransitionsAccepted(d) ==
    /\ OneStrength(d)
    /\ d.terms # <<>>
    /\ \A k \in DOMAIN d.terms :
          /\ d.terms[k][1] >= 0 /\ d.terms[k][2] >= 0
          /\ d.terms[k][1] # d.terms[k][2]
          /\ d.terms[k][3] # 0

\* ThermalRelaxation.__post_init__ and ReadoutConfusion.__init__ (a column is what
\* each true level is reported as).
TimesAccepted(d) == d.t1 > 0 /\ d.t2 > 0 /\ d.t2 <= 2 * d.t1
ConfusionAccepted(m) ==
    /\ Len(m) >= 2
    /\ \A r \in DOMAIN m : Len(m[r]) = Len(m) /\ \A c \in DOMAIN m : IsProbability(m[r][c])
    /\ \A c \in DOMAIN m : Total(Len(m), LAMBDA r: m[r][c]) = Whole

\* What the constructors accept, and the fields they store: t_phi is kept as a rate
\* (1 / t_phi, in units where the times used divide the unit of rate).
Declared(d) ==
    CASE d.type \in {"Depolarizing", "AmplitudeDamping", "PhaseDamping"} -> OneStrength(d)
      [] d.type = "PauliChannel" -> PauliTermsAccepted(d.terms)
      [] d.type = "TransitionRelaxation" -> TransitionsAccepted(d)
      [] d.type = "ThermalRelaxation" -> TimesAccepted(d)
      [] d.type = "Loss" -> IsProbability(ValueOf(d.p))
      [] d.type = "ReadoutConfusion" -> ConfusionAccepted(d.terms)
RateUnit == 60
Stored(d) ==
    CASE d.type = "PauliChannel" -> [d EXCEPT !.terms = PauliTerms(d.terms)]
      [] d.type = "PhaseDamping" /\ Given(d.tPhi) ->
           [d EXCEPT !.rate = {RateUnit \div ValueOf(d.tPhi)}, !.tPhi = {}]
      [] OTHER -> d

\* num_subsystems: the width of a declaration, 0 when it has none of its own.
Width(d) ==
    CASE d.type = "Depolarizing" -> IF Given(d.rate) THEN 1 ELSE 0
      [] d.type = "PauliChannel" -> Len(d.terms[1][1])
      [] d.type = "Loss" -> 0
      [] OTHER -> 1

-----------------------------------------------------------------------------
(* The matrix rules.                                                       *)

Weyl(dim, a, b) == MatMul(ShiftMatrix(dim, a), ClockMatrix(dim, b))
ElementOf(dim, row, column) ==
    MatrixOf(dim, LAMBDA r, c: IF r = row /\ c = column THEN One ELSE Zero)
Weighted(w, m) == [w |-> w, m |-> m]
PauliMatrix(letters) ==
    LET upTo[k \in 0..Len(letters)] ==
          IF k = 0 THEN <<<<One>>>> ELSE Kron(upTo[k - 1], FixedMatrix(letters[k]))
    IN  upTo[Len(letters)]
Root25(n) == CHOOSE r \in 0..5 : r * r = n

\* transition_operator, and the leaving strength of a source level: the sum of the
\* squared coefficients of its transitions.
TransitionOperator(d, dim) ==
    MatrixOf(dim, LAMBDA r, c:
               SumOf(Len(d.terms), LAMBDA k: IF d.terms[k][1] = c /\ d.terms[k][2] = r
                                             THEN Real(d.terms[k][3]) ELSE Zero))
Leaving(d, level) ==
    Total(Len(d.terms), LAMBDA k: IF d.terms[k][1] = level
                                  THEN d.terms[k][3] * d.terms[k][3] ELSE 0)
\* The rest of the completeness matrix, whose square root is the no-jump operator.
\* Two sources of one destination would make it not diagonal: they are not modelled.
Remaining(d, level) == Whole - ValueOf(d.p) * Leaving(d, level)

\* Why a rule refuses its declaration on targets of these dimensions.
MatrixRuleRefuses(d, dims) ==
    \/ Width(d) # 0 /\ Len(dims) # Width(d)
    \/ d.type \in {"Depolarizing", "AmplitudeDamping", "PhaseDamping", "TransitionRelaxation"}
         /\ ~Given(d.p)
    \/ d.type = "PauliChannel" /\ \E k \in DOMAIN dims : dims[k] # 2
    \/ d.type = "AmplitudeDamping" /\ dims[1] # 2
    \/ d.type = "TransitionRelaxation" /\
         \/ \E k \in DOMAIN d.terms : d.terms[k][1] >= dims[1] \/ d.terms[k][2] >= dims[1]
         \/ \E level \in 0..(dims[1] - 1) : Remaining(d, level) < 0

\* depolarizing_rule, phase_damping_rule, amplitude_damping_rule, pauli_channel_rule
\* and transition_relaxation_rule.
\* Mutant of the first: the identity among the d^2 errors is forgotten.
DepolarizingShort(d, dims) ==
    LET dim == Product(dims)
        p == ValueOf(d.p)
    IN  [den |-> Whole * dim * dim,
         ops |-> [k \in 1..(dim * dim) |->
                    Weighted(IF k = 1 THEN (Whole - p) * dim * dim ELSE p,
                             Weyl(dim, (k - 1) \div dim, (k - 1) % dim))]]
DepolarizingOps(d, dims) ==
    LET dim == Product(dims)
        p == ValueOf(d.p)
    IN  [den |-> Whole * dim * dim,
         ops |-> [k \in 1..(dim * dim) |->
                    Weighted(IF k = 1 THEN (Whole - p) * dim * dim + p ELSE p,
                             Weyl(dim, (k - 1) \div dim, (k - 1) % dim))]]
PhaseDampingOps(d, dims) ==
    LET dim == dims[1]
        p == ValueOf(d.p)
    IN  [den |-> Whole * dim,
         ops |-> [k \in 1..dim |-> Weighted(IF k = 1 THEN (Whole - p) * dim + p ELSE p,
                                            ClockMatrix(dim, k - 1))]]
AmplitudeDampingOps(d) ==
    LET p == ValueOf(d.p)
    IN  [den |-> Whole,
         ops |-> <<Weighted(1, Diagonal(<<Real(5), Real(Root25(Whole - p))>>)),
                   Weighted(p, ElementOf(2, 0, 1))>>]
PauliChannelOps(d) ==
    [den |-> Whole,
     ops |-> [k \in DOMAIN d.terms |-> Weighted(d.terms[k][2], PauliMatrix(d.terms[k][1]))]]
TransitionOps(d, dims) ==
    [den |-> Whole,
     ops |-> <<Weighted(1, Diagonal([k \in 1..dims[1] |-> Real(Root25(Remaining(d, k - 1)))])),
               Weighted(ValueOf(d.p), TransitionOperator(d, dims[1]))>>]
KrausOps(d, dims) ==
    CASE d.type = "Depolarizing" -> DepolarizingOps(d, dims)
      [] d.type = "PhaseDamping" -> PhaseDampingOps(d, dims)
      [] d.type = "AmplitudeDamping" -> AmplitudeDampingOps(d)
      [] d.type = "PauliChannel" -> PauliChannelOps(d)
      [] d.type = "TransitionRelaxation" -> TransitionOps(d, dims)

\* The channel types with a matrix rule, and those with a pulse rule.
MatrixTypes == {"Depolarizing", "AmplitudeDamping", "PhaseDamping", "PauliChannel",
                "TransitionRelaxation"}
PulseTypes == {"Depolarizing", "AmplitudeDamping", "PhaseDamping", "TransitionRelaxation",
               "ThermalRelaxation"}

-----------------------------------------------------------------------------
(* The pulse rules, on one subsystem.                                      *)

PulseRuleRefuses(d, dim) ==
    \/ d.type \notin PulseTypes
    \/ d.type # "ThermalRelaxation" /\ ~Given(d.rate)
    \/ d.type \in {"AmplitudeDamping", "ThermalRelaxation"} /\ dim # 2
    \/ d.type = "TransitionRelaxation" /\
         \E k \in DOMAIN d.terms : d.terms[k][1] >= dim \/ d.terms[k][2] >= dim

NumberOperator(dim) == Diagonal([k \in 1..dim |-> Real(k - 1)])

\* resolve_lindblad_operators with the five rules; weights over den.
LindbladOps(d, dim) ==
    LET rate == IF Given(d.rate) THEN ValueOf(d.rate) ELSE 0
    IN  CASE d.type = "AmplitudeDamping" ->
               [den |-> 1, ops |-> <<Weighted(rate, ElementOf(2, 0, 1))>>]
          [] d.type = "PhaseDamping" ->
               [den |-> 1, ops |-> <<Weighted(2 * rate, NumberOperator(dim))>>]
          [] d.type = "Depolarizing" ->
               [den |-> dim * dim,
                ops |-> [k \in 1..(dim * dim - 1) |->
                           Weighted(rate, Weyl(dim, k \div dim, k % dim))]]
          [] d.type = "TransitionRelaxation" ->
               [den |-> 1, ops |-> <<Weighted(rate, TransitionOperator(d, dim))>>]
          [] d.type = "ThermalRelaxation" ->
               LET amplitude == Weighted(2 * d.t2, ElementOf(2, 0, 1))
                   dephasing == 2 * d.t1 - d.t2
               IN  [den |-> 2 * d.t1 * d.t2,
                    ops |-> IF dephasing = 0 THEN <<amplitude>>
                            ELSE <<amplitude, Weighted(2 * dephasing, NumberOperator(2))>>]

-----------------------------------------------------------------------------
(* What the documentation of a declaration promises.                       *)

\* Sum of w m rho m^dagger.
Sandwiched(ops, rho) ==
    LET upTo[k \in 0..Len(ops)] ==
          IF k = 0 THEN Scaled(Zero, rho)
          ELSE Sum2(upTo[k - 1], Scaled(Real(ops[k].w),
                                        MatMul(MatMul(ops[k].m, rho), Dagger(ops[k].m))))
    IN  upTo[Len(ops)]
Completeness(ops) == Sandwiched([k \in DOMAIN ops |-> [ops[k] EXCEPT !.m = Dagger(@)]],
                                Identity(Len(ops[1].m)))
TracePreserving(channel) ==
    Completeness(channel.ops) = Scaled(Real(channel.den), Identity(Len(channel.ops[1].m)))
----------------------------------------------------------------------------
(* What a NoiseModel accepts and answers.                                  *)

\* Operation.num_subsystems; 0 stands for any number (None).
Variadic == {"Put", "Reset", "Barrier"}
NumSubsystems(op) == IF op \in Variadic THEN 0 ELSE IF op \in {"CX", "CZ", "Swap"} THEN 2 ELSE 1

InOrder(s) == \A k \in 1..(Len(s) - 1) : s[k] < s[k + 1]
Elements(s) == {s[k] : k \in DOMAIN s}
FullExtent(width) == [k \in 1..width |-> k - 1]

\* _validate_scalar_selector and _validate_homogeneous_selector.
ScalarAccepted(t) == t.kind \in {"ref", "label"}
IsRef(t) == t.kind = "ref"
Homogeneous(selector) ==
    /\ \A k \in DOMAIN selector : ScalarAccepted(selector[k])
    /\ \A j, k \in DOMAIN selector : IsRef(selector[j]) <=> IsRef(selector[k])
IsRefSelector(selector) == selector # <<>> /\ IsRef(selector[1])

\* _normalize_occurrence_selector (a scalar is a tuple of one; form "omitted" is
\* targets=None), _normalize_background_selector and _normalize_readout_selector.
SelectorAccepted(op, arg) ==
    \/ arg.form = "omitted"
    \/ /\ arg.form \in {"scalar", "tuple"}
       /\ arg.items # <<>>
       /\ Homogeneous(arg.items)
       /\ NumSubsystems(op) # 0 => Len(arg.items) = NumSubsystems(op)
BackgroundAccepted(arg) ==
    /\ arg.form \in {"scalar", "tuple"}
    /\ Len(arg.items) = 1
    /\ Homogeneous(arg.items)
ReadoutAccepted(arg) ==
    arg.form = "omitted" \/ (arg.form = "scalar" /\ ScalarAccepted(arg.items[1]))

\* _normalize_target_positions: the width of an occurrence is the operation's, else
\* the selector's; positions that name all of it are the full extent.
OccurrenceWidth(op, selector) == IF NumSubsystems(op) # 0 THEN NumSubsystems(op) ELSE Len(selector)
NormalPositions(op, selector, positions) ==
    IF Given(positions) /\ OccurrenceWidth(op, selector) # 0
          /\ ValueOf(positions) = FullExtent(OccurrenceWidth(op, selector))
    THEN {} ELSE positions
PositionsAccepted(op, decl, selector, positions) ==
    LET width == OccurrenceWidth(op, selector)
        normal == NormalPositions(op, selector, positions)
        extent == IF Given(normal) THEN Len(ValueOf(normal)) ELSE width
    IN  /\ Given(positions) =>
             LET p == ValueOf(positions)
             IN  /\ p # <<>>
                 /\ \A k \in DOMAIN p : p[k] >= 0
                 /\ InOrder(p)
                 /\ width # 0 => p[Len(p)] < width
        /\ Width(decl) # 0 /\ extent # 0 => Width(decl) = extent

-----------------------------------------------------------------------------
(* The conflicts of two registrations.                                     *)

SelectorsCanOverlap(left, right) ==
    \/ left = <<>> \/ right = <<>>
    \/ left = right
PositionsOverlap(left, right) ==
    \/ ~Given(left) \/ ~Given(right)
    \/ Elements(ValueOf(left)) \cap Elements(ValueOf(right)) # {}
\* _registrations_conflict with actual_match=True: both registrations already match.
MatchesConflict(left, right) ==
    /\ left.decl.type = right.decl.type
    /\ left.decl.type # "TransitionRelaxation"
    /\ left.op = right.op
    /\ PositionsOverlap(left.positions, right.positions)
RegistrationsConflict(left, right) ==
    MatchesConflict(left, right) /\ SelectorsCanOverlap(left.selector, right.selector)
\* _check_readout_conflict: a universal registration stands alone.
ReadoutsConflict(left, right) == left = <<>> \/ right = <<>> \/ left = right

-----------------------------------------------------------------------------
(* NoiseModel.add.  A call is [decl, op, arg, positions], with op "omitted" *)
(* when the keyword was not given and "background" for operation=None.      *)

NoBoundary == {"PulseOperation", "Barrier", "Reset"}
IsReadout(call) == call.decl.type = "ReadoutConfusion"
SelectorOf(call) == IF call.arg.form = "omitted" THEN <<>> ELSE call.arg.items
IsBackground(call) == call.op \in {"omitted", "background"}

RegistrationOf(call) ==
    LET selector == SelectorOf(call)
    IN  [decl |-> call.decl, op |-> IF IsBackground(call) THEN "background" ELSE call.op,
         selector |-> selector,
         positions |-> IF IsBackground(call) THEN {}
                       ELSE NormalPositions(call.op, selector, call.positions)]
BackgroundCallAccepted(call) ==
    /\ ~Given(call.positions)
    /\ BackgroundAccepted(call.arg)
    /\ ~(call.decl.type = "Depolarizing" /\ Given(call.decl.p))
    /\ Width(call.decl) = 1
OccurrenceCallAccepted(call) ==
    /\ call.op \notin NoBoundary
    /\ call.op = "Put" => call.decl.type = "Loss"
    /\ SelectorAccepted(call.op, call.arg)
    /\ PositionsAccepted(call.op, call.decl, SelectorOf(call), call.positions)
NoiseAccepted(noises, call) ==
    /\ IF IsBackground(call) THEN BackgroundCallAccepted(call) ELSE OccurrenceCallAccepted(call)
    /\ \A k \in DOMAIN noises : ~RegistrationsConflict(noises[k], RegistrationOf(call))
ReadoutCallAccepted(readouts, call) ==
    /\ call.op = "omitted"
    /\ ~Given(call.positions)
    /\ ReadoutAccepted(call.arg)
    /\ \A k \in DOMAIN readouts : ~ReadoutsConflict(readouts[k].selector, SelectorOf(call))

-----------------------------------------------------------------------------
(* The questions a simulator asks.  layout maps the index of a ref to a    *)
(* device label; an answer is [error] or [error |-> "none", ...].          *)

LabelsOf(occurrence, layout) ==
    [k \in DOMAIN occurrence |-> [kind |-> "label", id |-> layout[occurrence[k].id]]]
Matches(registration, occurrence, layout) ==
    registration.selector \in {<<>>, occurrence, LabelsOf(occurrence, layout)}
\* The registrations that match, by their place in the list: answers keep its order.
Matching(noises, op, occurrence, layout) ==
    {k \in DOMAIN noises : noises[k].op = op /\ Matches(noises[k], occurrence, layout)}
\* Mutant: what add() let through is applied.
AmbiguousNever(noises, matches) == FALSE
\* _reject_actual_noise_conflicts.
Ambiguous(noises, matches) ==
    \E j, k \in matches : j < k /\ MatchesConflict(noises[j], noises[k])

\* The extent of a matched registration, and why the occurrence refuses it.
Extent(registration, occurrence) ==
    IF Given(registration.positions)
    THEN LET p == ValueOf(registration.positions) IN [k \in DOMAIN p |-> occurrence[p[k] + 1]]
    ELSE occurrence
OutOfRange(registration, occurrence) ==
    /\ Given(registration.positions)
    /\ \E k \in DOMAIN ValueOf(registration.positions) :
          ValueOf(registration.positions)[k] >= Len(occurrence)
WrongWidth(registration, occurrence) ==
    /\ Width(registration.decl) # 0
    /\ Len(Extent(registration, occurrence)) # Width(registration.decl)

NoiseForOccurrence(noises, op, occurrence, layout) ==
    LET matches == Matching(noises, op, occurrence, layout)
    IN  IF Ambiguous(noises, matches) THEN [error |-> "ambiguous", noise |-> <<>>]
        ELSE IF \E k \in matches : \/ OutOfRange(noises[k], occurrence)
                                  \/ WrongWidth(noises[k], occurrence)
        THEN [error |-> "extent", noise |-> <<>>]
        ELSE [error |-> "none",
              noise |-> [k \in matches |-> [decl |-> noises[k].decl,
                                            extent |-> Extent(noises[k], occurrence)]]]

\* _background_noise_for, on the subsystem of a ref.
BackgroundNoiseFor(noises, ref, layout) ==
    LET matches == {k \in DOMAIN noises : /\ noises[k].op = "background"
                                         /\ noises[k].selector \in {<<ref>>, LabelsOf(<<ref>>, layout)}}
    IN  IF Ambiguous(noises, matches) THEN [error |-> "ambiguous", noise |-> <<>>]
        ELSE [error |-> "none", noise |-> [k \in matches |-> noises[k].decl]]

\* Mutant: the first registration that matches wins.
FirstReadoutFor(readouts, ref, layout) ==
    LET matches == {k \in DOMAIN readouts : Matches(readouts[k], <<ref>>, layout)}
    IN  [error |-> "none",
         confusion |-> {readouts[k].decl : k \in {m \in matches : \A n \in matches : m <= n}}]
\* _readout_confusion_for: at most one registration may match.
ReadoutFor(readouts, ref, layout) ==
    LET matches == {k \in DOMAIN readouts : Matches(readouts[k], <<ref>>, layout)}
    IN  IF \E j, k \in matches : j # k THEN [error |-> "ambiguous", confusion |-> {}]
        ELSE [error |-> "none", confusion |-> {readouts[k].decl : k \in matches}]

\* _validate_for: every selector lies in the program and in the device.
SelectorInRun(selector, refs, labels) ==
    \A k \in DOMAIN selector : selector[k].id \in (IF IsRefSelector(selector) THEN refs ELSE labels)
ValidFor(noises, readouts, refs, labels) ==
    /\ \A k \in DOMAIN noises : SelectorInRun(noises[k].selector, refs, labels)
    /\ \A k \in DOMAIN readouts : SelectorInRun(readouts[k].selector, refs, labels)
=============================================================================
