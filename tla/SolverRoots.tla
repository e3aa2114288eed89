---------------------------- MODULE SolverRoots ----------------------------
(***************************************************************************)
(* The root solver of every calibration and exercise boundary              *)
(* (src/engine/solvers/roots.py), on one element of a batch.               *)
(*                                                                         *)
(* Points are integers, a rounding apart.  Of the problem only the sign of *)
(* its value matters and where Newton's step lands: within NOISE of the    *)
(* root a value may have any sign each time it is computed; where the      *)
(* slope has the right sign a step goes to the root's side, and from       *)
(* NEAR the root to the root's own rounding.                               *)
(***************************************************************************)
EXTENDS Integers, Sequences

CONSTANTS
  NoPoint,
  RootProblems,  \* the problems solved, each with its solver, bracket or window, start and step count
  WIDENING,      \* the multiples of a window a bracket may be widened to
  RootPoints,    \* where a far Newton step may land
  NEAR, NOISE

\* An end of a bracket as found, and whether the root is beyond it.
Ends == [end : Int, beyond : BOOLEAN]

\* The root's own rounding is near the root.
ASSUME RoundingAssumption == NOISE \in Nat \ {0} /\ NEAR \in Nat /\ NOISE <= NEAR

ASSUME PointsAssumption == RootPoints \subseteq Int

ASSUME WideningAssumption == WIDENING \in Seq(Nat \ {0}) /\ WIDENING # <<>>

\* A bracket holds its ends in order and a window is around 0, a slope is right at least where the
\* value is rounding, and a bisection's steps are enough to halve the widest bracket to a rounding.
ASSUME ProblemsAssumption ==
  /\ NoPoint \notin Int \cup RootProblems \cup [lo : Ends, hi : Ends]
  /\ \A p \in RootProblems :
       /\ p.solver \in {"Newton", "Bisection"} /\ p.bounded \in BOOLEAN
       /\ p.bracket \in Int \X Int /\ p.start \in Int \cup {NoPoint} /\ p.at \in Int
       /\ p.count \in Nat /\ p.monotone \in Nat /\ NOISE <= p.monotone
       /\ IF p.bounded THEN p.bracket[1] <= p.bracket[2] ELSE p.bracket[1] <= 0 /\ 0 <= p.bracket[2]
       /\ p.solver = "Bisection" =>
            \A low, high \in IF p.bounded THEN {1} ELSE {WIDENING[k] : k \in DOMAIN WIDENING} :
              high * p.bracket[2] - low * p.bracket[1] <= 2 ^ p.count

VARIABLES
  problem,       \* the problem solved, or NoPoint
  bracket,       \* <<lo, hi>>
  ends,          \* the bracket as found and whether the root is beyond an end, or NoPoint
  point,         \* Newton's x
  found,         \* whether Newton has been at the root
  taken_steps,   \* the steps taken
  root           \* the solver's answer, or NoPoint

rootVars == <<problem, bracket, ends, point, found, taken_steps, root>>

AtRoot(x) == x - problem.at \in -NOISE .. NOISE
Mid(a, b) == (a + b) \div 2

\* Whether a computed value puts the root above, below or at x (_above, _below): where the value
\* is rounding it may be any.
Sides(x) == IF AtRoot(x) THEN {"above", "below", "at"}
            ELSE IF x < problem.at THEN {"above"} ELSE {"below"}

Clip(x, lo, hi) == IF x < lo THEN lo ELSE IF x > hi THEN hi ELSE x

(***************************************************************************)
(* The bracket.                                                            *)
(***************************************************************************)
Pose ==
  /\ problem = NoPoint
  /\ \E p \in RootProblems : problem' = p /\ bracket' = p.bracket
  /\ UNCHANGED <<ends, point, found, taken_steps, root>>

Scales == IF problem.bounded THEN <<1>> ELSE WIDENING

\* One end: the first candidate the root is not beyond, else the last, and whether it still is.
Widened(end, sides, past) ==
  LET held  == {k \in DOMAIN Scales : sides[k] # past}
      first == CHOOSE k \in held : \A l \in held : k <= l
  IN  IF held = {} THEN [end |-> Scales[Len(Scales)] * end, beyond |-> TRUE]
      ELSE [end |-> Scales[first] * end, beyond |-> FALSE]

Computed(end) ==
  {sides \in [DOMAIN Scales -> {"above", "below", "at"}] : \A k \in DOMAIN Scales : sides[k] \in Sides(Scales[k] * end)}

\* _widen, and the point Newton starts from.
Widen ==
  /\ problem # NoPoint /\ ends = NoPoint
  /\ \E low \in Computed(bracket[1]), high \in Computed(bracket[2]) :
       LET lo == Widened(bracket[1], low, "below")
           hi == Widened(bracket[2], high, "above")
           x  == IF problem.start = NoPoint THEN Mid(lo.end, hi.end) ELSE Clip(problem.start, lo.end, hi.end)
       IN  /\ bracket' = <<lo.end, hi.end>> /\ ends' = [lo |-> lo, hi |-> hi]
           /\ point' = x /\ found' = AtRoot(x)
  /\ UNCHANGED <<problem, taken_steps, root>>

(***************************************************************************)
(* The steps.                                                              *)
(***************************************************************************)
Stepping == ends # NoPoint /\ taken_steps < problem.count

Halve ==
  /\ Stepping /\ problem.solver = "Bisection"
  /\ LET mid == Mid(bracket[1], bracket[2])
     IN  \E side \in Sides(mid) :
           bracket' = IF side = "above" THEN <<mid, bracket[2]>> ELSE <<bracket[1], mid>>
  /\ taken_steps' = taken_steps + 1
  /\ UNCHANGED <<problem, ends, point, found, root>>

\* Where the slope at x has the sign the problem's monotony gives it.
Slopes(x) == x - problem.at \in -problem.monotone .. problem.monotone

Landings(x) ==
  IF ~Slopes(x) THEN {y \in RootPoints : IF x < problem.at THEN y < x ELSE y > x} \cup {NoPoint}
  ELSE IF x - problem.at \in -NEAR .. NEAR THEN problem.at - NOISE .. problem.at + NOISE
  ELSE {y \in RootPoints : IF x < problem.at THEN y > x ELSE y < x}

\* The side of x the root is taken to be on: the step's where the slope is right, else f's.
SideOf_FromTheValue(x, newton, side) == side = "above"

SideOf(x, newton, side) == IF Slopes(x) THEN newton > x ELSE side = "above"

Newton ==
  /\ Stepping /\ problem.solver = "Newton"
  /\ \E newton \in Landings(point), side \in Sides(point) :
       LET up == SideOf(point, newton, side)
           a  == IF up THEN point ELSE bracket[1]
           b  == IF up THEN bracket[2] ELSE point
           x  == IF newton # NoPoint /\ newton \in a .. b THEN newton ELSE Mid(a, b)
       IN  bracket' = <<a, b>> /\ point' = x /\ found' = (found \/ AtRoot(x))
  /\ taken_steps' = taken_steps + 1
  /\ UNCHANGED <<problem, ends, root>>

\* The answer: an end the root is beyond, else where the steps ended.
Answer ==
  /\ ends # NoPoint /\ taken_steps = problem.count /\ root = NoPoint
  /\ root' = CASE problem.solver = "Bisection" -> Mid(bracket[1], bracket[2])
               [] problem.solver = "Newton" /\ ends.hi.beyond -> ends.hi.end
               [] problem.solver = "Newton" /\ ~ends.hi.beyond /\ ends.lo.beyond -> ends.lo.end
               [] problem.solver = "Newton" /\ ~ends.hi.beyond /\ ~ends.lo.beyond -> point
  /\ UNCHANGED <<problem, bracket, ends, point, found, taken_steps>>

RootInit ==
  /\ problem = NoPoint /\ bracket = <<0, 0>> /\ ends = NoPoint /\ point = 0 /\ found = FALSE
  /\ taken_steps = 0 /\ root = NoPoint

RootNext == Pose \/ Widen \/ Halve \/ Newton \/ Answer

RootSpec == RootInit /\ [][RootNext]_rootVars

(***************************************************************************)
(* Properties.                                                             *)
(***************************************************************************)
Reachable == ends.lo.end <= problem.at /\ problem.at <= ends.hi.end

\* The bracket never loses a root it holds, and Newton, once at the root, stays there to its
\* rounding for every step left, whatever value each of f's computations rounds to; a root out of
\* reach is answered by the end it is beyond, and bisection answers any other (roots.py, _newton
\* and solve).
RootsAreKept ==
  ends # NoPoint =>
    /\ Reachable => bracket[1] - NOISE <= problem.at /\ problem.at <= bracket[2] + NOISE
    /\ Reachable /\ problem.solver = "Newton" /\ found => AtRoot(point)
    /\ root # NoPoint =>
         /\ Reachable /\ problem.solver = "Newton" /\ found => AtRoot(root)
         /\ Reachable /\ problem.solver = "Bisection" => root - problem.at \in -NOISE - 1 .. NOISE + 1
         /\ problem.at < ends.lo.end - NOISE => root - ends.lo.end \in 0 .. NOISE
         /\ problem.at > ends.hi.end + NOISE => ends.hi.end - root \in 0 .. NOISE
=============================================================================
