------------------------------ MODULE CalibLgm ------------------------------
(***************************************************************************)
(* The LGM calibration (src/engine/calibration/lgm.py, cam.py and          *)
(* calibrate_on of src/engine/pricing/bermudan.py): the basket of an       *)
(* option or of a currency, its helpers' arrays, the bootstrap bucket by   *)
(* bucket, and its acceptance.                                             *)
(*                                                                         *)
(* A helper is abstracted to the variance zeta at its expiry that gives    *)
(* its market value (need), its price error to how far zeta is from it;    *)
(* the solver's answer (SolverRoots) to the root, or the bracket's end the *)
(* root is beyond.                                                         *)
(***************************************************************************)
EXTENDS SolverRoots, FiniteSets, SequencesExt, FiniteSetsExt

CONSTANTS
  NotYet,
  Calibrated,   \* what is calibrated: options with their exercise dates, currencies with their expiries
  HelperNeeds,        \* the variances a helper may need
  REFERENCE_GRID, \* reference_grid_dates, in days
  LegShapes,    \* the numbers of fixed and of floating coupons of a basket's helpers
  SIGMA_FLOOR, SIGMA_CEILING \* SIGMA_BRACKET, as variances a day

\* A Bermudan's exercise dates are sorted (its constructor refuses others), an American's are the
\* ends of its window, the reference grid's are taken from a calendar forwards and a currency's
\* expiries are not before the day it is built on; a variance is not negative.
ASSUME CalibratedAssumption ==
  /\ NotYet \notin Calibrated \cup {"none", "no helper", "not increasing", "missed", "accepted"}
  /\ \A m \in Calibrated :
       /\ m.kind \in {"american", "bermudan", "currency"} /\ m.built_on \in Int
       /\ m.exercise \in Seq(Int) /\ m.exercise # <<>>
       /\ m.kind = "american" => Len(m.exercise) = 2
       /\ m.kind = "bermudan" => \A k \in 2 .. Len(m.exercise) : m.exercise[k - 1] <= m.exercise[k]
       /\ m.kind = "currency" => \A k \in DOMAIN m.exercise : m.exercise[k] >= m.built_on

ASSUME GridAssumption ==
  REFERENCE_GRID \in Seq(Int) /\ \A k \in 2 .. Len(REFERENCE_GRID) : REFERENCE_GRID[k - 1] <= REFERENCE_GRID[k]

ASSUME NeedsAssumption == HelperNeeds \subseteq Nat /\ SIGMA_FLOOR \in Nat /\ SIGMA_CEILING \in Nat

ASSUME LegsAssumption ==
  LegShapes \subseteq Seq([fixed : Nat \ {0}, floating : Nat \ {0}])

VARIABLES
  model,        \* what is calibrated, or NotYet
  helpers,      \* the basket: each helper's expiry and need
  increments,   \* each solved bucket's variance, values^2 dt
  zetas,        \* zeta at each solved helper's expiry
  outcome,      \* how the calibration ended, or NotYet
  stacked       \* a basket's helpers as one stack, or NotYet

calibVars == <<model, helpers, increments, zetas, outcome, stacked>>

(***************************************************************************)
(* The basket.                                                             *)
(***************************************************************************)
\* The interval of the reference grid a date lies in; past its end, one more than the intervals.
Slot(day) == Cardinality({d \in Range(REFERENCE_GRID) : d < day}) + 1
PastTheGrid(day) == Slot(day) > Len(REFERENCE_GRID)

Dates(m) == IF m.kind = "american" THEN REFERENCE_GRID ELSE m.exercise

Candidate(m, day) ==
  /\ day > m.built_on
  /\ m.kind = "american" => Max({m.built_on + 1, m.exercise[1]}) <= day /\ day < m.exercise[2]

\* At most one expiry in an interval of the grid, the first (buildSwaptionBasket).
Keep(m, kept, day) ==
  IF Candidate(m, day) /\ (PastTheGrid(day) \/ \A k \in DOMAIN kept : PastTheGrid(kept[k]) \/ Slot(kept[k]) < Slot(day))
  THEN Append(kept, day) ELSE kept

basket_expiries(m) ==
  LET kept[n \in 0 .. Len(Dates(m))] == IF n = 0 THEN <<>> ELSE Keep(m, kept[n - 1], Dates(m)[n])
  IN  kept[Len(Dates(m))]

expiries(m) == IF m.kind = "currency" THEN m.exercise ELSE basket_expiries(m)

Expired(m) == m.kind # "currency" /\ m.exercise[Len(m.exercise)] <= m.built_on

Increasing(days) == \A k \in 2 .. Len(days) : days[k - 1] < days[k]

CalibrateOn ==
  /\ model = NotYet /\ stacked = NotYet
  /\ \E m \in Calibrated :
       LET days == expiries(m)
       IN  /\ model' = m
           /\ outcome' = CASE days = <<>> /\ Expired(m)  -> "none"
                           [] days = <<>> /\ ~Expired(m) -> "no helper"
                           [] days # <<>> /\ ~Increasing(days) -> "not increasing"
                           [] days # <<>> /\ Increasing(days) -> NotYet
           /\ \E needs \in [DOMAIN days -> HelperNeeds] :
                helpers' = [i \in DOMAIN days |-> [expiry |-> days[i], need |-> needs[i]]]
  /\ UNCHANGED <<increments, zetas, stacked>>

(***************************************************************************)
(* The bootstrap.                                                          *)
(***************************************************************************)
Length(i) == helpers[i].expiry - (IF i = 1 THEN model.built_on ELSE helpers[i - 1].expiry)

\* The earlier buckets' variance (zeta_before).
ZetaBefore(i) == IF i = 1 THEN 0 ELSE zetas[i - 1]

Bucket ==
  /\ model # NotYet /\ outcome = NotYet /\ Len(zetas) < Len(helpers)
  /\ LET i    == Len(zetas) + 1
         base == ZetaBefore(i)
         zeta == Max({base + SIGMA_FLOOR * Length(i), Min({base + SIGMA_CEILING * Length(i), helpers[i].need})})
     IN  /\ zetas' = Append(zetas, zeta)
         /\ increments' = Append(increments, zeta - base)
  /\ UNCHANGED <<model, helpers, outcome, stacked>>

AtFloor(i)  == increments[i] = SIGMA_FLOOR * Length(i)
AtCeiling(i) == increments[i] = SIGMA_CEILING * Length(i)

\* A helper's relative price error, in percent.
Error(i) == (100 * (IF zetas[i] > helpers[i].need THEN zetas[i] - helpers[i].need ELSE helpers[i].need - zetas[i]))
            \div helpers[i].need

Total(amounts, places) == MapThenSumSet(LAMBDA k : amounts[k], places)

\* ORE's calibration error is the root mean square; a market value of 0 makes it no number.
Misses(tolerance) ==
  \/ \E i \in DOMAIN helpers : helpers[i].need = 0
  \/ ~(Total([i \in DOMAIN helpers |-> Error(i) * Error(i)], DOMAIN helpers) < tolerance * tolerance * Len(helpers))
  \/ \E i \in DOMAIN helpers : AtCeiling(i)

RequireAccepted ==
  /\ model # NotYet /\ outcome = NotYet /\ Len(zetas) = Len(helpers)
  /\ outcome' = IF Misses(model.tolerance) THEN "missed" ELSE "accepted"
  /\ UNCHANGED <<model, helpers, increments, zetas, stacked>>

(***************************************************************************)
(* A basket's helpers as one stack.                                        *)
(***************************************************************************)
\* ORE's proRata mapping: the fixed coupon that owns each floating coupon, and how much of its
\* period is over once it pays, in 1/ratio.
Ratio(shape) == Max({1, (2 * shape.floating + shape.fixed) \div (2 * shape.fixed)})

Owners(shape) ==
  [k \in 1 .. shape.floating |->
     IF k <= Ratio(shape) * shape.fixed
     THEN [owner |-> (k - 1) \div Ratio(shape) + 1, share |-> ((k - 1) % Ratio(shape)) + 1]
     ELSE [owner |-> 0, share |-> 0]]

\* A coupon that pads is owned by none and worth nothing.
Stack(shapes) ==
  LET fixed    == Max({s.fixed : s \in Range(shapes)})
      floating == Max({s.floating : s \in Range(shapes)})
  IN  [h \in DOMAIN shapes |->
         [fixed |-> fixed, last |-> shapes[h].fixed, ratio |-> Ratio(shapes[h]), coupons |-> shapes[h].floating,
          owners |-> Owners(shapes[h]) \o [k \in 1 .. floating - shapes[h].floating |-> [owner |-> 0, share |-> 0]]]]

\* Where a floating coupon's correction goes, in 1/ratio: to its owner's payment and, the rest, to
\* the one before (0 for the start).
Correction(helper, k) ==
  LET own == helper.owners[k]
  IN  [j \in 0 .. helper.fixed |->
         IF own.owner = 0 THEN 0
         ELSE IF j = own.owner THEN own.share ELSE IF j = own.owner - 1 THEN helper.ratio - own.share ELSE 0]

StackHelpers ==
  /\ model = NotYet /\ stacked = NotYet
  /\ \E shapes \in LegShapes : stacked' = Stack(shapes)
  /\ UNCHANGED <<model, helpers, increments, zetas, outcome>>

CalibInit ==
  model = NotYet /\ helpers = <<>> /\ increments = <<>> /\ zetas = <<>> /\ outcome = NotYet /\ stacked = NotYet

CalibNext == CalibrateOn \/ Bucket \/ RequireAccepted \/ StackHelpers

CalibSpec == CalibInit /\ [][CalibNext]_calibVars

(***************************************************************************)
(* Properties.                                                             *)
(***************************************************************************)
\* In an accepted calibration the buckets together give each helper the variance its market value
\* needs, but for one whose bucket is at the bracket's floor; none is at the ceiling, where ORE
\* would go on, and the volatility is defined: a helper at least, its expiries increasing
\* (lgm.py, bootstrap and require_accepted).
AcceptedReprices ==
  outcome = "accepted" =>
    /\ helpers # <<>>
    /\ \A i \in DOMAIN helpers :
         LET zeta == Total(increments, 1 .. i)
         IN  Length(i) > 0 /\ ~AtCeiling(i) /\ (zeta = helpers[i].need \/ AtFloor(i))

\* A live option whose dates are apart always has a helper, unless its window is an American's
\* that no date of the reference grid falls in; and each interval of the grid has at most one
\* (bermudan.py, basket_expiries).
BasketCovers ==
  model # NotYet /\ model.kind # "currency" =>
    /\ model.kind = "bermudan" /\ ~Expired(model) => helpers # <<>>
    /\ \A i, j \in DOMAIN helpers :
         i # j /\ ~PastTheGrid(helpers[i].expiry) => Slot(helpers[i].expiry) # Slot(helpers[j].expiry)
    /\ \A day \in {d \in Range(Dates(model)) : Candidate(model, d)} : \E i \in DOMAIN helpers :
         helpers[i].expiry <= day /\ (helpers[i].expiry = day \/ Slot(helpers[i].expiry) = Slot(day))

\* Every floating coupon's correction moves whole onto the payments around it, whichever helper
\* of the stack it is in; the padding moves nothing, nothing reaches a padded payment, and no real
\* coupon of a leg whose schedule fits is left out (lgm.py, stack_helpers and _corrections).
CorrectionsAreWhole ==
  stacked # NotYet =>
    \A h \in DOMAIN stacked : LET s == stacked[h] IN
      \A k \in DOMAIN s.owners :
        LET moved == Correction(s, k)
            all   == Total(moved, DOMAIN moved)
        IN  /\ all = IF k <= s.coupons /\ k <= s.ratio * s.last THEN s.ratio ELSE 0
            /\ \A j \in DOMAIN moved : moved[j] >= 0 /\ (moved[j] > 0 => j <= s.last)

CalibrationIsSound == AcceptedReprices /\ BasketCovers /\ CorrectionsAreWhole

\* What is calibrated reprices: its buckets, and the root each of them is the answer of (lgm.py,
\* calibrated_values, which solves every bucket by solvers/roots.py, root).
CalibrationReprices == CalibrationIsSound /\ RootsAreKept
=============================================================================
