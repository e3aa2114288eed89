---------------------------- MODULE RiskFactors ----------------------------
(***************************************************************************)
(* The risk factors of a market-risk run and the moves its scenarios give  *)
(* them (src/engine/risk/market/factors.py, scenarios.py).  A factor is a  *)
(* label <<curve name, pillar>>; a vector of factors is a sequence in      *)
(* label order.  The market is its currencies in order, each with its      *)
(* discount pillars and its index curves, an index named by a number in    *)
(* the order of the names.  Moves are integers: the Monte Carlo draw is    *)
(* any matrix of its shape.                                                *)
(***************************************************************************)
EXTENDS RunPrecision, SequencesExt

CONSTANT Unsent   \* an optional field that was not given

FEWEST_SCENARIOS == 2   \* the fewest scenarios of a tail statistic

---------------------------------------------------------------------------
(* The curves of a market, and the factors of some of them. *)

CurvesOf(data) ==
  LET indices == SetToSortSeq(DOMAIN data.index_curves, <)
  IN  <<[name |-> <<"discount", data.currency>>, pillars |-> data.discount_curve]>>
      \o [k \in DOMAIN indices |-> [name |-> <<"index", indices[k]>>, pillars |-> data.index_curves[indices[k]]]]

from_market(quoted) == FlattenSeq([k \in DOMAIN quoted |-> CurvesOf(quoted[k])])

NamesOf(curves) == [k \in DOMAIN curves |-> curves[k].name]

RateFactorsAccepted(curves) == curves # <<>> /\ IsInjective(NamesOf(curves))

LabelsOf(curve) == [p \in DOMAIN curve.pillars |-> <<curve.name, curve.pillars[p]>>]

labels(curves) == FlattenSeq([k \in DOMAIN curves |-> LabelsOf(curves[k])])

factor_size(curves) == Len(labels(curves))

index_of(curves, name) == SelectInSeq(curves, LAMBDA c : c.name = name)

(* Where a curve's pillars sit in the vector: the places after the first and up to the last. *)
slice_of(curves, k) ==
  LET start == factor_size(SubSeq(curves, 1, k - 1))
  IN  <<start, start + Len(curves[k].pillars)>>

---------------------------------------------------------------------------
(* The scenarios. *)

BootstrapDefaults == [replicates |-> 128, block_length |-> Unsent, seed |-> 42]

(* ShockScenarios: bootstrap is a history's resampling settings. *)
ScenariosAccepted(s) ==
  /\ \A i \in DOMAIN s.shifts : Len(s.shifts[i]) = factor_size(s.factors)
  /\ Len(s.shifts) >= FEWEST_SCENARIOS
  /\ s.horizon_days >= 1
  /\ s.source \in {"monte-carlo", "historical"}
  /\ s.windows = Unsent \/ Len(s.windows) = Len(s.shifts)
  /\ ReplicatesAccepted(Len(s.shifts), s.replicates)
  /\ s.source = "historical" => s.replicates = 1
  /\ s.source = "monte-carlo" => s.bootstrap = BootstrapDefaults
  /\ s.bootstrap.replicates >= 2
  /\ s.bootstrap.block_length = Unsent \/ s.bootstrap.block_length \in s.horizon_days..Len(s.shifts)

(* A Monte Carlo request, before a scenario is drawn: covariance is its side, and whether it is
   symmetric and positive semi-definite. *)
validate_monte_carlo(mc) ==
  /\ mc.horizon_days >= 1 /\ mc.num_scenarios >= FEWEST_SCENARIOS
  /\ ReplicatesAccepted(mc.num_scenarios, mc.replicates)
  /\ mc.covariance.side = factor_size(mc.factors) /\ mc.covariance.valid

Drawn(mc, shifts) ==
  [factors |-> mc.factors, shifts |-> shifts, horizon_days |-> mc.horizon_days, source |-> "monte-carlo",
   windows |-> Unsent, replicates |-> mc.replicates, bootstrap |-> BootstrapDefaults]

(* The overlapping moves of a history over a horizon, oldest first. *)
HistoryAccepted(history, horizon) == horizon >= 1 /\ Len(history) > horizon + 1

horizon_moves(history, horizon) ==
  [i \in 1..Len(history) - horizon |->
     [f \in DOMAIN history[i] |-> history[i + horizon][f] - history[i][f]]]

HistoryDated(dates, history) == dates = Unsent \/ Len(dates) = Len(history)

historical_scenarios(h) ==
  LET moves == horizon_moves(h.history, h.horizon_days)
  IN  [factors |-> h.factors, shifts |-> moves, horizon_days |-> h.horizon_days, source |-> "historical",
       windows |-> IF h.dates = Unsent THEN Unsent
                   ELSE [i \in DOMAIN moves |-> <<h.dates[i], h.dates[i + h.horizon_days]>>],
       replicates |-> 1, bootstrap |-> h.bootstrap]
=============================================================================
