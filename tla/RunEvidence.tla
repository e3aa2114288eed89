---------------------------- MODULE RunEvidence ----------------------------
(***************************************************************************)
(* The warnings a finished run carries: every figure whose precision no    *)
(* campaign of the evidence table has validated (src/engine/precision/     *)
(* evidence.py, the settings it keys by in src/engine/pricing/config.py).  *)
(* A campaign is a precision, the products it priced and how, and the      *)
(* largest path count at which each figure passed (0: at none).  The text  *)
(* of a warning is left out: a warning is a figure that is not validated.  *)
(***************************************************************************)
EXTENDS RunPhases

CONSTANT Campaigns   \* the measurements of record

---------------------------------------------------------------------------
(* What a run reports, and what its kernels' arithmetic depends on beside the precision. *)

RunFigures(stages, aggregate, trade, total, corrected) ==
  [stages |-> stages, aggregate |-> aggregate, trade |-> trade, total |-> total, corrected |-> corrected]

PortfolioFigures == RunFigures(STAGES, "netting_set", {"NPV", "EPE", "PFE"}, {"NPV", "EPE", "PFE"}, {"EPE"})
MarketRiskFigures == RunFigures({"simulation", "pricing"}, "portfolio", {"PnL"}, {"PnL", "ES"}, {})

(* A campaign reports the figures of an exposure or of a market-risk run, each with its ceiling. *)
ASSUME CampaignsAssumption ==
  \A c \in Campaigns :
    /\ c.figures \in {PortfolioFigures, MarketRiskFigures}
    /\ DOMAIN c.ceilings = c.figures.total
    /\ c.precision.paired \in Nat

kernel_settings(product, pricing, recalibrated) ==
  CASE product \in {"swap", "bond"} -> <<"Discounting">>
    [] product = "european_swaption" -> <<pricing.european>>
    [] product \in OPTIONS ->
         <<"LgmGrid", IF recalibrated /\ product \in pricing.calibrates THEN "recalibrated" ELSE "fixed">>

pricing_settings(pricing, trades, recalibrated) ==
  [product \in {t.product : t \in trades} |-> kernel_settings(product, pricing, recalibrated)]

---------------------------------------------------------------------------
(* The combination a figure is validated under. *)

Reference == [reference |-> TRUE]

(* Mutant: the internal roles do not enter the key. *)
combination_StagesOnly(p, stages, pricing, replicates) ==
  LET chosen == [s \in stages |-> IF s = "pricing" THEN pricing ELSE p.stages[s]]
      scaled == \E s \in stages : FORMATS[chosen[s].storage].scaled
  IN  IF chosen = [s \in stages |-> Throughout("float64")] THEN Reference
      ELSE [stages |-> chosen, replicates |-> replicates,
            layout |-> IF scaled THEN <<p.storage_scaling, p.rounding, p.offset>> ELSE <<>>]

combination(p, stages, pricing, replicates) ==
  LET chosen == [s \in stages |-> IF s = "pricing" THEN pricing ELSE p.stages[s]]
      scaled == \E s \in stages : FORMATS[chosen[s].storage].scaled
  IN  IF chosen = [s \in stages |-> Throughout("float64")] /\ p.internal = [r \in ROLES |-> "float64"]
      THEN Reference
      ELSE [stages |-> chosen, internal |-> p.internal, replicates |-> replicates,
            layout |-> IF scaled THEN <<p.storage_scaling, p.rounding, p.offset>> ELSE <<>>]

---------------------------------------------------------------------------
(* The table: one row per campaign, scope and figure. *)

Row(campaign, scope, figure) ==
  LET figures == campaign.figures
      p == campaign.precision
  IN  [combination |-> combination(p, figures.stages, p.stages["pricing"], campaign.replicates),
       paired |-> IF figure \in figures.corrected THEN p.paired ELSE 0,
       scope |-> scope, figure |-> figure, ceiling |-> campaign.ceilings[figure], settings |-> campaign.settings]

EvidenceRows ==
  UNION {{Row(c, scope, figure) : figure \in DOMAIN c.ceilings, scope \in DOMAIN c.settings \cup {c.figures.aggregate}}
           : c \in Campaigns}

holds(row, settings) ==
  \A product \in DOMAIN settings : product \in DOMAIN row.settings /\ row.settings[product] = settings[product]

Candidates(rows, key, scope, figure, paired) ==
  {r \in rows : /\ r.combination = key /\ r.scope = scope /\ r.figure = figure
                /\ IF paired > 0 THEN r.paired \in 1..paired ELSE r.paired = 0}

(* The rows of the nearest paired share give their smallest ceiling; one that passes nowhere gives none. *)
Validated(rows, key, scope, figure, settings, paired, paths) ==
  LET measured == {r \in Candidates(rows, key, scope, figure, paired) : holds(r, settings)}
      nearest == {r \in measured : \A other \in measured : other.paired <= r.paired}
  IN  measured # {} /\ \A r \in nearest : paths <= r.ceiling

MissingKinds(rows, p, figures, kinds, key, scope, settings, paths) ==
  {k \in kinds : ~Validated(rows, key, scope, k, settings, IF k \in figures.corrected THEN p.paired ELSE 0, paths)}

(* <<trade id or aggregate, figure>> of every figure that a warning names. *)
evidence_warnings(rows, p, trades, figures, settings, paths, replicates) ==
  LET KeyOf(pricing) == combination(p, figures.stages, pricing, replicates)
      OfTrade(t) ==
        LET key == KeyOf(precision_for(p, t))
        IN  IF key = Reference THEN {}
            ELSE MissingKinds(rows, p, figures, figures.trade, key, t.product,
                              [product \in {t.product} |-> settings[product]], paths)
      OfAggregate ==
        LET stages == PricingStages(p, trades)
            key == KeyOf(CHOOSE s \in stages : TRUE)
        IN  CASE Cardinality(stages) > 1 -> figures.total
              [] stages = {} -> {}
              [] Cardinality(stages) = 1 ->
                   IF key = Reference THEN {}
                   ELSE MissingKinds(rows, p, figures, figures.total, key, figures.aggregate, settings, paths)
  IN  (UNION {{<<t.id, k>> : k \in OfTrade(t)} : t \in trades}) \cup {<<figures.aggregate, k>> : k \in OfAggregate}

---------------------------------------------------------------------------
(* Every figure a finished run reports without a warning was measured: a campaign computed it in the
   same arithmetic of every stage it depends on and of the internal roles, with the same layout of
   scaled blocks, the same replicates and each of its products by the same engine, paired no more of
   the paths, and passed at as many; and no campaign that agrees in all this failed at so many.
   (evidence.py's docstring: "EvidenceRows measured under other settings validate nothing".) *)
MeasuredLikeIt(campaign, figures, k, pricing, replicates, settings) ==
  LET p == request.precision
      q == campaign.precision
      chosen == {s \in {pricing} \cup {p.stages[s] : s \in figures.stages \ {"pricing"}} : FORMATS[s.storage].scaled}
  IN  /\ campaign.figures = figures
      /\ \A s \in figures.stages : q.stages[s] = IF s = "pricing" THEN pricing ELSE p.stages[s]
      /\ q.internal = p.internal
      /\ chosen # {} => /\ q.storage_scaling = p.storage_scaling
                        /\ q.rounding = p.rounding /\ q.offset = p.offset
      /\ campaign.replicates = replicates
      /\ \A product \in DOMAIN settings :
           product \in DOMAIN campaign.settings /\ campaign.settings[product] = settings[product]
      /\ k \in figures.corrected => q.paired <= p.paired /\ (q.paired = 0 <=> p.paired = 0)

MeasuredIn(figures, k, pricing, replicates, settings, paths) ==
  LET like == {c \in Campaigns : MeasuredLikeIt(c, figures, k, pricing, replicates, settings)}
      closest == {c \in like : k \in figures.corrected => \A d \in like : d.precision.paired <= c.precision.paired}
  IN  \/ /\ \A s \in figures.stages \ {"pricing"} : request.precision.stages[s] = Throughout("float64")
         /\ pricing = Throughout("float64")
         /\ request.precision.internal = [r \in ROLES |-> "float64"]
      \/ like # {} /\ \A c \in closest : paths <= c.ceilings[k]

UnwarnedIsMeasured(figures, recalibrated, paths, replicates) ==
  LET p == request.precision
      trades == Range(request.portfolio)
      settings == pricing_settings(request.pricing, trades, recalibrated)
      warned == evidence_warnings(EvidenceRows, p, trades, figures, settings, paths, replicates)
  IN  /\ \A t \in trades : \A k \in figures.trade :
           <<t.id, k>> \notin warned =>
             MeasuredIn(figures, k, precision_for(p, t), replicates, [product \in {t.product} |-> settings[product]], paths)
      /\ trades # {} => \A k \in figures.total :
           <<figures.aggregate, k>> \notin warned =>
             \A t \in trades : MeasuredIn(figures, k, precision_for(p, t), replicates, settings, paths)

ValidatedIsMeasured ==
  progress = "done" =>
    /\ wants(request, {"exposure"}) =>
         UnwarnedIsMeasured(PortfolioFigures, FALSE, request.simulation.samples, request.simulation.replicates)
    /\ wants(request, {"market_risk"}) =>
         UnwarnedIsMeasured(MarketRiskFigures, TRUE, Risk.count, Risk.replicates)

(* A precision policy that was accepted is kept: no phase uses a format, a product or a block its
   checks did not cover, and no figure passes for validated that no campaign measured. *)
PolicyIsKept == FormatsAreChecked /\ ValidatedIsMeasured

=============================================================================
