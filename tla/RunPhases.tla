----------------------------- MODULE RunPhases -----------------------------
(***************************************************************************)
(* A request from its submission to its result: the check before it is     *)
(* queued, the check of the executing worker, and the phases that follow   *)
(* (src/engine/run/run_request.py run, run/pipeline.py, risk/market/run.py,*)
(* risk/greeks/bump.py).  Each phase looks up its own market items, takes  *)
(* its own settings and computes in its own formats: what it finds there   *)
(* was or was not checked before.  Figures are left out.                   *)
(***************************************************************************)
EXTENDS RunRequest

CONSTANTS Requests, Platforms   \* the requests sent, and the devices a worker may have

(* Every request: its trades are a list, its policy has a stage of each name, its counts are integers. *)
ASSUME RequestsAssumption ==
  \A r \in Requests :
    /\ r.portfolio \in Seq(Range(r.portfolio))
    /\ DOMAIN r.precision.stages = STAGES
    /\ r.simulation.given => r.simulation.samples \in Int /\ r.simulation.replicates \in Int
    /\ r.market_risk.given => r.market_risk.count \in Int /\ r.market_risk.replicates \in Int

VARIABLES
  request, platform,
  progress,   \* "posted", "queued", "running", "refused", "failed" or "done"
  steps,      \* the phases left to run
  taken,      \* what of the request a phase has taken
  computed,   \* the formats and products computed in
  stored,     \* the arrays stored over paths
  cause       \* why the run failed

runVars == <<request, platform, progress, steps, taken, computed, stored, cause>>

---------------------------------------------------------------------------
(* The phases of a run, in order. *)

At(phase, trade) == [phase |-> phase, trade |-> trade]
Alone(phase) == <<At(phase, 0)>>
PerTrade(phase) == [i \in DOMAIN request.portfolio |-> At(phase, i)]
When(condition, phases) == IF condition THEN phases ELSE <<>>

ExposureSteps ==
  Alone("calibration") \o Alone("simulation") \o PerTrade("pricing") \o Alone("today")
  \o When(request.precision.paired > 0, Alone("paired_sample")) \o Alone("exposure")

RunSteps ==
  When(wants(request, PORTFOLIO_ANALYTICS),
       (IF wants(request, {"exposure"}) THEN ExposureSteps ELSE Alone("base_npv"))
       \o When(wants(request, {"sensitivities"}), Alone("greeks") \o PerTrade("trade_greeks")))
  \o When(wants(request, {"market_risk"}),
          Alone("scenarios") \o PerTrade("revaluation") \o Alone("risk_figures")
          \o When(request.precision.paired > 0, Alone("paired_figures")))
  \o When(wants(request, {"calibration"}), Alone("calibration_analytic"))

---------------------------------------------------------------------------
(* What ends a phase. *)

Formats(names) == {<<"format", f>> : f \in names}
Roles(roles) == Formats({request.precision.internal[r] : r \in roles})
ComputedIn(stages) == Formats(UNION {StageFormats(s) : s \in stages}) \cup {<<"product", s>> : s \in stages}

Unfound(owner, needs) == {<<owner, need>> : need \in {n \in needs : ~Found(request.market, n)}}

Advance(phase) == progress = "running" /\ steps # <<>> /\ Head(steps).phase = phase

Finish(takes, formats) ==
  /\ taken' = taken \cup takes
  /\ computed' = computed \cup formats
  /\ steps' = Tail(steps)
  /\ progress' = IF Len(steps) = 1 THEN "done" ELSE "running"
  /\ UNCHANGED <<request, platform, cause>>

Fail(why) ==
  /\ progress' = "failed" /\ cause' = why /\ steps' = <<>>
  /\ UNCHANGED <<request, platform, taken, computed, stored>>

(* A phase that stores nothing: it ends, or fails for what it does not find. *)
Complete(missing, takes, formats) ==
  IF missing = {} THEN Finish(takes, formats) /\ UNCHANGED stored ELSE Fail(missing)

(* A bootstrap may miss its basket, which no check before the run can tell. *)
BasketMissed(calibrates) == calibrates /\ Fail({<<"model", <<"basket">>>>})

Section(names) == {<<"section", n>> : n \in names}
Models(names) == {<<"models", n>> : n \in names}

TradeAt == request.portfolio[Head(steps).trade]

---------------------------------------------------------------------------
(* Submission and the worker's check. *)

Submit ==
  /\ progress = "posted"
  /\ progress' = IF Constructed(request) /\ validate_run(request) THEN "queued" ELSE "refused"
  /\ UNCHANGED <<request, platform, steps, taken, computed, stored, cause>>

Start ==
  /\ progress = "queued"
  /\ IF RunExecutionAccepted(request, platform)
     THEN progress' = "running" /\ steps' = RunSteps /\ cause' = cause
     ELSE progress' = "failed" /\ steps' = <<>> /\ cause' = {<<"worker", <<"execution">>>>}
  /\ UNCHANGED <<request, platform, taken, computed, stored>>

---------------------------------------------------------------------------
(* The exposure analytic. *)

IrSettings(currencies) == {<<"ir", c>> : c \in currencies}
CalibrationSettings(currencies) ==
  IrSettings(currencies) \cup (IF currencies = {} THEN {} ELSE Models({"tolerance"}))

BasketsMissing ==
  UNION {Unfound("model", BasketItems(c, request.models.ir[c])) : c \in calibrated(request.models)}

Foreign == DOMAIN request.models.ir \ {request.base_currency}

SimulatedFactors ==
  {<<"IR", c>> : c \in DOMAIN request.models.ir} \cup {<<"FX", c>> : c \in Foreign}
  \cup {<<"EQ", e>> : e \in request.models.equities}

(* _build_cross_asset_model: the baskets, then every factor's market data, then the correlations. *)
ModelMissing ==
  BasketsMissing
  \cup Unfound("model", {<<"currency", c>> : c \in DOMAIN request.models.ir}
                        \cup {<<"fx", c, request.base_currency>> : c \in Foreign}
                        \cup {<<"equity", e>> : e \in request.models.equities})
  \cup {<<"model", pair>> : pair \in {c \in request.models.correlations : ~(Range(c) \subseteq SimulatedFactors)}}

BuildModel ==
  /\ Advance("calibration")
  /\ \/ Complete(ModelMissing,
                 CalibrationSettings(calibrated(request.models)) \cup IrSettings(DOMAIN request.models.ir)
                 \cup Models({"fx", "equities", "correlations"}) \cup Section({"models", "base_currency"}),
                 Roles({"calibration", "levels"}))
     \/ BasketMissed(calibrated(request.models) # {})

Array(paths, replicates, scaled) == [paths |-> paths, replicates |-> replicates, scaled |-> scaled]
Scaled(stage) == FORMATS[stage.storage].scaled /\ request.precision.storage_scaling # "none"

Simulate ==
  LET simulation == request.simulation
      sim == request.precision.stages["simulation"]
      mkt == request.precision.stages["market"]
  IN  /\ Advance("simulation")
      /\ IF simulation.dates[1] > ASOF
         THEN /\ Finish(Section({"simulation", "precision"}) \cup {<<"stage", "simulation">>, <<"stage", "market">>},
                        ComputedIn({sim, mkt}) \cup Roles({"levels", "calibration"}))
              /\ stored' = stored \cup {Array(simulation.samples, simulation.replicates, Scaled(s)) : s \in {sim, mkt}}
         ELSE Fail({<<"model", <<"dates">>>>})

(* The paths hold the curves of the simulated currencies only, and each one's rate into the base. *)
OffThePaths(trade) ==
  {<<"trade", need>> : need \in
     {n \in curve_keys(trade) : ~(n[2] \in DOMAIN request.models.ir /\ Found(request.market, n))}
     \cup {n \in {<<"fx", trade.currency, request.base_currency>>} : n[2] # n[3] /\ n[2] \notin Foreign}}

VolsMissing(trade) ==
  IF reads_swaption_vols(trade, request.pricing) /\ ~trade.expired
  THEN Unfound("trade", {<<"vols", trade.currency>>}) ELSE {}

Recalibrates(trade) == trade.product \in OPTIONS \cap request.pricing.calibrates /\ ~trade.expired

ColumnMissing(trade) == OffThePaths(trade) \cup VolsMissing(trade)

PriceColumn ==
  /\ Advance("pricing")
  /\ LET stage == precision_for(request.precision, TradeAt)
     IN  \/ IF ColumnMissing(TradeAt) = {}
            THEN /\ Finish(Section({"pricing", "portfolio"}) \cup {<<"stage", "pricing">>},
                           ComputedIn({stage}) \cup Roles({"calibration", "levels"}))
                 /\ stored' = stored \cup {Array(request.simulation.samples, request.simulation.replicates, Scaled(stage))}
            ELSE Fail(ColumnMissing(TradeAt))
         \/ BasketMissed(Recalibrates(TradeAt))

(* value_on for every trade of the portfolio, and its conversion at the market's spot. *)
ValueMissing(trade) == Unfound("trade", curve_keys(trade)) \cup VolsMissing(trade)

TodayMissing ==
  Unfound("trade", reporting_fx_spots(request)) \cup UNION {ValueMissing(t) : t \in Range(request.portfolio)}

Today(phase) ==
  /\ Advance(phase)
  /\ \/ Complete(TodayMissing, Section({"pricing", "portfolio", "base_currency"}),
                 Roles({"initial_values", "calibration"}))
     \/ BasketMissed(\E t \in Range(request.portfolio) : Recalibrates(t))

PairedPaths == paired_count(request.simulation.samples, request.precision.paired, request.simulation.replicates)

PairedSample ==
  /\ Advance("paired_sample")
  /\ LET missing == UNION {ColumnMissing(t) : t \in Range(request.portfolio)}
     IN  IF missing = {}
         THEN /\ Finish({<<"stage", "paired">>}, ComputedIn({Throughout("float64")}))
              /\ stored' = stored \cup {Array(PairedPaths, request.simulation.replicates, TRUE)}
         ELSE Fail(missing)

Exposure ==
  /\ Advance("exposure")
  /\ Complete(TodayMissing, Section({"exposure", "include_npv_cube"}),
              Roles({"initial_values", "calibration", "reductions", "output"}))

BaseNpv == Today("base_npv")
TodayOnPaths == Today("today")

---------------------------------------------------------------------------
(* The sensitivities: every index curve's name is read for its tenor before any trade is bumped. *)

Greeks ==
  /\ Advance("greeks")
  /\ Complete({<<"market", item>> : item \in {i \in request.market : i[1] = "index" /\ i[3] = 0}},
              Section({"sensitivity"}), Roles({"greeks"}))

TradeGreeks ==
  /\ Advance("trade_greeks")
  /\ \/ Complete(Unfound("trade", {<<"fx", TradeAt.currency, request.base_currency>>}
                                  \cup TradeItems(TradeAt, request.pricing)),
                 Section({"pricing", "portfolio"}), Roles({"greeks", "calibration"}))
     \/ BasketMissed(Recalibrates(TradeAt))

---------------------------------------------------------------------------
(* Market risk. *)

Risk == request.market_risk

DrawScenarios ==
  LET sim == request.precision.stages["simulation"]
  IN  /\ Advance("scenarios")
      /\ IF Unfound("trade", reporting_fx_spots(request)) = {}
         THEN /\ Finish(Section({"market_risk", "base_currency", "precision"}) \cup {<<"stage", "simulation">>},
                        Formats({sim.accumulate, sim.storage}))
              /\ stored' = stored \cup {Array(Risk.count, Risk.replicates, Scaled(sim))}
         ELSE Fail(Unfound("trade", reporting_fx_spots(request)))

RevaluationMissing(trade) ==
  Unfound("trade", TradeItems(trade, request.pricing))
  \cup {<<"trade", key>> : key \in curve_keys(trade) \ Risk.factors}

Revalue ==
  /\ Advance("revaluation")
  /\ LET stage == precision_for(request.precision, TradeAt)
     IN  \/ IF RevaluationMissing(TradeAt) = {}
            THEN /\ Finish(Section({"pricing", "portfolio"}) \cup {<<"stage", "pricing">>},
                           ComputedIn({stage}) \cup Roles({"calibration", "reductions"}))
                 /\ stored' = stored \cup {Array(Risk.count, Risk.replicates, Scaled(stage))}
            ELSE Fail(RevaluationMissing(TradeAt))
         \/ BasketMissed(Recalibrates(TradeAt))

RiskFigures ==
  /\ Advance("risk_figures")
  /\ Complete({}, {}, Roles({"reductions", "output"}))

PairedFigures ==
  /\ Advance("paired_figures")
  /\ Finish({<<"stage", "paired">>}, ComputedIn({Throughout("float64")}))
  /\ stored' = stored \cup {Array(paired_count(Risk.count, request.precision.paired, Risk.replicates), Risk.replicates, TRUE)}

---------------------------------------------------------------------------
(* The calibration analytic, the last of a run. *)

Calibrate ==
  /\ Advance("calibration_analytic")
  /\ \/ Complete(BasketsMissing, Section({"models"}) \cup CalibrationSettings(calibrated(request.models)),
                 Roles({"calibration", "output"}))
     \/ BasketMissed(TRUE)

---------------------------------------------------------------------------

RunInit ==
  /\ request \in Requests /\ platform \in Platforms
  /\ progress = "posted" /\ steps = <<>>
  /\ taken = {} /\ computed = {} /\ stored = {} /\ cause = {}

RunNext ==
  \/ Submit \/ Start
  \/ BuildModel \/ Simulate \/ PriceColumn \/ TodayOnPaths \/ PairedSample \/ Exposure
  \/ BaseNpv \/ Greeks \/ TradeGreeks
  \/ DrawScenarios \/ Revalue \/ RiskFigures \/ PairedFigures \/ Calibrate

RunSpec == RunInit /\ [][RunNext]_runVars

---------------------------------------------------------------------------
(* What a caller may rely on. *)

(* What of a request is not at its default, down to a model's currency and a stage's formats.  The
   calibration tolerance counts only where something is calibrated, a pricing format only with a trade. *)
AskedFor ==
  LET models == request.models
      p == request.precision
      own == Throughout(p.profile)
  IN  Section(GivenSections(request))
      \cup Section({n \in {"portfolio"} : request.portfolio # <<>>})
      \cup Section({n \in {"include_npv_cube"} : ~request.include_npv_cube})
      \cup (IF models.given
            THEN IrSettings(DOMAIN models.ir) \cup Models({n \in {"fx", "equities", "correlations"} : models[n] # {}})
                 \cup Models({n \in {"tolerance"} : models.tolerance = "set" /\ calibrated(models) # {}})
            ELSE {})
      \cup {<<"stage", s>> : s \in {t \in {"simulation", "market"} : p.stages[t] # own}}
      \cup {<<"stage", s>> : s \in {t \in {"pricing"} : request.portfolio # <<>> /\ PricingStages(p, Range(request.portfolio)) # {own}}}
      \cup {<<"stage", s>> : s \in {t \in {"paired"} : p.paired > 0}}

(* Nothing a caller sets is silently ignored: of a run that ends well, every section, model and
   precision setting that was given was taken by some phase (run_request.py's module docstring). *)
NothingIgnored == progress = "done" => AskedFor \subseteq taken

(* A request that was accepted does not fail later for market data, a simulated curve, a rate or a
   risk factor that one of its trades reads: that is a 400, not a failed run (validate_request). *)
TradesChecked == \A why \in cause : why[1] # "trade"

(* What validate_request accepts runs, and runs as it was asked. *)
AcceptedRunsAsAsked == NothingIgnored /\ TradesChecked

(* No block of a scaled array, nor of the paired sample, holds paths of two scrambles: a replicate's
   figures depend on that replicate alone, which its standard error needs (validate_sampling). *)
BlocksWithinReplicates ==
  \A array \in stored : array.scaled =>
    LET scramble(path) == path \div (array.paths \div array.replicates)
    IN  \A path \in 0..array.paths - 2 :
          (path + 1) % BLOCK # 0 => scramble(path) = scramble(path + 1)

(* No phase computes in a format, or runs a product, that the worker's device refuses: the stages and
   roles checked before any work are all that the phases of that request use (prepare_execution). *)
NoUncheckedFormat ==
  \A used \in computed :
    /\ used[1] = "format"  => FormatRuns(used[2], platform)
    /\ used[1] = "product" => ProductRuns(used[2], request.precision.mode, platform)

(* The checks of a precision setting hold where it is used: in the formats and the blocks of paths. *)
FormatsAreChecked == BlocksWithinReplicates /\ NoUncheckedFormat

=============================================================================
