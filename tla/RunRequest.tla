----------------------------- MODULE RunRequest -----------------------------
(***************************************************************************)
(* A run request and the structural check it passes before it is queued    *)
(* (src/engine/run/run_request.py, validate_run, and the checks it calls). *)
(* A market is the set of items it quotes; a trade is what the checks and  *)
(* the analytics read of it.  A section that was not sent has given =      *)
(* FALSE; a section with defaults is "default" or "set".  Quantiles, bump  *)
(* sizes and seeds are left out: their values decide nothing here.         *)
(***************************************************************************)
EXTENDS RunPrecision, SequencesExt

CONSTANT ASOF   \* the market's as-of day

ASSUME AsofAssumption == ASOF \in Nat

ANALYTICS           == {"npv", "exposure", "sensitivities", "market_risk", "calibration"}
PORTFOLIO_ANALYTICS == {"npv", "exposure", "sensitivities"}
TRADE_ANALYTICS     == PORTFOLIO_ANALYTICS \cup {"market_risk"}

wants(request, analytics) == Range(request.analytics) \cap analytics # {}

---------------------------------------------------------------------------
(* The market: <<"currency", c>>, <<"index", c, months>>, <<"vols", c>>, <<"spot", foreign, domestic>>
   and <<"equity", name, c>>; an index curve whose name gives no tenor has months = 0. *)

MarketAccepted(market) ==
  /\ \E item \in market : item[1] = "currency"
  /\ \A item \in market :
       /\ item[1] = "spot" => <<"currency", item[2]>> \in market /\ <<"currency", item[3]>> \in market
       /\ item[1] = "equity" => <<"currency", item[3]>> \in market

(* A conversion is quoted either way, never a cross; an equity is looked up by its name. *)
Found(market, need) ==
  CASE need[1] = "fx" ->
         need[2] = need[3] \/ <<"spot", need[2], need[3]>> \in market \/ <<"spot", need[3], need[2]>> \in market
    [] need[1] = "equity" -> \E item \in market : item[1] = "equity" /\ item[2] = need[2]
    [] OTHER -> need \in market

---------------------------------------------------------------------------
(* The trades. *)

OPTIONS  == {"bermudan_swaption", "american_swaption"}
PRODUCTS == {"swap", "european_swaption", "bond"} \cup OPTIONS

reads_swaption_vols(trade, pricing) ==
  \/ trade.product = "european_swaption" /\ pricing.european = "Bachelier"
  \/ trade.product \in OPTIONS /\ trade.product \in pricing.calibrates

curve_keys(trade) ==
  {<<"currency", trade.currency>>} \cup
  (IF trade.product = "bond" THEN {} ELSE {<<"index", trade.currency, trade.tenor>>})

TradeItems(trade, pricing) ==
  curve_keys(trade) \cup (IF reads_swaption_vols(trade, pricing) THEN {<<"vols", trade.currency>>} ELSE {})

(* validate_trades: a live European must exercise into whole periods, and physically for Jamshidian. *)
TradesAccepted(request) ==
  /\ OverridesAccepted(request.precision, Range(request.portfolio), PRODUCTS)
  /\ \A trade \in Range(request.portfolio) :
       /\ trade.on = ASOF
       /\ \A need \in TradeItems(trade, request.pricing) : Found(request.market, need)
       /\ trade.product = "european_swaption" /\ ~trade.expired =>
            trade.whole /\ (request.pricing.european = "Jamshidian" => trade.physical)

reporting_fx_spots(request) ==
  {<<"currency", request.base_currency>>}
  \cup {<<"fx", trade.currency, request.base_currency>> : trade \in Range(request.portfolio)}

ReportingAccepted(request) == \A need \in reporting_fx_spots(request) : Found(request.market, need)

---------------------------------------------------------------------------
(* The models and the simulation. *)

calibrated(models) == {c \in DOMAIN models.ir : models.ir[c].calibrated}

(* RunRequestConfig.cam: the cross-asset model's configuration can be built. *)
CamAccepted(request) ==
  LET models == request.models
      simulation == request.simulation
  IN  /\ simulation.dates # <<>>
      /\ \A i \in 1..Len(simulation.dates) - 1 : simulation.dates[i] < simulation.dates[i + 1]
      /\ request.base_currency \in DOMAIN models.ir
      /\ models.fx = DOMAIN models.ir \ {request.base_currency}
      /\ simulation.samples >= 1
      /\ ReplicatesAccepted(simulation.samples, simulation.replicates)

(* The basket of a currency's model reads its curves and volatilities. *)
BasketItems(c, model) == {<<"currency", c>>, <<"index", c, model.tenor>>, <<"vols", c>>}

---------------------------------------------------------------------------
(* validate_run, part by part. *)

AnalyticsAccepted(request) ==
  /\ request.analytics # <<>>
  /\ Range(request.analytics) \subseteq ANALYTICS
  /\ IsInjective(request.analytics)

AdjustedPrecision(p) ==
  LET baseline == Profile(p.profile)
  IN  [p EXCEPT !.internal = baseline.internal, !.backend = baseline.backend, !.mode = baseline.mode]

Needs == [models |-> {"exposure", "calibration"}, simulation |-> {"exposure"}, market_risk |-> {"market_risk"}]

Readers == [base_currency |-> TRADE_ANALYTICS, models |-> {"exposure", "calibration"},
            simulation |-> {"exposure"}, pricing |-> TRADE_ANALYTICS, sensitivity |-> {"sensitivities"},
            exposure |-> {"exposure"}, market_risk |-> {"market_risk"}]

(* The sections of a request that are not at their defaults. *)
GivenSections(request) ==
  {s \in DOMAIN Readers :
     CASE s \in {"models", "simulation", "market_risk"} -> request[s].given
       [] s = "base_currency"                           -> request.base_currency # "USD"
       [] s = "pricing"                                 -> request.pricing.given
       [] OTHER                                         -> request[s] = "set"}

(* Mutant: a currency with nothing to calibrate is let through. *)
ModelsForCalibrationAccepted_AnyModel(models) ==
  models.fx = {} /\ models.equities = {} /\ models.correlations = {}

ModelsForCalibrationAccepted(models) ==
  DOMAIN models.ir = calibrated(models) /\ models.fx = {} /\ models.equities = {} /\ models.correlations = {}

MarketRiskPrecisionAccepted(p) ==
  /\ p.stages["market"] = Throughout(p.profile)
  /\ p.stages["simulation"].compute = p.stages["simulation"].accumulate

SectionsAccepted(request) ==
  /\ ~wants(request, {"exposure", "market_risk"}) =>
       AdjustedPrecision(request.precision) = Profile(request.precision.profile)
  /\ \A s \in DOMAIN Needs : wants(request, Needs[s]) => request[s].given
  /\ \A s \in GivenSections(request) : wants(request, Readers[s])
  /\ request.portfolio # <<>> => wants(request, TRADE_ANALYTICS)
  /\ ~request.include_npv_cube => wants(request, {"exposure"})
  /\ request.models.given /\ ~wants(request, {"exposure"}) => ModelsForCalibrationAccepted(request.models)
  /\ wants(request, {"market_risk"}) => MarketRiskPrecisionAccepted(request.precision)

PortfolioAccepted(request) ==
  /\ TradesAccepted(request)
  /\ wants(request, {"exposure"}) =>
       /\ CamAccepted(request)
       /\ SamplingAccepted(request.precision, request.simulation.samples, request.simulation.replicates)
       /\ \A trade \in Range(request.portfolio) : trade.currency \in DOMAIN request.models.ir
  /\ ReportingAccepted(request)

(* Every factor is the market's curve of its name, and every curve a trade reads is a factor. *)
FactorsAccepted(request) ==
  /\ request.market_risk.factors \subseteq request.market
  /\ request.market_risk.same
  /\ \A trade \in Range(request.portfolio) : curve_keys(trade) \subseteq request.market_risk.factors

MarketRiskAccepted(request) ==
  LET risk == request.market_risk
  IN  /\ request.portfolio # <<>>
      /\ \A s \in {"simulation", "market"} : request.precision.stages[s].compute_rounding = "nearest"
      /\ risk.batch >= 1
      /\ TradesAccepted(request)
      /\ ReportingAccepted(request)
      /\ FactorsAccepted(request)
      /\ SamplingAccepted(request.precision, risk.count, risk.replicates)

CalibrationAccepted(request) ==
  /\ calibrated(request.models) # {}
  /\ \A c \in calibrated(request.models) :
       \A need \in BasketItems(c, request.models.ir[c]) : Found(request.market, need)

(* What the constructors refuse before validate_run sees the request. *)
Constructed(request) ==
  /\ MarketAccepted(request.market)
  /\ IsInjective([i \in DOMAIN request.portfolio |-> request.portfolio[i].id])
  /\ request.models.given => DOMAIN request.models.ir # {}
  /\ (request.pricing.european = "Jamshidian") = request.pricing.jamshidian
  /\ PolicyAccepted(request.precision)

validate_run(request) ==
  /\ AnalyticsAccepted(request)
  /\ SectionsAccepted(request)
  /\ wants(request, PORTFOLIO_ANALYTICS) => PortfolioAccepted(request)
  /\ wants(request, {"market_risk"}) => MarketRiskAccepted(request)
  /\ wants(request, {"calibration"}) => CalibrationAccepted(request)

---------------------------------------------------------------------------
(* What the worker adds: the stages and the internal roles this request is said to compute in. *)

RunStages(request) ==
  CASE wants(request, {"exposure"}) -> STAGES
    [] ~wants(request, {"exposure"}) /\ wants(request, {"market_risk"}) -> {"simulation", "pricing"}
    [] OTHER -> {}

RunRoles(request) ==
  {"calibration", "output"}
  \cup (IF wants(request, TRADE_ANALYTICS) THEN {"reductions"} ELSE {})
  \cup (IF wants(request, PORTFOLIO_ANALYTICS) THEN {"initial_values"} ELSE {})
  \cup (IF wants(request, {"exposure"}) THEN {"levels"} ELSE {})
  \cup (IF wants(request, {"sensitivities"}) THEN {"greeks"} ELSE {})

RunExecutionAccepted(request, platform) ==
  ExecutionAccepted(request.precision, RunStages(request), Range(request.portfolio), RunRoles(request), platform)
=============================================================================
