------------------------------ MODULE RunWire ------------------------------
(***************************************************************************)
(* A run request on the wire: the body a caller posts, the request built   *)
(* of it and the configuration the result echoes (src/engine/api/          *)
(* requests.py).  An object of the body is a function from the fields sent *)
(* to their values; a schema is the fields it requires and the values of   *)
(* the others, and the configuration classes of the engine repeat those.   *)
(* Values are names; a date or a period is "good" or does not parse        *)
(* ("bad"); a volatility is piecewise, a constant having no times.         *)
(* Product options, rounding seeds and the GEMM choice stay at defaults.   *)
(***************************************************************************)
EXTENDS RiskFactors, TLC

CONSTANT Bodies   \* the bodies posted

VARIABLES submission,     \* the body, or Unsent
          built_request,  \* the request built of it: ok, or refused
          rebuilt         \* that of the configuration the result echoes

wireVars == <<submission, built_request, rebuilt>>

---------------------------------------------------------------------------
(* Objects and their schemas. *)

Fields(required, defaults) == [required |-> required, defaults |-> defaults]
Sends(object, field) == field \in DOMAIN object

Takes(schema, object) ==
  schema.required \subseteq DOMAIN object /\ DOMAIN object \subseteq schema.required \cup DOMAIN schema.defaults

Filled(schema, object) == object @@ schema.defaults
Nothing_sent == [field \in {} |-> Unsent]
SectionOf(object, field) == IF Sends(object, field) THEN object[field] ELSE Nothing_sent

Constantly(v) == [times |-> <<>>, values |-> <<v>>]
NoVolatilities == [name \in {} |-> Constantly("0.01")]

(* A piecewise volatility has a value to each bucket, and increasing positive times. *)
VolatilityTaken(v) ==
  /\ Len(v.values) = Len(v.times) + 1
  /\ \A i \in DOMAIN v.times : v.times[i] > (IF i = 1 THEN 0 ELSE v.times[i - 1])

---------------------------------------------------------------------------
(* The schemas of the configuration, and the engine's classes they mirror. *)

SimulationSchema == Fields({"dates"}, [samples |-> "1000", seed |-> "42", replicates |-> "1",
                                       curve_tenors |-> "standard", swaption_vol_decay |-> "ForwardVariance"])
SimulationParameters == [samples |-> "1000", seed |-> "42", replicates |-> "1",
                         curve_tenors |-> "standard", swaption_vol_decay |-> "ForwardVariance"]

SensitivitySchema == Fields({}, [method |-> "Bump", curve_tenors |-> "standard", curve_shift |-> "1e-4",
                                 vol_shift |-> "1e-4", theta_days |-> "1"])
GreeksConfig == [method |-> "Bump", curve_tenors |-> "standard", curve_shift |-> "1e-4", vol_shift |-> "1e-4",
                 theta_days |-> "1"]

ExposureSchema == Fields({}, [pfe_quantiles |-> <<"0.95", "0.99">>])
ExposureConfig == [pfe_quantiles |-> <<"0.95", "0.99">>]

SwapIndexConventionsSchema ==
  Fields({}, [fixed_tenor |-> "1Y", fixed_day_counter |-> "ACT/365", index_tenor_months |-> "6"])
SwapIndexConventions == [fixed_tenor |-> "1Y", fixed_day_counter |-> "ACT/365", index_tenor_months |-> "6"]

LgmEngineSchema ==
  Fields({}, [reversion |-> "0.0", volatility |-> "0.01", calibration |-> "Bootstrap", strategy |-> "CoterminalDealStrike",
              bootstrap_tolerance |-> "1e-4", reference_calibration_grid |-> "400,3M", shift_horizon |-> "0.5",
              n_per_std |-> "30", std_devs |-> "5.0", exercise_time_steps_per_year |-> "24",
              swap_index |-> SwapIndexConventionsSchema.defaults, solver |-> "Newton"])
LgmSwaptionEngineConfig ==
  [reversion |-> "0.0", volatility |-> "0.01", calibration |-> "Bootstrap", strategy |-> "CoterminalDealStrike",
   bootstrap_tolerance |-> "1e-4", reference_calibration_grid |-> "400,3M", shift_horizon |-> "0.5",
   n_per_std |-> "30", std_devs |-> "5.0", exercise_time_steps_per_year |-> "24",
   swap_index |-> SwapIndexConventions, solver |-> "Newton"]

JamshidianEngineSchema == Fields({"reversion", "volatility"}, [solver |-> "Newton"])
JamshidianEngineConfig == [solver |-> "Newton"]
PricingConfigSchema ==
  Fields({}, [european |-> "Bachelier", jamshidian |-> Unsent,
              bermudan |-> LgmEngineSchema.defaults, american |-> LgmEngineSchema.defaults])
PricingConfig == [european |-> "Bachelier", jamshidian |-> Unsent,
                  bermudan |-> LgmSwaptionEngineConfig, american |-> LgmSwaptionEngineConfig]

LgmConfigSchema ==
  Fields({"reversion"}, [model |-> "LGM", volatility |-> Constantly("0.01"), calibration_expiries |-> <<>>,
                         calibration_terms |-> <<>>, swap_index |-> SwapIndexConventionsSchema.defaults,
                         solver |-> "Newton"])
HullWhiteConfigSchema == Fields({"reversion", "model"}, LgmConfigSchema.defaults)
LgmConfig == [model |-> "LGM", volatility |-> Constantly("0.01"), calibration_expiries |-> <<>>,
              calibration_terms |-> <<>>, swap_index |-> SwapIndexConventions, solver |-> "Newton"]

ModelsSchema == Fields({"ir"}, [fx_volatilities |-> NoVolatilities, equity_volatilities |-> NoVolatilities,
                                correlations |-> {}, bootstrap_tolerance |-> "1e-4"])
ModelsConfig == [fx_volatilities |-> NoVolatilities, equity_volatilities |-> NoVolatilities,
                 correlations |-> {}, bootstrap_tolerance |-> "1e-4"]

MonteCarloScenariosSchema ==
  Fields({"source", "factors", "horizon_days", "covariance", "num_scenarios"}, [seed |-> "42", replicates |-> 1])
HistoricalScenariosSchema ==
  Fields({"source", "factors", "horizon_days", "history"},
         [dates |-> Unsent, bootstrap_replicates |-> 128, block_length |-> Unsent, bootstrap_seed |-> 42])
MarketRiskSchema == Fields({"scenarios"}, [quantiles |-> <<"0.99", "0.975">>, batch_size |-> "256"])
MonteCarloScenarios == [seed |-> "42", replicates |-> 1]
MarketRiskConfig == [quantiles |-> <<"0.99", "0.975">>, batch_size |-> "256"]

ExecutionPolicySchema == Fields({}, [backend |-> "default", mode |-> "native"])
InternalPrecisionSchema == Fields({}, [r \in ROLES |-> "float64"])
StagePrecisionSchema == Fields({}, Throughout("float64"))
PrecisionSchema ==
  Fields({}, [profile |-> "float64", simulation |-> StagePrecisionSchema.defaults, market |-> StagePrecisionSchema.defaults,
              pricing |-> StagePrecisionSchema.defaults, by_product |-> NoOverride, by_trade |-> NoOverride,
              rounding |-> "nearest", offset |-> "block", paired |-> 0, storage_scaling |-> "power_of_two",
              internal |-> InternalPrecisionSchema.defaults, execution |-> ExecutionPolicySchema.defaults])

OutputsSchema == Fields({}, [npv_cube |-> "artifact", exercised |-> "none", pnl |-> "artifact"])
PRODUCED_BY == [npv_cube |-> "exposure", exercised |-> "exposure", pnl |-> "market_risk"]

RunRequestConfigSchema ==
  Fields({}, [base_currency |-> "USD", models |-> Unsent, simulation |-> Unsent,
              pricing |-> PricingConfigSchema.defaults, sensitivity |-> SensitivitySchema.defaults,
              exposure |-> ExposureSchema.defaults, market_risk |-> Unsent,
              precision |-> PrecisionSchema.defaults, execution |-> Unsent])
RunRequestConfig ==
  [base_currency |-> "USD", models |-> Unsent, simulation |-> Unsent, pricing |-> PricingConfig,
   sensitivity |-> GreeksConfig, exposure |-> ExposureConfig, market_risk |-> Unsent,
   precision |-> Profile("float64"), execution |-> Unsent]

---------------------------------------------------------------------------
(* The trades. *)

SwapFields == [currency |-> "USD", effective_date |-> Unsent, maturity_date |-> Unsent, swap_tenor |-> Unsent,
              index_tenor_months |-> "6", floating_spread |-> "0.0", trade_id |-> Unsent]
OptionTerms == SwapFields @@ [settlement |-> "Physical", long_short |-> "Long"]
SWAP_REQUIRES == {"trade_type", "notional", "fixed_rate", "payer"}

TradeSchemas ==
  [swap |-> Fields(SWAP_REQUIRES, SwapFields @@ [accrual_day_count |-> "ACT/365", fixings |-> {}]),
   european_swaption |-> Fields(SWAP_REQUIRES, OptionTerms @@ [exercise_date |-> Unsent, forward_start |-> Unsent,
                                                               exercise_lag_days |-> Unsent]),
   bermudan_swaption |-> Fields(SWAP_REQUIRES \cup {"exercise_dates"}, OptionTerms @@ [fixings |-> {}]),
   american_swaption |-> Fields(SWAP_REQUIRES \cup {"first_exercise_date", "last_exercise_date"},
                                OptionTerms @@ [fixings |-> {}]),
   bond |-> Fields({"trade_type", "face_amount", "maturity_date"},
                   [trade_id |-> Unsent, currency |-> "USD", coupon_rate |-> "0.0", coupon_schedule |-> <<>>,
                    redemption_fraction |-> "1.0", accrual_day_count |-> "ACT/ACT (ICMA)"])]

(* The engine's trade classes, and what each defaults. *)
TradeClasses ==
  LET swap == [currency |-> "USD", effective_date |-> Unsent, maturity_date |-> Unsent, swap_tenor |-> Unsent,
               index_tenor_months |-> "6", floating_spread |-> "0.0"]
      option == swap @@ [settlement |-> "Physical", long_short |-> "Long"]
  IN  [swap |-> swap @@ [accrual_day_count |-> "ACT/365", fixings |-> {}],
       european_swaption |-> option @@ [exercise_date |-> Unsent, forward_start |-> Unsent, exercise_lag_days |-> Unsent],
       bermudan_swaption |-> option @@ [fixings |-> {}], american_swaption |-> option @@ [fixings |-> {}],
       bond |-> [currency |-> "USD", coupon_rate |-> "0.0", coupon_schedule |-> <<>>, redemption_fraction |-> "1.0",
                 accrual_day_count |-> "ACT/ACT (ICMA)"]]

(* The fields that are dates or periods, and those that are several. *)
DATE_FIELDS == {"effective_date", "maturity_date", "exercise_date", "forward_start",
                "first_exercise_date", "last_exercise_date"}
DateLists(trade) ==
  UNION ({{trade[f][i] : i \in DOMAIN trade[f]} : f \in DOMAIN trade \cap {"exercise_dates", "coupon_schedule"}}
         \cup {trade[f] : f \in DOMAIN trade \cap {"fixings"}})

TradeTaken(trade) ==
  /\ Takes(TradeSchemas[trade.trade_type], trade)
  /\ \A f \in DOMAIN trade \cap DATE_FIELDS : trade[f] \in {Unsent, "good"}
  /\ DateLists(trade) \subseteq {"good"}

IdsTaken(trades) ==
  LET unnamed == {n \in DOMAIN trades : ~Sends(trades[n], "trade_id")}
  IN  unnamed = {} \/ unnamed = DOMAIN trades

(* Every trade its own id, or none and its place. *)
TradeFilled(trades, n) == Filled(TradeSchemas[trades[n].trade_type], trades[n])
TradeId(trades, n) == IF Sends(trades[1], "trade_id") THEN trades[n].trade_id ELSE <<"trade", n - 1>>
TradesOf(trades) == [n \in DOMAIN trades |-> [TradeFilled(trades, n) EXCEPT !.trade_id = TradeId(trades, n)]]

---------------------------------------------------------------------------
(* The precision: a float32 profile fills what its stages, overrides and roles leave out. *)

Retired == {"risk", "calibration"}
Baseline == [storage |-> "float32", compute |-> "float32", accumulate |-> "float32"]

Over(object, baseline) == object @@ baseline

Expanded(p) ==
  IF ~Sends(p, "profile") \/ p.profile # "float32" THEN p
  ELSE [f \in STAGES |-> Over(SectionOf(p, f), Baseline)]
       @@ [f \in {"by_product", "by_trade"} |-> [key \in DOMAIN SectionOf(p, f) |-> Over(p[f][key], Baseline)]]
       @@ [internal |-> Over(SectionOf(p, "internal"), [r \in ROLES |-> "float32"])]
       @@ p

PrecisionFilled(sent) ==
  LET p == Filled(PrecisionSchema, Expanded(sent))
  IN  [f \in DOMAIN p |->
         CASE f \in STAGES -> Filled(StagePrecisionSchema, p[f])
           [] f \in {"by_product", "by_trade"} -> [key \in DOMAIN p[f] |-> Filled(StagePrecisionSchema, p[f][key])]
           [] f = "internal" -> Filled(InternalPrecisionSchema, p[f])
           [] f = "execution" -> Filled(ExecutionPolicySchema, p[f])
           [] OTHER -> p[f]]

PrecisionTaken(p) ==
  /\ DOMAIN p \cap Retired = {}
  /\ Takes(PrecisionSchema, p)
  /\ \A f \in DOMAIN p \cap STAGES : Takes(StagePrecisionSchema, p[f])
  /\ \A f \in DOMAIN p \cap {"by_product", "by_trade"} : \A key \in DOMAIN p[f] : Takes(StagePrecisionSchema, p[f][key])
  /\ Takes(InternalPrecisionSchema, SectionOf(p, "internal")) /\ Takes(ExecutionPolicySchema, SectionOf(p, "execution"))

PrecisionOf(p) ==
  [profile |-> p.profile, stages |-> [s \in STAGES |-> p[s]], by_product |-> p.by_product, by_trade |-> p.by_trade,
   rounding |-> p.rounding, offset |-> p.offset, paired |-> p.paired, storage_scaling |-> p.storage_scaling,
   internal |-> p.internal, backend |-> p.execution.backend, mode |-> p.execution.mode]

---------------------------------------------------------------------------
(* The other sections with an object inside. *)

IrSchema(model) == IF Sends(model, "model") /\ model.model = "HullWhite" THEN HullWhiteConfigSchema ELSE LgmConfigSchema
SwapIndexFilled(object) ==
  [object EXCEPT !.swap_index = Filled(SwapIndexConventionsSchema, object.swap_index)]
ModelFilled(model) == SwapIndexFilled(Filled(IrSchema(model), model))
EngineFilled(engine) == SwapIndexFilled(Filled(LgmEngineSchema, engine))

ScenariosSchema(s) == IF s.source = "monte-carlo" THEN MonteCarloScenariosSchema ELSE HistoricalScenariosSchema

ModelTaken(model) ==
  LET filled == Filled(IrSchema(model), model)
  IN  /\ Takes(IrSchema(model), model) /\ Takes(SwapIndexConventionsSchema, filled.swap_index)
      /\ VolatilityTaken(filled.volatility)
      /\ Len(filled.calibration_expiries) = Len(filled.calibration_terms)

SectionTaken(name, object) ==
  CASE name = "simulation" -> Takes(SimulationSchema, object) /\ Range(object.dates) \subseteq {"good"}
    [] name = "sensitivity" -> Takes(SensitivitySchema, object)
    [] name = "exposure" -> Takes(ExposureSchema, object) /\ IsInjective(Filled(ExposureSchema, object).pfe_quantiles)
    [] name = "market_risk" -> Takes(MarketRiskSchema, object) /\ Takes(ScenariosSchema(object.scenarios), object.scenarios)
    [] name = "models" -> Takes(ModelsSchema, object) /\ object.ir # Nothing_sent
                          /\ \A c \in DOMAIN object.ir : ModelTaken(object.ir[c])
    [] name = "execution" -> Takes(ExecutionPolicySchema, object)
    [] name = "precision" -> PrecisionTaken(object)
    [] name = "pricing" ->
         /\ Takes(PricingConfigSchema, object)
         /\ \A f \in DOMAIN object \cap {"bermudan", "american"} : Takes(LgmEngineSchema, object[f])
         /\ LET p == Filled(PricingConfigSchema, object)
            IN  IF p.european = "Jamshidian" THEN p.jamshidian # Unsent /\ Takes(JamshidianEngineSchema, p.jamshidian)
                ELSE p.jamshidian = Unsent
    [] OTHER -> name = "base_currency"

SectionFilled(name, object) ==
  CASE name = "simulation" -> Filled(SimulationSchema, object)
    [] name = "sensitivity" -> Filled(SensitivitySchema, object)
    [] name = "exposure" -> Filled(ExposureSchema, object)
    [] name = "market_risk" ->
         [Filled(MarketRiskSchema, object) EXCEPT !.scenarios = Filled(ScenariosSchema(object.scenarios), object.scenarios)]
    [] name = "models" ->
         [Filled(ModelsSchema, object) EXCEPT !.ir = [c \in DOMAIN object.ir |-> ModelFilled(object.ir[c])]]
    [] name = "execution" -> Filled(ExecutionPolicySchema, object)
    [] name = "precision" -> PrecisionFilled(object)
    [] name = "pricing" ->
         LET p == Filled(PricingConfigSchema, object)
         IN  [p EXCEPT !.bermudan = EngineFilled(p.bermudan), !.american = EngineFilled(p.american),
                       !.jamshidian = IF p.jamshidian = Unsent THEN Unsent
                                      ELSE Filled(JamshidianEngineSchema, p.jamshidian)]
    [] OTHER -> object

ConfigFilled(config) ==
  [name \in DOMAIN RunRequestConfigSchema.defaults |->
     IF Sends(config, name) /\ config[name] # Unsent THEN SectionFilled(name, config[name])
     ELSE RunRequestConfigSchema.defaults[name]]

(* The curves a label list names, in the order first named; every pillar of each must follow. *)
CurvesNamed(given) ==
  LET name(i) == given[i][1]
      first == SelectSeq([i \in DOMAIN given |-> i], LAMBDA i : \A k \in 1..i - 1 : name(k) # name(i))
  IN  [k \in DOMAIN first |-> name(first[k])]

risk_factors(given, quoted) ==
  LET every == from_market(quoted)
      names == CurvesNamed(given)
  IN  IF Range(names) \subseteq Range(NamesOf(every))
      THEN [k \in DOMAIN names |-> every[index_of(every, names[k])]] ELSE <<>>

FactorsTaken(given, quoted) ==
  LET factors == risk_factors(given, quoted)
  IN  RateFactorsAccepted(from_market(quoted)) /\ RateFactorsAccepted(factors) /\ labels(factors) = given

ScenariosTaken(s, quoted) ==
  /\ FactorsTaken(s.factors, quoted)
  /\ IF s.source = "monte-carlo"
     THEN validate_monte_carlo([s EXCEPT !.factors = risk_factors(s.factors, quoted)])
     ELSE /\ HistoryAccepted(s.history, s.horizon_days) /\ HistoryDated(s.dates, s.history)
          /\ \A d \in DOMAIN s.history : Len(s.history[d]) = Len(s.factors)
          /\ s.bootstrap_replicates >= 2
          /\ s.block_length = Unsent \/ s.block_length \in s.horizon_days..Len(s.history) - s.horizon_days

---------------------------------------------------------------------------
(* The whole request: a section of the body is checked where it is built. *)

ConfigTaken(config) ==
  DOMAIN config \subseteq DOMAIN RunRequestConfigSchema.defaults
  /\ \A name \in DOMAIN config : config[name] # Unsent => SectionTaken(name, config[name])

(* config.execution replaces the policy's own, which may not contradict it. *)
ExecutionAgrees(config) ==
  LET legacy == config.precision.execution
  IN  config.execution # Unsent => legacy \in {ExecutionPolicySchema.defaults, config.execution}

OutputsTaken(outputs, analytics) ==
  /\ Takes(OutputsSchema, outputs)
  /\ \A name \in DOMAIN outputs :
       outputs[name] # OutputsSchema.defaults[name] => PRODUCED_BY[name] \in Range(analytics)

BodyTaken(body) ==
  /\ body.market.asof = "good"
  /\ \A n \in DOMAIN body.portfolio : TradeTaken(body.portfolio[n])
  /\ IdsTaken(body.portfolio) /\ IsInjective([n \in DOMAIN body.portfolio |-> TradeId(body.portfolio, n)])
  /\ ConfigTaken(body.config) /\ OutputsTaken(body.outputs, body.analytics)
  /\ LET config == ConfigFilled(body.config)
     IN  /\ ExecutionAgrees(config) /\ PolicyAccepted(PrecisionOf(config.precision))
         /\ config.market_risk # Unsent => ScenariosTaken(config.market_risk.scenarios, body.market.quoted)

(* Mutant: the pricing section is left out of what the run is built of. *)
ConfigOf_NoPricing(filled) ==
  LET execution == IF filled.execution = Unsent THEN filled.precision.execution ELSE filled.execution
  IN  [filled EXCEPT !.precision = PrecisionOf([filled.precision EXCEPT !.execution = execution]), !.pricing = PricingConfig]

ConfigOf(filled) ==
  LET execution == IF filled.execution = Unsent THEN filled.precision.execution ELSE filled.execution
  IN  [filled EXCEPT !.precision = PrecisionOf([filled.precision EXCEPT !.execution = execution])]

RequestOf(body) ==
  IF ~BodyTaken(body) THEN [ok |-> FALSE]
  ELSE [ok |-> TRUE, analytics |-> body.analytics, trades |-> TradesOf(body.portfolio),
        config |-> ConfigOf(ConfigFilled(body.config)), outputs |-> Filled(OutputsSchema, body.outputs),
        include_npv_cube |-> Filled(OutputsSchema, body.outputs).npv_cube # "none"]

(* The body as the API parsed it, every default filled in: what is hashed for a key, and whose
   configuration the result repeats. *)
Canonical(body) ==
  [body EXCEPT !.config = ConfigFilled(body.config), !.outputs = Filled(OutputsSchema, body.outputs)]

WireInit == submission = Unsent /\ built_request = Unsent /\ rebuilt = Unsent

PostBody(body) ==
  /\ submission = Unsent
  /\ submission' = body /\ built_request' = RequestOf(body)
  /\ UNCHANGED rebuilt

(* The echoed configuration is sent again with the same market and trades. *)
PostEcho ==
  /\ submission # Unsent /\ built_request.ok /\ rebuilt = Unsent
  /\ rebuilt' = RequestOf(Canonical(submission))
  /\ UNCHANGED <<submission, built_request>>

WireNext ==
  \/ submission = Unsent /\ \E body \in Bodies : PostBody(body)
  \/ PostEcho

---------------------------------------------------------------------------
(* Properties. *)

Built == submission # Unsent /\ built_request.ok

(* The objects of a body, each named by its place in the configuration; a field that holds an object
   is a place of its own.  The precision, whose profile is part of its defaults, is compared apart. *)
ObjectFields == {"bermudan", "american", "jamshidian", "swap_index", "ir", "scenarios"}
Reached(object, place) == FoldLeft(SectionOf, object, place)

Places ==
  LET sent == submission.config
      options == {<<"pricing", "bermudan">>, <<"pricing", "american">>}
                 \cup {<<"models", "ir", c>> : c \in DOMAIN Reached(sent, <<"models", "ir">>)}
  IN  {<<"sensitivity">>, <<"exposure">>, <<"pricing">>}
      \cup {<<name>> : name \in DOMAIN sent \cap {"simulation", "models", "market_risk"}}
      \cup {<<name, "scenarios">> : name \in DOMAIN sent \cap {"market_risk"}}
      \cup {<<"pricing", name>> : name \in DOMAIN Reached(sent, <<"pricing">>) \cap {"jamshidian"}}
      \cup options \cup {Append(place, "swap_index") : place \in options}

(* The engine's class of the object at a place: its defaults. *)
ClassAt(place) ==
  LET field == place[Len(place)]
  IN  CASE field = "swap_index" -> SwapIndexConventions
        [] field \in {"bermudan", "american"} -> LgmSwaptionEngineConfig
        [] field = "jamshidian" -> JamshidianEngineConfig
        [] field = "scenarios" ->
             IF Reached(submission.config, place).source = "monte-carlo" THEN MonteCarloScenarios
             ELSE [dates |-> Unsent, bootstrap_replicates |-> BootstrapDefaults.replicates,
                   block_length |-> BootstrapDefaults.block_length, bootstrap_seed |-> BootstrapDefaults.seed]
        [] field = "simulation" -> SimulationParameters
        [] field = "models" -> ModelsConfig
        [] field = "market_risk" -> MarketRiskConfig
        [] field \in {"sensitivity", "exposure", "pricing"} -> RunRequestConfig[field]
        [] OTHER -> LgmConfig

(* Every value sent is in the object built; every field not sent has the default of its class. *)
Holds(sent, got) == \A f \in DOMAIN sent \ ObjectFields : got[f] = sent[f]
Defaults(sent, class, got) == \A f \in DOMAIN class \ (DOMAIN sent \cup ObjectFields) : got[f] = class[f]

(* The parts of the precision that was sent, and the policy sent for the execution. *)
PrecisionFields == {"profile", "rounding", "offset", "paired", "storage_scaling"}
SentPrecision(field) == Reached(submission.config, <<"precision", field>>)
SentExecution ==
  IF Sends(submission.config, "execution") THEN submission.config.execution ELSE SentPrecision("execution")

(* What was sent arrives, each value at its own place: every object of the configuration, the
   precision's stages, overrides, roles and own fields, the execution, the outputs and the trades. *)
SentIsAsked ==
  Built =>
    LET config == built_request.config
        policy == config.precision
        sent == submission.config
    IN  /\ \A place \in Places : Holds(Reached(sent, place), Reached(config, place))
        /\ Sends(sent, "base_currency") => config.base_currency = sent.base_currency
        /\ \A f \in DOMAIN SectionOf(sent, "precision") \cap PrecisionFields : policy[f] = sent.precision[f]
        /\ \A s \in STAGES : Holds(SentPrecision(s), policy.stages[s])
        /\ \A group \in {"by_product", "by_trade"} : \A key \in DOMAIN SentPrecision(group) :
             Holds(SentPrecision(group)[key], policy[group][key])
        /\ Holds(SentPrecision("internal"), policy.internal) /\ Holds(SentExecution, policy)
        /\ Holds(submission.outputs, built_request.outputs) /\ built_request.analytics = submission.analytics
        /\ \A n \in DOMAIN submission.portfolio : Holds(submission.portfolio[n], built_request.trades[n])

(* What was not sent is the engine's own default, the wire's tables being written by hand beside the
   engine's classes: in every object, in an object left out, and in a trade.  A section left out is
   not "given" to an analytic that does not read it, and a profile fills the stages, overrides and
   roles it was sent with. *)
UnsentIsDefault ==
  Built =>
    LET config == built_request.config
        policy == config.precision
        sent == submission.config
        baseline == Profile(policy.profile)
        stage == Throughout(policy.profile)
    IN  /\ \A place \in Places : Defaults(Reached(sent, place), ClassAt(place), Reached(config, place))
        /\ \A name \in {"base_currency", "models", "simulation", "market_risk", "execution"} \ DOMAIN sent :
             config[name] = RunRequestConfig[name]
        /\ <<"pricing", "jamshidian">> \notin Places => config.pricing.jamshidian = PricingConfig.jamshidian
        /\ \A f \in PrecisionFields \ DOMAIN SectionOf(sent, "precision") :
             policy[f] = (IF f = "profile" THEN "float64" ELSE baseline[f])
        /\ \A s \in STAGES : Defaults(SentPrecision(s), stage, policy.stages[s])
        /\ \A group \in {"by_product", "by_trade"} :
             /\ DOMAIN policy[group] = DOMAIN SentPrecision(group)
             /\ \A key \in DOMAIN SentPrecision(group) : Defaults(SentPrecision(group)[key], stage, policy[group][key])
        /\ Defaults(SentPrecision("internal"), baseline.internal, policy.internal)
        /\ Defaults(SentExecution, [backend |-> baseline.backend, mode |-> baseline.mode], policy)
        /\ \A n \in DOMAIN submission.portfolio :
             Defaults(submission.portfolio[n], TradeClasses[submission.portfolio[n].trade_type], built_request.trades[n])

(* Every trade has an id of its own; ids given are kept. *)
TradesAreNamed ==
  Built =>
    LET trades == built_request.trades
    IN  \A n \in DOMAIN trades :
          /\ \A other \in DOMAIN trades : trades[n].trade_id = trades[other].trade_id => other = n
          /\ trades[n].trade_type = submission.portfolio[n].trade_type

(* The columns of an accepted covariance or history are the pillars of whole curves of the market. *)
ColumnsAreWholeCurves ==
  (Built /\ built_request.config.market_risk # Unsent) =>
    LET given == built_request.config.market_risk.scenarios.factors
        every == Range(from_market(submission.market.quoted))
    IN  /\ IsInjective(given)
        /\ Range(given) = UNION {Range(LabelsOf(c)) : c \in {c \in every : \E i \in DOMAIN given : given[i][1] = c.name}}

(* The configuration a result repeats asks for the same run again. *)
EchoAsksTheSame == rebuilt # Unsent => rebuilt = built_request

WireIsFaithful ==
  SentIsAsked /\ UnsentIsDefault /\ TradesAreNamed /\ ColumnsAreWholeCurves /\ EchoAsksTheSame
=============================================================================
