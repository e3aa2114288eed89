---------------------------- MODULE MCPipelines ----------------------------
(* The sequential parts of the engine in one run: each behaviour takes one of them (machine) through
   its inputs, the others stay idle in a state in which their invariants say nothing. *)
EXTENDS EodPipeline, RunEvidence, ResultArrays, GridBookkeeping, CalibLgm, SolverRoots, ScenarioRevaluation,
        TailStatistics, ExposureProfiles, TLC

----------------------------------------------------------------------------
(* End-of-day bundles for EodPipeline: one row off the usual at a time, a bundle that is itself off, and
   a second export that arrives while the first is read. *)

Period(a, b) == [start |-> a, end |-> b, payment |-> NoDate]

NoBasis       == [stated |-> FALSE, recognized |-> TRUE, decimals |-> 6]
Decimals(n)   == [stated |-> TRUE, recognized |-> TRUE, decimals |-> n]

NoteEntry == [source |-> "positions", name |-> "note", epoch |-> Nothing, keys |-> TRUE,
              basis |-> NoBasis, type |-> "TREASURY", missing_terms |-> FALSE, swap |-> Nothing,
              couponFrequency |-> "SEMI", schedule |-> <<Period(0, 8), Period(8, 16)>>,
              maturityDate |-> 16, redemption |-> Absent, couponRate |-> Number(10),
              dayCount |-> "ACT/365", settlementDays |-> Absent, quantity |-> Absent,
              contractMultiplier |-> Absent]
BillEntry   == [NoteEntry EXCEPT !.name = "bill", !.couponFrequency = "NONE", !.schedule = <<>>]
EquityEntry == [NoteEntry EXCEPT !.name = "share", !.type = "EQUITY", !.couponFrequency = "",
                                 !.schedule = <<>>, !.quantity = Number(3)]
OptionEntry == [EquityEntry EXCEPT !.name = "option", !.type = "OPTION"]
SwapTerms   == [floatIndex |-> "SimIndex", fixedDayCount |-> "ACT/365", floatingDayCount |-> "ACT/365",
                effectiveDate |-> "given", maturityDate |-> "given", overnightCompounding |-> Nothing]
SwapEntry   == [EquityEntry EXCEPT !.source = "contracts", !.name = "swap", !.epoch = 1, !.type = "SWAP",
                                   !.swap = SwapTerms]

RowOf(entry) == [source |-> entry.source, name |-> entry.name, account |-> "a1", type |-> entry.type,
                 currency |-> "USD", quantity |-> Number(1), coupon |-> Blank, closingMark |-> Number(99),
                 accrued |-> Blank]

\* What may be different about a note's terms, and about its row.
NoteVariants ==
  {NoteEntry} \cup
  {[NoteEntry EXCEPT !.schedule = s] : s \in
     { <<[Period(0, 8) EXCEPT !.payment = 9], Period(8, 16)>>, <<Period(0, 8), Period(9, 16)>>,
       <<Period(0, 0), Period(0, 16)>>, <<[Period(0, 8) EXCEPT !.payment = 7], Period(8, 16)>>,
       <<Period(NotADate, 8), Period(8, 16)>>, <<Period(0, 8)>>, <<>>,
       <<Period(0, 4), Period(4, 16)>> }} \cup
  {[NoteEntry EXCEPT !.maturityDate = d] : d \in {NoDate, NotADate, 4}} \cup
  {[NoteEntry EXCEPT !.couponFrequency = f] : f \in {"", "NONE", Nothing}} \cup
  {[NoteEntry EXCEPT !.settlementDays = n] : n \in {Number(0), Number(1), Malformed}} \cup
  {[NoteEntry EXCEPT !.dayCount = c] : c \in {"", "30/360", "ACT/ACT (ICMA)"}} \cup
  {[NoteEntry EXCEPT !.couponRate = r] : r \in {Absent, Malformed}} \cup
  {[NoteEntry EXCEPT !.redemption = r] : r \in {Blank, Malformed, Number(990000)}} \cup
  {[NoteEntry EXCEPT !.basis = b] : b \in
     {Decimals(4), Decimals(12), Decimals(13), [Decimals(6) EXCEPT !.recognized = FALSE]}} \cup
  {[NoteEntry EXCEPT !.keys = FALSE], [NoteEntry EXCEPT !.missing_terms = TRUE]}

BillVariants ==
  {BillEntry, [BillEntry EXCEPT !.maturityDate = 4], [BillEntry EXCEPT !.redemption = Blank],
   [BillEntry EXCEPT !.redemption = Number(990000)]}

\* Terms that leave the frequency null, with no schedule.
NullFrequency == [BillEntry EXCEPT !.couponFrequency = Nothing]

OtherVariants ==
  {EquityEntry, [EquityEntry EXCEPT !.quantity = Malformed], [EquityEntry EXCEPT !.contractMultiplier = Malformed],
   OptionEntry, SwapEntry, [SwapEntry EXCEPT !.swap.floatIndex = "SOFR"], [SwapEntry EXCEPT !.swap.effectiveDate = Nothing],
   [SwapEntry EXCEPT !.epoch = 2]}

RowVariants(entry) ==
  {RowOf(entry)} \cup
  {[RowOf(entry) EXCEPT !.accrued = Number(n)] : n \in {40, 41, 90, 91}} \cup
  {[RowOf(entry) EXCEPT !.accrued = Malformed], [RowOf(entry) EXCEPT !.quantity = Number(-2)],
   [RowOf(entry) EXCEPT !.quantity = Blank], [RowOf(entry) EXCEPT !.coupon = Malformed],
   [RowOf(entry) EXCEPT !.closingMark = Malformed], [RowOf(entry) EXCEPT !.currency = "EUR"]}

Pair(r, e) == [row |-> r, entry |-> e]

Usual == {Pair(RowOf(e), e) : e \in NoteVariants \cup BillVariants \cup OtherVariants}
         \cup UNION {{Pair(r, e) : r \in RowVariants(e)} : e \in {NoteEntry, [NoteEntry EXCEPT !.basis = Decimals(4)], BillEntry, EquityEntry}}

\* A bundle of these rows and terms.
Csv(rows) == [rows |-> rows, counted |-> Len(rows), cut |-> 7, ragged |-> FALSE,
              columns |-> {"accountId", "security", "quantity", "contractId", "instrumentType"}]
File(content) == [listed |-> TRUE, declared |-> Len(content.rows), content |-> content]
BundleOf(rows, entries) ==
  [schema |-> "v2", keys |-> TRUE, epoch |-> 1, sessionDate |-> 4, cut |-> 7,
   positions |-> File(Csv(SelectSeq(rows, LAMBDA r : r.source = "positions"))),
   contracts |-> File(Csv(SelectSeq(rows, LAMBDA r : r.source = "contracts"))),
   instrumentTerms |-> File([schema |-> "v2", rows |-> entries])]

WithBill(p) == IF p.entry.name = "bill" THEN BundleOf(<<p.row>>, <<p.entry>>)
               ELSE BundleOf(<<p.row, RowOf(BillEntry)>>, <<p.entry, BillEntry>>)

Full   == BundleOf(<<RowOf(NoteEntry), RowOf(EquityEntry), RowOf(SwapEntry)>>, <<NoteEntry, EquityEntry, SwapEntry>>)
Next1  == [Full EXCEPT !.sessionDate = 5]
Fewer  == BundleOf(<<RowOf(BillEntry), RowOf(NoteEntry)>>, <<BillEntry, NoteEntry>>)
Later  == [BundleOf(<<RowOf(NoteEntry), RowOf(EquityEntry), RowOf([SwapEntry EXCEPT !.name = "swap2"])>>,
                    <<NoteEntry, EquityEntry, [SwapEntry EXCEPT !.name = "swap2", !.epoch = 2]>>) EXCEPT !.epoch = 2]

\* The same rows under other terms.
Restated == BundleOf(<<RowOf(NoteEntry), RowOf(EquityEntry), RowOf(SwapEntry)>>,
                     <<[NoteEntry EXCEPT !.couponRate = Number(20)], EquityEntry, SwapEntry>>)

\* A bundle that is itself off.
V1 == [[Full EXCEPT !.schema = "v1"] EXCEPT !.instrumentTerms.listed = FALSE]
OddBundles ==
  {V1, [Full EXCEPT !.schema = "v3"], [Full EXCEPT !.keys = FALSE], [Full EXCEPT !.sessionDate = NotADate],
   [Fewer EXCEPT !.sessionDate = NoDate], [Full EXCEPT !.schema = "v1"], [Full EXCEPT !.instrumentTerms.listed = FALSE],
   [Full EXCEPT !.positions.declared = 1], [Full EXCEPT !.positions.content.counted = 1],
   [Full EXCEPT !.contracts.content.counted = Nothing], [Full EXCEPT !.contracts.content.cut = 6],
   [Full EXCEPT !.contracts.content.cut = Nothing], [Full EXCEPT !.positions.content.ragged = TRUE],
   [Full EXCEPT !.positions.content.columns = @ \ {"instrumentType"}],
   [Full EXCEPT !.positions.content.columns = @ \ {"quantity"}],
   [Full EXCEPT !.contracts.listed = FALSE], [Full EXCEPT !.instrumentTerms.declared = 2],
   [Full EXCEPT !.instrumentTerms.content.schema = "v1"], [Full EXCEPT !.instrumentTerms.content.schema = "v9"],
   BundleOf(<<>>, <<>>),
   BundleOf(<<RowOf(NoteEntry)>>, <<>>), BundleOf(<<RowOf(NoteEntry)>>, <<NoteEntry, BillEntry>>),
   BundleOf(<<RowOf(NoteEntry)>>, <<NoteEntry, NoteEntry>>),
   BundleOf(<<RowOf(NoteEntry), [RowOf(NoteEntry) EXCEPT !.account = "a2"]>>, <<NoteEntry>>),
   BundleOf(<<[RowOf(NoteEntry) EXCEPT !.type = Nothing], [RowOf(SwapEntry) EXCEPT !.type = Nothing]>>, <<>>),
   [Fewer EXCEPT !.instrumentTerms.content.schema = "v1",
                 !.instrumentTerms.content.rows = <<BillEntry, [NoteEntry EXCEPT !.basis = Decimals(6)]>>]}

MCExports == OddBundles \cup {WithBill(p) : p \in Usual} \cup {BundleOf(<<p.row>>, <<p.entry>>) : p \in Usual}

MCArrivals == {<<e, Nothing>> : e \in MCExports}
              \cup {<<Full, e>> : e \in {Nothing, Next1, Fewer, Later, Restated}} \cup {<<Later, Full>>}
MCDamages  == {"crlf", "truncated", "lost"}

MarketProfile == [mode |-> "assumed-profile", profile |-> "flat-3pct-v1"]
MCMarketRequests == {Nothing, MarketProfile, [MarketProfile EXCEPT !.profile = "flat-9pct"], [MarketProfile EXCEPT !.mode = "package"]}

----------------------------------------------------------------------------
(* Requests for RunPhases: every set of analytics, over three portfolios, with one departure from a
   request that gives exactly what they need, and every set of one, two or all with two. *)

MCAsof == 10

FullMarket ==
  {<<"currency", c>> : c \in {"USD", "EUR"}} \cup {<<"index", c, 6>> : c \in {"USD", "EUR"}}
  \cup {<<"vols", c>> : c \in {"USD", "EUR"}} \cup {<<"spot", "EUR", "USD">>, <<"equity", "SP5", "USD">>}

Trade(id, product, currency) ==
  [id |-> id, product |-> product, currency |-> currency, tenor |-> 6, on |-> MCAsof,
   expired |-> FALSE, whole |-> TRUE, physical |-> TRUE]

Mixed   == <<Trade("t1", "swap", "EUR"), Trade("t2", "bermudan_swaption", "USD")>>
Options == <<Trade("t1", "european_swaption", "USD"), Trade("t2", "bond", "EUR")>>

Basket(calibrates) == [calibrated |-> calibrates, tenor |-> 6]

NoModels == [given |-> FALSE]
CalibratedModels ==
  [given |-> TRUE, ir |-> [c \in {"USD", "EUR"} |-> Basket(TRUE)], fx |-> {}, equities |-> {},
   correlations |-> {}, tolerance |-> "default"]
SimulatedModels == [CalibratedModels EXCEPT !.fx = {"EUR"}]

NoSimulation == [given |-> FALSE]
Simulation == [given |-> TRUE, dates |-> <<11, 12>>, samples |-> 4, replicates |-> 1]

NoRisk == [given |-> FALSE]
Shocks == [given |-> TRUE, factors |-> {item \in FullMarket : item[1] \in {"currency", "index"}},
           same |-> TRUE, count |-> 4, replicates |-> 1, batch |-> 2]

Engines == [given |-> FALSE, european |-> "Bachelier", jamshidian |-> FALSE, calibrates |-> OPTIONS]

(* The request that gives what its analytics need and nothing else. *)
Exact(analytics, portfolio) ==
  LET asks(names) == Range(analytics) \cap names # {}
  IN  [market |-> FullMarket, analytics |-> analytics, portfolio |-> portfolio, base_currency |-> "USD",
       models |-> CASE asks({"exposure"}) -> SimulatedModels
                    [] ~asks({"exposure"}) /\ asks({"calibration"}) -> CalibratedModels
                    [] OTHER -> NoModels,
       simulation |-> IF asks({"exposure"}) THEN Simulation ELSE NoSimulation,
       market_risk |-> IF asks({"market_risk"}) THEN Shocks ELSE NoRisk,
       pricing |-> Engines, sensitivity |-> "default", exposure |-> "default",
       include_npv_cube |-> TRUE, precision |-> Profile("float64")]

P64 == Profile("float64")
Low == Stage("bfloat16", "float32", "float32")

Changes ==
  {[market |-> m] : m \in {FullMarket \ {<<"vols", "USD">>}, FullMarket \ {<<"index", "EUR", 6>>},
                           FullMarket \ {<<"spot", "EUR", "USD">>}, FullMarket \cup {<<"index", "USD", 0>>}}}
  \cup {[models |-> m] : m \in
         {NoModels, CalibratedModels, SimulatedModels, [SimulatedModels EXCEPT !.tolerance = "set"],
          [SimulatedModels EXCEPT !.ir["EUR"] = Basket(FALSE), !.equities = {"SP5"},
                                  !.correlations = {<<<<"IR", "USD">>, <<"FX", "EUR">>>>}],
          [SimulatedModels EXCEPT !.ir["EUR"] = Basket(FALSE), !.fx = {}],
          [CalibratedModels EXCEPT !.ir = [c \in {"USD"} |-> Basket(FALSE)]]}}
  \cup {[simulation |-> s] : s \in
         {NoSimulation, [Simulation EXCEPT !.replicates = 2], [Simulation EXCEPT !.samples = 6, !.replicates = 2],
          [Simulation EXCEPT !.dates = <<10, 11>>]}}
  \cup {[market_risk |-> r] : r \in
         {NoRisk, Shocks, [Shocks EXCEPT !.factors = @ \ {<<"currency", "EUR">>}],
          [Shocks EXCEPT !.count = 6, !.replicates = 2]}}
  \cup {[pricing |-> e] : e \in
         {[Engines EXCEPT !.given = TRUE, !.european = "Jamshidian", !.jamshidian = TRUE],
          [Engines EXCEPT !.given = TRUE, !.calibrates = {}]}}
  \cup {[precision |-> p] : p \in
         {Profile("float32"), [P64 EXCEPT !.paired = 1], [P64 EXCEPT !.stages["market"] = Low],
          [P64 EXCEPT !.stages["pricing"] = Low, !.paired = 2],
          [P64 EXCEPT !.stages["simulation"] = Low, !.rounding = "stochastic"],
          [Profile("float32") EXCEPT !.internal["greeks"] = "float64"],
          [Profile("float32") EXCEPT !.by_trade = [t \in {"t1"} |-> Throughout("float64")]],
          [Profile("float32") EXCEPT !.stages["pricing"] = Stage("float32", "tensorfloat32", "float32")]}}
  \cup {[sensitivity |-> "set"], [exposure |-> "set"], [include_npv_cube |-> FALSE], [base_currency |-> "EUR"]}

MCRequests ==
  LET changes == Changes
      sets    == {SetToSeq(s) : s \in SUBSET ANALYTICS}
      few     == {s \in sets : Len(s) <= 2 \/ Len(s) = Cardinality(ANALYTICS)}
      whole   == [s \in sets, portfolio \in {<<>>, Mixed, Options} |-> Exact(s, portfolio)]
  IN  {d[1] @@ d[2] @@ whole[d[3], d[4]] :
         d \in {d \in changes \X changes \X sets \X {<<>>, Mixed, Options} : d[1] = d[2] \/ d[3] \in few}}

(* Campaigns in the precisions of the requests: one pricing stage each, some with a paired sample,
   with two replicates, with other internal roles, on other engines or fewer products. *)
Campaign(over, p, replicates, settings, ceiling) ==
  [figures |-> over, precision |-> p, replicates |-> replicates, settings |-> settings,
   ceilings |-> [k \in over.total |-> ceiling]]

Discounted == [product \in {"swap", "bond"} |-> <<"Discounting">>]
AllEngines(lgm) ==
  Discounted @@ [product \in {"european_swaption"} |-> <<"Bachelier">>]
  @@ [product \in OPTIONS |-> <<"LgmGrid", lgm>>]

Single == [Profile("float32") EXCEPT !.internal = [r \in ROLES |-> "float64"]]
LowPricing == [P64 EXCEPT !.stages["pricing"] = Low, !.paired = 1]

MCCampaigns ==
  {Campaign(PortfolioFigures, Profile("float32"), 1, AllEngines("fixed"), 4),
   Campaign(PortfolioFigures, Single, 1, AllEngines("fixed"), 8),
   Campaign(PortfolioFigures, Profile("float32"), 1, Discounted, 2),
   Campaign(PortfolioFigures, LowPricing, 1, AllEngines("fixed"), 4),
   Campaign(PortfolioFigures, [LowPricing EXCEPT !.paired = 3], 1, AllEngines("fixed"), 8),
   Campaign(PortfolioFigures, [P64 EXCEPT !.stages["market"] = Low], 2, AllEngines("fixed"), 8),
   Campaign(MarketRiskFigures, Profile("float32"), 1, AllEngines("fixed"), 8),
   Campaign(MarketRiskFigures, Profile("float32"), 1, Discounted, 4)}

----------------------------------------------------------------------------
(* Bodies for RunWire and sizes for ResultArrays: a request for every analytic, then one with one section sent another way, in
   part, whole, with a field nobody knows or one that is missing. *)

WireMarket == [asof |-> "good",
               quoted |-> <<[currency |-> "EUR", discount_curve |-> <<1>>, index_curves |-> [i \in {} |-> <<1>>]],
                            [currency |-> "USD", discount_curve |-> <<1, 5>>, index_curves |-> [i \in {6} |-> <<2, 3>>]]>>]

SwapBody == [trade_type |-> "swap", notional |-> "1e6", fixed_rate |-> "0.03", payer |-> "true", effective_date |-> "good"]
BondBody == [trade_type |-> "bond", face_amount |-> "100", maturity_date |-> "good", coupon_schedule |-> <<"good", "good">>]
EuropeanBody == [SwapBody EXCEPT !.trade_type = "european_swaption"] @@ [exercise_date |-> "good", long_short |-> "Short"]
BermudanBody == [SwapBody EXCEPT !.trade_type = "bermudan_swaption"] @@ [exercise_dates |-> <<"good", "bad">>]
AmericanBody == [SwapBody EXCEPT !.trade_type = "american_swaption"] @@ [first_exercise_date |-> "good"]
Named(body, id) == body @@ [trade_id |-> id]

Portfolios_sent ==
  {<<>>, <<SwapBody, BondBody, EuropeanBody>>, <<Named(SwapBody, "A"), Named(BondBody, "B")>>,
   <<Named(SwapBody, "A"), Named(BondBody, "A")>>, <<Named(SwapBody, "A"), BondBody>>, <<BermudanBody>>,
   <<[BermudanBody EXCEPT !.exercise_dates = <<"good">>]>>, <<AmericanBody>>,
   <<AmericanBody @@ [last_exercise_date |-> "good"]>>, <<SwapBody @@ [hw_sigma |-> "0.01"]>>,
   <<[SwapBody EXCEPT !.effective_date = "bad"]>>}

EurPillar == <<<<"discount", "EUR">>, 1>>
UsdPillar(years) == <<<<"discount", "USD">>, years>>

MonteCarloBody(factors) ==
  [source |-> "monte-carlo", factors |-> factors, horizon_days |-> 1, num_scenarios |-> 4,
   covariance |-> [side |-> Len(factors), valid |-> TRUE]]
HistoryBody == [source |-> "historical", factors |-> <<EurPillar>>, horizon_days |-> 1, history |-> <<<<1>>, <<2>>, <<3>>>>]

FactorLists ==
  {<<EurPillar, UsdPillar(1), UsdPillar(5)>>, <<UsdPillar(1), UsdPillar(5), EurPillar>>,
   <<UsdPillar(1), EurPillar, UsdPillar(5)>>, <<UsdPillar(5), UsdPillar(1)>>, <<UsdPillar(1)>>,
   <<EurPillar, EurPillar>>, <<<<<<"discount", "GBP">>, 1>>>>}

Stages_sent == {Nothing_sent, [storage |-> "bfloat16"], [compute |-> "bfloat16_1x", accumulate |-> "float32"], [bits |-> 32],
                Throughout("float64")}

Precisions_sent ==
  {[profile |-> profile] @@ [f \in {stage} |-> sent] : profile \in {"float32", "float64"}, stage \in {"simulation", "pricing"}, sent \in Stages_sent}
  \cup {[profile |-> profile, by_product |-> [k \in {"swap"} |-> [storage |-> "bfloat16"]], internal |-> [greeks |-> "float64"],
         by_trade |-> [k \in {"A"} |-> Nothing_sent]] : profile \in {"float32", "float64"}}
  \cup {[profile |-> "float32"], Nothing_sent, [risk |-> 32], [rounding |-> "stochastic"], [paired |-> 1],
        [execution |-> [backend |-> "cpu"]], [market |-> [storage |-> "bfloat16"], storage_scaling |-> "none", offset |-> "none"],
        [pricing |-> [storage |-> "bfloat16"], rounding |-> "stochastic", paired |-> 2], [market |-> [storage |-> "bfloat16"], offset |-> "none"],
        [profile |-> "float32", by_trade |-> [k \in {"A"} |-> [storage |-> "bfloat16"]], offset |-> "none", storage_scaling |-> "none"]}

Ir == [reversion |-> "0.03"]
Sections_sent ==
  {<<"precision", p>> : p \in Precisions_sent}
  \cup {<<"market_risk", [scenarios |-> MonteCarloBody(factors)]>> : factors \in FactorLists}
  \cup {<<"market_risk", [scenarios |-> HistoryBody @@ [block_length |-> block, dates |-> <<"d1", "d2", "d3">>], quantiles |-> <<"0.5">>]>> :
           block \in {2, 3}}
  \cup {<<"market_risk", [scenarios |-> HistoryBody @@ [dates |-> <<"d1">>]]>>, <<"market_risk", [scenarios |-> HistoryBody, batch_size |-> "16"]>>,
        <<"market_risk", [scenarios |-> HistoryBody @@ [bootstrap_replicates |-> 1]]>>,
        <<"models", [ir |-> [c \in {"USD"} |-> Ir], fx_volatilities |-> [c \in {"EUR"} |-> Constantly("0.1")], correlations |-> {"IR:USD"}]>>,
        <<"simulation", [dates |-> <<"good", "bad">>]>>, <<"simulation", [samples |-> "8"]>>,
        <<"simulation", [dates |-> <<"good">>, samples |-> "8"]>>,
        <<"sensitivity", [theta_days |-> "5"]>>, <<"exposure", [pfe_quantiles |-> <<"0.9", "0.9">>]>>,
        <<"exposure", [pfe_quantiles |-> <<"0.9">>]>>, <<"base_currency", "EUR">>,
        <<"models", [ir |-> Nothing_sent]>>, <<"models", [ir |-> [c \in {"USD"} |-> Ir]]>>,
        <<"models", [ir |-> [c \in {"USD", "EUR"} |-> Ir @@ [model |-> "HullWhite", calibration_expiries |-> <<"1Y">>]]]>>,
        <<"models", [ir |-> [c \in {"USD", "EUR"} |-> Ir @@ [model |-> "HullWhite", swap_index |-> [fixed_tenor |-> "6M"]]]]>>,
        <<"models", [ir |-> [c \in {"USD"} |-> Ir @@ [volatility |-> [times |-> <<2, 1>>, values |-> <<"a", "b", "c">>]]]]>>,
        <<"models", [ir |-> [c \in {"USD"} |-> Ir @@ [volatility |-> [times |-> <<1>>, values |-> <<"a", "b">>]]]]>>,
        <<"pricing", [european |-> "Jamshidian"]>>,
        <<"pricing", [european |-> "Jamshidian", jamshidian |-> [reversion |-> "0.1", volatility |-> "0.01"]]>>,
        <<"pricing", [bermudan |-> [volatility |-> "0.02", swap_index |-> [fixed_tenor |-> "6M"]]]>>,
        <<"execution", [backend |-> "cpu"]>>, <<"execution", [mode |-> "allow_emulation"]>>, <<"gpu", Nothing_sent>>}

Outputs_sent == {Nothing_sent, [npv_cube |-> "none"], [pnl |-> "inline"], [exercised |-> "artifact"]}

Body(portfolio, sections, outputs, analytics) ==
  [market |-> WireMarket, portfolio |-> portfolio, analytics |-> analytics, outputs |-> outputs,
   config |-> [name \in {s[1] : s \in sections} |-> (CHOOSE s \in sections : s[1] = name)[2]]]

MCBodies ==
  {Body(<<SwapBody, BondBody>>, {section}, Nothing_sent, <<"exposure", "market_risk">>) : section \in Sections_sent}
  \cup {Body(<<SwapBody>>, {<<"precision", p>>, <<"execution", [backend |-> "cpu"]>>}, Nothing_sent, <<"exposure">>) : p \in Precisions_sent}
  \cup {Body(portfolio, {}, outputs, analytics) :
          portfolio \in Portfolios_sent, outputs \in Outputs_sent, analytics \in {<<"npv">>, <<"exposure">>}}

(* One row to a chunk, several and the last short, and a row larger than a chunk. *)
MCSizes == {<<1, 1>>, <<5, 1>>, <<3, 2>>}

----------------------------------------------------------------------------
(* Calibrations for CalibLgm: options and currencies whose dates lie in, between, on and past the intervals of a
   small reference grid, every small stack of helpers; and for SolverRoots roots inside, at the ends of and out of
   the reach of small brackets, from starts near and far, with slopes right everywhere or near the root only. *)

MCCalibrated ==
  [kind : {"bermudan"}, built_on : {0, 2}, tolerance : {1, 30},
   exercise : {<<1>>, <<1, 2>>, <<2, 3, 5>>, <<3, 5, 9>>, <<8, 9, 10>>, <<9, 9>>, <<3, 3, 4>>}]
  \cup [kind : {"american"}, built_on : {0, 2}, tolerance : {30}, exercise : {<<0, 1>>, <<1, 9>>, <<2, 5>>, <<-1, 7>>}]
  \cup [kind : {"currency"}, built_on : {0}, tolerance : {1, 30}, exercise : {<<1, 2>>, <<2, 4, 8>>, <<4, 2>>}]

MCReferenceGrid == <<2, 4, 7>>

MCLegShapes == LET shape == [fixed : 1 .. 3, floating : 1 .. 6] IN shape \X shape

Solved(solver, bounded, ends_at, at, monotone, start) ==
  [solver |-> solver, bounded |-> bounded, bracket |-> ends_at, at |-> at, monotone |-> monotone, start |-> start,
   count |-> IF solver = "Newton" THEN 3 ELSE 7]

Roots == {-40, -17, -9, -3, 0, 1, 6, 17, 70}

MCRootProblems ==
  {Solved("Newton", TRUE, <<-9, 16>>, at, monotone, start) :
     at \in Roots, monotone \in {4, 99}, start \in {-12, 0, 14, NoPoint}}
  \cup {Solved("Newton", FALSE, <<-4, 4>>, at, monotone, 0) : at \in Roots, monotone \in {4, 99}}
  \cup {Solved("Bisection", TRUE, <<-9, 16>>, at, 99, 0) : at \in Roots}
  \cup {Solved("Bisection", FALSE, <<-4, 4>>, at, 99, 0) : at \in Roots}

MCWidening == <<1, 2, 8>>
MCRootPoints == {-20, -9, -6, -2, 0, 3, 8, 13, 16, 25, 60}

----------------------------------------------------------------------------
(* Jobs for ScenarioRevaluation: a trade of one curve, of two and of two with quotes, and shocks of
   two factor curves read alone or in the other order, over devices and batches that divide the
   scenarios and that do not.  Studies for TailStatistics: every draw of four scenarios, in one
   replicate and in two, of a portfolio that rounding moves and of one it does not; and a history.  Books for ExposureProfiles: two trades
   whose values pass through nothing, one that dies, unpaired, paired by prefixes and whole. *)

Runs == [batch : {1, 3, 5, 16}, holds : {Unsent, 0, 2}, hosts : {1, 2}, devices : {1, 3}, configured : {Unsent, 2, 3}]

Recalibrations ==
  {[calibrates |-> FALSE, misses |-> {}], [calibrates |-> TRUE, misses |-> {}], [calibrates |-> TRUE, misses |-> {0, 2}]}

Sensitivity(tenors, curves, quotes) == [kind |-> "greeks", tenors |-> tenors, curves |-> curves, quotes |-> quotes]

Usd == <<"discount", "USD">>
Libor == <<"index", 6>>

MCSensitivities ==
  {Sensitivity(<<1, 5>>, <<Usd>>, Unsent), Sensitivity(<<1>>, <<Usd, Libor>>, [options |-> <<1, 2>>, swaps |-> <<5>>]),
   Sensitivity(<<1, 5>>, <<Usd, Libor>>, [options |-> <<1, 2>>, swaps |-> <<5, 7>>])}

MCFactorMarket == <<[currency |-> "EUR", discount_curve |-> <<1>>, index_curves |-> [i \in {} |-> <<1>>]],
                    [currency |-> "USD", discount_curve |-> <<1, 5>>, index_curves |-> [i \in {6} |-> <<2, 3>>]]>>

Shocked(count, curves) ==
  [kind |-> "risk", factors |-> from_market(MCFactorMarket), curves |-> curves,
   shifts |-> [s \in 1..count |-> [f \in 1..5 |-> 10 * s + f]]]

MCRevaluationJobs ==
  {what @@ run @@ recalibration :
     what \in MCSensitivities \cup {Shocked(4, <<Usd, Libor>>), Shocked(6, <<<<"discount", "EUR">>>>)},
     run \in {r \in Runs : r.batch # 3 \/ r.holds = Unsent}, recalibration \in Recalibrations}

OneFactor == from_market(<<[currency |-> "EUR", discount_curve |-> <<1>>, index_curves |-> [i \in {} |-> <<1>>]]>>)

Holding(weight, choice, spot, off) ==
  [weights |-> <<weight>>, option |-> choice, value |-> 2, sign |-> 1, spot |-> spot, off |-> off]

Unrounded == Holding(2, FALSE, 1, [s \in 1..8 |-> 0])
Portfolios == {<<Unrounded>>, <<Holding(3, TRUE, 2, <<1, 0, -1, 0, 0, 1, 0, 0>>), Holding(-1, FALSE, 1, <<0, 1, 0, 0, 0, 0, 2, 0>>)>>}

Quantiles == <<<<1, 2>>, <<9, 10>>, <<3, 5>>>>

MonteCarlo(count, replicates) ==
  [factors |-> OneFactor, num_scenarios |-> count, horizon_days |-> 1, replicates |-> replicates,
   covariance |-> [side |-> 1, valid |-> TRUE]]

Study(trades, count, replicates, draw, quantiles, paired, size) ==
  [trades |-> trades, source |-> MonteCarlo(count, replicates), draw |-> draw, quantiles |-> quantiles,
   paired |-> paired, batch |-> size]

MCStudies ==
  {Study(trades, 4, replicates, draw, Quantiles, 0, 1) :
     trades \in Portfolios, replicates \in {1, 2, 3}, draw \in [1..4 -> {<<-3>>, <<1>>}]}
  \cup {Study(trades, 8, replicates, [s \in 1..8 |-> <<((s * k) % 11) - 6>>], Quantiles, 2, size) :
           trades \in Portfolios, replicates \in {1, 2}, k \in 1..5, size \in {1, 3}}
  \cup {Study(<<Unrounded>>, 4, 1, [s \in 1..4 |-> <<s>>], <<<<1, 2>>, <<1, 2>>>>, 0, 1)}
  \cup {[trades |-> <<Unrounded>>, draw |-> <<>>, quantiles |-> <<<<1, 2>>>>, paired |-> 2, batch |-> 3,
         source |-> [factors |-> OneFactor, history |-> [d \in DOMAIN levels |-> <<levels[d]>>], horizon_days |-> horizon,
                     dates |-> stamps, bootstrap |-> [replicates |-> 2, block_length |-> block, seed |-> 0]]] :
           levels \in {<<1, 4, 2, 5, 1>>, <<0, 1>>}, horizon \in {1, 2},
           stamps \in {Unsent, <<"mon", "tue", "wed", "thu", "fri">>}, block \in {Unsent, 2, 5}}

Paths(k) == [s \in 1..4 |-> [d \in 1..3 |-> ((s * k + d * d) % 7) - 3]]
Still == [s \in 1..4 |-> <<0, 0, 0>>]
Rounded == <<<<0, 1, 0>>, <<0, 0, -1>>, <<1, 0, 0>>, <<0, -1, 0>>>>

Simulated(k, npv0, maturity, off) == [npv0 |-> npv0, value |-> Paths(k), maturity |-> maturity, off |-> off]

MCBooks ==
  {[trades |-> <<Simulated(k, 1, Unsent, off), Simulated(j, -2, maturity, Still)>>, dates |-> days, growth |-> growth,
    quantiles |-> {<<1, 2>>, <<9, 10>>, <<1, 10>>}, replicates |-> replicates, paired |-> paired] :
     k \in {1, 3}, j \in {2, 5}, maturity \in {1, 3, 9}, off \in {Still, Rounded}, growth \in {<<1, 1, 1>>, <<1, 2, 3>>},
     days \in {<<2, 3, 6>>, <<2, 5, 6>>, <<6, 7, 8>>}, replicates \in {1, 2}, paired \in {0, 2, 4}}

----------------------------------------------------------------------------
(* Trades for TradeOnPath and GridBookkeeping: new and seasoned, every settlement, exercise dates on, before and
   between the coupons and the simulation's dates, fixings of the past and of simulated dates; and every grid over
   a few days. *)

OnDates(kind, from, to, exercise, history) ==
  [kind |-> kind, tenor |-> NotGiven, forward |-> NotGiven, effective |-> from, maturity |-> to, every |-> 2,
   exercise |-> exercise, history |-> history, physical |-> TRUE]

ByTenor(kind, tenor, forward, exercise) ==
  [OnDates(kind, NotGiven, NotGiven, exercise, {}) EXCEPT !.tenor = tenor, !.forward = forward]

Past == {-4, -2, 0}

\* Fixings of simulated dates with the past ones, and of a trade that starts later.
Ahead == Past \cup {2, 4}

Swaps ==
  {OnDates("swap", from, to, <<>>, history) : from \in {-3, 1}, to \in {5, 9}, history \in {Past, {-2}, {-4}}}
  \cup {OnDates("swap", -3, 9, <<>>, Ahead), OnDates("swap", 2, 9, <<>>, {1, 3})}
  \cup {ByTenor("swap", 8, NotGiven, <<>>), ByTenor("swap", 4, 2, <<>>),
        [ByTenor("swap", 4, NotGiven, <<>>) EXCEPT !.effective = 1], OnDates("swap", 5, 1, <<>>, {}),
        [OnDates("swap", 1, 5, <<>>, {}) EXCEPT !.forward = 2], OnDates("swap", NotGiven, 5, <<>>, {})}

Europeans ==
  {OnDates("european", from, 9, <<e>>, {}) : from \in {-3, 1}, e \in {0, 1, 2, 3, 5, 6, 9}}
  \cup {ByTenor("european", 4, 2, <<NotGiven>>), ByTenor("european", 4, NotGiven, <<3>>)}

Exercisables ==
  {OnDates(kind, from, 9, exercise, history) :
     kind \in ExerciseKinds, from \in {-3, 1}, history \in {Past, {}},
     exercise \in {<<1, 5>>, <<2, 3>>, <<3, 4>>, <<-1, 5>>, <<3, 7>>, <<0, 1>>, <<5, 3>>}}
  \cup {OnDates("bermudan", -3, 9, e, Past) : e \in {<<>>, <<1, 3, 5>>, <<2, 4, 5>>, <<4>>, <<10>>}}
  \cup {OnDates("bermudan", -3, 5, e, Past) : e \in {<<3>>, <<1, 3>>}}
  \cup {OnDates(kind, -3, 9, e, Ahead) : kind \in ExerciseKinds, e \in {<<1, 5>>, <<3, 7>>}}
  \cup {OnDates(kind, 2, 9, e, {1, 3}) : kind \in ExerciseKinds, e \in {<<-1, 5>>, <<4, 5>>}}

Period3(start, end, pay) == [start |-> start, end |-> end, pay |-> pay]
BondOf(periods, maturity, coupons) ==
  [kind |-> "bond", periods |-> periods, maturity |-> maturity, coupons |-> coupons, physical |-> TRUE]

Bonds ==
  {BondOf(<<>>, day, FALSE) : day \in {0, 1, 3}}
  \cup {BondOf(<<Period3(-2, 1, 1), Period3(1, 3, pay)>>, 3, TRUE) : pay \in {2, 3, 5}}
  \cup {BondOf(<<Period3(-2, 1, 4), Period3(1, 2, 2)>>, 2, TRUE), BondOf(<<>>, 3, TRUE),
        BondOf(<<Period3(-4, -2, -2), Period3(-1, 3, 3)>>, 3, TRUE), BondOf(<<Period3(1, 3, 3)>>, 4, TRUE)}

MCBookings ==
  LET all == Swaps \cup Europeans \cup Exercisables
  IN  all \cup {[t EXCEPT !.physical = FALSE] : t \in Europeans \cup Exercisables} \cup Bonds

MCDateGrids == {SetToSortSeq(days, <) : days \in SUBSET {1, 2, 3, 5, 8} \ {{}}}

MCGridOptions ==
  {[OnDates(kind, 1, 9, exercise, {}) EXCEPT !.every = every] :
     kind \in ExerciseKinds, every \in {1, 2, 4}, exercise \in {<<1, 5>>, <<2, 7>>, <<3, 6>>, <<1, 8>>, <<0, 4>>, <<-1, 3>>}}

MCGridDays == {<<0>>, <<0, 1>>, <<0, 2, 3>>, <<1, 4>>, <<2, 5, 6>>}

----------------------------------------------------------------------------
(* The machines. *)

VARIABLE machine

EodIdle == disk = Nothing /\ arriving = <<>> /\ todo = <<>> /\ read = Nothing /\ joined = Nothing
           /\ refused = Nothing /\ marketInputs = Nothing /\ market = Nothing /\ items = <<>> /\ result = Nothing

RunIdle == request = Nothing /\ platform = "cpu" /\ progress = "idle" /\ steps = <<>>
           /\ taken = {} /\ computed = {} /\ stored = {} /\ cause = {}

OthersIdle == TradeInit /\ GridInit /\ CalibInit /\ RootInit /\ RevaluationInit /\ TailInit /\ ExposureInit
              /\ WireInit /\ ResultInit

PipeInit ==
  \/ machine = "eod" /\ EodInit /\ RunIdle /\ OthersIdle
  \/ machine = "run" /\ RunInit /\ EodIdle /\ OthersIdle
  \/ /\ machine \in {"trade", "grid", "calibration", "root", "revaluation", "tail", "exposure", "wire"}
     /\ EodIdle /\ RunIdle /\ OthersIdle

pricingVars == <<tradeVars, gridVars, calibVars, rootVars>>
riskVars == <<revaluationVars, tailVars, exposureVars>>
apiVars == <<wireVars, resultVars>>

PricingNext ==
  \/ machine = "trade" /\ TradeNext /\ UNCHANGED <<gridVars, calibVars, rootVars>>
  \/ machine = "grid" /\ GridNext /\ UNCHANGED <<tradeVars, calibVars, rootVars>>
  \/ machine = "calibration" /\ CalibNext /\ UNCHANGED <<tradeVars, gridVars, rootVars>>
  \/ machine = "root" /\ RootNext /\ UNCHANGED <<tradeVars, gridVars, calibVars>>

RiskNext ==
  \/ machine = "revaluation" /\ RevaluationNext /\ UNCHANGED <<tailVars, exposureVars>>
  \/ machine = "tail" /\ TailNext /\ UNCHANGED <<revaluationVars, exposureVars>>
  \/ machine = "exposure" /\ ExposureNext /\ UNCHANGED <<revaluationVars, tailVars>>

ApiNext ==
  /\ machine = "wire"
  /\ \/ WireNext /\ UNCHANGED resultVars
     \/ ResultNext /\ UNCHANGED wireVars

PipeNext ==
  /\ UNCHANGED machine
  /\ \/ machine = "eod" /\ EodNext /\ UNCHANGED <<runVars, pricingVars, riskVars, apiVars>>
     \/ machine = "run" /\ RunNext /\ UNCHANGED <<eodVars, pricingVars, riskVars, apiVars>>
     \/ PricingNext /\ UNCHANGED <<eodVars, runVars, riskVars, apiVars>>
     \/ RiskNext /\ UNCHANGED <<eodVars, runVars, pricingVars, apiVars>>
     \/ ApiNext /\ UNCHANGED <<eodVars, runVars, pricingVars, riskVars>>

PipeSpec == PipeInit /\ [][PipeNext]_<<machine, eodVars, runVars, pricingVars, riskVars, apiVars>>

\* One trade after the other, the other machines aside.
TradesSpec == (machine = "trade" /\ PipeInit) /\ [][PipeNext]_<<machine, eodVars, runVars, pricingVars, riskVars, apiVars>>
=============================================================================
