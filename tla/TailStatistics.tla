--------------------------- MODULE TailStatistics ---------------------------
(***************************************************************************)
(* The figures of a market-risk run, from its scenarios to its warnings    *)
(* (src/engine/risk/market/run.py, var_es.py, scenarios.py).  The          *)
(* portfolio is a list of trades, each the P&L it makes per unit of each   *)
(* factor, an option or not, its value, its FX spot and how far its stored *)
(* P&L is off in each scenario at the run's precision.  A quantile is a    *)
(* fraction <<n, d>>; the float rounding of N (1 - p) is left out.  A      *)
(* figure that cannot be given (NaN) is Unsent.                            *)
(***************************************************************************)
EXTENDS SampleEstimates

CONSTANTS Studies,      \* a portfolio, its scenarios, quantiles, and paired quarters
          STABLE_TAIL   \* the fewest tail observations that are not warned of (10 in the code)

VARIABLES study,           \* the study in hand, or Unsent
          shocks,          \* its scenarios, or Unsent if it was refused
          portfolio_pnl,   \* the portfolio's P&L per scenario, or <<>>
          tail             \* its figures, or Unsent

tailVars == <<study, shocks, portfolio_pnl, tail>>

---------------------------------------------------------------------------
(* VaR and Expected Shortfall of a sample. *)

var_rank(count, q) == Max({0, Min({CeilDiv((q[2] - q[1]) * count, q[2]) - 1, count - 1})})

Ascending(values) == SortSeq(values, <)

value_at_risk(pnl, q) == Max({0, 0 - Ascending(pnl)[var_rank(Len(pnl), q) + 1]})

InTail(pnl, q) == SelectSeq(pnl, LAMBDA v : v < 0 - value_at_risk(pnl, q))

tail_sample_size(pnl, q) == Len(InTail(pnl, q))

(* Minus the mean of the tail. *)
expected_shortfall(pnl, q) ==
  LET below == InTail(pnl, q) IN IF below = <<>> THEN Unsent ELSE <<0 - SumOf(below), Len(below)>>

(* What the standard error of ES is the spread of, or Unsent. *)
replicated_es_error(pnl, q, replicates) ==
  LET estimates == [r \in 1..replicates |-> expected_shortfall(delete_group(pnl, r, replicates), q)]
  IN  IF replicates < 2 \/ \E r \in 1..replicates : estimates[r] = Unsent THEN Unsent ELSE estimates

historical_es_error(pnl, q, block, starts) ==
  IF block * 2 > Len(pnl) THEN Unsent
  ELSE expected_shortfall(Picked(pnl, moving_block_indices(starts, Len(pnl), block)), q)

CubeRoot(n) == Min({k \in 1..n : k * k * k >= n})

block_length(s) ==
  IF s.bootstrap.block_length # Unsent THEN s.bootstrap.block_length
  ELSE Max({s.horizon_days, CubeRoot(Len(s.shifts))})

---------------------------------------------------------------------------
(* The portfolio under its scenarios. *)

PnlOf(trade, move) == SumOf([f \in DOMAIN move |-> trade.weights[f] * move[f]])

(* A long option never loses more than its value, a short one never gains more than it owes. *)
bound_option_pnl(pnl, base, sign) == sign * Max({sign * pnl, 0 - sign * base})

TradePnl(trade, move, noise) ==
  LET exact == PnlOf(trade, move)
      priced == IF trade.option THEN bound_option_pnl(exact, trade.value, trade.sign) ELSE exact
  IN  IF trade.option THEN bound_option_pnl(priced + noise, trade.value, trade.sign) ELSE priced + noise

InReportingCurrency(trades, columns) ==
  [s \in DOMAIN columns[1] |-> SumOf([n \in DOMAIN trades |-> columns[n][s] * trades[n].spot])]

AtRunPrecision(trades, shifts) ==
  [n \in DOMAIN trades |-> [s \in DOMAIN shifts |-> TradePnl(trades[n], shifts[s], trades[n].off[s])]]

(* The paired sample: whole batches of each replicate, cut to its prefix. *)
Float64Column(trade, shifts, paired, replicates, batch) ==
  LET per_rep == Len(shifts) \div replicates
      own == paired \div replicates
      size == Min({per_rep, CeilDiv(own, batch) * batch})
      Priced(r) == LET first == (r - 1) * per_rep
                   IN  [k \in 1..size |-> TradePnl(trade, shifts[first + k], 0)]
  IN  FlattenSeq([r \in 1..replicates |-> SubSeq(Priced(r), 1, own)])

PairedCount == paired_count(Len(shocks.shifts), study.paired, shocks.replicates)

PairedPortfolio ==
  InReportingCurrency(study.trades,
    [n \in DOMAIN study.trades |->
       Float64Column(study.trades[n], shocks.shifts, PairedCount, shocks.replicates, study.batch)])

Statistic(name, pnl, q) == IF name = "VaR" THEN value_at_risk(pnl, q) ELSE expected_shortfall(pnl, q)

PairedFiguresOf(pnl, q) ==
  [name \in {"VaR", "ES"} |->
     LET samples == paired_quantile(pnl, PairedPortfolio, shocks.replicates)
     IN  [k \in DOMAIN samples |-> Statistic(name, samples[k], q)]]

---------------------------------------------------------------------------
(* The warnings, and the actions. *)

Told(condition, warning) == IF condition THEN {warning} ELSE {}

TailWarnings(job, s) ==
  Told(\E n \in DOMAIN job.trades : job.trades[n].option, <<"volatilities held">>)
  \cup Told(\E n \in DOMAIN job.trades : job.trades[n].spot # 1, <<"spot held">>)
  \cup {<<"few", q>> : q \in {q \in Range(job.quantiles) : var_rank(Len(s.shifts), q) < STABLE_TAIL}}
  \cup (IF s.source = "historical"
        THEN {<<"bootstrap">>} \cup Told(2 * block_length(s) > Len(s.shifts), <<"no error">>)
        ELSE {IF s.replicates = 1 THEN <<"no error">> ELSE <<"deletion">>})
  \cup {<<"no intervals">>}

UncertaintyMethod(s) ==
  CASE s.source = "historical" -> "moving_block_bootstrap"
    [] s.source # "historical" /\ s.replicates > 1 -> "replicate_jackknife"
    [] OTHER -> "unavailable"

QuantilesAccepted(quantiles) ==
  IsInjective(quantiles) /\ \A k \in DOMAIN quantiles : 0 < quantiles[k][1] /\ quantiles[k][1] < quantiles[k][2]

TailInit == study = Unsent /\ shocks = Unsent /\ portfolio_pnl = <<>> /\ tail = Unsent

(* The scenarios are a history's windows, or drawn: any moves of their shape. *)
Choose(job) ==
  /\ study = Unsent
  /\ study' = job
  /\ LET s == job.source
         built == IF "history" \in DOMAIN s THEN historical_scenarios(s) ELSE Drawn(s, job.draw)
         accepted == IF "history" \in DOMAIN s THEN HistoryAccepted(s.history, s.horizon_days) /\ HistoryDated(s.dates, s.history)
                     ELSE validate_monte_carlo(s)
     IN  shocks' = IF accepted /\ RateFactorsAccepted(s.factors) /\ ScenariosAccepted(built)
                         /\ QuantilesAccepted(job.quantiles)
                      THEN built ELSE Unsent
  /\ UNCHANGED <<portfolio_pnl, tail>>

RevalueAll ==
  /\ shocks # Unsent /\ portfolio_pnl = <<>>
  /\ portfolio_pnl' = InReportingCurrency(study.trades, AtRunPrecision(study.trades, shocks.shifts))
  /\ UNCHANGED <<study, shocks, tail>>

(* The starts are those of one of the history's resamples; the others are alike.  The figures keep
   them (drawn), as the code does not, to say of what sample the error is. *)
Summarise(starts) ==
  /\ portfolio_pnl # <<>> /\ tail = Unsent
  /\ tail' = [figures |-> [q \in Range(study.quantiles) |->
                [VaR |-> value_at_risk(portfolio_pnl, q), ES |-> expected_shortfall(portfolio_pnl, q),
                 tailCount |-> tail_sample_size(portfolio_pnl, q),
                 standardError |-> IF shocks.source = "historical"
                                   THEN historical_es_error(portfolio_pnl, q, block_length(shocks), starts)
                                   ELSE replicated_es_error(portfolio_pnl, q, shocks.replicates),
                 paired |-> IF PairedCount = 0 THEN Unsent ELSE PairedFiguresOf(portfolio_pnl, q)]],
              method |-> UncertaintyMethod(shocks), warnings |-> TailWarnings(study, shocks), drawn |-> starts]
  /\ UNCHANGED <<study, shocks, portfolio_pnl>>

Starts ==
  IF shocks.source = "historical" /\ 2 * block_length(shocks) <= Len(shocks.shifts)
  THEN BlockStarts(Len(shocks.shifts), block_length(shocks)) ELSE {<<>>}

TailNext ==
  \/ \E job \in Studies : Choose(job)
  \/ RevalueAll
  \/ portfolio_pnl # <<>> /\ \E starts \in Starts : Summarise(starts)

---------------------------------------------------------------------------
(* Properties. *)

Figures == tail.figures

(* A higher quantile never gives a smaller figure, and ES is beyond VaR whenever there is a tail. *)
TailIsOrdered ==
  tail # Unsent => \A q \in DOMAIN Figures :
    /\ Figures[q].tailCount <= var_rank(Len(portfolio_pnl), q)
    /\ IF Figures[q].tailCount = 0 THEN Figures[q].ES = Unsent ELSE LessMean(<<Figures[q].VaR, 1>>, Figures[q].ES)
    /\ \A other \in DOMAIN Figures : q[1] * other[2] < other[1] * q[2] =>
         /\ Figures[q].VaR <= Figures[other].VaR
         /\ Unsent \notin {Figures[q].ES, Figures[other].ES} => ~LessMean(Figures[other].ES, Figures[q].ES)

(* The pair compares one scenario with itself: what runs again at float64 is, place by place, the
   scenario it is compared with, so without rounding the two samples are one (_paired_figures). *)
PairIsOneSample ==
  (tail # Unsent /\ PairedCount > 0) =>
    LET places == paired_indices(Len(portfolio_pnl), PairedCount, shocks.replicates)
        exact == InReportingCurrency(study.trades,
                   [n \in DOMAIN study.trades |->
                      [k \in DOMAIN places |-> TradePnl(study.trades[n], shocks.shifts[places[k]], 0)]])
    IN  /\ PairedPortfolio = exact
        /\ (\A n \in DOMAIN study.trades : \A i \in DOMAIN study.trades[n].off : study.trades[n].off[i] = 0) =>
             \A q \in DOMAIN Figures :
               Figures[q].paired["VaR"]["paired"] = Figures[q].paired["VaR"]["paired_float64"]

(* A history's scenario moves from its window's first day to its last, and a resample is of the
   history's own consecutive windows. *)
ScenarioIsItsWindow ==
  shocks # Unsent /\ shocks.windows # Unsent =>
    \A i \in DOMAIN shocks.shifts :
      LET DayOf(label) == SelectInSeq(study.source.dates, LAMBDA d : d = label)
          from == study.source.history[DayOf(shocks.windows[i][1])]
          to == study.source.history[DayOf(shocks.windows[i][2])]
      IN  \A f \in DOMAIN from : from[f] + shocks.shifts[i][f] = to[f]

(* A sample has nothing beyond its VaR: it has no loss, or its worst P&L reaches the VaR's rank. *)
NoTail(sample, q) ==
  LET worst == {k \in DOMAIN sample : \A j \in DOMAIN sample : sample[k] <= sample[j]}
  IN  \A k \in worst : sample[k] >= 0 \/ Cardinality(worst) > var_rank(Len(sample), q)

(* The samples whose ES the error is the spread of: the scenarios without one replicate, or a history
   of whole windows of consecutive scenarios, cut to its length. *)
ErrorSamples ==
  LET count == Len(portfolio_pnl)
      own == count \div shocks.replicates
      Without(r) == SubSeq(portfolio_pnl, 1, (r - 1) * own) \o SubSeq(portfolio_pnl, r * own + 1, count)
      Window(from) == SubSeq(portfolio_pnl, from + 1, from + block_length(shocks))
      windows == [b \in DOMAIN tail.drawn |-> Window(tail.drawn[b])]
  IN  IF shocks.source = "historical" THEN {SubSeq(FlattenSeq(windows), 1, count)}
      ELSE {Without(r) : r \in 1..shocks.replicates}

(* The standard error is missing where, and only where, a warning says that the scenarios give none
   or a sample it is read from has no tail; and the warning is there when a history is shorter than
   two blocks or a draw is one scramble (historical_es_error, replicated_es_error, _warnings). *)
ErrorIsExplained ==
  tail # Unsent =>
    LET warned == <<"no error">> \in tail.warnings
        atBoundary == shocks.source = "historical" /\ Len(portfolio_pnl) = 2 * block_length(shocks)
    IN  /\ \A q \in DOMAIN Figures :
             (Figures[q].standardError = Unsent) = (warned \/ \E sample \in ErrorSamples : NoTail(sample, q))
        /\ tail.method = "unavailable" => warned
        /\ atBoundary => ~warned

TailFiguresHold == TailIsOrdered /\ PairIsOneSample /\ ScenarioIsItsWindow /\ ErrorIsExplained
=============================================================================
