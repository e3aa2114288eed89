------------------------ MODULE ScenarioRevaluation ------------------------
(***************************************************************************)
(* One trade revalued under scenarios: the bump Greeks' shifts or market   *)
(* risk's shocks, in batches, on one device or split across those of every *)
(* host, an option recalibrated under each scenario first, and the figures *)
(* read back from the rows (src/engine/risk/greeks/scenario_pnl.py,        *)
(* bump.py, risk/market/revaluation.py, market_simulation/sharding.py).    *)
(* A scenario's P&L is its move, the id its rounding draws from and the    *)
(* model it was priced on; what the pricer makes of them is left out.      *)
(*                                                                         *)
(* A job has what it shifts (a sensitivity: tenors, the curves read and    *)
(* the quotes read; a market-risk run: the factors, the curves read and    *)
(* the shifts), whether it recalibrates and in which scenarios it misses,  *)
(* the batch asked for, how many scenarios its memory holds (Unsent for a  *)
(* trade without the grid engine), and the run's hosts, the devices of one *)
(* and JAX_RISK_SCENARIO_DEVICES.                                          *)
(***************************************************************************)
EXTENDS RiskFactors, FiniteSetsExt

CONSTANT RevaluationJobs

VARIABLES revaluation,   \* the job, or Unsent
          pass,          \* "calibrate" or "price": which mapping is running
          moves,         \* one record to a scenario: its shifts, quotes and model
          parts,         \* the batches mapped so far, each a sequence per device
          figures        \* what is read off the whole P&L, or the scenarios it is refused for

revaluationVars == <<revaluation, pass, moves, parts, figures>>

---------------------------------------------------------------------------
(* The shifts of a trade's Greeks: up rows then down rows per curve, then the quotes' rows. *)

CurveRows(tenors) == 2 * Len(tenors)

QuoteCount(quotes) == IF quotes = Unsent THEN 0 ELSE Len(quotes.options) * Len(quotes.swaps)

Identity(on, size) == IF on \in 1..size THEN [n \in 1..size |-> IF n = on THEN 1 ELSE 0] ELSE [n \in 1..size |-> 0]
Negated(row) == [n \in DOMAIN row |-> 0 - row[n]]

(* The shift of curve k's nodes in a scenario; the rows before its own are the earlier curves'. *)
CurveShift(tenors, k, s) ==
  LET size == Len(tenors)
      row == s - CurveRows(tenors) * (k - 1)
  IN  IF row \in 1..size THEN Identity(row, size) ELSE Negated(Identity(row - size, size))

bump_moves(job) ==
  LET before == CurveRows(job.tenors) * Len(job.curves)
  IN  [s \in 1..before + QuoteCount(job.quotes) |->
         [shifts |-> [k \in DOMAIN job.curves |-> CurveShift(job.tenors, k, s)],
          quotes |-> Identity(s - before, QuoteCount(job.quotes)), model |-> Unsent]]

(* Market risk's: each curve the trade reads takes its slice of the vector; the quotes are held. *)
factor_indices(job) == [k \in DOMAIN job.curves |-> index_of(job.factors, job.curves[k])]

SliceMoves(job) ==
  LET own == [k \in DOMAIN job.curves |-> slice_of(job.factors, factor_indices(job)[k])]
  IN  [s \in DOMAIN job.shifts |->
         [shifts |-> [k \in DOMAIN job.curves |-> SubSeq(job.shifts[s], own[k][1] + 1, own[k][2])],
          quotes |-> <<>>, model |-> Unsent]]

---------------------------------------------------------------------------
(* The batches and the devices. *)

scenario_batch_size(job) ==
  IF job.holds = Unsent THEN job.batch ELSE Max({1, Min({job.batch, job.holds})})

device_limit(job) ==
  LET present == job.hosts * job.devices
  IN  IF job.configured = Unsent THEN present ELSE Min({present, job.configured})

scenario_device_count(job, count) ==
  Max({1} \cup {n \in 2..Min({device_limit(job), Max({count, 1})}) : count % n = 0 /\ n % job.hosts = 0})

(* The mesh: the first of each host's devices, host by host. *)
mesh(job, count) ==
  LET per_host == count \div job.hosts
  IN  [d \in 1..count |-> <<1 + ((d - 1) \div per_host), 1 + ((d - 1) % per_host)>>]

UnusedDevices(job, count) == scenario_device_count(job, count) < device_limit(job)

DeviceCount == scenario_device_count(revaluation, Len(moves))
Share == Len(moves) \div DeviceCount

(* What one batch makes of each scenario: its model, or its P&L. *)
Valued(s) == IF pass = "calibrate" THEN [of |-> moves[s], id |-> s - 1]
             ELSE [move |-> [moves[s] EXCEPT !.model = Unsent], id |-> s - 1, model |-> moves[s].model]

---------------------------------------------------------------------------
(* The actions. *)

RevaluationInit ==
  revaluation = Unsent /\ pass = "price" /\ moves = <<>> /\ parts = <<>> /\ figures = Unsent

RevalueTrade(job) ==
  /\ revaluation = Unsent
  /\ revaluation' = job
  /\ moves' = IF job.kind = "greeks" THEN bump_moves(job) ELSE SliceMoves(job)
  /\ pass' = IF job.calibrates THEN "calibrate" ELSE "price"
  /\ UNCHANGED <<parts, figures>>

Mapped == scenario_batch_size(revaluation) * Len(parts)   \* of each device's share

(* A batch takes its scenarios from every device's share. *)
MapBatch ==
  /\ revaluation # Unsent /\ figures = Unsent /\ Mapped < Share
  /\ LET last == Min({Share, Mapped + scenario_batch_size(revaluation)})
     IN  parts' = Append(parts, [d \in 1..DeviceCount |->
                                   [i \in 1..last - Mapped |-> Valued((d - 1) * Share + Mapped + i)]])
  /\ UNCHANGED <<revaluation, pass, moves, figures>>

(* Mutant: the parts one after another, as on one device. *)
Gathered_PartAfterPart == FlattenSeq([b \in DOMAIN parts |-> FlattenSeq(parts[b])])

(* The parts joined along each device's share, the shares one after another. *)
Gathered == FlattenSeq([d \in 1..DeviceCount |-> FlattenSeq([b \in DOMAIN parts |-> parts[b][d]])])

AllMapped == revaluation # Unsent /\ figures = Unsent /\ Mapped >= Share

(* Every scenario's model, or a refusal that names the scenarios it missed in. *)
RequireCalibrated ==
  /\ AllMapped /\ pass = "calibrate"
  /\ LET models == Gathered
         failed == {s \in DOMAIN models : models[s].id \in revaluation.misses}
     IN  IF failed # {} THEN figures' = [refused |-> {s - 1 : s \in failed}] /\ UNCHANGED <<pass, moves, parts>>
         ELSE /\ moves' = [s \in DOMAIN moves |-> [moves[s] EXCEPT !.model = models[s]]]
              /\ pass' = "price" /\ parts' = <<>> /\ UNCHANGED figures
  /\ UNCHANGED revaluation

(* The Greeks of one trade: a figure is labelled with its key and its place on it. *)
TradeGreeksRead(job, pnl) ==
  LET size == Len(job.tenors)
      Row(k) == CurveRows(job.tenors) * (k - 1)
      quotes == [q \in 1..QuoteCount(job.quotes) |-> pnl[CurveRows(job.tenors) * Len(job.curves) + q]]
  IN  [delta |-> [k \in DOMAIN job.curves |-> [n \in 1..size |-> pnl[Row(k) + n]]],
       gamma |-> [k \in DOMAIN job.curves |-> [n \in 1..size |-> <<pnl[Row(k) + n], pnl[Row(k) + size + n]>>]],
       vega |-> IF job.quotes = Unsent THEN <<>>
                ELSE [o \in DOMAIN job.quotes.options |->
                        [w \in DOMAIN job.quotes.swaps |-> quotes[(o - 1) * Len(job.quotes.swaps) + w]]]]

(* The labels the result gives them: the tenors, and option by swap tenor row-major. *)
GreekLabels(job) ==
  [curve |-> job.tenors,
   vega |-> IF job.quotes = Unsent THEN <<>>
            ELSE FlattenSeq([o \in DOMAIN job.quotes.options |->
                               [w \in DOMAIN job.quotes.swaps |-> <<job.quotes.options[o], job.quotes.swaps[w]>>]])]

ReadFigures ==
  /\ AllMapped /\ pass = "price"
  /\ figures' = [greeks |-> IF revaluation.kind = "greeks" THEN TradeGreeksRead(revaluation, Gathered) ELSE Unsent,
                 labels |-> IF revaluation.kind = "greeks" THEN GreekLabels(revaluation) ELSE Unsent,
                 pnl |-> Gathered, unused |-> UnusedDevices(revaluation, Len(moves))]
  /\ UNCHANGED <<revaluation, pass, moves, parts>>

RevaluationNext ==
  \/ revaluation = Unsent /\ \E job \in RevaluationJobs : RevalueTrade(job)
  \/ MapBatch
  \/ RequireCalibrated
  \/ ReadFigures

---------------------------------------------------------------------------
(* Properties. *)

(* The one node a shift moves, by how much: <<curve or "quote", label, amount>>. *)
Moved(move, amounts) == {<<k, n>> \in UNION {{k} \X DOMAIN move.shifts[k] : k \in DOMAIN move.shifts} :
                           move.shifts[k][n] \in amounts}
MovedQuotes(move) == {q \in DOMAIN move.quotes : move.quotes[q] # 0}
Only(move, k, n, amount) == Moved(move, {1, -1}) = {<<k, n>>} /\ Moved(move, {amount}) = {<<k, n>>}
                            /\ MovedQuotes(move) = {}

Done == figures # Unsent /\ "pnl" \in DOMAIN figures
Flattened(rows) == FlattenSeq(rows)

(* A Greek under a tenor's label is the P&L of that tenor's own shift and of no other: the up shift
   for a Delta, both for a Gamma, the quote's own for a Vega. *)
GreeksAreOfTheirShift ==
  Done /\ revaluation.kind = "greeks" =>
    LET greeks == figures.greeks
        vega == Flattened(greeks.vega)
    IN  /\ \A k \in DOMAIN revaluation.curves : \A n \in DOMAIN figures.labels.curve :
             /\ Only(greeks.delta[k][n].move, k, n, 1)
             /\ greeks.gamma[k][n][1] = greeks.delta[k][n] /\ Only(greeks.gamma[k][n][2].move, k, n, -1)
        /\ Len(vega) = Len(figures.labels.vega)
        /\ \A q \in DOMAIN vega : Moved(vega[q].move, {1, -1}) = {} /\ MovedQuotes(vega[q].move) = {q}

(* A scenario's P&L is in its row, of its own shocks on each curve the trade reads, drawn with its
   own id and, recalibrated, on the model of its own curves. *)
PnlIsOfItsScenario ==
  Done =>
    /\ Len(figures.pnl) = Len(moves)
    /\ \A s \in DOMAIN moves :
         LET pnl == figures.pnl[s]
         IN  /\ pnl.id = s - 1
             /\ pnl.move = [moves[s] EXCEPT !.model = Unsent]
             /\ IF revaluation.calibrates THEN pnl.model = [of |-> pnl.move, id |-> s - 1] ELSE pnl.model = Unsent
             /\ revaluation.kind = "risk" =>
                  \A k \in DOMAIN revaluation.curves :
                    LET places == {f \in 1..factor_size(revaluation.factors) :
                                     labels(revaluation.factors)[f][1] = revaluation.curves[k]}
                    IN  /\ Len(pnl.move.shifts[k]) = Cardinality(places)
                        /\ \A f \in places :
                             pnl.move.shifts[k][Cardinality({g \in places : g <= f})] = revaluation.shifts[s][f]

(* Every device of the mesh is there, holds as many scenarios as any other and no more of them at
   once than fit; without a warning all the run may use are in it. *)
DevicesShareTheWork ==
  revaluation # Unsent =>
    LET used == mesh(revaluation, DeviceCount)
    IN  /\ DeviceCount > 1 =>
             /\ IsInjective(used) /\ \A d \in DOMAIN used : used[d] \in (1..revaluation.hosts) \X (1..revaluation.devices)
             /\ Share * DeviceCount = Len(moves)
        /\ \A b \in DOMAIN parts : \A d \in DOMAIN parts[b] :
             Len(parts[b][d]) <= revaluation.batch
             /\ (revaluation.holds # Unsent => Len(parts[b][d]) <= Max({1, revaluation.holds}))
        /\ Done /\ ~figures.unused => DeviceCount = device_limit(revaluation)

(* A run is refused for exactly the scenarios whose calibration misses. *)
RefusedForItsMisses ==
  figures # Unsent /\ "refused" \in DOMAIN figures =>
    figures.refused # {} /\ figures.refused = revaluation.misses \cap {s - 1 : s \in DOMAIN moves}

ShiftsKeepTheirLabel ==
  GreeksAreOfTheirShift /\ PnlIsOfItsScenario /\ DevicesShareTheWork /\ RefusedForItsMisses
=============================================================================
