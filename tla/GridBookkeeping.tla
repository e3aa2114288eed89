-------------------------- MODULE GridBookkeeping --------------------------
(***************************************************************************)
(* The bookkeeping of the grid engine's backward induction                 *)
(* (src/engine/pricing/lgm_grid.py): an option of TradeOnPath valued on    *)
(* several dates at once, each date's rows worked out from the times, the  *)
(* dates padded to one shape, the columns then rolled back row by row.     *)
(*                                                                         *)
(* A column is abstracted to the cashflows it holds and how much of each:  *)
(* a coupon of length n counts n when it is held whole, so a coupon's      *)
(* ratio is exact.  Times are ticks, two to a day, from the valuation      *)
(* date.                                                                   *)
(***************************************************************************)
EXTENDS TradeOnPath

CONSTANTS
  GridOptions,   \* the options valued, booked
  GridDays,      \* the sets of dates they are valued on together
  EXERCISE_STEPS \* exercise_time_steps_per_year, for every two days

\* The options are booked ones, with a date to exercise on at least.
ASSUME OptionsAssumption ==
  /\ \A t \in GridOptions : /\ t \in SwapBookings /\ t.kind \in ExerciseKinds
                            /\ ExerciseAccepted(t)
  /\ \A days \in GridDays : days \in Seq(Nat)
  /\ EXERCISE_STEPS \in Nat

VARIABLES
  valued,     \* the option and its dates, or Nothing
  shaped,     \* each date's prepared option and induction rows, of one shape
  row,        \* the row the induction has come to
  columns,    \* each date's underlying and cache columns
  exerciseValue, \* each date's exercise value on the row
  batch       \* the paths priced in blocks, or Nothing

gridVars == <<valued, shaped, row, columns, exerciseValue, batch>>

TICKS == 2

\* A set as a sequence by a strict order (SetToSortSeq enumerates every sequence of the set).
InOrder(S, before(_, _)) ==
  [k \in 1 .. Cardinality(S) |-> CHOOSE x \in S : Cardinality({y \in S : before(y, x)}) = k - 1]

(***************************************************************************)
(* prepare_bermudan and option_times.                                      *)
(***************************************************************************)
american_times(t, day) ==
  LET t1    == Max({0, TICKS * (Max({1, t.exercise[1]}) - day)})  \* built on the as-of date
      t2    == Max({t1, TICKS * (t.exercise[2] - day)})
      steps == Max({1, ((t2 - t1) * EXERCISE_STEPS) \div (2 * TICKS)})
  IN  {t1} \cup {t1 + (i * (t2 - t1)) \div steps : i \in 0 .. steps}

option_times(t, day) ==
  IF t.kind = "american" THEN american_times(t, day)
  ELSE {TICKS * (e - day) : e \in {d \in Range(t.exercise) : d > day}}

\* A cashflow's times: it can be estimated up to its payment, or to its fixing.
Cashflow(t, coupon, day, estimate) ==
  [belongs |-> TICKS * (BelongsUntil(t, coupon) - day), start |-> TICKS * (coupon.start - day),
   end |-> TICKS * (coupon.end - day), estimate |-> Max({0, TICKS * (estimate - day)})]

KeptSeq(t, leg, day) == InOrder(Kept(t, leg, day), <)

Prepared(t, day) ==
  LET fixed    == fixedLeg(t)
      floating == floatingLeg(t)
  IN  [fixed |-> [n \in DOMAIN KeptSeq(t, fixed, day) |->
                    LET c == fixed[KeptSeq(t, fixed, day)[n]] IN Cashflow(t, c, day, c.pay)],
       floating |-> [n \in DOMAIN KeptSeq(t, floating, day) |->
                       LET c == floating[KeptSeq(t, floating, day)[n]] IN Cashflow(t, c, day, c.fix)],
       times |-> option_times(t, day)]

\* A coupon that pads a trade never belongs to the underlying.
Padding == [belongs |-> -1, start |-> 0, end |-> 0, estimate |-> 0]

Padded(flows, width) == flows \o [n \in 1 .. width - Len(flows) |-> Padding]

Cashflows(p) == p.fixed \o p.floating

(***************************************************************************)
(* _build_grid_schedule: what ORE's backward loop does with each cashflow. *)
(***************************************************************************)
RowTimes(p) == InOrder({0} \cup p.times, >)

IsPart(cashflow, t) == t <= cashflow.belongs

\* couponRatio, times the coupon's length.
Credit(cashflow, t) == Max({0, Min({cashflow.end - cashflow.start, cashflow.end - t})})
Broken(cashflow, t) == Credit(cashflow, t) # cashflow.end - cashflow.start

Act(cashflow, status, t) ==
  IF status = "done" \/ ~IsPart(cashflow, t) THEN "none"
  ELSE IF status = "cached" THEN (IF Broken(cashflow, t) THEN "from_cache" ELSE "cache_to_under")
  ELSE IF t <= cashflow.estimate THEN (IF Broken(cashflow, t) THEN "start_cache" ELSE "add_pv")
  ELSE "non_cached"

StatusAfter(status, act) ==
  CASE act \in {"cache_to_under", "add_pv"} -> "done"
    [] act = "start_cache" -> "cached"
    [] OTHER -> status

\* A cashflow's status before each row.
StatusBefore(times, cashflow) ==
  LET status[g \in DOMAIN times] ==
        IF g = 1 THEN "open"
        ELSE LET before == status[g - 1] IN StatusAfter(before, Act(cashflow, before, times[g - 1]))
  IN  status

GridSchedule(p) ==
  LET times == RowTimes(p)
      flows == Cashflows(p)
  IN  [g \in DOMAIN times |->
         [t |-> times[g], is_exercise |-> times[g] \in p.times,
          rollback |-> g > 1,
          acts |-> [i \in DOMAIN flows |-> Act(flows[i], StatusBefore(times, flows[i])[g], times[g])]]]

(***************************************************************************)
(* _cache_slots: a column for each cached coupon, used again once its      *)
(* coupon has moved into the underlying.                                   *)
(***************************************************************************)
RowsOf(schedule, i, act) == {g \in DOMAIN schedule : schedule[g].acts[i] = act}

StartRow(schedule, i) == Min(RowsOf(schedule, i, "start_cache"))

EndRow(schedule, i) ==
  LET moved == RowsOf(schedule, i, "cache_to_under") IN IF moved = {} THEN Len(schedule) ELSE Min(moved)

Started(schedule) == {i \in DOMAIN schedule[1].acts : RowsOf(schedule, i, "start_cache") # {}}

CachedFrom(schedule) ==
  LET from(i) == StartRow(schedule, i)
  IN  InOrder(Started(schedule), LAMBDA i, j : from(i) < from(j) \/ (from(i) = from(j) /\ i < j))

\* The coupon takes the first of the free columns, or a new one.
InSlot(schedule, taken, i, free) ==
  IF free = {}
  THEN [busy |-> Append(taken.busy, EndRow(schedule, i)), slot |-> [taken.slot EXCEPT ![i] = Len(taken.busy) + 1]]
  ELSE [busy |-> [taken.busy EXCEPT ![Min(free)] = EndRow(schedule, i)], slot |-> [taken.slot EXCEPT ![i] = Min(free)]]

TakeSlot_InThatRow(schedule, taken, i) ==
  InSlot(schedule, taken, i, {k \in DOMAIN taken.busy : taken.busy[k] <= StartRow(schedule, i)})

TakeSlot(schedule, taken, i) ==
  InSlot(schedule, taken, i, {k \in DOMAIN taken.busy : taken.busy[k] < StartRow(schedule, i)})

\* The columns' last rows, and the column of each coupon that is cached, 0 until it has one.
cache_slots(schedule) ==
  LET order == CachedFrom(schedule)
      taken[n \in 0 .. Len(order)] ==
        IF n = 0 THEN [busy |-> <<>>, slot |-> [i \in Started(schedule) |-> 0]]
        ELSE LET before == taken[n - 1] IN TakeSlot(schedule, before, order[n])
  IN  taken[Len(order)]

(***************************************************************************)
(* induction_rows and one_shape.                                           *)
(***************************************************************************)
Together(amounts, places) == MapThenSumSet(LAMBDA k : amounts[k], places)

InductionRow(p, r, slots) ==
  LET flows == Cashflows(p)
      whole(i) == flows[i].end - flows[i].start
      held(k, acts) == {i \in DOMAIN slots.slot : slots.slot[i] = k /\ r.acts[i] \in acts}
  IN  [t |-> r.t, is_exercise |-> r.is_exercise, rollback |-> r.rollback,
       provisional |-> [i \in DOMAIN flows |-> IF r.acts[i] = "non_cached" THEN Credit(flows[i], r.t) ELSE 0],
       add |-> [i \in DOMAIN flows |-> IF r.acts[i] = "add_pv" THEN whole(i) ELSE 0],
       starts |-> [k \in DOMAIN slots.busy |-> held(k, {"start_cache"})],
       moves |-> [k \in DOMAIN slots.busy |-> held(k, {"cache_to_under"}) # {}],
       shares |-> [k \in DOMAIN slots.busy |->
                     Together([i \in DOMAIN flows |-> Credit(flows[i], r.t)], held(k, {"from_cache", "start_cache"}))]]

induction_rows(p) ==
  LET schedule == GridSchedule(p)
      slots    == cache_slots(schedule)
  IN  [g \in DOMAIN schedule |-> InductionRow(p, schedule[g], slots)]

SlotsOf(rows) == Len(rows[1].starts)

\* A row that pads does nothing, a cache column that pads is never used.
PadRow(r, slots) ==
  LET more(seq, what) == seq \o [k \in 1 .. slots - Len(seq) |-> what]
  IN  [r EXCEPT !.starts = more(@, {}), !.moves = more(@, FALSE), !.shares = more(@, 0)]

IdleRow(r) ==
  [r EXCEPT !.rollback = FALSE, !.is_exercise = FALSE, !.provisional = [i \in DOMAIN @ |-> 0],
            !.add = [i \in DOMAIN @ |-> 0], !.starts = [k \in DOMAIN @ |-> {}],
            !.moves = [k \in DOMAIN @ |-> FALSE], !.shares = [k \in DOMAIN @ |-> 0]]

padded_rows(rows, count, slots) ==
  LET wide == [g \in DOMAIN rows |-> PadRow(rows[g], slots)]
  IN  [g \in 1 .. count - Len(rows) |-> IdleRow(wide[1])] \o wide

one_shape(prepared) ==
  LET most(S)  == Max({0} \cup S)
      nf       == most({Len(p.fixed) : p \in Range(prepared)})
      nc       == most({Len(p.floating) : p \in Range(prepared)})
      trades   == [n \in DOMAIN prepared |->
                     [prepared[n] EXCEPT !.fixed = Padded(@, nf), !.floating = Padded(@, nc)]]
      rows     == [n \in DOMAIN trades |-> induction_rows(trades[n])]
      count    == most({Len(r) : r \in Range(rows)})
      slots    == most({SlotsOf(r) : r \in Range(rows)})
  IN  [n \in DOMAIN trades |-> [option |-> trades[n], rows |-> padded_rows(rows[n], count, slots)]]

(***************************************************************************)
(* The induction.                                                          *)
(***************************************************************************)
Nought(flows) == [i \in DOMAIN flows |-> 0]

\* The dates the option is alive on, in their order.
LiveDays(t, days) ==
  LET alive == InOrder({k \in DOMAIN days : ~is_expired(t, days[k])}, <) IN [n \in DOMAIN alive |-> days[alive[n]]]

ShapeDates ==
  /\ valued = Nothing /\ batch = Nothing
  /\ \E t \in GridOptions, days \in GridDays :
       LET live   == LiveDays(t, days)
           shapes == one_shape([n \in DOMAIN live |-> Prepared(t, live[n])])
           none(n) == Nought(Cashflows(shapes[n].option))
       IN  /\ live # <<>>
           /\ \A n \in DOMAIN live : Kept(t, fixedLeg(t), live[n]) # {}  \* else prepare_bermudan raises
           /\ valued' = [trade |-> t, days |-> live]
           /\ shaped' = shapes
           /\ columns' = [n \in DOMAIN live |->
                            [underlying |-> none(n), cache |-> [k \in 1 .. SlotsOf(shapes[n].rows) |-> none(n)]]]
           /\ exerciseValue' = [n \in DOMAIN live |-> none(n)]
  /\ UNCHANGED <<row, batch>>

\* _bookkeeping: the underlying gains its coupons and the cache columns that move, then those
\* columns are cleared or start a coupon.
AfterRow(col, r, swap) ==
  LET flows == Cashflows(swap)
      moved(i) == (flows[i].end - flows[i].start) * Cardinality({k \in DOMAIN r.moves : r.moves[k] /\ col.cache[k][i] = 1})
      cached(k, i) == IF r.moves[k] THEN 0
                      ELSE IF r.starts[k] # {} THEN (IF i \in r.starts[k] THEN 1 ELSE 0) ELSE col.cache[k][i]
  IN  [underlying |-> [i \in DOMAIN flows |-> col.underlying[i] + r.add[i] + moved(i)],
       cache |-> [k \in DOMAIN col.cache |-> [i \in DOMAIN flows |-> cached(k, i)]]]

\* The exercise value: the underlying, and what the others are credited provisionally.
ExerciseValue(col, r) ==
  [i \in DOMAIN col.underlying |->
     col.underlying[i] + r.provisional[i]
       + Together([k \in DOMAIN r.shares |-> r.shares[k] * col.cache[k][i]], DOMAIN r.shares)]

InductRow ==
  /\ valued # Nothing /\ row < Len(shaped[1].rows)
  /\ LET after == [n \in DOMAIN shaped |-> AfterRow(columns[n], shaped[n].rows[row + 1], shaped[n].option)]
     IN  /\ columns' = after
         /\ exerciseValue' = [n \in DOMAIN shaped |-> ExerciseValue(after[n], shaped[n].rows[row + 1])]
  /\ row' = row + 1
  /\ UNCHANGED <<valued, shaped, batch>>

(***************************************************************************)
(* Blocks of paths (path_blocks, blocked).  Paths are 0, 1, ...            *)
(***************************************************************************)
path_blocks(paths, bytes, devices, budget) ==
  LET share == paths \div devices
      fits  == {b \in 1 .. share : share % b = 0 /\ (share \div b) * bytes <= budget}
  IN  IF fits = {} THEN Max({share, 1}) ELSE Min(fits)

\* a.reshape((-1, blocks)), its block axis first: block b's values in order.
ByBlock(values, blocks) ==
  [b \in 0 .. blocks - 1 |-> [n \in 0 .. Cardinality(DOMAIN values) \div blocks - 1 |-> values[n * blocks + b]]]

Joined(byBlock, blocks) ==
  [p \in 0 .. blocks * Cardinality(DOMAIN byBlock[0]) - 1 |-> byBlock[p % blocks][p \div blocks]]

PriceBlocks ==
  /\ valued = Nothing /\ batch = Nothing
  /\ \E devices \in 1 .. 2, share \in 1 .. 6, budget \in 1 .. 6 :
       LET paths  == devices * share
           blocks == path_blocks(paths, 2, devices, budget)
           by     == ByBlock([p \in 0 .. paths - 1 |-> p], blocks)
       IN  batch' = [paths |-> paths, devices |-> devices, budget |-> budget, by |-> by, values |-> Joined(by, blocks)]
  /\ UNCHANGED <<valued, shaped, row, columns, exerciseValue>>

GridInit == valued = Nothing /\ shaped = <<>> /\ row = 0 /\ columns = <<>> /\ exerciseValue = <<>> /\ batch = Nothing

GridNext == ShapeDates \/ InductRow \/ PriceBlocks

GridSpec == GridInit /\ [][GridNext]_gridVars

(***************************************************************************)
(* Properties.                                                             *)
(***************************************************************************)
\* At every date's every exercise time the exercise value holds each coupon an exercise then
\* enters, in the share of its period left (whole for a Bermudan), and no other: whatever row it
\* was first estimated on, whichever cache column held it meanwhile, and however the date was
\* padded (lgm_grid.py, _build_grid_schedule, _cache_slots, one_shape, _bookkeeping).
ExerciseHoldsItsCoupons ==
  valued # Nothing /\ row > 0 =>
    \A n \in DOMAIN shaped :
      LET r == shaped[n].rows[row]
          flows == Cashflows(shaped[n].option)
      IN  r.is_exercise =>
            \A i \in DOMAIN flows :
              exerciseValue[n][i] =
                IF flows[i] # Padding /\ r.t <= flows[i].belongs
                THEN Max({0, Min({flows[i].end - flows[i].start, flows[i].end - r.t})}) ELSE 0

\* Every option time of every date is an exercise row once padded (lgm_grid.py, one_shape).
EveryTimeIsARow ==
  valued # Nothing =>
    \A n \in DOMAIN shaped :
      {r.t : r \in {x \in Range(shaped[n].rows) : x.is_exercise}} = option_times(valued.trade, valued.days[n])

\* Blocks take the same paths from every device and give each path its own value back
\* (lgm_grid.py, path_blocks and blocked).
PathsKeepTheirPlace ==
  batch # Nothing =>
    /\ \A p \in DOMAIN batch.values : batch.values[p] = p
    /\ LET owner(p) == p \div (batch.paths \div batch.devices)
           of(b, d) == Cardinality({p \in Range(batch.by[b]) : owner(p) = d})
       IN  \A b \in DOMAIN batch.by, d, e \in 0 .. batch.devices - 1 : of(b, d) = of(b, e)

InductionIsOrdered == ExerciseHoldsItsCoupons /\ EveryTimeIsARow /\ PathsKeepTheirPlace
=============================================================================
