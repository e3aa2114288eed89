---------------------------- MODULE TradeOnPath ----------------------------
(***************************************************************************)
(* One trade booked, valued today, on the Theta date and on every date of  *)
(* one simulated path (src/engine/instruments, and legs.py, options.py,    *)
(* european.py, bermudan.py and cube.py of src/engine/pricing).            *)
(*                                                                         *)
(* Days are counted from the as-of date, day 0.  A value is abstracted to  *)
(* what it is made of: the fixed flows it discounts, the rate each         *)
(* floating coupon pays and the days it may be exercised.  Whether an      *)
(* exercise is in the money on the path is any function of the exercise    *)
(* dates.                                                                  *)
(***************************************************************************)
EXTENDS EodValues, Functions, FiniteSetsExt

CONSTANTS
  Bookings,   \* the trades given to the engine
  DateGrids,  \* the simulation's dates: ascending days after the as-of date
  THETA_DAYS  \* SensitivityConfig.theta_days

\* A booking's fields, as the instruments' configurations hold them: the dates of a swap or of a
\* swaption's underlying, the days a floating coupon covers, its exercise dates and its own fixings, of
\* any date (validate_fixings refuses none).
SwapBookings ==
  [kind : {"swap", "european", "bermudan", "american"}, tenor : Int, forward : Int, effective : Int, maturity : Int,
   every : Nat \ {0}, exercise : Seq(Int), history : SUBSET Int, physical : BOOLEAN]

BondBookings ==
  [kind : {"bond"}, periods : Seq([start : Int, end : Int, pay : Int]), maturity : Int, coupons : BOOLEAN,
   physical : BOOLEAN]

ASSUME BookingsAssumption == Bookings \subseteq SwapBookings \cup BondBookings

\* The simulation's dates increase strictly and are after the as-of date: its configuration refuses
\* others.
ASSUME DateGridsAssumption ==
  \A grid \in DateGrids :
    /\ grid \in Seq(Nat \ {0}) /\ grid # <<>>
    /\ \A j, k \in DOMAIN grid : j < k => grid[j] < grid[k]

VARIABLES
  trade,      \* the booked trade, or Nothing
  dates,      \* the simulation's dates
  moneyness,  \* for each exercise date, whether the path is in the money on its grid date
  valuing,    \* how far the trade has come
  todayValue, thetaValue,
  option,     \* the option's own column, a value for each date
  underlyings,\* the column of the swap each exercise enters
  column,     \* the trade's column as wrapped so far
  exercised,  \* the path's exercise state at each date
  wrapping    \* the exercise the wrapper looks at, and the steps it has seen

tradeVars == <<trade, dates, moneyness, valuing, todayValue, thetaValue, option, underlyings, column,
               exercised, wrapping>>

(***************************************************************************)
(* Booking.                                                                *)
(***************************************************************************)
SPOT_LAG_DAYS == 1
NotGiven      == -99    \* a date or a tenor that was not given

ExerciseKinds == {"bermudan", "american"}
Optional      == ExerciseKinds \cup {"european"}

book_swap_dates(b) ==
  IF b.tenor # NotGiven
  THEN [b EXCEPT !.effective = SPOT_LAG_DAYS + (IF b.forward = NotGiven THEN 0 ELSE b.forward),
                 !.maturity = SPOT_LAG_DAYS + (IF b.forward = NotGiven THEN 0 ELSE b.forward) + b.tenor]
  ELSE b

DatesAccepted(b) ==
  /\ b.tenor # NotGiven => b.effective = NotGiven /\ b.maturity = NotGiven
  /\ b.tenor = NotGiven => b.forward = NotGiven /\ b.effective # NotGiven /\ b.maturity # NotGiven
  /\ book_swap_dates(b).effective < book_swap_dates(b).maturity

\* A European booked by tenor exercises its lag after the forward start.
resolve_exercise_date(b) ==
  IF b.kind = "european" /\ b.tenor # NotGiven
  THEN [b EXCEPT !.exercise = <<SPOT_LAG_DAYS + (IF b.forward = NotGiven THEN 0 ELSE b.forward)>>]
  ELSE b

Resolved(b) == book_swap_dates(resolve_exercise_date(b))

\* The coupons ORE generates between the dates: one each `every` days, paid at its end, its
\* rate fixed the spot lag before its start.
ScheduleOf(b, every) ==
  [i \in 1 .. (b.maturity - b.effective) \div every |->
     LET start == b.effective + (i - 1) * every
     IN  [start |-> start, end |-> start + every, pay |-> start + every, fix |-> start - SPOT_LAG_DAYS]]

fixedLeg(t)    == ScheduleOf(t, 2 * t.every)
floatingLeg(t) == ScheduleOf(t, t.every)

\* The first coupon of a leg a European enters, or 0: a whole period from its expiry on.
FirstWhole(leg, expiry) ==
  LET whole == {i \in DOMAIN leg : leg[i].pay > expiry /\ leg[i].start >= expiry}
  IN  IF whole = {} THEN 0 ELSE Min(whole)

Sorted(days) == \A i, j \in DOMAIN days : i < j => days[i] <= days[j]

ExerciseAccepted(b) ==
  /\ b.kind = "european" => /\ Len(b.exercise) = 1
                            /\ b.tenor # NotGiven => b.exercise = <<NotGiven>>
                            /\ LET e == Resolved(b).exercise[1]
                               IN  e # NotGiven /\ e < Resolved(b).maturity
  /\ b.kind \in ExerciseKinds => b.exercise # <<>> /\ Sorted(b.exercise)
  /\ b.kind = "american" => Len(b.exercise) = 2

\* validate_trades refuses a European without a whole period to enter.
WholePeriods(t) ==
  t.kind = "european" => /\ FirstWhole(fixedLeg(t), t.exercise[1]) > 0
                         /\ FirstWhole(floatingLeg(t), t.exercise[1]) > 0

\* A bond's explicit schedule, each period with its payment.
validate_schedule(b) ==
  /\ \A p \in Range(b.periods) : p.end > p.start /\ p.pay >= p.end
  /\ \A i \in 2 .. Len(b.periods) : b.periods[i].start = b.periods[i - 1].end
  /\ b.periods # <<>> => b.periods[Len(b.periods)].end = b.maturity

last_payment_date(b) == IF b.periods = <<>> THEN b.maturity ELSE Max({p.pay : p \in Range(b.periods)})
redemption_date(b)   == IF b.periods = <<>> THEN b.maturity ELSE b.periods[Len(b.periods)].pay

BondAccepted(b, day) ==
  /\ last_payment_date(b) > day
  /\ (b.periods # <<>>) = b.coupons
  /\ validate_schedule(b)

Booked(b) ==
  IF b.kind = "bond" THEN BondAccepted(b, 0)
  ELSE DatesAccepted(b) /\ ExerciseAccepted(b) /\ WholePeriods(Resolved(b))

Book ==
  /\ valuing = "unbooked"
  /\ \E b \in Bookings, grid \in DateGrids :
       LET t == IF b.kind = "bond" THEN b ELSE Resolved(b)
       IN  IF Booked(b)
           THEN /\ trade' = t /\ dates' = grid /\ valuing' = "booked"
                /\ moneyness' \in [IF b.kind \in Optional THEN DOMAIN t.exercise ELSE {} -> BOOLEAN]
           ELSE valuing' = "refused" /\ UNCHANGED <<trade, dates, moneyness>>
  /\ UNCHANGED <<todayValue, thetaValue, option, underlyings, column, exercised, wrapping>>

(***************************************************************************)
(* What a value is made of.                                                *)
(***************************************************************************)
Forecast       == [from |-> "forecast", at |-> 0]
History(day)   == [from |-> "history", at |-> day]
PathFixing(day) == [from |-> "path", at |-> day]  \* the forecast of that date's index curve

Value(flows, rates) == [flows |-> flows, rates |-> rates, days |-> {}, error |-> "none"]

Zero        == Value({}, <<>>)
Failed(why) == [Zero EXCEPT !.error = why]  \* an exception instead of a value

\* The trade's own fixings; SwaptionConfig holds none.
HistoryOf(t) == [day \in IF t.kind = "european" THEN {} ELSE t.history |-> History(day)]

\* known_fixing: fixings after the date are ignored, the date's own is optional.
IsKnown(fix, day, fixings) == fix <= day /\ fix \in DOMAIN fixings

FixingMissing(fix, day, fixings) == fix < day /\ fix \notin DOMAIN fixings

Coupons(leg, first) == {i \in DOMAIN leg : i >= first}

\* A leg's flows and rates on one date, from today_schedule.
today_npv(fixed, floating, firsts, day, fixings) ==
  LET alive == {i \in Coupons(floating, firsts[2]) : floating[i].pay > day}
  IN  IF \E i \in alive : FixingMissing(floating[i].fix, day, fixings) THEN Failed("MissingFixing")
      ELSE Value({i \in Coupons(fixed, firsts[1]) : fixed[i].pay > day},
                 [i \in alive |-> IF IsKnown(floating[i].fix, day, fixings)
                                  THEN fixings[floating[i].fix] ELSE Forecast])

\* The grid index whose fixing a coupon fixed on `fix` pays (PathSchedule.fixing_step).
fixing_step(fix) ==
  LET after == {j \in DOMAIN dates : dates[j] > fix}
  IN  IF after = {} THEN Len(dates) ELSE Min(after)

HistoryNeeded(floating, first, fixings) ==
  \E i \in Coupons(floating, first) :
    floating[i].pay > dates[1] /\ floating[i].fix < 0 /\ floating[i].fix \notin DOMAIN fixings

\* The rate a coupon reads on the path (on_every_date): its forecast, a path fixing, its history.
RateOn(fix, j, fixings) ==
  IF fix >= dates[j] THEN Forecast
  ELSE IF fix >= 0 THEN PathFixing(dates[fixing_step(fix)]) ELSE fixings[fix]

legs_cube(fixed, floating, firsts, fixings) ==
  [j \in DOMAIN dates |->
     Value({i \in Coupons(fixed, firsts[1]) : fixed[i].pay > dates[j]},
           [i \in {k \in Coupons(floating, firsts[2]) : floating[k].pay > dates[j]} |->
              RateOn(floating[i].fix, j, fixings)])]

\* A bond's payments after a date as a fixed leg, the redemption its last flow.
bond_legs(b, day) ==
  LET last     == Len(b.periods) + 1
      payments == [i \in 1 .. last |-> IF i = last THEN redemption_date(b) ELSE b.periods[i].pay]
  IN  [i \in {k \in 1 .. last : payments[k] > day} |-> [pay |-> payments[i]]]

(***************************************************************************)
(* Today and the Theta date.                                               *)
(***************************************************************************)
\* Every fixing date from the as-of date to the Theta date gets the forecast on the Theta date.
backfilled_fixings == [day \in 0 .. THETA_DAYS - 1 |-> PathFixing(THETA_DAYS)]

contract_exercise_dates(t) ==
  IF t.kind = "american" THEN <<Max({1, t.exercise[1]}), t.exercise[2]>> ELSE t.exercise

is_expired(t, day) == t.exercise[Len(t.exercise)] <= day

\* The coupons the grid engine keeps for an option valued on a date, and the rates they pay.
BelongsUntil(t, coupon) == IF t.kind = "american" THEN coupon.end ELSE coupon.start
Kept(t, leg, day) == {i \in DOMAIN leg : BelongsUntil(t, leg[i]) >= day}

\* The days after the one valued on which an option built on a date may be exercised (option_times):
\* an American's window opens no earlier than the day after it was built, and never before the day valued.
option_days(t, day, built_on) ==
  IF t.kind = "american"
  THEN LET opens == Max({0, Max({built_on + 1, t.exercise[1]}) - day})
       IN  opens .. Max({opens, t.exercise[2] - day})
  ELSE {e - day : e \in {d \in Range(t.exercise) : d > day}}

\* The grid engine's value of an option built on a date (prepare_bermudan).
GridValue(t, day, built_on, fixings) ==
  LET kept == Kept(t, floatingLeg(t), day)
      ends == Max({leg[Len(leg)].pay : leg \in {fixedLeg(t), floatingLeg(t)}})
      days == option_days(t, day, built_on)
      rate(fix) == IF IsKnown(fix, day, fixings) THEN fixings[fix] ELSE Forecast
  IN  IF \E i \in kept : FixingMissing(floatingLeg(t)[i].fix, day, fixings) THEN Failed("MissingFixing")
      ELSE IF Kept(t, fixedLeg(t), day) = {} \/ kept = {} THEN Failed("IndexError")
      ELSE IF \E d \in days : day + d >= ends THEN Failed("AfterMaturity")
      ELSE [Value(Kept(t, fixedLeg(t), day), [i \in kept |-> rate(floatingLeg(t)[i].fix)]) EXCEPT !.days = days]

\* A trade's fixings with those a bump adds, which come first.
WithExtra(extra, fixings) ==
  [day \in DOMAIN extra \cup DOMAIN fixings |-> IF day \in DOMAIN extra THEN extra[day] ELSE fixings[day]]

european_terms(t) ==
  <<FirstWhole(fixedLeg(t), t.exercise[1]), FirstWhole(floatingLeg(t), t.exercise[1])>>

value_on(t, day, extra) ==
  LET fixings == WithExtra(extra, IF t.kind = "bond" THEN <<>> ELSE HistoryOf(t))
  IN  CASE t.kind = "bond" ->
             IF day >= last_payment_date(t) THEN Zero
             ELSE Value(DOMAIN bond_legs(t, day), <<>>)
        [] t.kind = "swap" -> today_npv(fixedLeg(t), floatingLeg(t), <<1, 1>>, day, fixings)
        [] t.kind = "european" -> IF is_expired(t, day) THEN Zero
             ELSE today_npv(fixedLeg(t), floatingLeg(t), european_terms(t), day, extra)
        [] t.kind \in ExerciseKinds -> IF is_expired(t, day) THEN Zero
             ELSE GridValue(t, day, day, fixings)

ValueToday ==
  /\ valuing = "booked"
  /\ todayValue' = value_on(trade, 0, <<>>)
  /\ valuing' = "valued"
  /\ UNCHANGED <<trade, dates, moneyness, thetaValue, option, underlyings, column, exercised, wrapping>>

ValueTheta ==
  /\ valuing = "valued"
  /\ thetaValue' = value_on(trade, THETA_DAYS, backfilled_fixings)
  /\ valuing' = "bumped"
  /\ UNCHANGED <<trade, dates, moneyness, todayValue, option, underlyings, column, exercised, wrapping>>

(***************************************************************************)
(* The path.                                                               *)
(***************************************************************************)
european_cube(t) ==
  LET firsts == european_terms(t)
  IN  [j \in DOMAIN dates |->
         IF is_expired(t, dates[j]) THEN Zero
         ELSE Value(Coupons(fixedLeg(t), firsts[1]),
                    [i \in Coupons(floatingLeg(t), firsts[2]) |-> RateOn(floatingLeg(t)[i].fix, j, <<>>)])]

\* On each date the trade built on the as-of date, its fixings its history and every fixing date since; what
\* is fixed from the as-of date on is a path fixing, of a date after it (_known_rates).
bermudan_cube(t) ==
  [j \in DOMAIN dates |->
     IF \A e \in Range(contract_exercise_dates(t)) : e <= dates[j] THEN Zero
     ELSE LET onPath    == {fix \in {c.fix : c \in Range(floatingLeg(t))} : fix >= 0 /\ fix < dates[j]}
              rateOf(fix) == IF fix < 0 THEN History(fix) ELSE PathFixing(dates[fixing_step(fix)])
          IN  GridValue(t, dates[j], 0, [fix \in DOMAIN HistoryOf(t) \cup onPath |-> rateOf(fix)])]

\* The first coupon of the swap an exercise enters: one before the first accruing from it.
underlying_start(leg, e) ==
  LET from == {i \in DOMAIN leg : leg[i].start >= e}
  IN  Max({1, (IF from = {} THEN Len(leg) + 1 ELSE Min(from)) - 1})

UnderlyingFirsts(t, e) == <<underlying_start(fixedLeg(t), e), underlying_start(floatingLeg(t), e)>>

TermsMissHistory(t) == HistoryNeeded(floatingLeg(t), european_terms(t)[2], <<>>)

PriceOption ==
  /\ valuing = "bumped" /\ trade.kind \in Optional
  /\ LET cube == CASE trade.kind \in ExerciseKinds -> bermudan_cube(trade)
                   [] trade.kind = "european" /\ is_expired(trade, 0) -> [j \in DOMAIN dates |-> Zero]
                   [] trade.kind = "european" /\ ~is_expired(trade, 0) ->
                        IF TermsMissHistory(trade) THEN <<Failed("MissingFixing")>> ELSE european_cube(trade)
     IN  /\ option' = cube
         /\ valuing' = IF \E j \in DOMAIN cube : cube[j].error # "none" THEN "unpriced" ELSE "option"
         /\ column' = cube
  /\ UNCHANGED <<trade, dates, moneyness, todayValue, thetaValue, underlyings, exercised, wrapping>>

PriceUnderlyings ==
  /\ valuing = "option"
  /\ LET exercises == contract_exercise_dates(trade)
         fixings   == HistoryOf(trade)
         firsts(i) == UnderlyingFirsts(trade, exercises[i])
     IN  IF \E i \in DOMAIN exercises : HistoryNeeded(floatingLeg(trade), firsts(i)[2], fixings)
         THEN valuing' = "unpriced" /\ UNCHANGED underlyings
         ELSE /\ valuing' = "wrapping"
              /\ underlyings' = [i \in DOMAIN exercises |->
                                   legs_cube(fixedLeg(trade), floatingLeg(trade), firsts(i), fixings)]
  /\ exercised' = [j \in DOMAIN dates |-> FALSE]
  /\ UNCHANGED <<trade, dates, moneyness, todayValue, thetaValue, option, column, wrapping>>

PriceLegs ==
  /\ valuing = "bumped" /\ trade.kind \notin Optional
  /\ IF trade.kind = "bond"
     THEN valuing' = "wrapped" /\ column' = legs_cube(bond_legs(trade, 0), <<>>, <<1, 1>>, <<>>)
     ELSE IF HistoryNeeded(floatingLeg(trade), 1, HistoryOf(trade))
     THEN valuing' = "unpriced" /\ UNCHANGED column
     ELSE /\ valuing' = "wrapped"
          /\ column' = legs_cube(fixedLeg(trade), floatingLeg(trade), <<1, 1>>, HistoryOf(trade))
  /\ UNCHANGED <<trade, dates, moneyness, todayValue, thetaValue, option, underlyings, exercised, wrapping>>

\* The index of the grid date an exercise date takes effect on, or 0 (effective_steps).
effective_step(e) ==
  IF 0 < e /\ e <= dates[Len(dates)] THEN Min({j \in DOMAIN dates : dates[j] >= e}) ELSE 0

\* An underlying without a flow is worth 0, never more than the option.
InTheMoney(i, step) ==
  moneyness[i] /\ (underlyings[i][step].flows # {} \/ underlyings[i][step].rates # <<>>)

\* One exercise of the wrapper's loop (_wrap).
WrapExercise_EachDate ==
  /\ valuing = "wrapping" /\ wrapping.next \in DOMAIN underlyings
  /\ LET i == wrapping.next
         step == effective_step(contract_exercise_dates(trade)[i])
         exercises == step # 0 /\ (\A j \in DOMAIN dates : ~exercised[j]) /\ InTheMoney(i, step)
         after(j) == exercises /\ j >= step
     IN  /\ column' = [j \in DOMAIN dates |->
                         IF after(j) THEN (IF trade.physical THEN underlyings[i][j] ELSE Zero) ELSE column[j]]
         /\ exercised' = [j \in DOMAIN dates |-> exercised[j] \/ after(j)]
         /\ wrapping' = [next |-> i + 1, seen |-> wrapping.seen]
  /\ UNCHANGED <<trade, dates, moneyness, valuing, todayValue, thetaValue, option, underlyings>>

WrapExercise ==
  /\ valuing = "wrapping" /\ wrapping.next \in DOMAIN underlyings
  /\ LET i == wrapping.next
         step == effective_step(contract_exercise_dates(trade)[i])
         looks == step \notin wrapping.seen \cup {0}
         exercises == looks /\ (\A j \in DOMAIN dates : ~exercised[j]) /\ InTheMoney(i, step)
         after(j) == exercises /\ j >= step
     IN  /\ column' = [j \in DOMAIN dates |->
                         IF after(j) THEN (IF trade.physical THEN underlyings[i][j] ELSE Zero) ELSE column[j]]
         /\ exercised' = [j \in DOMAIN dates |-> exercised[j] \/ after(j)]
         /\ wrapping' = [next |-> i + 1, seen |-> IF looks THEN wrapping.seen \cup {step} ELSE wrapping.seen]
  /\ UNCHANGED <<trade, dates, moneyness, valuing, todayValue, thetaValue, option, underlyings>>

Wrapped ==
  /\ valuing = "wrapping" /\ wrapping.next \notin DOMAIN underlyings
  /\ valuing' = "wrapped"
  /\ UNCHANGED <<trade, dates, moneyness, todayValue, thetaValue, option, underlyings, column, exercised, wrapping>>

TradeInit ==
  /\ valuing = "unbooked" /\ trade = Nothing /\ dates = <<>> /\ moneyness = <<>>
  /\ todayValue = Zero /\ thetaValue = Zero
  /\ option = <<>> /\ underlyings = <<>> /\ column = <<>> /\ exercised = <<>>
  /\ wrapping = [next |-> 1, seen |-> {}]

TradeNext == Book \/ ValueToday \/ ValueTheta \/ PriceOption \/ PriceUnderlyings \/ PriceLegs
             \/ WrapExercise \/ Wrapped

TradeSpec == TradeInit /\ [][TradeNext]_tradeVars

(***************************************************************************)
(* Properties.                                                             *)
(***************************************************************************)
\* What ORE's OptionWrapper does walking the grid date by date: the exercise the path is in at
\* each date, 0 for none.  The first exercise date since the date before decides.
ExercisedInto ==
  LET dayBefore(j) == IF j = 1 THEN 0 ELSE dates[j - 1]
      into[j \in 0 .. Len(dates)] ==
        IF j = 0 THEN 0
        ELSE IF into[j - 1] # 0 THEN into[j - 1]
        ELSE LET due == {i \in DOMAIN underlyings :
                           /\ contract_exercise_dates(trade)[i] > dayBefore(j)
                           /\ contract_exercise_dates(trade)[i] <= dates[j]}
             IN  IF due # {} /\ InTheMoney(Min(due), j) THEN Min(due) ELSE 0
  IN  into

\* The column the vectorised wrapper leaves (options.py, wrap) is the one a walk over the grid
\* would: the option until the path exercises, then for good the swap that exercise entered, or
\* nothing when it settled in cash.
WrapIsTheWalk ==
  valuing = "wrapped" /\ trade.kind \in Optional =>
    \A j \in DOMAIN dates :
      LET i == ExercisedInto[j]
      IN  /\ exercised[j] = (i # 0)
          /\ column[j] = IF i = 0 THEN option[j] ELSE IF trade.physical THEN underlyings[i][j] ELSE Zero

\* The coupon's rate is one the trade's own fixings hold for the day.
OwnFixing(i, day) == floatingLeg(trade)[i].fix = day /\ day \in DOMAIN HistoryOf(trade)

\* A Bermudan or an American takes such a fixing for known on that date of the path, and pays for it
\* what the path fixes on the next one (prepare_bermudan; bermudan.py, _known_rates), where a fixing of
\* the date valued is to be the one supplied, or else a forecast off that date's curve
\* (docs/instruments/american-bermudan-swaptions.md, lines 316 to 318).
TakesItsOwn(i, j) == trade.kind \in ExerciseKinds /\ OwnFixing(i, dates[j])

\* The rates the trade's columns pay on a coupon, on a date of the path.
PathColumns == {option, column} \cup Range(underlyings)
RatesPaid(i, j) == {c[j].rates[i] : c \in {d \in PathColumns : j \in DOMAIN d /\ i \in DOMAIN d[j].rates}}

\* In every column of the trade a coupon is forecast up to its fixing date and pays one rate from
\* then on, the same in the option and in every swap it may enter, and never one from a date
\* after the date valued.  The one exception is a coupon the option takes for known on its own fixing
\* date: it already pays there what every column pays later (legs.py, path_schedule; bermudan.py,
\* _known_rates).
OneRateFromItsFixing ==
  valuing = "wrapped" /\ trade.kind # "bond" =>
    \A i \in DOMAIN floatingLeg(trade), j \in DOMAIN dates :
      \A rate \in RatesPaid(i, j) :
        /\ TakesItsOwn(i, j) \/ (rate = Forecast) = (dates[j] <= floatingLeg(trade)[i].fix)
        /\ rate.from = "path" /\ ~TakesItsOwn(i, j) => rate.at > floatingLeg(trade)[i].fix /\ rate.at <= dates[j]
        /\ rate # Forecast =>
             \A k \in DOMAIN dates : k >= j /\ ~TakesItsOwn(i, k) => RatesPaid(i, k) \subseteq {rate}

\* What a value on the Theta date shares with the path's on that date: the flows, every rate but one the
\* trade's own fixings hold for the date, and the days it may be exercised, but for that day itself, on
\* which an American whose window is open may be exercised on the path and only there.
RollsTo(theta, path) ==
  /\ theta.error = path.error /\ theta.flows = path.flows /\ theta.days = path.days \ {0}
  /\ path.days # {} => (0 \in path.days) = (trade.kind = "american" /\ trade.exercise[1] <= THETA_DAYS)
  /\ DOMAIN theta.rates = DOMAIN path.rates
  /\ \A i \in DOMAIN theta.rates : theta.rates[i] # path.rates[i] => OwnFixing(i, THETA_DAYS)

\* A trade rolled to the Theta date is worth what the path makes of it when that date is the first
\* simulated, the fixings backfilled those the path fixes (bump.py, _backfilled_fixings; cube.py,
\* value_on and _path_values).  It is built anew on the Theta date where the path's was built on the
\* as-of date (bermudan.py, prepared_option), which moves no exercise but one on that very day.
ThetaIsTheFirstDate ==
  valuing = "wrapped" /\ dates[1] = THETA_DAYS =>
    RollsTo(thetaValue, IF trade.kind \in Optional THEN option[1] ELSE column[1])

\* The three places that decide which rate a coupon pays agree (legs.py, bermudan.py, bump.py).
RatesAgree == OneRateFromItsFixing /\ ThetaIsTheFirstDate

\* The pieces of code that price one trade price one contract: they exercise alike and pay one rate.
OneContract == WrapIsTheWalk /\ RatesAgree

\* "Any exercise date is legitimate" before the underlying's end, and a coupon whose time has
\* passed is left out, also when it is the last (docs/instruments/american-bermudan-swaptions.md,
\* lines 144 to 151; lgm_grid.py, prepare_bermudan).
AnyExerciseDateIsLegitimate ==
  trade # Nothing /\ trade.kind = "bermudan" /\ Max(Range(trade.exercise)) < trade.maturity =>
    /\ todayValue.error # "IndexError" /\ thetaValue.error # "IndexError"
    /\ \A j \in DOMAIN option : option[j].error # "IndexError"
=============================================================================
