----------------------------- MODULE EodPricing -----------------------------
(***************************************************************************)
(* What the TraderX path answers for one row: the units (normalize.py),    *)
(* the conventions (conventions.py), and the bill, note and equity rules   *)
(* (bill.py, note.py, equity.py), all in src/engine/traderx.               *)
(*                                                                         *)
(* Faces are in millions, fractions of par in millionths, money in cents,  *)
(* dates in days.  A present value is kept as the cashflows that are       *)
(* discounted: the discount factors are the profile's.                     *)
(***************************************************************************)
EXTENDS EodValues

\* The reason of the first check that fires, or Nothing: a pricer's refusals in
\* the order of its statements.
FirstReason(checks) ==
  LET fired == {i \in DOMAIN checks : checks[i][1]}
  IN IF fired = {} THEN Nothing ELSE checks[Min(fired)][2]

----------------------------------------------------------------------------
(* normalize.py                                                            *)

NO_TERMS_ARTIFACT    == "NO_TERMS_ARTIFACT"
ACCRUED_NOT_SUPPLIED == "ACCRUED_NOT_SUPPLIED"

\* A position normalizes if its quantity is a number and no other field is
\* malformed.
Normalizes(row) ==
  /\ Given(row.quantity)
  /\ \A field \in {row.coupon, row.closingMark, row.accrued} : field # Malformed

\* couponFrequency as str(...).upper() gives it: "" if there is none, and a null
\* is the text "NONE".
Frequency(entry) == IF entry.couponFrequency = Nothing THEN "NONE" ELSE entry.couponFrequency

IsZeroCoupon(entry) == Frequency(entry) = "NONE"

\* Accrued interest: the export's figure, or what a blank means under the terms.
NormalizedAccrued(row, entry) ==
  IF Given(row.accrued)
  THEN ok([cents |-> 100 * row.accrued.value * row.quantity.value, provenance |-> "converted"])
  ELSE IF entry = Nothing THEN unavailable(NO_TERMS_ARTIFACT)
  ELSE IF IsZeroCoupon(entry) THEN ok([cents |-> 0, provenance |-> "structural-zero"])
  ELSE unavailable(ACCRUED_NOT_SUPPLIED)

----------------------------------------------------------------------------
(* conventions.py                                                          *)

SUPPORTED_INSTRUMENT_TYPES == {"SWAP", "TREASURY", "EQUITY"}
REQUIRED_SWAP_CONVENTIONS ==
  {"floatIndex", "fixedDayCount", "floatingDayCount", "effectiveDate", "maturityDate"}
SUPPORTED_SWAP_TERMS == [floatIndex |-> {"SimIndex"}, fixedDayCount |-> {"ACT/365"},
                         floatingDayCount |-> {"ACT/365"}, overnightCompounding |-> {Nothing}]

\* A swap states every convention required, and none the engine does not have.
SwapSupported(swap) ==
  /\ \A t \in REQUIRED_SWAP_CONVENTIONS : swap[t] # Nothing
  /\ \A t \in DOMAIN SUPPORTED_SWAP_TERMS : swap[t] \in SUPPORTED_SWAP_TERMS[t]

\* Why a row cannot be priced faithfully, or Nothing.
CheckConventions(entry) ==
  IF entry = Nothing THEN "TERMS_NOT_SUPPLIED"
  ELSE FirstReason(<<
    << entry.type \notin SUPPORTED_INSTRUMENT_TYPES, "INSTRUMENT_TYPE_NOT_SUPPORTED" >>,
    << entry.missing_terms, "CONVENTION_NOT_SUPPORTED" >>,
    << entry.type = "SWAP" /\ ~SwapSupported(entry.swap), "CONVENTION_NOT_SUPPORTED" >> >>)

----------------------------------------------------------------------------
(* bill.py                                                                 *)

IsBill(entry) == Frequency(entry) = "NONE" /\ entry.schedule = <<>>

MaturityReason(entry, valuation) ==
  FirstReason(<< << ~IsDate(entry.maturityDate), "TERMS_INCOMPLETE" >>,
                 << entry.maturityDate <= valuation, "INSTRUMENT_MATURED" >> >>)

Par == 1000000

RedemptionFraction(entry) == IF Given(entry.redemption) THEN entry.redemption.value ELSE Par

Redemption(entry) == [pays |-> entry.maturityDate, amount |-> RedemptionFraction(entry)]

\* One cashflow, face redeemed at maturity.
PriceBill(entry, face, valuation) ==
  LET reason == FirstReason(<<
        << ~IsBill(entry), "NOT_A_BILL" >>,
        << MaturityReason(entry, valuation) # Nothing, MaturityReason(entry, valuation) >>,
        << entry.redemption.text \in {"blank", "malformed"}, "TERMS_INCOMPLETE" >> >>)
  IN IF reason # Nothing THEN unsupported(reason)
     ELSE ok([face  |-> face,
              flows |-> [coupons |-> <<>>, redemption |-> Redemption(entry)]])

----------------------------------------------------------------------------
(* note.py                                                                 *)

DEFAULT_FRACTION_DECIMALS == 6
SUPPORTED_SETTLEMENT_DAYS == {0}
SUPPORTED_ACCRUAL_DAY_COUNTS == {"ACT/365", "ACT/ACT (ICMA)"}
HALF_YEAR == 8     \* days of a model's half year

IsNote(entry) == Frequency(entry) \notin {"", "NONE"} /\ entry.schedule # <<>>

\* Half a unit of the last decimal exported, on this face, and a cent.
AccrualTolerance(face, decimals) ==
  LET size == IF face < 0 THEN -face ELSE face
  IN 1 + (IF decimals <= 6 THEN 50 * size * 10 ^ (6 - decimals)
          ELSE (50 * size) \div 10 ^ (decimals - 6))

\* A period pays on its end unless it says otherwise.
Pays(p) == IF p.payment = NoDate THEN p.end ELSE p.payment

PeriodReason(p) ==
  FirstReason(<< << ~IsDate(p.start) \/ ~IsDate(p.end) \/ ~IsDate(Pays(p)), "TERMS_INCOMPLETE" >>,
                 << p.end <= p.start, "SCHEDULE_INCONSISTENT" >>,
                 << Pays(p) < p.end, "SCHEDULE_INCONSISTENT" >> >>)

\* The schedule as supplied: each period sound, then each starting where the
\* one before it ended.
ScheduleReason(periods) ==
  LET own == [i \in DOMAIN periods |-> << PeriodReason(periods[i]) # Nothing, PeriodReason(periods[i]) >>]
      gap == \E i \in 2 .. Len(periods) : periods[i].start # periods[i - 1].end
  IN FirstReason(Append(own, << gap, "SCHEDULE_INCONSISTENT" >>))

\* Accrual from a date within a period, under the instrument's day count.
YearFraction(dayCount, p, to) ==
  IF dayCount = "ACT/365" THEN to - p.start
  ELSE (HALF_YEAR * (to - p.start)) \div (p.end - p.start)

\* What has accrued by the valuation date, recomputed from the schedule.
AccruedFromSchedule(entry, valuation) ==
  LET periods == entry.schedule
      current == {i \in DOMAIN periods : periods[i].start <= valuation /\ valuation < periods[i].end}
  IN IF current = {} THEN 0
     ELSE entry.couponRate.value * YearFraction(entry.dayCount, periods[Min(current)], valuation)

\* The exported and the recomputed accrued agree on this face, to the rounding.
Reconciles(exported, recomputed, face, decimals) ==
  LET difference == 100 * (exported.value - recomputed) * face
  IN Given(exported) =>
       /\ difference <= AccrualTolerance(face, decimals)
       /\ -difference <= AccrualTolerance(face, decimals)

\* The coupons not yet paid, by their periods, and the redemption.
RemainingFlows(entry, valuation) ==
  LET periods == entry.schedule
      unpaid  == {i \in DOMAIN periods : Pays(periods[i]) > valuation}
  IN [coupons |-> [i \in unpaid |->
        [pays   |-> Pays(periods[i]),
         amount |-> entry.couponRate.value * YearFraction(entry.dayCount, periods[i], periods[i].end)]],
      redemption |-> Redemption(entry)]

NoteTermsReason(entry, valuation) ==
  FirstReason(<<
    << ~IsNote(entry), "NOT_A_NOTE" >>,
    << MaturityReason(entry, valuation) # Nothing, MaturityReason(entry, valuation) >>,
    << entry.settlementDays.text \in {"blank", "malformed"}, "TERMS_INCOMPLETE" >>,
    << Given(entry.settlementDays) /\ entry.settlementDays.value \notin SUPPORTED_SETTLEMENT_DAYS,
       "SETTLEMENT_CONVENTION_NOT_SUPPORTED" >>,
    << entry.dayCount = "", "TERMS_INCOMPLETE" >>,
    << entry.dayCount \notin SUPPORTED_ACCRUAL_DAY_COUNTS, "DAY_COUNT_NOT_SUPPORTED" >>,
    << ScheduleReason(entry.schedule) # Nothing, ScheduleReason(entry.schedule) >>,
    << entry.schedule # <<>> /\ Last(entry.schedule).end # entry.maturityDate, "SCHEDULE_INCONSISTENT" >>,
    << ~Given(entry.couponRate), "TERMS_INCOMPLETE" >>,
    << entry.redemption = Malformed, "TERMS_INCOMPLETE" >> >>)

\* The note's price: its flows, with the accrued reported and its source.
PriceNote(entry, face, valuation, exported, decimals) ==
  LET recomputed == AccruedFromSchedule(entry, valuation)
      reason     == NoteTermsReason(entry, valuation)
  IN IF reason # Nothing THEN unsupported(reason)
     ELSE IF ~Reconciles(exported, recomputed, face, decimals) THEN unsupported("ACCRUAL_MISMATCH")
     ELSE ok([face    |-> face,
              flows   |-> RemainingFlows(entry, valuation),
              accrued |-> 100 * face * (IF Given(exported) THEN exported.value ELSE recomputed),
              source  |-> IF Given(exported) THEN "exported-fraction" ELSE "recomputed-schedule"])

RateSensitivity_DefaultDecimals(entry, face, valuation, exported, decimals) ==
  PriceNote(entry, face, valuation, exported, DEFAULT_FRACTION_DECIMALS)

\* The same note priced at a bumped rate and at the rate; the flows are what
\* moves.
RateSensitivity(entry, face, valuation, exported, decimals) ==
  LET base == PriceNote(entry, face, valuation, exported, decimals)
  IN IF base.status = "ok" THEN ok([face |-> face, flows |-> base.value.flows]) ELSE base

----------------------------------------------------------------------------
(* equity.py                                                               *)

IsEquity(entry) == entry.type = "EQUITY"

\* A field of the terms, else of the row; unparseable in either is a refusal.
PositionField(entryField, rowField) == IF Missing(entryField) THEN rowField ELSE entryField

\* Always a refusal: no spot, or for another currency no exchange rate either.
PriceEquity(entry, row) ==
  LET quantity   == PositionField(entry.quantity, row.quantity)
      multiplier == entry.contractMultiplier
  IN unsupported(FirstReason(<<
       << ~IsEquity(entry), "NOT_AN_EQUITY" >>,
       << ~Given(quantity), "TERMS_INCOMPLETE" >>,
       << multiplier = Malformed, "TERMS_INCOMPLETE" >>,
       << row.currency # "USD", "FX_SOURCE_NOT_SUPPLIED" >>,
       << TRUE, "SPOT_SOURCE_NOT_SUPPLIED" >> >>))
=============================================================================
