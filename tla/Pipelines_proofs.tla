-------------------------- MODULE Pipelines_proofs --------------------------
(***************************************************************************)
(* Proofs about the sequential components: an end-of-day bundle of the     *)
(* TraderX path, a run with its evidence table, the root solver, the       *)
(* calibration that calls it, and a trade on a path, for any inputs.       *)
(*                                                                         *)
(* Each has an inductive invariant.                                        *)
(*   EodInv    what was read of the files is of the manifest's export, the *)
(*             join pairs every row of it with its one entry, and the      *)
(*             items are a beginning of the join's outcomes;               *)
(*   RunInv    what a request asked for and no phase has taken yet is      *)
(*             taken by a phase still to come, and every phase to come     *)
(*             belongs to an analytic that was asked for, so that what it  *)
(*             needs was checked before the run;                           *)
(*   RootInv   the ends found are right to the value's rounding, the       *)
(*             bracket lies within them around any root they can hold,     *)
(*             Newton's point is in it and at the root once it found it,   *)
(*             and bisection's bracket is at most what its remaining steps *)
(*             halve;                                                      *)
(*   CalibInv  the basket is its model's, and increasing while it is       *)
(*             solved; a bucket solved reaches its helper's need or stands *)
(*             at an end of its bracket; a stack is one of the shapes';    *)
(*   TradeInv  every column pays each coupon its rate on the path, the     *)
(*             Theta value is the first date's, and the column wrapped so  *)
(*             far is that of the first exercise that enters.              *)
(***************************************************************************)
EXTENDS EodPipeline, RunEvidence, CalibLgm, TradeOnPath, SequenceTheorems, FiniteSetTheorems, WellFoundedInduction, TLAPS

---------------------------------------------------------------------------
(* The refusals of a row: the checks in order, and the first that fires.   *)

\* A non-empty set of numbers has a least.
LEMMA SmallestIn ==
  ASSUME NEW S, S \subseteq Nat, S # {}
  PROVE  \E x \in S : \A y \in S : x <= y
<1>1. PICK x \in S : \A y \in S : ~ (<<y, x>> \in OpToRel(<, Nat))
  BY NatLessThanWellFounded, WFMin, Zenon
<1>2. OpToRel(<, Nat) = {ss \in Nat \X Nat : ss[1] < ss[2]}
  BY Zenon DEF OpToRel
<1>3. ASSUME NEW y \in S PROVE x =< y
  <2>1. <<y, x>> \notin {ss \in Nat \X Nat : ss[1] < ss[2]}
    BY <1>1, <1>2
  <2>2. ~ (y < x)
    BY <2>1
  <2>. QED
    BY <2>2
<1>. QED
  BY <1>3

\* Min is one of them.
LEMMA MinIsIn ==
  ASSUME NEW S, S \subseteq Nat, S # {}
  PROVE  Min(S) \in S
BY SmallestIn DEF Min

\* Nothing is told apart from every reason and outcome it is compared with.
LEMMA NothingIsNoReason ==
  /\ Nothing \notin Reasons
  /\ Nothing # NO_PRICER_AT_THIS_STAGE /\ NO_PRICER_AT_THIS_STAGE \notin Reasons
  /\ Nothing # failed("NORMALIZATION_FAILED") /\ Nothing # "BUNDLE_INTEGRITY_FAILED"
<1>1. /\ Nothing \notin Reasons
      /\ Nothing # "NO_PRICER_AT_THIS_STAGE" /\ Nothing # "BUNDLE_INTEGRITY_FAILED"
      /\ Nothing # failed("NORMALIZATION_FAILED")
  BY NothingAssumption, Zenon
<1>2. NO_PRICER_AT_THIS_STAGE \notin Reasons
  BY DEF Reasons, NO_PRICER_AT_THIS_STAGE
<1>. QED
  BY <1>1, <1>2, Zenon DEF NO_PRICER_AT_THIS_STAGE

\* The two parts of a check.
LEMMA OfPair == \A a, b : <<a, b>>[1] = a /\ <<a, b>>[2] = b
OBVIOUS

\* The first reason is that of a check that fires, or Nothing and none fires.
LEMMA FirstReasonIs ==
  ASSUME NEW checks, DOMAIN checks \subseteq Nat
  PROVE  \/ FirstReason(checks) = Nothing /\ \A i \in DOMAIN checks : ~ checks[i][1]
         \/ \E i \in DOMAIN checks : checks[i][1] /\ FirstReason(checks) = checks[i][2]
<1> DEFINE fired == {i \in DOMAIN checks : checks[i][1]}
<1>1. CASE fired = {}
  BY <1>1 DEF FirstReason
<1>2. CASE fired # {}
  <2>1. Min(fired) \in fired
    BY <1>2, MinIsIn
  <2>. QED
    BY <1>2, <2>1 DEF FirstReason
<1>. QED
  BY <1>1, <1>2

\* Where no reason is Nothing, no reason means that no check fires.
LEMMA NoReason ==
  ASSUME NEW checks, DOMAIN checks \subseteq Nat, FirstReason(checks) = Nothing,
         \A i \in DOMAIN checks : checks[i][1] => checks[i][2] # Nothing
  PROVE  \A i \in DOMAIN checks : ~ checks[i][1]
BY FirstReasonIs

\* A row that is not refused has terms, of a type that is supported.
LEMMA ConventionsAre ==
  ASSUME NEW entry, CheckConventions(entry) = Nothing
  PROVE  entry # Nothing /\ entry.type \in SUPPORTED_INSTRUMENT_TYPES
<1>1. entry # Nothing
  BY NothingIsNoReason DEF Reasons, CheckConventions
<1> DEFINE checks == <<
    << entry.type \notin SUPPORTED_INSTRUMENT_TYPES, "INSTRUMENT_TYPE_NOT_SUPPORTED" >>,
    << entry.missing_terms, "CONVENTION_NOT_SUPPORTED" >>,
    << entry.type = "SWAP" /\ ~SwapSupported(entry.swap), "CONVENTION_NOT_SUPPORTED" >> >>
<1>2. FirstReason(checks) = Nothing
  BY <1>1 DEF CheckConventions
<1>3. DOMAIN checks = 1 .. 3
  OBVIOUS
<1>4. \A i \in DOMAIN checks : checks[i][2] # Nothing
  BY <1>3, NothingIsNoReason DEF Reasons
<1>5. ~ checks[1][1]
  BY <1>2, <1>3, <1>4, NoReason
<1>. QED
  BY <1>1, <1>5

\* A sound period has its dates, and pays on its end or later.
LEMMA PeriodSound ==
  ASSUME NEW p, PeriodReason(p) = Nothing
  PROVE  IsDate(p.end) /\ IsDate(Pays(p)) /\ ~ (Pays(p) < p.end)
<1> DEFINE checks == << << ~IsDate(p.start) \/ ~IsDate(p.end) \/ ~IsDate(Pays(p)), "TERMS_INCOMPLETE" >>,
                 << p.end <= p.start, "SCHEDULE_INCONSISTENT" >>,
                 << Pays(p) < p.end, "SCHEDULE_INCONSISTENT" >> >>
<1>1. FirstReason(checks) = Nothing
  BY DEF PeriodReason
<1>2. DOMAIN checks = 1 .. 3
  OBVIOUS
<1>3. \A i \in DOMAIN checks : checks[i][2] # Nothing
  BY <1>2, NothingIsNoReason DEF Reasons
<1>4. ~ checks[1][1] /\ ~ checks[3][1]
  BY <1>1, <1>2, <1>3, NoReason
<1>. QED
  BY <1>4

\* Every period of a sound schedule is sound.
LEMMA ScheduleSound ==
  ASSUME NEW periods, periods \in Seq(ToSet(periods)), ScheduleReason(periods) = Nothing
  PROVE  \A i \in DOMAIN periods : PeriodReason(periods[i]) = Nothing
<1> DEFINE own == [i \in DOMAIN periods |-> << PeriodReason(periods[i]) # Nothing, PeriodReason(periods[i]) >>]
           gap == \E i \in 2 .. Len(periods) : periods[i].start # periods[i - 1].end
           last == << gap, "SCHEDULE_INCONSISTENT" >>
           checks == Append(own, last)
           S == {own[i] : i \in DOMAIN periods}
<1>1. FirstReason(checks) = Nothing
  BY DEF ScheduleReason
<1>2. DOMAIN periods = 1 .. Len(periods) /\ Len(periods) \in Nat
  OBVIOUS
<1>3. own \in Seq(S) /\ Len(own) = Len(periods)
  BY <1>2
<1>4. /\ DOMAIN checks = 1 .. Len(periods) + 1
      /\ \A i \in DOMAIN periods : checks[i] = own[i]
      /\ checks[Len(periods) + 1] = last
  <2> HIDE DEF own, last
  <2>. QED
    BY <1>2, <1>3
<1>5. \A i \in DOMAIN periods : checks[i] = << PeriodReason(periods[i]) # Nothing, PeriodReason(periods[i]) >>
  BY <1>4
<1>6. \A i \in DOMAIN checks : checks[i][1] => checks[i][2] # Nothing
  <2>1. ASSUME NEW i \in DOMAIN periods, checks[i][1] PROVE checks[i][2] # Nothing
    <3> DEFINE why == PeriodReason(periods[i])
    <3>1. checks[i] = << why # Nothing, why >>
      BY <1>5
    <3> HIDE DEF checks, why
    <3>2. << why # Nothing, why >>[1]
      BY <2>1, <3>1, Zenon
    <3>3. why # Nothing
      BY <3>2
    <3>. QED
      BY <3>1, <3>3
  <2>2. checks[Len(periods) + 1][2] # Nothing
    <3>1. last[2] # Nothing
      BY NothingIsNoReason DEF Reasons
    <3>. QED
      BY <1>4, <3>1
  <2> HIDE DEF checks
  <2>. QED
    BY <2>1, <2>2, <1>2, <1>4
<1>7. \A i \in DOMAIN checks : ~ checks[i][1]
  <2> HIDE DEF checks
  <2>. QED
    BY <1>1, <1>2, <1>4, <1>6, NoReason
<1>8. ASSUME NEW i \in DOMAIN periods PROVE PeriodReason(periods[i]) = Nothing
  <2>1. checks[i] = << PeriodReason(periods[i]) # Nothing, PeriodReason(periods[i]) >> /\ ~ checks[i][1]
    <3> HIDE DEF checks
    <3>. QED
      BY <1>2, <1>4, <1>5, <1>7
  <2> HIDE DEF checks
  <2>. QED
    BY <2>1, OfPair, Zenon
<1>. QED
  BY <1>8

\* The first reason is one of the checks' own.
LEMMA ReasonAmong ==
  ASSUME NEW checks, DOMAIN checks \subseteq Nat, NEW R, \A i \in DOMAIN checks : checks[i][2] \in R \cup {Nothing}
  PROVE  FirstReason(checks) \in R \cup {Nothing}
BY FirstReasonIs

\* The reason of a maturity is one of the list.
LEMMA MaturityReasons ==
  ASSUME NEW entry, NEW valuation
  PROVE  MaturityReason(entry, valuation) \in Reasons \cup {Nothing}
<1> DEFINE checks == << << ~IsDate(entry.maturityDate), "TERMS_INCOMPLETE" >>,
                        << entry.maturityDate <= valuation, "INSTRUMENT_MATURED" >> >>
<1>1. DOMAIN checks = 1 .. 2 /\ checks[1][2] = "TERMS_INCOMPLETE" /\ checks[2][2] = "INSTRUMENT_MATURED"
  OBVIOUS
<1>2. \A i \in DOMAIN checks : checks[i][2] \in Reasons \cup {Nothing}
  <2> HIDE DEF checks
  <2>. QED
    BY <1>1 DEF Reasons
<1>3. FirstReason(checks) \in Reasons \cup {Nothing}
  <2> HIDE DEF checks
  <2>. QED
    BY <1>1, <1>2, ReasonAmong
<1>. QED
  BY <1>3 DEF MaturityReason

\* The reason of a period is one of the list.
LEMMA PeriodReasons ==
  ASSUME NEW p PROVE PeriodReason(p) \in Reasons \cup {Nothing}
<1> DEFINE checks == << << ~IsDate(p.start) \/ ~IsDate(p.end) \/ ~IsDate(Pays(p)), "TERMS_INCOMPLETE" >>,
                 << p.end <= p.start, "SCHEDULE_INCONSISTENT" >>,
                 << Pays(p) < p.end, "SCHEDULE_INCONSISTENT" >> >>
<1>1. /\ DOMAIN checks = 1 .. 3 /\ checks[1][2] = "TERMS_INCOMPLETE"
      /\ checks[2][2] = "SCHEDULE_INCONSISTENT" /\ checks[3][2] = "SCHEDULE_INCONSISTENT"
  OBVIOUS
<1>2. \A i \in DOMAIN checks : checks[i][2] \in Reasons \cup {Nothing}
  <2> HIDE DEF checks
  <2>. QED
    BY <1>1 DEF Reasons
<1>3. FirstReason(checks) \in Reasons \cup {Nothing}
  <2> HIDE DEF checks
  <2>. QED
    BY <1>1, <1>2, ReasonAmong
<1>. QED
  BY <1>3 DEF PeriodReason

\* The reason of a schedule is that of a period, or of the gaps between them.
LEMMA ScheduleReasons ==
  ASSUME NEW periods, periods \in Seq(ToSet(periods))
  PROVE  ScheduleReason(periods) \in Reasons \cup {Nothing}
<1> DEFINE own == [i \in DOMAIN periods |-> << PeriodReason(periods[i]) # Nothing, PeriodReason(periods[i]) >>]
           gap == \E i \in 2 .. Len(periods) : periods[i].start # periods[i - 1].end
           last == << gap, "SCHEDULE_INCONSISTENT" >>
           checks == Append(own, last)
           S == {own[i] : i \in DOMAIN periods}
<1>1. own \in Seq(S) /\ Len(own) = Len(periods) /\ DOMAIN periods = 1 .. Len(periods) /\ Len(periods) \in Nat
  OBVIOUS
<1>2. /\ DOMAIN checks = 1 .. Len(periods) + 1
      /\ \A i \in DOMAIN periods : checks[i] = own[i]
      /\ checks[Len(periods) + 1] = last
  <2> HIDE DEF own, last
  <2>. QED
    BY <1>1
<1>3. \A i \in DOMAIN periods : own[i][2] = PeriodReason(periods[i])
  OBVIOUS
<1>4. last[2] = "SCHEDULE_INCONSISTENT"
  OBVIOUS
<1> HIDE DEF own, last, checks
<1>5. \A i \in DOMAIN checks : checks[i][2] \in Reasons \cup {Nothing}
  <2>1. "SCHEDULE_INCONSISTENT" \in Reasons
    BY DEF Reasons
  <2>2. \A i \in DOMAIN checks : i \in DOMAIN periods \/ i = Len(periods) + 1
    BY <1>1, <1>2
  <2>. QED
    BY <1>2, <1>3, <1>4, <2>1, <2>2, PeriodReasons
<1>6. FirstReason(checks) \in Reasons \cup {Nothing}
  BY <1>1, <1>2, <1>5, ReasonAmong
<1>. QED
  BY <1>6 DEF ScheduleReason, checks, own, last

\* The reason of a note's terms is one of the list; with none, its schedule is sound.
LEMMA NoteTermsReasons ==
  ASSUME NEW entry, NEW valuation, entry.schedule \in Seq(ToSet(entry.schedule))
  PROVE  /\ NoteTermsReason(entry, valuation) \in Reasons \cup {Nothing}
         /\ NoteTermsReason(entry, valuation) = Nothing => ScheduleReason(entry.schedule) = Nothing
<1> DEFINE matured == MaturityReason(entry, valuation)
           schedule == ScheduleReason(entry.schedule)
           checks == <<
    << ~IsNote(entry), "NOT_A_NOTE" >>,
    << matured # Nothing, matured >>,
    << entry.settlementDays.text \in {"blank", "malformed"}, "TERMS_INCOMPLETE" >>,
    << Given(entry.settlementDays) /\ entry.settlementDays.value \notin SUPPORTED_SETTLEMENT_DAYS,
       "SETTLEMENT_CONVENTION_NOT_SUPPORTED" >>,
    << entry.dayCount = "", "TERMS_INCOMPLETE" >>,
    << entry.dayCount \notin SUPPORTED_ACCRUAL_DAY_COUNTS, "DAY_COUNT_NOT_SUPPORTED" >>,
    << schedule # Nothing, schedule >>,
    << entry.schedule # <<>> /\ Last(entry.schedule).end # entry.maturityDate, "SCHEDULE_INCONSISTENT" >>,
    << ~Given(entry.couponRate), "TERMS_INCOMPLETE" >>,
    << entry.redemption = Malformed, "TERMS_INCOMPLETE" >> >>
<1>1. NoteTermsReason(entry, valuation) = FirstReason(checks)
  BY DEF NoteTermsReason
<1>2. matured \in Reasons \cup {Nothing} /\ schedule \in Reasons \cup {Nothing}
  BY MaturityReasons, ScheduleReasons
<1> HIDE DEF matured, schedule
<1>3. /\ DOMAIN checks = 1 .. 10
      /\ checks[1][2] = "NOT_A_NOTE" /\ checks[2] = << matured # Nothing, matured >>
      /\ checks[3][2] = "TERMS_INCOMPLETE" /\ checks[4][2] = "SETTLEMENT_CONVENTION_NOT_SUPPORTED"
      /\ checks[5][2] = "TERMS_INCOMPLETE" /\ checks[6][2] = "DAY_COUNT_NOT_SUPPORTED"
      /\ checks[7] = << schedule # Nothing, schedule >> /\ checks[8][2] = "SCHEDULE_INCONSISTENT"
      /\ checks[9][2] = "TERMS_INCOMPLETE" /\ checks[10][2] = "TERMS_INCOMPLETE"
  OBVIOUS
<1> HIDE DEF checks
<1>4. checks[2][2] = matured /\ checks[7][2] = schedule
  <2>1. << matured # Nothing, matured >>[2] = matured /\ << schedule # Nothing, schedule >>[2] = schedule
    OBVIOUS
  <2>. QED
    BY <2>1, <1>3, Zenon
<1>5. \A i \in DOMAIN checks : checks[i][2] \in Reasons \cup {Nothing}
  BY <1>2, <1>3, <1>4 DEF Reasons
<1>. /\ DOMAIN checks \subseteq Nat
     /\ 7 \in DOMAIN checks
  BY <1>3
<1>6. FirstReason(checks) \in Reasons \cup {Nothing}
  BY <1>5, ReasonAmong
<1>7. ASSUME FirstReason(checks) = Nothing, schedule # Nothing PROVE FALSE
  <2>1. checks[7][1]
    <3>1. << schedule # Nothing, schedule >>[1]
      BY <1>7
    <3>. QED
      BY <3>1, <1>3, Zenon
  <2>2. checks[2][1] => checks[2][2] # Nothing
    <3>1. SUFFICES ASSUME checks[2][1] PROVE matured # Nothing
      BY <1>4, Zenon
    <3>2. << matured # Nothing, matured >>[1]
      BY <3>1, <1>3, Zenon
    <3>. QED
      BY <3>2
  <2>3. \A i \in DOMAIN checks : i = 2 \/ i = 7 \/ checks[i][2] \in Reasons
    <3>1. DOMAIN checks = {1, 2, 3, 4, 5, 6, 7, 8, 9, 10}
      BY <1>3
    <3>. QED
      BY <3>1, <1>3, Zenon DEF Reasons
  <2>4. \A i \in DOMAIN checks : checks[i][1] => checks[i][2] # Nothing
    BY <2>2, <2>3, <1>4, <1>7, NothingIsNoReason, Zenon
  <2>5. ~ checks[7][1]
    BY <1>7, <2>4, NoReason
  <2>. QED
    BY <2>1, <2>5
<1>. QED
  BY <1>1, <1>6, <1>7 DEF schedule

\* The coupon that accrues of a sound schedule pays later than today.
LEMMA CouponStillToPay ==
  ASSUME NEW entry, NEW valuation \in Int, entry.schedule \in Seq(ToSet(entry.schedule)),
         ScheduleReason(entry.schedule) = Nothing, AccruedFromSchedule(entry, valuation) # 0
  PROVE  DOMAIN RemainingFlows(entry, valuation).coupons # {}
<1> DEFINE periods == entry.schedule
           current == {i \in DOMAIN periods : periods[i].start <= valuation /\ valuation < periods[i].end}
           unpaid == {i \in DOMAIN periods : Pays(periods[i]) > valuation}
<1>1. PICK i \in DOMAIN periods : valuation < periods[i].end
  BY DEF AccruedFromSchedule
<1>2. IsDate(periods[i].end) /\ IsDate(Pays(periods[i])) /\ ~ (Pays(periods[i]) < periods[i].end)
  BY ScheduleSound, PeriodSound
<1>3. i \in unpaid
  BY <1>1, <1>2 DEF IsDate
<1>4. DOMAIN RemainingFlows(entry, valuation).coupons = unpaid
  BY DEF RemainingFlows
<1>. QED
  BY <1>3, <1>4

\* A note's price and its sensitivity are given or refused for one reason, of one
\* set of flows, and the accrued interest of the price is the one exported.
LEMMA NotePriced ==
  ASSUME NEW entry, NEW face \in Int, NEW valuation \in Int, NEW exported, NEW decimals,
         entry.schedule \in Seq(ToSet(entry.schedule))
  PROVE  LET price == PriceNote(entry, face, valuation, exported, decimals)
             rate == RateSensitivity(entry, face, valuation, exported, decimals)
         IN  /\ price.reason \in Reasons \cup {Nothing}
             /\ rate.status = price.status /\ rate.reason = price.reason
             /\ price.status = "ok" =>
                  /\ rate.value.flows = price.value.flows
                  /\ Given(exported) => price.value.accrued = 100 * face * exported.value
                  /\ price.value.accrued # 0 /\ price.value.source = "recomputed-schedule"
                       => DOMAIN price.value.flows.coupons # {}
<1> DEFINE price == PriceNote(entry, face, valuation, exported, decimals)
           rate == RateSensitivity(entry, face, valuation, exported, decimals)
           reason == NoteTermsReason(entry, valuation)
           recomputed == AccruedFromSchedule(entry, valuation)
           flows == RemainingFlows(entry, valuation)
           accrued == 100 * face * (IF Given(exported) THEN exported.value ELSE recomputed)
           source == IF Given(exported) THEN "exported-fraction" ELSE "recomputed-schedule"
           given == ok([face |-> face, flows |-> flows, accrued |-> accrued, source |-> source])
<1>1. \/ reason # Nothing /\ price = unsupported(reason)
      \/ reason = Nothing /\ price = unsupported("ACCRUAL_MISMATCH")
      \/ reason = Nothing /\ price = given
  BY DEF PriceNote
<1>2. reason \in Reasons \cup {Nothing}
  BY NoteTermsReasons
<1>3. rate = IF price.status = "ok" THEN ok([face |-> face, flows |-> price.value.flows]) ELSE price
  BY DEF RateSensitivity
<1> HIDE DEF price, rate, flows, accrued, source
<1>4. CASE price = given /\ reason = Nothing
  <2>1. price.status = "ok" /\ price.reason = Nothing
    BY <1>4 DEF ok
  <2>2. price.value.flows = flows /\ price.value.accrued = accrued /\ price.value.source = source
    BY <1>4 DEF ok
  <2>3. rate.status = "ok" /\ rate.reason = Nothing /\ rate.value.flows = flows
    BY <1>3, <2>1, <2>2 DEF ok
  <2>4. Given(exported) => accrued = 100 * face * exported.value
    BY DEF accrued
  <2>5. ASSUME accrued # 0, source = "recomputed-schedule" PROVE DOMAIN flows.coupons # {}
    <3>1. ~ Given(exported)
      BY <2>5 DEF source
    <3>2. recomputed # 0
      <4>1. accrued = 100 * face * recomputed
        BY <3>1 DEF accrued
      <4> HIDE DEF recomputed
      <4>. QED
        BY <4>1, <2>5
    <3>3. ScheduleReason(entry.schedule) = Nothing
      BY <1>4, NoteTermsReasons
    <3>. QED
      BY <3>2, <3>3, CouponStillToPay DEF flows
  <2>. QED
    BY <2>1, <2>2, <2>3, <2>4, <2>5 DEF price, rate
<1>5. CASE price = unsupported(reason) \/ price = unsupported("ACCRUAL_MISMATCH")
  <2>1. "ACCRUAL_MISMATCH" \in Reasons
    BY DEF Reasons
  <2>2. price.status = "unsupported" /\ price.reason \in Reasons \cup {Nothing}
    BY <1>2, <1>5, <2>1 DEF unsupported
  <2>3. rate = price
    BY <1>3, <2>2
  <2>. QED
    BY <2>2, <2>3 DEF price, rate
<1>. QED
  BY <1>1, <1>4, <1>5

\* The reason of a bill is one of the list.
LEMMA BillPriced ==
  ASSUME NEW entry, NEW face, NEW valuation
  PROVE  PriceBill(entry, face, valuation).reason \in Reasons \cup {Nothing}
<1> DEFINE matured == MaturityReason(entry, valuation)
           checks == << << ~IsBill(entry), "NOT_A_BILL" >>,
                        << matured # Nothing, matured >>,
                        << entry.redemption.text \in {"blank", "malformed"}, "TERMS_INCOMPLETE" >> >>
           reason == FirstReason(checks)
<1>1. \/ PriceBill(entry, face, valuation) = unsupported(reason)
      \/ PriceBill(entry, face, valuation).reason = Nothing
  BY DEF PriceBill, ok
<1>2. matured \in Reasons \cup {Nothing}
  BY MaturityReasons
<1> HIDE DEF matured
<1>3. /\ DOMAIN checks = 1 .. 3 /\ checks[1][2] = "NOT_A_BILL" /\ checks[3][2] = "TERMS_INCOMPLETE"
      /\ checks[2] = << matured # Nothing, matured >>
  OBVIOUS
<1>4. << matured # Nothing, matured >>[2] = matured
  OBVIOUS
<1> HIDE DEF checks
<1>5. checks[2][2] = matured
  BY <1>3, <1>4, Zenon
<1>6. \A i \in DOMAIN checks : checks[i][2] \in Reasons \cup {Nothing}
  BY <1>2, <1>3, <1>5 DEF Reasons
<1>7. reason \in Reasons \cup {Nothing}
  BY <1>3, <1>6, ReasonAmong
<1> HIDE DEF reason
<1>. QED
  BY <1>1, <1>7 DEF unsupported

\* What a file on disk may hold.
Copies == [of : Exports, damage : Damages \cup {"none"}]

\* What is left to read, in the order of reading.
Todos ==
  {<<"manifest", "positions", "contracts", "instrumentTerms">>, <<"positions", "contracts", "instrumentTerms">>,
   <<"contracts", "instrumentTerms">>, <<"instrumentTerms">>, <<>>}

\* What was read of a file is undamaged and of the manifest's export.
Whole(f) == read[f].damage = "none" /\ read[f].of[f].content = Manifest[f].content

\* Every file that was read is whole, once it is accepted.
ReadSound ==
  /\ "manifest" \notin ToSet(todo) => read["manifest"] \in Copies /\ Manifest.schema \in {"v1", "v2"}
  /\ \A f \in {"positions", "contracts"} : f \notin ToSet(todo) => Whole(f)
  /\ "instrumentTerms" \notin ToSet(todo) /\ HasTerms => Whole("instrumentTerms")

\* The join is of every row, in order, with terms that name each row once.
JoinSound ==
  /\ todo = <<>> /\ ReadSound
  /\ HasTerms => TermsUsable
  /\ joined = [i \in DOMAIN Rows |-> JoinedRow(Rows[i])]

\* The items are the outcomes of the first rows of the join.
ItemsSound == \E n \in 0 .. Len(joined) : items = [i \in 1 .. n |-> ItemOf(joined[i])]

\* The inductive invariant of a bundle.
EodInv ==
  /\ disk \in [Files -> Copies] /\ arriving \in Exports \cup {Nothing}
  /\ todo \in Todos /\ DOMAIN read = Files
  /\ refused = Nothing => ReadSound
  /\ joined # Nothing => JoinSound
  /\ items # Nothing => joined # Nothing /\ ItemsSound
  /\ result # Nothing => items # Nothing /\ Len(items) = Len(joined) /\ result.items = items

\* The rows and the terms are those of the files that were read.
LEMMA SameRows ==
  ASSUME read' = read
  PROVE  /\ Manifest' = Manifest /\ (HasTerms' <=> HasTerms) /\ Terms' = Terms /\ Rows' = Rows
         /\ TermsUsable' <=> TermsUsable
         /\ \A r : JoinedRow(r)' = JoinedRow(r)
<1>1. Manifest' = Manifest /\ (HasTerms' <=> HasTerms) /\ Terms' = Terms /\ Rows' = Rows
  BY DEF Manifest, HasTerms, Terms, Rows
<1>2. \A r : RowKey(r)' = RowKey(r)
  BY <1>1 DEF RowKey
<1>3. TermsUsable' <=> TermsUsable
  BY <1>1, <1>2 DEF TermsUsable, BasisAccepted, EntryParses
<1>4. \A r : JoinedRow(r)' = JoinedRow(r)
  BY <1>1, <1>2 DEF JoinedRow
<1>. QED
  BY <1>1, <1>3, <1>4

\* An item depends on what was read and on the market only.
LEMMA SameItem ==
  ASSUME read' = read, market' = market
  PROVE  \A j : ItemOf(j)' = ItemOf(j)
<1>1. Manifest' = Manifest /\ Valuation' = Valuation
  BY DEF Manifest, Valuation
<1>2. ASSUME NEW j PROVE PricedOutcomes(j)' = PricedOutcomes(j)
  BY <1>1 DEF PricedOutcomes, OnACurve, BillOutcomes, NoteOutcomes
<1>3. ASSUME NEW j PROVE Calculations(j)' = Calculations(j)
  BY <1>2 DEF Calculations
<1>. QED
  BY <1>1, <1>3 DEF ItemOf

\* What was read stays sound where nothing is read,
LEMMA ReadStays == ASSUME ReadSound, read' = read, todo' = todo PROVE ReadSound'
BY SameRows DEF ReadSound, Whole

\* and the join where nothing is joined,
LEMMA JoinStays == ASSUME JoinSound, read' = read, todo' = todo, joined' = joined PROVE JoinSound'
BY SameRows, ReadStays DEF JoinSound

\* and the items where none is built.
LEMMA ItemsStay ==
  ASSUME ItemsSound, read' = read, market' = market, joined' = joined, items' = items PROVE ItemsSound'
BY SameItem DEF ItemsSound

\* A submission begins in it.
LEMMA EodInitial == ASSUME EodInit PROVE EodInv
<1>1. PICK pair \in Arrivals, damaged \in Files \cup {Nothing}, d \in Damages :
        /\ disk = [f \in Files |-> [of |-> pair[1], damage |-> IF f = damaged THEN d ELSE "none"]]
        /\ arriving = pair[2]
        /\ todo = <<"manifest", "positions", "contracts", "instrumentTerms">>
        /\ read = [f \in Files |-> Nothing]
        /\ joined = Nothing /\ items = Nothing /\ result = Nothing
  BY DEF EodInit, BundleInit
<1>2. pair[1] \in Exports /\ pair[2] \in Exports \cup {Nothing}
  BY DEF Exports
<1>3. disk \in [Files -> Copies]
  BY <1>1, <1>2 DEF Copies
<1>4. ToSet(todo) = Files
  BY <1>1 DEF ToSet, Files, Artifacts
<1>5. ReadSound
  BY <1>4 DEF ReadSound, Files, Artifacts
<1>. QED
  BY <1>1, <1>2, <1>3, <1>5 DEF EodInv, Todos

\* An exporter that overwrites a file keeps it: what was read stays read.
LEMMA ExportKeeps == ASSUME EodInv, NEW f \in Files, Export(f), UNCHANGED <<marketInputs, market, items, result>> PROVE EodInv'
<1> USE DEF Export
<1>1. disk' \in [Files -> Copies]
  BY DEF EodInv, Copies
<1>2. refused' = Nothing => ReadSound'
  BY ReadStays DEF EodInv
<1>3. joined' # Nothing => JoinSound'
  BY JoinStays DEF EodInv
<1>4. items' # Nothing => joined' # Nothing /\ ItemsSound'
  BY ItemsStay DEF EodInv
<1>. QED
  BY <1>1, <1>2, <1>3, <1>4 DEF EodInv

\* The files are read one by one, the manifest first.
LEMMA NextFile ==
  ASSUME todo \in Todos, todo # <<>>
  PROVE  /\ Head(todo) \in Files /\ Tail(todo) \in Todos
         /\ ToSet(todo) = {Head(todo)} \cup ToSet(Tail(todo)) /\ Head(todo) \notin ToSet(Tail(todo))
         /\ Head(todo) = "manifest" => ToSet(Tail(todo)) = {"positions", "contracts", "instrumentTerms"}
         /\ Head(todo) # "manifest" => "manifest" \notin ToSet(todo)
<1>1. CASE todo = <<"manifest", "positions", "contracts", "instrumentTerms">>
  BY <1>1 DEF Todos, ToSet, Files, Artifacts
<1>2. CASE todo = <<"positions", "contracts", "instrumentTerms">>
  BY <1>2 DEF Todos, ToSet, Files, Artifacts
<1>3. CASE todo = <<"contracts", "instrumentTerms">>
  BY <1>3 DEF Todos, ToSet, Files, Artifacts
<1>4. CASE todo = <<"instrumentTerms">>
  BY <1>4 DEF Todos, ToSet, Files, Artifacts
<1>. QED
  BY <1>1, <1>2, <1>3, <1>4 DEF Todos

\* Reading keeps it: a file is accepted only with the manifest's digest.
LEMMA ReadFileKeeps == ASSUME EodInv, ReadFile, UNCHANGED <<marketInputs, market, items, result>> PROVE EodInv'
<1>0. PICK f : f = Head(todo)
  OBVIOUS
<1>1. /\ todo # <<>> /\ refused = Nothing /\ todo' = Tail(todo)
      /\ read' = [read EXCEPT ![f] = disk[f]]
      /\ refused' = Nothing => Accepted(f, disk[f])
      /\ disk' = disk /\ arriving' = arriving /\ joined' = joined
  BY <1>0, NothingIsNoReason DEF ReadFile
<1>2. /\ DOMAIN read = Files /\ disk \in [Files -> Copies] /\ todo \in Todos /\ ReadSound
  BY <1>1 DEF EodInv
<1>3. f \in Files /\ todo' \in Todos /\ DOMAIN read' = Files
  BY <1>0, <1>1, <1>2, <1>0, NextFile
<1>4. joined = Nothing /\ items = Nothing /\ result = Nothing
  BY <1>1 DEF EodInv, JoinSound
<1>5. read'[f] = disk[f] /\ \A g \in Files \ {f} : read'[g] = read[g]
  BY <1>1, <1>2, <1>3
<1>6. "manifest" \in Files /\ "positions" \in Files /\ "contracts" \in Files /\ "instrumentTerms" \in Files
  BY DEF Files, Artifacts
<1>7. ASSUME Accepted(f, disk[f]) PROVE ReadSound'
  <2>1. CASE f = "manifest"
    <3>1. ManifestAccepted(disk[f])
      BY <1>7, <2>1 DEF Accepted
    <3>2. read'["manifest"] \in Copies /\ Manifest'.schema \in {"v1", "v2"}
      BY <3>1, <2>1, <1>2, <1>5, <1>6 DEF ManifestAccepted, Manifest
    <3>. QED
      BY <3>2, <2>1, <1>1, <1>2, <1>0, NextFile DEF ReadSound
  <2>2. CASE f # "manifest"
    <3>1. Manifest' = Manifest /\ (HasTerms' <=> HasTerms) /\ read'["manifest"] = read["manifest"]
      BY <2>2, <1>5, <1>6 DEF Manifest, HasTerms
    <3>2. read["manifest"] \in Copies /\ Manifest.schema \in {"v1", "v2"}
      BY <2>2, <1>1, <1>2, <1>0, NextFile DEF ReadSound
    <3>3. f \in {"positions", "contracts"} => Verified(f, disk[f])
      BY <1>7 DEF Accepted, CsvAccepted
    <3>4. f = "instrumentTerms" /\ HasTerms => Verified(f, disk[f])
      BY <1>7 DEF Accepted, TermsAccepted
    <3>5. Verified(f, disk[f]) => Whole(f)'
      BY <3>1, <1>5 DEF Verified, Whole
    <3>6. \A g \in Files \ {f} : Whole(g) => Whole(g)'
      BY <3>1, <1>5 DEF Whole
    <3>7. \A g : g \notin ToSet(todo') /\ g # f => g \notin ToSet(todo)
      BY <1>1, <1>2, <1>0, NextFile
    <3>8. \A g \in {"positions", "contracts"} : g \notin ToSet(todo') => Whole(g)'
      BY <3>3, <3>5, <3>6, <3>7, <1>2, <1>6 DEF ReadSound
    <3>9. "instrumentTerms" \notin ToSet(todo') /\ HasTerms' => Whole("instrumentTerms")'
      BY <3>1, <3>4, <3>5, <3>6, <3>7, <1>2, <1>6 DEF ReadSound
    <3>10. read'["manifest"] \in Copies /\ Manifest'.schema \in {"v1", "v2"}
      BY <3>1, <3>2
    <3>. QED
      BY <3>10, <3>8, <3>9 DEF ReadSound
  <2>. QED
    BY <2>1, <2>2
<1>. QED
  BY <1>1, <1>2, <1>3, <1>4, <1>7 DEF EodInv

\* The rows are the manifest's export's, with numbers for amounts.
LEMMA RowsTyped ==
  ASSUME read["manifest"] \in Copies, Whole("positions"), Whole("contracts")
  PROVE  /\ Rows = Manifest.positions.content.rows \o Manifest.contracts.content.rows
         /\ Rows \in Seq(ToSet(Manifest.positions.content.rows) \cup ToSet(Manifest.contracts.content.rows))
         /\ \A i \in DOMAIN Rows : Rows[i].quantity.value \in Int /\ Rows[i].accrued.value \in Int
<1> DEFINE A == Manifest.positions.content.rows
           B == Manifest.contracts.content.rows
<1>1. Rows = A \o B
  BY DEF Rows, Parsed, Whole
<1>2. Manifest \in Exports
  BY DEF Manifest, Copies
<1>3. /\ A \in Seq(ToSet(A)) /\ B \in Seq(ToSet(B))
      /\ \A r \in ToSet(A) \cup ToSet(B) : r.quantity.value \in Int /\ r.accrued.value \in Int
  BY <1>2, ExportsAssumption
<1> HIDE DEF A, B
<1>4. A \o B \in Seq(ToSet(A) \cup ToSet(B))
  <2>1. A \in Seq(ToSet(A) \cup ToSet(B)) /\ B \in Seq(ToSet(A) \cup ToSet(B))
    BY <1>3
  <2>. QED
    BY <2>1
<1>5. \A i \in DOMAIN Rows : Rows[i] \in ToSet(A) \cup ToSet(B)
  BY <1>1, <1>4
<1>. QED
  BY <1>1, <1>3, <1>4, <1>5 DEF A, B

\* Joining keeps it.
LEMMA JoinTermsKeeps == ASSUME EodInv, JoinTerms, UNCHANGED <<marketInputs, market, items, result>> PROVE EodInv'
<1>1. /\ todo = <<>> /\ refused = Nothing /\ joined = Nothing
      /\ UNCHANGED <<disk, arriving, todo, read, marketInputs, market, items, result>>
      /\ ReadSound /\ items = Nothing /\ result = Nothing
  BY DEF JoinTerms, EodInv
<1>2. ReadSound'
  BY <1>1, ReadStays
<1>3. joined' # Nothing => JoinSound'
  <2>1. SUFFICES ASSUME joined' # Nothing PROVE JoinSound'
    OBVIOUS
  <2>2. (HasTerms => TermsUsable) /\ joined' = [i \in DOMAIN Rows |-> JoinedRow(Rows[i])]
    BY <1>1, <2>1 DEF JoinTerms
  <2>. QED
    BY <1>1, <1>2, <2>2, SameRows DEF JoinSound
<1>. QED
  BY <1>1, <1>2, <1>3 DEF EodInv

\* The join is as long as the rows.
LEMMA LengthOfJoin ==
  ASSUME JoinSound
  PROVE  Len(joined) \in Nat /\ DOMAIN joined = 1 .. Len(joined) /\ DOMAIN joined = DOMAIN Rows
<1>1. read["manifest"] \in Copies /\ Whole("positions") /\ Whole("contracts")
  BY DEF JoinSound, ReadSound, ToSet
<1>2. \E S : Rows \in Seq(S)
  BY <1>1, RowsTyped
<1>3. \E n \in Nat : DOMAIN Rows = 1 .. n
  BY <1>2
<1>4. joined \in Seq({JoinedRow(Rows[i]) : i \in DOMAIN Rows})
  BY <1>3 DEF JoinSound
<1>. QED
  BY <1>4 DEF JoinSound

\* Resolving the market keeps it: no item is built yet.
LEMMA ResolveKeeps == ASSUME EodInv, ResolveMarketInputs PROVE EodInv'
<1>1. /\ joined # Nothing /\ items = Nothing /\ refused = Nothing
      /\ UNCHANGED <<disk, arriving, todo, read, joined, result>>
  BY DEF ResolveMarketInputs
<1>2. ReadSound' /\ JoinSound' /\ JoinSound /\ result = Nothing
  BY <1>1, ReadStays, JoinStays DEF EodInv
<1>3. items' # Nothing => ItemsSound'
  <2>1. SUFFICES ASSUME items' = <<>> PROVE ItemsSound'
    BY <1>1 DEF ResolveMarketInputs
  <2>2. Len(joined') \in Nat
    BY <1>1, <1>2, LengthOfJoin
  <2>3. items' = [i \in 1 .. 0 |-> ItemOf(joined[i])']
    BY <2>1
  <2>. QED
    BY <2>2, <2>3 DEF ItemsSound
<1>. QED
  BY <1>1, <1>2, <1>3 DEF EodInv

\* Building an item keeps it: it is the next row's.
LEMMA BuildItemKeeps == ASSUME EodInv, BuildItem PROVE EodInv'
<1>1. /\ items # Nothing /\ Len(items) < Len(joined) /\ refused = Nothing
      /\ UNCHANGED <<disk, arriving, todo, read, joined, market, result>>
      /\ items' = items \/ items' = Append(items, ItemOf(joined[Len(items) + 1]))
  BY DEF BuildItem
<1>2. joined # Nothing /\ ItemsSound /\ JoinSound
  BY <1>1 DEF EodInv
<1>3. ReadSound' /\ JoinSound'
  BY <1>1, <1>2, ReadStays, JoinStays DEF JoinSound
<1>4. result = Nothing
  BY <1>1 DEF EodInv
<1>5. ItemsSound'
  <2>1. CASE items' = items
    BY <1>1, <1>2, <2>1, ItemsStay
  <2>2. CASE items' = Append(items, ItemOf(joined[Len(items) + 1]))
    <3>1. PICK n \in 0 .. Len(joined) : items = [i \in 1 .. n |-> ItemOf(joined[i])]
      BY <1>2 DEF ItemsSound
    <3>2. Len(joined) \in Nat
      BY <1>2, LengthOfJoin
    <3>3. Len(items) = n /\ n \in Nat
      BY <3>1, <3>2
    <3> DEFINE item(i) == ItemOf(joined[i])
    <3>4. items = [i \in 1 .. n |-> item(i)] /\ items' = Append(items, item(n + 1))
      BY <3>1, <3>3, <2>2
    <3> HIDE DEF item
    <3>5. items' = [i \in 1 .. n + 1 |-> item(i)]
      <4>1. items \in Seq({item(i) : i \in 1 .. n + 1}) /\ Len(items) = n
        BY <3>3, <3>4
      <4>. QED
        BY <4>1, <3>3, <3>4
    <3>6. items' = [i \in 1 .. n + 1 |-> ItemOf(joined[i])']
      BY <3>5, <1>1, SameItem DEF item
    <3>7. n + 1 \in 0 .. Len(joined')
      BY <3>2, <3>3, <1>1
    <3>. QED
      BY <3>6, <3>7 DEF ItemsSound
  <2>. QED
    BY <1>1, <2>1, <2>2
<1>. QED
  BY <1>1, <1>2, <1>3, <1>4, <1>5 DEF EodInv

\* Building the result keeps it.
LEMMA PriceBundleKeeps == ASSUME EodInv, PriceBundle PROVE EodInv'
<1>1. /\ items # Nothing /\ refused = Nothing /\ Len(items) = Len(joined)
      /\ UNCHANGED <<disk, arriving, todo, read, joined, refused, market, items>>
      /\ result'.items = items
  BY DEF PriceBundle
<1>2. joined # Nothing /\ ItemsSound /\ JoinSound
  BY <1>1 DEF EodInv
<1>3. ReadSound' /\ JoinSound' /\ ItemsSound'
  BY <1>1, <1>2, ReadStays, JoinStays, ItemsStay DEF JoinSound
<1>. QED
  BY <1>1, <1>2, <1>3 DEF EodInv

\* So does a step of something else.
LEMMA EodStutterKeeps == ASSUME EodInv, UNCHANGED eodVars PROVE EodInv'
<1>1. UNCHANGED <<disk, arriving, todo, read, joined, refused, market, items, result>>
  BY DEF eodVars, bundleVars
<1>2. refused = Nothing => ReadSound'
  BY <1>1, ReadStays DEF EodInv
<1>3. joined # Nothing => JoinSound'
  BY <1>1, JoinStays DEF EodInv
<1>4. items # Nothing => joined # Nothing /\ ItemsSound'
  BY <1>1, ItemsStay DEF EodInv
<1>. QED
  BY <1>1, <1>2, <1>3, <1>4 DEF EodInv

\* So it holds of every state of every behaviour.
LEMMA EodInvInvariant == EodSpec => []EodInv
<1>1. EodInit => EodInv
  BY EodInitial
<1>2. EodInv /\ [EodNext]_eodVars => EodInv'
  <2>1. SUFFICES ASSUME EodInv, [EodNext]_eodVars PROVE EodInv'
    OBVIOUS
  <2>2. CASE BundleNext /\ UNCHANGED <<marketInputs, market, items, result>>
    BY <2>1, <2>2, ExportKeeps, ReadFileKeeps, JoinTermsKeeps DEF BundleNext
  <2>3. CASE ResolveMarketInputs
    BY <2>1, <2>3, ResolveKeeps
  <2>4. CASE BuildItem
    BY <2>1, <2>4, BuildItemKeeps
  <2>5. CASE PriceBundle
    BY <2>1, <2>5, PriceBundleKeeps
  <2>6. CASE UNCHANGED eodVars
    BY <2>1, <2>6, EodStutterKeeps
  <2>. QED
    BY <2>1, <2>2, <2>3, <2>4, <2>5, <2>6 DEF EodNext
<1>. QED
  BY <1>1, <1>2, PTL DEF EodSpec

\* An item depends on a pair's row and entry only.
LEMMA SameOutcomes ==
  ASSUME NEW a, NEW b, a.row = b.row, a.entry = b.entry
  PROVE  ItemOf(a) = ItemOf(b)
<1>1. AccruedOutcome(a) = AccruedOutcome(b) /\ InstrumentType(a) = InstrumentType(b)
  BY DEF AccruedOutcome, InstrumentType
<1>2. PricedOutcomes(a) = PricedOutcomes(b)
  BY DEF PricedOutcomes, Priceable, OnACurve, BillOutcomes, NoteOutcomes
<1>. QED
  BY <1>1, <1>2 DEF ItemOf, Calculations

\* The entries of a row in the terms that were read are those of the export.
LEMMA TermsAre ==
  ASSUME ReadSound, todo = <<>>
  PROVE  \A r : TermsOf(r) = IF HasTerms THEN {e \in ToSet(Terms.rows) : EntryKey(e) = RowKey(r)} ELSE {}
<1>1. Manifest.schema \in {"v1", "v2"} /\ (HasTerms => Whole("instrumentTerms"))
  BY DEF ReadSound, ToSet
<1>2. HasTerms => Terms = Manifest.instrumentTerms.content
  BY <1>1 DEF Terms, Parsed, Whole
<1>. QED
  BY <1>1, <1>2 DEF TermsOf, HasTerms

\* Terms that are usable have at most one entry for a row.
LEMMA OneEntry ==
  ASSUME JoinSound, NEW r, NEW e1 \in TermsOf(r), NEW e2 \in TermsOf(r)
  PROVE  e1 = e2
<1>1. HasTerms /\ TermsUsable /\ e1 \in ToSet(Terms.rows) /\ e2 \in ToSet(Terms.rows)
      /\ EntryKey(e1) = EntryKey(e2)
  BY TermsAre DEF JoinSound
<1>2. PICK i \in DOMAIN Terms.rows : e1 = Terms.rows[i]
  BY <1>1 DEF ToSet
<1>3. PICK j \in DOMAIN Terms.rows : e2 = Terms.rows[j]
  BY <1>1 DEF ToSet
<1>4. \A k \in DOMAIN Terms.rows : EntryKey(Terms.rows[k]) = EntryKey(Terms.rows[i]) => i = k
  BY <1>1 DEF TermsUsable
<1>. QED
  BY <1>1, <1>2, <1>3, <1>4

\* A result is of one export, whole: its items are the outcomes of the rows of the
\* manifest's export, in order, each on the one entry that export's terms have for
\* it, however the files were overwritten or damaged meanwhile (bundle.py's
\* verified reads, join_terms, price_bundle).
THEOREM OneExport == EodSpec => []ResultIsOfOneExport
<1>1. ASSUME EodInv, result # Nothing PROVE ResultIsOfOneExport
  <2> DEFINE rows == Manifest.positions.content.rows \o Manifest.contracts.content.rows
             entry(r) == IF TermsOf(r) = {} THEN Nothing ELSE CHOOSE e \in TermsOf(r) : TRUE
             matched(r) == IF HasTerms THEN {e \in ToSet(Terms.rows) : EntryKey(e) = RowKey(r)} ELSE {}
             one(S) == IF S = {} THEN Nothing ELSE CHOOSE e \in S : TRUE
             asked(i) == [row |-> rows[i], entry |-> entry(rows[i])]
  <2>1. JoinSound /\ ItemsSound /\ Len(items) = Len(joined) /\ result.items = items
    BY <1>1 DEF EodInv
  <2>2. read["manifest"] \in Copies /\ Whole("positions") /\ Whole("contracts")
    BY <2>1 DEF JoinSound, ReadSound, ToSet
  <2>3. Rows = rows /\ DOMAIN joined = DOMAIN rows /\ DOMAIN rows = 1 .. Len(joined) /\ Len(joined) \in Nat
    BY <2>1, <2>2, RowsTyped, LengthOfJoin
  <2>. Len(joined) \in Nat
    BY <2>3
  <2>4. PICK n \in 0 .. Len(joined) : items = [i \in 1 .. n |-> ItemOf(joined[i])]
    BY <2>1 DEF ItemsSound
  <2>5. n = Len(joined)
    <3>1. Len(items) = n /\ n \in Nat
      BY <2>4
    <3>. QED
      BY <2>1, <3>1
  <2>6. ASSUME NEW i \in DOMAIN rows PROVE ItemOf(joined[i]) = ItemOf(asked(i))
    <3>1. joined[i] = JoinedRow(rows[i])
      BY <2>1, <2>3 DEF JoinSound
    <3>2. \A r : JoinedRow(r).row = r /\ JoinedRow(r).entry = one(matched(r))
      BY DEF JoinedRow
    <3>3. \A r : matched(r) = TermsOf(r)
      BY <2>1, TermsAre DEF JoinSound
    <3>4. \A r : entry(r) = one(TermsOf(r))
      OBVIOUS
    <3> HIDE DEF rows, entry, matched, one
    <3>. QED
      BY <3>1, <3>2, <3>3, <3>4, SameOutcomes
  <2>7. result.items = [i \in DOMAIN rows |-> ItemOf(asked(i))]
    <3> HIDE DEF rows, asked
    <3>. QED
      BY <2>1, <2>3, <2>4, <2>5, <2>6
  <2>8. \A i \in DOMAIN rows : \A e1, e2 \in TermsOf(rows[i]) : e1 = e2
    BY <2>1, OneEntry
  <2>. QED
    BY <2>7, <2>8 DEF ResultIsOfOneExport
<1>2. EodInv => ResultIsOfOneExport
  BY <1>1 DEF ResultIsOfOneExport
<1>. QED
  BY EodInvInvariant, <1>2, PTL

\* A row's amounts are numbers.
RowTyped(r) == r.quantity.value \in Int /\ r.accrued.value \in Int

\* An entry is of an extract, and the contracts are the swaps.
EntryTyped(e) == /\ e.source \in {"positions", "contracts"}
                 /\ e.source = "contracts" <=> e.type = "SWAP"
                 /\ e.schedule \in Seq(ToSet(e.schedule))

\* A pair of the join: a row and, if it has one, its entry in the terms.
PairSound(j) == /\ RowTyped(j.row)
                /\ j.entry # Nothing => EntryTyped(j.entry) /\ j.row.source = j.entry.source

\* Every pair of the join is one.
LEMMA PairsSound == ASSUME JoinSound, NEW i \in DOMAIN joined PROVE PairSound(joined[i])
<1>1. read["manifest"] \in Copies /\ Whole("positions") /\ Whole("contracts")
  BY DEF JoinSound, ReadSound, ToSet
<1>2. DOMAIN Rows = DOMAIN joined /\ joined[i] = JoinedRow(Rows[i])
  BY LengthOfJoin DEF JoinSound
<1> DEFINE r == Rows[i]
<1>3. RowTyped(r)
  BY <1>1, <1>2, RowsTyped DEF RowTyped
<1>4. joined[i].row = r /\ (joined[i].entry # Nothing => joined[i].entry \in TermsOf(r))
  BY <1>2, TermsAre DEF JoinedRow, JoinSound
<1>5. ASSUME NEW e \in TermsOf(r) PROVE EntryTyped(e) /\ r.source = e.source
  <2>1. e \in ToSet(Manifest.instrumentTerms.content.rows) /\ EntryKey(e) = RowKey(r)
    BY <1>5 DEF TermsOf
  <2>2. Manifest \in Exports
    BY <1>1 DEF Manifest, Copies
  <2>3. EntryTyped(e)
    BY <2>1, <2>2, ExportsAssumption DEF EntryTyped
  <2>4. EntryKey(e)[1] = e.source /\ RowKey(r)[1] = r.source
    BY DEF EntryKey, RowKey
  <2>. QED
    BY <2>1, <2>3, <2>4
<1>. QED
  BY <1>3, <1>4, <1>5 DEF PairSound

\* An outcome is its pricer's, or what stands for one where there is none.
LEMMA OutcomeIs ==
  ASSUME NEW j, NEW c \in CALCULATIONS
  PROVE  LET refusal == CheckConventions(j.entry)
             told == Calculations(j)[c]
         IN  c # "accruedInterest" =>
               \/ refusal = Nothing /\ c \in DOMAIN PricedOutcomes(j) /\ told = PricedOutcomes(j)[c]
               \/ /\ refusal = Nothing => c \notin DOMAIN PricedOutcomes(j)
                  /\ \/ told = not_applicable /\ c \in {"varEs", "vega"}
                     \/ c # "varEs" /\ told = unsupported(IF refusal = Nothing THEN NO_PRICER_AT_THIS_STAGE ELSE refusal)
<1>1. DOMAIN NothingPriced = {}
  BY DEF NothingPriced
<1>. QED
  BY <1>1 DEF Calculations

\* What is priced is told by the shape of the terms: equity, bill, note or nothing.
LEMMA PricedByShape ==
  ASSUME NEW j
  PROVE  LET entry == j.entry
             priced == PricedOutcomes(j)
         IN  /\ DOMAIN priced \subseteq {"npv", "rateSensitivity"}
             /\ DOMAIN priced # {} => Priceable(j)
             /\ Priceable(j) /\ IsEquity(entry) => DOMAIN priced = {"npv"} /\ priced["npv"].status = "unsupported"
             /\ DOMAIN priced # {} /\ ~IsEquity(entry) => OnACurve(j) /\ (IsBill(entry) \/ IsNote(entry))
             /\ ~IsEquity(entry) /\ OnACurve(j) /\ IsBill(entry) => priced = BillOutcomes(j)
             /\ ~IsEquity(entry) /\ OnACurve(j) /\ IsNote(entry) => priced = NoteOutcomes(j)
             /\ ~IsEquity(entry) /\ IsBill(entry) => "rateSensitivity" \notin DOMAIN priced
<1>1. IsNote(j.entry) => ~IsBill(j.entry)
  BY DEF IsNote, IsBill
<1>2. DOMAIN NothingPriced = {}
  BY DEF NothingPriced
<1>3. DOMAIN BillOutcomes(j) = {"npv"}
  BY DEF BillOutcomes
<1>4. DOMAIN NoteOutcomes(j) = {"npv", "rateSensitivity"}
  BY DEF NoteOutcomes
<1>5. PriceEquity(j.entry, j.row).status = "unsupported"
  BY DEF PriceEquity, unsupported
<1> DEFINE ofEquity == [npv |-> PriceEquity(j.entry, j.row)]
<1>6. DOMAIN ofEquity = {"npv"} /\ ofEquity["npv"].status = "unsupported"
  BY <1>5
<1>7. PricedOutcomes(j) = IF Priceable(j) /\ IsEquity(j.entry) THEN ofEquity
                          ELSE IF OnACurve(j) /\ IsBill(j.entry) THEN BillOutcomes(j)
                          ELSE IF OnACurve(j) /\ IsNote(j.entry) THEN NoteOutcomes(j)
                          ELSE NothingPriced
  BY DEF PricedOutcomes
<1>8. OnACurve(j) => Priceable(j) /\ ~IsEquity(j.entry)
  BY DEF OnACurve
<1> HIDE DEF ofEquity
<1>. QED
  BY <1>1, <1>2, <1>3, <1>4, <1>6, <1>7, <1>8

\* A value is given only of what is advertised, and with a market.
LEMMA OkIsAdvertised ==
  ASSUME NEW j, PairSound(j), NEW c \in CALCULATIONS \ {"accruedInterest"}, Calculations(j)[c].status = "ok"
  PROVE  market # Nothing /\ c \in Advertised(j.entry)
<1> DEFINE entry == j.entry
           priced == PricedOutcomes(j)
<1>1. CheckConventions(entry) = Nothing /\ c \in DOMAIN priced /\ priced[c].status = "ok"
  <2> DEFINE reason == IF CheckConventions(entry) = Nothing THEN NO_PRICER_AT_THIS_STAGE ELSE CheckConventions(entry)
             told == Calculations(j)[c]
  <2>1. \/ CheckConventions(entry) = Nothing /\ c \in DOMAIN priced /\ told = priced[c]
        \/ told = not_applicable
        \/ told = unsupported(reason)
    BY OutcomeIs
  <2>2. not_applicable.status # "ok" /\ unsupported(reason).status # "ok"
    BY DEF not_applicable, unsupported
  <2> HIDE DEF priced, reason, told
  <2>3. told.status = "ok"
    BY DEF told
  <2>. QED
    BY <2>1, <2>2, <2>3
<1>2. entry # Nothing /\ entry.type \in SUPPORTED_INSTRUMENT_TYPES
  BY <1>1, ConventionsAre
<1> HIDE DEF priced
<1>3. Priceable(j) /\ DOMAIN priced \subseteq {"npv", "rateSensitivity"}
  BY <1>1, PricedByShape DEF priced
<1>4. ~IsEquity(entry)
  <2>1. SUFFICES ASSUME IsEquity(entry) PROVE FALSE
    OBVIOUS
  <2>2. c = "npv" /\ priced["npv"].status = "unsupported"
    BY <1>1, <1>3, <2>1, PricedByShape DEF priced
  <2>. QED
    BY <1>1, <2>2
<1>5. OnACurve(j) /\ (IsBill(entry) \/ IsNote(entry)) /\ (IsBill(entry) => c # "rateSensitivity")
  BY <1>1, <1>3, <1>4, PricedByShape DEF priced
<1>6. entry.type = "TREASURY"
  <2>1. j.row.source = "positions" /\ j.row.source = entry.source /\ (entry.source = "contracts" <=> entry.type = "SWAP")
    BY <1>2, <1>3 DEF PairSound, EntryTyped, Priceable
  <2>. QED
    BY <1>2, <1>4, <2>1 DEF SUPPORTED_INSTRUMENT_TYPES, IsEquity
<1>7. c \in Advertised(entry)
  BY <1>1, <1>2, <1>3, <1>5, <1>6 DEF Advertised, PRICED_CALCULATIONS_BY_SHAPE
<1>8. market # Nothing
  BY <1>5 DEF OnACurve
<1>. QED
  BY <1>7, <1>8

\* What is advertised of a sound row is answered by its pricer.
LEMMA AdvertisedIsAnswered ==
  ASSUME NEW j, PairSound(j), Valuation \in Int, NEW c \in Advertised(j.entry),
         market # Nothing, CheckConventions(j.entry) = Nothing,
         Calculations(j)["accruedInterest"].status # "failed"
  PROVE  Calculations(j)[c].reason # NO_PRICER_AT_THIS_STAGE
<1> DEFINE entry == j.entry
           priced == PricedOutcomes(j)
<1>1. /\ entry # Nothing /\ entry.type = "TREASURY"
      /\ \/ IsBill(entry) /\ c = "npv"
         \/ IsNote(entry) /\ c \in {"npv", "rateSensitivity"}
  BY DEF Advertised, PRICED_CALCULATIONS_BY_SHAPE
<1>2. j.row.source = "positions" /\ EntryTyped(entry)
  BY <1>1 DEF PairSound, EntryTyped
<1>3. ~IsEquity(entry) /\ Priceable(j)
  BY <1>1, <1>2 DEF IsEquity, Priceable
<1>4. Normalizes(j.row)
  <2>1. SUFFICES ASSUME ~Normalizes(j.row) PROVE FALSE
    OBVIOUS
  <2>2. AccruedOutcome(j) = failed("NORMALIZATION_FAILED")
    BY <1>2, <2>1 DEF AccruedOutcome
  <2>3. Calculations(j)["accruedInterest"] = failed("NORMALIZATION_FAILED")
    BY <2>2, NothingIsNoReason DEF Calculations, CALCULATIONS
  <2>. QED
    BY <2>3 DEF failed
<1>5. OnACurve(j)
  BY <1>3, <1>4 DEF OnACurve
<1>6. c \in CALCULATIONS /\ c # "accruedInterest"
  BY <1>1 DEF CALCULATIONS
<1>7. CASE IsBill(entry)
  <2>1. priced = BillOutcomes(j)
    BY <1>3, <1>5, <1>7, PricedByShape
  <2>2. c = "npv" /\ c \in DOMAIN priced
    BY <1>1, <1>7, <2>1 DEF BillOutcomes, IsBill, IsNote
  <2>3. Calculations(j)[c] = BillOutcomes(j)["npv"]
    BY <1>6, <2>1, <2>2, OutcomeIs
  <2>4. BillOutcomes(j)["npv"].reason \in Reasons \cup {Nothing}
    BY BillPriced DEF BillOutcomes, failed, Reasons
  <2>. QED
    BY <2>3, <2>4, NothingIsNoReason
<1>8. CASE IsNote(entry)
  <2>1. priced = NoteOutcomes(j)
    BY <1>3, <1>5, <1>8, PricedByShape
  <2>2. c \in {"npv", "rateSensitivity"}
    BY <1>1
  <2>3. c \in DOMAIN priced
    BY <2>1, <2>2 DEF NoteOutcomes
  <2>4. Calculations(j)[c] = NoteOutcomes(j)[c]
    BY <1>6, <2>1, <2>3, OutcomeIs
  <2>5. NoteOutcomes(j)["npv"].reason \in Reasons \cup {Nothing}
        /\ NoteOutcomes(j)["rateSensitivity"].reason \in Reasons \cup {Nothing}
    <3>1. j.row.quantity.value \in Int /\ entry.schedule \in Seq(ToSet(entry.schedule))
      BY <1>2 DEF PairSound, RowTyped, EntryTyped
    <3>. QED
      BY <3>1, NotePriced DEF NoteOutcomes
  <2>. QED
    BY <2>2, <2>4, <2>5, NothingIsNoReason
<1>. QED
  BY <1>1, <1>7, <1>8

\* The outcomes of one note agree.
LEMMA NotesAgree ==
  ASSUME NEW j, PairSound(j), Valuation \in Int, j.entry # Nothing, IsNote(j.entry), ~IsEquity(j.entry)
  PROVE  LET npv == Calculations(j)["npv"]
             rate == Calculations(j)["rateSensitivity"]
             accrued == Calculations(j)["accruedInterest"]
         IN  /\ npv.status = rate.status /\ npv.reason = rate.reason
             /\ npv.status = "ok" /\ accrued.status = "ok" => npv.value.accrued = accrued.value.cents
             /\ npv.status = "ok" =>
                  /\ npv.value.flows = rate.value.flows
                  /\ npv.value.accrued # 0 /\ npv.value.source = "recomputed-schedule"
                       => DOMAIN npv.value.flows.coupons # {}
<1> DEFINE calcs == Calculations(j)
           entry == j.entry
           refusal == CheckConventions(entry)
           priced == PricedOutcomes(j)
<1>1. "npv" \in CALCULATIONS /\ "rateSensitivity" \in CALCULATIONS /\ "accruedInterest" \in CALCULATIONS
  BY DEF CALCULATIONS
<1>2. CASE refusal = Nothing /\ OnACurve(j)
  <2>1. priced = NoteOutcomes(j)
    BY <1>2, PricedByShape
  <2>2. calcs["npv"] = NoteOutcomes(j)["npv"] /\ calcs["rateSensitivity"] = NoteOutcomes(j)["rateSensitivity"]
    <3>1. "npv" \in DOMAIN priced /\ "rateSensitivity" \in DOMAIN priced
      BY <2>1 DEF NoteOutcomes
    <3>. QED
      BY <3>1, <2>1, <1>1, <1>2, OutcomeIs
  <2> DEFINE face == j.row.quantity.value
             exported == j.row.accrued
             decimals == FractionDecimals(entry)
  <2>3. calcs["npv"] = PriceNote(entry, face, Valuation, exported, decimals)
        /\ calcs["rateSensitivity"] = RateSensitivity(entry, face, Valuation, exported, decimals)
    BY <2>2 DEF NoteOutcomes
  <2>4. face \in Int /\ exported.value \in Int /\ entry.schedule \in Seq(ToSet(entry.schedule))
        /\ j.row.source = "positions"
    BY <1>2 DEF PairSound, RowTyped, EntryTyped, OnACurve, Priceable
  <2> HIDE DEF calcs, face, exported, decimals
  <2>5. /\ calcs["npv"].status = calcs["rateSensitivity"].status /\ calcs["npv"].reason = calcs["rateSensitivity"].reason
        /\ calcs["npv"].status = "ok" =>
             /\ calcs["npv"].value.flows = calcs["rateSensitivity"].value.flows
             /\ Given(exported) => calcs["npv"].value.accrued = 100 * face * exported.value
             /\ calcs["npv"].value.accrued # 0 /\ calcs["npv"].value.source = "recomputed-schedule"
                  => DOMAIN calcs["npv"].value.flows.coupons # {}
    BY <2>3, <2>4, NotePriced
  <2>6. ASSUME calcs["accruedInterest"].status = "ok"
        PROVE  Given(exported) /\ calcs["accruedInterest"].value.cents = 100 * exported.value * face
    <3>1. Normalizes(j.row)
      BY <1>2 DEF OnACurve
    <3>2. AccruedOutcome(j) = NormalizedAccrued(j.row, entry)
      BY <2>4, <3>1 DEF AccruedOutcome
    <3>3. calcs["accruedInterest"] = NormalizedAccrued(j.row, entry)
      <4>1. calcs["accruedInterest"] = AccruedOutcome(j) \/ calcs["accruedInterest"].status \in {"not-applicable", "unsupported"}
        BY <1>1, <2>1 DEF calcs, Calculations, NoteOutcomes, not_applicable, unsupported, NothingPriced
      <4>. QED
        BY <4>1, <3>2, <2>6
    <3>4. ~IsZeroCoupon(entry)
      BY DEF IsZeroCoupon, IsNote
    <3>. QED
      BY <3>3, <3>4, <2>6 DEF NormalizedAccrued, ok, unavailable, exported, face
  <2>7. 100 * exported.value * face = 100 * face * exported.value
    BY <2>4
  <2>. QED
    BY <2>5, <2>6, <2>7 DEF calcs
<1>3. CASE ~(refusal = Nothing /\ OnACurve(j))
  <2> DEFINE reason == IF refusal = Nothing THEN NO_PRICER_AT_THIS_STAGE ELSE refusal
  <2>1. refusal = Nothing => DOMAIN priced = {}
    BY <1>3, PricedByShape
  <2>2. calcs["npv"] = unsupported(reason) /\ calcs["rateSensitivity"] = unsupported(reason)
    BY <2>1, <1>1, OutcomeIs
  <2> HIDE DEF calcs, reason
  <2>3. calcs["npv"].status # "ok"
    BY <2>2 DEF unsupported
  <2>. QED
    BY <2>2, <2>3 DEF calcs
<1>. QED
  BY <1>2, <1>3

\* In every state of a bundle's pricing, values are given of what the capability
\* document advertises and of nothing else, and the price, the sensitivity and the
\* accrued interest of one note agree, although each is attempted on its own
\* (pipeline.py's build of an item, capabilities.py's table).
THEOREM BundleOutcomesAgree == EodSpec => []OutcomesAgree
<1>1. ASSUME EodInv, items # Nothing PROVE OutcomesAgree
  <2>1. JoinSound /\ ItemsSound
    BY <1>1 DEF EodInv
  <2>2. PICK n \in 0 .. Len(joined) : items = [i \in 1 .. n |-> ItemOf(joined[i])]
    BY <2>1 DEF ItemsSound
  <2>3. Valuation \in Int
    <3>1. Manifest \in Exports
      BY <2>1 DEF JoinSound, ReadSound, ToSet, Manifest, Copies
    <3>. QED
      BY <3>1, ExportsAssumption DEF Valuation
  <2>4. ASSUME NEW i \in DOMAIN items
        PROVE  /\ i \in DOMAIN joined /\ PairSound(joined[i])
               /\ items[i].calculations = Calculations(joined[i]) /\ items[i].refusal = CheckConventions(joined[i].entry)
    <3>1. i \in DOMAIN joined
      BY <2>1, <2>2, LengthOfJoin
    <3>. QED
      BY <3>1, <2>1, <2>2, PairsSound DEF ItemOf
  <2>5. AdvertisedIsPriced
    <3>1. ASSUME NEW i \in DOMAIN items, NEW c \in CALCULATIONS \ {"accruedInterest"},
                 items[i].calculations[c].status = "ok"
          PROVE  market # Nothing /\ c \in Advertised(joined[i].entry)
      BY <2>4, <3>1, OkIsAdvertised
    <3>2. ASSUME NEW i \in DOMAIN items, NEW c \in Advertised(joined[i].entry),
                 market # Nothing, items[i].refusal = Nothing, items[i].calculations["accruedInterest"].status # "failed"
          PROVE  items[i].calculations[c].reason # NO_PRICER_AT_THIS_STAGE
      BY <2>3, <2>4, <3>2, AdvertisedIsAnswered
    <3>. QED
      BY <3>1, <3>2 DEF AdvertisedIsPriced
  <2>6. NoteOutcomesAgree
    <3>1. SUFFICES ASSUME NEW i \in DOMAIN items, joined[i].entry # Nothing, IsNote(joined[i].entry), ~IsEquity(joined[i].entry)
                   PROVE  LET npv == items[i].calculations["npv"]
                              rate == items[i].calculations["rateSensitivity"]
                              accrued == items[i].calculations["accruedInterest"]
                          IN  /\ <<npv.status, npv.reason>> = <<rate.status, rate.reason>>
                              /\ npv.status = "ok" /\ accrued.status = "ok" => npv.value.accrued = accrued.value.cents
                              /\ npv.status = "ok" =>
                                   /\ npv.value.flows = rate.value.flows
                                   /\ npv.value.accrued # 0 /\ npv.value.source = "recomputed-schedule"
                                        => DOMAIN npv.value.flows.coupons # {}
      BY DEF NoteOutcomesAgree
    <3> DEFINE j == joined[i]
    <3>2. PairSound(j) /\ items[i].calculations = Calculations(j)
      BY <2>4
    <3>. QED
      BY <2>3, <3>1, <3>2, NotesAgree
  <2>. QED
    BY <2>5, <2>6 DEF OutcomesAgree
<1>2. EodInv => OutcomesAgree
  BY <1>1 DEF OutcomesAgree, AdvertisedIsPriced, NoteOutcomesAgree
<1>. QED
  BY EodInvInvariant, <1>2, PTL

---------------------------------------------------------------------------
(* A run: the phases, whom each belongs to and what it takes.              *)

\* The phases of the exposure analytic, of the values, of the sensitivities, of market risk
\* and of the calibration.
OfExposure == {"calibration", "simulation", "pricing", "today", "paired_sample", "exposure"}
OfPortfolio == {"base_npv"}
OfGreeks == {"greeks", "trade_greeks"}
OfRisk == {"scenarios", "revaluation", "risk_figures", "paired_figures"}
OfCalibration == {"calibration_analytic"}
PHASES == OfExposure \cup OfPortfolio \cup OfGreeks \cup OfRisk \cup OfCalibration

\* A phase to come, with the trade it is of.
Places == [phase : PHASES, trade : Nat]

\* A phase that is left belongs to an analytic that was asked for, and its trade to the portfolio.
Fits(at) ==
  /\ at.phase \in OfExposure => wants(request, {"exposure"})
  /\ at.phase \in OfPortfolio => wants(request, PORTFOLIO_ANALYTICS)
  /\ at.phase \in OfGreeks => wants(request, {"sensitivities"})
  /\ at.phase \in OfRisk => wants(request, {"market_risk"})
  /\ at.phase \in OfCalibration => wants(request, {"calibration"})
  /\ at.phase \in {"paired_sample", "paired_figures"} => request.precision.paired > 0
  /\ at.phase \in {"pricing", "trade_greeks", "revaluation"} => at.trade \in DOMAIN request.portfolio

\* What each phase takes of the request.
Takes(phase) ==
  CASE phase = "calibration" ->
         CalibrationSettings(calibrated(request.models)) \cup IrSettings(DOMAIN request.models.ir)
         \cup Models({"fx", "equities", "correlations"}) \cup Section({"models", "base_currency"})
    [] phase = "simulation" ->
         Section({"simulation", "precision"}) \cup {<<"stage", "simulation">>, <<"stage", "market">>}
    [] phase \in {"pricing", "revaluation"} -> Section({"pricing", "portfolio"}) \cup {<<"stage", "pricing">>}
    [] phase \in {"today", "base_npv"} -> Section({"pricing", "portfolio", "base_currency"})
    [] phase \in {"paired_sample", "paired_figures"} -> {<<"stage", "paired">>}
    [] phase = "exposure" -> Section({"exposure", "include_npv_cube"})
    [] phase = "greeks" -> Section({"sensitivity"})
    [] phase = "trade_greeks" -> Section({"pricing", "portfolio"})
    [] phase = "scenarios" ->
         Section({"market_risk", "base_currency", "precision"}) \cup {<<"stage", "simulation">>}
    [] phase = "calibration_analytic" -> Section({"models"}) \cup CalibrationSettings(calibrated(request.models))
    [] OTHER -> {}

TakenBy(left) == UNION {Takes(at.phase) : at \in left}

\* No failure is for what a trade reads.
NoTradeMissed(c) == \A why \in c : why[1] # "trade"

---------------------------------------------------------------------------
\* Who wants one of some analytics wants one of more.
LEMMA Analytics ==
   ASSUME NEW names, NEW more, names \subseteq more, wants(request, names) PROVE wants(request, more)
BY DEF wants

\* The portfolio is a list of its trades.
LEMMA TradeTyped ==
  ASSUME request \in Requests
  PROVE  /\ request.portfolio \in Seq(Range(request.portfolio))
         /\ DOMAIN request.portfolio = 1 .. Len(request.portfolio)
         /\ \A i \in DOMAIN request.portfolio : request.portfolio[i] \in Range(request.portfolio)
<1>1. request.portfolio \in Seq(Range(request.portfolio))
  BY RequestsAssumption
<1>. QED
  BY <1>1 DEF Range

\* The places of a phase of its own,
LEMMA AlonePlaces ==
  ASSUME NEW p \in PHASES
  PROVE  Alone(p) \in Seq(Places) /\ Range(Alone(p)) = {At(p, 0)}
<1>1. At(p, 0) \in Places
  BY DEF At, Places
<1>. QED
  BY <1>1 DEF Alone, Range

\* of a phase for every trade,
LEMMA PerTradePlaces ==
  ASSUME request \in Requests, NEW p \in PHASES
  PROVE  /\ PerTrade(p) \in Seq(Places)
         /\ Range(PerTrade(p)) = {At(p, i) : i \in DOMAIN request.portfolio}
<1>1. \A i \in DOMAIN request.portfolio : At(p, i) \in Places
  BY TradeTyped DEF At, Places
<1>2. PerTrade(p) \in [1 .. Len(request.portfolio) -> Places] /\ Len(request.portfolio) \in Nat
  BY <1>1, TradeTyped DEF PerTrade
<1>3. PerTrade(p) \in Seq(Places)
  BY <1>2, IsASeq
<1>4. Range(PerTrade(p)) = {PerTrade(p)[i] : i \in DOMAIN request.portfolio}
  BY DEF PerTrade, Range
<1>. QED
  BY <1>3, <1>4 DEF PerTrade

\* of steps taken on a condition,
LEMMA WhenPlaces ==
  ASSUME NEW c \in BOOLEAN, NEW s \in Seq(Places)
  PROVE  /\ When(c, s) \in Seq(Places)
         /\ Range(When(c, s)) = IF c THEN Range(s) ELSE {}
BY DEF When, Range

\* and of steps after steps.
LEMMA JoinedPlaces ==
  ASSUME NEW s \in Seq(Places), NEW t \in Seq(Places)
  PROVE  s \o t \in Seq(Places) /\ Range(s \o t) = Range(s) \cup Range(t)
BY RangeConcatenation, ConcatProperties

AllOf(p) == {At(p, i) : i \in DOMAIN request.portfolio}
Once(p) == {At(p, 0)}

\* The steps of a run, as a set.
ExposurePlaces ==
  Once("calibration") \cup Once("simulation") \cup AllOf("pricing") \cup Once("today")
  \cup (IF request.precision.paired > 0 THEN Once("paired_sample") ELSE {}) \cup Once("exposure")

PortfolioPlaces ==
  (IF wants(request, {"exposure"}) THEN ExposurePlaces ELSE Once("base_npv"))
  \cup (IF wants(request, {"sensitivities"}) THEN Once("greeks") \cup AllOf("trade_greeks") ELSE {})
RiskPlaces ==
  Once("scenarios") \cup AllOf("revaluation") \cup Once("risk_figures")
  \cup (IF request.precision.paired > 0 THEN Once("paired_figures") ELSE {})

RunPlaces ==
  (IF wants(request, PORTFOLIO_ANALYTICS) THEN PortfolioPlaces ELSE {})
  \cup (IF wants(request, {"market_risk"}) THEN RiskPlaces ELSE {})
  \cup (IF wants(request, {"calibration"}) THEN Once("calibration_analytic") ELSE {})

\* The steps a run starts with are these places.
LEMMA StepsOfRun ==
  ASSUME request \in Requests
  PROVE  RunSteps \in Seq(Places) /\ Range(RunSteps) = RunPlaces
<1> USE DEF AllOf, Once
<1>a. \A p \in PHASES : Alone(p) \in Seq(Places) /\ Range(Alone(p)) = Once(p)
  BY AlonePlaces
<1>b. \A p \in PHASES : PerTrade(p) \in Seq(Places) /\ Range(PerTrade(p)) = AllOf(p)
  BY PerTradePlaces
<1>c. \A c \in BOOLEAN, s \in Seq(Places) : /\ When(c, s) \in Seq(Places)
                                            /\ Range(When(c, s)) = IF c THEN Range(s) ELSE {}
  BY WhenPlaces
<1>d. \A s, t \in Seq(Places) : s \o t \in Seq(Places) /\ Range(s \o t) = Range(s) \cup Range(t)
  BY JoinedPlaces
<1>e. /\ \A ns : wants(request, ns) \in BOOLEAN
      /\ (request.precision.paired > 0) \in BOOLEAN
  BY DEF wants
<1>p. {"calibration", "simulation", "pricing", "today", "paired_sample", "exposure", "base_npv",
       "greeks", "trade_greeks", "scenarios", "revaluation", "risk_figures", "paired_figures",
       "calibration_analytic"} \subseteq PHASES
  BY DEF PHASES, OfExposure, OfPortfolio, OfGreeks, OfRisk, OfCalibration
<1> HIDE DEF AllOf, Once
<1>1. ExposureSteps \in Seq(Places) /\ Range(ExposureSteps) = ExposurePlaces
  <2> DEFINE a == Alone("calibration")
             b == Alone("simulation")
             c == PerTrade("pricing")
             d == Alone("today")
             e == When(request.precision.paired > 0, Alone("paired_sample"))
             f == Alone("exposure")
  <2>1. a \in Seq(Places) /\ Range(a) = Once("calibration")
    BY <1>a, <1>p
  <2>2. b \in Seq(Places) /\ Range(b) = Once("simulation")
    BY <1>a, <1>p
  <2>3. c \in Seq(Places) /\ Range(c) = AllOf("pricing")
    BY <1>b, <1>p
  <2>4. d \in Seq(Places) /\ Range(d) = Once("today")
    BY <1>a, <1>p
  <2>5. e \in Seq(Places) /\ Range(e) = IF request.precision.paired > 0 THEN Once("paired_sample") ELSE {}
    BY <1>a, <1>c, <1>e, <1>p
  <2>6. f \in Seq(Places) /\ Range(f) = Once("exposure")
    BY <1>a, <1>p
  <2>7. ExposureSteps = a \o b \o c \o d \o e \o f
    BY DEF ExposureSteps
  <2> HIDE DEF a, b, c, d, e, f
  <2>8. a \o b \in Seq(Places) /\ Range(a \o b) = Range(a) \cup Range(b)
    BY <2>1, <2>2, <1>d
  <2>9. a \o b \o c \in Seq(Places) /\ Range(a \o b \o c) = Range(a \o b) \cup Range(c)
    BY <2>3, <2>8, <1>d
  <2>10. a \o b \o c \o d \in Seq(Places) /\ Range(a \o b \o c \o d) = Range(a \o b \o c) \cup Range(d)
    BY <2>4, <2>9, <1>d
  <2>11. /\ a \o b \o c \o d \o e \in Seq(Places)
         /\ Range(a \o b \o c \o d \o e) = Range(a \o b \o c \o d) \cup Range(e)
    BY <2>5, <2>10, <1>d
  <2>12. /\ a \o b \o c \o d \o e \o f \in Seq(Places)
         /\ Range(a \o b \o c \o d \o e \o f) = Range(a \o b \o c \o d \o e) \cup Range(f)
    BY <2>6, <2>11, <1>d
  <2>. QED
    BY <2>1, <2>2, <2>3, <2>4, <2>5, <2>6, <2>7, <2>8, <2>9, <2>10, <2>11, <2>12 DEF ExposurePlaces
<1>2. /\ Alone("greeks") \o PerTrade("trade_greeks") \in Seq(Places)
      /\ Range(Alone("greeks") \o PerTrade("trade_greeks")) = Once("greeks") \cup AllOf("trade_greeks")
  <2>1. Alone("greeks") \in Seq(Places) /\ Range(Alone("greeks")) = Once("greeks")
    BY <1>a, <1>p
  <2>2. PerTrade("trade_greeks") \in Seq(Places) /\ Range(PerTrade("trade_greeks")) = AllOf("trade_greeks")
    BY <1>b, <1>p
  <2>. QED
    BY <2>1, <2>2, <1>d
<1> DEFINE First == IF wants(request, {"exposure"}) THEN ExposureSteps ELSE Alone("base_npv")
           Second == When(wants(request, {"sensitivities"}), Alone("greeks") \o PerTrade("trade_greeks"))
<1>3. First \in Seq(Places) /\ Range(First) = IF wants(request, {"exposure"}) THEN ExposurePlaces ELSE Once("base_npv")
  <2>1. Alone("base_npv") \in Seq(Places) /\ Range(Alone("base_npv")) = Once("base_npv")
    BY <1>a, <1>p
  <2>. QED
    BY <1>1, <2>1
<1>4. First \o Second \in Seq(Places) /\ Range(First \o Second) = PortfolioPlaces
  <2>1. Second \in Seq(Places) /\ Range(Second) = IF wants(request, {"sensitivities"})
                                   THEN Once("greeks") \cup AllOf("trade_greeks") ELSE {}
    BY <1>2, <1>c, <1>e
  <2>. HIDE DEF First, Second
  <2>. QED
    BY <1>3, <2>1, <1>d DEF PortfolioPlaces
<1> DEFINE Third == Alone("scenarios") \o PerTrade("revaluation") \o Alone("risk_figures")
                    \o When(request.precision.paired > 0, Alone("paired_figures"))
<1>5. Third \in Seq(Places) /\ Range(Third) = RiskPlaces
  <2> DEFINE a == Alone("scenarios")
             b == PerTrade("revaluation")
             c == Alone("risk_figures")
             d == When(request.precision.paired > 0, Alone("paired_figures"))
  <2>1. a \in Seq(Places) /\ Range(a) = Once("scenarios")
    BY <1>a, <1>p
  <2>2. b \in Seq(Places) /\ Range(b) = AllOf("revaluation")
    BY <1>b, <1>p
  <2>3. c \in Seq(Places) /\ Range(c) = Once("risk_figures")
    BY <1>a, <1>p
  <2>4. d \in Seq(Places) /\ Range(d) = IF request.precision.paired > 0 THEN Once("paired_figures") ELSE {}
    BY <1>a, <1>c, <1>e, <1>p
  <2>5. Third = a \o b \o c \o d
    OBVIOUS
  <2> HIDE DEF a, b, c, d, Third
  <2>6. a \o b \in Seq(Places) /\ Range(a \o b) = Range(a) \cup Range(b)
    BY <2>1, <2>2, <1>d
  <2>7. a \o b \o c \in Seq(Places) /\ Range(a \o b \o c) = Range(a \o b) \cup Range(c)
    BY <2>3, <2>6, <1>d
  <2>8. a \o b \o c \o d \in Seq(Places) /\ Range(a \o b \o c \o d) = Range(a \o b \o c) \cup Range(d)
    BY <2>4, <2>7, <1>d
  <2>. QED
    BY <2>1, <2>2, <2>3, <2>4, <2>5, <2>6, <2>7, <2>8 DEF RiskPlaces
<1> DEFINE Fourth == Alone("calibration_analytic")
<1>6. Fourth \in Seq(Places) /\ Range(Fourth) = Once("calibration_analytic")
  BY <1>a, <1>p
<1>7. RunSteps = When(wants(request, PORTFOLIO_ANALYTICS), First \o Second)
                 \o When(wants(request, {"market_risk"}), Third)
                 \o When(wants(request, {"calibration"}), Fourth)
  BY DEF RunSteps
<1> HIDE DEF First, Second, Third, Fourth
<1> DEFINE A == When(wants(request, PORTFOLIO_ANALYTICS), First \o Second)
           B == When(wants(request, {"market_risk"}), Third)
           C == When(wants(request, {"calibration"}), Fourth)
<1>8. A \in Seq(Places) /\ Range(A) = IF wants(request, PORTFOLIO_ANALYTICS) THEN PortfolioPlaces ELSE {}
  BY <1>4, <1>c, <1>e
<1>9. B \in Seq(Places) /\ Range(B) = IF wants(request, {"market_risk"}) THEN RiskPlaces ELSE {}
  BY <1>5, <1>c, <1>e
<1>10. C \in Seq(Places) /\ Range(C) = IF wants(request, {"calibration"}) THEN Once("calibration_analytic") ELSE {}
  BY <1>6, <1>c, <1>e
<1>11. RunSteps = A \o B \o C
  BY <1>7
<1> HIDE DEF A, B, C
<1>12. A \o B \in Seq(Places) /\ Range(A \o B) = Range(A) \cup Range(B)
  BY <1>8, <1>9, <1>d
<1>13. (A \o B) \o C \in Seq(Places) /\ Range((A \o B) \o C) = Range(A \o B) \cup Range(C)
  BY <1>10, <1>12, <1>d
<1>. QED
  BY <1>8, <1>9, <1>10, <1>11, <1>12, <1>13 DEF RunPlaces

\* Each of them is of an analytic that was asked for.
LEMMA PlacesFit == ASSUME NEW at \in RunPlaces PROVE Fits(at)
BY DEF RunPlaces, PortfolioPlaces, ExposurePlaces, RiskPlaces, AllOf, Once, At, Fits,
       OfExposure, OfPortfolio, OfGreeks, OfRisk, OfCalibration

---------------------------------------------------------------------------
(* The checks before the run, and what a phase finds and computes in. *)

\* What the worker's check lets a phase compute in; no block of an array holds two scrambles.
Checked(used) ==
  /\ used[1] = "format"  => FormatRuns(used[2], platform)
  /\ used[1] = "product" => ProductRuns(used[2], request.precision.mode, platform)

BlocksIn(array) ==
  array.scaled =>
    LET scramble(path) == path \div (array.paths \div array.replicates)
    IN  \A path \in 0..array.paths - 2 :
          (path + 1) % BLOCK # 0 => scramble(path) = scramble(path + 1)

\* The roles of the run were checked,
LEMMA RolesChecked ==
  ASSUME RunExecutionAccepted(request, platform), NEW roles, roles \subseteq RunRoles(request)
  PROVE  \A used \in Roles(roles) : Checked(used)
<1> SUFFICES ASSUME NEW r \in roles PROVE Checked(<<"format", request.precision.internal[r]>>)
  BY DEF Roles, Formats
<1>1. request.precision.internal[r] \in
        CheckedFormats(request.precision, RunStages(request), Range(request.portfolio), RunRoles(request))
  BY DEF CheckedFormats
<1>. QED
  BY <1>1 DEF Checked, RunExecutionAccepted, ExecutionAccepted

\* The stages the worker checks.
Selected == SelectedStages(request.precision, RunStages(request), Range(request.portfolio))

\* so were the formats of its stages,
LEMMA FormatsOfStages ==
  ASSUME RunExecutionAccepted(request, platform), NEW stage \in Selected, NEW f \in StageFormats(stage)
  PROVE  Checked(<<"format", f>>)
<1>1. f \in CheckedFormats(request.precision, RunStages(request), Range(request.portfolio), RunRoles(request))
  BY DEF CheckedFormats, Selected
<1>. QED
  BY <1>1 DEF Checked, RunExecutionAccepted, ExecutionAccepted

\* the stages with their products,
LEMMA StagesChecked ==
  ASSUME RunExecutionAccepted(request, platform), NEW stages, stages \subseteq Selected
  PROVE  \A used \in ComputedIn(stages) : Checked(used)
<1>1. \A stage \in stages : \A f \in StageFormats(stage) : Checked(<<"format", f>>)
  BY FormatsOfStages
<1>2. \A stage \in stages : Checked(<<"product", stage>>)
  BY DEF Checked, RunExecutionAccepted, ExecutionAccepted, Selected
<1>. QED
  BY <1>1, <1>2 DEF ComputedIn, Formats

\* and the paired sample's float64.
LEMMA PairedChecked ==
  ASSUME RunExecutionAccepted(request, platform), request.precision.paired > 0
  PROVE  \A used \in ComputedIn({Throughout("float64")}) : Checked(used)
<1>1. "float64" \in CheckedFormats(request.precision, RunStages(request), Range(request.portfolio), RunRoles(request))
  BY DEF CheckedFormats
<1>2. platform # "tpu"
  BY <1>1 DEF RunExecutionAccepted, ExecutionAccepted, FormatRuns
<1>3. Checked(<<"format", "float64">>)
  BY <1>2 DEF Checked, FormatRuns
<1>4. ProductRuns(Throughout("float64"), request.precision.mode, platform)
  BY <1>2 DEF ProductRuns, Native, below_float32, Throughout, Stage, FORMATS, Format
<1>5. Checked(<<"product", Throughout("float64")>>)
  BY <1>4 DEF Checked
<1>6. StageFormats(Throughout("float64")) = {"float64"}
  BY DEF StageFormats, Throughout, Stage
<1>. QED
  BY <1>3, <1>5, <1>6 DEF ComputedIn, Formats

\* A stage that an analytic computes in is among those checked.
LEMMA StagesSelected ==
  /\ wants(request, {"exposure"}) =>
             /\ request.precision.stages["simulation"] \in Selected
             /\ request.precision.stages["market"] \in Selected
  /\ wants(request, {"market_risk"}) => request.precision.stages["simulation"] \in Selected
  /\ wants(request, {"exposure"}) \/ wants(request, {"market_risk"}) =>
             \A booked \in Range(request.portfolio) : precision_for(request.precision, booked) \in Selected
BY DEF Selected, SelectedStages, RunStages, STAGES, PricingStages

---------------------------------------------------------------------------
(* Blocks and replicates. *)

\* Division leaves a rest smaller than the divisor,
LEMMA DivisionLeaves ==
  ASSUME NEW w \in Nat \ {0}, NEW a \in Int
  PROVE  a \div w \in Int /\ a % w \in 0 .. w - 1 /\ a = (w * (a \div w)) + (a % w)
OBVIOUS

\* and is told by it:
LEMMA DivisionIs ==
  ASSUME NEW w \in Nat \ {0}, NEW d \in Int, NEW m \in 0 .. w - 1
  PROVE  (w * d + m) \div w = d
<1> DEFINE a == w * d + m
           q == a \div w
           r == a % w
<1>1. a \in Int /\ q \in Int /\ r \in 0 .. w - 1 /\ a = w * q + r
  OBVIOUS
<1> HIDE DEF a, q, r
<1>2. w * d + m = w * q + r
  BY <1>1 DEF a
<1>3. q < d + 1
  <2>1. SUFFICES ASSUME q >= d + 1 PROVE FALSE
    BY <1>1
  <2>2. w * q >= w * (d + 1)
    BY <2>1, <1>1
  <2>3. w * (d + 1) = w * d + w
    OBVIOUS
  <2>. QED
    BY <1>1, <1>2, <2>2, <2>3
<1>4. q > d - 1
  <2>1. SUFFICES ASSUME q <= d - 1 PROVE FALSE
    BY <1>1
  <2>2. w * q <= w * (d - 1)
    BY <2>1, <1>1
  <2>3. w * (d - 1) = w * d - w
    OBVIOUS
  <2>. QED
    BY <1>1, <1>2, <2>2, <2>3
<1>. QED
  BY <1>1, <1>3, <1>4 DEF q, a

\* a multiple divides to its factor.
LEMMA MultipleDivided ==
  ASSUME NEW w \in Nat \ {0}, NEW j \in Int
  PROVE  (w * j) \div w = j
<1>1. w * j = w * j + 0 /\ 0 \in 0 .. w - 1
  OBVIOUS
<1>. QED
  BY <1>1, DivisionIs

\* A scramble of whole blocks ends where a block does.
LEMMA WholeBlocks ==
  ASSUME NEW w \in Nat \ {0}, w % BLOCK = 0, NEW path \in Nat, (path + 1) % BLOCK # 0
  PROVE  path \div w = (path + 1) \div w
<1> DEFINE d == (path + 1) \div w
           m == (path + 1) % w
           k == w \div BLOCK
<1>1. d \in Int /\ m \in 0 .. w - 1 /\ path + 1 = w * d + m
  OBVIOUS
<1>2. BLOCK \in Nat \ {0} /\ k \in Int /\ w = BLOCK * k
  BY BlockAssumption
<1> HIDE DEF d, m, k
<1>3. m # 0
  <2>1. SUFFICES ASSUME m = 0 PROVE FALSE
    OBVIOUS
  <2>2. path + 1 = (BLOCK * k) * d
    BY <2>1, <1>1, <1>2
  <2>3. path + 1 = BLOCK * (k * d) + 0
    BY <2>2, <1>1, <1>2
  <2>4. (path + 1) \div BLOCK = k * d
    <3>1. k * d \in Int
      BY <1>1, <1>2
    <3>2. BLOCK \in Nat \ {0}
      BY <1>2
    <3>3. path + 1 = BLOCK * (k * d)
      BY <2>2, <1>1, <1>2
    <3>4. (BLOCK * (k * d)) \div BLOCK = k * d
      BY <3>1, <3>2, MultipleDivided
    <3>. QED
      BY <3>3, <3>4
  <2>5. path + 1 = (BLOCK * ((path + 1) \div BLOCK)) + ((path + 1) % BLOCK)
    BY BlockAssumption, DivisionLeaves
  <2>. QED
    BY <2>3, <2>4, <2>5, <1>1, <1>2
<1>4. path = w * d + (m - 1) /\ m - 1 \in 0 .. w - 1
  BY <1>1, <1>3
<1>5. path \div w = d
  BY <1>4, <1>1, DivisionIs
<1>. QED
  BY <1>5 DEF d

\* An array of replicates that are whole blocks, or of one, has no block of two scrambles.
LEMMA ArrayBlocks ==
  ASSUME NEW width \in Nat \ {0}, NEW replicates \in Nat \ {0}, NEW scaled,
         scaled => replicates = 1 \/ width % BLOCK = 0
  PROVE  BlocksIn(Array(replicates * width, replicates, scaled))
<1>1. (replicates * width) \div replicates = width
  <2>1. replicates * width = replicates * width + 0 /\ 0 \in 0 .. replicates - 1
    OBVIOUS
  <2>. QED
    BY <2>1, DivisionIs
<1>2. SUFFICES ASSUME scaled, NEW path \in 0 .. replicates * width - 2, (path + 1) % BLOCK # 0
               PROVE  path \div width = (path + 1) \div width
  BY <1>1 DEF BlocksIn, Array
<1>3. replicates * width \in Nat /\ path \in Nat
  OBVIOUS
<1>4. CASE replicates = 1
  <2>1. path = width * 0 + path /\ path \in 0 .. width - 1
    BY <1>2, <1>4
  <2>2. path + 1 = width * 0 + (path + 1) /\ path + 1 \in 0 .. width - 1
    BY <1>2, <1>4
  <2>3. path \div width = 0
    BY <2>1, DivisionIs
  <2>4. (path + 1) \div width = 0
    BY <2>2, DivisionIs
  <2>. QED
    BY <2>3, <2>4
<1>5. CASE width % BLOCK = 0
  BY <1>2, <1>3, <1>5, WholeBlocks
<1>. QED
  BY <1>2, <1>4, <1>5

\* A sample that was accepted is such an array,
LEMMA SampledBlocks ==
  ASSUME NEW p, NEW paths \in Int, NEW replicates \in Int, NEW scaled,
         SamplingAccepted(p, paths, replicates),
         scaled => p.paired > 0 \/ (p.storage_scaling # "none" /\ SomeScaled(p))
  PROVE  BlocksIn(Array(paths, replicates, scaled))
<1>1. replicates \in Nat \ {0} /\ paths >= replicates /\ paths % replicates = 0
  BY DEF SamplingAccepted, ReplicatesAccepted
<1> DEFINE width == paths \div replicates
<1>2. paths = replicates * width /\ width \in Nat
  BY <1>1
<1>3. width # 0
  BY <1>1, <1>2
<1>4. scaled => replicates = 1 \/ width % BLOCK = 0
  BY <1>1 DEF SamplingAccepted
<1> HIDE DEF width
<1>. QED
  BY <1>1, <1>2, <1>3, <1>4, ArrayBlocks

\* and so are its paired paths, which are whole blocks or a whole replicate.
LEMMA PairedBlocks ==
  ASSUME NEW p, NEW paths \in Int, NEW replicates \in Int,
         SamplingAccepted(p, paths, replicates), p.paired \in 1 .. 4
  PROVE  BlocksIn(Array(paired_count(paths, p.paired, replicates), replicates, TRUE))
<1>1. replicates \in Nat \ {0} /\ paths >= replicates /\ paths % replicates = 0
  BY DEF SamplingAccepted, ReplicatesAccepted
<1> DEFINE width == paths \div replicates
           few == paired_paths(width, p.paired)
<1>2. paths = replicates * width /\ width \in Nat
  BY <1>1
<1>3. width # 0
  BY <1>1, <1>2
<1>4. replicates = 1 \/ width % BLOCK = 0
  BY <1>1 DEF SamplingAccepted
<1> HIDE DEF width
<1> DEFINE n == CeilDiv(p.paired * width, 4 * BLOCK)
<1>5. n \in Nat \ {0}
  <2> DEFINE x == p.paired * width
             b == 4 * BLOCK
  <2>1. x \in Nat \ {0} /\ b \in Nat \ {0}
    BY <1>2, <1>3, BlockAssumption
  <2>2. n = (x + b - 1) \div b
    BY DEF CeilDiv
  <2> HIDE DEF x, b, n
  <2>3. /\ (x + b - 1) \div b \in Int /\ (x + b - 1) % b \in 0 .. b - 1
        /\ x + b - 1 = (b * ((x + b - 1) \div b)) + ((x + b - 1) % b)
    <3>1. x + b - 1 \in Int
      BY <2>1
    <3>. QED
      BY <2>1, <3>1, DivisionLeaves
  <2>4. b * n > 0
    BY <2>1, <2>2, <2>3
  <2>. QED
    BY <2>1, <2>2, <2>3, <2>4
<1>6. few = (IF BLOCK * n < width THEN BLOCK * n ELSE width)
  BY DEF paired_paths
<1> HIDE DEF n, few
<1>7. few \in Nat \ {0}
  BY <1>2, <1>3, <1>5, <1>6, BlockAssumption
<1>8. replicates = 1 \/ few % BLOCK = 0
  <2>1. (BLOCK * n) % BLOCK = 0
    <3>1. BLOCK * n = BLOCK * n + 0 /\ 0 \in 0 .. BLOCK - 1
      BY <1>5, BlockAssumption
    <3>2. (BLOCK * n) \div BLOCK = n
      BY <3>1, <1>5, BlockAssumption, DivisionIs
    <3>3. BLOCK * n = (BLOCK * ((BLOCK * n) \div BLOCK)) + ((BLOCK * n) % BLOCK)
      <4>1. BLOCK * n \in Int
        BY <1>5, BlockAssumption
      <4>. QED
        BY <4>1, BlockAssumption, DivisionLeaves
    <3>. QED
      BY <3>2, <3>3, <1>5, BlockAssumption
  <2>. QED
    BY <2>1, <1>4, <1>6
<1>9. paired_count(paths, p.paired, replicates) = replicates * few
  BY DEF paired_count, few, width
<1>. QED
  BY <1>1, <1>7, <1>8, <1>9, ArrayBlocks

\* Every stage a phase computes in is one of the policy's.
LEMMA StagesInPolicy ==
  ASSUME request \in Requests
  PROVE  /\ \A s \in STAGES : request.precision.stages[s] \in StagesOf(request.precision)
         /\ \A booked : precision_for(request.precision, booked) \in StagesOf(request.precision)
<1>1. DOMAIN request.precision.stages = STAGES
  BY RequestsAssumption
<1>2. \A s \in STAGES : request.precision.stages[s] \in Range(request.precision.stages)
  BY <1>1 DEF Range
<1>3. request.precision.stages["pricing"] \in Range(request.precision.stages)
  BY <1>2 DEF STAGES
<1>4. ASSUME NEW booked PROVE precision_for(request.precision, booked) \in StagesOf(request.precision)
  BY <1>3 DEF precision_for, StagesOf, Range
<1>. QED
  BY <1>2, <1>4 DEF StagesOf

\* A scaled stage is one the policy scales.
LEMMA ScaledStages ==
  ASSUME NEW stage \in StagesOf(request.precision), Scaled(stage)
  PROVE  request.precision.storage_scaling # "none" /\ SomeScaled(request.precision)
BY DEF Scaled, SomeScaled

---------------------------------------------------------------------------
(* What was accepted. *)

\* A request that is queued.
RequestAccepted == Constructed(request) /\ validate_run(request)

\* The paired share is of quarters.
LEMMA PairedShare == ASSUME RequestAccepted PROVE request.precision.paired \in 0 .. 4
BY DEF RequestAccepted, Constructed, PolicyAccepted

\* How the analytics' groups relate.
LEMMA Wanted ==
  ASSUME RequestAccepted
  PROVE  /\ wants(request, {"exposure"}) => wants(request, PORTFOLIO_ANALYTICS) /\ wants(request, TRADE_ANALYTICS)
         /\ wants(request, {"sensitivities"}) => wants(request, PORTFOLIO_ANALYTICS)
         /\ wants(request, {"market_risk"}) => wants(request, TRADE_ANALYTICS)
         /\ wants(request, PORTFOLIO_ANALYTICS) => wants(request, TRADE_ANALYTICS)
         /\ wants(request, TRADE_ANALYTICS) =>
              wants(request, PORTFOLIO_ANALYTICS) \/ wants(request, {"market_risk"})
         /\ wants(request, {"exposure", "calibration"}) =>
              wants(request, {"exposure"}) \/ wants(request, {"calibration"})
         /\ wants(request, {"exposure", "market_risk"}) =>
              wants(request, {"exposure"}) \/ wants(request, {"market_risk"})
BY DEF wants, PORTFOLIO_ANALYTICS, TRADE_ANALYTICS

\* A run that neither simulates nor revalues has its profile's precision.
LEMMA ProfileKept ==
  ASSUME RequestAccepted, ~wants(request, {"exposure", "market_risk"})
  PROVE  /\ request.precision.stages = [s \in STAGES |-> Throughout(request.precision.profile)]
         /\ request.precision.by_product = NoOverride /\ request.precision.by_trade = NoOverride
         /\ request.precision.paired = 0
<1> DEFINE p == request.precision
           q == Profile(p.profile)
<1>1. AdjustedPrecision(p) = q
  BY DEF RequestAccepted, validate_run, SectionsAccepted
<1>2. DOMAIN AdjustedPrecision(p) = DOMAIN p
  BY DEF AdjustedPrecision
<1>3. {"stages", "by_product", "by_trade", "paired"} \subseteq DOMAIN q
  BY DEF Profile
<1>4. {"stages", "by_product", "by_trade", "paired"} \subseteq DOMAIN p
  BY <1>1, <1>2, <1>3
<1>5. /\ AdjustedPrecision(p).stages = p.stages
      /\ AdjustedPrecision(p).by_product = p.by_product
      /\ AdjustedPrecision(p).by_trade = p.by_trade
      /\ AdjustedPrecision(p).paired = p.paired
  BY <1>4 DEF AdjustedPrecision
<1>6. /\ q.stages = [s \in STAGES |-> Throughout(p.profile)]
      /\ q.by_product = NoOverride /\ q.by_trade = NoOverride /\ q.paired = 0
  BY DEF Profile
<1>. QED
  BY <1>1, <1>5, <1>6

\* The phases of each analytic that is asked for are among the places.
LEMMA PhasesOfRun ==
  /\ wants(request, {"exposure"}) /\ wants(request, PORTFOLIO_ANALYTICS) =>
       /\ {At("calibration", 0), At("simulation", 0), At("today", 0), At("exposure", 0)} \subseteq RunPlaces
       /\ \A i \in DOMAIN request.portfolio : At("pricing", i) \in RunPlaces
       /\ request.precision.paired > 0 => At("paired_sample", 0) \in RunPlaces
  /\ ~wants(request, {"exposure"}) /\ wants(request, PORTFOLIO_ANALYTICS) => At("base_npv", 0) \in RunPlaces
  /\ wants(request, {"sensitivities"}) /\ wants(request, PORTFOLIO_ANALYTICS) => At("greeks", 0) \in RunPlaces
  /\ wants(request, {"market_risk"}) =>
       /\ At("scenarios", 0) \in RunPlaces
       /\ \A i \in DOMAIN request.portfolio : At("revaluation", i) \in RunPlaces
       /\ request.precision.paired > 0 => At("paired_figures", 0) \in RunPlaces
  /\ wants(request, {"calibration"}) => At("calibration_analytic", 0) \in RunPlaces
<1> USE DEF AllOf, Once
<1>1. wants(request, PORTFOLIO_ANALYTICS) => PortfolioPlaces \subseteq RunPlaces
  BY DEF RunPlaces
<1>2. wants(request, {"exposure"}) => ExposurePlaces \subseteq PortfolioPlaces
  BY DEF PortfolioPlaces
<1>3. /\ {At("calibration", 0), At("simulation", 0), At("today", 0), At("exposure", 0)} \subseteq ExposurePlaces
      /\ \A i \in DOMAIN request.portfolio : At("pricing", i) \in ExposurePlaces
      /\ request.precision.paired > 0 => At("paired_sample", 0) \in ExposurePlaces
  BY DEF ExposurePlaces
<1>4. /\ ~wants(request, {"exposure"}) => At("base_npv", 0) \in PortfolioPlaces
      /\ wants(request, {"sensitivities"}) => At("greeks", 0) \in PortfolioPlaces
  BY DEF PortfolioPlaces
<1>5. wants(request, {"market_risk"}) => RiskPlaces \subseteq RunPlaces
  BY DEF RunPlaces
<1>6. /\ At("scenarios", 0) \in RiskPlaces
      /\ \A i \in DOMAIN request.portfolio : At("revaluation", i) \in RiskPlaces
      /\ request.precision.paired > 0 => At("paired_figures", 0) \in RiskPlaces
  BY DEF RiskPlaces
<1>7. wants(request, {"calibration"}) => At("calibration_analytic", 0) \in RunPlaces
  BY DEF RunPlaces
<1>. QED
  BY <1>1, <1>2, <1>3, <1>4, <1>5, <1>6, <1>7

\* What the phases of a run take.
Settled == TakenBy(RunPlaces)

\* A phase of the run takes its part of it.
LEMMA TakenAt ==
  ASSUME NEW phase, NEW i, At(phase, i) \in RunPlaces PROVE Takes(phase) \subseteq Settled
<1>1. At(phase, i).phase = phase
  BY DEF At
<1>. QED
  BY <1>1 DEF Settled, TakenBy

\* The part of each phase.
LEMMA TakesOf ==
  /\ Takes("calibration") = CalibrationSettings(calibrated(request.models)) \cup IrSettings(DOMAIN request.models.ir)
         \cup Models({"fx", "equities", "correlations"}) \cup Section({"models", "base_currency"})
  /\ Takes("simulation") = Section({"simulation", "precision"}) \cup {<<"stage", "simulation">>, <<"stage", "market">>}
  /\ Takes("pricing") = Section({"pricing", "portfolio"}) \cup {<<"stage", "pricing">>}
  /\ Takes("revaluation") = Section({"pricing", "portfolio"}) \cup {<<"stage", "pricing">>}
  /\ Takes("today") = Section({"pricing", "portfolio", "base_currency"})
  /\ Takes("base_npv") = Section({"pricing", "portfolio", "base_currency"})
  /\ Takes("paired_sample") = {<<"stage", "paired">>}
  /\ Takes("paired_figures") = {<<"stage", "paired">>}
  /\ Takes("exposure") = Section({"exposure", "include_npv_cube"})
  /\ Takes("greeks") = Section({"sensitivity"})
  /\ Takes("trade_greeks") = Section({"pricing", "portfolio"})
  /\ Takes("scenarios") = Section({"market_risk", "base_currency", "precision"}) \cup {<<"stage", "simulation">>}
  /\ Takes("calibration_analytic") = Section({"models"}) \cup CalibrationSettings(calibrated(request.models))
  /\ Takes("risk_figures") = {}
BY DEF Takes

\* What the phases of each analytic take is taken.
LEMMA TakenInTurn ==
  ASSUME RequestAccepted
  PROVE  /\ wants(request, {"exposure"}) =>
              Takes("calibration") \cup Takes("simulation") \cup Takes("today") \cup Takes("exposure") \subseteq Settled
         /\ wants(request, {"exposure"}) /\ DOMAIN request.portfolio # {} => Takes("pricing") \subseteq Settled
         /\ ~wants(request, {"exposure"}) /\ wants(request, PORTFOLIO_ANALYTICS) => Takes("base_npv") \subseteq Settled
         /\ wants(request, {"sensitivities"}) => Takes("greeks") \subseteq Settled
         /\ wants(request, {"market_risk"}) => Takes("scenarios") \subseteq Settled
         /\ wants(request, {"market_risk"}) /\ DOMAIN request.portfolio # {} => Takes("revaluation") \subseteq Settled
         /\ wants(request, {"calibration"}) => Takes("calibration_analytic") \subseteq Settled
         /\ (wants(request, {"exposure"}) \/ wants(request, {"market_risk"})) /\ request.precision.paired > 0 =>
              <<"stage", "paired">> \in Settled
<1>1. wants(request, {"exposure"}) => wants(request, PORTFOLIO_ANALYTICS)
  BY Wanted
<1>2. wants(request, {"sensitivities"}) => wants(request, PORTFOLIO_ANALYTICS)
  BY Wanted
<1>3. ASSUME wants(request, {"exposure"})
      PROVE  Takes("calibration") \cup Takes("simulation") \cup Takes("today") \cup Takes("exposure") \subseteq Settled
  <2>1. /\ At("calibration", 0) \in RunPlaces /\ At("simulation", 0) \in RunPlaces
        /\ At("today", 0) \in RunPlaces /\ At("exposure", 0) \in RunPlaces
    BY <1>1, <1>3, PhasesOfRun
  <2>2. /\ Takes("calibration") \subseteq Settled /\ Takes("simulation") \subseteq Settled
        /\ Takes("today") \subseteq Settled /\ Takes("exposure") \subseteq Settled
    BY <2>1, TakenAt
  <2>. QED
    BY <2>2
<1>4. ASSUME wants(request, {"exposure"}), NEW i \in DOMAIN request.portfolio PROVE Takes("pricing") \subseteq Settled
  <2>1. At("pricing", i) \in RunPlaces
    BY <1>1, <1>4, PhasesOfRun
  <2>. QED
    BY <2>1, TakenAt
<1>5. ASSUME ~wants(request, {"exposure"}), wants(request, PORTFOLIO_ANALYTICS) PROVE Takes("base_npv") \subseteq Settled
  BY <1>5, PhasesOfRun, TakenAt
<1>6. ASSUME wants(request, {"sensitivities"}) PROVE Takes("greeks") \subseteq Settled
  BY <1>2, <1>6, PhasesOfRun, TakenAt
<1>7. ASSUME wants(request, {"market_risk"}) PROVE Takes("scenarios") \subseteq Settled
  BY <1>7, PhasesOfRun, TakenAt
<1>8. ASSUME wants(request, {"market_risk"}), NEW i \in DOMAIN request.portfolio PROVE Takes("revaluation") \subseteq Settled
  <2>1. At("revaluation", i) \in RunPlaces
    BY <1>8, PhasesOfRun
  <2>. QED
    BY <2>1, TakenAt
<1>9. ASSUME wants(request, {"calibration"}) PROVE Takes("calibration_analytic") \subseteq Settled
  BY <1>9, PhasesOfRun, TakenAt
<1>10. ASSUME wants(request, {"exposure"}) \/ wants(request, {"market_risk"}), request.precision.paired > 0
       PROVE  <<"stage", "paired">> \in Settled
  <2>1. At("paired_sample", 0) \in RunPlaces \/ At("paired_figures", 0) \in RunPlaces
    BY <1>1, <1>10, PhasesOfRun
  <2>2. Takes("paired_sample") \subseteq Settled \/ Takes("paired_figures") \subseteq Settled
    BY <2>1, TakenAt
  <2>. QED
    BY <2>2, TakesOf
<1>. QED
  BY <1>3, <1>4, <1>5, <1>6, <1>7, <1>8, <1>9, <1>10

\* All that was asked for is taken by some phase of the run.
LEMMA AskedIsTaken ==
  ASSUME request \in Requests, RequestAccepted
  PROVE  AskedFor \subseteq Settled
<1> DEFINE p == request.precision
           own == Throughout(p.profile)
           models == request.models
<1> USE DEF Section
<1>a. SectionsAccepted(request)
  BY DEF RequestAccepted, validate_run
<1>b. wants(request, {"market_risk"}) => DOMAIN request.portfolio # {}
  <2>1. wants(request, {"market_risk"}) => request.portfolio # <<>>
    BY DEF RequestAccepted, validate_run, MarketRiskAccepted
  <2>. QED
    BY <2>1, TradeTyped
<1>c. request.portfolio # <<>> => DOMAIN request.portfolio # {}
  BY TradeTyped
(* What every run with trades takes. *)
<1>d. wants(request, TRADE_ANALYTICS) =>
        {<<"section", "pricing">>, <<"section", "portfolio">>, <<"section", "base_currency">>} \subseteq Settled
  <2>1. CASE wants(request, {"exposure"})
    BY <2>1, TakenInTurn, TakesOf
  <2>2. CASE ~wants(request, {"exposure"}) /\ wants(request, PORTFOLIO_ANALYTICS)
    BY <2>2, TakenInTurn, TakesOf
  <2>3. CASE wants(request, {"market_risk"})
    BY <2>3, <1>b, TakenInTurn, TakesOf
  <2>. QED
    BY <2>1, <2>2, <2>3, Wanted
<1>e. ASSUME NEW n \in GivenSections(request) PROVE <<"section", n>> \in Settled
  <2>1. n \in DOMAIN Readers /\ wants(request, Readers[n])
    BY <1>a, <1>e DEF SectionsAccepted, GivenSections
  <2>2. CASE n = "base_currency"
    BY <2>1, <2>2, <1>d DEF Readers
  <2>3. CASE n = "models"
    <3>1. wants(request, {"exposure"}) \/ wants(request, {"calibration"})
      BY <2>1, <2>3, Wanted DEF Readers
    <3>. QED
      BY <2>3, <3>1, TakenInTurn, TakesOf
  <2>4. CASE n = "simulation"
    <3>1. wants(request, {"exposure"})
      BY <2>1, <2>4 DEF Readers
    <3>. QED
      BY <2>4, <3>1, TakenInTurn, TakesOf
  <2>5. CASE n = "pricing"
    BY <2>1, <2>5, <1>d DEF Readers
  <2>6. CASE n = "sensitivity"
    <3>1. wants(request, {"sensitivities"})
      BY <2>1, <2>6 DEF Readers
    <3>. QED
      BY <2>6, <3>1, TakenInTurn, TakesOf
  <2>7. CASE n = "exposure"
    <3>1. wants(request, {"exposure"})
      BY <2>1, <2>7 DEF Readers
    <3>. QED
      BY <2>7, <3>1, TakenInTurn, TakesOf
  <2>8. CASE n = "market_risk"
    <3>1. wants(request, {"market_risk"})
      BY <2>1, <2>8 DEF Readers
    <3>. QED
      BY <2>8, <3>1, TakenInTurn, TakesOf
  <2>. QED
    BY <2>1, <2>2, <2>3, <2>4, <2>5, <2>6, <2>7, <2>8 DEF Readers
<1>f. request.portfolio # <<>> => <<"section", "portfolio">> \in Settled
  BY <1>a, <1>d DEF SectionsAccepted
<1>g. ~request.include_npv_cube => <<"section", "include_npv_cube">> \in Settled
  <2>1. ~request.include_npv_cube => wants(request, {"exposure"})
    BY <1>a DEF SectionsAccepted
  <2>. QED
    BY <2>1, TakenInTurn, TakesOf
<1>h. ASSUME models.given
      PROVE  /\ IrSettings(DOMAIN models.ir) \subseteq Settled
             /\ Models({n \in {"fx", "equities", "correlations"} : models[n] # {}}) \subseteq Settled
             /\ Models({n \in {"tolerance"} : models.tolerance = "set" /\ calibrated(models) # {}}) \subseteq Settled
  <2>1. "models" \in GivenSections(request)
    BY <1>h DEF GivenSections, Readers
  <2>2. wants(request, {"exposure", "calibration"})
    BY <2>1, <1>a DEF SectionsAccepted, Readers
  <2>3. CalibrationSettings(calibrated(models)) \subseteq Settled
    <3>1. wants(request, {"exposure"}) \/ wants(request, {"calibration"})
      BY <2>2, Wanted
    <3>. QED
      BY <3>1, TakenInTurn, TakesOf
  <2>4. Models({n \in {"tolerance"} : models.tolerance = "set" /\ calibrated(models) # {}}) \subseteq Settled
    BY <2>3 DEF CalibrationSettings, Models
  <2>5. CASE wants(request, {"exposure"})
    <3>1. IrSettings(DOMAIN models.ir) \cup Models({"fx", "equities", "correlations"}) \subseteq Settled
      BY <2>5, TakenInTurn, TakesOf
    <3>. QED
      BY <3>1, <2>4 DEF Models
  <2>6. CASE ~wants(request, {"exposure"})
    <3>1. ModelsForCalibrationAccepted(models)
      BY <1>a, <1>h, <2>6 DEF SectionsAccepted
    <3>2. IrSettings(DOMAIN models.ir) \subseteq Settled
      BY <3>1, <2>3 DEF ModelsForCalibrationAccepted, CalibrationSettings
    <3>3. models.fx = {} /\ models.equities = {} /\ models.correlations = {}
      BY <3>1 DEF ModelsForCalibrationAccepted
    <3>4. {n \in {"fx", "equities", "correlations"} : models[n] # {}} = {}
      BY <3>3
    <3>. QED
      BY <3>2, <3>4, <2>4 DEF Models
  <2>. QED
    BY <2>5, <2>6
<1> DEFINE Sections == Section(GivenSections(request))
                      \cup Section({n \in {"portfolio"} : request.portfolio # <<>>})
                      \cup Section({n \in {"include_npv_cube"} : ~request.include_npv_cube})
           ModelSettings ==
             IF models.given
             THEN IrSettings(DOMAIN models.ir) \cup Models({n \in {"fx", "equities", "correlations"} : models[n] # {}})
                  \cup Models({n \in {"tolerance"} : models.tolerance = "set" /\ calibrated(models) # {}})
             ELSE {}
           MarketStages == {<<"stage", s>> : s \in {t \in {"simulation", "market"} : p.stages[t] # own}}
           PricingStage ==
             {<<"stage", s>> : s \in {t \in {"pricing"} : request.portfolio # <<>> /\ PricingStages(p, Range(request.portfolio)) # {own}}}
           PairedStage == {<<"stage", s>> : s \in {t \in {"paired"} : p.paired > 0}}
<1>k. Sections \subseteq Settled
  BY <1>e, <1>f, <1>g
<1>l. ModelSettings \subseteq Settled
  BY <1>h
<1>m. AskedFor = Sections \cup ModelSettings \cup MarketStages \cup PricingStage \cup PairedStage
  BY DEF AskedFor
<1> HIDE DEF Sections, ModelSettings, MarketStages, PricingStage, PairedStage
(* The precision: a run that neither simulates nor revalues has it at its profile's defaults. *)
<1>i. CASE wants(request, {"exposure"}) \/ wants(request, {"market_risk"})
  <2>1. <<"stage", "simulation">> \in Settled
    BY <1>i, TakenInTurn, TakesOf
  <2>2. p.stages["market"] # own => <<"stage", "market">> \in Settled
    <3>1. CASE wants(request, {"exposure"})
      BY <3>1, TakenInTurn, TakesOf
    <3>2. CASE wants(request, {"market_risk"})
      BY <3>2, <1>a DEF SectionsAccepted, MarketRiskPrecisionAccepted
    <3>. QED
      BY <1>i, <3>1, <3>2
  <2>3. request.portfolio # <<>> => <<"stage", "pricing">> \in Settled
    BY <1>i, <1>c, TakenInTurn, TakesOf
  <2>4. p.paired > 0 => <<"stage", "paired">> \in Settled
    BY <1>i, TakenInTurn
  <2>5. MarketStages \subseteq Settled
    BY <2>1, <2>2 DEF MarketStages
  <2>6. PricingStage \subseteq Settled
    BY <2>3 DEF PricingStage
  <2>7. PairedStage \subseteq Settled
    BY <2>4 DEF PairedStage
  <2>. QED
    BY <2>5, <2>6, <2>7, <1>k, <1>l, <1>m
<1>j. CASE ~(wants(request, {"exposure"}) \/ wants(request, {"market_risk"}))
  <2>1. ~wants(request, {"exposure", "market_risk"})
    BY <1>j, Wanted
  <2>2. /\ p.stages = [s \in STAGES |-> own]
        /\ p.by_product = NoOverride /\ p.by_trade = NoOverride /\ p.paired = 0
    BY <2>1, ProfileKept
  <2>3. p.stages["simulation"] = own /\ p.stages["market"] = own /\ p.stages["pricing"] = own
    BY <2>2 DEF STAGES
  <2>4. \A booked : precision_for(p, booked) = own
    BY <2>2, <2>3 DEF precision_for, NoOverride
  <2>5. request.portfolio # <<>> => PricingStages(p, Range(request.portfolio)) = {own}
    <3>1. request.portfolio # <<>> => Range(request.portfolio) # {}
      BY <1>c DEF Range
    <3>. QED
      BY <3>1, <2>4 DEF PricingStages
  <2>6. MarketStages = {} /\ PairedStage = {}
    BY <2>2, <2>3 DEF MarketStages, PairedStage
  <2>7. PricingStage = {}
    BY <2>5 DEF PricingStage
  <2>. QED
    BY <2>6, <2>7, <1>k, <1>l, <1>m
<1>. QED
  BY <1>i, <1>j

---------------------------------------------------------------------------
(* What no phase fails for. *)

\* What a trade reads of the market was found when the request was accepted:
LEMMA TradesFound ==
  ASSUME RequestAccepted, wants(request, TRADE_ANALYTICS), NEW booked \in Range(request.portfolio)
  PROVE  /\ \A need \in TradeItems(booked, request.pricing) : Found(request.market, need)
         /\ \A need \in curve_keys(booked) : Found(request.market, need)
         /\ VolsMissing(booked) = {}
         /\ \A need \in reporting_fx_spots(request) : Found(request.market, need)
<1>1. TradesAccepted(request) /\ ReportingAccepted(request)
  BY Wanted DEF RequestAccepted, validate_run, PortfolioAccepted, MarketRiskAccepted
<1>2. \A need \in TradeItems(booked, request.pricing) : Found(request.market, need)
  BY <1>1 DEF TradesAccepted
<1>3. curve_keys(booked) \subseteq TradeItems(booked, request.pricing)
  BY DEF TradeItems
<1>4. reads_swaption_vols(booked, request.pricing) => <<"vols", booked.currency>> \in TradeItems(booked, request.pricing)
  BY DEF TradeItems
<1>5. VolsMissing(booked) = {}
  BY <1>2, <1>4 DEF VolsMissing, Unfound
<1>. QED
  BY <1>1, <1>2, <1>3, <1>5 DEF ReportingAccepted

\* of the paths,
LEMMA ColumnFound ==
  ASSUME RequestAccepted, wants(request, {"exposure"}), NEW booked \in Range(request.portfolio)
  PROVE  ColumnMissing(booked) = {}
<1>1. /\ \A need \in curve_keys(booked) : Found(request.market, need)
      /\ VolsMissing(booked) = {}
  BY TradesFound, Wanted
<1>2. booked.currency \in DOMAIN request.models.ir
  BY Wanted DEF RequestAccepted, validate_run, PortfolioAccepted
<1>3. \A need \in curve_keys(booked) : need[2] = booked.currency
  BY DEF curve_keys
<1>4. OffThePaths(booked) = {}
  BY <1>1, <1>2, <1>3 DEF OffThePaths, Foreign
<1>. QED
  BY <1>1, <1>4 DEF ColumnMissing

\* of today's market,
LEMMA TodayFound ==
  ASSUME RequestAccepted, wants(request, PORTFOLIO_ANALYTICS)
  PROVE  TodayMissing = {}
<1>1. wants(request, TRADE_ANALYTICS)
  BY Wanted
<1>2. \A booked \in Range(request.portfolio) : ValueMissing(booked) = {}
  BY <1>1, TradesFound DEF ValueMissing, Unfound
<1>3. ReportingAccepted(request)
  BY DEF RequestAccepted, validate_run, PortfolioAccepted
<1>4. Unfound("trade", reporting_fx_spots(request)) = {}
  BY <1>3 DEF ReportingAccepted, Unfound
<1>. QED
  BY <1>2, <1>4 DEF TodayMissing

\* of a bumped market,
LEMMA TradeGreeksFound ==
  ASSUME RequestAccepted, wants(request, {"sensitivities"}), NEW booked \in Range(request.portfolio)
  PROVE  Unfound("trade", {<<"fx", booked.currency, request.base_currency>>} \cup TradeItems(booked, request.pricing)) = {}
<1>1. wants(request, TRADE_ANALYTICS)
  BY Wanted
<1>2. <<"fx", booked.currency, request.base_currency>> \in reporting_fx_spots(request)
  BY DEF reporting_fx_spots
<1>. QED
  BY <1>1, <1>2, TradesFound DEF Unfound

\* of the reporting currency,
LEMMA ScenariosFound ==
  ASSUME RequestAccepted, wants(request, {"market_risk"})
  PROVE  Unfound("trade", reporting_fx_spots(request)) = {}
<1>1. ReportingAccepted(request)
  BY DEF RequestAccepted, validate_run, MarketRiskAccepted
<1>. QED
  BY <1>1 DEF ReportingAccepted, Unfound

\* and of the scenarios' factors.
LEMMA RevaluationFound ==
  ASSUME RequestAccepted, wants(request, {"market_risk"}), NEW booked \in Range(request.portfolio)
  PROVE  RevaluationMissing(booked) = {}
<1>1. wants(request, TRADE_ANALYTICS)
  BY Wanted
<1>2. Unfound("trade", TradeItems(booked, request.pricing)) = {}
  BY <1>1, TradesFound DEF Unfound
<1>3. curve_keys(booked) \subseteq Risk.factors
  BY DEF RequestAccepted, validate_run, MarketRiskAccepted, FactorsAccepted, Risk
<1>. QED
  BY <1>2, <1>3 DEF RevaluationMissing

\* What the model does not find is not a trade's.
LEMMA ModelCauses == NoTradeMissed(ModelMissing) /\ NoTradeMissed(BasketsMissing)
<1>1. \A needs : NoTradeMissed(Unfound("model", needs))
  BY DEF NoTradeMissed, Unfound
<1>2. NoTradeMissed(BasketsMissing)
  BY <1>1 DEF NoTradeMissed, BasketsMissing
<1>. QED
  BY <1>1, <1>2 DEF NoTradeMissed, ModelMissing

---------------------------------------------------------------------------
(* The inductive invariant. *)

\* The inductive invariant of a run.
RunInv ==
  /\ request \in Requests
  /\ progress \in {"queued", "running", "done"} => RequestAccepted
  /\ progress \in {"running", "done"} => RunExecutionAccepted(request, platform)
  /\ steps \in Seq(Places) /\ \A at \in Range(steps) : Fits(at)
  /\ progress = "running" => AskedFor \subseteq taken \cup TakenBy(Range(steps))
  /\ progress = "done" => AskedFor \subseteq taken
  /\ NoTradeMissed(cause)
  /\ \A used \in computed : Checked(used)
  /\ \A array \in stored : BlocksIn(array)

\* It is of the request and the platform, which do not change.
LEMMA SameRequest ==
  ASSUME request' = request, platform' = platform
  PROVE  /\ AskedFor' = AskedFor
         /\ RequestAccepted' <=> RequestAccepted
         /\ RunExecutionAccepted(request, platform)' <=> RunExecutionAccepted(request, platform)
         /\ \A at \in Places : Fits(at)' <=> Fits(at)
         /\ \A phase : Takes(phase)' = Takes(phase)
         /\ \A used : Checked(used)' <=> Checked(used)
<1>1. AskedFor' = AskedFor
  BY DEF AskedFor
<1>2. ASSUME NEW at \in Places PROVE Fits(at)' <=> Fits(at)
  BY DEF Fits
<1>3. \A phase : Takes(phase)' = Takes(phase)
  BY DEF Takes
<1>5. \A used : Checked(used)' <=> Checked(used)
  BY DEF Checked
<1>6. RequestAccepted' <=> RequestAccepted
  BY DEF RequestAccepted
<1>. QED
  BY <1>1, <1>2, <1>3, <1>5, <1>6

\* A phase that is left, in a run that goes on.
LEMMA AtPhase ==
  ASSUME RunInv, NEW phase, Advance(phase)
  PROVE  /\ RequestAccepted /\ RunExecutionAccepted(request, platform)
         /\ steps # <<>> /\ Head(steps) \in Places /\ Head(steps).phase = phase /\ Fits(Head(steps))
         /\ Tail(steps) \in Seq(Places)
         /\ Range(steps) = {Head(steps)} \cup Range(Tail(steps))
         /\ Len(steps) = 1 => Range(Tail(steps)) = {}
<1>1. progress = "running" /\ steps # <<>> /\ Head(steps).phase = phase
  BY DEF Advance
<1>2. steps \in Seq(Places)
  BY DEF RunInv
<1>3. /\ Head(steps) \in Places /\ Tail(steps) \in Seq(Places)
      /\ Len(Tail(steps)) = Len(steps) - 1 /\ Len(steps) \in Nat \ {0}
      /\ \A i \in 1 .. Len(Tail(steps)) : Tail(steps)[i] = steps[i + 1]
      /\ Head(steps) = steps[1]
  BY <1>1, <1>2, HeadTailProperties
<1>4. /\ Range(steps) = {steps[i] : i \in 1 .. Len(steps)}
      /\ Range(Tail(steps)) = {Tail(steps)[i] : i \in 1 .. Len(Tail(steps))}
  <2>1. DOMAIN steps = 1 .. Len(steps) /\ DOMAIN Tail(steps) = 1 .. Len(Tail(steps))
    BY <1>2, <1>3, LenProperties
  <2>. QED
    BY <2>1 DEF Range
<1>5. Range(steps) = {Head(steps)} \cup Range(Tail(steps))
  <2>1. ASSUME NEW i \in 1 .. Len(steps) PROVE steps[i] \in {Head(steps)} \cup Range(Tail(steps))
    <3>1. CASE i = 1
      BY <3>1, <1>3
    <3>2. CASE i # 1
      <4>1. i - 1 \in 1 .. Len(Tail(steps)) /\ Tail(steps)[i - 1] = steps[i]
        BY <3>2, <2>1, <1>3
      <4>. QED
        BY <4>1, <1>4
    <3>. QED
      BY <3>1, <3>2
  <2>2. ASSUME NEW i \in 1 .. Len(Tail(steps)) PROVE Tail(steps)[i] \in Range(steps)
    <3>1. i + 1 \in 1 .. Len(steps) /\ Tail(steps)[i] = steps[i + 1]
      BY <1>3
    <3>. QED
      BY <3>1, <1>4
  <2>3. Head(steps) \in Range(steps)
    BY <1>3, <1>4
  <2>. QED
    BY <2>1, <2>2, <2>3, <1>4
<1>6. Len(steps) = 1 => Range(Tail(steps)) = {}
  <2>a. Len(steps) = 1 => Len(Tail(steps)) = 0
    BY <1>3
  <2>b. 1 .. 0 = {}
    OBVIOUS
  <2>1. Len(steps) = 1 => 1 .. Len(Tail(steps)) = {}
    BY <2>a, <2>b
  <2>. QED
    BY <2>1, <1>4
<1>7. Fits(Head(steps))
  BY <1>5 DEF RunInv
<1>. QED
  BY <1>1, <1>3, <1>5, <1>6, <1>7 DEF RunInv

\* A phase that ends keeps it: it takes what is its to take, computes in what was checked.
LEMMA Finished ==
  ASSUME RunInv, NEW phase, Advance(phase), NEW takes, NEW formats, Finish(takes, formats),
         Takes(phase) \subseteq takes,
         \A used \in formats : Checked(used),
         \A array \in stored' : BlocksIn(array)
  PROVE  RunInv'
<1>1. request' = request /\ platform' = platform /\ cause' = cause
      /\ taken' = taken \cup takes /\ computed' = computed \cup formats /\ steps' = Tail(steps)
      /\ progress' = IF Len(steps) = 1 THEN "done" ELSE "running"
  BY DEF Finish
<1>2. AskedFor \subseteq taken \cup TakenBy(Range(steps))
  BY DEF RunInv, Advance
<1>3. TakenBy(Range(steps)) = Takes(phase) \cup TakenBy(Range(Tail(steps)))
  <2>1. Range(steps) = {Head(steps)} \cup Range(Tail(steps)) /\ Head(steps).phase = phase
    BY AtPhase
  <2>. HIDE DEF Takes
  <2>. QED
    BY <2>1 DEF TakenBy
<1>4. AskedFor \subseteq taken' \cup TakenBy(Range(Tail(steps)))
  BY <1>1, <1>2, <1>3
<1>5. Len(steps) = 1 => AskedFor \subseteq taken'
  <2>1. Len(steps) = 1 => TakenBy(Range(Tail(steps))) = {}
    BY AtPhase DEF TakenBy
  <2>. QED
    BY <2>1, <1>4
<1>6. Tail(steps) \in Seq(Places) /\ Range(Tail(steps)) \subseteq Range(steps) /\ Range(Tail(steps)) \in SUBSET Places
  <2>1. Tail(steps) \in Seq(Places) /\ Range(Tail(steps)) \subseteq Range(steps)
    BY AtPhase
  <2>2. Range(Tail(steps)) \in SUBSET Places
    BY <2>1 DEF Range
  <2>. QED
    BY <2>1, <2>2
<1>7. RequestAccepted /\ RunExecutionAccepted(request, platform)
  BY AtPhase
<1>8. (request \in Requests)' /\ RequestAccepted' /\ RunExecutionAccepted(request, platform)'
  BY <1>1, <1>7, SameRequest DEF RunInv
<1>9. (steps \in Seq(Places) /\ \A at \in Range(steps) : Fits(at))'
  <2>1. \A at \in Range(Tail(steps)) : Fits(at)
    BY <1>6 DEF RunInv
  <2>2. \A at \in Range(Tail(steps)) : Fits(at)'
    BY <2>1, <1>6, <1>1, SameRequest
  <2>. QED
    BY <2>2, <1>1, <1>6
<1>10. (progress = "running" => AskedFor \subseteq taken \cup TakenBy(Range(steps)))'
  <2>1. AskedFor' = AskedFor /\ \A p : Takes(p)' = Takes(p)
    BY <1>1, SameRequest
  <2>2. TakenBy(Range(steps))' = TakenBy(Range(Tail(steps)))
    BY <2>1, <1>1 DEF TakenBy
  <2>. QED
    BY <2>1, <2>2, <1>1, <1>4
<1>11. (progress = "done" => AskedFor \subseteq taken)'
  BY <1>1, <1>5, SameRequest
<1>12. NoTradeMissed(cause)'
  BY <1>1 DEF RunInv
<1>13. (\A used \in computed : Checked(used))'
  <2>1. \A used \in computed' : Checked(used)
    BY <1>1 DEF RunInv
  <2>. QED
    BY <2>1, <1>1, SameRequest
<1>14. (\A array \in stored : BlocksIn(array))'
  BY DEF BlocksIn
<1>. QED
  BY <1>8, <1>9, <1>10, <1>11, <1>12, <1>13, <1>14 DEF RunInv

\* A phase that fails keeps it, for something else than a trade's market data.
LEMMA PhaseFailed ==
  ASSUME RunInv, NEW why, Fail(why), NoTradeMissed(why)
  PROVE  RunInv'
<1>1. /\ request' = request /\ platform' = platform /\ taken' = taken /\ computed' = computed /\ stored' = stored
      /\ progress' = "failed" /\ cause' = why /\ steps' = <<>>
  BY DEF Fail
<1>2. (steps \in Seq(Places) /\ \A at \in Range(steps) : Fits(at))'
  <2>1. <<>> \in Seq(Places) /\ Range(<<>>) = {}
    BY DEF Range
  <2>. QED
    BY <2>1, <1>1
<1>3. NoTradeMissed(cause)'
  BY <1>1 DEF NoTradeMissed
<1>4. (\A used \in computed : Checked(used))'
  <2>1. \A used \in computed' : Checked(used)
    BY <1>1 DEF RunInv
  <2>. QED
    BY <2>1, <1>1, SameRequest
<1>5. (\A array \in stored : BlocksIn(array))'
  BY <1>1 DEF RunInv, BlocksIn
<1>. QED
  BY <1>1, <1>2, <1>3, <1>4, <1>5 DEF RunInv

\* So does a basket that is missed,
LEMMA BasketFailed ==
  ASSUME RunInv, NEW calibrates, BasketMissed(calibrates) PROVE RunInv'
<1>1. NoTradeMissed({<<"model", <<"basket">>>>})
  BY DEF NoTradeMissed
<1>. QED
  BY <1>1, PhaseFailed DEF BasketMissed

\* and a phase that stores nothing.
LEMMA Completed ==
  ASSUME RunInv, NEW phase, Advance(phase), NEW missing, NEW takes, NEW formats,
         Complete(missing, takes, formats),
         NoTradeMissed(missing), Takes(phase) \subseteq takes, \A used \in formats : Checked(used)
  PROVE  RunInv'
<1>1. CASE missing = {}
  <2>1. Finish(takes, formats) /\ stored' = stored
    BY <1>1 DEF Complete
  <2>2. \A array \in stored' : BlocksIn(array)
    BY <2>1 DEF RunInv
  <2>. QED
    BY <2>1, <2>2, Finished
<1>2. CASE missing # {}
  <2>1. Fail(missing)
    BY <1>2 DEF Complete
  <2>. QED
    BY <2>1, PhaseFailed
<1>. QED
  BY <1>1, <1>2

\* The analytic and the trade of the phase at hand,
LEMMA PhasePlace ==
  ASSUME RunInv, NEW phase, Advance(phase)
  PROVE  /\ phase \in OfExposure => wants(request, {"exposure"})
         /\ phase \in OfPortfolio => wants(request, PORTFOLIO_ANALYTICS)
         /\ phase \in OfGreeks => wants(request, {"sensitivities"})
         /\ phase \in OfRisk => wants(request, {"market_risk"})
         /\ phase \in {"paired_sample", "paired_figures"} => request.precision.paired > 0
         /\ phase \in {"pricing", "trade_greeks", "revaluation"} =>
              Head(steps).trade \in DOMAIN request.portfolio /\ TradeAt \in Range(request.portfolio)
<1>1. Fits(Head(steps)) /\ Head(steps).phase = phase
  BY AtPhase
<1>2. phase \in {"pricing", "trade_greeks", "revaluation"} => Head(steps).trade \in DOMAIN request.portfolio
  BY <1>1 DEF Fits
<1>3. phase \in {"pricing", "trade_greeks", "revaluation"} => TradeAt \in Range(request.portfolio)
  BY <1>2 DEF TradeAt, Range
<1>. QED
  BY <1>1, <1>2, <1>3 DEF Fits

\* its roles,
LEMMA RolesOfRun ==
  /\ {"calibration", "output"} \subseteq RunRoles(request)
  /\ wants(request, TRADE_ANALYTICS) => "reductions" \in RunRoles(request)
  /\ wants(request, PORTFOLIO_ANALYTICS) => "initial_values" \in RunRoles(request)
  /\ wants(request, {"exposure"}) => "levels" \in RunRoles(request)
  /\ wants(request, {"sensitivities"}) => "greeks" \in RunRoles(request)
BY DEF RunRoles

\* its paths,
LEMMA ExposureSampling ==
  ASSUME request \in Requests, RequestAccepted, wants(request, {"exposure"})
  PROVE  /\ SamplingAccepted(request.precision, request.simulation.samples, request.simulation.replicates)
         /\ request.simulation.samples \in Int /\ request.simulation.replicates \in Int
<1>1. SamplingAccepted(request.precision, request.simulation.samples, request.simulation.replicates)
  BY Wanted DEF RequestAccepted, validate_run, PortfolioAccepted
<1>2. request.simulation.given
  BY DEF RequestAccepted, validate_run, SectionsAccepted, Needs
<1>. QED
  BY <1>1, <1>2, RequestsAssumption

\* its scenarios,
LEMMA RiskSampling ==
  ASSUME request \in Requests, RequestAccepted, wants(request, {"market_risk"})
  PROVE  /\ SamplingAccepted(request.precision, Risk.count, Risk.replicates)
         /\ Risk.count \in Int /\ Risk.replicates \in Int
<1>1. SamplingAccepted(request.precision, Risk.count, Risk.replicates)
  BY DEF RequestAccepted, validate_run, MarketRiskAccepted, Risk
<1>2. request.market_risk.given
  BY DEF RequestAccepted, validate_run, SectionsAccepted, Needs
<1>. QED
  BY <1>1, <1>2, RequestsAssumption DEF Risk

\* and the blocks it stores.
LEMMA StageBlocks ==
  ASSUME NEW stage \in StagesOf(request.precision), NEW paths \in Int, NEW replicates \in Int,
         SamplingAccepted(request.precision, paths, replicates)
  PROVE  BlocksIn(Array(paths, replicates, Scaled(stage)))
<1>1. Scaled(stage) => request.precision.storage_scaling # "none" /\ SomeScaled(request.precision)
  BY ScaledStages
<1>. QED
  BY <1>1, SampledBlocks

---------------------------------------------------------------------------
(* Every action keeps it. *)

\* Submission keeps it: what is queued was accepted.
LEMMA SubmitKeeps == ASSUME RunInv, Submit PROVE RunInv'
<1>1. /\ progress = "posted"
      /\ progress' = IF RequestAccepted THEN "queued" ELSE "refused"
      /\ UNCHANGED <<request, platform, steps, taken, computed, stored, cause>>
  BY DEF Submit, RequestAccepted
<1>2. (progress \in {"queued", "running", "done"} => RequestAccepted)'
  BY <1>1, SameRequest
<1>3. (steps \in Seq(Places) /\ \A at \in Range(steps) : Fits(at))'
  <2>1. steps \in Seq(Places) /\ \A at \in Range(steps) : at \in Places /\ Fits(at)
    BY DEF RunInv, Range
  <2>. QED
    BY <2>1, <1>1, SameRequest
<1>4. (\A used \in computed : Checked(used))'
  BY <1>1, SameRequest DEF RunInv
<1>5. (\A array \in stored : BlocksIn(array))'
  BY <1>1 DEF RunInv, BlocksIn
<1>6. NoTradeMissed(cause)'
  BY <1>1 DEF RunInv
<1>. QED
  BY <1>1, <1>2, <1>3, <1>4, <1>5, <1>6 DEF RunInv

\* The start keeps it: what runs was checked, and its steps take all that was asked for.
LEMMA StartKeeps == ASSUME RunInv, Start PROVE RunInv'
<1>1. /\ progress = "queued" /\ RequestAccepted /\ request \in Requests
      /\ UNCHANGED <<request, platform, taken, computed, stored>>
  BY DEF Start, RunInv
<1>2. (\A used \in computed : Checked(used))'
  BY <1>1, SameRequest DEF RunInv
<1>3. (\A array \in stored : BlocksIn(array))'
  BY <1>1 DEF RunInv, BlocksIn
<1>4. RequestAccepted' /\ (RunExecutionAccepted(request, platform)' <=> RunExecutionAccepted(request, platform))
  BY <1>1, SameRequest
<1>5. CASE RunExecutionAccepted(request, platform)
  <2>1. progress' = "running" /\ steps' = RunSteps /\ cause' = cause
    BY <1>5 DEF Start
  <2>2. RunSteps \in Seq(Places) /\ Range(RunSteps) = RunPlaces
    BY <1>1, StepsOfRun
  <2>3. (steps \in Seq(Places) /\ \A at \in Range(steps) : Fits(at))'
    <3>1. \A at \in Range(RunSteps) : at \in Places /\ Fits(at)
      BY <2>2, PlacesFit DEF Range
    <3>. QED
      BY <3>1, <2>1, <2>2, <1>1, SameRequest
  <2>4. (progress = "running" => AskedFor \subseteq taken \cup TakenBy(Range(steps)))'
    <3>1. AskedFor' = AskedFor /\ \A phase : Takes(phase)' = Takes(phase)
      BY <1>1, SameRequest
    <3>2. TakenBy(Range(steps))' = TakenBy(RunPlaces)
      BY <3>1, <2>1, <2>2 DEF TakenBy
    <3>3. AskedFor \subseteq TakenBy(RunPlaces)
      BY <1>1, AskedIsTaken DEF Settled
    <3>. QED
      BY <3>1, <3>2, <3>3
  <2>5. NoTradeMissed(cause)'
    BY <2>1 DEF RunInv
  <2>. QED
    BY <1>1, <1>2, <1>3, <1>4, <1>5, <2>1, <2>3, <2>4, <2>5 DEF RunInv
<1>6. CASE ~RunExecutionAccepted(request, platform)
  <2>1. progress' = "failed" /\ steps' = <<>> /\ cause' = {<<"worker", <<"execution">>>>}
    BY <1>6 DEF Start
  <2>2. (steps \in Seq(Places) /\ \A at \in Range(steps) : Fits(at))'
    <3>1. <<>> \in Seq(Places) /\ Range(<<>>) = {}
      BY DEF Range
    <3>. QED
      BY <3>1, <2>1
  <2>3. NoTradeMissed(cause)'
    BY <2>1 DEF NoTradeMissed
  <2>. QED
    BY <1>1, <1>2, <1>3, <2>1, <2>2, <2>3 DEF RunInv
<1>. QED
  BY <1>5, <1>6

\* The phases of the exposure analytic keep it.
LEMMA BuildModelKeeps == ASSUME RunInv, BuildModel PROVE RunInv'
<1>1. Advance("calibration")
  BY DEF BuildModel
<1>2. RequestAccepted /\ RunExecutionAccepted(request, platform) /\ wants(request, {"exposure"})
  BY <1>1, AtPhase, PhasePlace DEF OfExposure
<1>3. \A used \in Roles({"calibration", "levels"}) : Checked(used)
  <2>1. {"calibration", "levels"} \subseteq RunRoles(request)
    BY <1>2, RolesOfRun
  <2>. QED
    BY <1>2, <2>1, RolesChecked
<1>4. CASE BasketMissed(calibrated(request.models) # {})
  BY <1>4, BasketFailed
<1>5. CASE Complete(ModelMissing, Takes("calibration"), Roles({"calibration", "levels"}))
  <2>. HIDE DEF Takes
  <2>. QED
    BY <1>1, <1>3, <1>5, ModelCauses, Completed
<1>6. \/ Complete(ModelMissing, Takes("calibration"), Roles({"calibration", "levels"}))
      \/ BasketMissed(calibrated(request.models) # {})
  BY TakesOf DEF BuildModel
<1>. QED
  BY <1>4, <1>5, <1>6

LEMMA SimulateKeeps == ASSUME RunInv, Simulate PROVE RunInv'
<1> DEFINE sim == request.precision.stages["simulation"]
           mkt == request.precision.stages["market"]
           paths == request.simulation.samples
           replicates == request.simulation.replicates
           formats == ComputedIn({sim, mkt}) \cup Roles({"levels", "calibration"})
<1>1. Advance("simulation")
  BY DEF Simulate
<1>2. RequestAccepted /\ RunExecutionAccepted(request, platform) /\ wants(request, {"exposure"}) /\ request \in Requests
  BY <1>1, AtPhase, PhasePlace DEF OfExposure, RunInv
<1>3. CASE Fail({<<"model", <<"dates">>>>})
  <2>1. NoTradeMissed({<<"model", <<"dates">>>>})
    BY DEF NoTradeMissed
  <2>. QED
    BY <1>3, <2>1, PhaseFailed
<1>4. CASE /\ Finish(Takes("simulation"), formats)
           /\ stored' = stored \cup {Array(paths, replicates, Scaled(s)) : s \in {sim, mkt}}
  <2>1. \A used \in formats : Checked(used)
    <3>1. {"levels", "calibration"} \subseteq RunRoles(request)
      BY <1>2, RolesOfRun
    <3>2. {sim, mkt} \subseteq Selected
      BY <1>2, StagesSelected
    <3>. QED
      BY <3>1, <3>2, <1>2, RolesChecked, StagesChecked
  <2>2. \A array \in stored' : BlocksIn(array)
    <3>1. \A s \in {sim, mkt} : BlocksIn(Array(paths, replicates, Scaled(s)))
      <4>1. sim \in StagesOf(request.precision) /\ mkt \in StagesOf(request.precision)
        BY <1>2, StagesInPolicy DEF STAGES
      <4>. QED
        BY <4>1, <1>2, ExposureSampling, StageBlocks
    <3>. QED
      BY <3>1, <1>4 DEF RunInv
  <2>. QED
    BY <1>1, <1>4, <2>1, <2>2, Finished
<1>5. \/ /\ Finish(Takes("simulation"), formats)
         /\ stored' = stored \cup {Array(paths, replicates, Scaled(s)) : s \in {sim, mkt}}
      \/ Fail({<<"model", <<"dates">>>>})
  BY TakesOf DEF Simulate
<1>. QED
  BY <1>3, <1>4, <1>5

LEMMA PriceColumnKeeps == ASSUME RunInv, PriceColumn PROVE RunInv'
<1> DEFINE stage == precision_for(request.precision, TradeAt)
           paths == request.simulation.samples
           replicates == request.simulation.replicates
           formats == ComputedIn({stage}) \cup Roles({"calibration", "levels"})
<1>1. Advance("pricing")
  BY DEF PriceColumn
<1>2. /\ RequestAccepted /\ RunExecutionAccepted(request, platform) /\ wants(request, {"exposure"})
      /\ request \in Requests /\ TradeAt \in Range(request.portfolio)
  BY <1>1, AtPhase, PhasePlace DEF OfExposure, RunInv
<1>3. ColumnMissing(TradeAt) = {}
  BY <1>2, ColumnFound
<1>4. CASE BasketMissed(Recalibrates(TradeAt))
  BY <1>4, BasketFailed
<1>5. CASE /\ Finish(Takes("pricing"), formats)
           /\ stored' = stored \cup {Array(paths, replicates, Scaled(stage))}
  <2>1. \A used \in formats : Checked(used)
    <3>1. {"calibration", "levels"} \subseteq RunRoles(request)
      BY <1>2, RolesOfRun
    <3>2. {stage} \subseteq Selected
      BY <1>2, StagesSelected
    <3>. QED
      BY <3>1, <3>2, <1>2, RolesChecked, StagesChecked
  <2>2. \A array \in stored' : BlocksIn(array)
    <3>1. stage \in StagesOf(request.precision)
      BY <1>2, StagesInPolicy
    <3>2. BlocksIn(Array(paths, replicates, Scaled(stage)))
      BY <3>1, <1>2, ExposureSampling, StageBlocks
    <3>. QED
      BY <3>2, <1>5 DEF RunInv
  <2>. QED
    BY <1>1, <1>5, <2>1, <2>2, Finished
<1>6. \/ /\ Finish(Takes("pricing"), formats)
         /\ stored' = stored \cup {Array(paths, replicates, Scaled(stage))}
      \/ BasketMissed(Recalibrates(TradeAt))
  BY <1>3, TakesOf DEF PriceColumn
<1>. QED
  BY <1>4, <1>5, <1>6

LEMMA TodayKeeps ==
  ASSUME RunInv, NEW phase \in {"today", "base_npv"}, Today(phase) PROVE RunInv'
<1>1. Advance(phase)
  BY DEF Today
<1>2. RequestAccepted /\ RunExecutionAccepted(request, platform) /\ wants(request, PORTFOLIO_ANALYTICS)
  BY <1>1, AtPhase, PhasePlace, Wanted DEF OfExposure, OfPortfolio
<1>3. NoTradeMissed(TodayMissing)
  BY <1>2, TodayFound DEF NoTradeMissed
<1>4. \A used \in Roles({"initial_values", "calibration"}) : Checked(used)
  <2>1. {"initial_values", "calibration"} \subseteq RunRoles(request)
    BY <1>2, RolesOfRun
  <2>. QED
    BY <1>2, <2>1, RolesChecked
<1>5. CASE BasketMissed(\E t \in Range(request.portfolio) : Recalibrates(t))
  BY <1>5, BasketFailed
<1>6. CASE Complete(TodayMissing, Takes(phase), Roles({"initial_values", "calibration"}))
  <2>. HIDE DEF Takes
  <2>. QED
    BY <1>1, <1>3, <1>4, <1>6, Completed
<1>7. Takes(phase) = Section({"pricing", "portfolio", "base_currency"})
  BY TakesOf
<1>8. \/ Complete(TodayMissing, Takes(phase), Roles({"initial_values", "calibration"}))
      \/ BasketMissed(\E t \in Range(request.portfolio) : Recalibrates(t))
  BY <1>7 DEF Today
<1>. QED
  BY <1>5, <1>6, <1>8

LEMMA PairedSampleKeeps == ASSUME RunInv, PairedSample PROVE RunInv'
<1> DEFINE replicates == request.simulation.replicates
<1>1. Advance("paired_sample")
  BY DEF PairedSample
<1>2. /\ RequestAccepted /\ RunExecutionAccepted(request, platform) /\ wants(request, {"exposure"})
      /\ request \in Requests /\ request.precision.paired > 0
  BY <1>1, AtPhase, PhasePlace DEF OfExposure, RunInv
<1>3. (UNION {ColumnMissing(t) : t \in Range(request.portfolio)}) = {}
  <2>1. \A t \in Range(request.portfolio) : ColumnMissing(t) = {}
    BY <1>2, ColumnFound
  <2>. QED
    BY <2>1
<1>4. /\ Finish(Takes("paired_sample"), ComputedIn({Throughout("float64")}))
      /\ stored' = stored \cup {Array(PairedPaths, replicates, TRUE)}
  BY <1>3, TakesOf DEF PairedSample
<1>5. \A used \in ComputedIn({Throughout("float64")}) : Checked(used)
  BY <1>2, PairedChecked
<1>6. \A array \in stored' : BlocksIn(array)
  <2>1. request.precision.paired \in 1 .. 4
    BY <1>2, PairedShare
  <2>2. BlocksIn(Array(PairedPaths, replicates, TRUE))
    BY <2>1, <1>2, ExposureSampling, PairedBlocks DEF PairedPaths
  <2>. QED
    BY <2>2, <1>4 DEF RunInv
<1>. QED
  BY <1>1, <1>4, <1>5, <1>6, Finished

LEMMA ExposureKeeps == ASSUME RunInv, Exposure PROVE RunInv'
<1> DEFINE roles == {"initial_values", "calibration", "reductions", "output"}
<1>1. Advance("exposure")
  BY DEF Exposure
<1>2. RequestAccepted /\ RunExecutionAccepted(request, platform) /\ wants(request, {"exposure"})
  BY <1>1, AtPhase, PhasePlace DEF OfExposure
<1>3. NoTradeMissed(TodayMissing)
  BY <1>2, Wanted, TodayFound DEF NoTradeMissed
<1>4. \A used \in Roles(roles) : Checked(used)
  <2>1. roles \subseteq RunRoles(request)
    BY <1>2, Wanted, RolesOfRun
  <2>. QED
    BY <1>2, <2>1, RolesChecked
<1>5. Complete(TodayMissing, Takes("exposure"), Roles(roles))
  BY TakesOf DEF Exposure
<1>. HIDE DEF Takes, roles
<1>. QED
  BY <1>1, <1>3, <1>4, <1>5, Completed

\* The sensitivities keep it.
LEMMA GreeksKeeps == ASSUME RunInv, Greeks PROVE RunInv'
<1> DEFINE missing == {<<"market", item>> : item \in {i \in request.market : i[1] = "index" /\ i[3] = 0}}
<1>1. Advance("greeks")
  BY DEF Greeks
<1>2. RequestAccepted /\ RunExecutionAccepted(request, platform) /\ wants(request, {"sensitivities"})
  BY <1>1, AtPhase, PhasePlace DEF OfGreeks
<1>3. NoTradeMissed(missing)
  BY DEF NoTradeMissed
<1>4. \A used \in Roles({"greeks"}) : Checked(used)
  <2>1. {"greeks"} \subseteq RunRoles(request)
    BY <1>2, RolesOfRun
  <2>. QED
    BY <1>2, <2>1, RolesChecked
<1>5. Complete(missing, Takes("greeks"), Roles({"greeks"}))
  BY TakesOf DEF Greeks
<1>. HIDE DEF Takes, missing
<1>. QED
  BY <1>1, <1>3, <1>4, <1>5, Completed

LEMMA TradeGreeksKeeps == ASSUME RunInv, TradeGreeks PROVE RunInv'
<1> DEFINE missing == Unfound("trade", {<<"fx", TradeAt.currency, request.base_currency>>}
                                       \cup TradeItems(TradeAt, request.pricing))
<1>1. Advance("trade_greeks")
  BY DEF TradeGreeks
<1>2. /\ RequestAccepted /\ RunExecutionAccepted(request, platform) /\ wants(request, {"sensitivities"})
      /\ TradeAt \in Range(request.portfolio)
  BY <1>1, AtPhase, PhasePlace DEF OfGreeks
<1>3. missing = {}
  BY <1>2, TradeGreeksFound
<1>4. NoTradeMissed(missing)
  BY <1>3 DEF NoTradeMissed
<1>5. \A used \in Roles({"greeks", "calibration"}) : Checked(used)
  <2>1. {"greeks", "calibration"} \subseteq RunRoles(request)
    BY <1>2, RolesOfRun
  <2>. QED
    BY <1>2, <2>1, RolesChecked
<1>6. \/ Complete(missing, Takes("trade_greeks"), Roles({"greeks", "calibration"}))
      \/ BasketMissed(Recalibrates(TradeAt))
  BY TakesOf DEF TradeGreeks
<1>7. CASE BasketMissed(Recalibrates(TradeAt))
  BY <1>7, BasketFailed
<1>8. CASE Complete(missing, Takes("trade_greeks"), Roles({"greeks", "calibration"}))
  <2>. HIDE DEF Takes, missing
  <2>. QED
    BY <1>1, <1>4, <1>5, <1>8, Completed
<1>. QED
  BY <1>6, <1>7, <1>8

\* Market risk keeps it.
LEMMA DrawScenariosKeeps == ASSUME RunInv, DrawScenarios PROVE RunInv'
<1> DEFINE sim == request.precision.stages["simulation"]
           formats == Formats({sim.accumulate, sim.storage})
<1>1. Advance("scenarios")
  BY DEF DrawScenarios
<1>2. /\ RequestAccepted /\ RunExecutionAccepted(request, platform) /\ wants(request, {"market_risk"})
      /\ request \in Requests
  BY <1>1, AtPhase, PhasePlace DEF OfRisk, RunInv
<1>3. Unfound("trade", reporting_fx_spots(request)) = {}
  BY <1>2, ScenariosFound
<1>4. /\ Finish(Takes("scenarios"), formats)
      /\ stored' = stored \cup {Array(Risk.count, Risk.replicates, Scaled(sim))}
  BY <1>3, TakesOf DEF DrawScenarios
<1>5. \A used \in formats : Checked(used)
  <2>1. sim \in Selected
    BY <1>2, StagesSelected
  <2>2. sim.accumulate \in StageFormats(sim) /\ sim.storage \in StageFormats(sim)
    BY DEF StageFormats
  <2>3. Checked(<<"format", sim.accumulate>>) /\ Checked(<<"format", sim.storage>>)
    BY <1>2, <2>1, <2>2, FormatsOfStages
  <2>. QED
    BY <2>3 DEF Formats
<1>6. \A array \in stored' : BlocksIn(array)
  <2>1. sim \in StagesOf(request.precision)
    BY <1>2, StagesInPolicy DEF STAGES
  <2>2. BlocksIn(Array(Risk.count, Risk.replicates, Scaled(sim)))
    BY <2>1, <1>2, RiskSampling, StageBlocks
  <2>. QED
    BY <2>2, <1>4 DEF RunInv
<1>. QED
  BY <1>1, <1>4, <1>5, <1>6, Finished

LEMMA RevalueKeeps == ASSUME RunInv, Revalue PROVE RunInv'
<1> DEFINE stage == precision_for(request.precision, TradeAt)
           formats == ComputedIn({stage}) \cup Roles({"calibration", "reductions"})
<1>1. Advance("revaluation")
  BY DEF Revalue
<1>2. /\ RequestAccepted /\ RunExecutionAccepted(request, platform) /\ wants(request, {"market_risk"})
      /\ request \in Requests /\ TradeAt \in Range(request.portfolio)
  BY <1>1, AtPhase, PhasePlace DEF OfRisk, RunInv
<1>3. RevaluationMissing(TradeAt) = {}
  BY <1>2, RevaluationFound
<1>4. CASE BasketMissed(Recalibrates(TradeAt))
  BY <1>4, BasketFailed
<1>5. CASE /\ Finish(Takes("revaluation"), formats)
           /\ stored' = stored \cup {Array(Risk.count, Risk.replicates, Scaled(stage))}
  <2>1. \A used \in formats : Checked(used)
    <3>1. {"calibration", "reductions"} \subseteq RunRoles(request)
      BY <1>2, Wanted, RolesOfRun
    <3>2. {stage} \subseteq Selected
      BY <1>2, StagesSelected
    <3>. QED
      BY <3>1, <3>2, <1>2, RolesChecked, StagesChecked
  <2>2. \A array \in stored' : BlocksIn(array)
    <3>1. stage \in StagesOf(request.precision)
      BY <1>2, StagesInPolicy
    <3>2. BlocksIn(Array(Risk.count, Risk.replicates, Scaled(stage)))
      BY <3>1, <1>2, RiskSampling, StageBlocks
    <3>. QED
      BY <3>2, <1>5 DEF RunInv
  <2>. QED
    BY <1>1, <1>5, <2>1, <2>2, Finished
<1>6. \/ /\ Finish(Takes("revaluation"), formats)
         /\ stored' = stored \cup {Array(Risk.count, Risk.replicates, Scaled(stage))}
      \/ BasketMissed(Recalibrates(TradeAt))
  BY <1>3, TakesOf DEF Revalue
<1>. QED
  BY <1>4, <1>5, <1>6

LEMMA RiskFiguresKeeps == ASSUME RunInv, RiskFigures PROVE RunInv'
<1>1. Advance("risk_figures")
  BY DEF RiskFigures
<1>2. RequestAccepted /\ RunExecutionAccepted(request, platform) /\ wants(request, {"market_risk"})
  BY <1>1, AtPhase, PhasePlace DEF OfRisk
<1>3. \A used \in Roles({"reductions", "output"}) : Checked(used)
  <2>1. {"reductions", "output"} \subseteq RunRoles(request)
    BY <1>2, Wanted, RolesOfRun
  <2>. QED
    BY <1>2, <2>1, RolesChecked
<1>4. Complete({}, Takes("risk_figures"), Roles({"reductions", "output"}))
  BY TakesOf DEF RiskFigures
<1>5. NoTradeMissed({})
  BY DEF NoTradeMissed
<1>. HIDE DEF Takes
<1>. QED
  BY <1>1, <1>3, <1>4, <1>5, Completed

LEMMA PairedFiguresKeeps == ASSUME RunInv, PairedFigures PROVE RunInv'
<1> DEFINE sample == Array(paired_count(Risk.count, request.precision.paired, Risk.replicates), Risk.replicates, TRUE)
<1>1. Advance("paired_figures")
  BY DEF PairedFigures
<1>2. /\ RequestAccepted /\ RunExecutionAccepted(request, platform) /\ wants(request, {"market_risk"})
      /\ request \in Requests /\ request.precision.paired > 0
  BY <1>1, AtPhase, PhasePlace DEF OfRisk, RunInv
<1>3. /\ Finish(Takes("paired_figures"), ComputedIn({Throughout("float64")}))
      /\ stored' = stored \cup {sample}
  BY TakesOf DEF PairedFigures
<1>4. \A used \in ComputedIn({Throughout("float64")}) : Checked(used)
  BY <1>2, PairedChecked
<1>5. \A array \in stored' : BlocksIn(array)
  <2>1. request.precision.paired \in 1 .. 4
    BY <1>2, PairedShare
  <2>2. BlocksIn(sample)
    BY <2>1, <1>2, RiskSampling, PairedBlocks
  <2>. QED
    BY <2>2, <1>3 DEF RunInv
<1>. QED
  BY <1>1, <1>3, <1>4, <1>5, Finished

\* The calibration keeps it.
LEMMA CalibrateKeeps == ASSUME RunInv, Calibrate PROVE RunInv'
<1>1. Advance("calibration_analytic")
  BY DEF Calibrate
<1>2. RequestAccepted /\ RunExecutionAccepted(request, platform)
  BY <1>1, AtPhase
<1>3. \A used \in Roles({"calibration", "output"}) : Checked(used)
  BY <1>2, RolesOfRun, RolesChecked
<1>4. CASE BasketMissed(TRUE)
  BY <1>4, BasketFailed
<1>5. CASE Complete(BasketsMissing, Takes("calibration_analytic"), Roles({"calibration", "output"}))
  <2>. HIDE DEF Takes
  <2>. QED
    BY <1>1, <1>3, <1>5, ModelCauses, Completed
<1>6. \/ Complete(BasketsMissing, Takes("calibration_analytic"), Roles({"calibration", "output"}))
      \/ BasketMissed(TRUE)
  BY TakesOf DEF Calibrate
<1>. QED
  BY <1>4, <1>5, <1>6

\* So does a step of something else.
LEMMA StutterKeeps == ASSUME RunInv, UNCHANGED runVars PROVE RunInv'
<1>1. UNCHANGED <<request, platform, progress, steps, taken, computed, stored, cause>>
  BY DEF runVars
<1>2. (steps \in Seq(Places) /\ \A at \in Range(steps) : Fits(at))'
  <2>1. steps \in Seq(Places) /\ \A at \in Range(steps) : at \in Places /\ Fits(at)
    BY DEF RunInv, Range
  <2>. QED
    BY <2>1, <1>1, SameRequest
<1>3. (progress = "running" => AskedFor \subseteq taken \cup TakenBy(Range(steps)))'
  <2>1. AskedFor' = AskedFor /\ \A phase : Takes(phase)' = Takes(phase)
    BY <1>1, SameRequest
  <2>2. TakenBy(Range(steps))' = TakenBy(Range(steps))
    BY <2>1, <1>1 DEF TakenBy
  <2>. QED
    BY <2>1, <2>2, <1>1 DEF RunInv
<1>4. (\A used \in computed : Checked(used))'
  BY <1>1, SameRequest DEF RunInv
<1>5. (\A array \in stored : BlocksIn(array))'
  BY <1>1 DEF RunInv, BlocksIn
<1>6. /\ (progress \in {"queued", "running", "done"} => RequestAccepted)'
      /\ (progress \in {"running", "done"} => RunExecutionAccepted(request, platform))'
      /\ (progress = "done" => AskedFor \subseteq taken)'
  BY <1>1, SameRequest DEF RunInv
<1>7. NoTradeMissed(cause)'
  BY <1>1 DEF RunInv
<1>. QED
  BY <1>1, <1>2, <1>3, <1>4, <1>5, <1>6, <1>7 DEF RunInv

\* A request begins in it.
LEMMA RunInvInitial == ASSUME RunInit PROVE RunInv
<1>1. /\ request \in Requests /\ progress = "posted" /\ steps = <<>>
      /\ computed = {} /\ stored = {} /\ cause = {}
  BY DEF RunInit
<1>2. <<>> \in Seq(Places) /\ Range(<<>>) = {}
  BY DEF Range
<1>. QED
  BY <1>1, <1>2 DEF RunInv, NoTradeMissed

\* So it holds of every state of every run.
LEMMA RunInvInvariant == RunSpec => []RunInv
<1>1. RunInit => RunInv
  BY RunInvInitial
<1>2. RunInv /\ [RunNext]_runVars => RunInv'
  <2>1. SUFFICES ASSUME RunInv, [RunNext]_runVars PROVE RunInv'
    OBVIOUS
  <2>2. CASE Submit
    BY <2>1, <2>2, SubmitKeeps
  <2>3. CASE Start
    BY <2>1, <2>3, StartKeeps
  <2>4. CASE BuildModel
    BY <2>1, <2>4, BuildModelKeeps
  <2>5. CASE Simulate
    BY <2>1, <2>5, SimulateKeeps
  <2>6. CASE PriceColumn
    BY <2>1, <2>6, PriceColumnKeeps
  <2>7. CASE TodayOnPaths
    BY <2>1, <2>7, TodayKeeps DEF TodayOnPaths
  <2>8. CASE PairedSample
    BY <2>1, <2>8, PairedSampleKeeps
  <2>9. CASE Exposure
    BY <2>1, <2>9, ExposureKeeps
  <2>10. CASE BaseNpv
    BY <2>1, <2>10, TodayKeeps DEF BaseNpv
  <2>11. CASE Greeks
    BY <2>1, <2>11, GreeksKeeps
  <2>12. CASE TradeGreeks
    BY <2>1, <2>12, TradeGreeksKeeps
  <2>13. CASE DrawScenarios
    BY <2>1, <2>13, DrawScenariosKeeps
  <2>14. CASE Revalue
    BY <2>1, <2>14, RevalueKeeps
  <2>15. CASE RiskFigures
    BY <2>1, <2>15, RiskFiguresKeeps
  <2>16. CASE PairedFigures
    BY <2>1, <2>16, PairedFiguresKeeps
  <2>17. CASE Calibrate
    BY <2>1, <2>17, CalibrateKeeps
  <2>18. CASE UNCHANGED runVars
    BY <2>1, <2>18, StutterKeeps
  <2>. QED
    BY <2>1, <2>2, <2>3, <2>4, <2>5, <2>6, <2>7, <2>8, <2>9, <2>10, <2>11, <2>12, <2>13, <2>14,
       <2>15, <2>16, <2>17, <2>18 DEF RunNext
<1>. QED
  BY <1>1, <1>2, PTL DEF RunSpec

\* The invariant has what a caller relies on.
LEMMA RunInvGives ==
  ASSUME RunInv PROVE NothingIgnored /\ TradesChecked /\ BlocksWithinReplicates /\ NoUncheckedFormat
BY DEF RunInv, NothingIgnored, TradesChecked, NoTradeMissed, BlocksWithinReplicates, BlocksIn, NoUncheckedFormat, Checked

\* What validate_request accepts runs as it was asked: of a run that ends well every
\* section, model and precision setting that was given was taken by some phase, and
\* no run fails for market data, a curve, a rate or a factor that one of its trades
\* reads (run_request.py, validate_run; the phases of src/engine/run).
THEOREM RunsAsAsked == RunSpec => []AcceptedRunsAsAsked
<1>1. RunInv => AcceptedRunsAsAsked
  BY RunInvGives DEF AcceptedRunsAsAsked
<1>. QED
  BY <1>1, RunInvInvariant, PTL

\* The checks of a precision setting hold where it is used: no block of a scaled
\* array holds paths of two scrambles (validate_sampling), and no phase computes in
\* a format or runs a product that the worker's device refuses (prepare_execution).
THEOREM ChecksCoverTheRun == RunSpec => []FormatsAreChecked
<1>1. RunInv => FormatsAreChecked
  BY RunInvGives DEF FormatsAreChecked
<1>. QED
  BY <1>1, RunInvInvariant, PTL

---------------------------------------------------------------------------
(* The evidence table. *)

\* The two kinds of run a campaign measures.
Figures == {PortfolioFigures, MarketRiskFigures}

\* They are told apart by their stages.
LEMMA FiguresAre ==
  ASSUME NEW figures \in Figures
  PROVE  /\ "pricing" \in figures.stages /\ figures.trade \subseteq figures.total
         /\ \A other \in Figures : other.stages = figures.stages => other = figures
<1>1. /\ PortfolioFigures.stages = STAGES
      /\ MarketRiskFigures.stages = {"simulation", "pricing"}
      /\ PortfolioFigures.trade \subseteq PortfolioFigures.total
      /\ MarketRiskFigures.trade \subseteq MarketRiskFigures.total
  BY DEF PortfolioFigures, MarketRiskFigures, RunFigures
<1>2. STAGES # {"simulation", "pricing"} /\ "pricing" \in STAGES
  BY DEF STAGES
<1>. QED
  BY <1>1, <1>2 DEF Figures

\* The parts of a combination.
ChosenStages(p, stages, pricing) == [s \in stages |-> IF s = "pricing" THEN pricing ELSE p.stages[s]]
AllFloat64(p, stages, pricing) ==
  /\ ChosenStages(p, stages, pricing) = [s \in stages |-> Throughout("float64")]
  /\ p.internal = [r \in ROLES |-> "float64"]
SomeStageScaled(p, stages, pricing) ==
  \E s \in stages : FORMATS[ChosenStages(p, stages, pricing)[s].storage].scaled
KeyLayout(p, stages, pricing) ==
  IF SomeStageScaled(p, stages, pricing) THEN <<p.storage_scaling, p.rounding, p.offset>> ELSE <<>>

\* A combination is the reference or these parts.
LEMMA CombinationIs ==
  ASSUME NEW p, NEW stages, NEW pricing, NEW replicates
  PROVE  combination(p, stages, pricing, replicates) =
           IF AllFloat64(p, stages, pricing) THEN Reference
           ELSE [stages |-> ChosenStages(p, stages, pricing), internal |-> p.internal,
                 replicates |-> replicates, layout |-> KeyLayout(p, stages, pricing)]
BY DEF combination, AllFloat64, ChosenStages, KeyLayout, SomeStageScaled

\* Two precisions have the same key exactly when they agree in what it holds.
LEMMA SameKey ==
  ASSUME NEW p, NEW stages, NEW pricing, NEW replicates, NEW q, NEW others, NEW its, NEW copies,
         ~AllFloat64(p, stages, pricing)
  PROVE  combination(q, others, its, copies) = combination(p, stages, pricing, replicates) <=>
           /\ others = stages /\ copies = replicates /\ q.internal = p.internal
           /\ \A s \in stages : ChosenStages(q, stages, its)[s] = ChosenStages(p, stages, pricing)[s]
           /\ SomeStageScaled(p, stages, pricing) =>
                q.storage_scaling = p.storage_scaling /\ q.rounding = p.rounding /\ q.offset = p.offset
<1> DEFINE key == combination(p, stages, pricing, replicates)
           other == combination(q, others, its, copies)
           c == ChosenStages(p, stages, pricing)
           d == ChosenStages(q, others, its)
<1>1. key = [stages |-> c, internal |-> p.internal, replicates |-> replicates, layout |-> KeyLayout(p, stages, pricing)]
  BY CombinationIs
<1>2. other = IF AllFloat64(q, others, its) THEN Reference
              ELSE [stages |-> d, internal |-> q.internal, replicates |-> copies, layout |-> KeyLayout(q, others, its)]
  BY CombinationIs
<1>3. DOMAIN c = stages /\ DOMAIN d = others
  BY DEF ChosenStages
<1>4. key # Reference
  <2>1. "stages" \in DOMAIN key /\ "stages" \notin DOMAIN Reference
    BY <1>1 DEF Reference
  <2>. QED
    BY <2>1
<1>5. ASSUME other = key
      PROVE  /\ others = stages /\ copies = replicates /\ q.internal = p.internal /\ d = c
             /\ KeyLayout(q, others, its) = KeyLayout(p, stages, pricing)
  <2>1. other = [stages |-> d, internal |-> q.internal, replicates |-> copies, layout |-> KeyLayout(q, others, its)]
    BY <1>2, <1>4, <1>5
  <2>2. /\ other.stages = d /\ other.internal = q.internal /\ other.replicates = copies
        /\ other.layout = KeyLayout(q, others, its)
    BY <2>1
  <2>3. /\ key.stages = c /\ key.internal = p.internal /\ key.replicates = replicates
        /\ key.layout = KeyLayout(p, stages, pricing)
    BY <1>1
  <2>. QED
    BY <2>2, <2>3, <1>3, <1>5
<1>6. ASSUME d = c, others = stages
      PROVE  SomeStageScaled(q, others, its) <=> SomeStageScaled(p, stages, pricing)
  BY <1>6 DEF SomeStageScaled
<1>7. ASSUME other = key, SomeStageScaled(p, stages, pricing)
      PROVE  q.storage_scaling = p.storage_scaling /\ q.rounding = p.rounding /\ q.offset = p.offset
  <2>1. <<q.storage_scaling, q.rounding, q.offset>> = <<p.storage_scaling, p.rounding, p.offset>>
    BY <1>5, <1>6, <1>7 DEF KeyLayout
  <2>. QED
    BY <2>1
<1>8. ASSUME others = stages, copies = replicates, q.internal = p.internal,
             \A s \in stages : ChosenStages(q, stages, its)[s] = c[s],
             SomeStageScaled(p, stages, pricing) =>
                q.storage_scaling = p.storage_scaling /\ q.rounding = p.rounding /\ q.offset = p.offset
      PROVE  other = key
  <2>1. d = c
    <3>1. \A s \in stages : (IF s = "pricing" THEN its ELSE q.stages[s]) = (IF s = "pricing" THEN pricing ELSE p.stages[s])
      BY <1>8 DEF ChosenStages
    <3>. QED
      BY <3>1, <1>8 DEF ChosenStages
  <2>2. ~AllFloat64(q, others, its)
    BY <2>1, <1>8 DEF AllFloat64
  <2>3. KeyLayout(q, others, its) = KeyLayout(p, stages, pricing)
    BY <2>1, <1>6, <1>8 DEF KeyLayout
  <2>. QED
    BY <2>1, <2>2, <2>3, <1>1, <1>2, <1>8
<1>9. ASSUME other = key
      PROVE  \A s \in stages : ChosenStages(q, stages, its)[s] = c[s]
  BY <1>5, <1>9
<1>. QED
  BY <1>5, <1>7, <1>8, <1>9

\* The rows of the table are those of its campaigns.
LEMMA RowsAre ==
  /\ \A r \in EvidenceRows : \E c \in Campaigns : \E k \in DOMAIN c.ceilings :
                                \E scope \in DOMAIN c.settings \cup {c.figures.aggregate} : r = Row(c, scope, k)
  /\ \A c \in Campaigns : \A k \in DOMAIN c.ceilings :
       \A scope \in DOMAIN c.settings \cup {c.figures.aggregate} : Row(c, scope, k) \in EvidenceRows
BY DEF EvidenceRows

\* What a row says.
LEMMA RowFields ==
  ASSUME NEW c, NEW scope, NEW k
  PROVE  /\ Row(c, scope, k).combination =
              combination(c.precision, c.figures.stages, c.precision.stages["pricing"], c.replicates)
         /\ Row(c, scope, k).paired = IF k \in c.figures.corrected THEN c.precision.paired ELSE 0
         /\ Row(c, scope, k).scope = scope /\ Row(c, scope, k).figure = k
         /\ Row(c, scope, k).ceiling = c.ceilings[k] /\ Row(c, scope, k).settings = c.settings
BY DEF Row

\* A key the table validates was measured: by campaigns like it, and by the nearest of
\* them to at least as many paths.
LEMMA KeyMeasured ==
  ASSUME NEW figures \in Figures, NEW k \in figures.total, NEW pricing, NEW replicates, NEW settings, NEW paths,
         NEW scope, scope \in DOMAIN settings \cup {figures.aggregate},
         request.precision.paired \in 0 .. 4,
         ~AllFloat64(request.precision, figures.stages, pricing),
         Validated(EvidenceRows, combination(request.precision, figures.stages, pricing, replicates), scope, k,
                   settings, IF k \in figures.corrected THEN request.precision.paired ELSE 0, paths)
  PROVE  MeasuredIn(figures, k, pricing, replicates, settings, paths)
<1> DEFINE p == request.precision
           key == combination(p, figures.stages, pricing, replicates)
           paired == IF k \in figures.corrected THEN p.paired ELSE 0
           Like(c) == MeasuredLikeIt(c, figures, k, pricing, replicates, settings)
           like == {c \in Campaigns : Like(c)}
           measured == {r \in Candidates(EvidenceRows, key, scope, k, paired) : holds(r, settings)}
           nearest == {r \in measured : \A other \in measured : other.paired <= r.paired}
<1>1. "pricing" \in figures.stages /\ \A other \in Figures : other.stages = figures.stages => other = figures
  BY FiguresAre
(* What a campaign's key tells. *)
<1>2. ASSUME NEW c \in Campaigns
      PROVE  combination(c.precision, c.figures.stages, c.precision.stages["pricing"], c.replicates) = key <=>
               /\ c.figures = figures /\ c.replicates = replicates /\ c.precision.internal = p.internal
               /\ \A s \in figures.stages : c.precision.stages[s] = IF s = "pricing" THEN pricing ELSE p.stages[s]
               /\ SomeStageScaled(p, figures.stages, pricing) =>
                    /\ c.precision.storage_scaling = p.storage_scaling
                    /\ c.precision.rounding = p.rounding /\ c.precision.offset = p.offset
  <2> DEFINE q == c.precision
             its == q.stages["pricing"]
  <2>1. c.figures.stages = figures.stages <=> c.figures = figures
    BY <1>1, <1>2, CampaignsAssumption DEF Figures
  <2>2. /\ \A s \in figures.stages : ChosenStages(q, figures.stages, its)[s] = q.stages[s]
        /\ \A s \in figures.stages : ChosenStages(p, figures.stages, pricing)[s] = IF s = "pricing" THEN pricing ELSE p.stages[s]
    BY DEF ChosenStages
  <2>3. combination(q, c.figures.stages, its, c.replicates) = key <=>
           /\ c.figures.stages = figures.stages /\ c.replicates = replicates /\ q.internal = p.internal
           /\ \A s \in figures.stages : ChosenStages(q, figures.stages, its)[s] = ChosenStages(p, figures.stages, pricing)[s]
           /\ SomeStageScaled(p, figures.stages, pricing) =>
                q.storage_scaling = p.storage_scaling /\ q.rounding = p.rounding /\ q.offset = p.offset
    BY SameKey
  <2>. HIDE DEF key, q, its, p
  <2>. QED
    BY <2>1, <2>2, <2>3 DEF q, its
<1>3. SomeStageScaled(p, figures.stages, pricing) <=>
        {s \in {pricing} \cup {p.stages[s] : s \in figures.stages \ {"pricing"}} : FORMATS[s.storage].scaled} # {}
  <2>1. ASSUME SomeStageScaled(p, figures.stages, pricing)
        PROVE  \E s \in {pricing} \cup {p.stages[s] : s \in figures.stages \ {"pricing"}} : FORMATS[s.storage].scaled
    BY <2>1 DEF SomeStageScaled, ChosenStages
  <2>2. ASSUME NEW s \in {pricing} \cup {p.stages[s] : s \in figures.stages \ {"pricing"}}, FORMATS[s.storage].scaled
        PROVE  SomeStageScaled(p, figures.stages, pricing)
    <3>1. PICK n \in figures.stages : s = IF n = "pricing" THEN pricing ELSE p.stages[n]
      BY <2>2, <1>1
    <3>2. ChosenStages(p, figures.stages, pricing)[n] = s
      BY <3>1 DEF ChosenStages
    <3>. QED
      BY <3>1, <3>2, <2>2 DEF SomeStageScaled
  <2>. QED
    BY <2>1, <2>2
<1>4. ASSUME NEW c \in Campaigns
      PROVE  Like(c) <=>
               /\ combination(c.precision, c.figures.stages, c.precision.stages["pricing"], c.replicates) = key
               /\ \A product \in DOMAIN settings :
                    product \in DOMAIN c.settings /\ c.settings[product] = settings[product]
               /\ k \in figures.corrected => c.precision.paired <= p.paired /\ (c.precision.paired = 0 <=> p.paired = 0)
  BY <1>2, <1>3 DEF MeasuredLikeIt
<1>5. measured # {} /\ \A r \in nearest : paths <= r.ceiling
  BY DEF Validated
<1>6. ASSUME NEW r \in measured PROVE \E c \in like : k \in DOMAIN c.ceilings /\ r = Row(c, scope, k)
  <2>1. /\ r \in EvidenceRows /\ r.combination = key /\ r.scope = scope /\ r.figure = k /\ holds(r, settings)
        /\ IF paired > 0 THEN r.paired \in 1 .. paired ELSE r.paired = 0
    BY <1>6 DEF Candidates
  <2>2. PICK c \in Campaigns : \E figure \in DOMAIN c.ceilings :
                \E about \in DOMAIN c.settings \cup {c.figures.aggregate} : r = Row(c, about, figure)
    BY <2>1, RowsAre
  <2>a. PICK figure \in DOMAIN c.ceilings, about \in DOMAIN c.settings \cup {c.figures.aggregate} :
          r = Row(c, about, figure)
    BY <2>2
  <2>3. figure = k /\ about = scope
    BY <2>1, <2>a, RowFields
  <2>4. /\ combination(c.precision, c.figures.stages, c.precision.stages["pricing"], c.replicates) = key
        /\ r.settings = c.settings /\ r.paired = IF k \in c.figures.corrected THEN c.precision.paired ELSE 0
    BY <2>1, <2>a, <2>3, RowFields
  <2>5. c.figures = figures
    BY <2>4, <1>2
  <2>6. k \in figures.corrected => c.precision.paired <= p.paired /\ (c.precision.paired = 0 <=> p.paired = 0)
    <3>1. ASSUME k \in figures.corrected PROVE c.precision.paired <= p.paired /\ (c.precision.paired = 0 <=> p.paired = 0)
      <4>1. r.paired = c.precision.paired /\ paired = p.paired
        BY <3>1, <2>4, <2>5
      <4>. QED
        BY <4>1, <2>1
    <3>. QED
      BY <3>1
  <2>7. Like(c)
    BY <2>1, <2>4, <2>6, <1>4 DEF holds
  <2>. QED
    BY <2>a, <2>3, <2>7
<1>7. ASSUME NEW c \in like
      PROVE  /\ Row(c, scope, k) \in measured /\ k \in DOMAIN c.ceilings /\ c.figures = figures
             /\ Row(c, scope, k).paired = IF k \in figures.corrected THEN c.precision.paired ELSE 0
  <2>1. /\ combination(c.precision, c.figures.stages, c.precision.stages["pricing"], c.replicates) = key
        /\ \A product \in DOMAIN settings : product \in DOMAIN c.settings /\ c.settings[product] = settings[product]
        /\ k \in figures.corrected => c.precision.paired <= p.paired /\ (c.precision.paired = 0 <=> p.paired = 0)
    BY <1>4, <1>7
  <2>2. c.figures = figures /\ c.precision.paired \in Nat /\ DOMAIN c.ceilings = figures.total
    BY <2>1, <1>2, CampaignsAssumption
  <2>3. scope \in DOMAIN c.settings \cup {c.figures.aggregate}
    BY <2>1, <2>2
  <2>4. Row(c, scope, k) \in EvidenceRows
    BY <2>2, <2>3, RowsAre
  <2>5. Row(c, scope, k).paired = IF k \in figures.corrected THEN c.precision.paired ELSE 0
    BY <2>2, RowFields
  <2>6. IF paired > 0 THEN Row(c, scope, k).paired \in 1 .. paired ELSE Row(c, scope, k).paired = 0
    <3>1. CASE k \in figures.corrected
      BY <3>1, <2>1, <2>2, <2>5
    <3>2. CASE k \notin figures.corrected
      BY <3>2, <2>5
    <3>. QED
      BY <3>1, <3>2
  <2>7. Row(c, scope, k).combination = key /\ Row(c, scope, k).scope = scope /\ Row(c, scope, k).figure = k
    BY <2>1, RowFields
  <2>8. holds(Row(c, scope, k), settings)
    BY <2>1, RowFields DEF holds
  <2>. QED
    BY <2>2, <2>4, <2>5, <2>6, <2>7, <2>8 DEF Candidates
<1>8. like # {}
  BY <1>5, <1>6
<1>9. ASSUME NEW c \in like, k \in figures.corrected => \A d \in like : d.precision.paired <= c.precision.paired
      PROVE  paths <= c.ceilings[k]
  <2>1. Row(c, scope, k) \in measured
    BY <1>7
  <2>2. ASSUME NEW other \in measured PROVE other.paired <= Row(c, scope, k).paired
    <3>1. PICK d \in like : other = Row(d, scope, k)
      BY <1>6
    <3>. QED
      BY <3>1, <1>7, <1>9
  <2>3. Row(c, scope, k) \in nearest
    BY <2>1, <2>2
  <2>. QED
    BY <2>3, <1>5, RowFields
<1>. QED
  BY <1>8, <1>9 DEF MeasuredIn

\* The reference needs no measurement.
LEMMA ReferenceMeasured ==
  ASSUME NEW figures \in Figures, NEW k, NEW pricing, NEW replicates, NEW settings, NEW paths,
         AllFloat64(request.precision, figures.stages, pricing)
  PROVE  MeasuredIn(figures, k, pricing, replicates, settings, paths)
<1> DEFINE p == request.precision
<1>1. \A s \in figures.stages : ChosenStages(p, figures.stages, pricing)[s] = Throughout("float64")
  BY DEF AllFloat64
<1>2. \A s \in figures.stages : ChosenStages(p, figures.stages, pricing)[s] = IF s = "pricing" THEN pricing ELSE p.stages[s]
  BY DEF ChosenStages
<1>3. pricing = Throughout("float64")
  BY <1>1, <1>2, FiguresAre
<1>4. \A s \in figures.stages \ {"pricing"} : p.stages[s] = Throughout("float64")
  BY <1>1, <1>2
<1>5. p.internal = [r \in ROLES |-> "float64"]
  BY DEF AllFloat64
<1>. QED
  BY <1>3, <1>4, <1>5 DEF MeasuredIn

\* A figure that no warning names, of one key, was measured.
LEMMA NotMissing ==
  ASSUME NEW figures \in Figures, NEW kinds, kinds \subseteq figures.total, NEW k \in kinds,
         NEW pricing, NEW replicates, NEW settings, NEW paths, NEW scope,
         scope \in DOMAIN settings \cup {figures.aggregate}, request.precision.paired \in 0 .. 4,
         LET key == combination(request.precision, figures.stages, pricing, replicates)
         IN  k \notin (IF key = Reference THEN {}
                       ELSE MissingKinds(EvidenceRows, request.precision, figures, kinds, key, scope, settings, paths))
  PROVE  MeasuredIn(figures, k, pricing, replicates, settings, paths)
<1> DEFINE key == combination(request.precision, figures.stages, pricing, replicates)
<1>1. CASE AllFloat64(request.precision, figures.stages, pricing)
  BY <1>1, ReferenceMeasured
<1>2. CASE ~AllFloat64(request.precision, figures.stages, pricing)
  <2>1. key # Reference
    <3>1. "stages" \in DOMAIN key /\ "stages" \notin DOMAIN Reference
      BY <1>2, CombinationIs DEF Reference
    <3>. QED
      BY <3>1
  <2>2. Validated(EvidenceRows, key, scope, k, settings,
                  IF k \in figures.corrected THEN request.precision.paired ELSE 0, paths)
    BY <2>1 DEF MissingKinds
  <2>. QED
    BY <1>2, <2>2, KeyMeasured
<1>. QED
  BY <1>1, <1>2

\* The stages the trades are priced in are finitely many.
LEMMA PricingStagesFinite ==
  ASSUME request \in Requests
  PROVE  /\ IsFiniteSet(PricingStages(request.precision, Range(request.portfolio)))
         /\ Range(request.portfolio) # {} => PricingStages(request.precision, Range(request.portfolio)) # {}
<1> DEFINE S == 1 .. Len(request.portfolio)
           T == PricingStages(request.precision, Range(request.portfolio))
           f == [i \in S |-> precision_for(request.precision, request.portfolio[i])]
<1>1. DOMAIN request.portfolio = S /\ Len(request.portfolio) \in Nat
  BY TradeTyped
<1>2. T = {precision_for(request.precision, request.portfolio[i]) : i \in S}
  BY <1>1 DEF PricingStages, Range
<1>3. f \in Surjection(S, T)
  BY <1>2 DEF Surjection
<1>4. IsFiniteSet(S)
  <2>1. 1 \in Int /\ Len(request.portfolio) \in Int
    BY <1>1
  <2>. QED
    BY <2>1, FS_Interval
<1>5. IsFiniteSet(T)
  BY <1>3, <1>4, FS_Surjection
<1>. QED
  BY <1>5 DEF PricingStages

\* A figure of a run that no warning names was measured.
LEMMA UnwarnedMeasured ==
  ASSUME request \in Requests, request.precision.paired \in 0 .. 4,
         NEW figures \in Figures, NEW recalibrated, NEW paths, NEW replicates
  PROVE  UnwarnedIsMeasured(figures, recalibrated, paths, replicates)
<1> DEFINE p == request.precision
           trades == Range(request.portfolio)
           settings == pricing_settings(request.pricing, trades, recalibrated)
           warned == evidence_warnings(EvidenceRows, p, trades, figures, settings, paths, replicates)
           Key(pricing) == combination(p, figures.stages, pricing, replicates)
           OfTrade(t) ==
             IF Key(precision_for(p, t)) = Reference THEN {}
             ELSE MissingKinds(EvidenceRows, p, figures, figures.trade, Key(precision_for(p, t)), t.product,
                               [product \in {t.product} |-> settings[product]], paths)
           stages == PricingStages(p, trades)
           OfOne ==
             IF Key(CHOOSE s \in stages : TRUE) = Reference THEN {}
             ELSE MissingKinds(EvidenceRows, p, figures, figures.total, Key(CHOOSE s \in stages : TRUE),
                               figures.aggregate, settings, paths)
           OfAggregate ==
             CASE Cardinality(stages) > 1 -> figures.total
               [] stages = {} -> {}
               [] Cardinality(stages) = 1 -> OfOne
<1>1. warned = (UNION {{<<t.id, k>> : k \in OfTrade(t)} : t \in trades}) \cup {<<figures.aggregate, k>> : k \in OfAggregate}
  BY DEF evidence_warnings
<1>2. figures.trade \subseteq figures.total
  BY FiguresAre
<1>3. ASSUME NEW t \in trades, NEW k \in figures.trade, <<t.id, k>> \notin warned
      PROVE  MeasuredIn(figures, k, precision_for(p, t), replicates, [product \in {t.product} |-> settings[product]], paths)
  <2>1. k \notin OfTrade(t)
    <3>. HIDE DEF OfTrade, OfAggregate
    <3>. QED
      BY <1>1, <1>3
  <2>2. t.product \in DOMAIN [product \in {t.product} |-> settings[product]]
    OBVIOUS
  <2>. HIDE DEF settings, trades
  <2>. QED
    BY <1>2, <1>3, <2>1, <2>2, NotMissing
<1>4. ASSUME NEW t \in trades, NEW k \in figures.total, <<figures.aggregate, k>> \notin warned
      PROVE  MeasuredIn(figures, k, precision_for(p, t), replicates, settings, paths)
  <2>1. k \notin OfAggregate
    <3>. HIDE DEF OfTrade, OfAggregate
    <3>. QED
      BY <1>1, <1>4
  <2>2. IsFiniteSet(stages) /\ stages # {}
    BY <1>4, PricingStagesFinite
  <2>3. Cardinality(stages) \in Nat /\ Cardinality(stages) # 0
    BY <2>2, FS_CardinalityType, FS_EmptySet
  <2>4. ~(Cardinality(stages) > 1)
    <3>. HIDE DEF OfOne, stages
    <3>1. ASSUME Cardinality(stages) > 1 PROVE OfAggregate = figures.total
      <4>1. stages # {}
        BY <2>2
      <4>2. Cardinality(stages) # 1
        BY <2>3, <3>1
      <4>. QED
        BY <3>1, <4>1, <4>2
    <3>. HIDE DEF OfAggregate
    <3>. QED
      BY <2>1, <3>1
  <2>5. Cardinality(stages) = 1
    BY <2>3, <2>4
  <2>6. k \notin OfOne
    <3>. HIDE DEF OfOne, stages
    <3>. QED
      BY <2>1, <2>2, <2>4, <2>5
  <2>7. PICK x : stages = {x}
    BY <2>2, <2>5, FS_Singleton
  <2>8. precision_for(p, t) \in stages
    BY <1>4 DEF PricingStages
  <2>9. (CHOOSE s \in stages : TRUE) = precision_for(p, t)
    <3>. HIDE DEF stages
    <3>. QED
      BY <2>7, <2>8
  <2>10. k \notin (IF Key(precision_for(p, t)) = Reference THEN {}
                   ELSE MissingKinds(EvidenceRows, p, figures, figures.total, Key(precision_for(p, t)),
                                     figures.aggregate, settings, paths))
    <3>. HIDE DEF stages, settings, Key
    <3>. QED
      BY <2>6, <2>9
  <2>. HIDE DEF settings, trades
  <2>. QED
    BY <1>4, <2>10, NotMissing
<1>. QED
  BY <1>3, <1>4 DEF UnwarnedIsMeasured

\* A finished run's precision is kept and told: its checks hold where the setting is
\* used, and a figure that carries no warning has a campaign of the evidence table
\* that measured it in this run's precision, for its products as they were priced
\* and for as many paths (evidence.py's evidence_warnings).
THEOREM PolicyKept == RunSpec => []PolicyIsKept
<1>1. RunInv => FormatsAreChecked
  BY RunInvGives DEF FormatsAreChecked
<1>2. RunInv => ValidatedIsMeasured
  <2>1. SUFFICES ASSUME RunInv, progress = "done" PROVE ValidatedIsMeasured
    BY DEF ValidatedIsMeasured
  <2>2. request \in Requests /\ request.precision.paired \in 0 .. 4
    BY <2>1, PairedShare DEF RunInv
  <2>. QED
    BY <2>2, UnwarnedMeasured DEF ValidatedIsMeasured, Figures
<1>3. RunInv => PolicyIsKept
  BY <1>1, <1>2 DEF PolicyIsKept
<1>. QED
  BY <1>3, RunInvInvariant, PTL

---------------------------------------------------------------------------
(* The root solver. *)

\* Powers of two, by the subsets they count.
LEMMA Doubles ==
  ASSUME NEW n \in Nat
  PROVE  2 ^ (n + 1) = 2 * 2 ^ n
<1> DEFINE A == SUBSET (1 .. n)
           plus(s) == s \cup {n + 1}
           B == {plus(s) : s \in A}
<1>1. IsFiniteSet(1 .. n) /\ Cardinality(1 .. n) = n
  <2>1. 1 <= n => Cardinality(1 .. n) = n - 1 + 1
    BY FS_Interval
  <2>2. 1 > n => Cardinality(1 .. n) = 0
    BY FS_Interval
  <2>3. IsFiniteSet(1 .. n)
    BY FS_Interval
  <2>. QED
    BY <2>1, <2>2, <2>3
<1>2. IsFiniteSet(1 .. n + 1) /\ Cardinality(1 .. n + 1) = n + 1
  <2>1. n + 1 \in Int /\ 1 <= n + 1
    OBVIOUS
  <2>2. Cardinality(1 .. n + 1) = (n + 1) - 1 + 1
    BY <2>1, FS_Interval
  <2>3. IsFiniteSet(1 .. n + 1)
    BY <2>1, FS_Interval
  <2>. QED
    BY <2>2, <2>3
<1>3. IsFiniteSet(A) /\ Cardinality(A) = 2 ^ n
  BY <1>1, FS_SUBSET
<1>4. Cardinality(SUBSET (1 .. n + 1)) = 2 ^ (n + 1)
  BY <1>2, FS_SUBSET
<1>5. SUBSET (1 .. n + 1) = A \cup B
  <2>1. ASSUME NEW s \in SUBSET (1 .. n + 1) PROVE s \in A \cup B
    <3>1. CASE n + 1 \notin s
      <4>1. s \subseteq 1 .. n
        BY <2>1, <3>1
      <4>. QED
        BY <4>1
    <3>2. CASE n + 1 \in s
      <4>1. s \ {n + 1} \in A
        BY <2>1
      <4>2. s = plus(s \ {n + 1})
        BY <3>2
      <4>. QED
        BY <4>1, <4>2
    <3>. QED
      BY <3>1, <3>2
  <2>2. ASSUME NEW s \in A \cup B PROVE s \in SUBSET (1 .. n + 1)
    <3>1. 1 .. n \subseteq 1 .. n + 1 /\ n + 1 \in 1 .. n + 1
      OBVIOUS
    <3>. QED
      BY <2>2, <3>1
  <2>. QED
    BY <2>1, <2>2
<1>6. A \cap B = {}
  <2>1. n + 1 \notin 1 .. n
    OBVIOUS
  <2>. QED
    BY <2>1
<1>7. IsFiniteSet(B) /\ Cardinality(B) = Cardinality(A)
  <2> DEFINE f == [s \in A |-> plus(s)]
  <2>1. f \in Bijection(A, B)
    <3>1. \A s, t \in A : plus(s) = plus(t) => s = t
      <4>1. \A s \in A : n + 1 \notin s
        OBVIOUS
      <4>2. \A s \in A : s = plus(s) \ {n + 1}
        BY <4>1
      <4>. QED
        BY <4>2
    <3>2. f \in Injection(A, B)
      <4>1. f \in [A -> B] /\ DOMAIN f = A
        OBVIOUS
      <4>2. \A s, t \in A : f[s] = f[t] => s = t
        BY <3>1
      <4>. QED
        BY <4>1, <4>2 DEF Injection, IsInjective
    <3>3. f \in Surjection(A, B)
      BY DEF Surjection
    <3>. QED
      BY <3>2, <3>3 DEF Bijection
  <2>2. ExistsBijection(A, B)
    BY <2>1 DEF ExistsBijection
  <2>. QED
    BY <2>2, <1>3, FS_Bijection
<1>8. Cardinality(A \cup B) = Cardinality(A) + Cardinality(B) - Cardinality(A \cap B)
  BY <1>3, <1>7, FS_Union
<1>9. Cardinality(A \cap B) = 0
  BY <1>6, FS_EmptySet
<1>10. 2 ^ n \in Int
  OBVIOUS
<1> HIDE DEF A, B
<1>11. Cardinality(A \cup B) = 2 ^ n + 2 ^ n - 0
  BY <1>3, <1>7, <1>8, <1>9
<1>12. 2 ^ (n + 1) = 2 ^ n + 2 ^ n - 0
  BY <1>4, <1>5, <1>11
<1>. QED
  BY <1>10, <1>12

\* The middle is between, within half of either end.
LEMMA MidBetween ==
  ASSUME NEW a \in Int, NEW b \in Int, a <= b
  PROVE  /\ Mid(a, b) \in Int /\ a <= Mid(a, b) /\ Mid(a, b) <= b
         /\ 2 * (Mid(a, b) - a) <= b - a /\ 2 * (b - Mid(a, b)) <= b - a + 1
BY DEF Mid

\* What a problem has.
LEMMA ProblemTyped ==
  ASSUME NEW p \in RootProblems
  PROVE  /\ p.solver = "Newton" \/ p.solver = "Bisection"
         /\ p.bounded \in BOOLEAN /\ p.at \in Int /\ p.count \in Nat /\ p.monotone \in Nat /\ NOISE <= p.monotone
         /\ p.bracket \in Int \X Int /\ p.bracket[1] \in Int /\ p.bracket[2] \in Int
         /\ p.start \in Int \/ p.start = NoPoint
BY ProblemsAssumption

\* The side a computed value puts the root on is right to its rounding.
LEMMA ValueTells ==
  ASSUME NEW x \in Int, NEW side \in Sides(x), problem.at \in Int
  PROVE  /\ side = "above" => x - NOISE <= problem.at
         /\ side # "above" => problem.at <= x + NOISE
         /\ side = "below" => problem.at <= x + NOISE
         /\ side # "below" => x - NOISE <= problem.at
         /\ problem.at < x - NOISE => side = "below"
         /\ x + NOISE < problem.at => side = "above"
         /\ AtRoot(x) <=> (x - NOISE <= problem.at /\ problem.at <= x + NOISE)
BY RoundingAssumption DEF Sides, AtRoot

\* An end of a widened bracket is one of the candidates, and whether the root is beyond
\* it is what a computed value there says.
LEMMA EndIsComputed ==
  ASSUME problem \in RootProblems, NEW end \in Int, NEW sides \in Computed(end), NEW past
  PROVE  /\ \E k \in DOMAIN Scales : Widened(end, sides, past).end = Scales[k] * end
         /\ Widened(end, sides, past).end \in Int /\ Widened(end, sides, past).beyond \in BOOLEAN
         /\ \E side \in Sides(Widened(end, sides, past).end) : Widened(end, sides, past).beyond <=> side = past
<1> DEFINE held  == {k \in DOMAIN Scales : sides[k] # past}
           first == CHOOSE k \in held : \A l \in held : k <= l
           w     == Widened(end, sides, past)
<1>1. Scales \in Seq(Nat \ {0}) /\ Scales # <<>>
  <2>1. <<1>> \in Seq(Nat \ {0}) /\ <<1>> # <<>>
    OBVIOUS
  <2>. QED
    BY <2>1, WideningAssumption DEF Scales
<1>2. Len(Scales) \in DOMAIN Scales /\ DOMAIN Scales \subseteq Nat /\ \A k \in DOMAIN Scales : Scales[k] \in Nat \ {0}
  BY <1>1
<1>3. \A k \in DOMAIN Scales : sides[k] \in Sides(Scales[k] * end)
  BY DEF Computed
<1>4. CASE held = {}
  <2>1. w = [end |-> Scales[Len(Scales)] * end, beyond |-> TRUE]
    BY <1>4 DEF Widened
  <2>2. sides[Len(Scales)] = past
    BY <1>4, <1>2
  <2>3. Scales[Len(Scales)] * end \in Int
    BY <1>2
  <2>. QED
    BY <2>1, <2>2, <2>3, <1>2, <1>3
<1>5. CASE held # {}
  <2>1. w = [end |-> Scales[first] * end, beyond |-> FALSE]
    BY <1>5 DEF Widened
  <2>2. held \subseteq Nat
    BY <1>2
  <2>3. \E k \in held : \A l \in held : k <= l
    BY <2>2, <1>5, SmallestIn
  <2>4. first \in held
    BY <2>3
  <2>5. first \in DOMAIN Scales /\ sides[first] # past
    BY <2>4
  <2> HIDE DEF first, held
  <2>6. Scales[first] * end \in Int
    BY <2>5, <1>2
  <2>. QED
    BY <2>1, <2>5, <2>6, <1>2, <1>3
<1>. QED
  BY <1>4, <1>5

\* The ends are in order, and near enough for bisection's steps.
LEMMA EndsInOrder ==
  ASSUME problem \in RootProblems, NEW j \in DOMAIN Scales, NEW k \in DOMAIN Scales
  PROVE  /\ Scales[j] * problem.bracket[1] <= Scales[k] * problem.bracket[2]
         /\ problem.solver = "Bisection" =>
              Scales[k] * problem.bracket[2] - Scales[j] * problem.bracket[1] <= 2 ^ problem.count
<1> DEFINE multiples == IF problem.bounded THEN {1} ELSE {WIDENING[i] : i \in DOMAIN WIDENING}
           lo == problem.bracket[1]
           hi == problem.bracket[2]
<1>1. Scales[j] \in multiples /\ Scales[k] \in multiples
  BY WideningAssumption, ProblemTyped DEF Scales
<1>2. lo \in Int /\ hi \in Int /\ Scales[j] \in Nat /\ Scales[k] \in Nat
  BY <1>1, WideningAssumption, ProblemTyped
<1>3. problem.solver = "Bisection" => Scales[k] * hi - Scales[j] * lo <= 2 ^ problem.count
  BY <1>1, ProblemsAssumption
<1>4. CASE problem.bounded
  <2>1. Scales[j] = 1 /\ Scales[k] = 1
    BY <1>1, <1>4
  <2>2. lo <= hi
    BY <1>4, ProblemsAssumption
  <2>3. Scales[j] * lo <= Scales[k] * hi
    BY <2>1, <2>2, <1>2
  <2>. QED
    BY <2>3, <1>3
<1>5. CASE ~problem.bounded
  <2>1. lo <= 0 /\ 0 <= hi
    BY <1>5, ProblemsAssumption
  <2>2. Scales[j] * lo <= 0 /\ 0 <= Scales[k] * hi
    <3>1. \A m \in Nat, x \in Int : (x <= 0 => m * x <= 0) /\ (0 <= x => 0 <= m * x)
      OBVIOUS
    <3>. QED
      BY <2>1, <1>2, <3>1
  <2>3. Scales[j] * lo \in Int /\ Scales[k] * hi \in Int
    BY <1>2
  <2>4. Scales[j] * lo <= Scales[k] * hi
    BY <2>2, <2>3
  <2>. QED
    BY <2>4, <1>3
<1>. QED
  BY <1>4, <1>5

(***************************************************************************)
(* The invariant.                                                          *)
(***************************************************************************)
\* An end is beyond the root or not as f's value there said, to the value's own rounding.
EndsHold ==
  /\ ends.lo.end \in Int /\ ends.hi.end \in Int /\ ends.lo.end <= ends.hi.end
  /\ ends.lo.beyond \in BOOLEAN /\ ends.hi.beyond \in BOOLEAN
  /\ ends.lo.beyond => problem.at <= ends.lo.end + NOISE
  /\ ends.hi.beyond => ends.hi.end - NOISE <= problem.at
  /\ problem.at < ends.lo.end - NOISE => ends.lo.beyond
  /\ ends.hi.end + NOISE < problem.at => ends.hi.beyond

\* The bracket lies within its ends, around the root it can hold and around Newton's point.
BracketHolds ==
  /\ ends.lo.end <= bracket[1] /\ bracket[1] <= bracket[2] /\ bracket[2] <= ends.hi.end
  /\ Reachable => bracket[1] - NOISE <= problem.at /\ problem.at <= bracket[2] + NOISE
  /\ problem.solver = "Newton" => bracket[1] <= point /\ point <= bracket[2]
  /\ problem.solver = "Newton" /\ found => AtRoot(point)

\* What bisection has left is at most what its remaining steps halve, at the end the root is beyond.
HalvesLeft ==
  problem.solver = "Bisection" =>
    /\ bracket[2] - bracket[1] <= 2 ^ (problem.count - taken_steps) + 1
    /\ problem.at < ends.lo.end - NOISE => bracket[1] = ends.lo.end
    /\ ends.hi.end + NOISE < problem.at => bracket[2] = ends.hi.end

AnswerHolds ==
  root # NoPoint =>
    /\ taken_steps = problem.count
    /\ Reachable /\ problem.solver = "Newton" /\ found => AtRoot(root)
    /\ Reachable /\ problem.solver = "Bisection" => root - problem.at \in -NOISE - 1 .. NOISE + 1
    /\ problem.at < ends.lo.end - NOISE => root - ends.lo.end \in 0 .. NOISE
    /\ problem.at > ends.hi.end + NOISE => ends.hi.end - root \in 0 .. NOISE

RootInv ==
  /\ bracket \in Int \X Int /\ point \in Int /\ taken_steps \in Nat
  /\ problem \in RootProblems \cup {NoPoint}
  /\ ends = NoPoint => /\ taken_steps = 0 /\ root = NoPoint
                       /\ problem # NoPoint => bracket = problem.bracket
  /\ ends # NoPoint =>
       /\ problem # NoPoint /\ taken_steps <= problem.count
       /\ EndsHold /\ BracketHolds /\ HalvesLeft /\ AnswerHolds

\* The invariant has what a caller of the solver relies on.
LEMMA RootInvGives == RootInv => RootsAreKept
<1> SUFFICES ASSUME RootInv, ends # NoPoint PROVE RootsAreKept
  BY DEF RootsAreKept
<1>. QED
  BY DEF RootsAreKept, RootInv, EndsHold, BracketHolds, AnswerHolds

\* It holds before a problem is posed.
LEMMA RootInitHolds == RootInit => RootInv
BY DEF RootInit, RootInv

\* Posing one keeps it.
LEMMA PoseKeeps == ASSUME RootInv, Pose PROVE RootInv'
<1>1. PICK p \in RootProblems : problem' = p /\ bracket' = p.bracket
  BY DEF Pose
<1>2. problem = NoPoint /\ UNCHANGED <<ends, point, found, taken_steps, root>>
  BY DEF Pose
<1>3. ends = NoPoint
  BY <1>2 DEF RootInv
<1>4. p.bracket \in Int \X Int
  BY ProblemTyped
<1>. QED
  BY <1>1, <1>2, <1>3, <1>4 DEF RootInv

\* Widening keeps it: the ends found hold the root or are the ones it is beyond.
LEMMA WidenKeeps == ASSUME RootInv, Widen PROVE RootInv'
<1>1. PICK low \in Computed(bracket[1]), high \in Computed(bracket[2]) :
        LET lo == Widened(bracket[1], low, "below")
            hi == Widened(bracket[2], high, "above")
            x  == IF problem.start = NoPoint THEN Mid(lo.end, hi.end) ELSE Clip(problem.start, lo.end, hi.end)
        IN  /\ bracket' = <<lo.end, hi.end>> /\ ends' = [lo |-> lo, hi |-> hi]
            /\ point' = x /\ found' = AtRoot(x)
  BY DEF Widen
<1> DEFINE lo == Widened(bracket[1], low, "below")
           hi == Widened(bracket[2], high, "above")
           x  == IF problem.start = NoPoint THEN Mid(lo.end, hi.end) ELSE Clip(problem.start, lo.end, hi.end)
<1>2. /\ problem # NoPoint /\ ends = NoPoint
      /\ UNCHANGED <<problem, taken_steps, root>>
  BY DEF Widen
<1>3. problem \in RootProblems /\ taken_steps = 0 /\ root = NoPoint /\ bracket = problem.bracket
  BY <1>2 DEF RootInv
<1>4. /\ bracket[1] \in Int /\ bracket[2] \in Int /\ problem.at \in Int /\ problem.count \in Nat
      /\ problem.start \in Int \/ problem.start = NoPoint
  BY <1>3, ProblemTyped
<1>5. /\ \E k \in DOMAIN Scales : lo.end = Scales[k] * bracket[1]
      /\ lo.end \in Int /\ lo.beyond \in BOOLEAN
      /\ \E side \in Sides(lo.end) : lo.beyond <=> side = "below"
  BY <1>3, <1>4, EndIsComputed
<1>6. /\ \E k \in DOMAIN Scales : hi.end = Scales[k] * bracket[2]
      /\ hi.end \in Int /\ hi.beyond \in BOOLEAN
      /\ \E side \in Sides(hi.end) : hi.beyond <=> side = "above"
  BY <1>3, <1>4, EndIsComputed
<1>7. /\ lo.end <= hi.end
      /\ problem.solver = "Bisection" => hi.end - lo.end <= 2 ^ problem.count
  BY <1>3, <1>5, <1>6, EndsInOrder
<1> HIDE DEF lo, hi
<1>8. x \in Int /\ lo.end <= x /\ x <= hi.end
  <2>1. CASE problem.start = NoPoint
    BY <2>1, <1>5, <1>6, <1>7, MidBetween
  <2>2. CASE problem.start # NoPoint
    BY <2>2, <1>4, <1>5, <1>6, <1>7 DEF Clip
  <2>. QED
    BY <2>1, <2>2
<1>9. bracket' = <<lo.end, hi.end>> /\ ends' = [lo |-> lo, hi |-> hi] /\ point' = x /\ found' = AtRoot(x)
  BY <1>1 DEF lo, hi
<1> HIDE DEF x
<1>10. ends'.lo = lo /\ ends'.hi = hi /\ bracket'[1] = lo.end /\ bracket'[2] = hi.end
  BY <1>9
<1>11. /\ lo.beyond => problem.at <= lo.end + NOISE
       /\ problem.at < lo.end - NOISE => lo.beyond
  BY <1>4, <1>5, ValueTells
<1>12. /\ hi.beyond => hi.end - NOISE <= problem.at
       /\ hi.end + NOISE < problem.at => hi.beyond
  BY <1>4, <1>6, ValueTells
<1>13. EndsHold'
  BY <1>2, <1>5, <1>6, <1>7, <1>10, <1>11, <1>12 DEF EndsHold
<1>14. BracketHolds'
  <2>1. Reachable' => bracket'[1] - NOISE <= problem.at /\ problem.at <= bracket'[2] + NOISE
    BY <1>2, <1>4, <1>5, <1>6, <1>10, RoundingAssumption DEF Reachable
  <2>2. found' => AtRoot(point)'
    BY <1>2, <1>9 DEF AtRoot
  <2>. QED
    BY <2>1, <2>2, <1>2, <1>5, <1>6, <1>7, <1>8, <1>9, <1>10 DEF BracketHolds
<1>15. HalvesLeft'
  <2>1. problem.count - taken_steps' = problem.count
    BY <1>2, <1>3, <1>4
  <2>2. 2 ^ problem.count \in Int
    BY <1>4
  <2>3. problem.solver = "Bisection" => hi.end - lo.end <= 2 ^ problem.count + 1
    BY <2>2, <1>5, <1>6, <1>7
  <2>. QED
    BY <2>1, <2>3, <1>2, <1>10 DEF HalvesLeft
<1>16. AnswerHolds'
  BY <1>2, <1>3 DEF AnswerHolds
<1>17. /\ bracket' \in Int \X Int /\ point' \in Int /\ taken_steps' = 0
       /\ problem' \in RootProblems /\ problem' # NoPoint /\ taken_steps' <= problem'.count
  BY <1>2, <1>3, <1>4, <1>5, <1>6, <1>8, <1>9
<1>18. ends' # NoPoint
  <2>1. lo \in Ends /\ hi \in Ends
    BY <1>5, <1>6 DEF Ends, lo, hi, Widened
  <2>. QED
    BY <2>1, <1>9, ProblemsAssumption
<1>. QED
  BY <1>13, <1>14, <1>15, <1>16, <1>17, <1>18 DEF RootInv

\* A halving keeps it: the side kept is the value's, and half is left to halve.
LEMMA HalveKeeps == ASSUME RootInv, Halve PROVE RootInv'
<1> DEFINE a == bracket[1]
           b == bracket[2]
           mid == Mid(a, b)
<1>1. PICK side \in Sides(mid) : bracket' = IF side = "above" THEN <<mid, b>> ELSE <<a, mid>>
  BY DEF Halve
<1>2. /\ ends # NoPoint /\ taken_steps < problem.count /\ problem.solver = "Bisection"
      /\ taken_steps' = taken_steps + 1
      /\ UNCHANGED <<problem, ends, point, found, root>>
  BY DEF Halve, Stepping
<1>3. /\ problem \in RootProblems /\ problem # NoPoint /\ taken_steps \in Nat /\ point \in Int
      /\ EndsHold /\ BracketHolds /\ HalvesLeft /\ AnswerHolds /\ bracket \in Int \X Int
  BY <1>2 DEF RootInv
<1>4. problem.at \in Int /\ problem.count \in Nat /\ a \in Int /\ b \in Int /\ NOISE \in Nat
  BY <1>3, ProblemTyped, RoundingAssumption
<1>5. ends.lo.end \in Int /\ ends.hi.end \in Int /\ ends.lo.end <= a /\ a <= b /\ b <= ends.hi.end
  BY <1>3 DEF EndsHold, BracketHolds
<1> HIDE DEF a, b
<1>6. mid \in Int /\ a <= mid /\ mid <= b /\ 2 * (mid - a) <= b - a /\ 2 * (b - mid) <= b - a + 1
  BY <1>4, <1>5, MidBetween
<1> HIDE DEF mid
<1>7. /\ side = "above" => mid - NOISE <= problem.at
      /\ side # "above" => problem.at <= mid + NOISE
      /\ problem.at < mid - NOISE => side # "above"
      /\ mid + NOISE < problem.at => side = "above"
  BY <1>4, <1>6, ValueTells
<1>8. /\ side = "above" => bracket'[1] = mid /\ bracket'[2] = b
      /\ side # "above" => bracket'[1] = a /\ bracket'[2] = mid
      /\ bracket' \in Int \X Int
  BY <1>1, <1>4, <1>6
<1>9. BracketHolds'
  <2>1. Reachable' = Reachable
    BY <1>2 DEF Reachable
  <2>2. Reachable => bracket'[1] - NOISE <= problem.at /\ problem.at <= bracket'[2] + NOISE
    <3>1. Reachable => a - NOISE <= problem.at /\ problem.at <= b + NOISE
      BY <1>3 DEF BracketHolds, a, b
    <3>. QED
      BY <3>1, <1>7, <1>8
  <2>3. ends.lo.end <= bracket'[1] /\ bracket'[1] <= bracket'[2] /\ bracket'[2] <= ends.hi.end
    BY <1>4, <1>5, <1>6, <1>8
  <2>. QED
    BY <2>1, <2>2, <2>3, <1>2 DEF BracketHolds
<1>10. HalvesLeft'
  <2>1. /\ b - a <= 2 ^ (problem.count - taken_steps) + 1
        /\ problem.at < ends.lo.end - NOISE => a = ends.lo.end
        /\ ends.hi.end + NOISE < problem.at => b = ends.hi.end
    BY <1>2, <1>3 DEF HalvesLeft, a, b
  <2> DEFINE left == problem.count - taken_steps'
             q == 2 ^ left
  <2>2. left \in Nat /\ problem.count - taken_steps = left + 1
    BY <1>2, <1>3, <1>4
  <2>3. 2 ^ (left + 1) = 2 * q /\ q \in Int
    BY <2>2, Doubles
  <2>4. b - a <= 2 * q + 1
    BY <2>1, <2>2, <2>3
  <2>5. bracket'[2] - bracket'[1] <= q + 1
    <3>1. q \in Int
      BY <2>3
    <3> HIDE DEF q
    <3>2. b - mid <= q + 1 /\ mid - a <= q + 1
      BY <3>1, <2>4, <1>4, <1>6
    <3>. QED
      BY <3>2, <1>8
  <2> HIDE DEF q
  <2>6. problem.at < ends.lo.end - NOISE => bracket'[1] = ends.lo.end
    BY <2>1, <1>4, <1>5, <1>6, <1>7, <1>8
  <2>7. ends.hi.end + NOISE < problem.at => bracket'[2] = ends.hi.end
    BY <2>1, <1>4, <1>5, <1>6, <1>7, <1>8
  <2>. QED
    BY <2>5, <2>6, <2>7, <1>2 DEF HalvesLeft, q
<1>11. root = NoPoint
  BY <1>2, <1>3, <1>4 DEF AnswerHolds
<1>12. EndsHold' /\ AnswerHolds'
  BY <1>2, <1>3, <1>11 DEF EndsHold, AnswerHolds
<1>13. taken_steps' \in Nat /\ taken_steps' <= problem.count
  BY <1>2, <1>3, <1>4
<1>. QED
  BY <1>2, <1>3, <1>8, <1>9, <1>10, <1>12, <1>13 DEF RootInv

\* The side Newton takes the root to be on is f's, to the value's rounding: a step from near the
\* root lands at it, one from further goes to its side.
LEMMA SideIsRight ==
  ASSUME problem \in RootProblems, point \in Int,
         NEW newton \in Landings(point), NEW side \in Sides(point)
  PROVE  /\ SideOf(point, newton, side) => point - NOISE <= problem.at
         /\ ~SideOf(point, newton, side) => problem.at <= point + NOISE
         /\ AtRoot(point) => /\ newton \in problem.at - NOISE .. problem.at + NOISE
                             /\ SideOf(point, newton, side) <=> newton > point
<1>1. /\ problem.at \in Int /\ problem.monotone \in Nat /\ NOISE <= problem.monotone
      /\ NOISE \in Nat /\ NEAR \in Nat /\ NOISE <= NEAR
  BY ProblemTyped, RoundingAssumption
<1> DEFINE off == point - problem.at
<1>2. CASE ~Slopes(point)
  <2>1. off \notin -NOISE .. NOISE
    BY <1>1, <1>2 DEF Slopes
  <2>2. SideOf(point, newton, side) <=> side = "above"
    BY <1>2 DEF SideOf
  <2>3. ~AtRoot(point)
    BY <2>1 DEF AtRoot
  <2>4. /\ side = "above" => point - NOISE <= problem.at
        /\ side # "above" => problem.at <= point + NOISE
    BY <1>1, ValueTells
  <2>. QED
    BY <2>2, <2>3, <2>4
<1>3. CASE Slopes(point) /\ off \in -NEAR .. NEAR
  <2>1. newton \in problem.at - NOISE .. problem.at + NOISE
    BY <1>3 DEF Landings
  <2>2. SideOf(point, newton, side) <=> newton > point
    BY <1>3 DEF SideOf
  <2>. QED
    BY <2>1, <2>2, <1>1
<1>4. CASE Slopes(point) /\ off \notin -NEAR .. NEAR
  <2>1. IF point < problem.at THEN newton > point ELSE newton < point
    BY <1>4 DEF Landings
  <2>2. SideOf(point, newton, side) <=> newton > point
    BY <1>4 DEF SideOf
  <2>3. ~AtRoot(point)
    BY <1>4, <1>1 DEF AtRoot
  <2>4. newton > point => point < problem.at
    <3>1. SUFFICES ASSUME ~(point < problem.at) PROVE ~(newton > point)
      OBVIOUS
    <3>2. newton < point /\ newton \in RootPoints
      BY <2>1, <3>1, <1>4 DEF Landings
    <3>. QED
      BY <3>2, PointsAssumption
  <2>5. ~(newton > point) => ~(point < problem.at)
    BY <2>1
  <2>. QED
    BY <2>2, <2>3, <2>4, <2>5, <1>1
<1>. QED
  BY <1>2, <1>3, <1>4

\* Newton's step keeps it: the side kept is the step's, so a root once found is never
\* outside the bracket.
LEMMA NewtonKeeps == ASSUME RootInv, Newton PROVE RootInv'
<1>1. PICK newton \in Landings(point), side \in Sides(point) :
        LET up == SideOf(point, newton, side)
            a  == IF up THEN point ELSE bracket[1]
            b  == IF up THEN bracket[2] ELSE point
            x  == IF newton # NoPoint /\ newton \in a .. b THEN newton ELSE Mid(a, b)
        IN  bracket' = <<a, b>> /\ point' = x /\ found' = (found \/ AtRoot(x))
  BY DEF Newton
<1> DEFINE up == SideOf(point, newton, side)
           a  == IF up THEN point ELSE bracket[1]
           b  == IF up THEN bracket[2] ELSE point
           x  == IF newton # NoPoint /\ newton \in a .. b THEN newton ELSE Mid(a, b)
<1>2. /\ ends # NoPoint /\ taken_steps < problem.count /\ problem.solver = "Newton"
      /\ taken_steps' = taken_steps + 1
      /\ UNCHANGED <<problem, ends, root>>
  BY DEF Newton, Stepping
<1>3. /\ problem \in RootProblems /\ problem # NoPoint /\ taken_steps \in Nat /\ point \in Int
      /\ EndsHold /\ BracketHolds /\ AnswerHolds /\ bracket \in Int \X Int
  BY <1>2 DEF RootInv
<1>4. /\ problem.at \in Int /\ problem.count \in Nat /\ bracket[1] \in Int /\ bracket[2] \in Int
      /\ NOISE \in Nat
  BY <1>3, ProblemTyped, RoundingAssumption
<1>5. /\ ends.lo.end \in Int /\ ends.hi.end \in Int
      /\ ends.lo.end <= bracket[1] /\ bracket[1] <= point /\ point <= bracket[2] /\ bracket[2] <= ends.hi.end
  BY <1>2, <1>3 DEF EndsHold, BracketHolds
<1>6. /\ up => point - NOISE <= problem.at
      /\ ~up => problem.at <= point + NOISE
      /\ AtRoot(point) => /\ newton \in problem.at - NOISE .. problem.at + NOISE
                          /\ up <=> newton > point
  BY <1>3, SideIsRight
<1>7. bracket' = <<a, b>> /\ point' = x /\ found' = (found \/ AtRoot(x))
  BY <1>1
<1>8. /\ up => a = point /\ b = bracket[2]
      /\ ~up => a = bracket[1] /\ b = point
  OBVIOUS
<1>9. a \in Int /\ b \in Int /\ a <= b
  BY <1>3, <1>4, <1>5, <1>8
<1> HIDE DEF up, a, b
<1>10. x \in Int /\ a <= x /\ x <= b
  <2>1. CASE newton # NoPoint /\ newton \in a .. b
    BY <2>1, <1>9
  <2>2. CASE ~(newton # NoPoint /\ newton \in a .. b)
    BY <2>2, <1>9, MidBetween
  <2>. QED
    BY <2>1, <2>2
\* Once at the root it stays there: a step past the bracket's far end leaves the whole of what is
\* between at the root.
<1>11. AtRoot(point) => AtRoot(x)
  <2>1. SUFFICES ASSUME AtRoot(point) PROVE AtRoot(x)
    OBVIOUS
  <2>2. newton \in Int /\ problem.at - NOISE <= newton /\ newton <= problem.at + NOISE
    BY <2>1, <1>4, <1>6
  <2>3. problem.at - NOISE <= point /\ point <= problem.at + NOISE
    BY <2>1, <1>3, <1>4 DEF AtRoot
  <2>4. newton # NoPoint
    BY <2>2, ProblemsAssumption
  <2>5. up <=> newton > point
    BY <2>1, <1>6
  <2>6. problem.at - NOISE <= x /\ x <= problem.at + NOISE
    <3>1. CASE newton \in a .. b
      BY <3>1, <2>2, <2>4
    <3>2. CASE newton \notin a .. b
      <4>1. x = Mid(a, b)
        BY <3>2
      <4>2. CASE up
        <5>1. a = point /\ newton > b
          BY <4>2, <2>2, <2>5, <3>2, <1>3, <1>8, <1>9
        <5>. QED
          BY <5>1, <4>1, <2>2, <2>3, <1>4, <1>9, <1>10
      <4>3. CASE ~up
        <5>1. b = point /\ newton < a
          BY <4>3, <2>2, <2>5, <3>2, <1>3, <1>8, <1>9
        <5>. QED
          BY <5>1, <4>1, <2>2, <2>3, <1>4, <1>9, <1>10
      <4>. QED
        BY <4>2, <4>3
    <3>. QED
      BY <3>1, <3>2
  <2>. QED
    BY <2>6, <1>4, <1>10 DEF AtRoot
<1> HIDE DEF x
<1>12. bracket'[1] = a /\ bracket'[2] = b
  BY <1>7
<1>13. BracketHolds'
  <2>1. Reachable' = Reachable
    BY <1>2 DEF Reachable
  <2>2. Reachable => a - NOISE <= problem.at /\ problem.at <= b + NOISE
    <3>1. Reachable => bracket[1] - NOISE <= problem.at /\ problem.at <= bracket[2] + NOISE
      BY <1>3 DEF BracketHolds
    <3>. QED
      BY <3>1, <1>6, <1>8
  <2>3. ends.lo.end <= a /\ a <= b /\ b <= ends.hi.end
    BY <1>3, <1>4, <1>5, <1>8, <1>9
  <2>4. found' => AtRoot(x)
    <3>1. found => AtRoot(point)
      BY <1>2, <1>3 DEF BracketHolds
    <3>. QED
      BY <3>1, <1>7, <1>11
  <2>5. AtRoot(x) => AtRoot(point)'
    BY <1>2, <1>7 DEF AtRoot
  <2>. QED
    BY <2>1, <2>2, <2>3, <2>4, <2>5, <1>2, <1>7, <1>10, <1>12 DEF BracketHolds
<1>14. root = NoPoint
  BY <1>2, <1>3, <1>4 DEF AnswerHolds
<1>15. EndsHold' /\ AnswerHolds' /\ HalvesLeft'
  <2>1. problem.solver # "Bisection"
    BY <1>2
  <2>. QED
    BY <2>1, <1>2, <1>3, <1>14 DEF EndsHold, AnswerHolds, HalvesLeft
<1>16. /\ taken_steps' \in Nat /\ taken_steps' <= problem.count
       /\ bracket' \in Int \X Int /\ point' \in Int
  BY <1>2, <1>3, <1>4, <1>7, <1>9, <1>10
<1>. QED
  BY <1>2, <1>3, <1>13, <1>15, <1>16 DEF RootInv

\* The answer is the root, or the end it is beyond.
LEMMA AnswerKeeps == ASSUME RootInv, Answer PROVE RootInv'
<1>1. /\ ends # NoPoint /\ taken_steps = problem.count /\ root = NoPoint
      /\ UNCHANGED <<problem, bracket, ends, point, found, taken_steps>>
  BY DEF Answer
<1>2. /\ problem \in RootProblems /\ problem # NoPoint /\ taken_steps \in Nat /\ point \in Int
      /\ EndsHold /\ BracketHolds /\ HalvesLeft /\ bracket \in Int \X Int
  BY <1>1 DEF RootInv
<1>3. /\ problem.at \in Int /\ problem.count \in Nat /\ bracket[1] \in Int /\ bracket[2] \in Int
      /\ NOISE \in Nat \ {0}
      /\ problem.solver = "Newton" \/ problem.solver = "Bisection"
  BY <1>2, ProblemTyped, RoundingAssumption
<1>4. /\ ends.lo.end \in Int /\ ends.hi.end \in Int /\ ends.lo.end <= ends.hi.end
      /\ ends.lo.beyond \in BOOLEAN /\ ends.hi.beyond \in BOOLEAN
      /\ ends.lo.beyond => problem.at <= ends.lo.end + NOISE
      /\ ends.hi.beyond => ends.hi.end - NOISE <= problem.at
      /\ problem.at < ends.lo.end - NOISE => ends.lo.beyond
      /\ ends.hi.end + NOISE < problem.at => ends.hi.beyond
  BY <1>2 DEF EndsHold
<1>5. /\ ends.lo.end <= bracket[1] /\ bracket[1] <= bracket[2] /\ bracket[2] <= ends.hi.end
      /\ Reachable => bracket[1] - NOISE <= problem.at /\ problem.at <= bracket[2] + NOISE
      /\ problem.solver = "Newton" /\ found => AtRoot(point)
  BY <1>2 DEF BracketHolds
<1>6. CASE problem.solver = "Bisection"
  <2>1. root' = Mid(bracket[1], bracket[2])
    BY <1>6 DEF Answer
  <2>2. bracket[2] - bracket[1] <= 2
    <3>1. problem.count - taken_steps = 0
      BY <1>1, <1>3
    <3>2. bracket[2] - bracket[1] <= 2 ^ 0 + 1
      BY <3>1, <1>2, <1>6 DEF HalvesLeft
    <3>3. 2 ^ 0 = 1
      OBVIOUS
    <3>. QED
      BY <3>2, <3>3
  <2>3. /\ root' \in Int /\ bracket[1] <= root' /\ root' <= bracket[2]
        /\ root' - bracket[1] <= 1 /\ bracket[2] - root' <= 1
    <3> DEFINE m == Mid(bracket[1], bracket[2])
    <3>1. /\ m \in Int /\ bracket[1] <= m /\ m <= bracket[2]
          /\ 2 * (m - bracket[1]) <= bracket[2] - bracket[1] /\ 2 * (bracket[2] - m) <= bracket[2] - bracket[1] + 1
      BY <1>3, <1>5, MidBetween
    <3> HIDE DEF m
    <3>2. m - bracket[1] <= 1 /\ bracket[2] - m <= 1
      BY <3>1, <2>2, <1>3
    <3>. QED
      BY <3>1, <3>2, <2>1 DEF m
  <2>4. Reachable => root' - problem.at \in -NOISE - 1 .. NOISE + 1
    BY <2>3, <1>3, <1>5
  <2>5. problem.at < ends.lo.end - NOISE => root' - ends.lo.end \in 0 .. NOISE
    <3>1. problem.at < ends.lo.end - NOISE => bracket[1] = ends.lo.end
      BY <1>2, <1>6 DEF HalvesLeft
    <3>. QED
      BY <3>1, <2>3, <1>3, <1>4
  <2>6. problem.at > ends.hi.end + NOISE => ends.hi.end - root' \in 0 .. NOISE
    <3>1. ends.hi.end + NOISE < problem.at => bracket[2] = ends.hi.end
      BY <1>2, <1>6 DEF HalvesLeft
    <3>. QED
      BY <3>1, <2>3, <1>3, <1>4
  <2>7. AnswerHolds'
    BY <2>4, <2>5, <2>6, <1>1, <1>6 DEF AnswerHolds, Reachable
  <2>. QED
    BY <2>7, <1>1, <1>2 DEF RootInv, EndsHold, BracketHolds, HalvesLeft, Reachable, AtRoot
<1>7. CASE problem.solver = "Newton"
  <2>1. /\ ends.hi.beyond => root' = ends.hi.end
        /\ ~ends.hi.beyond /\ ends.lo.beyond => root' = ends.lo.end
        /\ ~ends.hi.beyond /\ ~ends.lo.beyond => root' = point
    BY <1>4, <1>7 DEF Answer
  <2>2. ASSUME Reachable, found PROVE AtRoot(root)'
    <3>1. ends.lo.end <= problem.at /\ problem.at <= ends.hi.end
      BY <2>2 DEF Reachable
    <3>2. CASE ends.hi.beyond
      <4>1. root' = ends.hi.end /\ ends.hi.end - NOISE <= problem.at
        BY <3>2, <2>1, <1>4
      <4>. QED
        BY <4>1, <3>1, <1>1, <1>3, <1>4 DEF AtRoot
    <3>3. CASE ~ends.hi.beyond /\ ends.lo.beyond
      <4>1. root' = ends.lo.end /\ problem.at <= ends.lo.end + NOISE
        BY <3>3, <2>1, <1>4
      <4>. QED
        BY <4>1, <3>1, <1>1, <1>3, <1>4 DEF AtRoot
    <3>4. CASE ~ends.hi.beyond /\ ~ends.lo.beyond
      <4>1. root' = point /\ AtRoot(point)
        BY <3>4, <2>1, <2>2, <1>5, <1>7
      <4>. QED
        BY <4>1, <1>1 DEF AtRoot
    <3>. QED
      BY <3>2, <3>3, <3>4
  <2>3. problem.at < ends.lo.end - NOISE => root' - ends.lo.end \in 0 .. NOISE
    <3>1. SUFFICES ASSUME problem.at < ends.lo.end - NOISE PROVE root' = ends.lo.end
      BY <1>3, <1>4
    <3>2. ends.lo.beyond
      BY <3>1, <1>4
    <3>3. ~ends.hi.beyond
      BY <3>1, <1>3, <1>4
    <3>. QED
      BY <3>2, <3>3, <2>1
  <2>4. problem.at > ends.hi.end + NOISE => ends.hi.end - root' \in 0 .. NOISE
    <3>1. SUFFICES ASSUME problem.at > ends.hi.end + NOISE PROVE root' = ends.hi.end
      BY <1>3, <1>4
    <3>. QED
      BY <3>1, <2>1, <1>3, <1>4
  <2>5. AnswerHolds'
    BY <2>2, <2>3, <2>4, <1>1, <1>7 DEF AnswerHolds, Reachable
  <2>. QED
    BY <2>5, <1>1, <1>2 DEF RootInv, EndsHold, BracketHolds, HalvesLeft, Reachable, AtRoot
<1>. QED
  BY <1>3, <1>6, <1>7

\* So every step keeps it.
LEMMA RootStepKeeps == RootInv /\ [RootNext]_rootVars => RootInv'
<1> SUFFICES ASSUME RootInv, [RootNext]_rootVars PROVE RootInv'
  OBVIOUS
<1>1. CASE Pose
  BY <1>1, PoseKeeps
<1>2. CASE Widen
  BY <1>2, WidenKeeps
<1>3. CASE Halve
  BY <1>3, HalveKeeps
<1>4. CASE Newton
  BY <1>4, NewtonKeeps
<1>5. CASE Answer
  BY <1>5, AnswerKeeps
<1>6. CASE UNCHANGED rootVars
  BY <1>6 DEF rootVars, RootInv, EndsHold, BracketHolds, HalvesLeft, AnswerHolds, Reachable, AtRoot
<1>. QED
  BY <1>1, <1>2, <1>3, <1>4, <1>5, <1>6 DEF RootNext

\* The root solver's states.
LEMMA RootInvInvariant == RootSpec => []RootInv
<1>1. RootInit => RootInv
  BY RootInitHolds
<1>2. RootInv /\ [RootNext]_rootVars => RootInv'
  BY RootStepKeeps
<1>. QED
  BY <1>1, <1>2, PTL DEF RootSpec

\* The solver never loses a root its bracket holds: Newton, once at it, stays at it to
\* its rounding whatever value each evaluation rounds to, bisection ends at it, and a
\* root out of reach is answered by the end it is beyond (roots.py, solve).
THEOREM RootsKept == RootSpec => []RootsAreKept
BY RootInvInvariant, RootInvGives, PTL

---------------------------------------------------------------------------
(* The calibration.                                                        *)

\* An element of a sequence is one of those it is of.
LEMMA ElementIn == ASSUME NEW S, NEW s \in Seq(S), NEW k \in DOMAIN s PROVE s[k] \in S
OBVIOUS

\* The greater of two and the less.
LEMMA OfTwo ==
  ASSUME NEW a \in Int, NEW b \in Int
  PROVE  /\ Max({a, b}) = IF a >= b THEN a ELSE b
         /\ Min({a, b}) = IF a <= b THEN a ELSE b
<1> DEFINE high == IF a >= b THEN a ELSE b
           low  == IF a <= b THEN a ELSE b
<1>1. high \in {a, b} /\ \A y \in {a, b} : high >= y
  OBVIOUS
<1>2. \A x \in {a, b} : (\A y \in {a, b} : x >= y) => x = high
  OBVIOUS
<1>3. low \in {a, b} /\ \A y \in {a, b} : low <= y
  OBVIOUS
<1>4. \A x \in {a, b} : (\A y \in {a, b} : x <= y) => x = low
  OBVIOUS
<1>5. Max({a, b}) = high
  BY <1>1, <1>2 DEF Max
<1>6. Min({a, b}) = low
  BY <1>3, <1>4 DEF Min
<1>. QED
  BY <1>5, <1>6

LEMMA NoLess == ASSUME NEW a \in Int, NEW b \in Int PROVE Max({a, Min({a, b})}) = a
<1>1. Min({a, b}) \in Int /\ Min({a, b}) <= a
  BY OfTwo
<1>. QED
  BY <1>1, OfTwo

\* A later date is in no earlier interval of the reference grid, and a date past the grid in none.
LEMMA SlotGrows ==
  ASSUME NEW a \in Int, NEW b \in Int, a <= b
  PROVE  Slot(a) \in Nat /\ Slot(a) <= Slot(b)
<1> DEFINE before(day) == {d \in Range(REFERENCE_GRID) : d < day}
<1>1. IsFiniteSet(Range(REFERENCE_GRID)) /\ Range(REFERENCE_GRID) \subseteq Int
  <2>1. REFERENCE_GRID \in Seq(Int)
    BY GridAssumption
  <2>2. DOMAIN REFERENCE_GRID = 1 .. Len(REFERENCE_GRID) /\ IsFiniteSet(1 .. Len(REFERENCE_GRID))
    BY <2>1, FS_Interval
  <2>3. Range(REFERENCE_GRID) = {REFERENCE_GRID[k] : k \in 1 .. Len(REFERENCE_GRID)}
    BY <2>2 DEF Range
  <2>4. IsFiniteSet({REFERENCE_GRID[k] : k \in 1 .. Len(REFERENCE_GRID)})
    <3> DEFINE of == [k \in 1 .. Len(REFERENCE_GRID) |-> REFERENCE_GRID[k]]
               all == {REFERENCE_GRID[k] : k \in 1 .. Len(REFERENCE_GRID)}
    <3>1. of \in Surjection(1 .. Len(REFERENCE_GRID), all)
      BY DEF Surjection
    <3>. QED
      BY <3>1, <2>2, FS_Surjection
  <2>. QED
    BY <2>1, <2>2, <2>3, <2>4
<1>2. before(a) \subseteq before(b) /\ before(b) \subseteq Range(REFERENCE_GRID)
  BY <1>1
<1>3. IsFiniteSet(before(b)) /\ IsFiniteSet(before(a))
  BY <1>1, <1>2, FS_Subset
<1>4. Cardinality(before(a)) <= Cardinality(before(b))
  BY <1>2, <1>3, FS_Subset
<1>5. Cardinality(before(a)) \in Nat /\ Cardinality(before(b)) \in Nat
  BY <1>3, FS_CardinalityType
<1>. QED
  BY <1>4, <1>5 DEF Slot

LEMMA SlotIn == ASSUME NEW day \in Int PROVE Slot(day) \in Nat
<1>1. day <= day
  OBVIOUS
<1>. QED
  BY <1>1, SlotGrows

\* The dates of what is calibrated, in order.
LEMMA DatesAre ==
  ASSUME NEW m \in Calibrated
  PROVE  /\ Dates(m) \in Seq(Int) /\ m.built_on \in Int
         /\ m.kind = "american" => m.exercise[1] \in Int /\ m.exercise[2] \in Int
         /\ m.kind # "currency" => \A k \in 2 .. Len(Dates(m)) : Dates(m)[k - 1] <= Dates(m)[k]
<1>1. m.kind = "american" => m.exercise[1] \in Int /\ m.exercise[2] \in Int
  <2>1. m.exercise \in Seq(Int) /\ (m.kind = "american" => Len(m.exercise) = 2)
    BY CalibratedAssumption
  <2>. QED
    BY <2>1
<1>2. m.kind # "american" => m.kind = "bermudan" \/ m.kind = "currency"
  BY CalibratedAssumption
<1>. QED
  BY <1>1, <1>2, CalibratedAssumption, GridAssumption DEF Dates

\* The basket is what the dates leave, kept one after another.
LEMMA BasketInTurn ==
  ASSUME NEW m \in Calibrated
  PROVE  \E kept : /\ kept = [n \in 0 .. Len(Dates(m)) |-> IF n = 0 THEN <<>> ELSE Keep(m, kept[n - 1], Dates(m)[n])]
                   /\ basket_expiries(m) = kept[Len(Dates(m))]
<1> DEFINE last == Len(Dates(m))
           after(f, n) == IF n = 0 THEN <<>> ELSE Keep(m, f[n - 1], Dates(m)[n])
           whole(f, n) == f = [k \in 0 .. n |-> after(f, k)]
           bad == {n \in 0 .. last : ~ \E f : whole(f, n)}
<1>1. last \in Nat
  BY DatesAre
<1>2. bad = {}
  <2>1. SUFFICES ASSUME bad # {} PROVE FALSE
    OBVIOUS
  <2>2. PICK n \in bad : \A k \in bad : n <= k
    <3>1. bad \subseteq Nat
      BY <1>1
    <3> HIDE DEF bad
    <3>. QED
      BY <3>1, <2>1, SmallestIn
  <2>3. CASE n = 0
    <3>1. whole([k \in 0 .. 0 |-> <<>>], 0)
      OBVIOUS
    <3>. QED
      BY <3>1, <2>2, <2>3
  <2>4. CASE n # 0
    <3>1. n \in Nat /\ n - 1 \in 0 .. last /\ n - 1 \notin bad
      BY <1>1, <2>2, <2>4
    <3>2. PICK f : whole(f, n - 1)
      BY <3>1
    <3> DEFINE g == [k \in 0 .. n |-> IF k = n THEN Keep(m, f[n - 1], Dates(m)[n]) ELSE f[k]]
    <3>3. \A k \in 0 .. n - 1 : f[k] = after(f, k) /\ g[k] = f[k]
      <4>1. \A k \in 0 .. n - 1 : k # n /\ k \in 0 .. n
        BY <3>1
      <4>. QED
        BY <3>2, <4>1
    <3>4. ASSUME NEW k \in 0 .. n PROVE g[k] = after(g, k)
      <4>1. CASE k = n
        <5>1. n - 1 \in 0 .. n - 1
          BY <3>1, <2>4
        <5>2. g[n - 1] = f[n - 1]
          BY <5>1, <3>3
        <5>. QED
          BY <4>1, <5>2, <2>4
      <4>2. CASE k # n
        <5>1. k \in 0 .. n - 1
          BY <4>2, <3>1
        <5>2. k # 0 => k - 1 \in 0 .. n - 1
          BY <5>1, <3>1
        <5>. QED
          BY <5>1, <5>2, <3>3
      <4>. QED
        BY <4>1, <4>2
    <3>5. whole(g, n)
      BY <3>4, Zenon
    <3>. QED
      BY <3>5, <2>2
  <2>. QED
    BY <2>3, <2>4
<1>3. \E f : whole(f, last)
  BY <1>1, <1>2
<1> DEFINE kept == CHOOSE f : whole(f, last)
<1>4. whole(kept, last)
  BY <1>3, Zenon
<1>5. basket_expiries(m) = kept[last]
  BY Zenon DEF basket_expiries
<1>. QED
  BY <1>4, <1>5, Zenon

\* What the basket has of the first n dates: candidates, an interval of the grid at most once, and
\* for every candidate an expiry of its interval that is no later.
KeptOf(m, kept, n) ==
  /\ kept \in Seq(Int)
  /\ \A k \in DOMAIN kept : \E i \in 1 .. n : kept[k] = Dates(m)[i] /\ Candidate(m, kept[k])
  /\ \A j, k \in DOMAIN kept : j # k /\ ~PastTheGrid(kept[j]) => Slot(kept[j]) # Slot(kept[k])
  /\ \A i \in 1 .. n : Candidate(m, Dates(m)[i]) =>
       \E k \in DOMAIN kept : kept[k] <= Dates(m)[i] /\ (kept[k] = Dates(m)[i] \/ Slot(kept[k]) = Slot(Dates(m)[i]))

\* The dates of an option do not decrease.
LEMMA DatesGrow ==
  ASSUME NEW m \in Calibrated, m.kind # "currency", NEW n \in 1 .. Len(Dates(m)), NEW i \in 1 .. n
  PROVE  Dates(m)[i] <= Dates(m)[n]
<1> DEFINE last == Len(Dates(m))
           bad == {k \in i .. last : ~ (Dates(m)[i] <= Dates(m)[k])}
<1>1. /\ Dates(m) \in Seq(Int) /\ last \in Nat
      /\ \A k \in 2 .. last : Dates(m)[k - 1] <= Dates(m)[k]
  BY DatesAre
<1>2. \A k \in 1 .. last : Dates(m)[k] \in Int
  BY <1>1
<1>3. bad = {}
  <2>1. SUFFICES ASSUME bad # {} PROVE FALSE
    OBVIOUS
  <2>2. PICK k \in bad : \A l \in bad : k <= l
    <3>1. bad \subseteq Nat
      BY <1>1
    <3> HIDE DEF bad
    <3>. QED
      BY <3>1, <2>1, SmallestIn
  <2>3. k # i /\ k \in 2 .. last
    BY <1>1, <1>2, <2>2
  <2>4. k - 1 \in i .. last /\ k - 1 \notin bad
    BY <1>1, <2>2, <2>3
  <2>5. Dates(m)[i] <= Dates(m)[k - 1] /\ Dates(m)[k - 1] <= Dates(m)[k]
    BY <1>1, <2>3, <2>4
  <2>6. Dates(m)[i] \in Int /\ Dates(m)[k - 1] \in Int /\ Dates(m)[k] \in Int
    BY <1>1, <1>2, <2>3, <2>4
  <2>. QED
    BY <2>2, <2>5, <2>6
<1>. QED
  BY <1>1, <1>3

\* Keeping one more date.
LEMMA KeepKeeps ==
  ASSUME NEW m \in Calibrated, m.kind # "currency", NEW n \in 1 .. Len(Dates(m)), NEW kept, KeptOf(m, kept, n - 1)
  PROVE  KeptOf(m, Keep(m, kept, Dates(m)[n]), n)
<1> DEFINE day == Dates(m)[n]
           after == Keep(m, kept, day)
<1>1. /\ Dates(m) \in Seq(Int) /\ day \in Int
      /\ kept \in Seq(Int) /\ Len(kept) \in Nat /\ DOMAIN kept = 1 .. Len(kept)
      /\ \A k \in DOMAIN kept : kept[k] \in Int
  BY DatesAre DEF KeptOf
<1>2. \A i \in 1 .. n : i = n \/ i \in 1 .. n - 1
  OBVIOUS
<1>3. \A k \in DOMAIN kept : kept[k] <= day
  <2>. TAKE k \in DOMAIN kept
  <2>1. PICK i \in 1 .. n - 1 : kept[k] = Dates(m)[i]
    BY DEF KeptOf
  <2>2. i \in 1 .. n
    OBVIOUS
  <2>. QED
    BY <2>1, <2>2, DatesGrow
<1>4. CASE Candidate(m, day) /\ (PastTheGrid(day) \/ \A k \in DOMAIN kept : PastTheGrid(kept[k]) \/ Slot(kept[k]) < Slot(day))
  <2>1. after = Append(kept, day)
    BY <1>4 DEF Keep
  <2>2. /\ after \in Seq(Int) /\ DOMAIN after = 1 .. Len(kept) + 1 /\ after[Len(kept) + 1] = day
        /\ \A k \in DOMAIN kept : after[k] = kept[k]
    BY <1>1, <2>1
  <2>3. \A k \in DOMAIN after : k \in DOMAIN kept \/ k = Len(kept) + 1
    BY <1>1, <2>2
  <2> HIDE DEF after
  <2>4. ASSUME NEW k \in DOMAIN after PROVE \E i \in 1 .. n : after[k] = Dates(m)[i] /\ Candidate(m, after[k])
    <3>1. CASE k \in DOMAIN kept
      <4>1. PICK i \in 1 .. n - 1 : kept[k] = Dates(m)[i] /\ Candidate(m, kept[k])
        BY <3>1 DEF KeptOf
      <4>2. i \in 1 .. n /\ after[k] = kept[k]
        BY <2>2, <3>1
      <4>. QED
        BY <4>1, <4>2
    <3>2. CASE k = Len(kept) + 1
      <4>1. n \in 1 .. n /\ after[k] = Dates(m)[n] /\ Candidate(m, after[k])
        BY <1>4, <2>2, <3>2
      <4>. QED
        BY <4>1
    <3>. QED
      BY <2>3, <3>1, <3>2
  <2>5. \A k \in DOMAIN kept : ~PastTheGrid(kept[k]) => Slot(kept[k]) # Slot(day)
    <3>. TAKE k \in DOMAIN kept
    <3>1. Slot(kept[k]) \in Nat /\ Slot(day) \in Nat
      BY <1>1, SlotIn
    <3>2. Len(REFERENCE_GRID) \in Nat
      BY GridAssumption
    <3>. QED
      BY <1>4, <3>1, <3>2 DEF PastTheGrid
  <2>6. \A k \in DOMAIN kept : ~PastTheGrid(day) => Slot(kept[k]) # Slot(day)
    <3>. TAKE k \in DOMAIN kept
    <3>1. Slot(kept[k]) \in Nat /\ Slot(day) \in Nat
      BY <1>1, SlotIn
    <3>2. Len(REFERENCE_GRID) \in Nat
      BY GridAssumption
    <3>. QED
      BY <1>4, <3>1, <3>2 DEF PastTheGrid
  <2>7. ASSUME NEW j \in DOMAIN after, NEW k \in DOMAIN after, j # k, ~PastTheGrid(after[j])
        PROVE  Slot(after[j]) # Slot(after[k])
    <3>1. CASE j \in DOMAIN kept /\ k \in DOMAIN kept
      BY <2>2, <2>7, <3>1 DEF KeptOf
    <3>2. CASE j \in DOMAIN kept /\ k = Len(kept) + 1
      BY <2>2, <2>5, <2>7, <3>2
    <3>3. CASE j = Len(kept) + 1 /\ k \in DOMAIN kept
      BY <2>2, <2>6, <2>7, <3>3
    <3>. QED
      BY <2>3, <2>7, <3>1, <3>2, <3>3
  <2>8. ASSUME NEW i \in 1 .. n, Candidate(m, Dates(m)[i])
        PROVE  \E k \in DOMAIN after : after[k] <= Dates(m)[i] /\ (after[k] = Dates(m)[i] \/ Slot(after[k]) = Slot(Dates(m)[i]))
    <3>1. CASE i = n
      <4>1. Len(kept) + 1 \in DOMAIN after /\ after[Len(kept) + 1] = Dates(m)[i] /\ Dates(m)[i] <= Dates(m)[i]
        BY <1>1, <2>2, <3>1
      <4>. QED
        BY <4>1
    <3>2. CASE i \in 1 .. n - 1
      <4>1. PICK k \in DOMAIN kept : kept[k] <= Dates(m)[i] /\ (kept[k] = Dates(m)[i] \/ Slot(kept[k]) = Slot(Dates(m)[i]))
        BY <2>8, <3>2 DEF KeptOf
      <4>2. k \in DOMAIN after /\ after[k] = kept[k]
        BY <1>1, <2>2
      <4>. QED
        BY <4>1, <4>2
    <3>. QED
      BY <1>2, <3>1, <3>2
  <2>. QED
    BY <2>2, <2>4, <2>7, <2>8 DEF KeptOf, after
<1>5. CASE ~ (Candidate(m, day) /\ (PastTheGrid(day) \/ \A k \in DOMAIN kept : PastTheGrid(kept[k]) \/ Slot(kept[k]) < Slot(day)))
  <2>1. after = kept
    BY <1>5 DEF Keep
  <2>2. \A k \in DOMAIN kept : \E i \in 1 .. n : kept[k] = Dates(m)[i] /\ Candidate(m, kept[k])
    <3>. TAKE k \in DOMAIN kept
    <3>1. PICK i \in 1 .. n - 1 : kept[k] = Dates(m)[i] /\ Candidate(m, kept[k])
      BY DEF KeptOf
    <3>2. i \in 1 .. n
      OBVIOUS
    <3>. QED
      BY <3>1, <3>2
  <2>3. ASSUME NEW i \in 1 .. n, Candidate(m, Dates(m)[i])
        PROVE  \E k \in DOMAIN kept : kept[k] <= Dates(m)[i] /\ (kept[k] = Dates(m)[i] \/ Slot(kept[k]) = Slot(Dates(m)[i]))
    <3>1. CASE i = n
      <4>1. PICK k \in DOMAIN kept : ~ (Slot(kept[k]) < Slot(day))
        BY <1>5, <2>3, <3>1
      <4>2. Slot(kept[k]) \in Nat /\ Slot(kept[k]) <= Slot(day)
        BY <1>1, <1>3, SlotGrows
      <4>3. Slot(day) \in Nat
        BY <1>1, SlotIn
      <4>4. Slot(kept[k]) = Slot(day)
        BY <4>1, <4>2, <4>3
      <4>. QED
        BY <1>3, <3>1, <4>4
    <3>2. CASE i \in 1 .. n - 1
      BY <2>3, <3>2 DEF KeptOf
    <3>. QED
      BY <1>2, <3>1, <3>2
  <2>. QED
    BY <1>1, <2>1, <2>2, <2>3 DEF KeptOf
<1>. QED
  BY <1>4, <1>5

\* The whole basket.
LEMMA BasketIs ==
  ASSUME NEW m \in Calibrated, m.kind # "currency"
  PROVE  KeptOf(m, basket_expiries(m), Len(Dates(m)))
<1> DEFINE last == Len(Dates(m))
<1>1. last \in Nat
  BY DatesAre
<1>2. PICK kept : /\ kept = [n \in 0 .. last |-> IF n = 0 THEN <<>> ELSE Keep(m, kept[n - 1], Dates(m)[n])]
                  /\ basket_expiries(m) = kept[last]
  BY BasketInTurn
<1> DEFINE bad == {n \in 0 .. last : ~ KeptOf(m, kept[n], n)}
<1>3. \A n \in 0 .. last : kept[n] = IF n = 0 THEN <<>> ELSE Keep(m, kept[n - 1], Dates(m)[n])
  BY <1>2, Zenon
<1>4. bad = {}
  <2>1. SUFFICES ASSUME bad # {} PROVE FALSE
    OBVIOUS
  <2>2. PICK n \in bad : \A k \in bad : n <= k
    <3>1. bad \subseteq Nat
      BY <1>1
    <3> HIDE DEF bad
    <3>. QED
      BY <3>1, <2>1, SmallestIn
  <2>3. CASE n = 0
    <3>1. kept[0] = <<>>
      BY <1>1, <1>3
    <3>2. KeptOf(m, <<>>, 0)
      BY DEF KeptOf
    <3>. QED
      BY <2>2, <2>3, <3>1, <3>2
  <2>4. CASE n # 0
    <3>1. n \in 1 .. last /\ n - 1 \in 0 .. last /\ n - 1 \notin bad
      BY <1>1, <2>2, <2>4
    <3>2. KeptOf(m, kept[n - 1], n - 1)
      BY <3>1
    <3>3. KeptOf(m, Keep(m, kept[n - 1], Dates(m)[n]), n)
      BY <3>1, <3>2, KeepKeeps
    <3>4. kept[n] = Keep(m, kept[n - 1], Dates(m)[n])
      BY <1>3, <2>2, <2>4
    <3>. QED
      BY <2>2, <3>3, <3>4
  <2>. QED
    BY <2>3, <2>4
<1>5. last \in 0 .. last
  BY <1>1
<1>. QED
  BY <1>2, <1>4, <1>5

---------------------------------------------------------------------------
(* Sums.                                                                   *)

\* A sum takes the places one by one.
Summed(amounts, places, of) ==
  of = [s \in SUBSET places |->
          IF s = {} THEN 0 ELSE LET x == CHOOSE x \in s : TRUE IN amounts[x] + of[s \ {x}]]

\* There is one for any finite number of places.
LEMMA SumExists ==
  ASSUME NEW places, IsFiniteSet(places), NEW amounts
  PROVE  \E of : Summed(amounts, places, of)
<1> DEFINE next(f, s) == IF s = {} THEN 0 ELSE LET x == CHOOSE x \in s : TRUE IN amounts[x] + f[s \ {x}]
           upto(n) == {s \in SUBSET places : Cardinality(s) <= n}
           whole(f, n) == f = [s \in upto(n) |-> next(f, s)]
           size == Cardinality(places)
           bad == {n \in 0 .. size : ~ \E f : whole(f, n)}
<1>1. size \in Nat
  BY FS_CardinalityType
<1>2. \A s \in SUBSET places : IsFiniteSet(s) /\ Cardinality(s) \in Nat /\ Cardinality(s) <= size
  BY FS_Subset, FS_CardinalityType
<1>3. \A s \in SUBSET places : s # {} => Cardinality(s) # 0
  BY <1>2, FS_EmptySet
<1>4. ASSUME NEW s \in SUBSET places, s # {}
      PROVE  LET x == CHOOSE x \in s : TRUE
             IN  x \in s /\ s \ {x} \in SUBSET places /\ Cardinality(s \ {x}) = Cardinality(s) - 1
  <2> DEFINE x == CHOOSE x \in s : TRUE
  <2>1. x \in s
    BY <1>4
  <2>2. Cardinality(s \ {x}) = Cardinality(s) - 1
    BY <1>2, <2>1, FS_RemoveElement
  <2>. QED
    BY <2>1, <2>2
<1>5. bad = {}
  <2>1. SUFFICES ASSUME bad # {} PROVE FALSE
    OBVIOUS
  <2>2. PICK n \in bad : \A k \in bad : n <= k
    <3>1. bad \subseteq Nat
      BY <1>1
    <3> HIDE DEF bad
    <3>. QED
      BY <3>1, <2>1, SmallestIn
  <2>3. CASE n = 0
    <3> DEFINE g == [s \in upto(0) |-> 0]
    <3>1. \A s \in upto(0) : s = {}
      BY <1>2, <1>3
    <3>2. \A s \in upto(0) : next(g, s) = 0
      BY <3>1
    <3> HIDE DEF next
    <3>3. g = [s \in upto(0) |-> next(g, s)]
      BY <3>2
    <3>. QED
      BY <2>2, <2>3, <3>3
  <2>4. CASE n # 0
    <3>1. n \in Nat /\ n - 1 \in 0 .. size /\ n - 1 \notin bad
      <4>1. n \in 0 .. size /\ \A k \in bad : n <= k
        BY <2>2
      <4> HIDE DEF bad, size
      <4>2. n \in Nat /\ n - 1 \in 0 .. size /\ n - 1 < n
        BY <1>1, <2>4, <4>1
      <4>. QED
        BY <4>1, <4>2
    <3>2. PICK f : whole(f, n - 1)
      BY <3>1
    <3> DEFINE g == [s \in upto(n) |-> next(f, s)]
    <3>3. ASSUME NEW s \in upto(n) PROVE g[s] = next(g, s)
      <4>1. CASE s = {}
        BY <4>1
      <4>2. CASE s # {}
        <5> DEFINE x == CHOOSE x \in s : TRUE
                   t == s \ {x}
        <5>1. t \in SUBSET places /\ Cardinality(t) = Cardinality(s) - 1
          BY <1>4, <4>2
        <5>2. Cardinality(s) \in Nat /\ Cardinality(s) <= n
          BY <1>2
        <5>3. t \in upto(n - 1) /\ t \in upto(n)
          BY <3>1, <5>1, <5>2
        <5>4. f[t] = next(f, t)
          <6> HIDE DEF next, t, upto
          <6>. QED
            BY <3>2, <5>3, Zenon
        <5>5. g[t] = next(f, t)
          <6> HIDE DEF next, t, upto
          <6>. QED
            BY <5>3
        <5>6. g[s] = amounts[x] + f[t]
          BY <4>2
        <5>7. next(g, s) = amounts[x] + g[t]
          <6> HIDE DEF g
          <6>. QED
            BY <4>2
        <5>. QED
          BY <5>4, <5>5, <5>6, <5>7
      <4>. QED
        BY <4>1, <4>2
    <3>4. g = [s \in upto(n) |-> next(g, s)]
      <4>1. g = [s \in upto(n) |-> g[s]]
        <5> HIDE DEF next, upto
        <5>. QED
          OBVIOUS
      <4> HIDE DEF next, upto, g
      <4>. QED
        BY <3>3, <4>1
    <3>5. whole(g, n)
      <4> HIDE DEF next, upto, g
      <4>. QED
        BY <3>4, Zenon
    <3>. QED
      BY <3>5, <2>2
  <2>. QED
    BY <2>3, <2>4
<1>6. PICK f : whole(f, size)
  <2>1. size \in 0 .. size
    BY <1>1
  <2> HIDE DEF whole, size
  <2>. QED
    BY <1>5, <2>1
<1>7. upto(size) = SUBSET places
  BY <1>2
<1>8. Summed(amounts, places, f)
  BY <1>6, <1>7, Zenon DEF Summed
<1>. QED
  BY <1>8

\* Total is such a sum.
LEMMA TotalIs ==
  ASSUME NEW places, IsFiniteSet(places), NEW amounts
  PROVE  \E of : Summed(amounts, places, of) /\ Total(amounts, places) = of[places]
<1> DEFINE chosen == CHOOSE of : Summed(amounts, places, of)
<1>1. Summed(amounts, places, chosen)
  BY SumExists, Zenon
<1>2. Total(amounts, places) = chosen[places]
  BY Zenon DEF Total, MapThenSumSet, MapThenFoldSet, Summed
<1>. QED
  BY <1>1, <1>2, Zenon

\* A sum is a number, and any place may be taken first.
LEMMA SumSteps ==
  ASSUME NEW places, IsFiniteSet(places), NEW amounts, \A x \in places : amounts[x] \in Int,
         NEW of, Summed(amounts, places, of)
  PROVE  /\ of[{}] = 0
         /\ \A s \in SUBSET places : of[s] \in Int
         /\ \A s \in SUBSET places : \A x \in s : of[s] = amounts[x] + of[s \ {x}]
<1> DEFINE sound(s) == of[s] \in Int /\ \A x \in s : of[s] = amounts[x] + of[s \ {x}]
           size == Cardinality(places)
           bad == {n \in 0 .. size : \E s \in SUBSET places : Cardinality(s) = n /\ ~ sound(s)}
<1>1. \A s \in SUBSET places : of[s] = IF s = {} THEN 0 ELSE LET x == CHOOSE x \in s : TRUE IN amounts[x] + of[s \ {x}]
  BY Zenon DEF Summed
<1>2. size \in Nat
  BY FS_CardinalityType
<1>3. \A s \in SUBSET places : IsFiniteSet(s) /\ Cardinality(s) \in 0 .. size
  <2>. TAKE s \in SUBSET places
  <2>1. IsFiniteSet(s) /\ Cardinality(s) <= size
    BY FS_Subset
  <2>2. Cardinality(s) \in Nat
    BY <2>1, FS_CardinalityType
  <2>. QED
    BY <1>2, <2>1, <2>2
<1>4. ASSUME NEW s \in SUBSET places, NEW x \in s
      PROVE  s \ {x} \in SUBSET places /\ Cardinality(s \ {x}) = Cardinality(s) - 1
  BY <1>3, FS_RemoveElement
<1>5. of[{}] = 0
  BY <1>1
<1>6. bad = {}
  <2>1. SUFFICES ASSUME bad # {} PROVE FALSE
    OBVIOUS
  <2>2. PICK n \in bad : \A k \in bad : n <= k
    <3>1. bad \subseteq Nat
      BY <1>2
    <3> HIDE DEF bad
    <3>. QED
      BY <3>1, <2>1, SmallestIn
  <2>3. PICK s \in SUBSET places : Cardinality(s) = n /\ ~ sound(s)
    BY <2>2
  <2>4. \A t \in SUBSET places : Cardinality(t) < n => sound(t)
    <3>. TAKE t \in SUBSET places
    <3>. HAVE Cardinality(t) < n
    <3>. HIDE DEF sound
    <3>1. Cardinality(t) \in 0 .. size /\ ~ (n <= Cardinality(t))
      BY <1>3, <2>2, <2>3
    <3>. QED
      BY <2>2, <3>1
  <2>5. s # {}
    BY <1>5, <2>3
  <2> DEFINE y == CHOOSE y \in s : TRUE
  <2>6. y \in s /\ of[s] = amounts[y] + of[s \ {y}]
    BY <1>1, <2>5
  <2> HIDE DEF y
  <2>7. \A x \in s : /\ s \ {x} \in SUBSET places /\ Cardinality(s \ {x}) < n
                     /\ amounts[x] \in Int
    <3>. TAKE x \in s
    <3>1. Cardinality(s \ {x}) = Cardinality(s) - 1 /\ s \ {x} \in SUBSET places
      BY <1>4
    <3>2. Cardinality(s) \in Int
      BY <1>3
    <3>. QED
      BY <2>3, <3>1, <3>2
  <2>8. of[s] \in Int
    BY <2>4, <2>6, <2>7
  <2>9. ASSUME NEW x \in s PROVE of[s] = amounts[x] + of[s \ {x}]
    <3>1. CASE x = y
      BY <2>6, <3>1
    <3>2. CASE x # y
      <4>1. (s \ {x}) \ {y} = (s \ {y}) \ {x}
        OBVIOUS
      <4>2. of[s \ {y}] = amounts[x] + of[(s \ {y}) \ {x}]
        BY <2>4, <2>6, <2>7, <3>2
      <4>3. of[s \ {x}] = amounts[y] + of[(s \ {x}) \ {y}]
        BY <2>4, <2>6, <2>7, <3>2
      <4>4. of[(s \ {x}) \ {y}] \in Int
        <5>1. s \ {x} \in SUBSET places /\ y \in s \ {x}
          BY <2>6, <3>2
        <5>2. (s \ {x}) \ {y} \in SUBSET places /\ Cardinality((s \ {x}) \ {y}) = Cardinality(s \ {x}) - 1
          BY <5>1, <1>4
        <5>3. Cardinality(s \ {x}) \in Int /\ n \in Int
          BY <1>3, <5>1, <2>3
        <5>4. Cardinality((s \ {x}) \ {y}) < n
          BY <2>7, <5>2, <5>3
        <5>. QED
          BY <2>4, <5>2, <5>4
      <4> DEFINE rest == of[(s \ {x}) \ {y}]
      <4>5. of[s] = amounts[y] + (amounts[x] + rest)
        BY <2>6, <4>1, <4>2
      <4>6. of[s \ {x}] = amounts[y] + rest
        BY <4>3
      <4>7. amounts[x] \in Int /\ amounts[y] \in Int /\ rest \in Int
        BY <2>6, <2>7, <4>4
      <4> HIDE DEF rest
      <4>. QED
        BY <4>5, <4>6, <4>7
    <3>. QED
      BY <3>1, <3>2
  <2>. QED
    BY <2>3, <2>8, <2>9
<1>7. ASSUME NEW s \in SUBSET places PROVE sound(s)
  <2> HIDE DEF sound
  <2>. QED
    BY <1>3, <1>6
<1>. QED
  BY <1>5, <1>7

\* Two sums of the same amounts agree where both are.
LEMMA SumsAgree ==
  ASSUME NEW places, IsFiniteSet(places), NEW fewer \in SUBSET places, NEW amounts, \A x \in places : amounts[x] \in Int,
         NEW of, Summed(amounts, places, of), NEW other, Summed(amounts, fewer, other)
  PROVE  of[fewer] = other[fewer]
<1> DEFINE size == Cardinality(fewer)
           bad == {n \in 0 .. size : \E s \in SUBSET fewer : Cardinality(s) = n /\ of[s] # other[s]}
<1>1. IsFiniteSet(fewer)
  BY FS_Subset
<1>2. size \in Nat
  BY <1>1, FS_CardinalityType
<1>3. \A s \in SUBSET fewer : IsFiniteSet(s) /\ Cardinality(s) \in 0 .. size
  <2>. TAKE s \in SUBSET fewer
  <2>1. IsFiniteSet(s) /\ Cardinality(s) <= size
    BY <1>1, FS_Subset
  <2>2. Cardinality(s) \in Nat
    BY <2>1, FS_CardinalityType
  <2>. QED
    BY <1>2, <2>1, <2>2
<1>4. /\ of[{}] = 0
      /\ \A s \in SUBSET places : of[s] \in Int
      /\ \A s \in SUBSET places : \A x \in s : of[s] = amounts[x] + of[s \ {x}]
  <2>1. /\ IsFiniteSet(places) /\ (\A x \in places : amounts[x] \in Int) /\ Summed(amounts, places, of)
    OBVIOUS
  <2>. QED
    BY <2>1, SumSteps
<1>5. /\ other[{}] = 0
      /\ \A s \in SUBSET fewer : other[s] \in Int
      /\ \A s \in SUBSET fewer : \A x \in s : other[s] = amounts[x] + other[s \ {x}]
  <2>1. IsFiniteSet(fewer) /\ (\A x \in fewer : amounts[x] \in Int) /\ Summed(amounts, fewer, other)
    BY <1>1
  <2>. QED
    BY <2>1, SumSteps
<1>6. of[{}] = 0 /\ other[{}] = 0
  BY <1>4, <1>5
<1>7. bad = {}
  <2>1. SUFFICES ASSUME bad # {} PROVE FALSE
    OBVIOUS
  <2>2. PICK n \in bad : \A k \in bad : n <= k
    <3>1. bad \subseteq Nat
      BY <1>2
    <3> HIDE DEF bad
    <3>. QED
      BY <3>1, <2>1, SmallestIn
  <2>3. PICK s \in SUBSET fewer : Cardinality(s) = n /\ of[s] # other[s]
    BY <2>2
  <2>4. PICK x \in s : TRUE
    BY <1>6, <2>3
  <2>5. s \ {x} \in SUBSET fewer /\ Cardinality(s \ {x}) = n - 1
    BY <1>3, <2>3, FS_RemoveElement
  <2>6. n \in Int /\ n - 1 \in 0 .. size
    BY <1>3, <2>3, <2>5
  <2>7. of[s \ {x}] = other[s \ {x}]
    <3>1. n - 1 \notin bad
      <4>1. ~ (n <= n - 1)
        BY <2>6
      <4>. QED
        BY <2>2, <4>1
    <3>. QED
      BY <2>5, <2>6, <3>1
  <2>8. of[s] = amounts[x] + of[s \ {x}]
    BY <1>4
  <2>9. other[s] = amounts[x] + other[s \ {x}]
    BY <1>5
  <2>. QED
    BY <2>3, <2>7, <2>8, <2>9
<1>8. size \in 0 .. size /\ fewer \in SUBSET fewer
  BY <1>2
<1>. QED
  BY <1>7, <1>8

\* A total is a number; that of no places is 0, and any place may be taken out of it.
LEMMA TotalSteps ==
  ASSUME NEW places, IsFiniteSet(places), NEW amounts, \A x \in places : amounts[x] \in Int
  PROVE  /\ Total(amounts, places) \in Int
         /\ places = {} => Total(amounts, places) = 0
         /\ \A x \in places : Total(amounts, places) = amounts[x] + Total(amounts, places \ {x})
<1>1. PICK of : Summed(amounts, places, of) /\ Total(amounts, places) = of[places]
  BY TotalIs
<1>2. /\ of[{}] = 0 /\ of[places] \in Int
      /\ \A x \in places : of[places] = amounts[x] + of[places \ {x}]
  <2>1. places \in SUBSET places
    OBVIOUS
  <2>. QED
    BY <1>1, <2>1, SumSteps
<1>3. ASSUME NEW x \in places PROVE Total(amounts, places) = amounts[x] + Total(amounts, places \ {x})
  <2>1. IsFiniteSet(places \ {x}) /\ places \ {x} \in SUBSET places
    BY FS_Subset
  <2>2. PICK other : Summed(amounts, places \ {x}, other) /\ Total(amounts, places \ {x}) = other[places \ {x}]
    BY <2>1, TotalIs
  <2>3. of[places \ {x}] = other[places \ {x}]
    BY <1>1, <2>1, <2>2, SumsAgree
  <2>. QED
    BY <1>1, <1>2, <2>2, <2>3
<1>. QED
  BY <1>1, <1>2, <1>3

\* A total up to a place is the place's amount and the total before it.
LEMMA TotalUpTo ==
  ASSUME NEW amounts, NEW n \in Nat, \A k \in 1 .. n : amounts[k] \in Int
  PROVE  /\ Total(amounts, 1 .. n) \in Int
         /\ n = 0 => Total(amounts, 1 .. n) = 0
         /\ n # 0 => Total(amounts, 1 .. n) = amounts[n] + Total(amounts, 1 .. n - 1)
<1>1. IsFiniteSet(1 .. n)
  BY FS_Interval
<1>2. n = 0 => 1 .. n = {}
  OBVIOUS
<1>3. n # 0 => n \in 1 .. n /\ (1 .. n) \ {n} = 1 .. n - 1
  OBVIOUS
<1>. QED
  BY <1>1, <1>2, <1>3, TotalSteps

\* The total of amounts that are nothing.
LEMMA TotalOfNothing ==
  ASSUME NEW places, IsFiniteSet(places), NEW amounts, \A x \in places : amounts[x] = 0
  PROVE  Total(amounts, places) = 0
<1> DEFINE size == Cardinality(places)
           bad == {n \in 0 .. size : \E s \in SUBSET places : Cardinality(s) = n /\ Total(amounts, s) # 0}
<1>1. size \in Nat
  BY FS_CardinalityType
<1>2. \A s \in SUBSET places : IsFiniteSet(s) /\ Cardinality(s) \in 0 .. size
  <2>. TAKE s \in SUBSET places
  <2>1. IsFiniteSet(s) /\ Cardinality(s) <= size
    BY FS_Subset
  <2>2. Cardinality(s) \in Nat
    BY <2>1, FS_CardinalityType
  <2>. QED
    BY <1>1, <2>1, <2>2
<1>3. bad = {}
  <2>1. SUFFICES ASSUME bad # {} PROVE FALSE
    OBVIOUS
  <2>2. PICK n \in bad : \A k \in bad : n <= k
    <3>1. bad \subseteq Nat
      BY <1>1
    <3> HIDE DEF bad
    <3>. QED
      BY <3>1, <2>1, SmallestIn
  <2>3. PICK s \in SUBSET places : Cardinality(s) = n /\ Total(amounts, s) # 0
    BY <2>2
  <2>4. IsFiniteSet(s) /\ \A x \in s : amounts[x] = 0 /\ amounts[x] \in Int
    BY <1>2
  <2>5. PICK x \in s : TRUE
    BY <2>3, <2>4, TotalSteps
  <2>6. s \ {x} \in SUBSET places /\ Cardinality(s \ {x}) = n - 1
    BY <2>3, <2>4, FS_RemoveElement
  <2>7. n \in Int /\ n - 1 \in 0 .. size
    BY <1>2, <2>3, <2>6
  <2>8. Total(amounts, s \ {x}) = 0
    <3>1. n - 1 \notin bad
      <4>1. ~ (n <= n - 1)
        BY <2>7
      <4>. QED
        BY <2>2, <4>1
    <3>. QED
      BY <2>6, <2>7, <3>1
  <2>9. Total(amounts, s) = amounts[x] + Total(amounts, s \ {x})
    BY <2>4, TotalSteps
  <2>. QED
    BY <2>3, <2>4, <2>8, <2>9
<1>4. size \in 0 .. size /\ places \in SUBSET places
  BY <1>1
<1>. QED
  BY <1>3, <1>4

\* The total of amounts that are nothing but at two places.
LEMMA TotalOfTwo ==
  ASSUME NEW places, IsFiniteSet(places), NEW amounts, NEW a \in places, NEW b \in places, a # b,
         amounts[a] \in Int, amounts[b] \in Int, \A x \in places \ {a, b} : amounts[x] = 0
  PROVE  Total(amounts, places) = amounts[a] + amounts[b]
<1>1. \A x \in places : amounts[x] \in Int
  OBVIOUS
<1>2. Total(amounts, places) = amounts[a] + Total(amounts, places \ {a})
  BY <1>1, TotalSteps
<1>3. IsFiniteSet(places \ {a}) /\ b \in places \ {a}
  BY FS_Subset
<1>4. Total(amounts, places \ {a}) = amounts[b] + Total(amounts, (places \ {a}) \ {b})
  <2>1. \A x \in places \ {a} : amounts[x] \in Int
    BY <1>1
  <2>. QED
    BY <1>3, <2>1, TotalSteps
<1>5. Total(amounts, (places \ {a}) \ {b}) = 0
  <2>1. IsFiniteSet((places \ {a}) \ {b})
    BY <1>3, FS_Subset
  <2>2. \A x \in (places \ {a}) \ {b} : amounts[x] = 0
    OBVIOUS
  <2>. QED
    BY <2>1, <2>2, TotalOfNothing
<1>. QED
  BY <1>2, <1>4, <1>5

---------------------------------------------------------------------------
(* The calibration's invariant.                                            *)

\* The basket is that of the model, with a helper at least and increasing while it is bootstrapped.
BasketFits ==
  /\ model = NotYet => helpers = <<>> /\ outcome = NotYet
  /\ model # NotYet =>
       /\ model \in Calibrated
       /\ helpers \in Seq([expiry : Int, need : Nat]) /\ Len(helpers) = Len(expiries(model))
       /\ \A i \in DOMAIN helpers : helpers[i].expiry = expiries(model)[i]
       /\ outcome \in {NotYet, "missed", "accepted"} => expiries(model) # <<>> /\ Increasing(expiries(model))

\* A bucket solved takes the variance from the one before to its helper's need, or to an end of the bracket.
BucketFits(i) ==
  /\ increments[i] = zetas[i] - ZetaBefore(i)
  /\ \/ zetas[i] = ZetaBefore(i) + SIGMA_FLOOR * Length(i)
     \/ zetas[i] = ZetaBefore(i) + SIGMA_CEILING * Length(i)
     \/ zetas[i] = helpers[i].need
  /\ Length(i) = 0 => increments[i] = 0

BucketsFit ==
  /\ zetas \in Seq(Int) /\ increments \in Seq(Int)
  /\ Len(increments) = Len(zetas) /\ Len(zetas) <= Len(helpers)
  /\ \A i \in DOMAIN zetas : BucketFits(i)
  /\ outcome = "accepted" => Len(zetas) = Len(helpers) /\ \A i \in DOMAIN helpers : ~AtCeiling(i)

StackFits == stacked = NotYet \/ \E shapes \in LegShapes : stacked = Stack(shapes)

CalibInv == BasketFits /\ BucketsFit /\ StackFits

\* The expiries of anything calibrated are days.
LEMMA ExpiriesAre ==
  ASSUME NEW m \in Calibrated
  PROVE  /\ expiries(m) \in Seq(Int)
         /\ \A k \in DOMAIN expiries(m) : m.built_on <= expiries(m)[k]
<1>1. CASE m.kind = "currency"
  BY <1>1, CalibratedAssumption DEF expiries
<1>2. CASE m.kind # "currency"
  <2>1. KeptOf(m, basket_expiries(m), Len(Dates(m)))
    BY <1>2, BasketIs
  <2>2. expiries(m) = basket_expiries(m)
    BY <1>2 DEF expiries
  <2>3. ASSUME NEW k \in DOMAIN expiries(m) PROVE m.built_on <= expiries(m)[k]
    <3>1. Candidate(m, expiries(m)[k]) /\ expiries(m)[k] \in Int
      BY <2>1, <2>2, <2>3 DEF KeptOf
    <3>. QED
      BY <3>1, DatesAre DEF Candidate
  <2>. QED
    BY <2>1, <2>2, <2>3 DEF KeptOf
<1>. QED
  BY <1>1, <1>2

LEMMA CalibInitial == CalibInit => CalibInv
BY DEF CalibInit, CalibInv, BasketFits, BucketsFit, StackFits

LEMMA CalibrateOnKeeps == ASSUME CalibInv, CalibrateOn PROVE CalibInv'
<1>0. PICK m \in Calibrated :
        /\ model' = m
        /\ outcome' = CASE expiries(m) = <<>> /\ Expired(m)  -> "none"
                        [] expiries(m) = <<>> /\ ~Expired(m) -> "no helper"
                        [] expiries(m) # <<>> /\ ~Increasing(expiries(m)) -> "not increasing"
                        [] expiries(m) # <<>> /\ Increasing(expiries(m)) -> NotYet
        /\ \E needs \in [DOMAIN expiries(m) -> HelperNeeds] :
             helpers' = [i \in DOMAIN expiries(m) |-> [expiry |-> expiries(m)[i], need |-> needs[i]]]
  BY DEF CalibrateOn
<1>1. PICK needs \in [DOMAIN expiries(m) -> HelperNeeds] :
        helpers' = [i \in DOMAIN expiries(m) |-> [expiry |-> expiries(m)[i], need |-> needs[i]]]
  BY <1>0
<1>2. expiries(m) \in Seq(Int) /\ DOMAIN expiries(m) = 1 .. Len(expiries(m)) /\ Len(expiries(m)) \in Nat
  BY ExpiriesAre
<1>3. /\ helpers' \in Seq([expiry : Int, need : Nat]) /\ Len(helpers') = Len(expiries(m))
      /\ \A i \in DOMAIN helpers' : helpers'[i].expiry = expiries(m)[i]
  <2>1. \A i \in DOMAIN expiries(m) : expiries(m)[i] \in Int /\ needs[i] \in Nat
    <3>. TAKE i \in DOMAIN expiries(m)
    <3>1. expiries(m)[i] \in Int
      BY <1>2
    <3>2. needs[i] \in HelperNeeds
      BY <1>1
    <3>. QED
      BY <3>1, <3>2, NeedsAssumption
  <2>2. helpers' \in [1 .. Len(expiries(m)) -> [expiry : Int, need : Nat]]
    BY <1>1, <1>2, <2>1
  <2>. QED
    BY <1>1, <1>2, <2>2
<1>4. /\ outcome' \in {NotYet, "missed", "accepted"} => expiries(m) # <<>> /\ Increasing(expiries(m))
      /\ outcome' # "accepted"
  BY <1>0, CalibratedAssumption
<1>5. m # NotYet
  BY CalibratedAssumption
<1>6. BasketFits'
  <2> HIDE DEF Increasing
  <2>. QED
    BY <1>0, <1>3, <1>4, <1>5 DEF BasketFits
<1>7. zetas = <<>> /\ increments = <<>> /\ UNCHANGED <<zetas, increments, stacked>>
  <2>1. helpers = <<>>
    BY DEF CalibrateOn, CalibInv, BasketFits
  <2>2. zetas \in Seq(Int) /\ increments \in Seq(Int) /\ Len(increments) = Len(zetas) /\ Len(zetas) <= 0
    BY <2>1 DEF CalibInv, BucketsFit
  <2>3. Len(zetas) = 0 /\ Len(increments) = 0
    BY <2>2
  <2>4. zetas = <<>> /\ increments = <<>>
    BY <2>2, <2>3
  <2>. QED
    BY <2>4 DEF CalibrateOn
<1>8. BucketsFit'
  BY <1>3, <1>4, <1>7 DEF BucketsFit
<1>9. StackFits'
  BY <1>7 DEF CalibInv, StackFits
<1>. QED
  BY <1>6, <1>8, <1>9 DEF CalibInv

\* A bucket's length is a number, positive past the first.
LEMMA LengthIs ==
  ASSUME BasketFits, model # NotYet, NEW i \in DOMAIN helpers
  PROVE  /\ Length(i) \in Int /\ helpers[i].need \in Nat /\ helpers \in Seq([expiry : Int, need : Nat])
         /\ outcome \in {NotYet, "missed", "accepted"} => Length(i) >= 0 /\ (i # 1 => Length(i) > 0)
<1>1. /\ model \in Calibrated /\ model.built_on \in Int
      /\ helpers \in Seq([expiry : Int, need : Nat]) /\ Len(helpers) = Len(expiries(model))
      /\ \A k \in DOMAIN helpers : helpers[k].expiry = expiries(model)[k]
      /\ \A k \in DOMAIN expiries(model) : model.built_on <= expiries(model)[k]
      /\ expiries(model) \in Seq(Int)
  BY DatesAre, ExpiriesAre DEF BasketFits
<1>2. DOMAIN helpers = DOMAIN expiries(model) /\ DOMAIN helpers = 1 .. Len(helpers) /\ Len(helpers) \in Nat
  BY <1>1
<1>3. \A k \in DOMAIN helpers : helpers[k].expiry \in Int /\ helpers[k].need \in Nat
  <2>1. \A k \in DOMAIN helpers : helpers[k] \in [expiry : Int, need : Nat]
    BY <1>1, ElementIn, Zenon
  <2>. QED
    BY <2>1
<1>4. CASE i = 1
  <2>1. Length(i) = helpers[i].expiry - model.built_on
    BY <1>4 DEF Length
  <2>2. model.built_on <= helpers[i].expiry
    BY <1>1, <1>2
  <2>. QED
    BY <1>1, <1>3, <1>4, <2>1, <2>2
<1>5. CASE i # 1
  <2>1. Length(i) = helpers[i].expiry - helpers[i - 1].expiry
    BY <1>5 DEF Length
  <2>2. i \in 2 .. Len(helpers) /\ i - 1 \in DOMAIN helpers
    BY <1>2, <1>5
  <2>3. outcome \in {NotYet, "missed", "accepted"} => helpers[i - 1].expiry < helpers[i].expiry
    <3>1. outcome \in {NotYet, "missed", "accepted"} => Increasing(expiries(model))
      BY DEF BasketFits
    <3>2. Increasing(expiries(model)) => expiries(model)[i - 1] < expiries(model)[i]
      BY <1>1, <2>2 DEF Increasing
    <3>3. helpers[i - 1].expiry = expiries(model)[i - 1] /\ helpers[i].expiry = expiries(model)[i]
      BY <1>1, <2>2
    <3>. QED
      BY <3>1, <3>2, <3>3
  <2>4. /\ helpers[i].expiry \in Int /\ helpers[i - 1].expiry \in Int /\ helpers[i].need \in Nat
        /\ helpers \in Seq([expiry : Int, need : Nat])
    BY <1>1, <1>3, <2>2
  <2>5. Length(i) \in Int
    BY <2>1, <2>4
  <2>6. outcome \in {NotYet, "missed", "accepted"} => Length(i) > 0
    BY <2>1, <2>3, <2>4
  <2>. QED
    BY <2>4, <2>5, <2>6
<1>. QED
  BY <1>4, <1>5

LEMMA BucketKeeps == ASSUME CalibInv, Bucket PROVE CalibInv'
<1> DEFINE i    == Len(zetas) + 1
           base == ZetaBefore(i)
           low  == base + SIGMA_FLOOR * Length(i)
           high == base + SIGMA_CEILING * Length(i)
           need == helpers[i].need
           zeta == Max({low, Min({high, need})})
<1>1. /\ model # NotYet /\ outcome = NotYet /\ Len(zetas) < Len(helpers)
      /\ zetas' = Append(zetas, zeta) /\ increments' = Append(increments, zeta - base)
      /\ UNCHANGED <<model, helpers, outcome, stacked>>
  BY DEF Bucket
<1>2. /\ zetas \in Seq(Int) /\ increments \in Seq(Int) /\ Len(increments) = Len(zetas) /\ Len(zetas) \in Nat
      /\ DOMAIN zetas = 1 .. Len(zetas) /\ DOMAIN increments = 1 .. Len(zetas)
      /\ BasketFits /\ helpers \in Seq([expiry : Int, need : Nat])
      /\ \A k \in DOMAIN zetas : BucketFits(k)
  BY <1>1 DEF CalibInv, BucketsFit, BasketFits
<1>3. i \in DOMAIN helpers
  BY <1>1, <1>2
<1>4. Length(i) \in Int /\ need \in Int
  BY <1>1, <1>2, <1>3, LengthIs
<1>5. base \in Int
  <2>1. i # 1 => i - 1 \in 1 .. Len(zetas)
    BY <1>2
  <2>. QED
    BY <1>2, <2>1 DEF ZetaBefore
<1>6. SIGMA_FLOOR \in Int /\ SIGMA_CEILING \in Int
  BY NeedsAssumption
<1>7. low \in Int /\ high \in Int
  BY <1>4, <1>5, <1>6
<1>8. zeta \in Int /\ (zeta = low \/ zeta = high \/ zeta = need)
  <2> HIDE DEF low, high, need
  <2>1. Min({high, need}) \in Int /\ (Min({high, need}) = high \/ Min({high, need}) = need)
    BY <1>4, <1>7, OfTwo
  <2>. QED
    BY <1>7, <2>1, OfTwo
<1>16. Length(i) = 0 => zeta = base
  <2>. HAVE Length(i) = 0
  <2>1. SIGMA_FLOOR * Length(i) = 0 /\ SIGMA_CEILING * Length(i) = 0
    BY <1>6
  <2>2. low = base /\ high = base
    <3> HIDE DEF base
    <3>. QED
      BY <1>5, <2>1
  <2>3. Max({base, Min({base, need})}) = base
    BY <1>4, <1>5, NoLess
  <2> HIDE DEF low, high, base, need
  <2>. QED
    BY <2>2, <2>3
<1>9. /\ zetas' \in Seq(Int) /\ increments' \in Seq(Int) /\ Len(zetas') = i /\ Len(increments') = i
      /\ zetas'[i] = zeta /\ increments'[i] = zeta - base
      /\ \A k \in DOMAIN zetas : zetas'[k] = zetas[k] /\ increments'[k] = increments[k]
  <2> DEFINE more == zeta - base
  <2>1. zetas' = Append(zetas, zeta) /\ increments' = Append(increments, more) /\ i = Len(zetas) + 1
    BY <1>1
  <2>2. zeta \in Int /\ more \in Int
    BY <1>5, <1>8
  <2> HIDE DEF zeta, more, i
  <2>3. /\ zetas' \in Seq(Int) /\ Len(zetas') = i /\ zetas'[i] = zeta
        /\ \A k \in DOMAIN zetas : zetas'[k] = zetas[k]
    BY <1>2, <2>1, <2>2
  <2>4. /\ increments' \in Seq(Int) /\ Len(increments') = i /\ increments'[i] = more
        /\ \A k \in DOMAIN zetas : increments'[k] = increments[k]
    BY <1>2, <2>1, <2>2
  <2>. QED
    BY <2>3, <2>4 DEF more
<1>10. \A k \in 1 .. i : Length(k)' = Length(k) /\ ZetaBefore(k)' = ZetaBefore(k)
  <2>. TAKE k \in 1 .. i
  <2>1. k # 1 => k - 1 \in DOMAIN zetas
    BY <1>2
  <2>2. ZetaBefore(k)' = ZetaBefore(k)
    BY <1>9, <2>1 DEF ZetaBefore
  <2>. QED
    BY <1>1, <2>2 DEF Length
<1>11. ASSUME NEW k \in DOMAIN zetas' PROVE BucketFits(k)'
  <2>1. k \in 1 .. i
    BY <1>9
  <2>2. Length(k)' = Length(k) /\ ZetaBefore(k)' = ZetaBefore(k)
    BY <1>10, <2>1
  <2>3. CASE k = i
    <3>1. increments'[k] = zetas'[k] - ZetaBefore(k)
      BY <1>9, <2>3
    <3>2. zetas'[k] = low \/ zetas'[k] = high \/ zetas'[k] = helpers[k].need
      BY <1>8, <1>9, <2>3
    <3>3. Length(k) = 0 => increments'[k] = 0
      BY <1>5, <1>16, <1>9, <2>3
    <3>. QED
      BY <1>1, <2>2, <2>3, <3>1, <3>2, <3>3 DEF BucketFits
  <2>4. CASE k # i
    <3>1. k \in DOMAIN zetas
      BY <1>2, <2>1, <2>4
    <3>2. zetas'[k] = zetas[k] /\ increments'[k] = increments[k] /\ BucketFits(k)
      BY <1>2, <1>9, <3>1
    <3>. QED
      BY <1>1, <2>2, <3>2 DEF BucketFits
  <2>. QED
    BY <2>3, <2>4
<1>12. Len(zetas') <= Len(helpers') /\ outcome' # "accepted"
  <2>1. Len(helpers) \in Nat
    BY <1>2
  <2>2. outcome' # "accepted"
    BY <1>1, CalibratedAssumption
  <2>3. Len(zetas') = Len(zetas) + 1 /\ helpers' = helpers
    BY <1>1, <1>9
  <2>. QED
    BY <1>1, <1>2, <2>1, <2>2, <2>3
<1>13. BucketsFit'
  BY <1>9, <1>11, <1>12 DEF BucketsFit
<1>14. BasketFits'
  BY <1>1, <1>2 DEF BasketFits
<1>15. StackFits'
  BY <1>1 DEF CalibInv, StackFits
<1>. QED
  BY <1>13, <1>14, <1>15 DEF CalibInv

LEMMA RequireAcceptedKeeps == ASSUME CalibInv, RequireAccepted PROVE CalibInv'
<1>1. /\ model # NotYet /\ outcome = NotYet /\ Len(zetas) = Len(helpers)
      /\ outcome' = IF Misses(model.tolerance) THEN "missed" ELSE "accepted"
      /\ UNCHANGED <<model, helpers, increments, zetas, stacked>>
  BY DEF RequireAccepted
<1>2. BasketFits'
  BY <1>1 DEF CalibInv, BasketFits
<1>3. \A i : BucketFits(i)' = BucketFits(i) /\ AtCeiling(i)' = AtCeiling(i)
  BY <1>1 DEF BucketFits, AtCeiling, ZetaBefore, Length
<1>4. outcome' = "accepted" => \A i \in DOMAIN helpers : ~AtCeiling(i)
  BY <1>1 DEF Misses
<1>5. BucketsFit'
  <2>1. /\ zetas' \in Seq(Int) /\ increments' \in Seq(Int)
        /\ Len(increments') = Len(zetas') /\ Len(zetas') <= Len(helpers')
    BY <1>1 DEF CalibInv, BucketsFit
  <2>2. \A i \in DOMAIN zetas' : BucketFits(i)'
    BY <1>1, <1>3 DEF CalibInv, BucketsFit
  <2>3. outcome' = "accepted" => Len(zetas') = Len(helpers') /\ \A i \in DOMAIN helpers' : ~AtCeiling(i)'
    BY <1>1, <1>3, <1>4
  <2>. QED
    BY <2>1, <2>2, <2>3 DEF BucketsFit
<1>6. StackFits'
  BY <1>1 DEF CalibInv, StackFits
<1>. QED
  BY <1>2, <1>5, <1>6 DEF CalibInv

LEMMA StackHelpersKeeps == ASSUME CalibInv, StackHelpers PROVE CalibInv'
<1>1. (\E shapes \in LegShapes : stacked' = Stack(shapes)) /\ UNCHANGED <<model, helpers, increments, zetas, outcome>>
  BY DEF StackHelpers
<1>2. BasketFits' /\ BucketsFit'
  BY <1>1 DEF CalibInv, BasketFits, BucketsFit, BucketFits, AtCeiling, ZetaBefore, Length
<1>3. StackFits'
  BY <1>1 DEF StackFits
<1>. QED
  BY <1>2, <1>3 DEF CalibInv

LEMMA CalibStutterKeeps == ASSUME CalibInv, UNCHANGED calibVars PROVE CalibInv'
BY DEF CalibInv, calibVars, BasketFits, BucketsFit, BucketFits, AtCeiling, ZetaBefore, Length, StackFits

LEMMA CalibInvInvariant == CalibSpec => []CalibInv
<1>1. CalibInit => CalibInv
  BY CalibInitial
<1>2. CalibInv /\ [CalibNext]_calibVars => CalibInv'
  BY CalibrateOnKeeps, BucketKeeps, RequireAcceptedKeeps, StackHelpersKeeps, CalibStutterKeeps DEF CalibNext
<1>. QED
  BY <1>1, <1>2, PTL DEF CalibSpec

\* What an accepted calibration has of its first buckets together is the last one's variance.
LEMMA BucketsAddUp ==
  ASSUME BucketsFit, NEW i \in DOMAIN zetas
  PROVE  Total(increments, 1 .. i) = zetas[i]
<1> DEFINE size == Len(zetas)
           bad == {n \in 1 .. size : Total(increments, 1 .. n) # zetas[n]}
<1>1. /\ zetas \in Seq(Int) /\ increments \in Seq(Int) /\ size \in Nat
      /\ DOMAIN zetas = 1 .. size /\ DOMAIN increments = 1 .. size
  BY DEF BucketsFit
<1>2. bad = {}
  <2>1. SUFFICES ASSUME bad # {} PROVE FALSE
    OBVIOUS
  <2>2. PICK n \in bad : \A k \in bad : n <= k
    <3>1. bad \subseteq Nat
      BY <1>1
    <3> HIDE DEF bad
    <3>. QED
      BY <3>1, <2>1, SmallestIn
  <2>3. n \in 1 .. size /\ n \in Nat /\ n # 0
    BY <1>1, <2>2
  <2>4. \A k \in 1 .. n : increments[k] \in Int
    BY <1>1, <2>3
  <2>5. Total(increments, 1 .. n) = increments[n] + Total(increments, 1 .. n - 1)
    BY <2>3, <2>4, TotalUpTo
  <2>6. Total(increments, 1 .. n - 1) = ZetaBefore(n)
    <3>1. CASE n = 1
      <4>1. Total(increments, 1 .. 0) = 0
        BY TotalUpTo
      <4>. QED
        BY <3>1, <4>1 DEF ZetaBefore
    <3>2. CASE n # 1
      <4>1. n - 1 \in 1 .. size /\ ~ (n <= n - 1)
        BY <1>1, <2>3, <3>2
      <4>2. n - 1 \notin bad
        BY <2>2, <4>1
      <4>. QED
        BY <3>2, <4>1, <4>2 DEF ZetaBefore
    <3>. QED
      BY <3>1, <3>2
  <2>7. increments[n] = zetas[n] - ZetaBefore(n)
    BY <1>1, <2>3 DEF BucketsFit, BucketFits
  <2>8. zetas[n] \in Int /\ ZetaBefore(n) \in Int
    <3>1. zetas[n] \in Int
      BY <1>1, <2>3
    <3>2. n # 1 => n - 1 \in 1 .. size
      BY <1>1, <2>3
    <3>. QED
      BY <1>1, <3>1, <3>2 DEF ZetaBefore
  <2>. QED
    BY <2>2, <2>5, <2>6, <2>7, <2>8
<1>. QED
  BY <1>1, <1>2

LEMMA AcceptedGives == CalibInv => AcceptedReprices
<1>1. SUFFICES ASSUME CalibInv, outcome = "accepted"
               PROVE  /\ helpers # <<>>
                      /\ \A i \in DOMAIN helpers :
                           /\ Length(i) > 0 /\ ~AtCeiling(i)
                           /\ Total(increments, 1 .. i) = helpers[i].need \/ AtFloor(i)
  BY DEF AcceptedReprices
<1>2. BasketFits /\ BucketsFit /\ Len(zetas) = Len(helpers) /\ \A i \in DOMAIN helpers : ~AtCeiling(i)
  BY <1>1 DEF CalibInv, BucketsFit
<1>3. model # NotYet
  BY <1>1, <1>2, CalibratedAssumption DEF BasketFits
<1>4. helpers \in Seq([expiry : Int, need : Nat]) /\ Len(helpers) = Len(expiries(model)) /\ expiries(model) # <<>>
  BY <1>1, <1>2, <1>3 DEF BasketFits
<1>5. helpers # <<>>
  <2>1. expiries(model) \in Seq(Int)
    BY <1>2, <1>3, ExpiriesAre DEF BasketFits
  <2>. QED
    BY <1>4, <2>1
<1>6. ASSUME NEW i \in DOMAIN helpers
      PROVE  /\ Length(i) > 0 /\ ~AtCeiling(i)
             /\ Total(increments, 1 .. i) = helpers[i].need \/ AtFloor(i)
  <2>1. i \in DOMAIN zetas /\ DOMAIN zetas = 1 .. Len(zetas) /\ zetas \in Seq(Int) /\ Len(zetas) \in Nat
    BY <1>2, <1>4 DEF BucketsFit
  <2>2. BucketFits(i) /\ ~AtCeiling(i)
    BY <1>2, <2>1 DEF BucketsFit
  <2>3. Length(i) \in Int /\ Length(i) >= 0
    BY <1>1, <1>2, <1>3, LengthIs
  <2>4. ZetaBefore(i) \in Int /\ zetas[i] \in Int
    <3>1. i # 1 => i - 1 \in DOMAIN zetas
      BY <2>1
    <3>. QED
      BY <2>1, <3>1 DEF ZetaBefore
  <2> DEFINE low == SIGMA_FLOOR * Length(i)
             high == SIGMA_CEILING * Length(i)
  <2>5. low \in Int /\ high \in Int
    BY <2>3, NeedsAssumption
  <2>6. /\ increments[i] = zetas[i] - ZetaBefore(i)
        /\ zetas[i] = ZetaBefore(i) + low \/ zetas[i] = ZetaBefore(i) + high \/ zetas[i] = helpers[i].need
    BY <2>2 DEF BucketFits
  <2>7. increments[i] # high
    BY <2>2 DEF AtCeiling
  <2>8. zetas[i] = helpers[i].need \/ AtFloor(i)
    <3>1. (zetas[i] = ZetaBefore(i) + low) => increments[i] = low
      <4> HIDE DEF low
      <4>. QED
        BY <2>4, <2>5, <2>6
    <3>2. ~ (zetas[i] = ZetaBefore(i) + high)
      <4> HIDE DEF high
      <4>. QED
        BY <2>4, <2>5, <2>6, <2>7
    <3>. QED
      BY <2>6, <3>1, <3>2 DEF AtFloor
  <2>9. Length(i) > 0
    <3>1. CASE Length(i) = 0
      <4>1. low = 0 /\ high = 0
        BY <3>1, NeedsAssumption
      <4>2. increments[i] = 0
        BY <2>2, <3>1 DEF BucketFits
      <4>. QED
        BY <2>7, <4>1, <4>2
    <3>. QED
      BY <2>3, <3>1
  <2>10. Total(increments, 1 .. i) = zetas[i]
    BY <1>2, <2>1, BucketsAddUp
  <2>. QED
    BY <2>2, <2>8, <2>9, <2>10
<1>. QED
  BY <1>5, <1>6

LEMMA BasketGives == CalibInv => BasketCovers
<1>1. SUFFICES ASSUME CalibInv, model # NotYet, model.kind # "currency"
               PROVE  /\ model.kind = "bermudan" /\ ~Expired(model) => helpers # <<>>
                      /\ \A i, j \in DOMAIN helpers :
                           i # j /\ ~PastTheGrid(helpers[i].expiry) => Slot(helpers[i].expiry) # Slot(helpers[j].expiry)
                      /\ \A day \in {d \in Range(Dates(model)) : Candidate(model, d)} : \E i \in DOMAIN helpers :
                           helpers[i].expiry <= day /\ (helpers[i].expiry = day \/ Slot(helpers[i].expiry) = Slot(day))
  BY DEF BasketCovers
<1>2. /\ model \in Calibrated /\ helpers \in Seq([expiry : Int, need : Nat]) /\ Len(helpers) = Len(expiries(model))
      /\ \A i \in DOMAIN helpers : helpers[i].expiry = expiries(model)[i]
  BY <1>1 DEF CalibInv, BasketFits
<1>3. expiries(model) = basket_expiries(model) /\ KeptOf(model, basket_expiries(model), Len(Dates(model)))
  BY <1>1, <1>2, BasketIs DEF expiries
<1> DEFINE kept == basket_expiries(model)
<1>4. kept \in Seq(Int)
  BY <1>3 DEF KeptOf
<1> HIDE DEF kept
<1>5. DOMAIN helpers = DOMAIN kept /\ \A i \in DOMAIN kept : helpers[i].expiry = kept[i]
  <2>1. DOMAIN helpers = 1 .. Len(helpers) /\ DOMAIN kept = 1 .. Len(kept) /\ Len(helpers) = Len(kept)
    <3>1. DOMAIN helpers = 1 .. Len(helpers)
      BY <1>2
    <3>2. DOMAIN kept = 1 .. Len(kept)
      BY <1>4
    <3>. QED
      BY <1>2, <1>3, <3>1, <3>2 DEF kept
  <2>. QED
    BY <1>2, <1>3, <2>1 DEF kept
<1>6. \A i, j \in DOMAIN helpers :
        i # j /\ ~PastTheGrid(helpers[i].expiry) => Slot(helpers[i].expiry) # Slot(helpers[j].expiry)
  <2>1. \A j, k \in DOMAIN kept : j # k /\ ~PastTheGrid(kept[j]) => Slot(kept[j]) # Slot(kept[k])
    BY <1>3 DEF KeptOf, kept
  <2>. QED
    BY <1>5, <2>1
<1>7. ASSUME NEW day \in {d \in Range(Dates(model)) : Candidate(model, d)}
      PROVE  \E i \in DOMAIN helpers :
               helpers[i].expiry <= day /\ (helpers[i].expiry = day \/ Slot(helpers[i].expiry) = Slot(day))
  <2>1. PICK i \in DOMAIN Dates(model) : day = Dates(model)[i]
    BY DEF Range
  <2>2. DOMAIN Dates(model) = 1 .. Len(Dates(model))
    BY <1>2, DatesAre
  <2>3. PICK k \in DOMAIN kept : kept[k] <= day /\ (kept[k] = day \/ Slot(kept[k]) = Slot(day))
    BY <1>3, <1>7, <2>1, <2>2 DEF KeptOf, kept
  <2>. QED
    BY <1>5, <2>3
<1>8. ASSUME model.kind = "bermudan", ~Expired(model) PROVE helpers # <<>>
  <2>1. Dates(model) = model.exercise
    BY <1>8 DEF Dates
  <2>2. model.exercise \in Seq(Int) /\ model.exercise # <<>> /\ model.built_on \in Int
    BY <1>2, CalibratedAssumption
  <2> DEFINE last == Len(model.exercise)
             day == model.exercise[last]
  <2>3. last \in DOMAIN model.exercise /\ day \in Int
    <3>1. last \in Nat /\ last # 0 /\ DOMAIN model.exercise = 1 .. last
      BY <2>2
    <3>. QED
      BY <2>2, <3>1
  <2>4. day > model.built_on
    BY <1>8, <2>2, <2>3 DEF Expired
  <2>5. Candidate(model, day)
    BY <1>8, <2>4 DEF Candidate
  <2>6. day \in Range(Dates(model))
    BY <2>1, <2>3 DEF Range
  <2>7. \E i \in DOMAIN helpers : TRUE
    <3> HIDE DEF day
    <3>1. day \in {d \in Range(Dates(model)) : Candidate(model, d)}
      BY <2>5, <2>6
    <3>. QED
      BY <1>7, <3>1
  <2>. QED
    BY <2>7
<1>. QED
  BY <1>6, <1>7, <1>8

---------------------------------------------------------------------------
(* The helpers of a stack.                                                 *)

\* The greatest of a few numbers is one of them and none is above it.
LEMMA GreatestOf ==
  ASSUME NEW S, IsFiniteSet(S), S \subseteq Int, S # {}
  PROVE  Max(S) \in S /\ \A x \in S : Max(S) >= x
<1> DEFINE above(x) == {y \in S : x < y}
           sizes == {Cardinality(above(x)) : x \in S}
<1>1. \A x \in S : IsFiniteSet(above(x)) /\ Cardinality(above(x)) \in Nat
  <2>. TAKE x \in S
  <2>1. above(x) \in SUBSET S
    OBVIOUS
  <2> HIDE DEF above
  <2>2. IsFiniteSet(above(x))
    BY <2>1, FS_Subset
  <2>. QED
    BY <2>2, FS_CardinalityType
<1>2. sizes \subseteq Nat /\ sizes # {}
  BY <1>1
<1>3. PICK n \in sizes : \A k \in sizes : n <= k
  <2> HIDE DEF sizes
  <2>. QED
    BY <1>2, SmallestIn, Zenon
<1>4. PICK x \in S : Cardinality(above(x)) = n
  BY <1>3
<1>5. \A y \in S : x >= y
  <2>1. SUFFICES ASSUME NEW y \in S, x < y PROVE FALSE
    OBVIOUS
  <2>2. above(y) \in SUBSET above(x) /\ y \in above(x) /\ y \notin above(y)
    <3>1. y \in above(x)
      BY <2>1
    <3>2. y \notin above(y)
      BY <2>1
    <3>3. ASSUME NEW z \in S, y < z PROVE x < z
      BY <2>1, <3>3
    <3>4. above(y) \subseteq above(x)
      BY <3>3
    <3>. QED
      BY <3>1, <3>2, <3>4
  <2>3. Cardinality(above(y)) <= n /\ Cardinality(above(y)) # n
    BY <1>1, <1>4, <2>2, FS_Subset
  <2>4. Cardinality(above(y)) \in sizes /\ Cardinality(above(y)) \in Nat
    BY <1>1
  <2> DEFINE size == Cardinality(above(y))
  <2>5. size \in Nat /\ n \in Nat /\ n <= size
    <3> HIDE DEF sizes, above
    <3>. QED
      BY <1>2, <1>3, <2>4
  <2>6. size <= n /\ size # n
    BY <2>3
  <2> HIDE DEF size
  <2>. QED
    BY <2>5, <2>6
<1>. QED
  BY <1>5 DEF Max

\* A quotient and its remainder.
LEMMA Divided ==
  ASSUME NEW a \in Nat, NEW b \in Nat \ {0}
  PROVE  a \div b \in Nat /\ a % b \in 0 .. b - 1 /\ a = b * (a \div b) + (a % b)
OBVIOUS

\* No quotient of a number below a product reaches the other factor.
LEMMA QuotientBelow ==
  ASSUME NEW a \in Nat, NEW b \in Nat \ {0}, NEW c \in Nat, a < b * c
  PROVE  a \div b < c
<1> DEFINE q == a \div b
<1>1. q \in Nat /\ a % b \in 0 .. b - 1 /\ a = b * q + (a % b)
  BY Divided
<1>2. b * c \in Nat /\ b * q \in Nat
  BY <1>1
<1>3. b * q < b * c
  BY <1>1, <1>2
<1>4. q >= c => b * q >= b * c
  <2> HIDE DEF q
  <2>. HAVE q >= c
  <2>1. q - c \in Nat
    BY <1>1
  <2>2. b * (q - c) \in Nat
    BY <2>1
  <2>3. b * (q - c) = b * q - b * c
    BY <1>1
  <2>. QED
    BY <1>2, <2>2, <2>3
<1> HIDE DEF q
<1>. QED
  BY <1>1, <1>2, <1>3, <1>4 DEF q

\* A helper of a stack is its own legs, padded to the longest.
LEMMA HelperIs ==
  ASSUME NEW shapes \in LegShapes, NEW h \in DOMAIN shapes
  PROVE  LET s == Stack(shapes)[h]
         IN  /\ DOMAIN Stack(shapes) = DOMAIN shapes
             /\ shapes[h].fixed \in Nat \ {0} /\ shapes[h].floating \in Nat \ {0} /\ Ratio(shapes[h]) \in Nat \ {0}
             /\ s.fixed \in Nat /\ shapes[h].fixed <= s.fixed /\ s.last = shapes[h].fixed /\ s.ratio = Ratio(shapes[h])
             /\ s.coupons = shapes[h].floating
             /\ \A k \in DOMAIN s.owners : /\ k \in Nat \ {0}
                                           /\ s.owners[k] = IF k <= shapes[h].floating THEN Owners(shapes[h])[k]
                                                            ELSE [owner |-> 0, share |-> 0]
<1> DEFINE Shape == [fixed : Nat \ {0}, floating : Nat \ {0}]
           shape == shapes[h]
           fixeds == {s.fixed : s \in Range(shapes)}
           floatings == {s.floating : s \in Range(shapes)}
           none == [owner |-> 0, share |-> 0]
           padding == [k \in 1 .. Max(floatings) - shape.floating |-> none]
<1>1. shapes \in Seq(Shape)
  BY LegsAssumption
<1>2. DOMAIN shapes = 1 .. Len(shapes) /\ Len(shapes) \in Nat
  BY <1>1
<1>3. \A k \in DOMAIN shapes : shapes[k] \in Shape
  BY <1>1, ElementIn, Zenon
<1>4. \A k \in DOMAIN shapes : shapes[k].fixed \in Nat \ {0} /\ shapes[k].floating \in Nat \ {0}
  BY <1>3
<1>5. fixeds = {shapes[k].fixed : k \in DOMAIN shapes} /\ floatings = {shapes[k].floating : k \in DOMAIN shapes}
  BY DEF Range
<1>6. IsFiniteSet(DOMAIN shapes)
  BY <1>2, FS_Interval
<1>7. IsFiniteSet(fixeds)
  <2> DEFINE of == [k \in DOMAIN shapes |-> shapes[k].fixed]
  <2>1. of \in Surjection(DOMAIN shapes, fixeds)
    BY <1>5 DEF Surjection
  <2>. QED
    BY <1>6, <2>1, FS_Surjection
<1>8. IsFiniteSet(floatings)
  <2> DEFINE of == [k \in DOMAIN shapes |-> shapes[k].floating]
  <2>1. of \in Surjection(DOMAIN shapes, floatings)
    BY <1>5 DEF Surjection
  <2>. QED
    BY <1>6, <2>1, FS_Surjection
<1>9. /\ fixeds \subseteq Int /\ shape.fixed \in fixeds /\ fixeds \subseteq Nat
      /\ floatings \subseteq Int /\ shape.floating \in floatings /\ floatings \subseteq Nat
  <2>1. \A k \in DOMAIN shapes : shapes[k].fixed \in fixeds /\ shapes[k].floating \in floatings
    BY <1>5
  <2>2. fixeds \subseteq Nat
    BY <1>4, <1>5
  <2>3. floatings \subseteq Nat
    BY <1>4, <1>5
  <2> HIDE DEF fixeds, floatings
  <2>. QED
    BY <2>1, <2>2, <2>3
<1>10. Max(fixeds) \in Nat /\ shape.fixed <= Max(fixeds)
  <2> HIDE DEF fixeds
  <2>. QED
    BY <1>7, <1>9, GreatestOf
<1>11. Max(floatings) \in Nat /\ shape.floating <= Max(floatings)
  <2> HIDE DEF floatings
  <2>. QED
    BY <1>8, <1>9, GreatestOf
<1>12. Ratio(shape) \in Nat \ {0}
  <2> DEFINE up == 2 * shape.floating + shape.fixed
             down == 2 * shape.fixed
  <2>1. up \in Nat /\ down \in Nat \ {0}
    BY <1>4
  <2>2. (up \div down) \in Int
    <3> HIDE DEF up, down
    <3>. QED
      BY <2>1, Divided
  <2>3. Max({1, up \div down}) \in Nat \ {0}
    <3> HIDE DEF up, down
    <3>. QED
      BY <2>2, OfTwo
  <2>. QED
    BY <2>3 DEF Ratio
<1> DEFINE s == [fixed |-> Max(fixeds), last |-> shape.fixed, ratio |-> Ratio(shape), coupons |-> shape.floating,
                 owners |-> Owners(shape) \o padding]
<1>13. DOMAIN Stack(shapes) = DOMAIN shapes /\ Stack(shapes)[h] = s
  BY Zenon DEF Stack
<1>14. ASSUME NEW k \in DOMAIN (Owners(shape) \o padding)
       PROVE  /\ k \in Nat \ {0}
              /\ (Owners(shape) \o padding)[k] = IF k <= shape.floating THEN Owners(shape)[k] ELSE none
  <2> DEFINE own == Owners(shape)
             more == Max(floatings) - shape.floating
             S == {own[j] : j \in 1 .. shape.floating} \cup {none}
  <2>1. shape.floating \in Nat /\ more \in Nat
    <3> HIDE DEF floatings
    <3>. QED
      BY <1>4, <1>11
  <2>2. DOMAIN own = 1 .. shape.floating
    BY DEF Owners
  <2>3. own = [j \in 1 .. shape.floating |-> own[j]]
    BY <2>2 DEF Owners
  <2>4. own \in Seq(S) /\ Len(own) = shape.floating
    <3>1. \A j \in 1 .. shape.floating : own[j] \in S
      OBVIOUS
    <3> HIDE DEF own, S, shape
    <3>2. own \in [1 .. shape.floating -> S]
      BY <2>3, <3>1
    <3>. QED
      BY <2>1, <3>2
  <2>5. padding \in Seq(S) /\ Len(padding) = more /\ \A j \in 1 .. more : padding[j] = none
    <3>1. padding = [j \in 1 .. more |-> none] /\ none \in S
      OBVIOUS
    <3> HIDE DEF more, own, none, S, padding
    <3>2. padding \in [1 .. more -> S]
      BY <3>1
    <3>3. padding \in Seq(S) /\ Len(padding) = more
      BY <2>1, <3>2
    <3>. QED
      BY <3>1, <3>3
  <2> HIDE DEF own, padding, more, none, S
  <2>6. k \in 1 .. shape.floating + more
    BY <1>14, <2>1, <2>4, <2>5 DEF own
  <2>7. CASE k <= shape.floating
    BY <2>1, <2>4, <2>5, <2>6, <2>7 DEF own
  <2>8. CASE ~ (k <= shape.floating)
    <3>1. k - shape.floating \in 1 .. more
      BY <2>1, <2>6, <2>8
    <3>2. (own \o padding)[k] = padding[k - shape.floating]
      BY <2>1, <2>4, <2>5, <2>6, <2>8
    <3>. QED
      BY <2>1, <2>5, <2>6, <2>8, <3>1, <3>2 DEF own
  <2>. QED
    BY <2>7, <2>8
<1> HIDE DEF fixeds, floatings, padding
<1>15. /\ s.fixed = Max(fixeds) /\ s.last = shape.fixed /\ s.ratio = Ratio(shape) /\ s.coupons = shape.floating
       /\ s.owners = Owners(shape) \o padding
  OBVIOUS
<1> HIDE DEF s
<1>. QED
  BY <1>4, <1>10, <1>12, <1>13, <1>14, <1>15

LEMMA StackGives == CalibInv => CorrectionsAreWhole
<1>1. SUFFICES ASSUME NEW shapes \in LegShapes, stacked = Stack(shapes), NEW h \in DOMAIN stacked,
                      NEW k \in DOMAIN stacked[h].owners
               PROVE  LET s == stacked[h]
                          moved == Correction(s, k)
                      IN  /\ Total(moved, DOMAIN moved) = IF k <= s.coupons /\ k <= s.ratio * s.last THEN s.ratio ELSE 0
                          /\ \A j \in DOMAIN moved : moved[j] >= 0 /\ (moved[j] > 0 => j <= s.last)
  BY DEF CalibInv, StackFits, CorrectionsAreWhole
<1> DEFINE s == stacked[h]
           shape == shapes[h]
           ratio == Ratio(shape)
           own == s.owners[k]
           moved == Correction(s, k)
<1>2. /\ h \in DOMAIN shapes
      /\ shape.fixed \in Nat \ {0} /\ shape.floating \in Nat \ {0} /\ ratio \in Nat \ {0}
      /\ s.fixed \in Nat /\ shape.fixed <= s.fixed /\ s.last = shape.fixed /\ s.ratio = ratio
      /\ s.coupons = shape.floating
      /\ k \in Nat \ {0}
      /\ own = IF k <= shape.floating THEN Owners(shape)[k] ELSE [owner |-> 0, share |-> 0]
  <2>1. h \in DOMAIN shapes
    <3>1. DOMAIN Stack(shapes) = DOMAIN shapes
      BY Zenon DEF Stack
    <3>. QED
      BY <1>1, <3>1
  <2>. QED
    BY <1>1, <2>1, HelperIs
<1>3. /\ DOMAIN moved = 0 .. s.fixed
      /\ \A j \in 0 .. s.fixed : moved[j] = IF own.owner = 0 THEN 0
            ELSE IF j = own.owner THEN own.share ELSE IF j = own.owner - 1 THEN s.ratio - own.share ELSE 0
  BY DEF Correction
<1>4. IsFiniteSet(0 .. s.fixed)
  <2>1. 0 \in Int /\ s.fixed \in Int
    BY <1>2
  <2> HIDE DEF s
  <2>. QED
    BY <2>1, FS_Interval
<1> HIDE DEF s, moved, own, ratio, shape
<1>5. ratio * shape.fixed \in Nat
  BY <1>2
<1>6. CASE k <= shape.floating /\ k <= ratio * shape.fixed
  <2> DEFINE o == (k - 1) \div ratio + 1
             share == ((k - 1) % ratio) + 1
  <2>1. own = [owner |-> o, share |-> share]
    BY <1>2, <1>6 DEF Owners, ratio
  <2>2. k - 1 \in Nat /\ k - 1 < ratio * shape.fixed
    BY <1>2, <1>5, <1>6
  <2>3. (k - 1) \div ratio \in Nat /\ (k - 1) % ratio \in 0 .. ratio - 1
    BY <1>2, <2>2, Divided
  <2>4. (k - 1) \div ratio < shape.fixed
    BY <1>2, <2>2, QuotientBelow
  <2>5. o \in 1 .. shape.fixed /\ share \in 1 .. ratio
    BY <1>2, <2>3, <2>4
  <2> HIDE DEF o, share
  <2>6. own.owner = o /\ own.share = share
    BY <2>1
  <2>7. o \in 0 .. s.fixed /\ o - 1 \in 0 .. s.fixed /\ o # o - 1 /\ o # 0
    BY <1>2, <2>5
  <2>8. /\ moved[o] = share /\ moved[o - 1] = ratio - share
        /\ \A j \in (0 .. s.fixed) \ {o, o - 1} : moved[j] = 0
    <3>1. moved[o] = share
      BY <1>3, <2>6, <2>7
    <3>2. moved[o - 1] = ratio - share
      BY <1>2, <1>3, <2>6, <2>7
    <3>3. \A j \in (0 .. s.fixed) \ {o, o - 1} : moved[j] = 0
      BY <1>3, <2>6, <2>7
    <3>. QED
      BY <3>1, <3>2, <3>3
  <2>9. moved[o] \in Int /\ moved[o - 1] \in Int /\ moved[o] + moved[o - 1] = ratio /\ moved[o - 1] >= 0 /\ moved[o] >= 0
    BY <1>2, <2>5, <2>8
  <2>10. Total(moved, 0 .. s.fixed) = moved[o] + moved[o - 1]
    BY <1>4, <2>7, <2>8, <2>9, TotalOfTwo
  <2>11. \A j \in 0 .. s.fixed : moved[j] >= 0 /\ (moved[j] > 0 => j <= s.last)
    <3>. TAKE j \in 0 .. s.fixed
    <3>1. CASE j = o \/ j = o - 1
      BY <1>2, <2>5, <2>9, <3>1
    <3>2. CASE ~ (j = o \/ j = o - 1)
      BY <2>8, <3>2
    <3>. QED
      BY <3>1, <3>2
  <2>12. k <= s.coupons /\ k <= s.ratio * s.last
    BY <1>2, <1>6
  <2>. QED
    BY <1>2, <1>3, <2>9, <2>10, <2>11, <2>12 DEF s, moved
<1>7. CASE ~ (k <= shape.floating /\ k <= ratio * shape.fixed)
  <2>1. own = [owner |-> 0, share |-> 0]
    <3>1. CASE k <= shape.floating
      <4>1. k \in 1 .. shape.floating /\ ~ (k <= Ratio(shape) * shape.fixed)
        BY <1>2, <1>7, <3>1 DEF ratio
      <4>. QED
        BY <1>2, <3>1, <4>1 DEF Owners
    <3>2. CASE ~ (k <= shape.floating)
      BY <1>2, <3>2
    <3>. QED
      BY <3>1, <3>2
  <2>2. \A j \in 0 .. s.fixed : moved[j] = 0
    BY <1>3, <2>1
  <2>3. Total(moved, 0 .. s.fixed) = 0
    BY <1>4, <2>2, TotalOfNothing
  <2>4. ~ (k <= s.coupons /\ k <= s.ratio * s.last)
    BY <1>2, <1>7
  <2>. QED
    BY <1>3, <2>2, <2>3, <2>4 DEF s, moved
<1>. QED
  BY <1>6, <1>7

\* What is calibrated reprices (calibration/lgm.py, calibrated_values, bootstrap and require_accepted;
\* pricing/bermudan.py, basket_expiries; solvers/roots.py): an accepted calibration's buckets give each
\* helper its variance or stand at the floor, its basket covers every live exercise, the corrections of
\* a stack's coupons move whole, and the solver behind each bucket keeps its root.
THEOREM Reprices == CalibSpec /\ RootSpec => []CalibrationReprices
<1>1. CalibInv /\ RootInv => CalibrationReprices
  BY AcceptedGives, BasketGives, StackGives, RootInvGives DEF CalibrationReprices, CalibrationIsSound
<1>. QED
  BY <1>1, CalibInvInvariant, RootInvInvariant, PTL

---------------------------------------------------------------------------
(* A trade on a path.                                                      *)

\* The simulation's dates.
LEMMA GridIs ==
  ASSUME dates \in DateGrids
  PROVE  /\ DOMAIN dates = 1 .. Len(dates) /\ Len(dates) \in Nat \ {0}
         /\ \A j \in DOMAIN dates : dates[j] \in Nat \ {0}
         /\ \A j, k \in DOMAIN dates : j < k => dates[j] < dates[k]
<1>1. dates \in Seq(Nat \ {0}) /\ dates # <<>> /\ \A j, k \in DOMAIN dates : j < k => dates[j] < dates[k]
  BY DateGridsAssumption
<1>2. DOMAIN dates = 1 .. Len(dates) /\ Len(dates) \in Nat \ {0}
  BY <1>1
<1>3. \A j \in DOMAIN dates : dates[j] \in Nat \ {0}
  BY <1>1, ElementIn, Zenon
<1>. QED
  BY <1>1, <1>2, <1>3

\* The dates from one on are not before it.
LEMMA GridGrows ==
  ASSUME dates \in DateGrids, NEW j \in DOMAIN dates, NEW k \in DOMAIN dates
  PROVE  (j <= k) <=> (dates[j] <= dates[k])
<1>1. dates[j] \in Int /\ dates[k] \in Int /\ j \in Int /\ k \in Int
  BY GridIs
<1>2. (j < k => dates[j] < dates[k]) /\ (k < j => dates[k] < dates[j])
  BY GridIs
<1>. QED
  BY <1>1, <1>2

\* The grid date an exercise takes effect on is the first not before it.
LEMMA StepIs ==
  ASSUME dates \in DateGrids, NEW e \in Int
  PROVE  /\ effective_step(e) \in 0 .. Len(dates)
         /\ effective_step(e) # 0 <=> 0 < e /\ e <= dates[Len(dates)]
         /\ \A j \in DOMAIN dates : effective_step(e) = j <=>
              e <= dates[j] /\ e > (IF j = 1 THEN 0 ELSE dates[j - 1])
<1> DEFINE after == {j \in DOMAIN dates : dates[j] >= e}
           s == effective_step(e)
           last == Len(dates)
<1>1. DOMAIN dates = 1 .. last /\ last \in Nat \ {0} /\ last \in DOMAIN dates
  BY GridIs
<1>2. \A j \in DOMAIN dates : dates[j] \in Nat \ {0} /\ j \in Nat \ {0} /\ j <= last /\ dates[j] <= dates[last]
  <2>. TAKE j \in DOMAIN dates
  <2>1. dates[j] \in Nat \ {0} /\ j \in Nat \ {0} /\ j <= last
    BY <1>1, GridIs
  <2>. QED
    BY <1>1, <2>1, GridGrows
<1>3. CASE 0 < e /\ e <= dates[last]
  <2>1. after \subseteq Nat /\ after # {}
    BY <1>1, <1>2, <1>3
  <2>2. s = Min(after)
    BY <1>3 DEF effective_step
  <2> HIDE DEF after, s
  <2>3. PICK m \in after : \A j \in after : m <= j
    BY <2>1, SmallestIn
  <2>4. s \in after /\ \A j \in after : s <= j
    BY <2>1, <2>2, <2>3 DEF Min
  <2>5. s \in DOMAIN dates /\ e <= dates[s] /\ \A j \in DOMAIN dates : e <= dates[j] => s <= j
    <3>1. \A j \in DOMAIN dates : e <= dates[j] => j \in after
      BY <1>2 DEF after
    <3>2. s \in DOMAIN dates /\ dates[s] >= e
      BY <2>4 DEF after
    <3>. QED
      BY <1>2, <2>4, <3>1, <3>2
  <2>6. ASSUME NEW j \in DOMAIN dates PROVE s = j <=> e <= dates[j] /\ e > (IF j = 1 THEN 0 ELSE dates[j - 1])
    <3>1. CASE j = 1
      BY <1>2, <1>3, <2>5, <3>1
    <3>2. CASE j # 1
      <4>1. j - 1 \in DOMAIN dates /\ j - 1 < j
        BY <1>1, <3>2
      <4>2. s <= j - 1 <=> dates[s] <= dates[j - 1]
        BY <2>5, <4>1, GridGrows
      <4>3. s <= j <=> dates[s] <= dates[j]
        BY <2>5, GridGrows
      <4>4. dates[s] \in Int /\ dates[j] \in Int /\ dates[j - 1] \in Int /\ s \in Int /\ j \in Int
        BY <1>2, <2>5, <4>1
      <4>5. s <= j - 1 => e <= dates[j - 1]
        BY <2>5, <4>2, <4>4
      <4>6. e <= dates[j - 1] => s <= j - 1
        BY <2>5, <4>1
      <4>7. e <= dates[j] <=> s <= j
        BY <2>5, <4>3, <4>4
      <4>. QED
        BY <3>2, <4>4, <4>5, <4>6, <4>7
    <3>. QED
      BY <3>1, <3>2
  <2>7. s \in 0 .. last /\ s # 0
    BY <1>2, <2>5
  <2>. QED
    BY <1>3, <2>6, <2>7 DEF s
<1>4. CASE ~ (0 < e /\ e <= dates[last])
  <2>1. s = 0
    BY <1>4 DEF effective_step
  <2>2. ASSUME NEW j \in DOMAIN dates, e <= dates[j], e > (IF j = 1 THEN 0 ELSE dates[j - 1]) PROVE FALSE
    <3>1. e <= dates[last]
      BY <1>1, <1>2, <2>2
    <3>2. 0 < e
      <4>1. CASE j = 1
        BY <2>2, <4>1
      <4>2. CASE j # 1
        <5>1. j - 1 \in DOMAIN dates
          BY <1>1, <4>2
        <5>. QED
          BY <1>2, <2>2, <4>2, <5>1
      <4>. QED
        BY <4>1, <4>2
    <3>. QED
      BY <1>4, <3>1, <3>2
  <2>3. s \in 0 .. last
    BY <1>1, <2>1
  <2>. QED
    BY <1>2, <1>4, <2>1, <2>2, <2>3 DEF s
<1>. QED
  BY <1>3, <1>4

\* A rate fixed before a date is fixed on the path at a date after the fixing and not after it.
LEMMA FixingStepIs ==
  ASSUME dates \in DateGrids, NEW fix \in Int, NEW j \in DOMAIN dates, fix < dates[j]
  PROVE  fixing_step(fix) \in DOMAIN dates /\ fixing_step(fix) <= j /\ fix < dates[fixing_step(fix)]
<1> DEFINE after == {k \in DOMAIN dates : dates[k] > fix}
           s == fixing_step(fix)
<1>1. \A k \in DOMAIN dates : dates[k] \in Int /\ k \in Nat
  BY GridIs
<1>2. after \subseteq Nat /\ j \in after
  BY <1>1
<1>3. s = Min(after)
  <2>1. after # {}
    BY <1>2
  <2>. QED
    BY <2>1 DEF fixing_step
<1> HIDE DEF after, s
<1>4. PICK m \in after : \A k \in after : m <= k
  BY <1>2, SmallestIn
<1>5. s \in after /\ s <= j
  BY <1>2, <1>3, <1>4 DEF Min
<1>6. s \in DOMAIN dates /\ dates[s] > fix
  BY <1>5 DEF after
<1>. QED
  BY <1>1, <1>5, <1>6 DEF s

\* Products grow with a factor.
LEMMA TimesGrows ==
  ASSUME NEW a \in Int, NEW b \in Int, NEW c \in Nat, a <= b
  PROVE  a * c <= b * c
<1>1. b - a \in Nat
  OBVIOUS
<1>2. (b - a) * c \in Nat
  BY <1>1
<1>3. (b - a) * c = b * c - a * c
  OBVIOUS
<1>. QED
  BY <1>2, <1>3

\* The fields of a booked trade other than a bond.
TradeFits(t) ==
  /\ t.kind \in {"swap", "european", "bermudan", "american"}
  /\ t.effective \in Int /\ t.maturity \in Int /\ t.every \in Nat \ {0} /\ t.exercise \in Seq(Int)
  /\ t.history \subseteq Int
  /\ t.kind = "european" => Len(t.exercise) = 1 /\ WholePeriods(t)
  /\ t.kind \in ExerciseKinds => t.exercise # <<>> /\ Sorted(t.exercise)
  /\ t.kind = "american" => Len(t.exercise) = 2

BondFits(b) ==
  /\ b.kind = "bond" /\ b.periods \in Seq([start : Int, end : Int, pay : Int]) /\ b.maturity \in Int

\* What is booked is of those fields.
LEMMA ResolvedFits ==
  ASSUME NEW b \in Bookings, Booked(b), b.kind # "bond"
  PROVE  TradeFits(Resolved(b)) /\ Resolved(b).history = b.history /\ Resolved(b).kind = b.kind
<1>1. b \in SwapBookings
  <2>1. b \in SwapBookings \/ b \in BondBookings
    BY BookingsAssumption
  <2>2. b \in BondBookings => b.kind = "bond"
    BY DEF BondBookings
  <2>. QED
    BY <2>1, <2>2
<1> DEFINE forward == IF b.forward = NotGiven THEN 0 ELSE b.forward
           r == resolve_exercise_date(b)
           t == book_swap_dates(r)
<1>2. /\ b.kind \in {"swap", "european", "bermudan", "american"} /\ b.tenor \in Int /\ b.forward \in Int
      /\ b.effective \in Int /\ b.maturity \in Int /\ b.every \in Nat \ {0} /\ b.exercise \in Seq(Int)
      /\ b.history \subseteq Int
  BY <1>1 DEF SwapBookings
<1>3. forward \in Int /\ SPOT_LAG_DAYS \in Int
  BY <1>2 DEF SPOT_LAG_DAYS
<1>4. /\ r \in SwapBookings /\ r.kind = b.kind /\ r.history = b.history
      /\ r.exercise = IF b.kind = "european" /\ b.tenor # NotGiven THEN <<SPOT_LAG_DAYS + forward>> ELSE b.exercise
  <2>1. <<SPOT_LAG_DAYS + forward>> \in Seq(Int)
    <3> HIDE DEF forward
    <3>. QED
      BY <1>3
  <2>2. r = IF b.kind = "european" /\ b.tenor # NotGiven THEN [b EXCEPT !.exercise = <<SPOT_LAG_DAYS + forward>>] ELSE b
    BY DEF resolve_exercise_date
  <2> HIDE DEF forward, r
  <2>. QED
    BY <1>1, <2>1, <2>2 DEF SwapBookings
<1>5. t \in SwapBookings /\ t.kind = b.kind /\ t.history = b.history /\ t.exercise = r.exercise
  <2> DEFINE start == SPOT_LAG_DAYS + (IF r.forward = NotGiven THEN 0 ELSE r.forward)
  <2>1. r.forward \in Int /\ r.tenor \in Int
    BY <1>4 DEF SwapBookings
  <2>2. start \in Int /\ start + r.tenor \in Int
    BY <1>3, <2>1
  <2>3. t = IF r.tenor # NotGiven THEN [r EXCEPT !.effective = start, !.maturity = start + r.tenor] ELSE r
    BY DEF book_swap_dates
  <2> HIDE DEF start, r, t
  <2>. QED
    BY <1>4, <2>2, <2>3 DEF SwapBookings
<1>6. t = Resolved(b)
  BY DEF Resolved
<1> HIDE DEF r, t, forward
<1>7. /\ t.kind \in {"swap", "european", "bermudan", "american"}
      /\ t.effective \in Int /\ t.maturity \in Int /\ t.every \in Nat \ {0} /\ t.exercise \in Seq(Int)
      /\ t.history \subseteq Int
  BY <1>5 DEF SwapBookings
<1>8. ExerciseAccepted(b) /\ WholePeriods(t)
  BY <1>6 DEF Booked
<1>9. b.kind = "european" => Len(t.exercise) = 1
  <2>1. Len(b.exercise) = 1 \/ b.kind # "european"
    BY <1>8 DEF ExerciseAccepted
  <2>2. Len(<<SPOT_LAG_DAYS + forward>>) = 1
    OBVIOUS
  <2>. QED
    BY <1>4, <1>5, <2>1, <2>2
<1>10. b.kind \in ExerciseKinds => t.exercise # <<>> /\ Sorted(t.exercise)
  BY <1>4, <1>5, <1>8 DEF ExerciseAccepted, ExerciseKinds
<1>11. b.kind = "american" => Len(t.exercise) = 2
  BY <1>4, <1>5, <1>8 DEF ExerciseAccepted
<1>. QED
  BY <1>5, <1>6, <1>7, <1>8, <1>9, <1>10, <1>11 DEF TradeFits

\* The coupons of a leg start in order, and end and pay after they start.
LegFits(leg) ==
  /\ \E n \in Int : DOMAIN leg = 1 .. n
  /\ \A i \in DOMAIN leg : /\ leg[i].start \in Int /\ leg[i].end \in Int /\ leg[i].pay \in Int /\ leg[i].fix \in Int
                           /\ leg[i].pay > leg[i].start /\ leg[i].end > leg[i].start
  /\ \A i, k \in DOMAIN leg : i <= k => leg[i].start <= leg[k].start

\* The coupons of a schedule do.
LEMMA ScheduleFits ==
  ASSUME NEW t, t.effective \in Int, t.maturity \in Int, NEW every \in Nat \ {0}
  PROVE  LegFits(ScheduleOf(t, every))
<1> DEFINE leg == ScheduleOf(t, every)
           length == t.maturity - t.effective
           n == length \div every
           Begin(i) == t.effective + (i - 1) * every
<1>1. n \in Int
  <2>1. length \in Int
    OBVIOUS
  <2> HIDE DEF length
  <2>. QED
    BY <2>1
<1>2. DOMAIN leg = 1 .. n
  BY DEF ScheduleOf
<1>3. ASSUME NEW i \in 1 .. n
      PROVE  leg[i] = [start |-> Begin(i), end |-> Begin(i) + every, pay |-> Begin(i) + every, fix |-> Begin(i) - SPOT_LAG_DAYS]
  BY Zenon DEF ScheduleOf
<1> HIDE DEF leg, n
<1>4. ASSUME NEW i \in 1 .. n PROVE Begin(i) \in Int /\ i \in Int
  <2>1. (i - 1) * every \in Int
    BY <1>1
  <2>. QED
    BY <1>1, <2>1
<1>5. ASSUME NEW i \in 1 .. n, NEW k \in 1 .. n, i <= k PROVE Begin(i) <= Begin(k)
  <2>1. i - 1 \in Int /\ k - 1 \in Int /\ i - 1 <= k - 1
    BY <1>1, <1>5
  <2>2. (i - 1) * every <= (k - 1) * every
    BY <2>1, TimesGrows
  <2>3. (i - 1) * every \in Int /\ (k - 1) * every \in Int
    BY <2>1
  <2>. QED
    BY <2>2, <2>3
<1> HIDE DEF Begin
<1>6. ASSUME NEW i \in 1 .. n
      PROVE  /\ leg[i].start = Begin(i) /\ leg[i].start \in Int /\ leg[i].end \in Int /\ leg[i].pay \in Int
             /\ leg[i].fix \in Int /\ leg[i].pay > leg[i].start /\ leg[i].end > leg[i].start
  <2>1. PICK s : s = Begin(i)
    OBVIOUS
  <2>2. s \in Int /\ leg[i] = [start |-> s, end |-> s + every, pay |-> s + every, fix |-> s - SPOT_LAG_DAYS]
    BY <1>3, <1>4, <2>1
  <2>3. leg[i].start = s /\ leg[i].end = s + every /\ leg[i].pay = s + every /\ leg[i].fix = s - SPOT_LAG_DAYS
    BY <2>2
  <2>. QED
    BY <2>1, <2>2, <2>3 DEF SPOT_LAG_DAYS
<1>. QED
  BY <1>1, <1>2, <1>5, <1>6 DEF LegFits, leg

\* Both legs of a trade booked are such schedules.
LEMMA LegsFit ==
  ASSUME NEW t, TradeFits(t)
  PROVE  LegFits(fixedLeg(t)) /\ LegFits(floatingLeg(t))
<1>1. t.effective \in Int /\ t.maturity \in Int /\ t.every \in Nat \ {0} /\ 2 * t.every \in Nat \ {0}
  BY DEF TradeFits
<1>. QED
  BY <1>1, ScheduleFits DEF fixedLeg, floatingLeg

\* The coupons a European enters start no sooner than its expiry.
LEMMA EntersWholePeriods ==
  ASSUME NEW leg, LegFits(leg), NEW e \in Int, FirstWhole(leg, e) > 0, NEW i \in DOMAIN leg, i >= FirstWhole(leg, e)
  PROVE  leg[i].pay > e
<1> DEFINE whole == {k \in DOMAIN leg : leg[k].pay > e /\ leg[k].start >= e}
           first == FirstWhole(leg, e)
<1>1. PICK n \in Int : DOMAIN leg = 1 .. n
  BY DEF LegFits
<1>2. whole # {} /\ first = Min(whole)
  BY DEF FirstWhole
<1>3. whole \subseteq Nat
  BY <1>1
<1>4. first \in whole
  <2> HIDE DEF whole, first
  <2>. QED
    BY <1>2, <1>3, MinIsIn
<1>5. first \in DOMAIN leg /\ leg[first].start >= e /\ first <= i
  <2>1. first \in DOMAIN leg /\ leg[first].start >= e
    BY <1>4
  <2>. QED
    BY <1>1, <2>1
<1> HIDE DEF first
<1>6. /\ leg[first].start <= leg[i].start /\ leg[i].pay > leg[i].start
      /\ leg[first].start \in Int /\ leg[i].start \in Int /\ leg[i].pay \in Int
  BY <1>5 DEF LegFits
<1>. QED
  BY <1>5, <1>6

---------------------------------------------------------------------------
(* The rate a coupon pays on the path.                                     *)

\* The rate of a coupon fixed on a day, on a date of the grid: forecast, fixed on the path or historical.
RateAt(fix, j) ==
  IF fix >= dates[j] THEN Forecast
  ELSE IF fix >= 0 THEN PathFixing(dates[fixing_step(fix)]) ELSE History(fix)

\* The rate a column pays: this one, or on the fixing's own date the one every column pays later, where
\* the trade's own fixings hold that date.
RateFits(rate, fix, j, own) ==
  \/ rate = RateAt(fix, j)
  \/ fix = dates[j] /\ fix \in own /\ rate = PathFixing(dates[fixing_step(fix)])

\* A column pays such a rate on every coupon it holds.
PaysRates(leg, cube, own) ==
  \A j \in DOMAIN dates : j \in DOMAIN cube =>
    \A i \in DOMAIN leg : i \in DOMAIN cube[j].rates => RateFits(cube[j].rates[i], leg[i].fix, j, own)

\* The days whose fixing an option takes for known on the day itself.
OwnDays(t) == IF t.kind \in ExerciseKinds THEN DOMAIN HistoryOf(t) ELSE {}

\* The three kinds of rate are told apart.
LEMMA RatesDiffer ==
  /\ \A day : PathFixing(day) # Forecast /\ History(day) # Forecast
  /\ \A day : PathFixing(day).from = "path" /\ PathFixing(day).at = day
  /\ \A day : History(day).from # "path"
  /\ Forecast.from # "path"
BY DEF PathFixing, History, Forecast

\* A value's fields.
LEMMA ValueIs == \A flows, rates : /\ Value(flows, rates).flows = flows /\ Value(flows, rates).rates = rates
                                   /\ Value(flows, rates).error = "none" /\ Value(flows, rates).days = {}
BY DEF Value

\* And of one that may be exercised.
Exercisable(flows, rates, days) == [Value(flows, rates) EXCEPT !.days = days]

LEMMA ExercisableIs ==
  ASSUME NEW flows, NEW rates, NEW days
  PROVE  LET v == Exercisable(flows, rates, days)
         IN  v.flows = flows /\ v.rates = rates /\ v.error = "none" /\ v.days = days
BY DEF Exercisable, Value

\* A value of nothing.
LEMMA ZeroIs == Zero.flows = {} /\ Zero.rates = <<>> /\ Zero.error = "none" /\ DOMAIN Zero.rates = {} /\ Zero.days = {}
BY DEF Zero, Value

\* An exception's name.
LEMMA FailedIs == \A why : Failed(why).error = why /\ Failed(why).days = {}
BY DEF Failed, Zero, Value

\* In these columns a coupon is forecast up to its fixing date and pays one rate from then on.
OneRate(leg, columns, own) ==
  LET rates(i, j) == {c[j].rates[i] : c \in {d \in columns : j \in DOMAIN d /\ i \in DOMAIN d[j].rates}}
      takes(i, j) == leg[i].fix = dates[j] /\ dates[j] \in own
  IN  \A i \in DOMAIN leg, j \in DOMAIN dates :
        \A rate \in rates(i, j) :
          /\ takes(i, j) \/ (rate = Forecast) = (dates[j] <= leg[i].fix)
          /\ rate.from = "path" /\ ~takes(i, j) => rate.at > leg[i].fix /\ rate.at <= dates[j]
          /\ rate # Forecast => \A k \in DOMAIN dates : k >= j /\ ~takes(i, k) => rates(i, k) \subseteq {rate}

\* A rate that fits is forecast up to its fixing, is of no later date than its own but on the fixing's date
\* itself, and once it is no forecast fits later as the same rate.
LEMMA FittingRate ==
  ASSUME dates \in DateGrids, NEW own, NEW fix \in Int, NEW j \in DOMAIN dates, NEW rate, RateFits(rate, fix, j, own)
  PROVE  /\ ~ (fix = dates[j] /\ dates[j] \in own) =>
              /\ (rate = Forecast) = (dates[j] <= fix)
              /\ rate.from = "path" => rate.at > fix /\ rate.at <= dates[j]
         /\ rate # Forecast =>
              \A k \in DOMAIN dates : k >= j =>
                \A other : RateFits(other, fix, k, own) /\ ~ (fix = dates[k] /\ dates[k] \in own) => other = rate
<1> DEFINE path == PathFixing(dates[fixing_step(fix)])
<1>1. \A k \in DOMAIN dates : dates[k] \in Nat \ {0} /\ k \in Int
  BY GridIs
<1>2. path # Forecast /\ path.from = "path" /\ path.at = dates[fixing_step(fix)]
  BY RatesDiffer
<1>3. \A k \in DOMAIN dates : RateAt(fix, k) = IF fix >= dates[k] THEN Forecast ELSE IF fix >= 0 THEN path ELSE History(fix)
  BY DEF RateAt
<1>4. \A r, k : RateFits(r, fix, k, own) <=> r = RateAt(fix, k) \/ (fix = dates[k] /\ fix \in own /\ r = path)
  BY DEF RateFits
<1>5. fix < dates[j] => fixing_step(fix) \in DOMAIN dates /\ fix < dates[fixing_step(fix)] /\ dates[fixing_step(fix)] <= dates[j]
  <2>1. ASSUME fix < dates[j]
        PROVE  fixing_step(fix) \in DOMAIN dates /\ fixing_step(fix) <= j /\ fix < dates[fixing_step(fix)]
    BY <2>1, FixingStepIs
  <2>2. ASSUME fix < dates[j] PROVE dates[fixing_step(fix)] <= dates[j]
    BY <2>1, <2>2, GridGrows
  <2>. QED
    BY <2>1, <2>2
<1> HIDE DEF path
<1>6. ASSUME ~ (fix = dates[j] /\ dates[j] \in own)
      PROVE  /\ (rate = Forecast) = (dates[j] <= fix)
             /\ rate.from = "path" => rate.at > fix /\ rate.at <= dates[j]
  <2>1. rate = RateAt(fix, j)
    BY <1>4, <1>6
  <2>2. CASE fix >= dates[j]
    <3>1. rate = Forecast
      BY <1>3, <2>1, <2>2
    <3>. QED
      BY <1>1, <2>2, <3>1, RatesDiffer
  <2>3. CASE ~ (fix >= dates[j])
    <3>1. fix < dates[j]
      BY <1>1, <2>3
    <3>2. rate = path \/ rate = History(fix)
      BY <1>3, <2>1, <2>3
    <3>. QED
      BY <1>1, <1>2, <1>5, <3>1, <3>2, RatesDiffer
  <2>. QED
    BY <2>2, <2>3
<1>7. ASSUME rate # Forecast, NEW k \in DOMAIN dates, k >= j, NEW other,
             RateFits(other, fix, k, own), ~ (fix = dates[k] /\ dates[k] \in own)
      PROVE  other = rate
  <2>1. dates[j] <= dates[k]
    BY <1>1, <1>7, GridGrows
  <2>2. other = RateAt(fix, k)
    BY <1>4, <1>7
  <2>3. CASE rate = RateAt(fix, j)
    <3>1. ~ (fix >= dates[j])
      BY <1>3, <1>7, <2>3
    <3>2. ~ (fix >= dates[k])
      BY <1>1, <2>1, <3>1
    <3>. QED
      BY <1>3, <2>2, <2>3, <3>1, <3>2
  <2>4. CASE fix = dates[j] /\ fix \in own /\ rate = path
    <3>1. dates[k] # dates[j]
      BY <1>7, <2>4
    <3>2. ~ (fix >= dates[k]) /\ fix >= 0
      BY <1>1, <2>1, <2>4, <3>1
    <3>. QED
      BY <1>3, <2>2, <2>4, <3>2
  <2>. QED
    BY <1>4, <2>3, <2>4
<1>. QED
  BY <1>6, <1>7

\* Columns that pay such rates pay one rate from the fixing on.
LEMMA OneRateOnPath ==
  ASSUME dates \in DateGrids, NEW leg, LegFits(leg), NEW own, NEW columns, \A d \in columns : PaysRates(leg, d, own)
  PROVE  OneRate(leg, columns, own)
<1> DEFINE rates(i, j) == {c[j].rates[i] : c \in {d \in columns : j \in DOMAIN d /\ i \in DOMAIN d[j].rates}}
           takes(i, j) == leg[i].fix = dates[j] /\ dates[j] \in own
<1>1. ASSUME NEW i \in DOMAIN leg, NEW j \in DOMAIN dates, NEW rate \in rates(i, j)
      PROVE  RateFits(rate, leg[i].fix, j, own)
  BY <1>1 DEF PaysRates
<1> HIDE DEF rates
<1> SUFFICES ASSUME NEW i \in DOMAIN leg, NEW j \in DOMAIN dates, NEW rate \in rates(i, j)
             PROVE  /\ takes(i, j) \/ (rate = Forecast) = (dates[j] <= leg[i].fix)
                    /\ rate.from = "path" /\ ~takes(i, j) => rate.at > leg[i].fix /\ rate.at <= dates[j]
                    /\ rate # Forecast => \A k \in DOMAIN dates : k >= j /\ ~takes(i, k) => rates(i, k) \subseteq {rate}
  BY Zenon DEF OneRate, rates
<1>2. PICK fix : fix = leg[i].fix
  OBVIOUS
<1>3. fix \in Int
  BY <1>2 DEF LegFits
<1>4. RateFits(rate, fix, j, own) /\ \A k \in DOMAIN dates : \A other \in rates(i, k) : RateFits(other, fix, k, own)
  BY <1>1, <1>2
<1>5. /\ ~ (fix = dates[j] /\ dates[j] \in own) =>
           /\ (rate = Forecast) = (dates[j] <= fix)
           /\ rate.from = "path" => rate.at > fix /\ rate.at <= dates[j]
      /\ rate # Forecast =>
           \A k \in DOMAIN dates : k >= j =>
             \A other : RateFits(other, fix, k, own) /\ ~ (fix = dates[k] /\ dates[k] \in own) => other = rate
  <2>1. RateFits(rate, fix, j, own)
    BY <1>4
  <2> HIDE DEF takes
  <2>. QED
    BY <1>3, <2>1, FittingRate
<1>6. \A k : takes(i, k) <=> fix = dates[k] /\ dates[k] \in own
  BY <1>2
<1> HIDE DEF takes
<1>7. takes(i, j) \/ (rate = Forecast) = (dates[j] <= leg[i].fix)
  BY <1>2, <1>5, <1>6
<1>8. rate.from = "path" /\ ~takes(i, j) => rate.at > leg[i].fix /\ rate.at <= dates[j]
  BY <1>2, <1>5, <1>6
<1>9. rate # Forecast => \A k \in DOMAIN dates : k >= j /\ ~takes(i, k) => rates(i, k) \subseteq {rate}
  BY <1>4, <1>5, <1>6
<1>. QED
  BY <1>7, <1>8, <1>9

\* The coupons of a leg that pay after a day, and the rates they pay.
Paying(leg, first, day) == {i \in Coupons(leg, first) : leg[i].pay > day}
RatesFrom(leg, first, j) == [i \in Paying(leg, first, dates[j]) |-> RateAt(leg[i].fix, j)]

\* The legs of a swap pay these rates, when no historical fixing they need is missing.
LEMMA LegsPayRates ==
  ASSUME NEW t, TradeFits(t), dates \in DateGrids, NEW fixed, NEW leg, LegFits(leg), NEW firsts, NEW own,
         ~ HistoryNeeded(leg, firsts[2], HistoryOf(t))
  PROVE  /\ PaysRates(leg, legs_cube(fixed, leg, firsts, HistoryOf(t)), own)
         /\ DOMAIN legs_cube(fixed, leg, firsts, HistoryOf(t)) = DOMAIN dates
         /\ \A j \in DOMAIN dates : legs_cube(fixed, leg, firsts, HistoryOf(t))[j] =
              Value(Paying(fixed, firsts[1], dates[j]), RatesFrom(leg, firsts[2], j))
<1> DEFINE fixings == HistoryOf(t)
           alive(j) == {k \in Coupons(leg, firsts[2]) : leg[k].pay > dates[j]}
           flows(j) == {i \in Coupons(fixed, firsts[1]) : fixed[i].pay > dates[j]}
           cube == legs_cube(fixed, leg, firsts, fixings)
           row(j) == [i \in alive(j) |-> RateAt(leg[i].fix, j)]
<1>1. \A fix \in DOMAIN fixings : fixings[fix] = History(fix)
  BY DEF HistoryOf
<1>2. DOMAIN dates = 1 .. Len(dates) /\ 1 \in DOMAIN dates /\ \A j \in DOMAIN dates : dates[j] \in Int /\ j \in Int /\ 1 <= j
  BY GridIs
<1>3. ASSUME NEW j \in DOMAIN dates, NEW i \in alive(j) PROVE RateOn(leg[i].fix, j, fixings) = RateAt(leg[i].fix, j)
  <2>1. i \in DOMAIN leg /\ i \in Coupons(leg, firsts[2]) /\ leg[i].pay > dates[j]
    BY DEF Coupons
  <2>2. leg[i].pay \in Int /\ leg[i].fix \in Int
    BY <2>1 DEF LegFits
  <2>3. dates[1] <= dates[j]
    BY <1>2, GridGrows
  <2>4. leg[i].fix < 0 => leg[i].fix \in DOMAIN fixings
    <3>1. leg[i].pay > dates[1]
      BY <1>2, <2>1, <2>2, <2>3
    <3> HIDE DEF fixings
    <3>. QED
      BY <2>1, <3>1 DEF HistoryNeeded, fixings
  <2> HIDE DEF fixings
  <2>5. ~ (leg[i].fix >= 0) => fixings[leg[i].fix] = History(leg[i].fix)
    BY <1>1, <2>2, <2>4
  <2>. QED
    BY <2>5 DEF RateOn, RateAt
<1>4. cube = [j \in DOMAIN dates |-> Value(flows(j), [i \in alive(j) |-> RateOn(leg[i].fix, j, fixings)])]
  BY DEF legs_cube
<1> HIDE DEF fixings, alive, flows, cube
<1>5. \A j \in DOMAIN dates : cube[j] = Value(flows(j), row(j))
  BY <1>3, <1>4
<1> HIDE DEF row
<1>6. PaysRates(leg, cube, own)
  <2>1. \A j \in DOMAIN dates : cube[j].rates = row(j)
    BY <1>5, ValueIs
  <2>. QED
    BY <2>1 DEF PaysRates, RateFits, row
<1>7. DOMAIN cube = DOMAIN dates
  BY <1>4
<1>. QED
  BY <1>5, <1>6, <1>7 DEF fixings, alive, flows, cube, row, Paying, RatesFrom

\* A grid value: it is refused, or made of what is kept.
LEMMA GridValueOf ==
  ASSUME NEW t, NEW day, NEW built_on, NEW fixings
  PROVE  LET leg   == floatingLeg(t)
             kept  == Kept(t, leg, day)
             days  == option_days(t, day, built_on)
             row   == [i \in kept |-> IF IsKnown(leg[i].fix, day, fixings) THEN fixings[leg[i].fix] ELSE Forecast]
         IN  GridValue(t, day, built_on, fixings) =
               IF \E i \in kept : FixingMissing(leg[i].fix, day, fixings) THEN Failed("MissingFixing")
               ELSE IF Kept(t, fixedLeg(t), day) = {} \/ kept = {} THEN Failed("IndexError")
               ELSE IF \E d \in days : day + d >= Max({l[Len(l)].pay : l \in {fixedLeg(t), leg}}) THEN Failed("AfterMaturity")
               ELSE Exercisable(Kept(t, fixedLeg(t), day), row, days)
BY Zenon DEF GridValue, Exercisable

\* A grid value without an error misses no fixing and pays known fixings and forecasts.
LEMMA GridValueIs ==
  ASSUME NEW t, NEW day, NEW built_on, NEW fixings, GridValue(t, day, built_on, fixings).error = "none"
  PROVE  /\ DOMAIN GridValue(t, day, built_on, fixings).rates = Kept(t, floatingLeg(t), day)
         /\ \A i \in Kept(t, floatingLeg(t), day) :
              /\ ~ FixingMissing(floatingLeg(t)[i].fix, day, fixings)
              /\ GridValue(t, day, built_on, fixings).rates[i] =
                   IF IsKnown(floatingLeg(t)[i].fix, day, fixings) THEN fixings[floatingLeg(t)[i].fix] ELSE Forecast
<1> DEFINE leg == floatingLeg(t)
           kept == Kept(t, leg, day)
           missing == \E i \in kept : FixingMissing(leg[i].fix, day, fixings)
           empty == Kept(t, fixedLeg(t), day) = {} \/ kept = {}
           days == option_days(t, day, built_on)
           late == \E d \in days : day + d >= Max({l[Len(l)].pay : l \in {fixedLeg(t), leg}})
           row == [i \in kept |-> IF IsKnown(leg[i].fix, day, fixings) THEN fixings[leg[i].fix] ELSE Forecast]
           g == GridValue(t, day, built_on, fixings)
<1>1. g = IF missing THEN Failed("MissingFixing") ELSE IF empty THEN Failed("IndexError")
          ELSE IF late THEN Failed("AfterMaturity") ELSE Exercisable(Kept(t, fixedLeg(t), day), row, days)
  BY GridValueOf, Zenon
<1> HIDE DEF kept, missing, empty, late, row, days
<1>2. "MissingFixing" # "none" /\ "IndexError" # "none" /\ "AfterMaturity" # "none"
  OBVIOUS
<1>3. ~ missing /\ g = Exercisable(Kept(t, fixedLeg(t), day), row, days)
  <2> HIDE DEF g
  <2>1. g.error = "none"
    BY DEF g
  <2>. QED
    BY <1>1, <1>2, <2>1, FailedIs
<1>4. g.rates = row
  <2> HIDE DEF g
  <2>. QED
    BY <1>3, ExercisableIs
<1>5. DOMAIN row = kept
  BY DEF row
<1>6. \A i \in kept : row[i] = IF IsKnown(leg[i].fix, day, fixings) THEN fixings[leg[i].fix] ELSE Forecast
  BY Zenon DEF row
<1>. QED
  BY <1>3, <1>4, <1>5, <1>6, Zenon DEF missing, kept

\* The fixings a Bermudan reads on a date of the grid.
KnownOnPath(t, j) ==
  LET onPath == {fix \in {c.fix : c \in Range(floatingLeg(t))} : fix >= 0 /\ fix < dates[j]}
      rateOf(fix) == IF fix < 0 THEN History(fix) ELSE PathFixing(dates[fixing_step(fix)])
  IN  [fix \in DOMAIN HistoryOf(t) \cup onPath |-> rateOf(fix)]

\* A Bermudan's column, date by date.
LEMMA BermudanIs ==
  ASSUME NEW t, NEW j \in DOMAIN dates
  PROVE  bermudan_cube(t)[j] = IF \A e \in Range(contract_exercise_dates(t)) : e <= dates[j] THEN Zero
                               ELSE GridValue(t, dates[j], 0, KnownOnPath(t, j))
BY Zenon DEF bermudan_cube, KnownOnPath

\* The history a Bermudan or an American holds.
LEMMA HistoryIs ==
  ASSUME NEW t, t.kind # "european"
  PROVE  DOMAIN HistoryOf(t) = t.history /\ \A fix \in t.history : HistoryOf(t)[fix] = History(fix)
BY DEF HistoryOf

\* Which fixings a Bermudan reads on a date, and their rates.
LEMMA KnownIs ==
  ASSUME NEW t, t.kind # "european", NEW j \in DOMAIN dates
  PROVE  /\ \A fix : fix \in DOMAIN KnownOnPath(t, j) <=>
                       fix \in t.history \/ (fix >= 0 /\ fix < dates[j] /\ \E c \in Range(floatingLeg(t)) : c.fix = fix)
         /\ \A fix \in DOMAIN KnownOnPath(t, j) :
              KnownOnPath(t, j)[fix] = IF fix < 0 THEN History(fix) ELSE PathFixing(dates[fixing_step(fix)])
<1>1. DOMAIN HistoryOf(t) = t.history
  BY HistoryIs
<1>2. PICK held : held = DOMAIN HistoryOf(t)
  OBVIOUS
<1>3. PICK leg : leg = floatingLeg(t)
  OBVIOUS
<1> DEFINE onPath == {fix \in {c.fix : c \in Range(leg)} : fix >= 0 /\ fix < dates[j]}
<1>4. KnownOnPath(t, j) = [fix \in held \cup onPath |-> IF fix < 0 THEN History(fix) ELSE PathFixing(dates[fixing_step(fix)])]
  BY <1>2, <1>3, Zenon DEF KnownOnPath
<1>. QED
  BY <1>1, <1>2, <1>3, <1>4

\* Every coupon a Bermudan keeps pays its rate on the path, but on the fixing's own date where its history
\* holds that date.
LEMMA BermudanPays ==
  ASSUME NEW t, TradeFits(t), t.kind \in ExerciseKinds, dates \in DateGrids,
         \A j \in DOMAIN dates : bermudan_cube(t)[j].error = "none"
  PROVE  PaysRates(floatingLeg(t), bermudan_cube(t), OwnDays(t))
<1> DEFINE leg == floatingLeg(t)
           cube == bermudan_cube(t)
<1> SUFFICES ASSUME NEW j \in DOMAIN dates, NEW i \in DOMAIN leg, i \in DOMAIN cube[j].rates
             PROVE  RateFits(cube[j].rates[i], leg[i].fix, j, OwnDays(t))
  BY DEF PaysRates
<1>1. LegFits(leg)
  BY LegsFit
<1>0. t.kind # "european"
  BY DEF ExerciseKinds
<1>2. PICK fix : fix = leg[i].fix
  OBVIOUS
<1>3. fix \in Int /\ dates[j] \in Nat \ {0}
  BY <1>1, <1>2, GridIs DEF LegFits
<1> DEFINE known == KnownOnPath(t, j)
<1>4. cube[j] = GridValue(t, dates[j], 0, known) /\ cube[j].error = "none"
  <2>1. cube[j] # Zero
    BY ZeroIs
  <2>. QED
    BY <2>1, BermudanIs, Zenon
<1> HIDE DEF known
<1>5. /\ i \in Kept(t, leg, dates[j]) => ~ FixingMissing(fix, dates[j], known)
      /\ DOMAIN cube[j].rates = Kept(t, leg, dates[j])
      /\ i \in Kept(t, leg, dates[j]) => cube[j].rates[i] = IF IsKnown(fix, dates[j], known) THEN known[fix] ELSE Forecast
  <2>1. GridValue(t, dates[j], 0, known).error = "none" /\ cube[j].rates = GridValue(t, dates[j], 0, known).rates
    BY <1>4
  <2>2. PICK g : g = GridValue(t, dates[j], 0, known)
    OBVIOUS
  <2>3. PICK day : day = dates[j]
    OBVIOUS
  <2>4. g.error = "none"
    BY <2>1, <2>2
  <2>5. g = GridValue(t, day, 0, known)
    BY <2>2, <2>3
  <2>6. /\ DOMAIN g.rates = Kept(t, floatingLeg(t), day)
        /\ \A k \in Kept(t, floatingLeg(t), day) :
              /\ ~ FixingMissing(floatingLeg(t)[k].fix, day, known)
              /\ g.rates[k] = IF IsKnown(floatingLeg(t)[k].fix, day, known) THEN known[floatingLeg(t)[k].fix] ELSE Forecast
    <3> HIDE DEF leg, cube
    <3>1. GridValue(t, day, 0, known).error = "none"
      BY <2>4, <2>5
    <3>2. /\ DOMAIN GridValue(t, day, 0, known).rates = Kept(t, floatingLeg(t), day)
          /\ \A k \in Kept(t, floatingLeg(t), day) :
              /\ ~ FixingMissing(floatingLeg(t)[k].fix, day, known)
              /\ GridValue(t, day, 0, known).rates[k] =
                   IF IsKnown(floatingLeg(t)[k].fix, day, known) THEN known[floatingLeg(t)[k].fix] ELSE Forecast
      BY <3>1, GridValueIs, Zenon
    <3>. QED
      BY <2>5, <3>2, Zenon
  <2> HIDE DEF cube
  <2>7. cube[j].rates = g.rates
    BY <2>1, <2>2
  <2>. QED
    BY <1>2, <2>3, <2>6, <2>7
<1>6. cube[j].rates[i] = (IF IsKnown(fix, dates[j], known) THEN known[fix] ELSE Forecast) /\ ~ FixingMissing(fix, dates[j], known)
  BY <1>5
<1> HIDE DEF cube
<1>7. /\ \A f : f \in DOMAIN known <=>
                  f \in t.history \/ (f >= 0 /\ f < dates[j] /\ \E c \in Range(leg) : c.fix = f)
      /\ \A f \in DOMAIN known : known[f] = IF f < 0 THEN History(f) ELSE PathFixing(dates[fixing_step(f)])
  BY <1>0, KnownIs DEF known
<1>8. OwnDays(t) = t.history
  BY <1>0, HistoryIs DEF OwnDays
<1>9. CASE fix > dates[j]
  <2>1. ~ IsKnown(fix, dates[j], known)
    BY <1>3, <1>9 DEF IsKnown
  <2>2. fix >= dates[j]
    BY <1>3, <1>9
  <2>. QED
    BY <1>2, <1>6, <2>1, <2>2 DEF RateAt, RateFits
<1>10. CASE fix < dates[j]
  <2>1. fix \in DOMAIN known
    BY <1>6, <1>10 DEF FixingMissing
  <2>2. IsKnown(fix, dates[j], known)
    BY <1>3, <1>10, <2>1 DEF IsKnown
  <2>3. cube[j].rates[i] = IF fix < 0 THEN History(fix) ELSE PathFixing(dates[fixing_step(fix)])
    BY <1>6, <1>7, <2>1, <2>2
  <2>4. cube[j].rates[i] = RateAt(fix, j)
    BY <1>3, <1>10, <2>3 DEF RateAt
  <2>. QED
    BY <1>2, <2>4 DEF RateFits
<1>11. CASE fix = dates[j]
  <2>1. fix >= dates[j] /\ fix <= dates[j] /\ ~ (fix < 0) /\ ~ (fix < dates[j])
    BY <1>3, <1>11
  <2>2. fix \in DOMAIN known <=> fix \in OwnDays(t)
    BY <1>7, <1>8, <2>1
  <2>3. CASE fix \in OwnDays(t)
    <3>1. IsKnown(fix, dates[j], known) /\ fix \in DOMAIN known
      BY <2>1, <2>2, <2>3 DEF IsKnown
    <3>2. cube[j].rates[i] = PathFixing(dates[fixing_step(fix)])
      BY <1>6, <1>7, <2>1, <3>1
    <3>. QED
      BY <1>2, <1>11, <2>3, <3>2 DEF RateFits
  <2>4. CASE fix \notin OwnDays(t)
    <3>1. ~ IsKnown(fix, dates[j], known)
      BY <2>2, <2>4 DEF IsKnown
    <3>. QED
      BY <1>2, <1>6, <2>1, <3>1 DEF RateAt, RateFits
  <2>. QED
    BY <2>3, <2>4
<1>. QED
  BY <1>3, <1>9, <1>10, <1>11

\* A European that has not expired pays a coupon whole.
LEMMA EuropeanAlive ==
  ASSUME NEW t, TradeFits(t), t.kind = "european", dates \in DateGrids, NEW j \in DOMAIN dates, ~ is_expired(t, dates[j])
  PROVE  /\ \A i \in Coupons(fixedLeg(t), european_terms(t)[1]) : fixedLeg(t)[i].pay > dates[j]
         /\ \A i \in Coupons(floatingLeg(t), european_terms(t)[2]) : floatingLeg(t)[i].pay > dates[j]
<1> DEFINE e == t.exercise[1]
<1>1. Len(t.exercise) = 1 /\ t.exercise \in Seq(Int) /\ WholePeriods(t)
  BY DEF TradeFits
<1>2. e \in Int /\ ~ (e <= dates[j]) /\ dates[j] \in Int
  BY <1>1, GridIs DEF is_expired
<1>3. e > dates[j]
  BY <1>2
<1>4. FirstWhole(fixedLeg(t), e) > 0 /\ FirstWhole(floatingLeg(t), e) > 0
  BY <1>1 DEF WholePeriods
<1>5. european_terms(t)[1] = FirstWhole(fixedLeg(t), e) /\ european_terms(t)[2] = FirstWhole(floatingLeg(t), e)
  BY DEF european_terms
<1>6. ASSUME NEW leg, LegFits(leg), FirstWhole(leg, e) > 0, NEW i \in Coupons(leg, FirstWhole(leg, e))
      PROVE  leg[i].pay > dates[j]
  <2>1. i \in DOMAIN leg /\ i >= FirstWhole(leg, e)
    BY DEF Coupons
  <2> HIDE DEF e
  <2>2. leg[i].pay > e
    BY <1>2, <1>6, <2>1, EntersWholePeriods
  <2>3. leg[i].pay \in Int
    BY <1>6, <2>1 DEF LegFits
  <2>. QED
    BY <1>2, <1>3, <2>2, <2>3
<1>7. LegFits(fixedLeg(t)) /\ LegFits(floatingLeg(t))
  BY LegsFit
<1> HIDE DEF e
<1>. QED
  BY <1>4, <1>5, <1>6, <1>7

\* The rate a coupon of a European reads is its rate on the path.
LEMMA EuropeanRate ==
  ASSUME NEW t, TradeFits(t), t.kind = "european", dates \in DateGrids, ~ TermsMissHistory(t),
         NEW j \in DOMAIN dates, ~ is_expired(t, dates[j]), NEW i \in Coupons(floatingLeg(t), european_terms(t)[2])
  PROVE  /\ floatingLeg(t)[i].fix \in Nat
         /\ RateOn(floatingLeg(t)[i].fix, j, <<>>) = RateAt(floatingLeg(t)[i].fix, j)
<1> DEFINE leg == floatingLeg(t)
<1>1. LegFits(leg) /\ i \in DOMAIN leg
  BY LegsFit DEF Coupons
<1>2. leg[i].fix \in Int /\ leg[i].pay \in Int
  BY <1>1 DEF LegFits
<1>3. leg[i].pay > dates[j]
  BY EuropeanAlive
<1>4. 1 \in DOMAIN dates /\ dates[1] \in Int /\ dates[j] \in Int /\ dates[1] <= dates[j]
  BY GridIs, GridGrows
<1>5. leg[i].pay > dates[1]
  BY <1>2, <1>3, <1>4
<1>6. ~ (leg[i].fix < 0)
  <2>1. DOMAIN <<>> = {}
    OBVIOUS
  <2>. QED
    BY <1>5, <2>1 DEF TermsMissHistory, HistoryNeeded
<1>7. leg[i].fix \in Nat
  BY <1>2, <1>6
<1>8. leg[i].fix >= 0
  BY <1>7
<1> HIDE DEF leg
<1>9. RateOn(leg[i].fix, j, <<>>) = RateAt(leg[i].fix, j)
  BY <1>8 DEF RateOn, RateAt
<1>. QED
  BY <1>7, <1>9 DEF leg

\* Every coupon a European keeps pays its rate on the path.
LEMMA EuropeanPays ==
  ASSUME NEW t, TradeFits(t), t.kind = "european", dates \in DateGrids, ~ TermsMissHistory(t), NEW own
  PROVE  PaysRates(floatingLeg(t), european_cube(t), own)
<1> DEFINE leg == floatingLeg(t)
           cube == european_cube(t)
           row(j) == [i \in Coupons(leg, european_terms(t)[2]) |-> RateOn(leg[i].fix, j, <<>>)]
           flows == Coupons(fixedLeg(t), european_terms(t)[1])
<1>1. \A j \in DOMAIN dates : cube[j] = IF is_expired(t, dates[j]) THEN Zero ELSE Value(flows, row(j))
  BY Zenon DEF european_cube
<1>2. ASSUME NEW j \in DOMAIN dates, ~ is_expired(t, dates[j]), NEW i \in DOMAIN row(j)
      PROVE  row(j)[i] = RateAt(leg[i].fix, j)
  BY <1>2, EuropeanRate
<1> HIDE DEF row, cube, flows
<1>3. ASSUME NEW j \in DOMAIN dates, NEW i \in DOMAIN leg, i \in DOMAIN cube[j].rates
      PROVE  cube[j].rates[i] = RateAt(leg[i].fix, j)
  <2>1. CASE is_expired(t, dates[j])
    <3>1. cube[j] = Zero
      BY <1>1, <2>1
    <3>. QED
      BY <1>3, <3>1, ZeroIs
  <2>2. CASE ~ is_expired(t, dates[j])
    <3>1. cube[j] = Value(flows, row(j))
      BY <1>1, <2>2
    <3>2. cube[j].rates = row(j)
      BY <3>1, ValueIs
    <3>. QED
      BY <1>2, <1>3, <2>2, <3>2
  <2>. QED
    BY <2>1, <2>2
<1>. QED
  BY <1>3 DEF PaysRates, RateFits, cube

---------------------------------------------------------------------------
(* The Theta date as the first date of the grid.                           *)

\* Two things are finitely many.
LEMMA OfTwoFinite == \A a, b : IsFiniteSet({a, b})
<1>. TAKE a, b
<1>1. IsFiniteSet({a}) /\ IsFiniteSet({b})
  BY FS_Singleton, Zenon
<1>2. IsFiniteSet({a} \cup {b})
  BY <1>1, FS_Union, Zenon
<1>3. {a, b} = {a} \cup {b}
  OBVIOUS
<1>. QED
  BY <1>2, <1>3

\* The greater of two numbers is one of them.
LEMMA GreaterOfTwo ==
  ASSUME NEW a \in Int, NEW b \in Int
  PROVE  Max({a, b}) \in {a, b}
<1>1. IsFiniteSet({a, b})
  BY OfTwoFinite, Zenon
<1>2. PICK S : S = {a, b}
  OBVIOUS
<1>3. IsFiniteSet(S) /\ S \subseteq Int /\ S # {}
  BY <1>1, <1>2
<1>. QED
  BY <1>2, <1>3, GreatestOf

\* The greater of two numbers.
LEMMA MaxOfTwo ==
  ASSUME NEW a \in Int, NEW b \in Int
  PROVE  Max({a, b}) = IF a >= b THEN a ELSE b
<1>1. IsFiniteSet({a, b})
  BY OfTwoFinite, Zenon
<1>2. PICK S : S = {a, b}
  OBVIOUS
<1>3. IsFiniteSet(S) /\ S \subseteq Int /\ S # {}
  BY <1>1, <1>2
<1>4. Max(S) \in S /\ \A x \in S : Max(S) >= x
  BY <1>3, GreatestOf
<1>5. Max(S) \in Int /\ Max(S) >= a /\ Max(S) >= b /\ (Max(S) = a \/ Max(S) = b)
  BY <1>2, <1>3, <1>4
<1>. QED
  BY <1>2, <1>5

\* What a trade's value on the Theta date shares with the path's on that date.
Rolls(t, theta, path) ==
  /\ theta.error = path.error /\ theta.flows = path.flows /\ theta.days = path.days \ {0}
  /\ path.days # {} => (0 \in path.days) = (t.kind = "american" /\ t.exercise[1] <= THETA_DAYS)
  /\ DOMAIN theta.rates = DOMAIN path.rates
  /\ \A i \in DOMAIN theta.rates :
       theta.rates[i] # path.rates[i] => floatingLeg(t)[i].fix = THETA_DAYS /\ THETA_DAYS \in DOMAIN HistoryOf(t)

\* A value that may not be exercised rolls to itself.
LEMMA EqualRolls ==
  ASSUME NEW t, NEW v, v.days = {}
  PROVE  Rolls(t, v, v)
<1>1. {} \ {0} = {}
  OBVIOUS
<1>. QED
  BY <1>1 DEF Rolls

\* An option built anew on a day may be exercised on the days it could be when built on the as-of date, but
\* for that day itself, on which an American whose window is open may be.
LEMMA DaysRoll ==
  ASSUME NEW t, TradeFits(t), t.kind \in ExerciseKinds, NEW day \in Nat \ {0}, ~ is_expired(t, day)
  PROVE  /\ option_days(t, day, day) = option_days(t, day, 0) \ {0}
         /\ (0 \in option_days(t, day, 0)) = (t.kind = "american" /\ t.exercise[1] <= day)
         /\ option_days(t, day, 0) \subseteq Nat
         /\ \E d \in option_days(t, day, 0) : d > 0
<1>1. PICK ex : ex = t.exercise
  OBVIOUS
<1>2. ex \in Seq(Int) /\ ex # <<>> /\ Sorted(ex)
  BY <1>1 DEF TradeFits
<1>3. DOMAIN ex = 1 .. Len(ex) /\ Len(ex) \in Nat \ {0} /\ Len(ex) \in DOMAIN ex
  BY <1>2
<1>4. \A i \in DOMAIN ex : ex[i] \in Int
  BY <1>2, ElementIn, Zenon
<1>5. ex[Len(ex)] \in Int /\ ex[Len(ex)] > day
  <2>1. ~ (ex[Len(ex)] <= day)
    BY <1>1 DEF is_expired
  <2>. QED
    BY <1>3, <1>4, <2>1
<1>6. CASE t.kind # "american"
  <2> DEFINE days == {e - day : e \in {d \in Range(ex) : d > day}}
  <2>1. option_days(t, day, day) = days /\ option_days(t, day, 0) = days
    BY <1>1, <1>6 DEF option_days
  <2>2. \A e \in Range(ex) : e \in Int
    BY <1>4 DEF Range
  <2>3. \A d \in days : d \in Nat /\ d > 0
    BY <2>2
  <2>4. ex[Len(ex)] - day \in days /\ ex[Len(ex)] - day > 0
    <3>1. ex[Len(ex)] \in Range(ex)
      BY <1>3 DEF Range
    <3>. QED
      BY <1>5, <3>1
  <2> HIDE DEF days
  <2>5. 0 \notin days
    BY <2>3
  <2>6. days = days \ {0} /\ days \subseteq Nat
    BY <2>3, <2>5
  <2>7. (0 \in days) = (t.kind = "american" /\ t.exercise[1] <= day)
    BY <1>6, <2>5
  <2>. QED
    BY <2>1, <2>4, <2>6, <2>7
<1>7. CASE t.kind = "american"
  <2>1. Len(ex) = 2
    BY <1>1, <1>7 DEF TradeFits
  <2>2. ex[1] \in Int /\ ex[2] \in Int /\ ex[1] <= ex[2] /\ ex[2] > day
    BY <1>2, <1>3, <1>4, <1>5, <2>1 DEF Sorted
  <2>3. PICK first, last : first = ex[1] /\ last = ex[2]
    OBVIOUS
  <2>4. first \in Int /\ last \in Int /\ first <= last /\ last > day
    BY <2>2, <2>3
  <2>5. ASSUME NEW built_on \in Nat, built_on <= day
        PROVE  LET opens == IF (IF built_on + 1 >= first THEN built_on + 1 ELSE first) - day >= 0
                            THEN (IF built_on + 1 >= first THEN built_on + 1 ELSE first) - day ELSE 0
               IN  option_days(t, day, built_on) = opens .. last - day
    <3>1. PICK m : m = Max({built_on + 1, first})
      OBVIOUS
    <3>2. m = (IF built_on + 1 >= first THEN built_on + 1 ELSE first) /\ m \in Int
      <4>1. built_on + 1 \in Int
        BY <2>5
      <4>. QED
        BY <2>4, <3>1, <4>1, MaxOfTwo
    <3>3. PICK opens : opens = Max({0, m - day})
      OBVIOUS
    <3>4. opens = (IF m - day >= 0 THEN m - day ELSE 0) /\ opens \in Int
      <4>1. opens = IF 0 >= m - day THEN 0 ELSE m - day
        BY <3>2, <3>3, MaxOfTwo
      <4>. QED
        BY <3>2, <4>1
    <3>5. opens <= last - day
      BY <2>4, <2>5, <3>2, <3>4
    <3>6. Max({opens, last - day}) = last - day
      <4>1. last - day \in Int
        BY <2>4
      <4>2. Max({opens, last - day}) = IF opens >= last - day THEN opens ELSE last - day
        BY <3>4, <4>1, MaxOfTwo
      <4>. QED
        BY <3>4, <3>5, <4>1, <4>2
    <3>7. option_days(t, day, built_on) = opens .. Max({opens, last - day})
      BY <1>1, <1>7, <2>3, <3>1, <3>3, Zenon DEF option_days
    <3>. QED
      BY <3>2, <3>4, <3>6, <3>7
  <2>6. option_days(t, day, day) = (IF first - day >= 1 THEN first - day ELSE 1) .. last - day
    <3>1. option_days(t, day, day) =
            (IF (IF day + 1 >= first THEN day + 1 ELSE first) - day >= 0
             THEN (IF day + 1 >= first THEN day + 1 ELSE first) - day ELSE 0) .. last - day
      BY <2>5
    <3>. QED
      BY <2>4, <3>1
  <2>7. option_days(t, day, 0) = (IF first - day >= 0 THEN first - day ELSE 0) .. last - day
    <3>1. option_days(t, day, 0) =
            (IF (IF 0 + 1 >= first THEN 0 + 1 ELSE first) - day >= 0
             THEN (IF 0 + 1 >= first THEN 0 + 1 ELSE first) - day ELSE 0) .. last - day
      BY <2>5
    <3>. QED
      BY <2>4, <3>1
  <2>8. option_days(t, day, day) = option_days(t, day, 0) \ {0}
    BY <2>4, <2>6, <2>7
  <2>9. (0 \in option_days(t, day, 0)) = (t.kind = "american" /\ t.exercise[1] <= day)
    <3>1. 0 \in option_days(t, day, 0) <=> first <= day
      BY <2>4, <2>7
    <3>. QED
      BY <1>1, <1>7, <2>3, <3>1
  <2>10. option_days(t, day, 0) \subseteq Nat /\ last - day \in option_days(t, day, 0) /\ last - day > 0
    BY <2>4, <2>7
  <2>. QED
    BY <2>8, <2>9, <2>10
<1>. QED
  BY <1>6, <1>7

\* The last payments of a trade's legs, the later of the two.
LEMMA LastPayment ==
  ASSUME NEW t, TradeFits(t), DOMAIN fixedLeg(t) # {}, DOMAIN floatingLeg(t) # {}
  PROVE  Max({l[Len(l)].pay : l \in {fixedLeg(t), floatingLeg(t)}}) \in Int
<1>1. LegFits(fixedLeg(t)) /\ LegFits(floatingLeg(t))
  BY LegsFit
<1>2. ASSUME NEW leg, LegFits(leg), DOMAIN leg # {} PROVE leg[Len(leg)].pay \in Int
  <2>1. PICK n \in Int : DOMAIN leg = 1 .. n
    BY <1>2 DEF LegFits
  <2>2. n \in Nat \ {0}
    BY <1>2, <2>1
  <2>3. Len(leg) = n
    BY <2>1, <2>2 DEF Len
  <2>4. n \in DOMAIN leg
    BY <2>1, <2>2
  <2>. QED
    BY <1>2, <2>3, <2>4 DEF LegFits
<1>3. PICK a, b : a = fixedLeg(t)[Len(fixedLeg(t))].pay /\ b = floatingLeg(t)[Len(floatingLeg(t))].pay
  OBVIOUS
<1>4. a \in Int /\ b \in Int
  BY <1>1, <1>2, <1>3
<1>5. {l[Len(l)].pay : l \in {fixedLeg(t), floatingLeg(t)}} = {a, b}
  BY <1>3
<1>6. Max({a, b}) \in Int
  BY <1>4, GreaterOfTwo
<1>. QED
  BY <1>5, <1>6

\* The rate a grid value pays on a coupon fixed on a day.
GridRate(fix, day, fixings) == IF IsKnown(fix, day, fixings) THEN fixings[fix] ELSE Forecast

\* A grid value built anew on the Theta date rolls from the path's, if it misses the same fixings and pays
\* the same rates but for those the trade's own fixings hold for the date.
LEMMA GridValueRolls ==
  ASSUME NEW t, TradeFits(t), t.kind \in ExerciseKinds, NEW day \in Nat \ {0}, ~ is_expired(t, day), THETA_DAYS = day,
         NEW f1, NEW f2,
         \A i \in DOMAIN floatingLeg(t) :
           /\ FixingMissing(floatingLeg(t)[i].fix, day, f1) <=> FixingMissing(floatingLeg(t)[i].fix, day, f2)
           /\ GridRate(floatingLeg(t)[i].fix, day, f1) # GridRate(floatingLeg(t)[i].fix, day, f2)
                => floatingLeg(t)[i].fix = day /\ day \in DOMAIN HistoryOf(t)
  PROVE  Rolls(t, GridValue(t, day, day, f1), GridValue(t, day, 0, f2))
<1> DEFINE leg == floatingLeg(t)
           kept == Kept(t, leg, day)
           flows == Kept(t, fixedLeg(t), day)
           missing(f) == \E i \in kept : FixingMissing(leg[i].fix, day, f)
           empty == flows = {} \/ kept = {}
           lastPaid == Max({l[Len(l)].pay : l \in {fixedLeg(t), leg}})
           late(built_on) == \E d \in option_days(t, day, built_on) : day + d >= lastPaid
           row(f) == [i \in kept |-> IF IsKnown(leg[i].fix, day, f) THEN f[leg[i].fix] ELSE Forecast]
           value(built_on, f) == Exercisable(flows, row(f), option_days(t, day, built_on))
<1>1. \A f, built_on : GridValue(t, day, built_on, f) =
               IF missing(f) THEN Failed("MissingFixing") ELSE IF empty THEN Failed("IndexError")
               ELSE IF late(built_on) THEN Failed("AfterMaturity") ELSE value(built_on, f)
  BY GridValueOf, Zenon
<1>2. kept \subseteq DOMAIN leg /\ flows \subseteq DOMAIN fixedLeg(t)
  BY DEF Kept
<1>3. missing(f1) <=> missing(f2)
  <2> HIDE DEF kept, leg
  <2>. QED
    BY <1>2 DEF leg
<1>4. /\ option_days(t, day, day) = option_days(t, day, 0) \ {0}
      /\ (0 \in option_days(t, day, 0)) = (t.kind = "american" /\ t.exercise[1] <= day)
      /\ option_days(t, day, 0) \subseteq Nat /\ \E d \in option_days(t, day, 0) : d > 0
  BY DaysRoll
<1>5. ~ empty => lastPaid \in Int
  <2> HIDE DEF kept, flows, lastPaid
  <2>1. ~ empty => DOMAIN fixedLeg(t) # {} /\ DOMAIN floatingLeg(t) # {}
    BY <1>2
  <2>. QED
    BY <2>1, LastPayment DEF lastPaid
<1>6. lastPaid \in Int => (late(day) <=> late(0))
  <2> HIDE DEF lastPaid
  <2>1. PICK last \in option_days(t, day, 0) : last > 0
    BY <1>4
  <2>2. ASSUME lastPaid \in Int, NEW d \in option_days(t, day, 0), day + d >= lastPaid PROVE late(day)
    <3>1. CASE d = 0
      <4>1. last \in option_days(t, day, day) /\ last \in Nat
        BY <1>4, <2>1
      <4>2. day + last >= lastPaid
        BY <2>1, <2>2, <3>1, <4>1
      <4>. QED
        BY <4>1, <4>2
    <3>2. CASE d # 0
      <4>1. d \in option_days(t, day, day)
        BY <1>4, <3>2
      <4>. QED
        BY <2>2, <4>1
    <3>. QED
      BY <3>1, <3>2
  <2>3. option_days(t, day, day) \subseteq option_days(t, day, 0)
    BY <1>4
  <2>. QED
    BY <2>2, <2>3
<1>7. \A i \in kept : row(f1)[i] # row(f2)[i] => leg[i].fix = THETA_DAYS /\ THETA_DAYS \in DOMAIN HistoryOf(t)
  <2>1. \A f : \A i \in kept : row(f)[i] = GridRate(leg[i].fix, day, f)
    BY Zenon DEF GridRate
  <2> HIDE DEF kept, leg, row
  <2>. QED
    BY <1>2, <2>1 DEF leg
<1>8. \A f : DOMAIN row(f) = kept
  OBVIOUS
<1> DEFINE theta == GridValue(t, day, day, f1)
           path == GridValue(t, day, 0, f2)
<1>9. /\ theta = IF missing(f1) THEN Failed("MissingFixing") ELSE IF empty THEN Failed("IndexError")
                 ELSE IF late(day) THEN Failed("AfterMaturity") ELSE value(day, f1)
      /\ path = IF missing(f2) THEN Failed("MissingFixing") ELSE IF empty THEN Failed("IndexError")
                ELSE IF late(0) THEN Failed("AfterMaturity") ELSE value(0, f2)
  BY <1>1, Zenon
<1> HIDE DEF missing, empty, late, lastPaid, row, kept, flows, leg, theta, path
<1>10. CASE missing(f1) \/ empty \/ late(day)
  <2>1. path = theta /\ \E why : theta = Failed(why)
    BY <1>3, <1>5, <1>6, <1>9, <1>10, Zenon
  <2>2. theta.days = {}
    BY <2>1, FailedIs
  <2>. QED
    BY <2>1, <2>2, EqualRolls DEF theta, path
<1>11. CASE ~ missing(f1) /\ ~ empty /\ ~ late(day)
  <2>1. theta = value(day, f1) /\ path = value(0, f2)
    BY <1>3, <1>5, <1>6, <1>9, <1>11, Zenon
  <2>2. /\ theta.flows = flows /\ theta.rates = row(f1) /\ theta.error = "none" /\ theta.days = option_days(t, day, day)
        /\ path.flows = flows /\ path.rates = row(f2) /\ path.error = "none" /\ path.days = option_days(t, day, 0)
    BY <2>1, ExercisableIs
  <2>3. theta.days = path.days \ {0} /\ (0 \in path.days) = (t.kind = "american" /\ t.exercise[1] <= THETA_DAYS)
    BY <1>4, <2>2
  <2>4. DOMAIN theta.rates = kept /\ DOMAIN path.rates = kept
    BY <1>8, <2>2
  <2>5. \A i \in kept : theta.rates[i] # path.rates[i] => floatingLeg(t)[i].fix = THETA_DAYS /\ THETA_DAYS \in DOMAIN HistoryOf(t)
    BY <1>7, <2>2 DEF leg
  <2>6. Rolls(t, theta, path)
    BY <2>2, <2>3, <2>4, <2>5 DEF Rolls
  <2>. QED
    BY <2>6 DEF theta, path
<1>. QED
  BY <1>10, <1>11

\* An option has expired once every exercise date it is priced with is not after the date.
LEMMA ExpiredIs ==
  ASSUME NEW t, TradeFits(t), t.kind \in ExerciseKinds, NEW day \in Nat \ {0}
  PROVE  is_expired(t, day) <=> \A e \in Range(contract_exercise_dates(t)) : e <= day
<1>1. PICK ex : ex = t.exercise
  OBVIOUS
<1>2. ex \in Seq(Int) /\ ex # <<>> /\ Sorted(ex)
  BY <1>1 DEF TradeFits
<1>3. DOMAIN ex = 1 .. Len(ex) /\ Len(ex) \in Nat \ {0}
  BY <1>2
<1>4. \A i \in DOMAIN ex : ex[i] \in Int
  BY <1>2, ElementIn, Zenon
<1>5. \A i \in DOMAIN ex : ex[i] <= ex[Len(ex)] /\ Len(ex) \in DOMAIN ex
  <2>. TAKE i \in DOMAIN ex
  <2>1. Len(ex) \in DOMAIN ex /\ (i < Len(ex) \/ i = Len(ex))
    BY <1>3
  <2>. QED
    BY <1>2, <1>4, <2>1 DEF Sorted
<1>6. CASE t.kind # "american"
  <2>1. contract_exercise_dates(t) = ex
    BY <1>1, <1>6 DEF contract_exercise_dates
  <2>2. Range(ex) = {ex[i] : i \in DOMAIN ex}
    BY DEF Range
  <2>3. (\A e \in Range(ex) : e <= day) <=> ex[Len(ex)] <= day
    <3>1. ex[Len(ex)] <= day => \A i \in DOMAIN ex : ex[i] <= day
      BY <1>4, <1>5
    <3>2. ex[Len(ex)] \in Range(ex)
      BY <1>3, <1>5, <2>2
    <3>. QED
      BY <2>2, <3>1, <3>2
  <2>. QED
    BY <1>1, <2>1, <2>3 DEF is_expired
<1>7. CASE t.kind = "american"
  <2>1. Len(ex) = 2
    BY <1>1, <1>7 DEF TradeFits
  <2>2. ex[1] \in Int /\ ex[2] \in Int /\ ex[1] <= ex[2]
    BY <1>3, <1>4, <1>5, <2>1
  <2>3. PICK first : first = Max({1, ex[1]})
    OBVIOUS
  <2>4. first \in {1, ex[1]}
    BY <2>2, <2>3, GreaterOfTwo
  <2>5. contract_exercise_dates(t) = <<first, ex[2]>>
    BY <1>1, <1>7, <2>3, Zenon DEF contract_exercise_dates
  <2>6. Range(<<first, ex[2]>>) = {first, ex[2]}
    BY DEF Range
  <2>7. (\A e \in {first, ex[2]} : e <= day) <=> ex[2] <= day
    BY <2>2, <2>4
  <2>8. is_expired(t, day) <=> ex[2] <= day
    BY <1>1, <2>1 DEF is_expired
  <2>. QED
    BY <2>5, <2>6, <2>7, <2>8
<1>. QED
  BY <1>6, <1>7

\* The fixings of the Theta date: the backfilled, then the trade's own.
LEMMA BackfilledIs ==
  ASSUME NEW held
  PROVE  LET fixings == WithExtra(backfilled_fixings, held)
         IN  /\ DOMAIN fixings = (0 .. THETA_DAYS - 1) \cup DOMAIN held
             /\ \A fix \in DOMAIN fixings :
                  fixings[fix] = IF fix \in 0 .. THETA_DAYS - 1 THEN PathFixing(THETA_DAYS) ELSE held[fix]
BY DEF backfilled_fixings, WithExtra

\* On the Theta date a coupon's fixing is known, or missing, as it is on the first date of the grid, but one
\* the trade's own fixings hold for that date.
LEMMA ThetaFixing ==
  ASSUME NEW t, TradeFits(t), t.kind # "european", dates \in DateGrids, THETA_DAYS = dates[1], NEW fix \in Int
  PROVE  LET fixings == WithExtra(backfilled_fixings, HistoryOf(t))
         IN  /\ IsKnown(fix, THETA_DAYS, fixings) <=>
                  (fix < dates[1] /\ (fix >= 0 \/ fix \in t.history)) \/ (fix = dates[1] /\ fix \in t.history)
             /\ FixingMissing(fix, THETA_DAYS, fixings) <=> fix < 0 /\ fix \notin t.history
             /\ IsKnown(fix, THETA_DAYS, fixings) /\ fix # dates[1] => fixings[fix] = RateAt(fix, 1)
<1> DEFINE held == HistoryOf(t)
           fixings == WithExtra(backfilled_fixings, held)
<1>1. 1 \in DOMAIN dates /\ dates[1] \in Nat \ {0} /\ \A k \in DOMAIN dates : k \in Int
  BY GridIs
<1>2. DOMAIN held = t.history /\ \A f \in t.history : held[f] = History(f)
  BY HistoryIs
<1> HIDE DEF held
<1>4. /\ DOMAIN fixings = (0 .. THETA_DAYS - 1) \cup DOMAIN held
      /\ \A f \in DOMAIN fixings : fixings[f] = IF f \in 0 .. THETA_DAYS - 1 THEN PathFixing(THETA_DAYS) ELSE held[f]
  BY BackfilledIs, Zenon
<1> HIDE DEF fixings
<1>5. fix \in DOMAIN fixings <=> (fix >= 0 /\ fix < dates[1]) \/ fix \in t.history
  BY <1>1, <1>2, <1>4
<1>6. IsKnown(fix, THETA_DAYS, fixings) <=>
        (fix < dates[1] /\ (fix >= 0 \/ fix \in t.history)) \/ (fix = dates[1] /\ fix \in t.history)
  BY <1>1, <1>5 DEF IsKnown
<1>7. FixingMissing(fix, THETA_DAYS, fixings) <=> fix < 0 /\ fix \notin t.history
  BY <1>1, <1>5 DEF FixingMissing
<1>8. ASSUME IsKnown(fix, THETA_DAYS, fixings), fix # dates[1] PROVE fixings[fix] = RateAt(fix, 1)
  <2>1. fix < dates[1] /\ fix \in DOMAIN fixings
    BY <1>6, <1>8 DEF IsKnown
  <2>2. ~ (fix >= dates[1])
    BY <1>1, <2>1
  <2>3. CASE fix >= 0
    <3>1. fixing_step(fix) = 1
      <4>1. fixing_step(fix) \in DOMAIN dates /\ fixing_step(fix) <= 1
        BY <1>1, <2>1, FixingStepIs
      <4>2. \A k \in DOMAIN dates : k \in Nat \ {0}
        BY GridIs
      <4>. QED
        BY <4>1, <4>2
    <3>2. fixings[fix] = PathFixing(dates[1])
      BY <1>1, <1>4, <2>1, <2>3
    <3>. QED
      BY <2>2, <2>3, <3>1, <3>2 DEF RateAt
  <2>4. CASE ~ (fix >= 0)
    <3>1. fixings[fix] = held[fix] /\ fix \in t.history
      BY <1>1, <1>4, <1>6, <1>8, <2>1, <2>4
    <3>2. fixings[fix] = History(fix)
      BY <1>2, <3>1
    <3>. QED
      BY <2>2, <2>4, <3>2 DEF RateAt
  <2>. QED
    BY <2>3, <2>4
<1>. QED
  BY <1>6, <1>7, <1>8 DEF fixings, held

\* An exercisable swaption rolls to the Theta date from the first date of the grid.
LEMMA ThetaOfExercisable ==
  ASSUME NEW t, TradeFits(t), t.kind \in ExerciseKinds, dates \in DateGrids, THETA_DAYS = dates[1]
  PROVE  Rolls(t, value_on(t, THETA_DAYS, backfilled_fixings), bermudan_cube(t)[1])
<1> DEFINE fixings == WithExtra(backfilled_fixings, HistoryOf(t))
           known == KnownOnPath(t, 1)
           leg == floatingLeg(t)
<1>1. t.kind # "bond" /\ t.kind # "swap" /\ t.kind # "european"
  BY DEF ExerciseKinds
<1>2. value_on(t, THETA_DAYS, backfilled_fixings) =
        IF is_expired(t, THETA_DAYS) THEN Zero ELSE GridValue(t, THETA_DAYS, THETA_DAYS, fixings)
  BY <1>1, Zenon DEF value_on
<1>3. 1 \in DOMAIN dates /\ dates[1] \in Nat \ {0}
  BY GridIs
<1>4. bermudan_cube(t)[1] = IF \A e \in Range(contract_exercise_dates(t)) : e <= dates[1] THEN Zero
                            ELSE GridValue(t, dates[1], 0, known)
  BY <1>3, BermudanIs, Zenon
<1>5. is_expired(t, dates[1]) <=> \A e \in Range(contract_exercise_dates(t)) : e <= dates[1]
  BY <1>3, ExpiredIs
<1>6. /\ \A f : f \in DOMAIN known <=>
                  f \in t.history \/ (f >= 0 /\ f < dates[1] /\ \E c \in Range(leg) : c.fix = f)
      /\ \A f \in DOMAIN known : known[f] = IF f < 0 THEN History(f) ELSE PathFixing(dates[fixing_step(f)])
  BY <1>1, <1>3, KnownIs
<1>7. LegFits(leg)
  BY LegsFit
<1>8. DOMAIN HistoryOf(t) = t.history
  BY <1>1, HistoryIs
<1> HIDE DEF fixings, known, leg
<1>9. ASSUME NEW i \in DOMAIN leg
      PROVE  /\ FixingMissing(leg[i].fix, dates[1], fixings) <=> FixingMissing(leg[i].fix, dates[1], known)
             /\ GridRate(leg[i].fix, dates[1], fixings) # GridRate(leg[i].fix, dates[1], known)
                  => leg[i].fix = dates[1] /\ dates[1] \in DOMAIN HistoryOf(t)
  <2>1. PICK fix : fix = leg[i].fix
    OBVIOUS
  <2>2. fix \in Int /\ \E c \in Range(leg) : c.fix = fix
    <3>1. leg[i] \in Range(leg)
      BY DEF Range
    <3>. QED
      BY <1>7, <2>1, <3>1 DEF LegFits
  <2>3. /\ IsKnown(fix, dates[1], fixings) <=>
             (fix < dates[1] /\ (fix >= 0 \/ fix \in t.history)) \/ (fix = dates[1] /\ fix \in t.history)
        /\ FixingMissing(fix, dates[1], fixings) <=> fix < 0 /\ fix \notin t.history
        /\ IsKnown(fix, dates[1], fixings) /\ fix # dates[1] => fixings[fix] = RateAt(fix, 1)
    BY <1>1, <2>2, ThetaFixing DEF fixings
  <2>4. fix \in DOMAIN known <=> fix \in t.history \/ (fix >= 0 /\ fix < dates[1])
    BY <1>6, <2>2
  <2>5. IsKnown(fix, dates[1], known) <=>
          (fix < dates[1] /\ (fix >= 0 \/ fix \in t.history)) \/ (fix = dates[1] /\ fix \in t.history)
    BY <1>3, <2>2, <2>4 DEF IsKnown
  <2>6. FixingMissing(fix, dates[1], known) <=> fix < 0 /\ fix \notin t.history
    BY <1>3, <2>2, <2>4 DEF FixingMissing
  <2>7. IsKnown(fix, dates[1], known) /\ fix # dates[1] => known[fix] = RateAt(fix, 1)
    <3>1. IsKnown(fix, dates[1], known) => known[fix] = IF fix < 0 THEN History(fix) ELSE PathFixing(dates[fixing_step(fix)])
      BY <1>6 DEF IsKnown
    <3>2. fix < dates[1] => ~ (fix >= dates[1])
      BY <1>3, <2>2
    <3>3. (fix < 0) <=> ~ (fix >= 0)
      BY <2>2
    <3>. QED
      BY <2>5, <3>1, <3>2, <3>3 DEF RateAt
  <2>8. GridRate(fix, dates[1], fixings) # GridRate(fix, dates[1], known) => fix = dates[1] /\ fix \in t.history
    <3>1. ASSUME fix # dates[1] PROVE GridRate(fix, dates[1], fixings) = GridRate(fix, dates[1], known)
      <4>1. IsKnown(fix, dates[1], fixings) <=> IsKnown(fix, dates[1], known)
        BY <2>3, <2>5
      <4>2. IsKnown(fix, dates[1], known) => fixings[fix] = known[fix]
        BY <2>3, <2>7, <3>1, <4>1
      <4>. QED
        BY <4>1, <4>2, Zenon DEF GridRate
    <3>2. ASSUME fix = dates[1], fix \notin t.history PROVE GridRate(fix, dates[1], fixings) = GridRate(fix, dates[1], known)
      <4>1. ~ IsKnown(fix, dates[1], fixings) /\ ~ IsKnown(fix, dates[1], known)
        BY <1>3, <2>3, <2>5, <3>2
      <4>. QED
        BY <4>1, Zenon DEF GridRate
    <3>. QED
      BY <3>1, <3>2
  <2>. QED
    BY <1>8, <2>1, <2>3, <2>6, <2>8
<1>10. CASE is_expired(t, dates[1])
  BY <1>2, <1>4, <1>5, <1>10, ZeroIs, EqualRolls
<1>11. CASE ~ is_expired(t, dates[1])
  <2>1. PICK day : day = dates[1]
    OBVIOUS
  <2>2. Rolls(t, GridValue(t, day, day, fixings), GridValue(t, day, 0, known))
    BY <1>3, <1>9, <1>11, <2>1, GridValueRolls DEF leg
  <2>. QED
    BY <1>2, <1>4, <1>5, <1>11, <2>1, <2>2
<1>. QED
  BY <1>10, <1>11

\* So does a swap, when it misses no fixing on the path.
LEMMA ThetaOfSwap ==
  ASSUME NEW t, TradeFits(t), t.kind = "swap", dates \in DateGrids, THETA_DAYS = dates[1],
         ~ HistoryNeeded(floatingLeg(t), 1, HistoryOf(t))
  PROVE  Rolls(t, value_on(t, THETA_DAYS, backfilled_fixings),
               legs_cube(fixedLeg(t), floatingLeg(t), <<1, 1>>, HistoryOf(t))[1])
<1> DEFINE fixings == WithExtra(backfilled_fixings, HistoryOf(t))
           leg == floatingLeg(t)
           fixed == fixedLeg(t)
           alive == {i \in Coupons(leg, 1) : leg[i].pay > THETA_DAYS}
           flows == {i \in Coupons(fixed, 1) : fixed[i].pay > THETA_DAYS}
           missing == \E i \in alive : FixingMissing(leg[i].fix, THETA_DAYS, fixings)
           row == [i \in alive |-> IF IsKnown(leg[i].fix, THETA_DAYS, fixings) THEN fixings[leg[i].fix] ELSE Forecast]
           rates == [i \in alive |-> RateAt(leg[i].fix, 1)]
<1>0. t.kind # "bond" /\ t.kind # "european" /\ t.kind \notin ExerciseKinds /\ t.kind = "swap"
  BY DEF ExerciseKinds
<1>1. value_on(t, THETA_DAYS, backfilled_fixings) = today_npv(fixed, leg, <<1, 1>>, THETA_DAYS, fixings)
  BY <1>0, Zenon DEF value_on
<1>2. <<1, 1>>[1] = 1 /\ <<1, 1>>[2] = 1
  OBVIOUS
<1>3. today_npv(fixed, leg, <<1, 1>>, THETA_DAYS, fixings) = IF missing THEN Failed("MissingFixing") ELSE Value(flows, row)
  BY <1>2 DEF today_npv
<1>4. LegFits(leg)
  BY LegsFit
<1>5. 1 \in DOMAIN dates /\ dates[1] \in Nat \ {0}
  BY GridIs
<1>6. legs_cube(fixed, leg, <<1, 1>>, HistoryOf(t))[1] = Value(flows, rates)
  <2>1. ~ HistoryNeeded(leg, <<1, 1>>[2], HistoryOf(t))
    BY <1>2
  <2>2. legs_cube(fixed, leg, <<1, 1>>, HistoryOf(t))[1] =
          Value(Paying(fixed, <<1, 1>>[1], dates[1]), RatesFrom(leg, <<1, 1>>[2], 1))
    <3>1. PICK firsts : firsts = <<1, 1>>
      OBVIOUS
    <3> HIDE DEF leg, fixed
    <3>2. ~ HistoryNeeded(leg, firsts[2], HistoryOf(t))
      BY <2>1, <3>1
    <3>3. \A j \in DOMAIN dates : legs_cube(fixed, leg, firsts, HistoryOf(t))[j] =
            Value(Paying(fixed, firsts[1], dates[j]), RatesFrom(leg, firsts[2], j))
      BY <1>4, <3>2, LegsPayRates
    <3>. QED
      BY <1>5, <3>1, <3>3
  <2>3. Paying(fixed, 1, dates[1]) = flows /\ RatesFrom(leg, 1, 1) = rates
    BY DEF Paying, RatesFrom
  <2>. QED
    BY <1>2, <2>2, <2>3
<1>7. DOMAIN HistoryOf(t) = t.history
  BY HistoryIs
<1> HIDE DEF fixings, leg
<1>8. ASSUME NEW i \in alive
      PROVE  /\ ~ FixingMissing(leg[i].fix, THETA_DAYS, fixings)
             /\ row[i] # rates[i] => leg[i].fix = THETA_DAYS /\ THETA_DAYS \in DOMAIN HistoryOf(t)
  <2>1. PICK fix : fix = leg[i].fix
    OBVIOUS
  <2>2. i \in DOMAIN leg /\ leg[i].pay > dates[1] /\ i \in Coupons(leg, 1)
    BY DEF Coupons
  <2>3. fix \in Int
    BY <1>4, <2>1, <2>2 DEF LegFits
  <2>4. fix < 0 => fix \in t.history
    BY <1>7, <2>1, <2>2 DEF HistoryNeeded, leg
  <2>5. /\ IsKnown(fix, THETA_DAYS, fixings) <=>
             (fix < dates[1] /\ (fix >= 0 \/ fix \in t.history)) \/ (fix = dates[1] /\ fix \in t.history)
        /\ FixingMissing(fix, THETA_DAYS, fixings) <=> fix < 0 /\ fix \notin t.history
        /\ IsKnown(fix, THETA_DAYS, fixings) /\ fix # dates[1] => fixings[fix] = RateAt(fix, 1)
    BY <2>3, ThetaFixing DEF fixings
  <2>6. ~ IsKnown(fix, THETA_DAYS, fixings) => fix >= dates[1]
    BY <1>5, <2>3, <2>4, <2>5
  <2>7. fix >= dates[1] => RateAt(fix, 1) = Forecast
    BY DEF RateAt
  <2>8. row[i] = (IF IsKnown(fix, THETA_DAYS, fixings) THEN fixings[fix] ELSE Forecast) /\ rates[i] = RateAt(fix, 1)
    BY <2>1
  <2> HIDE DEF row, rates, alive
  <2>9. row[i] # rates[i] => fix = dates[1] /\ fix \in t.history
    <3>1. CASE ~ IsKnown(fix, THETA_DAYS, fixings)
      <4>1. row[i] = Forecast /\ rates[i] = Forecast
        BY <2>6, <2>7, <2>8, <3>1
      <4>. QED
        BY <4>1
    <3>2. CASE IsKnown(fix, THETA_DAYS, fixings) /\ fix # dates[1]
      <4>1. row[i] = RateAt(fix, 1) /\ rates[i] = RateAt(fix, 1)
        BY <2>5, <2>8, <3>2
      <4>. QED
        BY <4>1
    <3>3. CASE IsKnown(fix, THETA_DAYS, fixings) /\ fix = dates[1]
      BY <1>5, <2>5, <3>3
    <3>. QED
      BY <3>1, <3>2, <3>3
  <2>. QED
    BY <1>7, <2>1, <2>4, <2>5, <2>9
<1>9. ~ missing /\ DOMAIN row = alive /\ DOMAIN rates = alive
  <2>1. ~ missing
    BY <1>8
  <2>. QED
    BY <2>1
<1> HIDE DEF alive, flows, missing, row, rates
<1>10. PICK theta, path : theta = value_on(t, THETA_DAYS, backfilled_fixings)
                          /\ path = legs_cube(fixed, leg, <<1, 1>>, HistoryOf(t))[1]
  OBVIOUS
<1> HIDE DEF fixed
<1>11. theta = Value(flows, row) /\ path = Value(flows, rates)
  BY <1>1, <1>3, <1>6, <1>9, <1>10
<1>12. /\ theta.flows = flows /\ theta.rates = row /\ theta.error = "none" /\ theta.days = {}
       /\ path.flows = flows /\ path.rates = rates /\ path.error = "none" /\ path.days = {}
  BY <1>11, ValueIs
<1>13. \A i \in alive : row[i] # rates[i] => floatingLeg(t)[i].fix = THETA_DAYS /\ THETA_DAYS \in DOMAIN HistoryOf(t)
  BY <1>8 DEF leg
<1>14. {} \ {0} = {}
  OBVIOUS
<1>15. Rolls(t, theta, path)
  BY <1>9, <1>12, <1>13, <1>14 DEF Rolls
<1>. QED
  BY <1>10, <1>15 DEF leg, fixed

\* So is a European: it has no fixings of its own and enters no coupon fixed before the as-of date.
LEMMA ThetaOfEuropean ==
  ASSUME NEW t, TradeFits(t), t.kind = "european", dates \in DateGrids, THETA_DAYS = dates[1],
         is_expired(t, dates[1]) \/ ~ TermsMissHistory(t)
  PROVE  value_on(t, THETA_DAYS, backfilled_fixings) = european_cube(t)[1]
<1> DEFINE leg == floatingLeg(t)
           fixed == fixedLeg(t)
           terms == european_terms(t)
           extra == backfilled_fixings
           alive == {i \in Coupons(leg, terms[2]) : leg[i].pay > THETA_DAYS}
           flows == {i \in Coupons(fixed, terms[1]) : fixed[i].pay > THETA_DAYS}
           missing == \E i \in alive : FixingMissing(leg[i].fix, THETA_DAYS, extra)
           row == [i \in alive |-> IF IsKnown(leg[i].fix, THETA_DAYS, extra) THEN extra[leg[i].fix] ELSE Forecast]
           rates == [i \in Coupons(leg, terms[2]) |-> RateOn(leg[i].fix, 1, <<>>)]
<1>0. t.kind # "bond" /\ t.kind # "swap" /\ t.kind \notin ExerciseKinds /\ t.kind = "european"
  BY DEF ExerciseKinds
<1>1. value_on(t, THETA_DAYS, extra) =
        IF is_expired(t, THETA_DAYS) THEN Zero ELSE today_npv(fixed, leg, terms, THETA_DAYS, extra)
  BY <1>0, Zenon DEF value_on
<1>2. 1 \in DOMAIN dates /\ dates[1] \in Nat \ {0}
  BY GridIs
<1>3. european_cube(t)[1] = IF is_expired(t, dates[1]) THEN Zero ELSE Value(Coupons(fixed, terms[1]), rates)
  BY <1>2, Zenon DEF european_cube
<1>4. CASE is_expired(t, dates[1])
  BY <1>1, <1>3, <1>4
<1>5. CASE ~ is_expired(t, dates[1])
  <2>1. today_npv(fixed, leg, terms, THETA_DAYS, extra) = IF missing THEN Failed("MissingFixing") ELSE Value(flows, row)
    BY Zenon DEF today_npv
  <2>2. /\ \A i \in Coupons(fixed, terms[1]) : fixed[i].pay > dates[1]
        /\ \A i \in Coupons(leg, terms[2]) : leg[i].pay > dates[1]
    BY <1>2, <1>5, EuropeanAlive
  <2> HIDE DEF leg, fixed, terms, extra
  <2>3. flows = Coupons(fixed, terms[1]) /\ alive = Coupons(leg, terms[2])
    BY <2>2
  <2>4. ASSUME NEW i \in Coupons(leg, terms[2])
        PROVE  /\ ~ FixingMissing(leg[i].fix, THETA_DAYS, extra)
               /\ (IF IsKnown(leg[i].fix, THETA_DAYS, extra) THEN extra[leg[i].fix] ELSE Forecast) = RateOn(leg[i].fix, 1, <<>>)
    <3>1. PICK fix : fix = leg[i].fix
      OBVIOUS
    <3>2. fix \in Nat /\ RateOn(fix, 1, <<>>) = RateAt(fix, 1)
      BY <1>2, <1>5, <3>1, EuropeanRate DEF leg, terms
    <3>3. DOMAIN extra = 0 .. THETA_DAYS - 1 /\ \A f \in DOMAIN extra : extra[f] = PathFixing(THETA_DAYS)
      BY DEF extra, backfilled_fixings
    <3>4. fix \in DOMAIN extra <=> fix < dates[1]
      BY <1>2, <3>2, <3>3
    <3>5. ~ FixingMissing(fix, THETA_DAYS, extra)
      BY <3>4 DEF FixingMissing
    <3>6. IsKnown(fix, THETA_DAYS, extra) <=> fix < dates[1]
      BY <1>2, <3>2, <3>4 DEF IsKnown
    <3>7. CASE fix < dates[1]
      <4>1. ~ (fix >= dates[1]) /\ fix >= 0
        BY <1>2, <3>2, <3>7
      <4>2. fixing_step(fix) = 1
        <5>1. fixing_step(fix) \in DOMAIN dates /\ fixing_step(fix) <= 1
          BY <1>2, <3>2, <3>7, FixingStepIs
        <5>2. \A k \in DOMAIN dates : k \in Nat \ {0}
          BY GridIs
        <5>. QED
          BY <5>1, <5>2
      <4>3. extra[fix] = PathFixing(dates[1])
        BY <3>3, <3>4, <3>7
      <4>4. RateAt(fix, 1) = PathFixing(dates[1])
        BY <4>1, <4>2 DEF RateAt
      <4>. QED
        BY <3>1, <3>2, <3>5, <3>6, <3>7, <4>3, <4>4
    <3>8. CASE ~ (fix < dates[1])
      <4>1. fix >= dates[1]
        BY <1>2, <3>2, <3>8
      <4>2. RateAt(fix, 1) = Forecast
        BY <4>1 DEF RateAt
      <4>. QED
        BY <3>1, <3>2, <3>5, <3>6, <3>8, <4>2
    <3>. QED
      BY <3>7, <3>8
  <2>5. ~ missing
    BY <2>3, <2>4
  <2>6. row = rates
    BY <2>3, <2>4
  <2> HIDE DEF missing, row, rates, flows, alive
  <2>. QED
    BY <1>1, <1>3, <1>5, <2>1, <2>3, <2>5, <2>6 DEF extra
<1>. QED
  BY <1>4, <1>5

\* The payments of a bond are none after the last of them.
LEMMA BondPays ==
  ASSUME NEW b, BondFits(b)
  PROVE  LET last == Len(b.periods) + 1
             payments == [i \in 1 .. last |-> IF i = last THEN redemption_date(b) ELSE b.periods[i].pay]
         IN  /\ last_payment_date(b) \in Int
             /\ \A i \in 1 .. last : payments[i] \in Int /\ payments[i] <= last_payment_date(b)
<1> DEFINE last == Len(b.periods) + 1
<1>1. PICK periods : periods = b.periods
  OBVIOUS
<1>2. periods \in Seq([start : Int, end : Int, pay : Int]) /\ b.maturity \in Int
  BY <1>1 DEF BondFits
<1>3. Len(periods) \in Nat /\ DOMAIN periods = 1 .. Len(periods)
  BY <1>2
<1>4. \A i \in DOMAIN periods : periods[i].pay \in Int
  <2>. TAKE i \in DOMAIN periods
  <2>1. periods[i] \in [start : Int, end : Int, pay : Int]
    BY <1>2, ElementIn, Zenon
  <2>. QED
    BY <2>1
<1>5. CASE periods = <<>>
  <2>1. last_payment_date(b) = b.maturity /\ redemption_date(b) = b.maturity /\ last = 1
    BY <1>1, <1>5 DEF last_payment_date, redemption_date
  <2>. QED
    BY <1>2, <2>1
<1>6. CASE periods # <<>>
  <2> DEFINE pays == {p.pay : p \in Range(periods)}
  <2>1. \A i \in DOMAIN periods : periods[i].pay \in pays
    BY DEF Range
  <2>2. pays \subseteq Int /\ pays # {} /\ Len(periods) \in DOMAIN periods
    <3>1. pays \subseteq Int
      BY <1>4 DEF Range
    <3>2. Len(periods) \in DOMAIN periods
      BY <1>2, <1>3, <1>6
    <3>. QED
      BY <2>1, <3>1, <3>2
  <2>3. IsFiniteSet(pays)
    <3>1. IsFiniteSet(1 .. Len(periods))
      BY <1>3, FS_Interval
    <3>2. pays = {periods[i].pay : i \in 1 .. Len(periods)}
      BY <1>3 DEF Range
    <3> HIDE DEF pays
    <3>3. IsFiniteSet({periods[i].pay : i \in 1 .. Len(periods)})
      <4>2. \E f : f \in Surjection(1 .. Len(periods), {periods[i].pay : i \in 1 .. Len(periods)})
        <5> WITNESS [i \in 1 .. Len(periods) |-> periods[i].pay]
        <5>. QED
          BY DEF Surjection
      <4>. QED
        BY <3>1, <4>2, FS_Surjection
    <3>. QED
      BY <3>2, <3>3
  <2>4. last_payment_date(b) = Max(pays)
    BY <1>1, <1>6 DEF last_payment_date
  <2> HIDE DEF pays
  <2>5. last_payment_date(b) \in Int /\ \A p \in pays : p <= last_payment_date(b)
    <3>1. Max(pays) \in Int /\ \A p \in pays : Max(pays) >= p /\ p \in Int
      BY <2>2, <2>3, GreatestOf
    <3>. QED
      BY <2>4, <3>1
  <2>6. redemption_date(b) = periods[Len(periods)].pay
    BY <1>1, <1>6 DEF redemption_date
  <2>7. ASSUME NEW i \in 1 .. last
        PROVE  LET p == IF i = last THEN redemption_date(b) ELSE b.periods[i].pay IN p \in Int /\ p <= last_payment_date(b)
    <3>1. CASE i = last
      BY <1>4, <2>1, <2>2, <2>5, <2>6, <3>1
    <3>2. CASE i # last
      <4>1. i \in DOMAIN periods
        BY <1>1, <1>3, <3>2
      <4>. QED
        BY <1>1, <1>4, <2>1, <2>5, <3>2, <4>1
    <3>. QED
      BY <3>1, <3>2
  <2>. QED
    BY <2>5, <2>7
<1>. QED
  BY <1>5, <1>6

\* So is a bond.
LEMMA ThetaOfBond ==
  ASSUME NEW b, BondFits(b), dates \in DateGrids, THETA_DAYS = dates[1]
  PROVE  value_on(b, THETA_DAYS, backfilled_fixings) = legs_cube(bond_legs(b, 0), <<>>, <<1, 1>>, <<>>)[1]
<1> DEFINE last == Len(b.periods) + 1
           payments == [i \in 1 .. last |-> IF i = last THEN redemption_date(b) ELSE b.periods[i].pay]
           day == dates[1]
           fixed == bond_legs(b, 0)
           empty == [i \in {k \in Coupons(<<>>, <<1, 1>>[2]) : <<>>[k].pay > day} |-> RateOn(<<>>[i].fix, 1, <<>>)]
<1>1. 1 \in DOMAIN dates /\ day \in Nat \ {0}
  BY GridIs
<1>2. b.kind = "bond" /\ b.kind # "swap" /\ b.kind # "european" /\ b.kind \notin ExerciseKinds
  BY DEF BondFits, ExerciseKinds
<1>3. value_on(b, THETA_DAYS, backfilled_fixings) =
        IF THETA_DAYS >= last_payment_date(b) THEN Zero ELSE Value(DOMAIN bond_legs(b, THETA_DAYS), <<>>)
  BY <1>2, Zenon DEF value_on
<1>4. legs_cube(fixed, <<>>, <<1, 1>>, <<>>)[1] = Value({i \in Coupons(fixed, <<1, 1>>[1]) : fixed[i].pay > day}, empty)
  BY <1>1, Zenon DEF legs_cube
<1>5. empty = <<>>
  <2>1. Coupons(<<>>, <<1, 1>>[2]) = {}
    BY DEF Coupons
  <2>2. {k \in Coupons(<<>>, <<1, 1>>[2]) : <<>>[k].pay > day} = {}
    BY <2>1
  <2>. QED
    BY <2>2
<1>6. last_payment_date(b) \in Int /\ \A i \in 1 .. last : payments[i] \in Int /\ payments[i] <= last_payment_date(b)
  BY BondPays
<1>7. last \in Nat
  <2>1. b.periods \in Seq([start : Int, end : Int, pay : Int])
    BY DEF BondFits
  <2>. QED
    BY <2>1
<1>8. \A d : /\ DOMAIN bond_legs(b, d) = {k \in 1 .. last : payments[k] > d}
             /\ \A i \in DOMAIN bond_legs(b, d) : bond_legs(b, d)[i].pay = payments[i]
  BY DEF bond_legs
<1> HIDE DEF empty, last, payments, fixed
<1>9. {i \in Coupons(fixed, <<1, 1>>[1]) : fixed[i].pay > day} = {k \in 1 .. last : payments[k] > day}
  <2>1. Coupons(fixed, <<1, 1>>[1]) = {k \in 1 .. last : payments[k] > 0}
    <3>1. DOMAIN fixed = {k \in 1 .. last : payments[k] > 0}
      BY <1>8 DEF fixed
    <3>2. <<1, 1>>[1] = 1
      OBVIOUS
    <3>. QED
      BY <1>7, <3>1, <3>2 DEF Coupons
  <2>2. \A i \in {k \in 1 .. last : payments[k] > 0} : fixed[i].pay = payments[i]
    BY <1>8 DEF fixed
  <2>3. \A i \in 1 .. last : payments[i] > day => payments[i] > 0
    BY <1>1, <1>6
  <2>. QED
    BY <2>1, <2>2, <2>3
<1>10. legs_cube(fixed, <<>>, <<1, 1>>, <<>>)[1] = Value({k \in 1 .. last : payments[k] > day}, <<>>)
  BY <1>4, <1>5, <1>9
<1>11. CASE day >= last_payment_date(b)
  <2>2. \A i \in 1 .. last : ~ (payments[i] > day)
    <3>. QED
      BY <1>1, <1>6, <1>11
  <2>3. {k \in 1 .. last : payments[k] > day} = {}
    BY <2>2
  <2>. QED
    BY <1>3, <1>10, <1>11, <2>3 DEF Zero, fixed
<1>12. CASE ~ (day >= last_payment_date(b))
  BY <1>3, <1>8, <1>10, <1>12 DEF fixed
<1>. QED
  BY <1>11, <1>12

---------------------------------------------------------------------------
(* The exercise wrapper and the walk over the grid.                        *)

\* The exercise dates an option is priced with are in order, once they are after the as-of date.
LEMMA ContractDates ==
  ASSUME NEW t, TradeFits(t), t.kind \in Optional
  PROVE  /\ \E n \in Nat : DOMAIN contract_exercise_dates(t) = 1 .. n
         /\ \A i \in DOMAIN contract_exercise_dates(t) : contract_exercise_dates(t)[i] \in Int
         /\ \A i, k \in DOMAIN contract_exercise_dates(t) :
              i < k /\ 0 < contract_exercise_dates(t)[i] /\ 0 < contract_exercise_dates(t)[k]
                => contract_exercise_dates(t)[i] <= contract_exercise_dates(t)[k]
<1>1. PICK ex : ex = t.exercise
  OBVIOUS
<1>2. ex \in Seq(Int) /\ (t.kind \in ExerciseKinds => Sorted(ex)) /\ (t.kind = "european" => Len(ex) = 1)
  BY <1>1 DEF TradeFits
<1>3. DOMAIN ex = 1 .. Len(ex) /\ Len(ex) \in Nat
  BY <1>2
<1>4. \A i \in DOMAIN ex : ex[i] \in Int
  BY <1>2, ElementIn, Zenon
<1>5. CASE t.kind # "american"
  <2>1. contract_exercise_dates(t) = ex
    BY <1>1, <1>5 DEF contract_exercise_dates
  <2>2. \A i, k \in DOMAIN ex : i < k => ex[i] <= ex[k]
    <3>1. CASE t.kind = "european"
      <4>1. \A i \in DOMAIN ex : i = 1
        BY <1>2, <1>3, <3>1
      <4>. QED
        BY <4>1
    <3>2. CASE t.kind # "european"
      BY <1>2, <3>2 DEF Sorted, Optional
    <3>. QED
      BY <3>1, <3>2
  <2>. QED
    BY <1>3, <1>4, <2>1, <2>2
<1>6. CASE t.kind = "american"
  <2>1. Len(ex) = 2 /\ Sorted(ex)
    BY <1>1, <1>6 DEF TradeFits, ExerciseKinds
  <2>2. ex[1] \in Int /\ ex[2] \in Int /\ ex[1] <= ex[2]
    BY <1>3, <1>4, <2>1 DEF Sorted
  <2>3. PICK first : first = Max({1, ex[1]})
    OBVIOUS
  <2>4. first \in {1, ex[1]}
    BY <2>2, <2>3, GreaterOfTwo
  <2>5. contract_exercise_dates(t) = <<first, ex[2]>>
    BY <1>1, <1>6, <2>3, Zenon DEF contract_exercise_dates
  <2>6. PICK c : c = contract_exercise_dates(t)
    OBVIOUS
  <2>7. DOMAIN c = 1 .. 2 /\ c[1] = first /\ c[2] = ex[2]
    BY <2>5, <2>6
  <2>8. first \in Int /\ (0 < ex[2] => first <= ex[2])
    BY <2>2, <2>4
  <2>9. \A i \in DOMAIN c : c[i] \in Int
    BY <2>2, <2>7, <2>8
  <2>10. \A i, k \in DOMAIN c : i < k /\ 0 < c[i] /\ 0 < c[k] => c[i] <= c[k]
    BY <2>7, <2>8
  <2>11. \E n \in Nat : DOMAIN c = 1 .. n
    BY <2>7
  <2>. QED
    BY <2>6, <2>9, <2>10, <2>11
<1>. QED
  BY <1>5, <1>6

\* The grid date an exercise of the trade takes effect on, or 0.
Step(i) == effective_step(contract_exercise_dates(trade)[i])

\* The exercises the wrapper looks at that enter: the first of those that take effect on one date, if it
\* is in the money there.
Looks(i)  == Step(i) # 0 /\ \A k \in DOMAIN underlyings : k < i => Step(k) # Step(i)
Enters(i) == Looks(i) /\ InTheMoney(i, Step(i))

\* The option and the swaps it may enter, on a grid.
OptionOnGrid ==
  /\ dates \in DateGrids /\ TradeFits(trade) /\ trade.kind \in Optional
  /\ DOMAIN underlyings = DOMAIN contract_exercise_dates(trade)

\* Exercises take effect in their order.
LEMMA StepsGrow ==
  ASSUME OptionOnGrid
  PROVE  /\ \E n \in Nat : DOMAIN underlyings = 1 .. n
         /\ \A i \in DOMAIN underlyings : Step(i) \in 0 .. Len(dates) /\ contract_exercise_dates(trade)[i] \in Int
         /\ \A i, k \in DOMAIN underlyings : i < k /\ Step(i) # 0 /\ Step(k) # 0 => Step(i) <= Step(k)
<1>1. PICK c : c = contract_exercise_dates(trade)
  OBVIOUS
<1>2. /\ \E n \in Nat : DOMAIN c = 1 .. n
      /\ \A i \in DOMAIN c : c[i] \in Int
      /\ \A i, k \in DOMAIN c : i < k /\ 0 < c[i] /\ 0 < c[k] => c[i] <= c[k]
  BY <1>1, ContractDates DEF OptionOnGrid
<1>3. dates \in DateGrids /\ DOMAIN underlyings = DOMAIN c /\ \A i : Step(i) = effective_step(c[i])
  BY <1>1 DEF OptionOnGrid, Step
<1>4. \A i \in DOMAIN c : effective_step(c[i]) \in 0 .. Len(dates)
  BY <1>2, <1>3, StepIs
<1>5. ASSUME NEW i \in DOMAIN c, NEW k \in DOMAIN c, i < k, effective_step(c[i]) # 0, effective_step(c[k]) # 0
      PROVE  effective_step(c[i]) <= effective_step(c[k])
  <2>1. PICK si : si = effective_step(c[i])
    OBVIOUS
  <2>2. PICK sk : sk = effective_step(c[k])
    OBVIOUS
  <2>3. DOMAIN dates = 1 .. Len(dates) /\ \A j \in DOMAIN dates : dates[j] \in Nat \ {0}
    BY <1>3, GridIs
  <2>4. c[i] \in Int /\ c[k] \in Int /\ c[i] <= c[k] /\ si \in DOMAIN dates /\ sk \in DOMAIN dates
    <3>1. c[i] \in Int /\ c[k] \in Int
      BY <1>2
    <3>2. 0 < c[i] /\ 0 < c[k]
      BY <1>3, <1>5, <3>1, StepIs
    <3>3. c[i] <= c[k]
      BY <1>2, <1>5, <3>2
    <3>4. si \in 0 .. Len(dates) /\ sk \in 0 .. Len(dates) /\ si # 0 /\ sk # 0
      BY <1>4, <1>5, <2>1, <2>2
    <3>. QED
      BY <2>3, <3>1, <3>3, <3>4
  <2>5. c[i] <= dates[si] /\ c[i] > (IF si = 1 THEN 0 ELSE dates[si - 1])
    BY <1>3, <2>1, <2>4, StepIs
  <2>6. c[k] <= dates[sk] /\ c[k] > (IF sk = 1 THEN 0 ELSE dates[sk - 1])
    BY <1>3, <2>2, <2>4, StepIs
  <2>7. ASSUME sk < si PROVE FALSE
    <3>1. si # 1 /\ si - 1 \in DOMAIN dates /\ sk <= si - 1
      BY <2>3, <2>4, <2>7
    <3>2. dates[sk] <= dates[si - 1]
      BY <1>3, <2>4, <3>1, GridGrows
    <3>3. dates[sk] \in Int /\ dates[si - 1] \in Int
      BY <2>3, <2>4, <3>1
    <3>. QED
      BY <2>4, <2>5, <2>6, <3>1, <3>2, <3>3
  <2>8. si \in Int /\ sk \in Int
    BY <2>3, <2>4
  <2>. QED
    BY <2>1, <2>2, <2>7, <2>8
<1>. QED
  BY <1>1, <1>2, <1>3, <1>4, <1>5

\* The exercises due since the date before are those that take effect on the date.
Due(j) ==
  {i \in DOMAIN underlyings : /\ contract_exercise_dates(trade)[i] > (IF j = 1 THEN 0 ELSE dates[j - 1])
                              /\ contract_exercise_dates(trade)[i] <= dates[j]}

\* The exercises since the date before are those that take effect on the date.
LEMMA DueIs ==
  ASSUME OptionOnGrid, NEW j \in DOMAIN dates
  PROVE  Due(j) = {i \in DOMAIN underlyings : Step(i) = j}
<1>1. dates \in DateGrids
  BY DEF OptionOnGrid
<1>2. ASSUME NEW i \in DOMAIN underlyings
      PROVE  i \in Due(j) <=> Step(i) = j
  <2>1. PICK e : e = contract_exercise_dates(trade)[i]
    OBVIOUS
  <2>2. e \in Int
    BY <2>1, StepsGrow
  <2>3. effective_step(e) = j <=> e <= dates[j] /\ e > (IF j = 1 THEN 0 ELSE dates[j - 1])
    BY <1>1, <2>2, StepIs
  <2>. QED
    BY <2>1, <2>3 DEF Due, Step
<1>3. Due(j) \subseteq DOMAIN underlyings
  BY DEF Due
<1>. QED
  BY <1>2, <1>3

\* The first exercise due is one the wrapper looks at; one it looks at is the first due on its date.
LEMMA FirstDue ==
  ASSUME OptionOnGrid, NEW j \in DOMAIN dates, Due(j) # {}
  PROVE  /\ Min(Due(j)) \in DOMAIN underlyings /\ Step(Min(Due(j))) = j /\ Looks(Min(Due(j)))
         /\ \A e \in DOMAIN underlyings : Step(e) = j /\ Looks(e) => e = Min(Due(j))
<1>1. Due(j) = {i \in DOMAIN underlyings : Step(i) = j}
  BY DueIs
<1>2. PICK n \in Nat : DOMAIN underlyings = 1 .. n
  BY StepsGrow
<1>3. Due(j) \subseteq Nat
  BY <1>1, <1>2
<1>4. PICK m \in Due(j) : \A i \in Due(j) : m <= i
  BY <1>3, SmallestIn
<1>5. Min(Due(j)) \in Due(j) /\ \A i \in Due(j) : Min(Due(j)) <= i
  BY <1>3, <1>4 DEF Min
<1>6. PICK first : first = Min(Due(j))
  OBVIOUS
<1>7. first \in DOMAIN underlyings /\ Step(first) = j /\ first \in Nat
  BY <1>1, <1>3, <1>5, <1>6
<1>8. \A i \in DOMAIN underlyings : Step(i) = j => first <= i /\ i \in Nat
  BY <1>1, <1>2, <1>5, <1>6
<1>9. j # 0
  <2>1. \A k \in DOMAIN dates : k \in Nat \ {0}
    BY GridIs DEF OptionOnGrid
  <2>. QED
    BY <2>1
<1>10. Looks(first)
  BY <1>7, <1>8, <1>9 DEF Looks
<1>11. ASSUME NEW e \in DOMAIN underlyings, Step(e) = j, Looks(e) PROVE e = first
  <2>1. ~ (first < e)
    BY <1>7, <1>11 DEF Looks
  <2>2. first <= e /\ e \in Nat
    BY <1>8, <1>11
  <2>. QED
    BY <1>7, <2>1, <2>2
<1>. QED
  BY <1>6, <1>7, <1>10, <1>11

\* One look of the walk.
Entered(into, j) ==
  IF j = 0 THEN 0
  ELSE IF into[j - 1] # 0 THEN into[j - 1]
  ELSE IF Due(j) # {} /\ InTheMoney(Min(Due(j)), j) THEN Min(Due(j)) ELSE 0

\* A function that solves the walk's equations makes the walk one too.
LEMMA IntoIs ==
  ASSUME NEW walked, walked = [j \in 0 .. Len(dates) |-> Entered(walked, j)]
  PROVE  ExercisedInto = [j \in 0 .. Len(dates) |-> Entered(ExercisedInto, j)]
BY Zenon DEF ExercisedInto, Entered, Due

\* The walk enters the first exercise that enters, on the date it takes effect.
FirstEntered(e) == e \in DOMAIN underlyings /\ Enters(e) /\ \A k \in DOMAIN underlyings : k < e => ~ Enters(k)

\* One date of the walk: nothing is entered before the first exercise that enters, and that one after.
LEMMA WalkStep ==
  ASSUME OptionOnGrid, NEW e, NEW s,
         \/ e = 0 /\ s = Len(dates) + 1 /\ \A k \in DOMAIN underlyings : ~ Enters(k)
         \/ FirstEntered(e) /\ s = Step(e),
         NEW into, NEW j \in 0 .. Len(dates), j # 0 => into[j - 1] = IF j - 1 < s THEN 0 ELSE e
  PROVE  Entered(into, j) = IF j < s THEN 0 ELSE e
<1>1. DOMAIN dates = 1 .. Len(dates) /\ Len(dates) \in Nat \ {0}
  BY GridIs DEF OptionOnGrid
<1>2. PICK n \in Nat : DOMAIN underlyings = 1 .. n
  BY StepsGrow
<1>3. s \in 1 .. Len(dates) + 1 /\ (s \in 1 .. Len(dates) => e \in DOMAIN underlyings /\ e # 0)
  <2>1. CASE e = 0 /\ s = Len(dates) + 1
    BY <1>1, <2>1
  <2>2. CASE FirstEntered(e) /\ s = Step(e)
    <3>1. s \in 0 .. Len(dates) /\ s # 0 /\ e \in DOMAIN underlyings
      BY <2>2, StepsGrow DEF FirstEntered, Enters, Looks
    <3>. QED
      BY <1>1, <1>2, <3>1
  <2>. QED
    BY <2>1, <2>2
<1>4. CASE j = 0
  <2>1. 0 < s
    BY <1>1, <1>3
  <2>. QED
    BY <1>4, <2>1 DEF Entered
<1>5. CASE j # 0
  <2>1. j \in DOMAIN dates /\ j \in Nat
    BY <1>1, <1>5
  <2>2. CASE j < s
    <3>1. j - 1 < s
      BY <1>1, <1>3, <2>1, <2>2
    <3>2. into[j - 1] = 0
      BY <1>5, <3>1
    <3>3. ASSUME Due(j) # {}, InTheMoney(Min(Due(j)), j) PROVE FALSE
      <4>1. PICK m : m = Min(Due(j))
        OBVIOUS
      <4>2. m \in DOMAIN underlyings /\ Step(m) = j /\ Looks(m)
        BY <2>1, <3>3, <4>1, FirstDue
      <4>3. Enters(m)
        BY <3>3, <4>1, <4>2 DEF Enters
      <4>4. FirstEntered(e) /\ s = Step(e)
        BY <4>2, <4>3
      <4>5. ~ (m < e) /\ m # e
        <5>1. ~ (m < e)
          BY <4>2, <4>3, <4>4 DEF FirstEntered
        <5>2. m # e
          BY <1>3, <2>1, <2>2, <4>2, <4>4
        <5>. QED
          BY <5>1, <5>2
      <4>6. e \in DOMAIN underlyings /\ Step(e) # 0
        BY <4>4 DEF FirstEntered, Enters, Looks
      <4>7. e < m
        BY <1>2, <4>2, <4>5, <4>6
      <4>8. Step(e) <= Step(m)
        BY <1>5, <4>2, <4>6, <4>7, StepsGrow
      <4>. QED
        BY <1>3, <2>1, <2>2, <4>2, <4>4, <4>8
    <3>4. Entered(into, j) = 0
      BY <1>5, <3>2, <3>3 DEF Entered
    <3>. QED
      BY <2>2, <3>4
  <2>3. CASE j = s
    <3>1. FirstEntered(e) /\ s = Step(e)
      BY <1>1, <2>1, <2>3
    <3>2. e \in DOMAIN underlyings /\ Looks(e) /\ InTheMoney(e, s)
      BY <3>1 DEF FirstEntered, Enters
    <3>3. Due(j) # {}
      <4>1. e \in {i \in DOMAIN underlyings : Step(i) = j}
        BY <2>3, <3>1, <3>2
      <4>. QED
        BY <2>1, <4>1, DueIs
    <3>4. Min(Due(j)) = e
      BY <2>1, <2>3, <3>1, <3>2, <3>3, FirstDue
    <3>5. j - 1 < s /\ ~ (j < s)
      BY <1>1, <1>3, <2>3
    <3>6. into[j - 1] = 0
      BY <1>5, <3>5
    <3>. QED
      BY <1>5, <2>3, <3>2, <3>3, <3>4, <3>5, <3>6 DEF Entered
  <2>4. CASE j > s
    <3>1. ~ (j < s) /\ ~ (j - 1 < s) /\ s \in 1 .. Len(dates)
      BY <1>1, <1>3, <2>1, <2>4
    <3>2. into[j - 1] = e /\ e # 0
      BY <1>3, <1>5, <3>1
    <3>. QED
      BY <1>5, <3>1, <3>2 DEF Entered
  <2>. QED
    BY <1>1, <1>3, <2>1, <2>2, <2>3, <2>4
<1>. QED
  BY <1>4, <1>5

\* So for the whole walk: a first date where it were otherwise would be one WalkStep forbids.
LEMMA WalkOf ==
  ASSUME OptionOnGrid, NEW e, NEW s,
         \/ e = 0 /\ s = Len(dates) + 1 /\ \A k \in DOMAIN underlyings : ~ Enters(k)
         \/ FirstEntered(e) /\ s = Step(e)
  PROVE  \A j \in 0 .. Len(dates) : ExercisedInto[j] = IF j < s THEN 0 ELSE e
<1> DEFINE walked == [j \in 0 .. Len(dates) |-> IF j < s THEN 0 ELSE e]
           wrong == {j \in 0 .. Len(dates) : ExercisedInto[j] # IF j < s THEN 0 ELSE e}
<1>1. Len(dates) \in Nat
  BY GridIs DEF OptionOnGrid
<1>2. \A j \in 0 .. Len(dates) : Entered(walked, j) = walked[j]
  <2>. TAKE j \in 0 .. Len(dates)
  <2>1. j # 0 => j - 1 \in 0 .. Len(dates)
    BY <1>1
  <2>2. j # 0 => walked[j - 1] = IF j - 1 < s THEN 0 ELSE e
    BY <2>1
  <2>3. walked[j] = IF j < s THEN 0 ELSE e
    OBVIOUS
  <2> HIDE DEF walked
  <2>4. Entered(walked, j) = IF j < s THEN 0 ELSE e
    BY <2>2, WalkStep
  <2>. QED
    BY <2>3, <2>4
<1>3. walked = [j \in 0 .. Len(dates) |-> Entered(walked, j)]
  <2>1. walked = [j \in 0 .. Len(dates) |-> walked[j]]
    OBVIOUS
  <2> HIDE DEF walked
  <2>. QED
    BY <1>2, <2>1
<1>4. ExercisedInto = [j \in 0 .. Len(dates) |-> Entered(ExercisedInto, j)]
  <2> HIDE DEF walked
  <2>. QED
    BY <1>3, IntoIs
<1>5. PICK into : into = ExercisedInto
  OBVIOUS
<1>6. \A j \in 0 .. Len(dates) : into[j] = Entered(into, j)
  BY <1>4, <1>5
<1>7. SUFFICES ASSUME wrong # {} PROVE FALSE
  OBVIOUS
<1>8. PICK j \in wrong : \A k \in wrong : j <= k
  <2>1. wrong \subseteq Nat
    BY <1>1
  <2> HIDE DEF wrong
  <2>. QED
    BY <1>7, <2>1, SmallestIn
<1>9. j \in 0 .. Len(dates) /\ into[j] # IF j < s THEN 0 ELSE e
  BY <1>5, <1>8
<1>10. j # 0 => into[j - 1] = IF j - 1 < s THEN 0 ELSE e
  <2>1. SUFFICES ASSUME j # 0 PROVE into[j - 1] = IF j - 1 < s THEN 0 ELSE e
    OBVIOUS
  <2>2. j - 1 \in 0 .. Len(dates) /\ ~ (j <= j - 1)
    BY <1>1, <1>9, <2>1
  <2>3. j - 1 \notin wrong
    BY <1>8, <2>2
  <2>. QED
    BY <1>5, <2>2, <2>3
<1> HIDE DEF wrong, walked
<1>11. Entered(into, j) = IF j < s THEN 0 ELSE e
  BY <1>9, <1>10, WalkStep
<1>. QED
  BY <1>6, <1>9, <1>11

---------------------------------------------------------------------------
(* The trade's invariant.                                                  *)

HandFits ==
  /\ dates \in DateGrids
  /\ IF trade.kind = "bond" THEN BondFits(trade)
     ELSE TradeFits(trade)

ThetaFits == thetaValue = value_on(trade, THETA_DAYS, backfilled_fixings)

Unwrapped == underlyings = <<>> /\ wrapping = [next |-> 1, seen |-> {}]

\* The option's column pays its rates, and the Theta date's value rolls from its first date.
OptionFits ==
  /\ trade.kind \in Optional
  /\ option = [j \in DOMAIN dates |-> option[j]]
  /\ PaysRates(floatingLeg(trade), option, OwnDays(trade))
  /\ dates[1] = THETA_DAYS => Rolls(trade, thetaValue, option[1])

\* So does every swap it may enter.
UnderlyingsFit ==
  /\ DOMAIN underlyings = DOMAIN contract_exercise_dates(trade)
  /\ \A i \in DOMAIN underlyings : PaysRates(floatingLeg(trade), underlyings[i], OwnDays(trade))
  /\ \A i \in DOMAIN underlyings : DOMAIN underlyings[i] = DOMAIN dates

\* The column of a trade that is no option.
PlainFits ==
  /\ trade.kind \notin Optional /\ option = <<>> /\ underlyings = <<>>
  /\ trade.kind # "bond" => PaysRates(floatingLeg(trade), column, OwnDays(trade))
  /\ dates[1] = THETA_DAYS => Rolls(trade, thetaValue, column[1])

\* A path that has entered an exercise on a date, if it is the first of those looked at that enters.
EnteredBy(next, e, s) ==
  \/ e = 0 /\ s = Len(dates) + 1 /\ \A k \in DOMAIN underlyings : k < next => ~ Enters(k)
  \/ FirstEntered(e) /\ e < next /\ s = Step(e)

\* The column of that path.
MixedColumn(e, s) ==
  [j \in DOMAIN dates |->
     IF j >= s THEN (IF trade.physical THEN underlyings[e][j] ELSE Zero) ELSE option[j]]

\* How far the wrapper has come: the steps it has seen, and the first exercise that entered.
WrapAs(next, seen, states, mixed) ==
  /\ next \in Nat \ {0}
  /\ seen = {Step(k) : k \in {i \in DOMAIN underlyings : i < next}} \ {0}
  /\ states \in [DOMAIN dates -> BOOLEAN]
  /\ \E e, s : /\ EnteredBy(next, e, s) /\ mixed = MixedColumn(e, s)
               /\ \A j \in DOMAIN dates : states[j] <=> j >= s

WrapFits == WrapAs(wrapping.next, wrapping.seen, exercised, column)

TradeInv ==
  /\ valuing \in {"unbooked", "refused", "booked", "valued", "bumped", "option", "wrapping", "wrapped", "unpriced"}
  /\ valuing \in {"unbooked", "booked", "valued", "bumped"} => option = <<>> /\ Unwrapped
  /\ valuing \in {"booked", "valued", "bumped", "option", "wrapping", "wrapped"} => HandFits
  /\ valuing = "bumped" => ThetaFits
  /\ valuing \in {"option", "wrapping"} => OptionFits
  /\ valuing = "option" => column = option /\ Unwrapped
  /\ valuing = "wrapping" => UnderlyingsFit /\ WrapFits
  /\ valuing = "wrapped" =>
       PlainFits \/ (OptionFits /\ UnderlyingsFit /\ WrapFits /\ wrapping.next \notin DOMAIN underlyings)

\* The rates a column pays are no other while the trade and its dates are the same.
LEMMA RatesKept ==
  ASSUME trade' = trade, dates' = dates
  PROVE  \A cube : PaysRates(floatingLeg(trade), cube, OwnDays(trade))' <=> PaysRates(floatingLeg(trade), cube, OwnDays(trade))
<1>1. PICK leg, own : leg = floatingLeg(trade) /\ own = OwnDays(trade)
  OBVIOUS
<1>2. \A rate, fix, j : RateFits(rate, fix, j, own)' <=> RateFits(rate, fix, j, own)
  BY DEF RateFits, RateAt, fixing_step
<1>3. \A cube : PaysRates(leg, cube, own)' <=> PaysRates(leg, cube, own)
  BY <1>2 DEF PaysRates
<1>. QED
  BY <1>1, <1>3

\* What does not change keeps its part.
LEMMA PartsKept ==
  ASSUME trade' = trade, dates' = dates
  PROVE  /\ HandFits => HandFits'
         /\ thetaValue' = thetaValue /\ ThetaFits => ThetaFits'
         /\ thetaValue' = thetaValue /\ option' = option /\ OptionFits => OptionFits'
         /\ underlyings' = underlyings /\ UnderlyingsFit => UnderlyingsFit'
         /\ underlyings' = underlyings /\ wrapping' = wrapping /\ Unwrapped => Unwrapped'
         /\ thetaValue' = thetaValue /\ option' = option /\ underlyings' = underlyings /\ column' = column
              /\ PlainFits => PlainFits'
<1>1. \A cube : PaysRates(floatingLeg(trade), cube, OwnDays(trade))' <=> PaysRates(floatingLeg(trade), cube, OwnDays(trade))
  BY RatesKept
<1>8. \A theta, path : Rolls(trade, theta, path)' <=> Rolls(trade, theta, path)
  BY DEF Rolls
<1>2. HandFits => HandFits'
  BY DEF HandFits
<1>3. thetaValue' = thetaValue /\ ThetaFits => ThetaFits'
  BY DEF ThetaFits
<1>4. ASSUME thetaValue' = thetaValue, option' = option, OptionFits PROVE OptionFits'
  <2>1. PaysRates(floatingLeg(trade), option, OwnDays(trade))'
    BY <1>1, <1>4 DEF OptionFits
  <2>2. (dates[1] = THETA_DAYS => Rolls(trade, thetaValue, option[1]))'
    BY <1>4, <1>8 DEF OptionFits
  <2>. QED
    BY <1>4, <2>1, <2>2 DEF OptionFits
<1>5. ASSUME underlyings' = underlyings, UnderlyingsFit PROVE UnderlyingsFit'
  <2>1. \A i \in DOMAIN underlyings : PaysRates(floatingLeg(trade), underlyings[i], OwnDays(trade))'
    BY <1>1, <1>5 DEF UnderlyingsFit
  <2>. QED
    BY <1>5, <2>1 DEF UnderlyingsFit
<1>6. underlyings' = underlyings /\ wrapping' = wrapping /\ Unwrapped => Unwrapped'
  BY DEF Unwrapped
<1>7. ASSUME thetaValue' = thetaValue, option' = option, underlyings' = underlyings, column' = column, PlainFits PROVE PlainFits'
  <2>1. (trade.kind # "bond" => PaysRates(floatingLeg(trade), column, OwnDays(trade)))'
    BY <1>1, <1>7 DEF PlainFits
  <2>2. (dates[1] = THETA_DAYS => Rolls(trade, thetaValue, column[1]))'
    BY <1>7, <1>8 DEF PlainFits
  <2>. QED
    BY <1>7, <2>1, <2>2 DEF PlainFits
<1>. QED
  BY <1>2, <1>3, <1>4, <1>5, <1>6, <1>7

\* How far the wrapper has come depends on nothing that changes while it wraps.
LEMMA WrapKept ==
  ASSUME trade' = trade, dates' = dates, moneyness' = moneyness, underlyings' = underlyings, option' = option,
         WrapAs(wrapping'.next, wrapping'.seen, exercised', column')
  PROVE  WrapFits'
<1>1. \A i : Step(i)' = Step(i)
  BY DEF Step, effective_step
<1>2. \A i, s : InTheMoney(i, s)' <=> InTheMoney(i, s)
  BY DEF InTheMoney
<1>3. \A i : Enters(i)' <=> Enters(i)
  BY <1>1, <1>2 DEF Enters, Looks
<1>4. \A next, e, s : EnteredBy(next, e, s)' <=> EnteredBy(next, e, s)
  BY <1>1, <1>3 DEF EnteredBy, FirstEntered
<1>5. \A e, s : MixedColumn(e, s)' = MixedColumn(e, s)
  BY DEF MixedColumn
<1>. QED
  BY <1>1, <1>4, <1>5 DEF WrapFits, WrapAs

\* The wrapper begins with the option's own column.
LEMMA WrapBegins ==
  ASSUME OptionOnGrid, option = [j \in DOMAIN dates |-> option[j]], NEW states, states = [j \in DOMAIN dates |-> FALSE]
  PROVE  WrapAs(1, {}, states, option)
<1>1. DOMAIN dates = 1 .. Len(dates) /\ Len(dates) \in Nat
  BY GridIs DEF OptionOnGrid
<1>2. PICK n \in Nat : DOMAIN underlyings = 1 .. n
  BY StepsGrow
<1>3. {i \in DOMAIN underlyings : i < 1} = {}
  BY <1>2
<1>4. {Step(k) : k \in {i \in DOMAIN underlyings : i < 1}} \ {0} = {}
  BY <1>3
<1>5. EnteredBy(1, 0, Len(dates) + 1)
  BY <1>2 DEF EnteredBy
<1>6. \A j \in DOMAIN dates : ~ (j >= Len(dates) + 1)
  BY <1>1
<1>7. states \in [DOMAIN dates -> BOOLEAN] /\ \A j \in DOMAIN dates : ~ states[j]
  OBVIOUS
<1>8. option = MixedColumn(0, Len(dates) + 1)
  <2>1. MixedColumn(0, Len(dates) + 1) = [j \in DOMAIN dates |-> option[j]]
    BY <1>6 DEF MixedColumn
  <2>. QED
    BY <2>1
<1>9. \A j \in DOMAIN dates : states[j] <=> j >= Len(dates) + 1
  BY <1>6, <1>7
<1>. QED
  BY <1>4, <1>5, <1>7, <1>8, <1>9 DEF WrapAs

\* One exercise of the wrapper's loop.
LEMMA WrapSteps ==
  ASSUME OptionOnGrid, WrapFits, WrapExercise
  PROVE  WrapAs(wrapping'.next, wrapping'.seen, exercised', column')
<1> DEFINE i == wrapping.next
           seen == wrapping.seen
           step == effective_step(contract_exercise_dates(trade)[i])
           looks == step \notin seen \cup {0}
           exercises == looks /\ (\A j \in DOMAIN dates : ~exercised[j]) /\ InTheMoney(i, step)
           after(j) == exercises /\ j >= step
           worth(j) == IF trade.physical THEN underlyings[i][j] ELSE Zero
<1>1. /\ i \in DOMAIN underlyings
      /\ column' = [j \in DOMAIN dates |-> IF after(j) THEN worth(j) ELSE column[j]]
      /\ exercised' = [j \in DOMAIN dates |-> exercised[j] \/ after(j)]
      /\ wrapping' = [next |-> i + 1, seen |-> IF looks THEN seen \cup {step} ELSE seen]
  BY Zenon DEF WrapExercise
<1>2. /\ i \in Nat \ {0}
      /\ seen = {Step(k) : k \in {m \in DOMAIN underlyings : m < i}} \ {0}
  BY DEF WrapFits, WrapAs
<1>3. PICK e, s : /\ EnteredBy(i, e, s) /\ column = MixedColumn(e, s)
                  /\ \A j \in DOMAIN dates : exercised[j] <=> j >= s
  BY DEF WrapFits, WrapAs
<1>11. exercised \in [DOMAIN dates -> BOOLEAN]
  BY DEF WrapFits, WrapAs
<1>4. step = Step(i)
  BY DEF Step
<1>5. DOMAIN dates = 1 .. Len(dates) /\ Len(dates) \in Nat \ {0}
  BY GridIs DEF OptionOnGrid
<1>6. PICK n \in Nat : DOMAIN underlyings = 1 .. n
  BY StepsGrow
<1> HIDE DEF i, seen, step, worth
<1>7. looks <=> Looks(i)
  <2>1. step \in seen <=> (step # 0 /\ \E k \in DOMAIN underlyings : k < i /\ Step(k) = step)
    BY <1>2
  <2>. QED
    BY <1>4, <2>1 DEF Looks
<1> HIDE DEF looks
<1>8. /\ wrapping'.next = i + 1 /\ i + 1 \in Nat \ {0}
      /\ wrapping'.seen = {Step(k) : k \in {m \in DOMAIN underlyings : m < i + 1}} \ {0}
  <2> DEFINE new == IF looks THEN seen \cup {step} ELSE seen
  <2>1. wrapping'.next = i + 1 /\ wrapping'.seen = new
    BY <1>1
  <2>2. {m \in DOMAIN underlyings : m < i + 1} = {m \in DOMAIN underlyings : m < i} \cup {i}
    BY <1>1, <1>2, <1>6
  <2>3. looks <=> step # 0 /\ step \notin seen
    BY DEF looks
  <2>4. {Step(k) : k \in {m \in DOMAIN underlyings : m < i + 1}} = {Step(k) : k \in {m \in DOMAIN underlyings : m < i}} \cup {step}
    BY <1>4, <2>2
  <2>5. {Step(k) : k \in {m \in DOMAIN underlyings : m < i + 1}} \ {0} = seen \cup ({step} \ {0})
    BY <1>2, <2>4
  <2>6. new = seen \cup ({step} \ {0})
    <3>1. CASE looks
      BY <2>3, <3>1
    <3>2. CASE ~ looks
      BY <2>3, <3>2
    <3>. QED
      BY <3>1, <3>2
  <2>. QED
    BY <1>2, <2>1, <2>5, <2>6
<1>12. exercised' \in [DOMAIN dates -> BOOLEAN] /\ \A j \in DOMAIN dates : exercised'[j] <=> exercised[j] \/ after(j)
  <2>1. \A j \in DOMAIN dates : (exercised[j] \/ after(j)) \in BOOLEAN
    OBVIOUS
  <2> HIDE DEF after
  <2>. QED
    BY <1>1, <2>1
<1>9. CASE FirstEntered(e) /\ e < i /\ s = Step(e)
  <2>1. s \in DOMAIN dates
    <3>1. s \in 0 .. Len(dates) /\ s # 0
      BY <1>9, StepsGrow DEF FirstEntered, Enters, Looks
    <3>. QED
      BY <1>5, <3>1
  <2>2. exercised[s]
    BY <1>3, <1>5, <2>1
  <2>3. ~ exercises
    BY <2>1, <2>2
  <2> HIDE DEF exercises
  <2>4. (\A j \in DOMAIN dates : exercised'[j] <=> j >= s) /\ column' = column
    <3>1. \A j \in DOMAIN dates : exercised'[j] <=> exercised[j]
      BY <1>12, <2>3
    <3>2. \A j \in DOMAIN dates : exercised'[j] <=> j >= s
      BY <1>3, <3>1
    <3>3. column' = [j \in DOMAIN dates |-> column[j]]
      BY <1>1, <2>3
    <3>4. column' = column
      BY <1>3, <3>3 DEF MixedColumn
    <3>. QED
      BY <3>2, <3>4
  <2>5. EnteredBy(i + 1, e, s)
    <3>1. e \in Nat /\ e < i + 1
      <4>1. e \in DOMAIN underlyings
        BY <1>9 DEF FirstEntered
      <4>. QED
        BY <1>2, <1>6, <1>9, <4>1
    <3>. QED
      BY <1>9, <3>1 DEF EnteredBy
  <2>. QED
    BY <1>3, <1>8, <1>12, <2>4, <2>5 DEF WrapAs
<1>10. CASE e = 0 /\ s = Len(dates) + 1 /\ \A k \in DOMAIN underlyings : k < i => ~ Enters(k)
  <2>1. \A j \in DOMAIN dates : ~ (j >= s) /\ ~ exercised[j]
    BY <1>3, <1>5, <1>10
  <2>2. exercises <=> Enters(i)
    BY <1>4, <1>7, <2>1 DEF Enters
  <2>3. \A j \in DOMAIN dates : column[j] = option[j]
    BY <1>3, <2>1 DEF MixedColumn
  <2> HIDE DEF exercises
  <2>4. CASE Enters(i)
    <3>1. \A j \in DOMAIN dates : exercised'[j] <=> j >= step
      BY <1>12, <2>1, <2>2, <2>4
    <3>2. column' = MixedColumn(i, step)
      <4>1. column' = [j \in DOMAIN dates |-> IF j >= step THEN worth(j) ELSE option[j]]
        BY <1>1, <2>2, <2>3, <2>4
      <4>. QED
        BY <4>1 DEF MixedColumn, worth
    <3>3. EnteredBy(i + 1, i, step)
      <4>1. FirstEntered(i) /\ i < i + 1
        BY <1>1, <1>2, <1>10, <2>4 DEF FirstEntered
      <4>. QED
        BY <1>4, <4>1 DEF EnteredBy
    <3>. QED
      BY <1>8, <1>12, <3>1, <3>2, <3>3 DEF WrapAs
  <2>5. CASE ~ Enters(i)
    <3>1. \A j \in DOMAIN dates : exercised'[j] <=> exercised[j]
      BY <1>12, <2>2, <2>5
    <3>2. \A j \in DOMAIN dates : exercised'[j] <=> j >= s
      BY <1>3, <3>1
    <3>3. column' = [j \in DOMAIN dates |-> column[j]]
      BY <1>1, <2>2, <2>5
    <3>4. column' = column
      BY <1>3, <3>3 DEF MixedColumn
    <3>5. EnteredBy(i + 1, e, s)
      <4>1. \A k \in DOMAIN underlyings : k < i + 1 => k < i \/ k = i
        BY <1>2, <1>6
      <4>. QED
        BY <1>10, <2>5, <4>1 DEF EnteredBy
    <3>. QED
      BY <1>3, <1>8, <1>12, <3>2, <3>4, <3>5 DEF WrapAs
  <2>. QED
    BY <2>4, <2>5
<1>. QED
  BY <1>3, <1>9, <1>10 DEF EnteredBy

\* Booking takes a trade of the fields it is priced by, or refuses it.
LEMMA BookKeeps ==
  ASSUME TradeInv, Book
  PROVE  TradeInv'
<1>1. valuing = "unbooked" /\ option = <<>> /\ Unwrapped
  BY DEF TradeInv, Book
<1>2. UNCHANGED <<todayValue, thetaValue, option, underlyings, column, exercised, wrapping>>
  BY DEF Book
<1>3. option' = <<>> /\ Unwrapped'
  BY <1>1, <1>2 DEF Unwrapped
<1>4. PICK b \in Bookings, grid \in DateGrids :
        \/ Booked(b) /\ trade' = (IF b.kind = "bond" THEN b ELSE Resolved(b)) /\ dates' = grid /\ valuing' = "booked"
        \/ valuing' = "refused"
  BY Zenon DEF Book
<1>5. CASE valuing' = "refused"
  BY <1>5 DEF TradeInv
<1>6. CASE Booked(b) /\ trade' = (IF b.kind = "bond" THEN b ELSE Resolved(b)) /\ dates' = grid /\ valuing' = "booked"
  <2>1. CASE b.kind = "bond"
    <3>1. trade' = b /\ dates' \in DateGrids
      BY <1>6, <2>1
    <3>2. BondFits(b)
      <4>1. b \notin SwapBookings
        BY <2>1 DEF SwapBookings
      <4>2. b \in BondBookings
        BY <4>1, BookingsAssumption
      <4>. QED
        BY <4>2 DEF BondBookings, BondFits
    <3>3. HandFits'
      BY <2>1, <3>1, <3>2 DEF HandFits
    <3>. QED
      BY <1>3, <1>6, <3>3 DEF TradeInv
  <2>2. CASE b.kind # "bond"
    <3>1. trade' = Resolved(b) /\ dates' = grid
      BY <1>6, <2>2
    <3>2. TradeFits(Resolved(b)) /\ Resolved(b).history = b.history /\ Resolved(b).kind = b.kind
      BY <1>6, <2>2, ResolvedFits
    <3>4. HandFits'
      BY <2>2, <3>1, <3>2 DEF HandFits
    <3>. QED
      BY <1>3, <1>6, <3>4 DEF TradeInv
  <2>. QED
    BY <2>1, <2>2
<1>. QED
  BY <1>4, <1>5, <1>6

LEMMA TodayValueKeeps ==
  ASSUME TradeInv, ValueToday
  PROVE  TradeInv'
<1>1. /\ valuing = "booked" /\ valuing' = "valued"
      /\ UNCHANGED <<trade, dates, moneyness, thetaValue, option, underlyings, column, exercised, wrapping>>
  BY DEF ValueToday
<1>2. option = <<>> /\ Unwrapped /\ HandFits
  BY <1>1 DEF TradeInv
<1>3. option' = <<>> /\ Unwrapped' /\ HandFits'
  BY <1>1, <1>2, PartsKept
<1>. QED
  BY <1>1, <1>3 DEF TradeInv

LEMMA ThetaKeeps ==
  ASSUME TradeInv, ValueTheta
  PROVE  TradeInv'
<1>1. /\ valuing = "valued" /\ valuing' = "bumped" /\ thetaValue' = value_on(trade, THETA_DAYS, backfilled_fixings)
      /\ UNCHANGED <<trade, dates, moneyness, todayValue, option, underlyings, column, exercised, wrapping>>
  BY DEF ValueTheta
<1>2. option = <<>> /\ Unwrapped /\ HandFits
  BY <1>1 DEF TradeInv
<1>3. option' = <<>> /\ Unwrapped' /\ HandFits'
  BY <1>1, <1>2, PartsKept
<1>4. ThetaFits'
  BY <1>1 DEF ThetaFits
<1>. QED
  BY <1>1, <1>3, <1>4 DEF TradeInv

\* The option's column, without an error, pays its rates and the Theta date's value rolls from its first date.
LEMMA OptionPays ==
  ASSUME HandFits, ThetaFits, trade.kind \in Optional, NEW cube, \A j \in DOMAIN cube : cube[j].error = "none",
         \/ trade.kind \in ExerciseKinds /\ cube = bermudan_cube(trade)
         \/ trade.kind = "european" /\ is_expired(trade, 0) /\ cube = [j \in DOMAIN dates |-> Zero]
         \/ /\ trade.kind = "european" /\ ~ is_expired(trade, 0)
            /\ cube = IF TermsMissHistory(trade) THEN <<Failed("MissingFixing")>> ELSE european_cube(trade)
  PROVE  /\ cube = [j \in DOMAIN dates |-> cube[j]]
         /\ PaysRates(floatingLeg(trade), cube, OwnDays(trade))
         /\ dates[1] = THETA_DAYS => Rolls(trade, thetaValue, cube[1])
<1>1. dates \in DateGrids /\ TradeFits(trade)
  BY DEF HandFits, Optional, ExerciseKinds
<1>2. thetaValue = value_on(trade, THETA_DAYS, backfilled_fixings)
  BY DEF ThetaFits
<1>3. 1 \in DOMAIN dates /\ dates[1] \in Nat \ {0}
  BY <1>1, GridIs
<1>4. CASE trade.kind \in ExerciseKinds /\ cube = bermudan_cube(trade)
  <2>2. cube = [j \in DOMAIN dates |-> cube[j]]
    BY <1>4 DEF bermudan_cube
  <2>3. DOMAIN cube = DOMAIN dates
    BY <2>2
  <2>4. PaysRates(floatingLeg(trade), cube, OwnDays(trade))
    BY <1>1, <1>4, <2>3, BermudanPays
  <2>5. dates[1] = THETA_DAYS => Rolls(trade, thetaValue, cube[1])
    BY <1>1, <1>2, <1>4, ThetaOfExercisable
  <2>. QED
    BY <2>2, <2>4, <2>5
<1>5. CASE trade.kind = "european" /\ is_expired(trade, 0) /\ cube = [j \in DOMAIN dates |-> Zero]
  <2>1. cube = [j \in DOMAIN dates |-> cube[j]]
    BY <1>5
  <2>2. PaysRates(floatingLeg(trade), cube, OwnDays(trade))
    BY <1>5, ZeroIs DEF PaysRates
  <2>3. is_expired(trade, dates[1])
    <3>1. trade.exercise \in Seq(Int) /\ Len(trade.exercise) = 1
      BY <1>1, <1>5 DEF TradeFits
    <3>2. trade.exercise[Len(trade.exercise)] \in Int
      BY <3>1
    <3>. QED
      BY <1>3, <1>5, <3>2 DEF is_expired
  <2>4. dates[1] = THETA_DAYS => Rolls(trade, thetaValue, cube[1])
    <3>1. dates[1] = THETA_DAYS => thetaValue = european_cube(trade)[1]
      BY <1>1, <1>2, <1>5, <2>3, ThetaOfEuropean
    <3>2. european_cube(trade)[1] = Zero
      BY <1>3, <2>3, Zenon DEF european_cube
    <3>. QED
      BY <1>3, <1>5, <3>1, <3>2, ZeroIs, EqualRolls
  <2>. QED
    BY <2>1, <2>2, <2>4
<1>6. CASE /\ trade.kind = "european" /\ ~ is_expired(trade, 0)
           /\ cube = IF TermsMissHistory(trade) THEN <<Failed("MissingFixing")>> ELSE european_cube(trade)
  <2>1. ~ TermsMissHistory(trade)
    <3>1. SUFFICES ASSUME TermsMissHistory(trade) PROVE FALSE
      OBVIOUS
    <3>2. PICK failed_value : failed_value = Failed("MissingFixing")
      OBVIOUS
    <3>3. cube = <<failed_value>>
      BY <1>6, <3>1, <3>2
    <3>4. cube[1] = failed_value /\ 1 \in DOMAIN cube
      BY <3>3
    <3>5. failed_value.error = "MissingFixing"
      BY <3>2, FailedIs
    <3>6. failed_value.error = "none"
      BY <3>4
    <3>. QED
      BY <3>5, <3>6
  <2>2. cube = european_cube(trade)
    BY <1>6, <2>1
  <2>3. cube = [j \in DOMAIN dates |-> cube[j]]
    BY <2>2 DEF european_cube
  <2>4. PaysRates(floatingLeg(trade), cube, OwnDays(trade))
    BY <1>1, <1>6, <2>1, <2>2, EuropeanPays
  <2>5. dates[1] = THETA_DAYS => Rolls(trade, thetaValue, cube[1])
    <3>1. dates[1] = THETA_DAYS => thetaValue = cube[1]
      BY <1>1, <1>2, <1>6, <2>1, <2>2, ThetaOfEuropean
    <3>2. cube[1] = Zero \/ \E flows, rates : cube[1] = Value(flows, rates)
      BY <1>3, <2>2, Zenon DEF european_cube
    <3>3. cube[1].days = {}
      BY <3>2, ZeroIs, ValueIs
    <3>. QED
      BY <3>1, <3>3, EqualRolls
  <2>. QED
    BY <2>3, <2>4, <2>5
<1>. QED
  BY <1>4, <1>5, <1>6

LEMMA OptionKeeps ==
  ASSUME TradeInv, PriceOption
  PROVE  TradeInv'
<1>1. /\ valuing = "bumped" /\ trade.kind \in Optional
      /\ UNCHANGED <<trade, dates, moneyness, todayValue, thetaValue, underlyings, exercised, wrapping>>
  BY DEF PriceOption
<1>2. Unwrapped /\ HandFits /\ ThetaFits
  BY <1>1 DEF TradeInv
<1>3. PICK cube : /\ option' = cube /\ column' = cube
                  /\ valuing' = IF \E j \in DOMAIN cube : cube[j].error # "none" THEN "unpriced" ELSE "option"
                  /\ cube = CASE trade.kind \in ExerciseKinds -> bermudan_cube(trade)
                              [] trade.kind = "european" /\ is_expired(trade, 0) -> [j \in DOMAIN dates |-> Zero]
                              [] trade.kind = "european" /\ ~is_expired(trade, 0) ->
                                   IF TermsMissHistory(trade) THEN <<Failed("MissingFixing")>> ELSE european_cube(trade)
  BY Zenon DEF PriceOption
<1>4. CASE \E j \in DOMAIN cube : cube[j].error # "none"
  <2>1. valuing' = "unpriced"
    BY <1>3, <1>4
  <2>. QED
    BY <2>1 DEF TradeInv
<1>5. CASE ~ \E j \in DOMAIN cube : cube[j].error # "none"
  <2>1. valuing' = "option"
    BY <1>3, <1>5
  <2>2. \/ trade.kind \in ExerciseKinds /\ cube = bermudan_cube(trade)
        \/ trade.kind = "european" /\ is_expired(trade, 0) /\ cube = [j \in DOMAIN dates |-> Zero]
        \/ /\ trade.kind = "european" /\ ~ is_expired(trade, 0)
           /\ cube = IF TermsMissHistory(trade) THEN <<Failed("MissingFixing")>> ELSE european_cube(trade)
    <3>1. CASE trade.kind \in ExerciseKinds
      <4>1. trade.kind # "european"
        BY <3>1 DEF ExerciseKinds
      <4>. QED
        BY <1>3, <3>1, <4>1, Zenon
    <3>2. CASE trade.kind \notin ExerciseKinds
      <4>1. trade.kind = "european"
        BY <1>1, <3>2 DEF Optional
      <4>2. CASE is_expired(trade, 0)
        BY <1>3, <3>2, <4>1, <4>2, Zenon
      <4>3. CASE ~ is_expired(trade, 0)
        BY <1>3, <3>2, <4>1, <4>3, Zenon
      <4>. QED
        BY <4>2, <4>3
    <3>. QED
      BY <3>1, <3>2
  <2>3. /\ cube = [j \in DOMAIN dates |-> cube[j]]
        /\ PaysRates(floatingLeg(trade), cube, OwnDays(trade))
        /\ dates[1] = THETA_DAYS => Rolls(trade, thetaValue, cube[1])
    BY <1>1, <1>2, <1>5, <2>2, OptionPays
  <2>4. OptionFits'
    <3>1. PaysRates(floatingLeg(trade), cube, OwnDays(trade))' <=> PaysRates(floatingLeg(trade), cube, OwnDays(trade))
      BY <1>1, RatesKept
    <3>2. PaysRates(floatingLeg(trade), option, OwnDays(trade))'
      BY <1>3, <2>3, <3>1
    <3>3. option' = [j \in DOMAIN dates' |-> option'[j]]
      BY <1>1, <1>3, <2>3
    <3>4. (dates[1] = THETA_DAYS => Rolls(trade, thetaValue, option[1]))'
      <4>1. PICK theta, path : theta = thetaValue /\ path = cube[1]
        OBVIOUS
      <4>2. thetaValue' = theta /\ option'[1] = path /\ dates' = dates /\ trade' = trade
        BY <1>1, <1>3, <4>1
      <4>3. dates[1] = THETA_DAYS => Rolls(trade, theta, path)
        BY <2>3, <4>1
      <4>. QED
        BY <4>2, <4>3 DEF Rolls
    <3>. QED
      BY <1>1, <3>2, <3>3, <3>4 DEF OptionFits
  <2>5. Unwrapped' /\ HandFits' /\ column' = option'
    BY <1>1, <1>2, <1>3, PartsKept
  <2>. QED
    BY <2>1, <2>4, <2>5 DEF TradeInv
<1>. QED
  BY <1>4, <1>5

\* The wrapper begins with no exercise looked at.
LEMMA WrapBeginsNow ==
  OptionOnGrid /\ option = [j \in DOMAIN dates |-> option[j]] /\ exercised = [j \in DOMAIN dates |-> FALSE]
    => WrapAs(1, {}, exercised, option)
BY WrapBegins

\* The same of the next state.
LEMMA WrapBeginsNext ==
  (OptionOnGrid /\ option = [j \in DOMAIN dates |-> option[j]] /\ exercised = [j \in DOMAIN dates |-> FALSE]
     => WrapAs(1, {}, exercised, option))'
BY WrapBeginsNow, PTL

LEMMA UnderlyingsKeep ==
  ASSUME TradeInv, PriceUnderlyings
  PROVE  TradeInv'
<1> DEFINE exercises == contract_exercise_dates(trade)
           fixings == HistoryOf(trade)
           firsts(i) == UnderlyingFirsts(trade, exercises[i])
           cube(i) == legs_cube(fixedLeg(trade), floatingLeg(trade), firsts(i), fixings)
           missing == \E i \in DOMAIN exercises : HistoryNeeded(floatingLeg(trade), firsts(i)[2], fixings)
<1>1. /\ valuing = "option" /\ exercised' = [j \in DOMAIN dates |-> FALSE]
      /\ UNCHANGED <<trade, dates, moneyness, todayValue, thetaValue, option, column, wrapping>>
      /\ \/ missing /\ valuing' = "unpriced"
         \/ ~ missing /\ valuing' = "wrapping" /\ underlyings' = [i \in DOMAIN exercises |-> cube(i)]
  BY DEF PriceUnderlyings
<1>2. HandFits /\ OptionFits /\ Unwrapped /\ column = option
  BY <1>1 DEF TradeInv
<1>3. CASE valuing' = "unpriced"
  BY <1>3 DEF TradeInv
<1>4. CASE ~ missing /\ valuing' = "wrapping" /\ underlyings' = [i \in DOMAIN exercises |-> cube(i)]
  <2>1. dates \in DateGrids /\ TradeFits(trade) /\ trade.kind \in Optional
    BY <1>2 DEF HandFits, OptionFits, Optional, ExerciseKinds
  <2>2. LegFits(floatingLeg(trade))
    BY <2>1, LegsFit
  <2>3. ASSUME NEW i \in DOMAIN exercises PROVE PaysRates(floatingLeg(trade), cube(i), OwnDays(trade))
    <3>1. ~ HistoryNeeded(floatingLeg(trade), firsts(i)[2], fixings)
      BY <1>4
    <3> HIDE DEF firsts, exercises
    <3>2. PICK f : f = firsts(i)
      OBVIOUS
    <3>3. PICK fixed : fixed = fixedLeg(trade)
      OBVIOUS
    <3>4. PaysRates(floatingLeg(trade), legs_cube(fixed, floatingLeg(trade), f, HistoryOf(trade)), OwnDays(trade))
      BY <2>1, <2>2, <3>1, <3>2, LegsPayRates
    <3>. QED
      BY <3>2, <3>3, <3>4
  <2> HIDE DEF cube, missing
  <2>4. UnderlyingsFit'
    <3>1. ASSUME NEW i \in DOMAIN exercises PROVE PaysRates(floatingLeg(trade), underlyings[i], OwnDays(trade))'
      <4>1. PICK c : c = cube(i)
        OBVIOUS
      <4>2. PaysRates(floatingLeg(trade), c, OwnDays(trade))' <=> PaysRates(floatingLeg(trade), c, OwnDays(trade))
        BY <1>1, RatesKept
      <4>3. underlyings'[i] = c
        BY <1>4, <4>1
      <4>. QED
        BY <2>3, <4>1, <4>2, <4>3
    <3>2. DOMAIN underlyings' = DOMAIN contract_exercise_dates(trade') /\ DOMAIN underlyings' = DOMAIN exercises
      BY <1>1, <1>4
    <3>3. \A i \in DOMAIN exercises : DOMAIN underlyings'[i] = DOMAIN dates'
      <4>1. \A i \in DOMAIN exercises : DOMAIN cube(i) = DOMAIN dates
        BY DEF cube, legs_cube
      <4>. QED
        BY <1>1, <1>4, <4>1
    <3> HIDE DEF exercises
    <3>. QED
      BY <3>1, <3>2, <3>3 DEF UnderlyingsFit
  <2>5. HandFits' /\ OptionFits'
    BY <1>1, <1>2, PartsKept
  <2>6. OptionOnGrid'
    BY <2>4, <2>5 DEF OptionOnGrid, OptionFits, HandFits, UnderlyingsFit, Optional, ExerciseKinds
  <2>7. WrapFits'
    <3>1. wrapping'.next = 1 /\ wrapping'.seen = {} /\ column' = option' /\ exercised' = [j \in DOMAIN dates' |-> FALSE]
      BY <1>1, <1>2 DEF Unwrapped
    <3>2. option' = [j \in DOMAIN dates' |-> option'[j]]
      BY <2>5 DEF OptionFits
    <3>3. (OptionOnGrid /\ option = [j \in DOMAIN dates |-> option[j]] /\ exercised = [j \in DOMAIN dates |-> FALSE]
            => WrapAs(1, {}, exercised, option))'
      BY WrapBeginsNext
    <3>4. WrapAs(1, {}, exercised, option)'
      BY <2>6, <3>1, <3>2, <3>3
    <3>. QED
      BY <3>1, <3>4 DEF WrapFits
  <2>. QED
    BY <1>4, <2>4, <2>5, <2>7 DEF TradeInv
<1>. QED
  BY <1>1, <1>3, <1>4

LEMMA LegsKeep ==
  ASSUME TradeInv, PriceLegs
  PROVE  TradeInv'
<1>1. /\ valuing = "bumped" /\ trade.kind \notin Optional
      /\ UNCHANGED <<trade, dates, moneyness, todayValue, thetaValue, option, underlyings, exercised, wrapping>>
  BY DEF PriceLegs
<1>2. HandFits /\ ThetaFits /\ option = <<>> /\ Unwrapped
  BY <1>1 DEF TradeInv
<1>3. HandFits' /\ option' = <<>> /\ underlyings' = <<>>
  BY <1>1, <1>2, PartsKept DEF Unwrapped
<1>4. 1 \in DOMAIN dates
  BY <1>2, GridIs DEF HandFits
<1>5. CASE trade.kind = "bond"
  <2>1. valuing' = "wrapped" /\ column' = legs_cube(bond_legs(trade, 0), <<>>, <<1, 1>>, <<>>)
    BY <1>5 DEF PriceLegs
  <2>2. BondFits(trade) /\ dates \in DateGrids
    BY <1>2, <1>5 DEF HandFits
  <2>3. dates[1] = THETA_DAYS => thetaValue = legs_cube(bond_legs(trade, 0), <<>>, <<1, 1>>, <<>>)[1]
    BY <1>2, <2>2, ThetaOfBond DEF ThetaFits
  <2>4. (dates[1] = THETA_DAYS => Rolls(trade, thetaValue, column[1]))'
    <3>1. PICK first : first = legs_cube(bond_legs(trade, 0), <<>>, <<1, 1>>, <<>>)[1]
      OBVIOUS
    <3>2. column'[1] = first
      BY <2>1, <3>1, Zenon
    <3>3. \E flows, rates : first = Value(flows, rates)
      BY <1>4, <3>1, Zenon DEF legs_cube
    <3>4. Rolls(trade, first, first)
      BY <3>3, ValueIs, EqualRolls
    <3>. QED
      BY <1>1, <2>3, <3>1, <3>2, <3>4 DEF Rolls
  <2>5. PlainFits'
    BY <1>1, <1>3, <1>5, <2>4 DEF PlainFits
  <2>. QED
    BY <1>3, <2>1, <2>5 DEF TradeInv
<1>6. CASE trade.kind # "bond"
  <2>1. TradeFits(trade) /\ dates \in DateGrids
    BY <1>2, <1>6 DEF HandFits
  <2>2. trade.kind = "swap"
    BY <1>1, <2>1 DEF TradeFits, Optional, ExerciseKinds
  <2>3. CASE HistoryNeeded(floatingLeg(trade), 1, HistoryOf(trade))
    <3>1. valuing' = "unpriced"
      BY <1>6, <2>3 DEF PriceLegs
    <3>. QED
      BY <3>1 DEF TradeInv
  <2>4. CASE ~ HistoryNeeded(floatingLeg(trade), 1, HistoryOf(trade))
    <3>1. PICK cube : cube = legs_cube(fixedLeg(trade), floatingLeg(trade), <<1, 1>>, HistoryOf(trade))
      OBVIOUS
    <3>2. valuing' = "wrapped" /\ column' = cube
      BY <1>6, <2>4, <3>1, Zenon DEF PriceLegs
    <3>3. PaysRates(floatingLeg(trade), cube, OwnDays(trade))
      <4>1. PICK f : f = <<1, 1>>
        OBVIOUS
      <4>2. f[2] = 1
        BY <4>1
      <4>3. PICK fixed : fixed = fixedLeg(trade)
        OBVIOUS
      <4>4. LegFits(floatingLeg(trade))
        BY <2>1, LegsFit
      <4>5. PaysRates(floatingLeg(trade), legs_cube(fixed, floatingLeg(trade), f, HistoryOf(trade)), OwnDays(trade))
        BY <2>1, <2>4, <4>2, <4>4, LegsPayRates
      <4>. QED
        BY <3>1, <4>1, <4>3, <4>5
    <3>4. dates[1] = THETA_DAYS => Rolls(trade, thetaValue, cube[1])
      BY <1>2, <2>1, <2>2, <2>4, <3>1, ThetaOfSwap DEF ThetaFits
    <3>5. PaysRates(floatingLeg(trade), column, OwnDays(trade))'
      <4>1. PaysRates(floatingLeg(trade), cube, OwnDays(trade))' <=> PaysRates(floatingLeg(trade), cube, OwnDays(trade))
        BY <1>1, RatesKept
      <4>. QED
        BY <3>2, <3>3, <4>1
    <3>7. (dates[1] = THETA_DAYS => Rolls(trade, thetaValue, column[1]))'
      BY <1>1, <3>2, <3>4 DEF Rolls
    <3>6. PlainFits'
      BY <1>1, <1>3, <3>5, <3>7 DEF PlainFits
    <3>. QED
      BY <1>3, <3>2, <3>6 DEF TradeInv
  <2>. QED
    BY <2>3, <2>4
<1>. QED
  BY <1>5, <1>6

\* The wrapper's state is of an option on a grid.
LEMMA WrappingOnGrid ==
  ASSUME HandFits, OptionFits, UnderlyingsFit
  PROVE  OptionOnGrid
BY DEF OptionOnGrid, OptionFits, HandFits, UnderlyingsFit, Optional, ExerciseKinds

LEMMA WrapKeeps ==
  ASSUME TradeInv, WrapExercise
  PROVE  TradeInv'
<1>1. /\ valuing = "wrapping"
      /\ UNCHANGED <<trade, dates, moneyness, valuing, todayValue, thetaValue, option, underlyings>>
  BY DEF WrapExercise
<1>2. HandFits /\ OptionFits /\ UnderlyingsFit /\ WrapFits
  BY <1>1 DEF TradeInv
<1>3. HandFits' /\ OptionFits' /\ UnderlyingsFit'
  BY <1>1, <1>2, PartsKept
<1>4. WrapAs(wrapping'.next, wrapping'.seen, exercised', column')
  BY <1>2, WrappingOnGrid, WrapSteps
<1>5. WrapFits'
  BY <1>1, <1>4, WrapKept
<1>. QED
  BY <1>1, <1>3, <1>5 DEF TradeInv

LEMMA WrappedKeeps ==
  ASSUME TradeInv, Wrapped
  PROVE  TradeInv'
<1>1. /\ valuing = "wrapping" /\ valuing' = "wrapped" /\ wrapping.next \notin DOMAIN underlyings
      /\ UNCHANGED <<trade, dates, moneyness, todayValue, thetaValue, option, underlyings, column, exercised, wrapping>>
  BY DEF Wrapped
<1>2. HandFits /\ OptionFits /\ UnderlyingsFit /\ WrapFits
  BY <1>1 DEF TradeInv
<1>3. HandFits' /\ OptionFits' /\ UnderlyingsFit'
  BY <1>1, <1>2, PartsKept
<1>4. WrapFits'
  <2>1. WrapAs(wrapping'.next, wrapping'.seen, exercised', column')
    BY <1>1, <1>2 DEF WrapFits
  <2>. QED
    BY <1>1, <2>1, WrapKept
<1>. QED
  BY <1>1, <1>3, <1>4 DEF TradeInv

LEMMA TradeStutters ==
  ASSUME TradeInv, UNCHANGED tradeVars
  PROVE  TradeInv'
<1>1. UNCHANGED <<trade, dates, moneyness, valuing, todayValue, thetaValue, option, underlyings, column, exercised, wrapping>>
  BY DEF tradeVars
<1>2. /\ HandFits => HandFits'
      /\ ThetaFits => ThetaFits'
      /\ OptionFits => OptionFits'
      /\ UnderlyingsFit => UnderlyingsFit'
      /\ Unwrapped => Unwrapped'
      /\ PlainFits => PlainFits'
  BY <1>1, PartsKept
<1>3. WrapFits => WrapFits'
  <2>1. WrapFits => WrapAs(wrapping'.next, wrapping'.seen, exercised', column')
    BY <1>1 DEF WrapFits
  <2>. QED
    BY <1>1, <2>1, WrapKept
<1>4. option' = option /\ column' = column /\ DOMAIN underlyings' = DOMAIN underlyings /\ wrapping' = wrapping
      /\ valuing' = valuing
  BY <1>1
<1>. QED
  BY <1>2, <1>3, <1>4 DEF TradeInv

LEMMA TradeStarts == TradeInit => TradeInv
BY DEF TradeInit, TradeInv, Unwrapped

LEMMA TradeSteps == TradeInv /\ [TradeNext]_tradeVars => TradeInv'
BY BookKeeps, TodayValueKeeps, ThetaKeeps, OptionKeeps, UnderlyingsKeep, LegsKeep, WrapKeeps, WrappedKeeps, TradeStutters
   DEF TradeNext

\* The column wrapped is the one the walk leaves.
LEMMA WrappedIsWalked ==
  ASSUME OptionOnGrid, WrapFits, wrapping.next \notin DOMAIN underlyings
  PROVE  \A j \in DOMAIN dates :
           LET i == ExercisedInto[j]
           IN  /\ exercised[j] = (i # 0)
               /\ column[j] = IF i = 0 THEN option[j] ELSE IF trade.physical THEN underlyings[i][j] ELSE Zero
<1>1. DOMAIN dates = 1 .. Len(dates) /\ Len(dates) \in Nat \ {0}
  BY GridIs DEF OptionOnGrid
<1>2. PICK n \in Nat : DOMAIN underlyings = 1 .. n
  BY StepsGrow
<1>3. wrapping.next \in Nat \ {0} /\ exercised \in [DOMAIN dates -> BOOLEAN]
  BY DEF WrapFits, WrapAs
<1>4. \A k \in DOMAIN underlyings : k < wrapping.next
  BY <1>2, <1>3
<1>5. PICK e, s : /\ EnteredBy(wrapping.next, e, s) /\ column = MixedColumn(e, s)
                  /\ \A j \in DOMAIN dates : exercised[j] <=> j >= s
  BY DEF WrapFits, WrapAs
<1>6. \/ e = 0 /\ s = Len(dates) + 1 /\ \A k \in DOMAIN underlyings : ~ Enters(k)
      \/ FirstEntered(e) /\ s = Step(e)
  BY <1>4, <1>5 DEF EnteredBy
<1>7. \A j \in 0 .. Len(dates) : ExercisedInto[j] = IF j < s THEN 0 ELSE e
  BY <1>6, WalkOf
<1>8. s \in 0 .. Len(dates) + 1 /\ (s <= Len(dates) => e # 0)
  <2>1. CASE e = 0 /\ s = Len(dates) + 1
    BY <1>1, <2>1
  <2>2. CASE FirstEntered(e) /\ s = Step(e)
    <3>1. e \in DOMAIN underlyings /\ s \in 0 .. Len(dates)
      BY <2>2, StepsGrow DEF FirstEntered
    <3>. QED
      BY <1>1, <1>2, <3>1
  <2>. QED
    BY <1>6, <2>1, <2>2
<1>9. ASSUME NEW j \in DOMAIN dates
      PROVE  /\ exercised[j] = (ExercisedInto[j] # 0)
             /\ column[j] = IF ExercisedInto[j] = 0 THEN option[j]
                            ELSE IF trade.physical THEN underlyings[ExercisedInto[j]][j] ELSE Zero
  <2>1. PICK i : i = ExercisedInto[j]
    OBVIOUS
  <2>2. exercised[j] \in BOOLEAN /\ (exercised[j] <=> j >= s)
    BY <1>3, <1>5
  <2>3. CASE j >= s
    <3>1. i = e /\ e # 0
      BY <1>1, <1>7, <1>8, <2>1, <2>3
    <3>2. column[j] = IF trade.physical THEN underlyings[e][j] ELSE Zero
      BY <1>5, <2>3 DEF MixedColumn
    <3>3. exercised[j] = (i # 0)
      BY <2>2, <2>3, <3>1, Zenon
    <3>. QED
      BY <2>1, <3>1, <3>2, <3>3
  <2>4. CASE ~ (j >= s)
    <3>1. i = 0
      BY <1>1, <1>7, <1>8, <2>1, <2>4
    <3>2. column[j] = option[j]
      BY <1>5, <2>4 DEF MixedColumn
    <3>3. exercised[j] = (i # 0)
      BY <2>2, <2>4, <3>1, Zenon
    <3>. QED
      BY <2>1, <3>1, <3>2, <3>3
  <2>. QED
    BY <2>3, <2>4
<1>. QED
  BY <1>9


\* The column wrapped pays the rates of the option and of the swaps it may enter.
LEMMA WrappedPays ==
  ASSUME OptionOnGrid, OptionFits, UnderlyingsFit, WrapFits
  PROVE  PaysRates(floatingLeg(trade), column, OwnDays(trade))
<1> DEFINE leg == floatingLeg(trade)
           own == OwnDays(trade)
<1>1. PICK e, s : EnteredBy(wrapping.next, e, s) /\ column = MixedColumn(e, s)
  BY DEF WrapFits, WrapAs
<1>2. DOMAIN dates = 1 .. Len(dates) /\ Len(dates) \in Nat
  BY GridIs DEF OptionOnGrid
<1>3. (e = 0 /\ s = Len(dates) + 1) \/ e \in DOMAIN underlyings
  BY <1>1 DEF EnteredBy, FirstEntered
<1>4. DOMAIN option = DOMAIN dates /\ PaysRates(leg, option, own)
  <2>1. option = [j \in DOMAIN dates |-> option[j]] /\ PaysRates(leg, option, own)
    BY DEF OptionFits
  <2>. QED
    BY <2>1
<1>5. \A j \in DOMAIN dates : \A i \in DOMAIN leg :
        i \in DOMAIN option[j].rates => RateFits(option[j].rates[i], leg[i].fix, j, own)
  BY <1>4 DEF PaysRates
<1> HIDE DEF leg, own
<1>6. ASSUME NEW j \in DOMAIN dates, NEW i \in DOMAIN leg, i \in DOMAIN column[j].rates
      PROVE  RateFits(column[j].rates[i], leg[i].fix, j, own)
  <2>1. column[j] = IF j >= s THEN (IF trade.physical THEN underlyings[e][j] ELSE Zero) ELSE option[j]
    BY <1>1 DEF MixedColumn
  <2>2. CASE ~ (j >= s)
    BY <1>5, <1>6, <2>1, <2>2
  <2>3. CASE j >= s /\ ~ trade.physical
    BY <1>6, <2>1, <2>3, ZeroIs
  <2>4. CASE j >= s /\ trade.physical
    <3>1. e \in DOMAIN underlyings
      BY <1>2, <1>3, <2>4
    <3>2. column[j] = underlyings[e][j]
      BY <2>1, <2>4
    <3>3. PaysRates(leg, underlyings[e], own)
      BY <3>1 DEF UnderlyingsFit, leg, own
    <3>4. j \in DOMAIN underlyings[e] => RateFits(column[j].rates[i], leg[i].fix, j, own)
      BY <1>6, <3>2, <3>3 DEF PaysRates
    <3>5. j \in DOMAIN underlyings[e]
      BY <3>1 DEF UnderlyingsFit
    <3>. QED
      BY <3>4, <3>5
  <2>. QED
    BY <2>2, <2>3, <2>4
<1>. QED
  BY <1>6 DEF PaysRates, leg, own

\* The property's rolling is the trade's.
LEMMA RollsIs == \A theta, path : Rolls(trade, theta, path) => RollsTo(theta, path)
BY DEF Rolls, RollsTo, OwnFixing

\* And its rates are those of the trade's columns.
LEMMA OneRateIs ==
  ASSUME OneRate(floatingLeg(trade), PathColumns, OwnDays(trade))
  PROVE  OneRateFromItsFixing
<1> DEFINE leg == floatingLeg(trade)
           own == OwnDays(trade)
           rates(i, j) == {c[j].rates[i] : c \in {d \in PathColumns : j \in DOMAIN d /\ i \in DOMAIN d[j].rates}}
           takes(i, j) == leg[i].fix = dates[j] /\ dates[j] \in own
<1>1. \A i \in DOMAIN leg, j \in DOMAIN dates :
        \A rate \in rates(i, j) :
          /\ takes(i, j) \/ (rate = Forecast) = (dates[j] <= leg[i].fix)
          /\ rate.from = "path" /\ ~takes(i, j) => rate.at > leg[i].fix /\ rate.at <= dates[j]
          /\ rate # Forecast => \A k \in DOMAIN dates : k >= j /\ ~takes(i, k) => rates(i, k) \subseteq {rate}
  BY Zenon DEF OneRate
<1>2. \A i, j : RatesPaid(i, j) = rates(i, j)
  BY Zenon DEF RatesPaid
<1>3. \A i, j : TakesItsOwn(i, j) <=> takes(i, j)
  BY DEF TakesItsOwn, OwnFixing, OwnDays
<1> HIDE DEF rates, takes, leg
<1>4. \A i \in DOMAIN leg, j \in DOMAIN dates :
        \A rate \in RatesPaid(i, j) :
          /\ TakesItsOwn(i, j) \/ (rate = Forecast) = (dates[j] <= leg[i].fix)
          /\ rate.from = "path" /\ ~TakesItsOwn(i, j) => rate.at > leg[i].fix /\ rate.at <= dates[j]
          /\ rate # Forecast => \A k \in DOMAIN dates : k >= j /\ ~TakesItsOwn(i, k) => RatesPaid(i, k) \subseteq {rate}
  BY <1>1, <1>2, <1>3
<1>. QED
  BY <1>4, Zenon DEF OneRateFromItsFixing, leg

\* The invariant says that the trade is one contract.
LEMMA InvIsOneContract == TradeInv => OneContract
<1> SUFFICES ASSUME TradeInv, valuing = "wrapped" PROVE OneContract
  BY DEF OneContract, RatesAgree, WrapIsTheWalk, OneRateFromItsFixing, ThetaIsTheFirstDate
<1>1. HandFits /\ (PlainFits \/ (OptionFits /\ UnderlyingsFit /\ WrapFits /\ wrapping.next \notin DOMAIN underlyings))
  BY DEF TradeInv
<1> DEFINE columns == PathColumns
<1>2. CASE PlainFits
  <2>1. WrapIsTheWalk /\ ThetaIsTheFirstDate
    BY <1>2, RollsIs DEF PlainFits, WrapIsTheWalk, ThetaIsTheFirstDate
  <2>2. OneRateFromItsFixing
    <3>1. CASE trade.kind = "bond"
      BY <3>1 DEF OneRateFromItsFixing
    <3>2. CASE trade.kind # "bond"
      <4>1. LegFits(floatingLeg(trade)) /\ dates \in DateGrids
        BY <1>1, <3>2, LegsFit DEF HandFits
      <4>2. \A d \in columns : PaysRates(floatingLeg(trade), d, OwnDays(trade))
        <5>1. option = <<>> /\ Range(underlyings) = {} /\ PaysRates(floatingLeg(trade), column, OwnDays(trade))
          BY <1>2, <3>2 DEF PlainFits, Range
        <5>2. PaysRates(floatingLeg(trade), <<>>, OwnDays(trade))
          BY DEF PaysRates
        <5>. QED
          BY <5>1, <5>2 DEF PathColumns
      <4> HIDE DEF columns
      <4>3. OneRate(floatingLeg(trade), columns, OwnDays(trade))
        BY <4>1, <4>2, OneRateOnPath
      <4>. QED
        BY <3>2, <4>3, OneRateIs DEF columns
    <3>. QED
      BY <3>1, <3>2
  <2>. QED
    BY <2>1, <2>2 DEF OneContract, RatesAgree
<1>3. CASE OptionFits /\ UnderlyingsFit /\ WrapFits /\ wrapping.next \notin DOMAIN underlyings
  <2>1. OptionOnGrid
    BY <1>1, <1>3, WrappingOnGrid
  <2>2. WrapIsTheWalk
    BY <1>3, <2>1, WrappedIsWalked, Zenon DEF WrapIsTheWalk
  <2>3. ThetaIsTheFirstDate
    BY <1>3, RollsIs DEF OptionFits, ThetaIsTheFirstDate
  <2>4. LegFits(floatingLeg(trade)) /\ dates \in DateGrids
    BY <2>1, LegsFit DEF OptionOnGrid
  <2>5. \A d \in columns : PaysRates(floatingLeg(trade), d, OwnDays(trade))
    <3>1. PaysRates(floatingLeg(trade), option, OwnDays(trade)) /\ PaysRates(floatingLeg(trade), column, OwnDays(trade))
      BY <1>3, <2>1, WrappedPays DEF OptionFits
    <3>2. \A d \in Range(underlyings) : PaysRates(floatingLeg(trade), d, OwnDays(trade))
      BY <1>3 DEF UnderlyingsFit, Range
    <3>. QED
      BY <3>1, <3>2 DEF PathColumns
  <2> HIDE DEF columns
  <2>6. OneRate(floatingLeg(trade), columns, OwnDays(trade))
    BY <2>4, <2>5, OneRateOnPath
  <2>7. OneRateFromItsFixing
    BY <2>1, <2>6, OneRateIs DEF columns, OptionOnGrid
  <2>. QED
    BY <2>2, <2>3, <2>7 DEF OneContract, RatesAgree
<1>. QED
  BY <1>1, <1>2, <1>3

\* The pieces of code that price one trade price one contract, for any trades, any fixings of theirs and any
\* grids: the wrapper's column is the walk's, a coupon pays one rate from its fixing on, but for the trade's
\* own fixing of the date valued, and the Theta date is the first date.
THEOREM ContractKept == TradeSpec => []OneContract
<1>1. TradeSpec => []TradeInv
  BY TradeStarts, TradeSteps, PTL DEF TradeSpec
<1>. QED
  BY <1>1, InvIsOneContract, PTL

=============================================================================
