---------------------------- MODULE EodPipeline ----------------------------
(***************************************************************************)
(* Pricing an end-of-day bundle, price_bundle of                           *)
(* src/engine/traderx/pipeline.py: the bundle is loaded and joined, the    *)
(* market inputs are resolved, then every row becomes an item with an      *)
(* outcome for each calculation, and the result is built of the items.     *)
(***************************************************************************)
EXTENDS EodBundle

CONSTANT MarketRequests   \* marketInputs blocks a submission may carry, or Nothing

\* Why a note or a bill is refused, or its price fails.
Reasons ==
  {"TERMS_NOT_SUPPLIED", "INSTRUMENT_TYPE_NOT_SUPPORTED", "CONVENTION_NOT_SUPPORTED", "TERMS_INCOMPLETE",
   "INSTRUMENT_MATURED", "NOT_A_BILL", "NOT_A_NOTE", "SETTLEMENT_CONVENTION_NOT_SUPPORTED",
   "DAY_COUNT_NOT_SUPPORTED", "SCHEDULE_INCONSISTENT", "ACCRUAL_MISMATCH", "PRICING_FAILED"}

\* Nothing is no text and no outcome.
ASSUME NothingAssumption ==
  /\ Nothing \notin Reasons \cup {"NO_PRICER_AT_THIS_STAGE", "BUNDLE_INTEGRITY_FAILED"}
  /\ Nothing # failed("NORMALIZATION_FAILED")

Exports == {pair[1] : pair \in Arrivals} \cup ({pair[2] : pair \in Arrivals} \ {Nothing})

\* An export's rows and terms are lists, its dates and amounts numbers; every
\* entry is of an extract, and "the contracts extract carries only OTC swaps"
\* (_instrument_type), which no position is.
ASSUME ExportsAssumption ==
  \A x \in Exports :
    /\ x.sessionDate \in Int
    /\ \A csv \in {x.positions.content, x.contracts.content} :
         /\ csv.rows \in Seq(ToSet(csv.rows))
         /\ \A r \in ToSet(csv.rows) : r.quantity.value \in Int /\ r.accrued.value \in Int
    /\ \A e \in ToSet(x.instrumentTerms.content.rows) :
         /\ e.source \in {"positions", "contracts"}
         /\ e.source = "contracts" <=> e.type = "SWAP"
         /\ e.schedule \in Seq(ToSet(e.schedule))

VARIABLES
  marketInputs,   \* the block this submission carries
  market,         \* the profile it resolved to; Nothing: nothing is priced
  items,          \* the items built so far, or Nothing before the market is known
  result          \* the result, or Nothing

eodVars == <<bundleVars, marketInputs, market, items, result>>

EodInit ==
  /\ BundleInit
  /\ marketInputs \in MarketRequests
  /\ market = Nothing
  /\ items = Nothing
  /\ result = Nothing

ASSUMED_PROFILES == {"flat-3pct-v1"}

\* An assumed profile, by a registered name; a package is not implemented.
Resolvable(spec) == spec.mode = "assumed-profile" /\ spec.profile \in ASSUMED_PROFILES

ResolveMarketInputs ==
  /\ joined # Nothing /\ items = Nothing /\ refused = Nothing
  /\ IF marketInputs # Nothing => Resolvable(marketInputs)
     THEN /\ market' = IF marketInputs = Nothing THEN Nothing ELSE marketInputs.profile
          /\ items' = <<>>
          /\ UNCHANGED refused
     ELSE /\ refused' = "MARKET_INPUTS_NOT_SUPPLIED"
          /\ UNCHANGED <<market, items>>
  /\ UNCHANGED <<disk, arriving, todo, read, joined, marketInputs, result>>

----------------------------------------------------------------------------
(* One row.                                                                *)

NO_PRICER_AT_THIS_STAGE == "NO_PRICER_AT_THIS_STAGE"
NON_OPTIONAL            == {"TREASURY", "SWAP", "EQUITY"}

Valuation == Manifest.sessionDate

\* The type the terms state, else the row's column, else the artifact's.
InstrumentType(j) ==
  IF j.entry # Nothing THEN j.entry.type
  ELSE IF j.row.type # Nothing THEN j.row.type
  ELSE IF j.row.source = "contracts" THEN "SWAP" ELSE "UNKNOWN"

\* Identity is the raw row's, never the terms', and carries the epoch.
IdentityFor(r, epoch) == [kind |-> r.source, account |-> r.account, name |-> r.name, epoch |-> epoch]

AccruedOutcome(j) ==
  IF j.row.source # "positions" THEN Nothing
  ELSE IF ~Normalizes(j.row) THEN failed("NORMALIZATION_FAILED")
  ELSE NormalizedAccrued(j.row, j.entry)

FractionDecimals(entry) ==
  IF entry.basis.stated THEN entry.basis.decimals ELSE DEFAULT_FRACTION_DECIMALS

NothingPriced == [c \in {} |-> failed("")]

\* A bill whose valuation date is no date was attempted and broke.
BillOutcomes(j) ==
  [npv |-> IF IsDate(Valuation) THEN PriceBill(j.entry, j.row.quantity.value, Valuation)
           ELSE failed("PRICING_FAILED")]

\* Each attempted on its own, under one tolerance.
NoteOutcomes(j) ==
  LET face     == j.row.quantity.value
      decimals == FractionDecimals(j.entry)
  IN [npv             |-> PriceNote(j.entry, face, Valuation, j.row.accrued, decimals),
      rateSensitivity |-> RateSensitivity(j.entry, face, Valuation, j.row.accrued, decimals)]

\* Dispatch is on the terms; equities first, which need no market.
Priceable(j) == j.entry # Nothing /\ j.row.source = "positions"
OnACurve(j)  == Priceable(j) /\ ~IsEquity(j.entry) /\ market # Nothing /\ Normalizes(j.row)

PricedOutcomes(j) ==
  IF Priceable(j) /\ IsEquity(j.entry) THEN [npv |-> PriceEquity(j.entry, j.row)]
  ELSE IF OnACurve(j) /\ IsBill(j.entry) THEN BillOutcomes(j)
  ELSE IF OnACurve(j) /\ IsNote(j.entry) THEN NoteOutcomes(j)
  ELSE NothingPriced

\* An outcome for every calculation: accrued interest is its own, a refused row
\* is never priced, and what no pricer answers is not applicable or unsupported.
Calculations(j) ==
  LET refusal == CheckConventions(j.entry)
      accrued == AccruedOutcome(j)
      priced  == IF refusal = Nothing THEN PricedOutcomes(j) ELSE NothingPriced
      Inapplicable(c) == c = "varEs" \/ (c = "vega" /\ InstrumentType(j) \in NON_OPTIONAL)
  IN [c \in CALCULATIONS |->
        IF c = "accruedInterest" /\ accrued # Nothing THEN accrued
        ELSE IF c \in DOMAIN priced THEN priced[c]
        ELSE IF Inapplicable(c) THEN not_applicable
        ELSE unsupported(IF refusal = Nothing THEN NO_PRICER_AT_THIS_STAGE ELSE refusal)]

ItemOf(j) == [identity     |-> IdentityFor(j.row, Manifest.epoch),
              currency     |-> j.row.currency,
              refusal      |-> CheckConventions(j.entry),
              calculations |-> Calculations(j)]

\* What escapes the handlers of one row: normalize_position reads a column the
\* loader does not require, and a note's valuation date is converted outside
\* its attempts.
ColumnRaises(j) ==
  /\ j.row.source = "positions"
  /\ "instrumentType" \notin Parsed("positions", read["positions"]).columns
  /\ Given(j.row.quantity) /\ j.row.coupon # Malformed

DateRaises(j) ==
  /\ CheckConventions(j.entry) = Nothing
  /\ OnACurve(j) /\ IsNote(j.entry) /\ ~IsDate(Valuation)

BuildItem ==
  /\ items # Nothing /\ Len(items) < Len(joined) /\ refused = Nothing
  /\ LET j == joined[Len(items) + 1]
     IN IF ColumnRaises(j) \/ DateRaises(j)
        THEN refused' = "uncaught" /\ UNCHANGED items
        ELSE items' = Append(items, ItemOf(j)) /\ UNCHANGED refused
  /\ UNCHANGED <<disk, arriving, todo, read, joined, marketInputs, market, result>>

----------------------------------------------------------------------------
(* The result.                                                             *)

\* How many items have each status, for each calculation.
Coverage(built) ==
  [c \in CALCULATIONS |-> [s \in STATUSES |->
     Cardinality({i \in DOMAIN built : built[i].calculations[c].status = s})]]

AllApplicableComputed(coverage) ==
  \A c \in CALCULATIONS : \A s \in {"unsupported", "unavailable", "failed"} : coverage[c][s] = 0

PriceBundle ==
  /\ items # Nothing /\ refused = Nothing /\ result = Nothing
  /\ Len(items) = Len(joined)
  /\ result' = [items                 |-> items,
                coverage              |-> Coverage(items),
                allApplicableComputed |-> AllApplicableComputed(Coverage(items)),
                marketProvenance      |-> IF market = Nothing THEN Nothing ELSE "assumed"]
  /\ UNCHANGED <<disk, arriving, todo, read, joined, refused, marketInputs, market, items>>

EodNext == \/ BundleNext /\ UNCHANGED <<marketInputs, market, items, result>>
           \/ ResolveMarketInputs
           \/ BuildItem
           \/ PriceBundle

EodSpec == EodInit /\ [][EodNext]_eodVars

----------------------------------------------------------------------------
(* Properties.                                                             *)

TermsOf(r) ==
  LET entries == IF Manifest.schema = "v1" THEN {} ELSE ToSet(Manifest.instrumentTerms.content.rows)
  IN {e \in entries : EntryKey(e) = RowKey(r)}

\* A result is of one export, whole: however the files were overwritten or
\* damaged while they were read, it holds the items of the rows of the
\* manifest's export, each priced on the one entry that export's terms have for
\* it, in order, once.
ResultIsOfOneExport ==
  result # Nothing =>
    LET rows     == Manifest.positions.content.rows \o Manifest.contracts.content.rows
        entry(r) == IF TermsOf(r) = {} THEN Nothing ELSE CHOOSE e \in TermsOf(r) : TRUE
    IN /\ result.items = [i \in DOMAIN rows |-> ItemOf([row |-> rows[i], entry |-> entry(rows[i])])]
       /\ \A i \in DOMAIN rows : \A e1, e2 \in TermsOf(rows[i]) : e1 = e2

\* capabilities.py's table of what is priced, read by the coordinator before it
\* submits.
PRICED_CALCULATIONS_BY_SHAPE ==
  [TREASURY |-> [zero_coupon |-> {"npv"}, coupon_bearing |-> {"npv", "rateSensitivity"}]]

Advertised(entry) ==
  IF entry = Nothing \/ entry.type \notin DOMAIN PRICED_CALCULATIONS_BY_SHAPE THEN {}
  ELSE IF IsBill(entry) THEN PRICED_CALCULATIONS_BY_SHAPE[entry.type].zero_coupon
  ELSE IF IsNote(entry) THEN PRICED_CALCULATIONS_BY_SHAPE[entry.type].coupon_bearing
  ELSE {}

\* What the capability document advertises for a product's shape is what the
\* pipeline prices, in both directions: no value is given that is not
\* advertised, and with a curve an advertised calculation of a sound row is
\* answered by its pricer, never by "no pricer yet".
AdvertisedIsPriced ==
  items # Nothing =>
    \A i \in DOMAIN items : LET calcs == items[i].calculations IN
      /\ \A c \in CALCULATIONS \ {"accruedInterest"} :
           calcs[c].status = "ok" => market # Nothing /\ c \in Advertised(joined[i].entry)
      /\ \A c \in Advertised(joined[i].entry) :
           market # Nothing /\ items[i].refusal = Nothing /\ calcs["accruedInterest"].status # "failed"
             => calcs[c].reason # NO_PRICER_AT_THIS_STAGE

\* The outcomes of one note (no equity, whose terms nothing keeps from having a
\* schedule) agree, although each is attempted on its own and the
\* row's accrued interest is normalized elsewhere: a price and its sensitivity
\* are given or refused together and for one reason, and when both the price
\* and the accrued interest are given, the accrued in the price is the accrued
\* reported, and the coupon that accrues is still to be paid.
NoteOutcomesAgree ==
  items # Nothing =>
    \A i \in DOMAIN items :
      LET npv == items[i].calculations["npv"]
          rate == items[i].calculations["rateSensitivity"]
          accrued == items[i].calculations["accruedInterest"]
      IN joined[i].entry # Nothing /\ IsNote(joined[i].entry) /\ ~IsEquity(joined[i].entry) =>
           /\ <<npv.status, npv.reason>> = <<rate.status, rate.reason>>
           /\ npv.status = "ok" /\ accrued.status = "ok" => npv.value.accrued = accrued.value.cents
           /\ npv.status = "ok" =>
                /\ npv.value.flows = rate.value.flows
                /\ npv.value.accrued # 0 /\ npv.value.source = "recomputed-schedule"
                     => DOMAIN npv.value.flows.coupons # {}

\* What a bundle's items say is consistent with each other and with what is advertised.
OutcomesAgree == AdvertisedIsPriced /\ NoteOutcomesAgree
=============================================================================
