-------------------------- MODULE ExposureProfiles --------------------------
(***************************************************************************)
(* The exposure of a simulated portfolio, trade by trade and netted        *)
(* (src/engine/risk/counterparty/exposure.py).  A book's trade is its      *)
(* value today, its last day and its deflated float64 value on each path   *)
(* and date, with how far the run's precision is off there; the numeraire  *)
(* and the dtypes are left out, a discount factor is the whole number it   *)
(* divides by, and a year fraction is a number of days.  A mean is a pair  *)
(* <<sum, n>>; entry 1 of a profile is today and the others are the dates. *)
(***************************************************************************)
EXTENDS SampleEstimates

CONSTANTS Books,      \* books with their dates, growth (1/P), quantiles, replicates and paired count
          BASEL_DAY   \* the Basel horizon, in days from the as-of date

VARIABLES book,      \* the book, or Unsent
          netted,    \* the running sum of its columns
          exact,     \* that of its paired columns
          profiles,  \* the profiles of the trades added so far
          netting    \* the netting set's profile, or Unsent

exposureVars == <<book, netted, exact, profiles, netting>>

---------------------------------------------------------------------------
(* The statistics of one column: a value per path and date. *)

Positive(v) == Max({v, 0})
AtDate(column, d) == [k \in DOMAIN column |-> column[k][d]]
PositivePart(column, d, sign) == [k \in DOMAIN column |-> Positive(sign * column[k][d])]

(* Mean of max(sign V, 0) at a date: of the column alone, or corrected by its paired float64 sample. *)
MeanPositive(column, high, d, sign) ==
  IF high = Unsent THEN MeanOf(PositivePart(column, d, sign))
  ELSE two_level_mean(PositivePart(column, d, sign), PositivePart(high, d, sign), book.replicates).value

Whole(v, like) == <<v * like[2], like[2]>>

PositiveProfile(column, high, npv0, sign) ==
  LET dates == [d \in DOMAIN book.dates |-> MeanPositive(column, high, d, sign)]
  IN  <<Whole(Positive(sign * npv0), dates[1])>> \o dates

(* floor(q (S - 1) + 1/2) of the sorted paths, floored at nothing. *)
PfeIndex(size, q) == (2 * q[1] * (size - 1) + q[2]) \div (2 * q[2])
Pfe(values, q) == Positive(SortSeq(values, <)[PfeIndex(Len(values), q) + 1])

Largest(means) == CHOOSE m \in means : \A other \in means : ~LessMean(m, other)
CumulativeMax(means) == [t \in DOMAIN means |-> Largest({means[u] : u \in 1..t})]

---------------------------------------------------------------------------
(* The time-weighted figures, and the Basel ones. *)

Days == <<0>> \o book.dates
Alive(maturity, t) == maturity = Unsent \/ Days[t] <= maturity

(* Up to each date while the trade lives: the sum of the means by the days to each, over its days. *)
TimeWeighted(means, maturity) ==
  [t \in DOMAIN means |->
     CASE t = 1 -> means[1]
       [] t > 1 /\ Alive(maturity, t) ->
            <<SumOf([u \in 1..t - 1 |-> means[u + 1][1] * (Days[u + 1] - Days[u])]), means[t][2] * Days[t]>>
       [] OTHER -> <<0, 1>>]

(* Mutant: a date on the horizon is past it. *)
AtBaselDay_BeforeIt(means, maturity) ==
  LET inside == {t \in 2..Len(means) : Days[t] < BASEL_DAY /\ Alive(maturity, t)}
  IN  IF inside = {} THEN <<0, 1>> ELSE means[Max(inside)]

AtBaselDay(means, maturity) ==
  LET inside == {t \in 2..Len(means) : Days[t] <= BASEL_DAY /\ Alive(maturity, t)}
  IN  IF inside = {} THEN <<0, 1>> ELSE means[Max(inside)]

DiscountedMeans(epe) == [t \in DOMAIN epe |-> IF t = 1 THEN epe[1] ELSE <<epe[t][1] * book.growth[t - 1], epe[t][2]>>]

PfeProfile(column, npv0, q) == <<Positive(npv0)>> \o [d \in DOMAIN book.dates |-> Pfe(AtDate(column, d), q)]

(* The figures that read the expected exposure ee_b and its running maximum eee_b. *)
BaselFigures(ee_b, eee_b, maturity) ==
  LET epe_b == TimeWeighted(ee_b, maturity)
      eepe_b == TimeWeighted(eee_b, maturity)
  IN  [ee_b |-> ee_b, eee_b |-> eee_b, epe_b |-> epe_b, eepe_b |-> eepe_b,
       basel_epe |-> AtBaselDay(epe_b, maturity), basel_eepe |-> AtBaselDay(eepe_b, maturity)]

FiguresOf(epe, maturity) ==
  LET ee_b == DiscountedMeans(epe)
  IN  [epe |-> epe] @@ BaselFigures(ee_b, CumulativeMax(ee_b), maturity)

exposure_profile(column, npv0, maturity, high) ==
  [ene |-> PositiveProfile(column, high, npv0, -1), pfe |-> [q \in book.quantiles |-> PfeProfile(column, npv0, q)]]
  @@ FiguresOf(PositiveProfile(column, high, npv0, 1), maturity)

---------------------------------------------------------------------------
(* The columns, one at a time. *)

Plus(total, column) == [k \in DOMAIN column |-> [d \in DOMAIN column[k] |-> total[k][d] + column[k][d]]]
NoColumn(column) == [k \in DOMAIN column |-> [d \in DOMAIN column[k] |-> 0]]

AtRun(trade) == Plus(trade.value, trade.off)

(* The paths run again at float64, or Unsent. *)
PairedColumn(trade) ==
  IF book.paired = 0 THEN Unsent
  ELSE Picked(trade.value, paired_indices(Len(trade.value), book.paired, book.replicates))

ExposureInit == book = Unsent /\ netted = <<>> /\ exact = <<>> /\ profiles = <<>> /\ netting = Unsent

OpenBook(b) ==
  /\ book = Unsent
  /\ book' = b
  /\ netted' = NoColumn(b.trades[1].value)
  /\ exact' = IF b.paired = 0 THEN Unsent ELSE NoColumn(SubSeq(b.trades[1].value, 1, b.paired))
  /\ UNCHANGED <<profiles, netting>>

(* The next trade's column is added to the netting set and its own profile taken. *)
AddColumn ==
  /\ book # Unsent /\ Len(profiles) < Len(book.trades)
  /\ LET trade == book.trades[Len(profiles) + 1]
     IN  /\ netted' = Plus(netted, AtRun(trade))
         /\ exact' = IF exact = Unsent THEN Unsent ELSE Plus(exact, PairedColumn(trade))
         /\ profiles' = Append(profiles, exposure_profile(AtRun(trade), trade.npv0, trade.maturity, PairedColumn(trade)))
  /\ UNCHANGED <<book, netting>>

NetBook ==
  /\ book # Unsent /\ Len(profiles) = Len(book.trades) /\ netting = Unsent
  /\ netting' = exposure_profile(netted, SumOf([n \in DOMAIN book.trades |-> book.trades[n].npv0]), Unsent, exact)
  /\ UNCHANGED <<book, netted, exact, profiles>>

ExposureNext == (\E b \in Books : OpenBook(b)) \/ AddColumn \/ NetBook

---------------------------------------------------------------------------
(* Properties. *)

TotalOf(name, t) ==
  LET over(n) == profiles[n][name][t]
  IN  <<SumOf([n \in DOMAIN profiles |-> over(n)[1]]), over(1)[2]>>

Netted == netting # Unsent
EveryProfile == Range(profiles) \cup (IF Netted THEN {netting} ELSE {})
Periods == DOMAIN netting.epe

(* EPE less ENE is the (two-level) mean value, so over the trades it adds up to the netting set's;
   and, uncorrected, netting never makes EPE or ENE larger than the trades' together. *)
NettingAddsUp ==
  Netted => \A t \in Periods :
    /\ SameMean(MeanMinus(netting.epe[t], netting.ene[t]), MeanMinus(TotalOf("epe", t), TotalOf("ene", t)))
    /\ book.paired = 0 => \A name \in {"epe", "ene"} : ~LessMean(TotalOf(name, t), netting[name][t])

(* The effective profile never falls and bounds the time-weighted ones (exposure_profile). *)
EffectiveIsAbove ==
  \A p \in EveryProfile : \A t \in DOMAIN p.epe :
    /\ ~LessMean(p.eee_b[t], p.ee_b[t])
    /\ t > 1 => ~LessMean(p.eee_b[t], p.eee_b[t - 1])
    /\ ~LessMean(p.eepe_b[t], p.epe_b[t]) /\ ~LessMean(p.eee_b[t], p.eepe_b[t])

(* A trade past its last day has no time-weighted exposure (_time_weighted). *)
DeadHasNone ==
  \A n \in DOMAIN profiles : \A t \in DOMAIN Days :
    (t > 1 /\ ~Alive(book.trades[n].maturity, t)) =>
      profiles[n].epe_b[t][1] = 0 /\ profiles[n].eepe_b[t][1] = 0

(* Day by day to the last simulated date inside the horizon on which the trade lives, each day at
   the exposure of the first date not before it, averaged; nothing without such a date. *)
BaselAverage(means, maturity) ==
  LET lives == {d \in Range(book.dates) : d <= BASEL_DAY /\ (maturity = Unsent \/ d <= maturity)}
      FirstFrom(day) == Min({t \in 2..Len(means) : Days[t] >= day})
  IN  IF lives = {} THEN <<0, 1>>
      ELSE <<SumOf([day \in 1..Max(lives) |-> means[FirstFrom(day)][1]]), means[2][2] * Max(lives)>>

(* The Basel figures are the averages of the expected and of the effective exposure up to the last
   date inside the horizon, of a trade that dies before it up to its own last, and the effective one
   is the larger (ORE's baselMaxEEPDate; _time_weighted). *)
BaselIsInsideTheHorizon ==
  \A n \in DOMAIN profiles \cup (IF Netted THEN {0} ELSE {}) :
    LET p == IF n = 0 THEN netting ELSE profiles[n]
        maturity == IF n = 0 THEN Unsent ELSE book.trades[n].maturity
    IN  /\ SameMean(p.basel_epe, BaselAverage(p.ee_b, maturity))
        /\ SameMean(p.basel_eepe, BaselAverage(p.eee_b, maturity))
        /\ ~LessMean(p.basel_eepe, p.basel_epe)

(* A higher quantile never gives a smaller PFE. *)
PfeIsOrdered ==
  \A p \in EveryProfile : \A q, other \in book.quantiles :
    q[1] * other[2] <= other[1] * q[2] => \A t \in DOMAIN p.epe : p.pfe[q][t] <= p.pfe[other][t]

(* The corrected EPE and ENE of a run whose rounding moves nothing, and those of a run whose every
   path runs again, are the float64 run's. *)
PairCorrects ==
  (Netted /\ book.paired > 0) =>
    LET quiet == \A n \in DOMAIN book.trades : \A k \in DOMAIN netted : \A d \in DOMAIN book.dates :
                   book.trades[n].off[k][d] = 0
    IN  (quiet \/ book.paired = Len(netted)) =>
          \A n \in DOMAIN profiles : \A d \in DOMAIN book.dates :
            /\ SameMean(profiles[n].epe[d + 1], MeanPositive(book.trades[n].value, Unsent, d, 1))
            /\ SameMean(profiles[n].ene[d + 1], MeanPositive(book.trades[n].value, Unsent, d, -1))

ProfilesHold ==
  NettingAddsUp /\ EffectiveIsAbove /\ DeadHasNone /\ BaselIsInsideTheHorizon /\ PfeIsOrdered /\ PairCorrects
=============================================================================
