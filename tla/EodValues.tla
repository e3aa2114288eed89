----------------------------- MODULE EodValues -----------------------------
(***************************************************************************)
(* The fields of the files of an end-of-day bundle, and the outcome of one *)
(* calculation (src/engine/traderx/result.py).                             *)
(***************************************************************************)
EXTENDS Integers, Sequences, FiniteSets, SequencesExt

CONSTANT Nothing   \* None, and the JSON null

\* A date is a day; an absent one is NoDate, and NotADate is text that does not
\* parse or names no day.
NoDate   == -1
NotADate == -2

IsDate(d) == d \in Nat

\* A numeric field: absent, blank, malformed, or a number.
Absent    == [text |-> "absent", value |-> 0]
Blank     == [text |-> "blank", value |-> 0]
Malformed == [text |-> "malformed", value |-> 0]
Number(n) == [text |-> "number", value |-> n]

Given(field)   == field.text = "number"
Missing(field) == field.text \in {"absent", "blank"}

CALCULATIONS == {"npv", "accruedInterest", "rateSensitivity", "rateGamma", "theta", "vega", "varEs"}
STATUSES     == {"ok", "unsupported", "unavailable", "failed", "not-applicable"}

\* Only an ok outcome carries a value; the others but not-applicable a reason.
ok(value)           == [status |-> "ok", reason |-> Nothing, value |-> value]
unsupported(reason) == [status |-> "unsupported", reason |-> reason, value |-> Nothing]
unavailable(reason) == [status |-> "unavailable", reason |-> reason, value |-> Nothing]
failed(reason)      == [status |-> "failed", reason |-> reason, value |-> Nothing]
not_applicable      == [status |-> "not-applicable", reason |-> Nothing, value |-> Nothing]
=============================================================================
