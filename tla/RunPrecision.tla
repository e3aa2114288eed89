---------------------------- MODULE RunPrecision ----------------------------
(***************************************************************************)
(* The precision of a run: what a policy may ask for when it is built, and *)
(* what the executing worker checks of it (src/engine/precision/policy.py, *)
(* execution.py, formats.py, arithmetic.py, products.py).  One row of the  *)
(* format table stands for its kind: float16 and FP8 behave as bfloat16,   *)
(* every single pass as bfloat16_1x.  Product options stay at their        *)
(* defaults, the GPU has every unit, and the worker has enabled x64.       *)
(***************************************************************************)
EXTENDS Integers, FiniteSets, Sequences, Functions

CONSTANT BLOCK   \* paths to a storage block

ASSUME BlockAssumption == BLOCK \in Nat \ {0}

---------------------------------------------------------------------------
(* The format table. *)

Format(bits, array, scaled, product) ==
  [bits |-> bits, array |-> array, scaled |-> scaled, product |-> product]

FORMATS == [float64       |-> Format(64, TRUE, FALSE, "dtype"),
            float32       |-> Format(32, TRUE, FALSE, "dtype"),
            bfloat16      |-> Format(16, TRUE, TRUE, "dtype"),
            tensorfloat32 |-> Format(32, FALSE, FALSE, "tensorfloat32"),
            bfloat16_3x   |-> Format(32, FALSE, FALSE, "bfloat16_3x"),
            bfloat16_1x   |-> Format(16, FALSE, FALSE, "dtype")]

below_float32(name) == FORMATS[name].product # "dtype" \/ FORMATS[name].bits < 32

(* What multiplies in the format's own units on a platform. *)
Native(name, platform) ==
  IF below_float32(name) THEN platform \in {"gpu", "tpu"} ELSE ~(platform = "tpu" /\ name = "float64")

---------------------------------------------------------------------------
(* One stage, and the whole policy. *)

Stage(storage, compute, accumulate) ==
  [storage |-> storage, compute |-> compute, accumulate |-> accumulate, compute_rounding |-> "nearest"]
Throughout(name) == Stage(name, name, name)

ArithmeticAccepted(stage) ==
  LET compute == FORMATS[stage.compute]
      accumulate == FORMATS[stage.accumulate]
  IN  /\ accumulate.array /\ accumulate.bits >= 32 /\ accumulate.bits >= compute.bits
      /\ below_float32(stage.compute) => stage.accumulate = "float32"
      /\ stage.compute_rounding = "stochastic" =>
           below_float32(stage.compute) /\ compute.product # "bfloat16_3x"

StageAccepted(stage) == FORMATS[stage.storage].array /\ ArithmeticAccepted(stage)

STAGES == {"simulation", "market", "pricing"}
ROLES  == {"calibration", "levels", "initial_values", "reductions", "greeks", "output"}

NoOverride == [key \in {} |-> Throughout("float64")]

(* A policy with every default of its profile filled in. *)
Profile(name) ==
  [profile |-> name, stages |-> [s \in STAGES |-> Throughout(name)], by_product |-> NoOverride,
   by_trade |-> NoOverride, rounding |-> "nearest", offset |-> "block", paired |-> 0,
   storage_scaling |-> "power_of_two", internal |-> [r \in ROLES |-> name],
   backend |-> "default", mode |-> "native"]

StagesOf(p) == Range(p.stages) \cup Range(p.by_product) \cup Range(p.by_trade)

SomeScaled(p) == \E s \in StagesOf(p) : FORMATS[s.storage].scaled

(* paired is a number of quarters of the paths. *)
PolicyAccepted(p) ==
  /\ \A s \in StagesOf(p) : StageAccepted(s)
  /\ SomeScaled(p) /\ p.storage_scaling = "none" => p.offset = "none"
  /\ p.rounding = "stochastic" => SomeScaled(p)
  /\ p.offset = "none" => SomeScaled(p)
  /\ p.paired \in 0..4
  /\ \A r \in ROLES : p.internal[r] \in {"float32", "float64"}

(* The stage a trade is priced in: its own override, its product's, the run's. *)
precision_for(p, trade) ==
  CASE trade.id \in DOMAIN p.by_trade -> p.by_trade[trade.id]
    [] trade.id \notin DOMAIN p.by_trade /\ trade.product \in DOMAIN p.by_product -> p.by_product[trade.product]
    [] OTHER -> p.stages["pricing"]

OverridesAccepted(p, trades, products) ==
  /\ DOMAIN p.by_product \subseteq products
  /\ DOMAIN p.by_trade \subseteq {t.id : t \in trades}

---------------------------------------------------------------------------
(* Sampling: how many paths are run again at float64, and where a replicate may end. *)

ReplicatesAccepted(paths, replicates) ==
  replicates >= 1 /\ paths >= replicates /\ paths % replicates = 0

CeilDiv(a, b) == (a + b - 1) \div b

paired_paths(paths, quarters) ==
  IF quarters = 0 THEN 0
  ELSE LET whole == BLOCK * CeilDiv(quarters * paths, 4 * BLOCK)
       IN  IF whole < paths THEN whole ELSE paths

paired_count(paths, quarters, replicates) == replicates * paired_paths(paths \div replicates, quarters)

(* A sample of replicates that pairs or scales is cut into whole blocks. *)
SamplingAccepted(p, paths, replicates) ==
  /\ ReplicatesAccepted(paths, replicates)
  /\ replicates > 1 /\ (p.paired > 0 \/ (p.storage_scaling # "none" /\ SomeScaled(p)))
       => (paths \div replicates) % BLOCK = 0

---------------------------------------------------------------------------
(* What the executing worker checks, of the stages and roles the run names. *)

PricingStages(p, trades) == {precision_for(p, t) : t \in trades}

SelectedStages(p, stages, trades) ==
  {p.stages[s] : s \in stages \ {"pricing"}} \cup (IF "pricing" \in stages THEN PricingStages(p, trades) ELSE {})

StageFormats(stage) == {stage.storage, stage.compute, stage.accumulate}

CheckedFormats(p, stages, trades, roles) ==
  {p.internal[r] : r \in roles}
  \cup (UNION {StageFormats(s) : s \in SelectedStages(p, stages, trades)})
  \cup (IF p.paired > 0 THEN {"float64"} ELSE {})

FormatRuns(name, platform) == ~(name = "float64" /\ platform = "tpu")

ProductRuns(stage, mode, platform) == mode = "native" => Native(stage.compute, platform)

ExecutionAccepted(p, stages, trades, roles, platform) ==
  /\ p.backend \in {"default", platform}
  /\ \A name \in CheckedFormats(p, stages, trades, roles) : FormatRuns(name, platform)
  /\ \A s \in SelectedStages(p, stages, trades) : ProductRuns(s, p.mode, platform)
=============================================================================
