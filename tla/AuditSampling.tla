------------------------------ MODULE AuditSampling ------------------------------
(***************************************************************************)
(* Statistical samples (engine/sampling.py): rows drawn at random, or      *)
(* monetary units drawn at equal intervals over the amounts of the rows.   *)
(* Amounts are integers; the interval total / size is kept as a fraction   *)
(* by measuring cumulated amounts and targets in units of 1 / size.        *)
(***************************************************************************)
EXTENDS Integers, Sequences, FiniteSets

CONSTANTS
  Populations,     \* the lists of amounts that may be sent
  SampleSizes,     \* the sizes an attribute sample may be asked for
  ConfidenceFactor, Denominator  \* planning: factor, and misstatement left

ASSUME PlanningAssumption ==
  /\ Populations \subseteq Seq(Int) /\ SampleSizes \subseteq Int
  /\ ConfidenceFactor \in Nat /\ Denominator \in Nat \ {0}

VARIABLES
  phase,       \* "idle", "sum", "pick", "done" or "error"
  amounts,     \* the amounts of the population, in its order
  i,           \* rows passed over in the current loop
  total,       \* sum of the positive amounts passed over
  prefix,      \* the values total went through (ghost)
  size,        \* rows to pick
  start,       \* the first target
  cumulative,  \* sum of the positive amounts passed over by the second loop
  picks        \* the rows picked, by position

sampleVars == <<phase, amounts, i, total, prefix, size, start, cumulative, picks>>

Positive(amount) == IF amount > 0 THEN amount ELSE 0
SmallerOf(a, b) == IF a < b THEN a ELSE b

SampleInit ==
  /\ phase = "idle" /\ amounts = <<>> /\ i = 0 /\ total = 0 /\ prefix = <<>>
  /\ size = 0 /\ start = 0 /\ cumulative = 0 /\ picks = <<>>

\* attribute_sampling: any rows, in the order of the population; a size that
\* is not positive is refused, one beyond the population is cut.
AttributeSample(population, n) ==
  /\ amounts' = population
  /\ \/ n <= 0 /\ phase' = "error" /\ UNCHANGED <<size, picks>>
     \/ /\ n > 0 /\ phase' = "done"
        /\ size' = SmallerOf(n, Len(population))
        /\ picks' \in [1..size' -> 1..Len(population)]
        /\ \A a, b \in 1..size' : a < b => picks'[a] < picks'[b]
  /\ UNCHANGED <<i, total, prefix, start, cumulative>>

RequestAttribute(population, n) == phase = "idle" /\ AttributeSample(population, n)

RequestMus(population) ==
  /\ phase = "idle"
  /\ amounts' = population
  /\ phase' = IF population = <<>> THEN "done" ELSE "sum"
  /\ UNCHANGED <<i, total, prefix, size, start, cumulative, picks>>

SumAmount ==
  /\ phase = "sum" /\ i < Len(amounts)
  /\ i' = i + 1
  /\ total' = total + Positive(amounts[i + 1])
  /\ prefix' = Append(prefix, total')
  /\ UNCHANGED <<phase, amounts, size, start, cumulative, picks>>

\* A book without value is sampled by rows instead.
NoValue ==
  /\ phase = "sum" /\ i = Len(amounts) /\ total <= 0
  /\ AttributeSample(amounts, SmallerOf(25, Len(amounts)))

Planned(value) ==
  LET wanted == (ConfidenceFactor * value + Denominator - 1) \div Denominator
  IN IF wanted < 1 THEN 1 ELSE wanted

\* A variant that draws the start from two intervals.
PlanFarStart ==
  /\ phase = "sum" /\ i = Len(amounts) /\ total > 0
  /\ size' = SmallerOf(Planned(total), Len(amounts))
  /\ start' \in 0..(2 * total)
  /\ i' = 0 /\ phase' = "pick"
  /\ UNCHANGED <<amounts, total, prefix, cumulative, picks>>

Plan ==
  /\ phase = "sum" /\ i = Len(amounts) /\ total > 0
  /\ size' = SmallerOf(Planned(total), Len(amounts))
  /\ start' \in 0..total
  /\ i' = 0 /\ phase' = "pick"
  /\ UNCHANGED <<amounts, total, prefix, cumulative, picks>>

\* A variant that is one interval ahead.
TargetReachedEarly == cumulative * size + total >= start + Len(picks) * total /\ Len(picks) < size

\* The next target lies within the amounts passed over.
TargetReached == cumulative * size >= start + Len(picks) * total /\ Len(picks) < size

PickRow ==
  /\ phase = "pick" /\ i > 0 /\ TargetReached
  /\ picks' = Append(picks, i)
  /\ UNCHANGED <<phase, amounts, i, total, prefix, size, start, cumulative>>

NextRow ==
  /\ phase = "pick" /\ i < Len(amounts) /\ ~(i > 0 /\ TargetReached)
  /\ i' = i + 1
  /\ cumulative' = cumulative + Positive(amounts[i + 1])
  /\ UNCHANGED <<phase, amounts, total, prefix, size, start, picks>>

Finish ==
  /\ phase = "pick" /\ i = Len(amounts) /\ ~TargetReached
  /\ phase' = "done"
  /\ UNCHANGED <<amounts, i, total, prefix, size, start, cumulative, picks>>

SampleNext ==
  \/ \E population \in Populations : RequestMus(population)
  \/ \E population \in Populations, n \in SampleSizes : RequestAttribute(population, n)
  \/ SumAmount \/ NoValue \/ Plan \/ PickRow \/ NextRow \/ Finish

SampleSpec == SampleInit /\ [][SampleNext]_sampleVars
-----------------------------------------------------------------------------
\* The loops count rows of the population, and picks name rows passed over.
SampleTypeOK ==
  /\ phase \in {"idle", "sum", "pick", "done", "error"}
  /\ amounts \in Seq(Int) /\ i \in 0..Len(amounts)
  /\ total \in Nat /\ cumulative \in Nat /\ size \in Nat /\ start \in Nat
  /\ prefix \in Seq(Nat) /\ picks \in Seq(1..Len(amounts))

\* A sample holds as many rows as were planned: the last target, whatever the
\* random start, is never beyond the book value.
SampleIsFull == phase = "done" => Len(picks) = size

\* A row is picked as often as its share of the book value entitles it to,
\* give or take once; a row without value at most once.
Times(row) == Cardinality({k \in DOMAIN picks : picks[k] = row})
SelectionIsProportional ==
  (phase = "done" /\ total > 0) => \A row \in 1..Len(amounts) :
    /\ Times(row) * total <= Positive(amounts[row]) * size + total
    /\ Positive(amounts[row]) * size <= Times(row) * total + total
===============================================================================
