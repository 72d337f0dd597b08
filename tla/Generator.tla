------------------------------- MODULE Generator -------------------------------
(* The random number generator that all workers share (randnum/generator.hpp): *)
(* one boost engine behind accessMutex, and the choice by weight.              *)
(*                                                                             *)
(* The engine's state is the number of outputs taken from it; how many a       *)
(* distribution takes for a sample is boost's affair and left open.  A double  *)
(* is a natural number with at most Precision significant bits, in units of    *)
(* some small power of two; sums and differences are rounded to nearest, ties  *)
(* to even.                                                                    *)
EXTENDS Integers, Sequences, FiniteSetsExt

CONSTANTS Workers,        \* the threads that use the generator
          Period,         \* outputs of the engine before it repeats itself
          PositionLimit,  \* values of SABOT_UINTN, in which position wraps
          MaxOutputs,     \* bound on the outputs taken for one sample
          Precision       \* significant bits of a double; 53 in the code

ASSUME PeriodAssumption    == Period \in Nat \ {0} /\ PositionLimit \in Nat \ {0}
ASSUME OutputsAssumption   == MaxOutputs \in Nat \ {0}
ASSUME PrecisionAssumption == Precision \in Nat \ {0}

Nobody == 0
ASSUME NobodyAssumption == Nobody \notin Workers

VARIABLES holder,    \* accessMutex: the worker inside, or Nobody
          rng,       \* the engine
          position,
          seen,      \* the engine as each worker read it for its sample
          drawn,     \* history: outputs given to workers so far
          samples    \* history: samples given to workers so far

generatorVars == <<holder, rng, position, seen, drawn, samples>>

InitGenerator ==
    /\ holder = Nobody /\ rng = 0 /\ position = 0
    /\ seen = [w \in Workers |-> 0]
    /\ drawn = 0 /\ samples = 0

\* variant: no lock, as with SABOT_NTHRD_RNG
BeginSampleUnlocked(w) ==
    /\ holder' = w
    /\ position' = (position + 1) % PositionLimit
    /\ seen' = [seen EXCEPT ![w] = rng]
    /\ UNCHANGED <<rng, drawn, samples>>

\* get_uniform_integer, get_uniform_real: lock_t, position++ and into the distribution
BeginSample(w) ==
    /\ holder = Nobody
    /\ holder' = w
    /\ position' = (position + 1) % PositionLimit
    /\ seen' = [seen EXCEPT ![w] = rng]
    /\ UNCHANGED <<rng, drawn, samples>>

\* the distribution returns after it has taken some outputs, and the lock goes
EndSample(w, outputs) ==
    /\ rng' = (seen[w] + outputs) % Period
    /\ drawn' = (drawn + outputs) % Period
    /\ samples' = (samples + 1) % PositionLimit
    /\ holder' = Nobody
    /\ seen' = [seen EXCEPT ![w] = 0]
    /\ UNCHANGED position

-----------------------------------------------------------------------------
(* Reals.                                                                     *)

Pow2[k \in Nat] == IF k = 0 THEN 1 ELSE 2 * Pow2[k - 1]

\* all smaller numbers have Precision significant bits at most
Limit == Pow2[Precision]

\* a number rounded to Precision significant bits
Fl(x) ==
    IF x < Limit THEN x
    ELSE LET e == CHOOSE e \in 1 .. x : Limit * Pow2[e - 1] <= x /\ x < Limit * Pow2[e]
             unit == Pow2[e]
             q == x \div unit
             r == 2 * (x % unit)
         IN  (IF r > unit \/ (r = unit /\ q % 2 = 1) THEN q + 1 ELSE q) * unit

\* uniform_real_distribution: what it may return.  It tries again until its
\* result is below the upper bound, so on an empty range it never returns.
RealSamples(lower, upper) == {v \in lower .. upper - 1 : Fl(v) = v}

\* std::accumulate
Accumulate(weights) ==
    LET sum[i \in 0 .. Len(weights)] == IF i = 0 THEN 0 ELSE Fl(sum[i - 1] + weights[i])
    IN  sum[Len(weights)]

Unreached == -1

\* variant: <= where < belongs
WeightedIntegerClosed(weights, sample) ==
    LET left[i \in 0 .. Len(weights)] ==
            IF i = 0 THEN sample ELSE Fl(left[i - 1] - weights[i])
        hits == {i \in 1 .. Len(weights) : left[i - 1] <= weights[i]}
    IN  IF hits = {} THEN Unreached ELSE Min(hits) - 1

\* get_weighted_integer: weights are taken off the sample until one is larger
\* than what is left.  Unreached is the logic_error at its end.
WeightedInteger(weights, sample) ==
    LET left[i \in 0 .. Len(weights)] ==
            IF i = 0 THEN sample ELSE Fl(left[i - 1] - weights[i])
        hits == {i \in 1 .. Len(weights) : left[i - 1] < weights[i]}
    IN  IF hits = {} THEN Unreached ELSE Min(hits) - 1

\* reference: the weights laid end to end, and the one that the sample falls on
Sums(weights) ==
    LET sum[i \in 0 .. Len(weights)] == IF i = 0 THEN 0 ELSE sum[i - 1] + weights[i]
    IN  sum

Total(weights) == Sums(weights)[Len(weights)]

FallsOn(weights, sample, index) ==
    /\ index \in 0 .. Len(weights) - 1
    /\ Sums(weights)[index] <= sample /\ sample < Sums(weights)[index + 1]
=============================================================================
