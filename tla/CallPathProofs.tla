---------------------------- MODULE CallPathProofs ----------------------------
(* Proofs about CallPath for every number of workers and every size of the    *)
(* table.                                                                     *)
EXTENDS CallPath, DispatchProofs, FiniteSetTheorems

-----------------------------------------------------------------------------
(* The generator.                                                            *)

LEMMA Modulo ==
  ASSUME NEW m \in Nat \ {0}, NEW n \in Nat
  PROVE  /\ n % m \in 0 .. m - 1 /\ (n \in 0 .. m - 1 => n % m = n)
         /\ (n % m) % m = n % m
  OBVIOUS

LEMMA DrawStep ==
  ASSUME DrawInv, ArrayInv, [Next]_vars
  PROVE  DrawInv'
<1>0. /\ Period \in Nat \ {0} /\ PositionLimit \in Nat \ {0} /\ Nobody \notin Workers
      /\ step \in [Workers -> {"idle", "calling", "sampling", "drawing"}]
      /\ seen \in [Workers -> 0 .. Period - 1] /\ rng \in 0 .. Period - 1
      /\ samples \in 0 .. PositionLimit - 1
  BY PeriodAssumption, NobodyAssumption DEF DrawInv, ArrayInv
<1>1. ASSUME UNCHANGED generatorVars,
             \A w \in Workers : step'[w] = "drawing" <=> step[w] = "drawing"
      PROVE  DrawInv'
  BY <1>1 DEF DrawInv, generatorVars
<1>2. ASSUME NEW w \in Workers, Answer(w), step[w] # "drawing"
      PROVE  \A v \in Workers : step'[v] = "drawing" <=> step[v] = "drawing"
  BY <1>0, <1>2 DEF Answer
<1>3. ASSUME NEW w \in Workers, step[w] # "drawing", BeginSample(w), step' = [step EXCEPT ![w] = "drawing"]
      PROVE  DrawInv'
  <2>1. /\ holder = Nobody /\ holder' = w /\ w # Nobody
        /\ position' = (position + 1) % PositionLimit
        /\ seen' = [seen EXCEPT ![w] = rng]
        /\ UNCHANGED <<rng, drawn, samples>>
    BY <1>0, <1>3 DEF BeginSample
  <2>2. position = samples
    <3>1. position = (samples + 0) % PositionLimit /\ samples + 0 = samples /\ samples \in Nat
      BY <1>0, <2>1 DEF DrawInv
    <3>2. samples % PositionLimit = samples
      BY <1>0, <3>1, Modulo
    <3> QED
      BY <3>1, <3>2
  <2>3. seen' \in [Workers -> 0 .. Period - 1] /\ seen'[w] = rng
    BY <1>0, <2>1
  <2>4. \A v \in Workers : step'[v] = "drawing" <=> holder' = v
    BY <1>0, <1>3, <2>1 DEF DrawInv
  <2> QED
    BY <1>0, <2>1, <2>2, <2>3, <2>4 DEF DrawInv
<1>4. ASSUME NEW w \in Workers, step[w] = "drawing", NEW k \in 1 .. MaxOutputs,
             EndSample(w, k), NEW label, step' = [step EXCEPT ![w] = label], label # "drawing"
      PROVE  DrawInv'
  <2>1. /\ holder = w /\ holder' = Nobody /\ UNCHANGED position
        /\ rng' = (seen[w] + k) % Period /\ drawn' = (drawn + k) % Period
        /\ samples' = (samples + 1) % PositionLimit
        /\ seen' = [seen EXCEPT ![w] = 0]
    BY <1>4 DEF EndSample, DrawInv
  <2>2. rng' = drawn' /\ rng' \in 0 .. Period - 1
    <3>1. seen[w] = drawn /\ k \in Nat /\ drawn \in Nat
      BY <1>0, <2>1, OutputsAssumption DEF DrawInv
    <3>2. drawn + k \in Nat
      BY <3>1
    <3> QED
      BY <1>0, <2>1, <3>1, <3>2, Modulo
  <2>3. samples' \in 0 .. PositionLimit - 1 /\ position' = samples' /\ position' = samples' % PositionLimit
    <3>1. position = (samples + 1) % PositionLimit
      BY <1>0, <2>1 DEF DrawInv
    <3>2. samples + 1 \in Nat
      BY <1>0
    <3> QED
      BY <1>0, <2>1, <3>1, <3>2, Modulo
  <2>4. \A v \in Workers : step'[v] = "drawing" <=> holder' = v
    BY <1>0, <1>4, <2>1 DEF DrawInv
  <2>5. seen' \in [Workers -> 0 .. Period - 1]
    BY <1>0, <2>1
  <2> QED
    BY <1>0, <2>1, <2>2, <2>3, <2>4, <2>5 DEF DrawInv
<1>5. CASE UNCHANGED vars
  BY <1>1, <1>5 DEF vars, workerVars
<1>6. CASE Register
  BY <1>1, <1>6 DEF Register, workerVars
<1>7. ASSUME NEW w \in Workers, MissingTerminator(w) PROVE DrawInv'
  BY <1>1, <1>2, <1>7 DEF MissingTerminator
<1>8. ASSUME NEW w \in Workers, Receive(w) PROVE DrawInv'
  <2>1. CASE \E r \in Requests : NotFound(w, r)
    BY <1>1, <1>2, <1>8, <2>1 DEF Receive, NotFound
  <2>2. CASE \E r \in Requests : \E i, m : Route(w, r, i, m)
    BY <1>0, <1>1, <1>8, <2>2 DEF Receive, Route
  <2> QED
    BY <1>8, <2>1, <2>2 DEF Receive
<1>9. ASSUME NEW w \in Workers, Serve(w) PROVE DrawInv'
  <2>1. CASE Process(w)
    BY <1>1, <1>2, <2>1 DEF Process
  <2>2. CASE ProcessThrows(w)
    BY <1>1, <2>2 DEF ProcessThrows, Abort, workerVars
  <2>3. CASE MeasureInstruction(w) \/ NextSample(w)
    BY <1>3, <2>3 DEF MeasureInstruction, NextSample
  <2>4. ASSUME NEW j, NEW c, ProcessRandom(w, j, c) PROVE DrawInv'
    BY <1>0, <1>1, <2>4 DEF ProcessRandom
  <2>5. ASSUME NEW s, NEW k \in 1 .. MaxOutputs, Draw(w, s, k) PROVE DrawInv'
    <3>1. /\ EndSample(w, k) /\ step[w] = "drawing"
          /\ step' = [step EXCEPT ![w] = IF Method(w) \in RunsProgram THEN "calling" ELSE "sampling"]
      BY <2>5 DEF Draw
    <3>2. (IF Method(w) \in RunsProgram THEN "calling" ELSE "sampling") # "drawing"
      OBVIOUS
    <3> QED
      BY <1>4, <3>1, <3>2
  <2>6. CASE Spin(w)
    BY <1>5, <2>6 DEF Spin
  <2>7. CASE Respond(w)
    BY <1>1, <1>2, <2>7 DEF Respond
  <2> QED
    BY <1>9, <2>1, <2>2, <2>3, <2>4, <2>5, <2>6, <2>7 DEF Serve
<1> QED
  BY <1>5, <1>6, <1>7, <1>8, <1>9 DEF Next, Aborted

-----------------------------------------------------------------------------
(* The arrays.                                                               *)

\* what holds for one worker
Owned(w) ==
    /\ step[w] = "idle" => \A a \in {"weights", "result"} : arrays[w][a] \in {"null", "freed"}
    /\ step[w] = "calling" => Running(w) /\ (left[w] > 0 => Method(w) \in RunsProgram)
    /\ step[w] = "sampling" => Sampling(w)
    /\ step[w] = "drawing" =>
          left[w] > 0 /\ (Sampling(w) \/ (Running(w) /\ Method(w) \in RunsProgram))

ArrayTypes ==
    /\ step \in [Workers -> {"idle", "calling", "sampling", "drawing"}]
    /\ arrays \in [Workers -> [weights : {"null", "live", "freed", "twice"},
                               result : {"null", "live", "freed", "twice"}]]
    /\ left \in [Workers -> Nat]
    /\ DOMAIN slot = Workers /\ DOMAIN job = Workers

LEMMA ArrayInvIs ==
  /\ ArrayInv = (ArrayTypes /\ \A w \in Workers : Owned(w))
  /\ ArrayInv' = (ArrayTypes' /\ \A w \in Workers : Owned(w)')
  BY DEF ArrayInv, ArrayTypes, Owned

\* a step of one worker leaves the arrays of the others
LEMMA OthersOwn ==
  ASSUME ArrayInv, NEW w \in Workers, ArrayTypes', Owned(w)', registered' = registered,
         \A v \in Workers : v # w => /\ step'[v] = step[v] /\ arrays'[v] = arrays[v]
                                     /\ left'[v] = left[v] /\ slot'[v] = slot[v]
                                     /\ job'[v] = job[v]
  PROVE  ArrayInv'
<1>1. ASSUME NEW v \in Workers, v # w PROVE Owned(v)'
  <2>1. Owned(v)
    BY ArrayInvIs
  <2>2. /\ step'[v] = step[v] /\ arrays'[v] = arrays[v]
        /\ left'[v] = left[v] /\ slot'[v] = slot[v] /\ job'[v] = job[v]
    BY <1>1
  <2> QED
    BY <2>1, <2>2 DEF Owned, Running, Sampling, Method
<1> QED
  BY <1>1, ArrayInvIs

\* only the random calls draw for themselves
LEMMA JobsAreRandom ==
  ASSUME NEW method, NEW j \in Jobs(method)
  PROVE  method \notin RunsProgram
  BY DEF Jobs, RunsProgram

LEMMA ArrayStep ==
  ASSUME TableInv, ArrayInv, [Next]_vars
  PROVE  ArrayInv'
<1>0. ArrayTypes /\ \A w \in Workers : Owned(w)
  BY ArrayInvIs
<1>1. ASSUME UNCHANGED <<workerVars, registered>> PROVE ArrayInv'
  BY <1>0, <1>1, ArrayInvIs DEF ArrayTypes, Owned, workerVars, Running, Sampling, Method
<1>2. CASE UNCHANGED vars
  BY <1>1, <1>2 DEF vars
<1>3. CASE Register
  <2>1. UNCHANGED workerVars /\ \A w \in Workers : step[w] = "idle"
    BY <1>3 DEF Register, TableInv
  <2> QED
    BY <1>0, <2>1, ArrayInvIs DEF ArrayTypes, Owned, workerVars
<1>4. ASSUME NEW w \in Workers, Answer(w), registered' = registered, arrays' = [arrays EXCEPT ![w] = arrays'[w]],
             arrays'[w] \in [weights : {"null", "freed"}, result : {"null", "freed"}]
      PROVE  ArrayInv'
  <2>1. /\ step' = [step EXCEPT ![w] = "idle"]
        /\ slot' = [slot EXCEPT ![w] = 0]
        /\ job' = [job EXCEPT ![w] = Integer]
        /\ left' = [left EXCEPT ![w] = 0]
    BY <1>4 DEF Answer
  <2>2. ArrayTypes'
    BY <1>0, <1>4, <2>1 DEF ArrayTypes
  <2>3. Owned(w)'
    <3>1. step'[w] = "idle"
      BY <1>0, <2>1 DEF ArrayTypes
    <3> QED
      BY <1>4, <3>1 DEF Owned
  <2>4. \A v \in Workers : v # w => /\ step'[v] = step[v] /\ arrays'[v] = arrays[v]
                                     /\ left'[v] = left[v] /\ slot'[v] = slot[v]
                                     /\ job'[v] = job[v]
    BY <1>0, <1>4, <2>1 DEF ArrayTypes
  <2> QED
    BY <1>4, <2>2, <2>3, <2>4, OthersOwn
<1>5. ASSUME NEW w \in Workers, Answer(w), UNCHANGED <<registered, arrays>>,
             step[w] \in {"idle", "calling"}
      PROVE  ArrayInv'
  <2>1. arrays' = [arrays EXCEPT ![w] = arrays'[w]]
    BY <1>0, <1>5 DEF ArrayTypes
  <2>2. arrays[w] \in [weights : {"null", "freed"}, result : {"null", "freed"}]
    <3>1. CASE step[w] = "idle"
      <4>1. arrays[w]["weights"] \in {"null", "freed"} /\ arrays[w]["result"] \in {"null", "freed"}
        BY <1>0, <3>1 DEF Owned
      <4> QED
        BY <1>0, <4>1 DEF ArrayTypes
    <3>2. CASE step[w] = "calling"
      BY <1>0, <3>2 DEF Owned, Running
    <3> QED
      BY <1>5, <3>1, <3>2
  <2> QED
    BY <1>4, <1>5, <2>1, <2>2
<1>6. ASSUME NEW w \in Workers, MissingTerminator(w) PROVE ArrayInv'
  BY <1>5, <1>6 DEF MissingTerminator
<1>7. ASSUME NEW w \in Workers, Receive(w) PROVE ArrayInv'
  <2>1. CASE \E r \in Requests : NotFound(w, r)
    BY <1>5, <1>7, <2>1 DEF Receive, NotFound
  <2>2. ASSUME NEW r, NEW i, NEW m \in 0 .. MaxCount, Route(w, r, i, m) PROVE ArrayInv'
    <3>1. /\ slot' = [slot EXCEPT ![w] = i] /\ left' = [left EXCEPT ![w] = m]
          /\ step' = [step EXCEPT ![w] = "calling"] /\ UNCHANGED <<registered, job>>
          /\ arrays' = [arrays EXCEPT ![w] = [weights |-> "null", result |-> "null"]]
          /\ m > 0 => registered[i].method \in RunsProgram
      BY <2>2 DEF Route
    <3>2. ArrayTypes'
      BY <1>0, <3>1 DEF ArrayTypes
    <3>3. /\ step'[w] = "calling" /\ slot'[w] = i /\ left'[w] = m
          /\ arrays'[w] = [weights |-> "null", result |-> "null"]
      BY <1>0, <3>1 DEF ArrayTypes
    <3>4. Owned(w)'
      BY <3>1, <3>3 DEF Owned, Running, Method
    <3> QED
      BY <1>0, <3>1, <3>2, <3>4, OthersOwn DEF ArrayTypes
  <2> QED
    BY <1>7, <2>1, <2>2 DEF Receive
<1>8. ASSUME NEW w \in Workers, Serve(w) PROVE ArrayInv'
  <2>1. CASE Process(w)
    BY <1>5, <2>1 DEF Process
  <2>2. CASE ProcessThrows(w)
    BY <1>1, <2>2 DEF ProcessThrows, Abort
  <2>3. CASE MeasureInstruction(w) \/ NextSample(w)
    <3>1. /\ step' = [step EXCEPT ![w] = "drawing"] /\ UNCHANGED <<registered, slot, job, left, arrays>>
      BY <2>3 DEF MeasureInstruction, NextSample
    <3>2. left[w] > 0 /\ (Sampling(w) \/ (Running(w) /\ Method(w) \in RunsProgram))
      BY <1>0, <2>3 DEF Owned, MeasureInstruction, NextSample
    <3>3. left'[w] > 0 /\ (Sampling(w) \/ (Running(w) /\ Method(w) \in RunsProgram))'
      BY <3>1, <3>2 DEF Sampling, Running, Method
    <3>4. step'[w] = "drawing"
      BY <1>0, <3>1 DEF ArrayTypes
    <3>5. Owned(w)'
      BY <3>3, <3>4 DEF Owned
    <3>6. ArrayTypes'
      BY <1>0, <3>1 DEF ArrayTypes
    <3> QED
      BY <1>0, <3>1, <3>5, <3>6, OthersOwn DEF ArrayTypes
  <2>4. ASSUME NEW j, NEW c \in 0 .. MaxCount, ProcessRandom(w, j, c) PROVE ArrayInv'
    <3>1. /\ j \in Jobs(Method(w)) /\ job' = [job EXCEPT ![w] = j] /\ left' = [left EXCEPT ![w] = c]
          /\ arrays' = [arrays EXCEPT ![w] =
                           [weights |-> IF j.kind = "weighted" THEN "live" ELSE "null",
                            result |-> "live"]]
          /\ step' = [step EXCEPT ![w] = "sampling"]
          /\ UNCHANGED <<registered, slot>>
      BY <2>4 DEF ProcessRandom
    <3>2. ArrayTypes'
      BY <1>0, <3>1 DEF ArrayTypes
    <3>3. /\ job'[w] = j /\ step'[w] = "sampling"
          /\ arrays'[w] = [weights |-> IF j.kind = "weighted" THEN "live" ELSE "null",
                           result |-> "live"]
      BY <1>0, <3>1 DEF ArrayTypes
    <3>4. Method(w)' \notin RunsProgram
      BY <3>1, JobsAreRandom DEF Method
    <3>5. Owned(w)'
      BY <3>3, <3>4 DEF Owned, Sampling
    <3> QED
      BY <1>0, <3>1, <3>2, <3>5, OthersOwn DEF ArrayTypes
  <2>5. ASSUME NEW s, NEW k, Draw(w, s, k) PROVE ArrayInv'
    <3> DEFINE label == IF Method(w) \in RunsProgram THEN "calling" ELSE "sampling"
    <3>1. /\ step[w] = "drawing" /\ left' = [left EXCEPT ![w] = left[w] - 1]
          /\ step' = [step EXCEPT ![w] = label]
          /\ UNCHANGED <<registered, slot, job, arrays>>
      BY <2>5 DEF Draw
    <3>2. left[w] > 0 /\ (Sampling(w) \/ (Running(w) /\ Method(w) \in RunsProgram))
      BY <1>0, <3>1 DEF Owned
    <3>3. left[w] - 1 \in Nat /\ label \in {"calling", "sampling"}
      BY <1>0, <3>2 DEF ArrayTypes
    <3> HIDE DEF label
    <3>4. ArrayTypes'
      BY <1>0, <3>1, <3>3 DEF ArrayTypes
    <3>5. step'[w] = label
      BY <1>0, <3>1 DEF ArrayTypes
    <3>6. Method(w)' = Method(w) /\ Sampling(w)' = Sampling(w) /\ Running(w)' = Running(w)
      BY <3>1 DEF Method, Sampling, Running
    <3>7. Owned(w)'
      <4>1. CASE Method(w) \in RunsProgram
        BY <3>2, <3>5, <3>6, <4>1 DEF Owned, label, Sampling
      <4>2. CASE Method(w) \notin RunsProgram
        BY <3>2, <3>5, <3>6, <4>2 DEF Owned, label
      <4> QED
        BY <4>1, <4>2
    <3> QED
      BY <1>0, <3>1, <3>4, <3>7, OthersOwn DEF ArrayTypes
  <2>6. CASE Spin(w)
    BY <1>2, <2>6 DEF Spin
  <2>7. CASE Respond(w)
    <3>1. /\ step[w] = "sampling" /\ registered' = registered /\ Answer(w)
          /\ arrays' = [arrays EXCEPT ![w] = RapidJsonArray(DeleteWeights(arrays[w], job[w]))]
      BY <2>7 DEF Respond
    <3>2. Sampling(w) /\ arrays[w] \in [weights : {"null", "live", "freed", "twice"},
                               result : {"null", "live", "freed", "twice"}]
      BY <1>0, <3>1 DEF Owned, ArrayTypes
    <3>3. arrays'[w] \in [weights : {"null", "freed"}, result : {"null", "freed"}]
      BY <1>0, <3>1, <3>2 DEF Sampling, RapidJsonArray, DeleteWeights, Delete, ArrayTypes
    <3>4. arrays' = [arrays EXCEPT ![w] = arrays'[w]]
      BY <1>0, <3>1 DEF ArrayTypes
    <3> QED
      BY <1>4, <3>1, <3>3, <3>4
  <2> QED
    BY <1>8, <2>1, <2>2, <2>3, <2>4, <2>5, <2>6, <2>7 DEF Serve
<1> QED
  BY <1>2, <1>3, <1>6, <1>7, <1>8 DEF Next, Aborted

-----------------------------------------------------------------------------
(* Recursive functions.                                                      *)

\* Induction, for a set instead of a predicate.
LEMMA NatInduct ==
  ASSUME NEW P \in SUBSET Nat, 0 \in P, \A i \in P : i + 1 \in P
  PROVE  P = Nat
<1> SUFFICES ASSUME P # Nat PROVE FALSE
  OBVIOUS
<1> DEFINE T == Nat \ P
<1>1. T \in SUBSET Nat /\ T # {}
  OBVIOUS
<1>2. PICK m \in T : \A k \in T : m <= k
  <2> HIDE DEF T
  <2> QED
    BY <1>1, SmallestNat
<1>3. m \in Nat /\ m # 0 /\ m - 1 \in Nat /\ m - 1 \notin T
  BY <1>2
<1>4. (m - 1) + 1 \in P /\ (m - 1) + 1 = m
  BY <1>3
<1> QED
  BY <1>2, <1>4

\* g runs through n values from a on, each one the function f of the one before and of
\* its own number.
IsRun(g, S, a, f, n) ==
    /\ g \in [0 .. n -> S] /\ g[0] = a
    /\ \A i \in 0 .. n - 1 : g[i + 1] = f[<<g[i], i + 1>>]

\* Every run can be made one longer.
LEMMA RunExists ==
  ASSUME NEW S, NEW a \in S, NEW f \in [S \X Nat -> S], NEW n \in Nat
  PROVE  \E g : IsRun(g, S, a, f, n)
<1> DEFINE P == {k \in Nat : \E g : IsRun(g, S, a, f, k)}
<1>1. 0 \in P
  <2>1. IsRun([i \in 0 .. 0 |-> a], S, a, f, 0)
    BY DEF IsRun
  <2> QED
    BY <2>1
<1>2. ASSUME NEW k \in P PROVE k + 1 \in P
  <2>1. PICK g : IsRun(g, S, a, f, k)
    BY <1>2
  <2> DEFINE v == f[<<g[k], k + 1>>]
             h == [i \in 0 .. k + 1 |-> IF i = k + 1 THEN v ELSE g[i]]
  <2>2. k \in Nat /\ g[k] \in S /\ <<g[k], k + 1>> \in S \X Nat
    BY <2>1 DEF IsRun
  <2>3. v \in S
    BY <2>2
  <2> HIDE DEF v
  <2>4. h \in [0 .. k + 1 -> S] /\ h[0] = a
    BY <2>1, <2>2, <2>3 DEF IsRun
  <2>5. ASSUME NEW i \in 0 .. k PROVE h[i + 1] = f[<<h[i], i + 1>>]
    <3>1. CASE i = k
      <4>1. k + 1 \in 0 .. k + 1 /\ k \in 0 .. k + 1 /\ k # k + 1
        BY <2>2
      <4>2. h[k + 1] = v /\ h[k] = g[k]
        BY <4>1
      <4> QED
        BY <3>1, <4>2 DEF v
    <3>2. CASE i # k
      <4>1. i \in 0 .. k - 1 /\ i + 1 # k + 1 /\ i + 1 \in 0 .. k + 1 /\ i # k + 1 /\ i \in 0 .. k + 1
        BY <2>2, <3>2
      <4>2. h[i + 1] = g[i + 1] /\ h[i] = g[i]
        BY <4>1
      <4> QED
        BY <2>1, <4>1, <4>2 DEF IsRun
    <3> QED
      BY <3>1, <3>2
  <2>6. (k + 1) - 1 = k
    BY <2>2
  <2> HIDE DEF h
  <2>7. IsRun(h, S, a, f, k + 1)
    BY <2>4, <2>5, <2>6 DEF IsRun
  <2> QED
    BY <2>2, <2>7
<1>3. P = Nat
  <2>1. P \in SUBSET Nat
    OBVIOUS
  <2> HIDE DEF P
  <2> QED
    BY <1>1, <1>2, <2>1, NatInduct
<1> QED
  BY <1>3

\* Runs that start alike do not part.
LEMMA RunUnique ==
  ASSUME NEW S, NEW a \in S, NEW f, NEW m \in Nat, NEW n \in Nat, NEW g, NEW h,
         IsRun(g, S, a, f, m), IsRun(h, S, a, f, n), NEW j \in Nat, j <= m, j <= n
  PROVE  g[j] = h[j]
<1> DEFINE P == {i \in Nat : i <= m /\ i <= n => g[i] = h[i]}
<1>1. 0 \in P
  BY DEF IsRun
<1>2. ASSUME NEW k \in P PROVE k + 1 \in P
  <2> SUFFICES ASSUME k + 1 <= m, k + 1 <= n PROVE g[k + 1] = h[k + 1]
    BY <1>2
  <2>1. k \in 0 .. m - 1 /\ k \in 0 .. n - 1 /\ g[k] = h[k]
    BY <1>2
  <2> QED
    BY <2>1 DEF IsRun
<1>3. P = Nat
  <2>1. P \in SUBSET Nat
    OBVIOUS
  <2> HIDE DEF P
  <2> QED
    BY <1>1, <1>2, <2>1, NatInduct
<1> QED
  BY <1>3

\* the same without an end
IsIteration(g, S, a, f) ==
    g \in [Nat -> S] /\ g[0] = a /\ \A i \in Nat : g[i + 1] = f[<<g[i], i + 1>>]

\* What is defined by recursion on a number exists.
LEMMA Iteration ==
  ASSUME NEW S, NEW a \in S, NEW f \in [S \X Nat -> S]
  PROVE  \E g : IsIteration(g, S, a, f)
<1> DEFINE Run(n) == CHOOSE g : IsRun(g, S, a, f, n)
           g == [n \in Nat |-> Run(n)[n]]
<1>1. ASSUME NEW n \in Nat PROVE IsRun(Run(n), S, a, f, n)
  BY RunExists
<1> HIDE DEF Run
<1>2. g \in [Nat -> S] /\ g[0] = a
  <2>1. ASSUME NEW n \in Nat PROVE Run(n)[n] \in S
    BY <1>1 DEF IsRun
  <2>2. Run(0)[0] = a
    BY <1>1 DEF IsRun
  <2> QED
    BY <2>1, <2>2
<1>3. ASSUME NEW i \in Nat PROVE g[i + 1] = f[<<g[i], i + 1>>]
  <2>1. i + 1 \in Nat /\ IsRun(Run(i), S, a, f, i) /\ IsRun(Run(i + 1), S, a, f, i + 1)
    BY <1>1
  <2>2. Run(i + 1)[i] = Run(i)[i]
    BY <2>1, RunUnique
  <2>3. Run(i + 1)[i + 1] = f[<<Run(i + 1)[i], i + 1>>]
    BY <2>1 DEF IsRun
  <2> QED
    BY <2>1, <2>2, <2>3
<1> QED
  BY <1>2, <1>3 DEF IsIteration

\* The steps of a run, counted from 1.
LEMMA RunSteps ==
  ASSUME NEW S, NEW a, NEW f, NEW n \in Nat, NEW g, IsRun(g, S, a, f, n)
  PROVE  \A i \in 1 .. n : g[i] = f[<<g[i - 1], i>>]
<1> SUFFICES ASSUME NEW i \in 1 .. n PROVE g[i] = f[<<g[i - 1], i>>]
  OBVIOUS
<1>1. i - 1 \in 0 .. n - 1 /\ (i - 1) + 1 = i
  OBVIOUS
<1>2. g[(i - 1) + 1] = f[<<g[i - 1], (i - 1) + 1>>]
  BY <1>1 DEF IsRun
<1> QED
  BY <1>1, <1>2

-----------------------------------------------------------------------------
(* Numbers, and the choice by weight.                                        *)

\* The powers of two, by their recursion.
LEMMA Pow2Is ==
  /\ Pow2 \in [Nat -> Nat \ {0}] /\ Pow2[0] = 1
  /\ \A k \in Nat : Pow2[k + 1] = 2 * Pow2[k]
<1> DEFINE S == Nat \ {0}
           f == [s \in S \X Nat |-> 2 * s[1]]
           IsPow(g) == g = [k \in Nat |-> IF k = 0 THEN 1 ELSE 2 * g[k - 1]]
<1>1. f \in [S \X Nat -> S] /\ 1 \in S
  OBVIOUS
<1>2. PICK g : IsIteration(g, S, 1, f)
  <2> HIDE DEF f, S
  <2> QED
    BY <1>1, Iteration
<1>3. ASSUME NEW i \in Nat PROVE g[i + 1] = 2 * g[i]
  <2>1. g[i + 1] = f[<<g[i], i + 1>>] /\ g[i] \in S
    BY <1>2 DEF IsIteration
  <2>2. <<g[i], i + 1>> \in S \X Nat
    BY <2>1
  <2> QED
    BY <2>1, <2>2
<1>4. IsPow(g)
  <2>1. ASSUME NEW k \in Nat PROVE g[k] = IF k = 0 THEN 1 ELSE 2 * g[k - 1]
    <3>1. CASE k = 0
      BY <1>2, <3>1 DEF IsIteration
    <3>2. CASE k # 0
      <4>1. k - 1 \in Nat /\ (k - 1) + 1 = k
        BY <3>2
      <4>2. g[(k - 1) + 1] = 2 * g[k - 1]
        BY <1>3, <4>1
      <4> QED
        BY <3>2, <4>1, <4>2
    <3> QED
      BY <3>1, <3>2
  <2> QED
    BY <1>2, <2>1 DEF IsIteration
<1>5. IsPow(Pow2)
  <2>1. Pow2 = CHOOSE p : IsPow(p)
    BY DEF Pow2
  <2> HIDE DEF IsPow
  <2> QED
    BY <1>4, <2>1
<1>6. Pow2[0] = 1 /\ \A k \in Nat : Pow2[k + 1] = 2 * Pow2[k]
  <2>1. Pow2[0] = 1
    BY <1>5
  <2>2. ASSUME NEW k \in Nat PROVE Pow2[k + 1] = 2 * Pow2[k]
    <3>1. k + 1 \in Nat /\ k + 1 # 0 /\ (k + 1) - 1 = k
      OBVIOUS
    <3>2. Pow2[k + 1] = IF k + 1 = 0 THEN 1 ELSE 2 * Pow2[(k + 1) - 1]
      BY <1>5, <3>1
    <3> QED
      BY <3>1, <3>2
  <2> QED
    BY <2>1, <2>2
<1>7. \A k \in Nat : Pow2[k] \in S
  <2> DEFINE P == {k \in Nat : Pow2[k] \in S}
  <2>1. 0 \in P /\ P \in SUBSET Nat
    BY <1>6
  <2>2. ASSUME NEW k \in P PROVE k + 1 \in P
    BY <1>6
  <2>3. P = Nat
    <3> HIDE DEF P
    <3> QED
      BY <2>1, <2>2, NatInduct
  <2> QED
    BY <2>3
<1>8. Pow2 = [k \in Nat |-> IF k = 0 THEN 1 ELSE 2 * Pow2[k - 1]]
  BY <1>5
<1>9. DOMAIN Pow2 = Nat /\ Pow2 = [k \in DOMAIN Pow2 |-> Pow2[k]]
  BY <1>8, Zenon
<1> QED
  BY <1>6, <1>7, <1>9

\* A number is below its power of two.
LEMMA Pow2Grows ==
  ASSUME NEW k \in Nat
  PROVE  k < Pow2[k]
<1> DEFINE P == {i \in Nat : i < Pow2[i]}
<1>1. 0 \in P /\ P \in SUBSET Nat
  BY Pow2Is
<1>2. ASSUME NEW i \in P PROVE i + 1 \in P
  BY Pow2Is
<1>3. P = Nat
  <2> HIDE DEF P
  <2> QED
    BY <1>1, <1>2, NatInduct
<1> QED
  BY <1>3

\* There are numbers that are not rounded.
LEMMA LimitIs == Limit \in Nat \ {0}
  BY Pow2Is, PrecisionAssumption DEF Limit

\* Numbers below the limit are not rounded, and what is rounded stays a number.
LEMMA FlIs ==
  ASSUME NEW x \in Int
  PROVE  /\ x < Limit => Fl(x) = x
         /\ Fl(x) \in Int /\ (x >= 0 => Fl(x) \in Nat)
<1>0. Limit \in Nat \ {0}
  BY LimitIs
<1>1. CASE x < Limit
  BY <1>1 DEF Fl
<1>2. CASE ~(x < Limit)
  <2> DEFINE Fits(e) == Limit * Pow2[e - 1] <= x /\ x < Limit * Pow2[e]
             E == {e \in Nat : x < Limit * Pow2[e]}
             e == CHOOSE e \in 1 .. x : Fits(e)
             unit == Pow2[e]
             q == x \div unit
             r == 2 * (x % unit)
  <2>1. x \in Nat /\ x >= Limit
    BY <1>0, <1>2
  <2>2. x \in E
    <3>1. x < Pow2[x] /\ Pow2[x] \in Nat
      BY <2>1, Pow2Is, Pow2Grows
    <3>2. ASSUME NEW l \in Nat \ {0}, NEW p \in Nat PROVE l * p >= p
      OBVIOUS
    <3>3. Limit * Pow2[x] >= Pow2[x] /\ Limit * Pow2[x] \in Nat
      BY <1>0, <3>1, <3>2
    <3> QED
      BY <2>1, <3>1, <3>3
  <2>3. PICK m \in E : \A k \in E : m <= k
    <3>1. E \in SUBSET Nat /\ E # {}
      BY <2>2
    <3> HIDE DEF E
    <3> QED
      BY <3>1, SmallestNat
  <2>4. m \in Nat /\ m <= x /\ m # 0
    <3>1. Limit * Pow2[0] = Limit
      BY <1>0, Pow2Is
    <3> QED
      BY <1>0, <2>1, <2>2, <2>3, <3>1
  <2>5. m \in 1 .. x /\ Fits(m)
    <3>1. m - 1 \in Nat /\ m - 1 \notin E
      BY <2>3, <2>4
    <3>2. Limit * Pow2[m - 1] \in Nat
      BY <1>0, <3>1, Pow2Is
    <3> QED
      BY <2>1, <2>3, <2>4, <3>1, <3>2
  <2>6. e \in 1 .. x
    <3> HIDE DEF Fits
    <3> QED
      BY <2>5
  <2>7. Fl(x) = (IF r > unit \/ (r = unit /\ q % 2 = 1) THEN q + 1 ELSE q) * unit
    BY <1>2 DEF Fl
  <2> HIDE DEF e
  <2>8. unit \in Nat \ {0}
    BY <2>1, <2>6, Pow2Is
  <2> HIDE DEF unit
  <2>9. q \in Nat
    BY <2>1, <2>8
  <2> HIDE DEF q, r
  <2>10. Fl(x) \in Nat
    <3>1. ASSUME NEW a \in Nat, NEW b \in Nat PROVE a * b \in Nat
      OBVIOUS
    <3>2. CASE Fl(x) = (q + 1) * unit
      BY <2>8, <2>9, <3>1, <3>2
    <3>3. CASE Fl(x) = q * unit
      BY <2>8, <2>9, <3>1, <3>3
    <3> QED
      BY <2>7, <3>2, <3>3
  <2> QED
    BY <1>2, <2>10
<1> QED
  BY <1>1, <1>2

\* g has the sums of the first weights, as Sums does.
ExactSum(g, ws, n) ==
    g = [i \in 0 .. n |-> IF i = 0 THEN 0 ELSE g[i - 1] + ws[i]]

\* its values, one by one
ExactSumSteps(g, ws, n) ==
    /\ g \in [0 .. n -> Nat] /\ g[0] = 0
    /\ \A i \in 1 .. n : g[i] = g[i - 1] + ws[i]

\* There is such a function, and it has numbers for values.
LEMMA ExactSumIs ==
  ASSUME NEW n \in Nat, NEW ws \in [1 .. n -> Nat]
  PROVE  /\ \E g : ExactSum(g, ws, n)
         /\ \A g : ExactSum(g, ws, n) => ExactSumSteps(g, ws, n)
<1> DEFINE Step(v, i) == IF i \in 1 .. n THEN v + ws[i] ELSE 0
           f == [s \in Nat \X Nat |-> Step(s[1], s[2])]
<1>1. \A i \in 1 .. n : ws[i] \in Nat
  OBVIOUS
<1>2. ASSUME NEW v \in Nat, NEW i \in Nat PROVE Step(v, i) \in Nat
  <2>1. CASE i \in 1 .. n
    BY <1>1, <2>1
  <2> QED
    BY <2>1
<1>3. \A v \in Nat, i \in 1 .. n : Step(v, i) = v + ws[i]
  OBVIOUS
<1> HIDE DEF Step
<1>4. f \in [Nat \X Nat -> Nat]
  BY <1>2
<1>5. ASSUME NEW v \in Nat, NEW i \in Nat PROVE f[<<v, i>>] = Step(v, i)
  OBVIOUS
<1> HIDE DEF f
<1>6. \E g : ExactSum(g, ws, n)
  <2>0. PICK g : IsRun(g, Nat, 0, f, n)
    <3>1. 0 \in Nat
      OBVIOUS
    <3> QED
      BY <1>4, <3>1, RunExists
  <2>1. /\ g \in [0 .. n -> Nat] /\ g[0] = 0
        /\ \A i \in 1 .. n : g[i] = f[<<g[i - 1], i>>]
    BY <2>0, RunSteps DEF IsRun
  <2>2. ASSUME NEW i \in 1 .. n PROVE g[i] = g[i - 1] + ws[i]
    <3>1. i - 1 \in 0 .. n /\ i \in Nat
      OBVIOUS
    <3>2. g[i - 1] \in Nat /\ g[i] = f[<<g[i - 1], i>>]
      BY <2>1, <3>1
    <3>3. g[i] = Step(g[i - 1], i)
      BY <1>5, <3>1, <3>2
    <3> QED
      BY <1>3, <3>2, <3>3
  <2>3. g = [i \in 0 .. n |-> IF i = 0 THEN 0 ELSE g[i - 1] + ws[i]]
    <3>1. ASSUME NEW i \in 0 .. n PROVE g[i] = IF i = 0 THEN 0 ELSE g[i - 1] + ws[i]
      <4>1. CASE i # 0
        <5>1. i \in 1 .. n
          BY <4>1
        <5> QED
          BY <2>2, <4>1, <5>1
      <4> QED
        BY <2>1, <4>1
    <3> QED
      BY <2>1, <3>1
  <2> QED
    BY <2>3 DEF ExactSum
<1>7. ASSUME NEW g, ExactSum(g, ws, n) PROVE ExactSumSteps(g, ws, n)
  <2> DEFINE P == {i \in Nat : i <= n => g[i] \in Nat}
  <2>1. /\ \A i \in 0 .. n : g[i] = IF i = 0 THEN 0 ELSE g[i - 1] + ws[i]
        /\ DOMAIN g = 0 .. n /\ g = [i \in DOMAIN g |-> g[i]]
    BY <1>7, Zenon DEF ExactSum
  <2>2. g[0] = 0
    BY <2>1
  <2>3. ASSUME NEW i \in 1 .. n PROVE g[i] = g[i - 1] + ws[i]
    <3>1. i \in 0 .. n /\ i # 0
      OBVIOUS
    <3> QED
      BY <2>1, <3>1
  <2>4. 0 \in P /\ P \in SUBSET Nat
    BY <2>2
  <2>5. ASSUME NEW i \in P PROVE i + 1 \in P
    <3> SUFFICES ASSUME i + 1 <= n PROVE g[i + 1] \in Nat
      BY <2>5
    <3>1. i + 1 \in 1 .. n /\ (i + 1) - 1 = i /\ g[i] \in Nat /\ i + 1 \in Nat
      BY <2>5
    <3>2. g[i + 1] = Step(g[i], i + 1)
      <4>1. g[i + 1] = g[(i + 1) - 1] + ws[i + 1]
        BY <2>3, <3>1
      <4> QED
        BY <1>3, <3>1, <4>1
    <3> QED
      BY <1>2, <3>1, <3>2
  <2>6. P = Nat
    <3> HIDE DEF P
    <3> QED
      BY <2>4, <2>5, NatInduct
  <2>7. \A i \in 0 .. n : g[i] \in Nat
    BY <2>6
  <2> QED
    BY <2>1, <2>2, <2>3, <2>7 DEF ExactSumSteps
<1> QED
  BY <1>6, <1>7

\* the same, rounded at every step, as std::accumulate does
RoundedSum(g, ws, n) ==
    g = [i \in 0 .. n |-> IF i = 0 THEN 0 ELSE Fl(g[i - 1] + ws[i])]

\* its values, one by one
RoundedSumSteps(g, ws, n) ==
    /\ g \in [0 .. n -> Nat] /\ g[0] = 0
    /\ \A i \in 1 .. n : g[i] = Fl(g[i - 1] + ws[i])

\* There is such a function, and it has numbers for values.
LEMMA RoundedSumIs ==
  ASSUME NEW n \in Nat, NEW ws \in [1 .. n -> Nat]
  PROVE  /\ \E g : RoundedSum(g, ws, n)
         /\ \A g : RoundedSum(g, ws, n) => RoundedSumSteps(g, ws, n)
<1> DEFINE Step(v, i) == IF i \in 1 .. n THEN Fl(v + ws[i]) ELSE 0
           f == [s \in Nat \X Nat |-> Step(s[1], s[2])]
<1>1. \A i \in 1 .. n : ws[i] \in Nat
  OBVIOUS
<1>2. ASSUME NEW v \in Nat, NEW i \in Nat PROVE Step(v, i) \in Nat
  <2>1. CASE i \in 1 .. n
    <3>1. v + ws[i] \in Int /\ v + ws[i] >= 0
      BY <1>1, <2>1
    <3> QED
      BY <2>1, <3>1, FlIs
  <2> QED
    BY <2>1
<1>3. \A v \in Nat, i \in 1 .. n : Step(v, i) = Fl(v + ws[i])
  OBVIOUS
<1> HIDE DEF Step
<1>4. f \in [Nat \X Nat -> Nat]
  BY <1>2
<1>5. ASSUME NEW v \in Nat, NEW i \in Nat PROVE f[<<v, i>>] = Step(v, i)
  OBVIOUS
<1> HIDE DEF f
<1>6. \E g : RoundedSum(g, ws, n)
  <2>0. PICK g : IsRun(g, Nat, 0, f, n)
    <3>1. 0 \in Nat
      OBVIOUS
    <3> QED
      BY <1>4, <3>1, RunExists
  <2>1. /\ g \in [0 .. n -> Nat] /\ g[0] = 0
        /\ \A i \in 1 .. n : g[i] = f[<<g[i - 1], i>>]
    BY <2>0, RunSteps DEF IsRun
  <2>2. ASSUME NEW i \in 1 .. n PROVE g[i] = Fl(g[i - 1] + ws[i])
    <3>1. i - 1 \in 0 .. n /\ i \in Nat
      OBVIOUS
    <3>2. g[i - 1] \in Nat /\ g[i] = f[<<g[i - 1], i>>]
      BY <2>1, <3>1
    <3>3. g[i] = Step(g[i - 1], i)
      BY <1>5, <3>1, <3>2
    <3> QED
      BY <1>3, <3>2, <3>3
  <2>3. g = [i \in 0 .. n |-> IF i = 0 THEN 0 ELSE Fl(g[i - 1] + ws[i])]
    <3>1. ASSUME NEW i \in 0 .. n PROVE g[i] = IF i = 0 THEN 0 ELSE Fl(g[i - 1] + ws[i])
      <4>1. CASE i # 0
        <5>1. i \in 1 .. n
          BY <4>1
        <5> QED
          BY <2>2, <4>1, <5>1
      <4> QED
        BY <2>1, <4>1
    <3> QED
      BY <2>1, <3>1
  <2> QED
    BY <2>3 DEF RoundedSum
<1>7. ASSUME NEW g, RoundedSum(g, ws, n) PROVE RoundedSumSteps(g, ws, n)
  <2> DEFINE P == {i \in Nat : i <= n => g[i] \in Nat}
  <2>1. /\ \A i \in 0 .. n : g[i] = IF i = 0 THEN 0 ELSE Fl(g[i - 1] + ws[i])
        /\ DOMAIN g = 0 .. n /\ g = [i \in DOMAIN g |-> g[i]]
    BY <1>7, Zenon DEF RoundedSum
  <2>2. g[0] = 0
    BY <2>1
  <2>3. ASSUME NEW i \in 1 .. n PROVE g[i] = Fl(g[i - 1] + ws[i])
    <3>1. i \in 0 .. n /\ i # 0
      OBVIOUS
    <3> QED
      BY <2>1, <3>1
  <2>4. 0 \in P /\ P \in SUBSET Nat
    BY <2>2
  <2>5. ASSUME NEW i \in P PROVE i + 1 \in P
    <3> SUFFICES ASSUME i + 1 <= n PROVE g[i + 1] \in Nat
      BY <2>5
    <3>1. i + 1 \in 1 .. n /\ (i + 1) - 1 = i /\ g[i] \in Nat /\ i + 1 \in Nat
      BY <2>5
    <3>2. g[i + 1] = Step(g[i], i + 1)
      <4>1. g[i + 1] = Fl(g[(i + 1) - 1] + ws[i + 1])
        BY <2>3, <3>1
      <4> QED
        BY <1>3, <3>1, <4>1
    <3> QED
      BY <1>2, <3>1, <3>2
  <2>6. P = Nat
    <3> HIDE DEF P
    <3> QED
      BY <2>4, <2>5, NatInduct
  <2>7. \A i \in 0 .. n : g[i] \in Nat
    BY <2>6
  <2> QED
    BY <2>1, <2>2, <2>3, <2>7 DEF RoundedSumSteps
<1> QED
  BY <1>6, <1>7

\* what get_weighted_integer has left of the sample after each weight
Remainders(g, ws, n, sample) ==
    g = [i \in 0 .. n |-> IF i = 0 THEN sample ELSE Fl(g[i - 1] - ws[i])]

\* its values, one by one
RemaindersSteps(g, ws, n, sample) ==
    /\ g \in [0 .. n -> Int] /\ g[0] = sample
    /\ \A i \in 1 .. n : g[i] = Fl(g[i - 1] - ws[i])

\* There is such a function; its values may be negative.
LEMMA RemaindersIs ==
  ASSUME NEW sample \in Nat, NEW n \in Nat, NEW ws \in [1 .. n -> Nat]
  PROVE  /\ \E g : Remainders(g, ws, n, sample)
         /\ \A g : Remainders(g, ws, n, sample) => RemaindersSteps(g, ws, n, sample)
<1> DEFINE Step(v, i) == IF i \in 1 .. n THEN Fl(v - ws[i]) ELSE sample
           f == [s \in Int \X Nat |-> Step(s[1], s[2])]
<1>1. \A i \in 1 .. n : ws[i] \in Nat
  OBVIOUS
<1>2. ASSUME NEW v \in Int, NEW i \in Nat PROVE Step(v, i) \in Int
  <2>1. CASE i \in 1 .. n
    <3>1. v - ws[i] \in Int
      BY <1>1, <2>1
    <3> QED
      BY <2>1, <3>1, FlIs
  <2> QED
    BY <2>1
<1>3. \A v \in Int, i \in 1 .. n : Step(v, i) = Fl(v - ws[i])
  OBVIOUS
<1> HIDE DEF Step
<1>4. f \in [Int \X Nat -> Int]
  BY <1>2
<1>5. ASSUME NEW v \in Int, NEW i \in Nat PROVE f[<<v, i>>] = Step(v, i)
  OBVIOUS
<1> HIDE DEF f
<1>6. \E g : Remainders(g, ws, n, sample)
  <2>0. PICK g : IsRun(g, Int, sample, f, n)
    <3>1. sample \in Int
      OBVIOUS
    <3> QED
      BY <1>4, <3>1, RunExists
  <2>1. /\ g \in [0 .. n -> Int] /\ g[0] = sample
        /\ \A i \in 1 .. n : g[i] = f[<<g[i - 1], i>>]
    BY <2>0, RunSteps, SMTT(20) DEF IsRun
  <2>2. ASSUME NEW i \in 1 .. n PROVE g[i] = Fl(g[i - 1] - ws[i])
    <3>1. i - 1 \in 0 .. n /\ i \in Nat
      OBVIOUS
    <3>2. g[i - 1] \in Int /\ g[i] = f[<<g[i - 1], i>>]
      BY <2>1, <3>1
    <3>3. g[i] = Step(g[i - 1], i)
      BY <1>5, <3>1, <3>2
    <3> QED
      BY <1>3, <3>2, <3>3
  <2>3. g = [i \in 0 .. n |-> IF i = 0 THEN sample ELSE Fl(g[i - 1] - ws[i])]
    <3>1. ASSUME NEW i \in 0 .. n PROVE g[i] = IF i = 0 THEN sample ELSE Fl(g[i - 1] - ws[i])
      <4>1. CASE i # 0
        <5>1. i \in 1 .. n
          BY <4>1
        <5> QED
          BY <2>2, <4>1, <5>1
      <4> QED
        BY <2>1, <4>1
    <3> QED
      BY <2>1, <3>1
  <2> QED
    BY <2>3 DEF Remainders
<1>7. ASSUME NEW g, Remainders(g, ws, n, sample) PROVE RemaindersSteps(g, ws, n, sample)
  <2> DEFINE P == {i \in Nat : i <= n => g[i] \in Int}
  <2>1. /\ \A i \in 0 .. n : g[i] = IF i = 0 THEN sample ELSE Fl(g[i - 1] - ws[i])
        /\ DOMAIN g = 0 .. n /\ g = [i \in DOMAIN g |-> g[i]]
    BY <1>7, Zenon DEF Remainders
  <2>2. g[0] = sample
    BY <2>1
  <2>3. ASSUME NEW i \in 1 .. n PROVE g[i] = Fl(g[i - 1] - ws[i])
    <3>1. i \in 0 .. n /\ i # 0
      OBVIOUS
    <3> QED
      BY <2>1, <3>1
  <2>4. 0 \in P /\ P \in SUBSET Nat
    BY <2>2
  <2>5. ASSUME NEW i \in P PROVE i + 1 \in P
    <3> SUFFICES ASSUME i + 1 <= n PROVE g[i + 1] \in Int
      BY <2>5
    <3>1. i + 1 \in 1 .. n /\ (i + 1) - 1 = i /\ g[i] \in Int /\ i + 1 \in Nat
      BY <2>5
    <3>2. g[i + 1] = Step(g[i], i + 1)
      <4>1. g[i + 1] = Fl(g[(i + 1) - 1] - ws[i + 1])
        BY <2>3, <3>1
      <4> QED
        BY <1>3, <3>1, <4>1
    <3> QED
      BY <1>2, <3>1, <3>2
  <2>6. P = Nat
    <3> HIDE DEF P
    <3> QED
      BY <2>4, <2>5, NatInduct
  <2>7. \A i \in 0 .. n : g[i] \in Int
    BY <2>6
  <2> QED
    BY <2>1, <2>2, <2>3, <2>7 DEF RemaindersSteps
<1> QED
  BY <1>6, <1>7

\* A list of weights is a function on its indices.
LEMMA WeightsAre ==
  ASSUME NEW ws \in Seq(Nat)
  PROVE  Len(ws) \in Nat /\ ws \in [1 .. Len(ws) -> Nat]
  OBVIOUS

\* Sums is the recursive function of exact sums.
LEMMA SumsAre ==
  ASSUME NEW ws \in Seq(Nat)
  PROVE  ExactSum(Sums(ws), ws, Len(ws))
<1>1. Sums(ws) = CHOOSE g : ExactSum(g, ws, Len(ws))
  BY DEF Sums, ExactSum
<1>2. \E g : ExactSum(g, ws, Len(ws))
  BY WeightsAre, ExactSumIs
<1> QED
  BY <1>1, <1>2, Zenon

\* Accumulate is the last of the rounded sums.
LEMMA AccumulateIs ==
  ASSUME NEW ws \in Seq(Nat)
  PROVE  \E g : RoundedSum(g, ws, Len(ws)) /\ Accumulate(ws) = g[Len(ws)]
<1> DEFINE c == CHOOSE g : RoundedSum(g, ws, Len(ws))
<1>1. Accumulate(ws) = c[Len(ws)]
  BY DEF Accumulate, RoundedSum
<1>2. \E g : RoundedSum(g, ws, Len(ws))
  BY WeightsAre, RoundedSumIs
<1>3. RoundedSum(c, ws, Len(ws))
  BY <1>2, Zenon
<1> HIDE DEF c
<1> QED
  BY <1>1, <1>3

\* the weights that a sample stops at, given what is left before each
Hits(g, ws) == {i \in 1 .. Len(ws) : g[i - 1] < ws[i]}

\* WeightedInteger is the first of the weights that the sample stops at.
LEMMA WeightedIntegerIs ==
  ASSUME NEW ws \in Seq(Nat), NEW sample \in Nat
  PROVE  \E g : /\ Remainders(g, ws, Len(ws), sample)
                /\ WeightedInteger(ws, sample) =
                      IF Hits(g, ws) = {} THEN Unreached ELSE Min(Hits(g, ws)) - 1
<1> DEFINE c == CHOOSE g : Remainders(g, ws, Len(ws), sample)
<1>1. WeightedInteger(ws, sample) = IF Hits(c, ws) = {} THEN Unreached ELSE Min(Hits(c, ws)) - 1
  BY DEF WeightedInteger, Remainders, Hits
<1>2. \E g : Remainders(g, ws, Len(ws), sample)
  BY WeightsAre, RemaindersIs
<1>3. Remainders(c, ws, Len(ws), sample)
  BY <1>2, Zenon
<1> HIDE DEF c
<1> QED
  BY <1>1, <1>3

\* Min finds the smallest number.
LEMMA MinIs ==
  ASSUME NEW T \in SUBSET Nat, T # {}
  PROVE  Min(T) \in T /\ \A k \in T : Min(T) <= k
<1>1. \E m \in T : \A k \in T : m <= k
  BY SmallestNat
<1> QED
  BY <1>1 DEF Min

\* The sums grow with the number of weights.
LEMMA SumsGrow ==
  ASSUME NEW ws \in Seq(Nat), NEW j \in 0 .. Len(ws)
  PROVE  Sums(ws)[j] <= Total(ws)
<1> DEFINE n == Len(ws)
           s == Sums(ws)
           P == {k \in Nat : k <= n => s[n - k] <= s[n]}
<1>0. n \in Nat /\ ws \in [1 .. n -> Nat] /\ ExactSum(s, ws, n)
  BY WeightsAre, SumsAre
<1> HIDE DEF n, s
<1>1. s \in [0 .. n -> Nat] /\ \A i \in 1 .. n : s[i] = s[i - 1] + ws[i]
  BY <1>0, ExactSumIs DEF ExactSumSteps
<1>2. 0 \in P /\ P \in SUBSET Nat
  BY <1>0, <1>1
<1>3. ASSUME NEW k \in P PROVE k + 1 \in P
  <2> SUFFICES ASSUME k + 1 <= n PROVE s[n - (k + 1)] <= s[n]
    BY <1>3
  <2>1. n - k \in 1 .. n /\ (n - k) - 1 = n - (k + 1) /\ n - (k + 1) \in 0 .. n /\ s[n - k] <= s[n]
    BY <1>0, <1>3
  <2>2. s[n - k] = s[n - (k + 1)] + ws[n - k] /\ ws[n - k] \in Nat
    BY <1>0, <1>1, <2>1
  <2>3. s[n - k] \in Nat /\ s[n - (k + 1)] \in Nat /\ s[n] \in Nat
    BY <1>0, <1>1, <2>1
  <2> QED
    BY <2>1, <2>2, <2>3, SMTT(20)
<1>4. P = Nat
  <2> HIDE DEF P
  <2> QED
    BY <1>2, <1>3, NatInduct
<1>5. n - j \in P /\ n - j <= n /\ n - (n - j) = j
  <2>1. j \in 0 .. n
    BY DEF n
  <2>2. n - j \in Nat /\ n - j <= n /\ n - (n - j) = j
    BY <1>0, <2>1
  <2> QED
    BY <1>4, <2>2
<1>6. s[j] <= s[n]
  BY <1>5
<1> QED
  BY <1>6 DEF Total, s, n

\* std::accumulate is exact if the sum is.
LEMMA AccumulateIsExact ==
  ASSUME NEW ws \in Seq(Nat), Total(ws) < Limit
  PROVE  Accumulate(ws) = Total(ws)
<1> DEFINE n == Len(ws)
           s == Sums(ws)
<1>0. n \in Nat /\ ws \in [1 .. n -> Nat] /\ ExactSum(s, ws, n)
  BY WeightsAre, SumsAre
<1>1. PICK g : RoundedSum(g, ws, n) /\ Accumulate(ws) = g[n]
  BY AccumulateIs
<1>2. \A i \in 0 .. n : s[i] <= s[n]
  BY SumsGrow DEF Total
<1>3. s[n] < Limit /\ Limit \in Nat /\ Total(ws) = s[n]
  BY LimitIs DEF Total
<1> HIDE DEF n, s
<1>4. s \in [0 .. n -> Nat] /\ s[0] = 0 /\ \A i \in 1 .. n : s[i] = s[i - 1] + ws[i]
  BY <1>0, ExactSumIs DEF ExactSumSteps
<1>5. g \in [0 .. n -> Nat] /\ g[0] = 0 /\ \A i \in 1 .. n : g[i] = Fl(g[i - 1] + ws[i])
  BY <1>0, <1>1, RoundedSumIs DEF RoundedSumSteps
<1> DEFINE P == {i \in Nat : i <= n => g[i] = s[i]}
<1>6. 0 \in P /\ P \in SUBSET Nat
  BY <1>4, <1>5
<1>7. ASSUME NEW i \in P PROVE i + 1 \in P
  <2> SUFFICES ASSUME i + 1 <= n PROVE g[i + 1] = s[i + 1]
    BY <1>7
  <2>1. i + 1 \in 1 .. n /\ (i + 1) - 1 = i /\ g[i] = s[i] /\ i + 1 \in 0 .. n
    BY <1>7, <1>0
  <2>2. s[i + 1] = s[i] + ws[i + 1] /\ g[i + 1] = Fl(g[i] + ws[i + 1])
    BY <1>4, <1>5, <2>1
  <2>3. s[i + 1] \in Nat /\ s[i + 1] < Limit
    BY <1>0, <1>2, <1>3, <1>4, <2>1, SMTT(20)
  <2>4. g[i + 1] = Fl(s[i + 1])
    BY <2>1, <2>2
  <2> QED
    BY <2>3, <2>4, FlIs, SMTT(20)
<1>8. P = Nat
  <2> HIDE DEF P
  <2> QED
    BY <1>6, <1>7, NatInduct
<1>9. g[n] = s[n]
  BY <1>0, <1>8
<1> QED
  BY <1>1, <1>3, <1>9

\* The chosen weight is not 0: what is left of a sample never gets negative before
\* the weight that it stops at.
LEMMA ChoiceHasWeight ==
  ASSUME NEW ws \in Seq(Nat), NEW sample \in Nat, WeightedInteger(ws, sample) # Unreached
  PROVE  ws[WeightedInteger(ws, sample) + 1] > 0
<1> DEFINE n == Len(ws)
<1>0. n \in Nat /\ ws \in [1 .. n -> Nat]
  BY WeightsAre
<1>1. PICK g : /\ Remainders(g, ws, n, sample)
               /\ WeightedInteger(ws, sample) =
                      IF Hits(g, ws) = {} THEN Unreached ELSE Min(Hits(g, ws)) - 1
  BY WeightedIntegerIs
<1>2. Hits(g, ws) = {i \in 1 .. n : g[i - 1] < ws[i]}
  BY DEF Hits
<1> HIDE DEF n
<1>3. g \in [0 .. n -> Int] /\ g[0] = sample /\ \A i \in 1 .. n : g[i] = Fl(g[i - 1] - ws[i])
  <2>1. Remainders(g, ws, n, sample)
    BY <1>1
  <2>2. RemaindersSteps(g, ws, n, sample)
    BY <1>0, <2>1, RemaindersIs
  <2> QED
    BY <2>2 DEF RemaindersSteps
<1> DEFINE m == Min(Hits(g, ws))
<1>4. Hits(g, ws) # {} /\ WeightedInteger(ws, sample) = m - 1
  BY <1>1
<1>5. m \in 1 .. n /\ g[m - 1] < ws[m] /\ \A k \in 1 .. m - 1 : ~(g[k - 1] < ws[k])
  <2>1. Hits(g, ws) \in SUBSET Nat
    BY <1>2
  <2>2. m \in Hits(g, ws) /\ \A k \in Hits(g, ws) : m <= k
    BY <1>4, <2>1, MinIs
  <2> HIDE DEF m
  <2>3. m \in 1 .. n /\ g[m - 1] < ws[m]
    BY <1>2, <2>2
  <2>4. ASSUME NEW k \in 1 .. m - 1 PROVE ~(g[k - 1] < ws[k])
    <3>1. k \in 1 .. n /\ ~(m <= k)
      BY <1>0, <2>3
    <3> QED
      BY <1>2, <2>2, <3>1
  <2> QED
    BY <2>3, <2>4
<1> HIDE DEF m
<1> DEFINE P == {i \in Nat : i < m => g[i] \in Nat}
<1>6. 0 \in P /\ P \in SUBSET Nat
  BY <1>3
<1>7. ASSUME NEW i \in P PROVE i + 1 \in P
  <2> SUFFICES ASSUME i + 1 < m PROVE g[i + 1] \in Nat
    BY <1>7
  <2>1. i + 1 \in 1 .. m - 1 /\ i + 1 \in 1 .. n /\ (i + 1) - 1 = i /\ g[i] \in Nat
    BY <1>0, <1>5, <1>7
  <2>2. ws[i + 1] \in Nat /\ ~(g[i] < ws[i + 1]) /\ g[i + 1] = Fl(g[i] - ws[i + 1])
    BY <1>0, <1>3, <1>5, <2>1
  <2>3. g[i] - ws[i + 1] \in Int /\ g[i] - ws[i + 1] >= 0
    BY <2>1, <2>2
  <2> QED
    BY <2>2, <2>3, FlIs
<1>8. P = Nat
  <2> HIDE DEF P
  <2> QED
    BY <1>6, <1>7, NatInduct
<1>9. g[m - 1] \in Nat /\ ws[m] \in Nat
  <2>1. m - 1 \in Nat /\ m - 1 < m
    BY <1>0, <1>5
  <2>2. m - 1 \in P
    BY <1>8, <2>1
  <2>3. g[m - 1] \in Nat
    BY <2>1, <2>2
  <2>4. ws[m] \in Nat
    BY <1>0, <1>5
  <2> QED
    BY <2>3, <2>4
<1>10. ws[m] > 0 /\ (m - 1) + 1 = m
  BY <1>0, <1>5, <1>9
<1> QED
  BY <1>4, <1>10

\* If the weights add up without rounding, the choice is the weight the sample falls on.
LEMMA ChoiceIsExact ==
  ASSUME NEW ws \in Seq(Nat), Total(ws) < Limit, NEW sample \in Nat, sample < Total(ws)
  PROVE  FallsOn(ws, sample, WeightedInteger(ws, sample))
<1> DEFINE n == Len(ws)
           s == Sums(ws)
<1>0. n \in Nat /\ ws \in [1 .. n -> Nat] /\ ExactSum(s, ws, n)
  BY WeightsAre, SumsAre
<1>1. PICK g : /\ Remainders(g, ws, n, sample)
               /\ WeightedInteger(ws, sample) =
                      IF Hits(g, ws) = {} THEN Unreached ELSE Min(Hits(g, ws)) - 1
  BY WeightedIntegerIs
<1>2. Hits(g, ws) = {i \in 1 .. n : g[i - 1] < ws[i]}
  BY DEF Hits
<1>3. sample < s[n] /\ s[n] < Limit /\ Limit \in Nat
  BY LimitIs DEF Total
<1>4. ASSUME NEW i \in 0 .. n - 1, s[i] <= sample, sample < s[i + 1] PROVE FallsOn(ws, sample, i)
  BY <1>4 DEF FallsOn
<1> HIDE DEF n, s
<1>5. g \in [0 .. n -> Int] /\ g[0] = sample /\ \A i \in 1 .. n : g[i] = Fl(g[i - 1] - ws[i])
  <2>1. Remainders(g, ws, n, sample)
    BY <1>1
  <2>2. RemaindersSteps(g, ws, n, sample)
    BY <1>0, <2>1, RemaindersIs
  <2> QED
    BY <2>2 DEF RemaindersSteps
<1>6. s \in [0 .. n -> Nat] /\ s[0] = 0 /\ \A i \in 1 .. n : s[i] = s[i - 1] + ws[i]
  BY <1>0, ExactSumIs DEF ExactSumSteps
<1>7. sample < Limit
  BY <1>0, <1>3, <1>6
<1>8. ASSUME NEW j \in 0 .. n, \A k \in 1 .. j : k \notin Hits(g, ws)
      PROVE  g[j] = sample - s[j] /\ s[j] <= sample
  <2> DEFINE P == {i \in Nat : i <= j => g[i] = sample - s[i] /\ s[i] <= sample}
  <2>1. 0 \in P /\ P \in SUBSET Nat
    BY <1>5, <1>6
  <2>2. ASSUME NEW i \in P PROVE i + 1 \in P
    <3> SUFFICES ASSUME i + 1 <= j PROVE g[i + 1] = sample - s[i + 1] /\ s[i + 1] <= sample
      BY <2>2
    <3>1. i + 1 \in 1 .. j /\ i + 1 \in 1 .. n /\ (i + 1) - 1 = i /\ i \in 0 .. n
      BY <1>0, <2>2
    <3>2. g[i] = sample - s[i] /\ s[i] <= sample /\ s[i] \in Nat
      BY <1>6, <2>2, <3>1
    <3>3. ws[i + 1] \in Nat /\ ~(g[i] < ws[i + 1]) /\ g[i + 1] = Fl(g[i] - ws[i + 1])
      BY <1>0, <1>2, <1>5, <1>8, <3>1
    <3>4. s[i + 1] = s[i] + ws[i + 1]
      BY <1>6, <3>1
    <3>5. g[i] - ws[i + 1] \in Int /\ g[i] - ws[i + 1] < Limit /\ g[i] - ws[i + 1] = sample - s[i + 1]
      <4>1. ASSUME NEW a \in Nat, NEW b \in Nat, NEW c \in Nat, a < c
            PROVE  /\ (a - b) \in Int
                   /\ \A d \in Nat : ((a - b) - d) \in Int /\ ((a - b) - d) < c /\ (a - b) - d = a - (b + d)
        BY <4>1
      <4>2. /\ ((sample - s[i]) - ws[i + 1]) \in Int /\ ((sample - s[i]) - ws[i + 1]) < Limit
            /\ (sample - s[i]) - ws[i + 1] = sample - (s[i] + ws[i + 1])
        <5>1. s[i] \in Nat /\ ws[i + 1] \in Nat /\ Limit \in Nat
          BY <1>3, <3>2, <3>3
        <5> QED
          BY <1>7, <4>1, <5>1, SMTT(20)
      <4> QED
        BY <3>2, <3>4, <4>2
    <3>6. g[i + 1] = g[i] - ws[i + 1]
      BY <3>3, <3>5, FlIs
    <3> QED
      BY <3>2, <3>3, <3>4, <3>5, <3>6
  <2>3. P = Nat
    <3> HIDE DEF P
    <3> QED
      BY <2>1, <2>2, NatInduct
  <2>4. j \in P
    BY <1>0, <2>3
  <2> QED
    BY <2>4
<1>9. Hits(g, ws) # {}
  <2> SUFFICES ASSUME Hits(g, ws) = {} PROVE FALSE
    OBVIOUS
  <2>1. s[n] <= sample /\ s[n] \in Nat
    BY <1>0, <1>6, <1>8
  <2> QED
    BY <1>3, <2>1
<1> DEFINE m == Min(Hits(g, ws))
<1>10. m \in Hits(g, ws) /\ \A k \in Hits(g, ws) : m <= k
  <2>1. Hits(g, ws) \in SUBSET Nat
    BY <1>2
  <2> QED
    BY <1>9, <2>1, MinIs
<1>11. WeightedInteger(ws, sample) = m - 1
  BY <1>1, <1>9
<1> HIDE DEF m
<1>12. m \in 1 .. n /\ g[m - 1] < ws[m] /\ m - 1 \in 0 .. n - 1 /\ m - 1 \in 0 .. n /\ (m - 1) + 1 = m
  BY <1>0, <1>2, <1>10
<1>13. \A k \in 1 .. m - 1 : k \notin Hits(g, ws)
  BY <1>10, <1>12
<1>14. g[m - 1] = sample - s[m - 1] /\ s[m - 1] <= sample
  BY <1>8, <1>12, <1>13
<1>15. s[m] = s[m - 1] + ws[m] /\ s[m - 1] \in Nat /\ ws[m] \in Nat
  BY <1>0, <1>6, <1>12
<1>16. sample < s[m]
  BY <1>12, <1>14, <1>15
<1> QED
  BY <1>4, <1>11, <1>12, <1>14, <1>16

\* what holds of every job
IsWeighted(j) == j.kind = "weighted" => \E ws \in Seq(Nat) : j = Weighted(ws)

\* Weights that a request states, and what is read beyond them, are numbers.
LEMMA ReadIsWeights ==
  ASSUME NEW list \in WeightLists, NEW size \in ListSizes
  PROVE  Read(list, size) \subseteq Seq(Nat)
<1> SUFFICES ASSUME NEW junk \in [1 .. size -> Junk]
             PROVE  SubSeq(list \o junk, 1, size) \in Seq(Nat)
  BY DEF Read
<1>1. list \in Seq(Nat) /\ size \in Nat /\ Junk \subseteq Nat
  BY WeightsAssumption
<1>2. junk \in Seq(Nat) /\ Len(junk) = size
  <2>1. junk \in [1 .. size -> Nat]
    BY <1>1
  <2>2. junk \in Seq(Nat)
    BY <1>1, <2>1, SeqDef
  <2> QED
    BY <1>1, <2>1, <2>2, LenProperties
<1>3. list \o junk \in Seq(Nat) /\ Len(list \o junk) = Len(list) + size /\ Len(list) \in Nat
  BY <1>1, <1>2
<1> QED
  BY <1>1, <1>3

\* A request for a choice by weight makes such a job.
LEMMA JobsAreWeighted ==
  ASSUME NEW method, NEW j \in Jobs(method)
  PROVE  IsWeighted(j)
<1>1. CASE method = "get_uniform_integer"
  BY <1>1 DEF Jobs, Integer, IsWeighted
<1>2. CASE method = "get_uniform_real"
  BY <1>2 DEF Jobs, Real, IsWeighted
<1>3. CASE method = "get_weighted_integer"
  <2>1. PICK ws \in UNION {Read(l, s) : l \in WeightLists, s \in ListSizes} : j = Weighted(ws)
    BY <1>3 DEF Jobs
  <2>2. PICK l \in WeightLists, s \in ListSizes : ws \in Read(l, s)
    BY <2>1
  <2>3. ws \in Seq(Nat)
    BY <2>2, ReadIsWeights
  <2> QED
    BY <2>1, <2>3 DEF IsWeighted
<1>4. CASE method \notin {"get_uniform_integer", "get_uniform_real", "get_weighted_integer"}
  BY <1>4 DEF Jobs
<1> QED
  BY <1>1, <1>2, <1>3, <1>4

\* Only process functions make jobs.
LEMMA JobStep ==
  ASSUME ArrayInv, JobInv, [Next]_vars
  PROVE  JobInv'
<1>0. DOMAIN job = Workers /\ \A w \in Workers : IsWeighted(job[w])
  BY DEF ArrayInv, JobInv, IsWeighted
<1>1. ASSUME NEW w \in Workers, NEW j, IsWeighted(j), job' = [job EXCEPT ![w] = j]
      PROVE  JobInv'
  <2>1. ASSUME NEW v \in Workers PROVE IsWeighted(job'[v])
    <3>1. job'[v] = IF v = w THEN j ELSE job[v]
      BY <1>0, <1>1
    <3> QED
      BY <1>0, <1>1, <3>1
  <2> QED
    BY <2>1 DEF JobInv, IsWeighted
<1>2. ASSUME UNCHANGED job PROVE JobInv'
  BY <1>2 DEF JobInv
<1>3. ASSUME NEW w \in Workers, Answer(w) PROVE JobInv'
  <2>1. IsWeighted(Integer)
    BY DEF IsWeighted, Integer
  <2>2. job' = [job EXCEPT ![w] = Integer]
    BY <1>3 DEF Answer
  <2> QED
    BY <1>1, <2>1, <2>2
<1>4. ASSUME NEW w \in Workers, MissingTerminator(w) \/ Receive(w) PROVE JobInv'
  BY <1>2, <1>3, <1>4 DEF MissingTerminator, Receive, NotFound, Route
<1>5. ASSUME NEW w \in Workers, Serve(w) PROVE JobInv'
  <2>1. ASSUME NEW j, NEW c, ProcessRandom(w, j, c) PROVE JobInv'
    <3>1. j \in Jobs(Method(w)) /\ job' = [job EXCEPT ![w] = j]
      BY <2>1 DEF ProcessRandom
    <3> QED
      BY <1>1, <3>1, JobsAreWeighted
  <2>2. CASE Process(w) \/ Respond(w)
    BY <1>3, <2>2 DEF Process, Respond
  <2>3. CASE ProcessThrows(w) \/ MeasureInstruction(w) \/ NextSample(w) \/ Spin(w)
    BY <1>2, <2>3 DEF ProcessThrows, Abort, MeasureInstruction, NextSample, Spin, vars, workerVars
  <2>4. ASSUME NEW s, NEW k, Draw(w, s, k) PROVE JobInv'
    BY <1>2, <2>4 DEF Draw
  <2> QED
    BY <1>5, <2>1, <2>2, <2>3, <2>4 DEF Serve
<1> QED
  BY <1>2, <1>4, <1>5 DEF Next, Aborted, Register, vars, workerVars

\* The draws of such jobs are right.
LEMMA WeightedChoiceHolds ==
  ASSUME JobInv
  PROVE  WeightedChoice
<1> SUFFICES ASSUME NEW w \in Workers, job[w].kind = "weighted", NEW sample \in Samples(job[w])
             PROVE  LET index == WeightedInteger(job[w].weights, sample)
                    IN  /\ index # Unreached => job[w].weights[index + 1] > 0
                        /\ Total(job[w].weights) < Limit => FallsOn(job[w].weights, sample, index)
  BY DEF WeightedChoice
<1>1. PICK ws \in Seq(Nat) : job[w] = Weighted(ws)
  BY DEF JobInv
<1>2. /\ job[w].weights = ws /\ job[w].lower = 0 /\ job[w].upper = Accumulate(ws)
      /\ job[w].kind # "integer"
  BY <1>1 DEF Weighted
<1>3. sample \in 0 .. Accumulate(ws) - 1
  BY <1>2 DEF Samples, RealSamples
<1>4. Accumulate(ws) \in Nat
  <2>1. PICK g : RoundedSum(g, ws, Len(ws)) /\ Accumulate(ws) = g[Len(ws)]
    BY AccumulateIs
  <2>2. g \in [0 .. Len(ws) -> Nat] /\ Len(ws) \in 0 .. Len(ws)
    BY <2>1, WeightsAre, RoundedSumIs DEF RoundedSumSteps
  <2> QED
    BY <2>1, <2>2
<1>5. sample \in Nat /\ sample < Accumulate(ws)
  BY <1>3, <1>4
<1>6. WeightedInteger(ws, sample) # Unreached => ws[WeightedInteger(ws, sample) + 1] > 0
  BY <1>5, ChoiceHasWeight
<1>7. Total(ws) < Limit => FallsOn(ws, sample, WeightedInteger(ws, sample))
  BY <1>5, AccumulateIsExact, ChoiceIsExact
<1> QED
  BY <1>2, <1>6, <1>7

-----------------------------------------------------------------------------
(* The table, and the way of the requests.                                   *)

LEMMA TableStep ==
  ASSUME TableInv, ArrayInv, [Next]_vars
  PROVE  TableInv'
<1>0. registered \in Seq(Stems) /\ Len(registered) \in Nat /\ Maximum \in Nat
  BY MaximumAssumption DEF TableInv
<1>1. ASSUME UNCHANGED <<registered, phase>>, phase = "register" => step' = step PROVE TableInv'
  BY <1>1 DEF TableInv
<1>2. CASE UNCHANGED vars
  BY <1>1, <1>2 DEF vars, workerVars
<1>3. CASE Register
  <2> DEFINE c == Calls[Len(registered) + 1]
  <2>0. /\ phase = "register" /\ UNCHANGED workerVars
        /\ IF Len(registered) >= Maximum \/ c.size = 0 \/ c.size > MethodMaximum
           THEN phase' = "aborted" /\ UNCHANGED registered
           ELSE /\ registered' = Append(registered, c)
                /\ phase' = IF registered' = Calls THEN "serving" ELSE "register"
    BY <1>3 DEF Register, RegisterCall
  <2>1. CASE phase' = "aborted" /\ UNCHANGED registered
    BY <2>1 DEF TableInv
  <2>2. CASE /\ ~(Len(registered) >= Maximum) /\ registered' = Append(registered, c)
             /\ phase' = IF registered' = Calls THEN "serving" ELSE "register"
    <3>1. Len(registered) + 1 \in 1 .. 13 /\ Len(registered) < Maximum
      <4> HIDE DEF c
      <4>1. Len(registered) < 13
        BY <2>0, TableLength DEF TableInv
      <4> QED
        BY <1>0, <2>2, <4>1, SMTT(20)
    <3>2. c \in Stems
      BY <3>1, TableLength
    <3> HIDE DEF c
    <3>3. /\ registered' \in Seq(Stems) /\ Len(registered') = Len(registered) + 1
          /\ \A i \in 1 .. Len(registered) : registered'[i] = registered[i]
          /\ registered'[Len(registered) + 1] = c
      BY <1>0, <2>2, <3>2, AppendProperties
    <3>4. \A i \in 1 .. Len(registered') : registered'[i] = Calls[i]
      <4> SUFFICES ASSUME NEW i \in 1 .. Len(registered') PROVE registered'[i] = Calls[i]
        OBVIOUS
      <4>1. CASE i = Len(registered) + 1
        BY <3>3, <4>1 DEF c
      <4>2. CASE i # Len(registered) + 1
        <5>1. i \in 1 .. Len(registered)
          BY <1>0, <3>3, <4>2
        <5> QED
          BY <3>3, <5>1 DEF TableInv
      <4> QED
        BY <4>1, <4>2
    <3>5. Len(registered') = 13 => registered' = Calls
      BY <3>3, <3>4, TableLength, SeqEqual
    <3>6. Len(registered') <= Maximum /\ Len(registered') <= Len(Calls)
      <4>1. Len(registered') = Len(registered) + 1 /\ Len(Calls) = 13
        BY <3>3, TableLength
      <4> QED
        BY <1>0, <3>1, <4>1
    <3>7. phase' = "register" => Len(registered') < Len(Calls) /\ \A w \in Workers : step'[w] = "idle"
      BY <1>0, <2>0, <2>2, <3>1, <3>3, <3>5, TableLength DEF TableInv, workerVars
    <3>8. phase' \in {"register", "serving", "aborted"} /\ (phase' = "serving" => registered' = Calls)
      BY <2>2
    <3> QED
      BY <3>3, <3>4, <3>6, <3>7, <3>8 DEF TableInv
  <2> QED
    BY <2>0, <2>1, <2>2
<1>4. ASSUME phase = "serving", NEW w \in Workers, MissingTerminator(w) \/ Receive(w) \/ Serve(w)
      PROVE  TableInv'
  <2>1. registered' = registered /\ (phase' = phase \/ phase' = "aborted")
    BY <1>4 DEF MissingTerminator, Receive, NotFound, Route, Serve, Process, ProcessThrows, Abort,
       MeasureInstruction, ProcessRandom, NextSample, Draw, Spin, Respond, vars
  <2> QED
    BY <1>4, <2>1 DEF TableInv
<1> QED
  BY <1>2, <1>3, <1>4 DEF Next, Aborted

LEMMA RoutingStep ==
  ASSUME TableInv, ExactDispatch, [Next]_vars
  PROVE  ExactDispatch'
<1>1. ASSUME UNCHANGED routing PROVE ExactDispatch'
  BY <1>1 DEF ExactDispatch
<1>2. ASSUME phase = "serving", NEW w \in Workers, Receive(w) PROVE ExactDispatch'
  <2>1. registered = Calls /\ Maximum >= 13
    BY <1>2, TableLength, MaximumAssumption DEF TableInv
  <2>2. PICK r \in Requests : \/ FindCall(r) = 0 /\ NotFound(w, r)
                              \/ FindCall(r) # 0 /\ \E m \in 0 .. MaxCount : Route(w, r, FindCall(r), m)
    BY <1>2 DEF Receive
  <2>3. CASE FindCall(r) = 0 /\ NotFound(w, r)
    <3>1. ~\E i \in DOMAIN Calls : Named(r, i)
      BY <2>1, <2>3, FindCallIsExact
    <3> QED
      BY <1>1, <2>3, <3>1 DEF NotFound
  <2>4. ASSUME FindCall(r) # 0, NEW m \in 0 .. MaxCount, Route(w, r, FindCall(r), m)
        PROVE  ExactDispatch'
    <3>1. Representable(r) => Named(r, FindCall(r))
      BY <2>1, <2>4, FindCallIsExact
    <3> QED
      BY <1>1, <2>4, <3>1 DEF Route
  <2> QED
    BY <2>2, <2>3, <2>4
<1>3. ASSUME NEW w \in Workers, MissingTerminator(w) \/ Serve(w) PROVE ExactDispatch'
  <2>1. UNCHANGED routing
    BY <1>3 DEF MissingTerminator, Serve, Process, ProcessThrows, Abort,
       MeasureInstruction, ProcessRandom, NextSample, Draw, Spin, Respond, vars
  <2> QED
    BY <1>1, <2>1
<1> QED
  BY <1>1, <1>2, <1>3 DEF Next, Aborted, Register, vars

-----------------------------------------------------------------------------
(* The theorems.                                                             *)

\* The parts of the inductive invariant hold of the process as it starts, and every
\* step of every worker keeps them.
THEOREM Invariance == Spec => []Inv
<1>1. Init => Inv
  <2> SUFFICES ASSUME Init PROVE Inv
    OBVIOUS
  <2>1. TableInv
    BY TableLength, MaximumAssumption DEF Init, TableInv
  <2>2. DrawInv
    <3>1. Period \in Nat \ {0} /\ PositionLimit \in Nat \ {0} /\ Nobody \notin Workers
      BY PeriodAssumption, NobodyAssumption
    <3>2. (0 + 0) % PositionLimit = 0
      BY <3>1, Modulo
    <3> QED
      BY <3>1, <3>2 DEF Init, InitGenerator, DrawInv
  <2>3. ArrayInv
    BY DEF Init, ArrayInv
  <2>4. JobInv
    BY DEF Init, JobInv, Integer
  <2> QED
    BY <2>1, <2>2, <2>3, <2>4 DEF Inv, Init, ExactDispatch
<1>2. Inv /\ [Next]_vars => Inv'
  BY TableStep, DrawStep, ArrayStep, JobStep, RoutingStep DEF Inv
<1> QED
  BY <1>1, <1>2, PTL DEF Spec

\* route_request and find_call: no request that fits the packed attribute is misrouted
\* and none that names a call is refused, in a table of any size.
THEOREM DispatchIsExact == Spec => []ExactDispatch
<1>1. Inv => ExactDispatch
  BY DEF Inv
<1> QED
  BY <1>1, Invariance, PTL

\* accessMutex: any number of workers draw one after the other, and none draws with
\* a copy of the engine that is out of date.
THEOREM SerialDraws == Spec => []DrawsAreSerial
<1>1. Inv => DrawsAreSerial
  <2> SUFFICES ASSUME DrawInv PROVE DrawsAreSerial
    BY DEF Inv
  <2> DEFINE Drawing == {w \in Workers : step[w] = "drawing"}
  <2>1. CASE holder = Nobody
    <3>1. Drawing = {}
      BY <2>1, NobodyAssumption DEF DrawInv
    <3>2. Cardinality(Drawing) = 0
      BY <3>1, FS_EmptySet
    <3> HIDE DEF Drawing
    <3> QED
      BY <2>1, <3>2 DEF DrawInv, DrawsAreSerial, Drawing
  <2>2. CASE holder # Nobody
    <3>1. Drawing = {holder}
      BY <2>2 DEF DrawInv
    <3>2. Cardinality(Drawing) = 1
      BY <3>1, FS_Singleton
    <3> QED
      BY <2>2, <3>2 DEF DrawInv, DrawsAreSerial
  <2> QED
    BY <2>1, <2>2
<1> QED
  BY <1>1, Invariance, PTL

\* process and rapid_json_array: every array of a random call is deleted exactly once.
THEOREM ArraysAreDeletedOnce == Spec => []ArraysDeletedOnce
<1>1. Inv => ArraysDeletedOnce
  <2> SUFFICES ASSUME ArrayInv, NEW w \in Workers, NEW a \in {"weights", "result"}
               PROVE  arrays[w][a] # "twice" /\ (step[w] = "idle" => arrays[w][a] # "live")
    BY DEF Inv, ArraysDeletedOnce
  <2>1. step[w] \in {"idle", "calling", "sampling", "drawing"}
    BY DEF ArrayInv
  <2>2. CASE step[w] = "idle"
    BY <2>2 DEF ArrayInv
  <2>3. CASE step[w] # "idle"
    <3>1. Sampling(w) \/ Running(w)
      BY <2>1, <2>3 DEF ArrayInv
    <3> QED
      BY <2>3, <3>1 DEF Sampling, Running
  <2> QED
    BY <2>2, <2>3
<1> QED
  BY <1>1, Invariance, PTL

\* get_weighted_integer: whatever the weights, the samples and the precision of a double,
\* the index that is chosen has a weight, and it is the one the sample falls on if the
\* weights add up without rounding.
THEOREM WeightsDecide == Spec => []WeightedChoice
<1>1. Inv => WeightedChoice
  BY WeightedChoiceHolds DEF Inv
<1> QED
  BY <1>1, Invariance, PTL
=============================================================================
