------------------------------- MODULE CallPath -------------------------------
(* The way of a request through a worker: work() and route_request (net/), the *)
(* search for the call (Dispatch), the process functions of actions.cpp, those *)
(* that draw random numbers (Generator) in detail, and the response that takes *)
(* over their arrays (net/response.hpp).  The other process functions are the  *)
(* subject of Universe; here they end in a response or an exception, and those *)
(* that run programs may measure, which draws from the generator too.          *)
(* A build without SABOT_THROW, as the repository has it.                      *)
EXTENDS Dispatch, Generator

CONSTANTS MaxCount,     \* bound on the number of samples a request asks for
          RealRanges,   \* pairs of bounds for get_uniform_real
          WeightLists,  \* arrays of weights for get_weighted_integer
          ListSizes,    \* the size that a request states beside the array
          Junk          \* what memory behind an array may hold

ASSUME WeightsAssumption ==
    /\ WeightLists \subseteq Seq(Nat) /\ Junk \subseteq Nat
    /\ ListSizes \subseteq Nat

VARIABLES step,     \* where each worker is: "idle", "calling", "sampling", "drawing"
          slot,     \* the slot whose function it is in
          job,      \* what it draws
          left,     \* samples it still has to draw; for a program, a bound on them
          arrays,   \* its arrays: "null", "live", "freed", or freed "twice"
          routing   \* history: requests have gone the "right" way, or one was
                    \* "refused" or "misrouted"

workerVars == <<step, slot, job, left, arrays>>
vars       == <<registered, phase, generatorVars, workerVars, routing>>

\* What to draw: a sample of an integer or of a real from a range, or a choice by
\* weight, which draws a real below the sum of the weights.
Integer             == [kind |-> "integer", lower |-> 0, upper |-> 1, weights |-> << >>]
Real(lower, upper)  == [kind |-> "real", lower |-> lower, upper |-> upper, weights |-> << >>]
Weighted(weights)   == [kind |-> "weighted", lower |-> 0, upper |-> Accumulate(weights),
                        weights |-> weights]

\* weights[0 .. size-1], which may go past the array
Read(list, size) ==
    {SubSeq(list \o junk, 1, size) : junk \in [1 .. size -> Junk]}

\* the jobs that the parameters of a request for a random call may ask for
Jobs(method) ==
    CASE method = "get_uniform_integer"  -> {Integer}
      [] method = "get_uniform_real"     -> {Real(b[1], b[2]) : b \in RealRanges}
      [] method = "get_weighted_integer" ->
            {Weighted(ws) : ws \in UNION {Read(l, s) : l \in WeightLists, s \in ListSizes}}
      [] OTHER -> {}

\* process functions that run a program and may come to a measure instruction
RunsProgram == {"create_state", "modify_state", "measure_state", "compute_result"}

Method(w) == registered[slot[w]].method

Init ==
    /\ registered = << >> /\ phase = "register"
    /\ InitGenerator
    /\ step = [w \in Workers |-> "idle"]
    /\ slot = [w \in Workers |-> 0]
    /\ job = [w \in Workers |-> Integer]
    /\ left = [w \in Workers |-> 0]
    /\ arrays = [w \in Workers |-> [weights |-> "null", result |-> "null"]]
    /\ routing = "right"

Register ==
    /\ phase = "register"
    /\ RegisterCall
    /\ UNCHANGED <<generatorVars, workerVars, routing>>

-----------------------------------------------------------------------------
(* work() and route_request                                                   *)

\* A response, with a result or an error, is sent; the socket deletes it after that.
Answer(w) ==
    /\ step' = [step EXCEPT ![w] = "idle"]
    /\ slot' = [slot EXCEPT ![w] = 0]
    /\ job' = [job EXCEPT ![w] = Integer]
    /\ left' = [left EXCEPT ![w] = 0]

\* a message that does not end with NUL
MissingTerminator(w) ==
    /\ step[w] = "idle"
    /\ Answer(w)
    /\ UNCHANGED <<registered, phase, generatorVars, arrays, routing>>

\* A request is received and its call is in slot i.  Should it run a program, that
\* has so many measure instructions.
Route(w, r, i, measures) ==
    /\ measures > 0 => registered[i].method \in RunsProgram
    /\ slot' = [slot EXCEPT ![w] = i]
    /\ left' = [left EXCEPT ![w] = measures]
    /\ step' = [step EXCEPT ![w] = "calling"]
    /\ arrays' = [arrays EXCEPT ![w] = [weights |-> "null", result |-> "null"]]
    /\ routing' = IF Representable(r) /\ ~Named(r, i) THEN "misrouted" ELSE routing
    /\ UNCHANGED <<registered, phase, generatorVars, job>>

\* std::runtime_error(_tpntfnd), which route_request turns into a response
NotFound(w, r) ==
    /\ Answer(w)
    /\ routing' = IF \E i \in DOMAIN Calls : Named(r, i) THEN "refused" ELSE routing
    /\ UNCHANGED <<registered, phase, generatorVars, arrays>>

Receive(w) ==
    /\ step[w] = "idle"
    /\ \E r \in Requests :
          LET i == FindCall(r)
          IN  \/ i = 0 /\ NotFound(w, r)
              \/ i # 0 /\ \E m \in 0 .. MaxCount : Route(w, r, i, m)

-----------------------------------------------------------------------------
(* process                                                                    *)

\* The process function of a call on the universe returns a response, or
\* measure_state or compute_result was told "false" and throws a runtime_error,
\* which route_request makes a response of.
Process(w) ==
    /\ step[w] = "calling" /\ slot[w] > Len(RandomCalls)
    /\ Answer(w)
    /\ UNCHANGED <<registered, phase, generatorVars, arrays, routing>>

Abort ==
    /\ phase' = "aborted"
    /\ UNCHANGED <<registered, generatorVars, workerVars, routing>>

\* An exception of another type leaves work(): std::terminate.  A parameter that is not
\* of the type asked for throws none, as the build turns rapidjson's assertions off: its
\* value is whatever the bytes there say, one more number that a client might send.
ProcessThrows(w) == step[w] = "calling" /\ Abort

\* a measure instruction with a random outcome: get_uniform_integer(0, 1)
MeasureInstruction(w) ==
    /\ step[w] = "calling" /\ left[w] > 0
    /\ BeginSample(w)
    /\ step' = [step EXCEPT ![w] = "drawing"]
    /\ UNCHANGED <<registered, phase, slot, job, left, arrays, routing>>

\* The parameters are read, the weights into an array of their own, and the array
\* for the result is allocated.
ProcessRandom(w, j, count) ==
    /\ step[w] = "calling" /\ j \in Jobs(Method(w))
    /\ job' = [job EXCEPT ![w] = j]
    /\ left' = [left EXCEPT ![w] = count]
    /\ arrays' = [arrays EXCEPT ![w] =
                     [weights |-> IF j.kind = "weighted" THEN "live" ELSE "null",
                      result |-> "live"]]
    /\ step' = [step EXCEPT ![w] = "sampling"]
    /\ UNCHANGED <<registered, phase, generatorVars, slot, routing>>

NextSample(w) ==
    /\ step[w] = "sampling" /\ left[w] > 0
    /\ BeginSample(w)
    /\ step' = [step EXCEPT ![w] = "drawing"]
    /\ UNCHANGED <<registered, phase, slot, job, left, arrays, routing>>

\* what the distribution may return: nothing for an empty range of reals
Samples(j) == IF j.kind = "integer" THEN {0, 1} ELSE RealSamples(j.lower, j.upper)

\* variant: the loop does not count
DrawAgain(w, sample, outputs) ==
    /\ step[w] = "drawing" /\ sample \in Samples(job[w])
    /\ EndSample(w, outputs)
    /\ IF job[w].kind = "weighted" /\ WeightedInteger(job[w].weights, sample) = Unreached
       THEN phase' = "aborted" ELSE UNCHANGED phase
    /\ step' = [step EXCEPT ![w] = IF Method(w) \in RunsProgram THEN "calling" ELSE "sampling"]
    /\ UNCHANGED <<registered, slot, job, left, arrays, routing>>

\* result[i] = ..., or back to the program that measures.  The logic_error of
\* get_weighted_integer comes when the lock has been released, and nobody
\* catches it.
Draw(w, sample, outputs) ==
    /\ step[w] = "drawing" /\ sample \in Samples(job[w])
    /\ EndSample(w, outputs)
    /\ IF job[w].kind = "weighted" /\ WeightedInteger(job[w].weights, sample) = Unreached
       THEN phase' = "aborted" ELSE UNCHANGED phase
    /\ left' = [left EXCEPT ![w] = @ - 1]
    /\ step' = [step EXCEPT ![w] = IF Method(w) \in RunsProgram THEN "calling" ELSE "sampling"]
    /\ UNCHANGED <<registered, slot, job, arrays, routing>>

\* the loop of the distribution on an empty range, with the lock held
Spin(w) ==
    /\ step[w] = "drawing" /\ Samples(job[w]) = {}
    /\ UNCHANGED vars

Delete(state) == IF state = "live" THEN "freed" ELSE "twice"

\* variant: the constructor leaves the array to the caller
RapidJsonArrayKeeps(owned) == owned

\* rapid_json_array copies the items and deletes the array
RapidJsonArray(owned) == [owned EXCEPT !.result = Delete(@)]

\* get_weighted_integer's delete[] weights
DeleteWeights(owned, j) ==
    IF j.kind = "weighted" THEN [owned EXCEPT !.weights = Delete(@)] ELSE owned

\* the weights are deleted, and the response is made of the result
Respond(w) ==
    /\ step[w] = "sampling" /\ left[w] = 0
    /\ arrays' = [arrays EXCEPT ![w] = RapidJsonArray(DeleteWeights(@, job[w]))]
    /\ Answer(w)
    /\ UNCHANGED <<registered, phase, generatorVars, routing>>

Serve(w) ==
    \/ Process(w) \/ ProcessThrows(w)
    \/ MeasureInstruction(w)
    \/ step[w] = "calling" /\ \E j \in Jobs(Method(w)), c \in 0 .. MaxCount : ProcessRandom(w, j, c)
    \/ NextSample(w)
    \/ step[w] = "drawing" /\ \E s \in Samples(job[w]), k \in 1 .. MaxOutputs : Draw(w, s, k)
    \/ Spin(w)
    \/ Respond(w)

Aborted == phase = "aborted" /\ UNCHANGED vars

Next ==
    \/ Register
    \/ /\ phase = "serving"
       /\ \E w \in Workers : MissingTerminator(w) \/ Receive(w) \/ Serve(w)
    \/ Aborted

Spec == Init /\ [][Next]_vars

\* Static initialisation comes to its end, and the operating system schedules
\* every worker.  Nothing makes a client send, and accessMutex is not fair.
FairSpec ==
    /\ Spec
    /\ WF_vars(Register)
    /\ \A w \in Workers : WF_vars(phase = "serving" /\ Serve(w))

-----------------------------------------------------------------------------
(* Properties.                                                               *)

\* The packed comparison of find_call is exact.  A request that fits the attribute
\* gets to the call with its name and its number of parameters, although both are
\* compared through one byte, and a request that names a call of the program is
\* found in whichever word of eight slots it is.
ExactDispatch == routing = "right"

\* The generator serves its callers one after the other: no output of the engine
\* is given to two of them or skipped by a late write, and position counts every
\* sample once, while workers race for it from process functions and from measure
\* instructions.
DrawsAreSerial ==
    /\ rng = drawn
    /\ position = (samples + Cardinality({w \in Workers : step[w] = "drawing"})) % PositionLimit

\* For the draw a worker is in: whatever the sample, the index chosen by weight has
\* a weight, and if the weights add up without rounding it is the one the sample
\* falls on, so that the logic_error "unreachable" is not reached.
WeightedChoice ==
    \A w \in Workers :
        LET j == job[w]
        IN  step[w] = "drawing" /\ j.kind = "weighted" =>
                \A sample \in Samples(j) :
                    LET index == WeightedInteger(j.weights, sample)
                    IN  /\ index # Unreached => j.weights[index + 1] > 0
                        /\ Total(j.weights) < Limit
                               => FallsOn(j.weights, sample, index)

\* The arrays of a random call are deleted once each, the weights by the process
\* function and the result by the response that takes it over, and none is left
\* when the worker has answered.
ArraysDeletedOnce ==
    \A w \in Workers : \A a \in {"weights", "result"} :
        /\ arrays[w][a] # "twice"
        /\ step[w] = "idle" => arrays[w][a] # "live"

-----------------------------------------------------------------------------
(* The inductive invariant behind the safety properties.                     *)

\* The calls are registered in order, and all of them before the first request.
TableInv ==
    /\ phase \in {"register", "serving", "aborted"}
    /\ registered \in Seq(Stems)
    /\ Len(registered) <= Maximum /\ Len(registered) <= Len(Calls)
    /\ \A i \in 1 .. Len(registered) : registered[i] = Calls[i]
    /\ phase = "register" => /\ Len(registered) < Len(Calls)
                             /\ \A w \in Workers : step[w] = "idle"
    /\ phase = "serving" => registered = Calls

\* Who draws has the mutex, and the engine is as the worker saw it.
DrawInv ==
    /\ seen \in [Workers -> 0 .. Period - 1]
    /\ holder \in Workers \cup {Nobody}
    /\ \A w \in Workers : step[w] = "drawing" <=> holder = w
    /\ rng = drawn /\ rng \in 0 .. Period - 1
    /\ holder # Nobody => seen[holder] = rng
    /\ samples \in 0 .. PositionLimit - 1
    /\ position = (samples + (IF holder = Nobody THEN 0 ELSE 1)) % PositionLimit

\* the arrays of a process function that samples
Sampling(w) ==
    /\ arrays[w].result = "live"
    /\ arrays[w].weights = IF job[w].kind = "weighted" THEN "live" ELSE "null"
    /\ Method(w) \notin RunsProgram

\* one that runs a program has none
Running(w) == arrays[w] = [weights |-> "null", result |-> "null"]

\* Arrays live exactly while a worker samples.
ArrayInv ==
    /\ step \in [Workers -> {"idle", "calling", "sampling", "drawing"}]
    /\ arrays \in [Workers -> [weights : {"null", "live", "freed", "twice"},
                               result : {"null", "live", "freed", "twice"}]]
    /\ left \in [Workers -> Nat]
    /\ DOMAIN slot = Workers /\ DOMAIN job = Workers
    /\ \A w \in Workers :
          /\ step[w] = "idle" => \A a \in {"weights", "result"} : arrays[w][a] \in {"null", "freed"}
          /\ step[w] = "calling" => Running(w) /\ (left[w] > 0 => Method(w) \in RunsProgram)
          /\ step[w] = "sampling" => Sampling(w)
          /\ step[w] = "drawing" =>
                left[w] > 0 /\ (Sampling(w) \/ (Running(w) /\ Method(w) \in RunsProgram))

\* A choice by weight draws below the rounded sum of weights that are numbers.
JobInv ==
    \A w \in Workers :
        job[w].kind = "weighted" => \E ws \in Seq(Nat) : job[w] = Weighted(ws)

Inv == TableInv /\ DrawInv /\ ArrayInv /\ JobInv /\ ExactDispatch

-----------------------------------------------------------------------------
(* Liveness.                                                                 *)

\* a worker is in a distribution that does not return
Spinning(w) == step[w] = "drawing" /\ Samples(job[w]) = {}

\* Workers never block each other for good on accessMutex: either calls go on
\* being made, or they all have been answered, or the process has ended.  The
\* exception is a draw from an empty range (equal bounds, or weights that add up to
\* zero), which never returns, and keeps every other worker out of the generator.
RandomAnswered ==
    \/ []<><<\E w \in Workers : step[w] = "idle" /\ step'[w] = "calling">>_vars
    \/ <>[](\/ phase # "serving"
            \/ \A w \in Workers : step[w] = "idle"
            \/ \E w \in Workers : Spinning(w))
=============================================================================
