# Sabot in TLA+

Sabot is a server that simulates quantum states for clients on the network. A
client sends a JSON request over ZeroMQ; one of a pool of worker threads finds
the function for it, works on a collection of quantum systems that all workers
share, and replies. These modules model the parts of the program in which
threads, lifetimes and long histories matter, TLC checks them on small instances, and
TLAPS proves their safety properties for every number of threads, keys, items, qubits
and so on, and that the container and the universe implement their abstract
specifications.

## The system

| part | source | state | operations | works with |
| --- | --- | --- | --- | --- |
| process | `sabot.cpp` | `signal_code`, the server | parse options, listen, install handlers, pause, stop | server |
| server | `net/server.cpp`, `.hpp` | `isRunning`, `doExit`, thread objects, ZeroMQ sockets | `listen`, `stop`, `proxy_work`, `work`, `route_request` | ZeroMQ, dispatch |
| dispatch | `actions.cpp`, `.hpp`, `net/request.hpp` | `registeredCalls`: 16 slots | `register_call`, `method_attr`, `find_call`, 13 `process` functions | universe, generator |
| universe | `universe.cpp`, `quantum_system.hpp`, `state/quantum_state.hpp`, `kernel.cpp` | three containers; a container of states in each system, of macros in each kernel | create, delete, modify, measure, compute, compile | item container, interpreter, state |
| item container | `ms_container.hpp` | map from key to (flag, item), shared mutex, key generator | `insert`, `erase`, `count`, `size`, `edit_item` | boost |
| stabilizer state | `state/chp_state.hpp` | tableau: x, z and phase bits | 10 instructions of `run_program` | generator, buffer |
| interpreter | `language/`, `machine.hpp` | one dialect each | `parse_program` | universe |
| buffers | `managed_container.hpp`, `string_buffer.hpp` | stack or heap storage, count | `add`, `trim`, `+=`, move | state, response |
| generator | `randnum/` | boost generator, position, mutex | uniform and weighted draws, `discard` | dispatch, state |
| request, response | `net/request.hpp`, `net/response.hpp` | JSON document or text | typed access, formatting | dispatch |

What is hard to get right, and to test:

* **The container** is used by all workers at once. `edit_item` finds an item under a
  shared lock, spins on the item's flag and runs a callback; `erase` deletes flag
  and item before it removes the key. Correct means: nobody touches freed memory,
  no update is lost, every flag that is set will be cleared, and the whole looks
  atomic to its callers.
* **The universe** nests these operations up to three deep, with writers that
  keep new readers out while they wait. It must not deadlock, and must not
  destroy a system or a kernel that a request is inside of.
* **Start and stop** involve main, a signal handler, a proxy thread, the workers
  and a publish/subscribe message that may be dropped.
* **Dispatch** compares name length and number of parameters packed in one byte,
  eight slots at a time.
* **Random draws** come from one generator that all workers share, from requests and
  from the middle of programs. A distribution may loop, rounding may take a weighted
  draw past its last weight, and arrays change hands between process functions
  and responses.
* **Programs** are text that a scanner reads without checks, and their results
  grow in a buffer that moves from the object to the heap and keeps the heap's
  capacity where the first items were.
* **The tableau** is updated in place by formulas whose mistakes show only in the
  sign of a later measurement. It is packed 32 bits to a 64-bit word, with masks
  computed in `int`, and its arrays are made, remade and freed by instructions that may
  run out of memory in the middle.

`PROJECT.json` lists these hazards line by line with the properties aimed at them.

## Modules

| module | models | role |
| --- | --- | --- |
| `SharedMutex` | `boost::shared_mutex` (external) | operators on a mutex record |
| `MsContainer` | `ms_container.hpp` | threads inside insert, erase, count/size, edit_item |
| `ItemMap` | what the container promises | abstract specification of `MsContainer` |
| `MsContainerProofs` | | theorems about `MsContainer` |
| `Universe` | `universe.cpp`, `quantum_state.hpp`, `quantum_system.hpp`, `kernel.cpp` | requests and their nested locks |
| `UniverseSpec` | what the universe promises | abstract specification of `Universe` |
| `UniverseProofs` | | theorems about `Universe` |
| `Server` | `sabot.cpp`, `net/server.cpp` | process, signals, proxy, workers, clients |
| `ServerProofs` | | theorems about `Server` |
| `Dispatch` | the table of `actions.cpp`, `method_attr`, `find_call` | registration and search |
| `DispatchProofs` | | what `FindCall` finds |
| `Generator` | `randnum/generator.hpp` | draws under `accessMutex`, weighted choice, rounding |
| `CallPath` | `work`, `route_request`, the `process` functions, `rapid_json_array` | composes `Dispatch` and `Generator`: workers serving requests |
| `CallPathProofs` | | theorems about `CallPath`, from those of `DispatchProofs` |
| `Buffer` | `managed_container.hpp`, `round_to_multiple` | operators on a buffer record |
| `Program` | `language/`, `machine.hpp`, `stuif`, the loop of `run_program` | a program from text to results |
| `ProgramProofs` | | lemmas about `Buffer`, theorems about `Program` |
| `Tableau` | the tableau operations of `chp_state.hpp` | operators on rows of bits |
| `PackedTableau` | the same operations as the code has them | operators on rows of words |
| `StateVector` | the reference: amplitudes | operators on vectors |
| `ChpState` | `_chp_state`, `run_program` | instructions on one state |
| `TableauProofs` | | lemmas about `Tableau` and `PackedTableau` |
| `ChpStateProofs` | | lemmas about `StateVector`, theorems about `ChpState` |
| `MC*` | | instances for TLC |

Operators whose comment begins with "variant" are plausible mistakes in the
definition that follows them. No specification uses them. They show that a
property can fail: with a variant in place of the definition, the run finds it
violated (`mutants` in `PROJECT.json`).

### MsContainer

One step is one lock, unlock, spin, callback, delete or map operation of one
thread. `pc` is the place in the operation; the actions follow the source in
order:

| action | code |
| --- | --- |
| `CallInsert`, `CallWithKey` | the call, its argument, the item the caller made |
| `AcquireUnique`, `WaitUnique`, `AcquireShared` | the lock objects; a waiting writer raises boost's "waiting" bit |
| `InsertItem` | new flag, `clear`, `get_key`, `map::insert` |
| `EraseDelete`, `EraseKey` | the two `delete`s; then `map::erase` |
| `EraseMissing` | `erase` of an absent key dereferences `end()`: undefined, so the process dies or the call does nothing |
| `CountKey` | `count`; `size` takes the same locks |
| `Find`, `TestAndSet`, `CallbackReturns`, `ClearFlag` | `edit_item` |
| `Throw` | the item is missing, or the function passed in throws: no caller catches what is thrown here, so `std::terminate` |
| `ReleaseUnique`, `ReleaseShared` | end of scope |

A node is one pair of flag and item. Nodes are numbered as they are made, so that
the allocator's reuse of addresses cannot hide a use after free. `Integral` selects
between the two families of `insert`: with generated keys, which wrap after
`KeySpace`, or with keys the caller names. The callback is any function: it
reads the item, then writes any value. An erased item's contents are reset to
keep states few. The variants of `insert` that take a function make the item
under the lock and those that take a pointer before it; the model makes it
before, where nobody else can see it either.

`AtomicMap` is the refinement: `ItemMap` has the same calls, but each acts in
one step. An insert acts at `InsertItem`, an erase at `EraseKey` (between
`EraseDelete` and `EraseKey` the writer's lock keeps everyone out), an edit when its
callback writes.

### Universe

The containers here are those of `MsContainer`, at a coarser grain. An insert,
erase or count takes no further lock while it holds its own, so it is one step;
`edit_item` stays split, since its callbacks take other locks. A request is
`Arrive`, then `Enter` and `Spin` on the system or kernel, `Lookup` and `Register`
(`initialize_interpreter`: two separate locks), `ParseEnter` to `ParseLeave`
(`compile_program`), the work inside (`InsertState`, `EraseState`, `EnterState` to
`RunProgram`, `Compute`, `InsertMacro`), `Leave` and `Reply`. `compile_macro`
initialises the interpreter before it enters the kernel and again inside. `Reject`
is an unknown state type, dialect or mnemonic: its exception, too, ends the
process. `cause` records what did. Contents of states and text of programs are
left to `ChpState` and `Program`.

`UniverseSpec` has every request act in one step on systems, states and kernels
that exist at that moment; `AtomicRequests` is the refinement.

### Server

`main` goes through `listen` (which refuses too many threads, and whose `bind` may
throw), spawning (`SpawnFails`: `std::thread` may throw, too),
`sigaction` twice, `pause`, and the steps of `stop`. A signal without a handler
kills the process; with one it matters only when main is in `pause`: on Linux a
process signal goes to the main thread when that does not block it. The
control socket is a PUB socket: its message is dropped unless the proxy thread
has connected. The DEALER socket of the proxy queues a request at any connected
worker, busy or not. The mutex `stateChangeMutex` is only ever used by main and
is left out, as is a second `listen()`, which main never calls. What a worker does to
serve a request is the subject of `Universe` and `CallPath`; here it has one of three
outcomes: a response, a result or an error alike, is sent back (`Serve`); an exception that is not a
`std::runtime_error` leaves the thread and ends the process (`ServeThrows`); or the call
never returns (`Hang`: a draw from an empty range, `Spin` in `CallPath`, or a wait for the
mutex it keeps). SNDTIMEO never
strikes: a REP socket does not block on an inproc peer.

### Dispatch, Generator, CallPath

The static initialisers register 13 calls, each defined under its name in the source;
then every worker receives requests. The
table is read-only by then. A name in a request is a known name, or another, with
some characters after it, so that a prefix comparison can be fooled. Attributes are
computed modulo 256 as in the code. `Maximum` and `MethodMaximum` have their real
values. SABOT_THROW is not defined in the repository's build, so its checks are
not in the model.

What workers do together is use the generator. `BeginSample` takes `accessMutex`,
increments `position` and enters the distribution; `EndSample` leaves it with the
engine moved on by one output or more, and unlocks. The worker keeps what it saw of
the engine on entry, so that a missing lock would lose outputs. Draws come from the
three random calls (`NextSample`) and from `measure` instructions
(`MeasureInstruction`) of the four calls that run programs; the other effects of
those are `Universe`'s. The engine's outputs are counted, not computed.

A double is a natural number with `Precision` significant bits, and sums and
differences are rounded to nearest even. That is enough for the two numeric cases that
matter: weights whose rounded sum is above their real one, where a sample passes all
of them and the `logic_error` at the end of `get_weighted_integer` is thrown after the
lock has been released (nobody catches it); and ranges without a value below the upper
bound, on which boost's loop does not end (`Spin`, with the lock held). Weights are
read for as many entries as the request states, which may be more than its array
has; what is read beyond is any of `Junk`.

`arrays` follows the two arrays of a random call: the weights belong to the process
function, the result to the response made of it, whose `rapid_json_array` deletes it.

### Buffer, Program

A buffer is a record with the array inside the object, the heap array and the
capacity that is stored over the former's first word; memory that holds no item is
`junk`. Sizes are in bytes or in items exactly where the code has them so: `add`
compares bytes with a capacity in items, allocates as many items as it needs
bytes, and the move constructor copies as many bytes as there are items. Both
mistakes together are harmless: an instruction (24 bytes) never fits the 16 that `add`
grants it, so a program is always on the heap (`ProgramKept`).

A worker parses one text at a time (under the interpreter's flag), so `Program`
has one worker. `memory` is the text with its NUL and what follows in the
request's buffer, up to another NUL. A scan that leaves even that puts `pos` behind the
memory and `step` to "outside" (`Overrun`); the code would read on there, and the model
does not follow it. `CompleteIsContained` says which texts get there: only those in which
some line lacks an operand. Operands
are computed modulo `OperandSpace` from any characters. Clients write programs
from `Statements` in four styles, or any short text. After parsing come the program
object, its optional move (`HandOn`), the loop with any measurement outcomes, and the
reply; then the worker's locals are gone. When `initialize` runs out of memory the request
is answered as well (`ExecuteFails`), unless it is a `compute_result`, whose temporary
state then deletes freed arrays and may crash.

### Tableau, PackedTableau, StateVector, ChpState

A row is a Pauli product with x and z bits and a phase; the gates, `clifford`,
`rowmult` and `measure` are translated row by row, and so are `rowswap`, `gaussian`
and `seed`, which nothing calls yet. `PackedTableau` has the gates and `measure` again
as the code computes them: on words, each the set of its bits that are 1, with
`pt(31)`, which is negative as an `int` and so widens to the upper 33 bits of
the word. The number of bits used per word is a parameter. `StateVector` is independent
of both: amplitudes as Gaussian integers, where one vector is chosen for each ray by
dividing by 1 + i what can be divided and by taking the phase of one amplitude off
all. `ChpState` runs one
instruction per step on all three, with the same answers of the generator.

`heap` follows the arrays. `init_state` allocates five in a fixed order and may fail at
each (`InitializeFails`): it then deletes `x`, `z` and `r`, be they new or from before,
and leaves the pointers, while `run_program` returns `false`, which its caller
ignores. What comes next may be undefined: an instruction on freed or null arrays
(`UseMissing`), another failure that deletes them again (`InitializeFailsTwice`),
the destructor (`DestroyFreed`); and a measurement without qubits reads a null
pointer or an element nobody wrote (`MeasureNothing`). A second `init` on a live
state leaks its arrays: README.md of the repository says that a circuit should only
initialize qubits once. `identity` and `macro` change nothing.
Operands beyond the last qubit and `cnot` of a qubit with itself are outside
the documented language.

## Runs

| run | bounds | shows |
| --- | --- | --- |
| `container_integral` | 3 threads, 2 keys, 3 items, 2 values; symmetric threads | no use after free, no double free, no lost update, no leak or key reuse before the generator wraps, atomic map |
| `container_string` | 3 threads, 1 key, 2 items; fair | with callers' keys, everybody returns |
| `universe_systems` | 3 workers, 2 systems, 1 state, 1 dialect; symmetric | nothing is destroyed under a request, inner locks are never contended, at most one interpreter per worker is built, requests are atomic |
| `universe_all` | 2 workers, all ten requests, 1 system, 1 state, 2 kernels, 1 macro; fair | no deadlock among the nested locks; requests are atomic |
| `universe_missing` | 2 workers | *violated*: `modify_state`, `measure_state` or `delete_state` of a missing id ends the process |
| `server` | 2 slots, thread counts 0 to 3, 2 clients, 2 signals; fair | shutdown joins everybody, at most one late request per worker; every request is answered unless the process ends, `stop()` begins or its own worker is stuck in a call; `stop()` returns unless a worker is stuck or an exception ends the process |
| `server_lost_signal` | 1 worker, 1 client; fair | *violated*: a signal before `pause()` is lost |
| `server_slow_joiner` | same | *violated*: TERMINATE before the proxy connects hangs `stop()` |
| `call_path` | 2 workers, the real table; 0 to 9 parameters; 0, 1 or 32 extra characters; 2 samples, 3 significant bits; fair | calls are found exactly within the packed attribute's range, draws are serial, weighted choices are right, arrays are deleted once, workers do not block each other for good |
| `program` | up to 4 statements of 3 kinds in 4 styles, texts of up to 4 characters, 3 tails; words of 2 bytes, buffers of 2 instructions and 3 characters | strict programs are parsed as meant and within their text, texts with all their operands are neither refused nor overrun, programs and results survive every move, buffers stay in bounds |
| `program_documented` | 1 statement | *violated*: tabs, blanks after commas and comments as README.md allows them |
| `chp` | 0 to 2 qubits, words of 4 bits of which 1 or 2 are used, programs of any length | the tableau simulates the circuit, bit by bit and in words; measurements are right; `gaussian` and `seed` do what their comments say; arrays are owned and freed, and nothing is undefined once an `init` has succeeded |

Why the bounds are enough to be interesting. Three threads allow a writer that
waits, a reader inside and a reader kept out; two keys and three items make the
generator wrap and reuse a live key. With three workers, two may be inside different
systems while one deletes. Two workers and two clients let a request queue
behind another while the second worker leaves. Two qubits have every gate,
entanglement, both kinds of measurement and destabilizers with phase i; all 19 000
states of them are visited, whatever the length of the program. The model
is finite there without any bound but the number of qubits. With one bit to a word two qubits
are in different words, each in the sign bit; with two, one is in the sign bit and
one is not, and a further word is unused. Two workers suffice to race for the generator;
its counters wrap after 3 outputs and 2 samples, which is more than a lost update
needs. With three significant bits the weights 3 and 12 add up to 16, so a
sample of 14 passes both. Four measurements
take the small result buffer from its inner array to the heap (at three) and to a
larger heap array (at four), which the code's sizes would need 40 and more for.

Symmetry sets are used in runs without liveness properties only.

**Fairness.** Weak fairness of every thread that is inside an operation or
serving a request: the operating system schedules it again. A spinning thread
and a writer waiting for the mutex retry whenever scheduled. Nothing forces callers to
call, clients to send or signals to come; `Quiesces` and `Answers` therefore say
that all operations end once new ones stop. Weak fairness does not promise that
a particular spinner wins against an endless stream of others, and neither does
the code. In `Server` the proxy polls its sockets in turn, so each of its duties is
fair by itself, and clients take their replies. A worker is scheduled, but whether the call
it is in replies, throws or never returns is open: fairness of `Worker` chooses none of them, and a
worker that is stuck has no step any more. In `CallPath` static initialisation
ends and every worker that serves a request is scheduled; the mutex is not fair, and
`RandomAnswered` says that all calls are answered or new ones keep coming, unless a
worker draws from an empty range: that draw never returns, and keeps the others out of
the generator.

**Deadlock** is checked everywhere but in `Server`, which can really come to rest:
paused with its signals used up, or joined to a proxy that missed TERMINATE.

## Findings

The four violated properties quote the repository; `PROJECT.json` has the lines.

1. `universe.hpp` promises `false` when `modify_state`, `measure_state` or `delete_state` does
   not find the system or state (`create_state` is documented to throw). `edit_item` throws
   `std::invalid_argument`; the callers catch `std::out_of_range`, the worker
   `std::runtime_error`: the server terminates.
2. A SIGINT or SIGTERM between `sigaction` and `pause()` does not stop the server.
3. `stop()` before the proxy thread has subscribed loses TERMINATE and never returns.
4. README.md's language has tabs, blanks after commas and comments, and its
   examples use the last two ("c 0, 1"); the parser has none of them. A blank
   or a comment silently changes the operand, a tab ends the process.

More disagreements that the models show and no run states: `stop()` ends the
proxy before the workers are joined, so that the reply to a request in work is never
delivered (`Server`); README.md documents `get_weighted_integer` with two
parameters where `Dispatch`'s table, as the code's, has three; `position` counts
samples, while a distribution may take several outputs of the engine for one
(`Generator`).

## Proofs

Every theorem holds for every value of the constants that satisfies the named
assumptions (`ASSUME` in the component's module), which TLC evaluates in the
runs. A component's `Inv` is its inductive invariant; each was checked with TLC before it
was proved. The proofs have one lemma per action or per conjunct.

| module | theorem | statement |
| --- | --- | --- |
| `MsContainerProofs` | `TypeCorrect`, `Exclusion`, `UseIsSafe`, `FlagsAreOwned`, `UpdatesAreKept`, `FreesAreSingle`, `NothingLeaks` | `Spec => []P` for each safety invariant of `container_integral` |
| | `KeysAreFresh` | `Spec => KeysNotReused`, an action property |
| | `Refinement` | `Spec => AtomicMap` |
| `UniverseProofs` | `TypeCorrect`, `HeldObjectsLive`, `InnerLocksFree`, `OneInterpreterPerWorker` | `Spec => []P` for `TypeOK`, `NestedLifetime`, `InnerUncontended`, `InterpreterRace` |
| | `Linearizable` | `Spec => AtomicRequests`, the refinement of `UniverseSpec` |
| `ServerProofs` | `TypeCorrect`, `EveryThreadJoined`, `LateRequestsBounded` | `Spec => []P` for `TypeOK`, `NoThreadOutlivesMain`, `AtMostOneLate` |
| `DispatchProofs` | `FindCallIsExact` | `FindCall` returns the call a fitting request names, for every table of at least 13 slots |
| `CallPathProofs` | `DispatchIsExact`, `SerialDraws`, `ArraysAreDeletedOnce`, `WeightsDecide` | `Spec => []P` for `ExactDispatch`, `DrawsAreSerial`, `ArraysDeletedOnce`, `WeightedChoice` |
| `ProgramProofs` | `StrictProgramsAreParsed`, `CompleteTextsAreContained`, `ProgramIsKept`, `BuffersStayInBounds`, `ResultsAreInOrder` | `Spec => []P` for `StrictIsParsed`, `CompleteIsContained`, `ProgramKept`, `BuffersInBounds`, `ResultsInOrder` |
| `ChpStateProofs` | `TableauSimulates`, `WordsStandForBits`, `RowsStayABasis`, `ArraysAreOwned`, `InitialisedIsDefined` | `Spec => []P` for `StabilizesState`, `WordsAgree`, `SymplecticBasis`, `ArraysOwned`, `DefinedWhenInitialised` |
| | `MeasuresAsBorn` | `Spec => MeasurementIsBorn`, an action property |
| | `PivotIsThere` | `Spec => []PivotFound`: a certain measurement finds the row that its product starts from |
| | `GaussianReduces` | `Spec => []ReducedForm`, the first conjunct of `CanonicalForm`: `gaussian` keeps the basis and the stabilized state and leaves only Z in the bottom rows |
| all but `DispatchProofs` | `Invariance` | `Spec => []Inv` |

### The container

Assumptions: `KeySpace` and `MaxNodes` are naturals (the first positive), `Integral`
is Boolean, `Values` is a nonempty set of naturals. None of the properties is inductive
alone. `Inv` adds three facts:

* `LockInv`: the mutex's readers and writers are exactly the threads whose `pc`
  is in a shared or exclusive section, and a writer is alone. It carries every
  argument of the form "t holds the lock, so u is not there", and
  `ListExclusion` follows from it.
* `OwnerInv`: an item on its way into the map belongs to one inserter and is not in
  the map yet, and the node under erasure is freed. Without it `InsertItem` could give
  one node two keys, or reset the flag of an item in use.
* `KeyInv`: the keys given out are those below the generator, until all are, and
  the others have no item. It makes `map::insert` succeed before the wrap, so
  that nothing leaks.

The refinement proof (`RefinementStep`) maps every action to a call, an effect, a
return or a stutter of `ItemMap`; `FlagDiscipline` and `NoDoubleFree` are what make an
edit change one key only.

### The universe

Assumptions: `Threads` is finite, the operations are among the ten of the program and
the bounds are natural numbers. The invariant is the container's, one level up, and
ties each request's place to what it holds: `RequestInv` (the request fits the place),
`HomeInv` (who holds the lists of systems and of kernels), `InnerInv` (the same for the
lists inside, for which nobody ever waits), `OwnerInv` (an object that is held exists, and
its flag has one owner), `BuiltInv` (a parser finds its interpreter, and interpreters
built for a missing dialect are those of the workers between `Lookup` and
`Register`) and `CountInv` (every object was asked for, so that ids stay within their
bounds). `InnerUncontended` follows since two
requests inside one object would both own its flag. For `Linearizable` every action is
shown to be a step of `UniverseSpec` or a stutter.

### The server

Assumptions: workers are numbered from 1, signals are a sequence without repetition, and
no client has the number that stands for none. `ThreadInv` says which threads exist at
each step of main: those it has spawned, and after each `join` of `stop` those that have
ended, and that a worker is serving a request just when it is busy or stuck. `LateInv` says
that a worker that took a request after `doExit` is past its last receive.

### Dispatch and the call path

`FindCallIsExact` rests on the table being written out (`TableIs`): names and attributes
of 13 calls differ, and all fit the byte. That the search stops at the first match
is an induction over the slots, done by taking the smallest counterexample
(`SmallestNat`, from the library's theorem on well-founded orders). In `CallPath`,
`TableInv` says that workers are idle until all calls are registered, so that what they
search is the table of `DispatchProofs`; `DrawInv` that a worker is drawing only as
the holder of `accessMutex` and saw the engine as it is; `ArrayInv` follows the arrays
through the steps of a random call.

`WeightsDecide` is about `get_weighted_integer`, for weights of every size and number
(`WeightsAssumption`: they are naturals, like the junk in an array). `JobInv` says that a
weighted job draws a sample below the rounded sum of its weights. Numbers below `Limit` are
not rounded, and rounding a natural gives a natural (`FlIs`), so the remainder cannot be
negative before the hit and the weight that is hit is positive (`ChoiceHasWeight`). If the
exact sum is below `Limit`, so are the partial sums: `Accumulate` gives the sum itself
(`AccumulateIsExact`) and each remainder is the sample less a partial sum
(`ChoiceIsExact`), so the index is the one whose interval the sample falls in. The sums and
the remainders are recursive functions; that they exist is shown once, for an
iteration of any step (`RunExists`), by induction on sets of naturals (`NatInduct`).

### Buffers and programs

`AddKeeps` and `MoveConstructKeeps` are the two lemmas on `Buffer`: after `add` the
contents are the old ones and the new, within the array, for every word size and
class; after the move constructor they are the old ones, if the array inside holds
none. Assumptions: template parameters and sizes are positive (`ClassesAssumption`),
and an instruction has at least as many bytes as a program's inner array has items
(`InstructionAssumption`: 24 and 16 in the code). `ProgramInv` is what the latter buys: a
program is on the heap or empty. Without it `ProgramKept` is false, which is the
accident that the code depends on. These facts are `StoreInv`; they hold whatever
`parse_program` makes of a text.

`TextInv` is about the text. Assumptions: texts consist of characters whose distance from
'0' the model knows (`TextAssumption`), and the statements that clients write have a
bytecode and as many operands as `operand_counts` says, each of which fits `operand_t`
(`StatementsAssumption`). Neither the number of lines nor the size of operands is bounded.

* `MemoryInv`: the memory ends with a nul and `pos` is inside it, until `Overrun` leaves it.
  A scan therefore stops inside (`ScanIs`, `EndAfterIs`), and what `stuif` makes of any
  characters fits an operand (`StuifTyped`).
* `ContainedInv`: in a text with all its operands (`Complete`), `pos` is at the start of a
  line or at the nul. Take the line that starts there: the opcode ends at its first blank
  (`LineOpcode`), and since it has one comma less than operands, the last operand is the
  one that ends at the delimiter or the nul (`LineOperands`; every
  instruction has one or two). So `pos` moves to the next line, and neither `Reject` nor `Overrun` is possible, which
  is `CompleteIsContained`. What an operand consists of and what lies behind the text do
  not matter.
* `StrictInv`: while a program in the form of the example clients is parsed, each of its
  lines lies in the memory and is followed by its delimiter or by the nul
  (`StrictText`), and `list` is a prefix of what the client meant, with `pos` at the
  beginning of the next line (`ParsedTo`). The text has this form at the start, with or
  without a last delimiter and a blank before it (`StartText`, `StartPos`). A round of
  the loop goes one line on: the opcode ends at the blank and no two mnemonics are the
  same (`MnemonicsDiffer`), the operands end at comma, delimiter or nul, and `stuif`
  reads back the number whose digits they are (`DigitsDenote`, by induction on the
  number); `StrictParts` and `StrictLine` put this together. Hence a strict text is
  never rejected nor read beyond its end (`StrictProgress`), which is `StrictIsParsed`.

Digits, lines and `stuif` are recursive functions, treated as those of the call path.

### The tableau

The theorems say that the stabilizer simulation is correct for every number of qubits, every
program and every number of bits used per word. Assumptions: words have a positive number of
bits (`WidthAssumption`), registers a natural number of qubits (`SizesAssumption`), and
the bits used of a word are among its bits (`WordSizesAssumption`; 32 of 64 in the code).
The argument has four parts.

* **The rows are a basis.** Two rows anticommute if they clash on an odd number of qubits,
  so everything is about the parity of a set: Hadamard and phase keep the set, cnot adds or
  removes both of its qubits or neither (`CnotKeepsClash`), and a product clashes with a
  third row on the symmetric difference of its factors' sets (`RowMultAndClash`). For a
  random measurement (`CollapseKeepsBasis`), every row that is kept commutes with the
  stabilizer it may be multiplied by, and `Z_q` anticommutes with just that stabilizer,
  which becomes its destabilizer.
* **The columns are one, too** (`ColumnsInv`). That is true of every symplectic matrix, but
  the general fact is an induction over the dimension; here it is carried along, by the
  same parity argument. It is what a certain measurement needs: if no
  stabilizer has an X on qubit q, some destabilizer has (`PivotIsThere`), and the product
  that `measure` computes in the scratch row is exactly plus or minus `Z_q`, with no other
  operator left over.
* **The stabilizers stabilize the vector.** `TurnsOfProduct` and `RowMultPhase` show that
  `clifford` computes the phase of the product of two rows as operators; so products
  of stabilizers stabilize (`StabilizedBy`). Each gate turns the vector and the rows
  alike, and `Normalise` changes only the factor. In a random measurement a
  stabilizer that anticommutes with `Z_q` maps each half of the vector onto the
  other, so both outcomes are possible (`BothArePossible`), and what commutes with `Z_q`
  still stabilizes the projection. In a certain one the sign of the scratch row says
  which half is empty. `MeasurementIsBorn` follows.
* **The words stand for the bits.** `PackedInv` says that the sign bit of the `int` and all
  bits above it agree, and that unused bits are 0. Under it `Toggle` and `Has` act on one
  bit, each gate and `rowmult` commute with `Decode`, the unused bits add nothing to
  the phase, and `measure` takes the same branch with the same outcome.

`Scratch` is a recursive function over rows, and so is its counterpart on words. That such a
function exists is shown by the smallest index for which it would not; what it computes
is then an ordinary invariant of its steps. `GaussianReduces` treats the three nested
recursions of `gaussian` likewise (`ChainExists`, `ChainStays`, `ChainHolds`): a swap of two
pairs of rows and an elimination step keep a basis (`EliminateRowKeepsBasis`: row i
commutes with all but its destabilizer, which changes together with the row that i is
multiplied into) and what is stabilized, and after column j no row from the next one on has
an X on the qubits up to j (`ColumnClears`).

`OwnerInv` (an initialised state has its
arrays) carries `DefinedWhenInitialised`; with `ArraysOwned` it also shows that what is
undefined can only happen to a state without arrays.

### Only model-checked

* Liveness (`Quiesces`, `Answers`, `EveryRequestAnswered`, `StopReturns`,
  `RandomAnswered`): fairness and ENABLED are beyond the prover.
* `CanonicalForm` beyond `ReducedForm`: that the support has `2 ^ g` elements is an induction
  over the dimension and about powers, of which the provers know nothing, and that `seed`
  finds an element rests on the same count.

## Not modelled

* JSON: parsing a request and formatting a response are calls into rapidjson. Most
  constructors and accessors of `request` and `response` are not called by the
  program.
* The buffer operations that only unit tests call (`+=`, `trim`, move assignment), and
  `discard`, `get_position` and `seed` of the generator, likewise; the move operations
  of `_chp_state`.
* The distribution of random numbers; negative or NaN weights; integer ranges whose
  lower bound is above the upper one.
* Command line parsing, the copy of the endpoint in the server's constructor, a
  second `listen()`.
* Code that exists with SABOT_THROW only.
* The amount of memory and time. The container's destructor runs when all threads
  have ended.

`components` in `PROJECT.json` has the details.

## Plan

1. The rest of `CanonicalForm`: that `seed` satisfies the signs of the bottom rows follows
   from their form; that this puts it into the support needs the count of the rows.
2. What `Program` makes of texts that are almost right: which operands an instruction gets
   that lacks one and takes it from the next line.
