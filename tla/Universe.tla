------------------------------- MODULE Universe -------------------------------
(* universe (universe.cpp) under several worker threads: the containers of    *)
(* quantum systems, interpreters and kernels, the container of states inside  *)
(* every system and of macros inside every kernel, and the requests that nest *)
(* their edit_item calls in one another.                                      *)
(*                                                                            *)
(* The containers are those of MsContainer.  An insert, erase or count takes  *)
(* no other lock while it has its own, so acquire, body and release are one   *)
(* step here; edit_item, whose callback locks other containers, is split: it  *)
(* holds the list shared and the item's flag until it leaves.                 *)
EXTENDS Naturals, FiniteSets, SharedMutex

CONSTANTS Threads,     \* the worker threads
          Dialects,    \* the registered dialects
          Ops,         \* the requests the clients send
          MaxSystems,  \* bound on create_system requests
          MaxStates,   \* bound on create_state requests
          MaxKernels,  \* bound on create_kernel requests
          MaxMacros    \* bound on compile_macro requests

SystemIds == 0 .. MaxSystems - 1
StateIds  == 0 .. MaxStates - 1
KernelIds == 0 .. MaxKernels - 1

SystemOps == {"create_state", "modify_state", "measure_state", "delete_state",
              "compute_result"}       \* those that edit an item of quantumSystems
KernelOps == {"compile_macro"}        \* those that edit an item of kernels
EditOps   == {"modify_state", "measure_state"}
AllOps    == SystemOps \cup KernelOps \cup
             {"create_system", "delete_system", "create_kernel", "delete_kernel"}

ASSUME ThreadsAssumption == IsFiniteSet(Threads)
ASSUME OpsAssumption == Ops \subseteq AllOps
ASSUME BoundsAssumption ==
    {MaxSystems, MaxStates, MaxKernels, MaxMacros} \subseteq Nat

\* the ms_container lists, and the items of theirs that are edited
TopLists == {<<"systems">>, <<"interpreters">>, <<"kernels">>}
Lists    == TopLists \cup {<<"states", s>> : s \in SystemIds}
                     \cup {<<"macros", k>> : k \in KernelIds}

VARIABLES mutex,         \* the _listMutex of every list
          flags,         \* the items whose atomic_flag is set
          systems,       \* keys of quantumSystems
          newSystems,    \* its _keyGenerator
          states,        \* per system, the keys of its states
          newStates,     \* per system, its _keyGenerator
          kernels,       \* keys of kernels
          newKernels,    \* its _keyGenerator
          macros,        \* per kernel, the number of its macros
          interpreters,  \* keys of interpreters
          built,         \* history: interpreter objects made, per dialect
          asked,         \* history: requests so far that make something
          pc,            \* where each worker is
          req,           \* the request it is serving
          cause          \* what terminated the process, or "none"

data == <<systems, newSystems, states, newStates, kernels, newKernels, macros>>
vars == <<mutex, flags, data, interpreters, built, asked, pc, req, cause>>

MakeOps == {"create_system", "create_state", "create_kernel", "compile_macro"}
Limit   == [create_system |-> MaxSystems, create_state |-> MaxStates,
            create_kernel |-> MaxKernels, compile_macro |-> MaxMacros]

NoRequest == [op |-> "idle", id |-> 0, sub |-> 0, dialect |-> "none"]

Init ==
    /\ mutex = [l \in Lists |-> Unlocked]
    /\ flags = {}
    /\ systems = {} /\ newSystems = 0
    /\ states = [s \in SystemIds |-> {}]
    /\ newStates = [s \in SystemIds |-> 0]
    /\ kernels = {} /\ newKernels = 0
    /\ macros = [k \in KernelIds |-> 0]
    /\ interpreters = {}
    /\ built = [d \in Dialects |-> 0]
    /\ asked = [o \in MakeOps |-> 0]
    /\ pc = [t \in Threads |-> "idle"]
    /\ req = [t \in Threads |-> NoRequest]
    /\ cause = "none"

Goto(t, label) == pc' = [pc EXCEPT ![t] = label]

\* the list a request enters with edit_item, and the item it edits there
HomeList(t) == IF req[t].op \in SystemOps THEN <<"systems">> ELSE <<"kernels">>
HomeItem(t) == <<HomeList(t)[1], req[t].id>>
Present(t)  == req[t].id \in (IF req[t].op \in SystemOps THEN systems ELSE kernels)
Dialect(t)  == req[t].dialect

\* An exception no caller catches, or undefined behaviour that crashes.
Die(why) ==
    /\ cause' = why
    /\ UNCHANGED <<mutex, flags, data, interpreters, built, asked, pc, req>>

-----------------------------------------------------------------------------
(* A request arrives at an idle worker and is dispatched to its handler.      *)

FirstLabel(op) ==
    CASE op \in SystemOps   -> "enter"
      [] op = "compile_macro" -> "lookup"
      [] OTHER              -> "top"

Arrive(t) ==
    /\ pc[t] = "idle"
    /\ \E op \in Ops, i \in SystemIds \cup KernelIds, j \in StateIds, d \in Dialects :
          /\ op \in MakeOps => asked[op] < Limit[op]
          /\ op \notin EditOps \cup {"delete_state"} => j = 0
          /\ op \in {"create_system", "create_kernel"} => i = 0
          /\ req' = [req EXCEPT ![t] = [op |-> op, id |-> i, sub |-> j, dialect |-> d]]
          /\ asked' = [o \in MakeOps |-> asked[o] + (IF o = op THEN 1 ELSE 0)]
          /\ Goto(t, FirstLabel(op))
    /\ UNCHANGED <<mutex, flags, data, interpreters, built, cause>>

Reply(t) ==
    /\ pc[t] = "reply"
    /\ req' = [req EXCEPT ![t] = NoRequest]
    /\ Goto(t, "idle")
    /\ UNCHANGED <<mutex, flags, data, interpreters, built, asked, cause>>

-----------------------------------------------------------------------------
(* Waiting for a list's mutex.  lock() raises the waiting bit before it sleeps. *)

\* the list whose exclusive lock the worker is about to take
UniqueList(t) ==
    CASE pc[t] = "top" ->
            IF req[t].op \in {"create_system", "delete_system"} THEN <<"systems">>
                                                               ELSE <<"kernels">>
      [] pc[t] = "register" -> <<"interpreters">>
      [] pc[t] = "inner" /\ req[t].op = "compile_macro" -> <<"macros", req[t].id>>
      [] pc[t] = "inner" /\ req[t].op \in {"create_state", "delete_state"} ->
            <<"states", req[t].id>>
      [] OTHER -> <<>>

AwaitLock(t) ==
    LET l == UniqueList(t)
    IN  /\ l # <<>>
        /\ ~CanLockUnique(mutex[l])
        /\ ~mutex[l].blocked
        /\ mutex' = [mutex EXCEPT ![l] = AwaitUnique(@)]
        /\ UNCHANGED <<flags, data, interpreters, built, asked, pc, req, cause>>

\* acquire, body and release of insert or erase; unlock clears the waiting bit
Exclusively(t, l) ==
    /\ UniqueList(t) = l
    /\ CanLockUnique(mutex[l])
    /\ mutex' = [mutex EXCEPT ![l] = UnlockUnique(@, t)]

-----------------------------------------------------------------------------
(* create_system, delete_system, create_kernel, delete_kernel.                *)

\* Variants with a plausible mistake; the properties tell them apart.
CreateSystemOffByOne(t) ==
    /\ pc[t] = "top" /\ req[t].op = "create_system"
    /\ Exclusively(t, <<"systems">>)
    /\ systems' = systems \cup {newSystems + 1}
    /\ newSystems' = newSystems + 1
    /\ Goto(t, "reply")
    /\ UNCHANGED <<flags, states, newStates, kernels, newKernels, macros,
                   interpreters, built, asked, req, cause>>

CreateSystem(t) ==
    /\ pc[t] = "top" /\ req[t].op = "create_system"
    /\ Exclusively(t, <<"systems">>)
    /\ systems' = systems \cup {newSystems}
    /\ newSystems' = newSystems + 1
    /\ Goto(t, "reply")
    /\ UNCHANGED <<flags, states, newStates, kernels, newKernels, macros,
                   interpreters, built, asked, req, cause>>

\* variant: the list is not locked
DeleteSystemUnlocked(t) ==
    /\ pc[t] = "top" /\ req[t].op = "delete_system"
    /\ systems' = systems \ {req[t].id}
    /\ states' = [s \in SystemIds |-> IF s = req[t].id THEN {} ELSE states[s]]
    /\ Goto(t, "reply")
    /\ UNCHANGED <<mutex, flags, newSystems, newStates, kernels, newKernels, macros,
                   interpreters, built, asked, req, cause>>

\* the system's destructor deletes the state type with the states it holds
DeleteSystem(t) ==
    /\ pc[t] = "top" /\ req[t].op = "delete_system"
    /\ Exclusively(t, <<"systems">>)
    /\ systems' = systems \ {req[t].id}
    /\ states' = [s \in SystemIds |-> IF s = req[t].id THEN {} ELSE states[s]]
    /\ Goto(t, "reply")
    /\ UNCHANGED <<flags, newSystems, newStates, kernels, newKernels, macros,
                   interpreters, built, asked, req, cause>>

CreateKernel(t) ==
    /\ pc[t] = "top" /\ req[t].op = "create_kernel"
    /\ Exclusively(t, <<"kernels">>)
    /\ kernels' = kernels \cup {newKernels}
    /\ newKernels' = newKernels + 1
    /\ Goto(t, "reply")
    /\ UNCHANGED <<flags, systems, newSystems, states, newStates, macros,
                   interpreters, built, asked, req, cause>>

\* variant: the list is not locked
DeleteKernelUnlocked(t) ==
    /\ pc[t] = "top" /\ req[t].op = "delete_kernel"
    /\ kernels' = kernels \ {req[t].id}
    /\ macros' = [k \in KernelIds |-> IF k = req[t].id THEN 0 ELSE macros[k]]
    /\ Goto(t, "reply")
    /\ UNCHANGED <<mutex, flags, systems, newSystems, states, newStates, newKernels,
                   interpreters, built, asked, req, cause>>

DeleteKernel(t) ==
    /\ pc[t] = "top" /\ req[t].op = "delete_kernel"
    /\ Exclusively(t, <<"kernels">>)
    /\ kernels' = kernels \ {req[t].id}
    /\ macros' = [k \in KernelIds |-> IF k = req[t].id THEN 0 ELSE macros[k]]
    /\ Goto(t, "reply")
    /\ UNCHANGED <<flags, systems, newSystems, states, newStates, newKernels,
                   interpreters, built, asked, req, cause>>

\* erase of an absent key is undefined (MsContainer!EraseMissing): beside the
\* actions above, which then erase nothing, the process may crash.
EraseCrash(t) ==
    /\ \/ pc[t] = "top" /\ req[t].op = "delete_system" /\ req[t].id \notin systems
       \/ pc[t] = "top" /\ req[t].op = "delete_kernel" /\ req[t].id \notin kernels
       \/ /\ pc[t] = "inner" /\ req[t].op = "delete_state"
          /\ req[t].sub \notin states[req[t].id]
    /\ CanLockUnique(mutex[UniqueList(t)])
    /\ Die("erase")

-----------------------------------------------------------------------------
(* edit_item on quantumSystems or kernels, around the rest of the request.    *)

\* variant: find() without the shared lock
EnterUnlocked(t) ==
    /\ pc[t] = "enter"
    /\ IF Present(t)
       THEN /\ Goto(t, "spin")
            /\ UNCHANGED <<mutex, flags, data, interpreters, built, asked, req, cause>>
       ELSE Die("missing")

Enter(t) ==
    /\ pc[t] = "enter"
    /\ CanLockShared(mutex[HomeList(t)])
    /\ IF Present(t)
       THEN /\ mutex' = [mutex EXCEPT ![HomeList(t)] = LockShared(@, t)]
            /\ Goto(t, "spin")
            /\ UNCHANGED <<flags, data, interpreters, built, asked, req, cause>>
       ELSE Die("missing")

\* variant: set without test
SpinBlind(t) ==
    /\ pc[t] = "spin"
    /\ flags' = flags \cup {HomeItem(t)}
    /\ Goto(t, IF req[t].op = "delete_state" THEN "inner" ELSE "lookup")
    /\ UNCHANGED <<mutex, data, interpreters, built, asked, req, cause>>

Spin(t) ==
    /\ pc[t] = "spin"
    /\ HomeItem(t) \notin flags
    /\ flags' = flags \cup {HomeItem(t)}
    /\ Goto(t, IF req[t].op = "delete_state" THEN "inner" ELSE "lookup")
    /\ UNCHANGED <<mutex, data, interpreters, built, asked, req, cause>>

Leave(t) ==
    /\ pc[t] = "leave"
    /\ flags' = flags \ {HomeItem(t)}
    /\ mutex' = [mutex EXCEPT ![HomeList(t)] = UnlockShared(@, t)]
    /\ Goto(t, "reply")
    /\ UNCHANGED <<data, interpreters, built, asked, req, cause>>

Inside(t) == HomeItem(t) \in flags /\ t \in mutex[HomeList(t)].readers

-----------------------------------------------------------------------------
(* compile_program: initialize_interpreter, then parse with the interpreter.  *)

\* what follows initialize_interpreter: compile_macro calls it once before it
\* enters the kernel, and once more from inside
AfterLookup(t) == IF Inside(t) THEN "parse" ELSE "enter"

\* variant: an interpreter is built without looking for one
LookupSkipped(t) ==
    /\ pc[t] = "lookup"
    /\ Goto(t, "register")
    /\ built' = [built EXCEPT ![Dialect(t)] = @ + 1]
    /\ UNCHANGED <<mutex, flags, data, interpreters, asked, req, cause>>

\* variant: the lookup locks quantumSystems again, from inside its edit_item
LookupNested(t) ==
    /\ pc[t] = "lookup"
    /\ CanLockShared(mutex[<<"systems">>])
    /\ CanLockShared(mutex[<<"interpreters">>])
    /\ IF Dialect(t) \in interpreters
       THEN Goto(t, AfterLookup(t)) /\ UNCHANGED built
       ELSE Goto(t, "register") /\ built' = [built EXCEPT ![Dialect(t)] = @ + 1]
    /\ UNCHANGED <<mutex, flags, data, interpreters, asked, req, cause>>

\* count() under the shared lock; on 0 a new interpreter is built
Lookup(t) ==
    /\ pc[t] = "lookup"
    /\ CanLockShared(mutex[<<"interpreters">>])
    /\ IF Dialect(t) \in interpreters
       THEN Goto(t, AfterLookup(t)) /\ UNCHANGED built
       ELSE Goto(t, "register") /\ built' = [built EXCEPT ![Dialect(t)] = @ + 1]
    /\ UNCHANGED <<mutex, flags, data, interpreters, asked, req, cause>>

\* insert() of the new interpreter, which is lost if another thread was first
Register(t) ==
    /\ pc[t] = "register"
    /\ Exclusively(t, <<"interpreters">>)
    /\ interpreters' = interpreters \cup {Dialect(t)}
    /\ Goto(t, AfterLookup(t))
    /\ UNCHANGED <<flags, data, built, asked, req, cause>>

ParserItem(t) == <<"interpreter", Dialect(t)>>

ParseEnter(t) ==
    /\ pc[t] = "parse"
    /\ CanLockShared(mutex[<<"interpreters">>])
    /\ IF Dialect(t) \in interpreters
       THEN /\ mutex' = [mutex EXCEPT ![<<"interpreters">>] = LockShared(@, t)]
            /\ Goto(t, "parseSpin")
            /\ UNCHANGED <<flags, data, interpreters, built, asked, req, cause>>
       ELSE Die("interpreter")

ParseSpin(t) ==
    /\ pc[t] = "parseSpin"
    /\ ParserItem(t) \notin flags
    /\ flags' = flags \cup {ParserItem(t)}
    /\ Goto(t, "parsing")
    /\ UNCHANGED <<mutex, data, interpreters, built, asked, req, cause>>

ParseLeave(t) ==
    /\ pc[t] = "parsing"
    /\ flags' = flags \ {ParserItem(t)}
    /\ mutex' = [mutex EXCEPT ![<<"interpreters">>] = UnlockShared(@, t)]
    /\ Goto(t, "inner")
    /\ UNCHANGED <<data, interpreters, built, asked, req, cause>>

\* An unknown state type, dialect or mnemonic throws an exception that is not
\* a std::runtime_error.
Reject(t) ==
    /\ \/ pc[t] = "top" /\ req[t].op = "create_system"
          /\ CanLockUnique(mutex[<<"systems">>])
       \/ pc[t] = "register"
       \/ pc[t] = "parsing"
    /\ Die("rejected")

-----------------------------------------------------------------------------
(* The callback's own work, inside the system or the kernel.                  *)

\* program_insert_state: encode_state, then states.insert
InsertState(t) ==
    LET s == req[t].id
    IN  /\ pc[t] = "inner" /\ req[t].op = "create_state"
        /\ Exclusively(t, <<"states", s>>)
        /\ states' = [states EXCEPT ![s] = @ \cup {newStates[s]}]
        /\ newStates' = [newStates EXCEPT ![s] = @ + 1]
        /\ Goto(t, "leave")
        /\ UNCHANGED <<flags, systems, newSystems, kernels, newKernels, macros,
                       interpreters, built, asked, req, cause>>

\* delete_state_element: states.erase
EraseState(t) ==
    LET s == req[t].id
    IN  /\ pc[t] = "inner" /\ req[t].op = "delete_state"
        /\ Exclusively(t, <<"states", s>>)
        /\ states' = [states EXCEPT ![s] = @ \ {req[t].sub}]
        /\ Goto(t, "leave")
        /\ UNCHANGED <<flags, systems, newSystems, newStates, kernels, newKernels,
                       macros, interpreters, built, asked, req, cause>>

\* program_modify_state, program_measure_state: states.edit_item
StateItem(t) == <<"state", req[t].id, req[t].sub>>

EnterState(t) ==
    LET l == <<"states", req[t].id>>
    IN  /\ pc[t] = "inner" /\ req[t].op \in EditOps
        /\ CanLockShared(mutex[l])
        /\ IF req[t].sub \in states[req[t].id]
           THEN /\ mutex' = [mutex EXCEPT ![l] = LockShared(@, t)]
                /\ Goto(t, "stateSpin")
                /\ UNCHANGED <<flags, data, interpreters, built, asked, req, cause>>
           ELSE Die("missing")

SpinState(t) ==
    /\ pc[t] = "stateSpin"
    /\ StateItem(t) \notin flags
    /\ flags' = flags \cup {StateItem(t)}
    /\ Goto(t, "running")
    /\ UNCHANGED <<mutex, data, interpreters, built, asked, req, cause>>

\* run_program is over: clear the state's flag, unlock its list
RunProgram(t) ==
    LET l == <<"states", req[t].id>>
    IN  /\ pc[t] = "running"
        /\ flags' = flags \ {StateItem(t)}
        /\ mutex' = [mutex EXCEPT ![l] = UnlockShared(@, t)]
        /\ Goto(t, "leave")
        /\ UNCHANGED <<data, interpreters, built, asked, req, cause>>

\* program_compute_result: runs on a temporary state, touches no container
Compute(t) ==
    /\ pc[t] = "inner" /\ req[t].op = "compute_result"
    /\ Goto(t, "leave")
    /\ UNCHANGED <<mutex, flags, data, interpreters, built, asked, req, cause>>

\* kernel::insert_macro
InsertMacro(t) ==
    LET k == req[t].id
    IN  /\ pc[t] = "inner" /\ req[t].op = "compile_macro"
        /\ Exclusively(t, <<"macros", k>>)
        /\ macros' = [macros EXCEPT ![k] = @ + 1]
        /\ Goto(t, "leave")
        /\ UNCHANGED <<flags, systems, newSystems, states, newStates, kernels,
                       newKernels, interpreters, built, asked, req, cause>>

-----------------------------------------------------------------------------
Proceed(t) ==
    \/ Reply(t) \/ AwaitLock(t)
    \/ CreateSystem(t) \/ DeleteSystem(t) \/ CreateKernel(t) \/ DeleteKernel(t)
    \/ EraseCrash(t)
    \/ Enter(t) \/ Spin(t) \/ Leave(t)
    \/ Lookup(t) \/ Register(t) \/ ParseEnter(t) \/ ParseSpin(t) \/ ParseLeave(t)
    \/ Reject(t)
    \/ InsertState(t) \/ EraseState(t) \/ Compute(t) \/ InsertMacro(t)
    \/ EnterState(t) \/ SpinState(t) \/ RunProgram(t)

Dead == cause # "none" /\ UNCHANGED vars

Next == (\E t \in Threads : cause = "none" /\ (Arrive(t) \/ Proceed(t))) \/ Dead

Spec == Init /\ [][Next]_vars

\* A worker that serves a request is scheduled again and again.
Fairness == \A t \in Threads : WF_vars(cause = "none" /\ Proceed(t))

FairSpec == Spec /\ Fairness

-----------------------------------------------------------------------------
(* Properties.                                                               *)

ParsePc  == {"parse", "parseSpin", "parsing"}
StatePc  == {"stateSpin", "running"}
Labels   == {"idle", "top", "enter", "spin", "lookup", "register", "inner", "leave",
             "reply"} \cup ParsePc \cup StatePc

TypeOK ==
    /\ mutex \in [Lists -> MutexType(Threads)]
    /\ flags \subseteq ({"systems"} \X SystemIds) \cup ({"kernels"} \X KernelIds)
                 \cup ({"interpreter"} \X Dialects) \cup ({"state"} \X SystemIds \X StateIds)
    /\ systems \subseteq SystemIds /\ newSystems \in 0 .. MaxSystems
    /\ states \in [SystemIds -> SUBSET StateIds]
    /\ newStates \in [SystemIds -> 0 .. MaxStates]
    /\ kernels \subseteq KernelIds /\ newKernels \in 0 .. MaxKernels
    /\ macros \in [KernelIds -> 0 .. MaxMacros]
    /\ interpreters \subseteq Dialects
    /\ built \in [Dialects -> Nat]
    /\ pc \in [Threads -> Labels]
    /\ cause \in {"none", "erase", "missing", "interpreter", "rejected"}

\* the workers past edit_item's find() on quantumSystems or kernels
Editing(t) ==
    \/ pc[t] \in {"spin", "inner", "leave"} \cup ParsePc \cup StatePc
    \/ pc[t] \in {"lookup", "register"} /\ Inside(t) /\ req[t].op \in SystemOps

\* While a request works inside a system or a kernel, that object is not
\* deleted by another request, nor is the state it runs a program on; and an
\* object is only destroyed when nobody holds or waits for a lock inside it.
NestedLifetime ==
    /\ \A t \in Threads : Editing(t) => Present(t)
    /\ \A t \in Threads : pc[t] \in StatePc => req[t].sub \in states[req[t].id]
    /\ \A s \in SystemIds \ systems : mutex[<<"states", s>>] = Unlocked
    /\ \A k \in KernelIds \ kernels : mutex[<<"macros", k>>] = Unlocked

\* The flag of the system (or kernel) already serialises everything inside it:
\* no request ever has to wait for the list of states or of macros, or to spin
\* on a state's flag.
InnerUncontended ==
    \A t \in Threads :
        /\ pc[t] = "inner" => CanLockUnique(mutex[
               IF req[t].op \in SystemOps THEN <<"states", req[t].id>>
                                          ELSE <<"macros", req[t].id>>])
        /\ pc[t] = "stateSpin" => StateItem(t) \notin flags

\* initialize_interpreter tests and inserts in two steps, so several workers may
\* each build an interpreter for one dialect; but at most one per worker is ever
\* built, and none is missing when the parser looks for it.
InterpreterRace ==
    /\ \A d \in Dialects : built[d] <= Cardinality(Threads)
    /\ \A t \in Threads : pc[t] \in ParsePc => Dialect(t) \in interpreters

\* the operations whose comment in universe.hpp says "If the system or state was
\* not found, return false": create_state, in contrast, is documented to throw
PromiseFalse == {"modify_state", "measure_state", "delete_state"}

\* the worker is at a find() that throws
FindsNothing(t) ==
    \/ pc[t] = "enter" /\ ~Present(t)
    \/ pc[t] = "inner" /\ req[t].op \in EditOps /\ req[t].sub \notin states[req[t].id]

\* A missing system or state ends the process only in an operation that does not
\* promise to return false for it.
MissingIsAnswered ==
    cause = "missing" => \E t \in Threads : FindsNothing(t) /\ req[t].op \notin PromiseFalse

\* Once requests stop arriving, every worker answers: the nested locks of
\* systems, interpreters, states, kernels and macros, with writers that keep
\* readers out while they wait, never block each other for good.
Answers ==
    \/ []<><<\E t \in Threads : Arrive(t)>>_vars
    \/ <>[](cause # "none" \/ \A t \in Threads : pc[t] = "idle")

-----------------------------------------------------------------------------
(* The inductive invariant behind the safety properties.                     *)

\* past edit_item's find() on the home list; "lookup" and "register" may be, too
HoldPc == {"spin", "inner", "leave"} \cup ParsePc \cup StatePc

\* What a worker serves fits the place where it is.
RequestInv ==
    /\ req \in [Threads -> {NoRequest} \cup
                    [op : AllOps, id : SystemIds \cup KernelIds, sub : StateIds,
                     dialect : Dialects]]
    /\ \A t \in Threads :
          /\ pc[t] = "idle" <=> req[t].op = "idle"
          /\ pc[t] \in {"enter", "lookup", "register"} \cup HoldPc =>
                req[t].op \in SystemOps \cup KernelOps
          /\ pc[t] = "top" => req[t].op \notin SystemOps \cup KernelOps
          /\ pc[t] \in StatePc => req[t].op \in EditOps

\* Who holds systems or kernels shared is known from where the workers are.
\* compile_macro is at "lookup" twice, and holds the kernels the second time.
HomeInv ==
    \A t \in Threads :
        /\ t \in mutex[<<"systems">>].readers <=>
              /\ req[t].op \in SystemOps
              /\ pc[t] \in {"lookup", "register"} \cup HoldPc
        /\ t \in mutex[<<"kernels">>].readers =>
              /\ req[t].op \in KernelOps
              /\ pc[t] \in {"lookup", "register"} \cup HoldPc
        /\ req[t].op \in KernelOps /\ pc[t] \in HoldPc => t \in mutex[<<"kernels">>].readers

\* So it is for the lists of states, for which nobody waits, nor for those of macros.
InnerInv ==
    /\ \A s \in SystemIds :
          /\ \A t \in Threads : t \in mutex[<<"states", s>>].readers
                                   <=> pc[t] \in StatePc /\ req[t].id = s
          /\ mutex[<<"states", s>>].writers = {}
          /\ ~mutex[<<"states", s>>].blocked
    /\ \A k \in KernelIds : mutex[<<"macros", k>>] = Unlocked

\* the flag of the home item is this worker's
Owner(t) == t \in mutex[HomeList(t)].readers /\ pc[t] # "spin"

\* An object that is held shared is there, and its flag has one owner; so have the
\* states inside.
OwnerInv ==
    /\ \A t \in Threads :
          /\ t \in mutex[HomeList(t)].readers => Present(t)
          /\ Owner(t) => HomeItem(t) \in flags
          /\ pc[t] \in StatePc => req[t].sub \in states[req[t].id]
    /\ \A t, u \in Threads : Owner(t) /\ Owner(u) /\ HomeItem(t) = HomeItem(u) => t = u
    /\ \A s \in SystemIds, j \in StateIds : <<"state", s, j>> \in flags =>
          \E t \in Threads : pc[t] = "running" /\ req[t].id = s /\ req[t].sub = j

\* Interpreters that have been built for a dialect and not registered yet are on
\* their way; once there is one, no other is built.
BuiltInv ==
    /\ \A t \in Threads : pc[t] \in ParsePc => Dialect(t) \in interpreters
    /\ \A d \in Dialects :
          IF d \in interpreters THEN built[d] <= Cardinality(Threads)
          ELSE built[d] = Cardinality({t \in Threads : pc[t] = "register" /\ Dialect(t) = d})

\* requests for an op on i that have not acted yet
Pending(op, i) ==
    {t \in Threads : req[t].op = op /\ req[t].id = i /\ pc[t] \notin {"leave", "reply"}}

\* Every object was asked for, and so are those to come.
CountInv ==
    /\ asked \in [MakeOps -> Nat] /\ \A o \in MakeOps : asked[o] <= Limit[o]
    /\ newSystems + Cardinality(Pending("create_system", 0)) <= asked["create_system"]
    /\ newKernels + Cardinality(Pending("create_kernel", 0)) <= asked["create_kernel"]
    /\ \A s \in SystemIds :
          newStates[s] + Cardinality(Pending("create_state", s)) <= asked["create_state"]
    /\ \A k \in KernelIds :
          macros[k] + Cardinality(Pending("compile_macro", k)) <= asked["compile_macro"]
    /\ \A t \in Threads : req[t].op \in {"create_system", "create_kernel"} => req[t].id = 0

Inv == TypeOK /\ RequestInv /\ HomeInv /\ InnerInv /\ OwnerInv /\ BuiltInv /\ CountInv

-----------------------------------------------------------------------------
(* Refinement: each request acts at one instant.                             *)

Asks == [t \in Threads |->
           IF pc[t] = "idle" THEN [op |-> "idle", id |-> 0, sub |-> 0]
           ELSE IF pc[t] \in {"leave", "reply"} THEN [op |-> "done", id |-> 0, sub |-> 0]
           ELSE [op |-> req[t].op, id |-> req[t].id, sub |-> req[t].sub]]

Abstract == INSTANCE UniverseSpec WITH asks <- Asks

\* Requests are linearizable: each acts at one instant between its arrival and
\* its reply, on systems, states and kernels that exist at that instant.
AtomicRequests == Abstract!Spec
=============================================================================
