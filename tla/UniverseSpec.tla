----------------------------- MODULE UniverseSpec -----------------------------
(* What the universe promises a client (universe.hpp): each request acts on   *)
(* the systems, states and kernels at one instant between its arrival and its *)
(* reply, and a request that names something is answered only if that thing   *)
(* existed at that instant.  Nothing is said of requests that get no reply.   *)
EXTENDS Naturals

CONSTANTS Threads, MaxSystems, MaxStates, MaxKernels

SystemIds == 0 .. MaxSystems - 1
StateIds  == 0 .. MaxStates - 1
KernelIds == 0 .. MaxKernels - 1

VARIABLES systems,     \* ids of the systems there are
          newSystems,  \* number of system ids given out
          states,      \* ids of the states in each system
          newStates,   \* number of state ids each system has given out
          kernels,     \* ids of the kernels there are
          newKernels,  \* number of kernel ids given out
          macros,      \* number of macros in each kernel
          asks         \* what each thread has been asked: op, id, state id

vars == <<systems, newSystems, states, newStates, kernels, newKernels, macros, asks>>

Idle == [op |-> "idle", id |-> 0, sub |-> 0]
Done == [op |-> "done", id |-> 0, sub |-> 0]

Requests ==
    [op : {"create_system", "delete_system", "create_state", "modify_state",
           "measure_state", "delete_state", "compute_result",
           "create_kernel", "delete_kernel", "compile_macro"},
     id : Nat, sub : Nat]

Init ==
    /\ systems = {} /\ newSystems = 0
    /\ states = [s \in SystemIds |-> {}]
    /\ newStates = [s \in SystemIds |-> 0]
    /\ kernels = {} /\ newKernels = 0
    /\ macros = [k \in KernelIds |-> 0]
    /\ asks = [t \in Threads |-> Idle]

Arrive(t) ==
    /\ asks[t] = Idle
    /\ asks'[t] \in Requests
    /\ asks' = [asks EXCEPT ![t] = asks'[t]]
    /\ UNCHANGED <<systems, newSystems, states, newStates, kernels, newKernels, macros>>

Finish(t, op) ==
    /\ asks[t].op = op
    /\ asks' = [asks EXCEPT ![t] = Done]

\* a system comes with a new id and no states, and takes its states with it
CreateSystem(t) ==
    /\ Finish(t, "create_system")
    /\ systems' = systems \cup {newSystems}
    /\ newSystems' = newSystems + 1
    /\ UNCHANGED <<states, newStates, kernels, newKernels, macros>>

DeleteSystem(t) ==
    /\ Finish(t, "delete_system")
    /\ systems' = systems \ {asks[t].id}
    /\ states' = [s \in SystemIds |-> IF s = asks[t].id THEN {} ELSE states[s]]
    /\ UNCHANGED <<newSystems, newStates, kernels, newKernels, macros>>

CreateState(t) ==
    LET s == asks[t].id
    IN  /\ Finish(t, "create_state")
        /\ s \in systems
        /\ states' = [states EXCEPT ![s] = @ \cup {newStates[s]}]
        /\ newStates' = [newStates EXCEPT ![s] = @ + 1]
        /\ UNCHANGED <<systems, newSystems, kernels, newKernels, macros>>

EditState(t) ==
    /\ Finish(t, "modify_state") \/ Finish(t, "measure_state")
    /\ asks[t].id \in systems
    /\ asks[t].sub \in states[asks[t].id]
    /\ UNCHANGED <<systems, newSystems, states, newStates, kernels, newKernels, macros>>

DeleteState(t) ==
    /\ Finish(t, "delete_state")
    /\ asks[t].id \in systems
    /\ states' = [states EXCEPT ![asks[t].id] = @ \ {asks[t].sub}]
    /\ UNCHANGED <<systems, newSystems, newStates, kernels, newKernels, macros>>

ComputeResult(t) ==
    /\ Finish(t, "compute_result")
    /\ asks[t].id \in systems
    /\ UNCHANGED <<systems, newSystems, states, newStates, kernels, newKernels, macros>>

CreateKernel(t) ==
    /\ Finish(t, "create_kernel")
    /\ kernels' = kernels \cup {newKernels}
    /\ newKernels' = newKernels + 1
    /\ UNCHANGED <<systems, newSystems, states, newStates, macros>>

DeleteKernel(t) ==
    /\ Finish(t, "delete_kernel")
    /\ kernels' = kernels \ {asks[t].id}
    /\ macros' = [k \in KernelIds |-> IF k = asks[t].id THEN 0 ELSE macros[k]]
    /\ UNCHANGED <<systems, newSystems, states, newStates, newKernels>>

CompileMacro(t) ==
    /\ Finish(t, "compile_macro")
    /\ asks[t].id \in kernels
    /\ macros' = [macros EXCEPT ![asks[t].id] = @ + 1]
    /\ UNCHANGED <<systems, newSystems, states, newStates, kernels, newKernels>>

Reply(t) ==
    /\ asks[t] = Done
    /\ asks' = [asks EXCEPT ![t] = Idle]
    /\ UNCHANGED <<systems, newSystems, states, newStates, kernels, newKernels, macros>>

Next ==
    \E t \in Threads :
        \/ Arrive(t) \/ CreateSystem(t) \/ DeleteSystem(t) \/ CreateState(t)
        \/ EditState(t) \/ DeleteState(t) \/ ComputeResult(t)
        \/ CreateKernel(t) \/ DeleteKernel(t) \/ CompileMacro(t) \/ Reply(t)

Spec == Init /\ [][Next]_vars
=============================================================================
