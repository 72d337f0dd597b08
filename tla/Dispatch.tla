------------------------------- MODULE Dispatch -------------------------------
(* From a request to the function that serves it: the table of calls that the *)
(* static initialisers of actions.cpp fill, the packed attribute of a request *)
(* (net/request.hpp), and the search in the table.                            *)
(*                                                                            *)
(* A method name in a request is a registered name, or "other", followed by   *)
(* some more characters; the length of "other" is that of "create_system".    *)
EXTENDS Naturals, Sequences

CONSTANTS Maximum,        \* ACTIONS_MAXIMUM, a multiple of 8
          MethodMaximum,  \* ACTIONS_METHOD_MAXIMUM
          Extras,         \* how many characters may follow a name in a request
          MaxParameters   \* bound on the number of parameters in a request

ASSUME MaximumAssumption == Maximum \in Nat /\ Maximum % 8 = 0
ASSUME MethodMaximumAssumption == MethodMaximum \in Nat
ASSUME ExtrasAssumption == Extras \subseteq Nat
ASSUME MaxParametersAssumption == MaxParameters \in Nat

Call(name, size, count) == [method |-> name, size |-> size, params |-> count]

\* the self_register object of each call
get_uniform_integer  == Call("get_uniform_integer", 19, 3)
get_uniform_real     == Call("get_uniform_real", 16, 3)
get_weighted_integer == Call("get_weighted_integer", 20, 3)
create_kernel        == Call("create_kernel", 13, 0)
delete_kernel        == Call("delete_kernel", 13, 1)
compile_macro        == Call("compile_macro", 13, 4)
create_system        == Call("create_system", 13, 1)
delete_system        == Call("delete_system", 13, 1)
create_state         == Call("create_state", 12, 4)
delete_state         == Call("delete_state", 12, 2)
modify_state         == Call("modify_state", 12, 5)
measure_state        == Call("measure_state", 13, 5)
compute_result       == Call("compute_result", 14, 4)

\* they are initialised in the order of the file
RandomCalls == << get_uniform_integer, get_uniform_real, get_weighted_integer >>
KernelCalls == << create_kernel, delete_kernel, compile_macro >>
SystemCalls == << create_system, delete_system, create_state, delete_state >>
ResultCalls == << modify_state, measure_state, compute_result >>
Calls == RandomCalls \o KernelCalls \o SystemCalls \o ResultCalls

Stems    == {Call("other", 13, 0)} \cup {Calls[i] : i \in DOMAIN Calls}
Requests == {[method |-> s.method, extra |-> e, size |-> s.size + e,
              params |-> p] : s \in Stems, e \in Extras, p \in 0 .. MaxParameters}

VARIABLES registered,  \* registeredCalls: the slots in use
          phase        \* the process: "register", "serving" or "aborted"

\* register_call: an exception in a static initialiser ends the process
RegisterCall ==
    LET c == Calls[Len(registered) + 1]
    IN  IF Len(registered) >= Maximum \/ c.size = 0 \/ c.size > MethodMaximum
        THEN phase' = "aborted" /\ UNCHANGED registered
        ELSE /\ registered' = Append(registered, c)
             /\ phase' = IF registered' = Calls THEN "serving" ELSE "register"

-----------------------------------------------------------------------------
(* The search.                                                                *)

\* variant: the number of parameters is left out
AttributeNoArity(r) == r.size % 256

\* method_attr, and the methodsAttr of a slot: an unsigned char
Attribute(r) == (r.size + r.params * 32) % 256

\* The bytes of methodsAttr; unused slots are 0.
AttributeAt(i) == IF i < Len(registered) THEN Attribute(registered[i + 1]) ELSE 0

\* (methodsAttr >> wrdOffset) == 0: this byte of the word and those above it
RestOfWordEmpty(i) == \A j \in i .. 8 * (i \div 8) + 7 : AttributeAt(j) = 0

\* memcmp over methodAttr & 0x1F bytes, which is the length of the slot's name;
\* the request's name is as long or longer by a multiple of 32
Matches(r, i) ==
    /\ AttributeAt(i) = Attribute(r)
    /\ registered[i + 1].method = r.method

\* find_call: the number of the slot, 0 if there is none
FindCall(r) ==
    LET search[i \in 0 .. Maximum] ==
            IF i = Maximum THEN 0
            ELSE IF RestOfWordEmpty(i) THEN 0
            ELSE IF Matches(r, i) THEN i + 1
            ELSE search[i + 1]
    IN  search[0]

-----------------------------------------------------------------------------
\* what method_attr is documented to hold: 5 bits of length, 3 of parameters
Representable(r) == r.size <= 31 /\ r.params <= 7

\* the request is for call i by name and number of parameters
Named(r, i) ==
    /\ Calls[i].method = r.method /\ r.extra = 0
    /\ Calls[i].params = r.params
=============================================================================
