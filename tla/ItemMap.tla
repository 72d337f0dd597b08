------------------------------- MODULE ItemMap -------------------------------
(* What ms_container promises its callers (ms_container.hpp, the class       *)
(* comment): a map with unique keys on which every operation takes effect    *)
(* once, at one instant between its call and its return, whatever the other  *)
(* threads do.  With integral keys the map itself chooses the key, and gives *)
(* none twice until it has given all of them.                                *)
EXTENDS Naturals

CONSTANTS Threads,     \* the worker threads
          KeySpace,    \* how many keys there are (2^64 for std::uint64_t)
          Integral,    \* the map chooses the keys (otherwise its caller does)
          Values       \* what an item may hold

Keys   == 0 .. KeySpace - 1
Absent == {}

VARIABLES store,   \* {v} where the key has an item v, Absent where it has none
          used,    \* the keys given out so far
          req,     \* what each thread is asking of the map
          key,     \* the key each thread is using
          ret      \* what the last operation of each thread returned

vars == <<store, used, req, key, ret>>

Ops == {"insert", "erase", "count", "edit"}

Init ==
    /\ store = [k \in Keys |-> Absent]
    /\ used = {}
    /\ req = [t \in Threads |-> "idle"]
    /\ key = [t \in Threads |-> 0]
    /\ ret = [t \in Threads |-> FALSE]

Call(t) ==
    /\ req[t] = "idle"
    /\ \E o \in Ops : req' = [req EXCEPT ![t] = o]
    /\ \E k \in Keys : key' = [key EXCEPT ![t] = k]
    /\ ret' = [ret EXCEPT ![t] = FALSE]
    /\ UNCHANGED <<store, used>>

\* Every operation takes effect in one step, which leaves it done.
Insert(t, k, v) ==
    /\ req[t] = "insert"
    /\ Integral => used = Keys \/ k \notin used
    /\ ~Integral => k = key[t]
    /\ store' = IF store[k] = Absent THEN [store EXCEPT ![k] = {v}] ELSE store
    /\ ret' = [ret EXCEPT ![t] = store[k] = Absent]
    /\ key' = [key EXCEPT ![t] = k]
    /\ used' = IF Integral THEN used \cup {k} ELSE used
    /\ req' = [req EXCEPT ![t] = "done"]

Erase(t) ==
    /\ req[t] = "erase"
    /\ store' = [store EXCEPT ![key[t]] = Absent]
    /\ ret' = [ret EXCEPT ![t] = store[key[t]] # Absent]
    /\ req' = [req EXCEPT ![t] = "done"]
    /\ UNCHANGED <<key, used>>

Count(t) ==
    /\ req[t] = "count"
    /\ ret' = [ret EXCEPT ![t] = store[key[t]] # Absent]
    /\ req' = [req EXCEPT ![t] = "done"]
    /\ UNCHANGED <<store, key, used>>

Edit(t, v) ==
    /\ req[t] = "edit"
    /\ store[key[t]] # Absent
    /\ store' = [store EXCEPT ![key[t]] = {v}]
    /\ ret' = [ret EXCEPT ![t] = TRUE]
    /\ req' = [req EXCEPT ![t] = "done"]
    /\ UNCHANGED <<key, used>>

Return(t) ==
    /\ req[t] = "done"
    /\ req' = [req EXCEPT ![t] = "idle"]
    /\ UNCHANGED <<store, used, key, ret>>

Next ==
    \E t \in Threads :
        \/ Call(t) \/ Erase(t) \/ Count(t) \/ Return(t)
        \/ \E k \in Keys, v \in Values : Insert(t, k, v)
        \/ \E v \in Values : Edit(t, v)

Spec == Init /\ [][Next]_vars
=============================================================================
