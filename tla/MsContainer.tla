----------------------------- MODULE MsContainer -----------------------------
(* ms_container<Key, T> (ms_container.hpp): a std::map from keys to pairs of *)
(* a spin flag and an item, under a shared_mutex.  insert and erase hold the *)
(* mutex exclusively; count, size and edit_item hold it shared, and edit_item *)
(* also spins for the item's own flag before it runs the caller's function   *)
(* on the item.  Any number of worker threads call it at once.               *)
(*                                                                           *)
(* A node stands for one std::pair<atomic_flag*, T*>; nodes are numbered in  *)
(* the order in which they are made, so that a freed node is never mistaken  *)
(* for a newer one.                                                          *)
EXTENDS Naturals, FiniteSets, SharedMutex

CONSTANTS Threads,     \* the worker threads
          KeySpace,    \* number of values of Key: 2^64 in the code
          Integral,    \* std::is_integral<Key>: insert generates the key
          Values,      \* contents an item may have
          MaxNodes     \* bound on the number of items ever made

ASSUME KeySpaceAssumption == KeySpace \in Nat \ {0}
ASSUME IntegralAssumption == Integral \in BOOLEAN
ASSUME ValuesAssumption   == Values # {} /\ Values \subseteq Nat
ASSUME MaxNodesAssumption == MaxNodes \in Nat

Keys   == 0 .. KeySpace - 1
Nodes  == 1 .. MaxNodes
NoNode == 0                    \* what find() gives for an absent key: end()
Blank  == CHOOSE v \in Values : TRUE    \* contents nobody has written yet

VARIABLES mutex,         \* _listMutex
          keyGenerator,  \* _keyGenerator
          given,         \* history: the keys get_key() has returned
          list,          \* the std::map: the node of each key
          made,          \* history: number of nodes made so far
          heap,          \* the nodes that are allocated
          flag,          \* atomic_flag of each node
          value,         \* contents of each node's item
          pc,            \* where each thread is in the operation it runs
          key,           \* its argument, or the key insert returns
          node,          \* the node it makes, or the one find() gave it
          saw,           \* the contents its callback started from
          ret,           \* the value its last operation returned
          alive          \* the process has not been terminated

vars == <<mutex, keyGenerator, given, list, made, heap, flag, value,
          pc, key, node, saw, ret, alive>>

SharedPc    == {"counting", "finding", "spinning", "editing", "edited", "endShared"}
ExclusivePc == {"inserting", "erasing", "freed", "endUnique"}
WaitingPc   == {"insert", "erase", "count", "edit"}
Pcs         == SharedPc \cup ExclusivePc \cup WaitingPc \cup {"idle"}

TypeOK ==
    /\ mutex \in MutexType(Threads)
    /\ keyGenerator \in Keys
    /\ given \subseteq Keys
    /\ made \in 0 .. MaxNodes
    /\ list \in [Keys -> 0 .. made]
    /\ heap \subseteq 1 .. made
    /\ flag \in [Nodes -> BOOLEAN]
    /\ value \in [Nodes -> Values]
    /\ pc \in [Threads -> Pcs]
    /\ key \in [Threads -> Keys]
    /\ node \in [Threads -> 0 .. made]
    /\ saw \in [Threads -> Values]
    /\ ret \in [Threads -> BOOLEAN]
    /\ alive \in BOOLEAN

\* A new atomic_flag has no specified value before clear(): take "set".
Init ==
    /\ mutex = Unlocked
    /\ keyGenerator = 0
    /\ given = {}
    /\ list = [k \in Keys |-> NoNode]
    /\ made = 0
    /\ heap = {}
    /\ flag = [n \in Nodes |-> TRUE]
    /\ value = [n \in Nodes |-> Blank]
    /\ pc = [t \in Threads |-> "idle"]
    /\ key = [t \in Threads |-> 0]
    /\ node = [t \in Threads |-> NoNode]
    /\ saw = [t \in Threads |-> Blank]
    /\ ret = [t \in Threads |-> FALSE]
    /\ alive = TRUE

-----------------------------------------------------------------------------
(* The calls.                                                                *)

Goto(t, label) == pc' = [pc EXCEPT ![t] = label]

\* The key argument; the integral insert has none.
Argument(t) == \E k \in Keys : key' = [key EXCEPT ![t] = k]

\* insert: the item is made by the caller, or by the function it passes.
CallInsert(t) ==
    /\ pc[t] = "idle"
    /\ made < MaxNodes
    /\ made' = made + 1
    /\ heap' = heap \cup {made + 1}
    /\ node' = [node EXCEPT ![t] = made + 1]
    /\ \E v \in Values : value' = [value EXCEPT ![made + 1] = v]
    /\ IF Integral THEN UNCHANGED key ELSE Argument(t)
    /\ ret' = [ret EXCEPT ![t] = FALSE]
    /\ Goto(t, "insert")
    /\ UNCHANGED <<mutex, keyGenerator, given, list, flag, saw, alive>>

\* erase, count (size takes the same steps) and edit_item
CallWithKey(t) ==
    /\ pc[t] = "idle"
    /\ \E o \in {"erase", "count", "edit"} : Goto(t, o)
    /\ Argument(t)
    /\ ret' = [ret EXCEPT ![t] = FALSE]
    /\ UNCHANGED <<mutex, keyGenerator, given, list, made, heap, flag, value,
                   node, saw, alive>>

-----------------------------------------------------------------------------
(* Taking and leaving _listMutex.                                            *)

Holding == [insert |-> "inserting", erase |-> "erasing",
            count |-> "counting", edit |-> "finding"]

\* variant: list_shared_lock_t where list_unique_lock_t belongs
AcquireUniqueAsShared(t) ==
    /\ pc[t] \in {"insert", "erase"}
    /\ CanLockShared(mutex)
    /\ mutex' = LockShared(mutex, t)
    /\ Goto(t, Holding[pc[t]])
    /\ UNCHANGED <<keyGenerator, given, list, made, heap, flag, value,
                   key, node, saw, ret, alive>>

AcquireUnique(t) ==
    /\ pc[t] \in {"insert", "erase"}
    /\ CanLockUnique(mutex)
    /\ mutex' = LockUnique(mutex, t)
    /\ Goto(t, Holding[pc[t]])
    /\ UNCHANGED <<keyGenerator, given, list, made, heap, flag, value,
                   key, node, saw, ret, alive>>

\* (raising the bit again would change nothing)
WaitUnique(t) ==
    /\ pc[t] \in {"insert", "erase"}
    /\ ~CanLockUnique(mutex)
    /\ ~mutex.blocked
    /\ mutex' = AwaitUnique(mutex)
    /\ UNCHANGED <<keyGenerator, given, list, made, heap, flag, value,
                   pc, key, node, saw, ret, alive>>

AcquireShared(t) ==
    /\ pc[t] \in {"count", "edit"}
    /\ CanLockShared(mutex)
    /\ mutex' = LockShared(mutex, t)
    /\ Goto(t, Holding[pc[t]])
    /\ UNCHANGED <<keyGenerator, given, list, made, heap, flag, value,
                   key, node, saw, ret, alive>>

\* the locals of the operation end with it
LeaveScope(t) ==
    /\ Goto(t, "idle")
    /\ node' = [node EXCEPT ![t] = NoNode]
    /\ saw' = [saw EXCEPT ![t] = Blank]

ReleaseUnique(t) ==
    /\ pc[t] = "endUnique"
    /\ mutex' = UnlockUnique(mutex, t)
    /\ LeaveScope(t)
    /\ UNCHANGED <<keyGenerator, given, list, made, heap, flag, value,
                   key, ret, alive>>

ReleaseShared(t) ==
    /\ pc[t] = "endShared"
    /\ mutex' = UnlockShared(mutex, t)
    /\ LeaveScope(t)
    /\ UNCHANGED <<keyGenerator, given, list, made, heap, flag, value,
                   key, ret, alive>>

-----------------------------------------------------------------------------
(* insert, under the exclusive lock.                                         *)

\* Variants with a plausible mistake; the properties tell them apart.
NextKeyUnwrapped(k) == k + 1
NextKeyStuck(k)     == k

\* get_key(): _keyGenerator++ in the width of Key
NextKey(k) == (k + 1) % KeySpace

MapInsertOverwrites(k, n) == [list EXCEPT ![k] = n]

\* std::map::insert does nothing when the key is there: the new pair is lost.
MapInsert(k, n) == IF list[k] = NoNode THEN [list EXCEPT ![k] = n] ELSE list

InsertItem(t) ==
    /\ pc[t] = "inserting"
    /\ LET k == IF Integral THEN keyGenerator ELSE key[t]
       IN  /\ flag' = [flag EXCEPT ![node[t]] = FALSE]
           /\ list' = MapInsert(k, node[t])
           /\ ret' = [ret EXCEPT ![t] = list[k] = NoNode]
           /\ key' = [key EXCEPT ![t] = k]
    /\ keyGenerator' = IF Integral THEN NextKey(keyGenerator) ELSE keyGenerator
    /\ given' = IF Integral THEN given \cup {keyGenerator} ELSE given
    /\ Goto(t, "endUnique")
    /\ UNCHANGED <<mutex, made, heap, value, node, saw, alive>>

-----------------------------------------------------------------------------
(* erase, under the exclusive lock: delete flag and item, then the map entry. *)

EraseDelete(t) ==
    /\ pc[t] = "erasing"
    /\ list[key[t]] # NoNode
    /\ heap' = heap \ {list[key[t]]}
    /\ Goto(t, "freed")
    /\ UNCHANGED <<mutex, keyGenerator, given, list, made, flag, value,
                   key, node, saw, ret, alive>>

\* erase of an absent key dereferences end(): undefined.  The build either
\* dies in delete or goes on and erases nothing.
EraseMissing(t) ==
    /\ pc[t] = "erasing"
    /\ list[key[t]] = NoNode
    /\ \/ alive' = FALSE /\ UNCHANGED <<pc, ret>>
       \/ /\ ret' = [ret EXCEPT ![t] = FALSE]
          /\ Goto(t, "endUnique")
          /\ UNCHANGED alive
    /\ UNCHANGED <<mutex, keyGenerator, given, list, made, heap, flag, value,
                   key, node, saw>>

\* variant: the items are deleted but the map entry stays
EraseKeyForgets(t) ==
    /\ pc[t] = "freed"
    /\ ret' = [ret EXCEPT ![t] = TRUE]
    /\ Goto(t, "endUnique")
    /\ UNCHANGED <<mutex, keyGenerator, given, list, made, heap, flag, value,
                   key, node, saw, alive>>

\* variant: the erased key is handed out again
EraseKeyRecycles(t) ==
    /\ pc[t] = "freed"
    /\ list' = [list EXCEPT ![key[t]] = NoNode]
    /\ value' = [value EXCEPT ![list[key[t]]] = Blank]
    /\ keyGenerator' = key[t]
    /\ ret' = [ret EXCEPT ![t] = TRUE]
    /\ Goto(t, "endUnique")
    /\ UNCHANGED <<mutex, given, made, heap, flag, key, node, saw, alive>>

EraseKey(t) ==
    /\ pc[t] = "freed"
    /\ list' = [list EXCEPT ![key[t]] = NoNode]
    /\ value' = [value EXCEPT ![list[key[t]]] = Blank]
    /\ ret' = [ret EXCEPT ![t] = TRUE]
    /\ Goto(t, "endUnique")
    /\ UNCHANGED <<mutex, keyGenerator, given, made, heap, flag,
                   key, node, saw, alive>>

-----------------------------------------------------------------------------
(* count and edit_item, under the shared lock.                               *)

CountKey(t) ==
    /\ pc[t] = "counting"
    /\ ret' = [ret EXCEPT ![t] = list[key[t]] # NoNode]
    /\ Goto(t, "endShared")
    /\ UNCHANGED <<mutex, keyGenerator, given, list, made, heap, flag, value,
                   key, node, saw, alive>>

\* variant: the list is unlocked once the item is found
FindUnlocks(t) ==
    /\ pc[t] = "finding"
    /\ list[key[t]] # NoNode
    /\ node' = [node EXCEPT ![t] = list[key[t]]]
    /\ mutex' = UnlockShared(mutex, t)
    /\ Goto(t, "spinning")
    /\ UNCHANGED <<keyGenerator, given, list, made, heap, flag, value,
                   key, saw, ret, alive>>

Find(t) ==
    /\ pc[t] = "finding"
    /\ list[key[t]] # NoNode
    /\ node' = [node EXCEPT ![t] = list[key[t]]]
    /\ Goto(t, "spinning")
    /\ UNCHANGED <<mutex, keyGenerator, given, list, made, heap, flag, value,
                   key, saw, ret, alive>>

\* variant: set without test
TestAndSetBlind(t) ==
    /\ pc[t] = "spinning"
    /\ flag' = [flag EXCEPT ![node[t]] = TRUE]
    /\ saw' = [saw EXCEPT ![t] = value[node[t]]]
    /\ Goto(t, "editing")
    /\ UNCHANGED <<mutex, keyGenerator, given, list, made, heap, value,
                   key, node, ret, alive>>

\* test_and_set succeeds and the callback reads the item; a failed attempt
\* changes nothing.
TestAndSet(t) ==
    /\ pc[t] = "spinning"
    /\ ~flag[node[t]]
    /\ flag' = [flag EXCEPT ![node[t]] = TRUE]
    /\ saw' = [saw EXCEPT ![t] = value[node[t]]]
    /\ Goto(t, "editing")
    /\ UNCHANGED <<mutex, keyGenerator, given, list, made, heap, value,
                   key, node, ret, alive>>

\* the callback writes what it made of the item and returns
CallbackReturns(t) ==
    /\ pc[t] = "editing"
    /\ \E v \in Values : value' = [value EXCEPT ![node[t]] = v]
    /\ ret' = [ret EXCEPT ![t] = TRUE]
    /\ Goto(t, "edited")
    /\ UNCHANGED <<mutex, keyGenerator, given, list, made, heap, flag,
                   key, node, saw, alive>>

\* variant: an exit that leaves the flag set
ClearFlagForgets(t) ==
    /\ pc[t] = "edited"
    /\ Goto(t, "endShared")
    /\ UNCHANGED <<mutex, keyGenerator, given, list, made, heap, flag, value,
                   key, node, saw, ret, alive>>

ClearFlag(t) ==
    /\ pc[t] = "edited"
    /\ flag' = [flag EXCEPT ![node[t]] = FALSE]
    /\ Goto(t, "endShared")
    /\ UNCHANGED <<mutex, keyGenerator, given, list, made, heap, value,
                   key, node, saw, ret, alive>>

\* An exception leaves the operation: edit_item finds no item, or the
\* function given to edit_item or to insert throws.  None of the callers
\* handles it (universe.cpp catches std::out_of_range only, the worker
\* std::runtime_error only) and std::terminate ends the process.
Throw(t) ==
    /\ \/ pc[t] = "finding" /\ list[key[t]] = NoNode
       \/ pc[t] \in {"editing", "inserting"}
    /\ alive' = FALSE
    /\ UNCHANGED <<mutex, keyGenerator, given, list, made, heap, flag, value,
                   pc, key, node, saw, ret>>

-----------------------------------------------------------------------------
Call(t) == CallInsert(t) \/ CallWithKey(t)

Proceed(t) ==
    \/ AcquireUnique(t) \/ WaitUnique(t) \/ AcquireShared(t)
    \/ ReleaseUnique(t) \/ ReleaseShared(t)
    \/ InsertItem(t)
    \/ EraseDelete(t) \/ EraseMissing(t) \/ EraseKey(t)
    \/ CountKey(t) \/ Find(t)
    \/ TestAndSet(t) \/ CallbackReturns(t) \/ ClearFlag(t)
    \/ Throw(t)

Step(t) == alive /\ (Call(t) \/ Proceed(t))

\* nothing runs after the process has been terminated
Dead == ~alive /\ UNCHANGED vars

Next == (\E t \in Threads : Step(t)) \/ Dead

Spec == Init /\ [][Next]_vars

\* A thread inside an operation is scheduled again and again; callers are
\* free to stop calling.
Fairness == \A t \in Threads : WF_vars(alive /\ Proceed(t))

FairSpec == Spec /\ Fairness

-----------------------------------------------------------------------------
(* Properties.                                                               *)

Editors == {t \in Threads : pc[t] \in {"editing", "edited"}}

\* "one thread may not be modifying an item while the list is being resized"
\* (class comment): while a thread is between the lock and the unlock of
\* insert or erase, no other thread reads, edits or changes the list.
ListExclusion ==
    \A t, u \in Threads :
        pc[t] \in ExclusivePc /\ u # t => pc[u] \notin SharedPc \cup ExclusivePc

\* The flag spun on, and the item the callback works on, are still allocated
\* and still the ones in the map: the iterator edit_item took under the shared
\* lock is never invalidated by an erase in another thread.
NoUseAfterFree ==
    \A t \in Threads :
        pc[t] \in {"spinning", "editing", "edited"} =>
            /\ node[t] \in heap
            /\ list[key[t]] = node[t]

\* Two callbacks never run on one item at a time, and an item's flag is set
\* exactly while one of them does: a set flag always has a thread that will
\* clear it.
FlagDiscipline ==
    /\ \A t, u \in Editors : node[t] = node[u] => t = u
    /\ \A k \in Keys : list[k] # NoNode =>
           (flag[list[k]] <=> \E t \in Editors : node[t] = list[k])

\* A callback that read an item writes its result over what it read: no other
\* thread has changed the item in between, so no update is lost.
NoLostUpdate ==
    \A t \in Threads : pc[t] = "editing" => value[node[t]] = saw[t]

\* erase deletes a node once: what the map holds is allocated, except for the
\* one entry whose erase has deleted the node and not yet removed the key.
\* No two keys share a node.
NoDoubleFree ==
    /\ \A k \in Keys :
          list[k] # NoNode /\ list[k] \notin heap =>
              \E t \in Threads : pc[t] = "freed" /\ key[t] = k
    /\ \A j, k \in Keys : list[j] = list[k] /\ list[j] # NoNode => j = k

\* Until the key generator wraps (get_key's "\bug" comment), every item that
\* insert was given is in the map or on its way there: none is leaked, and no
\* live key is handed to a second caller.
NoLeakUntilWrap ==
    Integral /\ given # Keys =>
        \A n \in heap :
            \/ \E k \in Keys : list[k] = n
            \/ \E t \in Threads : pc[t] \in {"insert", "inserting"} /\ node[t] = n

\* A key that was given out keeps its item until that is erased and never gets
\* another one, until the generator wraps: a client that kept an old id can not
\* reach somebody else's item with it.
KeysNotReused ==
    [][Integral /\ given # Keys =>
         \A k \in given : list'[k] \in {list[k], NoNode}]_vars

\* Every operation that was called returns, once callers stop calling: neither
\* the waiting writers, which keep readers out, nor the spinning readers block
\* everyone forever.
Quiesces ==
    \/ []<><<\E t \in Threads : Call(t)>>_vars
    \/ <>[](~alive \/ \A t \in Threads : pc[t] = "idle")

-----------------------------------------------------------------------------
(* The inductive invariant behind the safety properties.                     *)

Inserters == {t \in Threads : pc[t] \in {"insert", "inserting"}}

\* the mutex knows who is inside, and lets nobody in beside a writer
LockInv ==
    /\ mutex.readers = {t \in Threads : pc[t] \in SharedPc}
    /\ mutex.writers = {t \in Threads : pc[t] \in ExclusivePc}
    /\ \A t \in mutex.writers : mutex.readers = {} /\ mutex.writers = {t}

\* a new item belongs to its inserter alone; the node under erasure is freed
OwnerInv ==
    /\ \A t \in Inserters :
          /\ node[t] \in heap
          /\ \A k \in Keys : list[k] # node[t]
          /\ \A u \in Inserters : node[u] = node[t] => u = t
    /\ \A t \in Threads : pc[t] = "freed" =>
          list[key[t]] # NoNode /\ list[key[t]] \notin heap

\* the keys given out are those below the generator, and no other is in use
KeyInv ==
    Integral =>
        /\ given = 0 .. keyGenerator - 1 \/ given = Keys
        /\ \A k \in Keys \ given : list[k] = NoNode

\* The inductive invariant: the property invariants together with who owns
\* the mutex, the new nodes and the keys.
Inv == /\ TypeOK /\ LockInv /\ OwnerInv /\ KeyInv
       /\ NoDoubleFree /\ NoUseAfterFree /\ FlagDiscipline
       /\ NoLostUpdate /\ NoLeakUntilWrap

-----------------------------------------------------------------------------
(* Refinement: the operations take effect at one instant.                    *)

RequestAt ==
    [idle |-> "idle",
     insert |-> "insert", inserting |-> "insert",
     erase |-> "erase", erasing |-> "erase", freed |-> "erase",
     count |-> "count", counting |-> "count",
     edit |-> "edit", finding |-> "edit", spinning |-> "edit", editing |-> "edit",
     edited |-> "done", endShared |-> "done", endUnique |-> "done"]

Requests == [t \in Threads |-> RequestAt[pc[t]]]

Contents ==
    [k \in Keys |-> IF list[k] = NoNode THEN {} ELSE {value[list[k]]}]

Abstract == INSTANCE ItemMap WITH
    store <- Contents, used <- given, req <- Requests

\* The container is an atomic map (ItemMap): every operation takes effect once,
\* at one instant between call and return, in every interleaving of the
\* lock, spin, callback, delete and unlock steps of the threads.
AtomicMap == Abstract!Spec
=============================================================================
