----------------------------- MODULE SharedMutex -----------------------------
(* boost::shared_mutex as ms_container uses it (external code).  A mutex is  *)
(* a record: the threads holding it shared, the threads holding it           *)
(* exclusively, and the "exclusive_waiting_blocked" bit that a waiting       *)
(* writer raises to keep new readers out.  A waiter re-tests the condition   *)
(* whenever it is scheduled (condition variables may wake spuriously).       *)

Unlocked == [readers |-> {}, writers |-> {}, blocked |-> FALSE]

MutexType(Threads) == [readers : SUBSET Threads,
                       writers : SUBSET Threads,
                       blocked : BOOLEAN]

CanLockShared(m) == m.writers = {} /\ ~m.blocked

CanLockUnique(m) == m.readers = {} /\ m.writers = {}

LockShared(m, t) ==
    [readers |-> m.readers \cup {t}, writers |-> m.writers, blocked |-> m.blocked]

LockUnique(m, t) ==
    [readers |-> m.readers, writers |-> m.writers \cup {t}, blocked |-> m.blocked]

\* lock() that has to wait raises the bit before it sleeps
AwaitUnique(m) ==
    [readers |-> m.readers, writers |-> m.writers, blocked |-> TRUE]

\* the last reader out clears the bit and wakes everybody
UnlockShared(m, t) ==
    [readers |-> m.readers \ {t}, writers |-> m.writers,
     blocked |-> IF m.readers \ {t} = {} THEN FALSE ELSE m.blocked]

UnlockUnique(m, t) ==
    [readers |-> m.readers, writers |-> m.writers \ {t}, blocked |-> FALSE]
=============================================================================
