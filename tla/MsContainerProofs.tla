--------------------------- MODULE MsContainerProofs ---------------------------
(* Proofs about MsContainer for every number of threads, keys and items.     *)
EXTENDS MsContainer, TLAPS

\* what Blank stands for is a value
LEMMA BlankIsValue == Blank \in Values
  BY ValuesAssumption DEF Blank

\* the generator does not wrap below the size of the key space
LEMMA ModBelow ==
  ASSUME NEW m \in Nat, NEW n \in Nat \ {0}, m < n
  PROVE  m % n = m
  OBVIOUS

\* Every step preserves the types; a thread that spins has a node to look at.
LEMMA TypeStep ==
  ASSUME TypeOK, NoUseAfterFree, [Next]_vars
  PROVE  TypeOK'
<1> USE DEF TypeOK
<1>1. CASE UNCHANGED vars \/ Dead
  BY <1>1 DEF vars, Dead
<1>2. ASSUME NEW t \in Threads, CallInsert(t) PROVE TypeOK'
  <2>1. /\ made' \in 0 .. MaxNodes /\ heap' \subseteq 1 .. made'
        /\ list' \in [Keys -> 0 .. made'] /\ node' \in [Threads -> 0 .. made']
    BY <1>2, MaxNodesAssumption DEF CallInsert
  <2>2. value' \in [Nodes -> Values] /\ key' \in [Threads -> Keys]
    BY <1>2 DEF CallInsert, Argument
  <2> QED
    BY <1>2, <2>1, <2>2 DEF CallInsert, Goto, Pcs, WaitingPc
<1>3. ASSUME NEW t \in Threads, CallWithKey(t) PROVE TypeOK'
  BY <1>3 DEF CallWithKey, Argument, Goto, Pcs, WaitingPc
<1>4. ASSUME NEW t \in Threads, AcquireUnique(t) PROVE TypeOK'
  <2>1. mutex' \in MutexType(Threads)
    BY <1>4 DEF AcquireUnique, LockUnique, MutexType
  <2> QED
    BY <1>4, <2>1 DEF AcquireUnique, Holding, Goto, Pcs, SharedPc, ExclusivePc
<1>5. ASSUME NEW t \in Threads, WaitUnique(t) PROVE TypeOK'
  BY <1>5 DEF WaitUnique, AwaitUnique, MutexType
<1>6. ASSUME NEW t \in Threads, AcquireShared(t) PROVE TypeOK'
  <2>1. mutex' \in MutexType(Threads)
    BY <1>6 DEF AcquireShared, LockShared, MutexType
  <2> QED
    BY <1>6, <2>1 DEF AcquireShared, Holding, Goto, Pcs, SharedPc, ExclusivePc
<1>7. ASSUME NEW t \in Threads, ReleaseUnique(t) PROVE TypeOK'
  <2>1. mutex' \in MutexType(Threads)
    BY <1>7 DEF ReleaseUnique, UnlockUnique, MutexType
  <2> QED
    BY <1>7, <2>1, BlankIsValue DEF ReleaseUnique, LeaveScope, Goto, Pcs, NoNode
<1>8. ASSUME NEW t \in Threads, ReleaseShared(t) PROVE TypeOK'
  <2>1. mutex' \in MutexType(Threads)
    BY <1>8, Zenon DEF ReleaseShared, UnlockShared, MutexType
  <2> QED
    BY <1>8, <2>1, BlankIsValue DEF ReleaseShared, LeaveScope, Goto, Pcs, NoNode
<1>9. ASSUME NEW t \in Threads, InsertItem(t) PROVE TypeOK'
  <2>1. keyGenerator' \in Keys /\ given' \subseteq Keys
    BY <1>9, KeySpaceAssumption DEF InsertItem, NextKey, Keys
  <2>2. list' \in [Keys -> 0 .. made'] /\ key' \in [Threads -> Keys]
    BY <1>9 DEF InsertItem, MapInsert
  <2>3. ret' \in [Threads -> BOOLEAN] /\ flag' \in [Nodes -> BOOLEAN]
    BY <1>9 DEF InsertItem
  <2> QED
    BY <1>9, <2>1, <2>2, <2>3 DEF InsertItem, Goto, Pcs, ExclusivePc
<1>10. ASSUME NEW t \in Threads, EraseDelete(t) PROVE TypeOK'
  BY <1>10 DEF EraseDelete, Goto, Pcs, ExclusivePc
<1>11. ASSUME NEW t \in Threads, EraseMissing(t) PROVE TypeOK'
  BY <1>11 DEF EraseMissing, Goto, Pcs, ExclusivePc
<1>12. ASSUME NEW t \in Threads, EraseKey(t) PROVE TypeOK'
  <2>1. list' \in [Keys -> 0 .. made']
    BY <1>12, MaxNodesAssumption DEF EraseKey, NoNode
  <2>2. value' \in [Nodes -> Values]
    BY <1>12, BlankIsValue DEF EraseKey
  <2> QED
    BY <1>12, <2>1, <2>2 DEF EraseKey, Goto, Pcs, ExclusivePc
<1>13. ASSUME NEW t \in Threads, CountKey(t) PROVE TypeOK'
  BY <1>13 DEF CountKey, Goto, Pcs, SharedPc
<1>14. ASSUME NEW t \in Threads, Find(t) PROVE TypeOK'
  BY <1>14 DEF Find, Goto, Pcs, SharedPc
<1>15. ASSUME NEW t \in Threads, TestAndSet(t) PROVE TypeOK'
  <2>1. node[t] \in Nodes
    BY <1>15, MaxNodesAssumption DEF TestAndSet, NoUseAfterFree, Nodes
  <2>2. flag' \in [Nodes -> BOOLEAN] /\ saw' \in [Threads -> Values]
    BY <1>15, <2>1 DEF TestAndSet
  <2> QED
    BY <1>15, <2>2 DEF TestAndSet, Goto, Pcs, SharedPc
<1>16. ASSUME NEW t \in Threads, CallbackReturns(t) PROVE TypeOK'
  BY <1>16 DEF CallbackReturns, Goto, Pcs, SharedPc
<1>17. ASSUME NEW t \in Threads, ClearFlag(t) PROVE TypeOK'
  BY <1>17 DEF ClearFlag, Goto, Pcs, SharedPc
<1>18. ASSUME NEW t \in Threads, Throw(t) PROVE TypeOK'
  BY <1>18 DEF Throw
<1> QED
  BY <1>1, <1>2, <1>3, <1>4, <1>5, <1>6, <1>7, <1>8, <1>9, <1>10, <1>11, <1>12, <1>13, <1>14, <1>15, <1>16, <1>17, <1>18 DEF Next, Step, Call, Proceed

\* Every step preserves the mutex's account of who is inside.
LEMMA LockStep ==
  ASSUME TypeOK, LockInv, [Next]_vars
  PROVE  LockInv'
<1> USE DEF TypeOK, LockInv, MutexType, Pcs, SharedPc, ExclusivePc
<1>1. CASE UNCHANGED vars \/ Dead
  BY <1>1 DEF vars, Dead
<1>2. ASSUME NEW t \in Threads, CallInsert(t) PROVE LockInv'
  BY <1>2 DEF CallInsert, Argument, Goto
<1>3. ASSUME NEW t \in Threads, CallWithKey(t) PROVE LockInv'
  BY <1>3 DEF CallWithKey, Argument, Goto
<1>4. ASSUME NEW t \in Threads, AcquireUnique(t) PROVE LockInv'
  BY <1>4 DEF AcquireUnique, CanLockUnique, LockUnique, Holding, Goto
<1>5. ASSUME NEW t \in Threads, WaitUnique(t) PROVE LockInv'
  BY <1>5 DEF WaitUnique, CanLockUnique, AwaitUnique
<1>6. ASSUME NEW t \in Threads, AcquireShared(t) PROVE LockInv'
  BY <1>6 DEF AcquireShared, CanLockShared, LockShared, Holding, Goto
<1>7. ASSUME NEW t \in Threads, ReleaseUnique(t) PROVE LockInv'
  BY <1>7 DEF ReleaseUnique, UnlockUnique, LeaveScope, Goto
<1>8. ASSUME NEW t \in Threads, ReleaseShared(t) PROVE LockInv'
  BY <1>8 DEF ReleaseShared, UnlockShared, LeaveScope, Goto
<1>9. ASSUME NEW t \in Threads, InsertItem(t) PROVE LockInv'
  BY <1>9 DEF InsertItem, MapInsert, NextKey, Goto
<1>10. ASSUME NEW t \in Threads, EraseDelete(t) PROVE LockInv'
  BY <1>10 DEF EraseDelete, Goto
<1>11. ASSUME NEW t \in Threads, EraseMissing(t) PROVE LockInv'
  BY <1>11 DEF EraseMissing, Goto
<1>12. ASSUME NEW t \in Threads, EraseKey(t) PROVE LockInv'
  BY <1>12 DEF EraseKey, Goto
<1>13. ASSUME NEW t \in Threads, CountKey(t) PROVE LockInv'
  BY <1>13 DEF CountKey, Goto
<1>14. ASSUME NEW t \in Threads, Find(t) PROVE LockInv'
  BY <1>14 DEF Find, Goto
<1>15. ASSUME NEW t \in Threads, TestAndSet(t) PROVE LockInv'
  BY <1>15 DEF TestAndSet, Goto
<1>16. ASSUME NEW t \in Threads, CallbackReturns(t) PROVE LockInv'
  BY <1>16 DEF CallbackReturns, Goto
<1>17. ASSUME NEW t \in Threads, ClearFlag(t) PROVE LockInv'
  BY <1>17 DEF ClearFlag, Goto
<1>18. ASSUME NEW t \in Threads, Throw(t) PROVE LockInv'
  BY <1>18 DEF Throw
<1> QED
  BY <1>1, <1>2, <1>3, <1>4, <1>5, <1>6, <1>7, <1>8, <1>9, <1>10, <1>11, <1>12, <1>13, <1>14, <1>15, <1>16, <1>17, <1>18 DEF Next, Step, Call, Proceed

\* Every step preserves the ownership of new and of freed nodes.
LEMMA OwnerStep ==
  ASSUME Inv, [Next]_vars
  PROVE  OwnerInv'
<1> USE DEF Inv, TypeOK, OwnerInv, LockInv, Inserters, SharedPc, ExclusivePc
<1>1. CASE UNCHANGED vars \/ Dead
  BY <1>1 DEF vars, Dead
<1>2. ASSUME NEW t \in Threads, CallInsert(t) PROVE OwnerInv'
  BY <1>2 DEF CallInsert, Argument, Goto
<1>3. ASSUME NEW t \in Threads, CallWithKey(t) PROVE OwnerInv'
  BY <1>3 DEF CallWithKey, Argument, Goto
<1>4. ASSUME NEW t \in Threads, AcquireUnique(t) PROVE OwnerInv'
  BY <1>4 DEF AcquireUnique, CanLockUnique, LockUnique, Holding, Goto
<1>5. ASSUME NEW t \in Threads, WaitUnique(t) PROVE OwnerInv'
  BY <1>5 DEF WaitUnique, CanLockUnique, AwaitUnique
<1>6. ASSUME NEW t \in Threads, AcquireShared(t) PROVE OwnerInv'
  BY <1>6 DEF AcquireShared, CanLockShared, LockShared, Holding, Goto
<1>7. ASSUME NEW t \in Threads, ReleaseUnique(t) PROVE OwnerInv'
  BY <1>7 DEF ReleaseUnique, UnlockUnique, LeaveScope, Goto
<1>8. ASSUME NEW t \in Threads, ReleaseShared(t) PROVE OwnerInv'
  BY <1>8 DEF ReleaseShared, UnlockShared, LeaveScope, Goto
<1>9. ASSUME NEW t \in Threads, InsertItem(t) PROVE OwnerInv'
  BY <1>9 DEF InsertItem, MapInsert, NextKey, Goto
<1>10. ASSUME NEW t \in Threads, EraseDelete(t) PROVE OwnerInv'
  BY <1>10 DEF EraseDelete, Goto
<1>11. ASSUME NEW t \in Threads, EraseMissing(t) PROVE OwnerInv'
  BY <1>11 DEF EraseMissing, Goto
<1>12. ASSUME NEW t \in Threads, EraseKey(t) PROVE OwnerInv'
  <2>1. \A k \in Keys : list'[k] \in {list[k], NoNode}
    BY <1>12 DEF EraseKey
  <2>2. \A u \in Inserters : node[u] # NoNode
    BY DEF NoNode
  <2>3. \A u \in Threads : pc'[u] # "freed"
    BY <1>12 DEF EraseKey, Goto
  <2> QED
    BY <1>12, <2>1, <2>2, <2>3 DEF EraseKey, Goto
<1>13. ASSUME NEW t \in Threads, CountKey(t) PROVE OwnerInv'
  BY <1>13 DEF CountKey, Goto
<1>14. ASSUME NEW t \in Threads, Find(t) PROVE OwnerInv'
  BY <1>14 DEF Find, Goto
<1>15. ASSUME NEW t \in Threads, TestAndSet(t) PROVE OwnerInv'
  BY <1>15 DEF TestAndSet, Goto
<1>16. ASSUME NEW t \in Threads, CallbackReturns(t) PROVE OwnerInv'
  BY <1>16 DEF CallbackReturns, Goto
<1>17. ASSUME NEW t \in Threads, ClearFlag(t) PROVE OwnerInv'
  BY <1>17 DEF ClearFlag, Goto
<1>18. ASSUME NEW t \in Threads, Throw(t) PROVE OwnerInv'
  BY <1>18 DEF Throw
<1> QED
  BY <1>1, <1>2, <1>3, <1>4, <1>5, <1>6, <1>7, <1>8, <1>9, <1>10, <1>11, <1>12, <1>13, <1>14, <1>15, <1>16, <1>17, <1>18 DEF Next, Step, Call, Proceed

\* Every step preserves the account of the keys given out.
LEMMA KeyStep ==
  ASSUME TypeOK, KeyInv, [Next]_vars
  PROVE  KeyInv'
<1> USE DEF TypeOK, KeyInv
<1>1. CASE UNCHANGED vars \/ Dead
  BY <1>1 DEF vars, Dead
<1>2. ASSUME NEW t \in Threads, CallInsert(t) PROVE KeyInv'
  BY <1>2 DEF CallInsert, Argument, Goto
<1>3. ASSUME NEW t \in Threads, CallWithKey(t) PROVE KeyInv'
  BY <1>3 DEF CallWithKey, Argument, Goto
<1>4. ASSUME NEW t \in Threads, AcquireUnique(t) PROVE KeyInv'
  BY <1>4 DEF AcquireUnique, CanLockUnique, LockUnique, Holding, Goto
<1>5. ASSUME NEW t \in Threads, WaitUnique(t) PROVE KeyInv'
  BY <1>5 DEF WaitUnique, CanLockUnique, AwaitUnique
<1>6. ASSUME NEW t \in Threads, AcquireShared(t) PROVE KeyInv'
  BY <1>6 DEF AcquireShared, CanLockShared, LockShared, Holding, Goto
<1>7. ASSUME NEW t \in Threads, ReleaseUnique(t) PROVE KeyInv'
  BY <1>7 DEF ReleaseUnique, UnlockUnique, LeaveScope, Goto
<1>8. ASSUME NEW t \in Threads, ReleaseShared(t) PROVE KeyInv'
  BY <1>8 DEF ReleaseShared, UnlockShared, LeaveScope, Goto
<1>9. ASSUME NEW t \in Threads, InsertItem(t) PROVE KeyInv'
  <2> HAVE Integral
  <2>1. CASE given = Keys
    BY <1>9, <2>1 DEF InsertItem, Goto
  <2>2. CASE given = 0 .. keyGenerator - 1
    <3>1. given' = 0 .. keyGenerator
      BY <1>9, <2>2, KeySpaceAssumption DEF InsertItem, Keys
    <3>2. keyGenerator' = keyGenerator + 1 \/ given' = Keys
      <4>1. CASE keyGenerator + 1 = KeySpace
        BY <4>1, <3>1, KeySpaceAssumption DEF Keys
      <4>2. CASE keyGenerator + 1 # KeySpace
        <5>1. keyGenerator + 1 \in Nat /\ keyGenerator + 1 < KeySpace
          BY <4>2, KeySpaceAssumption DEF Keys
        <5> QED BY <1>9, <5>1, ModBelow, KeySpaceAssumption DEF InsertItem, NextKey
      <4> QED BY <4>1, <4>2
    <3>3. given' = 0 .. keyGenerator' - 1 \/ given' = Keys
      BY <3>1, <3>2, KeySpaceAssumption DEF Keys
    <3>4. \A k \in Keys \ given' : list'[k] = NoNode
      BY <1>9, <3>1, KeySpaceAssumption DEF InsertItem, MapInsert, Keys
    <3> QED BY <3>3, <3>4
  <2> QED BY <2>1, <2>2
<1>10. ASSUME NEW t \in Threads, EraseDelete(t) PROVE KeyInv'
  BY <1>10 DEF EraseDelete, Goto
<1>11. ASSUME NEW t \in Threads, EraseMissing(t) PROVE KeyInv'
  BY <1>11 DEF EraseMissing, Goto
<1>12. ASSUME NEW t \in Threads, EraseKey(t) PROVE KeyInv'
  BY <1>12 DEF EraseKey, Goto
<1>13. ASSUME NEW t \in Threads, CountKey(t) PROVE KeyInv'
  BY <1>13 DEF CountKey, Goto
<1>14. ASSUME NEW t \in Threads, Find(t) PROVE KeyInv'
  BY <1>14 DEF Find, Goto
<1>15. ASSUME NEW t \in Threads, TestAndSet(t) PROVE KeyInv'
  BY <1>15 DEF TestAndSet, Goto
<1>16. ASSUME NEW t \in Threads, CallbackReturns(t) PROVE KeyInv'
  BY <1>16 DEF CallbackReturns, Goto
<1>17. ASSUME NEW t \in Threads, ClearFlag(t) PROVE KeyInv'
  BY <1>17 DEF ClearFlag, Goto
<1>18. ASSUME NEW t \in Threads, Throw(t) PROVE KeyInv'
  BY <1>18 DEF Throw
<1> QED
  BY <1>1, <1>2, <1>3, <1>4, <1>5, <1>6, <1>7, <1>8, <1>9, <1>10, <1>11, <1>12, <1>13, <1>14, <1>15, <1>16, <1>17, <1>18 DEF Next, Step, Call, Proceed

\* No step frees a node that another key or a later erase will free again.
LEMMA FreeStep ==
  ASSUME Inv, [Next]_vars
  PROVE  NoDoubleFree'
<1> USE DEF Inv, TypeOK, NoDoubleFree, OwnerInv, LockInv, Inserters, SharedPc, ExclusivePc
<1>1. CASE UNCHANGED vars \/ Dead
  BY <1>1 DEF vars, Dead
<1>2. ASSUME NEW t \in Threads, CallInsert(t) PROVE NoDoubleFree'
  BY <1>2 DEF CallInsert, Argument, Goto
<1>3. ASSUME NEW t \in Threads, CallWithKey(t) PROVE NoDoubleFree'
  BY <1>3 DEF CallWithKey, Argument, Goto
<1>4. ASSUME NEW t \in Threads, AcquireUnique(t) PROVE NoDoubleFree'
  BY <1>4 DEF AcquireUnique, CanLockUnique, LockUnique, Holding, Goto
<1>5. ASSUME NEW t \in Threads, WaitUnique(t) PROVE NoDoubleFree'
  BY <1>5 DEF WaitUnique, CanLockUnique, AwaitUnique
<1>6. ASSUME NEW t \in Threads, AcquireShared(t) PROVE NoDoubleFree'
  BY <1>6 DEF AcquireShared, CanLockShared, LockShared, Holding, Goto
<1>7. ASSUME NEW t \in Threads, ReleaseUnique(t) PROVE NoDoubleFree'
  BY <1>7 DEF ReleaseUnique, UnlockUnique, LeaveScope, Goto
<1>8. ASSUME NEW t \in Threads, ReleaseShared(t) PROVE NoDoubleFree'
  BY <1>8 DEF ReleaseShared, UnlockShared, LeaveScope, Goto
<1>9. ASSUME NEW t \in Threads, InsertItem(t) PROVE NoDoubleFree'
  BY <1>9 DEF InsertItem, MapInsert, NextKey, Goto
<1>10. ASSUME NEW t \in Threads, EraseDelete(t) PROVE NoDoubleFree'
  BY <1>10 DEF EraseDelete, Goto
<1>11. ASSUME NEW t \in Threads, EraseMissing(t) PROVE NoDoubleFree'
  BY <1>11 DEF EraseMissing, Goto
<1>12. ASSUME NEW t \in Threads, EraseKey(t) PROVE NoDoubleFree'
  BY <1>12 DEF EraseKey, Goto
<1>13. ASSUME NEW t \in Threads, CountKey(t) PROVE NoDoubleFree'
  BY <1>13 DEF CountKey, Goto
<1>14. ASSUME NEW t \in Threads, Find(t) PROVE NoDoubleFree'
  BY <1>14 DEF Find, Goto
<1>15. ASSUME NEW t \in Threads, TestAndSet(t) PROVE NoDoubleFree'
  BY <1>15 DEF TestAndSet, Goto
<1>16. ASSUME NEW t \in Threads, CallbackReturns(t) PROVE NoDoubleFree'
  BY <1>16 DEF CallbackReturns, Goto
<1>17. ASSUME NEW t \in Threads, ClearFlag(t) PROVE NoDoubleFree'
  BY <1>17 DEF ClearFlag, Goto
<1>18. ASSUME NEW t \in Threads, Throw(t) PROVE NoDoubleFree'
  BY <1>18 DEF Throw
<1> QED
  BY <1>1, <1>2, <1>3, <1>4, <1>5, <1>6, <1>7, <1>8, <1>9, <1>10, <1>11, <1>12, <1>13, <1>14, <1>15, <1>16, <1>17, <1>18 DEF Next, Step, Call, Proceed

\* No step frees or moves a node some thread is editing.
LEMMA UseStep ==
  ASSUME Inv, [Next]_vars
  PROVE  NoUseAfterFree'
<1> USE DEF Inv, TypeOK, NoUseAfterFree, LockInv, SharedPc, ExclusivePc
<1>1. CASE UNCHANGED vars \/ Dead
  BY <1>1 DEF vars, Dead
<1>2. ASSUME NEW t \in Threads, CallInsert(t) PROVE NoUseAfterFree'
  BY <1>2 DEF CallInsert, Argument, Goto
<1>3. ASSUME NEW t \in Threads, CallWithKey(t) PROVE NoUseAfterFree'
  BY <1>3 DEF CallWithKey, Argument, Goto
<1>4. ASSUME NEW t \in Threads, AcquireUnique(t) PROVE NoUseAfterFree'
  BY <1>4 DEF AcquireUnique, CanLockUnique, LockUnique, Holding, Goto
<1>5. ASSUME NEW t \in Threads, WaitUnique(t) PROVE NoUseAfterFree'
  BY <1>5 DEF WaitUnique, CanLockUnique, AwaitUnique
<1>6. ASSUME NEW t \in Threads, AcquireShared(t) PROVE NoUseAfterFree'
  BY <1>6 DEF AcquireShared, CanLockShared, LockShared, Holding, Goto
<1>7. ASSUME NEW t \in Threads, ReleaseUnique(t) PROVE NoUseAfterFree'
  BY <1>7 DEF ReleaseUnique, UnlockUnique, LeaveScope, Goto
<1>8. ASSUME NEW t \in Threads, ReleaseShared(t) PROVE NoUseAfterFree'
  BY <1>8 DEF ReleaseShared, UnlockShared, LeaveScope, Goto
<1>9. ASSUME NEW t \in Threads, InsertItem(t) PROVE NoUseAfterFree'
  BY <1>9 DEF InsertItem, MapInsert, NextKey, Goto
<1>10. ASSUME NEW t \in Threads, EraseDelete(t) PROVE NoUseAfterFree'
  BY <1>10 DEF EraseDelete, Goto
<1>11. ASSUME NEW t \in Threads, EraseMissing(t) PROVE NoUseAfterFree'
  BY <1>11 DEF EraseMissing, Goto
<1>12. ASSUME NEW t \in Threads, EraseKey(t) PROVE NoUseAfterFree'
  BY <1>12 DEF EraseKey, Goto
<1>13. ASSUME NEW t \in Threads, CountKey(t) PROVE NoUseAfterFree'
  BY <1>13 DEF CountKey, Goto
<1>14. ASSUME NEW t \in Threads, Find(t) PROVE NoUseAfterFree'
  <2>1. list[key[t]] \in heap
    BY <1>14 DEF Find, NoDoubleFree
  <2> QED
    BY <1>14, <2>1 DEF Find, Goto
<1>15. ASSUME NEW t \in Threads, TestAndSet(t) PROVE NoUseAfterFree'
  BY <1>15 DEF TestAndSet, Goto
<1>16. ASSUME NEW t \in Threads, CallbackReturns(t) PROVE NoUseAfterFree'
  BY <1>16 DEF CallbackReturns, Goto
<1>17. ASSUME NEW t \in Threads, ClearFlag(t) PROVE NoUseAfterFree'
  BY <1>17 DEF ClearFlag, Goto
<1>18. ASSUME NEW t \in Threads, Throw(t) PROVE NoUseAfterFree'
  BY <1>18 DEF Throw
<1> QED
  BY <1>1, <1>2, <1>3, <1>4, <1>5, <1>6, <1>7, <1>8, <1>9, <1>10, <1>11, <1>12, <1>13, <1>14, <1>15, <1>16, <1>17, <1>18 DEF Next, Step, Call, Proceed

\* Every step preserves the flag discipline.
LEMMA FlagStep ==
  ASSUME Inv, [Next]_vars
  PROVE  FlagDiscipline'
<1> USE DEF Inv, TypeOK, FlagDiscipline, NoUseAfterFree, OwnerInv, LockInv, Editors, Inserters, SharedPc, ExclusivePc
<1>1. CASE UNCHANGED vars \/ Dead
  BY <1>1 DEF vars, Dead
<1>2. ASSUME NEW t \in Threads, CallInsert(t) PROVE FlagDiscipline'
  BY <1>2 DEF CallInsert, Argument, Goto
<1>3. ASSUME NEW t \in Threads, CallWithKey(t) PROVE FlagDiscipline'
  BY <1>3 DEF CallWithKey, Argument, Goto
<1>4. ASSUME NEW t \in Threads, AcquireUnique(t) PROVE FlagDiscipline'
  BY <1>4 DEF AcquireUnique, CanLockUnique, LockUnique, Holding, Goto
<1>5. ASSUME NEW t \in Threads, WaitUnique(t) PROVE FlagDiscipline'
  BY <1>5 DEF WaitUnique, CanLockUnique, AwaitUnique
<1>6. ASSUME NEW t \in Threads, AcquireShared(t) PROVE FlagDiscipline'
  BY <1>6 DEF AcquireShared, CanLockShared, LockShared, Holding, Goto
<1>7. ASSUME NEW t \in Threads, ReleaseUnique(t) PROVE FlagDiscipline'
  BY <1>7 DEF ReleaseUnique, UnlockUnique, LeaveScope, Goto
<1>8. ASSUME NEW t \in Threads, ReleaseShared(t) PROVE FlagDiscipline'
  BY <1>8 DEF ReleaseShared, UnlockShared, LeaveScope, Goto
<1>9. ASSUME NEW t \in Threads, InsertItem(t) PROVE FlagDiscipline'
  <2>1. Editors = {} /\ Editors' = {}
    BY <1>9 DEF InsertItem, Goto
  <2>2. node[t] \in Nodes
    BY <1>9, MaxNodesAssumption DEF InsertItem, Nodes
  <2>3. ASSUME NEW k \in Keys, list'[k] # NoNode PROVE ~flag'[list'[k]]
    <3>1. CASE list'[k] = node[t]
      BY <1>9, <3>1, <2>2 DEF InsertItem
    <3>2. CASE list'[k] # node[t]
      <4>1. list'[k] = list[k]
        BY <1>9, <3>2 DEF InsertItem, MapInsert
      <4>2. list[k] \in Nodes
        BY <4>1, <2>3, MaxNodesAssumption DEF Nodes, NoNode
      <4> QED BY <1>9, <4>1, <4>2, <3>2, <2>1, <2>3 DEF InsertItem
    <3> QED BY <3>1, <3>2
  <2> QED BY <2>1, <2>3
<1>10. ASSUME NEW t \in Threads, EraseDelete(t) PROVE FlagDiscipline'
  BY <1>10 DEF EraseDelete, Goto
<1>11. ASSUME NEW t \in Threads, EraseMissing(t) PROVE FlagDiscipline'
  BY <1>11 DEF EraseMissing, Goto
<1>12. ASSUME NEW t \in Threads, EraseKey(t) PROVE FlagDiscipline'
  BY <1>12 DEF EraseKey, Goto
<1>13. ASSUME NEW t \in Threads, CountKey(t) PROVE FlagDiscipline'
  BY <1>13 DEF CountKey, Goto
<1>14. ASSUME NEW t \in Threads, Find(t) PROVE FlagDiscipline'
  BY <1>14 DEF Find, Goto
<1>15. ASSUME NEW t \in Threads, TestAndSet(t) PROVE FlagDiscipline'
  <2>1. node[t] \in Nodes
    BY <1>15, MaxNodesAssumption DEF TestAndSet, Nodes
  <2>2. Editors' = Editors \cup {t} /\ node' = node /\ list' = list
    BY <1>15 DEF TestAndSet, Goto
  <2>3. \A u \in Editors : node[u] # node[t]
    <3>1. key[t] \in Keys /\ list[key[t]] = node[t] /\ node[t] # NoNode
      BY <1>15, <2>1 DEF TestAndSet, Nodes, NoNode
    <3>2. ~flag[node[t]]
      BY <1>15 DEF TestAndSet
    <3> QED BY <3>1, <3>2
  <2>4. \A k \in Keys : list[k] # NoNode => list[k] \in Nodes
    BY MaxNodesAssumption DEF Nodes, NoNode
  <2>5. \A n \in Nodes : flag'[n] = IF n = node[t] THEN TRUE ELSE flag[n]
    BY <1>15, <2>1 DEF TestAndSet
  <2>6. \A k \in Keys : list'[k] # NoNode =>
           (flag'[list'[k]] <=> \E u \in Editors' : node'[u] = list'[k])
    <3> TAKE k \in Keys
    <3> HAVE list'[k] # NoNode
    <3>1. flag[list[k]] <=> \E u \in Editors : node[u] = list[k]
      BY <2>2
    <3>2. flag'[list[k]] <=> (list[k] = node[t] \/ flag[list[k]])
      BY <2>2, <2>4, <2>5
    <3> HIDE DEF Editors
    <3> QED BY <2>2, <3>1, <3>2
  <2> QED BY <2>2, <2>3, <2>6
<1>16. ASSUME NEW t \in Threads, CallbackReturns(t) PROVE FlagDiscipline'
  BY <1>16 DEF CallbackReturns, Goto
<1>17. ASSUME NEW t \in Threads, ClearFlag(t) PROVE FlagDiscipline'
  <2>1. node[t] \in Nodes /\ t \in Editors
    BY <1>17, MaxNodesAssumption DEF ClearFlag, Nodes
  <2>2. Editors' = Editors \ {t} /\ node' = node /\ list' = list
    BY <1>17 DEF ClearFlag, Goto
  <2>3. \A k \in Keys : list[k] # NoNode => list[k] \in Nodes
    BY MaxNodesAssumption DEF Nodes, NoNode
  <2>4. \A n \in Nodes : flag'[n] = IF n = node[t] THEN FALSE ELSE flag[n]
    BY <1>17, <2>1 DEF ClearFlag
  <2>5. \A u \in Editors : node[u] = node[t] => u = t
    BY <2>1
  <2>6. \A k \in Keys : list'[k] # NoNode =>
           (flag'[list'[k]] <=> \E u \in Editors' : node'[u] = list'[k])
    <3> TAKE k \in Keys
    <3> HAVE list'[k] # NoNode
    <3>1. flag[list[k]] <=> \E u \in Editors : node[u] = list[k]
      BY <2>2
    <3>2. flag'[list[k]] <=> (list[k] # node[t] /\ flag[list[k]])
      BY <2>2, <2>3, <2>4
    <3> HIDE DEF Editors
    <3> QED BY <2>1, <2>2, <2>5, <3>1, <3>2
  <2> QED BY <2>2, <2>6
<1>18. ASSUME NEW t \in Threads, Throw(t) PROVE FlagDiscipline'
  BY <1>18 DEF Throw
<1> QED
  BY <1>1, <1>2, <1>3, <1>4, <1>5, <1>6, <1>7, <1>8, <1>9, <1>10, <1>11, <1>12, <1>13, <1>14, <1>15, <1>16, <1>17, <1>18 DEF Next, Step, Call, Proceed

\* No step changes an item under another thread's callback.
LEMMA UpdateStep ==
  ASSUME Inv, [Next]_vars
  PROVE  NoLostUpdate'
<1> USE DEF Inv, TypeOK, NoLostUpdate, FlagDiscipline, NoUseAfterFree, OwnerInv, LockInv, Editors, Inserters, SharedPc, ExclusivePc
<1>1. CASE UNCHANGED vars \/ Dead
  BY <1>1 DEF vars, Dead
<1>2. ASSUME NEW t \in Threads, CallInsert(t) PROVE NoLostUpdate'
  BY <1>2 DEF CallInsert, Argument, Goto
<1>3. ASSUME NEW t \in Threads, CallWithKey(t) PROVE NoLostUpdate'
  BY <1>3 DEF CallWithKey, Argument, Goto
<1>4. ASSUME NEW t \in Threads, AcquireUnique(t) PROVE NoLostUpdate'
  BY <1>4 DEF AcquireUnique, CanLockUnique, LockUnique, Holding, Goto
<1>5. ASSUME NEW t \in Threads, WaitUnique(t) PROVE NoLostUpdate'
  BY <1>5 DEF WaitUnique, CanLockUnique, AwaitUnique
<1>6. ASSUME NEW t \in Threads, AcquireShared(t) PROVE NoLostUpdate'
  BY <1>6 DEF AcquireShared, CanLockShared, LockShared, Holding, Goto
<1>7. ASSUME NEW t \in Threads, ReleaseUnique(t) PROVE NoLostUpdate'
  BY <1>7 DEF ReleaseUnique, UnlockUnique, LeaveScope, Goto
<1>8. ASSUME NEW t \in Threads, ReleaseShared(t) PROVE NoLostUpdate'
  BY <1>8 DEF ReleaseShared, UnlockShared, LeaveScope, Goto
<1>9. ASSUME NEW t \in Threads, InsertItem(t) PROVE NoLostUpdate'
  BY <1>9 DEF InsertItem, MapInsert, NextKey, Goto
<1>10. ASSUME NEW t \in Threads, EraseDelete(t) PROVE NoLostUpdate'
  BY <1>10 DEF EraseDelete, Goto
<1>11. ASSUME NEW t \in Threads, EraseMissing(t) PROVE NoLostUpdate'
  BY <1>11 DEF EraseMissing, Goto
<1>12. ASSUME NEW t \in Threads, EraseKey(t) PROVE NoLostUpdate'
  BY <1>12 DEF EraseKey, Goto
<1>13. ASSUME NEW t \in Threads, CountKey(t) PROVE NoLostUpdate'
  BY <1>13 DEF CountKey, Goto
<1>14. ASSUME NEW t \in Threads, Find(t) PROVE NoLostUpdate'
  BY <1>14 DEF Find, Goto
<1>15. ASSUME NEW t \in Threads, TestAndSet(t) PROVE NoLostUpdate'
  BY <1>15 DEF TestAndSet, Goto
<1>16. ASSUME NEW t \in Threads, CallbackReturns(t) PROVE NoLostUpdate'
  BY <1>16 DEF CallbackReturns, Goto
<1>17. ASSUME NEW t \in Threads, ClearFlag(t) PROVE NoLostUpdate'
  BY <1>17 DEF ClearFlag, Goto
<1>18. ASSUME NEW t \in Threads, Throw(t) PROVE NoLostUpdate'
  BY <1>18 DEF Throw
<1> QED
  BY <1>1, <1>2, <1>3, <1>4, <1>5, <1>6, <1>7, <1>8, <1>9, <1>10, <1>11, <1>12, <1>13, <1>14, <1>15, <1>16, <1>17, <1>18 DEF Next, Step, Call, Proceed

\* Until the generator wraps, no step loses track of an allocated node.
LEMMA LeakStep ==
  ASSUME Inv, [Next]_vars
  PROVE  NoLeakUntilWrap'
<1> USE DEF Inv, TypeOK, NoLeakUntilWrap, OwnerInv, KeyInv, Inserters
<1>1. CASE UNCHANGED vars \/ Dead
  BY <1>1 DEF vars, Dead
<1>2. ASSUME NEW t \in Threads, CallInsert(t) PROVE NoLeakUntilWrap'
  <2>1. node'[t] = made + 1 /\ pc'[t] = "insert" /\ heap' = heap \cup {made + 1}
    BY <1>2 DEF CallInsert, Goto
  <2>2. \A u \in Inserters : u # t /\ node'[u] = node[u] /\ pc'[u] = pc[u]
    BY <1>2 DEF CallInsert, Goto
  <2> QED BY <1>2, <2>1, <2>2 DEF CallInsert
<1>3. ASSUME NEW t \in Threads, CallWithKey(t) PROVE NoLeakUntilWrap'
  BY <1>3 DEF CallWithKey, Argument, Goto
<1>4. ASSUME NEW t \in Threads, AcquireUnique(t) PROVE NoLeakUntilWrap'
  <2>1. Inserters' = Inserters
    BY <1>4 DEF AcquireUnique, Holding, Goto
  <2> QED BY <1>4, <2>1 DEF AcquireUnique
<1>5. ASSUME NEW t \in Threads, WaitUnique(t) PROVE NoLeakUntilWrap'
  BY <1>5 DEF WaitUnique, CanLockUnique, AwaitUnique
<1>6. ASSUME NEW t \in Threads, AcquireShared(t) PROVE NoLeakUntilWrap'
  BY <1>6 DEF AcquireShared, CanLockShared, LockShared, Holding, Goto
<1>7. ASSUME NEW t \in Threads, ReleaseUnique(t) PROVE NoLeakUntilWrap'
  BY <1>7 DEF ReleaseUnique, UnlockUnique, LeaveScope, Goto
<1>8. ASSUME NEW t \in Threads, ReleaseShared(t) PROVE NoLeakUntilWrap'
  BY <1>8 DEF ReleaseShared, UnlockShared, LeaveScope, Goto
<1>9. ASSUME NEW t \in Threads, InsertItem(t) PROVE NoLeakUntilWrap'
  <2> HAVE Integral /\ given' # Keys
  <2>1. given # Keys /\ keyGenerator \notin given
    BY <1>9, KeySpaceAssumption DEF InsertItem, Keys
  <2>2. list' = [list EXCEPT ![keyGenerator] = node[t]] /\ list[keyGenerator] = NoNode
    BY <1>9, <2>1 DEF InsertItem, MapInsert
  <2>3. list'[keyGenerator] = node[t]
    BY <2>2
  <2>4. \A k \in Keys : list[k] # NoNode => list'[k] = list[k]
    BY <2>2
  <2>5. \A n \in heap : n # NoNode
    BY DEF NoNode
  <2>6. \A u \in Inserters \ {t} : u \in Inserters' /\ node'[u] = node[u]
    BY <1>9 DEF InsertItem, Goto
  <2>7. heap' = heap
    BY <1>9 DEF InsertItem
  <2>8. \A n \in heap : (\E k \in Keys : list[k] = n) \/ (\E u \in Inserters : node[u] = n)
    BY <2>1
  <2>9. \A n \in heap : (\E k \in Keys : list'[k] = n) \/ (\E u \in Inserters' : node'[u] = n)
    <3> TAKE n \in heap
    <3>1. CASE \E k \in Keys : list[k] = n
      BY <3>1, <2>4, <2>5
    <3>2. CASE \E u \in Inserters : node[u] = n
      <4>1. PICK u \in Inserters : node[u] = n
        BY <3>2
      <4>2. CASE u = t
        BY <4>1, <4>2, <2>3
      <4>3. CASE u # t
        BY <4>1, <4>3, <2>6
      <4> QED BY <4>2, <4>3
    <3> QED BY <3>1, <3>2, <2>8
  <2> QED BY <2>7, <2>9
<1>10. ASSUME NEW t \in Threads, EraseDelete(t) PROVE NoLeakUntilWrap'
  BY <1>10 DEF EraseDelete, Goto
<1>11. ASSUME NEW t \in Threads, EraseMissing(t) PROVE NoLeakUntilWrap'
  BY <1>11 DEF EraseMissing, Goto
<1>12. ASSUME NEW t \in Threads, EraseKey(t) PROVE NoLeakUntilWrap'
  <2>1. Inserters' = Inserters /\ node' = node /\ heap' = heap /\ given' = given
    BY <1>12 DEF EraseKey, Goto
  <2>2. \A k \in Keys : list[k] \in heap => list'[k] = list[k]
    BY <1>12 DEF EraseKey
  <2>3. Integral /\ given # Keys =>
          \A n \in heap : (\E k \in Keys : list[k] = n) \/ (\E u \in Inserters : node[u] = n)
    OBVIOUS
  <2>4. Integral /\ given # Keys =>
          \A n \in heap : (\E k \in Keys : list'[k] = n) \/ (\E u \in Inserters : node[u] = n)
    <3> HAVE Integral /\ given # Keys
    <3> TAKE n \in heap
    <3>1. CASE \E k \in Keys : list[k] = n
      BY <3>1, <2>2
    <3> QED BY <3>1, <2>3
  <2> QED BY <2>1, <2>4
<1>13. ASSUME NEW t \in Threads, CountKey(t) PROVE NoLeakUntilWrap'
  BY <1>13 DEF CountKey, Goto
<1>14. ASSUME NEW t \in Threads, Find(t) PROVE NoLeakUntilWrap'
  BY <1>14 DEF Find, Goto
<1>15. ASSUME NEW t \in Threads, TestAndSet(t) PROVE NoLeakUntilWrap'
  BY <1>15 DEF TestAndSet, Goto
<1>16. ASSUME NEW t \in Threads, CallbackReturns(t) PROVE NoLeakUntilWrap'
  BY <1>16 DEF CallbackReturns, Goto
<1>17. ASSUME NEW t \in Threads, ClearFlag(t) PROVE NoLeakUntilWrap'
  BY <1>17 DEF ClearFlag, Goto
<1>18. ASSUME NEW t \in Threads, Throw(t) PROVE NoLeakUntilWrap'
  BY <1>18 DEF Throw
<1> QED
  BY <1>1, <1>2, <1>3, <1>4, <1>5, <1>6, <1>7, <1>8, <1>9, <1>10, <1>11, <1>12, <1>13, <1>14, <1>15, <1>16, <1>17, <1>18 DEF Next, Step, Call, Proceed

\* The initial states satisfy the invariant.
LEMMA InitInv == Init => Inv
<1> SUFFICES ASSUME Init PROVE Inv
  OBVIOUS
<1> USE DEF Init
<1>1. TypeOK
  BY KeySpaceAssumption, MaxNodesAssumption, BlankIsValue
     DEF TypeOK, Unlocked, MutexType, Keys, Pcs, NoNode
<1>2. LockInv
  BY DEF LockInv, Unlocked, SharedPc, ExclusivePc
<1>3. KeyInv
  BY DEF KeyInv, Keys
<1>4. OwnerInv /\ NoDoubleFree /\ NoUseAfterFree
  BY DEF OwnerInv, Inserters, NoDoubleFree, NoUseAfterFree
<1>5. FlagDiscipline /\ NoLostUpdate /\ NoLeakUntilWrap
  BY DEF FlagDiscipline, Editors, NoLostUpdate, NoLeakUntilWrap
<1> QED
  BY <1>1, <1>2, <1>3, <1>4, <1>5 DEF Inv

\* Inv holds in every reachable state, for any number of threads, keys and
\* items: it holds initially, and each conjunct is preserved by every step.
THEOREM Invariance == Spec => []Inv
<1>1. ASSUME Inv, [Next]_vars PROVE Inv'
  <2>1. TypeOK' /\ LockInv' /\ KeyInv'
    BY <1>1, TypeStep, LockStep, KeyStep DEF Inv
  <2>2. OwnerInv' /\ NoDoubleFree' /\ NoUseAfterFree'
    BY <1>1, OwnerStep, FreeStep, UseStep
  <2>3. FlagDiscipline' /\ NoLostUpdate' /\ NoLeakUntilWrap'
    BY <1>1, FlagStep, UpdateStep, LeakStep
  <2> QED
    BY <2>1, <2>2, <2>3 DEF Inv
<1> QED
  BY <1>1, InitInv, PTL DEF Spec

\* The variables stay in their types: no thread ever runs off the labels of the
\* operations, and no node number is used before the node is made.
THEOREM TypeCorrect == Spec => []TypeOK
<1>1. Inv => TypeOK
  BY DEF Inv
<1> QED
  BY <1>1, Invariance, PTL

\* While one thread is inside insert or erase, no other is inside any
\* operation of the list (the class comment of ms_container).
THEOREM Exclusion == Spec => []ListExclusion
<1>1. Inv => ListExclusion
  BY DEF Inv, LockInv, ListExclusion, SharedPc, ExclusivePc
<1> QED
  BY <1>1, Invariance, PTL

\* edit_item never spins on the flag of, nor runs its callback on, an item that
\* another thread's erase has deleted.
THEOREM UseIsSafe == Spec => []NoUseAfterFree
<1>1. Inv => NoUseAfterFree
  BY DEF Inv
<1> QED
  BY <1>1, Invariance, PTL

\* Callbacks on one item exclude each other, and a set flag always has a
\* callback behind it: nobody spins on a flag that no one will clear.
THEOREM FlagsAreOwned == Spec => []FlagDiscipline
<1>1. Inv => FlagDiscipline
  BY DEF Inv
<1> QED
  BY <1>1, Invariance, PTL

\* No callback's update of an item is overwritten by one that did not see it.
THEOREM UpdatesAreKept == Spec => []NoLostUpdate
<1>1. Inv => NoLostUpdate
  BY DEF Inv
<1> QED
  BY <1>1, Invariance, PTL

\* erase deletes every node at most once.
THEOREM FreesAreSingle == Spec => []NoDoubleFree
<1>1. Inv => NoDoubleFree
  BY DEF Inv
<1> QED
  BY <1>1, Invariance, PTL

\* Until all 2^64 keys are used up, insert leaks nothing.
THEOREM NothingLeaks == Spec => []NoLeakUntilWrap
<1>1. Inv => NoLeakUntilWrap
  BY DEF Inv
<1> QED
  BY <1>1, Invariance, PTL

\* A key that was given out never gets a second item before the generator wraps.
THEOREM KeysAreFresh == Spec => KeysNotReused
<1>1. ASSUME Inv, [Next]_vars
      PROVE  [Integral /\ given # Keys =>
                \A k \in given : list'[k] \in {list[k], NoNode}]_vars
  <2> SUFFICES ASSUME Integral, given # Keys, NEW k \in given
               PROVE  list'[k] \in {list[k], NoNode}
    OBVIOUS
  <2> USE <1>1 DEF Inv, TypeOK
  <2>1. CASE UNCHANGED list
    BY <2>1
  <2>2. ASSUME NEW t \in Threads, InsertItem(t) PROVE list'[k] = list[k]
    <3>1. keyGenerator \notin given
      BY <1>1, KeySpaceAssumption DEF KeyInv, Keys
    <3> QED
      BY <2>2, <3>1 DEF InsertItem, MapInsert
  <2>3. ASSUME NEW t \in Threads, EraseKey(t) PROVE list'[k] \in {list[k], NoNode}
    BY <2>3 DEF EraseKey
  <2>4. UNCHANGED list \/ \E t \in Threads : InsertItem(t) \/ EraseKey(t)
    BY <1>1 DEF Next, Step, Call, Proceed, Dead, vars, CallInsert, CallWithKey,
                AcquireUnique, WaitUnique, AcquireShared, ReleaseUnique,
                ReleaseShared, EraseDelete, EraseMissing, CountKey, Find,
                TestAndSet, CallbackReturns, ClearFlag, Throw
  <2> QED
    BY <2>1, <2>2, <2>3, <2>4
<1> QED
  BY <1>1, Invariance, PTL DEF Spec, KeysNotReused

-----------------------------------------------------------------------------
(* Refinement.                                                               *)

\* A step that moves a thread between labels of one request, and changes
\* neither the list, the items, the keys nor a result, is a stutter.
LEMMA Stutter ==
  ASSUME TypeOK, NEW t \in Threads, NEW to \in Pcs,
         Goto(t, to), RequestAt[to] = RequestAt[pc[t]],
         UNCHANGED <<list, value, given, key, ret>>
  PROVE  UNCHANGED Abstract!vars
<1>1. Contents' = Contents
  BY DEF Contents
<1>2. Requests' = Requests
  BY DEF Requests, Goto, TypeOK
<1> QED
  BY <1>1, <1>2 DEF Abstract!vars

\* How a step from label to label shows in the requests of the abstract map.
LEMMA RequestMoves ==
  ASSUME TypeOK, NEW t \in Threads, NEW to \in Pcs, Goto(t, to)
  PROVE  Requests' = [Requests EXCEPT ![t] = RequestAt[to]]
  BY DEF Requests, Goto, TypeOK

\* What each thread asks of the abstract map is read off its label.
LEMMA RequestOf ==
  ASSUME NEW t \in Threads
  PROVE  Requests[t] = RequestAt[pc[t]]
  BY DEF Requests

\* Every step of the container is a step of the atomic map, or a stutter.
LEMMA RefinementStep ==
  ASSUME Inv, [Next]_vars
  PROVE  [Abstract!Next]_(Abstract!vars)
<1> USE DEF Inv, TypeOK, RequestAt
<1>0. Keys = Abstract!Keys /\ Abstract!Absent = {}
  BY DEF Keys, Abstract!Keys, Abstract!Absent
<1>1. CASE UNCHANGED vars \/ Dead
  BY <1>1 DEF vars, Dead, Abstract!vars, Contents, Requests
<1>2. ASSUME NEW t \in Threads, CallInsert(t) PROVE Abstract!Call(t)
  <2>1. Contents' = Contents
    <3>1. ASSUME NEW k \in Keys, list[k] # NoNode PROVE value'[list[k]] = value[list[k]]
      <4>1. list[k] \in Nodes /\ list[k] # made + 1
        BY <3>1, MaxNodesAssumption DEF Nodes, NoNode
      <4> QED BY <1>2, <4>1 DEF CallInsert
    <3> QED
      BY <1>2, <3>1 DEF CallInsert, Contents
  <2>2. Requests' = [Requests EXCEPT ![t] = "insert"] /\ Requests[t] = "idle"
    BY <1>2, RequestMoves, RequestOf DEF CallInsert, Pcs, WaitingPc
  <2>3. \E k \in Keys : key' = [key EXCEPT ![t] = k]
    BY <1>2 DEF CallInsert, Argument
  <2> QED
    BY <1>0, <1>2, <2>1, <2>2, <2>3 DEF Abstract!Call, Abstract!Ops, CallInsert
<1>3. ASSUME NEW t \in Threads, CallWithKey(t) PROVE Abstract!Call(t)
  <2>1. Contents' = Contents
    BY <1>3 DEF CallWithKey, Contents
  <2>2. PICK o \in {"erase", "count", "edit"} : Goto(t, o)
    BY <1>3 DEF CallWithKey
  <2>3. Requests' = [Requests EXCEPT ![t] = o] /\ Requests[t] = "idle"
    BY <1>3, <2>2, RequestMoves, RequestOf DEF CallWithKey, Pcs, WaitingPc
  <2> QED
    BY <1>0, <1>3, <2>1, <2>3 DEF Abstract!Call, Abstract!Ops, CallWithKey, Argument
<1>4. ASSUME NEW t \in Threads,
             AcquireUnique(t) \/ AcquireShared(t) \/ EraseDelete(t)
               \/ Find(t) \/ TestAndSet(t) \/ ClearFlag(t)
      PROVE  UNCHANGED Abstract!vars
  <2>1. CASE AcquireUnique(t)
    BY <2>1, Stutter DEF AcquireUnique, Holding, Pcs, ExclusivePc
  <2>2. CASE AcquireShared(t)
    BY <2>2, Stutter DEF AcquireShared, Holding, Pcs, SharedPc
  <2>3. CASE EraseDelete(t)
    BY <2>3, Stutter DEF EraseDelete, Pcs, ExclusivePc
  <2>4. CASE Find(t)
    BY <2>4, Stutter DEF Find, Pcs, SharedPc
  <2>5. CASE TestAndSet(t)
    BY <2>5, Stutter DEF TestAndSet, Pcs, SharedPc
  <2>6. CASE ClearFlag(t)
    BY <2>6, Stutter DEF ClearFlag, Pcs, SharedPc
  <2> QED
    BY <1>4, <2>1, <2>2, <2>3, <2>4, <2>5, <2>6
<1>5. ASSUME NEW t \in Threads, WaitUnique(t) \/ Throw(t)
      PROVE  UNCHANGED Abstract!vars
  BY <1>5 DEF WaitUnique, Throw, Abstract!vars, Contents, Requests
<1>6. ASSUME NEW t \in Threads, ReleaseUnique(t) \/ ReleaseShared(t)
      PROVE  Abstract!Return(t)
  <2>1. Contents' = Contents
    BY <1>6 DEF ReleaseUnique, ReleaseShared, Contents
  <2>2. Requests' = [Requests EXCEPT ![t] = "idle"] /\ Requests[t] = "done"
    BY <1>6, RequestMoves, RequestOf DEF ReleaseUnique, ReleaseShared, LeaveScope, Pcs
  <2> QED
    BY <1>6, <2>1, <2>2 DEF Abstract!Return, ReleaseUnique, ReleaseShared
<1>7. ASSUME NEW t \in Threads, InsertItem(t)
      PROVE  \E k \in Abstract!Keys, v \in Values : Abstract!Insert(t, k, v)
  <2> DEFINE k == IF Integral THEN keyGenerator ELSE key[t]
  <2>1. node[t] \in Nodes /\ node[t] # NoNode
    BY <1>7, MaxNodesAssumption DEF InsertItem, OwnerInv, Inserters, Nodes, NoNode
  <2>2. k \in Keys /\ value[node[t]] \in Values
    BY <2>1
  <2>3. Requests' = [Requests EXCEPT ![t] = "done"] /\ Requests[t] = "insert"
    BY <1>7, RequestMoves, RequestOf DEF InsertItem, Pcs, ExclusivePc
  <2>4. Integral => given = Keys \/ k \notin given
    BY KeySpaceAssumption DEF KeyInv, Keys
  <2>5. (Contents[k] = {}) <=> (list[k] = NoNode)
    BY <2>2 DEF Contents
  <2>6. list' = IF list[k] = NoNode THEN [list EXCEPT ![k] = node[t]] ELSE list
    BY <1>7 DEF InsertItem, MapInsert
  <2>7. Contents' = IF list[k] = NoNode THEN [Contents EXCEPT ![k] = {value[node[t]]}]
                                        ELSE Contents
    <3>1. CASE list[k] = NoNode
      <4>1. \A j \in Keys : list'[j] = IF j = k THEN node[t] ELSE list[j]
        BY <2>2, <2>6, <3>1
      <4>2. value' = value
        BY <1>7 DEF InsertItem
      <4> HIDE DEF k
      <4>3. \A j \in Keys : Contents'[j] = IF j = k THEN {value[node[t]]} ELSE Contents[j]
        BY <2>1, <2>2, <4>1, <4>2 DEF Contents
      <4>4. /\ Contents' = [j \in Keys |-> Contents'[j]]
            /\ Contents = [j \in Keys |-> Contents[j]]
        BY DEF Contents
      <4>5. Contents' = [Contents EXCEPT ![k] = {value[node[t]]}]
        BY <4>3, <4>4
      <4> QED BY <3>1, <4>5
    <3>2. CASE list[k] # NoNode
      BY <1>7, <2>6, <3>2 DEF InsertItem, Contents
    <3> QED BY <3>1, <3>2
  <2>8. /\ ret' = [ret EXCEPT ![t] = list[k] = NoNode]
        /\ key' = [key EXCEPT ![t] = k]
        /\ given' = IF Integral THEN given \cup {k} ELSE given
    BY <1>7 DEF InsertItem
  <2>9. Abstract!Insert(t, k, value[node[t]])
    BY <1>0, <2>3, <2>4, <2>5, <2>7, <2>8 DEF Abstract!Insert
  <2> QED
    BY <1>0, <2>2, <2>9
<1>8. ASSUME NEW t \in Threads, EraseMissing(t)
      PROVE  Abstract!Erase(t) \/ UNCHANGED Abstract!vars
  <2>1. CASE alive' = FALSE /\ UNCHANGED <<pc, ret>>
    BY <1>8, <2>1 DEF EraseMissing, Abstract!vars, Contents, Requests
  <2>2. CASE Goto(t, "endUnique") /\ ret' = [ret EXCEPT ![t] = FALSE]
    <3>1. Contents' = Contents /\ Contents[key[t]] = {}
      BY <1>8 DEF EraseMissing, Contents
    <3>2. Contents' = [Contents EXCEPT ![key[t]] = {}]
      BY <3>1 DEF Contents
    <3>3. Requests' = [Requests EXCEPT ![t] = "done"] /\ Requests[t] = "erase"
      BY <1>8, <2>2, RequestMoves, RequestOf DEF EraseMissing, Pcs, ExclusivePc
    <3> QED
      BY <1>0, <1>8, <2>2, <3>1, <3>2, <3>3 DEF Abstract!Erase, EraseMissing
  <2> QED
    BY <1>8, <2>1, <2>2 DEF EraseMissing
<1>9. ASSUME NEW t \in Threads, EraseKey(t) PROVE Abstract!Erase(t)
  <2>1. \A k \in Keys : k # key[t] /\ list[k] # NoNode => list[k] # list[key[t]]
    BY DEF NoDoubleFree
  <2>2. Contents' = [Contents EXCEPT ![key[t]] = {}]
    <3>1. \A k \in Keys : list'[k] = IF k = key[t] THEN NoNode ELSE list[k]
      BY <1>9 DEF EraseKey
    <3>2. ASSUME NEW k \in Keys, k # key[t], list[k] # NoNode
          PROVE  value'[list[k]] = value[list[k]]
      <4>1. list[k] \in Nodes
        BY <3>2, MaxNodesAssumption DEF Nodes, NoNode
      <4> QED BY <1>9, <2>1, <3>2, <4>1 DEF EraseKey
    <3> QED BY <3>1, <3>2, ZenonT(40) DEF Contents
  <2>3. Contents[key[t]] # {}
    BY <1>9 DEF EraseKey, OwnerInv, Contents
  <2>4. Requests' = [Requests EXCEPT ![t] = "done"] /\ Requests[t] = "erase"
    BY <1>9, RequestMoves, RequestOf DEF EraseKey, Pcs, ExclusivePc
  <2> QED
    BY <1>0, <1>9, <2>2, <2>3, <2>4 DEF Abstract!Erase, EraseKey
<1>10. ASSUME NEW t \in Threads, CountKey(t) PROVE Abstract!Count(t)
  <2>1. Contents' = Contents /\ ((Contents[key[t]] # {}) <=> (list[key[t]] # NoNode))
    BY <1>10 DEF CountKey, Contents
  <2>2. Requests' = [Requests EXCEPT ![t] = "done"] /\ Requests[t] = "count"
    BY <1>10, RequestMoves, RequestOf DEF CountKey, Pcs, SharedPc
  <2> QED
    BY <1>0, <1>10, <2>1, <2>2 DEF Abstract!Count, CountKey
<1>11. ASSUME NEW t \in Threads, CallbackReturns(t)
       PROVE  \E v \in Values : Abstract!Edit(t, v)
  <2>1. PICK v \in Values : value' = [value EXCEPT ![node[t]] = v]
    BY <1>11 DEF CallbackReturns
  <2>2. list[key[t]] = node[t] /\ node[t] \in Nodes /\ node[t] # NoNode
    BY <1>11, MaxNodesAssumption DEF CallbackReturns, NoUseAfterFree, Nodes, NoNode
  <2>3. \A k \in Keys : k # key[t] /\ list[k] # NoNode => list[k] # node[t]
    BY <2>2 DEF NoDoubleFree
  <2>4. Contents' = [Contents EXCEPT ![key[t]] = {v}] /\ Contents[key[t]] # {}
    <3>1. list' = list
      BY <1>11 DEF CallbackReturns
    <3>2. ASSUME NEW k \in Keys, list[k] # NoNode
          PROVE  value'[list[k]] = IF k = key[t] THEN v ELSE value[list[k]]
      <4>1. list[k] \in Nodes
        BY <3>2, MaxNodesAssumption DEF Nodes, NoNode
      <4> QED BY <2>1, <2>2, <2>3, <3>2, <4>1
    <3> QED BY <2>2, <3>1, <3>2 DEF Contents
  <2>5. Requests' = [Requests EXCEPT ![t] = "done"] /\ Requests[t] = "edit"
    BY <1>11, RequestMoves, RequestOf DEF CallbackReturns, Pcs, SharedPc
  <2>6. Abstract!Edit(t, v)
    BY <1>0, <1>11, <2>4, <2>5 DEF Abstract!Edit, CallbackReturns
  <2> QED
    BY <2>6
<1> QED
  BY <1>1, <1>2, <1>3, <1>4, <1>5, <1>6, <1>7, <1>8, <1>9, <1>10, <1>11
     DEF Next, Step, Call, Proceed, Abstract!Next

\* The container implements the atomic map ItemMap, for every number of
\* threads, keys, values and items.
THEOREM Refinement == Spec => AtomicMap
<1>1. Init => Abstract!Init
  BY KeySpaceAssumption DEF Init, Abstract!Init, Contents, Requests, RequestAt, Keys,
     Abstract!Keys, Abstract!Absent
<1> QED
  BY <1>1, RefinementStep, Invariance, PTL DEF Spec, AtomicMap, Abstract!Spec
=============================================================================
