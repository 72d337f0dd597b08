---------------------------- MODULE UniverseProofs ----------------------------
(* Proofs about Universe for every number of workers, dialects and objects.   *)
EXTENDS Universe, FiniteSetTheorems, TLAPS

LEMMA BoundsAreNat ==
  MaxSystems \in Nat /\ MaxStates \in Nat /\ MaxKernels \in Nat /\ MaxMacros \in Nat
  BY BoundsAssumption

\* The names of the lists are different.
LEMMA ListNames ==
  /\ <<"systems">> \in Lists /\ <<"interpreters">> \in Lists /\ <<"kernels">> \in Lists
  /\ \A s \in SystemIds : <<"states", s>> \in Lists
  /\ \A k \in KernelIds : <<"macros", k>> \in Lists
  BY DEF Lists, TopLists

LEMMA ListsDiffer ==
  /\ <<"systems">> # <<"interpreters">> /\ <<"systems">> # <<"kernels">>
  /\ <<"interpreters">> # <<"kernels">>
  /\ \A x : /\ <<"states", x>> \notin TopLists /\ <<"macros", x>> \notin TopLists
            /\ \A y : /\ <<"states", x>> # <<"macros", y>>
                      /\ <<"states", x>> = <<"states", y>> => x = y
                      /\ <<"macros", x>> = <<"macros", y>> => x = y
  BY DEF TopLists

\* a worker starts with the request at the first label of its handler
LEMMA ArriveFacts ==
  ASSUME RequestInv, NEW t \in Threads, Arrive(t)
  PROVE  /\ pc[t] = "idle" /\ req[t].op = "idle"
         /\ req'[t] \in [op : AllOps, id : SystemIds \cup KernelIds, sub : StateIds,
                         dialect : Dialects]
         /\ req' = [req EXCEPT ![t] = req'[t]]
         /\ pc' = [pc EXCEPT ![t] = FirstLabel(req'[t].op)]
         /\ req'[t].op \in MakeOps => asked[req'[t].op] < Limit[req'[t].op]
         /\ req'[t].op \in {"create_system", "create_kernel"} => req'[t].id = 0
         /\ asked' = [o \in MakeOps |-> asked[o] + (IF o = req'[t].op THEN 1 ELSE 0)]
         /\ UNCHANGED <<mutex, flags, data, interpreters, built, cause>>
<1>1. PICK op \in Ops, i \in SystemIds \cup KernelIds, j \in StateIds, d \in Dialects :
        /\ op \in MakeOps => asked[op] < Limit[op]
        /\ op \in {"create_system", "create_kernel"} => i = 0
        /\ req' = [req EXCEPT ![t] = [op |-> op, id |-> i, sub |-> j, dialect |-> d]]
        /\ asked' = [o \in MakeOps |-> asked[o] + (IF o = op THEN 1 ELSE 0)]
        /\ Goto(t, FirstLabel(op))
  BY DEF Arrive
<1>2. req'[t] = [op |-> op, id |-> i, sub |-> j, dialect |-> d]
  BY <1>1 DEF RequestInv
<1>3. pc[t] = "idle" /\ req[t].op = "idle"
  BY DEF Arrive, RequestInv
<1>4. UNCHANGED <<mutex, flags, data, interpreters, built, cause>>
  BY DEF Arrive
<1>5. req' = [req EXCEPT ![t] = req'[t]]
  BY <1>1, <1>2
<1>6. op \in AllOps
  BY OpsAssumption
<1>7. req'[t] \in [op : AllOps, id : SystemIds \cup KernelIds, sub : StateIds,
                  dialect : Dialects]
  BY <1>2, <1>6
<1>8. req'[t].op = op /\ req'[t].id = i
  BY <1>2
<1> HIDE DEF Limit, MakeOps
<1> QED
  BY <1>1, <1>3, <1>4, <1>5, <1>7, <1>8, Zenon DEF Goto

LEMMA FirstLabels ==
  ASSUME NEW op \in AllOps
  PROVE  /\ op \in SystemOps => FirstLabel(op) = "enter"
         /\ op \in KernelOps => FirstLabel(op) = "lookup"
         /\ op \notin SystemOps \cup KernelOps => FirstLabel(op) = "top"
         /\ op # "idle" /\ op \notin SystemOps \cap KernelOps
  BY DEF AllOps, SystemOps, KernelOps, FirstLabel

LEMMA MutexUpdate ==
  ASSUME mutex \in [Lists -> MutexType(Threads)], NEW l \in Lists, NEW m,
         mutex' = [mutex EXCEPT ![l] = m]
  PROVE  mutex'[l] = m /\ \A k \in Lists : k # l => mutex'[k] = mutex[k]
  OBVIOUS

\* insert and erase leave a list that nobody holds
LEMMA ExclusivelyFacts ==
  ASSUME mutex \in [Lists -> MutexType(Threads)], NEW t \in Threads,
         NEW l \in Lists, Exclusively(t, l)
  PROVE  /\ mutex[l].readers = {} /\ mutex[l].writers = {}
         /\ mutex'[l] = Unlocked
         /\ \A k \in Lists : k # l => mutex'[k] = mutex[k]
  BY MutexUpdate DEF Exclusively, CanLockUnique, UnlockUnique, Unlocked

\* so they keep the readers of every list
LEMMA ExclusivelyReaders ==
  ASSUME mutex \in [Lists -> MutexType(Threads)], NEW t \in Threads,
         NEW l \in TopLists, Exclusively(t, l)
  PROVE  \A k \in TopLists : mutex'[k].readers = mutex[k].readers
<1>1. TopLists \subseteq Lists
  BY DEF Lists
<1>2. mutex[l].readers = {} /\ mutex'[l].readers = {}
  BY <1>1, ExclusivelyFacts DEF Unlocked
<1>3. \A k \in TopLists : k # l => mutex'[k] = mutex[k]
  BY <1>1, ExclusivelyFacts
<1> QED
  BY <1>2, <1>3

\* A worker inside a system or a kernel finds it there, and is the owner.
LEMMA InnerFacts ==
  ASSUME Inv, NEW t \in Threads, pc[t] \in {"inner", "leave"} \cup ParsePc \cup StatePc
  PROVE  /\ Owner(t) /\ Present(t)
         /\ req[t].op \in SystemOps => req[t].id \in SystemIds
         /\ req[t].op \notin SystemOps => req[t].op \in KernelOps /\ req[t].id \in KernelIds
<1>1. req[t].op \in SystemOps \cup KernelOps /\ pc[t] \in HoldPc /\ pc[t] # "spin"
  BY DEF Inv, RequestInv, HoldPc, ParsePc, StatePc
<1>2. t \in mutex[HomeList(t)].readers
  BY <1>1 DEF Inv, HomeInv, HomeList
<1> QED
  BY <1>1, <1>2 DEF Inv, OwnerInv, Owner, Present, TypeOK

\* The flag of the system serialises what is inside.
LEMMA Uncontended ==
  ASSUME Inv
  PROVE  InnerUncontended
<1> SUFFICES ASSUME NEW t \in Threads
             PROVE  /\ pc[t] = "inner" => CanLockUnique(mutex[
                         IF req[t].op \in SystemOps THEN <<"states", req[t].id>>
                                                    ELSE <<"macros", req[t].id>>])
                    /\ pc[t] = "stateSpin" => StateItem(t) \notin flags
  BY DEF InnerUncontended
<1>1. ASSUME pc[t] \in {"inner", "stateSpin"}, req[t].op \in SystemOps,
             NEW u \in Threads, pc[u] \in StatePc, req[u].id = req[t].id
      PROVE  u = t
  <2>1. Owner(t) /\ Owner(u)
    BY <1>1, InnerFacts DEF StatePc
  <2>2. req[u].op \in SystemOps
    BY <1>1 DEF Inv, RequestInv, EditOps, SystemOps
  <2>3. HomeItem(t) = HomeItem(u)
    BY <1>1, <2>2 DEF HomeItem, HomeList
  <2> QED
    BY <2>1, <2>3 DEF Inv, OwnerInv
<1>2. ASSUME pc[t] = "inner", req[t].op \in SystemOps
      PROVE  CanLockUnique(mutex[<<"states", req[t].id>>])
  <2>1. req[t].id \in SystemIds
    BY <1>2, InnerFacts
  <2>2. mutex[<<"states", req[t].id>>].readers = {}
    <3>1. mutex[<<"states", req[t].id>>].readers \subseteq Threads
      BY <2>1, ListNames DEF Inv, TypeOK, MutexType
    <3> QED
      BY <1>1, <1>2, <2>1, <3>1 DEF Inv, InnerInv, StatePc
  <2> QED
    BY <2>1, <2>2 DEF Inv, InnerInv, CanLockUnique
<1>3. ASSUME pc[t] = "inner", req[t].op \notin SystemOps
      PROVE  CanLockUnique(mutex[<<"macros", req[t].id>>])
  <2>1. req[t].id \in KernelIds
    BY <1>3, InnerFacts
  <2> QED
    BY <2>1 DEF Inv, InnerInv, CanLockUnique, Unlocked
<1>4. ASSUME pc[t] = "stateSpin", StateItem(t) \in flags
      PROVE  FALSE
  <2>1. req[t].op \in SystemOps /\ req[t].id \in SystemIds
    BY <1>4, InnerFacts DEF StatePc, Inv, RequestInv, EditOps, SystemOps
  <2>2. req[t].sub \in StateIds
    BY <1>4, <2>1 DEF Inv, RequestInv, NoRequest, SystemOps
  <2>3. PICK u \in Threads : pc[u] = "running" /\ req[u].id = req[t].id
    BY <1>4, <2>1, <2>2 DEF StateItem, Inv, OwnerInv
  <2> QED
    BY <1>1, <1>4, <2>1, <2>3 DEF StatePc
<1> QED
  BY <1>2, <1>3, <1>4

\* Only the lists of systems, kernels and interpreters are ever waited for.
LEMMA AwaitFacts ==
  ASSUME Inv, NEW t \in Threads, AwaitLock(t)
  PROVE  \E l \in TopLists : mutex' = [mutex EXCEPT ![l] = AwaitUnique(mutex[l])]
<1>1. UniqueList(t) # <<>> /\ ~CanLockUnique(mutex[UniqueList(t)])
  BY DEF AwaitLock
<1>2. mutex' = [mutex EXCEPT ![UniqueList(t)] = AwaitUnique(mutex[UniqueList(t)])]
  BY DEF AwaitLock
<1>3. pc[t] # "inner"
  <2> SUFFICES ASSUME pc[t] = "inner" PROVE FALSE
    OBVIOUS
  <2>1. UniqueList(t) = IF req[t].op \in SystemOps THEN <<"states", req[t].id>>
                                                  ELSE <<"macros", req[t].id>>
    BY <1>1 DEF UniqueList, SystemOps
  <2> QED
    BY <1>1, <2>1, Uncontended DEF InnerUncontended
<1>4. UniqueList(t) \in TopLists
  BY <1>1, <1>3 DEF UniqueList, TopLists
<1> QED
  BY <1>2, <1>4

\* The test in AfterLookup tells the two visits of compile_macro to "lookup" apart.
LEMMA InsideIsOwner ==
  ASSUME Inv, NEW t \in Threads, pc[t] \in {"lookup", "register"}
  PROVE  /\ AfterLookup(t) = IF t \in mutex[HomeList(t)].readers THEN "parse" ELSE "enter"
         /\ req[t].op \in SystemOps =>
               AfterLookup(t) = "parse" /\ t \in mutex[<<"systems">>].readers
         /\ req[t].op \notin SystemOps => /\ req[t].op \in KernelOps
                                         /\ HomeList(t) = <<"kernels">>
<1>1. t \in mutex[HomeList(t)].readers => HomeItem(t) \in flags
  BY DEF Inv, OwnerInv, Owner
<1>2. req[t].op \in SystemOps => HomeList(t) = <<"systems">> /\ t \in mutex[<<"systems">>].readers
  BY DEF Inv, HomeInv, HomeList
<1>3. req[t].op \notin SystemOps => req[t].op \in KernelOps /\ HomeList(t) = <<"kernels">>
  BY DEF Inv, RequestInv, HomeList
<1> QED
  BY <1>1, <1>2, <1>3 DEF AfterLookup, Inside

\* what a change to one list leaves alone
LEMMA OtherLists ==
  ASSUME NEW l, \A k \in Lists : k # l => mutex'[k] = mutex[k]
  PROVE  /\ \A k \in TopLists : k # l => mutex'[k] = mutex[k]
         /\ l \in TopLists =>
               /\ \A s \in SystemIds : mutex'[<<"states", s>>] = mutex[<<"states", s>>]
               /\ \A k \in KernelIds : mutex'[<<"macros", k>>] = mutex[<<"macros", k>>]
         /\ \A x : l = <<"states", x>> =>
               /\ \A k \in TopLists : mutex'[k] = mutex[k]
               /\ \A s \in SystemIds : s # x => mutex'[<<"states", s>>] = mutex[<<"states", s>>]
               /\ \A k \in KernelIds : mutex'[<<"macros", k>>] = mutex[<<"macros", k>>]
         /\ \A x : l = <<"macros", x>> =>
               /\ \A k \in TopLists : mutex'[k] = mutex[k]
               /\ \A s \in SystemIds : mutex'[<<"states", s>>] = mutex[<<"states", s>>]
               /\ \A k \in KernelIds : k # x => mutex'[<<"macros", k>>] = mutex[<<"macros", k>>]
<1>1. TopLists \subseteq Lists
  BY DEF Lists
<1>2. \A x : <<"states", x>> \notin TopLists /\ <<"macros", x>> \notin TopLists
  BY ListsDiffer
<1>3. \A x, y : /\ <<"states", x>> # <<"macros", y>>
                /\ x # y => <<"states", x>> # <<"states", y>> /\ <<"macros", x>> # <<"macros", y>>
  BY ListsDiffer
<1> QED
  BY <1>1, <1>2, <1>3, ListNames, Zenon

\* The steps that keep the readers of the top lists and the request.
LEMMA HomeKept ==
  ASSUME Inv, NEW t \in Threads, NEW label,
         pc' = [pc EXCEPT ![t] = label], req' = req,
         mutex'[<<"systems">>].readers = mutex[<<"systems">>].readers,
         mutex'[<<"kernels">>].readers = mutex[<<"kernels">>].readers,
         \/ pc[t] \in HoldPc /\ label \in HoldPc
         \/ pc[t] \notin HoldPc \cup {"lookup", "register"} /\ label \in {"idle", "reply"}
         \/ pc[t] \in HoldPc \cup {"lookup", "register"} /\ label \in {"lookup", "register"}
         \/ pc[t] \in {"lookup", "register"} /\ label = AfterLookup(t)
  PROVE  HomeInv'
<1>1. pc \in [Threads -> Labels] /\ HomeInv
  BY DEF Inv, TypeOK
<1>2. CASE pc[t] \in {"lookup", "register"} /\ label = AfterLookup(t)
  <2>1. label = IF t \in mutex[HomeList(t)].readers THEN "parse" ELSE "enter"
    BY <1>2, InsideIsOwner
  <2>2. CASE req[t].op \in SystemOps
    BY <1>1, <1>2, <2>2, InsideIsOwner DEF HomeInv, HoldPc, ParsePc, SystemOps, KernelOps
  <2>3. CASE req[t].op \notin SystemOps
    <3>1. HomeList(t) = <<"kernels">> /\ req[t].op \in KernelOps
      BY <1>2, <2>3, InsideIsOwner
    <3>2. CASE t \in mutex[<<"kernels">>].readers
      BY <1>1, <1>2, <2>1, <2>3, <3>1, <3>2 DEF HomeInv, HoldPc, ParsePc, StatePc
    <3>3. CASE t \notin mutex[<<"kernels">>].readers
      BY <1>1, <1>2, <2>1, <2>3, <3>1, <3>3 DEF HomeInv, HoldPc, ParsePc, StatePc
    <3> QED
      BY <3>2, <3>3
  <2> QED
    BY <2>2, <2>3
<1>3. CASE ~(pc[t] \in {"lookup", "register"} /\ label = AfterLookup(t))
  BY <1>1, <1>3 DEF HomeInv, HoldPc, ParsePc, StatePc
<1> QED
  BY <1>2, <1>3

LEMMA HomeStep ==
  ASSUME Inv, NEW t \in Threads, cause = "none", Arrive(t) \/ Proceed(t)
  PROVE  HomeInv'
<1>0. /\ mutex \in [Lists -> MutexType(Threads)] /\ pc \in [Threads -> Labels]
      /\ RequestInv /\ HomeInv
      /\ <<"systems">> \in TopLists /\ <<"kernels">> \in TopLists
      /\ <<"interpreters">> \in TopLists
  BY DEF Inv, TypeOK, TopLists
<1>1. CASE Arrive(t)
  <2>1. pc'[t] \in {"enter", "lookup", "top"} /\ (pc'[t] = "lookup" => req'[t].op \notin SystemOps)
    BY <1>0, <1>1, ArriveFacts, FirstLabels
  <2>2. /\ mutex' = mutex /\ pc[t] = "idle"
        /\ \A u \in Threads : u # t => pc'[u] = pc[u] /\ req'[u] = req[u]
    BY <1>0, <1>1, ArriveFacts DEF RequestInv
  <2> QED
    BY <1>0, <2>1, <2>2 DEF HomeInv, HoldPc, ParsePc, StatePc
<1>2. CASE Reply(t)
  <2>1. /\ mutex' = mutex /\ pc[t] = "reply" /\ pc'[t] = "idle"
        /\ \A u \in Threads : u # t => pc'[u] = pc[u] /\ req'[u] = req[u]
    BY <1>0, <1>2 DEF Reply, Goto, RequestInv
  <2> QED
    BY <1>0, <2>1 DEF HomeInv, HoldPc, ParsePc, StatePc
<1>3. CASE AwaitLock(t)
  <2>1. PICK l \in TopLists : mutex' = [mutex EXCEPT ![l] = AwaitUnique(mutex[l])]
    BY <1>3, AwaitFacts
  <2>2. \A k \in TopLists : mutex'[k].readers = mutex[k].readers
    BY <1>0, <2>1, MutexUpdate DEF AwaitUnique, Lists
  <2>3. UNCHANGED <<pc, req>>
    BY <1>3 DEF AwaitLock
  <2> QED
    BY <1>0, <2>2, <2>3 DEF HomeInv
<1>4. CASE CreateSystem(t) \/ DeleteSystem(t)
  <2>1. Exclusively(t, <<"systems">>) /\ pc[t] = "top" /\ pc' = [pc EXCEPT ![t] = "reply"] /\ req' = req
    BY <1>4 DEF CreateSystem, DeleteSystem, Goto
  <2>2. \A k \in TopLists : mutex'[k].readers = mutex[k].readers
    BY <1>0, <2>1, ExclusivelyReaders
  <2> QED
    BY <1>0, <2>1, <2>2, HomeKept DEF HoldPc, ParsePc, StatePc
<1>5. CASE CreateKernel(t) \/ DeleteKernel(t)
  <2>1. Exclusively(t, <<"kernels">>) /\ pc[t] = "top" /\ pc' = [pc EXCEPT ![t] = "reply"] /\ req' = req
    BY <1>5 DEF CreateKernel, DeleteKernel, Goto
  <2>2. \A k \in TopLists : mutex'[k].readers = mutex[k].readers
    BY <1>0, <2>1, ExclusivelyReaders
  <2> QED
    BY <1>0, <2>1, <2>2, HomeKept DEF HoldPc, ParsePc, StatePc
<1>6. ASSUME NEW why, Die(why) PROVE HomeInv'
  BY <1>0, <1>6 DEF Die, HomeInv
<1>7. CASE Enter(t) /\ Present(t)
  <2>1. /\ mutex' = [mutex EXCEPT ![HomeList(t)] = LockShared(mutex[HomeList(t)], t)]
        /\ pc' = [pc EXCEPT ![t] = "spin"] /\ req' = req /\ pc[t] = "enter"
    BY <1>7 DEF Enter, Goto
  <2>2. HomeList(t) \in Lists /\ HomeList(t) \in TopLists
    BY <1>0 DEF HomeList, Lists
  <2>3. /\ mutex'[HomeList(t)].readers = mutex[HomeList(t)].readers \cup {t}
        /\ \A k \in TopLists : k # HomeList(t) => mutex'[k] = mutex[k]
    BY <1>0, <2>1, <2>2, MutexUpdate DEF LockShared, Lists
  <2>4. req[t].op \in SystemOps \cup KernelOps
    BY <1>0, <2>1 DEF RequestInv
  <2>5. CASE req[t].op \in SystemOps
    BY <1>0, <2>1, <2>3, <2>5, ListsDiffer DEF HomeList, HomeInv, HoldPc, ParsePc, StatePc, SystemOps, KernelOps
  <2>6. CASE req[t].op \notin SystemOps
    BY <1>0, <2>1, <2>3, <2>4, <2>6, ListsDiffer DEF HomeList, HomeInv, HoldPc, ParsePc, StatePc
  <2> QED
    BY <2>5, <2>6
<1>8. CASE Spin(t)
  <2>1. \E x \in {"inner", "lookup"} : pc' = [pc EXCEPT ![t] = x]
    BY <1>8 DEF Spin, Goto
  <2>2. UNCHANGED <<mutex, req>> /\ pc[t] = "spin"
    BY <1>8 DEF Spin
  <2> QED
    BY <1>0, <2>1, <2>2, HomeKept DEF HoldPc
<1>9. CASE Leave(t)
  <2>1. /\ mutex' = [mutex EXCEPT ![HomeList(t)] = UnlockShared(mutex[HomeList(t)], t)]
        /\ pc' = [pc EXCEPT ![t] = "reply"] /\ req' = req /\ pc[t] = "leave"
    BY <1>9 DEF Leave, Goto
  <2>2. HomeList(t) \in Lists /\ HomeList(t) \in TopLists
    BY <1>0 DEF HomeList, Lists
  <2>3. /\ mutex'[HomeList(t)].readers = mutex[HomeList(t)].readers \ {t}
        /\ \A k \in TopLists : k # HomeList(t) => mutex'[k] = mutex[k]
    BY <1>0, <2>1, <2>2, MutexUpdate DEF UnlockShared, Lists
  <2>4. req[t].op \in SystemOps \cup KernelOps
    BY <1>0, <2>1 DEF RequestInv, HoldPc
  <2>5. CASE req[t].op \in SystemOps
    BY <1>0, <2>1, <2>3, <2>5, ListsDiffer DEF HomeList, HomeInv, HoldPc, ParsePc, StatePc, SystemOps, KernelOps
  <2>6. CASE req[t].op \notin SystemOps
    BY <1>0, <2>1, <2>3, <2>4, <2>6, ListsDiffer DEF HomeList, HomeInv, HoldPc, ParsePc, StatePc
  <2> QED
    BY <2>5, <2>6
<1>10. CASE Lookup(t)
  <2>1. /\ pc[t] = "lookup" /\ UNCHANGED <<mutex, req>>
        /\ \E x \in {AfterLookup(t), "register"} : pc' = [pc EXCEPT ![t] = x]
    BY <1>10 DEF Lookup, Goto
  <2> QED
    BY <2>1, HomeKept
<1>11. CASE Register(t)
  <2>1. /\ pc' = [pc EXCEPT ![t] = AfterLookup(t)] /\ pc[t] = "register" /\ req' = req
        /\ Exclusively(t, <<"interpreters">>)
    BY <1>11 DEF Register, Goto
  <2>2. \A k \in TopLists : mutex'[k].readers = mutex[k].readers
    BY <1>0, <2>1, ExclusivelyReaders
  <2> QED
    BY <1>0, <2>1, <2>2, HomeKept
<1>12. CASE ParseEnter(t) /\ Dialect(t) \in interpreters
  <2>1. /\ mutex' = [mutex EXCEPT ![<<"interpreters">>] = LockShared(mutex[<<"interpreters">>], t)]
        /\ pc' = [pc EXCEPT ![t] = "parseSpin"] /\ req' = req /\ pc[t] = "parse"
    BY <1>12 DEF ParseEnter, Goto
  <2>2. mutex'[<<"systems">>] = mutex[<<"systems">>] /\ mutex'[<<"kernels">>] = mutex[<<"kernels">>]
    BY <1>0, <2>1, MutexUpdate, ListsDiffer DEF Lists
  <2> QED
    BY <2>1, <2>2, HomeKept DEF HoldPc, ParsePc
<1>13. CASE ParseSpin(t)
  BY <1>13, HomeKept DEF ParseSpin, Goto, HoldPc, ParsePc
<1>14. CASE ParseLeave(t)
  <2>1. /\ mutex' = [mutex EXCEPT ![<<"interpreters">>] = UnlockShared(mutex[<<"interpreters">>], t)]
        /\ pc' = [pc EXCEPT ![t] = "inner"] /\ req' = req /\ pc[t] = "parsing"
    BY <1>14 DEF ParseLeave, Goto
  <2>2. mutex'[<<"systems">>] = mutex[<<"systems">>] /\ mutex'[<<"kernels">>] = mutex[<<"kernels">>]
    BY <1>0, <2>1, MutexUpdate, ListsDiffer DEF Lists
  <2> QED
    BY <2>1, <2>2, HomeKept DEF HoldPc, ParsePc
<1>15. CASE InsertState(t) \/ EraseState(t)
  <2>1. /\ Exclusively(t, <<"states", req[t].id>>) /\ pc[t] = "inner" /\ req' = req
        /\ pc' = [pc EXCEPT ![t] = "leave"] /\ req[t].op \in SystemOps
    BY <1>15 DEF InsertState, EraseState, SystemOps, Goto
  <2>2. <<"states", req[t].id>> \in Lists
    BY <2>1, InnerFacts, ListNames
  <2>3. \A k \in TopLists : mutex'[k] = mutex[k]
    BY <1>0, <2>1, <2>2, ExclusivelyFacts, OtherLists
  <2> QED
    BY <1>0, <2>1, <2>3, HomeKept DEF HoldPc
<1>16. CASE Compute(t)
  BY <1>16, HomeKept DEF Compute, Goto, HoldPc
<1>17. CASE InsertMacro(t)
  <2>1. /\ Exclusively(t, <<"macros", req[t].id>>) /\ pc[t] = "inner" /\ req' = req
        /\ pc' = [pc EXCEPT ![t] = "leave"] /\ req[t].op \notin SystemOps
    BY <1>17 DEF InsertMacro, SystemOps, Goto
  <2>2. <<"macros", req[t].id>> \in Lists
    BY <2>1, InnerFacts, ListNames
  <2>3. \A k \in TopLists : mutex'[k] = mutex[k]
    BY <1>0, <2>1, <2>2, ExclusivelyFacts, OtherLists
  <2> QED
    BY <1>0, <2>1, <2>3, HomeKept DEF HoldPc
<1>18. CASE EnterState(t) /\ req[t].sub \in states[req[t].id]
  <2>1. /\ mutex' = [mutex EXCEPT ![<<"states", req[t].id>>] =
                        LockShared(mutex[<<"states", req[t].id>>], t)]
        /\ pc' = [pc EXCEPT ![t] = "stateSpin"] /\ req' = req /\ pc[t] = "inner"
        /\ req[t].op \in SystemOps
    BY <1>18 DEF EnterState, EditOps, SystemOps, Goto
  <2>2. <<"states", req[t].id>> \in Lists
    BY <2>1, InnerFacts, ListNames
  <2>3. \A k \in TopLists : mutex'[k] = mutex[k]
    BY <1>0, <2>1, <2>2, MutexUpdate, OtherLists, ZenonT(40)
  <2> QED
    BY <1>0, <2>1, <2>3, HomeKept DEF HoldPc, StatePc
<1>19. CASE SpinState(t)
  BY <1>19, HomeKept DEF SpinState, Goto, HoldPc, StatePc
<1>20. CASE RunProgram(t)
  <2>1. /\ mutex' = [mutex EXCEPT ![<<"states", req[t].id>>] =
                        UnlockShared(mutex[<<"states", req[t].id>>], t)]
        /\ pc' = [pc EXCEPT ![t] = "leave"] /\ req' = req /\ pc[t] = "running"
    BY <1>20 DEF RunProgram, Goto
  <2>2. req[t].op \in SystemOps
    BY <1>0, <2>1 DEF RequestInv, StatePc, EditOps, SystemOps
  <2>3. <<"states", req[t].id>> \in Lists
    BY <2>1, <2>2, InnerFacts, ListNames DEF StatePc
  <2>4. \A k \in TopLists : mutex'[k] = mutex[k]
    BY <1>0, <2>1, <2>3, MutexUpdate, OtherLists, ZenonT(40)
  <2> QED
    BY <1>0, <2>1, <2>4, HomeKept DEF HoldPc, StatePc
<1> QED
  BY <1>1, <1>2, <1>3, <1>4, <1>5, <1>6, <1>7, <1>8, <1>9, <1>10, <1>11, <1>12, <1>13,
     <1>14, <1>15, <1>16, <1>17, <1>18, <1>19, <1>20
     DEF Proceed, EraseCrash, Reject, Enter, ParseEnter, EnterState

\* the steps inside a system or a kernel
InsideStep(t) ==
    \/ InsertState(t) \/ EraseState(t) \/ Compute(t) \/ InsertMacro(t)
    \/ EnterState(t) \/ SpinState(t) \/ RunProgram(t)

\* A step is the step of one worker, and one that dies moves nobody.
LEMMA OthersStay ==
  ASSUME Inv, NEW t \in Threads, Arrive(t) \/ Proceed(t)
  PROVE  \A u \in Threads : u # t => pc'[u] = pc[u] /\ req'[u] = req[u]
<1>0. pc \in [Threads -> Labels] /\ RequestInv
  BY DEF Inv, TypeOK
<1>1. CASE Arrive(t)
  BY <1>0, <1>1, ArriveFacts DEF RequestInv
<1>2. CASE Reply(t)
  BY <1>0, <1>2 DEF Reply, Goto, RequestInv
<1>3. ASSUME NEW why, Die(why) PROVE UNCHANGED <<pc, req>>
  BY <1>3 DEF Die
<1>4. CASE AwaitLock(t) \/ EraseCrash(t) \/ Reject(t)
  BY <1>3, <1>4 DEF AwaitLock, EraseCrash, Reject
<1>5. CASE CreateSystem(t) \/ DeleteSystem(t) \/ CreateKernel(t) \/ DeleteKernel(t)
  BY <1>0, <1>5 DEF CreateSystem, DeleteSystem, CreateKernel, DeleteKernel, Goto
<1>6. CASE Enter(t) \/ Spin(t) \/ Leave(t)
  BY <1>0, <1>3, <1>6 DEF Enter, Spin, Leave, Goto
<1>7. CASE Lookup(t) \/ Register(t) \/ ParseEnter(t) \/ ParseSpin(t) \/ ParseLeave(t)
  BY <1>0, <1>3, <1>7 DEF Lookup, Register, ParseEnter, ParseSpin, ParseLeave, Goto
<1>8. CASE InsideStep(t)
  BY <1>0, <1>3, <1>8 DEF InsideStep, InsertState, EraseState, Compute, InsertMacro,
     EnterState, SpinState, RunProgram, Goto
<1> QED
  BY <1>1, <1>2, <1>4, <1>5, <1>6, <1>7, <1>8 DEF Proceed, InsideStep

\* The other steps touch no list inside a system or a kernel, and neither come
\* from nor lead to the place where a state is held.
LEMMA OutsideFacts ==
  ASSUME Inv, NEW t \in Threads, Arrive(t) \/ Proceed(t), ~InsideStep(t)
  PROVE  /\ \A s \in SystemIds : mutex'[<<"states", s>>] = mutex[<<"states", s>>]
         /\ \A k \in KernelIds : mutex'[<<"macros", k>>] = mutex[<<"macros", k>>]
         /\ \/ pc' = pc /\ req' = req
            \/ pc[t] \notin StatePc /\ pc'[t] \notin StatePc
<1>0. /\ mutex \in [Lists -> MutexType(Threads)] /\ pc \in [Threads -> Labels] /\ RequestInv
      /\ <<"systems">> \in TopLists /\ <<"kernels">> \in TopLists
      /\ <<"interpreters">> \in TopLists /\ TopLists \subseteq Lists
  BY DEF Inv, TypeOK, TopLists, Lists
<1> DEFINE Apart == \/ mutex' = mutex
                    \/ \E l \in TopLists : \A k \in Lists : k # l => mutex'[k] = mutex[k]
           Moves == \/ pc' = pc /\ req' = req
                    \/ pc[t] \notin StatePc /\ pc'[t] \notin StatePc
<1>1. SUFFICES Apart /\ Moves
  <2>1. CASE mutex' = mutex
    BY <2>1, <1>1
  <2>2. CASE \E l \in TopLists : \A k \in Lists : k # l => mutex'[k] = mutex[k]
    BY <2>2, OtherLists
  <2> QED
    BY <2>1, <2>2
<1>2. HomeList(t) \in TopLists
  BY <1>0 DEF HomeList
<1>3. ASSUME NEW l \in TopLists, NEW m, mutex' = [mutex EXCEPT ![l] = m] PROVE Apart
  BY <1>0, <1>3, MutexUpdate
<1>4. ASSUME NEW l \in TopLists, Exclusively(t, l) PROVE Apart
  BY <1>0, <1>4, ExclusivelyFacts
<1>5. ASSUME NEW why, Die(why) PROVE Apart /\ Moves
  BY <1>5 DEF Die
<1>6. CASE Arrive(t)
  <2>1. pc'[t] \in {"enter", "lookup", "top"} /\ pc[t] = "idle" /\ mutex' = mutex
    BY <1>0, <1>6, ArriveFacts, FirstLabels
  <2> QED
    BY <2>1 DEF StatePc
<1>7. CASE Reply(t)
  BY <1>0, <1>7 DEF Reply, Goto, StatePc
<1>8. CASE AwaitLock(t)
  <2>1. Apart
    BY <1>3, <1>8, AwaitFacts
  <2> QED
    BY <1>8, <2>1 DEF AwaitLock
<1>9. CASE EraseCrash(t) \/ Reject(t)
  BY <1>5, <1>9 DEF EraseCrash, Reject
<1>10. CASE CreateSystem(t) \/ DeleteSystem(t) \/ CreateKernel(t) \/ DeleteKernel(t)
  <2>1. Apart
    BY <1>0, <1>4, <1>10 DEF CreateSystem, DeleteSystem, CreateKernel, DeleteKernel
  <2> QED
    BY <1>0, <2>1, <1>10 DEF CreateSystem, DeleteSystem, CreateKernel, DeleteKernel, Goto, StatePc
<1>11. CASE Enter(t)
  <2>1. CASE Present(t)
    <3>1. Apart
      BY <1>2, <1>3, <1>11, <2>1 DEF Enter
    <3> QED
      BY <1>0, <1>11, <2>1, <3>1 DEF Enter, Goto, StatePc
  <2> QED
    BY <1>5, <1>11, <2>1 DEF Enter
<1>12. CASE Spin(t)
  BY <1>0, <1>12 DEF Spin, Goto, StatePc
<1>13. CASE Leave(t)
  <2>1. Apart
    BY <1>2, <1>3, <1>13 DEF Leave
  <2> QED
    BY <1>0, <1>13, <2>1 DEF Leave, Goto, StatePc
<1>14. CASE Lookup(t)
  BY <1>0, <1>14 DEF Lookup, Goto, StatePc, AfterLookup
<1>15. CASE Register(t)
  <2>1. Apart
    BY <1>0, <1>4, <1>15 DEF Register
  <2> QED
    BY <1>0, <1>15, <2>1 DEF Register, Goto, StatePc, AfterLookup
<1>16. CASE ParseEnter(t)
  <2>1. CASE Dialect(t) \in interpreters
    <3>1. Apart
      BY <1>0, <1>3, <1>16, <2>1 DEF ParseEnter
    <3> QED
      BY <1>0, <1>16, <2>1, <3>1 DEF ParseEnter, Goto, StatePc
  <2> QED
    BY <1>5, <1>16, <2>1 DEF ParseEnter
<1>17. CASE ParseSpin(t)
  BY <1>0, <1>17 DEF ParseSpin, Goto, StatePc
<1>18. CASE ParseLeave(t)
  <2>1. Apart
    BY <1>0, <1>3, <1>18 DEF ParseLeave
  <2> QED
    BY <1>0, <1>18, <2>1 DEF ParseLeave, Goto, StatePc
<1> QED
  BY <1>6, <1>7, <1>8, <1>9, <1>10, <1>11, <1>12, <1>13, <1>14, <1>15, <1>16, <1>17, <1>18
     DEF Proceed, InsideStep

LEMMA InnerKept ==
  ASSUME InnerInv,
         \A s \in SystemIds : mutex'[<<"states", s>>] = mutex[<<"states", s>>],
         \A k \in KernelIds : mutex'[<<"macros", k>>] = mutex[<<"macros", k>>],
         \A u \in Threads : /\ pc'[u] \in StatePc <=> pc[u] \in StatePc
                            /\ pc[u] \in StatePc => req'[u].id = req[u].id
  PROVE  InnerInv'
  BY DEF InnerInv

LEMMA InnerStep ==
  ASSUME Inv, NEW t \in Threads, Arrive(t) \/ Proceed(t)
  PROVE  InnerInv'
<1>0. /\ mutex \in [Lists -> MutexType(Threads)] /\ pc \in [Threads -> Labels]
      /\ RequestInv /\ InnerInv
  BY DEF Inv, TypeOK
<1>1. CASE ~InsideStep(t)
  BY <1>0, <1>1, OutsideFacts, OthersStay, InnerKept
<1>2. CASE InsertState(t) \/ EraseState(t)
  <2>1. /\ Exclusively(t, <<"states", req[t].id>>) /\ pc[t] = "inner" /\ req' = req
        /\ pc' = [pc EXCEPT ![t] = "leave"] /\ req[t].op \in SystemOps
    BY <1>2 DEF InsertState, EraseState, SystemOps, Goto
  <2>2. <<"states", req[t].id>> \in Lists /\ req[t].id \in SystemIds
    BY <2>1, InnerFacts, ListNames
  <2>3. /\ mutex[<<"states", req[t].id>>].readers = {}
        /\ mutex'[<<"states", req[t].id>>] = Unlocked
        /\ \A k \in Lists : k # <<"states", req[t].id>> => mutex'[k] = mutex[k]
    BY <1>0, <2>1, <2>2, ExclusivelyFacts
  <2>4. /\ \A k \in KernelIds : mutex'[<<"macros", k>>] = mutex[<<"macros", k>>]
        /\ \A s \in SystemIds : s # req[t].id => mutex'[<<"states", s>>] = mutex[<<"states", s>>]
    BY <2>3, OtherLists
  <2>5. \A u \in Threads : pc'[u] \in StatePc <=> pc[u] \in StatePc
    BY <1>0, <2>1 DEF StatePc
  <2> QED
    BY <1>0, <2>1, <2>2, <2>3, <2>4, <2>5 DEF InnerInv, Unlocked
<1>3. CASE Compute(t) \/ SpinState(t)
  <2>1. UNCHANGED <<mutex, req>>
    BY <1>3 DEF Compute, SpinState
  <2>2. \A u \in Threads : pc'[u] \in StatePc <=> pc[u] \in StatePc
    BY <1>0, <1>3 DEF Compute, SpinState, Goto, StatePc
  <2> QED
    BY <1>0, <2>1, <2>2, InnerKept
<1>4. CASE InsertMacro(t)
  <2>1. /\ Exclusively(t, <<"macros", req[t].id>>) /\ pc[t] = "inner" /\ req' = req
        /\ pc' = [pc EXCEPT ![t] = "leave"] /\ req[t].op \notin SystemOps
    BY <1>4 DEF InsertMacro, SystemOps, Goto
  <2>2. <<"macros", req[t].id>> \in Lists /\ req[t].id \in KernelIds
    BY <2>1, InnerFacts, ListNames
  <2>3. /\ mutex'[<<"macros", req[t].id>>] = Unlocked
        /\ \A k \in Lists : k # <<"macros", req[t].id>> => mutex'[k] = mutex[k]
    BY <1>0, <2>1, <2>2, ExclusivelyFacts
  <2>4. /\ \A k \in KernelIds : k # req[t].id => mutex'[<<"macros", k>>] = mutex[<<"macros", k>>]
        /\ \A s \in SystemIds : mutex'[<<"states", s>>] = mutex[<<"states", s>>]
    BY <2>3, OtherLists
  <2>5. \A k \in KernelIds : mutex'[<<"macros", k>>] = mutex[<<"macros", k>>]
    BY <1>0, <2>3, <2>4 DEF InnerInv
  <2>6. \A u \in Threads : pc'[u] \in StatePc <=> pc[u] \in StatePc
    BY <1>0, <2>1 DEF StatePc
  <2> QED
    BY <1>0, <2>1, <2>4, <2>5, <2>6, InnerKept
<1>5. CASE EnterState(t) /\ req[t].sub \notin states[req[t].id]
  BY <1>0, <1>5, InnerKept DEF EnterState, Die
<1>6. CASE EnterState(t) /\ req[t].sub \in states[req[t].id]
  <2> DEFINE l == <<"states", req[t].id>>
  <2>1. /\ mutex' = [mutex EXCEPT ![l] = LockShared(mutex[l], t)]
        /\ pc' = [pc EXCEPT ![t] = "stateSpin"] /\ req' = req /\ pc[t] = "inner"
        /\ req[t].op \in SystemOps
    BY <1>6 DEF EnterState, EditOps, SystemOps, Goto
  <2>2. l \in Lists /\ req[t].id \in SystemIds
    BY <2>1, InnerFacts, ListNames
  <2>3. /\ mutex'[l] = LockShared(mutex[l], t)
        /\ \A k \in Lists : k # l => mutex'[k] = mutex[k]
    BY <1>0, <2>1, <2>2, MutexUpdate
  <2>4. /\ \A k \in KernelIds : mutex'[<<"macros", k>>] = mutex[<<"macros", k>>]
        /\ \A s \in SystemIds : s # req[t].id => mutex'[<<"states", s>>] = mutex[<<"states", s>>]
    BY <2>3, OtherLists
  <2>5. /\ \A u \in Threads : u # t => (pc'[u] \in StatePc <=> pc[u] \in StatePc)
        /\ pc'[t] \in StatePc /\ pc[t] \notin StatePc
    BY <1>0, <2>1 DEF StatePc
  <2>6. /\ mutex'[l].readers = mutex[l].readers \cup {t}
        /\ mutex'[l].writers = mutex[l].writers /\ mutex'[l].blocked = mutex[l].blocked
    BY <2>3 DEF LockShared
  <2> QED
    BY <1>0, <2>1, <2>2, <2>4, <2>5, <2>6 DEF InnerInv
<1>7. CASE RunProgram(t)
  <2> DEFINE l == <<"states", req[t].id>>
  <2>1. /\ mutex' = [mutex EXCEPT ![l] = UnlockShared(mutex[l], t)]
        /\ pc' = [pc EXCEPT ![t] = "leave"] /\ req' = req /\ pc[t] = "running"
    BY <1>7 DEF RunProgram, Goto
  <2>2. l \in Lists /\ req[t].id \in SystemIds
    BY <1>0, <2>1, InnerFacts, ListNames DEF StatePc, RequestInv, EditOps, SystemOps
  <2>3. /\ mutex'[l] = UnlockShared(mutex[l], t)
        /\ \A k \in Lists : k # l => mutex'[k] = mutex[k]
    BY <1>0, <2>1, <2>2, MutexUpdate
  <2>4. /\ \A k \in KernelIds : mutex'[<<"macros", k>>] = mutex[<<"macros", k>>]
        /\ \A s \in SystemIds : s # req[t].id => mutex'[<<"states", s>>] = mutex[<<"states", s>>]
    BY <2>3, OtherLists
  <2>5. /\ \A u \in Threads : u # t => (pc'[u] \in StatePc <=> pc[u] \in StatePc)
        /\ pc'[t] \notin StatePc /\ pc[t] \in StatePc
    BY <1>0, <2>1 DEF StatePc
  <2>6. /\ mutex'[l].readers = mutex[l].readers \ {t}
        /\ mutex'[l].writers = mutex[l].writers
        /\ ~mutex[l].blocked => ~mutex'[l].blocked
    BY <2>3 DEF UnlockShared
  <2> QED
    BY <1>0, <2>1, <2>2, <2>4, <2>5, <2>6 DEF InnerInv
<1> QED
  BY <1>1, <1>2, <1>3, <1>4, <1>5, <1>6, <1>7 DEF InsideStep

\* where a worker may go with the request it has
LEMMA RequestKept ==
  ASSUME RequestInv, pc \in [Threads -> Labels], NEW t \in Threads, NEW label,
         pc' = [pc EXCEPT ![t] = label], req' = req,
         \/ pc[t] \in {"enter", "lookup", "register"} \cup HoldPc
               /\ label \in {"enter", "lookup", "register", "reply"} \cup (HoldPc \ StatePc)
         \/ pc[t] = "top" /\ label = "reply"
         \/ pc[t] \in HoldPc /\ req[t].op \in EditOps /\ label \in StatePc
  PROVE  RequestInv'
<1>1. pc[t] # "idle" /\ label # "idle" /\ label # "top"
  BY DEF HoldPc, ParsePc, StatePc
<1>2. /\ StatePc \subseteq HoldPc /\ "reply" \notin {"enter", "lookup", "register"} \cup HoldPc
      /\ StatePc \cap {"enter", "lookup", "register", "reply"} = {}
  BY DEF HoldPc, ParsePc, StatePc
<1>3. pc[t] = "top" => label = "reply"
  BY DEF HoldPc, ParsePc, StatePc
<1> HIDE DEF HoldPc, StatePc
<1> DEFINE Fits(u) ==
        /\ pc[u] = "idle" <=> req[u].op = "idle"
        /\ pc[u] \in {"enter", "lookup", "register"} \cup HoldPc =>
              req[u].op \in SystemOps \cup KernelOps
        /\ pc[u] = "top" => req[u].op \notin SystemOps \cup KernelOps
        /\ pc[u] \in StatePc => req[u].op \in EditOps
<1>4. \A u \in Threads : Fits(u)
  BY DEF RequestInv
<1>5. ASSUME NEW u \in Threads, u # t PROVE Fits(u)'
  BY <1>4, <1>5
<1>6. pc'[t] = label /\ req'[t] = req[t]
  OBVIOUS
<1>7. pc[t] \in HoldPc \cup {"enter", "lookup", "register"} => req[t].op \in SystemOps \cup KernelOps
  BY DEF RequestInv
<1>8. Fits(t)'
  BY <1>1, <1>2, <1>3, <1>4, <1>6, <1>7
<1>9. \A u \in Threads : Fits(u)'
  BY <1>5, <1>8
<1> QED
  BY <1>9 DEF RequestInv

LEMMA RequestStep ==
  ASSUME Inv, NEW t \in Threads, Arrive(t) \/ Proceed(t)
  PROVE  RequestInv'
<1>0. pc \in [Threads -> Labels] /\ RequestInv
  BY DEF Inv, TypeOK
<1>1. CASE Arrive(t)
  <2> DEFINE r == req'[t]
  <2>1. /\ r \in [op : AllOps, id : SystemIds \cup KernelIds, sub : StateIds, dialect : Dialects]
        /\ req' = [req EXCEPT ![t] = r] /\ pc' = [pc EXCEPT ![t] = FirstLabel(r.op)]
    BY <1>0, <1>1, ArriveFacts
  <2>2. r.op \in AllOps
    BY <2>1
  <2>3. /\ pc'[t] = "enter" \/ pc'[t] = "lookup" => r.op \in SystemOps \cup KernelOps
        /\ pc'[t] = "top" => r.op \notin SystemOps \cup KernelOps
        /\ pc'[t] \in {"enter", "lookup", "top"} /\ r.op # "idle"
    BY <1>0, <2>1, <2>2, FirstLabels
  <2>4. req' \in [Threads -> {NoRequest} \cup
                    [op : AllOps, id : SystemIds \cup KernelIds, sub : StateIds,
                     dialect : Dialects]]
    BY <1>0, <2>1 DEF RequestInv
  <2>5. \A u \in Threads : u # t => pc'[u] = pc[u] /\ req'[u] = req[u]
    BY <1>1, OthersStay
  <2>6. pc'[t] \notin HoldPc \cup StatePc
    BY <2>3 DEF HoldPc, ParsePc, StatePc
  <2> QED
    BY <1>0, <2>3, <2>4, <2>5, <2>6 DEF RequestInv
<1>2. CASE Reply(t)
  <2>1. req' = [req EXCEPT ![t] = NoRequest] /\ pc' = [pc EXCEPT ![t] = "idle"]
    BY <1>2 DEF Reply, Goto
  <2>2. req'[t] = NoRequest /\ pc'[t] = "idle"
    BY <1>0, <2>1 DEF RequestInv
  <2>3. req' \in [Threads -> {NoRequest} \cup
                    [op : AllOps, id : SystemIds \cup KernelIds, sub : StateIds,
                     dialect : Dialects]]
    BY <1>0, <2>1 DEF RequestInv
  <2>4. \A u \in Threads : u # t => pc'[u] = pc[u] /\ req'[u] = req[u]
    BY <1>2, OthersStay DEF Proceed
  <2>5. NoRequest.op = "idle" /\ "idle" \notin HoldPc \cup StatePc
    BY DEF HoldPc, ParsePc, StatePc, NoRequest
  <2> QED
    BY <1>0, <2>2, <2>3, <2>4, <2>5 DEF RequestInv
<1>3. ASSUME UNCHANGED <<pc, req>> PROVE RequestInv'
  BY <1>0, <1>3 DEF RequestInv
<1>4. ASSUME NEW why, Die(why) PROVE RequestInv'
  BY <1>3, <1>4 DEF Die
<1>5. CASE AwaitLock(t) \/ EraseCrash(t) \/ Reject(t)
  BY <1>3, <1>4, <1>5 DEF AwaitLock, EraseCrash, Reject
<1>6. CASE CreateSystem(t) \/ DeleteSystem(t) \/ CreateKernel(t) \/ DeleteKernel(t)
  <2>1. pc[t] = "top" /\ pc' = [pc EXCEPT ![t] = "reply"] /\ req' = req
    BY <1>6 DEF CreateSystem, DeleteSystem, CreateKernel, DeleteKernel, Goto
  <2> QED
    BY <1>0, <2>1, RequestKept
<1>7. CASE Enter(t) \/ Spin(t) \/ Leave(t)
  BY <1>0, <1>4, <1>7, RequestKept DEF Enter, Spin, Leave, Goto, HoldPc, StatePc
<1>8. CASE Lookup(t) \/ Register(t)
  BY <1>0, <1>8, RequestKept DEF Lookup, Register, Goto, AfterLookup, HoldPc, ParsePc, StatePc
<1>9. CASE ParseEnter(t) \/ ParseSpin(t) \/ ParseLeave(t)
  BY <1>0, <1>4, <1>9, RequestKept DEF ParseEnter, ParseSpin, ParseLeave, Goto, HoldPc, ParsePc, StatePc
<1>10. CASE InsertState(t) \/ EraseState(t) \/ Compute(t) \/ InsertMacro(t)
  BY <1>0, <1>10, RequestKept DEF InsertState, EraseState, Compute, InsertMacro, Goto, HoldPc, StatePc
<1>11. CASE EnterState(t)
  BY <1>0, <1>4, <1>11, RequestKept DEF EnterState, Goto, HoldPc, StatePc
<1>12. CASE SpinState(t)
  BY <1>0, <1>12, RequestKept DEF SpinState, Goto, HoldPc, StatePc, RequestInv
<1>13. CASE RunProgram(t)
  BY <1>0, <1>13, RequestKept DEF RunProgram, Goto, HoldPc, StatePc
<1> QED
  BY <1>1, <1>2, <1>5, <1>6, <1>7, <1>8, <1>9, <1>10, <1>11, <1>12, <1>13 DEF Proceed

\* the steps inside leave the top lists alone
LEMMA InsideTop ==
  ASSUME Inv, NEW t \in Threads, InsideStep(t)
  PROVE  \A k \in TopLists : mutex'[k] = mutex[k]
<1>0. mutex \in [Lists -> MutexType(Threads)] /\ RequestInv
  BY DEF Inv, TypeOK
<1>1. CASE mutex' = mutex
  BY <1>1
<1>2. ASSUME NEW l, l \in Lists, l \notin TopLists,
             \/ Exclusively(t, l)
             \/ \E m : mutex' = [mutex EXCEPT ![l] = m]
      PROVE  \A k \in TopLists : mutex'[k] = mutex[k]
  BY <1>0, <1>2, ExclusivelyFacts, MutexUpdate DEF Lists
<1>3. CASE InsertState(t) \/ EraseState(t) \/ EnterState(t) \/ RunProgram(t)
  <2>1. pc[t] \in {"inner", "leave"} \cup ParsePc \cup StatePc /\ req[t].op \in SystemOps
    BY <1>0, <1>3 DEF InsertState, EraseState, EnterState, RunProgram, StatePc, RequestInv,
       EditOps, SystemOps
  <2>2. <<"states", req[t].id>> \in Lists /\ <<"states", req[t].id>> \notin TopLists
    BY <2>1, InnerFacts, ListNames, ListsDiffer
  <2>3. \/ Exclusively(t, <<"states", req[t].id>>) \/ mutex' = mutex
        \/ \E m : mutex' = [mutex EXCEPT ![<<"states", req[t].id>>] = m]
    BY <1>3 DEF InsertState, EraseState, EnterState, RunProgram, Die
  <2> QED
    BY <1>1, <1>2, <2>2, <2>3
<1>4. CASE InsertMacro(t)
  <2>1. pc[t] \in {"inner", "leave"} \cup ParsePc \cup StatePc /\ req[t].op \notin SystemOps
    BY <1>4 DEF InsertMacro, SystemOps
  <2>2. <<"macros", req[t].id>> \in Lists /\ <<"macros", req[t].id>> \notin TopLists
    BY <2>1, InnerFacts, ListNames, ListsDiffer
  <2> QED
    BY <1>2, <1>4, <2>2 DEF InsertMacro
<1>5. CASE Compute(t) \/ SpinState(t)
  BY <1>5 DEF Compute, SpinState
<1> QED
  BY <1>3, <1>4, <1>5 DEF InsideStep

\* edit_item of one worker enters and leaves a list for that worker only
LEMMA TopReaders ==
  ASSUME Inv, NEW t \in Threads, Arrive(t) \/ Proceed(t),
         NEW k \in {<<"systems">>, <<"kernels">>}
  PROVE  /\ \A u \in Threads : u # t => (u \in mutex'[k].readers <=> u \in mutex[k].readers)
         /\ t \in mutex'[k].readers => t \in mutex[k].readers \/ (Enter(t) /\ Present(t) /\ k = HomeList(t))
         /\ Leave(t) /\ k = HomeList(t) => t \notin mutex'[k].readers
<1>0. /\ mutex \in [Lists -> MutexType(Threads)] /\ RequestInv
      /\ <<"systems">> \in TopLists /\ <<"kernels">> \in TopLists
      /\ <<"interpreters">> \in TopLists /\ TopLists \subseteq Lists
      /\ HomeList(t) \in TopLists /\ k # <<"interpreters">> /\ k \in Lists
  BY ListsDiffer DEF Inv, TypeOK, TopLists, Lists, HomeList
<1>1. SUFFICES \/ mutex'[k].readers = mutex[k].readers /\ ~Leave(t)
               \/ Enter(t) /\ Present(t) /\ IF k = HomeList(t)
                                          THEN mutex'[k].readers = mutex[k].readers \cup {t}
                                          ELSE mutex'[k].readers = mutex[k].readers
               \/ Leave(t) /\ IF k = HomeList(t)
                              THEN mutex'[k].readers = mutex[k].readers \ {t}
                              ELSE mutex'[k].readers = mutex[k].readers
  <2>1. ~(Enter(t) /\ Leave(t))
    BY DEF Enter, Leave
  <2> QED
    BY <1>1, <2>1, Zenon
<1>2. CASE Enter(t) /\ Present(t)
  <2>1. mutex' = [mutex EXCEPT ![HomeList(t)] = LockShared(mutex[HomeList(t)], t)]
    BY <1>2 DEF Enter
  <2>2. /\ mutex'[HomeList(t)] = LockShared(mutex[HomeList(t)], t)
        /\ k # HomeList(t) => mutex'[k] = mutex[k]
    BY <1>0, <2>1, MutexUpdate
  <2> QED
    BY <1>2, <2>2 DEF LockShared
<1>3. CASE Leave(t)
  <2>1. mutex' = [mutex EXCEPT ![HomeList(t)] = UnlockShared(mutex[HomeList(t)], t)]
    BY <1>3 DEF Leave
  <2>2. /\ mutex'[HomeList(t)] = UnlockShared(mutex[HomeList(t)], t)
        /\ k # HomeList(t) => mutex'[k] = mutex[k]
    BY <1>0, <2>1, MutexUpdate
  <2> QED
    BY <1>3, <2>2 DEF UnlockShared
<1>4. CASE ~Leave(t) /\ ~(Enter(t) /\ Present(t))
  <2> SUFFICES mutex'[k].readers = mutex[k].readers
    BY <1>4
  <2>1. CASE mutex' = mutex
    BY <2>1
  <2>2. CASE AwaitLock(t)
    <3>1. PICK l \in TopLists : mutex' = [mutex EXCEPT ![l] = AwaitUnique(mutex[l])]
      BY <2>2, AwaitFacts
    <3>2. mutex'[l] = AwaitUnique(mutex[l]) /\ (k # l => mutex'[k] = mutex[k])
      BY <1>0, <3>1, MutexUpdate
    <3> QED
      BY <3>2 DEF AwaitUnique
  <2>3. CASE CreateSystem(t) \/ DeleteSystem(t) \/ CreateKernel(t) \/ DeleteKernel(t) \/ Register(t)
    <3>1. \E l \in TopLists : Exclusively(t, l)
      BY <1>0, <2>3 DEF CreateSystem, DeleteSystem, CreateKernel, DeleteKernel, Register
    <3> QED
      BY <1>0, <3>1, ExclusivelyReaders DEF TopLists
  <2>4. CASE ParseEnter(t) \/ ParseLeave(t)
    <3>1. mutex' = mutex \/ \E m : mutex' = [mutex EXCEPT ![<<"interpreters">>] = m]
      BY <2>4 DEF ParseEnter, ParseLeave, Die
    <3> QED
      BY <1>0, <3>1, <2>1, MutexUpdate
  <2>5. CASE InsideStep(t)
    BY <1>0, <2>5, InsideTop
  <2>6. CASE Arrive(t)
    BY <1>0, <2>1, <2>6, ArriveFacts
  <2>7. CASE Reply(t) \/ Spin(t) \/ Lookup(t) \/ ParseSpin(t) \/ EraseCrash(t) \/ Reject(t)
             \/ (Enter(t) /\ ~Present(t))
    BY <2>1, <2>7 DEF Reply, Spin, Lookup, ParseSpin, EraseCrash, Reject, Enter, Die
  <2> QED
    BY <1>4, <2>2, <2>3, <2>4, <2>5, <2>6, <2>7 DEF Proceed, InsideStep
<1> QED
  BY <1>2, <1>3, <1>4

\* Who is in, who owns, and how that changes.
LEMMA OwnerMoves ==
  ASSUME Inv, NEW t \in Threads, Arrive(t) \/ Proceed(t)
  PROVE  /\ \A u \in Threads : u # t =>
               /\ HomeList(u)' = HomeList(u) /\ HomeItem(u)' = HomeItem(u)
               /\ u \in mutex'[HomeList(u)'].readers <=> u \in mutex[HomeList(u)].readers
               /\ Owner(u)' <=> Owner(u)
         /\ t \in mutex'[HomeList(t)'].readers =>
               /\ HomeList(t)' = HomeList(t) /\ HomeItem(t)' = HomeItem(t) /\ req'[t] = req[t]
               /\ t \in mutex[HomeList(t)].readers \/ (Enter(t) /\ Present(t))
         /\ Owner(t)' => (Owner(t) /\ ~Leave(t)) \/ Spin(t)
<1>0. pc \in [Threads -> Labels] /\ RequestInv /\ HomeInv
  BY DEF Inv, TypeOK
<1>1. \A u \in Threads : HomeList(u) \in {<<"systems">>, <<"kernels">>}
  BY DEF HomeList
<1>2. ASSUME NEW u \in Threads, req'[u] = req[u]
      PROVE  HomeList(u)' = HomeList(u) /\ HomeItem(u)' = HomeItem(u)
  BY <1>2 DEF HomeList, HomeItem
<1>3. ASSUME NEW u \in Threads, u # t
      PROVE  /\ HomeList(u)' = HomeList(u) /\ HomeItem(u)' = HomeItem(u)
             /\ u \in mutex'[HomeList(u)'].readers <=> u \in mutex[HomeList(u)].readers
             /\ Owner(u)' <=> Owner(u)
  <2>1. pc'[u] = pc[u] /\ req'[u] = req[u]
    BY <1>3, OthersStay
  <2>2. u \in mutex'[HomeList(u)].readers <=> u \in mutex[HomeList(u)].readers
    BY <1>1, <1>3, TopReaders
  <2>3. HomeList(u)' = HomeList(u) /\ HomeItem(u)' = HomeItem(u)
    BY <1>2, <2>1
  <2> QED
    BY <2>1, <2>2, <2>3 DEF Owner
<1>4. ASSUME t \in mutex'[HomeList(t)'].readers
      PROVE  /\ HomeList(t)' = HomeList(t) /\ HomeItem(t)' = HomeItem(t) /\ req'[t] = req[t]
             /\ t \in mutex[HomeList(t)].readers \/ (Enter(t) /\ Present(t))
             /\ ~Leave(t)
  <2>1. HomeList(t)' \in {<<"systems">>, <<"kernels">>}
    BY DEF HomeList
  <2>2. t \in mutex[HomeList(t)'].readers \/ (Enter(t) /\ Present(t) /\ HomeList(t)' = HomeList(t))
    BY <1>4, <2>1, TopReaders
  <2>3. t \in mutex[HomeList(t)'].readers => pc[t] \notin {"idle", "reply"}
    BY <1>0, <2>1 DEF HomeInv, HoldPc, ParsePc, StatePc
  <2>4. ~Arrive(t) /\ ~Reply(t)
    BY <2>2, <2>3 DEF Arrive, Reply, Enter
  <2>5. req'[t] = req[t]
    BY <2>4 DEF Proceed, AwaitLock, CreateSystem, DeleteSystem, CreateKernel, DeleteKernel,
       EraseCrash, Die, Enter, Spin, Leave, Lookup, Register, ParseEnter, ParseSpin,
       ParseLeave, Reject, InsertState, EraseState, Compute, InsertMacro, EnterState,
       SpinState, RunProgram
  <2>6. HomeList(t)' = HomeList(t) /\ HomeItem(t)' = HomeItem(t)
    BY <1>2, <2>5
  <2>7. ~Leave(t)
    BY <1>1, <1>4, <2>6, TopReaders
  <2> QED
    BY <2>2, <2>5, <2>6, <2>7
<1>5. ASSUME Owner(t)' PROVE (Owner(t) /\ ~Leave(t)) \/ Spin(t)
  <2>1. t \in mutex'[HomeList(t)'].readers /\ pc'[t] # "spin"
    BY <1>5 DEF Owner
  <2>2. ~Enter(t) \/ ~Present(t)
    BY <1>0, <2>1 DEF Enter, Goto
  <2>3. pc[t] = "spin" => Spin(t)
    BY <1>0, <2>1 DEF Arrive, Proceed, Reply, AwaitLock, CreateSystem, DeleteSystem, CreateKernel,
       DeleteKernel, EraseCrash, Die, Enter, Leave, Lookup, Register, ParseEnter, ParseSpin,
       ParseLeave, Reject, InsertState, EraseState, Compute, InsertMacro, EnterState,
       SpinState, RunProgram, UniqueList
  <2> QED
    BY <1>4, <2>1, <2>2, <2>3 DEF Owner
<1> QED
  BY <1>3, <1>4, <1>5

LEMMA ItemsDiffer ==
  \A t, u \in Threads :
      /\ HomeItem(t) # ParserItem(u) /\ HomeItem(t) # StateItem(u) /\ ParserItem(t) # StateItem(u)
      /\ \A s, j : HomeItem(t) # <<"state", s, j>> /\ ParserItem(t) # <<"state", s, j>>
<1>1. \A t \in Threads : HomeItem(t)[1] \in {"systems", "kernels"}
  BY DEF HomeItem, HomeList
<1>2. \A t \in Threads : ParserItem(t)[1] = "interpreter" /\ StateItem(t)[1] = "state"
  BY DEF ParserItem, StateItem
<1>3. \A s, j : <<"state", s, j>>[1] = "state"
  OBVIOUS
<1>4. "interpreter" \notin {"systems", "kernels"} /\ "state" \notin {"systems", "kernels"}
      /\ "interpreter" # "state"
  OBVIOUS
<1> QED
  BY <1>1, <1>2, <1>3, <1>4, Zenon

\* which flags a step sets and clears
LEMMA FlagMoves ==
  ASSUME NEW t \in Threads, Arrive(t) \/ Proceed(t)
  PROVE  \/ Spin(t) /\ flags' = flags \cup {HomeItem(t)}
         \/ Leave(t) /\ flags' = flags \ {HomeItem(t)}
         \/ ParseSpin(t) /\ flags' = flags \cup {ParserItem(t)}
         \/ ParseLeave(t) /\ flags' = flags \ {ParserItem(t)}
         \/ SpinState(t) /\ flags' = flags \cup {StateItem(t)}
         \/ RunProgram(t) /\ flags' = flags \ {StateItem(t)}
         \/ flags' = flags /\ ~Spin(t) /\ ~Leave(t) /\ ~SpinState(t) /\ ~RunProgram(t)
<1>1. CASE Spin(t) \/ Leave(t) \/ ParseSpin(t) \/ ParseLeave(t) \/ SpinState(t) \/ RunProgram(t)
  BY <1>1 DEF Spin, Leave, ParseSpin, ParseLeave, SpinState, RunProgram
<1>2. CASE ~(Spin(t) \/ Leave(t) \/ ParseSpin(t) \/ ParseLeave(t) \/ SpinState(t) \/ RunProgram(t))
  <2>1. flags' = flags
    BY <1>2 DEF Proceed, Arrive, Reply, AwaitLock, CreateSystem, DeleteSystem, CreateKernel,
       DeleteKernel, EraseCrash, Die, Enter, Lookup, Register, ParseEnter, Reject,
       InsertState, EraseState, Compute, InsertMacro, EnterState
  <2> QED
    BY <1>2, <2>1
<1> QED
  BY <1>1, <1>2

\* A system or a kernel that is held is not deleted.
LEMMA PresentKept ==
  ASSUME Inv, NEW t \in Threads, Arrive(t) \/ Proceed(t),
         NEW u \in Threads, req'[u] = req[u], u \in mutex'[HomeList(u)].readers, Present(u)
  PROVE  Present(u)'
<1>0. mutex \in [Lists -> MutexType(Threads)]
  BY DEF Inv, TypeOK
<1>1. CASE CreateSystem(t) \/ CreateKernel(t)
  BY <1>1 DEF CreateSystem, CreateKernel, Present
<1>2. CASE DeleteSystem(t)
  <2>1. mutex'[<<"systems">>].readers = {}
    BY <1>0, <1>2, ExclusivelyFacts, ListNames DEF DeleteSystem, Unlocked
  <2>2. req[u].op \notin SystemOps
    BY <2>1 DEF HomeList
  <2> QED
    BY <1>2, <2>2 DEF DeleteSystem, Present
<1>3. CASE DeleteKernel(t)
  <2>1. mutex'[<<"kernels">>].readers = {}
    BY <1>0, <1>3, ExclusivelyFacts, ListNames DEF DeleteKernel, Unlocked
  <2>2. req[u].op \in SystemOps
    BY <2>1 DEF HomeList
  <2> QED
    BY <1>3, <2>2 DEF DeleteKernel, Present
<1>4. CASE ~(CreateSystem(t) \/ CreateKernel(t) \/ DeleteSystem(t) \/ DeleteKernel(t))
  <2>1. UNCHANGED <<systems, kernels>>
    BY <1>4 DEF Proceed, Arrive, Reply, AwaitLock, EraseCrash, Die, Enter, Spin, Leave, Lookup,
       Register, ParseEnter, ParseSpin, ParseLeave, Reject, InsertState, EraseState, Compute,
       InsertMacro, EnterState, SpinState, RunProgram, data
  <2> QED
    BY <2>1 DEF Present
<1> QED
  BY <1>1, <1>2, <1>3, <1>4

\* nor is a state that is held
LEMMA StateKept ==
  ASSUME Inv, NEW t \in Threads, Arrive(t) \/ Proceed(t),
         NEW u \in Threads, pc[u] \in StatePc, pc'[u] \in StatePc
  PROVE  req'[u] = req[u] /\ req[u].sub \in states'[req[u].id]
<1>0. /\ mutex \in [Lists -> MutexType(Threads)] /\ states \in [SystemIds -> SUBSET StateIds]
      /\ pc \in [Threads -> Labels] /\ RequestInv /\ HomeInv
  BY DEF Inv, TypeOK
<1>1. req'[u] = req[u]
  <2>1. CASE u # t
    BY <2>1, OthersStay
  <2>2. CASE u = t
    <3>1. ~Arrive(t) /\ ~Reply(t)
      BY <2>2 DEF Arrive, Reply, StatePc
    <3> QED
      BY <2>2, <3>1 DEF Proceed, AwaitLock, CreateSystem, DeleteSystem, CreateKernel, DeleteKernel,
       EraseCrash, Die, Enter, Spin, Leave, Lookup, Register, ParseEnter, ParseSpin,
       ParseLeave, Reject, InsertState, EraseState, Compute, InsertMacro, EnterState,
       SpinState, RunProgram
  <2> QED
    BY <2>1, <2>2
<1>2. req[u].op \in SystemOps /\ req[u].id \in SystemIds /\ Owner(u)
  BY <1>0, InnerFacts DEF RequestInv, EditOps, SystemOps
<1>3. u \in mutex[<<"systems">>].readers
  BY <1>2 DEF Owner, HomeList
<1>4. req[u].sub \in states[req[u].id]
  BY DEF Inv, OwnerInv
<1>5. CASE DeleteSystem(t)
  BY <1>0, <1>3, <1>5, ExclusivelyFacts, ListNames DEF DeleteSystem
<1>6. CASE InsertState(t)
  BY <1>0, <1>1, <1>2, <1>4, <1>6 DEF InsertState
<1>7. CASE EraseState(t)
  <2>1. Owner(t) /\ req[t].op \in SystemOps /\ pc[t] = "inner"
    BY <1>7, InnerFacts DEF EraseState, SystemOps
  <2>2. u # t
    BY <2>1 DEF StatePc
  <2>3. req[u].id # req[t].id
    <3>1. HomeItem(u) # HomeItem(t)
      BY <1>2, <2>1, <2>2 DEF Inv, OwnerInv
    <3> QED
      BY <1>2, <2>1, <3>1 DEF HomeItem, HomeList
  <2> QED
    BY <1>0, <1>1, <1>2, <1>4, <1>7, <2>3 DEF EraseState
<1>8. CASE ~(DeleteSystem(t) \/ InsertState(t) \/ EraseState(t))
  <2>1. states' = states
    BY <1>8 DEF Proceed, Arrive, Reply, AwaitLock, EraseCrash, Die, Enter, Spin, Leave, Lookup,
       Register, ParseEnter, ParseSpin, ParseLeave, Reject, Compute, CreateSystem, CreateKernel,
       DeleteKernel, InsertMacro, EnterState, SpinState, RunProgram, data
  <2> QED
    BY <1>1, <1>4, <2>1
<1> QED
  BY <1>5, <1>6, <1>7, <1>8

LEMMA OwnerStep ==
  ASSUME Inv, NEW t \in Threads, Arrive(t) \/ Proceed(t)
  PROVE  OwnerInv'
<1>0. /\ pc \in [Threads -> Labels] /\ RequestInv /\ OwnerInv
  BY DEF Inv, TypeOK
<1>1. ASSUME NEW u \in Threads, u \in mutex'[HomeList(u)'].readers
      PROVE  Present(u)'
  <2>1. HomeList(u)' = HomeList(u) /\ req'[u] = req[u]
    BY <1>1, OwnerMoves, OthersStay
  <2>2. Present(u)
    BY <1>0, <1>1, OwnerMoves DEF OwnerInv
  <2> QED
    BY <1>1, <2>1, <2>2, PresentKept
<1>2. ASSUME NEW u \in Threads, Owner(u)'
      PROVE  HomeItem(u)' = HomeItem(u) /\ HomeItem(u) \in flags'
  <2>1. HomeItem(u)' = HomeItem(u)
    BY <1>2, OwnerMoves DEF Owner
  <2>2. Owner(u) \/ (u = t /\ Spin(t))
    BY <1>2, OwnerMoves
  <2>3. Leave(t) => Owner(t) /\ u # t
    BY <1>2, OwnerMoves, InnerFacts DEF Leave, Spin
  <2>4. Owner(u) => HomeItem(u) \in flags
    BY <1>0 DEF OwnerInv
  <2>5. Leave(t) => HomeItem(u) # HomeItem(t)
    BY <1>0, <2>2, <2>3 DEF OwnerInv
  <2>6. HomeItem(u) # ParserItem(t) /\ HomeItem(u) # StateItem(t)
    BY ItemsDiffer
  <2>7. Spin(t) => flags' = flags \cup {HomeItem(t)}
    BY DEF Spin
  <2> QED
    BY <2>1, <2>2, <2>4, <2>5, <2>6, <2>7, FlagMoves
<1>3. ASSUME NEW u \in Threads, pc'[u] \in StatePc
      PROVE  req'[u].sub \in states'[req'[u].id]
  <2>1. CASE pc[u] \in StatePc
    BY <1>3, <2>1, StateKept
  <2>2. CASE pc[u] \notin StatePc
    <3>1. u = t /\ ~(pc' = pc /\ req' = req)
      BY <1>3, <2>2, OthersStay
    <3>2. InsideStep(t)
      BY <1>3, <3>1, OutsideFacts
    <3>3. EnterState(t) /\ req[t].sub \in states[req[t].id]
      BY <1>0, <1>3, <2>2, <3>1, <3>2 DEF InsideStep, InsertState, EraseState, Compute,
         InsertMacro, EnterState, SpinState, RunProgram, Goto, Die, StatePc
    <3> QED
      BY <3>1, <3>3 DEF EnterState, data
  <2> QED
    BY <2>1, <2>2
<1>4. ASSUME NEW u \in Threads, NEW v \in Threads, Owner(u)', Owner(v)',
             HomeItem(u)' = HomeItem(v)'
      PROVE  u = v
  <2>1. HomeItem(u) = HomeItem(v)
    BY <1>2, <1>4
  <2>2. (Owner(u) \/ (u = t /\ Spin(t))) /\ (Owner(v) \/ (v = t /\ Spin(t)))
    BY <1>4, OwnerMoves
  <2>3. Spin(t) => HomeItem(t) \notin flags
    BY DEF Spin
  <2> QED
    BY <1>0, <2>1, <2>2, <2>3 DEF OwnerInv
<1>5. ASSUME NEW s \in SystemIds, NEW j \in StateIds, <<"state", s, j>> \in flags'
      PROVE  \E u \in Threads : pc'[u] = "running" /\ req'[u].id = s /\ req'[u].sub = j
  <2>1. CASE SpinState(t) /\ <<"state", s, j>> = StateItem(t)
    <3>1. req[t].id = s /\ req[t].sub = j
      BY <2>1 DEF StateItem
    <3> QED
      BY <1>0, <2>1, <3>1 DEF SpinState, Goto
  <2>2. CASE ~(SpinState(t) /\ <<"state", s, j>> = StateItem(t))
    <3>1. <<"state", s, j>> \in flags
      BY <1>5, <2>2, FlagMoves, ItemsDiffer
    <3>2. PICK u \in Threads : pc[u] = "running" /\ req[u].id = s /\ req[u].sub = j
      BY <1>0, <3>1 DEF OwnerInv
    <3>3. CASE u # t
      BY <3>2, <3>3, OthersStay
    <3>4. CASE u = t
      <4>1. ~RunProgram(t)
        BY <1>5, <3>2, <3>4 DEF RunProgram, StateItem
      <4>2. UNCHANGED <<pc, req>>
        BY <3>2, <3>4, <4>1 DEF Proceed, Arrive, Reply, AwaitLock, EraseCrash, Die, Enter, Spin,
           Leave, Lookup, Register, ParseEnter, ParseSpin, ParseLeave, Reject, Compute,
           CreateSystem, DeleteSystem, CreateKernel, DeleteKernel, InsertMacro, EnterState, SpinState,
           InsertState, EraseState
      <4> QED
        BY <3>2, <4>2
    <3> QED
      BY <3>3, <3>4
  <2> QED
    BY <2>1, <2>2
<1> QED
  BY <1>1, <1>2, <1>3, <1>4, <1>5 DEF OwnerInv

\* the workers about to register an interpreter they built for d
Registering(d) == {t \in Threads : pc[t] = "register" /\ Dialect(t) = d}

LEMMA RegisteringFinite ==
  \A d : /\ IsFiniteSet(Registering(d)) /\ Cardinality(Registering(d)) \in Nat
         /\ Cardinality(Registering(d)) <= Cardinality(Threads) /\ Cardinality(Threads) \in Nat
<1> SUFFICES ASSUME NEW d
             PROVE  /\ IsFiniteSet(Registering(d)) /\ Cardinality(Registering(d)) \in Nat
                    /\ Cardinality(Registering(d)) <= Cardinality(Threads)
                    /\ Cardinality(Threads) \in Nat
  OBVIOUS
<1>1. Registering(d) \subseteq Threads
  BY DEF Registering
<1> QED
  BY <1>1, ThreadsAssumption, FS_Subset, FS_CardinalityType

LEMMA BuiltStep ==
  ASSUME Inv, NEW t \in Threads, Arrive(t) \/ Proceed(t)
  PROVE  BuiltInv'
<1>0. /\ pc \in [Threads -> Labels] /\ RequestInv /\ BuiltInv
      /\ built \in [Dialects -> Nat] /\ interpreters \subseteq Dialects
  BY DEF Inv, TypeOK
<1> DEFINE Right(d) == IF d \in interpreters THEN built[d] <= Cardinality(Threads)
                       ELSE built[d] = Cardinality(Registering(d))
           Found(u) == pc[u] \in ParsePc => Dialect(u) \in interpreters
<1>1. /\ BuiltInv = ((\A u \in Threads : Found(u)) /\ (\A d \in Dialects : Right(d)))
      /\ BuiltInv' = ((\A u \in Threads : Found(u)') /\ (\A d \in Dialects : Right(d)'))
  BY DEF BuiltInv, Registering
<1>2. /\ \A u \in Threads : Found(u)
      /\ \A d \in Dialects : Right(d)
  BY <1>0, <1>1
<1>3. \A u \in Threads : pc[u] # "idle" => Dialect(u) \in Dialects
  BY <1>0 DEF RequestInv, Dialect, NoRequest
<1>4. CASE Lookup(t)
  <2>1. /\ pc[t] = "lookup" /\ Dialect(t) \in Dialects /\ UNCHANGED <<interpreters, req>>
        /\ IF Dialect(t) \in interpreters
           THEN pc' = [pc EXCEPT ![t] = AfterLookup(t)] /\ built' = built
           ELSE pc' = [pc EXCEPT ![t] = "register"]
                /\ built' = [built EXCEPT ![Dialect(t)] = built[Dialect(t)] + 1]
    BY <1>3, <1>4 DEF Lookup, Goto
  <2>2. \A u \in Threads : Dialect(u)' = Dialect(u)
    BY <2>1 DEF Dialect
  <2>3. CASE Dialect(t) \in interpreters
    <3>1. AfterLookup(t) # "register"
      BY DEF AfterLookup
    <3>2. \A d : Registering(d)' = Registering(d)
      BY <1>0, <2>1, <2>2, <2>3, <3>1 DEF Registering
    <3>3. \A d \in Dialects : Right(d)'
      BY <1>2, <2>1, <2>3, <3>2
    <3>4. \A u \in Threads : Found(u)'
      BY <1>0, <1>2, <2>1, <2>2, <2>3
    <3> QED
      BY <1>1, <3>3, <3>4
  <2>4. CASE Dialect(t) \notin interpreters
    <3>1. \A u \in Threads : Found(u)'
      BY <1>0, <1>2, <2>1, <2>2, <2>4 DEF ParsePc
    <3>2. ASSUME NEW d \in Dialects PROVE Right(d)'
      <4>1. CASE d = Dialect(t)
        <5>1. t \notin Registering(d)
          BY <2>1 DEF Registering
        <5>2. Registering(d)' = Registering(d) \cup {t}
          BY <1>0, <2>1, <2>2, <2>4, <4>1 DEF Registering
        <5>3. Cardinality(Registering(d)') = Cardinality(Registering(d)) + 1
          BY <5>1, <5>2, RegisteringFinite, FS_AddElement
        <5>4. built'[d] = built[d] + 1 /\ built[d] = Cardinality(Registering(d))
          BY <1>0, <1>2, <2>1, <2>4, <4>1
        <5> QED
          BY <2>1, <2>4, <4>1, <5>3, <5>4
      <4>2. CASE d # Dialect(t)
        <5>1. Registering(d)' = Registering(d)
          BY <1>0, <2>1, <2>2, <2>4, <4>2 DEF Registering
        <5>2. built'[d] = built[d]
          BY <1>0, <2>1, <2>4, <4>2
        <5> QED
          BY <1>2, <2>1, <5>1, <5>2
      <4> QED
        BY <4>1, <4>2
    <3> QED
      BY <1>1, <3>1, <3>2
  <2> QED
    BY <2>3, <2>4
<1>5. CASE Register(t)
  <2>1. /\ pc[t] = "register" /\ Dialect(t) \in Dialects /\ UNCHANGED <<built, req>>
        /\ interpreters' = interpreters \cup {Dialect(t)}
        /\ pc' = [pc EXCEPT ![t] = AfterLookup(t)]
    BY <1>3, <1>5 DEF Register, Goto
  <2>2. \A u \in Threads : Dialect(u)' = Dialect(u)
    BY <2>1 DEF Dialect
  <2>3. \A u \in Threads : Found(u)'
    BY <1>0, <1>2, <2>1, <2>2
  <2>4. ASSUME NEW d \in Dialects PROVE Right(d)'
    <3>1. CASE d = Dialect(t)
      <4>1. built[d] <= Cardinality(Threads)
        BY <1>2, RegisteringFinite
      <4> QED
        BY <2>1, <3>1, <4>1
    <3>2. CASE d # Dialect(t)
      <4>1. Registering(d)' = Registering(d)
        BY <1>0, <2>1, <2>2, <3>2 DEF Registering
      <4> QED
        BY <1>2, <2>1, <3>2, <4>1
    <3> QED
      BY <3>1, <3>2
  <2> QED
    BY <1>1, <2>3, <2>4
<1>6. CASE ~Lookup(t) /\ ~Register(t)
  <2>1. UNCHANGED <<built, interpreters>>
    BY <1>6 DEF Proceed, Arrive, Reply, AwaitLock, EraseCrash, Die, Enter, Spin, Leave,
       ParseEnter, ParseSpin, ParseLeave, Reject, Compute,
       CreateSystem, DeleteSystem, CreateKernel, DeleteKernel, InsertMacro, EnterState, SpinState,
       InsertState, EraseState, RunProgram
  <2>2. \/ pc'[t] = pc[t] /\ req'[t] = req[t]
        \/ pc[t] # "register" /\ pc'[t] \notin {"register"} \cup ParsePc
        \/ pc[t] \in ParsePc /\ req'[t] = req[t] /\ pc'[t] # "register"
    <3>1. CASE Arrive(t)
      BY <1>0, <3>1, ArriveFacts, FirstLabels DEF ParsePc
    <3>2. CASE ParseEnter(t) \/ ParseSpin(t) \/ ParseLeave(t)
      BY <1>0, <3>2 DEF ParseEnter, ParseSpin, ParseLeave, Goto, Die, ParsePc
    <3>3. CASE AwaitLock(t) \/ EraseCrash(t) \/ Reject(t)
      BY <3>3 DEF AwaitLock, EraseCrash, Reject, Die
    <3>4. CASE Reply(t) \/ Enter(t) \/ Spin(t) \/ Leave(t)
      BY <1>0, <3>4 DEF Reply, Enter, Spin, Leave, Goto, Die, ParsePc
    <3>5. CASE CreateSystem(t) \/ DeleteSystem(t) \/ CreateKernel(t) \/ DeleteKernel(t)
      BY <1>0, <3>5 DEF CreateSystem, DeleteSystem, CreateKernel, DeleteKernel, Goto, ParsePc
    <3>6. CASE InsideStep(t)
      BY <1>0, <3>6 DEF InsideStep, InsertState, EraseState, Compute, InsertMacro,
         EnterState, SpinState, RunProgram, Goto, Die, ParsePc
    <3> QED
      BY <1>6, <3>1, <3>2, <3>3, <3>4, <3>5, <3>6 DEF Proceed, InsideStep
  <2>3. ASSUME NEW u \in Threads
        PROVE  /\ pc'[u] = "register" <=> pc[u] = "register"
               /\ pc[u] = "register" => Dialect(u)' = Dialect(u)
               /\ Found(u)'
    <3>1. CASE u # t
      BY <1>2, <2>1, <3>1, OthersStay DEF Dialect
    <3>2. CASE u = t
      BY <1>2, <2>1, <2>2, <3>2 DEF Dialect, ParsePc
    <3> QED
      BY <3>1, <3>2
  <2>4. \A d : Registering(d)' = Registering(d)
    BY <2>3 DEF Registering
  <2>5. \A d \in Dialects : Right(d)'
    BY <1>2, <2>1, <2>4
  <2> QED
    BY <1>1, <2>3, <2>5
<1> QED
  BY <1>4, <1>5, <1>6

LEMMA PendingFinite ==
  \A op, i : IsFiniteSet(Pending(op, i)) /\ Cardinality(Pending(op, i)) \in Nat
<1> SUFFICES ASSUME NEW op, NEW i
             PROVE  IsFiniteSet(Pending(op, i)) /\ Cardinality(Pending(op, i)) \in Nat
  OBVIOUS
<1>1. Pending(op, i) \subseteq Threads
  BY DEF Pending
<1> QED
  BY <1>1, ThreadsAssumption, FS_Subset, FS_CardinalityType

\* A step answers requests and leaves the others pending; one that answers t is
\* counted.
LEMMA PendingMoves ==
  ASSUME Inv, NEW t \in Threads, Proceed(t), NEW op \in MakeOps, NEW i
  PROVE  /\ Cardinality(Pending(op, i)') <= Cardinality(Pending(op, i))
         /\ t \in Pending(op, i) /\ pc'[t] \in {"leave", "reply"} =>
               Cardinality(Pending(op, i)') + 1 <= Cardinality(Pending(op, i))
         /\ Cardinality(Pending(op, i)') \in Nat
<1>0. pc \in [Threads -> Labels] /\ RequestInv
  BY DEF Inv, TypeOK
<1>1. req'[t].op = "idle" \/ req'[t] = req[t]
  <2>1. CASE Reply(t)
    BY <1>0, <2>1 DEF Reply, NoRequest, RequestInv
  <2>2. CASE ~Reply(t)
    BY <2>2 DEF Proceed, AwaitLock, CreateSystem, DeleteSystem, CreateKernel, DeleteKernel,
       EraseCrash, Die, Enter, Spin, Leave, Lookup, Register, ParseEnter, ParseSpin,
       ParseLeave, Reject, InsertState, EraseState, Compute, InsertMacro, EnterState,
       SpinState, RunProgram
  <2> QED
    BY <2>1, <2>2
<1>2. pc[t] \in {"leave", "reply"} => pc'[t] \in {"leave", "reply"} \/ req'[t].op = "idle"
  BY <1>0 DEF RequestInv, Proceed, Reply, NoRequest, AwaitLock, CreateSystem, DeleteSystem,
       CreateKernel, DeleteKernel, Goto,
       EraseCrash, Die, Enter, Spin, Leave, Lookup, Register, ParseEnter, ParseSpin,
       ParseLeave, Reject, InsertState, EraseState, Compute, InsertMacro, EnterState,
       SpinState, RunProgram
<1>3. op # "idle"
  BY DEF MakeOps
<1>4. \A u \in Threads : u # t => pc'[u] = pc[u] /\ req'[u] = req[u]
  BY OthersStay
<1>5. Pending(op, i)' \subseteq Pending(op, i)
  BY <1>1, <1>2, <1>3, <1>4 DEF Pending
<1>6. Cardinality(Pending(op, i)') <= Cardinality(Pending(op, i))
      /\ Cardinality(Pending(op, i)') \in Nat
  BY <1>5, PendingFinite, FS_Subset, FS_CardinalityType
<1>7. ASSUME t \in Pending(op, i), pc'[t] \in {"leave", "reply"}
      PROVE  Cardinality(Pending(op, i)') + 1 <= Cardinality(Pending(op, i))
  <2>1. Pending(op, i)' \subseteq Pending(op, i) \ {t}
    BY <1>5, <1>7 DEF Pending
  <2>2. /\ IsFiniteSet(Pending(op, i) \ {t})
        /\ Cardinality(Pending(op, i) \ {t}) = Cardinality(Pending(op, i)) - 1
    BY <1>7, PendingFinite, FS_RemoveElement
  <2>3. Cardinality(Pending(op, i)') <= Cardinality(Pending(op, i) \ {t})
    BY <2>1, <2>2, FS_Subset
  <2> QED
    BY <2>2, <2>3, <1>6, PendingFinite
<1> QED
  BY <1>6, <1>7

LEMMA LimitValues ==
  /\ Limit["create_system"] = MaxSystems /\ Limit["create_state"] = MaxStates
  /\ Limit["create_kernel"] = MaxKernels /\ Limit["compile_macro"] = MaxMacros
  /\ \A o \in MakeOps : Limit[o] \in Nat
  BY BoundsAreNat DEF Limit, MakeOps

LEMMA CountStep ==
  ASSUME Inv, NEW t \in Threads, Arrive(t) \/ Proceed(t)
  PROVE  CountInv'
<1>0. /\ pc \in [Threads -> Labels] /\ RequestInv /\ CountInv
      /\ newSystems \in Nat /\ newKernels \in Nat
      /\ newStates \in [SystemIds -> Nat] /\ macros \in [KernelIds -> Nat]
      /\ asked \in [MakeOps -> Nat]
  BY BoundsAreNat DEF Inv, TypeOK, CountInv
<1>a. /\ "create_system" \in MakeOps /\ "create_state" \in MakeOps
      /\ "create_kernel" \in MakeOps /\ "compile_macro" \in MakeOps
  BY DEF MakeOps
<1>1. CASE Arrive(t)
  <2> DEFINE r == req'[t]
  <2>1. /\ req[t].op = "idle" /\ r.op \in AllOps
        /\ r.op \in MakeOps => asked[r.op] < Limit[r.op]
        /\ r.op \in {"create_system", "create_kernel"} => r.id = 0
        /\ asked' = [o \in MakeOps |-> asked[o] + (IF o = r.op THEN 1 ELSE 0)]
        /\ UNCHANGED <<newSystems, newKernels, newStates, macros>>
    BY <1>0, <1>1, ArriveFacts DEF data
  <2>2. \A u \in Threads : u # t => pc'[u] = pc[u] /\ req'[u] = req[u]
    BY <1>1, OthersStay
  <2>3. /\ asked' \in [MakeOps -> Nat] /\ \A o \in MakeOps : asked'[o] <= Limit[o]
        /\ \A o \in MakeOps : asked'[o] = asked[o] + (IF o = r.op THEN 1 ELSE 0)
    BY <1>0, <2>1, LimitValues DEF CountInv
  <2>4. ASSUME NEW op \in MakeOps, NEW i, NEW n \in Nat,
               n + Cardinality(Pending(op, i)) <= asked[op]
        PROVE  n + Cardinality(Pending(op, i)') <= asked'[op]
    <3>1. t \notin Pending(op, i)
      BY <2>1 DEF Pending, MakeOps
    <3>2. Cardinality(Pending(op, i) \cup {t}) = Cardinality(Pending(op, i)) + 1
      BY <3>1, PendingFinite, FS_AddElement
    <3>3. CASE op = r.op
      <4>1. Pending(op, i)' \subseteq Pending(op, i) \cup {t}
        BY <2>2 DEF Pending
      <4>2. Cardinality(Pending(op, i)') <= Cardinality(Pending(op, i)) + 1
            /\ Cardinality(Pending(op, i)') \in Nat
        BY <3>2, <4>1, PendingFinite, FS_AddElement, FS_Subset, FS_CardinalityType
      <4> QED
        BY <1>0, <2>3, <2>4, <3>3, <4>2, PendingFinite
    <3>4. CASE op # r.op
      <4>1. Pending(op, i)' = Pending(op, i)
        BY <2>2, <3>1, <3>4 DEF Pending
      <4> QED
        BY <1>0, <2>3, <2>4, <3>4, <4>1
    <3> QED
      BY <3>3, <3>4
  <2>5. \A u \in Threads : req'[u].op \in {"create_system", "create_kernel"} => req'[u].id = 0
    BY <1>0, <2>1, <2>2 DEF CountInv
  <2>6. newSystems' + Cardinality(Pending("create_system", 0)') <= asked'["create_system"]
    BY <1>0, <1>a, <2>1, <2>4 DEF CountInv
  <2>7. newKernels' + Cardinality(Pending("create_kernel", 0)') <= asked'["create_kernel"]
    BY <1>0, <1>a, <2>1, <2>4 DEF CountInv
  <2>8. ASSUME NEW s \in SystemIds
        PROVE  newStates'[s] + Cardinality(Pending("create_state", s)') <= asked'["create_state"]
    BY <1>0, <1>a, <2>1, <2>4 DEF CountInv
  <2>9. ASSUME NEW k \in KernelIds
        PROVE  macros'[k] + Cardinality(Pending("compile_macro", k)') <= asked'["compile_macro"]
    BY <1>0, <1>a, <2>1, <2>4 DEF CountInv
  <2> QED
    BY <2>3, <2>5, <2>6, <2>7, <2>8, <2>9 DEF CountInv
<1>2. CASE Proceed(t)
  <2>1. asked' = asked
    BY <1>2 DEF Proceed, Reply, AwaitLock, CreateSystem, DeleteSystem, CreateKernel, DeleteKernel,
       EraseCrash, Die, Enter, Spin, Leave, Lookup, Register, ParseEnter, ParseSpin,
       ParseLeave, Reject, InsertState, EraseState, Compute, InsertMacro, EnterState,
       SpinState, RunProgram
  <2>2. \A u \in Threads : req'[u].op \in {"create_system", "create_kernel"} => req'[u].id = 0
    <3>1. CASE Reply(t)
      BY <1>0, <3>1 DEF Reply, NoRequest, RequestInv, CountInv
    <3>2. CASE ~Reply(t)
      <4>1. req' = req
        BY <1>2, <3>2 DEF Proceed, AwaitLock, CreateSystem, DeleteSystem, CreateKernel,
           DeleteKernel, EraseCrash, Die, Enter, Spin, Leave, Lookup, Register, ParseEnter,
           ParseSpin, ParseLeave, Reject, InsertState, EraseState, Compute, InsertMacro,
           EnterState, SpinState, RunProgram
      <4> QED
        BY <1>0, <4>1, SMTT(20) DEF CountInv
    <3> QED
      BY <3>1, <3>2
  <2>3. ASSUME NEW op \in MakeOps, NEW i, NEW n \in Nat, NEW m \in Nat,
               n + Cardinality(Pending(op, i)) <= asked[op],
               \/ m <= n
               \/ m = n + 1 /\ t \in Pending(op, i) /\ pc'[t] \in {"leave", "reply"}
        PROVE  m + Cardinality(Pending(op, i)') <= asked'[op]
    BY <1>0, <1>2, <2>1, <2>3, PendingMoves, PendingFinite
  <2>4. newSystems' + Cardinality(Pending("create_system", 0)') <= asked'["create_system"]
    <3>1. CASE CreateSystem(t)
      <4>1. /\ newSystems' = newSystems + 1 /\ pc'[t] = "reply"
            /\ t \in Pending("create_system", 0)
        BY <1>0, <3>1 DEF CreateSystem, Goto, Pending, CountInv
      <4> QED
        BY <1>0, <1>a, <2>3, <4>1 DEF CountInv
    <3>2. CASE ~CreateSystem(t)
      <4>1. newSystems' = newSystems
        BY <1>2, <3>2 DEF Proceed, Reply, AwaitLock, DeleteSystem, CreateKernel,
           DeleteKernel, EraseCrash, Die, Enter, Spin, Leave, Lookup, Register, ParseEnter,
           ParseSpin, ParseLeave, Reject, InsertState, EraseState, Compute, InsertMacro,
           EnterState, SpinState, RunProgram, data
      <4> QED
        BY <1>0, <1>a, <2>3, <4>1, SMTT(20) DEF CountInv
    <3> QED
      BY <3>1, <3>2
  <2>5. newKernels' + Cardinality(Pending("create_kernel", 0)') <= asked'["create_kernel"]
    <3>1. CASE CreateKernel(t)
      <4>1. /\ newKernels' = newKernels + 1 /\ pc'[t] = "reply"
            /\ t \in Pending("create_kernel", 0)
        BY <1>0, <3>1 DEF CreateKernel, Goto, Pending, CountInv
      <4> QED
        BY <1>0, <1>a, <2>3, <4>1 DEF CountInv
    <3>2. CASE ~CreateKernel(t)
      <4>1. newKernels' = newKernels
        BY <1>2, <3>2 DEF Proceed, Reply, AwaitLock, CreateSystem, DeleteSystem,
           DeleteKernel, EraseCrash, Die, Enter, Spin, Leave, Lookup, Register, ParseEnter,
           ParseSpin, ParseLeave, Reject, InsertState, EraseState, Compute, InsertMacro,
           EnterState, SpinState, RunProgram, data
      <4> QED
        BY <1>0, <1>a, <2>3, <4>1, SMTT(20) DEF CountInv
    <3> QED
      BY <3>1, <3>2
  <2>6. ASSUME NEW s \in SystemIds
        PROVE  newStates'[s] + Cardinality(Pending("create_state", s)') <= asked'["create_state"]
    <3>1. CASE InsertState(t) /\ req[t].id = s
      <4>1. /\ newStates'[s] = newStates[s] + 1 /\ pc'[t] = "leave"
            /\ t \in Pending("create_state", s)
        BY <1>0, <3>1 DEF InsertState, Goto, Pending
      <4>2. newStates[s] + Cardinality(Pending("create_state", s)) <= asked["create_state"]
        BY <1>0 DEF CountInv
      <4> QED
        BY <1>0, <1>a, <2>3, <4>1, <4>2
    <3>2. CASE ~(InsertState(t) /\ req[t].id = s)
      <4>1. newStates'[s] = newStates[s]
        <5>1. CASE InsertState(t)
          BY <1>0, <3>2, <5>1 DEF InsertState
        <5>2. CASE ~InsertState(t)
          BY <1>2, <5>2 DEF Proceed, Reply, AwaitLock, CreateSystem, DeleteSystem, CreateKernel,
             DeleteKernel, EraseCrash, Die, Enter, Spin, Leave, Lookup, Register, ParseEnter,
             ParseSpin, ParseLeave, Reject, EraseState, Compute, InsertMacro,
             EnterState, SpinState, RunProgram, data
        <5> QED
          BY <5>1, <5>2
      <4>2. newStates[s] + Cardinality(Pending("create_state", s)) <= asked["create_state"]
        BY <1>0 DEF CountInv
      <4> QED
        BY <1>0, <1>a, <2>3, <4>1, <4>2
    <3> QED
      BY <3>1, <3>2
  <2>7. ASSUME NEW k \in KernelIds
        PROVE  macros'[k] + Cardinality(Pending("compile_macro", k)') <= asked'["compile_macro"]
    <3>0. macros[k] + Cardinality(Pending("compile_macro", k)) <= asked["compile_macro"]
      BY <1>0 DEF CountInv
    <3>1. CASE InsertMacro(t) /\ req[t].id = k
      <4>1. /\ macros'[k] = macros[k] + 1 /\ pc'[t] = "leave"
            /\ t \in Pending("compile_macro", k)
        BY <1>0, <3>1 DEF InsertMacro, Goto, Pending
      <4> QED
        BY <1>0, <1>a, <2>3, <3>0, <4>1
    <3>2. CASE ~(InsertMacro(t) /\ req[t].id = k)
      <4>1. macros'[k] = macros[k] \/ macros'[k] = 0
        <5>1. CASE InsertMacro(t)
          BY <1>0, <3>2, <5>1 DEF InsertMacro
        <5>2. CASE DeleteKernel(t)
          BY <5>2 DEF DeleteKernel
        <5>3. CASE ~InsertMacro(t) /\ ~DeleteKernel(t)
          BY <1>2, <5>3 DEF Proceed, Reply, AwaitLock, CreateSystem, DeleteSystem, CreateKernel,
             EraseCrash, Die, Enter, Spin, Leave, Lookup, Register, ParseEnter,
             ParseSpin, ParseLeave, Reject, EraseState, Compute, InsertState,
             EnterState, SpinState, RunProgram, data
        <5> QED
          BY <5>1, <5>2, <5>3
      <4> QED
        BY <1>0, <1>a, <2>3, <3>0, <4>1
    <3> QED
      BY <3>1, <3>2
  <2> QED
    BY <1>0, <2>1, <2>2, <2>4, <2>5, <2>6, <2>7, SMTT(20) DEF CountInv
<1> QED
  BY <1>1, <1>2

\* A list has a mutex, whatever is done with it.
LEMMA MutexTyped ==
  ASSUME mutex \in [Lists -> MutexType(Threads)], NEW t \in Threads, Arrive(t) \/ Proceed(t)
  PROVE  mutex' \in [Lists -> MutexType(Threads)]
<1>1. ASSUME NEW l, NEW m, mutex' = [mutex EXCEPT ![l] = m],
             l \in Lists => m \in MutexType(Threads)
      PROVE  mutex' \in [Lists -> MutexType(Threads)]
  BY <1>1
<1>2. \A x \in MutexType(Threads) :
         /\ LockShared(x, t) \in MutexType(Threads) /\ UnlockShared(x, t) \in MutexType(Threads)
         /\ AwaitUnique(x) \in MutexType(Threads) /\ UnlockUnique(x, t) \in MutexType(Threads)
  BY DEF MutexType, LockShared, UnlockShared, AwaitUnique, UnlockUnique
<1>3. \A l \in Lists : mutex[l] \in MutexType(Threads)
  OBVIOUS
<1>4. \/ mutex' = mutex
      \/ \E l : mutex' = [mutex EXCEPT ![l] = LockShared(mutex[l], t)]
      \/ \E l : mutex' = [mutex EXCEPT ![l] = UnlockShared(mutex[l], t)]
      \/ \E l : mutex' = [mutex EXCEPT ![l] = AwaitUnique(mutex[l])]
      \/ \E l : mutex' = [mutex EXCEPT ![l] = UnlockUnique(mutex[l], t)]
  <2>1. ASSUME NEW l, Exclusively(t, l)
        PROVE  \E k : mutex' = [mutex EXCEPT ![k] = UnlockUnique(mutex[k], t)]
    BY <2>1 DEF Exclusively
  <2>2. CASE CreateSystem(t) \/ DeleteSystem(t) \/ CreateKernel(t) \/ DeleteKernel(t)
             \/ Register(t) \/ InsertState(t) \/ EraseState(t) \/ InsertMacro(t)
    BY <2>1, <2>2 DEF CreateSystem, DeleteSystem, CreateKernel, DeleteKernel, Register, InsertState,
       EraseState, InsertMacro
  <2>3. CASE AwaitLock(t) \/ Enter(t) \/ Leave(t) \/ ParseEnter(t) \/ ParseLeave(t)
             \/ EnterState(t) \/ RunProgram(t)
    BY <2>3 DEF AwaitLock, Enter, Leave, ParseEnter, ParseLeave, EnterState, RunProgram, Die
  <2>4. CASE Arrive(t) \/ Reply(t) \/ EraseCrash(t) \/ Spin(t) \/ Lookup(t) \/ ParseSpin(t)
             \/ Reject(t) \/ Compute(t) \/ SpinState(t)
    BY <2>4 DEF Arrive, Reply, EraseCrash, Spin, Lookup, ParseSpin, Reject, Compute, SpinState, Die
  <2> QED
    BY <2>2, <2>3, <2>4 DEF Proceed
<1> QED
  BY <1>1, <1>2, <1>3, <1>4

LEMMA TypeStep ==
  ASSUME Inv, NEW t \in Threads, Arrive(t) \/ Proceed(t)
  PROVE  TypeOK'
<1>0. /\ mutex \in [Lists -> MutexType(Threads)] /\ pc \in [Threads -> Labels] /\ RequestInv
      /\ MaxSystems \in Nat /\ MaxStates \in Nat /\ MaxKernels \in Nat /\ MaxMacros \in Nat
  BY BoundsAreNat DEF Inv, TypeOK
<1>1. mutex' \in [Lists -> MutexType(Threads)]
  BY <1>0, MutexTyped
<1>2. flags' \subseteq ({"systems"} \X SystemIds) \cup ({"kernels"} \X KernelIds)
                 \cup ({"interpreter"} \X Dialects) \cup ({"state"} \X SystemIds \X StateIds)
  <2>1. Spin(t) => HomeItem(t) \in ({"systems"} \X SystemIds) \cup ({"kernels"} \X KernelIds)
    <3> SUFFICES ASSUME Spin(t)
                 PROVE  HomeItem(t) \in ({"systems"} \X SystemIds) \cup ({"kernels"} \X KernelIds)
      OBVIOUS
    <3>1. req[t].op \in SystemOps \cup KernelOps /\ pc[t] \in HoldPc
      BY <1>0 DEF Spin, RequestInv, HoldPc
    <3>2. Present(t)
      BY <3>1 DEF Inv, HomeInv, OwnerInv, HomeList
    <3>3. systems \subseteq SystemIds /\ kernels \subseteq KernelIds
      BY DEF Inv, TypeOK
    <3> QED
      BY <3>2, <3>3 DEF Present, HomeItem, HomeList
  <2>2. ParseSpin(t) => ParserItem(t) \in {"interpreter"} \X Dialects
    BY <1>0 DEF ParseSpin, ParserItem, Dialect, RequestInv, NoRequest
  <2>3. SpinState(t) => StateItem(t) \in {"state"} \X SystemIds \X StateIds
    <3> SUFFICES ASSUME SpinState(t) PROVE StateItem(t) \in {"state"} \X SystemIds \X StateIds
      OBVIOUS
    <3>1. req[t].op \in SystemOps
      BY <1>0 DEF SpinState, RequestInv, StatePc, EditOps, SystemOps
    <3>2. req[t].id \in SystemIds
      BY <3>1, InnerFacts DEF SpinState, StatePc
    <3>3. req[t].sub \in StateIds
      BY <1>0, <3>1 DEF RequestInv, NoRequest, SystemOps
    <3> QED
      BY <3>2, <3>3 DEF StateItem
  <2>4. flags \subseteq ({"systems"} \X SystemIds) \cup ({"kernels"} \X KernelIds)
                 \cup ({"interpreter"} \X Dialects) \cup ({"state"} \X SystemIds \X StateIds)
    BY DEF Inv, TypeOK
  <2> DEFINE Items == ({"systems"} \X SystemIds) \cup ({"kernels"} \X KernelIds)
                 \cup ({"interpreter"} \X Dialects) \cup ({"state"} \X SystemIds \X StateIds)
  <2>5. /\ flags \subseteq Items
        /\ Spin(t) => HomeItem(t) \in Items
        /\ ParseSpin(t) => ParserItem(t) \in Items
        /\ SpinState(t) => StateItem(t) \in Items
    BY <2>1, <2>2, <2>3, <2>4, Zenon
  <2> HIDE DEF Items
  <2>6. flags' \subseteq Items
    BY <2>5, FlagMoves
  <2> QED
    BY <2>6 DEF Items
<1>3. CountInv'
  BY CountStep
<1>4. \A op \in MakeOps : \A i : Cardinality(Pending(op, i)') \in Nat
  <2> SUFFICES ASSUME NEW op \in MakeOps, NEW i PROVE Cardinality(Pending(op, i)') \in Nat
    OBVIOUS
  <2>1. Pending(op, i)' \subseteq Threads
    BY DEF Pending
  <2> QED
    BY <2>1, ThreadsAssumption, FS_Subset, FS_CardinalityType
<1>5. /\ "create_system" \in MakeOps /\ "create_state" \in MakeOps
      /\ "create_kernel" \in MakeOps /\ "compile_macro" \in MakeOps
  BY DEF MakeOps
<1>6. systems' \subseteq SystemIds /\ newSystems' \in 0 .. MaxSystems
  <2>0. systems \subseteq SystemIds /\ newSystems \in 0 .. MaxSystems
    BY DEF Inv, TypeOK
  <2>1. newSystems' \in Nat => newSystems' \in 0 .. MaxSystems
    BY <1>0, <1>3, <1>4, <1>5, LimitValues DEF CountInv
  <2>2. CASE CreateSystem(t)
    BY <1>0, <2>0, <2>1, <2>2 DEF CreateSystem, SystemIds
  <2>3. CASE ~CreateSystem(t)
    <3>1. newSystems' = newSystems /\ systems' \subseteq systems
      BY <2>3 DEF Proceed, Arrive, Reply, AwaitLock, EraseCrash, Die, Enter, Spin, Leave, Lookup,
         Register, ParseEnter, ParseSpin, ParseLeave, Reject, Compute, DeleteSystem,
         CreateKernel, DeleteKernel, InsertMacro, InsertState, EraseState, EnterState, SpinState,
         RunProgram, data
    <3> QED
      BY <2>0, <3>1
  <2> QED
    BY <2>2, <2>3
<1>7. kernels' \subseteq KernelIds /\ newKernels' \in 0 .. MaxKernels
  <2>0. kernels \subseteq KernelIds /\ newKernels \in 0 .. MaxKernels
    BY DEF Inv, TypeOK
  <2>1. newKernels' \in Nat => newKernels' \in 0 .. MaxKernels
    BY <1>0, <1>3, <1>4, <1>5, LimitValues DEF CountInv
  <2>2. CASE CreateKernel(t)
    BY <1>0, <2>0, <2>1, <2>2 DEF CreateKernel, KernelIds
  <2>3. CASE ~CreateKernel(t)
    <3>1. newKernels' = newKernels /\ kernels' \subseteq kernels
      BY <2>3 DEF Proceed, Arrive, Reply, AwaitLock, EraseCrash, Die, Enter, Spin, Leave, Lookup,
         Register, ParseEnter, ParseSpin, ParseLeave, Reject, Compute, CreateSystem, DeleteSystem,
         DeleteKernel, InsertMacro, InsertState, EraseState, EnterState, SpinState,
         RunProgram, data
    <3> QED
      BY <2>0, <3>1
  <2> QED
    BY <2>2, <2>3
<1>8. states' \in [SystemIds -> SUBSET StateIds] /\ newStates' \in [SystemIds -> 0 .. MaxStates]
  <2>0. states \in [SystemIds -> SUBSET StateIds] /\ newStates \in [SystemIds -> 0 .. MaxStates]
    BY DEF Inv, TypeOK
  <2>1. CASE InsertState(t)
    <3>1. req[t].id \in SystemIds
      BY <2>1, InnerFacts DEF InsertState, SystemOps
    <3>2. /\ newStates' = [newStates EXCEPT ![req[t].id] = newStates[req[t].id] + 1]
          /\ states' = [states EXCEPT ![req[t].id] = states[req[t].id] \cup {newStates[req[t].id]}]
      BY <2>1 DEF InsertState
    <3>3. newStates'[req[t].id] <= MaxStates /\ newStates'[req[t].id] = newStates[req[t].id] + 1
      BY <1>0, <1>3, <1>4, <1>5, <2>0, <3>1, <3>2, LimitValues DEF CountInv
    <3>4. newStates[req[t].id] \in StateIds
      BY <1>0, <2>0, <3>1, <3>3 DEF StateIds
    <3>5. newStates[req[t].id] + 1 \in 0 .. MaxStates
      BY <1>0, <2>0, <3>1, <3>3
    <3> QED
      BY <2>0, <3>1, <3>2, <3>4, <3>5
  <2>2. CASE EraseState(t)
    BY <2>0, <2>2 DEF EraseState
  <2>3. CASE DeleteSystem(t)
    BY <2>0, <2>3 DEF DeleteSystem
  <2>4. CASE ~(InsertState(t) \/ EraseState(t) \/ DeleteSystem(t))
    <3>1. UNCHANGED <<states, newStates>>
      BY <2>4 DEF Proceed, Arrive, Reply, AwaitLock, EraseCrash, Die, Enter, Spin, Leave, Lookup,
         Register, ParseEnter, ParseSpin, ParseLeave, Reject, Compute, CreateSystem, CreateKernel, DeleteKernel, InsertMacro, EnterState, SpinState,
         RunProgram, data
    <3> QED
      BY <2>0, <3>1
  <2> QED
    BY <2>1, <2>2, <2>3, <2>4
<1>9. macros' \in [KernelIds -> 0 .. MaxMacros]
  <2>0. macros \in [KernelIds -> 0 .. MaxMacros]
    BY DEF Inv, TypeOK
  <2>1. CASE InsertMacro(t)
    <3>1. req[t].id \in KernelIds
      BY <2>1, InnerFacts DEF InsertMacro, SystemOps
    <3>2. macros' = [macros EXCEPT ![req[t].id] = macros[req[t].id] + 1]
      BY <2>1 DEF InsertMacro
    <3>3. macros'[req[t].id] <= MaxMacros /\ macros'[req[t].id] = macros[req[t].id] + 1
      BY <1>0, <1>3, <1>4, <1>5, <2>0, <3>1, <3>2, LimitValues DEF CountInv
    <3>4. macros[req[t].id] + 1 \in 0 .. MaxMacros
      BY <1>0, <2>0, <3>1, <3>3
    <3> QED
      BY <2>0, <3>2, <3>4
  <2>2. CASE DeleteKernel(t)
    BY <1>0, <2>0, <2>2 DEF DeleteKernel
  <2>3. CASE ~(InsertMacro(t) \/ DeleteKernel(t))
    <3>1. macros' = macros
      BY <2>3 DEF Proceed, Arrive, Reply, AwaitLock, EraseCrash, Die, Enter, Spin, Leave, Lookup,
         Register, ParseEnter, ParseSpin, ParseLeave, Reject, Compute, CreateSystem, DeleteSystem,
         CreateKernel, InsertState, EraseState, EnterState, SpinState,
         RunProgram, data
    <3> QED
      BY <2>0, <3>1
  <2> QED
    BY <2>1, <2>2, <2>3
<1>10. interpreters' \subseteq Dialects /\ built' \in [Dialects -> Nat]
  <2>0. interpreters \subseteq Dialects /\ built \in [Dialects -> Nat]
    BY DEF Inv, TypeOK
  <2>1. CASE Lookup(t)
    BY <2>0, <2>1 DEF Lookup
  <2>2. CASE Register(t)
    BY <1>0, <2>0, <2>2 DEF Register, Dialect, RequestInv, NoRequest
  <2>3. CASE ~Lookup(t) /\ ~Register(t)
    <3>1. UNCHANGED <<built, interpreters>>
      BY <2>3 DEF Proceed, Arrive, Reply, AwaitLock, EraseCrash, Die, Enter, Spin, Leave, ParseEnter, ParseSpin, ParseLeave, Reject, Compute, CreateSystem, DeleteSystem,
         CreateKernel, DeleteKernel, InsertMacro, InsertState, EraseState, EnterState, SpinState,
         RunProgram
    <3> QED
      BY <2>0, <3>1
  <2> QED
    BY <2>1, <2>2, <2>3
<1>11. pc' \in [Threads -> Labels]
  <2>1. CASE Arrive(t)
    <3>1. FirstLabel(req'[t].op) \in Labels
      BY DEF FirstLabel, Labels
    <3> QED
      BY <1>0, <2>1, <3>1, ArriveFacts
  <2>2. CASE Proceed(t)
    <3>1. pc' = pc \/ \E x \in Labels : pc' = [pc EXCEPT ![t] = x]
      BY <2>2 DEF Goto, Labels, ParsePc, StatePc, AfterLookup, Proceed, Reply, AwaitLock, EraseCrash, Die, Enter, Spin, Leave, Lookup,
         Register, ParseEnter, ParseSpin, ParseLeave, Reject, Compute, CreateSystem, DeleteSystem,
         CreateKernel, DeleteKernel, InsertMacro, InsertState, EraseState, EnterState, SpinState,
         RunProgram
    <3> QED
      BY <1>0, <3>1, SMTT(20)
  <2> QED
    BY <2>1, <2>2
<1>12. cause' \in {"none", "erase", "missing", "interpreter", "rejected"}
  <2>0. cause \in {"none", "erase", "missing", "interpreter", "rejected"}
    BY DEF Inv, TypeOK
  <2> QED
    BY <2>0 DEF Proceed, Arrive, Reply, AwaitLock, EraseCrash, Die, Enter, Spin, Leave, Lookup,
         Register, ParseEnter, ParseSpin, ParseLeave, Reject, Compute, CreateSystem, DeleteSystem,
         CreateKernel, DeleteKernel, InsertMacro, InsertState, EraseState, EnterState, SpinState,
         RunProgram
<1> QED
  BY <1>1, <1>2, <1>6, <1>7, <1>8, <1>9, <1>10, <1>11, <1>12 DEF TypeOK

-----------------------------------------------------------------------------
(* The theorems.                                                             *)

LEMMA InvInit == Init => Inv
<1> SUFFICES ASSUME Init PROVE Inv
  OBVIOUS
<1>0. MaxSystems \in Nat /\ MaxStates \in Nat /\ MaxKernels \in Nat /\ MaxMacros \in Nat
  BY BoundsAreNat
<1>1. \A l \in Lists : mutex[l] = Unlocked
  BY DEF Init
<1>2. \A t \in Threads : req[t].op = "idle" /\ pc[t] = "idle"
  BY DEF Init, NoRequest
<1>3. TypeOK
  <2>1. mutex \in [Lists -> MutexType(Threads)]
    BY DEF Init, MutexType, Unlocked
  <2>2. built \in [Dialects -> Nat] /\ interpreters \subseteq Dialects
    BY DEF Init
  <2>3. pc \in [Threads -> Labels]
    BY DEF Init, Labels
  <2>4. systems \subseteq SystemIds /\ newSystems \in 0 .. MaxSystems
        /\ kernels \subseteq KernelIds /\ newKernels \in 0 .. MaxKernels
    BY <1>0 DEF Init
  <2>5. states \in [SystemIds -> SUBSET StateIds] /\ newStates \in [SystemIds -> 0 .. MaxStates]
        /\ macros \in [KernelIds -> 0 .. MaxMacros]
    BY <1>0 DEF Init
  <2> QED
    BY <2>1, <2>2, <2>3, <2>4, <2>5 DEF TypeOK, Init
<1>4. RequestInv
  BY <1>2 DEF RequestInv, Init, HoldPc, ParsePc, StatePc
<1>5. HomeInv
  BY <1>1, <1>2, ListNames DEF HomeInv, Unlocked, HoldPc, ParsePc, StatePc
<1>6. InnerInv
  BY <1>1, <1>2, ListNames DEF InnerInv, Unlocked, StatePc
<1>7. \A t \in Threads : t \notin mutex[HomeList(t)].readers
  BY <1>1, ListNames DEF HomeList, Unlocked
<1>8. OwnerInv
  BY <1>2, <1>7 DEF OwnerInv, Owner, Init, StatePc
<1>9. BuiltInv
  <2>1. \A d \in Dialects : {t \in Threads : pc[t] = "register" /\ Dialect(t) = d} = {}
    BY <1>2
  <2> QED
    BY <1>2, <2>1, FS_EmptySet DEF BuiltInv, Init, ParsePc
<1>10. CountInv
  <2>1. \A op \in MakeOps : \A i : Pending(op, i) = {}
    BY <1>2 DEF Pending, MakeOps
  <2>2. \A op \in MakeOps : \A i : Cardinality(Pending(op, i)) = 0
    BY <2>1, FS_EmptySet
  <2>3. /\ "create_system" \in MakeOps /\ "create_state" \in MakeOps
        /\ "create_kernel" \in MakeOps /\ "compile_macro" \in MakeOps
    BY DEF MakeOps
  <2>4. \A o \in MakeOps : asked[o] = 0 /\ 0 <= Limit[o]
    BY LimitValues DEF Init
  <2>5. asked \in [MakeOps -> Nat]
    BY DEF Init
  <2> QED
    BY <1>2, <2>2, <2>3, <2>4, <2>5 DEF CountInv, Init
<1> QED
  BY <1>3, <1>4, <1>5, <1>6, <1>8, <1>9, <1>10 DEF Inv

LEMMA InvStutter == Inv /\ UNCHANGED vars => Inv'
  BY DEF vars, data, Inv, TypeOK, RequestInv, HomeInv, InnerInv, OwnerInv, Owner, BuiltInv,
     CountInv, Pending, HomeItem, HomeList, Present, Dialect

\* Every conjunct of the inductive invariant survives every step of every handler.
THEOREM Invariance == Spec => []Inv
<1>1. Inv /\ [Next]_vars => Inv'
  <2> SUFFICES ASSUME Inv, [Next]_vars PROVE Inv'
    OBVIOUS
  <2>1. CASE \E t \in Threads : cause = "none" /\ (Arrive(t) \/ Proceed(t))
    BY <2>1, TypeStep, RequestStep, HomeStep, InnerStep, OwnerStep, BuiltStep, CountStep DEF Inv
  <2>2. CASE UNCHANGED vars
    BY <2>2, InvStutter
  <2> QED
    BY <2>1, <2>2 DEF Next, Dead
<1> QED
  BY <1>1, InvInit, PTL DEF Spec

\* The containers of universe.cpp hold what they were declared for, and no bound on
\* the requests is passed by the objects they make.
THEOREM TypeCorrect == Spec => []TypeOK
<1>1. Inv => TypeOK
  BY DEF Inv
<1> QED
  BY <1>1, Invariance, PTL

\* While edit_item's callback works inside a system or a kernel, on a state or a
\* macro, no other request destroys it; and no lock inside a deleted one is held.
THEOREM HeldObjectsLive == Spec => []NestedLifetime
<1>1. Inv => NestedLifetime
  <2> SUFFICES ASSUME Inv PROVE NestedLifetime
    OBVIOUS
  <2>0. RequestInv /\ HomeInv /\ InnerInv /\ OwnerInv /\ mutex \in [Lists -> MutexType(Threads)]
    BY DEF Inv, TypeOK
  <2>1. ASSUME NEW t \in Threads, Editing(t) PROVE Present(t)
    <3>1. CASE pc[t] \in HoldPc
      <4>1. t \in mutex[HomeList(t)].readers
        BY <2>0, <3>1 DEF RequestInv, HomeInv, HomeList
      <4> QED
        BY <2>0, <4>1 DEF OwnerInv
    <3>2. CASE Inside(t)
      BY <2>0, <3>2 DEF Inside, OwnerInv
    <3> QED
      BY <2>1, <3>1, <3>2 DEF Editing, HoldPc
  <2>2. \A t \in Threads : pc[t] \in StatePc => req[t].sub \in states[req[t].id]
    BY <2>0 DEF OwnerInv
  <2>3. ASSUME NEW s \in SystemIds, s \notin systems
        PROVE  mutex[<<"states", s>>] = Unlocked
    <3>1. ASSUME NEW t \in Threads, pc[t] \in StatePc, req[t].id = s PROVE FALSE
      <4>1. req[t].op \in SystemOps /\ Present(t)
        BY <2>0, <3>1, InnerFacts DEF RequestInv, EditOps, SystemOps
      <4> QED
        BY <2>3, <3>1, <4>1 DEF Present
    <3>2. mutex[<<"states", s>>] \in MutexType(Threads)
      BY <2>0, ListNames
    <3>3. mutex[<<"states", s>>].readers = {}
      BY <2>0, <3>1, <3>2 DEF InnerInv, MutexType
    <3> QED
      BY <2>0, <3>2, <3>3 DEF InnerInv, MutexType, Unlocked
  <2>4. \A k \in KernelIds : mutex[<<"macros", k>>] = Unlocked
    BY <2>0 DEF InnerInv
  <2> QED
    BY <2>1, <2>2, <2>3, <2>4 DEF NestedLifetime
<1> QED
  BY <1>1, Invariance, PTL

\* The flag edit_item sets on a system or a kernel keeps every other request away
\* from the lists inside: the inner locks are never contended.
THEOREM InnerLocksFree == Spec => []InnerUncontended
<1>1. Inv => InnerUncontended
  BY Uncontended
<1> QED
  BY <1>1, Invariance, PTL

\* However the check and the insert of initialize_interpreter interleave, a dialect
\* costs at most one interpreter per worker and the parser finds one.
THEOREM OneInterpreterPerWorker == Spec => []InterpreterRace
<1>1. Inv => InterpreterRace
  <2> SUFFICES ASSUME Inv PROVE InterpreterRace
    OBVIOUS
  <2>1. ASSUME NEW d \in Dialects PROVE built[d] <= Cardinality(Threads)
    <3>1. IF d \in interpreters THEN built[d] <= Cardinality(Threads)
          ELSE built[d] = Cardinality(Registering(d))
      BY DEF Inv, BuiltInv, Registering
    <3> QED
      BY <3>1, RegisteringFinite
  <2> QED
    BY <2>1 DEF Inv, BuiltInv, InterpreterRace
<1> QED
  BY <1>1, Invariance, PTL

-----------------------------------------------------------------------------
(* Refinement of UniverseSpec.                                               *)

\* what the abstract universe sees of worker t
AskOf(t) ==
    IF pc[t] = "idle" THEN [op |-> "idle", id |-> 0, sub |-> 0]
    ELSE IF pc[t] \in {"leave", "reply"} THEN [op |-> "done", id |-> 0, sub |-> 0]
    ELSE [op |-> req[t].op, id |-> req[t].id, sub |-> req[t].sub]

LEMMA AsksAre == Asks = [t \in Threads |-> AskOf(t)]
  BY DEF Asks, AskOf

\* The state the abstract universe sees of the others is theirs.
LEMMA AsksMove ==
  ASSUME Inv, NEW t \in Threads, Arrive(t) \/ Proceed(t)
  PROVE  Asks' = [Asks EXCEPT ![t] = AskOf(t)']
<1>1. \A u \in Threads : u # t => AskOf(u)' = AskOf(u)
  BY OthersStay DEF AskOf
<1>2. Asks' = [u \in Threads |-> AskOf(u)']
  BY DEF Asks, AskOf
<1> QED
  BY <1>1, <1>2, AsksAre

\* Each step of a worker is the instant at which its request acts, or hidden.
LEMMA StepRefines ==
  ASSUME Inv, NEW t \in Threads, Arrive(t) \/ Proceed(t)
  PROVE  Abstract!Next \/ UNCHANGED <<data, Asks>>
<1>0. /\ pc \in [Threads -> Labels] /\ RequestInv
      /\ MaxSystems \in Nat /\ MaxStates \in Nat /\ MaxKernels \in Nat
  BY BoundsAreNat DEF Inv, TypeOK
<1>1. /\ Asks[t] = AskOf(t) /\ Asks'[t] = AskOf(t)' /\ Asks' = [Asks EXCEPT ![t] = AskOf(t)']
      /\ Asks' = [Asks EXCEPT ![t] = Asks'[t]]
  BY AsksAre, AsksMove
<1>2. pc[t] \notin {"idle", "leave", "reply"} =>
         Asks[t] = [op |-> req[t].op, id |-> req[t].id, sub |-> req[t].sub]
  BY <1>1 DEF AskOf
<1>3. pc'[t] \in {"leave", "reply"} => Asks' = [Asks EXCEPT ![t] = Abstract!Done]
  BY <1>1 DEF AskOf, Abstract!Done
<1>4. ASSUME AskOf(t)' = AskOf(t) PROVE UNCHANGED Asks
  BY <1>1, <1>4, AsksAre
<1>5. CASE Arrive(t)
  <2>1. /\ pc[t] = "idle" /\ UNCHANGED data
        /\ req'[t] \in [op : AllOps, id : SystemIds \cup KernelIds, sub : StateIds,
                         dialect : Dialects]
    BY <1>0, <1>5, ArriveFacts
  <2>2. pc'[t] \in {"enter", "lookup", "top"}
    BY <1>0, <1>5, ArriveFacts, FirstLabels
  <2>3. Asks[t] = Abstract!Idle
    BY <1>1, <2>1 DEF AskOf, Abstract!Idle
  <2>4. Asks'[t] = [op |-> req'[t].op, id |-> req'[t].id, sub |-> req'[t].sub]
    BY <1>1, <2>2 DEF AskOf
  <2>5. Asks'[t] \in Abstract!Requests
    <3>1. req'[t].op \in AllOps /\ req'[t].id \in Nat /\ req'[t].sub \in Nat
      BY <1>0, <2>1 DEF SystemIds, KernelIds, StateIds
    <3> QED
      BY <2>4, <3>1 DEF Abstract!Requests, AllOps, SystemOps, KernelOps
  <2>6. Abstract!Arrive(t)
    BY <1>1, <2>1, <2>3, <2>5 DEF Abstract!Arrive, data
  <2> QED
    BY <2>6 DEF Abstract!Next
<1>6. CASE Reply(t)
  <2>1. Asks[t] = Abstract!Done /\ Asks' = [Asks EXCEPT ![t] = Abstract!Idle]
    BY <1>0, <1>1, <1>6 DEF Reply, Goto, AskOf, Abstract!Done, Abstract!Idle
  <2>2. Abstract!Reply(t)
    BY <1>6, <2>1 DEF Abstract!Reply, Reply, data
  <2> QED
    BY <2>2 DEF Abstract!Next
<1>7. ASSUME UNCHANGED <<data, pc, req>> PROVE UNCHANGED <<data, Asks>>
  BY <1>7 DEF Asks
<1>8. CASE AwaitLock(t) \/ EraseCrash(t) \/ Reject(t)
  BY <1>7, <1>8 DEF AwaitLock, EraseCrash, Reject, Die
<1>9. CASE CreateSystem(t)
  <2>1. pc[t] = "top" /\ pc'[t] = "reply" /\ req[t].op = "create_system"
    BY <1>0, <1>9 DEF CreateSystem, Goto
  <2>2. Abstract!Finish(t, "create_system")
    BY <1>2, <1>3, <2>1 DEF Abstract!Finish
  <2>3. Abstract!CreateSystem(t)
    BY <1>9, <2>2 DEF CreateSystem, Abstract!CreateSystem
  <2> QED
    BY <2>3 DEF Abstract!Next
<1>10. CASE DeleteSystem(t)
  <2>1. pc[t] = "top" /\ pc'[t] = "reply" /\ req[t].op = "delete_system"
    BY <1>0, <1>10 DEF DeleteSystem, Goto
  <2>2. Abstract!Finish(t, "delete_system") /\ Asks[t].id = req[t].id
    BY <1>2, <1>3, <2>1 DEF Abstract!Finish
  <2>3. Abstract!DeleteSystem(t)
    BY <1>10, <2>2 DEF DeleteSystem, Abstract!DeleteSystem, SystemIds, Abstract!SystemIds
  <2> QED
    BY <2>3 DEF Abstract!Next
<1>11. CASE CreateKernel(t)
  <2>1. pc[t] = "top" /\ pc'[t] = "reply" /\ req[t].op = "create_kernel"
    BY <1>0, <1>11 DEF CreateKernel, Goto
  <2>2. Abstract!Finish(t, "create_kernel")
    BY <1>2, <1>3, <2>1 DEF Abstract!Finish
  <2>3. Abstract!CreateKernel(t)
    BY <1>11, <2>2 DEF CreateKernel, Abstract!CreateKernel
  <2> QED
    BY <2>3 DEF Abstract!Next
<1>12. CASE DeleteKernel(t)
  <2>1. pc[t] = "top" /\ pc'[t] = "reply" /\ req[t].op = "delete_kernel"
    BY <1>0, <1>12 DEF DeleteKernel, Goto
  <2>2. Abstract!Finish(t, "delete_kernel") /\ Asks[t].id = req[t].id
    BY <1>2, <1>3, <2>1 DEF Abstract!Finish
  <2>3. Abstract!DeleteKernel(t)
    BY <1>12, <2>2 DEF DeleteKernel, Abstract!DeleteKernel, KernelIds, Abstract!KernelIds
  <2> QED
    BY <2>3 DEF Abstract!Next
<1>13. ASSUME UNCHANGED <<data, req>>,
              pc[t] \notin {"idle", "leave", "reply"}, pc'[t] \notin {"idle", "leave", "reply"}
       PROVE  UNCHANGED <<data, Asks>>
  <2>1. AskOf(t)' = AskOf(t)
    BY <1>13 DEF AskOf
  <2> QED
    BY <1>4, <1>13, <2>1
<1>14. CASE Enter(t) \/ Spin(t) \/ Lookup(t) \/ Register(t)
            \/ ParseEnter(t) \/ ParseSpin(t) \/ ParseLeave(t) \/ SpinState(t)
  <2>1. CASE \E why : Die(why)
    BY <1>7, <2>1 DEF Die
  <2>2. CASE ~\E why : Die(why)
    <3>1. UNCHANGED <<data, req>>
      BY <1>14, <2>2 DEF Enter, Spin, Lookup, Register, ParseEnter, ParseSpin, ParseLeave,
         SpinState
    <3>2. pc[t] \notin {"idle", "leave", "reply"} /\ pc'[t] \notin {"idle", "leave", "reply"}
      BY <1>0, <1>14, <2>2 DEF Enter, Spin, Lookup, Register, ParseEnter, ParseSpin, ParseLeave,
         SpinState, Goto, AfterLookup
    <3> QED
      BY <1>13, <3>1, <3>2
  <2> QED
    BY <2>1, <2>2
<1>15. CASE Leave(t)
  <2>1. AskOf(t)' = AskOf(t)
    BY <1>0, <1>15 DEF Leave, Goto, AskOf
  <2> QED
    BY <1>4, <1>15, <2>1 DEF Leave
<1>16. ASSUME pc[t] \in {"inner", "running"}, pc' = [pc EXCEPT ![t] = "leave"]
       PROVE  /\ Abstract!Finish(t, req[t].op)
              /\ Asks[t].id = req[t].id /\ Asks[t].sub = req[t].sub /\ Asks[t].op = req[t].op
              /\ req[t].op \in SystemOps => req[t].id \in systems
              /\ req[t].op = "compile_macro" => req[t].id \in kernels
  <2>1. Present(t)
    BY <1>16, InnerFacts DEF StatePc
  <2>2. pc'[t] = "leave"
    BY <1>0, <1>16
  <2>3. Asks[t] = [op |-> req[t].op, id |-> req[t].id, sub |-> req[t].sub]
    BY <1>2, <1>16
  <2>4. Abstract!Finish(t, req[t].op)
    BY <1>3, <2>2, <2>3 DEF Abstract!Finish
  <2>5. "compile_macro" \notin SystemOps
    BY DEF SystemOps
  <2> QED
    BY <2>1, <2>3, <2>4, <2>5 DEF Present
<1>17. CASE InsertState(t)
  <2>1. pc[t] = "inner" /\ req[t].op = "create_state" /\ pc' = [pc EXCEPT ![t] = "leave"]
    BY <1>17 DEF InsertState, Goto
  <2>2. Abstract!CreateState(t)
    BY <1>16, <1>17, <2>1 DEF InsertState, Abstract!CreateState, SystemOps
  <2> QED
    BY <2>2 DEF Abstract!Next
<1>18. CASE EraseState(t)
  <2>1. pc[t] = "inner" /\ req[t].op = "delete_state" /\ pc' = [pc EXCEPT ![t] = "leave"]
    BY <1>18 DEF EraseState, Goto
  <2>2. Abstract!DeleteState(t)
    BY <1>16, <1>18, <2>1 DEF EraseState, Abstract!DeleteState, SystemOps
  <2> QED
    BY <2>2 DEF Abstract!Next
<1>19. CASE Compute(t)
  <2>1. pc[t] = "inner" /\ req[t].op = "compute_result" /\ pc' = [pc EXCEPT ![t] = "leave"]
    BY <1>19 DEF Compute, Goto
  <2>2. Abstract!ComputeResult(t)
    BY <1>16, <1>19, <2>1 DEF Compute, Abstract!ComputeResult, SystemOps, data
  <2> QED
    BY <2>2 DEF Abstract!Next
<1>20. CASE InsertMacro(t)
  <2>1. pc[t] = "inner" /\ req[t].op = "compile_macro" /\ pc' = [pc EXCEPT ![t] = "leave"]
    BY <1>20 DEF InsertMacro, Goto
  <2>2. Abstract!CompileMacro(t)
    BY <1>16, <1>20, <2>1 DEF InsertMacro, Abstract!CompileMacro
  <2> QED
    BY <2>2 DEF Abstract!Next
<1>21. CASE EnterState(t)
  <2>1. CASE req[t].sub \in states[req[t].id]
    <3>1. UNCHANGED <<data, req>> /\ pc[t] = "inner" /\ pc'[t] = "stateSpin"
      BY <1>0, <1>21, <2>1 DEF EnterState, Goto
    <3> QED
      BY <1>13, <3>1
  <2>2. CASE req[t].sub \notin states[req[t].id]
    BY <1>7, <1>21, <2>2 DEF EnterState, Die
  <2> QED
    BY <2>1, <2>2
<1>22. CASE RunProgram(t)
  <2>1. /\ pc[t] = "running" /\ pc' = [pc EXCEPT ![t] = "leave"] /\ UNCHANGED data
        /\ req[t].op \in {"modify_state", "measure_state"}
    BY <1>0, <1>22 DEF RunProgram, Goto, RequestInv, StatePc, EditOps
  <2>2. req[t].sub \in states[req[t].id]
    BY <2>1 DEF Inv, OwnerInv, StatePc
  <2>3. Abstract!EditState(t)
    BY <1>16, <2>1, <2>2 DEF Abstract!EditState, SystemOps, data
  <2> QED
    BY <2>3 DEF Abstract!Next
<1> QED
  BY <1>5, <1>6, <1>8, <1>9, <1>10, <1>11, <1>12, <1>14, <1>15, <1>17, <1>18, <1>19, <1>20,
     <1>21, <1>22 DEF Proceed

\* Requests are linearizable, for any number of workers: every handler of universe.cpp
\* acts on the systems, states and kernels in one of its steps, and on what exists then.
THEOREM Linearizable == Spec => AtomicRequests
<1>1. Init => Abstract!Init
  <2> SUFFICES ASSUME Init PROVE Abstract!Init
    OBVIOUS
  <2>1. Asks = [t \in Threads |-> Abstract!Idle]
    BY DEF Init, Asks, Abstract!Idle
  <2> QED
    BY <2>1 DEF Init, Abstract!Init, SystemIds, Abstract!SystemIds, KernelIds, Abstract!KernelIds
<1>2. Inv /\ [Next]_vars => [Abstract!Next]_(Abstract!vars)
  <2> SUFFICES ASSUME Inv, [Next]_vars PROVE [Abstract!Next]_(Abstract!vars)
    OBVIOUS
  <2>1. CASE \E t \in Threads : cause = "none" /\ (Arrive(t) \/ Proceed(t))
    BY <2>1, StepRefines DEF Abstract!vars, data
  <2>2. CASE UNCHANGED vars
    BY <2>2 DEF vars, data, Abstract!vars, Asks
  <2> QED
    BY <2>1, <2>2 DEF Next, Dead
<1> QED
  BY <1>1, <1>2, Invariance, PTL DEF Spec, AtomicRequests, Abstract!Spec
=============================================================================
