----------------------------- MODULE ServerProofs -----------------------------
(* Proofs about Server for every number of worker slots, clients and signals. *)
EXTENDS Server, FiniteSetTheorems, SequenceTheorems, TLAPS

LEMMA WorkerCount == Cardinality(Workers) \in Nat
  BY WorkersAssumption, FS_CardinalityType

LEMMA SignalCount == Len(Signals) \in Nat
  BY SignalsAssumption

\* main asks for no more threads than there are slots by the time it starts one
LEMMA SlotIsFree ==
  ASSUME TypeOK, ThreadInv, SpawnWorker
  PROVE  spawned + 1 \in Workers /\ spawned \in Nat
  BY WorkersAssumption, WorkerCount DEF TypeOK, ThreadInv, SpawnWorker

LEMMA TypeStep ==
  ASSUME Inv, [Next]_vars
  PROVE  TypeOK'
<1> USE WorkerCount, SignalCount DEF Inv, TypeOK, mainVars, workerVars
<1>1. CASE UNCHANGED vars \/ Ended
  BY <1>1 DEF vars, Ended
<1>2. CASE Listen \/ SpawnProxy \/ SpawnFails \/ InstallHandler \/ Pause
  <2>1. CASE Listen
    BY <2>1 DEF Listen
  <2>2. CASE SpawnProxy \/ SpawnFails \/ Pause
    BY <2>2 DEF SpawnProxy, SpawnFails, Pause
  <2>3. CASE InstallHandler
    BY <2>3 DEF InstallHandler
  <2> QED
    BY <1>2, <2>1, <2>2, <2>3
<1>3. CASE SpawnWorker
  BY <1>3, SlotIsFree, WorkersAssumption DEF SpawnWorker
<1>4. CASE SendTerminate \/ SetExit \/ JoinWorkers \/ JoinProxy
  BY <1>4 DEF SendTerminate, SetExit, JoinWorkers, JoinProxy
<1>5. CASE ProxyConnect \/ ProxyTerminate
  BY <1>5 DEF ProxyConnect, ProxyTerminate
<1>6. ASSUME NEW c \in Clients, Return(c) \/ Send(c) \/ Accept(c) PROVE TypeOK'
  <2>1. CASE Return(c)
    BY <2>1 DEF Return
  <2>2. CASE Send(c)
    BY <2>2 DEF Send
  <2>3. CASE Accept(c)
    BY <2>3 DEF Accept
  <2> QED
    BY <1>6, <2>1, <2>2, <2>3
<1>7. ASSUME NEW c \in Clients, NEW w \in Workers, Forward(c, w) PROVE TypeOK'
  BY <1>7 DEF Forward
<1>8. ASSUME NEW w \in Workers, Connect(w) \/ TestExit(w) \/ Timeout(w) PROVE TypeOK'
  <2>1. CASE Connect(w)
    BY <2>1 DEF Connect
  <2>2. CASE TestExit(w)
    BY <2>2 DEF TestExit
  <2>3. CASE Timeout(w)
    BY <2>3 DEF Timeout
  <2> QED
    BY <1>8, <2>1, <2>2, <2>3
<1>9. ASSUME NEW w \in Workers, Receive(w) PROVE TypeOK'
  <2>1. Head(queue[w]) \in Clients /\ Tail(queue[w]) \in Seq(Clients)
    BY <1>9 DEF Receive
  <2>2. late' \in [Workers -> Nat]
    BY <1>9 DEF Receive
  <2> QED
    BY <1>9, <2>1, <2>2 DEF Receive
<1>10. ASSUME NEW w \in Workers, Serve(w) \/ ServeThrows(w) \/ Hang(w) PROVE TypeOK'
  <2>1. CASE Serve(w)
    BY <2>1 DEF Serve
  <2>2. CASE ServeThrows(w)
    BY <2>2 DEF ServeThrows
  <2>3. CASE Hang(w)
    BY <2>3 DEF Hang
  <2> QED
    BY <1>10, <2>1, <2>2, <2>3
<1>11. ASSUME NEW i \in DOMAIN Signals, Signal(Signals[i]) PROVE TypeOK'
  BY <1>11 DEF Signal
<1> QED
  BY <1>1, <1>2, <1>3, <1>4, <1>5, <1>6, <1>7, <1>8, <1>9, <1>10, <1>11
     DEF Next, Main, Proxy, Worker

LEMMA ThreadStep ==
  ASSUME Inv, [Next]_vars
  PROVE  ThreadInv'
<1> USE WorkerCount, WorkersAssumption, ClientsAssumption
    DEF Inv, TypeOK, ThreadInv, mainVars, workerVars
<1>1. CASE UNCHANGED vars \/ Ended
  BY <1>1 DEF vars, Ended
<1>2. CASE Listen \/ SpawnProxy \/ SpawnFails \/ InstallHandler \/ Pause
  BY <1>2 DEF Listen, SpawnProxy, SpawnFails, InstallHandler, Pause
<1>3. CASE SpawnWorker
  BY <1>3, SlotIsFree, SMTT(20) DEF SpawnWorker
<1>4. CASE SendTerminate \/ SetExit \/ JoinWorkers \/ JoinProxy
  BY <1>4 DEF SendTerminate, SetExit, JoinWorkers, JoinProxy
<1>5. CASE Running /\ (ProxyConnect \/ ProxyTerminate)
  BY <1>5 DEF ProxyConnect, ProxyTerminate, Running
<1>6. ASSUME NEW c \in Clients, Return(c) \/ Send(c) \/ Accept(c) PROVE ThreadInv'
  BY <1>6 DEF Return, Send, Accept
<1>7. ASSUME NEW c \in Clients, NEW w \in Workers, Forward(c, w) PROVE ThreadInv'
  BY <1>7 DEF Forward
<1>8. ASSUME NEW w \in Workers, Running, Connect(w) \/ TestExit(w) \/ Timeout(w)
      PROVE  ThreadInv'
  <2>1. worker[w] \in {"new", "loop", "recv"}
    BY <1>8 DEF Connect, TestExit, Timeout
  <2>2. worker' = [worker EXCEPT ![w] = worker'[w]] /\ worker'[w] \in {"loop", "recv", "gone"}
    BY <1>8 DEF Connect, TestExit, Timeout
  <2>3. UNCHANGED <<threads, main, spawned, proxy, work>>
    BY <1>8 DEF Connect, TestExit, Timeout
  <2>4. w \in 1 .. spawned
    BY <2>1
  <2>5. main \notin {"joinProxy", "returned"}
    BY <2>1, <2>4
  <2>6. \A v \in Workers : v # w => worker'[v] = worker[v]
    BY <2>2
  <2>7. \A v \in Workers : worker'[v] = "none" <=> v > spawned
    BY <2>1, <2>2, <2>6
  <2>8. \A v \in Workers : work[v] # NoClient <=> worker'[v] \in {"busy", "stuck"}
    BY <2>1, <2>2, <2>6
  <2> QED
    BY <2>3, <2>5, <2>7, <2>8
<1>9. ASSUME NEW w \in Workers, Receive(w) PROVE ThreadInv'
  <2>1. Head(queue[w]) # NoClient
    BY <1>9 DEF Receive
  <2> QED
    BY <1>9, <2>1 DEF Receive
<1>10. ASSUME NEW w \in Workers, Serve(w) \/ ServeThrows(w) \/ Hang(w) PROVE ThreadInv'
  <2>1. CASE Serve(w)
    BY <2>1 DEF Serve
  <2>2. CASE ServeThrows(w)
    BY <2>2 DEF ServeThrows
  <2>3. CASE Hang(w)
    BY <2>3 DEF Hang
  <2> QED
    BY <1>10, <2>1, <2>2, <2>3
<1>11. ASSUME NEW i \in DOMAIN Signals, Signal(Signals[i]) PROVE ThreadInv'
  BY <1>11 DEF Signal, Running
<1> QED
  BY <1>1, <1>2, <1>3, <1>4, <1>5, <1>6, <1>7, <1>8, <1>9, <1>10, <1>11
     DEF Next, Main, Proxy, Worker

LEMMA LateStep ==
  ASSUME Inv, [Next]_vars
  PROVE  LateInv'
<1> USE DEF Inv, TypeOK, LateInv, mainVars, workerVars, Running
<1>1. CASE UNCHANGED vars \/ Ended
  BY <1>1 DEF vars, Ended
<1>2. CASE Listen \/ SpawnProxy \/ SpawnFails \/ InstallHandler \/ Pause
  BY <1>2 DEF Listen, SpawnProxy, SpawnFails, InstallHandler, Pause
<1>3. CASE SpawnWorker
  <2>1. worker[spawned + 1] = "none"
    <3>1. spawned + 1 \in Workers /\ spawned + 1 > spawned
      BY <1>3, SlotIsFree
    <3> QED
      BY <3>1 DEF ThreadInv
  <2> QED
    BY <1>3, <2>1, SlotIsFree DEF SpawnWorker
<1>4. CASE SendTerminate \/ SetExit \/ JoinWorkers \/ JoinProxy
  BY <1>4 DEF SendTerminate, SetExit, JoinWorkers, JoinProxy
<1>5. CASE ProxyConnect \/ ProxyTerminate
  BY <1>5 DEF ProxyConnect, ProxyTerminate
<1>6. ASSUME NEW c \in Clients, Return(c) \/ Send(c) \/ Accept(c) PROVE LateInv'
  BY <1>6 DEF Return, Send, Accept
<1>7. ASSUME NEW c \in Clients, NEW w \in Workers, Forward(c, w) PROVE LateInv'
  BY <1>7 DEF Forward
<1>8. ASSUME NEW w \in Workers, Running, Connect(w) \/ TestExit(w) \/ Timeout(w)
      PROVE  LateInv'
  <2>1. CASE TestExit(w) /\ doExit
    BY <1>8, <2>1 DEF TestExit
  <2>2. CASE TestExit(w) /\ ~doExit
    BY <1>8, <2>2 DEF TestExit
  <2>3. CASE Connect(w) \/ Timeout(w)
    BY <2>3 DEF Connect, Timeout
  <2> QED
    BY <1>8, <2>1, <2>2, <2>3
<1>9. ASSUME NEW w \in Workers, Receive(w) PROVE LateInv'
  BY <1>9 DEF Receive
<1>10. ASSUME NEW w \in Workers, Serve(w) \/ ServeThrows(w) \/ Hang(w) PROVE LateInv'
  <2>1. CASE Serve(w)
    BY <2>1 DEF Serve
  <2>2. CASE ServeThrows(w)
    BY <2>2 DEF ServeThrows
  <2>3. CASE Hang(w)
    BY <2>3 DEF Hang
  <2> QED
    BY <1>10, <2>1, <2>2, <2>3
<1>11. ASSUME NEW i \in DOMAIN Signals, Signal(Signals[i]) PROVE LateInv'
  BY <1>11 DEF Signal, Running
<1> QED
  BY <1>1, <1>2, <1>3, <1>4, <1>5, <1>6, <1>7, <1>8, <1>9, <1>10, <1>11
     DEF Next, Main, Proxy, Worker

LEMMA InitInv == Init => Inv
<1> SUFFICES ASSUME Init PROVE Inv
  OBVIOUS
<1> USE WorkerCount, SignalCount DEF Init
<1>1. TypeOK
  <2>1. queue \in [Workers -> Seq(Clients)]
    BY EmptySeq
  <2>2. signalled \subseteq {Signals[i] : i \in DOMAIN Signals}
    OBVIOUS
  <2>3. /\ worker \in [Workers -> {"none", "new", "loop", "recv", "busy", "stuck", "gone"}]
        /\ work \in [Workers -> Clients \cup {NoClient}]
        /\ late \in [Workers -> Nat]
        /\ request \in [Clients -> {"idle", "frontend", "queued", "working", "backend",
                                    "answered"}]
    OBVIOUS
  <2>4. /\ handlers \in 0 .. Len(Signals) /\ spawned \in 0 .. Cardinality(Workers)
        /\ threads \in 0 .. Cardinality(Workers) + 1
    OBVIOUS
  <2>5. isRunning \in BOOLEAN /\ doExit \in BOOLEAN
    OBVIOUS
  <2> HIDE DEF Init
  <2> QED
    BY <2>1, <2>2, <2>3, <2>4, <2>5 DEF TypeOK, Init
<1>2. ThreadInv
  BY WorkersAssumption DEF ThreadInv
<1>3. LateInv
  BY DEF LateInv
<1> QED
  BY <1>1, <1>2, <1>3 DEF Inv

\* Inv holds in every reachable state of the process, whatever the signals, the
\* clients and the ZeroMQ queues do.
THEOREM Invariance == Spec => []Inv
<1>1. ASSUME Inv, [Next]_vars PROVE Inv'
  BY <1>1, TypeStep, ThreadStep, LateStep DEF Inv
<1> QED
  BY <1>1, InitInv, PTL DEF Spec

\* The variables stay in their types; in particular main never starts more workers
\* than workerThreads[] has slots, since listen() refuses.
THEOREM TypeCorrect == Spec => []TypeOK
<1>1. Inv => TypeOK
  BY DEF Inv
<1> QED
  BY <1>1, Invariance, PTL

\* stop() joins all that listen() started: when main returns, proxy_work and every
\* work() have returned, and no worker is in the middle of a request.
THEOREM EveryThreadJoined == Spec => []NoThreadOutlivesMain
<1>1. Inv => NoThreadOutlivesMain
  <2> SUFFICES ASSUME Inv, main = "returned", NEW w \in Workers
               PROVE  /\ proxy = "gone"
                      /\ worker[w] \in {"none", "gone"} /\ work[w] = NoClient
    BY DEF NoThreadOutlivesMain, Inv, ThreadInv
  <2>1. w > spawned \/ w \in 1 .. spawned
    BY WorkersAssumption, WorkerCount DEF Inv, TypeOK
  <2> QED
    BY <2>1 DEF Inv, ThreadInv, TypeOK
<1> QED
  BY <1>1, Invariance, PTL

\* Once doExit is set, work() takes at most the request that its current recv()
\* returns.
THEOREM LateRequestsBounded == Spec => []AtMostOneLate
<1>1. Inv => AtMostOneLate
  <2> SUFFICES ASSUME Inv, NEW w \in Workers PROVE late[w] <= 1
    BY DEF AtMostOneLate
  <2>1. late[w] = 0 \/ late[w] = 1
    BY DEF Inv, LateInv
  <2> QED
    BY <2>1
<1> QED
  BY <1>1, Invariance, PTL
=============================================================================
