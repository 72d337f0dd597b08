-------------------------------- MODULE Server --------------------------------
(* The process around the universe: main (sabot.cpp), the server it starts    *)
(* and stops (net/server.cpp), the proxy thread between the clients' socket   *)
(* and the workers' socket, and the pool of worker threads.  What a worker    *)
(* does to serve a request is the subject of Universe, CallPath and Program;  *)
(* here it ends with a reply, throws what nobody catches, or never returns.   *)
(* ZeroMQ is modelled from its use: the front end holds what clients sent,    *)
(* the DEALER socket queues each request at one of the connected workers, and *)
(* PUB drops a message when no subscriber is connected.                       *)
EXTENDS Naturals, Sequences, FiniteSets

CONSTANTS Workers,   \* slots of workerThreads[]: NET_SERVER_MAX_THREADS of them
          Clients,   \* clients, each with at most one request outstanding
          Signals    \* the signals main installs a handler for, in this order

NoClient == 0

ASSUME WorkersAssumption == IsFiniteSet(Workers) /\ Workers = 1 .. Cardinality(Workers)
ASSUME ClientsAssumption == NoClient \notin Clients
ASSUME SignalsAssumption ==
    /\ Signals \in Seq({Signals[i] : i \in DOMAIN Signals})
    /\ \A i, j \in DOMAIN Signals : Signals[i] = Signals[j] => i = j

VARIABLES threads,    \* the -t option: how many workers main asks for
          main,       \* where the main thread is
          handlers,   \* number of sigaction calls made
          signalled,  \* signals that have arrived
          spawned,    \* number of worker threads started
          isRunning, doExit,
          control,    \* TERMINATE on the control socket: "none", "sent", "read"
          proxy,      \* the proxy thread: "none", "new", "running", "gone"
          worker,     \* where each worker thread is
          queue,      \* requests ZeroMQ has handed to each worker
          work,       \* the request each worker is serving
          late,       \* history: requests each worker took after doExit was set
          request     \* where each client's request is

vars == <<threads, main, handlers, signalled, spawned, isRunning, doExit, control,
          proxy, worker, queue, work, late, request>>

mainVars   == <<threads, main, handlers, signalled, spawned, isRunning, doExit>>
workerVars == <<worker, queue, work, late>>

TypeOK ==
    /\ threads \in 0 .. Cardinality(Workers) + 1
    /\ main \in {"listen", "spawn", "sigaction", "prepause", "paused", "terminate",
                 "exitFlag", "join", "joinProxy", "returned", "killed", "aborted"}
    /\ handlers \in 0 .. Len(Signals)
    /\ signalled \subseteq {Signals[i] : i \in DOMAIN Signals}
    /\ spawned \in 0 .. Cardinality(Workers)
    /\ isRunning \in BOOLEAN /\ doExit \in BOOLEAN
    /\ control \in {"none", "sent", "read"}
    /\ proxy \in {"none", "new", "running", "gone"}
    /\ worker \in [Workers -> {"none", "new", "loop", "recv", "busy", "stuck", "gone"}]
    /\ queue \in [Workers -> Seq(Clients)]
    /\ work \in [Workers -> Clients \cup {NoClient}]
    /\ late \in [Workers -> Nat]
    /\ request \in [Clients -> {"idle", "frontend", "queued", "working", "backend",
                                "answered"}]

Init ==
    /\ threads \in 0 .. Cardinality(Workers) + 1
    /\ main = "listen" /\ handlers = 0 /\ signalled = {} /\ spawned = 0
    /\ isRunning = FALSE /\ doExit = FALSE
    /\ control = "none" /\ proxy = "none"
    /\ worker = [w \in Workers |-> "none"]
    /\ queue = [w \in Workers |-> << >>]
    /\ work = [w \in Workers |-> NoClient]
    /\ late = [w \in Workers |-> 0]
    /\ request = [c \in Clients |-> "idle"]

Running == main \notin {"returned", "killed", "aborted"}

-----------------------------------------------------------------------------
(* main and server::listen, server::stop                                      *)

\* Variants with a plausible mistake; the properties tell them apart.
ListenUnchecked ==
    /\ main = "listen"
    /\ main' = "spawn" /\ isRunning' = TRUE
    /\ UNCHANGED <<threads, handlers, signalled, spawned, doExit, control, proxy,
                   workerVars, request>>

\* listen() refuses too many threads, and bind() throws when an endpoint is bad or
\* in use; main catches neither exception
Listen ==
    /\ main = "listen"
    /\ \/ /\ threads > Cardinality(Workers)
          /\ main' = "aborted"
          /\ UNCHANGED isRunning
       \/ /\ threads <= Cardinality(Workers)
          /\ isRunning' = TRUE
          /\ main' \in {"spawn", "aborted"}
    /\ UNCHANGED <<threads, handlers, signalled, spawned, doExit, control, proxy,
                   workerVars, request>>

SpawnWorker ==
    /\ main = "spawn" /\ spawned < threads
    /\ spawned' = spawned + 1
    /\ worker' = [worker EXCEPT ![spawned + 1] = "new"]
    /\ UNCHANGED <<threads, main, handlers, signalled, isRunning, doExit, control,
                   proxy, queue, work, late, request>>

SpawnProxy ==
    /\ main = "spawn" /\ spawned = threads
    /\ proxy' = "new"
    /\ main' = "sigaction"
    /\ UNCHANGED <<threads, handlers, signalled, spawned, isRunning, doExit, control,
                   workerVars, request>>

\* std::thread finds no resources for another thread
SpawnFails ==
    /\ main = "spawn"
    /\ main' = "aborted"
    /\ UNCHANGED <<threads, handlers, signalled, spawned, isRunning, doExit, control,
                   proxy, workerVars, request>>

InstallHandler ==
    /\ main = "sigaction" /\ handlers < Len(Signals)
    /\ handlers' = handlers + 1
    /\ main' = IF handlers' = Len(Signals) THEN "prepause" ELSE "sigaction"
    /\ UNCHANGED <<threads, signalled, spawned, isRunning, doExit, control, proxy,
                   workerVars, request>>

Pause ==
    /\ main = "prepause"
    /\ main' = "paused"
    /\ UNCHANGED <<threads, handlers, signalled, spawned, isRunning, doExit, control,
                   proxy, workerVars, request>>

\* A signal without a handler kills the process.  term_handler only records
\* the signal; it is pause() that returns when a handler has run, and only a
\* handler that runs while main is in it.
Signal(s) ==
    /\ Running
    /\ s \notin signalled
    /\ signalled' = signalled \cup {s}
    /\ main' = IF \E i \in 1 .. handlers : Signals[i] = s
               THEN IF main = "paused" THEN "terminate" ELSE main
               ELSE "killed"
    /\ UNCHANGED <<threads, handlers, spawned, isRunning, doExit, control, proxy,
                   workerVars, request>>

\* control.send: the PUB socket drops the message unless the proxy thread has
\* connected its SUB socket by now
SendTerminate ==
    /\ main = "terminate" /\ isRunning
    /\ control' = IF proxy = "running" THEN "sent" ELSE "none"
    /\ main' = "exitFlag"
    /\ UNCHANGED <<threads, handlers, signalled, spawned, isRunning, doExit, proxy,
                   workerVars, request>>

\* variant: the workers are not told
SetExitForgets ==
    /\ main = "exitFlag"
    /\ main' = "join"
    /\ UNCHANGED <<threads, handlers, signalled, spawned, isRunning, doExit, control,
                   proxy, workerVars, request>>

SetExit ==
    /\ main = "exitFlag"
    /\ doExit' = TRUE
    /\ main' = "join"
    /\ UNCHANGED <<threads, handlers, signalled, spawned, isRunning, control, proxy,
                   workerVars, request>>

\* variant: the first worker is not waited for
JoinWorkersButOne ==
    /\ main = "join"
    /\ \A w \in 2 .. spawned : worker[w] = "gone"
    /\ main' = "joinProxy"
    /\ UNCHANGED <<threads, handlers, signalled, spawned, isRunning, doExit, control,
                   proxy, workerVars, request>>

JoinWorkers ==
    /\ main = "join"
    /\ \A w \in 1 .. spawned : worker[w] = "gone"
    /\ main' = "joinProxy"
    /\ UNCHANGED <<threads, handlers, signalled, spawned, isRunning, doExit, control,
                   proxy, workerVars, request>>

JoinProxy ==
    /\ main = "joinProxy"
    /\ proxy = "gone"
    /\ doExit' = FALSE
    /\ isRunning' = FALSE
    /\ main' = "returned"
    /\ UNCHANGED <<threads, handlers, signalled, spawned, control, proxy,
                   workerVars, request>>

-----------------------------------------------------------------------------
(* server::proxy_work                                                         *)

ProxyConnect ==
    /\ proxy = "new"
    /\ proxy' = "running"
    /\ UNCHANGED <<mainVars, control, workerVars, request>>

\* a request goes to the queue of one of the workers that have connected
Forward(c, w) ==
    /\ proxy = "running" /\ request[c] = "frontend"
    /\ worker[w] \in {"loop", "recv", "busy", "stuck"}
    /\ queue' = [queue EXCEPT ![w] = Append(@, c)]
    /\ request' = [request EXCEPT ![c] = "queued"]
    /\ UNCHANGED <<mainVars, control, proxy, worker, work, late>>

Return(c) ==
    /\ proxy = "running" /\ request[c] = "backend"
    /\ request' = [request EXCEPT ![c] = "answered"]
    /\ UNCHANGED <<mainVars, control, proxy, workerVars>>

ProxyTerminate ==
    /\ proxy = "running" /\ control = "sent"
    /\ control' = "read"
    /\ proxy' = "gone"
    /\ UNCHANGED <<mainVars, workerVars, request>>

-----------------------------------------------------------------------------
(* server::work                                                               *)

Connect(w) ==
    /\ worker[w] = "new"
    /\ worker' = [worker EXCEPT ![w] = "loop"]
    /\ UNCHANGED <<mainVars, control, proxy, queue, work, late, request>>

\* variant: a worker with requests in its queue goes on
TestExitDrains(w) ==
    /\ worker[w] = "loop"
    /\ worker' = [worker EXCEPT ![w] =
                     IF doExit /\ queue[w] = << >> THEN "gone" ELSE "recv"]
    /\ UNCHANGED <<mainVars, control, proxy, queue, work, late, request>>

\* while(!doExit)
TestExit(w) ==
    /\ worker[w] = "loop"
    /\ worker' = [worker EXCEPT ![w] = IF doExit THEN "gone" ELSE "recv"]
    /\ UNCHANGED <<mainVars, control, proxy, queue, work, late, request>>

Receive(w) ==
    /\ worker[w] = "recv" /\ queue[w] # << >>
    /\ worker' = [worker EXCEPT ![w] = "busy"]
    /\ work' = [work EXCEPT ![w] = Head(queue[w])]
    /\ queue' = [queue EXCEPT ![w] = Tail(@)]
    /\ request' = [request EXCEPT ![Head(queue[w])] = "working"]
    /\ late' = [late EXCEPT ![w] = @ + (IF doExit THEN 1 ELSE 0)]
    /\ UNCHANGED <<mainVars, control, proxy>>

\* variant: a timeout ends the loop
TimeoutEnds(w) ==
    /\ worker[w] = "recv" /\ queue[w] = << >>
    /\ worker' = [worker EXCEPT ![w] = "gone"]
    /\ UNCHANGED <<mainVars, control, proxy, queue, work, late, request>>

\* RCVTIMEO: recv gives up after receive_timeout milliseconds
Timeout(w) ==
    /\ worker[w] = "recv" /\ queue[w] = << >>
    /\ worker' = [worker EXCEPT ![w] = "loop"]
    /\ UNCHANGED <<mainVars, control, proxy, queue, work, late, request>>

\* route_request answers, with a result or with the error of a runtime_error, or the
\* message had no terminator: either way a response that is sent back
Serve(w) ==
    /\ worker[w] = "busy"
    /\ request' = [request EXCEPT ![work[w]] = "backend"]
    /\ work' = [work EXCEPT ![w] = NoClient]
    /\ worker' = [worker EXCEPT ![w] = "loop"]
    /\ UNCHANGED <<mainVars, control, proxy, queue, late>>

\* route_request catches std::runtime_error only: with any other exception (of a
\* missing item, say) work() is left, and std::terminate ends the process
ServeThrows(w) ==
    /\ worker[w] = "busy"
    /\ main' = "aborted"
    /\ UNCHANGED <<threads, handlers, signalled, spawned, isRunning, doExit, control,
                   proxy, workerVars, request>>

\* The call never returns: it draws from an empty range, or waits for the
\* generator's mutex that such a draw keeps.
Hang(w) ==
    /\ worker[w] = "busy"
    /\ worker' = [worker EXCEPT ![w] = "stuck"]
    /\ UNCHANGED <<mainVars, control, proxy, queue, work, late, request>>

-----------------------------------------------------------------------------
(* The clients                                                                *)

Send(c) ==
    /\ request[c] = "idle"
    /\ request' = [request EXCEPT ![c] = "frontend"]
    /\ UNCHANGED <<mainVars, control, proxy, workerVars>>

Accept(c) ==
    /\ request[c] = "answered"
    /\ request' = [request EXCEPT ![c] = "idle"]
    /\ UNCHANGED <<mainVars, control, proxy, workerVars>>

-----------------------------------------------------------------------------
Main  == \/ Listen \/ SpawnWorker \/ SpawnProxy \/ SpawnFails \/ InstallHandler \/ Pause
         \/ SendTerminate \/ SetExit \/ JoinWorkers \/ JoinProxy
Proxy == \/ ProxyConnect \/ ProxyTerminate
         \/ \E c \in Clients : Return(c) \/ \E w \in Workers : Forward(c, w)
Worker(w) == \/ Connect(w) \/ TestExit(w) \/ Receive(w) \/ Timeout(w)
             \/ Serve(w) \/ ServeThrows(w) \/ Hang(w)

\* the process is over
Ended == ~Running /\ UNCHANGED vars

Next ==
    \/ /\ Running
       /\ \/ Main \/ Proxy
          \/ \E w \in Workers : Worker(w)
          \/ \E i \in DOMAIN Signals : Signal(Signals[i])
          \/ \E c \in Clients : Send(c) \/ Accept(c)
    \/ Ended

Spec == Init /\ [][Next]_vars

\* The operating system schedules every thread; the proxy polls its sockets
\* and the control socket in turn; clients take their replies.  Nothing makes
\* a client send or a signal come, nor a worker come back that is stuck.
Fairness ==
    /\ WF_vars(Running /\ Main)
    /\ WF_vars(Running /\ ProxyConnect)
    /\ WF_vars(Running /\ ProxyTerminate)
    /\ \A c \in Clients :
          /\ WF_vars(Running /\ Return(c))
          /\ WF_vars(Running /\ \E w \in Workers : Forward(c, w))
          /\ WF_vars(Running /\ Accept(c))
    /\ \A w \in Workers : WF_vars(Running /\ Worker(w))

FairSpec == Spec /\ Fairness

-----------------------------------------------------------------------------
(* Properties.                                                               *)

\* When main returns, every thread it started has ended and none of them was
\* cut off in the middle of a request.
NoThreadOutlivesMain ==
    main = "returned" =>
        /\ proxy = "gone"
        /\ \A w \in Workers : worker[w] \in {"none", "gone"} /\ work[w] = NoClient

\* After stop() has set doExit, a worker takes at most one more request: the one
\* it may receive in the recv() it had already begun.
AtMostOneLate == \A w \in Workers : late[w] <= 1

\* The worker that a request was handed to will not come back to it.
BehindStuck(c) ==
    \E w \in Workers :
        /\ worker[w] = "stuck"
        /\ work[w] = c \/ \E i \in DOMAIN queue[w] : queue[w][i] = c

\* With at least one worker, every request is answered unless the process ends, stop()
\* begins first, or the very worker that ZeroMQ chose for it is stuck in a call that
\* never returns.  A handled signal by itself loses nothing, a timeout of recv() loses
\* nothing, and a worker that is stuck holds up only what is in its own queue.
EveryRequestAnswered ==
    threads \in 1 .. Cardinality(Workers) =>
        \A c \in Clients :
            request[c] = "frontend" ~>
                \/ request[c] = "answered"
                \/ BehindStuck(c)
                \/ main \in {"terminate", "exitFlag", "join", "joinProxy",
                             "returned", "killed", "aborted"}

\* stop() that is called once the proxy thread has connected comes to an end, with
\* every worker and the proxy joined, unless a worker is stuck in a call or an
\* exception that nobody catches ends the process first.
StopReturns ==
    (main = "terminate" /\ proxy = "running") ~>
        \/ main \in {"returned", "aborted"}
        \/ \E w \in Workers : worker[w] = "stuck"

-----------------------------------------------------------------------------
(* The inductive invariant behind the safety properties.                     *)

\* The threads that main has started, and those it knows to have ended.
ThreadInv ==
    /\ main \notin {"listen", "aborted", "killed"} => threads <= Cardinality(Workers)
    /\ \A w \in Workers : worker[w] = "none" <=> w > spawned
    /\ \A w \in Workers : work[w] # NoClient <=> worker[w] \in {"busy", "stuck"}
    /\ main \in {"joinProxy", "returned"} => \A w \in 1 .. spawned : worker[w] = "gone"
    /\ main = "returned" => proxy = "gone"

\* A worker that took a request late is past its last recv().
LateInv ==
    \A w \in Workers :
        late[w] # 0 => /\ late[w] = 1
                       /\ worker[w] \in {"busy", "loop", "stuck", "gone"}
                       /\ doExit \/ ~Running

Inv == TypeOK /\ ThreadInv /\ LateInv

-----------------------------------------------------------------------------
(* What the documentation says of the shutdown.                              *)

\* "Wait for signal", then "Graceful stop and cleanup" (sabot.cpp): once the
\* handlers are installed, a signal that was handled gets main to stop the server.
SignalStopsServer ==
    (main \in {"prepause", "paused"} /\ signalled # {})
        ~> main \notin {"prepause", "paused"}

\* "A zmq control socket is used in stop() that signals this thread to exit"
\* (server.hpp): a stop() that has begun ends the proxy thread, unless the whole
\* process ends before.
StopEndsProxy == main = "terminate" ~> proxy = "gone" \/ main = "aborted"
=============================================================================
