-------------------------- MODULE E2Agent_proofs --------------------------
(***************************************************************************)
(* Safety of the agent's connection and of its queue, for any capacity,    *)
(* delays and number of connections.                                       *)
(***************************************************************************)
EXTENDS E2Agent, SequenceTheorems, FiniteSetTheorems, FunctionTheorems, TLAPS

-----------------------------------------------------------------------------
(***************************************************************************)
(* Where the socket manager stands with the agent's socket: not watching   *)
(* it, watching it or about to, told to give it up, or told to end.        *)
(***************************************************************************)
Off  == ~handler /\ ~watched /\ ~removed /\ ctrl = <<>>
On   == /\ handler /\ ~removed
        /\ \/ ctrl = <<>> /\ watched
           \/ ctrl = <<"NEW_FD">> /\ ~watched
Left == \/ /\ handler /\ ~removed
           /\ \/ ctrl = <<"RM_FD">> /\ watched
              \/ ctrl = <<"NEW_FD", "RM_FD">> /\ ~watched
        \/ ~handler /\ ~watched /\ removed /\ ctrl = <<>>
Ending == \/ ctrl \in {<<>>, <<"EXIT">>} /\ (watched => handler)
          \/ ctrl = <<"NEW_FD", "EXIT">> /\ handler

Released == sockOpen => setupFailed
Closed   == ~handler /\ Released
LeftOpen == NoReconnect /\ handler /\ sockOpen

Ends == {"joinRx", "finish", "done"}

SocketInv ==
    /\ apc \in {"idle", "failed", "disconnect"} =>
         \/ state = "ESTABLISHED" /\ On /\ sockOpen
         \/ state # "ESTABLISHED" /\ Off /\ Released
         \/ state = "DISABLED" /\ On /\ LeftOpen
    /\ apc = "waitRemoved" => Left /\ sockOpen
    /\ apc = "close" => Off
    /\ apc \in {"swap", "sleep", "connect"} => Off /\ Released
    /\ apc = "register" => Off /\ sockOpen
    /\ apc = "stopRx" => (Off /\ Closed) \/ (On /\ LeftOpen)
    /\ apc \in Ends => Ending /\ (Closed \/ LeftOpen)

RxInv ==
    /\ "fd" \in readSet => watched
    /\ "pipe" \in readSet => ctrl # <<>>
    /\ rpc = "done" => apc \in Ends
    /\ apc \in {"finish", "done"} => rpc = "done"

(***************************************************************************)
(* What may be queued, and which way disconnect() leads: connect() is run  *)
(* once from the queue, in the beginning; a reset belongs to an agent that *)
(* reconnects, and a disconnect to one that does not.                      *)
(***************************************************************************)
OnlyStops(from) == \A i \in DOMAIN queue : i >= from => queue[i].kind = "stop"

TasksInv ==
    /\ \A i \in DOMAIN queue : queue[i].kind = "reset" => ~NoReconnect
    /\ \A i \in DOMAIN queue : queue[i].kind = "disconnect" => NoReconnect
    /\ \A i \in DOMAIN queue : queue[i].kind = "connect" =>
         /\ i = 1 /\ apc = "idle" /\ state = "INITIALIZED" /\ conn = 0
         /\ OnlyStops(2)
    /\ apc \in {"sleep", "connect"} => state = "INITIALIZED" /\ OnlyStops(1)
    /\ apc \in {"disconnect", "waitRemoved", "close"} =>
         (after = "swap" => ~NoReconnect) /\ (after = "idle" => NoReconnect)
    /\ apc \in {"swap", "sleep"} => ~NoReconnect
    /\ NoReconnect => conn <= 1 /\ (apc = "connect" => conn = 0)

RestInv ==
    apc = "idle" /\ ~NoReconnect =>
         \/ state = "ESTABLISHED"
         \/ \E i \in DOMAIN queue : queue[i].kind \in {"connect", "reset", "stop"}

IInv ==
    /\ TypeOK /\ SocketInv /\ RxInv
    /\ TasksInv /\ QueuedForThisConnection /\ RestInv

-----------------------------------------------------------------------------
LEMMA Pushed ==
    ASSUME TypeOK, NEW k \in TaskKinds, Push(k)
    PROVE  /\ queue' \in Seq(Tasks) /\ Len(queue) \in Nat
           /\ DOMAIN queue = 1 .. Len(queue) /\ DOMAIN queue' = 1 .. Len(queue) + 1
           /\ \A i \in DOMAIN queue : queue'[i] = queue[i]
           /\ queue'[Len(queue) + 1] = [kind |-> k, conn |-> conn]
<1>1. Task(k, conn) \in Tasks /\ queue \in Seq(Tasks)
  BY DEF TypeOK, AgentTypeOK, Tasks, Task
<1>2. QED
  BY <1>1 DEF Push, Task

LEMMA Popped ==
    ASSUME TypeOK, NEW K, PopTask(K)
    PROVE  /\ apc = "idle" /\ queue[1].kind \in K
           /\ queue' \in Seq(Tasks) /\ Len(queue) \in Nat \ {0}
           /\ DOMAIN queue = 1 .. Len(queue) /\ DOMAIN queue' = 1 .. Len(queue) - 1
           /\ \A i \in DOMAIN queue' : queue'[i] = queue[i + 1]
<1>1. queue \in Seq(Tasks) /\ queue # <<>>
  BY DEF TypeOK, AgentTypeOK, PopTask
<1>2. QED
  BY <1>1 DEF PopTask

LEMMA PopShifts ==
    ASSUME IInv, NEW K, PopTask(K)
    PROVE  \A i \in DOMAIN queue' : queue'[i] = queue[i + 1] /\ i + 1 \in DOMAIN queue /\ i + 1 >= 2
<1>1. TypeOK
  BY DEF IInv
<1>2. QED
  BY <1>1, Popped

LEMMA PopKeeps ==
    ASSUME IInv, NEW K, PopTask(K), UNCHANGED conn
    PROVE  /\ QueuedForThisConnection'
           /\ \A i \in DOMAIN queue' : queue'[i].kind = "reset" => ~NoReconnect
           /\ \A i \in DOMAIN queue' : queue'[i].kind = "disconnect" => NoReconnect
           /\ \A i \in DOMAIN queue' : queue'[i].kind # "connect"
BY PopShifts DEF IInv, QueuedForThisConnection, TasksInv

\* Only tasks that stop the agent are left behind a connect.
LEMMA PopConnect ==
    ASSUME IInv, NEW K, PopTask(K), queue[1].kind = "connect"
    PROVE  /\ \A i \in DOMAIN queue' : queue'[i].kind = "stop"
           /\ state = "INITIALIZED" /\ conn = 0
<1>1. TypeOK
  BY DEF IInv
<1>2. 1 \in DOMAIN queue
  BY <1>1, Popped
<1>3. QED
  BY <1>2, PopShifts DEF IInv, TasksInv, OnlyStops

LEMMA TypesOfTasks ==
    ASSUME IInv, NEW K, PopTask(K), UNCHANGED <<conn, sockOpen, link, unread, rxVars, mpc>>,
           state' = state, delay' \in 0 .. DelayMax, apc' \in AgentSteps,
           after' \in {"idle", "swap", "stopRx"}, holds' \in BOOLEAN, UNCHANGED setupFailed
    PROVE  TypeOK'
<1>1. TypeOK
  BY DEF IInv
<1>2. queue' \in Seq(Tasks)
  BY <1>1, Popped
<1>3. QED
  BY <1>1, <1>2 DEF TypeOK, AgentTypeOK, RxTypeOK, rxVars

-----------------------------------------------------------------------------
\* A message that needs nothing done leaves what would reconnect where it is.
LEMMA HandlePduStep == IInv /\ HandlePdu => IInv'
<1> SUFFICES ASSUME IInv, HandlePdu PROVE IInv'
  OBVIOUS
<1> DEFINE K == {"data", "event", "eof"}
<1>1. /\ PopTask(K)
      /\ UNCHANGED <<state, delay, apc, after, holds, setupFailed, conn, sockOpen, link, unread,
                     handler, watched, ctrl, removed, rpc, readSet, mpc>>
  BY DEF HandlePdu, sockVars, rxVars
<1>2. TypeOK /\ apc = "idle"
  BY <1>1 DEF IInv, PopTask
<1>3. TypeOK'
  BY <1>1, <1>2, TypesOfTasks DEF TypeOK, AgentTypeOK, rxVars
<1>4. SocketInv' /\ RxInv'
  BY <1>1 DEF IInv, SocketInv, RxInv, On, Off, Left, Ending, Closed, Released, LeftOpen, Ends
<1>5. QueuedForThisConnection' /\ TasksInv'
  BY <1>1, <1>2, PopKeeps DEF IInv, TasksInv
<1>6. RestInv'
  <2>1. /\ queue[1].kind \in K /\ Len(queue) \in Nat \ {0} /\ DOMAIN queue = 1 .. Len(queue)
        /\ DOMAIN queue' = 1 .. Len(queue) - 1
        /\ \A i \in DOMAIN queue' : queue'[i] = queue[i + 1]
    BY <1>1, <1>2, Popped
  <2>2. \A i \in DOMAIN queue : i # 1 => i - 1 \in DOMAIN queue' /\ queue'[i - 1] = queue[i]
    BY <2>1
  <2>3. QED
    BY <1>1, <2>1, <2>2 DEF IInv, RestInv
<1>7. QED
  BY <1>3, <1>4, <1>5, <1>6 DEF IInv

LEMMA HandleShutdownStep == IInv /\ HandleShutdown => IInv'
<1> SUFFICES ASSUME IInv, HandleShutdown PROVE IInv'
  OBVIOUS
<1>1. /\ PopTask({"shutdown"})
      /\ holds' = TRUE /\ apc' = "failed"
      /\ UNCHANGED <<state, delay, after, setupFailed, conn, sockOpen, link, unread,
                     handler, watched, ctrl, removed, rpc, readSet, mpc>>
  BY DEF HandleShutdown, sockVars, rxVars
<1>2. TypeOK /\ apc = "idle" /\ queue[1].kind = "shutdown"
  BY <1>1, Popped DEF IInv
<1>3. TypeOK'
  BY <1>1, <1>2, TypesOfTasks, DelayAssumption DEF TypeOK, AgentTypeOK, AgentSteps, rxVars
<1>4. SocketInv' /\ RxInv' /\ RestInv'
  BY <1>1, <1>2, PopKeeps DEF IInv, SocketInv, RxInv, RestInv, On, Off, Left, Ending, Closed, Released, LeftOpen, Ends
<1>5. QueuedForThisConnection' /\ TasksInv'
  BY <1>1, <1>2, PopKeeps, Popped DEF IInv, TasksInv, OnlyStops
<1>6. QED
  BY <1>3, <1>4, <1>5 DEF IInv

LEMMA BeginConnectStep == IInv /\ BeginConnect => IInv'
<1> SUFFICES ASSUME IInv, BeginConnect PROVE IInv'
  OBVIOUS
<1>1. /\ PopTask({"connect"})
      /\ apc' = "connect"
      /\ UNCHANGED <<state, delay, after, holds, setupFailed, conn, sockOpen, link, unread,
                     handler, watched, ctrl, removed, rpc, readSet, mpc>>
  BY DEF BeginConnect, sockVars, rxVars
<1>2. TypeOK /\ apc = "idle" /\ queue[1].kind = "connect"
  BY <1>1, Popped DEF IInv
<1>3. TypeOK'
  BY <1>1, <1>2, TypesOfTasks, DelayAssumption DEF TypeOK, AgentTypeOK, AgentSteps, rxVars
<1>4. SocketInv' /\ RxInv' /\ RestInv'
  BY <1>1, <1>2, PopKeeps, PopConnect DEF IInv, SocketInv, RxInv, RestInv, On, Off, Left, Ending, Closed, Released, LeftOpen, Ends
<1>5. QueuedForThisConnection' /\ TasksInv'
  BY <1>1, <1>2, PopKeeps, PopConnect, Popped DEF IInv, TasksInv, OnlyStops
<1>6. QED
  BY <1>3, <1>4, <1>5 DEF IInv

LEMMA BeginResetStep == IInv /\ BeginReset => IInv'
<1> SUFFICES ASSUME IInv, BeginReset PROVE IInv'
  OBVIOUS
<1>1. /\ PopTask({"reset"})
      /\ delay' = (IF delay + DelayInc > DelayMax THEN DelayMax ELSE delay + DelayInc)
      /\ apc' = "disconnect" /\ after' = "swap"
      /\ UNCHANGED <<state, holds, setupFailed, conn, sockOpen, link, unread,
                     handler, watched, ctrl, removed, rpc, readSet, mpc>>
  BY DEF BeginReset, sockVars, rxVars
<1>2. TypeOK /\ apc = "idle" /\ queue[1].kind = "reset"
  BY <1>1, Popped DEF IInv
<1>3. TypeOK'
  BY <1>1, <1>2, TypesOfTasks, DelayAssumption DEF TypeOK, AgentTypeOK, AgentSteps, rxVars
<1>4. SocketInv' /\ RxInv' /\ RestInv'
  BY <1>1, <1>2, PopKeeps DEF IInv, SocketInv, RxInv, RestInv, On, Off, Left, Ending, Closed, Released, LeftOpen, Ends
<1>5. QueuedForThisConnection' /\ TasksInv'
  BY <1>1, <1>2, PopKeeps, Popped DEF IInv, TasksInv, OnlyStops
<1>6. QED
  BY <1>3, <1>4, <1>5 DEF IInv

LEMMA BeginDisconnectStep == IInv /\ BeginDisconnect => IInv'
<1> SUFFICES ASSUME IInv, BeginDisconnect PROVE IInv'
  OBVIOUS
<1>1. /\ PopTask({"disconnect"})
      /\ apc' = "disconnect" /\ after' = "idle"
      /\ UNCHANGED <<state, delay, holds, setupFailed, conn, sockOpen, link, unread,
                     handler, watched, ctrl, removed, rpc, readSet, mpc>>
  BY DEF BeginDisconnect, sockVars, rxVars
<1>2. TypeOK /\ apc = "idle" /\ queue[1].kind = "disconnect"
  BY <1>1, Popped DEF IInv
<1>3. TypeOK'
  BY <1>1, <1>2, TypesOfTasks, DelayAssumption DEF TypeOK, AgentTypeOK, AgentSteps, rxVars
<1>4. SocketInv' /\ RxInv' /\ RestInv'
  BY <1>1, <1>2, PopKeeps DEF IInv, SocketInv, RxInv, RestInv, On, Off, Left, Ending, Closed, Released, LeftOpen, Ends
<1>5. QueuedForThisConnection' /\ TasksInv'
  BY <1>1, <1>2, PopKeeps, Popped DEF IInv, TasksInv, OnlyStops
<1>6. QED
  BY <1>3, <1>4, <1>5 DEF IInv

LEMMA BeginStopStep == IInv /\ BeginStop => IInv'
<1> SUFFICES ASSUME IInv, BeginStop PROVE IInv'
  OBVIOUS
<1>1. /\ PopTask({"stop"})
      /\ apc' = "disconnect" /\ after' = "stopRx"
      /\ UNCHANGED <<state, delay, holds, setupFailed, conn, sockOpen, link, unread,
                     handler, watched, ctrl, removed, rpc, readSet, mpc>>
  BY DEF BeginStop, sockVars, rxVars
<1>2. TypeOK /\ apc = "idle" /\ queue[1].kind = "stop"
  BY <1>1, Popped DEF IInv
<1>3. TypeOK'
  BY <1>1, <1>2, TypesOfTasks, DelayAssumption DEF TypeOK, AgentTypeOK, AgentSteps, rxVars
<1>4. SocketInv' /\ RxInv' /\ RestInv'
  BY <1>1, <1>2, PopKeeps DEF IInv, SocketInv, RxInv, RestInv, On, Off, Left, Ending, Closed, Released, LeftOpen, Ends
<1>5. QueuedForThisConnection' /\ TasksInv'
  BY <1>1, <1>2, PopKeeps, Popped DEF IInv, TasksInv, OnlyStops
<1>6. QED
  BY <1>3, <1>4, <1>5 DEF IInv

-----------------------------------------------------------------------------
\* The steps that leave the queue alone
LEMMA NothingToDisconnectStep == IInv /\ NothingToDisconnect => IInv'
<1> SUFFICES ASSUME IInv, NothingToDisconnect PROVE IInv'
  OBVIOUS
<1>1. /\ apc = "disconnect" /\ state # "ESTABLISHED" /\ apc' = after
      /\ UNCHANGED <<state, delay, queue, after, holds, setupFailed, conn, sockOpen, link, unread,
                     handler, watched, ctrl, removed, rpc, readSet, mpc>>
  BY DEF NothingToDisconnect, sockVars, rxVars
<1>0. TypeOK /\ after \in {"idle", "swap", "stopRx"} /\ (after = "swap" => ~NoReconnect)
      /\ (after = "idle" => NoReconnect)
  BY <1>1 DEF IInv, TypeOK, AgentTypeOK, TasksInv
<1>2. TypeOK'
  BY <1>1, DelayAssumption DEF IInv, TypeOK, AgentTypeOK, RxTypeOK, AgentSteps
<1>3. SocketInv' /\ RxInv'
  BY <1>1, <1>0 DEF IInv, SocketInv, RxInv, On, Off, Left, Ending, Closed, Released, LeftOpen, Ends
<1>4. QueuedForThisConnection' /\ TasksInv' /\ RestInv'
  BY <1>1, <1>0 DEF IInv, SocketInv, QueuedForThisConnection, TasksInv, OnlyStops, RestInv
<1>5. QED
  BY <1>2, <1>3, <1>4 DEF IInv

LEMMA CloseSocketStep == IInv /\ CloseSocket => IInv'
<1> SUFFICES ASSUME IInv, CloseSocket PROVE IInv'
  OBVIOUS
<1>1. /\ apc = "close" /\ apc' = after /\ state' = "DISCONNECTED"
      /\ sockOpen' = FALSE /\ link' = "none" /\ unread' = FALSE
      /\ UNCHANGED <<delay, queue, after, holds, setupFailed, conn,
                     handler, watched, ctrl, removed, rpc, readSet, mpc>>
  BY DEF CloseSocket, sockVars, rxVars
<1>0. TypeOK /\ after \in {"idle", "swap", "stopRx"} /\ (after = "swap" => ~NoReconnect)
      /\ (after = "idle" => NoReconnect)
  BY <1>1 DEF IInv, TypeOK, AgentTypeOK, TasksInv
<1>2. TypeOK'
  BY <1>1, DelayAssumption DEF IInv, TypeOK, AgentTypeOK, RxTypeOK, AgentSteps
<1>3. SocketInv' /\ RxInv'
  BY <1>1, <1>0 DEF IInv, SocketInv, RxInv, On, Off, Left, Ending, Closed, Released, LeftOpen, Ends
<1>4. QueuedForThisConnection' /\ TasksInv' /\ RestInv'
  BY <1>1, <1>0 DEF IInv, SocketInv, QueuedForThisConnection, TasksInv, OnlyStops, RestInv
<1>5. QED
  BY <1>2, <1>3, <1>4 DEF IInv

LEMMA EndSleepStep == IInv /\ EndSleep => IInv'
<1> SUFFICES ASSUME IInv, EndSleep PROVE IInv'
  OBVIOUS
<1>1. /\ apc = "sleep" /\ apc' = "connect"
      /\ UNCHANGED <<state, delay, queue, after, holds, setupFailed, conn, sockOpen, link, unread,
                     handler, watched, ctrl, removed, rpc, readSet, mpc>>
  BY DEF EndSleep, sockVars, rxVars
<1>2. TypeOK'
  BY <1>1, DelayAssumption DEF IInv, TypeOK, AgentTypeOK, RxTypeOK, AgentSteps
<1>3. SocketInv' /\ RxInv'
  BY <1>1 DEF IInv, SocketInv, RxInv, On, Off, Left, Ending, Closed, Released, LeftOpen, Ends
<1>4. QueuedForThisConnection' /\ TasksInv' /\ RestInv'
  BY <1>1 DEF IInv, SocketInv, QueuedForThisConnection, TasksInv, OnlyStops, RestInv
<1>5. QED
  BY <1>2, <1>3, <1>4 DEF IInv

LEMMA JoinRxStep == IInv /\ JoinRx => IInv'
<1> SUFFICES ASSUME IInv, JoinRx PROVE IInv'
  OBVIOUS
<1>1. /\ apc = "joinRx" /\ rpc = "done" /\ apc' = "finish"
      /\ UNCHANGED <<state, delay, queue, after, holds, setupFailed, conn, sockOpen, link, unread,
                     handler, watched, ctrl, removed, rpc, readSet, mpc>>
  BY DEF JoinRx, sockVars, rxVars
<1>2. TypeOK'
  BY <1>1, DelayAssumption DEF IInv, TypeOK, AgentTypeOK, RxTypeOK, AgentSteps
<1>3. SocketInv' /\ RxInv'
  BY <1>1 DEF IInv, SocketInv, RxInv, On, Off, Left, Ending, Closed, Released, LeftOpen, Ends
<1>4. QueuedForThisConnection' /\ TasksInv' /\ RestInv'
  BY <1>1 DEF IInv, SocketInv, QueuedForThisConnection, TasksInv, OnlyStops, RestInv
<1>5. QED
  BY <1>2, <1>3, <1>4 DEF IInv

LEMMA ConnectSucceedsStep == IInv /\ ConnectSucceeds => IInv'
<1> SUFFICES ASSUME IInv, ConnectSucceeds PROVE IInv'
  OBVIOUS
<1>1. /\ apc = "connect" /\ apc' = "register"
      /\ sockOpen' = TRUE /\ link' = "up" /\ unread' = FALSE
      /\ UNCHANGED <<state, delay, queue, after, holds, setupFailed,
                     handler, watched, ctrl, removed, rpc, readSet, mpc>>
  BY DEF ConnectSucceeds, rxVars
<1>2. conn \in Nat /\ conn' = conn + 1
  BY DEF IInv, TypeOK, AgentTypeOK, ConnectSucceeds
<1>3. conn' \in Nat /\ (conn = 0 => conn' <= 1)
  BY <1>2
<1>4. TypeOK'
  <2>1. AgentTypeOK'
    <3>1. AgentTypeOK
      BY DEF IInv, TypeOK
    <3>2. conn' \in Nat
      BY <1>3
    <3>3. queue' \in Seq(Tasks)
      BY <1>1, <3>1 DEF AgentTypeOK
    <3>4. delay' \in 0 .. DelayMax
      BY <1>1, <3>1 DEF AgentTypeOK
    <3>5. QED
      BY <1>1, <3>1, <3>2, <3>3, <3>4, Zenon DEF AgentTypeOK, AgentSteps
  <2>2. RxTypeOK'
    BY <1>1 DEF IInv, TypeOK, RxTypeOK
  <2>3. QED
    BY <2>1, <2>2 DEF TypeOK
<1>5. SocketInv' /\ RxInv'
  BY <1>1 DEF IInv, SocketInv, RxInv, On, Off, Left, Ending, Closed, Released, LeftOpen, Ends
<1>6. DOMAIN queue = 1 .. Len(queue) /\ Len(queue) \in Nat
  BY DEF IInv, TypeOK, AgentTypeOK
<1>7. \A i \in DOMAIN queue : queue[i].kind = "stop"
  BY <1>1, <1>6 DEF IInv, TasksInv, OnlyStops
<1>8. QueuedForThisConnection'
  BY <1>1, <1>7 DEF QueuedForThisConnection, PduKinds
<1>9. TasksInv' /\ RestInv'
  BY <1>1, <1>3, <1>7 DEF IInv, TasksInv, OnlyStops, RestInv
<1>10. QED
  BY <1>4, <1>5, <1>8, <1>9 DEF IInv

-----------------------------------------------------------------------------
\* What is written to, and read from, the control pipe
LEMMA CtrlSeqs ==
    /\ Append(<<>>, "NEW_FD") = <<"NEW_FD">>
    /\ Append(<<>>, "RM_FD") = <<"RM_FD">> /\ Append(<<"NEW_FD">>, "RM_FD") = <<"NEW_FD", "RM_FD">>
    /\ Append(<<>>, "EXIT") = <<"EXIT">> /\ Append(<<"NEW_FD">>, "EXIT") = <<"NEW_FD", "EXIT">>
    /\ \A s \in Seq({"NEW_FD", "RM_FD", "EXIT"}), m \in {"NEW_FD", "RM_FD", "EXIT"} :
          Append(s, m) \in Seq({"NEW_FD", "RM_FD", "EXIT"}) /\ Append(s, m) # <<>>
    /\ \A m \in {"NEW_FD", "RM_FD", "EXIT"} :
          /\ <<m>> # <<>> /\ Head(<<m>>) = m /\ Tail(<<m>>) = <<>>
          /\ <<"NEW_FD", m>> # <<>> /\ Head(<<"NEW_FD", m>>) = "NEW_FD"
          /\ Tail(<<"NEW_FD", m>>) = <<m>>
    /\ <<"RM_FD">> # <<"NEW_FD">> /\ <<"EXIT">> # <<"RM_FD">>
<1>1. /\ Append(<<>>, "NEW_FD") = <<"NEW_FD">>
      /\ Append(<<>>, "RM_FD") = <<"RM_FD">> /\ Append(<<>>, "EXIT") = <<"EXIT">>
  OBVIOUS
<1>2. Append(<<"NEW_FD">>, "RM_FD") = <<"NEW_FD", "RM_FD">>
  <2> DEFINE s == Append(<<"NEW_FD">>, "RM_FD")
             t == <<"NEW_FD", "RM_FD">>
  <2>1. s \in Seq({"NEW_FD", "RM_FD", "EXIT"}) /\ Len(s) = 2
    BY <1>1
  <2>2. t \in Seq({"NEW_FD", "RM_FD", "EXIT"}) /\ Len(t) = 2
    OBVIOUS
  <2>3. s[1] = t[1] /\ s[2] = t[2]
    OBVIOUS
  <2>4. \A i \in 1 .. Len(s) : s[i] = t[i]
    BY <2>1, <2>3
  <2>5. QED
    BY <2>1, <2>2, <2>4, SeqEqual
<1>3. Append(<<"NEW_FD">>, "EXIT") = <<"NEW_FD", "EXIT">>
  <2> DEFINE s == Append(<<"NEW_FD">>, "EXIT")
             t == <<"NEW_FD", "EXIT">>
  <2>1. s \in Seq({"NEW_FD", "RM_FD", "EXIT"}) /\ Len(s) = 2
    BY <1>1
  <2>2. t \in Seq({"NEW_FD", "RM_FD", "EXIT"}) /\ Len(t) = 2
    OBVIOUS
  <2>3. s[1] = t[1] /\ s[2] = t[2]
    OBVIOUS
  <2>4. \A i \in 1 .. Len(s) : s[i] = t[i]
    BY <2>1, <2>3
  <2>5. QED
    BY <2>1, <2>2, <2>4, SeqEqual
<1>4. ASSUME NEW s \in Seq({"NEW_FD", "RM_FD", "EXIT"}), NEW m \in {"NEW_FD", "RM_FD", "EXIT"}
      PROVE  Append(s, m) \in Seq({"NEW_FD", "RM_FD", "EXIT"}) /\ Append(s, m) # <<>>
  OBVIOUS
<1>5. ASSUME NEW m \in {"NEW_FD", "RM_FD", "EXIT"}
      PROVE  /\ <<m>> # <<>> /\ Head(<<m>>) = m /\ Tail(<<m>>) = <<>>
             /\ <<"NEW_FD", m>> # <<>> /\ Head(<<"NEW_FD", m>>) = "NEW_FD"
             /\ Tail(<<"NEW_FD", m>>) = <<m>>
  <2>1. <<m>> # <<>> /\ Head(<<m>>) = m /\ <<"NEW_FD", m>> # <<>> /\ Head(<<"NEW_FD", m>>) = "NEW_FD"
    OBVIOUS
  <2>2. Tail(<<m>>) = <<>>
    OBVIOUS
  <2>3. Tail(<<"NEW_FD", m>>) = <<m>>
    OBVIOUS
  <2>4. QED
    BY <2>1, <2>2, <2>3
<1>6. <<"RM_FD">> # <<"NEW_FD">> /\ <<"EXIT">> # <<"RM_FD">>
  OBVIOUS
<1>7. QED
  BY <1>1, <1>2, <1>3, <1>4, <1>5, <1>6

LEMMA RequestRemovalStep == IInv /\ RequestRemoval => IInv'
<1> SUFFICES ASSUME IInv, RequestRemoval PROVE IInv'
  OBVIOUS
<1>0. apc = "disconnect" /\ state = "ESTABLISHED" /\ On /\ sockOpen
  BY DEF IInv, SocketInv, RequestRemoval, LeftOpen
<1>1. /\ apc' = "waitRemoved" /\ ctrl' = Append(ctrl, "RM_FD")
      /\ link' \in {link, "eof"}
      /\ UNCHANGED <<state, delay, queue, after, holds, setupFailed, conn, sockOpen, unread,
                     handler, watched, removed, rpc, readSet, mpc>>
  BY <1>0 DEF RequestRemoval, remove_socket_nonblocking, On
<1>2. TypeOK'
  BY <1>0, <1>1, CtrlSeqs, DelayAssumption DEF IInv, TypeOK, AgentTypeOK, RxTypeOK, AgentSteps
<1>3. SocketInv' /\ RxInv'
  BY <1>0, <1>1, CtrlSeqs DEF IInv, TypeOK, RxTypeOK, SocketInv, RxInv, On, Off, Left, Ending, Closed, Released, LeftOpen, Ends
<1>4. QueuedForThisConnection' /\ TasksInv' /\ RestInv'
  BY <1>0, <1>1 DEF IInv, SocketInv, QueuedForThisConnection, TasksInv, OnlyStops, RestInv
<1>5. QED
  BY <1>2, <1>3, <1>4 DEF IInv

LEMMA SocketRemovedStep == IInv /\ SocketRemoved => IInv'
<1> SUFFICES ASSUME IInv, SocketRemoved PROVE IInv'
  OBVIOUS
<1>1. /\ apc = "waitRemoved" /\ apc' = "close" /\ removed /\ removed' = FALSE
      /\ UNCHANGED <<state, delay, queue, after, holds, setupFailed, conn, sockOpen, link, unread,
                     handler, watched, ctrl, rpc, readSet, mpc>>
  BY DEF SocketRemoved, AwaitRemoval, sockVars
<1>2. TypeOK'
  <2>1. AgentTypeOK'
    BY <1>1 DEF IInv, TypeOK, AgentTypeOK, AgentSteps
  <2>2. RxTypeOK'
    BY <1>1, Zenon DEF IInv, TypeOK, RxTypeOK
  <2>3. QED
    BY <2>1, <2>2 DEF TypeOK
<1>3. SocketInv' /\ RxInv'
  BY <1>1, CtrlSeqs DEF IInv, TypeOK, RxTypeOK, SocketInv, RxInv, On, Off, Left, Ending, Closed, Released, LeftOpen, Ends
<1>4. QueuedForThisConnection' /\ TasksInv' /\ RestInv'
  BY <1>1 DEF IInv, SocketInv, QueuedForThisConnection, TasksInv, OnlyStops, RestInv
<1>5. QED
  BY <1>2, <1>3, <1>4 DEF IInv

LEMMA RegisterStep == IInv /\ Register => IInv'
<1> SUFFICES ASSUME IInv, Register PROVE IInv'
  OBVIOUS
<1>0. apc = "register" /\ Off /\ sockOpen
  BY DEF IInv, SocketInv, Register
<1>1. /\ apc' = "idle" /\ state' = "ESTABLISHED" /\ delay' = 0
      /\ handler' = TRUE /\ ctrl' = Append(ctrl, "NEW_FD")
      /\ UNCHANGED <<queue, after, holds, setupFailed, conn, sockOpen, link, unread,
                     watched, removed, rpc, readSet, mpc>>
  BY <1>0 DEF Register, add_socket_handler, Off, sockVars
<1>2. TypeOK'
  BY <1>0, <1>1, CtrlSeqs, DelayAssumption DEF IInv, TypeOK, AgentTypeOK, RxTypeOK, AgentSteps
<1>3. SocketInv' /\ RxInv'
  BY <1>0, <1>1, CtrlSeqs DEF IInv, TypeOK, RxTypeOK, SocketInv, RxInv, On, Off, Left, Ending, Closed, Released, LeftOpen, Ends
<1>4. QueuedForThisConnection' /\ TasksInv' /\ RestInv'
  BY <1>0, <1>1 DEF IInv, SocketInv, QueuedForThisConnection, TasksInv, OnlyStops, RestInv
<1>5. QED
  BY <1>2, <1>3, <1>4 DEF IInv

LEMMA StopRxStep == IInv /\ StopRx => IInv'
<1> SUFFICES ASSUME IInv, StopRx PROVE IInv'
  OBVIOUS
<1>1. /\ apc = "stopRx" /\ apc' = "joinRx" /\ ctrl' = Append(ctrl, "EXIT")
      /\ UNCHANGED <<state, delay, queue, after, holds, setupFailed, conn, sockOpen, link, unread,
                     handler, watched, removed, rpc, readSet, mpc>>
  BY DEF StopRx, WriteExit, sockVars
<1>2. TypeOK'
  BY <1>1, CtrlSeqs, DelayAssumption DEF IInv, TypeOK, AgentTypeOK, RxTypeOK, AgentSteps
<1>3. SocketInv' /\ RxInv'
  BY <1>1, CtrlSeqs DEF IInv, TypeOK, RxTypeOK, SocketInv, RxInv, On, Off, Left, Ending, Closed, Released, LeftOpen, Ends
<1>4. QueuedForThisConnection' /\ TasksInv' /\ RestInv'
  BY <1>1 DEF IInv, SocketInv, QueuedForThisConnection, TasksInv, OnlyStops, RestInv
<1>5. QED
  BY <1>2, <1>3, <1>4 DEF IInv

-----------------------------------------------------------------------------
\* The queue is emptied.
LEMMA SwapQueueStep == IInv /\ SwapQueue => IInv'
<1> SUFFICES ASSUME IInv, SwapQueue PROVE IInv'
  OBVIOUS
<1>1. /\ apc = "swap" /\ apc' = "sleep" /\ queue' = <<>> /\ state' = "INITIALIZED"
      /\ UNCHANGED <<delay, after, holds, setupFailed, conn, sockOpen, link, unread,
                     handler, watched, ctrl, removed, rpc, readSet, mpc>>
  BY DEF SwapQueue, sockVars, rxVars
<1>2. queue' \in Seq(Tasks) /\ DOMAIN queue' = {}
  BY <1>1
<1>3. TypeOK'
  BY <1>1, <1>2, DelayAssumption DEF IInv, TypeOK, AgentTypeOK, RxTypeOK, AgentSteps
<1>4. SocketInv' /\ RxInv'
  BY <1>1 DEF IInv, SocketInv, RxInv, On, Off, Left, Ending, Closed, Released, LeftOpen, Ends
<1>5. QueuedForThisConnection' /\ TasksInv' /\ RestInv'
  BY <1>1, <1>2 DEF IInv, QueuedForThisConnection, TasksInv, OnlyStops, RestInv
<1>6. QED
  BY <1>3, <1>4, <1>5 DEF IInv

LEMMA FinishAgentStep == IInv /\ FinishAgent => IInv'
<1> SUFFICES ASSUME IInv, FinishAgent PROVE IInv'
  OBVIOUS
<1>1. /\ apc = "finish" /\ apc' = "done" /\ queue' = <<>> /\ state' = "INITIALIZED"
      /\ UNCHANGED <<delay, after, holds, setupFailed, conn, sockOpen, link, unread,
                     handler, watched, ctrl, removed, rpc, readSet, mpc>>
  BY DEF FinishAgent, sockVars, rxVars
<1>2. queue' \in Seq(Tasks) /\ DOMAIN queue' = {}
  BY <1>1
<1>3. TypeOK'
  BY <1>1, <1>2, DelayAssumption DEF IInv, TypeOK, AgentTypeOK, RxTypeOK, AgentSteps
<1>4. SocketInv' /\ RxInv'
  BY <1>1 DEF IInv, SocketInv, RxInv, On, Off, Left, Ending, Closed, Released, LeftOpen, Ends
<1>5. QueuedForThisConnection' /\ TasksInv' /\ RestInv'
  BY <1>1, <1>2 DEF IInv, QueuedForThisConnection, TasksInv, OnlyStops, RestInv
<1>6. QED
  BY <1>3, <1>4, <1>5 DEF IInv

-----------------------------------------------------------------------------
\* A task is pushed, for the connection there is.
LEMMA PushKeeps ==
    ASSUME IInv, NEW k \in TaskKinds \ {"connect"}, Push(k), UNCHANGED conn,
           k = "reset" => ~NoReconnect, k = "disconnect" => NoReconnect
    PROVE  /\ QueuedForThisConnection' /\ queue' \in Seq(Tasks)
           /\ \A i \in DOMAIN queue' : queue'[i].kind = "reset" => ~NoReconnect
           /\ \A i \in DOMAIN queue' : queue'[i].kind = "disconnect" => NoReconnect
           /\ \A i \in DOMAIN queue' : i \notin DOMAIN queue => queue'[i].kind = k
           /\ \A i \in DOMAIN queue : i \in DOMAIN queue' /\ queue'[i] = queue[i]
           /\ \E i \in DOMAIN queue' : queue'[i].kind = k
<1>1. TypeOK /\ k \in TaskKinds
  BY DEF IInv
<1>2. /\ queue' \in Seq(Tasks) /\ Len(queue) \in Nat
      /\ DOMAIN queue = 1 .. Len(queue) /\ DOMAIN queue' = 1 .. Len(queue) + 1
      /\ \A i \in DOMAIN queue : queue'[i] = queue[i]
      /\ queue'[Len(queue) + 1].kind = k /\ queue'[Len(queue) + 1].conn = conn
  <2>1. /\ queue' \in Seq(Tasks) /\ Len(queue) \in Nat
        /\ DOMAIN queue = 1 .. Len(queue) /\ DOMAIN queue' = 1 .. Len(queue) + 1
        /\ \A i \in DOMAIN queue : queue'[i] = queue[i]
        /\ queue'[Len(queue) + 1] = [kind |-> k, conn |-> conn]
    BY <1>1, Pushed
  <2>2. QED
    BY <2>1
<1>3. /\ \A i \in DOMAIN queue : i \in DOMAIN queue' /\ queue'[i] = queue[i]
      /\ \A i \in DOMAIN queue' :
            i \notin DOMAIN queue => queue'[i].kind = k /\ queue'[i].conn = conn
      /\ \E i \in DOMAIN queue' : queue'[i].kind = k
  BY <1>2
<1>4. QueuedForThisConnection'
  BY <1>3 DEF IInv, QueuedForThisConnection
<1>5. \A i \in DOMAIN queue' : queue'[i].kind = "reset" => ~NoReconnect
  BY <1>3 DEF IInv, TasksInv
<1>6. \A i \in DOMAIN queue' : queue'[i].kind = "disconnect" => NoReconnect
  BY <1>3 DEF IInv, TasksInv
<1>7. QED
  BY <1>2, <1>3, <1>4, <1>5, <1>6

\* The rx thread, while it watches the socket, or the main thread pushes.
LEMMA OthersPush ==
    ASSUME IInv, NEW k \in PduKinds \cup {"stop"}, Push(k),
           UNCHANGED <<conn, state, apc, after>>, k # "stop" => watched
    PROVE  /\ QueuedForThisConnection' /\ TasksInv' /\ RestInv'
           /\ queue' \in Seq(Tasks)
<1>1. k \in TaskKinds \ {"connect"} /\ k # "reset" /\ k # "disconnect"
  BY DEF TaskKinds, PduKinds
<1>2. /\ QueuedForThisConnection' /\ queue' \in Seq(Tasks)
      /\ \A i \in DOMAIN queue' : queue'[i].kind = "reset" => ~NoReconnect
      /\ \A i \in DOMAIN queue' : queue'[i].kind = "disconnect" => NoReconnect
      /\ \A i \in DOMAIN queue' : i \notin DOMAIN queue => queue'[i].kind = k
      /\ \A i \in DOMAIN queue : i \in DOMAIN queue' /\ queue'[i] = queue[i]
  BY <1>1, PushKeeps
<1>3. apc \in {"sleep", "connect"} => k = "stop"
  BY DEF IInv, SocketInv, Off
<1>4. \A i \in DOMAIN queue : queue[i].kind = "connect" => k = "stop"
  BY DEF IInv, SocketInv, TasksInv, Off
<1>5. ASSUME NEW i \in DOMAIN queue', queue'[i].kind = "connect"
      PROVE  /\ i = 1 /\ apc' = "idle" /\ state' = "INITIALIZED" /\ conn' = 0
             /\ \A j \in DOMAIN queue' : j >= 2 => queue'[j].kind = "stop"
  <2>1. i \in DOMAIN queue /\ queue[i].kind = "connect"
    BY <1>1, <1>2, <1>5
  <2>2. QED
    BY <1>2, <1>4, <2>1 DEF IInv, TasksInv, OnlyStops
<1>6. apc' \in {"sleep", "connect"} =>
        state' = "INITIALIZED" /\ \A j \in DOMAIN queue' : j >= 1 => queue'[j].kind = "stop"
  BY <1>2, <1>3 DEF IInv, TasksInv, OnlyStops
<1>7. TasksInv'
  BY <1>2, <1>5, <1>6 DEF IInv, TasksInv, OnlyStops
<1>8. RestInv'
  BY <1>2 DEF IInv, RestInv
<1>9. QED
  BY <1>2, <1>7, <1>8

LEMMA PushStopStep == IInv /\ PushStop => IInv'
<1> SUFFICES ASSUME IInv, PushStop PROVE IInv'
  OBVIOUS
<1>1. /\ Push("stop") /\ mpc' = "joining"
      /\ UNCHANGED <<state, delay, apc, after, holds, setupFailed, conn, sockOpen, link, unread,
                     handler, watched, ctrl, removed, rpc, readSet>>
  BY DEF PushStop, sockVars, rxVars
<1>2. QueuedForThisConnection' /\ TasksInv' /\ RestInv' /\ queue' \in Seq(Tasks)
  BY <1>1, OthersPush
<1>3. TypeOK'
  BY <1>1, <1>2 DEF IInv, TypeOK, AgentTypeOK, RxTypeOK
<1>4. SocketInv' /\ RxInv'
  BY <1>1 DEF IInv, SocketInv, RxInv, On, Off, Left, Ending, Closed, Released, LeftOpen, Ends
<1>5. QED
  BY <1>2, <1>3, <1>4 DEF IInv

LEMMA RxCallbackStep == IInv /\ RxCallback => IInv'
<1> SUFFICES ASSUME IInv, RxCallback PROVE IInv'
  OBVIOUS
<1>1. /\ rpc = "callback" /\ rpc' = "control"
      /\ UNCHANGED <<state, delay, apc, after, holds, setupFailed, conn, sockOpen,
                     handler, watched, ctrl, removed, readSet, mpc>>
      /\ (HandlerDue /\ Receive) \/ UNCHANGED <<queue, link, unread>>
  BY DEF RxCallback, HandlerReturned
<1>2. /\ link' \in {"none", "up", "closing", "eof", "lost"} /\ unread' \in BOOLEAN
      /\ \/ UNCHANGED queue
         \/ watched /\ \E k \in PduKinds : Push(k)
  BY <1>1 DEF Receive, HandlerDue, PduKinds, IInv, RxInv, TypeOK, AgentTypeOK
<1>3. QueuedForThisConnection' /\ TasksInv' /\ RestInv' /\ queue' \in Seq(Tasks)
  <2>1. CASE UNCHANGED queue
    BY <1>1, <2>1 DEF IInv, QueuedForThisConnection, TasksInv, OnlyStops, RestInv, TypeOK, AgentTypeOK
  <2>2. CASE watched /\ \E k \in PduKinds : Push(k)
    <3>1. PICK k \in PduKinds : Push(k)
      BY <2>2
    <3>2. QED
      BY <1>1, <2>2, <3>1, OthersPush
  <2>3. QED
    BY <1>2, <2>1, <2>2
<1>4. TypeOK'
  BY <1>1, <1>2, <1>3 DEF IInv, TypeOK, AgentTypeOK, RxTypeOK
<1>5. SocketInv' /\ RxInv'
  BY <1>1 DEF IInv, SocketInv, RxInv, On, Off, Left, Ending, Closed, Released, LeftOpen, Ends
<1>6. QED
  BY <1>3, <1>4, <1>5 DEF IInv

\* The agent thread pushes, and goes back to its queue.
LEMMA AgentPush ==
    ASSUME IInv, NEW k \in {"reset", "disconnect", "stop"}, Push(k),
           k = "reset" => ~NoReconnect, k = "disconnect" => NoReconnect,
           apc # "idle", apc' = "idle", UNCHANGED <<conn, after>>
    PROVE  /\ QueuedForThisConnection' /\ TasksInv' /\ RestInv'
           /\ queue' \in Seq(Tasks)
<1>1. k \in TaskKinds \ {"connect"}
  BY DEF TaskKinds
<1>2. /\ QueuedForThisConnection' /\ queue' \in Seq(Tasks)
      /\ \A i \in DOMAIN queue' : queue'[i].kind = "reset" => ~NoReconnect
      /\ \A i \in DOMAIN queue' : queue'[i].kind = "disconnect" => NoReconnect
      /\ \A i \in DOMAIN queue' : i \notin DOMAIN queue => queue'[i].kind = k
      /\ \A i \in DOMAIN queue : i \in DOMAIN queue' /\ queue'[i] = queue[i]
      /\ \E i \in DOMAIN queue' : queue'[i].kind = k
  BY <1>1, PushKeeps
<1>3. \A i \in DOMAIN queue' : queue'[i].kind # "connect"
  BY <1>1, <1>2 DEF IInv, TasksInv
<1>4. TasksInv'
  BY <1>2, <1>3 DEF IInv, TasksInv
<1>5. RestInv'
  BY <1>2 DEF IInv, RestInv
<1>6. QED
  BY <1>2, <1>4, <1>5

LEMMA ConnectionErrorPushes ==
    ASSUME IInv, ConnectionError
    PROVE  \E k \in {"reset", "disconnect"} :
              /\ Push(k)
              /\ k = "reset" => ~NoReconnect /\ state' = state
              /\ k = "disconnect" => NoReconnect /\ state' = "DISABLED"
BY DEF ConnectionError

LEMMA FailConnectionStep == IInv /\ FailConnection => IInv'
<1> SUFFICES ASSUME IInv, FailConnection PROVE IInv'
  OBVIOUS
<1>0. PICK k \in {"reset", "disconnect"} :
         /\ Push(k)
         /\ k = "reset" => ~NoReconnect /\ state' = state
         /\ k = "disconnect" => NoReconnect /\ state' = "DISABLED"
  BY ConnectionErrorPushes DEF FailConnection
<1>1. /\ apc = "failed" /\ apc' = "idle" /\ holds' = FALSE
      /\ state' = state \/ (NoReconnect /\ state' = "DISABLED")
      /\ UNCHANGED <<delay, after, setupFailed, conn, sockOpen, link, unread,
                     handler, watched, ctrl, removed, rpc, readSet, mpc>>
  BY <1>0 DEF FailConnection, sockVars, rxVars
<1>2. QueuedForThisConnection' /\ TasksInv' /\ RestInv' /\ queue' \in Seq(Tasks)
  BY <1>0, <1>1, AgentPush
<1>3. TypeOK'
  <2>1. AgentTypeOK'
    BY <1>1, <1>2, Zenon DEF IInv, TypeOK, AgentTypeOK, AgentSteps
  <2>2. RxTypeOK'
    BY <1>1 DEF IInv, TypeOK, RxTypeOK
  <2>3. QED
    BY <2>1, <2>2 DEF TypeOK
<1>4. SocketInv' /\ RxInv'
  BY <1>1 DEF IInv, SocketInv, RxInv, On, Off, Left, Ending, Closed, Released, LeftOpen, Ends
<1>5. QED
  BY <1>2, <1>3, <1>4 DEF IInv

LEMMA ConnectFailsStep == IInv /\ ConnectFails => IInv'
<1> SUFFICES ASSUME IInv, ConnectFails PROVE IInv'
  OBVIOUS
<1>0. PICK k \in {"reset", "disconnect"} :
         /\ Push(k)
         /\ k = "reset" => ~NoReconnect /\ state' = state
         /\ k = "disconnect" => NoReconnect /\ state' = "DISABLED"
  BY ConnectionErrorPushes DEF ConnectFails
<1>1. /\ apc = "connect" /\ apc' = "idle" /\ state = "INITIALIZED"
      /\ state' = state \/ (NoReconnect /\ state' = "DISABLED")
      /\ UNCHANGED <<delay, after, holds, setupFailed, conn, sockOpen, link, unread,
                     handler, watched, ctrl, removed, rpc, readSet, mpc>>
  BY <1>0 DEF ConnectFails, sockVars, rxVars, IInv, TasksInv
<1>2. QueuedForThisConnection' /\ TasksInv' /\ RestInv' /\ queue' \in Seq(Tasks)
  BY <1>0, <1>1, AgentPush
<1>3. TypeOK'
  BY <1>1, <1>2 DEF IInv, TypeOK, AgentTypeOK, RxTypeOK, AgentSteps
<1>4. SocketInv' /\ RxInv'
  BY <1>1 DEF IInv, SocketInv, RxInv, On, Off, Left, Ending, Closed, Released, LeftOpen, Ends
<1>5. QED
  BY <1>2, <1>3, <1>4 DEF IInv

LEMMA ConnectSetupFailsStep == IInv /\ ConnectSetupFails => IInv'
<1> SUFFICES ASSUME IInv, ConnectSetupFails PROVE IInv'
  OBVIOUS
<1>1. /\ apc = "connect" /\ apc' = "idle" /\ state' = "DISABLED" /\ setupFailed' = TRUE
      /\ Push("stop")
      /\ sockOpen' \in BOOLEAN
      /\ UNCHANGED <<delay, after, holds, conn, link, unread,
                     handler, watched, ctrl, removed, rpc, readSet, mpc>>
  BY DEF ConnectSetupFails, sockVars, rxVars
<1>2. QueuedForThisConnection' /\ TasksInv' /\ RestInv' /\ queue' \in Seq(Tasks)
  BY <1>1, AgentPush
<1>3. TypeOK'
  BY <1>1, <1>2 DEF IInv, TypeOK, AgentTypeOK, RxTypeOK, AgentSteps
<1>4. SocketInv' /\ RxInv'
  BY <1>1 DEF IInv, SocketInv, RxInv, On, Off, Left, Ending, Closed, Released, LeftOpen, Ends
<1>5. QED
  BY <1>2, <1>3, <1>4 DEF IInv

-----------------------------------------------------------------------------
\* The rest of the rx thread, of the main thread and of the peer
LEMMA SameAgent ==
    ASSUME IInv, UNCHANGED <<state, queue, apc, after, conn>>
    PROVE  QueuedForThisConnection' /\ TasksInv' /\ RestInv'
BY DEF IInv, QueuedForThisConnection, TasksInv, OnlyStops, RestInv

LEMMA RxWaitsStep == IInv /\ RxWaits => IInv'
<1> SUFFICES ASSUME IInv, RxWaits PROVE IInv'
  OBVIOUS
<1>1. /\ rpc = "select" /\ rpc' = "lock"
      /\ readSet' \subseteq {"fd", "pipe"}
      /\ "fd" \in readSet' => watched
      /\ "pipe" \in readSet' => ctrl # <<>>
      /\ UNCHANGED <<state, delay, queue, apc, after, holds, setupFailed, conn, sockOpen, link,
                     unread, handler, watched, ctrl, removed, mpc>>
  BY DEF RxWaits, RxSelect, agentVars, sockVars
<1>2. QueuedForThisConnection' /\ TasksInv' /\ RestInv'
  BY <1>1, SameAgent
<1>3. TypeOK'
  BY <1>1, <1>2 DEF IInv, TypeOK, AgentTypeOK, RxTypeOK
<1>4. SocketInv' /\ RxInv'
  BY <1>1 DEF IInv, SocketInv, RxInv, On, Off, Left, Ending, Closed, Released, LeftOpen, Ends
<1>5. QED
  BY <1>2, <1>3, <1>4 DEF IInv

LEMMA RxLocksStep == IInv /\ RxLocks => IInv'
<1> SUFFICES ASSUME IInv, RxLocks PROVE IInv'
  OBVIOUS
<1>1. /\ rpc = "lock" /\ rpc' = "callback"
      /\ UNCHANGED <<state, delay, queue, apc, after, holds, setupFailed, conn, sockOpen, link,
                     unread, handler, watched, ctrl, removed, readSet, mpc>>
  BY DEF RxLocks, RxLock, agentVars, sockVars
<1>2. QueuedForThisConnection' /\ TasksInv' /\ RestInv'
  BY <1>1, SameAgent
<1>3. TypeOK'
  BY <1>1, <1>2 DEF IInv, TypeOK, AgentTypeOK, RxTypeOK
<1>4. SocketInv' /\ RxInv'
  BY <1>1 DEF IInv, SocketInv, RxInv, On, Off, Left, Ending, Closed, Released, LeftOpen, Ends
<1>5. QED
  BY <1>2, <1>3, <1>4 DEF IInv

LEMMA RxControlsStep == IInv /\ RxControls => IInv'
<1> SUFFICES ASSUME IInv, RxControls PROVE IInv'
  OBVIOUS
<1>1. /\ rpc = "control" /\ readSet' = {} /\ rpc' \in {"select", "done"}
      /\ UNCHANGED <<state, delay, queue, apc, after, holds, setupFailed, conn, sockOpen, link,
                     unread, mpc>>
  BY DEF RxControls, RxControl, agentVars, sockVars
<1>2. QueuedForThisConnection' /\ TasksInv' /\ RestInv' /\ AgentTypeOK'
  BY <1>1, SameAgent DEF IInv, TypeOK, AgentTypeOK
<1>3. CASE "pipe" \notin readSet
  <2>1. rpc' = "select" /\ UNCHANGED <<handler, watched, ctrl, removed>>
    BY <1>3 DEF RxControls, RxControl
  <2>2. RxTypeOK'
    BY <1>1, <2>1 DEF IInv, TypeOK, RxTypeOK
  <2>3. SocketInv' /\ RxInv'
    BY <1>1, <2>1 DEF IInv, SocketInv, RxInv, On, Off, Left, Ending, Closed, Released, LeftOpen, Ends
  <2>4. QED
    BY <1>2, <2>2, <2>3 DEF IInv, TypeOK
<1>4. CASE "pipe" \in readSet
  <2>1. ctrl # <<>> /\ apc \notin {"finish", "done"}
    BY <1>1, <1>4 DEF IInv, RxInv
  <2>2. \/ Head(ctrl) = "NEW_FD" /\ rpc' = "select" /\ watched' = TRUE
           /\ UNCHANGED <<handler, removed>>
        \/ Head(ctrl) = "RM_FD" /\ rpc' = "select" /\ handler' = FALSE /\ watched' = FALSE
           /\ removed' = TRUE
        \/ Head(ctrl) = "EXIT" /\ rpc' = "done" /\ UNCHANGED <<handler, watched, removed>>
    <3>1. Head(ctrl) \in {"NEW_FD", "RM_FD", "EXIT"}
      BY <2>1 DEF IInv, TypeOK, RxTypeOK
    <3>2. QED
      BY <1>4, <3>1 DEF RxControls, RxControl, RemoveSocket
  <2>3. ctrl' = Tail(ctrl) /\ ctrl' \in Seq({"NEW_FD", "RM_FD", "EXIT"})
    BY <1>4, <2>1 DEF RxControls, RxControl, IInv, TypeOK, RxTypeOK
  <2>4. RxTypeOK'
    BY <1>1, <2>2, <2>3 DEF IInv, TypeOK, RxTypeOK
  <2>5. SocketInv' /\ RxInv'
    <3>1. CASE ctrl = <<"NEW_FD">>
      <4>1. watched' = TRUE /\ rpc' = "select" /\ ctrl' = <<>> /\ UNCHANGED <<handler, removed>>
        BY <2>2, <2>3, <3>1, CtrlSeqs
      <4>2. QED
        BY <1>1, <2>1, <3>1, <4>1, CtrlSeqs DEF IInv, SocketInv, RxInv, On, Off, Left, Ending, Closed, Released, LeftOpen, Ends
    <3>2. CASE ctrl = <<"RM_FD">>
      <4>1. /\ handler' = FALSE /\ watched' = FALSE /\ removed' = TRUE
            /\ rpc' = "select" /\ ctrl' = <<>>
        BY <2>2, <2>3, <3>2, CtrlSeqs
      <4>2. QED
        BY <1>1, <2>1, <3>2, <4>1, CtrlSeqs DEF IInv, SocketInv, RxInv, On, Off, Left, Ending, Closed, Released, LeftOpen, Ends
    <3>3. CASE ctrl = <<"EXIT">>
      <4>1. rpc' = "done" /\ ctrl' = <<>> /\ UNCHANGED <<handler, watched, removed>>
        BY <2>2, <2>3, <3>3, CtrlSeqs
      <4>2. ~Off /\ ~On /\ ~Left
        BY <3>3, CtrlSeqs DEF Off, On, Left
      <4>3. apc = "joinRx"
        BY <2>1, <4>2 DEF IInv, TypeOK, AgentTypeOK, AgentSteps, SocketInv, Off
      <4>4. QED
        BY <1>1, <2>1, <3>3, <4>1, <4>3, CtrlSeqs DEF IInv, SocketInv, RxInv, On, Off, Left, Ending, Closed, Released, LeftOpen, Ends
    <3>4. CASE ctrl = <<"NEW_FD", "RM_FD">>
      <4>1. watched' = TRUE /\ rpc' = "select" /\ ctrl' = <<"RM_FD">> /\ UNCHANGED <<handler, removed>>
        BY <2>2, <2>3, <3>4, CtrlSeqs
      <4>2. QED
        BY <1>1, <2>1, <3>4, <4>1, CtrlSeqs DEF IInv, SocketInv, RxInv, On, Off, Left, Ending, Closed, Released, LeftOpen, Ends
    <3>5. CASE ctrl = <<"NEW_FD", "EXIT">>
      <4>1. watched' = TRUE /\ rpc' = "select" /\ ctrl' = <<"EXIT">> /\ UNCHANGED <<handler, removed>>
        BY <2>2, <2>3, <3>5, CtrlSeqs
      <4>2. QED
        BY <1>1, <2>1, <3>5, <4>1, CtrlSeqs DEF IInv, SocketInv, RxInv, On, Off, Left, Ending, Closed, Released, LeftOpen, Ends
    <3>6. QED
      BY <2>1, <3>1, <3>2, <3>3, <3>4, <3>5 DEF IInv, TypeOK, AgentTypeOK, AgentSteps, SocketInv, On, Off, Left, Ending, Ends
  <2>6. QED
    BY <1>2, <2>4, <2>5 DEF IInv, TypeOK
<1>5. QED
  BY <1>3, <1>4

LEMMA EnbStopStep == IInv /\ EnbStop => IInv'
<1> SUFFICES ASSUME IInv, EnbStop PROVE IInv'
  OBVIOUS
<1>1. /\ mpc' \in {"done", "pushing"}
      /\ UNCHANGED <<state, delay, queue, apc, after, holds, setupFailed, conn, sockOpen, link,
                     unread, handler, watched, ctrl, removed, rpc, readSet>>
  BY DEF EnbStop, agentVars, sockVars, rxVars
<1>2. QueuedForThisConnection' /\ TasksInv' /\ RestInv'
  BY <1>1, SameAgent
<1>3. TypeOK'
  BY <1>1 DEF IInv, TypeOK, AgentTypeOK, RxTypeOK
<1>4. SocketInv' /\ RxInv'
  BY <1>1 DEF IInv, SocketInv, RxInv, On, Off, Left, Ending, Closed, Released, LeftOpen, Ends
<1>5. QED
  BY <1>2, <1>3, <1>4 DEF IInv

LEMMA JoinAgentStep == IInv /\ JoinAgent => IInv'
<1> SUFFICES ASSUME IInv, JoinAgent PROVE IInv'
  OBVIOUS
<1>1. /\ mpc' = "done"
      /\ UNCHANGED <<state, delay, queue, apc, after, holds, setupFailed, conn, sockOpen, link,
                     unread, handler, watched, ctrl, removed, rpc, readSet>>
  BY DEF JoinAgent, agentVars, sockVars, rxVars
<1>2. QueuedForThisConnection' /\ TasksInv' /\ RestInv'
  BY <1>1, SameAgent
<1>3. TypeOK'
  BY <1>1 DEF IInv, TypeOK, AgentTypeOK, RxTypeOK
<1>4. SocketInv' /\ RxInv'
  BY <1>1 DEF IInv, SocketInv, RxInv, On, Off, Left, Ending, Closed, Released, LeftOpen, Ends
<1>5. QED
  BY <1>2, <1>3, <1>4 DEF IInv

LEMMA PeerStep == IInv /\ PeerNext => IInv'
<1> SUFFICES ASSUME IInv, PeerNext PROVE IInv'
  OBVIOUS
<1>1. /\ link' \in {link, "closing", "lost"} /\ unread' \in {unread, TRUE}
      /\ UNCHANGED <<state, delay, queue, apc, after, holds, setupFailed, conn, sockOpen,
                     handler, watched, ctrl, removed, rpc, readSet, mpc>>
  BY DEF PeerNext, agentVars, rxVars
<1>2. QueuedForThisConnection' /\ TasksInv' /\ RestInv'
  BY <1>1, SameAgent
<1>3. TypeOK'
  <2>1. AgentTypeOK'
    <3>1. AgentTypeOK
      BY DEF IInv, TypeOK
    <3>2. link' \in {"none", "up", "closing", "eof", "lost"} /\ unread' \in BOOLEAN
      BY <1>1, <3>1, Zenon DEF AgentTypeOK
    <3>3. QED
      BY <1>1, <3>1, <3>2, Zenon DEF AgentTypeOK
  <2>2. RxTypeOK'
    BY <1>1 DEF IInv, TypeOK, RxTypeOK
  <2>3. QED
    BY <2>1, <2>2 DEF TypeOK
<1>4. SocketInv' /\ RxInv'
  BY <1>1 DEF IInv, SocketInv, RxInv, On, Off, Left, Ending, Closed, Released, LeftOpen, Ends
<1>5. QED
  BY <1>2, <1>3, <1>4 DEF IInv

-----------------------------------------------------------------------------
LEMMA InitIInv == Init => IInv
<1> SUFFICES ASSUME Init PROVE IInv
  OBVIOUS
<1>1. /\ queue \in Seq(Tasks) /\ DOMAIN queue = {1} /\ queue[1].kind = "connect"
      /\ queue[1].conn = 0
  BY DEF Init, Task, Tasks, TaskKinds
<1>2. AgentTypeOK
  <2>1. delay \in 0 .. DelayMax /\ conn \in Nat
    BY DelayAssumption DEF Init
  <2>2. QED
    BY <1>1, <2>1, Zenon DEF Init, AgentTypeOK, AgentSteps
<1>3. RxTypeOK
  <2>1. ctrl \in Seq({"NEW_FD", "RM_FD", "EXIT"})
    BY DEF Init, RxInit
  <2>2. QED
    BY <2>1, Zenon DEF Init, RxInit, RxTypeOK
<1>4. SocketInv /\ RxInv
  BY DEF Init, RxInit, SocketInv, RxInv, Off, Released, Ends
<1>5. QueuedForThisConnection /\ TasksInv /\ RestInv
  BY <1>1 DEF Init, QueuedForThisConnection, TasksInv, OnlyStops, RestInv, PduKinds
<1>6. QED
  BY <1>2, <1>3, <1>4, <1>5 DEF IInv, TypeOK

LEMMA NextIInv == IInv /\ [Next]_vars => IInv'
<1>1. IInv /\ AgentNext => IInv'
  BY HandlePduStep, HandleShutdownStep, FailConnectionStep,
     BeginConnectStep, BeginResetStep, BeginDisconnectStep,
     BeginStopStep, NothingToDisconnectStep, RequestRemovalStep,
     SocketRemovedStep, CloseSocketStep, SwapQueueStep, EndSleepStep,
     ConnectSetupFailsStep, ConnectFailsStep, ConnectSucceedsStep,
     RegisterStep, StopRxStep, JoinRxStep, FinishAgentStep
     DEF AgentNext
<1>2. IInv /\ RxNext => IInv'
  BY RxWaitsStep, RxLocksStep, RxCallbackStep, RxControlsStep DEF RxNext
<1>3. IInv /\ MainNext => IInv'
  BY PushStopStep, JoinAgentStep DEF MainNext
<1>4. IInv /\ UNCHANGED vars => IInv'
  <2> SUFFICES ASSUME IInv, UNCHANGED vars PROVE IInv'
    OBVIOUS
  <2>1. UNCHANGED <<state, delay, queue, apc, after, holds, setupFailed, conn, sockOpen, link,
                    unread, handler, watched, ctrl, removed, rpc, readSet, mpc>>
    BY DEF vars, agentVars, sockVars, rxVars
  <2>2. QueuedForThisConnection' /\ TasksInv' /\ RestInv'
    BY <2>1, SameAgent
  <2>3. TypeOK'
    BY <2>1 DEF IInv, TypeOK, AgentTypeOK, RxTypeOK
  <2>4. SocketInv' /\ RxInv'
    BY <2>1 DEF IInv, SocketInv, RxInv, On, Off, Left, Ending, Closed, Released, LeftOpen, Ends
  <2>5. QED
    BY <2>2, <2>3, <2>4 DEF IInv
<1>5. QED
  BY <1>1, <1>2, <1>3, <1>4, EnbStopStep, PeerStep DEF Next

-----------------------------------------------------------------------------
(***************************************************************************)
(* The agent's, the rx thread's and the main thread's state keep their     *)
(* types, the delay its bound, for any capacity, delay and number of       *)
(* connections (TypeOK).                                                   *)
(***************************************************************************)
THEOREM TypeCorrect == Spec => []TypeOK
<1>1. IInv => TypeOK
  BY DEF IInv
<1>2. QED
  BY InitIInv, NextIInv, <1>1, PTL DEF Spec

(***************************************************************************)
(* The rx thread never selects on, or reads, a closed descriptor, its      *)
(* snapshot of the set included (DescriptorOpen): between the request to   *)
(* remove a socket and close() stands the answer to it.                    *)
(***************************************************************************)
THEOREM NoStaleDescriptor == Spec => []DescriptorOpen
<1>1. IInv => DescriptorOpen
  BY DEF IInv, TypeOK, AgentTypeOK, AgentSteps, SocketInv, RxInv, On, Off, Left,
     Ending, Closed, Released, LeftOpen, Ends, DescriptorOpen
<1>2. QED
  BY InitIInv, NextIInv, <1>1, PTL DEF Spec

(***************************************************************************)
(* A reset or a message of one connection is never run for the next        *)
(* (QueuedForThisConnection).                                              *)
(***************************************************************************)
THEOREM NoStaleTask == Spec => []QueuedForThisConnection
<1>1. IInv => QueuedForThisConnection
  BY DEF IInv
<1>2. QED
  BY InitIInv, NextIInv, <1>1, PTL DEF Spec

(***************************************************************************)
(* With no_reconnect there is one connection at most (NoSecondConnection). *)
(***************************************************************************)
THEOREM OneConnection == Spec => []NoSecondConnection
<1>1. IInv => NoSecondConnection
  BY DEF IInv, TasksInv, NoSecondConnection
<1>2. QED
  BY InitIInv, NextIInv, <1>1, PTL DEF Spec
-----------------------------------------------------------------------------
(***************************************************************************)
(* Why no push to the agent's queue ever blocks: what is queued is counted *)
(* by kind, messages against the buffers of the pool, the tasks that       *)
(* connect, reset or disconnect by the one connection they belong to, and  *)
(* the stops by who pushes them.                                           *)
(***************************************************************************)
Calls == {"shutdown", "connect", "reset", "disconnect"}

Queued(K) == {i \in DOMAIN queue : queue[i].kind \in K}

NoCall == \A i \in DOMAIN queue : queue[i].kind \notin Calls

(***************************************************************************)
(* The shutdown of a connection, the reset or the disconnect that follows  *)
(* it, and the first connect: one of them at most is queued, and none      *)
(* while the connection lives or the shutdown is being handled.            *)
(***************************************************************************)
CallsInv ==
    /\ \A i, j \in DOMAIN queue :
          queue[i].kind \in Calls /\ queue[j].kind \in Calls => i = j
    /\ link \in {"up", "closing"} => NoCall
    /\ apc = "failed" => NoCall /\ link \notin {"up", "closing"}
    /\ ~sockOpen => link = "none"

\* A stop is pushed by the main thread once, and by a connect() that cannot
\* set its socket up.
StopsInv ==
    Cardinality(Queued({"stop"})) <=
        (IF mpc \in {"joining", "done"} THEN 1 ELSE 0) + (IF setupFailed THEN 1 ELSE 0)

\* After such a connect() there is nothing but stops, and no other connect().
SetupInv ==
    setupFailed =>
        /\ ~handler /\ link = "none"
        /\ OnlyStops(1)
        /\ \/ apc \in {"idle", "stopRx"} \cup Ends
           \/ apc = "disconnect" /\ after = "stopRx"

BuffersInv == Cardinality(Queued(PduKinds)) + (IF holds THEN 1 ELSE 0) <= PoolSize

QInv == IInv /\ CallsInv /\ StopsInv /\ SetupInv /\ BuffersInv
-----------------------------------------------------------------------------
\* Counting, across a step of the queue
Later(K) == {i \in DOMAIN queue' : queue'[i].kind \in K}

LEMMA CardinalityOfUnion ==
    ASSUME NEW A, NEW B, IsFiniteSet(A), IsFiniteSet(B)
    PROVE  /\ IsFiniteSet(A \cup B) /\ Cardinality(A \cup B) \in Nat
           /\ Cardinality(A \cup B) <= Cardinality(A) + Cardinality(B)
<1>1. /\ IsFiniteSet(A \cup B)
      /\ Cardinality(A \cup B) = Cardinality(A) + Cardinality(B) - Cardinality(A \cap B)
  BY FS_Union
<1>2. IsFiniteSet(A \cap B)
  BY FS_Subset
<1>3. QED
  BY <1>1, <1>2, FS_CardinalityType

LEMMA QueuedFinite ==
    ASSUME TypeOK, NEW K
    PROVE  IsFiniteSet(Queued(K)) /\ Cardinality(Queued(K)) \in Nat
<1>1. Len(queue) \in Nat /\ DOMAIN queue = 1 .. Len(queue)
  BY DEF TypeOK, AgentTypeOK
<1>2. IsFiniteSet(1 .. Len(queue))
  BY <1>1, FS_Interval
<1>3. Queued(K) \in SUBSET (1 .. Len(queue))
  BY <1>1 DEF Queued
<1>4. IsFiniteSet(Queued(K))
  BY <1>2, <1>3, FS_Subset
<1>5. QED
  BY <1>4, FS_CardinalityType

LEMMA CountPush ==
    ASSUME TypeOK, NEW k \in TaskKinds, Push(k), NEW K
    PROVE  Cardinality(Later(K)) = Cardinality(Queued(K)) + (IF k \in K THEN 1 ELSE 0)
<1>1. /\ Len(queue) \in Nat /\ DOMAIN queue = 1 .. Len(queue)
      /\ DOMAIN queue' = 1 .. Len(queue) + 1
      /\ \A i \in DOMAIN queue : queue'[i] = queue[i]
      /\ queue'[Len(queue) + 1].kind = k
  <2>1. /\ Len(queue) \in Nat /\ DOMAIN queue = 1 .. Len(queue)
        /\ DOMAIN queue' = 1 .. Len(queue) + 1
        /\ \A i \in DOMAIN queue : queue'[i] = queue[i]
        /\ queue'[Len(queue) + 1] = [kind |-> k, conn |-> conn]
    BY Pushed
  <2>2. QED
    BY <2>1
<1>2. IsFiniteSet(Queued(K)) /\ Cardinality(Queued(K)) \in Nat
  BY QueuedFinite
<1>3. Len(queue) + 1 \notin Queued(K)
  BY <1>1 DEF Queued
<1>4. CASE k \in K
  <2>1. Later(K) = Queued(K) \cup {Len(queue) + 1}
    BY <1>1, <1>4 DEF Later, Queued
  <2>2. QED
    BY <1>2, <1>3, <1>4, <2>1, FS_AddElement
<1>5. CASE k \notin K
  <2>1. Later(K) = Queued(K)
    BY <1>1, <1>5 DEF Later, Queued
  <2>2. QED
    BY <1>2, <1>5, <2>1
<1>6. QED
  BY <1>4, <1>5

LEMMA CountPop ==
    ASSUME TypeOK, NEW M, PopTask(M), NEW K
    PROVE  Cardinality(Later(K)) = Cardinality(Queued(K)) - (IF queue[1].kind \in K THEN 1 ELSE 0)
<1>1. /\ Len(queue) \in Nat \ {0} /\ DOMAIN queue = 1 .. Len(queue)
      /\ DOMAIN queue' = 1 .. Len(queue) - 1
      /\ \A i \in DOMAIN queue' : queue'[i] = queue[i + 1]
  BY Popped
<1>2. IsFiniteSet(Queued(K)) /\ Cardinality(Queued(K)) \in Nat
  BY QueuedFinite
<1> DEFINE Rest == Queued(K) \ {1}
           f == [i \in Rest |-> i - 1]
<1>3. /\ IsFiniteSet(Rest)
      /\ Cardinality(Rest) = Cardinality(Queued(K)) - (IF queue[1].kind \in K THEN 1 ELSE 0)
  <2>1. 1 \in Queued(K) <=> queue[1].kind \in K
    BY <1>1 DEF Queued
  <2>2. QED
    BY <1>2, <2>1, FS_RemoveElement
<1>4. f \in [Rest -> Later(K)]
  BY <1>1 DEF Queued, Later
<1>5. \A a, b \in Rest : f[a] = f[b] => a = b
  BY <1>1 DEF Queued
<1>6. \A t \in Later(K) : \E i \in Rest : f[i] = t
  <2> SUFFICES ASSUME NEW t \in Later(K) PROVE \E i \in Rest : f[i] = t
    OBVIOUS
  <2>1. t + 1 \in Rest /\ (t + 1) - 1 = t
    BY <1>1 DEF Queued, Later
  <2>2. QED
    BY <2>1
<1>7. f \in Bijection(Rest, Later(K))
  BY <1>4, <1>5, <1>6, Fun_IsBij
<1>8. ExistsBijection(Rest, Later(K))
  BY <1>7, Fun_ExistsBij
<1>9. QED
  BY <1>3, <1>8, FS_Bijection
-----------------------------------------------------------------------------
LEMMA QInvBounds == QInv => PushNeverBlocks
<1> SUFFICES ASSUME QInv PROVE PushNeverBlocks
  OBVIOUS
<1> DEFINE P == Queued(PduKinds)
           C == Queued({"connect", "reset", "disconnect"})
           S == Queued({"stop"})
<1>1. TypeOK
  BY DEF QInv, IInv
<1>2. /\ IsFiniteSet(P) /\ Cardinality(P) \in Nat
      /\ IsFiniteSet(C) /\ Cardinality(C) \in Nat
      /\ IsFiniteSet(S) /\ Cardinality(S) \in Nat
  BY <1>1, QueuedFinite
<1>3. Cardinality(C) <= 1
  <2>1. CASE C = {}
    BY <2>1, FS_EmptySet
  <2>2. CASE C # {}
    <3>1. PICK i \in C : TRUE
      BY <2>2
    <3>2. C = {i}
      BY <3>1 DEF QInv, CallsInv, Calls, Queued
    <3>3. Cardinality({i}) = 1
      BY FS_Singleton
    <3>4. QED
      BY <3>2, <3>3
  <2>3. QED
    BY <2>1, <2>2
<1>4. Cardinality(P) <= PoolSize /\ Cardinality(S) <= 2
  BY <1>2, QueueAssumption DEF QInv, BuffersInv, StopsInv
<1>5. /\ Len(queue) \in Nat /\ DOMAIN queue = 1 .. Len(queue)
      /\ \A i \in DOMAIN queue : queue[i].kind \in TaskKinds
  <2>1. queue \in Seq(Tasks) /\ \A t \in Tasks : t.kind \in TaskKinds
    BY <1>1 DEF TypeOK, AgentTypeOK, Tasks
  <2>2. QED
    BY <2>1
<1>6. 1 .. Len(queue) = (P \cup C) \cup S
  BY <1>5 DEF Queued, TaskKinds, PduKinds
<1>7. /\ IsFiniteSet(P \cup C) /\ Cardinality(P \cup C) \in Nat
      /\ Cardinality(P \cup C) <= Cardinality(P) + Cardinality(C)
  BY <1>2, CardinalityOfUnion
<1>8. Cardinality((P \cup C) \cup S) <= Cardinality(P) + Cardinality(C) + Cardinality(S)
  BY <1>2, <1>7, CardinalityOfUnion
<1>9. Cardinality(1 .. Len(queue)) = Len(queue)
  BY <1>5, FS_Interval
<1>10. Len(queue) <= Cardinality(P) + Cardinality(C) + Cardinality(S)
  BY <1>6, <1>8, <1>9
<1> HIDE DEF P, C, S
<1>11. QED
  BY <1>2, <1>3, <1>4, <1>5, <1>10, QueueAssumption DEF PushNeverBlocks
-----------------------------------------------------------------------------
\* The steps that leave the queue alone
KeepsQueue ==
    \/ NothingToDisconnect \/ RequestRemoval \/ SocketRemoved \/ CloseSocket \/ EndSleep
    \/ ConnectSucceeds \/ Register \/ StopRx \/ JoinRx
    \/ RxWaits \/ RxLocks \/ RxControls \/ EnbStop \/ JoinAgent \/ PeerNext \/ UNCHANGED vars

LEMMA SameCounts ==
    ASSUME QInv, UNCHANGED <<queue, setupFailed>>, holds' => holds,
           mpc \in {"joining", "done"} => mpc' \in {"joining", "done"}
    PROVE  StopsInv' /\ BuffersInv'
<1>1. Cardinality(Queued(PduKinds)) \in Nat /\ Cardinality(Queued({"stop"})) \in Nat
  BY QueuedFinite DEF QInv, IInv
<1>2. StopsInv'
  BY <1>1 DEF QInv, StopsInv, Queued
<1>3. BuffersInv'
  BY <1>1, QueueAssumption DEF QInv, BuffersInv, Queued
<1>4. QED
  BY <1>2, <1>3

LEMMA KeepsQueueStep == QInv /\ KeepsQueue /\ IInv' => QInv'
<1> SUFFICES ASSUME QInv, KeepsQueue, IInv' PROVE QInv'
  OBVIOUS
<1>1. /\ UNCHANGED <<queue, holds, setupFailed, after>>
      /\ mpc \in {"joining", "done"} => mpc' \in {"joining", "done"}
  BY DEF KeepsQueue, NothingToDisconnect, RequestRemoval, SocketRemoved, CloseSocket, EndSleep,
         ConnectSucceeds, Register, StopRx, JoinRx, RxWaits, RxLocks, RxControls, EnbStop,
         JoinAgent, PeerNext, vars, agentVars, sockVars
<1>2. StopsInv' /\ BuffersInv'
  BY <1>1, SameCounts
<1>3. /\ apc' = "failed" => apc = "failed"
      /\ \/ UNCHANGED link /\ sockOpen' = sockOpen
         \/ link = "up" /\ link' \in {"eof", "closing", "lost"} /\ sockOpen' = sockOpen
         \/ link' = "none" /\ sockOpen' = FALSE
         \/ apc = "connect" /\ apc' = "register" /\ link' = "up" /\ sockOpen' = TRUE
  BY DEF KeepsQueue, NothingToDisconnect, RequestRemoval, SocketRemoved, CloseSocket, EndSleep,
         ConnectSucceeds, Register, StopRx, JoinRx, RxWaits, RxLocks, RxControls, EnbStop,
         JoinAgent, PeerNext, vars, agentVars, sockVars, IInv, TypeOK, AgentTypeOK
<1>4. apc = "connect" => NoCall
  BY DEF QInv, IInv, TypeOK, AgentTypeOK, TasksInv, OnlyStops, NoCall, Calls
<1>5. CallsInv'
  BY <1>1, <1>3, <1>4 DEF QInv, CallsInv, NoCall
<1>6. SetupInv'
  <2> SUFFICES ASSUME setupFailed PROVE SetupInv'
    BY <1>1 DEF SetupInv
  <2>1. /\ ~handler /\ link = "none" /\ OnlyStops(1)
        /\ \/ apc \in {"idle", "stopRx", "joinRx", "finish", "done"}
           \/ apc = "disconnect" /\ after = "stopRx" /\ state # "ESTABLISHED"
    BY DEF QInv, SetupInv, Ends, IInv, SocketInv, LeftOpen, On
  <2>2. ~handler' /\ link' = "none"
    <3>1. link' = "none"
      BY <1>3, <2>1
    <3>2. CASE RxControls
      <4>0. CASE "pipe" \notin readSet
        BY <2>1, <3>1, <3>2, <4>0 DEF RxControls, RxControl
      <4>1. CASE "pipe" \in readSet
        <5>1. Head(ctrl) \in {"NEW_FD", "RM_FD", "EXIT"}
          BY <4>1 DEF QInv, IInv, RxInv, TypeOK, RxTypeOK
        <5>2. QED
          BY <2>1, <3>1, <3>2, <4>1, <5>1 DEF RxControls, RxControl, RemoveSocket
      <4>2. QED
        BY <4>0, <4>1
    <3>3. CASE Register
      BY <2>1, <3>3 DEF Register
    <3>4. CASE KeepsQueue /\ ~RxControls /\ ~Register
      <4>1. handler' = handler
        BY <3>4 DEF KeepsQueue, NothingToDisconnect, RequestRemoval, SocketRemoved, CloseSocket, EndSleep,
           ConnectSucceeds, StopRx, JoinRx, RxWaits, RxLocks, EnbStop, JoinAgent, PeerNext, vars, rxVars,
           remove_socket_nonblocking, AwaitRemoval, WriteExit, RxSelect, RxLock
      <4>2. QED
        BY <2>1, <3>1, <4>1
    <3>5. QED
      BY <3>2, <3>3, <3>4
  <2>3. \/ apc' \in {apc, "joinRx", "finish"}
        \/ apc = "disconnect" /\ apc' = "stopRx"
    BY <2>1 DEF KeepsQueue, NothingToDisconnect, RequestRemoval, SocketRemoved, CloseSocket, EndSleep,
         ConnectSucceeds, Register, StopRx, JoinRx, RxWaits, RxLocks, RxControls, EnbStop,
         JoinAgent, PeerNext, vars, agentVars, sockVars
  <2>4. QED
    BY <1>1, <2>1, <2>2, <2>3 DEF SetupInv, OnlyStops, Ends
<1>7. QED
  BY <1>2, <1>5, <1>6 DEF QInv

-----------------------------------------------------------------------------
\* The steps that empty the queue
LEMMA ClearsQueueStep == QInv /\ (SwapQueue \/ FinishAgent) /\ IInv' => QInv'
<1> SUFFICES ASSUME QInv, SwapQueue \/ FinishAgent, IInv' PROVE QInv'
  OBVIOUS
<1>1. /\ queue' = <<>> /\ apc' \in {"sleep", "done"} /\ (apc' = "sleep" => apc = "swap")
      /\ UNCHANGED <<holds, setupFailed, sockOpen, link, handler, mpc, after>>
  BY DEF SwapQueue, FinishAgent, sockVars, rxVars
<1>2. DOMAIN queue' = {}
  BY <1>1
<1>3. Cardinality(Queued(PduKinds)) \in Nat /\ Cardinality(Queued({"stop"})) \in Nat
  BY QueuedFinite DEF QInv, IInv
<1>4. \A K : Cardinality({i \in DOMAIN queue' : queue'[i].kind \in K}) = 0
  <2> TAKE K
  <2>1. {i \in DOMAIN queue' : queue'[i].kind \in K} = {}
    BY <1>2
  <2>2. QED
    BY <2>1, FS_EmptySet
<1>5. StopsInv'
  BY <1>1, <1>4 DEF StopsInv, Queued
<1>6. BuffersInv'
  BY <1>1, <1>3, <1>4, QueueAssumption DEF QInv, BuffersInv, Queued
<1>7. CallsInv'
  BY <1>1, <1>2 DEF QInv, CallsInv, NoCall
<1>8. SetupInv'
  BY <1>1, <1>2 DEF QInv, SetupInv, OnlyStops, Ends
<1>9. QED
  BY <1>5, <1>6, <1>7, <1>8 DEF QInv
-----------------------------------------------------------------------------
\* The steps that pop a task
LEMMA PopStep ==
    ASSUME QInv, IInv', NEW M, PopTask(M),
           UNCHANGED <<setupFailed, sockOpen, link, handler, mpc>>,
           holds' => holds \/ queue[1].kind = "shutdown",
           apc' = "failed" => queue[1].kind = "shutdown",
           queue[1].kind = "stop" => apc' = "disconnect" /\ after' = "stopRx"
    PROVE  QInv'
<1>1. /\ Len(queue) \in Nat \ {0} /\ DOMAIN queue = 1 .. Len(queue)
      /\ DOMAIN queue' = 1 .. Len(queue) - 1
      /\ \A i \in DOMAIN queue' : queue'[i] = queue[i + 1]
  BY Popped DEF QInv, IInv
<1>2. /\ 1 \in DOMAIN queue
      /\ \A i \in DOMAIN queue' : i + 1 \in DOMAIN queue /\ i + 1 # 1 /\ queue'[i] = queue[i + 1]
      /\ \A i, j \in DOMAIN queue' : i + 1 = j + 1 => i = j
  BY <1>1
<1>3. CallsInv'
  <2>1. \A i, j \in DOMAIN queue' : queue'[i].kind \in Calls /\ queue'[j].kind \in Calls => i = j
    BY <1>2 DEF QInv, CallsInv
  <2>2. NoCall \/ queue[1].kind = "shutdown" => \A i \in DOMAIN queue' : queue'[i].kind \notin Calls
    <3>1. NoCall => \A i \in DOMAIN queue' : queue'[i].kind \notin Calls
      BY <1>2 DEF NoCall
    <3>2. queue[1].kind = "shutdown" => \A i \in DOMAIN queue' : queue'[i].kind \notin Calls
      BY <1>2 DEF QInv, CallsInv, Calls
    <3>3. QED
      BY <3>1, <3>2
  <2>3. queue[1].kind = "shutdown" => ~NoCall
    BY <1>2 DEF NoCall, Calls
  <2>4. QED
    BY <2>1, <2>2, <2>3 DEF QInv, CallsInv, NoCall
<1>4. TypeOK /\ Cardinality(Queued(PduKinds)) \in Nat /\ Cardinality(Queued({"stop"})) \in Nat
  BY QueuedFinite DEF QInv, IInv
<1>5. StopsInv'
  <2>1. Cardinality(Later({"stop"})) <= Cardinality(Queued({"stop"}))
    BY <1>4, CountPop
  <2>2. Cardinality(Later({"stop"})) \in Int
    BY <1>4, CountPop
  <2>3. QED
    BY <1>4, <2>1, <2>2 DEF QInv, StopsInv, Queued, Later
<1>6. BuffersInv'
  <2>1. Cardinality(Later(PduKinds)) = Cardinality(Queued(PduKinds))
                                         - (IF queue[1].kind \in PduKinds THEN 1 ELSE 0)
    BY <1>4, CountPop
  <2>2. Cardinality(Later(PduKinds)) + (IF holds' THEN 1 ELSE 0) <= PoolSize
    BY <1>4, <2>1, QueueAssumption DEF QInv, BuffersInv, PduKinds
  <2>3. QED
    BY <2>2 DEF BuffersInv, Queued, Later
<1>7. SetupInv'
  <2> SUFFICES ASSUME setupFailed PROVE SetupInv'
    BY DEF SetupInv
  <2>1. ~handler /\ link = "none" /\ OnlyStops(1)
    BY DEF QInv, SetupInv
  <2>2. queue[1].kind = "stop"
    BY <1>2, <2>1 DEF OnlyStops
  <2>3. \A i \in DOMAIN queue' : queue'[i].kind = "stop"
    BY <1>1, <1>2, <2>1 DEF OnlyStops
  <2>4. QED
    BY <2>1, <2>2, <2>3 DEF SetupInv, OnlyStops
<1>8. QED
  BY <1>3, <1>5, <1>6, <1>7 DEF QInv

LEMMA PopsStep ==
    /\ QInv /\ IInv'
    /\ HandlePdu \/ HandleShutdown \/ BeginConnect \/ BeginReset \/ BeginDisconnect \/ BeginStop
    => QInv'
<1> SUFFICES ASSUME QInv, IInv' PROVE
        HandlePdu \/ HandleShutdown \/ BeginConnect \/ BeginReset \/ BeginDisconnect \/ BeginStop
        => QInv'
  OBVIOUS
<1>1. TypeOK
  BY DEF QInv, IInv
<1>2. ASSUME HandlePdu PROVE QInv'
  <2>1. /\ PopTask({"data", "event", "eof"}) /\ UNCHANGED <<holds, apc, setupFailed, sockOpen, link, handler, mpc>>
    BY <1>2 DEF HandlePdu, sockVars, rxVars
  <2>2. apc = "idle" /\ queue[1].kind \in {"data", "event", "eof"}
    BY <1>1, <2>1, Popped
  <2>3. QED
    BY <2>1, <2>2, PopStep
<1>3. ASSUME HandleShutdown PROVE QInv'
  <2>1. PopTask({"shutdown"}) /\ UNCHANGED <<setupFailed, sockOpen, link, handler, mpc>>
    BY <1>3 DEF HandleShutdown, sockVars, rxVars
  <2>2. queue[1].kind = "shutdown"
    BY <1>1, <2>1, Popped
  <2>3. QED
    BY <2>1, <2>2, PopStep
<1>4. ASSUME BeginConnect PROVE QInv'
  <2>1. /\ PopTask({"connect"}) /\ apc' = "connect"
        /\ UNCHANGED <<holds, setupFailed, sockOpen, link, handler, mpc>>
    BY <1>4 DEF BeginConnect, sockVars, rxVars
  <2>2. queue[1].kind = "connect"
    BY <1>1, <2>1, Popped
  <2>3. QED
    BY <2>1, <2>2, PopStep
<1>5. ASSUME BeginReset PROVE QInv'
  <2>1. /\ PopTask({"reset"}) /\ apc' = "disconnect"
        /\ UNCHANGED <<holds, setupFailed, sockOpen, link, handler, mpc>>
    BY <1>5 DEF BeginReset, sockVars, rxVars
  <2>2. queue[1].kind = "reset"
    BY <1>1, <2>1, Popped
  <2>3. QED
    BY <2>1, <2>2, PopStep
<1>6. ASSUME BeginDisconnect PROVE QInv'
  <2>1. /\ PopTask({"disconnect"}) /\ apc' = "disconnect"
        /\ UNCHANGED <<holds, setupFailed, sockOpen, link, handler, mpc>>
    BY <1>6 DEF BeginDisconnect, sockVars, rxVars
  <2>2. queue[1].kind = "disconnect"
    BY <1>1, <2>1, Popped
  <2>3. QED
    BY <2>1, <2>2, PopStep
<1>7. ASSUME BeginStop PROVE QInv'
  <2>1. /\ PopTask({"stop"}) /\ apc' = "disconnect" /\ after' = "stopRx"
        /\ UNCHANGED <<holds, setupFailed, sockOpen, link, handler, mpc>>
    BY <1>7 DEF BeginStop, sockVars, rxVars
  <2>2. queue[1].kind = "stop"
    BY <1>1, <2>1, Popped
  <2>3. QED
    BY <2>1, <2>2, PopStep
<1>8. QED
  BY <1>2, <1>3, <1>4, <1>5, <1>6, <1>7
-----------------------------------------------------------------------------
\* The steps that push a task
LEMMA PushCounts ==
    ASSUME QInv, NEW k \in TaskKinds, Push(k),
           k \in PduKinds => BufferFree /\ holds' = holds,
           k \notin PduKinds => (holds' => holds),
           k = "stop" => \/ mpc = "pushing" /\ mpc' = "joining" /\ UNCHANGED setupFailed
                         \/ ~setupFailed /\ setupFailed' /\ UNCHANGED mpc,
           k # "stop" => UNCHANGED <<mpc, setupFailed>>
    PROVE  StopsInv' /\ BuffersInv'
<1>1. TypeOK /\ Cardinality(Queued(PduKinds)) \in Nat /\ Cardinality(Queued({"stop"})) \in Nat
  BY QueuedFinite DEF QInv, IInv
<1>2. StopsInv'
  <2>1. Cardinality(Later({"stop"})) = Cardinality(Queued({"stop"})) + (IF k = "stop" THEN 1 ELSE 0)
    BY <1>1, CountPush
  <2>2. Cardinality(Later({"stop"})) <=
          (IF mpc' \in {"joining", "done"} THEN 1 ELSE 0) + (IF setupFailed' THEN 1 ELSE 0)
    BY <1>1, <2>1 DEF QInv, StopsInv
  <2>3. QED
    BY <2>2 DEF StopsInv, Queued, Later
<1>3. BuffersInv'
  <2>1. Cardinality(Later(PduKinds)) = Cardinality(Queued(PduKinds)) + (IF k \in PduKinds THEN 1 ELSE 0)
    BY <1>1, CountPush
  <2>2. BufferFree => Cardinality(Queued(PduKinds)) + (IF holds THEN 1 ELSE 0) < PoolSize
    BY DEF BufferFree, Queued
  <2>3. Cardinality(Later(PduKinds)) + (IF holds' THEN 1 ELSE 0) <= PoolSize
    BY <1>1, <2>1, <2>2, QueueAssumption DEF QInv, BuffersInv
  <2>4. QED
    BY <2>3 DEF BuffersInv, Queued, Later
<1>4. QED
  BY <1>2, <1>3

\* Where the tasks stand after a push
LEMMA PushPlaces ==
    ASSUME TypeOK, NEW k \in TaskKinds, Push(k)
    PROVE  /\ \A i \in DOMAIN queue' : i \notin DOMAIN queue => queue'[i].kind = k
           /\ \A i \in DOMAIN queue : i \in DOMAIN queue' /\ queue'[i] = queue[i]
           /\ \A i, j \in DOMAIN queue' : i \notin DOMAIN queue /\ j \notin DOMAIN queue => i = j
<1>1. /\ Len(queue) \in Nat
      /\ DOMAIN queue = 1 .. Len(queue) /\ DOMAIN queue' = 1 .. Len(queue) + 1
      /\ \A i \in DOMAIN queue : queue'[i] = queue[i]
      /\ queue'[Len(queue) + 1] = [kind |-> k, conn |-> conn]
  BY Pushed
<1>2. queue'[Len(queue) + 1].kind = k
  BY <1>1
<1>3. QED
  BY <1>1, <1>2

LEMMA ErrorPushesStep == QInv /\ IInv' /\ (FailConnection \/ ConnectFails) => QInv'
<1> SUFFICES ASSUME QInv, IInv', FailConnection \/ ConnectFails PROVE QInv'
  OBVIOUS
<1>1. PICK k \in {"reset", "disconnect"} : Push(k)
  BY ConnectionErrorPushes DEF FailConnection, ConnectFails, QInv
<1>2. /\ apc \in {"failed", "connect"} /\ apc' = "idle" /\ (holds' => holds)
      /\ UNCHANGED <<setupFailed, sockOpen, link, handler, mpc>>
  BY DEF FailConnection, ConnectFails, sockVars, rxVars
<1>3. TypeOK /\ k \in TaskKinds /\ k \notin PduKinds /\ k # "stop"
  BY DEF QInv, IInv, TaskKinds, PduKinds
<1>4. StopsInv' /\ BuffersInv'
  BY <1>1, <1>2, <1>3, PushCounts
<1>5. ~setupFailed
  BY <1>2 DEF QInv, SetupInv, Ends
<1>6. SetupInv'
  BY <1>2, <1>5 DEF SetupInv
<1>7. NoCall /\ link \notin {"up", "closing"}
  <2>1. CASE apc = "failed"
    BY <2>1 DEF QInv, CallsInv
  <2>2. CASE apc = "connect"
    BY <1>5, <2>2 DEF QInv, CallsInv, IInv, TypeOK, AgentTypeOK, SocketInv, Released, TasksInv, OnlyStops, NoCall, Calls
  <2>3. QED
    BY <1>2, <2>1, <2>2
<1>8. CallsInv'
  <2>1. \A i, j \in DOMAIN queue' : queue'[i].kind \in Calls /\ queue'[j].kind \in Calls => i = j
    BY <1>1, <1>3, <1>7, PushPlaces DEF NoCall
  <2>2. QED
    BY <1>2, <1>7, <2>1 DEF QInv, CallsInv
<1>9. QED
  BY <1>4, <1>6, <1>8 DEF QInv

LEMMA StopPushesStep == QInv /\ IInv' /\ (ConnectSetupFails \/ PushStop) => QInv'
<1> SUFFICES ASSUME QInv, IInv', ConnectSetupFails \/ PushStop PROVE QInv'
  OBVIOUS
<1>1. /\ Push("stop") /\ "stop" \in TaskKinds /\ "stop" \notin PduKinds /\ "stop" \notin Calls
      /\ UNCHANGED <<holds, link, handler, after>> /\ TypeOK
      /\ apc = "connect" \/ UNCHANGED sockOpen
  BY DEF ConnectSetupFails, PushStop, sockVars, rxVars, TaskKinds, PduKinds, Calls, QInv, IInv
<1>2. \/ UNCHANGED <<setupFailed, apc>> /\ mpc = "pushing" /\ mpc' = "joining"
      \/ setupFailed' /\ apc = "connect" /\ apc' = "idle" /\ UNCHANGED mpc
  BY DEF ConnectSetupFails, PushStop
<1>3. apc = "connect" => ~setupFailed
  BY DEF QInv, SetupInv, Ends
<1>4. StopsInv' /\ BuffersInv'
  BY <1>1, <1>2, <1>3, PushCounts
<1>5. /\ \A i \in DOMAIN queue' : i \notin DOMAIN queue => queue'[i].kind = "stop"
      /\ \A i \in DOMAIN queue : i \in DOMAIN queue' /\ queue'[i] = queue[i]
  BY <1>1, PushPlaces
<1>6. CallsInv'
  <2>1. \A i \in DOMAIN queue' : queue'[i].kind \in Calls => i \in DOMAIN queue /\ queue[i].kind \in Calls
    BY <1>1, <1>5
  <2>2. QED
    BY <1>1, <1>2, <1>3, <2>1 DEF QInv, CallsInv, NoCall, IInv, SocketInv, Released
<1>7. SetupInv'
  <2>1. setupFailed \/ apc = "connect" => ~handler /\ link = "none" /\ OnlyStops(1)
    BY <1>3 DEF QInv, CallsInv, SetupInv, IInv, SocketInv, TasksInv, Off, Released
  <2>2. OnlyStops(1) => \A i \in DOMAIN queue' : i >= 1 => queue'[i].kind = "stop"
    BY <1>5 DEF OnlyStops
  <2>3. QED
    BY <1>1, <1>2, <2>1, <2>2 DEF QInv, SetupInv, OnlyStops, Ends
<1>8. QED
  BY <1>4, <1>6, <1>7 DEF QInv

LEMMA RxPushesStep == QInv /\ IInv' /\ RxCallback => QInv'
<1> SUFFICES ASSUME QInv, IInv', RxCallback PROVE QInv'
  OBVIOUS
<1>1. UNCHANGED <<apc, after, holds, setupFailed, sockOpen, handler, mpc>>
  BY DEF RxCallback, HandlerReturned
<1>2. TypeOK /\ sockOpen \in BOOLEAN
  BY DEF QInv, IInv, TypeOK, AgentTypeOK
<1>3. CASE UNCHANGED <<queue, link>>
  <2>1. StopsInv' /\ BuffersInv'
    BY <1>1, <1>3, SameCounts
  <2>2. CallsInv' /\ SetupInv'
    BY <1>1, <1>3 DEF QInv, CallsInv, NoCall, SetupInv, OnlyStops
  <2>3. QED
    BY <2>1, <2>2 DEF QInv
<1>4. CASE /\ HandlerDue /\ BufferFree
           /\ \E k \in PduKinds : /\ Push(k)
                                  /\ \/ k # "shutdown" /\ UNCHANGED link
                                     \/ k = "shutdown" /\ link = "closing" /\ link' = "eof"
  <2>1. PICK k \in PduKinds : /\ Push(k)
                              /\ \/ k # "shutdown" /\ UNCHANGED link
                                 \/ k = "shutdown" /\ link = "closing" /\ link' = "eof"
    BY <1>4
  <2>2. k \in TaskKinds /\ k # "stop" /\ (k \in Calls => k = "shutdown")
    BY DEF TaskKinds, PduKinds, Calls
  <2>3. StopsInv' /\ BuffersInv'
    BY <1>1, <1>4, <2>1, <2>2, PushCounts
  <2>4. /\ \A i \in DOMAIN queue' : i \notin DOMAIN queue => queue'[i].kind = k
        /\ \A i \in DOMAIN queue : i \in DOMAIN queue' /\ queue'[i] = queue[i]
        /\ \A i, j \in DOMAIN queue' : i \notin DOMAIN queue /\ j \notin DOMAIN queue => i = j
    BY <1>2, <2>1, <2>2, PushPlaces
  <2>5. sockOpen
    BY <1>4 DEF HandlerDue, QInv, IInv, TypeOK, AgentTypeOK, AgentSteps, SocketInv, RxInv,
                On, Off, Left, Ending, Closed, Released, LeftOpen, Ends
  <2>6. SetupInv'
    BY <1>1, <1>4 DEF HandlerDue, QInv, SetupInv
  <2>7. CallsInv'
    <3>1. CASE k = "shutdown"
      <4>1. NoCall /\ apc # "failed"
        BY <2>1, <3>1 DEF QInv, CallsInv
      <4>2. \A i, j \in DOMAIN queue' : queue'[i].kind \in Calls /\ queue'[j].kind \in Calls => i = j
        BY <2>4, <4>1 DEF NoCall
      <4>3. QED
        BY <1>1, <2>1, <2>5, <3>1, <4>1, <4>2 DEF CallsInv
    <3>2. CASE k # "shutdown"
      <4>1. \A i \in DOMAIN queue' : queue'[i].kind \in Calls => i \in DOMAIN queue /\ queue[i].kind \in Calls
        BY <2>2, <2>4, <3>2
      <4>2. QED
        BY <1>1, <2>1, <3>2, <4>1 DEF QInv, CallsInv, NoCall
    <3>3. QED
      BY <3>1, <3>2
  <2>8. QED
    BY <2>3, <2>6, <2>7 DEF QInv
<1>5. QED
  BY <1>3, <1>4 DEF RxCallback, Receive, PduKinds
-----------------------------------------------------------------------------
LEMMA InitQInv == Init => QInv
<1> SUFFICES ASSUME Init PROVE QInv
  OBVIOUS
<1>1. IInv /\ TypeOK
  BY InitIInv DEF IInv
<1>2. DOMAIN queue = {1} /\ queue[1].kind = "connect"
  BY DEF Init, Task
<1>3. Queued({"stop"}) = {} /\ Queued(PduKinds) = {}
  BY <1>2 DEF Queued, PduKinds
<1>4. Cardinality(Queued({"stop"})) = 0 /\ Cardinality(Queued(PduKinds)) = 0
  BY <1>3, FS_EmptySet
<1>5. CallsInv /\ SetupInv
  BY <1>2 DEF Init, CallsInv, SetupInv
<1>6. StopsInv /\ BuffersInv
  BY <1>4, QueueAssumption DEF Init, StopsInv, BuffersInv
<1>7. QED
  BY <1>1, <1>5, <1>6 DEF QInv

LEMMA NextQInv == QInv /\ [Next]_vars => QInv'
<1> SUFFICES ASSUME QInv, [Next]_vars PROVE QInv'
  OBVIOUS
<1>1. IInv'
  BY NextIInv DEF QInv
<1>2. CASE KeepsQueue
  BY <1>1, <1>2, KeepsQueueStep
<1>3. CASE SwapQueue \/ FinishAgent
  BY <1>1, <1>3, ClearsQueueStep
<1>4. CASE HandlePdu \/ HandleShutdown \/ BeginConnect \/ BeginReset \/ BeginDisconnect \/ BeginStop
  BY <1>1, <1>4, PopsStep
<1>5. CASE FailConnection \/ ConnectFails
  BY <1>1, <1>5, ErrorPushesStep
<1>6. CASE ConnectSetupFails \/ PushStop
  BY <1>1, <1>6, StopPushesStep
<1>7. CASE RxCallback
  BY <1>1, <1>7, RxPushesStep
<1>8. QED
  BY <1>2, <1>3, <1>4, <1>5, <1>6, <1>7 DEF Next, AgentNext, RxNext, MainNext, KeepsQueue

-----------------------------------------------------------------------------
(***************************************************************************)
(* No push to agent_queue ever blocks (PushNeverBlocks), for any pool and  *)
(* any queue that is larger by more than three, however often the peer     *)
(* sends and the connection is lost: neither the rx thread, which pushes   *)
(* under socket_mutex, nor the agent thread, which pushes to the queue it  *)
(* alone empties, can hang on it.                                          *)
(***************************************************************************)
THEOREM NoPushBlocks == Spec => []PushNeverBlocks
BY InitQInv, NextQInv, QInvBounds, PTL DEF Spec

(***************************************************************************)
(* With reconnection enabled the agent at rest is connected or has the     *)
(* task that will connect or stop it, however many connections were lost,  *)
(* and connect() is only run where it does not return early and has no     *)
(* socket open (NeverAdrift).                                              *)
(***************************************************************************)
THEOREM AlwaysHeading == Spec => []NeverAdrift
<1>1. QInv => NeverAdrift
  BY DEF QInv, IInv, SocketInv, TasksInv, RestInv, On, Off, Released, LeftOpen, SetupInv, Ends,
         NeverAdrift
<1>2. QED
  BY InitQInv, NextQInv, <1>1, PTL DEF Spec

(***************************************************************************)
(* With reconnection enabled a stopped agent has released the rx thread,   *)
(* the handler and the socket of every connection it had, whenever the     *)
(* stop comes; only a socket connect() could not set up is left open       *)
(* (StopReleasesAll).                                                      *)
(***************************************************************************)
THEOREM ReleasesAll == Spec => []StopReleasesAll
<1>1. QInv => StopReleasesAll
  BY DEF QInv, IInv, SocketInv, RxInv, Closed, Released, LeftOpen, SetupInv, Ends, StopReleasesAll
<1>2. QED
  BY InitQInv, NextQInv, <1>1, PTL DEF Spec
=============================================================================
