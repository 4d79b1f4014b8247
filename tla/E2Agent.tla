------------------------------ MODULE E2Agent ------------------------------
(***************************************************************************)
(* The life of the agent's connection in an E2_LIKE build: the agent       *)
(* thread running tasks from its queue (agent.cc), the rx thread handing   *)
(* it what the socket delivers, the eNB's main thread stopping it, and the *)
(* peer.  What a message asks for is SpectrumLoop's concern; here it takes *)
(* a byte buffer and a task.                                               *)
(***************************************************************************)
EXTENDS SocketManager, FiniteSets

CONSTANTS
    NoReconnect,  \* ric.agent.no_reconnect
    QueueCap,     \* tasks agent_queue holds (8192)
    PoolSize,     \* byte buffers of the eNB's pool (4096)
    DelayInc,     \* RIC_AGENT_RECONNECT_DELAY_INC (5)
    DelayMax,     \* RIC_AGENT_RECONNECT_DELAY_MAX (60)
    MaxConns      \* bound: connections the peer accepts

ASSUME ReconnectAssumption == NoReconnect \in BOOLEAN
ASSUME QueueAssumption == QueueCap \in Nat /\ PoolSize \in Nat /\ PoolSize + 3 < QueueCap
ASSUME DelayAssumption == DelayInc \in Nat \ {0} /\ DelayMax \in Nat
ASSUME ConnsAssumption == MaxConns \in Nat

VARIABLES
    state,        \* agent_state_t
    delay,        \* current_reconnect_delay
    queue,        \* agent_queue
    apc,          \* where the agent thread stands
    after,        \* where it goes once disconnect() returns
    holds,        \* the task it runs owns a byte buffer
    setupFailed,  \* connect() met an error it stops the agent for (observed)
    conn,         \* number of the last connection
    sockOpen,     \* ric_socket.is_open()
    link,         \* what the kernel has to say of the connection
    unread,       \* a message waits in the socket
    mpc           \* the main thread, in agent::stop

agentVars == <<state, delay, queue, apc, after, holds, setupFailed>>
sockVars  == <<conn, sockOpen, link, unread>>
vars      == <<agentVars, sockVars, rxVars, mpc>>

Task(kind, c) == [kind |-> kind, conn |-> c]
PduKinds      == {"data", "event", "shutdown", "eof"}
TaskKinds     == {"connect", "reset", "disconnect", "stop"} \cup PduKinds
Tasks         == [kind : TaskKinds, conn : Nat]
AgentSteps    == {"idle", "failed", "disconnect", "waitRemoved", "close", "swap", "sleep",
                  "connect", "register", "stopRx", "joinRx", "finish", "done"}

AgentTypeOK ==
    /\ state \in {"INITIALIZED", "ESTABLISHED", "DISCONNECTED", "DISABLED"}
    /\ delay \in 0 .. DelayMax
    /\ queue \in Seq(Tasks)
    /\ apc \in AgentSteps
    /\ after \in {"idle", "swap", "stopRx"}
    /\ holds \in BOOLEAN /\ setupFailed \in BOOLEAN
    /\ conn \in Nat
    /\ sockOpen \in BOOLEAN
    /\ link \in {"none", "up", "closing", "eof", "lost"}
    /\ unread \in BOOLEAN
    /\ mpc \in {"running", "pushing", "joining", "done"}

\* agent::init has queued connect() and started both threads.
Init ==
    /\ state = "INITIALIZED" /\ delay = 0
    /\ queue = <<Task("connect", 0)>>
    /\ apc = "idle" /\ after = "idle" /\ holds = FALSE /\ setupFailed = FALSE
    /\ conn = 0 /\ sockOpen = FALSE /\ link = "none" /\ unread = FALSE
    /\ mpc = "running"
    /\ RxInit

-----------------------------------------------------------------------------
\* agent_queue.push blocks while the queue is full.
Push(kind) ==
    /\ Len(queue) < QueueCap
    /\ queue' = Append(queue, Task(kind, conn))

\* Mutant: no_reconnect is not looked at.
ConnectionError_Reconnects == Push("reset") /\ UNCHANGED state

\* handle_connection_error()
ConnectionError ==
    IF NoReconnect
    THEN Push("disconnect") /\ state' = "DISABLED"
    ELSE Push("reset") /\ UNCHANGED state

PopTask(kinds) ==
    /\ apc = "idle"
    /\ queue # <<>> /\ Head(queue).kind \in kinds
    /\ queue' = Tail(queue)

\* run_thread pops a message; handle_message has nothing to do for it here.
HandlePdu ==
    /\ PopTask({"data", "event", "eof"})
    /\ UNCHANGED <<state, delay, apc, after, holds, setupFailed, sockVars, rxVars, mpc>>

\* The buffer of the notification lives until the task returns.
HandleShutdown ==
    /\ PopTask({"shutdown"})
    /\ holds' = TRUE
    /\ apc' = "failed"
    /\ UNCHANGED <<state, delay, after, setupFailed, sockVars, rxVars, mpc>>

FailConnection ==
    /\ apc = "failed"
    /\ ConnectionError
    /\ holds' = FALSE
    /\ apc' = "idle"
    /\ UNCHANGED <<delay, after, setupFailed, sockVars, rxVars, mpc>>

BeginConnect ==
    /\ PopTask({"connect"})
    /\ apc' = "connect"
    /\ UNCHANGED <<state, delay, after, holds, setupFailed, sockVars, rxVars, mpc>>

\* Mutant: the delay has no upper bound.
BeginReset_NoCap ==
    /\ PopTask({"reset"})
    /\ delay' = delay + DelayInc
    /\ apc' = "disconnect" /\ after' = "swap"
    /\ UNCHANGED <<state, holds, setupFailed, sockVars, rxVars, mpc>>

\* connection_reset(): the delay grows, then reset() and disconnect()
BeginReset ==
    /\ PopTask({"reset"})
    /\ delay' = IF delay + DelayInc > DelayMax THEN DelayMax ELSE delay + DelayInc
    /\ apc' = "disconnect" /\ after' = "swap"
    /\ UNCHANGED <<state, holds, setupFailed, sockVars, rxVars, mpc>>

BeginDisconnect ==
    /\ PopTask({"disconnect"})
    /\ apc' = "disconnect" /\ after' = "idle"
    /\ UNCHANGED <<state, delay, holds, setupFailed, sockVars, rxVars, mpc>>

\* Mutant: stop_impl() without disconnect().
BeginStop_NoDisconnect ==
    /\ PopTask({"stop"})
    /\ apc' = "stopRx"
    /\ UNCHANGED <<state, delay, after, holds, setupFailed, sockVars, rxVars, mpc>>

BeginStop ==
    /\ PopTask({"stop"})
    /\ apc' = "disconnect" /\ after' = "stopRx"
    /\ UNCHANGED <<state, delay, holds, setupFailed, sockVars, rxVars, mpc>>

-----------------------------------------------------------------------------
NothingToDisconnect ==
    /\ apc = "disconnect"
    /\ state # "ESTABLISHED"
    /\ apc' = after
    /\ UNCHANGED <<state, delay, queue, after, holds, setupFailed, sockVars, rxVars, mpc>>

\* Mutant: the removal is requested and not waited for.
RequestRemoval_NoWait ==
    /\ apc = "disconnect"
    /\ state = "ESTABLISHED"
    /\ remove_socket_nonblocking(TRUE)
    /\ apc' = "close"
    /\ link' = IF link = "up" THEN "eof" ELSE link
    /\ UNCHANGED <<state, delay, queue, after, holds, setupFailed, conn, sockOpen, unread, mpc>>

\* disconnect(): SCTP_EOF to the peer, then remove_socket
RequestRemoval ==
    /\ apc = "disconnect"
    /\ state = "ESTABLISHED"
    /\ \E found \in BOOLEAN :
          /\ remove_socket_nonblocking(found)
          /\ apc' = IF found THEN "waitRemoved" ELSE "close"
    /\ link' = IF link = "up" THEN "eof" ELSE link
    /\ UNCHANGED <<state, delay, queue, after, holds, setupFailed, conn, sockOpen, unread, mpc>>

SocketRemoved ==
    /\ apc = "waitRemoved"
    /\ AwaitRemoval
    /\ apc' = "close"
    /\ UNCHANGED <<state, delay, queue, after, holds, setupFailed, sockVars, mpc>>

CloseSocket ==
    /\ apc = "close"
    /\ sockOpen' = FALSE /\ link' = "none" /\ unread' = FALSE
    /\ state' = "DISCONNECTED"
    /\ apc' = after
    /\ UNCHANGED <<delay, queue, after, holds, setupFailed, conn, rxVars, mpc>>

\* Mutant: the new connection inherits the tasks of the old one.
SwapQueue_Keeps ==
    /\ apc = "swap"
    /\ state' = "INITIALIZED"
    /\ apc' = "sleep"
    /\ UNCHANGED <<delay, queue, after, holds, setupFailed, sockVars, rxVars, mpc>>

\* The old queue is deactivated, which clears it, and replaced by a new one.
SwapQueue ==
    /\ apc = "swap"
    /\ queue' = <<>>
    /\ state' = "INITIALIZED"
    /\ apc' = "sleep"
    /\ UNCHANGED <<delay, after, holds, setupFailed, sockVars, rxVars, mpc>>

EndSleep ==
    /\ apc = "sleep"
    /\ apc' = "connect"
    /\ UNCHANGED <<state, delay, queue, after, holds, setupFailed, sockVars, rxVars, mpc>>

-----------------------------------------------------------------------------
\* connect() returns early in other states than this one, in which it is never
\* called (NeverAdrift).
\* open_socket, bind_addr or SCTP_INITMSG fails: stop() from the agent thread
\* itself, whose pthread_join of itself returns at once, then RIC_DISABLED.
\* There is no socket yet, it is left open, or it is closed.
ConnectSetupFails ==
    /\ apc = "connect"
    /\ Push("stop")
    /\ state' = "DISABLED"
    /\ setupFailed' = TRUE
    /\ sockOpen' \in BOOLEAN
    /\ apc' = "idle"
    /\ UNCHANGED <<delay, after, holds, conn, link, unread, rxVars, mpc>>

\* Mutant: only `return SRSRAN_ERROR`.
ConnectFails_GivesUp ==
    /\ apc = "connect"
    /\ apc' = "idle"
    /\ UNCHANGED <<state, delay, queue, after, holds, setupFailed, sockVars, rxVars, mpc>>

\* connect_to fails: the socket is closed and the connection reset or given up
ConnectFails ==
    /\ apc = "connect"
    /\ ConnectionError
    /\ apc' = "idle"
    /\ UNCHANGED <<delay, after, holds, setupFailed, sockVars, rxVars, mpc>>

ConnectSucceeds ==
    /\ apc = "connect"
    /\ conn < MaxConns
    /\ conn' = conn + 1
    /\ sockOpen' = TRUE /\ link' = "up" /\ unread' = FALSE
    /\ apc' = "register"
    /\ UNCHANGED <<state, delay, queue, after, holds, setupFailed, rxVars, mpc>>

\* the handler is added, and RIC_ESTABLISHED clears the delay
Register ==
    /\ apc = "register"
    /\ add_socket_handler
    /\ state' = "ESTABLISHED" /\ delay' = 0
    /\ apc' = "idle"
    /\ UNCHANGED <<queue, after, holds, setupFailed, sockVars, mpc>>

\* The rest of stop_impl(): rx_sockets->stop(), then the thread leaves its loop
StopRx ==
    /\ apc = "stopRx"
    /\ WriteExit
    /\ apc' = "joinRx"
    /\ UNCHANGED <<state, delay, queue, after, holds, setupFailed, sockVars, mpc>>

JoinRx ==
    /\ apc = "joinRx"
    /\ rpc = "done"
    /\ apc' = "finish"
    /\ UNCHANGED <<state, delay, queue, after, holds, setupFailed, sockVars, rxVars, mpc>>

FinishAgent ==
    /\ apc = "finish"
    /\ queue' = <<>>
    /\ state' = "INITIALIZED"
    /\ apc' = "done"
    /\ UNCHANGED <<delay, after, holds, setupFailed, sockVars, rxVars, mpc>>

AgentNext ==
    \/ HandlePdu \/ HandleShutdown \/ FailConnection
    \/ BeginConnect \/ BeginReset \/ BeginDisconnect \/ BeginStop
    \/ NothingToDisconnect \/ RequestRemoval \/ SocketRemoved \/ CloseSocket
    \/ SwapQueue \/ EndSleep
    \/ ConnectSetupFails \/ ConnectFails \/ ConnectSucceeds
    \/ Register \/ StopRx \/ JoinRx \/ FinishAgent

-----------------------------------------------------------------------------
\* The rx thread, with the handler make_sctp_sdu_handler gave it

\* Mutant: make_byte_buffer never fails.
BufferFree_Always == TRUE

\* Other parts of the eNB leave PoolSize buffers to the agent.
BufferFree ==
    Cardinality({i \in DOMAIN queue : queue[i].kind \in PduKinds})
      + (IF holds THEN 1 ELSE 0) < PoolSize

\* What sctp_recvmsg returns becomes a task; an error, or no buffer, nothing.
Receive ==
    \/ /\ ~BufferFree \/ link = "lost"
       /\ UNCHANGED <<queue, link, unread>>
    \/ /\ BufferFree /\ unread
       /\ Push("data") \/ Push("event")
       /\ unread' = FALSE /\ UNCHANGED link
    \/ /\ BufferFree /\ ~unread /\ link = "closing"
       /\ Push("shutdown")
       /\ link' = "eof" /\ UNCHANGED unread
    \/ /\ BufferFree /\ ~unread /\ link \in {"eof", "lost"}
       /\ Push("eof")
       /\ UNCHANGED <<link, unread>>

Readable == unread \/ link \in {"closing", "eof"}

RxWaits ==
    /\ \/ RxSelect(Readable)
       \/ link = "lost" /\ RxSelect(TRUE)
    /\ UNCHANGED <<agentVars, sockVars, mpc>>

RxLocks == RxLock /\ UNCHANGED <<agentVars, sockVars, mpc>>

RxCallback ==
    /\ HandlerReturned
    /\ IF HandlerDue THEN Receive ELSE UNCHANGED <<queue, link, unread>>
    /\ UNCHANGED <<state, delay, apc, after, holds, setupFailed, conn, sockOpen, mpc>>

RxControls == RxControl /\ UNCHANGED <<agentVars, sockVars, mpc>>

RxNext == RxWaits \/ RxLocks \/ RxCallback \/ RxControls

-----------------------------------------------------------------------------
\* agent::stop as enb::stop calls it

EnbStop ==
    /\ mpc = "running"
    /\ mpc' = IF state = "DISABLED" THEN "done" ELSE "pushing"
    /\ UNCHANGED <<agentVars, sockVars, rxVars>>

PushStop ==
    /\ mpc = "pushing"
    /\ Push("stop")
    /\ mpc' = "joining"
    /\ UNCHANGED <<state, delay, apc, after, holds, setupFailed, sockVars, rxVars>>

JoinAgent ==
    /\ mpc = "joining"
    /\ apc = "done"
    /\ mpc' = "done"
    /\ UNCHANGED <<agentVars, sockVars, rxVars>>

MainNext == PushStop \/ JoinAgent

\* The peer sends, shuts the association down, or is gone without a word.
PeerNext ==
    /\ link = "up"
    /\ \/ ~unread /\ unread' = TRUE /\ UNCHANGED link
       \/ link' \in {"closing", "lost"} /\ UNCHANGED unread
    /\ UNCHANGED <<agentVars, conn, sockOpen, rxVars, mpc>>

Next == AgentNext \/ RxNext \/ EnbStop \/ MainNext \/ PeerNext

(***************************************************************************)
(* Each thread runs whenever it can; that the eNB is stopped, and what the *)
(* peer does, is up to them.  The rx thread gives socket_mutex up in every *)
(* round, for the time of select, so that the agent thread, when it wants  *)
(* it again and again, gets it: strong fairness of the steps that take it. *)
(***************************************************************************)
TakesMutex == RequestRemoval \/ SocketRemoved \/ Register \/ StopRx

Fairness ==
    /\ WF_vars(AgentNext) /\ WF_vars(RxNext) /\ WF_vars(MainNext)
    /\ SF_vars(TakesMutex)

Spec == Init /\ [][Next]_vars /\ Fairness

-----------------------------------------------------------------------------
\* Types of the agent's and the rx thread's state.
TypeOK == AgentTypeOK /\ RxTypeOK

(***************************************************************************)
(* What waits in the queue was pushed for the connection there is now: a   *)
(* shutdown of the last connection never resets the next one.  disconnect  *)
(* waits for the rx thread before the queue is swapped, and the swap comes *)
(* before the new connection (agent::connection_reset).                    *)
(***************************************************************************)
QueuedForThisConnection ==
    \A i \in DOMAIN queue :
        queue[i].kind \in PduKinds \cup {"reset"} => queue[i].conn = conn

(***************************************************************************)
(* The rx thread never selects on or reads a descriptor that is closed,    *)
(* and that another part of the eNB may have got since: its snapshot of    *)
(* the descriptor set included (agent::disconnect, remove_socket).         *)
(***************************************************************************)
DescriptorOpen == handler \/ watched \/ "fd" \in readSet => sockOpen

(***************************************************************************)
(* No push ever finds the queue full.  The rx thread pushes while it holds *)
(* socket_mutex, which the agent thread, the only one to pop, takes in     *)
(* disconnect: a push that blocked would hang both.  The agent thread also *)
(* pushes to its own queue.  What prevents it is that each PDU holds a     *)
(* buffer and that there are fewer buffers than places in the queue.       *)
(***************************************************************************)
PushNeverBlocks == Len(queue) < QueueCap

(***************************************************************************)
(* With reconnection enabled the agent never comes to rest without a       *)
(* connection: when its thread waits for tasks it is registered with an    *)
(* open socket or a task that will connect or stop is queued, and connect  *)
(* is never run in a state that makes it return early.                     *)
(***************************************************************************)
NeverAdrift ==
    /\ apc = "idle" /\ ~NoReconnect =>
         \/ state = "ESTABLISHED" /\ sockOpen /\ handler
         \/ \E i \in DOMAIN queue : queue[i].kind \in {"connect", "reset", "stop"}
    /\ apc = "connect" => state = "INITIALIZED" /\ ~sockOpen /\ ~handler

(***************************************************************************)
(* With reconnection enabled a stopped agent has released what its         *)
(* connections took, whatever it was doing when it was stopped: the rx     *)
(* thread is gone, the handler removed, and the socket closed (stop_impl); *)
(* all but the socket connect() could not set up, which disconnect() does  *)
(* not close once the agent is disabled.                                   *)
(***************************************************************************)
StopReleasesAll ==
    apc = "done" /\ ~NoReconnect =>
        /\ rpc = "done" /\ ~handler
        /\ sockOpen => setupFailed /\ link = "none"

(***************************************************************************)
(* With no_reconnect there is one connection at most (the option's text in *)
(* main.cc: "Don't reconnect on connection loss or error").                *)
(***************************************************************************)
NoSecondConnection == NoReconnect => conn <= 1

(***************************************************************************)
(* A connection the peer shuts down is closed in the end, whatever is      *)
(* queued before the notification and however the three threads interleave *)
(* (agent::handle_message, case SCTP_SHUTDOWN_EVENT).                      *)
(***************************************************************************)
ShutdownIsHandled == link = "closing" ~> link = "none"

-----------------------------------------------------------------------------
\* What the sources say and the code does not keep: TLC refutes each of these.

(***************************************************************************)
(* handle_connection_error: "Handle an error or closure of the RIC socket  *)
(* connection"; network_utils.cc subscribes to SCTP_PEER_ADDR_CHANGE "to   *)
(* handle ungraceful shutdown of the link".                                *)
(***************************************************************************)
LossIsHandled == link = "lost" ~> link # "lost"

(***************************************************************************)
(* handle_connection_error: with no_reconnect "we just stop reconnection   *)
(* attempts, and let our threads sleep forever (until the enb main         *)
(* actually does stop them at enb termination)".                           *)
(***************************************************************************)
EnbStopsThreads == mpc = "done" => apc = "done" /\ rpc = "done"

(***************************************************************************)
(* connect(): "Cannot recover from this error, so stop the agent."  After  *)
(* a bind_addr that failed the socket outlives the stopped agent's threads *)
(* (agent.cc:436-444, and 686 when the state is RIC_DISABLED).             *)
(***************************************************************************)
StopClosesSocket == apc = "done" => ~sockOpen

(***************************************************************************)
(* agent::stop, with reconnection enabled: the stop_impl task runs and the *)
(* enb main, which joins the thread, comes back.                           *)
(***************************************************************************)
StopReturns == mpc = "joining" ~> mpc = "done"
=============================================================================
