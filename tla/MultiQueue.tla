----------------------------- MODULE MultiQueue -----------------------------
(***************************************************************************)
(* srsran::multiqueue_handler, the task queue of the agent and of the      *)
(* stacks: threads that push to a port, blocking or not, one consumer in   *)
(* wait_pop, clients that obtain a port and give it back, and threads that *)
(* stop the whole.  What a thread does under a port's q_mutex is one step; *)
(* notifications sent after the unlock, and waits on a condition variable, *)
(* are steps of their own.  All ports have the default capacity, and no    *)
(* wait ends but by a notification.                                        *)
(***************************************************************************)
EXTENDS Naturals, Sequences, FiniteSets

CONSTANTS
    Pushers,    \* threads that push
    Clients,    \* holders of a queue_handle
    Stoppers,   \* threads that call stop()
    Capacity,   \* default_capacity
    MaxPorts,   \* bound: ports ever created
    MaxPushes,  \* bound: pushes of each thread
    MaxResets   \* bound: handles given back

ASSUME CapacityAssumption == Capacity \in Nat \ {0}
ASSUME BoundsAssumption   == {MaxPorts, MaxPushes, MaxResets} \subseteq Nat
ASSUME ThreadsAssumption  == Clients \cap Stoppers = {} /\ IsFiniteSet(Pushers)

Slots   == 1 .. MaxPorts
Closers == Clients \cup Stoppers

VARIABLES
    ports,      \* queues: each with its buffer, active_ and nof_waiting
    spin,       \* spin_idx
    running, consuming,  \* running, consumer_state
    mutex,      \* the thread that holds the handler's mutex, or {}
    handle,     \* the port of each client, 0 for a null handle
    resets,     \* handles given back so far
    pushes,     \* pushes begun so far
    ppc, parg,  \* a pusher: where it is, and its port and whether it blocks
    cpc, carg,  \* a closer: where it is, and the port it deactivates
    again,      \* a client in reset(), which will deactivate the port a second time
    rpc,        \* the consumer: where it is
    pos, count  \* q_it and count of round_robin_pop_

pushVars  == <<pushes, ppc, parg>>
closeVars == <<handle, resets, again, cpc, carg>>
popVars   == <<spin, consuming, rpc, pos, count>>
vars == <<ports, running, mutex, pushVars, closeVars, popVars>>

NewPort == [buf |-> <<>>, active |-> TRUE, waiting |-> 0]
NoPush  == [slot |-> 0, blocking |-> FALSE]

TypeOK ==
    /\ ports \in Seq([buf : Seq(Pushers \X (1 .. MaxPushes)), active : BOOLEAN, waiting : Nat])
    /\ Len(ports) <= MaxPorts
    /\ spin \in Nat /\ (ports # <<>> => spin < Len(ports))
    /\ running \in BOOLEAN /\ consuming \in BOOLEAN
    /\ mutex \in SUBSET (Stoppers \cup {"consumer"}) /\ Cardinality(mutex) <= 1
    /\ handle \in [Clients -> 0 .. Len(ports)]
    /\ resets \in 0 .. MaxResets /\ again \in [Clients -> BOOLEAN]
    /\ pushes \in [Pushers -> 0 .. MaxPushes]
    /\ ppc \in [Pushers -> {"idle", "push", "wait", "woken", "exit"}]
    /\ parg \in [Pushers -> [slot : 0 .. Len(ports), blocking : BOOLEAN]]
    /\ cpc \in [Closers -> {"idle", "close", "notify", "consumer", "drain", "wait", "stopped"}]
    /\ carg \in [Closers -> 0 .. MaxPorts + 1]
    /\ rpc \in {"idle", "scan", "notify", "sleep", "stopped"}
    /\ pos \in 1 .. MaxPorts + 1 /\ count \in 0 .. MaxPorts
    /\ \A s \in DOMAIN ports :
        ports[s].waiting = Cardinality({p \in Pushers : ppc[p] \in {"wait", "woken"} /\ parg[p].slot = s})

Init ==
    /\ ports = <<>> /\ spin = 0
    /\ running = TRUE /\ consuming = FALSE
    /\ mutex = {}
    /\ handle = [c \in Clients |-> 0] /\ resets = 0
    /\ again = [c \in Clients |-> FALSE]
    /\ pushes = [p \in Pushers |-> 0]
    /\ ppc = [p \in Pushers |-> "idle"] /\ parg = [p \in Pushers |-> NoPush]
    /\ cpc = [t \in Closers |-> "idle"] /\ carg = [t \in Closers |-> 0]
    /\ rpc = "idle" /\ pos = 1 /\ count = 0

-----------------------------------------------------------------------------
\* push() or try_push() on a handle that is not null
Push(p) ==
    /\ ppc[p] = "idle" /\ pushes[p] < MaxPushes
    /\ \E c \in Clients, blocking \in BOOLEAN :
        /\ handle[c] # 0
        /\ parg' = [parg EXCEPT ![p] = [slot |-> handle[c], blocking |-> blocking]]
    /\ pushes' = [pushes EXCEPT ![p] = @ + 1]
    /\ ppc' = [ppc EXCEPT ![p] = "push"]
    /\ UNCHANGED <<ports, running, mutex, closeVars, popVars>>

\* The caller is done with its push, or still has to notify cv_exit.
PushEnds(p, next) ==
    /\ ppc' = [ppc EXCEPT ![p] = next]
    /\ parg' = IF next = "idle" THEN [parg EXCEPT ![p] = NoPush] ELSE parg

\* Mutant: a woken thread does not look at the buffer again.
TryBuffer_NoRecheck(p, was) ==
    LET s == parg[p].slot
        q == [ports[s] EXCEPT !.waiting = @ - was]
    IN  IF ~q.active
        THEN /\ ports' = [ports EXCEPT ![s] = q]
             /\ PushEnds(p, IF parg[p].blocking THEN "exit" ELSE "idle")
        ELSE IF Len(q.buf) < Capacity \/ was = 1
        THEN /\ ports' = [ports EXCEPT ![s] = [q EXCEPT !.buf = Append(@, <<p, pushes[p]>>)]]
             /\ PushEnds(p, "idle")
        ELSE IF parg[p].blocking
        THEN /\ ports' = [ports EXCEPT ![s] = [q EXCEPT !.waiting = @ + 1]]
             /\ ppc' = [ppc EXCEPT ![p] = "wait"] /\ UNCHANGED parg
        ELSE UNCHANGED ports /\ PushEnds(p, "idle")

\* push_ with q_mutex held: refused, stored, or the wait for room; `was` is 1 when the
\* thread comes from that wait.
TryBuffer(p, was) ==
    LET s == parg[p].slot
        q == [ports[s] EXCEPT !.waiting = @ - was]
    IN  IF ~q.active
        THEN /\ ports' = [ports EXCEPT ![s] = q]
             /\ PushEnds(p, IF parg[p].blocking THEN "exit" ELSE "idle")
        ELSE IF Len(q.buf) < Capacity
        THEN /\ ports' = [ports EXCEPT ![s] = [q EXCEPT !.buf = Append(@, <<p, pushes[p]>>)]]
             /\ PushEnds(p, "idle")
        ELSE IF parg[p].blocking
        THEN /\ ports' = [ports EXCEPT ![s] = [q EXCEPT !.waiting = @ + 1]]
             /\ ppc' = [ppc EXCEPT ![p] = "wait"] /\ UNCHANGED parg
        ELSE UNCHANGED ports /\ PushEnds(p, "idle")

PushLocked(p) ==
    /\ ppc[p] = "push"
    /\ TryBuffer(p, 0)
    /\ UNCHANGED <<running, mutex, pushes, closeVars, popVars>>

PushWoken(p) ==
    /\ ppc[p] = "woken"
    /\ TryBuffer(p, 1)
    /\ UNCHANGED <<running, mutex, pushes, closeVars, popVars>>

\* Threads waiting on the cv_exit of port s, and one of them woken
Draining(s)  == {t \in Closers : cpc[t] = "wait" /\ carg[t] = s}
NotifyExit(s) ==
    IF Draining(s) = {} THEN UNCHANGED cpc
    ELSE \E t \in Draining(s) : cpc' = [cpc EXCEPT ![t] = "drain"]

\* cv_exit.notify_one() after a refused blocking push
PushExit(p) ==
    /\ ppc[p] = "exit"
    /\ NotifyExit(parg[p].slot)
    /\ PushEnds(p, "idle")
    /\ UNCHANGED <<ports, running, mutex, pushes, handle, resets, again, carg, popVars>>

-----------------------------------------------------------------------------
\* Where add_queue's search ends: the first port that is closed, or a new one
FreePort(s) ==
    /\ \A r \in 1 .. s - 1 : ports[r].active
    /\ s \in DOMAIN ports => ~ports[s].active

\* handle = add_queue(): a port in place of the one held before, which is then
\* deactivated; a null handle once the multiqueue is stopped.
AddQueue(c) ==
    /\ cpc[c] = "idle" /\ mutex = {}
    /\ handle[c] = 0 \/ resets < MaxResets
    /\ IF running
       THEN \E s \in Slots \cap (1 .. Len(ports) + 1) :
            /\ FreePort(s)
            /\ handle' = [handle EXCEPT ![c] = s]
            /\ ports' = IF s > Len(ports) THEN Append(ports, NewPort)
                        ELSE [ports EXCEPT ![s].active = TRUE]
       ELSE /\ handle[c] # 0
            /\ handle' = [handle EXCEPT ![c] = 0]
            /\ UNCHANGED ports
    /\ IF handle[c] # 0
       THEN /\ resets' = resets + 1
            /\ cpc' = [cpc EXCEPT ![c] = "close"]
            /\ carg' = [carg EXCEPT ![c] = handle[c]]
       ELSE UNCHANGED <<resets, cpc, carg>>
    /\ UNCHANGED <<running, mutex, again, pushVars, popVars>>

\* The handle's deactivate_blocking() begins.
Deactivate(c) ==
    /\ cpc[c] = "idle" /\ handle[c] # 0 /\ resets < MaxResets
    /\ resets' = resets + 1
    /\ cpc' = [cpc EXCEPT ![c] = "close"]
    /\ carg' = [carg EXCEPT ![c] = handle[c]]
    /\ UNCHANGED <<ports, running, mutex, pushVars, popVars>>

\* The end of the handle's life: the deleter of its unique_ptr
EndHandle(c) ==
    /\ Deactivate(c)
    /\ handle' = [handle EXCEPT ![c] = 0]
    /\ UNCHANGED again

\* queue_handle::reset() deactivates the port, and then sets impl to nullptr, whose
\* deleter does it once more.
ResetHandle(c) ==
    /\ Deactivate(c)
    /\ again' = [again EXCEPT ![c] = TRUE]
    /\ UNCHANGED handle

\* set_active(false) under q_mutex ...
SetInactive(t) ==
    LET s == carg[t]
    IN  /\ cpc[t] = "close" /\ s \in DOMAIN ports
        /\ ports' = IF ports[s].active
                    THEN [ports EXCEPT ![s] = [buf |-> <<>>, active |-> FALSE, waiting |-> @.waiting]]
                    ELSE ports
        /\ cpc' = [cpc EXCEPT ![t] = IF ports[s].active THEN "notify"
                                     ELSE IF t \in Clients THEN "drain" ELSE "close"]
        /\ carg' = IF t \in Stoppers /\ ~ports[s].active THEN [carg EXCEPT ![t] = s + 1] ELSE carg
        /\ UNCHANGED <<running, mutex, handle, resets, again, pushVars, popVars>>

\* ... and cv_full.notify_all() after it; stop() goes on to the next port.
NotifyPushers(t) ==
    LET s == carg[t]
    IN  /\ cpc[t] = "notify"
        /\ ppc' = [p \in Pushers |-> IF ppc[p] = "wait" /\ parg[p].slot = s THEN "woken" ELSE ppc[p]]
        /\ cpc' = [cpc EXCEPT ![t] = IF t \in Clients THEN "drain" ELSE "close"]
        /\ carg' = IF t \in Stoppers THEN [carg EXCEPT ![t] = s + 1] ELSE carg
        /\ UNCHANGED <<ports, running, mutex, pushes, parg, handle, resets, again, popVars>>

\* deactivate_blocking() returns: to stop(), which goes on to the next port, to reset(),
\* or to the client.
Drained(t) ==
    IF t \in Stoppers
    THEN carg' = [carg EXCEPT ![t] = @ + 1] /\ UNCHANGED <<cpc, handle, again>>
    ELSE IF again[t]
    THEN /\ handle' = [handle EXCEPT ![t] = 0]
         /\ again' = [again EXCEPT ![t] = FALSE]
         /\ cpc' = [cpc EXCEPT ![t] = "close"]
         /\ UNCHANGED carg
    ELSE /\ cpc' = [cpc EXCEPT ![t] = "idle"]
         /\ carg' = [carg EXCEPT ![t] = 0]
         /\ UNCHANGED <<handle, again>>

\* Mutant: threads still blocked in the port are not waited for.
Drain_Once(t) ==
    /\ cpc[t] = "drain" /\ carg[t] \in DOMAIN ports
    /\ Drained(t)
    /\ UNCHANGED <<ports, running, mutex, resets, pushVars, popVars>>

\* deactivate_blocking: until no thread waits for room in the port
Drain(t) ==
    /\ cpc[t] = "drain" /\ carg[t] \in DOMAIN ports
    /\ IF ports[carg[t]].waiting > 0
       THEN cpc' = [cpc EXCEPT ![t] = "wait"] /\ UNCHANGED <<carg, handle, again>>
       ELSE Drained(t)
    /\ UNCHANGED <<ports, running, mutex, resets, pushVars, popVars>>

-----------------------------------------------------------------------------
\* stop() takes the mutex, closes every port, waits for the consumer, drains every port.
Stop(t) ==
    /\ cpc[t] = "idle" /\ mutex = {}
    /\ mutex' = {t}
    /\ running' = FALSE
    /\ cpc' = [cpc EXCEPT ![t] = "close"]
    /\ carg' = [carg EXCEPT ![t] = 1]
    /\ UNCHANGED <<ports, handle, resets, again, pushVars, popVars>>

\* All ports are closed: wait on cv_exit, without the mutex, while the consumer is in.
StopClosed(t) ==
    /\ t \in Stoppers /\ cpc[t] = "close" /\ carg[t] > Len(ports)
    /\ IF consuming
       THEN cpc' = [cpc EXCEPT ![t] = "consumer"] /\ mutex' = {} /\ UNCHANGED carg
       ELSE cpc' = [cpc EXCEPT ![t] = "drain"] /\ carg' = [carg EXCEPT ![t] = 1] /\ UNCHANGED mutex
    /\ UNCHANGED <<ports, running, handle, resets, again, pushVars, popVars>>

StopDrained(t) ==
    /\ t \in Stoppers /\ cpc[t] = "drain" /\ carg[t] > Len(ports)
    /\ cpc' = [cpc EXCEPT ![t] = "stopped"]
    /\ carg' = [carg EXCEPT ![t] = 0]
    /\ mutex' = {}
    /\ UNCHANGED <<ports, running, handle, resets, again, pushVars, popVars>>

-----------------------------------------------------------------------------
\* wait_pop: take the mutex, enter round_robin_pop_ while running.
StartScan ==
    /\ rpc \in {"idle", "sleep"} /\ mutex = {} /\ running
    /\ mutex' = {"consumer"}
    /\ consuming' = TRUE
    /\ rpc' = "scan"
    /\ pos' = spin + 1 /\ count' = 0
    /\ UNCHANGED <<ports, running, spin, pushVars, closeVars>>

\* q_it, wrapped around, and what becomes of the search after it
At       == IF pos > Len(ports) THEN 1 ELSE pos
Searches(n) == count' = n /\ pos' = At + 1 /\ UNCHANGED <<ports, spin, consuming, rpc, mutex>>

\* A thread that is about to take a port's q_mutex may hold it already.
Contended(s) ==
    \/ \E p \in Pushers : ppc[p] \in {"push", "woken"} /\ parg[p].slot = s
    \/ \E t \in Closers : cpc[t] \in {"close", "drain"} /\ carg[t] = s

\* try_lock failed: count starts again, but not q_it.
PopCollides ==
    /\ rpc = "scan" /\ count < Len(ports)
    /\ Contended(At)
    /\ Searches(1)
    /\ UNCHANGED <<running, pushVars, closeVars>>

PopNothing ==
    /\ rpc = "scan" /\ count < Len(ports)
    /\ ports[At].buf = <<>>
    /\ Searches(count + 1)
    /\ UNCHANGED <<running, pushVars, closeVars>>

PopReturns == rpc' = "idle" /\ mutex' = {} /\ consuming' = FALSE /\ pos' = 1 /\ count' = 0

\* pop_ and what follows it; with threads waiting, notify_one comes after the unlock.
PopFound ==
    /\ rpc = "scan" /\ count < Len(ports)
    /\ ports[At].buf # <<>>
    /\ ports' = [ports EXCEPT ![At].buf = Tail(@)]
    /\ spin' = (spin + count + 1) % Len(ports)
    /\ IF ports[At].waiting > 0
       THEN rpc' = "notify" /\ pos' = At /\ UNCHANGED <<mutex, consuming, count>>
       ELSE PopReturns
    /\ UNCHANGED <<running, pushVars, closeVars>>

\* Mutant: no thread waiting for room is ever told of it.
PopNotify_Silent ==
    /\ rpc = "notify"
    /\ PopReturns
    /\ UNCHANGED <<ports, running, spin, pushVars, closeVars>>

PopNotify ==
    /\ rpc = "notify"
    /\ LET waiting == {p \in Pushers : ppc[p] = "wait" /\ parg[p].slot = pos}
       IN  IF waiting = {} THEN UNCHANGED ppc
           ELSE \E p \in waiting : ppc' = [ppc EXCEPT ![p] = "woken"]
    /\ PopReturns
    /\ UNCHANGED <<ports, running, spin, pushes, parg, closeVars>>

\* Nothing found: the mutex is released for 100 us.
ScanFails ==
    /\ rpc = "scan" /\ count >= Len(ports)
    /\ rpc' = "sleep" /\ mutex' = {} /\ pos' = 1 /\ count' = 0
    /\ UNCHANGED <<ports, running, spin, consuming, pushVars, closeVars>>

\* Mutant: the thread in stop() is not notified.
PopStopped_Silent ==
    /\ rpc \in {"idle", "sleep"} /\ mutex = {} /\ ~running
    /\ consuming' = FALSE
    /\ rpc' = "stopped"
    /\ UNCHANGED <<ports, running, mutex, spin, pos, count, pushVars, closeVars>>

\* Not running any more: wait_pop returns false after cv_exit.notify_one().
PopStopped ==
    /\ rpc \in {"idle", "sleep"} /\ mutex = {} /\ ~running
    /\ consuming' = FALSE
    /\ rpc' = "stopped"
    /\ LET waiting == {t \in Stoppers : cpc[t] = "consumer"}
       IN  IF waiting = {} THEN UNCHANGED <<cpc, carg, mutex>>
           ELSE \E t \in waiting :
                    /\ cpc' = [cpc EXCEPT ![t] = "drain"]
                    /\ carg' = [carg EXCEPT ![t] = 1]
                    /\ mutex' = {t}
    /\ UNCHANGED <<ports, running, spin, pos, count, handle, resets, again, pushVars>>

-----------------------------------------------------------------------------
PushStep(p)  == PushLocked(p) \/ PushWoken(p) \/ PushExit(p)
CloseStep(t) == SetInactive(t) \/ NotifyPushers(t) \/ Drain(t) \/ StopClosed(t) \/ StopDrained(t)
Consumer     ==
    StartScan \/ PopCollides \/ PopNothing \/ PopFound \/ PopNotify \/ ScanFails \/ PopStopped

Next ==
    \/ \E p \in Pushers : Push(p) \/ PushStep(p)
    \/ \E c \in Clients : AddQueue(c) \/ EndHandle(c) \/ ResetHandle(c)
    \/ \E t \in Stoppers : Stop(t)
    \/ \E t \in Closers : CloseStep(t)
    \/ Consumer

Spec == Init /\ [][Next]_vars

\* The threads keep running; nothing obliges one to push, to add or to stop.
FairSpec ==
    /\ Spec
    /\ \A p \in Pushers : WF_vars(PushStep(p))
    /\ \A t \in Closers : WF_vars(CloseStep(t))
    /\ WF_vars(Consumer)

-----------------------------------------------------------------------------
\* The ports as their users see them, and the push each thread has under way
open == [s \in Slots |-> s \in DOMAIN ports /\ ports[s].active]
box  == [s \in Slots |-> IF s \in DOMAIN ports THEN ports[s].buf ELSE <<>>]
call == [p \in Pushers |-> IF ppc[p] \in {"push", "wait", "woken"}
                           THEN <<parg[p].slot, <<p, pushes[p]>>, parg[p].blocking>>
                           ELSE <<>>]

Promise == INSTANCE TaskPorts WITH Msgs <- Pushers \X (1 .. MaxPushes)

(***************************************************************************)
(* Threads, locks and condition variables together are the ports of        *)
(* TaskPorts: a message goes to the end of its port once or not at all,    *)
(* an open port refuses only a try_push that finds it full, and leaves in  *)
(* order.  A port taken up again by add_queue is empty.                    *)
(***************************************************************************)
KeepsPromise == Promise!PortsSpec

(***************************************************************************)
(* When stop() returns, the multiqueue can be destroyed: the consumer is   *)
(* not inside wait_pop, no port is active or holds a message, and no       *)
(* thread waits for room in one.                                           *)
(***************************************************************************)
StopLeavesNothing ==
    (\E t \in Stoppers : cpc[t] = "stopped") =>
        /\ ~consuming
        /\ \A s \in DOMAIN ports : ~ports[s].active /\ ports[s].buf = <<>> /\ ports[s].waiting = 0

(***************************************************************************)
(* A push that has begun returns, however many threads wait for room:      *)
(* each message taken from a full port wakes one of them, and closing the  *)
(* port wakes all.  Pushes are bounded: that no fresh push takes the place *)
(* of a woken thread for ever is not said.                                 *)
(***************************************************************************)
PushReturns == \A p \in Pushers : ppc[p] # "idle" ~> ppc[p] = "idle"

\* Waiting on the cv_exit of a port that no pusher will notify
Stranded(t) ==
    /\ cpc[t] = "wait"
    /\ \A p \in Pushers : ppc[p] \in {"wait", "woken", "exit"} => parg[p].slot # carg[t]

(***************************************************************************)
(* Giving a handle back returns, though pushing threads are blocked in the *)
(* port and have to leave it first, and so does stop(), whatever the       *)
(* consumer and the pushing threads are at; unless the thread is stranded, *)
(* when the port was taken up again or drained by another thread too.      *)
(***************************************************************************)
ClosingReturns ==
    \A t \in Closers : cpc[t] = "close" ~> cpc[t] \in {"idle", "stopped"} \/ Stranded(t)

-----------------------------------------------------------------------------
(***************************************************************************)
(* queue_handle holds its port in a unique_ptr, add_queue looks for "a     *)
(* free queue", and yet a port may come to have two holders, and its new   *)
(* holder find it closed: between the two deactivations of reset() the     *)
(* port is given away.  TLC refutes both.                                  *)
(***************************************************************************)
Holds(c) == cpc[c] = "idle" /\ handle[c] # 0

OneHolder == \A c, d \in Clients : Holds(c) /\ Holds(d) /\ handle[c] = handle[d] => c = d

HeldPortIsOpen == running => \A c \in Clients : Holds(c) => ports[handle[c]].active
=============================================================================
