----------------------- MODULE KpmSubscriptions_proofs -----------------------
(***************************************************************************)
(* What is reported was granted, and every period in use has its timer,    *)
(* for any number of subscriptions, periods and tasks.                     *)
(***************************************************************************)
EXTENDS KpmSubscriptions, FiniteSetTheorems, FunctionTheorems, TLAPS

-----------------------------------------------------------------------------
\* The parts of TypeOK
LinkTypes == noReconnect \in BOOLEAN /\ up \in BOOLEAN

QueueTypes ==
    /\ queue \in Seq(Tasks) /\ Len(queue) <= QueueCap
    /\ apc \in AgentSteps
    /\ asked \in 0 .. MaxRequests /\ session \in 1 .. MaxRequests + 1
    /\ LinkTypes

SubscriptionTypes ==
    /\ subscriptions \subseteq [key : 1 .. MaxRequests, session : Nat, id : Nat,
                               periods : SUBSET Periods, reports : SUBSET Nat, others : SUBSET Nat]
    /\ periods \in [Periods -> [timer : Int, subs : SUBSET Keys]]
    /\ todo \subseteq Periods /\ adding \in subscriptions \cup {NoSub}

TimerTypes ==
    /\ timers \subseteq [id : 1 .. nextId, period : Periods]
    /\ lock \in {"none", "timer", "agent"}
    /\ tpc \in {"wait", "push"} /\ due \in 0 .. nextId

\* Every subscription has a key of its own, and the keys are 1 .. n, because nothing is
\* ever deleted: agent::subscriptions, where a deletion looks, stays empty.
KeysInv ==
    /\ known = {}
    /\ IsFiniteSet(Keys) /\ Keys = 1 .. Cardinality(Keys)
    /\ \A s, t \in subscriptions : s.key = t.key => s = t

\* Only the subscription that is being added may be without an answer; what was answered
\* with a failure after it was listed is among the freed.
GrantsInv ==
    /\ apc = "insert" => adding \in subscriptions
    /\ granted \cup freed \subseteq Keys
    /\ \A s \in subscriptions : s.key \in granted \cup freed \/ (apc = "insert" /\ s = adding)

\* The timers are those of the periods, each under the id the model keeps.
TimersInv ==
    /\ nextId \in Nat
    /\ \A p \in Periods : periods[p].timer \in {NoTimer} \cup 1 .. nextId
    /\ timers = {[id |-> periods[p].timer, period |-> p] :
                   p \in {q \in Periods : periods[q].timer # NoTimer}}
    /\ \A p, q \in Periods :
          periods[p].timer = periods[q].timer /\ periods[p].timer # NoTimer => p = q
    /\ \A p \in Periods : periods[p].timer # NoTimer <=> periods[p].subs # {}

\* Each key and each session after the first was asked for by a request of its own: one
\* that is still queued, one being handled, or one that made it.
Asking == {"add", "reset", "shutdown", "reconnect"}
Among(q, K) == {i \in 1 .. Len(q) : q[i].kind \in K}
Failing(pc) == IF pc \in {"failing", "connecting", "setup"} THEN 1 ELSE 0
Budget ==
    Cardinality(Among(queue, Asking)) + Failing(apc) + Cardinality(Keys) + session <= asked + 1

IInv ==
    /\ QueueTypes /\ SubscriptionTypes /\ TimerTypes
    /\ KeysInv /\ GrantsInv /\ TimersInv /\ Budget

LEMMA Types == ASSUME IInv PROVE TypeOK
<1>1. granted \subseteq 1 .. MaxRequests /\ freed \subseteq 1 .. MaxRequests
  BY DEF IInv, GrantsInv, SubscriptionTypes, Keys
<1>2. known \subseteq Keys
  BY DEF IInv, KeysInv
<1>3. QED
  BY <1>1, <1>2 DEF IInv, QueueTypes, LinkTypes, SubscriptionTypes, TimerTypes, TypeOK

\* The association comes and goes; no_reconnect stays.
LEMMA LinkKeeps == ASSUME IInv, [Next]_vars PROVE LinkTypes'
<1>1. noReconnect \in BOOLEAN /\ up \in BOOLEAN
  BY Zenon DEF IInv, QueueTypes, LinkTypes
<1>2. CASE Ric
  BY <1>1, <1>2, Zenon DEF Ric, RicSubscribes, RicDeletes, RicResets, RicShutsDown, Ask, LinkTypes
<1>3. CASE (\E p \in Periods : TimerFires(p)) \/ TimerPushes
  BY <1>1, <1>3, Zenon DEF TimerFires, TimerPushes, linkVars, LinkTypes
<1>4. CASE HandleAdd \/ (\E p \in Periods : EnterPeriod(p)) \/ Respond \/ RespondFails
  BY <1>1, <1>4, Zenon DEF HandleAdd, EnterPeriod, Respond, RespondFails, linkVars, LinkTypes
<1>5. CASE HandleDelete \/ HandleReset \/ HandleShutdown \/ FailConnection \/ HandleDisconnect
  BY <1>1, <1>5, Zenon DEF HandleDelete, HandleReset, HandleShutdown, FailConnection,
                           HandleDisconnect, linkVars, LinkTypes
<1>6. CASE Reconnect \/ ConnectFails \/ ConnectSucceeds \/ EndConnect \/ SendIndications
  <2>1. CASE Reconnect \/ ConnectSucceeds \/ EndConnect
    BY <1>1, <2>1, Zenon DEF Reconnect, ConnectSucceeds, EndConnect, LinkTypes
  <2>2. CASE ConnectFails \/ SendIndications
    <3>1. UNCHANGED linkVars
      <4>1. CASE ConnectFails
        BY <4>1, Zenon DEF ConnectFails
      <4>2. CASE SendIndications
        BY <4>2, SMT DEF SendIndications
      <4>3. QED
        BY <2>2, <4>1, <4>2
    <3>2. QED
      BY <1>1, <3>1, Zenon DEF linkVars, LinkTypes
  <2>3. QED
    BY <1>6, <2>1, <2>2
<1>7. CASE UNCHANGED vars
  BY <1>1, <1>7, Zenon DEF vars, linkVars, LinkTypes
<1>8. QED
  BY <1>2, <1>3, <1>4, <1>5, <1>6, <1>7, Zenon DEF Next, Agent

-----------------------------------------------------------------------------
\* Counting the tasks of a kind, in any queue
LEMMA AmongFinite ==
    ASSUME NEW q \in Seq(Tasks), NEW K
    PROVE  IsFiniteSet(Among(q, K)) /\ Cardinality(Among(q, K)) \in Nat
<1>1. IsFiniteSet(1 .. Len(q)) /\ Among(q, K) \in SUBSET (1 .. Len(q))
  BY FS_Interval DEF Among
<1>2. QED
  BY <1>1, FS_Subset, FS_CardinalityType

LEMMA AmongAppend ==
    ASSUME NEW q \in Seq(Tasks), NEW t \in Tasks, NEW K
    PROVE  Cardinality(Among(Append(q, t), K)) =
               Cardinality(Among(q, K)) + (IF t.kind \in K THEN 1 ELSE 0)
<1>1. IsFiniteSet(Among(q, K)) /\ Cardinality(Among(q, K)) \in Nat
  BY AmongFinite
<1>2. /\ Len(q) \in Nat /\ Len(Append(q, t)) = Len(q) + 1
      /\ Append(q, t)[Len(q) + 1] = t
      /\ \A i \in 1 .. Len(q) : Append(q, t)[i] = q[i]
  OBVIOUS
<1>3. Len(q) + 1 \notin Among(q, K)
  BY <1>2 DEF Among
<1>4. CASE t.kind \in K
  <2>1. Among(Append(q, t), K) = Among(q, K) \cup {Len(q) + 1}
    BY <1>2, <1>4 DEF Among
  <2>2. QED
    BY <1>1, <1>3, <1>4, <2>1, FS_AddElement
<1>5. CASE t.kind \notin K
  <2>1. Among(Append(q, t), K) = Among(q, K)
    BY <1>2, <1>5 DEF Among
  <2>2. QED
    BY <1>1, <1>5, <2>1
<1>6. QED
  BY <1>4, <1>5

LEMMA AmongTail ==
    ASSUME NEW q \in Seq(Tasks), q # <<>>, NEW K
    PROVE  Cardinality(Among(Tail(q), K)) =
               Cardinality(Among(q, K)) - (IF Head(q).kind \in K THEN 1 ELSE 0)
<1>1. /\ Len(q) \in Nat \ {0} /\ Len(Tail(q)) = Len(q) - 1 /\ Head(q) = q[1]
      /\ \A i \in 1 .. Len(q) - 1 : Tail(q)[i] = q[i + 1]
  OBVIOUS
<1>2. IsFiniteSet(Among(q, K)) /\ Cardinality(Among(q, K)) \in Nat
  BY AmongFinite
<1> DEFINE Rest == Among(q, K) \ {1}
           f == [i \in Rest |-> i - 1]
<1>3. /\ IsFiniteSet(Rest)
      /\ Cardinality(Rest) = Cardinality(Among(q, K)) - (IF Head(q).kind \in K THEN 1 ELSE 0)
  <2>1. 1 \in Among(q, K) <=> Head(q).kind \in K
    BY <1>1 DEF Among
  <2>2. QED
    BY <1>2, <2>1, FS_RemoveElement
<1>4. f \in Bijection(Rest, Among(Tail(q), K))
  <2>1. f \in [Rest -> Among(Tail(q), K)]
    BY <1>1 DEF Among
  <2>2. \A a, b \in Rest : f[a] = f[b] => a = b
    BY <1>1 DEF Among
  <2>3. ASSUME NEW i \in Among(Tail(q), K) PROVE \E a \in Rest : f[a] = i
    <3>1. i + 1 \in Rest /\ (i + 1) - 1 = i
      BY <1>1 DEF Among
    <3>2. QED
      BY <3>1
  <2>4. QED
    BY <2>1, <2>2, <2>3, Fun_IsBij
<1>5. ExistsBijection(Rest, Among(Tail(q), K))
  BY <1>4, Fun_ExistsBij
<1>6. QED
  BY <1>3, <1>5, FS_Bijection

(***************************************************************************)
(* What the queue gains by a push and loses by a pop (agent_queue.push(),  *)
(* wait_pop()).                                                            *)
(***************************************************************************)
LEMMA Pushed ==
    ASSUME QueueTypes, NEW t \in Tasks, Push(t)
    PROVE  /\ queue' \in Seq(Tasks) /\ Len(queue') <= QueueCap
           /\ Cardinality(Among(queue', Asking)) =
                 Cardinality(Among(queue, Asking)) + (IF t.kind \in Asking THEN 1 ELSE 0)
<1>1. queue \in Seq(Tasks) /\ queue' = Append(queue, t) /\ Len(queue) < QueueCap
  BY DEF QueueTypes, Push
<1>2. Len(queue') = Len(queue) + 1 /\ Len(queue) \in Nat /\ queue' \in Seq(Tasks)
  BY <1>1
<1>3. QED
  BY <1>1, <1>2, AmongAppend, QueueAssumption

LEMMA Popped ==
    ASSUME QueueTypes, NEW k, PopTask(k)
    PROVE  /\ queue' \in Seq(Tasks) /\ Len(queue') <= QueueCap
           /\ Head(queue) \in Tasks /\ Head(queue).kind = k /\ apc = "idle"
           /\ Cardinality(Among(queue, Asking)) \in Nat
           /\ Cardinality(Among(queue', Asking)) =
                 Cardinality(Among(queue, Asking)) - (IF k \in Asking THEN 1 ELSE 0)
<1>1. /\ queue \in Seq(Tasks) /\ queue # <<>> /\ Len(queue) <= QueueCap
      /\ queue' = Tail(queue) /\ Head(queue).kind = k /\ apc = "idle"
  BY DEF QueueTypes, PopTask
<1>2. /\ Len(queue) \in Nat \ {0} /\ Len(Tail(queue)) = Len(queue) - 1
      /\ Tail(queue) \in Seq(Tasks) /\ Head(queue) \in Tasks
  BY <1>1
<1>3. QED
  BY <1>1, <1>2, AmongTail, AmongFinite, QueueAssumption

-----------------------------------------------------------------------------
\* A step that leaves subscriptions, periods, timers and answers alone, and does not
\* begin or end an addition
LEMMA Apart ==
    ASSUME IInv, UNCHANGED <<kpmVars, timers, nextId, granted, freed>>,
           apc' = "insert" <=> apc = "insert"
    PROVE  /\ SubscriptionTypes' /\ KeysInv' /\ GrantsInv' /\ TimersInv'
           /\ Cardinality(Keys)' = Cardinality(Keys)
<1>1. /\ UNCHANGED <<subscriptions, periods, known, adding, todo, timers, nextId, granted, freed>>
      /\ Keys' = Keys
  BY DEF kpmVars, Keys
<1>2. SubscriptionTypes'
  BY <1>1 DEF IInv, SubscriptionTypes
<1>3. KeysInv'
  BY <1>1 DEF IInv, KeysInv
<1>4. GrantsInv'
  BY <1>1 DEF IInv, GrantsInv
<1>5. TimersInv'
  BY <1>1 DEF IInv, TimersInv
<1>6. QED
  BY <1>1, <1>2, <1>3, <1>4, <1>5

LEMMA CountsAreNumbers ==
    ASSUME IInv
    PROVE  /\ Cardinality(Among(queue, Asking)) \in Nat
           /\ Cardinality(Keys) \in Nat /\ session \in Nat \ {0}
           /\ asked \in Nat /\ asked <= MaxRequests /\ MaxRequests \in Nat
BY AmongFinite, FS_CardinalityType, BoundsAssumption DEF IInv, QueueTypes, KeysInv

(***************************************************************************)
(* The RIC's side: a request is queued and paid for (rx thread).           *)
(***************************************************************************)
LEMMA RicKeeps ==
    ASSUME IInv, Ric
    PROVE  IInv' /\ sent' = {}
<1>1. PICK t \in Tasks : Ask(t)
  <2>1. CASE RicSubscribes
    <3>1. PICK w \in Wanted : Ask([kind |-> "add", wanted |-> w])
      BY <2>1 DEF RicSubscribes
    <3>2. QED
      BY <3>1 DEF Tasks
  <2>2. CASE RicDeletes
    BY <2>2 DEF RicDeletes, IInv, SubscriptionTypes, Tasks
  <2>3. CASE RicResets \/ RicShutsDown
    BY <2>3 DEF RicResets, RicShutsDown, Tasks
  <2>4. QED
    BY <2>1, <2>2, <2>3 DEF Ric
<1>2. /\ Push(t) /\ asked < MaxRequests /\ asked' = asked + 1 /\ sent' = {}
      /\ UNCHANGED <<apc, kpmVars, timerVars, session, noReconnect, granted, freed>>
  BY <1>1 DEF Ask, Silent
<1>3. /\ SubscriptionTypes' /\ KeysInv' /\ GrantsInv' /\ TimersInv'
      /\ Cardinality(Keys)' = Cardinality(Keys)
  BY <1>2, Apart DEF timerVars
<1>4. /\ queue' \in Seq(Tasks) /\ Len(queue') <= QueueCap
      /\ Cardinality(Among(queue', Asking)) <= Cardinality(Among(queue, Asking)) + 1
      /\ Cardinality(Among(queue', Asking)) \in Nat
  BY <1>2, Pushed, CountsAreNumbers, AmongFinite DEF IInv
<1>5. QueueTypes'
  BY <1>2, <1>4, CountsAreNumbers, LinkKeeps DEF IInv, QueueTypes, Next
<1>6. TimerTypes'
  BY <1>2 DEF IInv, TimerTypes, timerVars
<1>7. Budget'
  BY <1>2, <1>3, <1>4, CountsAreNumbers DEF IInv, Budget, Failing
<1>8. QED
  BY <1>2, <1>3, <1>5, <1>6, <1>7 DEF IInv

(***************************************************************************)
(* The timer thread changes the queue, its lock and its place only         *)
(* (timer_queue::run, timer_callback).                                     *)
(***************************************************************************)
LEMMA TimerKeeps ==
    ASSUME IInv, (\E p \in Periods : TimerFires(p)) \/ TimerPushes
    PROVE  IInv' /\ sent' = {}
<1>1. /\ UNCHANGED <<apc, kpmVars, timers, nextId, asked, linkVars, granted, freed>>
      /\ sent' = {}
  BY DEF TimerFires, TimerPushes, Silent
<1>2. /\ SubscriptionTypes' /\ KeysInv' /\ GrantsInv' /\ TimersInv'
      /\ Cardinality(Keys)' = Cardinality(Keys)
  BY <1>1, Apart
<1>3. TimerTypes'
  <2>1. tpc' \in {"wait", "push"} /\ lock' \in {"none", "timer", "agent"}
    BY DEF TimerFires, TimerPushes, IInv, TimerTypes
  <2>2. due' = due \/ \E t \in timers : due' = t.id
    BY DEF TimerFires, TimerPushes
  <2>3. due' \in 0 .. nextId
    BY <2>2 DEF IInv, TimerTypes, TimersInv
  <2>4. QED
    BY <1>1, <2>1, <2>3 DEF IInv, TimerTypes
<1>4. /\ queue' \in Seq(Tasks) /\ Len(queue') <= QueueCap
      /\ Cardinality(Among(queue', Asking)) = Cardinality(Among(queue, Asking))
  <2>1. CASE UNCHANGED queue
    BY <2>1 DEF IInv, QueueTypes
  <2>2. CASE TimerPushes
    <3> DEFINE t == [kind |-> "tick", timer |-> due]
    <3>1. t \in Tasks /\ t.kind \notin Asking
      BY DEF Tasks, Asking, IInv, TimerTypes, TimersInv
    <3>2. Push(t)
      BY <2>2 DEF TimerPushes
    <3> HIDE DEF t
    <3>3. QED
      BY <3>1, <3>2, Pushed, CountsAreNumbers DEF IInv
  <2>3. QED
    BY <2>1, <2>2 DEF TimerFires
<1>5. QueueTypes'
  BY <1>1, <1>4 DEF IInv, QueueTypes, linkVars, LinkTypes
<1>6. Budget'
  BY <1>1, <1>2, <1>4 DEF IInv, Budget, linkVars
<1>7. QED
  BY <1>1, <1>2, <1>3, <1>5, <1>6 DEF IInv

-----------------------------------------------------------------------------
(***************************************************************************)
(* Tasks of the agent that leave the subscriptions as they are: a deletion *)
(* finds none, as nothing was ever recorded where it looks                 *)
(* (handle_ric_subscription_delete_request), and a reset or a reconnection *)
(* clears agent::subscriptions, which is empty (handle_reset_request,      *)
(* connection_reset).                                                      *)
(***************************************************************************)
Bystander ==
    \/ HandleDelete \/ HandleReset
    \/ HandleShutdown \/ FailConnection \/ HandleDisconnect
    \/ Reconnect \/ ConnectFails \/ ConnectSucceeds \/ EndConnect
    \/ SendIndications

LEMMA BystanderKeeps ==
    ASSUME IInv, Bystander
    PROVE  IInv'
<1>1. /\ UNCHANGED <<kpmVars, timers, nextId, due, asked, granted, freed>>
      /\ apc \notin {"insert"} /\ apc' \in AgentSteps \ {"insert"}
      /\ tpc' \in {"wait", "push"} /\ lock' \in {"none", "timer", "agent"}
  <2>1. known = {} /\ tpc \in {"wait", "push"} /\ lock \in {"none", "timer", "agent"}
    BY DEF IInv, KeysInv, TimerTypes
  <2>2. CASE HandleDelete
    <3>1. \A id : Matching(id) = {}
      BY <2>1 DEF Matching
    <3>2. QED
      BY <2>1, <2>2, <3>1 DEF HandleDelete, PopTask, kpmVars, AgentSteps
  <2>3. CASE HandleReset
    BY <2>1, <2>3 DEF HandleReset, PopTask, kpmVars, timerVars, AgentSteps
  <2>4. CASE HandleShutdown \/ HandleDisconnect \/ SendIndications
    BY <2>1, <2>4 DEF HandleShutdown, HandleDisconnect, SendIndications, PopTask, timerVars, AgentSteps
  <2>5. CASE FailConnection \/ ConnectFails \/ ConnectSucceeds \/ EndConnect
    BY <2>1, <2>5 DEF FailConnection, ConnectFails, ConnectSucceeds, EndConnect, timerVars, AgentSteps
  <2>6. CASE Reconnect
    BY <2>1, <2>6 DEF Reconnect, kpmVars, AgentSteps
  <2>7. QED
    BY <2>2, <2>3, <2>4, <2>5, <2>6 DEF Bystander
<1>2. /\ SubscriptionTypes' /\ KeysInv' /\ GrantsInv' /\ TimersInv'
      /\ Cardinality(Keys)' = Cardinality(Keys)
  BY <1>1, Apart
<1>3. TimerTypes'
  BY <1>1 DEF IInv, TimerTypes
<1>4. /\ queue' \in Seq(Tasks) /\ Len(queue') <= QueueCap
      /\ session' \in Nat \ {0}
      /\ Cardinality(Among(queue', Asking)) \in Nat
      /\ Cardinality(Among(queue', Asking)) + Failing(apc') + session'
            <= Cardinality(Among(queue, Asking)) + Failing(apc) + session
  <2>1. /\ QueueTypes /\ Cardinality(Among(queue, Asking)) \in Nat
        /\ session \in Nat \ {0}
    BY CountsAreNumbers DEF IInv, QueueTypes
  <2>2. CASE FailConnection
    <3>1. PICK k \in {"disconnect", "reconnect"} :
             Push([kind |-> k]) /\ [kind |-> k] \in Tasks
      BY <2>2 DEF FailConnection, Tasks
    <3>2. apc = "failing" /\ apc' = "idle" /\ UNCHANGED session
      BY <2>2 DEF FailConnection, linkVars
    <3>3. QED
      BY <2>1, <3>1, <3>2, Pushed, AmongFinite DEF Failing
  <2>3. CASE ConnectFails \/ ConnectSucceeds \/ EndConnect
    BY <2>1, <2>3 DEF ConnectFails, ConnectSucceeds, EndConnect, QueueTypes, Failing, linkVars
  <2>4. CASE Reconnect
    <3>1. /\ queue \in Seq(Tasks) /\ queue # <<>> /\ queue' = <<>> /\ Head(queue) = queue[1]
          /\ Head(queue).kind \in Asking
          /\ apc = "idle" /\ apc' = "connecting" /\ UNCHANGED session
      BY <2>1, <2>4 DEF Reconnect, QueueTypes, Asking
    <3>2. /\ queue' \in Seq(Tasks) /\ Len(queue') = 0 /\ Among(queue', Asking) = {}
      BY <3>1 DEF Among
    <3>3. 1 \in Among(queue, Asking)
      BY <3>1 DEF Among
    <3>4. Cardinality(Among(queue, Asking)) # 0 /\ Cardinality(Among(queue', Asking)) = 0
      BY <3>1, <3>2, <3>3, AmongFinite, FS_EmptySet
    <3>5. QED
      BY <2>1, <3>1, <3>2, <3>4, QueueAssumption DEF Failing
  <2>5. CASE HandleReset
    <3>1. PopTask("reset") /\ session' = session + 1 /\ UNCHANGED apc
      BY <2>5 DEF HandleReset
    <3>2. QED
      BY <2>1, <3>1, Popped, AmongFinite DEF Asking, Failing
  <2>6. CASE HandleShutdown
    <3>1. /\ PopTask("shutdown") /\ apc' = "failing" /\ apc = "idle"
          /\ UNCHANGED session
      BY <2>6 DEF HandleShutdown, PopTask, linkVars
    <3>2. QED
      BY <2>1, <3>1, Popped, AmongFinite DEF Asking, Failing
  <2>7. CASE HandleDelete \/ HandleDisconnect \/ SendIndications
    <3>1. PICK k \in {"delete", "disconnect", "tick"} : PopTask(k)
      BY <2>7 DEF HandleDelete, HandleDisconnect, SendIndications
    <3>2. UNCHANGED session
      BY <2>7 DEF HandleDelete, HandleDisconnect, SendIndications, linkVars
    <3>3. UNCHANGED apc
      <4>1. \A id : Matching(id) = {}
        BY DEF IInv, KeysInv, Matching
      <4>2. QED
        BY <2>7, <4>1 DEF HandleDelete, HandleDisconnect, SendIndications
    <3>4. QED
      BY <2>1, <3>1, <3>2, <3>3, Popped, AmongFinite DEF Asking, Failing
  <2>8. QED
    BY <2>2, <2>3, <2>4, <2>5, <2>6, <2>7 DEF Bystander
<1>5. Failing(apc) \in Nat /\ Failing(apc') \in Nat
  BY DEF Failing
<1>6. Cardinality(Among(queue', Asking)) + Failing(apc') + Cardinality(Keys) + session' <= asked + 1
  <2>1. Cardinality(Among(queue, Asking)) + Failing(apc) + Cardinality(Keys) + session <= asked + 1
    BY DEF IInv, Budget
  <2>2. /\ Cardinality(Among(queue, Asking)) \in Nat /\ Cardinality(Keys) \in Nat
        /\ session \in Nat /\ asked \in Nat
    BY CountsAreNumbers
  <2>3. QED
    BY <1>4, <1>5, <2>1, <2>2
<1>7. Budget'
  BY <1>1, <1>2, <1>6 DEF Budget
<1>8. session' <= MaxRequests + 1
  BY <1>4, <1>5, <1>6, CountsAreNumbers
<1>9. QueueTypes'
  BY <1>1, <1>4, <1>8, CountsAreNumbers, LinkKeeps DEF IInv, QueueTypes, Next, Agent, Bystander
<1>10. QED
  BY <1>2, <1>3, <1>7, <1>9 DEF IInv

-----------------------------------------------------------------------------
(***************************************************************************)
(* The new subscription's key is none of those there are.                  *)
(***************************************************************************)
LEMMA FreshKey ==
    ASSUME IInv, NEW w \in Wanted, subscriptions' = subscriptions \cup {Subscription(w)}
    PROVE  /\ Subscription(w).key = Cardinality(Keys) + 1
           /\ Keys' = 1 .. Cardinality(Keys) + 1
           /\ Cardinality(Keys)' = Cardinality(Keys) + 1 /\ IsFiniteSet(Keys')
           /\ \A s \in subscriptions : s.key # Subscription(w).key
<1>1. /\ granted \cup freed \subseteq Keys /\ IsFiniteSet(Keys) /\ Keys = 1 .. Cardinality(Keys)
      /\ Cardinality(Keys) \in Nat
  BY CountsAreNumbers DEF IInv, GrantsInv, KeysInv
<1>2. granted \cup Keys = Keys
  BY <1>1
<1>3. Subscription(w).key = Cardinality(Keys) + 1
  BY <1>2 DEF Subscription
<1> DEFINE k == Cardinality(Keys) + 1
<1>4. Keys' = Keys \cup {k}
  BY <1>3 DEF Keys
<1>5. k \notin Keys
  BY <1>1
<1>6. Cardinality(Keys') = k /\ IsFiniteSet(Keys')
  BY <1>1, <1>4, <1>5, FS_AddElement
<1>7. Keys' = 1 .. k
  BY <1>1, <1>4
<1>8. \A s \in subscriptions : s.key # k
  BY <1>5 DEF Keys
<1>9. QED
  BY <1>3, <1>6, <1>7, <1>8

LEMMA AddKeeps ==
    ASSUME IInv, HandleAdd
    PROVE  IInv' /\ sent' = {}
<1> DEFINE w == Head(queue).wanted
<1>1. /\ PopTask("add") /\ sent' = {} /\ apc = "idle"
      /\ UNCHANGED <<periods, known, timerVars, asked, linkVars, granted, freed>>
      /\ \/ ~Acceptable(w) /\ UNCHANGED <<subscriptions, apc, adding, todo>>
         \/ /\ Acceptable(w) /\ apc' = "insert" /\ todo' = w.periods
            /\ adding' = Subscription(w)
            /\ subscriptions' = subscriptions \cup {Subscription(w)}
  BY DEF HandleAdd, Enters, PopTask, Answer, Silent
<1>2. /\ queue' \in Seq(Tasks) /\ Len(queue') <= QueueCap
      /\ Head(queue) \in Tasks /\ Head(queue).kind = "add"
      /\ Cardinality(Among(queue, Asking)) \in Nat
      /\ Cardinality(Among(queue', Asking)) = Cardinality(Among(queue, Asking)) - 1
  BY <1>1, Popped DEF IInv, Asking
<1>3. w \in Wanted
  BY <1>2 DEF Tasks
<1>4. TimerTypes' /\ TimersInv'
  <2>1. UNCHANGED <<timers, lock, tpc, due, nextId, periods>>
    BY <1>1 DEF timerVars
  <2>2. QED
    BY <2>1 DEF IInv, TimerTypes, TimersInv
<1>5. QueueTypes'
  BY <1>1, <1>2 DEF IInv, QueueTypes, AgentSteps, linkVars, LinkTypes
<1> HIDE DEF w
<1>6. CASE UNCHANGED <<subscriptions, apc, adding, todo>>
  <2>1. /\ SubscriptionTypes' /\ KeysInv' /\ GrantsInv'
        /\ Cardinality(Keys)' = Cardinality(Keys)
    BY <1>1, <1>6, Apart DEF kpmVars, timerVars
  <2>2. Budget'
    BY <1>1, <1>2, <1>6, <2>1, CountsAreNumbers DEF IInv, Budget, Failing, linkVars
  <2>3. QED
    BY <1>1, <1>4, <1>5, <2>1, <2>2 DEF IInv
<1>7. CASE /\ apc' = "insert" /\ todo' = w.periods /\ adding' = Subscription(w)
           /\ subscriptions' = subscriptions \cup {Subscription(w)}
  <2> DEFINE n == Cardinality(Keys)
  <2>1. /\ Subscription(w).key = n + 1 /\ Keys' = 1 .. n + 1
        /\ Cardinality(Keys)' = n + 1 /\ IsFiniteSet(Keys')
        /\ \A s \in subscriptions : s.key # n + 1
    BY <1>3, <1>7, FreshKey
  <2>2. n \in Nat /\ Keys = 1 .. n
    BY CountsAreNumbers DEF IInv, KeysInv
  <2>3. Cardinality(Among(queue, Asking)) + n + session <= asked + 1
    BY <1>1, <1>2, <2>2, CountsAreNumbers DEF IInv, Budget, Failing
  <2> HIDE DEF n
  <2>4. n + 1 <= MaxRequests
    <3>1. Cardinality(Among(queue', Asking)) \in Nat
      BY <1>2, AmongFinite
    <3>2. QED
      BY <1>2, <2>2, <2>3, <3>1, CountsAreNumbers
  <2>5. Subscription(w) \in [key : 1 .. MaxRequests, session : Nat, id : Nat,
                             periods : SUBSET Periods, reports : SUBSET Nat, others : SUBSET Nat]
    <3>1. w \in [id : Nat, registered : BOOLEAN, periods : SUBSET Periods,
                 reports : SUBSET Nat, others : SUBSET Nat]
      BY <1>3, WantedAssumption
    <3>2. Subscription(w).key \in 1 .. MaxRequests
      BY <2>1, <2>2, <2>4, BoundsAssumption
    <3>3. QED
      BY <3>1, <3>2, CountsAreNumbers DEF Subscription
  <2>6. SubscriptionTypes'
    <3>1. periods' \in [Periods -> [timer : Int, subs : SUBSET Keys']]
      BY <1>1, <2>1, <2>2 DEF IInv, SubscriptionTypes
    <3>2. todo' \subseteq Periods
      BY <1>3, <1>7, WantedAssumption
    <3>3. QED
      BY <1>7, <2>5, <3>1, <3>2 DEF IInv, SubscriptionTypes
  <2>7. KeysInv'
    BY <1>1, <1>7, <2>1 DEF IInv, KeysInv
  <2>8. GrantsInv'
    BY <1>1, <1>7, <2>1, <2>2 DEF IInv, GrantsInv
  <2>9. Budget'
    BY <1>1, <1>2, <1>7, <2>1, <2>2, <2>3, CountsAreNumbers DEF Budget, Failing, linkVars
  <2>10. QED
    BY <1>1, <1>4, <1>5, <2>6, <2>7, <2>8, <2>9 DEF IInv
<1>8. QED
  BY <1>1, <1>6, <1>7

(***************************************************************************)
(* A period gets a timer with its first subscription, and keeps it         *)
(* (insert_periodic).                                                      *)
(***************************************************************************)
LEMMA EnterKeeps ==
    ASSUME IInv, NEW p \in Periods, EnterPeriod(p)
    PROVE  IInv' /\ sent' = {}
<1>1. /\ apc = "insert" /\ todo' = todo \ {p} /\ sent' = {}
      /\ UNCHANGED <<queue, apc, subscriptions, known, adding, lock, tpc, due, asked, linkVars,
                     granted, freed>>
  BY DEF EnterPeriod, Silent
<1>2. adding \in subscriptions /\ adding.key \in Keys /\ Keys' = Keys
  BY <1>1 DEF IInv, GrantsInv, Keys
<1>3. QueueTypes' /\ KeysInv' /\ GrantsInv' /\ Budget'
  <2>1. QueueTypes'
    BY <1>1 DEF IInv, QueueTypes, linkVars, LinkTypes
  <2>2. KeysInv'
    BY <1>1, <1>2 DEF IInv, KeysInv
  <2>3. GrantsInv'
    BY <1>1, <1>2 DEF IInv, GrantsInv
  <2>4. Budget'
    BY <1>1, <1>2 DEF IInv, Budget, linkVars
  <2>5. QED
    BY <2>1, <2>2, <2>3, <2>4
<1> DEFINE id == IF NeedsTimer(p) THEN nextId + 1 ELSE periods[p].timer
<1>4. /\ nextId \in Nat
      /\ periods \in [Periods -> [timer : Int, subs : SUBSET Keys]]
      /\ periods[p].timer \in {NoTimer} \cup 1 .. nextId /\ NoTimer = -1
  BY DEF IInv, TimersInv, SubscriptionTypes, NoTimer
<1>5. periods[p].timer = NoTimer <=> NeedsTimer(p)
  BY <1>4 DEF NeedsTimer
<1>6. /\ periods' \in [Periods -> [timer : Int, subs : SUBSET Keys]]
      /\ periods'[p] = [timer |-> id, subs |-> periods[p].subs \cup {adding.key}]
      /\ \A q \in Periods \ {p} : periods'[q] = periods[q]
      /\ nextId' = IF NeedsTimer(p) THEN nextId + 1 ELSE nextId
      /\ timers' = IF NeedsTimer(p) THEN timers \cup {[id |-> id, period |-> p]} ELSE timers
  <2>1. CASE NeedsTimer(p)
    <3>1. /\ nextId' = nextId + 1
          /\ timers' = timers \cup {[id |-> nextId + 1, period |-> p]}
          /\ periods' = [periods EXCEPT ![p] =
                            [timer |-> nextId + 1, subs |-> periods[p].subs \cup {adding.key}]]
      BY <2>1 DEF EnterPeriod, InsertedId
    <3>2. QED
      BY <1>2, <1>4, <2>1, <3>1
  <2>2. CASE ~NeedsTimer(p)
    <3>1. /\ UNCHANGED <<nextId, timers>>
          /\ periods' = [periods EXCEPT ![p] =
                            [periods[p] EXCEPT !.subs = periods[p].subs \cup {adding.key}]]
      BY <1>4, <2>2 DEF EnterPeriod
    <3>2. [periods[p] EXCEPT !.subs = periods[p].subs \cup {adding.key}]
             = [timer |-> id, subs |-> periods[p].subs \cup {adding.key}]
      <4>1. periods[p] \in [timer : Int, subs : SUBSET Keys]
        BY <1>4
      <4>2. QED
        BY <2>2, <4>1
    <3>3. QED
      BY <1>2, <1>4, <2>2, <3>1, <3>2
  <2>3. QED
    BY <2>1, <2>2
<1>7. /\ id \in 1 .. nextId' /\ id # NoTimer /\ nextId' \in Nat /\ nextId <= nextId'
      /\ NeedsTimer(p) => id \notin 1 .. nextId
  BY <1>4, <1>5, <1>6
<1> HIDE DEF id
<1>8. SubscriptionTypes'
  BY <1>1, <1>2, <1>6 DEF IInv, SubscriptionTypes
<1>9. TimerTypes'
  BY <1>1, <1>4, <1>6, <1>7 DEF IInv, TimerTypes
<1>10. TimersInv'
  <2>1. \A q \in Periods : periods'[q].timer \in {NoTimer} \cup 1 .. nextId'
    BY <1>4, <1>6, <1>7 DEF IInv, TimersInv
  <2>2. timers' = {[id |-> periods'[q].timer, period |-> q] :
                     q \in {r \in Periods : periods'[r].timer # NoTimer}}
    <3>1. timers = {[id |-> periods[q].timer, period |-> q] :
                      q \in {r \in Periods : periods[r].timer # NoTimer}}
      BY DEF IInv, TimersInv
    <3>2. CASE NeedsTimer(p)
      BY <1>5, <1>6, <1>7, <3>1, <3>2
    <3>3. CASE ~NeedsTimer(p)
      <4>1. \A q \in Periods : periods'[q].timer = periods[q].timer
        BY <1>6, <3>3 DEF id
      <4>2. QED
        BY <1>6, <3>1, <3>3, <4>1
    <3>4. QED
      BY <3>2, <3>3
  <2>3. \A q, r \in Periods :
           periods'[q].timer = periods'[r].timer /\ periods'[q].timer # NoTimer => q = r
    <3>1. CASE NeedsTimer(p)
      BY <1>6, <1>7, <3>1 DEF IInv, TimersInv
    <3>2. CASE ~NeedsTimer(p)
      <4>1. \A q \in Periods : periods'[q].timer = periods[q].timer
        BY <1>6, <3>2 DEF id
      <4>2. QED
        BY <4>1 DEF IInv, TimersInv
    <3>3. QED
      BY <3>1, <3>2
  <2>4. \A q \in Periods : periods'[q].timer # NoTimer <=> periods'[q].subs # {}
    BY <1>6, <1>7 DEF IInv, TimersInv
  <2>5. QED
    BY <1>7, <2>1, <2>2, <2>3, <2>4 DEF TimersInv
<1>11. QED
  BY <1>1, <1>3, <1>8, <1>9, <1>10 DEF IInv

(***************************************************************************)
(* The response grants the subscription that was added; if there is none,  *)
(* it is freed.                                                            *)
(***************************************************************************)
LEMMA RespondKeeps ==
    ASSUME IInv, Respond \/ RespondFails
    PROVE  IInv' /\ sent' = {}
<1>1. /\ apc = "insert" /\ apc' = "idle" /\ adding' = NoSub /\ sent' = {}
      /\ granted' \cup freed' = granted \cup freed \cup {adding.key} /\ known' = known
      /\ UNCHANGED <<queue, subscriptions, periods, todo, timerVars, asked, linkVars>>
  BY DEF Respond, RespondFails, Recorded, Answer
<1>2. adding \in subscriptions /\ adding.key \in Keys /\ Keys' = Keys
  BY <1>1 DEF IInv, GrantsInv, Keys
<1>3. QueueTypes'
  BY <1>1 DEF IInv, QueueTypes, AgentSteps, linkVars, LinkTypes
<1>4. SubscriptionTypes'
  BY <1>1, <1>2 DEF IInv, SubscriptionTypes
<1>5. TimerTypes' /\ TimersInv'
  <2>1. UNCHANGED <<timers, lock, tpc, due, nextId, periods>>
    BY <1>1 DEF timerVars
  <2>2. QED
    BY <2>1 DEF IInv, TimerTypes, TimersInv
<1>6. KeysInv'
  BY <1>1, <1>2 DEF IInv, KeysInv
<1>7. GrantsInv'
  BY <1>1, <1>2 DEF IInv, GrantsInv
<1>8. Budget'
  BY <1>1, <1>2 DEF IInv, Budget, Failing, linkVars
<1>9. QED
  BY <1>1, <1>3, <1>4, <1>5, <1>6, <1>7, <1>8 DEF IInv

-----------------------------------------------------------------------------
LEMMA Initially == Init => IInv
<1> SUFFICES ASSUME Init PROVE IInv
  OBVIOUS
<1>1. Keys = {} /\ IsFiniteSet(Keys) /\ Cardinality(Keys) = 0 /\ Among(queue, Asking) = {}
      /\ Cardinality(Among(queue, Asking)) = 0
  BY FS_EmptySet DEF Init, Keys, Among
<1>2. QueueTypes
  BY QueueAssumption, BoundsAssumption DEF Init, QueueTypes, LinkTypes, AgentSteps
<1>3. SubscriptionTypes
  BY DEF Init, SubscriptionTypes, NoTimer
<1>4. TimerTypes
  BY DEF Init, TimerTypes
<1>5. KeysInv
  BY <1>1 DEF Init, KeysInv
<1>6. GrantsInv
  BY DEF Init, GrantsInv
<1>7. TimersInv
  BY DEF Init, TimersInv, NoTimer
<1>8. Budget
  BY <1>1 DEF Init, Budget, Failing
<1>9. QED
  BY <1>2, <1>3, <1>4, <1>5, <1>6, <1>7, <1>8 DEF IInv

LEMMA StepKeeps == IInv /\ [Next]_vars => IInv'
<1> SUFFICES ASSUME IInv, [Next]_vars PROVE IInv'
  OBVIOUS
<1>1. CASE Ric
  BY <1>1, RicKeeps
<1>2. CASE (\E p \in Periods : TimerFires(p)) \/ TimerPushes
  BY <1>2, TimerKeeps
<1>3. CASE Agent
  BY <1>3, AddKeeps, EnterKeeps, RespondKeeps, BystanderKeeps DEF Agent, Bystander
<1>4. CASE UNCHANGED vars
  <2>1. /\ UNCHANGED <<queue, apc, kpmVars, timerVars, asked, linkVars, granted, freed>>
        /\ Keys' = Keys
    BY <1>4 DEF vars, outVars, kpmVars, Keys
  <2>2. QueueTypes' /\ TimerTypes' /\ Budget'
    BY <2>1 DEF IInv, QueueTypes, TimerTypes, Budget, timerVars, linkVars, LinkTypes
  <2>3. SubscriptionTypes' /\ KeysInv' /\ GrantsInv' /\ TimersInv'
    BY <2>1, Apart DEF timerVars
  <2>4. QED
    BY <2>2, <2>3 DEF IInv
<1>5. QED
  BY <1>1, <1>2, <1>3, <1>4 DEF Next

(***************************************************************************)
(* Every value has its type: no request makes more than one key or session *)
(* (TypeOK).                                                               *)
(***************************************************************************)
THEOREM TypeCorrect == Spec => []TypeOK
<1>1. IInv => TypeOK
  BY Types
<1>2. QED
  BY <1>1, Initially, StepKeeps, PTL DEF Spec

(***************************************************************************)
(* Each period that some subscription has runs one timer, under the id the *)
(* model keeps, for as long as the eNB lives (insert_periodic, cancel).    *)
(***************************************************************************)
THEOREM PeriodsHaveTimers == Spec => []OneTimerPerPeriod
<1>1. IInv => OneTimerPerPeriod
  <2> SUFFICES ASSUME IInv, NEW p \in Periods
               PROVE  /\ {t.id : t \in {u \in timers : u.period = p}}
                            = {periods[p].timer} \ {NoTimer}
                      /\ periods[p].timer # NoTimer <=> periods[p].subs # {}
    BY DEF OneTimerPerPeriod
  <2>1. timers = {[id |-> periods[q].timer, period |-> q] :
                    q \in {r \in Periods : periods[r].timer # NoTimer}}
    BY DEF IInv, TimersInv
  <2> DEFINE own == {u \in timers : u.period = p}
  <2>2. own = IF periods[p].timer # NoTimer THEN {[id |-> periods[p].timer, period |-> p]} ELSE {}
    BY <2>1
  <2> HIDE DEF own
  <2>3. {t.id : t \in own} = {periods[p].timer} \ {NoTimer}
    <3>1. CASE periods[p].timer # NoTimer
      <4>1. own = {[id |-> periods[p].timer, period |-> p]}
        BY <2>2, <3>1
      <4>2. {t.id : t \in own} = {periods[p].timer}
        BY <4>1
      <4>3. QED
        BY <3>1, <4>2
    <3>2. CASE periods[p].timer = NoTimer
      <4>1. own = {}
        BY <2>2, <3>2
      <4>2. QED
        BY <3>2, <4>1
    <3>3. QED
      BY <3>1, <3>2
  <2>4. QED
    BY <2>3 DEF IInv, TimersInv, own
<1>2. QED
  BY <1>1, Initially, StepKeeps, PTL DEF Spec

(***************************************************************************)
(* A report goes out for granted subscriptions, although the loop that     *)
(* sends it looks at neither the answer nor the period (send_indications): *)
(* it runs between two additions, never in one.  The one exception is a    *)
(* subscription that was answered with a failure, and freed, after it was  *)
(* listed (handle_ric_subscription_request).                               *)
(***************************************************************************)
THEOREM ReportsAreGranted == Spec => []GrantedFirst
<1>1. Init => GrantedFirst
  BY DEF Init, GrantedFirst
<1>2. IInv /\ GrantedFirst /\ [Next]_vars => GrantedFirst'
  <2> SUFFICES ASSUME IInv, GrantedFirst, [Next]_vars PROVE GrantedFirst'
    OBVIOUS
  <2>1. CASE SendIndications
    <3>1. /\ apc = "idle" /\ UNCHANGED <<granted, freed>>
          /\ \A i \in sent' : \E s \in subscriptions : i.key = s.key
      BY <2>1 DEF SendIndications, PopTask, Receivers, Indications
    <3>2. QED
      BY <3>1 DEF IInv, GrantsInv, GrantedFirst
  <2>2. CASE sent' = {}
    BY <2>2 DEF GrantedFirst
  <2>3. CASE UNCHANGED vars
    BY <2>3 DEF GrantedFirst, vars, outVars
  <2>4. CASE Agent /\ ~SendIndications
    <3>1. sent' = {}
      BY <2>4 DEF Agent, HandleAdd, EnterPeriod, Respond, RespondFails, HandleDelete,
                  HandleReset, HandleShutdown, FailConnection, HandleDisconnect, Reconnect,
                  ConnectFails, ConnectSucceeds, EndConnect, Answer, Silent
    <3>2. QED
      BY <2>2, <3>1
  <2>5. QED
    BY <2>1, <2>2, <2>3, <2>4, RicKeeps, TimerKeeps DEF Next
<1>3. QED
  BY <1>1, <1>2, Initially, StepKeeps, PTL DEF Spec

=============================================================================
