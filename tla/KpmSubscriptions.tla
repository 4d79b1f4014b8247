-------------------------- MODULE KpmSubscriptions --------------------------
(***************************************************************************)
(* Subscriptions to the KPM service model, in a build without E2_LIKE: the *)
(* agent thread handling a RIC's requests (e2ap_handle.cc, e2sm_kpm.cc)    *)
(* and the timer thread, which queues a task for it whenever a report is   *)
(* due (timer_queue.cc).  The model's own mutex is left out: only the      *)
(* agent thread takes it.  Reports are told apart by what they are sent    *)
(* for; their numbers and their encoding, which does not fail, are not     *)
(* modelled.                                                               *)
(***************************************************************************)
EXTENDS Integers, Sequences, FiniteSets

CONSTANTS
    Periods,      \* report periods
    Wanted,       \* subscriptions a RIC may ask for
    QueueCap,     \* tasks agent_queue holds (8192)
    MaxRequests   \* bound: requests of the RIC, of which each ends at most one session

ASSUME WantedAssumption ==
    Wanted \subseteq [id : Nat, registered : BOOLEAN, periods : SUBSET Periods,
                      reports : SUBSET Nat, others : SUBSET Nat]
ASSUME QueueAssumption == QueueCap \in Nat \ {0}
ASSUME BoundsAssumption == MaxRequests \in Nat

VARIABLES
    queue,          \* agent_queue
    apc,            \* where the agent thread stands
    subscriptions,  \* kpm_model::subscriptions
    periods,        \* kpm_model::periods: the timer of each and its subscriptions
    known,          \* agent::subscriptions
    adding, todo,   \* the subscription being added, and its periods still to enter
    timers,         \* timer_queue::queue
    nextId,         \* timer_queue::next_id
    lock,           \* the thread that holds timer_queue::lock
    tpc, due,       \* the timer thread: where it is, and the timer it serves
    asked,          \* requests of the RIC so far
    session,        \* E2 sessions so far: connections and E2 resets
    noReconnect,    \* ric.agent.no_reconnect, which nothing changes
    up,             \* the RIC is there to receive what is sent
    granted,        \* subscriptions answered with a response (observed)
    freed,          \* subscriptions deleted while kpm_model lists them (observed)
    sent, reply     \* what the last step has sent (observed)

kpmVars   == <<subscriptions, periods, known, adding, todo>>
timerVars == <<timers, nextId, lock, tpc, due>>
linkVars  == <<session, noReconnect, up>>
outVars   == <<granted, freed, sent, reply>>
vars == <<queue, apc, kpmVars, timerVars, asked, linkVars, outVars>>

NoTimer == -1
NoSub   == [key |-> 0]
NoReply == [kind |-> "none", id |-> 0]
Silent  == sent' = {} /\ reply' = NoReply

\* send_sctp_data() of an answer, whose result no caller looks at
Answer(kind, i) ==
    /\ reply' = IF up THEN [kind |-> kind, id |-> i] ELSE NoReply
    /\ sent' = {}

Keys == {s.key : s \in subscriptions}

\* A new subscription_t: its key stands for its address.
Subscription(w) ==
    [key |-> Cardinality(granted \cup Keys) + 1, session |-> session, id |-> w.id,
     periods |-> w.periods, reports |-> w.reports, others |-> w.others]

Tasks == [kind : {"add"}, wanted : Wanted] \cup [kind : {"delete"}, id : Nat]
         \cup [kind : {"reset", "shutdown", "reconnect", "disconnect"}] \cup [kind : {"tick"}, timer : Nat]

AgentSteps == {"idle", "insert", "failing", "connecting", "setup", "stuck"}

TypeOK ==
    /\ queue \in Seq(Tasks) /\ Len(queue) <= QueueCap
    /\ apc \in AgentSteps
    /\ subscriptions \subseteq [key : 1 .. MaxRequests, session : Nat, id : Nat,
                               periods : SUBSET Periods, reports : SUBSET Nat, others : SUBSET Nat]
    /\ periods \in [Periods -> [timer : Int, subs : SUBSET Keys]]
    /\ known \subseteq Keys
    /\ todo \subseteq Periods /\ adding \in subscriptions \cup {NoSub}
    /\ timers \subseteq [id : 1 .. nextId, period : Periods]
    /\ lock \in {"none", "timer", "agent"}
    /\ tpc \in {"wait", "push"} /\ due \in 0 .. nextId
    /\ asked \in 0 .. MaxRequests /\ session \in 1 .. MaxRequests + 1
    /\ noReconnect \in BOOLEAN /\ up \in BOOLEAN
    /\ granted \subseteq 1 .. MaxRequests /\ freed \subseteq 1 .. MaxRequests

Init ==
    /\ queue = <<>> /\ apc = "idle"
    /\ subscriptions = {} /\ known = {} /\ adding = NoSub /\ todo = {}
    /\ periods = [p \in Periods |-> [timer |-> NoTimer, subs |-> {}]]
    /\ timers = {} /\ nextId = 0 /\ lock = "none" /\ tpc = "wait" /\ due = 0
    /\ asked = 0 /\ session = 1 /\ noReconnect \in BOOLEAN /\ up = TRUE
    /\ granted = {} /\ freed = {} /\ sent = {} /\ reply = NoReply

-----------------------------------------------------------------------------
\* agent_queue.push(): it blocks while the queue is full.
Push(task) ==
    /\ Len(queue) < QueueCap
    /\ queue' = Append(queue, task)

\* The RIC sends a request and the rx thread queues it.
Ask(task) ==
    /\ up /\ asked < MaxRequests
    /\ Push(task)
    /\ asked' = asked + 1
    /\ Silent
    /\ UNCHANGED <<apc, kpmVars, timerVars, session, noReconnect, granted, freed>>

RicSubscribes == (\E w \in Wanted : Ask([kind |-> "add", wanted |-> w])) /\ UNCHANGED up

RicDeletes ==
    \E s \in subscriptions :
        /\ s.key \in granted
        /\ Ask([kind |-> "delete", id |-> s.id])
    /\ UNCHANGED up

RicResets == Ask([kind |-> "reset"]) /\ UNCHANGED up

\* The RIC ends the association: what is sent from now on is lost.
RicShutsDown == Ask([kind |-> "shutdown"]) /\ up' = FALSE

-----------------------------------------------------------------------------
\* The timer thread, woken when a timer is due, calls it back with the lock held.
TimerFires(p) ==
    /\ tpc = "wait" /\ lock = "none"
    /\ \E t \in timers : t.period = p /\ due' = t.id
    /\ tpc' = "push" /\ lock' = "timer"
    /\ Silent
    /\ UNCHANGED <<queue, apc, kpmVars, timers, nextId, asked, linkVars, granted, freed>>

\* timer_callback() queues send_indications(); then another timer is due, or
\* the thread waits, which frees the lock.
TimerPushes ==
    /\ tpc = "push"
    /\ Push([kind |-> "tick", timer |-> due])
    /\ \/ tpc' = "wait" /\ lock' = "none" /\ UNCHANGED due
       \/ (\E t \in timers : t.id # due /\ due' = t.id) /\ UNCHANGED <<tpc, lock>>
    /\ Silent
    /\ UNCHANGED <<apc, kpmVars, timers, nextId, asked, linkVars, granted, freed>>

-----------------------------------------------------------------------------
PopTask(kind) ==
    /\ apc = "idle"
    /\ queue # <<>> /\ Head(queue).kind = kind
    /\ queue' = Tail(queue)

\* The function is registered, the trigger names periods, some action reports.
Acceptable(w) == w.registered /\ w.periods # {} /\ w.reports # {}

\* Mutant: the subscription is listed before its actions are looked at.
Enters_Early(w) == w.registered /\ w.periods # {}

\* "This is a valid subscription; add it."
Enters(w) == Acceptable(w)

\* handle_ric_subscription_request(), up to handle_subscription_add()'s loop
HandleAdd ==
    /\ PopTask("add")
    /\ LET w == Head(queue).wanted
           s == Subscription(w)
       IN  /\ subscriptions' = subscriptions \cup (IF Enters(w) THEN {s} ELSE {})
           /\ IF Acceptable(w)
              THEN apc' = "insert" /\ adding' = s /\ todo' = w.periods /\ Silent
              ELSE Answer("refused", w.id) /\ UNCHANGED <<apc, adding, todo>>
    /\ UNCHANGED <<periods, known, timerVars, asked, linkVars, granted, freed>>

\* Mutant: each subscription starts a timer for its period.
NeedsTimer_Always(p) == TRUE

NeedsTimer(p) == periods[p].timer < 0

\* insert_periodic() returns ++next_id.
InsertedId == nextId + 1

\* One round of handle_subscription_add()'s loop; insert_periodic() takes the lock.
EnterPeriod(p) ==
    /\ apc = "insert" /\ p \in todo
    /\ IF NeedsTimer(p)
       THEN /\ lock = "none"
            /\ nextId' = nextId + 1
            /\ timers' = timers \cup {[id |-> nextId', period |-> p]}
            /\ periods' = [periods EXCEPT ![p] =
                             [timer |-> InsertedId, subs |-> @.subs \cup {adding.key}]]
       ELSE /\ periods' = [periods EXCEPT ![p].subs = @ \cup {adding.key}]
            /\ UNCHANGED <<nextId, timers>>
    /\ todo' = todo \ {p}
    /\ Silent
    /\ UNCHANGED <<queue, apc, subscriptions, known, adding, lock, tpc, due, asked, linkVars,
                   granted, freed>>

\* Mutant: the new subscription is recorded, so that its deletion finds it.
Recorded_Added == known \cup {adding.key}

\* agent::subscriptions after a success: handle_ric_subscription_request() returns
\* without adding to it.
Recorded == known

Respond ==
    /\ apc = "insert" /\ todo = {}
    /\ granted' = granted \cup {adding.key}
    /\ known' = Recorded
    /\ Answer("response", adding.id)
    /\ apc' = "idle" /\ adding' = NoSub
    /\ UNCHANGED <<queue, subscriptions, periods, todo, timerVars, asked, linkVars, freed>>

\* The response cannot be generated, as when the request named no RICrequestID: a
\* failure is sent and the subscription deleted, which the model goes on listing.
RespondFails ==
    /\ apc = "insert" /\ todo = {}
    /\ freed' = freed \cup {adding.key}
    /\ Answer("refused", adding.id)
    /\ apc' = "idle" /\ adding' = NoSub
    /\ UNCHANGED <<queue, subscriptions, periods, known, todo, timerVars, asked, linkVars, granted>>

\* lookup_subscription()
Matching(id) == {s \in subscriptions : s.id = id /\ s.key \in known}

\* handle_subscription_del().  cancel() finds no timer in timer_map, where none was
\* ever entered, and returns with the lock it took: a second call waits for ever.
DeleteSubscription(s) ==
    LET Emptied == {p \in s.periods : periods[p].subs \subseteq {s.key}}
    IN  /\ periods' = [p \in Periods |->
                         IF p \in Emptied THEN [timer |-> NoTimer, subs |-> {}]
                         ELSE [periods[p] EXCEPT !.subs = @ \ {s.key}]]
        /\ Emptied # {} => lock = "none"
        /\ lock' = IF Emptied = {} THEN lock ELSE "agent"
        /\ apc' = IF Cardinality(Emptied) > 1 THEN "stuck" ELSE "idle"
        /\ subscriptions' = subscriptions \ {s}

\* handle_ric_subscription_delete_request()
HandleDelete ==
    /\ PopTask("delete")
    /\ LET id == Head(queue).id
       IN  IF Matching(id) = {}
           THEN /\ Answer("unknown", id)
                /\ UNCHANGED <<apc, subscriptions, periods, lock>>
           ELSE /\ \E s \in Matching(id) : DeleteSubscription(s)
                /\ Answer("deleted", id)
    /\ UNCHANGED <<known, adding, todo, timers, nextId, tpc, due, asked, linkVars, granted, freed>>

\* handle_reset_request(): agent::reset() and its answer
HandleReset ==
    /\ PopTask("reset")
    /\ known' = {}
    /\ session' = session + 1
    /\ Answer("resetDone", 0)
    /\ UNCHANGED <<apc, subscriptions, periods, adding, todo, timerVars, asked, noReconnect, up,
                   granted, freed>>

\* handle_message() of a shutdown notification, and its handle_connection_error()
HandleShutdown ==
    /\ PopTask("shutdown")
    /\ apc' = "failing"
    /\ Silent
    /\ UNCHANGED <<kpmVars, timerVars, asked, linkVars, granted, freed>>

FailConnection ==
    /\ apc = "failing"
    /\ Push([kind |-> IF noReconnect THEN "disconnect" ELSE "reconnect"])
    /\ apc' = "idle"
    /\ Silent
    /\ UNCHANGED <<kpmVars, timerVars, asked, linkVars, granted, freed>>

\* disconnect(), and with no_reconnect that was it
HandleDisconnect ==
    /\ PopTask("disconnect")
    /\ up' = FALSE
    /\ Silent
    /\ UNCHANGED <<apc, kpmVars, timerVars, asked, session, noReconnect, granted, freed>>

\* connection_reset() disconnects, replaces the queue, where a push of the timer
\* thread that has begun is refused, and goes on to connect().
Reconnect ==
    /\ apc = "idle"
    /\ queue # <<>> /\ Head(queue).kind = "reconnect"
    /\ queue' = <<>>
    /\ \/ UNCHANGED <<tpc, lock>>
       \/ tpc = "push" /\ tpc' = "wait" /\ lock' = "none"
    /\ known' = {}
    /\ up' = FALSE
    /\ apc' = "connecting"
    /\ Silent
    /\ UNCHANGED <<subscriptions, periods, adding, todo, timers, nextId, due, asked, session,
                   noReconnect, granted, freed>>

\* connect_to() fails, or the E2 setup request cannot be sent.
ConnectFails ==
    /\ apc \in {"connecting", "setup"}
    /\ apc' = "failing"
    /\ Silent
    /\ UNCHANGED <<queue, kpmVars, timerVars, asked, linkVars, granted, freed>>

\* connect_to() succeeds, and the rx thread may queue what the RIC sends.
ConnectSucceeds ==
    /\ apc = "connecting"
    /\ apc' = "setup" /\ up' = TRUE
    /\ Silent
    /\ UNCHANGED <<queue, kpmVars, timerVars, asked, session, noReconnect, granted, freed>>

\* connect() has waited for an answer that only its own thread could have handled.
EndConnect ==
    /\ apc = "setup"
    /\ apc' = "idle"
    /\ session' = session + 1
    /\ Silent
    /\ UNCHANGED <<queue, kpmVars, timerVars, asked, noReconnect, up, granted, freed>>

\* The period a tick is for, if its timer is one of the model's and has subscriptions.
Due(id) == {p \in Periods : periods[p].timer = id /\ periods[p].subs # {}}

\* Mutant: the loop ends after the subscription it starts with.
Receivers_First == {s \in subscriptions : \A t \in subscriptions : s.key <= t.key}

\* The loop goes through all subscriptions, whatever their periods ...
Receivers == subscriptions

\* ... and all their actions, enabled or not.
Actions(s) == s.reports \cup s.others

Indications(s, p) ==
    {[key |-> s.key, session |-> s.session, action |-> a, period |-> p] : a \in Actions(s)}

\* send_indications().  Of a subscription that was deleted it sends what the memory
\* still holds of it or not, if the eNB survives the reading.
SendIndications ==
    /\ PopTask("tick")
    /\ \E unread \in SUBSET freed :
          LET listed == {s \in Receivers : s.key \notin unread}
          IN  sent' = IF up THEN UNION {Indications(s, p) : s \in listed, p \in Due(Head(queue).timer)}
                      ELSE {}
    /\ reply' = NoReply
    /\ UNCHANGED <<apc, kpmVars, timerVars, asked, linkVars, granted, freed>>

Ric == RicSubscribes \/ RicDeletes \/ RicResets \/ RicShutsDown

Agent ==
    \/ HandleAdd \/ (\E p \in Periods : EnterPeriod(p)) \/ Respond \/ RespondFails
    \/ HandleDelete \/ HandleReset
    \/ HandleShutdown \/ FailConnection \/ HandleDisconnect
    \/ Reconnect \/ ConnectFails \/ ConnectSucceeds \/ EndConnect
    \/ SendIndications

Next == Ric \/ (\E p \in Periods : TimerFires(p)) \/ TimerPushes \/ Agent

\* The queue of timers is ordered by their due times: none is passed over for ever.
Fairness ==
    /\ WF_vars(Agent) /\ WF_vars(TimerPushes)
    /\ \A p \in Periods : SF_vars(TimerFires(p))

Spec == Init /\ [][Next]_vars /\ Fairness

-----------------------------------------------------------------------------
Granted(s) == s.key \in granted

(***************************************************************************)
(* What is reported was granted: no indication goes out for a subscription *)
(* that was refused for its function, its trigger or its actions or is not *)
(* answered yet, although its timer may have fired before the handler of   *)
(* the request returns.  The exception is one whose response could not be  *)
(* generated (handle_subscription_add, handle_ric_subscription_request).   *)
(***************************************************************************)
GrantedFirst == \A i \in sent : i.key \in granted \cup freed

(***************************************************************************)
(* The timer thread has one timer for each period some subscription has,   *)
(* under the id the model keeps for it, and no other: else a subscription  *)
(* would be reported to twice, or never (handle_subscription_add).         *)
(***************************************************************************)
OneTimerPerPeriod ==
    \A p \in Periods :
        /\ {t.id : t \in {u \in timers : u.period = p}} = {periods[p].timer} \ {NoTimer}
        /\ periods[p].timer # NoTimer <=> periods[p].subs # {}

\* The agent finds room in its queue whenever a step of its own depends on it.
NeverFullInAgent == [](apc \in {"insert", "failing"} => Len(queue) < QueueCap)

\* No deleted subscription is left in the model, to be read.
NothingFreed == [](freed = {})

(***************************************************************************)
(* Once granted, a subscription is reported to again and again, for each   *)
(* of its admitted actions and each of its periods, whatever connections   *)
(* were lost and could not be set up since, as long as one lasts in the    *)
(* end, the queue never fills up under the agent's feet and nothing listed *)
(* was freed (send_indications, timer_queue, connection_reset).            *)
(***************************************************************************)
KeepsReporting ==
    NeverFullInAgent /\ NothingFreed /\ <>[]up =>
        \A k \in 1 .. MaxRequests, p \in Periods, a \in UNION {w.reports : w \in Wanted} :
            [](  (\E s \in subscriptions :
                      s.key = k /\ Granted(s) /\ p \in s.periods /\ a \in s.reports)
               => <>(\E i \in sent : i.key = k /\ i.period = p /\ i.action = a))

(***************************************************************************)
(* The agent thread gets back to its queue: it gets the lock the timer     *)
(* thread calls back with, its own calls give it back, and a RIC that is   *)
(* never there again does not keep it busy for ever; as long as the queue  *)
(* never fills up under its feet, when thread and timer wait for each      *)
(* other for good, and nothing listed was freed (timer_queue::run,         *)
(* insert_periodic, connection_reset, handle_connection_error).            *)
(***************************************************************************)
AgentReturns == NeverFullInAgent /\ NothingFreed => []<>(apc = "idle")

-----------------------------------------------------------------------------
\* What the sources say and the code does not keep: TLC refutes each of these.

(***************************************************************************)
(* connect(): "it's ok to busy-wait in this thread since it's dedicated to *)
(* the connection".  A queue that is full at no other time than while a    *)
(* connection is given up and set up does not keep the thread for ever.    *)
(***************************************************************************)
BusyWaitIsHarmless ==
    [](Len(queue) = QueueCap => apc \in {"failing", "connecting", "setup"}) /\ NothingFreed
        => []<>(apc = "idle")

(***************************************************************************)
(* handle_ric_subscription_request(): "failed to generate                  *)
(* RICsubscriptionResponse", after which the subscription is deleted.  It  *)
(* is reported to all the same.                                            *)
(***************************************************************************)
RefusedIsSilent == \A i \in sent : i.key \in granted

(***************************************************************************)
(* send_indications() logs "sending indications for period": those of the  *)
(* subscriptions that asked for it.                                        *)
(***************************************************************************)
OnItsPeriods ==
    \A i \in sent : \A s \in subscriptions : s.key = i.key => i.period \in s.periods

(***************************************************************************)
(* handle_subscription_add() logs "not enabling this action" for one that  *)
(* does not report: it gets no indications.                                *)
(***************************************************************************)
AdmittedOnly ==
    \A i \in sent : \A s \in subscriptions : s.key = i.key => i.action \in s.reports

(***************************************************************************)
(* agent::reset() "Implements an E2 reset": what was subscribed before it, *)
(* or before a reconnection, which includes it, is not reported any more.  *)
(***************************************************************************)
OfThisSession == \A i \in sent : i.session = session

(***************************************************************************)
(* handle_ric_subscription_delete_request() answers "failed to find        *)
(* subscription" when there is none of this id: not to the deletion of one *)
(* that was granted in this session.                                       *)
(***************************************************************************)
DeletableOnceGranted ==
    reply.kind = "unknown" =>
        \A s \in subscriptions : Granted(s) /\ s.session = session => s.id # reply.id

=============================================================================
