------------------------- MODULE MultiQueue_proofs -------------------------
(***************************************************************************)
(* The multiqueue implements the ports of TaskPorts, and nothing is left   *)
(* in it when stop() returns, for any number of threads, ports and         *)
(* messages.                                                               *)
(***************************************************************************)
EXTENDS MultiQueue, SequenceTheorems, FiniteSetTheorems, TLAPS

Port == [buf : Seq(Pushers \X (1 .. MaxPushes)), active : BOOLEAN, waiting : Int]

Busy == {"push", "wait", "woken"}

(***************************************************************************)
(* What the refinement rests on: a closed port is empty, a thread inside a *)
(* push has a port and a message, and the consumer's position is in range. *)
(***************************************************************************)
PortsOK ==
    /\ ports \in Seq(Port) /\ Len(ports) <= MaxPorts
    /\ \A s \in DOMAIN ports : ~ports[s].active => ports[s].buf = <<>>
PushesOK ==
    /\ pushes \in [Pushers -> 0 .. MaxPushes]
    /\ ppc \in [Pushers -> {"idle", "push", "wait", "woken", "exit"}]
    /\ parg \in [Pushers -> [slot : 0 .. Len(ports), blocking : BOOLEAN]]
    /\ \A p \in Pushers : ppc[p] # "idle" => parg[p].slot # 0 /\ pushes[p] # 0
HandlesOK  == handle \in [Clients -> 0 .. Len(ports)]
ConsumerOK == spin \in Nat /\ pos \in Nat \ {0} /\ count \in Nat

Shape == PortsOK /\ PushesOK /\ HandlesOK /\ ConsumerOK

-----------------------------------------------------------------------------
\* A port that is given the value q
LEMMA PortChanged ==
    ASSUME PortsOK, NEW s \in DOMAIN ports, NEW q \in Port,
           ~q.active => q.buf = <<>>,
           ports' = [ports EXCEPT ![s] = q]
    PROVE  /\ PortsOK' /\ Len(ports') = Len(ports) /\ s \in Slots
           /\ open' = [open EXCEPT ![s] = q.active]
           /\ box' = [box EXCEPT ![s] = q.buf]
<1>1. /\ Len(ports) \in Nat /\ DOMAIN ports = 1 .. Len(ports)
      /\ DOMAIN ports' = DOMAIN ports /\ Len(ports') = Len(ports)
      /\ ports' \in Seq(Port)
  BY DEF PortsOK
<1>2. s \in Slots
  BY <1>1, BoundsAssumption DEF PortsOK, Slots
<1>3. \A r \in DOMAIN ports : ports'[r] = IF r = s THEN q ELSE ports[r]
  BY <1>1
<1>4. PortsOK'
  BY <1>1, <1>3 DEF PortsOK
<1>5. q.active \in BOOLEAN
  BY DEF Port
<1>6. open' = [open EXCEPT ![s] = q.active]
  BY <1>1, <1>2, <1>3, <1>5, Zenon DEF open
<1>7. box' = [box EXCEPT ![s] = q.buf]
  BY <1>1, <1>2, <1>3, Zenon DEF box
<1>8. QED
  BY <1>1, <1>2, <1>4, <1>6, <1>7

LEMMA SamePorts == ASSUME UNCHANGED ports PROVE open' = open /\ box' = box
BY DEF open, box

LEMMA SameCalls == ASSUME UNCHANGED <<ppc, parg, pushes>> PROVE call' = call
BY DEF call

\* A push goes on at the next step of push_.
LEMMA CallGoesOn ==
    ASSUME PushesOK, NEW p \in Pushers, NEW next \in Busy, ppc[p] \in Busy,
           ppc' = [ppc EXCEPT ![p] = next], UNCHANGED <<parg, pushes>>
    PROVE  call' = call
<1>1. \A r \in Pushers : ppc'[r] \in Busy <=> ppc[r] \in Busy
  BY DEF PushesOK
<1>2. QED
  BY <1>1, Zenon DEF call, Busy

\* A push ends; the notification that may follow is none of the callers' business.
LEMMA CallEnds ==
    ASSUME PushesOK, NEW p \in Pushers, NEW next \in {"idle", "exit"},
           PushEnds(p, next), UNCHANGED pushes
    PROVE  call' = [call EXCEPT ![p] = <<>>]
<1>1. \A r \in Pushers \ {p} : ppc'[r] = ppc[r] /\ parg'[r] = parg[r]
  BY DEF PushesOK, PushEnds
<1>2. ppc'[p] \notin {"push", "wait", "woken"}
  BY DEF PushesOK, PushEnds
<1>3. QED
  BY <1>1, <1>2, Zenon DEF call

-----------------------------------------------------------------------------
Moves == Promise!PortsNext \/ UNCHANGED <<open, box, call>>

LEMMA PushMoves ==
    ASSUME Shape, NEW p \in Pushers, Push(p) PROVE Shape' /\ Moves
<1>1. PICK c \in Clients, blocking \in BOOLEAN :
        /\ handle[c] # 0
        /\ parg' = [parg EXCEPT ![p] = [slot |-> handle[c], blocking |-> blocking]]
  BY DEF Push
<1>2. /\ ppc[p] = "idle" /\ pushes[p] < MaxPushes
      /\ pushes' = [pushes EXCEPT ![p] = @ + 1]
      /\ ppc' = [ppc EXCEPT ![p] = "push"]
      /\ UNCHANGED <<ports, handle, spin, pos, count>>
  BY DEF Push, closeVars, popVars
<1>3. handle[c] \in 1 .. Len(ports) /\ Len(ports) \in Nat
  BY <1>1 DEF Shape, HandlesOK, PortsOK
<1>4. pushes[p] + 1 \in 1 .. MaxPushes
  BY <1>2, BoundsAssumption DEF Shape, PushesOK
<1>5. PushesOK'
  <2>1. pushes' \in [Pushers -> 0 .. MaxPushes]
    BY <1>2, <1>4 DEF Shape, PushesOK
  <2>2. ppc' \in [Pushers -> {"idle", "push", "wait", "woken", "exit"}]
    BY <1>2 DEF Shape, PushesOK
  <2>3. parg' \in [Pushers -> [slot : 0 .. Len(ports), blocking : BOOLEAN]]
    BY <1>1, <1>3 DEF Shape, PushesOK
  <2>4. ASSUME NEW r \in Pushers, ppc'[r] # "idle" PROVE parg'[r].slot # 0 /\ pushes'[r] # 0
    <3>1. CASE r = p
      BY <3>1, <1>1, <1>2, <1>4 DEF Shape, PushesOK
    <3>2. CASE r # p
      BY <3>2, <1>1, <1>2, <2>4 DEF Shape, PushesOK
    <3>3. QED
      BY <3>1, <3>2
  <2>5. QED
    BY <2>1, <2>2, <2>3, <2>4, <1>2 DEF PushesOK
<1>6. Shape'
  BY <1>2, <1>5 DEF Shape, PortsOK, HandlesOK, ConsumerOK
<1>7. open' = open /\ box' = box
  BY <1>2, SamePorts
<1>8. call[p] = <<>>
  BY <1>2 DEF call
<1>9. call' = [call EXCEPT ![p] = <<handle[c], <<p, pushes[p] + 1>>, blocking>>]
  <2>1. \A r \in Pushers \ {p} : ppc'[r] = ppc[r] /\ parg'[r] = parg[r] /\ pushes'[r] = pushes[r]
    BY <1>1, <1>2 DEF Shape, PushesOK
  <2>2. /\ ppc'[p] = "push" /\ pushes'[p] = pushes[p] + 1
        /\ parg'[p].slot = handle[c] /\ parg'[p].blocking = blocking
    BY <1>1, <1>2 DEF Shape, PushesOK
  <2>3. QED
    BY <2>1, <2>2, Zenon DEF call
<1>10. Promise!Call(p)
  <2>1. handle[c] \in Slots /\ <<p, pushes[p] + 1>> \in Pushers \X (1 .. MaxPushes)
    BY <1>3, <1>4, BoundsAssumption DEF Shape, PortsOK, Slots
  <2>2. QED
    BY <1>7, <1>8, <1>9, <2>1 DEF Promise!Call
<1>11. QED
  BY <1>6, <1>10 DEF Moves, Promise!PortsNext

LEMMA PushEndsShape ==
    ASSUME PushesOK, Len(ports') = Len(ports), NEW p \in Pushers, NEW next \in {"idle", "exit"},
           ppc[p] # "idle", PushEnds(p, next), UNCHANGED pushes
    PROVE  PushesOK'
<1>1. ppc' = [ppc EXCEPT ![p] = next]
  BY DEF PushEnds
<1>2. parg' = [parg EXCEPT ![p] = IF next = "idle" THEN NoPush ELSE parg[p]]
  BY DEF PushEnds, PushesOK
<1>3. NoPush \in [slot : 0 .. Len(ports), blocking : BOOLEAN] \/ ~(0 \in 0 .. Len(ports))
  BY DEF NoPush
<1>4. 0 \in 0 .. Len(ports)
  BY DEF PushesOK
<1>5. QED
  BY <1>1, <1>2, <1>3, <1>4 DEF PushesOK

\* push_ under the lock, from its start or from the wait for room
LEMMA TryBufferMoves ==
    ASSUME Shape, NEW p \in Pushers, NEW was \in {0, 1}, ppc[p] \in {"push", "woken"},
           TryBuffer(p, was), UNCHANGED <<pushes, handle, spin, pos, count>>
    PROVE  Shape' /\ Moves
<1> DEFINE s == parg[p].slot
           m == <<p, pushes[p]>>
           q == [ports[s] EXCEPT !.waiting = @ - was]
<1>1. /\ s \in DOMAIN ports /\ ports[s] \in Port /\ Len(ports) \in Nat /\ s \in Slots
      /\ parg[p].blocking \in BOOLEAN
  BY BoundsAssumption DEF Shape, PortsOK, PushesOK, Slots
<1>2. m \in Pushers \X (1 .. MaxPushes)
  BY BoundsAssumption DEF Shape, PushesOK
<1>3. /\ q \in Port /\ q.buf = ports[s].buf /\ q.active = ports[s].active
      /\ q.waiting = ports[s].waiting - was
  <2> DEFINE r == ports[s]
  <2>1. r \in Port /\ r.waiting - was \in Int
    BY <1>1 DEF Port
  <2> HIDE DEF r
  <2>2. /\ [r EXCEPT !.waiting = @ - was] \in Port
        /\ [r EXCEPT !.waiting = @ - was].buf = r.buf
        /\ [r EXCEPT !.waiting = @ - was].active = r.active
        /\ [r EXCEPT !.waiting = @ - was].waiting = r.waiting - was
    BY <2>1 DEF Port
  <2>3. QED
    BY <2>2 DEF r
<1>4. call[p] = <<s, m, parg[p].blocking>>
  BY DEF call
<1>5. open[s] = ports[s].active /\ box[s] = ports[s].buf
  BY <1>1 DEF open, box, Port
<1>6. (HandlesOK' /\ ConsumerOK') \/ Len(ports') # Len(ports)
  BY DEF Shape, HandlesOK, ConsumerOK
<1>7. CASE ~q.active
  <2>1. /\ ports' = [ports EXCEPT ![s] = q]
        /\ PushEnds(p, IF parg[p].blocking THEN "exit" ELSE "idle")
    BY <1>7 DEF TryBuffer
  <2>2. q.buf = <<>>
    BY <1>1, <1>3, <1>7 DEF Shape, PortsOK
  <2>3. /\ PortsOK' /\ Len(ports') = Len(ports)
        /\ open' = [open EXCEPT ![s] = q.active] /\ box' = [box EXCEPT ![s] = q.buf]
    BY <1>1, <1>3, <2>1, <2>2, PortChanged DEF Shape
  <2>4. open' = open /\ box' = box
    BY <2>3, <1>3, <1>5, Zenon DEF open, box
  <2>5. PushesOK' /\ call' = [call EXCEPT ![p] = <<>>]
    BY <2>1, <2>3, PushEndsShape, CallEnds DEF Shape
  <2>6. Promise!Refuse(p)
    BY <1>3, <1>4, <1>5, <1>7, <2>4, <2>5 DEF Promise!Refuse
  <2>7. QED
    BY <1>6, <2>3, <2>5, <2>6 DEF Shape, Moves, Promise!PortsNext
<1>8. CASE q.active /\ Len(q.buf) < Capacity
  <2> DEFINE qq == [q EXCEPT !.buf = Append(@, m)]
  <2>1. ports' = [ports EXCEPT ![s] = qq] /\ PushEnds(p, "idle")
    BY <1>8 DEF TryBuffer
  <2>2. q.buf \in Seq(Pushers \X (1 .. MaxPushes))
    BY <1>3 DEF Port
  <2>3. Append(q.buf, m) \in Seq(Pushers \X (1 .. MaxPushes))
    BY <2>2, <1>2
  <2>4. qq \in Port /\ qq.active = q.active /\ qq.buf = Append(q.buf, m)
    BY <1>3, <2>3 DEF Port
  <2>5. /\ PortsOK' /\ Len(ports') = Len(ports)
        /\ open' = [open EXCEPT ![s] = q.active] /\ box' = [box EXCEPT ![s] = Append(q.buf, m)]
    <3> HIDE DEF qq, q, s
    <3>1. QED
      BY <1>1, <1>8, <2>1, <2>4, PortChanged DEF Shape
  <2>6. open' = open
    BY <2>5, <1>3, <1>5, Zenon DEF open
  <2>7. PushesOK' /\ call' = [call EXCEPT ![p] = <<>>]
    BY <2>1, <2>5, PushEndsShape, CallEnds DEF Shape
  <2>8. box' = [box EXCEPT ![s] = Append(@, m)]
    BY <2>5, <1>3, <1>5
  <2>9. Promise!Accept(p)
    <3>1. call[p] # <<>> /\ call[p][1] = s /\ call[p][2] = m
      BY <1>4
    <3>2. open[s] /\ Len(box[s]) < Capacity
      BY <1>3, <1>5, <1>8
    <3> HIDE DEF q, s, m
    <3>3. QED
      BY <3>1, <3>2, <2>6, <2>7, <2>8 DEF Promise!Accept
  <2>10. QED
    BY <1>6, <2>5, <2>7, <2>9 DEF Shape, Moves, Promise!PortsNext
<1>9. CASE q.active /\ ~(Len(q.buf) < Capacity) /\ parg[p].blocking
  <2> DEFINE qq == [q EXCEPT !.waiting = @ + 1]
  <2>1. /\ ports' = [ports EXCEPT ![s] = qq]
        /\ ppc' = [ppc EXCEPT ![p] = "wait"] /\ UNCHANGED parg
    BY <1>9 DEF TryBuffer
  <2>2. q.waiting + 1 \in Int
    BY <1>3 DEF Port
  <2>3. qq \in Port /\ qq.active = q.active /\ qq.buf = q.buf
    BY <1>3, <2>2 DEF Port
  <2>4. /\ PortsOK' /\ Len(ports') = Len(ports)
        /\ open' = [open EXCEPT ![s] = q.active] /\ box' = [box EXCEPT ![s] = q.buf]
    <3> HIDE DEF qq, q, s
    <3>1. QED
      BY <1>1, <1>9, <2>1, <2>3, PortChanged DEF Shape
  <2>5. open' = open /\ box' = box
    BY <2>4, <1>3, <1>5, Zenon DEF open, box
  <2>6. call' = call
    BY <2>1, CallGoesOn DEF Shape, Busy
  <2>7. PushesOK'
    BY <2>1, <2>4 DEF Shape, PushesOK
  <2>8. QED
    BY <1>6, <2>4, <2>5, <2>6, <2>7 DEF Shape, Moves
<1>10. CASE q.active /\ ~(Len(q.buf) < Capacity) /\ ~parg[p].blocking
  <2>1. UNCHANGED ports /\ PushEnds(p, "idle")
    BY <1>10 DEF TryBuffer
  <2>2. PushesOK' /\ call' = [call EXCEPT ![p] = <<>>]
    BY <2>1, PushEndsShape, CallEnds DEF Shape
  <2>3. open' = open /\ box' = box
    BY <2>1, SamePorts
  <2>4. Len(box[s]) >= Capacity
    BY <1>1, <1>3, <1>5, <1>10, CapacityAssumption DEF Port
  <2>5. Promise!Refuse(p)
    BY <1>4, <1>10, <2>2, <2>3, <2>4 DEF Promise!Refuse
  <2>6. PortsOK'
    BY <2>1 DEF Shape, PortsOK
  <2>7. QED
    BY <1>6, <2>1, <2>2, <2>5, <2>6 DEF Shape, Moves, Promise!PortsNext
<1>11. QED
  BY <1>3, <1>7, <1>8, <1>9, <1>10 DEF Port

-----------------------------------------------------------------------------
\* Steps that neither a port nor a push notices
LEMMA QuietMoves ==
    ASSUME Shape, UNCHANGED <<ports, pushVars, handle>>, ConsumerOK'
    PROVE  Shape' /\ Moves
<1>1. Shape'
  BY DEF Shape, PortsOK, PushesOK, HandlesOK, pushVars
<1>2. open' = open /\ box' = box /\ call' = call
  BY SamePorts, SameCalls DEF pushVars
<1>3. QED
  BY <1>1, <1>2 DEF Moves

LEMMA PushExitMoves ==
    ASSUME Shape, NEW p \in Pushers, PushExit(p) PROVE Shape' /\ Moves
<1>1. /\ ppc[p] = "exit" /\ PushEnds(p, "idle")
      /\ UNCHANGED <<ports, pushes, handle, spin, pos, count>>
  BY DEF PushExit, popVars
<1>2. PushesOK' /\ call' = [call EXCEPT ![p] = <<>>]
  BY <1>1, PushEndsShape, CallEnds DEF Shape
<1>3. call[p] = <<>>
  BY <1>1 DEF call
<1>4. call' = call /\ open' = open /\ box' = box
  BY <1>1, <1>2, <1>3, SamePorts, Zenon DEF call
<1>5. Shape'
  BY <1>1, <1>2 DEF Shape, PortsOK, HandlesOK, ConsumerOK
<1>6. QED
  BY <1>4, <1>5 DEF Moves

LEMMA PortAppended ==
    ASSUME NEW P \in Seq(Port), NEW q \in Port
    PROVE  /\ Append(P, q) \in Seq(Port) /\ Len(Append(P, q)) = Len(P) + 1
           /\ DOMAIN Append(P, q) = 1 .. Len(P) + 1 /\ Append(P, q)[Len(P) + 1] = q
           /\ \A r \in DOMAIN P : Append(P, q)[r] = P[r]
OBVIOUS

\* add_queue with a port: a new one, or a closed one taken up again
LEMMA PortOpens ==
    ASSUME Shape, NEW s \in Slots \cap (1 .. Len(ports) + 1), FreePort(s),
           ports' = IF s > Len(ports) THEN Append(ports, NewPort)
                    ELSE [ports EXCEPT ![s].active = TRUE],
           UNCHANGED pushVars
    PROVE  /\ PortsOK' /\ Len(ports') \in {Len(ports), Len(ports) + 1} /\ s <= Len(ports')
           /\ Promise!Open(s)
<1>1. Len(ports) \in Nat /\ DOMAIN ports = 1 .. Len(ports) /\ s \in Nat
  BY DEF Shape, PortsOK
<1>2. call' = call
  BY SameCalls DEF pushVars
<1>3. CASE s = Len(ports) + 1
  <2>0. s > Len(ports)
    BY <1>1, <1>3
  <2>1. ports' = Append(ports, NewPort)
    BY <2>0, Zenon
  <2>2. NewPort \in Port /\ NewPort.active /\ NewPort.buf = <<>>
    BY DEF NewPort, Port
  <2>3. /\ ports' \in Seq(Port) /\ Len(ports') = Len(ports) + 1 /\ DOMAIN ports' = 1 .. s
        /\ ports'[s] = NewPort /\ \A r \in DOMAIN ports : ports'[r] = ports[r]
    <3>1. ports \in Seq(Port)
      BY DEF Shape, PortsOK
    <3>2. /\ Append(ports, NewPort) \in Seq(Port)
          /\ Len(Append(ports, NewPort)) = Len(ports) + 1
          /\ DOMAIN Append(ports, NewPort) = 1 .. Len(ports) + 1
          /\ Append(ports, NewPort)[Len(ports) + 1] = NewPort
          /\ \A r \in DOMAIN ports : Append(ports, NewPort)[r] = ports[r]
      BY <2>2, <3>1, PortAppended
    <3>3. QED
      BY <1>3, <2>1, <3>2, Zenon
  <2>4. s <= MaxPorts
    BY BoundsAssumption DEF Slots
  <2>5. PortsOK'
    BY <1>1, <1>3, <2>2, <2>3, <2>4 DEF Shape, PortsOK
  <2>6. \A r \in Slots : r \in DOMAIN ports' <=> r \in DOMAIN ports \/ r = s
    BY <1>1, <1>3, <2>3, BoundsAssumption DEF Slots
  <2>7. s \notin DOMAIN ports /\ s \in DOMAIN ports'
    BY <1>1, <1>3, <2>3
  <2>8. open' = [open EXCEPT ![s] = TRUE]
    BY <2>2, <2>3, <2>6, <2>7, Zenon DEF open
  <2>9. box' = box
    BY <2>2, <2>3, <2>6, <2>7, Zenon DEF box
  <2>10. ~open[s] /\ box[s] = <<>>
    BY <2>7 DEF open, box
  <2>11. QED
    BY <1>2, <1>3, <2>3, <2>5, <2>8, <2>9, <2>10 DEF Promise!Open
<1>4. CASE s \in DOMAIN ports
  <2> DEFINE q == [ports[s] EXCEPT !.active = TRUE]
  <2>1. ports[s] \in Port /\ ~ports[s].active /\ ports[s].buf = <<>>
    BY <1>4 DEF Shape, PortsOK, FreePort
  <2>2. q \in Port /\ q.active = TRUE /\ q.buf = <<>>
    <3> DEFINE r == ports[s]
    <3>1. r \in Port /\ r.buf = <<>>
      BY <2>1
    <3> HIDE DEF r
    <3>2. [r EXCEPT !.active = TRUE] \in Port /\ [r EXCEPT !.active = TRUE].active = TRUE
          /\ [r EXCEPT !.active = TRUE].buf = <<>>
      BY <3>1 DEF Port
    <3>3. QED
      BY <3>2 DEF r
  <2>10. ~(s > Len(ports))
    BY <1>1, <1>4
  <2>3. ports' = [ports EXCEPT ![s] = q]
    BY <2>10, Zenon
  <2>4. /\ PortsOK' /\ Len(ports') = Len(ports)
        /\ open' = [open EXCEPT ![s] = TRUE] /\ box' = [box EXCEPT ![s] = <<>>]
    <3> HIDE DEF q
    <3>1. QED
      BY <1>4, <2>2, <2>3, PortChanged DEF Shape
  <2>5. ~open[s] /\ box[s] = <<>>
    BY <1>4, <2>1 DEF open, box
  <2>6. box' = box
    BY <2>4, <2>5, Zenon DEF box
  <2>7. QED
    <3>0. s <= Len(ports)
      BY <1>1, <1>4
    <3>1. s <= Len(ports')
      BY <2>4, <3>0, Zenon
    <3>2. Promise!Open(s)
      BY <1>2, <2>4, <2>5, <2>6, Zenon DEF Promise!Open
    <3>3. QED
      BY <2>4, <3>1, <3>2, Zenon
<1>5. QED
  BY <1>1, <1>3, <1>4

LEMMA AddQueueMoves ==
    ASSUME Shape, NEW c \in Clients, AddQueue(c) PROVE Shape' /\ Moves
<1>1. UNCHANGED <<pushVars, spin, pos, count>> /\ ConsumerOK'
  BY DEF AddQueue, popVars, Shape, ConsumerOK
<1>2. CASE running
  <2>1. PICK s \in Slots \cap (1 .. Len(ports) + 1) :
          /\ FreePort(s)
          /\ handle' = [handle EXCEPT ![c] = s]
          /\ ports' = IF s > Len(ports) THEN Append(ports, NewPort)
                      ELSE [ports EXCEPT ![s].active = TRUE]
    BY <1>2 DEF AddQueue
  <2>2. /\ PortsOK' /\ Len(ports') \in {Len(ports), Len(ports) + 1} /\ s <= Len(ports')
        /\ Promise!Open(s)
    BY <1>1, <2>1, PortOpens
  <2>3. Len(ports) \in Nat /\ s \in 1 .. Len(ports') /\ 0 .. Len(ports) \subseteq 0 .. Len(ports')
    BY <2>2 DEF Shape, PortsOK
  <2>4. HandlesOK'
    BY <2>1, <2>3 DEF Shape, HandlesOK
  <2>5. PushesOK'
    BY <1>1, <2>3 DEF Shape, PushesOK, pushVars
  <2>6. QED
    BY <1>1, <2>2, <2>4, <2>5 DEF Shape, Moves, Promise!PortsNext
<1>3. CASE ~running
  <2>1. handle' = [handle EXCEPT ![c] = 0] /\ UNCHANGED ports
    BY <1>3 DEF AddQueue
  <2>2. 0 \in 0 .. Len(ports)
    BY DEF Shape, PortsOK
  <2>3. Shape'
    BY <1>1, <2>1, <2>2 DEF Shape, PortsOK, PushesOK, HandlesOK, pushVars
  <2>4. QED
    BY <1>1, <2>1, <2>3, SamePorts, SameCalls DEF Moves, pushVars
<1>4. QED
  BY <1>2, <1>3

\* A step that does no more than let a handle go
LEMMA LetGoMoves ==
    ASSUME Shape, NEW c \in Closers, handle' = [handle EXCEPT ![c] = 0] \/ UNCHANGED handle,
           UNCHANGED <<ports, pushVars, spin, pos, count>>
    PROVE  Shape' /\ Moves
<1>1. 0 \in 0 .. Len(ports)
  BY DEF Shape, PortsOK
<1>2. Shape'
  BY <1>1 DEF Shape, PortsOK, PushesOK, HandlesOK, ConsumerOK, pushVars
<1>3. QED
  BY <1>2, SamePorts, SameCalls DEF Moves, pushVars

LEMMA LetGoSteps ==
    ASSUME Shape, NEW c \in Clients, EndHandle(c) \/ ResetHandle(c) PROVE Shape' /\ Moves
<1>1. c \in Closers
  BY DEF Closers
<1>2. QED
  BY <1>1, LetGoMoves DEF EndHandle, ResetHandle, Deactivate, popVars

LEMMA SetInactiveMoves ==
    ASSUME Shape, NEW t \in Closers, SetInactive(t) PROVE Shape' /\ Moves
<1> DEFINE s == carg[t]
           q == [buf |-> <<>>, active |-> FALSE, waiting |-> ports[s].waiting]
<1>1. /\ s \in DOMAIN ports /\ UNCHANGED <<handle, pushVars, spin, pos, count>>
      /\ ports' = IF ports[s].active THEN [ports EXCEPT ![s] = q] ELSE ports
  BY DEF SetInactive, popVars
<1>2. ConsumerOK'
  BY <1>1 DEF Shape, ConsumerOK
<1>3. CASE ~ports[s].active
  BY <1>1, <1>2, <1>3, QuietMoves
<1>4. CASE ports[s].active
  <2>1. q \in Port /\ q.active = FALSE /\ q.buf = <<>>
    <3>1. ports[s] \in Port
      BY <1>1 DEF Shape, PortsOK
    <3>2. ports[s].waiting \in Int
      BY <3>1 DEF Port
    <3>3. QED
      BY <3>2 DEF Port
  <2>2. /\ PortsOK' /\ Len(ports') = Len(ports) /\ s \in Slots
        /\ open' = [open EXCEPT ![s] = FALSE] /\ box' = [box EXCEPT ![s] = <<>>]
    <3> HIDE DEF q
    <3>1. QED
      BY <1>1, <1>4, <2>1, PortChanged DEF Shape
  <2>3. open[s] /\ call' = call
    BY <1>1, <1>4, <2>2, SameCalls DEF open, pushVars
  <2>4. Promise!Close(s)
    BY <2>2, <2>3 DEF Promise!Close
  <2>5. Shape'
    BY <1>1, <1>2, <2>2 DEF Shape, PushesOK, HandlesOK, pushVars
  <2>6. QED
    BY <2>2, <2>4, <2>5 DEF Moves, Promise!PortsNext
<1>5. QED
  BY <1>3, <1>4

LEMMA NotifyPushersMoves ==
    ASSUME Shape, NEW t \in Closers, NotifyPushers(t) PROVE Shape' /\ Moves
<1>1. /\ UNCHANGED <<ports, pushes, parg, handle, spin, pos, count>>
      /\ ppc' = [p \in Pushers |-> IF ppc[p] = "wait" /\ parg[p].slot = carg[t]
                                   THEN "woken" ELSE ppc[p]]
  BY DEF NotifyPushers, popVars
<1>2. Shape'
  BY <1>1 DEF Shape, PortsOK, PushesOK, HandlesOK, ConsumerOK
<1>3. \A p \in Pushers : ppc'[p] \in Busy <=> ppc[p] \in Busy
  BY <1>1 DEF Busy
<1>4. call' = call
  BY <1>1, <1>3, Zenon DEF call, Busy
<1>5. QED
  BY <1>1, <1>2, <1>4, SamePorts DEF Moves

-----------------------------------------------------------------------------
LEMMA PopFoundMoves ==
    ASSUME Shape, PopFound PROVE Shape' /\ Moves
<1> DEFINE s == At
           q == [ports[s] EXCEPT !.buf = Tail(@)]
<1>1. /\ rpc = "scan" /\ count < Len(ports) /\ ports[s].buf # <<>>
      /\ ports' = [ports EXCEPT ![s] = q]
      /\ spin' = (spin + count + 1) % Len(ports)
      /\ UNCHANGED <<handle, pushVars>>
  BY DEF PopFound, closeVars
<1>2. Len(ports) \in Nat \ {0} /\ DOMAIN ports = 1 .. Len(ports) /\ s \in DOMAIN ports
  BY <1>1 DEF Shape, PortsOK, ConsumerOK, At
<1>3. ports[s] \in Port /\ ports[s].buf \in Seq(Pushers \X (1 .. MaxPushes))
  <2>1. ports[s] \in Port
    BY <1>2 DEF Shape, PortsOK
  <2>2. QED
    BY <2>1 DEF Port
<1>4. ports[s].active
  BY <1>1, <1>2 DEF Shape, PortsOK
<1>5. Tail(ports[s].buf) \in Seq(Pushers \X (1 .. MaxPushes))
  BY <1>1, <1>3
<1>6. q \in Port /\ q.active = ports[s].active /\ q.buf = Tail(ports[s].buf)
  <2> DEFINE r == ports[s]
  <2>1. r \in Port /\ Tail(r.buf) \in Seq(Pushers \X (1 .. MaxPushes))
    BY <1>3, <1>5
  <2> HIDE DEF r
  <2>2. /\ [r EXCEPT !.buf = Tail(@)] \in Port
        /\ [r EXCEPT !.buf = Tail(@)].active = r.active
        /\ [r EXCEPT !.buf = Tail(@)].buf = Tail(r.buf)
    BY <2>1 DEF Port
  <2>3. QED
    BY <2>2 DEF r
<1>7. /\ PortsOK' /\ Len(ports') = Len(ports) /\ s \in Slots
      /\ open' = [open EXCEPT ![s] = ports[s].active] /\ box' = [box EXCEPT ![s] = Tail(ports[s].buf)]
  <2> HIDE DEF q, s
  <2>1. q.active
    BY <1>4, <1>6, Zenon
  <2>2. /\ PortsOK' /\ Len(ports') = Len(ports) /\ s \in Slots
        /\ open' = [open EXCEPT ![s] = q.active] /\ box' = [box EXCEPT ![s] = q.buf]
    BY <1>1, <1>2, <1>6, <2>1, PortChanged DEF Shape
  <2>3. QED
    BY <2>2, <1>6, Zenon
<1>8. box[s] = ports[s].buf /\ open[s] = ports[s].active /\ call' = call
  BY <1>1, <1>2, <1>3, <1>7, SameCalls DEF box, open, pushVars, Port
<1>9. open' = open
  BY <1>7, <1>8, Zenon DEF open
<1>10. Promise!Take(s)
  <2> HIDE DEF s
  <2>1. QED
    BY <1>1, <1>7, <1>8, <1>9 DEF Promise!Take
<1>11. spin' \in Nat
  BY <1>1, <1>2 DEF Shape, ConsumerOK
<1>12. pos' \in Nat \ {0} /\ count' \in Nat
  BY <1>2 DEF PopFound, PopReturns, Shape, ConsumerOK
<1>13. Shape'
  BY <1>1, <1>7, <1>11, <1>12 DEF Shape, PushesOK, HandlesOK, ConsumerOK, pushVars
<1>14. QED
  BY <1>7, <1>10, <1>13 DEF Moves, Promise!PortsNext

LEMMA PopNotifyMoves ==
    ASSUME Shape, PopNotify PROVE Shape' /\ Moves
<1>1. /\ UNCHANGED <<ports, pushes, parg, handle>> /\ ConsumerOK'
  BY DEF PopNotify, PopReturns, closeVars, Shape, ConsumerOK
<1>2. CASE UNCHANGED ppc
  BY <1>1, <1>2, QuietMoves DEF pushVars
<1>3. CASE \E p \in Pushers : ppc[p] = "wait" /\ ppc' = [ppc EXCEPT ![p] = "woken"]
  <2>1. PICK p \in Pushers : ppc[p] = "wait" /\ ppc' = [ppc EXCEPT ![p] = "woken"]
    BY <1>3
  <2>2. Shape'
    BY <1>1, <2>1 DEF Shape, PortsOK, PushesOK, HandlesOK
  <2>3. call' = call
    BY <1>1, <2>1, CallGoesOn DEF Shape, Busy
  <2>4. QED
    BY <1>1, <2>2, <2>3, SamePorts DEF Moves
<1>4. QED
  BY <1>2, <1>3 DEF PopNotify

LEMMA ConsumerMoves ==
    ASSUME Shape, Consumer PROVE Shape' /\ Moves
<1>1. At \in Nat \ {0}
  BY DEF At, Shape, ConsumerOK
<1>2. CASE StartScan
  BY <1>2, QuietMoves DEF StartScan, closeVars, Shape, ConsumerOK
<1>3. CASE PopCollides
  BY <1>1, <1>3, QuietMoves DEF PopCollides, Searches, closeVars, Shape, ConsumerOK
<1>4. CASE PopNothing
  BY <1>1, <1>4, QuietMoves DEF PopNothing, Searches, closeVars, Shape, ConsumerOK
<1>5. CASE PopFound
  BY <1>5, PopFoundMoves
<1>6. CASE PopNotify
  BY <1>6, PopNotifyMoves
<1>7. CASE ScanFails
  BY <1>7, QuietMoves DEF ScanFails, closeVars, Shape, ConsumerOK
<1>8. CASE PopStopped
  BY <1>8, QuietMoves DEF PopStopped, Shape, ConsumerOK
<1>9. QED
  BY <1>2, <1>3, <1>4, <1>5, <1>6, <1>7, <1>8 DEF Consumer

LEMMA CloseMoves ==
    ASSUME Shape, NEW t \in Closers, CloseStep(t) PROVE Shape' /\ Moves
<1>1. CASE SetInactive(t)
  BY <1>1, SetInactiveMoves
<1>2. CASE NotifyPushers(t)
  BY <1>2, NotifyPushersMoves
<1>3. CASE Drain(t)
  BY <1>3, LetGoMoves DEF Drain, Drained, popVars
<1>4. CASE StopClosed(t)
  BY <1>4, QuietMoves DEF StopClosed, popVars, Shape, ConsumerOK
<1>5. CASE StopDrained(t)
  BY <1>5, QuietMoves DEF StopDrained, popVars, Shape, ConsumerOK
<1>6. QED
  BY <1>1, <1>2, <1>3, <1>4, <1>5 DEF CloseStep

LEMMA NextMoves == ASSUME Shape, [Next]_vars PROVE Shape' /\ Moves
<1>1. ASSUME NEW p \in Pushers, Push(p) \/ PushStep(p) PROVE Shape' /\ Moves
  <2>1. CASE Push(p)
    BY <2>1, PushMoves
  <2>2. CASE PushLocked(p)
    BY <2>2, TryBufferMoves DEF PushLocked, closeVars, popVars
  <2>3. CASE PushWoken(p)
    BY <2>3, TryBufferMoves DEF PushWoken, closeVars, popVars
  <2>4. CASE PushExit(p)
    BY <2>4, PushExitMoves
  <2>5. QED
    BY <1>1, <2>1, <2>2, <2>3, <2>4 DEF PushStep
<1>2. ASSUME NEW c \in Clients, AddQueue(c) \/ EndHandle(c) \/ ResetHandle(c) PROVE Shape' /\ Moves
  BY <1>2, AddQueueMoves, LetGoSteps
<1>3. ASSUME NEW t \in Stoppers, Stop(t) PROVE Shape' /\ Moves
  BY <1>3, QuietMoves DEF Stop, popVars, Shape, ConsumerOK
<1>4. CASE UNCHANGED vars
  BY <1>4, QuietMoves DEF vars, closeVars, popVars, Shape, ConsumerOK
<1>5. QED
  BY <1>1, <1>2, <1>3, <1>4, CloseMoves, ConsumerMoves DEF Next

LEMMA InitMoves == ASSUME Init PROVE Shape /\ Promise!PortsInit
<1>1. ports = <<>> /\ Len(ports) = 0 /\ DOMAIN ports = {}
  BY DEF Init
<1>2. PortsOK
  BY <1>1, BoundsAssumption DEF PortsOK
<1>3. PushesOK
  BY <1>1, BoundsAssumption DEF Init, PushesOK, NoPush
<1>4. HandlesOK /\ ConsumerOK
  BY <1>1 DEF Init, HandlesOK, ConsumerOK
<1>5. open = [s \in Slots |-> FALSE] /\ box = [s \in Slots |-> <<>>]
  BY <1>1, Zenon DEF open, box
<1>6. call = [p \in Pushers |-> <<>>]
  BY DEF Init, call
<1>7. QED
  BY <1>2, <1>3, <1>4, <1>5, <1>6 DEF Shape, Promise!PortsInit

-----------------------------------------------------------------------------
(***************************************************************************)
(* Whatever the threads, the capacity and the number of ports, the         *)
(* multiqueue is what TaskPorts promises (KeepsPromise): every step of a   *)
(* lock or a condition variable is a step of its ports or none.            *)
(***************************************************************************)
THEOREM Refines == Spec => KeepsPromise
<1>1. Init => Shape /\ Promise!PortsInit
  BY InitMoves
<1>2. Shape /\ [Next]_vars => Shape' /\ Moves
  BY NextMoves
<1>3. Moves => [Promise!PortsNext]_(Promise!portVars)
  BY DEF Moves, Promise!portVars
<1>4. QED
  BY <1>1, <1>2, <1>3, PTL DEF Spec, KeepsPromise, Promise!PortsSpec

-----------------------------------------------------------------------------
\* The threads that nof_waiting counts
Waiters(s) == {p \in Pushers : ppc[p] \in {"wait", "woken"} /\ parg[p].slot = s}

(***************************************************************************)
(* nof_waiting is right in every state, although each thread counts itself *)
(* in and out: only then may a port with none be left behind.              *)
(***************************************************************************)
WaitInv ==
    /\ \A s \in DOMAIN ports : ports[s].waiting = Cardinality(Waiters(s))
    /\ \A p \in Pushers : ppc[p] \in {"wait", "woken"} => parg[p].blocking

\* How a port may change once it is closed and the multiqueue is not running
Calm ==
    /\ DOMAIN ports' = DOMAIN ports
    /\ \A s \in DOMAIN ports :
        ~ports[s].active => ~ports'[s].active /\ (ports[s].waiting = 0 => ports'[s].waiting = 0)

LEMMA WaitersFinite == \A s : IsFiniteSet(Waiters(s)) /\ Cardinality(Waiters(s)) \in Nat
<1>1. ASSUME NEW s PROVE IsFiniteSet(Waiters(s)) /\ Cardinality(Waiters(s)) \in Nat
  <2>1. Waiters(s) \subseteq Pushers
    BY DEF Waiters
  <2>2. IsFiniteSet(Waiters(s))
    BY <2>1, FS_Subset, ThreadsAssumption
  <2>3. QED
    BY <2>2, FS_CardinalityType
<1>2. QED
  BY <1>1

\* A thread that is done with its push waits in no port.
LEMMA PushLeaves ==
    ASSUME PushesOK, NEW p \in Pushers, NEW next \in {"idle", "exit"}, PushEnds(p, next)
    PROVE  /\ \A s : Waiters(s)' = Waiters(s) \ {p}
           /\ \A r \in Pushers : ppc'[r] \in {"wait", "woken"} =>
                  ppc[r] \in {"wait", "woken"} /\ parg'[r] = parg[r]
<1>1. /\ ppc' = [ppc EXCEPT ![p] = next]
      /\ \A r \in Pushers \ {p} : ppc'[r] = ppc[r] /\ parg'[r] = parg[r]
      /\ ppc'[p] = next
  BY DEF PushEnds, PushesOK
<1>2. QED
  BY <1>1 DEF Waiters

\* No waiter comes or goes, and no port that exists counts otherwise.
LEMMA WaitersStay ==
    ASSUME WaitInv, \A s : Waiters(s)' = Waiters(s),
           \A r \in Pushers : ppc'[r] \in {"wait", "woken"} =>
               ppc[r] \in {"wait", "woken"} /\ parg'[r] = parg[r],
           \A s \in DOMAIN ports' : IF s \in DOMAIN ports
                                    THEN ports'[s].waiting = ports[s].waiting
                                    ELSE ports'[s].waiting = 0 /\ Waiters(s) = {}
    PROVE  WaitInv'
<1>1. ASSUME NEW s \in DOMAIN ports' PROVE ports'[s].waiting = Cardinality(Waiters(s))'
  <2>1. CASE s \in DOMAIN ports
    BY <2>1 DEF WaitInv
  <2>2. CASE s \notin DOMAIN ports
    BY <2>2, FS_EmptySet
  <2>3. QED
    BY <2>1, <2>2
<1>2. QED
  BY <1>1 DEF WaitInv

\* push_ with q_mutex held: a thread counts itself in and out.
LEMMA TryBufferWaits ==
    ASSUME Shape, WaitInv, NEW p \in Pushers, NEW was \in {0, 1},
           ppc[p] = IF was = 1 THEN "woken" ELSE "push", TryBuffer(p, was)
    PROVE  WaitInv' /\ Calm
<1> DEFINE s == parg[p].slot
           q == [ports[s] EXCEPT !.waiting = @ - was]
           n == Cardinality(Waiters(s))
<1>1. s \in DOMAIN ports /\ ports[s] \in Port /\ ports \in Seq(Port) /\ PushesOK
  BY DEF Shape, PortsOK, PushesOK
<1>2. /\ q \in Port /\ q.active = ports[s].active /\ q.waiting = ports[s].waiting - was
  <2> DEFINE r == ports[s]
  <2>1. r \in Port /\ r.waiting - was \in Int
    BY <1>1 DEF Port
  <2> HIDE DEF r
  <2>2. /\ [r EXCEPT !.waiting = @ - was] \in Port
        /\ [r EXCEPT !.waiting = @ - was].active = r.active
        /\ [r EXCEPT !.waiting = @ - was].waiting = r.waiting - was
    BY <2>1 DEF Port
  <2>3. QED
    BY <2>2 DEF r
<1>3. /\ ports[s].waiting = n /\ n \in Nat
      /\ p \in Waiters(s) <=> was = 1
      /\ Cardinality(Waiters(s) \ {p}) = n - was
      /\ Cardinality(Waiters(s) \cup {p}) = n - was + 1
      /\ \A r : r # s => p \notin Waiters(r)
      /\ was = 1 => parg[p].blocking
  <2>1. p \in Waiters(s) <=> was = 1
    BY DEF Waiters
  <2>2. IsFiniteSet(Waiters(s)) /\ n \in Nat
    BY WaitersFinite
  <2> DEFINE W == Waiters(s)
  <2>a. /\ Cardinality(W \ {p}) = IF p \in W THEN Cardinality(W) - 1 ELSE Cardinality(W)
        /\ Cardinality(W \cup {p}) = IF p \in W THEN Cardinality(W) ELSE Cardinality(W) + 1
    <3>1. IsFiniteSet(W)
      BY <2>2
    <3> HIDE DEF W
    <3>2. Cardinality(W \ {p}) = IF p \in W THEN Cardinality(W) - 1 ELSE Cardinality(W)
      BY <3>1, FS_RemoveElement, Zenon
    <3>3. Cardinality(W \cup {p}) = IF p \in W THEN Cardinality(W) ELSE Cardinality(W) + 1
      BY <3>1, FS_AddElement, Zenon
    <3>4. QED
      BY <3>2, <3>3
  <2>3. Cardinality(Waiters(s) \ {p}) = n - was
    <3> DEFINE c == Cardinality(W \ {p})
    <3>1. c = IF was = 1 THEN n - 1 ELSE n
      BY <2>1, <2>a
    <3> HIDE DEF c, n
    <3>2. c = n - was
      BY <2>2, <3>1
    <3>3. QED
      BY <3>2 DEF c, n
  <2>4. Cardinality(Waiters(s) \cup {p}) = n - was + 1
    <3> DEFINE c == Cardinality(W \cup {p})
    <3>1. c = IF was = 1 THEN n ELSE n + 1
      BY <2>1, <2>a
    <3> HIDE DEF c, n
    <3>2. c = n - was + 1
      BY <2>2, <3>1
    <3>3. QED
      BY <3>2 DEF c, n
  <2>5. QED
    BY <1>1, <2>1, <2>2, <2>3, <2>4 DEF WaitInv, Waiters
<1>4. ASSUME NEW qq, ports' = [ports EXCEPT ![s] = qq], qq.active = q.active,
             \/ /\ qq.waiting = q.waiting
                /\ \E next \in {"idle", "exit"} : PushEnds(p, next)
             \/ /\ qq.waiting = q.waiting + 1 /\ q.active /\ parg[p].blocking
                /\ ppc' = [ppc EXCEPT ![p] = "wait"] /\ UNCHANGED parg
      PROVE  WaitInv' /\ Calm
  <2>1. /\ DOMAIN ports' = DOMAIN ports /\ ports'[s] = qq
        /\ \A r \in DOMAIN ports : r # s => ports'[r] = ports[r]
    BY <1>1, <1>4
  <2>2. CASE /\ qq.waiting = q.waiting
             /\ \E next \in {"idle", "exit"} : PushEnds(p, next)
    <3>1. /\ \A r : Waiters(r)' = Waiters(r) \ {p}
          /\ \A r \in Pushers : ppc'[r] \in {"wait", "woken"} =>
                 ppc[r] \in {"wait", "woken"} /\ parg'[r] = parg[r]
      BY <1>1, <2>2, PushLeaves
    <3>2. ASSUME NEW r \in DOMAIN ports PROVE ports'[r].waiting = Cardinality(Waiters(r))'
      <4>1. CASE r = s
        BY <1>2, <1>3, <2>1, <2>2, <3>1, <4>1
      <4>2. CASE r # s
        <5>1. Waiters(r)' = Waiters(r)
          BY <1>3, <3>1, <4>2
        <5>2. QED
          BY <2>1, <4>2, <5>1 DEF WaitInv
      <4>3. QED
        BY <4>1, <4>2
    <3>3. WaitInv'
      BY <2>1, <3>1, <3>2 DEF WaitInv
    <3>4. ports[s].waiting = 0 => was = 0
      BY <1>3, WaitersFinite, FS_EmptySet
    <3>5. Calm
      BY <1>2, <1>3, <1>4, <2>1, <2>2, <3>4 DEF Calm
    <3>6. QED
      BY <3>3, <3>5
  <2>3. CASE /\ qq.waiting = q.waiting + 1 /\ q.active /\ parg[p].blocking
             /\ ppc' = [ppc EXCEPT ![p] = "wait"] /\ UNCHANGED parg
    <3>1. \A r \in Pushers : ppc'[r] = IF r = p THEN "wait" ELSE ppc[r]
      BY <1>1, <2>3 DEF PushesOK
    <3>2. ASSUME NEW r PROVE Waiters(r)' = IF r = s THEN Waiters(r) \cup {p} ELSE Waiters(r)
      BY <1>3, <2>3, <3>1 DEF Waiters
    <3>3. ASSUME NEW r \in DOMAIN ports PROVE ports'[r].waiting = Cardinality(Waiters(r))'
      <4>1. CASE r = s
        BY <1>2, <1>3, <2>1, <2>3, <3>2, <4>1
      <4>2. CASE r # s
        BY <2>1, <3>2, <4>2 DEF WaitInv
      <4>3. QED
        BY <4>1, <4>2
    <3>4. WaitInv'
      BY <2>1, <2>3, <3>1, <3>3 DEF WaitInv
    <3>5. Calm
      BY <1>2, <1>4, <2>1, <2>3 DEF Calm
    <3>6. QED
      BY <3>4, <3>5
  <2>4. QED
    BY <1>4, <2>2, <2>3
<1>5. CASE ~q.active
  <2>1. /\ ports' = [ports EXCEPT ![s] = q]
        /\ PushEnds(p, IF parg[p].blocking THEN "exit" ELSE "idle")
    BY <1>5 DEF TryBuffer
  <2>2. \E next \in {"idle", "exit"} : PushEnds(p, next)
    BY <2>1
  <2> HIDE DEF q, s
  <2>3. QED
    BY <1>4, <2>1, <2>2
<1>6. CASE q.active /\ Len(q.buf) < Capacity
  <2> DEFINE qq == [q EXCEPT !.buf = Append(@, <<p, pushes[p]>>)]
  <2>1. ports' = [ports EXCEPT ![s] = qq] /\ PushEnds(p, "idle")
    BY <1>6 DEF TryBuffer
  <2>2. qq.active = q.active /\ qq.waiting = q.waiting
    BY <1>2 DEF Port
  <2> HIDE DEF qq, q, s
  <2>3. QED
    BY <1>4, <2>1, <2>2
<1>7. CASE q.active /\ ~(Len(q.buf) < Capacity) /\ parg[p].blocking
  <2> DEFINE qq == [q EXCEPT !.waiting = @ + 1]
  <2>1. /\ ports' = [ports EXCEPT ![s] = qq]
        /\ ppc' = [ppc EXCEPT ![p] = "wait"] /\ UNCHANGED parg
    BY <1>7 DEF TryBuffer
  <2>2. qq.active = q.active /\ qq.waiting = q.waiting + 1
    BY <1>2 DEF Port
  <2> HIDE DEF qq, q, s
  <2>3. QED
    BY <1>4, <1>7, <2>1, <2>2
<1>8. CASE q.active /\ ~(Len(q.buf) < Capacity) /\ ~parg[p].blocking
  <2>1. ports' = ports /\ PushEnds(p, "idle")
    BY <1>8 DEF TryBuffer
  <2>2. was = 0 /\ q.waiting = ports[s].waiting
    BY <1>1, <1>2, <1>3, <1>8 DEF Port
  <2>3. ports' = [ports EXCEPT ![s] = ports[s]]
    BY <1>1, <2>1
  <2>4. \E next \in {"idle", "exit"} : PushEnds(p, next)
    BY <2>1
  <2> HIDE DEF q
  <2>5. QED
    BY <1>2, <1>4, <2>2, <2>3, <2>4
<1>9. QED
  BY <1>5, <1>6, <1>7, <1>8 DEF TryBuffer

LEMMA WaitRest ==
    ASSUME Shape, WaitInv, UNCHANGED <<ports, ppc, parg>>
    PROVE  WaitInv' /\ Calm
<1>1. \A s : Waiters(s)' = Waiters(s)
  BY DEF Waiters
<1>2. WaitInv'
  BY <1>1 DEF WaitInv
<1>3. QED
  BY <1>2 DEF Calm

LEMMA PushWaits ==
    ASSUME Shape, WaitInv, NEW p \in Pushers, Push(p) \/ PushStep(p)
    PROVE  WaitInv' /\ Calm
<1>1. CASE Push(p)
  <2>1. /\ ports' = ports /\ ppc[p] = "idle"
        /\ \A r \in Pushers : ppc'[r] = IF r = p THEN "push" ELSE ppc[r]
        /\ \A r \in Pushers \ {p} : parg'[r] = parg[r]
    BY <1>1 DEF Push, Shape, PushesOK
  <2>2. \A s : Waiters(s)' = Waiters(s)
    BY <2>1 DEF Waiters
  <2>3. \A r \in Pushers : ppc'[r] \in {"wait", "woken"} =>
            ppc[r] \in {"wait", "woken"} /\ parg'[r] = parg[r]
    BY <2>1
  <2>4. WaitInv'
    BY <2>1, <2>2, <2>3, WaitersStay
  <2>5. QED
    BY <2>1, <2>4 DEF Calm
<1>2. CASE PushLocked(p)
  BY <1>2, TryBufferWaits DEF PushLocked
<1>3. CASE PushWoken(p)
  BY <1>3, TryBufferWaits DEF PushWoken
<1>4. CASE PushExit(p)
  <2>1. ports' = ports /\ ppc[p] = "exit" /\ PushEnds(p, "idle")
    BY <1>4 DEF PushExit
  <2>2. /\ \A s : Waiters(s)' = Waiters(s) \ {p}
        /\ \A r \in Pushers : ppc'[r] \in {"wait", "woken"} =>
               ppc[r] \in {"wait", "woken"} /\ parg'[r] = parg[r]
    BY <2>1, PushLeaves DEF Shape
  <2>3. \A s : Waiters(s)' = Waiters(s)
    BY <2>1, <2>2 DEF Waiters
  <2>4. WaitInv'
    BY <2>1, <2>2, <2>3, WaitersStay
  <2>5. QED
    BY <2>1, <2>4 DEF Calm
<1>5. QED
  BY <1>1, <1>2, <1>3, <1>4 DEF PushStep

LEMMA AddQueueWaits ==
    ASSUME Shape, WaitInv, NEW c \in Clients, AddQueue(c)
    PROVE  WaitInv' /\ (~running => Calm)
<1>1. UNCHANGED <<ppc, parg>>
  BY DEF AddQueue, pushVars
<1>2. \A s : Waiters(s)' = Waiters(s)
  BY <1>1 DEF Waiters
<1>3. CASE ~running
  BY <1>1, <1>3, WaitRest DEF AddQueue
<1>4. CASE running
  <2>1. PICK s \in Slots \cap (1 .. Len(ports) + 1) :
          ports' = IF s > Len(ports) THEN Append(ports, NewPort)
                   ELSE [ports EXCEPT ![s].active = TRUE]
    BY <1>4 DEF AddQueue
  <2>2. ports \in Seq(Port) /\ Len(ports) \in Nat /\ DOMAIN ports = 1 .. Len(ports)
    BY DEF Shape, PortsOK
  <2>3. \A r \in DOMAIN ports' : IF r \in DOMAIN ports
                                 THEN ports'[r].waiting = ports[r].waiting
                                 ELSE ports'[r].waiting = 0 /\ Waiters(r) = {}
    <3>1. CASE s > Len(ports)
      <4>1. ports' = Append(ports, NewPort)
        BY <2>1, <3>1
      <4>2. NewPort \in Port /\ NewPort.waiting = 0
        BY DEF NewPort, Port
      <4>3. /\ DOMAIN ports' = 1 .. Len(ports) + 1 /\ ports'[Len(ports) + 1] = NewPort
            /\ \A r \in DOMAIN ports : ports'[r] = ports[r]
        BY <2>2, <4>1, <4>2, PortAppended
      <4>4. Waiters(Len(ports) + 1) = {}
        BY <2>2 DEF Waiters, Shape, PushesOK
      <4>5. QED
        BY <2>2, <4>2, <4>3, <4>4
    <3>2. CASE ~(s > Len(ports))
      <4>1. ports' = [ports EXCEPT ![s].active = TRUE] /\ s \in DOMAIN ports
        BY <2>1, <2>2, <3>2
      <4>2. [ports[s] EXCEPT !.active = TRUE].waiting = ports[s].waiting
        <5>1. ports[s] \in Port
          BY <2>2, <4>1
        <5> DEFINE q == ports[s]
        <5> HIDE DEF q
        <5>2. [q EXCEPT !.active = TRUE].waiting = q.waiting
          BY <5>1 DEF Port, q
        <5>3. QED
          BY <5>2 DEF q
      <4>3. /\ DOMAIN ports' = DOMAIN ports /\ ports'[s] = [ports[s] EXCEPT !.active = TRUE]
            /\ \A r \in DOMAIN ports : r # s => ports'[r] = ports[r]
        BY <2>2, <4>1
      <4>4. QED
        BY <4>2, <4>3
    <3>3. QED
      BY <3>1, <3>2
  <2>4. \A r \in Pushers : ppc'[r] \in {"wait", "woken"} =>
            ppc[r] \in {"wait", "woken"} /\ parg'[r] = parg[r]
    BY <1>1
  <2>5. WaitInv'
    BY <1>2, <2>3, <2>4, WaitersStay
  <2>6. QED
    BY <1>4, <2>5
<1>5. QED
  BY <1>3, <1>4

\* A port that keeps its count, and is not taken up again
LEMMA PortKeepsWaiters ==
    ASSUME Shape, WaitInv, NEW s \in DOMAIN ports, NEW q,
           ports' = [ports EXCEPT ![s] = q], q.waiting = ports[s].waiting,
           ~ports[s].active => ~q.active, UNCHANGED <<ppc, parg>>
    PROVE  WaitInv' /\ Calm
<1>1. /\ DOMAIN ports' = DOMAIN ports /\ ports'[s] = q
      /\ \A r \in DOMAIN ports : r # s => ports'[r] = ports[r]
  BY DEF Shape, PortsOK
<1>2. \A r : Waiters(r)' = Waiters(r)
  BY DEF Waiters
<1>3. \A r \in DOMAIN ports : ports'[r].waiting = ports[r].waiting
  BY <1>1
<1>4. WaitInv'
  BY <1>1, <1>2, <1>3 DEF WaitInv
<1>5. QED
  BY <1>1, <1>4 DEF Calm

\* notify_all and notify_one: a thread that is woken still counts.
LEMMA WakingWaits ==
    ASSUME Shape, WaitInv, UNCHANGED <<ports, parg>>,
           \A p \in Pushers : ppc'[p] = ppc[p] \/ (ppc[p] = "wait" /\ ppc'[p] = "woken")
    PROVE  WaitInv' /\ Calm
<1>1. \A s : Waiters(s)' = Waiters(s)
  BY DEF Waiters
<1>2. \A r \in Pushers : ppc'[r] \in {"wait", "woken"} =>
          ppc[r] \in {"wait", "woken"} /\ parg'[r] = parg[r]
  OBVIOUS
<1>3. WaitInv'
  BY <1>1, <1>2, WaitersStay
<1>4. QED
  BY <1>3 DEF Calm

LEMMA WaitStep == ASSUME Shape, WaitInv, [Next]_vars PROVE WaitInv' /\ (~running => Calm)
<1>1. ASSUME NEW p \in Pushers, Push(p) \/ PushStep(p) PROVE WaitInv' /\ Calm
  BY <1>1, PushWaits
<1>2. ASSUME NEW c \in Clients, AddQueue(c) PROVE WaitInv' /\ (~running => Calm)
  BY <1>2, AddQueueWaits
<1>3. ASSUME NEW t \in Closers, SetInactive(t) PROVE WaitInv' /\ Calm
  <2> DEFINE s == carg[t]
             q == [buf |-> <<>>, active |-> FALSE, waiting |-> ports[s].waiting]
  <2>1. /\ s \in DOMAIN ports /\ UNCHANGED <<ppc, parg>>
        /\ ports' = IF ports[s].active THEN [ports EXCEPT ![s] = q] ELSE ports
    BY <1>3 DEF SetInactive, pushVars
  <2>2. CASE ports[s].active
    <3>1. q.waiting = ports[s].waiting
      OBVIOUS
    <3> HIDE DEF q, s
    <3>2. QED
      BY <2>1, <2>2, <3>1, PortKeepsWaiters
  <2>3. CASE ~ports[s].active
    BY <2>1, <2>3, WaitRest
  <2>4. QED
    BY <2>2, <2>3
<1>4. ASSUME NEW t \in Closers, NotifyPushers(t) PROVE WaitInv' /\ Calm
  <2>1. /\ UNCHANGED <<ports, parg>>
        /\ \A p \in Pushers : ppc'[p] = ppc[p] \/ (ppc[p] = "wait" /\ ppc'[p] = "woken")
    BY <1>4 DEF NotifyPushers
  <2>2. QED
    BY <2>1, WakingWaits
<1>5. CASE PopFound
  <2> DEFINE s == At
             q == [ports[s] EXCEPT !.buf = Tail(@)]
  <2>1. /\ count < Len(ports) /\ ports' = [ports EXCEPT ![s] = q] /\ UNCHANGED <<ppc, parg>>
    BY <1>5 DEF PopFound, pushVars
  <2>2. s \in DOMAIN ports
    BY <2>1 DEF Shape, PortsOK, ConsumerOK, At
  <2>3. q.waiting = ports[s].waiting /\ q.active = ports[s].active
    <3>1. ports[s] \in Port
      BY <2>2 DEF Shape, PortsOK
    <3> DEFINE r == ports[s]
    <3> HIDE DEF r
    <3>2. [r EXCEPT !.buf = Tail(@)].waiting = r.waiting /\ [r EXCEPT !.buf = Tail(@)].active = r.active
      BY <3>1 DEF Port, r
    <3>3. QED
      BY <3>2 DEF r
  <2> HIDE DEF q, s
  <2>4. QED
    BY <2>1, <2>2, <2>3, PortKeepsWaiters
<1>6. CASE PopNotify
  <2>1. /\ UNCHANGED <<ports, parg>>
        /\ \A p \in Pushers : ppc'[p] = ppc[p] \/ (ppc[p] = "wait" /\ ppc'[p] = "woken")
    BY <1>6 DEF PopNotify, Shape, PushesOK
  <2>2. QED
    BY <2>1, WakingWaits
<1>7. ASSUME \/ \E c \in Clients : EndHandle(c) \/ ResetHandle(c)
             \/ \E t \in Stoppers : Stop(t)
             \/ \E t \in Closers : Drain(t) \/ StopClosed(t) \/ StopDrained(t)
             \/ StartScan \/ PopCollides \/ PopNothing \/ ScanFails \/ PopStopped
             \/ UNCHANGED vars
      PROVE  WaitInv' /\ Calm
  <2>1. UNCHANGED <<ports, ppc, parg>>
    BY <1>7 DEF EndHandle, ResetHandle, Deactivate, Stop, Drain, Drained, StopClosed, StopDrained, StartScan, PopCollides,
                PopNothing, Searches, ScanFails, PopStopped, pushVars, vars
  <2>2. QED
    BY <2>1, WaitRest
<1>8. QED
  BY <1>1, <1>2, <1>3, <1>4, <1>5, <1>6, <1>7 DEF Next, CloseStep, Consumer

-----------------------------------------------------------------------------
ClosersOK ==
    /\ cpc \in [Closers -> {"idle", "close", "notify", "consumer", "drain", "wait", "stopped"}]
    /\ carg \in [Closers -> Nat]

(***************************************************************************)
(* How far stop() has come: the ports before its own are closed, in its    *)
(* second pass all of them are, and those before its own have no waiter;   *)
(* once the consumer has left, it does not come back.                      *)
(***************************************************************************)
StopAt(t) ==
    /\ cpc[t] # "idle" => ~running
    /\ cpc[t] \in {"close", "notify"} =>
           \A s \in DOMAIN ports : s < carg[t] => ~ports[s].active
    /\ cpc[t] = "notify" => carg[t] \in DOMAIN ports /\ ~ports[carg[t]].active
    /\ cpc[t] \in {"consumer", "drain", "wait", "stopped"} =>
           \A s \in DOMAIN ports : ~ports[s].active
    /\ cpc[t] \in {"drain", "wait", "stopped"} => ~consuming
    /\ cpc[t] \in {"drain", "wait"} => \A s \in DOMAIN ports : s < carg[t] => ports[s].waiting = 0
    /\ cpc[t] = "stopped" => \A s \in DOMAIN ports : ports[s].waiting = 0

StopInv == ClosersOK /\ \A t \in Stoppers : StopAt(t)

\* A stopper that does nothing, or is woken from its wait for a port to drain
Rests(t) ==
    carg'[t] = carg[t] /\ (cpc'[t] = cpc[t] \/ (cpc[t] = "wait" /\ cpc'[t] = "drain"))

\* Nothing starts the multiqueue again, and without it the consumer stays out.
LEMMA NeverAgain ==
    ASSUME [Next]_vars, ~running
    PROVE  ~running' /\ (~consuming => ~consuming')
<1>1. ASSUME NEW p \in Pushers, Push(p) \/ PushStep(p) PROVE UNCHANGED <<running, consuming>>
  BY <1>1 DEF Push, PushStep, PushLocked, PushWoken, PushExit, popVars
<1>2. ASSUME NEW c \in Clients, AddQueue(c) \/ EndHandle(c) \/ ResetHandle(c)
      PROVE UNCHANGED <<running, consuming>>
  BY <1>2 DEF AddQueue, EndHandle, ResetHandle, Deactivate, popVars
<1>3. ASSUME NEW t \in Stoppers, Stop(t) PROVE ~running' /\ consuming' = consuming
  BY <1>3 DEF Stop, popVars
<1>4. ASSUME NEW t \in Closers, CloseStep(t) PROVE UNCHANGED <<running, consuming>>
  BY <1>4 DEF CloseStep, SetInactive, NotifyPushers, Drain, StopClosed, StopDrained, popVars
<1>5. CASE Consumer
  BY <1>5 DEF Consumer, StartScan, PopCollides, PopNothing, Searches, PopFound, PopReturns, PopNotify,
              ScanFails, PopStopped
<1>6. CASE UNCHANGED vars
  BY <1>6 DEF vars, popVars
<1>7. QED
  BY <1>1, <1>2, <1>3, <1>4, <1>5, <1>6 DEF Next

LEMMA RestKeepsStop ==
    ASSUME NEW t \in Stoppers, StopAt(t), Rests(t), ~running => Calm,
           ~running => ~running' /\ (~consuming => ~consuming')
    PROVE  StopAt(t)'
<1>1. CASE cpc[t] = "idle"
  BY <1>1 DEF StopAt, Rests
<1>2. CASE cpc[t] # "idle"
  <2>1. Calm /\ ~running' /\ (~consuming => ~consuming')
    BY <1>2 DEF StopAt
  <2>2. /\ DOMAIN ports' = DOMAIN ports
        /\ \A s \in DOMAIN ports :
            ~ports[s].active => ~ports'[s].active /\ (ports[s].waiting = 0 => ports'[s].waiting = 0)
    BY <2>1 DEF Calm
  <2>3. QED
    BY <1>2, <2>1, <2>2 DEF StopAt, Rests
<1>3. QED
  BY <1>1, <1>2

\* What one closer does leaves the others where they are.
LEMMA OthersRest ==
    ASSUME ClosersOK, NEW u \in Closers,
           \E pc \in {"idle", "close", "notify", "consumer", "drain", "wait", "stopped"} :
               cpc' = [cpc EXCEPT ![u] = pc],
           \E n \in Nat : carg' = [carg EXCEPT ![u] = n] \/ carg' = carg
    PROVE  ClosersOK' /\ \A t \in Closers : t # u => Rests(t)
BY DEF ClosersOK, Rests

\* A closer that goes on with the same port, or the next
LEMMA CloseStepRests ==
    ASSUME Shape, ClosersOK, NEW u \in Closers, CloseStep(u)
    PROVE  ClosersOK' /\ \A t \in Closers : t # u => Rests(t)
<1>0. Len(ports) \in Nat /\ DOMAIN ports \subseteq Nat /\ carg[u] \in Nat /\ cpc[u] \in
        {"idle", "close", "notify", "consumer", "drain", "wait", "stopped"}
  BY DEF Shape, PortsOK, ClosersOK
<1>a. cpc = [cpc EXCEPT ![u] = cpc[u]]
  BY DEF ClosersOK
<1>b. carg[u] + 1 \in Nat /\ 0 \in Nat /\ 1 \in Nat
  BY <1>0
<1>1. \E pc \in {"idle", "close", "notify", "consumer", "drain", "wait", "stopped"} :
          cpc' = [cpc EXCEPT ![u] = pc]
  BY <1>0, <1>a DEF CloseStep, SetInactive, NotifyPushers, Drain, Drained, StopClosed, StopDrained
<1>2. \E n \in Nat : carg' = [carg EXCEPT ![u] = n] \/ carg' = carg
  BY <1>b DEF CloseStep, SetInactive, NotifyPushers, Drain, Drained, StopClosed, StopDrained
<1>3. QED
  BY <1>1, <1>2, OthersRest

\* cv_exit.notify_one()
LEMMA NotifyRests ==
    ASSUME ClosersOK, NEW s, NotifyExit(s), UNCHANGED carg
    PROVE  ClosersOK' /\ \A t \in Closers : Rests(t)
BY DEF ClosersOK, Rests, NotifyExit, Draining

(***************************************************************************)
(* The steps of stop() itself: each port closed in turn, then each drained *)
(* in turn.                                                                *)
(***************************************************************************)
LEMMA StopperSteps ==
    ASSUME Shape, WaitInv, ClosersOK, NEW t \in Stoppers, StopAt(t), CloseStep(t)
    PROVE  StopAt(t)'
<1>0. /\ t \in Closers /\ t \notin Clients /\ carg[t] \in Nat
      /\ Len(ports) \in Nat /\ DOMAIN ports = 1 .. Len(ports) /\ ports \in Seq(Port)
  BY ThreadsAssumption DEF Closers, ClosersOK, Shape, PortsOK
<1> DEFINE s == carg[t]
<1>1. CASE SetInactive(t)
  <2>1. /\ cpc[t] = "close" /\ s \in DOMAIN ports /\ running' = running /\ ~running
        /\ cpc' = [cpc EXCEPT ![t] = IF ports[s].active THEN "notify" ELSE "close"]
        /\ carg' = IF ~ports[s].active THEN [carg EXCEPT ![t] = s + 1] ELSE carg
    BY <1>0, <1>1 DEF SetInactive, StopAt
  <2>2. CASE ports[s].active
    <3>1. /\ DOMAIN ports' = DOMAIN ports /\ ~ports'[s].active
          /\ \A r \in DOMAIN ports : r # s => ports'[r] = ports[r]
      BY <1>0, <1>1, <2>1, <2>2 DEF SetInactive
    <3>2. cpc'[t] = "notify" /\ carg'[t] = s
      BY <1>0, <2>1, <2>2 DEF ClosersOK
    <3>3. QED
      BY <1>0, <2>1, <3>1, <3>2 DEF StopAt
  <2>3. CASE ~ports[s].active
    <3>1. ports' = ports
      BY <1>1, <2>3 DEF SetInactive
    <3>2. cpc'[t] = "close" /\ carg'[t] = s + 1
      BY <1>0, <2>1, <2>3 DEF ClosersOK
    <3>3. QED
      BY <1>0, <2>1, <2>3, <3>1, <3>2 DEF StopAt
  <2>4. QED
    BY <2>2, <2>3
<1>2. CASE NotifyPushers(t)
  <2>1. /\ cpc[t] = "notify" /\ cpc'[t] = "close" /\ carg'[t] = s + 1
        /\ ports' = ports /\ running' = running
    BY <1>0, <1>2 DEF NotifyPushers, ClosersOK
  <2>2. QED
    BY <1>0, <2>1 DEF StopAt
<1>3. CASE Drain(t)
  <2>1. /\ cpc[t] = "drain" /\ s \in DOMAIN ports /\ ports' = ports /\ running' = running
        /\ consuming' = consuming
    BY <1>3 DEF Drain, popVars
  <2>2. CASE ports[s].waiting > 0
    <3>1. cpc'[t] = "wait" /\ carg'[t] = s
      BY <1>0, <1>3, <2>2 DEF Drain, ClosersOK
    <3>2. QED
      BY <2>1, <3>1 DEF StopAt
  <2>3. CASE ~(ports[s].waiting > 0)
    <3>1. cpc'[t] = "drain" /\ carg'[t] = s + 1
      BY <1>0, <1>3, <2>3 DEF Drain, Drained, ClosersOK
    <3>2. ports[s].waiting = 0
      <4>1. ports[s].waiting \in Nat
        BY <2>1, WaitersFinite DEF WaitInv
      <4>2. QED
        BY <2>3, <4>1
    <3>3. QED
      BY <1>0, <2>1, <3>1, <3>2 DEF StopAt
  <2>4. QED
    BY <2>2, <2>3
<1>4. CASE StopClosed(t)
  <2>1. /\ cpc[t] = "close" /\ carg[t] > Len(ports) /\ ports' = ports /\ running' = running
        /\ consuming' = consuming
        /\ \/ consuming /\ cpc'[t] = "consumer"
           \/ ~consuming /\ cpc'[t] = "drain" /\ carg'[t] = 1
    BY <1>0, <1>4 DEF StopClosed, popVars, ClosersOK
  <2>2. \A r \in DOMAIN ports : ~ports[r].active
    BY <1>0, <2>1 DEF StopAt
  <2>3. QED
    BY <1>0, <2>1, <2>2 DEF StopAt
<1>5. CASE StopDrained(t)
  <2>1. /\ cpc[t] = "drain" /\ carg[t] > Len(ports) /\ ports' = ports /\ running' = running
        /\ consuming' = consuming /\ cpc'[t] = "stopped"
    BY <1>0, <1>5 DEF StopDrained, popVars, ClosersOK
  <2>2. QED
    BY <1>0, <2>1 DEF StopAt
<1>6. QED
  BY <1>1, <1>2, <1>3, <1>4, <1>5 DEF CloseStep

LEMMA StopStep == ASSUME Shape, WaitInv, StopInv, [Next]_vars PROVE StopInv'
<1>0. /\ ClosersOK /\ Stoppers \subseteq Closers /\ Clients \subseteq Closers
      /\ Clients \cap Stoppers = {}
  BY ThreadsAssumption DEF StopInv, Closers
<1>a. ASSUME ClosersOK', NEW t \in Stoppers, Rests(t) PROVE StopAt(t)'
  BY <1>a, RestKeepsStop, WaitStep, NeverAgain DEF StopInv
<1>1. ASSUME UNCHANGED <<cpc, carg>> PROVE StopInv'
  <2>1. ClosersOK' /\ \A t \in Closers : Rests(t)
    BY <1>0, <1>1 DEF ClosersOK, Rests
  <2>2. QED
    BY <1>0, <1>a, <2>1 DEF StopInv
<1>2. ASSUME NEW p \in Pushers, Push(p) \/ PushStep(p) PROVE StopInv'
  <2>1. CASE PushExit(p)
    <3>1. ClosersOK' /\ \A t \in Closers : Rests(t)
      BY <1>0, <2>1, NotifyRests DEF PushExit
    <3>2. QED
      BY <1>0, <1>a, <3>1 DEF StopInv
  <2>2. CASE Push(p) \/ PushLocked(p) \/ PushWoken(p)
    BY <1>1, <2>2 DEF Push, PushLocked, PushWoken, closeVars
  <2>3. QED
    BY <1>2, <2>1, <2>2 DEF PushStep
<1>3. ASSUME NEW c \in Clients, AddQueue(c) \/ EndHandle(c) \/ ResetHandle(c) PROVE StopInv'
  <2>1. CASE UNCHANGED <<cpc, carg>>
    BY <1>1, <2>1
  <2>2. CASE cpc' = [cpc EXCEPT ![c] = "close"] /\ carg' = [carg EXCEPT ![c] = handle[c]]
    <3>1. handle[c] \in Nat
      BY DEF Shape, HandlesOK, PortsOK
    <3>2. ClosersOK' /\ \A t \in Closers : t # c => Rests(t)
      BY <1>0, <2>2, <3>1, OthersRest
    <3>3. QED
      BY <1>0, <1>a, <3>2 DEF StopInv
  <2>3. QED
    BY <1>3, <2>1, <2>2 DEF AddQueue, EndHandle, ResetHandle, Deactivate
<1>4. ASSUME NEW u \in Stoppers, Stop(u) PROVE StopInv'
  <2>1. /\ cpc' = [cpc EXCEPT ![u] = "close"] /\ carg' = [carg EXCEPT ![u] = 1]
        /\ running' = FALSE /\ ports' = ports
    BY <1>4 DEF Stop
  <2>2. ClosersOK' /\ \A t \in Closers : t # u => Rests(t)
    BY <1>0, <2>1, OthersRest
  <2>3. StopAt(u)'
    <3>1. cpc'[u] = "close" /\ carg'[u] = 1 /\ ~running'
      BY <1>0, <2>1 DEF ClosersOK
    <3>2. \A s \in DOMAIN ports' : ~(s < 1)
      BY <2>1 DEF Shape, PortsOK
    <3>3. QED
      BY <3>1, <3>2 DEF StopAt
  <2>4. QED
    BY <1>0, <1>a, <2>2, <2>3 DEF StopInv
<1>5. ASSUME NEW u \in Closers, CloseStep(u) PROVE StopInv'
  <2>1. ClosersOK' /\ \A t \in Closers : t # u => Rests(t)
    BY <1>0, <1>5, CloseStepRests
  <2>2. u \in Stoppers => StopAt(u)'
    BY <1>0, <1>5, StopperSteps DEF StopInv
  <2>3. QED
    BY <1>0, <1>a, <2>1, <2>2 DEF StopInv
<1>6. CASE PopStopped
  <2>1. /\ ~running /\ ~running' /\ ~consuming' /\ ports' = ports
    BY <1>6 DEF PopStopped
  <2>2. CASE UNCHANGED <<cpc, carg>>
    BY <1>1, <2>2
  <2>3. CASE \E t \in Stoppers : /\ cpc[t] = "consumer"
                                 /\ cpc' = [cpc EXCEPT ![t] = "drain"]
                                 /\ carg' = [carg EXCEPT ![t] = 1]
    <3>1. PICK u \in Stoppers : /\ cpc[u] = "consumer"
                                /\ cpc' = [cpc EXCEPT ![u] = "drain"]
                                /\ carg' = [carg EXCEPT ![u] = 1]
      BY <2>3
    <3>2. ClosersOK' /\ \A t \in Closers : t # u => Rests(t)
      BY <1>0, <3>1, OthersRest
    <3>3. cpc'[u] = "drain" /\ carg'[u] = 1
      BY <1>0, <3>1 DEF ClosersOK
    <3>4. \A s \in DOMAIN ports : ~(s < 1) /\ ~ports[s].active
      BY <3>1 DEF StopInv, StopAt, Shape, PortsOK
    <3>5. StopAt(u)'
      BY <2>1, <3>3, <3>4 DEF StopAt
    <3>6. QED
      BY <1>0, <1>a, <3>2, <3>5 DEF StopInv
  <2>4. QED
    BY <1>6, <2>2, <2>3 DEF PopStopped
<1>7. CASE StartScan \/ PopCollides \/ PopNothing \/ PopFound \/ PopNotify \/ ScanFails \/ UNCHANGED vars
  BY <1>1, <1>7 DEF StartScan, PopCollides, PopNothing, PopFound, PopNotify, ScanFails, closeVars, vars
<1>8. QED
  BY <1>2, <1>3, <1>4, <1>5, <1>6, <1>7 DEF Next, Consumer

LEMMA InitStop == ASSUME Init PROVE WaitInv /\ StopInv
<1>1. DOMAIN ports = {}
  BY DEF Init
<1>2. WaitInv
  BY <1>1 DEF Init, WaitInv
<1>3. StopInv
  BY <1>1 DEF Init, StopInv, StopAt, ClosersOK, Closers
<1>4. QED
  BY <1>2, <1>3

(***************************************************************************)
(* Whatever the threads were at when stop() was called, the consumer is    *)
(* out, every port is closed and empty and no thread waits in one when it  *)
(* returns (StopLeavesNothing).                                            *)
(***************************************************************************)
THEOREM StopIsClean == Spec => []StopLeavesNothing
<1>1. Init => Shape /\ WaitInv /\ StopInv
  BY InitMoves, InitStop
<1>2. Shape /\ WaitInv /\ StopInv /\ [Next]_vars => (Shape /\ WaitInv /\ StopInv)'
  BY NextMoves, WaitStep, StopStep
<1>3. Shape /\ StopInv => StopLeavesNothing
  BY DEF Shape, PortsOK, StopInv, StopAt, StopLeavesNothing
<1>4. QED
  BY <1>1, <1>2, <1>3, PTL DEF Spec
=============================================================================
