----------------------------- MODULE TaskPorts -----------------------------
(***************************************************************************)
(* What a multiqueue promises its users: ports that are open or closed,    *)
(* each a bounded FIFO.  A push takes effect at one moment between call    *)
(* and return; it may fail to only at a closed port or, if it must not     *)
(* block, at a full one.                                                   *)
(***************************************************************************)
EXTENDS Naturals, Sequences

CONSTANTS
    Slots,     \* ports
    Pushers,   \* threads that push
    Capacity,  \* messages a port holds, at least one
    Msgs

VARIABLES
    open,  \* whether a port is active
    box,   \* what it holds
    call   \* the push each thread has under way: <<slot, message, blocking>>, or <<>>

portVars == <<open, box, call>>

PortsInit ==
    /\ open = [s \in Slots |-> FALSE]
    /\ box = [s \in Slots |-> <<>>]
    /\ call = [p \in Pushers |-> <<>>]

Open(s) ==
    /\ ~open[s] /\ box[s] = <<>>
    /\ open' = [open EXCEPT ![s] = TRUE]
    /\ UNCHANGED <<box, call>>

\* A port that is closed loses what it holds.
Close(s) ==
    /\ open[s]
    /\ open' = [open EXCEPT ![s] = FALSE]
    /\ box' = [box EXCEPT ![s] = <<>>]
    /\ UNCHANGED call

Call(p) ==
    /\ call[p] = <<>>
    /\ \E s \in Slots, m \in Msgs, blocking \in BOOLEAN :
        call' = [call EXCEPT ![p] = <<s, m, blocking>>]
    /\ UNCHANGED <<open, box>>

Accept(p) ==
    /\ call[p] # <<>>
    /\ LET s == call[p][1]
       IN  /\ open[s] /\ Len(box[s]) < Capacity
           /\ box' = [box EXCEPT ![s] = Append(@, call[p][2])]
    /\ call' = [call EXCEPT ![p] = <<>>]
    /\ UNCHANGED open

Refuse(p) ==
    /\ call[p] # <<>>
    /\ LET s == call[p][1]
       IN  ~open[s] \/ (Len(box[s]) >= Capacity /\ ~call[p][3])
    /\ call' = [call EXCEPT ![p] = <<>>]
    /\ UNCHANGED <<open, box>>

Take(s) ==
    /\ box[s] # <<>>
    /\ box' = [box EXCEPT ![s] = Tail(@)]
    /\ UNCHANGED <<open, call>>

PortsNext ==
    \/ \E s \in Slots : Open(s) \/ Close(s) \/ Take(s)
    \/ \E p \in Pushers : Call(p) \/ Accept(p) \/ Refuse(p)

PortsSpec == PortsInit /\ [][PortsNext]_portVars
=============================================================================
