---------------------------- MODULE SpectrumLoop ----------------------------
(***************************************************************************)
(* The spectrum-sharing control loop: radarxApp, IMI and base station      *)
(* joined by their associations, the SDL and the files.                    *)
(***************************************************************************)
EXTENDS RadarXApp, Imi, E2LiteAgent

vars == <<xappVars, imiVars, enbVars, shared>>

Init == XAppInit /\ ImiInit /\ E2LiteInit /\ SharedInit

XAppStep    == XAppNext /\ UNCHANGED <<imiVars, enbVars>>
ListenStep  == ReceiveCommand /\ UNCHANGED <<xappVars, enbVars>>
ClientStep  == ClientNext /\ UNCHANGED <<xappVars, enbVars>>
AgentStep   == AgentNext /\ UNCHANGED <<xappVars, imiVars>>

PhyStep     == NewCapture /\ UNCHANGED <<xappVars, imiVars>>

Next == XAppStep \/ ListenStep \/ ClientStep \/ AgentStep \/ PhyStep

(***************************************************************************)
(* Each process is a loop of its own that nothing but its blocking calls   *)
(* stops, hence weak fairness of each thread: the radarxApp, the two IMI   *)
(* threads and the agent thread.  The PHY's captures are the               *)
(* environment's and get none.                                             *)
(***************************************************************************)
Fairness ==
    /\ WF_vars(XAppStep)
    /\ WF_vars(ListenStep)
    /\ WF_vars(ClientStep)
    /\ WF_vars(AgentStep)

Spec == Init /\ [][Next]_vars /\ Fairness

-----------------------------------------------------------------------------
\* Types of every component's state.
TypeOK == SharedTypeOK /\ XAppTypeOK /\ ImiTypeOK /\ E2LiteTypeOK

(***************************************************************************)
(* The radarxApp waits for spectrograms exactly while the command that     *)
(* will hold in the IMI once everything sent has arrived is b'i'.  If the  *)
(* two parted, the radarxApp would wait for ever for data nobody asks for: *)
(* current_mode in radar.py, command in imi.py.                            *)
(***************************************************************************)
LastCommand == IF toImi = <<>> THEN command ELSE toImi[Len(toImi)]
ModeMatchesCommand == mode = "I/Qs" <=> LastCommand.kind = "i"

(***************************************************************************)
(* While every branch handle_clients took was that of the command it had   *)
(* sent, what it reads is the answer it waits for: KPM reads meet KPM      *)
(* messages only, an I/Q buffer is one capture, and no answer read ends    *)
(* the thread (a spectrogram that cannot be stored does, in "failed").     *)
(* The lock step of send and recv with agent::handle_message, in which the *)
(* unanswered greeting and the 62 chunks of a buffer have their part.      *)
(***************************************************************************)
AnswersMatchQuestions ==
    ~outOfStep =>
        /\ cpc = "kpm" => \A i \in DOMAIN fromEnb : fromEnb[i].kind = "kpm"
        /\ cpc \in {"send", "flush"} => fromEnb = <<>> /\ apc = "idle"
        /\ iqData # Garbled
        /\ cpc # "dead"

(***************************************************************************)
(* The agent never turns to a command older than one it has handled: a     *)
(* stale PRB pair never replaces a newer one in the PRB file, although the *)
(* IMI repeats commands and overwrites them.                               *)
(***************************************************************************)
NoOlderCommandHandled == [][amsg'.n >= amsg.n]_vars

(***************************************************************************)
(* When find_keys picks the two highest indices they are the two newest    *)
(* reports, in spite of the index starting over after each flush and of    *)
(* entries the SDL refused.  (Keys left by an earlier run, or by a flush   *)
(* that failed, are excluded: see the hazards.)                            *)
(***************************************************************************)
NoLeftovers == ~flushFailed /\ \A k \in Stored : kpms[k].ts > 0
KeysAreNewest ==
    [][xpc = "poll" /\ xpc' = "get" /\ NoLeftovers =>
         \A k \in keys', j \in Stored \ keys' : kpms[j].ts < kpms[k].ts]_vars

(***************************************************************************)
(* In I/Qs mode the metrics that raised the alarm are still the last ones, *)
(* so a missed detection never unblanks: it repeats the last range.        *)
(***************************************************************************)
AlarmHeldInIqMode == mode = "I/Qs" => RadarLikely(metrics)

(***************************************************************************)
(* If the command in the IMI ends up being a PRB pair, the PRB file holds  *)
(* that pair again and again, and no older one for good, unless the IMI    *)
(* went out of step, a command file of the base station could not be       *)
(* written or the IMI's thread ended over a spectrogram it could not       *)
(* store: sent in a loop, a request is not lost.                           *)
(***************************************************************************)
StandingRequestApplied ==
    \A p \in Prbs :
        <>[](command.kind = "prb" /\ command.prb = p /\ ~outOfStep /\ ~fileError /\ cpc # "failed")
            => []<>(prbFile.prb = p)

(***************************************************************************)
(* What radar.py says of the PRBs it sends: a range goes out after the     *)
(* check 0 < lo < hi < 50, and what is repeated when no detection is made  *)
(* are the "previous blanked PRBs".  Either way a pair sent is the         *)
(* unblanking pair or passes the check.                                    *)
(***************************************************************************)
BlankRequestsChecked ==
    \A i \in DOMAIN toImi :
        toImi[i].kind = "prb" => toImi[i].prb = Unblank \/ WithinCarrier(toImi[i].prb)
=============================================================================
