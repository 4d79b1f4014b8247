---------------------------- MODULE E2LiteAgent ----------------------------
(***************************************************************************)
(* The base station's end of E2-lite: the agent thread runs                *)
(* agent::handle_message on one message after the other; the PHY thread    *)
(* replaces the I/Q file it reads, and the MAC scheduler reads the PRB     *)
(* file it writes.                                                         *)
(***************************************************************************)
EXTENDS DssShared

VARIABLES
    apc,         \* where handle_message stands
    amsg,        \* the command being handled
    abuf,        \* iq_buffer
    nSent,       \* chunks sent so far
    lastTs,      \* timestamp of the last KPM report
    nCaptures,   \* captures the PHY has completed
    fileError    \* a command file could not be opened or written (observed)

enbVars == <<apc, amsg, abuf, nSent, lastTs, nCaptures, fileError>>

E2LiteTypeOK ==
    /\ apc \in {"idle", "write", "kpm", "read", "iq"}
    /\ amsg \in Commands
    /\ abuf \in Captures
    /\ nSent \in 0 .. Chunks - 1
    /\ lastTs \in Nat
    /\ nCaptures \in Nat
    /\ fileError \in BOOLEAN

E2LiteInit ==
    /\ apc = "idle"
    /\ amsg = Cmd("k", NoPrb, 0)
    /\ abuf = NoCapture
    /\ nSent = 0
    /\ lastTs = 0
    /\ nCaptures = 1
    /\ fileError = FALSE

-----------------------------------------------------------------------------
\* Mutant: the greeting is answered like any other message.
RefuseMessage_Answers ==
    /\ apc = "idle"
    /\ toEnb # <<>> /\ Head(toEnb).kind = "hello"
    /\ toEnb' = Tail(toEnb)
    /\ apc' = "kpm"
    /\ UNCHANGED <<amsg, abuf, nSent, lastTs, nCaptures, fileError,
                   toImi, fromEnb, kpms, newSpec, prbFile, iqFile>>

\* A message of one byte goes to agent_command_path, which nothing reads back,
\* one of eight bytes to agent_prb_path; any other size is refused, unanswered.
RefuseMessage ==
    /\ apc = "idle"
    /\ toEnb # <<>> /\ Head(toEnb).kind = "hello"
    /\ toEnb' = Tail(toEnb)
    /\ UNCHANGED <<apc, amsg, abuf, nSent, lastTs, nCaptures, fileError,
                   toImi, fromEnb, kpms, newSpec, prbFile, iqFile>>

OpenFails ==
    /\ apc = "idle"
    /\ toEnb # <<>> /\ Head(toEnb).kind # "hello"
    /\ toEnb' = Tail(toEnb)
    /\ fileError' = TRUE
    /\ UNCHANGED <<apc, amsg, abuf, nSent, lastTs, nCaptures,
                   toImi, fromEnb, kpms, newSpec, prbFile, iqFile>>

HandleOneByte ==
    /\ apc = "idle"
    /\ toEnb # <<>> /\ Head(toEnb).kind \in SizeOne
    /\ toEnb' = Tail(toEnb)
    /\ amsg' = Head(toEnb)
    /\ apc' = IF Head(toEnb).kind = "k" THEN "kpm" ELSE "read"
    /\ UNCHANGED <<abuf, nSent, lastTs, nCaptures, fileError,
                   toImi, fromEnb, kpms, newSpec, prbFile, iqFile>>

\* Mutant: the pair that was there first is written again.
OpenPrbFile_KeepsFirst ==
    /\ apc = "idle"
    /\ toEnb # <<>> /\ Head(toEnb).kind = "prb"
    /\ toEnb' = Tail(toEnb)
    /\ amsg' = IF amsg.kind = "prb" THEN amsg ELSE Head(toEnb)
    /\ prbFile' = NoFile
    /\ apc' = "write"
    /\ UNCHANGED <<abuf, nSent, lastTs, nCaptures, fileError,
                   toImi, fromEnb, kpms, newSpec, iqFile>>

\* fopen(agent_prb_path, "wb") empties the file ...
OpenPrbFile ==
    /\ apc = "idle"
    /\ toEnb # <<>> /\ Head(toEnb).kind = "prb"
    /\ toEnb' = Tail(toEnb)
    /\ amsg' = Head(toEnb)
    /\ prbFile' = NoFile
    /\ apc' = "write"
    /\ UNCHANGED <<abuf, nSent, lastTs, nCaptures, fileError,
                   toImi, fromEnb, kpms, newSpec, iqFile>>

\* ... and fwrite, fclose fill it.
WritePrbFile ==
    /\ apc = "write"
    /\ prbFile' = [prb |-> amsg.prb, n |-> amsg.n]
    /\ apc' = "kpm"
    /\ UNCHANGED <<amsg, abuf, nSent, lastTs, nCaptures, fileError,
                   toImi, toEnb, fromEnb, kpms, newSpec, iqFile>>

\* fwrite comes up short: nothing is answered, and the file stays without a pair.
WriteFails ==
    /\ apc = "write"
    /\ fileError' = TRUE
    /\ apc' = "idle"
    /\ UNCHANGED <<amsg, abuf, nSent, lastTs, nCaptures, shared>>

\* fill_class_metrics: one message with the header and every UE
SendKpms ==
    /\ apc = "kpm"
    /\ HasRoom(fromEnb)
    /\ lastTs' = IF lastTs < MaxReports THEN lastTs + 1 ELSE lastTs
    /\ \E r \in Reports :
          /\ lastTs = MaxReports => r.nUes = 0
          /\ fromEnb' = Append(fromEnb, KpmMsg(Entry(lastTs', r)))
    /\ apc' = "idle"
    /\ UNCHANGED <<amsg, abuf, nSent, nCaptures, fileError,
                   toImi, toEnb, kpms, newSpec, prbFile, iqFile>>

\* The last 614400 bytes of save_path, or zeros when it cannot be opened or is
\* short, as it may be while the PHY replaces it
ReadIqFile ==
    /\ apc = "read"
    /\ abuf' \in {iqFile, NoCapture}
    /\ nSent' = 0
    /\ apc' = "iq"
    /\ UNCHANGED <<amsg, lastTs, nCaptures, fileError, shared>>

SendIqChunk ==
    /\ apc = "iq"
    /\ HasRoom(fromEnb)
    /\ fromEnb' = Append(fromEnb, IqMsg(abuf))
    /\ IF nSent + 1 < Chunks
       THEN nSent' = nSent + 1 /\ UNCHANGED <<apc, abuf>>
       ELSE nSent' = 0 /\ apc' = "idle" /\ abuf' = NoCapture
    /\ UNCHANGED <<amsg, lastTs, nCaptures, fileError,
                   toImi, toEnb, kpms, newSpec, prbFile, iqFile>>

AgentNext ==
    \/ RefuseMessage \/ OpenFails \/ HandleOneByte \/ OpenPrbFile
    \/ WritePrbFile \/ WriteFails \/ SendKpms \/ ReadIqFile \/ SendIqChunk

-----------------------------------------------------------------------------
\* The PHY's next capture replaces the last one.
NewCapture ==
    /\ nCaptures < MaxCaptures
    /\ nCaptures' = nCaptures + 1
    /\ \E d \in Seen : iqFile' = [cap |-> nCaptures', det |-> d]
    /\ UNCHANGED <<apc, amsg, abuf, nSent, lastTs, fileError,
                   toImi, toEnb, fromEnb, kpms, newSpec, prbFile>>
=============================================================================
