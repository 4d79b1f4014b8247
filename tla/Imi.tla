-------------------------------- MODULE Imi --------------------------------
(***************************************************************************)
(* The intermediary (imi.py): one thread receives the radarxApp's commands *)
(* into the global `command`; one thread per base station sends whatever   *)
(* `command` holds, waits for the answer, stores it in the SDL and starts  *)
(* again.  `command` is read anew at every use: once by send and up to     *)
(* three times by the if / elif that picks the kind of answer to wait for. *)
(***************************************************************************)
EXTENDS DssShared

VARIABLES
    command,     \* the global command
    cpc,         \* where handle_clients stands
    kIdx,        \* k, the index of the next KPM key
    nRecv,       \* I/Q messages received so far
    iqData,      \* what they hold: one capture, or Garbled
    prevIq,      \* prev_iq_data
    asked,       \* kind of the command last sent (observed, read by no guard)
    outOfStep,   \* the branch taken was not that of the command sent (observed)
    flushFailed  \* the last flush failed (observed)

imiVars == <<command, cpc, kIdx, nRecv, iqData, prevIq, asked, outOfStep, flushFailed>>

\* Bytes of two captures, of a KPM message, or of a chunk cut short.
Garbled == [cap |-> -2, det |-> NoDetection]

\* The thread ends on what it cannot read ("dead") or cannot store ("failed").
ClientSteps == {"send", "isK", "isPrb", "isI", "kpm", "flush", "iq", "dead", "failed"}

ImiTypeOK ==
    /\ command \in Commands
    /\ cpc \in ClientSteps
    /\ kIdx \in Indices
    /\ nRecv \in 0 .. Chunks
    /\ iqData \in Captures
    /\ prevIq \in Captures
    /\ asked \in CommandKinds
    /\ outOfStep \in BOOLEAN /\ flushFailed \in BOOLEAN

ImiInit ==
    /\ command = Cmd("k", NoPrb, 0)
    /\ cpc = "send"
    /\ kIdx = 0
    /\ nRecv = 0
    /\ iqData = NoSpec
    /\ prevIq = NoSpec
    /\ asked = "k"
    /\ outOfStep = FALSE /\ flushFailed = FALSE

-----------------------------------------------------------------------------
\* Mutant: the newest command first.
ReceiveCommand_Lifo ==
    /\ toImi # <<>>
    /\ command' = toImi[Len(toImi)]
    /\ toImi' = SubSeq(toImi, 1, Len(toImi) - 1)
    /\ UNCHANGED <<cpc, kIdx, nRecv, iqData, prevIq, asked, outOfStep, flushFailed,
                   toEnb, fromEnb, kpms, newSpec, prbFile, iqFile>>

\* handle_xAppClient: command = connection.recv(8)
ReceiveCommand ==
    /\ toImi # <<>>
    /\ command' = Head(toImi)
    /\ toImi' = Tail(toImi)
    /\ UNCHANGED <<cpc, kIdx, nRecv, iqData, prevIq, asked, outOfStep, flushFailed,
                   toEnb, fromEnb, kpms, newSpec, prbFile, iqFile>>

\* client_soc.send(command)
SendCommand ==
    /\ cpc = "send"
    /\ HasRoom(toEnb)
    /\ toEnb' = Append(toEnb, command)
    /\ asked' = command.kind
    /\ cpc' = "isK"
    /\ UNCHANGED <<command, kIdx, nRecv, iqData, prevIq, outOfStep, flushFailed,
                   toImi, fromEnb, kpms, newSpec, prbFile, iqFile>>

\* One operand of `command == b"k" or len(command) == 8` / `command == b"i"`
Test(here, kind, yes, no) ==
    /\ cpc = here
    /\ cpc' = IF command.kind = kind THEN yes ELSE no
    /\ outOfStep' =
         (outOfStep \/ CASE cpc' = "kpm"  -> asked = "i"
                         [] cpc' = "iq"   -> asked # "i"
                         [] cpc' = "send" -> TRUE
                         [] OTHER         -> FALSE)
    /\ UNCHANGED <<command, kIdx, nRecv, iqData, prevIq, asked, flushFailed, shared>>

ChooseBranch ==
    \/ Test("isK", "k", "kpm", "isPrb")
    \/ Test("isPrb", "prb", "kpm", "isI")
    \/ Test("isI", "i", "iq", "send")

\* Mutant: `k > 100` for `k >= 100`.
ReceiveKpms_FlushLate ==
    /\ cpc = "kpm"
    /\ fromEnb # <<>> /\ Head(fromEnb).kind = "kpm"
    /\ fromEnb' = Tail(fromEnb)
    /\ LET rep == Head(fromEnb).rep
       IN  IF rep.nUes = 0
           THEN cpc' = "send" /\ UNCHANGED <<kpms, kIdx>>
           ELSE /\ kpms' = [k \in Indices \cup {kIdx} |-> IF k = kIdx THEN rep ELSE kpms[k]]
                /\ IF kIdx + 1 > FlushAt
                   THEN cpc' = "flush" /\ UNCHANGED kIdx
                   ELSE cpc' = "send" /\ kIdx' = kIdx + 1
    /\ UNCHANGED <<command, nRecv, iqData, prevIq, asked, outOfStep, flushFailed,
                   toImi, toEnb, newSpec, prbFile, iqFile>>

\* recv(20) and recv(80 * num_ues) take one KPM message; an entry with UEs is
\* stored under kpm_<k>, and the hundredth triggers the flush.  k advances even
\* when the SDL refuses the entry.
ReceiveKpms ==
    /\ cpc = "kpm"
    /\ fromEnb # <<>> /\ Head(fromEnb).kind = "kpm"
    /\ fromEnb' = Tail(fromEnb)
    /\ LET rep == Head(fromEnb).rep
       IN  IF rep.nUes = 0
           THEN cpc' = "send" /\ UNCHANGED <<kpms, kIdx>>
           ELSE /\ \/ kpms' = [kpms EXCEPT ![kIdx] = rep]
                   \/ Faults /\ UNCHANGED kpms
                /\ IF kIdx + 1 >= FlushAt
                   THEN cpc' = "flush" /\ UNCHANGED kIdx
                   ELSE cpc' = "send" /\ kIdx' = kIdx + 1
    /\ UNCHANGED <<command, nRecv, iqData, prevIq, asked, outOfStep, flushFailed,
                   toImi, toEnb, newSpec, prbFile, iqFile>>

\* Mutant: k starts over and the old keys stay.
FlushDatabase_KeepsKeys ==
    /\ cpc = "flush"
    /\ kIdx' = 0
    /\ cpc' = "send"
    /\ UNCHANGED <<command, nRecv, iqData, prevIq, asked, outOfStep, flushFailed, shared>>

\* flush_database(); k = 0
FlushDatabase ==
    /\ cpc = "flush"
    /\ \/ kpms' = [k \in Indices |-> NoReport] /\ flushFailed' = FALSE
       \/ Faults /\ UNCHANGED kpms /\ flushFailed' = TRUE
    /\ kIdx' = 0
    /\ cpc' = "send"
    /\ UNCHANGED <<command, nRecv, iqData, prevIq, asked, outOfStep,
                   toImi, toEnb, fromEnb, newSpec, prbFile, iqFile>>

\* recv(20) meets I/Q data.  The eight bytes unpacked as num_ues make the next
\* recv overflow (caught: continue), ask for no bytes, or raise what nobody
\* catches.  20 bytes are gone; the rest of the message waits for the next recv.
ReceiveIqAsKpms ==
    /\ cpc = "kpm"
    /\ fromEnb # <<>> /\ Head(fromEnb).kind # "kpm"
    /\ \E left \in {<<RestMsg>>, <<>>} :
          /\ left = <<>> => Head(fromEnb).kind = "rest"
          /\ fromEnb' = left \o Tail(fromEnb)
    /\ cpc' \in {"send", "dead"}
    /\ UNCHANGED <<command, kIdx, nRecv, iqData, prevIq, asked, outOfStep, flushFailed,
                   toImi, toEnb, kpms, newSpec, prbFile, iqFile>>

\* recv(10000), once per chunk
ReceiveIq ==
    /\ cpc = "iq" /\ nRecv < Chunks
    /\ fromEnb # <<>>
    /\ fromEnb' = Tail(fromEnb)
    /\ nRecv' = nRecv + 1
    /\ iqData' = LET m == Head(fromEnb)
                 IN  IF m.kind = "iq" /\ (nRecv = 0 \/ iqData = m.iq) THEN m.iq ELSE Garbled
    /\ UNCHANGED <<command, cpc, kIdx, prevIq, asked, outOfStep, flushFailed,
                   toImi, toEnb, kpms, newSpec, prbFile, iqFile>>

\* What iq_handler may make of the buffer: one merely mixed shows the detector anything.
Spectrograms ==
    IF iqData = Garbled THEN {[cap |-> Garbled.cap, det |-> d] : d \in Seen} ELSE {iqData}

\* current_iq_data != prev_iq_data: iq_handler saves the image and stores the new
\* spectrogram.  A buffer cut short is not a multiple of eight bytes and ends the
\* thread, and so does a file or an SDL that fails, after the SDL has stored or not.
StoreSpectrogram ==
    /\ cpc = "iq" /\ nRecv = Chunks
    /\ \/ /\ iqData = prevIq
          /\ cpc' = "send"
          /\ UNCHANGED <<newSpec, prevIq>>
       \/ /\ iqData # prevIq \/ iqData = Garbled
          /\ newSpec' \in Spectrograms
          /\ prevIq' = iqData
          /\ cpc' = "send"
       \/ /\ Faults
          /\ iqData # prevIq \/ iqData = Garbled
          /\ newSpec' \in {newSpec} \cup Spectrograms
          /\ cpc' = "failed"
          /\ UNCHANGED prevIq
       \/ /\ iqData = Garbled
          /\ cpc' = "dead"
          /\ UNCHANGED <<newSpec, prevIq>>
    /\ nRecv' = 0 /\ iqData' = NoSpec
    /\ UNCHANGED <<command, kIdx, asked, outOfStep, flushFailed,
                   toImi, toEnb, fromEnb, kpms, prbFile, iqFile>>

ClientNext ==
    \/ SendCommand \/ ChooseBranch \/ ReceiveKpms \/ FlushDatabase
    \/ ReceiveIqAsKpms \/ ReceiveIq \/ StoreSpectrogram
=============================================================================
