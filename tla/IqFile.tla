------------------------------- MODULE IqFile -------------------------------
(***************************************************************************)
(* The I/Q capture of an E2-lite eNB: the PHY's receive thread appends     *)
(* each subframe to a temporary file and, every Period subframes, makes it *)
(* the saved file; the agent answers with the end of the saved file.  The  *)
(* eNB may be killed and restarted at any step.  Files change at each      *)
(* call of the C library that a step stands for; a file once opened for    *)
(* reading is not changed any more, only unlinked.                         *)
(***************************************************************************)
EXTENDS Integers, Sequences, SequencesExt

CONSTANTS
    Period,        \* subframes in a capture (1000)
    SfLen,         \* sf_len: samples of a subframe
    SampleBytes,   \* sizeof(cf_t) (8)
    AnswerSamples, \* samples in an answer (614400 bytes)
    MaxRuns,       \* bound: runs of the eNB
    MaxSubframes   \* bound: subframes of a run

ASSUME PeriodAssumption == Period \in Nat \ {0}
ASSUME SampleAssumption == {SfLen, SampleBytes} \subseteq Nat \ {0} /\ SampleBytes <= SfLen
ASSUME AnswerAssumption == AnswerSamples \in Nat \ {0}
ASSUME BoundAssumption  == {MaxRuns, MaxSubframes} \subseteq Nat \ {0}

VARIABLES
    tmp,      \* the file tmp_path, or Absent
    saved,    \* the file save_path, or Absent
    run,      \* runs of the eNB so far (observed)
    now,      \* subframes received in this run
    counter,  \* iq_counter
    tpc,      \* the receive thread: where it is, "off" while the eNB is not running
    apc,      \* the agent: where it is
    handle,   \* the file the agent has open, or Absent
    answer    \* the agent's last answer, <<>> for zeros

fileVars  == <<tmp, saved>>
agentVars == <<apc, handle, answer>>
vars == <<fileVars, run, now, counter, tpc, agentVars>>

Absent  == [exists |-> FALSE, data |-> <<>>]
File(d) == [exists |-> TRUE, data |-> d]

\* fwrite(buffer, sf_len, 1, f): sf_len bytes of the subframe, not samples
Kept    == SfLen \div SampleBytes
Written == [i \in 1 .. Kept |-> [run |-> run, sf |-> now, pos |-> i]]

Samples == [run : 1 .. MaxRuns, sf : 1 .. MaxSubframes, pos : 1 .. Kept]
Files   == [exists : BOOLEAN, data : Seq(Samples)]

TypeOK ==
    /\ tmp \in Files /\ saved \in Files /\ handle \in Files
    /\ run \in 1 .. MaxRuns /\ now \in 0 .. MaxSubframes
    /\ counter \in 0 .. Period - 1
    /\ tpc \in {"receive", "saved?", "remove", "rename", "create", "write", "off"}
    /\ apc \in {"idle", "read"}
    /\ answer \in Seq(Samples) /\ Len(answer) \in {0, AnswerSamples}
    /\ tmp.exists => Len(tmp.data) <= Period * Kept

\* Either file may be left from an earlier run, but only by a crash of that run.
Init ==
    /\ tmp = Absent /\ saved = Absent
    /\ run = 1 /\ now = 0 /\ counter = 0
    /\ tpc = "receive"
    /\ apc = "idle" /\ handle = Absent /\ answer = <<>>

-----------------------------------------------------------------------------
\* rx_now returns a subframe; at 0 the thread looks for a file to save ...
Receive ==
    /\ tpc = "receive" /\ now < MaxSubframes
    /\ now' = now + 1
    /\ IF counter = 0
       THEN tpc' = (IF tmp.exists THEN "saved?" ELSE "create") /\ UNCHANGED tmp
       ELSE \* ... and otherwise appends to the one it has.
            tpc' = "write" /\ tmp' = IF tmp.exists THEN tmp ELSE File(<<>>)
    /\ UNCHANGED <<saved, run, counter, agentVars>>

\* Mutant: a capture that exists is kept.
LookForSaved_Keeps ==
    /\ tpc = "saved?"
    /\ tpc' = IF saved.exists THEN "create" ELSE "rename"
    /\ UNCHANGED <<fileVars, run, now, counter, agentVars>>

LookForSaved ==
    /\ tpc = "saved?"
    /\ tpc' = IF saved.exists THEN "remove" ELSE "rename"
    /\ UNCHANGED <<fileVars, run, now, counter, agentVars>>

RemoveSaved ==
    /\ tpc = "remove"
    /\ saved' = Absent
    /\ tpc' = "rename"
    /\ UNCHANGED <<tmp, run, now, counter, agentVars>>

RenameTmp ==
    /\ tpc = "rename"
    /\ saved' = tmp /\ tmp' = Absent
    /\ tpc' = "create"
    /\ UNCHANGED <<run, now, counter, agentVars>>

CreateTmp ==
    /\ tpc = "create"
    /\ tmp' = File(<<>>)
    /\ tpc' = "write"
    /\ UNCHANGED <<saved, run, now, counter, agentVars>>

\* Mutant: the counter wraps around one subframe late.
WriteSubframe_Late ==
    /\ tpc = "write"
    /\ tmp' = File(tmp.data \o Written)
    /\ counter' = (counter + 1) % (Period + 1)
    /\ tpc' = "receive"
    /\ UNCHANGED <<saved, run, now, agentVars>>

WriteSubframe ==
    /\ tpc = "write"
    /\ tmp' = File(tmp.data \o Written)
    /\ counter' = (counter + 1) % Period
    /\ tpc' = "receive"
    /\ UNCHANGED <<saved, run, now, agentVars>>

-----------------------------------------------------------------------------
\* The agent opens save_path, and answers with zeros if it cannot.
OpenSaved ==
    /\ apc = "idle" /\ tpc # "off"
    /\ IF saved.exists
       THEN apc' = "read" /\ handle' = saved /\ UNCHANGED answer
       ELSE answer' = <<>> /\ UNCHANGED <<apc, handle>>
    /\ UNCHANGED <<fileVars, run, now, counter, tpc>>

\* The last samples of the file; one that is too short cannot be sought in, and gives zeros.
ReadSaved ==
    /\ apc = "read"
    /\ LET n == Len(handle.data)
       IN  answer' = IF n < AnswerSamples THEN <<>>
                     ELSE SubSeq(handle.data, n - AnswerSamples + 1, n)
    /\ apc' = "idle" /\ handle' = Absent
    /\ UNCHANGED <<fileVars, run, now, counter, tpc>>

-----------------------------------------------------------------------------
\* The eNB ends or is killed; of a subframe it was writing a part may be in the file.
Kill ==
    /\ tpc # "off"
    /\ IF tpc = "write"
       THEN \E n \in 0 .. Len(Written) : tmp' = File(tmp.data \o SubSeq(Written, 1, n))
       ELSE UNCHANGED tmp
    /\ tpc' = "off" /\ apc' = "idle" /\ handle' = Absent /\ answer' = <<>>
    /\ UNCHANGED <<saved, run, now, counter>>

\* Mutant: a new run starts without the rotation.
Restart_Appends ==
    /\ tpc = "off" /\ run < MaxRuns
    /\ run' = run + 1 /\ now' = 0 /\ counter' = 1 % Period
    /\ tpc' = "receive"
    /\ UNCHANGED <<fileVars, agentVars>>

Restart ==
    /\ tpc = "off" /\ run < MaxRuns
    /\ run' = run + 1 /\ now' = 0 /\ counter' = 0
    /\ tpc' = "receive"
    /\ UNCHANGED <<fileVars, agentVars>>

Rotate == LookForSaved \/ RemoveSaved \/ RenameTmp \/ CreateTmp
Next ==
    \/ Receive \/ Rotate \/ WriteSubframe
    \/ OpenSaved \/ ReadSaved
    \/ Kill \/ Restart

Spec == Init /\ [][Next]_vars

-----------------------------------------------------------------------------
\* Samples of one run, from subframes that follow one another
Unbroken(d) ==
    \A i \in 1 .. Len(d) - 1 : d[i].run = d[i + 1].run /\ d[i + 1].sf - d[i].sf \in {0, 1}

(***************************************************************************)
(* An answer comes from one run of the eNB and skips no subframe, however  *)
(* often the eNB was killed while it wrote or rotated the files.           *)
(***************************************************************************)
AnswerFromOneRun == Unbroken(answer)

(***************************************************************************)
(* Once a run has lasted a capture, the agent opens captures of this run   *)
(* only, and the newest subframe in one is no older than a capture lasts.  *)
(***************************************************************************)
CaptureIsRecent ==
    [][apc' = "read" /\ apc = "idle" /\ now > Period + 1 =>
        /\ handle'.data # <<>>
        /\ LET newest == Last(handle'.data)
           IN  newest.run = run /\ now - newest.sf <= Period + 1]_vars

-----------------------------------------------------------------------------
\* What the sources say and the code does not keep: TLC refutes each of these.

(***************************************************************************)
(* txrx.cc:186: "if our buffer exists and is full, rename it".  Then a     *)
(* saved capture has Period subframes.                                     *)
(***************************************************************************)
SavedIsFull == saved.exists => Len(saved.data) = Period * Kept

(***************************************************************************)
(* imi.py:158: "received iq buffer representing 10ms frame".  Then the     *)
(* samples of an answer follow one another on the air.                     *)
(***************************************************************************)
AnswerIsOneFrame ==
    \A i \in 1 .. Len(answer) - 1 :
        LET s == answer[i]  t == answer[i + 1]
        IN  IF s.pos < SfLen THEN t.sf = s.sf /\ t.pos = s.pos + 1 ELSE t.sf = s.sf + 1 /\ t.pos = 1
=============================================================================
