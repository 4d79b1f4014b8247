----------------------------- MODULE DssShared -----------------------------
(***************************************************************************)
(* What the four processes of an O-DSS deployment share:                   *)
(*   - radarxApp -> IMI        one SCTP association, port 5002             *)
(*   - IMI <-> eNB (E2-lite)   one SCTP association, port 5000             *)
(*   - the SDL (redis) written by the IMI and read by the radarxApp        *)
(*   - the PRB file and the I/Q file, written and read inside the eNB      *)
(* The component modules RadarXApp, Imi and E2LiteAgent extend this one;   *)
(* SpectrumLoop composes them.                                             *)
(***************************************************************************)
EXTENDS Integers, Sequences, FiniteSets

CONSTANTS
    Detections,   \* PRB pairs <<lo, hi>> get_affected_prbs may return
    Reports,      \* what a KPM reply may report of the UEs
    FlushAt,      \* KPM index at which the IMI empties the Kpms namespace (100)
    Chunks,       \* SCTP messages one I/Q reply is cut into (62)
    Faults,       \* whether the SDL, the image files and the classifier may fail
    ChanCap,      \* messages a direction of an association holds before send blocks
    MaxReports,   \* bound: the KPM timestamp saturates here
    MaxCaptures,  \* bound: I/Q captures completed by the PHY
    MaxRequests   \* bound: commands the radarxApp sends

NumPrb == 50

\* A reported UE is idle when its rx_bitrate, rx_block_error_rate and ul_buffer
\* are all zero; of a busy one it matters whether rx_block_error_rate is under
\* 5 ("low") or not ("high").  A report gives the number of UEs and the busy ones.
UeClass   == {"low", "high"}
Reported  == [nUes : Nat, busy : Seq(UeClass)]

ASSUME DetectionsAssumption == Detections \subseteq Int \X Int
ASSUME ReportsAssumption    == Reports \subseteq Reported
ASSUME FlushAssumption      == FlushAt \in Nat \ {0}
ASSUME ChunksAssumption     == Chunks \in Nat \ {0}
ASSUME FaultsAssumption     == Faults \in BOOLEAN
ASSUME CapAssumption        == ChanCap \in Nat \ {0}
ASSUME BoundsAssumption     == MaxReports \in Nat /\ MaxCaptures \in Nat /\ MaxRequests \in Nat

VARIABLES
    toImi,       \* commands in flight from the radarxApp to the IMI
    toEnb,       \* commands in flight from the IMI to the eNB agent
    fromEnb,     \* replies in flight from the eNB agent to the IMI
    kpms,        \* SDL namespace Kpms: index of the key kpm_<index> -> entry, or NoReport
    newSpec,     \* SDL namespace Spectrograms, key new_spec
    prbFile,     \* contents of agent_prb_path
    iqFile       \* the capture in save_path, NoCapture when the file is missing

shared == <<toImi, toEnb, fromEnb, kpms, newSpec, prbFile, iqFile>>

(***************************************************************************)
(* Commands: b'k', b'i', eight bytes holding two ints, and the greeting    *)
(* the IMI sends when it accepts the eNB.  n numbers the radarxApp's       *)
(* sends; it is carried to observe order and is read by no guard.          *)
(***************************************************************************)
Unblank == <<0, 0>>
NoPrb   == <<>>
Prbs    == Detections \cup {Unblank}

Cmd(kind, prb, n) == [kind |-> kind, prb |-> prb, n |-> n]
Greeting          == Cmd("hello", NoPrb, 0)
SizeOne           == {"k", "i"}

CommandKinds == {"k", "i", "prb"}
Commands     == [kind : CommandKinds, prb : Prbs \cup {NoPrb}, n : Nat]

(***************************************************************************)
(* What the detector sees in a capture: a PRB pair, or nothing.  Capture   *)
(* 0 is the all-zero buffer the agent sends when the file cannot be read.  *)
(***************************************************************************)
NoDetection == <<>>
Seen        == Detections \cup {NoDetection}
Captures    == [cap : Int, det : Seen]
NoCapture   == [cap |-> 0, det |-> NoDetection]
NoSpec      == [cap |-> -1, det |-> NoDetection]   \* no key, or Python's None

\* Replies of the agent: one KPM message, or the chunks of an I/Q buffer.
\* "rest" is an I/Q chunk of which a 20-byte read has taken the front.
Entry(ts, r) == [ts |-> ts, nUes |-> r.nUes, busy |-> r.busy]
NoReport     == [ts |-> 0, nUes |-> 0, busy |-> <<>>]
KpmMsg(r) == [kind |-> "kpm", rep |-> r, iq |-> NoCapture]
IqMsg(c)  == [kind |-> "iq", rep |-> NoReport, iq |-> c]
RestMsg   == [kind |-> "rest", rep |-> NoReport, iq |-> NoCapture]
Entries   == [ts : Nat, nUes : Nat, busy : Seq(UeClass)]
Replies    == [kind : {"kpm", "iq", "rest"}, rep : Entries, iq : Captures]

\* The empty PRB file: missing, or truncated by fopen("wb") and not yet written.
NoFile == [prb |-> NoPrb, n |-> 0]

Indices     == 0 .. FlushAt - 1
Stored      == {k \in Indices : kpms[k] # NoReport}

HasRoom(ch) == Len(ch) < ChanCap

SharedTypeOK ==
    /\ toImi \in Seq(Commands)
    /\ toEnb \in Seq(Commands \cup {Greeting})
    /\ fromEnb \in Seq(Replies)
    /\ kpms \in [Indices -> Entries]
    /\ newSpec \in Captures
    /\ prbFile \in [prb : Prbs \cup {NoPrb}, n : Nat]
    /\ iqFile \in Captures

\* Redis outlives the processes: keys of an earlier run (timestamp 0 here) may
\* still be at the end of the index range, and so may its last spectrogram.
Leftover    == [ts |-> 0, nUes |-> 1, busy |-> <<"low">>]
InitialKpms ==
    {[k \in Indices |-> IF k >= first THEN Leftover ELSE NoReport] :
        first \in {FlushAt, FlushAt - 2}}

SharedInit ==
    /\ toImi = <<>>
    /\ toEnb = <<Greeting>>
    /\ fromEnb = <<>>
    /\ kpms \in InitialKpms
    /\ newSpec \in {NoSpec} \cup {[cap |-> 1, det |-> d] : d \in Seen}
    /\ prbFile = NoFile
    /\ iqFile = NoCapture
=============================================================================
