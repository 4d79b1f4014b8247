----------------------------- MODULE RadarXApp -----------------------------
(***************************************************************************)
(* radarxApp (radar.py): one thread that alternates between reading KPMs   *)
(* and reading spectrograms from the SDL, and tells the IMI what to ask    *)
(* the base station for and which PRBs to blank.                           *)
(***************************************************************************)
EXTENDS DssShared

VARIABLES
    mode,        \* current_mode
    xpc,         \* where the loop body stands between two accesses to shared state
    keys,        \* lastn_keys, from find_keys until get
    metrics,     \* the last metrics acted on: the UEs' class and report
    prevSpec,    \* prev_raw_bytes
    interf,      \* interf_res_final
    sends        \* number of commands sent

xappVars == <<mode, xpc, keys, metrics, prevSpec, interf, sends>>

Modes == {"KPMs", "I/Qs"}

Sample == [ue : UeClass, ts : Nat]

XAppTypeOK ==
    /\ mode \in Modes
    /\ xpc \in {"poll", "get", "predict"}
    /\ keys \subseteq Indices
    /\ metrics \in Seq(Sample)
    /\ prevSpec \in Captures
    /\ interf \in Prbs
    /\ sends \in Nat

XAppInit ==
    /\ mode = "KPMs"
    /\ xpc = "poll"
    /\ keys = {}
    /\ metrics = <<>>
    /\ prevSpec = NoSpec
    /\ interf = Unblank
    /\ sends = 0

-----------------------------------------------------------------------------
\* sorted_keys[-2:]
LastTwo(S) == {k \in S : Cardinality({j \in S : j > k}) < 2}

\* curr_extracted_metrics: one sample per UE that is not all-zero, over the
\* entries still present, in key order.
ActiveUes(e) == [i \in 1 .. Len(e.busy) |-> [ue |-> e.busy[i], ts |-> e.ts]]

Extracted(ks) ==
    LET Part(S) == IF S = {} THEN <<>> ELSE ActiveUes(kpms[CHOOSE k \in S : TRUE])
        older   == {k \in ks : \E j \in ks : j > k}
    IN  Part(older) \o Part(ks \ older)

\* metrics[2] >= 5 or metrics[7] >= 5; this comparison overrides the classifier
RadarLikely(ms) == \E i \in DOMAIN ms : ms[i].ue = "high"

\* interf_res_final[0] > 0 and [1] > [0] and both < 50
WithinCarrier(p) == p[1] > 0 /\ p[2] > p[1] /\ p[1] < NumPrb /\ p[2] < NumPrb

\* What goes out when no radar is seen: the last ranges again while the block
\* error rate is still high, the unblanking pair otherwise.
RetainOrUnblank(ms) == IF RadarLikely(ms) THEN interf ELSE Unblank

\* One or two conn.send calls in a row.
SendToImi(kinds, prb) ==
    /\ sends + Len(kinds) <= MaxRequests
    /\ Len(toImi) + Len(kinds) <= ChanCap
    /\ toImi' = toImi \o
         [i \in 1 .. Len(kinds) |->
            Cmd(kinds[i], IF kinds[i] = "prb" THEN prb ELSE NoPrb, sends + i)]
    /\ sends' = sends + Len(kinds)

-----------------------------------------------------------------------------
\* sdl2.find_keys(ns2, "kpm_*")
FindKeys ==
    /\ mode = "KPMs" /\ xpc = "poll"
    /\ keys' = LastTwo(Stored)
    /\ xpc' = "get"
    /\ UNCHANGED <<mode, metrics, prevSpec, interf, sends, shared>>

\* sdl2.get: two active samples, different from the last ones, are acted on
Usable(ms) == Len(ms) = 2 /\ ms # metrics

GetNothingNew ==
    /\ mode = "KPMs" /\ xpc = "get"
    /\ ~Usable(Extracted(keys))
    /\ keys' = {} /\ xpc' = "poll"
    /\ UNCHANGED <<mode, metrics, prevSpec, interf, sends, shared>>

\* `except Exception` goes on with the loop, whether the SDL failed or the
\* classifier, which runs when prev_extracted_metrics has been assigned.
KpmBranchFails ==
    /\ Faults
    /\ mode = "KPMs" /\ xpc = "get"
    /\ metrics' \in {metrics} \cup {ms \in {Extracted(keys)} : Usable(ms)}
    /\ keys' = {} /\ xpc' = "poll"
    /\ UNCHANGED <<mode, prevSpec, interf, sends, shared>>

NoRadarInKpms ==
    /\ mode = "KPMs" /\ xpc = "get"
    /\ LET ms == Extracted(keys)
       IN  /\ Usable(ms) /\ ~RadarLikely(ms)
           /\ SendToImi(<<"prb">>, RetainOrUnblank(ms))
           /\ metrics' = ms
    /\ keys' = {} /\ xpc' = "poll"
    /\ UNCHANGED <<mode, prevSpec, interf,
                   toEnb, fromEnb, kpms, newSpec, prbFile, iqFile>>

\* Mutant: the metrics that raise the alarm are not kept.
RadarInKpms_Forgets ==
    /\ mode = "KPMs" /\ xpc = "get"
    /\ Usable(Extracted(keys)) /\ RadarLikely(Extracted(keys))
    /\ SendToImi(<<"i">>, NoPrb)
    /\ mode' = "I/Qs"
    /\ keys' = {} /\ xpc' = "poll"
    /\ UNCHANGED <<metrics, prevSpec, interf, toEnb, fromEnb, kpms, newSpec, prbFile, iqFile>>

RadarInKpms ==
    /\ mode = "KPMs" /\ xpc = "get"
    /\ LET ms == Extracted(keys)
       IN  /\ Usable(ms) /\ RadarLikely(ms)
           /\ SendToImi(<<"i">>, NoPrb)
           /\ metrics' = ms
    /\ mode' = "I/Qs"
    /\ keys' = {} /\ xpc' = "poll"
    /\ UNCHANGED <<prevSpec, interf, toEnb, fromEnb, kpms, newSpec, prbFile, iqFile>>

\* get_bytes(): a spectrogram different from the last one goes to the detector
GetSpectrogram ==
    /\ mode = "I/Qs" /\ xpc = "poll"
    /\ newSpec # prevSpec
    /\ prevSpec' = newSpec
    /\ xpc' = "predict"
    /\ UNCHANGED <<mode, keys, metrics, interf, sends, shared>>

\* Mutant: the detection is sent and current_mode left as it is.
DetectionUsable_StaysInIq ==
    /\ xpc = "predict" /\ prevSpec.det # NoDetection
    /\ WithinCarrier(prevSpec.det)
    /\ interf' = prevSpec.det
    /\ SendToImi(<<"prb">>, prevSpec.det)
    /\ xpc' = "poll"
    /\ UNCHANGED <<mode, keys, metrics, prevSpec,
                   toEnb, fromEnb, kpms, newSpec, prbFile, iqFile>>

\* interf_res_final is assigned before the range is checked
DetectionUsable ==
    /\ xpc = "predict" /\ prevSpec.det # NoDetection
    /\ WithinCarrier(prevSpec.det)
    /\ interf' = prevSpec.det
    /\ SendToImi(<<"prb">>, prevSpec.det)
    /\ mode' = "KPMs" /\ xpc' = "poll"
    /\ UNCHANGED <<keys, metrics, prevSpec, toEnb, fromEnb, kpms, newSpec, prbFile, iqFile>>

DetectionOutOfCarrier ==
    /\ xpc = "predict" /\ prevSpec.det # NoDetection
    /\ ~WithinCarrier(prevSpec.det)
    /\ interf' = prevSpec.det
    /\ xpc' = "poll"
    /\ UNCHANGED <<mode, keys, metrics, prevSpec, sends, shared>>

\* the PRBs, then b'k'
NoDetectionMade ==
    /\ xpc = "predict" /\ prevSpec.det = NoDetection
    /\ SendToImi(<<"prb", "k">>, RetainOrUnblank(metrics))
    /\ mode' = "KPMs" /\ xpc' = "poll"
    /\ UNCHANGED <<keys, metrics, prevSpec, interf,
                   toEnb, fromEnb, kpms, newSpec, prbFile, iqFile>>

XAppNext ==
    \/ FindKeys \/ GetNothingNew \/ KpmBranchFails \/ NoRadarInKpms \/ RadarInKpms
    \/ GetSpectrogram \/ DetectionUsable \/ DetectionOutOfCarrier \/ NoDetectionMade
=============================================================================
