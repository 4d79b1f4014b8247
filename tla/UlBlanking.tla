----------------------------- MODULE UlBlanking -----------------------------
(***************************************************************************)
(* The eNB's uplink scheduling around the range of PRBs O-DSS blanks: the  *)
(* agent rewriting the PRB file, the subframes of one HARQ process of each *)
(* connected UE (every eighth subframe, all even or all odd), the grid, and *)
(* the UE's side of each process (srsue).  Of a UE that is still to connect *)
(* only the Msg3 is there, as PRBs taken.  Left out: measurement gaps (off  *)
(* unless rr.conf sets them), carrier aggregation, full lists of PHICHs or  *)
(* grants, grants of no data, and losses on PDCCH and PHICH.                *)
(***************************************************************************)
EXTENDS UlGrid

CONSTANTS
    Ues,
    PucchNrb,   \* PRBs at either edge kept for PUCCH
    PrachFirst, \* prach_freq_offset
    PrachNrb,   \* PRBs of a PRACH occasion (6)
    Msg3Nrb,    \* msg3_nof_prbs (3)
    PrbPairs,   \* pairs the IMI sends, as <<low, high>>
    Requests,   \* PRBs a UE's pending data, or its UCI, takes
    MaxTx       \* maxharq_tx

ASSUME PucchAssumption == PucchNrb \in Nat /\ 2 * PucchNrb < NofPrb
ASSUME PrachAssumption == PrachFirst \in Nat /\ PrachNrb \in Nat /\ PrachFirst + PrachNrb <= NofPrb
ASSUME Msg3Assumption  == Msg3Nrb \in Nat \ {0}
ASSUME PairsAssumption == PrbPairs \subseteq Int \X Int
ASSUME RequestAssumption == Requests \subseteq Nat \ {0}
ASSUME MaxTxAssumption == MaxTx \in Nat \ {0}

VARIABLES
    prbFile,  \* the PRB file: a pair, or <<>> while it is missing or empty
    prbMsg,   \* the pair the agent has opened the file for, or <<>>
    even,     \* whether these subframes have an even tti_rx
    step,     \* how far the subframe is scheduled
    mask,     \* ul_mask
    blanked,  \* the PRBs the subframe takes out (observed)
    queue,    \* ul_queue
    msg3,     \* ul_data_allocs: the PRBs of Msg3 grants
    grant,    \* ul_data_allocs: what each connected UE was granted
    phich,    \* the PHICH list
    harq,     \* the eNB's process for each UE
    ue        \* the UE's side of it

fileVars == <<prbFile, prbMsg>>
gridVars == <<mask, blanked, queue, msg3, grant, phich>>
vars     == <<fileVars, even, step, gridVars, harq, ue>>

NoGrant  == [kind |-> "none", prbs |-> {}]
PrachPrbs == PrachFirst .. PrachFirst + PrachNrb - 1
PucchMask == {p \in Prbs : p < PucchNrb \/ p >= NofPrb - PucchNrb}

Kinds   == {"none", "newtx", "adapt", "nonadapt", "uci"}
Steps   == {"start", "dl", "blank", "users", "results", "sent", "aborted"}
NewHarq == [active |-> FALSE, ack |-> FALSE, rtx |-> 0, prbs |-> {}, pendingPhich |-> FALSE,
            pdcchRequested |-> FALSE, ndi |-> FALSE]
NewUe   == [hasGrant |-> FALSE, ndi |-> FALSE, tx |-> 0, sends |-> {}]

TypeOK ==
    /\ prbFile \in PrbPairs \cup {<<>>}
    /\ prbMsg \in PrbPairs \cup {<<>>}
    /\ even \in BOOLEAN
    /\ step \in Steps
    /\ mask \subseteq Prbs /\ blanked \subseteq Prbs /\ msg3 \subseteq Prbs
    /\ queue \subseteq Ues
    /\ grant \in [Ues -> [kind : Kinds, prbs : SUBSET Prbs]]
    /\ phich \in [Ues -> {"none", "ACK", "NACK"}]
    /\ harq \in [Ues -> [active : BOOLEAN, ack : BOOLEAN, rtx : 0 .. MaxTx - 1, prbs : SUBSET Prbs,
                         pendingPhich : BOOLEAN, pdcchRequested : BOOLEAN, ndi : BOOLEAN]]
    /\ ue \in [Ues -> [hasGrant : BOOLEAN, ndi : BOOLEAN, tx : Nat, sends : SUBSET Prbs]]

Init ==
    /\ prbFile \in PrbPairs \cup {<<>>} /\ prbMsg = <<>>
    /\ even \in BOOLEAN
    /\ step = "start"
    /\ mask = {} /\ blanked = {} /\ queue = {} /\ msg3 = {}
    /\ grant = [u \in Ues |-> NoGrant]
    /\ phich = [u \in Ues |-> "none"]
    /\ harq = [u \in Ues |-> NewHarq]
    /\ ue = [u \in Ues |-> NewUe]

-----------------------------------------------------------------------------
\* agent::handle_message opens the PRB file, which empties it, and the eight bytes
\* reach it when it is closed.  Only the scheduler's next read can tell when a step of
\* the agent came, so it is taken right before the read.
OpenPrbFile ==
    /\ step = "blank" /\ prbMsg = <<>>
    /\ prbMsg' \in PrbPairs
    /\ prbFile' = <<>>
    /\ UNCHANGED <<even, step, gridVars, harq, ue>>

WritePrbFile ==
    /\ step = "blank" /\ prbMsg # <<>>
    /\ prbFile' = prbMsg
    /\ prbMsg' = <<>>
    /\ UNCHANGED <<even, step, gridVars, harq, ue>>

-----------------------------------------------------------------------------
HasPendingRetx(h) == h.active /\ ~h.ack

\* reset_pending_data(): until new_tx, what is left of the process but its NDI is not read.
ResetPendingData(h) == [NewHarq EXCEPT !.ndi = h.ndi]

\* Mutant: one transmission too many before the data is given up.
HarqNewTti_Late(h) ==
    IF HasPendingRetx(h) /\ h.rtx >= MaxTx
    THEN IF h.pendingPhich THEN [h EXCEPT !.active = FALSE] ELSE ResetPendingData(h)
    ELSE h

\* ul_harq_proc::new_tti()
HarqNewTti(h) ==
    IF HasPendingRetx(h) /\ h.rtx + 1 >= MaxTx
    THEN IF h.pendingPhich THEN [h EXCEPT !.active = FALSE] ELSE ResetPendingData(h)
    ELSE h

\* pop_pending_phich()
PopPendingPhich(h) ==
    LET popped == [h EXCEPT !.pendingPhich = FALSE]
    IN  IF h.active THEN popped ELSE ResetPendingData(popped)

\* alloc_phich(): what the UE is told of its last transmission
PhichOf(h) == IF ~h.pendingPhich THEN "none" ELSE IF h.ack THEN "ACK" ELSE "NACK"

\* Where a subframe's Msg3s can end: alloc_rar() gives each the PRBs after the last
\* one's, from the PUCCH or the PRACH occasion on, up to max_msg3_prb.
Msg3Start(prach) ==
    IF prach /\ PrachFirst + PrachNrb > PucchNrb THEN PrachFirst + PrachNrb ELSE PucchNrb
Msg3Ends(prach) ==
    {e \in 0 .. NofPrb :
        /\ \E k \in 0 .. NofPrb : e = Msg3Start(prach) + k * Msg3Nrb
        /\ e <= IF NofPrb - PucchNrb > 6 THEN NofPrb - PucchNrb ELSE 6}

\* sf_sched::new_tti, the Msg3 allocations made MSG3_DELAY_MS ahead, new_subframe
\* of every UE and the PHICHs.
NewSubframe ==
    /\ step = "start"
    /\ step' = IF even THEN "blank" ELSE "dl"
    /\ \E prach \in BOOLEAN : \E end \in Msg3Ends(prach) :
        /\ msg3' = Msg3Start(prach) .. end - 1
        /\ mask' = PucchMask \cup (IF prach THEN PrachPrbs ELSE {}) \cup msg3'
    /\ grant' = [u \in Ues |-> NoGrant]
    /\ phich' = [u \in Ues |-> PhichOf(HarqNewTti(harq[u]))]
    /\ harq' = [u \in Ues |->
                    LET h == HarqNewTti(harq[u])
                    IN  IF h.pendingPhich THEN PopPendingPhich(h) ELSE h]
    /\ UNCHANGED <<fileVars, even, blanked, queue, ue>>

-----------------------------------------------------------------------------
\* alloc_ul and alloc_ul_data: a UE is granted once, and no PRB is granted twice.
AllocUlData(u, kind, prbs) ==
    /\ grant[u] = NoGrant
    /\ prbs \subseteq Prbs \ mask
    /\ grant' = [grant EXCEPT ![u] = [kind |-> kind, prbs |-> prbs]]
    /\ mask' = mask \cup prbs

\* What alloc_ul_user or a search may also come to: no PRBs or no room on PDCCH.
NoAlloc == UNCHANGED <<grant, mask>>

\* alloc_dl_user: a UE with downlink data and no room on PUCCH for its UCI is
\* granted PRBs to send it on.
UciGrant(u) ==
    /\ step = "dl"
    /\ ~harq[u].active
    /\ \E size \in Requests :
        /\ FindUlAlloc(size, mask) # {}
        /\ AllocUlData(u, "uci", FindUlAlloc(size, mask))
    /\ UNCHANGED <<fileVars, even, step, blanked, queue, msg3, phich, harq, ue>>

DlUsersDone ==
    /\ step = "dl"
    /\ step' = IF even THEN "results" ELSE "blank"
    /\ UNCHANGED <<fileVars, even, gridVars, harq, ue>>

\* The PRBs sched_ul_users takes out: low = high = 0 without a pair to read.
RangeRead == IF prbFile = <<>> THEN 0 .. 0 ELSE prbFile[1] .. prbFile[2]

\* Mutant: the reserved PRBs and the grants made so far are forgotten.
BlankPrbs_Forgets ==
    /\ step = "blank"
    /\ IF RangeRead \subseteq Prbs
       THEN /\ step' = "users"
            /\ blanked' = RangeRead
            /\ mask' = RangeRead
            /\ queue' = {u \in Ues : grant[u] = NoGrant}
       ELSE step' = "aborted" /\ UNCHANGED <<blanked, mask, queue>>
    /\ UNCHANGED <<fileVars, even, msg3, grant, phich, harq, ue>>

\* sched_ul_users reads the file and takes the range out of the mask; reset() asserts
\* that each PRB is one of the carrier's.  Then it queues the UEs.
BlankPrbs ==
    /\ step = "blank"
    /\ IF RangeRead \subseteq Prbs
       THEN /\ step' = "users"
            /\ blanked' = RangeRead
            /\ mask' = mask \cup RangeRead
            /\ queue' = {u \in Ues : grant[u] = NoGrant}
       ELSE step' = "aborted" /\ UNCHANGED <<blanked, mask, queue>>
    /\ UNCHANGED <<fileVars, even, msg3, grant, phich, harq, ue>>

-----------------------------------------------------------------------------
\* Mutant: the old PRBs are asked for whatever the mask says of them.
TryUlRetxAlloc_SamePrbs(u) ==
    LET h     == harq[u]
        adapt == IF h.pdcchRequested THEN "adapt" ELSE "nonadapt"
    IN  /\ grant[u] = NoGrant
        /\ grant' = [grant EXCEPT ![u] = [kind |-> adapt, prbs |-> h.prbs]]
        /\ mask' = mask \cup h.prbs

\* try_ul_retx_alloc: the PRBs of the last transmission if they are free, else as many
\* others.  Other PRBs, or a process taken up again, need a DCI.
TryUlRetxAlloc(u) ==
    LET h     == harq[u]
        other == FindContiguousUlPrbs(Cardinality(h.prbs), mask)
    IN  IF h.prbs \cap mask = {}
        THEN IF h.pdcchRequested
             THEN AllocUlData(u, "adapt", h.prbs) \/ NoAlloc
             ELSE AllocUlData(u, "nonadapt", h.prbs)
        ELSE IF Cardinality(other) = Cardinality(h.prbs) /\ other \cap mask = {}
             THEN AllocUlData(u, "adapt", other) \/ NoAlloc
             ELSE NoAlloc

\* The rest of try_ul_alloc: PRBs for new data, if there is any.
TryUlNewTx(u) ==
    \/ \E size \in Requests :
            /\ FindContiguousUlPrbs(size, mask) # {}
            /\ AllocUlData(u, "newtx", FindContiguousUlPrbs(size, mask))
    \/ NoAlloc

\* The UE at the head of ul_queue: retransmissions first, then by priority.
UlUser(u) ==
    /\ step = "users"
    /\ u \in queue
    /\ (\E v \in queue : HasPendingRetx(harq[v])) => HasPendingRetx(harq[u])
    /\ IF HasPendingRetx(harq[u]) THEN TryUlRetxAlloc(u) ELSE TryUlNewTx(u)
    /\ queue' = queue \ {u}
    /\ UNCHANGED <<fileVars, even, step, blanked, msg3, phich, harq, ue>>

UlUsersDone ==
    /\ step = "users" /\ queue = {}
    /\ step' = IF even THEN "dl" ELSE "results"
    /\ UNCHANGED <<fileVars, even, gridVars, harq, ue>>

-----------------------------------------------------------------------------
\* ul_harq_proc::new_tx
HarqNewTx(h, g) ==
    [active |-> TRUE, ack |-> FALSE, rtx |-> 0, prbs |-> g.prbs, pendingPhich |-> TRUE,
     pdcchRequested |-> FALSE, ndi |-> ~h.ndi]

\* ul_harq_proc::new_retx
HarqNewRetx(h, g) ==
    [active |-> TRUE, ack |-> FALSE, rtx |-> h.rtx + 1, prbs |-> g.prbs, pendingPhich |-> TRUE,
     pdcchRequested |-> FALSE, ndi |-> h.ndi]

\* Mutant: a transmission that was skipped does not count.
HarqRetxSkipped_Free(h) == [h EXCEPT !.pdcchRequested = TRUE]

\* retx_skipped()
HarqRetxSkipped(h) == [h EXCEPT !.pdcchRequested = TRUE, !.rtx = h.rtx + 1]

\* Mutant: a UE without a grant is still told NACK.
PhichSent_Nack(u) == phich[u]

\* The PHICH that goes out: a NACK the UE has no grant for is turned into an ACK.
PhichSent(u) ==
    IF harq[u].active /\ grant[u] = NoGrant /\ phich[u] = "NACK" THEN "ACK" ELSE phich[u]

\* The process after the subframe's grants, in generate_sched_results.
HarqSent(u) ==
    LET h == harq[u]
        g == grant[u]
    IN  IF g # NoGrant THEN IF h.active THEN HarqNewRetx(h, g) ELSE HarqNewTx(h, g)
        ELSE IF h.active THEN HarqRetxSkipped(h) ELSE h

\* needs_pdcch: a non-adaptive retransmission has no DCI.
Signalled(u) == grant[u].kind \in {"newtx", "adapt", "uci"}

\* current_tx_nb >= max_retx && !hi_value
UeGivesUp(w, hi) == w.sends # {} /\ w.tx >= MaxTx /\ ~hi

\* ul_harq_process::new_grant_ul of srsue: the UE's process after the PHICH of its last
\* transmission, if it made one, and the DCI.  The check of the block size changes
\* nothing while no DCI is lost.
UeNewGrantUl(u) ==
    LET w   == ue[u]
        hi  == PhichSent(u) # "NACK"
        ndi == HarqSent(u).ndi
        w0  == IF UeGivesUp(w, hi) THEN NewUe ELSE w
    IN  IF Signalled(u)
        THEN [hasGrant |-> TRUE, ndi |-> ndi, sends |-> grant[u].prbs,
              tx |-> IF ndi # w0.ndi \/ ~w0.hasGrant THEN 1 ELSE w0.tx + 1]
        ELSE IF w.sends # {} /\ ~hi /\ w0.hasGrant
             THEN [w0 EXCEPT !.tx = w0.tx + 1]
             ELSE [w0 EXCEPT !.sends = {}]

\* generate_sched_results, and what the UEs make of it.
SendSubframe ==
    /\ step = "results"
    /\ step' = "sent"
    /\ phich' = [u \in Ues |-> PhichSent(u)]
    /\ harq' = [u \in Ues |-> HarqSent(u)]
    /\ ue' = [u \in Ues |-> UeNewGrantUl(u)]
    /\ UNCHANGED <<fileVars, even, mask, blanked, queue, msg3, grant>>

\* set_ul_crc() of every grant: only what was sent on its PRBs can be received.
CrcInfo ==
    /\ step = "sent"
    /\ step' = "start"
    /\ \E acked \in SUBSET {u \in Ues : grant[u] # NoGrant /\ ue[u].sends = grant[u].prbs} :
        harq' = [u \in Ues |-> IF u \in acked
                               THEN [harq[u] EXCEPT !.ack = TRUE, !.active = FALSE]
                               ELSE harq[u]]
    /\ mask' = {} /\ blanked' = {} /\ msg3' = {}
    /\ grant' = [u \in Ues |-> NoGrant]
    /\ phich' = [u \in Ues |-> "none"]
    /\ UNCHANGED <<fileVars, even, queue, ue>>

-----------------------------------------------------------------------------
Subframe ==
    \/ NewSubframe \/ DlUsersDone \/ BlankPrbs \/ UlUsersDone \/ SendSubframe \/ CrcInfo
    \/ \E u \in Ues : UciGrant(u) \/ UlUser(u)

Next == OpenPrbFile \/ WritePrbFile \/ Subframe

Spec     == Init /\ [][Next]_vars
FairSpec == Spec /\ WF_vars(Subframe)

-----------------------------------------------------------------------------
(***************************************************************************)
(* Whatever way a grant came about (Msg3, UCI, retransmission, new data),  *)
(* no two UEs are granted a PRB in common, and none a PRB kept for PUCCH,  *)
(* by the collision check of alloc_ul_data on the mask blanking rewrites.  *)
(***************************************************************************)
GrantsDisjoint ==
    \A u \in Ues :
        /\ grant[u].prbs \cap (PucchMask \cup msg3) = {}
        /\ \A v \in Ues : u # v => grant[u].prbs \cap grant[v].prbs = {}

(***************************************************************************)
(* No grant touches the range the subframe blanks, retransmissions of what *)
(* was sent in it before included.  Besides Msg3, only the grants for UCI  *)
(* of odd subframes may, being placed before the file is read.             *)
(***************************************************************************)
GrantsAvoidBlanked ==
    \A u \in Ues :
        \/ grant[u].prbs \cap blanked = {}
        \/ grant[u].kind = "uci" /\ ~even

(***************************************************************************)
(* While the eNB holds the data of a process, the UE transmits exactly     *)
(* what it was granted: PHICH, DCI and the UE's own process agree, also    *)
(* after a subframe in which blanking left no room and the NACK was turned *)
(* into an ACK to hold the UE back.                                        *)
(***************************************************************************)
UeKeepsToGrant ==
    step = "sent" => \A u \in Ues : harq[u].active => ue[u].sends = grant[u].prbs

(***************************************************************************)
(* The data of a process is received or given up in the end, however long  *)
(* blanking, Msg3 and other UEs leave no room for it: a subframe in which  *)
(* it is skipped counts as a transmission.                                 *)
(***************************************************************************)
HarqEnds == \A u \in Ues : harq[u].active ~> ~harq[u].active

-----------------------------------------------------------------------------
\* What the sources say and the code does not keep: TLC refutes each of these.

(***************************************************************************)
(* sched_ue_ded_test_suite.cc:222: "absent PUSCH grants for active UL      *)
(* HARQs must be either ACKs, last retx, or interrupted HARQs".  Then a UE *)
(* told NACK without a grant has had its last transmission and is silent.  *)
(***************************************************************************)
NackedUeIsGranted ==
    step = "sent" =>
        \A u \in Ues : phich[u] = "NACK" /\ grant[u] = NoGrant => ue[u].sends = {}

(***************************************************************************)
(* The assertion of bounded_bitset::reset: a pair read from the file is a  *)
(* range of the carrier.                                                   *)
(***************************************************************************)
RangeWithinCarrier == step # "aborted"

(***************************************************************************)
(* radar.py:217: "Retain previous blanked PRBs".  Once the pair is in the  *)
(* file and every later request repeats it, no grant of sched_ul_users     *)
(* touches its range.                                                      *)
(***************************************************************************)
DataAvoids(p) ==
    \A u \in Ues : grant[u].kind \in {"newtx", "adapt", "nonadapt"}
                      => grant[u].prbs \cap (p[1] .. p[2]) = {}
RetainedRangeHolds ==
    \A p \in PrbPairs : prbFile = p /\ [](prbMsg \in {p, <<>>}) => []DataAvoids(p)
=============================================================================
