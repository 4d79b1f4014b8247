------------------------- MODULE UlBlanking_proofs -------------------------
(***************************************************************************)
(* Proofs about UlBlanking for every carrier, set of UEs, PUCCH and PRACH  *)
(* region, set of PRB pairs and number of transmissions: the types, that   *)
(* the grants of a subframe are disjoint and stay off the PRBs it blanks,  *)
(* and that both sides of a HARQ process agree on the PRBs.                *)
(***************************************************************************)
EXTENDS UlBlanking, TLAPS

Grants == [kind : Kinds, prbs : SUBSET Prbs]

-----------------------------------------------------------------------------
(***************************************************************************)
(* What every PRB decision of a subframe relies on: ul_mask holds whatever *)
(* was reserved, blanked or granted so far.                                *)
(***************************************************************************)
GrantType == grant \in [Ues -> Grants]

MaskCovers ==
    /\ blanked \subseteq mask
    /\ msg3 \subseteq mask
    /\ step # "start" => PucchMask \subseteq mask
    /\ \A u \in Ues : grant[u].prbs \subseteq mask

\* Before the range is read, the only grants are those for UCI of odd subframes.
EarlyGrants ==
    /\ step = "start" => blanked = {} /\ grant = [u \in Ues |-> NoGrant]
    /\ step \in {"dl", "blank"} /\ ~even =>
           \A u \in Ues : grant[u].prbs = {} \/ grant[u].kind = "uci"
    /\ step = "blank" /\ even => \A u \in Ues : grant[u].prbs = {}

GridInv ==
    /\ GrantType
    /\ MaskCovers
    /\ EarlyGrants
    /\ GrantsDisjoint
    /\ GrantsAvoidBlanked

(***************************************************************************)
(* However a UE of ul_queue fares, its PRBs went through alloc_ul_data or  *)
(* it was granted none.                                                    *)
(***************************************************************************)
LEMMA UlUserAllocates ==
    ASSUME NEW u \in Ues, UlUser(u)
    PROVE  NoAlloc \/ \E kind \in Kinds, prbs \in SUBSET Prbs : AllocUlData(u, kind, prbs)
<1> DEFINE Allocates == \E kind \in Kinds, prbs \in SUBSET Prbs : AllocUlData(u, kind, prbs)
<1>a. ASSUME NEW kind \in Kinds, NEW prbs, AllocUlData(u, kind, prbs)
      PROVE  Allocates
  <2>1. prbs \in SUBSET Prbs
    BY <1>a DEF AllocUlData
  <2> QED
    BY <1>a, <2>1
<1>1. CASE HasPendingRetx(harq[u])
  <2>1. TryUlRetxAlloc(u)
    BY <1>1 DEF UlUser
  <2>2. NoAlloc \/ \E kind \in {"adapt", "nonadapt"} : \E prbs : AllocUlData(u, kind, prbs)
    BY <2>1 DEF TryUlRetxAlloc
  <2> QED
    BY <2>2, <1>a DEF Kinds
<1>2. CASE ~HasPendingRetx(harq[u])
  <2>1. TryUlNewTx(u)
    BY <1>2 DEF UlUser
  <2>2. NoAlloc \/ \E prbs : AllocUlData(u, "newtx", prbs)
    BY <2>1 DEF TryUlNewTx
  <2> QED
    BY <2>2, <1>a DEF Kinds
<1> QED
  BY <1>1, <1>2

(***************************************************************************)
(* A grant made by alloc_ul_data keeps the grid's invariant, in any step   *)
(* after the range was read, or as a grant for UCI before it.              *)
(***************************************************************************)
LEMMA AllocKeepsGrid ==
    ASSUME GridInv,
           NEW u \in Ues, NEW kind \in Kinds, NEW prbs \in SUBSET Prbs,
           AllocUlData(u, kind, prbs),
           step = "users" \/ (step = "dl" /\ kind = "uci"),
           step' = step, even' = even, blanked' = blanked, msg3' = msg3
    PROVE  GridInv'
<1>1. /\ prbs \cap mask = {}
      /\ mask' = mask \cup prbs
      /\ grant' \in [Ues -> Grants]
      /\ grant'[u] = [kind |-> kind, prbs |-> prbs]
      /\ \A v \in Ues : v # u => grant'[v] = grant[v]
  BY DEF AllocUlData, GridInv, GrantType, Grants
<1>2. PucchMask' = PucchMask
  BY DEF PucchMask
<1>3. MaskCovers'
  BY <1>1, <1>2 DEF GridInv, MaskCovers
<1>4. EarlyGrants'
  BY <1>1 DEF GridInv, EarlyGrants
<1>5. GrantsDisjoint'
  <2>1. ASSUME NEW v \in Ues
        PROVE  grant'[v].prbs \cap (PucchMask \cup msg3) = {}
    BY <1>1 DEF GridInv, MaskCovers, GrantsDisjoint
  <2>2. ASSUME NEW v \in Ues, NEW w \in Ues, v # w
        PROVE  grant'[v].prbs \cap grant'[w].prbs = {}
    BY <1>1, <2>2 DEF GridInv, MaskCovers, GrantsDisjoint
  <2> QED
    BY <2>1, <2>2, <1>2 DEF GrantsDisjoint
<1>6. GrantsAvoidBlanked'
  BY <1>1 DEF GridInv, MaskCovers, GrantsAvoidBlanked
<1> QED
  BY <1>1, <1>3, <1>4, <1>5, <1>6 DEF GridInv, GrantType

LEMMA GridInit == Init => GridInv
  BY DEF Init, GridInv, GrantType, Grants, Kinds, MaskCovers, EarlyGrants, GrantsDisjoint,
         GrantsAvoidBlanked, NoGrant

(***************************************************************************)
(* Every step keeps the grid's invariant.                                  *)
(***************************************************************************)
LEMMA GridStep == GridInv /\ [Next]_vars => GridInv'
<1> SUFFICES ASSUME GridInv, [Next]_vars
             PROVE  GridInv'
  OBVIOUS
<1> USE DEF GridInv, GrantType
<1>0. PucchMask' = PucchMask
  BY DEF PucchMask
<1>1. CASE OpenPrbFile \/ WritePrbFile \/ DlUsersDone \/ SendSubframe \/ UNCHANGED vars \/ UlUsersDone
  <2>1. /\ mask' = mask /\ blanked' = blanked /\ msg3' = msg3 /\ grant' = grant /\ even' = even
    BY <1>1 DEF OpenPrbFile, WritePrbFile, DlUsersDone, UlUsersDone, SendSubframe, gridVars, vars
  <2>2. \/ step' = step
        \/ step = "dl" /\ step' = IF even THEN "results" ELSE "blank"
        \/ step = "users" /\ step' = IF even THEN "dl" ELSE "results"
        \/ step = "results" /\ step' = "sent"
    BY <1>1 DEF OpenPrbFile, WritePrbFile, DlUsersDone, UlUsersDone, SendSubframe, vars
  <2> QED
    BY <2>1, <2>2, <1>0 DEF MaskCovers, EarlyGrants, GrantsDisjoint, GrantsAvoidBlanked
<1>2. CASE NewSubframe
  <2>1. /\ step' # "start" /\ even' = even /\ blanked' = {}
        /\ msg3' \subseteq mask' /\ PucchMask \subseteq mask'
        /\ grant' = [u \in Ues |-> NoGrant]
    BY <1>2 DEF NewSubframe, EarlyGrants
  <2>2. NoGrant \in Grants /\ NoGrant.prbs = {}
    BY DEF NoGrant, Grants, Kinds
  <2> QED
    BY <2>1, <2>2, <1>0 DEF MaskCovers, EarlyGrants, GrantsDisjoint, GrantsAvoidBlanked
<1>3. CASE \E u \in Ues : UciGrant(u)
  <2>1. PICK u \in Ues, size \in Requests : AllocUlData(u, "uci", FindUlAlloc(size, mask))
    BY <1>3 DEF UciGrant
  <2>2. FindUlAlloc(size, mask) \in SUBSET Prbs /\ "uci" \in Kinds
    BY <2>1 DEF AllocUlData, Kinds
  <2>3. step = "dl" /\ step' = step /\ even' = even /\ blanked' = blanked /\ msg3' = msg3
    BY <1>3 DEF UciGrant
  <2> HIDE DEF GridInv
  <2> QED
    BY <2>1, <2>2, <2>3, AllocKeepsGrid
<1>4. CASE BlankPrbs
  <2>1. CASE step' = "users"
    <3>1. /\ blanked' \subseteq mask' /\ mask \subseteq mask'
          /\ grant' = grant /\ msg3' = msg3 /\ even' = even /\ step = "blank"
      BY <1>4, <2>1 DEF BlankPrbs
    <3>2. GrantsAvoidBlanked'
      BY <3>1 DEF EarlyGrants, GrantsAvoidBlanked
    <3> QED
      BY <2>1, <3>1, <3>2, <1>0 DEF MaskCovers, EarlyGrants, GrantsDisjoint
  <2>2. CASE step' = "aborted"
    <3>1. /\ blanked' = blanked /\ mask' = mask
          /\ grant' = grant /\ msg3' = msg3 /\ even' = even /\ step = "blank"
      BY <1>4, <2>2 DEF BlankPrbs
    <3> QED
      BY <2>2, <3>1, <1>0 DEF MaskCovers, EarlyGrants, GrantsDisjoint, GrantsAvoidBlanked
  <2> QED
    BY <1>4, <2>1, <2>2 DEF BlankPrbs
<1>5. CASE \E u \in Ues : UlUser(u)
  <2>1. PICK u \in Ues : UlUser(u)
    BY <1>5
  <2>2. step = "users" /\ step' = step /\ even' = even /\ blanked' = blanked /\ msg3' = msg3
    BY <2>1 DEF UlUser
  <2>3. CASE NoAlloc
    BY <2>2, <2>3, <1>0
    DEF NoAlloc, MaskCovers, EarlyGrants, GrantsDisjoint, GrantsAvoidBlanked
  <2>4. CASE \E kind \in Kinds, prbs \in SUBSET Prbs : AllocUlData(u, kind, prbs)
    <3>1. PICK kind \in Kinds, prbs \in SUBSET Prbs : AllocUlData(u, kind, prbs)
      BY <2>4
    <3> HIDE DEF GridInv
    <3> QED
      BY <2>2, <3>1, AllocKeepsGrid
  <2> QED
    BY <2>1, <2>3, <2>4, UlUserAllocates
<1>6. CASE CrcInfo
  <2>1. /\ step' = "start" /\ mask' = {} /\ blanked' = {} /\ msg3' = {}
        /\ grant' = [u \in Ues |-> NoGrant]
    BY <1>6 DEF CrcInfo
  <2>2. NoGrant \in Grants /\ NoGrant.prbs = {}
    BY DEF NoGrant, Grants, Kinds
  <2> QED
    BY <2>1, <2>2, <1>0 DEF MaskCovers, EarlyGrants, GrantsDisjoint, GrantsAvoidBlanked
<1> QED
  BY <1>1, <1>2, <1>3, <1>4, <1>5, <1>6 DEF Next, Subframe

LEMMA GridAlways == Spec => []GridInv
BY GridInit, GridStep, PTL DEF Spec

(***************************************************************************)
(* On every carrier, no two grants of a subframe overlap, and none lies on *)
(* the PUCCH or a Msg3 (GrantsDisjoint).                                   *)
(***************************************************************************)
THEOREM GridSafe == Spec => []GrantsDisjoint
<1>1. GridInv => GrantsDisjoint
  BY DEF GridInv
<1> QED
  BY GridAlways, <1>1, PTL

(***************************************************************************)
(* On every carrier and for every pair read, no grant but an odd           *)
(* subframe's UCI lies in the range, retransmissions of what was sent in   *)
(* it before included (GrantsAvoidBlanked).                                *)
(***************************************************************************)
THEOREM BlankedIsAvoided == Spec => []GrantsAvoidBlanked
<1>1. GridInv => GrantsAvoidBlanked
  BY DEF GridInv
<1> QED
  BY GridAlways, <1>1, PTL

-----------------------------------------------------------------------------
Harqs   == [active : BOOLEAN, ack : BOOLEAN, rtx : 0 .. MaxTx - 1, prbs : SUBSET Prbs,
            pendingPhich : BOOLEAN, pdcchRequested : BOOLEAN, ndi : BOOLEAN]
UeProcs == [hasGrant : BOOLEAN, ndi : BOOLEAN, tx : Nat, sends : SUBSET Prbs]

(***************************************************************************)
(* Why a process never counts past maxharq_tx: new_tti ends it one short   *)
(* of that, and between new_tti and the results of the subframe, where one *)
(* more is counted, nothing touches it.                                    *)
(***************************************************************************)
RoomToCount ==
    \A u \in Ues :
        harq[u].active =>
            /\ ~harq[u].ack
            /\ step \in {"dl", "blank", "users", "results"} => harq[u].rtx + 1 < MaxTx

TypeInv == TypeOK /\ RoomToCount

LEMMA ResetType ==
    ASSUME NEW h \in Harqs
    PROVE  ResetPendingData(h) \in Harqs /\ ~ResetPendingData(h).active
<1>1. 0 \in 0 .. MaxTx - 1
  BY MaxTxAssumption
<1>2. h.ndi \in BOOLEAN
  BY DEF Harqs
<1> QED
  BY <1>1, <1>2, Zenon DEF Harqs, ResetPendingData, NewHarq

(***************************************************************************)
(* ul_harq_proc::new_tti leaves only processes that may transmit again.    *)
(***************************************************************************)
LEMMA NewTtiType ==
    ASSUME NEW h \in Harqs, h.active => ~h.ack
    PROVE  /\ HarqNewTti(h) \in Harqs
           /\ HarqNewTti(h).active => ~HarqNewTti(h).ack /\ HarqNewTti(h).rtx + 1 < MaxTx
<1>1. CASE HasPendingRetx(h) /\ h.rtx + 1 >= MaxTx /\ h.pendingPhich
  <2>1. HarqNewTti(h) = [h EXCEPT !.active = FALSE]
    BY <1>1 DEF HarqNewTti
  <2>2. [h EXCEPT !.active = FALSE] \in Harqs /\ ~[h EXCEPT !.active = FALSE].active
    BY Zenon DEF Harqs
  <2> QED
    BY <2>1, <2>2, Zenon
<1>2. CASE HasPendingRetx(h) /\ h.rtx + 1 >= MaxTx /\ ~h.pendingPhich
  <2>1. HarqNewTti(h) = ResetPendingData(h)
    BY <1>2 DEF HarqNewTti
  <2> QED
    BY <2>1, ResetType, Zenon
<1>3. CASE ~(HasPendingRetx(h) /\ h.rtx + 1 >= MaxTx)
  <2>1. HarqNewTti(h) = h
    BY <1>3 DEF HarqNewTti
  <2>2. h.rtx \in Int /\ MaxTx \in Int
    BY MaxTxAssumption DEF Harqs
  <2> QED
    BY <2>1, <2>2, <1>3 DEF HasPendingRetx
<1> QED
  BY <1>1, <1>2, <1>3

LEMMA PopType ==
    ASSUME NEW h \in Harqs
    PROVE  /\ PopPendingPhich(h) \in Harqs
           /\ PopPendingPhich(h).active =>
                  h.active /\ PopPendingPhich(h).rtx = h.rtx /\ PopPendingPhich(h).ack = h.ack
<1> DEFINE popped == [h EXCEPT !.pendingPhich = FALSE]
<1>1. popped \in Harqs /\ popped.rtx = h.rtx /\ popped.ack = h.ack
  BY Zenon DEF Harqs
<1>2. PopPendingPhich(h) = IF h.active THEN popped ELSE ResetPendingData(popped)
  BY DEF PopPendingPhich
<1> HIDE DEF popped
<1> QED
  BY <1>1, <1>2, ResetType, Zenon

(***************************************************************************)
(* generate_sched_results counts a transmission, or one that was skipped.  *)
(***************************************************************************)
LEMMA SentType ==
    ASSUME TypeInv, GrantType, step = "results", NEW u \in Ues
    PROVE  HarqSent(u) \in Harqs /\ (HarqSent(u).active => ~HarqSent(u).ack)
<1>1. harq[u] \in Harqs /\ grant[u] \in Grants
  BY DEF TypeInv, TypeOK, Harqs, GrantType
<1>2. CASE harq[u].active
  <2>1. harq[u].rtx + 1 \in 0 .. MaxTx - 1 /\ ~harq[u].ack
    BY <1>1, <1>2, MaxTxAssumption DEF TypeInv, RoomToCount, Harqs
  <2>2. HarqNewRetx(harq[u], grant[u]) \in Harqs /\ ~HarqNewRetx(harq[u], grant[u]).ack
    BY <1>1, <2>1 DEF Harqs, Grants, HarqNewRetx
  <2>3. HarqRetxSkipped(harq[u]) \in Harqs /\ ~HarqRetxSkipped(harq[u]).ack
    BY <1>1, <2>1, Zenon DEF Harqs, HarqRetxSkipped
  <2> QED
    BY <1>2, <2>2, <2>3 DEF HarqSent
<1>3. CASE ~harq[u].active
  <2>1. HarqNewTx(harq[u], grant[u]) \in Harqs /\ ~HarqNewTx(harq[u], grant[u]).ack
    BY <1>1, MaxTxAssumption DEF Harqs, Grants, HarqNewTx
  <2> QED
    BY <1>1, <1>3, <2>1 DEF HarqSent
<1> QED
  BY <1>2, <1>3

LEMMA UeType ==
    ASSUME TypeInv, GrantType, NEW u \in Ues, HarqSent(u) \in Harqs
    PROVE  UeNewGrantUl(u) \in UeProcs
<1> DEFINE w   == ue[u]
           hi  == PhichSent(u) # "NACK"
           ndi == HarqSent(u).ndi
           w0  == IF UeGivesUp(w, hi) THEN NewUe ELSE w
<1>1. w \in UeProcs /\ grant[u].prbs \in SUBSET Prbs /\ ndi \in BOOLEAN
  BY DEF TypeInv, TypeOK, GrantType, Grants, Harqs, UeProcs
<1>2. w0 \in UeProcs
  BY <1>1 DEF UeProcs, NewUe
<1>3. w0.tx + 1 \in Nat
  BY <1>2 DEF UeProcs
<1> DEFINE tx    == IF ndi # w0.ndi \/ ~w0.hasGrant THEN 1 ELSE w0.tx + 1
           taken == [hasGrant |-> TRUE, ndi |-> ndi, sends |-> grant[u].prbs, tx |-> tx]
           again == [w0 EXCEPT !.tx = w0.tx + 1]
           quiet == [w0 EXCEPT !.sends = {}]
<1>4. UeNewGrantUl(u) \in {taken, again, quiet}
  BY Zenon DEF UeNewGrantUl
<1> HIDE DEF w0, ndi
<1>5. tx \in Nat
  BY <1>3
<1> HIDE DEF tx
<1>6. taken \in UeProcs
  BY <1>1, <1>5 DEF UeProcs
<1>7. again \in UeProcs
  BY <1>2, <1>3, Zenon DEF UeProcs
<1>8. quiet \in UeProcs
  BY <1>2, Zenon DEF UeProcs
<1> HIDE DEF taken, again, quiet
<1> QED
  BY <1>4, <1>6, <1>7, <1>8

LEMMA TypeInit == Init => TypeInv
<1> SUFFICES ASSUME Init
             PROVE  TypeInv
  OBVIOUS
<1>1. NoGrant \in Grants /\ NewUe \in UeProcs /\ NewHarq \in Harqs /\ ~NewHarq.active
  BY MaxTxAssumption DEF NoGrant, Grants, Kinds, NewUe, UeProcs, NewHarq, Harqs
<1> QED
  BY <1>1 DEF Init, TypeInv, TypeOK, RoomToCount, Grants, Harqs, UeProcs, Steps

(***************************************************************************)
(* Every step keeps the types and the bound on the transmissions.          *)
(***************************************************************************)
LEMMA TypeStep == TypeInv /\ GridInv /\ [Next]_vars => TypeInv'
<1> SUFFICES ASSUME TypeInv, GridInv, [Next]_vars
             PROVE  TypeInv'
  OBVIOUS
<1>0. /\ prbFile \in PrbPairs \cup {<<>>} /\ prbMsg \in PrbPairs \cup {<<>>}
      /\ even \in BOOLEAN /\ step \in Steps
      /\ mask \subseteq Prbs /\ blanked \subseteq Prbs /\ msg3 \subseteq Prbs
      /\ queue \subseteq Ues
      /\ grant \in [Ues -> Grants]
      /\ phich \in [Ues -> {"none", "ACK", "NACK"}]
      /\ harq \in [Ues -> Harqs]
      /\ ue \in [Ues -> UeProcs]
      /\ RoomToCount
  BY DEF TypeInv, TypeOK, Grants, Harqs, UeProcs
<1> DEFINE Types ==
             /\ prbFile' \in PrbPairs \cup {<<>>} /\ prbMsg' \in PrbPairs \cup {<<>>}
             /\ even' \in BOOLEAN /\ step' \in Steps
             /\ mask' \subseteq Prbs /\ blanked' \subseteq Prbs /\ msg3' \subseteq Prbs
             /\ queue' \subseteq Ues
             /\ grant' \in [Ues -> Grants]
             /\ phich' \in [Ues -> {"none", "ACK", "NACK"}]
             /\ harq' \in [Ues -> Harqs]
             /\ ue' \in [Ues -> UeProcs]
             /\ RoomToCount'
<1>a. Types => TypeInv'
  BY DEF TypeInv, TypeOK, Grants, Harqs, UeProcs
<1>b. GridInv'
  BY GridStep
<1>c. grant' \in [Ues -> Grants]
  BY <1>b DEF GridInv, GrantType
<1>1. CASE OpenPrbFile \/ WritePrbFile
  <2>1. /\ prbFile' \in PrbPairs \cup {<<>>} /\ prbMsg' \in PrbPairs \cup {<<>>}
        /\ UNCHANGED <<even, step, gridVars, harq, ue>>
    BY <1>0, <1>1 DEF OpenPrbFile, WritePrbFile
  <2> QED
    BY <1>0, <2>1, <1>a DEF gridVars, RoomToCount
<1>2. CASE DlUsersDone \/ UlUsersDone \/ UNCHANGED vars
  <2>1. /\ UNCHANGED <<fileVars, even, gridVars, harq, ue>>
        /\ step' = step \/ (step \in {"dl", "users"} /\ step' \in {"dl", "blank", "results"})
    BY <1>2 DEF DlUsersDone, UlUsersDone, vars
  <2> QED
    BY <1>0, <2>1, <1>a DEF fileVars, gridVars, RoomToCount, Steps
<1>3. CASE NewSubframe
  <2>0. PICK prach \in BOOLEAN :
          \E end \in Msg3Ends(prach) :
             /\ msg3' = Msg3Start(prach) .. end - 1
             /\ mask' = PucchMask \cup (IF prach THEN PrachPrbs ELSE {}) \cup msg3'
    BY <1>3 DEF NewSubframe
  <2>1. PICK end \in Msg3Ends(prach) :
          /\ msg3' = Msg3Start(prach) .. end - 1
          /\ mask' = PucchMask \cup (IF prach THEN PrachPrbs ELSE {}) \cup msg3'
    BY <2>0
  <2>2. msg3' \subseteq Prbs /\ mask' \subseteq Prbs
    <3>1. Msg3Start(prach) \in 0 .. NofPrb
      BY PrbAssumption, PucchAssumption, PrachAssumption DEF Msg3Start
    <3>2. end \in 0 .. NofPrb
      BY DEF Msg3Ends
    <3> QED
      BY <2>1, <3>1, <3>2, PrachAssumption, PrbAssumption DEF Prbs, PucchMask, PrachPrbs
  <2> DEFINE next(u) == LET h == HarqNewTti(harq[u])
                        IN  IF h.pendingPhich THEN PopPendingPhich(h) ELSE h
  <2>3. ASSUME NEW u \in Ues
        PROVE  next(u) \in Harqs /\ (next(u).active => ~next(u).ack /\ next(u).rtx + 1 < MaxTx)
    <3>1. harq[u] \in Harqs /\ (harq[u].active => ~harq[u].ack)
      BY <1>0 DEF RoomToCount
    <3> DEFINE h == HarqNewTti(harq[u])
    <3>2. h \in Harqs /\ (h.active => ~h.ack /\ h.rtx + 1 < MaxTx)
      BY <3>1, NewTtiType
    <3> HIDE DEF h
    <3>3. /\ PopPendingPhich(h) \in Harqs
          /\ PopPendingPhich(h).active =>
                 h.active /\ PopPendingPhich(h).rtx = h.rtx /\ PopPendingPhich(h).ack = h.ack
      BY <3>2, PopType
    <3>4. next(u) = h \/ next(u) = PopPendingPhich(h)
      BY DEF h
    <3> HIDE DEF next
    <3> QED
      BY <3>2, <3>3, <3>4
  <2>4. harq' = [u \in Ues |-> next(u)]
    BY <1>3 DEF NewSubframe
  <2>5. /\ UNCHANGED <<fileVars, even, blanked, queue, ue>> /\ step' \in Steps
        /\ phich' \in [Ues -> {"none", "ACK", "NACK"}]
    BY <1>3 DEF NewSubframe, PhichOf, Steps
  <2> HIDE DEF next
  <2>6. harq' \in [Ues -> Harqs] /\ RoomToCount'
    BY <2>3, <2>4 DEF RoomToCount
  <2> QED
    BY <1>0, <1>c, <2>2, <2>5, <2>6, <1>a DEF fileVars
<1>4. CASE \E u \in Ues : UciGrant(u)
  <2>1. UNCHANGED <<fileVars, even, step, blanked, queue, msg3, phich, harq, ue>>
    BY <1>4 DEF UciGrant
  <2>2. mask' \subseteq Prbs
    BY <1>0, <1>4 DEF UciGrant, AllocUlData
  <2> QED
    BY <1>0, <1>c, <2>1, <2>2, <1>a DEF fileVars, RoomToCount
<1>5. CASE BlankPrbs
  <2>1. /\ UNCHANGED <<fileVars, even, msg3, grant, phich, harq, ue>>
        /\ step' \in Steps /\ step = "blank"
        /\ mask' \subseteq Prbs /\ blanked' \subseteq Prbs /\ queue' \subseteq Ues
    BY <1>0, <1>5 DEF BlankPrbs, Steps
  <2> QED
    BY <1>0, <2>1, <1>a DEF fileVars, RoomToCount
<1>6. CASE \E u \in Ues : UlUser(u)
  <2>1. PICK u \in Ues : UlUser(u)
    BY <1>6
  <2>2. /\ UNCHANGED <<fileVars, even, step, blanked, msg3, phich, harq, ue>>
        /\ queue' \subseteq Ues
    BY <1>0, <2>1 DEF UlUser
  <2>3. mask' \subseteq Prbs
    BY <1>0, <2>1, UlUserAllocates DEF AllocUlData, NoAlloc
  <2> QED
    BY <1>0, <1>c, <2>2, <2>3, <1>a DEF fileVars, RoomToCount
<1>7. CASE SendSubframe
  <2>1. ASSUME NEW u \in Ues
        PROVE  HarqSent(u) \in Harqs /\ (HarqSent(u).active => ~HarqSent(u).ack)
    BY <1>7, SentType DEF SendSubframe, GridInv
  <2>2. ASSUME NEW u \in Ues
        PROVE  UeNewGrantUl(u) \in UeProcs
    BY <2>1, UeType DEF GridInv
  <2>3. ASSUME NEW u \in Ues
        PROVE  PhichSent(u) \in {"none", "ACK", "NACK"}
    BY <1>0 DEF PhichSent
  <2>4. /\ UNCHANGED <<fileVars, even, mask, blanked, queue, msg3, grant>> /\ step' = "sent"
        /\ phich' = [u \in Ues |-> PhichSent(u)]
        /\ harq' = [u \in Ues |-> HarqSent(u)]
        /\ ue' = [u \in Ues |-> UeNewGrantUl(u)]
    BY <1>7 DEF SendSubframe
  <2>5. RoomToCount'
    BY <2>1, <2>4 DEF RoomToCount
  <2> QED
    BY <1>0, <2>1, <2>2, <2>3, <2>4, <2>5, <1>a DEF fileVars, Steps
<1>8. CASE CrcInfo
  <2>1. PICK acked \in SUBSET Ues :
          harq' = [u \in Ues |-> IF u \in acked
                                 THEN [harq[u] EXCEPT !.ack = TRUE, !.active = FALSE]
                                 ELSE harq[u]]
    BY <1>8, Zenon DEF CrcInfo
  <2>2. ASSUME NEW h \in Harqs
        PROVE  /\ [h EXCEPT !.ack = TRUE, !.active = FALSE] \in Harqs
               /\ ~[h EXCEPT !.ack = TRUE, !.active = FALSE].active
    BY Zenon DEF Harqs
  <2>3. ASSUME NEW u \in Ues
        PROVE  harq'[u] \in Harqs /\ (harq'[u].active => harq[u].active /\ harq'[u].ack = harq[u].ack)
    <3>1. CASE u \in acked
      BY <1>0, <2>1, <2>2, <3>1, Zenon
    <3>2. CASE u \notin acked
      <4>1. harq'[u] = harq[u] /\ harq[u] \in Harqs
        BY <1>0, <2>1, <3>2, Zenon
      <4> QED
        BY <4>1
    <3> QED
      BY <3>1, <3>2
  <2>4. harq' \in [Ues -> Harqs]
    BY <2>1, <2>3, Zenon
  <2>5. /\ UNCHANGED <<fileVars, even, queue, ue>> /\ step' = "start"
        /\ mask' = {} /\ blanked' = {} /\ msg3' = {}
        /\ phich' = [u \in Ues |-> "none"]
    BY <1>8, Zenon DEF CrcInfo
  <2>6. RoomToCount'
    BY <1>0, <2>3, <2>5 DEF RoomToCount
  <2> QED
    BY <1>0, <1>c, <2>4, <2>5, <2>6, <1>a DEF fileVars, Steps
<1> QED
  BY <1>1, <1>2, <1>3, <1>4, <1>5, <1>6, <1>7, <1>8 DEF Next, Subframe

(***************************************************************************)
(* The types, and with them that neither side of the eNB's process counts  *)
(* more than maxharq_tx transmissions, skipped ones included.              *)
(***************************************************************************)
THEOREM TypeCorrect == Spec => []TypeOK
<1>1. Spec => [](GridInv /\ TypeInv)
  BY GridInit, GridStep, TypeInit, TypeStep, PTL DEF Spec
<1>2. TypeInv => TypeOK
  BY DEF TypeInv
<1> QED
  BY <1>1, <1>2, PTL

-----------------------------------------------------------------------------
\* What a UE was granted: something, and without a DCI only its last PRBs again.
GrantTaken(u) ==
    /\ grant[u].kind = "none" => grant[u] = NoGrant
    /\ grant[u].kind = "nonadapt" =>
           harq[u].active /\ ~harq[u].pdcchRequested /\ grant[u].prbs = harq[u].prbs

\* The UE is told of its last transmission in this subframe, or will be in the next.
Told(u) == IF step \in {"start", "sent"} THEN harq[u].pendingPhich ELSE phich[u] = "NACK"

(***************************************************************************)
(* The two sides of a process: the UE never toggles its NDI alone, counts  *)
(* no transmission the eNB does not, and, unless it was held back, has     *)
(* sent what the eNB may ask it for again by a NACK alone.                 *)
(***************************************************************************)
InStep(u) ==
    /\ ue[u].hasGrant => ue[u].ndi = harq[u].ndi
    /\ harq[u].active => ue[u].tx <= harq[u].rtx + 1
    /\ harq[u].active /\ ~harq[u].pdcchRequested =>
           ue[u].hasGrant /\ ue[u].sends = harq[u].prbs /\ Told(u)

SidesInv == UeKeepsToGrant /\ \A u \in Ues : GrantTaken(u) /\ InStep(u)

LEMMA SidesInit == Init => SidesInv
BY DEF Init, SidesInv, UeKeepsToGrant, GrantTaken, InStep, NoGrant, NewHarq, NewUe

\* Between the PHICHs and the results no side of a process changes.
LEMMA SidesRest ==
    ASSUME SidesInv, UNCHANGED <<harq, ue, phich>>, \A u \in Ues : GrantTaken(u)',
           step \notin {"start", "sent"}, step' \notin {"start", "sent"}
    PROVE  SidesInv'
BY DEF SidesInv, UeKeepsToGrant, InStep, Told

LEMMA AllocTakes ==
    ASSUME GridInv, SidesInv, NEW u \in Ues, NEW kind \in Kinds \ {"none"}, NEW prbs,
           AllocUlData(u, kind, prbs), harq' = harq,
           kind = "nonadapt" => harq[u].active /\ ~harq[u].pdcchRequested /\ prbs = harq[u].prbs
    PROVE  \A v \in Ues : GrantTaken(v)'
<1>1. /\ grant'[u] = [kind |-> kind, prbs |-> prbs]
      /\ \A v \in Ues : v # u => grant'[v] = grant[v]
  BY DEF AllocUlData, GridInv, GrantType
<1>2. ASSUME NEW v \in Ues PROVE GrantTaken(v)'
  BY <1>1 DEF SidesInv, GrantTaken
<1> QED
  BY <1>2

(***************************************************************************)
(* Every retransmission without a DCI repeats the last one.                *)
(***************************************************************************)
LEMMA UlUserTakes ==
    ASSUME GridInv, SidesInv, NEW u \in Ues, UlUser(u)
    PROVE  \A v \in Ues : GrantTaken(v)'
<1>0. harq' = harq
  BY DEF UlUser
<1>1. CASE NoAlloc
  BY <1>0, <1>1 DEF NoAlloc, SidesInv, GrantTaken
<1>2. CASE \E prbs : AllocUlData(u, "newtx", prbs)
  BY <1>0, <1>2, AllocTakes DEF Kinds
<1>3. CASE \E prbs : AllocUlData(u, "adapt", prbs)
  BY <1>0, <1>3, AllocTakes DEF Kinds
<1>4. CASE /\ AllocUlData(u, "nonadapt", harq[u].prbs)
           /\ harq[u].active /\ ~harq[u].pdcchRequested
  BY <1>0, <1>4, AllocTakes DEF Kinds
<1>5. CASE HasPendingRetx(harq[u])
  BY <1>1, <1>3, <1>4, <1>5 DEF UlUser, TryUlRetxAlloc, HasPendingRetx
<1>6. CASE ~HasPendingRetx(harq[u])
  BY <1>1, <1>2, <1>6 DEF UlUser, TryUlNewTx
<1> QED
  BY <1>5, <1>6

LEMMA NewTtiKeeps ==
    ASSUME NEW h \in Harqs, h.active => ~h.ack
    PROVE  LET n == HarqNewTti(h)
               q == IF n.pendingPhich THEN PopPendingPhich(n) ELSE n
           IN  /\ n \in Harqs /\ q.ndi = h.ndi
               /\ q.active =>
                      /\ h.active /\ n = h
                      /\ q.rtx = h.rtx /\ q.prbs = h.prbs /\ q.pdcchRequested = h.pdcchRequested
<1> DEFINE n == HarqNewTti(h)
<1>1. \A g \in Harqs : ResetPendingData(g).ndi = g.ndi /\ ~ResetPendingData(g).active
  BY Zenon DEF ResetPendingData, NewHarq, Harqs
<1>2. n \in Harqs
  BY NewTtiType
<1>3. n.ndi = h.ndi /\ (n.active => n = h)
  <2>1. [h EXCEPT !.active = FALSE].ndi = h.ndi /\ ~[h EXCEPT !.active = FALSE].active
    BY Zenon DEF Harqs
  <2> QED
    BY <1>1, <2>1, Zenon DEF HarqNewTti
<1> HIDE DEF n
<1> DEFINE p == [n EXCEPT !.pendingPhich = FALSE]
<1>4. /\ p \in Harqs /\ p.ndi = n.ndi /\ p.active = n.active /\ p.rtx = n.rtx
      /\ p.prbs = n.prbs /\ p.pdcchRequested = n.pdcchRequested
  BY <1>2, Zenon DEF Harqs
<1>5. PopPendingPhich(n) = IF n.active THEN p ELSE ResetPendingData(p)
  BY DEF PopPendingPhich
<1> HIDE DEF p
<1> DEFINE q == IF n.pendingPhich THEN PopPendingPhich(n) ELSE n
<1>6. q.ndi = h.ndi
  BY <1>1, <1>3, <1>4, <1>5, Zenon
<1>7. ASSUME q.active
      PROVE  n.active /\ q.rtx = n.rtx /\ q.prbs = n.prbs /\ q.pdcchRequested = n.pdcchRequested
  BY <1>1, <1>4, <1>5, <1>7, Zenon
<1>8. /\ n \in Harqs /\ q.ndi = h.ndi
      /\ q.active => /\ h.active /\ n = h
                     /\ q.rtx = h.rtx /\ q.prbs = h.prbs /\ q.pdcchRequested = h.pdcchRequested
  <2> HIDE DEF q
  <2> QED
    BY <1>2, <1>3, <1>6, <1>7
<1> QED
  BY <1>8 DEF n

(***************************************************************************)
(* The results of a subframe: the UE hears of every grant by a DCI, or by  *)
(* the NACK it repeats its last transmission on; a UE without a grant      *)
(* hears no NACK.                                                          *)
(***************************************************************************)
LEMMA SentAgrees ==
    ASSUME TypeInv, GridInv, SidesInv, step = "results", NEW u \in Ues
    PROVE  LET h == HarqSent(u)
               w == UeNewGrantUl(u)
           IN  /\ h.active => w.sends = grant[u].prbs
               /\ w.hasGrant => w.ndi = h.ndi
               /\ h.active => w.tx <= h.rtx + 1
               /\ h.active /\ ~h.pdcchRequested =>
                      w.hasGrant /\ w.sends = h.prbs /\ h.pendingPhich
               /\ grant[u].kind = "nonadapt" =>
                      h.active /\ ~h.pdcchRequested /\ grant[u].prbs = h.prbs
<1> DEFINE g == grant[u]
           e == harq[u]
           h == HarqSent(u)
           w == ue[u]
           hi == PhichSent(u) # "NACK"
           w0 == IF UeGivesUp(w, hi) THEN NewUe ELSE w
           v == UeNewGrantUl(u)
<1>1. e \in Harqs /\ g \in Grants /\ w \in UeProcs /\ MaxTx \in Nat
  BY MaxTxAssumption DEF TypeInv, TypeOK, Harqs, UeProcs, GridInv, GrantType
<1>2. /\ w.hasGrant => w.ndi = e.ndi
      /\ e.active => w.tx <= e.rtx + 1
      /\ e.active /\ ~e.pdcchRequested => w.hasGrant /\ w.sends = e.prbs /\ phich[u] = "NACK"
      /\ g.kind = "none" => g = NoGrant
      /\ g.kind = "nonadapt" => e.active /\ ~e.pdcchRequested /\ g.prbs = e.prbs
  BY DEF SidesInv, InStep, GrantTaken, Told
<1>3. e.active => e.rtx + 1 < MaxTx
  BY DEF TypeInv, RoomToCount
<1>4. /\ e.rtx \in Nat /\ e.ndi \in BOOLEAN /\ e.active \in BOOLEAN
      /\ w.tx \in Nat /\ w.hasGrant \in BOOLEAN /\ w.ndi \in BOOLEAN
  BY <1>1 DEF Harqs, UeProcs
<1>5. /\ w0 \in UeProcs
      /\ w0.hasGrant => w0 = w
      /\ w0 = w \/ w0.tx = 0
      /\ w.tx < MaxTx => w0 = w
  <2>1. NewUe \in UeProcs /\ ~NewUe.hasGrant /\ NewUe.tx = 0
    BY DEF NewUe, UeProcs
  <2>2. UeGivesUp(w, hi) => ~(w.tx < MaxTx)
    <3>1. UeGivesUp(w, hi) => w.tx >= MaxTx
      BY DEF UeGivesUp
    <3> HIDE DEF w, hi
    <3> QED
      BY <1>1, <1>4, <3>1
  <2> HIDE DEF w, hi
  <2> QED
    BY <1>1, <2>1, <2>2
<1>6. w0.tx \in Nat /\ w0.ndi \in BOOLEAN /\ w0.hasGrant \in BOOLEAN
  BY <1>5 DEF UeProcs
<1> DEFINE tx    == IF h.ndi # w0.ndi \/ ~w0.hasGrant THEN 1 ELSE w0.tx + 1
           taken == [hasGrant |-> TRUE, ndi |-> h.ndi, sends |-> g.prbs, tx |-> tx]
           again == [w0 EXCEPT !.tx = w0.tx + 1]
           quiet == [w0 EXCEPT !.sends = {}]
<1>7. v = IF Signalled(u) THEN taken
          ELSE IF w.sends # {} /\ ~hi /\ w0.hasGrant THEN again ELSE quiet
  BY Zenon DEF UeNewGrantUl
<1>8. /\ taken.hasGrant /\ taken.ndi = h.ndi /\ taken.sends = g.prbs /\ taken.tx = tx
  OBVIOUS
<1>9. /\ again.hasGrant = w0.hasGrant /\ again.ndi = w0.ndi /\ again.sends = w0.sends
      /\ again.tx = w0.tx + 1
  BY <1>5, Zenon DEF UeProcs
<1>10. /\ quiet.hasGrant = w0.hasGrant /\ quiet.ndi = w0.ndi /\ quiet.sends = {}
       /\ quiet.tx = w0.tx
  BY <1>5, Zenon DEF UeProcs
<1>11. CASE g = NoGrant
  <2>1. ~Signalled(u) /\ g.prbs = {} /\ g.kind = "none"
    BY <1>11 DEF Signalled, NoGrant
  <2>2. h = IF e.active THEN HarqRetxSkipped(e) ELSE e
    BY <1>11 DEF HarqSent
  <2>3. LET k == HarqRetxSkipped(e)
        IN  k.active = e.active /\ k.pdcchRequested /\ k.rtx = e.rtx + 1 /\ k.ndi = e.ndi
    <3>1. \A x \in Harqs : LET k == HarqRetxSkipped(x)
                           IN  k.active = x.active /\ k.pdcchRequested /\ k.rtx = x.rtx + 1 /\ k.ndi = x.ndi
      BY Zenon DEF HarqRetxSkipped, Harqs
    <3> QED
      BY <1>1, <3>1, Zenon
  <2>4. h.active = e.active /\ h.ndi = e.ndi /\ (h.active => h.pdcchRequested /\ h.rtx = e.rtx + 1)
    BY <2>2, <2>3, Zenon
  <2>5. e.active => hi
    BY <1>11 DEF PhichSent
  <2>6. v = quiet \/ (v = again /\ ~e.active)
    BY <1>7, <2>1, <2>5
  <2> HIDE DEF h, v, w0, hi, again, quiet, taken, tx, w, e, g
  <2>7. /\ h.active => v.sends = g.prbs
        /\ v.hasGrant => v.ndi = h.ndi
        /\ h.active => v.tx <= h.rtx + 1
        /\ h.active => h.pdcchRequested
        /\ g.kind # "nonadapt"
    BY <1>2, <1>4, <1>5, <1>6, <1>9, <1>10, <2>1, <2>4, <2>6
  <2> QED
    BY <2>7 DEF h, v, g
<1>12. CASE g # NoGrant /\ Signalled(u)
  <2>1. v = taken /\ g.kind # "nonadapt"
    BY <1>7, <1>12 DEF Signalled
  <2>2. h = IF e.active THEN HarqNewRetx(e, g) ELSE HarqNewTx(e, g)
    BY <1>12 DEF HarqSent
  <2>3. /\ h.active /\ ~h.pdcchRequested /\ h.pendingPhich /\ h.prbs = g.prbs
        /\ e.active => h.rtx = e.rtx + 1 /\ h.ndi = e.ndi
        /\ ~e.active => h.rtx = 0 /\ h.ndi = ~e.ndi
    BY <2>2 DEF HarqNewRetx, HarqNewTx
  <2>4. tx <= h.rtx + 1
    <3>1. CASE e.active
      <4>1. tx = 1 \/ tx = w0.tx + 1
        BY Zenon DEF tx
      <4> HIDE DEF h, v, w0, hi, again, quiet, taken, tx, w, e, g
      <4> QED
        BY <1>2, <1>4, <1>5, <1>6, <2>3, <3>1, <4>1
    <3>2. CASE ~e.active
      <4>1. w0.hasGrant => w0.ndi = e.ndi
        BY <1>2, <1>5
      <4>2. tx = 1
        BY <1>4, <1>6, <2>3, <3>2, <4>1
      <4> HIDE DEF h, tx, e
      <4> QED
        BY <2>3, <3>2, <4>2
    <3> QED
      BY <3>1, <3>2
  <2> HIDE DEF h, v, w0, hi, again, quiet, taken, tx, w, e, g
  <2>5. /\ v.sends = g.prbs /\ v.ndi = h.ndi /\ v.hasGrant /\ v.tx <= h.rtx + 1
    BY <1>8, <2>1, <2>4
  <2> QED
    BY <2>1, <2>3, <2>5 DEF h, v, g
<1>13. CASE g # NoGrant /\ ~Signalled(u)
  <2>1. g.kind = "nonadapt"
    BY <1>1, <1>2, <1>13 DEF Signalled, Grants, Kinds
  <2>2. /\ e.active /\ ~e.pdcchRequested /\ g.prbs = e.prbs
        /\ w.hasGrant /\ w.sends = e.prbs /\ phich[u] = "NACK"
    BY <1>2, <2>1
  <2>3. h = HarqNewRetx(e, g)
    BY <1>13, <2>2 DEF HarqSent
  <2>4. /\ h.active /\ ~h.pdcchRequested /\ h.pendingPhich /\ h.prbs = g.prbs
        /\ h.rtx = e.rtx + 1 /\ h.ndi = e.ndi
    BY <2>3 DEF HarqNewRetx
  <2>5. ~hi
    BY <1>13, <2>2 DEF PhichSent
  <2>6. w0 = w
    <3>1. w.tx < MaxTx
      <4> HIDE DEF w, e
      <4> QED
        BY <1>1, <1>2, <1>3, <1>4, <2>2
    <3> QED
      BY <1>5, <3>1
  <2>7. v = again \/ (v = quiet /\ w.sends = {})
    <3> HIDE DEF v, w0, hi, again, quiet, taken, w
    <3> QED
      BY <1>7, <1>13, <2>2, <2>5, <2>6
  <2> HIDE DEF h, v, w0, hi, again, quiet, taken, tx, w, e, g
  <2>8. v.sends = g.prbs /\ v.ndi = h.ndi /\ v.hasGrant
    BY <1>2, <1>9, <1>10, <2>2, <2>4, <2>6, <2>7
  <2>9. v.tx = w.tx + 1 \/ v.tx = w.tx
    BY <1>9, <1>10, <2>6, <2>7, Zenon
  <2>10. v.tx <= h.rtx + 1
    BY <1>2, <1>4, <2>2, <2>4, <2>9
  <2> QED
    BY <2>1, <2>4, <2>8, <2>10 DEF h, v, g
<1> QED
  BY <1>11, <1>12, <1>13

LEMMA SidesStep == TypeInv /\ GridInv /\ SidesInv /\ [Next]_vars => SidesInv'
<1> SUFFICES ASSUME TypeInv, GridInv, SidesInv, [Next]_vars
             PROVE  SidesInv'
  OBVIOUS
<1>1. CASE OpenPrbFile \/ WritePrbFile \/ DlUsersDone \/ BlankPrbs \/ UlUsersDone
  <2>1. /\ UNCHANGED <<harq, ue, phich, grant>>
        /\ step \notin {"start", "sent"} /\ step' \notin {"start", "sent"}
    BY <1>1 DEF OpenPrbFile, WritePrbFile, DlUsersDone, BlankPrbs, UlUsersDone, gridVars
  <2>2. \A u \in Ues : GrantTaken(u)'
    BY <2>1 DEF SidesInv, GrantTaken
  <2> QED
    BY <2>1, <2>2, SidesRest
<1>2. CASE \E u \in Ues : UciGrant(u)
  <2>1. PICK u \in Ues : UciGrant(u)
    BY <1>2
  <2>2. PICK size \in Requests : AllocUlData(u, "uci", FindUlAlloc(size, mask))
    BY <2>1 DEF UciGrant
  <2>3. UNCHANGED <<harq, ue, phich>> /\ step = "dl" /\ step' = "dl"
    BY <2>1 DEF UciGrant
  <2>4. "uci" \in Kinds \ {"none"} /\ "uci" # "nonadapt"
    BY DEF Kinds
  <2>5. \A v \in Ues : GrantTaken(v)'
    BY <2>2, <2>3, <2>4, AllocTakes
  <2> QED
    BY <2>3, <2>5, SidesRest
<1>3. CASE \E u \in Ues : UlUser(u)
  <2>1. PICK u \in Ues : UlUser(u)
    BY <1>3
  <2>2. UNCHANGED <<harq, ue, phich>> /\ step = "users" /\ step' = "users"
    BY <2>1 DEF UlUser
  <2>3. \A v \in Ues : GrantTaken(v)'
    BY <2>1, UlUserTakes
  <2> QED
    BY <2>2, <2>3, SidesRest
<1>4. CASE NewSubframe
  <2>1. /\ step = "start" /\ step' \notin {"start", "sent"} /\ ue' = ue
        /\ grant' = [u \in Ues |-> NoGrant]
        /\ phich' = [u \in Ues |-> PhichOf(HarqNewTti(harq[u]))]
        /\ harq' = [u \in Ues |-> LET h == HarqNewTti(harq[u])
                                  IN  IF h.pendingPhich THEN PopPendingPhich(h) ELSE h]
    BY <1>4 DEF NewSubframe
  <2>2. ASSUME NEW u \in Ues
        PROVE  GrantTaken(u)' /\ InStep(u)'
    <3> DEFINE n == HarqNewTti(harq[u])
    <3>1. harq[u] \in Harqs /\ (harq[u].active => ~harq[u].ack)
      BY DEF TypeInv, TypeOK, Harqs, RoomToCount
    <3>2. /\ harq'[u].ndi = harq[u].ndi
          /\ harq'[u].active =>
                 /\ harq[u].active /\ n = harq[u]
                 /\ harq'[u].rtx = harq[u].rtx /\ harq'[u].prbs = harq[u].prbs
                 /\ harq'[u].pdcchRequested = harq[u].pdcchRequested
      BY <2>1, <3>1, NewTtiKeeps
    <3>3. phich'[u] = PhichOf(n)
      BY <2>1
    <3> HIDE DEF n
    <3>4. InStep(u)
      BY DEF SidesInv
    <3>5. harq'[u].active /\ harq[u].pendingPhich => phich'[u] = "NACK"
      BY <3>1, <3>2, <3>3 DEF PhichOf
    <3>6. InStep(u)'
      BY <2>1, <3>2, <3>4, <3>5 DEF InStep, Told
    <3>7. GrantTaken(u)'
      BY <2>1 DEF GrantTaken, NoGrant
    <3> QED
      BY <3>6, <3>7
  <2> QED
    BY <2>1, <2>2 DEF SidesInv, UeKeepsToGrant
<1>5. CASE SendSubframe
  <2>1. /\ step = "results" /\ step' = "sent" /\ grant' = grant
        /\ harq' = [u \in Ues |-> HarqSent(u)]
        /\ ue' = [u \in Ues |-> UeNewGrantUl(u)]
    BY <1>5 DEF SendSubframe
  <2>2. ASSUME NEW u \in Ues
        PROVE  /\ GrantTaken(u)' /\ InStep(u)'
               /\ harq'[u].active => ue'[u].sends = grant'[u].prbs
    <3>1. harq'[u] = HarqSent(u) /\ ue'[u] = UeNewGrantUl(u)
      BY <2>1
    <3>2. grant[u].kind = "none" => grant[u] = NoGrant
      BY DEF SidesInv, GrantTaken
    <3>3. NoGrant' = NoGrant
      BY DEF NoGrant
    <3>4. /\ harq'[u].active => ue'[u].sends = grant[u].prbs
          /\ ue'[u].hasGrant => ue'[u].ndi = harq'[u].ndi
          /\ harq'[u].active => ue'[u].tx <= harq'[u].rtx + 1
          /\ harq'[u].active /\ ~harq'[u].pdcchRequested =>
                 ue'[u].hasGrant /\ ue'[u].sends = harq'[u].prbs /\ harq'[u].pendingPhich
          /\ grant[u].kind = "nonadapt" =>
                 harq'[u].active /\ ~harq'[u].pdcchRequested /\ grant[u].prbs = harq'[u].prbs
      BY <2>1, <3>1, SentAgrees
    <3> QED
      BY <2>1, <3>2, <3>3, <3>4 DEF GrantTaken, InStep, Told
  <2> QED
    BY <2>2 DEF SidesInv, UeKeepsToGrant
<1>6. CASE CrcInfo
  <2>1. /\ step = "sent" /\ step' = "start" /\ ue' = ue
        /\ grant' = [u \in Ues |-> NoGrant]
    BY <1>6 DEF CrcInfo
  <2>2. PICK acked \in SUBSET Ues :
          harq' = [u \in Ues |-> IF u \in acked
                                 THEN [harq[u] EXCEPT !.ack = TRUE, !.active = FALSE]
                                 ELSE harq[u]]
    BY <1>6, Zenon DEF CrcInfo
  <2>3. ASSUME NEW h \in Harqs
        PROVE  /\ ~[h EXCEPT !.ack = TRUE, !.active = FALSE].active
               /\ [h EXCEPT !.ack = TRUE, !.active = FALSE].ndi = h.ndi
    BY Zenon DEF Harqs
  <2>4. ASSUME NEW u \in Ues
        PROVE  harq'[u] = harq[u] \/ (~harq'[u].active /\ harq'[u].ndi = harq[u].ndi)
    <3>1. harq[u] \in Harqs
      BY DEF TypeInv, TypeOK, Harqs
    <3> QED
      BY <2>2, <2>3, <3>1, Zenon
  <2>5. ASSUME NEW u \in Ues PROVE GrantTaken(u)' /\ InStep(u)'
    <3>1. InStep(u)
      BY DEF SidesInv
    <3>2. InStep(u)'
      BY <2>1, <2>4, <3>1 DEF InStep, Told
    <3>3. GrantTaken(u)'
      BY <2>1 DEF GrantTaken, NoGrant
    <3> QED
      BY <3>2, <3>3
  <2> QED
    BY <2>1, <2>5 DEF SidesInv, UeKeepsToGrant
<1>7. CASE UNCHANGED vars
  BY <1>7 DEF vars, fileVars, gridVars, SidesInv, UeKeepsToGrant, GrantTaken, InStep, Told, NoGrant
<1> QED
  BY <1>1, <1>2, <1>3, <1>4, <1>5, <1>6, <1>7 DEF Next, Subframe

(***************************************************************************)
(* Whatever is blanked and however often a UE finds no room, a UE whose    *)
(* data the eNB still holds sends on the PRBs it was granted and on no     *)
(* others (UeKeepsToGrant).                                                *)
(***************************************************************************)
THEOREM UesKeepToGrants == Spec => []UeKeepsToGrant
<1>1. Spec => [](TypeInv /\ GridInv /\ SidesInv)
  BY TypeInit, TypeStep, GridInit, GridStep, SidesInit, SidesStep, PTL DEF Spec
<1>2. SidesInv => UeKeepsToGrant
  BY DEF SidesInv
<1> QED
  BY <1>1, <1>2, PTL
=============================================================================
