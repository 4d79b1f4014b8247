----------------------------- MODULE SlicedCell -----------------------------
(***************************************************************************)
(* A cell with slices: the RRC, which hands the slicer the identities it   *)
(* sees in the UEs' messages (rrc_ue.cc), the MAC, which gives out RNTIs   *)
(* and asks for the slice of a subframe, and the RIC's control requests.   *)
(* The slicer is enabled.  As slicer.md asks, the core network starts with *)
(* the eNB, so that a UE whose TMSI is not known yet is asked for its      *)
(* IMSI.  Nothing in the source calls get_cur_sf_crntis() at this commit;  *)
(* it is modelled as the interface the sliced schedulers are written for.  *)
(***************************************************************************)
EXTENDS NexRan

CONSTANTS
    MaxRntis,     \* bound: RNTIs given out
    MaxEvents     \* bound: RNTIs given out and control requests together

ASSUME CellAssumption == MaxRntis \in Nat /\ MaxEvents \in Nat

VARIABLES
    rntiOf,        \* the RNTI of each UE, 0 where it is idle; a UE is named by its IMSI
    tmsiOf,        \* the TMSI the core has given it, 0 for none
    identified,    \* UEs whose identity the RRC has handed over on this connection
    oldRnti,       \* old_reest_rnti of each UE whose Complete is awaited, 0 for the others
    counter,       \* mac::ue_counter, RNTIs given out so far
    strayed        \* how the slicer may have lost track of a UE (observed)

ueVars == <<rntiOf, tmsiOf, identified, oldRnti>>
cellVars == <<ueVars, counter, strayed>>
vars == <<slicerVars, nexVars, cellVars>>

TypeOK ==
    /\ SlicerTypeOK /\ NexTypeOK
    /\ rntiOf \in [Imsis -> Rntis \cup {0}]
    /\ tmsiOf \in [Imsis -> Tmsis \cup {0}]
    /\ identified \in SUBSET Imsis
    /\ oldRnti \in [Imsis -> Rntis \cup {0}]
    /\ counter \in 0 .. MaxRntis
    /\ strayed \in SUBSET {"reused", "untold"}

Init ==
    /\ SlicerInit /\ NexInit
    /\ rntiOf = [u \in Imsis |-> 0] /\ tmsiOf = [u \in Imsis |-> 0]
    /\ identified = {} /\ oldRnti = [u \in Imsis |-> 0]
    /\ counter = 0 /\ strayed = {}

-----------------------------------------------------------------------------
\* allocate_ue(): the counter goes round the RNTIs, past those in use.
RntiAt(c) == (c % NumRntis) + 1
NextRnti(r) ==
    \E c \in counter .. MaxRntis - 1 :
        /\ r = RntiAt(c) /\ counter' = c + 1
        /\ \A u \in Imsis : rntiOf[u] # r
        /\ \A d \in counter .. c - 1 : \E u \in Imsis : rntiOf[u] = RntiAt(d)

\* The slicer takes v to have RNTI r, or will when v's re-establishment completes.
TakenFor(v, r) == oldRnti[v] = r \/ (v \in DOMAIN imsiToCrnti /\ imsiToCrnti[v] = r)

\* u goes on under RNTI r.  It strays if r is still taken for another UE's, or if u fails
\* again before the slicer was told of the RNTI it now loses.
GoesUnder(u, r) ==
    /\ NextRnti(r) /\ counter' + requests <= MaxEvents
    /\ rntiOf' = [rntiOf EXCEPT ![u] = r]
    /\ strayed' = strayed
          \cup (IF \E v \in Imsis \ {u} : TakenFor(v, r) THEN {"reused"} ELSE {})
          \cup (IF u \in identified /\ oldRnti[u] # 0 THEN {"untold"} ELSE {})

Others == UNCHANGED <<nexSlices, ues, asked, requests>> /\ answer' = "none"

\* A UE connects without a TMSI: its connection request has a random identity.
Connect(u) ==
    /\ alive /\ rntiOf[u] = 0 /\ tmsiOf[u] = 0
    /\ \E r \in Rntis : GoesUnder(u, r)
    /\ UNCHANGED <<slicerVars, tmsiOf, identified, oldRnti>> /\ Others

\* A UE connects with its TMSI in the connection request (or, later on the same
\* connection, in its attach request: the slicer is told the same again).
ConnectWithTmsi(u) ==
    /\ alive /\ rntiOf[u] = 0 /\ tmsiOf[u] # 0
    /\ \E r \in Rntis : GoesUnder(u, r) /\ UpdMemberTmsi(tmsiOf[u], r)
    /\ identified' = identified \cup {u}
    /\ UNCHANGED <<tmsiOf, oldRnti>> /\ Others

\* An attach request or an identity response with the IMSI.
CaptureImsi(u) ==
    /\ alive /\ rntiOf[u] # 0 /\ oldRnti[u] = 0
    /\ UpdMemberImsi(u, rntiOf[u])
    /\ identified' = identified \cup {u}
    /\ UNCHANGED <<rntiOf, tmsiOf, oldRnti, counter, strayed>> /\ Others

\* The attach accept carries a TMSI no other UE has, and passes through the RRC.
AttachAccept(u) ==
    /\ alive /\ rntiOf[u] # 0 /\ oldRnti[u] = 0 /\ u \in identified
    /\ \E t \in Tmsis :
          /\ \A v \in Imsis : tmsiOf[v] # t
          /\ tmsiOf' = [tmsiOf EXCEPT ![u] = t]
          /\ UpdMemberTmsi(t, rntiOf[u])
    /\ UNCHANGED <<rntiOf, identified, oldRnti, counter, strayed>> /\ Others

\* After a radio failure the UE goes on under a new RNTI, and the old one is given back.
\* It may fail again before the Complete: the RNTI it then gives up is the new one.
ReestablishRequest(u) ==
    /\ alive /\ rntiOf[u] # 0
    /\ \E r \in Rntis : GoesUnder(u, r)
    /\ oldRnti' = [oldRnti EXCEPT ![u] = rntiOf[u]]
    /\ UNCHANGED <<slicerVars, tmsiOf, identified>> /\ Others

\* Only the Complete tells the slicer; NAS messages follow it.
ReestablishComplete(u) ==
    /\ alive /\ oldRnti[u] # 0
    /\ UpdMemberRnti(oldRnti[u], rntiOf[u])
    /\ oldRnti' = [oldRnti EXCEPT ![u] = 0]
    /\ UNCHANGED <<rntiOf, tmsiOf, identified, counter, strayed>> /\ Others

\* The UE becomes idle, or detaches and gives its TMSI back, or its Complete does not come.
\* The slicer is not told.
Release(u) ==
    /\ alive /\ rntiOf[u] # 0
    /\ rntiOf' = [rntiOf EXCEPT ![u] = 0] /\ oldRnti' = [oldRnti EXCEPT ![u] = 0]
    /\ identified' = identified \ {u}
    /\ \E t \in {tmsiOf[u], 0} : tmsiOf' = [tmsiOf EXCEPT ![u] = t]
    /\ UNCHANGED <<slicerVars, counter, strayed>> /\ Others

UeSteps(u) ==
    \/ Connect(u) \/ ConnectWithTmsi(u) \/ CaptureImsi(u) \/ AttachAccept(u)
    \/ ReestablishRequest(u) \/ ReestablishComplete(u) \/ Release(u)

Subframe == alive /\ GetCurSfCrntis /\ Others /\ UNCHANGED cellVars

Control ==
    /\ counter + requests < MaxEvents \/ asked # None
    /\ HandleControl
    /\ UNCHANGED cellVars

Next == (\E u \in Imsis : UeSteps(u)) \/ Subframe \/ Control

Spec == Init /\ [][Next]_vars

-----------------------------------------------------------------------------
\* How many subframes of a cycle are the slice's.
SubframesOf(name) == Cardinality({sf \in DOMAIN sfAlloc : SliceOrder(slices)[sfAlloc[sf] + 1] = name})

(***************************************************************************)
(* The slices have subframes in proportion to their shares, and no shorter *)
(* cycle has (upd_sf_alloc: "the smallest total subframe allocation that   *)
(* maintains proportionality").                                            *)
(***************************************************************************)
CycleIsProportional ==
    alive /\ slices # <<>> =>
        /\ \A m, n \in DOMAIN slices :
              SubframesOf(m) * slices[n].share = SubframesOf(n) * slices[m].share
        /\ \E n \in DOMAIN slices : SubframesOf(n) > 0
        /\ ~ \E d \in 2 .. Len(sfAlloc) : \A n \in DOMAIN slices : SubframesOf(n) % d = 0

(***************************************************************************)
(* The index into the cycle and every place in the cycle exist, whatever   *)
(* configurations and deletions come between two subframes                 *)
(* (get_cur_sf_crntis checks neither).                                     *)
(***************************************************************************)
CycleWithinBounds ==
    alive /\ sfAlloc # <<>> =>
        /\ allocIndex < Len(sfAlloc)
        /\ \A sf \in DOMAIN sfAlloc : sfAlloc[sf] < Cardinality(DOMAIN slices)

\* UEs whose identity was handed over and that are not in the middle of a re-establishment.
Settled == {u \in identified : oldRnti[u] = 0}

KnownToSlicer(u) ==
    /\ u \in DOMAIN imsiToCrnti /\ imsiToCrnti[u] = rntiOf[u]
    /\ \A v \in DOMAIN imsiToCrnti \ {u} : imsiToCrnti[v] # rntiOf[u]

(***************************************************************************)
(* The slicer knows the RNTI of every settled UE and takes no other UE to  *)
(* have it, through attaches, TMSIs handed on between UEs, the two steps   *)
(* of re-establishments, releases and RNTIs given out again (slicer.md:    *)
(* "must harvest and track the IMSI-to-RNTI mapping"); unless an RNTI was  *)
(* given out while it was still taken for another UE's, or a UE failed     *)
(* twice before one Complete.                                              *)
(***************************************************************************)
MappingTracked == strayed = {} => \A u \in Settled : KnownToSlicer(u)

(***************************************************************************)
(* A settled UE that is bound to a slice is served in the slice's          *)
(* subframes, whichever came first, and counts as a UE of some slice       *)
(* (upd_slice_crntis keeps the lists of RNTIs apart from the members); but *)
(* for the two cases in which the slicer loses track of UEs.               *)
(***************************************************************************)
ServedInItsSlice ==
    alive /\ strayed = {} => \A n \in DOMAIN slices : \A u \in slices[n].imsis \cap Settled :
        /\ n \in DOMAIN sliceCrntis
        /\ rntiOf[u] \in sliceCrntis[n] /\ rntiOf[u] \in allCrntis

(***************************************************************************)
(* The slicer has every slice the service model lists, with the same       *)
(* share: the two tables are kept apart and never compared                 *)
(* (nexran_model::slices, slicer::slices).                                 *)
(***************************************************************************)
ModelKnowsTheSlices ==
    alive => \A n \in DOMAIN nexSlices : n \in DOMAIN slices /\ slices[n].share = nexSlices[n]

(***************************************************************************)
(* A request that is refused has changed nothing, in neither table         *)
(* (handle_control: "We need to delete all or none").                      *)
(***************************************************************************)
RefusalsChangeNothing ==
    [][answer' = "failure" => UNCHANGED <<slicerVars, nexSlices, ues>>]_vars

(***************************************************************************)
(* The status report of an acknowledgement shows the request carried out,  *)
(* and a settled UE it has bound with the RNTI it has by then, though      *)
(* other threads call the slicer in between (handle_control asks for the   *)
(* status in a call of its own); the RNTIs only where none has strayed.    *)
(***************************************************************************)
ReportShows(status, request) ==
    CASE request.op = "config" -> \A n \in DOMAIN request.shares : status[n].share = request.shares[n]
      [] request.op = "delete" -> request.names \cap DOMAIN status = {}
      [] request.op = "bind"   ->
            /\ request.imsis \subseteq status[request.name].imsis
            /\ strayed = {} => \A u \in request.imsis \cap Settled :
                  status[request.name].crnti[u] = rntiOf[u]
      [] request.op = "unbind" -> request.imsis \cap status[request.name].imsis = {}
      [] OTHER -> TRUE
ReportShowsTheRequest == [][answer' = "success" => ReportShows(SliceStatus, asked)]_vars

-----------------------------------------------------------------------------
\* What the sources say and the code does not keep: TLC refutes each of these.

(***************************************************************************)
(* The mapping follows a UE in the middle of its re-establishment          *)
(* (slicer.md: "must harvest and track the IMSI-to-RNTI mapping"): until   *)
(* the Complete the slicer has the RNTI that was given back.               *)
(***************************************************************************)
TrackedBeforeComplete == strayed = {} => \A u \in identified : KnownToSlicer(u)

(***************************************************************************)
(* It is kept when RNTIs go round and one comes to a UE that the slicer    *)
(* still takes for an idle one's (the same words of slicer.md).            *)
(***************************************************************************)
TrackedThroughReuse == "untold" \notin strayed => \A u \in Settled : KnownToSlicer(u)

(***************************************************************************)
(* It is kept when a UE fails a second time before its Complete (the same  *)
(* words of slicer.md): the Complete names an RNTI the slicer never saw.   *)
(***************************************************************************)
TrackedThroughFailures == "reused" \notin strayed => \A u \in Settled : KnownToSlicer(u)

(***************************************************************************)
(* A subframe of a slice is for RNTIs of the slice's own UEs (slicer.md:   *)
(* "UEs from the slice that owns the current subframe are scheduled        *)
(* first").                                                                *)
(***************************************************************************)
SubframeServesItsSlice ==
    alive => \A n \in DOMAIN slices \cap DOMAIN sliceCrntis :
        sliceCrntis[n] \subseteq RntisOf(slices[n].imsis, imsiToCrnti)

(***************************************************************************)
(* Nor is an identified UE served in a slice it is not bound to            *)
(* (slicer.md: UEs "that don't belong to any of the slices [...] will also *)
(* be scheduled after").                                                   *)
(***************************************************************************)
OnlyMembersInSlice ==
    alive => \A u \in identified : \A n \in DOMAIN sliceCrntis :
        rntiOf[u] \in sliceCrntis[n] => n \in DOMAIN slices /\ u \in slices[n].imsis

(***************************************************************************)
(* No request within the bounds of the service model's definition ends the *)
(* eNB (e2sm-nexran-v01.00.asn1: "share INTEGER (0..1024)").               *)
(***************************************************************************)
LegalRequestsSurvive == alive

(***************************************************************************)
(* Only UEs a request names leave the service model's list: a UE the       *)
(* slicer holds in a slice is in the model's list too, and can be unbound  *)
(* (handle_control: "unbound slice %s from IMSI %s" for each that leaves). *)
(***************************************************************************)
BoundUesAreListed ==
    alive => \A n \in DOMAIN nexSlices : slices[n].imsis \subseteq Values(ues[n])

=============================================================================
