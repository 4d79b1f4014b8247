-------------------------- MODULE SlicedCell_proofs --------------------------
(***************************************************************************)
(* Proofs, for any number of UEs, slices and requests: the slicer follows  *)
(* the UEs of a cell and serves them in their slices, until an RNTI is     *)
(* given out that it takes for another UE's or a UE fails twice before one *)
(* Complete; the service model's table and the slicer's agree; and the     *)
(* cycle of subframes keeps to the shares, whatever they are.              *)
(***************************************************************************)
EXTENDS SlicedCell, FiniteSetTheorems, SequenceTheorems, WellFoundedInduction, TLAPS

-----------------------------------------------------------------------------
\* What every UE and every entry of the two maps satisfies.
UeTypes ==
    /\ rntiOf \in [Imsis -> Rntis \cup {0}] /\ oldRnti \in [Imsis -> Rntis \cup {0}]
    /\ tmsiOf \in [Imsis -> Tmsis \cup {0}]
    /\ identified \subseteq Imsis

MapTypes ==
    /\ DOMAIN imsiToCrnti \subseteq Imsis
    /\ \A i \in DOMAIN imsiToCrnti : imsiToCrnti[i] \in Rntis

\* No two UEs share an RNTI, new or old, or a TMSI; who re-establishes is connected.
Distinct ==
    /\ \A u, v \in Imsis : u # v =>
          /\ rntiOf[u] = rntiOf[v] => rntiOf[u] = 0
          /\ oldRnti[u] # 0 => oldRnti[u] # rntiOf[v] /\ oldRnti[u] # oldRnti[v]
          /\ tmsiOf[u] = tmsiOf[v] => tmsiOf[u] = 0
    /\ \A u \in Imsis : oldRnti[u] # 0 => rntiOf[u] # 0

\* An identified UE is mapped to its RNTI, the old one before its Complete; nobody else is
\* mapped to an RNTI of a connected UE; and its TMSI leads to each UE that has one.
Followed ==
    /\ \A u \in identified :
          /\ rntiOf[u] # 0 /\ u \in DOMAIN imsiToCrnti
          /\ oldRnti[u] = 0 => imsiToCrnti[u] = rntiOf[u]
          /\ oldRnti[u] # 0 => imsiToCrnti[u] = oldRnti[u]
    /\ \A u \in Imsis : \A v \in DOMAIN imsiToCrnti :
          u # v /\ rntiOf[u] # 0 => imsiToCrnti[v] # rntiOf[u] /\ imsiToCrnti[v] # oldRnti[u]
    /\ \A u \in Imsis :
          tmsiOf[u] # 0 => tmsiOf[u] \in DOMAIN tmsiToImsi /\ tmsiToImsi[tmsiOf[u]] = u

Tracking == UeTypes /\ MapTypes /\ Distinct /\ Followed

\* Until it strays, that is.
IdInv == strayed = {} => Tracking

\* A member whose RNTI is known is in the lists of its slice.
Serves(table, known, cache, all) ==
    \A n \in DOMAIN table : \A u \in table[n].imsis \cap DOMAIN known :
        n \in DOMAIN cache /\ known[u] \in cache[n] /\ known[u] \in all

ServeInv ==
    /\ \A n \in DOMAIN slices : slices[n] \in [share : Shares, imsis : SUBSET Imsis]
    /\ Serves(slices, imsiToCrnti, sliceCrntis, allCrntis)

-----------------------------------------------------------------------------
(***************************************************************************)
(* An RNTI given out is nobody's, and while nothing strays no other UE's   *)
(* in the eyes of the slicer (mac::allocate_ue).                           *)
(***************************************************************************)
LEMMA FreshRnti ==
    ASSUME Tracking, NEW u \in Imsis, NEW r \in Rntis, GoesUnder(u, r), strayed' = {}
    PROVE  /\ rntiOf' = [rntiOf EXCEPT ![u] = r] /\ r # 0
           /\ \A v \in Imsis : rntiOf[v] # r
           /\ \A v \in Imsis \ {u} : oldRnti[v] # r
           /\ \A v \in DOMAIN imsiToCrnti \ {u} : imsiToCrnti[v] # r
           /\ u \in identified => oldRnti[u] = 0
<1>1. r \in Nat /\ r # 0
      BY SlicerAssumption DEF Rntis
<1>2. rntiOf' = [rntiOf EXCEPT ![u] = r] /\ \A v \in Imsis : rntiOf[v] # r
      BY DEF GoesUnder, NextRnti
<1>3. /\ ~ \E v \in Imsis \ {u} : TakenFor(v, r)
      /\ ~ (u \in identified /\ oldRnti[u] # 0)
      BY DEF GoesUnder
<1>4. DOMAIN imsiToCrnti \subseteq Imsis
      BY DEF Tracking, MapTypes
<1> QED
      BY <1>1, <1>2, <1>3, <1>4 DEF TakenFor

(***************************************************************************)
(* A search for an RNTI that no other UE is mapped to finds this UE or     *)
(* nobody (HolderOf is the search through imsi_to_crnti).                  *)
(***************************************************************************)
LEMMA OnlyHolder ==
    ASSUME MapTypes, NEW u \in Imsis, NEW r,
           \A v \in DOMAIN imsiToCrnti \ {u} : imsiToCrnti[v] # r
    PROVE  /\ HolderOf(r) \in {0, u}
           /\ u \in DOMAIN imsiToCrnti /\ imsiToCrnti[u] = r => HolderOf(r) = u
<1> DEFINE holders == {i \in DOMAIN imsiToCrnti : imsiToCrnti[i] = r}
<1>1. /\ holders \subseteq {u}
      /\ u \in DOMAIN imsiToCrnti /\ imsiToCrnti[u] = r => u \in holders
      OBVIOUS
<1>2. u \in Nat /\ u # 0
      BY SlicerAssumption
<1>3. CASE holders = {}
      BY <1>1, <1>3 DEF HolderOf
<1>4. CASE holders = {u}
      <2>1. u <= u
            BY <1>2
      <2>2. (CHOOSE i \in holders : \A j \in holders : i <= j) = u
            BY <1>4, <2>1
      <2> QED
            BY <1>4, <2>2 DEF HolderOf
<1> QED
      BY <1>1, <1>3, <1>4

(***************************************************************************)
(* What SetCrnti does to the map (imsi_to_crnti[imsi] = crnti).            *)
(***************************************************************************)
LEMMA CrntiSet ==
    ASSUME NEW u, NEW r, SetCrnti(u, r)
    PROVE  /\ DOMAIN imsiToCrnti' = DOMAIN imsiToCrnti \cup {u}
           /\ imsiToCrnti'[u] = r
           /\ \A v \in DOMAIN imsiToCrnti \ {u} : imsiToCrnti'[v] = imsiToCrnti[v]
BY DEF SetCrnti, Put, Over

(***************************************************************************)
(* What a capture of a TMSI whose owner is known does to the two maps.     *)
(***************************************************************************)
LEMMA TmsiSet ==
    ASSUME NEW t, NEW r, NEW owner, UpdMemberTmsi(t, r), owner # 0,
           \/ HolderOf(r) = owner
           \/ HolderOf(r) = 0 /\ t \in DOMAIN tmsiToImsi /\ tmsiToImsi[t] = owner
    PROVE  /\ DOMAIN tmsiToImsi' = DOMAIN tmsiToImsi \cup {t}
           /\ tmsiToImsi'[t] = owner
           /\ \A s \in DOMAIN tmsiToImsi \ {t} : tmsiToImsi'[s] = tmsiToImsi[s]
           /\ DOMAIN imsiToCrnti' = DOMAIN imsiToCrnti \cup {owner}
           /\ imsiToCrnti'[owner] = r
           /\ \A v \in DOMAIN imsiToCrnti \ {owner} : imsiToCrnti'[v] = imsiToCrnti[v]
<1>1. tmsiToImsi' = Put(tmsiToImsi, t, owner) /\ SetCrnti(owner, r)
      BY DEF UpdMemberTmsi
<1>2. /\ DOMAIN tmsiToImsi' = DOMAIN tmsiToImsi \cup {t}
      /\ tmsiToImsi'[t] = owner
      /\ \A s \in DOMAIN tmsiToImsi \ {t} : tmsiToImsi'[s] = tmsiToImsi[s]
      BY <1>1 DEF Put, Over
<1> QED
      BY <1>1, <1>2, CrntiSet

-----------------------------------------------------------------------------
(***************************************************************************)
(* No control request touches what the slicer knows of identities.         *)
(***************************************************************************)
LEMMA ControlKeepsIds ==
    ASSUME HandleControl
    PROVE  UNCHANGED idVars
<1>1. ASSUME Dies \/ Refused PROVE UNCHANGED idVars
      BY <1>1 DEF Dies, Refused, slicerVars
<1>2. CASE HandleConfig
      BY <1>2 DEF HandleConfig, SliceConfig
<1>3. CASE HandleDelete
      BY <1>1, <1>3 DEF HandleDelete, Delete, SliceDelete
<1>4. CASE HandleStatus \/ Acknowledge
      BY <1>4 DEF HandleStatus, Acknowledge, slicerVars
<1>5. CASE HandleUeBind
      <2>1. PICK name \in SliceNames, texts \in UeLists :
               Refused \/ Dies \/ SliceUeBind(name, Values(texts))
            BY <1>5 DEF HandleUeBind, ForUes
      <2> QED
            BY <1>1, <2>1 DEF SliceUeBind, slicerVars
<1>6. CASE HandleUeUnbind
      <2>1. PICK name \in SliceNames, texts \in UeLists :
               Refused \/ Dies \/ SliceUeUnbind(name, Values(texts))
            BY <1>6 DEF HandleUeUnbind, ForUes
      <2> QED
            BY <1>1, <2>1 DEF SliceUeUnbind, slicerVars
<1> QED
      BY <1>2, <1>3, <1>4, <1>5, <1>6 DEF HandleControl

(***************************************************************************)
(* One case for each thing a UE may do.                                    *)
(***************************************************************************)
LEMMA UeKeepsTrack ==
    ASSUME Tracking, NEW u \in Imsis, UeSteps(u), strayed' = {}
    PROVE  Tracking'
<1> USE DEF Tracking, UeTypes, MapTypes, Distinct, Followed
<1>0. Imsis \subseteq Nat \ {0} /\ Tmsis \subseteq Nat \ {0} /\ Rntis \subseteq Nat \ {0}
      BY SlicerAssumption DEF Rntis
<1>1. CASE Connect(u)
      <2>1. PICK r \in Rntis : GoesUnder(u, r)
            BY <1>1 DEF Connect
      <2>2. /\ rntiOf' = [rntiOf EXCEPT ![u] = r] /\ r # 0
            /\ \A v \in Imsis : rntiOf[v] # r
            /\ \A v \in Imsis \ {u} : oldRnti[v] # r
            /\ \A v \in DOMAIN imsiToCrnti \ {u} : imsiToCrnti[v] # r
            BY <2>1, FreshRnti
      <2>3. UNCHANGED <<imsiToCrnti, tmsiToImsi, tmsiOf, identified, oldRnti>>
            BY <1>1 DEF Connect, slicerVars, idVars
      <2>4. u \notin identified /\ oldRnti[u] = 0
            BY <1>1 DEF Connect
      <2>5. UeTypes' /\ MapTypes'
            BY <2>2, <2>3
      <2>6. Distinct'
            BY <2>2, <2>3, <2>4
      <2>7. Followed'
            BY <1>0, <2>2, <2>3, <2>4
      <2> QED
            BY <2>5, <2>6, <2>7
<1>2. CASE ConnectWithTmsi(u)
      <2>1. PICK r \in Rntis : GoesUnder(u, r) /\ UpdMemberTmsi(tmsiOf[u], r)
            BY <1>2 DEF ConnectWithTmsi
      <2>2. /\ rntiOf' = [rntiOf EXCEPT ![u] = r] /\ r # 0
            /\ \A v \in Imsis : rntiOf[v] # r
            /\ \A v \in Imsis \ {u} : oldRnti[v] # r
            /\ \A v \in DOMAIN imsiToCrnti \ {u} : imsiToCrnti[v] # r
            BY <2>1, FreshRnti
      <2>3. HolderOf(r) \in {0, u}
            BY <2>2, OnlyHolder
      <2>4. PICK t \in Tmsis :
               /\ t = tmsiOf[u] /\ t # 0 /\ t \in DOMAIN tmsiToImsi /\ tmsiToImsi[t] = u
               /\ u # 0 /\ rntiOf[u] = 0
            BY <1>0, <1>2 DEF ConnectWithTmsi
      <2>5. \/ HolderOf(r) = u
            \/ HolderOf(r) = 0 /\ t \in DOMAIN tmsiToImsi /\ tmsiToImsi[t] = u
            BY <2>3, <2>4
      <2>6. /\ DOMAIN tmsiToImsi' = DOMAIN tmsiToImsi \cup {t}
            /\ tmsiToImsi'[t] = u
            /\ \A s \in DOMAIN tmsiToImsi \ {t} : tmsiToImsi'[s] = tmsiToImsi[s]
            /\ DOMAIN imsiToCrnti' = DOMAIN imsiToCrnti \cup {u}
            /\ imsiToCrnti'[u] = r
            /\ \A v \in DOMAIN imsiToCrnti \ {u} : imsiToCrnti'[v] = imsiToCrnti[v]
            <3>1. UpdMemberTmsi(t, r)
                  BY <2>1, <2>4
            <3>2. u # 0
                  BY <1>0
            <3> QED
                  BY <2>5, <3>1, <3>2, TmsiSet
      <2>7. UNCHANGED <<tmsiOf, oldRnti>> /\ identified' = identified \cup {u} /\ oldRnti[u] = 0
            BY <1>2, <2>4 DEF ConnectWithTmsi
      <2>8. UeTypes' /\ MapTypes'
            BY <2>2, <2>6, <2>7
      <2>9. Distinct'
            BY <2>2, <2>7
      <2>10. Followed'
            BY <1>0, <2>2, <2>4, <2>6, <2>7
      <2> QED
            BY <2>8, <2>9, <2>10
<1>3. CASE CaptureImsi(u)
      <2>1. /\ DOMAIN imsiToCrnti' = DOMAIN imsiToCrnti \cup {u}
            /\ imsiToCrnti'[u] = rntiOf[u]
            /\ \A v \in DOMAIN imsiToCrnti \ {u} : imsiToCrnti'[v] = imsiToCrnti[v]
            BY <1>3, CrntiSet DEF CaptureImsi, UpdMemberImsi
      <2>2. /\ UNCHANGED <<tmsiToImsi, rntiOf, tmsiOf, oldRnti>>
            /\ rntiOf[u] # 0 /\ oldRnti[u] = 0 /\ identified' = identified \cup {u}
            BY <1>3 DEF CaptureImsi, UpdMemberImsi
      <2>3. UeTypes' /\ MapTypes' /\ Distinct'
            BY <2>1, <2>2
      <2>4. Followed'
            BY <1>0, <2>1, <2>2
      <2> QED
            BY <2>3, <2>4
<1>4. CASE AttachAccept(u)
      <2>1. PICK t \in Tmsis : /\ \A v \in Imsis : tmsiOf[v] # t
                               /\ tmsiOf' = [tmsiOf EXCEPT ![u] = t]
                               /\ UpdMemberTmsi(t, rntiOf[u])
            BY <1>4 DEF AttachAccept
      <2>2. /\ UNCHANGED <<rntiOf, identified, oldRnti>>
            /\ u \in identified /\ rntiOf[u] # 0 /\ oldRnti[u] = 0
            BY <1>4 DEF AttachAccept
      <2>3. HolderOf(rntiOf[u]) = u /\ u # 0
            BY <1>0, <2>2, OnlyHolder
      <2>4. /\ DOMAIN tmsiToImsi' = DOMAIN tmsiToImsi \cup {t}
            /\ tmsiToImsi'[t] = u
            /\ \A s \in DOMAIN tmsiToImsi \ {t} : tmsiToImsi'[s] = tmsiToImsi[s]
            /\ DOMAIN imsiToCrnti' = DOMAIN imsiToCrnti \cup {u}
            /\ imsiToCrnti'[u] = rntiOf[u]
            /\ \A v \in DOMAIN imsiToCrnti \ {u} : imsiToCrnti'[v] = imsiToCrnti[v]
            BY <2>1, <2>3, TmsiSet
      <2>5. /\ DOMAIN imsiToCrnti' = DOMAIN imsiToCrnti
            /\ \A v \in DOMAIN imsiToCrnti : imsiToCrnti'[v] = imsiToCrnti[v]
            BY <2>2, <2>4
      <2>6. UeTypes' /\ MapTypes'
            BY <2>1, <2>2, <2>5
      <2>7. Distinct'
            BY <2>1, <2>2
      <2>8. Followed'
            BY <1>0, <2>1, <2>2, <2>4, <2>5
      <2> QED
            BY <2>6, <2>7, <2>8
<1>5. CASE ReestablishRequest(u)
      <2>1. PICK r \in Rntis : GoesUnder(u, r)
            BY <1>5 DEF ReestablishRequest
      <2>2. /\ rntiOf' = [rntiOf EXCEPT ![u] = r] /\ r # 0
            /\ \A v \in Imsis : rntiOf[v] # r
            /\ \A v \in Imsis \ {u} : oldRnti[v] # r
            /\ \A v \in DOMAIN imsiToCrnti \ {u} : imsiToCrnti[v] # r
            /\ u \in identified => oldRnti[u] = 0
            BY <2>1, FreshRnti
      <2>3. /\ UNCHANGED <<imsiToCrnti, tmsiToImsi, tmsiOf, identified>>
            /\ oldRnti' = [oldRnti EXCEPT ![u] = rntiOf[u]] /\ rntiOf[u] # 0
            BY <1>5 DEF ReestablishRequest, slicerVars, idVars
      <2>4. UeTypes' /\ MapTypes'
            BY <2>2, <2>3
      <2>5. Distinct'
            BY <2>2, <2>3
      <2>6. Followed'
            BY <1>0, <2>2, <2>3
      <2> QED
            BY <2>4, <2>5, <2>6
<1>6. CASE ReestablishComplete(u)
      <2>1. /\ UNCHANGED <<rntiOf, tmsiOf, identified>>
            /\ oldRnti[u] # 0 /\ oldRnti' = [oldRnti EXCEPT ![u] = 0]
            /\ UpdMemberRnti(oldRnti[u], rntiOf[u])
            BY <1>6 DEF ReestablishComplete
      <2> DEFINE holder == HolderOf(oldRnti[u])
      <2>2. rntiOf[u] # 0 /\ holder \in {0, u} /\ (u \in identified => holder = u) /\ u # 0
            BY <1>0, <2>1, OnlyHolder
      <2>3. UNCHANGED tmsiToImsi
            BY <2>1 DEF UpdMemberRnti, slicerVars, idVars
      <2>4. \/ UNCHANGED imsiToCrnti /\ u \notin identified
            \/ SetCrnti(u, rntiOf[u])
            <3>1. CASE holder = 0
                  BY <2>1, <2>2, <3>1 DEF UpdMemberRnti, slicerVars, idVars
            <3>2. CASE holder = u
                  BY <2>1, <2>2, <3>2 DEF UpdMemberRnti
            <3> QED
                  BY <2>2, <3>1, <3>2
      <2> HIDE DEF holder
      <2>5. \/ UNCHANGED imsiToCrnti /\ u \notin identified
            \/ /\ DOMAIN imsiToCrnti' = DOMAIN imsiToCrnti \cup {u}
               /\ imsiToCrnti'[u] = rntiOf[u]
               /\ \A v \in DOMAIN imsiToCrnti \ {u} : imsiToCrnti'[v] = imsiToCrnti[v]
            BY <2>4, CrntiSet
      <2>6. UeTypes' /\ MapTypes'
            BY <2>1, <2>2, <2>5
      <2>7. Distinct'
            BY <2>1
      <2>8. Followed'
            BY <1>0, <2>1, <2>2, <2>3, <2>5
      <2> QED
            BY <2>6, <2>7, <2>8
<1>7. CASE Release(u)
      <2>1. PICK t \in {tmsiOf[u], 0} : tmsiOf' = [tmsiOf EXCEPT ![u] = t]
            BY <1>7 DEF Release
      <2>2. /\ UNCHANGED <<imsiToCrnti, tmsiToImsi>>
            /\ rntiOf' = [rntiOf EXCEPT ![u] = 0] /\ oldRnti' = [oldRnti EXCEPT ![u] = 0]
            /\ identified' = identified \ {u}
            BY <1>7 DEF Release, slicerVars, idVars
      <2>3. UeTypes' /\ MapTypes'
            BY <2>1, <2>2
      <2>4. Distinct'
            BY <2>1, <2>2
      <2>5. Followed'
            BY <1>0, <2>1, <2>2
      <2> QED
            BY <2>3, <2>4, <2>5
<1> QED
      BY <1>1, <1>2, <1>3, <1>4, <1>5, <1>6, <1>7 DEF UeSteps

(***************************************************************************)
(* What has strayed stays so: the slicer is never told otherwise.          *)
(***************************************************************************)
LEMMA StrayedStays ==
    ASSUME NEW u, UeSteps(u), strayed' = {}
    PROVE  strayed = {}
<1>1. ASSUME NEW r, GoesUnder(u, r) PROVE strayed = {}
      BY <1>1 DEF GoesUnder
<1> QED
      BY <1>1 DEF UeSteps, Connect, ConnectWithTmsi, CaptureImsi, AttachAccept,
                  ReestablishRequest, ReestablishComplete, Release

(***************************************************************************)
(* The slicer knows the RNTI of every settled UE and takes nobody else to  *)
(* have it, RNTIs given out again included, until an RNTI is given out     *)
(* that it takes for another UE's or a UE fails twice before one Complete  *)
(* (upd_member_crnti).                                                     *)
(***************************************************************************)
THEOREM MappingKnown == Spec => []MappingTracked
<1>1. Init => IdInv
      BY SlicerAssumption
      DEF Init, SlicerInit, IdInv, Tracking, UeTypes, MapTypes, Distinct, Followed
<1>2. IdInv /\ [Next]_vars => IdInv'
      <2> SUFFICES ASSUME IdInv, [Next]_vars, strayed' = {} PROVE Tracking'
          BY DEF IdInv
      <2>1. CASE \E u \in Imsis : UeSteps(u)
            BY <2>1, StrayedStays, UeKeepsTrack DEF IdInv
      <2>2. CASE Subframe \/ Control \/ UNCHANGED vars
            <3>1. UNCHANGED <<cellVars, idVars>>
                  BY <2>2, ControlKeepsIds DEF Subframe, GetCurSfCrntis, Control, vars, slicerVars
            <3> QED
                  BY <3>1 DEF IdInv, Tracking, UeTypes, MapTypes, Distinct, Followed, cellVars,
                              ueVars, idVars
      <2> QED
            BY <2>1, <2>2 DEF Next
<1>3. IdInv => MappingTracked
      BY DEF IdInv, Tracking, UeTypes, MapTypes, Followed, MappingTracked, Settled, KnownToSlicer
<1> QED
      BY <1>1, <1>2, <1>3, PTL DEF Spec

-----------------------------------------------------------------------------
(***************************************************************************)
(* A refresh serves every member, if those of the slices left out were     *)
(* served before (upd_slice_crntis, which fills all_slice_crntis anew).    *)
(***************************************************************************)
LEMMA Refreshed ==
    ASSUME NEW names, NEW table, NEW known, UpdSliceCrntis(names, table, known),
           Serves([n \in DOMAIN table \ names |-> table[n]], known, sliceCrntis, allCrntis)
    PROVE  Serves(table, known, sliceCrntis', allCrntis')
<1> DEFINE fresh == Over([n \in names |-> RntisOf(table[n].imsis, known)], sliceCrntis)
<1>1. /\ sliceCrntis' = fresh
      /\ allCrntis' = IF names = {} THEN allCrntis ELSE UNION {fresh[n] : n \in DOMAIN fresh}
      BY DEF UpdSliceCrntis
<1>2. SUFFICES ASSUME NEW n \in DOMAIN table, NEW u \in table[n].imsis \cap DOMAIN known
               PROVE  n \in DOMAIN fresh /\ known[u] \in fresh[n] /\ known[u] \in allCrntis'
      BY <1>1 DEF Serves
<1>3. DOMAIN fresh = names \cup DOMAIN sliceCrntis
      BY DEF Over
<1>4. CASE n \in names
      <2>1. fresh[n] = RntisOf(table[n].imsis, known)
            BY <1>4 DEF Over
      <2> HIDE DEF fresh
      <2> QED
            BY <1>1, <1>2, <1>3, <1>4, <2>1 DEF RntisOf
<1>5. CASE n \notin names
      <2>1. n \in DOMAIN sliceCrntis /\ known[u] \in sliceCrntis[n] /\ known[u] \in allCrntis
            BY <1>2, <1>5 DEF Serves
      <2>2. fresh[n] = sliceCrntis[n]
            BY <1>5, <2>1 DEF Over
      <2> HIDE DEF fresh
      <2> QED
            BY <1>1, <1>3, <2>1, <2>2
<1> QED
      BY <1>4, <1>5

(***************************************************************************)
(* Each operation of the slicer that RRC or RIC may call keeps the members *)
(* served.                                                                 *)
(***************************************************************************)
LEMMA SetCrntiServes ==
    ASSUME ServeInv, NEW u, NEW r, SetCrnti(u, r)
    PROVE  ServeInv'
<1>1. Serves([n \in DOMAIN slices \ SlicesOf(u) |-> slices[n]], imsiToCrnti', sliceCrntis, allCrntis)
      <2>1. /\ DOMAIN imsiToCrnti' = DOMAIN imsiToCrnti \cup {u}
            /\ \A v \in DOMAIN imsiToCrnti \ {u} : imsiToCrnti'[v] = imsiToCrnti[v]
            BY CrntiSet
      <2>2. SUFFICES ASSUME NEW n \in DOMAIN slices \ SlicesOf(u),
                            NEW v \in slices[n].imsis \cap DOMAIN imsiToCrnti'
                     PROVE  /\ n \in DOMAIN sliceCrntis
                            /\ imsiToCrnti'[v] \in sliceCrntis[n] /\ imsiToCrnti'[v] \in allCrntis
            BY DEF Serves
      <2>3. v # u /\ v \in DOMAIN imsiToCrnti
            BY <2>1, <2>2 DEF SlicesOf
      <2> QED
            BY <2>1, <2>2, <2>3 DEF ServeInv, Serves
<1>2. UpdSliceCrntis(SlicesOf(u), slices, imsiToCrnti') /\ UNCHANGED slices
      BY DEF SetCrnti
<1>3. Serves(slices, imsiToCrnti', sliceCrntis', allCrntis')
      BY <1>1, <1>2, Refreshed
<1> QED
      BY <1>2, <1>3 DEF ServeInv

(***************************************************************************)
(* A slice that is configured has no members left to serve, and the others *)
(* keep theirs (slice_config replaces the entry of slices).                *)
(***************************************************************************)
LEMMA ConfigServes ==
    ASSUME ServeInv, NEW shareOf \in PartialFunctions(SliceNames, Shares), SliceConfig(shareOf)
    PROVE  ServeInv'
<1>1. /\ DOMAIN slices' = DOMAIN shareOf \cup DOMAIN slices
      /\ \A n \in DOMAIN shareOf : slices'[n] = [share |-> shareOf[n], imsis |-> {}]
      /\ \A n \in DOMAIN slices \ DOMAIN shareOf : slices'[n] = slices[n]
      BY DEF SliceConfig, Over
<1>2. \A n \in DOMAIN shareOf : shareOf[n] \in Shares
      BY DEF PartialFunctions
<1>3. UNCHANGED <<cacheVars, idVars>>
      BY DEF SliceConfig
<1> QED
      BY <1>1, <1>2, <1>3 DEF ServeInv, Serves, cacheVars, idVars

(***************************************************************************)
(* A slice that is deleted takes its own list of RNTIs with it and no      *)
(* other's (slice_delete).                                                 *)
(***************************************************************************)
LEMMA DeleteServes ==
    ASSUME ServeInv, NEW names, SliceDelete(names)
    PROVE  ServeInv'
<1> DEFINE gone == names \cap DOMAIN slices
<1>1. /\ slices' = [n \in DOMAIN slices \ gone |-> slices[n]]
      /\ sliceCrntis' = [n \in DOMAIN sliceCrntis \ gone |-> sliceCrntis[n]]
      /\ UNCHANGED <<allCrntis, imsiToCrnti>>
      BY DEF SliceDelete, Restrict, idVars
<1> QED
      BY <1>1 DEF ServeInv, Serves

(***************************************************************************)
(* A UE that is bound is served at once, if its RNTI is known, and one that *)
(* is unbound takes no other with it (slice_ue_bind, slice_ue_unbind).     *)
(***************************************************************************)
LEMMA BindServes ==
    ASSUME ServeInv, NEW name, NEW imsis \in SUBSET Imsis,
           SliceUeBind(name, imsis) \/ SliceUeUnbind(name, imsis)
    PROVE  ServeInv'
<1>1. CASE UNCHANGED slicerVars
      BY <1>1 DEF slicerVars, cacheVars, idVars, ServeInv, Serves
<1>2. CASE name \in DOMAIN slices
      <2>1. /\ DOMAIN slices' = DOMAIN slices
            /\ \A n \in DOMAIN slices \ {name} : slices'[n] = slices[n]
            /\ slices'[name] \in [share : Shares, imsis : SUBSET Imsis]
            BY <1>2 DEF SliceUeBind, SliceUeUnbind, ServeInv
      <2>2. UpdSliceCrntis({name}, slices', imsiToCrnti) /\ UNCHANGED imsiToCrnti
            BY <1>2 DEF SliceUeBind, SliceUeUnbind, idVars
      <2>3. Serves([n \in DOMAIN slices' \ {name} |-> slices'[n]], imsiToCrnti, sliceCrntis, allCrntis)
            BY <2>1 DEF ServeInv, Serves
      <2>4. Serves(slices', imsiToCrnti, sliceCrntis', allCrntis')
            BY <2>2, <2>3, Refreshed
      <2> QED
            BY <2>1, <2>2, <2>4 DEF ServeInv
<1> QED
      BY <1>1, <1>2 DEF SliceUeBind, SliceUeUnbind

(***************************************************************************)
(* Every step of the cell keeps the members served: one case for each      *)
(* operation of the UEs, the MAC and the RIC (Next).                       *)
(***************************************************************************)
LEMMA ServeKept ==
    ASSUME ServeInv, [Next]_vars
    PROVE  ServeInv'
<1>1. ASSUME UNCHANGED <<slices, sliceCrntis, allCrntis, imsiToCrnti>> PROVE ServeInv'
      BY <1>1 DEF ServeInv, Serves
<1>2. ASSUME Dies \/ Refused \/ UNCHANGED slicerVars PROVE ServeInv'
      BY <1>1, <1>2 DEF Dies, Refused, slicerVars, cacheVars, idVars
<1>3. CASE \E u \in Imsis : UeSteps(u)
      <2>1. PICK u \in Imsis : UeSteps(u)
            BY <1>3
      <2>2. CASE Connect(u) \/ ReestablishRequest(u) \/ Release(u)
            BY <1>2, <2>2 DEF Connect, ReestablishRequest, Release
      <2>3. CASE CaptureImsi(u)
            BY <2>3, SetCrntiServes DEF CaptureImsi, UpdMemberImsi
      <2>4. CASE ReestablishComplete(u)
            BY <1>2, <2>4, SetCrntiServes DEF ReestablishComplete, UpdMemberRnti
      <2>5. CASE ConnectWithTmsi(u) \/ AttachAccept(u)
            <3>1. PICK t, r : UpdMemberTmsi(t, r)
                  BY <2>5 DEF ConnectWithTmsi, AttachAccept
            <3> DEFINE owner == IF HolderOf(r) # 0 THEN HolderOf(r)
                                ELSE IF t \in DOMAIN tmsiToImsi THEN tmsiToImsi[t] ELSE 0
            <3>2. \/ SetCrnti(owner, r)
                  \/ UNCHANGED <<alive, slices, allocVars, cacheVars, imsiToCrnti>>
                  BY <3>1 DEF UpdMemberTmsi
            <3> HIDE DEF owner
            <3> QED
                  BY <1>1, <3>2, SetCrntiServes DEF cacheVars
      <2> QED
            BY <2>1, <2>2, <2>3, <2>4, <2>5 DEF UeSteps
<1>4. CASE Subframe
      <2>1. /\ sliceCrntis' = Over(sliceCrntis, [n \in {CurSlice} |-> {}])
            /\ UNCHANGED <<slices, allCrntis, imsiToCrnti>>
            BY <1>4 DEF Subframe, GetCurSfCrntis, idVars
      <2>2. \A n \in DOMAIN sliceCrntis : n \in DOMAIN sliceCrntis' /\ sliceCrntis'[n] = sliceCrntis[n]
            BY <2>1 DEF Over
      <2> QED
            BY <2>1, <2>2 DEF ServeInv, Serves
<1>5. CASE HandleConfig
      BY <1>5, ConfigServes DEF HandleConfig
<1>6. CASE HandleDelete
      BY <1>2, <1>6, DeleteServes DEF HandleDelete, Delete
<1>7. CASE HandleStatus \/ Acknowledge
      BY <1>2, <1>7 DEF HandleStatus, Acknowledge
<1>8. CASE HandleUeBind \/ HandleUeUnbind
      <2>1. PICK name \in SliceNames, texts \in UeLists :
               \/ Refused \/ Dies
               \/ ~Throws(texts) /\ (\/ SliceUeBind(name, Values(texts))
                                    \/ SliceUeUnbind(name, Values(texts)))
            BY <1>8 DEF HandleUeBind, HandleUeUnbind, ForUes
      <2>2. ~Throws(texts) => Values(texts) \in SUBSET Imsis
            <3>1. \A k \in DOMAIN texts : texts[k] \in ImsiTexts
                  BY DEF UeLists, SeqOf
            <3> QED
                  BY <3>1, NexRanAssumption DEF Throws, Values
      <2> QED
            BY <1>2, <2>1, <2>2, BindServes
<1>9. CASE UNCHANGED vars
      BY <1>2, <1>9 DEF vars
<1> QED
      BY <1>3, <1>4, <1>5, <1>6, <1>7, <1>8, <1>9 DEF Next, Control, HandleControl

(***************************************************************************)
(* A settled UE that is bound is served in its slice, until the slicer     *)
(* loses track (upd_slice_crntis).                                         *)
(***************************************************************************)
THEOREM MembersServed == Spec => []ServedInItsSlice
<1>1. Init => ServeInv
      BY SlicerAssumption DEF Init, SlicerInit, ServeInv, Serves
<1>2. ServeInv /\ [Next]_vars => ServeInv'
      BY ServeKept
<1>3. ServeInv /\ MappingTracked => ServedInItsSlice
      BY DEF ServeInv, Serves, MappingTracked, KnownToSlicer, ServedInItsSlice
<1>4. Spec => []MappingTracked
      BY MappingKnown
<1> QED
      BY <1>1, <1>2, <1>3, <1>4, PTL DEF Spec

-----------------------------------------------------------------------------
\* The service model's slices are among the slicer's, share by share, and a UE list goes
\* with each of them.
TablesInv ==
    /\ \A n \in DOMAIN slices : slices[n] \in [share : Shares, imsis : SUBSET Imsis]
    /\ DOMAIN ues = DOMAIN nexSlices
    /\ \A n \in DOMAIN nexSlices : n \in DOMAIN slices /\ slices[n].share = nexSlices[n]

\* What was asked for stands until it is acknowledged: nothing but control requests
\* changes slices and members, and the next one waits.
StandsInv ==
    /\ asked.op = "config" =>
          \A n \in DOMAIN asked.shares : n \in DOMAIN slices /\ slices[n].share = asked.shares[n]
    /\ asked.op = "delete" => asked.names \cap DOMAIN slices = {}
    /\ asked.op = "bind" =>
          asked.name \in DOMAIN slices /\ asked.imsis \subseteq slices[asked.name].imsis
    /\ asked.op = "unbind" =>
          asked.name \in DOMAIN slices /\ asked.imsis \cap slices[asked.name].imsis = {}

(***************************************************************************)
(* Neither the UEs nor the MAC change what the two tables hold.            *)
(***************************************************************************)
LEMMA CellLeavesTables ==
    ASSUME (\E u \in Imsis : UeSteps(u)) \/ Subframe \/ Dies \/ Refused \/ UNCHANGED vars
    PROVE  UNCHANGED <<slices, nexSlices, ues, asked>>
<1>1. CASE Subframe \/ Dies \/ Refused \/ UNCHANGED vars
  BY <1>1 DEF Subframe, GetCurSfCrntis, Dies, Refused, vars, slicerVars, nexVars, Others
<1>2. CASE \E u \in Imsis : UeSteps(u)
  <2>1. PICK u \in Imsis : UeSteps(u)
    BY <1>2
  <2>2. Others
    BY <2>1 DEF UeSteps, Connect, ConnectWithTmsi, CaptureImsi, AttachAccept,
                ReestablishRequest, ReestablishComplete, Release
  <2>3. UNCHANGED slices
    <3>1. CASE Connect(u) \/ ReestablishRequest(u) \/ Release(u)
      BY <3>1 DEF Connect, ReestablishRequest, Release, slicerVars
    <3>2. CASE CaptureImsi(u)
      BY <3>2 DEF CaptureImsi, UpdMemberImsi, SetCrnti
    <3>3. CASE ReestablishComplete(u)
      BY <3>3 DEF ReestablishComplete, UpdMemberRnti, SetCrnti, slicerVars
    <3>4. CASE ConnectWithTmsi(u) \/ AttachAccept(u)
      <4>1. PICK t, r : UpdMemberTmsi(t, r)
        BY <3>4 DEF ConnectWithTmsi, AttachAccept
      <4>2. QED
        BY <4>1 DEF UpdMemberTmsi, SetCrnti
    <3>5. QED
      BY <2>1, <3>1, <3>2, <3>3, <3>4 DEF UeSteps
  <2>4. QED
    BY <2>2, <2>3 DEF Others
<1>3. QED
  BY <1>1, <1>2

(***************************************************************************)
(* A control request changes both tables or neither, and what it asked for *)
(* is done when it is accepted (handle_control): one case for each.        *)
(***************************************************************************)
LEMMA ControlKeepsTables ==
    ASSUME TablesInv, StandsInv, HandleControl
    PROVE  TablesInv' /\ StandsInv'
<1>1. ASSUME UNCHANGED <<slices, nexSlices, ues>>, asked' = asked \/ asked'.op \in {"none", "status"}
      PROVE  TablesInv' /\ StandsInv'
  <2>1. TablesInv'
    BY <1>1 DEF TablesInv
  <2>2. CASE asked' = asked
    BY <1>1, <2>1, <2>2 DEF StandsInv
  <2>3. CASE asked'.op \in {"none", "status"}
    BY <2>1, <2>3 DEF StandsInv
  <2>4. QED
    BY <1>1, <2>1, <2>2, <2>3
<1>2. ASSUME Dies \/ Refused PROVE TablesInv' /\ StandsInv'
  BY <1>1, <1>2, CellLeavesTables
<1>3. CASE HandleConfig
  <2>1. PICK shareOf \in PartialFunctions(SliceNames, Shares) :
           /\ nexSlices' = Over(shareOf, nexSlices)
           /\ ues' = Over(ues, [n \in DOMAIN shareOf |-> <<>>])
           /\ slices' = Over([n \in DOMAIN shareOf |-> [share |-> shareOf[n], imsis |-> {}]], slices)
           /\ asked' \in {None, [op |-> "config", shares |-> shareOf]}
    BY <1>3 DEF HandleConfig, SliceConfig, Accepted
  <2>2. \A n \in DOMAIN shareOf : shareOf[n] \in Shares
    BY DEF PartialFunctions
  <2>3. /\ DOMAIN slices' = DOMAIN shareOf \cup DOMAIN slices
        /\ \A n \in DOMAIN shareOf : slices'[n] = [share |-> shareOf[n], imsis |-> {}]
        /\ \A n \in DOMAIN slices \ DOMAIN shareOf : slices'[n] = slices[n]
        /\ DOMAIN nexSlices' = DOMAIN shareOf \cup DOMAIN nexSlices
        /\ \A n \in DOMAIN shareOf : nexSlices'[n] = shareOf[n]
        /\ \A n \in DOMAIN nexSlices \ DOMAIN shareOf : nexSlices'[n] = nexSlices[n]
        /\ DOMAIN ues' = DOMAIN ues \cup DOMAIN shareOf
    BY <2>1 DEF Over
  <2>4. TablesInv'
    BY <2>2, <2>3 DEF TablesInv
  <2>5. StandsInv'
    <3>1. \A n \in DOMAIN shareOf : n \in DOMAIN slices' /\ slices'[n].share = shareOf[n]
      BY <2>3
    <3>2. CASE asked' = None
      BY <3>2 DEF StandsInv, None
    <3>3. CASE asked' = [op |-> "config", shares |-> shareOf]
      BY <3>1, <3>3 DEF StandsInv
    <3>4. QED
      BY <2>1, <3>2, <3>3
  <2>6. QED
    BY <2>4, <2>5
<1>4. CASE HandleDelete
  <2>1. PICK names \in SUBSET SliceNames : Delete(names)
    BY <1>4 DEF HandleDelete
  <2>2. CASE names \subseteq DOMAIN nexSlices
    <3>1. /\ nexSlices' = [n \in DOMAIN nexSlices \ names |-> nexSlices[n]]
          /\ ues' = [n \in DOMAIN nexSlices \ names |-> ues[n]]
          /\ slices' = [n \in DOMAIN slices \ (names \cap DOMAIN slices) |-> slices[n]]
          /\ asked' \in {None, [op |-> "delete", names |-> names]}
      BY <2>1, <2>2 DEF Delete, SliceDelete, Restrict, Accepted
    <3>2. TablesInv'
      BY <3>1 DEF TablesInv
    <3>3. StandsInv'
      BY <3>1 DEF StandsInv, None
    <3>4. QED
      BY <3>2, <3>3
  <2>3. QED
    BY <1>2, <2>1, <2>2 DEF Delete
<1>5. CASE HandleStatus \/ Acknowledge
  <2>1. UNCHANGED <<slices, nexSlices, ues>> /\ asked' \in {None, [op |-> "status"]}
    BY <1>5 DEF HandleStatus, Acknowledge, Accepted, slicerVars
  <2>2. asked'.op \in {"none", "status"}
    BY <2>1 DEF None
  <2>3. QED
    BY <1>1, <2>1, <2>2
<1>6. CASE HandleUeBind \/ HandleUeUnbind
  <2>1. PICK name \in SliceNames, texts \in UeLists :
           \/ Refused \/ Dies
           \/ /\ name \in DOMAIN nexSlices /\ ~Throws(texts) /\ UNCHANGED nexSlices
              /\ \E list : ues' = [ues EXCEPT ![name] = list]
              /\ \/ /\ SliceUeBind(name, Values(texts))
                    /\ asked' \in {None, [op |-> "bind", name |-> name, imsis |-> Values(texts)]}
                 \/ /\ SliceUeUnbind(name, Values(texts))
                    /\ asked' \in {None, [op |-> "unbind", name |-> name, imsis |-> Values(texts)]}
    BY <1>6 DEF HandleUeBind, HandleUeUnbind, ForUes, Accepted
  <2> DEFINE imsis == Values(texts)
  <2>2. ASSUME ~Throws(texts) PROVE imsis \in SUBSET Imsis
    <3>1. \A k \in DOMAIN texts : texts[k] \in ImsiTexts
      BY DEF UeLists, SeqOf
    <3>2. QED
      BY <2>2, <3>1, NexRanAssumption DEF Throws, Values
  <2> HIDE DEF imsis
  <2>3. ASSUME name \in DOMAIN nexSlices, ~Throws(texts), UNCHANGED nexSlices,
               \E list : ues' = [ues EXCEPT ![name] = list],
               \/ /\ slices' = [slices EXCEPT ![name].imsis = @ \cup imsis]
                  /\ asked' \in {None, [op |-> "bind", name |-> name, imsis |-> imsis]}
               \/ /\ slices' = [slices EXCEPT ![name].imsis = @ \ imsis]
                  /\ asked' \in {None, [op |-> "unbind", name |-> name, imsis |-> imsis]}
        PROVE  TablesInv' /\ StandsInv'
    <3>1. /\ name \in DOMAIN slices /\ DOMAIN slices' = DOMAIN slices
          /\ slices[name] \in [share : Shares, imsis : SUBSET Imsis]
          /\ slices'[name] \in [share : Shares, imsis : SUBSET Imsis]
          /\ slices'[name].share = slices[name].share
          /\ \A n \in DOMAIN slices \ {name} : slices'[n] = slices[n]
      BY <2>2, <2>3 DEF TablesInv
    <3>2. DOMAIN ues' = DOMAIN ues
      BY <2>3
    <3>3. TablesInv'
      BY <2>3, <3>1, <3>2 DEF TablesInv
    <3>4. StandsInv'
      BY <2>3, <3>1 DEF StandsInv, None
    <3>5. QED
      BY <3>3, <3>4
  <2>4. QED
    BY <1>2, <2>1, <2>3 DEF SliceUeBind, SliceUeUnbind, TablesInv, imsis
<1>7. QED
  BY <1>3, <1>4, <1>5, <1>6 DEF HandleControl

LEMMA TablesKept == TablesInv /\ StandsInv /\ [Next]_vars => TablesInv' /\ StandsInv'
<1> SUFFICES ASSUME TablesInv, StandsInv, [Next]_vars PROVE TablesInv' /\ StandsInv'
  OBVIOUS
<1>1. CASE Control
  BY <1>1, ControlKeepsTables DEF Control
<1>2. CASE UNCHANGED <<slices, nexSlices, ues, asked>>
  BY <1>2 DEF TablesInv, StandsInv
<1>3. QED
  BY <1>1, <1>2, CellLeavesTables DEF Next

LEMMA TablesInitially == Init => TablesInv /\ StandsInv
BY SlicerAssumption DEF Init, SlicerInit, NexInit, None, TablesInv, StandsInv

(***************************************************************************)
(* The slicer has every slice the service model lists, and its share: the  *)
(* two tables are changed by the same requests, under the same conditions  *)
(* (handle_control).                                                       *)
(***************************************************************************)
THEOREM TablesAgree == Spec => []ModelKnowsTheSlices
<1>1. TablesInv => ModelKnowsTheSlices
  BY DEF TablesInv, ModelKnowsTheSlices
<1>2. QED
  BY <1>1, TablesInitially, TablesKept, PTL DEF Spec

(***************************************************************************)
(* Every refusal comes before the first change of either table             *)
(* (handle_control, errout).                                               *)
(***************************************************************************)
THEOREM RefusalsAreClean == Spec => RefusalsChangeNothing
<1>1. [Next]_vars => [answer' = "failure" => UNCHANGED <<slicerVars, nexSlices, ues>>]_vars
  <2> SUFFICES ASSUME Next, answer' = "failure" PROVE UNCHANGED <<slicerVars, nexSlices, ues>>
    OBVIOUS
  <2>1. ~Others
    BY DEF Others
  <2>2. HandleControl
    BY <2>1 DEF Next, Subframe, Control, UeSteps, Connect, ConnectWithTmsi, CaptureImsi,
                AttachAccept, ReestablishRequest, ReestablishComplete, Release
  <2>3. Refused
    BY <2>2 DEF HandleControl, HandleConfig, HandleDelete, Delete, HandleStatus, HandleUeBind,
                HandleUeUnbind, ForUes, Acknowledge, Accepted, Dies
  <2>4. QED
    BY <2>3 DEF Refused
<1>2. QED
  BY <1>1, PTL DEF Spec, RefusalsChangeNothing

(***************************************************************************)
(* The status report of an acknowledgement shows the request carried out,  *)
(* whatever the UEs have done since it was, and the RNTIs of settled UEs   *)
(* until the slicer loses track (handle_control, slice_status).            *)
(***************************************************************************)
THEOREM ReportsAreTrue == Spec => ReportShowsTheRequest
<1>1. TablesInv /\ StandsInv /\ MappingTracked /\ [Next]_vars
         => [answer' = "success" => ReportShows(SliceStatus, asked)]_vars
  <2> SUFFICES ASSUME TablesInv, StandsInv, MappingTracked
               PROVE  ReportShows(SliceStatus, asked)
    OBVIOUS
  <2>1. /\ DOMAIN SliceStatus = DOMAIN slices
        /\ \A n \in DOMAIN slices :
              /\ SliceStatus[n].share = slices[n].share
              /\ SliceStatus[n].imsis = slices[n].imsis
              /\ \A u \in slices[n].imsis \cap DOMAIN imsiToCrnti :
                    SliceStatus[n].crnti[u] = imsiToCrnti[u]
    BY DEF SliceStatus, Restrict
  <2>2. CASE asked.op = "bind"
    <3>1. strayed = {} => \A u \in asked.imsis \cap Settled :
             SliceStatus[asked.name].crnti[u] = rntiOf[u]
      BY <2>1, <2>2 DEF StandsInv, MappingTracked, KnownToSlicer
    <3>2. QED
      BY <2>1, <2>2, <3>1 DEF StandsInv, ReportShows
  <2>3. CASE asked.op # "bind"
    BY <2>1, <2>3 DEF StandsInv, ReportShows
  <2>4. QED
    BY <2>2, <2>3
<1>2. Spec => []MappingTracked
  BY MappingKnown
<1>3. QED
  BY <1>1, <1>2, TablesInitially, TablesKept, PTL DEF Spec, ReportShowsTheRequest

-----------------------------------------------------------------------------
(***************************************************************************)
(* Induction over the naturals, on the set of those that have a property.  *)
(***************************************************************************)
LEMMA StrongInduction ==
    ASSUME NEW S \in SUBSET Nat,
           ASSUME NEW n \in Nat, \A m \in Nat : m < n => m \in S PROVE n \in S
    PROVE  S = Nat
<1> SUFFICES ASSUME S # Nat PROVE FALSE
  OBVIOUS
<1> DEFINE Rest == Nat \ S
<1>1. Rest \subseteq Nat /\ Rest # {}
  OBVIOUS
<1> HIDE DEF Rest
<1>2. PICK n \in Rest : \A m \in Rest : <<m, n>> \notin OpToRel(<, Nat)
  BY <1>1, NatLessThanWellFounded, WFMin
<1>3. \A m \in Nat : m < n => m \notin Rest
  BY <1>1, <1>2 DEF OpToRel
<1> QED BY <1>1, <1>3 DEF Rest

LEMMA Induction ==
    ASSUME NEW S \in SUBSET Nat, 0 \in S,
           ASSUME NEW n \in Nat, n \in S PROVE n + 1 \in S
    PROVE  S = Nat
<1>1. ASSUME NEW n \in Nat, \A m \in Nat : m < n => m \in S PROVE n \in S
  <2>1. CASE n = 0
    BY <2>1
  <2>2. CASE n # 0
    <3>1. n - 1 \in Nat /\ n - 1 < n /\ n = (n - 1) + 1
      BY <2>2
    <3>2. n - 1 \in S
      BY <1>1, <3>1
    <3>3. (n - 1) + 1 \in S
      BY <3>1, <3>2
    <3> QED BY <3>1, <3>3
  <2> QED BY <2>1, <2>2
<1> QED BY <1>1, StrongInduction

(***************************************************************************)
(* A function on 1..n that is defined by its first value and by a step     *)
(* from each to the next exists.                                           *)
(***************************************************************************)
Built(f, S, n, b, Step) ==
    /\ f \in [1 .. n -> S]
    /\ \A i \in 1 .. n : f[i] = IF i = 1 THEN b ELSE Step[i][f[i - 1]]

LEMMA Recursion ==
    ASSUME NEW S, NEW n \in Nat, NEW b \in S, NEW Step \in [Nat -> [S -> S]]
    PROVE  \E f : Built(f, S, n, b, Step)
<1> DEFINE Good(f, m) == \A i \in 1 .. m : f[i] = IF i = 1 THEN b ELSE Step[i][f[i - 1]]
           Done == {m \in Nat : \E f \in [1 .. m -> S] : Good(f, m)}
<1>1. 0 \in Done
  <2>1. [i \in 1 .. 0 |-> b] \in [1 .. 0 -> S] /\ Good([i \in 1 .. 0 |-> b], 0)
    OBVIOUS
  <2> QED BY <2>1
<1>2. ASSUME NEW m \in Nat, m \in Done PROVE m + 1 \in Done
  <2>1. PICK f \in [1 .. m -> S] : Good(f, m)
    BY <1>2
  <2> DEFINE v == IF m = 0 THEN b ELSE Step[m + 1][f[m]]
             g == [i \in 1 .. m + 1 |-> IF i = m + 1 THEN v ELSE f[i]]
  <2>2. v \in S
    <3>1. CASE m = 0
      BY <3>1
    <3>2. CASE m # 0
      <4>1. f[m] \in S
        BY <3>2
      <4> QED BY <3>2, <4>1
    <3> QED BY <3>1, <3>2
  <2>3. \A i \in 1 .. m : f[i] \in S /\ g[i] = f[i]
    BY <1>2
  <2>4. g \in [1 .. m + 1 -> S]
    BY <2>2, <2>3
  <2>5. \A i \in 1 .. m + 1 : g[i] = IF i = 1 THEN b ELSE Step[i][g[i - 1]]
    <3> SUFFICES ASSUME NEW i \in 1 .. m + 1
                 PROVE  g[i] = IF i = 1 THEN b ELSE Step[i][g[i - 1]]
      OBVIOUS
    <3>1. CASE i \in 1 .. m
      <4>1. i # 1 => i - 1 \in 1 .. m
        BY <3>1
      <4>2. f[i] = IF i = 1 THEN b ELSE Step[i][f[i - 1]]
        BY <2>1, <3>1
      <4> HIDE DEF g
      <4> QED BY <2>3, <3>1, <4>1, <4>2
    <3>2. CASE i = m + 1
      <4>1. m # 0 => m \in 1 .. m /\ g[m] = f[m]
        BY <2>3
      <4>2. g[i] = v /\ (i = 1 <=> m = 0) /\ i - 1 = m
        BY <3>2
      <4> HIDE DEF g
      <4> QED BY <3>2, <4>1, <4>2
    <3> QED BY <1>2, <3>1, <3>2
  <2> HIDE DEF g
  <2> QED BY <1>2, <2>4, <2>5
<1> HIDE DEF Done
<1>3. Done = Nat
  <2>1. Done \in SUBSET Nat
    BY DEF Done
  <2> QED BY <1>1, <1>2, <2>1, Induction
<1> QED BY <1>3 DEF Done, Built

-----------------------------------------------------------------------------
Divides(d, n) == \E q \in Nat : n = d * q

IsGcf(g, a, b) ==
    /\ g \in Nat /\ Divides(g, a) /\ Divides(g, b)
    /\ \A d \in Nat : Divides(d, a) /\ Divides(d, b) => Divides(d, g)

\* Replacing b by its remainder leaves the common divisors.
LEMMA RemainderDivides ==
    ASSUME NEW a \in Nat \ {0}, NEW b \in Nat, NEW d \in Nat
    PROVE  Divides(d, a) /\ Divides(d, b) <=> Divides(d, b % a) /\ Divides(d, a)
<1>1. /\ b % a \in Nat /\ b \div a \in Nat
      /\ b = a * (b \div a) + (b % a)
  OBVIOUS
<1>2. ASSUME NEW x \in Nat, NEW y \in Nat, a = d * x, b = d * y
      PROVE  Divides(d, b % a)
  <2> DEFINE k == b \div a
  <2>1. k \in Nat /\ b % a = d * y - (d * x) * k
    BY <1>1, <1>2
  <2> HIDE DEF k
  <2>2. b % a = d * (y - x * k)
    BY <2>1
  <2>3. CASE y - x * k \in Nat
    BY <2>2, <2>3 DEF Divides
  <2>4. CASE y - x * k < 0
    <3>1. d * (y - x * k) >= 0
      BY <1>1, <2>2
    <3>2. d = 0
      <4>1. y - x * k \in Int
        BY <2>1
      <4> DEFINE z == y - x * k
      <4>2. d * z >= 0 /\ z < 0 /\ z \in Int
        BY <2>4, <3>1, <4>1
      <4> HIDE DEF z
      <4> QED BY <4>2
    <3>3. a = 0
      BY <1>2, <3>2
    <3> QED BY <3>3
  <2> QED BY <2>1, <2>3, <2>4
<1>3. ASSUME NEW x \in Nat, NEW y \in Nat, a = d * x, b % a = d * y
      PROVE  Divides(d, b)
  <2> DEFINE k == b \div a
  <2>1. k \in Nat /\ b = (d * x) * k + d * y
    BY <1>1, <1>3
  <2> HIDE DEF k
  <2>2. b = d * (x * k + y) /\ x * k + y \in Nat
    BY <2>1
  <2> QED BY <2>2 DEF Divides
<1> QED BY <1>2, <1>3 DEF Divides

LEMMA DividesItself ==
    ASSUME NEW n \in Nat
    PROVE  /\ Divides(n, n) /\ Divides(n, 0)
           /\ \A m \in Nat : Divides(m, n) /\ Divides(n, m) => m = n
<1>1. n = n * 1 /\ 0 = n * 0
  OBVIOUS
<1>2. ASSUME NEW m \in Nat, NEW x \in Nat, NEW y \in Nat, n = m * x, m = n * y
      PROVE  m = n
  <2>1. CASE n = 0
    BY <1>2, <2>1
  <2>2. CASE n # 0
    <3>1. n = n * (y * x)
      BY <1>2
    <3>2. y * x = 1
      BY <2>2, <3>1
    <3>3. y = 1
      BY <3>2
    <3> QED BY <1>2, <3>3
  <2> QED BY <2>1, <2>2
<1> QED BY <1>1, <1>2 DEF Divides

(***************************************************************************)
(* calc_gcf: the recursion has a solution, and it is the greatest common   *)
(* factor.                                                                 *)
(***************************************************************************)
LEMMA CalcGcfUnfolds ==
    \A a, b \in Nat : CalcGcf[a][b] = IF a = 0 THEN b ELSE CalcGcf[b % a][a]
<1> DEFINE Gcf(a, b) == CHOOSE g : IsGcf(g, a, b)
           f == [a \in Nat |-> [b \in Nat |-> Gcf(a, b)]]
<1>1. ASSUME NEW a \in Nat, NEW b \in Nat
      PROVE  Gcf(a, b) = IF a = 0 THEN b ELSE Gcf(b % a, a)
  <2>1. CASE a = 0
    <3>1. \A g : IsGcf(g, 0, b) <=> g = b
      BY DividesItself DEF IsGcf
    <3> QED BY <2>1, <3>1
  <2>2. CASE a # 0
    <3>1. \A g : IsGcf(g, a, b) <=> IsGcf(g, b % a, a)
      BY <2>2, RemainderDivides DEF IsGcf
    <3> QED BY <2>2, <3>1
  <2> QED BY <2>1, <2>2
<1> HIDE DEF Gcf
<1>2. f = [a \in Nat |-> [b \in Nat |-> IF a = 0 THEN b ELSE f[b % a][a]]]
  <2>1. \A a, b \in Nat : a # 0 => b % a \in Nat
    OBVIOUS
  <2>2. \A a, b \in Nat : a # 0 => f[b % a][a] = Gcf(b % a, a)
    BY <2>1
  <2>3. \A a, b \in Nat : Gcf(a, b) = IF a = 0 THEN b ELSE f[b % a][a]
    BY <1>1, <2>2
  <2> QED BY <2>3, Zenon
<1> HIDE DEF f
<1>3. CalcGcf = [a \in Nat |-> [b \in Nat |-> IF a = 0 THEN b ELSE CalcGcf[b % a][a]]]
  BY <1>2, Zenon DEF CalcGcf
<1> QED BY <1>3

LEMMA CalcGcfRight == \A a, b \in Nat : IsGcf(CalcGcf[a][b], a, b)
<1> DEFINE S == {a \in Nat : \A b \in Nat : IsGcf(CalcGcf[a][b], a, b)}
<1>1. ASSUME NEW a \in Nat, \A m \in Nat : m < a => m \in S PROVE a \in S
  <2> SUFFICES ASSUME NEW b \in Nat PROVE IsGcf(CalcGcf[a][b], a, b)
    OBVIOUS
  <2>1. CASE a = 0
    <3>1. CalcGcf[a][b] = b
      BY <2>1, CalcGcfUnfolds
    <3> QED BY <2>1, <3>1, DividesItself DEF IsGcf
  <2>2. CASE a # 0
    <3>1. b % a \in Nat /\ b % a < a
      BY <2>2
    <3>2. CalcGcf[a][b] = CalcGcf[b % a][a]
      BY <2>2, CalcGcfUnfolds
    <3>3. IsGcf(CalcGcf[b % a][a], b % a, a)
      BY <1>1, <3>1
    <3>4. \A d \in Nat : Divides(d, a) /\ Divides(d, b) <=> Divides(d, b % a) /\ Divides(d, a)
      BY <2>2, RemainderDivides
    <3> DEFINE r == b % a
    <3> HIDE DEF r
    <3> QED BY <3>2, <3>3, <3>4 DEF IsGcf
  <2> QED BY <2>1, <2>2
<1> HIDE DEF S
<1>2. S = Nat
  <2>1. S \in SUBSET Nat
    BY DEF S
  <2> QED BY <1>1, <2>1, StrongInduction
<1> QED BY <1>2 DEF S

LEMMA DividesOn ==
    ASSUME NEW a \in Nat, NEW b \in Nat, NEW c \in Nat, Divides(a, b), Divides(b, c)
    PROVE  Divides(a, c)
<1>1. PICK x \in Nat, y \in Nat : b = a * x /\ c = b * y
  BY DEF Divides
<1>2. c = a * (x * y) /\ x * y \in Nat
  BY <1>1
<1> QED BY <1>2 DEF Divides

(***************************************************************************)
(* calc_gcf_vec: the result divides every share, and whatever divides them *)
(* all divides it.                                                         *)
(***************************************************************************)
LEMMA CalcGcfVecRight ==
    ASSUME NEW n \in Nat \ {0}, NEW shares \in [1 .. n -> Nat]
    PROVE  /\ CalcGcfVec(shares) \in Nat
           /\ \A k \in 1 .. n : Divides(CalcGcfVec(shares), shares[k])
           /\ \A d \in Nat : (\A k \in 1 .. n : Divides(d, shares[k]))
                                => Divides(d, CalcGcfVec(shares))
<1> DEFINE res[k \in DOMAIN shares] ==
               IF k = 1 THEN shares[1] ELSE CalcGcf[shares[k]][res[k - 1]]
<1>1. CalcGcfVec(shares) = res[n]
  <2>1. Len(shares) = n
    OBVIOUS
  <2> QED BY <2>1 DEF CalcGcfVec
<1>2. \A a, b \in Nat : CalcGcf[a][b] \in Nat
  BY CalcGcfRight DEF IsGcf
<1>3. \A k \in 1 .. n : res[k] = IF k = 1 THEN shares[1] ELSE CalcGcf[shares[k]][res[k - 1]]
  <2> DEFINE Step == [k \in Nat |-> [x \in Nat |->
                         IF k \in 1 .. n THEN CalcGcf[shares[k]][x] ELSE 0]]
  <2>1. Step \in [Nat -> [Nat -> Nat]] /\ shares[1] \in Nat /\ n \in Nat
    <3>1. \A k \in 1 .. n : shares[k] \in Nat
      OBVIOUS
    <3>2. \A k, x \in Nat : (IF k \in 1 .. n THEN CalcGcf[shares[k]][x] ELSE 0) \in Nat
      BY <1>2, <3>1
    <3>3. Step \in [Nat -> [Nat -> Nat]]
      BY <3>2, Zenon
    <3>4. 1 \in 1 .. n
      OBVIOUS
    <3> QED BY <3>1, <3>3, <3>4
  <2>2. PICK f : Built(f, Nat, n, shares[1], Step)
    <3> HIDE DEF Step
    <3> QED BY <2>1, Recursion, Zenon
  <2>3. \A k \in 1 .. n :
           f[k] = IF k = 1 THEN shares[1] ELSE CalcGcf[shares[k]][f[k - 1]]
    <3> SUFFICES ASSUME NEW k \in 1 .. n, k # 1
                 PROVE  Step[k][f[k - 1]] = CalcGcf[shares[k]][f[k - 1]]
      BY <2>2 DEF Built
    <3>1. f[k - 1] \in Nat
      BY <2>2 DEF Built
    <3> QED BY <3>1
  <2>4. f = [k \in DOMAIN shares |->
                IF k = 1 THEN shares[1] ELSE CalcGcf[shares[k]][f[k - 1]]]
    BY <2>2, <2>3 DEF Built
  <2> HIDE DEF Step
  <2>5. res = [k \in DOMAIN shares |->
                  IF k = 1 THEN shares[1] ELSE CalcGcf[shares[k]][res[k - 1]]]
    BY <2>4, Zenon
  <2> HIDE DEF res
  <2> QED BY <2>5
<1> HIDE DEF res
<1> DEFINE Right(k) ==
               /\ res[k] \in Nat
               /\ \A j \in 1 .. k : Divides(res[k], shares[j])
               /\ \A d \in Nat : (\A j \in 1 .. k : Divides(d, shares[j])) => Divides(d, res[k])
           S == {k \in Nat : k \in 1 .. n => Right(k)}
<1>4. ASSUME NEW k \in Nat, k \in S PROVE k + 1 \in S
  <2> SUFFICES ASSUME k + 1 \in 1 .. n PROVE Right(k + 1)
    OBVIOUS
  <2>1. CASE k = 0
    <3>1. res[1] = shares[1] /\ shares[1] \in Nat
      BY <1>3
    <3>2. \A j \in 1 .. 1 : j = 1
      OBVIOUS
    <3> QED BY <2>1, <3>1, <3>2, DividesItself
  <2>2. CASE k # 0
    <3>1. Right(k)
      BY <1>4, <2>2
    <3>2. res[k + 1] = CalcGcf[shares[k + 1]][res[k]]
      BY <1>3, <2>2
    <3>3. IsGcf(res[k + 1], shares[k + 1], res[k])
      BY <3>1, <3>2, CalcGcfRight
    <3>4. \A j \in 1 .. k + 1 : j = k + 1 \/ j \in 1 .. k
      OBVIOUS
    <3>5. ASSUME NEW j \in 1 .. k + 1 PROVE Divides(res[k + 1], shares[j])
      <4>1. CASE j = k + 1
        BY <3>3, <4>1 DEF IsGcf
      <4>2. CASE j \in 1 .. k
        <5>1. shares[j] \in Nat /\ res[k + 1] \in Nat /\ res[k] \in Nat
          BY <3>1, <3>3 DEF IsGcf
        <5>2. Divides(res[k + 1], res[k]) /\ Divides(res[k], shares[j])
          BY <3>1, <3>3, <4>2 DEF IsGcf
        <5> QED BY <5>1, <5>2, DividesOn
      <4> QED BY <3>4, <4>1, <4>2
    <3>6. ASSUME NEW d \in Nat, \A j \in 1 .. k + 1 : Divides(d, shares[j])
          PROVE  Divides(d, res[k + 1])
      <4>1. Divides(d, res[k])
        BY <3>1, <3>6
      <4> QED BY <3>3, <3>6, <4>1 DEF IsGcf
    <3> QED BY <3>3, <3>5, <3>6 DEF IsGcf
  <2> QED BY <2>1, <2>2
<1>5. 0 \in S
  OBVIOUS
<1> HIDE DEF S
<1>6. S = Nat
  <2>1. S \in SUBSET Nat
    BY DEF S
  <2> QED BY <1>4, <1>5, <2>1, Induction
<1>7. Right(n)
  BY <1>6 DEF S
<1> QED BY <1>1, <1>7

-----------------------------------------------------------------------------
(***************************************************************************)
(* The order of the slices: it lists every slice once, whatever the names. *)
(***************************************************************************)
Increasing(order) == \A i, j \in DOMAIN order : i < j => order[i] < order[j]

LEMMA LeastOfNat ==
    ASSUME NEW D \in SUBSET Nat, D # {}
    PROVE  \E x \in D : \A y \in D : x <= y
<1>1. PICK x \in D : \A y \in D : <<y, x>> \notin OpToRel(<, Nat)
  BY NatLessThanWellFounded, WFMin
<1>2. ASSUME NEW y \in D PROVE x <= y
  <2>1. x \in Nat /\ y \in Nat /\ <<y, x>> \notin OpToRel(<, Nat)
    BY <1>1
  <2> QED BY <2>1 DEF OpToRel
<1> QED BY <1>2

LEMMA OrderExists ==
    ASSUME NEW D \in SUBSET Nat, IsFiniteSet(D)
    PROVE  \E order \in [1 .. Cardinality(D) -> D] : Increasing(order)
<1> DEFINE Ordered(E) == \E order \in [1 .. Cardinality(E) -> E] : Increasing(order)
           S == {n \in Nat : \A E \in SUBSET Nat : IsFiniteSet(E) /\ Cardinality(E) = n => Ordered(E)}
<1>1. 0 \in S
  <2> SUFFICES ASSUME NEW E \in SUBSET Nat, IsFiniteSet(E), Cardinality(E) = 0 PROVE Ordered(E)
    OBVIOUS
  <2>1. [i \in 1 .. 0 |-> 0] \in [1 .. Cardinality(E) -> E]
    OBVIOUS
  <2>2. Increasing([i \in 1 .. 0 |-> 0])
    BY DEF Increasing
  <2> QED BY <2>1, <2>2
<1>2. ASSUME NEW n \in Nat, n \in S PROVE n + 1 \in S
  <2> SUFFICES ASSUME NEW E \in SUBSET Nat, IsFiniteSet(E), Cardinality(E) = n + 1
               PROVE  Ordered(E)
    OBVIOUS
  <2>1. E # {}
    BY FS_EmptySet
  <2>2. PICK x \in E : \A y \in E : x <= y
    BY <2>1, LeastOfNat
  <2> DEFINE R == E \ {x}
  <2>3. IsFiniteSet(R) /\ Cardinality(R) = n
    <3>1. IsFiniteSet(R) /\ Cardinality(R) = Cardinality(E) - 1
      BY <2>2, FS_RemoveElement
    <3> QED BY <3>1
  <2>4. PICK rest \in [1 .. n -> R] : Increasing(rest)
    BY <1>2, <2>3
  <2> DEFINE order == [i \in 1 .. n + 1 |-> IF i = 1 THEN x ELSE rest[i - 1]]
  <2>5. \A i \in 1 .. n + 1 : i # 1 => i - 1 \in 1 .. n /\ order[i] = rest[i - 1] /\ order[i] \in R
    BY <2>4
  <2>6. order[1] = x /\ x \in Nat
    BY <2>2
  <2>7. order \in [1 .. n + 1 -> E]
    BY <2>4, <2>5
  <2> HIDE DEF order
  <2>8. ASSUME NEW i \in 1 .. n + 1, NEW j \in 1 .. n + 1, i < j PROVE order[i] < order[j]
    <3>1. j # 1 /\ order[j] = rest[j - 1] /\ order[j] \in R /\ j - 1 \in 1 .. n
      BY <2>5, <2>8
    <3>2. CASE i = 1
      <4>1. x <= order[j] /\ x # order[j] /\ order[j] \in Nat
        BY <2>2, <3>1
      <4> QED BY <2>6, <3>2, <4>1
    <3>3. CASE i # 1
      <4>1. order[i] = rest[i - 1] /\ i - 1 \in 1 .. n /\ i - 1 < j - 1
        BY <2>5, <2>8, <3>3
      <4>2. DOMAIN rest = 1 .. n
        BY <2>4
      <4>3. rest[i - 1] < rest[j - 1]
        BY <2>4, <3>1, <4>1, <4>2 DEF Increasing
      <4> QED BY <3>1, <4>1, <4>3
    <3> QED BY <3>2, <3>3
  <2>9. Increasing(order)
    BY <2>7, <2>8 DEF Increasing
  <2> QED BY <2>7, <2>9
<1> HIDE DEF S
<1>3. S = Nat
  <2>1. S \in SUBSET Nat
    BY DEF S
  <2> QED BY <1>1, <1>2, <2>1, Induction
<1>4. Cardinality(D) \in Nat
  BY FS_CardinalityType
<1> QED BY <1>3, <1>4 DEF S

LEMMA SliceOrderRight ==
    ASSUME NEW table, DOMAIN table \subseteq Nat, IsFiniteSet(DOMAIN table)
    PROVE  /\ Cardinality(DOMAIN table) \in Nat
           /\ SliceOrder(table) \in [1 .. Cardinality(DOMAIN table) -> DOMAIN table]
           /\ \A i, j \in 1 .. Cardinality(DOMAIN table) :
                 SliceOrder(table)[i] = SliceOrder(table)[j] => i = j
           /\ \A name \in DOMAIN table : \E k \in 1 .. Cardinality(DOMAIN table) :
                 SliceOrder(table)[k] = name
<1> DEFINE D == DOMAIN table
           order == SliceOrder(table)
<1>1. Cardinality(D) \in Nat
  BY FS_CardinalityType
<1>2. order \in [1 .. Cardinality(D) -> D] /\ \A i, j \in DOMAIN order : i < j => order[i] < order[j]
  <2>1. \E o \in [1 .. Cardinality(D) -> D] : \A i, j \in DOMAIN o : i < j => o[i] < o[j]
    BY OrderExists DEF Increasing
  <2> QED BY <2>1 DEF SliceOrder
<1> HIDE DEF order
<1>3. \A i, j \in 1 .. Cardinality(D) : order[i] = order[j] => i = j
  <2> SUFFICES ASSUME NEW i \in 1 .. Cardinality(D), NEW j \in 1 .. Cardinality(D),
                      order[i] = order[j]
               PROVE  i = j
    OBVIOUS
  <2>1. order[i] \in Nat /\ order[j] \in Nat
    BY <1>2
  <2>2. ~(i < j) /\ ~(j < i)
    BY <1>1, <1>2, <2>1
  <2> QED BY <1>1, <2>2
<1>4. order \in Injection(1 .. Cardinality(D), D)
  BY <1>2, <1>3 DEF Injection, IsInjective
<1>5. Cardinality(1 .. Cardinality(D)) = Cardinality(D)
  BY <1>1, FS_Interval
<1>6. order \in Surjection(1 .. Cardinality(D), D)
  BY <1>4, <1>5, FS_Injection
<1> QED BY <1>1, <1>2, <1>3, <1>6 DEF order, Surjection

-----------------------------------------------------------------------------
(***************************************************************************)
(* The cycle: a block of subframes for each slice, one after the other.    *)
(***************************************************************************)
Places(s, v) == {sf \in DOMAIN s : s[sf] = v}

\* t is s with m subframes of v behind it.
BlockAfter(s, v, m, t) ==
    /\ Len(t) = Len(s) + m
    /\ \A sf \in 1 .. Len(s) + m : t[sf] = IF sf <= Len(s) THEN s[sf] ELSE v

LEMMA BlockAppended ==
    ASSUME NEW s \in Seq(Nat), NEW v \in Nat, NEW m \in Nat, NEW t \in Seq(Nat),
           \A sf \in 1 .. Len(s) : s[sf] < v, BlockAfter(s, v, m, t)
    PROVE  /\ \A sf \in DOMAIN t : t[sf] <= v
           /\ Cardinality(Places(t, v)) = m
           /\ \A w \in Nat : w < v => Places(t, w) = Places(s, w)
<1>1. Len(s) \in Nat
  BY LenProperties
<1>2. /\ DOMAIN t = 1 .. Len(s) + m /\ DOMAIN s = 1 .. Len(s)
      /\ \A sf \in 1 .. Len(s) : t[sf] = s[sf]
      /\ \A sf \in Len(s) + 1 .. Len(s) + m : t[sf] = v
  <2>1. DOMAIN t = 1 .. Len(s) + m /\ DOMAIN s = 1 .. Len(s)
    BY <1>1 DEF BlockAfter
  <2>2. \A sf \in 1 .. Len(s) : sf \in 1 .. Len(s) + m /\ sf <= Len(s)
    BY <1>1
  <2>3. \A sf \in Len(s) + 1 .. Len(s) + m : sf \in 1 .. Len(s) + m /\ ~(sf <= Len(s))
    BY <1>1
  <2> QED BY <2>1, <2>2, <2>3 DEF BlockAfter
<1>3. \A sf \in DOMAIN t : sf \in 1 .. Len(s) \/ sf \in Len(s) + 1 .. Len(s) + m
  BY <1>1, <1>2
<1>4. \A sf \in 1 .. Len(s) : s[sf] < v /\ s[sf] \in Nat
  BY ElementOfSeq
<1>5. \A sf \in DOMAIN t : t[sf] <= v
  BY <1>2, <1>3, <1>4
<1>6. Places(t, v) = Len(s) + 1 .. Len(s) + m
  <2>1. Len(s) + 1 .. Len(s) + m \subseteq DOMAIN t
    BY <1>1, <1>2
  <2> QED BY <1>2, <1>3, <1>4, <2>1 DEF Places
<1>7. ASSUME NEW w \in Nat, w < v PROVE Places(t, w) = Places(s, w)
  <2>1. DOMAIN s \subseteq DOMAIN t
    BY <1>1, <1>2
  <2>2. v # w
    BY <1>7
  <2> QED BY <1>2, <1>3, <2>1, <2>2 DEF Places
<1>8. Cardinality(Places(t, v)) = m
  <2> DEFINE first == Len(s) + 1
             last  == Len(s) + m
  <2>1. first \in Int /\ last \in Int /\ m = IF first > last THEN 0 ELSE last - first + 1
    BY <1>1
  <2>2. Cardinality(first .. last) = IF first > last THEN 0 ELSE last - first + 1
    <3> HIDE DEF first, last
    <3> QED BY <2>1, FS_Interval
  <2> QED BY <1>6, <2>1, <2>2
<1> QED BY <1>5, <1>7, <1>8

LEMMA BlocksFlattened ==
    ASSUME NEW n \in Nat \ {0}, NEW c \in [1 .. n -> Nat]
    PROVE  LET cycle == FlattenSeq([k \in 1 .. n |-> [sf \in 1 .. c[k] |-> k - 1]]) IN
           /\ cycle \in Seq(Nat)
           /\ \A sf \in DOMAIN cycle : cycle[sf] < n
           /\ \A k \in 1 .. n : Cardinality(Places(cycle, k - 1)) = c[k]
<1> DEFINE seqs == [k \in 1 .. n |-> [sf \in 1 .. c[k] |-> k - 1]]
           flatten[i \in 1 .. Len(seqs)] == IF i = 1 THEN seqs[i] ELSE flatten[i - 1] \o seqs[i]
<1>1. Len(seqs) = n
  OBVIOUS
<1>2. FlattenSeq(seqs) = flatten[n]
  <2> HIDE DEF seqs
  <2> QED BY <1>1 DEF FlattenSeq
<1>3. \A k \in 1 .. n : seqs[k] = [sf \in 1 .. c[k] |-> k - 1] /\ seqs[k] \in Seq(Nat)
  <2> SUFFICES ASSUME NEW k \in 1 .. n PROVE [sf \in 1 .. c[k] |-> k - 1] \in Seq(Nat)
    OBVIOUS
  <2>1. c[k] \in Nat /\ k - 1 \in Nat
    OBVIOUS
  <2> QED BY <2>1
<1> HIDE DEF seqs
<1>4. \A i \in 1 .. n : flatten[i] = IF i = 1 THEN seqs[i] ELSE flatten[i - 1] \o seqs[i]
  <2> DEFINE Longer(i, x) == IF i \in 1 .. n THEN x \o seqs[i] ELSE x
             Step == [i \in Nat |-> [x \in Seq(Nat) |-> Longer(i, x)]]
  <2>1. Step \in [Nat -> [Seq(Nat) -> Seq(Nat)]] /\ seqs[1] \in Seq(Nat) /\ n \in Nat
    <3>1. ASSUME NEW i \in Nat, NEW x \in Seq(Nat)
          PROVE  Longer(i, x) \in Seq(Nat)
      <4>1. CASE i \in 1 .. n
        <5>1. seqs[i] \in Seq(Nat)
          BY <1>3, <4>1
        <5>2. x \o seqs[i] \in Seq(Nat)
          BY <5>1, ConcatProperties
        <5> QED BY <4>1, <5>2
      <4>2. CASE i \notin 1 .. n
        BY <4>2
      <4> QED BY <4>1, <4>2
    <3>2. 1 \in 1 .. n
      OBVIOUS
    <3> HIDE DEF Longer
    <3> QED BY <1>3, <3>1, <3>2
  <2>2. PICK f : Built(f, Seq(Nat), n, seqs[1], Step)
    <3> HIDE DEF Step
    <3> QED BY <2>1, Recursion, Zenon
  <2>3. \A i \in 1 .. n : f[i] = IF i = 1 THEN seqs[i] ELSE f[i - 1] \o seqs[i]
    <3> SUFFICES ASSUME NEW i \in 1 .. n, i # 1
                 PROVE  Step[i][f[i - 1]] = f[i - 1] \o seqs[i]
      BY <2>2 DEF Built
    <3>1. f[i - 1] \in Seq(Nat)
      BY <2>2 DEF Built
    <3>2. Step[i][f[i - 1]] = Longer(i, f[i - 1])
      <4> HIDE DEF Longer
      <4> QED BY <3>1
    <3> QED BY <3>2
  <2>4. f = [i \in 1 .. Len(seqs) |-> IF i = 1 THEN seqs[i] ELSE f[i - 1] \o seqs[i]]
    BY <1>1, <2>2, <2>3 DEF Built
  <2> HIDE DEF Step
  <2>5. flatten = [i \in 1 .. Len(seqs) |-> IF i = 1 THEN seqs[i] ELSE flatten[i - 1] \o seqs[i]]
    BY <2>4, Zenon
  <2> HIDE DEF flatten
  <2> QED BY <1>1, <2>5
<1> HIDE DEF flatten
<1> DEFINE Right(k) ==
               /\ flatten[k] \in Seq(Nat)
               /\ \A sf \in DOMAIN flatten[k] : flatten[k][sf] < k
               /\ \A j \in 1 .. k : Cardinality(Places(flatten[k], j - 1)) = c[j]
           S == {k \in Nat : k \in 1 .. n => Right(k)}
<1>5. ASSUME NEW s \in Seq(Nat), NEW k \in 1 .. n,
             \A sf \in DOMAIN s : s[sf] < k - 1,
             \A j \in 1 .. k - 1 : Cardinality(Places(s, j - 1)) = c[j],
             flatten[k] = s \o seqs[k]
      PROVE  Right(k)
  <2>1. k - 1 \in Nat /\ c[k] \in Nat /\ Len(s) \in Nat
    OBVIOUS
  <2>2. flatten[k] = s \o [sf \in 1 .. c[k] |-> k - 1]
    BY <1>3, <1>5
  <2> HIDE DEF Right
  <2>3. /\ flatten[k] \in Seq(Nat)
        /\ \A sf \in DOMAIN flatten[k] : flatten[k][sf] <= k - 1
        /\ Cardinality(Places(flatten[k], k - 1)) = c[k]
        /\ \A w \in Nat : w < k - 1 => Places(flatten[k], w) = Places(s, w)
    <3> DEFINE v == k - 1
               m == c[k]
               b == seqs[k]
               t == flatten[k]
    <3>1. /\ v \in Nat /\ m \in Nat
          /\ b \in Seq(Nat) /\ Len(b) = m /\ \A j \in 1 .. m : b[j] = v
          /\ \A sf \in 1 .. Len(s) : s[sf] < v
      <4>1. b = [sf \in 1 .. m |-> v]
        BY <1>3
      <4>2. v \in Nat /\ m \in Nat /\ b \in Seq(Nat)
        BY <1>3, <2>1
      <4>3. \A sf \in 1 .. Len(s) : s[sf] < v
        BY <1>5, LenProperties
      <4> HIDE DEF v, m, b
      <4>4. Len(b) = m /\ \A j \in 1 .. m : b[j] = v
        BY <4>1, <4>2
      <4> QED BY <4>2, <4>3, <4>4
    <3>2. t = s \o b
      BY <1>5
    <3> HIDE DEF v, m, b, t
    <3>3. t \in Seq(Nat) /\ BlockAfter(s, v, m, t)
      <4>1. /\ t \in Seq(Nat) /\ Len(t) = Len(s) + Len(b)
            /\ \A sf \in 1 .. Len(s) + Len(b) :
                  t[sf] = IF sf <= Len(s) THEN s[sf] ELSE b[sf - Len(s)]
        BY <3>1, <3>2, ConcatProperties, Zenon
      <4>2. \A sf \in 1 .. Len(s) + m : ~(sf <= Len(s)) => sf - Len(s) \in 1 .. m
        BY <2>1, <3>1
      <4> QED BY <3>1, <4>1, <4>2 DEF BlockAfter
    <3>4. /\ \A sf \in DOMAIN t : t[sf] <= v
          /\ Cardinality(Places(t, v)) = m
          /\ \A w \in Nat : w < v => Places(t, w) = Places(s, w)
      BY <3>1, <3>3, BlockAppended
    <3> QED BY <3>3, <3>4 DEF v, m, t
  <2>4. \A sf \in DOMAIN flatten[k] : flatten[k][sf] < k
    <3> SUFFICES ASSUME NEW sf \in DOMAIN flatten[k] PROVE flatten[k][sf] < k
      OBVIOUS
    <3>1. flatten[k][sf] \in Nat /\ flatten[k][sf] <= k - 1
      BY <2>3
    <3> QED BY <3>1
  <2>5. ASSUME NEW j \in 1 .. k, j # k PROVE Cardinality(Places(flatten[k], j - 1)) = c[j]
    <3>1. j \in 1 .. k - 1 /\ j - 1 \in Nat /\ j - 1 < k - 1
      BY <2>5
    <3> QED BY <1>5, <2>3, <3>1
  <2> QED BY <2>3, <2>4, <2>5 DEF Right
<1>6. ASSUME NEW k \in Nat, k \in S PROVE k + 1 \in S
  <2> SUFFICES ASSUME k + 1 \in 1 .. n PROVE Right(k + 1)
    OBVIOUS
  <2>1. CASE k = 0
    <3>1. <<>> \in Seq(Nat) /\ 1 \in 1 .. n
      OBVIOUS
    <3>2. flatten[1] = <<>> \o seqs[1]
      <4>1. seqs[1] \in Seq(Nat) /\ flatten[1] = seqs[1]
        BY <1>3, <1>4, <3>1
      <4> QED BY <4>1, ConcatEmptySeq
    <3>3. \A j \in 1 .. 1 - 1 : FALSE
      OBVIOUS
    <3>4. \A sf \in DOMAIN <<>> : FALSE
      OBVIOUS
    <3>5. 1 - 1 = 0 /\ k + 1 = 1
      BY <2>1
    <3> HIDE DEF Right
    <3>6. Right(1)
      BY <1>5, <3>1, <3>2, <3>3, <3>4, Zenon
    <3> QED BY <3>5, <3>6
  <2>2. CASE k # 0
    <3>1. Right(k)
      BY <1>6, <2>2
    <3>2. flatten[k + 1] = flatten[k] \o seqs[k + 1] /\ (k + 1) - 1 = k
      <4>1. k + 1 # 1 /\ (k + 1) - 1 = k
        BY <2>2
      <4> DEFINE i == k + 1
      <4>2. i \in 1 .. n /\ i # 1 /\ i - 1 = k
        BY <4>1
      <4> HIDE DEF i
      <4>3. flatten[i] = flatten[k] \o seqs[i]
        BY <1>4, <4>2
      <4> QED BY <4>1, <4>3 DEF i
    <3>3. /\ flatten[k] \in Seq(Nat)
          /\ \A sf \in DOMAIN flatten[k] : flatten[k][sf] < (k + 1) - 1
          /\ \A j \in 1 .. (k + 1) - 1 : Cardinality(Places(flatten[k], j - 1)) = c[j]
      BY <3>1, <3>2
    <3> HIDE DEF Right
    <3> QED BY <1>5, <3>2, <3>3
  <2> QED BY <2>1, <2>2
<1>7. 0 \in S
  OBVIOUS
<1> HIDE DEF S, Right
<1>8. S = Nat
  <2>1. S \in SUBSET Nat
    BY DEF S
  <2> QED BY <1>6, <1>7, <2>1, Induction
<1>9. Right(n)
  BY <1>8 DEF S
<1> QED BY <1>2, <1>9 DEF seqs, Right

-----------------------------------------------------------------------------
(***************************************************************************)
(* What upd_sf_alloc makes of a table of slices.                           *)
(***************************************************************************)
IsTable(table) ==
    /\ DOMAIN table \subseteq SliceNames
    /\ \A n \in DOMAIN table : table[n].share \in Shares

SubframesIn(table, cycle, name) ==
    Cardinality({sf \in DOMAIN cycle : SliceOrder(table)[cycle[sf] + 1] = name})

Fits(table, cycle) ==
    /\ cycle \in Seq(Nat)
    /\ \A sf \in DOMAIN cycle : cycle[sf] < Cardinality(DOMAIN table)
    /\ \A n \in DOMAIN table : SubframesIn(table, cycle, n) \in Nat
    /\ \A m, n \in DOMAIN table :
          SubframesIn(table, cycle, m) * table[n].share = SubframesIn(table, cycle, n) * table[m].share
    /\ \E n \in DOMAIN table : SubframesIn(table, cycle, n) > 0
    /\ \A d \in Nat : (\A n \in DOMAIN table : Divides(d, SubframesIn(table, cycle, n))) => d = 1

LEMMA Quotient ==
    ASSUME NEW g \in Nat \ {0}, NEW q \in Nat
    PROVE  (g * q) \div g = q
<1> DEFINE x == g * q
           k == x \div g
           r == x % g
<1>1. x \in Nat /\ k \in Nat /\ r \in Nat /\ r < g /\ x = g * k + r
  OBVIOUS
<1>2. g * (q - k) = r
  <2> HIDE DEF k, r
  <2> QED BY <1>1
<1>3. q - k \in Int
  BY <1>1
<1> DEFINE z == q - k
<1>4. z \in Int /\ g * z >= 0 /\ g * z < g
  BY <1>1, <1>2, <1>3
<1>5. z = 0
  <2> HIDE DEF z
  <2> QED BY <1>4
<1> HIDE DEF k
<1> QED BY <1>1, <1>5 DEF k

\* With the common factor taken out of them, no factor but 1 is common.
LEMMA FactorTakenOut ==
    ASSUME NEW g \in Nat \ {0}, NEW d \in Nat, Divides(g * d, g)
    PROVE  d = 1
<1>1. PICK q \in Nat : g = (g * d) * q
  BY DEF Divides
<1>2. g * (d * q) = g /\ d * q \in Nat
  BY <1>1
<1>3. d * q = 1
  <2> DEFINE z == d * q
  <2>1. g * z = g /\ z \in Nat
    BY <1>2
  <2> HIDE DEF z
  <2>2. z = 1
    BY <2>1
  <2> QED BY <2>2 DEF z
<1>4. CASE d = 0
  BY <1>3, <1>4
<1>5. CASE d > 1
  <2>1. q # 0
    BY <1>3
  <2>2. d * q >= d
    BY <2>1
  <2> QED BY <1>3, <1>5, <2>2
<1> QED BY <1>4, <1>5

LEMMA CycleRight ==
    ASSUME NEW table, IsTable(table), ~CannotAllocate(table)
    PROVE  Fits(table, SfAllocOf(table))
<1> DEFINE D == DOMAIN table
           N == Cardinality(D)
           order == SliceOrder(table)
           shares == SharesInOrder(table)
           g == CalcGcfVec(shares)
           cycle == SfAllocOf(table)
<1>1. D \subseteq Nat /\ IsFiniteSet(D) /\ D # {} /\ g # 0
  <2>1. IsFiniteSet(D)
    BY SlicerAssumption, FS_Subset DEF IsTable
  <2> QED BY <2>1, SlicerAssumption DEF IsTable, CannotAllocate
<1>2. N \in Nat \ {0}
  BY <1>1, FS_CardinalityType, FS_EmptySet
<1>3. /\ order \in [1 .. N -> D]
      /\ \A i, j \in 1 .. N : order[i] = order[j] => i = j
      /\ \A n \in D : \E k \in 1 .. N : order[k] = n
  <2> HIDE DEF order
  <2> QED BY <1>1, SliceOrderRight DEF order
<1>4. /\ shares \in [1 .. N -> Nat]
      /\ \A k \in 1 .. N : shares[k] = table[order[k]].share
  <2>1. shares = [k \in 1 .. N |-> table[order[k]].share]
    <3>1. DOMAIN order = 1 .. N
      BY <1>3
    <3> QED BY <3>1 DEF SharesInOrder
  <2>2. \A k \in 1 .. N : order[k] \in D /\ table[order[k]].share \in Nat
    BY <1>3, SlicerAssumption DEF IsTable
  <2> HIDE DEF shares, order, D, N
  <2> QED BY <2>1, <2>2
<1> HIDE DEF order, shares
<1>5. /\ g \in Nat \ {0}
      /\ \A k \in 1 .. N : Divides(g, shares[k])
      /\ \A d \in Nat : (\A k \in 1 .. N : Divides(d, shares[k])) => Divides(d, g)
  BY <1>1, <1>2, <1>4, CalcGcfVecRight
<1> DEFINE c == [k \in 1 .. N |-> shares[k] \div g]
<1>6. c \in [1 .. N -> Nat] /\ \A k \in 1 .. N : shares[k] = g * c[k]
  <2>1. \A k \in 1 .. N : c[k] \in Nat /\ shares[k] = g * c[k]
    <3> SUFFICES ASSUME NEW k \in 1 .. N PROVE c[k] \in Nat /\ shares[k] = g * c[k]
      OBVIOUS
    <3>1. PICK q \in Nat : shares[k] = g * q
      BY <1>5 DEF Divides
    <3>2. shares[k] \div g = q
      BY <1>5, <3>1, Quotient
    <3> HIDE DEF g, N
    <3> QED BY <3>1, <3>2
  <2> QED BY <2>1
<1>7. cycle = FlattenSeq([k \in 1 .. N |-> [sf \in 1 .. c[k] |-> k - 1]])
  <2>1. DOMAIN shares = 1 .. N
    BY <1>4
  <2>2. cycle = FlattenSeq([k \in 1 .. N |-> [sf \in 1 .. shares[k] \div g |-> k - 1]])
    BY <2>1, Zenon DEF SfAllocOf, shares
  <2>3. \A k \in 1 .. N : c[k] = shares[k] \div g
    OBVIOUS
  <2> HIDE DEF c, g, N
  <2>4. [k \in 1 .. N |-> [sf \in 1 .. shares[k] \div g |-> k - 1]]
           = [k \in 1 .. N |-> [sf \in 1 .. c[k] |-> k - 1]]
    BY <2>3, Zenon
  <2> QED BY <2>2, <2>4
<1> HIDE DEF c, cycle, g, N
<1>8. /\ cycle \in Seq(Nat)
      /\ \A sf \in DOMAIN cycle : cycle[sf] < N
      /\ \A k \in 1 .. N : Cardinality(Places(cycle, k - 1)) = c[k]
  BY <1>2, <1>6, <1>7, BlocksFlattened
<1>9. ASSUME NEW k \in 1 .. N PROVE SubframesIn(table, cycle, order[k]) = c[k]
  <2>1. ASSUME NEW sf \in DOMAIN cycle PROVE order[cycle[sf] + 1] = order[k] <=> cycle[sf] = k - 1
    <3>1. cycle[sf] \in Nat /\ cycle[sf] < N /\ cycle[sf] + 1 \in 1 .. N
      <4>1. cycle[sf] \in Nat /\ cycle[sf] < N
        BY <1>8
      <4> QED BY <1>2, <4>1
    <3> DEFINE at == cycle[sf] + 1
    <3>2. at \in 1 .. N /\ (at = k <=> cycle[sf] = k - 1)
      BY <3>1
    <3> HIDE DEF at
    <3>3. order[at] = order[k] <=> at = k
      BY <1>3, <3>2
    <3> QED BY <3>2, <3>3 DEF at
  <2>2. {sf \in DOMAIN cycle : order[cycle[sf] + 1] = order[k]} = Places(cycle, k - 1)
    BY <2>1 DEF Places
  <2> QED BY <1>8, <2>2 DEF SubframesIn, order
<1> DEFINE In(n) == SubframesIn(table, cycle, n)
<1>10. \A n \in D : In(n) \in Nat /\ table[n].share = g * In(n)
  BY <1>3, <1>4, <1>6, <1>9
<1>11. \A k \in 1 .. N : order[k] \in D /\ shares[k] = g * In(order[k])
  BY <1>3, <1>6, <1>9
<1> HIDE DEF In
<1>12. ASSUME NEW m \in D, NEW n \in D PROVE In(m) * table[n].share = In(n) * table[m].share
  BY <1>5, <1>10
<1>13. \E n \in D : In(n) > 0
  <2> SUFFICES ASSUME \A n \in D : In(n) = 0 PROVE FALSE
    BY <1>10
  <2>1. \A k \in 1 .. N : shares[k] = 0
    BY <1>5, <1>11
  <2>2. Divides(0, g)
    BY <1>5, <2>1, DividesItself
  <2> QED BY <1>5, <2>2 DEF Divides
<1>14. ASSUME NEW d \in Nat, \A n \in D : Divides(d, In(n)) PROVE d = 1
  <2>1. ASSUME NEW k \in 1 .. N PROVE Divides(g * d, shares[k])
    <3>1. order[k] \in D /\ shares[k] = g * In(order[k])
      BY <1>11
    <3>2. PICK q \in Nat : In(order[k]) = d * q
      BY <1>14, <3>1 DEF Divides
    <3>3. shares[k] = (g * d) * q
      BY <1>5, <3>1, <3>2
    <3> QED BY <3>3 DEF Divides
  <2>2. g * d \in Nat
    BY <1>5
  <2>3. Divides(g * d, g)
    BY <1>5, <2>1, <2>2
  <2> QED BY <1>5, <2>3, FactorTakenOut
<1> QED BY <1>8, <1>10, <1>12, <1>13, <1>14 DEF Fits, In, cycle, N

\* The cycle in use fits the slices there are, and the index is in it.
CycleInv ==
    /\ IsTable(slices)
    /\ alive =>
        /\ slices = <<>> => sfAlloc = <<>>
        /\ slices # <<>> => Fits(slices, sfAlloc)
        /\ sfAlloc # <<>> => allocIndex \in Nat /\ allocIndex < Len(sfAlloc)

LEMMA CycleMadeAgain ==
    ASSUME IsTable(slices'), UpdSfAlloc(slices')
    PROVE  CycleInv'
<1>1. CASE CannotAllocate(slices')
  BY <1>1 DEF UpdSfAlloc, CycleInv
<1>2. CASE ~CannotAllocate(slices')
  <2>1. sfAlloc' = SfAllocOf(slices') /\ allocIndex' = 0
    BY <1>2 DEF UpdSfAlloc
  <2>2. Fits(slices', sfAlloc')
    BY <1>2, <2>1, CycleRight
  <2>3. slices' # <<>>
    <3>1. DOMAIN <<>> = {}
      OBVIOUS
    <3> QED BY <1>2, <3>1, Zenon DEF CannotAllocate
  <2>4. sfAlloc' # <<>> => 0 < Len(sfAlloc')
    <3>1. sfAlloc' \in Seq(Nat)
      BY <2>2 DEF Fits
    <3> QED BY <3>1, EmptySeq
  <2> QED BY <2>1, <2>2, <2>3, <2>4 DEF CycleInv
<1> QED BY <1>1, <1>2

\* What has a cycle's subframes depends on the names and the shares alone.
LEMMA MembersMayChange ==
    ASSUME CycleInv, UNCHANGED <<alive, allocVars>>, slices # <<>>, slices' # <<>>,
           DOMAIN slices' = DOMAIN slices,
           \A n \in DOMAIN slices : slices'[n].share = slices[n].share
    PROVE  CycleInv'
<1>1. SliceOrder(slices') = SliceOrder(slices)
  BY Zenon DEF SliceOrder
<1>2. \A cycle, n : SubframesIn(slices', cycle, n) = SubframesIn(slices, cycle, n)
  BY <1>1, Zenon DEF SubframesIn
<1>3. ASSUME Fits(slices, sfAlloc) PROVE Fits(slices', sfAlloc)
  <2>1. /\ sfAlloc \in Seq(Nat)
        /\ \A sf \in DOMAIN sfAlloc : sfAlloc[sf] < Cardinality(DOMAIN slices')
    BY <1>3, Zenon DEF Fits
  <2>2. \A n \in DOMAIN slices' : SubframesIn(slices', sfAlloc, n) \in Nat
    BY <1>2, <1>3 DEF Fits
  <2>3. ASSUME NEW m \in DOMAIN slices', NEW n \in DOMAIN slices'
        PROVE  SubframesIn(slices', sfAlloc, m) * slices'[n].share
                  = SubframesIn(slices', sfAlloc, n) * slices'[m].share
    BY <1>2, <1>3, Zenon DEF Fits
  <2>4. \E n \in DOMAIN slices' : SubframesIn(slices', sfAlloc, n) > 0
    BY <1>2, <1>3, Zenon DEF Fits
  <2>5. \A d \in Nat : (\A n \in DOMAIN slices' : Divides(d, SubframesIn(slices', sfAlloc, n))) => d = 1
    BY <1>2, <1>3, Zenon DEF Fits
  <2> QED BY <2>1, <2>2, <2>3, <2>4, <2>5 DEF Fits
<1>4. IsTable(slices')
  BY DEF CycleInv, IsTable
<1> QED BY <1>3, <1>4 DEF CycleInv, allocVars

(***************************************************************************)
(* What the UEs send, what is refused and what ends the eNB leave the      *)
(* slices and the cycle alone.                                             *)
(***************************************************************************)
LEMMA CellLeavesCycle ==
    ASSUME (\E u \in Imsis : UeSteps(u)) \/ Dies \/ Refused \/ HandleStatus \/ Acknowledge \/ UNCHANGED vars
    PROVE  UNCHANGED <<slices, allocVars>> /\ alive' \in {alive, FALSE}
<1>1. CASE Dies \/ Refused \/ HandleStatus \/ Acknowledge \/ UNCHANGED vars
  BY <1>1 DEF Dies, Refused, HandleStatus, Acknowledge, vars, slicerVars
<1>2. CASE \E u \in Imsis : UeSteps(u)
  <2>1. PICK u \in Imsis : UeSteps(u)
    BY <1>2
  <2>2. CASE Connect(u) \/ ReestablishRequest(u) \/ Release(u)
    BY <2>2 DEF Connect, ReestablishRequest, Release, slicerVars
  <2>3. CASE CaptureImsi(u)
    BY <2>3 DEF CaptureImsi, UpdMemberImsi, SetCrnti
  <2>4. CASE ReestablishComplete(u)
    BY <2>4 DEF ReestablishComplete, UpdMemberRnti, SetCrnti, slicerVars
  <2>5. CASE ConnectWithTmsi(u) \/ AttachAccept(u)
    <3>1. PICK t, r : UpdMemberTmsi(t, r)
      BY <2>5 DEF ConnectWithTmsi, AttachAccept
    <3> QED BY <3>1 DEF UpdMemberTmsi, SetCrnti
  <2> QED BY <2>1, <2>2, <2>3, <2>4, <2>5 DEF UeSteps
<1> QED BY <1>1, <1>2

LEMMA CycleLeftAlone ==
    CycleInv /\ UNCHANGED <<slices, allocVars>> /\ alive' \in {alive, FALSE} => CycleInv'
<1> SUFFICES ASSUME CycleInv, UNCHANGED <<slices, allocVars>>, alive' \in {alive, FALSE}
             PROVE  CycleInv'
  OBVIOUS
<1>1. UNCHANGED <<slices, sfAlloc, allocIndex>>
  BY DEF allocVars
<1>2. alive' => alive
  BY Zenon
<1>3. IsTable(slices')
  BY <1>1, Zenon DEF CycleInv
<1>4. Fits(slices, sfAlloc) => Fits(slices', sfAlloc')
  BY <1>1, Zenon
<1> QED BY <1>1, <1>2, <1>3, <1>4 DEF CycleInv

LEMMA SubframeKeepsCycle ==
    ASSUME CycleInv, Subframe
    PROVE  CycleInv'
<1>1. /\ alive /\ sfAlloc # <<>> /\ allocIndex' = (allocIndex + 1) % Len(sfAlloc)
      /\ UNCHANGED <<alive, slices, sfAlloc>>
  BY DEF Subframe, GetCurSfCrntis
<1>2. slices # <<>> /\ Fits(slices, sfAlloc) /\ allocIndex \in Nat
  BY <1>1 DEF CycleInv
<1>3. Len(sfAlloc) \in Nat \ {0}
  BY <1>1, <1>2, EmptySeq DEF Fits
<1>4. allocIndex' \in Nat /\ allocIndex' < Len(sfAlloc)
  BY <1>1, <1>2, <1>3
<1> QED BY <1>1, <1>2, <1>4 DEF CycleInv

LEMMA ControlKeepsCycle ==
    ASSUME CycleInv, TablesInv, HandleControl
    PROVE  CycleInv'
<1>1. CASE HandleConfig
  <2>1. PICK shareOf \in PartialFunctions(SliceNames, Shares) : SliceConfig(shareOf)
    BY <1>1 DEF HandleConfig
  <2>2. DOMAIN shareOf \subseteq SliceNames /\ \A n \in DOMAIN shareOf : shareOf[n] \in Shares
    BY DEF PartialFunctions
  <2>3. slices' = Over([n \in DOMAIN shareOf |-> [share |-> shareOf[n], imsis |-> {}]], slices)
    BY <2>1 DEF SliceConfig
  <2>4. IsTable(slices')
    BY <2>2, <2>3 DEF Over, IsTable, CycleInv
  <2> QED BY <2>1, <2>4, CycleMadeAgain DEF SliceConfig
<1>2. CASE HandleDelete
  <2>1. PICK names \in SUBSET SliceNames : SliceDelete(names) \/ Refused
    BY <1>2 DEF HandleDelete, Delete
  <2>2. CASE SliceDelete(names)
    <3>1. slices' = [n \in DOMAIN slices \ (names \cap DOMAIN slices) |-> slices[n]]
      BY <2>2 DEF SliceDelete, Restrict
    <3>2. IsTable(slices')
      BY <3>1 DEF IsTable, CycleInv
    <3> QED BY <2>2, <3>2, CycleMadeAgain DEF SliceDelete
  <2>3. CASE Refused
    BY <2>3, CellLeavesCycle, CycleLeftAlone
  <2> QED BY <2>1, <2>2, <2>3
<1>3. CASE HandleUeBind \/ HandleUeUnbind
  <2>1. PICK name, imsis :
           \/ Refused \/ Dies
           \/ SliceUeBind(name, imsis) \/ SliceUeUnbind(name, imsis)
    BY <1>3 DEF HandleUeBind, HandleUeUnbind, ForUes
  <2>2. CASE Refused \/ Dies
    BY <2>2, CellLeavesCycle, CycleLeftAlone
  <2>3. CASE name \notin DOMAIN slices /\ (SliceUeBind(name, imsis) \/ SliceUeUnbind(name, imsis))
    <3>1. UNCHANGED slicerVars
      BY <2>3 DEF SliceUeBind, SliceUeUnbind
    <3> QED BY <3>1, CycleLeftAlone DEF slicerVars
  <2>4. CASE name \in DOMAIN slices /\ (SliceUeBind(name, imsis) \/ SliceUeUnbind(name, imsis))
    <3>1. /\ \/ slices' = [slices EXCEPT ![name].imsis = @ \cup imsis]
             \/ slices' = [slices EXCEPT ![name].imsis = @ \ imsis]
          /\ UNCHANGED <<alive, allocVars>>
      BY <2>4 DEF SliceUeBind, SliceUeUnbind
    <3>2. DOMAIN slices' = DOMAIN slices /\ slices # <<>> /\ slices' # <<>>
      <4>1. DOMAIN slices' = DOMAIN slices
        BY <3>1
      <4>2. DOMAIN <<>> = {}
        OBVIOUS
      <4> QED BY <2>4, <4>1, <4>2, Zenon
    <3>3. \A n \in DOMAIN slices : slices'[n].share = slices[n].share
      BY <2>4, <3>1 DEF TablesInv
    <3> QED BY <3>1, <3>2, <3>3, MembersMayChange
  <2> QED BY <2>1, <2>2, <2>3, <2>4
<1>4. CASE HandleStatus \/ Acknowledge
  BY <1>4, CellLeavesCycle, CycleLeftAlone
<1> QED BY <1>1, <1>2, <1>3, <1>4 DEF HandleControl

LEMMA CycleKept == CycleInv /\ TablesInv /\ [Next]_vars => CycleInv'
<1> SUFFICES ASSUME CycleInv, TablesInv, [Next]_vars PROVE CycleInv'
  OBVIOUS
<1>1. CASE Control
  BY <1>1, ControlKeepsCycle DEF Control
<1>2. CASE Subframe
  BY <1>2, SubframeKeepsCycle
<1>3. CASE (\E u \in Imsis : UeSteps(u)) \/ UNCHANGED vars
  BY <1>3, CellLeavesCycle, CycleLeftAlone
<1> QED BY <1>1, <1>2, <1>3 DEF Next

LEMMA CycleInitially == Init => CycleInv
<1> SUFFICES ASSUME Init PROVE CycleInv
  OBVIOUS
<1>1. /\ slices = SliceDb /\ allocIndex = 0
      /\ alive = ~(SliceDb # <<>> /\ CannotAllocate(SliceDb))
      /\ sfAlloc = IF SliceDb = <<>> \/ ~alive THEN <<>> ELSE SfAllocOf(SliceDb)
  BY DEF Init, SlicerInit
<1>2. IsTable(slices)
  BY <1>1, SlicerAssumption DEF IsTable
<1>3. ASSUME alive, slices # <<>> PROVE Fits(slices, sfAlloc)
  <2>1. ~CannotAllocate(slices) /\ sfAlloc = SfAllocOf(slices)
    BY <1>1, <1>3
  <2> QED BY <1>2, <2>1, CycleRight
<1>4. ASSUME alive, sfAlloc # <<>> PROVE 0 < Len(sfAlloc)
  <2>1. sfAlloc \in Seq(Nat)
    BY <1>1, <1>3, <1>4 DEF Fits
  <2> QED BY <1>4, <2>1, EmptySeq
<1> QED BY <1>1, <1>2, <1>3, <1>4 DEF CycleInv

LEMMA CycleFits == Spec => []CycleInv
BY CycleInitially, CycleKept, TablesInitially, TablesKept, PTL DEF Spec

(***************************************************************************)
(* The MAC never asks for a subframe outside the cycle, nor for a slice    *)
(* there is not: a table whose cycle cannot be made ends the eNB before    *)
(* the next subframe (get_cur_sf_crntis, upd_sf_alloc).                    *)
(***************************************************************************)
THEOREM CycleStaysInBounds == Spec => []CycleWithinBounds
<1>1. CycleInv => CycleWithinBounds
  BY DEF CycleInv, Fits, CycleWithinBounds
<1> QED BY <1>1, CycleFits, PTL

(***************************************************************************)
(* Whatever the shares, the slices have subframes in proportion to them    *)
(* and no shorter cycle has: calc_gcf computes the greatest common factor, *)
(* and upd_sf_alloc divides by it.                                         *)
(***************************************************************************)
THEOREM SharesAreKept == Spec => []CycleIsProportional
<1>1. CycleInv => CycleIsProportional
  <2> SUFFICES ASSUME CycleInv, alive, slices # <<>>
               PROVE  /\ \A m, n \in DOMAIN slices :
                            SubframesOf(m) * slices[n].share = SubframesOf(n) * slices[m].share
                      /\ \E n \in DOMAIN slices : SubframesOf(n) > 0
                      /\ ~ \E d \in 2 .. Len(sfAlloc) : \A n \in DOMAIN slices : SubframesOf(n) % d = 0
    BY DEF CycleIsProportional
  <2>1. Fits(slices, sfAlloc)
    BY DEF CycleInv
  <2>2. \A n : SubframesOf(n) = SubframesIn(slices, sfAlloc, n)
    BY DEF SubframesOf, SubframesIn
  <2>3. ASSUME NEW d \in 2 .. Len(sfAlloc), \A n \in DOMAIN slices : SubframesOf(n) % d = 0
        PROVE  FALSE
    <3>1. d \in Nat \ {0, 1}
      OBVIOUS
    <3>2. ASSUME NEW n \in DOMAIN slices PROVE Divides(d, SubframesOf(n))
      <4>1. SubframesOf(n) \in Nat /\ SubframesOf(n) % d = 0
        BY <2>1, <2>2, <2>3 DEF Fits
      <4> DEFINE x == SubframesOf(n)
      <4> HIDE DEF x
      <4>2. x \in Nat /\ x % d = 0
        BY <4>1 DEF x
      <4>3. x = d * (x \div d) /\ x \div d \in Nat
        BY <3>1, <4>2
      <4> QED BY <4>3 DEF Divides, x
    <3> QED BY <2>1, <2>2, <3>1, <3>2 DEF Fits
  <2> QED BY <2>1, <2>2, <2>3 DEF Fits
<1> QED BY <1>1, CycleFits, PTL
=============================================================================
