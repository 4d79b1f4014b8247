------------------------------- MODULE Slicer -------------------------------
(***************************************************************************)
(* The downlink slicer of the MAC (slicer.cc, in a build with              *)
(* ENABLE_SLICER): slices with a share of the subframes and member IMSIs,  *)
(* the cycle of subframes made from the shares, and the RNTI last seen for *)
(* each IMSI and each TMSI.  Every operation holds slicer_mutex, hence is  *)
(* one step.  Lists of IMSIs and RNTIs whose order nothing reads are sets. *)
(* Slice names and IMSIs are numbers because std::map is ordered by them.  *)
(***************************************************************************)
EXTENDS Naturals, FiniteSets, SequencesExt

CONSTANTS
    SliceNames, Shares,    \* the slices and shares of a configuration
    Imsis, Tmsis,          \* identities; 0 is none of them
    NumRntis,              \* RNTIs there are (60000)
    SliceDb                \* the slices of slice_db_filename; <<>> without a file

ASSUME SlicerAssumption ==
    /\ SliceNames \subseteq Nat /\ IsFiniteSet(SliceNames) /\ Shares \subseteq Nat
    /\ Imsis \subseteq Nat \ {0} /\ Tmsis \subseteq Nat \ {0} /\ NumRntis \in Nat \ {0}
    /\ DOMAIN SliceDb \subseteq SliceNames
    /\ \A n \in DOMAIN SliceDb : SliceDb[n] \in [share : Shares, imsis : SUBSET Imsis]

Rntis == 1 .. NumRntis

VARIABLES
    alive,           \* FALSE once the eNB has died of an undefined operation
    slices,          \* slices: share and imsi_list of each
    sfAlloc,         \* sf_alloc: the place of the slice each subframe of a cycle belongs to
    allocIndex,      \* alloc_index, from 0
    sliceCrntis,     \* slice_to_crnti_vec
    allCrntis,       \* all_slice_crntis
    imsiToCrnti,     \* imsi_to_crnti
    tmsiToImsi       \* tmsi_to_imsi, 0 where no IMSI is known yet

allocVars  == <<sfAlloc, allocIndex>>
cacheVars  == <<sliceCrntis, allCrntis>>
idVars     == <<imsiToCrnti, tmsiToImsi>>
slicerVars == <<alive, slices, allocVars, cacheVars, idVars>>

\* A map with the entries of f over those of g, and one with an entry put in (TLC's @@
\* and :>, spelt out for the prover).
Over(f, g) == [x \in DOMAIN f \cup DOMAIN g |-> IF x \in DOMAIN f THEN f[x] ELSE g[x]]
Put(g, k, e) == Over([x \in {k} |-> e], g)

PartialFunctions(S, T) == UNION {[D -> T] : D \in SUBSET S}

SlicerTypeOK ==
    /\ alive \in BOOLEAN
    /\ slices \in PartialFunctions(SliceNames, [share : Shares, imsis : SUBSET Imsis])
    /\ sfAlloc \in Seq(Nat) /\ allocIndex \in Nat
    /\ sliceCrntis \in PartialFunctions(SliceNames, SUBSET Rntis)
    /\ allCrntis \in SUBSET Rntis
    /\ imsiToCrnti \in PartialFunctions(Imsis, Rntis)
    /\ tmsiToImsi \in PartialFunctions(Tmsis, Imsis \cup {0})

-----------------------------------------------------------------------------
\* The order of std::map, by key.
SliceOrder(table) ==
    CHOOSE order \in [1 .. Cardinality(DOMAIN table) -> DOMAIN table] :
        \A i, j \in DOMAIN order : i < j => order[i] < order[j]

CalcGcf[a \in Nat] == [b \in Nat |-> IF a = 0 THEN b ELSE CalcGcf[b % a][a]]

\* Mutant: the last share is not looked at.
CalcGcfVec_ButLast(shares) ==
    LET res[k \in DOMAIN shares] == IF k = 1 THEN shares[1] ELSE CalcGcf[shares[k]][res[k - 1]]
    IN  res[IF Len(shares) = 1 THEN 1 ELSE Len(shares) - 1]

\* The early return for a factor of 1 changes nothing: it stays 1.
CalcGcfVec(shares) ==
    LET res[k \in DOMAIN shares] == IF k = 1 THEN shares[1] ELSE CalcGcf[shares[k]][res[k - 1]]
    IN  res[Len(shares)]

SharesInOrder(table) == [k \in DOMAIN SliceOrder(table) |-> table[SliceOrder(table)[k]].share]

\* Without slices v[0] reads an empty vector; with shares of 0 only, the division is by 0.
CannotAllocate(table) == DOMAIN table = {} \/ CalcGcfVec(SharesInOrder(table)) = 0

SfAllocOf(table) ==
    LET shares == SharesInOrder(table)
        gcf == CalcGcfVec(shares)
    IN FlattenSeq([k \in DOMAIN shares |-> [sf \in 1 .. shares[k] \div gcf |-> k - 1]])

\* Mutant: the cycle goes on where it was.
UpdSfAlloc_KeepIndex(table) ==
    IF CannotAllocate(table)
    THEN alive' = FALSE /\ UNCHANGED allocVars
    ELSE sfAlloc' = SfAllocOf(table) /\ UNCHANGED <<alive, allocIndex>>
UpdSfAlloc(table) ==
    IF CannotAllocate(table)
    THEN alive' = FALSE /\ UNCHANGED allocVars
    ELSE sfAlloc' = SfAllocOf(table) /\ allocIndex' = 0 /\ UNCHANGED alive

SlicerInit ==
    /\ alive = ~(SliceDb # <<>> /\ CannotAllocate(SliceDb))
    /\ slices = SliceDb
    /\ sfAlloc = IF SliceDb = <<>> \/ ~alive THEN <<>> ELSE SfAllocOf(SliceDb)
    /\ allocIndex = 0
    /\ sliceCrntis = <<>> /\ allCrntis = {} /\ imsiToCrnti = <<>> /\ tmsiToImsi = <<>>

-----------------------------------------------------------------------------
\* The MAC asks whose subframe it is; has_alloc is a cycle that is not empty.
CurSlice == SliceOrder(slices)[sfAlloc[allocIndex + 1] + 1]

GetCurSfCrntis ==
    /\ sfAlloc # <<>>
    /\ allocIndex' = (allocIndex + 1) % Len(sfAlloc)
    /\ sliceCrntis' = Over(sliceCrntis, [n \in {CurSlice} |-> {}])
    /\ UNCHANGED <<alive, slices, sfAlloc, allCrntis, idVars>>

-----------------------------------------------------------------------------
RntisOf(imsis, known) == {known[i] : i \in imsis \cap DOMAIN known}

\* upd_slice_crntis() for each of names; all_slice_crntis is filled again by each call.
UpdSliceCrntis(names, table, known) ==
    LET fresh == Over([n \in names |-> RntisOf(table[n].imsis, known)], sliceCrntis)
    IN /\ sliceCrntis' = fresh
       /\ allCrntis' = IF names = {} THEN allCrntis ELSE UNION {fresh[n] : n \in DOMAIN fresh}

\* The configuration of a slice that exists replaces it, members and all.
\* Mutant: a slice that exists is left as it is.
SliceConfig_KeepOld(shareOf) ==
    /\ slices' = Over(slices, [n \in DOMAIN shareOf |-> [share |-> shareOf[n], imsis |-> {}]])
    /\ UpdSfAlloc(slices')
    /\ UNCHANGED <<cacheVars, idVars>>
SliceConfig(shareOf) ==
    /\ slices' = Over([n \in DOMAIN shareOf |-> [share |-> shareOf[n], imsis |-> {}]], slices)
    /\ UpdSfAlloc(slices')
    /\ UNCHANGED <<cacheVars, idVars>>

\* Mutant: the RNTIs of the slice are left to the next capture.
SliceUeBind_NoRefresh(name, imsis) ==
    IF name \in DOMAIN slices
    THEN /\ slices' = [slices EXCEPT ![name].imsis = @ \cup imsis]
         /\ UNCHANGED <<alive, allocVars, cacheVars, idVars>>
    ELSE UNCHANGED slicerVars

\* Mutant: only UEs the slicer has seen are bound.
SliceUeBind_IfSeen(name, imsis) ==
    IF name \in DOMAIN slices
    THEN /\ slices' = [slices EXCEPT ![name].imsis = @ \cup (imsis \cap DOMAIN imsiToCrnti)]
         /\ UpdSliceCrntis({name}, slices', imsiToCrnti)
         /\ UNCHANGED <<alive, allocVars, idVars>>
    ELSE UNCHANGED slicerVars

SliceUeBind(name, imsis) ==
    IF name \in DOMAIN slices
    THEN /\ slices' = [slices EXCEPT ![name].imsis = @ \cup imsis]
         /\ UpdSliceCrntis({name}, slices', imsiToCrnti)
         /\ UNCHANGED <<alive, allocVars, idVars>>
    ELSE UNCHANGED slicerVars

SliceUeUnbind(name, imsis) ==
    IF name \in DOMAIN slices
    THEN /\ slices' = [slices EXCEPT ![name].imsis = @ \ imsis]
         /\ UpdSliceCrntis({name}, slices', imsiToCrnti)
         /\ UNCHANGED <<alive, allocVars, idVars>>
    ELSE UNCHANGED slicerVars

SliceDelete(names) ==
    LET gone == names \cap DOMAIN slices
    IN /\ slices' = Restrict(slices, DOMAIN slices \ gone)
       /\ sliceCrntis' = Restrict(sliceCrntis, DOMAIN sliceCrntis \ gone)
       /\ UpdSfAlloc(slices')
       /\ UNCHANGED <<allCrntis, idVars>>

\* What slice_status() says of every slice: its share, its members, and the RNTI
\* of those for which one was seen.
SliceStatus ==
    [n \in DOMAIN slices |->
        [share |-> slices[n].share, imsis |-> slices[n].imsis,
         crnti |-> Restrict(imsiToCrnti, slices[n].imsis \cap DOMAIN imsiToCrnti)]]

-----------------------------------------------------------------------------
SlicesOf(imsi) == {n \in DOMAIN slices : imsi \in slices[n].imsis}

\* An IMSI's RNTI is replaced; its slices follow.
SetCrnti(imsi, crnti) ==
    /\ imsiToCrnti' = Put(imsiToCrnti, imsi, crnti)
    /\ UpdSliceCrntis(SlicesOf(imsi), slices, imsiToCrnti')
    /\ UNCHANGED <<alive, slices, allocVars>>

\* The first IMSI, in the order of the map, that has this RNTI; 0 if none has.
HolderOf(crnti) ==
    LET holders == {i \in DOMAIN imsiToCrnti : imsiToCrnti[i] = crnti}
    IN IF holders = {} THEN 0 ELSE CHOOSE i \in holders : \A j \in holders : i <= j

\* upd_member_crnti(uint64_t imsi, uint16_t crnti)
UpdMemberImsi(imsi, crnti) == SetCrnti(imsi, crnti) /\ UNCHANGED tmsiToImsi

\* upd_member_crnti(uint32_t tmsi, uint16_t crnti).
\* Mutant: a TMSI that is known is not looked up again.
UpdMemberTmsi_FirstOwner(tmsi, crnti) ==
    LET owner == IF tmsi \in DOMAIN tmsiToImsi /\ tmsiToImsi[tmsi] # 0
                 THEN tmsiToImsi[tmsi] ELSE HolderOf(crnti)
    IN /\ tmsiToImsi' = Put(tmsiToImsi, tmsi, owner)
       /\ IF owner = 0 THEN UNCHANGED <<alive, slices, allocVars, cacheVars, imsiToCrnti>>
                       ELSE SetCrnti(owner, crnti)
UpdMemberTmsi(tmsi, crnti) ==
    LET owner == IF HolderOf(crnti) # 0 THEN HolderOf(crnti)
                 ELSE IF tmsi \in DOMAIN tmsiToImsi THEN tmsiToImsi[tmsi] ELSE 0
    IN /\ tmsiToImsi' = Put(tmsiToImsi, tmsi, owner)
       /\ IF owner = 0 THEN UNCHANGED <<alive, slices, allocVars, cacheVars, imsiToCrnti>>
                       ELSE SetCrnti(owner, crnti)

\* upd_member_crnti(uint16_t old_crnti, uint16_t new_crnti)
UpdMemberRnti(oldCrnti, newCrnti) ==
    IF HolderOf(oldCrnti) = 0 THEN UNCHANGED slicerVars
    ELSE SetCrnti(HolderOf(oldCrnti), newCrnti) /\ UNCHANGED tmsiToImsi

=============================================================================
