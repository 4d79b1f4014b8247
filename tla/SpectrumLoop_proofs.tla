------------------------ MODULE SpectrumLoop_proofs ------------------------
(***************************************************************************)
(* Theorems about SpectrumLoop, for all values of its constants.           *)
(***************************************************************************)
EXTENDS SpectrumLoop, FiniteSetTheorems, SequenceTheorems, TLAPS

USE DetectionsAssumption, ReportsAssumption, FlushAssumption, ChunksAssumption,
    CapAssumption, BoundsAssumption

\* What SendToImi appends: commands, the last of the last kind, numbered upwards.
LEMMA SendAppends ==
    ASSUME NEW kinds \in Seq(CommandKinds), kinds # <<>>, NEW prb \in Prbs \cup {NoPrb},
           TypeOK, SendToImi(kinds, prb)
    PROVE  /\ toImi' \in Seq(Commands)
           /\ sends' \in Nat
           /\ toImi' # <<>>
           /\ toImi'[Len(toImi')].kind = kinds[Len(kinds)]
<1> DEFINE new == [i \in 1 .. Len(kinds) |->
                     Cmd(kinds[i], IF kinds[i] = "prb" THEN prb ELSE NoPrb, sends + i)]
<1>1. /\ toImi \in Seq(Commands) /\ sends \in Nat
  BY DEF TypeOK, SharedTypeOK, XAppTypeOK
<1>2. Len(kinds) \in Nat \ {0}
  OBVIOUS
<1>3. new \in Seq(Commands) /\ Len(new) = Len(kinds)
  <2>1. \A i \in 1 .. Len(kinds) : new[i] \in Commands
    BY <1>1 DEF Commands, Cmd
  <2> QED BY <2>1, <1>2
<1>4. toImi' = toImi \o new /\ sends' = sends + Len(kinds)
  BY DEF SendToImi
<1>5. new[Len(kinds)].kind = kinds[Len(kinds)]
  BY <1>2 DEF Cmd
<1> HIDE DEF new
<1>6. Len(toImi') = Len(toImi) + Len(kinds) /\ toImi'[Len(toImi')] = new[Len(kinds)]
  <2>1. /\ Len(toImi \o new) = Len(toImi) + Len(new)
        /\ \A i \in 1 .. Len(toImi) + Len(new) :
             (toImi \o new)[i] = IF i <= Len(toImi) THEN toImi[i] ELSE new[i - Len(toImi)]
    BY <1>1, <1>3, ConcatProperties, Zenon
  <2>2. Len(toImi) \in Nat
    BY <1>1
  <2> QED BY <1>2, <1>3, <1>4, <2>1, <2>2
<1> QED BY <1>1, <1>2, <1>3, <1>4, <1>5, <1>6

LEMMA ExtractedType ==
    ASSUME TypeOK, NEW ks \in SUBSET Indices
    PROVE  Extracted(ks) \in Seq(Sample)
<1> DEFINE Part(S) == IF S = {} THEN <<>> ELSE ActiveUes(kpms[CHOOSE k \in S : TRUE])
<1>1. ASSUME NEW S \in SUBSET Indices PROVE Part(S) \in Seq(Sample)
  <2>1. CASE S = {}
    BY <2>1
  <2>2. CASE S # {}
    <3>1. PICK e \in Entries : e = kpms[CHOOSE k \in S : TRUE]
      BY <2>2 DEF TypeOK, SharedTypeOK
    <3>2. Part(S) = ActiveUes(e)
      BY <2>2, <3>1
    <3>3. \A i \in 1 .. Len(e.busy) : [ue |-> e.busy[i], ts |-> e.ts] \in Sample
      BY DEF Entries, Sample
    <3>4. Len(e.busy) \in Nat
      BY DEF Entries
    <3>5. ActiveUes(e) \in [1 .. Len(e.busy) -> Sample]
      BY <3>3 DEF ActiveUes
    <3>6. ActiveUes(e) \in Seq(Sample)
      BY <3>4, <3>5
    <3> QED BY <3>2, <3>6
  <2> QED BY <2>1, <2>2
<1> DEFINE older == {k \in ks : \E j \in ks : j > k}
<1>2. Part(older) \in Seq(Sample) /\ Part(ks \ older) \in Seq(Sample)
  BY <1>1
<1>3. Extracted(ks) = Part(older) \o Part(ks \ older)
  BY DEF Extracted
<1> HIDE DEF Part, older
<1> QED BY <1>2, <1>3

-----------------------------------------------------------------------------
LEMMA InitTypes == Init => TypeOK
<1> SUFFICES ASSUME Init PROVE TypeOK
  OBVIOUS
<1> USE DEF Init, NoPrb, Prbs, Cmd, NoSpec, NoCapture, NoDetection, Seen, Captures
<1>1. SharedTypeOK
  <2>1. kpms \in [Indices -> Entries]
    <3>1. Leftover \in Entries /\ NoReport \in Entries
      BY DEF Leftover, NoReport, Entries, UeClass
    <3> QED BY <3>1 DEF SharedInit, InitialKpms
  <2>2. toEnb \in Seq(Commands \cup {Greeting})
    BY DEF SharedInit
  <2> QED BY <2>1, <2>2 DEF SharedInit, SharedTypeOK, NoFile
<1>2. XAppTypeOK
  BY DEF XAppInit, XAppTypeOK, Modes
<1>3. ImiTypeOK
  <2>1. 0 \in Indices /\ 0 \in 0 .. Chunks
    BY DEF Indices
  <2>2. Cmd("k", NoPrb, 0) \in Commands
    BY DEF Commands, CommandKinds
  <2>3. NoSpec \in Captures
    OBVIOUS
  <2> QED BY <2>1, <2>2, <2>3 DEF ImiInit, ImiTypeOK, CommandKinds, ClientSteps
<1>4. E2LiteTypeOK
  <2>1. Cmd("k", NoPrb, 0) \in Commands
    BY DEF Commands, CommandKinds
  <2>2. NoCapture \in Captures
    OBVIOUS
  <2>3. 0 \in 0 .. Chunks - 1
    OBVIOUS
  <2> QED BY <2>1, <2>2, <2>3 DEF E2LiteInit, E2LiteTypeOK
<1> QED BY <1>1, <1>2, <1>3, <1>4 DEF TypeOK

LEMMA XAppTypes == TypeOK /\ XAppStep => TypeOK'
<1> SUFFICES ASSUME TypeOK, XAppStep PROVE TypeOK'
  OBVIOUS
<1>1. SharedTypeOK /\ XAppTypeOK
  BY DEF TypeOK
<1>2. (ImiTypeOK /\ E2LiteTypeOK)'
  BY DEF TypeOK, XAppStep, ImiTypeOK, E2LiteTypeOK, imiVars, enbVars
<1>3. ASSUME NEW kinds \in Seq(CommandKinds), kinds # <<>>, NEW prb \in Prbs \cup {NoPrb},
             SendToImi(kinds, prb),
             UNCHANGED <<toEnb, fromEnb, kpms, newSpec, prbFile, iqFile>>
      PROVE  SharedTypeOK' /\ sends' \in Nat
  BY <1>1, <1>3, SendAppends DEF SharedTypeOK
<1>4. Extracted(keys) \in Seq(Sample)
  BY <1>1, ExtractedType DEF XAppTypeOK
<1>5. UNCHANGED shared => SharedTypeOK'
  BY <1>1 DEF shared, SharedTypeOK
<1>6. RetainOrUnblank(metrics) \in Prbs /\ RetainOrUnblank(Extracted(keys)) \in Prbs
  BY <1>1 DEF RetainOrUnblank, XAppTypeOK, Prbs
<1>7. /\ <<"prb">> \in Seq(CommandKinds) /\ <<"prb">> # <<>>
      /\ <<"i">> \in Seq(CommandKinds) /\ <<"i">> # <<>>
      /\ <<"prb", "k">> \in Seq(CommandKinds) /\ <<"prb", "k">> # <<>>
  BY DEF CommandKinds
<1>8. CASE FindKeys
  BY <1>1, <1>2, <1>5, <1>8 DEF FindKeys, LastTwo, Stored, XAppTypeOK, TypeOK
<1>9. CASE GetNothingNew
  BY <1>1, <1>2, <1>5, <1>9 DEF GetNothingNew, XAppTypeOK, TypeOK
<1>10. CASE KpmBranchFails
  BY <1>1, <1>2, <1>4, <1>5, <1>10 DEF KpmBranchFails, XAppTypeOK, TypeOK
<1>11. CASE NoRadarInKpms
  <2>1. SharedTypeOK' /\ sends' \in Nat
    BY <1>3, <1>6, <1>7, <1>11 DEF NoRadarInKpms
  <2> QED BY <2>1, <1>1, <1>2, <1>4, <1>11 DEF NoRadarInKpms, XAppTypeOK, TypeOK
<1>12. CASE RadarInKpms
  <2>1. SharedTypeOK' /\ sends' \in Nat
    BY <1>3, <1>7, <1>12 DEF RadarInKpms
  <2> QED BY <2>1, <1>1, <1>2, <1>4, <1>12 DEF RadarInKpms, XAppTypeOK, TypeOK, Modes
<1>13. CASE GetSpectrogram
  BY <1>1, <1>2, <1>5, <1>13 DEF GetSpectrogram, XAppTypeOK, SharedTypeOK, TypeOK
<1>14. ASSUME prevSpec.det # NoDetection PROVE prevSpec.det \in Prbs
  BY <1>1, <1>14 DEF XAppTypeOK, Captures, Seen, Prbs
<1>15. CASE DetectionUsable
  <2>1. SharedTypeOK' /\ sends' \in Nat
    BY <1>3, <1>7, <1>14, <1>15 DEF DetectionUsable
  <2> QED BY <2>1, <1>1, <1>2, <1>14, <1>15 DEF DetectionUsable, XAppTypeOK, TypeOK, Modes
<1>16. CASE DetectionOutOfCarrier
  BY <1>1, <1>2, <1>5, <1>14, <1>16 DEF DetectionOutOfCarrier, XAppTypeOK, TypeOK
<1>17. CASE NoDetectionMade
  <2>1. SharedTypeOK' /\ sends' \in Nat
    BY <1>3, <1>6, <1>7, <1>17 DEF NoDetectionMade
  <2> QED BY <2>1, <1>1, <1>2, <1>17 DEF NoDetectionMade, XAppTypeOK, TypeOK, Modes
<1> QED BY <1>8, <1>9, <1>10, <1>11, <1>12, <1>13, <1>15, <1>16, <1>17 DEF XAppStep, XAppNext

LEMMA ListenTypes == TypeOK /\ ListenStep => TypeOK'
<1> SUFFICES ASSUME TypeOK, ListenStep PROVE TypeOK'
  OBVIOUS
<1>1. Head(toImi) \in Commands /\ Tail(toImi) \in Seq(Commands)
  BY DEF TypeOK, SharedTypeOK, ListenStep, ReceiveCommand
<1> QED
  BY <1>1 DEF TypeOK, SharedTypeOK, XAppTypeOK, ImiTypeOK, E2LiteTypeOK,
              ListenStep, ReceiveCommand, xappVars, enbVars

LEMMA ClientTypes == TypeOK /\ ClientStep => TypeOK'
<1> SUFFICES ASSUME TypeOK, ClientStep PROVE TypeOK'
  OBVIOUS
<1>1. SharedTypeOK /\ ImiTypeOK
  BY DEF TypeOK
<1>2. (XAppTypeOK /\ E2LiteTypeOK)'
  BY DEF TypeOK, ClientStep, XAppTypeOK, E2LiteTypeOK, xappVars, enbVars
<1>3. ASSUME fromEnb # <<>>
      PROVE  Head(fromEnb) \in Replies /\ Tail(fromEnb) \in Seq(Replies)
  BY <1>1, <1>3 DEF SharedTypeOK
<1>4. CASE SendCommand
  <2>1. toEnb' \in Seq(Commands \cup {Greeting}) /\ command.kind \in CommandKinds
    BY <1>1, <1>4 DEF SendCommand, SharedTypeOK, ImiTypeOK, Commands
  <2> QED BY <1>1, <1>2, <1>4, <2>1
          DEF SendCommand, SharedTypeOK, ImiTypeOK, TypeOK, ClientSteps
<1>5. CASE ChooseBranch
  <2>1. cpc' \in ClientSteps /\ outOfStep' \in BOOLEAN
    BY <1>1, <1>5 DEF ChooseBranch, Test, ClientSteps, ImiTypeOK
  <2> QED BY <1>1, <1>2, <1>5, <2>1
          DEF ChooseBranch, Test, SharedTypeOK, ImiTypeOK, TypeOK, shared
<1>6. CASE ReceiveKpms
  <2>1. Head(fromEnb).rep \in Entries
    BY <1>3, <1>6 DEF ReceiveKpms, Replies
  <2>2. kpms' \in [Indices -> Entries] /\ kIdx' \in Indices /\ cpc' \in ClientSteps
    <3>1. kpms \in [Indices -> Entries] /\ kIdx \in Indices
      BY <1>1 DEF SharedTypeOK, ImiTypeOK
    <3>2. CASE Head(fromEnb).rep.nUes = 0
      BY <1>6, <3>1, <3>2 DEF ReceiveKpms, ClientSteps
    <3>3. CASE Head(fromEnb).rep.nUes # 0
      <4>1. kpms' \in {kpms, [kpms EXCEPT ![kIdx] = Head(fromEnb).rep]}
        BY <1>6, <3>3 DEF ReceiveKpms
      <4>2. kpms' \in [Indices -> Entries]
        BY <2>1, <3>1, <4>1
      <4>3. kIdx' \in Indices /\ cpc' \in ClientSteps
        BY <1>6, <3>1, <3>3 DEF ReceiveKpms, Indices, ClientSteps
      <4> QED BY <4>2, <4>3
    <3> QED BY <3>2, <3>3
  <2> QED BY <1>1, <1>2, <1>3, <1>6, <2>2
          DEF ReceiveKpms, SharedTypeOK, ImiTypeOK, TypeOK
<1>7. CASE FlushDatabase
  <2>1. NoReport \in Entries /\ 0 \in Indices
    BY DEF NoReport, Entries, Indices
  <2> QED BY <1>1, <1>2, <1>7, <2>1
          DEF FlushDatabase, SharedTypeOK, ImiTypeOK, TypeOK, ClientSteps
<1>8. CASE ReceiveIqAsKpms
  <2>1. RestMsg \in Replies
    BY DEF RestMsg, Replies, NoReport, Entries, NoCapture, Captures, Seen, NoDetection
  <2>2. fromEnb' \in Seq(Replies)
    <3>1. PICK left \in {<<RestMsg>>, <<>>} : fromEnb' = left \o Tail(fromEnb)
      BY <1>8 DEF ReceiveIqAsKpms
    <3>2. left \in Seq(Replies)
      <4>1. <<RestMsg>> \in Seq(Replies) /\ <<>> \in Seq(Replies)
        BY <2>1
      <4> QED BY <3>1, <4>1, Zenon
    <3> QED BY <1>3, <1>8, <3>1, <3>2, ConcatProperties DEF ReceiveIqAsKpms
  <2> QED BY <1>1, <1>2, <1>8, <2>2
          DEF ReceiveIqAsKpms, SharedTypeOK, ImiTypeOK, TypeOK, ClientSteps
<1>9. CASE ReceiveIq
  <2>1. iqData' \in Captures
    BY <1>3, <1>9 DEF ReceiveIq, Replies, Garbled, Captures, Seen
  <2> QED BY <1>1, <1>2, <1>3, <1>9, <2>1
          DEF ReceiveIq, SharedTypeOK, ImiTypeOK, TypeOK
<1>10. CASE StoreSpectrogram
  <2>1. NoSpec \in Captures
    BY DEF NoSpec, Captures, Seen
  <2>2. Spectrograms \subseteq Captures
    BY <1>1 DEF Spectrograms, ImiTypeOK, Garbled, Captures
  <2>3. newSpec' \in Captures /\ prevIq' \in Captures /\ cpc' \in ClientSteps
    BY <1>1, <1>10, <2>2 DEF StoreSpectrogram, SharedTypeOK, ImiTypeOK, ClientSteps
  <2> QED BY <1>1, <1>2, <1>10, <2>1, <2>3
          DEF StoreSpectrogram, SharedTypeOK, ImiTypeOK, TypeOK
<1> QED BY <1>4, <1>5, <1>6, <1>7, <1>8, <1>9, <1>10 DEF ClientStep, ClientNext

LEMMA EnbTypes == TypeOK /\ (AgentStep \/ PhyStep) => TypeOK'
<1> SUFFICES ASSUME TypeOK, AgentStep \/ PhyStep PROVE TypeOK'
  OBVIOUS
<1>1. SharedTypeOK /\ E2LiteTypeOK
  BY DEF TypeOK
<1>2. (XAppTypeOK /\ ImiTypeOK)'
  BY DEF TypeOK, AgentStep, PhyStep, XAppTypeOK, ImiTypeOK, xappVars, imiVars
<1>3. ASSUME toEnb # <<>>
      PROVE  /\ Head(toEnb) \in Commands \cup {Greeting}
             /\ Tail(toEnb) \in Seq(Commands \cup {Greeting})
  BY <1>1, <1>3 DEF SharedTypeOK
<1>4. Greeting.kind = "hello"
  BY DEF Greeting, Cmd
<1>5. CASE RefuseMessage
  BY <1>1, <1>2, <1>3, <1>5 DEF RefuseMessage, SharedTypeOK, E2LiteTypeOK, TypeOK
<1>6. CASE OpenFails
  BY <1>1, <1>2, <1>3, <1>6 DEF OpenFails, SharedTypeOK, E2LiteTypeOK, TypeOK
<1>7. CASE HandleOneByte
  <2>1. Head(toEnb) \in Commands
    BY <1>3, <1>4, <1>7 DEF HandleOneByte, SizeOne
  <2> QED BY <1>1, <1>2, <1>3, <1>7, <2>1 DEF HandleOneByte, SharedTypeOK, E2LiteTypeOK, TypeOK
<1>8. CASE OpenPrbFile
  <2>1. Head(toEnb) \in Commands
    BY <1>3, <1>4, <1>8 DEF OpenPrbFile
  <2> QED BY <1>1, <1>2, <1>3, <1>8, <2>1
          DEF OpenPrbFile, SharedTypeOK, E2LiteTypeOK, TypeOK, NoFile
<1>9. CASE WritePrbFile
  <2>1. prbFile' \in [prb : Prbs \cup {NoPrb}, n : Nat]
    BY <1>1, <1>9 DEF WritePrbFile, E2LiteTypeOK, Commands
  <2> QED BY <1>1, <1>2, <1>9, <2>1 DEF WritePrbFile, SharedTypeOK, E2LiteTypeOK, TypeOK
<1>10. CASE SendKpms
  <2>1. lastTs' \in Nat
    BY <1>1, <1>10 DEF SendKpms, E2LiteTypeOK
  <2>2. PICK r \in Reports : fromEnb' = Append(fromEnb, KpmMsg(Entry(lastTs', r)))
    BY <1>10 DEF SendKpms
  <2>3. KpmMsg(Entry(lastTs', r)) \in Replies
    BY <2>1, <2>2 DEF KpmMsg, Entry, Replies, Entries, Reported, NoCapture, Captures, Seen,
                      NoDetection
  <2> QED BY <1>1, <1>2, <1>10, <2>1, <2>2, <2>3
          DEF SendKpms, SharedTypeOK, E2LiteTypeOK, TypeOK
<1>11. CASE ReadIqFile
  <2>1. abuf' \in Captures
    BY <1>1, <1>11 DEF ReadIqFile, SharedTypeOK, NoCapture, Captures, Seen
  <2> QED BY <1>1, <1>2, <1>11, <2>1 DEF ReadIqFile, SharedTypeOK, E2LiteTypeOK, TypeOK, shared
<1>12. CASE SendIqChunk
  <2>1. IqMsg(abuf) \in Replies
    BY <1>1 DEF E2LiteTypeOK, IqMsg, Replies, NoReport, Entries
  <2>2. abuf' \in Captures /\ nSent' \in 0 .. Chunks - 1 /\ apc' \in {"idle", "iq"}
    BY <1>1, <1>12 DEF SendIqChunk, E2LiteTypeOK, NoCapture, Captures, Seen
  <2> QED BY <1>1, <1>2, <1>12, <2>1, <2>2 DEF SendIqChunk, SharedTypeOK, E2LiteTypeOK, TypeOK
<1>13. CASE NewCapture
  <2>1. iqFile' \in Captures /\ nCaptures' \in Nat
    BY <1>1, <1>13 DEF NewCapture, E2LiteTypeOK, Captures
  <2> QED BY <1>1, <1>2, <1>13, <2>1 DEF NewCapture, SharedTypeOK, E2LiteTypeOK, TypeOK
<1>14. CASE WriteFails
  BY <1>1, <1>2, <1>14 DEF WriteFails, shared, SharedTypeOK, E2LiteTypeOK, TypeOK
<1> QED BY <1>5, <1>6, <1>7, <1>8, <1>9, <1>10, <1>11, <1>12, <1>13, <1>14
        DEF AgentStep, AgentNext, PhyStep

(***************************************************************************)
(* Every reachable state is well typed, whatever the ranges, the reports,  *)
(* the flush index and the number of chunks: in particular the KPM index   *)
(* never leaves the range that the flush bounds.                           *)
(***************************************************************************)
THEOREM TypeCorrect == Spec => []TypeOK
<1>1. TypeOK /\ [Next]_vars => TypeOK'
  <2> SUFFICES ASSUME TypeOK, [Next]_vars PROVE TypeOK'
    OBVIOUS
  <2>1. CASE UNCHANGED vars
    BY <2>1 DEF vars, xappVars, imiVars, enbVars, shared,
                TypeOK, SharedTypeOK, XAppTypeOK, ImiTypeOK, E2LiteTypeOK
  <2> QED BY <2>1, XAppTypes, ListenTypes, ClientTypes, EnbTypes DEF Next
<1> QED BY <1>1, InitTypes, PTL DEF Spec

-----------------------------------------------------------------------------
\* Taking the head of a sequence leaves its last element last.
LEMMA TailLast ==
    ASSUME NEW S, NEW s \in Seq(S), s # <<>>
    PROVE  IF Tail(s) = <<>> THEN s[Len(s)] = s[1]
                             ELSE Tail(s)[Len(Tail(s))] = s[Len(s)]
<1>1. Len(s) \in Nat /\ Len(s) # 0
  BY EmptySeq, LenProperties
<1>2. /\ Tail(s) \in Seq(S) /\ Len(Tail(s)) = Len(s) - 1
      /\ \A i \in 1 .. Len(Tail(s)) : Tail(s)[i] = s[i + 1]
  BY HeadTailProperties
<1>3. CASE Len(s) = 1
  <2>1. Tail(s) = <<>>
    <3>1. Len(Tail(s)) = 0
      BY <1>2, <1>3
    <3> QED BY <1>2, <3>1, EmptySeq, Zenon
  <2> QED BY <1>3, <2>1
<1>4. CASE Len(s) # 1
  <2>1. Tail(s) # <<>>
    <3>1. Len(Tail(s)) # 0
      BY <1>1, <1>2, <1>4
    <3> QED BY <3>1, EmptySeq, Zenon
  <2>2. Len(s) - 1 \in 1 .. Len(Tail(s)) /\ (Len(s) - 1) + 1 = Len(s)
    BY <1>1, <1>2, <1>4
  <2> QED BY <1>2, <2>1, <2>2
<1> QED BY <1>3, <1>4

\* After SendToImi the last command is the last one sent.
LEMMA LastAfterSend ==
    ASSUME NEW kinds \in Seq(CommandKinds), kinds # <<>>, NEW prb \in Prbs \cup {NoPrb},
           TypeOK, SendToImi(kinds, prb)
    PROVE  LastCommand'.kind = kinds[Len(kinds)]
BY SendAppends DEF LastCommand

(***************************************************************************)
(* The radarxApp is in I/Qs mode exactly while the last command it sent is *)
(* b'i'.  ModeMatchesCommand is inductive together with the types: only    *)
(* the radarxApp changes the mode or adds a command, and ReceiveCommand    *)
(* moves the oldest one from the association into the global.              *)
(***************************************************************************)
THEOREM ModeAndCommandAgree == Spec => []ModeMatchesCommand
<1>1. Init => ModeMatchesCommand
  BY DEF Init, XAppInit, ImiInit, SharedInit, ModeMatchesCommand, LastCommand, Cmd
<1>2. TypeOK /\ ModeMatchesCommand /\ [Next]_vars => ModeMatchesCommand'
  <2> SUFFICES ASSUME TypeOK, ModeMatchesCommand, [Next]_vars PROVE ModeMatchesCommand'
    OBVIOUS
  <2>1. ASSUME UNCHANGED <<mode, command, toImi>> PROVE ModeMatchesCommand'
    BY <2>1 DEF ModeMatchesCommand, LastCommand
  <2>2. CASE XAppStep
    <3>1. /\ <<"prb">> \in Seq(CommandKinds) /\ <<"prb">> # <<>>
          /\ <<"i">> \in Seq(CommandKinds) /\ <<"i">> # <<>>
          /\ <<"prb", "k">> \in Seq(CommandKinds) /\ <<"prb", "k">> # <<>>
      BY DEF CommandKinds
    <3>2. RetainOrUnblank(metrics) \in Prbs /\ RetainOrUnblank(Extracted(keys)) \in Prbs
      BY DEF RetainOrUnblank, TypeOK, XAppTypeOK, Prbs
    <3>3. UNCHANGED command
      BY <2>2 DEF XAppStep, imiVars
    <3>4. CASE FindKeys \/ GetNothingNew \/ KpmBranchFails \/ GetSpectrogram \/ DetectionOutOfCarrier
      BY <2>1, <3>3, <3>4
         DEF FindKeys, GetNothingNew, KpmBranchFails, GetSpectrogram, DetectionOutOfCarrier, shared
    <3>5. CASE NoRadarInKpms
      <4>1. SendToImi(<<"prb">>, RetainOrUnblank(Extracted(keys))) /\ mode' = "KPMs"
        BY <3>5 DEF NoRadarInKpms
      <4>2. LastCommand'.kind = "prb"
        BY <3>1, <3>2, <4>1, LastAfterSend
      <4> QED BY <4>1, <4>2 DEF ModeMatchesCommand
    <3>6. CASE RadarInKpms
      <4>1. SendToImi(<<"i">>, NoPrb) /\ mode' = "I/Qs"
        BY <3>6 DEF RadarInKpms
      <4>2. LastCommand'.kind = "i"
        BY <3>1, <4>1, LastAfterSend
      <4> QED BY <4>1, <4>2 DEF ModeMatchesCommand
    <3>7. CASE DetectionUsable
      <4>1. SendToImi(<<"prb">>, prevSpec.det) /\ mode' = "KPMs" /\ prevSpec.det \in Prbs
        BY <3>7 DEF DetectionUsable, TypeOK, XAppTypeOK, Captures, Seen, Prbs
      <4>2. LastCommand'.kind = "prb"
        BY <3>1, <4>1, LastAfterSend
      <4> QED BY <4>1, <4>2 DEF ModeMatchesCommand
    <3>8. CASE NoDetectionMade
      <4>1. SendToImi(<<"prb", "k">>, RetainOrUnblank(metrics)) /\ mode' = "KPMs"
        BY <3>8 DEF NoDetectionMade
      <4>2. LastCommand'.kind = "k"
        BY <3>1, <3>2, <4>1, LastAfterSend
      <4> QED BY <4>1, <4>2 DEF ModeMatchesCommand
    <3> QED BY <2>2, <3>4, <3>5, <3>6, <3>7, <3>8 DEF XAppStep, XAppNext
  <2>3. CASE ListenStep
    <3>1. /\ toImi \in Seq(Commands) /\ toImi # <<>>
          /\ command' = toImi[1] /\ toImi' = Tail(toImi) /\ mode' = mode
      BY <2>3 DEF ListenStep, ReceiveCommand, TypeOK, SharedTypeOK, xappVars
    <3>2. LastCommand' = LastCommand
      BY <3>1, TailLast DEF LastCommand
    <3> QED BY <3>1, <3>2 DEF ModeMatchesCommand
  <2>4. CASE ClientStep
    BY <2>1, <2>4 DEF ClientStep, ClientNext, SendCommand, ChooseBranch, Test, ReceiveKpms,
       FlushDatabase, ReceiveIqAsKpms, ReceiveIq, StoreSpectrogram, xappVars, shared
  <2>5. CASE AgentStep
    BY <2>1, <2>5 DEF AgentStep, AgentNext, RefuseMessage, OpenFails, HandleOneByte, OpenPrbFile,
       WritePrbFile, WriteFails, SendKpms, ReadIqFile, SendIqChunk, xappVars, imiVars, shared
  <2>6. CASE PhyStep
    BY <2>1, <2>6 DEF PhyStep, NewCapture, xappVars, imiVars
  <2>7. CASE UNCHANGED vars
    BY <2>1, <2>7 DEF vars, xappVars, imiVars, shared
  <2> QED BY <2>2, <2>3, <2>4, <2>5, <2>6, <2>7 DEF Next
<1> QED BY <1>1, <1>2, TypeCorrect, PTL DEF Spec

(***************************************************************************)
(* In I/Qs mode the last metrics are those of an alarm: a spectrogram in   *)
(* which nothing is detected never makes the radarxApp unblank.            *)
(***************************************************************************)
THEOREM AlarmIsHeld == Spec => []AlarmHeldInIqMode
<1>1. Init => AlarmHeldInIqMode
  BY DEF Init, XAppInit, AlarmHeldInIqMode
<1>2. AlarmHeldInIqMode /\ [Next]_vars => AlarmHeldInIqMode'
  <2> SUFFICES ASSUME AlarmHeldInIqMode, [Next]_vars PROVE AlarmHeldInIqMode'
    OBVIOUS
  <2>1. ASSUME UNCHANGED <<mode, metrics>> PROVE AlarmHeldInIqMode'
    BY <2>1 DEF AlarmHeldInIqMode, RadarLikely
  <2>2. CASE XAppStep
    <3>1. CASE FindKeys \/ GetNothingNew \/ GetSpectrogram \/ DetectionOutOfCarrier
      BY <2>1, <3>1 DEF FindKeys, GetNothingNew, GetSpectrogram, DetectionOutOfCarrier
    <3>2. CASE KpmBranchFails \/ NoRadarInKpms \/ DetectionUsable \/ NoDetectionMade
      BY <3>2 DEF KpmBranchFails, NoRadarInKpms, DetectionUsable, NoDetectionMade, AlarmHeldInIqMode
    <3>3. CASE RadarInKpms
      BY <3>3 DEF RadarInKpms, AlarmHeldInIqMode, RadarLikely
    <3> QED BY <2>2, <3>1, <3>2, <3>3 DEF XAppStep, XAppNext
  <2>3. CASE ListenStep \/ ClientStep \/ AgentStep \/ PhyStep \/ UNCHANGED vars
    BY <2>1, <2>3 DEF ListenStep, ClientStep, AgentStep, PhyStep, vars, xappVars
  <2> QED BY <2>2, <2>3 DEF Next
<1> QED BY <1>1, <1>2, PTL DEF Spec

-----------------------------------------------------------------------------
(***************************************************************************)
(* The order of the radarxApp's commands along the whole path: those in    *)
(* flight to the IMI are no older than the IMI's, which is no older than   *)
(* those in flight to the agent, which are no older than the agent's.      *)
(***************************************************************************)
Sorted(s) == \A i, j \in DOMAIN s : i < j => s[i].n <= s[j].n

InOrder ==
    /\ Sorted(toImi) /\ Sorted(toEnb)
    /\ \A i \in DOMAIN toImi : command.n <= toImi[i].n /\ toImi[i].n <= sends
    /\ \A i \in DOMAIN toEnb : amsg.n <= toEnb[i].n /\ toEnb[i].n <= command.n
    /\ amsg.n <= command.n /\ command.n <= sends

\* The numbers of what SendToImi appends follow those sent before.
LEMMA SendKeepsOrder ==
    ASSUME NEW kinds \in Seq(CommandKinds), NEW prb \in Prbs \cup {NoPrb},
           TypeOK, InOrder, SendToImi(kinds, prb)
    PROVE  /\ Sorted(toImi') /\ sends <= sends'
           /\ \A i \in DOMAIN toImi' : command.n <= toImi'[i].n /\ toImi'[i].n <= sends'
<1> DEFINE new == [i \in 1 .. Len(kinds) |->
                     Cmd(kinds[i], IF kinds[i] = "prb" THEN prb ELSE NoPrb, sends + i)]
<1>1. /\ toImi \in Seq(Commands) /\ sends \in Nat /\ command.n \in Nat
      /\ Len(kinds) \in Nat /\ Len(toImi) \in Nat
  BY DEF TypeOK, SharedTypeOK, XAppTypeOK, ImiTypeOK, Commands
<1>2. /\ toImi' = toImi \o new /\ sends' = sends + Len(kinds)
  BY DEF SendToImi
<1>3. new \in Seq(Commands) /\ Len(new) = Len(kinds)
  <2>1. \A i \in 1 .. Len(kinds) : new[i] \in Commands
    BY <1>1 DEF Commands, Cmd
  <2> QED BY <1>1, <2>1
<1>4. \A i \in 1 .. Len(kinds) : new[i].n = sends + i
  BY DEF Cmd
<1> HIDE DEF new
<1>5. /\ DOMAIN toImi' = 1 .. Len(toImi) + Len(kinds)
      /\ \A i \in 1 .. Len(toImi) + Len(kinds) :
           toImi'[i] = IF i <= Len(toImi) THEN toImi[i] ELSE new[i - Len(toImi)]
  <2>1. /\ toImi \o new \in Seq(Commands)
        /\ Len(toImi \o new) = Len(toImi) + Len(new)
        /\ \A i \in 1 .. Len(toImi) + Len(new) :
             (toImi \o new)[i] = IF i <= Len(toImi) THEN toImi[i] ELSE new[i - Len(toImi)]
    BY <1>1, <1>3, ConcatProperties, Zenon
  <2> QED BY <1>2, <1>3, <2>1
<1>6. \A i \in DOMAIN toImi' :
         /\ i <= Len(toImi) => i \in DOMAIN toImi /\ toImi'[i] = toImi[i]
         /\ i > Len(toImi) => toImi'[i].n = sends + (i - Len(toImi))
  <2> SUFFICES ASSUME NEW i \in 1 .. Len(toImi) + Len(kinds)
               PROVE  /\ i <= Len(toImi) => i \in DOMAIN toImi /\ toImi'[i] = toImi[i]
                      /\ i > Len(toImi) => toImi'[i].n = sends + (i - Len(toImi))
    BY <1>5
  <2>1. CASE i <= Len(toImi)
    <3>1. i \in 1 .. Len(toImi) /\ DOMAIN toImi = 1 .. Len(toImi)
      BY <1>1, <2>1
    <3>2. toImi'[i] = toImi[i]
      BY <1>5, <2>1
    <3> QED BY <1>1, <2>1, <3>1, <3>2
  <2>2. CASE i > Len(toImi)
    <3>1. i - Len(toImi) \in 1 .. Len(kinds) /\ ~(i <= Len(toImi))
      BY <1>1, <2>2
    <3>2. toImi'[i] = new[i - Len(toImi)]
      BY <1>5, <3>1
    <3> QED BY <1>4, <3>1, <3>2
  <2> QED BY <1>1, <2>1, <2>2
<1>7. \A i \in DOMAIN toImi : toImi[i].n \in Nat /\ toImi[i].n <= sends /\ command.n <= toImi[i].n
  <2>1. \A i \in DOMAIN toImi : toImi[i] \in Commands
    BY <1>1, ElementOfSeq, LenProperties, Zenon
  <2> QED BY <2>1 DEF InOrder, Commands
<1>8. Sorted(toImi')
  <2> SUFFICES ASSUME NEW i \in DOMAIN toImi', NEW j \in DOMAIN toImi', i < j
               PROVE  toImi'[i].n <= toImi'[j].n
    BY DEF Sorted
  <2>1. i \in Nat /\ j \in Nat
    BY <1>1, <1>5
  <2>2. CASE j <= Len(toImi)
    <3>1. /\ i \in DOMAIN toImi /\ toImi'[i] = toImi[i]
          /\ j \in DOMAIN toImi /\ toImi'[j] = toImi[j]
      BY <1>1, <1>6, <2>1, <2>2
    <3> QED BY <3>1 DEF InOrder, Sorted
  <2>3. CASE j > Len(toImi)
    <3>1. toImi'[j].n = sends + (j - Len(toImi))
      BY <1>6, <2>3
    <3>2. CASE i <= Len(toImi)
      <4>1. toImi'[i].n \in Nat /\ toImi'[i].n <= sends
        BY <1>6, <1>7, <3>2
      <4> QED BY <1>1, <2>1, <2>3, <3>1, <4>1
    <3>3. CASE i > Len(toImi)
      <4>1. toImi'[i].n = sends + (i - Len(toImi))
        BY <1>6, <3>3
      <4> QED BY <1>1, <2>1, <3>1, <4>1
    <3> QED BY <1>1, <2>1, <3>2, <3>3
  <2> QED BY <1>1, <2>1, <2>2, <2>3
<1>9. ASSUME NEW i \in DOMAIN toImi'
      PROVE  command.n <= toImi'[i].n /\ toImi'[i].n <= sends'
  <2>1. i \in 1 .. Len(toImi) + Len(kinds) /\ i \in Nat /\ command.n <= sends
    BY <1>1, <1>5 DEF InOrder
  <2>2. CASE i <= Len(toImi)
    <3>1. i \in DOMAIN toImi /\ toImi'[i] = toImi[i]
      BY <1>6, <2>2
    <3> QED BY <1>1, <1>2, <1>7, <3>1
  <2>3. CASE i > Len(toImi)
    <3>1. toImi'[i].n = sends + (i - Len(toImi))
      BY <1>6, <2>3
    <3> QED BY <1>1, <1>2, <2>1, <2>3, <3>1
  <2> QED BY <1>1, <2>1, <2>2, <2>3
<1> QED BY <1>1, <1>2, <1>8, <1>9

\* Taking the head of a sequence or appending to it keeps it sorted.
LEMMA SortedTail ==
    ASSUME NEW S, NEW s \in Seq(S), s # <<>>, Sorted(s)
    PROVE  /\ Sorted(Tail(s))
           /\ \A i \in DOMAIN Tail(s) : Head(s).n <= Tail(s)[i].n /\ i + 1 \in DOMAIN s
                                        /\ Tail(s)[i] = s[i + 1]
<1>1. Len(s) \in Nat \ {0} /\ DOMAIN s = 1 .. Len(s)
  BY EmptySeq, LenProperties
<1>2. /\ DOMAIN Tail(s) = 1 .. Len(s) - 1
      /\ \A i \in 1 .. Len(s) - 1 : Tail(s)[i] = s[i + 1]
  BY <1>1
<1>3. Head(s) = s[1] /\ 1 \in DOMAIN s
  BY <1>1
<1> QED BY <1>1, <1>2, <1>3 DEF Sorted

LEMMA SortedAppend ==
    ASSUME NEW S, NEW s \in Seq(S), NEW e \in S, Sorted(s),
           \A i \in DOMAIN s : s[i].n <= e.n, e.n \in Nat
    PROVE  /\ Sorted(Append(s, e))
           /\ \A i \in DOMAIN Append(s, e) :
                (i \in DOMAIN s /\ Append(s, e)[i] = s[i]) \/ Append(s, e)[i] = e
<1>1. /\ Len(s) \in Nat /\ DOMAIN s = 1 .. Len(s) /\ DOMAIN Append(s, e) = 1 .. Len(s) + 1
      /\ Append(s, e)[Len(s) + 1] = e
      /\ \A i \in 1 .. Len(s) : Append(s, e)[i] = s[i]
  OBVIOUS
<1>2. \A i \in DOMAIN Append(s, e) : i \in 1 .. Len(s) \/ i = Len(s) + 1
  BY <1>1
<1> QED BY <1>1, <1>2 DEF Sorted

LEMMA OrderKept == TypeOK /\ InOrder /\ [Next]_vars => InOrder' /\ amsg'.n >= amsg.n
<1> SUFFICES ASSUME TypeOK, InOrder, [Next]_vars PROVE InOrder' /\ amsg'.n >= amsg.n
  OBVIOUS
<1>1. /\ toImi \in Seq(Commands) /\ toEnb \in Seq(Commands \cup {Greeting})
      /\ command \in Commands /\ amsg \in Commands /\ sends \in Nat
      /\ command.n \in Nat /\ amsg.n \in Nat
      /\ \A i \in DOMAIN toEnb : toEnb[i].n \in Nat
  <2>1. Greeting.n \in Nat
    BY DEF Greeting, Cmd
  <2>2. \A c \in Commands \cup {Greeting} : c.n \in Nat
    BY <2>1 DEF Commands
  <2> QED BY <2>2 DEF TypeOK, SharedTypeOK, XAppTypeOK, ImiTypeOK, E2LiteTypeOK
<1>2. ASSUME UNCHANGED <<toImi, toEnb, command, amsg, sends>>
      PROVE  InOrder' /\ amsg'.n >= amsg.n
  BY <1>1, <1>2 DEF InOrder, Sorted
<1>3. CASE XAppStep
  <2>1. /\ UNCHANGED <<command, amsg, toEnb>>
        /\ \/ UNCHANGED <<toImi, sends>>
           \/ \E kinds \in Seq(CommandKinds), prb \in Prbs \cup {NoPrb} : SendToImi(kinds, prb)
    <3>1. UNCHANGED <<command, amsg>>
      BY <1>3 DEF XAppStep, imiVars, enbVars
    <3>2. /\ <<"prb">> \in Seq(CommandKinds) /\ <<"i">> \in Seq(CommandKinds)
          /\ <<"prb", "k">> \in Seq(CommandKinds)
      BY DEF CommandKinds
    <3>3. /\ RetainOrUnblank(metrics) \in Prbs /\ RetainOrUnblank(Extracted(keys)) \in Prbs
          /\ prevSpec.det # NoDetection => prevSpec.det \in Prbs
      BY DEF RetainOrUnblank, TypeOK, XAppTypeOK, Prbs, Captures, Seen
    <3>4. CASE FindKeys \/ GetNothingNew \/ KpmBranchFails \/ GetSpectrogram \/ DetectionOutOfCarrier
      BY <3>1, <3>4
         DEF FindKeys, GetNothingNew, KpmBranchFails, GetSpectrogram, DetectionOutOfCarrier, shared
    <3>5. CASE NoRadarInKpms
      <4>1. SendToImi(<<"prb">>, RetainOrUnblank(Extracted(keys))) /\ UNCHANGED toEnb
        BY <3>5 DEF NoRadarInKpms
      <4> QED BY <3>1, <3>2, <3>3, <4>1
    <3>6. CASE RadarInKpms
      <4>1. SendToImi(<<"i">>, NoPrb) /\ UNCHANGED toEnb
        BY <3>6 DEF RadarInKpms
      <4> QED BY <3>1, <3>2, <4>1
    <3>7. CASE DetectionUsable
      <4>1. SendToImi(<<"prb">>, prevSpec.det) /\ UNCHANGED toEnb /\ prevSpec.det \in Prbs
        BY <3>3, <3>7 DEF DetectionUsable
      <4> QED BY <3>1, <3>2, <4>1
    <3>8. CASE NoDetectionMade
      <4>1. SendToImi(<<"prb", "k">>, RetainOrUnblank(metrics)) /\ UNCHANGED toEnb
        BY <3>8 DEF NoDetectionMade
      <4> QED BY <3>1, <3>2, <3>3, <4>1
    <3> QED BY <1>3, <3>4, <3>5, <3>6, <3>7, <3>8 DEF XAppStep, XAppNext
  <2>2. CASE UNCHANGED <<toImi, sends>>
    BY <1>2, <2>1, <2>2
  <2>3. CASE \E kinds \in Seq(CommandKinds), prb \in Prbs \cup {NoPrb} : SendToImi(kinds, prb)
    <3>1. PICK kinds \in Seq(CommandKinds), prb \in Prbs \cup {NoPrb} : SendToImi(kinds, prb)
      BY <2>3
    <3>2. /\ Sorted(toImi') /\ sends <= sends' /\ sends' \in Nat
          /\ \A i \in DOMAIN toImi' : command.n <= toImi'[i].n /\ toImi'[i].n <= sends'
      <4>1. Len(kinds) \in Nat /\ sends' = sends + Len(kinds)
        BY <3>1, LenProperties DEF SendToImi
      <4>2. sends' \in Nat
        BY <1>1, <4>1
      <4> QED BY <3>1, <4>2, SendKeepsOrder
    <3>3. Sorted(toEnb') /\ command.n <= sends'
      BY <1>1, <2>1, <3>2 DEF InOrder
    <3> QED BY <1>1, <2>1, <3>2, <3>3 DEF InOrder
  <2> QED BY <2>1, <2>2, <2>3
<1>4. CASE ListenStep
  <2>1. /\ toImi # <<>> /\ command' = Head(toImi) /\ toImi' = Tail(toImi)
        /\ UNCHANGED <<toEnb, amsg, sends>>
    BY <1>4 DEF ListenStep, ReceiveCommand, xappVars, enbVars
  <2>2. /\ Sorted(toImi')
        /\ \A i \in DOMAIN toImi' : /\ command'.n <= toImi'[i].n
                                    /\ i + 1 \in DOMAIN toImi /\ toImi'[i] = toImi[i + 1]
    BY <1>1, <2>1, SortedTail DEF InOrder
  <2>3. /\ command'.n \in Nat /\ command.n <= command'.n /\ command'.n <= sends
    <3>1. 1 \in DOMAIN toImi /\ Head(toImi) = toImi[1]
      BY <1>1, <2>1, EmptySeq
    <3>2. toImi[1] \in Commands
      BY <1>1, <3>1, ElementOfSeq, LenProperties, Zenon
    <3>3. toImi[1].n \in Nat
      BY <3>2 DEF Commands
    <3> QED BY <2>1, <3>1, <3>3 DEF InOrder
  <2>4. \A i \in DOMAIN toEnb' : amsg'.n <= toEnb'[i].n /\ toEnb'[i].n <= command'.n
    BY <1>1, <2>1, <2>3 DEF InOrder
  <2> QED BY <1>1, <2>1, <2>2, <2>3, <2>4 DEF InOrder, Sorted
<1>5. CASE ClientStep
  <2>1. CASE SendCommand
    <3>1. toEnb' = Append(toEnb, command) /\ UNCHANGED <<toImi, command, amsg, sends>>
      BY <1>5, <2>1 DEF ClientStep, SendCommand, xappVars, enbVars
    <3>2. /\ Sorted(toEnb')
          /\ \A i \in DOMAIN toEnb' : \/ i \in DOMAIN toEnb /\ toEnb'[i] = toEnb[i]
                                      \/ toEnb'[i] = command
      <4>1. /\ command \in Commands \cup {Greeting} /\ Sorted(toEnb)
            /\ \A i \in DOMAIN toEnb : toEnb[i].n <= command.n
        BY <1>1 DEF InOrder
      <4>2. /\ Sorted(Append(toEnb, command))
            /\ \A i \in DOMAIN Append(toEnb, command) :
                 \/ i \in DOMAIN toEnb /\ Append(toEnb, command)[i] = toEnb[i]
                 \/ Append(toEnb, command)[i] = command
        BY <1>1, <4>1, SortedAppend, Zenon
      <4> QED BY <3>1, <4>2
    <3>3. \A i \in DOMAIN toEnb' : amsg.n <= toEnb'[i].n /\ toEnb'[i].n <= command.n
      BY <1>1, <3>2 DEF InOrder
    <3>4. Sorted(toImi')
      BY <3>1 DEF InOrder
    <3> QED BY <1>1, <3>1, <3>2, <3>3, <3>4 DEF InOrder
  <2>2. CASE ChooseBranch \/ ReceiveKpms \/ FlushDatabase \/ ReceiveIqAsKpms
             \/ ReceiveIq \/ StoreSpectrogram
    BY <1>2, <1>5, <2>2 DEF ClientStep, ChooseBranch, Test, ReceiveKpms, FlushDatabase,
       ReceiveIqAsKpms, ReceiveIq, StoreSpectrogram, shared, xappVars, enbVars
  <2> QED BY <1>5, <2>1, <2>2 DEF ClientStep, ClientNext
<1>6. CASE AgentStep
  <2>1. UNCHANGED <<toImi, command, sends>>
    BY <1>6 DEF AgentStep, AgentNext, RefuseMessage, OpenFails, HandleOneByte, OpenPrbFile,
       WritePrbFile, WriteFails, SendKpms, ReadIqFile, SendIqChunk, shared, xappVars, imiVars
  <2>2. ASSUME toEnb # <<>>, toEnb' = Tail(toEnb), amsg' \in {amsg, Head(toEnb)}
        PROVE  InOrder' /\ amsg'.n >= amsg.n
    <3>1. /\ Sorted(toEnb')
          /\ \A i \in DOMAIN toEnb' : /\ Head(toEnb).n <= toEnb'[i].n
                                      /\ i + 1 \in DOMAIN toEnb /\ toEnb'[i] = toEnb[i + 1]
      BY <1>1, <2>2, SortedTail DEF InOrder
    <3>2. 1 \in DOMAIN toEnb /\ Head(toEnb) = toEnb[1]
      BY <1>1, <2>2, EmptySeq
    <3>3. amsg'.n \in Nat /\ amsg.n <= amsg'.n /\ amsg'.n <= command.n
      BY <1>1, <2>2, <3>2 DEF InOrder
    <3>4. \A i \in DOMAIN toEnb' : amsg'.n <= toEnb'[i].n /\ toEnb'[i].n <= command.n
      BY <1>1, <2>2, <3>1 DEF InOrder
    <3>5. Sorted(toImi')
      BY <2>1 DEF InOrder
    <3> QED BY <1>1, <2>1, <3>1, <3>3, <3>4, <3>5 DEF InOrder
  <2>3. CASE RefuseMessage \/ OpenFails \/ HandleOneByte \/ OpenPrbFile
    BY <2>2, <2>3 DEF RefuseMessage, OpenFails, HandleOneByte, OpenPrbFile
  <2>4. CASE WritePrbFile \/ WriteFails \/ SendKpms \/ ReadIqFile \/ SendIqChunk
    BY <1>2, <2>1, <2>4 DEF WritePrbFile, WriteFails, SendKpms, ReadIqFile, SendIqChunk, shared
  <2> QED BY <1>6, <2>3, <2>4 DEF AgentStep, AgentNext
<1>7. CASE PhyStep
  BY <1>2, <1>7 DEF PhyStep, NewCapture, xappVars, imiVars
<1>8. CASE UNCHANGED vars
  BY <1>2, <1>8 DEF vars, shared, xappVars, imiVars, enbVars
<1> QED BY <1>3, <1>4, <1>5, <1>6, <1>7, <1>8 DEF Next

(***************************************************************************)
(* The agent handles the radarxApp's commands in the order they were sent, *)
(* however often the IMI repeats one and however many it skips: no pair in *)
(* the PRB file is ever replaced by an older one.                          *)
(***************************************************************************)
THEOREM CommandsStayInOrder == Spec => NoOlderCommandHandled
<1>1. Init => InOrder
  <2> SUFFICES ASSUME Init PROVE InOrder
    OBVIOUS
  <2>1. toImi = <<>> /\ toEnb = <<Greeting>> /\ sends = 0
    BY DEF Init, SharedInit, XAppInit
  <2>2. command.n = 0 /\ amsg.n = 0 /\ Greeting.n = 0
    BY DEF Init, ImiInit, E2LiteInit, Greeting, Cmd
  <2>3. DOMAIN toImi = {} /\ DOMAIN toEnb = {1} /\ toEnb[1] = Greeting
    BY <2>1
  <2> QED BY <2>1, <2>2, <2>3 DEF InOrder, Sorted
<1>2. TypeOK /\ InOrder /\ [Next]_vars => InOrder' /\ [amsg'.n >= amsg.n]_vars
  BY OrderKept
<1> QED BY <1>1, <1>2, TypeCorrect, PTL DEF Spec, NoOlderCommandHandled

-----------------------------------------------------------------------------
(***************************************************************************)
(* Where the question last sent and its answer are, as long as every       *)
(* branch was that of its question: on its way, being answered, answered   *)
(* in full or in part, or dropped because a file could not be written.     *)
(***************************************************************************)
Unasked == toEnb \in {<<>>, <<Greeting>>} /\ apc = "idle" /\ fromEnb = <<>> /\ nRecv = 0

Arriving ==
    /\ Len(toEnb) = 1 \/ (Len(toEnb) = 2 /\ toEnb[1] = Greeting)
    /\ toEnb[Len(toEnb)].kind = asked
    /\ apc = "idle" /\ fromEnb = <<>> /\ nRecv = 0

Dropped == toEnb = <<>> /\ apc = "idle" /\ fromEnb = <<>> /\ nRecv = 0

KpmsInWork == asked # "i" /\ toEnb = <<>> /\ apc \in {"write", "kpm"} /\ fromEnb = <<>> /\ nRecv = 0

KpmsSent ==
    /\ asked # "i" /\ toEnb = <<>> /\ apc = "idle" /\ nRecv = 0
    /\ Len(fromEnb) = 1 /\ fromEnb[1].kind = "kpm"

\* What is received and what is in flight are chunks of the capture c.
OfCapture(c) ==
    /\ c # Garbled
    /\ \A i \in DOMAIN fromEnb : fromEnb[i] = IqMsg(c)
    /\ nRecv > 0 => iqData = c

IqToRead == asked = "i" /\ toEnb = <<>> /\ apc = "read" /\ fromEnb = <<>> /\ nRecv = 0
IqInWork == asked = "i" /\ toEnb = <<>> /\ apc = "iq" /\ nRecv + Len(fromEnb) = nSent /\ OfCapture(abuf)
IqSent   ==
    /\ asked = "i" /\ toEnb = <<>> /\ apc = "idle" /\ nRecv + Len(fromEnb) = Chunks
    /\ \E c \in {iqData} \cup {fromEnb[i].iq : i \in DOMAIN fromEnb} : OfCapture(c)

Underway == Arriving \/ Dropped \/ KpmsInWork \/ KpmsSent \/ IqToRead \/ IqInWork \/ IqSent

Round ==
    /\ cpc # "dead"
    /\ IF cpc \in {"send", "flush", "failed"} THEN Unasked ELSE Underway
    /\ cpc = "kpm" => asked # "i"
    /\ cpc = "iq" => asked = "i"
    /\ cpc # "iq" => nRecv = 0
    /\ nRecv = 0 => iqData = NoSpec

InStep == iqFile # Garbled /\ (~outOfStep => Round)

\* The tail of a sequence of one element or of two.
LEMMA TailOfFew ==
    ASSUME NEW S, NEW s \in Seq(S)
    PROVE  /\ Len(s) = 1 => Tail(s) = <<>>
           /\ Len(s) = 2 => Len(Tail(s)) = 1 /\ Tail(s)[1] = s[2]
<1>1. ASSUME Len(s) \in {1, 2}
      PROVE  /\ Tail(s) \in Seq(S) /\ Len(Tail(s)) = Len(s) - 1
             /\ \A i \in 1 .. Len(s) - 1 : Tail(s)[i] = s[i + 1]
  BY <1>1
<1>2. ASSUME Len(s) = 1 PROVE Tail(s) = <<>>
  <2>1. Tail(s) \in Seq(S) /\ Len(Tail(s)) = 0
    BY <1>1, <1>2
  <2> QED BY <2>1, EmptySeq
<1> QED BY <1>1, <1>2

(***************************************************************************)
(* At the start nothing is asked, and the greeting may be on its way.      *)
(***************************************************************************)
LEMMA RoundInit == Init => InStep
<1> SUFFICES ASSUME Init PROVE InStep
  OBVIOUS
<1>1. /\ cpc = "send" /\ nRecv = 0 /\ iqData = NoSpec /\ iqFile = NoCapture
      /\ toEnb = <<Greeting>> /\ fromEnb = <<>> /\ apc = "idle"
  BY DEF Init, ImiInit, SharedInit, E2LiteInit
<1>2. NoCapture # Garbled
  BY DEF NoCapture, Garbled
<1> QED BY <1>1, <1>2 DEF InStep, Round, Unasked

(***************************************************************************)
(* Whatever the agent does, the round goes on: it takes the question,      *)
(* works on it, and sends the answer in full (handle_message).             *)
(***************************************************************************)
LEMMA RoundOfAgent == TypeOK /\ Round /\ iqFile # Garbled /\ AgentStep => Round'
<1> SUFFICES ASSUME TypeOK, Round, iqFile # Garbled, AgentStep PROVE Round'
  OBVIOUS
<1>1. UNCHANGED <<cpc, nRecv, iqData, asked>>
  BY DEF AgentStep, imiVars
<1>2. /\ toEnb \in Seq(Commands \cup {Greeting}) /\ fromEnb \in Seq(Replies)
      /\ nRecv \in 0 .. Chunks /\ nSent \in 0 .. Chunks - 1 /\ asked \in CommandKinds
  BY DEF TypeOK, SharedTypeOK, ImiTypeOK, E2LiteTypeOK
<1>3. ASSUME (Unasked /\ cpc \in {"send", "flush", "failed"}) => Unasked',
             (Underway /\ cpc \notin {"send", "flush", "failed"}) => Underway'
      PROVE  Round'
  BY <1>1, <1>3 DEF Round
<1>4. CASE toEnb # <<>> /\ apc = "idle" /\ toEnb' = Tail(toEnb) /\ Head(toEnb) = Greeting
           /\ UNCHANGED <<apc, fromEnb>>
  <2>1. ASSUME Unasked PROVE Unasked'
    <3>1. Len(toEnb) = 1
      BY <1>4, <2>1 DEF Unasked
    <3> QED BY <1>1, <1>2, <1>4, <2>1, <3>1, TailOfFew DEF Unasked
  <2>2. ASSUME Underway PROVE Underway'
    <3>1. Arriving
      BY <1>4, <2>2 DEF Underway, Arriving, Dropped, KpmsInWork, KpmsSent, IqToRead, IqInWork, IqSent
    <3>2. Len(toEnb) = 2
      BY <1>2, <1>4, <3>1 DEF Arriving, Greeting, Cmd, CommandKinds
    <3>3. Len(toEnb') = 1 /\ toEnb'[1] = toEnb[2]
      BY <1>2, <1>4, <3>2, TailOfFew
    <3> QED BY <1>1, <1>4, <3>1, <3>2, <3>3 DEF Arriving, Underway
  <2> QED BY <1>3, <2>1, <2>2
<1>5. ASSUME toEnb # <<>>, apc = "idle", toEnb' = Tail(toEnb), Head(toEnb).kind # "hello"
      PROVE  /\ ~Unasked /\ (Underway => Head(toEnb).kind = asked)
             /\ (Underway => toEnb' = <<>> /\ fromEnb = <<>> /\ nRecv = 0)
  <2>1. Head(toEnb) # Greeting /\ Head(toEnb) = toEnb[1]
    BY <1>2, <1>5 DEF Greeting, Cmd
  <2>2. ~Unasked
    BY <1>5, <2>1 DEF Unasked
  <2>3. ASSUME Underway
        PROVE  Head(toEnb).kind = asked /\ toEnb' = <<>> /\ fromEnb = <<>> /\ nRecv = 0
    <3>1. Arriving
      BY <1>5, <2>3 DEF Underway, Arriving, Dropped, KpmsInWork, KpmsSent, IqToRead, IqInWork, IqSent
    <3>2. Len(toEnb) = 1
      BY <2>1, <3>1 DEF Arriving
    <3>3. Tail(toEnb) = <<>>
      BY <1>2, <3>2, TailOfFew
    <3> QED BY <1>5, <2>1, <3>1, <3>2, <3>3 DEF Arriving
  <2> QED BY <2>2, <2>3
<1>6. CASE RefuseMessage
  <2>1. Head(toEnb) = Greeting
    <3>1. Head(toEnb) \in Commands \cup {Greeting} /\ Head(toEnb).kind = "hello"
      BY <1>2, <1>6 DEF RefuseMessage
    <3> QED BY <3>1 DEF Commands, CommandKinds
  <2> QED BY <1>4, <1>6, <2>1 DEF RefuseMessage
<1>7. CASE OpenFails
  <2>1. Underway => Dropped'
    BY <1>1, <1>5, <1>7 DEF OpenFails, Dropped
  <2> QED BY <1>3, <1>5, <1>7, <2>1 DEF OpenFails, Underway
<1>8. CASE HandleOneByte
  <2>1. Underway => KpmsInWork' \/ IqToRead'
    BY <1>1, <1>5, <1>8 DEF HandleOneByte, KpmsInWork, IqToRead, SizeOne
  <2> QED BY <1>3, <1>5, <1>8, <2>1 DEF HandleOneByte, Underway, SizeOne
<1>9. CASE OpenPrbFile
  <2>1. Underway => KpmsInWork'
    BY <1>1, <1>5, <1>9 DEF OpenPrbFile, KpmsInWork
  <2> QED BY <1>3, <1>5, <1>9, <2>1 DEF OpenPrbFile, Underway
<1>10. ASSUME apc \in {"write", "kpm"} PROVE ~Unasked /\ (Underway => KpmsInWork)
  BY <1>10 DEF Unasked, Underway, Arriving, Dropped, KpmsSent, IqToRead, IqInWork, IqSent
<1>11. CASE WritePrbFile
  <2>1. Underway => KpmsInWork'
    BY <1>1, <1>10, <1>11 DEF WritePrbFile, KpmsInWork
  <2> QED BY <1>3, <1>10, <1>11, <2>1 DEF WritePrbFile, Underway
<1>12. CASE WriteFails
  <2>1. Underway => Dropped'
    BY <1>1, <1>10, <1>12 DEF WriteFails, KpmsInWork, Dropped, shared
  <2> QED BY <1>3, <1>10, <1>12, <2>1 DEF WriteFails, Underway
<1>13. CASE SendKpms
  <2>1. PICK r \in Reports : fromEnb' = Append(fromEnb, KpmMsg(Entry(lastTs', r)))
    BY <1>13 DEF SendKpms
  <2>2. Underway => KpmsSent'
    <3> SUFFICES ASSUME Underway PROVE KpmsSent'
      OBVIOUS
    <3>1. KpmsInWork
      BY <1>10, <1>13 DEF SendKpms
    <3>2. fromEnb' = <<KpmMsg(Entry(lastTs', r))>>
      BY <2>1, <3>1 DEF KpmsInWork
    <3>3. Len(fromEnb') = 1 /\ fromEnb'[1].kind = "kpm"
      BY <3>2 DEF KpmMsg
    <3> QED BY <1>1, <1>13, <3>1, <3>3 DEF SendKpms, KpmsInWork, KpmsSent
  <2> QED BY <1>3, <1>10, <1>13, <2>2 DEF SendKpms, Underway
<1>14. CASE ReadIqFile
  <2>1. ~Unasked /\ (Underway => IqToRead)
    BY <1>14 DEF ReadIqFile, Unasked, Underway, Arriving, Dropped, KpmsInWork, KpmsSent, IqInWork, IqSent
  <2>2. abuf' # Garbled
    BY <1>14 DEF ReadIqFile, NoCapture, Garbled
  <2>3. Underway => IqInWork'
    BY <1>1, <1>14, <2>1, <2>2 DEF ReadIqFile, IqToRead, IqInWork, OfCapture, shared
  <2> QED BY <1>3, <2>1, <2>3 DEF Underway
<1>15. CASE SendIqChunk
  <2>1. ~Unasked /\ (Underway => IqInWork)
    BY <1>15 DEF SendIqChunk, Unasked, Underway, Arriving, Dropped, KpmsInWork, KpmsSent, IqToRead, IqSent
  <2>2. /\ fromEnb' = Append(fromEnb, IqMsg(abuf)) /\ toEnb' = toEnb
        /\ Len(fromEnb') = Len(fromEnb) + 1 /\ Len(fromEnb') \in DOMAIN fromEnb'
        /\ fromEnb'[Len(fromEnb')] = IqMsg(abuf) /\ Len(fromEnb) \in Nat
    BY <1>2, <1>15 DEF SendIqChunk
  <2>3. ASSUME Underway PROVE OfCapture(abuf)' \/ apc' = "idle"
    BY <1>1, <1>2, <1>15, <2>1, <2>2, <2>3 DEF SendIqChunk, IqInWork, OfCapture
  <2>4. ASSUME Underway
        PROVE  /\ abuf # Garbled
               /\ \A i \in DOMAIN fromEnb' : fromEnb'[i] = IqMsg(abuf)
               /\ nRecv' > 0 => iqData' = abuf
    <3>1. OfCapture(abuf)
      BY <2>1, <2>4 DEF IqInWork
    <3>2. \A i \in DOMAIN fromEnb' : fromEnb'[i] = IqMsg(abuf)
      BY <1>2, <2>2, <3>1 DEF OfCapture
    <3> QED BY <1>1, <3>1, <3>2 DEF OfCapture
  <2>5. ASSUME Underway PROVE Underway'
    <3>1. nRecv' + Len(fromEnb') = nSent + 1
      BY <1>1, <1>2, <2>1, <2>2, <2>5 DEF IqInWork
    <3>2. asked' = "i" /\ toEnb' = <<>>
      BY <1>1, <2>1, <2>2, <2>5 DEF IqInWork
    <3>3. CASE nSent + 1 < Chunks
      <4>1. nSent' = nSent + 1 /\ apc' = "iq" /\ abuf' = abuf
        BY <1>15, <3>3 DEF SendIqChunk
      <4> QED BY <2>4, <2>5, <3>1, <3>2, <4>1 DEF IqInWork, OfCapture, Underway
    <3>4. CASE ~(nSent + 1 < Chunks)
      <4>1. nSent + 1 = Chunks /\ apc' = "idle"
        BY <1>2, <1>15, <3>4 DEF SendIqChunk
      <4>2. abuf \in {fromEnb'[i].iq : i \in DOMAIN fromEnb'}
        BY <2>2 DEF IqMsg
      <4>3. \E c \in {iqData'} \cup {fromEnb'[i].iq : i \in DOMAIN fromEnb'} : OfCapture(c)'
        BY <2>4, <2>5, <4>2 DEF OfCapture
      <4> QED BY <3>1, <3>2, <4>1, <4>3 DEF IqSent, Underway
    <3> QED BY <3>3, <3>4
  <2> QED BY <1>3, <2>1, <2>5
<1> QED BY <1>6, <1>7, <1>8, <1>9, <1>11, <1>12, <1>13, <1>14, <1>15 DEF AgentStep, AgentNext

(***************************************************************************)
(* As long as its branches are those of its questions, what the IMI's      *)
(* client thread receives is what it waits for (handle_clients).           *)
(***************************************************************************)
LEMMA RoundOfClient == TypeOK /\ Round /\ ClientStep /\ ~outOfStep' => Round'
<1> SUFFICES ASSUME TypeOK, Round, ClientStep, ~outOfStep' PROVE Round'
  OBVIOUS
<1>1. /\ toEnb \in Seq(Commands \cup {Greeting}) /\ fromEnb \in Seq(Replies)
      /\ nRecv \in 0 .. Chunks /\ nSent \in 0 .. Chunks - 1 /\ asked \in CommandKinds
      /\ command \in Commands
  BY DEF TypeOK, SharedTypeOK, ImiTypeOK, E2LiteTypeOK
<1>2. UNCHANGED <<apc, abuf, nSent>>
  BY DEF ClientStep, enbVars
<1>3. CASE SendCommand
  <2>1. Unasked /\ iqData = NoSpec
    BY <1>3 DEF SendCommand, Round, Unasked
  <2>2. toEnb' = Append(toEnb, command) /\ asked' = command.kind /\ UNCHANGED <<fromEnb, nRecv, iqData>>
    BY <1>3 DEF SendCommand
  <2>3. /\ Len(toEnb') = 1 \/ (Len(toEnb') = 2 /\ toEnb'[1] = Greeting)
        /\ toEnb'[Len(toEnb')] = command
    <3>1. CASE toEnb = <<>>
      BY <2>2, <3>1
    <3>2. CASE toEnb = <<Greeting>>
      BY <2>2, <3>2
    <3> QED BY <2>1, <3>1, <3>2 DEF Unasked
  <2>4. Arriving'
    BY <1>2, <2>1, <2>2, <2>3 DEF Unasked, Arriving
  <2> QED BY <1>3, <2>1, <2>2, <2>4 DEF SendCommand, Round, Underway, Unasked
<1>4. CASE ChooseBranch
  <2>1. /\ cpc \in {"isK", "isPrb", "isI"} /\ cpc' \in {"isPrb", "isI", "kpm", "iq"}
        /\ cpc' = "kpm" => asked # "i"
        /\ cpc' = "iq" => asked = "i"
        /\ UNCHANGED <<toEnb, fromEnb, nRecv, iqData, asked>>
    <3>1. cpc \in {"isK", "isPrb", "isI"} /\ cpc' \in {"isPrb", "isI", "kpm", "iq", "send"}
      BY <1>4 DEF ChooseBranch, Test
    <3>2. /\ cpc' = "kpm" => asked # "i"
          /\ cpc' = "iq" => asked = "i"
          /\ cpc' # "send"
      BY <1>4, <3>1 DEF ChooseBranch, Test
    <3>3. UNCHANGED <<toEnb, fromEnb, nRecv, iqData, asked>>
      BY <1>4 DEF ChooseBranch, Test, shared
    <3> QED BY <3>1, <3>2, <3>3
  <2>2. Underway'
    <3>1. Underway
      BY <2>1 DEF Round
    <3> QED BY <1>2, <2>1, <3>1 DEF Underway, Arriving, Dropped, KpmsInWork, KpmsSent, IqToRead,
               IqInWork, IqSent, OfCapture
  <2> QED BY <2>1, <2>2 DEF Round
<1>5. ASSUME cpc = "kpm", fromEnb # <<>> PROVE KpmsSent /\ nRecv = 0 /\ iqData = NoSpec
  BY <1>5 DEF Round, Underway, Arriving, Dropped, KpmsInWork, IqToRead, IqInWork, IqSent
<1>6. CASE ReceiveKpms
  <2>1. fromEnb' = <<>> /\ cpc' \in {"send", "flush"} /\ UNCHANGED <<toEnb, nRecv, iqData, asked>>
    BY <1>1, <1>5, <1>6 DEF ReceiveKpms, KpmsSent
  <2>2. Unasked'
    BY <1>2, <1>5, <1>6, <2>1 DEF ReceiveKpms, KpmsSent, Unasked
  <2> QED BY <1>5, <1>6, <2>1, <2>2 DEF ReceiveKpms, Round
<1>7. CASE FlushDatabase
  BY <1>2, <1>7 DEF FlushDatabase, Round, Unasked
<1>8. CASE ReceiveIqAsKpms
  BY <1>1, <1>5, <1>8 DEF ReceiveIqAsKpms, KpmsSent
<1>9. CASE ReceiveIq
  <2>1. asked = "i" /\ Underway /\ cpc = "iq" /\ fromEnb # <<>>
    BY <1>9 DEF ReceiveIq, Round
  <2>2. IqInWork \/ IqSent
    BY <2>1 DEF Underway, Arriving, Dropped, KpmsInWork, KpmsSent, IqToRead
  <2>3. /\ fromEnb' = Tail(fromEnb) /\ nRecv' = nRecv + 1 /\ UNCHANGED <<cpc, toEnb, asked>>
        /\ Len(fromEnb') = Len(fromEnb) - 1 /\ Len(fromEnb) \in Nat \ {0}
        /\ 1 \in DOMAIN fromEnb /\ Head(fromEnb) = fromEnb[1]
        /\ \A i \in DOMAIN fromEnb' : i + 1 \in DOMAIN fromEnb /\ fromEnb'[i] = fromEnb[i + 1]
    BY <1>1, <1>9 DEF ReceiveIq
  <2>4. ASSUME NEW c, OfCapture(c) PROVE OfCapture(c)' /\ iqData' = c
    <3>1. Head(fromEnb) = IqMsg(c)
      BY <2>3, <2>4 DEF OfCapture
    <3>2. Head(fromEnb).kind = "iq" /\ Head(fromEnb).iq = c
      BY <3>1 DEF IqMsg
    <3>3. nRecv = 0 \/ iqData = c
      BY <1>1, <2>4 DEF OfCapture
    <3>4. iqData' = c
      BY <1>9, <3>2, <3>3 DEF ReceiveIq
    <3> QED BY <2>3, <2>4, <3>4 DEF OfCapture
  <2>5. nRecv' # 0 /\ nRecv' + Len(fromEnb') = nRecv + Len(fromEnb)
    BY <1>1, <2>3
  <2>6. CASE IqInWork
    <3>1. OfCapture(abuf)'
      BY <1>2, <2>4, <2>6 DEF IqInWork, OfCapture
    <3>2. IqInWork'
      BY <1>2, <2>3, <2>5, <2>6, <3>1 DEF IqInWork
    <3> QED BY <2>1, <2>3, <2>5, <3>2 DEF Round, Underway
  <2>7. CASE IqSent
    <3>1. PICK c : OfCapture(c)
      BY <2>7 DEF IqSent
    <3>2. OfCapture(c)' /\ iqData' = c
      BY <2>4, <3>1
    <3>3. IqSent'
      BY <1>2, <2>3, <2>5, <2>7, <3>2 DEF IqSent
    <3> QED BY <2>1, <2>3, <2>5, <3>3 DEF Round, Underway
  <2> QED BY <2>2, <2>6, <2>7
<1>10. CASE StoreSpectrogram
  <2>1. asked = "i" /\ Underway /\ cpc = "iq" /\ nRecv = Chunks /\ nRecv > 0
    BY <1>10 DEF StoreSpectrogram, Round
  <2>2. IqSent
    <3>1. ~IqInWork
      BY <1>1, <2>1 DEF IqInWork
    <3> QED BY <2>1, <3>1 DEF Underway, Arriving, Dropped, KpmsInWork, KpmsSent, IqToRead
  <2>3. iqData # Garbled /\ fromEnb = <<>> /\ toEnb = <<>> /\ apc = "idle"
    <3>1. \E c : OfCapture(c)
      BY <2>2 DEF IqSent
    <3>2. Len(fromEnb) = 0
      BY <1>1, <2>1, <2>2 DEF IqSent
    <3> QED BY <1>1, <2>1, <2>2, <3>1, <3>2 DEF IqSent, OfCapture
  <2>4. cpc' \in {"send", "failed"} /\ nRecv' = 0 /\ iqData' = NoSpec /\ UNCHANGED <<toEnb, fromEnb, asked>>
    BY <1>10, <2>3 DEF StoreSpectrogram
  <2> QED BY <1>2, <2>3, <2>4 DEF Round, Unasked
<1> QED BY <1>3, <1>4, <1>6, <1>7, <1>8, <1>9, <1>10 DEF ClientStep, ClientNext

(***************************************************************************)
(* No step of any process breaks the round: those of the radarxApp, the    *)
(* thread that listens to it and the PHY leave it alone.                   *)
(***************************************************************************)
LEMMA RoundKept == TypeOK /\ InStep /\ [Next]_vars => InStep'
<1> SUFFICES ASSUME TypeOK, InStep, [Next]_vars PROVE InStep'
  OBVIOUS
<1>1. ASSUME UNCHANGED <<imiVars, apc, abuf, nSent, toEnb, fromEnb>>, iqFile' # Garbled
      PROVE  InStep'
  BY <1>1 DEF InStep, Round, Unasked, Underway, Arriving, Dropped, KpmsInWork, KpmsSent,
     IqToRead, IqInWork, IqSent, OfCapture, imiVars
<1>2. CASE XAppStep
  <2>1. UNCHANGED <<toEnb, fromEnb, iqFile>>
    BY <1>2 DEF XAppStep, XAppNext, FindKeys, GetNothingNew, KpmBranchFails, NoRadarInKpms,
       RadarInKpms, GetSpectrogram, DetectionUsable, DetectionOutOfCarrier, NoDetectionMade, shared
  <2> QED BY <1>1, <1>2, <2>1 DEF XAppStep, enbVars, InStep
<1>3. CASE ListenStep
  <2>1. UNCHANGED <<cpc, nRecv, iqData, asked, outOfStep, toEnb, fromEnb, iqFile, apc, abuf, nSent>>
    BY <1>3 DEF ListenStep, ReceiveCommand, enbVars
  <2> QED BY <2>1 DEF InStep, Round, Unasked, Underway, Arriving, Dropped, KpmsInWork, KpmsSent,
             IqToRead, IqInWork, IqSent, OfCapture
<1>4. CASE ClientStep
  <2>1. iqFile' = iqFile
    BY <1>4 DEF ClientStep, ClientNext, SendCommand, ChooseBranch, Test, ReceiveKpms, FlushDatabase,
       ReceiveIqAsKpms, ReceiveIq, StoreSpectrogram, shared
  <2>2. ~outOfStep' => ~outOfStep
    BY <1>4 DEF ClientStep, ClientNext, SendCommand, ChooseBranch, Test, ReceiveKpms, FlushDatabase,
       ReceiveIqAsKpms, ReceiveIq, StoreSpectrogram
  <2> QED BY <1>4, <2>1, <2>2, RoundOfClient DEF InStep
<1>5. CASE AgentStep
  <2>1. iqFile' = iqFile /\ outOfStep' = outOfStep
    BY <1>5 DEF AgentStep, AgentNext, RefuseMessage, OpenFails, HandleOneByte, OpenPrbFile,
       WritePrbFile, WriteFails, SendKpms, ReadIqFile, SendIqChunk, shared, imiVars
  <2> QED BY <1>5, <2>1, RoundOfAgent DEF InStep
<1>6. CASE PhyStep
  <2>1. nCaptures \in Nat
    BY DEF TypeOK, E2LiteTypeOK
  <2>2. iqFile' # Garbled
    BY <1>6, <2>1 DEF PhyStep, NewCapture, Garbled
  <2> QED BY <1>1, <1>6, <2>2 DEF PhyStep, NewCapture
<1>7. CASE UNCHANGED vars
  BY <1>1, <1>7 DEF vars, shared, enbVars, InStep
<1> QED BY <1>2, <1>3, <1>4, <1>5, <1>6, <1>7 DEF Next

(***************************************************************************)
(* As long as every branch was that of its question, the IMI's reads meet  *)
(* the answers they wait for, for any number of chunks, any capacity and   *)
(* whatever the files and the SDL refuse: the last spectrogram stored may  *)
(* end the thread (iq_handler), but no answer it reads does.               *)
(***************************************************************************)
THEOREM QuestionsAreAnswered == Spec => []AnswersMatchQuestions
<1>1. TypeOK /\ InStep => AnswersMatchQuestions
  <2> SUFFICES ASSUME TypeOK, InStep, ~outOfStep
               PROVE  /\ cpc = "kpm" => \A i \in DOMAIN fromEnb : fromEnb[i].kind = "kpm"
                      /\ cpc \in {"send", "flush"} => fromEnb = <<>> /\ apc = "idle"
                      /\ iqData # Garbled
                      /\ cpc # "dead"
    BY DEF AnswersMatchQuestions
  <2>1. Round /\ fromEnb \in Seq(Replies) /\ nRecv \in 0 .. Chunks
    BY DEF InStep, TypeOK, SharedTypeOK, ImiTypeOK
  <2>2. ASSUME cpc = "kpm", NEW i \in DOMAIN fromEnb PROVE fromEnb[i].kind = "kpm"
    <3>1. fromEnb # <<>> /\ i \in 1 .. Len(fromEnb)
      BY <2>1, <2>2
    <3>2. KpmsSent
      BY <2>1, <2>2, <3>1
         DEF Round, Underway, Arriving, Dropped, KpmsInWork, IqToRead, IqInWork, IqSent
    <3>3. i = 1
      BY <3>1, <3>2 DEF KpmsSent
    <3> QED BY <3>2, <3>3 DEF KpmsSent
  <2>3. iqData # Garbled
    <3>1. CASE nRecv = 0
      BY <2>1, <3>1 DEF Round, NoSpec, Garbled
    <3>2. CASE nRecv > 0
      <4>1. IqInWork \/ IqSent
        BY <2>1, <3>2 DEF Round, Underway, Arriving, Dropped, KpmsInWork, KpmsSent, IqToRead
      <4> QED BY <3>2, <4>1 DEF IqInWork, IqSent, OfCapture
    <3> QED BY <2>1, <3>1, <3>2
  <2> QED BY <2>1, <2>2, <2>3 DEF Round, Unasked
<1> QED BY <1>1, RoundInit, RoundKept, TypeCorrect, PTL DEF Spec
-----------------------------------------------------------------------------
(***************************************************************************)
(* Why the highest indices are the newest reports.  A reply that will be   *)
(* stored is newer than whatever the Kpms namespace holds and than the     *)
(* replies before it; and as long as the last flush did what it should,    *)
(* the entries of this run fill the indices handle_clients has passed, in  *)
(* the order of their timestamps.                                          *)
(***************************************************************************)
Storable(m) == m.kind = "kpm" /\ m.rep.nUes # 0
Passed      == IF cpc = "flush" THEN kIdx + 1 ELSE kIdx

RepliesAreNewer ==
    /\ lastTs <= MaxReports
    /\ \A k \in Indices : kpms[k].ts <= lastTs
    /\ \A i \in DOMAIN fromEnb : Storable(fromEnb[i]) =>
         /\ 0 < fromEnb[i].rep.ts /\ fromEnb[i].rep.ts <= lastTs
         /\ \A k \in Indices : kpms[k].ts < fromEnb[i].rep.ts
         /\ \A j \in DOMAIN fromEnb :
              j < i /\ Storable(fromEnb[j]) => fromEnb[j].rep.ts < fromEnb[i].rep.ts

StoredInOrder ==
    ~flushFailed =>
        \A k \in Indices : kpms[k].ts > 0 =>
            /\ k < Passed
            /\ \A j \in Indices : kpms[j].ts > 0 /\ j < k => kpms[j].ts < kpms[k].ts

KpmsInOrder == RepliesAreNewer /\ StoredInOrder

LEMMA KpmsInit == Init => KpmsInOrder
<1> SUFFICES ASSUME Init PROVE KpmsInOrder
  OBVIOUS
<1>1. \A k \in Indices : kpms[k].ts = 0
  BY DEF Init, SharedInit, InitialKpms, Leftover, NoReport
<1>2. lastTs = 0 /\ fromEnb = <<>>
  BY DEF Init, SharedInit, E2LiteInit
<1> QED BY <1>1, <1>2 DEF KpmsInOrder, RepliesAreNewer, StoredInOrder

\* Taking replies from the head, or cutting one short, leaves the rest in order.
LEMMA RepliesTaken ==
    ASSUME TypeOK, RepliesAreNewer, UNCHANGED <<kpms, lastTs>>, NEW d \in {0, 1},
           \A i \in DOMAIN fromEnb' :
               i \in Nat /\ (Storable(fromEnb'[i]) =>
                                i + d \in DOMAIN fromEnb /\ fromEnb'[i] = fromEnb[i + d])
    PROVE  RepliesAreNewer'
BY DEF RepliesAreNewer, Storable

\* What the client does to the replies it takes, when it stores none.
LEMMA RestAfterTake ==
    ASSUME NEW s \in Seq(Replies), s # <<>>, NEW left \in {<<RestMsg>>, <<>>},
           NEW i \in DOMAIN (left \o Tail(s))
    PROVE  /\ i \in Nat
           /\ Storable((left \o Tail(s))[i]) =>
                LET d == IF left = <<>> THEN 1 ELSE 0
                IN  i + d \in DOMAIN s /\ (left \o Tail(s))[i] = s[i + d]
<1>1. /\ Len(s) \in Nat \ {0} /\ DOMAIN s = 1 .. Len(s)
      /\ Tail(s) \in Seq(Replies) /\ Len(Tail(s)) = Len(s) - 1
      /\ \A j \in 1 .. Len(s) - 1 : Tail(s)[j] = s[j + 1]
  BY EmptySeq, LenProperties, HeadTailProperties
<1>2. CASE left = <<>>
  <2>1. left \o Tail(s) = Tail(s)
    BY <1>1, <1>2
  <2>2. DOMAIN Tail(s) = 1 .. Len(s) - 1
    BY <1>1
  <2>3. i \in 1 .. Len(s) - 1
    BY <2>1, <2>2, Zenon
  <2> QED BY <1>1, <1>2, <2>1, <2>3
<1>3. CASE left = <<RestMsg>>
  <2>1. /\ i \in 1 .. Len(s)
        /\ (left \o Tail(s))[i] = IF i = 1 THEN RestMsg ELSE s[i]
    BY <1>1, <1>3
  <2>2. ~Storable(RestMsg)
    BY DEF Storable, RestMsg
  <2>3. left # <<>>
    BY <1>3
  <2> QED BY <1>1, <2>1, <2>2, <2>3
<1> QED BY <1>2, <1>3

LEMMA KpmsOfClient == TypeOK /\ KpmsInOrder /\ ClientStep => KpmsInOrder'
<1> SUFFICES ASSUME TypeOK, KpmsInOrder, ClientStep PROVE KpmsInOrder'
  OBVIOUS
<1>1. /\ fromEnb \in Seq(Replies) /\ kpms \in [Indices -> Entries] /\ kIdx \in Indices
      /\ lastTs \in Nat /\ lastTs' = lastTs
      /\ \A k \in Indices : kpms[k].ts \in Nat /\ k \in Nat
  BY DEF TypeOK, SharedTypeOK, ImiTypeOK, E2LiteTypeOK, ClientStep, enbVars, Entries, Indices
<1>2. RepliesAreNewer /\ StoredInOrder
  BY DEF KpmsInOrder
<1>3. ASSUME UNCHANGED <<kpms, flushFailed, kIdx>>, cpc # "flush", cpc' # "flush"
      PROVE  StoredInOrder'
  BY <1>2, <1>3 DEF StoredInOrder, Passed
<1>4. ASSUME UNCHANGED <<kpms, fromEnb>> PROVE RepliesAreNewer'
  BY <1>1, <1>2, <1>4 DEF RepliesAreNewer, Storable
<1>5. CASE SendCommand
  BY <1>3, <1>4, <1>5 DEF SendCommand, KpmsInOrder
<1>6. CASE ChooseBranch
  <2>1. UNCHANGED <<kpms, fromEnb, flushFailed, kIdx>> /\ cpc # "flush" /\ cpc' # "flush"
    BY <1>6 DEF ChooseBranch, Test, shared
  <2> QED BY <1>3, <1>4, <2>1 DEF KpmsInOrder
<1>7. CASE ReceiveKpms
  <2>1. /\ cpc = "kpm" /\ fromEnb # <<>> /\ Head(fromEnb).kind = "kpm"
        /\ fromEnb' = Tail(fromEnb) /\ flushFailed' = flushFailed
    BY <1>7 DEF ReceiveKpms
  <2>2. /\ Head(fromEnb) = fromEnb[1] /\ 1 \in DOMAIN fromEnb
        /\ \A i \in DOMAIN fromEnb' : /\ i \in Nat \ {0}
                                      /\ i + 1 \in DOMAIN fromEnb /\ fromEnb'[i] = fromEnb[i + 1]
    BY <1>1, <2>1
  <2>3. CASE Head(fromEnb).rep.nUes = 0
    <3>1. cpc' = "send" /\ UNCHANGED <<kpms, kIdx>>
      BY <1>7, <2>3 DEF ReceiveKpms
    <3>2. RepliesAreNewer'
      BY <1>1, <1>2, <2>2, <3>1, RepliesTaken
    <3> QED BY <1>3, <2>1, <3>1, <3>2 DEF KpmsInOrder
  <2>4. CASE Head(fromEnb).rep.nUes # 0
    <3> DEFINE rep == Head(fromEnb).rep
    <3>1. /\ kpms' = [kpms EXCEPT ![kIdx] = rep] \/ kpms' = kpms
          /\ \/ cpc' = "flush" /\ kIdx' = kIdx
             \/ cpc' = "send" /\ kIdx' = kIdx + 1
      BY <1>7, <2>4 DEF ReceiveKpms
    <3>2. Passed = kIdx /\ Passed' = kIdx + 1
      BY <2>1, <3>1 DEF Passed
    <3>3. /\ rep.ts \in Nat \ {0} /\ rep.ts <= lastTs
          /\ \A k \in Indices : kpms[k].ts < rep.ts
          /\ \A i \in DOMAIN fromEnb' :
               Storable(fromEnb'[i]) => rep.ts < fromEnb'[i].rep.ts
      <4>1. Storable(fromEnb[1]) /\ rep = fromEnb[1].rep /\ fromEnb[1] \in Replies
        BY <1>1, <2>1, <2>2, <2>4 DEF Storable
      <4>2. rep.ts \in Nat
        BY <4>1 DEF Replies, Entries
      <4> QED BY <1>2, <2>2, <4>1, <4>2 DEF RepliesAreNewer
    <3>4. \A k \in Indices : kpms'[k].ts = kpms[k].ts \/ (k = kIdx /\ kpms'[k].ts = rep.ts)
      BY <1>1, <3>1
    <3> HIDE DEF rep
    <3>5. RepliesAreNewer'
      <4>1. \A i \in DOMAIN fromEnb' : Storable(fromEnb'[i]) =>
              /\ 0 < fromEnb'[i].rep.ts /\ fromEnb'[i].rep.ts <= lastTs
              /\ \A k \in Indices : kpms[k].ts < fromEnb'[i].rep.ts
              /\ \A j \in DOMAIN fromEnb' :
                   j < i /\ Storable(fromEnb'[j]) => fromEnb'[j].rep.ts < fromEnb'[i].rep.ts
        BY <1>2, <2>2 DEF RepliesAreNewer
      <4>2. \A i \in DOMAIN fromEnb' : Storable(fromEnb'[i]) =>
              \A k \in Indices : kpms'[k].ts < fromEnb'[i].rep.ts
        BY <3>3, <3>4, <4>1
      <4>3. lastTs <= MaxReports /\ \A k \in Indices : kpms'[k].ts <= lastTs
        BY <1>2, <3>3, <3>4 DEF RepliesAreNewer
      <4> QED BY <1>1, <4>1, <4>2, <4>3 DEF RepliesAreNewer, Storable
    <3>6. StoredInOrder'
      <4> SUFFICES ASSUME ~flushFailed, NEW k \in Indices, kpms'[k].ts > 0
                   PROVE  /\ k < kIdx + 1
                          /\ \A j \in Indices :
                               kpms'[j].ts > 0 /\ j < k => kpms'[j].ts < kpms'[k].ts
        BY <2>1, <3>2 DEF StoredInOrder
      <4>1. \A j \in Indices : kpms[j].ts > 0 => j < kIdx
        BY <1>2, <3>2 DEF StoredInOrder
      <4>2. k <= kIdx
        BY <1>1, <3>4, <4>1
      <4>3. ASSUME NEW j \in Indices, kpms'[j].ts > 0, j < k PROVE kpms'[j].ts < kpms'[k].ts
        <5>1. kpms'[j].ts = kpms[j].ts
          BY <1>1, <3>4, <4>2, <4>3
        <5>2. CASE kpms'[k].ts = rep.ts
          BY <3>3, <5>1, <5>2
        <5>3. CASE kpms'[k].ts = kpms[k].ts
          BY <1>2, <4>3, <5>1, <5>3 DEF StoredInOrder
        <5> QED BY <3>4, <5>2, <5>3
      <4> QED BY <1>1, <4>2, <4>3
    <3> QED BY <3>5, <3>6 DEF KpmsInOrder
  <2> QED BY <2>3, <2>4
<1>8. CASE FlushDatabase
  <2>1. UNCHANGED fromEnb
    BY <1>8 DEF FlushDatabase
  <2>2. CASE kpms' = [k \in Indices |-> NoReport]
    <3>1. \A k \in Indices : kpms'[k].ts = 0
      BY <2>2 DEF NoReport
    <3>2. RepliesAreNewer'
      BY <1>1, <1>2, <2>1, <3>1 DEF RepliesAreNewer, Storable
    <3> QED BY <3>1, <3>2 DEF StoredInOrder, KpmsInOrder
  <2>3. CASE UNCHANGED kpms /\ flushFailed' = TRUE
    BY <1>4, <2>1, <2>3 DEF StoredInOrder, KpmsInOrder
  <2> QED BY <1>8, <2>2, <2>3 DEF FlushDatabase
<1>9. CASE ReceiveIqAsKpms
  <2>1. PICK left \in {<<RestMsg>>, <<>>} : fromEnb' = left \o Tail(fromEnb)
    BY <1>9 DEF ReceiveIqAsKpms
  <2>2. /\ fromEnb # <<>> /\ UNCHANGED <<kpms, flushFailed, kIdx>>
        /\ cpc # "flush" /\ cpc' # "flush"
    BY <1>9 DEF ReceiveIqAsKpms
  <2>3. RepliesAreNewer'
    <3> DEFINE d == IF left = <<>> THEN 1 ELSE 0
    <3>1. \A i \in DOMAIN fromEnb' :
            i \in Nat /\ (Storable(fromEnb'[i]) =>
                             i + d \in DOMAIN fromEnb /\ fromEnb'[i] = fromEnb[i + d])
      BY <1>1, <2>1, <2>2, RestAfterTake
    <3>2. d \in {0, 1}
      OBVIOUS
    <3> HIDE DEF d
    <3> QED BY <1>1, <1>2, <2>2, <3>1, <3>2, RepliesTaken
  <2> QED BY <1>3, <2>2, <2>3 DEF KpmsInOrder
<1>10. CASE ReceiveIq
  <2>1. /\ fromEnb # <<>> /\ fromEnb' = Tail(fromEnb) /\ UNCHANGED <<kpms, flushFailed, kIdx>>
        /\ cpc # "flush" /\ cpc' # "flush"
    BY <1>10 DEF ReceiveIq
  <2>2. \A i \in DOMAIN fromEnb' : /\ i \in Nat
                                   /\ i + 1 \in DOMAIN fromEnb /\ fromEnb'[i] = fromEnb[i + 1]
    BY <1>1, <2>1
  <2>3. RepliesAreNewer'
    BY <1>1, <1>2, <2>1, <2>2, RepliesTaken
  <2> QED BY <1>3, <2>1, <2>3 DEF KpmsInOrder
<1>11. CASE StoreSpectrogram
  BY <1>3, <1>4, <1>11 DEF StoreSpectrogram, KpmsInOrder
<1> QED BY <1>5, <1>6, <1>7, <1>8, <1>9, <1>10, <1>11 DEF ClientStep, ClientNext

LEMMA KpmsOfAgent == TypeOK /\ KpmsInOrder /\ AgentStep => KpmsInOrder'
<1> SUFFICES ASSUME TypeOK, KpmsInOrder, AgentStep PROVE KpmsInOrder'
  OBVIOUS
<1>1. /\ fromEnb \in Seq(Replies) /\ lastTs \in Nat
      /\ \A k \in Indices : kpms[k].ts \in Nat
  BY DEF TypeOK, SharedTypeOK, E2LiteTypeOK, Entries
<1>2. UNCHANGED <<kpms, cpc, kIdx, flushFailed>>
  BY DEF AgentStep, AgentNext, RefuseMessage, OpenFails, HandleOneByte, OpenPrbFile,
     WritePrbFile, WriteFails, SendKpms, ReadIqFile, SendIqChunk, shared, imiVars
<1>3. StoredInOrder'
  BY <1>2 DEF KpmsInOrder, StoredInOrder, Passed
<1>4. RepliesAreNewer
  BY DEF KpmsInOrder
<1>5. CASE RefuseMessage \/ OpenFails \/ HandleOneByte \/ OpenPrbFile
           \/ WritePrbFile \/ WriteFails \/ ReadIqFile
  <2>1. UNCHANGED <<fromEnb, lastTs>>
    BY <1>5 DEF RefuseMessage, OpenFails, HandleOneByte, OpenPrbFile,
       WritePrbFile, WriteFails, ReadIqFile, shared
  <2> QED BY <1>2, <1>3, <1>4, <2>1 DEF KpmsInOrder, RepliesAreNewer, Storable
<1>6. ASSUME NEW m, fromEnb' = Append(fromEnb, m)
      PROVE  \A i \in DOMAIN fromEnb' :
               \/ i \in DOMAIN fromEnb /\ fromEnb'[i] = fromEnb[i]
               \/ i = Len(fromEnb) + 1 /\ fromEnb'[i] = m
  BY <1>1, <1>6
<1>7. \A i \in DOMAIN fromEnb : i \in Nat /\ i < Len(fromEnb) + 1
  BY <1>1
<1>8. CASE SendIqChunk
  <2>1. fromEnb' = Append(fromEnb, IqMsg(abuf)) /\ lastTs' = lastTs /\ ~Storable(IqMsg(abuf))
    BY <1>8 DEF SendIqChunk, IqMsg, Storable
  <2>2. \A i \in DOMAIN fromEnb' :
          \/ i \in DOMAIN fromEnb /\ fromEnb'[i] = fromEnb[i]
          \/ ~Storable(fromEnb'[i])
    BY <1>6, <2>1
  <2> QED BY <1>2, <1>3, <1>4, <2>1, <2>2 DEF KpmsInOrder, RepliesAreNewer, Storable
<1>9. CASE SendKpms
  <2>1. PICK r \in Reports : /\ lastTs = MaxReports => r.nUes = 0
                             /\ fromEnb' = Append(fromEnb, KpmMsg(Entry(lastTs', r)))
    BY <1>9 DEF SendKpms
  <2> DEFINE m == KpmMsg(Entry(lastTs', r))
  <2>2. m.rep.ts = lastTs' /\ (Storable(m) => r.nUes # 0)
    BY DEF KpmMsg, Entry, Storable
  <2>3. /\ lastTs' \in Nat /\ lastTs <= lastTs' /\ lastTs' <= MaxReports
        /\ Storable(m) => lastTs < lastTs'
    <3>1. lastTs' = IF lastTs < MaxReports THEN lastTs + 1 ELSE lastTs
      BY <1>9 DEF SendKpms
    <3>2. lastTs <= MaxReports
      BY <1>4 DEF RepliesAreNewer
    <3>3. Storable(m) => lastTs # MaxReports
      BY <2>1, <2>2
    <3> HIDE DEF m
    <3> QED BY <1>1, <3>1, <3>2, <3>3
  <2>4. \A i \in DOMAIN fromEnb' :
          \/ i \in DOMAIN fromEnb /\ fromEnb'[i] = fromEnb[i]
          \/ i = Len(fromEnb) + 1 /\ fromEnb'[i] = m
    BY <1>6, <2>1
  <2> HIDE DEF m
  <2>5. \A i \in DOMAIN fromEnb : Storable(fromEnb[i]) =>
          fromEnb[i].rep.ts \in Nat /\ fromEnb[i].rep.ts <= lastTs
    <3>1. \A x \in Replies : x.rep.ts \in Nat
      BY DEF Replies, Entries
    <3>2. \A i \in DOMAIN fromEnb : fromEnb[i] \in Replies
      BY <1>1
    <3> QED BY <1>4, <3>1, <3>2 DEF RepliesAreNewer
  <2>6. ASSUME NEW i \in DOMAIN fromEnb', Storable(fromEnb'[i])
        PROVE  /\ 0 < fromEnb'[i].rep.ts /\ fromEnb'[i].rep.ts <= lastTs'
               /\ \A k \in Indices : kpms[k].ts < fromEnb'[i].rep.ts
               /\ \A j \in DOMAIN fromEnb' :
                    j < i /\ Storable(fromEnb'[j]) => fromEnb'[j].rep.ts < fromEnb'[i].rep.ts
    <3>1. CASE i \in DOMAIN fromEnb /\ fromEnb'[i] = fromEnb[i]
      <4>1. /\ 0 < fromEnb[i].rep.ts /\ fromEnb[i].rep.ts <= lastTs
            /\ \A k \in Indices : kpms[k].ts < fromEnb[i].rep.ts
            /\ \A j \in DOMAIN fromEnb :
                 j < i /\ Storable(fromEnb[j]) => fromEnb[j].rep.ts < fromEnb[i].rep.ts
        BY <1>4, <2>6, <3>1 DEF RepliesAreNewer
      <4>2. \A j \in DOMAIN fromEnb' : j < i => j \in DOMAIN fromEnb /\ fromEnb'[j] = fromEnb[j]
        <5>1. Len(fromEnb) \in Nat
          BY <1>1
        <5> QED BY <1>7, <2>4, <3>1, <5>1
      <4> QED BY <1>1, <2>3, <2>5, <2>6, <3>1, <4>1, <4>2
    <3>2. CASE i = Len(fromEnb) + 1 /\ fromEnb'[i] = m
      <4>1. lastTs < m.rep.ts /\ m.rep.ts = lastTs'
        BY <2>2, <2>3, <2>6, <3>2
      <4>2. \A k \in Indices : kpms[k].ts <= lastTs
        BY <1>4 DEF RepliesAreNewer
      <4>3. \A j \in DOMAIN fromEnb' : j < i => j \in DOMAIN fromEnb /\ fromEnb'[j] = fromEnb[j]
        <5>1. Len(fromEnb) \in Nat
          BY <1>1
        <5> QED BY <2>4, <3>2, <5>1
      <4> QED BY <1>1, <2>3, <2>5, <3>2, <4>1, <4>2, <4>3
    <3> QED BY <2>4, <3>1, <3>2
  <2>7. \A k \in Indices : kpms[k].ts <= lastTs'
    BY <1>1, <1>4, <2>3 DEF RepliesAreNewer
  <2>8. RepliesAreNewer'
    BY <1>2, <2>3, <2>6, <2>7 DEF RepliesAreNewer, Storable
  <2> QED BY <1>3, <2>8 DEF KpmsInOrder
<1> QED BY <1>5, <1>8, <1>9 DEF AgentStep, AgentNext

LEMMA KpmsKept == TypeOK /\ KpmsInOrder /\ [Next]_vars => KpmsInOrder'
<1> SUFFICES ASSUME TypeOK, KpmsInOrder, [Next]_vars PROVE KpmsInOrder'
  OBVIOUS
<1>1. ASSUME UNCHANGED <<fromEnb, kpms, lastTs, cpc, kIdx, flushFailed>> PROVE KpmsInOrder'
  BY <1>1 DEF KpmsInOrder, RepliesAreNewer, StoredInOrder, Passed, Storable
<1>2. CASE XAppStep
  <2>1. UNCHANGED <<fromEnb, kpms>>
    BY <1>2 DEF XAppStep, XAppNext, FindKeys, GetNothingNew, KpmBranchFails, NoRadarInKpms,
       RadarInKpms, GetSpectrogram, DetectionUsable, DetectionOutOfCarrier, NoDetectionMade, shared
  <2> QED BY <1>1, <1>2, <2>1 DEF XAppStep, imiVars, enbVars
<1>3. CASE ListenStep
  BY <1>1, <1>3 DEF ListenStep, ReceiveCommand, enbVars
<1>4. CASE PhyStep
  BY <1>1, <1>4 DEF PhyStep, NewCapture, imiVars
<1>5. CASE UNCHANGED vars
  BY <1>1, <1>5 DEF vars, shared, imiVars, enbVars
<1> QED BY <1>2, <1>3, <1>4, <1>5, KpmsOfClient, KpmsOfAgent DEF Next

\* Of a finite set of indices, one that is not among the last two lies under both.
LEMMA LastTwoAreHighest ==
    ASSUME NEW S \in SUBSET Indices, NEW k \in LastTwo(S), NEW j \in S \ LastTwo(S)
    PROVE  j < k
<1> DEFINE Above(i) == {x \in S : x > i}
<1>1. k \in Nat /\ j \in Nat /\ S \subseteq Nat
  BY DEF LastTwo, Indices
<1>2. IsFiniteSet(Indices)
  BY FS_Interval DEF Indices
<1>3. IsFiniteSet(Above(k)) /\ Cardinality(Above(k)) \in Nat
  BY <1>2, FS_Subset, FS_CardinalityType
<1>4. Cardinality(Above(k)) < 2 /\ ~(Cardinality(Above(j)) < 2)
  BY DEF LastTwo
<1>5. SUFFICES ASSUME ~(j < k) PROVE FALSE
  OBVIOUS
<1>6. Above(j) \in SUBSET Above(k)
  <2>1. \A x \in S : x > j => x > k
    BY <1>1, <1>5
  <2> QED BY <2>1
<1> HIDE DEF Above
<1>7. Cardinality(Above(j)) <= Cardinality(Above(k)) /\ Cardinality(Above(j)) \in Nat
  BY <1>3, <1>6, FS_Subset, FS_CardinalityType
<1> QED BY <1>3, <1>4, <1>7

(***************************************************************************)
(* What find_keys returns are the two newest reports stored, for any flush *)
(* index, any capacity, and whatever the SDL refuses short of a flush      *)
(* (handle_clients, find_keys).                                            *)
(***************************************************************************)
THEOREM KeysFoundAreNewest == Spec => KeysAreNewest
<1>1. TypeOK /\ KpmsInOrder /\ [Next]_vars
        => (xpc = "poll" /\ xpc' = "get" /\ NoLeftovers =>
              \A k \in keys', j \in Stored \ keys' : kpms[j].ts < kpms[k].ts)
  <2> SUFFICES ASSUME TypeOK, KpmsInOrder, [Next]_vars, xpc = "poll", xpc' = "get", NoLeftovers,
                      NEW k \in keys', NEW j \in Stored \ keys'
               PROVE  kpms[j].ts < kpms[k].ts
    OBVIOUS
  <2>1. XAppStep
    BY DEF Next, ListenStep, ClientStep, AgentStep, PhyStep, vars, xappVars
  <2>2. FindKeys
    BY <2>1 DEF XAppStep, XAppNext, FindKeys, GetNothingNew, KpmBranchFails, NoRadarInKpms,
       RadarInKpms, GetSpectrogram, DetectionUsable, DetectionOutOfCarrier, NoDetectionMade
  <2>3. keys' = LastTwo(Stored)
    BY <2>2 DEF FindKeys
  <2>4. k \in Stored /\ j \in Stored /\ Stored \subseteq Indices
    BY <2>3 DEF LastTwo, Stored
  <2>5. j < k
    BY <2>3, <2>4, LastTwoAreHighest
  <2>6. ~flushFailed /\ kpms[k].ts > 0 /\ kpms[j].ts > 0
    BY <2>4 DEF NoLeftovers
  <2> QED BY <2>4, <2>5, <2>6 DEF KpmsInOrder, StoredInOrder
<1> QED BY <1>1, KpmsInit, KpmsKept, TypeCorrect, PTL DEF Spec, KeysAreNewest
=============================================================================
