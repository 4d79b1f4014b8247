--------------------------- MODULE IqFile_proofs ---------------------------
(***************************************************************************)
(* Type correctness of the capture files, that no answer mixes runs, and    *)
(* how old a capture is when the agent opens it.                            *)
(***************************************************************************)
EXTENDS IqFile, SequenceTheorems, TLAPS

Data == Seq(Samples)

(***************************************************************************)
(* Before a write at counter k, the file holds at most k subframes, all of *)
(* this run and the last of them the one before; a file that is about to   *)
(* be saved may be of any run.                                             *)
(***************************************************************************)
EndsAt(d, sf) == d # <<>> => d[Len(d)].run = run /\ d[Len(d)].sf = sf

Growing ==
    /\ tpc = "write" => /\ now # 0 /\ EndsAt(tmp.data, now - 1) /\ tmp.exists
                        /\ Len(tmp.data) <= counter * Kept
    /\ tpc = "receive" /\ counter # 0 => EndsAt(tmp.data, now) /\ Len(tmp.data) <= counter * Kept
    /\ tpc = "create" => counter = 0 /\ now # 0
    /\ tpc \in {"saved?", "remove", "rename"} => counter = 0 /\ now # 0 /\ tmp.exists
    /\ Len(tmp.data) <= Period * Kept

Chains == /\ Unbroken(tmp.data) /\ Unbroken(saved.data)
          /\ Unbroken(handle.data) /\ Unbroken(answer)

IInv == TypeOK /\ Growing /\ Chains

-----------------------------------------------------------------------------
LEMMA KeptPositive == Kept \in Nat \ {0}
BY SampleAssumption DEF Kept

LEMMA ProductGrows ==
    ASSUME NEW k \in Nat, k < Period
    PROVE  /\ k * Kept \in Nat /\ (k + 1) * Kept = k * Kept + Kept
           /\ (k + 1) * Kept <= Period * Kept
<1>1. Kept \in Nat /\ Period \in Nat
  BY KeptPositive, PeriodAssumption
<1> HIDE DEF Kept
<1>2. \A a, b, w \in Nat : a <= b => a * w <= b * w
  OBVIOUS
<1>3. QED
  BY <1>1, <1>2

LEMMA UnbrokenConcat ==
    ASSUME NEW d \in Data, NEW e \in Data, Unbroken(d), Unbroken(e),
           d # <<>> /\ e # <<>> => /\ d[Len(d)].run = e[1].run
                                   /\ e[1].sf - d[Len(d)].sf \in {0, 1}
    PROVE  d \o e \in Data /\ Unbroken(d \o e) /\ Len(d \o e) = Len(d) + Len(e)
<1>1. d \o e \in Data /\ Len(d \o e) = Len(d) + Len(e)
  BY DEF Data
<1>2. ASSUME NEW i \in 1 .. Len(d \o e) - 1
      PROVE  LET f == d \o e
             IN  f[i].run = f[i + 1].run /\ f[i + 1].sf - f[i].sf \in {0, 1}
  <2>1. CASE i < Len(d)
    BY <1>1, <2>1 DEF Data, Unbroken
  <2>2. CASE i = Len(d)
    BY <1>1, <2>2 DEF Data
  <2>3. CASE i > Len(d)
    <3>1. /\ i - Len(d) \in 1 .. Len(e) - 1 /\ (i + 1) - Len(d) = (i - Len(d)) + 1
          /\ (d \o e)[i] = e[i - Len(d)] /\ (d \o e)[i + 1] = e[(i + 1) - Len(d)]
      BY <1>1, <2>3 DEF Data
    <3>2. QED
      BY <3>1 DEF Unbroken
  <2>4. QED
    BY <1>1, <2>1, <2>2, <2>3 DEF Data
<1>3. QED
  BY <1>1, <1>2 DEF Unbroken

LEMMA UnbrokenPart ==
    ASSUME NEW d \in Data, Unbroken(d), NEW m \in 1 .. Len(d) + 1, NEW n \in m - 1 .. Len(d)
    PROVE  SubSeq(d, m, n) \in Data /\ Unbroken(SubSeq(d, m, n)) /\ Len(SubSeq(d, m, n)) = n - m + 1
<1>1. /\ SubSeq(d, m, n) \in Data /\ Len(SubSeq(d, m, n)) = n - m + 1
      /\ \A i \in 1 .. n - m + 1 : SubSeq(d, m, n)[i] = d[m + i - 1]
  BY DEF Data
<1>2. ASSUME NEW i \in 1 .. Len(SubSeq(d, m, n)) - 1
      PROVE  LET f == SubSeq(d, m, n)
             IN  f[i].run = f[i + 1].run /\ f[i + 1].sf - f[i].sf \in {0, 1}
  <2>1. /\ m + i - 1 \in 1 .. Len(d) - 1 /\ m + (i + 1) - 1 = (m + i - 1) + 1
        /\ SubSeq(d, m, n)[i] = d[m + i - 1] /\ SubSeq(d, m, n)[i + 1] = d[m + (i + 1) - 1]
    BY <1>1 DEF Data
  <2>2. QED
    BY <2>1 DEF Unbroken
<1>3. QED
  BY <1>1, <1>2 DEF Unbroken

LEMMA WrittenData ==
    ASSUME TypeOK, now # 0
    PROVE  /\ Written \in Data /\ Len(Written) = Kept
           /\ \A i \in 1 .. Kept : Written[i].run = run /\ Written[i].sf = now
<1>1. Kept \in Nat
  BY KeptPositive
<1>2. \A i \in 1 .. Kept : [run |-> run, sf |-> now, pos |-> i] \in Samples
  BY <1>1, BoundAssumption DEF TypeOK, Samples
<1> HIDE DEF Kept
<1>3. QED
  BY <1>1, <1>2 DEF Written, Data

\* What a write, whole or cut short, makes of the temporary file
LEMMA WriteAppends ==
    ASSUME IInv, tpc = "write", NEW e \in Data, Len(e) <= Kept,
           \A i \in 1 .. Len(e) : e[i].run = run /\ e[i].sf = now
    PROVE  LET d == tmp.data \o e
           IN  /\ d \in Data /\ Unbroken(d) /\ Len(d) <= (counter + 1) * Kept
               /\ Len(d) <= Period * Kept
               /\ e # <<>> => EndsAt(d, now)
<1>1. tmp.data \in Data /\ counter \in Nat /\ counter < Period /\ now \in Nat
  BY PeriodAssumption DEF IInv, TypeOK, Files, Data
<1>2. EndsAt(tmp.data, now - 1) /\ Len(tmp.data) <= counter * Kept /\ Unbroken(tmp.data)
  BY DEF IInv, Growing, Chains
<1>3. Unbroken(e)
  <2>1. ASSUME NEW i \in 1 .. Len(e) - 1 PROVE e[i].run = e[i + 1].run /\ e[i + 1].sf - e[i].sf \in {0, 1}
    <3>1. i \in 1 .. Len(e) /\ i + 1 \in 1 .. Len(e)
      BY DEF Data
    <3>2. e[i].run = run /\ e[i + 1].run = run /\ e[i].sf = now /\ e[i + 1].sf = now
      BY <3>1
    <3>3. QED
      BY <1>1, <3>2
  <2>2. QED
    BY <2>1 DEF Unbroken
<1>4. tmp.data # <<>> /\ e # <<>> => /\ tmp.data[Len(tmp.data)].run = e[1].run
                                    /\ e[1].sf - tmp.data[Len(tmp.data)].sf \in {0, 1}
  BY <1>1, <1>2 DEF EndsAt, Data
<1>5. /\ tmp.data \o e \in Data /\ Unbroken(tmp.data \o e)
      /\ Len(tmp.data \o e) = Len(tmp.data) + Len(e)
  BY <1>1, <1>2, <1>3, <1>4, UnbrokenConcat
<1>6. /\ counter * Kept \in Nat /\ (counter + 1) * Kept = counter * Kept + Kept
      /\ (counter + 1) * Kept <= Period * Kept
  BY <1>1, ProductGrows
<1>7. Len(tmp.data \o e) <= (counter + 1) * Kept /\ Len(tmp.data \o e) <= Period * Kept
  <2>1. Kept \in Nat /\ Len(tmp.data) \in Nat /\ Len(e) \in Nat /\ Period * Kept \in Int
    BY <1>1, KeptPositive, PeriodAssumption DEF Data
  <2> HIDE DEF Kept
  <2>2. QED
    BY <1>2, <1>5, <1>6, <2>1
<1>8. ASSUME e # <<>> PROVE EndsAt(tmp.data \o e, now)
  <2>1. Len(e) \in Nat \ {0} /\ (tmp.data \o e)[Len(tmp.data) + Len(e)] = e[Len(e)]
    BY <1>1, <1>8 DEF Data
  <2>2. QED
    BY <1>5, <2>1 DEF EndsAt
<1>9. QED
  BY <1>5, <1>7, <1>8

-----------------------------------------------------------------------------
LEMMA InitIInv == Init => IInv
<1>1. Kept \in Nat /\ Period * Kept \in Nat
  BY KeptPositive, PeriodAssumption
<1> HIDE DEF Kept
<1>2. QED
  BY <1>1, PeriodAssumption, BoundAssumption
     DEF Init, IInv, TypeOK, Growing, Chains, Files, Absent, Unbroken, EndsAt

\* The data of a file that is absent, or just created
LEMMA Empty == Absent \in Files /\ File(<<>>) \in Files /\ Unbroken(<<>>)
               /\ Absent.data = <<>> /\ File(<<>>).data = <<>> /\ ~Absent.exists /\ File(<<>>).exists
BY DEF Absent, File, Files, Unbroken

LEMMA ReceiveIInv == ASSUME IInv, Receive PROVE IInv'
<1>1. /\ tpc = "receive" /\ now < MaxSubframes /\ now' = now + 1
      /\ UNCHANGED <<saved, run, counter, apc, handle, answer>>
  BY DEF Receive, agentVars
<1>2. now \in Nat /\ now' \in 1 .. MaxSubframes /\ Period * Kept \in Nat /\ counter \in Nat
  BY <1>1, BoundAssumption, KeptPositive, PeriodAssumption DEF IInv, TypeOK
<1> HIDE DEF Kept
<1>3. CASE counter = 0
  <2>1. tpc' = (IF tmp.exists THEN "saved?" ELSE "create") /\ tmp' = tmp
    BY <1>3 DEF Receive
  <2>2. QED
    BY <1>1, <1>2, <1>3, <2>1 DEF IInv, TypeOK, Growing, Chains
<1>4. CASE counter # 0
  <2>1. tpc' = "write" /\ tmp' = IF tmp.exists THEN tmp ELSE File(<<>>)
    BY <1>4 DEF Receive
  <2>2. CASE tmp.exists
    BY <1>1, <1>2, <1>4, <2>1, <2>2 DEF IInv, TypeOK, Growing, Chains, EndsAt
  <2>3. CASE ~tmp.exists
    <3>1. tmp' = File(<<>>) /\ tmp'.data = <<>> /\ tmp' \in Files /\ Unbroken(tmp'.data) /\ tmp'.exists
      BY <2>1, <2>3, Empty
    <3>2. counter * Kept \in Nat
      BY <1>2, KeptPositive
    <3>3. QED
      BY <1>1, <1>2, <1>4, <2>1, <3>1, <3>2 DEF IInv, TypeOK, Growing, Chains, EndsAt
  <2>4. QED
    BY <2>2, <2>3
<1>5. QED
  BY <1>3, <1>4

LEMMA RotateIInv == ASSUME IInv, Rotate PROVE IInv'
<1>1. Period * Kept \in Nat /\ counter * Kept \in Int
  BY KeptPositive, PeriodAssumption DEF IInv, TypeOK
<1> HIDE DEF Kept
<1>2. CASE LookForSaved
  BY <1>2 DEF LookForSaved, fileVars, agentVars, IInv, TypeOK, Growing, Chains
<1>3. CASE RemoveSaved
  BY <1>3, Empty DEF RemoveSaved, agentVars, IInv, TypeOK, Growing, Chains
<1>4. CASE RenameTmp
  BY <1>1, <1>4, Empty DEF RenameTmp, agentVars, IInv, TypeOK, Growing, Chains, EndsAt
<1>5. CASE CreateTmp
  <2>1. counter = 0 /\ 0 * Kept = 0
    BY <1>5, KeptPositive DEF CreateTmp, IInv, Growing
  <2>2. QED
    BY <1>1, <1>5, <2>1, Empty DEF CreateTmp, agentVars, IInv, TypeOK, Growing, Chains, EndsAt
<1>6. QED
  BY <1>2, <1>3, <1>4, <1>5 DEF Rotate

LEMMA WriteIInv == ASSUME IInv, WriteSubframe PROVE IInv'
<1> DEFINE d == tmp.data \o Written
<1>1. /\ tpc = "write" /\ tmp' = File(d) /\ counter' = (counter + 1) % Period
      /\ tpc' = "receive" /\ UNCHANGED <<saved, run, now, agentVars>>
  BY DEF WriteSubframe
<1>2. now # 0 /\ tmp.exists
  BY <1>1 DEF IInv, Growing
<1>3. /\ Written \in Data /\ Len(Written) = Kept
      /\ \A i \in 1 .. Len(Written) : Written[i].run = run /\ Written[i].sf = now
  BY <1>2, WrittenData DEF IInv
<1>4. Written # <<>>
  BY <1>3, KeptPositive DEF Data
<1>5. /\ d \in Data /\ Unbroken(d) /\ Len(d) <= (counter + 1) * Kept
      /\ Len(d) <= Period * Kept /\ EndsAt(d, now)
  <2>1. Len(Written) <= Kept
    BY <1>3, KeptPositive
  <2>2. QED
    BY <1>1, <1>3, <1>4, <2>1, WriteAppends
<1>6. tmp' \in Files /\ tmp'.data = d
  BY <1>1, <1>5 DEF File, Files, Data
<1>7. counter' \in 0 .. Period - 1 /\ (counter' # 0 => counter' = counter + 1)
  BY <1>1, PeriodAssumption DEF IInv, TypeOK
<1> HIDE DEF d, Kept
<1>8. TypeOK'
  BY <1>1, <1>5, <1>6, <1>7 DEF IInv, TypeOK, agentVars
<1>9. Growing'
  BY <1>1, <1>5, <1>6, <1>7 DEF Growing, EndsAt
<1>10. Chains'
  BY <1>1, <1>5, <1>6 DEF IInv, Chains, agentVars
<1>11. QED
  BY <1>8, <1>9, <1>10 DEF IInv

LEMMA ReadIInv == ASSUME IInv, ReadSaved PROVE IInv'
<1> DEFINE d == handle.data
           n == Len(d)
<1>1. /\ answer' = (IF n < AnswerSamples THEN <<>> ELSE SubSeq(d, n - AnswerSamples + 1, n))
      /\ apc' = "idle" /\ handle' = Absent
      /\ UNCHANGED <<tmp, saved, run, now, counter, tpc>>
  BY DEF ReadSaved, fileVars
<1>2. d \in Data /\ Unbroken(d) /\ n \in Nat
  BY DEF IInv, TypeOK, Chains, Files, Data
<1>3. answer' \in Data /\ Unbroken(answer') /\ Len(answer') \in {0, AnswerSamples}
  <2>1. CASE n < AnswerSamples
    BY <1>1, <2>1, Empty DEF Data
  <2>2. CASE ~(n < AnswerSamples)
    <3>1. n - AnswerSamples + 1 \in 1 .. Len(d) + 1 /\ n \in (n - AnswerSamples + 1) - 1 .. Len(d)
      BY <1>2, <2>2, AnswerAssumption
    <3>2. /\ SubSeq(d, n - AnswerSamples + 1, n) \in Data /\ Unbroken(SubSeq(d, n - AnswerSamples + 1, n))
          /\ Len(SubSeq(d, n - AnswerSamples + 1, n)) = n - (n - AnswerSamples + 1) + 1
      <4> HIDE DEF d, n
      <4>1. QED
        BY <1>2, <3>1, UnbrokenPart
    <3>3. QED
      BY <1>1, <1>2, <2>2, <3>2, AnswerAssumption
  <2>3. QED
    BY <2>1, <2>2
<1> HIDE DEF Kept
<1>4. QED
  BY <1>1, <1>3, Empty DEF IInv, TypeOK, Growing, Chains, Data, EndsAt

LEMMA KillIInv == ASSUME IInv, Kill PROVE IInv'
<1>1. /\ tpc' = "off" /\ apc' = "idle" /\ handle' = Absent /\ answer' = <<>>
      /\ UNCHANGED <<saved, run, now, counter>>
  BY DEF Kill
<1>2. tmp' \in Files /\ Unbroken(tmp'.data) /\ Len(tmp'.data) <= Period * Kept
  <2>1. CASE tpc = "write"
    <3>1. PICK n \in 0 .. Len(Written) : tmp' = File(tmp.data \o SubSeq(Written, 1, n))
      BY <2>1 DEF Kill
    <3> DEFINE e == SubSeq(Written, 1, n)
               d == tmp.data \o e
    <3>2. /\ Written \in Data /\ Len(Written) = Kept
          /\ \A i \in 1 .. Kept : Written[i].run = run /\ Written[i].sf = now
      BY <2>1, WrittenData DEF IInv, Growing
    <3>3. Kept \in Nat
      BY KeptPositive
    <3>4. /\ e \in Data /\ Len(e) <= Kept
          /\ \A i \in 1 .. Len(e) : e[i].run = run /\ e[i].sf = now
      <4> HIDE DEF Kept
      <4>1. /\ e \in Data /\ Len(e) = n /\ \A i \in 1 .. n : e[i] = Written[i]
        BY <3>2, <3>3 DEF Data
      <4>2. QED
        BY <3>2, <3>3, <4>1
    <3>5. d \in Data /\ Unbroken(d) /\ Len(d) <= Period * Kept
      <4> HIDE DEF e
      <4>1. QED
        BY <2>1, <3>4, WriteAppends
    <3>6. tmp' \in Files /\ tmp'.data = d
      <4> HIDE DEF d
      <4>1. tmp' = File(d)
        BY <3>1 DEF d
      <4>2. QED
        BY <3>5, <4>1 DEF File, Files, Data
    <3>7. QED
      BY <3>5, <3>6
  <2>2. CASE tpc # "write"
    BY <2>2 DEF Kill, IInv, TypeOK, Growing, Chains
  <2>3. QED
    BY <2>1, <2>2
<1> HIDE DEF Kept
<1>3. QED
  BY <1>1, <1>2, Empty DEF IInv, TypeOK, Growing, Chains, EndsAt

LEMMA NextIInv == ASSUME IInv, [Next]_vars PROVE IInv'
<1> HIDE DEF Kept
<1>1. CASE Receive
  BY <1>1, ReceiveIInv
<1>2. CASE Rotate
  BY <1>2, RotateIInv
<1>3. CASE WriteSubframe
  BY <1>3, WriteIInv
<1>4. CASE OpenSaved
  <2>1. Unbroken(<<>>) /\ <<>> \in Seq(Samples) /\ Len(<<>>) = 0
    BY DEF Unbroken
  <2>2. CASE saved.exists
    BY <1>4, <2>2 DEF OpenSaved, fileVars, IInv, TypeOK, Growing, Chains, EndsAt
  <2>3. CASE ~saved.exists
    BY <1>4, <2>1, <2>3 DEF OpenSaved, fileVars, IInv, TypeOK, Growing, Chains, EndsAt
  <2>4. QED
    BY <2>2, <2>3
<1>5. CASE ReadSaved
  BY <1>5, ReadIInv
<1>6. CASE Kill
  BY <1>6, KillIInv
<1>7. CASE Restart
  BY <1>7, PeriodAssumption, BoundAssumption
     DEF Restart, fileVars, agentVars, IInv, TypeOK, Growing, Chains, EndsAt
<1>8. CASE UNCHANGED vars
  BY <1>8 DEF vars, fileVars, agentVars, IInv, TypeOK, Growing, Chains, EndsAt
<1>9. QED
  BY <1>1, <1>2, <1>3, <1>4, <1>5, <1>6, <1>7, <1>8 DEF Next

-----------------------------------------------------------------------------
(***************************************************************************)
(* The files and the answer keep their types, and the temporary file never *)
(* holds more than a capture, whatever the lengths of runs, captures and   *)
(* answers (TypeOK).                                                       *)
(***************************************************************************)
THEOREM TypeCorrect == Spec => []TypeOK
<1>1. IInv => TypeOK
  BY DEF IInv
<1>2. QED
  BY InitIInv, NextIInv, <1>1, PTL DEF Spec

(***************************************************************************)
(* No answer mixes the samples of two runs or skips a subframe, wherever   *)
(* the eNB is killed (AnswerFromOneRun).                                   *)
(***************************************************************************)
THEOREM OneRun == Spec => []AnswerFromOneRun
<1>1. IInv => AnswerFromOneRun
  BY DEF IInv, Chains, AnswerFromOneRun
<1>2. QED
  BY InitIInv, NextIInv, <1>1, PTL DEF Spec

-----------------------------------------------------------------------------
\* The data is of this run and ends with the given subframe.
Newest(d, sf) == d # <<>> /\ d[Len(d)].run = run /\ d[Len(d)].sf = sf

\* How many subframes ago the saved file ended: a capture while the next one grows,
\* and one more while it takes the other's place.
Age ==
    IF tpc = "receive" THEN IF counter = 0 THEN Period ELSE counter
    ELSE IF tpc \in {"saved?", "remove", "rename"} THEN Period + 1 ELSE counter + 1

TmpIsCurrent ==
    /\ tpc = "receive" /\ now # 0 => tmp.exists /\ Newest(tmp.data, now)
    /\ tpc \in {"saved?", "remove", "rename"} /\ now > 1 => Newest(tmp.data, now - 1)
    /\ tpc = "receive" /\ counter # 0 => now # 0

(***************************************************************************)
(* A saved file may be left from an earlier run only while this run has    *)
(* not lasted as long as the file would be old; then it is this run's.     *)
(***************************************************************************)
SavedAge == tpc # "off" /\ saved.exists /\ now > Age => Newest(saved.data, now - Age)

AgeInv == IInv /\ TmpIsCurrent /\ SavedAge

LEMMA InitAge == Init => AgeInv
BY InitIInv DEF Init, AgeInv, TmpIsCurrent, SavedAge, Absent

LEMMA NextAge == ASSUME AgeInv, [Next]_vars PROVE AgeInv'
<1>0. /\ IInv /\ IInv' /\ Period \in Nat \ {0} /\ now \in Nat /\ counter \in 0 .. Period - 1
      /\ Age \in Nat
  BY NextIInv, PeriodAssumption DEF AgeInv, IInv, TypeOK, Age
<1> SUFFICES TmpIsCurrent' /\ SavedAge'
  BY <1>0 DEF AgeInv
<1>a. TmpIsCurrent /\ SavedAge
  BY DEF AgeInv
<1> HIDE DEF Kept
<1>1. CASE Receive
  <2>1. /\ tpc = "receive" /\ now' = now + 1 /\ UNCHANGED <<saved, run, counter>>
    BY <1>1 DEF Receive
  <2>2. CASE counter = 0
    <3>1. tpc' = (IF tmp.exists THEN "saved?" ELSE "create") /\ tmp' = tmp
      BY <1>1, <2>2 DEF Receive
    <3>2. TmpIsCurrent'
      BY <1>0, <1>a, <2>1, <2>2, <3>1 DEF TmpIsCurrent, Newest
    <3>3. SavedAge'
      BY <1>0, <1>a, <2>1, <2>2, <3>1 DEF TmpIsCurrent, SavedAge, Newest, Age
    <3>4. QED
      BY <3>2, <3>3
  <2>3. CASE counter # 0
    <3>1. tpc' = "write"
      BY <1>1, <2>3 DEF Receive
    <3>2. QED
      BY <1>0, <1>a, <2>1, <2>3, <3>1 DEF TmpIsCurrent, SavedAge, Newest, Age
  <2>4. QED
    BY <2>2, <2>3
<1>2. CASE LookForSaved \/ RemoveSaved
  <2>1. /\ tpc \in {"saved?", "remove"} /\ tpc' \in {"remove", "rename"}
        /\ UNCHANGED <<tmp, run, now, counter>> /\ (saved' = saved \/ ~saved'.exists)
    BY <1>2, Empty DEF LookForSaved, RemoveSaved, fileVars
  <2>2. QED
    BY <1>0, <1>a, <2>1 DEF TmpIsCurrent, SavedAge, Newest, Age
<1>3. CASE RenameTmp
  <2>1. /\ tpc = "rename" /\ tpc' = "create" /\ saved' = tmp
        /\ UNCHANGED <<run, now, counter>> /\ counter = 0
    BY <1>0, <1>3 DEF RenameTmp, IInv, Growing
  <2>2. QED
    BY <1>0, <1>a, <2>1 DEF TmpIsCurrent, SavedAge, Newest, Age
<1>4. CASE CreateTmp
  <2>1. /\ tpc = "create" /\ tpc' = "write" /\ UNCHANGED <<saved, run, now, counter>>
    BY <1>4 DEF CreateTmp
  <2>2. QED
    BY <1>0, <1>a, <2>1 DEF TmpIsCurrent, SavedAge, Newest, Age
<1>5. CASE WriteSubframe
  <2> DEFINE d == tmp.data \o Written
  <2>1. /\ tpc = "write" /\ tmp' = File(d) /\ counter' = (counter + 1) % Period
        /\ tpc' = "receive" /\ UNCHANGED <<saved, run, now>>
    BY <1>5 DEF WriteSubframe
  <2>2. now # 0
    BY <1>0, <2>1 DEF IInv, Growing
  <2>3. /\ Written \in Data /\ Len(Written) = Kept /\ Kept \in Nat \ {0}
        /\ \A i \in 1 .. Kept : Written[i].run = run /\ Written[i].sf = now
    BY <1>0, <2>2, WrittenData, KeptPositive DEF IInv
  <2>4. tmp.data \in Data
    BY <1>0 DEF IInv, TypeOK, Files, Data
  <2>5. Newest(d, now)
    <3>1. Len(d) = Len(tmp.data) + Kept /\ d[Len(d)] = Written[Kept] /\ d # <<>>
      BY <2>3, <2>4 DEF Data
    <3>2. QED
      BY <2>3, <3>1 DEF Newest
  <2> HIDE DEF d
  <2>6. TmpIsCurrent'
    BY <2>1, <2>2, <2>5 DEF TmpIsCurrent, Newest, File
  <2>7. Age' = Age
    BY <1>0, <2>1 DEF Age
  <2>8. QED
    BY <1>a, <2>1, <2>6, <2>7 DEF SavedAge, Newest
<1>6. CASE Kill
  BY <1>6 DEF Kill, TmpIsCurrent, SavedAge
<1>7. CASE Restart
  BY <1>0, <1>7 DEF Restart, TmpIsCurrent, SavedAge, Age
<1>8. CASE OpenSaved \/ ReadSaved \/ UNCHANGED vars
  <2>1. UNCHANGED <<tmp, saved, run, now, counter, tpc>>
    BY <1>8 DEF OpenSaved, ReadSaved, vars, fileVars
  <2>2. QED
    BY <1>a, <2>1 DEF TmpIsCurrent, SavedAge, Newest, Age
<1>9. QED
  BY <1>1, <1>2, <1>3, <1>4, <1>5, <1>6, <1>7, <1>8 DEF Next, Rotate

(***************************************************************************)
(* Once a run has lasted a capture, the agent opens captures of this run   *)
(* only, that ended no longer ago than a capture lasts, whatever was left  *)
(* of earlier runs (CaptureIsRecent).                                      *)
(***************************************************************************)
THEOREM CapturesAreRecent == Spec => CaptureIsRecent
<1> DEFINE Recent ==
             apc' = "read" /\ apc = "idle" /\ now > Period + 1 =>
               /\ handle'.data # <<>>
               /\ LET newest == Last(handle'.data)
                  IN  newest.run = run /\ now - newest.sf <= Period + 1
<1>1. ASSUME AgeInv, [Next]_vars PROVE Recent
  <2> SUFFICES ASSUME apc' = "read", apc = "idle", now > Period + 1
               PROVE  /\ handle'.data # <<>>
                      /\ Last(handle'.data).run = run /\ now - Last(handle'.data).sf <= Period + 1
    OBVIOUS
  <2>1. OpenSaved
    BY <1>1 DEF Next, Receive, Rotate, LookForSaved, RemoveSaved, RenameTmp, CreateTmp,
                WriteSubframe, ReadSaved, Kill, Restart, agentVars, vars
  <2>2. tpc # "off" /\ saved.exists /\ handle' = saved
    BY <2>1 DEF OpenSaved
  <2>3. now \in Nat /\ counter \in 0 .. Period - 1 /\ Period \in Nat \ {0}
    BY <1>1, PeriodAssumption DEF AgeInv, IInv, TypeOK
  <2>4. Age \in Nat /\ Age <= Period + 1
    BY <2>3 DEF Age
  <2>5. Newest(saved.data, now - Age)
    BY <1>1, <2>2, <2>3, <2>4 DEF AgeInv, SavedAge
  <2> HIDE DEF Age
  <2>6. QED
    BY <2>2, <2>3, <2>4, <2>5 DEF Newest, Last
<1>2. Spec => []AgeInv
  BY InitAge, NextAge, PTL DEF Spec
<1>3. Spec => [][Recent]_vars
  <2>1. AgeInv /\ [Next]_vars => [Recent]_vars
    BY <1>1
  <2>2. QED
    BY <1>2, <2>1, PTL DEF Spec
<1>4. QED
  BY <1>3 DEF CaptureIsRecent
=============================================================================
