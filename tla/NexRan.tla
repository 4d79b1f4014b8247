------------------------------- MODULE NexRan -------------------------------
(***************************************************************************)
(* The NexRAN service model (e2sm_nexran.cc): the agent thread handling    *)
(* control requests of a RIC, with the model's own lists of the slices and *)
(* of the UEs bound to them beside the slicer's.  A request and the status *)
(* report of its acknowledgement are two calls of the slicer, between      *)
(* which other threads may call it.  Requests are within the bounds of     *)
(* e2sm-nexran-v01.00.asn1; decoding and encoding do not fail.  The        *)
(* subscriptions of this service model work as KPM's do and are left out.  *)
(***************************************************************************)
EXTENDS Slicer

CONSTANTS
    ImsiTexts,     \* IMSIs as they are written in a request
    StoUl,         \* what std::stoul makes of each; 0 where it throws
    MaxRequests    \* bound: control requests

ASSUME NexRanAssumption ==
    StoUl \in [ImsiTexts -> Imsis \cup {0}] /\ MaxRequests \in Nat

VARIABLES
    nexSlices,     \* nexran_model::slices, the share of each
    ues,           \* nexran_model::ues, the IMSIs bound to each, as written
    asked,         \* the request to be acknowledged, or None
    answer,        \* what the last step sent: "none", "success", "failure" (observed)
    requests       \* control requests so far

nexVars == <<nexSlices, ues, asked, answer, requests>>

None == [op |-> "none"]

Requests ==
    {None}
    \cup [op : {"config"}, shares : PartialFunctions(SliceNames, Shares)]
    \cup [op : {"delete"}, names : SUBSET SliceNames]
    \cup [op : {"status"}]
    \cup [op : {"bind", "unbind"}, name : SliceNames, imsis : SUBSET Imsis]

NexTypeOK ==
    /\ nexSlices \in PartialFunctions(SliceNames, Shares)
    /\ DOMAIN ues = DOMAIN nexSlices
    /\ \A n \in DOMAIN ues : ues[n] \in Seq(ImsiTexts)
    /\ asked \in Requests
    /\ answer \in {"none", "success", "failure"}
    /\ requests \in 0 .. MaxRequests

NexInit ==
    /\ nexSlices = <<>> /\ ues = <<>> /\ asked = None /\ answer = "none" /\ requests = 0

-----------------------------------------------------------------------------
TakeRequest == alive /\ asked = None /\ requests < MaxRequests /\ requests' = requests + 1

\* A request is carried out; where the RIC wants an acknowledgement, it is still to come.
Accepted(request) == asked' \in {None, request} /\ answer' = "none"

\* errout: a failure is sent, whatever the RIC wants.
Refused == answer' = "failure" /\ UNCHANGED <<slicerVars, nexSlices, ues, asked>>

\* std::stoul throws and nothing catches it.
Dies ==
    /\ alive' = FALSE /\ answer' = "none"
    /\ UNCHANGED <<slices, allocVars, cacheVars, idVars, nexSlices, ues, asked>>

Throws(texts) == \E k \in DOMAIN texts : StoUl[texts[k]] = 0
Values(texts) == {StoUl[texts[k]] : k \in DOMAIN texts}

HandleConfig ==
    /\ TakeRequest
    /\ \E shareOf \in PartialFunctions(SliceNames, Shares) \ {<<>>} :
        /\ nexSlices' = Over(shareOf, nexSlices)
        /\ ues' = Over(ues, [n \in DOMAIN shareOf |-> <<>>])
        /\ SliceConfig(shareOf)
        /\ Accepted([op |-> "config", shares |-> shareOf])

\* Mutant: each slice is deleted as its name is read.
Delete_OneByOne(names) ==
    LET kept == DOMAIN nexSlices \ names
    IN /\ nexSlices' = Restrict(nexSlices, kept) /\ ues' = Restrict(ues, kept)
       /\ IF names \subseteq DOMAIN nexSlices
          THEN SliceDelete(names) /\ Accepted([op |-> "delete", names |-> names])
          ELSE UNCHANGED <<slicerVars, asked>> /\ answer' = "failure"
Delete(names) ==
    LET kept == DOMAIN nexSlices \ names
    IN IF names \subseteq DOMAIN nexSlices
       THEN /\ nexSlices' = Restrict(nexSlices, kept) /\ ues' = Restrict(ues, kept)
            /\ SliceDelete(names)
            /\ Accepted([op |-> "delete", names |-> names])
       ELSE Refused

HandleDelete == TakeRequest /\ \E names \in SUBSET SliceNames \ {{}} : Delete(names)

\* The names are read and what slice_status() says of them is dropped.
HandleStatus ==
    /\ TakeRequest
    /\ Accepted([op |-> "status"])
    /\ UNCHANGED <<slicerVars, nexSlices, ues>>

\* The IMSIs are looked up as they are read, and converted once looked up.
\* known tells whether a bound IMSI is what the request needs.
Unfit(name, texts, bound) ==
    {k \in DOMAIN texts : (\E j \in DOMAIN ues[name] : ues[name][j] = texts[k]) # bound}
FirstFault(name, texts, bound) ==
    LET faults == Unfit(name, texts, bound) \cup {k \in DOMAIN texts : StoUl[texts[k]] = 0}
    IN CHOOSE k \in faults : \A j \in faults : k <= j

\* What becomes of a request for UEs: refused, the end of the eNB, or carried out by op.
ForUes(name, texts, bound, op) ==
    IF name \notin DOMAIN nexSlices THEN Refused
    ELSE IF Unfit(name, texts, bound) = {} /\ ~Throws(texts) THEN op
    ELSE IF FirstFault(name, texts, bound) \in Unfit(name, texts, bound) THEN Refused ELSE Dies

UeLists == SeqOf(ImsiTexts, 2) \ {<<>>}

HandleUeBind ==
    /\ TakeRequest
    /\ \E name \in SliceNames, texts \in UeLists :
        ForUes(name, texts, FALSE,
               /\ ues' = [ues EXCEPT ![name] = @ \o texts]
               /\ SliceUeBind(name, Values(texts))
               /\ Accepted([op |-> "bind", name |-> name, imsis |-> Values(texts)])
               /\ UNCHANGED nexSlices)

\* The first of the list is erased, asked for or not.  Then each element the request
\* names is erased while the loop stands on it, and the loop goes on from freed memory:
\* it may go on rightly, stop after any of them, or be the end of the eNB.
Unbound(list, texts) ==
    LET rest == Tail(list)
        named == {k \in DOMAIN rest : \E j \in DOMAIN texts : texts[j] = rest[k]}
        Without(last) == FlattenSeq([k \in DOMAIN rest |->
            IF k \in named /\ k <= last THEN <<>> ELSE <<rest[k]>>])
    IN IF named = {} THEN {rest} ELSE {Without(k) : k \in named}

LoopUsesFreed(list, texts) ==
    \E k \in DOMAIN Tail(list), j \in DOMAIN texts : Tail(list)[k] = texts[j]

HandleUeUnbind ==
    /\ TakeRequest
    /\ \E name \in SliceNames, texts \in UeLists :
        ForUes(name, texts, TRUE,
               \/ LoopUsesFreed(ues[name], texts) /\ Dies
               \/ /\ \E list \in Unbound(ues[name], texts) : ues' = [ues EXCEPT ![name] = list]
                  /\ SliceUeUnbind(name, Values(texts))
                  /\ Accepted([op |-> "unbind", name |-> name, imsis |-> Values(texts)])
                  /\ UNCHANGED nexSlices)

\* The acknowledgement carries the status of all slices.
Acknowledge ==
    /\ alive /\ asked # None
    /\ asked' = None /\ answer' = "success"
    /\ UNCHANGED <<slicerVars, nexSlices, ues, requests>>

HandleControl == HandleConfig \/ HandleDelete \/ HandleStatus \/ HandleUeBind \/ HandleUeUnbind \/ Acknowledge

=============================================================================
