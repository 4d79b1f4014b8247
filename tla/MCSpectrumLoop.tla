--------------------------- MODULE MCSpectrumLoop ---------------------------
(***************************************************************************)
(* Small instances of SpectrumLoop: a PRB range that passes the check and  *)
(* one that runs past the carrier, and replies that make the radarxApp     *)
(* see a radar, see none or go on looking.                                 *)
(***************************************************************************)
EXTENDS SpectrumLoop

MCUsable     == {<<4, 9>>}
MCUnusable   == {<<45, 52>>}
MCDetections == MCUsable \cup MCUnusable

MCReports ==
    {[nUes |-> 0, busy |-> <<>>]} \cup {[nUes |-> 1, busy |-> <<u>>] : u \in UeClass}

\* Two busy UEs in one report, so that one entry is enough to decide
MCPairReports ==
    {[nUes |-> 0, busy |-> <<>>], [nUes |-> 2, busy |-> <<"low", "low">>],
     [nUes |-> 2, busy |-> <<"high", "low">>]}

\* An idle UE, one with few errors, and two busy UEs in one report
MCMixedReports ==
    {[nUes |-> 0, busy |-> <<>>], [nUes |-> 1, busy |-> <<>>],
     [nUes |-> 1, busy |-> <<"low">>], [nUes |-> 2, busy |-> <<"low", "high">>]}
=============================================================================
