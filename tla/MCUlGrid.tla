------------------------------ MODULE MCUlGrid ------------------------------
(***************************************************************************)
(* Every mask and every size of a small carrier, and what the searches     *)
(* should find.                                                            *)
(***************************************************************************)
EXTENDS UlGrid

VARIABLES mask, size

Init == mask \in SUBSET Prbs /\ size \in 1 .. NofPrb
Next == UNCHANGED <<mask, size>>
Spec == Init /\ [][Next]_<<mask, size>>

\* The free intervals of n PRBs.
FreeIntervals(n) == {a .. a + n - 1 : a \in {b \in Prbs : b .. b + n - 1 \subseteq Prbs \ mask}}
Starts(iv)       == CHOOSE a \in iv : \A b \in iv : a <= b
Longest          == CHOOSE n \in 0 .. NofPrb : FreeIntervals(n) # {} /\ FreeIntervals(n + 1) = {}
Leftmost(ivs)    == CHOOSE iv \in ivs : \A other \in ivs : Starts(iv) <= Starts(other)
Smaller(a, b)    == IF a < b THEN a ELSE b

(***************************************************************************)
(* find_contiguous_interval gives the leftmost free interval of the size   *)
(* asked for, or of the longest there is: a retransmission that needs the  *)
(* PRB count of its first transmission finds it whenever the mask, blanked *)
(* range and all, has room for it.                                         *)
(***************************************************************************)
IntervalIsLeftmostBest ==
    FindContiguousInterval(mask, size) =
        IF mask = Prbs THEN {} ELSE Leftmost(FreeIntervals(Smaller(size, Longest)))

(***************************************************************************)
(* find_contiguous_ul_prbs and, for UCI, find_ul_alloc give free PRBs      *)
(* only, of a size a DFT exists for.  The first takes more than asked for  *)
(* only where the size asked for has no DFT, and nothing only when no PRB  *)
(* is free; the second never takes more, and nothing only when the free    *)
(* PRBs all lie in runs that end before PRB 3, the edge it avoids.         *)
(***************************************************************************)
UlPrbsUsable ==
    LET data == FindContiguousUlPrbs(size, mask)
        uci  == FindUlAlloc(size, mask)
        n    == Cardinality(data)
    IN  /\ \A found \in {data, uci} :
            /\ found \in FreeIntervals(Cardinality(found)) \/ found = {}
            /\ Cardinality(found) \in ValidSizes
        /\ n > size => size \notin ValidSizes
        /\ n < ValidSizeBelow(size) => Longest < ValidSizeBelow(size)
        /\ data = {} <=> mask = Prbs
        /\ Cardinality(uci) <= size
        /\ uci = {} => Prbs \ mask \subseteq {0, 1}
=============================================================================
