------------------------------- MODULE UlGrid -------------------------------
(***************************************************************************)
(* The searches of the uplink grid: sched_phy_resource.cc and              *)
(* sf_grid_t::find_ul_alloc.  A mask is the set of the PRBs taken, an      *)
(* interval the set of its PRBs.                                           *)
(***************************************************************************)
EXTENDS Integers, FiniteSets

CONSTANT NofPrb  \* PRBs of the carrier

ASSUME PrbAssumption == NofPrb \in Nat \ {0}

Prbs == 0 .. NofPrb - 1

\* The sizes a DFT exists for: valid_prb[] of dft_precoding.c.
ValidSizes == {0, 1, 2, 3, 4, 5, 6, 8, 9, 10, 12, 15, 16, 18, 20, 24, 25, 27, 30, 32, 36, 40,
               45, 48, 50, 54, 60, 64, 72, 75, 80, 81, 90, 96, 100}

\* bounded_bitset::find_lowest
FindLowest(mask, from, to, val) ==
    LET hits == {n \in from .. to - 1 : (n \in mask) = val}
    IN  IF hits = {} THEN -1 ELSE CHOOSE n \in hits : \A m \in hits : n <= m

\* Mutant: the last of the longest runs is kept, not the first.
FindContiguousInterval_Last(mask, size) ==
    LET scan[n \in 0 .. NofPrb] ==
            LET pos  == FindLowest(mask, n, NofPrb, FALSE)
                end  == IF pos + size < NofPrb THEN pos + size ELSE NofPrb
                pos2 == FindLowest(mask, pos + 1, end, TRUE)
                run  == pos .. (IF pos2 < 0 THEN end ELSE pos2) - 1
                rest == scan[pos + Cardinality(run)]
            IN  IF pos < 0 THEN {}
                ELSE IF Cardinality(run) >= size \/ Cardinality(run) > Cardinality(rest)
                     THEN run ELSE rest
    IN  scan[0]

\* The first free run of size PRBs, or the first of the longest: runs shorter
\* than size are compared as the loop goes from left to right.
FindContiguousInterval(mask, size) ==
    LET scan[n \in 0 .. NofPrb] ==
            LET pos  == FindLowest(mask, n, NofPrb, FALSE)
                end  == IF pos + size < NofPrb THEN pos + size ELSE NofPrb
                pos2 == FindLowest(mask, pos + 1, end, TRUE)
                run  == pos .. (IF pos2 < 0 THEN end ELSE pos2) - 1
                rest == scan[pos + Cardinality(run)]
            IN  IF pos < 0 THEN {}
                ELSE IF Cardinality(run) >= size \/ Cardinality(run) >= Cardinality(rest)
                     THEN run ELSE rest
    IN  scan[0]

\* The interval of n PRBs that starts where run does.
Resized(run, n) ==
    LET start == FindLowest(run, 0, NofPrb, TRUE)
    IN  start .. start + n - 1

\* srsran_dft_precoding_get_valid_prb: the largest valid size up to n.
ValidSizeBelow(n) == CHOOSE m \in ValidSizes : m <= n /\ \A k \in ValidSizes : k <= n => k <= m

\* Mutant: the interval grows without a look at the mask.
FindContiguousUlPrbs_Grows(size, mask) ==
    LET run == FindContiguousInterval(mask, size)
        fit[n \in 0 .. NofPrb] ==
            IF n \in ValidSizes \/ Resized(run, n + 1) \ Prbs # {}
            THEN n ELSE fit[n + 1]
        grown == fit[Cardinality(run)]
    IN  IF run = {} THEN {}
        ELSE Resized(run, IF grown \in ValidSizes THEN grown ELSE ValidSizeBelow(Cardinality(run)))

\* Grow the run over free PRBs until its size is valid; if that fails, shrink it.
FindContiguousUlPrbs(size, mask) ==
    LET run == FindContiguousInterval(mask, size)
        fit[n \in 0 .. NofPrb] ==
            IF n \in ValidSizes \/ Resized(run, n + 1) \cap (Prbs \ mask) # Resized(run, n + 1)
            THEN n ELSE fit[n + 1]
        grown == fit[Cardinality(run)]
    IN  IF run = {} THEN {}
        ELSE Resized(run, IF grown \in ValidSizes THEN grown ELSE ValidSizeBelow(Cardinality(run)))

\* sf_grid_t::find_ul_alloc: the first free run, passed over when it ends before
\* PRB 3, cut to size and then to a valid size.
FindUlAlloc(size, mask) ==
    LET scan[n \in 0 .. NofPrb] ==
            LET pos  == FindLowest(mask, n, NofPrb, FALSE)
                pos2 == FindLowest(mask, pos + 1, NofPrb, TRUE)
                run  == pos .. (IF pos2 < 0 THEN NofPrb ELSE pos2) - 1
            IN  IF pos < 0 THEN {}
                ELSE IF pos2 >= 0 /\ pos2 < 3 /\ Cardinality(run) < size THEN scan[pos2 + 1]
                ELSE Resized(run, ValidSizeBelow(IF Cardinality(run) < size THEN Cardinality(run) ELSE size))
    IN  scan[0]
=============================================================================
