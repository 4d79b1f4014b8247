---------------------------- MODULE MCSlicedCell ----------------------------
\* Texts that are the UEs' IMSIs, and any other, which is no number.
EXTENDS SlicedCell

MCStoUl == [t \in ImsiTexts |-> CASE t = "1" -> 1 [] t = "2" -> 2 [] OTHER -> 0]

\* UE 1 is a member of slice 2 from the start; the service model does not know of it.
MCSliceDb == [n \in {2} |-> [share |-> 4, imsis |-> {1}]]
MCNoDb    == <<>>

=============================================================================
