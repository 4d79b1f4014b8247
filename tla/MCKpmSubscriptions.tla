------------------------- MODULE MCKpmSubscriptions -------------------------
\* Subscriptions to one period and to two, with an action that does not report,
\* and two that are refused: for their function, and for having no such action.
EXTENDS KpmSubscriptions

Wish(id, ps, reports, others, function) ==
    [id |-> id, registered |-> function, periods |-> ps, reports |-> reports, others |-> others]

MCWanted == {Wish(1, {10}, {1}, {}, TRUE), Wish(2, {10, 20}, {1}, {2}, TRUE),
             Wish(3, {20}, {1}, {}, FALSE), Wish(4, {20}, {}, {1}, TRUE)}

=============================================================================
