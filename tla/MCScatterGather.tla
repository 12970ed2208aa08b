-------------------------- MODULE MCScatterGather --------------------------
EXTENDS ScatterGather

\* No two pixels are alike, grey or not.
MCColours == [k \in 1..15 |-> <<9 * k, 15 * k, 255 - k>>]
=============================================================================
