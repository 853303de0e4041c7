---------------------------- MODULE MCPropagators ----------------------------
EXTENDS Propagators

\* Hundredths, on both sides of zero, of one and of 0.99.
MCPoints == {-200, -100, -99, -98, -50, -1, 0, 1, 50, 98, 99, 100, 200}

\* Programs over a positive range and one around zero.
MCRanges == {[min |-> 1, max |-> 3], [min |-> -1, max |-> 1]}
=============================================================================
