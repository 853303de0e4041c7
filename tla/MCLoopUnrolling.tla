--------------------------- MODULE MCLoopUnrolling ---------------------------
\* Functions of one outermost loop and counts up to 3.
EXTENDS LoopUnrolling

MCCounts == 0..3
=============================================================================
