------------------------ MODULE MCFeedbackEstimator ------------------------
\* FeedbackEstimator with two widths and the merge distances of taffo-fe.py.
EXTENDS FeedbackEstimator

MCNBits == <<16, 32>>
MCMergeDists == <<3, 2, 1, 0>>
=============================================================================
