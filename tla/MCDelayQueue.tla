---------------------------- MODULE MCDelayQueue ----------------------------
EXTENDS DelayQueue

\* Keys are interchangeable. Six entries are the fewest for which the last entry
\* of the heap can be due before the parent of a hole in the other subtree.
KeySymmetry == Permutations(Keys)
=============================================================================
