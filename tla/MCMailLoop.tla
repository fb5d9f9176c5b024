----------------------------- MODULE MCMailLoop ----------------------------
EXTENDS MailLoop, TLC

MCDefault == [l \in Loops |-> TRUE]

\* Nothing tells the requests apart, and every property is a state predicate.
RequestSymmetry == Permutations(Requests)
=============================================================================
