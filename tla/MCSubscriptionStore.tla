------------------------ MODULE MCSubscriptionStore ------------------------
(***************************************************************************)
(* Small instances of SubscriptionStore for TLC.  Every subscription ID    *)
(* can be used once, so two IDs on one filter and stream are what it takes *)
(* to take a filter again after a deletion, or twice at once.              *)
(***************************************************************************)
EXTENDS SubscriptionStore, TLC

CONSTANTS t1, t2, e1, s1, s2, k1

\* Both subscriptions on one stream.
OneStream == [s \in Subs |-> e1]
\* Both subscriptions on the same filter.
SameFilter == [s \in Subs |-> k1]

Symmetry == Permutations(Threads) \cup Permutations(Subs)

=============================================================================
