--------------------------- MODULE MCEventStream ---------------------------
(***************************************************************************)
(* Small instances of EventStream for TLC: one or two subscriptions with   *)
(* one or two events each, at most one call of every REST operation a run  *)
(* allows (two updates in one configuration), and at most one crash.       *)
(***************************************************************************)
EXTENDS EventStream

CONSTANTS s1, s2

\* Chains: one event per block, or two events in one block.
OneBlock    == [s \in Subs |-> <<1>>]
TwoBlocks   == [s \in Subs |-> <<1, 2>>]
TwoInOne    == [s \in Subs |-> <<1, 1>>]

\* Initial positions.
FromOne       == [s \in Subs |-> 1]
FromOneNewest == [s \in Subs |-> IF s = s1 THEN 1 ELSE Newest]

\* The operations a run allows, once each unless said otherwise.
Ops(allowed)     == [op \in OpNames |-> IF op \in allowed THEN 1 ELSE 0]
CrashOps         == Ops({"crash"})
LiveOps          == Ops({"crash", "stop"})
SuspendOps       == Ops({"suspend", "resume"})
UpdateOps        == Ops({"update"})
LifecycleOps     == Ops({"suspend", "resume", "update", "retype", "crash"})
SecondUpdateOps  == [Ops({"suspend", "resume"}) EXCEPT !["update"] = 2]
SubscriptionOps  == Ops({"reset", "delete"})
ResetOps         == Ops({"reset"})
StopOps          == Ops({"stop"})

=============================================================================
