---------------------------- MODULE RequestReply ----------------------------
(***************************************************************************)
(* What the gateway promises a client that submits a transaction: a        *)
(* request is refused at once or accepted, an accepted one is answered at  *)
(* most once, and the answer reports success only for a transaction that   *)
(* is on the ledger as valid.  An error answer promises nothing: the       *)
(* transaction may be on the ledger, or get there later.                   *)
(***************************************************************************)
CONSTANT Requests

VARIABLES
  status,    \* how far each request is
  committed  \* requests with a valid transaction on the ledger

Init == status = [r \in Requests |-> "new"] /\ committed = {}

Decide(r) ==
  /\ status[r] = "new"
  /\ \E s \in {"accepted", "refused"} : status' = [status EXCEPT ![r] = s]
  /\ UNCHANGED committed

Commit(r) ==
  /\ status[r] \notin {"new", "refused"}
  /\ committed' = committed \cup {r} /\ UNCHANGED status

Answer(r) ==
  /\ status[r] = "accepted"
  /\ \/ status' = [status EXCEPT ![r] = "error"]
     \/ r \in committed /\ status' = [status EXCEPT ![r] = "success"]
  /\ UNCHANGED committed

Next == \E r \in Requests : Decide(r) \/ Commit(r) \/ Answer(r)

Spec == Init /\ [][Next]_<<status, committed>>
=============================================================================
