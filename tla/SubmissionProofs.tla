------------------------- MODULE SubmissionProofs -------------------------
(***************************************************************************)
(* The submission of transactions keeps the promise of RequestReply: for   *)
(* any number of requests, with repeated message IDs too, and any values   *)
(* of MaxInFlight and SendConcurrency.                                     *)
(***************************************************************************)
EXTENDS Submission, FiniteSetTheorems, TLAPS

Types ==
  /\ at \in [Requests -> {"new", "refused", "busy", "check", "towait", "wait",
                          "returned", "panicked"}]
  /\ tx \in [Requests -> {"none", "message", "slot", "register", "submit", "listen",
                          "sent", "reply", "store", "notify", "wake", "cancel", "over"}]
  /\ result \in [Requests -> {"none", "ok", "err"}]
  /\ ledger \in [Requests -> {"none", "valid", "invalid"}] /\ pending \subseteq Requests
  /\ answers \in [Requests -> Seq({"success", "error"})]

\* A transaction that has not been sent is neither with the orderer nor on the
\* ledger, a request that is not past its reply has no answer, and only a valid
\* transaction makes Send succeed.
Progress(r) ==
  /\ at[r] \in {"new", "refused"} <=> tx[r] = "none"
  /\ tx[r] \in {"none", "message", "slot", "register", "submit"} =>
       r \notin pending /\ ledger[r] = "none"
  /\ r \in pending => ledger[r] = "none"
  /\ tx[r] \in {"none", "message", "slot", "register", "submit", "listen",
                "sent", "reply", "store"} => answers[r] = <<>>
  /\ result[r] = "ok" => ledger[r] = "valid"

IInv == Types /\ \A r \in Requests : Progress(r)

\* Before the first request.
LEMMA InvInit == Init => IInv
  BY DEF Init, IInv, Types, Progress

\* The invariant holds after a step that touches one request only, if that
\* request keeps its part of it.
LEMMA OneRequest ==
  ASSUME IInv, NEW r \in Requests, Types', Progress(r)',
         \A q \in Requests \ {r} :
           /\ at'[q] = at[q] /\ tx'[q] = tx[q] /\ result'[q] = result[q]
           /\ ledger'[q] = ledger[q] /\ answers'[q] = answers[q]
           /\ q \in pending' <=> q \in pending
  PROVE  IInv'
  BY DEF IInv, Progress

\* A step of one request that gives no answer and puts nothing on the ledger.
Quiet(r) ==
  /\ Types' /\ Progress(r)' /\ UNCHANGED <<ledger, answers>>
  /\ at[r] \notin {"new", "refused"} /\ at'[r] \notin {"new", "refused"}
  /\ \A q \in Requests \ {r} : /\ at'[q] = at[q] /\ tx'[q] = tx[q] /\ result'[q] = result[q]
                               /\ q \in pending' <=> q \in pending

QuietActions(r) ==
  \/ TestDone(r) \/ Wait(r) \/ OnMessage(r) \/ TakeSlot(r) \/ SendReturned(r)
  \/ CancelInFlight(r) \/ RegisterTxStatus(r) \/ CreateAndSend(r) \/ Listen(r)
  \/ Broadcast(r) \/ LockForReply(r) \/ Reply(r) \/ ReceiptPanic(r)

\* These actions give no answer and put nothing on the ledger.
LEMMA QuietStep == ASSUME IInv, NEW r \in Requests, QuietActions(r) PROVE Quiet(r)
<1> USE DEF IInv, Types, Progress, Quiet, Go, net, quiet
<1>0. /\ BackFrom(r) \in [Requests -> {"new", "refused", "busy", "check", "towait", "wait",
                                      "returned", "panicked"}]
      /\ at[r] \notin {"new", "refused"} => BackFrom(r)[r] \notin {"new", "refused"}
      /\ \A q \in Requests \ {r} : BackFrom(r)[q] = at[q]
  BY Zenon DEF BackFrom
<1>1. CASE TestDone(r) \/ Wait(r)
  BY <1>1, Zenon DEF TestDone, Wait
<1>2. CASE OnMessage(r)
  BY <1>2, Zenon DEF OnMessage
<1>3. CASE TakeSlot(r)
  BY <1>0, <1>3 DEF TakeSlot
<1>4. CASE SendReturned(r)
  BY <1>4, Zenon DEF SendReturned
<1>5. CASE CancelInFlight(r)
  BY <1>0, <1>5 DEF CancelInFlight
<1>6. CASE RegisterTxStatus(r)
  BY <1>6, Zenon DEF RegisterTxStatus, Outcome
<1>7. CASE CreateAndSend(r)
  BY <1>7, ZenonT(30) DEF CreateAndSend, Outcome
<1>8. CASE Listen(r)
  BY <1>8, Zenon DEF Listen, Outcome
<1>9. CASE Broadcast(r)
  <2>1. /\ tx[r] = "wake" /\ UNCHANGED <<result, pending, ledger, answers>>
        /\ tx' = [tx EXCEPT ![r] = "cancel"] \/ tx' = [tx EXCEPT ![r] = "over"]
    BY <1>9, Zenon DEF Broadcast
  <2>2. at[r] \notin {"new", "refused"}
    BY <2>1, Zenon
  <2>3. PICK a \in {"busy", "check", "towait", "wait", "returned", "panicked"} :
          at' = [at EXCEPT ![r] = a]
    BY <1>0, <1>9, <2>2, Zenon DEF Broadcast
  <2>4. QED
    BY <2>1, <2>2, <2>3, Zenon
<1>10. CASE LockForReply(r)
  BY <1>10, Zenon DEF LockForReply
<1>11. CASE Reply(r)
  <2>1. /\ tx[r] = "notify" /\ UNCHANGED <<result, pending, ledger, answers>>
        /\ \/ tx' = [tx EXCEPT ![r] = "cancel"] /\ at' = at
           \/ tx' = [tx EXCEPT ![r] = "over"] /\ at' = BackFrom(r)
    BY <1>11, Zenon DEF Reply, AfterReply
  <2>2. at[r] \notin {"new", "refused"}
    BY <2>1, Zenon
  <2>3. CASE tx' = [tx EXCEPT ![r] = "cancel"] /\ at' = at
    BY <2>1, <2>2, <2>3, Zenon
  <2>4. CASE tx' = [tx EXCEPT ![r] = "over"] /\ at' = BackFrom(r)
    BY <1>0, <2>1, <2>2, <2>4
  <2>5. QED
    BY <2>1, <2>3, <2>4, Zenon
<1>12. CASE ReceiptPanic(r)
  BY <1>12, Zenon DEF ReceiptPanic
<1>13. QED
  BY <1>1, <1>2, <1>3, <1>4, <1>5, <1>6, <1>7, <1>8, <1>9, <1>10, <1>11, <1>12, Zenon
     DEF QuietActions

\* OnMessage has been called, or the request has been refused.
LEMMA DispatchStep ==
  ASSUME IInv, NEW r \in Requests, ProcessMsg(r) \/ DispatchMsgSync(r)
  PROVE  /\ IInv'
         /\ at[r] = "new" /\ UNCHANGED <<ledger, answers>>
         /\ at' = [at EXCEPT ![r] = "busy"] \/ at' = [at EXCEPT ![r] = "refused"]
<1>1. at[r] = "new" /\ UNCHANGED <<ledger, answers, result, pending>>
  BY Zenon DEF ProcessMsg, DispatchMsgSync, net
<1>2. \/ at' = [at EXCEPT ![r] = "busy"] /\ tx' = [tx EXCEPT ![r] = "message"]
      \/ at' = [at EXCEPT ![r] = "refused"] /\ tx' = tx
  BY Zenon DEF ProcessMsg, DispatchMsgSync, DispatchMsg, Accept, Refuse, Go
<1>3. Types'
  BY <1>1, <1>2, Zenon DEF IInv, Types
<1>4. Progress(r)'
  BY <1>1, <1>2 DEF IInv, Types, Progress
<1>5. \A q \in Requests \ {r} : at'[q] = at[q] /\ tx'[q] = tx[q]
  BY <1>2, Zenon DEF IInv, Types
<1>6. QED
  BY <1>1, <1>2, <1>3, <1>4, <1>5, OneRequest, Zenon

\* The transaction of the request is on the ledger.
LEMMA CommitStep ==
  ASSUME IInv, NEW r \in Requests, Commit(r)
  PROVE  /\ IInv' /\ UNCHANGED <<at, answers>>
         /\ at[r] \notin {"new", "refused"} /\ ledger[r] = "none"
         /\ \E v \in {"valid", "invalid"} : ledger' = [ledger EXCEPT ![r] = v]
<1>1. /\ r \in pending /\ pending' = pending \ {r} /\ UNCHANGED <<at, tx, result, answers>>
      /\ \E v \in {"valid", "invalid"} : ledger' = [ledger EXCEPT ![r] = v]
  BY Zenon DEF Commit, quiet
<1>2. at[r] \notin {"new", "refused"} /\ ledger[r] = "none"
  BY <1>1, Zenon DEF IInv, Progress
<1>3. Types' /\ Progress(r)'
  BY <1>1, <1>2 DEF IInv, Types, Progress
<1>4. \A q \in Requests \ {r} : ledger'[q] = ledger[q] /\ (q \in pending' <=> q \in pending)
  BY <1>1, Zenon DEF IInv, Types
<1>5. QED
  BY <1>1, <1>2, <1>3, <1>4, OneRequest, Zenon

\* The one answer to the request is given: success for a valid transaction only.
LEMMA AnswerStep ==
  ASSUME IInv, NEW r \in Requests, SyncReply(r) \/ StoreReceipt(r)
  PROVE  /\ IInv' /\ UNCHANGED <<at, ledger>>
         /\ at[r] \notin {"new", "refused"} /\ answers[r] = <<>>
         /\ \/ answers' = [answers EXCEPT ![r] = <<"error">>]
            \/ answers' = [answers EXCEPT ![r] = <<"success">>] /\ ledger[r] = "valid"
<1>1. /\ tx[r] \in {"reply", "store"} /\ UNCHANGED <<at, result, ledger, pending>> /\ Answer(r)
      /\ tx' = [tx EXCEPT ![r] = "wake"] \/ tx' = [tx EXCEPT ![r] = "notify"]
  BY Zenon DEF SyncReply, StoreReceipt, Go, net
<1>2. at[r] \notin {"new", "refused"} /\ answers[r] = <<>>
  BY <1>1, Zenon DEF IInv, Progress
<1>3. \/ answers' = [answers EXCEPT ![r] = <<"error">>]
      \/ answers' = [answers EXCEPT ![r] = <<"success">>] /\ ledger[r] = "valid"
  <2>1. Append(<<>>, "error") = <<"error">> /\ Append(<<>>, "success") = <<"success">>
    OBVIOUS
  <2>2. result[r] = "ok" => ledger[r] = "valid"
    BY Zenon DEF IInv, Progress
  <2>3. answers' = [answers EXCEPT ![r] =
                      Append(answers[r], IF result[r] = "ok" THEN "success" ELSE "error")]
    BY <1>1, Zenon DEF Answer
  <2>4. QED
    BY <1>2, <2>1, <2>2, <2>3, Zenon
<1>4. Types'
  <2>1. <<"error">> \in Seq({"success", "error"}) /\ <<"success">> \in Seq({"success", "error"})
    OBVIOUS
  <2>2. answers' \in [Requests -> Seq({"success", "error"})]
    BY <1>3, <2>1, Zenon DEF IInv, Types
  <2>3. QED
    BY <1>1, <2>2, Zenon DEF IInv, Types
<1>5. Progress(r)'
  BY <1>1, <1>2 DEF IInv, Types, Progress
<1>6. \A q \in Requests \ {r} : tx'[q] = tx[q] /\ answers'[q] = answers[q]
  BY <1>1, <1>3 DEF IInv, Types
<1>7. QED
  BY <1>1, <1>2, <1>3, <1>4, <1>5, <1>6, OneRequest, Zenon

\* The actions, by what they do to the promise.
LEMMA NextCases ==
  ASSUME Next
  PROVE  \/ BlockReplies
         \/ \E r \in Requests : \/ ProcessMsg(r) \/ DispatchMsgSync(r) \/ QuietActions(r)
                                \/ Commit(r) \/ SyncReply(r) \/ StoreReceipt(r)
  BY Zenon DEF Next, Step, QuietActions

\* Every step keeps the invariant.
LEMMA InvStep == IInv /\ [Next]_vars => IInv'
<1> SUFFICES ASSUME IInv, [Next]_vars PROVE IInv'
  BY Zenon
<1>1. CASE UNCHANGED vars \/ BlockReplies
  BY <1>1 DEF vars, BlockReplies, net, IInv, Types, Progress
<1>2. ASSUME NEW r \in Requests, QuietActions(r) PROVE IInv'
  BY <1>2, QuietStep, OneRequest DEF Quiet
<1>3. QED
  BY <1>1, <1>2, NextCases, DispatchStep, CommitStep, AnswerStep, Zenon

-----------------------------------------------------------------------------
(* The refinement.                                                         *)

\* The initial state is one of RequestReply.
LEMMA InitImplements == Init => Promise!Init
  BY DEF Init, Promise!Init, StatusOf

\* What the clients have been told and what is on the ledger.
Told == <<[r \in Requests |-> StatusOf(r)], {r \in Requests : ledger[r] = "valid"}>>

\* Every step is one of RequestReply, or leaves what it promises alone.
LEMMA StepImplements == IInv /\ [Next]_vars => Promise!Next \/ UNCHANGED Told
<1> SUFFICES ASSUME IInv, [Next]_vars PROVE Promise!Next \/ UNCHANGED Told
  BY Zenon
<1>1. CASE UNCHANGED vars \/ BlockReplies
  BY <1>1, Zenon DEF vars, BlockReplies, net, Told, StatusOf
<1>2. ASSUME NEW r \in Requests, QuietActions(r) PROVE UNCHANGED Told
  <2>1. Quiet(r)
    BY <1>2, QuietStep, Zenon
  <2>2. \A q \in Requests : StatusOf(q)' = StatusOf(q)
    BY <2>1, Zenon DEF Quiet, StatusOf
  <2>3. QED
    BY <2>1, <2>2, Zenon DEF Quiet, Told
<1>3. ASSUME NEW r \in Requests, ProcessMsg(r) \/ DispatchMsgSync(r) PROVE Promise!Decide(r)
  <2>1. StatusOf(r) = "new" /\ ledger' = ledger
    BY <1>3, DispatchStep, Zenon DEF StatusOf
  <2>2. /\ StatusOf(r)' \in {"accepted", "refused"}
        /\ \A q \in Requests \ {r} : StatusOf(q)' = StatusOf(q)
    <3>1. answers[r] = <<>> /\ answers' = answers
      BY <1>3, DispatchStep, Zenon DEF IInv, Progress
    <3>2. at'[r] \in {"busy", "refused"} /\ \A q \in Requests \ {r} : at'[q] = at[q]
      BY <1>3, DispatchStep DEF IInv, Types
    <3>3. QED
      BY <3>1, <3>2, Zenon DEF StatusOf
  <2>3. [q \in Requests |-> StatusOf(q)]' =
          [[q \in Requests |-> StatusOf(q)] EXCEPT ![r] = StatusOf(r)']
    BY <2>2, Zenon
  <2>4. QED
    BY <2>1, <2>2, <2>3, Zenon DEF Promise!Decide
<1>4. ASSUME NEW r \in Requests, Commit(r) PROVE Promise!Commit(r) \/ UNCHANGED Told
  <2>1. PICK v \in {"valid", "invalid"} : ledger' = [ledger EXCEPT ![r] = v]
    BY <1>4, CommitStep, Zenon
  <2>2. /\ \A q \in Requests : StatusOf(q)' = StatusOf(q)
        /\ StatusOf(r) \notin {"new", "refused"} /\ ledger[r] = "none"
    <3>1. UNCHANGED <<at, answers>> /\ at[r] \notin {"new", "refused"} /\ ledger[r] = "none"
      BY <1>4, CommitStep, Zenon
    <3>2. Len(answers[r]) = 1 => answers[r][1] \in {"success", "error"}
      <4>1. answers[r] \in Seq({"success", "error"})
        BY Zenon DEF IInv, Types
      <4>2. QED
        BY <4>1
    <3>3. QED
      BY <3>1, <3>2, Zenon DEF StatusOf
  <2>3. CASE v = "valid"
    <3>1. {q \in Requests : ledger[q] = "valid"}' = {q \in Requests : ledger[q] = "valid"} \cup {r}
      BY <2>1, <2>3, Zenon DEF IInv, Types
    <3>2. QED
      BY <2>2, <3>1, Zenon DEF Promise!Commit
  <2>4. CASE v = "invalid"
    BY <2>1, <2>2, <2>4, Zenon DEF Told, IInv, Types
  <2>5. QED
    BY <2>3, <2>4, Zenon
<1>5. ASSUME NEW r \in Requests, SyncReply(r) \/ StoreReceipt(r) PROVE Promise!Answer(r)
  <2>1. StatusOf(r) = "accepted" /\ ledger' = ledger
    BY <1>5, AnswerStep, Zenon DEF StatusOf
  <2>2. /\ StatusOf(r)' = "error" \/ (StatusOf(r)' = "success" /\ ledger[r] = "valid")
        /\ \A q \in Requests \ {r} : StatusOf(q)' = StatusOf(q)
    <3>1. /\ UNCHANGED at /\ at[r] \notin {"new", "refused"}
          /\ \A q \in Requests \ {r} : answers'[q] = answers[q]
          /\ answers'[r] = <<"error">> \/ (answers'[r] = <<"success">> /\ ledger[r] = "valid")
      BY <1>5, AnswerStep DEF IInv, Types
    <3>2. \A x \in {"success", "error"} : <<x>> # <<>> /\ Len(<<x>>) = 1 /\ <<x>>[1] = x
      BY Zenon
    <3>3. QED
      BY <3>1, <3>2, Zenon DEF StatusOf
  <2>3. [q \in Requests |-> StatusOf(q)]' =
          [[q \in Requests |-> StatusOf(q)] EXCEPT ![r] = StatusOf(r)']
    BY <2>2, Zenon
  <2>4. QED
    BY <2>1, <2>2, <2>3, Zenon DEF Promise!Answer
<1>6. QED
  BY <1>1, <1>2, <1>3, <1>4, <1>5, NextCases, Zenon DEF Promise!Next

\* The submission implements RequestReply: a request is refused at once or
\* answered at most once, by the synchronous responder or by the stored receipt,
\* and success is reported only for a valid transaction on the ledger.
THEOREM PromiseKept == Spec => ImplementsPromise
<1>1. IInv /\ [Next]_vars =>
        [Promise!Next]_<<[r \in Requests |-> StatusOf(r)], {r \in Requests : ledger[r] = "valid"}>>
  BY StepImplements, Zenon DEF Told
<1>2. QED
  BY <1>1, InitImplements, InvInit, InvStep, PTL DEF Spec, ImplementsPromise, Promise!Spec

-----------------------------------------------------------------------------
(* The books: inFlight of the direct handler, inflightTxs and the slots of *)
(* the transaction processor, the registrations with the event client.     *)

Sending    == {r \in Requests : tx[r] \in {"register", "submit", "listen", "sent"}}
Unfinished == {r \in Requests : msg[r].by = "async" /\ Accepted(r)
                                /\ (Open(r) \/ tx[r] = "notify")}
Listed     == {r \in Requests :
                 \/ r \in Sending \/ tx[r] \in {"slot", "cancel"}
                 \/ result[r] = "ok" /\ tx[r] \in {"reply", "store", "notify", "wake"}}

BookTypes ==
  /\ msg \in [Requests -> Msgs] /\ conc \in Concurrency /\ crashed \in BOOLEAN
  /\ registered \subseteq Requests /\ inflightTxs \subseteq Requests
  /\ inFlight \in [IDs -> Requests \cup {None}]

\* A request waits for a slot only where there are slots, a panic ends it, and
\* Send has returned something when it goes on to its reply.
Course(r) ==
  /\ tx[r] = "slot" => conc > 1
  /\ at[r] = "panicked" => tx[r] = "over"
  /\ r \in registered <=> tx[r] \in {"submit", "listen"}
  /\ tx[r] \in {"sent", "reply", "store", "notify", "wake"} => result[r] \in {"ok", "err"}
  /\ tx[r] = "cancel" => result[r] = "ok"
  /\ tx[r] \in {"store", "notify"} => msg[r].by = "async"
  /\ tx[r] = "notify" => answers[r] # <<>>
  /\ tx[r] = "wake" => msg[r].by = "sync"

SlotsCounted ==
  /\ slots = IF conc > 1 THEN Cardinality(Sending) ELSE 0
  /\ slots <= conc

\* An entry of the map is an asynchronous request, under its own ID.
EntriesOwn == \A i \in IDs : inFlight[i] # None =>
                msg[inFlight[i]].id = i /\ msg[inFlight[i]].by = "async"

\* Which is the one that is not finished, if no two share an ID.
EntriesUnfinished ==
  DistinctIDs /\ NoPanic => /\ \A r \in Requests : r \in Unfinished <=> inFlight[msg[r].id] = r
                            /\ Cardinality(Unfinished) <= MaxInFlight

BookInv ==
  /\ IInv /\ BookTypes /\ \A r \in Requests : Course(r)
  /\ SlotsCounted /\ (NoPanic => inflightTxs = Listed)
  /\ EntriesOwn /\ EntriesUnfinished

\* A step of one request: the books of the others stay, and its own course and
\* its entry in the list stay right.
Local(r) ==
  /\ UNCHANGED <<msg, conc>> /\ BookTypes' /\ Course(r)'
  /\ at[r] = "panicked" => at'[r] = "panicked"
  /\ (r \in inflightTxs <=> r \in Listed) /\ at'[r] # "panicked" /\ ~crashed' =>
       (r \in inflightTxs' <=> r \in Listed')
  /\ \A q \in Requests \ {r} :
       /\ at'[q] = at[q] /\ tx'[q] = tx[q] /\ result'[q] = result[q] /\ answers'[q] = answers[q]
       /\ (q \in registered' <=> q \in registered) /\ (q \in inflightTxs' <=> q \in inflightTxs)

\* After a step of one request every request is on its course.
LEMMA LocalCourses ==
  ASSUME BookInv, NEW r \in Requests, Local(r)
  PROVE  \A q \in Requests : Course(q)'
  BY DEF BookInv, Local, Course

\* A step of one request moves no other in or out of the books.
LEMMA LocalSets ==
  ASSUME NEW r \in Requests, Local(r)
  PROVE  \A q \in Requests \ {r} : /\ q \in Sending' <=> q \in Sending
                                   /\ q \in Unfinished' <=> q \in Unfinished
                                   /\ q \in Listed' <=> q \in Listed
  BY Zenon DEF Local, Sending, Unfinished, Listed, Accepted, Open

\* After a step of one request inflightTxs is right.
LEMMA LocalList ==
  ASSUME BookInv, NEW r \in Requests, Local(r), ~crashed
  PROVE  /\ NoPanic' => NoPanic
         /\ NoPanic' => inflightTxs' = Listed'
<1>1. NoPanic' => NoPanic
  BY Zenon DEF Local, NoPanic
<1>2. ASSUME NoPanic', NEW q \in Requests PROVE q \in inflightTxs' <=> q \in Listed'
  <2>1. \A p \in Requests : p \in inflightTxs <=> p \in Listed
    BY <1>1, <1>2, Zenon DEF BookInv
  <2>2. CASE q = r
    BY <1>2, <2>1, <2>2, Zenon DEF Local, NoPanic
  <2>3. CASE q # r
    BY <2>1, <2>3, LocalSets, Zenon DEF Local
  <2>4. QED
    BY <2>2, <2>3, Zenon
<1>3. inflightTxs' \subseteq Requests /\ Listed' \subseteq Requests
  BY Zenon DEF Local, BookTypes, Listed
<1>4. QED
  BY <1>1, <1>2, <1>3, Zenon

\* The books are finite.
LEMMA FiniteBooks ==
  /\ IsFiniteSet(Sending) /\ Cardinality(Sending) \in Nat
  /\ IsFiniteSet(Unfinished) /\ Cardinality(Unfinished) \in Nat
<1>1. Sending \in SUBSET Requests /\ Unfinished \in SUBSET Requests
  BY Zenon DEF Sending, Unfinished
<1>2. IsFiniteSet(Sending) /\ IsFiniteSet(Unfinished)
  BY <1>1, FS_Subset, SubmissionAssumption, Zenon
<1>3. QED
  BY <1>2, FS_CardinalityType, Zenon

\* A step of one request that takes and gives back no slot.
LEMMA SameSlots ==
  ASSUME BookInv, NEW r \in Requests, Local(r), slots' = slots,
         conc > 1 => (r \in Sending' <=> r \in Sending)
  PROVE  SlotsCounted'
<1>1. conc > 1 => Sending' = Sending
  <2>1. Sending' \subseteq Requests /\ Sending \subseteq Requests
    BY Zenon DEF Sending
  <2>2. QED
    BY <2>1, LocalSets
<1>2. conc' = conc
  BY Zenon DEF Local
<1>3. QED
  BY <1>1, <1>2, Zenon DEF BookInv, SlotsCounted

\* A step of one request that leaves the map alone.
LEMMA SameEntries ==
  ASSUME BookInv, NEW r \in Requests, Local(r), inFlight' = inFlight, NoPanic' => NoPanic,
         NoPanic' => (r \in Unfinished' <=> r \in Unfinished)
  PROVE  EntriesOwn' /\ EntriesUnfinished'
<1>1. UNCHANGED <<msg, inFlight>>
  BY Zenon DEF Local
<1>2. EntriesOwn'
  BY <1>1, Zenon DEF BookInv, EntriesOwn
<1>3. EntriesUnfinished'
  <2> SUFFICES ASSUME DistinctIDs', NoPanic'
               PROVE  /\ \A q \in Requests : q \in Unfinished' <=> inFlight[msg[q].id] = q
                      /\ Cardinality(Unfinished') <= MaxInFlight
    BY <1>1, Zenon DEF EntriesUnfinished
  <2>1. DistinctIDs /\ NoPanic
    BY <1>1, Zenon DEF DistinctIDs
  <2>2. Unfinished' = Unfinished
    <3>1. Unfinished' \subseteq Requests /\ Unfinished \subseteq Requests
      BY Zenon DEF Unfinished
    <3>2. QED
      BY <3>1, LocalSets
  <2>3. QED
    BY <2>1, <2>2, Zenon DEF BookInv, EntriesUnfinished
<1>4. QED
  BY <1>2, <1>3, Zenon

\* Together.
LEMMA LocalStep ==
  ASSUME BookInv, NEW r \in Requests, Local(r), ~crashed, [Next]_vars,
         SlotsCounted', EntriesOwn', EntriesUnfinished'
  PROVE  BookInv'
<1>1. IInv'
  BY InvStep, Zenon DEF BookInv
<1>2. QED
  BY <1>1, LocalCourses, LocalList, Zenon DEF BookInv, Local

-----------------------------------------------------------------------------
(* The books, action by action.                                            *)

\* The books are empty at first.
LEMMA BookInit == Init => BookInv
<1> SUFFICES ASSUME Init PROVE BookInv
  BY Zenon
<1>1. IInv /\ BookTypes /\ \A r \in Requests : Course(r)
  BY InvInit, Zenon DEF Init, BookTypes, Course
<1>2. Sending = {} /\ Unfinished = {} /\ Listed = {}
  BY Zenon DEF Init, Sending, Unfinished, Listed, Accepted
<1>3. SlotsCounted
  <2>1. conc \in Nat
    BY SubmissionAssumption, Zenon DEF Init
  <2>2. QED
    BY <1>2, <2>1, FS_EmptySet DEF Init, SlotsCounted
<1>4. inflightTxs = Listed
  BY <1>2, Zenon DEF Init
<1>5. EntriesOwn
  BY Zenon DEF Init, EntriesOwn
<1>6. EntriesUnfinished
  <2>1. \A r \in Requests : inFlight[msg[r].id] # r
    BY <1>1, SubmissionAssumption, Zenon DEF Init, BookTypes, Msgs
  <2>2. QED
    BY <1>2, <2>1, FS_EmptySet, SubmissionAssumption DEF EntriesUnfinished
<1>7. QED
  BY <1>1, <1>3, <1>4, <1>5, <1>6, Zenon DEF BookInv

\* What the invariant says of one request.
LEMMA OneCourse ==
  ASSUME BookInv, NEW r \in Requests
  PROVE  /\ Types /\ BookTypes /\ Progress(r) /\ Course(r)
         /\ conc \in Nat /\ msg[r].id \in IDs /\ msg[r].by \in {"async", "sync"}
<1>1. Types /\ BookTypes /\ Progress(r) /\ Course(r)
  BY Zenon DEF BookInv, IInv
<1>2. conc \in Nat
  BY <1>1, SubmissionAssumption, Zenon DEF BookTypes
<1>3. msg[r] \in Msgs
  BY <1>1, Zenon DEF BookTypes
<1>4. QED
  BY <1>1, <1>2, <1>3, Zenon DEF Msgs

\* TestDone and Wait move the HTTP goroutine only.
LEMMA WaitingLocal ==
  ASSUME BookInv, NEW r \in Requests, ~crashed, TestDone(r) \/ Wait(r)
  PROVE  Local(r) /\ SlotsCounted' /\ EntriesOwn' /\ EntriesUnfinished'
<1>1. /\ at[r] \in {"check", "towait"} /\ at'[r] \in {"returned", "towait", "wait"}
      /\ \A q \in Requests \ {r} : at'[q] = at[q]
      /\ UNCHANGED <<msg, conc, tx, result, registered, inFlight, inflightTxs, slots,
                     answers, crashed>>
  BY OneCourse, Zenon DEF Types, TestDone, Wait, conf, net, env
<1>2. Local(r)
  <2>1. BookTypes'
    BY <1>1, OneCourse, Zenon DEF BookTypes
  <2>2. Course(r)'
    BY <1>1, OneCourse, Zenon DEF Course
  <2>3. QED
    BY <1>1, <2>1, <2>2, Zenon DEF Local, Listed, Sending
<1>3. SlotsCounted'
  BY <1>1, <1>2, SameSlots, Zenon DEF Sending
<1>4. r \in Unfinished' <=> r \in Unfinished
  BY <1>1, Zenon DEF Unfinished, Accepted, Open
<1>5. QED
  BY <1>1, <1>2, <1>3, <1>4, SameEntries, LocalList, Zenon

\* OnMessage.
LEMMA OnMessageLocal ==
  ASSUME BookInv, NEW r \in Requests, ~crashed, OnMessage(r)
  PROVE  Local(r) /\ SlotsCounted' /\ EntriesOwn' /\ EntriesUnfinished'
<1>1. /\ tx[r] = "message"
      /\ UNCHANGED <<msg, conc, at, registered, inFlight, slots, answers, crashed>>
      /\ \A q \in Requests \ {r} : tx'[q] = tx[q] /\ result'[q] = result[q]
      /\ \/ /\ tx'[r] \in {"slot", "register"} /\ result' = result
            /\ (tx'[r] = "slot" <=> conc > 1)
            /\ inflightTxs' = inflightTxs \cup {r}
         \/ tx'[r] = "reply" /\ result'[r] = "err" /\ inflightTxs' = inflightTxs
  BY OneCourse DEF Types, OnMessage, Go, conf, env
<1>2. Local(r)
  <2>1. BookTypes'
    BY <1>1, OneCourse, Zenon DEF BookTypes
  <2>2. Course(r)'
    BY <1>1, OneCourse, Zenon DEF Course
  <2>3. r \notin Listed
    BY <1>1, Zenon DEF Listed, Sending
  <2>4. r \in inflightTxs' <=> (r \in Listed' \/ r \in inflightTxs)
    BY <1>1, Zenon DEF Listed, Sending
  <2>5. QED
    BY <1>1, <2>1, <2>2, <2>3, <2>4, Zenon DEF Local
<1>3. SlotsCounted'
  BY <1>1, <1>2, SameSlots, Zenon DEF Sending
<1>4. r \in Unfinished' <=> r \in Unfinished
  BY <1>1, Zenon DEF Unfinished, Accepted, Open
<1>5. QED
  BY <1>1, <1>2, <1>3, <1>4, SameEntries, LocalList, Zenon

\* Where the HTTP goroutine is after OnMessage has returned to it.
LEMMA Back ==
  ASSUME BookInv, NEW r \in Requests, at[r] # "panicked"
  PROVE  /\ BackFrom(r)[r] \in {at[r], "check", "returned"}
         /\ \A q \in Requests \ {r} : BackFrom(r)[q] = at[q]
  BY OneCourse, Zenon DEF Types, BackFrom

\* A transaction waits for its slot of concurrencySlots and takes it.
LEMMA TakeSlotLocal ==
  ASSUME BookInv, NEW r \in Requests, ~crashed, TakeSlot(r)
  PROVE  Local(r) /\ SlotsCounted' /\ EntriesOwn' /\ EntriesUnfinished'
<1>1. /\ tx[r] = "slot" /\ slots < conc /\ slots' = slots + 1 /\ tx'[r] = "register"
      /\ UNCHANGED <<msg, conc, result, registered, inFlight, inflightTxs, answers, crashed>>
      /\ \A q \in Requests \ {r} : tx'[q] = tx[q]
      /\ at' = BackFrom(r)
  BY OneCourse, Zenon DEF Types, TakeSlot, Go, conf, net, env
<1>2. /\ at[r] \notin {"new", "refused", "panicked"} /\ conc > 1
      /\ at'[r] \notin {"new", "refused", "panicked"}
      /\ \A q \in Requests \ {r} : at'[q] = at[q]
  <2>1. at[r] \notin {"new", "refused", "panicked"} /\ conc > 1
    BY <1>1, OneCourse, Zenon DEF Progress, Course
  <2>2. QED
    BY <1>1, <2>1, Back, Zenon
<1>3. Local(r)
  <2>1. BookTypes'
    BY <1>1, OneCourse, Zenon DEF BookTypes
  <2>2. Course(r)'
    BY <1>1, <1>2, OneCourse, Zenon DEF Course
  <2>3. r \in Listed /\ r \in Listed'
    BY <1>1, Zenon DEF Listed, Sending
  <2>4. QED
    BY <1>1, <1>2, <2>1, <2>2, <2>3, Zenon DEF Local
<1>4. SlotsCounted'
  <2>1. Sending' = Sending \cup {r} /\ r \notin Sending
    <3>1. r \notin Sending /\ r \in Sending'
      BY <1>1, Zenon DEF Sending
    <3>2. Sending' \subseteq Requests /\ Sending \subseteq Requests
      BY Zenon DEF Sending
    <3>3. QED
      BY <1>3, <3>1, <3>2, LocalSets, Zenon
  <2>2. Cardinality(Sending') = Cardinality(Sending) + 1
    BY <2>1, FiniteBooks, FS_AddElement, Zenon
  <2>3. slots = Cardinality(Sending)
    BY <1>2, Zenon DEF BookInv, SlotsCounted
  <2>4. conc \in Nat
    BY OneCourse, Zenon
  <2>5. QED
    BY <1>1, <1>2, <2>2, <2>3, <2>4, FiniteBooks DEF SlotsCounted
<1>5. r \in Unfinished' <=> r \in Unfinished
  BY <1>1, <1>2, Zenon DEF Unfinished, Accepted, Open
<1>6. QED
  BY <1>1, <1>3, <1>4, <1>5, SameEntries, LocalList, Zenon

\* Send has returned: the slot is given back.
LEMMA SendReturnedLocal ==
  ASSUME BookInv, NEW r \in Requests, ~crashed, SendReturned(r)
  PROVE  Local(r) /\ SlotsCounted' /\ EntriesOwn' /\ EntriesUnfinished'
<1>1. /\ tx[r] = "sent" /\ tx'[r] = "reply" /\ slots' = IF conc > 1 THEN slots - 1 ELSE slots
      /\ UNCHANGED <<msg, conc, at, result, registered, inFlight, answers, crashed>>
      /\ \A q \in Requests \ {r} : tx'[q] = tx[q]
      /\ inflightTxs' = IF result[r] = "err" THEN inflightTxs \ {r} ELSE inflightTxs
  BY OneCourse, Zenon DEF Types, SendReturned, ReturnSlot, Go, conf, net, env
<1>2. Local(r)
  <2>1. BookTypes'
    BY <1>1, OneCourse, Zenon DEF BookTypes
  <2>2. Course(r)'
    BY <1>1, OneCourse, Zenon DEF Course
  <2>3. r \in Listed /\ (r \in Listed' <=> result[r] = "ok") /\ result[r] \in {"ok", "err"}
    BY <1>1, OneCourse, Zenon DEF Listed, Sending, Course
  <2>4. QED
    BY <1>1, <2>1, <2>2, <2>3, Zenon DEF Local
<1>3. SlotsCounted'
  <2>1. Sending' = Sending \ {r} /\ r \in Sending
    <3>1. r \in Sending /\ r \notin Sending'
      BY <1>1, Zenon DEF Sending
    <3>2. Sending' \subseteq Requests /\ Sending \subseteq Requests
      BY Zenon DEF Sending
    <3>3. QED
      BY <1>2, <3>1, <3>2, LocalSets, Zenon
  <2>2. Cardinality(Sending') = Cardinality(Sending) - 1
    BY <2>1, FiniteBooks, FS_RemoveElement, Zenon
  <2>3. conc \in Nat /\ conc' = conc
    BY <1>1, OneCourse, Zenon
  <2>4. QED
    BY <1>1, <2>2, <2>3, FiniteBooks DEF BookInv, SlotsCounted
<1>4. r \in Unfinished' <=> r \in Unfinished
  BY <1>1, Zenon DEF Unfinished, Accepted, Open
<1>5. QED
  BY <1>1, <1>2, <1>3, <1>4, SameEntries, LocalList, Zenon

\* The end of a successful transaction: CancelInFlight, on the same goroutine
\* as its reply.
LEMMA CancelInFlightLocal ==
  ASSUME BookInv, NEW r \in Requests, ~crashed, CancelInFlight(r)
  PROVE  Local(r) /\ SlotsCounted' /\ EntriesOwn' /\ EntriesUnfinished'
<1>1. /\ tx[r] = "cancel" /\ tx'[r] = "over" /\ inflightTxs' = inflightTxs \ {r}
      /\ UNCHANGED <<msg, conc, result, registered, inFlight, slots, answers, crashed>>
      /\ \A q \in Requests \ {r} : tx'[q] = tx[q]
      /\ at' = BackFrom(r)
  BY OneCourse, Zenon DEF Types, CancelInFlight, Go, conf, net, env
<1>2. /\ at[r] \notin {"new", "refused", "panicked"}
      /\ at'[r] \notin {"new", "refused", "panicked"}
      /\ \A q \in Requests \ {r} : at'[q] = at[q]
  <2>1. at[r] \notin {"new", "refused", "panicked"}
    BY <1>1, OneCourse, Zenon DEF Progress, Course
  <2>2. QED
    BY <1>1, <2>1, Back, Zenon
<1>3. Local(r)
  <2>1. BookTypes'
    BY <1>1, OneCourse, Zenon DEF BookTypes
  <2>2. Course(r)'
    BY <1>1, <1>2, OneCourse, Zenon DEF Course
  <2>3. r \notin Listed'
    BY <1>1, Zenon DEF Listed, Sending
  <2>4. QED
    BY <1>1, <1>2, <2>1, <2>2, <2>3, Zenon DEF Local
<1>4. SlotsCounted'
  BY <1>1, <1>3, SameSlots, Zenon DEF Sending
<1>5. r \in Unfinished' <=> r \in Unfinished
  BY <1>1, <1>2, Zenon DEF Unfinished, Accepted, Open
<1>6. QED
  BY <1>1, <1>3, <1>4, <1>5, SameEntries, LocalList, Zenon

\* The steps of Send: the registration with the event client, the orderer, the
\* wait for the status.
LEMMA SendLocal ==
  ASSUME BookInv, NEW r \in Requests, ~crashed,
         RegisterTxStatus(r) \/ CreateAndSend(r) \/ Listen(r)
  PROVE  Local(r) /\ SlotsCounted' /\ EntriesOwn' /\ EntriesUnfinished'
<1>1. /\ tx[r] \in {"register", "submit", "listen"} /\ tx'[r] \in {"submit", "listen", "sent"}
      /\ UNCHANGED <<msg, conc, at, inFlight, inflightTxs, slots, answers, crashed>>
      /\ \A q \in Requests \ {r} : /\ tx'[q] = tx[q] /\ result'[q] = result[q]
                                   /\ q \in registered' <=> q \in registered
      /\ registered' \subseteq registered \cup {r}
      /\ r \in registered' <=> tx'[r] \in {"submit", "listen"}
      /\ tx'[r] = "sent" => result'[r] \in {"ok", "err"}
  <2>1. CASE RegisterTxStatus(r)
    BY <2>1, OneCourse DEF Types, Course, RegisterTxStatus, Outcome, Go, quiet, conf, env
  <2>2. CASE CreateAndSend(r)
    BY <2>2, OneCourse DEF Types, Course, CreateAndSend, Outcome, Go, quiet, conf, env
  <2>3. CASE Listen(r)
    BY <2>3, OneCourse DEF Types, Course, Listen, Outcome, Go, quiet, conf, env
  <2>4. QED
    BY <2>1, <2>2, <2>3, Zenon
<1>2. Local(r)
  <2>1. BookTypes'
    BY <1>1, OneCourse, Zenon DEF BookTypes
  <2>2. Course(r)'
    BY <1>1, OneCourse, Zenon DEF Course
  <2>3. r \in Listed /\ r \in Listed'
    BY <1>1, Zenon DEF Listed, Sending
  <2>4. QED
    BY <1>1, <2>1, <2>2, <2>3, Zenon DEF Local
<1>3. SlotsCounted'
  BY <1>1, <1>2, SameSlots, Zenon DEF Sending
<1>4. r \in Unfinished' <=> r \in Unfinished
  BY <1>1, Zenon DEF Unfinished, Accepted, Open
<1>5. QED
  BY <1>1, <1>2, <1>3, <1>4, SameEntries, LocalList, Zenon

\* A reply changes neither list nor slots; an asynchronous request is not
\* finished before Reply.
LEMMA AnsweringLocal ==
  ASSUME BookInv, NEW r \in Requests, ~crashed,
         SyncReply(r) \/ LockForReply(r) \/ StoreReceipt(r)
  PROVE  Local(r) /\ SlotsCounted' /\ EntriesOwn' /\ EntriesUnfinished'
<1>1. /\ UNCHANGED <<msg, conc, at, result, registered, inFlight, inflightTxs, slots, crashed>>
      /\ \A q \in Requests \ {r} : tx'[q] = tx[q] /\ answers'[q] = answers[q]
      /\ \/ tx[r] = "reply" /\ tx'[r] = "wake" /\ msg[r].by = "sync"
         \/ tx[r] = "reply" /\ tx'[r] = "store" /\ msg[r].by = "async" /\ answers'[r] = answers[r]
         \/ tx[r] = "store" /\ tx'[r] = "notify" /\ answers'[r] # <<>>
  <2>1. CASE SyncReply(r)
    BY <2>1, OneCourse, Zenon DEF Types, SyncReply, Answer, Go, conf, net, env
  <2>2. CASE LockForReply(r)
    BY <2>2, OneCourse, Zenon DEF Types, LockForReply, Go, conf, net, env
  <2>3. CASE StoreReceipt(r)
    <3>1. PICK a \in {"success", "error"} : answers' = [answers EXCEPT ![r] = Append(@, a)]
      BY <2>3, Zenon DEF StoreReceipt, Answer
    <3>2. answers \in [Requests -> Seq({"success", "error"})]
      BY OneCourse, Zenon DEF Types
    <3>3. answers'[r] # <<>> /\ \A q \in Requests \ {r} : answers'[q] = answers[q]
      <4>1. answers'[r] = Append(answers[r], a)
        BY <3>1, <3>2, Zenon
      <4>2. answers[r] \in Seq({"success", "error"})
        BY <3>2, Zenon
      <4>3. Append(answers[r], a) # <<>>
        BY <4>2
      <4>4. QED
        BY <3>1, <3>2, <4>1, <4>3, Zenon
    <3>4. QED
      BY <2>3, <3>3, OneCourse, Zenon DEF Types, StoreReceipt, Go, conf, net, env
  <2>4. QED
    BY <2>1, <2>2, <2>3
<1>2. Local(r)
  <2>1. BookTypes'
    BY <1>1, OneCourse, Zenon DEF BookTypes
  <2>2. Course(r)'
    BY <1>1, OneCourse, Zenon DEF Course
  <2>3. r \in Listed' <=> r \in Listed
    BY <1>1, Zenon DEF Listed, Sending
  <2>4. QED
    BY <1>1, <2>1, <2>2, <2>3, Zenon DEF Local
<1>3. SlotsCounted'
  BY <1>1, <1>2, SameSlots, Zenon DEF Sending
<1>4. r \in Unfinished' <=> r \in Unfinished
  <2>1. /\ Progress(r) /\ Course(r)
        /\ msg[r].by \in {"async", "sync"}
    BY OneCourse, Zenon
  <2>2. answers[r] = <<>> /\ Accepted(r) /\ Accepted(r)'
    BY <1>1, <2>1, Zenon DEF Progress, Accepted
  <2>3. QED
    BY <1>1, <2>1, <2>2, Zenon DEF Unfinished, Open, Course
<1>5. QED
  BY <1>1, <1>2, <1>3, <1>4, SameEntries, LocalList, Zenon

\* Broadcast wakes the goroutines that wait for a turn.
LEMMA BroadcastLocal ==
  ASSUME BookInv, NEW r \in Requests, ~crashed, Broadcast(r)
  PROVE  Local(r) /\ SlotsCounted' /\ EntriesOwn' /\ EntriesUnfinished'
<1>1. /\ tx[r] = "wake" /\ tx'[r] = IF result[r] = "ok" THEN "cancel" ELSE "over"
      /\ UNCHANGED <<msg, conc, result, registered, inFlight, inflightTxs, slots, answers, crashed>>
      /\ \A q \in Requests \ {r} : tx'[q] = tx[q] /\ at'[q] = at[q]
      /\ at'[r] \in {at[r], "check", BackFrom(r)[r]}
  BY OneCourse DEF Types, Broadcast, Go, conf, net, env
<1>2. /\ at[r] \notin {"new", "refused", "panicked"}
      /\ at'[r] \notin {"new", "refused", "panicked"}
  <2>1. at[r] \notin {"new", "refused", "panicked"}
    BY <1>1, OneCourse, Zenon DEF Progress, Course
  <2>2. QED
    BY <1>1, <2>1, Back, Zenon
<1>3. Local(r)
  <2>1. BookTypes'
    BY <1>1, OneCourse, Zenon DEF BookTypes
  <2>2. Course(r)'
    BY <1>1, <1>2, OneCourse, Zenon DEF Course
  <2>3. r \in Listed' <=> r \in Listed
    BY <1>1, Zenon DEF Listed, Sending
  <2>4. QED
    BY <1>1, <1>2, <2>1, <2>2, <2>3, Zenon DEF Local
<1>4. SlotsCounted'
  BY <1>1, <1>3, SameSlots, Zenon DEF Sending
<1>5. r \in Unfinished' <=> r \in Unfinished
  BY <1>1, <1>2, Zenon DEF Unfinished, Accepted, Open
<1>6. QED
  BY <1>1, <1>3, <1>4, <1>5, SameEntries, LocalList, Zenon

\* Reply takes the entry out of the map: the request was not finished, and is.
LEMMA ReplyLocal ==
  ASSUME BookInv, NEW r \in Requests, ~crashed, Reply(r)
  PROVE  Local(r) /\ SlotsCounted' /\ EntriesOwn' /\ EntriesUnfinished'
<1>1. /\ tx[r] = "notify" /\ tx'[r] = IF result[r] = "ok" THEN "cancel" ELSE "over"
      /\ UNCHANGED <<msg, conc, result, registered, inflightTxs, slots, answers, crashed>>
      /\ \A q \in Requests \ {r} : tx'[q] = tx[q]
      /\ inFlight' = [inFlight EXCEPT ![msg[r].id] = None]
      /\ at' = at \/ at' = BackFrom(r)
  BY OneCourse DEF Types, Reply, AfterReply, Go, conf, net, env
<1>2. /\ at[r] \notin {"new", "refused", "panicked"}
      /\ at'[r] \notin {"new", "refused", "panicked"}
      /\ \A q \in Requests \ {r} : at'[q] = at[q]
  <2>1. at[r] \notin {"new", "refused", "panicked"}
    BY <1>1, OneCourse, Zenon DEF Progress, Course
  <2>2. QED
    BY <1>1, <2>1, Back, Zenon
<1>3. Local(r)
  <2>1. BookTypes'
    BY <1>1, OneCourse, Zenon DEF BookTypes
  <2>2. Course(r)'
    BY <1>1, <1>2, OneCourse, Zenon DEF Course
  <2>3. r \in Listed' <=> r \in Listed
    BY <1>1, Zenon DEF Listed, Sending
  <2>4. QED
    BY <1>1, <1>2, <2>1, <2>2, <2>3, Zenon DEF Local
<1>4. SlotsCounted'
  BY <1>1, <1>3, SameSlots, Zenon DEF Sending
<1>5. EntriesOwn'
  <2>1. inFlight \in [IDs -> Requests \cup {None}] /\ msg' = msg /\ msg[r].id \in IDs
    BY <1>1, OneCourse, Zenon DEF BookTypes
  <2>2. \A i \in IDs : inFlight'[i] = None \/ inFlight'[i] = inFlight[i]
    BY <1>1, <2>1, Zenon
  <2>3. QED
    BY <2>1, <2>2, Zenon DEF BookInv, EntriesOwn
<1>6. ASSUME DistinctIDs', NoPanic'
      PROVE  /\ \A q \in Requests : q \in Unfinished' <=> inFlight'[msg[q].id] = q
             /\ Cardinality(Unfinished') <= MaxInFlight
  <2>1. DistinctIDs /\ NoPanic
    BY <1>1, <1>3, <1>6, LocalList, Zenon DEF DistinctIDs
  <2>2. /\ \A q \in Requests : q \in Unfinished <=> inFlight[msg[q].id] = q
        /\ Cardinality(Unfinished) <= MaxInFlight
    BY <2>1, Zenon DEF BookInv, EntriesUnfinished
  <2>3. r \notin Unfinished' /\ r \in Unfinished
    <3>1. answers[r] # <<>> /\ msg[r].by = "async"
      BY <1>1, OneCourse, Zenon DEF Course
    <3>2. tx'[r] # "notify" /\ answers'[r] # <<>>
      BY <1>1, <3>1, Zenon
    <3>3. QED
      BY <1>1, <1>2, <3>1, <3>2, Zenon DEF Unfinished, Accepted, Open
  <2>4. \A q \in Requests : q \in Unfinished' <=> q \in Unfinished /\ q # r
    BY <1>3, <2>3, LocalSets, Zenon
  <2>5. inFlight \in [IDs -> Requests \cup {None}] /\ msg \in [Requests -> Msgs]
    BY OneCourse, Zenon DEF BookTypes
  <2>6. \A q \in Requests \ {r} : msg[q].id \in IDs /\ msg[q].id # msg[r].id
    BY <2>1, <2>5, OneCourse, Zenon DEF DistinctIDs
  <2>7. \A q \in Requests \ {r} : inFlight'[msg[q].id] = inFlight[msg[q].id]
    BY <1>1, <2>5, <2>6, Zenon
  <2>8. inFlight'[msg[r].id] # r
    BY <1>1, <2>5, OneCourse, SubmissionAssumption, Zenon
  <2>9. Unfinished' = Unfinished \ {r}
    BY <2>4, Zenon DEF Unfinished
  <2>10. Cardinality(Unfinished') = Cardinality(Unfinished) - 1
    BY <2>3, <2>9, FiniteBooks, FS_RemoveElement, Zenon
  <2>11. Cardinality(Unfinished') <= MaxInFlight
    BY <2>2, <2>10, FiniteBooks, SubmissionAssumption
  <2>12. QED
    BY <2>2, <2>4, <2>7, <2>8, <2>11, Zenon
<1>7. EntriesUnfinished'
  BY <1>1, <1>6, Zenon DEF EntriesUnfinished
<1>8. QED
  BY <1>3, <1>4, <1>5, <1>7, Zenon

\* With a panic the map and the list keep what they have for good: the entry
\* of a request without a receipt stays.
LEMMA ReceiptPanicLocal ==
  ASSUME BookInv, NEW r \in Requests, ~crashed, ReceiptPanic(r)
  PROVE  Local(r) /\ SlotsCounted' /\ EntriesOwn' /\ EntriesUnfinished'
<1>1. /\ tx[r] = "store" /\ tx'[r] = "over"
      /\ UNCHANGED <<msg, conc, result, registered, inFlight, inflightTxs, slots, answers>>
      /\ \A q \in Requests \ {r} : tx'[q] = tx[q] /\ at'[q] = at[q]
      /\ \/ at'[r] = "panicked" /\ crashed' = crashed
         \/ at' = at /\ crashed' = TRUE
  BY OneCourse, Zenon DEF Types, ReceiptPanic, Go, conf, net, env
<1>2. Local(r)
  <2>1. BookTypes'
    BY <1>1, OneCourse, Zenon DEF BookTypes
  <2>2. Course(r)'
    BY <1>1, OneCourse, Zenon DEF Course
  <2>3. at'[r] = "panicked" \/ crashed'
    BY <1>1, Zenon
  <2>4. at[r] = "panicked" => at'[r] = "panicked"
    BY <1>1, Zenon
  <2>5. QED
    BY <1>1, <2>1, <2>2, <2>3, <2>4, Zenon DEF Local
<1>3. SlotsCounted'
  BY <1>1, <1>2, SameSlots, Zenon DEF Sending
<1>4. ~NoPanic'
  BY <1>1, Zenon DEF NoPanic
<1>5. QED
  BY <1>1, <1>2, <1>3, <1>4, SameEntries, Zenon

\* A synchronous request is dispatched.
LEMMA DispatchMsgSyncLocal ==
  ASSUME BookInv, NEW r \in Requests, ~crashed, DispatchMsgSync(r)
  PROVE  Local(r) /\ SlotsCounted' /\ EntriesOwn' /\ EntriesUnfinished'
<1>1. /\ at[r] = "new" /\ at'[r] = "busy" /\ tx'[r] = "message" /\ msg[r].by = "sync"
      /\ UNCHANGED <<msg, conc, result, registered, inFlight, inflightTxs, slots, answers, crashed>>
      /\ \A q \in Requests \ {r} : tx'[q] = tx[q] /\ at'[q] = at[q]
  BY OneCourse, Zenon DEF Types, DispatchMsgSync, Go, conf, net, env
<1>2. tx[r] = "none"
  BY <1>1, OneCourse, Zenon DEF Progress
<1>3. Local(r)
  <2>1. BookTypes'
    BY <1>1, OneCourse, Zenon DEF BookTypes
  <2>2. Course(r)'
    BY <1>1, <1>2, OneCourse, Zenon DEF Course
  <2>3. r \in Listed' <=> r \in Listed
    BY <1>1, <1>2, Zenon DEF Listed, Sending
  <2>4. QED
    BY <1>1, <2>1, <2>2, <2>3, Zenon DEF Local
<1>4. SlotsCounted'
  BY <1>1, <1>2, <1>3, SameSlots, Zenon DEF Sending
<1>5. r \in Unfinished' <=> r \in Unfinished
  BY <1>1, Zenon DEF Unfinished
<1>6. QED
  BY <1>1, <1>3, <1>4, <1>5, SameEntries, LocalList, Zenon

\* ProcessMsg refuses a request.
LEMMA RefuseLocal ==
  ASSUME BookInv, NEW r \in Requests, ~crashed, ProcessMsg(r), Refuse(r)
  PROVE  Local(r) /\ SlotsCounted' /\ EntriesOwn' /\ EntriesUnfinished'
<1>1. /\ at[r] = "new" /\ at'[r] = "refused"
      /\ UNCHANGED <<msg, conc, tx, result, registered, inFlight, inflightTxs, slots, answers,
                     crashed>>
      /\ \A q \in Requests \ {r} : at'[q] = at[q]
  BY OneCourse, Zenon DEF Types, ProcessMsg, Refuse, conf, net, env
<1>2. Local(r)
  <2>1. BookTypes'
    BY <1>1, OneCourse DEF BookTypes
  <2>2. Course(r)'
    BY <1>1, OneCourse DEF Course
  <2>3. r \in Listed' <=> r \in Listed
    BY <1>1, Zenon DEF Listed, Sending
  <2>4. QED
    BY <1>1, <2>1, <2>2, <2>3, Zenon DEF Local
<1>3. SlotsCounted'
  BY <1>1, <1>2, SameSlots, Zenon DEF Sending
<1>4. r \in Unfinished' <=> r \in Unfinished
  BY <1>1 DEF Unfinished, Accepted
<1>5. QED
  BY <1>1, <1>2, <1>3, <1>4, SameEntries, LocalList, Zenon

\* len(w.inFlight) counts the requests that are not finished.
LEMMA CountUnfinished ==
  ASSUME BookInv, DistinctIDs, NoPanic
  PROVE  InFlightCount = Cardinality(Unfinished)
<1> DEFINE Occupied == {i \in IDs : inFlight[i] # None}
           f == [q \in Unfinished |-> msg[q].id]
<1>1. /\ \A q \in Requests : q \in Unfinished <=> inFlight[msg[q].id] = q
      /\ \A i \in Occupied : msg[inFlight[i]].id = i
      /\ inFlight \in [IDs -> Requests \cup {None}]
      /\ \A q \in Requests : msg[q].id \in IDs
  <2>1. \A q \in Requests : msg[q].id \in IDs
    BY OneCourse, Zenon
  <2>2. QED
    BY <2>1, Zenon DEF BookInv, EntriesUnfinished, EntriesOwn, BookTypes
<1>2. Unfinished \subseteq Requests
  BY Zenon DEF Unfinished
<1>3. f \in [Unfinished -> Occupied]
  BY <1>1, <1>2, SubmissionAssumption
<1>4. \A i \in Occupied : \E q \in Unfinished : f[q] = i
  <2> SUFFICES ASSUME NEW i \in Occupied PROVE \E q \in Unfinished : f[q] = i
    BY Zenon
  <2>1. inFlight[i] \in Requests
    BY <1>1, Zenon
  <2>2. inFlight[i] \in Unfinished /\ f[inFlight[i]] = i
    BY <1>1, <2>1, Zenon
  <2>3. QED
    BY <2>2, Zenon
<1>5. \A q, p \in Unfinished : f[q] = f[p] => q = p
  BY <1>2, Zenon DEF DistinctIDs
<1> HIDE DEF Occupied, f
<1>6. f \in Surjection(Unfinished, Occupied) /\ f \in Injection(Unfinished, Occupied)
  BY <1>3, <1>4, <1>5, Zenon DEF Surjection, Injection, IsInjective
<1>7. Cardinality(Occupied) = Cardinality(Unfinished)
  BY <1>6, FiniteBooks, FS_Surjection, Zenon
<1>8. QED
  BY <1>7, Zenon DEF InFlightCount, Occupied

\* ProcessMsg accepts a request and enters it in the map.
LEMMA AcceptLocal ==
  ASSUME BookInv, NEW r \in Requests, ~crashed, ProcessMsg(r), Accept(r),
         ~(InFlightCount >= MaxInFlight)
  PROVE  Local(r) /\ SlotsCounted' /\ EntriesOwn' /\ EntriesUnfinished'
<1>1. /\ at[r] = "new" /\ at'[r] = "busy" /\ tx'[r] = "message" /\ msg[r].by = "async"
      /\ UNCHANGED <<msg, conc, result, registered, inflightTxs, slots, answers, crashed>>
      /\ \A q \in Requests \ {r} : tx'[q] = tx[q] /\ at'[q] = at[q]
      /\ inFlight' = [inFlight EXCEPT ![msg[r].id] = r]
  BY OneCourse, Zenon DEF Types, ProcessMsg, Accept, Go, conf, net, env
<1>2. tx[r] = "none" /\ answers[r] = <<>>
  BY <1>1, OneCourse, Zenon DEF Progress
<1>3. Local(r)
  <2>1. BookTypes'
    BY <1>1, OneCourse, Zenon DEF BookTypes
  <2>2. Course(r)'
    BY <1>1, <1>2, OneCourse, Zenon DEF Course
  <2>3. r \in Listed' <=> r \in Listed
    BY <1>1, <1>2, Zenon DEF Listed, Sending
  <2>4. QED
    BY <1>1, <2>1, <2>2, <2>3, Zenon DEF Local
<1>4. SlotsCounted'
  BY <1>1, <1>2, <1>3, SameSlots, Zenon DEF Sending
<1>5. inFlight \in [IDs -> Requests \cup {None}] /\ msg' = msg /\ msg[r].id \in IDs
  BY <1>1, OneCourse, Zenon DEF BookTypes
<1>6. EntriesOwn'
  <2>1. \A i \in IDs : (i = msg[r].id /\ inFlight'[i] = r) \/ inFlight'[i] = inFlight[i]
    BY <1>1, <1>5, Zenon
  <2>2. QED
    BY <1>1, <1>5, <2>1 DEF BookInv, EntriesOwn
<1>7. ASSUME DistinctIDs', NoPanic'
      PROVE  /\ \A q \in Requests : q \in Unfinished' <=> inFlight'[msg[q].id] = q
             /\ Cardinality(Unfinished') <= MaxInFlight
  <2>1. DistinctIDs /\ NoPanic
    BY <1>3, <1>5, <1>7, LocalList, Zenon DEF DistinctIDs
  <2>2. \A q \in Requests : q \in Unfinished <=> inFlight[msg[q].id] = q
    BY <2>1, Zenon DEF BookInv, EntriesUnfinished
  <2>3. r \in Unfinished' /\ r \notin Unfinished
    BY <1>1, <1>2, Zenon DEF Unfinished, Accepted, Open
  <2>4. \A q \in Requests \ {r} : msg[q].id \in IDs /\ msg[q].id # msg[r].id
    BY <2>1, OneCourse, Zenon DEF DistinctIDs
  <2>5. \A q \in Requests \ {r} : inFlight'[msg[q].id] = inFlight[msg[q].id]
    BY <1>1, <1>5, <2>4, Zenon
  <2>6. inFlight'[msg[r].id] = r
    BY <1>1, <1>5, Zenon
  <2>7. \A q \in Requests : q \in Unfinished' <=> q \in Unfinished \/ q = r
    BY <1>3, <2>3, LocalSets, Zenon
  <2>8. Unfinished' = Unfinished \cup {r}
    BY <2>7, Zenon DEF Unfinished
  <2>9. Cardinality(Unfinished') = Cardinality(Unfinished) + 1
    BY <2>3, <2>8, FiniteBooks, FS_AddElement, Zenon
  <2>10. Cardinality(Unfinished') <= MaxInFlight
    BY <2>1, <2>9, FiniteBooks, CountUnfinished, SubmissionAssumption
  <2>11. QED
    BY <2>2, <2>5, <2>6, <2>7, <2>10, Zenon
<1>8. EntriesUnfinished'
  BY <1>5, <1>7, Zenon DEF EntriesUnfinished
<1>9. QED
  BY <1>3, <1>4, <1>6, <1>8, Zenon

\* ProcessMsg refuses the request or accepts it.
LEMMA ProcessMsgLocal ==
  ASSUME BookInv, NEW r \in Requests, ~crashed, ProcessMsg(r)
  PROVE  Local(r) /\ SlotsCounted' /\ EntriesOwn' /\ EntriesUnfinished'
<1>1. Refuse(r) \/ (Accept(r) /\ ~(InFlightCount >= MaxInFlight))
  BY Zenon DEF ProcessMsg, DispatchMsg
<1>2. QED
  BY <1>1, RefuseLocal, AcceptLocal, Zenon

\* The network, and the blocked reply loop, touch no book.
LEMMA OutsideStep ==
  ASSUME BookInv, UNCHANGED <<conf, at, tx, result, registered, inFlight, inflightTxs, slots,
                              answers, crashed>>, IInv'
  PROVE  BookInv'
<1>1. UNCHANGED <<msg, conc, at, tx, result, registered, inFlight, inflightTxs, slots, answers,
                  crashed>>
  BY Zenon DEF conf
<1>2. BookTypes' /\ \A r \in Requests : Course(r)'
  BY <1>1 DEF BookInv, BookTypes, Course
<1>3. Sending' = Sending /\ Unfinished' = Unfinished
  BY <1>1, Zenon DEF Sending, Unfinished, Accepted, Open
<1>4. Listed' = Listed /\ NoPanic' = NoPanic /\ DistinctIDs' = DistinctIDs
  BY <1>1, <1>3 DEF Listed, NoPanic, DistinctIDs
<1>5. SlotsCounted' /\ EntriesOwn'
  BY <1>1, <1>3, Zenon DEF BookInv, SlotsCounted, EntriesOwn
<1>6. EntriesUnfinished'
  BY <1>1, <1>3, <1>4, Zenon DEF BookInv, EntriesUnfinished
<1>7. QED
  BY <1>1, <1>2, <1>4, <1>5, <1>6, Zenon DEF BookInv

\* Every step keeps the books.
LEMMA BookStep == BookInv /\ [Next]_vars => BookInv'
<1> SUFFICES ASSUME BookInv, [Next]_vars PROVE BookInv'
  BY Zenon
<1>1. IInv'
  BY InvStep, Zenon DEF BookInv
<1>2. CASE UNCHANGED vars \/ BlockReplies
  BY <1>1, <1>2, OutsideStep, Zenon DEF vars, BlockReplies, net, conf, env
<1>3. ASSUME NEW r \in Requests, Commit(r) PROVE BookInv'
  BY <1>1, <1>3, OutsideStep, Zenon DEF Commit, quiet, conf, env
<1>4. ASSUME NEW r \in Requests, ~crashed,
             ProcessMsg(r) \/ DispatchMsgSync(r) \/ Step(r) \/ ReceiptPanic(r)
      PROVE  BookInv'
  <2>1. Local(r) /\ SlotsCounted' /\ EntriesOwn' /\ EntriesUnfinished'
    BY <1>4, ProcessMsgLocal, DispatchMsgSyncLocal, WaitingLocal, OnMessageLocal,
       TakeSlotLocal, SendReturnedLocal, CancelInFlightLocal, SendLocal, AnsweringLocal,
       BroadcastLocal, ReplyLocal, ReceiptPanicLocal, Zenon DEF Step
  <2>2. QED
    BY <1>4, <2>1, LocalStep, Zenon
<1>5. QED
  BY <1>2, <1>3, <1>4, Zenon DEF Next

\* The invariant of the books holds in every behaviour.
THEOREM BooksKept == Spec => []BookInv
  BY BookInit, BookStep, PTL DEF Spec

\* Whatever the requests and the concurrency, a slot of the transaction
\* processor is taken by exactly the transactions inside of Send, never more
\* than SendConcurrency, each with its registration, and inflightTxs lists
\* exactly those that are being sent or wait for their slot or their reply.
THEOREM SlotsAreExact == Spec => []SlotsExact
<1>1. BookInv => SlotsExact
  <2> SUFFICES ASSUME BookInv PROVE SlotsExact
    BY Zenon
  <2>1. registered = {r \in Sending : tx[r] \in {"submit", "listen"}}
    <3>1. registered \subseteq Requests
      BY Zenon DEF BookInv, BookTypes
    <3>2. \A r \in Requests : r \in registered <=> tx[r] \in {"submit", "listen"}
      BY Zenon DEF BookInv, Course
    <3>3. QED
      BY <3>1, <3>2, Zenon DEF Sending
  <2>2. SlotsCounted /\ (NoPanic => inflightTxs = Listed)
    BY Zenon DEF BookInv
  <2>3. QED
    BY <2>1, <2>2, Zenon DEF SlotsExact, SlotsCounted, Listed, Sending
<1>2. QED
  BY <1>1, BooksKept, PTL

\* Whatever the requests, with distinct IDs and before any panic the map of
\* the direct handler holds exactly the requests whose Reply is not finished,
\* and these are never more than MaxInFlight.
THEOREM MapIsExact == Spec => []InFlightExact
<1>1. BookInv => InFlightExact
  <2> SUFFICES ASSUME BookInv, DistinctIDs, NoPanic
               PROVE  /\ {inFlight[i] : i \in IDs} \ {None} = Unfinished
                      /\ Cardinality(Unfinished) <= MaxInFlight
    BY Zenon DEF InFlightExact, Unfinished
  <2>1. /\ \A r \in Requests : r \in Unfinished <=> inFlight[msg[r].id] = r
        /\ Cardinality(Unfinished) <= MaxInFlight
        /\ \A i \in IDs : inFlight[i] # None => msg[inFlight[i]].id = i
        /\ inFlight \in [IDs -> Requests \cup {None}]
    BY Zenon DEF BookInv, EntriesUnfinished, EntriesOwn, BookTypes
  <2>2. \A r \in Requests : msg[r].id \in IDs
    BY OneCourse, Zenon
  <2>3. Unfinished \subseteq Requests
    BY Zenon DEF Unfinished
  <2>4. QED
    BY <2>1, <2>2, <2>3, SubmissionAssumption
<1>2. QED
  BY <1>1, BooksKept, PTL
=============================================================================
