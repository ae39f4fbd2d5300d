----------------------------- MODULE Submission -----------------------------
(***************************************************************************)
(* The submission of transactions, asynchronous through the direct handler *)
(* (rest/async) and synchronous (rest/sync), by way of the transaction     *)
(* processor (tx, fabric/tx.go) and the handler that submits a transaction *)
(* and listens for its commit (fabric/client/invokehandler.go).            *)
(*                                                                         *)
(* Each request has its HTTP goroutine, at[r] = "busy" while it is in      *)
(* OnMessage, and its transaction, tx[r].  With SendConcurrency 1 the HTTP *)
(* goroutine itself sends the transaction and replies; otherwise it only   *)
(* waits for a slot and another goroutine does the rest.                   *)
(***************************************************************************)
EXTENDS Naturals, Sequences, FiniteSets

CONSTANTS
  Requests,     \* requests of clients
  IDs,          \* message IDs
  MaxInFlight,  \* conf.MaxInFlight
  Concurrency,  \* the values of conf.SendConcurrency to consider
  None          \* no request

ASSUME SubmissionAssumption ==
  /\ IsFiniteSet(Requests) /\ None \notin Requests
  /\ MaxInFlight \in Nat \ {0} /\ Concurrency \subseteq Nat \ {0}

VARIABLES
  msg,        \* what each client sends: dispatcher, message type, ID
  conc,       \* conf.SendConcurrency
  at,         \* where the HTTP goroutine is
  tx,         \* where the processing of the message is
  result,     \* what Send returned
  pending,    \* requests whose transaction is with the orderer
  ledger,     \* the validity of the transactions that are on the ledger
  registered, \* requests with a registration for the status of their transaction
  inFlight,   \* directHandler.inFlight
  mutex,      \* who holds inFlightMutex across steps
  inflightTxs,\* txProcessor.inflightTxs
  slots,      \* length of concurrencySlots
  answers,    \* the replies given to each request
  done,       \* syncResponder.done
  wsBlocked,  \* whether the WebSocket reply loop is blocked for good
  crashed     \* whether a panic has ended the process

net  == <<result, pending, ledger, registered>>
conf == <<msg, conc>>
env  == <<wsBlocked, crashed>>
vars == <<conf, at, tx, net, inFlight, mutex, inflightTxs, slots, answers, done, env>>

Msgs == [by : {"async"}, type : {"send", "deploy", "other"}, id : IDs]
          \cup [by : {"sync"}, type : {"send"}, id : IDs]

TypeOK ==
  /\ msg \in [Requests -> Msgs] /\ conc \in Concurrency
  /\ at \in [Requests -> {"new", "refused", "busy", "check", "towait", "wait",
                          "returned", "panicked"}]
  /\ tx \in [Requests -> {"none", "message", "slot", "register", "submit", "listen",
                          "sent", "reply", "store", "notify", "wake", "cancel", "over"}]
  /\ result \in [Requests -> {"none", "ok", "err"}]
  /\ pending \subseteq Requests /\ ledger \in [Requests -> {"none", "valid", "invalid"}]
  /\ registered \subseteq Requests /\ inFlight \in [IDs -> Requests \cup {None}]
  /\ mutex \in Requests \cup {None} /\ inflightTxs \subseteq Requests
  /\ slots \in Nat /\ answers \in [Requests -> Seq({"success", "error"})]
  /\ done \in [Requests -> BOOLEAN] /\ wsBlocked \in BOOLEAN /\ crashed \in BOOLEAN

Init ==
  /\ msg \in [Requests -> Msgs] /\ conc \in Concurrency
  /\ at = [r \in Requests |-> "new"] /\ tx = [r \in Requests |-> "none"]
  /\ result = [r \in Requests |-> "none"]
  /\ pending = {} /\ ledger = [r \in Requests |-> "none"]
  /\ registered = {} /\ inFlight = [i \in IDs |-> None] /\ mutex = None
  /\ inflightTxs = {} /\ slots = 0 /\ answers = [r \in Requests |-> <<>>]
  /\ done = [r \in Requests |-> FALSE] /\ wsBlocked = FALSE /\ crashed = FALSE

Go(r, s) == tx' = [tx EXCEPT ![r] = s]

\* The HTTP goroutine once OnMessage has returned to it.
BackFrom(r) ==
  [at EXCEPT ![r] = IF @ # "busy" THEN @
                    ELSE IF msg[r].by = "sync" THEN "check" ELSE "returned"]

-----------------------------------------------------------------------------
(* Dispatching.                                                            *)

\* The message is taken into the map, under its ID, and handed to OnMessage.
Accept(r) ==
  /\ inFlight' = [inFlight EXCEPT ![msg[r].id] = r]
  /\ at' = [at EXCEPT ![r] = "busy"] /\ Go(r, "message")

Refuse(r) == at' = [at EXCEPT ![r] = "refused"] /\ UNCHANGED <<tx, inFlight>>

InFlightCount == Cardinality({i \in IDs : inFlight[i] # None})

\* A variant that lets one more message in.
DispatchOneMore(r) ==
  /\ mutex = None
  /\ IF InFlightCount > MaxInFlight THEN Refuse(r) ELSE Accept(r)

\* dispatchMsg of the direct handler, up to its call of OnMessage.
DispatchMsg(r) ==
  /\ mutex = None
  /\ IF InFlightCount >= MaxInFlight THEN Refuse(r) ELSE Accept(r)

\* processMsg of the asynchronous dispatcher: the type of the message first.
ProcessMsg(r) ==
  /\ at[r] = "new" /\ msg[r].by = "async"
  /\ IF msg[r].type \in {"send", "deploy"} THEN DispatchMsg(r) ELSE Refuse(r)
  /\ UNCHANGED <<conf, net, mutex, inflightTxs, slots, answers, done, env>>

\* DispatchMsgSync, up to its call of OnMessage.
DispatchMsgSync(r) ==
  /\ at[r] = "new" /\ msg[r].by = "sync"
  /\ at' = [at EXCEPT ![r] = "busy"] /\ Go(r, "message")
  /\ UNCHANGED <<conf, net, inFlight, mutex, inflightTxs, slots, answers, done, env>>

\* The wait of DispatchMsgSync.  done is read without the writer holding the
\* lock, so the reply may come between the test and the Wait.
TestDone(r) ==
  /\ at[r] = "check"
  /\ at' = [at EXCEPT ![r] = IF done[r] THEN "returned" ELSE "towait"]
  /\ UNCHANGED <<conf, tx, net, inFlight, mutex, inflightTxs, slots, answers, done, env>>

Wait(r) ==
  /\ at[r] = "towait" /\ at' = [at EXCEPT ![r] = "wait"]
  /\ UNCHANGED <<conf, tx, net, inFlight, mutex, inflightTxs, slots, answers, done, env>>

-----------------------------------------------------------------------------
(* The transaction processor.                                              *)

\* A variant that has no reply for a message of an unknown type.
UnknownTypeIgnored(r) ==
  /\ tx[r] = "message"
  /\ IF msg[r].type = "send"
     THEN /\ inflightTxs' = inflightTxs \cup {r}
          /\ Go(r, IF conc > 1 THEN "slot" ELSE "register") /\ UNCHANGED at
     ELSE Go(r, "over") /\ at' = BackFrom(r) /\ UNCHANGED inflightTxs
  /\ UNCHANGED <<conf, net, inFlight, mutex, slots, answers, done, env>>

\* OnMessage and OnSendTransactionMessage, as far as the send.
OnMessage(r) ==
  /\ tx[r] = "message"
  /\ IF msg[r].type = "send"
     THEN /\ inflightTxs' = inflightTxs \cup {r}
          /\ Go(r, IF conc > 1 THEN "slot" ELSE "register")
          /\ UNCHANGED result
     ELSE /\ Go(r, "reply") /\ result' = [result EXCEPT ![r] = "err"]
          /\ UNCHANGED inflightTxs
  /\ UNCHANGED <<conf, at, pending, ledger, registered, inFlight, mutex,
                 slots, answers, done, env>>

\* sendTransactionCommon gets a slot, starts the goroutine and returns.
TakeSlot(r) ==
  /\ tx[r] = "slot" /\ slots < conc
  /\ slots' = slots + 1 /\ Go(r, "register") /\ at' = BackFrom(r)
  /\ UNCHANGED <<conf, net, inFlight, mutex, inflightTxs, answers, done, env>>

ReturnSlot == slots' = IF conc > 1 THEN slots - 1 ELSE slots

\* A variant that keeps the slot when the send has failed.
SlotKeptOnError(r) ==
  /\ tx[r] = "sent" /\ Go(r, "reply")
  /\ IF result[r] = "err" THEN UNCHANGED slots ELSE ReturnSlot
  /\ inflightTxs' = IF result[r] = "err" THEN inflightTxs \ {r} ELSE inflightTxs
  /\ UNCHANGED <<conf, at, net, inFlight, mutex, answers, done, env>>

\* sendAndTrackMining when Send has returned: the slot goes back first, and a
\* failed transaction leaves the list before the reply.
SendReturned(r) ==
  /\ tx[r] = "sent" /\ Go(r, "reply") /\ ReturnSlot
  /\ inflightTxs' = IF result[r] = "err" THEN inflightTxs \ {r} ELSE inflightTxs
  /\ UNCHANGED <<conf, at, net, inFlight, mutex, answers, done, env>>

\* A successful one leaves it after the reply, at the end of processCompletion.
CancelInFlight(r) ==
  /\ tx[r] = "cancel" /\ Go(r, "over") /\ at' = BackFrom(r)
  /\ inflightTxs' = inflightTxs \ {r}
  /\ UNCHANGED <<conf, net, inFlight, mutex, slots, answers, done, env>>

-----------------------------------------------------------------------------
(* TxSubmitAndListenHandler, run by the SDK inside of Send.                *)

\* The handler ends, and Send returns to sendAndTrackMining.
Outcome(r, res) == Go(r, "sent") /\ result' = [result EXCEPT ![r] = res]

quiet == <<conf, at, inFlight, mutex, inflightTxs, slots, answers, done, env>>

RegisterTxStatus(r) ==
  /\ tx[r] = "register"
  /\ \/ registered' = registered \cup {r} /\ Go(r, "submit") /\ UNCHANGED result
     \/ Outcome(r, "err") /\ UNCHANGED registered
  /\ UNCHANGED <<pending, ledger, quiet>>

\* A send that fails may have reached the orderer all the same.
CreateAndSend(r) ==
  /\ tx[r] = "submit"
  /\ \/ pending' = pending \cup {r} /\ Go(r, "listen") /\ UNCHANGED <<result, registered>>
     \/ /\ pending' \in {pending, pending \cup {r}}
        /\ Outcome(r, "err") /\ registered' = registered \ {r}
  /\ UNCHANGED <<ledger, quiet>>

\* The network puts a transaction on the ledger.
Commit(r) ==
  /\ r \in pending /\ pending' = pending \ {r}
  /\ \E v \in {"valid", "invalid"} : ledger' = [ledger EXCEPT ![r] = v]
  /\ UNCHANGED <<tx, result, registered, quiet>>

\* A variant that takes any status event for success.
ListenAnyStatus(r) ==
  /\ tx[r] = "listen" /\ registered' = registered \ {r}
  /\ \/ ledger[r] # "none" /\ Outcome(r, "ok")
     \/ Outcome(r, "err")
  /\ UNCHANGED <<pending, ledger, quiet>>

\* The select: the status of the transaction, or a closed channel or the timeout.  The
\* deferred Unregister follows in every case.
Listen(r) ==
  /\ tx[r] = "listen" /\ registered' = registered \ {r}
  /\ \/ ledger[r] = "valid" /\ Outcome(r, "ok")
     \/ Outcome(r, "err")
  /\ UNCHANGED <<pending, ledger, quiet>>

-----------------------------------------------------------------------------
(* Replies.                                                                *)

Answer(r) ==
  answers' = [answers EXCEPT ![r] =
                Append(@, IF result[r] = "ok" THEN "success" ELSE "error")]

\* Where the processing of the message goes on after the reply.
AfterReply(r) ==
  IF result[r] = "ok" THEN Go(r, "cancel") /\ UNCHANGED at
                      ELSE Go(r, "over") /\ at' = BackFrom(r)

\* A variant in which an error reply does not set done.
DoneOnReceiptOnly(r) ==
  /\ tx[r] = "reply" /\ msg[r].by = "sync"
  /\ Answer(r) /\ done' = [done EXCEPT ![r] = result[r] = "ok"] /\ Go(r, "wake")
  /\ UNCHANGED <<conf, at, net, inFlight, mutex, inflightTxs, slots, env>>

\* ReplyWithReceipt and ReplyWithError of the synchronous responder: the
\* response, then done, then a Broadcast that wakes the goroutine if it waits.
SyncReply(r) ==
  /\ tx[r] = "reply" /\ msg[r].by = "sync"
  /\ Answer(r) /\ done' = [done EXCEPT ![r] = TRUE] /\ Go(r, "wake")
  /\ UNCHANGED <<conf, at, net, inFlight, mutex, inflightTxs, slots, env>>

Broadcast(r) ==
  /\ tx[r] = "wake"
  /\ IF result[r] = "ok" THEN Go(r, "cancel") ELSE Go(r, "over")
  /\ at' = [at EXCEPT ![r] = IF @ = "wait" THEN "check"
                             ELSE IF result[r] = "ok" THEN @ ELSE BackFrom(r)[r]]
  /\ UNCHANGED <<conf, net, inFlight, mutex, inflightTxs, slots, answers, done, env>>

\* Reply of the asynchronous context locks the map until the receipt has been
\* stored and passed on to the WebSocket clients.
LockForReply(r) ==
  /\ tx[r] = "reply" /\ msg[r].by = "async" /\ mutex = None
  /\ mutex' = r /\ Go(r, "store")
  /\ UNCHANGED <<conf, at, net, inFlight, inflightTxs, slots, answers, done, env>>

StoreReceipt(r) ==
  /\ tx[r] = "store" /\ Answer(r) /\ Go(r, "notify")
  /\ UNCHANGED <<conf, at, net, inFlight, mutex, inflightTxs, slots, done, env>>

Reply(r) ==
  /\ tx[r] = "notify" /\ ~wsBlocked /\ mutex' = None /\ AfterReply(r)
  /\ inFlight' = [inFlight EXCEPT ![msg[r].id] = None]
  /\ UNCHANGED <<conf, net, inflightTxs, slots, answers, done, env>>

\* writeReceipt panics when it could not store the receipt in time.  net/http
\* recovers the panic of an HTTP goroutine, whose deferred Unlock has run; in
\* the goroutine of sendTransactionCommon it ends the process.
ReceiptPanic(r) ==
  /\ tx[r] = "store" /\ mutex' = None /\ Go(r, "over")
  /\ IF at[r] = "busy" THEN at' = [at EXCEPT ![r] = "panicked"] /\ UNCHANGED crashed
                       ELSE crashed' = TRUE /\ UNCHANGED at
  /\ UNCHANGED <<conf, net, inFlight, inflightTxs, slots, answers, done, wsBlocked>>

\* The reply loop of the WebSocket server waits for a closed connection.
BlockReplies ==
  /\ ~wsBlocked /\ wsBlocked' = TRUE
  /\ UNCHANGED <<conf, at, tx, net, inFlight, mutex, inflightTxs, slots, answers,
                 done, crashed>>

-----------------------------------------------------------------------------
Step(r) ==
  \/ TestDone(r) \/ Wait(r) \/ OnMessage(r) \/ TakeSlot(r) \/ SendReturned(r)
  \/ CancelInFlight(r) \/ RegisterTxStatus(r) \/ CreateAndSend(r) \/ Listen(r)
  \/ SyncReply(r) \/ Broadcast(r) \/ LockForReply(r) \/ StoreReceipt(r) \/ Reply(r)

Next ==
  /\ ~crashed
  /\ \/ \E r \in Requests : \/ ProcessMsg(r) \/ DispatchMsgSync(r) \/ Step(r)
                            \/ Commit(r) \/ ReceiptPanic(r)
     \/ BlockReplies

Spec == Init /\ [][Next]_vars

\* Every goroutine that can go on does (the timeout ends the wait for a commit);
\* a mutex and a slot that become free again and again are granted in the end,
\* since Go's mutexes and channels serve their waiters in order.
Fairness ==
  \A r \in Requests : /\ WF_vars(~crashed /\ Step(r))
                      /\ SF_vars(~crashed /\ LockForReply(r))
                      /\ SF_vars(~crashed /\ TakeSlot(r))

LiveSpec == Spec /\ Fairness

-----------------------------------------------------------------------------
Accepted(r) == at[r] \notin {"new", "refused"}
Open(r)     == Accepted(r) /\ answers[r] = <<>>
DistinctIDs == \A r, q \in Requests : r # q => msg[r].id # msg[q].id
NoPanic     == ~crashed /\ \A r \in Requests : at[r] # "panicked"

\* The promise of RequestReply: no request is answered twice, or after it was
\* refused, and success is reported only for a valid transaction on the ledger.
StatusOf(r) ==
  IF at[r] \in {"new", "refused"} THEN at[r]
  ELSE IF answers[r] = <<>> THEN "accepted"
  ELSE IF Len(answers[r]) = 1 THEN answers[r][1] ELSE "answered twice"

Promise == INSTANCE RequestReply WITH
  status    <- [r \in Requests |-> StatusOf(r)],
  committed <- {r \in Requests : ledger[r] = "valid"}

ImplementsPromise == Promise!Spec

\* With distinct IDs, and until a receipt could not be stored, the map of the
\* direct handler holds exactly the asynchronous requests whose reply is not
\* finished, so no more than MaxInFlight of them are ever unanswered.
InFlightExact ==
  DistinctIDs /\ NoPanic =>
    LET unfinished == {r \in Requests : msg[r].by = "async" /\ Accepted(r)
                                        /\ (Open(r) \/ tx[r] = "notify")}
    IN  /\ {inFlight[i] : i \in IDs} \ {None} = unfinished
        /\ Cardinality(unfinished) <= MaxInFlight

\* A slot is taken exactly by the transactions that are being sent, and every
\* other transaction in the list waits for a slot or for its reply: no slot is
\* lost on an error path, and no transaction stays listed after its reply.
SlotsExact ==
  LET sending == {r \in Requests : tx[r] \in {"register", "submit", "listen", "sent"}}
  IN  /\ slots = IF conc > 1 THEN Cardinality(sending) ELSE 0
      /\ slots <= conc
      /\ registered = {r \in sending : tx[r] \in {"submit", "listen"}}
      /\ NoPanic => inflightTxs = {r \in Requests :
           \/ r \in sending \/ tx[r] \in {"slot", "cancel"}
           \/ result[r] = "ok" /\ tx[r] \in {"reply", "store", "notify", "wake"}}

\* "We must always send a reply": every accepted request is answered, unless a
\* receipt could not be stored or the WebSocket replies are blocked.
AlwaysAnswered ==
  \A r \in Requests : Open(r) ~> (answers[r] # <<>> \/ wsBlocked \/ ~NoPanic)

\* With SendConcurrency 1 the reply of a synchronous request has been given
\* before its goroutine tests done, so the goroutine always returns.
SyncReturns ==
  \A r \in Requests :
    (at[r] = "busy" /\ msg[r].by = "sync" /\ conc = 1)
      ~> at[r] = "returned"
=============================================================================
