----------------------------- MODULE KafkaBridge -----------------------------
(***************************************************************************)
(* The bridge from HTTP to Kafka: requests handed to the producer, with    *)
(* or without waiting for its delivery report (rest/async/kafkahandler.go),*)
(* the start and the shutdown of the bridge (kafka/common.go), and the     *)
(* goroutine of the consumer group (kafka/client.go).  What the consumer   *)
(* does with the replies is in ReceiptStore.                               *)
(***************************************************************************)
EXTENDS Naturals, FiniteSets

CONSTANTS
  Requests,   \* HTTP requests, each with one message
  IDs,        \* message IDs
  MaxCycles   \* bound: consumer groups that end or cannot be created

ASSUME BridgeAssumption == IsFiniteSet(Requests) /\ MaxCycles \in Nat

VARIABLES
  req,        \* the message ID of each request, and whether it waits for the ack
  at,         \* where the HTTP goroutine is
  taken,      \* the message whose report the request was answered with
  pendingMsgs, failedMsgs, successMsgs,  \* the maps of the handler
  woken,      \* requests that a Broadcast has woken from waitForSend
  producer,   \* the state of the producer
  buffered,   \* messages the producer has accepted and not reported
  topic,      \* messages that are on the topic
  errs, succs,\* delivery reports in the two channels
  loops,      \* the loops that are running
  start,      \* where Start is
  group,      \* where consumerGoRoutine is
  cg,         \* the consumer group: "nil", "open" or "closed"
  closed,     \* saramaKafkaConsumerGroupHandler.closed
  missed,     \* whether Close found no group while one was being created
  cycles      \* groups that ended or could not be created

handler == <<req, at, taken, pendingMsgs, failedMsgs, successMsgs, woken>>
sarama  == <<producer, buffered, topic, errs, succs>>
cons    == <<group, cg, closed, missed, cycles>>
vars    == <<handler, sarama, loops, start, cons>>

Reports == [IDs -> SUBSET Requests]  \* at most one entry for an ID

TypeOK ==
  /\ req \in [Requests -> [id : IDs, ack : BOOLEAN]]
  /\ at \in [Requests -> {"new", "input", "look", "wait", "ok", "failed", "panicked"}]
  /\ taken \in [Requests -> SUBSET Requests]
  /\ pendingMsgs \subseteq IDs /\ woken \subseteq Requests
  /\ failedMsgs \in Reports /\ successMsgs \in Reports
  /\ \A i \in IDs : Cardinality(failedMsgs[i]) <= 1 /\ Cardinality(successMsgs[i]) <= 1
  /\ producer \in {"nil", "open", "closing", "closed"}
  /\ buffered \subseteq Requests /\ topic \subseteq Requests
  /\ errs \subseteq Requests /\ succs \subseteq Requests
  /\ loops \subseteq {"errors", "successes", "messages", "consumerErrors"}
  /\ start \in {"connect", "consumer", "producer", "run", "start", "signal", "close",
                "call", "wait", "finished", "crashed"}
  /\ group \in {"none", "check", "create", "consume", "ended", "drain", "over"}
  /\ cg \in {"nil", "open", "closed"}
  /\ closed \in BOOLEAN /\ missed \in BOOLEAN /\ cycles \in 0..MaxCycles

Init ==
  /\ req \in [Requests -> [id : IDs, ack : BOOLEAN]]
  /\ at = [r \in Requests |-> "new"] /\ taken = [r \in Requests |-> {}]
  /\ pendingMsgs = {} /\ woken = {}
  /\ failedMsgs = [i \in IDs |-> {}] /\ successMsgs = [i \in IDs |-> {}]
  /\ producer = "nil" /\ buffered = {} /\ topic = {} /\ errs = {} /\ succs = {}
  /\ loops = {} /\ start = "connect" /\ group = "none" /\ cg = "nil"
  /\ closed = FALSE /\ missed = FALSE /\ cycles = 0

Alive == start # "crashed"

-----------------------------------------------------------------------------
(* dispatchMsg, waitForSend and the two loops of the producer.             *)

IsInitialized == start = "finished" \/ producer # "nil"

\* The HTTP server listens once the handler is initialized.
SetMsgPending(r) ==
  /\ at[r] = "new" /\ IsInitialized /\ at' = [at EXCEPT ![r] = "input"]
  /\ pendingMsgs' = IF req[r].ack THEN pendingMsgs \cup {req[r].id} ELSE pendingMsgs
  /\ UNCHANGED <<req, taken, failedMsgs, successMsgs, woken, sarama, loops, start, cons>>

\* The producer refuses messages while it closes; a send to its closed channel,
\* or to a producer that could not be created, panics in the HTTP handler.
SendToProducer(r) ==
  /\ at[r] = "input"
  /\ at' = [at EXCEPT ![r] = IF producer \in {"nil", "closed"} THEN "panicked"
                             ELSE IF req[r].ack THEN "look" ELSE "ok"]
  /\ buffered' = IF producer = "open" THEN buffered \cup {r} ELSE buffered
  /\ errs' = IF producer = "closing" THEN errs \cup {r} ELSE errs
  /\ UNCHANGED <<req, taken, pendingMsgs, failedMsgs, successMsgs, woken, producer,
                 topic, succs, loops, start, cons>>

\* A failure is looked for before a success; each entry is taken by one waiter.
WaitForSend(r) ==
  /\ at[r] = "look" \/ (at[r] = "wait" /\ r \in woken)
  /\ LET id == req[r].id IN
       \/ /\ failedMsgs[id] # {} /\ at' = [at EXCEPT ![r] = "failed"]
          /\ failedMsgs' = [failedMsgs EXCEPT ![id] = {}] /\ successMsgs' = successMsgs
          /\ taken' = [taken EXCEPT ![r] = failedMsgs[id]]
       \/ /\ failedMsgs[id] = {} /\ successMsgs[id] # {} /\ at' = [at EXCEPT ![r] = "ok"]
          /\ successMsgs' = [successMsgs EXCEPT ![id] = {}] /\ failedMsgs' = failedMsgs
          /\ taken' = [taken EXCEPT ![r] = successMsgs[id]]
       \/ /\ failedMsgs[id] = {} /\ successMsgs[id] = {} /\ at' = [at EXCEPT ![r] = "wait"]
          /\ UNCHANGED <<taken, failedMsgs, successMsgs>>
  /\ woken' = woken \ {r}
  /\ UNCHANGED <<req, pendingMsgs, sarama, loops, start, cons>>

\* A Signal instead of a Broadcast wakes one waiter, of whatever message.
WakeOne ==
  LET waiting == {r \in Requests : at[r] = "wait"}
  IN IF waiting = {} THEN woken' = woken ELSE \E r \in waiting : woken' = woken \cup {r}

Broadcast == woken' = woken \cup {r \in Requests : at[r] = "wait"}

\* A failed message is recorded with the sent ones.
ErrorAsSuccess(m) ==
  /\ "errors" \in loops /\ m \in errs /\ errs' = errs \ {m}
  /\ IF req[m].id \in pendingMsgs
     THEN /\ pendingMsgs' = pendingMsgs \ {req[m].id} /\ Broadcast
          /\ successMsgs' = [successMsgs EXCEPT ![req[m].id] = {m}]
     ELSE UNCHANGED <<pendingMsgs, successMsgs, woken>>
  /\ UNCHANGED <<req, at, taken, failedMsgs, producer, buffered, topic, succs, loops,
                 start, cons>>

\* Reports of messages nobody waits for are dropped.
ProducerErrorLoop(m) ==
  /\ "errors" \in loops /\ m \in errs /\ errs' = errs \ {m}
  /\ IF req[m].id \in pendingMsgs
     THEN /\ pendingMsgs' = pendingMsgs \ {req[m].id} /\ Broadcast
          /\ failedMsgs' = [failedMsgs EXCEPT ![req[m].id] = {m}]
     ELSE UNCHANGED <<pendingMsgs, failedMsgs, woken>>
  /\ UNCHANGED <<req, at, taken, successMsgs, producer, buffered, topic, succs, loops,
                 start, cons>>

\* The report is recorded as a success without a look at the pending messages.
SuccessUnchecked(m) ==
  /\ "successes" \in loops /\ m \in succs /\ succs' = succs \ {m} /\ Broadcast
  /\ pendingMsgs' = pendingMsgs \ {req[m].id}
  /\ successMsgs' = [successMsgs EXCEPT ![req[m].id] = {m}]
  /\ UNCHANGED <<req, at, taken, failedMsgs, producer, buffered, topic, errs, loops,
                 start, cons>>

ProducerSuccessLoop(m) ==
  /\ "successes" \in loops /\ m \in succs /\ succs' = succs \ {m}
  /\ IF req[m].id \in pendingMsgs
     THEN /\ pendingMsgs' = pendingMsgs \ {req[m].id} /\ Broadcast
          /\ successMsgs' = [successMsgs EXCEPT ![req[m].id] = {m}]
     ELSE UNCHANGED <<pendingMsgs, successMsgs, woken>>
  /\ UNCHANGED <<req, at, taken, failedMsgs, producer, buffered, topic, errs, loops,
                 start, cons>>

\* The producer's channels are closed and empty: the loop is done.
ProducerLoopDone ==
  /\ producer = "closed"
  /\ \/ "errors" \in loops /\ errs = {} /\ loops' = loops \ {"errors"}
     \/ "successes" \in loops /\ succs = {} /\ loops' = loops \ {"successes"}
  /\ UNCHANGED <<handler, sarama, start, cons>>

\* The Kafka library: a message is written and reported, or reported as failed
\* although it may have been written; a closing producer reports every message.
Deliver(m) ==
  /\ m \in buffered /\ buffered' = buffered \ {m}
  /\ \/ topic' = topic \cup {m} /\ succs' = succs \cup {m} /\ errs' = errs
     \/ topic' \in {topic, topic \cup {m}} /\ errs' = errs \cup {m} /\ succs' = succs
  /\ UNCHANGED <<handler, producer, loops, start, cons>>

ProducerClosed ==
  /\ producer = "closing" /\ buffered = {} /\ producer' = "closed"
  /\ UNCHANGED <<handler, buffered, topic, errs, succs, loops, start, cons>>

-----------------------------------------------------------------------------
(* Start, up to the end of the bridge.                                     *)

\* connect answers an error with nil, and the nil client is used.
Connect ==
  /\ start = "connect" /\ start' \in {"consumer", "crashed"}
  /\ UNCHANGED <<handler, sarama, loops, cons>>

CreateConsumer ==
  /\ start = "consumer" /\ start' = "producer" /\ group' = "check"
  /\ UNCHANGED <<handler, sarama, loops, cg, closed, missed, cycles>>

\* If it fails Start returns, and run marks the handler finished.
CreateProducer ==
  /\ start = "producer"
  /\ \/ start' = "run" /\ producer' = "open"
     \/ start' = "finished" /\ producer' = producer
  /\ UNCHANGED <<handler, buffered, topic, errs, succs, loops, cons>>

StartConsumer ==
  /\ start = "run" /\ start' = "start" /\ loops' = loops \cup {"messages", "consumerErrors"}
  /\ UNCHANGED <<handler, sarama, cons>>

StartProducer ==
  /\ start = "start" /\ start' = "signal" /\ loops' = loops \cup {"errors", "successes"}
  /\ UNCHANGED <<handler, sarama, cons>>

\* The consumer is not told that it is to end.
SignalledNotClosed ==
  /\ start = "signal" /\ start' = "close" /\ producer' = "closing" /\ closed' = closed
  /\ UNCHANGED <<handler, buffered, topic, errs, succs, loops, group, cg, missed, cycles>>

\* On a signal: AsyncClose of the producer, and Close of the consumer, which
\* looks at the group twice.
Signalled ==
  /\ start = "signal" /\ start' = "close" /\ producer' = "closing" /\ closed' = TRUE
  /\ UNCHANGED <<handler, buffered, topic, errs, succs, loops, group, cg, missed, cycles>>

CloseConsumer ==
  /\ \/ /\ start = "close" /\ start' = (IF cg = "nil" THEN "wait" ELSE "call")
        /\ missed' = (group = "create") /\ cg' = cg
     \/ /\ start = "call" /\ start' = (IF cg = "nil" THEN "crashed" ELSE "wait")
        /\ cg' = (IF cg = "nil" THEN cg ELSE "closed") /\ missed' = missed
  /\ UNCHANGED <<handler, sarama, loops, group, closed, cycles>>

Complete ==
  /\ start = "wait" /\ loops = {} /\ start' = "finished"
  /\ UNCHANGED <<handler, sarama, loops, cons>>

-----------------------------------------------------------------------------
(* consumerGoRoutine.                                                      *)

Again == cycles < MaxCycles /\ cycles' = cycles + 1

\* The loop condition; at its end both channels are closed, which ends their loops.
GroupCheck ==
  /\ group = "check"
  /\ IF closed THEN group' = "over" ELSE group' = "create"
  /\ UNCHANGED <<handler, sarama, loops, start, cg, closed, missed, cycles>>

GroupCreate ==
  /\ group = "create"
  /\ \/ group' = "consume" /\ cg' = "open" /\ cycles' = cycles
     \/ Again /\ group' = "check" /\ cg' = cg
  /\ UNCHANGED <<handler, sarama, loops, start, closed, missed>>

\* Consume returns when the group is closed, and at every rebalance or error.
ConsumeClosed ==
  /\ group = "consume" /\ cg = "closed" /\ group' = "ended"
  /\ UNCHANGED <<handler, sarama, loops, start, cg, closed, missed, cycles>>

Rebalance ==
  /\ group = "consume" /\ cg = "open" /\ Again /\ group' = "ended"
  /\ UNCHANGED <<handler, sarama, loops, start, cg, closed, missed>>

\* The group is closed here also when Close is doing it.
GroupEnded ==
  /\ group = "ended" /\ group' = "drain" /\ cg' = IF closed THEN cg ELSE "closed"
  /\ UNCHANGED <<handler, sarama, loops, start, closed, missed, cycles>>

\* The goroutine that passes the errors on ends when the group is closed.
GroupDrained ==
  /\ group = "drain" /\ cg = "closed" /\ group' = "check" /\ cg' = "nil"
  /\ UNCHANGED <<handler, sarama, loops, start, closed, missed, cycles>>

ConsumerLoopDone ==
  /\ group = "over" /\ loops \cap {"messages", "consumerErrors"} # {}
  /\ loops' = loops \ {"messages", "consumerErrors"}
  /\ UNCHANGED <<handler, sarama, start, cons>>

Requesting == \E r \in Requests : SetMsgPending(r)

Steps ==
  \/ \E r \in Requests : SendToProducer(r) \/ WaitForSend(r) \/ Deliver(r)
                           \/ ProducerErrorLoop(r) \/ ProducerSuccessLoop(r)
  \/ ProducerLoopDone \/ ProducerClosed \/ Connect \/ CreateConsumer \/ CreateProducer
  \/ StartConsumer \/ StartProducer \/ CloseConsumer \/ Complete
  \/ GroupCheck \/ GroupCreate \/ ConsumeClosed \/ GroupEnded \/ GroupDrained
  \/ ConsumerLoopDone

Next == Alive /\ (Steps \/ Requesting \/ Rebalance \/ Signalled)

Spec == Init /\ [][Next]_vars

\* Goroutines and the Kafka library keep running; nobody has to send requests or
\* a signal, and a session of the group may last for ever.
LiveSpec == Spec /\ WF_vars(Alive /\ Steps)

-----------------------------------------------------------------------------
(* Properties.                                                             *)

\* A request answered with an ack of Kafka is answered with the report of a
\* message of its ID that is on the topic: of its own, unless the client has
\* used the ID twice.
AckNamesDelivered ==
  \A r \in Requests : at[r] = "ok" /\ req[r].ack =>
    \E m \in topic : taken[r] = {m} /\ req[m].id = req[r].id

\* An entry of the maps of reports is there only as long as a request of that
\* message ID is on its way to take it: the maps do not fill up.
EntriesAwaited ==
  \A i \in IDs : failedMsgs[i] \cup successMsgs[i] # {} =>
    \E r \in Requests : /\ req[r].ack /\ req[r].id = i
                         /\ at[r] \in {"input", "look", "wait", "panicked"}

\* Every request is answered, whatever the order of its registration, of the
\* report and of its wait, and also when the producer is closed meanwhile, if no
\* other request has its message ID.
AckReturns ==
  \A r \in Requests :
    at[r] = "input" /\ (\A o \in Requests \ {r} : req[o].id # req[r].id)
      ~> at[r] \in {"ok", "failed", "panicked"} \/ ~Alive

\* After a signal Start returns, with all loops of the producer and the consumer
\* ended, unless Close came while the consumer group was being created.
ShutdownCompletes ==
  start = "close" ~> \/ start = "finished" /\ loops = {} /\ group = "over"
                     \/ missed \/ ~Alive
=============================================================================
