------------------------- MODULE KafkaBridgeProofs -------------------------
(***************************************************************************)
(* What the Kafka bridge tells its HTTP clients, for any number of         *)
(* requests and message IDs, repeated ones included.                       *)
(***************************************************************************)
EXTENDS KafkaBridge, FiniteSetTheorems, TLAPS

Single(S) == S = {} \/ \E m \in Requests : S = {m}

Types ==
  /\ req \in [Requests -> [id : IDs, ack : BOOLEAN]]
  /\ at \in [Requests -> {"new", "input", "look", "wait", "ok", "failed", "panicked"}]
  /\ taken \in [Requests -> SUBSET Requests]
  /\ pendingMsgs \subseteq IDs /\ failedMsgs \in Reports /\ successMsgs \in Reports
  /\ topic \subseteq Requests /\ succs \subseteq Requests /\ errs \subseteq Requests
  /\ buffered \subseteq Requests

\* A success is reported only for a message that is on the topic, and recorded
\* under the ID of that message, one for an ID.
ReportsTrue ==
  /\ succs \subseteq topic
  /\ \A i \in IDs : /\ Single(successMsgs[i])
                    /\ \A m \in successMsgs[i] : m \in topic /\ req[m].id = i

\* The requests with an ID that can still take an entry of that ID, and the
\* entries there are or may come: one in each of the three maps.
Awaiting(i) ==
  {r \in Requests : /\ req[r].ack /\ req[r].id = i
                    /\ at[r] \in {"input", "look", "wait", "panicked"}}

Entries(i) ==
  (IF i \in pendingMsgs THEN {"pending"} ELSE {})
    \cup (IF failedMsgs[i] # {} THEN {"failed"} ELSE {})
    \cup (IF successMsgs[i] # {} THEN {"success"} ELSE {})

\* No more entries than requests that take one each.
EnoughWaiters == \A i \in IDs : Cardinality(Entries(i)) <= Cardinality(Awaiting(i))

\* Only requests that want the ack come to waitForSend.
OnlyAcksWait == \A r \in Requests : at[r] \in {"look", "wait"} => req[r].ack

IInv == Types /\ ReportsTrue /\ OnlyAcksWait /\ AckNamesDelivered /\ EnoughWaiters

-----------------------------------------------------------------------------
(* Counting.                                                               *)

\* The entries and the waiters of an ID are finitely many.
LEMMA FiniteCounts ==
  ASSUME NEW i
  PROVE  /\ IsFiniteSet(Entries(i)) /\ Cardinality(Entries(i)) \in Nat
         /\ IsFiniteSet(Awaiting(i)) /\ Cardinality(Awaiting(i)) \in Nat
<1>1. IsFiniteSet(Awaiting(i))
  <2>1. Awaiting(i) \in SUBSET Requests
    BY Zenon DEF Awaiting
  <2>2. QED
    BY <2>1, FS_Subset, BridgeAssumption, Zenon
<1>2. IsFiniteSet(Entries(i))
  <2>1. IsFiniteSet({"pending", "failed", "success"})
    <3>1. IsFiniteSet({"pending"})
      BY FS_Singleton, Zenon
    <3>2. IsFiniteSet({"pending"} \cup {"failed"})
      BY <3>1, FS_AddElement, Zenon
    <3>3. IsFiniteSet(({"pending"} \cup {"failed"}) \cup {"success"})
      BY <3>2, FS_AddElement, Zenon
    <3>4. {"pending", "failed", "success"} = ({"pending"} \cup {"failed"}) \cup {"success"}
      BY Zenon
    <3>5. QED
      BY <3>3, <3>4, Zenon
  <2>2. Entries(i) \in SUBSET {"pending", "failed", "success"}
    BY Zenon DEF Entries
  <2>3. QED
    BY <2>1, <2>2, FS_Subset, Zenon
<1>3. QED
  BY <1>1, <1>2, FS_CardinalityType, Zenon

\* One more request, and no more than one more entry.
LEMMA OneMore ==
  ASSUME NEW S, NEW T, NEW A, NEW x, NEW r, IsFiniteSet(S), IsFiniteSet(A),
         Cardinality(S) <= Cardinality(A), r \notin A, T \subseteq S \cup {x}
  PROVE  Cardinality(T) <= Cardinality(A \cup {r})
<1>1. IsFiniteSet(S \cup {x}) /\ Cardinality(S \cup {x}) \in {Cardinality(S), Cardinality(S) + 1}
  BY FS_AddElement, Zenon
<1>2. Cardinality(A \cup {r}) = Cardinality(A) + 1
  BY FS_AddElement, Zenon
<1>3. Cardinality(T) <= Cardinality(S \cup {x}) /\ IsFiniteSet(T)
  BY <1>1, FS_Subset, Zenon
<1>4. Cardinality(T) \in Nat /\ Cardinality(S) \in Nat /\ Cardinality(A) \in Nat
  BY <1>3, FS_CardinalityType, Zenon
<1>5. QED
  BY <1>1, <1>2, <1>3, <1>4

\* One request and one entry less.
LEMMA OneLess ==
  ASSUME NEW S, NEW A, NEW x \in S, NEW r \in A, IsFiniteSet(S), IsFiniteSet(A),
         Cardinality(S) <= Cardinality(A)
  PROVE  Cardinality(S \ {x}) <= Cardinality(A \ {r})
<1>1. Cardinality(S \ {x}) = Cardinality(S) - 1 /\ Cardinality(A \ {r}) = Cardinality(A) - 1
  BY FS_RemoveElement, Zenon
<1>2. Cardinality(S) \in Nat /\ Cardinality(A) \in Nat
  BY FS_CardinalityType, Zenon
<1>3. QED
  BY <1>1, <1>2

\* An entry moves from one map to another, and may replace one there.
LEMMA Moved ==
  ASSUME NEW S, NEW x \in S, NEW y, IsFiniteSet(S)
  PROVE  Cardinality((S \ {x}) \cup {y}) <= Cardinality(S)
<1>1. IsFiniteSet(S \ {x}) /\ Cardinality(S \ {x}) = Cardinality(S) - 1
  BY FS_RemoveElement, Zenon
<1>2. Cardinality((S \ {x}) \cup {y}) \in {Cardinality(S) - 1, Cardinality(S)}
  BY <1>1, FS_AddElement
<1>3. Cardinality(S) \in Nat
  BY FS_CardinalityType, Zenon
<1>4. QED
  BY <1>2, <1>3

-----------------------------------------------------------------------------
(* The handlers.                                                           *)

\* Before the first request.
LEMMA InvInit == Init => IInv
<1> SUFFICES ASSUME Init PROVE IInv
  BY Zenon
<1>1. Types /\ ReportsTrue /\ OnlyAcksWait /\ AckNamesDelivered
  BY Zenon DEF Init, Types, Reports, ReportsTrue, Single, OnlyAcksWait, AckNamesDelivered
<1>2. ASSUME NEW i \in IDs PROVE Cardinality(Entries(i)) <= Cardinality(Awaiting(i))
  <2>1. Entries(i) = {}
    BY Zenon DEF Init, Entries
  <2>2. QED
    BY <2>1, FiniteCounts, FS_EmptySet
<1>3. QED
  BY <1>1, <1>2, Zenon DEF IInv, EnoughWaiters

\* Nothing that the invariant speaks of is touched.
LEMMA Frame ==
  ASSUME IInv, UNCHANGED <<handler, buffered, topic, errs, succs>>
  PROVE  IInv'
<1>1. Types' /\ ReportsTrue' /\ OnlyAcksWait' /\ AckNamesDelivered'
  BY DEF IInv, handler, Types, Reports, ReportsTrue, Single, OnlyAcksWait, AckNamesDelivered
<1>2. \A i \in IDs : Entries(i)' = Entries(i) /\ Awaiting(i)' = Awaiting(i)
  BY Zenon DEF handler, Entries, Awaiting
<1>3. QED
  BY <1>1, <1>2, Zenon DEF IInv, EnoughWaiters

\* setMsgPending enters the request in pendingMsgs.
LEMMA SetMsgPendingStep ==
  ASSUME IInv, NEW r \in Requests, SetMsgPending(r)
  PROVE  IInv'
<1>1. /\ at[r] = "new" /\ at' = [at EXCEPT ![r] = "input"]
      /\ UNCHANGED <<req, taken, failedMsgs, successMsgs, buffered, topic, errs, succs>>
      /\ pendingMsgs' = IF req[r].ack THEN pendingMsgs \cup {req[r].id} ELSE pendingMsgs
  BY Zenon DEF SetMsgPending, sarama
<1>2. Types'
  BY <1>1, Zenon DEF IInv, Types, Reports
<1>3. ReportsTrue'
  BY <1>1, Zenon DEF IInv, ReportsTrue, Single
<1>4. OnlyAcksWait' /\ AckNamesDelivered'
  BY <1>1 DEF IInv, Types, OnlyAcksWait, AckNamesDelivered
<1>5. ASSUME NEW i \in IDs PROVE (Cardinality(Entries(i)) <= Cardinality(Awaiting(i)))'
  <2>1. Cardinality(Entries(i)) <= Cardinality(Awaiting(i))
    BY Zenon DEF IInv, EnoughWaiters
  <2>2. CASE req[r].ack /\ req[r].id = i
    <3>1. Awaiting(i)' = Awaiting(i) \cup {r} /\ r \notin Awaiting(i)
      BY <1>1, <2>2 DEF IInv, Types, Awaiting
    <3>2. Entries(i)' \subseteq Entries(i) \cup {"pending"}
      BY <1>1, Zenon DEF Entries
    <3>3. QED
      BY <2>1, <3>1, <3>2, FiniteCounts, OneMore, Zenon
  <2>3. CASE ~(req[r].ack /\ req[r].id = i)
    <3>1. Awaiting(i)' = Awaiting(i)
      BY <1>1, <2>3, Zenon DEF IInv, Types, Awaiting
    <3>2. Entries(i)' = Entries(i)
      BY <1>1, <2>3, Zenon DEF Entries
    <3>3. QED
      BY <2>1, <3>1, <3>2, Zenon
  <2>4. QED
    BY <2>2, <2>3, Zenon
<1>6. QED
  BY <1>1, <1>2, <1>3, <1>4, <1>5, Zenon DEF IInv, EnoughWaiters

\* The message goes to the input channel of the producer.
LEMMA SendToProducerStep ==
  ASSUME IInv, NEW r \in Requests, SendToProducer(r)
  PROVE  IInv'
<1>1. /\ at[r] = "input"
      /\ UNCHANGED <<req, taken, pendingMsgs, failedMsgs, successMsgs, topic, succs>>
      /\ buffered' \in {buffered, buffered \cup {r}} /\ errs' \in {errs, errs \cup {r}}
  BY Zenon DEF SendToProducer
<1>2. PICK a \in {"panicked", "look", "ok"} :
        /\ at' = [at EXCEPT ![r] = a]
        /\ (a = "ok" => ~req[r].ack) /\ (a = "look" => req[r].ack)
  BY Zenon DEF SendToProducer
<1>3. Types'
  BY <1>1, <1>2, Zenon DEF IInv, Types, Reports
<1>4. ReportsTrue'
  BY <1>1, Zenon DEF IInv, ReportsTrue, Single
<1>5. OnlyAcksWait' /\ AckNamesDelivered'
  BY <1>1, <1>2 DEF IInv, Types, OnlyAcksWait, AckNamesDelivered
<1>6. ASSUME NEW i \in IDs PROVE Entries(i)' = Entries(i) /\ Awaiting(i)' = Awaiting(i)
  <2>1. Entries(i)' = Entries(i)
    BY <1>1, Zenon DEF Entries
  <2>2. Awaiting(i)' = Awaiting(i)
    BY <1>1, <1>2, Zenon DEF IInv, Types, Awaiting
  <2>3. QED
    BY <2>1, <2>2, Zenon
<1>7. QED
  BY <1>3, <1>4, <1>5, <1>6, Zenon DEF IInv, EnoughWaiters

\* waitForSend looks at the maps and answers, or waits.
LEMMA WaitForSendStep ==
  ASSUME IInv, NEW r \in Requests, WaitForSend(r)
  PROVE  IInv'
<1> DEFINE id == req[r].id
<1>1. /\ at[r] \in {"look", "wait"} /\ id \in IDs /\ req[r].ack
      /\ UNCHANGED <<req, pendingMsgs, buffered, topic, errs, succs>>
  BY Zenon DEF WaitForSend, sarama, IInv, Types, OnlyAcksWait
<1>2. CASE /\ failedMsgs[id] = {} /\ successMsgs[id] = {} /\ at' = [at EXCEPT ![r] = "wait"]
           /\ UNCHANGED <<taken, failedMsgs, successMsgs>>
  <2>1. Types' /\ ReportsTrue' /\ OnlyAcksWait' /\ AckNamesDelivered'
    BY <1>1, <1>2 DEF IInv, Types, Reports, ReportsTrue, Single, OnlyAcksWait,
                      AckNamesDelivered
  <2>2. ASSUME NEW i \in IDs PROVE Entries(i)' = Entries(i) /\ Awaiting(i)' = Awaiting(i)
    <3>1. Entries(i)' = Entries(i)
      BY <1>1, <1>2, Zenon DEF Entries
    <3>2. Awaiting(i)' = Awaiting(i)
      BY <1>1, <1>2, Zenon DEF IInv, Types, Awaiting
    <3>3. QED
      BY <3>1, <3>2, Zenon
  <2>3. QED
    BY <2>1, <2>2, Zenon DEF IInv, EnoughWaiters
<1>3. CASE /\ failedMsgs[id] # {} /\ at' = [at EXCEPT ![r] = "failed"]
           /\ failedMsgs' = [failedMsgs EXCEPT ![id] = {}] /\ successMsgs' = successMsgs
           /\ taken' = [taken EXCEPT ![r] = failedMsgs[id]]
  <2>1. Types'
    BY <1>1, <1>3, Zenon DEF IInv, Types, Reports
  <2>2. ReportsTrue'
    BY <1>1, <1>3, Zenon DEF IInv, ReportsTrue, Single
  <2>3. OnlyAcksWait' /\ AckNamesDelivered'
    BY <1>1, <1>3 DEF IInv, Types, OnlyAcksWait, AckNamesDelivered
  <2>4. ASSUME NEW i \in IDs PROVE (Cardinality(Entries(i)) <= Cardinality(Awaiting(i)))'
    <3>0. Cardinality(Entries(i)) <= Cardinality(Awaiting(i))
      BY Zenon DEF IInv, EnoughWaiters
    <3>1. CASE i = id
      <4>1. Awaiting(i)' = Awaiting(i) \ {r} /\ r \in Awaiting(i)
        BY <1>1, <1>3, <3>1, Zenon DEF IInv, Types, Awaiting
      <4>2. Entries(i)' = Entries(i) \ {"failed"} /\ "failed" \in Entries(i)
        BY <1>1, <1>3, <3>1, Zenon DEF IInv, Types, Reports, Entries
      <4>3. QED
        BY <3>0, <4>1, <4>2, FiniteCounts, OneLess, Zenon
    <3>2. CASE i # id
      <4>1. Awaiting(i)' = Awaiting(i)
        BY <1>1, <1>3, <3>2, Zenon DEF IInv, Types, Awaiting
      <4>2. Entries(i)' = Entries(i)
        BY <1>1, <1>3, <3>2, Zenon DEF IInv, Types, Reports, Entries
      <4>3. QED
        BY <3>0, <4>1, <4>2, Zenon
    <3>3. QED
      BY <3>1, <3>2, Zenon
  <2>5. QED
    BY <2>1, <2>2, <2>3, <2>4, Zenon DEF IInv, EnoughWaiters
<1>4. CASE /\ successMsgs[id] # {} /\ at' = [at EXCEPT ![r] = "ok"]
           /\ successMsgs' = [successMsgs EXCEPT ![id] = {}] /\ failedMsgs' = failedMsgs
           /\ taken' = [taken EXCEPT ![r] = successMsgs[id]]
  <2>1. Types'
    BY <1>1, <1>4 DEF IInv, Types, Reports
  <2>2. ReportsTrue'
    BY <1>1, <1>4, Zenon DEF IInv, Types, Reports, ReportsTrue, Single
  <2>3. OnlyAcksWait' /\ AckNamesDelivered'
    <3>1. PICK m \in topic : successMsgs[id] = {m} /\ req[m].id = id
      BY <1>1, <1>4 DEF IInv, ReportsTrue, Single
    <3>2. taken'[r] = {m}
      BY <1>4, <3>1, Zenon DEF IInv, Types
    <3>3. \A q \in Requests \ {r} : at'[q] = at[q] /\ taken'[q] = taken[q]
      BY <1>4, Zenon DEF IInv, Types
    <3>4. QED
      BY <1>1, <1>4, <3>1, <3>2, <3>3 DEF IInv, Types, OnlyAcksWait, AckNamesDelivered
  <2>4. ASSUME NEW i \in IDs PROVE (Cardinality(Entries(i)) <= Cardinality(Awaiting(i)))'
    <3>0. Cardinality(Entries(i)) <= Cardinality(Awaiting(i))
      BY Zenon DEF IInv, EnoughWaiters
    <3>1. CASE i = id
      <4>1. Awaiting(i)' = Awaiting(i) \ {r} /\ r \in Awaiting(i)
        BY <1>1, <1>4, <3>1, Zenon DEF IInv, Types, Awaiting
      <4>2. Entries(i)' = Entries(i) \ {"success"} /\ "success" \in Entries(i)
        BY <1>1, <1>4, <3>1, Zenon DEF IInv, Types, Reports, Entries
      <4>3. QED
        BY <3>0, <4>1, <4>2, FiniteCounts, OneLess, Zenon
    <3>2. CASE i # id
      <4>1. Awaiting(i)' = Awaiting(i)
        BY <1>1, <1>4, <3>2, Zenon DEF IInv, Types, Awaiting
      <4>2. Entries(i)' = Entries(i)
        BY <1>1, <1>4, <3>2, Zenon DEF IInv, Types, Reports, Entries
      <4>3. QED
        BY <3>0, <4>1, <4>2, Zenon
    <3>3. QED
      BY <3>1, <3>2, Zenon
  <2>5. QED
    BY <2>1, <2>2, <2>3, <2>4, Zenon DEF IInv, EnoughWaiters
<1>5. QED
  BY <1>2, <1>3, <1>4, Zenon DEF WaitForSend

\* The loop over the errors of the producer records one.
LEMMA ErrorReportStep ==
  ASSUME IInv, NEW m \in Requests, ProducerErrorLoop(m)
  PROVE  IInv'
<1> DEFINE id == req[m].id
<1>1. /\ m \in errs /\ errs' = errs \ {m} /\ id \in IDs
      /\ UNCHANGED <<req, at, taken, successMsgs, buffered, topic, succs>>
  BY Zenon DEF ProducerErrorLoop, IInv, Types
<1>2. CASE UNCHANGED <<pendingMsgs, failedMsgs>>
  <2>1. Types' /\ ReportsTrue' /\ OnlyAcksWait' /\ AckNamesDelivered'
    BY <1>1, <1>2 DEF IInv, Types, Reports, ReportsTrue, Single, OnlyAcksWait,
                      AckNamesDelivered
  <2>2. \A i \in IDs : Entries(i)' = Entries(i) /\ Awaiting(i)' = Awaiting(i)
    BY <1>1, <1>2, Zenon DEF Entries, Awaiting
  <2>3. QED
    BY <2>1, <2>2, Zenon DEF IInv, EnoughWaiters
<1>3. CASE /\ id \in pendingMsgs /\ pendingMsgs' = pendingMsgs \ {id}
           /\ failedMsgs' = [failedMsgs EXCEPT ![id] = {m}]
  <2>1. Types'
    BY <1>1, <1>3 DEF IInv, Types, Reports
  <2>2. ReportsTrue'
    BY <1>1, <1>3, Zenon DEF IInv, Types, Reports, ReportsTrue, Single
  <2>3. OnlyAcksWait' /\ AckNamesDelivered'
    BY <1>1, Zenon DEF IInv, OnlyAcksWait, AckNamesDelivered
  <2>4. ASSUME NEW i \in IDs PROVE (Cardinality(Entries(i)) <= Cardinality(Awaiting(i)))'
    <3>1. Cardinality(Entries(i)) <= Cardinality(Awaiting(i)) /\ Awaiting(i)' = Awaiting(i)
      BY <1>1, Zenon DEF IInv, EnoughWaiters, Awaiting
    <3>2. CASE i = id
      <4>1. Entries(i)' = (Entries(i) \ {"pending"}) \cup {"failed"}
        BY <1>1, <1>3, <3>2, Zenon DEF IInv, Types, Reports, Entries
      <4>2. "pending" \in Entries(i)
        BY <1>3, <3>2, Zenon DEF Entries
      <4>3. Cardinality(Entries(i)') <= Cardinality(Entries(i))
        BY <4>1, <4>2, FiniteCounts, Moved, Zenon
      <4>4. Cardinality(Entries(i)') \in Nat
        BY <4>1, FiniteCounts, FS_RemoveElement, FS_AddElement, FS_CardinalityType, Zenon
      <4>5. QED
        BY <3>1, <4>3, <4>4, FiniteCounts
    <3>3. CASE i # id
      <4>1. Entries(i)' = Entries(i)
        BY <1>1, <1>3, <3>3, Zenon DEF IInv, Types, Reports, Entries
      <4>2. QED
        BY <3>1, <4>1, Zenon
    <3>4. QED
      BY <3>2, <3>3, Zenon
  <2>5. QED
    BY <2>1, <2>2, <2>3, <2>4, Zenon DEF IInv, EnoughWaiters
<1>4. QED
  BY <1>2, <1>3, Zenon DEF ProducerErrorLoop

\* The loop over the successes of the producer records one.
LEMMA SuccessReportStep ==
  ASSUME IInv, NEW m \in Requests, ProducerSuccessLoop(m)
  PROVE  IInv'
<1> DEFINE id == req[m].id
<1>1. /\ m \in succs /\ succs' = succs \ {m} /\ id \in IDs
      /\ UNCHANGED <<req, at, taken, failedMsgs, buffered, topic, errs>>
  BY Zenon DEF ProducerSuccessLoop, IInv, Types
<1>2. CASE UNCHANGED <<pendingMsgs, successMsgs>>
  <2>1. Types' /\ ReportsTrue' /\ OnlyAcksWait' /\ AckNamesDelivered'
    BY <1>1, <1>2 DEF IInv, Types, Reports, ReportsTrue, Single, OnlyAcksWait,
                      AckNamesDelivered
  <2>2. \A i \in IDs : Entries(i)' = Entries(i) /\ Awaiting(i)' = Awaiting(i)
    BY <1>1, <1>2, Zenon DEF Entries, Awaiting
  <2>3. QED
    BY <2>1, <2>2, Zenon DEF IInv, EnoughWaiters
<1>3. CASE /\ id \in pendingMsgs /\ pendingMsgs' = pendingMsgs \ {id}
           /\ successMsgs' = [successMsgs EXCEPT ![id] = {m}]
  <2>1. Types'
    BY <1>1, <1>3 DEF IInv, Types, Reports
  <2>2. ReportsTrue'
    BY <1>1, <1>3 DEF IInv, Types, Reports, ReportsTrue, Single
  <2>3. OnlyAcksWait' /\ AckNamesDelivered'
    BY <1>1, Zenon DEF IInv, OnlyAcksWait, AckNamesDelivered
  <2>4. ASSUME NEW i \in IDs PROVE (Cardinality(Entries(i)) <= Cardinality(Awaiting(i)))'
    <3>1. Cardinality(Entries(i)) <= Cardinality(Awaiting(i)) /\ Awaiting(i)' = Awaiting(i)
      BY <1>1, Zenon DEF IInv, EnoughWaiters, Awaiting
    <3>2. CASE i = id
      <4>1. Entries(i)' = (Entries(i) \ {"pending"}) \cup {"success"}
        BY <1>1, <1>3, <3>2, Zenon DEF IInv, Types, Reports, Entries
      <4>2. "pending" \in Entries(i)
        BY <1>3, <3>2, Zenon DEF Entries
      <4>3. Cardinality(Entries(i)') <= Cardinality(Entries(i))
        BY <4>1, <4>2, FiniteCounts, Moved, Zenon
      <4>4. Cardinality(Entries(i)') \in Nat
        BY <4>1, FiniteCounts, FS_RemoveElement, FS_AddElement, FS_CardinalityType, Zenon
      <4>5. QED
        BY <3>1, <4>3, <4>4, FiniteCounts
    <3>3. CASE i # id
      <4>1. Entries(i)' = Entries(i)
        BY <1>1, <1>3, <3>3, Zenon DEF IInv, Types, Reports, Entries
      <4>2. QED
        BY <3>1, <4>1, Zenon
    <3>4. QED
      BY <3>2, <3>3, Zenon
  <2>5. QED
    BY <2>1, <2>2, <2>3, <2>4, Zenon DEF IInv, EnoughWaiters
<1>4. QED
  BY <1>2, <1>3, Zenon DEF ProducerSuccessLoop

\* The producer delivers a message, or fails to.
LEMMA DeliverStep ==
  ASSUME IInv, NEW m \in Requests, Deliver(m)
  PROVE  IInv'
<1>1. /\ UNCHANGED handler /\ topic \subseteq topic' /\ topic' \subseteq topic \cup {m}
      /\ buffered' = buffered \ {m} /\ errs' \subseteq errs \cup {m}
      /\ succs' = succs \/ (succs' = succs \cup {m} /\ m \in topic')
  BY Zenon DEF Deliver
<1>2. Types'
  BY <1>1, Zenon DEF handler, IInv, Types, Reports
<1>3. ReportsTrue'
  BY <1>1, Zenon DEF handler, IInv, ReportsTrue, Single
<1>4. OnlyAcksWait' /\ AckNamesDelivered'
  BY <1>1, Zenon DEF handler, IInv, OnlyAcksWait, AckNamesDelivered
<1>5. \A i \in IDs : Entries(i)' = Entries(i) /\ Awaiting(i)' = Awaiting(i)
  BY <1>1, Zenon DEF handler, Entries, Awaiting
<1>6. QED
  BY <1>2, <1>3, <1>4, <1>5, Zenon DEF IInv, EnoughWaiters

\* Every step keeps the invariant.
LEMMA InvStep == IInv /\ [Next]_vars => IInv'
<1> SUFFICES ASSUME IInv, [Next]_vars PROVE IInv'
  BY Zenon
<1>1. ASSUME NEW r \in Requests, SetMsgPending(r) PROVE IInv'
  BY <1>1, SetMsgPendingStep, Zenon
<1>2. ASSUME NEW r \in Requests, SendToProducer(r) PROVE IInv'
  BY <1>2, SendToProducerStep, Zenon
<1>3. ASSUME NEW r \in Requests, WaitForSend(r) PROVE IInv'
  BY <1>3, WaitForSendStep, Zenon
<1>4. ASSUME NEW r \in Requests, Deliver(r) PROVE IInv'
  BY <1>4, DeliverStep, Zenon
<1>5. ASSUME NEW r \in Requests, ProducerErrorLoop(r) PROVE IInv'
  BY <1>5, ErrorReportStep, Zenon
<1>6. ASSUME NEW r \in Requests, ProducerSuccessLoop(r) PROVE IInv'
  BY <1>6, SuccessReportStep, Zenon
<1>7. CASE \/ ProducerLoopDone \/ ProducerClosed \/ Connect \/ CreateConsumer
           \/ CreateProducer \/ StartConsumer \/ StartProducer \/ CloseConsumer
           \/ Complete \/ Signalled
  <2>1. UNCHANGED <<handler, buffered, topic, errs, succs>>
    BY <1>7, Zenon DEF ProducerLoopDone, ProducerClosed, Connect, CreateConsumer, CreateProducer,
      StartConsumer, StartProducer, CloseConsumer, Complete, Signalled, sarama
  <2>2. QED
    BY <2>1, Frame, Zenon
<1>8. CASE \/ GroupCheck \/ GroupCreate \/ ConsumeClosed \/ GroupEnded \/ GroupDrained
           \/ ConsumerLoopDone \/ Rebalance \/ UNCHANGED vars
  <2>1. UNCHANGED <<handler, buffered, topic, errs, succs>>
    BY <1>8, Zenon DEF GroupCheck, GroupCreate, ConsumeClosed, GroupEnded, GroupDrained,
      ConsumerLoopDone, Rebalance, sarama, vars
  <2>2. QED
    BY <2>1, Frame, Zenon
<1>9. QED
  BY <1>1, <1>2, <1>3, <1>4, <1>5, <1>6, <1>7, <1>8, Zenon DEF Next, Steps, Requesting

-----------------------------------------------------------------------------
(* The results.                                                            *)

\* Reports are true, and for each message ID no fewer requests wait than the maps
\* of the producer have entries, in every behaviour.
THEOREM BridgeInvariant == Spec => []IInv
  BY InvInit, InvStep, PTL DEF Spec

\* waitForSend answers a request with an ack only when a message of the ID of
\* the request is on the topic.
THEOREM AcksDelivered == Spec => []AckNamesDelivered
<1>1. IInv => AckNamesDelivered
  BY Zenon DEF IInv
<1>2. QED
  BY <1>1, BridgeInvariant, PTL

\* The loops of the producer record no report that no request is left to take,
\* although the maps know message IDs only and requests may share one: there is
\* always at least one waiter for each entry, pending or recorded.
THEOREM EntriesTaken == Spec => []EntriesAwaited
<1>1. IInv => EntriesAwaited
  <2> SUFFICES ASSUME IInv, NEW i \in IDs, failedMsgs[i] \cup successMsgs[i] # {}
               PROVE  \E r \in Requests : /\ req[r].ack /\ req[r].id = i
                         /\ at[r] \in {"input", "look", "wait", "panicked"}
    BY Zenon DEF EntriesAwaited
  <2>1. Entries(i) # {}
    BY Zenon DEF Entries
  <2>2. Cardinality(Entries(i)) # 0
    BY <2>1, FiniteCounts, FS_EmptySet, Zenon
  <2>3. Cardinality(Entries(i)) <= Cardinality(Awaiting(i))
    BY Zenon DEF IInv, EnoughWaiters
  <2>4. Cardinality(Awaiting(i)) # 0
    BY <2>2, <2>3, FiniteCounts
  <2>5. Awaiting(i) # {}
    BY <2>4, FS_EmptySet, Zenon
  <2>6. QED
    BY <2>5, Zenon DEF Awaiting
<1>2. QED
  BY <1>1, BridgeInvariant, PTL
=============================================================================
