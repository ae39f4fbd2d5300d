------------------------- MODULE EventStreamProofs -------------------------
(***************************************************************************)
(* What holds of an event stream for every set of subscriptions, every     *)
(* chain and every value of the bounds: its types; that the persisted      *)
(* checkpoint never moves back; that no event is lost across a crash; and  *)
(* that events are given to the client in chain order.                     *)
(***************************************************************************)
EXTENDS EventStream, TLAPS

-----------------------------------------------------------------------------
(* Types: lemmas on the operators, then one for the initial state, the     *)
(* crash and each group of actions.                                        *)

\* Frame lemmas: a part of TypeOK holds after a step that leaves its variables
\* alone.  The stream, its update bookkeeping, queue and done flags.
LEMMA StreamTypeUnchanged ==
  StreamTypeOK /\ UNCHANGED <<streamVars, updateVars, batchVars, doneVars>> => StreamTypeOK'
  BY Zenon DEF StreamTypeOK, streamVars, updateVars, batchVars, doneVars

\* Frame: the variables of eventPoller.
LEMMA PollTypeUnchanged == PollTypeOK /\ UNCHANGED pollVars => PollTypeOK'
  BY Zenon DEF PollTypeOK, pollVars

\* Frame: the variables of batchDispatcher and batchProcessor.
LEMMA BatchTypeUnchanged == BatchTypeOK /\ UNCHANGED <<dispVars, procVars>> => BatchTypeOK'
  BY Zenon DEF BatchTypeOK, dispVars, procVars

\* Frame: the subscriptions and the checkpoint in LevelDB.
LEMMA SubTypeUnchanged == SubTypeOK /\ UNCHANGED <<subVars, stored>> => SubTypeOK'
  BY Zenon DEF SubTypeOK, subVars

\* Frame: the notifier channels and the relays.
LEMMA SdkTypeUnchanged == SdkTypeOK /\ UNCHANGED sdkVars => SdkTypeOK'
  BY Zenon DEF SdkTypeOK, sdkVars, chanVars

\* A number held by a relay, and the marks that are no number.
LEMMA HeldNumber ==
  /\ \A n \in {Off} \cup Nat : \A l \in Nat : n > 0 /\ n <= l => n \in Nat /\ n \in 1..l
  /\ Idle \in {Off} \cup Nat /\ \A l \in Nat : Idle <= l
  BY DEF Off, Idle

\* One relay of one subscription changes.
LEMMA RelaySet ==
  ASSUME SdkTypeOK, NEW s \in Subs, NEW i \in Relays, NEW v \in {Off} \cup Nat,
         relay' = [relay EXCEPT ![s][i] = v]
  PROVE  /\ relay' \in [Subs -> [Relays -> {Off} \cup Nat]]
         /\ \A t \in Subs \ {s} : relay'[t] = relay[t]
         /\ relay'[s][i] = v /\ \A j \in Relays \ {i} : relay'[s][j] = relay[s][j]
  BY DEF SdkTypeOK

\* A relay holds an event of its subscription.
LEMMA HeldEvent ==
  ASSUME SdkTypeOK, NEW s \in Subs, NEW i \in Relays, relay[s][i] > 0
  PROVE  /\ relay[s][i] \in Nat /\ relay[s][i] \in Positions(s)
         /\ [sub |-> s, n |-> relay[s][i]] \in Event
<1>1. Len(BlockOf[s]) \in Nat
  BY ChainAssumption
<1>2. relay[s][i] \in Nat /\ relay[s][i] \in Positions(s)
  BY <1>1, HeldNumber, Zenon DEF SdkTypeOK, Positions
<1> QED
  BY <1>2, Zenon DEF Event

\* A batch with one more event is a batch.
LEMMA BatchAppend ==
  ASSUME NEW b \in Seq(Event), NEW e \in Event
  PROVE  Append(b, e) \in Seq(Event)
  OBVIOUS

\* newEventStream and newSubscription establish the types.
LEMMA TypeInit == Init => TypeOK
<1> SUFFICES ASSUME Init PROVE TypeOK
  BY Zenon
<1> USE DEF Init
<1>1. height \in 1..MaxHeight
  BY BoundAssumption
<1>2. StreamTypeOK
  <2>1. 0 \in Gens
    BY BoundAssumption DEF Gens
  <2>2. wg \in [Gens -> Int]
    OBVIOUS
  <2>3. batchQueue \in Seq(Seq(Event))
    OBVIOUS
  <2>4. closed \subseteq Gens /\ updater \subseteq Gens
    BY Zenon
  <2>5. inFlight \in Int
    OBVIOUS
  <2> QED
    BY <2>1, <2>2, <2>3, <2>4, <2>5, Zenon DEF StreamTypeOK
<1>3. PollTypeOK
  BY BoundAssumption DEF PollTypeOK, Gens, Absent
<1>4. BatchTypeOK
  BY BoundAssumption DEF BatchTypeOK, Gens
<1>5. SubTypeOK
  BY FromBlockAssumption, Zenon DEF SubTypeOK, SubStates, Absent
<1>6. SdkTypeOK
  BY ChainAssumption DEF SdkTypeOK, Off
<1>7. owed \in [Subs -> SUBSET Nat]
  BY ChainAssumption DEF Since, Positions
<1>8. ops \in [OpNames -> Nat]
  BY Zenon
<1> QED
  BY <1>1, <1>2, <1>3, <1>4, <1>5, <1>6, <1>7, <1>8, Zenon DEF TypeOK

\* A block committed by the network keeps the types.
LEMMA TypeMine == TypeOK /\ Mine => TypeOK'
<1> SUFFICES ASSUME TypeOK, Mine PROVE TypeOK'
  BY Zenon
<1> USE DEF TypeOK, Mine
<1>1. height' \in 1..MaxHeight
  BY BoundAssumption
<1> QED
  BY <1>1, StreamTypeUnchanged, PollTypeUnchanged, BatchTypeUnchanged, SubTypeUnchanged,
     SdkTypeUnchanged, Zenon

\* The call counters stay natural numbers.
LEMMA CountType ==
  ASSUME ops \in [OpNames -> Nat], NEW op \in OpNames, Count(op)
  PROVE  ops' \in [OpNames -> Nat]
  BY DEF Count

\* A WaitGroup counted up or down keeps the type of wg.
LEMMA WGType ==
  ASSUME wg \in [Gens -> Int], NEW g \in Gens, WGAdd(g) \/ WGDone(g)
  PROVE  wg' \in [Gens -> Int]
  BY DEF WGAdd, WGDone

\* The first round of goroutines is a valid generation.
LEMMA ZeroGen == 0 \in Gens
  BY BoundAssumption DEF Gens

\* markFilterStale keeps the types, and what is left in a closed channel are
\* events of the chain.
LEMMA MarkFilterStaleType ==
  ASSUME SubTypeOK, SdkTypeOK, NEW S \in SUBSET Subs, MarkFilterStale(S)
  PROVE  /\ filterStale' \in [Subs -> BOOLEAN]
         /\ chanOpen' \in [Subs -> BOOLEAN]
         /\ chanLast' \in [Subs -> Nat]
         /\ \A s \in Subs : chanLast'[s] <= Len(BlockOf[s])
<1> DEFINE closing == {s \in S : ~filterStale[s] /\ chanOpen[s]}
<1>1. filterStale' \in [Subs -> BOOLEAN] /\ chanOpen' \in [Subs -> BOOLEAN]
  BY Zenon DEF MarkFilterStale
<1>2. PICK left \in [closing -> 0..MaxBuffered] :
        /\ \A s \in closing : left[s] > 0 => chanNext[s] + left[s] - 1 \in Mined(s)
        /\ chanLast' = [s \in Subs |-> IF s \in closing THEN chanNext[s] + left[s] - 1
                                       ELSE chanLast[s]]
  BY Zenon DEF MarkFilterStale
<1>3. ASSUME NEW s \in Subs
      PROVE  chanLast'[s] \in Nat /\ chanLast'[s] <= Len(BlockOf[s])
  <2>0. /\ Len(BlockOf[s]) \in Nat /\ chanNext[s] \in Nat \ {0} /\ chanLast[s] \in Nat
        /\ chanNext[s] <= Len(BlockOf[s]) + 1 /\ chanLast[s] <= Len(BlockOf[s])
    BY ChainAssumption DEF SdkTypeOK
  <2>1. CASE s \notin closing
    BY <1>2, <2>0, <2>1, Zenon
  <2>2. CASE s \in closing
    <3>1. chanLast'[s] = chanNext[s] + left[s] - 1 /\ left[s] \in Nat
      BY <1>2, <2>2, BoundAssumption
    <3>2. CASE left[s] = 0
      BY <2>0, <3>1, <3>2
    <3>3. CASE left[s] # 0
      <4>1. chanNext[s] + left[s] - 1 \in 1..Len(BlockOf[s])
        BY <1>2, <2>2, <3>1, <3>3 DEF Mined, Positions
      <4> QED
        BY <2>0, <3>1, <4>1
    <3> QED
      BY <3>2, <3>3, Zenon
  <2> QED
    BY <2>1, <2>2, Zenon
<1>4. chanLast' \in [Subs -> Nat]
  BY <1>2, <1>3, Zenon
<1> QED
  BY <1>1, <1>3, <1>4, Zenon

\* Taking a batch off what is owed leaves sets of event numbers.
LEMMA HandledType ==
  ASSUME owed \in [Subs -> SUBSET Nat], NEW batch
  PROVE  Handled(batch) \in [Subs -> SUBSET Nat]
  BY Zenon DEF Handled

\* The block of an event is a block number.
LEMMA EventBlock ==
  ASSUME NEW e \in Event
  PROVE  Block(e) \in Nat
  BY ChainAssumption DEF Event, Block, Positions

\* batchComplete, called for the last event of each subscription in a batch,
\* never lowers a high-water mark.
LEMMA BatchCompleteType ==
  ASSUME SubTypeOK, NEW batch \in Seq(Event)
  PROVE  /\ BatchComplete(batch) \in [Subs -> Nat]
         /\ \A s \in Subs : BatchComplete(batch)[s] >= hwm[s]
<1> SUFFICES ASSUME NEW s \in Subs
             PROVE  BatchComplete(batch)[s] \in Nat /\ BatchComplete(batch)[s] >= hwm[s]
  BY Zenon DEF BatchComplete
<1> DEFINE marks == {h \in {Block(batch[i]) + 1 : i \in LastOf(batch, s)} : h > hwm[s]}
<1>0. hwm[s] \in Nat
  BY Zenon DEF SubTypeOK
<1>1. BatchComplete(batch)[s] = IF marks = {} THEN hwm[s] ELSE CHOOSE h \in marks : TRUE
  BY Zenon DEF BatchComplete
<1>2. \A h \in marks : h \in Nat /\ h >= hwm[s]
  <2> SUFFICES ASSUME NEW i \in LastOf(batch, s), Block(batch[i]) + 1 > hwm[s]
               PROVE  Block(batch[i]) + 1 \in Nat /\ Block(batch[i]) + 1 >= hwm[s]
    BY Zenon
  <2>1. batch[i] \in Event
    BY DEF LastOf
  <2> QED
    BY <1>0, <2>1, EventBlock
<1>3. CASE marks = {}
  BY <1>0, <1>1, <1>3
<1>4. CASE marks # {}
  <2>1. (CHOOSE h \in marks : TRUE) \in marks
    BY <1>4, Zenon
  <2> HIDE DEF marks
  <2> QED
    BY <1>1, <1>2, <1>4, <2>1, Zenon
<1> QED
  BY <1>3, <1>4, Zenon

\* recoverStreams and recoverSubscriptions establish the types.
LEMMA TypeCrash == TypeOK /\ Crash => TypeOK'
<1> SUFFICES ASSUME TypeOK, Crash PROVE TypeOK'
  BY Zenon
<1> USE DEF TypeOK, Crash
<1>1. StreamTypeOK'
  <2>1. wg' \in [Gens -> Int]
    OBVIOUS
  <2>2. batchQueue' \in Seq(Seq(Event)) /\ inFlight' \in Int
    OBVIOUS
  <2> QED
    BY <2>1, <2>2, ZeroGen, Zenon DEF StreamTypeOK
<1>2. PollTypeOK'
  BY ZeroGen, Zenon DEF PollTypeOK, Absent
<1>3. BatchTypeOK'
  BY ZeroGen DEF BatchTypeOK
<1>4. SubTypeOK'
  <2>1. subState' \in [Subs -> SubStates]
    BY Zenon DEF SubTypeOK, SubStates
  <2> QED
    BY <2>1, Zenon DEF SubTypeOK
<1>5. SdkTypeOK'
  BY ChainAssumption DEF SdkTypeOK, Off
<1>6. ops' \in [OpNames -> Nat]
  BY CountType, Zenon DEF OpNames
<1> QED
  BY <1>1, <1>2, <1>3, <1>4, <1>5, <1>6, Zenon

\* recoverSubscriptions keeps the types.
LEMMA TypeRecover == ASSUME TypeOK, NEW s \in Subs, RecoverSubscription(s) PROVE TypeOK'
<1> USE DEF TypeOK, RecoverSubscription
<1>1. SubTypeOK'
  BY Zenon DEF SubTypeOK, SubStates
<1> QED
  BY <1>1, StreamTypeUnchanged, PollTypeUnchanged, BatchTypeUnchanged, SdkTypeUnchanged, Zenon

\* processNewEvents keeps the types: a relay holds only events of the chain.
LEMMA TypeRelaying == TypeOK /\ Relaying => TypeOK'
<1> SUFFICES ASSUME TypeOK, NEW s \in Subs, NEW i \in Relays, RelayRead(s, i) \/ RelayExit(s, i)
             PROVE  TypeOK'
  BY Zenon DEF Relaying
<1> USE DEF TypeOK
<1>0. Len(BlockOf[s]) \in Nat
  BY ChainAssumption
<1>1. CASE RelayRead(s, i)
  <2> USE <1>1 DEF RelayRead
  <2>1. chanNext[s] \in Nat \ {0} /\ chanNext[s] <= Len(BlockOf[s])
    BY <1>0 DEF SdkTypeOK, Mined, Positions
  <2>2. SdkTypeOK'
    BY <1>0, <2>1 DEF SdkTypeOK, Off, Idle
  <2> QED
    BY <2>2, StreamTypeUnchanged, PollTypeUnchanged, BatchTypeUnchanged, SubTypeUnchanged, Zenon
<1>2. CASE RelayExit(s, i)
  <2> USE <1>2 DEF RelayExit
  <2>1. SdkTypeOK'
    BY <1>0 DEF SdkTypeOK, chanVars, Off
  <2> QED
    BY <2>1, StreamTypeUnchanged, PollTypeUnchanged, BatchTypeUnchanged, SubTypeUnchanged, Zenon
<1> QED
  BY <1>1, <1>2, Zenon

\* batchDispatcher keeps the types: only events of the chain are batched.
LEMMA TypeDispatching == TypeOK /\ Dispatching => TypeOK'
<1> SUFFICES ASSUME TypeOK, NEW d \in Dispatchers,
                    \/ \E s \in Subs, i \in Relays : DispatchEvent(d, s, i)
                    \/ DispatchTimeout(d)
                    \/ DispatchExit(d)
             PROVE  TypeOK'
  BY Zenon DEF Dispatching
<1> USE DEF TypeOK
<1>1. CASE \E s \in Subs, i \in Relays : DispatchEvent(d, s, i)
  <2> PICK s \in Subs, i \in Relays : DispatchEvent(d, s, i)
    BY <1>1, Zenon
  <2> USE DEF DispatchEvent
  <2> DEFINE batch == Append(currentBatch[d], [sub |-> s, n |-> relay[s][i]])
  <2>1. [sub |-> s, n |-> relay[s][i]] \in Event
    BY HeldEvent, Zenon
  <2>2. batch \in Seq(Event)
    BY <2>1, BatchAppend, Zenon DEF BatchTypeOK
  <2>3. StreamTypeOK'
    <3>1. batchQueue' \in Seq(Seq(Event))
      BY <2>2 DEF StreamTypeOK
    <3>2. inFlight' \in Int
      BY DEF StreamTypeOK
    <3> QED
      BY <3>1, <3>2, Zenon DEF StreamTypeOK, streamVars, updateVars, doneVars
  <2>4. BatchTypeOK'
    <3>1. currentBatch' \in [Dispatchers -> Seq(Event)]
      BY <2>2 DEF BatchTypeOK
    <3>2. watch' \in [Dispatchers -> Gens]
      BY Zenon DEF BatchTypeOK, StreamTypeOK
    <3> QED
      BY <3>1, <3>2, Zenon DEF BatchTypeOK, procVars
  <2>5. SdkTypeOK'
    <3>1. /\ relay' \in [Subs -> [Relays -> {Off} \cup Nat]]
          /\ \A t \in Subs \ {s} : relay'[t] = relay[t]
          /\ relay'[s][i] = Idle /\ \A j \in Relays \ {i} : relay'[s][j] = relay[s][j]
      BY RelaySet, HeldNumber, Zenon
    <3>2. Len(BlockOf[s]) \in Nat
      BY ChainAssumption
    <3>3. \A t \in Subs, j \in Relays : relay'[t][j] <= Len(BlockOf[t])
      BY <3>1, <3>2, HeldNumber, Zenon DEF SdkTypeOK
    <3> QED
      BY <3>1, <3>3, Zenon DEF SdkTypeOK, chanVars
  <2> QED
    BY <2>3, <2>4, <2>5, PollTypeUnchanged, SubTypeUnchanged, Zenon
<1>2. CASE DispatchTimeout(d)
  <2> USE <1>2 DEF DispatchTimeout
  <2>1. StreamTypeOK'
    <3>1. batchQueue' \in Seq(Seq(Event))
      BY DEF StreamTypeOK, BatchTypeOK
    <3> QED
      BY <3>1, Zenon DEF StreamTypeOK, streamVars, updateVars, doneVars
  <2>2. BatchTypeOK'
    <3>1. currentBatch' \in [Dispatchers -> Seq(Event)]
      BY DEF BatchTypeOK
    <3>2. watch' \in [Dispatchers -> Gens]
      BY Zenon DEF BatchTypeOK, StreamTypeOK
    <3> QED
      BY <3>1, <3>2, Zenon DEF BatchTypeOK, procVars
  <2> QED
    BY <2>1, <2>2, PollTypeUnchanged, SubTypeUnchanged, SdkTypeUnchanged, Zenon
<1>3. CASE DispatchExit(d)
  <2> USE <1>3 DEF DispatchExit
  <2>1. StreamTypeOK'
    <3>1. wg' \in [Gens -> Int]
      BY WGType, Zenon DEF StreamTypeOK, BatchTypeOK
    <3> QED
      BY <3>1, Zenon DEF StreamTypeOK, streamVars, batchVars, doneVars
  <2>2. BatchTypeOK'
    <3>1. dispOn' \in [Dispatchers -> BOOLEAN]
      BY Zenon DEF BatchTypeOK
    <3>2. currentBatch' \in [Dispatchers -> Seq(Event)]
      BY DEF BatchTypeOK
    <3>3. watch' \in [Dispatchers -> Gens] /\ dispWG' \in [Dispatchers -> Gens]
      BY ZeroGen, Zenon DEF BatchTypeOK
    <3> QED
      BY <3>1, <3>2, <3>3, Zenon DEF BatchTypeOK, procVars
  <2> QED
    BY <2>1, <2>2, PollTypeUnchanged, SubTypeUnchanged, SdkTypeUnchanged, Zenon
<1> QED
  BY <1>1, <1>2, <1>3, Zenon

\* A poller that exits keeps the types.
LEMMA TypePollExit ==
  ASSUME TypeOK, PollExit
  PROVE  TypeOK'
<1> USE DEF TypeOK, PollExit
<1>0. Active \in SUBSET Subs
  BY Zenon DEF Active
<1>1. StreamTypeOK'
  <2>1. wg' \in [Gens -> Int]
    BY WGType, Zenon DEF StreamTypeOK, PollTypeOK
  <2> QED
    BY <2>1, Zenon DEF StreamTypeOK, streamVars, batchVars
<1>2. PollTypeOK'
  BY ZeroGen, Zenon DEF PollTypeOK, Absent
<1>3. SubTypeOK'
  BY <1>0, MarkFilterStaleType, Zenon DEF SubTypeOK
<1>4. SdkTypeOK'
  BY <1>0, MarkFilterStaleType, Zenon DEF SdkTypeOK
<1> QED
  BY <1>1, <1>2, <1>3, <1>4, BatchTypeUnchanged, Zenon

\* Loading a checkpoint keeps the types.
LEMMA TypePollBegin ==
  ASSUME TypeOK, PollBegin
  PROVE  TypeOK'
<1> USE DEF TypeOK, PollBegin
<1>1. PollTypeOK'
  BY DEF PollTypeOK, SubTypeOK, Active
<1> QED
  BY <1>1, StreamTypeUnchanged, BatchTypeUnchanged, SubTypeUnchanged, SdkTypeUnchanged, Zenon

\* A failed load and the wait between two cycles keep the types.
LEMMA TypePollIdle ==
  ASSUME TypeOK, PollLoadFails \/ PollWait
  PROVE  TypeOK'
<1> USE DEF TypeOK, PollLoadFails, PollWait
<1>1. PollTypeOK'
  BY Zenon DEF PollTypeOK
<1> QED
  BY <1>1, StreamTypeUnchanged, BatchTypeUnchanged, SubTypeUnchanged, SdkTypeUnchanged, Zenon

\* Visiting a subscription keeps the types: marks and checkpoints are heights.
LEMMA TypePollSub ==
  ASSUME TypeOK, NEW s \in Subs, PollSub(s)
  PROVE  TypeOK'
<1> USE DEF TypeOK, PollSub, SetInitialBlockHeight, SetCheckpointBlockHeight
<1> DEFINE cp == IF resetRequested[s] THEN Absent ELSE checkpoint[s]
<1>1. cp \in Nat \cup {Absent} /\ (cp > 0 => cp \in Nat)
  BY DEF PollTypeOK, Absent
<1>2. fromBlock[s] # Newest => fromBlock[s] \in Nat
  BY Zenon DEF SubTypeOK
<1>3. height \in Nat
  BY BoundAssumption
<1>4. checkpoint' \in [Subs -> Nat \cup {Absent}]
  BY <1>1, Zenon DEF PollTypeOK
<1>5. pollPC' \in {"top", "subs", "call", "wait", "done"} /\ pollCall' \subseteq Subs
      /\ pollSince' \in Nat
  BY <1>1, <1>2, <1>3, Zenon DEF PollTypeOK, CallSubscribe
<1>6. PollTypeOK'
  BY <1>4, <1>5, Zenon DEF PollTypeOK
<1>7. hwm' \in [Subs -> Nat]
  BY <1>1, <1>3 DEF SubTypeOK
<1>8. resetRequested' \in [Subs -> BOOLEAN]
  BY Zenon DEF SubTypeOK
<1>9. SubTypeOK'
  BY <1>7, <1>8, MarkFilterStaleType, Zenon DEF SubTypeOK
<1>10. SdkTypeOK'
  BY MarkFilterStaleType, Zenon DEF SdkTypeOK
<1>11. owed' \in [Subs -> SUBSET Nat]
  <2>1. \A b : Since(s, b) \in SUBSET Nat
    BY ChainAssumption DEF Since, Positions
  <2> QED
    BY <2>1
<1> QED
  BY <1>6, <1>9, <1>10, <1>11, StreamTypeUnchanged, BatchTypeUnchanged, Zenon

\* A registration made by SubscribeEvent starts inside the chain.
LEMMA TypePollSubscribed ==
  ASSUME TypeOK, NEW s \in Subs, PollSubscribed(s)
  PROVE  TypeOK'
<1> USE DEF TypeOK, PollSubscribed
<1>1. PollTypeOK'
  BY Zenon DEF PollTypeOK
<1>2. SubTypeOK'
  BY Zenon DEF SubTypeOK
<1>3. SdkTypeOK'
  <2>1. Len(BlockOf[s]) \in Nat
    BY ChainAssumption
  <2>2. chanOpen' \in [Subs -> BOOLEAN]
    BY Zenon DEF SdkTypeOK
  <2>3. chanNext' \in [Subs -> Nat \ {0}] /\ chanLast' \in [Subs -> Nat]
        /\ \A t \in Subs : chanNext'[t] <= Len(BlockOf[t]) + 1 /\ chanLast'[t] <= Len(BlockOf[t])
    BY <2>1 DEF SdkTypeOK
  <2>4. relay' \in [Subs -> [Relays -> {Off} \cup Nat]]
    BY DEF SdkTypeOK, Idle
  <2>5. \A t \in Subs, j \in Relays : relay'[t][j] <= Len(BlockOf[t])
    BY <2>1 DEF SdkTypeOK, Idle, Off
  <2> QED
    BY <2>2, <2>3, <2>4, <2>5, Zenon DEF SdkTypeOK
<1> QED
  BY <1>1, <1>2, <1>3, StreamTypeUnchanged, BatchTypeUnchanged, Zenon

\* A failed SubscribeEvent keeps the types.
LEMMA TypePollSubscribeFails ==
  ASSUME TypeOK, PollSubscribeFails
  PROVE  TypeOK'
<1> USE DEF TypeOK, PollSubscribeFails
<1>1. PollTypeOK'
  BY Zenon DEF PollTypeOK
<1> QED
  BY <1>1, StreamTypeUnchanged, BatchTypeUnchanged, SubTypeUnchanged, SdkTypeUnchanged, Zenon

\* Recording the marks in the checkpoint keeps the types.
LEMMA TypePollRecord ==
  ASSUME TypeOK, PollRecord
  PROVE  TypeOK'
<1> USE DEF TypeOK, PollRecord
<1>1. checkpoint' \in [Subs -> Nat \cup {Absent}]
  BY Zenon DEF PollTypeOK, SubTypeOK
<1>2. stored' \in [Subs -> Nat \cup {Absent}]
  BY <1>1, Zenon DEF SubTypeOK
<1>3. PollTypeOK'
  BY <1>1, Zenon DEF PollTypeOK
<1>4. SubTypeOK'
  BY <1>2, Zenon DEF SubTypeOK, subVars
<1> QED
  BY <1>3, <1>4, StreamTypeUnchanged, BatchTypeUnchanged, SdkTypeUnchanged, Zenon

\* eventPoller keeps the types.
LEMMA TypePolling == TypeOK /\ Polling => TypeOK'
  BY TypePollExit, TypePollBegin, TypePollIdle, TypePollSub, TypePollSubscribed,
     TypePollSubscribeFails, TypePollRecord, Zenon DEF Polling

\* batchProcessor, processBatch and performActionWithRetry keep the types.
LEMMA TypeProcessing == TypeOK /\ Processing => TypeOK'
<1> SUFFICES ASSUME TypeOK, NEW p \in Processors,
                    \/ ProcessorTake(p) \/ ProcessorSuspended(p)
                    \/ ProcessorUpdated(p) \/ ProcessorExit(p)
                    \/ ProcessBatch(p) \/ PerformAction(p)
                    \/ AttemptOK(p) \/ AttemptRetry(p) \/ AttemptFail(p)
                    \/ ReleaseBatch(p) \/ AckBatch(p)
             PROVE  TypeOK'
  BY Zenon DEF Processing
<1> USE DEF TypeOK
<1>0. gen \in Gens /\ wg \in [Gens -> Int] /\ batchWG[p] \in Gens /\ actionWG[p] \in Gens
  BY Zenon DEF StreamTypeOK, BatchTypeOK
<1>1. CASE ProcessorTake(p)
  <2> USE <1>1 DEF ProcessorTake
  <2>1. Head(batchQueue) \in Seq(Event) /\ Tail(batchQueue) \in Seq(Seq(Event))
    BY DEF StreamTypeOK
  <2>2. wg' \in [Gens -> Int]
    BY <1>0, WGType, Zenon
  <2>3. StreamTypeOK'
    BY <2>1, <2>2, Zenon DEF StreamTypeOK, streamVars, doneVars
  <2>4. BatchTypeOK'
    BY <1>0, <2>1, Zenon DEF BatchTypeOK, dispVars
  <2> QED
    BY <2>3, <2>4, PollTypeUnchanged, SubTypeUnchanged, SdkTypeUnchanged
<1>2. CASE ProcessorSuspended(p) \/ AttemptRetry(p)
  <2> USE <1>2 DEF ProcessorSuspended, AttemptRetry
  <2>1. BatchTypeOK'
    BY Zenon DEF BatchTypeOK, dispVars
  <2> QED
    BY <2>1, StreamTypeUnchanged, PollTypeUnchanged, SubTypeUnchanged, SdkTypeUnchanged, Zenon
<1>3. CASE ProcessorUpdated(p)
  <2> USE <1>3 DEF ProcessorUpdated
  <2>1. wg' \in [Gens -> Int]
    BY <1>0, WGType, Zenon
  <2>2. StreamTypeOK'
    BY <2>1, Zenon DEF StreamTypeOK, streamVars, batchVars, doneVars
  <2>3. BatchTypeOK'
    BY Zenon DEF BatchTypeOK, dispVars
  <2> QED
    BY <2>2, <2>3, PollTypeUnchanged, SubTypeUnchanged, SdkTypeUnchanged, Zenon
<1>4. CASE ProcessorExit(p)
  <2> USE <1>4 DEF ProcessorExit
  <2>1. StreamTypeOK'
    BY Zenon DEF StreamTypeOK, streamVars, updateVars, batchVars
  <2>2. BatchTypeOK'
    BY Zenon DEF BatchTypeOK, dispVars
  <2> QED
    BY <2>1, <2>2, PollTypeUnchanged, SubTypeUnchanged, SdkTypeUnchanged, Zenon
<1>5. CASE ProcessBatch(p)
  <2> USE <1>5 DEF ProcessBatch, BatchDone
  <2>1. wg' \in [Gens -> Int]
    BY <1>0, WGType, Zenon
  <2>2. StreamTypeOK'
    BY <2>1, Zenon DEF StreamTypeOK, streamVars, batchVars, doneVars
  <2>3. BatchTypeOK'
    <3>1. /\ procPC' \in [Processors -> {"off", "idle", "loop", "retry", "sent", "processed",
                                         "abandoned", "ack", "exiting", "stuck"}]
          /\ procErr' \in [Processors -> BOOLEAN]
      BY Zenon DEF BatchTypeOK
    <3>2. procBatch' \in [Processors -> Seq(Event)]
      <4>1. procBatch' = procBatch \/ procBatch' = [procBatch EXCEPT ![p] = <<>>]
        BY Zenon
      <4>2. procBatch \in [Processors -> Seq(Event)] /\ <<>> \in Seq(Event)
        BY DEF BatchTypeOK
      <4> QED
        BY <4>1, <4>2, Zenon
    <3>3. batchWG' \in [Processors -> Gens] /\ actionWG' \in [Processors -> Gens]
      BY <1>0, ZeroGen, ZenonT(60) DEF BatchTypeOK
    <3> QED
      BY <3>1, <3>2, <3>3, Zenon DEF BatchTypeOK, dispVars
  <2> QED
    BY <2>2, <2>3, PollTypeUnchanged, SubTypeUnchanged, SdkTypeUnchanged, Zenon
<1>6. CASE PerformAction(p) \/ AttemptOK(p) \/ AttemptFail(p)
  <2> USE <1>6 DEF PerformAction, AttemptOK, AttemptFail, Returned
  <2>1. wg' \in [Gens -> Int]
    BY <1>0, WGType, Zenon
  <2>2. StreamTypeOK'
    BY <2>1, Zenon DEF StreamTypeOK, streamVars, batchVars, doneVars
  <2>3. BatchTypeOK'
    BY ZeroGen, ZenonT(60) DEF BatchTypeOK, dispVars
  <2>4. owed' \in [Subs -> SUBSET Nat]
    BY HandledType
  <2> QED
    BY <2>2, <2>3, <2>4, PollTypeUnchanged, SubTypeUnchanged, SdkTypeUnchanged, Zenon
<1>7. CASE ReleaseBatch(p)
  <2> USE <1>7 DEF ReleaseBatch
  <2>1. inFlight' \in Int
    BY DEF StreamTypeOK, BatchTypeOK
  <2>2. StreamTypeOK'
    BY <2>1, Zenon DEF StreamTypeOK, streamVars, updateVars, doneVars
  <2>3. BatchTypeOK'
    BY Zenon DEF BatchTypeOK, dispVars
  <2> QED
    BY <2>2, <2>3, PollTypeUnchanged, SubTypeUnchanged, SdkTypeUnchanged, Zenon
<1>8. CASE AckBatch(p)
  <2> USE <1>8 DEF AckBatch, BatchDone
  <2>1. wg' \in [Gens -> Int]
    BY <1>0, WGType, Zenon
  <2>2. StreamTypeOK'
    BY <2>1, Zenon DEF StreamTypeOK, streamVars, batchVars, doneVars
  <2>3. BatchTypeOK'
    BY ZeroGen DEF BatchTypeOK, dispVars
  <2>4. hwm' \in [Subs -> Nat]
    <3>1. procBatch[p] \in Seq(Event)
      BY Zenon DEF BatchTypeOK
    <3> QED
      BY <3>1, BatchCompleteType, Zenon DEF SubTypeOK
  <2>5. SubTypeOK'
    BY <2>4, Zenon DEF SubTypeOK
  <2> QED
    BY <2>2, <2>3, <2>5, PollTypeUnchanged, SdkTypeUnchanged, Zenon
<1> QED
  BY <1>1, <1>2, <1>3, <1>4, <1>5, <1>6, <1>7, <1>8, Zenon

\* startEventHandlers keeps the types of the goroutines it starts.
LEMMA StartHandlersType ==
  ASSUME TypeOK, NEW resume \in BOOLEAN, StartEventHandlers(resume)
  PROVE  /\ gen' \in Gens /\ wg' \in [Gens -> Int]
         /\ pollerDone' \in BOOLEAN /\ processorDone' \in BOOLEAN
         /\ PollTypeOK' /\ BatchTypeOK'
<1> USE DEF TypeOK, StartEventHandlers
<1>1. gen' \in Gens /\ wg' \in [Gens -> Int]
  BY DEF StreamTypeOK
<1>2. pollerDone' \in BOOLEAN /\ processorDone' \in BOOLEAN
  BY Zenon
<1>3. PollTypeOK'
  BY Zenon DEF PollTypeOK
<1>4. procPC' \in [Processors -> {"off", "idle", "loop", "retry", "sent", "processed",
                                  "abandoned", "ack", "exiting", "stuck"}]
  BY Zenon DEF BatchTypeOK
<1>5. /\ dispOn' \in [Dispatchers -> BOOLEAN] /\ currentBatch' \in [Dispatchers -> Seq(Event)]
      /\ watch' \in [Dispatchers -> Gens] /\ dispWG' \in [Dispatchers -> Gens]
  <2>1. CASE resume /\ UNCHANGED dispVars
    BY <2>1, Zenon DEF BatchTypeOK, dispVars
  <2>2. CASE ~resume
    <3>1. currentBatch' = currentBatch
      BY <2>2, Zenon
    <3>2. PICK d \in Dispatchers : /\ dispOn' = [dispOn EXCEPT ![d] = TRUE]
                                   /\ watch' = [watch EXCEPT ![d] = gen + 1]
                                   /\ dispWG' = [dispWG EXCEPT ![d] = gen + 1]
      BY <2>2, Zenon
    <3> QED
      BY <1>1, <3>1, <3>2, Zenon DEF BatchTypeOK
  <2> QED
    BY <2>1, <2>2, Zenon
<1>6. BatchTypeOK'
  BY <1>4, <1>5, Zenon DEF BatchTypeOK
<1> QED
  BY <1>1, <1>2, <1>3, <1>6, Zenon

\* The REST operations keep the types.
LEMMA TypeHandlers == TypeOK /\ Handlers => TypeOK'
<1> SUFFICES ASSUME TypeOK, Handlers PROVE TypeOK'
  BY Zenon
<1> USE DEF TypeOK
<1>1. CASE Suspend
  <2> USE <1>1 DEF Suspend
  <2>1. ops' \in [OpNames -> Nat]
    BY CountType, Zenon DEF OpNames
  <2>2. StreamTypeOK'
    BY Zenon DEF StreamTypeOK, updateVars, batchVars, doneVars
  <2> QED
    BY <2>1, <2>2, PollTypeUnchanged, BatchTypeUnchanged, SubTypeUnchanged, SdkTypeUnchanged, Zenon
<1>2. CASE Resume
  <2> USE <1>2 DEF Resume
  <2>1. ops' \in [OpNames -> Nat]
    BY CountType, Zenon DEF OpNames
  <2>2. StreamTypeOK'
    BY StartHandlersType, Zenon DEF StreamTypeOK, batchVars
  <2>3. PollTypeOK' /\ BatchTypeOK'
    BY StartHandlersType, Zenon
  <2> QED
    BY <2>1, <2>2, <2>3, SubTypeUnchanged, SdkTypeUnchanged, Zenon
<1>3. CASE UpdateBegin
  <2> USE <1>3 DEF UpdateBegin
  <2>1. ops' \in [OpNames -> Nat]
    BY CountType DEF OpNames
  <2>2. closed' \subseteq Gens /\ updater' \subseteq Gens
    BY Zenon DEF StreamTypeOK
  <2>3. StreamTypeOK'
    BY <2>2, Zenon DEF StreamTypeOK, streamVars, batchVars, doneVars
  <2> QED
    BY <2>1, <2>3, PollTypeUnchanged, BatchTypeUnchanged, SubTypeUnchanged, SdkTypeUnchanged, Zenon
<1>4. CASE UpdateFinish
  <2> USE <1>4 DEF UpdateFinish
  <2>1. updater' \subseteq Gens
    BY Zenon
  <2>2. StreamTypeOK'
    BY <2>1, StartHandlersType, Zenon DEF StreamTypeOK, batchVars
  <2>3. PollTypeOK' /\ BatchTypeOK'
    BY StartHandlersType, Zenon
  <2> QED
    BY <2>2, <2>3, SubTypeUnchanged, SdkTypeUnchanged, Zenon
<1>5. CASE UpdateRefused
  <2> USE <1>5 DEF UpdateRefused
  <2>1. ops' \in [OpNames -> Nat]
    BY CountType, Zenon DEF OpNames
  <2>2. updater' \subseteq Gens
    BY Zenon
  <2>3. StreamTypeOK'
    BY <2>2, Zenon DEF StreamTypeOK, streamVars, batchVars, doneVars
  <2> QED
    BY <2>1, <2>3, PollTypeUnchanged, BatchTypeUnchanged, SubTypeUnchanged, SdkTypeUnchanged, Zenon
<1>6. CASE Stop
  <2> USE <1>6 DEF Stop
  <2>1. ops' \in [OpNames -> Nat]
    BY CountType, Zenon DEF OpNames
  <2>2. StreamTypeOK'
    BY Zenon DEF StreamTypeOK, updateVars, batchVars, doneVars
  <2>3. SdkTypeOK'
    <3>1. \A s \in Subs : Len(BlockOf[s]) \in Nat
      BY ChainAssumption
    <3> QED
      BY <3>1 DEF SdkTypeOK
  <2> QED
    BY <2>1, <2>2, <2>3, PollTypeUnchanged, BatchTypeUnchanged, SubTypeUnchanged, Zenon
<1>7. ASSUME NEW s \in Subs, AddSubscription(s) PROVE TypeOK'
  <2> USE <1>7 DEF AddSubscription
  <2>1. SubTypeOK'
    BY Zenon DEF SubTypeOK, SubStates
  <2> QED
    BY <2>1, StreamTypeUnchanged, PollTypeUnchanged, BatchTypeUnchanged, SdkTypeUnchanged, Zenon
<1>8. ASSUME NEW s \in Subs, NEW b \in ResetBlocks, ResetSubscription(s, b) PROVE TypeOK'
  <2> USE <1>8 DEF ResetSubscription
  <2>1. ops' \in [OpNames -> Nat]
    BY CountType, Zenon DEF OpNames
  <2>2. SubTypeOK'
    BY FromBlockAssumption, Zenon DEF SubTypeOK
  <2> QED
    BY <2>1, <2>2, StreamTypeUnchanged, PollTypeUnchanged, BatchTypeUnchanged, SdkTypeUnchanged, Zenon
<1>9. ASSUME NEW s \in Subs, DeleteSubscription(s) PROVE TypeOK'
  <2> USE <1>9 DEF DeleteSubscription
  <2>1. ops' \in [OpNames -> Nat]
    BY CountType DEF OpNames
  <2>2. subState' \in [Subs -> SubStates] /\ resetRequested' \in [Subs -> BOOLEAN]
    BY Zenon DEF SubTypeOK, SubStates
  <2>3. SubTypeOK'
    BY <2>2, MarkFilterStaleType, Zenon DEF SubTypeOK
  <2>4. SdkTypeOK'
    BY MarkFilterStaleType, Zenon DEF SdkTypeOK
  <2> QED
    BY <2>1, <2>3, <2>4, StreamTypeUnchanged, PollTypeUnchanged, BatchTypeUnchanged, Zenon
<1> QED
  BY <1>1, <1>2, <1>3, <1>4, <1>5, <1>6, <1>7, <1>8, <1>9, Zenon DEF Handlers

\* A stuttering step keeps the types.
LEMMA TypeStutter == TypeOK /\ UNCHANGED vars => TypeOK'
  BY StreamTypeUnchanged, PollTypeUnchanged, BatchTypeUnchanged, SubTypeUnchanged,
     SdkTypeUnchanged, Zenon DEF TypeOK, vars

\* Every variable always has its type, for any number of subscriptions, any
\* chain and any bounds: the goroutines of an event stream pass only events of
\* the chain to each other, and marks and checkpoints are block heights.
THEOREM TypeCorrect == Spec => []TypeOK
<1>1. Init => TypeOK
  BY TypeInit, Zenon
<1>2. TypeOK /\ [Next]_vars => TypeOK'
  BY TypeMine, TypeCrash, TypeRecover, TypeRelaying, TypeDispatching, TypePolling,
     TypeProcessing,
     TypeHandlers, TypeStutter, Zenon DEF Next
<1> QED
  BY <1>1, <1>2, PTL DEF Spec

-----------------------------------------------------------------------------
(* The checkpoint, for every set of subscriptions, every chain and every   *)
(* value of the bounds.  That it never moves back is not inductive as it   *)
(* stands: it needs that a high-water mark, which a restarted process      *)
(* holds in memory from 0 up, has caught up with the stored checkpoint     *)
(* whenever the poller writes one.  MarksAheadOfCheckpoint says why, and   *)
(* is inductive given TypeOK.                                              *)

\* The invariant survives a step that leaves the poller, its checkpoint map
\* and the database alone, lowers no mark, refreshes no filter and reads
\* nothing from Fabric.
LEMMA MarksFrame ==
  ASSUME MarksAheadOfCheckpoint, TypeOK, TypeOK',
         UNCHANGED <<subState, checkpoint, stored, pollSubs, pollPC, pollCall,
                     pollTodo, resetRequested>>,
         ops'["reset"] = ops["reset"],
         \A s \in Subs : hwm[s] <= hwm'[s] /\ (filterStale[s] => filterStale'[s]),
         Quiet => Quiet'
  PROVE  MarksAheadOfCheckpoint'
<1>1. NewIsBlank'
  BY Zenon DEF MarksAheadOfCheckpoint, NewIsBlank, Active
<1>2. pollPC' = "call" => pollCall' \cap pollTodo' = {}
  BY Zenon DEF MarksAheadOfCheckpoint
<1>3. ASSUME ops["reset"] = 0
      PROVE  (\A s \in Subs : ~resetRequested'[s]) /\ MarkCovers' /\ MapCovers'
  <2>1. \A s \in Subs : ~resetRequested'[s]
    BY <1>3, Zenon DEF MarksAheadOfCheckpoint
  <2>2. MarkCovers'
    <3> SUFFICES ASSUME NEW s \in Subs, s \in Active
                 PROVE  stored[s] <= hwm'[s] \/ Restoring(s)'
      BY Zenon DEF MarkCovers, Active
    <3>1. stored[s] <= hwm[s] \/ Restoring(s)
      BY <1>3, Zenon DEF MarksAheadOfCheckpoint, MarkCovers
    <3>2. stored[s] \in Int /\ hwm[s] \in Int /\ hwm'[s] \in Int
      BY DEF TypeOK, SubTypeOK, Absent
    <3>3. Restoring(s) => Restoring(s)'
      BY Zenon DEF Restoring, NoCheckpoint
    <3> QED
      BY <3>1, <3>2, <3>3
  <2>3. MapCovers'
    BY <1>3, Zenon DEF MarksAheadOfCheckpoint, MapCovers, NoCheckpoint, Active
  <2> QED
    BY <2>1, <2>2, <2>3, Zenon
<1> QED
  BY <1>1, <1>2, <1>3, Zenon DEF MarksAheadOfCheckpoint

\* Initially nothing is stored.
LEMMA MarksInit == Init => MarksAheadOfCheckpoint
<1> SUFFICES ASSUME Init PROVE MarksAheadOfCheckpoint
  BY Zenon
<1> USE DEF Init
<1>1. NewIsBlank
  BY Zenon DEF NewIsBlank, Active
<1>2. \A s \in Subs : ~resetRequested[s]
  BY Zenon
<1>3. MarkCovers
  BY DEF MarkCovers, Active, Absent
<1>4. MapCovers
  BY Zenon DEF MapCovers, NoCheckpoint
<1> QED
  BY <1>1, <1>2, <1>3, <1>4, Zenon DEF MarksAheadOfCheckpoint

\* High-water marks are integers.
LEMMA MarkInt == TypeOK => \A s \in Subs : hwm[s] \in Int
  BY DEF TypeOK, SubTypeOK

\* A step that leaves the marks alone lowers none.
LEMMA MarkKept == TypeOK /\ hwm' = hwm => \A s \in Subs : hwm[s] <= hwm'[s]
  BY MarkInt

\* A new block, a relay and a dispatcher keep the invariant: they touch neither
\* marks nor checkpoints, and only a stream that has read events gives them work.
LEMMA MarksEnvironment ==
  ASSUME TypeOK, TypeOK', MarksAheadOfCheckpoint, Mine \/ Relaying \/ Dispatching
  PROVE  MarksAheadOfCheckpoint'
<1>1. CASE Mine
  <2> USE <1>1 DEF Mine, subVars, sdkVars, batchVars, pollVars, dispVars, procVars
  <2>1. Quiet => Quiet'
    BY Zenon DEF Quiet
  <2> QED
    BY MarkKept, <2>1, MarksFrame, Zenon
<1>2. CASE Relaying
  <2> PICK s \in Subs, i \in Relays : RelayRead(s, i) \/ RelayExit(s, i)
    BY <1>2, Zenon DEF Relaying
  <2> USE DEF RelayRead, RelayExit, subVars, pollVars
  <2>1. ~Quiet
    BY DEF Quiet, Off, Idle
  <2> QED
    BY MarkKept, <2>1, MarksFrame, Zenon
<1>3. CASE Dispatching
  <2> PICK d \in Dispatchers : \/ \E s \in Subs, i \in Relays : DispatchEvent(d, s, i)
                               \/ DispatchTimeout(d) \/ DispatchExit(d)
    BY <1>3, Zenon DEF Dispatching
  <2>1. CASE \E s \in Subs, i \in Relays : DispatchEvent(d, s, i)
    <3> USE <2>1 DEF DispatchEvent, subVars, pollVars
    <3>1. ~Quiet
      BY DEF Quiet, Off
    <3> QED
      BY MarkKept, <3>1, MarksFrame, Zenon
  <2>2. CASE DispatchTimeout(d)
    <3> USE <2>2 DEF DispatchTimeout, subVars, pollVars
    <3>1. ~Quiet
      BY Zenon DEF Quiet
    <3> QED
      BY MarkKept, <3>1, MarksFrame, Zenon
  <2>3. CASE DispatchExit(d)
    <3> USE <2>3 DEF DispatchExit, subVars, pollVars
    <3>1. Quiet => Quiet'
      BY Zenon DEF Quiet, batchVars, sdkVars, procVars, TypeOK, BatchTypeOK
    <3> QED
      BY MarkKept, <3>1, MarksFrame, Zenon
  <2> QED
    BY <2>1, <2>2, <2>3, Zenon
<1> QED
  BY <1>1, <1>2, <1>3, Zenon

\* batchProcessor takes a batch off the queue: the stream has read events.
LEMMA MarksProcessorTake ==
  ASSUME TypeOK, TypeOK', MarksAheadOfCheckpoint, NEW p \in Processors,
         ProcessorTake(p)
  PROVE  MarksAheadOfCheckpoint'
<1>1. batchQueue # <<>> /\ UNCHANGED <<subVars, pollVars, stored, ops>>
  BY Zenon DEF ProcessorTake
<1>2. ~Quiet
  BY <1>1, Zenon DEF Quiet
<1> QED
  BY MarkKept, <1>1, <1>2, MarksFrame, Zenon DEF subVars, pollVars

\* A processor that returns touches no mark.
LEMMA MarksProcessorReturns ==
  ASSUME TypeOK, TypeOK', MarksAheadOfCheckpoint, NEW p \in Processors,
         ProcessorSuspended(p) \/ ProcessorUpdated(p) \/ ProcessorExit(p)
  PROVE  MarksAheadOfCheckpoint'
<1> USE DEF ProcessorSuspended, ProcessorUpdated, ProcessorExit, subVars, pollVars
<1>1. Quiet => Quiet'
  <2>1. UNCHANGED <<batchVars, filterStale, relay, currentBatch, procBatch>>
    BY Zenon DEF sdkVars, dispVars
  <2>2. \E pc \in {"exiting", "stuck", "off"} : procPC' = [procPC EXCEPT ![p] = pc]
    BY Zenon
  <2>3. \A q \in Processors : procPC'[q] = procPC[q] \/ procPC'[q] \in {"exiting", "stuck", "off"}
    BY <2>2, Zenon DEF TypeOK, BatchTypeOK
  <2> QED
    BY <2>1, <2>3, Zenon DEF Quiet, batchVars
<1> QED
  BY MarkKept, <1>1, MarksFrame, Zenon

\* processBatch and performActionWithRetry touch no mark.
LEMMA MarksProcessBatch ==
  ASSUME TypeOK, TypeOK', MarksAheadOfCheckpoint, NEW p \in Processors,
         \/ ProcessBatch(p) \/ PerformAction(p) \/ AttemptOK(p) \/ AttemptRetry(p)
         \/ AttemptFail(p) \/ ReleaseBatch(p)
  PROVE  MarksAheadOfCheckpoint'
<1>1. procPC[p] \in {"loop", "retry", "sent", "processed", "abandoned"}
  BY Zenon DEF ProcessBatch, PerformAction, AttemptOK, AttemptRetry, AttemptFail, ReleaseBatch
<1>2. ~Quiet
  BY <1>1, Zenon DEF Quiet
<1>3. UNCHANGED <<subVars, pollVars, stored, ops>>
  BY Zenon DEF ProcessBatch, PerformAction, AttemptOK, AttemptRetry, AttemptFail, ReleaseBatch
<1> QED
  BY MarkKept, <1>2, <1>3, MarksFrame, Zenon DEF subVars, pollVars

\* batchComplete only raises marks.
LEMMA MarksAckBatch ==
  ASSUME TypeOK, TypeOK', MarksAheadOfCheckpoint, NEW p \in Processors,
         AckBatch(p)
  PROVE  MarksAheadOfCheckpoint'
<1> USE DEF AckBatch, subVars, pollVars
<1>1. ~Quiet
  BY Zenon DEF Quiet
<1>2. \A s \in Subs : hwm[s] <= hwm'[s]
  <2>1. procBatch[p] \in Seq(Event)
    BY Zenon DEF TypeOK, BatchTypeOK
  <2>2. \A s \in Subs : BatchComplete(procBatch[p])[s] >= hwm[s]
                        /\ BatchComplete(procBatch[p])[s] \in Nat
    BY <2>1, BatchCompleteType, Zenon DEF TypeOK
  <2> QED
    BY MarkInt, <2>2
<1> QED
  BY <1>1, <1>2, MarksFrame, Zenon

\* batchProcessor keeps the invariant: the only mark it changes is raised by
\* batchComplete.
LEMMA MarksProcessing ==
  ASSUME TypeOK, TypeOK', MarksAheadOfCheckpoint, Processing
  PROVE  MarksAheadOfCheckpoint'
  BY MarksProcessorTake, MarksProcessorReturns, MarksProcessBatch, MarksAckBatch, Zenon DEF Processing

\* A restarted process has read nothing and has no checkpoint map, so all its
\* marks are still to be restored.
LEMMA MarksCrash ==
  ASSUME "recovery" \notin Faults, TypeOK, TypeOK', MarksAheadOfCheckpoint, Crash
  PROVE  MarksAheadOfCheckpoint'
<1> USE DEF Crash
<1>0. subState' = subState
  BY Zenon DEF TypeOK, SubTypeOK
<1>1. NewIsBlank'
  BY <1>0, Zenon DEF MarksAheadOfCheckpoint, NewIsBlank, Active
<1>2. pollPC' # "call"
  BY Zenon
<1>3. \A s \in Subs : ~resetRequested'[s]
  BY Zenon
<1>4. NoCheckpoint'
  BY Zenon DEF NoCheckpoint
<1>5. Quiet'
  BY Zenon DEF Quiet
<1>6. MarkCovers' /\ MapCovers'
  BY <1>4, <1>5, Zenon DEF MarkCovers, Restoring, MapCovers
<1> QED
  BY <1>1, <1>2, <1>3, <1>6, Zenon DEF MarksAheadOfCheckpoint

\* A stream that has read nothing since the start is not blocked, so its poller
\* visits every subscription before it records a checkpoint.
LEMMA QuietNotBlocked ==
  ASSUME TypeOK, Quiet
  PROVE  ~isBlocked
  BY ConfigAssumption DEF TypeOK, StreamTypeOK, Quiet, isBlocked

\* The types of marks and checkpoints.
LEMMA MarkTypes ==
  ASSUME TypeOK
  PROVE  /\ \A s \in Subs : /\ hwm[s] \in Nat /\ stored[s] \in Nat \cup {-1}
                           /\ checkpoint[s] \in Nat \cup {-1}
         /\ Active \subseteq Subs
  BY Zenon DEF TypeOK, SubTypeOK, PollTypeOK, Active, Absent

\* Orders of marks: Absent lies below every block.
LEMMA MarkOrder ==
  /\ \A a \in Nat \cup {-1} : a <= a
  /\ \A a, b \in Nat \cup {-1}, h \in Nat : a <= b /\ b <= 0 => a <= h
  /\ \A a \in Nat \cup {-1}, h \in Nat : a <= 0 => h >= a
  /\ \A a, b \in Nat \cup {-1} : a <= b /\ b <= 0 => a <= 0
  /\ Absent <= 0
  BY DEF Absent

\* A poller that exits leaves no checkpoint map behind: the next one reloads it.
LEMMA MarksPollExit ==
  ASSUME TypeOK, TypeOK', MarksAheadOfCheckpoint, PollExit
  PROVE  MarksAheadOfCheckpoint'
<1> USE DEF PollExit
<1>1. NewIsBlank' /\ NoCheckpoint'
  BY Zenon DEF MarksAheadOfCheckpoint, NewIsBlank, NoCheckpoint
<1>2. Quiet => Quiet'
  BY Zenon DEF Quiet, MarkFilterStale, batchVars, dispVars, procVars
<1>3. ASSUME ops["reset"] = 0 PROVE MarkCovers'
  <2> SUFFICES ASSUME NEW s \in Active, Restoring(s) PROVE Restoring(s)'
    BY <1>3, Zenon DEF MarksAheadOfCheckpoint, MarkCovers, Active
  <2> QED
    BY <1>1, <1>2, Zenon DEF Restoring
<1>4. MapCovers'
  BY <1>1, Zenon DEF MapCovers
<1> QED
  BY <1>1, <1>3, <1>4, Zenon DEF MarksAheadOfCheckpoint

\* A poller without a checkpoint map takes the stored one, and a process that has
\* read nothing yet has every subscription to visit.
LEMMA MarksPollBegin ==
  ASSUME TypeOK, TypeOK', MarksAheadOfCheckpoint, PollBegin
  PROVE  MarksAheadOfCheckpoint'
<1> USE DEF PollBegin, subVars
<1>1. NewIsBlank'
  BY Zenon DEF MarksAheadOfCheckpoint, NewIsBlank, Active
<1>2. ASSUME ops["reset"] = 0 PROVE MapCovers'
  <2> SUFFICES ASSUME NEW s \in Active PROVE stored[s] <= checkpoint'[s]
    BY Zenon DEF MapCovers, Active
  <2>1. CASE NoCheckpoint
    BY MarkTypes, MarkOrder, <2>1, Zenon
  <2>2. CASE ~NoCheckpoint
    BY <1>2, <2>2, Zenon DEF MarksAheadOfCheckpoint, MapCovers
  <2> QED
    BY <2>1, <2>2, Zenon
<1>3. ASSUME ops["reset"] = 0 PROVE MarkCovers'
  <2> SUFFICES ASSUME NEW s \in Active, Restoring(s) PROVE Restoring(s)'
    BY <1>3, Zenon DEF MarksAheadOfCheckpoint, MarkCovers, Active
  <2>1. Quiet /\ NoCheckpoint
    BY Zenon DEF Restoring
  <2>2. pollTodo' = Active
    BY <2>1, QuietNotBlocked, Zenon
  <2>3. checkpoint'[s] = stored'[s] /\ filterStale'[s]
    BY MarkTypes, <2>1, Zenon DEF Quiet
  <2> QED
    BY <2>2, <2>3, Zenon DEF Restoring
<1> QED
  BY <1>1, <1>2, <1>3, Zenon DEF MarksAheadOfCheckpoint

\* A failed load and the wait between two cycles change neither marks nor map.
LEMMA MarksPollIdle ==
  ASSUME TypeOK, TypeOK', MarksAheadOfCheckpoint, PollLoadFails \/ PollWait
  PROVE  MarksAheadOfCheckpoint'
<1> USE DEF PollLoadFails, PollWait, subVars, batchVars, dispVars, procVars, sdkVars
<1>1. NewIsBlank'
  BY Zenon DEF MarksAheadOfCheckpoint, NewIsBlank, Active
<1>2. Quiet => Quiet'
  BY Zenon DEF Quiet
<1>3. ASSUME ops["reset"] = 0 PROVE MapCovers'
  BY <1>3, Zenon DEF MarksAheadOfCheckpoint, MapCovers, NoCheckpoint, Active
<1>4. ASSUME ops["reset"] = 0 PROVE MarkCovers'
  <2> SUFFICES ASSUME NEW s \in Active, Restoring(s) PROVE Restoring(s)'
    BY <1>4, Zenon DEF MarksAheadOfCheckpoint, MarkCovers, Active
  <2> QED
    BY <1>2, Zenon DEF Restoring, NoCheckpoint
<1> QED
  BY <1>1, <1>3, <1>4, Zenon DEF MarksAheadOfCheckpoint

\* Visiting a subscription restores its mark from the checkpoint map.
LEMMA MarksPollSub ==
  ASSUME TypeOK, TypeOK', MarksAheadOfCheckpoint, NEW t \in Subs, PollSub(t)
  PROVE  MarksAheadOfCheckpoint'
<1> USE DEF PollSub, SetInitialBlockHeight, SetCheckpointBlockHeight
<1>1. NewIsBlank'
  BY DEF MarksAheadOfCheckpoint, NewIsBlank, Active
<1>2. pollPC' = "call" => pollCall' \cap pollTodo' = {}
  BY Zenon DEF CallSubscribe
<1>3. ASSUME ops["reset"] = 0
      PROVE  (\A s \in Subs : ~resetRequested'[s]) /\ MarkCovers' /\ MapCovers'
  <2>1. \A s \in Subs : ~resetRequested[s]
    BY <1>3, Zenon DEF MarksAheadOfCheckpoint
  <2>2. \A s \in Subs : ~resetRequested'[s]
    BY <2>1, Zenon DEF TypeOK, SubTypeOK
  <2>3. checkpoint' = checkpoint
    BY <2>1, Zenon DEF TypeOK, PollTypeOK
  <2>4. \A s \in Active : stored[s] <= checkpoint[s]
    BY <1>3, Zenon DEF MarksAheadOfCheckpoint, MapCovers
  <2>5. MapCovers'
    BY <2>3, <2>4, Zenon DEF MapCovers, Active
  <2>6. pollPC' \in {"subs", "call"}
    BY Zenon DEF CallSubscribe
  <2>7. \A s \in Subs : filterStale'[s] = filterStale[s]
    BY <2>1, Zenon DEF MarkFilterStale, TypeOK, SubTypeOK
  <2>8. ASSUME NEW s \in Active PROVE stored[s] <= hwm'[s] \/ Restoring(s)'
    <3>0. stored[s] <= hwm[s] \/ Restoring(s)
      BY <1>3, Zenon DEF MarksAheadOfCheckpoint, MarkCovers
    <3>1. CASE s # t
      <4>1. hwm'[s] = hwm[s]
        BY MarkTypes, <3>1, Zenon DEF TypeOK, SubTypeOK
      <4>2. Restoring(s) => Restoring(s)'
        BY MarkTypes, <3>1, <2>3, <2>6, <2>7, Zenon DEF Restoring
      <4> QED
        BY <3>0, <4>1, <4>2, Zenon
    <3>2. CASE s = t
      <4>1. /\ stored[t] \in Nat \cup {-1} /\ checkpoint[t] \in Nat \cup {-1}
            /\ hwm[t] \in Nat /\ height \in Nat /\ stored[t] <= checkpoint[t]
        <5>1. height \in Nat
          BY BoundAssumption DEF TypeOK
        <5> QED
          BY <2>4, <3>2, <5>1, MarkTypes, Zenon
      <4>2. \/ hwm'[t] = hwm[t]
            \/ hwm'[t] = checkpoint[t]
            \/ checkpoint[t] <= 0 /\ hwm'[t] = height
        BY <2>1, Zenon DEF TypeOK, SubTypeOK
      <4>3. Restoring(t) => \/ hwm'[t] = checkpoint[t]
                            \/ checkpoint[t] <= 0 /\ hwm'[t] \in {hwm[t], height}
        BY <2>1, <3>2, Zenon DEF TypeOK, SubTypeOK, Restoring, Active
      <4>4. hwm'[t] = hwm[t] \/ stored[t] <= hwm'[t]
        BY <4>1, <4>2, MarkOrder, Zenon
      <4>5. Restoring(t) => stored[t] <= hwm'[t]
        BY <4>1, <4>3, MarkOrder, Zenon
      <4> QED
        BY <3>0, <3>2, <4>4, <4>5, Zenon
    <3> QED
      BY <3>1, <3>2, Zenon
  <2>9. MarkCovers'
    BY <2>8, Zenon DEF MarkCovers, Active
  <2> QED
    BY <2>2, <2>5, <2>9, Zenon
<1>4. ops' = ops
  BY Zenon
<1>5. ops'["reset"] = 0 => (\A s \in Subs : ~resetRequested'[s]) /\ MarkCovers' /\ MapCovers'
  BY <1>3, <1>4, Zenon
<1> HIDE DEF PollSub
<1> QED
  BY <1>1, <1>2, <1>5 DEF MarksAheadOfCheckpoint

\* SubscribeEvent returns for a subscription that has been visited already.
LEMMA MarksPollSubscribed ==
  ASSUME TypeOK, TypeOK', MarksAheadOfCheckpoint, NEW t \in Subs, PollSubscribed(t)
  PROVE  MarksAheadOfCheckpoint'
<1> USE DEF PollSubscribed
<1>1. NewIsBlank'
  BY Zenon DEF MarksAheadOfCheckpoint, NewIsBlank, Active
<1>2. t \notin pollTodo
  BY Zenon DEF MarksAheadOfCheckpoint
<1>3. ASSUME ops["reset"] = 0 PROVE MarkCovers' /\ MapCovers'
  <2>1. MapCovers'
    BY <1>3, Zenon DEF MarksAheadOfCheckpoint, MapCovers, Active
  <2>2. ASSUME NEW s \in Active, Restoring(s) PROVE Restoring(s)'
    BY MarkTypes, <1>2, <2>2, Zenon DEF Restoring, TypeOK, SubTypeOK
  <2> QED
    BY <1>3, <2>1, <2>2, Zenon DEF MarksAheadOfCheckpoint, MarkCovers, Active
<1> QED
  BY <1>1, <1>3, Zenon DEF MarksAheadOfCheckpoint

\* A failed SubscribeEvent changes no mark.
LEMMA MarksPollSubscribeFails ==
  ASSUME TypeOK, TypeOK', MarksAheadOfCheckpoint, PollSubscribeFails
  PROVE  MarksAheadOfCheckpoint'
<1> USE DEF PollSubscribeFails, subVars
<1>1. NewIsBlank'
  BY Zenon DEF MarksAheadOfCheckpoint, NewIsBlank, Active
<1>2. ASSUME ops["reset"] = 0 PROVE MarkCovers' /\ MapCovers'
  <2>1. MapCovers'
    BY <1>2, Zenon DEF MarksAheadOfCheckpoint, MapCovers, Active
  <2>2. ASSUME NEW s \in Active, Restoring(s) PROVE Restoring(s)'
    BY <2>2, Zenon DEF Restoring
  <2> QED
    BY <1>2, <2>1, <2>2, Zenon DEF MarksAheadOfCheckpoint, MarkCovers, Active
<1> QED
  BY <1>1, <1>2, Zenon DEF MarksAheadOfCheckpoint

\* When all subscriptions are visited, the marks stored have caught up with the
\* checkpoint they replace.
LEMMA MarksPollRecord ==
  ASSUME TypeOK, TypeOK', MarksAheadOfCheckpoint, PollRecord
  PROVE  MarksAheadOfCheckpoint'
<1> USE DEF PollRecord, subVars
<1>1. NewIsBlank'
  BY Zenon DEF MarksAheadOfCheckpoint, NewIsBlank, Active
<1>2. ASSUME ops["reset"] = 0 PROVE MarkCovers' /\ MapCovers'
  <2>1. \A s \in Active : stored[s] <= checkpoint[s]
    BY <1>2, Zenon DEF MarksAheadOfCheckpoint, MapCovers
  <2>2. \A s \in Active : stored[s] <= hwm[s]
    BY <1>2, Zenon DEF MarksAheadOfCheckpoint, MarkCovers, Restoring
  <2>3. \A s \in Active \ pollSubs : checkpoint[s] = -1
    BY MarkTypes, Zenon DEF MarksAheadOfCheckpoint, NewIsBlank, Absent
  <2>4. \A s \in Active : stored'[s] <= checkpoint'[s] /\ stored'[s] <= hwm[s]
    BY MarkTypes, <2>1, <2>2, <2>3
  <2> QED
    BY <2>4, Zenon DEF MarkCovers, MapCovers, Active
<1> QED
  BY <1>1, <1>2, Zenon DEF MarksAheadOfCheckpoint

\* eventPoller keeps the invariant.  PollBegin hands a restarted process the
\* stored map with every subscription to visit; PollSub restores a mark from it;
\* PollRecord, when all are visited, stores marks that have caught up.
LEMMA MarksPolling ==
  ASSUME TypeOK, TypeOK', MarksAheadOfCheckpoint, Polling
  PROVE  MarksAheadOfCheckpoint'
  BY MarksPollExit, MarksPollBegin, MarksPollIdle, MarksPollSub, MarksPollSubscribed,
     MarksPollSubscribeFails, MarksPollRecord, Zenon DEF Polling

\* suspend, stop and the first half of update only set flags.
LEMMA MarksFlags ==
  ASSUME TypeOK, TypeOK', MarksAheadOfCheckpoint, Suspend \/ UpdateBegin \/ UpdateRefused \/ Stop
  PROVE  MarksAheadOfCheckpoint'
<1>1. UNCHANGED <<subVars, pollVars, stored, batchVars, dispVars, procVars, relay>>
  BY Zenon DEF Suspend, UpdateBegin, UpdateRefused, Stop, sdkVars
<1>2. ops'["reset"] = ops["reset"]
  BY Zenon DEF Suspend, UpdateBegin, UpdateRefused, Stop, Count, TypeOK, OpNames
<1>3. Quiet => Quiet'
  BY <1>1, Zenon DEF Quiet, subVars, batchVars, dispVars, procVars
<1> QED
  BY MarkKept, <1>1, <1>2, <1>3, MarksFrame, Zenon DEF subVars, pollVars

\* startEventHandlers starts a poller that keeps the checkpoint map.
LEMMA MarksRestart ==
  ASSUME TypeOK, TypeOK', MarksAheadOfCheckpoint, Resume \/ UpdateFinish
  PROVE  MarksAheadOfCheckpoint'
<1>1. PICK resume \in BOOLEAN : StartEventHandlers(resume)
  BY Zenon DEF Resume, UpdateFinish
<1>2. UNCHANGED <<batchVars, subVars, sdkVars, stored>>
  BY Zenon DEF Resume, UpdateFinish
<1>3. ops'["reset"] = ops["reset"]
  BY Zenon DEF Resume, UpdateFinish, Count, TypeOK, OpNames
<1>4. UNCHANGED <<pollSubs, pollTodo, pollCall, checkpoint>> /\ pollPC = "done" /\ pollPC' = "top"
  BY <1>1, Zenon DEF StartEventHandlers
<1>5. UNCHANGED <<currentBatch, procBatch>>
  BY <1>1, Zenon DEF StartEventHandlers, dispVars
<1>6. \A p \in Processors : procPC'[p] = procPC[p] \/ procPC'[p] = "idle"
  BY <1>1 DEF StartEventHandlers, TypeOK, BatchTypeOK
<1>7. Quiet => Quiet'
  BY <1>2, <1>5, <1>6, Zenon DEF Quiet, batchVars, subVars, sdkVars
<1>8. NewIsBlank'
  BY <1>2, <1>4, Zenon DEF MarksAheadOfCheckpoint, NewIsBlank, subVars
<1>9. ASSUME ops["reset"] = 0
      PROVE  (\A s \in Subs : ~resetRequested'[s]) /\ MarkCovers' /\ MapCovers'
  <2>1. \A s \in Subs : ~resetRequested'[s]
    BY <1>2, <1>9, Zenon DEF MarksAheadOfCheckpoint, subVars
  <2>2. MapCovers'
    BY <1>2, <1>4, <1>9, Zenon DEF MarksAheadOfCheckpoint, MapCovers, NoCheckpoint, Active, subVars
  <2>3. ASSUME NEW s \in Active, Restoring(s) PROVE Restoring(s)'
    BY <1>4, <1>7, <2>3, Zenon DEF Restoring, NoCheckpoint
  <2>4. MarkCovers'
    BY <1>2, <1>9, <2>3, Zenon DEF MarksAheadOfCheckpoint, MarkCovers, Active, subVars
  <2> QED
    BY <2>1, <2>2, <2>4, Zenon
<1> QED
  BY <1>3, <1>4, <1>8, <1>9, Zenon DEF MarksAheadOfCheckpoint

\* A new subscription has no checkpoint, so its mark covers it.
LEMMA MarksAddSubscription ==
  ASSUME TypeOK, TypeOK', MarksAheadOfCheckpoint, NEW t \in Subs, AddSubscription(t)
  PROVE  MarksAheadOfCheckpoint'
<1> USE DEF AddSubscription, pollVars
<1>0. subState'[t] = "active" /\ \A s \in Subs : s # t => subState'[s] = subState[s]
  BY Zenon DEF TypeOK, SubTypeOK
<1>1. stored[t] = -1 /\ checkpoint[t] = -1
  BY Zenon DEF MarksAheadOfCheckpoint, NewIsBlank, Absent
<1>2. NewIsBlank'
  BY <1>0, <1>1, Zenon DEF MarksAheadOfCheckpoint, NewIsBlank, Active, Absent
<1>3. \A s \in Active' : s = t \/ s \in Active
  BY <1>0 DEF Active
<1>4. Quiet => Quiet'
  BY Zenon DEF Quiet, batchVars, dispVars, procVars, sdkVars
<1>5. ASSUME ops["reset"] = 0 PROVE MarkCovers' /\ MapCovers'
  <2>1. MapCovers'
    BY MarkTypes, <1>1, <1>3, <1>5 DEF MarksAheadOfCheckpoint, MapCovers, NoCheckpoint
  <2>2. ASSUME NEW s \in Active, Restoring(s) PROVE Restoring(s)'
    BY <1>4, <2>2, Zenon DEF Restoring, NoCheckpoint
  <2>3. MarkCovers'
    BY MarkTypes, <1>1, <1>3, <1>5, <2>2 DEF MarksAheadOfCheckpoint, MarkCovers
  <2> QED
    BY <2>1, <2>3, Zenon
<1> QED
  BY <1>2, <1>5, Zenon DEF MarksAheadOfCheckpoint

\* Once a subscription is reset the invariant promises nothing about marks.
LEMMA MarksResetSubscription ==
  ASSUME TypeOK, TypeOK', MarksAheadOfCheckpoint, NEW t \in Subs, NEW b \in ResetBlocks, ResetSubscription(t, b)
  PROVE  MarksAheadOfCheckpoint'
<1> USE DEF ResetSubscription, pollVars
<1>1. NewIsBlank'
  BY Zenon DEF MarksAheadOfCheckpoint, NewIsBlank, Active
<1>2. ops'["reset"] # 0
  BY DEF Count, TypeOK, OpNames
<1> QED
  BY <1>1, <1>2, Zenon DEF MarksAheadOfCheckpoint

\* A deleted subscription is no longer covered, the others are left alone.
LEMMA MarksDeleteSubscription ==
  ASSUME TypeOK, TypeOK', MarksAheadOfCheckpoint, NEW t \in Subs, DeleteSubscription(t)
  PROVE  MarksAheadOfCheckpoint'
<1> USE DEF DeleteSubscription, pollVars
<1>0. subState'[t] = "deleted" /\ \A s \in Subs : s # t => subState'[s] = subState[s]
  BY Zenon DEF TypeOK, SubTypeOK
<1>1. NewIsBlank'
  BY <1>0, Zenon DEF MarksAheadOfCheckpoint, NewIsBlank, Active
<1>2. ops'["reset"] = ops["reset"]
  BY Zenon DEF Count, TypeOK, OpNames
<1>3. \A s \in Active' : s \in Active
  BY <1>0, Zenon DEF Active
<1>4. \A s \in Subs : filterStale[s] => filterStale'[s]
  BY Zenon DEF MarkFilterStale
<1>5. Quiet => Quiet'
  BY <1>4, Zenon DEF Quiet, batchVars, dispVars, procVars
<1>6. ASSUME ops["reset"] = 0
      PROVE  (\A s \in Subs : ~resetRequested'[s]) /\ MarkCovers' /\ MapCovers'
  <2>1. \A s \in Subs : ~resetRequested'[s]
    BY <1>6, Zenon DEF MarksAheadOfCheckpoint, TypeOK, SubTypeOK
  <2>2. MapCovers'
    BY <1>3, <1>6, Zenon DEF MarksAheadOfCheckpoint, MapCovers, NoCheckpoint
  <2>3. ASSUME NEW s \in Active, Restoring(s) PROVE Restoring(s)'
    BY MarkTypes, <1>4, <1>5, <2>3, Zenon DEF Restoring, NoCheckpoint
  <2>4. MarkCovers'
    BY <1>3, <1>6, <2>3, Zenon DEF MarksAheadOfCheckpoint, MarkCovers
  <2> QED
    BY <2>1, <2>2, <2>4, Zenon
<1> QED
  BY <1>1, <1>2, <1>6, Zenon DEF MarksAheadOfCheckpoint

\* The REST operations keep the invariant; after a reset it promises nothing.
LEMMA MarksHandlers ==
  ASSUME TypeOK, TypeOK', MarksAheadOfCheckpoint, Handlers
  PROVE  MarksAheadOfCheckpoint'
  BY MarksFlags, MarksRestart, MarksAddSubscription, MarksResetSubscription,
     MarksDeleteSubscription, Zenon DEF Handlers

\* Every step keeps the invariant, if recoverSubscriptions is done when the
\* poller starts.
LEMMA MarksStep ==
  ASSUME "recovery" \notin Faults, TypeOK, TypeOK', MarksAheadOfCheckpoint, [Next]_vars
  PROVE  MarksAheadOfCheckpoint'
<1>1. CASE UNCHANGED vars
  <2> USE <1>1 DEF vars, subVars, pollVars, batchVars, dispVars, procVars, sdkVars
  <2>1. Quiet => Quiet'
    BY Zenon DEF Quiet
  <2> QED
    BY MarkKept, <2>1, MarksFrame, Zenon
<1>2. ~ \E s \in Subs : RecoverSubscription(s)
  BY Zenon DEF RecoverSubscription, TypeOK, SubTypeOK, SubStates
<1>3. CASE Next
  BY <1>2, <1>3, MarksEnvironment, MarksCrash, MarksPolling, MarksProcessing, MarksHandlers, Zenon
     DEF Next
<1> QED
  BY <1>1, <1>3, Zenon

\* MarksAheadOfCheckpoint is an invariant: when eventPoller writes a checkpoint
\* no high-water mark is behind the one in LevelDB, whatever crashes, suspends,
\* updates and failed calls came before, as long as the poller of a restarted
\* process starts after recoverSubscriptions is done.
THEOREM MarksCorrect ==
  ASSUME "recovery" \notin Faults
  PROVE  Spec => []MarksAheadOfCheckpoint
<1>1. Init => MarksAheadOfCheckpoint
  BY MarksInit, Zenon
<1>2. TypeOK /\ TypeOK' /\ MarksAheadOfCheckpoint /\ [Next]_vars => MarksAheadOfCheckpoint'
  BY MarksStep
<1> QED
  BY <1>1, <1>2, TypeCorrect, PTL DEF Spec

\* storeCheckpoint is called from one place only, the end of a polling cycle.
LEMMA OnlyRecordStores == Next => PollRecord \/ UNCHANGED stored
  BY ZenonT(30) DEF Next, Mine, Crash, Relaying, RelayRead, RelayExit, Dispatching,
     DispatchEvent,
     DispatchTimeout, DispatchExit, Polling, PollExit, PollBegin, PollLoadFails, PollSub,
     PollSubscribed, PollSubscribeFails, PollWait, Processing, ProcessorTake,
     ProcessorSuspended, ProcessorUpdated, ProcessorExit, ProcessBatch, PerformAction,
     AttemptOK, AttemptRetry, AttemptFail, ReleaseBatch, AckBatch, Handlers, Suspend,
     Resume, UpdateBegin, UpdateFinish, UpdateRefused, Stop, AddSubscription,
     ResetSubscription, DeleteSubscription, RecoverSubscription

\* The checkpoint eventPoller persists never moves back for a subscription
\* that was not reset, as long as the poller of a restarted process starts after
\* recoverSubscriptions is done.
THEOREM CheckpointNeverMovesBack ==
  ASSUME "recovery" \notin Faults
  PROVE  Spec => CheckpointMonotonic
<1>1. TypeOK /\ MarksAheadOfCheckpoint /\ [Next]_vars
        => [ops["reset"] > 0 \/ \A s \in Active : stored'[s] >= stored[s]]_vars
  <2> SUFFICES ASSUME TypeOK, MarksAheadOfCheckpoint, Next, ~(ops["reset"] > 0), NEW s \in Active
               PROVE  stored'[s] >= stored[s]
    BY Zenon
  <2>0. /\ s \in Subs /\ hwm[s] \in Nat /\ stored[s] \in Nat \cup {-1}
        /\ checkpoint[s] \in Nat \cup {-1} /\ ops["reset"] = 0
    BY DEF TypeOK, SubTypeOK, PollTypeOK, Active, Absent, OpNames
  <2>1. CASE UNCHANGED stored
    <3>1. stored'[s] = stored[s]
      BY <2>1, Zenon
    <3>2. stored[s] >= stored[s]
      BY <2>0
    <3> QED
      BY <3>1, <3>2, Zenon
  <2>2. CASE PollRecord
    <3>1. stored[s] <= checkpoint[s] /\ stored[s] <= hwm[s]
      BY <2>0, <2>2, Zenon DEF PollRecord, MarksAheadOfCheckpoint, MapCovers, MarkCovers,
         Restoring
    <3> QED
      BY <2>0, <2>2, <3>1 DEF PollRecord
  <2> QED
    BY <2>1, <2>2, OnlyRecordStores, Zenon
<1> QED
  BY <1>1, TypeCorrect, MarksCorrect, PTL DEF Spec, CheckpointMonotonic

-----------------------------------------------------------------------------
(* Delivery, for every set of subscriptions, every batch size and every    *)
(* number of crashes, stops, added and deleted subscriptions and failed    *)
(* calls, under Conditions: the stream is not suspended and resumed,       *)
(* updated or reset, a subscription has at most one event per block, and   *)
(* recoverSubscriptions is done when a restarted poller starts.  The last  *)
(* comes with MarksAheadOfCheckpoint, which the proof uses.                *)

\* The conditions under which events are neither lost nor overtaken.
Conditions ==
  /\ "recovery" \notin Faults
  /\ \A op \in {"suspend", "resume", "update", "reset"} : MaxOps[op] = 0
  /\ \A s \in Subs : \A m, n \in Positions(s) : m < n => BlockOf[s][m] < BlockOf[s][n]

\* Block b is not beyond an event that s has still to be given.
Safe(s, b) == \A n \in owed[s] : BlockOf[s][n] >= b

Queued(s, m, k) == \E j \in 1..k : m \in EventsOf(batchQueue[j], s)

\* The stream has taken event m of s from its relay.
Taken(s, m) ==
  \/ m \in EventsOf(procBatch[1], s) \/ Queued(s, m, Len(batchQueue))
  \/ m \in EventsOf(currentBatch[1], s)

\* There is one round of goroutines, and it ends with the stop of the stream.
OneRound ==
  /\ ~suspended /\ closed = {} /\ updater = {} /\ ~updateInProgress
  /\ pollPC = "done" => stopped
  /\ \A d \in Dispatchers \ {1} : ~dispOn[d]
  /\ \A p \in Processors \ {1} : procPC[p] = "off"
  /\ procPC[1] = "idle" => procBatch[1] = <<>>

\* A subscription is registered with Fabric once in the life of a process.
Untouched(s) ==
  /\ \A i \in Relays : relay[s][i] = Off
  /\ \A m \in Positions(s) : ~Taken(s, m)

FreshIsUntouched ==
  \A s \in Subs :
    \/ subState[s] # "deleted" /\ filterStale[s] /\ pollPC # "done"
    \/ pollPC = "call" /\ s \in pollCall
    => Untouched(s)

OneRelay ==
  \A s \in Subs, i, j \in Relays : relay[s][i] # Off /\ relay[s][j] # Off => i = j

\* No mark and no checkpoint, in memory or in LevelDB, is beyond an owed event.
MarksSafe ==
  \A s \in Subs :
    /\ owed[s] \subseteq Positions(s)
    /\ Safe(s, stored[s]) /\ Safe(s, checkpoint[s]) /\ Safe(s, hwm[s])
    /\ fromBlock[s] # Newest => Safe(s, fromBlock[s])
    /\ pollPC = "call" /\ s \in pollCall => Safe(s, pollSince)

\* An owed event before one of the batch in progress is in that batch too.
BatchFirst ==
  \A s \in Subs : \A m \in owed[s], n \in EventsOf(procBatch[1], s) :
    m > n \/ m \in EventsOf(procBatch[1], s)

\* A batch that is acked has been given to the client or skipped.
BatchHandled ==
  ~stopped /\ procPC[1] \in {"processed", "abandoned", "ack"} =>
    \A s \in Subs : owed[s] \cap EventsOf(procBatch[1], s) = {}

\* An owed event before one in the queue, in the current batch, with the relay or
\* yet to be read has been taken before it.
InTurn ==
  ~stopped =>
    \A s \in Subs : \A m \in owed[s] :
      /\ \A k \in 1..Len(batchQueue) : \A n \in EventsOf(batchQueue[k], s) :
           m > n \/ m \in EventsOf(procBatch[1], s) \/ Queued(s, m, k)
      /\ \A n \in EventsOf(currentBatch[1], s) : m > n \/ Taken(s, m)
      /\ \A i \in Relays : relay[s][i] # Off =>
           m >= chanNext[s] \/ m = relay[s][i] \/ Taken(s, m)
      /\ \A i \in Relays : relay[s][i] > 0 => m >= relay[s][i] \/ Taken(s, m)

Order    == FreshIsUntouched /\ OneRelay /\ BatchFirst /\ BatchHandled /\ InTurn
Delivery == OneRound /\ MarksSafe /\ Order
\* None of the operations that Conditions rules out has been called.
NoResets == \A op \in {"suspend", "resume", "update", "reset"} : ops[op] = 0

-----------------------------------------------------------------------------
(* Batches.                                                                *)

\* An empty batch holds no event.
LEMMA EventsEmpty == \A s : EventsOf(<<>>, s) = {}
  BY DEF EventsOf

\* The dispatcher's append adds the one event.
LEMMA EventsAppend ==
  ASSUME NEW b \in Seq(Event), NEW e \in Event, NEW s, NEW m
  PROVE  m \in EventsOf(Append(b, e), s) <=> m \in EventsOf(b, s) \/ (e.sub = s /\ e.n = m)
<1>1. Len(Append(b, e)) = Len(b) + 1 /\ Len(b) \in Nat
  OBVIOUS
<1>2. Append(b, e)[Len(b) + 1] = e /\ \A i \in 1..Len(b) : Append(b, e)[i] = b[i]
  OBVIOUS
<1>3. QED
  BY <1>1, <1>2 DEF EventsOf

\* A batch holds events of the chain.
LEMMA EventsIn ==
  ASSUME NEW b \in Seq(Event), NEW s \in Subs, NEW m \in EventsOf(b, s)
  PROVE  m \in Positions(s) /\ m \in Nat /\ m > 0
<1>1. PICK i \in 1..Len(b) : b[i].sub = s /\ b[i].n = m
  BY Zenon DEF EventsOf
<1>2. b[i] \in Event
  BY <1>1
<1>3. Len(BlockOf[s]) \in Nat
  BY ChainAssumption
<1>4. QED
  BY <1>1, <1>2, <1>3 DEF Event, Positions

\* Blocks are numbers.
LEMMA BlockNat == \A s \in Subs : \A n \in Positions(s) : BlockOf[s][n] \in Nat
  BY ChainAssumption DEF Positions

\* Positions are numbers from 1 on.
LEMMA PositionNat == \A s \in Subs : \A n \in Positions(s) : n \in Nat /\ n > 0
  BY ChainAssumption DEF Positions

\* Arithmetic of blocks and of the state of a relay.
LEMMA Arithmetic ==
  /\ \A b \in Nat : b >= 0 /\ b >= -1
  /\ \A a, b \in Nat : a < b => b >= a + 1
  /\ ~(Off > 0) /\ ~(Idle > 0) /\ Idle # Off /\ \A n \in Nat : n # Off
  BY DEF Off, Idle

\* A number that is not below another is it or not below its successor.
LEMMA Successor == \A a, b \in Nat : a >= b => a = b \/ (a > b /\ a >= b + 1)
  OBVIOUS

\* The batches of the stream hold events.
LEMMA Batches ==
  ASSUME TypeOK
  PROVE  /\ procBatch[1] \in Seq(Event) /\ currentBatch[1] \in Seq(Event)
         /\ \A k \in 1..Len(batchQueue) : batchQueue[k] \in Seq(Event)
<1>1. 1 \in Processors /\ 1 \in Dispatchers
  BY BoundAssumption, Zenon
<1>2. procBatch[1] \in Seq(Event) /\ currentBatch[1] \in Seq(Event)
  BY <1>1, Zenon DEF TypeOK, BatchTypeOK
<1>3. batchQueue \in Seq(Seq(Event))
  BY Zenon DEF TypeOK, StreamTypeOK
<1>4. \A k \in 1..Len(batchQueue) : batchQueue[k] \in Seq(Event)
  BY <1>3
<1> QED
  BY <1>2, <1>4, Zenon

\* A queue that is not empty has a length of 1 or more.
LEMMA LengthOfQueue ==
  ASSUME NEW S, NEW x \in Seq(S), x # <<>>
  PROVE  Len(x) \in Nat /\ Len(x) # 0
  OBVIOUS

\* The queue without its head.
LEMMA TailOfQueue ==
  ASSUME NEW S, NEW x \in Seq(S), x # <<>>, NEW q \in Nat, Len(x) = q + 1
  PROVE  Len(Tail(x)) = q /\ \A k \in 1..q : Tail(x)[k] = x[k + 1]
  OBVIOUS

\* What the invariant says of types, in the form the steps below use.
LEMMA Types ==
  ASSUME TypeOK
  PROVE  /\ 1 \in Processors /\ 1 \in Dispatchers
         /\ procBatch[1] \in Seq(Event) /\ currentBatch[1] \in Seq(Event)
         /\ batchQueue \in Seq(Seq(Event)) /\ Len(batchQueue) \in Nat
         /\ \A s \in Subs : chanNext[s] \in Nat /\ chanNext[s] > 0
         /\ \A s \in Subs : Len(BlockOf[s]) \in Nat
         /\ \A s \in Subs, i \in Relays : relay[s][i] \in Int /\ relay[s][i] >= -1
         /\ \A s \in Subs, n \in Nat : n \in Positions(s) => BlockOf[s][n] \in Nat
<1>1. 1 \in Processors /\ 1 \in Dispatchers
  BY BoundAssumption, Zenon
<1>2. /\ procBatch[1] \in Seq(Event) /\ currentBatch[1] \in Seq(Event)
      /\ batchQueue \in Seq(Seq(Event)) /\ Len(batchQueue) \in Nat
  BY <1>1 DEF TypeOK, BatchTypeOK, StreamTypeOK
<1>3. \A s \in Subs : chanNext[s] \in Nat /\ chanNext[s] > 0
  BY DEF TypeOK, SdkTypeOK
<1>4. \A s \in Subs, i \in Relays : relay[s][i] \in Int /\ relay[s][i] >= -1
  BY DEF TypeOK, SdkTypeOK, Off
<1>5. \A s \in Subs : Len(BlockOf[s]) \in Nat
  BY ChainAssumption
<1>6. \A s \in Subs, n \in Nat : n \in Positions(s) => BlockOf[s][n] \in Nat
  BY ChainAssumption DEF Positions
<1>7. QED
  BY <1>1, <1>2, <1>3, <1>4, <1>5, <1>6, Zenon

-----------------------------------------------------------------------------
(* The operations that Conditions rules out.                               *)

\* Conditions keeps suspend, resume, update, reset and a late recovery from
\* happening.
LEMMA Disabled ==
  ASSUME Conditions, TypeOK, NoResets, OneRound, [Next]_vars
  PROVE  /\ NoResets'
         /\ ~Suspend /\ ~Resume /\ ~UpdateBegin /\ ~UpdateFinish /\ ~UpdateRefused
         /\ \A s \in Subs : ~RecoverSubscription(s)
         /\ \A s \in Subs, b \in ResetBlocks : ~ResetSubscription(s, b)
         /\ \A p \in Processors : ~ProcessorUpdated(p)
<1>1. \A op \in {"suspend", "resume", "update", "reset"} : ~Count(op)
  BY DEF Conditions, NoResets, Count
<1>2. /\ ~Suspend /\ ~Resume /\ ~UpdateBegin
      /\ \A s \in Subs, b \in ResetBlocks : ~ResetSubscription(s, b)
  BY <1>1, Zenon DEF Suspend, Resume, UpdateBegin, ResetSubscription
<1>3. ~UpdateFinish /\ ~UpdateRefused /\ \A p \in Processors : ~ProcessorUpdated(p)
  BY Zenon DEF OneRound, UpdateFinish, UpdateRefused, ProcessorUpdated
<1>4. \A s \in Subs : ~RecoverSubscription(s)
  BY Zenon DEF RecoverSubscription, Conditions, TypeOK, SubTypeOK, SubStates
<1>5. ops' = ops \/ \E op \in {"crash", "stop", "delete"} : ops' = [ops EXCEPT ![op] = @ + 1]
  <2>1. CASE UNCHANGED vars
    BY <2>1, Zenon DEF vars
  <2>2. CASE Mine \/ Relaying \/ Dispatching \/ Polling \/ Processing
    BY <2>2, ZenonT(30) DEF Mine, Relaying, RelayRead, RelayExit, Dispatching, DispatchEvent,
       DispatchTimeout, DispatchExit, Polling, PollExit, PollBegin, PollLoadFails, PollSub,
       PollSubscribed, PollSubscribeFails, PollRecord, PollWait, Processing, ProcessorTake,
       ProcessorSuspended, ProcessorUpdated, ProcessorExit, ProcessBatch, PerformAction,
       AttemptOK, AttemptRetry, AttemptFail, ReleaseBatch, AckBatch
  <2>3. CASE Crash \/ Handlers
    BY <1>2, <1>3, <2>3, ZenonT(30) DEF Crash, Handlers, Stop, AddSubscription,
       DeleteSubscription, Count
  <2> QED
    BY <1>4, <2>1, <2>2, <2>3, Zenon DEF Next
<1>6. NoResets'
  BY <1>5, Zenon DEF NoResets, TypeOK, OpNames
<1> QED
  BY <1>2, <1>3, <1>4, <1>6, Zenon

-----------------------------------------------------------------------------
(* Frames: what a step must leave alone for each part of the invariant.    *)

\* A subscription left with one relay.
LEMMA OneRelayFrame ==
  ASSUME OneRelay, NEW t \in Subs, NEW r \in Relays,
         \A s \in Subs \ {t} : relay'[s] = relay[s],
         \A i \in Relays \ {r} : relay'[t][i] = Off
  PROVE  OneRelay'
<1> SUFFICES ASSUME NEW s \in Subs, NEW i \in Relays, NEW j \in Relays,
                    relay'[s][i] # Off, relay'[s][j] # Off
             PROVE  i = j
  BY Zenon DEF OneRelay
<1>1. CASE s = t
  <2>1. \A k \in Relays : relay'[t][k] # Off => k = r
    BY Zenon
  <2>2. i = r /\ j = r
    BY <1>1, <2>1, Zenon
  <2> QED
    BY <2>2, Zenon
<1>2. CASE s # t
  <2>1. relay'[s] = relay[s]
    BY <1>2, Zenon
  <2>2. relay[s][i] # Off /\ relay[s][j] # Off
    BY <2>1, Zenon
  <2> QED
    BY <2>2, Zenon DEF OneRelay
<1> QED
  BY <1>1, <1>2, Zenon

\* Batches that do not change hold what they held.
LEMMA TakenFrame ==
  ASSUME UNCHANGED <<procBatch, batchQueue, currentBatch>>
  PROVE  /\ \A s, m : Taken(s, m)' <=> Taken(s, m)
         /\ \A s, m, k : Queued(s, m, k)' <=> Queued(s, m, k)
         /\ \A s : /\ EventsOf(procBatch[1], s)' = EventsOf(procBatch[1], s)
                   /\ EventsOf(currentBatch[1], s)' = EventsOf(currentBatch[1], s)
  BY DEF Taken, Queued, EventsOf

\* A step of the poller, of a REST operation or of the processor between two
\* attempts, which moves no event, keeps the order of events.
LEMMA OrderFrame ==
  ASSUME Order,
         UNCHANGED <<procBatch, batchQueue, currentBatch, relay, chanNext, owed>>,
         stopped => stopped',
         ~stopped' /\ procPC'[1] \in {"processed", "abandoned", "ack"}
           => procPC[1] \in {"processed", "abandoned", "ack"},
         pollPC' = "call" => pollPC = "call" /\ pollCall' = pollCall,
         pollPC' # "done" => pollPC # "done",
         \A s \in Subs : subState'[s] # "deleted" /\ filterStale'[s] /\ pollPC' # "done"
           => subState[s] # "deleted" /\ filterStale[s]
  PROVE  Order'
<1>1. FreshIsUntouched'
  <2>1. \A s \in Subs : Untouched(s) => Untouched(s)'
    BY TakenFrame, Zenon DEF Untouched
  <2> QED
    BY <2>1, Zenon DEF Order, FreshIsUntouched
<1>2. OneRelay' /\ BatchFirst'
  BY TakenFrame, Zenon DEF Order, OneRelay, BatchFirst
<1>3. BatchHandled'
  BY TakenFrame, Zenon DEF Order, BatchHandled
<1>4. InTurn'
  <2>1. SUFFICES ASSUME ~stopped', NEW s \in Subs, NEW m \in owed[s]
                 PROVE  /\ \A k \in 1..Len(batchQueue) : \A n \in EventsOf(batchQueue[k], s) :
                             m > n \/ m \in EventsOf(procBatch[1], s)' \/ Queued(s, m, k)'
                        /\ \A n \in EventsOf(currentBatch[1], s) : m > n \/ Taken(s, m)'
                        /\ \A i \in Relays : relay[s][i] # Off =>
                             m >= chanNext[s] \/ m = relay[s][i] \/ Taken(s, m)'
                        /\ \A i \in Relays : relay[s][i] > 0 => m >= relay[s][i] \/ Taken(s, m)'
    BY DEF InTurn
  <2>2. ~stopped /\ InTurn
    BY <2>1, Zenon DEF Order
  <2> QED
    BY <2>2, TakenFrame, Zenon DEF InTurn
<1> QED
  BY <1>1, <1>2, <1>3, <1>4, Zenon DEF Order

\* Marks stay safe if only the poller's map changes, to what is in LevelDB.
LEMMA MarksSafeFrame ==
  ASSUME MarksSafe, TypeOK, UNCHANGED <<owed, stored, hwm, fromBlock>>,
         pollPC' = "call" => pollPC = "call" /\ pollCall' = pollCall /\ pollSince' = pollSince,
         \A s \in Subs : checkpoint'[s] \in {checkpoint[s], stored[s], Absent}
  PROVE  MarksSafe'
<1> SUFFICES ASSUME NEW s \in Subs
             PROVE  /\ owed'[s] \subseteq Positions(s)
                    /\ Safe(s, stored[s])' /\ Safe(s, checkpoint[s])' /\ Safe(s, hwm[s])'
                    /\ fromBlock'[s] # Newest => Safe(s, fromBlock[s])'
                    /\ pollPC' = "call" /\ s \in pollCall' => Safe(s, pollSince)'
  BY Zenon DEF MarksSafe
<1>1. \A n \in owed[s] : BlockOf[s][n] \in Nat
  BY BlockNat, Zenon DEF MarksSafe
<1>2. Safe(s, checkpoint[s])'
  BY <1>1 DEF MarksSafe, Safe, Absent
<1>3. Safe(s, stored[s])' /\ Safe(s, hwm[s])' /\ owed'[s] \subseteq Positions(s)
  BY Zenon DEF MarksSafe, Safe
<1>4. fromBlock'[s] # Newest => Safe(s, fromBlock[s])'
  BY Zenon DEF MarksSafe, Safe
<1>5. pollPC' = "call" /\ s \in pollCall' => Safe(s, pollSince)'
  BY Zenon DEF MarksSafe, Safe
<1> QED
  BY <1>2, <1>3, <1>4, <1>5, Zenon

-----------------------------------------------------------------------------
(* Steps that move no event.                                               *)

\* A new block, and the poller's steps other than PollSub, PollSubscribed and
\* PollRecord.
LEMMA QuietPoll ==
  ASSUME TypeOK, OneRound, MarksSafe, Order,
         Mine \/ PollExit \/ PollBegin \/ PollLoadFails \/ PollSubscribeFails \/ PollWait
  PROVE  OneRound' /\ MarksSafe' /\ Order'
<1> USE DEF subVars, sdkVars, chanVars, batchVars, dispVars, procVars, pollVars, streamVars,
        updateVars
<1>1. /\ UNCHANGED <<procBatch, batchQueue, currentBatch, relay, chanNext, owed, stopped, procPC,
                     stored, hwm, fromBlock, subState>>
      /\ UNCHANGED <<suspended, closed, updater, updateInProgress, dispOn>>
  BY ZenonT(30) DEF Mine, PollExit, PollBegin, PollLoadFails, PollSubscribeFails, PollWait
<1>2. /\ pollPC' = "call" => pollPC = "call" /\ pollCall' = pollCall /\ pollSince' = pollSince
      /\ pollPC' # "done" => pollPC # "done" /\ filterStale' = filterStale
  BY Zenon DEF Mine, PollExit, PollBegin, PollLoadFails, PollSubscribeFails, PollWait
<1>3. \A s \in Subs : checkpoint'[s] \in {checkpoint[s], stored[s], Absent}
  BY Zenon DEF Mine, PollExit, PollBegin, PollLoadFails, PollSubscribeFails, PollWait
<1>4. pollPC' = "done" => stopped'
  <2>1. CASE PollExit
    BY <2>1, Zenon DEF PollExit, OneRound, suspendOrStop, Interrupted
  <2>2. CASE Mine
    BY <2>2, Zenon DEF Mine, OneRound
  <2> QED
    BY <2>1, <2>2, Zenon DEF PollBegin, PollLoadFails, PollSubscribeFails, PollWait
<1>5. OneRound'
  BY <1>1, <1>4, Zenon DEF OneRound
<1>6. MarksSafe'
  BY <1>1, <1>2, <1>3, MarksSafeFrame, Zenon
<1>7. Order'
  BY <1>1, <1>2, OrderFrame, Zenon
<1> QED
  BY <1>5, <1>6, <1>7, Zenon

\* stop, and the addition and deletion of a subscription, move no event.
LEMMA QuietHandlers ==
  ASSUME TypeOK, OneRound, MarksSafe, Order,
         Stop \/ (\E s \in Subs : AddSubscription(s) \/ DeleteSubscription(s))
  PROVE  OneRound' /\ MarksSafe' /\ Order'
<1> USE DEF subVars, sdkVars, chanVars, batchVars, dispVars, procVars, pollVars, streamVars,
        updateVars
<1>1. /\ UNCHANGED <<procBatch, batchQueue, currentBatch, relay, chanNext, owed, procPC,
                     stored, hwm, fromBlock, checkpoint, pollPC, pollCall, pollSince>>
      /\ UNCHANGED <<suspended, closed, updater, updateInProgress, dispOn>>
      /\ stopped => stopped'
  <2>1. CASE Stop
    BY <2>1, Zenon DEF Stop
  <2>2. ASSUME NEW t \in Subs, AddSubscription(t) \/ DeleteSubscription(t)
        PROVE  UNCHANGED <<batchVars, dispVars, procVars, pollVars, updateVars, streamVars,
                           relay, chanNext, owed, stored, hwm, fromBlock>>
    BY <2>2, Zenon DEF AddSubscription, DeleteSubscription
  <2> QED
    BY <2>1, <2>2, Zenon
<1>2. \A s \in Subs : subState'[s] # "deleted" /\ filterStale'[s]
        => subState[s] # "deleted" /\ filterStale[s]
  <2>1. CASE Stop
    BY <2>1, Zenon DEF Stop
  <2>2. ASSUME NEW t \in Subs, AddSubscription(t)
        PROVE  \A s \in Subs : subState'[s] # "deleted" /\ filterStale'[s]
                 => subState[s] # "deleted" /\ filterStale[s]
    BY <2>2, Zenon DEF AddSubscription, TypeOK, SubTypeOK
  <2>3. ASSUME NEW t \in Subs, DeleteSubscription(t)
        PROVE  \A s \in Subs : subState'[s] # "deleted" /\ filterStale'[s]
                 => subState[s] # "deleted" /\ filterStale[s]
    BY <2>3, ZenonT(30) DEF DeleteSubscription, MarkFilterStale, TypeOK, SubTypeOK
  <2> QED
    BY <2>1, <2>2, <2>3, Zenon
<1>3. OneRound'
  BY <1>1, Zenon DEF OneRound
<1>4. MarksSafe'
  BY <1>1, MarksSafeFrame, Zenon
<1>5. Order'
  BY <1>1, <1>2, OrderFrame, Zenon
<1> QED
  BY <1>3, <1>4, <1>5, Zenon

\* The processor between two batches, at the top of its loop, after a failed
\* attempt that is repeated and after the batch has left inFlight.
LEMMA QuietProcessor ==
  ASSUME TypeOK, OneRound, MarksSafe, Order, NEW p \in Processors,
         \/ ProcessorSuspended(p) \/ ProcessorExit(p) \/ ProcessBatch(p)
         \/ AttemptRetry(p) \/ ReleaseBatch(p)
  PROVE  OneRound' /\ MarksSafe' /\ Order'
<1> USE DEF subVars, sdkVars, chanVars, batchVars, dispVars, procVars, pollVars, streamVars,
        updateVars
<1>0. ~Interrupted
  BY Zenon DEF Interrupted, OneRound
<1>1. p = 1
  <2>1. procPC[p] # "off"
    BY Zenon DEF ProcessorSuspended, ProcessorExit, ProcessBatch, AttemptRetry, ReleaseBatch
  <2> QED
    BY <2>1, Zenon DEF OneRound
<1>2. /\ UNCHANGED <<procBatch, batchQueue, currentBatch, relay, chanNext, owed, stopped,
                     stored, hwm, fromBlock, subState, filterStale>>
      /\ UNCHANGED <<checkpoint, pollPC, pollCall, pollSince>>
      /\ UNCHANGED <<suspended, closed, updater, updateInProgress, dispOn>>
  BY <1>0, ZenonT(30) DEF ProcessorSuspended, ProcessorExit, ProcessBatch, AttemptRetry,
     ReleaseBatch
<1>3. \/ procPC' = [procPC EXCEPT ![1] = "exiting"]
      \/ procPC' = [procPC EXCEPT ![1] = "off"]
      \/ procPC' = [procPC EXCEPT ![1] = "retry"]
      \/ stopped /\ procPC' = [procPC EXCEPT ![1] = "abandoned"]
      \/ /\ procPC[1] \in {"processed", "abandoned"}
         /\ procPC' = [procPC EXCEPT ![1] = "ack"]
  <2>1. suspendOrStop => stopped
    BY Zenon DEF suspendOrStop, OneRound
  <2> QED
    BY <1>0, <1>1, <2>1, Zenon DEF ProcessBatch, ReleaseBatch, ProcessorSuspended,
       ProcessorExit, AttemptRetry
<1>4. OneRound'
  BY <1>2, <1>3, Types, Zenon DEF OneRound, TypeOK, BatchTypeOK
<1>5. MarksSafe'
  BY <1>2, MarksSafeFrame, Zenon
<1>6. procPC'[1] \in {"processed", "abandoned", "ack"} /\ ~stopped
        => procPC[1] \in {"processed", "abandoned", "ack"}
  BY <1>3, Types, Zenon DEF TypeOK, BatchTypeOK
<1>7. Order'
  BY <1>2, <1>6, OrderFrame, Zenon
<1> QED
  BY <1>4, <1>5, <1>7, Zenon

-----------------------------------------------------------------------------
(* Relays.                                                                 *)

\* A relay reads the next event of its channel: what it skips has been taken.
LEMMA DeliveryRelayRead ==
  ASSUME TypeOK, OneRound, MarksSafe, Order, NEW t \in Subs, NEW r \in Relays, RelayRead(t, r)
  PROVE  OneRound' /\ MarksSafe' /\ Order'
<1> USE DEF subVars, sdkVars, chanVars, batchVars, dispVars, procVars, pollVars, streamVars,
        updateVars
<1>1. /\ UNCHANGED <<procBatch, batchQueue, currentBatch, owed, stopped, procPC,
                     stored, hwm, fromBlock, subState, filterStale>>
      /\ UNCHANGED <<checkpoint, pollPC, pollCall, pollSince>>
      /\ UNCHANGED <<suspended, closed, updater, updateInProgress, dispOn>>
      /\ relay[t][r] = Idle
  BY Zenon DEF RelayRead
<1>2. OneRound'
  BY <1>1, Zenon DEF OneRound
<1>3. MarksSafe'
  BY <1>1, MarksSafeFrame, Zenon
<1>4. /\ \A s \in Subs \ {t} : relay'[s] = relay[s] /\ chanNext'[s] = chanNext[s]
      /\ \A i \in Relays \ {r} : relay'[t][i] = relay[t][i]
      /\ chanNext'[t] = chanNext[t] + 1
      /\ relay'[t][r] = IF stopped THEN Idle ELSE chanNext[t]
  BY Zenon DEF RelayRead, TypeOK, SdkTypeOK
<1>5. ~Untouched(t)
  BY <1>1, Arithmetic, Zenon DEF Untouched
<1>6. FreshIsUntouched'
  <2>1. \A s \in Subs \ {t} : Untouched(s) => Untouched(s)'
    BY <1>1, <1>4, TakenFrame, Zenon DEF Untouched
  <2> QED
    BY <1>1, <1>5, <2>1, Zenon DEF Order, FreshIsUntouched
<1>7. \A i \in Relays \ {r} : relay[t][i] = Off
  BY <1>1, Arithmetic, Zenon DEF Order, OneRelay
<1>8. OneRelay'
  BY <1>4, <1>7, OneRelayFrame, Zenon DEF Order
<1>9. BatchFirst' /\ BatchHandled'
  BY <1>1, TakenFrame, Zenon DEF Order, BatchFirst, BatchHandled
<1>10. InTurn'
  <2> SUFFICES ASSUME ~stopped, NEW s \in Subs, NEW m \in owed[s]
               PROVE  /\ \A k \in 1..Len(batchQueue) : \A n \in EventsOf(batchQueue[k], s) :
                           m > n \/ m \in EventsOf(procBatch[1], s) \/ Queued(s, m, k)
                      /\ \A n \in EventsOf(currentBatch[1], s) : m > n \/ Taken(s, m)
                      /\ \A i \in Relays : relay'[s][i] # Off =>
                           m >= chanNext'[s] \/ m = relay'[s][i] \/ Taken(s, m)
                      /\ \A i \in Relays : relay'[s][i] > 0 => m >= relay'[s][i] \/ Taken(s, m)
    BY <1>1, TakenFrame, Zenon DEF InTurn
  <2>1. CASE s # t
    BY <1>4, <2>1, Zenon DEF Order, InTurn
  <2>2. CASE s = t
    <3>1. m >= chanNext[t] \/ Taken(t, m)
      <4>1. m >= chanNext[t] \/ m = Idle \/ Taken(t, m)
        BY <1>1, <2>2, Arithmetic, Zenon DEF Order, InTurn
      <4>2. m \in Positions(t)
        BY <2>2, Zenon DEF MarksSafe
      <4> QED
        BY <4>1, <4>2, PositionNat, Arithmetic, Zenon
    <3>2. m \in Nat /\ chanNext[t] \in Nat
      BY <2>2, Types, Zenon DEF TypeOK
    <3>3. m >= chanNext'[t] \/ m = relay'[t][r] \/ Taken(t, m)
      BY <1>4, <3>1, <3>2, Successor, Zenon
    <3>4. m >= relay'[t][r] \/ Taken(t, m)
      BY <1>4, <3>1, Zenon
    <3>5. \A i \in Relays \ {r} : relay'[t][i] = Off
      BY <1>4, <1>7, Zenon
    <3>6. ASSUME NEW i \in Relays
          PROVE  /\ relay'[t][i] # Off =>
                      m >= chanNext'[t] \/ m = relay'[t][i] \/ Taken(t, m)
                 /\ relay'[t][i] > 0 => m >= relay'[t][i] \/ Taken(t, m)
      <4>1. CASE i = r
        BY <3>3, <3>4, <4>1, Zenon
      <4>2. CASE i # r
        BY <3>5, <4>2, Arithmetic, Zenon
      <4> QED
        BY <4>1, <4>2, Zenon
    <3> QED
      BY <2>2, <3>6, Zenon DEF Order, InTurn
  <2> QED
    BY <2>1, <2>2, Zenon
<1> QED
  BY <1>2, <1>3, <1>6, <1>8, <1>9, <1>10, Zenon DEF Order

\* A relay that returns holds no event.
LEMMA DeliveryRelayExit ==
  ASSUME TypeOK, OneRound, MarksSafe, Order, NEW t \in Subs, NEW r \in Relays, RelayExit(t, r)
  PROVE  OneRound' /\ MarksSafe' /\ Order'
<1> USE DEF subVars, sdkVars, chanVars, batchVars, dispVars, procVars, pollVars, streamVars,
        updateVars
<1>1. /\ UNCHANGED <<procBatch, batchQueue, currentBatch, owed, stopped, procPC, chanNext,
                     stored, hwm, fromBlock, subState, filterStale>>
      /\ UNCHANGED <<checkpoint, pollPC, pollCall, pollSince>>
      /\ UNCHANGED <<suspended, closed, updater, updateInProgress, dispOn>>
  BY Zenon DEF RelayExit
<1>2. OneRound'
  BY <1>1, Zenon DEF OneRound
<1>3. MarksSafe'
  BY <1>1, MarksSafeFrame, Zenon
<1>4. \A s \in Subs, i \in Relays : relay'[s][i] = relay[s][i] \/ relay'[s][i] = Off
  BY Zenon DEF RelayExit, TypeOK, SdkTypeOK
<1>5. FreshIsUntouched'
  <2>1. \A s \in Subs : Untouched(s) => Untouched(s)'
    BY <1>1, <1>4, TakenFrame, Zenon DEF Untouched
  <2> QED
    BY <1>1, <2>1, Zenon DEF Order, FreshIsUntouched
<1>6. OneRelay'
  BY <1>4, Zenon DEF Order, OneRelay
<1>7. BatchFirst' /\ BatchHandled'
  BY <1>1, TakenFrame, Zenon DEF Order, BatchFirst, BatchHandled
<1>8. InTurn'
  <2>1. \A s \in Subs, i \in Relays :
          /\ relay'[s][i] # Off => relay'[s][i] = relay[s][i]
          /\ relay'[s][i] > 0 => relay'[s][i] = relay[s][i]
    BY <1>4, Arithmetic, Zenon
  <2> SUFFICES ASSUME ~stopped, NEW s \in Subs, NEW m \in owed[s]
               PROVE  /\ \A k \in 1..Len(batchQueue) : \A n \in EventsOf(batchQueue[k], s) :
                           m > n \/ m \in EventsOf(procBatch[1], s) \/ Queued(s, m, k)
                      /\ \A n \in EventsOf(currentBatch[1], s) : m > n \/ Taken(s, m)
                      /\ \A i \in Relays : relay'[s][i] # Off =>
                           m >= chanNext[s] \/ m = relay'[s][i] \/ Taken(s, m)
                      /\ \A i \in Relays : relay'[s][i] > 0 => m >= relay'[s][i] \/ Taken(s, m)
    BY <1>1, TakenFrame, ZenonT(30) DEF InTurn
  <2> QED
    BY <2>1, Zenon DEF Order, InTurn
<1> QED
  BY <1>2, <1>3, <1>5, <1>6, <1>7, <1>8, Zenon DEF Order

-----------------------------------------------------------------------------
(* The dispatcher.                                                         *)

\* A batch, be it kept as the current one or put at the end of the queue, is
\* taken; and if it is in turn, so are the queue and the current batch.
LEMMA DispatchBatch ==
  ASSUME TypeOK, NEW batch \in Seq(Event), UNCHANGED procBatch,
         \/ batchQueue' = Append(batchQueue, batch) /\ currentBatch'[1] = <<>>
         \/ batchQueue' = batchQueue /\ currentBatch'[1] = batch,
         NEW s, NEW m
  PROVE  /\ Taken(s, m)' <=> \/ m \in EventsOf(procBatch[1], s)
                             \/ Queued(s, m, Len(batchQueue)) \/ m \in EventsOf(batch, s)
         /\ /\ \A k \in 1..Len(batchQueue) : \A n \in EventsOf(batchQueue[k], s) :
                 m > n \/ m \in EventsOf(procBatch[1], s) \/ Queued(s, m, k)
            /\ \A n \in EventsOf(batch, s) : m > n \/ Taken(s, m)'
            => /\ \A k \in 1..Len(batchQueue') : \A n \in EventsOf(batchQueue'[k], s) :
                    m > n \/ m \in EventsOf(procBatch[1], s) \/ Queued(s, m, k)'
               /\ \A n \in EventsOf(currentBatch'[1], s) : m > n \/ Taken(s, m)'
<1>1. CASE batchQueue' = Append(batchQueue, batch) /\ currentBatch'[1] = <<>>
  <2>0. PICK q \in Nat : q = Len(batchQueue)
    BY Types
  <2>1. /\ Len(batchQueue') = q + 1 /\ batchQueue'[q + 1] = batch
        /\ \A k \in 1..q : batchQueue'[k] = batchQueue[k]
    BY <1>1, <2>0, Types
  <2>2. \A k \in 1..q : Queued(s, m, k)' <=> Queued(s, m, k)
    BY <2>1 DEF Queued
  <2>3. \A k : k \in 1..(q + 1) <=> k \in 1..q \/ k = q + 1
    OBVIOUS
  <2>4. Queued(s, m, q + 1)' <=> Queued(s, m, q) \/ m \in EventsOf(batch, s)
    <3>1. Queued(s, m, q + 1)' <=> \E k \in 1..(q + 1) : m \in EventsOf(batchQueue'[k], s)
      BY Zenon DEF Queued
    <3>2. Queued(s, m, q) <=> \E k \in 1..q : m \in EventsOf(batchQueue[k], s)
      BY DEF Queued
    <3> QED
      BY <2>1, <2>3, <3>1, <3>2, Zenon
  <2>5. EventsOf(currentBatch'[1], s) = {}
    BY <1>1, EventsEmpty, Zenon
  <2>6. Taken(s, m)' <=> \/ m \in EventsOf(procBatch[1], s)
                         \/ Queued(s, m, q) \/ m \in EventsOf(batch, s)
    <3>1. Taken(s, m)' <=> \/ m \in EventsOf(procBatch'[1], s)
                           \/ \E k \in 1..Len(batchQueue') : m \in EventsOf(batchQueue'[k], s)
                           \/ m \in EventsOf(currentBatch'[1], s)
      BY Zenon DEF Taken, Queued
    <3>2. Queued(s, m, q + 1)' <=> \E k \in 1..(q + 1) : m \in EventsOf(batchQueue'[k], s)
      BY Zenon DEF Queued
    <3> QED
      BY <2>1, <2>4, <2>5, <3>1, <3>2, Zenon
  <2>7. ASSUME \A k \in 1..q : \A n \in EventsOf(batchQueue[k], s) :
                 m > n \/ m \in EventsOf(procBatch[1], s) \/ Queued(s, m, k),
               \A n \in EventsOf(batch, s) : m > n \/ Taken(s, m)',
               NEW k \in 1..(q + 1), NEW n \in EventsOf(batchQueue'[k], s)
        PROVE  m > n \/ m \in EventsOf(procBatch[1], s) \/ Queued(s, m, k)'
    <3>1. CASE k \in 1..q
      BY <2>1, <2>2, <2>7, <3>1, Zenon
    <3>2. CASE k = q + 1
      BY <2>1, <2>4, <2>6, <2>7, <3>2, Zenon
    <3> QED
      BY <2>3, <3>1, <3>2, Zenon
  <2> QED
    BY <2>0, <2>1, <2>5, <2>6, <2>7, Zenon
<1>2. CASE batchQueue' = batchQueue /\ currentBatch'[1] = batch
  BY <1>2, Zenon DEF Taken, Queued
<1> QED
  BY <1>1, <1>2, Zenon

\* The dispatcher takes the event of a relay: every owed event before it has
\* been taken already.
LEMMA DeliveryDispatchEvent ==
  ASSUME TypeOK, TypeOK', OneRound, MarksSafe, Order,
         NEW d \in Dispatchers, NEW t \in Subs, NEW r \in Relays, DispatchEvent(d, t, r)
  PROVE  OneRound' /\ MarksSafe' /\ Order'
<1> USE DEF subVars, sdkVars, chanVars, batchVars, dispVars, procVars, pollVars, streamVars,
        updateVars
<1>0. d = 1
  BY Zenon DEF DispatchEvent, OneRound
<1> DEFINE e == [sub |-> t, n |-> relay[t][r]]
           batch == Append(currentBatch[1], e)
<1>1. /\ UNCHANGED <<procBatch, owed, stopped, procPC, chanNext,
                     stored, hwm, fromBlock, subState, filterStale>>
      /\ UNCHANGED <<checkpoint, pollPC, pollCall, pollSince>>
      /\ UNCHANGED <<suspended, closed, updater, updateInProgress, dispOn>>
      /\ relay[t][r] > 0
  BY Zenon DEF DispatchEvent
<1>2. OneRound'
  BY <1>1, Zenon DEF OneRound
<1>3. MarksSafe'
  BY <1>1, MarksSafeFrame, Zenon
<1>4. e \in Event /\ relay[t][r] \in Nat
  BY <1>1, HeldEvent, Zenon DEF TypeOK
<1>5. /\ currentBatch[1] \in Seq(Event) /\ batch \in Seq(Event)
      /\ e.sub = t /\ e.n = relay[t][r]
  BY <1>4, Types, BatchAppend, Zenon
<1>6. \/ batchQueue' = Append(batchQueue, batch) /\ currentBatch'[1] = <<>>
      \/ batchQueue' = batchQueue /\ currentBatch'[1] = batch
  BY <1>0, Zenon DEF DispatchEvent, TypeOK, BatchTypeOK
<1> HIDE DEF e
<1>7. ASSUME NEW s, NEW m
      PROVE  m \in EventsOf(batch, s) <=>
               m \in EventsOf(currentBatch[1], s) \/ (s = t /\ m = relay[t][r])
  <2>1. m \in EventsOf(batch, s) <=> m \in EventsOf(currentBatch[1], s) \/ (e.sub = s /\ e.n = m)
    BY <1>4, <1>5, EventsAppend, Zenon
  <2> QED
    BY <1>5, <2>1, Zenon
<1> HIDE DEF batch
<1>8. \A s, m : Taken(s, m)' <=> Taken(s, m) \/ (s = t /\ m = relay[t][r])
  BY <1>1, <1>5, <1>6, <1>7, DispatchBatch, Zenon DEF Taken
<1>9. /\ \A s \in Subs \ {t} : relay'[s] = relay[s]
      /\ relay'[t][r] = Idle /\ \A i \in Relays \ {r} : relay'[t][i] = relay[t][i]
  BY RelaySet, HeldNumber, Zenon DEF DispatchEvent, TypeOK
<1>10. \A i \in Relays \ {r} : relay[t][i] = Off
  BY <1>4, Arithmetic, Zenon DEF Order, OneRelay
<1>11. FreshIsUntouched'
  <2>1. ~Untouched(t)
    BY <1>4, Arithmetic, Zenon DEF Untouched
  <2>2. \A s \in Subs \ {t} : Untouched(s) => Untouched(s)'
    BY <1>8, <1>9, Zenon DEF Untouched
  <2> QED
    BY <1>1, <2>1, <2>2, Zenon DEF Order, FreshIsUntouched
<1>12. OneRelay'
  BY <1>9, <1>10, OneRelayFrame, Zenon DEF Order
<1>13. BatchFirst' /\ BatchHandled'
  BY <1>1, Zenon DEF Order, BatchFirst, BatchHandled
<1>14. InTurn'
  <2> SUFFICES ASSUME ~stopped, NEW s \in Subs, NEW m \in owed[s]
               PROVE  /\ /\ \A k \in 1..Len(batchQueue') : \A n \in EventsOf(batchQueue'[k], s) :
                              m > n \/ m \in EventsOf(procBatch[1], s) \/ Queued(s, m, k)'
                         /\ \A n \in EventsOf(currentBatch'[1], s) : m > n \/ Taken(s, m)'
                      /\ \A i \in Relays : relay'[s][i] # Off =>
                           m >= chanNext[s] \/ m = relay'[s][i] \/ Taken(s, m)'
                      /\ \A i \in Relays : relay'[s][i] > 0 => m >= relay'[s][i] \/ Taken(s, m)'
    BY <1>1, Zenon DEF InTurn
  <2>0. InTurn /\ m \in Nat
    BY Zenon DEF Order, TypeOK
  <2>1. \A n \in EventsOf(batch, s) : m > n \/ Taken(s, m)'
    <3>1. \A n \in EventsOf(currentBatch[1], s) : m > n \/ Taken(s, m)'
      BY <1>8, <2>0, Zenon DEF InTurn
    <3>2. s = t => m > relay[t][r] \/ Taken(s, m)'
      <4>1. s = t => m >= relay[t][r] \/ Taken(s, m)
        BY <1>1, <2>0, Zenon DEF InTurn
      <4> QED
        BY <1>4, <1>8, <2>0, <4>1, Successor, Zenon
    <3> QED
      BY <1>7, <3>1, <3>2, Zenon
  <2>2. \A k \in 1..Len(batchQueue) : \A n \in EventsOf(batchQueue[k], s) :
          m > n \/ m \in EventsOf(procBatch[1], s) \/ Queued(s, m, k)
    BY <2>0, Zenon DEF InTurn
  <2>3. /\ \A k \in 1..Len(batchQueue') : \A n \in EventsOf(batchQueue'[k], s) :
             m > n \/ m \in EventsOf(procBatch[1], s) \/ Queued(s, m, k)'
        /\ \A n \in EventsOf(currentBatch'[1], s) : m > n \/ Taken(s, m)'
    BY <1>1, <1>5, <1>6, <2>1, <2>2, DispatchBatch, Zenon
  <2>4. CASE s # t
    <3>1. relay'[s] = relay[s]
      BY <1>9, <2>4, Zenon
    <3> QED
      BY <1>8, <2>0, <2>3, <3>1, Zenon DEF InTurn
  <2>5. CASE s = t
    <3>0. relay[t][r] # Off
      BY <1>4, Arithmetic, Zenon
    <3>1. m >= chanNext[t] \/ m = relay[t][r] \/ Taken(t, m)
      BY <2>0, <2>5, <3>0, Zenon DEF InTurn
    <3>2. m >= chanNext[t] \/ Taken(t, m)'
      BY <1>8, <3>1, Zenon
    <3>3. \A i \in Relays : relay'[t][i] \in {Idle, Off} /\ (relay'[t][i] # Off => i = r)
      BY <1>9, <1>10, Zenon
    <3>4. \A i \in Relays : ~(relay'[t][i] > 0)
      BY <3>3, Arithmetic, Zenon
    <3> QED
      BY <2>3, <2>5, <3>2, <3>4, Zenon
  <2> QED
    BY <2>4, <2>5, Zenon
<1> QED
  BY <1>2, <1>3, <1>11, <1>12, <1>13, <1>14, Zenon DEF Order

\* The batch timeout queues the current batch.
LEMMA DeliveryDispatchTimeout ==
  ASSUME TypeOK, OneRound, MarksSafe, Order, NEW d \in Dispatchers, DispatchTimeout(d)
  PROVE  OneRound' /\ MarksSafe' /\ Order'
<1> USE DEF subVars, sdkVars, chanVars, batchVars, dispVars, procVars, pollVars, streamVars,
        updateVars
<1>0. d = 1
  BY Zenon DEF DispatchTimeout, OneRound
<1>1. /\ UNCHANGED <<procBatch, owed, stopped, procPC, chanNext, relay,
                     stored, hwm, fromBlock, subState, filterStale>>
      /\ UNCHANGED <<checkpoint, pollPC, pollCall, pollSince>>
      /\ UNCHANGED <<suspended, closed, updater, updateInProgress, dispOn>>
  BY Zenon DEF DispatchTimeout
<1>2. OneRound'
  BY <1>1, Zenon DEF OneRound
<1>3. MarksSafe'
  BY <1>1, MarksSafeFrame, Zenon
<1>4. PICK batch \in Seq(Event) : batch = currentBatch[1]
  BY Types, Zenon
<1>5. batchQueue' = Append(batchQueue, batch) /\ currentBatch'[1] = <<>>
  BY <1>0, <1>4, Zenon DEF DispatchTimeout, TypeOK, BatchTypeOK
<1>6. \A s, m : Taken(s, m)' <=> Taken(s, m)
  BY <1>1, <1>4, <1>5, DispatchBatch, Zenon DEF Taken
<1>7. FreshIsUntouched'
  <2>1. \A s \in Subs : Untouched(s) => Untouched(s)'
    BY <1>1, <1>6, Zenon DEF Untouched
  <2> QED
    BY <1>1, <2>1, Zenon DEF Order, FreshIsUntouched
<1>8. OneRelay' /\ BatchFirst' /\ BatchHandled'
  BY <1>1, Zenon DEF Order, OneRelay, BatchFirst, BatchHandled
<1>9. InTurn'
  <2> SUFFICES ASSUME ~stopped, NEW s \in Subs, NEW m \in owed[s]
               PROVE  /\ /\ \A k \in 1..Len(batchQueue') : \A n \in EventsOf(batchQueue'[k], s) :
                              m > n \/ m \in EventsOf(procBatch[1], s) \/ Queued(s, m, k)'
                         /\ \A n \in EventsOf(currentBatch'[1], s) : m > n \/ Taken(s, m)'
                      /\ \A i \in Relays : relay[s][i] # Off =>
                           m >= chanNext[s] \/ m = relay[s][i] \/ Taken(s, m)'
                      /\ \A i \in Relays : relay[s][i] > 0 => m >= relay[s][i] \/ Taken(s, m)'
    BY <1>1, Zenon DEF InTurn
  <2>1. InTurn
    BY Zenon DEF Order
  <2>2. \A n \in EventsOf(batch, s) : m > n \/ Taken(s, m)'
    BY <1>4, <1>6, <2>1, Zenon DEF InTurn
  <2>3. \A k \in 1..Len(batchQueue) : \A n \in EventsOf(batchQueue[k], s) :
          m > n \/ m \in EventsOf(procBatch[1], s) \/ Queued(s, m, k)
    BY <2>1, Zenon DEF InTurn
  <2>4. /\ \A k \in 1..Len(batchQueue') : \A n \in EventsOf(batchQueue'[k], s) :
             m > n \/ m \in EventsOf(procBatch[1], s) \/ Queued(s, m, k)'
        /\ \A n \in EventsOf(currentBatch'[1], s) : m > n \/ Taken(s, m)'
    BY <1>1, <1>5, <2>2, <2>3, DispatchBatch, Zenon
  <2> QED
    BY <1>6, <2>1, <2>4, Zenon DEF InTurn
<1> QED
  BY <1>2, <1>3, <1>7, <1>8, <1>9, Zenon DEF Order

\* The dispatcher returns only when the stream is stopped: what it drops is read
\* again by the next process.
LEMMA DeliveryDispatchExit ==
  ASSUME TypeOK, OneRound, MarksSafe, Order, NEW d \in Dispatchers, DispatchExit(d)
  PROVE  OneRound' /\ MarksSafe' /\ Order'
<1> USE DEF subVars, sdkVars, chanVars, batchVars, dispVars, procVars, pollVars, streamVars,
        updateVars
<1>0. d = 1 /\ stopped
  BY Zenon DEF DispatchExit, OneRound
<1>1. /\ UNCHANGED <<procBatch, batchQueue, owed, stopped, procPC, chanNext, relay,
                     stored, hwm, fromBlock, subState, filterStale>>
      /\ UNCHANGED <<checkpoint, pollPC, pollCall, pollSince>>
      /\ UNCHANGED <<suspended, closed, updater, updateInProgress>>
  BY Zenon DEF DispatchExit
<1>2. OneRound'
  <2>1. \A x \in Dispatchers \ {1} : dispOn'[x] = dispOn[x]
    BY <1>0, Zenon DEF DispatchExit, TypeOK, BatchTypeOK
  <2> QED
    BY <1>0, <1>1, <2>1, Zenon DEF OneRound
<1>3. MarksSafe'
  BY <1>1, MarksSafeFrame, Zenon
<1>4. currentBatch'[1] = <<>>
  BY <1>0, Zenon DEF DispatchExit, TypeOK, BatchTypeOK
<1>5. \A s, m : Taken(s, m)' => Taken(s, m)
  BY <1>1, <1>4, EventsEmpty, Zenon DEF Taken, Queued
<1>6. FreshIsUntouched'
  <2>1. \A s \in Subs : Untouched(s) => Untouched(s)'
    BY <1>1, <1>5, Zenon DEF Untouched
  <2> QED
    BY <1>1, <2>1, Zenon DEF Order, FreshIsUntouched
<1>7. OneRelay' /\ BatchFirst' /\ BatchHandled'
  BY <1>1, Zenon DEF Order, OneRelay, BatchFirst, BatchHandled
<1>8. InTurn'
  BY <1>0, <1>1, Zenon DEF InTurn
<1> QED
  BY <1>2, <1>3, <1>6, <1>7, <1>8, Zenon DEF Order

-----------------------------------------------------------------------------
(* The poller.                                                             *)

\* Visiting a subscription: it is subscribed from its checkpoint or its initial
\* position, and only if nothing of it has been read before.
LEMMA DeliveryPollSub ==
  ASSUME Conditions, TypeOK, MarksAheadOfCheckpoint, NoResets, OneRound, MarksSafe, Order,
         NEW t \in Subs, PollSub(t)
  PROVE  OneRound' /\ MarksSafe' /\ Order'
<1> USE DEF subVars, sdkVars, chanVars, batchVars, dispVars, procVars, pollVars, streamVars,
        updateVars
<1>1. /\ UNCHANGED <<procBatch, batchQueue, currentBatch, relay, chanNext, stopped, procPC,
                     stored, fromBlock, subState>>
      /\ UNCHANGED <<suspended, closed, updater, updateInProgress, dispOn>>
      /\ pollPC = "subs" /\ t \in pollTodo
  BY Zenon DEF PollSub
<1>2. ~resetRequested[t]
  BY Zenon DEF NoResets, MarksAheadOfCheckpoint
<1>3. checkpoint' = checkpoint /\ \A s \in Subs : filterStale'[s] = filterStale[s]
  BY <1>2, Zenon DEF PollSub, MarkFilterStale, TypeOK, PollTypeOK, SubTypeOK
<1>4. pollPC' \in {"subs", "call"}
  BY <1>1, Zenon DEF PollSub, SetCheckpointBlockHeight, SetInitialBlockHeight, CallSubscribe
<1>5. OneRound'
  BY <1>1, <1>4, Zenon DEF OneRound
<1>6. CASE UNCHANGED <<pollPC, pollCall, pollSince, hwm, owed>>
  <2>1. MarksSafe'
    BY <1>1, <1>3, <1>6, MarksSafeFrame, Zenon
  <2>2. Order'
    BY <1>1, <1>3, <1>6, OrderFrame, Zenon
  <2> QED
    BY <1>5, <2>1, <2>2, Zenon
<1>7. CASE /\ filterStale[t] /\ subState[t] # "deleted"
           /\ pollPC' = "call" /\ pollCall' = {t}
           /\ \/ /\ checkpoint[t] > 0 /\ hwm' = [hwm EXCEPT ![t] = checkpoint[t]]
                 /\ pollSince' = checkpoint[t] /\ UNCHANGED owed
              \/ /\ fromBlock[t] # Newest
                 /\ pollSince' = fromBlock[t] /\ UNCHANGED <<hwm, owed>>
              \/ /\ checkpoint[t] <= 0 /\ fromBlock[t] = Newest
                 /\ hwm' = [hwm EXCEPT ![t] = height] /\ pollSince' = height
                 /\ owed' = [owed EXCEPT ![t] = Since(t, height)]
  <2>1. Untouched(t) /\ Untouched(t)'
    BY <1>1, <1>7, TakenFrame, Zenon DEF Order, FreshIsUntouched, Untouched
  <2>2. FreshIsUntouched'
    <3>1. \A s \in Subs : Untouched(s) => Untouched(s)'
      BY <1>1, TakenFrame, Zenon DEF Untouched
    <3> QED
      BY <1>1, <1>3, <1>7, <2>1, <3>1, Zenon DEF Order, FreshIsUntouched
  <2>3. \A s \in Subs \ {t} : owed'[s] = owed[s] /\ hwm'[s] = hwm[s]
    BY <1>7, Zenon DEF TypeOK, SubTypeOK
  <2>4. owed'[t] \subseteq Positions(t) /\ \A n \in Positions(t) : BlockOf[t][n] \in Nat
    <3>1. owed[t] \subseteq Positions(t) /\ Since(t, height) \subseteq Positions(t)
      BY Zenon DEF MarksSafe, Since
    <3>2. owed'[t] = owed[t] \/ owed'[t] = Since(t, height)
      BY <1>7, Zenon DEF TypeOK
    <3>3. owed'[t] \subseteq Positions(t)
      BY <3>1, <3>2, Zenon
    <3> QED
      BY <3>3, BlockNat, Zenon
  <2>5. EventsOf(procBatch[1], t) = {} /\ EventsOf(currentBatch[1], t) = {}
        /\ \A k \in 1..Len(batchQueue) : EventsOf(batchQueue[k], t) = {}
    <3>1. procBatch[1] \in Seq(Event) /\ currentBatch[1] \in Seq(Event)
          /\ \A k \in 1..Len(batchQueue) : batchQueue[k] \in Seq(Event)
      BY Batches, Zenon
    <3>2. \A m : (\/ m \in EventsOf(procBatch[1], t) \/ m \in EventsOf(currentBatch[1], t)
                  \/ \E k \in 1..Len(batchQueue) : m \in EventsOf(batchQueue[k], t))
                 => Taken(t, m) /\ m \in Positions(t)
      BY <3>1, EventsIn, Zenon DEF Taken, Queued
    <3> QED
      BY <2>1, <3>2, Zenon DEF Untouched
  <2>6. OneRelay'
    BY <1>1, Zenon DEF Order, OneRelay
  <2>7. BatchFirst'
    BY <1>1, <2>3, <2>5, Zenon DEF Order, BatchFirst
  <2>8. BatchHandled'
    BY <1>1, <2>3, <2>5, Zenon DEF Order, BatchHandled
  <2>9. InTurn'
    <3> SUFFICES ASSUME ~stopped, NEW s \in Subs, NEW m \in owed'[s]
                 PROVE  /\ \A k \in 1..Len(batchQueue) : \A n \in EventsOf(batchQueue[k], s) :
                             m > n \/ m \in EventsOf(procBatch[1], s) \/ Queued(s, m, k)
                        /\ \A n \in EventsOf(currentBatch[1], s) : m > n \/ Taken(s, m)
                        /\ \A i \in Relays : relay[s][i] # Off =>
                             m >= chanNext[s] \/ m = relay[s][i] \/ Taken(s, m)
                        /\ \A i \in Relays : relay[s][i] > 0 => m >= relay[s][i] \/ Taken(s, m)
      BY <1>1, TakenFrame, Zenon DEF InTurn
    <3>1. CASE s # t
      BY <2>3, <3>1, Zenon DEF Order, InTurn
    <3>2. CASE s = t
      <4>1. \A i \in Relays : relay[t][i] = Off /\ ~(relay[t][i] > 0)
        BY <2>1, Arithmetic, Zenon DEF Untouched
      <4> QED
        BY <2>5, <3>2, <4>1, Zenon
    <3> QED
      BY <3>1, <3>2, Zenon
  <2>10. MarksSafe'
    <3> SUFFICES ASSUME NEW s \in Subs
                 PROVE  /\ owed'[s] \subseteq Positions(s)
                        /\ Safe(s, stored[s])' /\ Safe(s, checkpoint[s])' /\ Safe(s, hwm[s])'
                        /\ fromBlock'[s] # Newest => Safe(s, fromBlock[s])'
                        /\ pollPC' = "call" /\ s \in pollCall' => Safe(s, pollSince)'
      BY Zenon DEF MarksSafe
    <3>1. CASE s # t
      BY <1>1, <1>3, <1>7, <2>3, <3>1, Zenon DEF MarksSafe, Safe
    <3>2. CASE s = t
      <4>1. CASE /\ owed' = owed /\ hwm'[t] \in {hwm[t], checkpoint[t]}
                 /\ \/ pollSince' = checkpoint[t]
                    \/ fromBlock[t] # Newest /\ pollSince' = fromBlock[t]
        BY <1>1, <1>3, <3>2, <4>1, Zenon DEF MarksSafe, Safe
      <4>2. CASE /\ checkpoint[t] <= 0 /\ fromBlock[t] = Newest
                 /\ hwm' = [hwm EXCEPT ![t] = height] /\ pollSince' = height
                 /\ owed' = [owed EXCEPT ![t] = Since(t, height)]
        <5>1. stored[t] <= 0
          <6>0. subState[t] \in {"new", "active"} /\ ops["reset"] = 0
            BY <1>7, Zenon DEF Conditions, NoResets, TypeOK, SubTypeOK, SubStates
          <6>1. stored[t] <= checkpoint[t] \/ stored[t] = Absent
            BY <1>1, <6>0, Zenon DEF MarksAheadOfCheckpoint, MapCovers, NewIsBlank, Active
          <6> QED
            BY <4>2, <6>1, MarkTypes, MarkOrder, Zenon
        <5>2. owed'[t] = Since(t, height) /\ hwm'[t] = height
          BY <4>2, Zenon DEF TypeOK, SubTypeOK
        <5>3. \A n \in owed'[t] : BlockOf[t][n] >= height /\ BlockOf[t][n] \in Nat
          BY <2>4, <5>2, Zenon DEF Since
        <5>4. \A n \in owed'[t] : BlockOf[t][n] >= stored[t] /\ BlockOf[t][n] >= checkpoint[t]
          BY <4>2, <5>1, <5>3, MarkTypes, MarkOrder, Zenon
        <5> QED
          BY <1>1, <1>3, <2>4, <3>2, <4>2, <5>2, <5>3, <5>4, Zenon DEF Safe
      <4>3. /\ hwm' = [hwm EXCEPT ![t] = checkpoint[t]] => hwm'[t] = checkpoint[t]
            /\ UNCHANGED hwm => hwm'[t] = hwm[t]
        BY Zenon DEF TypeOK, SubTypeOK
      <4> QED
        BY <1>7, <4>1, <4>2, <4>3, Zenon
    <3> QED
      BY <3>1, <3>2, Zenon
  <2> QED
    BY <1>5, <2>2, <2>6, <2>7, <2>8, <2>9, <2>10, Zenon DEF Order
<1>8. CASE ~(filterStale[t] /\ subState[t] # "deleted")
  BY <1>2, <1>6, <1>8, Zenon DEF PollSub
<1>9. CASE filterStale[t] /\ subState[t] # "deleted"
  <2>1. \/ checkpoint[t] > 0 /\ SetCheckpointBlockHeight(t, checkpoint[t])
        \/ checkpoint[t] <= 0 /\ SetInitialBlockHeight(t, FALSE)
    BY <1>2, <1>9, Zenon DEF PollSub, TypeOK, SubTypeOK
  <2>2. CASE checkpoint[t] > 0 /\ SetCheckpointBlockHeight(t, checkpoint[t])
    BY <1>7, <1>9, <2>2, Zenon DEF SetCheckpointBlockHeight, CallSubscribe
  <2>3. CASE checkpoint[t] <= 0 /\ SetInitialBlockHeight(t, FALSE)
    <3>1. [owed EXCEPT ![t] = owed[t]] = owed
      BY Zenon DEF TypeOK
    <3> QED
      BY <1>6, <1>7, <1>9, <2>3, <3>1, Zenon DEF SetInitialBlockHeight, CallSubscribe
  <2> QED
    BY <2>1, <2>2, <2>3, Zenon
<1> QED
  BY <1>8, <1>9, Zenon

\* SubscribeEvent returns: the registration starts no later than the first owed
\* event, on a subscription of which nothing has been read.
LEMMA DeliveryPollSubscribed ==
  ASSUME TypeOK, OneRound, MarksSafe, Order, NEW t \in Subs, PollSubscribed(t)
  PROVE  OneRound' /\ MarksSafe' /\ Order'
<1> USE DEF subVars, sdkVars, chanVars, batchVars, dispVars, procVars, pollVars, streamVars,
        updateVars
<1>1. /\ UNCHANGED <<procBatch, batchQueue, currentBatch, owed, stopped, procPC,
                     stored, hwm, fromBlock, subState, checkpoint>>
      /\ UNCHANGED <<suspended, closed, updater, updateInProgress, dispOn>>
      /\ pollPC = "call" /\ t \in pollCall /\ pollPC' = "subs"
  BY Zenon DEF PollSubscribed
<1>2. OneRound'
  BY <1>1, Zenon DEF OneRound
<1>3. MarksSafe'
  BY <1>1, MarksSafeFrame, Zenon
<1>4. Untouched(t)
  BY <1>1, Zenon DEF Order, FreshIsUntouched
<1>5. PICK r \in Relays : relay' = [relay EXCEPT ![t] = [j \in Relays |->
          IF j = r THEN Idle ELSE IF relay[t][j] = Idle THEN Off ELSE relay[t][j]]]
  BY Zenon DEF PollSubscribed
<1>6. /\ \A s \in Subs \ {t} : relay'[s] = relay[s]
      /\ \A i \in Relays : relay'[t][i] = IF i = r THEN Idle ELSE Off
  BY <1>4, <1>5, Zenon DEF Untouched, TypeOK, SdkTypeOK, Idle, Off
<1>7. PICK n0 \in 1..(Len(BlockOf[t]) + 1) :
        FirstFrom(t, pollSince, n0) /\ chanNext' = [chanNext EXCEPT ![t] = n0]
  BY Zenon DEF PollSubscribed
<1>8. chanNext'[t] = n0 /\ \A s \in Subs \ {t} : chanNext'[s] = chanNext[s]
  BY <1>7, Zenon DEF TypeOK, SdkTypeOK
<1>9. ~filterStale'[t] /\ \A s \in Subs \ {t} : filterStale'[s] = filterStale[s]
  BY Zenon DEF PollSubscribed, TypeOK, SubTypeOK
<1>10. FreshIsUntouched'
  <2>1. \A s \in Subs \ {t} : Untouched(s) => Untouched(s)'
    BY <1>1, <1>6, TakenFrame, Zenon DEF Untouched
  <2> QED
    BY <1>1, <1>9, <2>1, Zenon DEF Order, FreshIsUntouched
<1>11. OneRelay'
  BY <1>6, OneRelayFrame, Zenon DEF Order
<1>12. BatchFirst' /\ BatchHandled'
  BY <1>1, TakenFrame, Zenon DEF Order, BatchFirst, BatchHandled
<1>13. InTurn'
  <2> SUFFICES ASSUME ~stopped, NEW s \in Subs, NEW m \in owed[s]
               PROVE  /\ \A k \in 1..Len(batchQueue) : \A n \in EventsOf(batchQueue[k], s) :
                           m > n \/ m \in EventsOf(procBatch[1], s) \/ Queued(s, m, k)
                      /\ \A n \in EventsOf(currentBatch[1], s) : m > n \/ Taken(s, m)
                      /\ \A i \in Relays : relay'[s][i] # Off =>
                           m >= chanNext'[s] \/ m = relay'[s][i] \/ Taken(s, m)
                      /\ \A i \in Relays : relay'[s][i] > 0 => m >= relay'[s][i] \/ Taken(s, m)
    BY <1>1, TakenFrame, Zenon DEF InTurn
  <2>1. CASE s # t
    BY <1>6, <1>8, <2>1, Zenon DEF Order, InTurn
  <2>2. CASE s = t
    <3>1. m \in Positions(t) /\ BlockOf[t][m] >= pollSince
      BY <1>1, <2>2, Zenon DEF MarksSafe, Safe
    <3>2. BlockOf[t][m] \in Nat /\ pollSince \in Nat /\ m \in Nat /\ n0 \in Nat
      <4>1. n0 \in Nat
        OBVIOUS
      <4> QED
        BY <3>1, <4>1, BlockNat, PositionNat, Zenon DEF TypeOK, PollTypeOK
    <3>3. m >= n0
      BY <1>7, <3>1, <3>2 DEF FirstFrom
    <3>4. \A i \in Relays : ~(relay'[t][i] > 0)
      BY <1>6, Arithmetic, Zenon
    <3> QED
      BY <1>8, <2>2, <3>3, <3>4, Zenon DEF Order, InTurn
  <2> QED
    BY <2>1, <2>2, Zenon
<1> QED
  BY <1>2, <1>3, <1>10, <1>11, <1>12, <1>13, Zenon DEF Order

\* The marks recorded, and stored, are safe.
LEMMA DeliveryPollRecord ==
  ASSUME TypeOK, OneRound, MarksSafe, Order, PollRecord
  PROVE  OneRound' /\ MarksSafe' /\ Order'
<1> USE DEF subVars, sdkVars, chanVars, batchVars, dispVars, procVars, pollVars, streamVars,
        updateVars
<1>1. /\ UNCHANGED <<procBatch, batchQueue, currentBatch, relay, chanNext, owed, stopped, procPC,
                     hwm, fromBlock, subState, filterStale>>
      /\ UNCHANGED <<suspended, closed, updater, updateInProgress, dispOn>>
      /\ pollPC = "subs" /\ pollPC' = "wait"
  BY Zenon DEF PollRecord
<1>2. OneRound'
  BY <1>1, Zenon DEF OneRound
<1>3. Order'
  BY <1>1, OrderFrame, Zenon
<1>4. \A s \in Subs : /\ checkpoint'[s] \in {hwm[s], checkpoint[s]}
                      /\ stored'[s] \in {hwm[s], checkpoint[s], stored[s]}
  BY Zenon DEF PollRecord
<1>5. MarksSafe'
  BY <1>1, <1>4, Zenon DEF MarksSafe, Safe
<1> QED
  BY <1>2, <1>3, <1>5, Zenon

-----------------------------------------------------------------------------
(* The processor.                                                          *)

\* The batch at the head of the queue is in turn.
LEMMA DeliveryProcessorTake ==
  ASSUME TypeOK, OneRound, MarksSafe, Order, NEW p \in Processors, ProcessorTake(p)
  PROVE  OneRound' /\ MarksSafe' /\ Order'
<1> USE DEF subVars, sdkVars, chanVars, batchVars, dispVars, procVars, pollVars, streamVars,
        updateVars
<1>0. p = 1 /\ procBatch[1] = <<>>
  BY Zenon DEF ProcessorTake, OneRound
<1>1. /\ UNCHANGED <<currentBatch, relay, chanNext, owed, stopped, stored, hwm, fromBlock,
                     subState, filterStale>>
      /\ UNCHANGED <<checkpoint, pollPC, pollCall, pollSince>>
      /\ UNCHANGED <<suspended, closed, updater, updateInProgress, dispOn>>
      /\ ~suspendOrStop /\ batchQueue # <<>>
  BY Zenon DEF ProcessorTake
<1>2. ~stopped
  BY <1>1, Zenon DEF suspendOrStop
<1>3. /\ procPC'[1] = "loop" /\ procBatch'[1] = batchQueue[1]
      /\ \A q \in Processors \ {1} : procPC'[q] = procPC[q]
  <2>1. /\ procPC' = [procPC EXCEPT ![1] = "loop"]
        /\ procBatch' = [procBatch EXCEPT ![1] = Head(batchQueue)]
    BY <1>0, Zenon DEF ProcessorTake
  <2>2. /\ 1 \in Processors /\ DOMAIN procPC = Processors /\ DOMAIN procBatch = Processors
    BY BoundAssumption, Zenon DEF TypeOK, BatchTypeOK
  <2>3. Head(batchQueue) = batchQueue[1]
    BY DEF TypeOK, StreamTypeOK
  <2> QED
    BY <2>1, <2>2, <2>3, Zenon
<1>4. OneRound'
  BY <1>1, <1>3, Zenon DEF OneRound
<1>5. MarksSafe'
  BY <1>1, MarksSafeFrame, Zenon
<1>6. PICK q \in Nat : Len(batchQueue) = q + 1
  <2>1. Len(batchQueue) \in Nat /\ Len(batchQueue) # 0
    BY <1>1, Types, LengthOfQueue, Zenon
  <2>2. Len(batchQueue) - 1 \in Nat /\ Len(batchQueue) = (Len(batchQueue) - 1) + 1
    BY <2>1
  <2> QED
    BY <2>2, Zenon
<1>7. Len(batchQueue') = q /\ \A k \in 1..q : batchQueue'[k] = batchQueue[k + 1]
  <2>1. batchQueue \in Seq(Seq(Event))
    BY Zenon DEF TypeOK, StreamTypeOK
  <2>2. batchQueue' = Tail(batchQueue)
    BY Zenon DEF ProcessorTake
  <2>3. Len(Tail(batchQueue)) = q /\ \A k \in 1..q : Tail(batchQueue)[k] = batchQueue[k + 1]
    BY <1>1, <1>6, <2>1, TailOfQueue, Zenon
  <2> QED
    BY <2>2, <2>3, Zenon
<1>8. \A s, m : m \notin EventsOf(procBatch[1], s)
  BY <1>0, EventsEmpty, Zenon
<1>9. ASSUME NEW s, NEW m, NEW k \in 0..q
      PROVE  Queued(s, m, k + 1) <=> m \in EventsOf(batchQueue[1], s) \/ Queued(s, m, k)'
  <2>1. Queued(s, m, k + 1) <=> \E j \in 1..(k + 1) : m \in EventsOf(batchQueue[j], s)
    BY Zenon DEF Queued
  <2>2. Queued(s, m, k)' <=> \E j \in 1..k : m \in EventsOf(batchQueue[j + 1], s)
    <3>1. \A j \in 1..k : j \in 1..q
      OBVIOUS
    <3> QED
      BY <1>7, <3>1, Zenon DEF Queued
  <2>3. \A j \in 1..(k + 1) : j = 1 \/ (j - 1 \in 1..k /\ (j - 1) + 1 = j)
    OBVIOUS
  <2>4. 1 \in 1..(k + 1) /\ \A j \in 1..k : j + 1 \in 1..(k + 1)
    OBVIOUS
  <2> QED
    BY <2>1, <2>2, <2>3, <2>4, Zenon
<1>10. \A s, m : Taken(s, m)' <=> Taken(s, m)
  <2> TAKE s, m
  <2>1. Taken(s, m)' <=> \/ m \in EventsOf(batchQueue[1], s) \/ Queued(s, m, q)'
                         \/ m \in EventsOf(currentBatch[1], s)
    BY <1>1, <1>3, <1>7, Zenon DEF Taken, Queued
  <2>2. Taken(s, m) <=> Queued(s, m, q + 1) \/ m \in EventsOf(currentBatch[1], s)
    BY <1>6, <1>8, Zenon DEF Taken
  <2>3. q \in 0..q
    OBVIOUS
  <2> QED
    BY <1>9, <2>1, <2>2, <2>3, Zenon
<1>11. FreshIsUntouched'
  <2>1. \A s \in Subs : Untouched(s) => Untouched(s)'
    BY <1>1, <1>10, Zenon DEF Untouched
  <2> QED
    BY <1>1, <2>1, Zenon DEF Order, FreshIsUntouched
<1>12. OneRelay' /\ BatchHandled'
  BY <1>1, <1>3, Zenon DEF Order, OneRelay, BatchHandled
<1>13. \A s \in Subs : \A m \in owed[s] : \A k \in 0..q : \A n \in EventsOf(batchQueue[k + 1], s) :
          m > n \/ m \in EventsOf(batchQueue[1], s) \/ Queued(s, m, k)'
  <2> SUFFICES ASSUME NEW s \in Subs, NEW m \in owed[s], NEW k \in 0..q,
                      NEW n \in EventsOf(batchQueue[k + 1], s)
               PROVE  m > n \/ m \in EventsOf(batchQueue[1], s) \/ Queued(s, m, k)'
    BY Zenon
  <2>1. k + 1 \in 1..Len(batchQueue)
    BY <1>6
  <2>2. m > n \/ Queued(s, m, k + 1)
    BY <1>2, <1>8, <2>1, Zenon DEF Order, InTurn
  <2> QED
    BY <1>9, <2>2, Zenon
<1>14. BatchFirst'
  <2> SUFFICES ASSUME NEW s \in Subs, NEW m \in owed[s], NEW n \in EventsOf(batchQueue[1], s)
               PROVE  m > n \/ m \in EventsOf(batchQueue[1], s)
    BY <1>1, <1>3, Zenon DEF BatchFirst
  <2>1. 0 \in 0..q /\ 0 + 1 = 1 /\ ~Queued(s, m, 0)'
    BY DEF Queued
  <2> QED
    BY <1>13, <2>1, Zenon
<1>15. InTurn'
  <2> SUFFICES ASSUME NEW s \in Subs, NEW m \in owed[s]
               PROVE  /\ \A k \in 1..q : \A n \in EventsOf(batchQueue[k + 1], s) :
                           m > n \/ m \in EventsOf(batchQueue[1], s) \/ Queued(s, m, k)'
                      /\ \A n \in EventsOf(currentBatch[1], s) : m > n \/ Taken(s, m)'
                      /\ \A i \in Relays : relay[s][i] # Off =>
                           m >= chanNext[s] \/ m = relay[s][i] \/ Taken(s, m)'
                      /\ \A i \in Relays : relay[s][i] > 0 => m >= relay[s][i] \/ Taken(s, m)'
    BY <1>1, <1>3, <1>7, Zenon DEF InTurn
  <2>1. \A k \in 1..q : k \in 0..q
    OBVIOUS
  <2>2. \A k \in 1..q : \A n \in EventsOf(batchQueue[k + 1], s) :
           m > n \/ m \in EventsOf(batchQueue[1], s) \/ Queued(s, m, k)'
    BY <1>13, <2>1, Zenon
  <2> QED
    BY <1>2, <1>10, <2>2, Zenon DEF Order, InTurn
<1> QED
  BY <1>4, <1>5, <1>11, <1>12, <1>14, <1>15, Zenon DEF Order

\* A batch given to the client, or skipped, only takes events off what is owed;
\* it counts as processed when it has been.
LEMMA DeliveryAttempt ==
  ASSUME TypeOK, OneRound, MarksSafe, Order, NEW p \in Processors,
         PerformAction(p) \/ AttemptOK(p) \/ AttemptFail(p)
  PROVE  OneRound' /\ MarksSafe' /\ Order'
<1> USE DEF subVars, sdkVars, chanVars, batchVars, dispVars, procVars, pollVars, streamVars,
        updateVars
<1>0. p = 1 /\ ~Interrupted
  <2>1. procPC[p] # "off"
    BY Zenon DEF PerformAction, AttemptOK, AttemptFail
  <2> QED
    BY <2>1, Zenon DEF OneRound, Interrupted
<1>1. /\ UNCHANGED <<procBatch, batchQueue, currentBatch, relay, chanNext, stopped, stored, hwm,
                     fromBlock, subState, filterStale>>
      /\ UNCHANGED <<checkpoint, pollPC, pollCall, pollSince>>
      /\ UNCHANGED <<suspended, closed, updater, updateInProgress, dispOn>>
  BY Zenon DEF PerformAction, AttemptOK, AttemptFail
<1>2. owed' = owed \/ owed' = Handled(procBatch[1])
  BY <1>0, Zenon DEF PerformAction, AttemptOK, AttemptFail
<1>3. \A s \in Subs : owed'[s] \subseteq owed[s]
  BY <1>2, Zenon DEF Handled
<1>4. \/ procPC' = [procPC EXCEPT ![1] = "loop"]
      \/ procPC' = [procPC EXCEPT ![1] = "sent"]
      \/ /\ procPC' = [procPC EXCEPT ![1] = "processed"]
         /\ stopped \/ owed' = Handled(procBatch[1])
  <2>1. suspendOrStop => stopped
    BY Zenon DEF suspendOrStop, OneRound
  <2>2. CASE PerformAction(p)
    BY <1>0, <2>1, <2>2, Zenon DEF PerformAction, Returned
  <2>3. CASE AttemptOK(p)
    BY <1>0, <2>3, Zenon DEF AttemptOK, Returned
  <2>4. CASE AttemptFail(p)
    BY <1>0, <2>4, Zenon DEF AttemptFail, Returned
  <2> QED
    BY <2>2, <2>3, <2>4, Zenon
<1>5. /\ procPC'[1] \in {"loop", "sent", "processed"}
      /\ \A q \in Processors \ {1} : procPC'[q] = procPC[q]
      /\ procPC'[1] = "processed" => stopped \/ owed' = Handled(procBatch[1])
  BY <1>4, Types, Zenon DEF TypeOK, BatchTypeOK
<1>6. OneRound'
  BY <1>1, <1>5, Zenon DEF OneRound
<1>7. MarksSafe'
  BY <1>1, <1>3, Zenon DEF MarksSafe, Safe
<1>8. FreshIsUntouched'
  <2>1. \A s \in Subs : Untouched(s) => Untouched(s)'
    BY <1>1, TakenFrame, Zenon DEF Untouched
  <2> QED
    BY <1>1, <2>1, Zenon DEF Order, FreshIsUntouched
<1>9. OneRelay' /\ BatchFirst'
  BY <1>1, <1>3, TakenFrame, Zenon DEF Order, OneRelay, BatchFirst
<1>10. BatchHandled'
  BY <1>1, <1>5, Zenon DEF BatchHandled, Handled
<1>11. InTurn'
  <2> SUFFICES ASSUME ~stopped, NEW s \in Subs, NEW m \in owed'[s]
               PROVE  /\ \A k \in 1..Len(batchQueue) : \A n \in EventsOf(batchQueue[k], s) :
                           m > n \/ m \in EventsOf(procBatch[1], s) \/ Queued(s, m, k)
                      /\ \A n \in EventsOf(currentBatch[1], s) : m > n \/ Taken(s, m)
                      /\ \A i \in Relays : relay[s][i] # Off =>
                           m >= chanNext[s] \/ m = relay[s][i] \/ Taken(s, m)
                      /\ \A i \in Relays : relay[s][i] > 0 => m >= relay[s][i] \/ Taken(s, m)
    BY <1>1, TakenFrame, Zenon DEF InTurn
  <2>1. m \in owed[s]
    BY <1>3, Zenon
  <2> QED
    BY <2>1, Zenon DEF Order, InTurn
<1> QED
  BY <1>6, <1>7, <1>8, <1>9, <1>10, <1>11, Zenon DEF Order

\* batchComplete leaves a mark where it is or sets it to the block after an event
\* of the batch.
LEMMA BatchCompleteMark ==
  ASSUME NEW b \in Seq(Event), NEW s \in Subs
  PROVE  \/ BatchComplete(b)[s] = hwm[s]
         \/ \E n \in EventsOf(b, s) : BatchComplete(b)[s] = BlockOf[s][n] + 1
<1> DEFINE marks == {h \in {Block(b[i]) + 1 : i \in LastOf(b, s)} : h > hwm[s]}
<1>1. BatchComplete(b)[s] = IF marks = {} THEN hwm[s] ELSE CHOOSE h \in marks : TRUE
  BY Zenon DEF BatchComplete
<1>2. CASE marks # {}
  <2>1. BatchComplete(b)[s] \in marks
    BY <1>1, <1>2, Zenon
  <2>2. PICK i \in LastOf(b, s) : BatchComplete(b)[s] = Block(b[i]) + 1
    BY <2>1, Zenon
  <2>3. b[i].sub = s /\ b[i].n \in EventsOf(b, s)
    BY <2>2, Zenon DEF LastOf, EventsOf
  <2> QED
    BY <2>2, <2>3, Zenon DEF Block
<1> QED
  BY <1>1, <1>2, Zenon

\* The ack of a batch raises a mark only past events that are no longer owed.
LEMMA DeliveryAckBatch ==
  ASSUME Conditions, TypeOK, OneRound, MarksSafe, Order, NEW p \in Processors, AckBatch(p)
  PROVE  OneRound' /\ MarksSafe' /\ Order'
<1> USE DEF subVars, sdkVars, chanVars, batchVars, dispVars, procVars, pollVars, streamVars,
        updateVars
<1>0. p = 1 /\ procPC[1] = "ack"
  BY Zenon DEF AckBatch, OneRound
<1>1. /\ UNCHANGED <<batchQueue, currentBatch, relay, chanNext, stopped, stored, owed,
                     fromBlock, subState, filterStale>>
      /\ UNCHANGED <<checkpoint, pollPC, pollCall, pollSince>>
      /\ UNCHANGED <<suspended, closed, updater, updateInProgress, dispOn>>
  BY Zenon DEF AckBatch
<1>2. /\ procPC'[1] = "idle" /\ procBatch'[1] = <<>>
      /\ \A q \in Processors \ {1} : procPC'[q] = procPC[q]
  BY <1>0, Types, Zenon DEF AckBatch, BatchDone, TypeOK, BatchTypeOK
<1>3. OneRound'
  BY <1>1, <1>2, Zenon DEF OneRound
<1>4. \A s \in Subs : ~stopped => owed[s] \cap EventsOf(procBatch[1], s) = {}
  BY <1>0, Zenon DEF Order, BatchHandled
<1>5. \A s \in Subs : Safe(s, hwm[s])'
  <2> TAKE s \in Subs
  <2>1. CASE hwm'[s] = hwm[s]
    BY <1>1, <2>1, Zenon DEF MarksSafe, Safe
  <2>2. CASE ~stopped /\ \E n \in EventsOf(procBatch[1], s) : hwm'[s] = BlockOf[s][n] + 1
    <3>1. PICK n \in EventsOf(procBatch[1], s) : hwm'[s] = BlockOf[s][n] + 1
      BY <2>2, Zenon
    <3>2. n \in Positions(s) /\ n \in Nat
      BY Types, EventsIn, Zenon
    <3>3. ASSUME NEW m \in owed[s] PROVE BlockOf[s][m] >= hwm'[s]
      <4>1. m > n /\ m \in Positions(s)
        BY <1>4, <2>2, Zenon DEF Order, BatchFirst, MarksSafe
      <4>2. m \in Nat /\ BlockOf[s][m] \in Nat /\ BlockOf[s][n] \in Nat
        BY <3>2, <4>1, BlockNat, PositionNat, Zenon
      <4>3. BlockOf[s][n] < BlockOf[s][m]
        BY <3>2, <4>1, <4>2, Zenon DEF Conditions
      <4> QED
        BY <3>1, <4>2, <4>3, Arithmetic, Zenon
    <3> QED
      BY <1>1, <3>3, Zenon DEF Safe
  <2>3. hwm'[s] = hwm[s] \/ (~stopped /\ hwm'[s] = BatchComplete(procBatch[1])[s])
    BY <1>0, Zenon DEF AckBatch, suspendOrStop
  <2> QED
    BY <2>1, <2>2, <2>3, Types, BatchCompleteMark, Zenon
<1>6. MarksSafe'
  BY <1>1, <1>5, Zenon DEF MarksSafe, Safe
<1>7. \A s, m : Taken(s, m)' <=> Queued(s, m, Len(batchQueue)) \/ m \in EventsOf(currentBatch[1], s)
  BY <1>1, <1>2, EventsEmpty, Zenon DEF Taken, Queued
<1>8. FreshIsUntouched'
  <2>1. \A s \in Subs : Untouched(s) => Untouched(s)'
    BY <1>1, <1>7, Zenon DEF Untouched, Taken
  <2> QED
    BY <1>1, <2>1, Zenon DEF Order, FreshIsUntouched
<1>9. OneRelay' /\ BatchFirst' /\ BatchHandled'
  BY <1>1, <1>2, EventsEmpty, Zenon DEF Order, OneRelay, BatchFirst, BatchHandled
<1>10. InTurn'
  <2> SUFFICES ASSUME ~stopped, NEW s \in Subs, NEW m \in owed[s]
               PROVE  /\ \A k \in 1..Len(batchQueue) : \A n \in EventsOf(batchQueue[k], s) :
                           m > n \/ Queued(s, m, k)
                      /\ \A n \in EventsOf(currentBatch[1], s) : m > n \/ Taken(s, m)'
                      /\ \A i \in Relays : relay[s][i] # Off =>
                           m >= chanNext[s] \/ m = relay[s][i] \/ Taken(s, m)'
                      /\ \A i \in Relays : relay[s][i] > 0 => m >= relay[s][i] \/ Taken(s, m)'
    BY <1>1, Zenon DEF InTurn, Queued
  <2>1. m \notin EventsOf(procBatch[1], s)
    BY <1>4, Zenon
  <2>2. Taken(s, m) => Taken(s, m)'
    BY <1>7, <2>1, Zenon DEF Taken
  <2> QED
    BY <2>1, <2>2, Zenon DEF Order, InTurn
<1> QED
  BY <1>3, <1>6, <1>8, <1>9, <1>10, Zenon DEF Order

-----------------------------------------------------------------------------
(* The start of the process, and the theorems.                             *)

\* A process that starts has read nothing.
LEMMA OrderStart ==
  ASSUME batchQueue = <<>>,
         procBatch = [p \in Processors |-> <<>>], currentBatch = [d \in Dispatchers |-> <<>>],
         relay = [s \in Subs |-> [i \in Relays |-> Off]]
  PROVE  Order
<1>1. 1 \in Processors /\ 1 \in Dispatchers
  BY BoundAssumption, Zenon
<1>2. \A s : EventsOf(procBatch[1], s) = {} /\ EventsOf(currentBatch[1], s) = {}
  BY <1>1, EventsEmpty, Zenon
<1>3. \A k : k \notin 1..Len(batchQueue)
  OBVIOUS
<1>4. \A s \in Subs, i \in Relays : relay[s][i] = Off /\ ~(relay[s][i] > 0)
  BY DEF Off
<1>5. FreshIsUntouched
  BY <1>2, <1>3, <1>4, Zenon DEF FreshIsUntouched, Untouched, Taken, Queued
<1>6. OneRelay /\ BatchFirst /\ BatchHandled
  BY <1>2, <1>4, Zenon DEF OneRelay, BatchFirst, BatchHandled
<1>7. InTurn
  BY <1>2, <1>3, <1>4, Zenon DEF InTurn
<1> QED
  BY <1>5, <1>6, <1>7, Zenon DEF Order

\* The invariant holds when the process starts.
LEMMA DeliveryInit == Init => NoResets /\ Delivery
<1> SUFFICES ASSUME Init PROVE NoResets /\ Delivery
  BY Zenon
<1>1. NoResets
  BY Zenon DEF Init, NoResets, OpNames
<1>2. OneRound
  BY BoundAssumption, Zenon DEF Init, OneRound
<1>3. MarksSafe
  <2> SUFFICES ASSUME NEW s \in Subs
               PROVE  /\ owed[s] \subseteq Positions(s)
                      /\ Safe(s, stored[s]) /\ Safe(s, checkpoint[s]) /\ Safe(s, hwm[s])
                      /\ fromBlock[s] # Newest => Safe(s, fromBlock[s])
    BY Zenon DEF MarksSafe, Init
  <2>1. owed[s] = IF FromBlock[s] = Newest THEN {} ELSE Since(s, FromBlock[s])
    BY Zenon DEF Init
  <2>2. owed[s] \subseteq Positions(s)
    BY <2>1, Zenon DEF Since
  <2>3. \A n \in owed[s] : BlockOf[s][n] >= 0 /\ BlockOf[s][n] >= -1
    BY <2>2, BlockNat, Arithmetic, Zenon
  <2>4. Safe(s, stored[s]) /\ Safe(s, checkpoint[s]) /\ Safe(s, hwm[s])
    <3>1. stored[s] = -1 /\ checkpoint[s] = -1 /\ hwm[s] = 0
      BY Zenon DEF Init, Absent
    <3> QED
      BY <2>3, <3>1, Zenon DEF Safe
  <2>5. fromBlock[s] # Newest => Safe(s, fromBlock[s])
    BY <2>1, Zenon DEF Init, Safe, Since
  <2> QED
    BY <2>2, <2>4, <2>5, Zenon
<1>4. Order
  BY OrderStart, Zenon DEF Init
<1> QED
  BY <1>1, <1>2, <1>3, <1>4, Zenon DEF Delivery

\* The checkpoint in LevelDB survives a crash; the marks start again from 0.
LEMMA DeliveryCrash ==
  ASSUME TypeOK, OneRound, MarksSafe, Crash
  PROVE  OneRound' /\ MarksSafe' /\ Order'
<1>1. OneRound'
  BY BoundAssumption, Zenon DEF Crash, OneRound
<1>2. MarksSafe'
  <2> SUFFICES ASSUME NEW s \in Subs
               PROVE  /\ owed'[s] \subseteq Positions(s)
                      /\ Safe(s, stored[s])' /\ Safe(s, checkpoint[s])' /\ Safe(s, hwm[s])'
                      /\ fromBlock'[s] # Newest => Safe(s, fromBlock[s])'
    BY Zenon DEF MarksSafe, Crash
  <2>1. UNCHANGED <<owed, stored, fromBlock>> /\ checkpoint'[s] = -1 /\ hwm'[s] = 0
    BY Zenon DEF Crash, Absent
  <2>2. owed[s] \subseteq Positions(s)
    BY Zenon DEF MarksSafe
  <2>3. \A n \in owed[s] : BlockOf[s][n] >= 0 /\ BlockOf[s][n] >= -1
    BY <2>2, BlockNat, Arithmetic, Zenon
  <2>4. Safe(s, stored[s])' /\ (fromBlock'[s] # Newest => Safe(s, fromBlock[s])')
    BY <2>1, Zenon DEF MarksSafe, Safe
  <2>5. Safe(s, checkpoint[s])' /\ Safe(s, hwm[s])'
    BY <2>1, <2>3, Zenon DEF Safe
  <2> QED
    BY <2>1, <2>2, <2>4, <2>5, Zenon
<1>3. Order'
  <2>1. /\ batchQueue' = <<>> /\ procBatch' = [p \in Processors |-> <<>>]
        /\ currentBatch' = [d \in Dispatchers |-> <<>>]
        /\ relay' = [s \in Subs |-> [i \in Relays |-> Off]]
    BY Zenon DEF Crash
  <2>2. 1 \in Processors /\ 1 \in Dispatchers
    BY BoundAssumption, Zenon
  <2>3. \A s : EventsOf(procBatch'[1], s) = {} /\ EventsOf(currentBatch'[1], s) = {}
    BY <2>1, <2>2, EventsEmpty, Zenon
  <2>4. \A k : k \notin 1..Len(batchQueue')
    BY <2>1
  <2>5. \A s \in Subs, i \in Relays : relay'[s][i] = Off /\ ~(relay'[s][i] > 0)
    BY <2>1 DEF Off
  <2>6. FreshIsUntouched'
    BY <2>3, <2>4, <2>5, Zenon DEF FreshIsUntouched, Untouched, Taken, Queued
  <2>7. OneRelay' /\ BatchFirst' /\ BatchHandled'
    BY <2>3, <2>5, Zenon DEF OneRelay, BatchFirst, BatchHandled
  <2>8. InTurn'
    BY <2>3, <2>4, <2>5, Zenon DEF InTurn
  <2> QED
    BY <2>6, <2>7, <2>8, Zenon DEF Order
<1> QED
  BY <1>1, <1>2, <1>3, Zenon

\* Every step keeps the invariant.
LEMMA DeliveryStep ==
  ASSUME Conditions, TypeOK, TypeOK', MarksAheadOfCheckpoint, NoResets, Delivery, [Next]_vars
  PROVE  NoResets' /\ Delivery'
<1>0. OneRound /\ MarksSafe /\ Order
  BY Zenon DEF Delivery
<1>1. CASE UNCHANGED vars
  <2> USE <1>1 DEF vars, subVars, sdkVars, chanVars, batchVars, dispVars, procVars, pollVars,
          streamVars, updateVars
  <2>1. NoResets' /\ OneRound'
    BY <1>0, Zenon DEF NoResets, OneRound
  <2>2. MarksSafe'
    BY <1>0, MarksSafeFrame, Zenon
  <2>3. Order'
    BY <1>0, OrderFrame, Zenon
  <2> QED
    BY <2>1, <2>2, <2>3, Zenon DEF Delivery
<1>2. CASE Next
  <2>1. NoResets'
    BY <1>0, Disabled, Zenon
  <2> SUFFICES OneRound' /\ MarksSafe' /\ Order'
    BY <2>1, Zenon DEF Delivery
  <2>2. CASE Mine
    BY <1>0, <2>2, QuietPoll, Zenon
  <2>3. CASE Crash
    BY <1>0, <2>3, DeliveryCrash, Zenon
  <2>4. CASE Relaying
    BY <1>0, <2>4, DeliveryRelayRead, DeliveryRelayExit, Zenon DEF Relaying
  <2>5. CASE Dispatching
    BY <1>0, <2>5, DeliveryDispatchEvent, DeliveryDispatchTimeout, DeliveryDispatchExit, Zenon
       DEF Dispatching
  <2>6. CASE Polling
    BY <1>0, <2>6, QuietPoll, DeliveryPollSub, DeliveryPollSubscribed, DeliveryPollRecord, Zenon
       DEF Polling
  <2>7. CASE Processing
    BY <1>0, <2>7, Disabled, QuietProcessor, DeliveryProcessorTake, DeliveryAttempt,
       DeliveryAckBatch, Zenon DEF Processing
  <2>8. CASE Handlers
    BY <1>0, <2>8, Disabled, QuietHandlers, Zenon DEF Handlers
  <2> QED
    BY <1>0, <1>2, <2>2, <2>3, <2>4, <2>5, <2>6, <2>7, <2>8, Disabled, Zenon DEF Next
<1> QED
  BY <1>1, <1>2, Zenon

\* Delivery is an invariant: at every moment the events a subscription is owed are
\* covered by its marks and checkpoints, and the stages between the SDK's channel
\* and the batch being processed hold them in chain order.
THEOREM DeliveryCorrect ==
  ASSUME Conditions
  PROVE  Spec => [](NoResets /\ Delivery)
<1>0. "recovery" \notin Faults
  BY Zenon DEF Conditions
<1>1. Spec => []MarksAheadOfCheckpoint
  BY <1>0, MarksCorrect, Zenon
<1>2. /\ TypeOK /\ TypeOK' /\ MarksAheadOfCheckpoint /\ NoResets /\ Delivery /\ [Next]_vars
      => (NoResets /\ Delivery)'
  BY DeliveryStep, Zenon
<1> QED
  BY <1>1, <1>2, DeliveryInit, TypeCorrect, PTL DEF Spec

\* No event is lost: the checkpoint the poller persists in LevelDB, from which a
\* restarted process subscribes, never lies beyond an event that a subscription
\* has still to be given, whatever crashes, stops and failed calls came before.
THEOREM NothingLost ==
  ASSUME Conditions
  PROVE  Spec => []CheckpointCoversOwed
<1>1. Delivery => CheckpointCoversOwed
  BY Zenon DEF Delivery, MarksSafe, Safe, CheckpointCoversOwed, Active
<1> QED
  BY <1>1, DeliveryCorrect, PTL

\* What is owed changes when a batch is given to the client or skipped, and when
\* a newest position is taken.
LEMMA OwedSteps ==
  ASSUME Conditions, TypeOK, MarksAheadOfCheckpoint, NoResets, OneRound, Next
  PROVE  \/ UNCHANGED owed
         \/ owed' = Handled(procBatch[1])
         \/ \E t \in Subs : owed' = [owed EXCEPT ![t] = Since(t, height)]
<1>1. CASE Mine \/ Crash \/ Relaying \/ Dispatching
  BY <1>1, ZenonT(30) DEF Mine, Crash, Relaying, RelayRead, RelayExit, Dispatching, DispatchEvent,
     DispatchTimeout, DispatchExit
<1>2. CASE Handlers
  BY <1>2, ZenonT(30) DEF Handlers, Suspend, Resume, UpdateBegin, UpdateFinish, UpdateRefused,
     Stop, AddSubscription, ResetSubscription, DeleteSubscription
<1>3. CASE PollExit \/ PollBegin \/ PollLoadFails \/ (\E s \in Subs : PollSubscribed(s))
           \/ PollSubscribeFails \/ PollRecord \/ PollWait
  BY <1>3, ZenonT(30) DEF PollExit, PollBegin, PollLoadFails, PollSubscribed,
     PollSubscribeFails, PollRecord, PollWait
<1>4. ASSUME NEW t \in Subs, PollSub(t)
      PROVE  UNCHANGED owed \/ owed' = [owed EXCEPT ![t] = Since(t, height)]
  <2>1. ~resetRequested[t] /\ [owed EXCEPT ![t] = owed[t]] = owed
    BY Zenon DEF NoResets, MarksAheadOfCheckpoint, TypeOK
  <2>2. \/ UNCHANGED owed \/ SetInitialBlockHeight(t, FALSE)
    BY <1>4, <2>1, Zenon DEF PollSub, SetCheckpointBlockHeight, TypeOK, SubTypeOK
  <2> QED
    BY <2>1, <2>2, Zenon DEF SetInitialBlockHeight
<1>5. CASE Processing
  <2> PICK p \in Processors :
        \/ ProcessorTake(p) \/ ProcessorSuspended(p) \/ ProcessorUpdated(p) \/ ProcessorExit(p)
        \/ ProcessBatch(p) \/ PerformAction(p) \/ AttemptOK(p) \/ AttemptRetry(p)
        \/ AttemptFail(p) \/ ReleaseBatch(p) \/ AckBatch(p)
    BY <1>5, Zenon DEF Processing
  <2>1. CASE PerformAction(p) \/ AttemptOK(p) \/ AttemptFail(p)
    <3>1. p = 1
      BY <2>1, Zenon DEF PerformAction, AttemptOK, AttemptFail, OneRound
    <3> QED
      BY <2>1, <3>1, Zenon DEF PerformAction, AttemptOK, AttemptFail
  <2>2. CASE \/ ProcessorTake(p) \/ ProcessorSuspended(p) \/ ProcessorUpdated(p)
             \/ ProcessorExit(p) \/ ProcessBatch(p) \/ AttemptRetry(p) \/ ReleaseBatch(p)
             \/ AckBatch(p)
    BY <2>2, Zenon DEF ProcessorTake, ProcessorSuspended, ProcessorUpdated, ProcessorExit,
       ProcessBatch, AttemptRetry, ReleaseBatch, AckBatch
  <2> QED
    BY <2>1, <2>2, Zenon
<1>6. \A s \in Subs : ~RecoverSubscription(s)
  BY Zenon DEF RecoverSubscription, Conditions, TypeOK, SubTypeOK, SubStates
<1> QED
  BY <1>1, <1>2, <1>3, <1>4, <1>5, <1>6, Zenon DEF Next, Polling

\* Events are given to the client in chain order: a batch that is delivered or
\* skipped holds no event behind one the subscription is still owed, whatever
\* crashes, stops and failed calls came before.
THEOREM DeliveredInOrder ==
  ASSUME Conditions
  PROVE  Spec => InOrder
<1>1. TypeOK /\ MarksAheadOfCheckpoint /\ NoResets /\ Delivery /\ [Next]_vars
        => [\A s \in Active : \A m \in owed[s] \ owed'[s], n \in owed'[s] : m < n]_vars
  <2> SUFFICES ASSUME TypeOK, MarksAheadOfCheckpoint, NoResets, Delivery, Next,
                      NEW s \in Active, NEW m \in owed[s] \ owed'[s], NEW n \in owed'[s]
               PROVE  m < n
    BY Zenon
  <2>0. /\ OneRound /\ MarksSafe /\ Order /\ s \in Subs
        /\ \A k \in owed[s] : k \in Positions(s) /\ k \in Nat
    BY Zenon DEF Delivery, MarksSafe, Active, TypeOK
  <2>1. CASE owed' = owed
    BY <2>1, Zenon
  <2>2. CASE owed' = Handled(procBatch[1])
    <3>1. /\ n \in owed[s] /\ n \notin EventsOf(procBatch[1], s)
          /\ m \in EventsOf(procBatch[1], s)
      BY <2>0, <2>2, Zenon DEF Handled
    <3>2. n > m
      BY <2>0, <3>1, Zenon DEF Order, BatchFirst
    <3> QED
      BY <2>0, <3>1, <3>2, Zenon
  <2>3. CASE \E t \in Subs : owed' = [owed EXCEPT ![t] = Since(t, height)]
    <3>1. owed'[s] = Since(s, height)
      BY <2>0, <2>3, Zenon DEF TypeOK
    <3>2. m \in Positions(s) /\ n \in Positions(s) /\ ~(BlockOf[s][m] >= height)
          /\ BlockOf[s][n] >= height
      BY <2>0, <3>1, Zenon DEF Since
    <3>3. /\ m \in Nat /\ n \in Nat /\ height \in Nat
          /\ BlockOf[s][m] \in Nat /\ BlockOf[s][n] \in Nat
      <4>1. height \in Nat
        BY BoundAssumption DEF TypeOK
      <4> QED
        BY <2>0, <3>2, <4>1, BlockNat, PositionNat, Zenon
    <3>4. n < m => BlockOf[s][n] <= BlockOf[s][m]
      BY <2>0, <3>2, ChainAssumption, Zenon
    <3> QED
      BY <3>2, <3>3, <3>4
  <2> QED
    BY <2>0, <2>1, <2>2, <2>3, OwedSteps, Zenon
<1>2. Spec => []MarksAheadOfCheckpoint
  BY MarksCorrect, Zenon DEF Conditions
<1> QED
  BY <1>1, <1>2, TypeCorrect, DeliveryCorrect, PTL DEF Spec, InOrder
=============================================================================
