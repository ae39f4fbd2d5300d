---------------------- MODULE SubscriptionStoreProofs ----------------------
(***************************************************************************)
(* What AddStream and AddSubscription have acknowledged survives; with     *)
(* requests one at a time, what was deleted stays deleted, checkpoints go  *)
(* last and lookup keys are exact: proved for any number of threads and    *)
(* IDs, and for all failures of LevelDB and crashes in between.            *)
(***************************************************************************)
EXTENDS SubscriptionStore, TLAPS

Present == streams \cup dbStreams \cup subscriptions \cup dbSubs

\* What a thread at a given step holds in its arguments: objects that were
\* issued, of the kind the step is about.
ArgsOK ==
  \A t \in Threads :
    /\ pc[t] \in {"storeStream", "deleteSubs", "deleteStream", "deleteCheckpoint"} =>
         stream[t] \in Streams \cap issued
    /\ pc[t] \in {"create", "storeSubscription", "storeLookupKey", "unsubscribe",
                  "deleteInfo", "deleteLookupKey"} => sub[t] \in Subs \cap issued
    /\ op[t] = "deleteStream" => stream[t] \in Streams \cap issued

\* The part of the invariant that is about types: TypeOK is not inductive by
\* itself, because a reply records the arguments of a thread.
Typed == TypeOK /\ Present \subseteq issued /\ ArgsOK

\* Before a creation is acknowledged the object is in the map, and the record
\* of a subscription in LevelDB, unless its deletion has begun; nothing is
\* taken out of the map or of LevelDB before its deletion has begun.
Underway ==
  \A t \in Threads :
    /\ pc[t] = "storeStream" => stream[t] \in streams \cup doomed
    /\ pc[t] \in {"storeSubscription", "storeLookupKey"} =>
         sub[t] \in subscriptions \cup doomed
    /\ pc[t] = "storeLookupKey" => sub[t] \in dbSubs \cup doomed
    /\ pc[t] \in {"deleteInfo", "deleteLookupKey"} => sub[t] \in doomed
    /\ pc[t] \in {"deleteSubs", "deleteStream"} \/ op[t] = "deleteStream" =>
         stream[t] \in doomed
    /\ pc[t] = "storeStream" /\ op[t] = "add" =>
         \A s \in (acked \ doomed) \cap Subs : StreamOf[s] = stream[t] => s \in subscriptions

\* A subscription is created only in a stream that exists, so none is older
\* than its stream.
Rooted ==
  /\ \A s \in (Present \cup acked) \cap Subs : StreamOf[s] \in issued
  /\ \A t \in Threads :
       /\ pc[t] = "create" => stream[t] = StreamOf[sub[t]]
       /\ pc[t] \in {"storeSubscription", "storeLookupKey"} => StreamOf[sub[t]] \in issued

LEMMA TypedInit == Init => Typed
<1> SUFFICES ASSUME Init PROVE Typed
  BY Zenon
<1>1. pc \in [Threads -> Labels] /\ todo \in [Threads -> SUBSET Subs]
  BY Zenon DEF Init, Labels
<1>2. TypeOK
  BY <1>1, IDAssumption, Zenon DEF Init, TypeOK
<1>3. Present \subseteq issued /\ ArgsOK
  BY Zenon DEF Init, Present, ArgsOK
<1>4. QED
  BY <1>2, <1>3, Zenon DEF Typed

LEMMA TypedStep == Typed /\ [Next]_vars => Typed'
<1> SUFFICES ASSUME Typed, [Next]_vars PROVE Typed'
  BY Zenon
<1> USE IDAssumption, CrashAssumption
    DEF Typed, TypeOK, Present, ArgsOK, Labels, mapVars, dbVars, argVars, history, At,
        Goto, Arrive, Reply
<1>1. ASSUME NEW t \in Threads, NEW st \in Streams, AddStream(t, st)
      PROVE  Typed'
  BY <1>1 DEF AddStream, addStream
<1>2. ASSUME NEW t \in Threads, NEW st \in Streams, ChangeStream(t, st)
      PROVE  Typed'
  BY <1>2 DEF ChangeStream
<1>3. ASSUME NEW t \in Threads, NEW st \in Streams, DeleteStream(t, st)
      PROVE  Typed'
  BY <1>3 DEF DeleteStream
<1>4. ASSUME NEW t \in Threads, NEW s \in Subs, AddSubscription(t, s)
      PROVE  Typed'
  BY <1>4, Zenon DEF AddSubscription, NoConflict, Fails
<1>5. ASSUME NEW t \in Threads, NEW s \in Subs, ResetSubscription(t, s)
      PROVE  Typed'
  BY <1>5 DEF ResetSubscription
<1>6. ASSUME NEW t \in Threads, NEW s \in Subs, DeleteSubscription(t, s)
      PROVE  Typed'
  BY <1>6 DEF DeleteSubscription
<1>7. ASSUME NEW t \in Threads, StoreStream(t)
      PROVE  Typed'
  BY <1>7 DEF StoreStream
<1>8. ASSUME NEW t \in Threads, StoreStreamFails(t)
      PROVE  Typed'
  BY <1>8 DEF StoreStreamFails, Fails
<1>9. ASSUME NEW t \in Threads, DeleteNextSub(t)
      PROVE  Typed'
  BY <1>9 DEF DeleteNextSub
<1>10. ASSUME NEW t \in Threads, RemoveStream(t)
      PROVE  Typed'
  BY <1>10 DEF RemoveStream
<1>11. ASSUME NEW t \in Threads, DeleteStreamInfo(t)
      PROVE  Typed'
  BY <1>11 DEF DeleteStreamInfo
<1>12. ASSUME NEW t \in Threads, DeleteStreamFails(t)
      PROVE  Typed'
  BY <1>12 DEF DeleteStreamFails, Fails
<1>13. ASSUME NEW t \in Threads, DeleteCheckpoint(t)
      PROVE  Typed'
  BY <1>13, ZenonT(30) DEF DeleteCheckpoint, Fails
<1>14. ASSUME NEW t \in Threads, CreateSubscription(t)
      PROVE  Typed'
  BY <1>14 DEF CreateSubscription
<1>15. ASSUME NEW t \in Threads, StoreSubscription(t)
      PROVE  Typed'
  BY <1>15 DEF StoreSubscription
<1>16. ASSUME NEW t \in Threads, StoreLookupKey(t)
      PROVE  Typed'
  BY <1>16 DEF StoreLookupKey
<1>17. ASSUME NEW t \in Threads, StoreSubscriptionFails(t)
      PROVE  Typed'
  BY <1>17 DEF StoreSubscriptionFails, Fails
<1>18. ASSUME NEW t \in Threads, Unsubscribe(t)
      PROVE  Typed'
  BY <1>18 DEF Unsubscribe
<1>19. ASSUME NEW t \in Threads, DeleteInfo(t)
      PROVE  Typed'
  BY <1>19 DEF DeleteInfo
<1>20. ASSUME NEW t \in Threads, DeleteLookupKey(t)
      PROVE  Typed'
  BY <1>20 DEF DeleteLookupKey, Return
<1>21. ASSUME NEW t \in Threads, DeleteSubscriptionFails(t)
      PROVE  Typed'
  BY <1>21, SMTT(20) DEF DeleteSubscriptionFails, Return, Fails
<1>22. ASSUME NEW st \in Streams, PollerTurn(st)
      PROVE  Typed'
  BY <1>22, Zenon DEF PollerTurn
<1>23. ASSUME NEW st \in Streams, PollerStore(st)
      PROVE  Typed'
  BY <1>23 DEF PollerStore
<1>24. CASE Crash
  BY <1>24 DEF Crash, Recoverable
<1>25. CASE UNCHANGED vars
  BY <1>25, Zenon DEF vars
<1>26. QED
  BY <1>1, <1>2, <1>3, <1>4, <1>5, <1>6, <1>7, <1>8, <1>9, <1>10, <1>11,
     <1>12, <1>13, <1>14, <1>15, <1>16, <1>17, <1>18, <1>19, <1>20, <1>21,
     <1>22, <1>23, <1>24, <1>25, Zenon DEF Next, StreamRequest, SubRequest

LEMMA RootedStep == Typed /\ Rooted /\ [Next]_vars => Rooted'
<1> SUFFICES ASSUME Typed, Rooted, [Next]_vars PROVE Rooted'
  BY Zenon
<1> USE IDAssumption
    DEF Typed, TypeOK, Present, ArgsOK, Rooted, mapVars, dbVars, argVars, history, At, Goto,
        Arrive, Reply
<1>1. ASSUME NEW t \in Threads, NEW st \in Streams, AddStream(t, st)
      PROVE  Rooted'
  BY <1>1 DEF AddStream, addStream
<1>2. ASSUME NEW t \in Threads, NEW st \in Streams, ChangeStream(t, st)
      PROVE  Rooted'
  BY <1>2 DEF ChangeStream
<1>3. ASSUME NEW t \in Threads, NEW st \in Streams, DeleteStream(t, st)
      PROVE  Rooted'
  BY <1>3 DEF DeleteStream
<1>4. ASSUME NEW t \in Threads, NEW s \in Subs, AddSubscription(t, s)
      PROVE  Rooted'
  BY <1>4 DEF AddSubscription, NoConflict, Fails
<1>5. ASSUME NEW t \in Threads, NEW s \in Subs, ResetSubscription(t, s)
      PROVE  Rooted'
  BY <1>5 DEF ResetSubscription
<1>6. ASSUME NEW t \in Threads, NEW s \in Subs, DeleteSubscription(t, s)
      PROVE  Rooted'
  BY <1>6 DEF DeleteSubscription
<1>7. ASSUME NEW t \in Threads, StoreStream(t)
      PROVE  Rooted'
  BY <1>7 DEF StoreStream
<1>8. ASSUME NEW t \in Threads, StoreStreamFails(t)
      PROVE  Rooted'
  BY <1>8 DEF StoreStreamFails, Fails
<1>9. ASSUME NEW t \in Threads, DeleteNextSub(t)
      PROVE  Rooted'
  BY <1>9 DEF DeleteNextSub
<1>10. ASSUME NEW t \in Threads, RemoveStream(t)
      PROVE  Rooted'
  BY <1>10 DEF RemoveStream
<1>11. ASSUME NEW t \in Threads, DeleteStreamInfo(t)
      PROVE  Rooted'
  BY <1>11 DEF DeleteStreamInfo
<1>12. ASSUME NEW t \in Threads, DeleteStreamFails(t)
      PROVE  Rooted'
  BY <1>12 DEF DeleteStreamFails, Fails
<1>13. ASSUME NEW t \in Threads, DeleteCheckpoint(t)
      PROVE  Rooted'
  BY <1>13 DEF DeleteCheckpoint, Fails
<1>14. ASSUME NEW t \in Threads, CreateSubscription(t)
      PROVE  Rooted'
  BY <1>14 DEF CreateSubscription
<1>15. ASSUME NEW t \in Threads, StoreSubscription(t)
      PROVE  Rooted'
  BY <1>15 DEF StoreSubscription
<1>16. ASSUME NEW t \in Threads, StoreLookupKey(t)
      PROVE  Rooted'
  BY <1>16 DEF StoreLookupKey
<1>17. ASSUME NEW t \in Threads, StoreSubscriptionFails(t)
      PROVE  Rooted'
  BY <1>17 DEF StoreSubscriptionFails, Fails
<1>18. ASSUME NEW t \in Threads, Unsubscribe(t)
      PROVE  Rooted'
  BY <1>18 DEF Unsubscribe
<1>19. ASSUME NEW t \in Threads, DeleteInfo(t)
      PROVE  Rooted'
  BY <1>19 DEF DeleteInfo
<1>20. ASSUME NEW t \in Threads, DeleteLookupKey(t)
      PROVE  Rooted'
  BY <1>20 DEF DeleteLookupKey, Return
<1>21. ASSUME NEW t \in Threads, DeleteSubscriptionFails(t)
      PROVE  Rooted'
  BY <1>21 DEF DeleteSubscriptionFails, Return, Fails
<1>22. ASSUME NEW st \in Streams, PollerTurn(st)
      PROVE  Rooted'
  BY <1>22, Zenon DEF PollerTurn
<1>23. ASSUME NEW st \in Streams, PollerStore(st)
      PROVE  Rooted'
  BY <1>23, Zenon DEF PollerStore
<1>24. CASE Crash
  BY <1>24, Zenon DEF Crash, Recoverable
<1>25. CASE UNCHANGED vars
  BY <1>25, ZenonT(30) DEF vars
<1>26. QED
  BY <1>1, <1>2, <1>3, <1>4, <1>5, <1>6, <1>7, <1>8, <1>9, <1>10, <1>11,
     <1>12, <1>13, <1>14, <1>15, <1>16, <1>17, <1>18, <1>19, <1>20, <1>21,
     <1>22, <1>23, <1>24, <1>25 DEF Next, StreamRequest, SubRequest

LEMMA SurvivesStep ==
  Typed /\ Rooted /\ Underway /\ AcknowledgedSurvives /\ [Next]_vars =>
    Underway' /\ AcknowledgedSurvives'
<1> SUFFICES ASSUME Typed, Rooted, Underway, AcknowledgedSurvives, [Next]_vars
             PROVE  Underway' /\ AcknowledgedSurvives'
  BY Zenon
<1> USE IDAssumption
    DEF Typed, TypeOK, Present, ArgsOK, Rooted, Underway, AcknowledgedSurvives, mapVars,
        dbVars, argVars, history, At, Goto, Arrive, Reply
<1>1. ASSUME NEW t \in Threads, NEW st \in Streams, AddStream(t, st)
      PROVE  Underway' /\ AcknowledgedSurvives'
  BY <1>1 DEF AddStream, addStream
<1>2. ASSUME NEW t \in Threads, NEW st \in Streams, ChangeStream(t, st)
      PROVE  Underway' /\ AcknowledgedSurvives'
  BY <1>2 DEF ChangeStream
<1>3. ASSUME NEW t \in Threads, NEW st \in Streams, DeleteStream(t, st)
      PROVE  Underway' /\ AcknowledgedSurvives'
  BY <1>3 DEF DeleteStream
<1>4. ASSUME NEW t \in Threads, NEW s \in Subs, AddSubscription(t, s)
      PROVE  Underway' /\ AcknowledgedSurvives'
  BY <1>4 DEF AddSubscription, NoConflict, Fails
<1>5. ASSUME NEW t \in Threads, NEW s \in Subs, ResetSubscription(t, s)
      PROVE  Underway' /\ AcknowledgedSurvives'
  BY <1>5 DEF ResetSubscription
<1>6. ASSUME NEW t \in Threads, NEW s \in Subs, DeleteSubscription(t, s)
      PROVE  Underway' /\ AcknowledgedSurvives'
  BY <1>6 DEF DeleteSubscription
<1>7. ASSUME NEW t \in Threads, StoreStream(t)
      PROVE  Underway' /\ AcknowledgedSurvives'
  BY <1>7 DEF StoreStream
<1>8. ASSUME NEW t \in Threads, StoreStreamFails(t)
      PROVE  Underway' /\ AcknowledgedSurvives'
  BY <1>8 DEF StoreStreamFails, Fails
<1>9. ASSUME NEW t \in Threads, DeleteNextSub(t)
      PROVE  Underway' /\ AcknowledgedSurvives'
  BY <1>9 DEF DeleteNextSub
<1>10. ASSUME NEW t \in Threads, RemoveStream(t)
      PROVE  Underway' /\ AcknowledgedSurvives'
  BY <1>10 DEF RemoveStream
<1>11. ASSUME NEW t \in Threads, DeleteStreamInfo(t)
      PROVE  Underway' /\ AcknowledgedSurvives'
  BY <1>11 DEF DeleteStreamInfo
<1>12. ASSUME NEW t \in Threads, DeleteStreamFails(t)
      PROVE  Underway' /\ AcknowledgedSurvives'
  BY <1>12 DEF DeleteStreamFails, Fails
<1>13. ASSUME NEW t \in Threads, DeleteCheckpoint(t)
      PROVE  Underway' /\ AcknowledgedSurvives'
  BY <1>13 DEF DeleteCheckpoint, Fails
<1>14. ASSUME NEW t \in Threads, CreateSubscription(t)
      PROVE  Underway' /\ AcknowledgedSurvives'
  BY <1>14 DEF CreateSubscription
<1>15. ASSUME NEW t \in Threads, StoreSubscription(t)
      PROVE  Underway' /\ AcknowledgedSurvives'
  BY <1>15 DEF StoreSubscription
<1>16. ASSUME NEW t \in Threads, StoreLookupKey(t)
      PROVE  Underway' /\ AcknowledgedSurvives'
  BY <1>16 DEF StoreLookupKey
<1>17. ASSUME NEW t \in Threads, StoreSubscriptionFails(t)
      PROVE  Underway' /\ AcknowledgedSurvives'
  BY <1>17 DEF StoreSubscriptionFails, Fails
<1>18. ASSUME NEW t \in Threads, Unsubscribe(t)
      PROVE  Underway' /\ AcknowledgedSurvives'
  BY <1>18 DEF Unsubscribe
<1>19. ASSUME NEW t \in Threads, DeleteInfo(t)
      PROVE  Underway' /\ AcknowledgedSurvives'
  BY <1>19 DEF DeleteInfo
<1>20. ASSUME NEW t \in Threads, DeleteLookupKey(t)
      PROVE  Underway' /\ AcknowledgedSurvives'
  BY <1>20 DEF DeleteLookupKey, Return
<1>21. ASSUME NEW t \in Threads, DeleteSubscriptionFails(t)
      PROVE  Underway' /\ AcknowledgedSurvives'
  BY <1>21 DEF DeleteSubscriptionFails, Return, Fails
<1>22. ASSUME NEW st \in Streams, PollerTurn(st)
      PROVE  Underway' /\ AcknowledgedSurvives'
  BY <1>22 DEF PollerTurn
<1>23. ASSUME NEW st \in Streams, PollerStore(st)
      PROVE  Underway' /\ AcknowledgedSurvives'
  BY <1>23 DEF PollerStore
<1>24. CASE Crash
  BY <1>24, Zenon DEF Crash, Recoverable
<1>25. CASE UNCHANGED vars
  BY <1>25 DEF vars
<1>26. QED
  BY <1>1, <1>2, <1>3, <1>4, <1>5, <1>6, <1>7, <1>8, <1>9, <1>10, <1>11,
     <1>12, <1>13, <1>14, <1>15, <1>16, <1>17, <1>18, <1>19, <1>20, <1>21,
     <1>22, <1>23, <1>24, <1>25, Zenon DEF Next, StreamRequest, SubRequest

\* No request, failing LevelDB call or restart loses a stream or subscription
\* that AddStream or AddSubscription has answered with success and that nobody
\* set out to delete; for any number of requests at once.
THEOREM AcknowledgedNeverLost == Spec => []AcknowledgedSurvives
<1> DEFINE Inv == Typed /\ Rooted /\ Underway /\ AcknowledgedSurvives
<1>1. Init => Inv
  BY TypedInit DEF Init, Rooted, Present, Underway, AcknowledgedSurvives
<1>2. Inv /\ [Next]_vars => Inv'
  BY TypedStep, RootedStep, SurvivesStep, Zenon
<1>3. QED
  BY <1>1, <1>2, PTL DEF Spec

\* The type invariant of the manager's maps, records and requests.
THEOREM StoreTypeCorrect == Spec => []TypeOK
<1>1. Typed => TypeOK
  BY Zenon DEF Typed
<1>2. QED
  BY TypedInit, TypedStep, <1>1, PTL DEF Spec

-----------------------------------------------------------------------------
(* Requests one at a time.                                                 *)

Alone ==
  ~overlapped => \A t, u \in Threads : pc[t] # "idle" /\ pc[u] # "idle" => t = u

\* What is deleted is out of the map before it is out of LevelDB, and no request
\* writes what was deleted before.
Deleting ==
  ~overlapped =>
    /\ gone \cap Present = {}
    /\ \A t \in Threads :
         /\ pc[t] = "storeStream" => stream[t] \notin gone
         /\ pc[t] \in {"create", "storeSubscription", "storeLookupKey"} => sub[t] \notin gone
         /\ pc[t] \in {"deleteInfo", "deleteLookupKey"} => sub[t] \notin subscriptions
         /\ pc[t] = "deleteLookupKey" => sub[t] \notin dbSubs
         /\ pc[t] \in {"deleteStream", "deleteCheckpoint"} => stream[t] \notin streams
         /\ pc[t] = "deleteCheckpoint" => stream[t] \notin dbStreams

\* Without a failed call the maps and LevelDB differ only in what a request is
\* about to write or to delete,
MapsAgree ==
  ~overlapped /\ ~torn =>
    /\ \A st \in streams : \/ st \in dbStreams
                           \/ \E t \in Threads : pc[t] = "storeStream" /\ stream[t] = st
    /\ \A st \in dbStreams : \/ st \in streams
                             \/ \E t \in Threads : pc[t] = "deleteStream" /\ stream[t] = st
    /\ \A s \in subscriptions : \/ s \in dbSubs
                                \/ \E t \in Threads : pc[t] = "storeSubscription" /\ sub[t] = s
    /\ \A s \in dbSubs : \/ s \in subscriptions
                         \/ \E t \in Threads : pc[t] = "deleteInfo" /\ sub[t] = s
    /\ \A t \in Threads :
         /\ pc[t] = "storeStream" => stream[t] \in streams
         /\ pc[t] \in {"storeSubscription", "storeLookupKey", "unsubscribe"} =>
              sub[t] \in subscriptions
         /\ pc[t] \in {"storeLookupKey", "deleteInfo"} => sub[t] \in dbSubs

\* a stream goes after its subscriptions,
SubsGoFirst ==
  ~overlapped /\ ~torn =>
    /\ \A s \in subscriptions \cup dbSubs : StreamOf[s] \in dbStreams
    /\ \A t \in Threads :
         /\ pc[t] = "deleteSubs" => op[t] = "deleteStream"
         /\ pc[t] = "unsubscribe" => op[t] = "delete"
         /\ op[t] = "deleteStream" /\ pc[t] \in {"deleteSubs", "deleteInfo", "deleteLookupKey"} =>
              \A s \in subscriptions : StreamOf[s] = stream[t] => s \in todo[t]
         /\ pc[t] = "deleteStream" =>
              \A s \in subscriptions \cup dbSubs : StreamOf[s] # stream[t]

\* and lookup keys are those of the stored subscriptions.
KeysAgree ==
  ~overlapped /\ ~torn =>
    /\ \A s \in dbSubs : \/ dbLookup[KeyOf[s]] = s
                         \/ \E t \in Threads : pc[t] = "storeLookupKey" /\ sub[t] = s
    /\ \A k \in LookupKeys : dbLookup[k] # None =>
         /\ KeyOf[dbLookup[k]] = k
         /\ \/ dbLookup[k] \in dbSubs
            \/ \E t \in Threads : pc[t] = "deleteLookupKey" /\ sub[t] = dbLookup[k]
    /\ \A t \in Threads :
         /\ pc[t] = "create" => dbLookup[KeyOf[sub[t]]] = None
         /\ pc[t] \in {"storeSubscription", "storeLookupKey"} =>
              dbLookup[KeyOf[sub[t]]] \in {None, sub[t]}
         /\ pc[t] = "deleteLookupKey" => dbLookup[KeyOf[sub[t]]] = sub[t]

LEMMA DeletingStep ==
  Typed /\ Alone /\ Deleting /\ [Next]_vars => Alone' /\ Deleting'
<1> SUFFICES ASSUME Typed, Alone, Deleting, [Next]_vars PROVE Alone' /\ Deleting'
  BY Zenon
<1> USE IDAssumption
    DEF Typed, TypeOK, Present, ArgsOK, Alone, Deleting, mapVars, dbVars, argVars, history,
        At, Goto, Arrive, Reply
<1>1. ASSUME NEW t \in Threads, NEW st \in Streams, AddStream(t, st)
      PROVE  Alone' /\ Deleting'
  <2>1. st \notin gone /\ pc[t] = "idle" /\ pc'[t] = "storeStream" /\ stream'[t] = st
    BY <1>1 DEF AddStream, addStream
  <2>2. Alone'
    BY <1>1, Zenon DEF AddStream
  <2>3. ASSUME ~overlapped' PROVE \A u \in Threads \ {t} : pc[u] = "idle" /\ pc'[u] = "idle"
    BY <1>1, <2>3, Zenon DEF AddStream
  <2>4. QED
    BY <1>1, <2>1, <2>2, <2>3 DEF AddStream, addStream
<1>2. ASSUME NEW t \in Threads, NEW st \in Streams, ChangeStream(t, st)
      PROVE  Alone' /\ Deleting'
  BY <1>2, Zenon DEF ChangeStream
<1>3. ASSUME NEW t \in Threads, NEW st \in Streams, DeleteStream(t, st)
      PROVE  Alone' /\ Deleting'
  BY <1>3, Zenon DEF DeleteStream
<1>4. ASSUME NEW t \in Threads, NEW s \in Subs, AddSubscription(t, s)
      PROVE  Alone' /\ Deleting'
  BY <1>4, Zenon DEF AddSubscription, NoConflict, Fails
<1>5. ASSUME NEW t \in Threads, NEW s \in Subs, ResetSubscription(t, s)
      PROVE  Alone' /\ Deleting'
  BY <1>5, Zenon DEF ResetSubscription
<1>6. ASSUME NEW t \in Threads, NEW s \in Subs, DeleteSubscription(t, s)
      PROVE  Alone' /\ Deleting'
  BY <1>6, Zenon DEF DeleteSubscription
<1>7. ASSUME NEW t \in Threads, StoreStream(t)
      PROVE  Alone' /\ Deleting'
  BY <1>7 DEF StoreStream
<1>8. ASSUME NEW t \in Threads, StoreStreamFails(t)
      PROVE  Alone' /\ Deleting'
  BY <1>8 DEF StoreStreamFails, Fails
<1>9. ASSUME NEW t \in Threads, DeleteNextSub(t)
      PROVE  Alone' /\ Deleting'
  BY <1>9 DEF DeleteNextSub
<1>10. ASSUME NEW t \in Threads, RemoveStream(t)
      PROVE  Alone' /\ Deleting'
  BY <1>10 DEF RemoveStream
<1>11. ASSUME NEW t \in Threads, DeleteStreamInfo(t)
      PROVE  Alone' /\ Deleting'
  BY <1>11 DEF DeleteStreamInfo
<1>12. ASSUME NEW t \in Threads, DeleteStreamFails(t)
      PROVE  Alone' /\ Deleting'
  BY <1>12 DEF DeleteStreamFails, Fails
<1>13. ASSUME NEW t \in Threads, DeleteCheckpoint(t)
      PROVE  Alone' /\ Deleting'
  BY <1>13 DEF DeleteCheckpoint, Fails
<1>14. ASSUME NEW t \in Threads, CreateSubscription(t)
      PROVE  Alone' /\ Deleting'
  BY <1>14 DEF CreateSubscription
<1>15. ASSUME NEW t \in Threads, StoreSubscription(t)
      PROVE  Alone' /\ Deleting'
  BY <1>15 DEF StoreSubscription
<1>16. ASSUME NEW t \in Threads, StoreLookupKey(t)
      PROVE  Alone' /\ Deleting'
  BY <1>16 DEF StoreLookupKey
<1>17. ASSUME NEW t \in Threads, StoreSubscriptionFails(t)
      PROVE  Alone' /\ Deleting'
  BY <1>17 DEF StoreSubscriptionFails, Fails
<1>18. ASSUME NEW t \in Threads, Unsubscribe(t)
      PROVE  Alone' /\ Deleting'
  BY <1>18 DEF Unsubscribe
<1>19. ASSUME NEW t \in Threads, DeleteInfo(t)
      PROVE  Alone' /\ Deleting'
  BY <1>19 DEF DeleteInfo
<1>20. ASSUME NEW t \in Threads, DeleteLookupKey(t)
      PROVE  Alone' /\ Deleting'
  BY <1>20 DEF DeleteLookupKey, Return
<1>21. ASSUME NEW t \in Threads, DeleteSubscriptionFails(t)
      PROVE  Alone' /\ Deleting'
  BY <1>21 DEF DeleteSubscriptionFails, Return, Fails
<1>22. ASSUME NEW st \in Streams, PollerTurn(st)
      PROVE  Alone' /\ Deleting'
  BY <1>22, Zenon DEF PollerTurn
<1>23. ASSUME NEW st \in Streams, PollerStore(st)
      PROVE  Alone' /\ Deleting'
  BY <1>23, Zenon DEF PollerStore
<1>24. CASE Crash
  BY <1>24 DEF Crash, Recoverable
<1>25. CASE UNCHANGED vars
  BY <1>25, Zenon DEF vars
<1>26. QED
  BY <1>1, <1>2, <1>3, <1>4, <1>5, <1>6, <1>7, <1>8, <1>9, <1>10, <1>11,
     <1>12, <1>13, <1>14, <1>15, <1>16, <1>17, <1>18, <1>19, <1>20, <1>21,
     <1>22, <1>23, <1>24, <1>25, Zenon DEF Next, StreamRequest, SubRequest

LEMMA MapsStep ==
  Typed /\ Rooted /\ Alone /\ Deleting /\ MapsAgree /\ SubsGoFirst /\ [Next]_vars => MapsAgree'
<1> SUFFICES ASSUME Typed, Rooted, Alone, Deleting, MapsAgree, SubsGoFirst, [Next]_vars PROVE MapsAgree'
  BY Zenon
<1> USE IDAssumption
    DEF Typed, TypeOK, Present, ArgsOK, Rooted, Alone, Deleting,
        MapsAgree, SubsGoFirst, mapVars, dbVars, argVars, history,
        At, Goto, Arrive, Reply
<1>1. ASSUME NEW t \in Threads, NEW st \in Streams, AddStream(t, st)
      PROVE  MapsAgree'
  BY <1>1 DEF AddStream, addStream
<1>2. ASSUME NEW t \in Threads, NEW st \in Streams, ChangeStream(t, st)
      PROVE  MapsAgree'
  BY <1>2 DEF ChangeStream
<1>3. ASSUME NEW t \in Threads, NEW st \in Streams, DeleteStream(t, st)
      PROVE  MapsAgree'
  BY <1>3 DEF DeleteStream
<1>4. ASSUME NEW t \in Threads, NEW s \in Subs, AddSubscription(t, s)
      PROVE  MapsAgree'
  BY <1>4 DEF AddSubscription, NoConflict, Fails
<1>5. ASSUME NEW t \in Threads, NEW s \in Subs, ResetSubscription(t, s)
      PROVE  MapsAgree'
  BY <1>5 DEF ResetSubscription
<1>6. ASSUME NEW t \in Threads, NEW s \in Subs, DeleteSubscription(t, s)
      PROVE  MapsAgree'
  BY <1>6 DEF DeleteSubscription
<1>7. ASSUME NEW t \in Threads, StoreStream(t)
      PROVE  MapsAgree'
  BY <1>7 DEF StoreStream
<1>8. ASSUME NEW t \in Threads, StoreStreamFails(t)
      PROVE  MapsAgree'
  BY <1>8, Zenon DEF StoreStreamFails, Fails
<1>9. ASSUME NEW t \in Threads, DeleteNextSub(t)
      PROVE  MapsAgree'
  BY <1>9 DEF DeleteNextSub
<1>10. ASSUME NEW t \in Threads, RemoveStream(t)
      PROVE  MapsAgree'
  BY <1>10 DEF RemoveStream
<1>11. ASSUME NEW t \in Threads, DeleteStreamInfo(t)
      PROVE  MapsAgree'
  BY <1>11 DEF DeleteStreamInfo
<1>12. ASSUME NEW t \in Threads, DeleteStreamFails(t)
      PROVE  MapsAgree'
  BY <1>12, Zenon DEF DeleteStreamFails, Fails
<1>13. ASSUME NEW t \in Threads, DeleteCheckpoint(t)
      PROVE  MapsAgree'
  BY <1>13 DEF DeleteCheckpoint, Fails
<1>14. ASSUME NEW t \in Threads, CreateSubscription(t)
      PROVE  MapsAgree'
  BY <1>14 DEF CreateSubscription
<1>15. ASSUME NEW t \in Threads, StoreSubscription(t)
      PROVE  MapsAgree'
  BY <1>15 DEF StoreSubscription
<1>16. ASSUME NEW t \in Threads, StoreLookupKey(t)
      PROVE  MapsAgree'
  BY <1>16 DEF StoreLookupKey
<1>17. ASSUME NEW t \in Threads, StoreSubscriptionFails(t)
      PROVE  MapsAgree'
  BY <1>17, Zenon DEF StoreSubscriptionFails, Fails
<1>18. ASSUME NEW t \in Threads, Unsubscribe(t)
      PROVE  MapsAgree'
  BY <1>18 DEF Unsubscribe
<1>19. ASSUME NEW t \in Threads, DeleteInfo(t)
      PROVE  MapsAgree'
  BY <1>19 DEF DeleteInfo
<1>20. ASSUME NEW t \in Threads, DeleteLookupKey(t)
      PROVE  MapsAgree'
  BY <1>20 DEF DeleteLookupKey, Return
<1>21. ASSUME NEW t \in Threads, DeleteSubscriptionFails(t)
      PROVE  MapsAgree'
  BY <1>21 DEF DeleteSubscriptionFails, Return, Fails
<1>22. ASSUME NEW st \in Streams, PollerTurn(st)
      PROVE  MapsAgree'
  BY <1>22 DEF PollerTurn
<1>23. ASSUME NEW st \in Streams, PollerStore(st)
      PROVE  MapsAgree'
  BY <1>23 DEF PollerStore
<1>24. CASE Crash
  BY <1>24, Zenon DEF Crash, Recoverable
<1>25. CASE UNCHANGED vars
  BY <1>25, ZenonT(30) DEF vars
<1>26. QED
  BY <1>1, <1>2, <1>3, <1>4, <1>5, <1>6, <1>7, <1>8, <1>9, <1>10, <1>11,
     <1>12, <1>13, <1>14, <1>15, <1>16, <1>17, <1>18, <1>19, <1>20, <1>21,
     <1>22, <1>23, <1>24, <1>25, Zenon DEF Next, StreamRequest, SubRequest

LEMMA StreamsStep ==
  Typed /\ Rooted /\ Alone /\ Deleting /\ MapsAgree /\ SubsGoFirst /\ [Next]_vars => SubsGoFirst'
<1> SUFFICES ASSUME Typed, Rooted, Alone, Deleting, MapsAgree, SubsGoFirst, [Next]_vars PROVE SubsGoFirst'
  OBVIOUS
<1> USE IDAssumption
    DEF Typed, TypeOK, Present, ArgsOK, Rooted, Alone, Deleting,
        MapsAgree, SubsGoFirst, mapVars, dbVars, argVars, history,
        At, Goto, Arrive, Reply
<1>1. ASSUME NEW t \in Threads, NEW st \in Streams, AddStream(t, st)
      PROVE  SubsGoFirst'
  BY <1>1 DEF AddStream, addStream
<1>2. ASSUME NEW t \in Threads, NEW st \in Streams, ChangeStream(t, st)
      PROVE  SubsGoFirst'
  BY <1>2 DEF ChangeStream
<1>3. ASSUME NEW t \in Threads, NEW st \in Streams, DeleteStream(t, st)
      PROVE  SubsGoFirst'
  BY <1>3 DEF DeleteStream
<1>4. ASSUME NEW t \in Threads, NEW s \in Subs, AddSubscription(t, s)
      PROVE  SubsGoFirst'
  BY <1>4 DEF AddSubscription, NoConflict, Fails
<1>5. ASSUME NEW t \in Threads, NEW s \in Subs, ResetSubscription(t, s)
      PROVE  SubsGoFirst'
  BY <1>5 DEF ResetSubscription
<1>6. ASSUME NEW t \in Threads, NEW s \in Subs, DeleteSubscription(t, s)
      PROVE  SubsGoFirst'
  BY <1>6 DEF DeleteSubscription
<1>7. ASSUME NEW t \in Threads, StoreStream(t)
      PROVE  SubsGoFirst'
  BY <1>7 DEF StoreStream
<1>8. ASSUME NEW t \in Threads, StoreStreamFails(t)
      PROVE  SubsGoFirst'
  BY <1>8, Zenon DEF StoreStreamFails, Fails
<1>9. ASSUME NEW t \in Threads, DeleteNextSub(t)
      PROVE  SubsGoFirst'
  BY <1>9 DEF DeleteNextSub
<1>10. ASSUME NEW t \in Threads, RemoveStream(t)
      PROVE  SubsGoFirst'
  BY <1>10 DEF RemoveStream
<1>11. ASSUME NEW t \in Threads, DeleteStreamInfo(t)
      PROVE  SubsGoFirst'
  BY <1>11 DEF DeleteStreamInfo
<1>12. ASSUME NEW t \in Threads, DeleteStreamFails(t)
      PROVE  SubsGoFirst'
  BY <1>12, Zenon DEF DeleteStreamFails, Fails
<1>13. ASSUME NEW t \in Threads, DeleteCheckpoint(t)
      PROVE  SubsGoFirst'
  BY <1>13 DEF DeleteCheckpoint, Fails
<1>14. ASSUME NEW t \in Threads, CreateSubscription(t)
      PROVE  SubsGoFirst'
  BY <1>14 DEF CreateSubscription
<1>15. ASSUME NEW t \in Threads, StoreSubscription(t)
      PROVE  SubsGoFirst'
  BY <1>15 DEF StoreSubscription
<1>16. ASSUME NEW t \in Threads, StoreLookupKey(t)
      PROVE  SubsGoFirst'
  BY <1>16 DEF StoreLookupKey
<1>17. ASSUME NEW t \in Threads, StoreSubscriptionFails(t)
      PROVE  SubsGoFirst'
  BY <1>17, Zenon DEF StoreSubscriptionFails, Fails
<1>18. ASSUME NEW t \in Threads, Unsubscribe(t)
      PROVE  SubsGoFirst'
  BY <1>18 DEF Unsubscribe
<1>19. ASSUME NEW t \in Threads, DeleteInfo(t)
      PROVE  SubsGoFirst'
  BY <1>19 DEF DeleteInfo
<1>20. ASSUME NEW t \in Threads, DeleteLookupKey(t)
      PROVE  SubsGoFirst'
  BY <1>20 DEF DeleteLookupKey, Return
<1>21. ASSUME NEW t \in Threads, DeleteSubscriptionFails(t)
      PROVE  SubsGoFirst'
  BY <1>21, Zenon DEF DeleteSubscriptionFails, Return, Fails
<1>22. ASSUME NEW st \in Streams, PollerTurn(st)
      PROVE  SubsGoFirst'
  BY <1>22 DEF PollerTurn
<1>23. ASSUME NEW st \in Streams, PollerStore(st)
      PROVE  SubsGoFirst'
  BY <1>23 DEF PollerStore
<1>24. CASE Crash
  BY <1>24 DEF Crash, Recoverable
<1>25. CASE UNCHANGED vars
  BY <1>25, ZenonT(30) DEF vars
<1>26. QED
  BY <1>1, <1>2, <1>3, <1>4, <1>5, <1>6, <1>7, <1>8, <1>9, <1>10, <1>11,
     <1>12, <1>13, <1>14, <1>15, <1>16, <1>17, <1>18, <1>19, <1>20, <1>21,
     <1>22, <1>23, <1>24, <1>25, Zenon DEF Next, StreamRequest, SubRequest

LEMMA KeysStep ==
  Typed /\ Rooted /\ Alone /\ Deleting /\ MapsAgree /\ KeysAgree /\ [Next]_vars => KeysAgree'
<1> SUFFICES ASSUME Typed, Rooted, Alone, Deleting, MapsAgree, KeysAgree, [Next]_vars PROVE KeysAgree'
  BY Zenon
<1> USE IDAssumption
    DEF Typed, TypeOK, Present, ArgsOK, Rooted, Alone, Deleting,
        MapsAgree, KeysAgree, mapVars, dbVars, argVars, history,
        At, Goto, Arrive, Reply
<1>1. ASSUME NEW t \in Threads, NEW st \in Streams, AddStream(t, st)
      PROVE  KeysAgree'
  BY <1>1 DEF AddStream, addStream
<1>2. ASSUME NEW t \in Threads, NEW st \in Streams, ChangeStream(t, st)
      PROVE  KeysAgree'
  BY <1>2 DEF ChangeStream
<1>3. ASSUME NEW t \in Threads, NEW st \in Streams, DeleteStream(t, st)
      PROVE  KeysAgree'
  BY <1>3 DEF DeleteStream
<1>4. ASSUME NEW t \in Threads, NEW s \in Subs, AddSubscription(t, s)
      PROVE  KeysAgree'
  BY <1>4 DEF AddSubscription, NoConflict, Fails
<1>5. ASSUME NEW t \in Threads, NEW s \in Subs, ResetSubscription(t, s)
      PROVE  KeysAgree'
  BY <1>5 DEF ResetSubscription
<1>6. ASSUME NEW t \in Threads, NEW s \in Subs, DeleteSubscription(t, s)
      PROVE  KeysAgree'
  BY <1>6 DEF DeleteSubscription
<1>7. ASSUME NEW t \in Threads, StoreStream(t)
      PROVE  KeysAgree'
  BY <1>7 DEF StoreStream
<1>8. ASSUME NEW t \in Threads, StoreStreamFails(t)
      PROVE  KeysAgree'
  BY <1>8, Zenon DEF StoreStreamFails, Fails
<1>9. ASSUME NEW t \in Threads, DeleteNextSub(t)
      PROVE  KeysAgree'
  BY <1>9 DEF DeleteNextSub
<1>10. ASSUME NEW t \in Threads, RemoveStream(t)
      PROVE  KeysAgree'
  BY <1>10 DEF RemoveStream
<1>11. ASSUME NEW t \in Threads, DeleteStreamInfo(t)
      PROVE  KeysAgree'
  BY <1>11 DEF DeleteStreamInfo
<1>12. ASSUME NEW t \in Threads, DeleteStreamFails(t)
      PROVE  KeysAgree'
  BY <1>12, Zenon DEF DeleteStreamFails, Fails
<1>13. ASSUME NEW t \in Threads, DeleteCheckpoint(t)
      PROVE  KeysAgree'
  BY <1>13 DEF DeleteCheckpoint, Fails
<1>14. ASSUME NEW t \in Threads, CreateSubscription(t)
      PROVE  KeysAgree'
  BY <1>14 DEF CreateSubscription
<1>15. ASSUME NEW t \in Threads, StoreSubscription(t)
      PROVE  KeysAgree'
  BY <1>15 DEF StoreSubscription
<1>16. ASSUME NEW t \in Threads, StoreLookupKey(t)
      PROVE  KeysAgree'
  BY <1>16 DEF StoreLookupKey
<1>17. ASSUME NEW t \in Threads, StoreSubscriptionFails(t)
      PROVE  KeysAgree'
  BY <1>17, Zenon DEF StoreSubscriptionFails, Fails
<1>18. ASSUME NEW t \in Threads, Unsubscribe(t)
      PROVE  KeysAgree'
  BY <1>18 DEF Unsubscribe
<1>19. ASSUME NEW t \in Threads, DeleteInfo(t)
      PROVE  KeysAgree'
  BY <1>19 DEF DeleteInfo
<1>20. ASSUME NEW t \in Threads, DeleteLookupKey(t)
      PROVE  KeysAgree'
  BY <1>20 DEF DeleteLookupKey, Return
<1>21. ASSUME NEW t \in Threads, DeleteSubscriptionFails(t)
      PROVE  KeysAgree'
  BY <1>21 DEF DeleteSubscriptionFails, Return, Fails
<1>22. ASSUME NEW st \in Streams, PollerTurn(st)
      PROVE  KeysAgree'
  BY <1>22 DEF PollerTurn
<1>23. ASSUME NEW st \in Streams, PollerStore(st)
      PROVE  KeysAgree'
  BY <1>23 DEF PollerStore
<1>24. CASE Crash
  BY <1>24, Zenon DEF Crash, Recoverable
<1>25. CASE UNCHANGED vars
  BY <1>25 DEF vars
<1>26. QED
  BY <1>1, <1>2, <1>3, <1>4, <1>5, <1>6, <1>7, <1>8, <1>9, <1>10, <1>11,
     <1>12, <1>13, <1>14, <1>15, <1>16, <1>17, <1>18, <1>19, <1>20, <1>21,
     <1>22, <1>23, <1>24, <1>25, ZenonT(30) DEF Next, StreamRequest, SubRequest

\* With requests one at a time, what was deleted with success is neither in the
\* maps nor in LevelDB afterwards, whatever fails in between and however often
\* the process restarts.
THEOREM DeletedForGood == Spec => []DeletedStaysDeleted
<1> DEFINE Inv == Typed /\ Alone /\ Deleting
<1>1. Init => Inv
  BY TypedInit DEF Init, Alone, Deleting
<1>2. Inv /\ [Next]_vars => Inv'
  BY TypedStep, DeletingStep, Zenon
<1>3. Inv => DeletedStaysDeleted
  BY DEF Deleting, Present, DeletedStaysDeleted
<1>4. QED
  BY <1>1, <1>2, <1>3, PTL DEF Spec

\* With requests one at a time, deleteCheckpoint removes the checkpoint of a
\* stream only when the record of the stream is gone from LevelDB.
THEOREM CheckpointGoesLast == Spec => CheckpointOutlivesStream
<1> DEFINE Inv == Typed /\ Alone /\ Deleting
<1>1. Init => Inv
  BY TypedInit DEF Init, Alone, Deleting
<1>2. Inv /\ [Next]_vars => Inv'
  BY TypedStep, DeletingStep, Zenon
<1>3. Inv /\ [Next]_vars =>
        [~overlapped => \A st \in dbCheckpoint \ dbCheckpoint' : st \notin dbStreams']_vars
  <2> SUFFICES ASSUME Inv, [Next]_vars, ~overlapped,
                      NEW st \in dbCheckpoint \ dbCheckpoint'
               PROVE  st \notin dbStreams'
    OBVIOUS
  <2>1. PICK t \in Threads : DeleteCheckpoint(t)
    BY ZenonT(30) DEF Next, StreamRequest, SubRequest, AddStream, ChangeStream, DeleteStream, StoreStream,
           StoreStreamFails, DeleteNextSub, RemoveStream, DeleteStreamInfo, DeleteStreamFails,
           AddSubscription, ResetSubscription, DeleteSubscription, CreateSubscription,
           StoreSubscription, StoreLookupKey, StoreSubscriptionFails, Unsubscribe, DeleteInfo,
           DeleteLookupKey, DeleteSubscriptionFails, PollerTurn, PollerStore, Crash, vars, dbVars
  <2>2. QED
    BY <2>1, Zenon DEF DeleteCheckpoint, At, Deleting
<1>4. QED
  BY <1>1, <1>2, <1>3, PTL DEF Spec, CheckpointOutlivesStream

\* With requests one at a time and none of them torn by a failure, between
\* requests the maps agree with LevelDB and the lookup keys are exactly those of
\* the stored subscriptions: addSubscription refuses a filter just when it is taken.
THEOREM FiltersTakenOnce == Spec => []FilterTakenOnce
<1> DEFINE Inv == Typed /\ Rooted /\ Alone /\ Deleting /\ MapsAgree /\ SubsGoFirst /\ KeysAgree
<1>1. Init => Inv
  BY TypedInit, ZenonT(30) DEF Init, Rooted, Present, Alone, Deleting, MapsAgree, SubsGoFirst, KeysAgree
<1>2. Inv /\ [Next]_vars => Inv'
  BY TypedStep, RootedStep, DeletingStep, MapsStep, StreamsStep, KeysStep, Zenon
<1>3. Inv => FilterTakenOnce
  BY Zenon DEF MapsAgree, SubsGoFirst, KeysAgree, FilterTakenOnce
<1>4. QED
  BY <1>1, <1>2, <1>3, PTL DEF Spec
=============================================================================
