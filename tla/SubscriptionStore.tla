------------------------- MODULE SubscriptionStore -------------------------
(***************************************************************************)
(* The subscription manager of internal/events/submanager.go: its maps of  *)
(* streams and subscriptions and the LevelDB records behind them.          *)
(*                                                                         *)
(* Every REST request runs in a goroutine of its own (a thread).  The      *)
(* manager takes no lock, so a request is a sequence of steps, one per     *)
(* access to the maps or to LevelDB, and other requests may run between    *)
(* two of them.  Any LevelDB call may fail, and the process may die and    *)
(* recover from what LevelDB holds.  A request whose body is refused by    *)
(* validation changes nothing and is left out.  What suspend, resume,      *)
(* update and reset do to a running stream is the EventStream module's.    *)
(***************************************************************************)
EXTENDS Naturals, FiniteSets

CONSTANTS
  Threads,          \* goroutines serving requests
  Streams,          \* stream IDs: UUIDs, each used for one stream only
  Subs,             \* subscription IDs: UUIDs as well
  StreamOf,         \* info.Stream of a subscription
  LookupKeys,       \* digests of channel, chaincode, block type, event filter
  KeyOf,            \* calculateLookupKey(info) of a subscription
  None,             \* no record
  Faults,           \* LevelDB calls that may fail: subset of {"Get", "Put", "Delete"}
  MaxCrashes        \* bound: restarts of the process

ASSUME IDAssumption ==
  /\ Streams \cap Subs = {}
  /\ None \notin Streams \cup Subs
  /\ StreamOf \in [Subs -> Streams]
  /\ KeyOf \in [Subs -> LookupKeys]
ASSUME CrashAssumption == MaxCrashes \in Nat

VARIABLES
  streams,          \* s.streams
  subscriptions,    \* s.subscriptions
  poller,           \* eventPoller of each stream: "off", "idle", "cycle"
  dbStreams,        \* LevelDB: stream records,
  dbSubs,           \*   subscription records,
  dbLookup,         \*   lookup keys,
  dbCheckpoint,     \*   streams with a checkpoint record
  pc,               \* threads: the next step of the request,
  op,               \*   the request,
  stream, sub,      \*   and the objects it is about
  todo,             \*   deleteStream: subscriptions in the map when its loop began
  issued,           \* IDs handed out so far
  crashes,
  acked,            \* history: IDs whose creation was answered with success,
  doomed,           \*   whose deletion was begun,
  gone,             \*   whose deletion was answered with success,
  torn,             \*   a LevelDB call failed or the process died in a request,
  overlapped        \*   two requests were in progress at once

mapVars == <<streams, subscriptions, poller>>
dbVars  == <<dbStreams, dbSubs, dbLookup, dbCheckpoint>>
argVars == <<op, stream, sub, todo>>
history == <<acked, doomed, gone>>
vars == <<mapVars, dbVars, pc, argVars, issued, crashes, history, torn, overlapped>>

Labels == {"idle", "storeStream", "create", "storeSubscription", "storeLookupKey",
           "unsubscribe", "deleteInfo", "deleteLookupKey", "deleteSubs",
           "deleteStream", "deleteCheckpoint"}

Init ==
  /\ streams = {} /\ subscriptions = {} /\ poller = [st \in Streams |-> "off"]
  /\ dbStreams = {} /\ dbSubs = {} /\ dbLookup = [k \in LookupKeys |-> None]
  /\ dbCheckpoint = {}
  /\ pc = [t \in Threads |-> "idle"] /\ op = [t \in Threads |-> "none"]
  /\ stream = [t \in Threads |-> None] /\ sub = [t \in Threads |-> None]
  /\ todo = [t \in Threads |-> {}]
  /\ issued = {} /\ crashes = 0
  /\ acked = {} /\ doomed = {} /\ gone = {} /\ torn = FALSE /\ overlapped = FALSE

-----------------------------------------------------------------------------
(* Steps of a thread.                                                      *)

At(t, label) == pc[t] = label /\ UNCHANGED <<crashes, overlapped>>
Goto(t, label) == pc' = [pc EXCEPT ![t] = label] /\ UNCHANGED argVars

\* A request arrives, about stream st and subscription s (or neither).
Arrive(t, request, st, s, label) ==
  /\ pc[t] = "idle"
  /\ pc' = [pc EXCEPT ![t] = label]
  /\ op' = [op EXCEPT ![t] = request]
  /\ stream' = [stream EXCEPT ![t] = st] /\ sub' = [sub EXCEPT ![t] = s]
  /\ overlapped' = (overlapped \/ \E u \in Threads : pc[u] # "idle")

\* It is answered.
Reply(t) ==
  /\ pc' = [pc EXCEPT ![t] = "idle"]
  /\ op' = [op EXCEPT ![t] = "none"]
  /\ stream' = [stream EXCEPT ![t] = None] /\ sub' = [sub EXCEPT ![t] = None]
  /\ todo' = [todo EXCEPT ![t] = {}]

\* A LevelDB call returns an error.
Fails(call) == call \in Faults /\ torn' = TRUE

-----------------------------------------------------------------------------
(* Streams.                                                                *)

\* addStream: a new ID, and a running stream in the map.
addStream(st) ==
  /\ st \notin issued /\ issued' = issued \cup {st}
  /\ streams' = streams \cup {st}
  /\ poller' = [poller EXCEPT ![st] = "idle"]

AddStream(t, st) ==
  /\ Arrive(t, "add", st, None, "storeStream")
  /\ addStream(st)
  /\ UNCHANGED <<subscriptions, dbVars, todo, crashes, history, torn>>

\* suspend, resume or update of a stream found in the map; each ends in a
\* storeStream.
ChangeStream(t, st) ==
  /\ st \in streams
  /\ Arrive(t, "change", st, None, "storeStream")
  /\ UNCHANGED <<mapVars, dbVars, todo, issued, crashes, history, torn>>

StoreStream(t) ==
  /\ At(t, "storeStream")
  /\ dbStreams' = dbStreams \cup {stream[t]}
  /\ acked' = IF op[t] = "add" THEN acked \cup {stream[t]} ELSE acked
  /\ Reply(t)
  /\ UNCHANGED <<mapVars, dbSubs, dbLookup, dbCheckpoint, issued, doomed, gone, torn>>

\* Mutant: the error of the write is not passed on.
StoreStreamFailsSilently(t) ==
  /\ At(t, "storeStream") /\ Fails("Put")
  /\ acked' = acked \cup {stream[t]}
  /\ Reply(t)
  /\ UNCHANGED <<mapVars, dbVars, issued, doomed, gone>>

\* A new stream whose record cannot be written stays in the map and runs on.
StoreStreamFails(t) ==
  /\ At(t, "storeStream") /\ Fails("Put")
  /\ Reply(t)
  /\ UNCHANGED <<mapVars, dbVars, issued, history>>

-----------------------------------------------------------------------------
(* Subscriptions.                                                          *)

\* addSubscription, the check for a conflict: the request goes on when Get
\* finds no record of the lookup key, or fails for another reason.
NoConflict(s) == \/ dbLookup[KeyOf[s]] = None /\ UNCHANGED torn
                 \/ Fails("Get")

AddSubscription(t, s) ==
  /\ s \notin issued /\ issued' = issued \cup {s}
  /\ Arrive(t, "add", StreamOf[s], s, "create")
  /\ NoConflict(s)
  /\ UNCHANGED <<mapVars, dbVars, todo, crashes, history>>

\* The rest of addSubscription up to storeSubscription; without the stream
\* the request is answered with an error.
CreateSubscription(t) ==
  /\ At(t, "create")
  /\ IF stream[t] \in streams
     THEN subscriptions' = subscriptions \cup {sub[t]} /\ Goto(t, "storeSubscription")
     ELSE Reply(t) /\ UNCHANGED subscriptions
  /\ UNCHANGED <<streams, poller, dbVars, issued, history, torn>>

ResetSubscription(t, s) ==
  /\ s \in subscriptions
  /\ Arrive(t, "change", StreamOf[s], s, "storeSubscription")
  /\ UNCHANGED <<mapVars, dbVars, todo, issued, crashes, history, torn>>

\* storeSubscription writes the record, then the lookup key.
StoreSubscription(t) ==
  /\ At(t, "storeSubscription")
  /\ dbSubs' = dbSubs \cup {sub[t]}
  /\ Goto(t, "storeLookupKey")
  /\ UNCHANGED <<mapVars, dbStreams, dbLookup, dbCheckpoint, issued, history, torn>>

StoreLookupKey(t) ==
  /\ At(t, "storeLookupKey")
  /\ dbLookup' = [dbLookup EXCEPT ![KeyOf[sub[t]]] = sub[t]]
  /\ acked' = IF op[t] = "add" THEN acked \cup {sub[t]} ELSE acked
  /\ Reply(t)
  /\ UNCHANGED <<mapVars, dbStreams, dbSubs, dbCheckpoint, issued, doomed, gone, torn>>

StoreSubscriptionFails(t) ==
  /\ At(t, "storeSubscription") \/ At(t, "storeLookupKey")
  /\ Fails("Put")
  /\ Reply(t)
  /\ UNCHANGED <<mapVars, dbVars, issued, history>>

DeleteSubscription(t, s) ==
  /\ s \in subscriptions
  /\ Arrive(t, "delete", StreamOf[s], s, "unsubscribe")
  /\ UNCHANGED <<mapVars, dbVars, todo, issued, crashes, history, torn>>

\* deleteSubscription, its first half: out of the map.
Unsubscribe(t) ==
  /\ At(t, "unsubscribe")
  /\ subscriptions' = subscriptions \ {sub[t]}
  /\ doomed' = doomed \cup {sub[t]}
  /\ Goto(t, "deleteInfo")
  /\ UNCHANGED <<streams, poller, dbVars, issued, acked, gone, torn>>

\* Where deleteSubscription returns to: the caller's loop or the client.
Return(t) == IF op[t] = "deleteStream" THEN Goto(t, "deleteSubs") ELSE Reply(t)

\* Mutant: the lookup key is not deleted.
DeleteInfoOnly(t) ==
  /\ At(t, "deleteInfo")
  /\ dbSubs' = dbSubs \ {sub[t]}
  /\ gone' = gone \cup {sub[t]}
  /\ Return(t)
  /\ UNCHANGED <<mapVars, dbStreams, dbLookup, dbCheckpoint, issued, acked, doomed, torn>>

\* Its second half: out of LevelDB, the record first.
DeleteInfo(t) ==
  /\ At(t, "deleteInfo")
  /\ dbSubs' = dbSubs \ {sub[t]}
  /\ Goto(t, "deleteLookupKey")
  /\ UNCHANGED <<mapVars, dbStreams, dbLookup, dbCheckpoint, issued, history, torn>>

DeleteLookupKey(t) ==
  /\ At(t, "deleteLookupKey")
  /\ dbLookup' = [dbLookup EXCEPT ![KeyOf[sub[t]]] = None]
  /\ gone' = gone \cup {sub[t]}
  /\ Return(t)
  /\ UNCHANGED <<mapVars, dbStreams, dbSubs, dbCheckpoint, issued, acked, doomed, torn>>

DeleteSubscriptionFails(t) ==
  /\ At(t, "deleteInfo") \/ At(t, "deleteLookupKey")
  /\ Fails("Delete")
  /\ Return(t)
  /\ UNCHANGED <<mapVars, dbVars, issued, history>>

-----------------------------------------------------------------------------
(* Deleting a stream.                                                      *)

DeleteStream(t, st) ==
  /\ st \in streams
  /\ Arrive(t, "deleteStream", st, None, "deleteSubs")
  /\ todo' = [todo EXCEPT ![t] = {s \in subscriptions : StreamOf[s] = st}]
  /\ doomed' = doomed \cup {st}
  /\ UNCHANGED <<mapVars, dbVars, issued, crashes, acked, gone, torn>>

\* One turn of the loop over the map.  A subscription that is added while
\* the loop runs may or may not be met.
DeleteNextSub(t) ==
  /\ At(t, "deleteSubs") /\ pc' = [pc EXCEPT ![t] = "deleteInfo"]
  /\ \E s \in subscriptions :
       /\ StreamOf[s] = stream[t]
       /\ sub' = [sub EXCEPT ![t] = s]
       /\ subscriptions' = subscriptions \ {s}
       /\ doomed' = doomed \cup {s}
  /\ UNCHANGED <<streams, poller, dbVars, op, stream, todo, issued, acked, gone, torn>>

\* Mutant: the checkpoint is deleted before the record of the stream.
RemoveStreamCheckpointFirst(t) ==
  /\ At(t, "deleteSubs")
  /\ todo[t] \cap subscriptions = {}
  /\ streams' = streams \ {stream[t]}
  /\ Goto(t, "deleteCheckpoint")
  /\ UNCHANGED <<subscriptions, poller, dbVars, issued, history, torn>>

\* After the loop: out of the map, and stopped.  A second stop of a stream
\* closes its channel again, which panics and ends the request.
RemoveStream(t) ==
  /\ At(t, "deleteSubs")
  /\ todo[t] \cap subscriptions = {}
  /\ streams' = streams \ {stream[t]}
  /\ IF stream[t] \in streams THEN Goto(t, "deleteStream") ELSE Reply(t)
  /\ UNCHANGED <<subscriptions, poller, dbVars, issued, history, torn>>

DeleteStreamInfo(t) ==
  /\ At(t, "deleteStream")
  /\ dbStreams' = dbStreams \ {stream[t]}
  /\ Goto(t, "deleteCheckpoint")
  /\ UNCHANGED <<mapVars, dbSubs, dbLookup, dbCheckpoint, issued, history, torn>>

\* Mutant: the error is ignored.
DeleteStreamFailsSilently(t) ==
  /\ At(t, "deleteStream") /\ Fails("Delete")
  /\ Goto(t, "deleteCheckpoint")
  /\ UNCHANGED <<mapVars, dbVars, issued, history>>

DeleteStreamFails(t) ==
  /\ At(t, "deleteStream") /\ Fails("Delete")
  /\ Reply(t)
  /\ UNCHANGED <<mapVars, dbVars, issued, history>>

\* deleteCheckpoint only logs an error; the request succeeds either way.
DeleteCheckpoint(t) ==
  /\ At(t, "deleteCheckpoint")
  /\ \/ dbCheckpoint' = dbCheckpoint \ {stream[t]} /\ UNCHANGED torn
     \/ Fails("Delete") /\ UNCHANGED dbCheckpoint
  /\ gone' = gone \cup {stream[t]}
  /\ Reply(t)
  /\ UNCHANGED <<mapVars, dbStreams, dbSubs, dbLookup, issued, acked, doomed>>

-----------------------------------------------------------------------------
(* The poller of a stream, as far as the checkpoint record goes, and the   *)
(* start of the process.                                                   *)

\* A cycle begins, or the poller sees that the stream was stopped.
PollerTurn(st) ==
  /\ poller[st] = "idle"
  /\ poller' = [poller EXCEPT ![st] = IF st \in streams THEN "cycle" ELSE "off"]
  /\ UNCHANGED <<streams, subscriptions, dbVars, pc, argVars, issued, crashes,
                 history, torn, overlapped>>

\* The cycle stores the checkpoint when it changed and the write succeeds.
PollerStore(st) ==
  /\ poller[st] = "cycle"
  /\ poller' = [poller EXCEPT ![st] = "idle"]
  /\ dbCheckpoint' \in {dbCheckpoint, dbCheckpoint \cup {st}}
  /\ UNCHANGED <<streams, subscriptions, dbStreams, dbSubs, dbLookup, pc, argVars,
                 issued, crashes, history, torn, overlapped>>

\* recoverSubscriptions passes over a record whose stream is unknown.
Recoverable == {s \in dbSubs : StreamOf[s] \in dbStreams}

\* The process dies; recoverStreams and recoverSubscriptions rebuild the maps
\* before the server listens again.
Crash ==
  /\ crashes < MaxCrashes /\ crashes' = crashes + 1
  /\ streams' = dbStreams /\ subscriptions' = Recoverable
  /\ poller' = [st \in Streams |-> IF st \in dbStreams THEN "idle" ELSE "off"]
  /\ pc' = [t \in Threads |-> "idle"] /\ op' = [t \in Threads |-> "none"]
  /\ stream' = [t \in Threads |-> None] /\ sub' = [t \in Threads |-> None]
  /\ todo' = [t \in Threads |-> {}]
  /\ torn' = (torn \/ \E t \in Threads : pc[t] # "idle")
  /\ UNCHANGED <<dbVars, issued, history, overlapped>>

-----------------------------------------------------------------------------
StreamRequest(t) == \/ \E st \in Streams : \/ AddStream(t, st) \/ ChangeStream(t, st)
                                           \/ DeleteStream(t, st)
                    \/ StoreStream(t) \/ StoreStreamFails(t)
                    \/ DeleteNextSub(t) \/ RemoveStream(t) \/ DeleteStreamInfo(t)
                    \/ DeleteStreamFails(t) \/ DeleteCheckpoint(t)

SubRequest(t) == \/ \E s \in Subs : \/ AddSubscription(t, s) \/ ResetSubscription(t, s)
                                    \/ DeleteSubscription(t, s)
                 \/ CreateSubscription(t) \/ StoreSubscription(t) \/ StoreLookupKey(t)
                 \/ StoreSubscriptionFails(t) \/ Unsubscribe(t) \/ DeleteInfo(t)
                 \/ DeleteLookupKey(t) \/ DeleteSubscriptionFails(t)

Next == \/ \E t \in Threads : StreamRequest(t) \/ SubRequest(t)
        \/ \E st \in Streams : PollerTurn(st) \/ PollerStore(st)
        \/ Crash

Spec == Init /\ [][Next]_vars

-----------------------------------------------------------------------------
(* Properties.                                                             *)

\* The type invariant.
TypeOK ==
  /\ streams \subseteq Streams /\ dbStreams \subseteq Streams
  /\ subscriptions \subseteq Subs /\ dbSubs \subseteq Subs
  /\ poller \in [Streams -> {"off", "idle", "cycle"}]
  /\ dbLookup \in [LookupKeys -> Subs \cup {None}]
  /\ dbCheckpoint \subseteq Streams
  /\ pc \in [Threads -> Labels]
  /\ op \in [Threads -> {"none", "add", "change", "delete", "deleteStream"}]
  /\ stream \in [Threads -> Streams \cup {None}] /\ sub \in [Threads -> Subs \cup {None}]
  /\ todo \in [Threads -> SUBSET Subs]
  /\ issued \subseteq Streams \cup Subs /\ crashes \in Nat
  /\ acked \subseteq issued /\ doomed \subseteq issued /\ gone \subseteq issued
  /\ torn \in BOOLEAN /\ overlapped \in BOOLEAN

\* A stream, or a subscription of such a stream, whose creation was answered
\* with success and which nobody set out to delete is in the map and in
\* LevelDB, whatever other requests, failing writes and restarts do.
AcknowledgedSurvives ==
  LET kept == acked \ doomed IN
  /\ kept \cap Streams \subseteq streams \cap dbStreams
  /\ \A s \in kept \cap Subs :
       s \in dbSubs /\ (StreamOf[s] \in kept => s \in subscriptions)

\* Requests one at a time: what was deleted with success does not come back,
\* neither in the map nor through a restart.
DeletedStaysDeleted ==
  ~overlapped => gone \cap (streams \cup subscriptions \cup dbStreams \cup dbSubs) = {}

\* Requests one at a time, none of them torn: between requests LevelDB agrees
\* with the maps, every subscription has its stream and owns its lookup key,
\* and every lookup key has its subscription.  So addSubscription refuses a
\* filter exactly when a subscription has it.
FilterTakenOnce ==
  ~overlapped /\ ~torn /\ (\A t \in Threads : pc[t] = "idle") =>
    /\ streams = dbStreams /\ subscriptions = dbSubs
    /\ \A s \in dbSubs : StreamOf[s] \in dbStreams /\ dbLookup[KeyOf[s]] = s
    /\ \A k \in LookupKeys : dbLookup[k] # None => dbLookup[k] \in dbSubs

\* Requests one at a time: a checkpoint record goes only after the record of
\* its stream, so that no crash leaves a stream that lost its position.
CheckpointOutlivesStream ==
  [][~overlapped => \A st \in dbCheckpoint \ dbCheckpoint' : st \notin dbStreams']_vars

\* No two subscriptions have the same channel, chaincode, block type and event
\* filter: what addSubscription checks before it creates one.
UniqueFilters == \A r, s \in subscriptions : KeyOf[r] = KeyOf[s] => r = s

=============================================================================
