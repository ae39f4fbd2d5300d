---------------------------- MODULE EventStream ----------------------------
(***************************************************************************)
(* One event stream of internal/events and the subscriptions that feed it. *)
(*                                                                         *)
(* Goroutines: the eventPoller (one at a time), batchDispatchers,          *)
(* batchProcessors, and for each subscription the processNewEvents relays  *)
(* that move events from the Fabric SDK's notifier channel to the stream.  *)
(* REST handlers suspend, resume, update and stop the stream and add,      *)
(* reset and delete subscriptions; the process may crash and recover from  *)
(* LevelDB.                                                                *)
(*                                                                         *)
(* An event is the n-th event of the chain that matches a subscription's   *)
(* filter; only its block number matters.  The SDK behind SubscribeEvent   *)
(* and Unregister is external and modelled by what RPCClient promises:     *)
(* the registration delivers every matching event from block `since' on,   *)
(* in order; Unregister closes the channel, which may still hold events.   *)
(***************************************************************************)
EXTENDS Integers, Sequences, FiniteSets

CONSTANTS
  Subs,             \* subscription IDs
  InitSubs,         \* subscriptions that exist when the process starts
  BlockOf,          \* BlockOf[s][n]: block of the n-th event matching s
  FromBlock,        \* FromBlock[s]: initial position of s, a number or Newest
  ResetBlocks,      \* blocks a reset may name
  Newest,           \* the FromBlock value "newest" (or empty)
  BatchSizes,       \* batch sizes a stream is created with or updated to
  ErrorHandlings,   \* error handling modes, subset of {"skip", "block"}
  Faults,           \* external calls that may fail, subset of {"load", "store",
                    \*   "height", "subscribe"}; and "recovery": a restarted
                    \*   poller may run before all subscriptions are restored
  MaxHeight,        \* bound: height of the chain
  MaxOps,           \* bound: MaxOps[op] calls of each REST operation, crashes
  MaxGen,           \* bound: startEventHandlers calls of one process run
  MaxBuffered,      \* bound: events left in a notifier channel when closed
  Dispatchers,      \* goroutine slots 1..k, a bound on dispatchers alive
  Processors,       \* goroutine slots 1..k, a bound on processors alive
  Relays            \* goroutine slots 1..k, a bound on relays alive per sub

OpNames == {"suspend", "resume", "update", "retype", "reset", "delete", "stop", "crash"}
Gens == 0..MaxGen
Positions(s) == 1..Len(BlockOf[s])

ASSUME SubsAssumption == InitSubs \subseteq Subs
ASSUME ChainAssumption ==
  /\ BlockOf \in [Subs -> Seq(Nat)]
  /\ \A s \in Subs : \A m, n \in Positions(s) : m < n => BlockOf[s][m] <= BlockOf[s][n]
ASSUME FromBlockAssumption ==
  /\ Newest \notin Int
  /\ FromBlock \in [Subs -> Nat \cup {Newest}]
  /\ ResetBlocks \subseteq Nat \cup {Newest}
ASSUME ConfigAssumption ==
  /\ BatchSizes \subseteq Nat \ {0}
  /\ ErrorHandlings \subseteq {"skip", "block"}
ASSUME BoundAssumption ==
  /\ MaxHeight \in Nat \ {0} /\ MaxGen \in Nat /\ MaxBuffered \in Nat
  /\ MaxOps \in [OpNames -> Nat]
  /\ Dispatchers \subseteq Nat \ {0} /\ 1 \in Dispatchers
  /\ Processors \subseteq Nat \ {0} /\ 1 \in Processors
  /\ Relays \subseteq Nat \ {0}

VARIABLES
  height,           \* chain height: blocks 0..height-1 exist
  suspended,        \* spec.Suspended (persisted with the stream)
  batchSize,        \* spec.BatchSize (persisted)
  errorHandling,    \* spec.ErrorHandling (persisted)
  stopped,          \* a.stopped, and the eventStream channel is closed
  updateInProgress, \* a.updateInProgress
  gen,              \* which updateInterrupt channel and updateWG are current
  closed,           \* the updateInterrupt channels that are closed
  wg,               \* counter of each updateWG
  updater,          \* the update() call waiting on a WaitGroup, if any
  inFlight,         \* a.inFlight
  batchQueue,       \* a.batchQueue, a sequence of batches
  pollerDone, processorDone,
  pollPC,           \* eventPoller: where it is in its cycle,
  pollWG,           \*   the WaitGroup it belongs to,
  pollSubs,         \*   the subscriptions of the cycle, those still to visit,
  pollTodo,
  pollCall,         \*   the one in a SubscribeEvent call and from which block
  pollSince,
  checkpoint,       \*   and its checkpoint map
  dispOn,           \* batchDispatchers: running,
  currentBatch,     \*   the batch being filled,
  watch,            \*   the interrupt channel in its select,
  dispWG,           \*   the WaitGroup it belongs to
  procPC,           \* batchProcessors: where they are,
  procBatch,        \*   the batch they work on,
  procErr,          \*   an earlier attempt at it failed,
  batchWG,          \*   the WaitGroups counting processBatch and
  actionWG,         \*   performActionWithRetry
  subState,         \* "new", "active", "deleted", or "recovering": in LevelDB,
                    \*   not yet in the map of a restarted process
  fromBlock,        \* info.FromBlock (persisted)
  hwm,              \* blockHWM of the subscription's event processor
  filterStale, resetRequested,
  chanOpen,         \* the SDK channel a subscription reads: not closed,
  chanNext,         \*   the next event it delivers,
  chanLast,         \*   and once closed the last one left in it
  relay,            \* processNewEvents goroutines of each subscription
  stored,           \* the stream's checkpoint in LevelDB
  owed,             \* history: events each subscription has still to be given,
                    \*   counted from its initial position or its last reset; a
                    \*   newest position without a checkpoint is taken anew
  ops               \* calls made of each bounded operation

streamVars == <<suspended, batchSize, errorHandling, stopped>>
updateVars == <<updateInProgress, gen, closed, wg, updater>>
batchVars  == <<inFlight, batchQueue>>
doneVars   == <<pollerDone, processorDone>>
pollVars   == <<pollPC, pollWG, pollSubs, pollTodo, pollCall, pollSince, checkpoint>>
dispVars   == <<dispOn, currentBatch, watch, dispWG>>
procVars   == <<procPC, procBatch, procErr, batchWG, actionWG>>
subVars    == <<subState, fromBlock, hwm, filterStale, resetRequested>>
chanVars   == <<chanOpen, chanNext, chanLast>>
sdkVars    == <<chanVars, relay>>
vars == <<height, streamVars, updateVars, batchVars, doneVars, pollVars, dispVars,
          procVars, subVars, sdkVars, stored, owed, ops>>

-----------------------------------------------------------------------------
(* Values.                                                                 *)

Absent == -1      \* no entry for a subscription in a checkpoint map
Off    == -1      \* a relay slot with no goroutine
Idle   == 0       \* a relay waiting on the notifier; n > 0: holding event n

Event == {e \in [sub : Subs, n : Nat] : e.n \in Positions(e.sub)}
Block(e) == BlockOf[e.sub][e.n]
EventsOf(batch, s) == {batch[i].n : i \in {j \in 1..Len(batch) : batch[j].sub = s}}

Active == {s \in Subs : subState[s] = "active"}
Mined(s) == {n \in Positions(s) : BlockOf[s][n] < height}
Since(s, b) == {n \in Positions(s) : BlockOf[s][n] >= b}

\* n is the first event a registration from block b delivers.
FirstFrom(s, b, n) == \A m \in Positions(s) : m < n <=> BlockOf[s][m] < b

\* Mutant: the stopped flag is not looked at.
suspendOrStopIgnoringStop == suspended

suspendOrStop == suspended \/ stopped

Interrupted == gen \in closed

\* A processor blocked on an open updateInterrupt keeps batchCond.L.
LockFree == \A p \in Processors : procPC[p] # "stuck"

\* Mutant: off by one.
isBlockedEarly == inFlight + 1 >= batchSize

isBlocked == inFlight >= batchSize

\* Mutant: a WaitGroup is not told of the batch and the action in progress.
WGAddForgotten(g) == UNCHANGED wg

\* The WaitGroup of generation g, counted up or down.
WGAdd(g) == wg' = [wg EXCEPT ![g] = @ + 1]
WGDone(g) == wg' = [wg EXCEPT ![g] = @ - 1]

Count(op) == /\ ops[op] < MaxOps[op]
             /\ ops' = [ops EXCEPT ![op] = @ + 1]

-----------------------------------------------------------------------------
(* Start of the process.                                                   *)

Init ==
  /\ height = 1
  /\ suspended = FALSE /\ stopped = FALSE
  /\ batchSize \in BatchSizes
  /\ errorHandling \in ErrorHandlings
  /\ updateInProgress = FALSE
  /\ gen = 0 /\ closed = {}
  /\ wg = [g \in Gens |-> IF g = 0 THEN 3 ELSE 0]
  /\ updater = {}
  /\ inFlight = 0 /\ batchQueue = <<>>
  /\ pollerDone = FALSE /\ processorDone = FALSE
  /\ pollPC = "top" /\ pollWG = 0
  /\ pollSubs = {} /\ pollTodo = {} /\ pollCall = {} /\ pollSince = 0
  /\ checkpoint = [s \in Subs |-> Absent]
  /\ dispOn = [d \in Dispatchers |-> d = 1]
  /\ currentBatch = [d \in Dispatchers |-> <<>>]
  /\ watch = [d \in Dispatchers |-> 0] /\ dispWG = [d \in Dispatchers |-> 0]
  /\ procPC = [p \in Processors |-> IF p = 1 THEN "idle" ELSE "off"]
  /\ procBatch = [p \in Processors |-> <<>>] /\ procErr = [p \in Processors |-> FALSE]
  /\ batchWG = [p \in Processors |-> 0] /\ actionWG = [p \in Processors |-> 0]
  /\ subState = [s \in Subs |-> IF s \in InitSubs THEN "active" ELSE "new"]
  /\ fromBlock = FromBlock
  /\ hwm = [s \in Subs |-> 0]
  /\ filterStale = [s \in Subs |-> TRUE]
  /\ resetRequested = [s \in Subs |-> FALSE]
  /\ chanOpen = [s \in Subs |-> FALSE]
  /\ chanNext = [s \in Subs |-> 1] /\ chanLast = [s \in Subs |-> 0]
  /\ relay = [s \in Subs |-> [i \in Relays |-> Off]]
  /\ stored = [s \in Subs |-> Absent]
  /\ owed = [s \in Subs |-> IF FromBlock[s] = Newest THEN {} ELSE Since(s, FromBlock[s])]
  /\ ops = [op \in OpNames |-> 0]

\* The process dies and restarts: recoverStreams and recoverSubscriptions
\* rebuild the stream and its subscriptions from LevelDB; the chain, the
\* persisted specs, FromBlocks and the checkpoint survive.  The goroutines of
\* the stream run before recoverSubscriptions has filled the map they read.
Crash ==
  /\ Count("crash")
  /\ subState' = [s \in Subs |-> IF "recovery" \in Faults /\ subState[s] = "active"
                                 THEN "recovering" ELSE subState[s]]
  /\ stopped' = FALSE /\ updateInProgress' = FALSE
  /\ gen' = 0 /\ closed' = {} /\ updater' = {}
  /\ wg' = [g \in Gens |-> IF g = 0 THEN 3 ELSE 0]
  /\ inFlight' = 0 /\ batchQueue' = <<>>
  /\ pollerDone' = FALSE /\ processorDone' = FALSE
  /\ pollPC' = "top" /\ pollWG' = 0
  /\ pollSubs' = {} /\ pollTodo' = {} /\ pollCall' = {} /\ pollSince' = 0
  /\ checkpoint' = [s \in Subs |-> Absent]
  /\ dispOn' = [d \in Dispatchers |-> d = 1]
  /\ currentBatch' = [d \in Dispatchers |-> <<>>]
  /\ watch' = [d \in Dispatchers |-> 0] /\ dispWG' = [d \in Dispatchers |-> 0]
  /\ procPC' = [p \in Processors |-> IF p = 1 THEN "idle" ELSE "off"]
  /\ procBatch' = [p \in Processors |-> <<>>] /\ procErr' = [p \in Processors |-> FALSE]
  /\ batchWG' = [p \in Processors |-> 0] /\ actionWG' = [p \in Processors |-> 0]
  /\ hwm' = [s \in Subs |-> 0]
  /\ filterStale' = [s \in Subs |-> TRUE]
  /\ resetRequested' = [s \in Subs |-> FALSE]
  /\ chanOpen' = [s \in Subs |-> FALSE]
  /\ chanNext' = [s \in Subs |-> 1] /\ chanLast' = [s \in Subs |-> 0]
  /\ relay' = [s \in Subs |-> [i \in Relays |-> Off]]
  /\ UNCHANGED <<height, suspended, batchSize, errorHandling, fromBlock, stored, owed>>

\* recoverSubscriptions restores a subscription.
RecoverSubscription(s) ==
  /\ subState[s] = "recovering"
  /\ subState' = [subState EXCEPT ![s] = "active"]
  /\ UNCHANGED <<height, streamVars, updateVars, batchVars, doneVars, pollVars,
                 dispVars, procVars, fromBlock, hwm, filterStale, resetRequested,
                 sdkVars, stored, owed, ops>>

\* The REST server listens only after Init has recovered everything.
Recovered == \A s \in Subs : subState[s] # "recovering"

\* A block is committed by the Fabric network.
Mine ==
  /\ height < MaxHeight
  /\ height' = height + 1
  /\ UNCHANGED <<streamVars, updateVars, batchVars, doneVars, pollVars, dispVars,
                 procVars, subVars, sdkVars, stored, owed, ops>>

-----------------------------------------------------------------------------
(* Subscriptions: the SDK channel and the relay goroutines.                *)

\* markFilterStale(true) for every subscription of S: a filter that was
\* active is unregistered, which closes its channel; events the SDK had
\* already put in the channel can still be read.
MarkFilterStale(S) ==
  LET closing == {s \in S : ~filterStale[s] /\ chanOpen[s]} IN
  /\ filterStale' = [s \in Subs |-> s \in S \/ filterStale[s]]
  /\ chanOpen' = [s \in Subs |-> chanOpen[s] /\ s \notin closing]
  /\ \E left \in [closing -> 0..MaxBuffered] :
       /\ \A s \in closing : left[s] > 0 => chanNext[s] + left[s] - 1 \in Mined(s)
       /\ chanLast' = [s \in Subs |-> IF s \in closing THEN chanNext[s] + left[s] - 1
                                      ELSE chanLast[s]]

\* processNewEvents takes the next event from the channel and enters
\* handleEvent, which drops it if the stream is stopped and otherwise
\* blocks until a dispatcher takes it.
RelayRead(s, i) ==
  /\ relay[s][i] = Idle
  /\ \/ chanOpen[s] /\ chanNext[s] \in Mined(s)
     \/ ~chanOpen[s] /\ chanNext[s] <= chanLast[s]
  /\ chanNext' = [chanNext EXCEPT ![s] = @ + 1]
  /\ relay' = [relay EXCEPT ![s][i] = IF stopped THEN Idle ELSE chanNext[s]]
  /\ UNCHANGED <<height, streamVars, updateVars, batchVars, doneVars, pollVars,
                 dispVars, procVars, subVars, chanOpen, chanLast, stored, owed, ops>>

\* Mutant: the closed channel's zero value is passed on as an event.
RelayExitPassesOn(s, i) ==
  /\ relay[s][i] = Idle
  /\ ~chanOpen[s] /\ chanNext[s] > chanLast[s]
  /\ relay' = [relay EXCEPT ![s][i] = chanNext[s]]
  /\ UNCHANGED <<height, streamVars, updateVars, batchVars, doneVars, pollVars,
                 dispVars, procVars, subVars, chanVars, stored, owed, ops>>

\* processNewEvents returns when its channel is closed and empty.
RelayExit(s, i) ==
  /\ relay[s][i] = Idle
  /\ ~chanOpen[s] /\ chanNext[s] > chanLast[s]
  /\ relay' = [relay EXCEPT ![s][i] = Off]
  /\ UNCHANGED <<height, streamVars, updateVars, batchVars, doneVars, pollVars,
                 dispVars, procVars, subVars, chanVars, stored, owed, ops>>

-----------------------------------------------------------------------------
(* batchDispatcher                                                         *)

\* The select evaluates a.updateInterrupt afresh on each turn of the loop,
\* so after an event or a timeout the dispatcher watches the current one.

\* An event arrives: it is counted in flight, and a full batch is queued.
DispatchEvent(d, s, i) ==
  LET batch == Append(currentBatch[d], [sub |-> s, n |-> relay[s][i]])
      full  == Len(batch) = batchSize
  IN
  /\ dispOn[d] /\ relay[s][i] > 0 /\ ~stopped /\ LockFree
  /\ relay' = [relay EXCEPT ![s][i] = Idle]
  /\ inFlight' = inFlight + 1
  /\ batchQueue' = IF full THEN Append(batchQueue, batch) ELSE batchQueue
  /\ currentBatch' = [currentBatch EXCEPT ![d] = IF full THEN <<>> ELSE batch]
  /\ watch' = [watch EXCEPT ![d] = gen]
  /\ UNCHANGED <<height, streamVars, updateVars, doneVars, pollVars, dispOn,
                 dispWG, procVars, subVars, chanVars, stored, owed, ops>>

\* Mutant: the events of a timed out batch are counted once more.
DispatchTimeoutCounts(d) ==
  /\ dispOn[d] /\ currentBatch[d] # <<>> /\ LockFree
  /\ batchQueue' = Append(batchQueue, currentBatch[d])
  /\ inFlight' = inFlight + 1
  /\ currentBatch' = [currentBatch EXCEPT ![d] = <<>>]
  /\ watch' = [watch EXCEPT ![d] = gen]
  /\ UNCHANGED <<height, streamVars, updateVars, doneVars, pollVars, dispOn,
                 dispWG, procVars, subVars, sdkVars, stored, owed, ops>>

\* The batch timeout expires with a partial batch, whose events are counted.
DispatchTimeout(d) ==
  /\ dispOn[d] /\ currentBatch[d] # <<>> /\ LockFree
  /\ batchQueue' = Append(batchQueue, currentBatch[d])
  /\ currentBatch' = [currentBatch EXCEPT ![d] = <<>>]
  /\ watch' = [watch EXCEPT ![d] = gen]
  /\ UNCHANGED <<height, streamVars, updateVars, inFlight, doneVars, pollVars,
                 dispOn, dispWG, procVars, subVars, sdkVars, stored, owed, ops>>

\* The channel watched is closed by an update, or the event channel by stop:
\* the goroutine returns, and with it goes its current batch.
DispatchExit(d) ==
  /\ dispOn[d]
  /\ watch[d] \in closed \/ stopped
  /\ dispOn' = [dispOn EXCEPT ![d] = FALSE]
  /\ currentBatch' = [currentBatch EXCEPT ![d] = <<>>]
  /\ watch' = [watch EXCEPT ![d] = 0] /\ dispWG' = [dispWG EXCEPT ![d] = 0]
  /\ WGDone(dispWG[d])
  /\ UNCHANGED <<height, streamVars, updateInProgress, gen, closed, updater,
                 batchVars, doneVars, pollVars, procVars, subVars, sdkVars,
                 stored, owed, ops>>

-----------------------------------------------------------------------------
(* eventPoller                                                             *)

\* The loop ends on suspend or stop, or the select sees the interrupt.
PollExit ==
  /\ \/ pollPC = "top" /\ suspendOrStop
     \/ pollPC = "wait" /\ Interrupted
  /\ MarkFilterStale(Active)
  /\ pollerDone' = TRUE
  /\ WGDone(pollWG)
  /\ pollPC' = "done" /\ pollWG' = 0
  /\ checkpoint' = [s \in Subs |-> Absent]
  /\ UNCHANGED <<height, streamVars, updateInProgress, gen, closed, updater,
                 batchVars, processorDone, pollSubs, pollTodo, pollCall,
                 pollSince, dispVars, procVars, subState, fromBlock, hwm,
                 resetRequested, chanNext, relay, stored, owed, ops>>

\* Mutant: the checkpoint is never loaded.
NoCheckpointNever == FALSE

NoCheckpoint == \A s \in Subs : checkpoint[s] = Absent

\* A cycle starts: the checkpoint is loaded if the map is empty, and the
\* subscriptions are visited unless the stream is blocked.
PollBegin ==
  /\ pollPC = "top" /\ ~suspendOrStop /\ LockFree
  /\ checkpoint' = IF NoCheckpoint THEN stored ELSE checkpoint
  /\ pollPC' = "subs"
  /\ pollSubs' = Active
  /\ pollTodo' = IF isBlocked THEN {} ELSE Active
  /\ UNCHANGED <<height, streamVars, updateVars, batchVars, doneVars, pollWG,
                 pollCall, pollSince, dispVars, procVars, subVars, sdkVars,
                 stored, owed, ops>>

\* Loading the checkpoint fails: the map stays nil, nothing else is done.
PollLoadFails ==
  /\ "load" \in Faults
  /\ pollPC = "top" /\ ~suspendOrStop /\ NoCheckpoint
  /\ pollPC' = "wait"
  /\ UNCHANGED <<height, streamVars, updateVars, batchVars, doneVars, pollWG,
                 pollSubs, pollTodo, pollCall, pollSince, checkpoint, dispVars,
                 procVars, subVars, sdkVars, stored, owed, ops>>

\* restartFilter calls SubscribeEvent from block b.
CallSubscribe(s, b) ==
  /\ pollPC' = "call" /\ pollCall' = {s} /\ pollSince' = b

\* setInitialBlockHeight: a block number is taken as it is, without touching
\* the high-water mark; the newest block is asked for.
SetInitialBlockHeight(s, reset) ==
  \/ /\ fromBlock[s] # Newest
     /\ CallSubscribe(s, fromBlock[s])
     /\ owed' = [owed EXCEPT ![s] = IF reset THEN Since(s, fromBlock[s]) ELSE @]
     /\ UNCHANGED hwm
  \/ /\ fromBlock[s] = Newest
     /\ hwm' = [hwm EXCEPT ![s] = height]
     /\ CallSubscribe(s, height)
     /\ owed' = [owed EXCEPT ![s] = Since(s, height)]
  \/ \* the query for the newest block fails
     /\ "height" \in Faults /\ fromBlock[s] = Newest
     /\ UNCHANGED <<pollPC, pollCall, pollSince, hwm, owed>>

SetCheckpointBlockHeight(s, cp) ==
  /\ hwm' = [hwm EXCEPT ![s] = cp]
  /\ CallSubscribe(s, cp)
  /\ UNCHANGED owed

\* Visit subscription s: a requested reset unsubscribes it and drops its
\* checkpoint; a stale filter gets its position and SubscribeEvent is called.
PollSub(s) ==
  LET reset   == resetRequested[s]
      cp      == IF reset THEN Absent ELSE checkpoint[s]
      restart == (reset \/ filterStale[s]) /\ subState[s] # "deleted"
  IN
  /\ pollPC = "subs" /\ s \in pollTodo
  /\ pollTodo' = pollTodo \ {s}
  /\ checkpoint' = [checkpoint EXCEPT ![s] = cp]
  /\ resetRequested' = [resetRequested EXCEPT ![s] = FALSE]
  /\ MarkFilterStale(IF reset THEN {s} ELSE {})
  /\ \/ /\ ~restart
        /\ UNCHANGED <<pollPC, pollCall, pollSince, hwm, owed>>
     \/ restart /\ cp > 0 /\ SetCheckpointBlockHeight(s, cp)
     \/ restart /\ cp <= 0 /\ SetInitialBlockHeight(s, reset)
  /\ UNCHANGED <<height, streamVars, updateVars, batchVars, doneVars, pollWG,
                 pollSubs, dispVars, procVars, subState, fromBlock, chanNext,
                 relay, stored, ops>>

\* SubscribeEvent returns: the filter is live and a relay is launched on the
\* new channel.  A relay still holding an event of the old channel reads the
\* new one when it loops; the others have seen their channel closed.
PollSubscribed(s) ==
  /\ pollPC = "call" /\ s \in pollCall
  /\ \E i \in Relays :
       /\ relay[s][i] <= Idle
       /\ \A j \in Relays : j < i => relay[s][j] > 0
       /\ relay' = [relay EXCEPT ![s] = [j \in Relays |->
            IF j = i THEN Idle ELSE IF relay[s][j] = Idle THEN Off ELSE relay[s][j]]]
  /\ \E n \in 1..(Len(BlockOf[s]) + 1) :
       /\ FirstFrom(s, pollSince, n)
       /\ chanNext' = [chanNext EXCEPT ![s] = n]
  /\ chanOpen' = [chanOpen EXCEPT ![s] = TRUE]
  /\ chanLast' = [chanLast EXCEPT ![s] = 0]
  /\ filterStale' = [filterStale EXCEPT ![s] = FALSE]
  /\ pollPC' = "subs" /\ pollCall' = {} /\ pollSince' = 0
  /\ UNCHANGED <<height, streamVars, updateVars, batchVars, doneVars, pollWG,
                 pollSubs, pollTodo, checkpoint, dispVars, procVars, subState,
                 fromBlock, hwm, resetRequested, stored, owed, ops>>

\* SubscribeEvent fails: the filter stays stale for the next cycle.
PollSubscribeFails ==
  /\ "subscribe" \in Faults
  /\ pollPC = "call"
  /\ pollPC' = "subs" /\ pollCall' = {} /\ pollSince' = 0
  /\ UNCHANGED <<height, streamVars, updateVars, batchVars, doneVars, pollWG,
                 pollSubs, pollTodo, checkpoint, dispVars, procVars, subVars,
                 sdkVars, stored, owed, ops>>

\* All visited: the map takes the high-water marks and is stored if one
\* changed.  A failed store leaves the map changed.
PollRecord ==
  LET changed == \E s \in pollSubs : checkpoint[s] <= 0 \/ checkpoint[s] # hwm[s] IN
  /\ pollPC = "subs" /\ pollTodo = {}
  /\ checkpoint' = [s \in Subs |-> IF s \in pollSubs THEN hwm[s] ELSE checkpoint[s]]
  /\ \/ stored' = IF changed THEN checkpoint' ELSE stored
     \/ "store" \in Faults /\ changed /\ UNCHANGED stored
  /\ pollPC' = "wait" /\ pollSubs' = {}
  /\ UNCHANGED <<height, streamVars, updateVars, batchVars, doneVars, pollWG,
                 pollTodo, pollCall, pollSince, dispVars, procVars, subVars,
                 sdkVars, owed, ops>>

\* Mutant: the poller sleeps without watching the interrupt.
PollWaitAnyway ==
  /\ pollPC = "wait"
  /\ pollPC' = "top"
  /\ UNCHANGED <<height, streamVars, updateVars, batchVars, doneVars, pollWG,
                 pollSubs, pollTodo, pollCall, pollSince, checkpoint, dispVars,
                 procVars, subVars, sdkVars, stored, owed, ops>>

\* The polling interval passes.
PollWait ==
  /\ pollPC = "wait" /\ ~Interrupted
  /\ pollPC' = "top"
  /\ UNCHANGED <<height, streamVars, updateVars, batchVars, doneVars, pollWG,
                 pollSubs, pollTodo, pollCall, pollSince, checkpoint, dispVars,
                 procVars, subVars, sdkVars, stored, owed, ops>>

-----------------------------------------------------------------------------
(* batchProcessor, processBatch and performActionWithRetry                 *)
(*   "idle"    waiting on batchCond       "loop"   top of processBatch     *)
(*   "retry"   top of performActionWithRetry   "sent"   attemptBatch runs  *)
(*   "processed", "abandoned"  after processBatch's loop   "ack"  callbacks *)
(*   "exiting" returned, the deferred processorDone = true still to run    *)
(*   "stuck"   receiving from an open updateInterrupt with the lock held   *)

\* Mutant: the queue is read from the wrong end.
ProcessorTakeLast(p) ==
  /\ procPC[p] = "idle" /\ ~suspendOrStop /\ batchQueue # <<>> /\ LockFree
  /\ procPC' = [procPC EXCEPT ![p] = "loop"]
  /\ procBatch' = [procBatch EXCEPT ![p] = batchQueue[Len(batchQueue)]]
  /\ batchQueue' = SubSeq(batchQueue, 1, Len(batchQueue) - 1)
  /\ batchWG' = [batchWG EXCEPT ![p] = gen] /\ WGAdd(gen)
  /\ UNCHANGED <<height, streamVars, updateInProgress, gen, closed, updater,
                 inFlight, doneVars, pollVars, dispVars, procErr, actionWG,
                 subVars, sdkVars, stored, owed, ops>>

\* The next batch is taken, also while an update is in progress, and
\* processBatch is counted in the current WaitGroup.
ProcessorTake(p) ==
  /\ procPC[p] = "idle" /\ ~suspendOrStop /\ batchQueue # <<>> /\ LockFree
  /\ procPC' = [procPC EXCEPT ![p] = "loop"]
  /\ procBatch' = [procBatch EXCEPT ![p] = Head(batchQueue)]
  /\ batchQueue' = Tail(batchQueue)
  /\ batchWG' = [batchWG EXCEPT ![p] = gen] /\ WGAdd(gen)
  /\ UNCHANGED <<height, streamVars, updateInProgress, gen, closed, updater,
                 inFlight, doneVars, pollVars, dispVars, procErr, actionWG,
                 subVars, sdkVars, stored, owed, ops>>

\* Suspended or stopped: the goroutine returns without updateWG.Done.
ProcessorSuspended(p) ==
  /\ procPC[p] = "idle" /\ suspendOrStop /\ LockFree
  /\ procPC' = [procPC EXCEPT ![p] = "exiting"]
  /\ UNCHANGED <<height, streamVars, updateVars, batchVars, doneVars, pollVars,
                 dispVars, procBatch, procErr, batchWG, actionWG, subVars,
                 sdkVars, stored, owed, ops>>

\* Nothing queued and an update in progress: wait for the interrupt and
\* return.  The WaitGroup is released before the deferred processorDone.
ProcessorUpdated(p) ==
  /\ procPC[p] = "idle" /\ ~suspendOrStop /\ batchQueue = <<>> /\ LockFree
  /\ updateInProgress
  /\ \/ /\ Interrupted
        /\ procPC' = [procPC EXCEPT ![p] = "exiting"]
        /\ WGDone(gen)
     \/ /\ ~Interrupted
        /\ procPC' = [procPC EXCEPT ![p] = "stuck"]
        /\ UNCHANGED wg
  /\ UNCHANGED <<height, streamVars, updateInProgress, gen, closed, updater,
                 batchVars, doneVars, pollVars, dispVars, procBatch, procErr,
                 batchWG, actionWG, subVars, sdkVars, stored, owed, ops>>

\* The deferred function of batchProcessor.
ProcessorExit(p) ==
  /\ procPC[p] = "exiting"
  /\ processorDone' = TRUE
  /\ procPC' = [procPC EXCEPT ![p] = "off"]
  /\ UNCHANGED <<height, streamVars, updateVars, batchVars, pollerDone,
                 pollVars, dispVars, procBatch, procErr, batchWG, actionWG,
                 subVars, sdkVars, stored, owed, ops>>

\* processBatch returns, leaving its WaitGroup.
BatchDone(p) ==
  /\ procPC' = [procPC EXCEPT ![p] = "idle"]
  /\ procBatch' = [procBatch EXCEPT ![p] = <<>>]
  /\ batchWG' = [batchWG EXCEPT ![p] = 0] /\ WGDone(batchWG[p])

\* The top of processBatch's loop.
ProcessBatch(p) ==
  /\ procPC[p] = "loop"
  /\ procErr' = [procErr EXCEPT ![p] = FALSE]
  /\ \/ /\ suspendOrStop
        /\ procPC' = [procPC EXCEPT ![p] = "abandoned"]
        /\ UNCHANGED <<wg, procBatch, batchWG, actionWG>>
     \/ \* an interrupt seen before a new attempt returns at once: the batch
        \* is neither acked nor taken off inFlight
        /\ ~suspendOrStop /\ procErr[p] /\ Interrupted
        /\ BatchDone(p)
        /\ UNCHANGED actionWG
     \/ /\ ~suspendOrStop /\ ~(procErr[p] /\ Interrupted)
        /\ procPC' = [procPC EXCEPT ![p] = "retry"]
        /\ actionWG' = [actionWG EXCEPT ![p] = gen] /\ WGAdd(gen)
        /\ UNCHANGED <<procBatch, batchWG>>
  /\ UNCHANGED <<height, streamVars, updateInProgress, gen, closed, updater,
                 batchVars, doneVars, pollVars, dispVars, subVars, sdkVars,
                 stored, owed, ops>>

Handled(batch) == [s \in Subs |-> owed[s] \ EventsOf(batch, s)]

\* performActionWithRetry returned: nil, or an error that ErrorHandling skips
\* or that blocks the stream on this batch.
Returned(p, err) ==
  LET blocked == err /\ errorHandling # "skip" IN
  /\ procPC' = [procPC EXCEPT ![p] = IF blocked THEN "loop" ELSE "processed"]
  /\ procErr' = [procErr EXCEPT ![p] = blocked]
  /\ actionWG' = [actionWG EXCEPT ![p] = 0] /\ WGDone(actionWG[p])

\* The top of performActionWithRetry's loop.
PerformAction(p) ==
  /\ procPC[p] = "retry"
  /\ \/ /\ suspendOrStop \/ (procErr[p] /\ Interrupted)
        /\ Returned(p, procErr[p])
        /\ owed' = IF procErr[p] /\ errorHandling = "skip" THEN Handled(procBatch[p]) ELSE owed
     \/ /\ ~suspendOrStop /\ ~(procErr[p] /\ Interrupted)
        /\ procPC' = [procPC EXCEPT ![p] = "sent"]
        /\ UNCHANGED <<wg, procErr, actionWG, owed>>
  /\ UNCHANGED <<height, streamVars, updateInProgress, gen, closed, updater,
                 batchVars, doneVars, pollVars, dispVars, procBatch, batchWG,
                 subVars, sdkVars, stored, ops>>

\* attemptBatch: the client took the batch.
AttemptOK(p) ==
  /\ procPC[p] = "sent"
  /\ Returned(p, FALSE)
  /\ owed' = Handled(procBatch[p])
  /\ UNCHANGED <<height, streamVars, updateInProgress, gen, closed, updater,
                 batchVars, doneVars, pollVars, dispVars, procBatch, batchWG,
                 subVars, sdkVars, stored, ops>>

\* attemptBatch failed and the retry timeout has not passed.
AttemptRetry(p) ==
  /\ procPC[p] = "sent"
  /\ procPC' = [procPC EXCEPT ![p] = "retry"]
  /\ procErr' = [procErr EXCEPT ![p] = TRUE]
  /\ UNCHANGED <<height, streamVars, updateVars, batchVars, doneVars, pollVars,
                 dispVars, procBatch, batchWG, actionWG, subVars, sdkVars,
                 stored, owed, ops>>

\* attemptBatch failed and the retry timeout has passed.
AttemptFail(p) ==
  /\ procPC[p] = "sent"
  /\ Returned(p, TRUE)
  /\ owed' = IF errorHandling = "skip" THEN Handled(procBatch[p]) ELSE owed
  /\ UNCHANGED <<height, streamVars, updateInProgress, gen, closed, updater,
                 batchVars, doneVars, pollVars, dispVars, procBatch, batchWG,
                 subVars, sdkVars, stored, ops>>

\* Mutant: a full batch is taken off inFlight whatever the batch holds.
ReleaseBatchFull(p) ==
  /\ procPC[p] \in {"processed", "abandoned"} /\ LockFree
  /\ inFlight' = IF procPC[p] = "processed" THEN inFlight - batchSize ELSE inFlight
  /\ procPC' = [procPC EXCEPT ![p] = "ack"]
  /\ UNCHANGED <<height, streamVars, updateVars, batchQueue, doneVars, pollVars,
                 dispVars, procBatch, procErr, batchWG, actionWG, subVars,
                 sdkVars, stored, owed, ops>>

\* The end of processBatch's loop: a processed batch leaves inFlight.
ReleaseBatch(p) ==
  /\ procPC[p] \in {"processed", "abandoned"} /\ LockFree
  /\ inFlight' = IF procPC[p] = "processed" THEN inFlight - Len(procBatch[p]) ELSE inFlight
  /\ procPC' = [procPC EXCEPT ![p] = "ack"]
  /\ UNCHANGED <<height, streamVars, updateVars, batchQueue, doneVars, pollVars,
                 dispVars, procBatch, procErr, batchWG, actionWG, subVars,
                 sdkVars, stored, owed, ops>>

\* batchComplete for the last event of each subscription in the batch raises
\* the high-water mark to the block after it.
LastOf(batch, s) ==
  {i \in 1..Len(batch) : /\ batch[i].sub = s
                         /\ \A j \in 1..Len(batch) : j > i => batch[j].sub # s}

\* Mutant: the mark skips the block after the one delivered.
BatchCompleteAhead(batch) ==
  [s \in Subs |->
     LET marks == {h \in {Block(batch[i]) + 2 : i \in LastOf(batch, s)} : h > hwm[s]}
     IN  IF marks = {} THEN hwm[s] ELSE CHOOSE h \in marks : TRUE]

BatchComplete(batch) ==
  [s \in Subs |->
     LET marks == {h \in {Block(batch[i]) + 1 : i \in LastOf(batch, s)} : h > hwm[s]}
     IN  IF marks = {} THEN hwm[s] ELSE CHOOSE h \in marks : TRUE]

\* The batch is acked unless the stream is suspended or stopped by now.
AckBatch(p) ==
  /\ procPC[p] = "ack"
  /\ hwm' = IF suspendOrStop THEN hwm ELSE BatchComplete(procBatch[p])
  /\ BatchDone(p)
  /\ UNCHANGED <<height, streamVars, updateInProgress, gen, closed, updater,
                 batchVars, doneVars, pollVars, dispVars, procErr, actionWG,
                 subState, fromBlock, filterStale, resetRequested, sdkVars,
                 stored, owed, ops>>

-----------------------------------------------------------------------------
(* REST operations                                                         *)

Suspend ==
  /\ Count("suspend") /\ LockFree /\ ~suspended
  /\ suspended' = TRUE
  /\ UNCHANGED <<height, batchSize, errorHandling, stopped, updateVars,
                 batchVars, doneVars, pollVars, dispVars, procVars, subVars, sdkVars,
                 stored, owed>>

\* startEventHandlers: a new interrupt channel and WaitGroup, a poller and a
\* processor, and unless resuming a dispatcher.  Two pollers at once (a resume
\* in the middle of an update) are not explored: pollPC = "done" is a bound.
StartEventHandlers(resume) ==
  LET g == gen + 1 IN
  /\ g \in Gens /\ pollPC = "done"
  /\ gen' = g
  /\ wg' = [wg EXCEPT ![g] = IF resume THEN 2 ELSE 3]
  /\ pollPC' = "top" /\ pollWG' = g
  /\ \E p \in Processors :
       /\ procPC[p] = "off" /\ \A q \in Processors : q < p => procPC[q] # "off"
       /\ procPC' = [procPC EXCEPT ![p] = "idle"]
  /\ \/ resume /\ UNCHANGED dispVars
     \/ /\ ~resume
        /\ \E d \in Dispatchers :
             /\ ~dispOn[d] /\ \A c \in Dispatchers : c < d => dispOn[c]
             /\ dispOn' = [dispOn EXCEPT ![d] = TRUE]
             /\ watch' = [watch EXCEPT ![d] = g]
             /\ dispWG' = [dispWG EXCEPT ![d] = g]
        /\ UNCHANGED currentBatch
  /\ pollerDone' = FALSE /\ processorDone' = FALSE
  /\ UNCHANGED <<pollSubs, pollTodo, pollCall, pollSince, checkpoint, procBatch,
                 procErr, batchWG, actionWG>>

\* Mutant: resume does not ask whether the processor has returned.
ResumeAnyway ==
  /\ Count("resume") /\ LockFree
  /\ pollerDone
  /\ suspended' = FALSE
  /\ StartEventHandlers(TRUE)
  /\ UNCHANGED <<height, batchSize, errorHandling, stopped, updateInProgress,
                 closed, updater, batchVars, subVars, sdkVars, stored, owed>>

\* resume checks only that the poller and the processor have returned.
Resume ==
  /\ Count("resume") /\ LockFree
  /\ processorDone /\ pollerDone
  /\ suspended' = FALSE
  /\ StartEventHandlers(TRUE)
  /\ UNCHANGED <<height, batchSize, errorHandling, stopped, updateInProgress,
                 closed, updater, batchVars, subVars, sdkVars, stored, owed>>

\* update: preUpdateStream closes the interrupt, and the caller then waits on
\* the WaitGroup of the moment.
UpdateBegin ==
  /\ Count("update") /\ LockFree /\ ~updateInProgress
  /\ updateInProgress' = TRUE
  /\ closed' = closed \cup {gen}
  /\ updater' = {gen}
  /\ UNCHANGED <<height, streamVars, gen, wg, batchVars, doneVars, pollVars,
                 dispVars, procVars, subVars, sdkVars, stored, owed>>

\* Mutant: the update does not wait for the goroutines it interrupted.
UpdateFinishAtOnce ==
  /\ updater # {}
  /\ LockFree
  /\ batchSize' \in BatchSizes
  /\ errorHandling' \in ErrorHandlings
  /\ StartEventHandlers(FALSE)
  /\ updateInProgress' = FALSE
  /\ updater' = {}
  /\ UNCHANGED <<height, suspended, stopped, closed, batchVars,
                 subVars, sdkVars, stored, owed, ops>>

\* The wait is over: the new settings are taken and postUpdateStream starts
\* a fresh round of goroutines.
UpdateFinish ==
  /\ \E g \in updater : wg[g] = 0
  /\ LockFree
  /\ batchSize' \in BatchSizes
  /\ errorHandling' \in ErrorHandlings
  /\ StartEventHandlers(FALSE)
  /\ updateInProgress' = FALSE
  /\ updater' = {}
  /\ UNCHANGED <<height, suspended, stopped, closed, batchVars,
                 subVars, sdkVars, stored, owed, ops>>

\* The new settings name another stream type: update returns its error and
\* postUpdateStream is not called.
UpdateRefused ==
  /\ Count("retype")
  /\ \E g \in updater : wg[g] = 0
  /\ updater' = {}
  /\ UNCHANGED <<height, streamVars, updateInProgress, gen, closed, wg,
                 batchVars, doneVars, pollVars, dispVars, procVars, subVars, sdkVars,
                 stored, owed>>

\* Shutdown (or deletion of the stream): stop closes the event channel, and
\* every subscription is unregistered.
Stop ==
  /\ Count("stop") /\ LockFree /\ ~stopped
  /\ stopped' = TRUE
  /\ chanOpen' = [s \in Subs |-> FALSE]
  /\ chanLast' = [s \in Subs |-> IF chanOpen[s] THEN chanNext[s] - 1 ELSE chanLast[s]]
  /\ UNCHANGED <<height, suspended, batchSize, errorHandling, updateVars,
                 batchVars, doneVars, pollVars, dispVars, procVars, subVars,
                 chanNext, relay, stored, owed>>

\* Mutant: a new subscription is not marked stale.
AddSubscriptionFresh(s) ==
  /\ subState[s] = "new"
  /\ subState' = [subState EXCEPT ![s] = "active"]
  /\ filterStale' = [filterStale EXCEPT ![s] = FALSE]
  /\ UNCHANGED <<height, streamVars, updateVars, batchVars, doneVars, pollVars,
                 dispVars, procVars, fromBlock, hwm, resetRequested, sdkVars,
                 stored, owed, ops>>

\* A subscription created through the REST API joins the next cycle.
AddSubscription(s) ==
  /\ subState[s] = "new"
  /\ subState' = [subState EXCEPT ![s] = "active"]
  /\ UNCHANGED <<height, streamVars, updateVars, batchVars, doneVars, pollVars,
                 dispVars, procVars, fromBlock, hwm, filterStale, resetRequested,
                 sdkVars, stored, owed, ops>>

\* resetSubscription: the new position is saved and the poller is asked to
\* unsubscribe and subscribe again.
ResetSubscription(s, b) ==
  /\ Count("reset") /\ subState[s] = "active"
  /\ fromBlock' = [fromBlock EXCEPT ![s] = b]
  /\ resetRequested' = [resetRequested EXCEPT ![s] = TRUE]
  /\ UNCHANGED <<height, streamVars, updateVars, batchVars, doneVars, pollVars,
                 dispVars, procVars, subState, hwm, filterStale, sdkVars, stored, owed>>

DeleteSubscription(s) ==
  /\ Count("delete") /\ subState[s] = "active"
  /\ subState' = [subState EXCEPT ![s] = "deleted"]
  /\ resetRequested' = [resetRequested EXCEPT ![s] = FALSE]
  /\ MarkFilterStale({s})
  /\ UNCHANGED <<height, streamVars, updateVars, batchVars, doneVars, pollVars,
                 dispVars, procVars, fromBlock, hwm, chanNext, relay, stored,
                 owed>>

-----------------------------------------------------------------------------

Relaying    == \E s \in Subs, i \in Relays : RelayRead(s, i) \/ RelayExit(s, i)
Dispatching == \E d \in Dispatchers :
                 \/ \E s \in Subs, i \in Relays : DispatchEvent(d, s, i)
                 \/ DispatchTimeout(d)
                 \/ DispatchExit(d)
Polling     == \/ PollExit \/ PollBegin \/ PollLoadFails
               \/ \E s \in Subs : PollSub(s) \/ PollSubscribed(s)
               \/ PollSubscribeFails \/ PollRecord \/ PollWait
Processing  == \E p \in Processors :
                 \/ ProcessorTake(p) \/ ProcessorSuspended(p)
                 \/ ProcessorUpdated(p) \/ ProcessorExit(p)
                 \/ ProcessBatch(p) \/ PerformAction(p)
                 \/ AttemptOK(p) \/ AttemptRetry(p) \/ AttemptFail(p)
                 \/ ReleaseBatch(p) \/ AckBatch(p)
Handlers    == /\ Recovered
               /\ \/ Suspend \/ Resume
                  \/ UpdateBegin \/ UpdateFinish \/ UpdateRefused
                  \/ Stop
                  \/ \E s \in Subs : \/ AddSubscription(s)
                                     \/ \E b \in ResetBlocks : ResetSubscription(s, b)
                                     \/ DeleteSubscription(s)

Next == \/ Mine \/ Crash \/ \E s \in Subs : RecoverSubscription(s)
        \/ Relaying \/ Dispatching \/ Polling \/ Processing \/ Handlers

Spec == Init /\ [][Next]_vars

\* Every goroutine that can step eventually does; calls to Fabric, the
\* database and the client return; the retry timeout ends a run of retries.
Fairness ==
  /\ WF_vars(Mine) /\ WF_vars(Polling) /\ WF_vars(UpdateFinish)
  /\ \A s \in Subs : WF_vars(RecoverSubscription(s))
  /\ \A s \in Subs, i \in Relays : WF_vars(RelayRead(s, i) \/ RelayExit(s, i))
  /\ \A d \in Dispatchers :
       /\ \A s \in Subs, i \in Relays : WF_vars(DispatchEvent(d, s, i))
       /\ WF_vars(DispatchTimeout(d)) /\ WF_vars(DispatchExit(d))
  /\ \A p \in Processors :
       /\ WF_vars(\/ ProcessorTake(p) \/ ProcessorSuspended(p)
                  \/ ProcessorUpdated(p) \/ ProcessorExit(p)
                  \/ ProcessBatch(p) \/ PerformAction(p)
                  \/ AttemptOK(p) \/ AttemptRetry(p) \/ AttemptFail(p)
                  \/ ReleaseBatch(p) \/ AckBatch(p))
       /\ SF_vars(AttemptOK(p) \/ AttemptFail(p))

\* The client takes a batch that is sent to it again and again.
ClientRecovers == \A p \in Processors : SF_vars(AttemptOK(p))

\* A suspended stream is eventually resumed.
OperatorResumes == WF_vars(Resume)

LiveSpec == Spec /\ Fairness /\ ClientRecovers /\ OperatorResumes

-----------------------------------------------------------------------------
(* Properties                                                              *)

StreamTypeOK ==
  /\ suspended \in BOOLEAN /\ stopped \in BOOLEAN
  /\ batchSize \in BatchSizes /\ errorHandling \in ErrorHandlings
  /\ updateInProgress \in BOOLEAN
  /\ gen \in Gens /\ closed \subseteq Gens /\ updater \subseteq Gens
  /\ wg \in [Gens -> Int]
  /\ inFlight \in Int
  /\ batchQueue \in Seq(Seq(Event))
  /\ pollerDone \in BOOLEAN /\ processorDone \in BOOLEAN

PollTypeOK ==
  /\ pollPC \in {"top", "subs", "call", "wait", "done"}
  /\ pollWG \in Gens
  /\ pollSubs \subseteq Subs /\ pollTodo \subseteq Subs /\ pollCall \subseteq Subs
  /\ pollSince \in Nat
  /\ checkpoint \in [Subs -> Nat \cup {Absent}]

BatchTypeOK ==
  /\ dispOn \in [Dispatchers -> BOOLEAN]
  /\ currentBatch \in [Dispatchers -> Seq(Event)]
  /\ watch \in [Dispatchers -> Gens] /\ dispWG \in [Dispatchers -> Gens]
  /\ procPC \in [Processors -> {"off", "idle", "loop", "retry", "sent", "processed",
                                "abandoned", "ack", "exiting", "stuck"}]
  /\ procBatch \in [Processors -> Seq(Event)]
  /\ procErr \in [Processors -> BOOLEAN]
  /\ batchWG \in [Processors -> Gens] /\ actionWG \in [Processors -> Gens]

SubStates == {"new", "active", "deleted"}
             \cup (IF "recovery" \in Faults THEN {"recovering"} ELSE {})

SubTypeOK ==
  /\ subState \in [Subs -> SubStates]
  /\ fromBlock \in [Subs -> Nat \cup {Newest}]
  /\ hwm \in [Subs -> Nat]
  /\ filterStale \in [Subs -> BOOLEAN]
  /\ resetRequested \in [Subs -> BOOLEAN]
  /\ stored \in [Subs -> Nat \cup {Absent}]

SdkTypeOK ==
  /\ chanOpen \in [Subs -> BOOLEAN] /\ chanNext \in [Subs -> Nat \ {0}]
  /\ chanLast \in [Subs -> Nat]
  /\ \A s \in Subs : chanNext[s] <= Len(BlockOf[s]) + 1 /\ chanLast[s] <= Len(BlockOf[s])
  /\ relay \in [Subs -> [Relays -> {Off} \cup Nat]]
  /\ \A s \in Subs, i \in Relays : relay[s][i] <= Len(BlockOf[s])

\* Every variable has its type: in particular a relay, a batch or the queue
\* holds only events of the chain, and marks and checkpoints are block heights.
TypeOK ==
  /\ height \in 1..MaxHeight
  /\ StreamTypeOK /\ PollTypeOK /\ BatchTypeOK /\ SubTypeOK /\ SdkTypeOK
  /\ owed \in [Subs -> SUBSET Nat]
  /\ ops \in [OpNames -> Nat]

\* No event is lost across a crash: the checkpoint in LevelDB, from which a
\* restarted process subscribes, never lies beyond an event a subscription
\* has still to be given.
CheckpointCoversOwed ==
  \A s \in Active : \A n \in owed[s] : BlockOf[s][n] >= stored[s]

\* A reset takes effect for good: after the cycle that carried it out, the
\* persisted checkpoint does not lie beyond the events to be given again.
ResetHonoured == pollPC = "wait" => CheckpointCoversOwed

\* Events are given to the client in chain order: what is still owed to a
\* subscription is later than what a step has handed over or skipped.
InOrder ==
  [][\A s \in Active : \A m \in owed[s] \ owed'[s], n \in owed'[s] : m < n]_vars

\* The persisted checkpoint of a subscription never moves back, whatever the
\* stream goes through, unless a reset was requested.
CheckpointMonotonic ==
  [][ops["reset"] > 0 \/ \A s \in Active : stored'[s] >= stored[s]]_vars

\* Nothing has been read from Fabric since the process started: no filter is
\* live, and no event is with a relay, in a batch or counted in flight.
Quiet ==
  /\ inFlight = 0 /\ batchQueue = <<>>
  /\ \A s \in Subs : filterStale[s] /\ \A i \in Relays : relay[s][i] = Off
  /\ \A d \in Dispatchers : currentBatch[d] = <<>>
  /\ \A p \in Processors : procBatch[p] = <<>> /\ procPC[p] \in {"idle", "exiting", "off", "stuck"}

\* A restarted process has yet to set the mark of s from its checkpoint.
Restoring(s) ==
  \/ Quiet /\ NoCheckpoint /\ pollPC \in {"top", "wait", "done"}
  \/ /\ pollPC \in {"subs", "call"} /\ s \in pollTodo
     /\ checkpoint[s] = stored[s] /\ filterStale[s]

MarkCovers == \A s \in Active : stored[s] <= hwm[s] \/ Restoring(s)

MapCovers ==
  pollPC \in {"subs", "call"} \/ ~NoCheckpoint => \A s \in Active : stored[s] <= checkpoint[s]

NewIsBlank ==
  \A s \in Subs :
    /\ subState[s] = "new" =>
         checkpoint[s] = Absent /\ stored[s] = Absent /\ s \notin pollSubs
    /\ pollPC \in {"subs", "call"} /\ s \in Active \ pollSubs => checkpoint[s] = Absent

\* Why the persisted checkpoint never moves back: before it is written every
\* mark has been restored to it, since a restarted process reads nothing from
\* Fabric, and so is not blocked, before it visits its subscriptions; and the
\* poller's map never falls behind what is in LevelDB.
MarksAheadOfCheckpoint ==
  /\ NewIsBlank
  /\ pollPC = "call" => pollCall \cap pollTodo = {}
  /\ ops["reset"] = 0 => /\ \A s \in Subs : ~resetRequested[s]
                         /\ MarkCovers /\ MapCovers

\* The places of the events in a family of batches: whose batch it is, and
\* where in the batch.
Places(batches) == UNION {{x} \X DOMAIN batches[x] : x \in DOMAIN batches}

\* The batches that processors have still to take off inFlight.
Undelivered == [p \in Processors |-> IF procPC[p] = "ack" THEN <<>> ELSE procBatch[p]]

\* The number of events the stream holds: in a dispatcher's current batch, in
\* the queue, or in the batch a processor has yet to deliver.
Held ==
  Cardinality(Places(currentBatch)) + Cardinality(Places(batchQueue))
    + Cardinality(Places(Undelivered))

\* inFlight, an unsigned counter, never drops below the events held, so taking
\* a processed batch off it cannot wrap around to a huge value that would
\* block the poller for good.
InFlightCovers == inFlight >= Held

\* The poller's back-pressure is exact: inFlight counts the events held.
InFlightExact == inFlight = Held

AtMostOneProcessor ==
  Cardinality({p \in Processors : procPC[p] \notin {"off", "exiting"}}) <= 1

\* At most one processor works on batches, so batches are delivered one after
\* the other: resume refuses to start one while another is active.  (An update
\* before the resume can make it mistaken.)
ResumeKeepsOneProcessor == ops["update"] = 0 => AtMostOneProcessor

\* At most one dispatcher collects events, so that the events of a
\* subscription reach the queue in the order its relay sends them: resume
\* relies on the dispatcher that survived the suspension.
AtMostOneDispatcher == Cardinality({d \in Dispatchers : dispOn[d]}) <= 1

\* An update starts its fresh round of goroutines only when those of the round
\* before are gone.
OneRoundOfHandlers == AtMostOneProcessor /\ AtMostOneDispatcher

\* No WaitGroup counter goes negative, which would panic the process.  (A resume
\* between two updates can make it: a processor calls Done on the WaitGroup that
\* is current when it ends, and resume may have started a second one.)
NoNegativeWaitGroup == \A g \in Gens : wg[g] >= 0

\* No relay is left sending on the event channel that stop has closed, which
\* would panic the process.
NoSendOnClosedChannel ==
  stopped => \A s \in Subs, i \in Relays : relay[s][i] <= Idle

\* Every event owed to a subscription, also one just added or reset, is
\* eventually handed to the client or skipped, unless the stream is stopped or
\* the subscription deleted.
EventuallyHandled ==
  \A s \in Subs : (s \in Active /\ owed[s] # {}) ~> (owed[s] = {} \/ stopped \/ s \notin Active)

\* A stopped stream comes to rest, unless the process restarts: the poller, the
\* dispatcher and the processor, wherever they are, pick up the flag and return.
StopTerminates ==
  stopped ~> \/ ~stopped
             \/ /\ pollPC = "done"
                /\ \A d \in Dispatchers : ~dispOn[d]
                /\ \A p \in Processors : procPC[p] = "off"

\* An update of the stream eventually ends.
UpdateCompletes == updateInProgress ~> ~updateInProgress

=============================================================================
