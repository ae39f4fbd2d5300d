---------------------- MODULE EventStreamCountProofs ----------------------
(***************************************************************************)
(* What holds of an event stream for every set of subscriptions, every     *)
(* chain and every value of the bounds: its rounds of goroutines are kept  *)
(* apart and its WaitGroups count them, and inFlight counts the events it  *)
(* holds.                                                                  *)
(***************************************************************************)
EXTENDS EventStreamProofs, FiniteSetTheorems

-----------------------------------------------------------------------------
(* The rounds of goroutines.                                               *)

Working == {p \in Processors : procPC[p] \notin {"off", "exiting"}}
Alive   == {p \in Processors : procPC[p] # "off"}

\* What counts the processor in the current WaitGroup: no update came between
\* a resume and the round that runs, or the update of it has begun.
Coherent == ops["resume"] = 0 \/ ops["update"] = 0 \/ gen \in closed
Few      == ops["resume"] = 0 \/ ops["update"] <= 1

Roles == {"poller", "dispatcher", "processor", "batch", "action"}
Slots == Dispatchers \cup Processors

\* WaitGroup g waits for goroutine x in role k: processBatch and
\* performActionWithRetry count themselves while they run.
WaitsFor(k, x, g) ==
  \/ k = "poller" /\ x = 1 /\ pollPC # "done" /\ pollWG = g
  \/ k = "dispatcher" /\ x \in Dispatchers /\ dispOn[x] /\ dispWG[x] = g
  \/ k = "processor" /\ x \in Working /\ Coherent /\ gen = g
  \/ /\ k = "batch" /\ x \in Processors /\ batchWG[x] = g
     /\ procPC[x] \in {"loop", "retry", "sent", "processed", "abandoned", "ack"}
  \/ /\ k = "action" /\ x \in Processors /\ actionWG[x] = g
     /\ procPC[x] \in {"retry", "sent"}

Waited(g) == {t \in Roles \X Slots : WaitsFor(t[1], t[2], g)}

Counted == \A g \in Gens : IsFiniteSet(Waited(g)) /\ Cardinality(Waited(g)) <= wg[g]

Bounded ==
  /\ closed \subseteq 0..gen /\ updater \subseteq 0..gen /\ pollWG <= gen
  /\ \A d \in Dispatchers : dispWG[d] <= gen
  /\ \A p \in Processors : batchWG[p] <= gen /\ actionWG[p] <= gen

\* Without an update, resume is right about the processor being gone.
NoUpdate ==
  ops["update"] = 0 => /\ updater = {} /\ closed = {} /\ ~updateInProgress
                       /\ \A p, q \in Alive : p = q
                       /\ processorDone => Alive = {}

\* Without a resume, every goroutine is of the current round.
NoResume ==
  ops["resume"] = 0 => /\ updater \subseteq {gen}
                       /\ \A d \in Dispatchers : dispOn[d] => dispWG[d] = gen

OneDispatcher ==
  ops["resume"] = 0 \/ ops["update"] = 0 =>
    \A c, d \in Dispatchers : dispOn[c] /\ dispOn[d] => c = d

OneProcessor == Few /\ Coherent => \A p, q \in Working : p = q

Rounds == /\ Bounded /\ NoUpdate /\ NoResume /\ OneDispatcher /\ OneProcessor
          /\ Few => Counted

-----------------------------------------------------------------------------
(* Counting.                                                               *)

\* A subset of a set counted by n is counted by n.
LEMMA FewerCounted ==
  ASSUME NEW S, NEW T, IsFiniteSet(S), T \subseteq S, NEW n \in Int, Cardinality(S) <= n
  PROVE  IsFiniteSet(T) /\ Cardinality(T) <= n
<1>1. IsFiniteSet(T) /\ Cardinality(T) <= Cardinality(S)
  BY FS_Subset, Zenon
<1>2. Cardinality(T) \in Nat /\ Cardinality(S) \in Nat
  BY <1>1, FS_CardinalityType, Zenon
<1> QED
  BY <1>1, <1>2

\* What is left without one element is counted by n - 1: Done.
LEMMA OneLessCounted ==
  ASSUME NEW S, NEW T, IsFiniteSet(S), NEW t \in S, T \subseteq S \ {t}, NEW n \in Int,
         Cardinality(S) <= n
  PROVE  IsFiniteSet(T) /\ Cardinality(T) <= n - 1
<1>1. IsFiniteSet(S \ {t}) /\ Cardinality(S \ {t}) = Cardinality(S) - 1
  BY FS_RemoveElement, Zenon
<1>2. Cardinality(S) \in Nat
  BY FS_CardinalityType, Zenon
<1>3. Cardinality(S \ {t}) <= n - 1 /\ n - 1 \in Int
  BY <1>1, <1>2
<1> QED
  BY <1>1, <1>3, FewerCounted, Zenon

\* With one element more, n + 1 counts it: Add.
LEMMA OneMoreCounted ==
  ASSUME NEW S, NEW T, NEW t, IsFiniteSet(S), T \subseteq S \cup {t}, NEW n \in Int,
         Cardinality(S) <= n
  PROVE  IsFiniteSet(T) /\ Cardinality(T) <= n + 1
<1>1. /\ IsFiniteSet(S \cup {t})
      /\ Cardinality(S \cup {t}) = Cardinality(S) \/ Cardinality(S \cup {t}) = Cardinality(S) + 1
  <2>1. CASE t \in S
    <3>1. S \cup {t} = S
      BY <2>1, Zenon
    <3> QED
      BY <3>1, Zenon
  <2>2. CASE t \notin S
    BY <2>2, FS_AddElement, Zenon
  <2> QED
    BY <2>1, <2>2, Zenon
<1>2. Cardinality(S) \in Nat
  BY FS_CardinalityType, Zenon
<1>3. Cardinality(S \cup {t}) <= n + 1 /\ n + 1 \in Int
  BY <1>1, <1>2
<1> QED
  BY <1>1, <1>3, FewerCounted, Zenon

\* Pairs and triples, for the goroutines of a fresh round.
LEMMA AtMostThree ==
  ASSUME NEW a, NEW b, NEW c
  PROVE  /\ \A T : T \subseteq {a, b} => IsFiniteSet(T) /\ Cardinality(T) <= 2
         /\ \A T : T \subseteq {a, b, c} => IsFiniteSet(T) /\ Cardinality(T) <= 3
<1>1. IsFiniteSet({}) /\ Cardinality({}) <= 0
  BY FS_EmptySet
<1>2. IsFiniteSet({a}) /\ Cardinality({a}) <= 1
  BY FS_Singleton
<1>3. IsFiniteSet({a, b}) /\ Cardinality({a, b}) <= 1 + 1
  <2>1. {a, b} \subseteq {a} \cup {b} /\ 1 \in Int
    OBVIOUS
  <2> QED
    BY <1>2, <2>1, OneMoreCounted, Zenon
<1>4. IsFiniteSet({a, b, c}) /\ Cardinality({a, b, c}) <= 2 + 1
  <2>1. {a, b, c} \subseteq {a, b} \cup {c} /\ 2 \in Int /\ 1 + 1 = 2
    OBVIOUS
  <2> QED
    BY <1>3, <2>1, OneMoreCounted, Zenon
<1> QED
  BY <1>3, <1>4, FewerCounted

-----------------------------------------------------------------------------
(* A step within the round.                                                *)

\* What of the types the rounds need.
LEMMA RoundTypes ==
  ASSUME TypeOK
  PROVE  /\ gen \in Nat /\ gen \in Gens /\ wg \in [Gens -> Int] /\ pollWG \in Gens
         /\ \A g \in Gens : g \in Nat
         /\ dispOn \in [Dispatchers -> BOOLEAN] /\ dispWG \in [Dispatchers -> Gens]
         /\ procPC \in [Processors -> {"off", "idle", "loop", "retry", "sent", "processed",
                                       "abandoned", "ack", "exiting", "stuck"}]
         /\ batchWG \in [Processors -> Gens] /\ actionWG \in [Processors -> Gens]
         /\ ops \in [OpNames -> Nat] /\ ops["resume"] \in Nat /\ ops["update"] \in Nat
<1>1. /\ gen \in Gens /\ wg \in [Gens -> Int] /\ pollWG \in Gens
      /\ dispOn \in [Dispatchers -> BOOLEAN] /\ dispWG \in [Dispatchers -> Gens]
      /\ procPC \in [Processors -> {"off", "idle", "loop", "retry", "sent", "processed",
                                    "abandoned", "ack", "exiting", "stuck"}]
      /\ batchWG \in [Processors -> Gens] /\ actionWG \in [Processors -> Gens]
      /\ ops \in [OpNames -> Nat]
  BY Zenon DEF TypeOK, StreamTypeOK, PollTypeOK, BatchTypeOK
<1>2. \A g \in Gens : g \in Nat
  BY BoundAssumption DEF Gens
<1>3. ops["resume"] \in Nat /\ ops["update"] \in Nat
  BY <1>1, Zenon DEF OpNames
<1> QED
  BY <1>1, <1>2, <1>3, Zenon

\* No handlers are started, and none of the goroutines there are comes to be
\* counted elsewhere.
Within ==
  /\ UNCHANGED <<gen, closed, updateInProgress>> /\ updater' \subseteq updater
  /\ ops'["resume"] = ops["resume"] /\ ops'["update"] = ops["update"] /\ Bounded'
  /\ \A d \in Dispatchers : dispOn'[d] => dispOn[d] /\ dispWG'[d] = dispWG[d]
  /\ Working' \subseteq Working /\ Alive' \subseteq Alive
  /\ ops["update"] = 0 /\ processorDone' => processorDone \/ \A p \in Alive : p \notin Alive'

\* A step within a round keeps the rounds, if the counting is right.
LEMMA WithinRound ==
  ASSUME Rounds, Within, Few => Counted'
  PROVE  Rounds'
<1>1. NoUpdate'
  BY Zenon DEF Rounds, Within, NoUpdate
<1>2. NoResume'
  BY Zenon DEF Rounds, Within, NoResume
<1>3. OneDispatcher'
  BY Zenon DEF Rounds, Within, OneDispatcher
<1>4. (Few' <=> Few) /\ (Coherent' <=> Coherent)
  BY Zenon DEF Within, Few, Coherent
<1>5. OneProcessor'
  BY <1>4, Zenon DEF Rounds, Within, OneProcessor
<1> QED
  BY <1>1, <1>2, <1>3, <1>4, <1>5, Zenon DEF Rounds, Within

\* Nobody new is waited for.
LEMMA CountedFrame ==
  ASSUME TypeOK, Counted, wg' = wg,
         \A k \in Roles, x \in Slots, g \in Gens : WaitsFor(k, x, g)' => WaitsFor(k, x, g)
  PROVE  Counted'
<1> SUFFICES ASSUME NEW g \in Gens
             PROVE  IsFiniteSet(Waited(g)') /\ Cardinality(Waited(g)') <= wg[g]
  BY Zenon DEF Counted
<1>1. Waited(g)' \subseteq Waited(g)
  BY Zenon DEF Waited
<1>2. IsFiniteSet(Waited(g)) /\ Cardinality(Waited(g)) <= wg[g] /\ wg[g] \in Int
  BY RoundTypes, Zenon DEF Counted
<1> QED
  BY <1>1, <1>2, FewerCounted, Zenon

\* Done is called by one that was waited for.
LEMMA CountedDone ==
  ASSUME TypeOK, Counted, NEW j \in Roles, NEW y \in Slots, NEW h \in Gens,
         wg'[h] = wg[h] - 1, \A g \in Gens \ {h} : wg'[g] = wg[g], WaitsFor(j, y, h),
         \A k \in Roles, x \in Slots, g \in Gens :
           WaitsFor(k, x, g)' => WaitsFor(k, x, g) /\ ~(k = j /\ x = y /\ g = h)
  PROVE  Counted'
<1> SUFFICES ASSUME NEW g \in Gens
             PROVE  IsFiniteSet(Waited(g)') /\ Cardinality(Waited(g)') <= wg'[g]
  BY Zenon DEF Counted
<1>1. IsFiniteSet(Waited(g)) /\ Cardinality(Waited(g)) <= wg[g] /\ wg[g] \in Int
  BY RoundTypes, Zenon DEF Counted
<1>2. CASE g = h
  <2>1. <<j, y>> \in Waited(g) /\ Waited(g)' \subseteq Waited(g) \ {<<j, y>>}
    BY <1>2 DEF Waited
  <2>2. IsFiniteSet(Waited(g)') /\ Cardinality(Waited(g)') <= wg[g] - 1
    BY <1>1, <2>1, OneLessCounted, Zenon
  <2> QED
    BY <1>2, <2>2, RoundTypes, Zenon
<1>3. CASE g # h
  <2>1. Waited(g)' \subseteq Waited(g)
    BY <1>3, Zenon DEF Waited
  <2>2. wg'[g] = wg[g]
    BY <1>3, RoundTypes, Zenon
  <2> QED
    BY <1>1, <2>1, <2>2, FewerCounted, Zenon
<1> QED
  BY <1>2, <1>3, Zenon

\* Add is called for one more.
LEMMA CountedAdd ==
  ASSUME TypeOK, Counted, NEW j \in Roles, NEW y \in Slots, NEW h \in Gens,
         wg'[h] = wg[h] + 1, \A g \in Gens \ {h} : wg'[g] = wg[g],
         \A k \in Roles, x \in Slots, g \in Gens :
           WaitsFor(k, x, g)' => WaitsFor(k, x, g) \/ (k = j /\ x = y /\ g = h)
  PROVE  Counted'
<1> SUFFICES ASSUME NEW g \in Gens
             PROVE  IsFiniteSet(Waited(g)') /\ Cardinality(Waited(g)') <= wg'[g]
  BY Zenon DEF Counted
<1>1. IsFiniteSet(Waited(g)) /\ Cardinality(Waited(g)) <= wg[g] /\ wg[g] \in Int
  BY RoundTypes, Zenon DEF Counted
<1>2. CASE g = h
  <2>1. Waited(g)' \subseteq Waited(g) \cup {<<j, y>>}
    BY <1>2 DEF Waited
  <2>2. IsFiniteSet(Waited(g)') /\ Cardinality(Waited(g)') <= wg[g] + 1
    BY <1>1, <2>1, OneMoreCounted, Zenon
  <2> QED
    BY <1>2, <2>2, RoundTypes, Zenon
<1>3. CASE g # h
  <2>1. Waited(g)' \subseteq Waited(g)
    BY <1>3, Zenon DEF Waited
  <2>2. wg'[g] = wg[g]
    BY <1>3, RoundTypes, Zenon
  <2> QED
    BY <1>1, <2>1, <2>2, FewerCounted, Zenon
<1> QED
  BY <1>2, <1>3, Zenon
-----------------------------------------------------------------------------
(* The goroutines.                                                         *)

\* The variables the rounds are about.
roundVars == <<updateVars, pollPC, pollWG, dispOn, dispWG, procPC, batchWG, actionWG,
               processorDone>>

\* A step that leaves the goroutines and the WaitGroups alone.
LEMMA RoundStutter ==
  ASSUME Rounds, UNCHANGED roundVars, ops'["resume"] = ops["resume"],
         ops'["update"] = ops["update"]
  PROVE  Rounds'
<1> USE DEF roundVars, updateVars
<1>1. Bounded' /\ NoUpdate' /\ NoResume' /\ OneDispatcher'
  BY Zenon DEF Rounds, Bounded, NoUpdate, NoResume, OneDispatcher, Alive
<1>2. (Few' <=> Few) /\ (Coherent' <=> Coherent) /\ Working' = Working
  BY Zenon DEF Few, Coherent, Working
<1>3. OneProcessor'
  BY <1>2, Zenon DEF Rounds, OneProcessor
<1>4. \A g : Waited(g)' = Waited(g)
  BY <1>2 DEF Waited, WaitsFor
<1>5. Counted => Counted'
  BY <1>4, Zenon DEF Counted
<1> QED
  BY <1>1, <1>2, <1>3, <1>5, Zenon DEF Rounds

\* The poller on its way through a cycle.
LEMMA RoundPoll ==
  ASSUME TypeOK, Rounds, pollPC # "done", pollPC' # "done", UNCHANGED <<updateVars, pollWG, dispOn,
         dispWG, procPC, batchWG, actionWG, processorDone, ops>>
  PROVE  Rounds'
<1>1. Within
  BY Zenon DEF Within, Rounds, Bounded, updateVars, Working, Alive
<1>2. \A k \in Roles, x \in Slots, g \in Gens : WaitsFor(k, x, g)' => WaitsFor(k, x, g)
  BY DEF WaitsFor, Working, Coherent, updateVars
<1>3. Counted => Counted'
  BY <1>2, CountedFrame, Zenon DEF updateVars
<1> QED
  BY <1>1, <1>3, WithinRound, Zenon DEF Rounds

\* eventPoller returns and calls Done on the WaitGroup it was started with.
LEMMA RoundPollExit ==
  ASSUME TypeOK, Rounds, PollExit
  PROVE  Rounds'
<1>1. /\ pollPC # "done" /\ pollPC' = "done" /\ pollWG' = 0 /\ WGDone(pollWG)
      /\ UNCHANGED <<gen, closed, updater, updateInProgress, dispOn, dispWG, procPC, batchWG,
                     actionWG, processorDone, ops>>
  BY Zenon DEF PollExit, dispVars, procVars
<1>2. Within
  BY <1>1, RoundTypes DEF Within, Rounds, Bounded, Working, Alive
<1>3. PICK h \in Gens : h = pollWG
  BY RoundTypes, Zenon
<1>4. WaitsFor("poller", 1, h)
  BY <1>1, <1>3, Zenon DEF WaitsFor
<1>5. \A k \in Roles, x \in Slots, g \in Gens :
        WaitsFor(k, x, g)' => WaitsFor(k, x, g) /\ ~(k = "poller" /\ x = 1 /\ g = h)
  BY <1>1 DEF WaitsFor, Working, Coherent
<1>6. Counted => Counted'
  <2>1. "poller" \in Roles /\ 1 \in Slots
    BY BoundAssumption, Zenon DEF Roles, Slots
  <2>2. wg'[h] = wg[h] - 1 /\ \A g \in Gens \ {h} : wg'[g] = wg[g]
    BY <1>1, <1>3, RoundTypes, Zenon DEF WGDone
  <2> QED
    BY <1>4, <1>5, <2>1, <2>2, CountedDone, Zenon
<1> QED
  BY <1>2, <1>6, WithinRound, Zenon DEF Rounds

\* batchDispatcher returns and calls Done on the WaitGroup it was started with.
LEMMA RoundDispatchExit ==
  ASSUME TypeOK, Rounds, NEW d \in Dispatchers, DispatchExit(d)
  PROVE  Rounds'
<1>1. /\ dispOn[d] /\ dispOn' = [dispOn EXCEPT ![d] = FALSE]
      /\ dispWG' = [dispWG EXCEPT ![d] = 0] /\ WGDone(dispWG[d])
      /\ UNCHANGED <<gen, closed, updater, updateInProgress, pollPC, pollWG, procPC, batchWG,
                     actionWG, processorDone, ops>>
  BY Zenon DEF DispatchExit, doneVars, pollVars, procVars
<1>2. /\ dispOn'[d] = FALSE /\ dispWG'[d] = 0
      /\ \A c \in Dispatchers \ {d} : dispOn'[c] = dispOn[c] /\ dispWG'[c] = dispWG[c]
  BY <1>1, RoundTypes, Zenon
<1>3. Within
  <2>1. Bounded'
    BY <1>1, <1>2, RoundTypes DEF Rounds, Bounded
  <2> QED
    BY <1>1, <1>2, <2>1, Zenon DEF Within, Working, Alive
<1>4. PICK h \in Gens : h = dispWG[d]
  BY RoundTypes, Zenon
<1>5. WaitsFor("dispatcher", d, h)
  BY <1>1, <1>4, Zenon DEF WaitsFor
<1>6. \A k \in Roles, x \in Slots, g \in Gens :
        WaitsFor(k, x, g)' => WaitsFor(k, x, g) /\ ~(k = "dispatcher" /\ x = d /\ g = h)
  BY <1>1, <1>2 DEF WaitsFor, Working, Coherent
<1>7. Counted => Counted'
  <2>1. "dispatcher" \in Roles /\ d \in Slots
    BY Zenon DEF Roles, Slots
  <2>2. wg'[h] = wg[h] - 1 /\ \A g \in Gens \ {h} : wg'[g] = wg[g]
    BY <1>1, <1>4, RoundTypes, Zenon DEF WGDone
  <2> QED
    BY <1>5, <1>6, <2>1, <2>2, CountedDone
<1> QED
  BY <1>3, <1>7, WithinRound, Zenon DEF Rounds

\* What a step of processor p leaves alone.
OnlyProcessor(p) ==
  /\ UNCHANGED <<gen, closed, updater, updateInProgress, pollPC, pollWG, dispOn, dispWG, ops>>
  /\ \A q \in Processors \ {p} : /\ procPC'[q] = procPC[q] /\ batchWG'[q] = batchWG[q]
                                 /\ actionWG'[q] = actionWG[q]

\* A step of one processor stays within the round.
LEMMA ProcessorWithin ==
  ASSUME TypeOK, Rounds, NEW p \in Processors, OnlyProcessor(p),
         batchWG'[p] <= gen, actionWG'[p] <= gen,
         p \in Working' => p \in Working, p \in Alive' => p \in Alive,
         ops["update"] = 0 /\ processorDone' =>
           processorDone \/ (p \notin Alive' /\ \A q \in Alive : q = p)
  PROVE  Within
<1>1. Bounded'
  BY Zenon DEF Rounds, Bounded, OnlyProcessor
<1>2. Working' \subseteq Working /\ Alive' \subseteq Alive
  BY Zenon DEF OnlyProcessor, Working, Alive
<1>3. ops["update"] = 0 /\ processorDone' => processorDone \/ \A q \in Alive : q \notin Alive'
  BY Zenon
<1> QED
  BY <1>1, <1>2, <1>3, Zenon DEF Within, OnlyProcessor

\* batchProcessor takes a batch: processBatch adds itself to the current WaitGroup.
LEMMA RoundProcessorTake ==
  ASSUME TypeOK, Rounds, NEW p \in Processors, ProcessorTake(p)
  PROVE  Rounds'
<1>1. /\ procPC[p] = "idle" /\ procPC' = [procPC EXCEPT ![p] = "loop"]
      /\ batchWG' = [batchWG EXCEPT ![p] = gen] /\ WGAdd(gen)
      /\ UNCHANGED <<gen, closed, updater, updateInProgress, pollPC, pollWG, dispOn, dispWG,
                     actionWG, processorDone, ops>>
  BY Zenon DEF ProcessorTake, doneVars, pollVars, dispVars
<1>2. OnlyProcessor(p) /\ procPC'[p] = "loop" /\ batchWG'[p] = gen /\ actionWG'[p] = actionWG[p]
  BY <1>1, RoundTypes, Zenon DEF OnlyProcessor
<1>3. Within
  <2>1. batchWG'[p] <= gen /\ actionWG'[p] <= gen
    BY <1>2, RoundTypes DEF Rounds, Bounded
  <2>2. p \in Working /\ p \in Alive
    BY <1>1, Zenon DEF Working, Alive
  <2>3. processorDone' => processorDone
    BY <1>1, Zenon
  <2> QED
    BY <1>2, <2>1, <2>2, <2>3, ProcessorWithin, Zenon
<1>4. PICK h \in Gens : h = gen
  BY RoundTypes, Zenon
<1>5. \A k \in Roles, x \in Slots, g \in Gens :
        WaitsFor(k, x, g)' => WaitsFor(k, x, g) \/ (k = "batch" /\ x = p /\ g = h)
  BY <1>1, <1>2, <1>4 DEF WaitsFor, Working, Coherent, OnlyProcessor
<1>6. Counted => Counted'
  <2>1. "batch" \in Roles /\ p \in Slots
    BY DEF Roles, Slots
  <2>2. wg'[h] = wg[h] + 1 /\ \A g \in Gens \ {h} : wg'[g] = wg[g]
    BY <1>1, <1>4, RoundTypes, Zenon DEF WGAdd
  <2> QED
    BY <1>5, <2>1, <2>2, CountedAdd
<1> QED
  BY <1>3, <1>6, WithinRound, Zenon DEF Rounds
BatchPC  == {"loop", "retry", "sent", "processed", "abandoned", "ack"}
ActionPC == {"retry", "sent"}

\* A step of a processor that calls neither Add nor Done.
LEMMA RoundProcessorQuiet ==
  ASSUME TypeOK, Rounds, NEW p \in Processors, OnlyProcessor(p),
         UNCHANGED <<wg, batchWG, actionWG, processorDone>>,
         procPC[p] \notin {"off", "exiting"}, procPC'[p] # "off",
         procPC'[p] \in BatchPC => procPC[p] \in BatchPC,
         procPC'[p] \in ActionPC => procPC[p] \in ActionPC
  PROVE  Rounds'
<1>1. Within
  <2>1. batchWG'[p] <= gen /\ actionWG'[p] <= gen
    BY Zenon DEF Rounds, Bounded
  <2>2. p \in Working /\ p \in Alive
    BY Zenon DEF Working, Alive
  <2>3. processorDone' => processorDone
    BY Zenon
  <2> QED
    BY <2>1, <2>2, <2>3, ProcessorWithin, Zenon
<1>2. \A k \in Roles, x \in Slots, g \in Gens : WaitsFor(k, x, g)' => WaitsFor(k, x, g)
  BY DEF WaitsFor, Working, Coherent, OnlyProcessor, BatchPC, ActionPC
<1>3. Counted => Counted'
  BY <1>2, CountedFrame, Zenon
<1> QED
  BY <1>1, <1>3, WithinRound, Zenon DEF Rounds

\* processBatch returns: it is counted until then.
LEMMA RoundBatchDone ==
  ASSUME TypeOK, Rounds, NEW p \in Processors, BatchDone(p), procPC[p] \in {"loop", "ack"},
         UNCHANGED <<gen, closed, updater, updateInProgress, pollPC, pollWG, dispOn, dispWG,
                     actionWG, processorDone, ops>>
  PROVE  Rounds'
<1>1. /\ OnlyProcessor(p) /\ procPC'[p] = "idle" /\ batchWG'[p] = 0
      /\ actionWG'[p] = actionWG[p]
  BY RoundTypes, Zenon DEF OnlyProcessor, BatchDone
<1>2. Within
  <2>1. batchWG'[p] <= gen /\ actionWG'[p] <= gen
    BY <1>1, RoundTypes DEF Rounds, Bounded
  <2>2. p \in Working /\ p \in Alive
    BY Zenon DEF Working, Alive
  <2>3. processorDone' => processorDone
    BY Zenon
  <2> QED
    BY <1>1, <2>1, <2>2, <2>3, ProcessorWithin, Zenon
<1>3. PICK h \in Gens : h = batchWG[p]
  BY RoundTypes, Zenon
<1>4. WaitsFor("batch", p, h)
  BY <1>3, Zenon DEF WaitsFor
<1>5. \A k \in Roles, x \in Slots, g \in Gens :
        WaitsFor(k, x, g)' => WaitsFor(k, x, g) /\ ~(k = "batch" /\ x = p /\ g = h)
  BY <1>1 DEF WaitsFor, Working, Coherent, OnlyProcessor
<1>6. Counted => Counted'
  <2>1. "batch" \in Roles /\ p \in Slots
    BY Zenon DEF Roles, Slots
  <2>2. wg'[h] = wg[h] - 1 /\ \A g \in Gens \ {h} : wg'[g] = wg[g]
    BY <1>3, RoundTypes, Zenon DEF BatchDone, WGDone
  <2> QED
    BY <1>4, <1>5, <2>1, <2>2, CountedDone, Zenon
<1> QED
  BY <1>2, <1>6, WithinRound, Zenon DEF Rounds

\* performActionWithRetry returns: so is it.
LEMMA RoundReturned ==
  ASSUME TypeOK, Rounds, NEW p \in Processors, NEW err \in BOOLEAN, Returned(p, err),
         procPC[p] \in ActionPC,
         UNCHANGED <<gen, closed, updater, updateInProgress, pollPC, pollWG, dispOn, dispWG,
                     batchWG, processorDone, ops>>
  PROVE  Rounds'
<1>1. /\ OnlyProcessor(p) /\ procPC'[p] \in {"loop", "processed"} /\ actionWG'[p] = 0
      /\ batchWG'[p] = batchWG[p]
  BY RoundTypes, Zenon DEF OnlyProcessor, Returned
<1>2. Within
  <2>1. batchWG'[p] <= gen /\ actionWG'[p] <= gen
    BY <1>1, RoundTypes DEF Rounds, Bounded
  <2>2. p \in Working /\ p \in Alive
    BY Zenon DEF Working, Alive, ActionPC
  <2>3. processorDone' => processorDone
    BY Zenon
  <2> QED
    BY <1>1, <2>1, <2>2, <2>3, ProcessorWithin, Zenon
<1>3. PICK h \in Gens : h = actionWG[p]
  BY RoundTypes, Zenon
<1>4. WaitsFor("action", p, h)
  BY <1>3, Zenon DEF WaitsFor, ActionPC
<1>5. \A k \in Roles, x \in Slots, g \in Gens :
        WaitsFor(k, x, g)' => WaitsFor(k, x, g) /\ ~(k = "action" /\ x = p /\ g = h)
  BY <1>1 DEF WaitsFor, Working, Coherent, OnlyProcessor, ActionPC
<1>6. Counted => Counted'
  <2>1. "action" \in Roles /\ p \in Slots
    BY Zenon DEF Roles, Slots
  <2>2. wg'[h] = wg[h] - 1 /\ \A g \in Gens \ {h} : wg'[g] = wg[g]
    BY <1>3, RoundTypes, Zenon DEF Returned, WGDone
  <2> QED
    BY <1>4, <1>5, <2>1, <2>2, CountedDone
<1> QED
  BY <1>2, <1>6, WithinRound, Zenon DEF Rounds

\* processBatch delivers or gives up; performActionWithRetry adds itself.
LEMMA RoundProcessBatch ==
  ASSUME TypeOK, Rounds, NEW p \in Processors, ProcessBatch(p)
  PROVE  Rounds'
<1>1. /\ procPC[p] = "loop"
      /\ UNCHANGED <<gen, closed, updater, updateInProgress, pollPC, pollWG, dispOn, dispWG,
                     processorDone, ops>>
  BY Zenon DEF ProcessBatch, doneVars, pollVars, dispVars
<1>2. CASE /\ procPC' = [procPC EXCEPT ![p] = "abandoned"]
           /\ UNCHANGED <<wg, batchWG, actionWG>>
  <2>1. OnlyProcessor(p) /\ procPC'[p] = "abandoned"
    BY <1>1, <1>2, RoundTypes, Zenon DEF OnlyProcessor
  <2> QED
    BY <1>1, <1>2, <2>1, RoundProcessorQuiet, Zenon DEF BatchPC, ActionPC
<1>3. CASE BatchDone(p) /\ UNCHANGED actionWG
  BY <1>1, <1>3, RoundBatchDone, Zenon
<1>4. CASE /\ procPC' = [procPC EXCEPT ![p] = "retry"] /\ WGAdd(gen)
           /\ actionWG' = [actionWG EXCEPT ![p] = gen] /\ UNCHANGED batchWG
  <2>1. OnlyProcessor(p) /\ procPC'[p] = "retry" /\ actionWG'[p] = gen /\ batchWG'[p] = batchWG[p]
    BY <1>1, <1>4, RoundTypes, Zenon DEF OnlyProcessor
  <2>2. Within
    <3>1. batchWG'[p] <= gen /\ actionWG'[p] <= gen
      BY <2>1, RoundTypes DEF Rounds, Bounded
    <3>2. p \in Working /\ p \in Alive
      BY <1>1, Zenon DEF Working, Alive
    <3>3. processorDone' => processorDone
      BY <1>1, Zenon
    <3> QED
      BY <2>1, <3>1, <3>2, <3>3, ProcessorWithin, Zenon
  <2>3. PICK h \in Gens : h = gen
    BY RoundTypes, Zenon
  <2>4. \A k \in Roles, x \in Slots, g \in Gens :
          WaitsFor(k, x, g)' => WaitsFor(k, x, g) \/ (k = "action" /\ x = p /\ g = h)
    BY <1>1, <1>4, <2>1, <2>3 DEF WaitsFor, Working, Coherent, OnlyProcessor
  <2>5. Counted => Counted'
    <3>1. "action" \in Roles /\ p \in Slots
      BY Zenon DEF Roles, Slots
    <3>2. wg'[h] = wg[h] + 1 /\ \A g \in Gens \ {h} : wg'[g] = wg[g]
      BY <1>4, <2>3, RoundTypes, Zenon DEF WGAdd
    <3> QED
      BY <2>4, <3>1, <3>2, CountedAdd
  <2> QED
    BY <2>2, <2>5, WithinRound, Zenon DEF Rounds
<1> QED
  BY <1>2, <1>3, <1>4, Zenon DEF ProcessBatch
\* The processor releases the WaitGroup of the moment, which waits for it if
\* the update that closed the interrupt found it in its round.
LEMMA RoundProcessorUpdated ==
  ASSUME TypeOK, Rounds, NEW p \in Processors, ProcessorUpdated(p)
  PROVE  Rounds'
<1>1. /\ procPC[p] = "idle"
      /\ UNCHANGED <<gen, closed, updater, updateInProgress, pollPC, pollWG, dispOn, dispWG,
                     batchWG, actionWG, processorDone, ops>>
  BY Zenon DEF ProcessorUpdated, doneVars, pollVars, dispVars
<1>2. CASE procPC' = [procPC EXCEPT ![p] = "stuck"] /\ UNCHANGED wg
  <2>1. OnlyProcessor(p) /\ procPC'[p] = "stuck"
    BY <1>1, <1>2, RoundTypes, Zenon DEF OnlyProcessor
  <2> QED
    BY <1>1, <1>2, <2>1, RoundProcessorQuiet, Zenon DEF BatchPC, ActionPC
<1>3. CASE Interrupted /\ procPC' = [procPC EXCEPT ![p] = "exiting"] /\ WGDone(gen)
  <2>1. OnlyProcessor(p) /\ procPC'[p] = "exiting"
    BY <1>1, <1>3, RoundTypes, Zenon DEF OnlyProcessor
  <2>2. Within
    <3>1. batchWG'[p] <= gen /\ actionWG'[p] <= gen
      BY <1>1, Zenon DEF Rounds, Bounded
    <3>2. p \in Working /\ p \in Alive
      BY <1>1, Zenon DEF Working, Alive
    <3>3. processorDone' => processorDone
      BY <1>1, Zenon
    <3> QED
      BY <2>1, <3>1, <3>2, <3>3, ProcessorWithin, Zenon
  <2>3. PICK h \in Gens : h = gen
    BY RoundTypes, Zenon
  <2>4. WaitsFor("processor", p, h)
    BY <1>1, <1>3, <2>3, Zenon DEF WaitsFor, Working, Coherent, Interrupted
  <2>5. \A k \in Roles, x \in Slots, g \in Gens :
          WaitsFor(k, x, g)' => WaitsFor(k, x, g) /\ ~(k = "processor" /\ x = p /\ g = h)
    BY <1>1, <2>1 DEF WaitsFor, Working, Coherent, OnlyProcessor
  <2>6. Counted => Counted'
    <3>1. "processor" \in Roles /\ p \in Slots
      BY Zenon DEF Roles, Slots
    <3>2. wg'[h] = wg[h] - 1 /\ \A g \in Gens \ {h} : wg'[g] = wg[g]
      BY <1>3, <2>3, RoundTypes, Zenon DEF WGDone
    <3> QED
      BY <2>4, <2>5, <3>1, <3>2, CountedDone
  <2> QED
    BY <2>2, <2>6, WithinRound, Zenon DEF Rounds
<1> QED
  BY <1>2, <1>3, Zenon DEF ProcessorUpdated

\* A processor that ends after an update calls Done on the current WaitGroup.
LEMMA RoundProcessorExit ==
  ASSUME TypeOK, Rounds, NEW p \in Processors, ProcessorExit(p)
  PROVE  Rounds'
<1>1. /\ procPC[p] = "exiting" /\ procPC' = [procPC EXCEPT ![p] = "off"]
      /\ UNCHANGED <<gen, closed, updater, updateInProgress, wg, pollPC, pollWG, dispOn, dispWG,
                     batchWG, actionWG, ops>>
  BY Zenon DEF ProcessorExit, updateVars, pollVars, dispVars
<1>2. OnlyProcessor(p) /\ procPC'[p] = "off"
  BY <1>1, RoundTypes, Zenon DEF OnlyProcessor
<1>3. Within
  <2>1. batchWG'[p] <= gen /\ actionWG'[p] <= gen
    BY <1>1, Zenon DEF Rounds, Bounded
  <2>2. p \in Alive /\ p \notin Alive' /\ p \notin Working'
    BY <1>1, <1>2, Zenon DEF Working, Alive
  <2>3. ops["update"] = 0 => \A q \in Alive : q = p
    BY <2>2, Zenon DEF Rounds, NoUpdate
  <2> QED
    BY <1>2, <2>1, <2>2, <2>3, ProcessorWithin, Zenon
<1>4. \A k \in Roles, x \in Slots, g \in Gens : WaitsFor(k, x, g)' => WaitsFor(k, x, g)
  BY <1>1, <1>2 DEF WaitsFor, Working, Coherent, OnlyProcessor
<1>5. Counted => Counted'
  BY <1>1, <1>4, CountedFrame, Zenon
<1> QED
  BY <1>3, <1>5, WithinRound, Zenon DEF Rounds

\* performActionWithRetry returns and calls Done on the WaitGroup it was added to.
LEMMA RoundPerformAction ==
  ASSUME TypeOK, Rounds, NEW p \in Processors,
         PerformAction(p) \/ AttemptOK(p) \/ AttemptFail(p)
  PROVE  Rounds'
<1>1. /\ procPC[p] \in ActionPC
      /\ UNCHANGED <<gen, closed, updater, updateInProgress, pollPC, pollWG, dispOn, dispWG,
                     batchWG, processorDone, ops>>
  BY Zenon DEF PerformAction, AttemptOK, AttemptFail, doneVars, pollVars, dispVars, ActionPC
<1>2. CASE procPC' = [procPC EXCEPT ![p] = "sent"] /\ UNCHANGED <<wg, actionWG>>
  <2>1. OnlyProcessor(p) /\ procPC'[p] = "sent"
    BY <1>1, <1>2, RoundTypes, Zenon DEF OnlyProcessor
  <2> QED
    BY <1>1, <1>2, <2>1, RoundProcessorQuiet, Zenon DEF BatchPC, ActionPC
<1>3. ASSUME NEW err \in BOOLEAN, Returned(p, err) PROVE Rounds'
  BY <1>1, <1>3, RoundReturned, Zenon
<1>4. \/ procPC' = [procPC EXCEPT ![p] = "sent"] /\ UNCHANGED <<wg, actionWG>>
      \/ Returned(p, procErr[p]) \/ Returned(p, FALSE) \/ Returned(p, TRUE)
  BY Zenon DEF PerformAction, AttemptOK, AttemptFail
<1>5. PICK e \in BOOLEAN : e = procErr[p]
  BY Zenon DEF TypeOK, BatchTypeOK
<1> QED
  BY <1>2, <1>3, <1>4, <1>5, Zenon

\* Every step of a batch processor.
LEMMA RoundProcessing ==
  ASSUME TypeOK, Rounds, Processing
  PROVE  Rounds'
<1> SUFFICES ASSUME NEW p \in Processors,
                    ProcessorSuspended(p) \/ AttemptRetry(p) \/ ReleaseBatch(p) \/ AckBatch(p)
             PROVE  Rounds'
  BY RoundProcessorTake, RoundProcessorUpdated, RoundProcessorExit, RoundProcessBatch,
     RoundPerformAction, Zenon DEF Processing
<1>1. CASE AckBatch(p)
  BY <1>1, RoundBatchDone, Zenon DEF AckBatch, doneVars, pollVars, dispVars
<1>2. CASE ProcessorSuspended(p) \/ AttemptRetry(p) \/ ReleaseBatch(p)
  <2>1. /\ UNCHANGED <<gen, closed, updater, updateInProgress, wg, pollPC, pollWG, dispOn,
                       dispWG, batchWG, actionWG, processorDone, ops>>
        /\ \/ procPC[p] = "idle" /\ procPC' = [procPC EXCEPT ![p] = "exiting"]
           \/ procPC[p] = "sent" /\ procPC' = [procPC EXCEPT ![p] = "retry"]
           \/ procPC[p] \in {"processed", "abandoned"} /\ procPC' = [procPC EXCEPT ![p] = "ack"]
    BY <1>2, Zenon DEF ProcessorSuspended, AttemptRetry, ReleaseBatch, updateVars, doneVars, pollVars,
       dispVars
  <2>2. /\ OnlyProcessor(p)
        /\ \/ procPC[p] = "idle" /\ procPC'[p] = "exiting"
           \/ procPC[p] = "sent" /\ procPC'[p] = "retry"
           \/ procPC[p] \in {"processed", "abandoned"} /\ procPC'[p] = "ack"
    BY <2>1, RoundTypes, Zenon DEF OnlyProcessor
  <2> QED
    BY <2>1, <2>2, RoundProcessorQuiet, Zenon DEF BatchPC, ActionPC
<1> QED
  BY <1>1, <1>2, Zenon
-----------------------------------------------------------------------------
(* A new round.                                                            *)

\* A WaitGroup at zero waits for nobody.
LEMMA NobodyWaited ==
  ASSUME TypeOK, Counted, NEW h \in Gens, wg[h] = 0
  PROVE  \A k \in Roles, x \in Slots : ~WaitsFor(k, x, h)
<1>1. IsFiniteSet(Waited(h)) /\ Cardinality(Waited(h)) <= 0
  BY Zenon DEF Counted
<1>2. Cardinality(Waited(h)) \in Nat
  BY <1>1, FS_CardinalityType, Zenon
<1>3. Waited(h) = {}
  BY <1>1, <1>2, FS_EmptySet
<1>4. \A k \in Roles, x \in Slots : WaitsFor(k, x, h) => <<k, x>> \in Waited(h)
  BY Zenon DEF Waited
<1> QED
  BY <1>3, <1>4, Zenon

\* startEventHandlers counts what it starts in a WaitGroup nobody uses yet.
LEMMA StartCounted ==
  ASSUME TypeOK, TypeOK', Rounds, Counted, NEW resume \in BOOLEAN, StartEventHandlers(resume),
         Coherent' => Working = {}
  PROVE  Counted'
<1>1. PICK h \in Gens : h = gen + 1
  BY Zenon DEF StartEventHandlers
<1>2. PICK p \in Processors : procPC[p] = "off" /\ procPC' = [procPC EXCEPT ![p] = "idle"]
  BY Zenon DEF StartEventHandlers
<1>3. /\ wg' = [wg EXCEPT ![h] = IF resume THEN 2 ELSE 3] /\ gen' = h
      /\ pollWG' = h /\ UNCHANGED <<batchWG, actionWG>>
  BY <1>1, Zenon DEF StartEventHandlers
<1>4. /\ procPC'[p] = "idle"
      /\ \A q \in Processors \ {p} : procPC'[q] = procPC[q]
  BY <1>2, RoundTypes, Zenon
<1>5. ASSUME NEW k \in Roles, NEW x \in Slots, NEW g \in Gens, WaitsFor(k, x, g)', g # h
      PROVE  WaitsFor(k, x, g)
  <2>1. CASE k = "dispatcher"
    <3>1. x \in Dispatchers /\ dispOn'[x] /\ dispWG'[x] = g
      BY <1>5, <2>1, Zenon DEF WaitsFor
    <3>2. dispOn[x] /\ dispWG[x] = g
      BY <1>1, <1>5, <3>1, RoundTypes, Zenon DEF StartEventHandlers, dispVars
    <3> QED
      BY <2>1, <3>1, <3>2, Zenon DEF WaitsFor
  <2>2. CASE k # "dispatcher"
    BY <1>3, <1>4, <1>5, <2>2, Zenon DEF WaitsFor
  <2> QED
    BY <2>1, <2>2, Zenon
<1>6. ASSUME NEW k \in Roles, NEW x \in Slots, WaitsFor(k, x, h)'
      PROVE  \/ k = "poller" /\ x = 1
             \/ k = "processor" /\ x = p
             \/ k = "dispatcher" /\ ~resume /\ dispOn'[x] /\ x \in Dispatchers /\ dispWG'[x] = h
  <2>1. \A q \in Processors : batchWG[q] # h /\ actionWG[q] # h
    BY <1>1, RoundTypes DEF Rounds, Bounded
  <2>2. \A d \in Dispatchers : dispWG[d] # h
    BY <1>1, RoundTypes DEF Rounds, Bounded
  <2>3. resume => dispWG' = dispWG
    BY Zenon DEF StartEventHandlers, dispVars
  <2>4. CASE k = "processor"
    <3>1. x \in Processors /\ procPC'[x] \notin {"off", "exiting"} /\ Coherent'
      BY <1>6, <2>4, Zenon DEF WaitsFor, Working
    <3>2. x # p => x \in Working
      BY <1>4, <3>1, Zenon DEF Working
    <3> QED
      BY <2>4, <3>1, <3>2, Zenon
  <2>5. CASE k # "processor"
    BY <1>3, <1>6, <2>1, <2>2, <2>3, <2>5, Zenon DEF WaitsFor
  <2> QED
    BY <2>4, <2>5, Zenon
<1>7. PICK d : ~resume => \A x \in Dispatchers : dispWG'[x] = h => x = d
  <2>1. CASE resume
    BY <2>1, Zenon
  <2>2. CASE ~resume
    <3>1. PICK d \in Dispatchers : dispWG' = [dispWG EXCEPT ![d] = h]
      BY <1>1, <2>2, Zenon DEF StartEventHandlers
    <3>2. \A x \in Dispatchers : dispWG'[x] = h => x = d
      BY <1>1, <3>1, RoundTypes DEF Rounds, Bounded
    <3> QED
      BY <3>2, Zenon
  <2> QED
    BY <2>1, <2>2, Zenon
<1>8. Waited(h)' \subseteq IF resume THEN {<<"poller", 1>>, <<"processor", p>>}
                           ELSE {<<"poller", 1>>, <<"processor", p>>, <<"dispatcher", d>>}
  BY <1>6, <1>7 DEF Waited
<1>9. IsFiniteSet(Waited(h)') /\ Cardinality(Waited(h)') <= wg'[h]
  <2>1. wg'[h] = IF resume THEN 2 ELSE 3
    BY <1>3, RoundTypes, Zenon
  <2> QED
    BY <1>8, <2>1, AtMostThree, Zenon
<1>10. ASSUME NEW g \in Gens, g # h
       PROVE  IsFiniteSet(Waited(g)') /\ Cardinality(Waited(g)') <= wg'[g]
  <2>1. Waited(g)' \subseteq Waited(g)
    BY <1>5, <1>10, Zenon DEF Waited
  <2>2. wg'[g] = wg[g] /\ wg[g] \in Int
    BY <1>3, <1>10, RoundTypes, Zenon
  <2>3. IsFiniteSet(Waited(g)) /\ Cardinality(Waited(g)) <= wg[g]
    BY Zenon DEF Counted
  <2> QED
    BY <2>1, <2>2, <2>3, FewerCounted, Zenon
<1> QED
  BY <1>9, <1>10, Zenon DEF Counted

\* startEventHandlers uses a WaitGroup that no goroutine knows yet.
LEMMA StartBounded ==
  ASSUME TypeOK, Rounds, NEW resume \in BOOLEAN, StartEventHandlers(resume), closed' = closed,
         updater' \subseteq updater
  PROVE  Bounded'
<1>1. gen' = gen + 1 /\ pollWG' = gen + 1 /\ gen \in Nat
  BY RoundTypes, Zenon DEF StartEventHandlers
<1>2. closed' \subseteq 0..gen' /\ updater' \subseteq 0..gen' /\ pollWG' <= gen'
  BY <1>1 DEF Rounds, Bounded
<1>3. \A p \in Processors : batchWG'[p] <= gen' /\ actionWG'[p] <= gen'
  <2>1. \A p \in Processors : batchWG[p] \in Nat /\ actionWG[p] \in Nat
    BY RoundTypes, Zenon
  <2>2. UNCHANGED <<batchWG, actionWG>>
    BY Zenon DEF StartEventHandlers
  <2> QED
    BY <1>1, <2>1, <2>2 DEF Rounds, Bounded
<1>4. \A d \in Dispatchers : dispWG'[d] <= gen'
  <2>1. \A d \in Dispatchers : dispWG[d] \in Nat /\ dispWG[d] <= gen
    BY RoundTypes, Zenon DEF Rounds, Bounded
  <2>2. \A d \in Dispatchers : dispWG'[d] = dispWG[d] \/ dispWG'[d] = gen + 1
    BY RoundTypes, Zenon DEF StartEventHandlers, dispVars
  <2> QED
    BY <1>1, <2>1, <2>2
<1> QED
  BY <1>2, <1>3, <1>4, Zenon DEF Bounded

\* The processor that is started.
LEMMA StartProcessor ==
  ASSUME TypeOK, NEW resume \in BOOLEAN, StartEventHandlers(resume)
  PROVE  \E p \in Processors : Working' = Working \cup {p} /\ Alive' = Alive \cup {p}
<1>1. PICK p \in Processors : procPC[p] = "off" /\ procPC' = [procPC EXCEPT ![p] = "idle"]
  BY Zenon DEF StartEventHandlers
<1>2. procPC'[p] = "idle" /\ \A q \in Processors \ {p} : procPC'[q] = procPC[q]
  BY <1>1, RoundTypes, Zenon
<1>3. Working' = Working \cup {p} /\ Alive' = Alive \cup {p}
  BY <1>2, Zenon DEF Working, Alive
<1> QED
  BY <1>3, Zenon
LEMMA RoundResume ==
  ASSUME TypeOK, TypeOK', Rounds, Resume
  PROVE  Rounds'
<1>1. /\ StartEventHandlers(TRUE) /\ processorDone /\ processorDone' = FALSE
      /\ gen' = gen + 1 /\ UNCHANGED <<closed, updater, updateInProgress, dispOn, dispWG>>
  BY Zenon DEF Resume, StartEventHandlers, dispVars
<1>2. ops'["resume"] = ops["resume"] + 1 /\ ops'["update"] = ops["update"]
  BY RoundTypes, Zenon DEF Resume, Count, OpNames
<1>3. ops'["resume"] # 0 /\ (Few' => Few) /\ gen' \notin closed'
  BY <1>1, <1>2, RoundTypes DEF Few, Rounds, Bounded
<1>4. ops["update"] = 0 => Alive = {} /\ Working = {}
  BY <1>1, Zenon DEF Rounds, NoUpdate, Working, Alive
<1>5. Coherent' => ops["update"] = 0
  BY <1>2, <1>3, Zenon DEF Coherent
<1>6. PICK p \in Processors : Working' = Working \cup {p} /\ Alive' = Alive \cup {p}
  BY <1>1, StartProcessor, Zenon
<1>7. Bounded'
  BY <1>1, StartBounded, Zenon
<1>8. NoUpdate'
  BY <1>1, <1>2, <1>4, <1>6, Zenon DEF Rounds, NoUpdate
<1>9. NoResume' /\ OneDispatcher'
  BY <1>1, <1>2, <1>3, Zenon DEF Rounds, NoResume, OneDispatcher
<1>10. OneProcessor'
  BY <1>4, <1>5, <1>6, Zenon DEF OneProcessor
<1>11. Few' => Counted'
  BY <1>1, <1>3, <1>4, <1>5, StartCounted, Zenon DEF Rounds
<1> QED
  BY <1>7, <1>8, <1>9, <1>10, <1>11, Zenon DEF Rounds

\* The WaitGroup at zero says that nobody of the round is left, if it is the
\* current one.
LEMMA RoundUpdateFinish ==
  ASSUME TypeOK, TypeOK', Rounds, UpdateFinish
  PROVE  Rounds'
<1>1. /\ StartEventHandlers(FALSE) /\ gen' = gen + 1 /\ updater' = {}
      /\ UNCHANGED <<closed, ops>>
  BY Zenon DEF UpdateFinish, StartEventHandlers
<1>2. updater # {} /\ ops["update"] # 0
  BY Zenon DEF UpdateFinish, Rounds, NoUpdate
<1>3. gen' \notin closed' /\ (Few' <=> Few)
  BY <1>1, RoundTypes DEF Few, Rounds, Bounded
<1>4. Coherent' => ops["resume"] = 0
  BY <1>1, <1>2, <1>3, Zenon DEF Coherent
<1>5. ops["resume"] = 0 => Working = {} /\ \A d \in Dispatchers : ~dispOn[d]
  <2> SUFFICES ASSUME ops["resume"] = 0 PROVE Working = {} /\ \A d \in Dispatchers : ~dispOn[d]
    BY Zenon
  <2>1. PICK h \in Gens : h = gen
    BY RoundTypes, Zenon
  <2>2. wg[h] = 0
    BY <2>1, Zenon DEF UpdateFinish, Rounds, NoResume
  <2>3. Counted /\ Coherent
    BY Zenon DEF Rounds, Few, Coherent
  <2>4. \A k \in Roles, x \in Slots : ~WaitsFor(k, x, h)
    BY <2>2, <2>3, NobodyWaited, Zenon
  <2>5. \A x \in Working : WaitsFor("processor", x, h) /\ x \in Slots
    BY <2>1, <2>3, Zenon DEF WaitsFor, Slots, Working
  <2>6. \A d \in Dispatchers : dispOn[d] => WaitsFor("dispatcher", d, h) /\ d \in Slots
    BY <2>1, Zenon DEF WaitsFor, Slots, Rounds, NoResume
  <2>7. "processor" \in Roles /\ "dispatcher" \in Roles
    BY Zenon DEF Roles
  <2> QED
    BY <2>4, <2>5, <2>6, <2>7, Zenon
<1>6. PICK p \in Processors : Working' = Working \cup {p} /\ Alive' = Alive \cup {p}
  BY <1>1, StartProcessor, Zenon
<1>7. Bounded'
  BY <1>1, StartBounded, Zenon
<1>8. NoUpdate'
  BY <1>1, <1>2, Zenon DEF NoUpdate
<1>9. NoResume' /\ OneDispatcher'
  <2>1. PICK d \in Dispatchers : /\ dispOn' = [dispOn EXCEPT ![d] = TRUE]
                                 /\ dispWG' = [dispWG EXCEPT ![d] = gen + 1]
    BY <1>1, Zenon DEF StartEventHandlers
  <2>2. /\ dispWG'[d] = gen'
        /\ \A c \in Dispatchers \ {d} : dispOn'[c] = dispOn[c]
    BY <1>1, <2>1, RoundTypes, Zenon
  <2>3. ops["resume"] = 0 => \A c \in Dispatchers : dispOn'[c] => c = d
    BY <1>5, <2>2, Zenon
  <2> QED
    BY <1>1, <1>2, <2>2, <2>3, Zenon DEF NoResume, OneDispatcher
<1>10. OneProcessor'
  BY <1>4, <1>5, <1>6, Zenon DEF OneProcessor
<1>11. Few' => Counted'
  BY <1>1, <1>3, <1>4, <1>5, StartCounted, Zenon DEF Rounds
<1> QED
  BY <1>7, <1>8, <1>9, <1>10, <1>11, Zenon DEF Rounds

\* update closes the interrupt channel of the round it ends.
LEMMA RoundUpdateBegin ==
  ASSUME TypeOK, Rounds, UpdateBegin
  PROVE  Rounds'
<1>1. /\ closed' = closed \cup {gen} /\ updater' = {gen}
      /\ UNCHANGED <<gen, wg, pollPC, pollWG, dispOn, dispWG, procPC, batchWG, actionWG>>
  BY Zenon DEF UpdateBegin, pollVars, dispVars, procVars
<1>2. ops'["resume"] = ops["resume"] /\ ops'["update"] = ops["update"] + 1
  BY RoundTypes, Zenon DEF UpdateBegin, Count, OpNames
<1>3. ops'["update"] # 0 /\ (Few' => Few /\ Coherent) /\ Working' = Working
  BY <1>1, <1>2, RoundTypes DEF Few, Coherent, Working
<1>4. Bounded'
  <2>1. gen \in 0..gen
    BY RoundTypes
  <2>2. closed' \subseteq 0..gen' /\ updater' \subseteq 0..gen'
    BY <1>1, <2>1, Zenon DEF Rounds, Bounded
  <2> QED
    BY <1>1, <2>2, Zenon DEF Rounds, Bounded
<1>5. NoUpdate' /\ NoResume' /\ OneDispatcher'
  BY <1>1, <1>2, <1>3, Zenon DEF Rounds, NoUpdate, NoResume, OneDispatcher
<1>6. OneProcessor'
  BY <1>3, Zenon DEF Rounds, OneProcessor
<1>7. Few' => Counted'
  <2> SUFFICES ASSUME Few' PROVE Counted'
    BY Zenon
  <2>1. \A k \in Roles, x \in Slots, g \in Gens : WaitsFor(k, x, g)' => WaitsFor(k, x, g)
    BY <1>1, <1>3 DEF WaitsFor
  <2> QED
    BY <1>1, <1>3, <2>1, CountedFrame, Zenon DEF Rounds
<1> QED
  BY <1>4, <1>5, <1>6, <1>7, Zenon DEF Rounds

\* A process that has just started.
FreshRound ==
  /\ updateInProgress = FALSE /\ gen = 0 /\ closed = {} /\ updater = {}
  /\ wg = [g \in Gens |-> IF g = 0 THEN 3 ELSE 0]
  /\ processorDone = FALSE /\ pollWG = 0
  /\ dispOn = [d \in Dispatchers |-> d = 1] /\ dispWG = [d \in Dispatchers |-> 0]
  /\ procPC = [p \in Processors |-> IF p = 1 THEN "idle" ELSE "off"]
  /\ batchWG = [p \in Processors |-> 0] /\ actionWG = [p \in Processors |-> 0]

\* The round of a stream that has just been created.
LEMMA FreshIsRound == FreshRound => Rounds
<1> SUFFICES ASSUME FreshRound PROVE Rounds
  BY Zenon
<1>1. Working = {1} /\ Alive = {1}
  BY BoundAssumption, Zenon DEF FreshRound, Working, Alive
<1>2. Bounded /\ NoUpdate /\ NoResume /\ OneDispatcher
  <2>1. Bounded
    BY DEF FreshRound, Bounded
  <2>2. NoUpdate
    BY <1>1, Zenon DEF FreshRound, NoUpdate
  <2>3. NoResume /\ OneDispatcher
    BY Zenon DEF FreshRound, NoResume, OneDispatcher
  <2> QED
    BY <2>1, <2>2, <2>3, Zenon
<1>3. OneProcessor
  BY <1>1, Zenon DEF OneProcessor
<1>4. ASSUME NEW g \in Gens PROVE IsFiniteSet(Waited(g)) /\ Cardinality(Waited(g)) <= wg[g]
  <2>1. wg[g] = IF g = 0 THEN 3 ELSE 0
    BY Zenon DEF FreshRound
  <2>2. \A k \in Roles, x \in Slots : WaitsFor(k, x, g) =>
          g = 0 /\ x = 1 /\ k \in {"poller", "dispatcher", "processor"}
    BY <1>1, Zenon DEF FreshRound, WaitsFor
  <2>3. CASE g = 0
    <3>1. Waited(g) \subseteq {<<"poller", 1>>, <<"dispatcher", 1>>, <<"processor", 1>>}
      BY <2>2 DEF Waited
    <3> QED
      BY <2>1, <2>3, <3>1, AtMostThree, Zenon
  <2>4. CASE g # 0
    <3>1. Waited(g) = {}
      BY <2>2, <2>4, Zenon DEF Waited
    <3>2. IsFiniteSet(Waited(g)) /\ Cardinality(Waited(g)) = 0
      BY <3>1, FS_EmptySet, Zenon
    <3> QED
      BY <2>1, <2>4, <3>2
  <2> QED
    BY <2>3, <2>4, Zenon
<1> QED
  BY <1>2, <1>3, <1>4, Zenon DEF Rounds, Counted

\* newEventStream.
LEMMA RoundInit == Init => Rounds
  BY FreshIsRound, Zenon DEF Init, FreshRound

\* A crash leaves the round of a stream that has just been created.
LEMMA RoundCrash == Crash => Rounds'
<1>1. FreshRound' => Rounds'
  BY FreshIsRound, PTL
<1> QED
  BY <1>1, Zenon DEF Crash, FreshRound

\* suspend, resume, update, stop and the operations on subscriptions.
LEMMA RoundHandlers ==
  ASSUME TypeOK, TypeOK', Rounds, Handlers
  PROVE  Rounds'
<1>1. CASE UpdateRefused
  <2>1. /\ UNCHANGED <<gen, closed, updateInProgress, wg, pollPC, pollWG, dispOn, dispWG, procPC,
                       batchWG, actionWG, processorDone>>
        /\ updater' = {}
    BY <1>1, Zenon DEF UpdateRefused, doneVars, pollVars, dispVars, procVars
  <2>2. ops'["resume"] = ops["resume"] /\ ops'["update"] = ops["update"]
    BY <1>1, RoundTypes, Zenon DEF UpdateRefused, Count, OpNames
  <2>3. Within
    BY <2>1, <2>2, Zenon DEF Within, Rounds, Bounded, Working, Alive
  <2>4. \A k \in Roles, x \in Slots, g \in Gens : WaitsFor(k, x, g)' => WaitsFor(k, x, g)
    BY <2>1, <2>2 DEF WaitsFor, Working, Coherent
  <2>5. Counted => Counted'
    BY <2>1, <2>4, CountedFrame, Zenon
  <2> QED
    BY <2>3, <2>5, WithinRound, Zenon DEF Rounds
<1>2. ASSUME UNCHANGED roundVars,
             ops' = ops \/ \E op \in OpNames \ {"resume", "update"} : Count(op)
      PROVE  Rounds'
  <2>1. ops'["resume"] = ops["resume"] /\ ops'["update"] = ops["update"]
    BY <1>2, RoundTypes, Zenon DEF Count, OpNames
  <2> QED
    BY <1>2, <2>1, RoundStutter, Zenon
<1>3. CASE Suspend \/ Stop
  <2>1. UNCHANGED roundVars /\ (Count("suspend") \/ Count("stop"))
    BY <1>3, Zenon DEF Suspend, Stop, roundVars, updateVars, doneVars, pollVars, dispVars, procVars
  <2> QED
    BY <1>2, <2>1, Zenon DEF OpNames
<1>4. ASSUME NEW s \in Subs, \/ AddSubscription(s) \/ DeleteSubscription(s)
                             \/ \E b \in ResetBlocks : ResetSubscription(s, b)
      PROVE  Rounds'
  <2>1. UNCHANGED roundVars /\ (ops' = ops \/ Count("reset") \/ Count("delete"))
    BY <1>4, Zenon DEF AddSubscription, DeleteSubscription, ResetSubscription, roundVars, updateVars,
       doneVars, pollVars, dispVars, procVars
  <2> QED
    BY <1>2, <2>1, Zenon DEF OpNames
<1> QED
  BY <1>1, <1>3, <1>4, RoundResume, RoundUpdateBegin, RoundUpdateFinish, Zenon DEF Handlers

\* Every step of the poller.
LEMMA RoundPolling ==
  ASSUME TypeOK, Rounds, Polling
  PROVE  Rounds'
<1> USE DEF updateVars, dispVars, procVars, doneVars
<1>1. CASE PollBegin \/ PollLoadFails \/ PollSubscribeFails \/ PollRecord \/ PollWait
  BY <1>1, RoundPoll, Zenon DEF PollBegin, PollLoadFails, PollSubscribeFails, PollRecord, PollWait
<1>2. ASSUME NEW s \in Subs, PollSub(s) PROVE Rounds'
  <2>1. pollPC = "subs" /\ (pollPC' = pollPC \/ pollPC' = "call")
    BY <1>2, Zenon DEF PollSub, SetCheckpointBlockHeight, SetInitialBlockHeight, CallSubscribe
  <2> QED
    BY <1>2, <2>1, RoundPoll, Zenon DEF PollSub
<1>3. ASSUME NEW s \in Subs, PollSubscribed(s) PROVE Rounds'
  BY <1>3, RoundPoll, Zenon DEF PollSubscribed
<1> QED
  BY <1>1, <1>2, <1>3, RoundPollExit, Zenon DEF Polling

\* Every step keeps the rounds.
LEMMA RoundStep ==
  ASSUME TypeOK, TypeOK', Rounds, [Next]_vars
  PROVE  Rounds'
<1>1. CASE UNCHANGED vars \/ Mine \/ (\E s \in Subs : RecoverSubscription(s)) \/ Relaying
  <2>1. UNCHANGED roundVars /\ ops' = ops
    BY <1>1, Zenon DEF vars, Mine, RecoverSubscription, Relaying, RelayRead, RelayExit, roundVars,
       updateVars, doneVars, pollVars, dispVars, procVars
  <2> QED
    BY <2>1, RoundStutter, Zenon
<1>2. CASE Dispatching
  <2>1. ASSUME NEW d \in Dispatchers,
               DispatchTimeout(d) \/ \E s \in Subs, i \in Relays : DispatchEvent(d, s, i)
        PROVE  Rounds'
    <3>1. UNCHANGED roundVars /\ ops' = ops
      BY <2>1, Zenon DEF DispatchTimeout, DispatchEvent, roundVars, updateVars, doneVars, pollVars,
         procVars
    <3> QED
      BY <3>1, RoundStutter, Zenon
  <2> QED
    BY <1>2, <2>1, RoundDispatchExit, Zenon DEF Dispatching
<1> QED
  BY <1>1, <1>2, RoundCrash, RoundPolling, RoundProcessing, RoundHandlers, Zenon DEF Next

\* The rounds are kept apart, as far as the counting goes, in every behaviour.
THEOREM RoundsKept == Spec => []Rounds
<1>1. TypeOK /\ TypeOK' /\ Rounds /\ [Next]_vars => Rounds'
  BY RoundStep, Zenon
<1> QED
  BY <1>1, RoundInit, TypeCorrect, PTL DEF Spec

\* A set without two different elements.
LEMMA AtMostOne ==
  ASSUME NEW S, \A x, y \in S : x = y
  PROVE  Cardinality(S) <= 1
<1>1. CASE S = {}
  <2>1. Cardinality(S) = 0
    BY <1>1, FS_EmptySet, Zenon
  <2> QED
    BY <2>1
<1>2. CASE S # {}
  <2>1. PICK x : S = {x}
    BY <1>2
  <2>2. Cardinality(S) = 1
    BY <2>1, FS_Singleton, Zenon
  <2> QED
    BY <2>2
<1> QED
  BY <1>1, <1>2, Zenon

\* Whatever the bounds: until a resume follows an update or an update a resume,
\* at most one processor works and at most one dispatcher collects.
THEOREM OneRoundAtATime ==
  Spec => []((ops["resume"] = 0 \/ ops["update"] = 0) => OneRoundOfHandlers)
<1>1. TypeOK /\ Rounds => ((ops["resume"] = 0 \/ ops["update"] = 0) => OneRoundOfHandlers)
  <2> SUFFICES ASSUME TypeOK, Rounds, ops["resume"] = 0 \/ ops["update"] = 0
               PROVE  OneRoundOfHandlers
    BY Zenon
  <2>1. Few /\ Coherent
    BY RoundTypes DEF Few, Coherent
  <2>2. \A p, q \in Working : p = q
    BY <2>1, Zenon DEF Rounds, OneProcessor
  <2>3. Cardinality(Working) <= 1
    BY <2>2, AtMostOne, Zenon
  <2>4. \A c, d \in {e \in Dispatchers : dispOn[e]} : c = d
    BY Zenon DEF Rounds, OneDispatcher
  <2>5. Cardinality({e \in Dispatchers : dispOn[e]}) <= 1
    BY <2>4, AtMostOne, Zenon
  <2> QED
    BY <2>3, <2>5, Zenon DEF OneRoundOfHandlers, AtMostOneProcessor, AtMostOneDispatcher, Working
<1> QED
  BY <1>1, RoundsKept, TypeCorrect, PTL

\* resume never starts a second batch processor beside one that still runs:
\* without an update in between, processorDone is set only when it is gone.
THEOREM ResumeIsRight == Spec => []ResumeKeepsOneProcessor
<1>1. ((ops["resume"] = 0 \/ ops["update"] = 0) => OneRoundOfHandlers) => ResumeKeepsOneProcessor
  BY Zenon DEF ResumeKeepsOneProcessor, OneRoundOfHandlers
<1> QED
  BY <1>1, OneRoundAtATime, PTL

\* No call of Done takes a WaitGroup below zero, which would panic, until the
\* stream has been resumed and updated more than once: each counter covers the
\* goroutines that have still to call Done on it.  A second update may then meet
\* two processors of the round it ends.
THEOREM WaitGroupsCounted ==
  Spec => []((ops["resume"] = 0 \/ ops["update"] <= 1) => NoNegativeWaitGroup)
<1>1. TypeOK /\ Rounds => ((ops["resume"] = 0 \/ ops["update"] <= 1) => NoNegativeWaitGroup)
  <2> SUFFICES ASSUME TypeOK, Rounds, Few, NEW g \in Gens PROVE wg[g] >= 0
    BY Zenon DEF Few, NoNegativeWaitGroup
  <2>1. IsFiniteSet(Waited(g)) /\ Cardinality(Waited(g)) <= wg[g] /\ wg[g] \in Int
    BY RoundTypes, Zenon DEF Rounds, Counted
  <2>2. Cardinality(Waited(g)) \in Nat
    BY <2>1, FS_CardinalityType, Zenon
  <2> QED
    BY <2>1, <2>2
<1> QED
  BY <1>1, RoundsKept, TypeCorrect, PTL

-----------------------------------------------------------------------------
(* The places of a family of batches, counted.                             *)

\* A batch of n events takes n places.
LEMMA RowSize ==
  ASSUME NEW x, NEW n \in Nat
  PROVE  IsFiniteSet({x} \X (1..n)) /\ Cardinality({x} \X (1..n)) = n
<1> DEFINE F == [k \in 1..n |-> <<x, k>>]
<1>1. F \in Injection(1..n, {x} \X (1..n))
  BY Zenon DEF Injection, IsInjective
<1>2. F \in Surjection(1..n, {x} \X (1..n))
  <2>1. F \in [1..n -> {x} \X (1..n)]
    BY Zenon
  <2>2. ASSUME NEW t \in {x} \X (1..n) PROVE \E k \in 1..n : F[k] = t
    <3>1. t = <<x, t[2]>> /\ t[2] \in 1..n
      OBVIOUS
    <3> QED
      BY <3>1, Zenon
  <2> QED
    BY <2>1, <2>2, Zenon DEF Surjection
<1>3. ExistsBijection(1..n, {x} \X (1..n))
  BY <1>1, <1>2, Zenon DEF ExistsBijection, Bijection
<1>4. IsFiniteSet(1..n) /\ Cardinality(1..n) = n
  <2>1. Cardinality(1..n) = IF 1 > n THEN 0 ELSE n - 1 + 1
    BY FS_Interval
  <2>2. (IF 1 > n THEN 0 ELSE n - 1 + 1) = n
    OBVIOUS
  <2> QED
    BY <2>1, <2>2, FS_Interval
<1> QED
  BY <1>3, <1>4, FS_Bijection, Zenon

\* The places outside batch x.
Elsewhere(batches, x) == {c \in Places(batches) : c[1] # x}

\* Membership in Places, and that a place is a pair.
LEMMA PlacesAre ==
  ASSUME NEW f, \A x \in DOMAIN f : f[x] \in Seq(Event)
  PROVE  \A c : c \in Places(f) <=>
           \E x \in DOMAIN f : \E k \in 1..Len(f[x]) : c = <<x, k>>
<1> SUFFICES ASSUME NEW c
             PROVE  c \in Places(f) <=> \E x \in DOMAIN f : \E k \in 1..Len(f[x]) : c = <<x, k>>
  BY Zenon
<1>1. c \in Places(f) <=> \E x \in DOMAIN f : c \in {x} \X DOMAIN f[x]
  BY Zenon DEF Places
<1>2. \A x \in DOMAIN f : DOMAIN f[x] = 1..Len(f[x])
  OBVIOUS
<1>3. \A x, k : c = <<x, k>> => c[1] = x /\ c[2] = k
  OBVIOUS
<1>4. ASSUME NEW x \in DOMAIN f
      PROVE  c \in {x} \X DOMAIN f[x] <=> \E k \in 1..Len(f[x]) : c = <<x, k>>
  BY <1>2
<1> QED
  BY <1>1, <1>4, Zenon

\* What a batch adds to the places of the others.
LEMMA PlacesSplit ==
  ASSUME NEW f, \A y \in DOMAIN f : f[y] \in Seq(Event), NEW x \in DOMAIN f,
         IsFiniteSet(Elsewhere(f, x))
  PROVE  /\ IsFiniteSet(Places(f))
         /\ Cardinality(Places(f)) = Cardinality(Elsewhere(f, x)) + Len(f[x])
         /\ Cardinality(Elsewhere(f, x)) \in Nat /\ Len(f[x]) \in Nat
<1> DEFINE Row == {x} \X (1..Len(f[x]))
<1>0. Len(f[x]) \in Nat
  OBVIOUS
<1>1. IsFiniteSet(Row) /\ Cardinality(Row) = Len(f[x])
  BY <1>0, RowSize, Zenon
<1>2. ASSUME NEW c PROVE c \in Places(f) <=> c \in Elsewhere(f, x) \cup Row
  <2>1. c \in Row <=> \E k \in 1..Len(f[x]) : c = <<x, k>>
    OBVIOUS
  <2>2. \A y, k : c = <<y, k>> => c[1] = y
    OBVIOUS
  <2> QED
    BY <2>1, <2>2, PlacesAre DEF Elsewhere
<1>3. Places(f) = Elsewhere(f, x) \cup Row
  BY <1>2, Zenon
<1>4. Elsewhere(f, x) \cap Row = {}
  BY Zenon DEF Elsewhere
<1>5. Cardinality(Elsewhere(f, x)) \in Nat /\ Cardinality({}) = 0
  BY FS_CardinalityType, FS_EmptySet, Zenon
<1>6. IsFiniteSet(Elsewhere(f, x) \cup Row)
      /\ Cardinality(Elsewhere(f, x) \cup Row) =
           Cardinality(Elsewhere(f, x)) + Cardinality(Row) - Cardinality(Elsewhere(f, x) \cap Row)
  BY <1>1, FS_Union, Zenon
<1>7. Cardinality(Places(f)) = Cardinality(Elsewhere(f, x)) + Len(f[x]) - 0
  BY <1>1, <1>3, <1>4, <1>5, <1>6, Zenon
<1> HIDE DEF Row
<1> QED
  BY <1>0, <1>3, <1>5, <1>6, <1>7

\* The places outside one batch are finite.
LEMMA ElsewhereFinite ==
  ASSUME NEW f, NEW x, IsFiniteSet(Places(f))
  PROVE  IsFiniteSet(Elsewhere(f, x))
<1>1. Elsewhere(f, x) \in SUBSET Places(f)
  BY Zenon DEF Elsewhere
<1> QED
  BY <1>1, FS_Subset, Zenon

\* One batch of the family is replaced.
LEMMA PlacesReplaced ==
  ASSUME NEW f, NEW g, DOMAIN g = DOMAIN f, NEW x \in DOMAIN f,
         \A y \in DOMAIN f : f[y] \in Seq(Event), g[x] \in Seq(Event),
         \A y \in DOMAIN f \ {x} : g[y] = f[y], IsFiniteSet(Places(f))
  PROVE  /\ IsFiniteSet(Places(g))
         /\ Cardinality(Places(f)) \in Nat /\ Cardinality(Places(g)) \in Nat
         /\ Cardinality(Places(g)) = Cardinality(Places(f)) - Len(f[x]) + Len(g[x])
<1>1. \A y \in DOMAIN g : g[y] \in Seq(Event)
  BY Zenon
<1>f. \A c : c \in Places(f) <=> \E y \in DOMAIN f : \E k \in 1..Len(f[y]) : c = <<y, k>>
  BY PlacesAre, Zenon
<1>g. \A c : c \in Places(g) <=> \E y \in DOMAIN g : \E k \in 1..Len(g[y]) : c = <<y, k>>
  BY <1>1, PlacesAre, Zenon
<1>2. ASSUME NEW c PROVE c \in Elsewhere(g, x) <=> c \in Elsewhere(f, x)
  <2>1. \A y, k : c = <<y, k>> => c[1] = y
    OBVIOUS
  <2>2. c \in Places(f) <=> \E y \in DOMAIN f : \E k \in 1..Len(f[y]) : c = <<y, k>>
    BY <1>f, Zenon
  <2>3. c \in Places(g) <=> \E y \in DOMAIN g : \E k \in 1..Len(g[y]) : c = <<y, k>>
    BY <1>g, Zenon
  <2> QED
    BY <2>1, <2>2, <2>3, Zenon DEF Elsewhere
<1>3. Elsewhere(g, x) = Elsewhere(f, x)
  BY <1>2, Zenon
<1>4. IsFiniteSet(Elsewhere(f, x))
  BY ElsewhereFinite, Zenon
<1>5. /\ Cardinality(Places(f)) = Cardinality(Elsewhere(f, x)) + Len(f[x])
      /\ Cardinality(Elsewhere(f, x)) \in Nat /\ Len(f[x]) \in Nat
  BY <1>4, PlacesSplit, Zenon
<1>6. /\ IsFiniteSet(Places(g)) /\ Len(g[x]) \in Nat
      /\ Cardinality(Places(g)) = Cardinality(Elsewhere(f, x)) + Len(g[x])
  <2>1. IsFiniteSet(Elsewhere(g, x)) /\ x \in DOMAIN g
    BY <1>3, <1>4, Zenon
  <2> QED
    BY <1>1, <1>3, <2>1, PlacesSplit, Zenon
<1> QED
  BY <1>5, <1>6

\* A batch is queued.
LEMMA PlacesAppend ==
  ASSUME NEW q \in Seq(Seq(Event)), NEW b \in Seq(Event), IsFiniteSet(Places(q))
  PROVE  /\ IsFiniteSet(Places(Append(q, b)))
         /\ Cardinality(Places(q)) \in Nat
         /\ Cardinality(Places(Append(q, b))) = Cardinality(Places(q)) + Len(b)
<1> DEFINE r == Append(q, b)
           x == Len(q) + 1
<1>1. /\ DOMAIN r = 1..x /\ DOMAIN q = 1..(x - 1) /\ x \in Nat \ {0} /\ r[x] = b
      /\ \A y \in 1..(x - 1) : r[y] = q[y]
  OBVIOUS
<1>2. (\A y \in DOMAIN r : r[y] \in Seq(Event)) /\ (\A y \in DOMAIN q : q[y] \in Seq(Event))
  OBVIOUS
<1> HIDE DEF r, x
<1>q. \A c : c \in Places(q) <=> \E y \in DOMAIN q : \E k \in 1..Len(q[y]) : c = <<y, k>>
  BY <1>2, PlacesAre, Zenon
<1>r. \A c : c \in Places(r) <=> \E y \in DOMAIN r : \E k \in 1..Len(r[y]) : c = <<y, k>>
  BY <1>2, PlacesAre, Zenon
<1>3. ASSUME NEW c PROVE c \in Elsewhere(r, x) <=> c \in Places(q)
  <2>1. \A y, k : c = <<y, k>> => c[1] = y
    OBVIOUS
  <2>2. c \in Places(q) <=> \E y \in DOMAIN q : \E k \in 1..Len(q[y]) : c = <<y, k>>
    BY <1>q, Zenon
  <2>3. c \in Places(r) <=> \E y \in DOMAIN r : \E k \in 1..Len(r[y]) : c = <<y, k>>
    BY <1>r, Zenon
  <2>4. x \notin DOMAIN q /\ DOMAIN r = DOMAIN q \cup {x} /\ \A y \in DOMAIN q : r[y] = q[y]
    BY <1>1
  <2> QED
    BY <2>1, <2>2, <2>3, <2>4, Zenon DEF Elsewhere
<1>4. Elsewhere(r, x) = Places(q)
  BY <1>3, Zenon
<1>5. /\ IsFiniteSet(Places(r)) /\ Cardinality(Places(q)) \in Nat
      /\ Cardinality(Places(r)) = Cardinality(Places(q)) + Len(b)
  <2>1. x \in DOMAIN r /\ IsFiniteSet(Elsewhere(r, x))
    BY <1>1, <1>4
  <2> QED
    BY <1>1, <1>2, <1>4, <2>1, PlacesSplit, Zenon
<1> QED
  BY <1>5, Zenon DEF r

\* The first batch of the queue is taken.
LEMMA PlacesTail ==
  ASSUME NEW q \in Seq(Seq(Event)), q # <<>>, IsFiniteSet(Places(q))
  PROVE  /\ IsFiniteSet(Places(Tail(q)))
         /\ Cardinality(Places(Tail(q))) \in Nat /\ Cardinality(Places(q)) \in Nat
         /\ Cardinality(Places(q)) = Cardinality(Places(Tail(q))) + Len(Head(q))
<1> DEFINE r == Tail(q)
           F == [c \in Elsewhere(q, 1) |-> <<c[1] - 1, c[2]>>]
<1>1. /\ Len(q) \in Nat \ {0} /\ DOMAIN q = 1..Len(q) /\ DOMAIN r = 1..(Len(q) - 1)
      /\ Head(q) = q[1] /\ \A y \in 1..(Len(q) - 1) : r[y] = q[y + 1]
  OBVIOUS
<1>2. (\A y \in DOMAIN r : r[y] \in Seq(Event)) /\ (\A y \in DOMAIN q : q[y] \in Seq(Event))
  OBVIOUS
<1> HIDE DEF r
<1>q. \A c : c \in Places(q) <=> \E y \in DOMAIN q : \E k \in 1..Len(q[y]) : c = <<y, k>>
  BY <1>2, PlacesAre, Zenon
<1>3. \A c : c \in Elsewhere(q, 1) <=>
        \E y \in 2..Len(q) : \E k \in 1..Len(q[y]) : c = <<y, k>>
  <2> SUFFICES ASSUME NEW c
               PROVE  c \in Elsewhere(q, 1) <=>
                        \E y \in 2..Len(q) : \E k \in 1..Len(q[y]) : c = <<y, k>>
    BY Zenon
  <2>1. \A y, k : c = <<y, k>> => c[1] = y
    OBVIOUS
  <2>2. c \in Places(q) <=> \E y \in DOMAIN q : \E k \in 1..Len(q[y]) : c = <<y, k>>
    BY <1>q, Zenon
  <2>3. \A y : y \in 2..Len(q) <=> y \in DOMAIN q /\ y # 1
    BY <1>1
  <2> QED
    BY <2>1, <2>2, <2>3, Zenon DEF Elsewhere
<1>4. \A c : c \in Places(r) <=>
        \E y \in 1..(Len(q) - 1) : \E k \in 1..Len(q[y + 1]) : c = <<y, k>>
  <2>1. \A c : c \in Places(r) <=>
          \E y \in DOMAIN r : \E k \in 1..Len(r[y]) : c = <<y, k>>
    BY <1>2, PlacesAre, Zenon
  <2>2. \A y \in DOMAIN r : Len(r[y]) = Len(q[y + 1])
    BY <1>1, Zenon
  <2>3. DOMAIN r = 1..(Len(q) - 1)
    BY <1>1, Zenon
  <2> HIDE DEF F
  <2> QED
    BY <2>1, <2>2, <2>3, Zenon
<1>5. F \in [Elsewhere(q, 1) -> Places(r)]
  <2> SUFFICES ASSUME NEW c \in Elsewhere(q, 1) PROVE <<c[1] - 1, c[2]>> \in Places(r)
    BY Zenon
  <2>1. PICK y \in 2..Len(q) : \E k \in 1..Len(q[y]) : c = <<y, k>>
    BY <1>3, Zenon
  <2>2. PICK k \in 1..Len(q[y]) : c = <<y, k>>
    BY <2>1, Zenon
  <2>3. y - 1 \in 1..(Len(q) - 1) /\ (y - 1) + 1 = y
    BY <1>1
  <2> QED
    BY <1>4, <2>2, <2>3, Zenon
<1>6. ASSUME NEW c \in Elsewhere(q, 1), NEW d \in Elsewhere(q, 1), F[c] = F[d] PROVE c = d
  <2>1. PICK y \in 2..Len(q) : \E k : c = <<y, k>>
    BY <1>3, Zenon
  <2>2. PICK z \in 2..Len(q) : \E l : d = <<z, l>>
    BY <1>3, Zenon
  <2>3. PICK k, l : c = <<y, k>> /\ d = <<z, l>>
    BY <2>1, <2>2, Zenon
  <2>4. y - 1 = z - 1 /\ k = l
    BY <1>6, <2>3, Zenon
  <2>5. y \in Int /\ z \in Int
    BY <1>1
  <2> QED
    BY <2>3, <2>4, <2>5
<1>7. ASSUME NEW t \in Places(r) PROVE \E c \in Elsewhere(q, 1) : F[c] = t
  <2>1. PICK y \in 1..(Len(q) - 1) : \E k \in 1..Len(q[y + 1]) : t = <<y, k>>
    BY <1>4, Zenon
  <2>2. PICK k \in 1..Len(q[y + 1]) : t = <<y, k>>
    BY <2>1, Zenon
  <2>3. y + 1 \in 2..Len(q) /\ (y + 1) - 1 = y
    BY <1>1
  <2>4. <<y + 1, k>> \in Elsewhere(q, 1)
    BY <1>3, <2>2, <2>3, Zenon
  <2> QED
    BY <2>2, <2>3, <2>4, Zenon
<1>8. ExistsBijection(Elsewhere(q, 1), Places(r))
  <2> HIDE DEF F
  <2>1. F \in Injection(Elsewhere(q, 1), Places(r))
    BY <1>5, <1>6, Zenon DEF Injection, IsInjective
  <2>2. F \in Surjection(Elsewhere(q, 1), Places(r))
    BY <1>5, <1>7, Zenon DEF Surjection
  <2> QED
    BY <2>1, <2>2, Zenon DEF ExistsBijection, Bijection
<1>9. IsFiniteSet(Elsewhere(q, 1))
  BY ElsewhereFinite, Zenon
<1>10. IsFiniteSet(Places(r)) /\ Cardinality(Places(r)) = Cardinality(Elsewhere(q, 1))
  BY <1>8, <1>9, FS_Bijection, Zenon
<1>11. /\ Cardinality(Places(q)) = Cardinality(Elsewhere(q, 1)) + Len(q[1])
       /\ Cardinality(Elsewhere(q, 1)) \in Nat /\ Len(q[1]) \in Nat
  <2> HIDE DEF F
  <2>1. 1 \in DOMAIN q
    BY <1>1
  <2> QED
    BY <1>2, <1>9, <2>1, PlacesSplit, Zenon
<1> HIDE DEF F
<1> QED
  BY <1>1, <1>10, <1>11 DEF r

-----------------------------------------------------------------------------
(* inFlight and the events held.                                           *)

\* Nobody has suspended, updated or stopped the stream.
Uninterrupted == ops["suspend"] = 0 /\ ops["update"] = 0 /\ ops["stop"] = 0

\* No goroutine has reason to drop a batch, and a processor between two
\* batches has none.
Calm ==
  /\ ~suspended /\ ~stopped /\ closed = {}
  /\ \A p \in Processors :
       /\ procPC[p] # "abandoned"
       /\ procPC[p] \in {"off", "idle", "exiting", "stuck"} => procBatch[p] = <<>>

FinitelyHeld ==
  /\ IsFiniteSet(Places(currentBatch)) /\ IsFiniteSet(Places(batchQueue))
  /\ IsFiniteSet(Places(Undelivered))

\* The inductive invariant behind InFlightCovers and InFlightExact.
HeldInv ==
  /\ FinitelyHeld /\ InFlightCovers
  /\ Uninterrupted => Calm /\ InFlightExact

\* What a step owes to HeldInv.
Kept ==
  /\ FinitelyHeld'
  /\ InFlightCovers => InFlightCovers'
  /\ Calm /\ InFlightExact => InFlightExact'

\* The types of the batches.
LEMMA HeldTypes ==
  ASSUME TypeOK
  PROVE  /\ currentBatch \in [Dispatchers -> Seq(Event)]
         /\ batchQueue \in Seq(Seq(Event))
         /\ procBatch \in [Processors -> Seq(Event)]
         /\ DOMAIN procPC = Processors
         /\ Undelivered \in [Processors -> Seq(Event)]
         /\ inFlight \in Int /\ ops \in [OpNames -> Nat]
<1>1. procBatch \in [Processors -> Seq(Event)]
  BY Zenon DEF TypeOK, BatchTypeOK
<1>2. Undelivered \in [Processors -> Seq(Event)]
  <2>1. \A p \in Processors : (IF procPC[p] = "ack" THEN <<>> ELSE procBatch[p]) \in Seq(Event)
    BY <1>1
  <2> QED
    BY <2>1, Zenon DEF Undelivered
<1> QED
  BY <1>1, <1>2, Zenon DEF TypeOK, BatchTypeOK, StreamTypeOK

\* The three counts are numbers.
LEMMA HeldNumbers ==
  ASSUME FinitelyHeld
  PROVE  /\ Cardinality(Places(currentBatch)) \in Nat
         /\ Cardinality(Places(batchQueue)) \in Nat
         /\ Cardinality(Places(Undelivered)) \in Nat
  BY FS_CardinalityType, Zenon DEF FinitelyHeld

\* A step that moves no event.
LEMMA QuietKept ==
  ASSUME TypeOK, FinitelyHeld, UNCHANGED <<inFlight, batchQueue, currentBatch, procBatch>>,
         \A p \in Processors : procPC'[p] = "ack" <=> procPC[p] = "ack"
  PROVE  Kept
<1>1. Undelivered' = Undelivered
  BY Zenon DEF Undelivered
<1>2. Held' = Held /\ FinitelyHeld'
  BY <1>1, Zenon DEF Held, FinitelyHeld
<1> QED
  BY <1>2, Zenon DEF Kept, InFlightCovers, InFlightExact

\* One processor's batch is taken up or dropped, or leaves inFlight.
LEMMA ProcessorPlaces ==
  ASSUME TypeOK, TypeOK', FinitelyHeld, NEW p \in Processors,
         \A q \in Processors \ {p} : procPC'[q] = procPC[q] /\ procBatch'[q] = procBatch[q]
  PROVE  /\ IsFiniteSet(Places(Undelivered'))
         /\ Cardinality(Places(Undelivered)) \in Nat /\ Cardinality(Places(Undelivered')) \in Nat
         /\ Cardinality(Places(Undelivered')) =
              Cardinality(Places(Undelivered)) - Len(Undelivered[p]) + Len(Undelivered'[p])
         /\ Len(Undelivered[p]) \in Nat /\ Len(Undelivered'[p]) \in Nat
<1>1. Undelivered \in [Processors -> Seq(Event)] /\ Undelivered' \in [Processors -> Seq(Event)]
  <2>1. Undelivered' \in [Processors -> Seq(Event)]
    <3>1. procBatch' \in [Processors -> Seq(Event)]
      BY Zenon DEF TypeOK, BatchTypeOK
    <3>2. \A q \in Processors : (IF procPC'[q] = "ack" THEN <<>> ELSE procBatch'[q]) \in Seq(Event)
      BY <3>1
    <3> QED
      BY <3>2, Zenon DEF Undelivered
  <2> QED
    BY <2>1, HeldTypes, Zenon
<1>2. \A q \in Processors \ {p} : Undelivered'[q] = Undelivered[q]
  BY Zenon DEF Undelivered
<1>3. PICK f, g : f = Undelivered /\ g = Undelivered'
  BY Zenon
<1>4. /\ DOMAIN f = Processors /\ DOMAIN g = Processors
      /\ \A q \in Processors : f[q] \in Seq(Event) /\ g[q] \in Seq(Event)
      /\ \A q \in Processors \ {p} : g[q] = f[q]
      /\ IsFiniteSet(Places(f))
  BY <1>1, <1>2, <1>3, Zenon DEF FinitelyHeld
<1>5. /\ IsFiniteSet(Places(g))
      /\ Cardinality(Places(f)) \in Nat /\ Cardinality(Places(g)) \in Nat
      /\ Cardinality(Places(g)) = Cardinality(Places(f)) - Len(f[p]) + Len(g[p])
  BY <1>4, PlacesReplaced
<1>6. Len(f[p]) \in Nat /\ Len(g[p]) \in Nat
  BY <1>4
<1> QED
  BY <1>3, <1>5, <1>6, Zenon

\* One dispatcher's batch grows or is handed on.
LEMMA DispatcherPlaces ==
  ASSUME TypeOK, FinitelyHeld, NEW d \in Dispatchers, NEW b \in Seq(Event),
         currentBatch' = [currentBatch EXCEPT ![d] = b]
  PROVE  /\ IsFiniteSet(Places(currentBatch'))
         /\ Cardinality(Places(currentBatch)) \in Nat /\ Cardinality(Places(currentBatch')) \in Nat
         /\ Cardinality(Places(currentBatch')) =
              Cardinality(Places(currentBatch)) - Len(currentBatch[d]) + Len(b)
         /\ Len(currentBatch[d]) \in Nat /\ Len(b) \in Nat
<1>1. PICK f, g : f = currentBatch /\ g = currentBatch'
  BY Zenon
<1>2. /\ DOMAIN f = Dispatchers /\ DOMAIN g = Dispatchers /\ g[d] = b
      /\ \A c \in Dispatchers : f[c] \in Seq(Event)
      /\ \A c \in Dispatchers \ {d} : g[c] = f[c]
      /\ IsFiniteSet(Places(f))
  BY <1>1, HeldTypes, Zenon DEF FinitelyHeld
<1>3. /\ IsFiniteSet(Places(g))
      /\ Cardinality(Places(f)) \in Nat /\ Cardinality(Places(g)) \in Nat
      /\ Cardinality(Places(g)) = Cardinality(Places(f)) - Len(f[d]) + Len(g[d])
  BY <1>2, PlacesReplaced
<1>4. Len(f[d]) \in Nat /\ Len(b) \in Nat
  BY <1>2
<1> QED
  BY <1>1, <1>2, <1>3, <1>4, Zenon

\* The counts after the step give the rest.
LEMMA KeptFrom ==
  ASSUME TypeOK, TypeOK', FinitelyHeld, FinitelyHeld',
         inFlight >= Held => inFlight' >= Held',
         Calm => (inFlight = Held => inFlight' = Held')
  PROVE  Kept
  BY Zenon DEF Kept, InFlightCovers, InFlightExact

\* Both grow by one.
LEMMA KeptUp ==
  ASSUME TypeOK, TypeOK', FinitelyHeld, FinitelyHeld', inFlight \in Int, Held \in Int,
         inFlight' = inFlight + 1, Held' = Held + 1
  PROVE  Kept
<1>1. inFlight >= Held => inFlight' >= Held'
  OBVIOUS
<1> QED
  BY <1>1, KeptFrom, Zenon

\* Events are dropped, which takes an update or a stop, or taken off the count.
LEMMA KeptDown ==
  ASSUME TypeOK, TypeOK', FinitelyHeld, FinitelyHeld', inFlight \in Int, Held \in Int,
         NEW l \in Nat, Held' = Held - l,
         \/ inFlight' = inFlight /\ (Calm => l = 0)
         \/ inFlight' = inFlight - l
  PROVE  Kept
<1>1. inFlight >= Held => inFlight' >= Held'
  OBVIOUS
<1>2. Calm => (inFlight = Held => inFlight' = Held')
  OBVIOUS
<1> QED
  BY <1>1, <1>2, KeptFrom, Zenon

\* An event arrives and its batch is queued, or goes on being filled.
LEMMA HeldArrives ==
  ASSUME FinitelyHeld, NEW l \in Nat, NEW n \in Nat, n = l + 1, Undelivered' = Undelivered,
         \/ /\ Cardinality(Places(currentBatch')) = Cardinality(Places(currentBatch)) - l + 0
            /\ Cardinality(Places(batchQueue')) = Cardinality(Places(batchQueue)) + n
         \/ /\ Cardinality(Places(currentBatch')) = Cardinality(Places(currentBatch)) - l + n
            /\ batchQueue' = batchQueue
  PROVE  Held' = Held + 1 /\ Held \in Int
  BY HeldNumbers DEF Held

\* A batch is queued, or dropped.
LEMMA HeldLeaves ==
  ASSUME FinitelyHeld, NEW l \in Nat, Undelivered' = Undelivered,
         Cardinality(Places(currentBatch')) = Cardinality(Places(currentBatch)) - l + 0
  PROVE  /\ Held \in Int
         /\ Cardinality(Places(batchQueue')) = Cardinality(Places(batchQueue)) + l => Held' = Held
         /\ batchQueue' = batchQueue => Held' = Held - l
  BY HeldNumbers DEF Held

\* A processor takes the first batch of the queue, or drops its own.
LEMMA HeldTaken ==
  ASSUME FinitelyHeld, NEW l \in Nat, currentBatch' = currentBatch
  PROVE  /\ Held \in Int
         /\ \A h \in Nat :
              /\ Cardinality(Places(batchQueue')) \in Nat
              /\ Cardinality(Places(batchQueue)) = Cardinality(Places(batchQueue')) + h
              /\ Cardinality(Places(Undelivered')) = Cardinality(Places(Undelivered)) - l + h
              => Held' = Held - l
         /\ /\ batchQueue' = batchQueue
            /\ Cardinality(Places(Undelivered')) = Cardinality(Places(Undelivered)) - l + 0
            => Held' = Held - l
  BY HeldNumbers DEF Held

\* An event arrives: it is counted and takes one place more, in the batch being
\* filled or in the queue.
LEMMA KeptDispatchEvent ==
  ASSUME TypeOK, TypeOK', FinitelyHeld, NEW d \in Dispatchers, NEW s \in Subs, NEW i \in Relays,
         DispatchEvent(d, s, i)
  PROVE  Kept
<1> DEFINE e == [sub |-> s, n |-> relay[s][i]]
           batch == Append(currentBatch[d], e)
<1>0. e \in Event
  <2>1. relay[s][i] > 0 /\ SdkTypeOK
    BY Zenon DEF DispatchEvent, TypeOK
  <2> QED
    BY <2>1, HeldEvent, Zenon
<1>1. /\ currentBatch[d] \in Seq(Event) /\ batch \in Seq(Event)
      /\ Len(batch) \in Nat /\ Len(batch) = Len(currentBatch[d]) + 1
  BY <1>0, HeldTypes
<1>2. /\ Undelivered' = Undelivered /\ inFlight' = inFlight + 1 /\ inFlight \in Int
      /\ batchQueue' = (IF Len(batch) = batchSize THEN Append(batchQueue, batch) ELSE batchQueue)
      /\ currentBatch' = [currentBatch EXCEPT ![d] = IF Len(batch) = batchSize THEN <<>> ELSE batch]
  BY HeldTypes, Zenon DEF DispatchEvent, Undelivered, procVars
<1> HIDE DEF batch
<1>3. CASE Len(batch) = batchSize
  <2>1. currentBatch' = [currentBatch EXCEPT ![d] = <<>>] /\ batchQueue' = Append(batchQueue, batch)
    BY <1>2, <1>3, Zenon
  <2>2. /\ IsFiniteSet(Places(currentBatch'))
        /\ Cardinality(Places(currentBatch')) \in Nat
        /\ Cardinality(Places(currentBatch')) =
             Cardinality(Places(currentBatch)) - Len(currentBatch[d]) + 0
        /\ Len(currentBatch[d]) \in Nat
    <3>1. <<>> \in Seq(Event) /\ Len(<<>>) = 0
      OBVIOUS
    <3> QED
      BY <2>1, <3>1, DispatcherPlaces, Zenon
  <2>3. /\ IsFiniteSet(Places(batchQueue'))
        /\ Cardinality(Places(batchQueue')) = Cardinality(Places(batchQueue)) + Len(batch)
    BY <1>1, <2>1, HeldTypes, PlacesAppend, Zenon DEF FinitelyHeld
  <2>4. FinitelyHeld'
    BY <1>2, <2>2, <2>3, Zenon DEF FinitelyHeld
  <2>5. Held' = Held + 1 /\ Held \in Int
    BY <1>1, <1>2, <2>2, <2>3, HeldArrives, Zenon
  <2> QED
    BY <1>2, <2>4, <2>5, KeptUp, Zenon
<1>4. CASE Len(batch) # batchSize
  <2>1. currentBatch' = [currentBatch EXCEPT ![d] = batch] /\ batchQueue' = batchQueue
    BY <1>2, <1>4, Zenon
  <2>2. /\ IsFiniteSet(Places(currentBatch'))
        /\ Cardinality(Places(currentBatch')) \in Nat
        /\ Cardinality(Places(currentBatch')) =
             Cardinality(Places(currentBatch)) - Len(currentBatch[d]) + Len(batch)
        /\ Len(currentBatch[d]) \in Nat
    BY <1>1, <2>1, DispatcherPlaces, Zenon
  <2>3. FinitelyHeld'
    BY <1>2, <2>1, <2>2, Zenon DEF FinitelyHeld
  <2>4. Held' = Held + 1 /\ Held \in Int
    BY <1>1, <1>2, <2>1, <2>2, HeldArrives, Zenon
  <2> QED
    BY <1>2, <2>3, <2>4, KeptUp, Zenon
<1> QED
  BY <1>3, <1>4, Zenon

\* A partial batch is queued.
LEMMA KeptDispatchTimeout ==
  ASSUME TypeOK, TypeOK', FinitelyHeld, NEW d \in Dispatchers, DispatchTimeout(d)
  PROVE  Kept
<1>1. /\ Undelivered' = Undelivered /\ inFlight' = inFlight /\ currentBatch[d] \in Seq(Event)
      /\ batchQueue' = Append(batchQueue, currentBatch[d])
      /\ currentBatch' = [currentBatch EXCEPT ![d] = <<>>]
  BY HeldTypes, Zenon DEF DispatchTimeout, Undelivered, procVars
<1>2. /\ IsFiniteSet(Places(currentBatch'))
      /\ Cardinality(Places(currentBatch')) \in Nat
      /\ Cardinality(Places(currentBatch')) =
           Cardinality(Places(currentBatch)) - Len(currentBatch[d]) + 0
      /\ Len(currentBatch[d]) \in Nat
  <2>1. <<>> \in Seq(Event) /\ Len(<<>>) = 0
    OBVIOUS
  <2> QED
    BY <1>1, <2>1, DispatcherPlaces, Zenon
<1>3. /\ IsFiniteSet(Places(batchQueue'))
      /\ Cardinality(Places(batchQueue')) = Cardinality(Places(batchQueue)) + Len(currentBatch[d])
  <2>1. PICK b \in Seq(Event) : b = currentBatch[d]
    BY <1>1, Zenon
  <2>2. batchQueue' = Append(batchQueue, b)
    BY <1>1, <2>1, Zenon
  <2> QED
    BY <2>1, <2>2, HeldTypes, PlacesAppend, Zenon DEF FinitelyHeld
<1>4. FinitelyHeld'
  BY <1>1, <1>2, <1>3, Zenon DEF FinitelyHeld
<1>5. Held' = Held
  BY <1>1, <1>2, <1>3, HeldLeaves, Zenon
<1> QED
  BY <1>1, <1>4, <1>5, KeptFrom, Zenon

\* A dispatcher returns and drops its batch, which takes an update or a stop.
LEMMA KeptDispatchExit ==
  ASSUME TypeOK, TypeOK', FinitelyHeld, NEW d \in Dispatchers, DispatchExit(d)
  PROVE  Kept
<1>1. /\ Undelivered' = Undelivered /\ inFlight' = inFlight /\ batchQueue' = batchQueue
      /\ currentBatch' = [currentBatch EXCEPT ![d] = <<>>] /\ inFlight \in Int
  BY HeldTypes, Zenon DEF DispatchExit, Undelivered, procVars, batchVars
<1>2. /\ IsFiniteSet(Places(currentBatch'))
      /\ Cardinality(Places(currentBatch')) \in Nat
      /\ Cardinality(Places(currentBatch')) =
           Cardinality(Places(currentBatch)) - Len(currentBatch[d]) + 0
      /\ Len(currentBatch[d]) \in Nat
  <2>1. <<>> \in Seq(Event) /\ Len(<<>>) = 0
    OBVIOUS
  <2> QED
    BY <1>1, <2>1, DispatcherPlaces, Zenon
<1>3. FinitelyHeld'
  BY <1>1, <1>2, Zenon DEF FinitelyHeld
<1>4. Held' = Held - Len(currentBatch[d]) /\ Held \in Int
  BY <1>1, <1>2, HeldLeaves, Zenon
<1>5. ~Calm
  BY Zenon DEF DispatchExit, Calm
<1> QED
  BY <1>1, <1>2, <1>3, <1>4, <1>5, KeptDown, Zenon

\* A batch goes from the queue to a processor.
LEMMA KeptProcessorTake ==
  ASSUME TypeOK, TypeOK', FinitelyHeld, NEW p \in Processors, ProcessorTake(p)
  PROVE  Kept
<1>1. /\ currentBatch' = currentBatch /\ inFlight' = inFlight /\ inFlight \in Int
      /\ batchQueue # <<>> /\ batchQueue' = Tail(batchQueue) /\ procPC[p] = "idle"
      /\ \A q \in Processors \ {p} : procPC'[q] = procPC[q] /\ procBatch'[q] = procBatch[q]
      /\ procPC'[p] = "loop" /\ procBatch'[p] = Head(batchQueue)
  BY HeldTypes, Zenon DEF ProcessorTake, dispVars
<1>2. Undelivered[p] = procBatch[p] /\ Undelivered'[p] = Head(batchQueue)
  BY <1>1, Zenon DEF Undelivered
<1>3. /\ IsFiniteSet(Places(Undelivered')) /\ Cardinality(Places(Undelivered')) \in Nat
      /\ Cardinality(Places(Undelivered')) =
           Cardinality(Places(Undelivered)) - Len(procBatch[p]) + Len(Head(batchQueue))
      /\ Len(procBatch[p]) \in Nat /\ Len(Head(batchQueue)) \in Nat
  BY <1>1, <1>2, ProcessorPlaces, Zenon
<1>4. /\ IsFiniteSet(Places(batchQueue')) /\ Cardinality(Places(batchQueue')) \in Nat
      /\ Cardinality(Places(batchQueue)) = Cardinality(Places(batchQueue')) + Len(Head(batchQueue))
  BY <1>1, HeldTypes, PlacesTail, Zenon DEF FinitelyHeld
<1>5. FinitelyHeld'
  BY <1>1, <1>3, <1>4, Zenon DEF FinitelyHeld
<1>6. Held' = Held - Len(procBatch[p]) /\ Held \in Int
  BY <1>1, <1>3, <1>4, HeldTaken, Zenon
<1>7. Calm => Len(procBatch[p]) = 0
  BY <1>1 DEF Calm
<1> QED
  BY <1>1, <1>3, <1>5, <1>6, <1>7, KeptDown, Zenon

\* The steps at the end of a batch.
LEMMA KeptProcessorDrop ==
  ASSUME TypeOK, TypeOK', FinitelyHeld, NEW p \in Processors,
         UNCHANGED <<currentBatch, batchQueue>>,
         \A q \in Processors \ {p} : procPC'[q] = procPC[q] /\ procBatch'[q] = procBatch[q],
         Undelivered'[p] = <<>>,
         \/ inFlight' = inFlight /\ (Undelivered[p] = <<>> \/ ~Calm)
         \/ inFlight' = inFlight - Len(Undelivered[p])
  PROVE  Kept
<1>0. Len(Undelivered'[p]) = 0 /\ inFlight \in Int
  BY HeldTypes, Zenon
<1>1. /\ IsFiniteSet(Places(Undelivered')) /\ Cardinality(Places(Undelivered')) \in Nat
      /\ Cardinality(Places(Undelivered')) =
           Cardinality(Places(Undelivered)) - Len(Undelivered[p]) + 0
      /\ Len(Undelivered[p]) \in Nat
  BY <1>0, ProcessorPlaces, Zenon
<1>2. FinitelyHeld'
  BY <1>1, Zenon DEF FinitelyHeld
<1>3. Held' = Held - Len(Undelivered[p]) /\ Held \in Int
  BY <1>1, HeldTaken, Zenon
<1>4. Undelivered[p] = <<>> => Len(Undelivered[p]) = 0
  OBVIOUS
<1> QED
  BY <1>0, <1>1, <1>2, <1>3, <1>4, KeptDown, Zenon

\* The goroutines of batchProcessor.
LEMMA KeptProcessing ==
  ASSUME TypeOK, TypeOK', FinitelyHeld, Processing
  PROVE  Kept
<1> PICK p \in Processors :
      \/ ProcessorTake(p) \/ ProcessorSuspended(p)
      \/ ProcessorUpdated(p) \/ ProcessorExit(p)
      \/ ProcessBatch(p) \/ PerformAction(p)
      \/ AttemptOK(p) \/ AttemptRetry(p) \/ AttemptFail(p)
      \/ ReleaseBatch(p) \/ AckBatch(p)
  BY Zenon DEF Processing
<1>0. DOMAIN procPC = Processors /\ DOMAIN procBatch = Processors
  BY HeldTypes, Zenon
<1>1. ASSUME NEW pc, pc # "ack", procPC[p] # "ack", procPC' = [procPC EXCEPT ![p] = pc],
             UNCHANGED <<inFlight, batchQueue, currentBatch, procBatch>>
      PROVE  Kept
  <2>1. \A q \in Processors : procPC'[q] = "ack" <=> procPC[q] = "ack"
    BY <1>0, <1>1, Zenon
  <2> QED
    BY <1>1, <2>1, QuietKept, Zenon
<1>2. CASE ProcessorSuspended(p) \/ ProcessorExit(p) \/ AttemptRetry(p)
  <2>1. PICK pc : /\ pc # "ack" /\ procPC[p] # "ack" /\ procPC' = [procPC EXCEPT ![p] = pc]
                  /\ UNCHANGED <<inFlight, batchQueue, currentBatch, procBatch>>
    BY <1>2, Zenon DEF ProcessorSuspended, ProcessorExit, AttemptRetry, batchVars, dispVars
  <2> QED
    BY <1>1, <2>1, Zenon
<1>3. CASE ProcessorUpdated(p)
  <2>1. PICK pc : /\ pc # "ack" /\ procPC[p] # "ack" /\ procPC' = [procPC EXCEPT ![p] = pc]
                  /\ UNCHANGED <<inFlight, batchQueue, currentBatch, procBatch>>
    BY <1>3, Zenon DEF ProcessorUpdated, batchVars, dispVars
  <2> QED
    BY <1>1, <2>1, Zenon
<1>4. CASE PerformAction(p) \/ AttemptOK(p) \/ AttemptFail(p)
  <2>1. PICK pc : /\ pc # "ack" /\ procPC[p] # "ack" /\ procPC' = [procPC EXCEPT ![p] = pc]
                  /\ UNCHANGED <<inFlight, batchQueue, currentBatch, procBatch>>
    BY <1>4, Zenon DEF PerformAction, AttemptOK, AttemptFail, Returned, batchVars, dispVars
  <2> QED
    BY <1>1, <2>1, Zenon
<1>5. CASE ProcessBatch(p)
  <2>1. UNCHANGED <<inFlight, batchQueue, currentBatch>> /\ procPC[p] = "loop"
    BY <1>5, Zenon DEF ProcessBatch, batchVars, dispVars
  <2>2. CASE Interrupted /\ BatchDone(p)
    <3>1. /\ \A q \in Processors \ {p} : procPC'[q] = procPC[q] /\ procBatch'[q] = procBatch[q]
          /\ procBatch'[p] = <<>>
      BY <1>0, <2>2, Zenon DEF BatchDone
    <3>2. Undelivered'[p] = <<>> /\ ~Calm
      BY <2>2, <3>1, Zenon DEF Undelivered, Calm, Interrupted
    <3> QED
      BY <2>1, <3>1, <3>2, KeptProcessorDrop, Zenon
  <2>3. CASE ~(Interrupted /\ BatchDone(p))
    <3>1. PICK pc : /\ pc # "ack" /\ procPC' = [procPC EXCEPT ![p] = pc] /\ procBatch' = procBatch
      BY <1>5, <2>3, Zenon DEF ProcessBatch
    <3> QED
      BY <1>1, <2>1, <3>1, Zenon
  <2> QED
    BY <2>2, <2>3, Zenon
<1>6. CASE ReleaseBatch(p)
  <2>1. /\ UNCHANGED <<batchQueue, currentBatch, procBatch>>
        /\ \A q \in Processors \ {p} : procPC'[q] = procPC[q]
        /\ procPC'[p] = "ack" /\ procPC[p] \in {"processed", "abandoned"}
        /\ inFlight' = IF procPC[p] = "processed" THEN inFlight - Len(procBatch[p]) ELSE inFlight
    BY <1>0, <1>6, Zenon DEF ReleaseBatch, dispVars
  <2>2. /\ Undelivered'[p] = <<>> /\ Undelivered[p] = procBatch[p]
        /\ procPC[p] = "abandoned" => ~Calm
    BY <2>1, Zenon DEF Undelivered, Calm
  <2> QED
    BY <2>1, <2>2, KeptProcessorDrop, Zenon
<1>7. CASE AckBatch(p)
  <2>1. /\ UNCHANGED <<inFlight, batchQueue, currentBatch>> /\ procPC[p] = "ack"
        /\ \A q \in Processors \ {p} : procPC'[q] = procPC[q] /\ procBatch'[q] = procBatch[q]
        /\ procBatch'[p] = <<>>
    BY <1>0, <1>7, Zenon DEF AckBatch, BatchDone, batchVars, dispVars
  <2>2. Undelivered'[p] = <<>> /\ Undelivered[p] = <<>>
    BY <2>1, Zenon DEF Undelivered
  <2> QED
    BY <2>1, <2>2, KeptProcessorDrop, Zenon
<1> QED
  BY <1>2, <1>3, <1>4, <1>5, <1>6, <1>7, KeptProcessorTake, Zenon

\* Nothing is held.
LEMMA NothingHeld ==
  ASSUME currentBatch = [d \in Dispatchers |-> <<>>], batchQueue = <<>>,
         procBatch = [p \in Processors |-> <<>>]
  PROVE  FinitelyHeld /\ Held = 0
<1>1. Undelivered = [p \in Processors |-> <<>>]
  BY Zenon DEF Undelivered
<1>2. Places(currentBatch) = {} /\ Places(batchQueue) = {} /\ Places(Undelivered) = {}
  <2>1. Places(batchQueue) = {}
    BY DEF Places
  <2>2. Places(currentBatch) = {}
    BY DEF Places
  <2>3. Places(Undelivered) = {}
    BY <1>1 DEF Places
  <2> QED
    BY <2>1, <2>2, <2>3, Zenon
<1>3. IsFiniteSet({}) /\ Cardinality({}) = 0
  BY FS_EmptySet, Zenon
<1>4. /\ Cardinality(Places(currentBatch)) = 0 /\ Cardinality(Places(batchQueue)) = 0
      /\ Cardinality(Places(Undelivered)) = 0 /\ FinitelyHeld
  BY <1>2, <1>3, Zenon DEF FinitelyHeld
<1>5. Held = 0 + 0 + 0
  BY <1>4, Zenon DEF Held
<1> QED
  BY <1>4, <1>5

\* A restarted process holds nothing and counts nothing.
LEMMA KeptCrash == Crash => Kept
<1> SUFFICES ASSUME Crash PROVE Kept
  BY Zenon
<1>1. (/\ currentBatch = [d \in Dispatchers |-> <<>>] /\ batchQueue = <<>>
       /\ procBatch = [p \in Processors |-> <<>>])' => (FinitelyHeld /\ Held = 0)'
  BY NothingHeld, PTL
<1>2. FinitelyHeld' /\ Held' = 0 /\ inFlight' = 0
  BY <1>1, Zenon DEF Crash
<1> QED
  BY <1>2 DEF Kept, InFlightCovers, InFlightExact

\* No other step moves an event.
LEMMA KeptStep ==
  ASSUME TypeOK, TypeOK', FinitelyHeld, [Next]_vars
  PROVE  Kept
<1> USE DEF batchVars, dispVars, procVars
<1>0. DOMAIN procPC = Processors
  BY HeldTypes, Zenon
<1>1. ASSUME UNCHANGED <<inFlight, batchQueue, currentBatch, procBatch, procPC>> PROVE Kept
  BY <1>1, QuietKept, Zenon
<1>2. CASE UNCHANGED vars
  BY <1>1, <1>2, Zenon DEF vars
<1>3. CASE Mine \/ (\E s \in Subs : RecoverSubscription(s)) \/ Relaying
  BY <1>1, <1>3 DEF Mine, RecoverSubscription, Relaying, RelayRead, RelayExit
<1>4. CASE Polling
  BY <1>1, <1>4, Zenon DEF Polling, PollExit, PollBegin, PollLoadFails, PollSub, PollSubscribed,
     PollSubscribeFails, PollRecord, PollWait
<1>5. CASE Dispatching
  BY <1>5, KeptDispatchEvent, KeptDispatchTimeout, KeptDispatchExit, Zenon DEF Dispatching
<1>6. CASE Handlers
  <2>1. CASE Resume \/ UpdateFinish
    <3>1. UNCHANGED <<inFlight, batchQueue>> /\ \E b \in BOOLEAN : StartEventHandlers(b)
      BY <2>1, Zenon DEF Resume, UpdateFinish
    <3>2. currentBatch' = currentBatch /\ procBatch' = procBatch
      BY <3>1, Zenon DEF StartEventHandlers
    <3>3. PICK p \in Processors : procPC[p] = "off" /\ procPC' = [procPC EXCEPT ![p] = "idle"]
      BY <3>1, Zenon DEF StartEventHandlers
    <3>4. \A q \in Processors : procPC'[q] = "ack" <=> procPC[q] = "ack"
      BY <1>0, <3>3, Zenon
    <3> QED
      BY <3>1, <3>2, <3>4, QuietKept, Zenon
  <2>2. CASE Suspend \/ UpdateBegin \/ UpdateRefused \/ Stop
    BY <1>1, <2>2, Zenon DEF Suspend, UpdateBegin, UpdateRefused, Stop
  <2>3. ASSUME NEW s \in Subs, \/ AddSubscription(s) \/ DeleteSubscription(s)
                               \/ \E b \in ResetBlocks : ResetSubscription(s, b)
        PROVE  Kept
    BY <1>1, <2>3, Zenon DEF AddSubscription, DeleteSubscription, ResetSubscription
  <2> QED
    BY <1>6, <2>1, <2>2, <2>3, Zenon DEF Handlers
<1> QED
  BY <1>2, <1>3, <1>4, <1>5, <1>6, KeptCrash, KeptProcessing, Zenon DEF Next

\* Calm is kept until the stream is suspended, updated or stopped.
LEMMA CalmStep ==
  ASSUME TypeOK, Uninterrupted => Calm, [Next]_vars, Uninterrupted'
  PROVE  Uninterrupted /\ Calm'
<1> USE DEF streamVars, updateVars, procVars
<1>0. ops \in [OpNames -> Nat] /\ DOMAIN procPC = Processors /\ DOMAIN procBatch = Processors
  BY HeldTypes, Zenon
<1>1. ASSUME NEW op \in OpNames, Count(op)
      PROVE  Uninterrupted /\ op \notin {"suspend", "update", "stop"}
  <2>1. \A o \in OpNames : ops'[o] = (IF o = op THEN ops[o] + 1 ELSE ops[o]) /\ ops[o] \in Nat
    BY <1>0, <1>1, Zenon DEF Count
  <2>2. {"suspend", "update", "stop"} \subseteq OpNames
    BY DEF OpNames
  <2>3. \A n \in Nat : n + 1 # 0
    OBVIOUS
  <2> QED
    BY <2>1, <2>2, <2>3, Zenon DEF Uninterrupted
<1>2. ASSUME UNCHANGED <<suspended, stopped, closed, procPC, procBatch>>,
             ops' = ops \/ \E op \in OpNames : Count(op)
      PROVE  Uninterrupted /\ Calm'
  <2>1. Uninterrupted
    BY <1>1, <1>2, Zenon DEF Uninterrupted
  <2> QED
    BY <1>2, <2>1, Zenon DEF Calm
<1>3. CASE UNCHANGED vars
  BY <1>2, <1>3, Zenon DEF vars
<1>4. CASE Mine \/ (\E s \in Subs : RecoverSubscription(s)) \/ Relaying
  BY <1>2, <1>4 DEF Mine, RecoverSubscription, Relaying, RelayRead, RelayExit
<1>5. CASE Polling
  BY <1>2, <1>5, Zenon DEF Polling, PollExit, PollBegin, PollLoadFails, PollSub, PollSubscribed,
     PollSubscribeFails, PollRecord, PollWait
<1>6. CASE Dispatching
  BY <1>2, <1>6, ZenonT(30) DEF Dispatching, DispatchEvent, DispatchTimeout, DispatchExit
<1>7. CASE Crash
  <2>1. Uninterrupted
    BY <1>1, <1>7, Zenon DEF Crash, OpNames
  <2>2. ~suspended' /\ ~stopped' /\ closed' = {}
    BY <1>7, <2>1, Zenon DEF Crash, Calm
  <2>3. \A p \in Processors : procPC'[p] \in {"off", "idle"} /\ procBatch'[p] = <<>>
    BY <1>7, Zenon DEF Crash
  <2> QED
    BY <2>1, <2>2, <2>3, Zenon DEF Calm
<1>8. CASE Handlers
  <2>1. CASE Suspend \/ UpdateBegin \/ Stop
    BY <1>1, <2>1, Zenon DEF Suspend, UpdateBegin, Stop, OpNames
  <2>2. CASE UpdateRefused
    BY <1>2, <2>2, Zenon DEF UpdateRefused, OpNames
  <2>3. CASE Resume \/ UpdateFinish
    <3>1. /\ Uninterrupted /\ closed' = closed /\ stopped' = stopped
          /\ suspended' = FALSE \/ suspended' = suspended
      <4>1. CASE Resume
        BY <1>1, <4>1, Zenon DEF Resume, OpNames
      <4>2. CASE UpdateFinish
        BY <4>2, Zenon DEF UpdateFinish, Uninterrupted
      <4> QED
        BY <2>3, <4>1, <4>2, Zenon
    <3>2. \E b \in BOOLEAN : StartEventHandlers(b)
      BY <2>3, Zenon DEF Resume, UpdateFinish
    <3>3. procBatch' = procBatch
      BY <3>2, Zenon DEF StartEventHandlers
    <3>4. PICK p \in Processors : procPC[p] = "off" /\ procPC' = [procPC EXCEPT ![p] = "idle"]
      BY <3>2, Zenon DEF StartEventHandlers
    <3>5. ASSUME NEW q \in Processors
          PROVE  /\ procPC'[q] # "abandoned"
                 /\ procPC'[q] \in {"off", "idle", "exiting", "stuck"} => procBatch'[q] = <<>>
      BY <1>0, <3>1, <3>3, <3>4, Zenon DEF Calm
    <3>6. ~suspended' /\ ~stopped' /\ closed' = {}
      <4>1. ~suspended /\ ~stopped /\ closed = {}
        BY <3>1, Zenon DEF Calm
      <4>2. CASE suspended' = FALSE
        BY <3>1, <4>1, <4>2, Zenon
      <4>3. CASE suspended' = suspended
        BY <3>1, <4>1, <4>3, Zenon
      <4> QED
        BY <3>1, <4>2, <4>3, Zenon
    <3> QED
      BY <3>1, <3>5, <3>6, Zenon DEF Calm
  <2>4. ASSUME NEW s \in Subs, \/ AddSubscription(s) \/ DeleteSubscription(s)
                               \/ \E b \in ResetBlocks : ResetSubscription(s, b)
        PROVE  Uninterrupted /\ Calm'
    BY <1>2, <2>4, Zenon DEF AddSubscription, DeleteSubscription, ResetSubscription, OpNames
  <2> QED
    BY <1>8, <2>1, <2>2, <2>3, <2>4, Zenon DEF Handlers
<1>9. CASE Processing
  <2> PICK p \in Processors :
        \/ ProcessorTake(p) \/ ProcessorSuspended(p)
        \/ ProcessorUpdated(p) \/ ProcessorExit(p)
        \/ ProcessBatch(p) \/ PerformAction(p)
        \/ AttemptOK(p) \/ AttemptRetry(p) \/ AttemptFail(p)
        \/ ReleaseBatch(p) \/ AckBatch(p)
    BY <1>9, Zenon DEF Processing
  <2>1. UNCHANGED <<suspended, stopped, closed, ops>>
    BY Zenon DEF ProcessorTake, ProcessorSuspended, ProcessorUpdated, ProcessorExit, ProcessBatch,
       PerformAction, AttemptOK, AttemptRetry, AttemptFail, ReleaseBatch, AckBatch
  <2>2. Uninterrupted /\ Calm
    BY <2>1, Zenon DEF Uninterrupted
  <2>3. ASSUME NEW pc, procPC' = [procPC EXCEPT ![p] = pc], pc # "abandoned",
               \/ procBatch' = [procBatch EXCEPT ![p] = <<>>]
               \/ /\ \A q \in Processors \ {p} : procBatch'[q] = procBatch[q]
                  /\ pc \notin {"off", "idle", "exiting", "stuck"}
               \/ /\ procBatch' = procBatch
                  /\ procPC[p] \in {"off", "idle", "exiting", "stuck"}
        PROVE  Calm'
    <3>1. \A q \in Processors \ {p} : procPC'[q] = procPC[q] /\ procBatch'[q] = procBatch[q]
      BY <1>0, <2>3, Zenon
    <3>2. procPC'[p] # "abandoned"
          /\ (procPC'[p] \in {"off", "idle", "exiting", "stuck"} => procBatch'[p] = <<>>)
      BY <1>0, <2>2, <2>3, Zenon DEF Calm
    <3> QED
      BY <2>1, <2>2, <3>1, <3>2, Zenon DEF Calm
  <2>4. CASE ProcessorTake(p)
    BY <1>0, <2>2, <2>3, <2>4, Zenon DEF ProcessorTake
  <2>5. CASE ProcessorSuspended(p) \/ ProcessorExit(p)
    BY <2>2, <2>3, <2>5, Zenon DEF ProcessorSuspended, ProcessorExit
  <2>6. CASE ProcessorUpdated(p)
    BY <2>2, <2>3, <2>6, Zenon DEF ProcessorUpdated
  <2>7. CASE ProcessBatch(p)
    <3>1. ~suspendOrStop
      BY <2>2, Zenon DEF Calm, suspendOrStop
    <3> QED
      BY <2>2, <2>3, <2>7, <3>1, Zenon DEF ProcessBatch, BatchDone
  <2>8. CASE PerformAction(p) \/ AttemptOK(p) \/ AttemptFail(p) \/ AttemptRetry(p)
    BY <2>2, <2>3, <2>8, Zenon DEF PerformAction, AttemptOK, AttemptFail, AttemptRetry, Returned
  <2>9. CASE ReleaseBatch(p)
    BY <2>2, <2>3, <2>9, Zenon DEF ReleaseBatch
  <2>10. CASE AckBatch(p)
    BY <2>2, <2>3, <2>10, Zenon DEF AckBatch, BatchDone
  <2> QED
    BY <2>4, <2>5, <2>6, <2>7, <2>8, <2>9, <2>10, Zenon
<1> QED
  BY <1>3, <1>4, <1>5, <1>6, <1>7, <1>8, <1>9, Zenon DEF Next

\* newEventStream holds nothing.
LEMMA HeldInit == Init => HeldInv
<1> SUFFICES ASSUME Init PROVE HeldInv
  BY Zenon
<1>1. FinitelyHeld /\ Held = 0 /\ inFlight = 0
  BY NothingHeld, Zenon DEF Init
<1>2. \A p \in Processors : procPC[p] \in {"off", "idle"} /\ procBatch[p] = <<>>
  BY Zenon DEF Init
<1>3. Calm
  BY <1>2, Zenon DEF Init, Calm
<1> QED
  BY <1>1, <1>3 DEF HeldInv, InFlightCovers, InFlightExact

\* inFlight covers the events held, and counts them exactly until the stream
\* is first suspended, updated or stopped.
THEOREM HeldInvariant == Spec => []HeldInv
<1>1. TypeOK /\ TypeOK' /\ HeldInv /\ [Next]_vars => HeldInv'
  <2> SUFFICES ASSUME TypeOK, TypeOK', HeldInv, [Next]_vars PROVE HeldInv'
    BY Zenon
  <2>1. Kept
    BY KeptStep, Zenon DEF HeldInv
  <2>2. Uninterrupted' => Uninterrupted /\ Calm'
    BY CalmStep, Zenon DEF HeldInv
  <2> QED
    BY <2>1, <2>2, Zenon DEF HeldInv, Kept
<1> QED
  BY <1>1, HeldInit, TypeCorrect, PTL DEF Spec

\* inFlight is never less than the events the stream holds, whatever the REST
\* operations and crashes do, so that blocking at the in-flight limit bounds them.
THEOREM CountCovers == Spec => []InFlightCovers
<1>1. HeldInv => InFlightCovers
  BY Zenon DEF HeldInv
<1> QED
  BY <1>1, HeldInvariant, PTL

\* Until the stream is first suspended, updated or stopped, inFlight is the exact
\* number of events held: every batch is taken off it once, after whatever
\* retries and failed deliveries.
THEOREM CountExact ==
  Spec => []((ops["suspend"] = 0 /\ ops["update"] = 0 /\ ops["stop"] = 0) => InFlightExact)
<1>1. HeldInv =>
        ((ops["suspend"] = 0 /\ ops["update"] = 0 /\ ops["stop"] = 0) => InFlightExact)
  BY Zenon DEF HeldInv, Uninterrupted
<1> QED
  BY <1>1, HeldInvariant, PTL

\* inFlight, an unsigned counter in the code, is never taken below zero, where it
\* would wrap around and block the poller for good.
THEOREM CountNeverWraps == Spec => [](inFlight \in Nat)
<1>1. TypeOK /\ HeldInv => inFlight \in Nat
  <2> SUFFICES ASSUME TypeOK, HeldInv PROVE inFlight \in Nat
    BY Zenon
  <2> DEFINE a == Cardinality(Places(currentBatch))
             b == Cardinality(Places(batchQueue))
             c == Cardinality(Places(Undelivered))
  <2>1. a \in Nat /\ b \in Nat /\ c \in Nat
    BY HeldNumbers, Zenon DEF HeldInv
  <2>2. inFlight >= a + b + c
    BY Zenon DEF HeldInv, InFlightCovers, Held
  <2>3. inFlight \in Int
    BY Zenon DEF TypeOK, StreamTypeOK
  <2> HIDE DEF a, b, c
  <2> QED
    BY <2>1, <2>2, <2>3
<1> QED
  BY <1>1, HeldInvariant, TypeCorrect, PTL
=============================================================================
