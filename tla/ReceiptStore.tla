---------------------------- MODULE ReceiptStore ----------------------------
(***************************************************************************)
(* The receipt store (rest/receipt) fed by the loop that consumes the      *)
(* replies of a Kafka topic (rest/async/kafkahandler.go) through a         *)
(* consumer group (kafka/client.go).                                       *)
(*                                                                         *)
(* docs holds the stored receipts, oldest first, for each of the three     *)
(* persistences.  In LevelDB the place of a receipt in docs is the order   *)
(* of its "z<ulid>" key, and idx holds the index entries, each written by  *)
(* a Put of its own.  The receivedAt of a receipt is read from a clock     *)
(* that does not go back.                                                  *)
(***************************************************************************)
EXTENDS Naturals, Sequences

CONSTANTS
  Replies,    \* the replies on the topic: a sequence of receipts, or Bad
  Bad,        \* a reply without JSON, headers or request ID
  IDs,        \* request IDs
  Addresses,  \* values of the "from" and "to" of receipts
  None,       \* no value
  MaxDocs,    \* conf.MaxDocs
  Kinds,      \* the persistences to consider: "leveldb", "mongo", "memory"
  MaxTime,    \* bound: the clock stops here
  MaxFaults   \* bound: failed writes, crashes and rebalances together

Parsed == [id : IDs, from : Addresses \cup {None}, to : Addresses \cup {None}]

ASSUME ReceiptAssumption ==
  /\ Replies \in Seq(Parsed \cup {Bad}) /\ Bad \notin Parsed
  /\ None \notin Addresses
  /\ MaxDocs \in Nat \ {0} /\ MaxTime \in Nat \ {0} /\ MaxFaults \in Nat
  /\ Kinds \subseteq {"leveldb", "mongo", "memory"}

VARIABLES
  kind,       \* the persistence NewReceiptStore has chosen
  now,        \* the clock
  docs,       \* stored receipts, oldest first
  idx,        \* index entries of LevelDB: sets of places in docs, and lookup by ID
  step,       \* where the consumer loop is in ProcessReceipt
  cur,        \* the offset it processes
  stamp,      \* the receivedAt of the receipt it writes
  session,    \* whether the group handler has a session
  next,       \* the offset the claim delivers next
  held,       \* the offset ConsumeClaim holds for the loop, 0 if none
  marked,     \* the last offset marked in the session
  committed,  \* the last offset committed at the brokers
  faults      \* faults so far

store    == <<kind, docs, idx>>
loop     == <<step, cur, stamp>>
consumer == <<session, next, held, marked, committed>>
vars     == <<store, loop, consumer, now, faults>>

Docs    == [id : IDs, from : Addresses \cup {None}, to : Addresses \cup {None}, at : Nat]
Offsets == 0 .. Len(Replies)
NoIndex == [from |-> {}, to |-> {}, at |-> {}, lookup |-> [i \in IDs |-> 0]]

TypeOK ==
  /\ kind \in Kinds /\ now \in 1..MaxTime /\ docs \in Seq(Docs)
  /\ kind # "leveldb" => Len(docs) <= MaxDocs
  /\ idx \in [from : SUBSET Nat, to : SUBSET Nat, at : SUBSET Nat, lookup : [IDs -> Nat]]
  /\ step \in {"idle", "parse", "data", "from", "to", "at", "lookup", "failed",
               "announce", "mark"}
  /\ cur \in Offsets /\ stamp \in 0..MaxTime /\ session \in BOOLEAN
  /\ next \in 1 .. Len(Replies) + 1 /\ held \in Offsets /\ marked \in Offsets
  /\ committed \in Offsets /\ faults \in 0..MaxFaults

Init ==
  /\ kind \in Kinds /\ now = 1 /\ docs = <<>> /\ idx = NoIndex
  /\ step = "idle" /\ cur = 0 /\ stamp = 0
  /\ session = FALSE /\ next = 1 /\ held = 0 /\ marked = 0 /\ committed = 0
  /\ faults = 0

Fault == faults < MaxFaults /\ faults' = faults + 1

-----------------------------------------------------------------------------
(* Persistence.                                                            *)

Reply   == Replies[cur]
Receipt == [id |-> Reply.id, from |-> Reply.from, to |-> Reply.to, at |-> stamp]

\* The memory store and the capped collection drop their oldest receipt when full.
Push(d) == Append(IF docs # <<>> /\ Len(docs) >= MaxDocs THEN Tail(docs) ELSE docs, d)

\* The memory store searches its list; MongoDB its _id; LevelDB follows the
\* entry of the request ID, and fails if the receipt it names is not there.
Stored(id) ==
  IF kind = "leveldb" THEN idx.lookup[id] \in 1..Len(docs)
                      ELSE \E k \in 1..Len(docs) : docs[k].id = id

\* The Put of AddReceipt that follows each one, with the entry it writes.
AfterPut ==
  CASE step = "data"   -> "from"
    [] step = "from"   -> IF Reply.to = None THEN "at" ELSE "to"
    [] step = "to"     -> "at"
    [] step = "at"     -> "lookup"
    [] step = "lookup" -> "announce"

\* The lookup entry is written first, as if it were a reservation.
LookupFirst ==
  /\ docs' = IF step = "data" THEN Append(docs, Receipt) ELSE docs
  /\ idx' = CASE step = "data"   -> [idx EXCEPT !.lookup[Reply.id] = Len(docs) + 1]
              [] step = "from"   -> [idx EXCEPT !.from = @ \cup {Len(docs)}]
              [] step = "to"     -> [idx EXCEPT !.to = @ \cup {Len(docs)}]
              [] step = "at"     -> [idx EXCEPT !.at = @ \cup {Len(docs)}]
              [] step = "lookup" -> idx
  /\ step' = AfterPut

Put ==
  /\ docs' = IF step = "data" THEN Append(docs, Receipt) ELSE docs
  /\ idx' = CASE step = "data"   -> idx
              [] step = "from"   -> [idx EXCEPT !.from = @ \cup {Len(docs)}]
              [] step = "to"     -> [idx EXCEPT !.to = @ \cup {Len(docs)}]
              [] step = "at"     -> [idx EXCEPT !.at = @ \cup {Len(docs)}]
              [] step = "lookup" -> [idx EXCEPT !.lookup[Reply.id] = Len(docs)]
  /\ step' = AfterPut

LevelDBAdd ==
  /\ kind = "leveldb" /\ step \in {"data", "from", "to", "at", "lookup"}
  /\ Put /\ UNCHANGED <<kind, cur, stamp, consumer, now, faults>>

LevelDBAddFails ==
  /\ kind = "leveldb" /\ step \in {"data", "from", "to", "at", "lookup"} /\ Fault
  /\ step' = "failed" /\ UNCHANGED <<store, cur, stamp, consumer, now>>

MemoryAdd ==
  /\ kind = "memory" /\ step = "data" /\ docs' = Push(Receipt) /\ step' = "announce"
  /\ UNCHANGED <<kind, idx, cur, stamp, consumer, now, faults>>

\* A MongoDB insert is refused if the collection has a document of that _id.
MongoAdd ==
  /\ kind = "mongo" /\ step = "data"
  /\ IF Stored(Reply.id) THEN step' = "failed" /\ docs' = docs
     ELSE step' = "announce" /\ docs' = Push(Receipt)
  /\ UNCHANGED <<kind, idx, cur, stamp, consumer, now, faults>>

\* The answer of an insert may be lost after the document has been stored.
MongoAddFails ==
  /\ kind = "mongo" /\ step = "data" /\ ~Stored(Reply.id) /\ Fault
  /\ step' = "failed" /\ docs' \in {docs, Push(Receipt)}
  /\ UNCHANGED <<kind, idx, cur, stamp, consumer, now>>

-----------------------------------------------------------------------------
(* ProcessReceipt and writeReceipt.                                        *)

\* Time passes: the clock is read here only.
ProcessReceipt ==
  /\ step = "parse"
  /\ IF Reply = Bad THEN step' = "mark" /\ UNCHANGED <<now, stamp>>
     ELSE step' = "data" /\ now' \in now..MaxTime /\ stamp' = now'
  /\ UNCHANGED <<store, cur, consumer, faults>>

\* No second attempt is made.
NoRetry ==
  /\ step = "failed" /\ step' = "announce"
  /\ UNCHANGED <<store, cur, stamp, consumer, now, faults>>

\* A failed write that finds a receipt of the request is taken for a duplicate.
WriteReceiptRetry ==
  /\ step = "failed"
  /\ step' = IF Stored(Reply.id) THEN "announce" ELSE "data"
  /\ UNCHANGED <<store, cur, stamp, consumer, now, faults>>

\* Its query may fail as well, and then the write is attempted again.
DuplicateQueryFails ==
  /\ step = "failed" /\ Stored(Reply.id) /\ Fault /\ step' = "data"
  /\ UNCHANGED <<store, cur, stamp, consumer, now>>

SendReply ==
  /\ step = "announce" /\ step' = "mark"
  /\ UNCHANGED <<store, cur, stamp, consumer, now, faults>>

-----------------------------------------------------------------------------
(* The consumer group and the loop of the Kafka handler.                   *)

Setup ==
  /\ ~session /\ session' = TRUE /\ next' = committed + 1 /\ marked' = committed
  /\ UNCHANGED <<store, loop, held, committed, now, faults>>

ConsumeClaim ==
  /\ session /\ held = 0 /\ next \in 1..Len(Replies) /\ held' = next /\ next' = next + 1
  /\ UNCHANGED <<store, loop, session, marked, committed, now, faults>>

\* The offset is marked when the message is taken from the claim.
MarkEarly ==
  /\ step = "idle" /\ held # 0 /\ cur' = held /\ held' = 0 /\ step' = "parse"
  /\ marked' = IF session /\ held > marked THEN held ELSE marked
  /\ UNCHANGED <<store, stamp, session, next, committed, now, faults>>

\* The loop takes the next message from the handler's unbuffered channel.
ConsumerMessagesLoop ==
  /\ step = "idle" /\ held # 0 /\ cur' = held /\ held' = 0 /\ step' = "parse"
  /\ UNCHANGED <<store, stamp, session, next, marked, committed, now, faults>>

\* Only replies that were stored are marked.
MarkOnlyStored ==
  /\ step = "mark" /\ step' = "idle" /\ cur' = 0 /\ stamp' = 0
  /\ marked' = IF session /\ Reply # Bad /\ cur > marked THEN cur ELSE marked
  /\ UNCHANGED <<store, session, next, held, committed, now, faults>>

\* Without a session the mark is dropped, with a later session it is made there.
MarkOffset ==
  /\ step = "mark" /\ step' = "idle" /\ cur' = 0 /\ stamp' = 0
  /\ marked' = IF session /\ cur > marked THEN cur ELSE marked
  /\ UNCHANGED <<store, session, next, held, committed, now, faults>>

\* The library commits the marks from time to time.
CommitMarks ==
  /\ session /\ committed < marked /\ committed' = marked
  /\ UNCHANGED <<store, loop, session, next, held, marked, now, faults>>

\* A rebalance ends the session once ConsumeClaim has handed over its message;
\* the marks are then committed, unless that fails.
Cleanup ==
  /\ session /\ held = 0 /\ Fault /\ session' = FALSE
  /\ committed' \in {committed, marked}
  /\ UNCHANGED <<store, loop, next, held, marked, now>>

\* The process is stopped and started again, or writeReceipt panics after its
\* retry timeout.  The memory store starts empty.
Restart ==
  /\ Fault /\ docs' = IF kind = "memory" THEN <<>> ELSE docs
  /\ step' = "idle" /\ cur' = 0 /\ stamp' = 0
  /\ session' = FALSE /\ next' = 1 /\ held' = 0 /\ marked' = committed
  /\ UNCHANGED <<kind, idx, committed, now>>

Steps ==
  \/ LevelDBAdd \/ MemoryAdd \/ MongoAdd
  \/ ProcessReceipt \/ WriteReceiptRetry \/ SendReply
  \/ Setup \/ ConsumeClaim \/ ConsumerMessagesLoop \/ MarkOffset \/ CommitMarks

Next == Steps \/ LevelDBAddFails \/ MongoAddFails \/ DuplicateQueryFails
          \/ Cleanup \/ Restart

Spec == Init /\ [][Next]_vars

\* The goroutines and the Kafka library keep running.
LiveSpec == Spec /\ WF_vars(Steps)

-----------------------------------------------------------------------------
(* Properties.                                                             *)

\* LevelDB keeps an entry for the index "from", the index "receivedAt" and, if
\* the receipt has one, the index "to" of every receipt the lookup by ID names,
\* whatever write of AddReceipt failed or was cut off by a crash.
LookupIsComplete ==
  \A i \in IDs : idx.lookup[i] # 0 =>
    LET k == idx.lookup[i]
    IN /\ k \in 1..Len(docs) /\ docs[k].id = i /\ k \in idx.from \cap idx.at
       /\ docs[k].to # None => k \in idx.to

\* An offset that the brokers hold as consumed belongs to a reply that can be
\* read from the store by its request ID, also after a crash, or that cannot be
\* parsed; only the memory store and a full capped collection forget replies.
CommittedIsStored ==
  \A o \in 1..committed :
    \/ Replies[o] = Bad \/ Stored(Replies[o].id)
    \/ kind = "memory"
    \/ kind = "mongo" /\ Len(docs) >= MaxDocs

\* A receipt can be read back at the moment writeReceipt announces it on the
\* WebSocket, after retries and after a write taken for a duplicate alike.
AnnouncedIsStored == step = "announce" => Stored(Reply.id)

\* Every reply on the topic is consumed for good in the end, after any number
\* of rebalances, crashes and failed writes that stops.
EventuallyCommitted == <>[](committed = Len(Replies))
=============================================================================
