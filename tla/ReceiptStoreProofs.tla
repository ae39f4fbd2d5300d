------------------------ MODULE ReceiptStoreProofs ------------------------
(***************************************************************************)
(* What the consumer has committed can be read from the receipt store, the *)
(* indexes of LevelDB are complete, and every query answers with what it   *)
(* asks for: proved for any sequence of replies, any size of the store,    *)
(* any limits, and any number of failed writes, rebalances and crashes.    *)
(***************************************************************************)
EXTENDS ReceiptQueries, FiniteSetTheorems, TLAPS

\* The reply at an offset is stored, or may be missing.
Settled(o) ==
  \/ Replies[o] = Bad \/ Stored(Replies[o].id)
  \/ kind = "memory"
  \/ kind = "mongo" /\ Len(docs) >= MaxDocs

\* The entries of the newest receipt that precede the write at hand are there.
Writing ==
  kind = "leveldb" /\ step \in {"from", "to", "at", "lookup"} =>
    /\ Len(docs) > 0 /\ docs[Len(docs)].id = Reply.id /\ docs[Len(docs)].to = Reply.to
    /\ step # "from" => Len(docs) \in idx.from
    /\ step \in {"at", "lookup"} => Reply.to = None \/ Len(docs) \in idx.to
    /\ step = "lookup" => Len(docs) \in idx.at

OnlyLevelDB == kind # "leveldb" => idx = NoIndex

\* What the loop knows of the reply it processes.
Loop ==
  /\ cur = 0 <=> step = "idle"
  /\ step \notin {"idle", "parse", "mark"} => Reply \in Parsed
  /\ step = "mark" => Settled(cur)

\* Offsets pass through the consumer in order: all before the one that is
\* processed are settled, and so are those before the one that is held and the
\* one that is next, except for offsets still on their way.
InOrder ==
  /\ ~session => held = 0
  /\ \A o \in 1..marked : Settled(o)
  /\ \A o \in 1 .. cur - 1 : Settled(o)
  /\ \A o \in 1 .. held - 1 : o = cur \/ Settled(o)
  /\ \A o \in 1 .. next - 1 : o = cur \/ o = held \/ Settled(o)

IInv == /\ TypeOK /\ LookupIsComplete /\ CommittedIsStored /\ AnnouncedIsStored
        /\ Writing /\ OnlyLevelDB /\ Loop /\ InOrder

-----------------------------------------------------------------------------
(* What is stored stays stored.                                            *)

\* Push keeps the length within MaxDocs and puts the receipt last.
LEMMA PushFacts ==
  ASSUME NEW d \in Docs, docs \in Seq(Docs), Len(docs) <= MaxDocs
  PROVE  /\ Push(d) \in Seq(Docs) /\ Len(Push(d)) <= MaxDocs
         /\ Len(Push(d)) > 0 /\ Push(d)[Len(Push(d))] = d /\ Len(Push(d)) >= Len(docs)
         /\ Len(docs) < MaxDocs => \A k \in 1..Len(docs) : Push(d)[k] = docs[k]
<1>1. MaxDocs \in Nat \ {0} /\ Len(docs) \in Nat
  BY ReceiptAssumption
<1>2. CASE Len(docs) < MaxDocs
  <2>1. Push(d) = Append(docs, d)
    BY <1>1, <1>2 DEF Push
  <2>2. QED
    BY <1>1, <1>2, <2>1
<1>3. CASE Len(docs) = MaxDocs
  <2>1. docs # <<>>
    BY <1>1, <1>3, Zenon
  <2>2. Tail(docs) \in Seq(Docs) /\ Len(Tail(docs)) = Len(docs) - 1
    BY <2>1
  <2>3. Push(d) = Append(Tail(docs), d)
    BY <1>1, <1>3, <2>1, Zenon DEF Push
  <2>4. QED
    BY <1>1, <1>3, <2>2, <2>3
<1>4. QED
  BY <1>1, <1>2, <1>3

\* Places of LevelDB stay, a place of MongoDB while the collection is not full.
Keeps ==
  /\ kind' = kind
  /\ kind = "leveldb" =>
       /\ Len(docs') >= Len(docs)
       /\ \A i \in IDs : idx'.lookup[i] = idx.lookup[i] \/ idx'.lookup[i] \in 1..Len(docs')
  /\ kind = "mongo" =>
       /\ Len(docs') >= Len(docs)
       /\ Len(docs) < MaxDocs => \A k \in 1..Len(docs) : docs'[k] = docs[k]

\* A settled reply stays settled when the store keeps its receipts.
LEMMA SettledStays ==
  ASSUME TypeOK, docs' \in Seq(Docs), Keeps, NEW o \in 1..Len(Replies), Settled(o)
  PROVE  Settled(o)'
<1>1. Len(docs) \in Nat /\ Len(docs') \in Nat /\ MaxDocs \in Nat /\ kind' = kind
  BY ReceiptAssumption DEF TypeOK, Keeps
<1>2. CASE Replies[o] = Bad \/ kind = "memory"
  BY <1>1, <1>2, Zenon DEF Settled
<1>3. CASE kind = "mongo" /\ Len(docs) >= MaxDocs
  <2>1. Len(docs') >= MaxDocs
    BY <1>1, <1>3 DEF Keeps
  <2>2. QED
    BY <1>1, <1>3, <2>1, Zenon DEF Settled
<1>4. CASE Replies[o] # Bad /\ Stored(Replies[o].id) /\ kind = "leveldb"
  <2>1. Replies[o].id \in IDs
    BY <1>4, ReceiptAssumption DEF Parsed
  <2>2. idx.lookup[Replies[o].id] \in 1..Len(docs)
    BY <1>4, Zenon DEF Stored
  <2>3. idx'.lookup[Replies[o].id] \in 1..Len(docs')
    BY <1>1, <1>4, <2>1, <2>2 DEF Keeps
  <2>4. QED
    BY <1>1, <1>4, <2>3, Zenon DEF Settled, Stored
<1>5. CASE Stored(Replies[o].id) /\ kind = "mongo" /\ Len(docs) < MaxDocs
  <2>1. PICK k \in 1..Len(docs) : docs[k].id = Replies[o].id
    BY <1>5, Zenon DEF Stored
  <2>2. k \in 1..Len(docs') /\ docs'[k].id = Replies[o].id
    BY <1>1, <1>5, <2>1 DEF Keeps
  <2>3. QED
    BY <1>1, <1>5, <2>2, Zenon DEF Settled, Stored
<1>6. kind \in {"leveldb", "mongo", "memory"}
  BY ReceiptAssumption, Zenon DEF TypeOK
<1>7. QED
  BY <1>1, <1>2, <1>3, <1>4, <1>5, <1>6 DEF Settled

\* The receipt that is written is a document of the request.
LEMMA ReceiptType ==
  ASSUME TypeOK, Reply \in Parsed
  PROVE  /\ Receipt \in Docs /\ Receipt.id = Reply.id /\ Receipt.to = Reply.to
         /\ Reply.id \in IDs
  BY ReceiptAssumption DEF TypeOK, Parsed, Docs, Receipt

\* The offset at hand is one of the topic.
LEMMA CurReply ==
  ASSUME TypeOK, cur # 0 PROVE cur \in 1..Len(Replies) /\ Reply \in Parsed \cup {Bad}
<1>1. cur \in 1..Len(Replies)
  BY ReceiptAssumption DEF TypeOK, Offsets
<1>2. QED
  BY <1>1, ReceiptAssumption DEF Reply

\* An empty store and a consumer without a session.
LEMMA InvInit == Init => IInv
<1> SUFFICES ASSUME Init PROVE IInv
  BY Zenon
<1>1. Len(Replies) \in Nat /\ 0 \in Offsets
  BY ReceiptAssumption DEF Offsets
<1>2. TypeOK
  <2>1. docs \in Seq(Docs) /\ (kind # "leveldb" => Len(docs) <= MaxDocs)
    BY ReceiptAssumption DEF Init
  <2>2. idx \in [from : SUBSET Nat, to : SUBSET Nat, at : SUBSET Nat, lookup : [IDs -> Nat]]
    BY Zenon DEF Init, NoIndex
  <2>3. /\ now \in 1..MaxTime /\ stamp \in 0..MaxTime /\ next \in 1 .. Len(Replies) + 1
        /\ faults \in 0..MaxFaults
    BY <1>1, ReceiptAssumption DEF Init
  <2>4. QED
    BY <1>1, <2>1, <2>2, <2>3, Zenon DEF Init, TypeOK
<1>3. LookupIsComplete /\ OnlyLevelDB
  BY Zenon DEF Init, LookupIsComplete, OnlyLevelDB, NoIndex
<1>4. CommittedIsStored /\ InOrder
  BY DEF Init, CommittedIsStored, InOrder
<1>5. AnnouncedIsStored /\ Writing /\ Loop
  BY Zenon DEF Init, AnnouncedIsStored, Writing, Loop
<1>6. QED
  BY <1>2, <1>3, <1>4, <1>5, Zenon DEF IInv

-----------------------------------------------------------------------------
(* Steps of the loop and of the store.  They leave the consumer alone.     *)

\* A step of the store keeps the order of the offsets.
LEMMA ConsumerKept ==
  ASSUME IInv, docs' \in Seq(Docs), Keeps, UNCHANGED <<cur, consumer>>
  PROVE  CommittedIsStored' /\ InOrder'
<1>1. UNCHANGED <<cur, session, next, held, marked, committed>>
  BY Zenon DEF consumer
<1>2. \A o \in 1..Len(Replies) : Settled(o) => Settled(o)'
  BY SettledStays, Zenon DEF IInv
<1>3. /\ Len(Replies) \in Nat /\ committed \in 0..Len(Replies) /\ marked \in 0..Len(Replies)
      /\ cur \in 0..Len(Replies) /\ held \in 0..Len(Replies) /\ next \in 1 .. Len(Replies) + 1
  BY ReceiptAssumption DEF IInv, TypeOK, Offsets
<1>4. CommittedIsStored'
  <2>1. \A o \in 1..committed : Settled(o)
    BY Zenon DEF IInv, CommittedIsStored, Settled
  <2>2. \A o \in 1..committed' : Settled(o)'
    BY <1>1, <1>2, <1>3, <2>1
  <2>3. QED
    BY <2>2, Zenon DEF CommittedIsStored, Settled
<1>5. InOrder'
  <2>1. \A o \in 1..marked : Settled(o)'
    BY <1>2, <1>3 DEF IInv, InOrder
  <2>2. \A o \in 1 .. cur - 1 : Settled(o)'
    BY <1>2, <1>3 DEF IInv, InOrder
  <2>3. \A o \in 1 .. held - 1 : o = cur \/ Settled(o)'
    BY <1>2, <1>3 DEF IInv, InOrder
  <2>4. \A o \in 1 .. next - 1 : o = cur \/ o = held \/ Settled(o)'
    BY <1>2, <1>3 DEF IInv, InOrder
  <2>5. QED
    BY <1>1, <2>1, <2>2, <2>3, <2>4, Zenon DEF IInv, InOrder
<1>6. QED
  BY <1>4, <1>5, Zenon

\* A store that is left alone keeps its receipts.
LEMMA StoreKept ==
  ASSUME TypeOK, UNCHANGED store PROVE Keeps /\ docs' \in Seq(Docs)
<1>1. Len(docs) \in Nat /\ \A i \in IDs : idx.lookup[i] = idx.lookup[i]
  BY DEF TypeOK
<1>2. QED
  BY <1>1 DEF TypeOK, Keeps, store

\* What a Put of AddReceipt writes.
LEMMA PutFacts ==
  ASSUME IInv, LevelDBAdd
  PROVE  /\ kind = "leveldb" /\ Reply \in Parsed /\ Len(docs) \in Nat
         /\ UNCHANGED <<kind, cur, stamp, session, next, held, marked, committed, now, faults>>
         /\ docs' \in Seq(Docs)
         /\ idx' \in [from : SUBSET Nat, to : SUBSET Nat, at : SUBSET Nat, lookup : [IDs -> Nat]]
         /\ step = "data" => /\ docs' = Append(docs, Receipt) /\ idx' = idx /\ step' = "from"
         /\ step # "data" => /\ docs' = docs /\ Len(docs) > 0
                             /\ docs[Len(docs)].id = Reply.id /\ docs[Len(docs)].to = Reply.to
                             /\ Len(docs) \in idx'.from
         /\ idx.from \subseteq idx'.from /\ idx.to \subseteq idx'.to /\ idx.at \subseteq idx'.at
         /\ step' \in {"at", "lookup", "announce"} => Reply.to = None \/ Len(docs) \in idx'.to
         /\ step' \in {"lookup", "announce"} => Len(docs) \in idx'.at
         /\ step = "lookup" <=> step' = "announce"
         /\ step = "lookup" => idx'.lookup = [idx.lookup EXCEPT ![Reply.id] = Len(docs)]
         /\ step # "lookup" => idx'.lookup = idx.lookup
         /\ step \in {"from", "to", "at"} => step' \in {"to", "at", "lookup"}
<1>1. /\ kind = "leveldb" /\ step \in {"data", "from", "to", "at", "lookup"} /\ Put
      /\ UNCHANGED <<kind, cur, stamp, session, next, held, marked, committed, now, faults>>
  BY Zenon DEF LevelDBAdd, consumer
<1>2. Reply \in Parsed /\ Reply.id \in IDs /\ Receipt \in Docs
  BY <1>1, ReceiptType, Zenon DEF IInv, Loop
<1>3. /\ docs \in Seq(Docs) /\ Len(docs) \in Nat
      /\ idx \in [from : SUBSET Nat, to : SUBSET Nat, at : SUBSET Nat, lookup : [IDs -> Nat]]
  BY DEF IInv, TypeOK
<1>4. CASE step = "data"
  BY <1>1, <1>2, <1>3, <1>4 DEF Put, AfterPut
<1>5. step # "data" => /\ docs' = docs /\ Len(docs) > 0 /\ docs[Len(docs)].id = Reply.id
                       /\ docs[Len(docs)].to = Reply.to
  BY <1>1, Zenon DEF Put, IInv, Writing
<1>6. CASE step = "from"
  <2>1. idx' = [idx EXCEPT !.from = @ \cup {Len(docs)}]
    BY <1>1, <1>6, Zenon DEF Put
  <2>2. step' = IF Reply.to = None THEN "at" ELSE "to"
    BY <1>1, <1>6, Zenon DEF Put, AfterPut
  <2>3. QED
    BY <1>1, <1>2, <1>3, <1>5, <1>6, <2>1, <2>2, Zenon
<1>7. CASE step = "to"
  <2>1. idx' = [idx EXCEPT !.to = @ \cup {Len(docs)}]
    BY <1>1, <1>7, Zenon DEF Put
  <2>2. step' = "at" /\ Len(docs) \in idx.from
    BY <1>1, <1>7, Zenon DEF Put, AfterPut, IInv, Writing
  <2>3. QED
    BY <1>1, <1>2, <1>3, <1>5, <1>7, <2>1, <2>2, Zenon
<1>8. CASE step = "at"
  <2>1. idx' = [idx EXCEPT !.at = @ \cup {Len(docs)}]
    BY <1>1, <1>8, Zenon DEF Put
  <2>2. step' = "lookup" /\ Len(docs) \in idx.from /\ (Reply.to = None \/ Len(docs) \in idx.to)
    BY <1>1, <1>8, Zenon DEF Put, AfterPut, IInv, Writing
  <2>3. QED
    BY <1>1, <1>2, <1>3, <1>5, <1>8, <2>1, <2>2, Zenon
<1>9. CASE step = "lookup"
  <2>1. idx' = [idx EXCEPT !.lookup[Reply.id] = Len(docs)]
    BY <1>1, <1>9, Zenon DEF Put
  <2>2. /\ step' = "announce" /\ Len(docs) \in idx.from /\ Len(docs) \in idx.at
        /\ Reply.to = None \/ Len(docs) \in idx.to
    BY <1>1, <1>9, Zenon DEF Put, AfterPut, IInv, Writing
  <2>3. QED
    BY <1>1, <1>2, <1>3, <1>5, <1>9, <2>1, <2>2, Zenon
<1>10. QED
  BY <1>1, <1>4, <1>6, <1>7, <1>8, <1>9, Zenon

\* A Put of AddReceipt.
LEMMA LevelDBAddStep == ASSUME IInv, LevelDBAdd PROVE IInv'
<1> DEFINE n == Len(docs)
<1>1. step \in {"data", "from", "to", "at", "lookup"}
  BY Zenon DEF LevelDBAdd
<1>2. step' \in {"from", "to", "at", "lookup", "announce"}
  BY <1>1, PutFacts, Zenon
<1>3. Reply.id \in IDs /\ Receipt \in Docs /\ Receipt.id = Reply.id /\ Receipt.to = Reply.to
  BY PutFacts, ReceiptType, Zenon DEF IInv
<1>4. TypeOK'
  BY <1>2, PutFacts, Zenon DEF IInv, TypeOK
<1>5. docs \in Seq(Docs) /\ idx.lookup \in [IDs -> Nat]
  BY Zenon DEF IInv, TypeOK
<1>6. /\ Len(docs') \in Nat /\ Len(docs') >= n
      /\ \A k \in 1..n : docs'[k] = docs[k]
  BY <1>3, <1>5, PutFacts
<1>7. Keeps
  <2>1. ASSUME NEW i \in IDs
        PROVE  idx'.lookup[i] = idx.lookup[i] \/ idx'.lookup[i] \in 1..Len(docs')
    BY <1>3, <1>5, PutFacts
  <2>2. QED
    BY <1>6, <2>1, PutFacts, Zenon DEF Keeps
<1>8. CommittedIsStored' /\ InOrder'
  BY <1>7, PutFacts, ConsumerKept, Zenon DEF consumer
<1>9. LookupIsComplete'
  <2> SUFFICES ASSUME NEW i \in IDs, idx'.lookup[i] # 0
               PROVE  LET k == idx'.lookup[i]
                      IN /\ k \in 1..Len(docs') /\ docs'[k].id = i /\ k \in idx'.from \cap idx'.at
                         /\ docs'[k].to # None => k \in idx'.to
    BY Zenon DEF LookupIsComplete
  <2>1. CASE step = "lookup" /\ i = Reply.id
    BY <1>3, <1>5, <2>1, PutFacts
  <2>2. CASE ~(step = "lookup" /\ i = Reply.id)
    <3>1. idx'.lookup[i] = idx.lookup[i]
      BY <1>3, <1>5, <2>2, PutFacts, Zenon
    <3> DEFINE k == idx.lookup[i]
    <3>2. /\ k \in 1..n /\ docs[k].id = i /\ k \in idx.from \cap idx.at
          /\ docs[k].to # None => k \in idx.to
      BY <3>1, Zenon DEF IInv, LookupIsComplete
    <3>3. k \in 1..Len(docs') /\ docs'[k] = docs[k]
      BY <1>6, <3>2, PutFacts
    <3>4. QED
      BY <3>1, <3>2, <3>3, PutFacts, Zenon
  <2>3. QED
    BY <2>1, <2>2, Zenon
<1>10. AnnouncedIsStored'
  <2>1. ASSUME step' = "announce" PROVE idx'.lookup[Reply.id] \in 1..Len(docs')
    BY <1>3, <1>5, <2>1, PutFacts
  <2>2. QED
    BY <2>1, PutFacts, Zenon DEF AnnouncedIsStored, Stored, Reply
<1>11. Writing'
  <2>1. CASE step = "data"
    <3>1. Len(docs') = n + 1 /\ docs'[Len(docs')] = Receipt
      BY <1>3, <1>5, <2>1, PutFacts
    <3>2. QED
      BY <1>3, <2>1, <3>1, PutFacts DEF Writing, Reply
  <2>2. CASE step # "data"
    <3>1. /\ docs' = docs /\ n > 0 /\ docs[n].id = Reply.id /\ docs[n].to = Reply.to
          /\ n \in idx'.from /\ Reply' = Reply
      BY <2>2, PutFacts, Zenon DEF Reply
    <3>2. /\ step' \in {"at", "lookup"} => Reply.to = None \/ n \in idx'.to
          /\ step' = "lookup" => n \in idx'.at
      BY PutFacts, Zenon
    <3>3. QED
      BY <3>1, <3>2, Zenon DEF Writing
  <2>3. QED
    BY <2>1, <2>2, Zenon
<1>12. OnlyLevelDB' /\ Loop'
  BY <1>1, <1>2, PutFacts, Zenon DEF IInv, OnlyLevelDB, Loop, Reply
<1>13. QED
  BY <1>4, <1>8, <1>9, <1>10, <1>11, <1>12, Zenon DEF IInv

\* The memory store and MongoDB add the receipt, or the write fails.
LEMMA PushStep ==
  ASSUME IInv, kind # "leveldb", step = "data", docs' \in {docs, Push(Receipt)},
         step' \in {"announce", "failed"},
         step' = "announce" => docs' = Push(Receipt),
         UNCHANGED <<kind, idx, cur, stamp, consumer, now>>, faults' \in 0..MaxFaults
  PROVE  IInv'
<1>1. Reply \in Parsed /\ Receipt \in Docs /\ Receipt.id = Reply.id /\ cur # 0
  BY ReceiptType, Zenon DEF IInv, Loop
<1>2. docs \in Seq(Docs) /\ Len(docs) <= MaxDocs /\ Len(docs) \in Nat
  BY DEF IInv, TypeOK
<1>3. docs' \in Seq(Docs) /\ Len(docs') <= MaxDocs
  BY <1>1, <1>2, PushFacts, Zenon
<1>4. Keeps
  <2>1. Len(docs') >= Len(docs) /\ (Len(docs) < MaxDocs => \A k \in 1..Len(docs) : docs'[k] = docs[k])
    <3>1. CASE docs' = docs
      BY <1>2, <3>1
    <3>2. CASE docs' = Push(Receipt)
      BY <1>1, <1>2, <3>2, PushFacts, Zenon
    <3>3. QED
      BY <3>1, <3>2, Zenon
  <2>2. QED
    BY <2>1, Zenon DEF Keeps
<1>5. CommittedIsStored' /\ InOrder'
  BY <1>3, <1>4, ConsumerKept, Zenon
<1>6. TypeOK'
  BY <1>3, Zenon DEF IInv, TypeOK, consumer
<1>7. OnlyLevelDB' /\ Writing'
  BY Zenon DEF IInv, OnlyLevelDB, Writing
<1>8. LookupIsComplete'
  BY DEF IInv, OnlyLevelDB, NoIndex, LookupIsComplete
<1>9. AnnouncedIsStored'
  <2>1. ASSUME step' = "announce" PROVE \E k \in 1..Len(docs') : docs'[k].id = Reply.id
    <3>1. Len(docs') \in Nat /\ Len(docs') > 0 /\ docs'[Len(docs')] = Receipt
      BY <1>1, <1>2, <1>3, <2>1, PushFacts
    <3>2. QED
      BY <1>1, <3>1
  <2>2. QED
    BY <2>1, Zenon DEF AnnouncedIsStored, Stored, Reply
<1>10. Loop'
  BY <1>1, Zenon DEF Loop, Reply
<1>11. QED
  BY <1>5, <1>6, <1>7, <1>8, <1>9, <1>10, Zenon DEF IInv

\* Steps of the loop that leave the store as it is.
LEMMA LoopStep ==
  ASSUME IInv, cur # 0, step' # "idle", UNCHANGED <<store, cur, consumer>>,
         step' \in {"data", "failed", "announce", "mark"},
         step' # "mark" => Reply \in Parsed,
         step' = "mark" => Settled(cur),
         step' = "announce" => Stored(Reply.id),
         stamp' \in 0..MaxTime, now' \in 1..MaxTime, faults' \in 0..MaxFaults
  PROVE  IInv'
<1>1. UNCHANGED <<kind, docs, idx, cur, session, next, held, marked, committed>>
  BY Zenon DEF store, consumer
<1>2. TypeOK'
  BY <1>1, Zenon DEF IInv, TypeOK
<1>3. CommittedIsStored' /\ InOrder'
  BY StoreKept, ConsumerKept, Zenon DEF IInv
<1>4. LookupIsComplete' /\ OnlyLevelDB' /\ Writing'
  BY <1>1, Zenon DEF IInv, LookupIsComplete, OnlyLevelDB, Writing
<1>5. AnnouncedIsStored'
  BY <1>1, Zenon DEF AnnouncedIsStored, Stored, Reply
<1>6. Loop'
  BY <1>1, Zenon DEF Loop, Settled, Stored, Reply
<1>7. QED
  BY <1>2, <1>3, <1>4, <1>5, <1>6, Zenon DEF IInv

\* The steps of ProcessReceipt and writeReceipt other than a Put.
LEMMA WriteStep ==
  ASSUME IInv,
         \/ LevelDBAddFails \/ MemoryAdd \/ MongoAdd \/ MongoAddFails
         \/ ProcessReceipt \/ WriteReceiptRetry \/ DuplicateQueryFails \/ SendReply
  PROVE  IInv'
<1>1. /\ MaxTime \in Nat /\ MaxFaults \in Nat /\ faults \in 0..MaxFaults /\ stamp \in 0..MaxTime
      /\ now \in 1..MaxTime
  BY ReceiptAssumption, Zenon DEF IInv, TypeOK
<1>2. Fault => faults' \in 0..MaxFaults
  BY <1>1 DEF Fault
<1>3. step \notin {"idle", "parse", "mark"} => cur # 0 /\ Reply \in Parsed
  BY Zenon DEF IInv, Loop
<1>4. CASE LevelDBAddFails
  BY <1>1, <1>2, <1>3, <1>4, LoopStep, Zenon DEF LevelDBAddFails
<1>5. CASE MemoryAdd
  BY <1>1, <1>5, PushStep, Zenon DEF MemoryAdd
<1>6. CASE MongoAdd
  BY <1>1, <1>6, PushStep, Zenon DEF MongoAdd
<1>7. CASE MongoAddFails
  BY <1>1, <1>2, <1>7, PushStep, Zenon DEF MongoAddFails
<1>8. CASE ProcessReceipt
  <2>1. cur # 0
    BY <1>8, Zenon DEF ProcessReceipt, IInv, Loop
  <2>2. Reply \in Parsed \cup {Bad}
    BY <2>1, CurReply, Zenon DEF IInv
  <2>3. CASE Reply = Bad
    <3>1. Settled(cur)
      BY <2>3, Zenon DEF Settled, Reply
    <3>2. QED
      BY <1>1, <1>8, <2>1, <2>3, <3>1, LoopStep, Zenon DEF ProcessReceipt
  <2>4. CASE Reply # Bad
    <3>1. /\ step' = "data" /\ now' \in now..MaxTime /\ stamp' = now'
          /\ UNCHANGED <<store, cur, consumer, faults>>
      BY <1>8, <2>4, Zenon DEF ProcessReceipt
    <3>2. now' \in 1..MaxTime /\ stamp' \in 0..MaxTime
      BY <1>1, <3>1
    <3>3. QED
      BY <1>1, <2>1, <2>2, <2>4, <3>1, <3>2, LoopStep, Zenon
  <2>5. QED
    BY <2>3, <2>4, Zenon
<1>9. CASE WriteReceiptRetry
  BY <1>1, <1>3, <1>9, LoopStep, Zenon DEF WriteReceiptRetry
<1>10. CASE DuplicateQueryFails
  BY <1>1, <1>2, <1>3, <1>10, LoopStep, Zenon DEF DuplicateQueryFails
<1>11. CASE SendReply
  <2>1. Settled(cur)
    BY <1>11, Zenon DEF SendReply, IInv, AnnouncedIsStored, Settled, Reply
  <2>2. QED
    BY <1>1, <1>3, <1>11, <2>1, LoopStep, Zenon DEF SendReply
<1>12. QED
  BY <1>4, <1>5, <1>6, <1>7, <1>8, <1>9, <1>10, <1>11, Zenon

-----------------------------------------------------------------------------
(* Steps of the consumer.  They leave the store alone, except for a        *)
(* restart.                                                                *)

\* 0 and the offsets of the topic are natural numbers.
LEMMA Offsetted ==
  ASSUME TypeOK
  PROVE  /\ Len(Replies) \in Nat /\ committed \in 0..Len(Replies) /\ marked \in 0..Len(Replies)
         /\ cur \in 0..Len(Replies) /\ held \in 0..Len(Replies)
         /\ next \in 1 .. Len(Replies) + 1
  BY ReceiptAssumption DEF TypeOK, Offsets

\* The steps of the consumer group.
LEMMA ConsumerStep ==
  ASSUME IInv, UNCHANGED <<store, loop, now>>,
         Setup \/ ConsumeClaim \/ CommitMarks \/ Cleanup
  PROVE  IInv'
<1>1. UNCHANGED <<kind, docs, idx, step, cur, stamp>> /\ \A o : Settled(o)' = Settled(o)
  BY Zenon DEF store, loop, Settled, Stored
<1>2. \A o \in 1..committed : Settled(o)
  BY Zenon DEF IInv, CommittedIsStored, Settled
<1>3. LookupIsComplete' /\ AnnouncedIsStored' /\ Writing' /\ OnlyLevelDB' /\ Loop'
  BY <1>1 DEF IInv, LookupIsComplete, AnnouncedIsStored, Writing, OnlyLevelDB, Loop, Reply, Stored
<1>4. TypeOK /\ InOrder /\ faults' \in 0..MaxFaults
  BY ReceiptAssumption DEF IInv, TypeOK, Setup, ConsumeClaim, CommitMarks, Cleanup, Fault
<1>5. TypeOK' /\ (\A o \in 1..committed' : Settled(o)) /\ InOrder'
  <2>1. CASE Setup
    <3>1. /\ session' = TRUE /\ next' = committed + 1 /\ marked' = committed /\ held' = held
          /\ committed' = committed /\ held = 0
      BY <1>4, <2>1, Zenon DEF Setup, InOrder
    <3>2. TypeOK'
      BY <1>1, <1>4, <3>1, Offsetted DEF TypeOK, Offsets
    <3>3. InOrder'
      BY <1>1, <1>2, <1>4, <3>1, Offsetted DEF InOrder
    <3>4. QED
      BY <1>2, <3>1, <3>2, <3>3, Zenon
  <2>2. CASE ConsumeClaim
    <3>1. /\ session /\ held = 0 /\ next \in 1..Len(Replies) /\ held' = next /\ next' = next + 1
          /\ UNCHANGED <<session, marked, committed>>
      BY <2>2, Zenon DEF ConsumeClaim
    <3>2. TypeOK'
      BY <1>1, <1>4, <3>1, Offsetted DEF TypeOK, Offsets
    <3>3. \A o \in 1 .. next - 1 : o = cur \/ Settled(o)
      BY <1>4, <3>1, Offsetted DEF InOrder
    <3>4. InOrder'
      BY <1>1, <1>4, <3>1, <3>3, Offsetted DEF InOrder
    <3>5. QED
      BY <1>2, <3>1, <3>2, <3>4, Zenon
  <2>3. CASE CommitMarks
    <3>1. committed' = marked /\ UNCHANGED <<session, next, held, marked>>
      BY <2>3, Zenon DEF CommitMarks
    <3>2. TypeOK' /\ InOrder'
      BY <1>1, <1>4, <3>1, Zenon DEF TypeOK, InOrder
    <3>3. QED
      BY <1>4, <3>1, <3>2, Zenon DEF InOrder
  <2>4. CASE Cleanup
    <3>1. /\ session' = FALSE /\ committed' \in {committed, marked} /\ held = 0
          /\ UNCHANGED <<next, held, marked>>
      BY <2>4, Zenon DEF Cleanup
    <3>2. TypeOK' /\ InOrder'
      BY <1>1, <1>4, <3>1, Zenon DEF TypeOK, InOrder
    <3>3. QED
      BY <1>2, <1>4, <3>1, <3>2, Zenon DEF InOrder
  <2>5. QED
    BY <2>1, <2>2, <2>3, <2>4, Zenon
<1>6. CommittedIsStored'
  <2>1. \A o \in 1..committed' : Settled(o)'
    BY <1>1, <1>5, Zenon
  <2>2. QED
    BY <2>1, Zenon DEF CommittedIsStored, Settled
<1>7. QED
  BY <1>3, <1>5, <1>6, Zenon DEF IInv

\* The loop takes a message, and marks it when it is done.
LEMMA TakeAndMarkStep == ASSUME IInv, ConsumerMessagesLoop \/ MarkOffset PROVE IInv'
<1>1. /\ UNCHANGED <<kind, docs, idx, session, next, committed, now, faults>>
      /\ \A o : Settled(o)' = Settled(o)
  BY Zenon DEF ConsumerMessagesLoop, MarkOffset, store, Settled, Stored
<1>2. LookupIsComplete' /\ OnlyLevelDB'
  BY <1>1, Zenon DEF IInv, LookupIsComplete, OnlyLevelDB
<1>3. CommittedIsStored'
  BY <1>1, Zenon DEF IInv, CommittedIsStored, Stored
<1>4. TypeOK /\ InOrder /\ Loop
  BY Zenon DEF IInv
<1>5. CASE ConsumerMessagesLoop
  <2>1. /\ step = "idle" /\ held # 0 /\ cur' = held /\ held' = 0 /\ step' = "parse"
        /\ UNCHANGED <<stamp, marked>> /\ cur = 0
    BY <1>4, <1>5, Zenon DEF ConsumerMessagesLoop, Loop
  <2>2. TypeOK'
    BY <1>1, <1>4, <2>1, Offsetted, Zenon DEF TypeOK, Offsets
  <2>3. InOrder'
    BY <1>1, <1>4, <2>1, Offsetted DEF InOrder
  <2>4. Loop' /\ AnnouncedIsStored' /\ Writing'
    BY <2>1, Zenon DEF Loop, AnnouncedIsStored, Writing
  <2>5. QED
    BY <1>2, <1>3, <2>2, <2>3, <2>4, Zenon DEF IInv
<1>6. CASE MarkOffset
  <2>1. /\ step = "mark" /\ step' = "idle" /\ cur' = 0 /\ stamp' = 0 /\ held' = held
        /\ marked' \in {cur, marked} /\ Settled(cur) /\ cur # 0
    BY <1>4, <1>6, Zenon DEF MarkOffset, Loop
  <2>2. TypeOK'
    BY <1>1, <1>4, <2>1, Offsetted, ReceiptAssumption DEF TypeOK, Offsets
  <2>3. \A o \in 1..cur : Settled(o)
    BY <1>4, <2>1, Offsetted DEF InOrder
  <2>4. InOrder'
    BY <1>1, <1>4, <2>1, <2>3, Offsetted DEF InOrder
  <2>5. Loop' /\ AnnouncedIsStored' /\ Writing'
    BY <2>1, Zenon DEF Loop, AnnouncedIsStored, Writing
  <2>6. QED
    BY <1>2, <1>3, <2>2, <2>4, <2>5, Zenon DEF IInv
<1>7. QED
  BY <1>5, <1>6, Zenon

\* A restart forgets the marks and what the loop was doing.
LEMMA RestartStep == ASSUME IInv, Restart PROVE IInv'
<1>1. /\ step' = "idle" /\ cur' = 0 /\ stamp' = 0 /\ session' = FALSE /\ next' = 1 /\ held' = 0
      /\ marked' = committed /\ UNCHANGED <<kind, idx, committed, now>>
      /\ docs' = IF kind = "memory" THEN <<>> ELSE docs
  BY Zenon DEF Restart
<1>2. TypeOK /\ OnlyLevelDB /\ docs \in Seq(Docs) /\ Len(docs) \in Nat
  BY DEF IInv, TypeOK
<1>3. docs' \in Seq(Docs) /\ (kind # "leveldb" => Len(docs') <= MaxDocs)
  BY <1>1, <1>2, ReceiptAssumption DEF TypeOK
<1>4. TypeOK'
  <2>1. 0 \in Offsets /\ 0 \in 0..MaxTime /\ 1 \in 1 .. Len(Replies) + 1
    BY <1>2, Offsetted, ReceiptAssumption DEF Offsets
  <2>2. faults' \in 0..MaxFaults
    BY <1>2, ReceiptAssumption DEF Restart, Fault, TypeOK
  <2>3. QED
    BY <1>1, <1>2, <1>3, <2>1, <2>2, Zenon DEF TypeOK
<1>5. \A o \in 1..committed : Settled(o)'
  <2>1. \A o \in 1..committed : Settled(o)
    BY Zenon DEF IInv, CommittedIsStored, Settled
  <2>2. CASE kind = "memory"
    BY <1>1, <2>2, Zenon DEF Settled
  <2>3. CASE kind # "memory"
    BY <1>1, <2>1, <2>3, Zenon DEF Settled, Stored
  <2>4. QED
    BY <2>2, <2>3, Zenon
<1>6. CommittedIsStored' /\ InOrder'
  BY <1>1, <1>5 DEF CommittedIsStored, InOrder, Settled
<1>7. LookupIsComplete' /\ OnlyLevelDB'
  <2>1. CASE kind = "memory"
    BY <1>1, <1>2, <2>1 DEF OnlyLevelDB, LookupIsComplete, NoIndex
  <2>2. CASE kind # "memory"
    BY <1>1, <1>2, <2>2, Zenon DEF IInv, OnlyLevelDB, LookupIsComplete
  <2>3. QED
    BY <2>1, <2>2, Zenon
<1>8. AnnouncedIsStored' /\ Writing' /\ Loop'
  BY <1>1, Zenon DEF AnnouncedIsStored, Writing, Loop
<1>9. QED
  BY <1>4, <1>6, <1>7, <1>8, Zenon DEF IInv

-----------------------------------------------------------------------------
LEMMA InvStep == IInv /\ [Next]_vars => IInv'
<1> SUFFICES ASSUME IInv, [Next]_vars PROVE IInv'
  BY Zenon
<1>1. CASE UNCHANGED vars
  BY <1>1 DEF vars, store, loop, consumer, IInv, TypeOK, LookupIsComplete, CommittedIsStored,
              AnnouncedIsStored, Writing, OnlyLevelDB, Loop, InOrder, Settled, Stored, Reply
<1>2. CASE Setup \/ ConsumeClaim \/ CommitMarks \/ Cleanup
  BY <1>2, ConsumerStep, Zenon DEF Setup, ConsumeClaim, CommitMarks, Cleanup
<1>3. CASE Restart
  BY <1>3, RestartStep, Zenon
<1>4. CASE ConsumerMessagesLoop \/ MarkOffset
  BY <1>4, TakeAndMarkStep, Zenon
<1>5. CASE LevelDBAdd
  BY <1>5, LevelDBAddStep, Zenon
<1>6. CASE \/ LevelDBAddFails \/ MemoryAdd \/ MongoAdd \/ MongoAddFails
           \/ ProcessReceipt \/ WriteReceiptRetry \/ DuplicateQueryFails \/ SendReply
  BY <1>6, WriteStep, Zenon
<1>7. QED
  BY <1>1, <1>2, <1>3, <1>4, <1>5, <1>6, Zenon DEF Next, Steps

\* Every receipt that LevelDB can look up by its request ID is in each index
\* that covers it, whichever Put of AddReceipt failed or was cut off by a crash.
THEOREM LookupsComplete == Spec => []LookupIsComplete
<1>1. IInv => LookupIsComplete
  BY Zenon DEF IInv
<1>2. QED
  BY <1>1, InvInit, InvStep, PTL DEF Spec

\* An offset committed by the consumer of the replies belongs to a reply that is
\* stored, cannot be parsed, or was forgotten by the memory store or by a full
\* capped collection: marks of MarkOffset never run ahead of writeReceipt.
THEOREM CommittedStored == Spec => []CommittedIsStored
<1>1. IInv => CommittedIsStored
  BY Zenon DEF IInv
<1>2. QED
  BY <1>1, InvInit, InvStep, PTL DEF Spec

\* writeReceipt announces a receipt on the WebSocket only when it can be read
\* back, also when a failed write was taken for a duplicate.
THEOREM AnnouncedStored == Spec => []AnnouncedIsStored
<1>1. IInv => AnnouncedIsStored
  BY Zenon DEF IInv
<1>2. QED
  BY <1>1, InvInit, InvStep, PTL DEF Spec

-----------------------------------------------------------------------------
(* The operators of the queries.                                           *)

\* A list given by a function on 1..n.
LEMMA ListFacts ==
  ASSUME NEW S, NEW n \in Nat, NEW f \in [1..n -> S]
  PROVE  f \in Seq(S) /\ Len(f) = n
  OBVIOUS

\* The keys at or above one of S, counted.
LEMMA Ranks ==
  ASSUME NEW S \in SUBSET Nat, IsFiniteSet(S)
  PROVE  /\ Cardinality(S) \in Nat
         /\ \A k \in S : Cardinality({j \in S : j >= k}) \in 1..Cardinality(S)
         /\ \A k, l \in S : k < l =>
              Cardinality({j \in S : j >= l}) < Cardinality({j \in S : j >= k})
         /\ \A n \in 1..Cardinality(S) : \E k \in S : Cardinality({j \in S : j >= k}) = n
<1> DEFINE Up(k) == {j \in S : j >= k}
           Rank == [k \in S |-> Cardinality(Up(k))]
<1>0. Cardinality(S) \in Nat
  BY FS_CardinalityType, Zenon
<1>1. ASSUME NEW k \in S
      PROVE  /\ IsFiniteSet(Up(k)) /\ Cardinality(Up(k)) \in 1..Cardinality(S)
  <2>1. Up(k) \in SUBSET S /\ k \in Up(k)
    OBVIOUS
  <2> HIDE DEF Up
  <2>2. IsFiniteSet(Up(k)) /\ Cardinality(Up(k)) <= Cardinality(S)
    BY <2>1, FS_Subset, Zenon
  <2>3. Cardinality(Up(k)) \in Nat /\ Cardinality(Up(k)) # 0
    BY <2>1, <2>2, FS_CardinalityType, FS_EmptySet, Zenon
  <2> QED
    BY <1>0, <2>2, <2>3
<1>2. ASSUME NEW k \in S, NEW l \in S, k < l PROVE Cardinality(Up(l)) < Cardinality(Up(k))
  <2>0. k \in Nat /\ l \in Nat /\ \A j \in S : j \in Nat
    BY Zenon
  <2>1. \A j \in S : j >= l => j >= k
    BY <1>2, <2>0
  <2>2. k >= k /\ ~(k >= l)
    BY <1>2, <2>0
  <2>3. Up(l) \in SUBSET Up(k) /\ k \in Up(k) /\ k \notin Up(l)
    BY <2>1, <2>2, Zenon
  <2>4. IsFiniteSet(Up(k)) /\ Cardinality(Up(k)) \in Nat /\ Cardinality(Up(l)) \in Nat
    BY <1>0, <1>1
  <2> HIDE DEF Up
  <2>5. Cardinality(Up(l)) <= Cardinality(Up(k)) /\ Cardinality(Up(k)) # Cardinality(Up(l))
    BY <2>3, <2>4, FS_Subset, Zenon
  <2> QED
    BY <2>4, <2>5
<1>3. Rank \in Injection(S, 1..Cardinality(S))
  <2>1. Rank \in [S -> 1..Cardinality(S)]
    BY <1>1, Zenon
  <2>2. ASSUME NEW k \in S, NEW l \in S, Rank[k] = Rank[l] PROVE k = l
    <3>1. Cardinality(Up(k)) = Cardinality(Up(l)) /\ Cardinality(Up(k)) \in Nat
      BY <1>0, <1>1, <2>2
    <3>2. ~(k < l) /\ ~(l < k)
      <4> HIDE DEF Up
      <4> QED
        BY <1>2, <3>1
    <3> QED
      BY <3>2
  <2> HIDE DEF Rank
  <2> QED
    BY <2>1, <2>2, Zenon DEF Injection, IsInjective
<1>4. IsFiniteSet(1..Cardinality(S)) /\ Cardinality(1..Cardinality(S)) = Cardinality(S)
  <2>1. Cardinality(1..Cardinality(S)) =
          IF 1 > Cardinality(S) THEN 0 ELSE Cardinality(S) - 1 + 1
    BY <1>0, FS_Interval
  <2>2. (IF 1 > Cardinality(S) THEN 0 ELSE Cardinality(S) - 1 + 1) = Cardinality(S)
    BY <1>0
  <2> QED
    BY <1>0, <2>1, <2>2, FS_Interval
<1>5. Rank \in Surjection(S, 1..Cardinality(S))
  <2> HIDE DEF Rank
  <2> QED
    BY <1>3, <1>4, FS_Injection, Zenon
<1>6. \A n \in 1..Cardinality(S) : \E k \in S : Rank[k] = n
  BY <1>5, Zenon DEF Surjection
<1> QED
  BY <1>0, <1>1, <1>2, <1>6, Zenon

\* Descending lists each key of S once, the newest first.
LEMMA DescendingFacts ==
  ASSUME NEW S \in SUBSET Nat, IsFiniteSet(S)
  PROVE  /\ Descending(S) \in Seq(S) /\ Len(Descending(S)) = Cardinality(S)
         /\ Cardinality(S) \in Nat
         /\ \A m, n \in 1..Cardinality(S) : m < n => Descending(S)[m] > Descending(S)[n]
         /\ \A k \in S : \E n \in 1..Cardinality(S) : Descending(S)[n] = k
<1> DEFINE D == Descending(S)
           N == Cardinality(S)
           R(k) == Cardinality({j \in S : j >= k})
<1>1. /\ N \in Nat /\ \A k \in S : R(k) \in 1..N
      /\ \A k, l \in S : k < l => R(l) < R(k)
      /\ \A n \in 1..N : \E k \in S : R(k) = n
  BY Ranks, Zenon
<1>2. D = [n \in 1..N |-> CHOOSE k \in S : R(k) = n]
  BY Zenon DEF Descending
<1> HIDE DEF R, N, D
<1>3. ASSUME NEW n \in 1..N PROVE D[n] \in S /\ R(D[n]) = n
  BY <1>1, <1>2, Zenon
<1>4. D \in [1..N -> S]
  BY <1>2, <1>3, Zenon
<1>5. D \in Seq(S) /\ Len(D) = N
  BY <1>1, <1>4, ListFacts, Zenon
<1>6. ASSUME NEW m \in 1..N, NEW n \in 1..N, m < n PROVE D[m] > D[n]
  <2>1. D[m] \in Nat /\ D[n] \in Nat
    BY <1>3, Zenon
  <2>2. D[m] \in S /\ D[n] \in S /\ R(D[m]) = m /\ R(D[n]) = n /\ m \in Nat /\ n \in Nat
    BY <1>1, <1>3
  <2>3. D[m] < D[n] => n < m
    BY <1>1, <2>2, Zenon
  <2>4. D[m] # D[n]
    BY <1>6, <2>2
  <2> QED
    BY <1>6, <2>1, <2>2, <2>3, <2>4
<1>7. ASSUME NEW k \in S PROVE \E n \in 1..N : D[n] = k
  <2>1. R(k) \in 1..N /\ D[R(k)] \in S /\ R(D[R(k)]) = R(k)
    BY <1>1, <1>3, Zenon
  <2>2. PICK d \in S : d = D[R(k)] /\ R(d) = R(k)
    BY <2>1, Zenon
  <2>3. k \in Nat /\ d \in Nat /\ R(k) \in Nat
    BY <1>1, <2>1
  <2>4. (d < k => R(k) < R(d)) /\ (k < d => R(d) < R(k))
    BY <1>1, Zenon
  <2>5. D[R(k)] = k
    BY <2>2, <2>3, <2>4
  <2> QED
    BY <2>1, <2>5, Zenon
<1> QED
  BY <1>1, <1>5, <1>6, <1>7, Zenon DEF D, N

\* A list of keys of K, the newest first, each once.
Listed(s, K) ==
  /\ s \in Seq(K) /\ Len(s) \in Nat /\ Len(s) <= Cardinality(K)
  /\ \A m, n \in 1..Len(s) : m < n => s[m] > s[n]

\* skip leaves a list of keys, newest first; skip 0 leaves it as it is.
LEMMA AfterListed ==
  ASSUME NEW K, NEW s, Listed(s, K), NEW m \in Nat, Cardinality(K) \in Nat
  PROVE  /\ Listed(After(m, s), K)
         /\ m = 0 => Len(After(m, s)) = Len(s) /\ \A n \in 1..Len(s) : After(m, s)[n] = s[n]
<1> DEFINE L == IF Len(s) >= m THEN Len(s) - m ELSE 0
           A == After(m, s)
<1>1. s \in Seq(K) /\ Len(s) \in Nat /\ Len(s) <= Cardinality(K)
  BY Zenon DEF Listed
<1>2. L \in Nat /\ L <= Len(s) /\ (1 .. Len(s) - m) = 1..L
  BY <1>1
<1>3. A = [i \in 1..L |-> s[i + m]]
  BY <1>2, Zenon DEF After
<1>4. \A i \in 1..L : i + m \in 1..Len(s) /\ s[i + m] \in K
  BY <1>1
<1>5. A \in [1..L -> K]
  BY <1>3, <1>4, Zenon
<1>6. m = 0 => L = Len(s)
  BY <1>1
<1> HIDE DEF L, A
<1>7. A \in Seq(K) /\ Len(A) = L
  BY <1>2, <1>5, ListFacts, Zenon
<1>8. ASSUME NEW i \in 1..L, NEW j \in 1..L, i < j PROVE A[i] > A[j]
  <2>1. A[i] = s[i + m] /\ A[j] = s[j + m]
    BY <1>3, Zenon
  <2>2. i + m \in 1..Len(s) /\ j + m \in 1..Len(s) /\ i + m < j + m
    BY <1>2, <1>4, <1>8
  <2> QED
    BY <2>1, <2>2, Zenon DEF Listed
<1>9. Listed(A, K)
  BY <1>1, <1>2, <1>7, <1>8 DEF Listed
<1>10. m = 0 => \A n \in 1..Len(s) : A[n] = s[n]
  BY <1>1, <1>3, <1>6
<1> QED
  BY <1>6, <1>7, <1>9, <1>10, Zenon DEF A

\* limit cuts a list of keys, newest first; 0 and a limit beyond it do not.
LEMMA FirstListed ==
  ASSUME NEW K, NEW s, Listed(s, K), NEW m \in Nat, Cardinality(K) \in Nat
  PROVE  /\ Listed(First(m, s), K)
         /\ m > 0 => Len(First(m, s)) <= m
         /\ m = 0 \/ Len(s) <= m =>
              Len(First(m, s)) = Len(s) /\ \A n \in 1..Len(s) : First(m, s)[n] = s[n]
<1> DEFINE L == IF m > 0 /\ m < Len(s) THEN m ELSE Len(s)
           A == First(m, s)
<1>1. s \in Seq(K) /\ Len(s) \in Nat /\ Len(s) <= Cardinality(K)
  BY Zenon DEF Listed
<1>2. /\ L \in Nat /\ L <= Len(s) /\ (m > 0 => L <= m)
      /\ m = 0 \/ Len(s) <= m => L = Len(s)
  BY <1>1
<1>3. A = [i \in 1..L |-> s[i]]
  BY Zenon DEF First
<1>4. \A i \in 1..L : i \in 1..Len(s) /\ s[i] \in K
  BY <1>1, <1>2
<1>5. A \in [1..L -> K]
  BY <1>3, <1>4, Zenon
<1> HIDE DEF L, A
<1>7. A \in Seq(K) /\ Len(A) = L
  BY <1>2, <1>5, ListFacts, Zenon
<1>8. ASSUME NEW i \in 1..L, NEW j \in 1..L, i < j PROVE A[i] > A[j]
  <2>1. A[i] = s[i] /\ A[j] = s[j]
    BY <1>3, Zenon
  <2> QED
    BY <1>4, <1>8, <2>1, Zenon DEF Listed
<1>9. Listed(A, K)
  BY <1>1, <1>2, <1>7, <1>8 DEF Listed
<1> QED
  BY <1>2, <1>3, <1>7, <1>9, Zenon DEF A

\* The keys of K that some query lists: a finite set of places in docs.
LEMMA KeysListed ==
  ASSUME docs \in Seq(Docs), NEW K \in SUBSET Keys
  PROVE  /\ IsFiniteSet(K) /\ Cardinality(K) \in Nat /\ Cardinality(K) <= Len(docs)
         /\ Listed(Descending(K), K)
         /\ \A k \in K : \E n \in 1..Len(Descending(K)) : Descending(K)[n] = k
<1>1. Len(docs) \in Nat
  OBVIOUS
<1>2. K \in SUBSET (1..Len(docs)) /\ K \in SUBSET Nat
  BY <1>1 DEF Keys
<1>3. IsFiniteSet(1..Len(docs)) /\ Cardinality(1..Len(docs)) = Len(docs)
  <2>1. Cardinality(1..Len(docs)) = IF 1 > Len(docs) THEN 0 ELSE Len(docs) - 1 + 1
    BY <1>1, FS_Interval
  <2>2. (IF 1 > Len(docs) THEN 0 ELSE Len(docs) - 1 + 1) = Len(docs)
    BY <1>1
  <2> QED
    BY <1>1, <2>1, <2>2, FS_Interval
<1>4. IsFiniteSet(K) /\ Cardinality(K) <= Len(docs)
  BY <1>2, <1>3, FS_Subset, Zenon
<1>5. /\ Descending(K) \in Seq(K) /\ Len(Descending(K)) = Cardinality(K)
      /\ Cardinality(K) \in Nat
      /\ \A m, n \in 1..Cardinality(K) : m < n => Descending(K)[m] > Descending(K)[n]
      /\ \A k \in K : \E n \in 1..Cardinality(K) : Descending(K)[n] = k
  BY <1>2, <1>4, DescendingFacts, Zenon
<1> QED
  BY <1>4, <1>5 DEF Listed

\* A set of no more than n keys is read in full.
LEMMA OldestAll ==
  ASSUME NEW S \in SUBSET Nat, IsFiniteSet(S), NEW n \in Nat, Cardinality(S) <= n
  PROVE  Oldest(n, S) = S
<1> SUFFICES ASSUME NEW k \in S PROVE Cardinality({j \in S : j < k}) < n
  BY Zenon DEF Oldest
<1> DEFINE O == {j \in S : j < k}
<1>1. O \in SUBSET S /\ k \notin O
  OBVIOUS
<1> HIDE DEF O
<1>2. IsFiniteSet(O) /\ Cardinality(O) <= Cardinality(S) /\ Cardinality(S) # Cardinality(O)
  BY <1>1, FS_Subset, Zenon
<1>3. Cardinality(O) \in Nat /\ Cardinality(S) \in Nat
  BY <1>2, FS_CardinalityType, Zenon
<1>4. Cardinality(O) < n
  BY <1>2, <1>3
<1> QED
  BY <1>4, Zenon DEF O

\* The least of some keys: the last of the list.
LEMMA Least ==
  ASSUME docs \in Seq(Docs), NEW K \in SUBSET Keys, K # {}
  PROVE  \E k \in K : \A j \in K : k <= j
<1> DEFINE D == Descending(K)
           N == Len(D)
<1>1. Listed(D, K) /\ \A k \in K : \E n \in 1..N : D[n] = k
  BY KeysListed, Zenon
<1>2. K \in SUBSET Nat
  BY DEF Keys
<1> HIDE DEF D
<1>3. N \in Nat /\ D \in Seq(K) /\ \A m, n \in 1..N : m < n => D[m] > D[n]
  BY <1>1, Zenon DEF Listed
<1> HIDE DEF N
<1>4. N \in 1..N
  BY <1>1, <1>3
<1>5. D[N] \in K
  BY <1>3, <1>4 DEF N
<1>6. ASSUME NEW j \in K PROVE D[N] <= j
  <2>1. PICK n \in 1..N : D[n] = j
    BY <1>1, Zenon
  <2>2. n = N \/ (n < N /\ D[n] > D[N])
    BY <1>3, <1>4
  <2>3. D[N] \in Nat /\ j \in Nat
    BY <1>2, <1>5, Zenon
  <2> QED
    BY <2>1, <2>2, <2>3
<1> QED
  BY <1>5, <1>6, Zenon

-----------------------------------------------------------------------------
(* The receipts are in the order of their receivedAt.                      *)

\* The receivedAt of receipts follow their order, and none is later than that
\* of the receipt at hand.
Clock ==
  /\ \A k \in Keys : docs[k].at <= now
  /\ \A j, k \in Keys : j < k => docs[j].at <= docs[k].at
  /\ step \in {"data", "from", "to", "at", "lookup", "failed"} => stamp = now

\* Index entries name receipts that are there.
Indexed == idx.from \subseteq Keys /\ idx.to \subseteq Keys /\ idx.at \subseteq Keys

\* _id is unique in MongoDB.
OncePerID == kind = "mongo" => \A j, k \in Keys : docs[j].id = docs[k].id => j = k

Orders == Clock /\ Indexed /\ OncePerID

\* A receipt is added at the end, and s receipts are dropped at the front.
LEMMA OrderAdded ==
  ASSUME IInv, Orders, IInv', step \in {"data", "failed"}, UNCHANGED <<kind, stamp, now>>,
         NEW s \in {0, 1}, Len(docs') + s = Len(docs) + 1,
         \A k \in 1 .. Len(docs') - 1 : docs'[k] = docs[k + s],
         docs'[Len(docs')] = Receipt,
         kind = "mongo" => ~Stored(Reply.id)
  PROVE  Clock' /\ OncePerID'
<1> DEFINE N == Len(docs)
           M == Len(docs')
<1>1. /\ docs \in Seq(Docs) /\ docs' \in Seq(Docs) /\ now \in Nat
  BY DEF IInv, TypeOK
<1>2. N \in Nat /\ M \in Nat /\ M + s = N + 1
  BY <1>1
<1>3. stamp = now /\ docs'[M].at = now /\ docs'[M].id = Reply.id
  BY DEF Orders, Clock, Receipt
<1>4. ASSUME NEW k \in 1..M, k # M
      PROVE  k + s \in 1..N /\ docs'[k] = docs[k + s] /\ docs'[k].at <= now
  <2> HIDE DEF N, M
  <2>1. k \in 1 .. M - 1 /\ k + s \in 1..N
    BY <1>2, <1>4
  <2>2. docs'[k] = docs[k + s]
    BY <2>1, Zenon DEF M
  <2>3. docs[k + s].at <= now
    BY <2>1, Zenon DEF Orders, Clock, Keys, N
  <2> QED
    BY <2>1, <2>2, <2>3, Zenon
<1>5. \A k \in 1..M : docs'[k].at <= now
  BY <1>1, <1>3, <1>4
<1>6. ASSUME NEW j \in 1..M, NEW k \in 1..M, j < k PROVE docs'[j].at <= docs'[k].at
  <2>1. CASE k = M
    BY <1>3, <1>5, <2>1, Zenon
  <2>2. CASE k # M
    <3>1. j # M /\ j + s < k + s
      BY <1>2, <1>6, <2>2
    <3>2. docs[j + s].at <= docs[k + s].at
      BY <1>4, <2>2, <3>1, Zenon DEF Orders, Clock, Keys
    <3> QED
      BY <1>4, <2>2, <3>1, <3>2, Zenon
  <2> QED
    BY <2>1, <2>2, Zenon
<1>7. Clock'
  BY <1>3, <1>5, <1>6, Zenon DEF Clock, Keys
<1>8. ASSUME kind = "mongo", NEW j \in 1..M, NEW k \in 1..M, docs'[j].id = docs'[k].id
      PROVE  j = k
  <2>0. \A n \in 1..N : docs[n].id # Reply.id
    BY <1>8, Zenon DEF Stored
  <2>1. CASE j # M /\ k # M
    <3>1. docs[j + s].id = docs[k + s].id /\ j + s \in 1..N /\ k + s \in 1..N
      BY <1>4, <1>8, <2>1, Zenon
    <3>2. j + s = k + s
      BY <1>8, <3>1, Zenon DEF Orders, OncePerID, Keys
    <3> QED
      BY <1>2, <3>2
  <2>2. CASE j = M /\ k # M
    BY <1>3, <1>4, <1>8, <2>0, <2>2, Zenon
  <2>3. CASE j # M /\ k = M
    BY <1>3, <1>4, <1>8, <2>0, <2>3, Zenon
  <2> QED
    BY <2>1, <2>2, <2>3, Zenon
<1>9. OncePerID'
  BY <1>8, Zenon DEF OncePerID, Keys
<1> QED
  BY <1>7, <1>9, Zenon

\* The memory store and MongoDB add a receipt.
LEMMA OrderPushed ==
  ASSUME IInv, Orders, IInv', step = "data", kind # "leveldb", docs' = Push(Receipt),
         UNCHANGED <<kind, stamp, now, idx>>, kind = "mongo" => ~Stored(Reply.id)
  PROVE  Orders'
<1>1. docs \in Seq(Docs) /\ Len(docs) \in Nat /\ docs' \in Seq(Docs)
  BY DEF IInv, TypeOK
<1>2. Indexed'
  BY DEF IInv, OnlyLevelDB, NoIndex, Indexed
<1>3. CASE docs # <<>> /\ Len(docs) >= MaxDocs
  <2>1. docs' = Append(Tail(docs), Receipt)
    BY <1>3, Zenon DEF Push
  <2>2. /\ Tail(docs) \in Seq(Docs) /\ Len(Tail(docs)) = Len(docs) - 1 /\ Len(docs) > 0
        /\ \A k \in 1 .. Len(docs) - 1 : Tail(docs)[k] = docs[k + 1]
    BY <1>1, <1>3
  <2>3. Receipt \in Docs
    BY ReceiptType, Zenon DEF IInv, Loop
  <2>4. /\ Len(docs') = Len(docs) /\ docs'[Len(docs')] = Receipt
        /\ \A k \in 1 .. Len(docs') - 1 : docs'[k] = docs[k + 1]
    BY <1>1, <2>1, <2>2, <2>3
  <2>5. Clock' /\ OncePerID'
    BY <1>1, <2>4, OrderAdded, Zenon
  <2> QED
    BY <1>2, <2>5, Zenon DEF Orders
<1>4. CASE ~(docs # <<>> /\ Len(docs) >= MaxDocs)
  <2>1. docs' = Append(docs, Receipt)
    BY <1>4, Zenon DEF Push
  <2>3. Receipt \in Docs
    BY ReceiptType, Zenon DEF IInv, Loop
  <2>4. /\ Len(docs') = Len(docs) + 1 /\ docs'[Len(docs')] = Receipt
        /\ \A k \in 1 .. Len(docs') - 1 : docs'[k] = docs[k]
    BY <1>1, <2>1, <2>3
  <2>5. \A k \in 1 .. Len(docs') - 1 : k + 0 = k
    BY <1>1
  <2>6. Clock' /\ OncePerID'
    BY <1>1, <2>4, <2>5, OrderAdded
  <2> QED
    BY <1>2, <2>6, Zenon DEF Orders
<1> QED
  BY <1>3, <1>4, Zenon

\* A Put of AddReceipt.
LEMMA OrderPut ==
  ASSUME IInv, Orders, IInv', LevelDBAdd PROVE Orders'
<1>1. /\ docs \in Seq(Docs) /\ Len(docs) \in Nat /\ docs' \in Seq(Docs) /\ Len(docs') \in Nat
      /\ idx \in [from : SUBSET Nat, to : SUBSET Nat, at : SUBSET Nat, lookup : [IDs -> Nat]]
      /\ kind = "leveldb" /\ UNCHANGED <<kind, stamp, now>> /\ Put
      /\ step \in {"data", "from", "to", "at", "lookup"}
  BY DEF IInv, TypeOK, LevelDBAdd
<1>2. OncePerID'
  BY <1>1, Zenon DEF OncePerID
<1>3. CASE step = "data"
  <2>1. docs' = Append(docs, Receipt) /\ idx' = idx
    BY <1>3, Zenon DEF LevelDBAdd, Put
  <2>2. Receipt \in Docs
    BY <1>3, ReceiptType, Zenon DEF IInv, Loop
  <2>4. /\ Len(docs') = Len(docs) + 1 /\ docs'[Len(docs')] = Receipt
        /\ \A k \in 1 .. Len(docs') - 1 : docs'[k] = docs[k]
    BY <1>1, <2>1, <2>2
  <2>5. \A k \in 1 .. Len(docs') - 1 : k + 0 = k
    BY <1>1
  <2>6. Clock'
    BY <1>1, <1>3, <2>4, <2>5, OrderAdded
  <2>7. Keys \subseteq Keys'
    BY <1>1, <2>4 DEF Keys
  <2>8. Indexed'
    BY <2>1, <2>7, Zenon DEF Orders, Indexed
  <2> QED
    BY <1>2, <2>6, <2>8, Zenon DEF Orders
<1>4. CASE step # "data"
  <2>1. docs' = docs /\ Len(docs) > 0
    BY <1>1, <1>4, Zenon DEF Put, IInv, Writing
  <2>2. Clock'
    BY <1>1, <1>4, <2>1, Zenon DEF Orders, Clock, Keys
  <2>3. Len(docs) \in Keys
    BY <1>1, <2>1 DEF Keys
  <2>4. /\ idx'.from \subseteq idx.from \cup {Len(docs)}
        /\ idx'.to \subseteq idx.to \cup {Len(docs)}
        /\ idx'.at \subseteq idx.at \cup {Len(docs)}
    BY <1>1, <1>4, Zenon DEF Put
  <2>5. Indexed'
    BY <2>1, <2>3, <2>4, Zenon DEF Orders, Indexed, Keys
  <2> QED
    BY <1>2, <2>2, <2>5, Zenon DEF Orders
<1> QED
  BY <1>3, <1>4, Zenon

\* The receipts and the index stay, and the clock does not go back.
LEMMA OrderKept ==
  ASSUME IInv, Orders, IInv', UNCHANGED store, now' >= now,
         step' \in {"data", "from", "to", "at", "lookup", "failed"} => stamp' = now'
  PROVE  Orders'
<1>1. /\ docs \in Seq(Docs) /\ docs' = docs /\ kind' = kind /\ idx' = idx
      /\ now \in Nat /\ now' \in Nat
  BY DEF IInv, TypeOK, store
<1>2. \A k \in Keys : docs[k] \in Docs
  BY <1>1 DEF Keys
<1>3. \A k \in Keys : docs[k].at <= now'
  <2>1. \A k \in Keys : docs[k].at \in Nat
    BY <1>2, Zenon DEF Docs
  <2>2. \A k \in Keys : docs[k].at <= now
    BY Zenon DEF Orders, Clock
  <2> QED
    BY <1>1, <2>1, <2>2
<1>4. Clock'
  BY <1>1, <1>3, Zenon DEF Orders, Clock, Keys
<1> QED
  BY <1>1, <1>4, Zenon DEF Orders, Indexed, OncePerID, Keys

\* Every step keeps the order.
LEMMA OrderStep == IInv /\ Orders /\ IInv' /\ [Next]_vars => Orders'
<1> SUFFICES ASSUME IInv, Orders, IInv', [Next]_vars PROVE Orders'
  BY Zenon
<1>0. now \in Nat /\ (step \in {"data", "from", "to", "at", "lookup", "failed"} => stamp = now)
  BY DEF IInv, TypeOK, Orders, Clock
<1>1. CASE UNCHANGED vars
  BY <1>0, <1>1, OrderKept DEF vars, loop
<1>2. CASE Setup \/ ConsumeClaim \/ CommitMarks \/ Cleanup
  BY <1>0, <1>2, OrderKept DEF Setup, ConsumeClaim, CommitMarks, Cleanup, loop
<1>3. CASE ConsumerMessagesLoop \/ MarkOffset \/ SendReply
  BY <1>0, <1>3, OrderKept DEF ConsumerMessagesLoop, MarkOffset, SendReply
<1>4. CASE LevelDBAddFails \/ WriteReceiptRetry \/ DuplicateQueryFails
  BY <1>0, <1>4, OrderKept DEF LevelDBAddFails, WriteReceiptRetry, DuplicateQueryFails
<1>5. CASE ProcessReceipt
  <2>1. UNCHANGED store /\ now' >= now
    BY <1>0, <1>5, ReceiptAssumption DEF ProcessReceipt
  <2>2. step' \in {"data", "from", "to", "at", "lookup", "failed"} => stamp' = now'
    BY <1>5, Zenon DEF ProcessReceipt
  <2> QED
    BY <2>1, <2>2, OrderKept, Zenon
<1>6. CASE LevelDBAdd
  BY <1>6, OrderPut, Zenon
<1>7. CASE MemoryAdd
  BY <1>7, OrderPushed, Zenon DEF MemoryAdd
<1>8. CASE MongoAdd \/ MongoAddFails
  <2>1. /\ kind = "mongo" /\ step = "data" /\ UNCHANGED <<kind, idx, stamp, now>>
        /\ docs' = docs \/ (docs' = Push(Receipt) /\ ~Stored(Reply.id))
    BY <1>8, Zenon DEF MongoAdd, MongoAddFails
  <2>2. CASE docs' = docs
    BY <1>0, <2>1, <2>2, OrderKept DEF store
  <2>3. CASE docs' = Push(Receipt) /\ ~Stored(Reply.id)
    BY <2>1, <2>3, OrderPushed, Zenon
  <2> QED
    BY <2>1, <2>2, <2>3, Zenon
<1>9. CASE Restart
  <2>1. /\ kind' = kind /\ idx' = idx /\ now' = now /\ step' = "idle"
        /\ docs' = IF kind = "memory" THEN <<>> ELSE docs
    BY <1>9, Zenon DEF Restart
  <2>2. CASE kind # "memory"
    BY <1>0, <2>1, <2>2, OrderKept DEF store
  <2>3. CASE kind = "memory"
    <3>1. docs' = <<>> /\ Keys' = {}
      BY <2>1, <2>3 DEF Keys
    <3>2. Clock' /\ OncePerID'
      BY <2>1, <3>1, Zenon DEF Clock, OncePerID
    <3>3. Indexed'
      BY <2>1, <2>3 DEF IInv, OnlyLevelDB, NoIndex, Indexed
    <3> QED
      BY <3>2, <3>3, Zenon DEF Orders
  <2> QED
    BY <2>2, <2>3, Zenon
<1> QED
  BY <1>1, <1>2, <1>3, <1>4, <1>5, <1>6, <1>7, <1>8, <1>9, Zenon DEF Next, Steps

\* An empty store is in order.
LEMMA OrderInit == Init => Orders
<1> SUFFICES ASSUME Init PROVE Orders
  BY Zenon
<1>1. Keys = {} /\ step = "idle"
  BY DEF Init, Keys
<1> QED
  BY <1>1, Zenon DEF Init, NoIndex, Orders, Clock, Indexed, OncePerID

-----------------------------------------------------------------------------
(* What the queries answer.                                                *)

\* The order of the "receivedAt" entries is that of the keys.
LEMMA OrderOfKeys ==
  ASSUME docs \in Seq(Docs), Orders, NEW j \in Keys, NEW k \in Keys, j <= k
  PROVE  Earlier(j, k)
<1>1. docs[j] \in Docs /\ docs[k] \in Docs /\ j \in Nat /\ k \in Nat
  BY DEF Keys
<1>2. docs[j].at \in Nat /\ docs[k].at \in Nat
  BY <1>1, Zenon DEF Docs
<1>3. j < k => docs[j].at <= docs[k].at
  BY Zenon DEF Orders, Clock
<1> QED
  BY <1>1, <1>2, <1>3 DEF Earlier

\* The entry since which LevelDB reads, under the order of receivedAt.
LEMMA EndPoint ==
  ASSUME IInv, Orders, NEW since \in Nat, FindEndPoint(since) # 0
  PROVE  /\ FindEndPoint(since) \in Keys
         /\ \A k \in Keys : k >= FindEndPoint(since) => docs[k].at >= since
         /\ \A k \in idx.at : docs[k].at >= since => k >= FindEndPoint(since)
<1> DEFINE L == {k \in idx.at : docs[k].at >= since}
           end == FindEndPoint(since)
<1>1. docs \in Seq(Docs) /\ idx.at \subseteq Keys /\ Keys \subseteq Nat
  BY DEF IInv, TypeOK, Orders, Indexed, Keys
<1>2. \A k \in Keys : docs[k] \in Docs /\ docs[k].at \in Nat
  <2>1. \A k \in Keys : docs[k] \in Docs
    BY <1>1 DEF Keys
  <2> QED
    BY <2>1, Zenon DEF Docs
<1>3. \A j, k \in Keys : j < k => docs[j].at <= docs[k].at
  BY Zenon DEF Orders, Clock
<1>4. L # {} /\ end = CHOOSE k \in L : \A j \in L : Earlier(k, j)
  BY Zenon DEF FindEndPoint
<1>5. L \in SUBSET Keys
  BY <1>1, Zenon
<1>6. PICK m \in L : \A j \in L : m <= j
  BY <1>1, <1>4, <1>5, Least, Zenon
<1>7. \A j \in L : Earlier(m, j)
  BY <1>1, <1>5, <1>6, OrderOfKeys, Zenon
<1>8. end \in L /\ \A j \in L : Earlier(end, j)
  BY <1>4, <1>6, <1>7, Zenon
<1> HIDE DEF end
<1>9. end \in Keys /\ end \in Nat /\ docs[end].at >= since /\ docs[end].at \in Nat
  BY <1>1, <1>2, <1>5, <1>8, Zenon
<1>10. ASSUME NEW k \in Keys, k >= end PROVE docs[k].at >= since
  <2>1. k \in Nat /\ docs[k].at \in Nat /\ (k = end \/ end < k)
    BY <1>1, <1>2, <1>9, <1>10
  <2>2. docs[end].at <= docs[k].at
    BY <1>3, <1>9, <2>1
  <2> QED
    BY <1>9, <2>1, <2>2
<1>11. ASSUME NEW k \in idx.at, docs[k].at >= since PROVE k >= end
  <2>1. k \in L /\ k \in Keys /\ k \in Nat /\ docs[k].at \in Nat
    BY <1>1, <1>2, <1>11, Zenon
  <2>2. Earlier(end, k)
    BY <1>8, <2>1, Zenon
  <2>3. k < end => docs[k].at <= docs[end].at
    BY <1>3, <1>9, <2>1, Zenon
  <2> QED
    BY <1>9, <2>1, <2>2, <2>3 DEF Earlier
<1> QED
  BY <1>9, <1>10, <1>11, Zenon DEF end

\* The limit a query is run with.
LEMMA Limits ==
  ASSUME NEW q \in Query, LimitOf(q) # None
  PROVE  /\ LimitOf(q) \in Nat
         /\ q.limit # None /\ q.limit # 0 => LimitOf(q) = q.limit /\ LimitOf(q) > 0
         /\ (q.limit = None \/ q.limit = 0) /\ q.ids = {} =>
              LimitOf(q) = DefaultLimit /\ LimitOf(q) > 0
         /\ (q.limit = None \/ q.limit = 0) /\ q.ids # {} => LimitOf(q) = 0
<1>1. q.limit \in Nat \cup {None}
  BY Zenon DEF Query
<1>2. QueryLimit \in Nat /\ DefaultLimit \in Nat /\ DefaultLimit > 0 /\ None \notin Nat
  BY QueryAssumption
<1>3. CASE q.limit = None
  BY <1>2, <1>3, Zenon DEF LimitOf
<1>4. CASE q.limit \in Nat
  BY <1>2, <1>4 DEF LimitOf
<1> QED
  BY <1>1, <1>3, <1>4, Zenon

\* Receipts of different requests are no more than the requests asked for.
LEMMA NoMoreThanIDs ==
  ASSUME NEW K, NEW ids, IsFiniteSet(ids), \A k \in K : docs[k].id \in ids,
         \A j, k \in K : docs[j].id = docs[k].id => j = k
  PROVE  Cardinality(K) <= Cardinality(ids)
<1> DEFINE f == [k \in K |-> docs[k].id]
<1>1. f \in Injection(K, ids)
  BY Zenon DEF Injection, IsInjective
<1> HIDE DEF f
<1> QED
  BY <1>1, FS_Injection, Zenon

\* A page of keys that meet the query is a sound answer.
LEMMA SoundPage ==
  ASSUME docs \in Seq(Docs), NEW q \in Query, NEW lim \in Nat, NEW K \in SUBSET Keys,
         \A k \in K : Meets(k, q) /\ AtOrAfter(k, q.since),
         NEW s, Listed(s, K),
         GetReceipts(q) = First(lim, s),
         q.limit # None /\ q.limit # 0 => lim = q.limit,
         (q.limit = None \/ q.limit = 0) /\ q.ids = {} => lim = DefaultLimit,
         (q.limit = None \/ q.limit = 0) /\ q.ids # {} =>
           (kind = "leveldb" => lim = QueryLimit) /\ Cardinality(K) <= Cardinality(q.ids)
  PROVE  Sound(q)
<1> DEFINE r == First(lim, s)
<1>1. Cardinality(K) \in Nat
  BY KeysListed, Zenon
<1>2. Listed(r, K) /\ (lim > 0 => Len(r) <= lim)
  BY <1>1, FirstListed, Zenon
<1> HIDE DEF r
<1>3. /\ r \in Seq(K) /\ Len(r) \in Nat /\ Len(r) <= Cardinality(K)
      /\ \A m, n \in 1..Len(r) : m < n => r[m] > r[n]
  BY <1>2, Zenon DEF Listed
<1>4. \A n \in 1..Len(r) : r[n] \in K
  BY <1>3
<1>5. \A n \in 1..Len(r) : r[n] \in Keys /\ Meets(r[n], q) /\ AtOrAfter(r[n], q.since)
  BY <1>4, Zenon
<1>6. /\ q.limit \in Nat \cup {None} /\ QueryLimit \in Nat /\ DefaultLimit \in Nat
      /\ DefaultLimit > 0 /\ IsFiniteSet(q.ids)
  BY QueryAssumption DEF Query
<1>7. Cardinality(q.ids) \in Nat
  BY <1>6, FS_CardinalityType, Zenon
<1>8. WithinLimit(q, Len(r))
  <2>1. CASE q.limit # None /\ q.limit # 0
    <3>1. lim = q.limit /\ lim > 0
      BY <1>6, <2>1
    <3> QED
      BY <1>2, <2>1, <3>1, Zenon DEF WithinLimit
  <2>2. CASE (q.limit = None \/ q.limit = 0) /\ q.ids = {}
    <3>1. lim = DefaultLimit /\ lim > 0
      BY <1>6, <2>2, Zenon
    <3> QED
      BY <1>2, <2>2, <3>1, Zenon DEF WithinLimit
  <2>3. CASE (q.limit = None \/ q.limit = 0) /\ q.ids # {}
    <3>1. Len(r) <= Cardinality(q.ids)
      BY <1>1, <1>3, <1>7, <2>3
    <3>2. kind = "leveldb" /\ QueryLimit > 0 => Len(r) <= QueryLimit
      BY <1>2, <2>3, Zenon
    <3> QED
      BY <2>3, <3>1, <3>2, Zenon DEF WithinLimit
  <2> QED
    BY <2>1, <2>2, <2>3, Zenon
<1>9. GetReceipts(q) = r
  BY Zenon DEF r
<1> QED
  BY <1>3, <1>5, <1>8, <1>9, Zenon DEF Sound

\* The keys LevelDB finds by request ID, and by "from" and "to".
LEMMA ByIDs ==
  ASSUME IInv, NEW q \in Query, NEW end, NEW k \in GetLookupKeysByIDs(q, end)
  PROVE  k \in Keys /\ k >= end /\ docs[k].id \in q.ids /\ idx.lookup[docs[k].id] = k
<1>1. k >= end /\ k # 0 /\ \E i \in q.ids : k = idx.lookup[i]
  BY Zenon DEF GetLookupKeysByIDs, ApplyBound
<1>2. PICK i \in q.ids : k = idx.lookup[i]
  BY <1>1, Zenon
<1>3. i \in IDs
  BY Zenon DEF Query
<1>4. k \in Keys /\ docs[k].id = i
  BY <1>1, <1>2, <1>3, Zenon DEF IInv, LookupIsComplete, Keys
<1> QED
  BY <1>1, <1>2, <1>4, Zenon

\* The indexes of "from" and "to" name stored receipts that match.
LEMMA ByFromAndTo ==
  ASSUME Indexed, NEW q \in Query, q.from # None \/ q.to # None, NEW end, NEW limit,
         NEW k \in GetLookupKeysByFromAndTo(q, end, limit)
  PROVE  /\ k \in Keys /\ k >= end
         /\ q.from # None => docs[k].from = q.from
         /\ q.to # None => docs[k].to = q.to
<1> DEFINE F == {j \in idx.from : docs[j].from = q.from}
           T == {j \in idx.to : docs[j].to = q.to}
<1>1. Oldest(limit, F) \subseteq F /\ Oldest(limit, T) \subseteq T
  BY Zenon DEF Oldest
<1>2. k >= end /\ k \in IF q.to = None THEN Oldest(limit, F)
                        ELSE IF q.from = None THEN Oldest(limit, T)
                        ELSE Oldest(limit, F) \cap Oldest(limit, T)
  BY Zenon DEF GetLookupKeysByFromAndTo, ApplyBound
<1>3. F \subseteq Keys /\ T \subseteq Keys
  BY Zenon DEF Indexed
<1> QED
  BY <1>1, <1>2, <1>3, Zenon

\* The entry since which LevelDB reads, 0 for the oldest.
End(q) == IF q.since > 0 THEN FindEndPoint(q.since) ELSE 0

\* The keys a query of LevelDB by ID, "from" or "to" finds.
Found(q, limit) ==
  IF q.from = None /\ q.to = None THEN GetLookupKeysByIDs(q, End(q))
  ELSE IF q.ids = {} THEN GetLookupKeysByFromAndTo(q, End(q), limit)
  ELSE GetLookupKeysByIDs(q, End(q)) \cap GetLookupKeysByFromAndTo(q, End(q), limit)

Unfiltered(q) ==
  {k \in Keys : k >= End(q) /\ (q.start # 0 => k <= q.start)}

\* The answer of LevelDB, by the kind of query.
LEMMA LevelDBAnswers ==
  ASSUME NEW q, NEW lim, NEW limit, limit = IF lim = 0 THEN QueryLimit ELSE lim
  PROVE  /\ q.since > 0 /\ End(q) = 0 => LevelDBGetReceipts(q, lim) = <<>>
         /\ ~(q.since > 0 /\ End(q) = 0) /\ (q.ids # {} \/ q.from # None \/ q.to # None) =>
              LevelDBGetReceipts(q, lim) = First(limit, Descending(Found(q, limit)))
         /\ /\ ~(q.since > 0 /\ End(q) = 0)
            /\ q.ids = {} /\ q.from = None /\ q.to = None
            => LevelDBGetReceipts(q, lim) = First(limit, After(q.skip, Descending(Unfiltered(q))))
<1>1. q.since > 0 /\ End(q) = 0 => LevelDBGetReceipts(q, lim) = <<>>
  BY Zenon DEF LevelDBGetReceipts, End
<1>2. ASSUME ~(q.since > 0 /\ End(q) = 0), q.ids # {} \/ q.from # None \/ q.to # None
      PROVE  LevelDBGetReceipts(q, lim) = First(limit, Descending(Found(q, limit)))
  <2>1. CASE q.from = None /\ q.to = None
    BY <1>2, <2>1, Zenon DEF LevelDBGetReceipts, Found, End
  <2>2. CASE q.ids = {} /\ (q.from # None \/ q.to # None)
    BY <1>2, <2>2, Zenon DEF LevelDBGetReceipts, Found, End
  <2>3. CASE q.ids # {} /\ (q.from # None \/ q.to # None)
    BY <1>2, <2>3, Zenon DEF LevelDBGetReceipts, Found, End
  <2> QED
    BY <1>2, <2>1, <2>2, <2>3, Zenon
<1>3. ASSUME ~(q.since > 0 /\ End(q) = 0), q.ids = {}, q.from = None, q.to = None
      PROVE  LevelDBGetReceipts(q, lim) = First(limit, After(q.skip, Descending(Unfiltered(q))))
  BY <1>3, Zenon DEF LevelDBGetReceipts, GetReceiptsNoFilter, Unfiltered, End
<1> QED
  BY <1>1, <1>2, <1>3, Zenon

\* LevelDB answers with what was asked for.
LEMMA LevelDBSound ==
  ASSUME IInv, Orders, kind = "leveldb", NEW q \in Query, LimitOf(q) # None
  PROVE  Sound(q)
<1> DEFINE lim   == LimitOf(q)
           limit == IF lim = 0 THEN QueryLimit ELSE lim
<1>1. /\ docs \in Seq(Docs) /\ q.since \in Nat /\ q.skip \in Nat
      /\ QueryLimit \in Nat /\ DefaultLimit \in Nat /\ DefaultLimit > 0 /\ IsFiniteSet(q.ids)
  BY QueryAssumption DEF IInv, TypeOK, Query
<1>2. /\ lim \in Nat
      /\ q.limit # None /\ q.limit # 0 => lim = q.limit /\ lim > 0
      /\ (q.limit = None \/ q.limit = 0) /\ q.ids = {} => lim = DefaultLimit /\ lim > 0
      /\ (q.limit = None \/ q.limit = 0) /\ q.ids # {} => lim = 0
  BY Limits, Zenon
<1>3. GetReceipts(q) = LevelDBGetReceipts(q, lim)
  BY Zenon DEF GetReceipts
<1>4. /\ limit \in Nat
      /\ q.limit # None /\ q.limit # 0 => limit = q.limit
      /\ (q.limit = None \/ q.limit = 0) /\ q.ids = {} => limit = DefaultLimit
      /\ (q.limit = None \/ q.limit = 0) /\ q.ids # {} => limit = QueryLimit
  BY <1>1, <1>2
<1>5. /\ q.since > 0 /\ End(q) = 0 => LevelDBGetReceipts(q, lim) = <<>>
      /\ ~(q.since > 0 /\ End(q) = 0) /\ (q.ids # {} \/ q.from # None \/ q.to # None) =>
           LevelDBGetReceipts(q, lim) = First(limit, Descending(Found(q, limit)))
      /\ /\ ~(q.since > 0 /\ End(q) = 0)
         /\ q.ids = {} /\ q.from = None /\ q.to = None
         => LevelDBGetReceipts(q, lim) = First(limit, After(q.skip, Descending(Unfiltered(q))))
  <2> HIDE DEF lim
  <2> QED
    BY LevelDBAnswers, Zenon
<1> HIDE DEF lim, limit
<1>6. CASE q.since > 0 /\ End(q) = 0
  <2>1. GetReceipts(q) = <<>> /\ Len(<<>>) = 0 /\ 1..0 = {}
    BY <1>3, <1>5, <1>6
  <2>2. q.limit \in Nat \cup {None} /\ Cardinality(q.ids) \in Nat
    BY <1>1, FS_CardinalityType, Zenon DEF Query
  <2>3. WithinLimit(q, 0)
    BY <1>1, <2>2 DEF WithinLimit
  <2> QED
    BY <2>1, <2>3, Zenon DEF Sound
<1>7. ASSUME ~(q.since > 0 /\ End(q) = 0), NEW k \in Keys, k >= End(q)
      PROVE  AtOrAfter(k, q.since)
  <2>1. CASE q.since > 0
    <3>1. End(q) = FindEndPoint(q.since) /\ FindEndPoint(q.since) # 0
      BY <1>7, <2>1, Zenon DEF End
    <3> QED
      BY <1>1, <1>7, <3>1, EndPoint, Zenon DEF AtOrAfter
  <2>2. CASE ~(q.since > 0)
    BY <2>2, Zenon DEF AtOrAfter
  <2> QED
    BY <2>1, <2>2, Zenon
<1>8. CASE ~(q.since > 0 /\ End(q) = 0) /\ (q.ids # {} \/ q.from # None \/ q.to # None)
  <2> DEFINE K == Found(q, limit)
  <2>1. ASSUME NEW k \in K
        PROVE  /\ k \in Keys /\ Meets(k, q) /\ AtOrAfter(k, q.since)
               /\ q.ids # {} => idx.lookup[docs[k].id] = k
    <3>1. /\ k \in GetLookupKeysByIDs(q, End(q)) \/ q.ids = {}
          /\ \/ k \in GetLookupKeysByFromAndTo(q, End(q), limit)
             \/ q.from = None /\ q.to = None
      BY <1>8, <2>1, Zenon DEF Found
    <3>2. q.ids # {} => /\ k \in Keys /\ k >= End(q) /\ docs[k].id \in q.ids
                        /\ idx.lookup[docs[k].id] = k
      BY <3>1, ByIDs, Zenon
    <3>3. q.from # None \/ q.to # None =>
            /\ k \in Keys /\ k >= End(q)
            /\ q.from # None => docs[k].from = q.from
            /\ q.to # None => docs[k].to = q.to
      BY <3>1, ByFromAndTo DEF Orders
    <3>4. k \in Keys /\ k >= End(q)
      BY <1>8, <3>2, <3>3, Zenon
    <3>5. Meets(k, q)
      BY <3>2, <3>3, Zenon DEF Meets
    <3> QED
      BY <1>7, <1>8, <3>2, <3>4, <3>5, Zenon
  <2> HIDE DEF K
  <2>2. K \in SUBSET Keys /\ \A k \in K : Meets(k, q) /\ AtOrAfter(k, q.since)
    BY <2>1, Zenon
  <2>3. Listed(Descending(K), K)
    BY <1>1, <2>2, KeysListed, Zenon
  <2>4. q.ids # {} => Cardinality(K) <= Cardinality(q.ids)
    <3> SUFFICES ASSUME q.ids # {} PROVE Cardinality(K) <= Cardinality(q.ids)
      BY Zenon
    <3>1. \A k \in K : docs[k].id \in q.ids
      BY <2>2, Zenon DEF Meets
    <3>2. \A j, k \in K : docs[j].id = docs[k].id => j = k
      BY <2>1
    <3> QED
      BY <1>1, <3>1, <3>2, NoMoreThanIDs, Zenon
  <2>5. GetReceipts(q) = First(limit, Descending(K))
    BY <1>3, <1>5, <1>8, Zenon DEF K
  <2> QED
    BY <1>1, <1>4, <2>2, <2>3, <2>4, <2>5, SoundPage, Zenon
<1>9. CASE ~(q.since > 0 /\ End(q) = 0) /\ q.ids = {} /\ q.from = None /\ q.to = None
  <2> DEFINE K == Unfiltered(q)
             D == Descending(K)
  <2>1. K \in SUBSET Keys /\ \A k \in K : k >= End(q)
    BY Zenon DEF Unfiltered
  <2>2. \A k \in K : Meets(k, q) /\ AtOrAfter(k, q.since)
    BY <1>7, <1>9, <2>1, Zenon DEF Meets
  <2>5. GetReceipts(q) = First(limit, After(q.skip, D))
    BY <1>3, <1>5, <1>9, Zenon
  <2> HIDE DEF K
  <2>3. Listed(D, K) /\ Cardinality(K) \in Nat
    BY <1>1, <2>1, KeysListed, Zenon
  <2> HIDE DEF D
  <2>4. Listed(After(q.skip, D), K)
    BY <1>1, <2>3, AfterListed, Zenon
  <2> QED
    BY <1>1, <1>4, <1>9, <2>1, <2>2, <2>4, <2>5, SoundPage, Zenon
<1> QED
  BY <1>6, <1>8, <1>9, Zenon

\* MongoDB answers with what was asked for.
LEMMA MongoSound ==
  ASSUME IInv, Orders, kind = "mongo", NEW q \in Query, LimitOf(q) # None
  PROVE  Sound(q)
<1> DEFINE lim == LimitOf(q)
           K   == {k \in Keys : Meets(k, q) /\ (q.since > 0 => docs[k].at > q.since)}
           D   == Descending(K)
<1>1. docs \in Seq(Docs) /\ q.since \in Nat /\ q.skip \in Nat /\ IsFiniteSet(q.ids)
  BY Zenon DEF IInv, TypeOK, Query
<1>2. /\ lim \in Nat
      /\ q.limit # None /\ q.limit # 0 => lim = q.limit
      /\ (q.limit = None \/ q.limit = 0) /\ q.ids = {} => lim = DefaultLimit
  BY Limits, Zenon
<1>3. GetReceipts(q) = First(lim, After(q.skip, D))
  BY Zenon DEF GetReceipts, MongoGetReceipts
<1>4. K \in SUBSET Keys /\ \A k \in K : Meets(k, q) /\ AtOrAfter(k, q.since)
  <2>1. \A k \in Keys : docs[k] \in Docs
    BY <1>1 DEF Keys
  <2>2. \A k \in Keys : docs[k].at \in Nat
    BY <2>1, Zenon DEF Docs
  <2> QED
    BY <1>1, <2>2 DEF AtOrAfter
<1> HIDE DEF K, lim
<1>5. Listed(D, K) /\ Cardinality(K) \in Nat
  BY <1>1, <1>4, KeysListed, Zenon
<1> HIDE DEF D
<1>6. Listed(After(q.skip, D), K)
  BY <1>1, <1>5, AfterListed, Zenon
<1>7. q.ids # {} => Cardinality(K) <= Cardinality(q.ids)
  <2> SUFFICES ASSUME q.ids # {} PROVE Cardinality(K) <= Cardinality(q.ids)
    BY Zenon
  <2>1. \A k \in K : docs[k].id \in q.ids
    BY <1>4, Zenon DEF Meets
  <2>2. \A j, k \in K : docs[j].id = docs[k].id => j = k
    BY <1>4, Zenon DEF Orders, OncePerID
  <2> QED
    BY <1>1, <2>1, <2>2, NoMoreThanIDs, Zenon
<1> QED
  BY <1>1, <1>2, <1>3, <1>4, <1>6, <1>7, SoundPage, Zenon

\* The memory store refuses filters, and lists its receipts otherwise.
LEMMA MemorySound ==
  ASSUME IInv, kind = "memory", NEW q \in Query, LimitOf(q) # None
  PROVE  Sound(q)
<1> DEFINE lim == LimitOf(q)
           D   == Descending(Keys)
<1>1. docs \in Seq(Docs) /\ q.since \in Nat /\ q.skip \in Nat
  BY Zenon DEF IInv, TypeOK, Query
<1>2. /\ lim \in Nat
      /\ q.limit # None /\ q.limit # 0 => lim = q.limit
      /\ (q.limit = None \/ q.limit = 0) /\ q.ids = {} => lim = DefaultLimit
  BY Limits, Zenon
<1>3. GetReceipts(q) = MemoryGetReceipts(q, lim)
  BY Zenon DEF GetReceipts
<1> HIDE DEF lim
<1>4. CASE q.ids # {} \/ q.since # 0 \/ q.from # None \/ q.to # None
  BY <1>3, <1>4, Zenon DEF MemoryGetReceipts, Sound
<1>5. CASE q.ids = {} /\ q.since = 0 /\ q.from = None /\ q.to = None
  <2>1. GetReceipts(q) = First(lim, After(q.skip, D))
    BY <1>3, <1>5, Zenon DEF MemoryGetReceipts
  <2>2. Keys \in SUBSET Keys /\ \A k \in Keys : Meets(k, q) /\ AtOrAfter(k, q.since)
    BY <1>5 DEF Meets, AtOrAfter
  <2>3. Listed(D, Keys) /\ Cardinality(Keys) \in Nat
    BY <1>1, <2>2, KeysListed, Zenon
  <2> HIDE DEF D
  <2>4. Listed(After(q.skip, D), Keys)
    BY <1>1, <2>3, AfterListed, Zenon
  <2> QED
    BY <1>1, <1>2, <1>5, <2>1, <2>2, <2>4, SoundPage, Zenon
<1> QED
  BY <1>4, <1>5, Zenon

\* An index of no more than limit entries is read in full.
LEMMA IndexRead ==
  ASSUME docs \in Seq(Docs), NEW S \in SUBSET Keys, NEW limit \in Nat, Len(docs) <= limit
  PROVE  Oldest(limit, S) = S
<1>1. /\ IsFiniteSet(S) /\ Cardinality(S) \in Nat /\ Cardinality(S) <= Len(docs)
      /\ Len(docs) \in Nat /\ S \in SUBSET Nat
  BY KeysListed DEF Keys
<1>2. Cardinality(S) <= limit
  BY <1>1
<1> QED
  BY <1>1, <1>2, OldestAll, Zenon

\* LevelDB answers with all that was asked for, unless the limit cuts it.
LEMMA LevelDBComplete ==
  ASSUME IInv, Orders, kind = "leveldb", NEW q \in Query,
         q.start = 0, q.skip = 0, q.limit = None
  PROVE  Complete(q)
<1> DEFINE lim   == LimitOf(q)
           limit == IF lim = 0 THEN QueryLimit ELSE lim
           r     == GetReceipts(q)
<1>1. /\ docs \in Seq(Docs) /\ Len(docs) \in Nat /\ q.since \in Nat
      /\ QueryLimit \in Nat /\ DefaultLimit \in Nat /\ DefaultLimit > 0 /\ None \notin Nat
  BY QueryAssumption DEF IInv, TypeOK, Query
<1>2. lim = (IF q.ids = {} THEN DefaultLimit ELSE 0) /\ lim \in Nat
  BY <1>1, Zenon DEF LimitOf
<1>3. r = LevelDBGetReceipts(q, lim)
  BY <1>1, <1>2, Zenon DEF GetReceipts
<1>4. limit = (IF q.ids = {} THEN DefaultLimit ELSE QueryLimit) /\ limit \in Nat
  BY <1>1, <1>2
<1>5. /\ ~(q.since > 0 /\ End(q) = 0) /\ (q.ids # {} \/ q.from # None \/ q.to # None) =>
           LevelDBGetReceipts(q, lim) = First(limit, Descending(Found(q, limit)))
      /\ /\ ~(q.since > 0 /\ End(q) = 0)
         /\ q.ids = {} /\ q.from = None /\ q.to = None
         => LevelDBGetReceipts(q, lim) = First(limit, After(q.skip, Descending(Unfiltered(q))))
  <2> HIDE DEF lim
  <2> QED
    BY LevelDBAnswers, Zenon
<1> HIDE DEF lim, limit, r
<1> SUFFICES ASSUME NEW i \in IDs, NEW k, k = idx.lookup[i], k # 0, Meets(k, q),
                    AtOrAfter(k, q.since),
                    Len(docs) <= DefaultLimit, Len(docs) <= QueryLimit
             PROVE  \E n \in 1..Len(r) : r[n] = k
  BY Zenon DEF Complete, r
<1>6. /\ k \in Keys /\ docs[k].id = i /\ k \in idx.from /\ k \in idx.at
      /\ docs[k].to # None => k \in idx.to
  BY Zenon DEF IInv, LookupIsComplete, Keys
<1>7. k \in Nat /\ Len(docs) <= limit
  BY <1>1, <1>4, <1>6 DEF Keys
<1>8. ~(q.since > 0 /\ End(q) = 0) /\ k >= End(q)
  <2>1. CASE q.since > 0
    <3>1. docs[k].at >= q.since
      BY <2>1, Zenon DEF AtOrAfter
    <3>2. FindEndPoint(q.since) # 0
      <4> DEFINE L == {j \in idx.at : docs[j].at >= q.since}
      <4>1. k \in L /\ L \in SUBSET Keys
        BY <1>6, <3>1, Zenon DEF Orders, Indexed
      <4>2. FindEndPoint(q.since) = CHOOSE m \in L : \A j \in L : Earlier(m, j)
        BY <4>1, Zenon DEF FindEndPoint
      <4>3. PICK m \in L : \A j \in L : m <= j
        BY <1>1, <4>1, Least, Zenon
      <4>4. \A j \in L : Earlier(m, j)
        BY <1>1, <4>1, <4>3, OrderOfKeys, Zenon
      <4>5. FindEndPoint(q.since) \in Keys
        BY <4>1, <4>2, <4>3, <4>4, Zenon
      <4> QED
        BY <1>1, <4>5 DEF Keys
    <3>3. k >= FindEndPoint(q.since)
      BY <1>1, <1>6, <3>1, <3>2, EndPoint, Zenon
    <3> QED
      BY <2>1, <3>2, <3>3, Zenon DEF End
  <2>2. CASE ~(q.since > 0)
    BY <1>7, <2>2 DEF End
  <2> QED
    BY <2>1, <2>2, Zenon
<1>9. CASE q.ids # {} \/ q.from # None \/ q.to # None
  <2> DEFINE K == Found(q, limit)
  <2>1. K \in SUBSET Keys
    <3> SUFFICES ASSUME NEW j \in K PROVE j \in Keys
      BY Zenon
    <3>1. \/ j \in GetLookupKeysByIDs(q, End(q))
          \/ (q.from # None \/ q.to # None) /\ j \in GetLookupKeysByFromAndTo(q, End(q), limit)
      BY Zenon DEF Found
    <3> QED
      BY <3>1, ByIDs, ByFromAndTo, Zenon DEF Orders
  <2>2. q.ids # {} => k \in GetLookupKeysByIDs(q, End(q))
    BY <1>6, <1>8, Zenon DEF Meets, GetLookupKeysByIDs, ApplyBound
  <2>3. q.from # None \/ q.to # None => k \in GetLookupKeysByFromAndTo(q, End(q), limit)
    <3> DEFINE F == {j \in idx.from : docs[j].from = q.from}
               T == {j \in idx.to : docs[j].to = q.to}
    <3>1. F \in SUBSET Keys /\ T \in SUBSET Keys
      BY Zenon DEF Orders, Indexed
    <3>2. (q.from # None => k \in F) /\ (q.to # None => k \in T)
      BY <1>6, Zenon DEF Meets
    <3> HIDE DEF F, T
    <3>3. Oldest(limit, F) = F /\ Oldest(limit, T) = T
      BY <1>1, <1>4, <1>7, <3>1, IndexRead, Zenon
    <3> QED
      BY <1>8, <3>2, <3>3, Zenon DEF GetLookupKeysByFromAndTo, ApplyBound, F, T
  <2>4. k \in K
    BY <1>9, <2>2, <2>3, Zenon DEF Found
  <2>5. r = First(limit, Descending(K))
    BY <1>3, <1>5, <1>8, <1>9, Zenon
  <2> HIDE DEF K
  <2>6. /\ Listed(Descending(K), K) /\ Cardinality(K) \in Nat /\ Cardinality(K) <= Len(docs)
        /\ \E n \in 1..Len(Descending(K)) : Descending(K)[n] = k
    BY <1>1, <2>1, <2>4, KeysListed, Zenon
  <2>7. Len(Descending(K)) <= limit
    BY <1>1, <1>4, <1>7, <2>6 DEF Listed
  <2> QED
    BY <1>4, <2>5, <2>6, <2>7, FirstListed
<1>10. CASE q.ids = {} /\ q.from = None /\ q.to = None
  <2> DEFINE K == Unfiltered(q)
             D == Descending(K)
             A == After(q.skip, D)
  <2>1. K \in SUBSET Keys /\ k \in K
    BY <1>6, <1>8, Zenon DEF Unfiltered
  <2>2. r = First(limit, A)
    BY <1>3, <1>5, <1>8, <1>10, Zenon
  <2> HIDE DEF K
  <2>3. /\ Listed(D, K) /\ Cardinality(K) \in Nat /\ Cardinality(K) <= Len(docs)
        /\ \E n \in 1..Len(D) : D[n] = k
    BY <1>1, <2>1, KeysListed, Zenon
  <2> HIDE DEF D
  <2>4. Listed(A, K) /\ Len(A) = Len(D) /\ \A n \in 1..Len(D) : A[n] = D[n]
    BY <2>3, AfterListed
  <2> HIDE DEF A
  <2>5. Len(A) <= limit /\ \E n \in 1..Len(A) : A[n] = k
    BY <1>1, <1>4, <1>7, <2>3, <2>4 DEF Listed
  <2>6. Len(r) = Len(A) /\ \A n \in 1..Len(A) : r[n] = A[n]
    BY <1>4, <2>2, <2>3, <2>4, <2>5, FirstListed
  <2> QED
    BY <2>5, <2>6, Zenon
<1> QED
  BY <1>9, <1>10, Zenon

-----------------------------------------------------------------------------
\* GET /receipts answers with stored receipts that meet every filter, newest
\* first, each once and within the limit, for every query and every limit that
\* is configured, at every moment: also between two Puts of AddReceipt, after
\* one that was cut off, and while the capped collection drops receipts.
THEOREM EveryQuerySound == Spec => [](\A q \in Query : Sound(q))
<1>1. IInv /\ Orders => \A q \in Query : Sound(q)
  <2> SUFFICES ASSUME IInv, Orders, NEW q \in Query PROVE Sound(q)
    BY Zenon
  <2>1. CASE LimitOf(q) = None
    BY <2>1, Zenon DEF Sound, GetReceipts
  <2>2. CASE LimitOf(q) # None
    <3>1. kind \in {"leveldb", "mongo", "memory"}
      BY ReceiptAssumption, Zenon DEF IInv, TypeOK
    <3> QED
      BY <2>2, <3>1, LevelDBSound, MongoSound, MemorySound, Zenon
  <2> QED
    BY <2>1, <2>2, Zenon
<1> QED
  BY <1>1, InvInit, InvStep, OrderInit, OrderStep, PTL DEF Spec

\* The queries of the runs among them.
THEOREM QueriesAreSound == Spec => []QueriesSound
<1>1. (\A q \in Query : Sound(q)) /\ docs \in Seq(Docs) => QueriesSound
  BY ReceiptAssumption, QueryAssumption DEF QueriesSound, Queries, Query
<1>2. IInv => docs \in Seq(Docs)
  BY Zenon DEF IInv, TypeOK
<1> QED
  BY <1>1, <1>2, EveryQuerySound, InvInit, InvStep, PTL DEF Spec

\* LevelDB finds, by IDs, by "from" and "to" and by time, every receipt that its
\* lookup by ID knows and that meets the query, as long as no limit cuts the
\* answer short: no failed or interrupted Put leaves an index without it.
THEOREM QueriesAreComplete == Spec => []QueriesComplete
<1>1. IInv /\ Orders => QueriesComplete
  <2> SUFFICES ASSUME IInv, Orders, kind = "leveldb",
                      NEW q \in Queries, q.start = 0, q.skip = 0, q.limit = None
               PROVE  Complete(q)
    BY Zenon DEF QueriesComplete
  <2>1. docs \in Seq(Docs)
    BY Zenon DEF IInv, TypeOK
  <2>2. q \in Query
    BY <2>1, ReceiptAssumption DEF Queries, Query
  <2> QED
    BY <2>2, LevelDBComplete, Zenon
<1> QED
  BY <1>1, InvInit, InvStep, OrderInit, OrderStep, PTL DEF Spec
=============================================================================
