--------------------------- MODULE ReceiptQueries ---------------------------
(***************************************************************************)
(* The queries on the receipt store: the parameters of GET /receipts       *)
(* (receiptstore.go) and what each persistence makes of them.  A query     *)
(* names receipts by request IDs, by the time since which they were        *)
(* received (0 for any), by "from" and "to" (None for any), and by the     *)
(* LevelDB key to start at (0 for the newest).                             *)
(***************************************************************************)
EXTENDS ReceiptStore, FiniteSets

CONSTANTS
  QueryLimit,   \* conf.QueryLimit
  DefaultLimit  \* defaultReceiptLimit

ASSUME QueryAssumption ==
  QueryLimit \in Nat /\ DefaultLimit \in Nat \ {0} /\ None \notin Nat

Query ==
  [ids : {S \in SUBSET IDs : IsFiniteSet(S)}, since : Nat,
   from : Addresses \cup {None}, to : Addresses \cup {None},
   start : Nat, skip : Nat, limit : Nat \cup {None}]

Keys == 1..Len(docs)

\* The keys of S, the newest first.
Descending(S) ==
  [n \in 1..Cardinality(S) |-> CHOOSE k \in S : Cardinality({j \in S : j >= k}) = n]

\* What is left of a list after the first n, and its first n; all for n = 0.
After(n, s) == [i \in 1 .. Len(s) - n |-> s[i + n]]
First(n, s) == [i \in 1 .. (IF n > 0 /\ n < Len(s) THEN n ELSE Len(s)) |-> s[i]]

\* The oldest n keys of S, and the oldest one for n = 0.
Oldest(n, S) == {k \in S : LET older == {j \in S : j < k} IN older = {} \/ Cardinality(older) < n}

\* The limit GetReceipts passes on for the limit parameter: None refuses it.
LimitOf(q) ==
  IF q.limit = None THEN IF q.ids = {} THEN DefaultLimit ELSE 0
  ELSE IF q.limit > QueryLimit THEN None
  ELSE IF q.limit > 0 THEN q.limit
  ELSE IF q.ids = {} THEN DefaultLimit ELSE 0

-----------------------------------------------------------------------------
(* LevelDB.                                                                *)

\* The order of the "receivedAt" entries.
Earlier(k, j) == docs[k].at < docs[j].at \/ (docs[k].at = docs[j].at /\ k <= j)

\* Entries at the time itself are passed over.
FindEndPointAfter(since) ==
  LET later == {k \in idx.at : docs[k].at > since}
  IN IF later = {} THEN 0 ELSE CHOOSE k \in later : \A j \in later : Earlier(k, j)

\* The receipt of the first "receivedAt" entry at or after the time, 0 if none.
FindEndPoint(since) ==
  LET later == {k \in idx.at : docs[k].at >= since}
  IN IF later = {} THEN 0 ELSE CHOOSE k \in later : \A j \in later : Earlier(k, j)

ApplyBound(S, end, start) == {k \in S : k >= end /\ (start # 0 => k < start)}

\* "since" is not applied to the entries found by ID.
LookupKeysByIDsUnbounded(q, end) == {idx.lookup[i] : i \in q.ids} \ {0}

GetLookupKeysByIDs(q, end) ==
  ApplyBound({idx.lookup[i] : i \in q.ids} \ {0}, end, q.start)

\* The index is read from its oldest entry, up to the limit.
GetLookupKeysByFromAndTo(q, end, limit) ==
  LET fromKeys == Oldest(limit, {k \in idx.from : docs[k].from = q.from})
      toKeys   == Oldest(limit, {k \in idx.to : docs[k].to = q.to})
      keys     == IF q.to = None THEN fromKeys
                  ELSE IF q.from = None THEN toKeys ELSE fromKeys \cap toKeys
  IN ApplyBound(keys, end, q.start)

GetReceiptsNoFilter(q, end, limit) ==
  LET keys == Descending({k \in Keys : k >= end /\ (q.start # 0 => k <= q.start)})
  IN First(limit, After(q.skip, keys))

\* The keys of the receipts LevelDB answers with, in their order.
LevelDBGetReceipts(q, lim) ==
  LET end   == IF q.since > 0 THEN FindEndPoint(q.since) ELSE 0
      limit == IF lim = 0 THEN QueryLimit ELSE lim
      both  == q.from # None \/ q.to # None
      keys  == CASE q.ids # {} /\ ~both -> GetLookupKeysByIDs(q, end)
                 [] q.ids = {} /\ both  -> GetLookupKeysByFromAndTo(q, end, limit)
                 [] q.ids # {} /\ both  -> GetLookupKeysByIDs(q, end)
                                             \cap GetLookupKeysByFromAndTo(q, end, limit)
                 [] OTHER               -> {}
  IN IF q.since > 0 /\ end = 0 THEN <<>>
     ELSE IF q.ids # {} \/ both THEN First(limit, Descending(keys))
     ELSE GetReceiptsNoFilter(q, end, limit)

-----------------------------------------------------------------------------
(* MongoDB and the memory store.                                           *)

Meets(k, q) ==
  /\ q.ids # {} => docs[k].id \in q.ids
  /\ q.from # None => docs[k].from = q.from
  /\ q.to # None => docs[k].to = q.to

\* Of receipts with one receivedAt the database may give any first; here the newer.
MongoGetReceipts(q, lim) ==
  LET keys == Descending({k \in Keys : Meets(k, q) /\ (q.since > 0 => docs[k].at > q.since)})
  IN First(lim, After(q.skip, keys))

MemoryGetReceipts(q, lim) ==
  IF q.ids # {} \/ q.since # 0 \/ q.from # None \/ q.to # None THEN None
  ELSE First(lim, After(q.skip, Descending(Keys)))

\* GET /receipts: None for an error.
GetReceipts(q) ==
  LET lim == LimitOf(q)
  IN IF lim = None THEN None
     ELSE CASE kind = "leveldb" -> LevelDBGetReceipts(q, lim)
            [] kind = "mongo"   -> MongoGetReceipts(q, lim)
            [] kind = "memory"  -> MemoryGetReceipts(q, lim)

-----------------------------------------------------------------------------
(* Properties.                                                             *)

Queries ==
  [ids : {S \in SUBSET IDs : IsFiniteSet(S)}, since : {0, MaxTime},
   from : Addresses \cup {None}, to : Addresses \cup {None},
   start : {0, Len(docs)}, skip : {0, 1}, limit : {None, 1}]

AtOrAfter(k, since) == since > 0 => docs[k].at >= since

\* No more receipts than the limit parameter allows; without one no more than
\* the default, or than the IDs asked for and what LevelDB is configured for.
WithinLimit(q, n) ==
  IF q.limit # None /\ q.limit # 0 THEN n <= q.limit
  ELSE IF q.ids = {} THEN n <= DefaultLimit
  ELSE n <= Cardinality(q.ids) /\ (kind = "leveldb" /\ QueryLimit > 0 => n <= QueryLimit)

Sound(q) ==
  LET r == GetReceipts(q) IN
    r # None =>
      /\ \A n \in 1..Len(r) : r[n] \in Keys /\ Meets(r[n], q) /\ AtOrAfter(r[n], q.since)
      /\ \A m, n \in 1..Len(r) : m < n => r[m] > r[n]
      /\ WithinLimit(q, Len(r))

\* Whatever the state of the indexes, also between two writes of AddReceipt or
\* after one that was cut off, a query answers with stored receipts that meet
\* every filter, newest first, each once, and no more than the limit.
QueriesSound == \A q \in Queries : Sound(q)

Complete(q) ==
  \A i \in IDs :
    LET k == idx.lookup[i]
        r == GetReceipts(q)
    IN /\ k # 0 /\ Meets(k, q) /\ AtOrAfter(k, q.since)
       /\ Len(docs) <= DefaultLimit /\ Len(docs) <= QueryLimit
       => \E n \in 1..Len(r) : r[n] = k

\* A query of LevelDB without start and skip that is not cut by its limit
\* answers with every receipt that the lookup by ID knows and that meets the
\* filters: no index misses a receipt that has been acknowledged.
QueriesComplete ==
  kind = "leveldb" =>
    \A q \in {p \in Queries : p.start = 0 /\ p.skip = 0 /\ p.limit = None} : Complete(q)

\* With a limit, LevelDB answers a query by "from" or "to" with the newest of
\* the receipts that meet it, as the MongoDB store does.
FilteredQueryIsRecent ==
  kind = "leveldb" =>
    \A q \in {p \in Queries : p.limit = 1 /\ p.since = 0 /\ p.start = 0 /\ p.skip = 0} :
      step = "idle" => LevelDBGetReceipts(q, 1) = MongoGetReceipts(q, 1)
=============================================================================
