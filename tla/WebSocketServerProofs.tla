----------------------- MODULE WebSocketServerProofs -----------------------
(***************************************************************************)
(* The WebSocket server forgets the connections that are closed, and hands *)
(* no stale ack to a batch, for any number of connections, topics and      *)
(* batches.                                                                *)
(***************************************************************************)
EXTENDS WebSocketServer, TLAPS

ServerRec == [topics : SUBSET Topics, topicMap : [Topics -> SUBSET Conns],
              replyMap : SUBSET Conns, connections : SUBSET Conns]

ConnRec == [topics : SUBSET Topics, cases : SUBSET Topics, closed : BOOLEAN,
            up : BOOLEAN, inbox : Seq(Topics \X Nat)]

ProcRec == [at : {"none", "read", "announce", "handle", "notify", "select", "cycle",
                  "unlink", "gone"},
            todo : SUBSET Topics, ret : {"read", "gone"}]

AttemptRec == [mode : {"workloadDistribution", "broadcast"},
               at : {"idle", "announce", "send", "wait"}, closing : BOOLEAN, batch : Nat]

Types ==
  /\ server \in ServerRec /\ conn \in [Conns -> ConnRec] /\ proc \in [Procs -> ProcRec]
  /\ command = [c \in Conns |-> command[c]] /\ attempt \in [Topics -> AttemptRec]
  /\ \A c \in Conns : command[c][1] # "none" => command[c] \in Commands \X Topics \X Nat

\* The topicMap names a connection only under topics of that connection, which
\* is where its close() looks.
MapsAgree == \A c \in Conns, t \in Topics : c \in server.topicMap[t] => t \in conn[c].topics

\* An answer to come for topic t: the k-th batch in the inbox of the client of
\* connection c, or, with k = 0, the command that its listener handles.
Answers(c, k, t) ==
  IF k = 0 THEN command[c][1] \in {"ack", "error"} /\ command[c][2] = t
           ELSE k \in 1 .. Len(conn[c].inbox) /\ conn[c].inbox[k][1] = t

BatchOf(c, k) == IF k = 0 THEN command[c][3] ELSE conn[c].inbox[k][2]

\* For a topic that was never disturbed an answer can only come while the
\* attempt waits, it is for the batch of that attempt, and there is only one.
OneAnswer ==
  \A t \in Topics \ disturbed :
    /\ \A c \in Conns, k \in Nat : Answers(c, k, t) =>
         attempt[t].at = "wait" /\ BatchOf(c, k) = attempt[t].batch
    /\ \A c, d \in Conns : \A k, l \in Nat :
         Answers(c, k, t) /\ Answers(d, l, t) => c = d /\ k = l

IInv == Types /\ MapsAgree /\ ClosedIsForgotten /\ OneAnswer /\ AckIsForBatch

-----------------------------------------------------------------------------
(* Goroutines, types and frames.                                           *)

\* The goroutines of a connection are distinct.
LEMMA Goroutines ==
  /\ \A c \in Conns : L(c) \in Procs /\ S(c) \in Procs
  /\ \A c, d : L(c) # S(d) /\ (L(c) = L(d) => c = d) /\ (S(c) = S(d) => c = d)
  /\ \A p \in Procs : p[1] \in Conns /\ (p = L(p[1]) \/ p = S(p[1]))
  /\ \A c : L(c)[1] = c /\ S(c)[1] = c
  BY DEF L, S, Procs

\* Before the first connection.
LEMMA InvInit == Init => IInv
<1> SUFFICES ASSUME Init PROVE IInv
  BY Zenon
<1>1. server.topicMap = [t \in Topics |-> {}]
  BY Zenon DEF Init
<1>2. Types
  <2>1. <<>> \in Seq(Topics \X Nat)
    OBVIOUS
  <2>2. server \in ServerRec
    BY Zenon DEF Init, ServerRec
  <2>3. conn \in [Conns -> ConnRec]
    BY <2>1, Zenon DEF Init, ConnRec
  <2>4. proc \in [Procs -> ProcRec]
    BY Zenon DEF Init, ProcRec
  <2>5. command = [c \in Conns |-> command[c]] /\ \A c \in Conns : command[c][1] = "none"
    BY DEF Init, NoCommand
  <2>6. attempt \in [Topics -> AttemptRec]
    <3>1. ASSUME NEW x \in [mode : {"workloadDistribution", "broadcast"}, at : {"idle"},
                            closing : {FALSE}, batch : {1}]
          PROVE  x \in AttemptRec
      <4>1. 1 \in Nat
        BY Zenon
      <4>2. QED
        BY <4>1, Zenon DEF AttemptRec
    <3>2. QED
      BY <3>1, Zenon DEF Init
  <2>7. QED
    BY <2>2, <2>3, <2>4, <2>5, <2>6, Zenon DEF Types
<1>3. MapsAgree
  BY <1>1, Zenon DEF MapsAgree
<1>4. ClosedIsForgotten
  BY Goroutines, Zenon DEF Init, ClosedIsForgotten
<1>5. ASSUME NEW c \in Conns, NEW k \in Nat, NEW t \in Topics, Answers(c, k, t) PROVE FALSE
  BY <1>5 DEF Init, Answers, NoCommand
<1>6. QED
  BY <1>2, <1>3, <1>4, <1>5, Zenon DEF Init, IInv, OneAnswer, AckIsForBatch

\* What an assignment to a field of a record does.
LEMMA ConnFields ==
  ASSUME NEW x \in ConnRec
  PROVE  /\ \A b \in BOOLEAN : LET y == [x EXCEPT !.up = b] IN
              y \in ConnRec /\ y.topics = x.topics /\ y.inbox = x.inbox
         /\ LET y == [x EXCEPT !.closed = TRUE] IN
              y \in ConnRec /\ y.topics = x.topics /\ y.inbox = x.inbox
         /\ \A s \in Seq(Topics \X Nat) : LET y == [x EXCEPT !.inbox = s] IN
              y \in ConnRec /\ y.topics = x.topics /\ y.inbox = s
         /\ \A ts \in SUBSET Topics : LET y == [x EXCEPT !.topics = ts] IN
              y \in ConnRec /\ y.topics = ts /\ y.inbox = x.inbox
         /\ \A ts \in SUBSET Topics : LET y == [x EXCEPT !.cases = ts] IN
              y \in ConnRec /\ y.topics = x.topics /\ y.inbox = x.inbox
  BY Zenon DEF ConnRec

ProcAts == {"none", "read", "announce", "handle", "notify", "select", "cycle", "unlink",
            "gone"}

\* The fields of a goroutine.
LEMMA ProcFields ==
  ASSUME NEW x \in ProcRec
  PROVE  /\ x.at \in ProcAts /\ x.ret \in {"read", "gone"} /\ x.todo \subseteq Topics
         /\ \A a \in ProcAts : LET y == [x EXCEPT !.at = a] IN
              y \in ProcRec /\ y.at = a
         /\ \A ts \in SUBSET Topics : LET y == [x EXCEPT !.todo = ts] IN
              y \in ProcRec /\ y.at = x.at
         /\ LET y == [x EXCEPT !.ret = "gone"] IN
              y \in ProcRec /\ y.at = x.at
  BY Zenon DEF ProcRec, ProcAts

\* The fields of a delivery attempt.
LEMMA AttemptFields ==
  ASSUME NEW x \in AttemptRec
  PROVE  /\ x.batch \in Nat
         /\ \A a \in {"idle", "announce", "send", "wait"} : LET y == [x EXCEPT !.at = a] IN
              y \in AttemptRec /\ y.at = a /\ y.batch = x.batch /\ y.mode = x.mode
         /\ \A b \in BOOLEAN : LET y == [x EXCEPT !.closing = b] IN
              y \in AttemptRec /\ y.at = x.at /\ y.batch = x.batch /\ y.mode = x.mode
         /\ \A n \in Nat : LET y == [x EXCEPT !.batch = n] IN
              y \in AttemptRec /\ y.at = x.at /\ y.batch = n /\ y.mode = x.mode
  BY Zenon DEF AttemptRec

\* No answer is added, none changes, and an attempt that waits for one goes on
\* waiting.
LEMMA NoNewAnswers ==
  ASSUME OneAnswer, disturbed \subseteq disturbed',
         \A t \in Topics \ disturbed', c \in Conns, k \in Nat : Answers(c, k, t)' =>
           /\ Answers(c, k, t) /\ BatchOf(c, k)' = BatchOf(c, k)
           /\ attempt[t].at = "wait" =>
                attempt'[t].at = "wait" /\ attempt'[t].batch = attempt[t].batch
  PROVE  OneAnswer'
<1>1. ASSUME NEW t \in Topics \ disturbed', NEW c \in Conns, NEW k \in Nat, Answers(c, k, t)'
      PROVE  attempt'[t].at = "wait" /\ BatchOf(c, k)' = attempt'[t].batch
  BY <1>1 DEF OneAnswer
<1>2. ASSUME NEW t \in Topics \ disturbed', NEW c \in Conns, NEW d \in Conns,
             NEW k \in Nat, NEW l \in Nat, Answers(c, k, t)', Answers(d, l, t)'
      PROVE  c = d /\ k = l
  BY <1>2 DEF OneAnswer
<1>3. QED
  BY <1>1, <1>2, Zenon DEF OneAnswer

\* The two halves of OneAnswer, for one topic.
LEMMA AnswerAwaited ==
  ASSUME OneAnswer, NEW t \in Topics \ disturbed, NEW c \in Conns, NEW k \in Nat,
         Answers(c, k, t)
  PROVE  attempt[t].at = "wait" /\ BatchOf(c, k) = attempt[t].batch
  BY Zenon DEF OneAnswer

\* At most one client command answers the batch.
LEMMA AnswerUnique ==
  ASSUME OneAnswer, NEW t \in Topics \ disturbed, NEW c \in Conns, NEW k \in Nat,
         NEW d \in Conns, NEW l \in Nat, Answers(c, k, t), Answers(d, l, t)
  PROVE  c = d /\ k = l
  BY Zenon DEF OneAnswer

\* What a step that leaves clients, commands and attempts alone keeps.
LEMMA SameAnswers ==
  ASSUME OneAnswer, UNCHANGED <<command, attempt, disturbed>>,
         \A c \in Conns : conn'[c].inbox = conn[c].inbox
  PROVE  OneAnswer'
<1>1. \A t \in Topics, c \in Conns, k \in Nat :
        Answers(c, k, t)' = Answers(c, k, t) /\ BatchOf(c, k)' = BatchOf(c, k)
  BY DEF Answers, BatchOf
<1>2. QED
  BY <1>1, NoNewAnswers, Zenon

\* A step that leaves the maps of the server alone, and forgets no topic.
LEMMA SameMaps ==
  ASSUME MapsAgree, UNCHANGED server,
         \A c \in Conns : conn[c].topics \subseteq conn'[c].topics
  PROVE  MapsAgree'
  BY Zenon DEF MapsAgree

\* A step that leaves the maps alone, and ends no listener.
LEMMA SameForgotten ==
  ASSUME ClosedIsForgotten, UNCHANGED server,
         \A c \in Conns : proc'[L(c)].at = "gone" => proc[L(c)].at = "gone"
  PROVE  ClosedIsForgotten'
  BY Zenon DEF ClosedIsForgotten

-----------------------------------------------------------------------------
(* Connections.                                                            *)

\* One record of a table changes.
LEMMA ConnTable ==
  ASSUME Types, NEW c \in Conns, NEW y \in ConnRec, conn' = [conn EXCEPT ![c] = y],
         y.topics = conn[c].topics, y.inbox = conn[c].inbox
  PROVE  /\ conn' \in [Conns -> ConnRec]
         /\ \A d \in Conns : conn'[d].inbox = conn[d].inbox /\ conn'[d].topics = conn[d].topics
  BY Zenon DEF Types

\* One goroutine moves.
LEMMA ProcTable ==
  ASSUME Types, NEW p \in Procs, NEW y \in ProcRec, proc' = [proc EXCEPT ![p] = y]
  PROVE  /\ proc' \in [Procs -> ProcRec]
         /\ \A q \in Procs : proc'[q] = IF q = p THEN y ELSE proc[q]
  BY Zenon DEF Types

\* One delivery attempt moves.
LEMMA AttemptTable ==
  ASSUME Types, NEW t \in Topics, NEW y \in AttemptRec, attempt' = [attempt EXCEPT ![t] = y]
  PROVE  /\ attempt' \in [Topics -> AttemptRec]
         /\ \A u \in Topics : attempt'[u] = IF u = t THEN y ELSE attempt[u]
  BY Zenon DEF Types

\* The maps change, no topic is forgotten.
LEMMA ServerTypes ==
  ASSUME Types
  PROVE  /\ server.topics \subseteq Topics /\ server.connections \subseteq Conns
         /\ server.replyMap \subseteq Conns /\ server.topicMap \in [Topics -> SUBSET Conns]
         /\ \A c \in Conns : conn[c] \in ConnRec /\ conn[c].topics \subseteq Topics
                              /\ conn[c].inbox \in Seq(Topics \X Nat)
         /\ \A p \in Procs : proc[p] \in ProcRec
         /\ \A t \in Topics : attempt[t] \in AttemptRec
  BY Zenon DEF Types, ServerRec, ConnRec

\* A client connects: connectionHandler.
LEMMA NewConnectionStep ==
  ASSUME IInv, NEW c \in Conns, NewConnection(c)
  PROVE  IInv'
<1> DEFINE x == [proc[L(c)] EXCEPT !.at = "read"]
           y == [proc[S(c)] EXCEPT !.at = "select"]
<1>0. Types /\ L(c) \in Procs /\ S(c) \in Procs /\ L(c) # S(c)
  BY Goroutines, Zenon DEF IInv
<1>1. /\ proc[L(c)].at = "none" /\ UNCHANGED <<command, attempt, disturbed, misled>>
      /\ proc' = [[proc EXCEPT ![L(c)] = x] EXCEPT ![S(c)] = y]
      /\ server' = [server EXCEPT !.connections = @ \cup {c}]
      /\ conn' = [conn EXCEPT ![c] = [conn[c] EXCEPT !.up = TRUE]]
  BY <1>0, Zenon DEF NewConnection, history, Types
<1>2. /\ conn' \in [Conns -> ConnRec]
      /\ \A d \in Conns : conn'[d].inbox = conn[d].inbox /\ conn'[d].topics = conn[d].topics
  <2> DEFINE z == [conn[c] EXCEPT !.up = TRUE]
  <2>1. z \in ConnRec /\ z.topics = conn[c].topics /\ z.inbox = conn[c].inbox
    BY <1>0, ServerTypes, ConnFields, Zenon
  <2>2. conn' = [conn EXCEPT ![c] = z]
    BY <1>1, Zenon
  <2> HIDE DEF z
  <2>3. QED
    BY <1>0, <2>1, <2>2, ConnTable, Zenon
<1>3. x \in ProcRec /\ x.at = "read" /\ y \in ProcRec
  BY <1>0, ServerTypes, ProcFields, Zenon DEF ProcAts
<1>4. proc' \in [Procs -> ProcRec] /\ \A q \in Procs : proc'[q] \in {proc[q], x, y}
  BY <1>0, <1>1, <1>3, Zenon DEF Types
<1>5. server' \in ServerRec /\ server'.topicMap = server.topicMap
      /\ server'.replyMap = server.replyMap /\ server'.connections = server.connections \cup {c}
  BY <1>0, <1>1, Zenon DEF Types, ServerRec
<1>6. MapsAgree'
  BY <1>2, <1>5, Zenon DEF IInv, MapsAgree
<1>7. proc'[L(c)] = x /\ \A d \in Conns \ {c} : proc'[L(d)] = proc[L(d)]
  BY <1>0, <1>1, Goroutines, Zenon DEF Types
<1>8. ClosedIsForgotten'
  BY <1>3, <1>5, <1>7, Zenon DEF IInv, ClosedIsForgotten
<1>9. OneAnswer'
  BY <1>1, <1>2, SameAnswers, Zenon DEF IInv
<1>10. Types'
  BY <1>0, <1>1, <1>2, <1>4, <1>5, Zenon DEF Types
<1>11. QED
  BY <1>1, <1>6, <1>8, <1>9, <1>10, Zenon DEF IInv, AckIsForBatch

\* A client goes away.
LEMMA DisconnectStep ==
  ASSUME IInv, NEW c \in Conns, Disconnect(c)
  PROVE  IInv'
<1> DEFINE y == [conn[c] EXCEPT !.up = FALSE]
           z == [y EXCEPT !.inbox = <<>>]
<1>0. Types
  BY Zenon DEF IInv
<1>1. /\ UNCHANGED <<server, proc, command, attempt, disturbed, misled>>
      /\ conn' = [conn EXCEPT ![c] = z]
  BY <1>0, Zenon DEF Disconnect, history, Types
<1>2. z \in ConnRec /\ z.topics = conn[c].topics /\ z.inbox = <<>>
  <2>1. <<>> \in Seq(Topics \X Nat)
    OBVIOUS
  <2>2. y \in ConnRec /\ y.topics = conn[c].topics
    BY <1>0, ServerTypes, ConnFields, Zenon
  <2>3. QED
    BY <2>1, <2>2, ConnFields, Zenon
<1>3. /\ conn' \in [Conns -> ConnRec]
      /\ \A d \in Conns : /\ conn'[d].topics = conn[d].topics
                          /\ conn'[d].inbox = IF d = c THEN <<>> ELSE conn[d].inbox
  BY <1>0, <1>1, <1>2, Zenon DEF Types
<1>4. OneAnswer'
  <2>1. \A t \in Topics, d \in Conns, k \in Nat : Answers(d, k, t)' =>
          Answers(d, k, t) /\ BatchOf(d, k)' = BatchOf(d, k)
    BY <1>1, <1>3 DEF Answers, BatchOf
  <2>2. QED
    BY <1>1, <2>1, NoNewAnswers, Zenon DEF IInv
<1>5. Types'
  BY <1>0, <1>1, <1>3, Zenon DEF Types
<1>6. MapsAgree' /\ ClosedIsForgotten'
  BY <1>1, <1>3, SameMaps, SameForgotten, Zenon DEF IInv
<1>7. QED
  BY <1>1, <1>4, <1>5, <1>6, Zenon DEF IInv, AckIsForBatch

\* close() has been entered by one of the goroutines of a connection.
LEMMA EnterCloseStep ==
  ASSUME IInv, NEW p \in Procs, NEW ret \in {"read", "gone"}, NEW ts \in SUBSET Topics,
         EnterClose(p, ret, ts)
  PROVE  IInv'
<1> DEFINE x == [at |-> IF ts = {} THEN "unlink" ELSE "cycle", todo |-> ts, ret |-> ret]
<1>0. Types /\ p[1] \in Conns
  BY Goroutines, Zenon DEF IInv
<1>1. /\ UNCHANGED <<server, command, attempt, disturbed, misled>>
      /\ conn' = [conn EXCEPT ![p[1]] = [conn[p[1]] EXCEPT !.closed = TRUE]]
      /\ proc' = [proc EXCEPT ![p] = x]
  BY Zenon DEF EnterClose, history
<1>2. x \in ProcRec /\ x.at # "gone"
  BY Zenon DEF ProcRec
<1>3. /\ conn' \in [Conns -> ConnRec]
      /\ \A d \in Conns : conn'[d].inbox = conn[d].inbox /\ conn'[d].topics = conn[d].topics
  <2> DEFINE z == [conn[p[1]] EXCEPT !.closed = TRUE]
  <2>1. z \in ConnRec /\ z.topics = conn[p[1]].topics /\ z.inbox = conn[p[1]].inbox
    BY <1>0, ServerTypes, ConnFields, Zenon
  <2>2. conn' = [conn EXCEPT ![p[1]] = z]
    BY <1>1, Zenon
  <2> HIDE DEF z
  <2>3. QED
    BY <1>0, <2>1, <2>2, ConnTable, Zenon
<1>4. /\ proc' \in [Procs -> ProcRec]
      /\ \A q \in Procs : proc'[q] = IF q = p THEN x ELSE proc[q]
  BY <1>0, <1>1, <1>2, ProcTable, Zenon
<1>5. \A d \in Conns : proc'[L(d)].at = "gone" => proc[L(d)].at = "gone"
  BY <1>2, <1>4, Goroutines, Zenon
<1>6. Types'
  BY <1>0, <1>1, <1>3, <1>4, Zenon DEF Types
<1>7. MapsAgree' /\ ClosedIsForgotten'
  BY <1>1, <1>3, <1>5, SameMaps, SameForgotten, Zenon DEF IInv
<1>8. OneAnswer'
  BY <1>1, <1>3, SameAnswers, Zenon DEF IInv
<1>9. QED
  BY <1>1, <1>6, <1>7, <1>8, Zenon DEF IInv, AckIsForBatch

\* close() takes a topic of the connection and cycles its channels.
LEMMA CycleTopicStep ==
  ASSUME IInv, NEW p \in Procs, CycleTopic(p)
  PROVE  IInv'
<1>0. Types
  BY Zenon DEF IInv
<1>1. PICK t \in proc[p].todo :
        /\ attempt' = [attempt EXCEPT ![t] =
                         [attempt[t] EXCEPT !.closing = attempt[t].at \in {"send", "wait"}]]
        /\ \E a \in {"unlink", "cycle"} :
             proc' = [proc EXCEPT ![p] = [[proc[p] EXCEPT !.todo = @ \ {t}] EXCEPT !.at = a]]
  BY <1>0, Zenon DEF CycleTopic, Types
<1>2. /\ t \in Topics /\ UNCHANGED <<server, conn, command, disturbed, misled>>
  BY <1>0, ServerTypes, ProcFields, Zenon DEF CycleTopic, history
<1>3. PICK a \in {"unlink", "cycle"} :
        proc' = [proc EXCEPT ![p] = [[proc[p] EXCEPT !.todo = @ \ {t}] EXCEPT !.at = a]]
  BY <1>1, Zenon
<1> DEFINE x == [proc[p] EXCEPT !.todo = @ \ {t}]
           y == [x EXCEPT !.at = a]
           z == [attempt[t] EXCEPT !.closing = attempt[t].at \in {"send", "wait"}]
<1>4. y \in ProcRec /\ y.at # "gone"
  <2>1. proc[p] \in ProcRec /\ proc[p].todo \ {t} \in SUBSET Topics
    BY <1>0, ServerTypes, ProcFields, Zenon
  <2>2. x \in ProcRec
    BY <2>1, ProcFields, Zenon
  <2>3. a \in ProcAts
    BY Zenon DEF ProcAts
  <2>4. y \in ProcRec /\ y.at = a
    BY <2>2, <2>3, ProcFields, Zenon
  <2>5. QED
    BY <2>4, Zenon
<1>5. z \in AttemptRec /\ z.at = attempt[t].at /\ z.batch = attempt[t].batch
  <2>1. (attempt[t].at \in {"send", "wait"}) \in BOOLEAN
    OBVIOUS
  <2>2. attempt[t] \in AttemptRec
    BY <1>0, <1>2, ServerTypes, Zenon
  <2>3. QED
    BY <2>1, <2>2, AttemptFields, Zenon
<1>6. /\ proc' \in [Procs -> ProcRec]
      /\ \A q \in Procs : proc'[q] = IF q = p THEN y ELSE proc[q]
  BY <1>0, <1>3, <1>4, ProcTable, Zenon
<1>7. /\ attempt' \in [Topics -> AttemptRec]
      /\ \A u \in Topics : attempt'[u].at = attempt[u].at /\ attempt'[u].batch = attempt[u].batch
  BY <1>0, <1>1, <1>2, <1>5, AttemptTable, Zenon
<1>8. \A d \in Conns : proc'[L(d)].at = "gone" => proc[L(d)].at = "gone"
  BY <1>4, <1>6, Goroutines, Zenon
<1>9. OneAnswer'
  <2>1. \A u \in Topics, d \in Conns, k \in Nat :
          Answers(d, k, u)' = Answers(d, k, u) /\ BatchOf(d, k)' = BatchOf(d, k)
    BY <1>2 DEF Answers, BatchOf
  <2>2. QED
    BY <1>2, <1>7, <2>1, NoNewAnswers, Zenon DEF IInv
<1>10. Types'
  BY <1>0, <1>2, <1>6, <1>7, Zenon DEF Types
<1>11. MapsAgree' /\ ClosedIsForgotten'
  BY <1>2, <1>8, SameMaps, SameForgotten, Zenon DEF IInv
<1>12. QED
  BY <1>2, <1>9, <1>10, <1>11, Zenon DEF IInv, AckIsForBatch

\* connectionClosed: the connection is in no map any more.
LEMMA ConnectionClosedStep ==
  ASSUME IInv, NEW p \in Procs, ConnectionClosed(p)
  PROVE  IInv'
<1> DEFINE c == p[1]
           x == [proc[p] EXCEPT !.at = proc[p].ret]
           y == [x EXCEPT !.ret = "gone"]
           map == [t \in Topics |-> IF t \in conn[c].topics THEN server.topicMap[t] \ {c}
                                                            ELSE server.topicMap[t]]
<1>0. Types /\ c \in Conns
  BY Goroutines, Zenon DEF IInv
<1>1. /\ UNCHANGED <<conn, command, attempt, disturbed, misled>>
      /\ server' = [server EXCEPT !.connections = @ \ {c}, !.replyMap = server.replyMap \ {c},
                                  !.topicMap = map]
      /\ proc' = [proc EXCEPT ![p] = y]
  BY <1>0, Zenon DEF ConnectionClosed, Unlink, history, Types
<1>2. y \in ProcRec
  <2>1. proc[p] \in ProcRec /\ proc[p].ret \in ProcAts
    BY <1>0, ServerTypes, ProcFields, Zenon DEF ProcAts
  <2>2. x \in ProcRec
    BY <2>1, ProcFields, Zenon
  <2>3. QED
    BY <2>2, ProcFields, Zenon
<1>3. /\ proc' \in [Procs -> ProcRec]
      /\ \A q \in Procs : proc'[q] = IF q = p THEN y ELSE proc[q]
  BY <1>0, <1>1, <1>2, ProcTable, Zenon
<1>4. /\ server'.connections = server.connections \ {c}
      /\ server'.replyMap = server.replyMap \ {c} /\ server'.topics = server.topics
      /\ server'.topicMap = map
  BY <1>0, <1>1, Zenon DEF Types, ServerRec
<1>5. server' \in ServerRec
  <2>1. map \in [Topics -> SUBSET Conns]
    BY <1>0, ServerTypes, Zenon
  <2>2. QED
    BY <1>0, <1>1, <2>1, Zenon DEF Types, ServerRec
<1>6. MapsAgree'
  BY <1>1, <1>4 DEF IInv, MapsAgree
<1>7. \A t \in Topics : c \notin server'.topicMap[t] /\ server'.topicMap[t] \subseteq server.topicMap[t]
  BY <1>0, <1>4 DEF IInv, MapsAgree
<1>8. \A d \in Conns : d # c => proc'[L(d)] = proc[L(d)]
  BY <1>3, Goroutines, Zenon
<1>9. ClosedIsForgotten'
  BY <1>4, <1>7, <1>8, Zenon DEF IInv, ClosedIsForgotten
<1>10. Types'
  BY <1>0, <1>1, <1>3, <1>5, Zenon DEF Types
<1>11. OneAnswer'
  BY <1>1, SameAnswers, Zenon DEF IInv
<1>12. QED
  BY <1>1, <1>6, <1>9, <1>10, <1>11, Zenon DEF IInv, AckIsForBatch

-----------------------------------------------------------------------------
(* Listeners.                                                              *)

\* A listener moves on, to a place that is not its end.
LEMMA ListenerMoves ==
  ASSUME IInv, NEW c \in Conns, NEW a \in ProcAts \ {"gone"},
         proc' = [proc EXCEPT ![L(c)].at = a]
  PROVE  /\ proc' \in [Procs -> ProcRec]
         /\ \A d \in Conns : proc'[L(d)].at = "gone" => proc[L(d)].at = "gone"
<1> DEFINE y == [proc[L(c)] EXCEPT !.at = a]
<1>1. Types /\ L(c) \in Procs
  BY Goroutines, Zenon DEF IInv
<1>2. y \in ProcRec /\ y.at = a
  BY <1>1, ServerTypes, ProcFields, Zenon
<1>3. proc' = [proc EXCEPT ![L(c)] = y]
  BY Zenon
<1>4. proc' \in [Procs -> ProcRec] /\ \A q \in Procs : proc'[q] = IF q = L(c) THEN y ELSE proc[q]
  <2> HIDE DEF y
  <2>1. QED
    BY <1>1, <1>2, <1>3, ProcTable, Zenon
<1>5. QED
  BY <1>2, <1>4, Goroutines, Zenon

\* ReadJSON takes the oldest batch of the inbox to be answered.
LEMMA ReadAnswers ==
  ASSUME IInv, NEW c \in Conns, NEW t \in Topics, NEW cmd \in Commands,
         UNCHANGED <<attempt, disturbed>>, conn[c].inbox # <<>>, Head(conn[c].inbox)[1] = t,
         command' = [command EXCEPT ![c] = <<cmd, t, Head(conn[c].inbox)[2]>>],
         \A d \in Conns : conn'[d].inbox = IF d = c THEN Tail(conn[c].inbox) ELSE conn[d].inbox
  PROVE  OneAnswer'
<1> DEFINE was(d, k) == IF d = c THEN k + 1 ELSE k
<1>1. Types /\ conn[c].inbox \in Seq(Topics \X Nat)
  BY ServerTypes, Zenon DEF IInv
<1>2. \A d \in Conns : command'[d] = IF d = c THEN <<cmd, t, Head(conn[c].inbox)[2]>>
                                              ELSE command[d]
  BY <1>1, Zenon DEF Types
<1>3. /\ Head(conn[c].inbox) = conn[c].inbox[1]
      /\ Len(conn[c].inbox) \in Nat /\ Len(conn[c].inbox) >= 1
      /\ Len(Tail(conn[c].inbox)) = Len(conn[c].inbox) - 1
      /\ \A k \in 1 .. Len(conn[c].inbox) - 1 : Tail(conn[c].inbox)[k] = conn[c].inbox[k + 1]
  BY <1>1
<1>4. ASSUME NEW u \in Topics, NEW d \in Conns, NEW k \in Nat, Answers(d, k, u)'
      PROVE  Answers(d, was(d, k), u) /\ BatchOf(d, k)' = BatchOf(d, was(d, k))
  <2>1. CASE d # c
    BY <1>2, <1>4, <2>1 DEF Answers, BatchOf
  <2>2. CASE d = c /\ k = 0
    BY <1>2, <1>3, <1>4, <2>2 DEF Answers, BatchOf
  <2>3. CASE d = c /\ k # 0
    <3>1. k \in 1 .. Len(conn[c].inbox) - 1 /\ Tail(conn[c].inbox)[k][1] = u
      BY <1>3, <1>4, <2>3, Zenon DEF Answers
    <3>2. k + 1 \in 1 .. Len(conn[c].inbox) /\ k + 1 # 0
      BY <1>3, <3>1
    <3>3. Tail(conn[c].inbox)[k] = conn[c].inbox[k + 1]
      BY <1>3, <3>1, Zenon
    <3>4. Answers(d, k + 1, u)
      BY <2>3, <3>1, <3>2, <3>3, Zenon DEF Answers
    <3>5. BatchOf(d, k)' = BatchOf(d, k + 1)
      BY <2>3, <3>2, <3>3, Zenon DEF BatchOf
    <3>6. QED
      BY <2>3, <3>4, <3>5, Zenon
  <2>4. QED
    BY <2>1, <2>2, <2>3, Zenon
<1>5. \A d \in Conns, k \in Nat : was(d, k) \in Nat
  OBVIOUS
<1>6. \A d \in Conns, k \in Nat, l \in Nat : was(d, k) = was(d, l) => k = l
  OBVIOUS
<1> HIDE DEF was
<1>7. ASSUME NEW u \in Topics \ disturbed', NEW d \in Conns, NEW k \in Nat, Answers(d, k, u)'
      PROVE  attempt'[u].at = "wait" /\ BatchOf(d, k)' = attempt'[u].batch
  <2>1. /\ Answers(d, was(d, k), u) /\ BatchOf(d, k)' = BatchOf(d, was(d, k))
        /\ was(d, k) \in Nat /\ u \in Topics \ disturbed /\ attempt' = attempt
    BY <1>4, <1>5, <1>7, Zenon
  <2>2. attempt[u].at = "wait" /\ BatchOf(d, was(d, k)) = attempt[u].batch
    BY <2>1, AnswerAwaited, Zenon DEF IInv
  <2>3. QED
    BY <2>1, <2>2, Zenon
<1>8. ASSUME NEW u \in Topics \ disturbed', NEW d \in Conns, NEW e \in Conns,
             NEW k \in Nat, NEW l \in Nat, Answers(d, k, u)', Answers(e, l, u)'
      PROVE  d = e /\ k = l
  <2>1. Answers(d, was(d, k), u) /\ Answers(e, was(e, l), u)
    BY <1>4, <1>8, Zenon
  <2>2. d = e /\ was(d, k) = was(e, l)
    BY <1>5, <2>1, AnswerUnique, Zenon DEF IInv
  <2>3. QED
    BY <1>6, <2>2, Zenon
<1>9. QED
  BY <1>7, <1>8 DEF OneAnswer

\* listen() reads a command of the client.
LEMMA ReadStep ==
  ASSUME IInv, NEW c \in Conns, NEW cmd \in Commands, NEW t \in Topics, Read(c, cmd, t)
  PROVE  IInv'
<1> DEFINE answers == cmd \in {"ack", "error"}
           inbox == IF answers THEN Tail(conn[c].inbox) ELSE conn[c].inbox
           y == [conn[c] EXCEPT !.inbox = inbox]
<1>0. Types /\ conn[c] \in ConnRec /\ conn[c].inbox \in Seq(Topics \X Nat)
  BY ServerTypes, Zenon DEF IInv
<1>1. /\ UNCHANGED <<attempt, disturbed, misled>>
      /\ command' = [command EXCEPT
           ![c] = <<cmd, t, IF answers THEN Head(conn[c].inbox)[2] ELSE 0>>]
      /\ conn' = [conn EXCEPT ![c] = y]
      /\ server' = [server EXCEPT !.topics = @ \cup {t}]
      /\ answers => conn[c].inbox # <<>> /\ Head(conn[c].inbox)[1] = t
  <2>1. UNCHANGED <<attempt, disturbed, misled>> /\ server' = [server EXCEPT !.topics = @ \cup {t}]
    BY Zenon DEF Read, history, GetTopic
  <2>2. /\ command' = [command EXCEPT
             ![c] = <<cmd, t, IF answers THEN Head(conn[c].inbox)[2] ELSE 0>>]
        /\ conn' = [conn EXCEPT ![c] = y]
    BY Zenon DEF Read
  <2>3. answers => conn[c].inbox # <<>> /\ Head(conn[c].inbox)[1] = t
    <3>1. MaySend(c, cmd, t)
      BY Zenon DEF Read
    <3>2. SUFFICES ASSUME answers PROVE conn[c].inbox # <<>> /\ Head(conn[c].inbox)[1] = t
      BY Zenon
    <3>3. cmd # "listen" /\ cmd # "listenreplies" /\ cmd \in {"ack", "error"}
      BY <3>2, Zenon
    <3>4. QED
      BY <3>1, <3>3, Zenon DEF MaySend
  <2>4. QED
    BY <2>1, <2>2, <2>3, Zenon
<1>2. inbox \in Seq(Topics \X Nat)
  BY <1>0, <1>1
<1>3. y \in ConnRec /\ y.topics = conn[c].topics /\ y.inbox = inbox
  <2> HIDE DEF inbox
  <2>1. QED
    BY <1>0, <1>2, ConnFields, Zenon
<1>4. /\ conn' \in [Conns -> ConnRec]
      /\ \A d \in Conns : /\ conn'[d].topics = conn[d].topics
                          /\ conn'[d].inbox = IF d = c THEN inbox ELSE conn[d].inbox
  <2> HIDE DEF y, inbox
  <2>1. QED
    BY <1>0, <1>1, <1>3, Zenon DEF Types
<1>5. /\ server' \in ServerRec /\ server'.topicMap = server.topicMap
      /\ server'.replyMap = server.replyMap /\ server'.connections = server.connections
  BY <1>0, <1>1, Zenon DEF Types, ServerRec
<1>6. /\ proc' \in [Procs -> ProcRec]
      /\ \A d \in Conns : proc'[L(d)].at = "gone" => proc[L(d)].at = "gone"
  <2>1. PICK a \in {"handle", "announce"} : proc' = [proc EXCEPT ![L(c)].at = a]
    BY Zenon DEF Read
  <2>2. QED
    BY <2>1, ListenerMoves, Zenon DEF ProcAts
<1>7. command' = [d \in Conns |-> command'[d]]
      /\ \A d \in Conns : command'[d][1] # "none" => command'[d] \in Commands \X Topics \X Nat
  <2> DEFINE b == IF answers THEN Head(conn[c].inbox)[2] ELSE 0
  <2>1. b \in Nat
    BY <1>0, <1>1
  <2>2. command' = [command EXCEPT ![c] = <<cmd, t, b>>]
    BY <1>1, Zenon
  <2> HIDE DEF b
  <2>3. QED
    BY <1>0, <2>1, <2>2, Zenon DEF Types
<1>8. Types'
  BY <1>0, <1>1, <1>4, <1>5, <1>6, <1>7, Zenon DEF Types
<1>9. MapsAgree' /\ ClosedIsForgotten'
  BY <1>4, <1>5, <1>6, Zenon DEF IInv, MapsAgree, ClosedIsForgotten
<1>10. OneAnswer'
  <2>1. CASE answers
    <3>1. command' = [command EXCEPT ![c] = <<cmd, t, Head(conn[c].inbox)[2]>>]
      BY <1>1, <2>1, Zenon
    <3>2. \A d \in Conns :
            conn'[d].inbox = IF d = c THEN Tail(conn[c].inbox) ELSE conn[d].inbox
      BY <1>4, <2>1, Zenon
    <3>3. QED
      BY <1>1, <2>1, <3>1, <3>2, ReadAnswers, ZenonT(30)
  <2>2. CASE ~answers
    <3>1. \A d \in Conns : conn'[d].inbox = conn[d].inbox
      BY <1>4, <2>2, Zenon
    <3>2. \A d \in Conns : command'[d] = IF d = c THEN <<cmd, t, 0>> ELSE command[d]
      BY <1>0, <1>1, <2>2, Zenon DEF Types
    <3>3. \A u \in Topics, d \in Conns, k \in Nat : Answers(d, k, u)' =>
            Answers(d, k, u) /\ BatchOf(d, k)' = BatchOf(d, k)
      BY <2>2, <3>1, <3>2 DEF Answers, BatchOf
    <3>4. QED
      BY <1>1, <3>3, NoNewAnswers DEF IInv
  <2>3. QED
    BY <2>1, <2>2, Zenon
<1>11. QED
  BY <1>1, <1>8, <1>9, <1>10, Zenon DEF IInv, AckIsForBatch

\* ListenTopic subscribes the connection to a topic.
LEMMA ListenTopicStep ==
  ASSUME IInv, NEW c \in Conns, ListenTopic(c)
  PROVE  IInv'
<1> DEFINE t == command[c][2]
           y == [conn[c] EXCEPT !.topics = @ \cup {t}]
<1>0. Types /\ t \in Topics /\ conn[c] \in ConnRec
  <2>1. Types /\ command[c][1] = "listen"
    BY Zenon DEF IInv, ListenTopic, Handling
  <2>2. QED
    BY <2>1, ServerTypes, Zenon DEF Types
<1>1. /\ UNCHANGED <<command, attempt, disturbed, misled>> /\ conn' = [conn EXCEPT ![c] = y]
      /\ server' = [server EXCEPT !.topicMap[t] = @ \cup {c}]
      /\ proc[L(c)].at = "handle" /\ proc' = [proc EXCEPT ![L(c)].at = "notify"]
  BY Zenon DEF ListenTopic, Handling, history
<1>2. y \in ConnRec /\ y.topics = conn[c].topics \cup {t} /\ y.inbox = conn[c].inbox
  <2>1. conn[c].topics \cup {t} \in SUBSET Topics
    BY <1>0, ServerTypes, Zenon
  <2>2. QED
    BY <1>0, <2>1, ConnFields, Zenon
<1>3. /\ conn' \in [Conns -> ConnRec]
      /\ \A d \in Conns : /\ conn'[d].inbox = conn[d].inbox
                          /\ conn'[d].topics =
                               IF d = c THEN conn[c].topics \cup {t} ELSE conn[d].topics
  <2> HIDE DEF y
  <2>1. QED
    BY <1>0, <1>1, <1>2, Zenon DEF Types
<1>4. /\ server' \in ServerRec /\ server'.replyMap = server.replyMap
      /\ server'.connections = server.connections
      /\ \A u \in Topics : server'.topicMap[u] =
           IF u = t THEN server.topicMap[u] \cup {c} ELSE server.topicMap[u]
  <2>1. server' = [server EXCEPT !.topicMap = [server.topicMap EXCEPT ![t] = @ \cup {c}]]
    BY <1>1, Zenon
  <2>2. [server.topicMap EXCEPT ![t] = @ \cup {c}] \in [Topics -> SUBSET Conns]
    BY <1>0, ServerTypes, Zenon
  <2>3. QED
    BY <1>0, <2>1, <2>2, Zenon DEF Types, ServerRec
<1>5. /\ proc' \in [Procs -> ProcRec]
      /\ \A d \in Conns : proc'[L(d)].at = "gone" => proc[L(d)].at = "gone"
  BY <1>1, ListenerMoves, Zenon DEF ProcAts
<1>6. proc'[L(c)].at # "gone"
  BY <1>1, <1>5, Zenon
<1>7. MapsAgree'
  <2>1. ASSUME NEW d \in Conns, NEW u \in Topics, d \in server'.topicMap[u]
        PROVE  u \in conn'[d].topics
    <3>1. d \in server.topicMap[u] \/ (d = c /\ u = t)
      BY <1>4, <2>1, Zenon
    <3>2. d \in server.topicMap[u] => u \in conn[d].topics
      BY Zenon DEF IInv, MapsAgree
    <3>3. QED
      BY <1>3, <3>1, <3>2, Zenon
  <2>2. QED
    BY <2>1, Zenon DEF MapsAgree
<1>8. ClosedIsForgotten'
  BY <1>4, <1>5, <1>6, ZenonT(30) DEF IInv, ClosedIsForgotten
<1>9. Types'
  BY <1>0, <1>1, <1>3, <1>4, <1>5, Zenon DEF Types
<1>10. OneAnswer'
  BY <1>1, <1>3, SameAnswers, Zenon DEF IInv
<1>11. QED
  BY <1>1, <1>7, <1>8, <1>9, <1>10, Zenon DEF IInv, AckIsForBatch

\* The listener is done with its command.
LEMMA CommandDone ==
  ASSUME IInv, NEW c \in Conns, BackToRead(c)
  PROVE  /\ command' = [d \in Conns |-> command'[d]]
         /\ \A d \in Conns : command'[d][1] # "none" => command'[d] \in Commands \X Topics \X Nat
         /\ command'[c][1] = "none" /\ \A d \in Conns \ {c} : command'[d] = command[d]
         /\ proc' \in [Procs -> ProcRec]
         /\ \A d \in Conns : proc'[L(d)].at = "gone" => proc[L(d)].at = "gone"
<1>1. command' = [command EXCEPT ![c] = NoCommand] /\ proc' = [proc EXCEPT ![L(c)].at = "read"]
  BY Zenon DEF BackToRead
<1>2. Types /\ NoCommand[1] = "none"
  BY Zenon DEF IInv, NoCommand
<1>3. /\ command' = [d \in Conns |-> command'[d]]
      /\ \A d \in Conns : command'[d] = IF d = c THEN NoCommand ELSE command[d]
  BY <1>1, <1>2, Zenon DEF Types
<1>4. \A d \in Conns : command'[d][1] # "none" => command'[d] \in Commands \X Topics \X Nat
  BY <1>2, <1>3, Zenon DEF Types
<1>5. QED
  BY <1>1, <1>2, <1>3, <1>4, ListenerMoves, Zenon DEF ProcAts

\* NotifySender and ListenReplies end with it.
LEMMA CommandWithoutAnswer ==
  ASSUME IInv, NEW c \in Conns, BackToRead(c), UNCHANGED <<attempt, disturbed>>,
         \A d \in Conns : conn'[d].inbox = conn[d].inbox
  PROVE  OneAnswer'
<1>1. command'[c][1] = "none" /\ \A d \in Conns \ {c} : command'[d] = command[d]
  BY CommandDone, Zenon
<1>2. \A u \in Topics, d \in Conns, k \in Nat : Answers(d, k, u)' =>
        Answers(d, k, u) /\ BatchOf(d, k)' = BatchOf(d, k)
  BY <1>1 DEF Answers, BatchOf
<1>3. QED
  BY <1>2, NoNewAnswers DEF IInv

\* The sender is told of the topic it has to select on as well.
LEMMA NotifySenderStep ==
  ASSUME IInv, NEW c \in Conns, NotifySender(c)
  PROVE  IInv'
<1>0. Types /\ conn[c] \in ConnRec /\ conn[c].topics \in SUBSET Topics
  BY ServerTypes, Zenon DEF IInv
<1>1. BackToRead(c) /\ UNCHANGED <<server, attempt, disturbed, misled>>
  BY Zenon DEF NotifySender, history
<1>2. /\ conn' \in [Conns -> ConnRec]
      /\ \A d \in Conns : conn'[d].inbox = conn[d].inbox /\ conn'[d].topics = conn[d].topics
  <2> DEFINE y == [conn[c] EXCEPT !.cases = conn[c].topics]
  <2>1. y \in ConnRec /\ y.topics = conn[c].topics /\ y.inbox = conn[c].inbox
    BY <1>0, ConnFields, Zenon
  <2>2. conn' = [conn EXCEPT ![c] = y] \/ conn' = conn
    BY Zenon DEF NotifySender
  <2> HIDE DEF y
  <2>3. CASE conn' = [conn EXCEPT ![c] = y]
    BY <1>0, <2>1, <2>3, ConnTable, Zenon
  <2>4. CASE conn' = conn
    BY <1>0, <2>4, Zenon DEF Types
  <2>5. QED
    BY <2>2, <2>3, <2>4, Zenon
<1>3. Types'
  BY <1>0, <1>1, <1>2, CommandDone, Zenon DEF Types
<1>4. MapsAgree' /\ ClosedIsForgotten'
  BY <1>1, <1>2, CommandDone, SameMaps, SameForgotten, Zenon DEF IInv
<1>5. OneAnswer'
  BY <1>1, <1>2, CommandWithoutAnswer, Zenon
<1>6. QED
  BY <1>1, <1>3, <1>4, <1>5, Zenon DEF IInv, AckIsForBatch

\* ListenReplies subscribes the connection to the replies.
LEMMA ListenRepliesStep ==
  ASSUME IInv, NEW c \in Conns, ListenReplies(c)
  PROVE  IInv'
<1>0. Types /\ L(c) \in Procs
  BY Goroutines, Zenon DEF IInv
<1>1. /\ BackToRead(c) /\ UNCHANGED <<conn, attempt, disturbed, misled>>
      /\ server' = [server EXCEPT !.replyMap = @ \cup {c}] /\ proc[L(c)].at = "handle"
  BY Zenon DEF ListenReplies, Handling, history
<1>2. /\ server' \in ServerRec /\ server'.topicMap = server.topicMap
      /\ server'.replyMap = server.replyMap \cup {c}
      /\ server'.connections = server.connections
  BY <1>0, <1>1, Zenon DEF Types, ServerRec
<1>3. Types'
  BY <1>0, <1>1, <1>2, CommandDone, Zenon DEF Types
<1>4. proc'[L(c)].at # "gone"
  BY <1>1, CommandDone, Zenon
<1>5. MapsAgree' /\ ClosedIsForgotten'
  BY <1>1, <1>2, <1>4, CommandDone, Zenon DEF IInv, MapsAgree, ClosedIsForgotten
<1>6. OneAnswer'
  BY <1>1, CommandWithoutAnswer, Zenon
<1>7. QED
  BY <1>1, <1>3, <1>5, <1>6, Zenon DEF IInv, AckIsForBatch

\* The answer that the attempt on the topic gets is the one it waits for.
LEMMA HandleAckOrErrorStep ==
  ASSUME IInv, NEW c \in Conns, HandleAckOrError(c)
  PROVE  IInv'
<1>a. PICK t \in Topics : t = command[c][2]
  <2>1. Types /\ command[c][1] \in {"ack", "error"}
    BY Zenon DEF IInv, HandleAckOrError, Answer, Handling
  <2>2. QED
    BY <2>1, Zenon DEF Types
<1>0. Types /\ t \in Topics /\ command[c][1] \in {"ack", "error"} /\ attempt[t].at = "wait"
  BY <1>a, Zenon DEF IInv, HandleAckOrError, Answer, Handling
<1>1. BackToRead(c) /\ UNCHANGED <<server, conn, disturbed>>
  BY Zenon DEF HandleAckOrError, Answer
<1>2. /\ attempt' \in [Topics -> AttemptRec]
      /\ \A u \in Topics \ {t} : attempt'[u] = attempt[u]
  <2> DEFINE x == [attempt[t] EXCEPT !.at = "idle"]
             y == [x EXCEPT !.closing = FALSE]
             n == IF command[c][1] = "ack" THEN y.batch + 1 ELSE y.batch
             z == [y EXCEPT !.batch = n]
  <2>1. attempt[t] \in AttemptRec
    BY <1>0, ServerTypes, Zenon
  <2>2. x \in AttemptRec
    BY <2>1, AttemptFields, Zenon
  <2>3. y \in AttemptRec /\ y.batch \in Nat
    <3> HIDE DEF x
    <3>1. y \in AttemptRec
      BY <2>2, AttemptFields, Zenon
    <3>2. QED
      BY <3>1, AttemptFields, Zenon
  <2>4. z \in AttemptRec
    <3> HIDE DEF y
    <3>1. n \in Nat
      BY <2>3
    <3> HIDE DEF n
    <3>2. QED
      BY <2>3, <3>1, AttemptFields, Zenon
  <2>5. attempt' = [attempt EXCEPT ![t] = z]
    <3>1. attempt' = [attempt EXCEPT ![t].at = "idle", ![t].closing = FALSE,
                        ![t].batch = IF command[c][1] = "ack" THEN @ + 1 ELSE @]
      BY <1>a, Zenon DEF HandleAckOrError, Answer
    <3>2. QED
      BY <1>0, <3>1, Zenon DEF Types
  <2> HIDE DEF z
  <2>6. QED
    BY <1>0, <2>4, <2>5, AttemptTable, Zenon
<1>4. Answers(c, 0, t) /\ BatchOf(c, 0) = command[c][3]
  BY <1>a, <1>0, Zenon DEF Answers, BatchOf
<1>5. misled' = misled
  <2>1. t \notin disturbed => command[c][3] = attempt[t].batch
    BY <1>0, <1>4, AnswerAwaited, Zenon DEF IInv
  <2>2. misled' = IF command[c][1] = "ack" /\ command[c][3] # attempt[t].batch
                  THEN misled \cup ({t} \ disturbed) ELSE misled
    BY <1>a, Zenon DEF HandleAckOrError, Answer
  <2>3. QED
    BY <2>1, <2>2, Zenon
<1>6. OneAnswer'
  <2>1. command'[c][1] = "none" /\ \A d \in Conns \ {c} : command'[d] = command[d]
    BY <1>1, CommandDone, Zenon
  <2>2. \A u \in Topics, d \in Conns, k \in Nat : Answers(d, k, u)' =>
          ~(d = c /\ k = 0) /\ Answers(d, k, u) /\ BatchOf(d, k)' = BatchOf(d, k)
    <3>1. ASSUME NEW u \in Topics, NEW d \in Conns, NEW k \in Nat, Answers(d, k, u)'
          PROVE  ~(d = c /\ k = 0) /\ Answers(d, k, u) /\ BatchOf(d, k)' = BatchOf(d, k)
      <4>1. ~(d = c /\ k = 0)
        BY <2>1, <3>1, Zenon DEF Answers
      <4>2. QED
        BY <1>1, <2>1, <3>1, <4>1, Zenon DEF Answers, BatchOf
    <3>2. QED
      BY <3>1, Zenon
  <2>3. t \notin disturbed => \A d \in Conns, k \in Nat : ~Answers(d, k, t)'
    <3> SUFFICES ASSUME t \notin disturbed, NEW d \in Conns, NEW k \in Nat, Answers(d, k, t)'
                 PROVE  FALSE
      BY Zenon
    <3>1. ~(d = c /\ k = 0) /\ Answers(d, k, t)
      BY <1>0, <2>2, Zenon
    <3>2. d = c /\ k = 0
      BY <1>0, <1>4, <3>1, AnswerUnique, Zenon DEF IInv
    <3>3. QED
      BY <3>1, <3>2, Zenon
  <2>4. QED
    <3>1. ASSUME NEW u \in Topics \ disturbed', NEW d \in Conns, NEW k \in Nat,
                 Answers(d, k, u)'
          PROVE  /\ Answers(d, k, u) /\ BatchOf(d, k)' = BatchOf(d, k)
                 /\ attempt'[u] = attempt[u]
      <4>1. u # t
        BY <1>1, <2>3, <3>1, Zenon
      <4>2. QED
        BY <1>2, <2>2, <3>1, <4>1, Zenon
    <3>2. QED
      BY <1>1, <3>1, NoNewAnswers DEF IInv
<1>7. Types'
  BY <1>0, <1>1, <1>2, CommandDone, Zenon DEF Types
<1>8. MapsAgree' /\ ClosedIsForgotten'
  BY <1>1, CommandDone, SameMaps, SameForgotten, Zenon DEF IInv
<1>9. QED
  BY <1>5, <1>6, <1>7, <1>8, Zenon DEF IInv, AckIsForBatch

-----------------------------------------------------------------------------
(* Senders, the two loops and the attempts.                                *)

\* The attempt on a topic for which no answer is to come changes.
LEMMA AttemptChanges ==
  ASSUME IInv, NEW t \in Topics, NEW y \in AttemptRec, attempt' = [attempt EXCEPT ![t] = y],
         UNCHANGED <<conn, proc, command, misled>>, disturbed \subseteq disturbed',
         server' \in ServerRec, server'.topicMap = server.topicMap,
         server'.replyMap = server.replyMap, server'.connections = server.connections,
         t \notin disturbed' => \A c \in Conns, k \in Nat : ~Answers(c, k, t)
  PROVE  IInv'
<1>1. Types
  BY Zenon DEF IInv
<1>2. attempt' \in [Topics -> AttemptRec] /\ \A u \in Topics \ {t} : attempt'[u] = attempt[u]
  BY <1>1, AttemptTable, Zenon
<1>3. \A u \in Topics, d \in Conns, k \in Nat :
        Answers(d, k, u)' = Answers(d, k, u) /\ BatchOf(d, k)' = BatchOf(d, k)
  BY DEF Answers, BatchOf
<1>4. OneAnswer'
  <2>1. ASSUME NEW u \in Topics \ disturbed', NEW d \in Conns, NEW k \in Nat, Answers(d, k, u)'
        PROVE  /\ Answers(d, k, u) /\ BatchOf(d, k)' = BatchOf(d, k)
               /\ attempt'[u] = attempt[u]
    <3>1. u # t
      BY <1>3, <2>1
    <3>2. QED
      BY <1>2, <1>3, <2>1, <3>1, Zenon
  <2>2. QED
    BY <2>1, NoNewAnswers, Zenon DEF IInv
<1>5. Types'
  BY <1>1, <1>2 DEF Types
<1>6. MapsAgree' /\ ClosedIsForgotten'
  BY Zenon DEF IInv, MapsAgree, ClosedIsForgotten
<1>7. QED
  BY <1>4, <1>5, <1>6, Zenon DEF IInv, AckIsForBatch

\* A topic whose attempt does not wait has no answer on its way.
LEMMA NotWaiting ==
  ASSUME IInv, NEW t \in Topics, attempt[t].at # "wait"
  PROVE  t \notin disturbed => \A c \in Conns, k \in Nat : ~Answers(c, k, t)
  BY AnswerAwaited, Zenon DEF IInv

\* The sender of a connection takes the batch of an attempt.
LEMMA SenderTakesBatchStep ==
  ASSUME IInv, NEW c \in Conns, NEW t \in Topics, SenderTakesBatch(c, t)
  PROVE  IInv'
<1> DEFINE y == [attempt[t] EXCEPT !.at = "wait"]
           b == <<t, attempt[t].batch>>
           inbox == Append(conn[c].inbox, b)
           z == [conn[c] EXCEPT !.inbox = inbox]
<1>0. /\ Types /\ attempt[t] \in AttemptRec /\ attempt[t].batch \in Nat
      /\ conn[c] \in ConnRec /\ conn[c].inbox \in Seq(Topics \X Nat)
  BY ServerTypes, AttemptFields, Zenon DEF IInv
<1>1. /\ attempt[t].at = "send" /\ UNCHANGED <<server, proc, command, disturbed, misled>>
      /\ attempt' = [attempt EXCEPT ![t] = y]
      /\ conn' = [conn EXCEPT ![c] = z] \/ conn' = conn
  BY Zenon DEF SenderTakesBatch, history
<1>2. y \in AttemptRec /\ y.at = "wait" /\ y.batch = attempt[t].batch
  BY <1>0, AttemptFields, Zenon
<1>3. /\ attempt' \in [Topics -> AttemptRec]
      /\ \A u \in Topics : attempt'[u] = IF u = t THEN y ELSE attempt[u]
  <2> HIDE DEF y
  <2>1. QED
    BY <1>0, <1>1, <1>2, AttemptTable, Zenon
<1>4. /\ inbox \in Seq(Topics \X Nat) /\ Len(inbox) = Len(conn[c].inbox) + 1
      /\ inbox[Len(conn[c].inbox) + 1] = b
      /\ \A k \in 1 .. Len(conn[c].inbox) : inbox[k] = conn[c].inbox[k]
  <2>1. b \in Topics \X Nat
    BY <1>0, Zenon
  <2> HIDE DEF b
  <2>2. QED
    BY <1>0, <2>1
<1>5. z \in ConnRec /\ z.topics = conn[c].topics /\ z.inbox = inbox
  <2> HIDE DEF inbox
  <2>1. QED
    BY <1>0, <1>4, ConnFields, Zenon
<1>6. PICK new \in BOOLEAN :
        /\ conn' \in [Conns -> ConnRec]
        /\ \A d \in Conns : /\ conn'[d].topics = conn[d].topics
                            /\ conn'[d].inbox = IF d = c /\ new THEN inbox ELSE conn[d].inbox
  <2> HIDE DEF z, inbox
  <2>1. CASE conn' = [conn EXCEPT ![c] = z]
    <3>1. /\ conn' \in [Conns -> ConnRec]
          /\ \A d \in Conns : /\ conn'[d].topics = conn[d].topics
                              /\ conn'[d].inbox = IF d = c /\ TRUE THEN inbox ELSE conn[d].inbox
      BY <1>0, <1>5, <2>1, Zenon DEF Types
    <3>2. QED
      BY <3>1, Zenon
  <2>2. CASE conn' = conn
    BY <1>0, <2>2, Zenon DEF Types
  <2>3. QED
    BY <1>1, <2>1, <2>2, Zenon
<1>7. PICK last \in Nat : last = Len(conn[c].inbox) + 1
  BY <1>0
<1>8. ASSUME NEW u \in Topics, NEW d \in Conns, NEW k \in Nat, Answers(d, k, u)'
      PROVE  \/ Answers(d, k, u) /\ BatchOf(d, k)' = BatchOf(d, k)
             \/ u = t /\ d = c /\ k = last /\ BatchOf(d, k)' = attempt[t].batch
  <2>0. Len(conn[c].inbox) \in Nat
    BY <1>0
  <2>1. CASE k = 0 \/ ~(d = c /\ new)
    BY <1>1, <1>6, <1>8, <2>1, Zenon DEF Answers, BatchOf
  <2>2. CASE k # 0 /\ d = c /\ new
    <3>1. conn'[d].inbox = inbox /\ k \in 1 .. Len(inbox) /\ inbox[k][1] = u
          /\ BatchOf(d, k)' = inbox[k][2]
      BY <1>6, <1>8, <2>2, Zenon DEF Answers, BatchOf
    <3>2. CASE k = last
      BY <1>4, <1>7, <2>2, <3>1, <3>2
    <3>3. CASE k # last
      <4>1. k \in 1 .. Len(conn[c].inbox)
        BY <1>4, <1>7, <2>0, <3>1, <3>3
      <4>2. inbox[k] = conn[c].inbox[k]
        BY <1>4, <4>1, Zenon
      <4>3. QED
        BY <2>2, <3>1, <4>1, <4>2, Zenon DEF Answers, BatchOf
    <3>4. QED
      BY <3>2, <3>3, Zenon
  <2>3. QED
    BY <2>1, <2>2, Zenon
<1>9. OneAnswer'
  <2>0. t \notin disturbed => \A d \in Conns, k \in Nat : ~Answers(d, k, t)
    BY <1>1, NotWaiting, Zenon
  <2>1. ASSUME NEW u \in Topics \ disturbed', NEW d \in Conns, NEW k \in Nat, Answers(d, k, u)'
        PROVE  attempt'[u].at = "wait" /\ BatchOf(d, k)' = attempt'[u].batch
    <3>1. CASE u = t
      BY <1>1, <1>2, <1>3, <1>8, <2>0, <2>1, <3>1, Zenon
    <3>2. CASE u # t
      <4>1. Answers(d, k, u) /\ BatchOf(d, k)' = BatchOf(d, k) /\ u \in Topics \ disturbed
        BY <1>1, <1>8, <2>1, <3>2, Zenon
      <4>2. attempt[u].at = "wait" /\ BatchOf(d, k) = attempt[u].batch
        BY <4>1, AnswerAwaited, Zenon DEF IInv
      <4>3. QED
        BY <1>3, <3>2, <4>1, <4>2, Zenon
    <3>3. QED
      BY <3>1, <3>2, Zenon
  <2>2. ASSUME NEW u \in Topics \ disturbed', NEW d \in Conns, NEW e \in Conns,
               NEW k \in Nat, NEW l \in Nat, Answers(d, k, u)', Answers(e, l, u)'
        PROVE  d = e /\ k = l
    <3>1. CASE u = t
      BY <1>1, <1>8, <2>0, <2>2, <3>1, Zenon
    <3>2. CASE u # t
      <4>1. Answers(d, k, u) /\ Answers(e, l, u) /\ u \in Topics \ disturbed
        BY <1>1, <1>8, <2>2, <3>2, Zenon
      <4>2. QED
        BY <4>1, AnswerUnique, Zenon DEF IInv
    <3>3. QED
      BY <3>1, <3>2, Zenon
  <2>3. QED
    BY <2>1, <2>2, Zenon DEF OneAnswer
<1>10. Types'
  BY <1>0, <1>1, <1>3, <1>6, Zenon DEF Types
<1>11. MapsAgree' /\ ClosedIsForgotten'
  BY <1>1, <1>6, SameMaps, SameForgotten, Zenon DEF IInv
<1>12. QED
  BY <1>1, <1>9, <1>10, <1>11, Zenon DEF IInv, AckIsForBatch

\* The attempt is over and the batch delivered.
LEMMA ProcessBroadcastStep ==
  ASSUME IInv, NEW t \in Topics, ProcessBroadcast(t)
  PROVE  IInv'
<1> DEFINE x == [attempt[t] EXCEPT !.at = "idle"]
           y == [x EXCEPT !.closing = FALSE]
           n == y.batch + 1
           z == [y EXCEPT !.batch = n]
<1>0. Types /\ attempt[t] \in AttemptRec /\ server \in ServerRec
  BY ServerTypes, Zenon DEF IInv, Types
<1>1. /\ attempt[t].at = "send" /\ UNCHANGED <<server, conn, proc, command, disturbed, misled>>
      /\ attempt' = [attempt EXCEPT ![t].at = "idle", ![t].closing = FALSE, ![t].batch = @ + 1]
  BY Zenon DEF ProcessBroadcast, history
<1>2. x \in AttemptRec
  BY <1>0, AttemptFields, Zenon
<1>3. y \in AttemptRec /\ n \in Nat
  <2> HIDE DEF x
  <2>1. y \in AttemptRec
    BY <1>2, AttemptFields, Zenon
  <2> HIDE DEF y
  <2>2. y.batch \in Nat
    BY <2>1, AttemptFields, Zenon
  <2>3. QED
    BY <2>1, <2>2
<1>4. z \in AttemptRec
  <2> HIDE DEF y, n
  <2>1. QED
    BY <1>3, AttemptFields, Zenon
<1>5. attempt' = [attempt EXCEPT ![t] = z]
  BY <1>0, <1>1, Zenon DEF Types
<1>6. t \notin disturbed' => \A c \in Conns, k \in Nat : ~Answers(c, k, t)
  BY <1>1, NotWaiting, Zenon
<1>7. QED
  <2> HIDE DEF z
  <2>1. QED
    BY <1>0, <1>1, <1>4, <1>5, <1>6, AttemptChanges, Zenon

\* The attempt moves on, to its send.
LEMMA AttemptStartsStep ==
  ASSUME IInv, NEW t \in Topics, GetChannels(t) \/ AnnounceFromAttempt(t)
  PROVE  IInv'
<1>0. Types /\ attempt[t] \in AttemptRec
  BY ServerTypes, Zenon DEF IInv
<1>1. /\ attempt[t].at # "wait" /\ UNCHANGED <<conn, proc, command, disturbed, misled>>
      /\ server' = server \/ server' = [server EXCEPT !.topics = @ \cup {t}]
  BY Zenon DEF GetChannels, AnnounceFromAttempt, history, GetTopic
<1>2. PICK a \in {"send", "announce"} : attempt' = [attempt EXCEPT ![t] = [attempt[t] EXCEPT !.at = a]]
  BY Zenon DEF GetChannels, AnnounceFromAttempt
<1> DEFINE y == [attempt[t] EXCEPT !.at = a]
<1>3. y \in AttemptRec
  BY <1>0, AttemptFields, Zenon
<1>4. /\ server' \in ServerRec /\ server'.topicMap = server.topicMap
      /\ server'.replyMap = server.replyMap /\ server'.connections = server.connections
  BY <1>0, <1>1 DEF Types, ServerRec
<1>5. t \notin disturbed' => \A c \in Conns, k \in Nat : ~Answers(c, k, t)
  BY <1>1, NotWaiting, Zenon
<1>6. attempt' = [attempt EXCEPT ![t] = y]
  BY <1>2, Zenon
<1>7. QED
  <2> HIDE DEF y
  <2>1. QED
    BY <1>1, <1>3, <1>4, <1>5, <1>6, AttemptChanges, Zenon

\* A topic that is not disturbed by it has no client with the batch.
LEMMA GiveUpStep ==
  ASSUME IInv, NEW t \in Topics, GiveUp(t)
  PROVE  IInv'
<1> DEFINE x == [attempt[t] EXCEPT !.at = "idle"]
           y == [x EXCEPT !.closing = FALSE]
<1>0. Types /\ attempt[t] \in AttemptRec /\ server \in ServerRec
  BY ServerTypes, Zenon DEF IInv, Types
<1>1. /\ UNCHANGED <<server, conn, proc, command, misled>>
      /\ disturbed' = IF Held(t) THEN disturbed \cup {t} ELSE disturbed
      /\ attempt' = [attempt EXCEPT ![t].at = "idle", ![t].closing = FALSE]
  BY Zenon DEF GiveUp
<1>2. y \in AttemptRec
  <2>1. x \in AttemptRec
    BY <1>0, AttemptFields, Zenon
  <2> HIDE DEF x
  <2>2. QED
    BY <2>1, AttemptFields, Zenon
<1>3. attempt' = [attempt EXCEPT ![t] = y]
  BY <1>0, <1>1, Zenon DEF Types
<1>4. t \notin disturbed' => \A c \in Conns, k \in Nat : ~Answers(c, k, t)
  <2> SUFFICES ASSUME t \notin disturbed', NEW c \in Conns, NEW k \in Nat, Answers(c, k, t)
               PROVE  FALSE
    BY Zenon
  <2>1. ~Held(t) /\ t \in Topics \ disturbed
    BY <1>1, Zenon
  <2>2. BatchOf(c, k) = attempt[t].batch
    BY <2>1, AnswerAwaited, Zenon DEF IInv
  <2>3. CASE k = 0
    <3>1. /\ command[c][1] \in {"ack", "error"} /\ command[c][2] = t
          /\ command[c][3] = attempt[t].batch
      BY <2>2, <2>3, Zenon DEF Answers, BatchOf
    <3>2. command[c] = <<command[c][1], command[c][2], command[c][3]>>
      BY <1>0, <3>1 DEF Types
    <3>3. command[c] = <<command[c][1], t, attempt[t].batch>>
      BY <3>1, <3>2, Zenon
    <3>4. QED
      BY <2>1, <3>1, <3>3, Zenon DEF Held
  <2>4. CASE k # 0
    <3>1. /\ conn[c].inbox \in Seq(Topics \X Nat) /\ k \in 1 .. Len(conn[c].inbox)
          /\ conn[c].inbox[k][1] = t /\ conn[c].inbox[k][2] = attempt[t].batch
      BY <1>0, <2>2, <2>4, ServerTypes, Zenon DEF Answers, BatchOf
    <3>2. conn[c].inbox[k] = <<t, attempt[t].batch>>
      BY <3>1
    <3>3. conn[c].inbox[k] \in Range(conn[c].inbox)
      BY <3>1 DEF Range
    <3>4. QED
      BY <2>1, <3>2, <3>3, Zenon DEF Held
  <2>5. QED
    BY <2>3, <2>4, Zenon
<1>5. QED
  <2> HIDE DEF y
  <2>1. QED
    BY <1>0, <1>1, <1>2, <1>3, <1>4, AttemptChanges, Zenon

\* Every step keeps the invariant.
LEMMA InvStep == IInv /\ [Next]_vars => IInv'
<1> SUFFICES ASSUME IInv, [Next]_vars PROVE IInv'
  BY Zenon
<1>1. ASSUME NEW p \in Procs, NEW ret \in {"read", "gone"}, Close(p, ret) PROVE IInv'
  <2>1. conn[p[1]].topics \in SUBSET Topics
    BY Goroutines, ServerTypes, Zenon DEF IInv
  <2>2. QED
    BY <1>1, <2>1, EnterCloseStep, Zenon DEF Close
<1>2. ASSUME NEW p \in Procs, Closing(p) PROVE IInv'
  BY <1>2, CycleTopicStep, ConnectionClosedStep, Zenon DEF Closing
<1>3. ASSUME NEW c \in Conns, AnnounceTopic(c) PROVE IInv'
  <2>1. /\ proc' = [proc EXCEPT ![L(c)].at = "handle"]
        /\ UNCHANGED <<server, conn, command, attempt, disturbed, misled>>
    BY <1>3, Zenon DEF AnnounceTopic, history
  <2>2. /\ proc' \in [Procs -> ProcRec]
        /\ \A d \in Conns : proc'[L(d)].at = "gone" => proc[L(d)].at = "gone"
    BY <2>1, ListenerMoves, Zenon DEF ProcAts
  <2>3. Types'
    BY <2>1, <2>2, Zenon DEF IInv, Types
  <2>4. MapsAgree' /\ ClosedIsForgotten' /\ OneAnswer'
    BY <2>1, <2>2, SameMaps, SameForgotten, SameAnswers, Zenon DEF IInv
  <2>5. QED
    BY <2>1, <2>3, <2>4, Zenon DEF IInv, AckIsForBatch
<1>4. ASSUME NEW c \in Conns, Listener(c) \/ AckTimeout(c) PROVE IInv'
  <2>1. L(c) \in Procs
    BY Goroutines, Zenon
  <2>2. QED
    BY <1>1, <1>2, <1>3, <1>4, <2>1, ListenTopicStep, NotifySenderStep, ListenRepliesStep,
       HandleAckOrErrorStep, Zenon DEF Listener, AckTimeout, ReadError
<1>5. CASE /\ UNCHANGED <<server, conn, proc, command, attempt, disturbed, misled>>
  <2>1. Types' /\ MapsAgree' /\ ClosedIsForgotten'
    BY <1>5, SameMaps, SameForgotten, Zenon DEF IInv, Types
  <2>2. OneAnswer'
    BY <1>5, SameAnswers, Zenon DEF IInv
  <2>3. QED
    BY <1>5, <2>1, <2>2, Zenon DEF IInv, AckIsForBatch
<1>6. ASSUME NEW c \in Conns, Sender(c) PROVE IInv'
  <2>1. S(c) \in Procs
    BY Goroutines, Zenon
  <2>2. CASE BroadcastToConnections(c)
    BY <1>5, <2>2, Zenon DEF BroadcastToConnections, SendTo, history
  <2>3. QED
    BY <1>1, <1>2, <1>6, <2>1, <2>2, SenderTakesBatchStep, Zenon DEF Sender, SenderClosing
<1>7. ASSUME NEW t \in Topics, AttemptClosing(t) \/ AttemptInterrupted(t) PROVE IInv'
  BY <1>7, GiveUpStep, Zenon DEF AttemptClosing, AttemptInterrupted
<1>8. CASE ProcessReply \/ UNCHANGED vars
  BY <1>5, <1>8, Zenon DEF ProcessReply, vars, history
<1>9. QED
  BY <1>4, <1>6, <1>7, <1>8, NewConnectionStep, DisconnectStep, ReadStep, AttemptStartsStep,
     ProcessBroadcastStep, Zenon DEF Next

-----------------------------------------------------------------------------
(* The results.                                                            *)

\* An answer on its way to an attempt is the only one and names the batch the attempt
\* waits for, in every behaviour, as long as no attempt was given up.
THEOREM ServerInvariant == Spec => []IInv
  BY InvInit, InvStep, PTL DEF Spec

\* handleAckOrError passes an ack to whichever attempt waits on the topic; that
\* attempt is the one the ack answers, unless an attempt was given up while a
\* client still had its batch.
THEOREM AcksForBatch == Spec => []AckIsForBatch
<1>1. IInv => AckIsForBatch
  BY Zenon DEF IInv
<1>2. QED
  BY <1>1, ServerInvariant, PTL

\* After the deferred close() of its listener no map of the server names the
\* connection, however often and by whom it was closed before.
THEOREM ClosedForgotten == Spec => []ClosedIsForgotten
<1>1. IInv => ClosedIsForgotten
  BY Zenon DEF IInv
<1>2. QED
  BY <1>1, ServerInvariant, PTL
=============================================================================
