-------------------------- MODULE WebSocketServer --------------------------
(***************************************************************************)
(* The WebSocket server (internal/ws) and the delivery of batches over it  *)
(* (internal/events/websockets.go).                                        *)
(*                                                                         *)
(* Goroutines: processBroadcasts and processReplies of the server; a       *)
(* listener and a sender per connection; one event stream per topic, which *)
(* runs attemptBatch until a batch is delivered.  All Go channels involved *)
(* are unbuffered, so every send is a rendezvous and one action here.      *)
(* Clients are well behaved: one ack or error for each batch they receive, *)
(* in the order of receipt.                                                *)
(***************************************************************************)
EXTENDS Naturals, Sequences, Functions

CONSTANTS
  NConns,       \* connections that are made, numbered in their order
  Topics,       \* topics; each has one event stream that delivers on it
  MaxBatch,     \* batches a stream delivers
  MaxExtras     \* receipts passed to SendReply, error answers of clients and
                \* stream updates that interrupt an attempt, all together

ASSUME WSAssumption == NConns \in Nat /\ MaxBatch \in Nat /\ MaxExtras \in Nat

Conns    == 1 .. NConns
Procs    == Conns \X {"listener", "sender"}
Commands == {"none", "listen", "listenreplies", "ack", "error"}

VARIABLES
  server,   \* the maps: topics, topicMap, replyMap, connections
  loops,    \* processBroadcasts: the topics it selects on (cases), connections
            \* its message still goes to (todo); the same for processReplies
  conn,     \* per connection: its topics, the topics its sender selects on, the
            \* closed flag; its client: is it there, what is not answered yet
  proc,     \* per goroutine: where it is; in close(), the topics still to cycle
            \* and where it returns to
  command,  \* the command a listener handles: <<type, topic, batch>>
  attempt,  \* per topic: DistributionMode, the batch, where attemptBatch is and
            \* whether the closingChannel it holds has been closed
  extras,   \* how many of the MaxExtras events have happened
  disturbed,\* history: topics with an attempt given up while a client that is
            \* still connected held the batch
  misled    \* history: topics with a batch completed by the ack of another one

vars == <<server, loops, conn, proc, command, attempt, extras, disturbed, misled>>
history == <<disturbed, misled>>

L(c) == <<c, "listener">>
S(c) == <<c, "sender">>
NoCommand == <<"none", CHOOSE t \in Topics : TRUE, 0>>

TypeOK ==
  /\ server \in [topics : SUBSET Topics, topicMap : [Topics -> SUBSET Conns],
                 replyMap : SUBSET Conns, connections : SUBSET Conns]
  /\ loops \in [cases : SUBSET server.topics, todo : SUBSET Conns,
                replyTodo : SUBSET Conns]
  /\ conn \in [Conns -> [topics : SUBSET server.topics, cases : SUBSET Topics,
                         closed : BOOLEAN, up : BOOLEAN,
                         inbox : Seq(Topics \X (1 .. MaxBatch))]]
  /\ proc \in [Procs -> [at : {"none", "read", "announce", "handle", "notify",
                               "select", "cycle", "unlink", "gone"},
                         todo : SUBSET Topics, ret : {"read", "gone"}]]
  /\ command \in [Conns -> Commands \X Topics \X (0 .. MaxBatch)]
  /\ attempt \in [Topics -> [mode : {"workloadDistribution", "broadcast"},
                             at : {"idle", "announce", "send", "wait"},
                             closing : BOOLEAN, batch : 1 .. MaxBatch + 1]]
  /\ extras \in 0 .. MaxExtras
  /\ disturbed \subseteq Topics /\ misled \subseteq Topics

\* NewWebSocketServer: no topics, no connections, both loops at their select.
Init ==
  /\ server = [topics |-> {}, topicMap |-> [t \in Topics |-> {}],
               replyMap |-> {}, connections |-> {}]
  /\ loops = [cases |-> {}, todo |-> {}, replyTodo |-> {}]
  /\ conn = [c \in Conns |-> [topics |-> {}, cases |-> {}, closed |-> FALSE,
                              up |-> FALSE, inbox |-> <<>>]]
  /\ proc = [p \in Procs |-> [at |-> "none", todo |-> {}, ret |-> "gone"]]
  /\ command = [c \in Conns |-> NoCommand]
  /\ attempt \in [Topics -> [mode : {"workloadDistribution", "broadcast"},
                             at : {"idle"}, closing : {FALSE}, batch : {1}]]
  /\ extras = 0
  /\ disturbed = {} /\ misled = {}

-----------------------------------------------------------------------------
(* Opening a connection, and close() in the steps others can come between. *)

\* NewConnection: the goroutines start before the entry in s.connections, but
\* whatever they do to the maps waits for the lock held until then.
NewConnection(c) ==
  /\ proc[L(c)].at = "none" /\ \A d \in 1 .. c - 1 : proc[L(d)].at # "none"
  /\ proc' = [proc EXCEPT ![L(c)].at = "read", ![S(c)].at = "select"]
  /\ server' = [server EXCEPT !.connections = @ \cup {c}]
  /\ conn' = [conn EXCEPT ![c].up = TRUE]
  /\ UNCHANGED <<loops, command, attempt, extras, history>>

\* The client goes away, and with it the batches it had not answered.
Disconnect(c) ==
  /\ conn[c].up /\ ~conn[c].closed
  /\ conn' = [conn EXCEPT ![c].up = FALSE, ![c].inbox = <<>>]
  /\ UNCHANGED <<server, loops, proc, command, attempt, extras, history>>

\* Entering close(), with the topics it is going to cycle.
EnterClose(p, ret, ts) ==
  /\ conn' = [conn EXCEPT ![p[1]].closed = TRUE]
  /\ proc' = [proc EXCEPT ![p] = [at |-> IF ts = {} THEN "unlink" ELSE "cycle",
                                  todo |-> ts, ret |-> ret]]
  /\ UNCHANGED <<server, loops, command, attempt, extras, history>>

\* A variant that cycles no topic when the connection is already closed.
CloseOnce(p, ret) ==
  EnterClose(p, ret, IF conn[p[1]].closed THEN {} ELSE conn[p[1]].topics)

\* close() of a connection, entered by goroutine p and returning to ret.
Close(p, ret) == EnterClose(p, ret, conn[p[1]].topics)

\* cycleTopic closes the channel a running attempt may hold, and replaces it.
CycleTopic(p) ==
  /\ proc[p].at = "cycle"
  /\ \E t \in proc[p].todo :
       /\ attempt' = [attempt EXCEPT ![t].closing = attempt[t].at \in {"send", "wait"}]
       /\ proc' = [proc EXCEPT ![p].todo = @ \ {t},
                     ![p].at = IF proc[p].todo = {t} THEN "unlink" ELSE "cycle"]
  /\ UNCHANGED <<server, loops, conn, command, extras, history>>

\* Removing a connection from the maps; the deferred close() ends its goroutine.
Unlink(p, replyMap) ==
  LET c == p[1] IN
  /\ proc[p].at = "unlink"
  /\ server' = [server EXCEPT !.connections = @ \ {c}, !.replyMap = replyMap,
                  !.topicMap = [t \in Topics |-> IF t \in conn[c].topics
                                                 THEN @[t] \ {c} ELSE @[t]]]
  /\ proc' = [proc EXCEPT ![p].at = proc[p].ret, ![p].ret = "gone"]
  /\ UNCHANGED <<loops, conn, command, attempt, extras, history>>

\* A variant that forgets the replyMap.
ConnectionClosedTopicsOnly(p) == Unlink(p, server.replyMap)

ConnectionClosed(p) == Unlink(p, server.replyMap \ {p[1]})

\* The topics after getTopic; a new one also has to be announced to
\* processBroadcasts, which the caller waits for.
GetTopic(t) == server.topics \cup {t}

-----------------------------------------------------------------------------
(* listen(): the goroutine that reads the commands of a client.            *)

\* What a client may send next: it listens on topics, each once, or for replies,
\* and an ack or error answers the oldest batch.
MaySend(c, cmd, t) ==
  CASE cmd = "listen"           -> t \notin conn[c].topics /\ c \notin server.replyMap
    [] cmd = "listenreplies"    -> conn[c].topics = {} /\ c \notin server.replyMap
    [] cmd \in {"ack", "error"} -> conn[c].inbox # <<>> /\ Head(conn[c].inbox)[1] = t
    [] cmd = "none"             -> FALSE

\* ReadJSON, then getTopic.
Read(c, cmd, t) ==
  /\ proc[L(c)].at = "read" /\ conn[c].up /\ MaySend(c, cmd, t)
  /\ cmd = "error" => extras < MaxExtras
  /\ LET answers == cmd \in {"ack", "error"} IN
     /\ command' = [command EXCEPT
          ![c] = <<cmd, t, IF answers THEN Head(conn[c].inbox)[2] ELSE 0>>]
     /\ conn' = [conn EXCEPT ![c].inbox = IF answers THEN Tail(@) ELSE @]
  /\ server' = [server EXCEPT !.topics = GetTopic(t)]
  /\ proc' = [proc EXCEPT
       ![L(c)].at = IF t \in server.topics THEN "handle" ELSE "announce"]
  /\ extras' = IF cmd = "error" THEN extras + 1 ELSE extras
  /\ UNCHANGED <<loops, attempt, history>>

ReadError(c) ==
  /\ proc[L(c)].at = "read" /\ (~conn[c].up \/ conn[c].closed)
  /\ Close(L(c), "gone")

AnnounceTopic(c) ==
  /\ proc[L(c)].at = "announce" /\ loops.todo = {}
  /\ proc' = [proc EXCEPT ![L(c)].at = "handle"]
  /\ loops' = [loops EXCEPT !.cases = server.topics]
  /\ UNCHANGED <<server, conn, command, attempt, extras, history>>

Handling(c, cmds) == proc[L(c)].at = "handle" /\ command[c][1] \in cmds

BackToRead(c) ==
  /\ proc' = [proc EXCEPT ![L(c)].at = "read"]
  /\ command' = [command EXCEPT ![c] = NoCommand]

\* listenTopic, as far as its wait for the sender.
ListenTopic(c) ==
  LET t == command[c][2] IN
  /\ Handling(c, {"listen"})
  /\ conn' = [conn EXCEPT ![c].topics = @ \cup {t}]
  /\ server' = [server EXCEPT !.topicMap[t] = @ \cup {c}]
  /\ proc' = [proc EXCEPT ![L(c)].at = "notify"]
  /\ UNCHANGED <<loops, command, attempt, extras, history>>

\* The select of listenTopic: the sender rebuilds its cases, or is closing.
NotifySender(c) ==
  /\ proc[L(c)].at = "notify"
  /\ \/ proc[S(c)].at = "select" /\ conn' = [conn EXCEPT ![c].cases = conn[c].topics]
     \/ conn[c].closed /\ UNCHANGED conn
  /\ BackToRead(c)
  /\ UNCHANGED <<server, loops, attempt, extras, history>>

ListenReplies(c) ==
  /\ Handling(c, {"listenreplies"})
  /\ server' = [server EXCEPT !.replyMap = @ \cup {c}]
  /\ BackToRead(c)
  /\ UNCHANGED <<loops, conn, attempt, extras, history>>

\* The answer reaches the attempt that waits on the topic, whichever that is.
Answer(c) ==
  LET t   == command[c][2]
      ack == command[c][1] = "ack" IN
  /\ Handling(c, {"ack", "error"}) /\ attempt[t].at = "wait"
  /\ attempt' = [attempt EXCEPT ![t].at = "idle", ![t].closing = FALSE,
                                ![t].batch = IF ack THEN @ + 1 ELSE @]
  /\ misled' = IF ack /\ command[c][3] # attempt[t].batch
               THEN misled \cup ({t} \ disturbed) ELSE misled
  /\ UNCHANGED <<server, loops, conn, extras, disturbed>>

\* A variant in which the handling of an error goes on to that of an ack.
ErrorThenAck(c) ==
  /\ Answer(c)
  /\ IF command[c][1] = "ack" THEN BackToRead(c)
     ELSE command' = [command EXCEPT ![c][1] = "ack"] /\ UNCHANGED proc

HandleAckOrError(c) == Answer(c) /\ BackToRead(c)

\* Nobody took the answer within processingTimeout, and nobody is there to take
\* it now; the loop goes on after close() and finds the connection closed.
AckTimeout(c) ==
  /\ Handling(c, {"ack", "error"}) /\ attempt[command[c][2]].at # "wait"
  /\ Close(L(c), "read")

-----------------------------------------------------------------------------
(* sender(): one select over closing, broadcast, newTopic and the          *)
(* senderChannel of every topic in its cases.                              *)

SenderClosing(c) ==
  proc[S(c)].at = "select" /\ conn[c].closed /\ Close(S(c), "gone")

\* WriteJSON reaches the client unless it is gone; a failed write is logged.
SenderTakesBatch(c, t) ==
  /\ proc[S(c)].at = "select" /\ t \in conn[c].cases
  /\ attempt[t].at = "send" /\ attempt[t].mode = "workloadDistribution"
  /\ attempt' = [attempt EXCEPT ![t].at = "wait"]
  /\ conn' = IF conn[c].up /\ ~conn[c].closed
             THEN [conn EXCEPT ![c].inbox = Append(@, <<t, attempt[t].batch>>)]
             ELSE conn
  /\ UNCHANGED <<server, loops, proc, command, extras, history>>

-----------------------------------------------------------------------------
(* processBroadcasts and processReplies: a snapshot of the listening       *)
(* connections, then a send to each of them that waits for its sender.     *)

ProcessBroadcast(t) ==
  /\ loops.todo = {} /\ t \in loops.cases
  /\ attempt[t].at = "send" /\ attempt[t].mode = "broadcast"
  /\ loops' = [loops EXCEPT !.todo = server.topicMap[t]]
  /\ attempt' = [attempt EXCEPT ![t].at = "idle", ![t].closing = FALSE, ![t].batch = @ + 1]
  /\ UNCHANGED <<server, conn, proc, command, extras, history>>

\* SendReply hands the receipt to processReplies, which takes its snapshot.
ProcessReply ==
  /\ loops.replyTodo = {} /\ extras < MaxExtras
  /\ loops' = [loops EXCEPT !.replyTodo = server.replyMap]
  /\ extras' = extras + 1
  /\ UNCHANGED <<server, conn, proc, command, attempt, history>>

SendTo(c) ==
  /\ proc[S(c)].at = "select"
  /\ \/ c \in loops.todo /\ loops' = [loops EXCEPT !.todo = @ \ {c}]
     \/ c \in loops.replyTodo /\ loops' = [loops EXCEPT !.replyTodo = @ \ {c}]
  /\ UNCHANGED <<server, conn, proc, command, attempt, extras, history>>

\* A variant in which a sender without topics does not look at broadcasts.
BroadcastToSubscribed(c) == conn[c].cases # {} /\ SendTo(c)

\* broadcastToConnections: one connection after the other, in map order.
BroadcastToConnections(c) == SendTo(c)

-----------------------------------------------------------------------------
(* attemptBatch of the WebSocket action of a stream.                       *)

\* GetChannels, up to the wait of getTopic for processBroadcasts.
GetChannels(t) ==
  /\ attempt[t].at = "idle" /\ attempt[t].batch <= MaxBatch
  /\ server' = [server EXCEPT !.topics = GetTopic(t)]
  /\ attempt' = [attempt EXCEPT
       ![t].at = IF t \in server.topics THEN "send" ELSE "announce"]
  /\ UNCHANGED <<loops, conn, proc, command, extras, history>>

AnnounceFromAttempt(t) ==
  /\ attempt[t].at = "announce" /\ loops.todo = {}
  /\ loops' = [loops EXCEPT !.cases = server.topics]
  /\ attempt' = [attempt EXCEPT ![t].at = "send"]
  /\ UNCHANGED <<server, conn, proc, command, extras, history>>

\* A client holds the batch, or its answer is being handled.
Held(t) ==
  \E c \in Conns :
    \/ <<t, attempt[t].batch>> \in Range(conn[c].inbox)
    \/ \E a \in {"ack", "error"} : command[c] = <<a, t, attempt[t].batch>>

\* An attempt given up: the stream tries the same batch again.
GiveUp(t) ==
  /\ attempt[t].at \in {"send", "wait"}
  /\ attempt' = [attempt EXCEPT ![t].at = "idle", ![t].closing = FALSE]
  /\ disturbed' = IF Held(t) THEN disturbed \cup {t} ELSE disturbed
  /\ UNCHANGED <<server, loops, conn, proc, command, misled>>

\* The closing case of both selects.
AttemptClosing(t) == attempt[t].closing /\ GiveUp(t) /\ UNCHANGED extras

\* The updateInterrupt case of both selects.
AttemptInterrupted(t) ==
  extras < MaxExtras /\ GiveUp(t) /\ extras' = extras + 1

-----------------------------------------------------------------------------
Closing(p) == CycleTopic(p) \/ ConnectionClosed(p)

Listener(c) ==
  \/ ReadError(c) \/ AnnounceTopic(c) \/ ListenTopic(c) \/ NotifySender(c)
  \/ ListenReplies(c) \/ HandleAckOrError(c) \/ Closing(L(c))

Sender(c) ==
  \/ SenderClosing(c) \/ \E t \in Topics : SenderTakesBatch(c, t)
  \/ BroadcastToConnections(c) \/ Closing(S(c))

Next ==
  \/ \E c \in Conns :
       \/ NewConnection(c) \/ Disconnect(c)
       \/ \E cmd \in Commands, t \in Topics : Read(c, cmd, t)
       \/ Listener(c) \/ AckTimeout(c) \/ Sender(c)
  \/ \E t \in Topics : \/ GetChannels(t) \/ AnnounceFromAttempt(t)
                       \/ AttemptClosing(t) \/ AttemptInterrupted(t)
                       \/ ProcessBroadcast(t)
  \/ ProcessReply

Spec == Init /\ [][Next]_vars

\* The Go scheduler runs every goroutine that can go on.  New connections,
\* commands, interrupts and timeouts are under no obligation.
Fairness ==
  /\ \A c \in Conns : WF_vars(Listener(c)) /\ WF_vars(Sender(c))
  /\ \A t \in Topics : WF_vars(AttemptClosing(t))

LiveSpec == Spec /\ Fairness

-----------------------------------------------------------------------------
\* As long as no attempt was given up while a client held its batch, a batch
\* is only ever completed by the ack of a client that was sent that very
\* batch, although handleAckOrError hands an ack to whichever attempt waits on
\* the topic: connections that come and go one after the other leave no stale
\* ack behind.
AckIsForBatch == misled = {}

\* Once its listener has returned, no map of the server names a connection:
\* a close() that a timeout or the sender ran earlier may have been
\* overtaken by a listen command, but the listener's own deferred close() has
\* the last word.
ClosedIsForgotten ==
  \A c \in Conns :
    proc[L(c)].at = "gone" =>
      /\ c \notin server.connections \cup server.replyMap
      /\ \A t \in Topics : c \notin server.topicMap[t]

\* Every connection that listens on the topic is closed or has lost its client.
Abandoned(t) ==
  \A c \in Conns : t \in conn[c].topics => ~conn[c].up \/ conn[c].closed

\* attemptBatch does not wait for ever for the answer of clients that are all
\* gone: it gives up, a late answer ends it, or a new client listens.  A batch
\* may still be taken by a sender after the listener's close() has cycled the
\* topic; it is the sender's own close() that then wakes the attempt.
WaiterWoken ==
  \A t \in Topics :
    (attempt[t].at = "wait" /\ Abandoned(t)) ~> (attempt[t].at # "wait" \/ ~Abandoned(t))

\* The two broadcasting loops, each of which serves every topic and every
\* connection, are not held up for good by connections that stay open: each
\* send is taken, unless it is to a connection closed after the snapshot.
BroadcastMovesOn ==
  LET waited == loops.todo \cup loops.replyTodo IN
  (waited # {}) ~> (waited = {} \/ \E c \in waited : conn[c].closed)

\* The comment on DistributionModeWLD, "when multiple websocket client are
\* connected for the same topic, send each event to only one of the connected
\* clients": no two clients hold the same batch.
OneClientPerBatch ==
  \A c, d \in Conns : c # d => Range(conn[c].inbox) \cap Range(conn[d].inbox) = {}
=============================================================================
