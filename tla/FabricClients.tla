---------------------------- MODULE FabricClients ----------------------------
(***************************************************************************)
(* The clients of the Fabric SDK that are kept for signers and channels    *)
(* (fabric/client), and the identity operations that renew the credentials *)
(* the clients carry.  A client carries the credentials that are in the    *)
(* user store when it is created; each wrapper creates and keeps clients   *)
(* under its mutex and drops those of a signer in SignerUpdated.           *)
(*                                                                         *)
(* Every HTTP request, and every subscription of an event stream, is a     *)
(* task.  Credentials are numbered by the enrolments of their signer, and  *)
(* a client is the number of the credentials it carries.                   *)
(***************************************************************************)
EXTENDS Naturals, Sequences, FiniteSets

CONSTANTS
  NTasks,      \* number of tasks
  Signers, Channels,
  Modes,       \* the RPC clients to consider: "ccp", "gateway"
  MaxVersion   \* bound: enrolments of a signer

Tasks == 1..NTasks

ASSUME ClientsAssumption ==
  /\ NTasks \in Nat /\ MaxVersion \in Nat \ {0} /\ Modes \subseteq {"ccp", "gateway"}
  /\ Signers # {} /\ Channels # {}

VARIABLES
  mode,      \* which RPC client RPCConnect has made
  ca,        \* what the Fabric CA knows of each signer
  creds,     \* number of the credentials in the user store, 0 if none
  idCache,   \* idClientWrapper.cache: number of the credentials, 0 if none
  clients,   \* clients per cache, signer and channel
  gw,        \* gwClients: the gateway of each signer
  netMap,    \* whether gwGatewayClients has a map for the signer
  lock,      \* the task that holds the mutex of each wrapper, 0 if free
  call,      \* the operation of each task, its signer and its channel
  pc, todo,  \* where the task is, and the caches or listeners still to go through
  got,       \* the client the task has, or is creating
  floor,     \* the last enrolment acknowledged when the task started
  returned   \* the last enrolment that was acknowledged

ids   == <<ca, creds, idCache>>
kept  == <<clients, gw, netMap>>
task  == <<call, pc, todo, got, floor>>
vars  == <<mode, ids, kept, lock, task, returned>>

Caches   == {"channel", "network", "ledger", "event"}
Wrappers == {"rpc", "ledger", "event"}
Ops      == {"invoke", "query", "strong", "ledger", "subscribe", "get", "register",
             "enroll", "reenroll", "revoke"}
Versions == 0..MaxVersion
NoClient == 0
Calls    == [op : Ops, signer : Signers, channel : Channels]
NoCall   == CHOOSE c \in Calls : TRUE

TypeOK ==
  /\ mode \in Modes /\ ca \in [Signers -> {"unknown", "registered", "revoked"}]
  /\ creds \in [Signers -> Versions] /\ idCache \in [Signers -> Versions]
  /\ clients \in [Caches -> [Signers -> [Channels -> Versions]]]
  /\ gw \in [Signers -> Versions] /\ netMap \in [Signers -> BOOLEAN]
  /\ lock \in [Wrappers -> 0..NTasks] /\ call \in [Tasks -> Calls]
  /\ pc \in [Tasks -> {"new", "acquire", "create", "use", "ca", "notify", "look",
                       "registered", "done"}]
  /\ todo \in [Tasks -> Seq(Caches \cup Wrappers)] /\ got \in [Tasks -> Versions]
  /\ floor \in [Tasks -> Versions]
  /\ returned \in [Signers -> Versions]

\* The CA and the user store have outlived earlier processes.
Init ==
  /\ mode \in Modes /\ ca \in [Signers -> {"unknown", "registered"}]
  /\ creds \in {f \in [Signers -> {0, 1}] : \A s \in Signers : f[s] = 1 => ca[s] = "registered"}
  /\ idCache = [s \in Signers |-> 0] /\ returned = creds
  /\ clients = [k \in Caches |-> [s \in Signers |-> [c \in Channels |-> NoClient]]]
  /\ gw = [s \in Signers |-> NoClient] /\ netMap = [s \in Signers |-> FALSE]
  /\ lock = [w \in Wrappers |-> 0] /\ call = [t \in Tasks |-> NoCall]
  /\ pc = [t \in Tasks |-> "new"] /\ todo = [t \in Tasks |-> <<>>]
  /\ got = [t \in Tasks |-> NoClient] /\ floor = [t \in Tasks |-> 0]

Signer(t)  == call[t].signer
Channel(t) == call[t].channel
Go(t, p)   == pc' = [pc EXCEPT ![t] = p]

\* A task that has been answered is forgotten.
Finish(t) ==
  /\ Go(t, "done") /\ call' = [call EXCEPT ![t] = NoCall]
  /\ todo' = [todo EXCEPT ![t] = <<>>] /\ got' = [got EXCEPT ![t] = NoClient]
  /\ floor' = [floor EXCEPT ![t] = 0]

-----------------------------------------------------------------------------
(* Requests.                                                               *)

\* The wrapper a cache belongs to, and with it the mutex.
WrapperOf(k) == IF k \in {"channel", "network"} THEN "rpc" ELSE k

\* The clients the RPC client gets for an operation, in turn.
ClientsFor(op) ==
  CASE op = "invoke"    -> IF mode = "ccp" THEN <<"channel">> ELSE <<"network">>
    [] op = "query"     -> <<"channel">>
    [] op = "strong"    -> IF mode = "ccp" THEN <<"channel">> ELSE <<"channel", "network">>
    [] op = "ledger"    -> <<"ledger">>
    [] op = "subscribe" -> <<"event">>
    [] OTHER            -> <<>>

\* Tasks differ only in their calls, so they start in order.
Start(t) ==
  /\ pc[t] = "new" /\ (t > 1 => pc[t - 1] # "new")
  /\ \E c \in Calls :
       /\ call' = [call EXCEPT ![t] = c]
       /\ floor' = [floor EXCEPT ![t] = returned[c.signer]]
       /\ todo' = [todo EXCEPT ![t] = ClientsFor(c.op)]
       /\ Go(t, IF ClientsFor(c.op) # <<>> THEN "acquire"
                ELSE IF c.op = "get" THEN "look" ELSE "ca")
  /\ UNCHANGED <<mode, ids, kept, lock, got, returned>>

-----------------------------------------------------------------------------
(* Getting a client.  The mutex is held from the look-up to the end of the *)
(* creation.                                                               *)

Found(t, cl) ==
  /\ got' = [got EXCEPT ![t] = cl] /\ todo' = [todo EXCEPT ![t] = Tail(@)]
  /\ Go(t, IF Len(todo[t]) > 1 THEN "acquire" ELSE "use") /\ UNCHANGED lock

\* The SDK takes the credentials for a new client from the user store.
CreateWith(t, ver) ==
  /\ got' = [got EXCEPT ![t] = ver] /\ Go(t, "create")
  /\ lock' = [lock EXCEPT ![WrapperOf(Head(todo[t]))] = t] /\ UNCHANGED todo

LookUp(t, k) ==
  LET cl == clients[k][Signer(t)][Channel(t)]
  IN IF cl # NoClient THEN Found(t, cl) ELSE CreateWith(t, creds[Signer(t)])

Acquire(t, k) == /\ pc[t] = "acquire" /\ Head(todo[t]) = k
                 /\ lock[WrapperOf(k)] = 0

\* The identity is looked up first, in a cache that no update empties; only its
\* identifier is used.
GetSigningIdentity(s) ==
  idCache' = IF idCache[s] # 0 THEN idCache ELSE [idCache EXCEPT ![s] = creds[s]]

CCPGetChannelClient(t) ==
  /\ mode = "ccp" /\ Acquire(t, "channel") /\ GetSigningIdentity(Signer(t))
  /\ IF idCache'[Signer(t)] = 0
     THEN Finish(t) /\ UNCHANGED lock
     ELSE LookUp(t, "channel") /\ UNCHANGED <<call, floor>>
  /\ UNCHANGED <<mode, ca, creds, kept, returned>>

GWGetChannelClient(t) ==
  /\ mode = "gateway" /\ Acquire(t, "channel") /\ LookUp(t, "channel")
  /\ UNCHANGED <<mode, ids, kept, call, floor, returned>>

\* Without a map for the signer a gateway is created, and a network from it;
\* otherwise a missing network is created from the gateway that is there.
GetGatewayClient(t) ==
  /\ Acquire(t, "network")
  /\ LET s == Signer(t) IN
       IF ~netMap[s] THEN CreateWith(t, creds[s])
       ELSE IF clients["network"][s][Channel(t)] # NoClient
            THEN Found(t, clients["network"][s][Channel(t)])
            ELSE CreateWith(t, gw[s])
  /\ UNCHANGED <<mode, ids, kept, call, floor, returned>>

GetLedgerClient(t) ==
  /\ Acquire(t, "ledger") /\ LookUp(t, "ledger")
  /\ UNCHANGED <<mode, ids, kept, call, floor, returned>>

GetEventClient(t) ==
  /\ Acquire(t, "event") /\ LookUp(t, "event")
  /\ UNCHANGED <<mode, ids, kept, call, floor, returned>>

Unlock(t) == lock' = [lock EXCEPT ![WrapperOf(Head(todo[t]))] = 0]

\* The client is created and kept.
Created(t) ==
  /\ pc[t] = "create" /\ got[t] # 0
  /\ LET k == Head(todo[t])  s == Signer(t) IN
       /\ clients' = [clients EXCEPT ![k][s][Channel(t)] = got[t]]
       /\ gw' = IF k = "network" /\ ~netMap[s] THEN [gw EXCEPT ![s] = got[t]] ELSE gw
       /\ netMap' = IF k = "network" THEN [netMap EXCEPT ![s] = TRUE] ELSE netMap
  /\ todo' = [todo EXCEPT ![t] = Tail(@)] /\ Unlock(t)
  /\ Go(t, IF Len(todo[t]) > 1 THEN "acquire" ELSE "use")
  /\ UNCHANGED <<mode, ids, call, got, floor, returned>>

\* The mutex is not given back when the creation fails.
FailedStillLocked(t) ==
  /\ pc[t] = "create" /\ Finish(t)
  /\ UNCHANGED <<mode, ids, kept, lock, returned>>

\* The creation fails, always so without credentials; the gateway may be kept
\* although its network could not be created.
CreationFailed(t) ==
  /\ pc[t] = "create" /\ Finish(t) /\ Unlock(t)
  /\ LET s == Signer(t)  new == Head(todo[t]) = "network" /\ ~netMap[s] /\ got[t] # 0
     IN \/ UNCHANGED <<gw, netMap>>
        \/ /\ new /\ gw' = [gw EXCEPT ![s] = got[t]]
           /\ netMap' = [netMap EXCEPT ![s] = TRUE]
  /\ UNCHANGED <<mode, ids, clients, returned>>

-----------------------------------------------------------------------------
(* Using it.                                                               *)

Use(t, Op) == pc[t] = "use" /\ call[t].op \in Op /\ Finish(t)

CCPInvoke(t) ==
  /\ mode = "ccp" /\ Use(t, {"invoke"})
  /\ UNCHANGED <<mode, ids, kept, lock, returned>>

\* The identity is looked up when the transaction is through.
GWInvoke(t) ==
  /\ mode = "gateway" /\ Use(t, {"invoke"}) /\ GetSigningIdentity(Signer(t))
  /\ UNCHANGED <<mode, ca, creds, kept, lock, returned>>

QueryChaincode(t) ==
  /\ Use(t, {"query", "strong"})
  /\ UNCHANGED <<mode, ids, kept, lock, returned>>

QueryLedger(t) ==
  /\ Use(t, {"ledger"})
  /\ UNCHANGED <<mode, ids, kept, lock, returned>>

\* The registration keeps the client it was made with.
SubscribeEvent(t) ==
  /\ pc[t] = "use" /\ call[t].op = "subscribe"
  /\ (Go(t, "registered") /\ UNCHANGED <<call, todo, got, floor>>) \/ Finish(t)
  /\ UNCHANGED <<mode, ids, kept, lock, returned>>

Unregister(t) ==
  /\ pc[t] = "registered" /\ Finish(t)
  /\ UNCHANGED <<mode, ids, kept, lock, returned>>

-----------------------------------------------------------------------------
(* Identities.  Every CA operation may be refused: a bad request, an error *)
(* of the CA.                                                              *)

CACall(t, op) == pc[t] = "ca" /\ call[t].op = op

Refused(t) ==
  /\ pc[t] = "ca" /\ Finish(t)
  /\ UNCHANGED <<mode, ids, kept, lock, returned>>

Register(t) ==
  /\ CACall(t, "register") /\ ca[Signer(t)] = "unknown"
  /\ ca' = [ca EXCEPT ![Signer(t)] = "registered"] /\ Finish(t)
  /\ UNCHANGED <<mode, creds, idCache, kept, lock, returned>>

\* The CA client puts the new credentials into the user store.
NewCredentials(t) ==
  LET s == Signer(t) IN
    /\ ca[s] = "registered" /\ creds[s] < MaxVersion
    /\ creds' = [creds EXCEPT ![s] = @ + 1]
    /\ got' = [got EXCEPT ![t] = creds[s] + 1]
    /\ todo' = [todo EXCEPT ![t] = <<"ledger", "event", "rpc">>] /\ Go(t, "notify")
    /\ UNCHANGED <<mode, ca, idCache, kept, lock, call, floor, returned>>

Enroll(t) == CACall(t, "enroll") /\ NewCredentials(t)

\* Re-enrolment is signed with the credentials there are.
Reenroll(t) == CACall(t, "reenroll") /\ creds[Signer(t)] # 0 /\ NewCredentials(t)

Revoke(t) ==
  /\ CACall(t, "revoke") /\ ca[Signer(t)] = "registered"
  /\ ca' = [ca EXCEPT ![Signer(t)] = "revoked"] /\ Finish(t)
  /\ UNCHANGED <<mode, creds, idCache, kept, lock, returned>>

\* The certificate is taken from the cache of identities.
GetCached(t) ==
  /\ pc[t] = "look" /\ Go(t, "use") /\ GetSigningIdentity(Signer(t))
  /\ got' = [got EXCEPT ![t] = idCache'[Signer(t)]]
  /\ UNCHANGED <<mode, ca, creds, kept, lock, call, todo, floor, returned>>

\* The certificate shown is read from the user store.
Get(t) ==
  /\ pc[t] = "look" /\ Go(t, "use")
  /\ got' = [got EXCEPT ![t] = creds[Signer(t)]]
  /\ UNCHANGED <<mode, ids, kept, lock, call, todo, floor, returned>>

IdentityShown(t) ==
  /\ Use(t, {"get"})
  /\ UNCHANGED <<mode, ids, kept, lock, returned>>

\* SignerUpdated of each wrapper: what it drops.
Dropped(k, s) == [clients EXCEPT ![k][s] = [c \in Channels |-> NoClient]]

LedgerSignerUpdated(s) == clients' = Dropped("ledger", s) /\ UNCHANGED <<gw, netMap>>

EventSignerUpdated(s) == clients' = Dropped("event", s) /\ UNCHANGED <<gw, netMap>>

CCPSignerUpdated(s) == clients' = Dropped("channel", s) /\ UNCHANGED <<gw, netMap>>

\* The networks of the gateway are kept.
GWKeepsNetworks(s) ==
  /\ clients' = Dropped("channel", s) /\ gw' = [gw EXCEPT ![s] = NoClient]
  /\ UNCHANGED netMap

GWSignerUpdated(s) ==
  /\ clients' = [Dropped("channel", s) EXCEPT !["network"][s] = [c \in Channels |-> NoClient]]
  /\ gw' = [gw EXCEPT ![s] = NoClient] /\ netMap' = [netMap EXCEPT ![s] = FALSE]

\* The RPC client is not told.
NotifyTwo(t) ==
  /\ pc[t] = "notify" /\ lock[Head(todo[t])] = 0
  /\ LET s == Signer(t)  w == Head(todo[t]) IN
       /\ CASE w = "ledger" -> LedgerSignerUpdated(s)
            [] w = "event"  -> EventSignerUpdated(s)
            [] w = "rpc"    -> UNCHANGED kept
       /\ returned' = IF Len(todo[t]) = 1 /\ got[t] > returned[s]
                      THEN [returned EXCEPT ![s] = got[t]] ELSE returned
  /\ IF Len(todo[t]) = 1 THEN Finish(t)
     ELSE todo' = [todo EXCEPT ![t] = Tail(@)] /\ UNCHANGED <<call, pc, got, floor>>
  /\ UNCHANGED <<mode, ids, lock>>

\* The listeners are told in turn, each under its mutex; then the enrolment is
\* acknowledged.
NotifySignerUpdate(t) ==
  /\ pc[t] = "notify" /\ lock[Head(todo[t])] = 0
  /\ LET s == Signer(t)  w == Head(todo[t]) IN
       /\ CASE w = "ledger" -> LedgerSignerUpdated(s)
            [] w = "event"  -> EventSignerUpdated(s)
            [] w = "rpc" /\ mode = "ccp"     -> CCPSignerUpdated(s)
            [] w = "rpc" /\ mode = "gateway" -> GWSignerUpdated(s)
       /\ returned' = IF Len(todo[t]) = 1 /\ got[t] > returned[s]
                      THEN [returned EXCEPT ![s] = got[t]] ELSE returned
  /\ IF Len(todo[t]) = 1 THEN Finish(t)
     ELSE todo' = [todo EXCEPT ![t] = Tail(@)] /\ UNCHANGED <<call, pc, got, floor>>
  /\ UNCHANGED <<mode, ids, lock>>

Step(t) ==
  \/ CCPGetChannelClient(t) \/ GWGetChannelClient(t) \/ GetGatewayClient(t)
  \/ GetLedgerClient(t) \/ GetEventClient(t) \/ Created(t) \/ CreationFailed(t)
  \/ CCPInvoke(t) \/ GWInvoke(t) \/ QueryChaincode(t) \/ QueryLedger(t)
  \/ SubscribeEvent(t) \/ IdentityShown(t)
  \/ Refused(t) \/ Register(t) \/ Enroll(t) \/ Reenroll(t) \/ Revoke(t) \/ Get(t)
  \/ NotifySignerUpdate(t)

Next == \E t \in Tasks : Start(t) \/ Step(t) \/ Unregister(t)

Spec == Init /\ [][Next]_vars

\* Tasks that have started go on as long as any of them can.
LiveSpec == Spec /\ WF_vars(\E t \in Tasks : Step(t))

-----------------------------------------------------------------------------
(* Properties.                                                             *)

\* Once an enrolment or a re-enrolment has been acknowledged no client of that
\* signer carries older credentials, in any cache, even if the client was being
\* created while the credentials changed.
NoStaleClient ==
  \A s \in Signers :
    /\ \A k \in Caches, c \in Channels :
         clients[k][s][c] # NoClient => clients[k][s][c] >= returned[s]
    /\ gw[s] # NoClient => gw[s] >= returned[s]

\* A request that starts after an enrolment was acknowledged uses a client with
\* those credentials or later ones, and a look at the identity shows them.
UsesAcknowledged ==
  \A t \in Tasks : pc[t] \in {"use", "registered"} => got[t] >= floor[t]

\* Every request is answered: no failed creation keeps a mutex, and no two tasks
\* wait for each other.
TasksReturn == \A t \in Tasks : pc[t] # "new" ~> pc[t] \in {"registered", "done"}
=============================================================================
