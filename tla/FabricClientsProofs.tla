------------------------ MODULE FabricClientsProofs ------------------------
(***************************************************************************)
(* No cache keeps, and no request uses, a client with credentials older    *)
(* than those of an acknowledged enrolment: proved for any number of       *)
(* requests, signers, channels and enrolments, and for both RPC clients.   *)
(***************************************************************************)
EXTENDS FabricClients, TLAPS

\* The caches a task on its way to a client has still to go through.
Paths     == {<<"channel">>, <<"network">>, <<"channel", "network">>, <<"ledger">>, <<"event">>}
\* The listeners an enrolment has still to tell.
Listeners == {<<"ledger", "event", "rpc">>, <<"event", "rpc">>, <<"rpc">>}

TodoOK ==
  \A t \in Tasks :
    /\ pc[t] \in {"acquire", "create"} => todo[t] \in Paths
    /\ pc[t] = "notify" => todo[t] \in Listeners

\* A client is created under the mutex of its wrapper.
Locked == \A t \in Tasks : pc[t] = "create" => lock[WrapperOf(Head(todo[t]))] = t

\* What is acknowledged, or about to be, is in the user store.
Enrolled ==
  /\ \A s \in Signers : returned[s] <= creds[s]
  /\ \A t \in Tasks : pc[t] = "notify" => got[t] <= creds[Signer(t)]
  /\ \A t \in Tasks : floor[t] <= returned[Signer(t)]

\* Only the gateway client has networks, and it has none without a gateway.
Gateways ==
  /\ \A s \in Signers : netMap[s] => gw[s] # NoClient
  /\ mode = "ccp" =>
       /\ \A s \in Signers : gw[s] = NoClient
       /\ \A s \in Signers, c \in Channels : clients["network"][s][c] = NoClient
       /\ \A t \in Tasks : pc[t] \in {"acquire", "create"} =>
            todo[t] \notin {<<"network">>, <<"channel", "network">>}

\* A client that is being created is as good as one that is kept.
Creating ==
  \A t \in Tasks : pc[t] = "create" /\ got[t] # NoClient => got[t] >= returned[Signer(t)]

\* A wrapper that has been told of an enrolment keeps and creates no client of
\* that signer with older credentials.
Told(w, ver, s) ==
  /\ \A c \in Channels : clients[w][s][c] # NoClient => clients[w][s][c] >= ver
  /\ \A t \in Tasks :
       pc[t] = "create" /\ Head(todo[t]) = w /\ Signer(t) = s /\ got[t] # NoClient => got[t] >= ver

Notified ==
  \A t \in Tasks : pc[t] = "notify" =>
    /\ todo[t] # <<"ledger", "event", "rpc">> => Told("ledger", got[t], Signer(t))
    /\ todo[t] = <<"rpc">> => Told("event", got[t], Signer(t))

IInv == /\ TypeOK /\ TodoOK /\ Locked /\ Enrolled /\ Gateways
        /\ NoStaleClient /\ Creating /\ Notified /\ UsesAcknowledged

LEMMA Tuples ==
  /\ \A p \in Paths : /\ p # <<>> /\ Len(p) \in {1, 2} /\ p \in Seq(Caches \cup Wrappers)
                      /\ Head(p) \in Caches /\ WrapperOf(Head(p)) \in Wrappers
                      /\ Len(p) > 1 => p = <<"channel", "network">>
  /\ Head(<<"channel">>) = "channel" /\ Head(<<"network">>) = "network"
  /\ Head(<<"ledger">>) = "ledger" /\ Head(<<"event">>) = "event"
  /\ Head(<<"channel", "network">>) = "channel"
  /\ Tail(<<"channel", "network">>) = <<"network">>
  /\ \A p \in Paths : Tail(p) \in Seq(Caches \cup Wrappers)
  /\ \A p \in Listeners : /\ p \in Seq(Caches \cup Wrappers) /\ Tail(p) \in Seq(Caches \cup Wrappers)
                          /\ Head(p) \in Wrappers
                          /\ Len(p) = 1 <=> p = <<"rpc">>
  /\ Head(<<"rpc">>) = "rpc" /\ Head(<<"event", "rpc">>) = "event"
  /\ Head(<<"ledger", "event", "rpc">>) = "ledger"
  /\ Tail(<<"ledger", "event", "rpc">>) = <<"event", "rpc">>
  /\ Tail(<<"event", "rpc">>) = <<"rpc">>
  /\ <<>> \in Seq(Caches \cup Wrappers)
  BY DEF Paths, Listeners, Caches, Wrappers, WrapperOf

LEMMA NoCallType == NoCall \in Calls
<1>1. \E c \in Calls : TRUE
  <2>1. PICK s \in Signers, c \in Channels : TRUE
    BY ClientsAssumption, Zenon
  <2>2. [op |-> "get", signer |-> s, channel |-> c] \in Calls
    BY Zenon DEF Calls, Ops
  <2>3. QED
    BY <2>2, Zenon
<1>2. QED
  BY <1>1, Zenon DEF NoCall

LEMMA InvInit == Init => IInv
<1> SUFFICES ASSUME Init PROVE IInv
  BY Zenon
<1>1. TypeOK
  <2>1. creds \in [Signers -> Versions] /\ returned \in [Signers -> Versions]
    <3>1. creds \in [Signers -> {0, 1}] /\ returned = creds
      BY Zenon DEF Init
    <3>2. {0, 1} \subseteq Versions
      BY ClientsAssumption DEF Versions
    <3>3. QED
      BY <3>1, <3>2, Zenon
  <2>2. lock \in [Wrappers -> 0..NTasks] /\ 0 \in Versions
    BY ClientsAssumption DEF Init, Versions
  <2>3. QED
    BY <2>1, <2>2, NoCallType, Tuples, Zenon DEF Init, TypeOK, NoClient
<1>2. TodoOK /\ Locked /\ Creating /\ Notified /\ UsesAcknowledged
  BY Zenon DEF Init, TodoOK, Locked, Creating, Notified, UsesAcknowledged, Tasks
<1>3. Enrolled
  BY NoCallType DEF Init, Enrolled, Signer, Tasks, Calls
<1>4. Gateways /\ NoStaleClient
  BY Zenon DEF Init, Gateways, NoStaleClient, Tasks, Caches
<1>5. QED
  BY <1>1, <1>2, <1>3, <1>4, Zenon DEF IInv

\* A step that ends a task, and at most looks an identity up or changes what
\* the CA knows.
Ends(t) ==
  /\ Finish(t) /\ UNCHANGED <<mode, creds, kept, lock, returned>>
  /\ ca' \in [Signers -> {"unknown", "registered", "revoked"}]
  /\ idCache' \in [Signers -> Versions]

LEMMA EndsStep == ASSUME NEW t \in Tasks, IInv, Ends(t) PROVE IInv'
<1> USE DEF Ends, Finish, Go, kept
<1>1. TypeOK'
  BY ClientsAssumption, NoCallType, Tuples, SMTT(20) DEF IInv, TypeOK, NoClient, Versions
<1>2. /\ \A u \in Tasks \ {t} : /\ pc'[u] = pc[u] /\ todo'[u] = todo[u] /\ got'[u] = got[u]
                                /\ call'[u] = call[u] /\ floor'[u] = floor[u]
      /\ pc'[t] = "done" /\ call'[t] = NoCall /\ floor'[t] = 0
  BY Zenon DEF IInv, TypeOK
<1>3. TodoOK'
  BY <1>2, Zenon DEF IInv, TodoOK
<1>4. Locked'
  BY <1>2 DEF IInv, Locked
<1>5. Enrolled'
  BY <1>2, NoCallType, SMTT(20) DEF IInv, TypeOK, Enrolled, Signer, Calls, Versions
<1>6. Gateways' /\ NoStaleClient'
  BY <1>2 DEF IInv, Gateways, NoStaleClient
<1>7. Creating' /\ UsesAcknowledged'
  BY <1>2, Zenon DEF IInv, Creating, UsesAcknowledged, Signer
<1>8. Notified'
  BY <1>2 DEF IInv, Notified, Told, Signer
<1>9. QED
  BY <1>1, <1>3, <1>4, <1>5, <1>6, <1>7, <1>8, Zenon DEF IInv

LEMMA StartStep == ASSUME NEW t \in Tasks, IInv, Start(t) PROVE IInv'
<1>1. PICK c \in Calls :
        /\ call' = [call EXCEPT ![t] = c]
        /\ floor' = [floor EXCEPT ![t] = returned[c.signer]]
        /\ todo' = [todo EXCEPT ![t] = ClientsFor(c.op)]
        /\ Go(t, IF ClientsFor(c.op) # <<>> THEN "acquire"
                 ELSE IF c.op = "get" THEN "look" ELSE "ca")
  BY Zenon DEF Start
<1>2. UNCHANGED <<mode, ca, creds, idCache, clients, gw, netMap, lock, got, returned>>
  BY Zenon DEF Start, ids, kept
<1>3. /\ ClientsFor(c.op) \in Paths \cup {<<>>}
      /\ mode = "ccp" => ClientsFor(c.op) \notin {<<"network">>, <<"channel", "network">>}
  BY Zenon DEF ClientsFor, Paths
<1>4. pc'[t] \in {"acquire", "look", "ca"} /\ pc' \in [Tasks -> {"new", "acquire", "create",
        "use", "ca", "notify", "look", "registered", "done"}]
  BY <1>1, Zenon DEF Go, IInv, TypeOK
<1>5. pc'[t] = "acquire" => todo'[t] \in Paths /\ todo'[t] = ClientsFor(c.op)
  BY <1>1, <1>3, Zenon DEF Go, IInv, TypeOK
<1>6. \A u \in Tasks \ {t} : /\ pc'[u] = pc[u] /\ todo'[u] = todo[u] /\ got'[u] = got[u]
                             /\ call'[u] = call[u] /\ floor'[u] = floor[u]
  BY <1>1, <1>2, Zenon DEF Go, IInv, TypeOK
<1>7. call'[t] = c /\ floor'[t] = returned[c.signer] /\ c.signer \in Signers
  BY <1>1, Zenon DEF IInv, TypeOK, Calls
<1>8. TypeOK'
  <2>1. todo' \in [Tasks -> Seq(Caches \cup Wrappers)]
    BY <1>1, <1>3, Tuples, Zenon DEF IInv, TypeOK
  <2>2. call' \in [Tasks -> Calls] /\ floor' \in [Tasks -> Versions]
    BY <1>1, <1>7, Zenon DEF IInv, TypeOK
  <2>3. QED
    BY <1>2, <1>4, <2>1, <2>2, Zenon DEF IInv, TypeOK
<1>9. TodoOK' /\ Locked' /\ Creating' /\ UsesAcknowledged'
  BY <1>2, <1>4, <1>5, <1>6 DEF IInv, TodoOK, Locked, Creating, UsesAcknowledged, Signer
<1>10. Enrolled'
  <2>1. returned[c.signer] <= returned[c.signer]
    BY <1>7, ClientsAssumption DEF IInv, TypeOK, Versions
  <2>2. QED
    BY <1>2, <1>4, <1>6, <1>7, <2>1 DEF IInv, Enrolled, Signer
<1>11. Gateways' /\ NoStaleClient'
  BY <1>2, <1>3, <1>4, <1>5, <1>6 DEF IInv, Gateways, NoStaleClient
<1>12. Notified'
  BY <1>2, <1>4, <1>6 DEF IInv, Notified, Told, Signer
<1>13. QED
  BY <1>8, <1>9, <1>10, <1>11, <1>12, Zenon DEF IInv

\* A client that is kept is taken for the task.
LEMMA FoundStep ==
  ASSUME NEW t \in Tasks, NEW k \in Caches, IInv, pc[t] = "acquire", Head(todo[t]) = k,
         clients[k][Signer(t)][Channel(t)] # NoClient,
         Found(t, clients[k][Signer(t)][Channel(t)]),
         UNCHANGED <<mode, ca, creds, kept, call, floor, returned>>,
         idCache' \in [Signers -> Versions]
  PROVE  IInv'
<1> DEFINE cl == clients[k][Signer(t)][Channel(t)]
<1>1. UNCHANGED <<mode, ca, creds, clients, gw, netMap, lock, call, floor, returned>>
  BY Zenon DEF Found, kept
<1>2. call[t] \in Calls /\ Signer(t) \in Signers /\ Channel(t) \in Channels
  BY Zenon DEF IInv, TypeOK, Signer, Channel, Calls
<1>3. cl \in Versions /\ cl >= returned[Signer(t)]
  BY <1>2 DEF IInv, TypeOK, NoStaleClient
<1>4. todo[t] \in Paths /\ todo'[t] = Tail(todo[t])
  BY Zenon DEF Found, IInv, TypeOK, TodoOK
<1>5. \/ pc'[t] = "use"
      \/ pc'[t] = "acquire" /\ todo[t] = <<"channel", "network">> /\ todo'[t] = <<"network">>
  BY <1>4, Tuples, Zenon DEF Found, Go, IInv, TypeOK
<1>6. \A u \in Tasks \ {t} : /\ pc'[u] = pc[u] /\ todo'[u] = todo[u] /\ got'[u] = got[u]
                             /\ call'[u] = call[u] /\ floor'[u] = floor[u]
  BY <1>1, Zenon DEF Found, Go, IInv, TypeOK
<1>7. got'[t] = cl
  BY Zenon DEF Found, IInv, TypeOK
<1>8. TypeOK'
  <2>1. pc' \in [Tasks -> {"new", "acquire", "create", "use", "ca", "notify", "look",
                           "registered", "done"}]
    BY Zenon DEF Found, Go, IInv, TypeOK
  <2>2. todo' \in [Tasks -> Seq(Caches \cup Wrappers)]
    BY <1>4, Tuples, Zenon DEF Found, IInv, TypeOK
  <2>3. got' \in [Tasks -> Versions]
    BY <1>3, Zenon DEF Found, IInv, TypeOK
  <2>4. QED
    BY <1>1, <2>1, <2>2, <2>3, Zenon DEF IInv, TypeOK
<1>9. TodoOK' /\ Locked' /\ Creating'
  BY <1>1, <1>5, <1>6 DEF IInv, TodoOK, Locked, Creating, Signer, Paths
<1>10. UsesAcknowledged'
  <2>1. cl >= floor[t]
    BY <1>2, <1>3 DEF IInv, TypeOK, Enrolled, Versions
  <2>2. QED
    BY <1>1, <1>5, <1>6, <1>7, <2>1, Zenon DEF IInv, UsesAcknowledged
<1>11. Enrolled'
  BY <1>1, <1>5, <1>6, Zenon DEF IInv, Enrolled, Signer
<1>12. Gateways' /\ NoStaleClient'
  BY <1>1, <1>5, <1>6, Zenon DEF IInv, Gateways, NoStaleClient
<1>13. Notified'
  BY <1>1, <1>5, <1>6 DEF IInv, Notified, Told, Signer
<1>14. QED
  BY <1>8, <1>9, <1>10, <1>11, <1>12, <1>13, Zenon DEF IInv

\* The mutex is taken and a client of at least the acknowledged credentials is
\* created, or one without credentials, which is going to fail.
LEMMA CreateStep ==
  ASSUME NEW t \in Tasks, NEW k \in Caches, NEW ver \in Versions,
         IInv, pc[t] = "acquire", Head(todo[t]) = k, lock[WrapperOf(k)] = 0,
         ver # NoClient => ver >= returned[Signer(t)],
         k \in {"ledger", "event"} => ver = creds[Signer(t)],
         CreateWith(t, ver),
         UNCHANGED <<mode, ca, creds, kept, call, floor, returned>>,
         idCache' \in [Signers -> Versions]
  PROVE  IInv'
<1>1. UNCHANGED <<mode, ca, creds, clients, gw, netMap, todo, call, floor, returned>>
  BY Zenon DEF CreateWith, kept
<1>2. WrapperOf(k) \in Wrappers /\ todo[t] \in Paths
  BY Zenon DEF IInv, TodoOK, WrapperOf, Wrappers, Caches
<1>3. lock' = [lock EXCEPT ![WrapperOf(k)] = t]
  BY Zenon DEF CreateWith
<1>4. /\ pc'[t] = "create" /\ got'[t] = ver
      /\ \A u \in Tasks \ {t} : pc'[u] = pc[u] /\ got'[u] = got[u]
  BY Zenon DEF CreateWith, Go, IInv, TypeOK
<1>5. TypeOK'
  <2>1. pc' \in [Tasks -> {"new", "acquire", "create", "use", "ca", "notify", "look",
                           "registered", "done"}]
    BY Zenon DEF CreateWith, Go, IInv, TypeOK
  <2>2. lock' \in [Wrappers -> 0..NTasks] /\ got' \in [Tasks -> Versions]
    <3>1. t \in 0..NTasks
      BY ClientsAssumption DEF Tasks
    <3>2. QED
      BY <1>3, <3>1, Zenon DEF CreateWith, IInv, TypeOK
  <2>3. QED
    BY <1>1, <2>1, <2>2, Zenon DEF IInv, TypeOK
<1>6. TodoOK'
  BY <1>1, <1>2, <1>4, Zenon DEF IInv, TodoOK
<1>7. Locked'
  <2>1. lock'[WrapperOf(k)] = t
    BY <1>2, <1>3, Zenon DEF IInv, TypeOK
  <2>2. ASSUME NEW u \in Tasks \ {t}, pc'[u] = "create" PROVE lock'[WrapperOf(Head(todo[u]))] = u
    <3>1. lock[WrapperOf(Head(todo[u]))] = u /\ u # 0
      BY <1>4, <2>2 DEF IInv, Locked, Tasks
    <3>2. WrapperOf(Head(todo[u])) \in Wrappers
      BY <1>4, <2>2, Tuples, Zenon DEF IInv, TodoOK
    <3>3. QED
      BY <1>3, <3>1, <3>2, Zenon DEF IInv, TypeOK
  <2>3. QED
    BY <1>1, <2>1, <2>2, Zenon DEF Locked
<1>8. Enrolled' /\ UsesAcknowledged'
  BY <1>1, <1>4, Zenon DEF IInv, Enrolled, UsesAcknowledged, Signer
<1>9. Gateways' /\ NoStaleClient'
  BY <1>1, <1>4, Zenon DEF IInv, Gateways, NoStaleClient
<1>10. Creating'
  BY <1>1, <1>4, Zenon DEF IInv, Creating, Signer
<1>11. Notified'
  <2> SUFFICES ASSUME NEW n \in Tasks, pc'[n] = "notify",
                      NEW w \in {"ledger", "event"}, Told(w, got[n], Signer(n))
               PROVE  Told(w, got[n], Signer(n))'
    BY <1>1, <1>4, Zenon DEF IInv, Notified, Signer
  <2>1. pc[n] = "notify" /\ got'[n] = got[n] /\ got[n] <= creds[Signer(n)]
    BY <1>4, Zenon DEF IInv, Enrolled
  <2>2. ASSUME Head(todo[t]) = w, Signer(t) = Signer(n) PROVE ver >= got[n]
    <3>1. ver = creds[Signer(n)] /\ Signer(n) \in Signers
      BY <2>2, Zenon DEF IInv, TypeOK, Calls, Signer
    <3>2. QED
      BY <2>1, <3>1, ClientsAssumption, Zenon DEF IInv, TypeOK, Versions
  <2>3. QED
    BY <1>1, <1>4, <2>1, <2>2 DEF Told, Signer
<1>12. QED
  BY <1>5, <1>6, <1>7, <1>8, <1>9, <1>10, <1>11, Zenon DEF IInv

LEMMA IdentityLookUp ==
  ASSUME NEW s \in Signers, TypeOK, GetSigningIdentity(s) PROVE idCache' \in [Signers -> Versions]
  BY Zenon DEF TypeOK, GetSigningIdentity

LEMMA LookUpStep ==
  ASSUME NEW t \in Tasks, NEW k \in Caches, IInv, Acquire(t, k), LookUp(t, k),
         UNCHANGED <<mode, ca, creds, kept, call, floor, returned>>,
         idCache' \in [Signers -> Versions]
  PROVE  IInv'
<1>1. pc[t] = "acquire" /\ Head(todo[t]) = k /\ lock[WrapperOf(k)] = 0
  BY Zenon DEF Acquire
<1>2. Signer(t) \in Signers /\ creds[Signer(t)] \in Versions /\ creds[Signer(t)] >= returned[Signer(t)]
  BY ClientsAssumption, Zenon DEF IInv, TypeOK, Enrolled, Signer, Calls, Versions
<1>3. CASE clients[k][Signer(t)][Channel(t)] # NoClient
  BY <1>1, <1>3, FoundStep, Zenon DEF LookUp
<1>4. CASE clients[k][Signer(t)][Channel(t)] = NoClient
  <2>1. CreateWith(t, creds[Signer(t)])
    BY <1>4, Zenon DEF LookUp
  <2>2. QED
    BY <1>1, <1>2, <2>1, CreateStep, Zenon
<1>5. QED
  BY <1>3, <1>4, Zenon

LEMMA ChannelClientStep ==
  ASSUME NEW t \in Tasks, IInv, CCPGetChannelClient(t) \/ GWGetChannelClient(t) PROVE IInv'
<1>0. "channel" \in Caches /\ Signer(t) \in Signers
  BY Zenon DEF Caches, IInv, TypeOK, Signer, Calls
<1>1. CASE GWGetChannelClient(t)
  BY <1>0, <1>1, LookUpStep, Zenon DEF GWGetChannelClient, ids, IInv, TypeOK
<1>2. CASE CCPGetChannelClient(t)
  <2>1. idCache' \in [Signers -> Versions]
    BY <1>0, <1>2, IdentityLookUp, Zenon DEF CCPGetChannelClient, IInv
  <2>2. CASE idCache'[Signer(t)] = 0
    BY <1>2, <2>1, <2>2, EndsStep, Zenon DEF CCPGetChannelClient, Ends, IInv, TypeOK
  <2>3. CASE idCache'[Signer(t)] # 0
    BY <1>0, <1>2, <2>1, <2>3, LookUpStep, Zenon DEF CCPGetChannelClient
  <2>4. QED
    BY <2>2, <2>3, Zenon
<1>3. QED
  BY <1>1, <1>2, Zenon

LEMMA OtherClientStep ==
  ASSUME NEW t \in Tasks, IInv, GetLedgerClient(t) \/ GetEventClient(t) PROVE IInv'
<1>1. "ledger" \in Caches /\ "event" \in Caches
  BY Zenon DEF Caches
<1>2. QED
  BY <1>1, LookUpStep, Zenon DEF GetLedgerClient, GetEventClient, ids, IInv, TypeOK

LEMMA GatewayClientStep == ASSUME NEW t \in Tasks, IInv, GetGatewayClient(t) PROVE IInv'
<1> DEFINE s == Signer(t)
           cl == clients["network"][s][Channel(t)]
<1>1. /\ pc[t] = "acquire" /\ Head(todo[t]) = "network" /\ lock[WrapperOf("network")] = 0
      /\ UNCHANGED <<mode, ca, creds, idCache, kept, call, floor, returned>>
      /\ "network" \in Caches
  BY Zenon DEF GetGatewayClient, Acquire, ids, Caches
<1>2. s \in Signers /\ creds[s] \in Versions /\ gw[s] \in Versions /\ creds[s] >= returned[s]
  BY ClientsAssumption, Zenon DEF IInv, TypeOK, Enrolled, Signer, Calls, Versions
<1>3. idCache' \in [Signers -> Versions]
  BY <1>1, Zenon DEF IInv, TypeOK
<1>4. CASE ~netMap[s]
  BY <1>1, <1>2, <1>3, <1>4, CreateStep, Zenon DEF GetGatewayClient
<1>5. CASE netMap[s] /\ cl # NoClient
  BY <1>1, <1>3, <1>5, FoundStep, Zenon DEF GetGatewayClient
<1>6. CASE netMap[s] /\ cl = NoClient
  <2>1. gw[s] >= returned[s]
    BY <1>2, <1>6, Zenon DEF IInv, Gateways, NoStaleClient
  <2>2. QED
    BY <1>1, <1>2, <1>3, <1>6, <2>1, CreateStep, Zenon DEF GetGatewayClient
<1>7. QED
  BY <1>4, <1>5, <1>6, Zenon

\* Giving the mutex back leaves those of the other tasks alone.
LEMMA UnlockStep ==
  ASSUME NEW t \in Tasks, IInv, pc[t] = "create", Unlock(t)
  PROVE  /\ lock' \in [Wrappers -> 0..NTasks]
         /\ \A u \in Tasks \ {t} : pc[u] = "create" => lock'[WrapperOf(Head(todo[u]))] = u
<1>1. lock[WrapperOf(Head(todo[t]))] = t /\ WrapperOf(Head(todo[t])) \in Wrappers
  BY Tuples, Zenon DEF IInv, Locked, TodoOK
<1>2. ASSUME NEW u \in Tasks \ {t}, pc[u] = "create" PROVE lock'[WrapperOf(Head(todo[u]))] = u
  <2>1. lock[WrapperOf(Head(todo[u]))] = u /\ WrapperOf(Head(todo[u])) \in Wrappers
    BY <1>2, Tuples, Zenon DEF IInv, Locked, TodoOK
  <2>2. QED
    BY <1>1, <2>1, Zenon DEF Unlock, IInv, TypeOK
<1>3. 0 \in 0..NTasks
  BY ClientsAssumption
<1>4. QED
  BY <1>1, <1>2, <1>3, Zenon DEF Unlock, IInv, TypeOK

LEMMA CreatedStep == ASSUME NEW t \in Tasks, IInv, Created(t) PROVE IInv'
<1> DEFINE k == Head(todo[t])
           s == Signer(t)
           ch == Channel(t)
<1>1. pc[t] = "create" /\ got[t] # NoClient /\ Unlock(t) /\ todo[t] \in Paths
  BY Zenon DEF Created, NoClient, IInv, TodoOK
<1>2. UNCHANGED <<mode, ca, creds, idCache, call, got, floor, returned>>
  BY Zenon DEF Created, ids
<1>3. clients' = [clients EXCEPT ![k][s][ch] = got[t]]
  BY Zenon DEF Created
<1>4. k \in Caches /\ s \in Signers /\ ch \in Channels /\ got[t] \in Versions
  BY <1>1, Tuples, Zenon DEF IInv, TypeOK, Signer, Channel, Calls
<1>5. /\ \/ gw' = gw
         \/ k = "network" /\ gw' = [gw EXCEPT ![s] = got[t]]
      /\ \/ netMap' = netMap
         \/ k = "network" /\ netMap' = [netMap EXCEPT ![s] = TRUE] /\ gw'[s] # NoClient
  BY <1>1, <1>4, Zenon DEF Created, IInv, TypeOK, Gateways
<1>6. /\ clients'[k][s][ch] = got[t]
      /\ \A j \in Caches, r \in Signers, c \in Channels :
           <<j, r, c>> # <<k, s, ch>> => clients'[j][r][c] = clients[j][r][c]
  BY <1>3, <1>4 DEF IInv, TypeOK
<1>7. \/ pc'[t] = "use"
      \/ pc'[t] = "acquire" /\ todo[t] = <<"channel", "network">> /\ todo'[t] = <<"network">>
  BY <1>1, Tuples, Zenon DEF Created, Go, IInv, TypeOK
<1>8. \A u \in Tasks \ {t} : pc'[u] = pc[u] /\ todo'[u] = todo[u]
  BY Zenon DEF Created, Go, IInv, TypeOK
<1>9. got[t] >= returned[s]
  BY <1>1, <1>4, Zenon DEF IInv, Creating
<1>10. TypeOK'
  <2>1. pc' \in [Tasks -> {"new", "acquire", "create", "use", "ca", "notify", "look",
                           "registered", "done"}]
    BY Zenon DEF Created, Go, IInv, TypeOK
  <2>2. todo' \in [Tasks -> Seq(Caches \cup Wrappers)]
    BY <1>1, Tuples, Zenon DEF Created, IInv, TypeOK
  <2>3. clients' \in [Caches -> [Signers -> [Channels -> Versions]]]
    BY <1>3, <1>4 DEF IInv, TypeOK
  <2>4. gw' \in [Signers -> Versions] /\ netMap' \in [Signers -> BOOLEAN]
    BY <1>4, <1>5, Zenon DEF IInv, TypeOK
  <2>5. lock' \in [Wrappers -> 0..NTasks]
    BY <1>1, UnlockStep, Zenon
  <2>6. QED
    BY <1>2, <2>1, <2>2, <2>3, <2>4, <2>5, Zenon DEF IInv, TypeOK
<1>11. TodoOK'
  BY <1>7, <1>8, Zenon DEF IInv, TodoOK, Paths
<1>12. Locked'
  BY <1>1, <1>7, <1>8, UnlockStep DEF Locked
<1>13. Enrolled' /\ Creating'
  BY <1>2, <1>7, <1>8, Zenon DEF IInv, Enrolled, Creating, Signer
<1>14. NoStaleClient'
  <2>1. \A r \in Signers : gw'[r] # NoClient => gw'[r] >= returned[r]
    BY <1>4, <1>5, <1>9, Zenon DEF IInv, TypeOK, NoStaleClient
  <2>2. \A j \in Caches, r \in Signers, c \in Channels :
          clients'[j][r][c] # NoClient => clients'[j][r][c] >= returned[r]
    BY <1>6, <1>9 DEF IInv, NoStaleClient
  <2>3. QED
    BY <1>2, <2>1, <2>2, Zenon DEF NoStaleClient
<1>15. Gateways'
  <2>1. \A r \in Signers : netMap'[r] => gw'[r] # NoClient
    BY <1>1, <1>4, <1>5, Zenon DEF IInv, TypeOK, Gateways
  <2>2. ASSUME mode = "ccp" PROVE k # "network"
    BY <1>1, <2>2, Tuples, Zenon DEF IInv, Gateways, Paths
  <2>3. ASSUME mode = "ccp", NEW r \in Signers
        PROVE  gw'[r] = NoClient /\ \A c \in Channels : clients'["network"][r][c] = NoClient
    <3>1. "network" \in Caches
      BY DEF Caches
    <3>2. QED
      BY <1>5, <1>6, <2>2, <2>3, <3>1 DEF IInv, Gateways
  <2>4. ASSUME mode = "ccp", NEW u \in Tasks, pc'[u] \in {"acquire", "create"}
        PROVE  todo'[u] \notin {<<"network">>, <<"channel", "network">>}
    BY <1>1, <1>7, <1>8, <2>4, Zenon DEF IInv, Gateways
  <2>5. QED
    BY <1>2, <2>1, <2>3, <2>4, Zenon DEF Gateways
<1>16. Notified'
  <2> SUFFICES ASSUME NEW n \in Tasks, pc'[n] = "notify",
                      NEW w \in {"ledger", "event"}, Told(w, got[n], Signer(n))
               PROVE  Told(w, got[n], Signer(n))'
    BY <1>2, <1>7, <1>8, Zenon DEF IInv, Notified, Signer
  <2>1. Signer(n) \in Signers /\ w \in Caches
    BY Zenon DEF IInv, TypeOK, Calls, Signer, Caches
  <2>2. \A c \in Channels : clients'[w][Signer(n)][c] # NoClient => clients'[w][Signer(n)][c] >= got[n]
    BY <1>1, <1>6, <2>1 DEF Told
  <2>3. QED
    BY <1>2, <1>7, <1>8, <2>2, Zenon DEF Told, Signer
<1>17. UsesAcknowledged'
  <2>1. got[t] >= floor[t]
    BY <1>4, <1>9 DEF IInv, TypeOK, Enrolled, Versions
  <2>2. QED
    BY <1>2, <1>7, <1>8, <2>1, Zenon DEF IInv, UsesAcknowledged
<1>18. QED
  BY <1>10, <1>11, <1>12, <1>13, <1>14, <1>15, <1>16, <1>17, Zenon DEF IInv

LEMMA CreationFailedStep == ASSUME NEW t \in Tasks, IInv, CreationFailed(t) PROVE IInv'
<1> DEFINE s == Signer(t)
<1>1. pc[t] = "create" /\ Finish(t) /\ Unlock(t) /\ todo[t] \in Paths
  BY Zenon DEF CreationFailed, IInv, TodoOK
<1>2. UNCHANGED <<mode, ca, creds, idCache, clients, returned>>
  BY Zenon DEF CreationFailed, ids
<1>3. s \in Signers /\ got[t] \in Versions
  BY Zenon DEF IInv, TypeOK, Signer, Calls
<1>4. \/ UNCHANGED <<gw, netMap>>
      \/ /\ Head(todo[t]) = "network" /\ got[t] # NoClient
         /\ gw' = [gw EXCEPT ![s] = got[t]] /\ netMap' = [netMap EXCEPT ![s] = TRUE]
  BY Zenon DEF CreationFailed, NoClient
<1>5. /\ \A u \in Tasks \ {t} : /\ pc'[u] = pc[u] /\ todo'[u] = todo[u] /\ got'[u] = got[u]
                                /\ call'[u] = call[u] /\ floor'[u] = floor[u]
      /\ pc'[t] = "done" /\ call'[t] = NoCall /\ floor'[t] = 0
  BY <1>1, Zenon DEF Finish, Go, IInv, TypeOK
<1>6. TypeOK'
  <2>1. lock' \in [Wrappers -> 0..NTasks]
    BY <1>1, UnlockStep, Zenon
  <2>2. gw' \in [Signers -> Versions] /\ netMap' \in [Signers -> BOOLEAN]
    BY <1>3, <1>4, Zenon DEF IInv, TypeOK
  <2>3. 0 \in Versions
    BY ClientsAssumption DEF Versions
  <2>4. QED
    BY <1>1, <1>2, <2>1, <2>2, <2>3, NoCallType, Tuples, Zenon DEF Finish, Go, NoClient, IInv, TypeOK
<1>7. TodoOK'
  BY <1>5 DEF IInv, TodoOK
<1>8. Locked'
  BY <1>1, <1>5, UnlockStep DEF Locked
<1>9. Enrolled'
  <2>1. NoCall.signer \in Signers /\ 0 <= returned[NoCall.signer]
    BY NoCallType, ClientsAssumption DEF IInv, TypeOK, Calls, Versions
  <2>2. QED
    BY <1>2, <1>5, <2>1 DEF IInv, Enrolled, Signer
<1>10. NoStaleClient'
  <2>1. got[t] # NoClient => got[t] >= returned[s]
    BY <1>1, Zenon DEF IInv, Creating
  <2>2. QED
    BY <1>2, <1>3, <1>4, <2>1, Zenon DEF IInv, TypeOK, NoStaleClient
<1>11. Gateways'
  <2>1. mode = "ccp" => Head(todo[t]) # "network"
    BY <1>1, Tuples DEF IInv, Gateways, Paths
  <2>2. \A r \in Signers : netMap'[r] => gw'[r] # NoClient
    BY <1>3, <1>4 DEF IInv, TypeOK, Gateways
  <2>3. QED
    BY <1>2, <1>4, <1>5, <2>1, <2>2 DEF IInv, Gateways
<1>12. Creating' /\ UsesAcknowledged'
  BY <1>2, <1>5, Zenon DEF IInv, Creating, UsesAcknowledged, Signer
<1>13. Notified'
  BY <1>2, <1>5 DEF IInv, Notified, Told, Signer
<1>14. QED
  BY <1>6, <1>7, <1>8, <1>9, <1>10, <1>11, <1>12, <1>13, Zenon DEF IInv

\* The task shows what the user store has, or keeps its client in a registration.
LEMMA UsingStep ==
  ASSUME NEW t \in Tasks, NEW ver \in Versions, IInv, pc[t] # "notify", ver >= floor[t],
         \E p \in {"use", "registered"} : Go(t, p),
         got' = [got EXCEPT ![t] = ver],
         UNCHANGED <<mode, ids, kept, lock, call, todo, floor, returned>>
  PROVE  IInv'
<1>1. UNCHANGED <<mode, ca, creds, idCache, clients, gw, netMap, lock, call, todo, floor, returned>>
  BY Zenon DEF ids, kept
<1>2. /\ pc'[t] \in {"use", "registered"} /\ got'[t] = ver
      /\ \A u \in Tasks \ {t} : pc'[u] = pc[u] /\ got'[u] = got[u]
  BY Zenon DEF Go, IInv, TypeOK
<1>3. TypeOK'
  <2>1. pc' \in [Tasks -> {"new", "acquire", "create", "use", "ca", "notify", "look",
                           "registered", "done"}]
    BY Zenon DEF Go, IInv, TypeOK
  <2>2. got' \in [Tasks -> Versions]
    BY Zenon DEF IInv, TypeOK
  <2>3. QED
    BY <1>1, <2>1, <2>2, Zenon DEF IInv, TypeOK
<1>4. TodoOK' /\ Locked' /\ Creating' /\ UsesAcknowledged'
  BY <1>1, <1>2, Zenon DEF IInv, TodoOK, Locked, Creating, UsesAcknowledged, Signer
<1>5. Enrolled' /\ Gateways' /\ NoStaleClient'
  BY <1>1, <1>2 DEF IInv, Enrolled, Gateways, NoStaleClient, Signer
<1>6. Notified'
  BY <1>1, <1>2 DEF IInv, Notified, Told, Signer
<1>7. QED
  BY <1>3, <1>4, <1>5, <1>6, Zenon DEF IInv

LEMMA GetStep == ASSUME NEW t \in Tasks, IInv, Get(t) PROVE IInv'
<1>1. Signer(t) \in Signers
  BY Zenon DEF IInv, TypeOK, Signer, Calls
<1>2. creds[Signer(t)] \in Versions /\ creds[Signer(t)] >= floor[t]
  BY <1>1, ClientsAssumption DEF IInv, TypeOK, Enrolled, Versions
<1>3. QED
  BY <1>2, UsingStep, Zenon DEF Get

LEMMA SubscribeEventStep == ASSUME NEW t \in Tasks, IInv, SubscribeEvent(t) PROVE IInv'
<1>1. CASE Finish(t)
  BY <1>1, EndsStep, Zenon DEF SubscribeEvent, Ends, ids, IInv, TypeOK
<1>2. CASE Go(t, "registered") /\ UNCHANGED <<call, todo, got, floor>>
  <2>1. pc[t] = "use" /\ got[t] \in Versions /\ got[t] >= floor[t]
    BY Zenon DEF SubscribeEvent, IInv, TypeOK, UsesAcknowledged
  <2>2. got' = [got EXCEPT ![t] = got[t]]
    BY <1>2, Zenon DEF IInv, TypeOK
  <2>3. QED
    BY <1>2, <2>1, <2>2, UsingStep, Zenon DEF SubscribeEvent
<1>3. QED
  BY <1>1, <1>2, Zenon DEF SubscribeEvent

\* New credentials are in the user store before any listener is told.
LEMMA NewCredentialsStep ==
  ASSUME NEW t \in Tasks, IInv, pc[t] = "ca", NewCredentials(t) PROVE IInv'
<1> DEFINE s == Signer(t)
           path == <<"ledger", "event", "rpc">>
<1>1. /\ UNCHANGED <<mode, ca, idCache, clients, gw, netMap, lock, call, floor, returned>>
      /\ creds' = [creds EXCEPT ![s] = @ + 1] /\ got' = [got EXCEPT ![t] = creds[s] + 1]
      /\ todo' = [todo EXCEPT ![t] = path] /\ Go(t, "notify") /\ creds[s] < MaxVersion
  BY Zenon DEF NewCredentials, kept
<1>2. s \in Signers /\ creds[s] \in Versions /\ creds[s] + 1 \in Versions
  BY <1>1, ClientsAssumption DEF IInv, TypeOK, Signer, Calls, Versions
<1>3. /\ pc'[t] = "notify" /\ todo'[t] = path /\ got'[t] = creds[s] + 1
      /\ \A u \in Tasks \ {t} : pc'[u] = pc[u] /\ got'[u] = got[u] /\ todo'[u] = todo[u]
      /\ creds'[s] = creds[s] + 1 /\ \A r \in Signers \ {s} : creds'[r] = creds[r]
  BY <1>1, <1>2, Zenon DEF Go, IInv, TypeOK
<1>4. path \in Listeners
  BY Zenon DEF Listeners
<1>5. TypeOK'
  <2>1. pc' \in [Tasks -> {"new", "acquire", "create", "use", "ca", "notify", "look",
                           "registered", "done"}]
    BY <1>1, Zenon DEF Go, IInv, TypeOK
  <2>2. todo' \in [Tasks -> Seq(Caches \cup Wrappers)]
    BY <1>1, <1>4, Tuples, Zenon DEF IInv, TypeOK
  <2>3. creds' \in [Signers -> Versions] /\ got' \in [Tasks -> Versions]
    BY <1>1, <1>2, Zenon DEF IInv, TypeOK
  <2>4. QED
    BY <1>1, <2>1, <2>2, <2>3, Zenon DEF IInv, TypeOK
<1>6. TodoOK' /\ Locked' /\ Creating' /\ UsesAcknowledged'
  BY <1>1, <1>3, <1>4 DEF IInv, TodoOK, Locked, Creating, UsesAcknowledged, Signer
<1>7. Enrolled'
  <2>1. \A r \in Signers : creds[r] <= creds'[r]
    <3> SUFFICES ASSUME NEW r \in Signers PROVE creds[r] <= creds'[r]
      BY Zenon
    <3>1. creds[r] \in Nat
      BY ClientsAssumption DEF IInv, TypeOK, Versions
    <3>2. creds'[r] = creds[r] \/ creds'[r] = creds[r] + 1
      BY <1>3, Zenon
    <3>3. QED
      BY <3>1, <3>2
  <2>2. \A r \in Signers : returned[r] <= creds'[r]
    <3> SUFFICES ASSUME NEW r \in Signers PROVE returned[r] <= creds'[r]
      BY Zenon
    <3>1. returned[r] \in Nat /\ creds[r] \in Nat /\ creds'[r] \in Nat
      BY <1>5, ClientsAssumption DEF IInv, TypeOK, Versions
    <3>2. QED
      BY <2>1, <3>1 DEF IInv, Enrolled
  <2>3. ASSUME NEW u \in Tasks, pc'[u] = "notify" PROVE got'[u] <= creds'[Signer(u)]
    <3>1. Signer(u) \in Signers
      BY Zenon DEF IInv, TypeOK, Signer, Calls
    <3>2. CASE u = t
      BY <1>2, <1>3, <3>2, ClientsAssumption DEF Versions
    <3>3. CASE u # t
      <4>1. got'[u] = got[u] /\ got[u] <= creds[Signer(u)]
        BY <1>3, <2>3, <3>3, Zenon DEF IInv, Enrolled
      <4>2. got[u] \in Nat /\ creds[Signer(u)] \in Nat /\ creds'[Signer(u)] \in Nat
        BY <1>5, <3>1, ClientsAssumption DEF IInv, TypeOK, Versions
      <4>3. QED
        BY <2>1, <3>1, <4>1, <4>2
    <3>4. QED
      BY <3>2, <3>3, Zenon
  <2>4. QED
    BY <1>1, <2>2, <2>3, Zenon DEF IInv, Enrolled, Signer
<1>8. Gateways' /\ NoStaleClient'
  BY <1>1, <1>3, Zenon DEF IInv, Gateways, NoStaleClient
<1>9. Notified'
  <2>1. ASSUME NEW w, NEW u \in Tasks \ {t}, Told(w, got[u], Signer(u))
        PROVE  Told(w, got[u], Signer(u))'
    BY <1>1, <1>3, <2>1 DEF Told, Signer
  <2>2. path # <<"rpc">>
    BY Zenon
  <2>3. QED
    BY <1>1, <1>3, <2>1, <2>2 DEF IInv, Notified, Signer
<1>10. QED
  BY <1>5, <1>6, <1>7, <1>8, <1>9, Zenon DEF IInv

\* The listener that is told drops clients of the signer, and keeps none.
LEMMA DroppedClients ==
  ASSUME NEW t \in Tasks, IInv, NotifySignerUpdate(t)
  PROVE  LET s == Signer(t)  w == Head(todo[t]) IN
         /\ clients' \in [Caches -> [Signers -> [Channels -> Versions]]]
         /\ gw' \in [Signers -> Versions] /\ netMap' \in [Signers -> BOOLEAN]
         /\ \A k \in Caches, r \in Signers, c \in Channels :
              clients'[k][r][c] \in {clients[k][r][c], NoClient}
         /\ \A r \in Signers : gw'[r] \in {gw[r], NoClient} /\ (netMap'[r] => netMap[r])
         /\ \A r \in Signers : netMap'[r] => gw'[r] # NoClient
         /\ w \in {"ledger", "event"} => \A c \in Channels : clients'[w][s][c] = NoClient
         /\ w = "rpc" => /\ gw'[s] = NoClient
                         /\ \A c \in Channels : /\ clients'["channel"][s][c] = NoClient
                                                /\ clients'["network"][s][c] = NoClient
<1> DEFINE s == Signer(t)
           w == Head(todo[t])
           none == [c \in Channels |-> NoClient]
<1>1. s \in Signers /\ none \in [Channels -> Versions] /\ NoClient \in Versions
  BY ClientsAssumption DEF IInv, TypeOK, Signer, Calls, NoClient, Versions
<1>2. w \in Wrappers
  BY Tuples, Zenon DEF NotifySignerUpdate, IInv, TodoOK
<1>3. /\ "ledger" \in Caches /\ "event" \in Caches /\ "channel" \in Caches /\ "network" \in Caches
      /\ clients \in [Caches -> [Signers -> [Channels -> Versions]]]
      /\ gw \in [Signers -> Versions] /\ netMap \in [Signers -> BOOLEAN]
      /\ \A r \in Signers : netMap[r] => gw[r] # NoClient
  BY Zenon DEF Caches, IInv, TypeOK, Gateways
<1>4. ASSUME NEW k \in Caches
      PROVE  /\ Dropped(k, s) \in [Caches -> [Signers -> [Channels -> Versions]]]
             /\ \A c \in Channels : Dropped(k, s)[k][s][c] = NoClient
             /\ \A j \in Caches, r \in Signers, c \in Channels :
                  Dropped(k, s)[j][r][c] \in {clients[j][r][c], NoClient}
             /\ \A j \in Caches \ {k} : Dropped(k, s)[j] = clients[j]
  BY <1>1, <1>3, Zenon DEF Dropped
<1>5. CASE w = "ledger"
  <2>1. LedgerSignerUpdated(s)
    BY <1>5, Zenon DEF NotifySignerUpdate
  <2>2. clients' = Dropped("ledger", s) /\ gw' = gw /\ netMap' = netMap
    BY <2>1, Zenon DEF LedgerSignerUpdated
  <2>3. QED
    BY <1>3, <1>4, <1>5, <2>2
<1>6. CASE w = "event"
  <2>1. EventSignerUpdated(s)
    BY <1>6, Zenon DEF NotifySignerUpdate
  <2>2. clients' = Dropped("event", s) /\ gw' = gw /\ netMap' = netMap
    BY <2>1, Zenon DEF EventSignerUpdated
  <2>3. QED
    BY <1>3, <1>4, <1>6, <2>2
<1>7. CASE w = "rpc" /\ mode = "ccp"
  <2>1. CCPSignerUpdated(s)
    BY <1>7, Zenon DEF NotifySignerUpdate
  <2>2. gw[s] = NoClient /\ \A c \in Channels : clients["network"][s][c] = NoClient
    BY <1>1, <1>7, Zenon DEF IInv, Gateways
  <2>3. clients' = Dropped("channel", s) /\ gw' = gw /\ netMap' = netMap
    BY <2>1, Zenon DEF CCPSignerUpdated
  <2>4. QED
    BY <1>3, <1>4, <1>7, <2>2, <2>3, Zenon
<1>8. CASE w = "rpc" /\ mode = "gateway"
  <2>1. GWSignerUpdated(s)
    BY <1>8, Zenon DEF NotifySignerUpdate
  <2>2. /\ clients' = [Dropped("channel", s) EXCEPT !["network"][s] = none]
        /\ gw' = [gw EXCEPT ![s] = NoClient] /\ netMap' = [netMap EXCEPT ![s] = FALSE]
    BY <2>1, Zenon DEF GWSignerUpdated
  <2> DEFINE cs == Dropped("channel", s)
  <2>4. /\ clients' \in [Caches -> [Signers -> [Channels -> Versions]]]
        /\ \A j \in Caches, r \in Signers, c \in Channels :
             clients'[j][r][c] = IF j = "network" /\ r = s THEN NoClient ELSE cs[j][r][c]
    BY <1>1, <1>3, <1>4, <2>2
  <2>5. /\ gw' \in [Signers -> Versions] /\ netMap' \in [Signers -> BOOLEAN] /\ gw'[s] = NoClient
        /\ \A r \in Signers : gw'[r] \in {gw[r], NoClient} /\ (netMap'[r] => netMap[r])
        /\ \A r \in Signers : netMap'[r] => gw'[r] # NoClient
    BY <1>1, <1>3, <2>2, Zenon
  <2>6. \A c \in Channels : /\ clients'["channel"][s][c] = NoClient
                            /\ clients'["network"][s][c] = NoClient
    BY <1>1, <1>3, <1>4, <2>4
  <2>7. \A j \in Caches, r \in Signers, c \in Channels :
          clients'[j][r][c] \in {clients[j][r][c], NoClient}
    BY <1>3, <1>4, <2>4
  <2>8. QED
    BY <1>8, <2>4, <2>5, <2>6, <2>7, Zenon
<1>9. mode \in {"ccp", "gateway"}
  BY ClientsAssumption, Zenon DEF IInv, TypeOK
<1>10. QED
  BY <1>2, <1>5, <1>6, <1>7, <1>8, <1>9, Zenon DEF Wrappers

\* While a listener is told, no client of its wrapper is being created.
LEMMA NoneCreated ==
  ASSUME NEW t \in Tasks, IInv, NotifySignerUpdate(t), NEW u \in Tasks, pc[u] = "create"
  PROVE  WrapperOf(Head(todo[u])) # Head(todo[t])
<1>1. lock[WrapperOf(Head(todo[u]))] = u /\ u # 0
  BY DEF IInv, Locked, Tasks
<1>2. QED
  BY <1>1, Zenon DEF NotifySignerUpdate

\* A step that tells the ledger or the event wrapper.
LEMMA TellStep ==
  ASSUME NEW t \in Tasks, IInv, NotifySignerUpdate(t), todo[t] # <<"rpc">> PROVE IInv'
<1> DEFINE s == Signer(t)
           w == Head(todo[t])
<1>1. pc[t] = "notify" /\ todo[t] \in Listeners /\ Len(todo[t]) # 1
  BY Tuples, Zenon DEF NotifySignerUpdate, IInv, TodoOK
<1>2. /\ UNCHANGED <<mode, ca, creds, idCache, lock, call, pc, got, floor, returned>>
      /\ todo' = [todo EXCEPT ![t] = Tail(@)]
  BY <1>1, Zenon DEF NotifySignerUpdate, ids
<1>3. \/ w = "ledger" /\ todo'[t] = <<"event", "rpc">> /\ todo[t] = <<"ledger", "event", "rpc">>
      \/ w = "event" /\ todo'[t] = <<"rpc">> /\ todo[t] = <<"event", "rpc">>
  BY <1>1, <1>2, Tuples, Zenon DEF Listeners, IInv, TypeOK
<1>4. \A u \in Tasks \ {t} : todo'[u] = todo[u]
  BY <1>2, Zenon DEF IInv, TypeOK
<1>5. TypeOK'
  <2>1. todo' \in [Tasks -> Seq(Caches \cup Wrappers)]
    BY <1>1, <1>2, Tuples, Zenon DEF IInv, TypeOK
  <2>2. QED
    BY <1>2, <2>1, DroppedClients, Zenon DEF IInv, TypeOK
<1>6. TodoOK'
  BY <1>1, <1>2, <1>3, <1>4, Zenon DEF IInv, TodoOK, Listeners
<1>7. Locked' /\ Creating' /\ UsesAcknowledged' /\ Enrolled'
  BY <1>1, <1>2, <1>4, Zenon DEF IInv, Locked, Creating, UsesAcknowledged, Enrolled, Signer
<1>8. NoStaleClient'
  BY <1>2, DroppedClients, ZenonT(30) DEF IInv, NoStaleClient
<1>9. Gateways'
  <2>1. "network" \in Caches
    BY Zenon DEF Caches
  <2>2. \A r \in Signers : netMap'[r] => gw'[r] # NoClient
    BY DroppedClients, Zenon
  <2>3. ASSUME mode = "ccp", NEW r \in Signers
        PROVE  gw'[r] = NoClient /\ \A c \in Channels : clients'["network"][r][c] = NoClient
    <3>1. gw[r] = NoClient /\ \A c \in Channels : clients["network"][r][c] = NoClient
      BY <2>3, Zenon DEF IInv, Gateways
    <3>2. QED
      BY <2>1, <3>1, DroppedClients, Zenon
  <2>4. ASSUME mode = "ccp", NEW u \in Tasks, pc'[u] \in {"acquire", "create"}
        PROVE  todo'[u] \notin {<<"network">>, <<"channel", "network">>}
    BY <1>1, <1>2, <1>4, <2>4, Zenon DEF IInv, Gateways
  <2>5. QED
    BY <1>2, <2>2, <2>3, <2>4, Zenon DEF Gateways
<1>10. Notified'
  <2>1. ASSUME NEW n \in Tasks, NEW k \in {"ledger", "event"}, Told(k, got[n], Signer(n))
        PROVE  Told(k, got[n], Signer(n))'
    <3>1. Signer(n) \in Signers /\ k \in Caches
      BY Zenon DEF IInv, TypeOK, Signer, Calls, Caches
    <3>2. \A c \in Channels : clients'[k][Signer(n)][c] # NoClient =>
                                clients'[k][Signer(n)][c] >= got[n]
      BY <2>1, <3>1, DroppedClients DEF Told
    <3>3. QED
      BY <1>1, <1>2, <1>4, <2>1, <3>2, Zenon DEF Told, Signer
  <2>2. ASSUME NEW k \in {"ledger", "event"}, w = k PROVE Told(k, got[t], s)'
    <3>1. \A u \in Tasks : pc[u] = "create" => Head(todo[u]) # k
      BY <2>2, NoneCreated, Zenon DEF WrapperOf
    <3>2. \A c \in Channels : clients'[k][s][c] = NoClient
      BY <2>2, DroppedClients, Zenon
    <3>3. QED
      BY <1>1, <1>2, <1>4, <3>1, <3>2, Zenon DEF Told, Signer
  <2>3. ASSUME NEW n \in Tasks \ {t}, pc'[n] = "notify"
        PROVE  /\ todo'[n] # <<"ledger", "event", "rpc">> => Told("ledger", got[n], Signer(n))'
               /\ todo'[n] = <<"rpc">> => Told("event", got[n], Signer(n))'
    BY <1>2, <1>4, <2>1, <2>3, Zenon DEF IInv, Notified
  <2>4. /\ Told("ledger", got[t], s)'
        /\ todo'[t] = <<"rpc">> => Told("event", got[t], s)'
    <3>1. CASE w = "ledger"
      <4>1. todo'[t] # <<"rpc">>
        BY <1>3, <3>1
      <4>2. QED
        BY <2>2, <3>1, <4>1, Zenon
    <3>2. CASE w = "event"
      <4>1. todo[t] # <<"ledger", "event", "rpc">>
        BY <1>3, <3>2
      <4>2. Told("ledger", got[t], s)
        BY <1>1, <4>1, Zenon DEF IInv, Notified
      <4>3. QED
        BY <2>1, <2>2, <3>2, <4>2, Zenon
    <3>3. QED
      BY <1>3, <3>1, <3>2, Zenon
  <2>5. QED
    BY <2>3, <2>4, Zenon DEF Notified
<1>11. QED
  BY <1>5, <1>6, <1>7, <1>8, <1>9, <1>10, Zenon DEF IInv

\* The step that tells the RPC client and acknowledges the enrolment.
LEMMA AcknowledgeStep ==
  ASSUME NEW t \in Tasks, IInv, NotifySignerUpdate(t), todo[t] = <<"rpc">> PROVE IInv'
<1> DEFINE s == Signer(t)
<1>1. pc[t] = "notify" /\ Head(todo[t]) = "rpc" /\ Len(todo[t]) = 1
  BY Tuples, Zenon DEF NotifySignerUpdate, IInv, TodoOK, Listeners
<1>2. UNCHANGED <<mode, ca, creds, idCache, lock>> /\ Finish(t)
  BY <1>1, Zenon DEF NotifySignerUpdate, ids
<1>3. s \in Signers /\ got[t] \in Nat /\ got[t] <= creds[s]
  BY <1>1, ClientsAssumption DEF IInv, TypeOK, Signer, Calls, Versions, Enrolled
<1>4. /\ returned' \in [Signers -> Versions]
      /\ \A r \in Signers \ {s} : returned'[r] = returned[r]
      /\ returned'[s] \in {got[t], returned[s]} /\ returned'[s] >= returned[s]
  <2>1. returned' = IF got[t] > returned[s] THEN [returned EXCEPT ![s] = got[t]] ELSE returned
    BY <1>1, Zenon DEF NotifySignerUpdate
  <2>2. returned \in [Signers -> Versions] /\ got[t] \in Versions /\ returned[s] \in Nat
    BY <1>3, ClientsAssumption DEF IInv, TypeOK, Versions
  <2>3. QED
    BY <1>3, <2>1, <2>2
<1>5. /\ \A u \in Tasks \ {t} : /\ pc'[u] = pc[u] /\ todo'[u] = todo[u] /\ got'[u] = got[u]
                                /\ call'[u] = call[u] /\ floor'[u] = floor[u]
      /\ pc'[t] = "done" /\ call'[t] = NoCall /\ floor'[t] = 0
  BY <1>2, Zenon DEF Finish, Go, IInv, TypeOK
<1>6. TypeOK'
  <2>1. 0 \in Versions
    BY ClientsAssumption DEF Versions
  <2>2. /\ call' \in [Tasks -> Calls] /\ todo' \in [Tasks -> Seq(Caches \cup Wrappers)]
        /\ got' \in [Tasks -> Versions] /\ floor' \in [Tasks -> Versions]
    BY <1>2, <2>1, NoCallType, Tuples, Zenon DEF Finish, NoClient, IInv, TypeOK
  <2>3. pc' \in [Tasks -> {"new", "acquire", "create", "use", "ca", "notify", "look",
                           "registered", "done"}]
    BY <1>2, Zenon DEF Finish, Go, IInv, TypeOK
  <2>4. QED
    BY <1>2, <1>4, <2>2, <2>3, DroppedClients, Zenon DEF IInv, TypeOK
<1>7. TodoOK' /\ Locked' /\ UsesAcknowledged'
  BY <1>2, <1>5 DEF IInv, TodoOK, Locked, UsesAcknowledged
<1>8. Enrolled'
  <2>1. \A r \in Signers : returned'[r] <= creds[r] /\ returned[r] <= returned'[r]
    <3> SUFFICES ASSUME NEW r \in Signers
                 PROVE  returned'[r] <= creds[r] /\ returned[r] <= returned'[r]
      BY Zenon
    <3>1. returned[r] \in Nat /\ creds[r] \in Nat /\ returned[r] <= creds[r]
      BY ClientsAssumption DEF IInv, TypeOK, Versions, Enrolled
    <3>2. CASE r = s
      BY <1>3, <1>4, <3>1, <3>2, Zenon
    <3>3. CASE r # s
      BY <1>4, <3>1, <3>3
    <3>4. QED
      BY <3>2, <3>3, Zenon
  <2>2. ASSUME NEW u \in Tasks PROVE floor'[u] <= returned'[call'[u].signer]
    <3>1. call'[u].signer \in Signers /\ returned'[call'[u].signer] \in Nat
      BY <1>6, ClientsAssumption DEF TypeOK, Calls, Versions
    <3>2. CASE u = t
      BY <1>5, <3>1, <3>2
    <3>3. CASE u # t
      <4>1. floor'[u] = floor[u] /\ call'[u] = call[u] /\ floor[u] <= returned[call[u].signer]
        BY <1>5, <3>3, Zenon DEF IInv, Enrolled, Signer
      <4>2. floor[u] \in Nat /\ returned[call[u].signer] \in Nat
        BY <3>1, <4>1, ClientsAssumption DEF IInv, TypeOK, Versions
      <4>3. QED
        BY <2>1, <3>1, <4>1, <4>2
    <3>4. QED
      BY <3>2, <3>3, Zenon
  <2>3. QED
    BY <1>2, <1>5, <2>1, <2>2 DEF IInv, Enrolled, Signer
<1>9. Gateways'
  <2>1. "network" \in Caches
    BY Zenon DEF Caches
  <2>2. \A r \in Signers : netMap'[r] => gw'[r] # NoClient
    BY DroppedClients, Zenon
  <2>3. ASSUME mode = "ccp", NEW r \in Signers
        PROVE  gw'[r] = NoClient /\ \A c \in Channels : clients'["network"][r][c] = NoClient
    <3>1. gw[r] = NoClient /\ \A c \in Channels : clients["network"][r][c] = NoClient
      BY <2>3, Zenon DEF IInv, Gateways
    <3>2. QED
      BY <2>1, <3>1, DroppedClients, Zenon
  <2>4. ASSUME mode = "ccp", NEW u \in Tasks, pc'[u] \in {"acquire", "create"}
        PROVE  todo'[u] \notin {<<"network">>, <<"channel", "network">>}
    BY <1>2, <1>5, <2>4, Zenon DEF IInv, Gateways
  <2>5. QED
    BY <1>2, <2>2, <2>3, <2>4, Zenon DEF Gateways
<1>10. Told("ledger", got[t], s) /\ Told("event", got[t], s)
  <2>1. todo[t] # <<"ledger", "event", "rpc">>
    OBVIOUS
  <2>2. QED
    BY <1>1, <2>1, Zenon DEF IInv, Notified
<1>11. NoStaleClient'
  <2>1. ASSUME NEW r \in Signers \ {s}
        PROVE  /\ \A k \in Caches, c \in Channels :
                    clients'[k][r][c] # NoClient => clients'[k][r][c] >= returned'[r]
               /\ gw'[r] # NoClient => gw'[r] >= returned'[r]
    BY <1>4, DroppedClients, ZenonT(30) DEF IInv, NoStaleClient
  <2>2. ASSUME NEW k \in Caches, NEW c \in Channels, clients'[k][s][c] # NoClient
        PROVE  clients'[k][s][c] >= returned'[s]
    <3>1. k \in {"ledger", "event"} /\ clients'[k][s][c] = clients[k][s][c]
      BY <1>1, <1>3, <2>2, DroppedClients DEF Caches
    <3>2. clients[k][s][c] >= got[t]
      BY <1>10, <2>2, <3>1, Zenon DEF Told
    <3>3. clients[k][s][c] >= returned[s]
      BY <1>3, <2>2, <3>1, Zenon DEF IInv, NoStaleClient
    <3>4. QED
      BY <1>4, <3>1, <3>2, <3>3, Zenon
  <2>3. gw'[s] = NoClient
    BY <1>1, DroppedClients, Zenon
  <2>4. QED
    BY <2>1, <2>2, <2>3, Zenon DEF NoStaleClient
<1>12. Creating'
  <2> SUFFICES ASSUME NEW u \in Tasks, pc'[u] = "create", got'[u] # NoClient
               PROVE  got'[u] >= returned'[call'[u].signer]
    BY Zenon DEF Creating, Signer
  <2>1. /\ u # t /\ pc[u] = "create" /\ got'[u] = got[u] /\ call'[u] = call[u]
        /\ got[u] # NoClient /\ got[u] >= returned[Signer(u)] /\ Signer(u) \in Signers
    BY <1>5, Zenon DEF IInv, TypeOK, Creating, Signer, Calls
  <2>2. CASE Signer(u) # s
    BY <1>4, <2>1, <2>2, Zenon DEF Signer
  <2>3. CASE Signer(u) = s
    <3>1. Head(todo[u]) \in {"ledger", "event"}
      BY <1>1, <2>1, NoneCreated, Tuples DEF WrapperOf, IInv, TodoOK, Paths
    <3>2. got[u] >= got[t]
      BY <1>10, <2>1, <2>3, <3>1, Zenon DEF Told
    <3>3. QED
      BY <1>4, <2>1, <2>3, <3>2, Zenon DEF Signer
  <2>4. QED
    BY <2>2, <2>3, Zenon
<1>13. Notified'
  <2>1. ASSUME NEW n \in Tasks \ {t}, NEW k \in {"ledger", "event"}, Told(k, got[n], Signer(n))
        PROVE  Told(k, got[n], Signer(n))'
    <3>1. Signer(n) \in Signers /\ k \in Caches
      BY Zenon DEF IInv, TypeOK, Signer, Calls, Caches
    <3>2. \A c \in Channels : clients'[k][Signer(n)][c] # NoClient =>
                                clients'[k][Signer(n)][c] >= got[n]
      BY <2>1, <3>1, DroppedClients DEF Told
    <3>3. QED
      BY <1>5, <2>1, <3>2 DEF Told, Signer
  <2>2. QED
    BY <1>5, <2>1 DEF IInv, Notified
<1>14. QED
  BY <1>6, <1>7, <1>8, <1>9, <1>11, <1>12, <1>13, Zenon DEF IInv

\* Steps that only end a task.
LEMMA EndingStep ==
  ASSUME NEW t \in Tasks, IInv,
         \/ CCPInvoke(t) \/ GWInvoke(t) \/ QueryChaincode(t) \/ QueryLedger(t)
         \/ IdentityShown(t) \/ Refused(t) \/ Register(t) \/ Revoke(t) \/ Unregister(t)
  PROVE  IInv'
<1>1. Signer(t) \in Signers
  BY Zenon DEF IInv, TypeOK, Signer, Calls
<1>2. CASE GWInvoke(t)
  BY <1>1, <1>2, EndsStep, IdentityLookUp, Zenon DEF GWInvoke, Use, Ends, IInv, TypeOK
<1>3. CASE Register(t) \/ Revoke(t)
  BY <1>1, <1>3, EndsStep, Zenon DEF Register, Revoke, Ends, IInv, TypeOK
<1>4. CASE \/ CCPInvoke(t) \/ QueryChaincode(t) \/ QueryLedger(t)
           \/ IdentityShown(t) \/ Refused(t) \/ Unregister(t)
  <2>1. Ends(t)
    BY <1>4, Zenon DEF CCPInvoke, QueryChaincode, QueryLedger, IdentityShown, Refused, Unregister,
                Use, Ends, ids, IInv, TypeOK
  <2>2. QED
    BY <2>1, EndsStep, Zenon
<1>5. QED
  BY <1>2, <1>3, <1>4, Zenon

LEMMA InvStep == IInv /\ [Next]_vars => IInv'
<1> SUFFICES ASSUME IInv, [Next]_vars PROVE IInv'
  BY Zenon
<1>1. CASE UNCHANGED vars
  BY <1>1, Zenon DEF vars, ids, kept, task, IInv, TypeOK, TodoOK, Locked, Enrolled, Gateways,
              NoStaleClient, Creating, Notified, Told, UsesAcknowledged, Signer
<1>2. ASSUME NEW t \in Tasks, Start(t) \/ Step(t) \/ Unregister(t) PROVE IInv'
  <2>1. ASSUME Enroll(t) \/ Reenroll(t) PROVE IInv'
    BY <2>1, NewCredentialsStep, Zenon DEF Enroll, Reenroll, CACall
  <2>2. ASSUME NotifySignerUpdate(t) PROVE IInv'
    BY <2>2, TellStep, AcknowledgeStep, Zenon
  <2>3. QED
    BY <1>2, <2>1, <2>2, StartStep, ChannelClientStep, GatewayClientStep, OtherClientStep,
       CreatedStep, CreationFailedStep, SubscribeEventStep, GetStep, EndingStep, Zenon DEF Step
<1>3. QED
  BY <1>1, <1>2, Zenon DEF Next

\* No client that is kept for a signer, in the caches of the RPC, ledger and event
\* wrappers or in the gateways, carries credentials older than those of the last
\* enrolment that was acknowledged (SignerUpdated under the mutex of the creation).
THEOREM NoStaleClients == Spec => []NoStaleClient
<1>1. IInv => NoStaleClient
  BY Zenon DEF IInv
<1>2. QED
  BY <1>1, InvInit, InvStep, PTL DEF Spec

\* A request uses, and a look at an identity shows, at least the credentials of
\* the last enrolment acknowledged before it started.
THEOREM AcknowledgedUsed == Spec => []UsesAcknowledged
<1>1. IInv => UsesAcknowledged
  BY Zenon DEF IInv
<1>2. QED
  BY <1>1, InvInit, InvStep, PTL DEF Spec
=============================================================================
