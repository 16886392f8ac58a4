------------------------- MODULE RadiusProxyProofs -------------------------
(***************************************************************************)
(* RadiusProxy for any clients, tasks, requests and answers: its types, and *)
(* that a connection, its number and the client that comes back with it    *)
(* belong together from proxyPacket() to proxyPacketReceived().            *)
(***************************************************************************)
EXTENDS RadiusProxy, FiniteSetTheorems, TLAPS

(* Tasks that have a request that is not numbered yet.                      *)
Entering == {t \in Tasks : pc[t] \in {"enter", "number"}}

Counted == proxyIndex + Cardinality(Entering) = requests

OneInside == \A s, t \in Inside : s = t

(* Between the two readings of proxyIndex nobody changes it.                *)
Numbered ==
  \A t \in Tasks :
    /\ pc[t] \in {"put", "putting"} => proxyIndex >= 1
    /\ pc[t] = "putting" => state[t] = proxyIndex

(* Numbers whose connection has been put.                                   *)
Given ==
  {x \in States :
     /\ x <= proxyIndex
     /\ x = proxyIndex => \A t \in Tasks : pc[t] \notin {"put", "putting"}}

(* The client of a number is the one whose request was sent on with it.     *)
Linked ==
  /\ \A x \in States, c \in Clients :
       <<x, c>> \in forwarded => x \in Given /\ conn[x] = c
  /\ \A t \in Tasks :
       /\ pc[t] \in {"check", "bind", "assign", "configure", "send"}
            => state[t] \in Given /\ conn[state[t]] = client[t]
       /\ pc[t] \in {"remove", "removing"} => <<state[t], asker[t]>> \in forwarded
       /\ pc[t] = "answer" => client[t] = asker[t]

Bound == \A t \in Threads : pc[t] = "assign" => sockets[t] # "none"

ProxyInv ==
  TypeOK /\ Counted /\ OneInside /\ Numbered /\ Linked /\ Bound

LEMMA ProxyInit == Init => ProxyInv
<1> SUFFICES ASSUME Init PROVE ProxyInv
  OBVIOUS
<1> USE BoundsAssumption, ThreadsAssumption DEF Init, Threads
<1>1. TypeOK
  <2>1. pc \in [Threads -> PCs] /\ sockets \in [Threads -> SocketStates]
    BY DEF PCs, SocketStates
  <2>2. state \in [Tasks -> 0 .. MaxRequests] /\ taken \in [States -> Nat]
    BY DEF States
  <2>3. \A t \in Threads : sockets[t] = "none"
    OBVIOUS
  <2>4. /\ client \in [Tasks -> Clients] /\ asker \in [Tasks -> Clients]
        /\ conn \in [States -> Clients]
    OBVIOUS
  <2>5. /\ proxyIndex \in 0 .. MaxRequests
        /\ requests \in 0 .. MaxRequests
        /\ arrivals \in 0 .. MaxArrivals
    OBVIOUS
  <2>6. /\ saved \subseteq States /\ dropped \subseteq States
        /\ forwarded \subseteq States \X Clients
    OBVIOUS
  <2>7. /\ proxySocket = Null /\ ear = Null
        /\ stopping = "no" /\ raced = FALSE
    OBVIOUS
  <2>8. Null \notin Threads
    OBVIOUS
  <2> HIDE DEF Init, Threads
  <2> QED
    BY <2>1, <2>2, <2>3, <2>4, <2>5, <2>6, <2>7, <2>8 DEF TypeOK
<1>2. Entering = {}
  BY DEF Entering
<1>3. Counted
  BY <1>2, FS_EmptySet DEF Counted
<1>4. OneInside /\ Numbered /\ Linked /\ Bound
  BY DEF OneInside, Inside, Numbered, Linked, Bound
<1> QED
  BY <1>1, <1>3, <1>4 DEF ProxyInv

-----------------------------------------------------------------------------
(* How a change of one pc changes the number of those that are entering.    *)
LEMMA EnteringFinite == IsFiniteSet(Entering) /\ Cardinality(Entering) \in Nat
<1>1. Entering \subseteq Tasks
  BY DEF Entering
<1> QED
  BY <1>1, ThreadsAssumption, FS_Subset, FS_CardinalityType

LEMMA CountNext == ProxyInv /\ [Next]_vars => Counted'
<1> SUFFICES ASSUME ProxyInv, [Next]_vars PROVE Counted'
  OBVIOUS
<1>0. /\ pc \in [Threads -> PCs] /\ Counted
      /\ proxyIndex \in Nat /\ requests \in Nat
      /\ IsFiniteSet(Entering) /\ Cardinality(Entering) \in Nat
  BY BoundsAssumption, EnteringFinite DEF ProxyInv, TypeOK
<1>a. Listener \notin Tasks /\ Tasks \subseteq Threads
  BY ThreadsAssumption DEF Threads
<1> USE <1>0, <1>a DEF work, map, net, ends, Goto
<1>b. ASSUME Entering' = Entering, proxyIndex' = proxyIndex, requests' = requests
      PROVE  Counted'
  BY <1>b DEF Counted
<1>1. ASSUME NEW t \in Tasks, NEW c \in Clients, Request(t, c) PROVE Counted'
  <2>1. Entering' = Entering \cup {t} /\ t \notin Entering
    BY <1>1 DEF Request, Entering
  <2>2. Cardinality(Entering \cup {t}) = Cardinality(Entering) + 1
    BY <2>1, FS_AddElement
  <2>3. proxyIndex' = proxyIndex /\ requests' = requests + 1
    BY <1>1 DEF Request
  <2> QED
    BY <2>1, <2>2, <2>3 DEF Counted
<1>2. ASSUME NEW t \in Tasks, Number(t) PROVE Counted'
  <2>1. Entering' = Entering \ {t} /\ t \in Entering
    BY <1>2 DEF Number, Entering
  <2>2. Cardinality(Entering \ {t}) = Cardinality(Entering) - 1
    BY <2>1, FS_RemoveElement
  <2>3. proxyIndex' = proxyIndex + 1 /\ requests' = requests
    BY <1>2 DEF Number
  <2> QED
    BY <2>1, <2>2, <2>3 DEF Counted
<1>3. ASSUME NEW t \in Tasks, NEW c \in Clients, NEW x \in States, Arrive(t, x, c)
      PROVE  Counted'
  BY <1>3, <1>b DEF Arrive, Entering
<1>4. ASSUME NEW t \in Tasks, Enter(t) PROVE Counted'
  BY <1>4, <1>b DEF Enter, Entering
<1>5. ASSUME NEW t \in Tasks, Put(t) \/ Saved(t) \/ Send(t) PROVE Counted'
  BY <1>5, <1>b DEF Put, Saved, Send, Entering
<1>6. ASSUME NEW t \in Tasks, Remove(t) \/ Answer(t) PROVE Counted'
  BY <1>6, <1>b DEF Remove, Answer, Entering
<1>7. ASSUME NEW t \in Tasks, Removed(t) PROVE Counted'
  BY <1>7, <1>b DEF Removed, Entering
<1>8. ASSUME NEW t \in Threads, GetSocket(t) PROVE Counted'
  <2>1. Entering' = Entering
    BY <1>8 DEF GetSocket, Check, Bind, Assign, Configure, GiveUp, Use, Entering
  <2>2. proxyIndex' = proxyIndex /\ requests' = requests
    BY <1>8 DEF GetSocket, Check, Bind, Assign, Configure, GiveUp
  <2> QED
    BY <2>1, <2>2, <1>b
<1>9. CASE ReceiveFails
  BY <1>9, <1>b DEF ReceiveFails, Entering
<1>10. CASE Stop \/ SuperStop \/ UNCHANGED vars
  BY <1>10, <1>b DEF Stop, SuperStop, vars, Entering
<1> QED
  BY <1>1, <1>2, <1>3, <1>4, <1>5, <1>6, <1>7, <1>8, <1>9, <1>10
  DEF Next, Forward, PassOn

-----------------------------------------------------------------------------
(* The lock: numbers are given out and read by one task at a time.          *)
LEMMA LockNext == ProxyInv /\ [Next]_vars => OneInside' /\ Numbered'
<1> SUFFICES ASSUME ProxyInv, [Next]_vars PROVE OneInside' /\ Numbered'
  OBVIOUS
<1>0. /\ pc \in [Threads -> PCs] /\ state \in [Tasks -> 0 .. MaxRequests]
      /\ proxyIndex \in Nat /\ OneInside /\ Numbered
  BY BoundsAssumption DEF ProxyInv, TypeOK
<1>a. Listener \notin Tasks /\ Tasks \subseteq Threads
  BY ThreadsAssumption DEF Threads
<1> USE <1>0, <1>a DEF work, map, net, ends, Goto
<1>b. ASSUME Inside' \subseteq Inside, proxyIndex' = proxyIndex, state' = state,
             \A t \in Tasks : pc'[t] \in {"put", "putting"} => pc'[t] = pc[t]
      PROVE  OneInside' /\ Numbered'
  BY <1>b DEF OneInside, Numbered
<1>1. ASSUME NEW t \in Tasks, NEW c \in Clients, Request(t, c)
      PROVE  OneInside' /\ Numbered'
  BY <1>1, <1>b DEF Request, Inside
<1>2. ASSUME NEW t \in Tasks, Enter(t) PROVE OneInside' /\ Numbered'
  <2>1. Inside' = {t}
    BY <1>2 DEF Enter, Inside
  <2>2. Numbered'
    BY <1>2 DEF Enter, Numbered
  <2> QED
    BY <2>1, <2>2 DEF OneInside
<1>3. ASSUME NEW t \in Tasks, Number(t) PROVE OneInside' /\ Numbered'
  <2>1. Inside' = {t}
    BY <1>3 DEF Number, OneInside, Inside
  <2>2. proxyIndex' = proxyIndex + 1 /\ pc'[t] = "put"
    BY <1>3 DEF Number
  <2> QED
    BY <2>1, <2>2 DEF OneInside, Inside, Numbered
<1>4. ASSUME NEW t \in Tasks, Put(t) PROVE OneInside' /\ Numbered'
  <2>1. Inside' = {t}
    BY <1>4 DEF Put, OneInside, Inside
  <2>2. proxyIndex' = proxyIndex /\ pc'[t] = "putting" /\ state'[t] = proxyIndex
    BY <1>4 DEF Put
  <2>3. proxyIndex >= 1
    BY <1>4 DEF Put, Numbered
  <2> QED
    BY <2>1, <2>2, <2>3 DEF OneInside, Inside, Numbered
<1>5. ASSUME NEW t \in Tasks, Saved(t) \/ Send(t) PROVE OneInside' /\ Numbered'
  BY <1>5, <1>b DEF Saved, Send, Inside
<1>6. ASSUME NEW t \in Tasks, NEW c \in Clients, NEW x \in States, Arrive(t, x, c)
      PROVE  OneInside' /\ Numbered'
  <2>1. Inside' = Inside
    BY <1>6 DEF Arrive, Inside
  <2>2. Numbered'
    BY <1>6 DEF Arrive, Numbered
  <2> QED
    BY <2>1, <2>2 DEF OneInside
<1>7. ASSUME NEW t \in Tasks, Remove(t) \/ Answer(t) PROVE OneInside' /\ Numbered'
  BY <1>7, <1>b DEF Remove, Answer, Inside
<1>8. ASSUME NEW t \in Tasks, Removed(t) PROVE OneInside' /\ Numbered'
  BY <1>8, <1>b DEF Removed, Inside
<1>9. ASSUME NEW t \in Threads, GetSocket(t) PROVE OneInside' /\ Numbered'
  <2>1. Inside' = Inside
    BY <1>9 DEF GetSocket, Check, Bind, Assign, Configure, GiveUp, Use, Inside
  <2>2. \A r \in Tasks : pc'[r] \in {"put", "putting"} => pc'[r] = pc[r]
    BY <1>9 DEF GetSocket, Check, Bind, Assign, Configure, GiveUp, Use
  <2>3. proxyIndex' = proxyIndex /\ state' = state
    BY <1>9 DEF GetSocket, Check, Bind, Assign, Configure, GiveUp
  <2> QED
    BY <2>1, <2>2, <2>3, <1>b
<1>10. CASE ReceiveFails
  BY <1>10, <1>b DEF ReceiveFails, Inside
<1>11. CASE Stop \/ SuperStop \/ UNCHANGED vars
  BY <1>11, <1>b DEF Stop, SuperStop, vars, Inside
<1> QED
  BY <1>1, <1>2, <1>3, <1>4, <1>5, <1>6, <1>7, <1>8, <1>9, <1>10, <1>11
  DEF Next, Forward, PassOn

(* A number is given when its connection is put, and at no other step.      *)
Give(t) ==
  /\ Saved(t)
  /\ state[t] = proxyIndex /\ proxyIndex \in States \ Given
  /\ Given' = Given \cup {proxyIndex}

LEMMA GivenNext ==
  ASSUME ProxyInv, [Next]_vars
  PROVE  \/ Given' = Given /\ conn' = conn /\ \A t \in Tasks : ~ Saved(t)
         \/ \E t \in Tasks : Give(t)
<1>0. /\ pc \in [Threads -> PCs] /\ state \in [Tasks -> 0 .. MaxRequests]
      /\ proxyIndex \in 0 .. MaxRequests /\ conn \in [States -> Clients]
      /\ OneInside /\ Numbered
  BY DEF ProxyInv, TypeOK
<1>a. /\ Listener \notin Tasks /\ Tasks \subseteq Threads
      /\ States = 1 .. MaxRequests /\ MaxRequests \in Nat
  BY ThreadsAssumption, BoundsAssumption DEF Threads, States
<1> USE <1>0, <1>a DEF work, map, net, ends, Goto
<1> DEFINE Same  == Given' = Given /\ conn' = conn /\ \A t \in Tasks : ~ Saved(t)
           Given1 == \E t \in Tasks : Give(t)
<1>b. ASSUME proxyIndex' = proxyIndex, conn' = conn,
             \A t \in Tasks : pc'[t] \in {"put", "putting"}
                                <=> pc[t] \in {"put", "putting"}
      PROVE  Same
  <2>1. Given' = Given
    BY <1>b DEF Given
  <2>2. \A t \in Tasks : ~ Saved(t)
    BY <1>b DEF Saved
  <2> QED
    BY <1>b, <2>1, <2>2
<1>1. ASSUME NEW t \in Tasks, NEW c \in Clients, Request(t, c) PROVE Same
  BY <1>1, <1>b DEF Request
<1>2. ASSUME NEW t \in Tasks, Enter(t) \/ Put(t) \/ Send(t) PROVE Same
  BY <1>2, <1>b DEF Enter, Put, Send
<1>3. ASSUME NEW t \in Tasks, Number(t) PROVE Same
  <2>1. /\ proxyIndex' = proxyIndex + 1 /\ conn' = conn
        /\ pc[t] = "number" /\ pc'[t] = "put"
    BY <1>3 DEF Number
  <2>2. \A r \in Tasks : pc[r] \notin {"put", "putting"}
    BY <2>1 DEF OneInside, Inside
  <2>3. Given' = Given
    BY <2>1, <2>2 DEF Given
  <2>4. \A r \in Tasks : ~ Saved(r)
    BY <2>2 DEF Saved
  <2> QED
    BY <2>1, <2>3, <2>4
<1>4. ASSUME NEW t \in Tasks, Saved(t) PROVE Give(t)
  <2>1. /\ proxyIndex' = proxyIndex /\ state[t] = proxyIndex
        /\ proxyIndex \in States /\ pc[t] = "putting"
    BY <1>4 DEF Saved, Numbered
  <2>2. proxyIndex \notin Given
    BY <2>1 DEF Given
  <2>3. \A r \in Tasks : pc'[r] \notin {"put", "putting"}
    BY <1>4 DEF Saved, OneInside, Inside
  <2>4. Given' = Given \cup {proxyIndex}
    BY <2>1, <2>3 DEF Given
  <2> QED
    BY <1>4, <2>1, <2>2, <2>4 DEF Give
<1>5. ASSUME NEW t \in Tasks, NEW c \in Clients, NEW x \in States, Arrive(t, x, c)
      PROVE  Same
  BY <1>5, <1>b DEF Arrive
<1>6. ASSUME NEW t \in Tasks, Remove(t) \/ Answer(t) PROVE Same
  BY <1>6, <1>b DEF Remove, Answer
<1>7. ASSUME NEW t \in Tasks, Removed(t) PROVE Same
  BY <1>7, <1>b DEF Removed
<1>8. ASSUME NEW t \in Threads, GetSocket(t) PROVE Same
  <2>1. \A r \in Tasks : \/ pc'[r] = pc[r]
                         \/ {pc[r], pc'[r]} \cap {"put", "putting"} = {}
    BY <1>8 DEF GetSocket, Check, Bind, Assign, Configure, GiveUp, Use
  <2>2. proxyIndex' = proxyIndex /\ conn' = conn
    BY <1>8 DEF GetSocket, Check, Bind, Assign, Configure, GiveUp
  <2> QED
    BY <2>1, <2>2, <1>b
<1>9. CASE ReceiveFails
  BY <1>9, <1>b DEF ReceiveFails
<1>10. CASE Stop \/ SuperStop \/ UNCHANGED vars
  BY <1>10, <1>b DEF Stop, SuperStop, vars
<1> QED
  BY <1>1, <1>2, <1>3, <1>4, <1>5, <1>6, <1>7, <1>8, <1>9, <1>10
  DEF Next, Forward, PassOn

(* A number that is given stays given, to the same client.                  *)
LEMMA GivenGrows ==
  ASSUME ProxyInv, [Next]_vars
  PROVE  \A x \in Given : x \in Given' /\ conn'[x] = conn[x]
<1>1. CASE Given' = Given /\ conn' = conn
  BY <1>1
<1>2. ASSUME NEW t \in Tasks, Give(t)
      PROVE  \A x \in Given : x \in Given' /\ conn'[x] = conn[x]
  <2>1. conn' = [conn EXCEPT ![proxyIndex] = client[t]]
    BY <1>2 DEF Give, Saved
  <2>2. conn \in [States -> Clients]
    BY DEF ProxyInv, TypeOK
  <2> QED
    BY <1>2, <2>1, <2>2 DEF Give, Given
<1> QED
  BY <1>1, <1>2, GivenNext

-----------------------------------------------------------------------------
LEMMA LinkedNext == ProxyInv /\ [Next]_vars => Linked'
<1> SUFFICES ASSUME ProxyInv, [Next]_vars PROVE Linked'
  OBVIOUS
<1>0. /\ pc \in [Threads -> PCs] /\ state \in [Tasks -> 0 .. MaxRequests]
      /\ client \in [Tasks -> Clients] /\ asker \in [Tasks -> Clients]
      /\ proxyIndex \in Nat /\ conn \in [States -> Clients]
      /\ forwarded \subseteq States \X Clients
      /\ OneInside /\ Numbered /\ Linked
  BY BoundsAssumption DEF ProxyInv, TypeOK
<1>a. Listener \notin Tasks /\ Tasks \subseteq Threads
  BY ThreadsAssumption DEF Threads
<1>b. \A x \in Given : x \in Given' /\ conn'[x] = conn[x]
  BY GivenGrows
<1> USE <1>0, <1>a, <1>b DEF work, map, net, ends, Goto
<1> DEFINE
      Known(t) ==
        /\ pc[t] \in {"check", "bind", "assign", "configure", "send"}
             => state[t] \in Given /\ conn[state[t]] = client[t]
        /\ pc[t] \in {"remove", "removing"} => <<state[t], asker[t]>> \in forwarded
        /\ pc[t] = "answer" => client[t] = asker[t]
      Sent == \A x \in States, c \in Clients :
                <<x, c>> \in forwarded => x \in Given /\ conn[x] = c
<1>c. Sent /\ \A t \in Tasks : Known(t)
  BY DEF Linked
<1>d. Given' = {x \in States : /\ x <= proxyIndex'
                               /\ x = proxyIndex' => \A t \in Tasks :
                                    pc'[t] \notin {"put", "putting"}}
  BY DEF Given
<1>e. ASSUME forwarded' = forwarded PROVE Sent'
  BY <1>c, <1>e
<1>f. ASSUME NEW t \in Tasks,
             forwarded \subseteq forwarded',
             \A r \in Tasks \ {t} : /\ pc'[r] = pc[r] /\ state'[r] = state[r]
                                    /\ client'[r] = client[r] /\ asker'[r] = asker[r]
      PROVE  \A r \in Tasks \ {t} : Known(r)'
  BY <1>c, <1>f
<1>1. ASSUME NEW t \in Tasks, NEW c \in Clients, Request(t, c) PROVE Linked'
  <2>1. \A r \in Tasks \ {t} : Known(r)'
    BY <1>1, <1>f DEF Request
  <2>2. pc'[t] = "enter"
    BY <1>1 DEF Request
  <2>3. Sent'
    BY <1>1, <1>e DEF Request
  <2> QED
    BY <2>1, <2>2, <2>3 DEF Linked
<1>2. ASSUME NEW t \in Tasks, Enter(t) \/ Number(t) PROVE Linked'
  <2>1. \A r \in Tasks \ {t} : Known(r)'
    BY <1>2, <1>f DEF Enter, Number
  <2>2. pc'[t] \in {"number", "put"}
    BY <1>2 DEF Enter, Number
  <2>3. Sent'
    BY <1>2, <1>e DEF Enter, Number
  <2> QED
    BY <2>1, <2>2, <2>3 DEF Linked
<1>3. ASSUME NEW t \in Tasks, Put(t) PROVE Linked'
  <2>1. \A r \in Tasks \ {t} : Known(r)'
    BY <1>3, <1>f DEF Put
  <2>2. pc'[t] = "putting"
    BY <1>3 DEF Put
  <2>3. Sent'
    BY <1>3, <1>e DEF Put
  <2> QED
    BY <2>1, <2>2, <2>3 DEF Linked
<1>4. ASSUME NEW t \in Tasks, Saved(t) PROVE Linked'
  <2>1. \A r \in Tasks \ {t} : Known(r)'
    BY <1>4, <1>f DEF Saved
  <2>2. /\ proxyIndex' = proxyIndex /\ state' = state /\ client' = client
        /\ state[t] = proxyIndex /\ proxyIndex >= 1
        /\ conn' = [conn EXCEPT ![proxyIndex] = client[t]]
    BY <1>4 DEF Saved, Numbered
  <2>3. proxyIndex \in States
    BY <2>2, BoundsAssumption DEF States
  <2>4. \A r \in Tasks : pc'[r] \notin {"put", "putting"}
    BY <1>4 DEF Saved, OneInside, Inside
  <2>5. proxyIndex \in Given'
    BY <2>2, <2>3, <2>4, <1>d
  <2>6. conn'[proxyIndex] = client[t]
    BY <2>2, <2>3
  <2>7. pc'[t] = "check"
    BY <1>4 DEF Saved
  <2>8. Known(t)'
    BY <2>2, <2>5, <2>6, <2>7
  <2>9. Sent'
    BY <1>4, <1>e DEF Saved
  <2> QED
    BY <2>1, <2>8, <2>9 DEF Linked
<1>5. ASSUME NEW t \in Tasks, Send(t) PROVE Linked'
  <2>1. \A r \in Tasks \ {t} : Known(r)'
    BY <1>5, <1>f DEF Send
  <2>2. pc'[t] = "idle"
    BY <1>5 DEF Send
  <2>3. /\ forwarded' \subseteq forwarded \cup {<<state[t], client[t]>>}
        /\ state[t] \in Given /\ conn[state[t]] = client[t]
    BY <1>5, <1>c DEF Send
  <2>4. Sent'
    BY <2>3, <1>c
  <2> QED
    BY <2>1, <2>2, <2>4 DEF Linked
<1>6. ASSUME NEW t \in Tasks, NEW c \in Clients, NEW x \in States, Arrive(t, x, c)
      PROVE  Linked'
  <2>1. \A r \in Tasks \ {t} : Known(r)'
    BY <1>6, <1>f DEF Arrive
  <2>2. Known(t)'
    BY <1>6 DEF Arrive
  <2>3. Sent'
    BY <1>6, <1>e DEF Arrive
  <2> QED
    BY <2>1, <2>2, <2>3 DEF Linked
<1>7. ASSUME NEW t \in Tasks, Remove(t) \/ Answer(t) PROVE Linked'
  <2>1. \A r \in Tasks \ {t} : Known(r)'
    BY <1>7, <1>f DEF Remove, Answer
  <2>2. Known(t)'
    BY <1>7, <1>c DEF Remove, Answer
  <2>3. Sent'
    BY <1>7, <1>e DEF Remove, Answer
  <2> QED
    BY <2>1, <2>2, <2>3 DEF Linked
<1>8. ASSUME NEW t \in Tasks, Removed(t) PROVE Linked'
  <2>1. \A r \in Tasks \ {t} : Known(r)'
    BY <1>8, <1>f DEF Removed
  <2>2. asker' = asker /\ asker[t] \in Clients /\ <<state[t], asker[t]>> \in forwarded
    BY <1>8, <1>c DEF Removed
  <2>3. conn[state[t]] = asker[t]
    BY <2>2, <1>c
  <2>4. \/ pc'[t] = "answer" /\ client'[t] = conn[state[t]]
        \/ pc'[t] = "idle"
    BY <1>8 DEF Removed
  <2>5. Sent'
    BY <1>8, <1>e DEF Removed
  <2> QED
    BY <2>1, <2>2, <2>3, <2>4, <2>5 DEF Linked
<1>g. ASSUME state' = state, client' = client, asker' = asker, forwarded' = forwarded,
             \A r \in Tasks : \/ pc'[r] = pc[r]
                              \/ pc'[r] = "idle"
                              \/ /\ pc[r] \in {"check", "bind", "assign", "configure"}
                                 /\ pc'[r] \in {"bind", "assign", "configure", "send"}
      PROVE  Linked'
  <2>1. \A r \in Tasks : Known(r)'
    BY <1>g, <1>c
  <2> QED
    BY <2>1, <1>g, <1>e DEF Linked
<1>9. ASSUME NEW t \in Threads, GetSocket(t) PROVE Linked'
  <2>1. \A r \in Tasks : \/ pc'[r] = pc[r]
                         \/ pc'[r] = "idle"
                         \/ /\ pc[r] \in {"check", "bind", "assign", "configure"}
                            /\ pc'[r] \in {"bind", "assign", "configure", "send"}
    BY <1>9 DEF GetSocket, Check, Bind, Assign, Configure, GiveUp, Use
  <2>2. state' = state /\ client' = client /\ asker' = asker /\ forwarded' = forwarded
    BY <1>9 DEF GetSocket, Check, Bind, Assign, Configure, GiveUp
  <2> QED
    BY <2>1, <2>2, <1>g
<1>10. CASE ReceiveFails
  BY <1>10, <1>g DEF ReceiveFails
<1>11. CASE Stop \/ SuperStop \/ UNCHANGED vars
  BY <1>11, <1>g DEF Stop, SuperStop, vars
<1> QED
  BY <1>1, <1>2, <1>3, <1>4, <1>5, <1>6, <1>7, <1>8, <1>9, <1>10, <1>11
  DEF Next, Forward, PassOn

-----------------------------------------------------------------------------
(* The field refers to a socket that was created, and one socket at a time  *)
(* has the port.                                                            *)
Sockets ==
  /\ sockets \in [Threads -> SocketStates]
  /\ proxySocket \in Threads \cup {Null}
  /\ ear \in Threads \cup {Null}
  /\ stopping \in {"no", "closed", "done"}
  /\ proxySocket # Null => sockets[proxySocket] # "none"
  /\ \A s, t \in Threads : sockets[s] = "open" /\ sockets[t] = "open" => s = t

LEMMA SocketsNext == ProxyInv /\ [Next]_vars => Sockets' /\ Bound'
<1> SUFFICES ASSUME ProxyInv, [Next]_vars PROVE Sockets' /\ Bound'
  OBVIOUS
<1>0. pc \in [Threads -> PCs] /\ Sockets /\ Bound
  BY DEF ProxyInv, TypeOK, Sockets
<1>a. Listener \notin Tasks /\ Tasks \subseteq Threads /\ Null \notin Threads
  BY ThreadsAssumption DEF Threads
<1> USE <1>0, <1>a DEF work, map, net, ends, Goto
<1>b. ASSUME UNCHANGED net,
             \A t \in Threads : pc'[t] = "assign" => pc[t] = "assign"
      PROVE  Sockets' /\ Bound'
  BY <1>b DEF Sockets, Bound
<1>1. ASSUME NEW t \in Tasks, NEW c \in Clients, Request(t, c)
      PROVE  Sockets' /\ Bound'
  BY <1>1, <1>b DEF Request
<1>2. ASSUME NEW t \in Tasks, Forward(t) PROVE Sockets' /\ Bound'
  BY <1>2, <1>b DEF Forward, Enter, Number, Put, Saved, Send
<1>3. ASSUME NEW t \in Tasks, NEW c \in Clients, NEW x \in States, Arrive(t, x, c)
      PROVE  Sockets' /\ Bound'
  BY <1>3, <1>b DEF Arrive
<1>4. ASSUME NEW t \in Tasks, Remove(t) \/ Answer(t) PROVE Sockets' /\ Bound'
  BY <1>4, <1>b DEF Remove, Answer
<1>5. ASSUME NEW t \in Tasks, Removed(t) PROVE Sockets' /\ Bound'
  <2>1. pc'[t] # "assign" /\ UNCHANGED net
    BY <1>5 DEF Removed
  <2> QED
    BY <1>5, <2>1, <1>b DEF Removed
<1>6. ASSUME NEW t \in Threads, Check(t) PROVE Sockets' /\ Bound'
  BY <1>6 DEF Check, Use, Sockets, Bound
<1>7. ASSUME NEW t \in Threads, Bind(t) PROVE Sockets' /\ Bound'
  <2>1. CASE Taken
    BY <1>7, <2>1 DEF Bind, GiveUp, Sockets, Bound
  <2>2. CASE ~Taken
    <3>1. sockets' = [sockets EXCEPT ![t] = "open"] /\ UNCHANGED <<proxySocket, ear, stopping>>
      BY <1>7, <2>2 DEF Bind
    <3>2. \A s \in Threads : sockets[s] # "open"
      BY <2>2 DEF Taken
    <3>3. Sockets'
      BY <3>1, <3>2 DEF Sockets, SocketStates
    <3>4. Bound'
      BY <1>7, <2>2, <3>1 DEF Bind, Bound, Sockets
    <3> QED
      BY <3>3, <3>4
  <2> QED
    BY <2>1, <2>2
<1>8. ASSUME NEW t \in Threads, Assign(t) PROVE Sockets' /\ Bound'
  BY <1>8 DEF Assign, Sockets, Bound
<1>13. ASSUME NEW t \in Threads, Configure(t) PROVE Sockets' /\ Bound'
  BY <1>13 DEF Configure, GiveUp, Use, Sockets, Bound
<1>9. CASE ReceiveFails
  BY <1>9, <1>b DEF ReceiveFails
<1>10. CASE Stop
  <2>1. \A t \in Threads : sockets'[t] = IF t = proxySocket THEN "closed" ELSE sockets[t]
    BY <1>10 DEF Stop, Sockets
  <2>2. sockets' \in [Threads -> SocketStates]
    BY <1>10 DEF Stop, Sockets, SocketStates
  <2>3. UNCHANGED <<pc, proxySocket, ear>> /\ stopping' = "closed"
    BY <1>10 DEF Stop
  <2> QED
    BY <2>1, <2>2, <2>3 DEF Sockets, Bound
<1>11. CASE SuperStop
  BY <1>11 DEF SuperStop, Sockets, Bound
<1>12. CASE UNCHANGED vars
  BY <1>12, <1>b DEF vars
<1> QED
  BY <1>1, <1>2, <1>3, <1>4, <1>5, <1>6, <1>7, <1>8, <1>9, <1>10, <1>11, <1>12,
     <1>13
  DEF Next, PassOn, GetSocket

LEMMA TypeNext == ProxyInv /\ [Next]_vars => TypeOK'
<1> SUFFICES ASSUME ProxyInv, [Next]_vars PROVE TypeOK'
  OBVIOUS
<1> DEFINE
      Work  == /\ pc \in [Threads -> PCs]
               /\ client \in [Tasks -> Clients]
               /\ state \in [Tasks -> 0 .. MaxRequests]
               /\ asker \in [Tasks -> Clients]
      Tables == /\ saved \subseteq States
                /\ conn \in [States -> Clients]
                /\ forwarded \subseteq States \X Clients
                /\ raced \in BOOLEAN
                /\ taken \in [States -> Nat]
                /\ dropped \subseteq States
      Counts == /\ proxyIndex \in 0 .. MaxRequests
                /\ requests \in 0 .. MaxRequests
                /\ arrivals \in 0 .. MaxArrivals
<1>0. Work /\ Tables /\ Counts /\ Sockets
  BY DEF ProxyInv, TypeOK, Sockets
<1>a. Listener \notin Tasks /\ Tasks \subseteq Threads /\ States = 1 .. MaxRequests
  BY ThreadsAssumption DEF Threads, States
<1>b. Sockets'
  BY SocketsNext
<1> SUFFICES (Work /\ Tables /\ Counts)'
  BY <1>b DEF TypeOK, Sockets
<1>c. /\ \A t \in Tasks : pc[t] \in {"check", "bind", "assign", "configure", "send"} => state[t] \in States
      /\ \A t \in Tasks : pc[t] \in {"remove", "removing"} => state[t] \in States
      /\ \A t \in Tasks : pc[t] = "putting" => state[t] = proxyIndex /\ proxyIndex \in States
  <2>1. \A t \in Tasks : pc[t] \in {"check", "bind", "assign", "configure", "send"} => state[t] \in States
    BY DEF ProxyInv, Linked, Given
  <2>2. \A t \in Tasks : pc[t] \in {"remove", "removing"} => state[t] \in States
    BY <1>0 DEF ProxyInv, Linked
  <2>3. \A t \in Tasks : pc[t] = "putting" => state[t] = proxyIndex /\ proxyIndex >= 1
    BY DEF ProxyInv, Numbered
  <2>4. proxyIndex >= 1 => proxyIndex \in States
    BY <1>0, <1>a, BoundsAssumption
  <2> QED
    BY <2>1, <2>2, <2>3, <2>4
<1>d. 1 .. proxyIndex \subseteq States
  BY <1>0, <1>a, BoundsAssumption
<1>e. \A t \in Tasks : pc[t] = "number" => proxyIndex + 1 \in 0 .. MaxRequests
  <2> SUFFICES ASSUME NEW t \in Tasks, pc[t] = "number"
               PROVE  proxyIndex + 1 \in 0 .. MaxRequests
    OBVIOUS
  <2>1. t \in Entering
    BY DEF Entering
  <2>2. Cardinality(Entering) # 0
    BY <2>1, EnteringFinite, FS_EmptySet
  <2> QED
    BY <2>2, <1>0, EnteringFinite, BoundsAssumption DEF ProxyInv, Counted
<1> USE <1>0, <1>a, BoundsAssumption DEF work, map, net, ends, Goto, PCs
<1>1. ASSUME NEW t \in Tasks, NEW c \in Clients, Request(t, c)
      PROVE  (Work /\ Tables /\ Counts)'
  BY <1>1 DEF Request
<1>2. ASSUME NEW t \in Tasks, Enter(t) PROVE (Work /\ Tables /\ Counts)'
  BY <1>2 DEF Enter
<1>3. ASSUME NEW t \in Tasks, Number(t) PROVE (Work /\ Tables /\ Counts)'
  <2>1. proxyIndex' \in 0 .. MaxRequests
    BY <1>3, <1>e DEF Number
  <2> QED
    BY <1>3, <2>1 DEF Number
<1>4. ASSUME NEW t \in Tasks, Put(t) PROVE (Work /\ Tables /\ Counts)'
  BY <1>4 DEF Put, BeginPut
<1>5. ASSUME NEW t \in Tasks, Saved(t) PROVE (Work /\ Tables /\ Counts)'
  <2>1. saved' \subseteq States
    BY <1>5, <1>c, <1>d DEF Saved, EndPut
  <2> QED
    BY <1>5, <2>1 DEF Saved
<1>6. ASSUME NEW t \in Tasks, Send(t) PROVE (Work /\ Tables /\ Counts)'
  <2>1. forwarded' \subseteq States \X Clients
    BY <1>6, <1>c DEF Send
  <2> QED
    BY <1>6, <2>1 DEF Send
<1>7. ASSUME NEW t \in Tasks, NEW c \in Clients, NEW x \in States, Arrive(t, x, c)
      PROVE  (Work /\ Tables /\ Counts)'
  BY <1>7 DEF Arrive
<1>8. ASSUME NEW t \in Tasks, Remove(t) PROVE (Work /\ Tables /\ Counts)'
  BY <1>8 DEF Remove, BeginRemove
<1>9. ASSUME NEW t \in Tasks, Removed(t) PROVE (Work /\ Tables /\ Counts)'
  <2>1. saved' \subseteq States
    BY <1>9, <1>d DEF Removed, EndRemove
  <2>2. dropped' \subseteq States
    BY <1>9, <1>c DEF Removed
  <2>3. taken' \in [States -> Nat]
    <3>1. taken' = taken \/ taken' = [taken EXCEPT ![state[t]] = @ + 1]
      BY <1>9 DEF Removed
    <3>2. state[t] \in States
      BY <1>9, <1>c DEF Removed
    <3>3. taken[state[t]] + 1 \in Nat
      BY <3>2
    <3> QED
      BY <3>1, <3>2, <3>3
  <2>4. client' \in [Tasks -> Clients]
    BY <1>9, <1>c DEF Removed
  <2>5. pc' \in [Threads -> PCs]
    BY <1>9 DEF Removed
  <2> QED
    BY <1>9, <2>1, <2>2, <2>3, <2>4, <2>5 DEF Removed
<1>10. ASSUME NEW t \in Tasks, Answer(t) PROVE (Work /\ Tables /\ Counts)'
  BY <1>10 DEF Answer
<1>11. ASSUME NEW t \in Threads, GetSocket(t) PROVE (Work /\ Tables /\ Counts)'
  <2>1. pc' \in [Threads -> PCs]
    BY <1>11 DEF GetSocket, Check, Bind, Assign, Configure, GiveUp, Use
  <2>2. UNCHANGED <<client, state, asker, map, forwarded, requests, arrivals, ends>>
    BY <1>11 DEF GetSocket, Check, Bind, Assign, Configure, GiveUp
  <2> QED
    BY <2>1, <2>2
<1>12. CASE ReceiveFails
  BY <1>12 DEF ReceiveFails
<1>13. CASE Stop \/ SuperStop \/ UNCHANGED vars
  BY <1>13 DEF Stop, SuperStop, vars
<1> QED
  BY <1>1, <1>2, <1>3, <1>4, <1>5, <1>6, <1>7, <1>8, <1>9, <1>10, <1>11, <1>12, <1>13
  DEF Next, Forward, PassOn

LEMMA ProxyNext == ProxyInv /\ [Next]_vars => ProxyInv'
  BY TypeNext, CountNext, LockNext, LinkedNext, SocketsNext DEF ProxyInv

(* The inductive invariant: each request, number and connection belongs to  *)
(* one client, from proxyPacket() to proxyPacketReceived().                 *)
THEOREM ProxyCorrect == Spec => []ProxyInv
  BY ProxyInit, ProxyNext, PTL DEF Spec

(* Tasks, map and sockets keep their types, and one socket at a time has    *)
(* the proxy's port (getProxySocket).                                       *)
THEOREM TypeCorrect == Spec => []TypeOK
<1>1. ProxyInv => TypeOK
  BY DEF ProxyInv
<1> QED
  BY <1>1, ProxyCorrect, PTL

(* An answer goes to the client whose request it answers, for any number of *)
(* clients, of requests at a time and of copies of an answer, even after    *)
(* removals that overlapped other accesses to the map (proxyPacket,         *)
(* proxyPacketReceived).                                                    *)
THEOREM AnswersReachAsker == Spec => []AnswersToAsker
<1>1. ProxyInv => AnswersToAsker
  BY DEF ProxyInv, Linked, AnswersToAsker
<1> QED
  BY <1>1, ProxyCorrect, PTL

-----------------------------------------------------------------------------
(* As long as the map is intact, the connection of a given number is in it  *)
(* until one answer has removed it.                                         *)
Kept ==
  ~raced =>
    /\ \A x \in saved : x \in Given /\ taken[x] = 0
    /\ \A x \in Given : x \in saved \/ taken[x] = 1
    /\ \A x \in States : taken[x] = 0 \/ (taken[x] = 1 /\ x \in Given)
    /\ \A x \in dropped : taken[x] = 1

LEMMA KeptNext == ProxyInv /\ Kept /\ [Next]_vars => Kept'
<1> SUFFICES ASSUME ProxyInv, Kept, [Next]_vars PROVE Kept'
  OBVIOUS
<1>0. /\ saved \subseteq States /\ taken \in [States -> Nat] /\ dropped \subseteq States
  BY DEF ProxyInv, TypeOK
<1> USE <1>0 DEF map, ends
<1>1. ASSUME NEW t \in Tasks, Give(t) PROVE Kept'
  <2>1. UNCHANGED <<raced, ends>> /\ EndPut(proxyIndex)
    BY <1>1 DEF Give, Saved
  <2> QED
    BY <1>1, <2>1 DEF Give, EndPut, Kept
<1>2. ASSUME NEW t \in Tasks, Removed(t), Given' = Given PROVE Kept'
  <2>1. state[t] \in Given
    <3>1. <<state[t], asker[t]>> \in forwarded
      BY <1>2 DEF Removed, ProxyInv, Linked
    <3>2. forwarded \subseteq States \X Clients
      BY DEF ProxyInv, TypeOK
    <3> QED
      BY <3>1, <3>2 DEF ProxyInv, Linked
  <2>2. state[t] \in States
    BY <2>1 DEF Given
  <2> SUFFICES ASSUME ~raced' PROVE Kept'
    BY DEF Kept
  <2>3. ~raced
    BY <1>2 DEF Removed
  <2>4. CASE state[t] \in saved
    <3>1. /\ saved' = saved \ {state[t]} /\ dropped' = dropped
          /\ taken' = [taken EXCEPT ![state[t]] = @ + 1]
      BY <1>2, <2>3, <2>4 DEF Removed, EndRemove
    <3>2. taken[state[t]] = 0 /\ taken'[state[t]] = 1
      BY <3>1, <2>2, <2>3, <2>4 DEF Kept
    <3>3. \A x \in States \ {state[t]} : taken'[x] = taken[x]
      BY <3>1
    <3>4. \A x \in Given : x \in States
      BY DEF Given
    <3> QED
      BY <1>2, <2>1, <2>3, <3>1, <3>2, <3>3, <3>4 DEF Kept
  <2>5. CASE state[t] \notin saved
    <3>1. saved' = saved /\ taken' = taken /\ dropped' = dropped \cup {state[t]}
      BY <1>2, <2>3, <2>5 DEF Removed, EndRemove
    <3> QED
      BY <1>2, <2>1, <2>3, <2>5, <3>1 DEF Kept
  <2> QED
    BY <2>4, <2>5
<1>3. ASSUME Given' = Given, UNCHANGED <<saved, taken, dropped>>, raced => raced'
      PROVE  Kept'
  BY <1>3 DEF Kept
<1>4. ASSUME Given' = Given, \A t \in Tasks : ~ Saved(t), \A t \in Tasks : ~ Removed(t)
      PROVE  Kept'
  <2>1. UNCHANGED <<saved, taken, dropped>> /\ (raced => raced')
    <3>1. ASSUME NEW t \in Tasks, NEW c \in Clients, Request(t, c)
          PROVE UNCHANGED <<saved, taken, dropped>> /\ (raced => raced')
      BY <3>1 DEF Request
    <3>2. ASSUME NEW t \in Tasks, NEW c \in Clients, NEW x \in States, Arrive(t, x, c)
          PROVE UNCHANGED <<saved, taken, dropped>> /\ (raced => raced')
      BY <3>2 DEF Arrive
    <3>3. ASSUME NEW t \in Tasks, Enter(t) \/ Number(t) \/ Send(t)
          PROVE UNCHANGED <<saved, taken, dropped>> /\ (raced => raced')
      BY <3>3 DEF Enter, Number, Send
    <3>4. ASSUME NEW t \in Tasks, Put(t) \/ Remove(t)
          PROVE UNCHANGED <<saved, taken, dropped>> /\ (raced => raced')
      <4>1. UNCHANGED <<saved, taken, dropped>>
        BY <3>4 DEF Put, Remove
      <4>2. raced => raced'
        BY <3>4 DEF Put, BeginPut, Remove, BeginRemove
      <4> QED
        BY <4>1, <4>2
    <3>7. ASSUME NEW t \in Tasks, Answer(t)
          PROVE UNCHANGED <<saved, taken, dropped>> /\ (raced => raced')
      BY <3>7 DEF Answer
    <3>5. ASSUME NEW t \in Threads, GetSocket(t)
          PROVE UNCHANGED <<saved, taken, dropped>> /\ (raced => raced')
      BY <3>5 DEF GetSocket, Check, Bind, Assign, Configure, GiveUp
    <3>6. CASE ReceiveFails \/ Stop \/ SuperStop \/ UNCHANGED vars
      BY <3>6 DEF ReceiveFails, Stop, SuperStop, vars
    <3> QED
      BY <1>4, <3>1, <3>2, <3>3, <3>4, <3>5, <3>6, <3>7 DEF Next, Forward, PassOn
  <2> QED
    BY <2>1, <1>3, <1>4
<1> QED
  BY <1>1, <1>2, <1>4, GivenNext

(* The first answer to a forwarded request is passed on and every other is  *)
(* dropped, for any number of copies and tasks, unless a removal overlapped *)
(* another access to the map (proxyPacketReceived).                         *)
THEOREM FirstAnswerPassedOn == Spec => []FirstAnswerOnly
<1>1. Init => Kept
  <2> SUFFICES ASSUME Init PROVE Kept
    OBVIOUS
  <2>1. Given = {}
    BY BoundsAssumption DEF Init, Given, States
  <2> QED
    BY <2>1 DEF Init, Kept
<1>2. ProxyInv /\ Kept => FirstAnswerOnly
  BY DEF Kept, FirstAnswerOnly, ProxyInv, TypeOK
<1> QED
  BY <1>1, <1>2, ProxyInit, ProxyNext, KeptNext, PTL DEF Spec
=============================================================================
