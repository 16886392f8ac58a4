------------------------- MODULE RadiusClientProofs -------------------------
(***************************************************************************)
(* Proofs about module RadiusClient, for any number of identifiers,        *)
(* attempts, calls, threads, faults and ticks, and any timeout, interval   *)
(* and lag: types, what a call that returns shows, when one ends with an   *)
(* exception, and how often the server executes a packet that is repeated. *)
(***************************************************************************)
EXTENDS RadiusClient, FiniteSetTheorems, SequenceTheorems, TLAPS

(* Nothing has been sent. *)
LEMMA InitType == Init => TypeOK
  <1> SUFFICES ASSUME Init PROVE TypeOK
    OBVIOUS
  <1>1. inbox \in Seq(Packets \cup {Stranger})
    BY EmptySeq DEF Init
  <1>2. 1 \in 1 .. RetryCount /\ 0 \in 0 .. MaxCalls /\ 0 \in Ids
    BY RetryAssumption, BoundsAssumption, IdRangeAssumption DEF Ids
  <1>3. \A c \in Calls : ~(c <= 0)
    BY DEF Calls
  <1>4. QED
    BY <1>1, <1>2, <1>3 DEF Init, TypeOK, Outcomes

(* A copy more or less is on its way. *)
LEMMA CopiesType ==
  ASSUME NEW copies \in [Packets -> Nat], NEW p \in Packets
  PROVE  /\ More(copies, p) \in [Packets -> Nat]
         /\ copies[p] > 0 => Less(copies, p) \in [Packets -> Nat]
  BY DEF More, Less

(* The packet of the call in progress. *)
LEMMA OurPacket ==
  ASSUME TypeOK, phase # "idle"
  PROVE  call \in Calls /\ packet[call] \in Packets /\ packet[call] # Stranger
  BY DEF TypeOK, Calls, Packets, Stranger

(* What the next attempt, or the end of the call, makes of the loop.        *)
LEMMA RetryType ==
  ASSUME TypeOK, phase # "idle", Retry
  PROVE  /\ phase' \in {"send", "idle"}
         /\ attempt' \in 1 .. RetryCount
         /\ \/ outcome' = outcome
            \/ outcome' = [outcome EXCEPT ![call] = "failed"] /\ phase' = "idle"
  BY RetryAssumption DEF TypeOK, Retry, End

(* What the filter does: it drops a copy, or lets it through with or        *)
(* without an entry.                                                        *)
LEMMA Filter ==
  ASSUME TypeOK, NEW t \in Tasks, CheckDuplicate(t)
  PROVE  /\ request[t] \in Packets /\ now[t] \in Nat /\ clock - now[t] <= MaxLag
         /\ pc[t] = "check" /\ pc' = [pc EXCEPT ![t] = "idle"]
         /\ Fresh(now[t]) \subseteq received'
         /\ \/ /\ UNCHANGED <<executed, executedAt, toClient, passed>>
               /\ received' \subseteq received
            \/ /\ executed' = [executed EXCEPT ![request[t]] = @ + 1]
               /\ executedAt' = [executedAt EXCEPT ![request[t]] = clock]
               /\ toClient' = More(toClient, request[t])
               /\ \/ /\ passed' = passed \cup {request[t]}
                     /\ received' \subseteq received
                  \/ /\ passed' = passed /\ Matches(t) = {}
                     /\ received' = Fresh(now[t]) \cup
                          {[packet |-> request[t], time |-> now[t]]}
  <1>1. request[t] \in Packets /\ now[t] \in Nat
    BY DEF TypeOK, CheckDuplicate
  <1>2. Fresh(now[t]) \subseteq received
    BY DEF Fresh
  <1>3. QED
    BY <1>1, <1>2 DEF CheckDuplicate, Execute, Goto

(* Every step keeps the types. *)
LEMMA NextType == TypeOK /\ [Next]_vars => TypeOK'
  <1> SUFFICES ASSUME TypeOK, [Next]_vars PROVE TypeOK'
    OBVIOUS
  <1> USE DEF calls, loop, network, tasks, filter, history
  <1>1. CASE Call
    <2> DEFINE c == call + 1
               earlier == {packet[d] : d \in 1 .. call}
    <2>1. c \in Calls /\ call \in Nat /\ c \in 0 .. MaxCalls
      BY <1>1, BoundsAssumption DEF Call, TypeOK, Calls
    <2>2. \A d \in 1 .. call : d \in Calls /\ packet[d] \in Packets /\ packet[d] <= d /\ d < c
      BY <2>1, BoundsAssumption DEF TypeOK, Calls
    <2>3. \A p \in earlier : p \in Packets /\ p <= c
      BY <2>1, <2>2 DEF Packets, Calls
    <2>4. NextId(c) \in Ids
      BY <2>1, IdRangeAssumption DEF NextId, Ids
    <2>5. /\ \E p \in Packets : packet' = [packet EXCEPT ![c] = p] /\ p <= c
          /\ id' \in [Packets -> Ids]
      <3>1. CASE /\ packet' = [packet EXCEPT ![c] = c]
                 /\ \E i \in {NextId(c)} \cup {id[p] : p \in earlier} :
                      id' = [id EXCEPT ![c] = i]
        <4>1. {NextId(c)} \cup {id[p] : p \in earlier} \subseteq Ids
          BY <2>3, <2>4 DEF TypeOK
        <4>2. PICK i \in Ids : id' = [id EXCEPT ![c] = i]
          BY <3>1, <4>1
        <4>3. id' \in [Packets -> Ids]
          BY <4>2 DEF TypeOK
        <4>4. c \in Packets /\ c <= c
          BY <2>1 DEF Packets
        <4>5. QED BY <3>1, <4>3, <4>4
      <3>2. CASE /\ \E p \in earlier : packet' = [packet EXCEPT ![c] = p]
                 /\ UNCHANGED id
        BY <2>3, <3>2 DEF TypeOK
      <3>3. QED BY <1>1, <3>1, <3>2 DEF Call
    <2>6. packet' \in [Calls -> Packets \cup {Stranger}]
      BY <2>5 DEF TypeOK
    <2>7. \A d \in Calls : d <= c => packet'[d] \in Packets /\ packet'[d] <= d
      <3> SUFFICES ASSUME NEW d \in Calls, d <= c
                   PROVE  packet'[d] \in Packets /\ packet'[d] <= d
        OBVIOUS
      <3>1. CASE d = c
        BY <2>1, <2>5, <3>1 DEF TypeOK
      <3>2. CASE d # c
        <4>1. d <= call
          BY <2>1, <3>2 DEF Calls
        <4>2. QED BY <2>5, <3>2, <4>1 DEF TypeOK
      <3>3. QED BY <3>1, <3>2
    <2>8. /\ call' = c /\ phase' = "send" /\ attempt' = 1
          /\ UNCHANGED <<clock, deadline, inbox, outcome, closed, network, tasks, filter, history>>
      BY <1>1 DEF Call
    <2>9. 1 \in 1 .. RetryCount
      BY RetryAssumption
    <2> HIDE DEF c
    <2>10. QED BY <2>1, <2>5, <2>6, <2>7, <2>8, <2>9 DEF TypeOK
  <1>2. CASE Send
    <2>1. toServer' \in [Packets -> Nat]
      BY <1>2, OurPacket DEF Send, TypeOK
    <2>2. QED BY <1>2, <2>1, RetryAssumption DEF Send, TypeOK
  <1>3. CASE SendFails \/ ReceiveFails
    <2>1. phase # "idle" /\ Retry
      BY <1>3 DEF SendFails, ReceiveFails
    <2>2. /\ phase' \in {"send", "idle"}
          /\ attempt' \in 1 .. RetryCount
          /\ outcome' \in [Calls -> Outcomes]
      BY <2>1, RetryType DEF TypeOK, Outcomes
    <2>3. QED BY <1>3, <2>1, <2>2 DEF SendFails, ReceiveFails, TypeOK
  <1>4. CASE Receive
    <2>1. inbox' \in Seq(Packets \cup {Stranger})
      BY <1>4, HeadTailProperties DEF Receive, TypeOK
    <2>2. outcome' \in [Calls -> Outcomes]
      BY <1>4 DEF Receive, End, TypeOK, Outcomes
    <2>3. QED BY <1>4, <2>1, <2>2 DEF Receive, End, TypeOK
  <1>5. CASE Close
    BY <1>5, EmptySeq DEF Close, TypeOK
  <1>6. ASSUME NEW p \in Packets, Deliver(p) PROVE TypeOK'
    <2>1. toClient' \in [Packets -> Nat]
      BY <1>6, CopiesType DEF Deliver, TypeOK
    <2>2. inbox' \in Seq(Packets \cup {Stranger})
      BY <1>6, AppendProperties DEF Deliver, TypeOK
    <2>3. QED BY <1>6, <2>1, <2>2 DEF Deliver, TypeOK
  <1>7. ASSUME NEW p \in Packets, RepeatRequest(p) \/ RepeatAnswer(p) PROVE TypeOK'
    <2>1. /\ toServer' = toServer \/ toServer' = More(toServer, p)
          /\ toClient' = toClient \/ toClient' = More(toClient, p)
          /\ faults' = faults + 1 /\ extra' \subseteq extra \cup {p}
          /\ UNCHANGED <<clock, calls, loop, inbox, closed, tasks, filter>>
      BY <1>7 DEF RepeatRequest, RepeatAnswer, Fault
    <2>2. toServer \in [Packets -> Nat] /\ toClient \in [Packets -> Nat]
      BY DEF TypeOK
    <2>3. toServer' \in [Packets -> Nat] /\ toClient' \in [Packets -> Nat]
      BY <2>1, <2>2, CopiesType
    <2>4. QED BY <2>1, <2>3 DEF TypeOK
  <1>8. ASSUME NEW a \in Packets \cup {Stranger}, Misroute(a) PROVE TypeOK'
    <2>1. inbox' \in Seq(Packets \cup {Stranger})
      BY <1>8, AppendProperties DEF Misroute, TypeOK
    <2>2. QED BY <1>8, <2>1 DEF Misroute, Fault, TypeOK
  <1>9. ASSUME NEW t \in Tasks, NEW p \in Packets, Arrive(t, p) PROVE TypeOK'
    <2>1. toServer' \in [Packets -> Nat]
      BY <1>9, CopiesType DEF Arrive, TypeOK
    <2>2. QED BY <1>9, <2>1 DEF Arrive, Goto, TypeOK
  <1>10. ASSUME NEW t \in Tasks, CheckDuplicate(t) PROVE TypeOK'
    <2> DEFINE new == [packet |-> request[t], time |-> now[t]]
    <2>1. /\ request[t] \in Packets /\ now[t] \in Nat
          /\ executed' = executed \/ executed' = [executed EXCEPT ![request[t]] = @ + 1]
          /\ executedAt' = executedAt \/ executedAt' = [executedAt EXCEPT ![request[t]] = clock]
          /\ toClient' = toClient \/ toClient' = More(toClient, request[t])
          /\ passed' \subseteq passed \cup {request[t]}
          /\ received' \subseteq received \/ received' = Fresh(now[t]) \cup {new}
      BY <1>10, Filter
    <2>2. /\ toClient' \in [Packets -> Nat] /\ executed' \in [Packets -> Nat]
          /\ executedAt' \in [Packets -> Nat]
      <3>1. /\ clock \in Nat /\ executed \in [Packets -> Nat]
            /\ executedAt \in [Packets -> Nat] /\ toClient \in [Packets -> Nat]
        BY DEF TypeOK
      <3>2. executed' \in [Packets -> Nat]
        BY <2>1, <3>1
      <3>3. executedAt' \in [Packets -> Nat]
        BY <2>1, <3>1
      <3>4. toClient' \in [Packets -> Nat]
        BY <2>1, <3>1, CopiesType
      <3>5. QED BY <3>2, <3>3, <3>4
    <2>3. received' \subseteq Entry
      <3>1. new \in Entry
        BY <2>1 DEF Entry
      <3>2. Fresh(now[t]) \subseteq received /\ received \subseteq Entry
        BY DEF Fresh, TypeOK
      <3> HIDE DEF new
      <3>3. QED BY <2>1, <3>1, <3>2
    <2>4. passed' \subseteq Packets
      BY <2>1 DEF TypeOK
    <2>5. QED BY <1>10, <2>2, <2>3, <2>4 DEF CheckDuplicate, Goto, TypeOK
  <1>11. CASE Tick
    BY <1>11 DEF Tick, TypeOK
  <1>12. CASE UNCHANGED vars
    BY <1>12 DEF vars, TypeOK
  <1>13. QED
    BY <1>1, <1>2, <1>3, <1>4, <1>5, <1>6, <1>7, <1>8, <1>9, <1>10, <1>11, <1>12
    DEF Next, Communicate, Network, Server

(* The types of the client, the network and the server: what a task works   *)
(* on is a packet that was sent, and a call sends one of its own or an      *)
(* earlier call's.                                                          *)
THEOREM TypeCorrect == Spec => []TypeOK
  BY InitType, NextType, PTL DEF Spec

-----------------------------------------------------------------------------
(* How often the server executes a packet. *)

(* The entry made for the last execution of a packet is in the list of      *)
(* received packets, with a time that is early by the lag at most, until    *)
(* its interval less the lag is over: the clean-up of another thread, with  *)
(* a clock that is not ahead of time, takes it no sooner.                   *)
Recorded ==
  /\ \A t \in Tasks : pc[t] = "check" => now[t] <= clock
  /\ \A p \in Packets \ passed : executed[p] > 0 =>
       \/ \E e \in received : e.packet = p /\ executedAt[p] - e.time <= MaxLag
       \/ clock - executedAt[p] > DuplicateInterval - MaxLag

(* An entry that a thread finds expired.                                    *)
LEMMA ExpiredLate ==
  ASSUME TypeOK, NEW t \in Tasks, now[t] <= clock, NEW p \in Packets, NEW e \in received,
         executedAt[p] - e.time <= MaxLag, e \notin Fresh(now[t])
  PROVE  clock - executedAt[p] > DuplicateInterval - MaxLag
  <1>1. e.time \in Nat /\ now[t] \in Nat /\ clock \in Nat /\ executedAt[p] \in Nat
    BY DEF TypeOK, Entry
  <1>2. e.time < now[t] - DuplicateInterval
    BY DEF Fresh, Expired
  <1>3. QED
    BY <1>1, <1>2, ServerAssumption, BoundsAssumption

(* Every step keeps it. *)
LEMMA NextRecorded == TypeOK /\ Recorded /\ [Next]_vars => Recorded'
  <1> SUFFICES ASSUME TypeOK, Recorded, [Next]_vars PROVE Recorded'
    OBVIOUS
  <1> USE DEF calls, loop, network, tasks, filter, history
  <1>1. ASSUME NEW t \in Tasks, CheckDuplicate(t) PROVE Recorded'
    <2>1. clock' = clock /\ \A s \in Tasks : pc'[s] = "check" => pc[s] = "check" /\ now'[s] = now[s]
      BY <1>1 DEF CheckDuplicate, Goto, TypeOK
    <2>2. now[t] <= clock
      BY <1>1, Filter DEF Recorded
    <2> SUFFICES ASSUME NEW p \in Packets \ passed', executed'[p] > 0
                 PROVE  \/ \E e \in received' : e.packet = p /\ executedAt'[p] - e.time <= MaxLag
                        \/ clock - executedAt'[p] > DuplicateInterval - MaxLag
      BY <2>1 DEF Recorded
    <2>3. p \in Packets \ passed /\ Fresh(now[t]) \subseteq received'
      BY <1>1, Filter
    <2>4. CASE executed'[p] = executed[p] /\ executedAt'[p] = executedAt[p]
      <3>1. \/ \E e \in received : e.packet = p /\ executedAt[p] - e.time <= MaxLag
            \/ clock - executedAt[p] > DuplicateInterval - MaxLag
        BY <2>3, <2>4 DEF Recorded
      <3>2. QED BY <2>2, <2>3, <2>4, <3>1, ExpiredLate
    <2>5. CASE ~(executed'[p] = executed[p] /\ executedAt'[p] = executedAt[p])
      <3>1. /\ p = request[t] /\ executedAt' = [executedAt EXCEPT ![request[t]] = clock]
            /\ received' = Fresh(now[t]) \cup {[packet |-> request[t], time |-> now[t]]}
        BY <1>1, <2>5, Filter DEF TypeOK
      <3>2. executedAt'[p] = clock /\ clock - now[t] <= MaxLag
        BY <1>1, <3>1, Filter DEF TypeOK
      <3> DEFINE e == [packet |-> request[t], time |-> now[t]]
      <3>3. e \in received' /\ e.packet = p /\ e.time = now[t]
        BY <3>1
      <3> HIDE DEF e
      <3>4. QED BY <3>2, <3>3
    <2>6. QED BY <2>4, <2>5
  <1>2. CASE Tick
    <2>1. UNCHANGED <<pc, now, received, executed, executedAt, passed>> /\ clock' = clock + 1
      BY <1>2 DEF Tick
    <2>2. \A t \in Tasks : pc[t] = "check" => now[t] <= clock + 1
      BY DEF Recorded, TypeOK
    <2>3. clock \in Nat /\ executedAt \in [Packets -> Nat]
      BY DEF TypeOK
    <2>4. \A p \in Packets \ passed : executed[p] > 0 =>
            \/ \E e \in received : e.packet = p /\ executedAt[p] - e.time <= MaxLag
            \/ clock' - executedAt[p] > DuplicateInterval - MaxLag
      <3> SUFFICES ASSUME NEW p \in Packets \ passed, executed[p] > 0,
                          ~(clock' - executedAt[p] > DuplicateInterval - MaxLag)
                   PROVE  \E e \in received : e.packet = p /\ executedAt[p] - e.time <= MaxLag
        OBVIOUS
      <3>1. ~(clock - executedAt[p] > DuplicateInterval - MaxLag)
        BY <2>1, <2>3, ServerAssumption, BoundsAssumption
      <3>2. QED BY <3>1 DEF Recorded
    <2>5. \A t \in Tasks : pc'[t] = "check" => now'[t] <= clock'
      BY <2>1, <2>2
    <2>6. QED BY <2>1, <2>4, <2>5 DEF Recorded
  <1>3. ASSUME NEW t \in Tasks, NEW p \in Packets, Arrive(t, p) PROVE Recorded'
    <2>1. UNCHANGED <<clock, received, executed, executedAt, passed>>
      BY <1>3 DEF Arrive
    <2>2. \A s \in Tasks : pc'[s] = "check" => now'[s] <= clock
      BY <1>3 DEF Arrive, Goto, Recorded, TypeOK
    <2>3. QED BY <2>1, <2>2 DEF Recorded
  <1>4. CASE UNCHANGED <<clock, tasks, filter>>
    BY <1>4 DEF Recorded
  <1>5. QED
    BY <1>1, <1>2, <1>3, <1>4 DEF Next, vars, Call, Communicate, Send, SendFails, ReceiveFails,
       Receive, Close, Network, Server, Deliver, RepeatRequest, RepeatAnswer, Misroute

(* A packet executed again had no entry left that matched it. *)
LEMMA NextExecution ==
  ASSUME TypeOK, Recorded, [Next]_vars, NEW p \in Packets,
         executed[p] > 0, executed'[p] > executed[p]
  PROVE  p \in passed' \/ clock - executedAt[p] > DuplicateInterval - MaxLag
  <1> USE DEF calls, loop, network, tasks, filter, history
  <1>1. ASSUME NEW t \in Tasks, CheckDuplicate(t)
        PROVE  p \in passed' \/ clock - executedAt[p] > DuplicateInterval - MaxLag
    <2>1. p = request[t] /\ (p \in passed' \/ (passed' = passed /\ Matches(t) = {}))
      BY <1>1, Filter DEF TypeOK
    <2>2. CASE p \notin passed /\ Matches(t) = {}
      <3>1. now[t] <= clock
        BY <1>1, Filter DEF Recorded
      <3>2. \A e \in received : e.packet = p => e \notin Fresh(now[t])
        BY <2>1, <2>2 DEF Matches
      <3>3. QED BY <2>2, <3>1, <3>2, ExpiredLate DEF Recorded
    <2>3. QED BY <2>1, <2>2
  <1>2. CASE UNCHANGED executed
    BY <1>2 DEF TypeOK
  <1>3. QED
    BY <1>1, <1>2 DEF Next, vars, Call, Communicate, Send, SendFails, ReceiveFails, Receive,
       Close, Network, Server, Deliver, RepeatRequest, RepeatAnswer, Misroute, Arrive, Tick

(* However often a packet is repeated and however late its copies arrive,   *)
(* it is executed again only after the interval less the lag of a thread,   *)
(* or when an identifier in use was given to another packet                 *)
(* (isPacketDuplicate).                                                     *)
THEOREM ExecutedOnceInTheInterval == Spec => ExecutedOnce
  <1>1. Init => Recorded
    BY DEF Init, Recorded
  <1>2. TypeOK /\ Recorded /\ [Next]_vars =>
          [\A p \in Packets :
             executed[p] > 0 /\ executed'[p] > executed[p] =>
               p \in passed' \/ clock - executedAt[p] > DuplicateInterval - MaxLag]_vars
    BY NextExecution
  <1>3. QED
    BY <1>1, <1>2, NextRecorded, TypeCorrect, PTL DEF Spec, ExecutedOnce

-----------------------------------------------------------------------------
(* What a call that ended shows. *)

(* The places of a packet's answers in a buffer. *)
Places(p, s) == {i \in 1 .. Len(s) : s[i] = p}

(* Every answer in the buffer, on its way or read, but for those the network*)
(* repeated or the server misrouted, was made by an execution of its packet.*)
Backed ==
  /\ \A p \in Packets \ extra :
       Cardinality(Places(p, inbox)) + toClient[p] + Cardinality(Answered(p)) <= executed[p]
  /\ Places(Stranger, inbox) # {} => Stranger \in extra

(* What the server has seen was sent by a call, and a call that has ended   *)
(* is over.                                                                 *)
Sent ==
  /\ \A p \in Packets :
       \/ executed[p] > 0 \/ toServer[p] > 0
       \/ \E t \in Tasks : pc[t] = "check" /\ request[t] = p
       => \E d \in 1 .. call : packet[d] = p
  /\ \A c \in Calls : outcome[c] # "none" => c <= call /\ (c = call => phase = "idle")

(* The places of a packet's answers can be counted. *)
LEMMA PlacesFinite ==
  ASSUME NEW S, NEW s \in Seq(S), NEW c
  PROVE  IsFiniteSet(Places(c, s)) /\ Cardinality(Places(c, s)) \in Nat
  <1>1. Len(s) \in Nat
    OBVIOUS
  <1>2. IsFiniteSet(1 .. Len(s))
    BY <1>1, FS_Interval
  <1>3. Places(c, s) \in SUBSET (1 .. Len(s))
    BY DEF Places
  <1>4. QED BY <1>2, <1>3, FS_Subset, FS_CardinalityType

(* An answer delivered is one more for its packet. *)
LEMMA PlacesAppend ==
  ASSUME NEW S, NEW s \in Seq(S), NEW c, NEW d \in S
  PROVE  Cardinality(Places(c, Append(s, d))) =
           Cardinality(Places(c, s)) + (IF c = d THEN 1 ELSE 0)
  <1> DEFINE n == Len(s) + 1
             a == Append(s, d)
  <1>1. /\ n \in Nat /\ Len(a) = n /\ a[n] = d
        /\ \A i \in 1 .. Len(s) : a[i] = s[i]
    BY AppendProperties
  <1>2. n \notin Places(c, s)
    BY DEF Places
  <1>3. 1 .. n = (1 .. Len(s)) \cup {n}
    OBVIOUS
  <1>4. Places(c, a) = IF c = d THEN Places(c, s) \cup {n} ELSE Places(c, s)
    <2> HIDE DEF n, a
    <2>1. QED BY <1>1, <1>3 DEF Places
  <1> HIDE DEF n, a
  <1>5. Cardinality(Places(c, a)) = Cardinality(Places(c, s)) + (IF c = d THEN 1 ELSE 0)
    <2>1. IsFiniteSet(Places(c, s)) /\ Cardinality(Places(c, s)) \in Nat
      BY PlacesFinite
    <2>2. Cardinality(Places(c, s) \cup {n}) = Cardinality(Places(c, s)) + 1
      BY <1>2, <2>1, FS_AddElement
    <2>3. QED BY <1>4, <2>1, <2>2
  <1>6. QED BY <1>5 DEF a

(* An answer read is one less for its packet: the others move up. *)
LEMMA PlacesTail ==
  ASSUME NEW S, NEW s \in Seq(S), s # <<>>, NEW c
  PROVE  Cardinality(Places(c, s)) =
           Cardinality(Places(c, Tail(s))) + (IF c = Head(s) THEN 1 ELSE 0)
  <1> DEFINE P == Places(c, s)
             Q == Places(c, Tail(s))
             f == [i \in Q |-> i + 1]
  <1>1. /\ Len(s) \in Nat \ {0} /\ Len(Tail(s)) = Len(s) - 1 /\ Tail(s) \in Seq(S)
        /\ \A i \in 1 .. Len(Tail(s)) : Tail(s)[i] = s[i + 1]
        /\ Head(s) = s[1]
    BY HeadTailProperties
  <1>2. \A i \in Q : i \in Nat /\ i >= 1 /\ i + 1 \in P
    BY <1>1 DEF Places
  <1>3. \A j \in P \ {1} : j \in Nat /\ j - 1 \in Q
    <2> SUFFICES ASSUME NEW j \in P \ {1} PROVE j \in Nat /\ j - 1 \in Q
      OBVIOUS
    <2>1. j \in 2 .. Len(s) /\ s[j] = c
      BY <1>1 DEF Places
    <2>2. j - 1 \in 1 .. Len(Tail(s)) /\ (j - 1) + 1 = j
      BY <1>1, <2>1
    <2>3. QED BY <1>1, <2>1, <2>2 DEF Places
  <1>4. IsFiniteSet(P) /\ IsFiniteSet(Q) /\ Cardinality(P) \in Nat /\ Cardinality(Q) \in Nat
    BY <1>1, PlacesFinite
  <1>5. 1 \in P <=> c = Head(s)
    BY <1>1 DEF Places
  <1> HIDE DEF P, Q
  <1>6. f \in Bijection(Q, P \ {1})
    <2>1. f \in [Q -> P \ {1}]
      BY <1>2
    <2>2. \A a, b \in Q : f[a] = f[b] => a = b
      BY <1>2
    <2>3. ASSUME NEW j \in P \ {1} PROVE \E i \in Q : f[i] = j
      <3>1. j - 1 \in Q /\ f[j - 1] = (j - 1) + 1 /\ j \in Nat
        BY <1>3
      <3>2. QED BY <3>1
    <2>4. QED BY <2>1, <2>2, <2>3 DEF Bijection, Injection, Surjection, IsInjective
  <1>7. ExistsBijection(Q, P \ {1})
    BY <1>6 DEF ExistsBijection
  <1>8. Cardinality(P \ {1}) = Cardinality(Q)
    BY <1>4, <1>7, FS_Bijection
  <1>9. Cardinality(P \ {1}) = IF 1 \in P THEN Cardinality(P) - 1 ELSE Cardinality(P)
    BY <1>4, FS_RemoveElement
  <1>10. Cardinality(P) = Cardinality(Q) + (IF c = Head(s) THEN 1 ELSE 0)
    BY <1>4, <1>5, <1>8, <1>9
  <1>11. QED BY <1>10 DEF P, Q

(* The calls answered can be counted. *)
LEMMA AnsweredFinite ==
  ASSUME NEW p
  PROVE  IsFiniteSet(Answered(p)) /\ Cardinality(Answered(p)) \in Nat
  <1>1. IsFiniteSet(Calls)
    BY BoundsAssumption, FS_Interval DEF Calls
  <1>2. Answered(p) \in SUBSET Calls
    BY DEF Answered
  <1>3. QED BY <1>1, <1>2, FS_Subset, FS_CardinalityType

(* What a step may not undo: packets that were given, calls that ended,     *)
(* executions and faults.                                                   *)
LEMMA Kept ==
  ASSUME TypeOK, [Next]_vars
  PROVE  /\ extra \subseteq extra' /\ call' >= call
         /\ \A p \in Packets : executed'[p] >= executed[p]
         /\ \A c \in Calls : c <= call => packet'[c] = packet[c]
         /\ \A c \in Calls : c # call => outcome'[c] = outcome[c]
         /\ ~Receive => \A c \in Calls : outcome'[c] \in {outcome[c], "failed"}
  <1> USE DEF calls, loop, network, tasks, filter, history
  <1>0. call \in Nat /\ executed \in [Packets -> Nat]
    BY DEF TypeOK
  <1>1. CASE Call
    <2>1. \E p : packet' = [packet EXCEPT ![call + 1] = p]
      BY <1>1 DEF Call
    <2>2. UNCHANGED <<outcome, executed, extra>> /\ call' = call + 1
      BY <1>1 DEF Call
    <2>3. QED BY <1>0, <2>1, <2>2 DEF Calls, TypeOK
  <1>2. CASE SendFails \/ ReceiveFails
    <2>1. phase # "idle" /\ Retry /\ UNCHANGED <<call, packet, executed, extra>>
      BY <1>2 DEF SendFails, ReceiveFails
    <2>2. QED BY <1>0, <2>1, RetryType DEF TypeOK
  <1>3. CASE Receive
    BY <1>0, <1>3 DEF Receive, End, TypeOK
  <1>4. ASSUME NEW t \in Tasks, CheckDuplicate(t)
        PROVE  UNCHANGED <<calls, extra>> /\ \A p \in Packets : executed'[p] >= executed[p]
    <2>1. UNCHANGED <<calls, extra>>
      BY <1>4 DEF CheckDuplicate
    <2>2. executed' = executed \/ executed' = [executed EXCEPT ![request[t]] = @ + 1]
      BY <1>4, Filter
    <2>3. QED BY <1>0, <2>1, <2>2
  <1>5. CASE UNCHANGED <<calls, executed>> /\ extra \subseteq extra'
    BY <1>0, <1>5
  <1>6. QED
    BY <1>0, <1>1, <1>2, <1>3, <1>4, <1>5 DEF Next, vars, Communicate, Send, Close, Network, Server,
       Deliver, RepeatRequest, RepeatAnswer, Misroute, Arrive, Tick

(* Every step keeps what is sent in order. *)
LEMMA NextSent == TypeOK /\ Sent /\ [Next]_vars => Sent'
  <1> SUFFICES ASSUME TypeOK, Sent, [Next]_vars PROVE Sent'
    OBVIOUS
  <1> USE DEF calls, loop, network, tasks, filter, history
  <1> DEFINE Seen(p) == \/ executed[p] > 0 \/ toServer[p] > 0
                        \/ \E t \in Tasks : pc[t] = "check" /\ request[t] = p
             Given(p) == \E d \in 1 .. call : packet[d] = p
  <1>0. call \in Nat /\ call' \in Nat /\ call' >= call /\ call <= MaxCalls
    BY NextType, Kept DEF TypeOK
  <1>1. \A p \in Packets : Given(p) => Given(p)'
    <2> SUFFICES ASSUME NEW p \in Packets, NEW d \in 1 .. call, packet[d] = p
                 PROVE  d \in 1 .. call' /\ packet'[d] = p
      OBVIOUS
    <2>1. d \in Calls /\ d <= call /\ d \in 1 .. call'
      BY <1>0, BoundsAssumption DEF Calls
    <2>2. QED BY <2>1, Kept
  <1>2. ASSUME NEW p \in Packets, Seen(p)' PROVE Given(p)'
    <2>1. CASE Seen(p)
      BY <1>1, <2>1 DEF Sent
    <2>2. CASE ~Seen(p)
      <3>1. CASE Send
        <4>1. p = packet[call] /\ call \in 1 .. call /\ UNCHANGED <<call, packet>>
          <5>1. UNCHANGED <<executed, pc, request>> /\ phase # "idle"
            BY <3>1 DEF Send
          <5>2. toServer' = [toServer EXCEPT ![packet[call]] = @ + 1] /\ UNCHANGED <<call, packet>>
            BY <3>1 DEF Send
          <5>3. call \in 1 .. call
            BY <5>1 DEF TypeOK, Calls
          <5>4. QED BY <1>2, <2>2, <5>1, <5>2, <5>3 DEF TypeOK
        <4>2. QED BY <4>1
      <3>2. ASSUME NEW q \in Packets,
                   \/ RepeatRequest(q) \/ Deliver(q) \/ RepeatAnswer(q)
                   \/ \E t \in Tasks : Arrive(t, q)
            PROVE  FALSE
        <4>1. executed' = executed
          BY <3>2 DEF RepeatRequest, Deliver, RepeatAnswer, Arrive
        <4>2. CASE RepeatRequest(q) \/ Deliver(q) \/ RepeatAnswer(q)
          BY <1>2, <2>2, <4>1, <4>2 DEF RepeatRequest, Deliver, RepeatAnswer, More, TypeOK
        <4>3. ASSUME NEW t \in Tasks, Arrive(t, q) PROVE FALSE
          <5>1. /\ toServer[q] > 0 /\ toServer' = Less(toServer, q)
                /\ request' = [request EXCEPT ![t] = q] /\ pc' = [pc EXCEPT ![t] = "check"]
            BY <4>3 DEF Arrive, Goto
          <5>2. p # q
            BY <2>2, <5>1
          <5>3. toServer'[p] = toServer[p]
            BY <5>1, <5>2 DEF Less, TypeOK
          <5>4. QED BY <1>2, <2>2, <4>1, <5>1, <5>2, <5>3 DEF TypeOK
        <4>4. QED BY <3>2, <4>2, <4>3
      <3>3. ASSUME NEW t \in Tasks, CheckDuplicate(t) PROVE FALSE
        <4>1. UNCHANGED toServer /\ request' = [request EXCEPT ![t] = Stranger]
          BY <3>3 DEF CheckDuplicate
        <4>2. /\ executed' = executed \/ executed' = [executed EXCEPT ![request[t]] = @ + 1]
              /\ pc[t] = "check" /\ pc' = [pc EXCEPT ![t] = "idle"]
          BY <3>3, Filter
        <4>3. p # request[t]
          BY <2>2, <4>2
        <4>4. executed'[p] = executed[p]
          BY <4>2, <4>3 DEF TypeOK
        <4>5. QED BY <1>2, <2>2, <4>1, <4>2, <4>4 DEF TypeOK
      <3>4. CASE UNCHANGED <<executed, toServer, pc, request>>
        BY <1>2, <2>2, <3>4
      <3>5. QED
        BY <3>1, <3>2, <3>3, <3>4 DEF Next, vars, Call, Communicate, SendFails, ReceiveFails,
           Receive, Close, Network, Server, Misroute, Tick
    <2>3. QED BY <2>1, <2>2
  <1>3. ASSUME NEW c \in Calls, outcome'[c] # "none"
        PROVE  c <= call' /\ (c = call' => phase' = "idle")
    <2>0. c \in Nat
      BY DEF Calls
    <2>1. CASE Call
      BY <1>0, <1>3, <2>0, <2>1 DEF Call, Sent
    <2>2. CASE SendFails \/ ReceiveFails
      <3>1. phase # "idle" /\ Retry /\ call' = call
        BY <2>2 DEF SendFails, ReceiveFails
      <3>2. \/ outcome' = outcome
            \/ outcome' = [outcome EXCEPT ![call] = "failed"] /\ phase' = "idle"
        BY <3>1, RetryType
      <3>3. outcome'[c] = outcome[c] \/ (c = call /\ phase' = "idle")
        BY <3>2 DEF TypeOK
      <3>4. QED BY <1>0, <1>3, <3>1, <3>3 DEF Sent
    <2>3. CASE Receive
      BY <1>0, <1>3, <2>0, <2>3 DEF Receive, End, Sent, TypeOK
    <2>4. CASE UNCHANGED <<call, outcome>> /\ (phase' = phase \/ Send)
      BY <1>3, <2>4 DEF Sent, Send
    <2>5. QED
      BY <2>1, <2>2, <2>3, <2>4 DEF Next, vars, Communicate, Send, Close, Network, Server, Deliver,
         RepeatRequest, RepeatAnswer, Misroute, Arrive, CheckDuplicate, Tick
  <1>4. QED
    BY <1>2, <1>3 DEF Sent

(* A step that reads nothing leaves the calls answered as they were.        *)
LEMMA AnsweredKept ==
  ASSUME TypeOK, Sent, [Next]_vars, ~Receive, NEW p
  PROVE  Answered(p)' = Answered(p)
  <1>1. ASSUME NEW c \in Calls
        PROVE  /\ outcome'[c] = "answered" <=> outcome[c] = "answered"
               /\ outcome[c] = "answered" => packet'[c] = packet[c]
    <2>1. outcome[c] = "answered" => c <= call /\ (c = call => phase = "idle")
      BY DEF Sent
    <2>2. c = call /\ phase = "idle" => outcome'[c] = outcome[c]
      <3> SUFFICES ASSUME phase = "idle" PROVE outcome' = outcome
        OBVIOUS
      <3> USE DEF calls, loop, network, tasks, filter, history
      <3>1. QED
        BY DEF Next, vars, Call, Communicate, Send, SendFails, ReceiveFails, Receive,
           Close, Network, Server, Deliver, RepeatRequest, RepeatAnswer, Misroute, Arrive,
           CheckDuplicate, Tick
    <2>3. QED BY <2>1, <2>2, Kept
  <1>2. QED BY <1>1 DEF Answered

(* Initially nothing is on its way. *)
LEMMA InitBacked == Init => Backed /\ Sent
  <1> SUFFICES ASSUME Init PROVE Backed /\ Sent
    OBVIOUS
  <1>1. \A p : Places(p, inbox) = {} /\ Answered(p) = {}
    BY EmptySeq DEF Places, Answered, Init
  <1>2. Cardinality({}) = 0
    BY FS_EmptySet
  <1>3. \A p : Cardinality(Places(p, inbox)) = 0 /\ Cardinality(Answered(p)) = 0
    BY <1>1, <1>2
  <1>4. Backed
    BY <1>1, <1>3 DEF Backed, Init
  <1>5. Sent
    BY DEF Sent, Init
  <1>6. QED BY <1>4, <1>5

(* Every step keeps every answer backed by an execution. *)
LEMMA NextBacked == TypeOK /\ Sent /\ Backed /\ [Next]_vars => Backed'
  <1> SUFFICES ASSUME TypeOK, Sent, Backed, [Next]_vars PROVE Backed'
    OBVIOUS
  <1> USE DEF calls, loop, network, tasks, filter, history
  <1> DEFINE S == Packets \cup {Stranger}
             n(p, s) == Cardinality(Places(p, s))
             r(p) == Cardinality(Answered(p))
  <1>0. inbox \in Seq(S) /\ inbox' \in Seq(S)
    BY NextType DEF TypeOK
  <1>1. \A p \in Packets :
          /\ n(p, inbox) \in Nat /\ n(p, inbox') \in Nat /\ r(p) \in Nat /\ r(p)' \in Nat
          /\ toClient[p] \in Nat /\ executed[p] \in Nat
    <2>1. \A p : n(p, inbox) \in Nat /\ n(p, inbox') \in Nat
      BY <1>0, PlacesFinite
    <2>2. \A p : r(p) \in Nat
      BY AnsweredFinite
    <2>3. \A p : r(p)' \in Nat
      <3> SUFFICES ASSUME NEW p PROVE Cardinality(Answered(p)') \in Nat
        OBVIOUS
      <3>1. IsFiniteSet(Calls)
        BY BoundsAssumption, FS_Interval DEF Calls
      <3>2. Answered(p)' \in SUBSET Calls
        BY DEF Answered
      <3>3. QED BY <3>1, <3>2, FS_Subset, FS_CardinalityType
    <2>4. QED BY <2>1, <2>2, <2>3 DEF TypeOK
  <1>2. /\ \A p \in Packets \ extra : n(p, inbox) + toClient[p] + r(p) <= executed[p]
        /\ Places(Stranger, inbox) # {} => Stranger \in extra
    BY DEF Backed
  <1> SUFFICES /\ \A p \in Packets \ extra' : n(p, inbox') + toClient'[p] + r(p)' <= executed'[p]
               /\ Places(Stranger, inbox') # {} => Stranger \in extra'
    BY DEF Backed, Places
  <1>3. CASE Receive
    <2>1. /\ inbox # <<>> /\ inbox' = Tail(inbox) /\ UNCHANGED <<toClient, executed, extra>>
          /\ UNCHANGED <<call, packet>> /\ phase = "receive"
          /\ outcome' = [outcome EXCEPT ![call] =
               IF Accepts(Head(inbox), packet[call]) THEN "answered" ELSE "mismatch"]
      BY <1>3 DEF Receive, End
    <2>2. call \in Calls /\ outcome[call] = "none"
      BY <2>1 DEF TypeOK, Sent
    <2>3. ASSUME NEW p \in Packets \ extra'
          PROVE  n(p, inbox') + toClient'[p] + r(p)' <= executed'[p]
      <3>1. n(p, inbox) = n(p, inbox') + (IF p = Head(inbox) THEN 1 ELSE 0)
        BY <1>0, <2>1, PlacesTail
      <3>2. CASE p = Head(inbox) /\ Accepts(Head(inbox), packet[call])
        <4>1. Answered(p)' = Answered(p) \cup {call} /\ call \notin Answered(p)
          BY <2>1, <2>2, <3>2 DEF Answered, Accepts, TypeOK
        <4>2. r(p)' = r(p) + 1
          BY <4>1, AnsweredFinite, FS_AddElement
        <4> HIDE DEF n, r
        <4>3. QED BY <1>1, <1>2, <2>1, <3>1, <3>2, <4>2
      <3>3. CASE ~(p = Head(inbox) /\ Accepts(Head(inbox), packet[call]))
        <4>1. Answered(p)' = Answered(p)
          BY <2>1, <2>2, <3>3 DEF Answered, Accepts, TypeOK
        <4>2. r(p)' = r(p)
          BY <4>1
        <4> HIDE DEF n, r
        <4>3. QED BY <1>1, <1>2, <2>1, <3>1, <4>2
      <3>4. QED BY <3>2, <3>3
    <2>4. Places(Stranger, inbox') # {} => Places(Stranger, inbox) # {}
      <3> SUFFICES ASSUME NEW i \in 1 .. Len(Tail(inbox)), Tail(inbox)[i] = Stranger
                   PROVE  Places(Stranger, inbox) # {}
        BY <2>1 DEF Places
      <3>1. /\ Len(inbox) \in Nat \ {0} /\ Len(Tail(inbox)) = Len(inbox) - 1
            /\ Tail(inbox)[i] = inbox[i + 1]
        BY <1>0, <2>1, HeadTailProperties
      <3>2. i + 1 \in Places(Stranger, inbox)
        BY <3>1 DEF Places
      <3>3. QED BY <3>2
    <2>5. QED BY <1>2, <2>1, <2>3, <2>4
  <1>4. CASE ~Receive
    <2>1. \A p : r(p)' = r(p)
      BY <1>4, AnsweredKept
    <2>2. ASSUME NEW q \in Packets, Deliver(q)
          PROVE  /\ \A p \in Packets \ extra' : n(p, inbox') + toClient'[p] + r(p)' <= executed'[p]
                 /\ Places(Stranger, inbox') # {} => Stranger \in extra'
      <3>1. inbox' = Append(inbox, q) /\ toClient' = Less(toClient, q) /\ toClient[q] > 0
            /\ UNCHANGED <<executed, extra>>
        BY <2>2 DEF Deliver
      <3>2. \A p : n(p, inbox') = n(p, inbox) + (IF p = q THEN 1 ELSE 0)
        BY <1>0, <3>1, PlacesAppend
      <3>3. \A p \in Packets : toClient'[p] = toClient[p] - (IF p = q THEN 1 ELSE 0)
        BY <3>1 DEF Less, TypeOK
      <3>4. Places(Stranger, inbox') # {} => Places(Stranger, inbox) # {}
        <4>1. q # Stranger
          BY DEF Packets, Calls, Stranger
        <4>2. QED BY <1>0, <3>1, <4>1, AppendProperties DEF Places
      <3> HIDE DEF n, r
      <3>5. ASSUME NEW p \in Packets \ extra'
            PROVE  n(p, inbox') + toClient'[p] + r(p)' <= executed'[p]
        <4>1. n(p, inbox) + toClient[p] + r(p) <= executed[p]
          BY <1>2, <3>1
        <4>2. n(p, inbox') + toClient'[p] = n(p, inbox) + toClient[p]
          <5>1. CASE p = q
            BY <1>1, <3>2, <3>3, <5>1
          <5>2. CASE p # q
            BY <1>1, <3>2, <3>3, <5>2
          <5>3. QED BY <5>1, <5>2
        <4>3. QED BY <2>1, <3>1, <4>1, <4>2
      <3>6. QED BY <1>2, <3>1, <3>4, <3>5
    <2>3. ASSUME NEW a \in S, Misroute(a)
          PROVE  /\ \A p \in Packets \ extra' : n(p, inbox') + toClient'[p] + r(p)' <= executed'[p]
                 /\ Places(Stranger, inbox') # {} => Stranger \in extra'
      <3>1. inbox' = Append(inbox, a) /\ extra' = extra \cup {a} /\ UNCHANGED <<toClient, executed>>
        BY <2>3 DEF Misroute
      <3>2. \A p : n(p, inbox') = n(p, inbox) + (IF p = a THEN 1 ELSE 0)
        BY <1>0, <3>1, PlacesAppend
      <3>3. Places(Stranger, inbox') # {} => Places(Stranger, inbox) # {} \/ a = Stranger
        BY <1>0, <3>1, AppendProperties DEF Places
      <3> HIDE DEF n, r
      <3>4. QED BY <1>1, <1>2, <2>1, <3>1, <3>2, <3>3
    <2>4. ASSUME NEW q \in Packets, RepeatAnswer(q)
          PROVE  /\ \A p \in Packets \ extra' : n(p, inbox') + toClient'[p] + r(p)' <= executed'[p]
                 /\ Places(Stranger, inbox') # {} => Stranger \in extra'
      <3>1. toClient' = More(toClient, q) /\ extra' = extra \cup {q} /\ UNCHANGED <<inbox, executed>>
        BY <2>4 DEF RepeatAnswer
      <3>2. \A p \in Packets \ {q} : toClient'[p] = toClient[p]
        BY <3>1 DEF More, TypeOK
      <3> HIDE DEF n, r
      <3>3. QED BY <1>1, <1>2, <2>1, <3>1, <3>2
    <2>5. ASSUME NEW t \in Tasks, CheckDuplicate(t)
          PROVE  /\ \A p \in Packets \ extra' : n(p, inbox') + toClient'[p] + r(p)' <= executed'[p]
                 /\ Places(Stranger, inbox') # {} => Stranger \in extra'
      <3>1. UNCHANGED <<inbox, extra>>
        BY <2>5 DEF CheckDuplicate
      <3>2. \A p \in Packets :
              \/ toClient'[p] = toClient[p] /\ executed'[p] = executed[p]
              \/ toClient'[p] = toClient[p] + 1 /\ executed'[p] = executed[p] + 1
        <4>1. \/ UNCHANGED <<executed, toClient>>
              \/ /\ executed' = [executed EXCEPT ![request[t]] = @ + 1]
                 /\ toClient' = More(toClient, request[t])
          BY <2>5, Filter
        <4>2. QED BY <4>1 DEF More, TypeOK
      <3> HIDE DEF n, r
      <3>3. QED BY <1>1, <1>2, <2>1, <3>1, <3>2
    <2>6. CASE Close
      <3>1. inbox' = <<>> /\ UNCHANGED <<toClient, executed, extra>>
        BY <2>6 DEF Close
      <3>2. \A p : Places(p, inbox') = {}
        BY <3>1, EmptySeq DEF Places
      <3>3. \A p : n(p, inbox') = 0
        BY <3>2, FS_EmptySet
      <3> HIDE DEF n, r
      <3>4. QED BY <1>1, <1>2, <2>1, <3>1, <3>2, <3>3
    <2>7. CASE UNCHANGED <<inbox, toClient, executed, extra>>
      <3> HIDE DEF n, r
      <3>1. QED BY <1>2, <2>1, <2>7
    <2>8. QED
      BY <1>4, <2>2, <2>3, <2>4, <2>5, <2>6, <2>7 DEF Next, vars, Call, Communicate, Send,
         SendFails, ReceiveFails, Network, Server, RepeatRequest, Arrive, Tick
  <1>5. QED BY <1>3, <1>4

(* A call that returns was served, once for each call with its packet,      *)
(* unless its answer was repeated or another client's: for any number of    *)
(* earlier answers in the buffer, identifiers and requests sent again       *)
(* (communicate, decodePacket).                                             *)
THEOREM AnswersWereExecuted == Spec => []AnsweredMeansExecuted
  <1>1. TypeOK /\ Backed => AnsweredMeansExecuted
    <2> SUFFICES ASSUME TypeOK, Backed, NEW p \in Packets \ extra
                 PROVE  Cardinality(Answered(p)) <= executed[p]
      BY DEF AnsweredMeansExecuted
    <2>1. /\ Cardinality(Places(p, inbox)) \in Nat /\ Cardinality(Answered(p)) \in Nat
          /\ toClient[p] \in Nat /\ executed[p] \in Nat
      BY PlacesFinite, AnsweredFinite DEF TypeOK
    <2>2. QED BY <2>1 DEF Backed
  <1>2. QED
    BY <1>1, InitBacked, NextSent, NextBacked, TypeCorrect, PTL DEF Spec

(* Why a call ended with a RadiusException. *)
Cause(c, p) ==
  /\ p # packet[c]
  /\ \/ p \in extra
     \/ /\ p \in {packet[d] : d \in 1 .. c - 1}
        /\ executed[p] > Cardinality(AnsweredBefore(c, p))

(* The calls answered before one that has ended stay the same. *)
LEMMA BeforeKept ==
  ASSUME TypeOK, Sent, [Next]_vars, NEW c \in Calls, c <= call, NEW p
  PROVE  AnsweredBefore(c, p)' = AnsweredBefore(c, p)
  <1>1. \A d \in Calls : d < c => outcome'[d] = outcome[d] /\ packet'[d] = packet[d]
    <2> SUFFICES ASSUME NEW d \in Calls, d < c
                 PROVE  outcome'[d] = outcome[d] /\ packet'[d] = packet[d]
      OBVIOUS
    <2>1. d # call /\ d <= call
      BY DEF TypeOK, Calls
    <2>2. QED BY <2>1, Kept
  <1>2. QED BY <1>1 DEF AnsweredBefore, Answered

(* An answer that another call reads was extra, or one that no call with    *)
(* its packet had read.                                                     *)
LEMMA NextMismatch ==
  TypeOK /\ Sent /\ Backed /\ MismatchForCause /\ [Next]_vars => MismatchForCause'
  <1> SUFFICES ASSUME TypeOK, Sent, Backed, MismatchForCause, [Next]_vars,
                      NEW c \in Calls, outcome'[c] = "mismatch"
               PROVE  \E p \in Packets \cup {Stranger} : Cause(c, p)'
    BY DEF MismatchForCause, Cause
  <1> USE DEF calls, loop, network, tasks, filter, history
  <1>0. call \in Nat /\ c \in Nat /\ c >= 1
    BY DEF TypeOK, Calls
  <1>1. CASE outcome[c] = "mismatch"
    <2>1. PICK p \in Packets \cup {Stranger} : Cause(c, p)
      BY <1>1 DEF MismatchForCause, Cause
    <2>2. c <= call
      BY <1>1 DEF Sent
    <2>3. packet'[c] = packet[c] /\ extra \subseteq extra'
      BY <2>2, Kept
    <2>4. ASSUME p \in {packet[d] : d \in 1 .. c - 1},
                 executed[p] > Cardinality(AnsweredBefore(c, p))
          PROVE  /\ p \in {packet'[d] : d \in 1 .. c - 1}
                 /\ executed'[p] > Cardinality(AnsweredBefore(c, p)')
      <3>1. PICK d \in 1 .. c - 1 : packet[d] = p
        BY <2>4
      <3>2. d \in Calls /\ d <= call
        BY <1>0, <2>2, BoundsAssumption DEF Calls
      <3>3. packet'[d] = p /\ p \in Packets
        BY <3>1, <3>2, Kept DEF TypeOK
      <3>4. executed'[p] >= executed[p] /\ executed[p] \in Nat /\ executed'[p] \in Nat
        BY <3>3, Kept, NextType DEF TypeOK
      <3>5. AnsweredBefore(c, p)' = AnsweredBefore(c, p)
        BY <2>2, BeforeKept
      <3>6. IsFiniteSet(AnsweredBefore(c, p)) /\ Cardinality(AnsweredBefore(c, p)) \in Nat
        <4>1. AnsweredBefore(c, p) \in SUBSET Answered(p)
          BY DEF AnsweredBefore
        <4>2. QED BY <4>1, AnsweredFinite, FS_Subset, FS_CardinalityType
      <3>7. QED BY <2>4, <3>1, <3>3, <3>4, <3>5, <3>6
    <2>5. Cause(c, p)'
      BY <2>1, <2>3, <2>4 DEF Cause
    <2>6. QED BY <2>5
  <1>2. CASE outcome[c] # "mismatch"
    <2>0. PICK a : a = Head(inbox)
      OBVIOUS
    <2> DEFINE n == Cardinality(Places(a, inbox))
    <2>1. /\ Receive /\ c = call /\ phase = "receive"
          /\ inbox # <<>> /\ ~Accepts(a, packet[call])
          /\ UNCHANGED <<call, packet, executed, extra>>
      <3>1. Receive
        BY <1>2, Kept
      <3>2. QED BY <1>2, <2>0, <3>1 DEF Receive, End, TypeOK
    <2>2. a \in Packets \cup {Stranger} /\ a # packet[c]
      <3>1. a \in Packets \cup {Stranger}
        BY <2>0, <2>1, HeadTailProperties DEF TypeOK
      <3>2. packet[c] # Stranger
        BY <2>1, OurPacket
      <3>3. QED BY <2>1, <3>1, <3>2 DEF Accepts
    <2>3. n >= 1 /\ n \in Nat /\ Places(a, inbox) # {}
      <3>1. inbox \in Seq(Packets \cup {Stranger}) /\ Tail(inbox) \in Seq(Packets \cup {Stranger})
        BY <2>1, HeadTailProperties DEF TypeOK
      <3>2. Cardinality(Places(a, Tail(inbox))) \in Nat
        BY <3>1, PlacesFinite
      <3>3. n = Cardinality(Places(a, Tail(inbox))) + 1
        BY <2>0, <2>1, <3>1, PlacesTail
      <3>4. Places(a, inbox) # {}
        <4>1. n # 0
          BY <3>2, <3>3
        <4>2. QED BY <4>1, FS_EmptySet
      <3>5. QED BY <3>2, <3>3, <3>4
    <2>4. CASE a \in extra
      BY <2>1, <2>2, <2>4 DEF Cause
    <2>5. CASE a \notin extra
      <3>1. a \in Packets
        BY <2>2, <2>3, <2>5 DEF Backed
      <3>2. n + toClient[a] + Cardinality(Answered(a)) <= executed[a]
        BY <2>5, <3>1 DEF Backed
      <3>3. Cardinality(Answered(a)) \in Nat /\ toClient[a] \in Nat /\ executed[a] \in Nat
        BY <3>1, AnsweredFinite DEF TypeOK
      <3> HIDE DEF n
      <3>4. executed[a] > Cardinality(Answered(a)) /\ executed[a] > 0
        BY <2>3, <3>2, <3>3
      <3>5. AnsweredBefore(c, a)' = Answered(a)
        <4>1. AnsweredBefore(c, a)' = AnsweredBefore(c, a)
          BY <1>0, <2>1, BeforeKept
        <4>2. \A d \in Answered(a) : d < c
          <5> SUFFICES ASSUME NEW d \in Answered(a) PROVE d < c
            OBVIOUS
          <5>1. d \in Calls /\ outcome[d] = "answered"
            BY DEF Answered
          <5>2. d <= call /\ (d = call => phase = "idle")
            BY <5>1 DEF Sent
          <5>3. QED BY <1>0, <2>1, <5>1, <5>2 DEF Calls
        <4>3. QED BY <4>1, <4>2 DEF AnsweredBefore
      <3>6. PICK d \in 1 .. call : packet[d] = a
        BY <3>1, <3>4 DEF Sent
      <3>7. d \in 1 .. c - 1
        BY <1>0, <2>1, <2>2, <3>6
      <3>8. Cause(c, a)'
        BY <2>1, <2>2, <3>4, <3>5, <3>6, <3>7 DEF Cause
      <3>9. QED BY <2>2, <3>8
    <2>6. QED BY <2>4, <2>5
  <1>3. QED BY <1>1, <1>2

(* A call ends with a RadiusException only for the answer to another        *)
(* packet, which the network repeated, the server misrouted, or an earlier  *)
(* call left unread (communicate, decodePacket, makeDatagramPacket).        *)
THEOREM MismatchesHaveACause == Spec => []MismatchForCause
  <1>1. Init => MismatchForCause
    BY DEF Init, MismatchForCause
  <1>2. QED
    BY <1>1, InitBacked, NextSent, NextBacked, NextMismatch, TypeCorrect, PTL DEF Spec

-----------------------------------------------------------------------------
(* A call in progress. *)

(* The attempts that are left end before the clock's bound. *)
Budget ==
  /\ phase = "send" => clock + (RetryCount + 1 - attempt) * SocketTimeout <= MaxTime
  /\ phase = "receive" =>
       /\ clock <= deadline
       /\ deadline + (RetryCount - attempt) * SocketTimeout <= MaxTime

(* What communicate() can do: send, or fail to; read; give up waiting; or   *)
(* wait on.                                                                 *)
GoesOn ==
  phase # "idle" =>
    \/ phase = "send"
    \/ inbox # <<>>
    \/ closed
    \/ clock = deadline
    \/ clock < deadline /\ clock < MaxTime

(* One attempt less takes one timeout less. *)
LEMMA OneAttempt ==
  ASSUME NEW a \in 1 .. RetryCount
  PROVE  /\ (RetryCount + 1 - a) * SocketTimeout = (RetryCount - a) * SocketTimeout + SocketTimeout
         /\ (RetryCount - a) * SocketTimeout \in Nat
  <1> DEFINE n == RetryCount - a
  <1>1. n \in Nat /\ RetryCount + 1 - a = n + 1 /\ SocketTimeout \in Nat
    BY RetryAssumption
  <1> HIDE DEF n
  <1>2. (n + 1) * SocketTimeout = n * SocketTimeout + SocketTimeout /\ n * SocketTimeout \in Nat
    BY <1>1
  <1>3. QED BY <1>1, <1>2 DEF n

(* Every step keeps the attempts within the bound. *)
LEMMA NextBudget == TypeOK /\ Budget /\ [Next]_vars => Budget'
  <1> SUFFICES ASSUME TypeOK, Budget, [Next]_vars PROVE Budget'
    OBVIOUS
  <1> USE DEF calls, loop, network, tasks, filter, history
  <1> DEFINE rest(a) == (RetryCount - a) * SocketTimeout
             all(a) == (RetryCount + 1 - a) * SocketTimeout
  <1>0. /\ \A a \in 1 .. RetryCount : all(a) = rest(a) + SocketTimeout /\ rest(a) \in Nat
        /\ \A a \in 1 .. RetryCount : all(a + 1) = rest(a)
        /\ all(1) = RetryCount * SocketTimeout
        /\ SocketTimeout \in Nat /\ MaxTime \in Nat
        /\ clock \in Nat /\ deadline \in Nat /\ attempt \in 1 .. RetryCount
    <2>1. \A a \in 1 .. RetryCount : RetryCount + 1 - (a + 1) = RetryCount - a
      BY RetryAssumption
    <2>2. RetryCount + 1 - 1 = RetryCount
      BY RetryAssumption
    <2>3. QED BY <2>1, <2>2, OneAttempt, RetryAssumption, BoundsAssumption DEF TypeOK
  <1>1. /\ phase = "send" => clock + all(attempt) <= MaxTime
        /\ phase = "receive" => clock <= deadline /\ deadline + rest(attempt) <= MaxTime
    BY DEF Budget
  <1> SUFFICES /\ phase' = "send" => clock' + all(attempt') <= MaxTime
               /\ phase' = "receive" =>
                    clock' <= deadline' /\ deadline' + rest(attempt') <= MaxTime
    BY DEF Budget
  <1> HIDE DEF rest, all
  <1>2. CASE Call
    BY <1>0, <1>2 DEF Call
  <1>3. CASE Send
    BY <1>0, <1>1, <1>3 DEF Send
  <1>4. CASE SendFails \/ ReceiveFails
    <2>1. /\ UNCHANGED <<clock, deadline>>
          /\ \/ attempt < RetryCount /\ attempt' = attempt + 1 /\ phase' = "send"
             \/ phase' = "idle"
          /\ phase \in {"send", "receive"}
      BY <1>4 DEF SendFails, ReceiveFails, Retry, End
    <2>2. QED BY <1>0, <1>1, <2>1
  <1>5. CASE Receive
    BY <1>5 DEF Receive, End
  <1>6. CASE Close \/ Network \/ Server \/ UNCHANGED vars
    <2>1. UNCHANGED <<phase, clock, deadline, attempt>>
      BY <1>6 DEF Close, Network, Server, Deliver, RepeatRequest, RepeatAnswer, Misroute, Arrive,
         CheckDuplicate, vars
    <2>2. QED BY <1>1, <2>1
  <1>7. CASE Tick
    BY <1>0, <1>1, <1>7 DEF Tick
  <1>8. QED
    BY <1>2, <1>3, <1>4, <1>5, <1>6, <1>7 DEF Next, Communicate

(* A call is never stuck, whatever the network and the server do, and the   *)
(* bound of the clock cuts none off: its thread can take a step or time     *)
(* passes until it can (communicate).                                       *)
THEOREM CallsGoOn == Spec => []GoesOn
  <1>1. Init => Budget
    BY DEF Init, Budget
  <1>2. TypeOK /\ Budget => GoesOn
    <2> SUFFICES ASSUME TypeOK, Budget, phase = "receive" PROVE clock = deadline \/
                   (clock < deadline /\ clock < MaxTime)
      BY DEF GoesOn, TypeOK
    <2>1. (RetryCount - attempt) * SocketTimeout \in Nat
      BY OneAttempt DEF TypeOK
    <2> DEFINE r == (RetryCount - attempt) * SocketTimeout
    <2>2. clock <= deadline /\ deadline + r <= MaxTime /\ r \in Nat
      BY <2>1 DEF Budget
    <2> HIDE DEF r
    <2>3. QED BY <2>2, BoundsAssumption DEF TypeOK
  <1>3. QED
    BY <1>1, <1>2, NextBudget, TypeCorrect, PTL DEF Spec
=============================================================================
