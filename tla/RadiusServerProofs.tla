------------------------- MODULE RadiusServerProofs -------------------------
(***************************************************************************)
(* What the duplicate filter of RadiusServer guarantees for any clients,   *)
(* any number of tasks, any interval and any lag.                          *)
(***************************************************************************)
EXTENDS RadiusServer, FiniteSetTheorems, TLAPS

(***************************************************************************)
(* The types of the model are kept by every step (all fields of            *)
(* RadiusServer and of its tasks).                                         *)
(***************************************************************************)
THEOREM TypeCorrect == Spec => []TypeOK
<1>1. Init => TypeOK
  BY DEF Init, TypeOK, PCs, Verdicts
<1>2. TypeOK /\ [Next]_vars => TypeOK'
  <2> SUFFICES ASSUME TypeOK, [Next]_vars PROVE TypeOK'
    OBVIOUS
  <2> USE DEF TypeOK, PCs, Verdicts, Goto, filterVars
  <2>1. ASSUME NEW d \in Datagrams, Receive(d) PROVE TypeOK'
    <3>1. d.address[2] \in Ports
      BY DatagramsAssumption DEF Datagram, Addresses
    <3>2. CASE Ignored(d)
      BY <2>1, <3>1, <3>2 DEF Receive
    <3>3. CASE ~Ignored(d)
      BY <2>1, <3>1, <3>3 DEF Receive
    <3>4. QED BY <3>2, <3>3
  <2>11. ASSUME NEW d \in Datagrams, ListenerFails(d) PROVE TypeOK'
    BY <2>11, DatagramsAssumption DEF ListenerFails, Datagram, Addresses
  <2>2. ASSUME NEW t \in Tasks, ReadClock(t) PROVE TypeOK'
    BY <2>2 DEF ReadClock
  <2>3. ASSUME NEW t \in Tasks, CheckDuplicate(t) PROVE TypeOK'
    <3>1. request[t] \in Datagram
      BY <2>3, DatagramsAssumption DEF CheckDuplicate
    <3>2. [address |-> request[t].address, id |-> request[t].id,
           auth |-> request[t].auth, time |-> now[t]] \in Entry
      BY <3>1 DEF Datagram, Entry
    <3>3. receivedPackets' \subseteq Entry
      BY <2>3, <3>2 DEF CheckDuplicate, Sweep, Fresh
    <3>4. QED BY <2>3, <3>3 DEF CheckDuplicate, Judge
  <2>4. ASSUME NEW t \in Tasks, Handle(t) PROVE TypeOK'
    BY <2>4 DEF Handle
  <2>5. ASSUME NEW t \in Tasks, Respond(t) PROVE TypeOK'
    BY <2>5 DEF Respond
  <2>6. ASSUME NEW t \in Tasks, AsyncExecute(t) PROVE TypeOK'
    BY <2>6 DEF AsyncExecute
  <2>7. CASE Stop
    BY <2>7 DEF Stop
  <2>8. CASE Tick
    BY <2>8 DEF Tick
  <2>9. CASE UNCHANGED vars
    BY <2>9 DEF vars
  <2>10. QED
    BY <2>1, <2>2, <2>3, <2>4, <2>5, <2>6, <2>7, <2>8, <2>9, <2>11 DEF Next
<1>3. QED BY <1>1, <1>2, PTL DEF Spec

-----------------------------------------------------------------------------
(***************************************************************************)
(* The inductive invariant.  The clocks a task holds are bounded by the    *)
(* lag; every entry of the list is that of a recorded task; and a recorded *)
(* task's entry stays in the list until MinGap has passed.                 *)
(***************************************************************************)
Judged(t) == verdict[t] # "none"

StepsOrdered ==
  \A t \in Tasks : Judged(t) <=> pc[t] \in {"handle", "respond", "async", "done"}

ClockLag ==
  \A t \in Tasks :
    /\ pc[t] = "check" => now[t] <= clock /\ clock - now[t] <= MaxLag
    /\ Judged(t) => /\ checkedAt[t] <= clock
                    /\ now[t] <= checkedAt[t]
                    /\ checkedAt[t] - now[t] <= MaxLag

EntryOf(e, s) ==
  /\ verdict[s] = "recorded"
  /\ request[s].address = e.address
  /\ request[s].id = e.id
  /\ request[s].auth = e.auth
  /\ now[s] = e.time

EntriesRecorded == \A e \in receivedPackets : \E s \in Tasks : EntryOf(e, s)

(* What a recording leaves in the list, its own entry included, is not old. *)
Swept ==
  \A e \in receivedPackets, t \in Tasks : verdict[t] = "recorded" =>
    checkedAt[t] - e.time <= MaxAge

RecordedKept ==
  \A s \in Tasks : verdict[s] = "recorded" =>
    \/ clock - checkedAt[s] > MinGap
    \/ \E e \in receivedPackets : EntryOf(e, s)

FilterInv ==
  /\ TypeOK
  /\ StepsOrdered
  /\ ClockLag
  /\ EntriesRecorded
  /\ Swept
  /\ RecordedKept
  /\ UniqueEntry
  /\ RecordedApart
  /\ DroppedForCause
  /\ PassedForCause

(* Nothing has been recorded yet. *)
LEMMA FilterInit == Init => FilterInv
<1>1. Init => TypeOK
  BY DEF Init, TypeOK, PCs, Verdicts
<1>2. QED
  BY <1>1 DEF Init, FilterInv, StepsOrdered, Judged, ClockLag, EntriesRecorded,
              Swept, RecordedKept, UniqueEntry, RecordedApart, DroppedForCause,
              PassedForCause

(***************************************************************************)
(* Every step but CheckDuplicate leaves the list and the verdicts alone,   *)
(* keeps what a judged task recorded, and moves the clock forward only.    *)
(***************************************************************************)
Quiet ==
  /\ UNCHANGED <<receivedPackets, verdict, checkedAt>>
  /\ clock <= clock'
  /\ \A s \in Tasks : Judged(s) => request'[s] = request[s] /\ now'[s] = now[s]

(* Every step but CheckDuplicate leaves the list and the verdicts alone. *)
LEMMA QuietSteps ==
  ASSUME FilterInv, [Next]_vars,
         \A t \in Tasks : ~CheckDuplicate(t)
  PROVE  Quiet /\ StepsOrdered' /\ ClockLag'
<1> USE DEF FilterInv, TypeOK, PCs, Verdicts, StepsOrdered, Judged, ClockLag, Quiet,
            Goto, filterVars
<1>1. ASSUME NEW d \in Datagrams, Receive(d)
      PROVE  Quiet /\ StepsOrdered' /\ ClockLag'
  BY <1>1 DEF Receive
<1>10. ASSUME NEW d \in Datagrams, ListenerFails(d)
      PROVE  Quiet /\ StepsOrdered' /\ ClockLag'
  BY <1>10 DEF ListenerFails
<1>2. ASSUME NEW t \in Tasks, ReadClock(t)
      PROVE  Quiet /\ StepsOrdered' /\ ClockLag'
  BY <1>2, BoundsAssumption DEF ReadClock
<1>3. ASSUME NEW t \in Tasks, Handle(t)
      PROVE  Quiet /\ StepsOrdered' /\ ClockLag'
  BY <1>3 DEF Handle
<1>4. ASSUME NEW t \in Tasks, Respond(t)
      PROVE  Quiet /\ StepsOrdered' /\ ClockLag'
  BY <1>4 DEF Respond
<1>5. ASSUME NEW t \in Tasks, AsyncExecute(t)
      PROVE  Quiet /\ StepsOrdered' /\ ClockLag'
  BY <1>5 DEF AsyncExecute
<1>6. CASE Stop
  BY <1>6 DEF Stop
<1>7. CASE Tick
  BY <1>7, BoundsAssumption DEF Tick
<1>8. CASE UNCHANGED vars
  BY <1>8 DEF vars
<1>9. QED
  BY <1>1, <1>2, <1>3, <1>4, <1>5, <1>6, <1>7, <1>8, <1>10 DEF Next

(* Such a step keeps what FilterInv says of recorded requests. *)
LEMMA QuietKeepsHistory ==
  ASSUME FilterInv, TypeOK', Quiet
  PROVE  /\ EntriesRecorded' /\ Swept' /\ RecordedKept' /\ UniqueEntry'
         /\ RecordedApart' /\ DroppedForCause' /\ PassedForCause'
<1> USE DEF FilterInv, Quiet, Judged
<1>1. EntriesRecorded'
  BY DEF EntriesRecorded, EntryOf
<1>2. RecordedKept'
  <2> SUFFICES ASSUME NEW s \in Tasks, verdict'[s] = "recorded"
               PROVE  \/ clock' - checkedAt'[s] > MinGap
                      \/ \E e \in receivedPackets' : EntryOf(e, s)'
    BY DEF RecordedKept, MinGap
  <2>1. CASE clock - checkedAt[s] > MinGap
    BY <2>1, BoundsAssumption, IntervalAssumption DEF TypeOK, MinGap
  <2>2. CASE \E e \in receivedPackets : EntryOf(e, s)
    BY <2>2 DEF EntryOf
  <2>3. QED BY <2>1, <2>2 DEF RecordedKept
<1>3. UniqueEntry'
  BY DEF UniqueEntry
<1>4. RecordedApart'
  BY DEF RecordedApart, MinGap
<1>5. DroppedForCause'
  BY DEF DroppedForCause, Holds, MaxAge
<1>6. PassedForCause'
  BY DEF PassedForCause, Holds, MaxAge
<1>7. Swept'
  BY DEF Swept, MaxAge
<1>8. QED BY <1>1, <1>2, <1>3, <1>4, <1>5, <1>6, <1>7

-----------------------------------------------------------------------------
(***************************************************************************)
(* The synchronized block.  What it does to the task and to the list:      *)
(***************************************************************************)
LEMMA CheckEffect ==
  ASSUME FilterInv, NEW t \in Tasks, CheckDuplicate(t)
  PROVE  /\ verdict[t] = "none"
         /\ UNCHANGED <<clock, request, now>>
         /\ checkedAt'[t] = clock
         /\ now[t] <= clock /\ clock - now[t] <= MaxLag
         /\ verdict'[t] # "none"
         /\ \A s \in Tasks \ {t} : verdict'[s] = verdict[s] /\ checkedAt'[s] = checkedAt[s]
         /\ \A e \in receivedPackets : e \in receivedPackets' \/ Expired(e, now[t])
BY DEF FilterInv, TypeOK, StepsOrdered, Judged, ClockLag, CheckDuplicate, Judge,
       Goto, Sweep, Fresh, Verdicts

(***************************************************************************)
(* An entry is evicted only when MinGap has passed since its recording.    *)
(***************************************************************************)
LEMMA EvictionAge ==
  ASSUME FilterInv, NEW s \in Tasks, NEW t \in Tasks, NEW e \in receivedPackets,
         EntryOf(e, s), pc[t] = "check", Expired(e, now[t])
  PROVE  clock - checkedAt[s] > MinGap
<1>1. /\ now[t] <= clock
      /\ checkedAt[s] - now[s] <= MaxLag
      /\ now[s] = e.time
      /\ e.time < now[t] - DuplicateInterval
  BY DEF FilterInv, ClockLag, Judged, EntryOf, Expired
<1>2. /\ clock \in Nat /\ now[t] \in Nat /\ now[s] \in Nat /\ checkedAt[s] \in Nat
  BY DEF FilterInv, TypeOK
<1>3. QED
  BY <1>1, <1>2, BoundsAssumption, IntervalAssumption DEF MinGap

(***************************************************************************)
(* A packet found in the list was recorded at most MaxAge before.          *)
(***************************************************************************)
LEMMA MatchAge ==
  ASSUME FilterInv, NEW s \in Tasks, NEW t \in Tasks, NEW e \in Matches(t),
         EntryOf(e, s), pc[t] = "check"
  PROVE  checkedAt[s] <= clock /\ clock - checkedAt[s] <= MaxAge
<1>1. /\ clock - now[t] <= MaxLag
      /\ checkedAt[s] <= clock
      /\ now[s] <= checkedAt[s]
      /\ now[s] = e.time
      /\ ~(e.time < now[t] - DuplicateInterval)
  BY DEF FilterInv, ClockLag, Judged, EntryOf, Matches, Fresh, Expired
<1>2. /\ clock \in Nat /\ now[t] \in Nat /\ now[s] \in Nat /\ checkedAt[s] \in Nat
  BY DEF FilterInv, TypeOK
<1>3. QED
  BY <1>1, <1>2, BoundsAssumption, IntervalAssumption DEF MaxAge

(* The synchronized block of one task leaves the other tasks alone. *)
LEMMA CheckKeepsLocals ==
  ASSUME FilterInv, NEW t \in Tasks, CheckDuplicate(t)
  PROVE  StepsOrdered' /\ ClockLag'
<1> USE CheckEffect DEF FilterInv, TypeOK, PCs, Verdicts, Judged
<1>1. StepsOrdered'
  BY DEF StepsOrdered, CheckDuplicate, Judge, Goto
<1>2. ClockLag'
  BY DEF ClockLag, StepsOrdered, CheckDuplicate, Judge, Goto
<1>3. QED BY <1>1, <1>2

(* Every entry left in the list still has the task that recorded it. *)
LEMMA CheckKeepsEntries ==
  ASSUME FilterInv, NEW t \in Tasks, CheckDuplicate(t)
  PROVE  EntriesRecorded' /\ UniqueEntry'
<1>1. CASE Matches(t) = {}
  <2> DEFINE new == [address |-> request[t].address, id |-> request[t].id,
                     auth |-> request[t].auth, time |-> now[t]]
  <2>1. /\ receivedPackets' = Fresh(now[t]) \cup {new}
        /\ verdict'[t] = "recorded"
    BY <1>1 DEF CheckDuplicate, Sweep, Judge, FilterInv, TypeOK
  <2>2. \A e \in Fresh(now[t]) : \E s \in Tasks : EntryOf(e, s)'
    BY CheckEffect DEF Fresh, EntryOf, FilterInv, EntriesRecorded
  <2>3. EntriesRecorded'
    <3> SUFFICES ASSUME NEW e \in receivedPackets'
                 PROVE  \E s \in Tasks : EntryOf(e, s)'
      BY DEF EntriesRecorded
    <3>1. CASE e \in Fresh(now[t])
      BY <2>2, <3>1
    <3>2. CASE e = new
      BY <2>1, <3>2, CheckEffect DEF EntryOf
    <3>3. QED BY <2>1, <3>1, <3>2
  <2>4. \A e \in Fresh(now[t]) : ~(e.address = new.address /\ e.id = new.id)
    BY <1>1 DEF Matches, SameRequest
  <2>5. UniqueEntry'
    BY <2>1, <2>4 DEF UniqueEntry, Fresh, FilterInv
  <2>6. QED BY <2>3, <2>5
<1>2. CASE Matches(t) # {}
  <2>1. receivedPackets' \subseteq receivedPackets
    BY <1>2 DEF CheckDuplicate, Sweep
  <2>2. EntriesRecorded'
    BY <2>1, CheckEffect DEF EntriesRecorded, EntryOf, FilterInv
  <2>3. UniqueEntry'
    BY <2>1 DEF UniqueEntry, FilterInv
  <2>4. QED BY <2>2, <2>3
<1>3. QED BY <1>1, <1>2

(* Nothing is left in the list that is old to the task that recorded. *)
LEMMA CheckSweeps ==
  ASSUME FilterInv, NEW t \in Tasks, CheckDuplicate(t)
  PROVE  Swept'
<1> SUFFICES ASSUME NEW e \in receivedPackets', NEW s \in Tasks, verdict'[s] = "recorded"
             PROVE  checkedAt'[s] - e.time <= MaxAge
  BY DEF Swept, MaxAge
<1>1. /\ clock \in Nat /\ now[t] \in Nat /\ checkedAt[s] \in Nat
      /\ \A f \in receivedPackets : f.time \in Nat
  BY DEF FilterInv, TypeOK, Entry
<1>2. now[t] <= clock /\ clock - now[t] <= MaxLag
  BY CheckEffect
<1>3. CASE Matches(t) = {}
  <2>1. \/ e \in receivedPackets /\ ~Expired(e, now[t])
        \/ e.time = now[t]
    BY <1>3 DEF CheckDuplicate, Sweep, Fresh
  <2>2. e.time \in Nat /\ e.time >= now[t] - DuplicateInterval
    BY <2>1, <1>1, IntervalAssumption DEF Expired
  <2>3. checkedAt'[s] <= clock
    BY CheckEffect, <1>1 DEF FilterInv, ClockLag, Judged
  <2>4. checkedAt'[s] \in Nat
    BY CheckEffect, <1>1
  <2>5. QED BY <1>1, <1>2, <2>2, <2>3, <2>4, BoundsAssumption, IntervalAssumption DEF MaxAge
<1>4. CASE Matches(t) # {}
  <2>1. receivedPackets' \subseteq receivedPackets /\ verdict'[t] # "recorded"
    BY <1>4 DEF CheckDuplicate, Sweep, Judge, FilterInv, TypeOK
  <2>2. verdict[s] = "recorded" /\ checkedAt'[s] = checkedAt[s]
    BY <2>1, CheckEffect
  <2>3. QED BY <2>1, <2>2 DEF FilterInv, Swept
<1>5. QED BY <1>3, <1>4

(* A recording is still in the list, or old enough to have been evicted. *)
LEMMA CheckKeepsRecorded ==
  ASSUME FilterInv, NEW t \in Tasks, CheckDuplicate(t)
  PROVE  RecordedKept'
<1> SUFFICES ASSUME NEW s \in Tasks, verdict'[s] = "recorded"
             PROVE  \/ clock' - checkedAt'[s] > MinGap
                    \/ \E e \in receivedPackets' : EntryOf(e, s)'
  BY DEF RecordedKept, MinGap
<1>1. CASE s = t
  <2>1. Matches(t) = {}
    BY <1>1 DEF CheckDuplicate, Judge, FilterInv, TypeOK
  <2> DEFINE new == [address |-> request[t].address, id |-> request[t].id,
                     auth |-> request[t].auth, time |-> now[t]]
  <2>2. PICK e \in receivedPackets' : e = new
    BY <2>1 DEF CheckDuplicate, Sweep
  <2>3. EntryOf(e, t)'
    BY <1>1, <2>2, CheckEffect DEF EntryOf
  <2>4. QED BY <1>1, <2>3
<1>2. CASE s # t
  <2>1. verdict[s] = "recorded" /\ checkedAt'[s] = checkedAt[s] /\ clock' = clock
    BY <1>2, CheckEffect
  <2>2. CASE clock - checkedAt[s] > MinGap
    BY <2>1, <2>2
  <2>3. ASSUME NEW e \in receivedPackets, EntryOf(e, s)
        PROVE  \/ clock' - checkedAt'[s] > MinGap
               \/ \E f \in receivedPackets' : EntryOf(f, s)'
    <3>1. CASE e \in receivedPackets'
      BY <1>2, <2>3, <3>1, CheckEffect DEF EntryOf
    <3>2. CASE Expired(e, now[t])
      BY <2>1, <2>3, <3>2, EvictionAge DEF CheckDuplicate
    <3>3. QED BY <3>1, <3>2, CheckEffect
  <2>4. QED BY <2>1, <2>2, <2>3 DEF FilterInv, RecordedKept
<1>3. QED BY <1>1, <1>2

(* A new recording is more than MinGap after the last one of its request. *)
LEMMA CheckRecordsApart ==
  ASSUME FilterInv, NEW t \in Tasks, CheckDuplicate(t)
  PROVE  RecordedApart'
<1>1. ASSUME NEW s \in Tasks, s # t, verdict[s] = "recorded", verdict'[t] = "recorded",
             request[s].address = request[t].address, request[s].id = request[t].id
      PROVE  checkedAt'[t] - checkedAt'[s] > MinGap
  <2>1. Matches(t) = {} /\ pc[t] = "check"
    BY <1>1 DEF CheckDuplicate, Judge, FilterInv, TypeOK
  <2>2. ASSUME NEW e \in receivedPackets, EntryOf(e, s)
        PROVE  clock - checkedAt[s] > MinGap
    <3>1. Expired(e, now[t])
      BY <1>1, <2>1, <2>2 DEF Matches, Fresh, SameRequest, EntryOf
    <3>2. QED BY <2>1, <2>2, <3>1, EvictionAge
  <2>3. clock - checkedAt[s] > MinGap
    BY <1>1, <2>2 DEF FilterInv, RecordedKept
  <2>4. QED BY <1>1, <2>3, CheckEffect
<1>2. \A s \in Tasks \ {t} : verdict'[s] = verdict[s] /\ checkedAt'[s] = checkedAt[s]
  BY CheckEffect
<1>3. UNCHANGED request
  BY CheckEffect
<1>4. QED
  BY <1>1, <1>2, <1>3 DEF RecordedApart, FilterInv, MinGap

(* A verdict against a packet names a recorded packet that is the cause. *)
LEMMA CheckJudgesForCause ==
  ASSUME FilterInv, NEW t \in Tasks, CheckDuplicate(t)
  PROVE  DroppedForCause' /\ PassedForCause'
<1>1. ASSUME NEW e \in Matches(t)
      PROVE  \E s \in Tasks \ {t} : Holds(s, t)' /\ request'[s].auth = e.auth
  <2>1. PICK s \in Tasks : EntryOf(e, s)
    BY <1>1 DEF Matches, Fresh, FilterInv, EntriesRecorded
  <2>2. s # t
    BY <2>1, CheckEffect DEF EntryOf
  <2>3. checkedAt[s] <= clock /\ clock - checkedAt[s] <= MaxAge
    BY <1>1, <2>1, MatchAge DEF CheckDuplicate
  <2>4. request[s].address = request[t].address /\ request[s].id = request[t].id
    BY <1>1, <2>1 DEF EntryOf, Matches, SameRequest
  <2>5. Holds(s, t)' /\ request'[s].auth = e.auth
    BY <2>1, <2>2, <2>3, <2>4, CheckEffect DEF Holds, EntryOf, MaxAge
  <2>6. QED BY <2>2, <2>5
<1>2. ASSUME NEW u \in Tasks \ {t}, NEW s \in Tasks \ {u}, Holds(s, u),
             verdict[u] # "none"
      PROVE  Holds(s, u)' /\ request'[s].auth = request[s].auth
  BY <1>2, CheckEffect DEF Holds, MaxAge
<1>3. UNCHANGED request /\ \A s \in Tasks \ {t} : verdict'[s] = verdict[s]
  BY CheckEffect
<1>4. DroppedForCause'
  <2> SUFFICES ASSUME NEW u \in Tasks, verdict'[u] = "dropped"
               PROVE  \E s \in Tasks \ {u} : Holds(s, u)' /\ request'[s].auth = request'[u].auth
    BY DEF DroppedForCause
  <2>1. CASE u = t
    <3>1. \E e \in Matches(t) : e.auth = request[t].auth
      BY <2>1 DEF CheckDuplicate, Judge, FilterInv, TypeOK
    <3>2. QED BY <1>1, <1>3, <2>1, <3>1
  <2>2. CASE u # t
    BY <1>2, <1>3, <2>2 DEF DroppedForCause, FilterInv
  <2>3. QED BY <2>1, <2>2
<1>5. PassedForCause'
  <2> SUFFICES ASSUME NEW u \in Tasks, verdict'[u] = "passed"
               PROVE  \E s \in Tasks \ {u} : Holds(s, u)' /\ request'[s].auth # request'[u].auth
    BY DEF PassedForCause
  <2>1. CASE u = t
    <3>1. \E e \in Matches(t) : e.auth # request[t].auth
      BY <2>1 DEF CheckDuplicate, Judge, FilterInv, TypeOK
    <3>2. QED BY <1>1, <1>3, <2>1, <3>1
  <2>2. CASE u # t
    BY <1>2, <1>3, <2>2 DEF PassedForCause, FilterInv
  <2>3. QED BY <2>1, <2>2
<1>6. QED BY <1>4, <1>5

-----------------------------------------------------------------------------
(* Every step keeps the filter's invariant. *)
LEMMA FilterStep ==
  ASSUME FilterInv, TypeOK', [Next]_vars
  PROVE  FilterInv'
<1>1. CASE \E t \in Tasks : CheckDuplicate(t)
  BY <1>1, CheckKeepsLocals, CheckKeepsEntries, CheckSweeps, CheckKeepsRecorded, CheckRecordsApart,
     CheckJudgesForCause DEF FilterInv
<1>2. CASE \A t \in Tasks : ~CheckDuplicate(t)
  BY <1>2, QuietSteps, QuietKeepsHistory DEF FilterInv
<1>3. QED BY <1>1, <1>2

(***************************************************************************)
(* The strengthening is inductive.                                         *)
(***************************************************************************)
THEOREM FilterCorrect == Spec => []FilterInv
<1>1. Init => FilterInv
  BY FilterInit
<1>2. FilterInv /\ TypeOK' /\ [Next]_vars => FilterInv'
  BY FilterStep
<1>3. QED BY <1>1, <1>2, TypeCorrect, PTL DEF Spec

(***************************************************************************)
(* The list has one entry per client address and identifier                *)
(* (isPacketDuplicate's scan and append under one lock).                   *)
(***************************************************************************)
THEOREM OneEntryPerRequest == Spec => []UniqueEntry
<1>1. FilterInv => UniqueEntry
  BY DEF FilterInv
<1>2. QED BY <1>1, FilterCorrect, PTL

(***************************************************************************)
(* Recordings of one address and identifier are MinGap apart: the duplicate *)
(* interval less the lag between reading the clock and taking the lock.    *)
(***************************************************************************)
THEOREM RecordingsAreApart == Spec => []RecordedApart
<1>1. FilterInv => RecordedApart
  BY DEF FilterInv
<1>2. QED BY <1>1, FilterCorrect, PTL

(***************************************************************************)
(* No request is discarded without an equal one recorded within MaxAge     *)
(* (isPacketDuplicate).                                                    *)
(***************************************************************************)
THEOREM DropsHaveACause == Spec => []DroppedForCause
<1>1. FilterInv => DroppedForCause
  BY DEF FilterInv
<1>2. QED BY <1>1, FilterCorrect, PTL

(***************************************************************************)
(* No request passes unrecorded without another recorded within MaxAge     *)
(* that holds its identifier (isPacketDuplicate).                          *)
(***************************************************************************)
THEOREM PassesHaveACause == Spec => []PassedForCause
<1>1. FilterInv => PassedForCause
  BY DEF FilterInv
<1>2. QED BY <1>1, FilterCorrect, PTL

(***************************************************************************)
(* The list is bounded by the recent recordings (isPacketDuplicate's sweep *)
(* and append): its entries are of different tasks, and none of them is    *)
(* old to any task that has recorded.                                      *)
(***************************************************************************)
THEOREM ListIsBounded == Spec => []ListBounded
<1>1. ASSUME FilterInv PROVE ListBounded
  <2> DEFINE recorder == [e \in receivedPackets |-> CHOOSE s \in Tasks : EntryOf(e, s)]
  <2>1. \A e \in receivedPackets : recorder[e] \in Tasks /\ EntryOf(e, recorder[e])
    BY <1>1 DEF FilterInv, EntriesRecorded
  <2>2. ASSUME NEW e \in receivedPackets PROVE recorder[e] \in Recent
    <3>1. ASSUME NEW s \in Tasks, NEW t \in Tasks, EntryOf(e, s), verdict[t] = "recorded"
          PROVE  checkedAt[t] - checkedAt[s] <= MaxAge
      <4>1. checkedAt[t] \in Nat /\ checkedAt[s] \in Nat /\ now[s] \in Nat
        BY <1>1 DEF FilterInv, TypeOK
      <4>2. e.time = now[s] /\ now[s] <= checkedAt[s]
        BY <1>1, <3>1 DEF EntryOf, FilterInv, ClockLag, Judged
      <4>3. checkedAt[t] - e.time <= MaxAge
        BY <1>1, <3>1 DEF FilterInv, Swept
      <4>4. QED BY <4>1, <4>2, <4>3, BoundsAssumption, IntervalAssumption DEF MaxAge
    <3>2. verdict[recorder[e]] = "recorded"
      BY <2>1 DEF EntryOf
    <3>3. \A t \in Tasks : verdict[t] = "recorded" => checkedAt[t] - checkedAt[recorder[e]] <= MaxAge
      BY <2>1, <3>1
    <3>4. QED BY <2>1, <3>2, <3>3 DEF Recent
  <2>3. ASSUME NEW e \in receivedPackets, NEW f \in receivedPackets,
               recorder[e] = recorder[f]
        PROVE  e = f
    <3>1. EntryOf(e, recorder[e]) /\ EntryOf(f, recorder[e])
      BY <2>1, <2>3
    <3>2. e.address = f.address /\ e.id = f.id
      BY <3>1 DEF EntryOf
    <3>3. QED BY <1>1, <3>2 DEF FilterInv, UniqueEntry
  <2>4. recorder \in Injection(receivedPackets, Recent)
    BY <2>2, <2>3 DEF Injection, IsInjective
  <2>5. IsFiniteSet(Recent)
    BY TasksAssumption, FS_Subset DEF Recent
  <2>6. QED BY <2>4, <2>5, FS_Injection DEF ListBounded
<1>2. QED BY <1>1, FilterCorrect, PTL
=============================================================================
