--------------------------- MODULE DltDrain_proofs ---------------------------
(* The DLT router implements DltDrain, for every value of its constants. *)
EXTENDS DltRouter_proofs

\* Owners stay caught up when nothing is committed and no owner moves back.
LEMMA OwnersKept ==
    ASSUME TypeOK, TypeOK', OwnersCaughtUp, UNCHANGED committed,
           \A p \in Partitions, w \in Workers :
               owner'[p] = w => owner[p] = w /\ nxt[w][p] <= nxt'[w][p]
    PROVE  OwnersCaughtUp'
<1> SUFFICES ASSUME NEW p \in Partitions, NEW w \in Workers, owner'[p] = w
             PROVE  committed[p] <= nxt'[w][p] + 1
  BY DEF OwnersCaughtUp
<1>1. committed[p] <= nxt[w][p] + 1 /\ nxt[w][p] <= nxt'[w][p]
  BY DEF OwnersCaughtUp
<1>2. committed[p] \in Nat /\ nxt[w][p] \in Nat /\ nxt'[w][p] \in Nat
  BY DEF TypeOK, GroupTypeOK, WorkerTypeOK
<1> QED
  BY <1>1, <1>2

\* The same when a record in hand is passed, whose partition may be committed up to it.
LEMMA OwnersPass ==
    ASSUME TypeOK, Positions, TypeOK', OwnersCaughtUp, UNCHANGED owner,
           NEW w \in Workers, Busy(w),
           UNCHANGED nxt \/ PassInHand(w),
           UNCHANGED committed \/ CommitInHand(w)
    PROVE  OwnersCaughtUp'
<1> SUFFICES ASSUME NEW p \in Partitions, NEW v \in Workers, owner[p] = v
             PROVE  committed'[p] <= nxt'[v][p] + 1
  BY DEF OwnersCaughtUp
<1>1. cur[w] \in Partitions /\ WorkerTypeOK
  BY RecordInHand DEF TypeOK
<1>2. /\ committed[p] \in Nat /\ nxt[v][p] \in Nat /\ nxt'[v][p] \in Nat
      /\ committed[p] <= nxt[v][p] + 1
  BY DEF TypeOK, GroupTypeOK, WorkerTypeOK, OwnersCaughtUp
<1>3. nxt[v][p] <= nxt'[v][p]
  BY <1>1, <1>2, PassMovesOne DEF PassInHand
<1>4. committed'[p] = committed[p] \/ (v = w /\ p = cur[w] /\ committed'[p] = nxt[v][p] + 1)
  BY <1>1 DEF CommitInHand, TypeOK, GroupTypeOK
<1> QED
  BY <1>2, <1>3, <1>4

\* Whatever step is taken, a worker that has a partition is caught up with the group.
LEMMA OwnersStep ==
    ASSUME TypeOK, Positions, OwnersCaughtUp, [Next]_vars
    PROVE  OwnersCaughtUp'
<1>0. TypeOK'
  BY TypeStep
<1> DEFINE Kept == \A p \in Partitions, w \in Workers :
                      owner'[p] = w => owner[p] = w /\ nxt[w][p] <= nxt'[w][p]
<1>k. ASSUME Kept, UNCHANGED committed
      PROVE  OwnersCaughtUp'
  BY <1>0, <1>k, OwnersKept
<1>n. ASSUME NEW w \in Workers, NEW p \in Partitions
      PROVE  nxt[w][p] \in Nat /\ nxt[w][p] <= nxt[w][p]
  BY DEF TypeOK, WorkerTypeOK
<1>1. CASE World \/ UNCHANGED vars
  BY <1>1, <1>k, <1>n DEF World, vars, groupVars, workerVars
<1>2. ASSUME NEW pod \in Pods, ApiStep(pod) \/ CronStep(pod)
      PROVE  OwnersCaughtUp'
  BY <1>2, <1>k, <1>n DEF ApiStep, CronStep, StartCheck, StartContainer, CronCheck,
     CronSetCutoff, CronStart, groupVars, workerVars
<1>3. ASSUME NEW pod \in Pods,
             DestroyStop(pod) \/ DestroyReturns(pod) \/ StartSetCutoff(pod) \/ DestroyBegin(pod)
      PROVE  OwnersCaughtUp'
  BY <1>3, <1>k, <1>n DEF DestroyStop, DestroyReturns, StartSetCutoff, DestroyBegin,
     groupVars, workerVars
<1>4. ASSUME NEW ws \in SUBSET Workers, Bury(ws), UNCHANGED committed
      PROVE  OwnersCaughtUp'
  <2>1. \A p \in Partitions, w \in Workers :
           owner'[p] = w => owner[p] = w /\ nxt'[w] = nxt[w]
    BY <1>4, RouterAssumption DEF Bury, TypeOK, GroupTypeOK
  <2> QED
    BY <1>4, <1>k, <1>n, <2>1
<1>5. ASSUME NEW pod \in Pods, Restart(pod) \/ Crash(pod)
      PROVE  OwnersCaughtUp'
  BY <1>4, <1>5 DEF Restart, Crash, FreshProcess
<1>6. ASSUME NEW w \in Workers, Exit(w)
      PROVE  OwnersCaughtUp'
  BY <1>4, <1>6 DEF Exit
<1>7. ASSUME NEW w \in Workers, StopAtCutoff(w) \/ SendOk(w) \/ SendFails(w) \/ AckOk(w)
                                  \/ AckFails(w) \/ HandleError(w)
      PROVE  OwnersCaughtUp'
  <2>1. Busy(w) /\ UNCHANGED owner
    BY <1>7 DEF StopAtCutoff, SendOk, SendFails, AckOk, AckFails, HandleError, Busy, groupVars
  <2>2. UNCHANGED nxt \/ PassInHand(w)
    BY <1>7 DEF StopAtCutoff, SendOk, SendFails, AckOk, AckFails, HandleError
  <2>3. UNCHANGED committed \/ CommitInHand(w)
    BY <1>7 DEF StopAtCutoff, SendOk, SendFails, AckOk, AckFails, HandleError, groupVars
  <2> QED
    BY <1>0, <2>1, <2>2, <2>3, OwnersPass
<1>8. ASSUME NEW w \in Workers,
             StopReturns(w) \/ Idle(w) \/ IdleStop(w) \/ Poll(w) \/ \E p \in Partitions : Deliver(w, p)
      PROVE  OwnersCaughtUp'
  BY <1>8, <1>k, <1>n DEF StopReturns, Idle, IdleStop, Poll, Deliver, groupVars, workerVars
<1>9. ASSUME NEW w \in Workers, Evict(w) \/ \E p \in Partitions : Revoke(w, p)
      PROVE  OwnersCaughtUp'
  <2>1. UNCHANGED <<committed, nxt>>
    BY <1>9 DEF Evict, Revoke, workerVars
  <2>2. \A p \in Partitions, v \in Workers : owner'[p] = v => owner[p] = v
    BY <1>9, RouterAssumption DEF Evict, Revoke, TypeOK, GroupTypeOK
  <2> QED
    BY <1>k, <1>n, <2>1, <2>2
<1>10. ASSUME NEW w \in Workers, NEW p \in Partitions, Assign(w, p)
       PROVE  OwnersCaughtUp'
  <2> SUFFICES ASSUME NEW q \in Partitions, NEW v \in Workers, owner'[q] = v
               PROVE  committed'[q] <= nxt'[v][q] + 1
    BY DEF OwnersCaughtUp
  <2>1. committed[q] \in Nat /\ nxt[v][q] \in Nat
    BY DEF TypeOK, GroupTypeOK, WorkerTypeOK
  <2>2. /\ UNCHANGED committed
        /\ q = p => v = w /\ nxt'[v][q] = committed[q]
        /\ q # p => owner[q] = v /\ nxt'[v][q] = nxt[v][q]
    BY <1>10 DEF Assign, TypeOK, GroupTypeOK, WorkerTypeOK
  <2> QED
    BY <2>1, <2>2 DEF OwnersCaughtUp
<1> QED
  BY <1>1, <1>2, <1>3, <1>5, <1>6, <1>7, <1>8, <1>9, <1>10
     DEF Next, ShutdownStep, PodEvent, WorkerStep, WorkerEvent

------------------------------------------------------------------------------
(* What each step is in DltDrain. *)

\* The places that are settled.
LEMMA SettledPlaces ==
    ASSUME NEW x
    PROVE  x \in Settled <=>
              \E p \in Partitions : \E o \in 1..Len(dlt[p]) : x = <<p, o>> /\ Accounted(p, o)
BY DEF Settled

\* A step that leaves the log, the group and the decisions alone is not seen.
LEMMA Unseen ==
    ASSUME UNCHANGED <<dlt, committed, sent, gaveUp, deferred>>
    PROVE  UNCHANGED Drain!vars
BY DEF Drain!vars, Settled, Accounted, Exhausted

\* A decision about a record of the log settles it.
LEMMA DecisionSettles ==
    ASSUME TypeOK, UNCHANGED <<dlt, committed>>,
           NEW p \in Partitions, NEW o \in 1..Len(dlt[p]),
           (sent \cup gaveUp \cup deferred)' = (sent \cup gaveUp \cup deferred) \cup {<<p, o>>}
    PROVE  Drain!Settle(p)
<1>1. \A q, i : Accounted(q, i)' <=> Accounted(q, i) \/ <<q, i>> = <<p, o>>
  BY DEF Accounted, Exhausted
<1>2. \A x : x \in Settled' <=>
         \E q \in Partitions : \E i \in 1..Len(dlt[q]) : x = <<q, i>> /\ Accounted(q, i)'
  BY DEF Settled
<1>3. \A x : x \in Settled' <=> x \in Settled \/ x = <<p, o>>
  BY <1>1, <1>2, SettledPlaces
<1>4. Settled' = Settled \cup {<<p, o>>}
  BY <1>3
<1> QED
  BY <1>4 DEF Drain!Settle

\* An acknowledgment moves the group over settled records only.
LEMMA CommitPasses ==
    ASSUME TypeOK, Positions, OwnersCaughtUp, AccountedFor',
           NEW w \in Workers, Busy(w), CommitInHand(w),
           UNCHANGED <<dlt, sent, gaveUp, deferred>>
    PROVE  Drain!Pass(cur[w])
<1>. PICK p, n : p = cur[w] /\ n = nxt[w][cur[w]] + 1
  OBVIOUS
<1>1. /\ p \in Partitions /\ nxt[w][p] \in Nat /\ n \in 1..Len(dlt[p])
      /\ committed \in [Partitions -> Nat]
  BY RecordInHand DEF TypeOK, GroupTypeOK
<1>2. committed[p] <= n
  BY <1>1 DEF OwnersCaughtUp, CommitInHand
<1>3. n \in committed[p]..Len(dlt[p])
  BY <1>1, <1>2
<1>4. committed' = [committed EXCEPT ![p] = n] /\ committed'[p] = n
  BY <1>1 DEF CommitInHand
<1>5. UNCHANGED Settled
  BY DEF Settled, Accounted, Exhausted
<1>6. ASSUME NEW o \in 1..n
      PROVE  <<p, o>> \in Settled
  <2>1. Accounted(p, o)'
    BY <1>1, <1>4, <1>6 DEF AccountedFor
  <2>2. Accounted(p, o)
    BY <2>1 DEF Accounted, Exhausted
  <2>3. o \in 1..Len(dlt[p])
    BY <1>1
  <2> QED
    BY <1>1, <2>2, <2>3, SettledPlaces
<1>7. [q \in Partitions |-> Len(dlt[q])][p] = Len(dlt[p])
  BY <1>1
<1> QED
  BY <1>3, <1>4, <1>5, <1>6, <1>7 DEF Drain!Pass

\* A record published to the DLT arrives, settled or not.
LEMMA PublishArrives ==
    ASSUME TypeOK, NEW p \in Partitions, NEW h, PublishToDlt(p, h),
           UNCHANGED <<committed, sent, gaveUp, deferred>>
    PROVE  Drain!Arrive(p)
<1>1. PICK r : dlt' = [dlt EXCEPT ![p] = Append(@, r)]
  BY DEF PublishToDlt
<1>2. dlt \in [Partitions -> Seq(Record)]
  BY DEF TypeOK, WorldTypeOK
<1> DEFINE length == [q \in Partitions |-> Len(dlt[q])]
<1>. PICK n : n = Len(dlt[p]) + 1
  OBVIOUS
<1>3. /\ Len(dlt[p]) \in Nat /\ Len(dlt'[p]) = n
      /\ \A q \in Partitions \ {p} : dlt'[q] = dlt[q]
      /\ \A i \in 1..Len(dlt[p]) : dlt'[p][i] = dlt[p][i]
  BY <1>1, <1>2
<1>4. [q \in Partitions |-> Len(dlt'[q])] = [length EXCEPT ![p] = @ + 1]
  BY <1>3
<1>5. ASSUME NEW q \in Partitions, NEW i \in 1..Len(dlt[q])
      PROVE  Accounted(q, i)' <=> Accounted(q, i)
  BY <1>3, <1>5 DEF Accounted, Exhausted
<1>6. \A x : x \in Settled' <=>
         \E q \in Partitions : \E i \in 1..Len(dlt'[q]) : x = <<q, i>> /\ Accounted(q, i)'
  BY DEF Settled
<1>7. \A x : x \in Settled' <=> x \in Settled \/ (x = <<p, n>> /\ Accounted(p, n)')
  <2> TAKE x
  <2>1. ASSUME x \in Settled'
        PROVE  x \in Settled \/ (x = <<p, n>> /\ Accounted(p, n)')
    <3>1. PICK q \in Partitions : \E i \in 1..Len(dlt'[q]) : x = <<q, i>> /\ Accounted(q, i)'
      BY <1>6, <2>1
    <3>. PICK i \in 1..Len(dlt'[q]) : x = <<q, i>> /\ Accounted(q, i)'
      BY <3>1
    <3>2. i \in 1..Len(dlt[q]) \/ (q = p /\ i = n)
      BY <1>3
    <3> QED
      BY <1>5, <3>1, <3>2, SettledPlaces
  <2>2. ASSUME x \in Settled
        PROVE  x \in Settled'
    <3>1. PICK q \in Partitions : \E i \in 1..Len(dlt[q]) : x = <<q, i>> /\ Accounted(q, i)
      BY <2>2, SettledPlaces
    <3>. PICK i \in 1..Len(dlt[q]) : x = <<q, i>> /\ Accounted(q, i)
      BY <3>1
    <3>2. i \in 1..Len(dlt'[q])
      BY <1>3
    <3> QED
      BY <1>5, <1>6, <3>1, <3>2
  <2>3. ASSUME x = <<p, n>>, Accounted(p, n)'
        PROVE  x \in Settled'
    <3>1. n \in 1..Len(dlt'[p])
      BY <1>3
    <3> QED
      BY <1>6, <2>3, <3>1
  <2> QED
    BY <2>1, <2>2, <2>3
<1>8. Settled' \in {Settled, Settled \cup {<<p, n>>}}
  <2>1. CASE Accounted(p, n)'
    BY <1>7, <2>1
  <2>2. CASE ~Accounted(p, n)'
    BY <1>7, <2>2
  <2> QED
    BY <2>1, <2>2
<1>9. length[p] + 1 = n
  OBVIOUS
<1> HIDE DEF length
<1> QED
  BY <1>4, <1>8, <1>9 DEF Drain!Arrive, length

\* Every step of the router is a step of DltDrain or changes nothing there.
LEMMA DrainStep ==
    ASSUME TypeOK, Positions, DecisionInv, OwnersCaughtUp, [Next]_vars
    PROVE  [Drain!Next]_(Drain!vars)
<1>0. AccountedFor'
  BY DecisionStep DEF DecisionInv
<1>1. CASE World
  <2>1. UNCHANGED <<committed, sent, gaveUp, deferred>> /\ WorldNext
    BY <1>1 DEF World, groupVars, ghostVars
  <2>2. CASE Tick \/ RetrySucceeds
    BY <2>1, <2>2, Unseen DEF Tick, RetrySucceeds
  <2>3. ASSUME NEW p \in Partitions, MessageFails(p) \/ RetryFails(p)
        PROVE  Drain!Next
    <3>1. PICK h : PublishToDlt(p, h)
      BY <2>3 DEF MessageFails, RetryFails
    <3> QED
      BY <2>1, <3>1, PublishArrives DEF Drain!Next
  <2> QED
    BY <2>1, <2>2, <2>3 DEF WorldNext
<1>2. ASSUME NEW pod \in Pods,
             ApiStep(pod) \/ CronStep(pod) \/ ShutdownStep(pod) \/ PodEvent(pod)
      PROVE  UNCHANGED Drain!vars
  <2>1. UNCHANGED <<dlt, committed, sent, gaveUp, deferred>>
    BY <1>2 DEF ApiStep, CronStep, ShutdownStep, PodEvent, StartSetCutoff, StartCheck,
                StartContainer, CronCheck, CronSetCutoff, CronStart, DestroyBegin,
                DestroyStop, DestroyReturns, Restart, Crash, FreshProcess,
                worldVars, groupVars, ghostVars
  <2> QED
    BY <2>1, Unseen
<1>3. ASSUME NEW w \in Workers,
             \/ StopAtCutoff(w) \/ StopReturns(w) \/ Idle(w) \/ IdleStop(w) \/ Exit(w)
             \/ Poll(w) \/ Evict(w) \/ \E p \in Partitions : Assign(w, p) \/ Revoke(w, p)
      PROVE  UNCHANGED Drain!vars
  <2>1. UNCHANGED <<dlt, committed, sent, gaveUp, deferred>>
    BY <1>3 DEF StopAtCutoff, StopReturns, Idle, IdleStop, Exit, Poll, Evict, Assign, Revoke,
                worldVars, groupVars, ghostVars
  <2> QED
    BY <2>1, Unseen
<1>4. ASSUME NEW w \in Workers, Busy(w), UNCHANGED <<dlt, committed>>,
             (sent \cup gaveUp \cup deferred)' = (sent \cup gaveUp \cup deferred) \cup {Place(w)}
      PROVE  Drain!Next
  <2>1. cur[w] \in Partitions /\ nxt[w][cur[w]] + 1 \in 1..Len(dlt[cur[w]])
    BY <1>4, RecordInHand
  <2> QED
    BY <1>4, <2>1, DecisionSettles DEF Place, Drain!Next
<1>5. ASSUME NEW w \in Workers, SendOk(w) \/ SendFails(w)
      PROVE  [Drain!Next]_(Drain!vars)
  <2>1. Busy(w) /\ UNCHANGED <<dlt, committed, gaveUp, deferred>>
    BY <1>5 DEF SendOk, SendFails, Busy, groupVars
  <2>2. CASE sent' = sent \cup {Place(w)}
    BY <1>4, <2>1, <2>2
  <2>3. CASE UNCHANGED sent
    BY <2>1, <2>3, Unseen
  <2> QED
    BY <1>5, <2>2, <2>3 DEF SendOk, SendFails, Forward
<1>6. ASSUME NEW w \in Workers, HandleError(w)
      PROVE  [Drain!Next]_(Drain!vars)
  <2>1. Busy(w) /\ UNCHANGED <<dlt, committed, sent, deferred>>
    BY <1>6 DEF HandleError, Busy, worldVars, groupVars
  <2>2. CASE gaveUp' = gaveUp \cup {Place(w)}
    BY <1>4, <2>1, <2>2
  <2>3. CASE UNCHANGED gaveUp
    BY <2>1, <2>3, Unseen
  <2> QED
    BY <1>6, <2>2, <2>3 DEF HandleError
<1>7. ASSUME NEW w \in Workers, AckOk(w) \/ AckFails(w)
      PROVE  [Drain!Next]_(Drain!vars)
  <2>1. Busy(w) /\ UNCHANGED <<dlt, sent, gaveUp, deferred>>
    BY <1>7 DEF AckOk, AckFails, Busy, worldVars, ghostVars
  <2>2. CASE CommitInHand(w)
    <3>1. cur[w] \in Partitions
      BY <2>1, RecordInHand
    <3> QED
      BY <1>0, <2>1, <2>2, <3>1, CommitPasses DEF Drain!Next
  <2>3. CASE UNCHANGED committed
    BY <2>1, <2>3, Unseen
  <2> QED
    BY <1>7, <2>2, <2>3 DEF AckOk, AckFails
<1>8. ASSUME NEW w \in Workers, NEW p \in Partitions, Deliver(w, p)
      PROVE  [Drain!Next]_(Drain!vars)
  <2>1. UNCHANGED <<dlt, committed, sent, gaveUp>> /\ nxt[w][p] < fin[w][p]
    BY <1>8 DEF Deliver, worldVars, groupVars
  <2>2. nxt[w][p] + 1 \in 1..Len(dlt[p])
    BY <2>1 DEF Positions, BatchesInLog, TypeOK, WorkerTypeOK, WorldTypeOK
  <2>3. CASE deferred' = deferred \cup {<<p, nxt[w][p] + 1>>}
    BY <2>1, <2>2, <2>3, DecisionSettles DEF Drain!Next
  <2>4. CASE UNCHANGED deferred
    BY <2>1, <2>4, Unseen
  <2> QED
    BY <1>8, <2>3, <2>4 DEF Deliver
<1>9. CASE UNCHANGED vars
  BY <1>9, Unseen DEF vars, worldVars, groupVars, ghostVars
<1> QED
  BY <1>1, <1>2, <1>3, <1>5, <1>6, <1>7, <1>8, <1>9 DEF Next, WorkerStep, WorkerEvent

\* The router implements DltDrain: whatever pods, threads and rebalances do, the position
\* of the group only moves forward, and only over records that were decided about.
THEOREM ImplementsDrain == Spec => Drains
<1>1. Init => Drain!Init
  BY DEF Init, WorldInit, Drain!Init, Nowhere, Settled
<1>2. Init => DecisionInv /\ OwnersCaughtUp
  BY RouterAssumption DEF Init, WorldInit, DecisionInv, AccountedFor, WorkersAccountedFor,
     InHandDecided, HandDecided, OwnersCaughtUp, Nowhere
<1>3. /\ TypeOK /\ Positions /\ DecisionInv /\ OwnersCaughtUp /\ [Next]_vars
      => (DecisionInv /\ OwnersCaughtUp)'
  BY DecisionStep, OwnersStep
<1>4. /\ TypeOK /\ Positions /\ DecisionInv /\ OwnersCaughtUp /\ [Next]_vars
      => [Drain!Next]_(Drain!vars)
  BY DrainStep
<1> QED
  BY <1>1, <1>2, <1>3, <1>4, TypeCorrect, PTL DEF Spec, Drains, Drain!Spec

==============================================================================
