--------------------------- MODULE DltRouter_proofs ---------------------------
(* What holds of the DLT router for every value of its constants. *)
EXTENDS DltRouter, TLAPS

\* The world keeps its types, whatever it does.
LEMMA WorldTyped ==
    ASSUME WorldTypeOK, WorldNext
    PROVE  WorldTypeOK'
<1>1. CASE Tick
  BY <1>1 DEF Tick, WorldTypeOK
<1>2. CASE RetrySucceeds
  BY <1>2 DEF RetrySucceeds, WorldTypeOK
<1>3. ASSUME NEW p \in Partitions, MessageFails(p)
      PROVE  WorldTypeOK'
  <2>1. PICK h \in AppHeaders : PublishToDlt(p, h) /\ belowZero' = belowZero + Deficit(h)
    BY <1>3 DEF MessageFails
  <2>0. Deficit(h) \in Nat
    BY DEF Deficit
  <2>2. PICK t \in Nat : dlt' = [dlt EXCEPT ![p] = Append(@, [ts |-> t, header |-> h])]
    BY <2>1 DEF PublishToDlt
  <2>3. [ts |-> t, header |-> h] \in Record
    BY WorldAssumption DEF Record
  <2>4. dlt' \in [Partitions -> Seq(Record)]
    BY <2>2, <2>3 DEF WorldTypeOK
  <2> QED
    BY <1>3, <2>0, <2>1, <2>4 DEF MessageFails, WorldTypeOK
<1>4. ASSUME NEW p \in Partitions, RetryFails(p)
      PROVE  WorldTypeOK'
  <2>1. Head(retry) \in Header /\ Tail(retry) \in Seq(Header)
    BY <1>4 DEF RetryFails, WorldTypeOK
  <2>2. PICK t \in Nat : dlt' = [dlt EXCEPT ![p] = Append(@, [ts |-> t, header |-> Head(retry)])]
    BY <1>4 DEF RetryFails, PublishToDlt
  <2>3. [ts |-> t, header |-> Head(retry)] \in Record
    BY <2>1 DEF Record
  <2>4. dlt' \in [Partitions -> Seq(Record)]
    BY <2>2, <2>3 DEF WorldTypeOK
  <2> QED
    BY <1>4, <2>1, <2>4 DEF RetryFails, WorldTypeOK
<1> QED
  BY <1>1, <1>2, <1>3, <1>4 DEF WorldNext

\* A partition of the DLT only grows, and its records stay what they are.
LEMMA WorldGrows ==
    ASSUME WorldTypeOK, WorldNext, NEW p \in Partitions
    PROVE  /\ Len(dlt'[p]) \in Nat /\ Len(dlt[p]) <= Len(dlt'[p])
           /\ \A o \in 1..Len(dlt[p]) : dlt'[p][o] = dlt[p][o]
<1>1. CASE UNCHANGED dlt
  BY <1>1 DEF WorldTypeOK
<1>2. ASSUME NEW q \in Partitions, NEW r,
             dlt' = [dlt EXCEPT ![q] = Append(@, r)]
      PROVE  /\ Len(dlt'[p]) \in Nat /\ Len(dlt[p]) <= Len(dlt'[p])
             /\ \A o \in 1..Len(dlt[p]) : dlt'[p][o] = dlt[p][o]
  BY <1>2 DEF WorldTypeOK
<1> QED
  BY <1>1, <1>2 DEF WorldNext, Tick, RetrySucceeds, MessageFails, RetryFails, PublishToDlt

\* The pod of a worker is a pod.
LEMMA PodOfWorker == \A w \in Workers : PodOf(w) \in Pods
BY DEF Workers, PodOf

\* A count of cycles is an integer, whatever the header, and no lesser one than headers are.
LEMMA CycleCount ==
    ASSUME NEW h \in Header
    PROVE  ReadCycleCount(h) \in Int /\ ReadCycleCount(h) >= MinCount
BY RouterAssumption, WorldAssumption DEF ReadCycleCount, Header

\* The record in the hand of a busy worker is a record of the log.
LEMMA RecordInHand ==
    ASSUME TypeOK, Positions, NEW w \in Workers, Busy(w)
    PROVE  /\ cur[w] \in Partitions
           /\ nxt[w][cur[w]] \in Nat
           /\ nxt[w][cur[w]] < fin[w][cur[w]]
           /\ nxt[w][cur[w]] + 1 \in 1..Len(dlt[cur[w]])
           /\ Place(w) \in Partitions \X Nat
           /\ InHand(w) \in Record
           /\ InHand(w).header \in Header /\ InHand(w).ts \in Nat
<1>1. /\ cur[w] \in Partitions
      /\ nxt[w][cur[w]] < fin[w][cur[w]] /\ fin[w][cur[w]] <= Len(dlt[cur[w]])
  BY DEF Positions, CommittedInLog, BatchesInLog, HandInBatch
<1>2. nxt[w][cur[w]] \in Nat /\ fin[w][cur[w]] \in Nat /\ dlt[cur[w]] \in Seq(Record)
  BY <1>1 DEF TypeOK, WorldTypeOK, WorkerTypeOK
<1>3. nxt[w][cur[w]] + 1 \in 1..Len(dlt[cur[w]])
  BY <1>1, <1>2
<1>4. InHand(w) \in Record
  BY <1>2, <1>3 DEF InHand
<1> QED
  BY <1>1, <1>2, <1>3, <1>4 DEF Place, Record

\* What passing a record does to the positions of the workers.
LEMMA PassMovesOne ==
    ASSUME WorkerTypeOK, NEW w \in Workers, cur[w] \in Partitions, PassInHand(w)
    PROVE  /\ nxt' \in [Workers -> [Partitions -> Nat]]
           /\ tries' \in [Workers -> [Partitions -> Nat]]
           /\ nxt'[w][cur[w]] = nxt[w][cur[w]] + 1
           /\ \A v \in Workers, p \in Partitions :
                 <<v, p>> # <<w, cur[w]>> => nxt'[v][p] = nxt[v][p]
BY DEF WorkerTypeOK, PassInHand

\* What is forwarded is a record of the retry topic.
LEMMA ForwardTyped ==
    ASSUME TypeOK, Positions, NEW w \in Workers, Busy(w), Forward(w)
    PROVE  retry' \in Seq(Header) /\ sent' \in SUBSET (Partitions \X Nat) /\ dups' \in Nat
<1>1. InHand(w).header \in Header
  BY RecordInHand
<1>2. ReadCycleCount(InHand(w).header) \in Int /\ ReadCycleCount(InHand(w).header) >= MinCount
  BY <1>1, CycleCount
<1>3. ReadCycleCount(InHand(w).header) + 1 \in Header
  BY <1>2, WorldAssumption DEF Header
<1> QED
  BY <1>3, RecordInHand DEF Forward, TypeOK, WorldTypeOK, GhostTypeOK

------------------------------------------------------------------------------

\* Type correctness: every action keeps the types.
LEMMA TypeStep ==
    ASSUME TypeOK, Positions, [Next]_vars
    PROVE  TypeOK'
<1>1. CASE World
  BY <1>1, WorldTyped
     DEF World, TypeOK, GroupTypeOK, PodTypeOK, WorkerTypeOK, GhostTypeOK,
         groupVars, podVars, workerVars, ghostVars
<1>2. ASSUME NEW pod \in Pods, StartSetCutoff(pod)
      PROVE  TypeOK'
  <2>1. PodTypeOK'
    BY <1>2 DEF StartSetCutoff, TypeOK, PodTypeOK, podVars, WorldTypeOK
  <2>2. GhostTypeOK'
    BY <1>2 DEF StartSetCutoff, TypeOK, GhostTypeOK, ghostVars, WorldTypeOK
  <2> QED
    BY <1>2, <2>1, <2>2 DEF StartSetCutoff, TypeOK, WorldTypeOK, GroupTypeOK, WorkerTypeOK, worldVars, groupVars, workerVars
<1>3. ASSUME NEW pod \in Pods, StartCheck(pod)
      PROVE  TypeOK'
  <2>1. PodTypeOK'
    BY <1>3 DEF StartCheck, TypeOK, PodTypeOK, podVars
  <2> QED
    BY <1>3, <2>1 DEF StartCheck, TypeOK, WorldTypeOK, GroupTypeOK, WorkerTypeOK, GhostTypeOK, worldVars, groupVars, workerVars, ghostVars
<1>4. ASSUME NEW pod \in Pods, StartContainer(pod)
      PROVE  TypeOK'
  <2>1. PodTypeOK'
    BY <1>4 DEF StartContainer, TypeOK, PodTypeOK, podVars, ContainerStart
  <2>2. WorkerTypeOK'
    BY <1>4 DEF StartContainer, TypeOK, WorkerTypeOK, workerVars, ContainerStart
  <2> QED
    BY <1>4, <2>1, <2>2 DEF StartContainer, TypeOK, WorldTypeOK, GroupTypeOK, GhostTypeOK, worldVars, groupVars, ghostVars
<1>5. ASSUME NEW pod \in Pods, CronCheck(pod)
      PROVE  TypeOK'
  <2>1. PodTypeOK'
    BY <1>5 DEF CronCheck, TypeOK, PodTypeOK, podVars
  <2> QED
    BY <1>5, <2>1 DEF CronCheck, TypeOK, WorldTypeOK, GroupTypeOK, WorkerTypeOK, GhostTypeOK, worldVars, groupVars, workerVars, ghostVars
<1>6. ASSUME NEW pod \in Pods, CronSetCutoff(pod)
      PROVE  TypeOK'
  <2>1. PodTypeOK'
    BY <1>6 DEF CronSetCutoff, TypeOK, PodTypeOK, podVars, WorldTypeOK
  <2>2. GhostTypeOK'
    BY <1>6 DEF CronSetCutoff, TypeOK, GhostTypeOK, ghostVars, WorldTypeOK
  <2> QED
    BY <1>6, <2>1, <2>2 DEF CronSetCutoff, TypeOK, WorldTypeOK, GroupTypeOK, WorkerTypeOK, worldVars, groupVars, workerVars
<1>7. ASSUME NEW pod \in Pods, CronStart(pod)
      PROVE  TypeOK'
  <2>1. PodTypeOK'
    BY <1>7 DEF CronStart, TypeOK, PodTypeOK, podVars, ContainerStart
  <2>2. WorkerTypeOK'
    BY <1>7 DEF CronStart, TypeOK, WorkerTypeOK, workerVars, ContainerStart
  <2> QED
    BY <1>7, <2>1, <2>2 DEF CronStart, TypeOK, WorldTypeOK, GroupTypeOK, GhostTypeOK, worldVars, groupVars, ghostVars
<1>8. ASSUME NEW pod \in Pods, DestroyBegin(pod)
      PROVE  TypeOK'
  <2>1. WorldTypeOK'
    BY <1>8 DEF DestroyBegin, TypeOK, WorldTypeOK, worldVars, Fault
  <2>2. PodTypeOK'
    BY <1>8 DEF DestroyBegin, TypeOK, PodTypeOK, podVars
  <2> QED
    BY <1>8, <2>1, <2>2 DEF DestroyBegin, TypeOK, GroupTypeOK, WorkerTypeOK, GhostTypeOK, groupVars, workerVars, ghostVars
<1>9. ASSUME NEW pod \in Pods, DestroyStop(pod)
      PROVE  TypeOK'
  <2>1. PodTypeOK'
    BY <1>9 DEF DestroyStop, TypeOK, PodTypeOK, podVars, ContainerStop
  <2>2. WorkerTypeOK'
    BY <1>9 DEF DestroyStop, TypeOK, WorkerTypeOK, workerVars, ContainerStop
  <2> QED
    BY <1>9, <2>1, <2>2 DEF DestroyStop, TypeOK, WorldTypeOK, GroupTypeOK, GhostTypeOK, worldVars, groupVars, ghostVars
<1>10. ASSUME NEW pod \in Pods, DestroyReturns(pod)
      PROVE  TypeOK'
  <2>1. PodTypeOK'
    BY <1>10 DEF DestroyReturns, TypeOK, PodTypeOK, podVars
  <2> QED
    BY <1>10, <2>1 DEF DestroyReturns, TypeOK, WorldTypeOK, GroupTypeOK, WorkerTypeOK, GhostTypeOK, worldVars, groupVars, workerVars, ghostVars
<1>11. ASSUME NEW pod \in Pods, Restart(pod)
      PROVE  TypeOK'
  <2>1. WorldTypeOK'
    BY <1>11 DEF Restart, TypeOK, WorldTypeOK, worldVars, FreshProcess
  <2>2. GroupTypeOK'
    BY <1>11 DEF Restart, TypeOK, GroupTypeOK, groupVars, FreshProcess, Bury
  <2>3. PodTypeOK'
    BY <1>11 DEF Restart, TypeOK, PodTypeOK, podVars, FreshProcess
  <2>4. WorkerTypeOK'
    BY <1>11 DEF Restart, TypeOK, WorkerTypeOK, FreshProcess, Bury, Nowhere
  <2>5. GhostTypeOK'
    BY <1>11 DEF Restart, TypeOK, GhostTypeOK, ghostVars, FreshProcess
  <2> QED
    BY <2>1, <2>2, <2>3, <2>4, <2>5 DEF TypeOK
<1>12. ASSUME NEW pod \in Pods, Crash(pod)
      PROVE  TypeOK'
  <2>1. WorldTypeOK'
    BY <1>12 DEF Crash, TypeOK, WorldTypeOK, worldVars, Fault, FreshProcess
  <2>2. GroupTypeOK'
    BY <1>12 DEF Crash, TypeOK, GroupTypeOK, groupVars, FreshProcess, Bury
  <2>3. PodTypeOK'
    BY <1>12 DEF Crash, TypeOK, PodTypeOK, podVars, FreshProcess
  <2>4. WorkerTypeOK'
    BY <1>12 DEF Crash, TypeOK, WorkerTypeOK, FreshProcess, Bury, Nowhere
  <2>5. GhostTypeOK'
    BY <1>12 DEF Crash, TypeOK, GhostTypeOK, ghostVars, FreshProcess
  <2> QED
    BY <2>1, <2>2, <2>3, <2>4, <2>5 DEF TypeOK
<1>13. ASSUME NEW w \in Workers, Poll(w)
      PROVE  TypeOK'
  <2>1. WorkerTypeOK'
    BY <1>13 DEF Poll, TypeOK, WorkerTypeOK, workerVars, WorldTypeOK
  <2> QED
    BY <1>13, <2>1 DEF Poll, TypeOK, WorldTypeOK, GroupTypeOK, PodTypeOK, GhostTypeOK, worldVars, groupVars, podVars, ghostVars
<1>14. ASSUME NEW w \in Workers, StopAtCutoff(w)
      PROVE  TypeOK'
  <2>1. PodTypeOK'
    BY <1>14, PodOfWorker DEF StopAtCutoff, TypeOK, PodTypeOK, podVars, StopCall, ContainerStop
  <2>2. WorkerTypeOK'
    BY <1>14, RecordInHand, PassMovesOne DEF StopAtCutoff, TypeOK, WorkerTypeOK, workerVars, Busy, StopCall, ContainerStop
  <2> QED
    BY <1>14, <2>1, <2>2 DEF StopAtCutoff, TypeOK, WorldTypeOK, GroupTypeOK, GhostTypeOK, worldVars, groupVars, ghostVars
<1>15. ASSUME NEW w \in Workers, StopReturns(w)
      PROVE  TypeOK'
  <2>1. PodTypeOK'
    BY <1>15, PodOfWorker DEF StopReturns, TypeOK, PodTypeOK, podVars
  <2>2. WorkerTypeOK'
    BY <1>15 DEF StopReturns, TypeOK, WorkerTypeOK, workerVars
  <2> QED
    BY <1>15, <2>1, <2>2 DEF StopReturns, TypeOK, WorldTypeOK, GroupTypeOK, GhostTypeOK, worldVars, groupVars, ghostVars
<1>16. ASSUME NEW w \in Workers, Idle(w)
      PROVE  TypeOK'
  <2>1. WorkerTypeOK'
    BY <1>16 DEF Idle, TypeOK, WorkerTypeOK, workerVars
  <2> QED
    BY <1>16, <2>1 DEF Idle, TypeOK, WorldTypeOK, GroupTypeOK, PodTypeOK, GhostTypeOK, worldVars, groupVars, podVars, ghostVars
<1>17. ASSUME NEW w \in Workers, IdleStop(w)
      PROVE  TypeOK'
  <2>1. PodTypeOK'
    BY <1>17, PodOfWorker DEF IdleStop, TypeOK, PodTypeOK, podVars, StopCall, ContainerStop
  <2>2. WorkerTypeOK'
    BY <1>17 DEF IdleStop, TypeOK, WorkerTypeOK, workerVars, StopCall, ContainerStop
  <2> QED
    BY <1>17, <2>1, <2>2 DEF IdleStop, TypeOK, WorldTypeOK, GroupTypeOK, GhostTypeOK, worldVars, groupVars, ghostVars
<1>18. ASSUME NEW w \in Workers, Exit(w)
      PROVE  TypeOK'
  <2>1. GroupTypeOK'
    BY <1>18 DEF Exit, TypeOK, GroupTypeOK, groupVars, Bury
  <2>2. WorkerTypeOK'
    BY <1>18 DEF Exit, TypeOK, WorkerTypeOK, Bury, Nowhere
  <2> QED
    BY <1>18, <2>1, <2>2 DEF Exit, TypeOK, WorldTypeOK, PodTypeOK, GhostTypeOK, worldVars, podVars, ghostVars
<1>19. ASSUME NEW w \in Workers, SendOk(w)
      PROVE  TypeOK'
  <2>1. WorldTypeOK'
    BY <1>19, ForwardTyped DEF SendOk, TypeOK, WorldTypeOK, worldVars, Busy
  <2>2. WorkerTypeOK'
    BY <1>19 DEF SendOk, TypeOK, WorkerTypeOK, workerVars
  <2>3. GhostTypeOK'
    BY <1>19, ForwardTyped DEF SendOk, TypeOK, GhostTypeOK, ghostVars, Busy
  <2> QED
    BY <1>19, <2>1, <2>2, <2>3 DEF SendOk, TypeOK, GroupTypeOK, PodTypeOK, groupVars, podVars
<1>20. ASSUME NEW w \in Workers, SendFails(w)
      PROVE  TypeOK'
  <2>1. WorldTypeOK'
    BY <1>20, ForwardTyped DEF SendFails, TypeOK, WorldTypeOK, worldVars, Busy, Fault
  <2>2. WorkerTypeOK'
    BY <1>20 DEF SendFails, TypeOK, WorkerTypeOK, workerVars
  <2>3. GhostTypeOK'
    BY <1>20, ForwardTyped DEF SendFails, TypeOK, GhostTypeOK, ghostVars, Busy
  <2> QED
    BY <1>20, <2>1, <2>2, <2>3 DEF SendFails, TypeOK, GroupTypeOK, PodTypeOK, groupVars, podVars
<1>21. ASSUME NEW w \in Workers, AckOk(w)
      PROVE  TypeOK'
  <2>1. GroupTypeOK'
    BY <1>21, RecordInHand DEF AckOk, TypeOK, GroupTypeOK, groupVars, Busy, CommitInHand
  <2>2. WorkerTypeOK'
    BY <1>21, RecordInHand, PassMovesOne DEF AckOk, TypeOK, WorkerTypeOK, workerVars, Busy
  <2> QED
    BY <1>21, <2>1, <2>2 DEF AckOk, TypeOK, WorldTypeOK, PodTypeOK, GhostTypeOK, worldVars, podVars, ghostVars
<1>22. ASSUME NEW w \in Workers, AckFails(w)
      PROVE  TypeOK'
  <2>1. WorldTypeOK'
    BY <1>22 DEF AckFails, TypeOK, WorldTypeOK, worldVars, Fault
  <2>2. GroupTypeOK'
    BY <1>22, RecordInHand DEF AckFails, TypeOK, GroupTypeOK, groupVars, Busy, CommitInHand
  <2>3. WorkerTypeOK'
    BY <1>22 DEF AckFails, TypeOK, WorkerTypeOK, workerVars
  <2> QED
    BY <1>22, <2>1, <2>2, <2>3 DEF AckFails, TypeOK, PodTypeOK, GhostTypeOK, podVars, ghostVars
<1>23. ASSUME NEW w \in Workers, HandleError(w)
      PROVE  TypeOK'
  <2>1. WorkerTypeOK'
    <3>1. CASE tries[w][cur[w]] < BackOffAttempts
      <4>1. cur[w] \in Partitions
        BY <1>23, RecordInHand DEF HandleError, Busy
      <4>2. tries' \in [Workers -> [Partitions -> Nat]]
        <5>1. tries' = [tries EXCEPT ![w][cur[w]] = @ + 1]
          BY <1>23, <3>1 DEF HandleError
        <5>2. tries \in [Workers -> [Partitions -> Nat]]
          BY DEF TypeOK, WorkerTypeOK
        <5> QED
          BY <4>1, <5>1, <5>2
      <4>3. fin' \in [Workers -> [Partitions -> Nat]] /\ UNCHANGED <<nxt, stopReq>>
        BY <1>23, <3>1 DEF HandleError, TypeOK, WorkerTypeOK
      <4> QED
        BY <1>23, <4>2, <4>3 DEF HandleError, TypeOK, WorkerTypeOK
    <3>2. CASE ~(tries[w][cur[w]] < BackOffAttempts)
      BY <1>23, <3>2, RecordInHand, PassMovesOne DEF HandleError, TypeOK, WorkerTypeOK, Busy
    <3> QED
      BY <3>1, <3>2
  <2>2. GhostTypeOK'
    BY <1>23, RecordInHand DEF HandleError, TypeOK, GhostTypeOK, ghostVars, Busy
  <2> QED
    BY <1>23, <2>1, <2>2 DEF HandleError, TypeOK, WorldTypeOK, GroupTypeOK, PodTypeOK, worldVars, groupVars, podVars
<1>24. ASSUME NEW w \in Workers, Evict(w)
      PROVE  TypeOK'
  <2>1. WorldTypeOK'
    BY <1>24 DEF Evict, TypeOK, WorldTypeOK, worldVars, Fault
  <2>2. GroupTypeOK'
    BY <1>24 DEF Evict, TypeOK, GroupTypeOK, groupVars
  <2> QED
    BY <1>24, <2>1, <2>2 DEF Evict, TypeOK, PodTypeOK, WorkerTypeOK, GhostTypeOK, podVars, workerVars, ghostVars
<1>25. ASSUME NEW w \in Workers, NEW p \in Partitions, Deliver(w, p)
      PROVE  TypeOK'
  <2>1. WorkerTypeOK'
    BY <1>25 DEF Deliver, TypeOK, WorkerTypeOK, workerVars, Route
  <2>2. GhostTypeOK'
    BY <1>25 DEF Deliver, TypeOK, GhostTypeOK, ghostVars, WorkerTypeOK
  <2> QED
    BY <1>25, <2>1, <2>2 DEF Deliver, TypeOK, WorldTypeOK, GroupTypeOK, PodTypeOK, worldVars, groupVars, podVars
<1>26. ASSUME NEW w \in Workers, NEW p \in Partitions, Assign(w, p)
      PROVE  TypeOK'
  <2>1. GroupTypeOK'
    BY <1>26 DEF Assign, TypeOK, GroupTypeOK, groupVars
  <2>2. WorkerTypeOK'
    BY <1>26 DEF Assign, TypeOK, WorkerTypeOK, workerVars, GroupTypeOK
  <2> QED
    BY <1>26, <2>1, <2>2 DEF Assign, TypeOK, WorldTypeOK, PodTypeOK, GhostTypeOK, worldVars, podVars, ghostVars
<1>27. ASSUME NEW w \in Workers, NEW p \in Partitions, Revoke(w, p)
      PROVE  TypeOK'
  <2>1. GroupTypeOK'
    BY <1>27 DEF Revoke, TypeOK, GroupTypeOK, groupVars
  <2> QED
    BY <1>27, <2>1 DEF Revoke, TypeOK, WorldTypeOK, PodTypeOK, WorkerTypeOK, GhostTypeOK, worldVars, podVars, workerVars, ghostVars
<1>28. CASE UNCHANGED vars
  BY <1>28 DEF vars, TypeOK, WorldTypeOK, GroupTypeOK, PodTypeOK, WorkerTypeOK,
               GhostTypeOK, worldVars, groupVars, podVars, workerVars, ghostVars
<1> QED
  BY <1>1, <1>2, <1>3, <1>4, <1>5, <1>6, <1>7, <1>8, <1>9, <1>10, <1>11, <1>12, <1>13, <1>14, <1>15, <1>16, <1>17, <1>18, <1>19, <1>20, <1>21, <1>22, <1>23, <1>24, <1>25, <1>26, <1>27, <1>28
     DEF Next, ApiStep, CronStep, ShutdownStep, PodEvent, WorkerStep, WorkerEvent

------------------------------------------------------------------------------

\* A step that moves no position keeps the positions inside the log.
LEMMA PositionsKept ==
    ASSUME Positions, UNCHANGED <<dlt, committed, nxt, fin, cur>>,
           \A w \in Workers : Busy(w)' => Busy(w)
    PROVE  Positions'
BY DEF Positions, CommittedInLog, BatchesInLog, HandInBatch

\* A pod that starts again forgets the positions of its workers.
LEMMA BuriedAtZero ==
    ASSUME WorkerTypeOK, NEW ws \in SUBSET Workers, Bury(ws)
    PROVE  /\ \A w \in Workers : Busy(w)' => w \notin ws /\ Busy(w)
           /\ \A w \in Workers : w \notin ws => nxt'[w] = nxt[w] /\ fin'[w] = fin[w] /\ cur'[w] = cur[w]
           /\ \A w \in Workers, p \in Partitions : w \in ws => nxt'[w][p] = 0 /\ fin'[w][p] = 0
BY DEF WorkerTypeOK, Bury, Busy, Nowhere

\* Positions survive the end of workers: those of the buried ones are at zero.
LEMMA PositionsBuried ==
    ASSUME TypeOK, Positions, NEW ws \in SUBSET Workers, Bury(ws),
           UNCHANGED <<dlt, committed>>
    PROVE  Positions'
<1> USE DEF TypeOK
<1>1. BatchesInLog'
  <2> SUFFICES ASSUME NEW w \in Workers, NEW p \in Partitions
               PROVE  nxt'[w][p] <= fin'[w][p] /\ fin'[w][p] <= Len(dlt[p])
    BY DEF BatchesInLog
  <2>1. Len(dlt[p]) \in Nat
    BY DEF WorldTypeOK
  <2> QED
    BY <2>1, BuriedAtZero DEF Positions, BatchesInLog
<1>2. HandInBatch'
  BY BuriedAtZero DEF Positions, HandInBatch
<1> QED
  BY <1>1, <1>2 DEF Positions, CommittedInLog

\* A worker that passes its record stays within its batch.
LEMMA PositionsPass ==
    ASSUME TypeOK, Positions, NEW w \in Workers, Busy(w), PassInHand(w),
           UNCHANGED <<dlt, fin, cur>>,
           ~Busy(w)', \A v \in Workers \ {w} : Busy(v)' => Busy(v)
    PROVE  BatchesInLog' /\ HandInBatch'
<1> USE DEF TypeOK
<1>1. BatchesInLog'
  <2> SUFFICES ASSUME NEW v \in Workers, NEW p \in Partitions
               PROVE  nxt'[v][p] <= fin[v][p] /\ fin[v][p] <= Len(dlt[p])
    BY DEF BatchesInLog
  <2>1. CASE <<v, p>> = <<w, cur[w]>>
    BY <2>1, RecordInHand, PassMovesOne DEF Positions, BatchesInLog, WorkerTypeOK
  <2>2. CASE <<v, p>> # <<w, cur[w]>>
    BY <2>2, RecordInHand, PassMovesOne DEF Positions, BatchesInLog
  <2> QED
    BY <2>1, <2>2
<1>2. HandInBatch'
  <2> SUFFICES ASSUME NEW v \in Workers, v # w, Busy(v)
               PROVE  cur[v] \in Partitions /\ nxt'[v][cur[v]] < fin[v][cur[v]]
    BY DEF HandInBatch
  <2> QED
    BY RecordInHand, PassMovesOne DEF Positions, HandInBatch
<1> QED
  BY <1>1, <1>2

\* What is committed is the record in hand, which is in the log.
LEMMA CommitStaysInLog ==
    ASSUME TypeOK, Positions, NEW w \in Workers, Busy(w), CommitInHand(w), UNCHANGED dlt
    PROVE  CommittedInLog'
BY RecordInHand DEF CommitInHand, Positions, CommittedInLog, TypeOK, GroupTypeOK

\* Every step keeps the positions inside the log and the batches.
LEMMA PositionsStep ==
    ASSUME TypeOK, Positions, [Next]_vars
    PROVE  Positions'
<1> USE DEF TypeOK, WorkerTypeOK
<1>1. CASE World
  <2>1. WorldTypeOK /\ WorldNext /\ UNCHANGED <<committed, nxt, fin, cur, wpc>>
    BY <1>1 DEF World, groupVars, workerVars
  <2>2. ASSUME NEW p \in Partitions
        PROVE  Len(dlt[p]) \in Nat /\ Len(dlt'[p]) \in Nat /\ Len(dlt[p]) <= Len(dlt'[p])
    BY <2>1, WorldGrows DEF WorldTypeOK
  <2>3. CommittedInLog'
    BY <2>1, <2>2 DEF Positions, CommittedInLog, GroupTypeOK
  <2>4. BatchesInLog'
    <3> SUFFICES ASSUME NEW w \in Workers, NEW p \in Partitions
                 PROVE  nxt[w][p] <= fin[w][p] /\ fin[w][p] <= Len(dlt'[p])
      BY <2>1 DEF BatchesInLog
    <3>1. nxt[w][p] <= fin[w][p] /\ fin[w][p] <= Len(dlt[p])
      BY DEF Positions, BatchesInLog
    <3>2. fin[w][p] \in Nat
      OBVIOUS
    <3> QED
      BY <2>2, <3>1, <3>2
  <2>5. HandInBatch'
    BY <2>1 DEF Positions, HandInBatch, Busy
  <2> QED
    BY <2>3, <2>4, <2>5 DEF Positions
<1>2. ASSUME NEW pod \in Pods, StartSetCutoff(pod)
      PROVE  Positions'
  BY <1>2, PositionsKept DEF StartSetCutoff, Busy, worldVars, groupVars, workerVars
<1>3. ASSUME NEW pod \in Pods, StartCheck(pod)
      PROVE  Positions'
  BY <1>3, PositionsKept DEF StartCheck, Busy, worldVars, groupVars, workerVars
<1>4. ASSUME NEW pod \in Pods, StartContainer(pod)
      PROVE  Positions'
  BY <1>4, PositionsKept DEF StartContainer, Busy, worldVars, groupVars, workerVars, ContainerStart
<1>5. ASSUME NEW pod \in Pods, CronCheck(pod)
      PROVE  Positions'
  BY <1>5, PositionsKept DEF CronCheck, Busy, worldVars, groupVars, workerVars
<1>6. ASSUME NEW pod \in Pods, CronSetCutoff(pod)
      PROVE  Positions'
  BY <1>6, PositionsKept DEF CronSetCutoff, Busy, worldVars, groupVars, workerVars
<1>7. ASSUME NEW pod \in Pods, CronStart(pod)
      PROVE  Positions'
  BY <1>7, PositionsKept DEF CronStart, Busy, worldVars, groupVars, workerVars, ContainerStart
<1>8. ASSUME NEW pod \in Pods, DestroyBegin(pod)
      PROVE  Positions'
  BY <1>8, PositionsKept DEF DestroyBegin, Busy, worldVars, groupVars, workerVars
<1>9. ASSUME NEW pod \in Pods, DestroyStop(pod)
      PROVE  Positions'
  BY <1>9, PositionsKept DEF DestroyStop, Busy, worldVars, groupVars, workerVars
<1>10. ASSUME NEW pod \in Pods, DestroyReturns(pod)
      PROVE  Positions'
  BY <1>10, PositionsKept DEF DestroyReturns, Busy, worldVars, groupVars, workerVars
<1>11. ASSUME NEW w \in Workers, StopReturns(w)
      PROVE  Positions'
  BY <1>11, PositionsKept DEF StopReturns, Busy, worldVars, groupVars, workerVars
<1>12. ASSUME NEW w \in Workers, Idle(w)
      PROVE  Positions'
  BY <1>12, PositionsKept DEF Idle, Busy, worldVars, groupVars, workerVars
<1>13. ASSUME NEW w \in Workers, IdleStop(w)
      PROVE  Positions'
  BY <1>13, PositionsKept DEF IdleStop, Busy, worldVars, groupVars, workerVars, StopCall, ContainerStop
<1>14. ASSUME NEW w \in Workers, SendOk(w)
      PROVE  Positions'
  BY <1>14, PositionsKept DEF SendOk, Busy, worldVars, groupVars, workerVars
<1>15. ASSUME NEW w \in Workers, SendFails(w)
      PROVE  Positions'
  BY <1>15, PositionsKept DEF SendFails, Busy, worldVars, groupVars, workerVars
<1>16. ASSUME NEW w \in Workers, Evict(w)
      PROVE  Positions'
  BY <1>16, PositionsKept DEF Evict, Busy, worldVars, groupVars, workerVars
<1>17. ASSUME NEW w \in Workers, NEW p \in Partitions, Revoke(w, p)
      PROVE  Positions'
  BY <1>17, PositionsKept DEF Revoke, Busy, worldVars, groupVars, workerVars
<1>18. ASSUME NEW pod \in Pods, FreshProcess(pod)
       PROVE  Positions'
  <2>1. Bury({w \in Workers : PodOf(w) = pod}) /\ UNCHANGED <<dlt, committed>>
    BY <1>18 DEF FreshProcess
  <2> QED
    BY <2>1, PositionsBuried
<1>19. ASSUME NEW w \in Workers, Exit(w)
       PROVE  Positions'
  <2>1. Bury({w}) /\ UNCHANGED <<dlt, committed>>
    BY <1>19 DEF Exit, worldVars
  <2> QED
    BY <2>1, PositionsBuried
<1>20. ASSUME NEW w \in Workers, Poll(w)
       PROVE  Positions'
  <2>1. PICK ready \in SUBSET {p \in Partitions : owner[p] = w /\ nxt[w][p] < Len(dlt[p])} :
           fin' = [fin EXCEPT ![w] = [p \in Partitions |->
                      IF p \in ready THEN Len(dlt[p]) ELSE fin[w][p]]]
    BY <1>20 DEF Poll
  <2>2. /\ UNCHANGED <<dlt, committed, nxt, wpc>> /\ ~Busy(w)
        /\ \A v \in Workers \ {w} : cur'[v] = cur[v]
    BY <1>20 DEF Poll, Busy, worldVars, groupVars
  <2>3. BatchesInLog'
    <3> SUFFICES ASSUME NEW v \in Workers, NEW p \in Partitions
                 PROVE  nxt[v][p] <= fin'[v][p] /\ fin'[v][p] <= Len(dlt[p])
      BY <2>2 DEF BatchesInLog
    <3> QED
      BY <2>1 DEF Positions, BatchesInLog, WorldTypeOK
  <2>4. HandInBatch'
    BY <2>1, <2>2 DEF Positions, HandInBatch, Busy
  <2> QED
    BY <2>2, <2>3, <2>4 DEF Positions, CommittedInLog
<1>21. ASSUME NEW w \in Workers, StopAtCutoff(w)
       PROVE  Positions'
  <2>1. Busy(w) /\ PassInHand(w) /\ UNCHANGED <<dlt, committed, fin, cur>>
    BY <1>21 DEF StopAtCutoff, Busy, worldVars, groupVars
  <2>2. ~Busy(w)' /\ \A v \in Workers \ {w} : Busy(v)' => Busy(v)
    BY <1>21 DEF StopAtCutoff, StopCall, Busy
  <2> QED
    BY <2>1, <2>2, PositionsPass DEF Positions, CommittedInLog
<1>22. ASSUME NEW w \in Workers, AckOk(w)
       PROVE  Positions'
  <2>1. Busy(w) /\ PassInHand(w) /\ CommitInHand(w) /\ UNCHANGED <<dlt, fin, cur>>
    BY <1>22 DEF AckOk, Busy, worldVars
  <2>2. ~Busy(w)' /\ \A v \in Workers \ {w} : Busy(v)' => Busy(v)
    BY <1>22 DEF AckOk, Busy
  <2> QED
    BY <2>1, <2>2, PositionsPass, CommitStaysInLog DEF Positions
<1>23. ASSUME NEW w \in Workers, AckFails(w)
       PROVE  Positions'
  <2>1. /\ Busy(w) /\ (CommitInHand(w) \/ UNCHANGED committed)
        /\ UNCHANGED <<dlt, nxt, fin, cur>>
    BY <1>23 DEF AckFails, Busy
  <2>2. \A v \in Workers : Busy(v)' => Busy(v)
    BY <1>23 DEF AckFails, Busy
  <2>3. CommittedInLog'
    BY <2>1, CommitStaysInLog DEF Positions, CommittedInLog
  <2> QED
    BY <2>1, <2>2, <2>3 DEF Positions, BatchesInLog, HandInBatch
<1>24. ASSUME NEW w \in Workers, HandleError(w)
       PROVE  Positions'
  <2>1. /\ Busy(w) /\ (PassInHand(w) \/ UNCHANGED nxt)
        /\ fin' = [fin EXCEPT ![w] = nxt'[w]] /\ UNCHANGED <<dlt, committed>>
    BY <1>24 DEF HandleError, Busy, worldVars, groupVars
  <2>2. /\ ~Busy(w)'
        /\ \A v \in Workers \ {w} : (Busy(v)' => Busy(v)) /\ cur'[v] = cur[v]
    BY <1>24 DEF HandleError, Busy
  <2>3. \A p \in Partitions : nxt'[w][p] \in Nat /\ nxt'[w][p] <= fin[w][p]
    <3>1. ASSUME PassInHand(w), NEW p \in Partitions
          PROVE  nxt'[w][p] \in Nat /\ nxt'[w][p] <= fin[w][p]
      <4>1. CASE p = cur[w]
        BY <2>1, <3>1, <4>1, RecordInHand, PassMovesOne
      <4>2. CASE p # cur[w]
        BY <2>1, <3>1, <4>2, RecordInHand, PassMovesOne DEF Positions, BatchesInLog
      <4> QED
        BY <4>1, <4>2
    <3>2. CASE UNCHANGED nxt
      BY <3>2 DEF Positions, BatchesInLog
    <3> QED
      BY <2>1, <3>1, <3>2
  <2>4. \A v \in Workers \ {w} : nxt'[v] = nxt[v] /\ fin'[v] = fin[v]
    BY <2>1 DEF PassInHand
  <2>5. fin'[w] = nxt'[w]
    BY <2>1
  <2>6. BatchesInLog'
    <3> SUFFICES ASSUME NEW v \in Workers, NEW p \in Partitions
                 PROVE  nxt'[v][p] <= fin'[v][p] /\ fin'[v][p] <= Len(dlt[p])
      BY <2>1 DEF BatchesInLog
    <3>1. fin[v][p] \in Nat /\ fin[v][p] <= Len(dlt[p]) /\ Len(dlt[p]) \in Nat
      BY DEF Positions, BatchesInLog, WorldTypeOK
    <3>2. CASE v = w
      BY <2>3, <2>5, <3>1, <3>2
    <3>3. CASE v # w
      BY <2>4, <3>1, <3>3 DEF Positions, BatchesInLog
    <3> QED
      BY <3>2, <3>3
  <2>7. HandInBatch'
    BY <2>2, <2>4 DEF Positions, HandInBatch
  <2> QED
    BY <2>1, <2>6, <2>7 DEF Positions, CommittedInLog
<1>25. ASSUME NEW w \in Workers, NEW p \in Partitions, Deliver(w, p)
       PROVE  Positions'
  BY <1>25 DEF Deliver, Route, Positions, CommittedInLog, BatchesInLog, HandInBatch, Busy, worldVars, groupVars
<1>26. ASSUME NEW w \in Workers, NEW p \in Partitions, Assign(w, p)
       PROVE  Positions'
  BY <1>26 DEF Assign, Positions, CommittedInLog, BatchesInLog, HandInBatch, Busy, GroupTypeOK, WorldTypeOK, worldVars
<1>27. CASE UNCHANGED vars
  BY <1>27, PositionsKept DEF vars, Busy, worldVars, groupVars, workerVars
<1> QED
  BY <1>1, <1>2, <1>3, <1>4, <1>5, <1>6, <1>7, <1>8, <1>9, <1>10, <1>11, <1>12, <1>13, <1>14, <1>15, <1>16, <1>17, <1>18, <1>19, <1>20, <1>21, <1>22, <1>23, <1>24, <1>25, <1>26, <1>27
     DEF Next, ApiStep, CronStep, ShutdownStep, PodEvent, WorkerStep, WorkerEvent,
         Restart, Crash

\* Every variable has its type, and no position runs out of its log.
THEOREM TypeCorrect == Spec => [](TypeOK /\ Positions)
<1>1. Init => TypeOK /\ Positions
  BY DEF Init, WorldInit, TypeOK, WorldTypeOK, GroupTypeOK, PodTypeOK, WorkerTypeOK,
         GhostTypeOK, Positions, CommittedInLog, BatchesInLog, HandInBatch, Busy, Nowhere
<1>2. TypeOK /\ Positions /\ [Next]_vars => (TypeOK /\ Positions)'
  BY TypeStep, PositionsStep
<1> QED
  BY <1>1, <1>2, PTL DEF Spec

------------------------------------------------------------------------------

\* No step takes back what was logged, forwarded, given up or put off.
LEMMA FactsGrow ==
    ASSUME TypeOK, [Next]_vars
    PROVE  /\ sent \subseteq sent' /\ gaveUp \subseteq gaveUp' /\ deferred \subseteq deferred'
           /\ \A p \in Partitions :
                 /\ Len(dlt[p]) <= Len(dlt'[p])
                 /\ \A o \in 1..Len(dlt[p]) : dlt'[p][o] = dlt[p][o]
<1> DEFINE Grow == /\ sent \subseteq sent' /\ gaveUp \subseteq gaveUp' /\ deferred \subseteq deferred'
                   /\ \A p \in Partitions :
                         /\ Len(dlt[p]) <= Len(dlt'[p])
                         /\ \A o \in 1..Len(dlt[p]) : dlt'[p][o] = dlt[p][o]
<1>1. CASE World
  <2>1. WorldTypeOK /\ WorldNext /\ UNCHANGED <<sent, gaveUp, deferred>>
    BY <1>1 DEF World, ghostVars, TypeOK
  <2> QED
    BY <2>1, WorldGrows
<1>2. ASSUME UNCHANGED dlt, sent \subseteq sent', gaveUp \subseteq gaveUp', deferred \subseteq deferred'
      PROVE  Grow
  BY <1>2 DEF TypeOK, WorldTypeOK
<1>3. ASSUME NEW pod \in Pods,
             ApiStep(pod) \/ CronStep(pod) \/ ShutdownStep(pod) \/ PodEvent(pod)
      PROVE  Grow
  <2>1. UNCHANGED <<dlt, sent, gaveUp, deferred>>
    BY <1>3 DEF ApiStep, CronStep, ShutdownStep, PodEvent, StartSetCutoff, StartCheck,
                StartContainer, CronCheck, CronSetCutoff, CronStart, DestroyBegin,
                DestroyStop, DestroyReturns, Restart, Crash, FreshProcess,
                worldVars, ghostVars
  <2> QED
    BY <1>2, <2>1
<1>4. ASSUME NEW w \in Workers, WorkerStep(w) \/ WorkerEvent(w)
      PROVE  Grow
  <2>1. UNCHANGED dlt /\ sent \subseteq sent' /\ gaveUp \subseteq gaveUp' /\ deferred \subseteq deferred'
    BY <1>4 DEF WorkerStep, WorkerEvent, Deliver, StopAtCutoff, StopReturns, Idle, IdleStop,
                Exit, SendOk, SendFails, AckOk, AckFails, HandleError, Poll, Evict, Assign,
                Revoke, Forward, worldVars, ghostVars
  <2> QED
    BY <1>2, <2>1
<1>5. CASE UNCHANGED vars
  BY <1>2, <1>5 DEF vars, worldVars, ghostVars
<1> QED
  BY <1>1, <1>3, <1>4, <1>5 DEF Next

\* A record that has been dealt with stays so.
LEMMA AccountedKept ==
    ASSUME TypeOK, [Next]_vars, NEW p \in Partitions, NEW o \in 1..Len(dlt[p]), Accounted(p, o)
    PROVE  Accounted(p, o)'
BY FactsGrow DEF Accounted

\* A worker that moves back, or stays, is past nothing new.
LEMMA WorkersKept ==
    ASSUME TypeOK, Positions, WorkersAccountedFor, [Next]_vars,
           nxt' \in [Workers -> [Partitions -> Nat]],
           \A w \in Workers, p \in Partitions : nxt'[w][p] <= nxt[w][p]
    PROVE  WorkersAccountedFor'
<1> SUFFICES ASSUME NEW w \in Workers, NEW p \in Partitions, NEW o \in 1..nxt'[w][p]
             PROVE  Accounted(p, o)'
  BY DEF WorkersAccountedFor
<1>1. /\ nxt[w][p] \in Nat /\ nxt'[w][p] \in Nat /\ fin[w][p] \in Nat /\ Len(dlt[p]) \in Nat
      /\ nxt'[w][p] <= nxt[w][p] /\ nxt[w][p] <= fin[w][p] /\ fin[w][p] <= Len(dlt[p])
  BY DEF TypeOK, WorkerTypeOK, WorldTypeOK, Positions, BatchesInLog
<1>2. o \in 1..nxt[w][p] /\ o \in 1..Len(dlt[p])
  BY <1>1
<1> QED
  BY <1>2, AccountedKept DEF WorkersAccountedFor

\* A worker that passes its record is past a record that has been dealt with.
LEMMA WorkersPass ==
    ASSUME TypeOK, Positions, WorkersAccountedFor, [Next]_vars,
           NEW w \in Workers, Busy(w), PassInHand(w),
           NEW q, q = cur[w], NEW k, k = nxt[w][cur[w]] + 1, Accounted(q, k)'
    PROVE  WorkersAccountedFor'
<1> SUFFICES ASSUME NEW v \in Workers, NEW p \in Partitions, NEW o \in 1..nxt'[v][p]
             PROVE  Accounted(p, o)'
  BY DEF WorkersAccountedFor
<1>1. /\ nxt[v][p] \in Nat /\ fin[v][p] \in Nat /\ Len(dlt[p]) \in Nat
      /\ nxt[v][p] <= fin[v][p] /\ fin[v][p] <= Len(dlt[p])
  BY DEF TypeOK, WorkerTypeOK, WorldTypeOK, Positions, BatchesInLog
<1>2. CASE o \in 1..nxt[v][p]
  BY <1>1, <1>2, AccountedKept DEF WorkersAccountedFor
<1>3. CASE o \notin 1..nxt[v][p]
  <2>1. cur[w] \in Partitions /\ WorkerTypeOK
    BY RecordInHand DEF TypeOK
  <2>2. <<v, p>> = <<w, cur[w]>>
    BY <1>1, <1>3, <2>1, PassMovesOne
  <2>3. nxt'[w][cur[w]] = nxt[w][cur[w]] + 1
    BY <2>1, PassMovesOne
  <2>4. o = nxt[w][cur[w]] + 1
    BY <1>1, <1>3, <2>2, <2>3
  <2> QED
    BY <2>2, <2>4
<1> QED
  BY <1>2, <1>3

\* An acknowledgment covers the record in hand and those the worker is past.
LEMMA CommitAccounted ==
    ASSUME TypeOK, Positions, DecisionInv, [Next]_vars,
           NEW w \in Workers, wpc[w] \in {"ack", "skip"},
           UNCHANGED committed \/ CommitInHand(w), UNCHANGED dlt
    PROVE  AccountedFor'
<1>1. Busy(w)
  BY DEF Busy
<1>2. CommittedInLog'
  BY <1>1, CommitStaysInLog DEF Positions, CommittedInLog
<1> SUFFICES ASSUME NEW p \in Partitions, NEW o \in 1..committed'[p]
             PROVE  Accounted(p, o)'
  BY <1>2 DEF AccountedFor, CommittedInLog
<1>3. /\ committed[p] \in Nat /\ Len(dlt[p]) \in Nat /\ committed[p] <= Len(dlt[p])
  BY DEF TypeOK, GroupTypeOK, WorldTypeOK, Positions, CommittedInLog
<1>4. CASE o \in 1..committed[p]
  BY <1>3, <1>4, AccountedKept DEF DecisionInv, AccountedFor
<1>5. CASE o \notin 1..committed[p]
  <2>1. p = cur[w] /\ o \in 1..(nxt[w][cur[w]] + 1) /\ o \in 1..Len(dlt[p])
    BY <1>1, <1>3, <1>5, RecordInHand DEF CommitInHand, TypeOK, GroupTypeOK
  <2>2. Accounted(p, o)
    <3>1. CASE o \in 1..nxt[w][p]
      BY <2>1, <3>1 DEF DecisionInv, WorkersAccountedFor
    <3>2. CASE o = nxt[w][p] + 1
      BY <2>1, <3>2 DEF DecisionInv, InHandDecided, HandDecided, Accounted, Place, InHand
    <3> QED
      BY <1>1, <2>1, <3>1, <3>2, RecordInHand
  <2> QED
    BY <2>1, <2>2, AccountedKept
<1> QED
  BY <1>4, <1>5

\* While nothing is committed, nothing can become unaccounted for.
LEMMA CommitKept ==
    ASSUME TypeOK, Positions, AccountedFor, [Next]_vars, UNCHANGED committed
    PROVE  AccountedFor'
<1> SUFFICES ASSUME NEW p \in Partitions
             PROVE  /\ committed[p] <= Len(dlt'[p])
                    /\ \A o \in 1..committed[p] : Accounted(p, o)'
  BY DEF AccountedFor
<1>1. /\ committed[p] \in Nat /\ Len(dlt[p]) \in Nat /\ committed[p] <= Len(dlt[p])
  BY DEF TypeOK, GroupTypeOK, WorldTypeOK, Positions, CommittedInLog
<1>2. TypeOK'
  BY TypeStep
<1>3. Len(dlt'[p]) \in Nat /\ Len(dlt[p]) <= Len(dlt'[p])
  BY <1>2, FactsGrow DEF TypeOK, WorldTypeOK
<1> QED
  BY <1>1, <1>3, AccountedKept DEF AccountedFor

\* A hand that holds what it held is decided as it was.
LEMMA HandKept ==
    ASSUME TypeOK, Positions, InHandDecided, [Next]_vars, NEW w \in Workers,
           wpc'[w] \in {"stop", "ack", "skip"} =>
               wpc'[w] = wpc[w] /\ cur'[w] = cur[w] /\ nxt'[w] = nxt[w]
    PROVE  HandDecided(w)'
<1>1. CASE wpc'[w] \notin {"stop", "ack", "skip"}
  BY <1>1 DEF HandDecided
<1>2. CASE wpc'[w] \in {"stop", "ack", "skip"}
  <2>1. Busy(w) /\ wpc'[w] = wpc[w] /\ Place(w)' = Place(w)
    BY <1>2 DEF Busy, Place
  <2>2. InHand(w)' = InHand(w)
    <3>1. cur'[w] = cur[w] /\ nxt'[w] = nxt[w]
      BY <1>2
    <3> QED
      BY <2>1, <3>1, FactsGrow, RecordInHand DEF InHand
  <2> QED
    BY <2>1, <2>2, FactsGrow DEF InHandDecided, HandDecided
<1> QED
  BY <1>1, <1>2

\* A step that neither commits nor passes a record, and brings no thread to its
\* stop or acknowledgment, keeps the decisions.
LEMMA DecisionKept ==
    ASSUME TypeOK, Positions, DecisionInv, [Next]_vars, UNCHANGED <<committed, nxt>>,
           \A w \in Workers : wpc'[w] \in {"stop", "ack", "skip"} =>
               wpc'[w] = wpc[w] /\ cur'[w] = cur[w]
    PROVE  DecisionInv'
<1>1. WorkersAccountedFor'
  BY WorkersKept DEF DecisionInv, TypeOK, WorkerTypeOK
<1>2. AccountedFor'
  BY CommitKept DEF DecisionInv
<1>3. InHandDecided'
  BY HandKept DEF DecisionInv, InHandDecided
<1> QED
  BY <1>1, <1>2, <1>3 DEF DecisionInv

\* The end of workers takes no decision back.
LEMMA DecisionBuried ==
    ASSUME TypeOK, Positions, DecisionInv, [Next]_vars, UNCHANGED committed,
           NEW ws \in SUBSET Workers, Bury(ws)
    PROVE  DecisionInv'
<1>1. nxt' \in [Workers -> [Partitions -> Nat]]
  BY TypeStep DEF TypeOK, WorkerTypeOK
<1>2. \A w \in Workers, p \in Partitions : nxt'[w][p] <= nxt[w][p]
  <2> SUFFICES ASSUME NEW w \in Workers, NEW p \in Partitions
               PROVE  nxt'[w][p] <= nxt[w][p]
    OBVIOUS
  <2>1. nxt[w][p] \in Nat
    BY DEF TypeOK, WorkerTypeOK
  <2>2. WorkerTypeOK
    BY DEF TypeOK
  <2>3. CASE w \in ws
    BY <2>1, <2>2, <2>3, BuriedAtZero
  <2>4. CASE w \notin ws
    BY <2>1, <2>2, <2>4, BuriedAtZero
  <2> QED
    BY <2>3, <2>4
<1>3. WorkersAccountedFor'
  BY <1>1, <1>2, WorkersKept DEF DecisionInv
<1>4. AccountedFor'
  BY CommitKept DEF DecisionInv
<1>5. \A w \in Workers : wpc'[w] \in {"stop", "ack", "skip"} =>
         wpc'[w] = wpc[w] /\ cur'[w] = cur[w] /\ nxt'[w] = nxt[w]
  BY DEF Bury
<1>6. InHandDecided'
  BY <1>5, HandKept DEF DecisionInv, InHandDecided
<1> QED
  BY <1>3, <1>4, <1>6 DEF DecisionInv

\* Whatever step is taken, what the group and the workers are past has been dealt with.
LEMMA DecisionStep ==
    ASSUME TypeOK, Positions, DecisionInv, [Next]_vars
    PROVE  DecisionInv'
<1> USE DEF DecisionInv
<1>0. TypeOK'
  BY TypeStep
<1>1. CASE World
  BY <1>1, DecisionKept DEF World, groupVars, workerVars
<1>2. ASSUME NEW pod \in Pods, StartSetCutoff(pod)
      PROVE  DecisionInv'
  BY <1>2, DecisionKept DEF StartSetCutoff, groupVars, workerVars
<1>3. ASSUME NEW pod \in Pods, StartCheck(pod)
      PROVE  DecisionInv'
  BY <1>3, DecisionKept DEF StartCheck, groupVars, workerVars
<1>4. ASSUME NEW pod \in Pods, StartContainer(pod)
      PROVE  DecisionInv'
  BY <1>4, DecisionKept DEF StartContainer, groupVars, workerVars, ContainerStart, TypeOK, WorkerTypeOK
<1>5. ASSUME NEW pod \in Pods, CronCheck(pod)
      PROVE  DecisionInv'
  BY <1>5, DecisionKept DEF CronCheck, groupVars, workerVars
<1>6. ASSUME NEW pod \in Pods, CronSetCutoff(pod)
      PROVE  DecisionInv'
  BY <1>6, DecisionKept DEF CronSetCutoff, groupVars, workerVars
<1>7. ASSUME NEW pod \in Pods, CronStart(pod)
      PROVE  DecisionInv'
  BY <1>7, DecisionKept DEF CronStart, groupVars, workerVars, ContainerStart, TypeOK, WorkerTypeOK
<1>8. ASSUME NEW pod \in Pods, DestroyBegin(pod)
      PROVE  DecisionInv'
  BY <1>8, DecisionKept DEF DestroyBegin, groupVars, workerVars
<1>9. ASSUME NEW pod \in Pods, DestroyStop(pod)
      PROVE  DecisionInv'
  BY <1>9, DecisionKept DEF DestroyStop, groupVars, workerVars
<1>10. ASSUME NEW pod \in Pods, DestroyReturns(pod)
      PROVE  DecisionInv'
  BY <1>10, DecisionKept DEF DestroyReturns, groupVars, workerVars
<1>11. ASSUME NEW w \in Workers, StopReturns(w)
      PROVE  DecisionInv'
  BY <1>11, DecisionKept DEF StopReturns, groupVars, workerVars
<1>12. ASSUME NEW w \in Workers, Idle(w)
      PROVE  DecisionInv'
  BY <1>12, DecisionKept DEF Idle, groupVars, workerVars
<1>13. ASSUME NEW w \in Workers, IdleStop(w)
      PROVE  DecisionInv'
  BY <1>13, DecisionKept DEF IdleStop, groupVars, workerVars, StopCall, ContainerStop, TypeOK, WorkerTypeOK
<1>14. ASSUME NEW w \in Workers, SendFails(w)
      PROVE  DecisionInv'
  BY <1>14, DecisionKept DEF SendFails, groupVars, workerVars
<1>15. ASSUME NEW w \in Workers, Evict(w)
      PROVE  DecisionInv'
  BY <1>15, DecisionKept DEF Evict, groupVars, workerVars
<1>16. ASSUME NEW w \in Workers, Poll(w)
      PROVE  DecisionInv'
  BY <1>16, DecisionKept DEF Poll, groupVars, workerVars
<1>17. ASSUME NEW w \in Workers, NEW p \in Partitions, Revoke(w, p)
      PROVE  DecisionInv'
  BY <1>17, DecisionKept DEF Revoke, groupVars, workerVars
<1>18. ASSUME NEW pod \in Pods, FreshProcess(pod)
       PROVE  DecisionInv'
  BY <1>18, DecisionBuried DEF FreshProcess
<1>19. ASSUME NEW w \in Workers, Exit(w)
       PROVE  DecisionInv'
  BY <1>19, DecisionBuried DEF Exit
<1>20. ASSUME NEW w \in Workers, StopAtCutoff(w)
       PROVE  DecisionInv'
  <2>1. Busy(w) /\ PassInHand(w) /\ UNCHANGED <<committed, cur>> /\ wpc[w] = "stop"
    BY <1>20 DEF StopAtCutoff, Busy, groupVars
  <2>2. PICK q, k : q = cur[w] /\ k = nxt[w][cur[w]] + 1
    OBVIOUS
  <2>3. Accounted(q, k)'
    BY <2>1, <2>2, FactsGrow DEF InHandDecided, HandDecided, Accounted, Place
  <2>4. WorkersAccountedFor'
    BY <2>1, <2>2, <2>3, WorkersPass
  <2>5. \A v \in Workers : wpc'[v] \in {"stop", "ack", "skip"} =>
           wpc'[v] = wpc[v] /\ cur'[v] = cur[v] /\ nxt'[v] = nxt[v]
    BY <1>20, <2>1 DEF StopAtCutoff, StopCall, PassInHand, TypeOK, WorkerTypeOK
  <2>6. InHandDecided'
    BY <2>5, HandKept DEF InHandDecided
  <2> QED
    BY <2>1, <2>4, <2>6, CommitKept
<1>21. ASSUME NEW w \in Workers, SendOk(w)
       PROVE  DecisionInv'
  <2>1. /\ UNCHANGED <<committed, cur, nxt>> /\ Place(w) \in sent' /\ wpc'[w] = "ack"
        /\ \A v \in Workers \ {w} : wpc'[v] = wpc[v]
    BY <1>21 DEF SendOk, Forward, groupVars, TypeOK, WorkerTypeOK
  <2>2. WorkersAccountedFor'
    BY <2>1, WorkersKept DEF TypeOK, WorkerTypeOK
  <2>3. \A v \in Workers \ {w} : HandDecided(v)'
    BY <2>1, HandKept
  <2>4. HandDecided(w)'
    BY <2>1 DEF HandDecided, Place
  <2>5. InHandDecided'
    BY <2>3, <2>4 DEF InHandDecided
  <2> QED
    BY <2>1, <2>2, <2>5, CommitKept
<1>22. ASSUME NEW w \in Workers, AckOk(w)
       PROVE  DecisionInv'
  <2>1. /\ Busy(w) /\ PassInHand(w) /\ UNCHANGED <<dlt, cur>> /\ wpc[w] \in {"ack", "skip"}
        /\ CommitInHand(w)
    BY <1>22 DEF AckOk, Busy, worldVars
  <2>2. PICK q, k : q = cur[w] /\ k = nxt[w][cur[w]] + 1
    OBVIOUS
  <2>3. Accounted(q, k)'
    BY <2>1, <2>2, FactsGrow DEF InHandDecided, HandDecided, Accounted, Place, InHand
  <2>4. WorkersAccountedFor'
    BY <2>1, <2>2, <2>3, WorkersPass
  <2>5. \A v \in Workers : wpc'[v] \in {"stop", "ack", "skip"} =>
           wpc'[v] = wpc[v] /\ cur'[v] = cur[v] /\ nxt'[v] = nxt[v]
    BY <1>22, <2>1 DEF AckOk, PassInHand, TypeOK, WorkerTypeOK
  <2>6. InHandDecided'
    BY <2>5, HandKept DEF InHandDecided
  <2>7. AccountedFor'
    BY <2>1, CommitAccounted
  <2> QED
    BY <2>4, <2>6, <2>7
<1>23. ASSUME NEW w \in Workers, AckFails(w)
       PROVE  DecisionInv'
  <2>1. /\ UNCHANGED <<dlt, cur, nxt>> /\ wpc[w] \in {"ack", "skip"}
        /\ UNCHANGED committed \/ CommitInHand(w)
    BY <1>23 DEF AckFails
  <2>2. WorkersAccountedFor'
    BY <2>1, WorkersKept DEF TypeOK, WorkerTypeOK
  <2>3. \A v \in Workers : wpc'[v] \in {"stop", "ack", "skip"} =>
           wpc'[v] = wpc[v] /\ cur'[v] = cur[v] /\ nxt'[v] = nxt[v]
    BY <1>23, <2>1 DEF AckFails, TypeOK, WorkerTypeOK
  <2>4. InHandDecided'
    BY <2>3, HandKept DEF InHandDecided
  <2>5. AccountedFor'
    BY <2>1, CommitAccounted
  <2> QED
    BY <2>2, <2>4, <2>5
<1>24. ASSUME NEW w \in Workers, HandleError(w)
       PROVE  DecisionInv'
  <2>1. Busy(w) /\ UNCHANGED committed
    BY <1>24 DEF HandleError, Busy, groupVars
  <2>2. WorkersAccountedFor'
    <3>1. CASE UNCHANGED nxt
      BY <3>1, WorkersKept DEF TypeOK, WorkerTypeOK
    <3>2. CASE PassInHand(w) /\ gaveUp' = gaveUp \cup {Place(w)}
      <4>1. PICK q, k : q = cur[w] /\ k = nxt[w][cur[w]] + 1
        OBVIOUS
      <4>2. Accounted(q, k)'
        BY <3>2, <4>1 DEF Accounted, Place
      <4> QED
        BY <2>1, <3>2, <4>1, <4>2, WorkersPass
    <3> QED
      BY <1>24, <3>1, <3>2 DEF HandleError
  <2>3. \A v \in Workers : wpc'[v] \in {"stop", "ack", "skip"} =>
           wpc'[v] = wpc[v] /\ cur'[v] = cur[v] /\ nxt'[v] = nxt[v]
    BY <1>24 DEF HandleError, PassInHand, TypeOK, WorkerTypeOK
  <2>4. InHandDecided'
    BY <2>3, HandKept DEF InHandDecided
  <2> QED
    BY <2>1, <2>2, <2>4, CommitKept
<1>25. ASSUME NEW w \in Workers, NEW p \in Partitions, Deliver(w, p)
       PROVE  DecisionInv'
  <2> DEFINE r == dlt[p][nxt[w][p] + 1]
  <2>1. /\ UNCHANGED <<committed, nxt, dlt>>
        /\ cur' = [cur EXCEPT ![w] = p] /\ wpc' = [wpc EXCEPT ![w] = Route(w, r)]
        /\ deferred' = IF BeyondCutoff(w, r)
                       THEN deferred \cup {<<p, nxt[w][p] + 1>>} ELSE deferred
    BY <1>25 DEF Deliver, groupVars, worldVars
  <2>2. WorkersAccountedFor'
    BY <2>1, WorkersKept DEF TypeOK, WorkerTypeOK
  <2>3. \A v \in Workers \ {w} : HandDecided(v)'
    <3>1. \A v \in Workers \ {w} : wpc'[v] = wpc[v] /\ cur'[v] = cur[v] /\ nxt'[v] = nxt[v]
      BY <2>1 DEF TypeOK, WorkerTypeOK
    <3> QED
      BY <3>1, HandKept
  <2>4. Place(w)' = <<p, nxt[w][p] + 1>> /\ InHand(w)' = r /\ wpc'[w] = Route(w, r)
    BY <2>1 DEF Place, InHand, TypeOK, WorkerTypeOK
  <2>5. HandDecided(w)'
    BY <2>1, <2>4 DEF HandDecided, Route
  <2>6. InHandDecided'
    BY <2>3, <2>5 DEF InHandDecided
  <2> QED
    BY <2>1, <2>2, <2>6, CommitKept
<1>26. ASSUME NEW w \in Workers, NEW p \in Partitions, Assign(w, p)
       PROVE  DecisionInv'
  <2>1. /\ UNCHANGED <<committed, cur, wpc, dlt>> /\ wpc[w] = "loop"
        /\ nxt' = [nxt EXCEPT ![w][p] = committed[p]]
    BY <1>26 DEF Assign, worldVars
  <2>2. WorkersAccountedFor'
    <3> SUFFICES ASSUME NEW v \in Workers, NEW q \in Partitions, NEW o \in 1..nxt'[v][q]
                 PROVE  Accounted(q, o)'
      BY DEF WorkersAccountedFor
    <3>1. nxt'[v][q] = IF <<v, q>> = <<w, p>> THEN committed[q] ELSE nxt[v][q]
      BY <2>1 DEF TypeOK, WorkerTypeOK
    <3>2. Accounted(q, o)
      BY <3>1 DEF WorkersAccountedFor, AccountedFor
    <3>3. /\ committed[q] \in Nat /\ nxt[v][q] \in Nat /\ fin[v][q] \in Nat
          /\ Len(dlt[q]) \in Nat /\ committed[q] <= Len(dlt[q])
          /\ nxt[v][q] <= fin[v][q] /\ fin[v][q] <= Len(dlt[q])
      BY DEF TypeOK, GroupTypeOK, WorldTypeOK, WorkerTypeOK, Positions, CommittedInLog,
             BatchesInLog
    <3>4. o \in 1..Len(dlt[q])
      BY <3>1, <3>3
    <3> QED
      BY <3>2, <3>4, AccountedKept
  <2>3. \A v \in Workers : wpc'[v] \in {"stop", "ack", "skip"} =>
           wpc'[v] = wpc[v] /\ cur'[v] = cur[v] /\ nxt'[v] = nxt[v]
    BY <2>1 DEF TypeOK, WorkerTypeOK
  <2>4. InHandDecided'
    BY <2>3, HandKept DEF InHandDecided
  <2> QED
    BY <2>1, <2>2, <2>4, CommitKept
<1>27. CASE UNCHANGED vars
  BY <1>27, DecisionKept DEF vars, groupVars, workerVars
<1> QED
  BY <1>1, <1>2, <1>3, <1>4, <1>5, <1>6, <1>7, <1>8, <1>9, <1>10, <1>11, <1>12, <1>13, <1>14, <1>15, <1>16, <1>17, <1>18, <1>19, <1>20, <1>21, <1>22, <1>23, <1>24, <1>25, <1>26, <1>27
     DEF Next, ApiStep, CronStep, ShutdownStep, PodEvent, WorkerStep, WorkerEvent,
         Restart, Crash

\* No interleaving of triggers, stops, idle events, rebalances, failures, restarts and
\* crashes takes the group past a DLT record that was not forwarded, at the end of its
\* cycles, given up by the error handler, or put off by a cutoff.
THEOREM AccountedForAlways == Spec => []AccountedFor
<1>1. Init => DecisionInv
  BY DEF Init, WorldInit, DecisionInv, AccountedFor, WorkersAccountedFor, InHandDecided,
         HandDecided, Nowhere
<1>2. TypeOK /\ Positions /\ DecisionInv /\ [Next]_vars => DecisionInv'
  BY DecisionStep
<1>3. DecisionInv => AccountedFor
  BY DEF DecisionInv
<1> QED
  BY <1>1, <1>2, <1>3, TypeCorrect, PTL DEF Spec

------------------------------------------------------------------------------

\* A record of the log has a timestamp.
LEMMA Timestamp ==
    ASSUME TypeOK, NEW p \in Partitions, NEW o \in 1..Len(dlt[p])
    PROVE  dlt[p][o].ts \in Nat
<1>1. dlt[p] \in Seq(Record)
  BY DEF TypeOK, WorldTypeOK
<1>2. dlt[p][o] \in Record
  BY <1>1
<1> QED
  BY <1>2 DEF Record

\* Time, triggers and cutoffs only move forward, cutoffs to the latest trigger.
LEMMA TriggersStep ==
    ASSUME TypeOK, TriggersPast, [Next]_vars
    PROVE  TriggersPast' /\ now <= now' /\ lastTrigger <= lastTrigger'
<1> USE DEF TriggersPast, TypeOK, WorldTypeOK, PodTypeOK, GhostTypeOK
<1>1. CASE World
  BY <1>1 DEF World, WorldNext, Tick, RetrySucceeds, MessageFails, RetryFails, podVars, ghostVars
<1>2. ASSUME NEW pod \in Pods, StartSetCutoff(pod) \/ CronSetCutoff(pod)
      PROVE  TriggersPast' /\ now <= now' /\ lastTrigger <= lastTrigger'
  <2>1. cutoff' = [cutoff EXCEPT ![pod] = now] /\ lastTrigger' = now /\ now' = now
    BY <1>2 DEF StartSetCutoff, CronSetCutoff, worldVars
  <2>2. \A a \in Pods : cutoff'[a] <= now
    BY <2>1
  <2> QED
    BY <2>1, <2>2
<1>3. ASSUME NEW pod \in Pods,
             \/ StartCheck(pod) \/ StartContainer(pod) \/ CronCheck(pod) \/ CronStart(pod)
             \/ DestroyStop(pod) \/ DestroyReturns(pod) \/ DestroyBegin(pod)
      PROVE  TriggersPast' /\ now <= now' /\ lastTrigger <= lastTrigger'
  <2>1. UNCHANGED <<now, cutoff, lastTrigger>>
    BY <1>3 DEF StartCheck, StartContainer, CronCheck, CronStart, DestroyBegin,
                DestroyStop, DestroyReturns, worldVars, ghostVars
  <2> QED
    BY <2>1
<1>6. ASSUME NEW pod \in Pods, Restart(pod) \/ Crash(pod)
      PROVE  TriggersPast' /\ now <= now' /\ lastTrigger <= lastTrigger'
  <2>1. UNCHANGED <<now, lastTrigger>> /\ cutoff' = [cutoff EXCEPT ![pod] = 0]
    BY <1>6 DEF Restart, Crash, FreshProcess, ghostVars
  <2> QED
    BY <2>1
<1>4. ASSUME NEW w \in Workers, WorkerStep(w) \/ WorkerEvent(w)
      PROVE  TriggersPast' /\ now <= now' /\ lastTrigger <= lastTrigger'
  <2>1. UNCHANGED <<now, cutoff, lastTrigger>>
    BY <1>4 DEF WorkerStep, WorkerEvent, Deliver, StopAtCutoff, StopReturns, Idle, IdleStop,
                Exit, SendOk, SendFails, AckOk, AckFails, HandleError, Poll, Evict, Assign,
                Revoke, worldVars, podVars, ghostVars
  <2> QED
    BY <2>1
<1>5. CASE UNCHANGED vars
  BY <1>5 DEF vars, worldVars, podVars, ghostVars
<1> QED
  BY <1>1, <1>2, <1>3, <1>4, <1>5, <1>6 DEF Next, ApiStep, CronStep, ShutdownStep, PodEvent

\* Only the world appends to the DLT.
LEMMA LogKept ==
    ASSUME [Next]_vars, ~World
    PROVE  UNCHANGED <<dlt, now>>
<1>1. ASSUME NEW pod \in Pods,
             ApiStep(pod) \/ CronStep(pod) \/ ShutdownStep(pod) \/ PodEvent(pod)
      PROVE  UNCHANGED <<dlt, now>>
  BY <1>1 DEF ApiStep, CronStep, ShutdownStep, PodEvent, StartSetCutoff, StartCheck,
              StartContainer, CronCheck, CronSetCutoff, CronStart, DestroyBegin,
              DestroyStop, DestroyReturns, Restart, Crash, FreshProcess, worldVars
<1>2. ASSUME NEW w \in Workers, WorkerStep(w) \/ WorkerEvent(w)
      PROVE  UNCHANGED <<dlt, now>>
  BY <1>2 DEF WorkerStep, WorkerEvent, Deliver, StopAtCutoff, StopReturns, Idle, IdleStop,
              Exit, SendOk, SendFails, AckOk, AckFails, HandleError, Poll, Evict, Assign,
              Revoke, worldVars
<1> QED
  BY <1>1, <1>2 DEF Next, vars, worldVars

\* A partition stays in the order of the clock: what is appended is stamped now.
LEMMA LogOrderStep ==
    ASSUME TypeOK, LogInClockOrder, [Next]_vars
    PROVE  LogInClockOrder'
<1> USE DEF TypeOK, WorldTypeOK
<1>1. CASE UNCHANGED <<dlt, now>>
  BY <1>1 DEF LogInClockOrder
<1>2. CASE Tick
  <2>1. UNCHANGED dlt /\ now' = now + 1
    BY <1>2 DEF Tick
  <2>2. \A p \in Partitions : \A j \in 1..Len(dlt[p]) : dlt[p][j].ts \in Nat
    BY Timestamp
  <2> QED
    BY <2>1, <2>2 DEF LogInClockOrder
<1>3. ASSUME NEW q \in Partitions, NEW h, PublishToDlt(q, h), UNCHANGED now
      PROVE  LogInClockOrder'
  <2> SUFFICES ASSUME Skew = 0, NEW p \in Partitions, NEW j \in 1..Len(dlt'[p])
               PROVE  /\ dlt'[p][j].ts <= now
                      /\ \A i \in 1..j : dlt'[p][i].ts <= dlt'[p][j].ts
    BY <1>3 DEF LogInClockOrder
  <2>1. dlt' = [dlt EXCEPT ![q] = Append(@, [ts |-> now, header |-> h])]
    BY <1>3 DEF PublishToDlt
  <2>2. CASE p # q
    BY <2>1, <2>2 DEF LogInClockOrder
  <2>3. CASE p = q
    <3>1. Len(dlt[q]) \in Nat /\ Len(dlt'[q]) = Len(dlt[q]) + 1
      BY <2>1
    <3>2. dlt'[q][Len(dlt[q]) + 1].ts = now
      BY <2>1
    <3>3. \A i \in 1..Len(dlt[q]) : dlt'[q][i] = dlt[q][i]
      BY <2>1
    <3>4. CASE j \in 1..Len(dlt[q])
      <4>1. dlt'[q][j] = dlt[q][j] /\ dlt[q][j].ts <= now
        BY <3>3, <3>4 DEF LogInClockOrder
      <4>2. \A i \in 1..j : dlt'[q][i] = dlt[q][i] /\ dlt[q][i].ts <= dlt[q][j].ts
        BY <3>1, <3>3, <3>4 DEF LogInClockOrder
      <4> QED
        BY <2>3, <4>1, <4>2
    <3>5. CASE j = Len(dlt[q]) + 1
      BY <2>3, <3>1, <3>2, <3>3, <3>5 DEF LogInClockOrder
    <3> QED
      BY <2>3, <3>1, <3>4, <3>5
  <2> QED
    BY <2>2, <2>3
<1>4. CASE World
  BY <1>1, <1>2, <1>3, <1>4
     DEF World, WorldNext, RetrySucceeds, MessageFails, RetryFails
<1> QED
  BY <1>1, <1>4, LogKept

\* A thread gets to its send, its acknowledgment or its skip from routeRecord only.
LEMMA HandFromRoute ==
    ASSUME TypeOK, [Next]_vars, NEW w \in Workers, wpc'[w] \in {"send", "ack", "skip"}
    PROVE  \/ /\ wpc[w] \in {"send", "ack", "skip"} /\ wpc'[w] \in {wpc[w], "ack"}
              /\ cur'[w] = cur[w] /\ nxt'[w] = nxt[w]
           \/ \E p \in Partitions : Deliver(w, p)
<1> USE DEF TypeOK, WorkerTypeOK
<1>1. CASE World \/ UNCHANGED vars
  BY <1>1 DEF World, vars, workerVars
<1>2. ASSUME NEW pod \in Pods,
             ApiStep(pod) \/ CronStep(pod) \/ ShutdownStep(pod) \/ PodEvent(pod)
      PROVE  /\ wpc[w] \in {"send", "ack", "skip"} /\ wpc'[w] \in {wpc[w], "ack"}
             /\ cur'[w] = cur[w] /\ nxt'[w] = nxt[w]
  BY <1>2 DEF ApiStep, CronStep, ShutdownStep, PodEvent, StartSetCutoff, StartCheck,
              StartContainer, CronCheck, CronSetCutoff, CronStart, DestroyBegin,
              DestroyStop, DestroyReturns, Restart, Crash, FreshProcess, Bury,
              ContainerStart, workerVars
<1>3. ASSUME NEW v \in Workers,
             \/ StopAtCutoff(v) \/ StopReturns(v) \/ Idle(v) \/ IdleStop(v) \/ Exit(v)
             \/ Poll(v) \/ Evict(v) \/ HandleError(v)
             \/ \E p \in Partitions : Assign(v, p) \/ Revoke(v, p)
      PROVE  /\ wpc[w] \in {"send", "ack", "skip"} /\ wpc'[w] \in {wpc[w], "ack"}
             /\ cur'[w] = cur[w] /\ nxt'[w] = nxt[w]
  BY <1>3 DEF StopAtCutoff, StopReturns, Idle, IdleStop, Exit, Poll, Evict, HandleError,
              Assign, Revoke, StopCall, PassInHand, Bury, workerVars
<1>4. ASSUME NEW v \in Workers, SendOk(v) \/ SendFails(v) \/ AckOk(v) \/ AckFails(v)
      PROVE  /\ wpc[w] \in {"send", "ack", "skip"} /\ wpc'[w] \in {wpc[w], "ack"}
             /\ cur'[w] = cur[w] /\ nxt'[w] = nxt[w]
  BY <1>4 DEF SendOk, SendFails, AckOk, AckFails, PassInHand
<1>5. ASSUME NEW v \in Workers, NEW p \in Partitions, Deliver(v, p), v # w
      PROVE  /\ wpc[w] \in {"send", "ack", "skip"} /\ wpc'[w] \in {wpc[w], "ack"}
             /\ cur'[w] = cur[w] /\ nxt'[w] = nxt[w]
  BY <1>5 DEF Deliver
<1> QED
  BY <1>1, <1>2, <1>3, <1>4, <1>5 DEF Next, WorkerStep, WorkerEvent

\* A record gets on its way to the retry topic only under a cutoff, which is at most
\* the latest trigger, and triggers only move forward.
LEMMA HandWithinStep ==
    ASSUME TypeOK, Positions, TriggersPast, HandWithinTrigger, [Next]_vars
    PROVE  HandWithinTrigger'
<1> SUFFICES ASSUME NEW w \in Workers, wpc'[w] \in {"send", "ack", "skip"}
             PROVE  InHand(w)'.ts <= lastTrigger'
  BY DEF HandWithinTrigger
<1>1. lastTrigger \in Nat /\ lastTrigger' \in Nat /\ lastTrigger <= lastTrigger'
  BY TriggersStep, TypeStep DEF TypeOK, GhostTypeOK
<1>2. CASE /\ wpc[w] \in {"send", "ack", "skip"}
           /\ cur'[w] = cur[w] /\ nxt'[w] = nxt[w]
  <2>1. Busy(w) /\ InHand(w).ts <= lastTrigger
    BY <1>2 DEF Busy, HandWithinTrigger
  <2>2. /\ cur[w] \in Partitions /\ nxt[w][cur[w]] + 1 \in 1..Len(dlt[cur[w]])
        /\ InHand(w).ts \in Nat
    BY <2>1, RecordInHand
  <2>3. dlt'[cur[w]][nxt[w][cur[w]] + 1] = dlt[cur[w]][nxt[w][cur[w]] + 1]
    BY <2>2, FactsGrow
  <2>4. InHand(w)' = InHand(w)
    BY <1>2, <2>3 DEF InHand
  <2> QED
    BY <1>1, <2>1, <2>2, <2>4
<1>3. ASSUME NEW p \in Partitions, Deliver(w, p)
      PROVE  InHand(w)'.ts <= lastTrigger'
  <2> DEFINE r == dlt[p][nxt[w][p] + 1]
  <2>1. /\ nxt[w][p] \in Nat /\ fin[w][p] \in Nat /\ Len(dlt[p]) \in Nat
        /\ nxt[w][p] < fin[w][p] /\ fin[w][p] <= Len(dlt[p])
    BY <1>3 DEF Deliver, Positions, BatchesInLog, TypeOK, WorkerTypeOK, WorldTypeOK
  <2>2. r \in Record
    BY <2>1 DEF TypeOK, WorldTypeOK
  <2>3. InHand(w)' = r /\ wpc'[w] = Route(w, r) /\ UNCHANGED lastTrigger
    BY <1>3 DEF Deliver, InHand, worldVars, TypeOK, WorkerTypeOK
  <2>4. r.ts <= cutoff[PodOf(w)]
    BY <2>2, <2>3, PodOfWorker DEF Route, BeyondCutoff, Record, TypeOK, PodTypeOK
  <2>5. cutoff[PodOf(w)] <= lastTrigger /\ cutoff[PodOf(w)] \in Nat
    BY PodOfWorker DEF TriggersPast, TypeOK, PodTypeOK
  <2> QED
    BY <1>1, <2>2, <2>3, <2>4, <2>5 DEF Record
<1> QED
  BY <1>2, <1>3, HandFromRoute

\* The group moves by acknowledgments only.
LEMMA CommitFromHand ==
    ASSUME TypeOK, [Next]_vars, NEW p \in Partitions, committed'[p] # committed[p]
    PROVE  \E w \in Workers : wpc[w] \in {"ack", "skip"} /\ cur[w] = p /\ CommitInHand(w)
<1>1. \E w \in Workers : wpc[w] \in {"ack", "skip"} /\ CommitInHand(w)
  BY DEF Next, ApiStep, CronStep, ShutdownStep, PodEvent, WorkerStep, WorkerEvent, World,
         StartSetCutoff, StartCheck, StartContainer, CronCheck, CronSetCutoff, CronStart,
         DestroyBegin, DestroyStop, DestroyReturns, Restart, Crash, FreshProcess,
         Deliver, StopAtCutoff, StopReturns, Idle, IdleStop, Exit, SendOk, SendFails, AckOk,
         AckFails, HandleError, Poll, Evict, Assign, Revoke, vars, groupVars
<1> QED
  BY <1>1 DEF CommitInHand, TypeOK, GroupTypeOK

\* What is forwarded is the record in hand.
LEMMA SentFromHand ==
    ASSUME TypeOK, [Next]_vars, NEW x \in sent', x \notin sent
    PROVE  \E w \in Workers : wpc[w] = "send" /\ x = Place(w)
<1>1. ASSUME NEW w \in Workers, SendOk(w) \/ SendFails(w)
      PROVE  wpc[w] = "send" /\ x = Place(w)
  BY <1>1 DEF SendOk, SendFails, Forward
<1>2. ASSUME NEW w \in Workers, WorkerStep(w) \/ WorkerEvent(w), sent' # sent
      PROVE  SendOk(w) \/ SendFails(w)
  BY <1>2 DEF WorkerStep, WorkerEvent, Deliver, StopAtCutoff, StopReturns, Idle, IdleStop,
              Exit, AckOk, AckFails, HandleError, Poll, Evict, Assign, Revoke, ghostVars
<1>3. ASSUME NEW pod \in Pods,
             ApiStep(pod) \/ CronStep(pod) \/ ShutdownStep(pod) \/ PodEvent(pod)
      PROVE  sent' = sent
  BY <1>3 DEF ApiStep, CronStep, ShutdownStep, PodEvent, StartSetCutoff, StartCheck,
              StartContainer, CronCheck, CronSetCutoff, CronStart, DestroyBegin,
              DestroyStop, DestroyReturns, Restart, Crash, FreshProcess, ghostVars
<1>4. World \/ UNCHANGED vars => sent' = sent
  BY DEF World, vars, ghostVars
<1> QED
  BY <1>1, <1>2, <1>3, <1>4 DEF Next

\* A record that is forwarded is in the log and within the latest trigger, whatever the
\* order of the timestamps, and stays so.
LEMMA SentWithinStep ==
    ASSUME TypeOK, Positions, ClockInv, [Next]_vars, NEW x \in sent'
    PROVE  x[2] \in 1..Len(dlt'[x[1]]) /\ dlt'[x[1]][x[2]].ts <= lastTrigger'
<1> USE DEF ClockInv
<1>1. lastTrigger \in Nat /\ lastTrigger' \in Nat /\ lastTrigger <= lastTrigger'
  BY TriggersStep, TypeStep DEF TypeOK, GhostTypeOK
<1>2. /\ x[1] \in Partitions /\ x[2] \in 1..Len(dlt[x[1]])
      /\ dlt[x[1]][x[2]].ts <= lastTrigger
  <2>1. CASE x \in sent
    BY <2>1 DEF SentInLog, PassedWithinTrigger, TypeOK, GhostTypeOK
  <2>2. ASSUME NEW w \in Workers, wpc[w] = "send", x = Place(w)
        PROVE  <1>2
    <3>1. cur[w] \in Partitions /\ nxt[w][cur[w]] + 1 \in 1..Len(dlt[cur[w]])
      BY <2>2, RecordInHand DEF Busy
    <3>2. x[1] = cur[w] /\ x[2] = nxt[w][cur[w]] + 1
      BY <2>2 DEF Place
    <3>3. InHand(w).ts <= lastTrigger
      BY <2>2 DEF HandWithinTrigger
    <3> QED
      BY <3>1, <3>2, <3>3 DEF InHand
  <2> QED
    BY <2>1, <2>2, SentFromHand
<1>3. PICK p, o : p = x[1] /\ o = x[2]
  OBVIOUS
<1>4. /\ o \in 1..Len(dlt'[p]) /\ dlt'[p][o] = dlt[p][o]
      /\ dlt[p][o].ts \in Nat
  BY <1>2, <1>3, FactsGrow, Timestamp
<1> QED
  BY <1>1, <1>2, <1>3, <1>4

\* An acknowledgment passes the record in hand and those before it, which are not
\* newer when the log is in the order of the clock.
LEMMA PassedStep ==
    ASSUME TypeOK, Positions, ClockInv, [Next]_vars
    PROVE  PassedWithinTrigger'
<1> USE DEF ClockInv
<1> SUFFICES ASSUME Skew = 0, NEW p \in Partitions, NEW o \in 1..committed'[p]
             PROVE  dlt'[p][o].ts <= lastTrigger'
  BY SentWithinStep DEF PassedWithinTrigger
<1>1. lastTrigger \in Nat /\ lastTrigger' \in Nat /\ lastTrigger <= lastTrigger'
  BY TriggersStep, TypeStep DEF TypeOK, GhostTypeOK
<1>2. ASSUME o \in 1..Len(dlt[p]), dlt[p][o].ts <= lastTrigger
      PROVE  dlt'[p][o].ts <= lastTrigger'
  <2>1. dlt'[p][o] = dlt[p][o] /\ dlt[p][o].ts \in Nat
    BY <1>2, FactsGrow, Timestamp
  <2> QED
    BY <1>1, <1>2, <2>1
<1>3. committed[p] \in Nat /\ Len(dlt[p]) \in Nat /\ committed[p] <= Len(dlt[p])
  BY DEF TypeOK, GroupTypeOK, WorldTypeOK, Positions, CommittedInLog
<1>4. CASE committed'[p] = committed[p]
  BY <1>2, <1>3, <1>4 DEF PassedWithinTrigger
<1>5. ASSUME NEW w \in Workers, wpc[w] \in {"ack", "skip"}, cur[w] = p, CommitInHand(w)
      PROVE  dlt'[p][o].ts <= lastTrigger'
  <2> DEFINE j == nxt[w][p] + 1
  <2>1. Busy(w)
    BY <1>5 DEF Busy
  <2>2. committed'[p] = j /\ j \in 1..Len(dlt[p])
    BY <1>5, <2>1, RecordInHand DEF CommitInHand, TypeOK, GroupTypeOK
  <2>3. dlt[p][j].ts <= lastTrigger
    BY <1>5 DEF HandWithinTrigger, InHand
  <2>4. o \in 1..Len(dlt[p]) /\ dlt[p][o].ts <= dlt[p][j].ts
    BY <1>3, <2>2 DEF LogInClockOrder
  <2>5. dlt[p][o].ts \in Nat /\ dlt[p][j].ts \in Nat
    BY <2>2, <2>4, Timestamp
  <2> QED
    BY <1>1, <1>2, <2>3, <2>4, <2>5
<1> QED
  BY <1>4, <1>5, CommitFromHand

\* No record newer than the latest trigger is forwarded, and when timestamps follow the
\* clock the group is never past one, whichever pod was triggered and whatever became of
\* its container.
THEOREM PassedWithinTriggerAlways == Spec => []PassedWithinTrigger
<1>1. Init => ClockInv
  BY DEF Init, WorldInit, ClockInv, TriggersPast, LogInClockOrder, HandWithinTrigger,
         SentInLog, PassedWithinTrigger, Nowhere
<1>2. TypeOK /\ Positions /\ ClockInv /\ [Next]_vars => ClockInv'
  BY TriggersStep, LogOrderStep, HandWithinStep, SentWithinStep, PassedStep DEF ClockInv, SentInLog
<1>3. ClockInv => PassedWithinTrigger
  BY DEF ClockInv
<1> QED
  BY <1>1, <1>2, <1>3, TypeCorrect, PTL DEF Spec

==============================================================================
