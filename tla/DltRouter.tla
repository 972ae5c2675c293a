------------------------------ MODULE DltRouter ------------------------------
(***************************************************************************)
(* KafkaOpsDltRouter: one route, from the DLT of a consumer to its retry   *)
(* topic, in every pod of the application.                                 *)
(*                                                                         *)
(* A pod has an API thread (start), a scheduler thread (scheduledRestart), *)
(* a shutdown thread (destroy) and a listener container that may be        *)
(* started and stopped many times.  A started container has one consumer   *)
(* thread, a "worker"; the worker of an earlier start may still be         *)
(* delivering its last batch when the next one runs, so a pod owns several *)
(* worker slots.  All the workers of all the pods are in one consumer      *)
(* group, "<groupId>-dlt-router".                                          *)
(*                                                                         *)
(* Offsets are 1-based: committed[p] and nxt[w][p] count records, so the   *)
(* next record is at +1.                                                   *)
(***************************************************************************)
EXTENDS DltTopics, FiniteSets

CONSTANTS
    Pods,
    Slots,            \* worker slots of a pod
    None,             \* nobody, nothing
    MaxCycles,        \* kafka.ops.dlt-routing.max-cycles
    BackOffAttempts,  \* retries of FixedBackOff, 3 in the code
    CronEnabled       \* FALSE when restart-cron is "-"

Workers == Pods \X Slots
PodOf(w) == w[1]

ASSUME RouterAssumption ==
    /\ None \notin Workers /\ None \notin Partitions
    /\ MaxCycles \in Nat \ {0}       \* KafkaOpsProperties refuses others
    /\ BackOffAttempts \in Nat
    /\ CronEnabled \in BOOLEAN

\* The threads that one fault can meet at their work can be counted.
ASSUME ThreadsFinite == IsFiniteSet(Slots) /\ IsFiniteSet(Partitions)

VARIABLES
    (* The consumer group, kept by the broker. *)
    committed,    \* committed[p]: records of p the group is past
    owner,        \* owner[p]: the worker p is assigned to, or None
    (* A pod: the container and the threads that call it. *)
    running,      \* running[pod]: container.isRunning()
    lock,         \* lock[pod]: the lifecycle lock is held by a waiting stop()
    cutoff,       \* cutoff[pod]: RouteState.cutoffTimestamp
    phase,        \* phase[pod]: "up", then destroy(): "stop", "wait", "down"
    api,          \* api[pod]: the API thread, in start()
    cron,         \* cron[pod]: the scheduler thread, in scheduledRestart()
    (* A worker: a consumer thread and its KafkaConsumer. *)
    wpc,          \* wpc[w]: where the thread is
    stopReq,      \* stopReq[w]: its container has been stopped
    cur,          \* cur[w]: the partition of the record in hand
    nxt,          \* nxt[w][p]: records of p delivered to the listener
    fin,          \* fin[w][p]: records of p polled
    tries,        \* tries[w][p]: failures of the record at nxt + 1
    (* What has happened, for the properties. *)
    sent,         \* the records forwarded to the retry topic
    gaveUp,       \* the records the error handler logged and skipped
    deferred,     \* the records a cutoff has put off
    dups,         \* how many forwards were of a record forwarded before
    lastTrigger   \* the clock of the latest start

groupVars  == <<committed, owner>>
podVars    == <<running, lock, cutoff, phase, api, cron>>
workerVars == <<wpc, stopReq, cur, nxt, fin, tries>>
ghostVars  == <<sent, gaveUp, deferred, dups, lastTrigger>>
vars == <<worldVars, groupVars, podVars, workerVars, ghostVars>>

GroupTypeOK ==
    /\ committed \in [Partitions -> Nat]
    /\ owner \in [Partitions -> Workers \cup {None}]

PodTypeOK ==
    /\ running \in [Pods -> BOOLEAN]
    /\ lock \in [Pods -> BOOLEAN]
    /\ cutoff \in [Pods -> Nat]
    /\ phase \in [Pods -> {"up", "stop", "wait", "down"}]
    /\ api \in [Pods -> {"idle", "check", "start"}]
    /\ cron \in [Pods -> {"idle", "cutoff", "start"}]

WorkerTypeOK ==
    /\ wpc \in [Workers -> {"dead", "loop", "stop", "idle", "wait",
                            "send", "ack", "skip", "failed"}]
    /\ stopReq \in [Workers -> BOOLEAN]
    /\ cur \in [Workers -> Partitions \cup {None}]
    /\ nxt \in [Workers -> [Partitions -> Nat]]
    /\ fin \in [Workers -> [Partitions -> Nat]]
    /\ tries \in [Workers -> [Partitions -> Nat]]

GhostTypeOK ==
    /\ sent \in SUBSET (Partitions \X Nat)
    /\ gaveUp \in SUBSET (Partitions \X Nat)
    /\ deferred \in SUBSET (Partitions \X Nat)
    /\ dups \in Nat
    /\ lastTrigger \in Nat

TypeOK == WorldTypeOK /\ GroupTypeOK /\ PodTypeOK /\ WorkerTypeOK /\ GhostTypeOK

Nowhere == [p \in Partitions |-> 0]

Init ==
    /\ WorldInit
    /\ committed = Nowhere
    /\ owner = [p \in Partitions |-> None]
    /\ running = [pod \in Pods |-> FALSE]
    /\ lock = [pod \in Pods |-> FALSE]
    /\ cutoff = [pod \in Pods |-> 0]
    /\ phase = [pod \in Pods |-> "up"]
    /\ api = [pod \in Pods |-> "idle"]
    /\ cron = [pod \in Pods |-> "idle"]
    /\ wpc = [w \in Workers |-> "dead"]
    /\ stopReq = [w \in Workers |-> FALSE]
    /\ cur = [w \in Workers |-> None]
    /\ nxt = [w \in Workers |-> Nowhere]
    /\ fin = [w \in Workers |-> Nowhere]
    /\ tries = [w \in Workers |-> Nowhere]
    /\ sent = {} /\ gaveUp = {} /\ deferred = {}
    /\ dups = 0
    /\ lastTrigger = 0

World == WorldNext /\ UNCHANGED <<groupVars, podVars, workerVars, ghostVars>>

------------------------------------------------------------------------------
(* The listener container: start() and stop(), both under its lifecycle lock. *)

\* A worker that is between batches.
Drained(w) == \A p \in Partitions : fin[w][p] = nxt[w][p]

\* container.start(): nothing when it runs already, otherwise a new consumer
\* thread.  (Bound: a pod has Slots of them, and start waits for a free one.)
ContainerStart(pod) ==
    /\ ~lock[pod]
    /\ IF running[pod]
       THEN UNCHANGED <<running, wpc>>
       ELSE \E w \in Workers :
               /\ PodOf(w) = pod /\ wpc[w] = "dead"
               /\ running' = [running EXCEPT ![pod] = TRUE]
               /\ wpc' = [wpc EXCEPT ![w] = "loop"]

\* container.stop() of a running container: it is no longer running, its
\* consumer threads are told, and the caller waits for them with the lock held.
ContainerStop(pod) ==
    /\ running' = [running EXCEPT ![pod] = FALSE]
    /\ lock' = [lock EXCEPT ![pod] = TRUE]
    /\ stopReq' = [w \in Workers |->
                     stopReq[w] \/ (PodOf(w) = pod /\ wpc[w] # "dead")]

------------------------------------------------------------------------------
(* start(), on an API thread. *)

\* The cutoff moves to now, whether or not the container runs.
StartSetCutoff(pod) ==
    /\ phase[pod] = "up" /\ api[pod] = "idle"
    /\ cutoff' = [cutoff EXCEPT ![pod] = now]
    /\ lastTrigger' = now
    /\ api' = [api EXCEPT ![pod] = "check"]
    /\ UNCHANGED <<worldVars, groupVars, running, lock, phase, cron, workerVars,
                   sent, gaveUp, deferred, dups>>

\* isRunning() is read without the lock; when it is TRUE the call returns.
StartCheck(pod) ==
    /\ api[pod] = "check"
    /\ api' = [api EXCEPT ![pod] = IF running[pod] THEN "idle" ELSE "start"]
    /\ UNCHANGED <<worldVars, groupVars, running, lock, cutoff, phase, cron,
                   workerVars, ghostVars>>

StartContainer(pod) ==
    /\ api[pod] = "start"
    /\ ContainerStart(pod)
    /\ api' = [api EXCEPT ![pod] = "idle"]
    /\ UNCHANGED <<worldVars, groupVars, lock, cutoff, phase, cron,
                   stopReq, cur, nxt, fin, tries, ghostVars>>

------------------------------------------------------------------------------
(* scheduledRestart(), on the scheduler thread: only a container that does    *)
(* not run gets a new cutoff and is started.                                  *)

CronCheck(pod) ==
    /\ CronEnabled
    /\ phase[pod] = "up" /\ cron[pod] = "idle"
    /\ ~running[pod]
    /\ cron' = [cron EXCEPT ![pod] = "cutoff"]
    /\ UNCHANGED <<worldVars, groupVars, running, lock, cutoff, phase, api,
                   workerVars, ghostVars>>

\* Slip: the cron restarts the container with the cutoff of the last trigger.
CronKeepsCutoff(pod) ==
    /\ cron[pod] = "cutoff"
    /\ cron' = [cron EXCEPT ![pod] = "start"]
    /\ UNCHANGED <<worldVars, groupVars, running, lock, cutoff, phase, api, workerVars,
                   ghostVars>>

CronSetCutoff(pod) ==
    /\ cron[pod] = "cutoff"
    /\ cutoff' = [cutoff EXCEPT ![pod] = now]
    /\ lastTrigger' = now
    /\ cron' = [cron EXCEPT ![pod] = "start"]
    /\ UNCHANGED <<worldVars, groupVars, running, lock, phase, api, workerVars,
                   sent, gaveUp, deferred, dups>>

CronStart(pod) ==
    /\ cron[pod] = "start"
    /\ ContainerStart(pod)
    /\ cron' = [cron EXCEPT ![pod] = "idle"]
    /\ UNCHANGED <<worldVars, groupVars, lock, cutoff, phase, api,
                   stopReq, cur, nxt, fin, tries, ghostVars>>

------------------------------------------------------------------------------
(* The consumer group.                                                        *)

\* Slip: a partition is resumed at the record before the committed offset.
AssignOneTooEarly(w, p) ==
    /\ owner[p] = None
    /\ wpc[w] = "loop" /\ ~stopReq[w] /\ Drained(w)
    /\ owner' = [owner EXCEPT ![p] = w]
    /\ nxt' = [nxt EXCEPT ![w][p] = committed[p] - 1]
    /\ fin' = [fin EXCEPT ![w][p] = committed[p] - 1]
    /\ tries' = [tries EXCEPT ![w][p] = 0]
    /\ UNCHANGED <<worldVars, committed, podVars, wpc, stopReq, cur, ghostVars>>

\* A worker that polls is given a partition nobody has, at its committed offset.
Assign(w, p) ==
    /\ owner[p] = None
    /\ wpc[w] = "loop" /\ ~stopReq[w] /\ Drained(w)
    /\ owner' = [owner EXCEPT ![p] = w]
    /\ nxt' = [nxt EXCEPT ![w][p] = committed[p]]
    /\ fin' = [fin EXCEPT ![w][p] = committed[p]]
    /\ tries' = [tries EXCEPT ![w][p] = 0]
    /\ UNCHANGED <<worldVars, committed, podVars, wpc, stopReq, cur, ghostVars>>

\* A rebalance takes a partition from a worker that polls.
Revoke(w, p) ==
    /\ owner[p] = w
    /\ wpc[w] = "loop" /\ ~stopReq[w] /\ Drained(w)
    /\ owner' = [owner EXCEPT ![p] = None]
    /\ UNCHANGED <<worldVars, committed, podVars, workerVars, ghostVars>>

\* A worker that did not poll for too long is evicted, batch in hand.
Evict(w) ==
    /\ Fault
    /\ wpc[w] # "dead" /\ ~(wpc[w] = "loop" /\ Drained(w))
    /\ \E p \in Partitions : owner[p] = w
    /\ owner' = [p \in Partitions |-> IF owner[p] = w THEN None ELSE owner[p]]
    /\ UNCHANGED <<now, dlt, retry, entered, belowZero, committed, podVars,
                   workerVars, ghostVars>>

------------------------------------------------------------------------------
(* A worker: polling, and routeRecord for each record of the batch.           *)

\* Ready partitions are polled; what is there now is the batch.
Poll(w) ==
    /\ wpc[w] = "loop" /\ ~stopReq[w] /\ Drained(w)
    /\ \E ready \in SUBSET {p \in Partitions : owner[p] = w /\ nxt[w][p] < Len(dlt[p])} :
          /\ ready # {}
          /\ fin' = [fin EXCEPT ![w] = [p \in Partitions |->
                       IF p \in ready THEN Len(dlt[p]) ELSE fin[w][p]]]
    /\ cur' = [cur EXCEPT ![w] = None]
    /\ UNCHANGED <<worldVars, groupVars, podVars, wpc, stopReq, nxt, tries, ghostVars>>

\* readCycleCount: no header counts as 0, garbage as the last cycle allowed, and a
\* number as it is, also a negative one.
ReadCycleCount(h) ==
    CASE h = NoHeader  -> 0
      [] h = BadHeader -> MaxCycles - 1
      [] OTHER         -> h

\* Slip: > for >=, one cycle too many.
ExhaustedTooLate(r) == ReadCycleCount(r.header) > MaxCycles

Exhausted(r) == ReadCycleCount(r.header) >= MaxCycles

\* The record in the hand of a worker, and its place.
InHand(w) == dlt[cur[w]][nxt[w][cur[w]] + 1]
Place(w)  == <<cur[w], nxt[w][cur[w]] + 1>>

\* The listener is done with the record in hand.
PassInHand(w) ==
    /\ nxt' = [nxt EXCEPT ![w][cur[w]] = @ + 1]
    /\ tries' = [tries EXCEPT ![w][cur[w]] = 0]

\* Slip: a record one tick newer than the trigger still counts as old enough.
BeyondLateCutoff(w, r) == r.ts > cutoff[PodOf(w)] + 1

\* The record is newer than the trigger.
BeyondCutoff(w, r) == r.ts > cutoff[PodOf(w)]

\* What routeRecord does with record r: where its thread goes next.
Route(w, r) ==
    CASE BeyondCutoff(w, r) -> "stop"
      [] ~BeyondCutoff(w, r) /\ Exhausted(r) -> "skip"
      [] OTHER -> "send"

\* The next record of the batch, one partition after the other, is handed to
\* routeRecord, also when the container has been stopped meanwhile.
Deliver(w, p) ==
    /\ wpc[w] = "loop"
    /\ nxt[w][p] < fin[w][p]
    /\ cur[w] \in Partitions => p = cur[w] \/ nxt[w][cur[w]] = fin[w][cur[w]]
    /\ LET r == dlt[p][nxt[w][p] + 1] IN
          /\ wpc' = [wpc EXCEPT ![w] = Route(w, r)]
          /\ deferred' = IF BeyondCutoff(w, r)
                         THEN deferred \cup {<<p, nxt[w][p] + 1>>} ELSE deferred
    /\ cur' = [cur EXCEPT ![w] = p]
    /\ UNCHANGED <<worldVars, groupVars, podVars, stopReq, nxt, fin, tries,
                   sent, gaveUp, dups, lastTrigger>>

\* A call of container.stop() by worker w: it waits, unless there is nothing to stop.
StopCall(w) ==
    /\ ~lock[PodOf(w)]
    /\ IF running[PodOf(w)]
       THEN ContainerStop(PodOf(w)) /\ wpc' = [wpc EXCEPT ![w] = "wait"]
       ELSE UNCHANGED <<running, lock, stopReq>> /\ wpc' = [wpc EXCEPT ![w] = "loop"]

\* A record beyond the cutoff: stop, and return without an acknowledgment.
StopAtCutoff(w) ==
    /\ wpc[w] = "stop"
    /\ StopCall(w)
    /\ PassInHand(w)
    /\ UNCHANGED <<worldVars, groupVars, cutoff, phase, api, cron, cur, fin, ghostVars>>

\* Slip: stop() waits for the consumer threads other than its caller, without a timeout.
StopReturnsAfterTheRest(w) ==
    /\ wpc[w] = "wait"
    /\ \A v \in Workers : PodOf(v) = PodOf(w) /\ v # w => wpc[v] = "dead"
    /\ wpc' = [wpc EXCEPT ![w] = "loop"]
    /\ lock' = [lock EXCEPT ![PodOf(w)] = FALSE]
    /\ UNCHANGED <<worldVars, groupVars, running, cutoff, phase, api, cron,
                   stopReq, cur, nxt, fin, tries, ghostVars>>

\* The wait for the caller's own thread ends with the shutdown timeout.
StopReturns(w) ==
    /\ wpc[w] = "wait"
    /\ wpc' = [wpc EXCEPT ![w] = "loop"]
    /\ lock' = [lock EXCEPT ![PodOf(w)] = FALSE]
    /\ UNCHANGED <<worldVars, groupVars, running, cutoff, phase, api, cron,
                   stopReq, cur, nxt, fin, tries, ghostVars>>

\* The retry record: the same headers but for the cycle count, one higher.
Forward(w) ==
    /\ retry' = Append(retry, ReadCycleCount(InHand(w).header) + 1)
    /\ sent' = sent \cup {Place(w)}
    /\ dups' = IF Place(w) \in sent THEN dups + 1 ELSE dups

\* send(...).get() returns.
SendOk(w) ==
    /\ wpc[w] = "send"
    /\ Forward(w)
    /\ wpc' = [wpc EXCEPT ![w] = "ack"]
    /\ UNCHANGED <<now, dlt, entered, belowZero, faults, groupVars, podVars, stopReq,
                   cur, nxt, fin, tries, gaveUp, deferred, lastTrigger>>

\* Slip: the failed send is logged and not thrown.
SendFailsQuietly(w) ==
    /\ wpc[w] = "send"
    /\ Fault
    /\ PassInHand(w)
    /\ wpc' = [wpc EXCEPT ![w] = "loop"]
    /\ UNCHANGED <<now, dlt, retry, entered, belowZero, groupVars, podVars, stopReq,
                   cur, fin, ghostVars>>

\* send(...).get() throws; the broker may have appended the record all the same.
SendFails(w) ==
    /\ wpc[w] = "send"
    /\ Fault
    /\ Forward(w) \/ UNCHANGED <<retry, sent, dups>>
    /\ wpc' = [wpc EXCEPT ![w] = "failed"]
    /\ UNCHANGED <<now, dlt, entered, belowZero, groupVars, podVars, stopReq, cur,
                   nxt, fin, tries, gaveUp, deferred, lastTrigger>>

\* Slip: the offset of the record is committed, not the one behind it.
CommitInHandItself(w) ==
    /\ owner[cur[w]] = w
    /\ committed' = [committed EXCEPT ![cur[w]] = nxt[w][cur[w]]]

\* Slip: the commit of a worker that has lost the partition is taken as well.
CommitInHandUnfenced(w) == committed' = [committed EXCEPT ![cur[w]] = nxt[w][cur[w]] + 1]

\* acknowledge() commits the offset behind the record at once; the broker
\* takes the commit of the partition's owner only.
CommitInHand(w) ==
    /\ owner[cur[w]] = w
    /\ committed' = [committed EXCEPT ![cur[w]] = nxt[w][cur[w]] + 1]

AckOk(w) ==
    /\ wpc[w] \in {"ack", "skip"}
    /\ CommitInHand(w)
    /\ PassInHand(w)
    /\ wpc' = [wpc EXCEPT ![w] = "loop"]
    /\ UNCHANGED <<worldVars, owner, podVars, stopReq, cur, fin, ghostVars>>

\* acknowledge() throws: the worker was evicted, or the call failed, with the
\* commit made or not.
AckFails(w) ==
    /\ wpc[w] \in {"ack", "skip"}
    /\ \/ owner[cur[w]] # w /\ UNCHANGED <<faults, committed>>
       \/ Fault /\ (CommitInHand(w) \/ UNCHANGED committed)
    /\ wpc' = [wpc EXCEPT ![w] = "failed"]
    /\ UNCHANGED <<now, dlt, retry, entered, belowZero, owner, podVars, stopReq, cur,
                   nxt, fin, tries, ghostVars>>

\* The listener threw: DefaultErrorHandler drops the batch and seeks back to the
\* record, or, its attempts used up, logs the record and seeks behind it.
HandleError(w) ==
    /\ wpc[w] = "failed"
    /\ IF tries[w][cur[w]] < BackOffAttempts
       THEN /\ tries' = [tries EXCEPT ![w][cur[w]] = @ + 1]
            /\ UNCHANGED <<nxt, gaveUp>>
       ELSE /\ PassInHand(w)
            /\ gaveUp' = gaveUp \cup {Place(w)}
    /\ fin' = [fin EXCEPT ![w] = nxt'[w]]
    /\ wpc' = [wpc EXCEPT ![w] = "loop"]
    /\ cur' = [cur EXCEPT ![w] = None]
    /\ UNCHANGED <<worldVars, groupVars, podVars, stopReq, sent, deferred, dups,
                   lastTrigger>>

------------------------------------------------------------------------------
(* onIdleEvent, on the worker's own thread.                                   *)

\* Slip: the test of isRunning() is the wrong way round.
IdleWhenStopped(w) ==
    /\ wpc[w] = "loop" /\ ~stopReq[w] /\ Drained(w)
    /\ ~running[PodOf(w)]
    /\ wpc' = [wpc EXCEPT ![w] = "idle"]
    /\ UNCHANGED <<worldVars, groupVars, podVars, stopReq, cur, nxt, fin, tries, ghostVars>>

\* Nothing to poll for idleShutdownSeconds, maybe before a partition was assigned,
\* and the container is running.
Idle(w) ==
    /\ wpc[w] = "loop" /\ ~stopReq[w] /\ Drained(w)
    /\ \A p \in Partitions : owner[p] = w => nxt[w][p] = Len(dlt[p])
    /\ running[PodOf(w)]
    /\ wpc' = [wpc EXCEPT ![w] = "idle"]
    /\ UNCHANGED <<worldVars, groupVars, podVars, stopReq, cur, nxt, fin, tries, ghostVars>>

IdleStop(w) ==
    /\ wpc[w] = "idle"
    /\ StopCall(w)
    /\ UNCHANGED <<worldVars, groupVars, cutoff, phase, api, cron, cur, nxt, fin,
                   tries, ghostVars>>

------------------------------------------------------------------------------
(* The end of a worker, of a pod, and its next life.                          *)

\* What is left of the workers in ws: their partitions are free again.
Bury(ws) ==
    /\ owner' = [p \in Partitions |-> IF owner[p] \in ws THEN None ELSE owner[p]]
    /\ wpc' = [w \in Workers |-> IF w \in ws THEN "dead" ELSE wpc[w]]
    /\ stopReq' = [w \in Workers |-> w \notin ws /\ stopReq[w]]
    /\ cur' = [w \in Workers |-> IF w \in ws THEN None ELSE cur[w]]
    /\ nxt' = [w \in Workers |-> IF w \in ws THEN Nowhere ELSE nxt[w]]
    /\ fin' = [w \in Workers |-> IF w \in ws THEN Nowhere ELSE fin[w]]
    /\ tries' = [w \in Workers |-> IF w \in ws THEN Nowhere ELSE tries[w]]

\* The thread of a stopped container ends once its batch is delivered.
Exit(w) ==
    /\ wpc[w] = "loop" /\ stopReq[w] /\ Drained(w)
    /\ Bury({w})
    /\ UNCHANGED <<worldVars, committed, podVars, ghostVars>>

\* The application shuts down: no new request or cron run gets to the router,
\* those under way go on.
DestroyBegin(pod) ==
    /\ phase[pod] = "up"
    /\ Fault
    /\ phase' = [phase EXCEPT ![pod] = "stop"]
    /\ UNCHANGED <<now, dlt, retry, entered, belowZero, groupVars, running, lock,
                   cutoff, api, cron, workerVars, ghostVars>>

\* destroy() stops the container if it is running.
DestroyStop(pod) ==
    /\ phase[pod] = "stop"
    /\ IF running[pod]
       THEN /\ ~lock[pod]
            /\ ContainerStop(pod)
            /\ phase' = [phase EXCEPT ![pod] = "wait"]
       ELSE /\ phase' = [phase EXCEPT ![pod] = "down"]
            /\ UNCHANGED <<running, lock, stopReq>>
    /\ UNCHANGED <<worldVars, groupVars, cutoff, api, cron, wpc, cur, nxt, fin, tries,
                   ghostVars>>

\* Slip: destroy() waits for the consumer threads without a timeout.
DestroyReturnsWhenDead(pod) ==
    /\ phase[pod] = "wait"
    /\ \A w \in Workers : PodOf(w) = pod => wpc[w] = "dead"
    /\ phase' = [phase EXCEPT ![pod] = "down"]
    /\ lock' = [lock EXCEPT ![pod] = FALSE]
    /\ UNCHANGED <<worldVars, groupVars, running, cutoff, api, cron, workerVars,
                   ghostVars>>

\* The wait in stop() ends: the consumer thread is gone, or has not ended in time.
DestroyReturns(pod) ==
    /\ phase[pod] = "wait"
    /\ phase' = [phase EXCEPT ![pod] = "down"]
    /\ lock' = [lock EXCEPT ![pod] = FALSE]
    /\ UNCHANGED <<worldVars, groupVars, running, cutoff, api, cron, workerVars,
                   ghostVars>>

\* A new process: afterPropertiesSet builds a container that is not started.
FreshProcess(pod) ==
    /\ Bury({w \in Workers : PodOf(w) = pod})
    /\ running' = [running EXCEPT ![pod] = FALSE]
    /\ lock' = [lock EXCEPT ![pod] = FALSE]
    /\ cutoff' = [cutoff EXCEPT ![pod] = 0]
    /\ phase' = [phase EXCEPT ![pod] = "up"]
    /\ api' = [api EXCEPT ![pod] = "idle"]
    /\ cron' = [cron EXCEPT ![pod] = "idle"]
    /\ UNCHANGED <<now, dlt, retry, entered, belowZero, committed, ghostVars>>

Restart(pod) == phase[pod] = "down" /\ FreshProcess(pod) /\ UNCHANGED faults

Crash(pod) == Fault /\ FreshProcess(pod)

------------------------------------------------------------------------------

\* The threads of a pod other than its workers ...
ApiStep(pod)      == StartCheck(pod) \/ StartContainer(pod)
CronStep(pod)     == CronCheck(pod) \/ CronSetCutoff(pod) \/ CronStart(pod)
ShutdownStep(pod) == DestroyStop(pod) \/ DestroyReturns(pod) \/ Restart(pod)

\* ... and what happens to a pod.
PodEvent(pod) == StartSetCutoff(pod) \/ DestroyBegin(pod) \/ Crash(pod)

\* The steps that take a worker through its batch and out of the container ...
WorkerStep(w) ==
    \/ \E p \in Partitions : Deliver(w, p)
    \/ StopAtCutoff(w) \/ StopReturns(w) \/ Idle(w) \/ IdleStop(w) \/ Exit(w)
    \/ SendOk(w) \/ AckOk(w) \/ AckFails(w) \/ HandleError(w)

\* ... and what else happens to it.
WorkerEvent(w) ==
    \/ Poll(w) \/ SendFails(w) \/ Evict(w)
    \/ \E p \in Partitions : Assign(w, p) \/ Revoke(w, p)

Next ==
    \/ World
    \/ \E pod \in Pods : ApiStep(pod) \/ CronStep(pod) \/ ShutdownStep(pod) \/ PodEvent(pod)
    \/ \E w \in Workers : WorkerStep(w) \/ WorkerEvent(w)

Spec == Init /\ [][Next]_vars

\* Every thread goes on while it can; the cron keeps firing; a pod that went
\* down comes back; time passes.  A worker that keeps coming back to poll does
\* get a partition nobody has, and does poll the records it is behind on:
\* rebalances come from members that join or leave, and both end.  A worker that waits
\* for the lifecycle lock gets it although later starts take it again: they
\* are an idle interval apart.
Fairness ==
    /\ WF_vars(Tick /\ World)
    /\ \A pod \in Pods :
          /\ WF_vars(ApiStep(pod)) /\ WF_vars(CronStep(pod)) /\ WF_vars(ShutdownStep(pod))
    /\ \A w \in Workers :
          /\ WF_vars(WorkerStep(w))
          /\ SF_vars(Poll(w))
          /\ SF_vars(StopAtCutoff(w))
          /\ \A p \in Partitions : SF_vars(Assign(w, p))

FairSpec == Spec /\ Fairness

------------------------------------------------------------------------------
(* Safety.                                                                    *)

\* What became of record o of partition p: forwarded, at the end of its cycles,
\* given up by the error handler, or put off by a cutoff.
Accounted(p, o) ==
    \/ <<p, o>> \in sent \cup gaveUp \cup deferred
    \/ Exhausted(dlt[p][o])

\* The group is never past a record that has not been dealt with: whatever the
\* interleaving of starts, stops, rebalances and crashes, an acknowledged offset
\* (which acknowledges every offset before it) leaves no record behind that
\* routeRecord or the error handler did not decide about.
AccountedFor ==
    \A p \in Partitions :
        /\ committed[p] <= Len(dlt[p])
        /\ \A o \in 1..committed[p] : Accounted(p, o)

\* The router implements DltDrain: the position of the group never goes back
\* either, although workers of several pods and of several starts commit, some
\* of them after they have lost the partition.
Settled == UNION {{p} \X {o \in 1..Len(dlt[p]) : Accounted(p, o)} : p \in Partitions}

Drain == INSTANCE DltDrain WITH
            length <- [p \in Partitions |-> Len(dlt[p])], settled <- Settled

Drains == Drain!Spec

\* "Only messages that existed before the trigger time are routed": nothing newer than
\* the latest trigger is forwarded, and the group is never past a record that is newer.
\* The second is so when the timestamps of the DLT follow the routers' clock (Skew = 0);
\* several pods, each with its clock, may write a partition out of order, and then a
\* record that was put off is passed with an older one behind it.  A record put off
\* can be passed over in any case (see NothingSkipped), but only after a trigger that it
\* was old enough for.
PassedWithinTrigger ==
    /\ \A x \in sent : dlt[x[1]][x[2]].ts <= lastTrigger
    /\ Skew = 0 =>
           \A p \in Partitions : \A o \in 1..committed[p] : dlt[p][o].ts <= lastTrigger

\* One fault interrupts at most this many consumer threads at their work: those of one
\* pod, each with a partition of its own.
Together ==
    IF Cardinality(Slots) < Cardinality(Partitions)
    THEN Cardinality(Slots) ELSE Cardinality(Partitions)

\* A record is forwarded a second time only when something went wrong between
\* its send and its commit, and then only the record in the hand of each thread that
\* it went wrong for: triggers, cutoffs, idle stops, restarts by the cron and
\* partitions moving between pods duplicate nothing.
DuplicatesPaidByFaults == dups <= faults * Together

\* The records of the DLT.
Entries == UNION {{p} \X (1..Len(dlt[p])) : p \in Partitions}

\* A poison message ends, whatever its header was: it comes back to the DLT once per
\* cycle, and as often again as its header was below zero, which is how much later
\* max-cycles is reached; a duplicated forward adds one more chain, at most as long as
\* that of the least header there can be.
Allowance ==
    entered * (MaxCycles + 1) + belowZero + dups * (MaxCycles - MinCount)

RoutingLoopBounded == Cardinality(Entries) <= Allowance

------------------------------------------------------------------------------
(* The inductive invariants behind the safety properties.                     *)

\* A worker that has a record in hand.
Busy(w) == wpc[w] \in {"stop", "send", "ack", "skip", "failed"}

\* Positions stay inside the log, and a record in hand has been polled.
CommittedInLog == \A p \in Partitions : committed[p] <= Len(dlt[p])

BatchesInLog ==
    \A w \in Workers, p \in Partitions :
        nxt[w][p] <= fin[w][p] /\ fin[w][p] <= Len(dlt[p])

HandInBatch ==
    \A w \in Workers :
        Busy(w) => cur[w] \in Partitions /\ nxt[w][cur[w]] < fin[w][cur[w]]

Positions == CommittedInLog /\ BatchesInLog /\ HandInBatch

\* A record that some worker is past has been dealt with, whether or not its
\* offset was ever committed: the next acknowledgment of that worker covers it.
WorkersAccountedFor ==
    \A w \in Workers, p \in Partitions : \A o \in 1..nxt[w][p] : Accounted(p, o)

\* What the place of its thread says of the record a worker has in hand.
HandDecided(w) ==
    /\ wpc[w] = "stop" => Place(w) \in deferred
    /\ wpc[w] = "ack"  => Place(w) \in sent
    /\ wpc[w] = "skip" => Exhausted(InHand(w))

InHandDecided == \A w \in Workers : HandDecided(w)

DecisionInv == AccountedFor /\ WorkersAccountedFor /\ InHandDecided

\* A worker that has a partition is at most one record behind the group: the one whose
\* commit was made although acknowledge() threw.
OwnersCaughtUp ==
    \A p \in Partitions, w \in Workers : owner[p] = w => committed[p] <= nxt[w][p] + 1

\* No trigger is ahead of the clock, no cutoff ahead of the latest trigger.
TriggersPast ==
    /\ lastTrigger <= now
    /\ \A pod \in Pods : cutoff[pod] <= lastTrigger

\* Without skew a partition is in the order of the clock.
LogInClockOrder ==
    Skew = 0 =>
        \A p \in Partitions : \A j \in 1..Len(dlt[p]) :
            /\ dlt[p][j].ts <= now
            /\ \A i \in 1..j : dlt[p][i].ts <= dlt[p][j].ts

\* A record on its way to the retry topic or to its commit is within the trigger.
HandWithinTrigger ==
    \A w \in Workers :
        wpc[w] \in {"send", "ack", "skip"} => InHand(w).ts <= lastTrigger

\* What was forwarded is a record of the log.
SentInLog == \A x \in sent : x[2] \in 1..Len(dlt[x[1]])

ClockInv ==
    /\ TriggersPast /\ LogInClockOrder /\ HandWithinTrigger /\ SentInLog
    /\ PassedWithinTrigger

\* The counts a retry record may have.
Cycles == (MinCount + 1)..MaxCycles

\* What is forwarded was not at the end of its cycles, so that a retry record is within
\* them.
WithinCycles ==
    /\ \A w \in Workers : wpc[w] = "send" => ~Exhausted(InHand(w))
    /\ \A i \in 1..Len(retry) : retry[i] \in Cycles

\* The entries of the DLT that are still to come: one for every cycle that is left to a
\* record not forwarded yet, and to a retry record, which may also fail in the cycle it
\* is in.
LeftInDlt ==
    {e \in Entries \X Cycles :
        e[1] \notin sent /\ ReadCycleCount(dlt[e[1][1]][e[1][2]].header) < e[2]}

LeftInRetry == {e \in (1..Len(retry)) \X Cycles : retry[e[1]] <= e[2]}

\* Entries made and entries to come are paid for.
LoopPaid ==
    /\ IsFiniteSet(Entries) /\ IsFiniteSet(LeftInDlt) /\ IsFiniteSet(LeftInRetry)
    /\ Cardinality(Entries) + Cardinality(LeftInDlt) + Cardinality(LeftInRetry)
          <= Allowance

LoopInv == WithinCycles /\ LoopPaid

\* A worker that goes on with a batch of which it has lost a partition has lost all of
\* them.
Stale(w) == \E p \in Partitions : nxt[w][p] < fin[w][p] /\ owner[p] # w

LostTogether == \A w \in Workers : Stale(w) => \A p \in Partitions : owner[p] # w

\* The owner of its partition is about to acknowledge the record at x.
Acknowledging(x) ==
    \E w \in Workers : wpc[w] = "ack" /\ owner[cur[w]] = w /\ Place(w) = x

\* What may be forwarded once more, though nothing else goes wrong: a record that the
\* group is not past, ...
Again == {x \in sent : committed[x[1]] < x[2] /\ ~Acknowledging(x)}

\* ... the one of a partition that its owner is behind the group, ...
Behind ==
    {p \in Partitions : \E w \in Workers :
        /\ owner[p] = w /\ nxt[w][p] < committed[p]
        /\ ~(wpc[w] = "ack" /\ cur[w] = p)}

\* ... and the next one of a worker that has lost its batch.
Straying == {w \in Workers : Stale(w) /\ wpc[w] \notin {"ack", "skip", "failed"}}

Down == {pod \in Pods : phase[pod] # "up"}

\* A fault pays for what it puts at risk; a shutdown pays for the restart that follows.
DuplicatesPaid ==
    /\ IsFiniteSet(Again) /\ IsFiniteSet(Behind) /\ IsFiniteSet(Straying)
    /\ IsFiniteSet(Down)
    /\ dups + Cardinality(Again) + Cardinality(Behind) + Cardinality(Straying)
            + Cardinality(Down) * Together
          <= faults * Together

DupInv == OwnersCaughtUp /\ LostTogether /\ DuplicatesPaid

------------------------------------------------------------------------------
(* Liveness, under FairSpec.                                                  *)

\* With the cron, every record of the DLT is passed in the end: a request that
\* start() dropped because the container was about to stop, a consumer thread of
\* an earlier start that stops the new one, a record put off or given up at the
\* end of the log, an eviction or a crash all only delay it.
EveryRecordPassed ==
    \A p \in Partitions : \A o \in 1..MaxLog :
        Len(dlt[p]) >= o ~> committed[p] >= o

\* A run ends by itself: a started container stops, at the cutoff or when idle.
EveryRunEnds ==
    \A pod \in Pods : running[pod] ~> ~running[pod]

\* A shutdown completes, although destroy() and a consumer thread at its cutoff
\* may each wait for the other in stop().
ShutdownCompletes ==
    \A pod \in Pods : phase[pod] = "stop" ~> phase[pod] \in {"down", "up"}

------------------------------------------------------------------------------
(* What the documentation says, and the code does not do.                     *)

\* "Messages that arrive after the router starts are left for the next run": a
\* record that a cutoff put off, and that no send failed for, is still to come.
NothingSkipped ==
    \A p \in Partitions : \A o \in 1..committed[p] :
        <<p, o>> \in deferred => <<p, o>> \in sent \cup gaveUp \/ Exhausted(dlt[p][o])

\* "If a send fails, the offset is not committed and the message will be
\* re-delivered on the next poll": the group is not past a record whose sends failed.
FailedSendsRedelivered ==
    \A p \in Partitions : \A o \in 1..committed[p] :
        <<p, o>> \in gaveUp => <<p, o>> \in sent

==============================================================================
