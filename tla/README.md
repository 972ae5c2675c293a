# Kafka Ops starter: specifications, model checks and proofs

TLA+ specifications of `spring-boot-starter-kafka-ops`, with the TLC runs that
check them on small instances and TLAPS proofs of what matters most for every
instance. `PROJECT.json` lists the runs, the source lines behind each
definition, the hazards, the findings and the theorems.

Paths below are relative to the repository; Java sources are in
`src/main/java/io/github/ays/kafka/ops/`, the console's in
`src/main/resources/static/kafka-ops/js/app/`.

## The system

| part | state it keeps | operations | talks to |
|---|---|---|---|
| DLT router (`KafkaOpsDltRouter`) | per route: a listener container, the cutoff timestamp | `start`, `scheduledRestart` (cron), `onIdleEvent`, `routeRecord` (listener), `destroy` | REST API and scheduler call it; Kafka consumer group; retry topic |
| Consumer registry (`KafkaOpsConsumerRegistry`) | one `KafkaConsumer` and two codecs per topic | `find`, `getConsumerDetails`, registration, `destroy` | service, Kafka |
| Manual consumer (`ManualKafkaConsumer`) | none; locks and repositions the registry's consumer | `poll`, `pollBatch`, `pollBatchByTimestamp` | Kafka |
| Operations service (`KafkaOpsService`) | none | `poll`, `batchPoll`, `retry`, `process` | registry, manual consumer, the application's `consume` |
| REST API (`KafkaOpsController`, advice) | none | six endpoints, argument checks | service, DLT router |
| Console: browse view (`views/BrowseView.js`) | form, records, expanded row, editor, busy flags | fetch, load more, retry, correct, topic switch | API client, app state |
| Console: state, API client, sidebar (`state.js`, `api.js`, `components/Sidebar.js`) | selected topic, path of the API, consumer list, open groups, drain dialog, poll history (localStorage) | load, refresh, select, drain, history | REST API, browse view |
| Console: diff modal, JSON viewer (`components/DiffModal.js`, `JsonViewer.js`) | collapsed paths, shared by all viewers | compare, fold | browse view |
| Configuration, codecs, topic and container config, DTOs | properties | wiring, conversion | – |

How they interact: the console calls the REST API; every request runs on its
own servlet thread. Requests for one topic share that topic's `KafkaConsumer`,
under its monitor. `start` and the cron run on different threads and share a
route's cutoff (a `volatile long`) and container with the container's consumer
thread, which itself stops the container (at the cutoff, when idle). All pods
share the consumer group `<groupId>-dlt-router` and the DLT; what they forward
comes back to the DLT through the application when it fails again.

Hard behaviours: the check-then-act on `isRunning()` in `start` and the cron;
a batch that is still delivered after its container was stopped, against a
cutoff that has moved meanwhile; `stop()` called on the thread it waits for;
rebalances, evictions, crashes and failed calls between a send and its commit;
the retry/DLT loop; requests in flight when the registry closes its consumers;
responses that reach the console after the user has moved on.

What makes each part correct:

* **Router** – no record is passed undecided; nothing newer than a trigger is
  forwarded or passed; duplicates come from faults only; the loop is bounded; with the cron
  every record is passed, each run and each shutdown ends.
* **Registry, manual consumer, service** – a request gets records of the
  partition and offset it asked for, whatever other requests do; batches are
  contiguous and paging misses and repeats nothing; shutdown closes every
  consumer.
* **Console** – what is shown, retried and corrected belongs to the selected
  topic; the newest answer wins; the history has no duplicates and at most ten
  entries; a changed payload is never shown as unchanged.

## Modules

| module | part | builds on |
|---|---|---|
| `DltTopics`, `DltRouter`, `MCDltRouter` | the Kafka topics and the application; one route in every pod | – |
| `DltDrain` | what a route promises, implemented by `DltRouter` | – |
| `ManualConsumer`, `MCManualConsumer` | requests on the consumer of one topic, its closing | – |
| `LogReads` | what the requests for a topic promise, implemented by `ManualConsumer` | – |
| `BrowseView`, `MCBrowseView` | the browse view against late answers | – |
| `Console`, `MCConsole` | sidebar, routes, drain dialog and browse view together | `BrowseView` |
| `JsonDiff` | the operators of the diff modal, and what they are compared with | – |
| `ExpandedRow`, `MCExpandedRow` | an expanded row: viewers, editor, diff modal | `JsonDiff` |
| `DltRouter_proofs`, `DltDrain_proofs` | theorems of the router, its refinement of `DltDrain` | `DltRouter` |
| `DltBudgets_proofs` | the two theorems of the router that count records | `DltDrain_proofs` |
| `ManualConsumer_proofs`, `ManualReads_proofs` | theorems of the shared consumer, its refinement of `LogReads` | `ManualConsumer` |
| `BrowseView_proofs`, `Console_proofs` | theorems of the view, of a patient user and of any; those of the whole console | `BrowseView`, `Console` |
| `ExpandedRow_proofs` | theorems of the expanded row | `ExpandedRow` |

What could come next: several routes in one router (registration, the cron and
`destroy` going through them, one blocking or failing); several entries of one
registry (registration, shared topics, a `close()` that throws); `process` and its call
of the application's `consume`.

The proofs cover every invariant and action property that the passing runs check, but
two invariants of `ExpandedRow`. Liveness stays with TLC throughout: it rests on fairness
and ENABLED, which the provers do not reason about.

## DltTopics, DltRouter: the core

`DltTopics` is the world: the clock, the DLT's partitions, the retry topic, and
the application that fills one and reads the other. A DLT record is its timestamp
and its `kafka-ops-dlt-cycle` header: absent, garbage, or a number, which may be negative,
since `readCycleCount` takes what `Integer.parseInt` takes (`MinCount` is the least,
-2^31 in the code). A retry record is its header; `belowZero` remembers how far
below zero the headers of first failures were, for the bound on the retry loop. `DltRouter` extends it with one route in every pod.

| in the model | in the code |
|---|---|
| `cutoff[pod]` | `RouteState.cutoffTimestamp` |
| `running`, `lock` | `container.isRunning()`; the container's lifecycle lock while a `stop()` waits under it |
| `api`, `cron`, `phase` | where the API thread, the scheduler thread and the shutdown thread of a pod are |
| `wpc`, `stopReq`, `cur`, `nxt`, `fin`, `tries` of a worker | a consumer thread: where it is in `routeRecord`, whether its container was stopped, the batch it delivers, the failures counted by the error handler |
| `committed`, `owner` | the consumer group at the broker |
| `sent`, `gaveUp`, `deferred`, `dups`, `lastTrigger` | history, for the properties only |

| action | code |
|---|---|
| `StartSetCutoff`, `StartCheck`, `StartContainer` | `start`: cutoff, read of `isRunning()`, `container.start()`, as separate steps |
| `CronCheck`, `CronSetCutoff`, `CronStart` | `scheduledRestart`: check, cutoff, start |
| `Poll`, `Deliver` | a poll, and the call of `routeRecord` for the next record of the batch, with the cutoff read at that moment |
| `StopAtCutoff`, `StopReturns` | `container.stop(); return` at a record beyond the cutoff; no acknowledgment |
| `SendOk`, `SendFails`, `AckOk`, `AckFails` | the send and the acknowledgment, each of which may fail with or without effect at the broker |
| `HandleError` | `DefaultErrorHandler(FixedBackOff)`: seek back, or log and skip |
| `Idle`, `IdleStop` | `onIdleEvent`: test of `isRunning()`, then `stop()` |
| `DestroyBegin`, `DestroyStop`, `DestroyReturns`, `Restart`, `Crash` | shutdown of the context, `destroy`, and a new process |
| `Assign`, `Revoke`, `Evict` | the consumer group's rebalances |

A worker of an earlier start goes on delivering its batch after its container
was stopped, so a pod has several worker slots.

### What is assumed of the libraries

Read from how the code uses them (Spring Boot 3.2, spring-kafka 3.1): `start()`
and `stop()` hold the lifecycle lock, `start()` looks at `isRunning()` again
under it, and `stop()` waits for the consumer threads with it held, but only for
the shutdown timeout – a consumer thread that stops its own container always
waits that long; `stopImmediate` is off, so the batch in hand is delivered to its
end; idle events are published on the consumer thread; the error handler seeks
and retries, then logs and moves on without a commit; `MANUAL_IMMEDIATE` commits
synchronously and the broker accepts a commit of the partition's owner only. A header
that does not parse is `BadHeader`.

### Properties

| property | what it says |
|---|---|
| `AccountedFor` | the group is never past a record that was not forwarded, exhausted, given up or put off |
| `PassedWithinTrigger` | nothing newer than the latest trigger is forwarded; with timestamps in clock order, the group is not past such a record either |
| `DuplicatesPaidByFaults` | every second forward of a record is paid for by a fault, one fault paying for one record of each consumer thread of a pod at most |
| `RoutingLoopBounded` | a poison message enters the DLT at most `MaxCycles + 1` times, `-h` times more if its header was an `h` below zero, and `MaxCycles - MinCount` times for each duplicate |
| `Drains` | the router implements `DltDrain`: the position only moves forward, over settled records |
| `EveryRecordPassed`, `EveryRunEnds`, `ShutdownCompletes` | progress, with the cron |

### Runs

| run | instance | shows |
|---|---|---|
| `dlt_one_pod` | 1 pod, 2 workers, 2 messages with garbage headers or one with -1, log of 3, 2 faults | safety with overlapping workers; a send that uses up its attempts; the retry loop, also of a header below zero |
| `dlt_two_pods` | 2 pods, 1 worker each, 1 message, log of 2, 1 fault | hand-over between pods with different cutoffs; stale commits |
| `dlt_liveness` | 1 worker, 2 messages, 1 fault, cron, fairness | progress despite any one fault |
| `dlt_overlap` | 2 workers, 2 messages, cron, fairness | start against cron, and progress when an old worker, at the second record of its batch, stops the new start |

The bounds: two clock values separate "before" and "after" a trigger; two or
three records are what a batch needs to hold one put off and one behind it; one
pod with two slots has the overlap of two starts, two pods the hand-over; one
back-off attempt separates "retry" from "give up"; one fault reaches each kind
of failure, two reach a failure of a retry. A header of -1 gives the loop one round more; the
constraint `DeficitAlone` leaves out a second message next to it, and larger deficits are left
to the proof. Deadlock is checked in all of them. Several
partitions are left to the proofs: `AccountedFor` and `Drains` hold for any number.

Two runs show where the repository's documents say something else (see
"findings"): `dlt_skipped` (a put-off record can be passed over for good) and
`dlt_failed_send` (a failed send is skipped in the end). Other limits the model makes
visible, which no run is spent on: a start that has read `isRunning()` restarts the
container after `destroy` is done (the flag against it in
docs/adr/002-feature-roadmap.md is not in the code); a start request that reads `isRunning()` while the
idle container is about to stop is lost until the cron or the next request (so
`EveryRecordPassed` needs the cron); two consumer threads of one pod, of an earlier and
a later start, each lose what they have in hand in one crash (hence the factor of
`DuplicatesPaidByFaults`); with timestamps out of order a record newer than
the trigger can be passed by the acknowledgment of an older one behind it, though never
forwarded (so the second half of `PassedWithinTrigger` needs `Skew = 0`); a header below zero
prolongs the retry loop by as much, since nothing checks it. A DLT that never is idle
is not in the model, as the log is bounded.

### Fairness of the router

`FairSpec` has weak fairness of the clock and of every thread that can go on
(API, scheduler, shutdown, workers – including the timeouts of `stop()`), and of
the cron's firing; a pod that went down is started again by its platform. Strong
fairness of `Assign` and `Poll` says that a consumer which keeps polling is given
a free partition and its records although rebalances and other members come in
between. Strong fairness of `StopAtCutoff` says the same of the lifecycle lock: a worker of an
earlier start that waits in `stop()` for it, while later starts are stopped under it
again and again, gets it in the end; between two of them an idle interval passes in which
the lock is free. Nothing is assumed of requests, failures, rebalances, shutdowns and
crashes, of which `MaxFaults` (for the faults) allows only finitely many. There
is no fairness of `SendFails`, and `SendOk` is one of the worker's steps: a broker
that never answers is a fault.

### Proofs of the router

`DltRouter_proofs` proves, for any set of pods, any slots and partitions and any bounds
that meet `WorldAssumption` and `RouterAssumption`:

* `TypeCorrect` – `TypeOK` and `Positions` (committed offsets and batches lie inside
  the log, and a record in hand belongs to its batch). The two are inductive only
  together: typing `InHand(w)` needs its position in the log.
* `AccountedForAlways` – through `DecisionInv`. `AccountedFor` speaks of committed
  offsets, but an acknowledgment covers everything the worker is past, committed
  or not; so it is strengthened by `WorkersAccountedFor` (every record a worker is
  past was decided) and `InHandDecided` (what the place of its thread says of the
  record in hand). Both survive because a decision is never taken back.
* `PassedWithinTriggerAlways` – through `ClockInv`: triggers are not ahead of the
  clock and cutoffs not ahead of the latest trigger, a log without skew is in the
  order of the clock, and a record on its way to its send or commit is within the
  latest trigger; then so is what is forwarded, with any skew, and without skew
  everything before it.

`DltDrain_proofs` proves `ImplementsDrain`: `Spec => Drains`. Every step of the router maps
to a step of `DltDrain` or a stutter; the one that is hard is the commit. That it moves
the position forward needs that the position of a partition's owner is never behind the
committed one (`OwnersCaughtUp`, inductive because only the owner may commit and a new
owner starts at the committed position); that it moves over settled records is
`AccountedForAlways`.

`DltBudgets_proofs` counts records. Both theorems are a budget: an invariant
adds to what has happened what may still happen, and no step adds to the sum what
is not paid for.

* `RoutingLoopBoundedAlways`, through `LoopInv`. A message pays for its own entry in the
  DLT, one for every cycle, and one for every count its header is below zero. What may still come is one entry for every cycle left to
  a DLT record not forwarded (`LeftInDlt`) and to a retry record (`LeftInRetry`), which may
  fail in its own cycle too. A first forward hands the rest of its record's budget on to
  the retry record, a duplicate brings up to `MaxCycles - MinCount` of its own. That a forward never
  exceeds the budget is `WithinCycles`: an exhausted record is not sent.
* `DuplicatesPaidByFaultsAlways`, through `DupInv`. What may be forwarded again although
  nothing else goes wrong is: a forwarded record that the group is not past and whose owner
  is not about to acknowledge it (`Again`); the record before the group's position of an
  owner that is behind it, because its commit was made and `acknowledge()` threw
  (`Behind`); the next record of a worker that has lost its partitions in the middle of a
  batch (`Straying`); and what is in hand in a pod that shuts down (`Down`), for which the
  shutdown has paid. Faults pay for what they add: a failed call for one
  record, an eviction for one worker, a crash for the workers of its pod and at most for
  all partitions. A duplicate uses one up. `LostTogether`
  says that a worker loses all its partitions at once, which is why such a worker is good
  for one more record only: its batch ends with the commit that is refused. `OwnersCaughtUp` is the invariant of
  `DltDrain_proofs`.

The factor of the second needs `ThreadsFinite`: a pod has finitely many consumer
threads and the DLT finitely many partitions. Nothing bounds the number of pods.

Only model-checked are the liveness properties `EveryRecordPassed`, `EveryRunEnds` and
`ShutdownCompletes`.

## ManualConsumer: requests on a shared consumer

One entry of the registry: a topic and its `KafkaConsumer`, with `Threads` for
the servlet threads. Entries share nothing but the loop of `destroy`, so one is
enough. A record is a place in the log with a timestamp; `begin` moves when
retention deletes.

| in the model | in the code |
|---|---|
| `pos` | assignment and positions of the `KafkaConsumer` (`max.poll.records` is 1) |
| `monitor` | `synchronized (kafkaConsumer)` |
| `pc`, `req`, `out` | where a request is, what it asks for, what it has collected |
| `pending` | the partitions of a batch by timestamp that `offsetsForTimes` has no offset of |
| `since` | history, for the properties only: how many records there were at `offsetsForTimes` |
| `AskPoll`, `AskBatch`, `AskInfo` | `poll` and `retry`; `batchPoll` behind the controller's argument check; `getConsumerDetails` |
| `AssignAndSeek`, `SeekRefused`; `SeekToTimes`, `SeekToEnd`, `AllSought` | `assignAndSeek`, which throws in `seek` for an offset below zero; the two look-ups of `pollBatchByTimestamp` |
| `PollOne`, `PollNone`, `Validate` | `pollMultiple`, `tryPolling`, `validate`; `poll()` may always run into its timeout |
| `EndOffsets`, `BeginningOffsets` | `buildTopicInfo` |
| `Produce`, `Expire`, `ResetPosition`, `BrokerFails` | Kafka: producers, retention, `auto.offset.reset`, a call that throws |
| `Destroy`, `ClosedThrows` | the registry's `destroy`, which closes without the monitor |

Properties: `MutualExclusion`; `ExactRecord` (a single poll returns its record or
none); `BatchInOrder`; `BatchContiguous` (a batch starts where it was asked to and
skips only what retention deleted, so that paging with the last offset + 1
loses nothing); `BatchFromTime` (before what a batch by timestamp returns of a partition,
only what is older, deleted or came after `offsetsForTimes` is left out); `RequestsEnd`.

`LogReads` says what the requests promise without a consumer to share: each reads the
log by itself, one record at a time, behind what it has read of the partition, within its
limit, and – unless an offset was not there yet or resets go to the end – with nothing
left out but what is deleted or before the start of a batch by timestamp. It has
no monitor, no positions and no resets. How a request fails and when it gives up is left
open. `ReadsOfLog` says that `ManualConsumer` implements it: a request is `"open"` from its
arrival until it leaves the monitor (`Progress`), `SeekToTimes` is the look-up of a batch
by timestamp, `PollOne` reads a record or, when a single poll rejects it, ends the request,
and everything else inside the monitor is a stutter or the end.

| run | instance | shows |
|---|---|---|
| `manual_requests` | 2 requests on 2 partitions with 2 timestamps and 2 records in all (`FewRecords`), limit 3 capped to 2 | safety with every pair of requests, producers, retention, failures and shutdown in between; the refinement of `LogReads` |
| `manual_any_offset` | 2 requests, 1 partition, offsets behind the end and below zero, limits 0 and 3, fairness | a reset position misleads no single poll, batches are in order; every request ends |

Two threads are all that exclusion needs, one to hold the consumer and one to
disturb it; two records in all, in one partition or in two, make a batch of two, a batch of
one with one before it, older or deleted, and one that arrives late; two timestamps
make a record older than what is asked for. That a limit cuts off a batch with records
left is only met with a limit of zero; larger ones, and more records, are left to the
proofs, which hold for any.
Deadlock is not checked here: after `Destroy` and the last
request nothing is left to do. `FairSpec` has weak fairness of each thread's steps
(calls have timeouts). Entering the monitor is among them: with `MaxRequests`
requests nobody can be overtaken for ever.

### Proofs

`ManualConsumer_proofs` proves, for any threads, partitions, limits and bounds:

* `TypeCorrect`.
* `MutualExclusionAlways` – inductive together with the types.
* `ExactRecordAlways`, `BatchInOrderAlways` – through `AnswerInv`. `BatchInOrder` is not
  inductive: what keeps it is that the consumer is behind every record the batch
  under way has returned (`BehindReturned`). That in turn needs exclusion (no other
  request moves the position), that nothing is collected before the first poll
  (`EmptyBefore`), and that a position inside the log is reset forward only, since
  retention stays inside the log (`BeginInLog`).
* `BatchContiguousAlways` – through `PageInv`: a batch under way has returned all there is
  between any record it returned and its position (`Polled`), a batch by offset all from
  where it was asked to start (`OffsetPolled`), and what was asked for is in the log until
  it is sought (`FromInLog`). `Pages`, the property record by record, follows when a record
  is added, and stays because retention only deletes (`WholeKept`) and a position is reset
  only past what is deleted (`WholeReset`). Its assumptions are those of the property:
  nothing is asked for beyond the end, and resets go to the earliest record.

`ManualReads_proofs` proves, for the same constants:

* `BatchFromTimeAlways` – through `TimeInv`. While a partition is not sought, every
  record of it that was there at the look-up is deleted or older (`TimeSought`); that an
  empty answer of `offsetsForTimes` means this, and not only that no *first* offset exists,
  is the least-element argument of `FirstAtTime` (`WFMin`). Once it is sought, all before the
  position is deleted, returned, or before the start (`Started`), where "before the start"
  also says that the batch has returned nothing in front of it. `Started` stays when
  the log grows (`StartedKept`, which needs what is returned to be inside the log) and when
  the next record is returned (`StartedGrown`). A position is only reset to the first record
  that is left, hence the condition on the reset.
* `ImplementsReads`: `Spec => ReadsOfLog`. The hard step is `PollReads`: the record at the
  position is one that `LogReads` may return. It is of the partition asked for because a
  poll and a batch by offset have no other assigned (`OneAssigned`), there is room for it
  (`WithinLimit`), it is behind what was returned (`BehindReturned`), and nothing in front
  of it was left out that may not be (`NextComplete`, from `PageInv` and `TimeInv`). The
  first three need no assumption about resets and offsets; the last has those
  of `BatchContiguous`, as `Gapless` of `LogReads`.

`RequestsEnd` is only model-checked.

What these properties leave open, because the code does: a batch from an offset
that is not there is answered from wherever the position is reset to; a poll that
runs into its 200 ms ends the batch with `hasMore` false (`hasMore` itself is not modelled); a record that arrives
between `offsetsForTimes` and `endOffsets` may be left out of a batch by timestamp.
`BatchFromTime` says that, in front of what is returned of a partition, it is the only
kind of record at the timestamp that is.

## BrowseView: the console against late answers

One user, one view, and requests that are answered in any order, after whatever
the user did meanwhile. A record is its topic, partition and offset; the topic
is not in the answers of the REST API, it is kept to tell where a row came from.

| in the model | in the code (`views/BrowseView.js`) |
|---|---|
| `topic`, `form`, `records`, `hasMore`, `loading`, `retrying`, `sending`, `showEditor`, `showDiffModal`, `expanded` | the fields of `state` |
| `ExpandedRows`, `ExpandedRecord` | the rows drawn expanded, which are all with the expanded key; the first of them, which is the one the diff modal is given |
| `correction` | the record whose text `correctionKey` and `correctionValue` were filled from |
| `history` | `PollHistory` in localStorage |
| `flying`, `browsed` | requests not answered yet; the places asked for (for the properties) |
| `SwitchTopic`, `EditForm`, `Browse`, `LoadMore`, `ToggleRow`, `Filter`, `RetryRecord`, `OpenEditor`, `CloseEditor`, `Review`, `CancelDiff`, `Confirm` | one handler each; `Browse` is not disabled by the busy flags, because the Enter key in the form is not |
| `BatchAnswered`, `BatchFails`, `RetryAnswered`, `CorrectionAnswered` | the `then`, `catch` and `finally` of a request, which read the state as it is then; an entry of the history is lost when the storage is full |

`Patient` is the user who touches form and sidebar only when nothing is under way.
For this user the view is right (`browse_patient`): `RowsUnique`, `SentToItsTopic`,
`DiffOfEditor`, `AnswerClosesItsEditor`, `FlagsTellRequests`, `HistoryBrowsed`. For any user
the history has no entry twice and no busy flag stays set (`console_any`, below).
`Patient` also rules out what several of these properties would fail at: an answer that comes under
another topic or form. `browse_retry` shows what a hurried user can meet: the rows of a topic that was left
appear under the next one, and a retry sends their partition and offset with the wrong
topic. The other properties of the patient user fail for this one in the same way:
answers are not tied to the topic and form they were asked with.

Bounds: two topics (one left, one entered), batches of at most two of the two
offsets of two partitions, three requests (a batch, the next, and one about a
row), a history of two places, which three batches overflow. A user may always
switch topics, so there is no deadlock to allow.

### Proofs

`BrowseView_proofs` proves, for any user, any topics, partitions, batches and numbers of
requests, `TypesOfView` and `HistoryStaysUnique`, through `StoredInv`. Both rest on what
`PollHistory.add` makes of a list. Its filter is `Without`, a recursive function over the length
of the list; what it does (`Without` holds no entry twice, none that was not there, not
the one it leaves out, and is no longer) is shown by a counterexample of least length, whose
existence `WFMin` gives. The induction theorems of the library, which take an operator, are
not needed. The type of `flying` needs `CorrectionThere`: an editor that is shown over a
row has a record to send.

For a patient user it proves `FlagsAreTrue`, `RowsStayUnique`, `SentRight`, `DiffIsOfEditor` and
`EditorOfItsAnswer`. They come from one invariant, `PatientInv`, since each needs the
others: a retry goes to the right topic because every row shown is of the topic shown;
rows are, because every batch under way is of that topic; batches are, because the
topic changes only when no flag is set, and the flags tell the requests. Rows stay
unique because a batch under way joins on where the rows end, per partition. The
editor and the diff belong together because the text outlives the editor only while
no editor is shown.

`HistoryIsBrowsed`, for a patient user too, is through `BrowsedInv`, which adds to both invariants
that, while a batch by offset is under way, the place in the form is one that was
browsed in the topic shown (`AskedAsFormed`): the answer is remembered under the topic
and the form it finds.

## Console: sidebar and browse view together

`Console` extends `BrowseView` with the two routes, the sidebar and the requests of
its own. Sidebar and view share the selected topic, the path of the REST API and the
list of consumers.

| in the model | in the code |
|---|---|
| `screen` | the route of `m.route`, '/' (`EmptyView`) or '/browse' (`BrowseView`) |
| `selectedTopic`, `consumers`, `consumersLoading` | `AppState`; of the list only whether there is one, since it is always that of the registry |
| `basePath`, `disabled` | `Api.basePath` is set; `Api.disabled` |
| `expandedGroups`, `confirmDrain` | the fields of `Sidebar` |
| `asked`, `pathless`, `told` | requests of the sidebar not answered yet; requests of the view that went to `null/...`; drains told of by a toast |
| `Load`, `ConfigAnswered`, `ConfigFails`, `ListAnswered`, `ListFails` | `Sidebar.oninit` with `Api.init`: the config first, unless the path is known, then the list |
| `Refresh` | `refreshConsumers` |
| `SelectTopic` (`SelectMain`, `SelectDlt`), `GroupOpen`, `DltShown` | `selectTopic` and the tree of the sidebar |
| `ShowTopic`, `GoToTopic`, `GoHome` | `oninit` and `view` of the browse view; the browser's history or a link |
| `OpenDrain`, `CancelDrain`, `ConfirmDrain`, `DrainAnswered`, `DrainFails` | the drain button, `ConfirmModal`, `startDltRouting` |
| `UseView`, `BatchRefreshes`, `OtherAnswer` | the handlers and answers of `BrowseView`; a batch with rows refreshes the list |

| property | what it says |
|---|---|
| `SelectedIsBrowsed` | the topic marked in the sidebar is the one the view shows and acts on, whichever way it was come to |
| `AskedOfKnownPath` | the sidebar asks for nothing but the config before it knows the path |
| `MissedConfigShows` | a missed config is never shown as an empty list |
| `LoadingEnds`, `BusyEnds` | the spinner and every busy flag end |
| `EveryDrainTold` | a confirmed drain is told of in the end, in whatever view the user is by then |
| `HistoryUnique` | of `BrowseView`, here for any user |

`console_any` has one consumer with a DLT and a user who is not patient. Its bounds:
three requests of the sidebar (a config or list of each of two views and a drain), two
of the view, four together; past them a refresh counts as one that failed at once,
which the code ignores. The run stops where the user has no request left, so deadlock
is not checked. Weak fairness of `ConsoleAnswered`: the browser reports an answer or an
error for every request. What the model shows besides: `disabled` is never reset, so
one failed config request disables the sidebar for good although a later one
succeeds; and a view opened by its address can browse before the path is known.

### Proofs

`Console_proofs` proves, for any user and any number of requests, `TypesOfConsole`,
`SelectedStaysBrowsed`, `NothingAskedOfNoPath`, `MissedConfigAlwaysShows` and
`HistoryUniqueInConsole`. They come from `ConsoleInv`: the `StoredInv` of the view, which its
handlers keep here as they do alone, the types of the sidebar, and `PathFirst` – a list, a
drain to confirm or a request for anything but the config exist only once the path is
known, since each of them comes from an answer that does; and the path is never
unknown again. Nothing in it depends on the order of answers.

`LoadingEnds`, `BusyEnds` and `EveryDrainTold` are only model-checked.

## JsonDiff, ExpandedRow: what a correction shows

`JsonDiff` has the operators of the diff modal on JSON values: `Flatten`, `FormatValue`,
`Diff` (`computeDiff`), `Rows` (the tables). A value is a record of its kind, text, number and
items; a text that is not JSON is a value of its own. `Parse` is what `JSON.parse` and
`JSON.stringify` do to it: integers beyond `Precision` (2^53, scaled down to 4) are rounded. Numbers too large for a double, which are
parsed to `Infinity` and written as `null`, are left out.
`Same` is the reference: two values that are the same JSON. `Tidy` are the values that
`flatten` can write without loss. All of them are recursive functions over `Texts`, the texts
in play, which hold what their members hold (`TextAssumption`) and what these are parsed
to (`ParsedAssumption`); `Depth` says how deep each is nested.

`ExpandedRow` is the row around it.

| in the model | in the code |
|---|---|
| `folds`, `lastInstance`; `Redraw`, `ToggleFold` | `collapsed`, `lastInstanceKey` of `JsonViewer`, one for all viewers of the page; its `view` and `toggle` |
| `keyText`, `valueText`, `typed` | `correctionKey`, `correctionValue`; whether something was typed since the editor was opened |
| `OpenEditor`, `TypeKey`, `TypeValue`, `Review`, `Confirm`, `Answered` | `openEditorForRecord` (which reformats), the two text areas, `reviewCorrection`, `confirmSendCorrection` |
| `Comparable`, `ValueRows`, `KeyRows`, `NoChangesDetected` | the verdict of `DiffModal.view` |

| property | what it says |
|---|---|
| `NothingHidden` | the modal says "No changes detected." exactly when the correction is the record, for tidy values and compared keys |
| `NoFalseAlarm` | an editor that was opened and not typed in shows no change, for any value |
| `FoldsOfThisRow` | folds are never inherited by a row at another place |
| `FoldsKept` | while a row is open without its key, a fold changes by a click on it only |

`expanded_row` checks them for every pair of 22 values that differ in a leaf, its type, a
name, the order, the depth or the length, and five keys; two topics have records at
the same places: a row inherits the folds of one at its own place in another topic, which
`FoldsOfThisRow` lets pass. The preconditions name
what the code hides: `{}` against the string `"{}"`, a field `a.b` against a `b` in `a`, a
number beyond the precision, a key that was emptied or is not JSON; with the key
section open every redraw forgets all folds, since the two viewers reset each
other's. A user can always close the row, so deadlock is checked.

### Proofs

`ExpandedRow_proofs` proves for any such set of texts, of any depth up to a bound, any
records and places:

* `NeverFalseAlarm` – the modal parses the record once and the reformatted text, in effect,
  twice. It shows no change because a second parse changes nothing (`ParseTwice`): a rounded
  number is a double. Of a text that is parsed to something else the second time there
  would be one of least depth, but what it holds is less deep. With it goes `EditorOfRow`:
  an editor not typed in has the text of the row that is open, so that the modal does not
  compare with another.
* `FoldsStayOnRow`, `FoldsAreKept` – through `FoldsOfLast`: after a redraw the last viewer is that of
  a value, and folds that are left were made on a row at its place. That no redraw
  loses a fold (`FoldsAreKept`) needs that it was the value of this very row.

Only model-checked: `NothingHidden`, because it depends on when two paths put together from names are the
same string; and the `TypeOK` of `ExpandedRow`, for which a path put together from strings must be
one. The provers know nothing of the concatenation of strings.

## Not modelled

Several routes in one router and several entries in one registry: what they add is a
loop over independent parts, in which one that throws or waits holds up the next;
the hazards list says where. `process` and the application's `consume`. Wiring,
properties, codecs, DTOs and exception mapping, which keep no state. Rendering, focus,
style and the timers of a toast in the console.
