--------------------------- MODULE ManualConsumer ---------------------------
(***************************************************************************)
(* One entry of the consumer registry: a topic and the KafkaConsumer that  *)
(* all requests for this topic share, each on a servlet thread of its own. *)
(*                                                                         *)
(* A request takes the consumer's monitor, assigns and seeks, polls, and   *)
(* gives the monitor back; the registry's destroy() closes the consumer    *)
(* without the monitor.  Entries of other topics have their own consumer   *)
(* and monitor, so one entry is enough.                                    *)
(*                                                                         *)
(* Offsets are those of Kafka: the record with offset o is log[p][o + 1].  *)
(***************************************************************************)
EXTENDS Integers, Sequences

CONSTANTS
    Threads,       \* the servlet threads
    Partitions,    \* the partitions of the topic
    None,          \* no thread, no partition, no position
    Reset,         \* auto.offset.reset of the application: "earliest" or "latest"
    Limits,        \* limits a batch request may have
    BatchMaxLimit, \* kafka.ops.batch.max-limit
    BeyondEnd,     \* TRUE: requests may ask for offsets that are not there yet, or below 0
    MaxTime,       \* bound: timestamps
    MaxLog,        \* bound: records a partition ever has
    MaxRequests    \* bound: requests of one behaviour

ASSUME ManualAssumption ==
    /\ None \notin Threads /\ None \notin Partitions /\ None \notin Nat
    /\ Reset \in {"earliest", "latest"}
    /\ Limits \subseteq Int /\ BatchMaxLimit \in Int
    /\ BeyondEnd \in BOOLEAN
    /\ MaxTime \in Nat /\ MaxLog \in Nat /\ MaxRequests \in Nat

VARIABLES
    log,       \* log[p]: the timestamps of all records p has ever had
    begin,     \* begin[p]: retention has deleted the records before this offset
    pos,       \* pos[p]: position of the consumer in p, None if not assigned
    closed,    \* the consumer has been closed
    phase,     \* of the application: "up" or "down"
    monitor,   \* the thread in synchronized (kafkaConsumer), or None
    pc,        \* pc[th]: where the request is
    req,       \* req[th]: what it asks for
    pending,   \* pending[th]: partitions that have no record at the timestamp
    since,     \* history: since[th][p], the records of p at the look-up of the timestamp
    out,       \* out[th]: the places <<p, o>> of the records it returns
    asked      \* requests made

topicVars == <<log, begin>>
seekVars  == <<pending, since>>
vars == <<log, begin, pos, closed, phase, monitor, pc, req, seekVars, out, asked>>

\* part and from are the partition and offset asked for; in a batch by timestamp
\* from is the timestamp.
Request ==
    [kind : {"poll", "offset", "time", "info"}, part : Partitions \cup {None},
     from : Int, limit : Int]

\* The places inside synchronized (kafkaConsumer).
Held == {"assign", "times", "ends", "poll", "counts", "begins"}

TypeOK ==
    /\ log \in [Partitions -> Seq(Nat)]
    /\ begin \in [Partitions -> Nat]
    /\ pos \in [Partitions -> Nat \cup {None}]
    /\ closed \in BOOLEAN
    /\ phase \in {"up", "down"}
    /\ monitor \in Threads \cup {None}
    /\ pc \in [Threads -> Held \cup {"idle", "enter", "done", "failed"}]
    /\ req \in [Threads -> Request]
    /\ pending \in [Threads -> SUBSET Partitions]
    /\ since \in [Threads -> [Partitions -> Nat]]
    /\ out \in [Threads -> Seq(Partitions \X Nat)]
    /\ asked \in Nat

Unassigned == [p \in Partitions |-> None]
NoRecords  == [p \in Partitions |-> 0]
NoRequest  == [kind |-> "info", part |-> None, from |-> 0, limit |-> 0]

Init ==
    /\ log = [p \in Partitions |-> << >>]
    /\ begin = NoRecords
    /\ pos = Unassigned
    /\ closed = FALSE /\ phase = "up"
    /\ monitor = None
    /\ pc = [th \in Threads |-> "idle"]
    /\ req = [th \in Threads |-> NoRequest]
    /\ pending = [th \in Threads |-> {}]
    /\ since = [th \in Threads |-> NoRecords]
    /\ out = [th \in Threads |-> << >>]
    /\ asked = 0

------------------------------------------------------------------------------
(* The topic. *)

Produce(p) ==
    /\ Len(log[p]) < MaxLog
    /\ \E t \in 1..MaxTime : log' = [log EXCEPT ![p] = Append(@, t)]
    /\ UNCHANGED <<begin, pos, closed, phase, monitor, pc, req, seekVars, out, asked>>

\* Retention deletes the oldest record.
Expire(p) ==
    /\ begin[p] < Len(log[p])
    /\ begin' = [begin EXCEPT ![p] = @ + 1]
    /\ UNCHANGED <<log, pos, closed, phase, monitor, pc, req, seekVars, out, asked>>

------------------------------------------------------------------------------
(* A request. *)

Ask(th, r) ==
    /\ phase = "up" /\ pc[th] = "idle" /\ asked < MaxRequests
    /\ asked' = asked + 1
    /\ req' = [req EXCEPT ![th] = r]
    /\ pc' = [pc EXCEPT ![th] = "enter"]
    /\ UNCHANGED <<topicVars, pos, closed, phase, monitor, seekVars, out>>

\* Nothing checks an offset that is asked for: it may be any number.
OffsetsToAsk(p) == IF BeyondEnd THEN -1..(MaxLog + 1) ELSE 0..Len(log[p])

\* poll and retry.
AskPoll(th) ==
    \E p \in Partitions : \E o \in OffsetsToAsk(p) :
        Ask(th, [kind |-> "poll", part |-> p, from |-> o, limit |-> 1])

\* batchPoll, whose controller lets either kind of start through, not both.
CappedLimit(n) == IF n < BatchMaxLimit THEN n ELSE BatchMaxLimit

AskBatch(th) ==
    \E n \in Limits :
        \/ \E p \in Partitions : \E o \in OffsetsToAsk(p) :
              Ask(th, [kind |-> "offset", part |-> p, from |-> o, limit |-> CappedLimit(n)])
        \/ \E t \in 1..MaxTime :
              Ask(th, [kind |-> "time", part |-> None, from |-> t, limit |-> CappedLimit(n)])

\* getConsumerDetails, its part for this topic.
AskInfo(th) == Ask(th, NoRequest)

FirstStep(kind) ==
    CASE kind = "time" -> "times"
      [] kind = "info" -> "counts"
      [] OTHER         -> "assign"

\* Slip: the monitor is not taken.
EnterUnlocked(th) ==
    /\ pc[th] = "enter"
    /\ monitor' = IF monitor = None THEN th ELSE monitor
    /\ pc' = [pc EXCEPT ![th] = FirstStep(req[th].kind)]
    /\ UNCHANGED <<topicVars, pos, closed, phase, req, seekVars, out, asked>>

\* synchronized (kafkaConsumer).
Enter(th) ==
    /\ pc[th] = "enter" /\ monitor = None
    /\ monitor' = th
    /\ pc' = [pc EXCEPT ![th] = FirstStep(req[th].kind)]
    /\ UNCHANGED <<topicVars, pos, closed, phase, req, seekVars, out, asked>>

\* The end of the block.
Leave(th, state) == monitor' = None /\ pc' = [pc EXCEPT ![th] = state]

\* A batch is polled for as long as there is room in it.
PollOrLeave(th, n) ==
    IF n < req[th].limit
    THEN pc' = [pc EXCEPT ![th] = "poll"] /\ UNCHANGED monitor
    ELSE Leave(th, "done")

\* Slip: the partition is assigned and the seek forgotten.
AssignWithoutSeek(th) ==
    /\ pc[th] = "assign" /\ ~closed
    /\ pos' = [Unassigned EXCEPT ![req[th].part] =
                  IF pos[req[th].part] = None THEN 0 ELSE pos[req[th].part]]
    /\ PollOrLeave(th, 0)
    /\ UNCHANGED <<topicVars, closed, phase, req, seekVars, out, asked>>

\* assignAndSeek.
AssignAndSeek(th) ==
    /\ pc[th] = "assign" /\ ~closed /\ req[th].from >= 0
    /\ pos' = [Unassigned EXCEPT ![req[th].part] = req[th].from]
    /\ PollOrLeave(th, 0)
    /\ UNCHANGED <<topicVars, closed, phase, req, seekVars, out, asked>>

\* assignAndSeek to a negative offset, which seek refuses: the partition stays assigned.
SeekRefused(th) ==
    /\ pc[th] = "assign" /\ ~closed /\ req[th].from < 0
    /\ pos' = [Unassigned EXCEPT ![req[th].part] = pos[req[th].part]]
    /\ Leave(th, "failed")
    /\ UNCHANGED <<topicVars, closed, phase, req, seekVars, out, asked>>

\* Slip: the first offset with a record after t.
OffsetsPastTime(p, t) ==
    {o \in begin[p]..(Len(log[p]) - 1) :
        log[p][o + 1] > t /\ \A i \in begin[p]..(o - 1) : log[p][i + 1] <= t}

\* The first offset of p with a record at or after t, as offsetsForTimes says.
OffsetsForTime(p, t) ==
    {o \in begin[p]..(Len(log[p]) - 1) :
        log[p][o + 1] >= t /\ \A i \in begin[p]..(o - 1) : log[p][i + 1] < t}

\* partitionsFor, assign, offsetsForTimes, and seek where there is an offset.
SeekToTimes(th) ==
    /\ pc[th] = "times" /\ ~closed
    /\ LET found(p) == OffsetsForTime(p, req[th].from) IN
          /\ pos' = [p \in Partitions |->
                       IF found(p) = {} THEN None ELSE CHOOSE o \in found(p) : TRUE]
          /\ pending' = [pending EXCEPT ![th] = {p \in Partitions : found(p) = {}}]
    /\ since' = [since EXCEPT ![th] = [p \in Partitions |-> Len(log[p])]]
    /\ pc' = [pc EXCEPT ![th] = "ends"]
    /\ UNCHANGED <<topicVars, closed, phase, monitor, req, out, asked>>

\* Slip: the last record for the end.
SeekToLast(th, p) ==
    /\ pc[th] = "ends" /\ ~closed
    /\ p \in pending[th]
    /\ pos' = [pos EXCEPT ![p] = Len(log[p]) - 1]
    /\ pending' = [pending EXCEPT ![th] = @ \ {p}]
    /\ UNCHANGED <<topicVars, closed, phase, monitor, pc, req, since, out, asked>>

\* endOffsets and seek for a partition without one.
SeekToEnd(th, p) ==
    /\ pc[th] = "ends" /\ ~closed
    /\ p \in pending[th]
    /\ pos' = [pos EXCEPT ![p] = Len(log[p])]
    /\ pending' = [pending EXCEPT ![th] = @ \ {p}]
    /\ UNCHANGED <<topicVars, closed, phase, monitor, pc, req, since, out, asked>>

AllSought(th) ==
    /\ pc[th] = "ends" /\ pending[th] = {}
    /\ PollOrLeave(th, 0)
    /\ UNCHANGED <<topicVars, pos, closed, phase, req, seekVars, out, asked>>

InRange(p) == pos[p] \in begin[p]..Len(log[p])

\* Inside poll(): a position that is out of range is reset.
ResetPosition(th, p) ==
    /\ pc[th] = "poll" /\ ~closed
    /\ pos[p] # None /\ ~InRange(p)
    /\ pos' = [pos EXCEPT ![p] = IF Reset = "earliest" THEN begin[p] ELSE Len(log[p])]
    /\ UNCHANGED <<topicVars, closed, phase, monitor, pc, req, seekVars, out, asked>>

\* Slip: only the partition of the polled record is compared.
ValidatePartition(th, p, o) == p = req[th].part

\* validate: a single poll returns the record that was asked for, or none.
Validate(th, p, o) == p = req[th].part /\ o = req[th].from

\* poll() returns one record (max.poll.records is 1) of an assigned partition: a
\* single poll is done, a batch goes on until it is full.
PollOne(th, p) ==
    /\ pc[th] = "poll" /\ ~closed
    /\ pos[p] # None /\ InRange(p) /\ pos[p] < Len(log[p])
    /\ pos' = [pos EXCEPT ![p] = @ + 1]
    /\ IF req[th].kind = "poll"
       THEN /\ out' = [out EXCEPT ![th] =
                         IF Validate(th, p, pos[p]) THEN <<<<p, pos[p]>>>> ELSE << >>]
            /\ Leave(th, "done")
       ELSE /\ out' = [out EXCEPT ![th] = Append(@, <<p, pos[p]>>)]
            /\ PollOrLeave(th, Len(out[th]) + 1)
    /\ UNCHANGED <<topicVars, closed, phase, req, seekVars, asked>>

\* Slip: an empty poll is tried again.
PollNoneAgain(th) ==
    /\ pc[th] = "poll" /\ ~closed
    /\ UNCHANGED vars

\* poll() runs into its timeout, with or without a record to come.
PollNone(th) ==
    /\ pc[th] = "poll" /\ ~closed
    /\ Leave(th, "done")
    /\ UNCHANGED <<topicVars, pos, closed, phase, req, seekVars, out, asked>>

\* buildTopicInfo: partitionsFor and endOffsets, then beginningOffsets.
EndOffsets(th) ==
    /\ pc[th] = "counts" /\ ~closed
    /\ pc' = [pc EXCEPT ![th] = "begins"]
    /\ UNCHANGED <<topicVars, pos, closed, phase, monitor, req, seekVars, out, asked>>

BeginningOffsets(th) ==
    /\ pc[th] = "begins" /\ ~closed
    /\ Leave(th, "done")
    /\ UNCHANGED <<topicVars, pos, closed, phase, req, seekVars, out, asked>>

\* A call throws and the block is left: the request fails, and getConsumerDetails
\* reports -1.
Throws(th) ==
    /\ Leave(th, "failed")
    /\ UNCHANGED <<topicVars, pos, closed, phase, req, seekVars, out, asked>>

\* Every call of a closed consumer throws ...
ClosedThrows(th) == pc[th] \in Held /\ closed /\ Throws(th)

\* ... and a call that has to wait for the broker may.
BrokerFails(th) == pc[th] \in Held \ {"assign"} /\ ~closed /\ Throws(th)

Answer(th) ==
    /\ pc[th] \in {"done", "failed"}
    /\ pc' = [pc EXCEPT ![th] = "idle"]
    /\ req' = [req EXCEPT ![th] = NoRequest]
    /\ out' = [out EXCEPT ![th] = << >>]
    /\ pending' = [pending EXCEPT ![th] = {}] /\ since' = [since EXCEPT ![th] = NoRecords]
    /\ UNCHANGED <<topicVars, pos, closed, phase, monitor, asked>>

\* destroy(): close() without the monitor throws when a request is in a call.
Destroy ==
    /\ phase = "up"
    /\ phase' = "down"
    /\ \/ closed' = TRUE
       \/ (\E th \in Threads : pc[th] \in Held) /\ UNCHANGED closed
    /\ UNCHANGED <<topicVars, pos, monitor, pc, req, seekVars, out, asked>>

------------------------------------------------------------------------------

Topic == \E p \in Partitions : Produce(p) \/ Expire(p)

NewRequest(th) == AskPoll(th) \/ AskBatch(th) \/ AskInfo(th)

Step(th) ==
    \/ Enter(th) \/ AssignAndSeek(th) \/ SeekRefused(th) \/ SeekToTimes(th) \/ AllSought(th)
    \/ \E p \in Partitions : SeekToEnd(th, p) \/ PollOne(th, p)
    \/ PollNone(th) \/ EndOffsets(th) \/ BeginningOffsets(th) \/ ClosedThrows(th)
    \/ Answer(th)

Next ==
    \/ Topic
    \/ Destroy
    \/ \E th \in Threads :
          \/ NewRequest(th) \/ Step(th) \/ BrokerFails(th)
          \/ \E p \in Partitions : ResetPosition(th, p)

Spec == Init /\ [][Next]_vars

\* Every request goes on while it can: calls of the consumer have timeouts, and
\* a request waits for the monitor while finitely many others have it.
FairSpec == Spec /\ \A th \in Threads : WF_vars(Step(th))

------------------------------------------------------------------------------

\* The consumer, which is not thread-safe, is never used by two requests at once.
MutualExclusion ==
    \A th \in Threads : pc[th] \in Held <=> monitor = th

\* "Returns the message at the exact partition and offset", or nothing, also when
\* the offset is out of range and the consumer's position was reset to another.
ExactRecord ==
    \A th \in Threads :
        req[th].kind = "poll" =>
            \A i \in 1..Len(out[th]) : out[th][i] = <<req[th].part, req[th].from>>

\* What a batch has returned, per partition, is in order and without repetition,
\* whatever other requests and retention do in between.
BatchInOrder ==
    \A th \in Threads : \A j \in 1..Len(out[th]) : \A i \in 1..(j - 1) :
        out[th][i][1] = out[th][j][1] => out[th][i][2] < out[th][j][2]

Returned(th) == {out[th][i] : i \in 1..Len(out[th])}

\* Of the offsets from..to of p, those that are not deleted have been returned.
Whole(th, p, from, to) ==
    \A o \in from..to : o < begin[p] \/ <<p, o>> \in Returned(th)

\* A batch starts where it was asked to and skips only records that are deleted:
\* a page that starts at the last offset + 1 continues the one before it.  (An
\* offset that is not there yet, and a reset to the end, break this.)
BatchContiguous ==
    ~BeyondEnd /\ Reset = "earliest" =>
        \A th \in Threads : \A i \in 1..Len(out[th]) :
            LET p == out[th][i][1]
                o == out[th][i][2]
            IN  /\ req[th].kind = "offset" =>
                      p = req[th].part /\ req[th].from <= o /\ Whole(th, p, req[th].from, o)
                /\ \A k \in 1..i : out[th][k][1] = p => Whole(th, p, out[th][k][2], o)

\* A batch by timestamp leaves out, of a partition that it returns something of, only
\* what is older, what is deleted, and what arrived after the timestamp was looked up: a
\* partition without a record at it is read from an end that is looked up later.
BatchFromTime ==
    Reset = "earliest" =>
        \A th \in Threads : req[th].kind = "time" =>
            \A i \in 1..Len(out[th]) :
                LET p == out[th][i][1] IN
                \A o \in 0..(out[th][i][2] - 1) :
                    \/ o < begin[p] \/ <<p, o>> \in Returned(th)
                    \/ log[p][o + 1] < req[th].from \/ since[th][p] <= o

\* Where a request is for its client.
Progress ==
    [th \in Threads |->
        CASE pc[th] = "idle"               -> "idle"
          [] pc[th] \in {"done", "failed"} -> "over"
          [] OTHER                         -> "open"]

Reads == INSTANCE LogReads WITH
    state <- Progress, Times <- 1..MaxTime, Gapless <- ~BeyondEnd /\ Reset = "earliest"

\* The shared consumer, with its monitor, positions and resets, cannot be told from
\* requests that each read the log by themselves.  (Only offsets that are not there yet
\* and a reset to the end make them leave a gap.)
ReadsOfLog == Reads!Spec

\* Every request ends, also when the consumer is closed under it.
RequestsEnd == \A th \in Threads : pc[th] # "idle" ~> pc[th] = "idle"

=============================================================================
