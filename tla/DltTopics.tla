------------------------------ MODULE DltTopics ------------------------------
(***************************************************************************)
(* The world around the DLT router: the two Kafka topics it connects and   *)
(* the host application that fills one and reads the other.                *)
(*                                                                         *)
(* A DLT record is reduced to the two things the router looks at: its      *)
(* timestamp and its "kafka-ops-dlt-cycle" header.  A retry record is      *)
(* reduced to its header.  Nothing here is under the control of the        *)
(* starter; it is modelled from how the starter uses it.                   *)
(***************************************************************************)
EXTENDS Integers, Sequences

CONSTANTS
    Partitions,     \* the partitions of the DLT topic
    NoHeader,       \* a record without the cycle header
    BadHeader,      \* a cycle header that Integer.parseInt refuses
    MinCount,       \* no cycle header is a lesser number, -2^31 for Integer.parseInt
    AppHeaders,     \* headers a record may have when it first enters the DLT
    Skew,           \* how far a record's timestamp may be from the clock
    MaxTime,        \* bound: the last clock value
    MaxMessages,    \* bound: messages that enter the DLT from the main topic
    MaxLog,         \* bound: records per DLT partition
    MaxFaults       \* bound: things that go wrong in one behaviour

\* Integer.parseInt takes a sign: a header is a number, not only a count.
Header == {n \in Int : n >= MinCount} \cup {NoHeader, BadHeader}

ASSUME WorldAssumption ==
    /\ NoHeader \notin Int /\ BadHeader \notin Int /\ NoHeader # BadHeader
    /\ MinCount \in Int /\ MinCount <= 0
    /\ AppHeaders \subseteq Header
    /\ Skew \in Nat /\ MaxTime \in Nat /\ MaxMessages \in Nat
    /\ MaxLog \in Nat /\ MaxFaults \in Nat

VARIABLES
    now,       \* the wall clock, System.currentTimeMillis()
    dlt,       \* dlt[p]: the records of DLT partition p, append-only
    retry,     \* retry records the application has not consumed yet
    entered,   \* how many messages entered the DLT from the main topic
    belowZero, \* history: how far below zero their headers were, in all
    faults     \* how many of the allowed faults have happened

worldVars == <<now, dlt, retry, entered, belowZero, faults>>

Record == [ts : Nat, header : Header]

WorldTypeOK ==
    /\ now \in Nat
    /\ dlt \in [Partitions -> Seq(Record)]
    /\ retry \in Seq(Header)
    /\ entered \in Nat
    /\ belowZero \in Nat
    /\ faults \in Nat

WorldInit ==
    /\ now = 1
    /\ dlt = [p \in Partitions |-> << >>]
    /\ retry = << >>
    /\ entered = 0
    /\ belowZero = 0
    /\ faults = 0

\* A step that is something going wrong, of which there are at most MaxFaults.
Fault == faults < MaxFaults /\ faults' = faults + 1

\* The error handler of the application publishes a record to the DLT.  The
\* producer stamps it (CreateTime) with the clock of the pod it runs on.
PublishToDlt(p, h) ==
    /\ Len(dlt[p]) < MaxLog
    /\ \E t \in ((now - Skew)..(now + Skew)) \cap Nat :
          dlt' = [dlt EXCEPT ![p] = Append(@, [ts |-> t, header |-> h])]

Tick == now < MaxTime /\ now' = now + 1 /\ UNCHANGED <<dlt, retry, entered, belowZero, faults>>

\* How far a header is below the count of a message without one.
Deficit(h) == IF h \in Int /\ h < 0 THEN -h ELSE 0

\* A message of the main topic fails for good and is dead-lettered.
MessageFails(p) ==
    /\ entered < MaxMessages
    /\ entered' = entered + 1
    /\ \E h \in AppHeaders : PublishToDlt(p, h) /\ belowZero' = belowZero + Deficit(h)
    /\ UNCHANGED <<now, retry, faults>>

\* The application handles the next retry record ...
RetrySucceeds ==
    /\ retry # << >>
    /\ retry' = Tail(retry)
    /\ UNCHANGED <<now, dlt, entered, belowZero, faults>>

\* ... or fails again and dead-letters it once more, with the headers it had.
RetryFails(p) ==
    /\ retry # << >>
    /\ retry' = Tail(retry)
    /\ PublishToDlt(p, Head(retry))
    /\ UNCHANGED <<now, entered, belowZero, faults>>

WorldNext ==
    \/ Tick
    \/ RetrySucceeds
    \/ \E p \in Partitions : MessageFails(p) \/ RetryFails(p)

==============================================================================
