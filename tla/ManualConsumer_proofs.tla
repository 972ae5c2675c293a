------------------------ MODULE ManualConsumer_proofs ------------------------
(***************************************************************************)
(* Theorems of ManualConsumer, for any threads, partitions, limits and      *)
(* bounds: requests exclude each other, a single poll returns the record    *)
(* that was asked for or none, a batch is in order, and its pages are whole *)
(* while other requests, producers and retention go on.                     *)
(***************************************************************************)
EXTENDS ManualConsumer, TLAPS

------------------------------------------------------------------------------
(* Types. *)

\* A new request is typed (poll, batchPoll, getConsumerDetails).
LEMMA AskTyped ==
    ASSUME TypeOK, NEW th \in Threads, NewRequest(th)
    PROVE  TypeOK'
<1> USE ManualAssumption DEF TypeOK
<1>1. ASSUME NEW r \in Request, Ask(th, r)
      PROVE  TypeOK'
  BY <1>1 DEF Ask, topicVars, seekVars, Held
<1>2. NoRequest \in Request
  BY DEF NoRequest, Request
<1>3. ASSUME NEW p \in Partitions, NEW o \in OffsetsToAsk(p)
      PROVE  o \in Int
  BY <1>3 DEF OffsetsToAsk
<1>4. CASE AskPoll(th)
  <2>1. PICK p \in Partitions : \E o \in OffsetsToAsk(p) :
          Ask(th, [kind |-> "poll", part |-> p, from |-> o, limit |-> 1])
    BY <1>4 DEF AskPoll
  <2>2. PICK o \in OffsetsToAsk(p) :
          Ask(th, [kind |-> "poll", part |-> p, from |-> o, limit |-> 1])
    BY <2>1
  <2>3. [kind |-> "poll", part |-> p, from |-> o, limit |-> 1]
          \in Request
    BY <1>3 DEF Request
  <2> QED BY <1>1, <2>2, <2>3
<1>5. CASE AskBatch(th)
  <2>1. PICK n \in Limits :
          \/ \E p \in Partitions : \E o \in OffsetsToAsk(p) :
                Ask(th, [kind |-> "offset", part |-> p, from |-> o,
                         limit |-> CappedLimit(n)])
          \/ \E t \in 1..MaxTime :
                Ask(th, [kind |-> "time", part |-> None, from |-> t,
                         limit |-> CappedLimit(n)])
    BY <1>5 DEF AskBatch
  <2>2. CappedLimit(n) \in Int
    BY DEF CappedLimit
  <2>3. ASSUME NEW p \in Partitions, NEW o \in OffsetsToAsk(p)
        PROVE  [kind |-> "offset", part |-> p, from |-> o, limit |-> CappedLimit(n)] \in Request
    BY <1>3, <2>2 DEF Request
  <2>4. ASSUME NEW t \in 1..MaxTime
        PROVE  [kind |-> "time", part |-> None, from |-> t, limit |-> CappedLimit(n)] \in Request
    BY <2>2 DEF Request
  <2> QED BY <1>1, <2>1, <2>3, <2>4
<1>6. CASE AskInfo(th)
  BY <1>1, <1>2, <1>6 DEF AskInfo
<1> QED BY <1>4, <1>5, <1>6 DEF NewRequest

\* A step of a request keeps the types (KafkaConsumer calls of one request).
LEMMA StepTyped ==
    ASSUME TypeOK, NEW th \in Threads, Step(th)
    PROVE  TypeOK'
<1> USE DEF TypeOK, topicVars, seekVars, Held, Leave, PollOrLeave
<1>1. CASE Enter(th)
  BY <1>1 DEF Enter, FirstStep
<1>2. CASE AssignAndSeek(th)
  <2>1. req[th].from \in Nat
    BY <1>2 DEF AssignAndSeek, Request
  <2>2. pos' \in [Partitions -> Nat \cup {None}]
    BY <1>2, <2>1 DEF AssignAndSeek, Unassigned
  <2> QED BY <1>2, <2>2 DEF AssignAndSeek
<1>3. CASE SeekToTimes(th)
  <2>1. ASSUME NEW p \in Partitions, OffsetsForTime(p, req[th].from) # {}
        PROVE  (CHOOSE o \in OffsetsForTime(p, req[th].from) : TRUE) \in Nat
    <3>1. \A o \in OffsetsForTime(p, req[th].from) : o \in Nat
      BY DEF OffsetsForTime
    <3> QED BY <2>1, <3>1
  <2> QED BY <1>3, <2>1 DEF SeekToTimes
<1>4. CASE AllSought(th)
  BY <1>4 DEF AllSought
<1>5. ASSUME NEW p \in Partitions, SeekToEnd(th, p)
      PROVE  TypeOK'
  BY <1>5 DEF SeekToEnd
<1>6. ASSUME NEW p \in Partitions, PollOne(th, p)
      PROVE  TypeOK'
  <2>1. pos[p] \in Nat /\ <<p, pos[p]>> \in Partitions \X Nat
    BY <1>6 DEF PollOne
  <2>2. out' \in [Threads -> Seq(Partitions \X Nat)]
    <3> DEFINE one == <<p, pos[p]>>
    <3>1. <<one>> \in Seq(Partitions \X Nat) /\ << >> \in Seq(Partitions \X Nat)
      BY <2>1
    <3>2. Append(out[th], one) \in Seq(Partitions \X Nat)
      BY <2>1
    <3>3. \E s \in {<<one>>, << >>, Append(out[th], one)} : out' = [out EXCEPT ![th] = s]
      BY <1>6 DEF PollOne
    <3> QED BY <3>1, <3>2, <3>3
  <2>3. pos' \in [Partitions -> Nat \cup {None}]
    BY <1>6, <2>1 DEF PollOne
  <2> QED BY <1>6, <2>2, <2>3 DEF PollOne
<1>7. CASE PollNone(th)
  BY <1>7 DEF PollNone
<1>8. CASE EndOffsets(th)
  BY <1>8 DEF EndOffsets
<1>9. CASE BeginningOffsets(th)
  BY <1>9 DEF BeginningOffsets
<1>10. CASE ClosedThrows(th)
  BY <1>10 DEF ClosedThrows, Throws
<1>11. CASE Answer(th)
  BY <1>11 DEF Answer, NoRequest, NoRecords, Request
<1>12. CASE SeekRefused(th)
  BY <1>12 DEF SeekRefused, Unassigned
<1> QED
  BY <1>1, <1>2, <1>3, <1>4, <1>5, <1>6, <1>7, <1>8, <1>9, <1>10, <1>11, <1>12 DEF Step

\* Every state is typed.
THEOREM TypeCorrect == Spec => []TypeOK
<1>1. Init => TypeOK
  <2>1. NoRequest \in Request
    BY DEF NoRequest, Request
  <2>2. << >> \in Seq(Nat) /\ << >> \in Seq(Partitions \X Nat)
    OBVIOUS
  <2> SUFFICES ASSUME Init PROVE TypeOK
    OBVIOUS
  <2>3. /\ log \in [Partitions -> Seq(Nat)]
        /\ begin \in [Partitions -> Nat]
        /\ pos \in [Partitions -> Nat \cup {None}]
    BY <2>2 DEF Init, Unassigned, NoRecords
  <2>4. /\ req \in [Threads -> Request]
        /\ pending \in [Threads -> SUBSET Partitions]
        /\ since \in [Threads -> [Partitions -> Nat]]
        /\ out \in [Threads -> Seq(Partitions \X Nat)]
    BY <2>1, <2>2 DEF Init, NoRecords
  <2> QED BY <2>3, <2>4 DEF Init, TypeOK
<1>2. TypeOK /\ [Next]_vars => TypeOK'
  <2> SUFFICES ASSUME TypeOK, [Next]_vars PROVE TypeOK'
    OBVIOUS
  <2>1. ASSUME NEW p \in Partitions, Produce(p)
        PROVE  TypeOK'
    <3>1. PICK t \in 1..MaxTime : log' = [log EXCEPT ![p] = Append(@, t)]
      BY <2>1 DEF Produce
    <3>2. t \in Nat
      BY ManualAssumption
    <3> QED BY <2>1, <3>1, <3>2 DEF Produce, TypeOK, seekVars
  <2>2. ASSUME NEW p \in Partitions, Expire(p)
        PROVE  TypeOK'
    BY <2>2 DEF Expire, TypeOK, seekVars
  <2>3. CASE Destroy
    BY <2>3 DEF Destroy, TypeOK, topicVars, seekVars
  <2>4. ASSUME NEW th \in Threads, BrokerFails(th)
        PROVE  TypeOK'
    BY <2>4 DEF BrokerFails, Throws, Leave, TypeOK, topicVars, seekVars
  <2>5. ASSUME NEW th \in Threads, NEW p \in Partitions, ResetPosition(th, p)
        PROVE  TypeOK'
    BY <2>5 DEF ResetPosition, TypeOK, topicVars, seekVars
  <2>6. CASE UNCHANGED vars
    BY <2>6 DEF vars, topicVars, seekVars, TypeOK
  <2> QED
    BY <2>1, <2>2, <2>3, <2>4, <2>5, <2>6, AskTyped, StepTyped DEF Next, Topic
<1> QED BY <1>1, <1>2, PTL DEF Spec

\* What arrives leaves what is there, at its place.
LEMMA LogGrows ==
    ASSUME TypeOK, NEW p \in Partitions, Produce(p)
    PROVE  /\ UNCHANGED <<begin, pos, pc, req, since, out>>
           /\ \A q \in Partitions :
                 /\ Len(log[q]) \in Nat /\ Len(log'[q]) \in Nat /\ Len(log[q]) <= Len(log'[q])
                 /\ \A o \in 0..(Len(log[q]) - 1) : log'[q][o + 1] = log[q][o + 1]
<1>1. PICK t \in 1..MaxTime : log' = [log EXCEPT ![p] = Append(@, t)]
  BY DEF Produce
<1>2. t \in Nat /\ log \in [Partitions -> Seq(Nat)]
  BY ManualAssumption DEF TypeOK
<1>3. ASSUME NEW q \in Partitions
      PROVE  /\ Len(log[q]) \in Nat /\ Len(log'[q]) \in Nat /\ Len(log[q]) <= Len(log'[q])
             /\ \A o \in 0..(Len(log[q]) - 1) : log'[q][o + 1] = log[q][o + 1]
  <2>1. log[q] \in Seq(Nat) /\ log'[q] = IF q = p THEN Append(log[q], t) ELSE log[q]
    BY <1>1, <1>2
  <2> QED BY <1>2, <2>1
<1> QED BY <1>3 DEF Produce, seekVars

\* What is returned are places.
LEMMA OutTyped ==
    ASSUME TypeOK, NEW th \in Threads, NEW i \in 1..Len(out[th])
    PROVE  out[th][i] \in Partitions \X Nat
<1>1. out[th] \in Seq(Partitions \X Nat)
  BY DEF TypeOK
<1> QED BY <1>1

------------------------------------------------------------------------------
(* Exclusion. *)

\* The consumer is used by one request at a time (synchronized (kafkaConsumer) in
\* ManualKafkaConsumer and KafkaOpsConsumerRegistry).
THEOREM MutualExclusionAlways == Spec => []MutualExclusion
<1> USE DEF MutualExclusion
<1>1. Init => MutualExclusion
  BY ManualAssumption DEF Init, Held
<1>2. TypeOK /\ MutualExclusion /\ [Next]_vars => MutualExclusion'
  <2> SUFFICES ASSUME TypeOK, MutualExclusion, [Next]_vars PROVE MutualExclusion'
    OBVIOUS
  <2> USE ManualAssumption DEF TypeOK, Held
  <2>1. ASSUME UNCHANGED <<monitor, pc>>
        PROVE  MutualExclusion'
    BY <2>1
  <2>2. ASSUME NEW th \in Threads, pc[th] \in Held, UNCHANGED monitor,
               NEW place \in Held, pc' = [pc EXCEPT ![th] = place]
        PROVE  MutualExclusion'
    BY <2>2
  <2>3. ASSUME NEW th \in Threads, pc[th] \notin Held, UNCHANGED monitor,
               NEW place, place \notin Held, pc' = [pc EXCEPT ![th] = place]
        PROVE  MutualExclusion'
    BY <2>3
  <2>4. ASSUME NEW th \in Threads, pc[th] \in Held,
               NEW place, place \notin Held, Leave(th, place)
        PROVE  MutualExclusion'
    BY <2>4 DEF Leave
  <2>5. ASSUME NEW th \in Threads, pc[th] \in Held, NEW n, PollOrLeave(th, n)
        PROVE  MutualExclusion'
    BY <2>2, <2>4, <2>5 DEF PollOrLeave
  <2>6. ASSUME NEW th \in Threads, NewRequest(th)
        PROVE  MutualExclusion'
    BY <2>3, <2>6 DEF NewRequest, AskPoll, AskBatch, AskInfo, Ask
  <2>7. ASSUME NEW th \in Threads, Step(th)
        PROVE  MutualExclusion'
    <3>1. CASE Enter(th)
      BY <2>7, <3>1 DEF Enter, FirstStep
    <3>2. CASE AssignAndSeek(th) \/ AllSought(th)
      BY <2>5, <2>7, <3>2 DEF AssignAndSeek, AllSought
    <3>3. CASE SeekToTimes(th) \/ EndOffsets(th)
      BY <2>2, <2>7, <3>3 DEF SeekToTimes, EndOffsets
    <3>4. CASE \E p \in Partitions : SeekToEnd(th, p)
      BY <2>1, <3>4 DEF SeekToEnd
    <3>5. CASE \E p \in Partitions : PollOne(th, p)
      BY <2>4, <2>5, <2>7, <3>5 DEF PollOne
    <3>6. CASE SeekRefused(th) \/ PollNone(th) \/ BeginningOffsets(th) \/ ClosedThrows(th)
      BY <2>4, <2>7, <3>6 DEF SeekRefused, PollNone, BeginningOffsets, ClosedThrows, Throws
    <3>7. CASE Answer(th)
      BY <2>3, <2>7, <3>7 DEF Answer
    <3> QED BY <2>7, <3>1, <3>2, <3>3, <3>4, <3>5, <3>6, <3>7 DEF Step
  <2>8. ASSUME NEW th \in Threads, BrokerFails(th)
        PROVE  MutualExclusion'
    BY <2>4, <2>8 DEF BrokerFails, Throws
  <2>9. CASE Topic \/ Destroy \/ UNCHANGED vars
    BY <2>1, <2>9 DEF Topic, Produce, Expire, Destroy, vars
  <2>10. ASSUME NEW th \in Threads, NEW p \in Partitions, ResetPosition(th, p)
         PROVE  MutualExclusion'
    BY <2>1, <2>10 DEF ResetPosition
  <2> QED BY <2>6, <2>7, <2>8, <2>9, <2>10 DEF Next
<1> QED BY <1>1, <1>2, TypeCorrect, PTL DEF Spec

------------------------------------------------------------------------------
(* What a request returns. *)

\* Nothing has been returned before the first poll.
EmptyBefore ==
    \A th \in Threads :
        pc[th] \in {"idle", "enter", "assign", "times", "ends"} => out[th] = << >>

\* The consumer is behind every record that the batch under way has returned, and
\* not behind the end of its partition.
BehindReturned ==
    \A th \in Threads :
        pc[th] = "poll" =>
            \A i \in 1..Len(out[th]) :
                LET p == out[th][i][1] IN
                pos[p] # None /\ out[th][i][2] < pos[p] /\ pos[p] <= Len(log[p])

\* Retention deletes what there is.
BeginInLog == \A p \in Partitions : begin[p] <= Len(log[p])

\* What makes the answers inductive.
AnswerInv == EmptyBefore /\ ExactRecord /\ BatchInOrder /\ BehindReturned /\ BeginInLog

\* A step that keeps the answers and the requests, moves no thread back to before
\* its poll, and keeps the positions of the batches under way.
LEMMA AnswersKept ==
    ASSUME TypeOK, AnswerInv, TypeOK', BeginInLog', UNCHANGED <<out, req>>,
           \A th \in Threads :
               /\ pc'[th] \in {"idle", "enter", "assign", "times", "ends"} =>
                     out[th] = << >>
               /\ pc'[th] = "poll" =>
                     \/ out[th] = << >>
                     \/ /\ pc[th] = "poll"
                        /\ \A p \in Partitions :
                              /\ pos[p] # None /\ pos[p] <= Len(log[p]) =>
                                    /\ pos'[p] # None /\ pos[p] <= pos'[p]
                                    /\ pos'[p] <= Len(log'[p])
    PROVE  AnswerInv'
<1>1. EmptyBefore'
  BY DEF EmptyBefore
<1>2. ExactRecord' /\ BatchInOrder'
  BY DEF AnswerInv, ExactRecord, BatchInOrder
<1>3. BehindReturned'
  <2> SUFFICES ASSUME NEW th \in Threads, pc'[th] = "poll", NEW i \in 1..Len(out[th])
               PROVE  LET p == out[th][i][1] IN
                      pos'[p] # None /\ out[th][i][2] < pos'[p] /\ pos'[p] <= Len(log'[p])
    BY DEF BehindReturned
  <2> DEFINE p == out[th][i][1]
  <2>1. out[th] # << >>
    OBVIOUS
  <2>2. pc[th] = "poll"
    BY <2>1
  <2>3. out[th][i] \in Partitions \X Nat
    BY DEF TypeOK
  <2>4. p \in Partitions /\ out[th][i][2] \in Nat
    BY <2>3
  <2>5. pos[p] # None /\ out[th][i][2] < pos[p] /\ pos[p] <= Len(log[p])
    BY <2>2 DEF AnswerInv, BehindReturned
  <2>6. pos'[p] # None /\ pos[p] <= pos'[p] /\ pos'[p] <= Len(log'[p])
    BY <2>1, <2>4, <2>5
  <2>7. pos[p] \in Nat /\ pos'[p] \in Nat
    BY <2>4, <2>5, <2>6 DEF TypeOK
  <2> QED BY <2>4, <2>5, <2>6, <2>7
<1> QED BY <1>1, <1>2, <1>3 DEF AnswerInv

\* While a request holds the consumer, no other is at a call of it.
LEMMA Alone ==
    ASSUME MutualExclusion, NEW th \in Threads, pc[th] \in Held,
           NEW other \in Threads, other # th
    PROVE  pc[other] \notin Held
BY DEF MutualExclusion

\* A step of the request that holds the consumer, which keeps what is returned,
\* and after which it is polling only if nothing was returned before.
LEMMA HolderKeepsAnswers ==
    ASSUME TypeOK, MutualExclusion, AnswerInv, TypeOK', UNCHANGED <<out, req, topicVars>>,
           NEW th \in Threads, pc[th] \in Held,
           NEW place, pc' = [pc EXCEPT ![th] = place],
           out[th] = << >> \/ place \notin {"idle", "enter", "assign", "times", "ends", "poll"}
    PROVE  AnswerInv'
<1>1. BeginInLog'
  BY DEF AnswerInv, BeginInLog, topicVars
<1>2. ASSUME NEW other \in Threads, other # th
      PROVE  pc'[other] = pc[other] /\ pc'[other] # "poll"
  BY <1>2, Alone DEF TypeOK, Held
<1>3. pc'[th] = place
  BY DEF TypeOK
<1>4. ASSUME NEW other \in Threads,
             pc'[other] \in {"idle", "enter", "assign", "times", "ends"}
      PROVE  out[other] = << >>
  BY <1>2, <1>3, <1>4 DEF AnswerInv, EmptyBefore
<1>5. ASSUME NEW other \in Threads, pc'[other] = "poll"
      PROVE  out[other] = << >>
  BY <1>2, <1>3, <1>5
<1> QED BY <1>1, <1>4, <1>5, AnswersKept

\* The poll that returns a record: what it returns is behind what was returned
\* before, in its partition (pollBatch, pollBatchByTimestamp), and it is the one that
\* was asked for (poll).
LEMMA PollKeepsAnswers ==
    ASSUME TypeOK, MutualExclusion, AnswerInv, TypeOK',
           NEW th \in Threads, NEW p \in Partitions, PollOne(th, p)
    PROVE  AnswerInv'
<1> USE DEF PollOne, topicVars
<1>1. pos[p] \in Nat /\ Len(log[p]) \in Nat /\ pos[p] < Len(log[p])
  BY DEF TypeOK
<1>2. pos'[p] = pos[p] + 1 /\ \A q \in Partitions : q # p => pos'[q] = pos[q]
  BY DEF TypeOK
<1>3. BeginInLog'
  BY DEF AnswerInv, BeginInLog
<1>4. ASSUME NEW other \in Threads, other # th
      PROVE  /\ pc'[other] = pc[other] /\ out'[other] = out[other]
             /\ pc'[other] # "poll"
  <2>1. pc[other] \notin Held
    BY <1>4, Alone DEF Held
  <2>2. pc'[other] = pc[other]
    BY <1>4 DEF TypeOK, Leave, PollOrLeave
  <2> QED BY <1>4, <2>1, <2>2 DEF TypeOK, Held
<1>5. pc'[th] \in {"poll", "done"}
  BY DEF TypeOK, Leave, PollOrLeave
<1>6. CASE req[th].kind = "poll"
  <2>1. pc'[th] = "done"
    BY <1>6 DEF TypeOK, Leave
  <2>2. out'[th] = << >> \/ (out'[th] = <<<<p, pos[p]>>>> /\ Validate(th, p, pos[p]))
    BY <1>6 DEF TypeOK
  <2>3. EmptyBefore'
    BY <1>4, <2>1 DEF EmptyBefore, AnswerInv
  <2>4. BehindReturned'
    BY <1>4, <2>1 DEF BehindReturned
  <2>5. ExactRecord'
    BY <1>4, <2>2 DEF AnswerInv, ExactRecord, Validate
  <2>6. BatchInOrder'
    <3> DEFINE place == <<p, pos[p]>>
               m     == Len(out'[th])
    <3> HIDE DEF place
    <3>1. Len(<<place>>) = 1 /\ Len(<< >>) = 0
      OBVIOUS
    <3>2. m = 0 \/ m = 1
      BY <2>2, <3>1 DEF place
    <3> HIDE DEF m
    <3>3. \A j \in 1..m : \A i \in 1..(j - 1) : FALSE
      BY <3>2
    <3> QED BY <1>4, <3>3 DEF AnswerInv, BatchInOrder, m
  <2> QED BY <1>3, <2>3, <2>4, <2>5, <2>6 DEF AnswerInv
<1>7. CASE req[th].kind # "poll"
  <2> DEFINE new == <<p, pos[p]>>
             n   == Len(out[th])
  <2>1. out[th] \in Seq(Partitions \X Nat) /\ n \in Nat
    BY DEF TypeOK
  <2>2. out'[th] = Append(out[th], new)
    BY <1>7 DEF TypeOK
  <2>3. /\ Len(out'[th]) = n + 1 /\ out'[th][n + 1] = new
        /\ \A i \in 1..n : out'[th][i] = out[th][i] /\ out[th][i] \in Partitions \X Nat
    BY <2>1, <2>2
  <2>4. \A i \in 1..n :
            LET q == out[th][i][1] IN
            pos[q] # None /\ out[th][i][2] < pos[q] /\ pos[q] <= Len(log[q])
    BY DEF AnswerInv, BehindReturned
  <2>5. EmptyBefore'
    BY <1>4, <1>5 DEF EmptyBefore, AnswerInv
  <2>6. ExactRecord'
    BY <1>4, <1>7 DEF ExactRecord, AnswerInv
  <2>7. BatchInOrder'
    <3>1. ASSUME NEW j \in 1..(n + 1), NEW i \in 1..(j - 1),
                 out'[th][i][1] = out'[th][j][1]
          PROVE  out'[th][i][2] < out'[th][j][2]
      <4>1. CASE j = n + 1
        <5>1. i \in 1..n
          BY <2>1, <4>1
        <5>2. out'[th][i] = out[th][i] /\ out'[th][j] = new
          BY <2>3, <4>1, <5>1
        <5>3. out[th][i][1] = p
          BY <3>1, <5>2
        <5> QED BY <2>4, <5>1, <5>2, <5>3
      <4>2. CASE j # n + 1
        <5>1. j \in 1..n /\ i \in 1..n
          BY <2>1, <4>2
        <5> QED BY <2>3, <3>1, <5>1 DEF AnswerInv, BatchInOrder
      <4> QED BY <4>1, <4>2
    <3> QED BY <1>4, <2>3, <3>1 DEF AnswerInv, BatchInOrder
  <2>8. BehindReturned'
    <3>1. ASSUME NEW i \in 1..(n + 1)
          PROVE  LET q == out'[th][i][1] IN
                 pos'[q] # None /\ out'[th][i][2] < pos'[q] /\ pos'[q] <= Len(log[q])
      <4>1. pos'[p] # None
        BY ManualAssumption, <1>1, <1>2
      <4>2. CASE i = n + 1
        <5>1. out'[th][i][1] = p /\ out'[th][i][2] = pos[p]
          BY <2>3, <4>2
        <5> QED BY <1>1, <1>2, <4>1, <5>1
      <4>3. CASE i # n + 1
        <5>1. i \in 1..n
          BY <2>1, <4>3
        <5> DEFINE q == out[th][i][1]
        <5>2. q \in Partitions /\ out[th][i][2] \in Nat /\ out'[th][i] = out[th][i]
          BY <2>3, <5>1
        <5>3. pos[q] # None /\ out[th][i][2] < pos[q] /\ pos[q] <= Len(log[q])
          BY <2>4, <5>1
        <5>4. CASE q = p
          <6>1. out[th][i][2] < pos[p]
            BY <5>3, <5>4
          <6>2. out[th][i][2] < pos'[p] /\ pos'[p] <= Len(log[p])
            BY <1>1, <1>2, <5>2, <6>1
          <6> QED BY <4>1, <5>2, <5>4, <6>2
        <5>5. CASE q # p
          BY <1>2, <5>2, <5>3, <5>5
        <5> QED BY <5>4, <5>5
      <4> QED BY <4>2, <4>3
    <3>2. log' = log
      OBVIOUS
    <3> QED BY <1>4, <2>3, <3>1, <3>2 DEF BehindReturned
  <2> QED BY <1>3, <2>5, <2>6, <2>7, <2>8 DEF AnswerInv
<1> QED BY <1>6, <1>7

\* A step that empties the answer of one request and does nothing else to them.
LEMMA EmptyAnswer ==
    ASSUME AnswerInv, UNCHANGED topicVars, UNCHANGED pos,
           NEW th \in Threads, out'[th] = << >>, pc'[th] # "poll",
           \A other \in Threads : other # th =>
               pc'[other] = pc[other] /\ req'[other] = req[other] /\ out'[other] = out[other]
    PROVE  AnswerInv'
<1> USE DEF AnswerInv, topicVars
<1>1. EmptyBefore'
  BY DEF EmptyBefore
<1>2. ExactRecord'
  BY DEF ExactRecord
<1>3. BatchInOrder'
  BY DEF BatchInOrder
<1>4. BehindReturned'
  BY DEF BehindReturned
<1>5. BeginInLog'
  BY DEF BeginInLog
<1> QED BY <1>1, <1>2, <1>3, <1>4, <1>5

\* Every step keeps what the answers say.
LEMMA AnswerStep ==
    ASSUME TypeOK, MutualExclusion, AnswerInv, TypeOK', [Next]_vars
    PROVE  AnswerInv'
<1> USE DEF TypeOK, topicVars
<1>1. ASSUME NEW p \in Partitions, Produce(p)
      PROVE  AnswerInv'
  <2>1. \A q \in Partitions : Len(log[q]) \in Nat /\ Len(log'[q]) \in Nat /\ Len(log[q]) <= Len(log'[q])
    BY <1>1, LogGrows
  <2>2. \A q \in Partitions : pos[q] \in Nat \cup {None}
    OBVIOUS
  <2>3. BeginInLog'
    BY <1>1, <2>1 DEF Produce, AnswerInv, BeginInLog
  <2>4. ASSUME NEW q \in Partitions, pos[q] # None, pos[q] <= Len(log[q])
        PROVE  pos[q] <= pos[q] /\ pos[q] <= Len(log'[q])
    <3> HIDE DEF TypeOK
    <3> QED BY <2>1, <2>2, <2>4
  <2> QED BY <1>1, <2>3, <2>4, AnswersKept DEF Produce, AnswerInv, EmptyBefore
<1>2. ASSUME NEW p \in Partitions, Expire(p)
      PROVE  AnswerInv'
  <2>1. BeginInLog'
    BY <1>2 DEF Expire, AnswerInv, BeginInLog
  <2>2. \A q \in Partitions : pos[q] # None => pos[q] <= pos[q]
    OBVIOUS
  <2> QED BY <1>2, <2>1, <2>2, AnswersKept DEF Expire, AnswerInv, EmptyBefore
<1>3. CASE Destroy \/ UNCHANGED vars
  <2>1. UNCHANGED <<log, begin, pos, pc, req, out>>
    BY <1>3 DEF Destroy, vars
  <2> QED BY <2>1 DEF AnswerInv, EmptyBefore, ExactRecord, BatchInOrder, BehindReturned, BeginInLog
<1>4. ASSUME NEW th \in Threads, NEW r, Ask(th, r)
      PROVE  AnswerInv'
  <2>1. out[th] = << >> /\ out' = out
    BY <1>4 DEF Ask, AnswerInv, EmptyBefore
  <2>2. pc'[th] = "enter" /\ \A other \in Threads : other # th => pc'[other] = pc[other] /\ req'[other] = req[other]
    BY <1>4 DEF Ask
  <2>3. UNCHANGED topicVars /\ UNCHANGED pos
    BY <1>4 DEF Ask
  <2> QED BY <2>1, <2>2, <2>3, EmptyAnswer
<1>5. ASSUME NEW th \in Threads, Answer(th)
      PROVE  AnswerInv'
  <2>1. out'[th] = << >> /\ pc'[th] = "idle"
    BY <1>5 DEF Answer
  <2>2. \A other \in Threads : other # th =>
            pc'[other] = pc[other] /\ req'[other] = req[other] /\ out'[other] = out[other]
    BY <1>5 DEF Answer
  <2>3. UNCHANGED topicVars /\ UNCHANGED pos
    BY <1>5 DEF Answer
  <2> QED BY <2>1, <2>2, <2>3, EmptyAnswer
<1>6. ASSUME NEW th \in Threads, Enter(th)
      PROVE  AnswerInv'
  <2>1. BeginInLog' /\ out[th] = << >>
    BY <1>6 DEF Enter, AnswerInv, BeginInLog, EmptyBefore
  <2>2. \A other \in Threads : other # th => pc'[other] = pc[other]
    BY <1>6 DEF Enter
  <2>3. \A q \in Partitions : pos[q] # None => pos[q] <= pos[q]
    OBVIOUS
  <2> QED BY <1>6, <2>1, <2>2, <2>3, AnswersKept DEF Enter, AnswerInv, EmptyBefore
<1>7. ASSUME NEW th \in Threads, AssignAndSeek(th) \/ AllSought(th) \/ SeekToTimes(th)
      PROVE  AnswerInv'
  <2>1. out[th] = << >> /\ pc[th] \in Held
    BY <1>7 DEF AssignAndSeek, AllSought, SeekToTimes, AnswerInv, EmptyBefore, Held
  <2>2. PICK place : pc' = [pc EXCEPT ![th] = place]
    BY <1>7 DEF AssignAndSeek, AllSought, SeekToTimes, PollOrLeave, Leave
  <2>3. UNCHANGED <<out, req, topicVars>>
    BY <1>7 DEF AssignAndSeek, AllSought, SeekToTimes
  <2> HIDE DEF TypeOK
  <2> QED BY <2>1, <2>2, <2>3, HolderKeepsAnswers
<1>8. ASSUME NEW th \in Threads, NEW p \in Partitions, SeekToEnd(th, p)
      PROVE  AnswerInv'
  <2>1. out[th] = << >> /\ pc[th] \in Held
    BY <1>8 DEF SeekToEnd, AnswerInv, EmptyBefore, Held
  <2>2. pc' = [pc EXCEPT ![th] = pc[th]]
    BY <1>8 DEF SeekToEnd
  <2>3. UNCHANGED <<out, req, topicVars>>
    BY <1>8 DEF SeekToEnd
  <2> HIDE DEF TypeOK
  <2> QED BY <2>1, <2>2, <2>3, HolderKeepsAnswers
<1>9. ASSUME NEW th \in Threads,
             \/ SeekRefused(th) \/ PollNone(th) \/ EndOffsets(th) \/ BeginningOffsets(th)
             \/ ClosedThrows(th) \/ BrokerFails(th)
      PROVE  AnswerInv'
  <2>1. pc[th] \in Held
    BY <1>9 DEF SeekRefused, PollNone, EndOffsets, BeginningOffsets, ClosedThrows, BrokerFails, Held
  <2>2. PICK place \in {"done", "failed", "begins"} : pc' = [pc EXCEPT ![th] = place]
    BY <1>9 DEF SeekRefused, PollNone, EndOffsets, BeginningOffsets, ClosedThrows, BrokerFails, Throws, Leave
  <2>3. UNCHANGED <<out, req, topicVars>>
    BY <1>9 DEF SeekRefused, PollNone, EndOffsets, BeginningOffsets, ClosedThrows, BrokerFails, Throws
  <2> HIDE DEF TypeOK
  <2> QED BY <2>1, <2>2, <2>3, HolderKeepsAnswers
<1>10. ASSUME NEW th \in Threads, NEW p \in Partitions, ResetPosition(th, p)
       PROVE  AnswerInv'
  <2>1. BeginInLog'
    BY <1>10 DEF ResetPosition, AnswerInv, BeginInLog
  <2>2. \A q \in Partitions : q # p => pos'[q] = pos[q]
    BY <1>10 DEF ResetPosition
  <2>3. pos[p] \in Nat /\ begin[p] \in Nat /\ Len(log[p]) \in Nat /\ begin[p] <= Len(log[p])
    BY <1>10 DEF ResetPosition, AnswerInv, BeginInLog
  <2>4. pos'[p] = begin[p] \/ pos'[p] = Len(log[p])
    BY <1>10 DEF ResetPosition
  <2>5. pos[p] <= Len(log[p]) => pos[p] <= pos'[p] /\ pos'[p] <= Len(log[p])
    <3>1. pos[p] < begin[p] \/ pos[p] > Len(log[p])
      BY <1>10, <2>3 DEF ResetPosition, InRange
    <3> QED BY <2>3, <2>4, <3>1
  <2>6. \A q \in Partitions : pos[q] # None /\ pos[q] <= Len(log[q]) =>
            pos'[q] # None /\ pos[q] <= pos'[q] /\ pos'[q] <= Len(log'[q])
    <3>1. log' = log /\ pos'[p] # None
      BY <1>10, <2>3, <2>4, ManualAssumption DEF ResetPosition
    <3>2. \A q \in Partitions : pos[q] # None => pos[q] <= pos[q]
      OBVIOUS
    <3> QED BY <2>2, <2>5, <3>1, <3>2
  <2>7. UNCHANGED <<out, req, pc>>
    BY <1>10 DEF ResetPosition
  <2> QED BY <2>1, <2>6, <2>7, AnswersKept DEF AnswerInv, EmptyBefore
<1>11. ASSUME NEW th \in Threads, NEW p \in Partitions, PollOne(th, p)
       PROVE  AnswerInv'
  <2> HIDE DEF TypeOK
  <2> QED BY <1>11, PollKeepsAnswers
<1>12. ASSUME NEW th \in Threads, NewRequest(th)
       PROVE  AnswerInv'
  BY <1>4, <1>12 DEF NewRequest, AskPoll, AskBatch, AskInfo
<1>13. ASSUME NEW th \in Threads, Step(th)
       PROVE  AnswerInv'
  BY <1>5, <1>6, <1>7, <1>8, <1>9, <1>11, <1>13 DEF Step
<1> QED BY <1>1, <1>2, <1>3, <1>9, <1>10, <1>12, <1>13 DEF Next, Topic

\* What makes the answers right is an invariant.
LEMMA AnswersRight == Spec => []AnswerInv
<1>1. Init => AnswerInv
  BY DEF Init, NoRecords, AnswerInv, EmptyBefore, ExactRecord, BatchInOrder, BehindReturned, BeginInLog
<1>2. TypeOK /\ TypeOK' /\ MutualExclusion /\ AnswerInv /\ [Next]_vars => AnswerInv'
  BY AnswerStep
<1> QED BY <1>1, <1>2, TypeCorrect, MutualExclusionAlways, PTL DEF Spec

\* A single poll returns the record of the partition and offset it was asked for, or
\* none (ManualKafkaConsumer.poll, validate).
THEOREM ExactRecordAlways == Spec => []ExactRecord
BY AnswersRight, PTL DEF AnswerInv

\* The records of a batch come in the order of their offsets and once each, although
\* every request moves the positions of the same consumer (pollBatch,
\* pollBatchByTimestamp).
THEOREM BatchInOrderAlways == Spec => []BatchInOrder
BY AnswersRight, PTL DEF AnswerInv

------------------------------------------------------------------------------
(* Pages: a batch starts where it was asked to and leaves out only what    *)
(* retention has deleted.  The assumptions are those of BatchContiguous:   *)
(* offsets that are asked for are there, and a position that is out of     *)
(* range is reset to the earliest record.                                  *)

\* What was asked for is in the log, until it is sought.
FromInLog ==
    \A th \in Threads :
        req[th].kind = "offset" /\ pc[th] \in {"enter", "assign"} =>
            /\ req[th].part \in Partitions
            /\ req[th].from <= Len(log[req[th].part])

\* A batch by offset has only its partition assigned, and has returned all there is
\* between its start and the position.
OffsetPolled ==
    \A th \in Threads :
        req[th].kind = "offset" /\ pc[th] = "poll" =>
            LET p == req[th].part IN
            /\ p \in Partitions /\ pos[p] # None
            /\ req[th].from <= pos[p] /\ pos[p] <= Len(log[p])
            /\ \A q \in Partitions : q # p => pos[q] = None
            /\ Whole(th, p, req[th].from, pos[p] - 1)

\* A batch under way has returned all there is between any record it returned and the
\* position in its partition.
Polled ==
    \A th \in Threads :
        pc[th] = "poll" =>
            \A i \in 1..Len(out[th]) :
                Whole(th, out[th][i][1], out[th][i][2], pos[out[th][i][1]] - 1)

\* What has been returned up to the i-th record is whole.
Page(th, i) ==
    LET p == out[th][i][1]
        o == out[th][i][2]
    IN  /\ req[th].kind = "offset" =>
              p = req[th].part /\ req[th].from <= o /\ Whole(th, p, req[th].from, o)
        /\ \A k \in 1..i : out[th][k][1] = p => Whole(th, p, out[th][k][2], o)

Pages == \A th \in Threads : \A i \in 1..Len(out[th]) : Page(th, i)

PageInv == FromInLog /\ OffsetPolled /\ Polled /\ Pages

------------------------------------------------------------------------------

\* What is whole stays so: retention only deletes, and the answer stays.
LEMMA WholeKept ==
    ASSUME NEW th, NEW p, NEW a, NEW b, Whole(th, p, a, b), out'[th] = out[th],
           begin[p] \in Int, begin'[p] \in Int, begin[p] <= begin'[p]
    PROVE  Whole(th, p, a, b)'
<1> SUFFICES ASSUME NEW o \in a..b
             PROVE  o < begin'[p] \/ <<p, o>> \in Returned(th)'
  BY DEF Whole
<1>1. o \in Int
  OBVIOUS
<1>2. o < begin[p] \/ <<p, o>> \in Returned(th)
  BY DEF Whole
<1> QED BY <1>1, <1>2 DEF Returned

\* A position that moves on past deleted offsets keeps what is before it whole.
LEMMA WholeReset ==
    ASSUME NEW th, NEW p, NEW a \in Int, NEW b \in Int, NEW c \in Int,
           Whole(th, p, a, b - 1), out'[th] = out[th],
           begin[p] \in Int, begin'[p] \in Int, begin[p] <= begin'[p],
           c = b \/ c <= begin'[p]
    PROVE  Whole(th, p, a, c - 1)'
<1> SUFFICES ASSUME NEW o \in a..(c - 1), ~(o < begin'[p])
             PROVE  <<p, o>> \in Returned(th)'
  BY DEF Whole
<1>1. o \in a..(b - 1)
  OBVIOUS
<1>2. o < begin[p] \/ <<p, o>> \in Returned(th)
  BY <1>1 DEF Whole
<1> QED BY <1>1, <1>2 DEF Returned

LEMMA PageKept ==
    ASSUME NEW th, NEW i, Page(th, i), out'[th] = out[th], req'[th] = req[th],
           begin[out[th][i][1]] \in Int, begin'[out[th][i][1]] \in Int,
           begin[out[th][i][1]] <= begin'[out[th][i][1]]
    PROVE  Page(th, i)'
<1>1. PICK p, o : p = out[th][i][1] /\ o = out[th][i][2]
  OBVIOUS
<1>2. \A a : Whole(th, p, a, o) => Whole(th, p, a, o)'
  BY <1>1, WholeKept
<1>3. /\ req[th].kind = "offset" =>
            p = req[th].part /\ req[th].from <= o /\ Whole(th, p, req[th].from, o)
      /\ \A k \in 1..i : out[th][k][1] = p => Whole(th, p, out[th][k][2], o)
  BY <1>1 DEF Page
<1> QED BY <1>1, <1>2, <1>3 DEF Page

\* A step that leaves requests and answers alone and moves the positions of a batch
\* under way only past what is deleted.
LEMMA PagesKept ==
    ASSUME TypeOK, TypeOK', BehindReturned, PageInv, UNCHANGED <<out, req>>,
           \A p \in Partitions : begin[p] <= begin'[p] /\ Len(log[p]) <= Len(log'[p]),
           \A th \in Threads :
               /\ pc'[th] \in {"enter", "assign"} =>
                     req[th].kind # "offset" \/ pc[th] \in {"enter", "assign"}
               /\ pc'[th] = "poll" =>
                     \/ out[th] = << >> /\ req[th].kind # "offset"
                     \/ /\ pc[th] = "poll"
                        /\ \A p \in Partitions :
                              /\ pos[p] = None => pos'[p] = None
                              /\ pos[p] # None /\ pos[p] <= Len(log[p]) =>
                                    /\ pos'[p] # None /\ pos[p] <= pos'[p]
                                    /\ pos'[p] <= Len(log'[p])
                                    /\ (pos'[p] = pos[p] \/ pos'[p] <= begin'[p])
    PROVE  PageInv'
<1>1. \A p \in Partitions :
          begin[p] \in Int /\ begin'[p] \in Int /\ Len(log[p]) \in Int /\ Len(log'[p]) \in Int
  BY DEF TypeOK
<1>7. \A p \in Partitions :
          (pos[p] # None => pos[p] \in Int) /\ (pos'[p] # None => pos'[p] \in Int)
  BY DEF TypeOK
<1>2. ASSUME NEW th \in Threads, NEW i \in 1..Len(out[th])
      PROVE  out[th][i][1] \in Partitions /\ out[th][i][2] \in Nat
  <2>1. out[th][i] \in Partitions \X Nat
    BY DEF TypeOK
  <2> QED BY <2>1
<1>3. FromInLog'
  <2> SUFFICES ASSUME NEW th \in Threads, req'[th].kind = "offset", pc'[th] \in {"enter", "assign"}
               PROVE  /\ req'[th].part \in Partitions
                      /\ req'[th].from <= Len(log'[req'[th].part])
    BY DEF FromInLog
  <2>1. req[th].part \in Partitions /\ req[th].from <= Len(log[req[th].part])
    BY DEF PageInv, FromInLog
  <2>2. req[th].from \in Int
    BY DEF TypeOK, Request
  <2> QED BY <1>1, <2>1, <2>2
<1>4. OffsetPolled'
  <2> SUFFICES ASSUME NEW th \in Threads, req[th].kind = "offset", pc'[th] = "poll"
               PROVE  LET p == req[th].part IN
                      /\ p \in Partitions /\ pos'[p] # None
                      /\ req[th].from <= pos'[p] /\ pos'[p] <= Len(log'[p])
                      /\ \A q \in Partitions : q # p => pos'[q] = None
                      /\ Whole(th, p, req[th].from, pos[p] - 1)'
    BY DEF OffsetPolled
  <2> DEFINE p == req[th].part
  <2>1. /\ p \in Partitions /\ pos[p] # None
        /\ req[th].from <= pos[p] /\ pos[p] <= Len(log[p])
        /\ \A q \in Partitions : q # p => pos[q] = None
        /\ Whole(th, p, req[th].from, pos[p] - 1)
    BY DEF PageInv, OffsetPolled
  <2>2. /\ pos'[p] # None /\ pos[p] <= pos'[p] /\ pos'[p] <= Len(log'[p])
        /\ pos'[p] = pos[p] \/ pos'[p] <= begin'[p]
    BY <2>1
  <2>3. pos[p] \in Int /\ pos'[p] \in Int /\ req[th].from \in Int
    BY <2>1, <2>2 DEF TypeOK, Request
  <2>4. \A q \in Partitions : q # p => pos'[q] = None
    BY <2>1
  <2>5. Whole(th, p, req[th].from, pos[p] - 1)'
    BY <1>1, <2>1, <2>2, <2>3, WholeReset
  <2> QED BY <2>1, <2>2, <2>3, <2>4, <2>5
<1>5. Polled'
  <2> SUFFICES ASSUME NEW th \in Threads, pc'[th] = "poll", NEW i \in 1..Len(out[th])
               PROVE  Whole(th, out[th][i][1], out[th][i][2], pos[out[th][i][1]] - 1)'
    BY DEF Polled
  <2>8. PICK p, o : p = out[th][i][1] /\ o = out[th][i][2]
    OBVIOUS
  <2>1. p \in Partitions /\ o \in Nat
    BY <1>2, <2>8
  <2>2. pc[th] = "poll"
    OBVIOUS
  <2>3. pos[p] # None /\ pos[p] <= Len(log[p]) /\ Whole(th, p, o, pos[p] - 1)
    BY <2>2, <2>8 DEF BehindReturned, PageInv, Polled
  <2>4. pos'[p] # None /\ (pos'[p] = pos[p] \/ pos'[p] <= begin'[p])
    BY <2>1, <2>3
  <2>5. pos[p] \in Int /\ pos'[p] \in Int
    BY <1>7, <2>1, <2>3, <2>4
  <2>6. begin[p] \in Int /\ begin'[p] \in Int /\ begin[p] <= begin'[p] /\ out'[th] = out[th]
    BY <1>1, <2>1
  <2>7. Whole(th, p, o, pos[p] - 1)'
    BY <2>1, <2>3, <2>4, <2>5, <2>6, WholeReset
  <2> QED BY <2>7, <2>8
<1>6. Pages'
  BY <1>1, <1>2, PageKept DEF Pages, PageInv
<1> QED BY <1>3, <1>4, <1>5, <1>6 DEF PageInv

\* A request that is new or answered has returned nothing yet.
LEMMA FreshPages ==
    ASSUME TypeOK, TypeOK', PageInv, UNCHANGED <<log, begin, pos>>,
           NEW th \in Threads, out'[th] = << >>, pc'[th] # "poll",
           /\ req'[th].kind = "offset" /\ pc'[th] \in {"enter", "assign"} =>
                 req'[th].part \in Partitions /\ req'[th].from <= Len(log[req'[th].part]),
           \A other \in Threads : other # th =>
               pc'[other] = pc[other] /\ req'[other] = req[other] /\ out'[other] = out[other]
    PROVE  PageInv'
<1>1. \A other \in Threads : other # th => Returned(other)' = Returned(other)
  BY DEF Returned
<1>2. ASSUME NEW other \in Threads, other # th, NEW p, NEW a, NEW b
      PROVE  Whole(other, p, a, b)' <=> Whole(other, p, a, b)
  BY <1>1, <1>2 DEF Whole
<1>3. FromInLog'
  BY DEF FromInLog, PageInv
<1>4. OffsetPolled'
  BY <1>2 DEF OffsetPolled, PageInv
<1>5. Polled'
  BY <1>2 DEF Polled, PageInv
<1>6. Pages'
  <2>1. ASSUME NEW other \in Threads, NEW k \in 1..Len(out'[other])
        PROVE  Page(other, k)'
    <3>1. other # th /\ out'[other] = out[other] /\ req'[other] = req[other]
      BY <2>1
    <3>2. out[other][k] \in Partitions \X Nat /\ Page(other, k)
      BY <2>1, <3>1, OutTyped DEF Pages, PageInv
    <3>3. begin[out[other][k][1]] \in Nat
      BY <3>2 DEF TypeOK
    <3>4. begin[out[other][k][1]] <= begin[out[other][k][1]]
      BY <3>3
    <3> QED BY <3>1, <3>2, <3>3, <3>4, PageKept
  <2> QED BY <2>1 DEF Pages
<1> QED BY <1>3, <1>4, <1>5, <1>6 DEF PageInv

\* The seek of a batch by offset: nothing is between its start and its position
\* (assignAndSeek).
LEMMA AssignPages ==
    ASSUME TypeOK, TypeOK', MutualExclusion, EmptyBefore, PageInv,
           NEW th \in Threads, AssignAndSeek(th)
    PROVE  PageInv'
<1> USE DEF AssignAndSeek, topicVars
<1>1. out[th] = << >> /\ pc[th] = "assign" /\ UNCHANGED <<log, begin, out, req>>
  BY DEF EmptyBefore
<1>2. pc'[th] \in {"poll", "done"}
  BY DEF PollOrLeave, Leave, TypeOK
<1>3. ASSUME NEW other \in Threads, other # th
      PROVE  pc'[other] = pc[other] /\ pc'[other] # "poll"
  <2>1. pc[other] \notin Held
    BY <1>1, <1>3, Alone DEF Held
  <2>2. pc'[other] = pc[other]
    BY <1>3 DEF PollOrLeave, Leave, TypeOK
  <2> QED BY <2>1, <2>2 DEF Held
<1>4. ASSUME NEW other, NEW p, NEW a, NEW b
      PROVE  Whole(other, p, a, b)' <=> Whole(other, p, a, b)
  BY <1>1 DEF Whole, Returned
<1>5. FromInLog'
  BY <1>1, <1>2, <1>3 DEF FromInLog, PageInv
<1>6. OffsetPolled'
  <2> SUFFICES ASSUME req[th].kind = "offset"
               PROVE  LET p == req[th].part IN
                      /\ p \in Partitions /\ pos'[p] # None
                      /\ req[th].from <= pos'[p] /\ pos'[p] <= Len(log[p])
                      /\ \A q \in Partitions : q # p => pos'[q] = None
                      /\ Whole(th, p, req[th].from, pos'[p] - 1)
    BY <1>1, <1>3, <1>4 DEF OffsetPolled
  <2>1. PICK p, a : p = req[th].part /\ a = req[th].from
    OBVIOUS
  <2>2. p \in Partitions /\ a \in Nat /\ a <= Len(log[p])
    BY <1>1, <2>1 DEF FromInLog, PageInv, TypeOK, Request
  <2>3. pos'[p] = a /\ \A q \in Partitions : q # p => pos'[q] = None
    BY <2>1, <2>2 DEF Unassigned
  <2>4. a # None /\ a <= a
    BY <2>2, ManualAssumption
  <2>5. Whole(th, p, a, a - 1)
    <3>1. a..(a - 1) = {}
      BY <2>2
    <3> QED BY <3>1 DEF Whole
  <2> QED BY <2>1, <2>2, <2>3, <2>4, <2>5
<1>7. Polled'
  BY <1>1, <1>3 DEF Polled
<1>8. Pages'
  <2>1. ASSUME NEW other \in Threads, NEW k \in 1..Len(out[other])
        PROVE  Page(other, k)'
    <3>1. out[other][k] \in Partitions \X Nat /\ Page(other, k)
      BY OutTyped DEF Pages, PageInv
    <3>2. begin[out[other][k][1]] \in Nat
      BY <3>1 DEF TypeOK
    <3>3. begin[out[other][k][1]] <= begin[out[other][k][1]]
      BY <3>2
    <3> QED BY <1>1, <3>1, <3>2, <3>3, PageKept
  <2> QED BY <1>1, <2>1 DEF Pages
<1> QED BY <1>5, <1>6, <1>7, <1>8 DEF PageInv

\* A step of the request that holds the consumer: it has returned nothing and is no
\* batch by offset, or it is not polling after the step.
LEMMA HolderKeepsPages ==
    ASSUME TypeOK, TypeOK', MutualExclusion, BehindReturned, PageInv,
           UNCHANGED <<out, req, log, begin>>,
           NEW th \in Threads, pc[th] \in Held,
           NEW place, pc' = [pc EXCEPT ![th] = place], place \notin {"enter", "assign"},
           place = "poll" => out[th] = << >> /\ req[th].kind # "offset"
    PROVE  PageInv'
<1>1. ASSUME NEW other \in Threads, other # th
      PROVE  pc'[other] = pc[other] /\ pc'[other] # "poll"
  BY <1>1, Alone DEF TypeOK, Held
<1>2. pc'[th] = place
  BY DEF TypeOK
<1>3. \A p \in Partitions : begin[p] <= begin'[p] /\ Len(log[p]) <= Len(log'[p])
  <2>1. \A p \in Partitions : begin[p] \in Nat /\ Len(log[p]) \in Nat
    BY DEF TypeOK
  <2> QED BY <2>1
<1>4. ASSUME NEW other \in Threads, pc'[other] \in {"enter", "assign"}
      PROVE  req[other].kind # "offset" \/ pc[other] \in {"enter", "assign"}
  BY <1>1, <1>2, <1>4
<1>5. ASSUME NEW other \in Threads, pc'[other] = "poll"
      PROVE  out[other] = << >> /\ req[other].kind # "offset"
  BY <1>1, <1>2, <1>5
<1> QED BY <1>3, <1>4, <1>5, PagesKept

\* Only a batch by timestamp looks for offsets (pollBatchByTimestamp).
SoughtByTime == \A th \in Threads : pc[th] \in {"times", "ends"} => req[th].kind # "offset"

\* What is whole stays so when the answer grows, and the record that is returned
\* makes what ends before it whole up to it.
LEMMA WholeGrown ==
    ASSUME NEW th \in Threads, NEW p \in Partitions, NEW x \in Int,
           out[th] \in Seq(Partitions \X Nat), UNCHANGED begin,
           <<p, x>> \in Partitions \X Nat, out'[th] = Append(out[th], <<p, x>>)
    PROVE  /\ \A q, a, b : Whole(th, q, a, b) => Whole(th, q, a, b)'
           /\ \A a \in Int : Whole(th, p, a, x - 1) => Whole(th, p, a, x)'
<1> DEFINE n == Len(out[th])
<1>1. /\ n \in Nat /\ Len(out'[th]) = n + 1 /\ out'[th][n + 1] = <<p, x>>
      /\ \A i \in 1..n : out'[th][i] = out[th][i]
  OBVIOUS
<1>2. Returned(th) \subseteq Returned(th)'
  <2> SUFFICES ASSUME NEW i \in 1..n
               PROVE  \E j \in 1..Len(out'[th]) : out'[th][j] = out[th][i]
    BY DEF Returned
  <2>1. i \in 1..Len(out'[th]) /\ out'[th][i] = out[th][i]
    BY <1>1
  <2> QED BY <2>1
<1>3. <<p, x>> \in Returned(th)'
  <2>1. n + 1 \in 1..Len(out'[th])
    BY <1>1
  <2> QED BY <1>1, <2>1 DEF Returned
<1>4. \A q, a, b : Whole(th, q, a, b) => Whole(th, q, a, b)'
  BY <1>2 DEF Whole
<1>5. ASSUME NEW a \in Int, Whole(th, p, a, x - 1)
      PROVE  Whole(th, p, a, x)'
  <2> SUFFICES ASSUME NEW o \in a..x
               PROVE  o < begin[p] \/ <<p, o>> \in Returned(th)'
    BY DEF Whole
  <2>1. CASE o = x
    BY <1>3, <2>1
  <2>2. CASE o # x
    <3>1. o \in a..(x - 1)
      BY <2>2
    <3> QED BY <1>2, <1>5, <3>1 DEF Whole
  <2> QED BY <2>1, <2>2
<1> QED BY <1>4, <1>5

\* The poll of a batch that returns a record: it is the next there is (pollBatch,
\* pollBatchByTimestamp).
LEMMA PollPages ==
    ASSUME TypeOK, TypeOK', MutualExclusion, BehindReturned, PageInv,
           NEW th \in Threads, NEW p \in Partitions, PollOne(th, p), req[th].kind # "poll"
    PROVE  PageInv'
<1> USE DEF PollOne, topicVars
<1>1. PICK x, n : x = pos[p] /\ n = Len(out[th])
  OBVIOUS
<1>2. x \in Nat /\ x # None /\ Len(log[p]) \in Nat /\ x < Len(log[p]) /\ pc[th] = "poll"
  BY <1>1 DEF TypeOK
<1>3. pos'[p] = x + 1 /\ \A q \in Partitions : q # p => pos'[q] = pos[q]
  BY <1>1 DEF TypeOK
<1>4. UNCHANGED <<log, begin, req>>
  OBVIOUS
<1>5. ASSUME NEW other \in Threads, other # th
      PROVE  pc'[other] = pc[other] /\ pc'[other] # "poll" /\ out'[other] = out[other]
  <2>1. pc[other] \notin Held
    BY <1>2, <1>5, Alone DEF Held
  <2>2. pc'[other] = pc[other]
    BY <1>5 DEF TypeOK, Leave, PollOrLeave
  <2> QED BY <1>5, <2>1, <2>2 DEF TypeOK, Held
<1>6. pc'[th] \in {"poll", "done"}
  BY DEF TypeOK, Leave, PollOrLeave
<1>7. out[th] \in Seq(Partitions \X Nat) /\ out'[th] = Append(out[th], <<p, x>>)
  BY <1>1 DEF TypeOK
<1>8. <<p, x>> \in Partitions \X Nat
  BY <1>2
<1>9. \A q, a, b : Whole(th, q, a, b) => Whole(th, q, a, b)'
  <2>1. x \in Int /\ begin' = begin
    BY <1>2
  <2> SUFFICES ASSUME NEW q, NEW a, NEW b, Whole(th, q, a, b)
               PROVE  Whole(th, q, a, b)'
    OBVIOUS
  <2> HIDE DEF PollOne, topicVars
  <2> QED BY <1>7, <1>8, <2>1, WholeGrown
<1>10. \A a \in Int : Whole(th, p, a, x - 1) => Whole(th, p, a, x)'
  BY <1>2, <1>4, <1>7, <1>8, WholeGrown
<1>11. Whole(th, p, x, x)'
  <2>1. Whole(th, p, x, x - 1)
    <3>1. x..(x - 1) = {}
      BY <1>2
    <3> QED BY <3>1 DEF Whole
  <2> QED BY <1>2, <1>10, <2>1
<1>12. /\ n \in Nat /\ Len(out'[th]) = n + 1 /\ out'[th][n + 1] = <<p, x>>
       /\ \A i \in 1..n : out'[th][i] = out[th][i] /\ out[th][i] \in Partitions \X Nat
  BY <1>1, <1>7, <1>8
<1>13. \A i \in 1..n : out[th][i][1] = p => Whole(th, p, out[th][i][2], x)'
  <2> SUFFICES ASSUME NEW i \in 1..n, out[th][i][1] = p
               PROVE  Whole(th, p, out[th][i][2], x)'
    OBVIOUS
  <2>1. PICK o : o = out[th][i][2]
    OBVIOUS
  <2>2. Whole(th, p, o, x - 1) /\ o \in Int
    BY <1>1, <1>2, <1>12, <2>1 DEF PageInv, Polled
  <2>3. Whole(th, p, o, x)'
    BY <1>10, <2>2
  <2>4. out'[th][i] = out[th][i]
    BY <1>12
  <2> QED BY <2>1, <2>3, <2>4
<1>14. ASSUME req[th].kind = "offset"
       PROVE  /\ p = req[th].part /\ req[th].from \in Int /\ req[th].from <= x
              /\ \A q \in Partitions : q # p => pos[q] = None
              /\ Whole(th, p, req[th].from, x)'
  <2>1. /\ req[th].part \in Partitions /\ req[th].from <= pos[req[th].part]
        /\ \A q \in Partitions : q # req[th].part => pos[q] = None
        /\ Whole(th, req[th].part, req[th].from, pos[req[th].part] - 1)
    BY <1>2, <1>14 DEF PageInv, OffsetPolled
  <2>2. p = req[th].part
    BY <1>1, <1>2, <2>1
  <2>3. PICK a : a = req[th].from
    OBVIOUS
  <2>4. a \in Int
    BY <2>3 DEF TypeOK, Request
  <2>5. Whole(th, p, a, x - 1)
    BY <1>1, <2>1, <2>2, <2>3
  <2>6. Whole(th, p, a, x)'
    BY <1>10, <2>4, <2>5
  <2> QED BY <1>1, <1>4, <2>1, <2>2, <2>3, <2>4, <2>6
<1>15. FromInLog'
  BY <1>4, <1>5, <1>6 DEF FromInLog, PageInv
<1>16. OffsetPolled'
  <2> SUFFICES ASSUME req[th].kind = "offset"
               PROVE  LET r == req'[th].part IN
                      /\ r \in Partitions /\ pos'[r] # None
                      /\ req'[th].from <= pos'[r] /\ pos'[r] <= Len(log'[r])
                      /\ \A q \in Partitions : q # r => pos'[q] = None
                      /\ Whole(th, req[th].part, req[th].from, pos[req[th].part] - 1)'
    BY <1>4, <1>5 DEF OffsetPolled
  <2>1. pos'[p] # None
    BY <1>2, <1>3, ManualAssumption
  <2>2. p = req[th].part /\ req'[th] = req[th] /\ log' = log
    BY <1>4, <1>14
  <2>3. req[th].from <= pos'[p] /\ pos'[p] <= Len(log[p])
    BY <1>2, <1>3, <1>14
  <2>4. \A q \in Partitions : q # p => pos'[q] = None
    BY <1>3, <1>14
  <2>5. Whole(th, req[th].part, req[th].from, pos[req[th].part] - 1)'
    <3>1. PICK a : a = req[th].from
      OBVIOUS
    <3>2. Whole(th, p, a, x)'
      BY <1>14, <3>1
    <3>3. pos'[p] - 1 = x /\ req'[th].part = p /\ req'[th].from = a
      BY <1>2, <1>3, <2>2, <3>1
    <3> QED BY <3>2, <3>3
  <2> QED BY <2>1, <2>2, <2>3, <2>4, <2>5
<1>17. Polled'
  <2> SUFFICES ASSUME NEW i \in 1..(n + 1)
               PROVE  Whole(th, out[th][i][1], out[th][i][2], pos[out[th][i][1]] - 1)'
    BY <1>5, <1>12 DEF Polled
  <2>1. PICK q, o : q = out'[th][i][1] /\ o = out'[th][i][2]
    OBVIOUS
  <2>2. pos'[p] - 1 = x
    BY <1>2, <1>3
  <2>3. Whole(th, q, o, pos[q] - 1)'
    <3>1. CASE i = n + 1
      BY <1>11, <1>12, <2>1, <2>2, <3>1
    <3>2. CASE i # n + 1
      <4>1. i \in 1..n
        BY <1>12, <3>2
      <4>2. q = out[th][i][1] /\ o = out[th][i][2] /\ q \in Partitions
        BY <1>12, <2>1, <4>1
      <4>3. CASE q = p
        <5>1. Whole(th, p, o, x)'
          <6>1. Whole(th, p, out[th][i][2], x)'
            BY <1>13, <4>1, <4>2, <4>3
          <6> QED BY <2>1, <6>1
        <5> QED BY <2>2, <4>3, <5>1
      <4>4. CASE q # p
        <5>1. PICK b : b = pos[q] - 1
          OBVIOUS
        <5>2. Whole(th, q, o, b)
          BY <1>1, <1>2, <4>1, <4>2, <5>1 DEF PageInv, Polled
        <5>3. Whole(th, q, o, b)' /\ pos'[q] - 1 = b
          BY <1>3, <1>9, <4>2, <4>4, <5>1, <5>2
        <5> QED BY <5>3
      <4> QED BY <4>3, <4>4
    <3> QED BY <3>1, <3>2
  <2> QED BY <2>1, <2>3
<1>18. Pages'
  <2>1. ASSUME NEW other \in Threads, other # th, NEW k \in 1..Len(out'[other])
        PROVE  Page(other, k)'
    <3>1. out'[other] = out[other] /\ req'[other] = req[other]
      BY <1>4, <1>5, <2>1
    <3>2. out[other][k] \in Partitions \X Nat /\ Page(other, k)
      BY <2>1, <3>1, OutTyped DEF Pages, PageInv
    <3>3. begin[out[other][k][1]] \in Nat
      BY <3>2 DEF TypeOK
    <3>4. begin[out[other][k][1]] <= begin[out[other][k][1]]
      BY <3>3
    <3> QED BY <1>4, <3>1, <3>2, <3>3, <3>4, PageKept
  <2>2. ASSUME NEW i \in 1..n
        PROVE  Page(th, i)'
    <3>1. PICK q, o : q = out[th][i][1] /\ o = out[th][i][2]
      OBVIOUS
    <3>2. /\ req[th].kind = "offset" =>
                q = req[th].part /\ req[th].from <= o /\ Whole(th, q, req[th].from, o)
          /\ \A k \in 1..i : out[th][k][1] = q => Whole(th, q, out[th][k][2], o)
      BY <1>1, <3>1 DEF PageInv, Pages, Page
    <3>3. out'[th][i] = out[th][i] /\ \A k \in 1..i : out'[th][k] = out[th][k]
      BY <1>12
    <3>4. \A a : Whole(th, q, a, o) => Whole(th, q, a, o)'
      BY <1>9
    <3> QED BY <1>4, <3>1, <3>2, <3>3, <3>4 DEF Page
  <2>3. Page(th, n + 1)'
    <3>1. out'[th][n + 1][1] = p /\ out'[th][n + 1][2] = x
      BY <1>12
    <3>2. \A k \in 1..(n + 1) : out'[th][k][1] = p => Whole(th, p, out[th][k][2], x)'
      <4> SUFFICES ASSUME NEW k \in 1..(n + 1), out'[th][k][1] = p
                   PROVE  Whole(th, p, out[th][k][2], x)'
        OBVIOUS
      <4>1. CASE k = n + 1
        <5>1. out'[th][k][2] = x
          BY <3>1, <4>1
        <5> QED BY <1>11, <5>1
      <4>2. CASE k # n + 1
        <5>1. k \in 1..n
          BY <1>12, <4>2
        <5>2. out[th][k][1] = p
          BY <1>12, <5>1
        <5> QED BY <1>13, <5>1, <5>2
      <4> QED BY <4>1, <4>2
    <3>3. req[th].kind = "offset" =>
             p = req'[th].part /\ req'[th].from <= x /\ Whole(th, p, req[th].from, x)'
      BY <1>4, <1>14
    <3> QED BY <1>4, <3>1, <3>2, <3>3 DEF Page
  <2>4. \A i \in 1..(n + 1) : i \in 1..n \/ i = n + 1
    BY <1>12
  <2> QED BY <1>12, <2>1, <2>2, <2>3, <2>4 DEF Pages
<1> QED BY <1>15, <1>16, <1>17, <1>18 DEF PageInv

\* A single poll is done with the record it was asked for, or none (poll).
LEMMA SinglePages ==
    ASSUME TypeOK, TypeOK', MutualExclusion, PageInv,
           NEW th \in Threads, NEW p \in Partitions, PollOne(th, p), req[th].kind = "poll"
    PROVE  PageInv'
<1> USE DEF PollOne, topicVars
<1>1. UNCHANGED <<log, begin, req>> /\ pc[th] = "poll"
  OBVIOUS
<1>2. pc'[th] = "done"
  BY DEF TypeOK, Leave
<1>3. ASSUME NEW other \in Threads, other # th
      PROVE  pc'[other] = pc[other] /\ pc'[other] # "poll" /\ out'[other] = out[other]
  <2>1. pc[other] \notin Held
    BY <1>1, <1>3, Alone DEF Held
  <2>2. pc'[other] = pc[other]
    BY <1>3 DEF TypeOK, Leave
  <2> QED BY <1>3, <2>1, <2>2 DEF TypeOK, Held
<1>4. FromInLog'
  BY <1>1, <1>2, <1>3 DEF FromInLog, PageInv
<1>5. OffsetPolled' /\ Polled'
  BY <1>2, <1>3 DEF OffsetPolled, Polled
<1>6. Pages'
  <2>1. ASSUME NEW other \in Threads, other # th, NEW k \in 1..Len(out'[other])
        PROVE  Page(other, k)'
    <3>1. out'[other] = out[other] /\ req'[other] = req[other]
      BY <1>1, <1>3, <2>1
    <3>2. out[other][k] \in Partitions \X Nat /\ Page(other, k)
      BY <2>1, <3>1, OutTyped DEF Pages, PageInv
    <3>3. begin[out[other][k][1]] \in Nat
      BY <3>2 DEF TypeOK
    <3>4. begin[out[other][k][1]] <= begin[out[other][k][1]]
      BY <3>3
    <3> QED BY <1>1, <3>1, <3>2, <3>3, <3>4, PageKept
  <2>2. PICK x : x = pos[p]
    OBVIOUS
  <2>3. x \in Nat
    BY <2>2 DEF TypeOK
  <2>4. out'[th] = << >> \/ out'[th] = <<<<p, x>>>>
    BY <2>2 DEF TypeOK
  <2>5. CASE out'[th] = << >>
    BY <2>1, <2>5 DEF Pages
  <2>6. CASE out'[th] = <<<<p, x>>>>
    <3>1. Len(out'[th]) = 1 /\ out'[th][1] = <<p, x>>
      BY <2>6
    <3>2. <<p, x>> \in Returned(th)'
      BY <3>1 DEF Returned
    <3>3. x..x = {x}
      BY <2>3
    <3>4. Whole(th, p, x, x)'
      BY <3>2, <3>3 DEF Whole
    <3>5. \A k \in 1..1 : out'[th][k][2] = x
      BY <3>1
    <3>6. Page(th, 1)'
      <4>1. req'[th].kind # "offset"
        BY <1>1
      <4> QED BY <3>1, <3>4, <3>5, <4>1 DEF Page
    <3>7. \A k \in 1..1 : k = 1
      OBVIOUS
    <3> QED BY <2>1, <3>1, <3>6, <3>7 DEF Pages
  <2> QED BY <2>4, <2>5, <2>6
<1> QED BY <1>4, <1>5, <1>6 DEF PageInv

------------------------------------------------------------------------------

\* A request for offsets that are there (KafkaOpsController hands them on unchecked;
\* what is asked for beyond the end is excluded by ~BeyondEnd).
LEMMA AskPages ==
    ASSUME ~BeyondEnd, TypeOK, TypeOK', EmptyBefore, PageInv,
           NEW th \in Threads, NewRequest(th)
    PROVE  PageInv'
<1>1. ASSUME NEW r, Ask(th, r),
             r.kind = "offset" => r.part \in Partitions /\ r.from <= Len(log[r.part])
      PROVE  PageInv'
  <2> USE DEF Ask, topicVars
  <2>1. out'[th] = << >> /\ pc'[th] = "enter" /\ req'[th] = r
    BY <1>1 DEF EmptyBefore, TypeOK
  <2>2. UNCHANGED <<log, begin, pos>>
    BY <1>1
  <2>3. \A other \in Threads : other # th =>
            pc'[other] = pc[other] /\ req'[other] = req[other] /\ out'[other] = out[other]
    BY <1>1 DEF TypeOK
  <2>4. req'[th].kind = "offset" =>
            req'[th].part \in Partitions /\ req'[th].from <= Len(log'[req'[th].part])
    BY <1>1, <2>1, <2>2
  <2> HIDE DEF Ask, topicVars
  <2> QED BY <2>1, <2>2, <2>3, <2>4, FreshPages
<1>2. CASE AskPoll(th)
  BY <1>1, <1>2 DEF AskPoll
<1>3. CASE AskBatch(th)
  <2>1. PICK n \in Limits :
          \/ \E p \in Partitions : \E o \in OffsetsToAsk(p) :
                Ask(th, [kind |-> "offset", part |-> p, from |-> o,
                         limit |-> CappedLimit(n)])
          \/ \E t \in 1..MaxTime :
                Ask(th, [kind |-> "time", part |-> None, from |-> t,
                         limit |-> CappedLimit(n)])
    BY <1>3 DEF AskBatch
  <2>2. ASSUME NEW p \in Partitions, NEW o \in OffsetsToAsk(p),
               Ask(th, [kind |-> "offset", part |-> p, from |-> o, limit |-> CappedLimit(n)])
        PROVE  PageInv'
    <3>1. o <= Len(log[p])
      BY <2>2 DEF OffsetsToAsk, TypeOK
    <3> QED BY <1>1, <2>2, <3>1
  <2> QED BY <1>1, <2>1, <2>2
<1>4. CASE AskInfo(th)
  BY <1>1, <1>4 DEF AskInfo, NoRequest
<1> QED BY <1>2, <1>3, <1>4 DEF NewRequest

\* Every step keeps the pages.
LEMMA PageStep ==
    ASSUME ~BeyondEnd, Reset = "earliest", TypeOK, TypeOK', MutualExclusion, AnswerInv,
           SoughtByTime, PageInv, [Next]_vars
    PROVE  PageInv'
<1> USE DEF topicVars
<1>0. EmptyBefore /\ BehindReturned /\ BeginInLog
  BY DEF AnswerInv
<1>1. \A p \in Partitions : begin[p] \in Nat /\ Len(log[p]) \in Nat
  BY DEF TypeOK
<1>2. \A p \in Partitions :
          begin[p] <= begin[p] /\ Len(log[p]) <= Len(log[p]) /\ (pos[p] # None => pos[p] <= pos[p])
  BY <1>1 DEF TypeOK
<1>3. ASSUME NEW p \in Partitions, Produce(p)
      PROVE  PageInv'
  <2>3. \A q \in Partitions : Len(log[q]) <= Len(log'[q]) /\ Len(log'[q]) \in Nat
    BY <1>3, LogGrows
  <2>4. \A q \in Partitions : pos[q] # None /\ pos[q] <= Len(log[q]) => pos[q] <= Len(log'[q])
    BY <1>1, <2>3 DEF TypeOK
  <2>5. UNCHANGED <<begin, pos, pc, req, out>>
    BY <1>3 DEF Produce
  <2> QED BY <1>0, <1>2, <2>3, <2>4, <2>5, PagesKept
<1>4. ASSUME NEW p \in Partitions, Expire(p)
      PROVE  PageInv'
  <2>1. UNCHANGED <<log, pos, pc, req, out>> /\ \A q \in Partitions : begin[q] <= begin'[q]
    BY <1>1, <1>4 DEF Expire, TypeOK
  <2> QED BY <1>0, <1>2, <2>1, PagesKept
<1>5. CASE Destroy \/ UNCHANGED vars
  <2>1. UNCHANGED <<log, begin, pos, pc, req, out>>
    BY <1>5 DEF Destroy, vars
  <2> QED BY <1>0, <1>2, <2>1, PagesKept
<1>6. ASSUME NEW th \in Threads, Answer(th)
      PROVE  PageInv'
  <2>1. out'[th] = << >> /\ pc'[th] = "idle" /\ UNCHANGED <<log, begin, pos>>
    BY <1>6 DEF Answer, TypeOK
  <2>2. \A other \in Threads : other # th =>
            pc'[other] = pc[other] /\ req'[other] = req[other] /\ out'[other] = out[other]
    BY <1>6 DEF Answer, TypeOK
  <2> QED BY <2>1, <2>2, FreshPages
<1>7. ASSUME NEW th \in Threads, Enter(th)
      PROVE  PageInv'
  <2>1. UNCHANGED <<log, begin, pos, req, out>>
    BY <1>7 DEF Enter
  <2>2. \A other \in Threads : other # th => pc'[other] = pc[other]
    BY <1>7 DEF Enter, TypeOK
  <2>3. pc[th] = "enter" /\ pc'[th] # "poll"
    BY <1>7 DEF Enter, FirstStep, TypeOK
  <2> QED BY <1>0, <1>2, <2>1, <2>2, <2>3, PagesKept
<1>8. ASSUME NEW th \in Threads, AllSought(th)
      PROVE  PageInv'
  <2>1. UNCHANGED <<log, begin, req, out>> /\ pc[th] = "ends"
    BY <1>8 DEF AllSought
  <2>2. out[th] = << >> /\ req[th].kind # "offset"
    BY <1>0, <2>1 DEF EmptyBefore, SoughtByTime
  <2>3. PICK place \in {"poll", "done"} : pc' = [pc EXCEPT ![th] = place]
    BY <1>8 DEF AllSought, PollOrLeave, Leave
  <2> QED BY <1>0, <2>1, <2>2, <2>3, HolderKeepsPages DEF Held
<1>9. ASSUME NEW th \in Threads,
             \/ SeekRefused(th) \/ SeekToTimes(th) \/ PollNone(th) \/ EndOffsets(th)
             \/ BeginningOffsets(th) \/ ClosedThrows(th) \/ BrokerFails(th)
      PROVE  PageInv'
  <2> USE <1>9 DEF SeekRefused, SeekToTimes, PollNone, EndOffsets, BeginningOffsets,
                  ClosedThrows, BrokerFails, Throws, Leave
  <2>1. UNCHANGED <<log, begin, req, out>>
    OBVIOUS
  <2>2. pc[th] \in Held
    BY DEF Held
  <2>3. PICK place \in {"ends", "done", "begins", "failed"} : pc' = [pc EXCEPT ![th] = place]
    OBVIOUS
  <2> HIDE <1>9 DEF SeekRefused, SeekToTimes, PollNone, EndOffsets, BeginningOffsets,
                   ClosedThrows, BrokerFails, Throws, Leave
  <2> QED BY <1>0, <2>1, <2>2, <2>3, HolderKeepsPages
<1>10. ASSUME NEW th \in Threads, NEW p \in Partitions, SeekToEnd(th, p)
       PROVE  PageInv'
  <2>1. UNCHANGED <<log, begin, req, out>> /\ pc[th] = "ends"
    BY <1>10 DEF SeekToEnd
  <2>2. pc' = [pc EXCEPT ![th] = "ends"]
    BY <1>10, <2>1 DEF SeekToEnd, TypeOK
  <2> QED BY <1>0, <2>1, <2>2, HolderKeepsPages DEF Held
<1>11. ASSUME NEW th \in Threads, NEW p \in Partitions, ResetPosition(th, p)
       PROVE  PageInv'
  <2>1. UNCHANGED <<log, begin, pc, req, out>>
    BY <1>11 DEF ResetPosition
  <2>2. pos'[p] = begin[p] /\ \A q \in Partitions : q # p => pos'[q] = pos[q]
    BY <1>11 DEF ResetPosition, TypeOK
  <2>3. begin[p] <= Len(log[p]) /\ begin[p] # None
    BY <1>0, <1>1, ManualAssumption DEF BeginInLog
  <2>4. pos[p] # None /\ pos[p] \in Nat /\ (pos[p] < begin[p] \/ pos[p] > Len(log[p]))
    BY <1>1, <1>11 DEF ResetPosition, InRange, TypeOK
  <2>5. pos[p] <= Len(log[p]) => pos[p] <= begin[p]
    BY <1>1, <2>4
  <2>6. ASSUME NEW q \in Partitions
        PROVE  /\ pos[q] = None => pos'[q] = None
               /\ pos[q] # None /\ pos[q] <= Len(log[q]) =>
                     /\ pos'[q] # None /\ pos[q] <= pos'[q]
                     /\ pos'[q] <= Len(log'[q])
                     /\ (pos'[q] = pos[q] \/ pos'[q] <= begin'[q])
    <3>1. CASE q = p
      BY <1>2, <2>1, <2>2, <2>3, <2>4, <2>5, <3>1
    <3>2. CASE q # p
      BY <1>2, <2>1, <2>2, <3>2
    <3> QED BY <3>1, <3>2
  <2> QED BY <1>0, <1>2, <2>1, <2>6, PagesKept
<1>12. ASSUME NEW th \in Threads, NEW p \in Partitions, PollOne(th, p)
       PROVE  PageInv'
  BY <1>0, <1>12, PollPages, SinglePages
<1>13. ASSUME NEW th \in Threads, Step(th)
       PROVE  PageInv'
  BY <1>0, <1>6, <1>7, <1>8, <1>9, <1>10, <1>12, <1>13, AssignPages DEF Step
<1>14. ASSUME NEW th \in Threads, NewRequest(th)
       PROVE  PageInv'
  BY <1>0, <1>14, AskPages
<1> QED BY <1>3, <1>4, <1>5, <1>9, <1>11, <1>13, <1>14 DEF Next, Topic

\* Only a batch by timestamp looks for offsets.
LEMMA SoughtByTimeAlways == Spec => []SoughtByTime
<1>1. Init => SoughtByTime
  BY DEF Init, SoughtByTime
<1>2. TypeOK /\ SoughtByTime /\ [Next]_vars => SoughtByTime'
  <2> SUFFICES ASSUME TypeOK, SoughtByTime, [Next]_vars PROVE SoughtByTime'
    OBVIOUS
  <2> USE DEF SoughtByTime, TypeOK
  <2>1. ASSUME UNCHANGED <<pc, req>>
        PROVE  SoughtByTime'
    BY <2>1
  <2>2. ASSUME NEW th \in Threads, NEW place, pc' = [pc EXCEPT ![th] = place],
               UNCHANGED req, place \in {"times", "ends"} => req[th].kind # "offset"
        PROVE  SoughtByTime'
    BY <2>2
  <2>3. ASSUME NEW th \in Threads, NewRequest(th) \/ Answer(th)
        PROVE  SoughtByTime'
    BY <2>3 DEF NewRequest, AskPoll, AskBatch, AskInfo, Ask, Answer
  <2>4. ASSUME NEW th \in Threads, Enter(th) \/ SeekToTimes(th)
        PROVE  SoughtByTime'
    BY <2>4 DEF Enter, FirstStep, SeekToTimes
  <2>5. ASSUME NEW th \in Threads,
               \/ AssignAndSeek(th) \/ SeekRefused(th) \/ AllSought(th)
               \/ PollNone(th) \/ EndOffsets(th)
               \/ BeginningOffsets(th) \/ ClosedThrows(th) \/ BrokerFails(th)
               \/ \E p \in Partitions : PollOne(th, p)
        PROVE  SoughtByTime'
    BY <2>2, <2>5 DEF AssignAndSeek, SeekRefused, AllSought, PollOne, PollNone, EndOffsets,
           BeginningOffsets, ClosedThrows, BrokerFails, Throws, Leave, PollOrLeave
  <2>6. ASSUME NEW th \in Threads, NEW p \in Partitions,
               SeekToEnd(th, p) \/ ResetPosition(th, p)
        PROVE  SoughtByTime'
    BY <2>1, <2>6 DEF SeekToEnd, ResetPosition
  <2>7. CASE Topic \/ Destroy \/ UNCHANGED vars
    BY <2>1, <2>7 DEF Topic, Produce, Expire, Destroy, vars
  <2>8. ASSUME NEW th \in Threads, Step(th)
        PROVE  SoughtByTime'
    BY <2>3, <2>4, <2>5, <2>6, <2>8 DEF Step
  <2> QED BY <2>3, <2>5, <2>6, <2>7, <2>8 DEF Next
<1> QED BY <1>1, <1>2, TypeCorrect, PTL DEF Spec

\* The pages are an invariant.
LEMMA PagesRight == ~BeyondEnd /\ Reset = "earliest" => (Spec => []PageInv)
<1> SUFFICES ASSUME ~BeyondEnd, Reset = "earliest"
             PROVE  Spec => []PageInv
  OBVIOUS
<1>1. Init => PageInv
  <2>1. Init => \A th \in Threads : out[th] = << >> /\ pc[th] = "idle"
    BY DEF Init
  <2> QED BY <2>1 DEF PageInv, FromInLog, OffsetPolled, Polled, Pages
<1>2. TypeOK /\ TypeOK' /\ MutualExclusion /\ AnswerInv /\ SoughtByTime /\ PageInv
          /\ [Next]_vars => PageInv'
  BY PageStep
<1> QED
  BY <1>1, <1>2, TypeCorrect, MutualExclusionAlways, AnswersRight, SoughtByTimeAlways,
     PTL DEF Spec

\* A page of a batch leaves out only what retention has deleted, so a page that starts
\* at the last offset + 1 continues the one before it (pollBatch, pollBatchByTimestamp).
THEOREM BatchContiguousAlways == Spec => []BatchContiguous
<1>1. CASE ~BeyondEnd /\ Reset = "earliest"
  <2>1. PageInv => BatchContiguous
    BY DEF PageInv, Pages, Page, BatchContiguous
  <2> QED BY <1>1, <2>1, PagesRight, PTL
<1>2. CASE ~(~BeyondEnd /\ Reset = "earliest")
  <2>1. BatchContiguous
    BY <1>2 DEF BatchContiguous
  <2> QED BY <2>1, PTL
<1> QED BY <1>1, <1>2

==============================================================================
