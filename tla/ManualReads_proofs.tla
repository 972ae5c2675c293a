-------------------------- MODULE ManualReads_proofs --------------------------
(***************************************************************************)
(* The shared consumer of ManualConsumer answers as if every request read  *)
(* the log by itself, for any threads, partitions, limits and bounds: what *)
(* a batch by timestamp leaves out, and that every step is one of LogReads *)
(* or none.                                                                *)
(***************************************************************************)
EXTENDS ManualConsumer_proofs, WellFoundedInduction

------------------------------------------------------------------------------
(* Which request is at which call. *)

\* Only a poll and a batch by offset assign one partition, only a batch by timestamp looks
\* for offsets, and the topic info is not polled for.
Places ==
    \A th \in Threads :
        /\ pc[th] = "assign" => req[th].kind \in {"poll", "offset"}
        /\ pc[th] \in {"times", "ends"} => req[th].kind = "time"
        /\ pc[th] = "poll" => req[th].kind # "info"

\* A request polls for as long as there is room in its answer.
WithinLimit ==
    \A th \in Threads :
        /\ req[th].kind = "poll" => req[th].limit = 1
        /\ pc[th] = "poll" => Len(out[th]) < req[th].limit

\* A poll and a batch by offset have one partition assigned.
OneAssigned ==
    \A th \in Threads :
        pc[th] = "poll" /\ req[th].kind \in {"poll", "offset"} =>
            \A q \in Partitions : q # req[th].part => pos[q] = None

PlaceInv == Places /\ WithinLimit /\ OneAssigned

\* A step that keeps the requests and their answers, and lets a request poll only when it
\* did so before, assigning no more partitions.
LEMMA PlacesKept ==
    ASSUME PlaceInv, UNCHANGED <<req, out>>,
           \A th \in Threads :
               \/ pc'[th] \notin {"assign", "times", "ends", "poll"}
               \/ /\ pc'[th] = pc[th]
                  /\ pc[th] = "poll" => \A q \in Partitions : pos[q] = None => pos'[q] = None
    PROVE  PlaceInv'
<1>1. Places'
  BY DEF PlaceInv, Places
<1>2. WithinLimit'
  BY DEF PlaceInv, WithinLimit
<1>3. OneAssigned'
  BY DEF PlaceInv, OneAssigned
<1> QED BY <1>1, <1>2, <1>3 DEF PlaceInv

\* A step that changes one request alone, which is not at these calls after it.
LEMMA PlacesFresh ==
    ASSUME PlaceInv, UNCHANGED pos, NEW th \in Threads,
           pc'[th] \notin {"assign", "times", "ends", "poll"},
           req'[th].kind = "poll" => req'[th].limit = 1,
           \A other \in Threads : other # th =>
               pc'[other] = pc[other] /\ req'[other] = req[other] /\ out'[other] = out[other]
    PROVE  PlaceInv'
<1>1. Places'
  BY DEF PlaceInv, Places
<1>2. WithinLimit'
  BY DEF PlaceInv, WithinLimit
<1>3. OneAssigned'
  BY DEF PlaceInv, OneAssigned
<1> QED BY <1>1, <1>2, <1>3 DEF PlaceInv

\* A step of the request that holds the consumer: it stays within its limit and assigns
\* no more than its partition, if that is all it asks for.
LEMMA PlacesHeld ==
    ASSUME TypeOK, MutualExclusion, PlaceInv, UNCHANGED req,
           NEW th \in Threads, pc[th] \in Held,
           \A other \in Threads : other # th => pc'[other] = pc[other],
           pc'[th] \in {"ends", "poll", "done", "failed", "begins"},
           pc'[th] = "ends" => req[th].kind = "time",
           pc'[th] = "poll" => req[th].kind # "info" /\ Len(out'[th]) < req[th].limit,
           pc'[th] = "poll" /\ req[th].kind \in {"poll", "offset"} =>
               \A q \in Partitions : q # req[th].part => pos'[q] = None
    PROVE  PlaceInv'
<1>1. ASSUME NEW other \in Threads, other # th
      PROVE  pc'[other] = pc[other] /\ pc[other] \notin Held
  BY <1>1, Alone
<1>2. Places'
  BY <1>1 DEF PlaceInv, Places, Held
<1>3. WithinLimit'
  BY <1>1 DEF PlaceInv, WithinLimit, Held
<1>4. OneAssigned'
  BY <1>1 DEF PlaceInv, OneAssigned, Held
<1> QED BY <1>2, <1>3, <1>4 DEF PlaceInv

\* Every step keeps requests at their places.
LEMMA PlaceStep ==
    ASSUME TypeOK, TypeOK', MutualExclusion, EmptyBefore, PlaceInv, [Next]_vars
    PROVE  PlaceInv'
<1>1. CASE Topic \/ Destroy \/ UNCHANGED vars
  BY <1>1, PlacesKept DEF Topic, Produce, Expire, Destroy, vars
<1>2. ASSUME NEW th \in Threads, NEW r, Ask(th, r), r.kind = "poll" => r.limit = 1
      PROVE  PlaceInv'
  <2>1. pc'[th] = "enter" /\ req'[th] = r /\ UNCHANGED <<pos, out>>
    BY <1>2 DEF Ask, TypeOK
  <2>2. \A other \in Threads : other # th => pc'[other] = pc[other] /\ req'[other] = req[other]
    BY <1>2 DEF Ask, TypeOK
  <2> QED BY <1>2, <2>1, <2>2, PlacesFresh
<1>3. ASSUME NEW th \in Threads, NewRequest(th)
      PROVE  PlaceInv'
  BY <1>2, <1>3 DEF NewRequest, AskPoll, AskBatch, AskInfo, NoRequest
<1>4. ASSUME NEW th \in Threads, Answer(th)
      PROVE  PlaceInv'
  <2>1. pc'[th] = "idle" /\ req'[th] = NoRequest /\ UNCHANGED pos
    BY <1>4 DEF Answer, TypeOK
  <2>2. \A other \in Threads : other # th =>
            pc'[other] = pc[other] /\ req'[other] = req[other] /\ out'[other] = out[other]
    BY <1>4 DEF Answer, TypeOK
  <2> QED BY <2>1, <2>2, PlacesFresh DEF NoRequest
<1>5. ASSUME NEW th \in Threads, Enter(th)
      PROVE  PlaceInv'
  <2>1. UNCHANGED <<pos, req, out>> /\ pc'[th] = FirstStep(req[th].kind)
    BY <1>5 DEF Enter, TypeOK
  <2>2. \A other \in Threads : other # th => pc'[other] = pc[other]
    BY <1>5 DEF Enter, TypeOK
  <2>3. req[th].kind \in {"poll", "offset", "time", "info"}
    BY DEF TypeOK, Request
  <2>4. Places'
    BY <2>1, <2>2, <2>3 DEF PlaceInv, Places, FirstStep
  <2>5. pc'[th] # "poll"
    BY <2>1, <2>3 DEF FirstStep
  <2>6. WithinLimit' /\ OneAssigned'
    BY <2>1, <2>2, <2>5 DEF PlaceInv, WithinLimit, OneAssigned
  <2> QED BY <2>4, <2>6 DEF PlaceInv
<1>6. ASSUME NEW th \in Threads, NEW n, PollOrLeave(th, n)
      PROVE  /\ pc'[th] \in {"poll", "done"}
             /\ pc'[th] = "poll" => n < req[th].limit
             /\ \A other \in Threads : other # th => pc'[other] = pc[other]
  BY <1>6 DEF PollOrLeave, Leave, TypeOK
<1>7. ASSUME NEW th \in Threads, AssignAndSeek(th)
      PROVE  PlaceInv'
  <2>1. /\ pc[th] = "assign" /\ PollOrLeave(th, 0) /\ UNCHANGED <<req, out>>
        /\ pos' = [Unassigned EXCEPT ![req[th].part] = req[th].from]
    BY <1>7 DEF AssignAndSeek
  <2>2. Len(out'[th]) = 0 /\ req[th].kind # "info"
    BY <2>1 DEF EmptyBefore, PlaceInv, Places
  <2>3. \A q \in Partitions : q # req[th].part => pos'[q] = None
    BY <2>1 DEF Unassigned
  <2> QED BY <1>6, <2>1, <2>2, <2>3, PlacesHeld DEF Held
<1>8. ASSUME NEW th \in Threads, AllSought(th)
      PROVE  PlaceInv'
  <2>1. pc[th] = "ends" /\ PollOrLeave(th, 0) /\ UNCHANGED <<req, out>>
    BY <1>8 DEF AllSought
  <2>2. Len(out'[th]) = 0 /\ req[th].kind = "time"
    BY <2>1 DEF EmptyBefore, PlaceInv, Places
  <2> QED BY <1>6, <2>1, <2>2, PlacesHeld DEF Held
<1>9. ASSUME NEW th \in Threads, NEW p \in Partitions, PollOne(th, p)
      PROVE  PlaceInv'
  <2>1. pc[th] = "poll" /\ UNCHANGED req
    BY <1>9 DEF PollOne
  <2>2. CASE req[th].kind = "poll"
    <3>1. pc'[th] = "done" /\ \A other \in Threads : other # th => pc'[other] = pc[other]
      BY <1>9, <2>2 DEF PollOne, Leave, TypeOK
    <3> QED BY <2>1, <3>1, PlacesHeld DEF Held
  <2>3. CASE req[th].kind # "poll"
    <3>1. PollOrLeave(th, Len(out[th]) + 1) /\ out'[th] = Append(out[th], <<p, pos[p]>>)
      BY <1>9, <2>3 DEF PollOne, TypeOK
    <3>2. pos[p] \in Nat
      BY <1>9 DEF PollOne, TypeOK
    <3>3. out[th] \in Seq(Partitions \X Nat) /\ <<p, pos[p]>> \in Partitions \X Nat
      BY <3>2 DEF TypeOK
    <3>4. Len(out'[th]) = Len(out[th]) + 1
      BY <3>1, <3>3
    <3>5. \A q \in Partitions : pos[q] = None => pos'[q] = None
      BY <1>9 DEF PollOne, TypeOK
    <3>6. req[th].kind # "info"
      BY <2>1 DEF PlaceInv, Places
    <3>7. req[th].kind = "offset" =>
             \A q \in Partitions : q # req[th].part => pos'[q] = None
      BY <2>1, <3>5 DEF PlaceInv, OneAssigned
    <3> QED BY <1>6, <2>1, <2>3, <3>1, <3>4, <3>6, <3>7, PlacesHeld DEF Held
  <2> QED BY <2>2, <2>3
<1>10. ASSUME NEW th \in Threads,
              \/ SeekRefused(th) \/ PollNone(th) \/ EndOffsets(th) \/ BeginningOffsets(th)
              \/ ClosedThrows(th) \/ BrokerFails(th) \/ SeekToTimes(th)
       PROVE  PlaceInv'
  <2>1. /\ pc[th] \in Held /\ UNCHANGED req
        /\ pc'[th] \in {"ends", "done", "failed", "begins"}
        /\ pc'[th] = "ends" => pc[th] = "times"
        /\ \A other \in Threads : other # th => pc'[other] = pc[other]
    BY <1>10 DEF SeekRefused, PollNone, EndOffsets, BeginningOffsets, ClosedThrows, BrokerFails,
           SeekToTimes, Throws, Leave, Held, TypeOK
  <2>2. pc'[th] = "ends" => req[th].kind = "time"
    BY <2>1 DEF PlaceInv, Places
  <2> QED BY <2>1, <2>2, PlacesHeld
<1>11. ASSUME NEW th \in Threads, NEW p \in Partitions, SeekToEnd(th, p)
       PROVE  PlaceInv'
  <2>1. pc[th] = "ends" /\ UNCHANGED <<pc, req, out>>
    BY <1>11 DEF SeekToEnd
  <2>2. req[th].kind = "time"
    BY <2>1 DEF PlaceInv, Places
  <2> QED BY <2>1, <2>2, PlacesHeld DEF Held
<1>12. ASSUME NEW th \in Threads, NEW p \in Partitions, ResetPosition(th, p)
       PROVE  PlaceInv'
  <2>1. /\ UNCHANGED <<pc, req, out>> /\ pos[p] # None
        /\ \A q \in Partitions : q # p => pos'[q] = pos[q]
    BY <1>12 DEF ResetPosition, TypeOK
  <2> QED BY <2>1, PlacesKept
<1>13. ASSUME NEW th \in Threads, Step(th)
       PROVE  PlaceInv'
  BY <1>4, <1>5, <1>7, <1>8, <1>9, <1>10, <1>11, <1>13 DEF Step
<1> QED BY <1>1, <1>3, <1>10, <1>12, <1>13 DEF Next

\* Every request is where its kind may be, and within its limit.
LEMMA PlacesRight == Spec => []PlaceInv
<1>1. Init => PlaceInv
  BY DEF Init, PlaceInv, Places, WithinLimit, OneAssigned, NoRequest
<1>2. TypeOK /\ TypeOK' /\ MutualExclusion /\ AnswerInv /\ PlaceInv /\ [Next]_vars => PlaceInv'
  BY PlaceStep DEF AnswerInv
<1> QED BY <1>1, <1>2, TypeCorrect, MutualExclusionAlways, AnswersRight, PTL DEF Spec

------------------------------------------------------------------------------
(* Where a batch by timestamp starts. *)

\* Before what the batch has returned of p, and older than it asks for or too late for it.
BeforeStart(th, p, o) ==
    /\ \A x : <<p, x>> \in Returned(th) => o < x
    /\ log[p][o + 1] < req[th].from \/ since[th][p] <= o

\* What the batch leaves out of p before offset o.
Started(th, p, o) ==
    \A x \in 0..(o - 1) :
        x < begin[p] \/ <<p, x>> \in Returned(th) \/ BeforeStart(th, p, x)

\* A partition that is not sought has no record at the timestamp among those there were
\* at the look-up; one that is sought is read from where it starts.
TimeSought ==
    \A th \in Threads : req[th].kind = "time" /\ pc[th] \in {"ends", "poll"} =>
        /\ pc[th] = "poll" => pending[th] = {}
        /\ \A p \in Partitions :
              /\ since[th][p] <= Len(log[p])
              /\ p \in pending[th] => Started(th, p, since[th][p])
              /\ p \notin pending[th] =>
                    pos[p] # None /\ pos[p] <= Len(log[p]) /\ Started(th, p, pos[p])

\* What is returned is in the log.
OutInLog ==
    \A th \in Threads : \A i \in 1..Len(out[th]) : out[th][i][2] < Len(log[out[th][i][1]])

\* What a batch by timestamp has returned of a partition starts where it may.
TimePages ==
    \A th \in Threads : req[th].kind = "time" =>
        \A i \in 1..Len(out[th]) : Started(th, out[th][i][1], out[th][i][2])

TimeInv == TimeSought /\ OutInLog /\ TimePages

\* The log grows at its end and retention goes on.
TopicGrows ==
    \A p \in Partitions :
        /\ begin[p] \in Nat /\ begin'[p] \in Nat /\ begin[p] <= begin'[p]
        /\ Len(log[p]) \in Nat /\ Len(log'[p]) \in Nat /\ Len(log[p]) <= Len(log'[p])
        /\ \A o \in 0..(Len(log[p]) - 1) : log'[p][o + 1] = log[p][o + 1]

\* A step that leaves the topic alone lets it grow by nothing.
LEMMA TopicStays ==
    ASSUME TypeOK, UNCHANGED <<log, begin>>
    PROVE  TopicGrows
<1>1. ASSUME NEW p \in Partitions
      PROVE  begin[p] \in Nat /\ Len(log[p]) \in Nat
  BY DEF TypeOK
<1>2. ASSUME NEW p \in Partitions
      PROVE  begin[p] <= begin[p] /\ Len(log[p]) <= Len(log[p])
  BY <1>1
<1> QED BY <1>1, <1>2 DEF TopicGrows

\* What is left out stays explained when the topic grows.
LEMMA StartedKept ==
    ASSUME TopicGrows, NEW th, NEW p \in Partitions, NEW o \in Nat, o <= Len(log[p]),
           Started(th, p, o), out'[th] = out[th], req'[th] = req[th], since'[th] = since[th]
    PROVE  Started(th, p, o)'
<1>1. Returned(th)' = Returned(th)
  BY DEF Returned
<1>2. \A a : Started(th, p, a)' <=>
             \A x \in 0..(a - 1) :
                 x < begin'[p] \/ <<p, x>> \in Returned(th)' \/ BeforeStart(th, p, x)'
  BY DEF Started
<1>3. SUFFICES ASSUME NEW x \in 0..(o - 1)
               PROVE  x < begin'[p] \/ <<p, x>> \in Returned(th) \/ BeforeStart(th, p, x)'
  BY <1>1, <1>2 DEF Started
<1>4. x \in 0..(Len(log[p]) - 1) /\ x \in Nat
  BY DEF TopicGrows
<1>5. log'[p][x + 1] = log[p][x + 1] /\ begin[p] \in Nat /\ begin'[p] \in Nat /\ begin[p] <= begin'[p]
  BY <1>4 DEF TopicGrows
<1>6. x < begin[p] \/ <<p, x>> \in Returned(th) \/ BeforeStart(th, p, x)
  BY DEF Started
<1>7. BeforeStart(th, p, x) => BeforeStart(th, p, x)'
  BY <1>1, <1>5 DEF BeforeStart
<1> QED BY <1>4, <1>5, <1>6, <1>7

\* The returned records of all requests stay where they start.
LEMMA TimePagesKept ==
    ASSUME TypeOK, TypeOK', TopicGrows, OutInLog, TimePages,
           \A th \in Threads :
               \/ out'[th] = << >>
               \/ out'[th] = out[th] /\ req'[th] = req[th] /\ since'[th] = since[th]
    PROVE  OutInLog' /\ TimePages'
<1>1. ASSUME NEW th \in Threads, NEW i \in 1..Len(out'[th])
      PROVE  /\ out'[th][i][2] < Len(log'[out'[th][i][1]])
             /\ req'[th].kind = "time" => Started(th, out[th][i][1], out[th][i][2])'
  <2>1. out'[th] = out[th] /\ req'[th] = req[th] /\ since'[th] = since[th]
    BY <1>1
  <2>2. PICK p, o : p = out[th][i][1] /\ o = out[th][i][2]
    OBVIOUS
  <2>3. p \in Partitions /\ o \in Nat
    BY <1>1, <2>1, <2>2, OutTyped
  <2>4. o < Len(log[p])
    BY <1>1, <2>1, <2>2 DEF OutInLog
  <2>5. Len(log[p]) \in Nat /\ Len(log'[p]) \in Nat /\ Len(log[p]) <= Len(log'[p])
    BY <2>3 DEF TopicGrows
  <2>6. o < Len(log'[p]) /\ o <= Len(log[p])
    BY <2>3, <2>4, <2>5
  <2>7. req[th].kind = "time" => Started(th, p, o)
    BY <1>1, <2>1, <2>2 DEF TimePages
  <2>8. req[th].kind = "time" => Started(th, p, o)'
    BY <2>1, <2>3, <2>6, <2>7, StartedKept
  <2> QED BY <2>1, <2>2, <2>6, <2>8
<1> QED BY <1>1 DEF OutInLog, TimePages

\* A step that starts no polling with a partition to seek and moves positions only to the
\* first record left; whatever else it does to a request empties its answer.
LEMMA TimesKept ==
    ASSUME TypeOK, TypeOK', TopicGrows, TimeInv,
           \A th \in Threads :
               \/ out'[th] = << >>
               \/ out'[th] = out[th] /\ req'[th] = req[th] /\ since'[th] = since[th],
           \A th \in Threads : req'[th].kind = "time" /\ pc'[th] \in {"ends", "poll"} =>
               /\ out'[th] = out[th] /\ req'[th] = req[th] /\ since'[th] = since[th]
               /\ pc[th] \in {"ends", "poll"} /\ pending'[th] = pending[th]
               /\ pc'[th] = "poll" => pc[th] = "poll" \/ pending[th] = {}
               /\ \A p \in Partitions :
                     \/ pos'[p] = pos[p]
                     \/ pos'[p] = begin'[p] /\ begin'[p] <= Len(log'[p])
    PROVE  TimeInv'
<1>1. OutInLog' /\ TimePages'
  BY TimePagesKept DEF TimeInv
<1>2. ASSUME NEW th \in Threads, req'[th].kind = "time", pc'[th] \in {"ends", "poll"}
      PROVE  /\ pc'[th] = "poll" => pending'[th] = {}
             /\ \A p \in Partitions :
                   /\ since'[th][p] <= Len(log'[p])
                   /\ p \in pending'[th] => Started(th, p, since[th][p])'
                   /\ p \notin pending'[th] =>
                         pos'[p] # None /\ pos'[p] <= Len(log'[p]) /\ Started(th, p, pos[p])'
  <2>1. /\ out'[th] = out[th] /\ req'[th] = req[th] /\ since'[th] = since[th]
        /\ pc[th] \in {"ends", "poll"} /\ pending'[th] = pending[th]
    BY <1>2
  <2>2. pc'[th] = "poll" => pending'[th] = {}
    BY <1>2, <2>1 DEF TimeInv, TimeSought
  <2>3. ASSUME NEW p \in Partitions
        PROVE  /\ since'[th][p] <= Len(log'[p])
               /\ p \in pending'[th] => Started(th, p, since[th][p])'
    <3>1. PICK s : s = since[th][p]
      OBVIOUS
    <3>2. s \in Nat /\ since'[th][p] = s
      BY <2>1, <3>1 DEF TypeOK
    <3>3. s <= Len(log[p]) /\ (p \in pending[th] => Started(th, p, s))
      BY <1>2, <2>1, <3>1 DEF TimeInv, TimeSought
    <3>4. s <= Len(log'[p])
      BY <3>2, <3>3 DEF TopicGrows
    <3>5. p \in pending[th] => Started(th, p, s)'
      BY <2>1, <3>2, <3>3, StartedKept
    <3> QED BY <2>1, <3>2, <3>4, <3>5
  <2>4. ASSUME NEW p \in Partitions, p \notin pending'[th]
        PROVE  pos'[p] # None /\ pos'[p] <= Len(log'[p]) /\ Started(th, p, pos[p])'
    <3>1. PICK o : o = pos[p]
      OBVIOUS
    <3>2. o # None /\ o <= Len(log[p]) /\ Started(th, p, o)
      BY <1>2, <2>1, <2>4, <3>1 DEF TimeInv, TimeSought
    <3>3. o \in Nat
      BY <3>1, <3>2 DEF TypeOK
    <3>4. CASE pos'[p] = o
      <4>1. o <= Len(log'[p])
        BY <3>2, <3>3 DEF TopicGrows
      <4>2. Started(th, p, o)'
        BY <2>1, <3>2, <3>3, StartedKept
      <4> QED BY <3>2, <3>4, <4>1, <4>2
    <3>5. CASE pos'[p] # o
      <4>1. PICK b : b = begin'[p]
        OBVIOUS
      <4>2. pos'[p] = b /\ b <= Len(log'[p])
        BY <1>2, <3>1, <3>5, <4>1
      <4>3. b \in Nat /\ b <= b /\ b # None
        BY <4>1, ManualAssumption DEF TopicGrows
      <4>4. \A x \in 0..(b - 1) : x < begin'[p]
        BY <4>1, <4>3
      <4>5. Started(th, p, b)'
        BY <4>4 DEF Started
      <4> QED BY <4>2, <4>3, <4>5
    <3> QED BY <3>4, <3>5
  <2> QED BY <2>2, <2>3, <2>4
<1>3. TimeSought'
  BY <1>2 DEF TimeSought
<1> QED BY <1>1, <1>3 DEF TimeInv

\* The least offset with a record at or after the timestamp is there if any offset is.
LEMMA FirstAtTime ==
    ASSUME TypeOK, NEW p \in Partitions, NEW t \in Int, OffsetsForTime(p, t) = {},
           NEW x \in 0..(Len(log[p]) - 1)
    PROVE  x < begin[p] \/ log[p][x + 1] < t
<1>1. log[p] \in Seq(Nat) /\ begin[p] \in Nat
  BY DEF TypeOK
<1>2. \A y \in 0..(Len(log[p]) - 1) : log[p][y + 1] \in Nat
  BY <1>1
<1> DEFINE at == {y \in Nat : y >= begin[p] /\ y < Len(log[p]) /\ log[p][y + 1] >= t}
<1>3. ASSUME at # {}
      PROVE  FALSE
  <2>1. at \in SUBSET Nat
    OBVIOUS
  <2>2. PICK m \in at : \A k \in at : ~ (<<k, m>> \in OpToRel(<, Nat))
    <3> HIDE DEF at
    <3> QED BY <1>3, <2>1, WFMin, NatLessThanWellFounded, Zenon
  <2>3. \A k \in at : ~ (k < m)
    <3>1. m \in Nat
      OBVIOUS
    <3> HIDE DEF at
    <3> QED BY <2>1, <2>2, <3>1, Zenon DEF OpToRel
  <2>4. ASSUME NEW i \in begin[p]..(m - 1)
        PROVE  log[p][i + 1] < t
    <3>1. i \notin at /\ i \in Nat /\ i >= begin[p] /\ i < Len(log[p])
      BY <1>1, <2>3
    <3>2. log[p][i + 1] \in Nat
      BY <1>2, <3>1
    <3> QED BY <3>1, <3>2
  <2>5. m \in OffsetsForTime(p, t)
    BY <1>1, <2>4 DEF OffsetsForTime
  <2> QED BY <2>5
<1>4. x \notin at /\ x \in Nat /\ x < Len(log[p]) /\ log[p][x + 1] \in Nat
  BY <1>1, <1>2, <1>3
<1> QED BY <1>1, <1>4

\* The look-up: what is before the first offset at the timestamp is older, and all of a
\* partition without one (offsetsForTimes in pollBatchByTimestamp).
LEMMA LookUpTimes ==
    ASSUME TypeOK, TypeOK', MutualExclusion, EmptyBefore, TimeInv,
           NEW th \in Threads, SeekToTimes(th)
    PROVE  TimeInv'
<1>1. /\ pc[th] = "times" /\ out[th] = << >> /\ UNCHANGED <<log, begin, req, out>>
      /\ \A p \in Partitions :
            /\ pos'[p] = IF OffsetsForTime(p, req[th].from) = {} THEN None
                         ELSE CHOOSE o \in OffsetsForTime(p, req[th].from) : TRUE
            /\ p \in pending'[th] <=> OffsetsForTime(p, req[th].from) = {}
            /\ since'[th][p] = Len(log[p])
      /\ pc'[th] = "ends"
  BY DEF SeekToTimes, EmptyBefore, TypeOK, topicVars
<1>2. ASSUME NEW other \in Threads, other # th
      PROVE  pc'[other] = pc[other] /\ pc'[other] \notin {"ends", "poll"} /\ since'[other] = since[other]
  <2>1. pc[other] \notin Held
    BY <1>1, <1>2, Alone DEF Held
  <2> QED BY <1>2, <2>1 DEF SeekToTimes, TypeOK, Held
<1>3. OutInLog' /\ TimePages'
  <2>1. TopicGrows
    BY <1>1, TopicStays
  <2> QED BY <1>1, <1>2, <2>1, TimePagesKept DEF TimeInv
<1>4. ASSUME NEW p \in Partitions
      PROVE  /\ since'[th][p] <= Len(log'[p])
             /\ p \in pending'[th] => Started(th, p, since[th][p])'
             /\ p \notin pending'[th] =>
                   pos'[p] # None /\ pos'[p] <= Len(log'[p]) /\ Started(th, p, pos[p])'
  <2>1. PICK t, n : t = req[th].from /\ n = Len(log[p])
    OBVIOUS
  <2>2. t \in Int /\ n \in Nat /\ begin[p] \in Nat
    BY <2>1 DEF TypeOK, Request
  <2>3. Returned(th)' = {}
    BY <1>1 DEF Returned
  <2>4. ASSUME NEW o \in Nat, \A x \in 0..(o - 1) : x < begin[p] \/ log[p][x + 1] < t
        PROVE  Started(th, p, o)'
    <3>1. req'[th].from = t /\ log' = log /\ begin' = begin
      BY <1>1, <2>1
    <3>2. \A x \in 0..(o - 1) : x < begin[p] \/ BeforeStart(th, p, x)'
      BY <2>3, <2>4, <3>1 DEF BeforeStart
    <3>3. \A x \in 0..(o - 1) : x < begin'[p] \/ <<p, x>> \in Returned(th)' \/ BeforeStart(th, p, x)'
      BY <3>1, <3>2
    <3> QED BY <3>3 DEF Started
  <2>5. since'[th][p] = n /\ n <= Len(log'[p])
    <3>1. n <= n /\ Len(log'[p]) = n
      BY <1>1, <2>1, <2>2
    <3> QED BY <1>1, <2>1, <3>1
  <2>6. ASSUME p \in pending'[th]
        PROVE  Started(th, p, since[th][p])'
    <3>1. OffsetsForTime(p, t) = {}
      BY <1>1, <2>1, <2>6
    <3>2. \A x \in 0..(n - 1) : x < begin[p] \/ log[p][x + 1] < t
      BY <2>1, <2>2, <3>1, FirstAtTime
    <3>3. Started(th, p, n)'
      BY <2>2, <2>4, <3>2
    <3> QED BY <2>5, <3>3
  <2>7. ASSUME p \notin pending'[th]
        PROVE  pos'[p] # None /\ pos'[p] <= Len(log'[p]) /\ Started(th, p, pos[p])'
    <3>1. PICK o : o \in OffsetsForTime(p, t) /\ pos'[p] = o
      BY <1>1, <2>1, <2>7
    <3>2. /\ o \in begin[p]..(n - 1)
          /\ \A i \in begin[p]..(o - 1) : log[p][i + 1] < t
      BY <2>1, <3>1 DEF OffsetsForTime
    <3>3. o \in Nat /\ o <= n /\ o # None
      BY <2>2, <3>2, ManualAssumption
    <3>4. \A x \in 0..(o - 1) : x < begin[p] \/ x \in begin[p]..(o - 1)
      BY <2>2, <3>3
    <3>5. Started(th, p, o)'
      BY <2>4, <3>2, <3>3, <3>4
    <3> QED BY <1>1, <2>1, <3>1, <3>3, <3>5
  <2> QED BY <2>5, <2>6, <2>7
<1>5. TimeSought'
  BY <1>1, <1>2, <1>4 DEF TimeSought
<1> QED BY <1>3, <1>5 DEF TimeInv

\* The seek to the end: what is behind the records of the look-up came too late for the
\* batch (endOffsets in pollBatchByTimestamp).
LEMMA EndTimes ==
    ASSUME TypeOK, TypeOK', MutualExclusion, EmptyBefore, PlaceInv, TimeInv,
           NEW th \in Threads, NEW p \in Partitions, SeekToEnd(th, p)
    PROVE  TimeInv'
<1>1. /\ pc[th] = "ends" /\ out[th] = << >> /\ UNCHANGED <<log, begin, pc, req, since, out>>
      /\ pos'[p] = Len(log[p]) /\ \A q \in Partitions : q # p => pos'[q] = pos[q]
      /\ p \in pending[th] /\ pending'[th] = pending[th] \ {p}
  BY DEF SeekToEnd, EmptyBefore, TypeOK, topicVars
<1>2. ASSUME NEW other \in Threads, other # th
      PROVE  pc[other] \notin {"ends", "poll"}
  BY <1>1, <1>2, Alone DEF Held
<1>3. TopicGrows
  BY <1>1, TopicStays
<1>4. OutInLog' /\ TimePages'
  BY <1>1, <1>3, TimePagesKept DEF TimeInv
<1>5. req[th].kind = "time"
  BY <1>1 DEF PlaceInv, Places
<1>6. ASSUME NEW q \in Partitions
      PROVE  /\ since'[th][q] <= Len(log'[q])
             /\ q \in pending'[th] => Started(th, q, since[th][q])'
             /\ q \notin pending'[th] =>
                   pos'[q] # None /\ pos'[q] <= Len(log'[q]) /\ Started(th, q, pos[q])'
  <2>1. PICK s, o : s = since[th][q] /\ o = pos[q]
    OBVIOUS
  <2>2. s \in Nat /\ since'[th][q] = s /\ Len(log[q]) \in Nat
    BY <1>1, <2>1 DEF TypeOK
  <2>3. /\ s <= Len(log[q]) /\ (q \in pending[th] => Started(th, q, s))
        /\ q \notin pending[th] => o # None /\ o <= Len(log[q]) /\ Started(th, q, o)
    BY <1>1, <1>5, <2>1 DEF TimeInv, TimeSought
  <2>4. q \in pending[th] => Started(th, q, s)'
    BY <1>1, <1>3, <2>2, <2>3, StartedKept
  <2>5. ASSUME q # p, q \notin pending[th]
        PROVE  pos'[q] # None /\ pos'[q] <= Len(log'[q]) /\ Started(th, q, pos[q])'
    <3>1. o \in Nat
      BY <2>1, <2>3, <2>5 DEF TypeOK
    <3>2. Started(th, q, o)'
      BY <1>1, <1>3, <2>3, <2>5, <3>1, StartedKept
    <3>3. pos'[q] = o
      BY <1>1, <2>1, <2>5
    <3> QED BY <1>1, <2>3, <2>5, <3>2, <3>3
  <2>6. ASSUME q = p
        PROVE  pos'[q] # None /\ pos'[q] <= Len(log'[q]) /\ Started(th, q, pos[q])'
    <3>1. PICK n : n = Len(log[p])
      OBVIOUS
    <3>2. pos'[p] = n /\ n \in Nat /\ n <= n /\ n # None
      BY <1>1, <2>2, <2>6, <3>1, ManualAssumption
    <3>3. Returned(th)' = {}
      BY <1>1 DEF Returned
    <3>4. Started(th, p, s)'
      BY <1>1, <2>4, <2>6
    <3>5. ASSUME NEW x \in 0..(n - 1)
          PROVE  x < begin'[p] \/ <<p, x>> \in Returned(th)' \/ BeforeStart(th, p, x)'
      <4>1. CASE x < s
        <5>1. x \in 0..(s - 1)
          BY <2>2, <4>1
        <5> QED BY <3>4, <5>1 DEF Started
      <4>2. CASE s <= x
        <5>1. since'[th][p] <= x
          BY <2>2, <2>6, <4>2
        <5> QED BY <3>3, <5>1 DEF BeforeStart
      <4>3. x < s \/ s <= x
        BY <2>2
      <4> QED BY <4>1, <4>2, <4>3
    <3>6. Started(th, p, n)'
      BY <3>5 DEF Started
    <3> QED BY <1>1, <2>6, <3>1, <3>2, <3>6
  <2> QED BY <1>1, <2>2, <2>3, <2>4, <2>5, <2>6
<1>7. TimeSought'
  BY <1>1, <1>2, <1>5, <1>6 DEF TimeSought
<1> QED BY <1>4, <1>7 DEF TimeInv

\* What is left out stays explained when the next record is returned, and up to it.
LEMMA StartedGrown ==
    ASSUME NEW th \in Threads, NEW p \in Partitions, NEW x \in Nat,
           out[th] \in Seq(Partitions \X Nat), out'[th] = Append(out[th], <<p, x>>),
           UNCHANGED <<log, begin>>, req'[th] = req[th], since'[th] = since[th]
    PROVE  /\ \A q \in Partitions, o \in Nat :
                 Started(th, q, o) /\ (q = p => o <= x) => Started(th, q, o)'
           /\ Started(th, p, x) => Started(th, p, x + 1)'
<1>1. Returned(th)' = Returned(th) \cup {<<p, x>>}
  <2> DEFINE n == Len(out[th])
  <2>1. /\ n \in Nat /\ Len(out'[th]) = n + 1 /\ out'[th][n + 1] = <<p, x>>
        /\ \A i \in 1..n : out'[th][i] = out[th][i]
    OBVIOUS
  <2>2. 1..(n + 1) = (1..n) \cup {n + 1}
    BY <2>1
  <2> HIDE DEF n
  <2>3. Returned(th) = {out[th][i] : i \in 1..n}
    BY DEF Returned, n
  <2>4. Returned(th)' = {out'[th][i] : i \in 1..(n + 1)}
    BY <2>1 DEF Returned
  <2> QED BY <2>1, <2>2, <2>3, <2>4
<1>2. ASSUME NEW q \in Partitions, NEW o \in Nat, Started(th, q, o), q = p => o <= x
      PROVE  Started(th, q, o)'
  <2>1. ASSUME NEW y \in 0..(o - 1)
        PROVE  y < begin'[q] \/ <<q, y>> \in Returned(th)' \/ BeforeStart(th, q, y)'
    <3>1. y < begin[q] \/ <<q, y>> \in Returned(th) \/ BeforeStart(th, q, y)
      BY <1>2, <2>1 DEF Started
    <3>2. BeforeStart(th, q, y) => BeforeStart(th, q, y)'
      <4>1. q = p => y < x
        BY <1>2, <2>1
      <4>2. \A z : <<q, z>> = <<p, x>> => q = p /\ z = x
        OBVIOUS
      <4> QED BY <1>1, <4>1, <4>2 DEF BeforeStart
    <3> QED BY <1>1, <3>1, <3>2
  <2> QED BY <2>1 DEF Started
<1>3. ASSUME Started(th, p, x)
      PROVE  Started(th, p, x + 1)'
  <2>1. x <= x /\ Started(th, p, x)'
    BY <1>2, <1>3
  <2>2. ASSUME NEW y \in 0..((x + 1) - 1)
        PROVE  y < begin'[p] \/ <<p, y>> \in Returned(th)' \/ BeforeStart(th, p, y)'
    <3>1. CASE y = x
      BY <1>1, <3>1
    <3>2. CASE y # x
      <4>1. y \in 0..(x - 1)
        BY <2>2, <3>2
      <4> QED BY <2>1, <4>1 DEF Started
    <3> QED BY <3>1, <3>2
  <2> QED BY <2>2 DEF Started
<1> QED BY <1>2, <1>3

\* A request that a step leaves alone has its records from where they start.
LEMMA OtherTimes ==
    ASSUME TypeOK, TimeInv, UNCHANGED <<log, begin>>, NEW th \in Threads,
           out'[th] = out[th], req'[th] = req[th], since'[th] = since[th],
           req'[th].kind = "time", NEW i \in 1..Len(out'[th])
    PROVE  Started(th, out[th][i][1], out[th][i][2])'
<1>1. PICK q, o : q = out[th][i][1] /\ o = out[th][i][2]
  OBVIOUS
<1>2. q \in Partitions /\ o \in Nat
  BY <1>1, OutTyped
<1>3. Started(th, q, o) /\ o < Len(log[q])
  BY <1>1 DEF TimeInv, TimePages, OutInLog
<1>4. TopicGrows
  BY TopicStays
<1>5. o <= Len(log[q])
  BY <1>2, <1>3, <1>4 DEF TopicGrows
<1>6. Started(th, q, o)'
  BY <1>2, <1>3, <1>4, <1>5, StartedKept
<1> QED BY <1>1, <1>6

\* The poll that returns a record: it is the next of its partition behind the start
\* (pollBatchByTimestamp).
LEMMA PollTimes ==
    ASSUME TypeOK, TypeOK', MutualExclusion, BehindReturned, PlaceInv, TimeInv,
           NEW th \in Threads, NEW p \in Partitions, PollOne(th, p)
    PROVE  TimeInv'
<1>1. PICK x, n : x = pos[p] /\ n = Len(out[th])
  OBVIOUS
<1>2. /\ pc[th] = "poll" /\ x \in Nat /\ x < Len(log[p]) /\ Len(log[p]) \in Nat
      /\ UNCHANGED <<log, begin, req, pending, since>>
      /\ pos'[p] = x + 1 /\ \A q \in Partitions : q # p => pos'[q] = pos[q]
  BY <1>1 DEF PollOne, TypeOK, topicVars, seekVars
<1>3. ASSUME NEW other \in Threads, other # th
      PROVE  /\ pc'[other] = pc[other] /\ pc'[other] \notin {"ends", "poll"}
             /\ out'[other] = out[other]
  <2>1. pc[other] \notin Held
    BY <1>2, <1>3, Alone DEF Held
  <2>2. pc'[other] = pc[other]
    BY <1>3 DEF PollOne, TypeOK, Leave, PollOrLeave
  <2> QED BY <1>3, <2>1, <2>2 DEF PollOne, TypeOK, Held
<1>4. pc'[th] \in {"poll", "done"}
  BY DEF PollOne, TypeOK, Leave, PollOrLeave
<1>5. out[th] \in Seq(Partitions \X Nat) /\ n \in Nat /\ <<p, x>> \in Partitions \X Nat
  BY <1>1, <1>2 DEF TypeOK
<1>6. CASE req[th].kind = "poll"
  <2>1. out'[th] = << >> \/ out'[th] = <<<<p, x>>>>
    BY <1>1, <1>6 DEF PollOne, TypeOK
  <2>2. \A i \in 1..Len(out'[th]) : out'[th][i] = <<p, x>>
    BY <2>1
  <2>3. OutInLog'
    BY <1>2, <1>3, <2>2 DEF TimeInv, OutInLog
  <2>4. TimePages'
    <3> SUFFICES ASSUME NEW other \in Threads, req'[other].kind = "time",
                        NEW i \in 1..Len(out'[other])
                 PROVE  Started(other, out[other][i][1], out[other][i][2])'
      BY DEF TimePages
    <3>1. other # th /\ out'[other] = out[other] /\ req'[other] = req[other]
      BY <1>2, <1>3, <1>6
    <3> QED BY <1>2, <3>1, OtherTimes
  <2>5. TimeSought'
    BY <1>2, <1>3, <1>6 DEF TimeSought
  <2> QED BY <2>3, <2>4, <2>5 DEF TimeInv
<1>7. CASE req[th].kind # "poll"
  <2>1. out'[th] = Append(out[th], <<p, x>>)
    BY <1>1, <1>7 DEF PollOne, TypeOK
  <2>2. /\ Len(out'[th]) = n + 1 /\ out'[th][n + 1] = <<p, x>>
        /\ \A i \in 1..n : out'[th][i] = out[th][i]
        /\ \A i \in 1..(n + 1) : i \in 1..n \/ i = n + 1
    BY <1>1, <1>5, <2>1
  <2>3. OutInLog'
    <3>1. \A i \in 1..n : out[th][i][2] < Len(log[out[th][i][1]])
      BY <1>1 DEF TimeInv, OutInLog
    <3>2. ASSUME NEW i \in 1..(n + 1)
          PROVE  out'[th][i][2] < Len(log[out'[th][i][1]])
      <4>1. CASE i = n + 1
        <5>1. out'[th][i][1] = p /\ out'[th][i][2] = x
          BY <2>2, <4>1
        <5> QED BY <1>2, <5>1
      <4>2. CASE i \in 1..n
        <5>1. out'[th][i] = out[th][i]
          BY <2>2, <4>2
        <5> QED BY <3>1, <4>2, <5>1
      <4> QED BY <2>2, <4>1, <4>2
    <3> QED BY <1>2, <1>3, <2>2, <3>2 DEF TimeInv, OutInLog
  <2>4. \A q \in Partitions, o \in Nat :
            req[th].kind = "time" /\ Started(th, q, o) /\ (q = p => o <= x) => Started(th, q, o)'
    BY <1>2, <1>5, <2>1, StartedGrown
  <2>5. ASSUME req[th].kind = "time"
        PROVE  Started(th, p, x)
    <3>1. pending[th] = {}
      BY <1>2, <2>5 DEF TimeInv, TimeSought
    <3> QED BY <1>1, <1>2, <2>5, <3>1 DEF TimeInv, TimeSought
  <2>6. req[th].kind = "time" => Started(th, p, x)' /\ Started(th, p, x + 1)'
    <3>1. x <= x
      BY <1>2
    <3>2. Started(th, p, x) => Started(th, p, x + 1)'
      BY <1>2, <1>5, <2>1, StartedGrown
    <3> QED BY <1>2, <2>4, <2>5, <3>1, <3>2
  <2>7. TimePages'
    <3>1. ASSUME NEW other \in Threads, other # th, req'[other].kind = "time",
                 NEW i \in 1..Len(out'[other])
          PROVE  Started(other, out[other][i][1], out[other][i][2])'
      <4>1. out'[other] = out[other] /\ req'[other] = req[other]
        BY <1>2, <1>3, <3>1
      <4> QED BY <1>2, <3>1, <4>1, OtherTimes
    <3>2. ASSUME req[th].kind = "time", NEW i \in 1..n
          PROVE  Started(th, out[th][i][1], out[th][i][2])'
      <4>1. PICK q, o : q = out[th][i][1] /\ o = out[th][i][2]
        OBVIOUS
      <4>2. q \in Partitions /\ o \in Nat
        BY <1>1, <3>2, <4>1, OutTyped
      <4>3. Started(th, q, o)
        BY <1>1, <3>2, <4>1 DEF TimeInv, TimePages
      <4>4. q = p => o < x
        BY <1>1, <1>2, <3>2, <4>1 DEF BehindReturned
      <4>5. Started(th, q, o)'
        BY <1>2, <2>4, <3>2, <4>2, <4>3, <4>4
      <4> QED BY <2>2, <3>2, <4>1, <4>5
    <3>3. ASSUME req[th].kind = "time"
          PROVE  Started(th, out[th][n + 1][1], out[th][n + 1][2])'
      <4>1. out'[th][n + 1][1] = p /\ out'[th][n + 1][2] = x
        BY <2>2
      <4>2. Started(th, p, x)'
        BY <2>6, <3>3
      <4> QED BY <4>1, <4>2
    <3> QED BY <1>2, <2>2, <3>1, <3>2, <3>3 DEF TimePages
  <2>8. ASSUME req[th].kind = "time", NEW q \in Partitions
        PROVE  /\ q \notin pending'[th] /\ since'[th][q] <= Len(log'[q])
               /\ pos'[q] # None /\ pos'[q] <= Len(log'[q]) /\ Started(th, q, pos[q])'
    <3>1. PICK o : o = pos[q]
      OBVIOUS
    <3>2. /\ pending[th] = {} /\ since[th][q] <= Len(log[q])
          /\ o # None /\ o <= Len(log[q]) /\ Started(th, q, o)
      BY <1>2, <2>8, <3>1 DEF TimeInv, TimeSought
    <3>3. o \in Nat
      BY <3>1, <3>2 DEF TypeOK
    <3>4. CASE q = p
      <4>1. pos'[q] = x + 1 /\ x + 1 # None /\ x + 1 <= Len(log'[q])
        BY <1>2, <3>4, ManualAssumption
      <4>2. Started(th, p, x + 1)'
        BY <2>6, <2>8
      <4> QED BY <1>2, <3>2, <3>4, <4>1, <4>2
    <3>5. CASE q # p
      <4>1. pos'[q] = o
        BY <1>2, <3>1, <3>5
      <4>2. Started(th, q, o)'
        BY <2>4, <2>8, <3>2, <3>3, <3>5
      <4> QED BY <1>2, <3>2, <4>1, <4>2
    <3> QED BY <3>4, <3>5
  <2>9. req[th].kind = "time" => pending[th] = {}
    BY <1>2 DEF TimeInv, TimeSought
  <2>10. TimeSought'
    BY <1>2, <1>3, <1>4, <2>8, <2>9 DEF TimeSought
  <2> QED BY <2>3, <2>7, <2>10 DEF TimeInv
<1> QED BY <1>6, <1>7

\* Every step keeps where batches by timestamp start.
LEMMA TimeStep ==
    ASSUME Reset = "earliest", TypeOK, TypeOK', MutualExclusion, AnswerInv, PlaceInv, TimeInv,
           [Next]_vars
    PROVE  TimeInv'
<1>0. EmptyBefore /\ BehindReturned /\ BeginInLog
  BY DEF AnswerInv
<1>1. ASSUME NEW p \in Partitions, Produce(p)
      PROVE  TimeInv'
  <2>1. /\ UNCHANGED <<begin, pos, pc, req, since, out, pending>>
        /\ \A q \in Partitions :
              /\ Len(log[q]) \in Nat /\ Len(log'[q]) \in Nat /\ Len(log[q]) <= Len(log'[q])
              /\ \A o \in 0..(Len(log[q]) - 1) : log'[q][o + 1] = log[q][o + 1]
    BY <1>1, LogGrows DEF Produce, seekVars
  <2>2. \A q \in Partitions : begin[q] \in Nat /\ begin[q] <= begin[q]
    BY DEF TypeOK
  <2>3. TopicGrows
    BY <2>1, <2>2 DEF TopicGrows
  <2> QED BY <2>1, <2>3, TimesKept
<1>2. ASSUME NEW p \in Partitions, Expire(p)
      PROVE  TimeInv'
  <2>1. UNCHANGED <<log, pos, pc, req, since, out, pending>>
    BY <1>2 DEF Expire, seekVars
  <2>2. \A q \in Partitions :
            /\ begin[q] \in Nat /\ begin'[q] \in Nat /\ begin[q] <= begin'[q]
            /\ Len(log[q]) \in Nat /\ Len(log[q]) <= Len(log[q])
    BY <1>2 DEF Expire, TypeOK
  <2>3. TopicGrows
    BY <2>1, <2>2 DEF TopicGrows
  <2> QED BY <2>1, <2>3, TimesKept
<1>3. CASE Destroy \/ UNCHANGED vars
  <2>1. UNCHANGED <<log, begin, pos, pc, req, since, out, pending>>
    BY <1>3 DEF Destroy, vars, topicVars, seekVars
  <2>2. TopicGrows
    BY <2>1, TopicStays
  <2> QED BY <2>1, <2>2, TimesKept
<1>4. ASSUME UNCHANGED <<log, begin>>, NEW th \in Threads, pc'[th] \notin {"ends", "poll"},
             \/ out'[th] = << >>
             \/ out'[th] = out[th] /\ req'[th] = req[th] /\ since'[th] = since[th],
             \A other \in Threads : other # th =>
                 /\ pc'[other] = pc[other] /\ req'[other] = req[other]
                 /\ out'[other] = out[other] /\ since'[other] = since[other]
                 /\ pending'[other] = pending[other],
             \/ UNCHANGED pos
             \/ pc[th] \in Held
      PROVE  TimeInv'
  <2>1. TopicGrows
    BY <1>4, TopicStays
  <2>2. \A other \in Threads : other # th =>
            pos' = pos \/ pc'[other] \notin {"ends", "poll"}
    BY <1>4, Alone DEF Held
  <2> QED BY <1>4, <2>1, <2>2, TimesKept
<1>5. ASSUME NEW th \in Threads, NewRequest(th) \/ Answer(th)
      PROVE  TimeInv'
  <2>1. UNCHANGED <<log, begin, pos>> /\ pc'[th] \in {"enter", "idle"}
    BY <1>5 DEF NewRequest, AskPoll, AskBatch, AskInfo, Ask, Answer, TypeOK, topicVars
  <2>2. out'[th] = << >>
    BY <1>0, <1>5 DEF NewRequest, AskPoll, AskBatch, AskInfo, Ask, Answer, TypeOK, EmptyBefore
  <2>3. \A other \in Threads : other # th =>
                 /\ pc'[other] = pc[other] /\ req'[other] = req[other]
                 /\ out'[other] = out[other] /\ since'[other] = since[other]
                 /\ pending'[other] = pending[other]
    BY <1>5 DEF NewRequest, AskPoll, AskBatch, AskInfo, Ask, Answer, TypeOK, seekVars
  <2> QED BY <1>4, <2>1, <2>2, <2>3
<1>6. ASSUME NEW th \in Threads,
             \/ Enter(th) \/ PollNone(th) \/ EndOffsets(th) \/ BeginningOffsets(th)
             \/ ClosedThrows(th) \/ BrokerFails(th)
      PROVE  TimeInv'
  <2>1. UNCHANGED <<log, begin, pos, req, pending, since, out>>
    BY <1>6 DEF Enter, PollNone, EndOffsets, BeginningOffsets, ClosedThrows, BrokerFails, Throws,
           topicVars, seekVars
  <2>2. /\ pc'[th] \notin {"ends", "poll"}
        /\ \A other \in Threads : other # th => pc'[other] = pc[other]
    BY <1>6 DEF Enter, FirstStep, PollNone, EndOffsets, BeginningOffsets, ClosedThrows,
           BrokerFails, Throws, Leave, TypeOK
  <2> QED BY <1>4, <2>1, <2>2
<1>7. ASSUME NEW th \in Threads, AssignAndSeek(th)
      PROVE  TimeInv'
  <2>1. UNCHANGED <<log, begin, req, pending, since, out>> /\ pc[th] = "assign"
    BY <1>7 DEF AssignAndSeek, topicVars, seekVars
  <2>2. \A other \in Threads : other # th => pc'[other] = pc[other] /\ pc[other] \notin Held
    BY <1>7, <2>1, Alone DEF AssignAndSeek, PollOrLeave, Leave, TypeOK, Held
  <2>3. req[th].kind # "time"
    BY <2>1 DEF PlaceInv, Places
  <2>4. TopicGrows
    BY <2>1, TopicStays
  <2> QED BY <2>1, <2>2, <2>3, <2>4, TimesKept DEF Held
<1>8. ASSUME NEW th \in Threads, AllSought(th)
      PROVE  TimeInv'
  <2>1. /\ UNCHANGED <<log, begin, pos, req, pending, since, out>>
        /\ pc[th] = "ends" /\ pending[th] = {}
    BY <1>8 DEF AllSought, topicVars, seekVars
  <2>2. \A other \in Threads : other # th => pc'[other] = pc[other]
    BY <1>8 DEF AllSought, PollOrLeave, Leave, TypeOK
  <2>3. TopicGrows
    BY <2>1, TopicStays
  <2> QED BY <2>1, <2>2, <2>3, TimesKept
<1>9. ASSUME NEW th \in Threads, NEW p \in Partitions, ResetPosition(th, p)
      PROVE  TimeInv'
  <2>1. /\ UNCHANGED <<log, begin, pc, req, pending, since, out>> /\ pc[th] = "poll"
        /\ pos'[p] = begin[p] /\ \A q \in Partitions : q # p => pos'[q] = pos[q]
    BY <1>9 DEF ResetPosition, TypeOK, topicVars, seekVars
  <2>2. begin[p] <= Len(log[p])
    BY <1>0 DEF BeginInLog
  <2>3. TopicGrows
    BY <2>1, TopicStays
  <2> QED BY <2>1, <2>2, <2>3, TimesKept
<1>11. ASSUME NEW th \in Threads, SeekRefused(th)
       PROVE  TimeInv'
  <2>1. UNCHANGED <<log, begin, req, pending, since, out>> /\ pc[th] \in Held
    BY <1>11 DEF SeekRefused, Held, topicVars, seekVars
  <2>2. /\ pc'[th] \notin {"ends", "poll"}
        /\ \A other \in Threads : other # th => pc'[other] = pc[other]
    BY <1>11 DEF SeekRefused, Leave, TypeOK
  <2> QED BY <1>4, <2>1, <2>2
<1>10. ASSUME NEW th \in Threads, Step(th)
       PROVE  TimeInv'
  BY <1>0, <1>5, <1>6, <1>7, <1>8, <1>11, <1>10, LookUpTimes, EndTimes, PollTimes DEF Step
<1> QED BY <1>1, <1>2, <1>3, <1>5, <1>6, <1>9, <1>10 DEF Next, Topic

\* Where batches by timestamp start, when a position that is out of range is reset to the
\* earliest record.
LEMMA TimesRight == Reset = "earliest" => (Spec => []TimeInv)
<1> SUFFICES ASSUME Reset = "earliest"
             PROVE  Spec => []TimeInv
  OBVIOUS
<1>1. Init => TimeInv
  <2>1. Init => \A th \in Threads : out[th] = << >> /\ pc[th] = "idle"
    BY DEF Init
  <2> QED BY <2>1 DEF TimeInv, TimeSought, OutInLog, TimePages
<1>2. TypeOK /\ TypeOK' /\ MutualExclusion /\ AnswerInv /\ PlaceInv /\ TimeInv /\ [Next]_vars
          => TimeInv'
  BY TimeStep
<1> QED
  BY <1>1, <1>2, TypeCorrect, MutualExclusionAlways, AnswersRight, PlacesRight, PTL DEF Spec

\* A batch by timestamp leaves out, of a partition that it returns something of, only what
\* is older, deleted, or arrived after offsetsForTimes: nothing that was there then is lost
\* between offsetsForTimes and endOffsets (pollBatchByTimestamp).
THEOREM BatchFromTimeAlways == Spec => []BatchFromTime
<1>1. CASE Reset = "earliest"
  <2>1. TimeInv => BatchFromTime
    BY DEF TimeInv, TimePages, Started, BeforeStart, BatchFromTime
  <2> QED BY <1>1, <2>1, TimesRight, PTL
<1>2. CASE Reset # "earliest"
  <2>1. BatchFromTime
    BY <1>2 DEF BatchFromTime
  <2> QED BY <2>1, PTL
<1> QED BY <1>1, <1>2

------------------------------------------------------------------------------
(* The consumer implements LogReads: what its requests return is what each  *)
(* would read by itself.                                                    *)

\* A step within a call of the consumer is not seen.
LEMMA StaysOpen ==
    ASSUME UNCHANGED <<log, begin, req, since, out>>,
           \A th \in Threads : Progress'[th] = Progress[th]
    PROVE  UNCHANGED Reads!vars
<1>1. Progress' = Progress
  BY DEF Progress
<1> QED BY <1>1 DEF Reads!vars

\* A step of one request moves that request alone.
LEMMA ProgressMoves ==
    ASSUME NEW th \in Threads, NEW from, NEW to, Progress[th] = from, Progress'[th] = to,
           \A other \in Threads : other # th => pc'[other] = pc[other]
    PROVE  Reads!Enters(th, from, to)
<1>1. \A other \in Threads : other # th => Progress'[other] = Progress[other]
  BY DEF Progress
<1>2. Progress' = [Progress EXCEPT ![th] = to]
  BY <1>1 DEF Progress
<1> QED BY <1>2 DEF Reads!Enters

\* Where a request is for its client.
LEMMA ProgressIs ==
    ASSUME TypeOK, NEW th \in Threads
    PROVE  /\ pc[th] = "idle" => Progress[th] = "idle"
           /\ pc[th] \in {"done", "failed"} => Progress[th] = "over"
           /\ pc[th] \in Held \cup {"enter"} => Progress[th] = "open"
BY DEF Progress, Held, TypeOK

\* A request that leaves its block without a record gives up, or is still under way.
LEMMA LeavesReads ==
    ASSUME TypeOK, TypeOK', UNCHANGED <<log, begin, req, since, out>>,
           NEW th \in Threads, pc[th] \in Held \cup {"enter"}, pc'[th] \notin {"idle"},
           \A other \in Threads : other # th => pc'[other] = pc[other]
    PROVE  Reads!End(th) \/ UNCHANGED Reads!vars
<1>1. Progress[th] = "open"
  BY ProgressIs
<1>2. CASE pc'[th] \in {"done", "failed"}
  <2>1. Progress'[th] = "over"
    BY <1>2 DEF Progress
  <2>2. Reads!Enters(th, "open", "over")
    BY <1>1, <2>1, ProgressMoves
  <2> QED BY <2>2 DEF Reads!End
<1>3. CASE pc'[th] \notin {"done", "failed"}
  <2>1. Progress'[th] = "open"
    BY <1>3 DEF Progress
  <2>2. \A other \in Threads : other # th => Progress'[other] = Progress[other]
    BY DEF Progress
  <2> QED BY <1>1, <2>1, <2>2, StaysOpen
<1> QED BY <1>2, <1>3

\* What the abstract request has returned of a partition.
LEMMA ReturnedReads ==
    ASSUME TypeOK, NEW th \in Threads, NEW p \in Partitions, NEW o
    PROVE  o \in Reads!Returned(th, p) <=>
               o \in 0..(Len(log[p]) - 1) /\ <<p, o>> \in Returned(th)
<1>1. out[th] \in Seq(Partitions \X Nat)
  BY DEF TypeOK
<1>2. DOMAIN out[th] = 1..Len(out[th])
  BY <1>1
<1> QED BY <1>2 DEF Reads!Returned, Returned

\* The record at the position is the next one that a request may return: before it, nothing
\* is left out but what is deleted, or before the start of a batch by timestamp.
LEMMA NextComplete ==
    ASSUME TypeOK, PlaceInv, PageInv, TimeInv,
           NEW th \in Threads, NEW p \in Partitions, pc[th] = "poll",
           NEW x \in 0..(Len(log[p]) - 1), pos[p] = x,
           req[th].kind \in {"poll", "offset"} => p = req[th].part,
           req[th].kind = "poll" => x = req[th].from
    PROVE  Reads!Complete(th, p, x)
<1> DEFINE first == IF req[th].kind = "time" THEN 0 ELSE req[th].from
<1>1. Len(log[p]) \in Nat /\ begin[p] \in Nat /\ x \in Nat /\ req[th].from \in Int
  BY DEF TypeOK, Request
<1>2. req[th].kind \in {"poll", "offset", "time"}
  BY DEF TypeOK, Request, PlaceInv, Places
<1>3. ASSUME NEW y \in first..(x - 1)
      PROVE  y < begin[p] \/ (y \in 0..(Len(log[p]) - 1) /\ y \in 0..(x - 1))
  BY <1>1
<1>4. CASE req[th].kind = "poll"
  <2>1. first..(x - 1) = {}
    BY <1>1, <1>4
  <2> QED BY <1>4, <2>1 DEF Reads!Complete
<1>5. CASE req[th].kind = "offset"
  <2>1. first <= x /\ Whole(th, p, first, x - 1)
    BY <1>5 DEF PageInv, OffsetPolled
  <2>2. \A y \in first..(x - 1) : y < begin[p] \/ y \in Reads!Returned(th, p)
    BY <1>3, <2>1, ReturnedReads DEF Whole
  <2> QED BY <2>1, <2>2 DEF Reads!Complete
<1>6. CASE req[th].kind = "time"
  <2>1. pending[th] = {}
    BY <1>6 DEF TimeInv, TimeSought
  <2>2. Started(th, p, x)
    BY <1>6, <2>1 DEF TimeInv, TimeSought
  <2>3. ASSUME NEW y \in first..(x - 1)
        PROVE  y < begin[p] \/ y \in Reads!Returned(th, p) \/ Reads!BeforeStart(th, p, y)
    <3>1. y < begin[p] \/ <<p, y>> \in Returned(th) \/ BeforeStart(th, p, y)
      BY <1>3, <2>2 DEF Started
    <3>2. BeforeStart(th, p, y) => Reads!BeforeStart(th, p, y)
      BY <1>6, ReturnedReads DEF BeforeStart, Reads!BeforeStart
    <3> QED BY <1>3, <3>1, <3>2, ReturnedReads
  <2> QED BY <1>6, <2>3 DEF Reads!Complete
<1> QED BY <1>2, <1>4, <1>5, <1>6

\* The poll of the consumer reads the log for its request, or gives up when the record is
\* not the one a single poll asks for.
LEMMA PollReads ==
    ASSUME TypeOK, TypeOK', MutualExclusion, BehindReturned, PlaceInv,
           ~BeyondEnd /\ Reset = "earliest" => PageInv /\ TimeInv,
           NEW th \in Threads, NEW p \in Partitions, PollOne(th, p)
    PROVE  Reads!Next
<1>1. PICK x : x = pos[p]
  OBVIOUS
<1>2. /\ pc[th] = "poll" /\ x \in Nat /\ x \in begin[p]..(Len(log[p]) - 1)
      /\ x \in 0..(Len(log[p]) - 1)
      /\ UNCHANGED <<log, begin, req, since>>
  BY <1>1 DEF PollOne, InRange, TypeOK, topicVars, seekVars
<1>3. x # None
  BY <1>2, ManualAssumption
<1>4. /\ pc'[th] \in {"poll", "done"}
      /\ req[th].kind = "poll" => pc'[th] = "done"
      /\ \A other \in Threads : other # th => pc'[other] = pc[other]
  BY DEF PollOne, TypeOK, Leave, PollOrLeave
<1>5. Progress[th] = "open" /\ Progress'[th] \in {"open", "over"}
  BY <1>2, <1>4 DEF Progress
<1>6. Reads!Enters(th, "open", "open") \/ Reads!Enters(th, "open", "over")
  BY <1>4, <1>5, ProgressMoves
<1>7. /\ Len(out[th]) < req[th].limit
      /\ req[th].kind \in {"poll", "offset"} => p = req[th].part
  BY <1>1, <1>2, <1>3 DEF PlaceInv, WithinLimit, OneAssigned
<1>8. out[th] \in Seq(Partitions \X Nat)
  BY DEF TypeOK
<1>9. ASSUME NEW y \in Reads!Returned(th, p)
      PROVE  y < x
  <2>1. <<p, y>> \in Returned(th)
    BY <1>9, ReturnedReads
  <2>2. PICK i \in 1..Len(out[th]) : out[th][i] = <<p, y>>
    BY <2>1 DEF Returned
  <2>3. out[th][i][1] = p /\ out[th][i][2] = y
    BY <2>2
  <2> QED BY <1>1, <1>2, <2>3 DEF BehindReturned
<1>10. ASSUME out' = [out EXCEPT ![th] = Append(@, <<p, x>>)],
              req[th].kind = "poll" => x = req[th].from
       PROVE  Reads!Next
  <2>1. ~BeyondEnd /\ Reset = "earliest" => Reads!Complete(th, p, x)
    BY <1>1, <1>2, <1>7, <1>10, NextComplete
  <2>2. Reads!Return(th, p, x)
    BY <1>2, <1>6, <1>7, <1>9, <1>10, <2>1 DEF Reads!Return
  <2> QED BY <1>2, <2>2 DEF Reads!Next
<1>11. CASE req[th].kind = "poll"
  <2>1. Len(out[th]) < 1
    BY <1>7, <1>11 DEF PlaceInv, WithinLimit
  <2>2. out[th] = << >>
    BY <1>8, <2>1
  <2>3. out' = [out EXCEPT ![th] = IF Validate(th, p, x) THEN <<<<p, x>>>> ELSE << >>]
    BY <1>1, <1>11 DEF PollOne
  <2>4. CASE Validate(th, p, x)
    <3>1. Append(out[th], <<p, x>>) = <<<<p, x>>>>
      BY <2>2
    <3>2. out' = [out EXCEPT ![th] = Append(@, <<p, x>>)]
      BY <2>3, <2>4, <3>1
    <3> QED BY <1>10, <2>4, <3>2 DEF Validate
  <2>5. CASE ~Validate(th, p, x)
    <3>1. out' = out
      BY <2>2, <2>3, <2>5 DEF TypeOK
    <3>2. Progress'[th] = "over"
      BY <1>4, <1>11 DEF Progress
    <3>3. Reads!Enters(th, "open", "over")
      BY <1>4, <1>5, <3>2, ProgressMoves
    <3>4. Reads!End(th)
      BY <1>2, <3>1, <3>3 DEF Reads!End
    <3> QED BY <3>4 DEF Reads!Next
  <2> QED BY <2>4, <2>5
<1>12. CASE req[th].kind # "poll"
  <2>1. out' = [out EXCEPT ![th] = Append(@, <<p, x>>)]
    BY <1>1, <1>12 DEF PollOne
  <2> QED BY <1>10, <1>12, <2>1
<1> QED BY <1>11, <1>12

\* Every step is one of LogReads or is not seen by it.
LEMMA ReadsStep ==
    ASSUME TypeOK, TypeOK', MutualExclusion, AnswerInv, PlaceInv,
           ~BeyondEnd /\ Reset = "earliest" => PageInv /\ TimeInv,
           [Next]_vars
    PROVE  [Reads!Next]_(Reads!vars)
<1>0. EmptyBefore /\ BehindReturned
  BY DEF AnswerInv
<1>1. ASSUME NEW p \in Partitions, Produce(p)
      PROVE  Reads!Next
  <2>1. Progress' = Progress
    BY <1>1 DEF Produce, Progress
  <2>2. Reads!Arrive(p)
    BY <1>1, <2>1 DEF Produce, seekVars, Reads!Arrive
  <2> QED BY <2>2 DEF Reads!Next
<1>2. ASSUME NEW p \in Partitions, Expire(p)
      PROVE  Reads!Next
  <2>1. Progress' = Progress
    BY <1>2 DEF Expire, Progress
  <2>2. Reads!Delete(p)
    BY <1>2, <2>1 DEF Expire, seekVars, Reads!Delete
  <2> QED BY <2>2 DEF Reads!Next
<1>3. CASE Destroy \/ UNCHANGED vars
  <2>1. UNCHANGED <<log, begin, req, since, out, pc>>
    BY <1>3 DEF Destroy, vars, topicVars, seekVars
  <2>2. \A th \in Threads : Progress'[th] = Progress[th]
    BY <2>1 DEF Progress
  <2> QED BY <2>1, <2>2, StaysOpen
<1>4. ASSUME NEW th \in Threads, NEW r, Ask(th, r)
      PROVE  Reads!Next
  <2>1. /\ UNCHANGED <<log, begin, since, out>> /\ pc[th] = "idle" /\ pc'[th] = "enter"
        /\ \A other \in Threads : other # th => pc'[other] = pc[other] /\ req'[other] = req[other]
    BY <1>4 DEF Ask, TypeOK, topicVars, seekVars
  <2>2. Progress[th] = "idle" /\ Progress'[th] = "open"
    BY <2>1 DEF Progress
  <2>3. Reads!Enters(th, "idle", "open")
    BY <2>1, <2>2, ProgressMoves
  <2>4. Reads!Ask(th)
    BY <2>1, <2>3 DEF Reads!Ask
  <2> QED BY <2>4 DEF Reads!Next
<1>5. ASSUME NEW th \in Threads, Answer(th)
      PROVE  Reads!Next
  <2>1. /\ UNCHANGED <<log, begin>> /\ pc[th] \in {"done", "failed"} /\ pc'[th] = "idle"
        /\ \A other \in Threads : other # th => pc'[other] = pc[other] /\ req'[other] = req[other]
    BY <1>5 DEF Answer, TypeOK, topicVars
  <2>2. Progress[th] = "over" /\ Progress'[th] = "idle"
    BY <2>1 DEF Progress
  <2>3. Reads!Enters(th, "over", "idle")
    BY <2>1, <2>2, ProgressMoves
  <2>4. Reads!Answer(th)
    BY <1>5, <2>1, <2>3 DEF Answer, NoRecords, Reads!Answer
  <2> QED BY <2>4 DEF Reads!Next
<1>6. ASSUME NEW th \in Threads, SeekToTimes(th)
      PROVE  Reads!Next
  <2>1. /\ UNCHANGED <<log, begin, req, out>> /\ pc[th] = "times" /\ pc'[th] = "ends"
        /\ \A other \in Threads : other # th => pc'[other] = pc[other]
        /\ since' = [since EXCEPT ![th] = [p \in Partitions |-> Len(log[p])]]
    BY <1>6 DEF SeekToTimes, TypeOK, topicVars
  <2>2. out[th] = << >> /\ req[th].kind = "time"
    BY <1>0, <2>1 DEF EmptyBefore, PlaceInv, Places
  <2>3. Progress[th] = "open" /\ Progress' = Progress
    BY <2>1 DEF Progress
  <2>4. Reads!LookUp(th)
    BY <2>1, <2>2, <2>3 DEF Reads!LookUp
  <2> QED BY <2>4 DEF Reads!Next
<1>7. ASSUME NEW th \in Threads,
             \/ Enter(th) \/ AssignAndSeek(th) \/ SeekRefused(th) \/ AllSought(th)
             \/ PollNone(th) \/ EndOffsets(th) \/ BeginningOffsets(th) \/ ClosedThrows(th) \/ BrokerFails(th)
      PROVE  [Reads!Next]_(Reads!vars)
  <2>1. UNCHANGED <<log, begin, req, since, out>>
    BY <1>7 DEF Enter, AssignAndSeek, SeekRefused, AllSought, PollNone, EndOffsets,
           BeginningOffsets, ClosedThrows, BrokerFails, Throws, topicVars, seekVars
  <2>2. /\ pc[th] \in Held \cup {"enter"} /\ pc'[th] \notin {"idle"}
        /\ \A other \in Threads : other # th => pc'[other] = pc[other]
    BY <1>7 DEF Enter, FirstStep, AssignAndSeek, SeekRefused, AllSought, PollNone, EndOffsets,
           BeginningOffsets, ClosedThrows, BrokerFails, Throws, Leave, PollOrLeave, Held, TypeOK
  <2>3. Reads!End(th) \/ UNCHANGED Reads!vars
    BY <2>1, <2>2, LeavesReads
  <2> QED BY <2>3 DEF Reads!Next
<1>8. ASSUME NEW th \in Threads, NEW p \in Partitions, SeekToEnd(th, p) \/ ResetPosition(th, p)
      PROVE  UNCHANGED Reads!vars
  <2>1. UNCHANGED <<log, begin, req, since, out, pc>>
    BY <1>8 DEF SeekToEnd, ResetPosition, topicVars, seekVars
  <2>2. \A other \in Threads : Progress'[other] = Progress[other]
    BY <2>1 DEF Progress
  <2> QED BY <2>1, <2>2, StaysOpen
<1>9. ASSUME NEW th \in Threads, NewRequest(th)
      PROVE  Reads!Next
  BY <1>4, <1>9 DEF NewRequest, AskPoll, AskBatch, AskInfo
<1>10. ASSUME NEW th \in Threads, NEW p \in Partitions, PollOne(th, p)
       PROVE  Reads!Next
  BY <1>0, <1>10, PollReads
<1>11. ASSUME NEW th \in Threads, Step(th)
       PROVE  [Reads!Next]_(Reads!vars)
  BY <1>5, <1>6, <1>7, <1>8, <1>10, <1>11 DEF Step
<1> QED BY <1>1, <1>2, <1>3, <1>7, <1>8, <1>9, <1>11 DEF Next, Topic

\* Requests on the shared consumer cannot be told from requests that each read the log by
\* themselves: the monitor of ManualKafkaConsumer is held from the seek to the last poll.
THEOREM ImplementsReads == Spec => ReadsOfLog
<1>1. Init => Reads!Init
  BY DEF Init, NoRecords, Progress, Reads!Init
<1>2. TypeOK /\ TypeOK' /\ MutualExclusion /\ AnswerInv /\ PlaceInv
          /\ (~BeyondEnd /\ Reset = "earliest" => PageInv /\ TimeInv) /\ [Next]_vars
          => [Reads!Next]_(Reads!vars)
  BY ReadsStep
<1>3. CASE ~BeyondEnd /\ Reset = "earliest"
  <2>1. TypeOK /\ TypeOK' /\ MutualExclusion /\ AnswerInv /\ PlaceInv /\ PageInv /\ TimeInv
            /\ [Next]_vars => [Reads!Next]_(Reads!vars)
    BY <1>2
  <2> QED
    BY <1>1, <1>3, <2>1, TypeCorrect, MutualExclusionAlways, AnswersRight, PlacesRight,
       PagesRight, TimesRight, PTL DEF Spec, ReadsOfLog, Reads!Spec
<1>4. CASE ~(~BeyondEnd /\ Reset = "earliest")
  <2>1. TypeOK /\ TypeOK' /\ MutualExclusion /\ AnswerInv /\ PlaceInv
            /\ [Next]_vars => [Reads!Next]_(Reads!vars)
    BY <1>2, <1>4
  <2> QED
    BY <1>1, <2>1, TypeCorrect, MutualExclusionAlways, AnswersRight, PlacesRight,
       PTL DEF Spec, ReadsOfLog, Reads!Spec
<1> QED BY <1>3, <1>4

==============================================================================
