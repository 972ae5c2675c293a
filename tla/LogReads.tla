------------------------------- MODULE LogReads -------------------------------
(***************************************************************************)
(* What the requests for one topic promise, without a consumer to share:   *)
(* each reads the log by itself, a record at a time, while records arrive  *)
(* and are deleted.  How a request may fail, and when it gives up, is left *)
(* open; what it may return is not.                                        *)
(***************************************************************************)
EXTENDS Integers, Sequences

CONSTANTS
    Threads, Partitions,
    Times,    \* the timestamps of records
    Gapless   \* what is asked for is there, and what is deleted is skipped, not more

VARIABLES
    log,    \* log[p]: the timestamps of all records p has ever had
    begin,  \* begin[p]: the records before this offset are deleted
    state,  \* state[th]: "idle", "open" or "over"
    since,  \* since[th][p]: the records of p when the timestamp was looked up
    req,    \* req[th]: what it asks for
    out     \* out[th]: the places <<p, o>> of the records it returns

vars == <<log, begin, state, req, since, out>>

Init ==
    /\ log = [p \in Partitions |-> << >>]
    /\ begin = [p \in Partitions |-> 0]
    /\ state = [th \in Threads |-> "idle"]
    /\ since = [th \in Threads |-> [p \in Partitions |-> 0]]
    /\ out = [th \in Threads |-> << >>]

Arrive(p) ==
    /\ \E t \in Times : log' = [log EXCEPT ![p] = Append(@, t)]
    /\ UNCHANGED <<begin, state, req, since, out>>

Delete(p) ==
    /\ begin[p] < Len(log[p])
    /\ begin' = [begin EXCEPT ![p] = @ + 1]
    /\ UNCHANGED <<log, state, req, since, out>>

Enters(th, from, to) == state[th] = from /\ state' = [state EXCEPT ![th] = to]

\* Whatever is asked for.
Ask(th) ==
    /\ Enters(th, "idle", "open")
    /\ \A other \in Threads \ {th} : req'[other] = req[other]
    /\ UNCHANGED <<log, begin, since, out>>

\* A batch by timestamp looks for its start in the records there are.
LookUp(th) ==
    /\ state[th] = "open" /\ req[th].kind = "time" /\ out[th] = << >>
    /\ since' = [since EXCEPT ![th] = [p \in Partitions |-> Len(log[p])]]
    /\ UNCHANGED <<log, begin, state, req, out>>

Returned(th, p) == {o \in 0..(Len(log[p]) - 1) : \E i \in DOMAIN out[th] : out[th][i] = <<p, o>>}

\* A batch by timestamp starts behind records that are older or came too late for it.
BeforeStart(th, p, o) ==
    /\ req[th].kind = "time" /\ \A x \in Returned(th, p) : o < x
    /\ log[p][o + 1] < req[th].from \/ since[th][p] <= o

\* Nothing is left out before o: what is not returned is deleted or before the start.
Complete(th, p, o) ==
    LET first == IF req[th].kind = "time" THEN 0 ELSE req[th].from IN
    /\ req[th].kind = "offset" => first <= o
    /\ \A x \in first..(o - 1) : x < begin[p] \/ x \in Returned(th, p) \/ BeforeStart(th, p, x)

\* One more record is returned: one that is there, that was asked for, behind those that
\* were returned of its partition, and within the limit.
Return(th, p, o) ==
    /\ Enters(th, "open", "open") \/ Enters(th, "open", "over")
    /\ o \in begin[p]..(Len(log[p]) - 1)
    /\ Len(out[th]) < req[th].limit
    /\ req[th].kind \in {"poll", "offset"} => p = req[th].part
    /\ req[th].kind = "poll" => o = req[th].from
    /\ \A x \in Returned(th, p) : x < o
    /\ Gapless => Complete(th, p, o)
    /\ out' = [out EXCEPT ![th] = Append(@, <<p, o>>)]
    /\ UNCHANGED <<log, begin, req, since>>

\* The limit, a timeout or a failure.
End(th) == Enters(th, "open", "over") /\ UNCHANGED <<log, begin, req, since, out>>

Answer(th) ==
    /\ Enters(th, "over", "idle")
    /\ \A other \in Threads \ {th} : req'[other] = req[other]
    /\ out' = [out EXCEPT ![th] = << >>]
    /\ since' = [since EXCEPT ![th] = [p \in Partitions |-> 0]]
    /\ UNCHANGED <<log, begin>>

Next ==
    \/ \E p \in Partitions : Arrive(p) \/ Delete(p)
    \/ \E th \in Threads :
          \/ Ask(th) \/ LookUp(th) \/ End(th) \/ Answer(th)
          \/ \E p \in Partitions : \E o \in 0..(Len(log[p]) - 1) : Return(th, p, o)

Spec == Init /\ [][Next]_vars

==============================================================================
