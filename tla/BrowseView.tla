------------------------------ MODULE BrowseView ------------------------------
(***************************************************************************)
(* The browse view of the console: one user, and requests whose answers    *)
(* come when they come, in any order, whatever the user has done meanwhile.*)
(*                                                                         *)
(* A record is its topic, partition and offset.  The topic is not in the   *)
(* answers of the REST API; it is kept here to say where a record is from. *)
(* Filtering is left out but for what it closes: it hides rows, no more.   *)
(***************************************************************************)
EXTENDS Integers, Sequences, SequencesExt

CONSTANTS
    Topics,
    Partitions,
    None,          \* no row, nothing to correct
    Limit,         \* records of a batch
    MaxHistory,    \* PollHistory.MAX, 10 in the code
    Patient,       \* TRUE: the user touches the form and the sidebar only when
                   \* no request is under way
    MaxOffset,     \* bound: records of a partition
    MaxRequests    \* bound: requests of one behaviour

ASSUME BrowseAssumption ==
    /\ 0 \in Partitions /\ Partitions \subseteq Nat
    /\ Limit \in Nat \ {0} /\ MaxHistory \in Nat \ {0} /\ Patient \in BOOLEAN
    /\ MaxOffset \in Nat \ {0} /\ MaxRequests \in Nat

VARIABLES
    topic,      \* state.topic, the topic of the route
    form,       \* state.mode, state.partition and state.startOffset
    records,    \* state.records
    hasMore,
    loading, retrying, sending,
    expanded,   \* state.expandedKey: partition and offset of a row, or None
    showEditor,
    correction, \* the record the text of the correction was filled from, or None
    showDiffModal,
    history,    \* history[t]: PollHistory of t, in localStorage
    flying,     \* requests that are not answered yet
    made,       \* requests made
    browsed     \* browsed[t]: the places of t that a batch was asked from

formVars == <<topic, form, history>>
rowVars  == <<expanded, showEditor, correction, showDiffModal>>
askVars  == <<flying, made, browsed>>
vars == <<formVars, records, hasMore, loading, retrying, sending, rowVars, askVars>>

Offsets == 0..(MaxOffset - 1)
Place   == Partitions \X Offsets
Record  == [topic : Topics, at : Place]
Form    == [mode : {"timestamp", "offset"}, at : Place]

\* at is where a batch starts, <<>> for a batch by timestamp; record is what a retry
\* or a correction is about.
Request ==
    [id : Nat, kind : {"browse", "more"}, topic : Topics, at : Place \cup {<< >>}]
        \cup [id : Nat, kind : {"retry", "correct"}, topic : Topics, record : Record]

TypeOK ==
    /\ topic \in Topics
    /\ form \in Form
    /\ records \in Seq(Record)
    /\ hasMore \in BOOLEAN
    /\ loading \in BOOLEAN /\ retrying \in BOOLEAN /\ sending \in BOOLEAN
    /\ expanded \in Place \cup {None}
    /\ showEditor \in BOOLEAN /\ showDiffModal \in BOOLEAN
    /\ correction \in Record \cup {None}
    /\ history \in [Topics -> Seq(Place)]
    /\ \A t \in Topics : Len(history[t]) <= MaxHistory
    /\ flying \in SUBSET Request
    /\ made \in Nat
    /\ browsed \in [Topics -> SUBSET Place]

FreshForm == [mode |-> "timestamp", at |-> <<0, 0>>]

Init ==
    /\ topic \in Topics
    /\ form = FreshForm
    /\ records = << >> /\ hasMore = FALSE
    /\ loading = FALSE /\ retrying = FALSE /\ sending = FALSE
    /\ expanded = None /\ showEditor = FALSE
    /\ correction = None /\ showDiffModal = FALSE
    /\ history = [t \in Topics |-> << >>]
    /\ flying = {} /\ made = 0
    /\ browsed = [t \in Topics |-> {}]

------------------------------------------------------------------------------

AnyBusy == loading \/ retrying \/ sending

\* The records of the rows that are expanded: more than one if a place is shown twice.
ExpandedRows == {records[i] : i \in {k \in 1..Len(records) : records[k].at = expanded}}

\* The first of them, as a set of at most one.
ExpandedRecord ==
    LET rows == {i \in 1..Len(records) : records[i].at = expanded} IN
    IF rows = {} THEN {} ELSE {records[Min(rows)]}

\* The diff modal is shown; it covers everything else.
ModalShown == showDiffModal /\ ExpandedRecord # {}

\* The user can reach the form and the sidebar.
Free == Patient => ~AnyBusy

Send(request) ==
    /\ made < MaxRequests
    /\ made' = made + 1
    /\ flying' = flying \cup {request}

\* Slip: the rows of the old topic stay.
ResetKeepsRecords(t) ==
    /\ topic' = t
    /\ form' = FreshForm
    /\ loading' = FALSE /\ retrying' = FALSE /\ sending' = FALSE
    /\ expanded' = None /\ showEditor' = FALSE
    /\ correction' = None /\ showDiffModal' = FALSE
    /\ UNCHANGED <<history, records, hasMore, askVars>>

\* resetState: everything but what is stored and what is asked.
ResetState(t) ==
    /\ topic' = t
    /\ form' = FreshForm
    /\ records' = << >> /\ hasMore' = FALSE
    /\ loading' = FALSE /\ retrying' = FALSE /\ sending' = FALSE
    /\ expanded' = None /\ showEditor' = FALSE
    /\ correction' = None /\ showDiffModal' = FALSE
    /\ UNCHANGED <<history, askVars>>

\* A click in the sidebar, or the browser's history: the view sees another topic in
\* the route.
SwitchTopic(t) ==
    /\ Free
    /\ t # topic
    /\ ResetState(t)

\* The user edits the form, or picks an entry of the history.
EditForm ==
    /\ Free /\ ~ModalShown
    /\ form' \in Form
    /\ UNCHANGED <<topic, history, records, hasMore, loading, retrying, sending, rowVars,
                   askVars>>

\* fetchRecords(false).  The button is disabled while something is under way, the
\* Enter key in the form is not.
Browse ==
    /\ Free /\ ~ModalShown
    /\ LET at == IF form.mode = "offset" THEN form.at ELSE << >> IN
          /\ Send([id |-> made, kind |-> "browse", topic |-> topic, at |-> at])
          /\ browsed' = IF at = << >> THEN browsed
                        ELSE [browsed EXCEPT ![topic] = @ \cup {at}]
    /\ loading' = TRUE
    /\ records' = << >>
    /\ expanded' = None /\ showEditor' = FALSE
    /\ UNCHANGED <<formVars, hasMore, retrying, sending, correction, showDiffModal>>

\* Slip: load more starts at the last record.
SameOffset(last) == <<last.at[1], last.at[2]>>

\* buildParams for load more: behind the last record.
NextOffset(last) == <<last.at[1], last.at[2] + 1>>

\* Slip: the button stays enabled while a batch is under way.
LoadMoreAgain ==
    /\ ~ModalShown
    /\ records # << >> /\ hasMore
    /\ NextOffset(Last(records)) \in Place
    /\ Send([id |-> made, kind |-> "more", topic |-> topic, at |-> NextOffset(Last(records))])
    /\ loading' = TRUE
    /\ UNCHANGED <<formVars, records, hasMore, retrying, sending, rowVars, browsed>>

\* fetchRecords(true).
LoadMore ==
    /\ ~ModalShown
    /\ records # << >> /\ hasMore /\ ~loading
    /\ NextOffset(Last(records)) \in Place
    /\ Send([id |-> made, kind |-> "more", topic |-> topic, at |-> NextOffset(Last(records))])
    /\ loading' = TRUE
    /\ UNCHANGED <<formVars, records, hasMore, retrying, sending, rowVars, browsed>>

\* What the REST API may answer: records of the topic in the order of their offsets
\* (ManualConsumer says why), all of one partition when a place was given.  An offset
\* that is out of range is reset to another place; the one behind a record never is.
Batches(r) ==
    {s \in UNION {[1..n -> [topic : {r.topic}, at : Place]] : n \in 0..Limit} :
        /\ \A j \in 1..Len(s) : \A i \in 1..(j - 1) :
              s[i].at[1] = s[j].at[1] => s[i].at[2] < s[j].at[2]
        /\ r.at # << >> => \A i \in 1..Len(s) : s[i].at[1] = r.at[1]
        /\ r.kind = "more" => \A i \in 1..Len(s) : s[i].at[2] >= r.at[2]}

\* The entries other than at, in their order.
Without(entries, at) ==
    LET kept[n \in 0..Len(entries)] ==
          IF n = 0 THEN << >>
          ELSE IF entries[n] = at THEN kept[n - 1] ELSE Append(kept[n - 1], entries[n])
    IN kept[Len(entries)]

\* Slip: an entry that is there already is added once more.
RememberTwice(entries, at) == SubSeq(<<at>> \o entries, 1, Min({Len(entries) + 1, MaxHistory}))

\* Slip: nothing is cut off.
RememberAll(entries, at) == <<at>> \o Without(entries, at)

\* PollHistory.add.
Remember(entries, at) ==
    LET others == Without(entries, at) IN
    SubSeq(<<at>> \o others, 1, Min({Len(others) + 1, MaxHistory}))

\* Slip: the form is remembered for a batch by timestamp, too.
RememberedInAnyMode(r) == r.kind = "browse"

\* The form as it is now decides, not the form the batch was asked with.
Remembered(r) == r.kind = "browse" /\ form.mode = "offset"

\* The answer to a batch goes to the topic and the rows as they are now.  A place that
\* does not fit into the storage any more is not remembered.
BatchAnswered(r) ==
    /\ r \in flying /\ r.kind \in {"browse", "more"}
    /\ \E s \in Batches(r) :
          /\ records' = IF r.kind = "more" THEN records \o s ELSE s
          /\ hasMore' = (Len(s) = Limit)
    /\ \/ /\ Remembered(r) /\ records' # << >>
          /\ history' = [history EXCEPT ![topic] = Remember(@, form.at)]
       \/ UNCHANGED history
    /\ loading' = FALSE
    /\ flying' = flying \ {r}
    /\ UNCHANGED <<topic, form, retrying, sending, rowVars, made, browsed>>

\* Slip: only an answer resets the flag.
BatchFailsQuietly(r) ==
    /\ r \in flying /\ r.kind \in {"browse", "more"}
    /\ flying' = flying \ {r}
    /\ UNCHANGED <<formVars, records, hasMore, loading, retrying, sending, rowVars, made,
                   browsed>>

BatchFails(r) ==
    /\ r \in flying /\ r.kind \in {"browse", "more"}
    /\ loading' = FALSE
    /\ flying' = flying \ {r}
    /\ UNCHANGED <<formVars, records, hasMore, retrying, sending, rowVars, made, browsed>>

------------------------------------------------------------------------------
(* A row. *)

\* Slip: the editor stays open for the next row.
ToggleKeepsEditor(i) ==
    /\ ~ModalShown
    /\ i \in 1..Len(records)
    /\ expanded' = IF expanded = records[i].at THEN None ELSE records[i].at
    /\ UNCHANGED <<formVars, records, hasMore, loading, retrying, sending, showEditor,
                   correction, showDiffModal, askVars>>

\* expandRow: a second click closes it; the editor closes with the row it is in.
ToggleRow(i) ==
    /\ ~ModalShown
    /\ i \in 1..Len(records)
    /\ expanded' = IF expanded = records[i].at THEN None ELSE records[i].at
    /\ showEditor' = FALSE
    /\ UNCHANGED <<formVars, records, hasMore, loading, retrying, sending, correction,
                   showDiffModal, askVars>>

\* Typing in the filter closes the row.
Filter ==
    /\ ~ModalShown /\ records # << >>
    /\ expanded' = None /\ showEditor' = FALSE
    /\ UNCHANGED <<formVars, records, hasMore, loading, retrying, sending, correction,
                   showDiffModal, askVars>>

\* retryRecord: partition and offset are those of the row, the topic is state.topic.
RetryRecord ==
    /\ ~ModalShown /\ ~AnyBusy
    /\ \E record \in ExpandedRows :
          Send([id |-> made, kind |-> "retry", topic |-> topic, record |-> record])
    /\ retrying' = TRUE
    /\ UNCHANGED <<formVars, records, hasMore, loading, sending, rowVars, browsed>>

RetryAnswered(r) ==
    /\ r \in flying /\ r.kind = "retry"
    /\ retrying' = FALSE
    /\ flying' = flying \ {r}
    /\ UNCHANGED <<formVars, records, hasMore, loading, sending, rowVars, made, browsed>>

\* Slip: the button is not disabled.
OpenEditorAnytime ==
    /\ ~ModalShown
    /\ correction' \in ExpandedRows
    /\ showEditor' = TRUE
    /\ UNCHANGED <<formVars, records, hasMore, loading, retrying, sending, expanded,
                   showDiffModal, askVars>>

\* openEditorForRecord; the button is disabled while something is under way.
OpenEditor ==
    /\ ~ModalShown /\ ~AnyBusy
    /\ correction' \in ExpandedRows
    /\ showEditor' = TRUE
    /\ UNCHANGED <<formVars, records, hasMore, loading, retrying, sending, expanded,
                   showDiffModal, askVars>>

\* The editor is inside the expanded row.
EditorShown == showEditor /\ ExpandedRows # {} /\ ~ModalShown

CloseEditor ==
    /\ EditorShown
    /\ showEditor' = FALSE
    /\ UNCHANGED <<formVars, records, hasMore, loading, retrying, sending, expanded,
                   correction, showDiffModal, askVars>>

\* reviewCorrection, of a payload that parses.
Review ==
    /\ EditorShown /\ ~AnyBusy
    /\ showDiffModal' = TRUE
    /\ UNCHANGED <<formVars, records, hasMore, loading, retrying, sending, expanded,
                   showEditor, correction, askVars>>

CancelDiff ==
    /\ ModalShown
    /\ showDiffModal' = FALSE
    /\ UNCHANGED <<formVars, records, hasMore, loading, retrying, sending, expanded,
                   showEditor, correction, askVars>>

\* confirmSendCorrection sends the text and state.topic.
Confirm ==
    /\ ModalShown
    /\ showDiffModal' = FALSE
    /\ Send([id |-> made, kind |-> "correct", topic |-> topic, record |-> correction])
    /\ sending' = TRUE
    /\ UNCHANGED <<formVars, records, hasMore, loading, retrying, expanded, showEditor,
                   correction, browsed>>

\* The answer closes the editor that is open now; an error leaves it open.
CorrectionAnswered(r) ==
    /\ r \in flying /\ r.kind = "correct"
    /\ showEditor' \in {FALSE, showEditor}
    /\ sending' = FALSE
    /\ flying' = flying \ {r}
    /\ UNCHANGED <<formVars, records, hasMore, loading, retrying, expanded, correction,
                   showDiffModal, made, browsed>>

------------------------------------------------------------------------------

\* What the user does inside the view.
InView ==
    \/ EditForm
    \/ Browse
    \/ LoadMore
    \/ \E i \in 1..Len(records) : ToggleRow(i)
    \/ Filter
    \/ RetryRecord
    \/ OpenEditor
    \/ CloseEditor
    \/ Review
    \/ CancelDiff
    \/ Confirm

User ==
    \/ \E t \in Topics : SwitchTopic(t)
    \/ InView

Answered ==
    \E r \in flying :
        \/ BatchAnswered(r)
        \/ BatchFails(r)
        \/ RetryAnswered(r)
        \/ CorrectionAnswered(r)

Next == User \/ Answered

Spec == Init /\ [][Next]_vars

\* Every request ends: the browser reports an answer or an error.
FairSpec == Spec /\ WF_vars(Answered)

------------------------------------------------------------------------------
(* Properties. *)

\* Load more never shows a row twice: its batches join on (buildParams).
RowsUnique ==
    \A i, j \in 1..Len(records) : records[i].at = records[j].at => i = j

\* "Same topic/partition/offset is sent to the retry endpoint": a retry or a
\* correction goes to the topic that its record was read from, although the request
\* takes state.topic (retryRecord, confirmSendCorrection).  The code keeps this for
\* a patient user only.
SentToItsTopic ==
    \A r \in flying : r.kind \in {"retry", "correct"} => r.record.topic = r.topic

\* The record that the diff modal compares the correction with is the one the
\* correction was written for (openEditorForRecord, DiffModal).  For a patient user:
\* a late answer replaces the rows under the editor.
DiffOfEditor == ModalShown => ExpandedRecord = {correction}

\* The answer to a correction closes the editor that is open then: it is the one the
\* correction was written in (confirmSendCorrection).  For a patient user: after a switch
\* of topic an editor can be opened while the correction is under way, and is lost.
AnswerClosesItsEditor ==
    \A r \in flying : r.kind = "correct" /\ showEditor => r.record = correction

\* A flag is set as long as a request of its kinds is under way, and there is only one.
Tells(flag, kinds) ==
    /\ flag <=> \E r \in flying : r.kind \in kinds
    /\ \A r1, r2 \in flying : r1.kind \in kinds /\ r2.kind \in kinds => r1 = r2

\* The flags that disable the buttons tell the requests under way, at most one
\* of each kind.  For a patient user: a switch of topic resets them.
FlagsTellRequests ==
    /\ Tells(loading, {"browse", "more"})
    /\ Tells(retrying, {"retry"})
    /\ Tells(sending, {"correct"})

\* The history of a topic holds places that were browsed in this topic.  For a patient
\* user: the topic and the form are read when the answer comes.
HistoryBrowsed == \A t \in Topics : \A i \in 1..Len(history[t]) : history[t][i] \in browsed[t]

\* Whatever is answered when, the history of a topic has no entry twice, so that all
\* MaxHistory places are of use (PollHistory.add).
HistoryUnique ==
    \A t \in Topics : \A i, j \in 1..Len(history[t]) : history[t][i] = history[t][j] => i = j

\* No button stays disabled for good, whatever fails and whatever the user does.
BusyEnds == (loading ~> ~loading) /\ (retrying ~> ~retrying) /\ (sending ~> ~sending)

===============================================================================
