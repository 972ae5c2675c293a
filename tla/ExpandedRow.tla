------------------------------ MODULE ExpandedRow ------------------------------
(***************************************************************************)
(* The expanded row of the browse view: the JSON viewers of its key and    *)
(* value, which share one set of folds, the correction editor and the diff *)
(* modal.  How the rows come and go, and the requests other than           *)
(* corrections, are in BrowseView.                                         *)
(***************************************************************************)
EXTENDS JsonDiff

CONSTANTS
    Records,    \* the records of the table: topic, place, key and value
    KeyTexts,   \* bound: what the user may type for a key ...
    ValueTexts, \* ... and for a value
    None,       \* no row
    MaxFlying   \* bound: corrections under way at once

Topics == {r.topic : r \in Records}
Places == {r.at : r \in Records}
NoText == PlainText("")   \* also for a record without key

ASSUME RowAssumption ==
    /\ \A r \in Records : {r.key, r.value} \subseteq Texts
    /\ KeyTexts \subseteq Texts /\ ValueTexts \subseteq Texts /\ NoText \in Texts
    /\ \A r, s \in Records : r.topic = s.topic /\ r.at = s.at => r = s
    /\ None \notin Records
    /\ MaxFlying \in Nat

VARIABLES
    topic,         \* state.topic
    row,           \* the record of state.expandedKey, or None
    keyExpanded,
    folds,         \* collapsed: the paths that are folded
    lastInstance,  \* lastInstanceKey: the viewer and place of the last redraw
    foldedOn,      \* history: the record that the last of the folds was made on, or None
    keyText, valueText,  \* correctionKey, correctionValue
    typed,         \* history: something was typed since the editor was opened
    showEditor, jsonError, showDiffModal, sending,
    flying         \* corrections that are not answered yet

viewerVars == <<keyExpanded, folds, lastInstance, foldedOn>>
textVars   == <<keyText, valueText, typed>>
vars == <<topic, row, viewerVars, textVars, showEditor, jsonError, showDiffModal, sending,
          flying>>

Instances == {"key", "value"} \X Places

TypeOK ==
    /\ topic \in Topics
    /\ row \in Records \cup {None}
    /\ keyExpanded \in BOOLEAN
    /\ folds \subseteq STRING
    /\ lastInstance \in Instances \cup {None}
    /\ foldedOn \in Records \cup {None}
    /\ keyText \in Texts /\ valueText \in Texts
    /\ typed \in BOOLEAN /\ showEditor \in BOOLEAN /\ jsonError \in BOOLEAN
    /\ showDiffModal \in BOOLEAN /\ sending \in BOOLEAN
    /\ flying \in 0..MaxFlying

Init ==
    /\ topic \in Topics
    /\ row = None
    /\ keyExpanded = FALSE /\ folds = {} /\ lastInstance = None /\ foldedOn = None
    /\ keyText = NoText /\ valueText = NoText /\ typed = FALSE
    /\ showEditor = FALSE /\ jsonError = FALSE /\ showDiffModal = FALSE /\ sending = FALSE
    /\ flying = 0

------------------------------------------------------------------------------
(* The JSON viewers. *)

\* isJsonLike.
IsJsonLike(t) == Holds(t)

KeyViewerShown == row # None /\ keyExpanded /\ IsJsonLike(row.key)

\* A viewer forgets the folds when the one drawn before it was another.
Drawn(v, instance) ==
    IF v.last = instance THEN v ELSE [last |-> instance, folds |-> {}]

\* Slip: the folds are never reset.
RedrawKeepingFolds(r, keyOpen, paths, by) ==
    /\ folds' = paths
    /\ lastInstance' = <<"value", r.at>>
    /\ foldedOn' = IF folds' = {} THEN None ELSE by

\* Every handler ends in a redraw of the viewers, the one of the key first.  by is the
\* record that the last of these folds was made on.
Redraw(r, keyOpen, paths, by) ==
    LET before == [last |-> lastInstance, folds |-> paths]
        key    == IF keyOpen /\ IsJsonLike(r.key) THEN Drawn(before, <<"key", r.at>>)
                  ELSE before
        value  == Drawn(key, <<"value", r.at>>)
    IN  /\ folds' = value.folds /\ lastInstance' = value.last
        /\ foldedOn' = IF value.folds = {} THEN None ELSE by

\* The paths of the nodes of t that can be folded and are not inside a folded one.
Nodes(t) ==
    LET nodes[v \in Texts, path \in STRING] ==
          IF ~Holds(v) \/ v.items = << >> THEN {}
          ELSE {path} \cup
               (IF path \in folds THEN {}
                ELSE UNION {nodes[v.items[i].value, PathIn(v, path, v.items[i].key)] :
                              i \in DOMAIN v.items})
    IN nodes[t, "$"]

ModalShown == showDiffModal /\ row # None

\* Slip: folding a node unfolds the others.
FoldOnly ==
    /\ row # None /\ ~ModalShown
    /\ \E p \in Nodes(row.value) \cup (IF KeyViewerShown THEN Nodes(row.key) ELSE {}) :
          Redraw(row, keyExpanded, IF p \in folds THEN folds \ {p} ELSE {p}, row)
    /\ UNCHANGED <<topic, row, keyExpanded, textVars, showEditor, jsonError, showDiffModal,
                   sending, flying>>

\* toggle, in one of the viewers of the row.
ToggleFold ==
    /\ row # None /\ ~ModalShown
    /\ \E p \in Nodes(row.value) \cup (IF KeyViewerShown THEN Nodes(row.key) ELSE {}) :
          Redraw(row, keyExpanded, IF p \in folds THEN folds \ {p} ELSE folds \cup {p}, row)
    /\ UNCHANGED <<topic, row, keyExpanded, textVars, showEditor, jsonError, showDiffModal,
                   sending, flying>>

\* renderKeySection.
ToggleKey ==
    /\ row # None /\ ~ModalShown
    /\ IsJsonLike(row.key)
    /\ keyExpanded' = ~keyExpanded
    /\ Redraw(row, keyExpanded', folds, foldedOn)
    /\ UNCHANGED <<topic, row, textVars, showEditor, jsonError, showDiffModal,
                   sending, flying>>

\* expandRow.
CloseRow ==
    /\ row # None /\ ~ModalShown
    /\ row' = None
    /\ showEditor' = FALSE
    /\ UNCHANGED <<topic, viewerVars, textVars, jsonError, showDiffModal, sending, flying>>

OpenRow(r) ==
    /\ r.topic = topic /\ r # row /\ ~ModalShown
    /\ row' = r
    /\ showEditor' = FALSE /\ jsonError' = FALSE /\ keyExpanded' = FALSE
    /\ Redraw(r, FALSE, folds, foldedOn)
    /\ UNCHANGED <<topic, textVars, showDiffModal, sending, flying>>

\* resetState.
SwitchTopic(t) ==
    /\ t # topic
    /\ topic' = t
    /\ row' = None
    /\ keyText' = NoText /\ valueText' = NoText /\ typed' = FALSE
    /\ keyExpanded' = FALSE
    /\ showEditor' = FALSE /\ jsonError' = FALSE /\ showDiffModal' = FALSE /\ sending' = FALSE
    /\ UNCHANGED <<folds, lastInstance, foldedOn, flying>>

------------------------------------------------------------------------------
(* The correction editor. *)

\* A text as the editor shows it: reformatted if it is JSON, which rounds its numbers.
Opened(t) == IF IsJson(t) THEN Parse[t] ELSE t

\* openEditorForRecord: a key is reformatted only if it is an object or an array.
OpenEditor ==
    /\ row # None /\ ~ModalShown /\ ~sending
    /\ keyText' = IF IsJsonLike(row.key) THEN Opened(row.key) ELSE row.key
    /\ valueText' = Opened(row.value)
    /\ typed' = FALSE
    /\ jsonError' = FALSE
    /\ showEditor' = TRUE
    /\ UNCHANGED <<topic, row, viewerVars, showDiffModal, sending, flying>>

EditorShown == showEditor /\ row # None /\ ~ModalShown

\* The field of the key is there as long as it is not empty.
TypeKey ==
    /\ EditorShown
    /\ keyText # NoText
    /\ keyText' \in KeyTexts
    /\ typed' = TRUE
    /\ UNCHANGED <<topic, row, viewerVars, valueText, showEditor, jsonError, showDiffModal,
                   sending, flying>>

TypeValue ==
    /\ EditorShown
    /\ valueText' \in ValueTexts
    /\ typed' = TRUE
    /\ UNCHANGED <<topic, row, viewerVars, keyText, showEditor, jsonError, showDiffModal,
                   sending, flying>>

CloseEditor ==
    /\ EditorShown
    /\ showEditor' = FALSE /\ jsonError' = FALSE
    /\ UNCHANGED <<topic, row, viewerVars, textVars, showDiffModal, sending, flying>>

\* reviewCorrection, of a text that is not empty.
Review ==
    /\ EditorShown /\ ~sending
    /\ valueText # NoText
    /\ jsonError' = ~IsJson(valueText)
    /\ showDiffModal' = IsJson(valueText)
    /\ UNCHANGED <<topic, row, viewerVars, textVars, showEditor, sending, flying>>

------------------------------------------------------------------------------
(* The diff modal. *)

Comparable == IsJson(row.value) /\ IsJson(valueText)

ValueRows == IF Comparable THEN Rows(Diff(row.value, valueText)) ELSE {}

\* A key is compared if the record has one, it was not emptied, and both are JSON.
KeyRows ==
    IF row.key # NoText /\ keyText # NoText /\ IsJson(row.key) /\ IsJson(keyText)
    THEN Rows(Diff(row.key, keyText))
    ELSE {}

NoChangesDetected == Comparable /\ ValueRows = {} /\ KeyRows = {}

CancelDiff ==
    /\ ModalShown
    /\ showDiffModal' = FALSE
    /\ UNCHANGED <<topic, row, viewerVars, textVars, showEditor, jsonError, sending, flying>>

\* confirmSendCorrection; the button is disabled if there is nothing to compare.
Confirm ==
    /\ ModalShown /\ Comparable
    /\ flying < MaxFlying
    /\ showDiffModal' = FALSE
    /\ sending' = TRUE
    /\ flying' = flying + 1
    /\ UNCHANGED <<topic, row, viewerVars, textVars, showEditor, jsonError>>

\* Slip: an answer is taken for one more than was asked.
AnsweredTwice ==
    /\ flying' = flying - 1
    /\ sending' = FALSE
    /\ showEditor' \in {FALSE, showEditor}
    /\ UNCHANGED <<topic, row, viewerVars, textVars, jsonError, showDiffModal>>

\* An answer closes the editor that is open now, an error does not.
Answered ==
    /\ flying > 0
    /\ flying' = flying - 1
    /\ sending' = FALSE
    /\ showEditor' \in {FALSE, showEditor}
    /\ UNCHANGED <<topic, row, viewerVars, textVars, jsonError, showDiffModal>>

------------------------------------------------------------------------------

Next ==
    \/ \E r \in Records : OpenRow(r)
    \/ CloseRow
    \/ \E t \in Topics : SwitchTopic(t)
    \/ ToggleFold \/ ToggleKey
    \/ OpenEditor \/ TypeKey \/ TypeValue \/ CloseEditor
    \/ Review \/ CancelDiff \/ Confirm \/ Answered

Spec == Init /\ [][Next]_vars

------------------------------------------------------------------------------
(* Properties. *)

\* A key whose changes the modal can show: unchanged, or JSON before and after.
KeyCompared ==
    \/ keyText = row.key
    \/ IsJson(keyText) /\ IsJson(row.key) /\ Tidy[keyText] /\ Tidy[row.key]

\* "With a diff confirmation popup before sending": the modal says "No changes detected."
\* exactly when the correction is the record, for texts that are Tidy and keys that are
\* compared.  For others the code hides changes (flatten, computeDiff, DiffModal.view).
NothingHidden ==
    ModalShown /\ Comparable /\ Tidy[row.value] /\ Tidy[valueText] /\ KeyCompared =>
        (NoChangesDetected <=> Same[row.value, valueText] /\ Same[row.key, keyText])

\* Whatever the record holds, opening the editor and typing nothing shows no change: the
\* editor's reformatting and the modal's parsing agree (openEditorForRecord, computeDiff).
\* Not even the rounding of a number shows, which is one.  Numbers that no double is near
\* to are not among the texts: the editor writes null for them, and that does show.
NoFalseAlarm == ModalShown /\ ~typed /\ Comparable => NoChangesDetected

\* The folds that the viewers share are those of the row that is open: a row at another
\* place never inherits them (JsonViewer.view; one of another topic at this place does).
FoldsOfThisRow == row # None /\ folds # {} => foldedOn.at = row.at

\* As long as a row is open without its key, no redraw loses a fold: one click folds or
\* unfolds one node (JsonViewer.toggle).  With the key open, every redraw loses them all.
FoldsKept ==
    [][row # None /\ row' = row /\ ~KeyViewerShown /\ ~KeyViewerShown'
          => \E p \in folds \cup folds' \cup {"$"} : folds \ {p} = folds' \ {p}]_vars

===============================================================================
