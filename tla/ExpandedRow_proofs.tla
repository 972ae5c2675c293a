--------------------------- MODULE ExpandedRow_proofs ---------------------------
(***************************************************************************)
(* Theorems of ExpandedRow, for any texts of any depth: an editor that was *)
(* opened and not typed in shows no change, and the folds that the viewers *)
(* share stay with their row and are not lost.                             *)
(*                                                                         *)
(* What a recursive function makes of a text is shown by a counterexample  *)
(* of the least depth, for which the library has WFMin.                    *)
(***************************************************************************)
EXTENDS ExpandedRow, WellFoundedInduction, TLAPS

LEMMA LeastNatural ==
    ASSUME NEW S \in SUBSET Nat, S # {}
    PROVE  \E m \in S : \A k \in S : m <= k
<1>1. PICK m \in S : \A k \in S : ~ (<<k, m>> \in OpToRel(<, Nat))
  BY WFMin, NatLessThanWellFounded, Zenon
<1>2. \A k \in S : ~ (k < m)
  BY <1>1, Zenon DEF OpToRel
<1> QED BY <1>2

------------------------------------------------------------------------------
(* Parsing. *)

TextSet == [kind : {"plain", "string", "number", "null", "object", "array"},
            text : STRING, num : 0..(2 * Precision),
            items : Seq([key : STRING, value : Texts])]

\* The step of Parse, with f for what the text holds.
Written(t, f) ==
    Text(t.kind, t.text, Double(t.num),
         [i \in DOMAIN t.items |-> Field(t.items[i].key, f[t.items[i].value])])

\* f is Parse for the texts of less depth than n.
ParsesBelow(f, n) == \A t \in Texts : Depth[t] < n => f[t] = Written(t, f)

LEMMA DepthTyped ==
    ASSUME NEW t \in Texts
    PROVE  Depth[t] \in Nat /\ Depth[t] <= MaxDepth
BY TextAssumption, JsonAssumption

\* What a text holds is a text of less depth.
LEMMA ItemsAreTexts ==
    ASSUME NEW t \in Texts, NEW i \in DOMAIN t.items
    PROVE  t.items[i].value \in Texts /\ Depth[t.items[i].value] < Depth[t]
<1>1. t \in TextSet
  BY TextAssumption DEF TextSet
<1>2. t.items \in Seq([key : STRING, value : Texts])
  BY <1>1 DEF TextSet
<1>3. DOMAIN t.items = 1..Len(t.items)
  BY <1>2
<1>4. t.items[i] \in [key : STRING, value : Texts]
  <2>1. \A S : \A s \in Seq(S) : \A k \in 1..Len(s) : s[k] \in S
    OBVIOUS
  <2> QED BY <1>2, <1>3, <2>1, Zenon
<1> QED BY <1>3, <1>4, TextAssumption

LEMMA ParserBelow ==
    ASSUME NEW n \in Nat
    PROVE  \E f : ParsesBelow(f, n)
<1> DEFINE missing == {m \in Nat : ~ \E f : ParsesBelow(f, m)}
<1> SUFFICES ASSUME missing # {} PROVE FALSE
  OBVIOUS
<1>1. PICK m \in missing : \A k \in missing : m <= k
  BY LeastNatural
<1>2. CASE m = 0
  <2>1. ParsesBelow(<< >>, 0)
    BY DepthTyped DEF ParsesBelow
  <2> QED BY <1>1, <1>2, <2>1
<1>3. CASE m # 0
  <2>1. m - 1 \in Nat /\ m - 1 \notin missing
    BY <1>1, <1>3
  <2>2. PICK f : ParsesBelow(f, m - 1)
    BY <2>1
  <2> DEFINE new == [t \in Texts |-> Written(t, f)]
  <2>3. \A t \in Texts : Depth[t] < m - 1 => new[t] = f[t]
    BY <2>2 DEF ParsesBelow
  <2>4. \A t \in Texts : new[t] = Written(t, f)
    OBVIOUS
  <2> HIDE DEF new
  <2>5. ASSUME NEW t \in Texts, Depth[t] < m
        PROVE  new[t] = Written(t, new)
    <3>1. ASSUME NEW i \in DOMAIN t.items
          PROVE  new[t.items[i].value] = f[t.items[i].value]
      <4>1. t.items[i].value \in Texts /\ Depth[t.items[i].value] < Depth[t]
        BY ItemsAreTexts
      <4>2. Depth[t.items[i].value] < m - 1
        BY <2>1, <2>5, <4>1, DepthTyped
      <4> QED BY <2>3, <4>1, <4>2
    <3>2. Written(t, new) = Written(t, f)
      BY <3>1 DEF Written
    <3> QED BY <2>4, <3>2
  <2>6. ParsesBelow(new, m)
    BY <2>5 DEF ParsesBelow
  <2> QED BY <1>1, <2>6
<1> QED BY <1>2, <1>3

\* Parse is what its definition says, for every text.
LEMMA ParseUnfolds ==
    ASSUME NEW t \in Texts
    PROVE  Parse[t] = Written(t, Parse)
<1>1. PICK f : ParsesBelow(f, MaxDepth + 1)
  BY ParserBelow, JsonAssumption
<1>2. \A v \in Texts : f[v] = Written(v, f)
  BY <1>1, DepthTyped, JsonAssumption DEF ParsesBelow
<1> DEFINE g == [v \in Texts |-> f[v]]
           Parses(p) == p = [v \in Texts |->
                               Text(v.kind, v.text, Double(v.num),
                                    [i \in DOMAIN v.items |->
                                       Field(v.items[i].key, p[v.items[i].value])])]
<1>3. \A v \in Texts : g[v] = Written(v, g)
  <2> SUFFICES ASSUME NEW v \in Texts PROVE g[v] = Written(v, g)
    OBVIOUS
  <2>1. \A i \in DOMAIN v.items : g[v.items[i].value] = f[v.items[i].value]
    BY ItemsAreTexts
  <2> QED BY <1>2, <2>1 DEF Written
<1>4. Parses(g)
  <2>1. g = [v \in Texts |-> Written(v, g)]
    BY <1>3
  <2> QED BY <2>1 DEF Written
<1>5. Parse = CHOOSE p : Parses(p)
  BY Zenon DEF Parse
<1>6. Parses(Parse)
  BY <1>4, <1>5, Zenon
<1> QED BY <1>6 DEF Written

LEMMA DoubleTwice ==
    ASSUME NEW n \in Nat
    PROVE  Double(Double(n)) = Double(n)
<1>1. Precision \in Nat
  BY JsonAssumption
<1>2. CASE n <= Precision \/ n % 2 = 0
  <2>1. Double(n) = n
    BY <1>2 DEF Double
  <2> QED BY <2>1
<1>3. CASE n > Precision /\ n % 2 # 0 /\ n % 4 = 1
  <2>1. Double(n) = n - 1 /\ (n - 1) % 2 = 0
    BY <1>1, <1>3 DEF Double
  <2> QED BY <2>1 DEF Double
<1>4. CASE n > Precision /\ n % 2 # 0 /\ n % 4 # 1
  <2>1. Double(n) = n + 1 /\ (n + 1) % 2 = 0
    BY <1>1, <1>4 DEF Double
  <2> QED BY <2>1 DEF Double
<1> QED BY <1>1, <1>2, <1>3, <1>4

\* What was written by JSON.stringify is read as it is (JSON.parse).
LEMMA ParseTwice ==
    ASSUME NEW t \in Texts
    PROVE  Parse[Parse[t]] = Parse[t]
<1> DEFINE wrong == {n \in Nat : \E v \in Texts : Depth[v] = n /\ Parse[Parse[v]] # Parse[v]}
<1> SUFFICES ASSUME wrong # {} PROVE FALSE
  BY DepthTyped
<1>1. PICK n \in wrong : \A k \in wrong : n <= k
  BY LeastNatural
<1>2. PICK v \in Texts : Depth[v] = n /\ Parse[Parse[v]] # Parse[v]
  BY <1>1
<1>3. ASSUME NEW w \in Texts, Depth[w] < n
      PROVE  Parse[Parse[w]] = Parse[w]
  BY <1>1, <1>3, DepthTyped
<1> HIDE DEF wrong
<1>4. PICK p : p = Parse[v]
  OBVIOUS
<1>5. p \in Texts
  BY <1>4, ParsedAssumption
<1>6. p = Written(v, Parse)
  BY <1>4, ParseUnfolds
<1>7. /\ p.kind = v.kind /\ p.text = v.text /\ p.num = Double(v.num)
      /\ p.items = [i \in DOMAIN v.items |-> Field(v.items[i].key, Parse[v.items[i].value])]
  BY <1>6 DEF Written, Text
<1>8. Parse[p] = Written(p, Parse)
  BY <1>5, ParseUnfolds
<1>9. Double(p.num) = p.num
  <2>1. v.num \in Nat
    BY TextAssumption
  <2> QED BY <1>7, <2>1, DoubleTwice
<1>10. [i \in DOMAIN p.items |-> Field(p.items[i].key, Parse[p.items[i].value])] = p.items
  <2>1. ASSUME NEW i \in DOMAIN v.items
        PROVE  Field(p.items[i].key, Parse[p.items[i].value]) = p.items[i]
    <3>1. v.items[i].value \in Texts /\ Depth[v.items[i].value] < n
      BY <1>2, ItemsAreTexts
    <3>2. Parse[Parse[v.items[i].value]] = Parse[v.items[i].value]
      BY <1>3, <3>1
    <3>3. p.items[i] = Field(v.items[i].key, Parse[v.items[i].value])
      BY <1>7
    <3>4. p.items[i].key = v.items[i].key /\ p.items[i].value = Parse[v.items[i].value]
      BY <3>3 DEF Field
    <3> QED BY <3>2, <3>3, <3>4
  <2>2. DOMAIN p.items = DOMAIN v.items
    BY <1>7
  <2>3. p.items = [i \in DOMAIN p.items |-> p.items[i]]
    BY <1>7
  <2> QED BY <2>1, <2>2, <2>3
<1>11. Parse[p] = p
  <2>1. Parse[p] = Text(p.kind, p.text, p.num, p.items)
    BY <1>8, <1>9, <1>10 DEF Written
  <2>2. p = Text(p.kind, p.text, p.num, p.items)
    BY <1>6, <1>7 DEF Written, Text
  <2> QED BY <2>1, <2>2
<1> QED BY <1>2, <1>4, <1>11

\* Texts that are parsed to the same value have no difference (computeDiff).
LEMMA NoDifference ==
    ASSUME NEW a, NEW b, Parse[a] = Parse[b]
    PROVE  Rows(Diff(a, b)) = {}
<1>1. PICK d : d = Diff(a, b)
  OBVIOUS
<1>2. d.changed = {} /\ d.added = {} /\ d.removed = {}
  BY <1>1 DEF Diff
<1>3. d["changed"] = {} /\ d["added"] = {} /\ d["removed"] = {}
  BY <1>2
<1> QED BY <1>1, <1>3 DEF Rows

------------------------------------------------------------------------------
(* The invariant. *)

\* The viewer that was drawn last is that of the value of the row, and the folds are of
\* the record at its place.
FoldsOfLast ==
    /\ row # None => lastInstance = <<"value", row.at>>
    /\ folds # {} => lastInstance = <<"value", foldedOn.at>>

\* What openEditorForRecord puts into the editor.
OpenedKey == IF IsJsonLike(row.key) THEN Opened(row.key) ELSE row.key

\* Editor and modal are of the open row, and hold its texts until something is typed.
EditorOfRow ==
    /\ showEditor \in BOOLEAN
    /\ showEditor \/ showDiffModal => row # None
    /\ (showEditor \/ showDiffModal) /\ ~typed =>
          keyText = OpenedKey /\ valueText = Opened(row.value)

RowInv ==
    /\ row \in Records \cup {None}
    /\ FoldsOfLast
    /\ EditorOfRow

\* After a redraw the last viewer is that of the value; folds that are left are those of
\* this viewer (JsonViewer.view).
LEMMA RedrawKeeps ==
    ASSUME NEW r, NEW keyOpen, NEW paths, NEW by, Redraw(r, keyOpen, paths, by),
           paths # {} => lastInstance = <<"value", by.at>>
    PROVE  /\ lastInstance' = <<"value", r.at>>
           /\ folds' # {} => lastInstance' = <<"value", foldedOn'.at>>
<1> DEFINE before == [last |-> lastInstance, folds |-> paths]
           key == IF keyOpen /\ IsJsonLike(r.key) THEN Drawn(before, <<"key", r.at>>) ELSE before
           value == Drawn(key, <<"value", r.at>>)
<1>1. /\ folds' = value.folds /\ lastInstance' = value.last
      /\ foldedOn' = IF value.folds = {} THEN None ELSE by
  BY DEF Redraw
<1>2. value.last = <<"value", r.at>>
  BY DEF Drawn
<1>3. value.folds # {} => key.last = <<"value", r.at>> /\ value.folds = key.folds
  BY DEF Drawn
<1>4. key.folds # {} /\ key.last = <<"value", r.at>> =>
        lastInstance = <<"value", r.at>> /\ paths # {}
  <2>1. <<"key", r.at>> # <<"value", r.at>>
    OBVIOUS
  <2> QED BY <2>1 DEF Drawn
<1> QED BY <1>1, <1>2, <1>3, <1>4

LEMMA InitRow == Init => RowInv
BY DEF Init, RowInv, FoldsOfLast, EditorOfRow

\* Opening and closing rows closes the editor (expandRow, resetState).
LEMMA OpenCloseKeeps ==
    ASSUME RowInv,
           CloseRow \/ (\E r \in Records : OpenRow(r)) \/ (\E t \in Topics : SwitchTopic(t))
    PROVE  RowInv'
<1> USE DEF RowInv
<1>1. CASE CloseRow
  <2>1. ~showDiffModal
    BY <1>1 DEF CloseRow, ModalShown
  <2> QED BY <1>1, <2>1 DEF CloseRow, viewerVars, FoldsOfLast, EditorOfRow
<1>2. ASSUME NEW r \in Records, OpenRow(r)
      PROVE  RowInv'
  <2>1. ~showDiffModal
    BY <1>2 DEF OpenRow, ModalShown, EditorOfRow
  <2>2. row' = r /\ showEditor' = FALSE /\ UNCHANGED showDiffModal
    BY <1>2 DEF OpenRow
  <2>3. Redraw(r, FALSE, folds, foldedOn)
    BY <1>2 DEF OpenRow
  <2>4. FoldsOfLast'
    BY <2>2, <2>3, RedrawKeeps DEF FoldsOfLast
  <2> QED BY <2>1, <2>2, <2>4 DEF EditorOfRow
<1>3. ASSUME NEW t \in Topics, SwitchTopic(t)
      PROVE  RowInv'
  BY <1>3 DEF SwitchTopic, FoldsOfLast, EditorOfRow
<1> QED BY <1>1, <1>2, <1>3

\* A click in a viewer (JsonViewer.toggle, renderKeySection).
LEMMA ViewerKeeps ==
    ASSUME RowInv, ToggleFold \/ ToggleKey
    PROVE  RowInv'
<1> USE DEF RowInv
<1>1. UNCHANGED <<row, textVars, showEditor, showDiffModal>> /\ row # None
  BY DEF ToggleFold, ToggleKey
<1>2. PICK keyOpen, paths, by :
        /\ Redraw(row, keyOpen, paths, by)
        /\ paths # {} => lastInstance = <<"value", by.at>>
  <2>1. CASE ToggleFold
    BY <2>1 DEF ToggleFold, FoldsOfLast
  <2>2. CASE ToggleKey
    BY <2>2 DEF ToggleKey, FoldsOfLast
  <2> QED BY <2>1, <2>2
<1>3. FoldsOfLast'
  BY <1>1, <1>2, RedrawKeeps DEF FoldsOfLast
<1> QED BY <1>1, <1>3 DEF EditorOfRow, OpenedKey, textVars

\* The editor is filled from the row that is open; the modal comes over it, and an answer
\* may close it (openEditorForRecord, reviewCorrection, confirmSendCorrection).
LEMMA EditorKeeps ==
    ASSUME RowInv,
           \/ OpenEditor \/ TypeKey \/ TypeValue \/ CloseEditor
           \/ Review \/ CancelDiff \/ Confirm \/ Answered
    PROVE  RowInv'
<1> USE DEF RowInv
<1>1. UNCHANGED <<row, folds, lastInstance, foldedOn>>
  BY DEF OpenEditor, TypeKey, TypeValue, CloseEditor, Review, CancelDiff, Confirm, Answered,
         viewerVars
<1>2. FoldsOfLast'
  BY <1>1 DEF FoldsOfLast
<1>3. EditorOfRow'
  <2>1. CASE OpenEditor
    BY <2>1, <1>1 DEF OpenEditor, EditorOfRow, OpenedKey
  <2>2. CASE TypeKey \/ TypeValue
    BY <2>2, <1>1 DEF TypeKey, TypeValue, EditorOfRow
  <2>3. CASE CloseEditor
    BY <2>3, <1>1 DEF CloseEditor, EditorShown, EditorOfRow, OpenedKey, textVars
  <2>4. CASE Review
    BY <2>4, <1>1 DEF Review, EditorShown, EditorOfRow, OpenedKey, textVars
  <2>5. CASE CancelDiff \/ Confirm
    BY <2>5, <1>1 DEF CancelDiff, Confirm, EditorOfRow, OpenedKey, textVars
  <2>6. CASE Answered
    <3>1. UNCHANGED <<textVars, showDiffModal>>
      BY <2>6 DEF Answered
    <3>2. CASE showEditor' = FALSE
      BY <1>1, <3>1, <3>2 DEF EditorOfRow, OpenedKey, textVars
    <3>3. CASE showEditor' = showEditor
      BY <1>1, <3>1, <3>3 DEF EditorOfRow, OpenedKey, textVars
    <3> QED BY <2>6, <3>2, <3>3 DEF Answered
  <2> QED BY <2>1, <2>2, <2>3, <2>4, <2>5, <2>6
<1> QED BY <1>1, <1>2, <1>3

LEMMA StepRow ==
    ASSUME RowInv, [Next]_vars
    PROVE  RowInv'
<1>1. CASE UNCHANGED vars
  BY <1>1 DEF vars, viewerVars, textVars, RowInv, FoldsOfLast, EditorOfRow, OpenedKey
<1> QED BY <1>1, OpenCloseKeeps, ViewerKeeps, EditorKeeps DEF Next

------------------------------------------------------------------------------
(* Theorems. *)

\* The invariant of the expanded row always holds.
THEOREM RowInvariant == Spec => []RowInv
<1>1. Init => RowInv
  BY InitRow
<1>2. RowInv /\ [Next]_vars => RowInv'
  BY StepRow
<1> QED BY <1>1, <1>2, PTL DEF Spec

\* No row inherits the folds of a row at another place (JsonViewer.view).
THEOREM FoldsStayOnRow == Spec => []FoldsOfThisRow
<1>1. RowInv => FoldsOfThisRow
  BY DEF RowInv, FoldsOfLast, FoldsOfThisRow
<1> QED BY <1>1, RowInvariant, PTL

\* While a row is open without its key, one click folds or unfolds one node, and nothing
\* else does (JsonViewer.toggle and view).
THEOREM FoldsAreKept == Spec => FoldsKept
<1>1. ASSUME RowInv, [Next]_vars, row # None, row' = row, ~KeyViewerShown, ~KeyViewerShown'
      PROVE  \E p \in folds \cup folds' \cup {"$"} : folds \ {p} = folds' \ {p}
  <2>1. CASE UNCHANGED folds
    BY <2>1
  <2>2. CASE ToggleFold
    <3>1. PICK p, paths : /\ paths = IF p \in folds THEN folds \ {p} ELSE folds \cup {p}
                          /\ Redraw(row, keyExpanded, paths, row)
      BY <2>2 DEF ToggleFold
    <3>2. ~(keyExpanded /\ IsJsonLike(row.key)) /\ lastInstance = <<"value", row.at>>
      BY <1>1 DEF KeyViewerShown, RowInv, FoldsOfLast
    <3>3. folds' = paths
      BY <3>1, <3>2 DEF Redraw, Drawn
    <3> QED BY <3>1, <3>3
  <2>3. CASE ToggleKey
    BY <1>1, <2>3 DEF ToggleKey, KeyViewerShown
  <2>4. ASSUME NEW r \in Records, OpenRow(r)
        PROVE  FALSE
    BY <1>1, <2>4 DEF OpenRow
  <2> QED BY <1>1, <2>1, <2>2, <2>3, <2>4
          DEF Next, CloseRow, SwitchTopic, OpenEditor, TypeKey, TypeValue, CloseEditor, Review,
              CancelDiff, Confirm, Answered, viewerVars, vars
<1>2. RowInv /\ [Next]_vars =>
        [row # None /\ row' = row /\ ~KeyViewerShown /\ ~KeyViewerShown'
            => \E p \in folds \cup folds' \cup {"$"} : folds \ {p} = folds' \ {p}]_vars
  BY <1>1
<1> QED BY <1>2, RowInvariant, PTL DEF Spec, FoldsKept

\* An editor that was opened and not typed in shows no change, whatever the record holds
\* (but for numbers too large for a double, see Double): what the editor reformats is parsed to the same value again (openEditorForRecord,
\* computeDiff).
THEOREM NeverFalseAlarm == Spec => []NoFalseAlarm
<1>1. ASSUME RowInv, ModalShown, ~typed, Comparable
      PROVE  NoChangesDetected
  <2>1. row \in Records /\ keyText = OpenedKey /\ valueText = Opened(row.value)
    BY <1>1 DEF RowInv, EditorOfRow, ModalShown
  <2>2. row.key \in Texts /\ row.value \in Texts
    BY <2>1, RowAssumption
  <2>3. Parse[row.value] = Parse[valueText]
    BY <1>1, <2>1, <2>2, ParseTwice DEF Comparable, Opened
  <2>4. Parse[row.key] = Parse[keyText]
    BY <2>1, <2>2, ParseTwice DEF OpenedKey, Opened
  <2> QED BY <1>1, <2>3, <2>4, NoDifference DEF NoChangesDetected, ValueRows, KeyRows
<1>2. RowInv => NoFalseAlarm
  BY <1>1 DEF NoFalseAlarm
<1> QED BY <1>2, RowInvariant, PTL

===============================================================================
