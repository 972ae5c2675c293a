--------------------------- MODULE BrowseView_proofs ---------------------------
(***************************************************************************)
(* Theorems of BrowseView, for any topics, partitions, batch sizes and     *)
(* bounds.  Whatever the user does, the state is of its types and no       *)
(* history has an entry twice.  For a patient user, who leaves the form    *)
(* and the sidebar alone while a request is under way, what is sent,       *)
(* compared, closed and remembered is about what the user sees.            *)
(***************************************************************************)
EXTENDS BrowseView, SequenceTheorems, WellFoundedInduction, TLAPS

------------------------------------------------------------------------------
(* What is left without an entry.  Without is a recursive function; what it *)
(* is for a sequence of any length is shown by a counterexample of least    *)
(* length, for which the library has WFMin.                                 *)

LEMMA LeastNatural ==
    ASSUME NEW T \in SUBSET Nat, T # {}
    PROVE  \E m \in T : \A k \in T : m <= k
<1>1. PICK m \in T : \A k \in T : ~ (<<k, m>> \in OpToRel(<, Nat))
  BY WFMin, NatLessThanWellFounded, Zenon
<1>2. \A k \in T : ~ (k < m)
  BY <1>1, Zenon DEF OpToRel
<1> QED BY <1>2

\* Min is the least (FiniteSetsExt).
LEMMA MinIsLeast ==
    ASSUME NEW T \in SUBSET Nat, T # {}
    PROVE  Min(T) \in T /\ \A k \in T : Min(T) <= k
BY LeastNatural DEF Min

\* kept is the function in Without, for the first n entries.
KeptUpTo(entries, at, n, kept) ==
    kept = [i \in 0..n |-> IF i = 0 THEN << >>
                           ELSE IF entries[i] = at THEN kept[i - 1]
                                ELSE Append(kept[i - 1], entries[i])]

\* There is such a function.
LEMMA KeptExists ==
    ASSUME NEW entries, NEW at, NEW n \in Nat
    PROVE  \E kept : KeptUpTo(entries, at, n, kept)
<1> DEFINE missing == {i \in Nat : ~ \E kept : KeptUpTo(entries, at, i, kept)}
<1> SUFFICES ASSUME missing # {} PROVE FALSE
  OBVIOUS
<1>1. PICK m \in missing : \A k \in missing : m <= k
  BY LeastNatural
<1>2. CASE m = 0
  <2>1. KeptUpTo(entries, at, 0, [i \in 0..0 |-> << >>])
    BY DEF KeptUpTo
  <2> QED BY <1>1, <1>2, <2>1
<1>3. CASE m # 0
  <2>1. m - 1 \in Nat /\ m - 1 \notin missing
    BY <1>1, <1>3
  <2>2. PICK kept : KeptUpTo(entries, at, m - 1, kept)
    BY <2>1
  <2> DEFINE step(f, i) == IF i = 0 THEN << >>
                           ELSE IF entries[i] = at THEN f[i - 1] ELSE Append(f[i - 1], entries[i])
             new == [i \in 0..m |-> step(kept, i)]
  <2>3. \A i \in 0..(m - 1) : kept[i] = step(kept, i)
    BY <2>2 DEF KeptUpTo
  <2>4. \A i \in 0..(m - 1) : new[i] = kept[i]
    BY <2>1, <2>3
  <2>5. \A i \in 0..m : step(new, i) = step(kept, i)
    <3> SUFFICES ASSUME NEW i \in 0..m PROVE step(new, i) = step(kept, i)
      OBVIOUS
    <3> HIDE DEF new
    <3>1. i # 0 => i - 1 \in 0..(m - 1)
      BY <2>1
    <3>2. i # 0 => new[i - 1] = kept[i - 1]
      BY <2>4, <3>1
    <3> QED BY <3>2 DEF step
  <2>6. KeptUpTo(entries, at, m, new)
    <3>1. new = [i \in 0..m |-> step(new, i)]
      BY <2>5
    <3> QED BY <3>1 DEF KeptUpTo
  <2> QED BY <1>1, <2>6
<1> QED BY <1>2, <1>3

\* Without is what its definition says.
LEMMA WithoutKept ==
    ASSUME NEW entries, NEW at, Len(entries) \in Nat
    PROVE  \E kept : /\ KeptUpTo(entries, at, Len(entries), kept)
                     /\ Without(entries, at) = kept[Len(entries)]
<1> DEFINE kept == CHOOSE k : KeptUpTo(entries, at, Len(entries), k)
<1>1. KeptUpTo(entries, at, Len(entries), kept)
  BY KeptExists
<1>2. Without(entries, at) = kept[Len(entries)]
  BY Zenon DEF Without, KeptUpTo
<1> QED BY <1>1, <1>2

EntriesApart(s) == \A i, j \in 1..Len(s) : s[i] = s[j] => i = j

\* What is kept of the first n entries: those other than at, none twice.
KeptOf(kept, s, at, n) ==
    /\ kept[n] \in Seq(Place)
    /\ \A k \in 1..Len(kept[n]) : kept[n][k] # at /\ \E i \in 1..n : kept[n][k] = s[i]
    /\ EntriesApart(s) => EntriesApart(kept[n])

\* One entry more.
LEMMA KeptOfStep ==
    ASSUME NEW s \in Seq(Place), NEW at, NEW kept, NEW n \in 1..Len(s),
           KeptOf(kept, s, at, n - 1),
           kept[n] = IF s[n] = at THEN kept[n - 1] ELSE Append(kept[n - 1], s[n])
    PROVE  KeptOf(kept, s, at, n)
<1>1. n \in Nat \ {0} /\ s[n] \in Place
  OBVIOUS
<1>2. CASE s[n] = at
  BY <1>1, <1>2 DEF KeptOf
<1>3. CASE s[n] # at
  <2> DEFINE old == kept[n - 1]
  <2>1. old \in Seq(Place) /\ kept[n] = Append(old, s[n])
    BY <1>3 DEF KeptOf
  <2>2. /\ Len(kept[n]) = Len(old) + 1 /\ Len(old) \in Nat
        /\ \A k \in 1..Len(old) : kept[n][k] = old[k]
        /\ kept[n][Len(old) + 1] = s[n]
    BY <1>1, <2>1
  <2>3. \A k \in 1..Len(old) : old[k] # at /\ \E i \in 1..(n - 1) : old[k] = s[i]
    BY DEF KeptOf
  <2>4. EntriesApart(s) => EntriesApart(old)
    BY DEF KeptOf
  <2> HIDE DEF old
  <2>5. kept[n] \in Seq(Place)
    <3>1. \A q \in Seq(Place) : \A x \in Place : Append(q, x) \in Seq(Place)
      OBVIOUS
    <3> QED BY <1>1, <2>1, <3>1
  <2>6. \A k \in 1..Len(kept[n]) : kept[n][k] # at /\ \E i \in 1..n : kept[n][k] = s[i]
    <3> SUFFICES ASSUME NEW k \in 1..Len(kept[n])
                 PROVE  kept[n][k] # at /\ \E i \in 1..n : kept[n][k] = s[i]
      OBVIOUS
    <3>1. CASE k = Len(old) + 1
      BY <1>1, <1>3, <2>2, <3>1
    <3>2. CASE k \in 1..Len(old)
      <4>1. PICK i \in 1..(n - 1) : old[k] = s[i]
        BY <2>3, <3>2
      <4>2. i \in 1..n
        BY <1>1
      <4> QED BY <2>2, <2>3, <3>2, <4>1, <4>2
    <3> QED BY <2>2, <3>1, <3>2
  <2>7. ASSUME EntriesApart(s)
        PROVE  EntriesApart(kept[n])
    <3>1. ASSUME NEW k \in 1..Len(old)
          PROVE  kept[n][k] # s[n]
      <4>1. PICK i \in 1..(n - 1) : old[k] = s[i]
        BY <2>3
      <4>2. i \in 1..Len(s) /\ i # n
        BY <1>1
      <4> QED BY <2>2, <2>7, <4>1, <4>2 DEF EntriesApart
    <3> SUFFICES ASSUME NEW i \in 1..Len(kept[n]), NEW j \in 1..Len(kept[n]),
                        kept[n][i] = kept[n][j]
                 PROVE  i = j
      BY DEF EntriesApart
    <3>2. i = Len(old) + 1 \/ i \in 1..Len(old)
      BY <2>2
    <3>3. j = Len(old) + 1 \/ j \in 1..Len(old)
      BY <2>2
    <3>4. CASE i \in 1..Len(old) /\ j \in 1..Len(old)
      BY <2>2, <2>4, <2>7, <3>4 DEF EntriesApart
    <3> QED BY <2>2, <3>1, <3>2, <3>3, <3>4
  <2> QED BY <2>5, <2>6, <2>7 DEF KeptOf
<1> QED BY <1>2, <1>3

\* The filter of PollHistory.add.
LEMMA WithoutFacts ==
    ASSUME NEW s \in Seq(Place), NEW at
    PROVE  LET w == Without(s, at) IN
           /\ w \in Seq(Place)
           /\ \A k \in 1..Len(w) : w[k] # at /\ \E i \in 1..Len(s) : w[k] = s[i]
           /\ EntriesApart(s) => EntriesApart(w)
<1>1. Len(s) \in Nat
  OBVIOUS
<1>2. PICK kept : /\ KeptUpTo(s, at, Len(s), kept)
                  /\ Without(s, at) = kept[Len(s)]
  BY <1>1, WithoutKept
<1>3. kept[0] = << >>
  BY <1>1, <1>2 DEF KeptUpTo
<1>4. \A n \in 1..Len(s) :
        kept[n] = IF s[n] = at THEN kept[n - 1] ELSE Append(kept[n - 1], s[n])
  <2> SUFFICES ASSUME NEW n \in 1..Len(s)
               PROVE  kept[n] = IF s[n] = at THEN kept[n - 1] ELSE Append(kept[n - 1], s[n])
    OBVIOUS
  <2>1. n \in 0..Len(s) /\ n # 0
    BY <1>1
  <2>2. kept = [i \in 0..Len(s) |-> IF i = 0 THEN << >>
                                   ELSE IF s[i] = at THEN kept[i - 1]
                                        ELSE Append(kept[i - 1], s[i])]
    BY <1>2 DEF KeptUpTo
  <2> QED BY <2>1, <2>2, Zenon
<1> DEFINE wrong == {n \in 0..Len(s) : ~ KeptOf(kept, s, at, n)}
<1>5. wrong = {}
  <2> SUFFICES ASSUME wrong # {} PROVE FALSE
    OBVIOUS
  <2>1. PICK n \in wrong : \A k \in wrong : n <= k
    <3>1. wrong \in SUBSET Nat
      BY <1>1
    <3> HIDE DEF wrong
    <3> QED BY <3>1, LeastNatural
  <2>2. n # 0
    <3>1. KeptOf(kept, s, at, 0)
      BY <1>3 DEF KeptOf, EntriesApart
    <3> QED BY <3>1
  <2>3. n \in 1..Len(s) /\ n - 1 \in 0..Len(s)
    BY <1>1, <2>2
  <2>4. KeptOf(kept, s, at, n - 1)
    BY <2>1, <2>3
  <2> QED BY <1>4, <2>3, <2>4, KeptOfStep
<1>6. KeptOf(kept, s, at, Len(s))
  BY <1>1, <1>5
<1> QED BY <1>2, <1>6 DEF KeptOf

\* PollHistory.add keeps to its maximum, adds the place and nothing else, and no entry
\* twice.
LEMMA RememberFacts ==
    ASSUME NEW entries \in Seq(Place), NEW at \in Place
    PROVE  LET r == Remember(entries, at) IN
           /\ r \in Seq(Place) /\ Len(r) <= MaxHistory
           /\ \A k \in 1..Len(r) : r[k] = at \/ \E i \in 1..Len(entries) : r[k] = entries[i]
           /\ EntriesApart(entries) => EntriesApart(r)
<1> DEFINE w == Without(entries, at)
           m == Min({Len(w) + 1, MaxHistory})
           r == Remember(entries, at)
<1>1. /\ w \in Seq(Place)
      /\ \A k \in 1..Len(w) : w[k] # at /\ \E i \in 1..Len(entries) : w[k] = entries[i]
      /\ EntriesApart(entries) => EntriesApart(w)
  BY WithoutFacts
<1>2. Remember(entries, at) = SubSeq(<<at>> \o w, 1, m)
  BY DEF Remember
<1> HIDE DEF w
<1>3. Len(w) \in Nat
  BY <1>1
<1>4. m \in Nat /\ m <= Len(w) + 1 /\ m <= MaxHistory
  <2>1. {Len(w) + 1, MaxHistory} \in SUBSET Nat
    BY <1>3, BrowseAssumption
  <2> QED BY <2>1, MinIsLeast
<1> HIDE DEF m
<1> DEFINE all == <<at>> \o w
<1>5. /\ all \in Seq(Place) /\ Len(all) = Len(w) + 1 /\ all[1] = at
      /\ \A k \in 2..(Len(w) + 1) : all[k] = w[k - 1]
  BY <1>1, <1>3
<1> HIDE DEF all
<1>6. /\ r \in Seq(Place) /\ Len(r) = m
      /\ \A k \in 1..m : r[k] = all[k]
  <2>1. r = SubSeq(all, 1, m)
    BY <1>2 DEF all
  <2> HIDE DEF r
  <2> QED BY <1>3, <1>4, <1>5, <2>1, SubSeqProperties
<1> HIDE DEF r
<1>7. \A k \in 1..m : r[k] = at \/ \E i \in 1..Len(entries) : r[k] = entries[i]
  <2> SUFFICES ASSUME NEW k \in 1..m, k # 1
               PROVE  \E i \in 1..Len(entries) : r[k] = entries[i]
    BY <1>4, <1>5, <1>6
  <2>1. k \in 2..(Len(w) + 1) /\ k - 1 \in 1..Len(w)
    BY <1>3, <1>4
  <2>2. r[k] = w[k - 1]
    BY <1>5, <1>6, <2>1
  <2> QED BY <1>1, <2>1, <2>2
<1>8. ASSUME EntriesApart(entries)
      PROVE  EntriesApart(r)
  <2> SUFFICES ASSUME NEW i \in 1..m, NEW j \in 1..m, r[i] = r[j], i < j
               PROVE  FALSE
    BY <1>4, <1>6 DEF EntriesApart
  <2>1. j \in 2..(Len(w) + 1) /\ j - 1 \in 1..Len(w) /\ r[j] = w[j - 1]
    BY <1>3, <1>4, <1>5, <1>6
  <2>2. CASE i = 1
    BY <1>1, <1>5, <1>6, <2>1, <2>2
  <2>3. CASE i # 1
    <3>1. i \in 2..(Len(w) + 1) /\ i - 1 \in 1..Len(w) /\ i - 1 # j - 1
      BY <1>3, <1>4, <2>3
    <3>2. r[i] = w[i - 1]
      BY <1>5, <1>6, <3>1
    <3> QED BY <1>1, <1>8, <2>1, <3>1, <3>2 DEF EntriesApart
  <2> QED BY <2>2, <2>3
<1> QED BY <1>4, <1>6, <1>7, <1>8 DEF r

------------------------------------------------------------------------------
(* Types and history, whatever the user does. *)

\* What the editor and the modal work on is a record.
CorrectionThere == showEditor \/ showDiffModal => correction \in Record

\* The inductive invariant of any user.
StoredInv == TypeOK /\ HistoryUnique /\ CorrectionThere

\* A batch is a sequence of records of its topic, in the order of their offsets; one
\* that goes on is in the partition and behind the place it was asked from.
LEMMA BatchFacts ==
    ASSUME NEW r \in Request, r.topic \in Topics, NEW s \in Batches(r)
    PROVE  /\ s \in Seq(Record)
           /\ \A i \in 1..Len(s) : s[i].topic = r.topic
           /\ \A i, j \in 1..Len(s) :
                 i < j /\ s[i].at[1] = s[j].at[1] => s[i].at[2] < s[j].at[2]
           /\ r.kind = "more" => \A i \in 1..Len(s) : s[i].at[2] >= r.at[2]
<1>1. PICK n \in 0..Limit : s \in [1..n -> [topic : {r.topic}, at : Place]]
  BY DEF Batches
<1>2. n \in Nat
  BY BrowseAssumption
<1>3. Len(s) = n /\ \A i \in 1..n : s[i] \in [topic : {r.topic}, at : Place]
  BY <1>1, <1>2
<1>4. s \in Seq(Record)
  <2>1. \A i \in 1..n : s[i] \in Record
    BY <1>3 DEF Record
  <2>2. s \in [1..n -> Record]
    BY <1>1, <2>1
  <2> QED BY <1>2, <2>2
<1>5. \A i \in 1..Len(s) : s[i].topic = r.topic
  BY <1>3
<1>6. \A j \in 1..Len(s) : \A i \in 1..(j - 1) :
        s[i].at[1] = s[j].at[1] => s[i].at[2] < s[j].at[2]
  BY DEF Batches
<1>7. \A i, j \in 1..Len(s) :
        i < j /\ s[i].at[1] = s[j].at[1] => s[i].at[2] < s[j].at[2]
  <2> SUFFICES ASSUME NEW i \in 1..Len(s), NEW j \in 1..Len(s), i < j,
                      s[i].at[1] = s[j].at[1]
               PROVE  s[i].at[2] < s[j].at[2]
    OBVIOUS
  <2>1. i \in 1..(j - 1)
    BY <1>2, <1>3
  <2> QED BY <1>6, <2>1
<1>8. r.kind = "more" => \A i \in 1..Len(s) : s[i].at[2] >= r.at[2]
  BY DEF Batches
<1> QED BY <1>4, <1>5, <1>7, <1>8

LEMMA FreshFormTyped == FreshForm \in Form
<1>1. <<0, 0>> \in Place
  BY BrowseAssumption DEF Place, Offsets
<1> QED BY <1>1 DEF FreshForm, Form

\* What is expanded are records (expandedKey).
LEMMA ExpandedTyped ==
    ASSUME records \in Seq(Record)
    PROVE  ExpandedRows \subseteq Record
<1> QED BY DEF ExpandedRows

\* oninit
LEMMA InitStored == Init => StoredInv
<1> SUFFICES ASSUME Init PROVE StoredInv
  OBVIOUS
<1> USE DEF Init
<1>1. form \in Form
  BY FreshFormTyped
<1>2. \A t \in Topics : history[t] = << >>
  OBVIOUS
<1>3. history \in [Topics -> Seq(Place)] /\ \A t \in Topics : Len(history[t]) <= MaxHistory
  BY BrowseAssumption
<1>4. TypeOK
  <2>1. records \in Seq(Record)
    OBVIOUS
  <2>2. browsed \in [Topics -> SUBSET Place] /\ flying \in SUBSET Request
    OBVIOUS
  <2> QED BY <1>1, <1>3, <2>1, <2>2 DEF TypeOK
<1>5. HistoryUnique
  BY <1>2 DEF HistoryUnique
<1> QED BY <1>4, <1>5 DEF StoredInv, CorrectionThere

\* A step that leaves the history leaves what is said of it.
LEMMA StoredKept ==
    ASSUME HistoryUnique, UNCHANGED history
    PROVE  HistoryUnique'
BY DEF HistoryUnique

\* resetState
LEMMA ResetStored ==
    ASSUME StoredInv, NEW t \in Topics, ResetState(t)
    PROVE  StoredInv'
<1> USE DEF ResetState, StoredInv, askVars
<1>1. form' \in Form
  BY FreshFormTyped
<1>2. records' \in Seq(Record)
  OBVIOUS
<1>3. TypeOK'
  BY <1>1, <1>2 DEF TypeOK
<1> QED BY <1>3, StoredKept DEF CorrectionThere

\* What is sent is a request (m.request of api.js).
LEMMA SendTyped ==
    ASSUME flying \in SUBSET Request, made \in Nat, NEW r \in Request, Send(r)
    PROVE  flying' \in SUBSET Request /\ made' \in Nat
BY DEF Send

\* fetchRecords(false)
LEMMA BrowseStored ==
    ASSUME StoredInv, Browse
    PROVE  StoredInv'
<1> USE DEF StoredInv, formVars
<1>1. PICK at : /\ at = IF form.mode = "offset" THEN form.at ELSE << >>
                /\ Send([id |-> made, kind |-> "browse", topic |-> topic, at |-> at])
                /\ browsed' = IF at = << >> THEN browsed
                              ELSE [browsed EXCEPT ![topic] = @ \cup {at}]
  BY DEF Browse
<1>2. at \in Place \cup {<< >>} /\ form.at \in Place
  BY <1>1 DEF TypeOK, Form
<1>3. browsed' \in [Topics -> SUBSET Place]
  <2>1. CASE at = << >>
    BY <1>1, <2>1 DEF TypeOK
  <2>2. CASE at # << >>
    BY <1>1, <1>2, <2>2 DEF TypeOK
  <2> QED BY <2>1, <2>2
<1>4. [id |-> made, kind |-> "browse", topic |-> topic, at |-> at] \in Request
  BY <1>2 DEF TypeOK, Request
<1>5. flying' \in SUBSET Request /\ made' \in Nat
  BY <1>1, <1>4, SendTyped DEF TypeOK
<1>6. records' \in Seq(Record)
  BY DEF Browse
<1>7. TypeOK'
  BY <1>3, <1>5, <1>6 DEF TypeOK, Browse
<1> QED BY <1>7, StoredKept DEF Browse, CorrectionThere

\* fetchRecords(true)
LEMMA LoadMoreStored ==
    ASSUME StoredInv, LoadMore
    PROVE  StoredInv'
<1> USE DEF StoredInv, formVars, rowVars
<1>1. [id |-> made, kind |-> "more", topic |-> topic, at |-> NextOffset(Last(records))]
        \in Request
  BY DEF LoadMore, TypeOK, Request
<1>2. flying' \in SUBSET Request /\ made' \in Nat
  BY <1>1, SendTyped DEF TypeOK, LoadMore
<1>3. TypeOK'
  BY <1>2 DEF TypeOK, LoadMore
<1> QED BY <1>3, StoredKept DEF LoadMore, CorrectionThere

\* retryRecord
LEMMA RetryStored ==
    ASSUME StoredInv, RetryRecord
    PROVE  StoredInv'
<1> USE DEF StoredInv, formVars, rowVars
<1>1. PICK record \in ExpandedRows :
        Send([id |-> made, kind |-> "retry", topic |-> topic, record |-> record])
  BY DEF RetryRecord
<1>2. record \in Record
  BY ExpandedTyped DEF TypeOK
<1>3. [id |-> made, kind |-> "retry", topic |-> topic, record |-> record] \in Request
  BY <1>2 DEF TypeOK, Request
<1>4. flying' \in SUBSET Request /\ made' \in Nat
  BY <1>1, <1>3, SendTyped DEF TypeOK
<1>5. TypeOK'
  BY <1>4 DEF TypeOK, RetryRecord
<1> QED BY <1>5, StoredKept DEF RetryRecord, CorrectionThere

\* confirmSendCorrection
LEMMA ConfirmStored ==
    ASSUME StoredInv, Confirm
    PROVE  StoredInv'
<1> USE DEF StoredInv, formVars
<1>1. correction \in Record
  BY DEF Confirm, ModalShown, CorrectionThere
<1>2. [id |-> made, kind |-> "correct", topic |-> topic, record |-> correction] \in Request
  BY <1>1 DEF TypeOK, Request
<1>3. flying' \in SUBSET Request /\ made' \in Nat
  BY <1>2, SendTyped DEF TypeOK, Confirm
<1>4. TypeOK'
  BY <1>3 DEF TypeOK, Confirm
<1> QED BY <1>1, <1>4, StoredKept DEF Confirm, CorrectionThere

\* The steps that ask for nothing.
LEMMA QuietStored ==
    ASSUME StoredInv,
           \/ EditForm \/ Filter \/ OpenEditor \/ CloseEditor \/ Review \/ CancelDiff
           \/ \E i \in 1..Len(records) : ToggleRow(i)
    PROVE  StoredInv'
<1> USE DEF StoredInv, formVars, rowVars, askVars
<1>1. CASE EditForm
  BY <1>1, StoredKept DEF EditForm, TypeOK, CorrectionThere
<1>2. CASE Filter
  BY <1>2, StoredKept DEF Filter, TypeOK, CorrectionThere
<1>3. CASE OpenEditor
  <2>1. correction' \in Record
    BY <1>3, ExpandedTyped DEF OpenEditor, TypeOK
  <2> QED BY <1>3, <2>1, StoredKept DEF OpenEditor, TypeOK, CorrectionThere
<1>4. CASE CloseEditor
  BY <1>4, StoredKept DEF CloseEditor, TypeOK, CorrectionThere
<1>5. CASE Review
  BY <1>5, StoredKept DEF Review, EditorShown, TypeOK, CorrectionThere
<1>6. CASE CancelDiff
  BY <1>6, StoredKept DEF CancelDiff, TypeOK, CorrectionThere
<1>7. ASSUME NEW i \in 1..Len(records), ToggleRow(i)
      PROVE  StoredInv'
  <2>1. records[i].at \in Place
    <3>1. records[i] \in Record
      BY DEF TypeOK
    <3> QED BY <3>1 DEF Record
  <2>2. expanded' \in Place \cup {None}
    BY <1>7, <2>1 DEF ToggleRow
  <2> QED BY <1>7, <2>2, StoredKept DEF ToggleRow, TypeOK, CorrectionThere
<1> QED BY <1>1, <1>2, <1>3, <1>4, <1>5, <1>6, <1>7

\* An answer that adds to the history adds a place, and only once (PollHistory.add).
LEMMA BatchStored ==
    ASSUME StoredInv, NEW r \in flying, BatchAnswered(r)
    PROVE  StoredInv'
<1> USE DEF StoredInv, rowVars
<1>1. PICK s \in Batches(r) : /\ records' = IF r.kind = "more" THEN records \o s ELSE s
                              /\ hasMore' = (Len(s) = Limit)
  BY DEF BatchAnswered
<1>2. r \in Request /\ r.topic \in Topics
  BY DEF TypeOK, Request
<1>3. s \in Seq(Record)
  BY <1>2, BatchFacts
<1>4. records' \in Seq(Record) /\ hasMore' \in BOOLEAN
  BY <1>1, <1>3 DEF TypeOK
<1>5. /\ UNCHANGED <<topic, form, retrying, sending, rowVars, made, browsed>>
      /\ loading' = FALSE /\ flying' = flying \ {r}
  BY DEF BatchAnswered
<1>6. CASE UNCHANGED history
  BY <1>4, <1>5, <1>6, StoredKept DEF TypeOK, CorrectionThere
<1>7. CASE history' = [history EXCEPT ![topic] = Remember(@, form.at)]
  <2> DEFINE old == history[topic]
             new == Remember(old, form.at)
  <2>1. old \in Seq(Place) /\ form.at \in Place /\ EntriesApart(old)
    BY DEF TypeOK, Form, HistoryUnique, EntriesApart
  <2>2. new \in Seq(Place) /\ Len(new) <= MaxHistory /\ EntriesApart(new)
    BY <2>1, RememberFacts
  <2> HIDE DEF new
  <2>3. \A t \in Topics : history'[t] = IF t = topic THEN new ELSE history[t]
    BY <1>7 DEF TypeOK, new
  <2>4. /\ history' \in [Topics -> Seq(Place)]
        /\ \A t \in Topics : Len(history'[t]) <= MaxHistory
    BY <1>7, <2>2, <2>3 DEF TypeOK
  <2>5. HistoryUnique'
    <3> SUFFICES ASSUME NEW t \in Topics PROVE EntriesApart(history'[t])
      BY DEF HistoryUnique, EntriesApart
    <3> QED BY <2>2, <2>3 DEF HistoryUnique, EntriesApart
  <2> QED BY <1>4, <1>5, <2>4, <2>5 DEF TypeOK, CorrectionThere
<1> QED BY <1>6, <1>7 DEF BatchAnswered

\* Other answers leave the rows and the history.
LEMMA AnswerStored ==
    ASSUME StoredInv, NEW r \in flying,
           BatchFails(r) \/ RetryAnswered(r) \/ CorrectionAnswered(r)
    PROVE  StoredInv'
<1> USE DEF StoredInv, formVars, rowVars
<1>1. CASE BatchFails(r)
  BY <1>1, StoredKept DEF BatchFails, TypeOK, CorrectionThere
<1>2. CASE RetryAnswered(r)
  BY <1>2, StoredKept DEF RetryAnswered, TypeOK, CorrectionThere
<1>3. CASE CorrectionAnswered(r)
  <2>1. showEditor' \in BOOLEAN /\ (showEditor' => showEditor)
    <3>1. showEditor \in BOOLEAN
      BY DEF TypeOK
    <3>2. showEditor' = FALSE \/ showEditor' = showEditor
      BY <1>3 DEF CorrectionAnswered
    <3>3. CASE showEditor' = FALSE
      BY <3>3
    <3>4. CASE showEditor' = showEditor
      BY <3>1, <3>4
    <3> QED BY <3>2, <3>3, <3>4
  <2>2. TypeOK'
    BY <1>3, <2>1 DEF CorrectionAnswered, TypeOK
  <2> QED BY <1>3, <2>1, <2>2, StoredKept DEF CorrectionAnswered, CorrectionThere
<1> QED BY <1>1, <1>2, <1>3

LEMMA IdleStored ==
    ASSUME StoredInv, UNCHANGED vars
    PROVE  StoredInv'
<1> USE DEF StoredInv, vars, formVars, rowVars, askVars
<1>1. TypeOK'
  BY DEF TypeOK
<1> QED BY <1>1, StoredKept DEF CorrectionThere

\* What the user does inside the view keeps the invariant.
LEMMA ViewStored ==
    ASSUME StoredInv, InView
    PROVE  StoredInv'
BY BrowseStored, LoadMoreStored, RetryStored, ConfirmStored, QuietStored DEF InView

LEMMA StepStored ==
    ASSUME StoredInv, [Next]_vars
    PROVE  StoredInv'
<1>1. CASE \E t \in Topics : SwitchTopic(t)
  BY <1>1, ResetStored DEF SwitchTopic
<1>2. CASE InView
  BY <1>2, ViewStored
<1>3. CASE Answered
  BY <1>3, BatchStored, AnswerStored DEF Answered
<1>4. CASE UNCHANGED vars
  BY <1>4, IdleStored
<1> QED BY <1>1, <1>2, <1>3, <1>4 DEF Next, User

\* The invariant of any user always holds.
THEOREM StoredInvariant == Spec => []StoredInv
<1>1. Init => StoredInv
  BY InitStored
<1>2. StoredInv /\ [Next]_vars => StoredInv'
  BY StepStored
<1> QED BY <1>1, <1>2, PTL DEF Spec

\* The state of the browse view is of its types: the history is never longer than its
\* maximum, and whatever is sent again or corrected is a record (PollHistory.add,
\* retryRecord, confirmSendCorrection).
THEOREM TypesOfView == Spec => []TypeOK
<1>1. StoredInv => TypeOK
  BY DEF StoredInv
<1> QED BY <1>1, StoredInvariant, PTL

\* No history has an entry twice, whatever the user does while requests are under way
\* (PollHistory.add).
THEOREM HistoryStaysUnique == Spec => []HistoryUnique
<1>1. StoredInv => HistoryUnique
  BY DEF StoredInv
<1> QED BY <1>1, StoredInvariant, PTL

------------------------------------------------------------------------------
(* A patient user. *)

\* The types that the argument needs.
ViewTypes ==
    /\ topic \in Topics
    /\ form \in Form
    /\ records \in Seq(Record)
    /\ loading \in BOOLEAN /\ retrying \in BOOLEAN /\ sending \in BOOLEAN
    /\ showEditor \in BOOLEAN /\ showDiffModal \in BOOLEAN
    /\ flying \in SUBSET Request
    /\ made \in Nat

Batching == {"browse", "more"}

\* The rows of a partition are in the order of their offsets.
Rising ==
    \A i, j \in 1..Len(records) :
        i < j /\ records[i].at[1] = records[j].at[1] => records[i].at[2] < records[j].at[2]

\* Whatever the view holds or waits for is of its topic.
OfThisTopic ==
    /\ \A i \in 1..Len(records) : records[i].topic = topic
    /\ \A r \in flying : r.topic = topic
    /\ \A r \in flying : r.kind \in {"retry", "correct"} => r.record.topic = topic

\* The editor is open in the row that it was opened for.
EditorInRow ==
    showEditor => \E i \in 1..Len(records) : records[i].at = expanded /\ records[i] = correction

\* The modal is over the editor, and nothing is under way.
ModalOverEditor == showDiffModal => showEditor /\ ~loading /\ ~retrying /\ ~sending

\* A batch that is awaited belongs to the rows: they are empty, or it goes on behind
\* the last of them.
BatchFollows ==
    /\ \A r \in flying : r.kind = "browse" => records = << >>
    /\ \A r \in flying :
          r.kind = "more" => records # << >> /\ r.at = NextOffset(records[Len(records)])

\* The inductive invariant of a patient user.
PatientInv ==
    /\ ViewTypes
    /\ FlagsTellRequests
    /\ Rising
    /\ OfThisTopic
    /\ EditorInRow
    /\ ModalOverEditor
    /\ BatchFollows
    /\ AnswerClosesItsEditor

------------------------------------------------------------------------------
(* Rows. *)

LEMMA OffsetIsInt ==
    ASSUME NEW x \in Record
    PROVE  x.at[2] \in Int
BY DEF Record, Place, Offsets

\* A row is found by its partition and offset (matching of expandedKey).
LEMMA RowsApart ==
    ASSUME ViewTypes, Rising
    PROVE  RowsUnique
<1> SUFFICES ASSUME NEW i \in 1..Len(records), NEW j \in 1..Len(records),
                    records[i].at = records[j].at, i < j
             PROVE  FALSE
  BY DEF RowsUnique, ViewTypes
<1>1. records[j] \in Record
  BY DEF ViewTypes
<1>2. records[j].at[2] \in Int
  BY <1>1 DEF Record, Place, Offsets
<1>3. records[i].at[2] < records[j].at[2]
  BY DEF Rising
<1> QED BY <1>2, <1>3

\* An expanded record is a row of the place that is expanded.
LEMMA ExpandedIsRow ==
    ASSUME ViewTypes, Rising, NEW record \in ExpandedRows
    PROVE  \E i \in 1..Len(records) : records[i].at = expanded /\ record = records[i]
<1> QED BY DEF ExpandedRows

\* A row at the expanded place is the expanded record.
LEMMA RowIsExpanded ==
    ASSUME ViewTypes, Rising, NEW i \in 1..Len(records), records[i].at = expanded
    PROVE  ExpandedRecord = {records[i]}
<1> DEFINE rows == {k \in 1..Len(records) : records[k].at = expanded}
<1>1. rows = {i}
  BY RowsApart DEF RowsUnique
<1>2. Min({i}) = i
  BY DEF Min
<1> QED BY <1>1, <1>2 DEF ExpandedRecord

\* Nothing is under way when no flag is set.
LEMMA NothingFlying ==
    ASSUME ViewTypes, FlagsTellRequests, ~AnyBusy
    PROVE  flying = {}
<1> SUFFICES ASSUME NEW r \in flying PROVE FALSE
  OBVIOUS
<1>1. r.kind \in {"browse", "more", "retry", "correct"}
  BY DEF ViewTypes, Request
<1> QED BY <1>1 DEF FlagsTellRequests, Tells, Batching, AnyBusy

------------------------------------------------------------------------------
(* Steps that ask for nothing and leave the rows. *)

LEMMA InitPatient == Init => PatientInv
<1> SUFFICES ASSUME Init PROVE PatientInv
  OBVIOUS
<1> USE DEF Init
<1>1. ViewTypes
  <2>1. form \in Form
    BY FreshFormTyped
  <2>2. records \in Seq(Record)
    OBVIOUS
  <2> QED BY <2>1, <2>2 DEF ViewTypes
<1>2. FlagsTellRequests
  BY DEF FlagsTellRequests, Tells
<1>3. Rising /\ OfThisTopic /\ EditorInRow /\ ModalOverEditor /\ BatchFollows
  BY DEF Rising, OfThisTopic, EditorInRow, ModalOverEditor, BatchFollows
<1>4. AnswerClosesItsEditor
  BY DEF AnswerClosesItsEditor
<1> QED BY <1>1, <1>2, <1>3, <1>4 DEF PatientInv

\* A switch of topic: nothing is under way, and nothing of the old topic stays
\* (resetState).
LEMMA SwitchPatient ==
    ASSUME PatientInv, Patient, NEW t \in Topics, SwitchTopic(t)
    PROVE  PatientInv'
<1>1. flying = {} /\ flying' = {}
  BY NothingFlying DEF PatientInv, SwitchTopic, ResetState, Free, askVars
<1> USE DEF SwitchTopic, ResetState
<1>2. ViewTypes'
  <2>1. form' \in Form
    BY FreshFormTyped
  <2>2. records' \in Seq(Record)
    OBVIOUS
  <2> QED BY <1>1, <2>1, <2>2 DEF PatientInv, ViewTypes, askVars
<1>3. FlagsTellRequests'
  BY <1>1 DEF FlagsTellRequests, Tells
<1>4. Rising' /\ OfThisTopic' /\ EditorInRow' /\ ModalOverEditor' /\ BatchFollows'
  BY <1>1 DEF Rising, OfThisTopic, EditorInRow, ModalOverEditor, BatchFollows
<1>5. AnswerClosesItsEditor'
  BY <1>1 DEF AnswerClosesItsEditor
<1> QED BY <1>2, <1>3, <1>4, <1>5 DEF PatientInv

\* The form is no part of what is shown (the inputs of the view).
LEMMA EditPatient ==
    ASSUME PatientInv, EditForm
    PROVE  PatientInv'
<1> USE DEF EditForm, PatientInv, rowVars, askVars
<1>1. ViewTypes'
  BY DEF ViewTypes
<1>2. FlagsTellRequests' /\ Rising' /\ OfThisTopic'
  BY DEF FlagsTellRequests, Tells, Rising, OfThisTopic
<1>3. EditorInRow' /\ ModalOverEditor' /\ BatchFollows'
  BY DEF EditorInRow, ModalOverEditor, BatchFollows, NextOffset
<1>4. AnswerClosesItsEditor'
  BY DEF AnswerClosesItsEditor
<1> QED BY <1>1, <1>2, <1>3, <1>4

\* Opening and closing rows, and the filter, close the editor (expandRow).
LEMMA RowPatient ==
    ASSUME PatientInv,
           Filter \/ \E i \in 1..Len(records) : ToggleRow(i)
    PROVE  PatientInv'
<1> USE DEF PatientInv, askVars, formVars
<1>1. /\ UNCHANGED <<formVars, records, loading, retrying, sending, showDiffModal, askVars>>
      /\ UNCHANGED correction
      /\ showEditor' = FALSE
      /\ ~ModalShown
  BY DEF Filter, ToggleRow
<1>2. ~showDiffModal
  <2> SUFFICES ASSUME showDiffModal PROVE FALSE
    OBVIOUS
  <2>1. PICK i \in 1..Len(records) : records[i].at = expanded
    BY DEF ModalOverEditor, EditorInRow
  <2>2. ExpandedRecord # {}
    BY <2>1, RowIsExpanded
  <2> QED BY <1>1, <2>2 DEF ModalShown
<1>3. ViewTypes'
  BY <1>1 DEF ViewTypes
<1>4. FlagsTellRequests' /\ Rising' /\ OfThisTopic'
  BY <1>1 DEF FlagsTellRequests, Tells, Rising, OfThisTopic
<1>5. EditorInRow' /\ ModalOverEditor' /\ BatchFollows'
  BY <1>1, <1>2 DEF EditorInRow, ModalOverEditor, BatchFollows, NextOffset
<1>6. AnswerClosesItsEditor'
  BY <1>1 DEF AnswerClosesItsEditor
<1> QED BY <1>3, <1>4, <1>5, <1>6

\* The editor and the modal (openEditorForRecord, closeEditor, reviewCorrection,
\* cancelDiffModal).
LEMMA EditorPatient ==
    ASSUME PatientInv,
           OpenEditor \/ CloseEditor \/ Review \/ CancelDiff
    PROVE  PatientInv'
<1> USE DEF PatientInv, askVars, formVars
<1>1. UNCHANGED <<formVars, records, loading, retrying, sending, expanded, askVars>>
  BY DEF OpenEditor, CloseEditor, Review, CancelDiff
<1>2. ViewTypes'
  BY <1>1 DEF ViewTypes, OpenEditor, CloseEditor, Review, CancelDiff
<1>3. FlagsTellRequests' /\ Rising' /\ OfThisTopic' /\ BatchFollows'
  BY <1>1 DEF FlagsTellRequests, Tells, Rising, OfThisTopic, BatchFollows, NextOffset
<1>4. EditorInRow' /\ AnswerClosesItsEditor'
  <2>1. CASE OpenEditor
    <3>1. PICK i \in 1..Len(records) : records[i].at = expanded /\ correction' = records[i]
      BY <2>1, ExpandedIsRow DEF OpenEditor
    <3>2. flying' = {}
      BY <2>1, NothingFlying DEF OpenEditor
    <3> QED BY <1>1, <3>1, <3>2 DEF EditorInRow, AnswerClosesItsEditor
  <2>2. CASE CloseEditor
    BY <2>2 DEF CloseEditor, EditorInRow, AnswerClosesItsEditor
  <2>3. CASE Review
    BY <2>3, <1>1 DEF Review, EditorInRow, AnswerClosesItsEditor
  <2>4. CASE CancelDiff
    BY <2>4, <1>1 DEF CancelDiff, EditorInRow, AnswerClosesItsEditor
  <2> QED BY <2>1, <2>2, <2>3, <2>4
<1>5. ModalOverEditor'
  <2>1. CASE OpenEditor
    BY <2>1 DEF OpenEditor, ModalOverEditor
  <2>2. CASE CloseEditor
    <3> SUFFICES ASSUME showDiffModal PROVE FALSE
      BY <2>2 DEF CloseEditor, ModalOverEditor
    <3>1. PICK i \in 1..Len(records) : records[i].at = expanded
      BY <2>2 DEF CloseEditor, EditorShown, ExpandedRows
    <3>2. ExpandedRecord # {}
      BY <3>1, RowIsExpanded
    <3> QED BY <2>2, <3>2 DEF CloseEditor, EditorShown, ModalShown
  <2>3. CASE Review
    BY <2>3 DEF Review, EditorShown, AnyBusy, ModalOverEditor
  <2>4. CASE CancelDiff
    BY <2>4 DEF CancelDiff, ModalOverEditor
  <2> QED BY <2>1, <2>2, <2>3, <2>4
<1> QED BY <1>2, <1>3, <1>4, <1>5

------------------------------------------------------------------------------
(* Requests. *)

\* A new request is the only one of its kind, and its flag tells it.
LEMMA AskPatient ==
    ASSUME ViewTypes, FlagsTellRequests,
           NEW r \in Request, flying' = flying \cup {r},
           \/ r.kind \in Batching /\ ~loading /\ loading' = TRUE
                 /\ UNCHANGED <<retrying, sending>>
           \/ r.kind = "retry" /\ ~retrying /\ retrying' = TRUE
                 /\ UNCHANGED <<loading, sending>>
           \/ r.kind = "correct" /\ ~sending /\ sending' = TRUE
                 /\ UNCHANGED <<loading, retrying>>
    PROVE  FlagsTellRequests'
<1>1. CASE r.kind \in Batching /\ ~loading /\ loading' = TRUE /\ UNCHANGED <<retrying, sending>>
  BY <1>1 DEF FlagsTellRequests, Tells, Batching, ViewTypes
<1>2. CASE r.kind = "retry" /\ ~retrying /\ retrying' = TRUE /\ UNCHANGED <<loading, sending>>
  BY <1>2 DEF FlagsTellRequests, Tells, Batching, ViewTypes
<1>3. CASE r.kind = "correct" /\ ~sending /\ sending' = TRUE /\ UNCHANGED <<loading, retrying>>
  BY <1>3 DEF FlagsTellRequests, Tells, Batching, ViewTypes
<1> QED BY <1>1, <1>2, <1>3

\* An answered request was the only one of its kind: its flag is reset.
LEMMA EndPatient ==
    ASSUME ViewTypes, FlagsTellRequests,
           NEW r \in flying, flying' = flying \ {r},
           \/ r.kind \in Batching /\ loading' = FALSE /\ UNCHANGED <<retrying, sending>>
           \/ r.kind = "retry" /\ retrying' = FALSE /\ UNCHANGED <<loading, sending>>
           \/ r.kind = "correct" /\ sending' = FALSE /\ UNCHANGED <<loading, retrying>>
    PROVE  FlagsTellRequests'
<1>1. CASE r.kind \in Batching /\ loading' = FALSE /\ UNCHANGED <<retrying, sending>>
  BY <1>1 DEF FlagsTellRequests, Tells, Batching, ViewTypes
<1>2. CASE r.kind = "retry" /\ retrying' = FALSE /\ UNCHANGED <<loading, sending>>
  BY <1>2 DEF FlagsTellRequests, Tells, Batching, ViewTypes
<1>3. CASE r.kind = "correct" /\ sending' = FALSE /\ UNCHANGED <<loading, retrying>>
  BY <1>3 DEF FlagsTellRequests, Tells, Batching, ViewTypes
<1> QED BY <1>1, <1>2, <1>3

\* A batch that is asked for anew closes the editor and drops the rows
\* (fetchRecords(false)).
LEMMA BrowsePatient ==
    ASSUME PatientInv, Patient, Browse
    PROVE  PatientInv'
<1> USE DEF PatientInv, formVars
<1>1. PICK at : /\ at = IF form.mode = "offset" THEN form.at ELSE << >>
                /\ Send([id |-> made, kind |-> "browse", topic |-> topic, at |-> at])
  BY DEF Browse
<1> DEFINE new == [id |-> made, kind |-> "browse", topic |-> topic, at |-> at]
<1>2. new \in Request /\ flying' = flying \cup {new}
  BY <1>1 DEF ViewTypes, Form, Request, Send
<1>3. flying = {} /\ ~loading
  BY NothingFlying DEF Browse, Free, AnyBusy
<1> HIDE DEF new
<1>4. new.kind = "browse" /\ new.topic = topic
  BY DEF new
<1>5. /\ UNCHANGED <<formVars, retrying, sending, correction, showDiffModal>>
      /\ loading' = TRUE /\ records' = << >> /\ showEditor' = FALSE
      /\ ~ModalShown
  BY DEF Browse
<1>6. ~showDiffModal
  <2> SUFFICES ASSUME showDiffModal PROVE FALSE
    OBVIOUS
  <2>1. PICK i \in 1..Len(records) : records[i].at = expanded
    BY DEF ModalOverEditor, EditorInRow
  <2> QED BY <1>5, <2>1, RowIsExpanded DEF ModalShown
<1>7. ViewTypes'
  <2>1. records' \in Seq(Record)
    BY <1>5
  <2>2. made' \in Nat
    BY <1>1 DEF ViewTypes, Send
  <2> QED BY <1>2, <1>5, <2>1, <2>2 DEF ViewTypes
<1>8. FlagsTellRequests'
  BY <1>2, <1>3, <1>4, <1>5, AskPatient DEF Batching
<1>9. Rising' /\ EditorInRow' /\ ModalOverEditor' /\ AnswerClosesItsEditor'
  BY <1>5, <1>6 DEF Rising, EditorInRow, ModalOverEditor, AnswerClosesItsEditor
<1>10. OfThisTopic' /\ BatchFollows'
  BY <1>2, <1>3, <1>4, <1>5 DEF OfThisTopic, BatchFollows
<1> QED BY <1>7, <1>8, <1>9, <1>10

\* Load more starts behind the last row (buildParams).
LEMMA LoadMorePatient ==
    ASSUME PatientInv, LoadMore
    PROVE  PatientInv'
<1> USE DEF PatientInv, formVars, rowVars
<1> DEFINE new == [id |-> made, kind |-> "more", topic |-> topic,
                   at |-> NextOffset(Last(records))]
<1>1. new \in Request /\ flying' = flying \cup {new}
  BY DEF LoadMore, ViewTypes, Request, Send
<1>2. new.at = NextOffset(records[Len(records)]) /\ new.kind = "more" /\ new.topic = topic
  BY DEF Last
<1> HIDE DEF new
<1>3. /\ UNCHANGED <<formVars, records, retrying, sending, rowVars>>
      /\ ~loading /\ loading' = TRUE /\ records # << >> /\ ~ModalShown
  BY DEF LoadMore
<1>4. ~showDiffModal
  <2> SUFFICES ASSUME showDiffModal PROVE FALSE
    OBVIOUS
  <2>1. PICK i \in 1..Len(records) : records[i].at = expanded
    BY DEF ModalOverEditor, EditorInRow
  <2> QED BY <1>3, <2>1, RowIsExpanded DEF ModalShown
<1>5. ViewTypes'
  BY <1>1, <1>3 DEF ViewTypes, LoadMore, Send
<1>6. FlagsTellRequests'
  BY <1>1, <1>2, <1>3, AskPatient DEF Batching
<1>7. Rising' /\ EditorInRow' /\ ModalOverEditor' /\ AnswerClosesItsEditor'
  BY <1>1, <1>2, <1>3, <1>4 DEF Rising, EditorInRow, ModalOverEditor, AnswerClosesItsEditor
<1>8. OfThisTopic' /\ BatchFollows'
  BY <1>1, <1>2, <1>3 DEF OfThisTopic, BatchFollows, FlagsTellRequests, Tells, Batching, NextOffset
<1> QED BY <1>5, <1>6, <1>7, <1>8

\* A retry is of the expanded row (retryRecord).
LEMMA RetryPatient ==
    ASSUME PatientInv, RetryRecord
    PROVE  PatientInv'
<1> USE DEF PatientInv, formVars, rowVars
<1>1. PICK record \in ExpandedRows :
        Send([id |-> made, kind |-> "retry", topic |-> topic, record |-> record])
  BY DEF RetryRecord
<1>2. PICK i \in 1..Len(records) : record = records[i]
  BY ExpandedIsRow
<1> DEFINE new == [id |-> made, kind |-> "retry", topic |-> topic, record |-> record]
<1>3. new \in Request /\ flying' = flying \cup {new}
  BY <1>1, <1>2 DEF ViewTypes, Request, Send
<1>4. new.kind = "retry" /\ new.topic = topic /\ new.record = records[i]
  BY <1>2
<1> HIDE DEF new
<1>5. /\ UNCHANGED <<formVars, records, loading, sending, rowVars>>
      /\ ~retrying /\ retrying' = TRUE /\ ~ModalShown
  BY DEF RetryRecord, AnyBusy
<1>6. ~showDiffModal
  <2> SUFFICES ASSUME showDiffModal PROVE FALSE
    OBVIOUS
  <2>1. PICK j \in 1..Len(records) : records[j].at = expanded
    BY DEF ModalOverEditor, EditorInRow
  <2> QED BY <1>5, <2>1, RowIsExpanded DEF ModalShown
<1>7. ViewTypes'
  BY <1>1, <1>3, <1>5 DEF ViewTypes, Send
<1>8. FlagsTellRequests'
  BY <1>3, <1>4, <1>5, AskPatient
<1>9. Rising' /\ EditorInRow' /\ ModalOverEditor' /\ AnswerClosesItsEditor'
  BY <1>3, <1>4, <1>5, <1>6 DEF Rising, EditorInRow, ModalOverEditor, AnswerClosesItsEditor
<1>10. OfThisTopic' /\ BatchFollows'
  BY <1>3, <1>4, <1>5 DEF OfThisTopic, BatchFollows, NextOffset
<1> QED BY <1>7, <1>8, <1>9, <1>10

\* The correction that is sent was written for a row of this topic
\* (confirmSendCorrection).
LEMMA ConfirmPatient ==
    ASSUME PatientInv, Confirm
    PROVE  PatientInv'
<1> USE DEF PatientInv, formVars
<1> DEFINE new == [id |-> made, kind |-> "correct", topic |-> topic, record |-> correction]
<1>1. showDiffModal /\ showEditor /\ ~sending
  BY DEF Confirm, ModalShown, ModalOverEditor
<1>2. PICK i \in 1..Len(records) : correction = records[i]
  BY <1>1 DEF EditorInRow
<1>3. new \in Request /\ flying' = flying \cup {new}
  BY <1>2 DEF Confirm, ViewTypes, Request, Send
<1>4. new.kind = "correct" /\ new.topic = topic /\ new.record = records[i]
  BY <1>2
<1> HIDE DEF new
<1>5. /\ UNCHANGED <<formVars, records, loading, retrying, expanded, showEditor, correction>>
      /\ sending' = TRUE /\ showDiffModal' = FALSE
  BY DEF Confirm
<1>6. ViewTypes'
  <2>1. made' \in Nat
    BY DEF ViewTypes, Confirm, Send
  <2> QED BY <1>3, <1>5, <2>1 DEF ViewTypes
<1>7. FlagsTellRequests'
  BY <1>1, <1>3, <1>4, <1>5, AskPatient
<1>8. Rising' /\ EditorInRow' /\ ModalOverEditor'
  BY <1>5 DEF Rising, EditorInRow, ModalOverEditor
<1>9. AnswerClosesItsEditor'
  BY <1>2, <1>3, <1>4, <1>5 DEF AnswerClosesItsEditor
<1>10. OfThisTopic' /\ BatchFollows'
  BY <1>3, <1>4, <1>5 DEF OfThisTopic, BatchFollows, NextOffset
<1> QED BY <1>6, <1>7, <1>8, <1>9, <1>10

------------------------------------------------------------------------------
(* Answers. *)

\* A batch behind the last row keeps the rows of each partition in order
\* (fetchRecords(true)).
LEMMA RisingJoined ==
    ASSUME ViewTypes, Rising, records # << >>, NEW s \in Seq(Record), NEW p, NEW o,
           <<p, o>> = NextOffset(records[Len(records)]),
           \A i \in 1..Len(s) : s[i].at[2] >= o,
           \A i \in 1..Len(s) : s[i].at[1] = p,
           \A i, j \in 1..Len(s) : i < j /\ s[i].at[1] = s[j].at[1] => s[i].at[2] < s[j].at[2],
           records' = records \o s
    PROVE  Rising'
<1> DEFINE n == Len(records)
<1>1. n \in Nat \ {0} /\ records \in Seq(Record)
  BY DEF ViewTypes
<1>2. /\ Len(records') = n + Len(s) /\ Len(s) \in Nat
      /\ \A i \in 1..n : records'[i] = records[i]
      /\ \A i \in (n + 1)..(n + Len(s)) : records'[i] = s[i - n]
  BY <1>1
<1>3. \A i \in 1..n : records[i].at[2] \in Int
  <2>1. \A i \in 1..n : records[i] \in Record
    BY <1>1
  <2> QED BY <2>1, OffsetIsInt
<1>4. \A i \in 1..Len(s) : s[i].at[2] \in Int
  <2>1. \A i \in 1..Len(s) : s[i] \in Record
    OBVIOUS
  <2> QED BY <2>1, OffsetIsInt
<1>5. p = records[n].at[1] /\ o = records[n].at[2] + 1
  BY DEF NextOffset
<1> SUFFICES ASSUME NEW i \in 1..(n + Len(s)), NEW j \in 1..(n + Len(s)), i < j,
                    records'[i].at[1] = records'[j].at[1]
             PROVE  records'[i].at[2] < records'[j].at[2]
  BY <1>2 DEF Rising
<1>6. CASE j <= n
  <2>1. i \in 1..n /\ j \in 1..n
    BY <1>1, <1>2, <1>6
  <2>2. records'[i] = records[i] /\ records'[j] = records[j]
    BY <1>2, <2>1
  <2> QED BY <2>1, <2>2 DEF Rising
<1>7. CASE i > n
  <2>1. i - n \in 1..Len(s) /\ j - n \in 1..Len(s) /\ i - n < j - n
    BY <1>1, <1>2, <1>7
  <2>2. records'[i] = s[i - n] /\ records'[j] = s[j - n]
    BY <1>1, <1>2, <1>7
  <2> QED BY <2>1, <2>2
<1>8. CASE i <= n /\ j > n
  <2>1. j - n \in 1..Len(s) /\ records'[j] = s[j - n] /\ records'[i] = records[i] /\ i \in 1..n
    BY <1>1, <1>2, <1>8
  <2>2. records[i].at[1] = records[n].at[1]
    BY <2>1, <1>5
  <2>3. records[i].at[2] <= records[n].at[2]
    <3>1. CASE i = n
      BY <1>1, <1>3, <3>1
    <3>2. CASE i < n
      <4>1. n \in 1..n /\ n = Len(records)
        BY <1>1
      <4>2. records[i].at[2] < records[n].at[2]
        BY <2>1, <2>2, <3>2, <4>1 DEF Rising
      <4> QED BY <1>3, <2>1, <4>1, <4>2
    <3> QED BY <1>1, <2>1, <3>1, <3>2
  <2>4. records'[j].at[2] >= o
    BY <2>1
  <2>5. records[i].at[2] \in Int /\ records[n].at[2] \in Int /\ records'[j].at[2] \in Int
    BY <1>1, <1>3, <1>4, <2>1
  <2>6. ASSUME NEW a \in Int, NEW b \in Int, NEW c \in Int, a <= b, c >= b + 1
        PROVE  a < c
    BY <2>6
  <2> QED BY <1>5, <2>1, <2>3, <2>4, <2>5, <2>6
<1> QED BY <1>1, <1>6, <1>7, <1>8

\* The answer to a batch comes to the rows that it was asked for (then of fetchRecords).
LEMMA BatchPatient ==
    ASSUME PatientInv, NEW r \in flying, BatchAnswered(r)
    PROVE  PatientInv'
<1> USE DEF PatientInv
<1>1. PICK s \in Batches(r) : records' = IF r.kind = "more" THEN records \o s ELSE s
  BY DEF BatchAnswered
<1>2. /\ r \in Request /\ r.kind \in Batching /\ r.topic = topic
      /\ flying' = flying \ {r} /\ loading' = FALSE
      /\ UNCHANGED <<topic, form, retrying, sending, rowVars, made>>
  BY DEF BatchAnswered, Batching, ViewTypes, OfThisTopic
<1>3. /\ s \in Seq(Record)
      /\ \A i \in 1..Len(s) : s[i].topic = topic
      /\ \A i, j \in 1..Len(s) :
            i < j /\ s[i].at[1] = s[j].at[1] => s[i].at[2] < s[j].at[2]
  BY <1>2, BatchFacts DEF ViewTypes
<1>4. loading /\ ~showDiffModal
  BY <1>2 DEF FlagsTellRequests, Tells, ModalOverEditor, Batching
<1>5. FlagsTellRequests'
  BY <1>2, EndPatient
<1>6. \A q \in flying' : q.kind \notin Batching
  BY <1>2 DEF FlagsTellRequests, Tells, Batching
<1>7. ModalOverEditor' /\ AnswerClosesItsEditor'
  BY <1>2, <1>4 DEF ModalOverEditor, AnswerClosesItsEditor, rowVars
<1>8. BatchFollows'
  BY <1>6 DEF BatchFollows, Batching
<1>9. CASE r.kind = "browse"
  <2>1. records = << >> /\ records' = s
    BY <1>1, <1>9 DEF BatchFollows
  <2>2. ~showEditor
    BY <2>1 DEF EditorInRow
  <2>3. ViewTypes'
    BY <1>2, <1>3, <2>1 DEF ViewTypes, rowVars
  <2>4. Rising' /\ EditorInRow' /\ OfThisTopic'
    BY <1>2, <1>3, <2>1, <2>2 DEF Rising, EditorInRow, OfThisTopic, rowVars
  <2> QED BY <1>5, <1>7, <1>8, <2>3, <2>4
<1>10. CASE r.kind = "more"
  <2>1. /\ records # << >> /\ records' = records \o s
        /\ r.at = NextOffset(records[Len(records)])
    BY <1>1, <1>10 DEF BatchFollows
  <2>2. r.at # << >>
    BY <2>1 DEF NextOffset
  <2>3. PICK p, o : r.at = <<p, o>>
    BY <2>1 DEF NextOffset
  <2>4. /\ \A i \in 1..Len(s) : s[i].at[1] = p
        /\ \A i \in 1..Len(s) : s[i].at[2] >= o
    BY <1>10, <2>2, <2>3 DEF Batches
  <2>5. Rising'
    BY <1>3, <2>1, <2>3, <2>4, RisingJoined
  <2>6. ViewTypes'
    <3>1. records' \in Seq(Record)
      BY <1>3, <2>1 DEF ViewTypes
    <3> QED BY <1>2, <3>1 DEF ViewTypes, rowVars
  <2>7. /\ Len(records') = Len(records) + Len(s) /\ Len(records) \in Nat /\ Len(s) \in Nat
        /\ \A i \in 1..Len(records) : records'[i] = records[i]
        /\ \A i \in (Len(records) + 1)..(Len(records) + Len(s)) :
              records'[i] = s[i - Len(records)]
    BY <1>3, <2>1 DEF ViewTypes
  <2>8. OfThisTopic'
    <3>1. \A i \in 1..Len(records') : records'[i].topic = topic
      BY <1>3, <2>7 DEF OfThisTopic
    <3> QED BY <1>2, <3>1 DEF OfThisTopic
  <2>9. EditorInRow'
    BY <1>2, <2>7 DEF EditorInRow, rowVars
  <2> QED BY <1>5, <1>7, <1>8, <2>5, <2>6, <2>8, <2>9
<1> QED BY <1>2, <1>9, <1>10 DEF Batching

\* A failed batch, and the answers to retries and corrections, leave the rows.
LEMMA AnswerPatient ==
    ASSUME PatientInv, NEW r \in flying,
           BatchFails(r) \/ RetryAnswered(r) \/ CorrectionAnswered(r)
    PROVE  PatientInv'
<1> USE DEF PatientInv, formVars, rowVars
<1>1. /\ UNCHANGED <<formVars, records, expanded, correction, showDiffModal, made>>
      /\ flying' = flying \ {r}
      /\ showEditor' \in {FALSE, showEditor}
  BY DEF BatchFails, RetryAnswered, CorrectionAnswered
<1>2. FlagsTellRequests'
  BY EndPatient DEF BatchFails, RetryAnswered, CorrectionAnswered, Batching
<1>3. ~showDiffModal
  BY DEF BatchFails, RetryAnswered, CorrectionAnswered, FlagsTellRequests, Tells, Batching,
         ModalOverEditor
<1>4. ViewTypes'
  BY <1>1 DEF ViewTypes, BatchFails, RetryAnswered, CorrectionAnswered
<1>5. Rising' /\ EditorInRow' /\ ModalOverEditor' /\ AnswerClosesItsEditor'
  <2>1. showEditor' => showEditor
    BY <1>1
  <2>2. Rising' /\ ModalOverEditor'
    BY <1>1, <1>3 DEF Rising, ModalOverEditor
  <2>3. EditorInRow'
    BY <1>1, <2>1 DEF EditorInRow
  <2>4. AnswerClosesItsEditor'
    BY <1>1, <2>1 DEF AnswerClosesItsEditor
  <2> QED BY <2>2, <2>3, <2>4
<1>6. OfThisTopic' /\ BatchFollows'
  BY <1>1 DEF OfThisTopic, BatchFollows, NextOffset
<1> QED BY <1>2, <1>4, <1>5, <1>6

------------------------------------------------------------------------------
(* Theorems. *)

\* Every step of a patient user's console keeps the invariant.
LEMMA StepPatient ==
    ASSUME PatientInv, Patient, [Next]_vars
    PROVE  PatientInv'
<1>1. CASE \E t \in Topics : SwitchTopic(t)
  BY <1>1, SwitchPatient
<1>2. CASE EditForm
  BY <1>2, EditPatient
<1>3. CASE Browse
  BY <1>3, BrowsePatient
<1>4. CASE LoadMore
  BY <1>4, LoadMorePatient
<1>5. CASE Filter \/ \E i \in 1..Len(records) : ToggleRow(i)
  BY <1>5, RowPatient
<1>6. CASE RetryRecord
  BY <1>6, RetryPatient
<1>7. CASE OpenEditor \/ CloseEditor \/ Review \/ CancelDiff
  BY <1>7, EditorPatient
<1>8. CASE Confirm
  BY <1>8, ConfirmPatient
<1>9. CASE Answered
  BY <1>9, BatchPatient, AnswerPatient DEF Answered
<1>10. CASE UNCHANGED vars
  <2> USE <1>10 DEF vars, formVars, rowVars, askVars, PatientInv
  <2>1. ViewTypes' /\ FlagsTellRequests' /\ Rising' /\ OfThisTopic'
    BY DEF ViewTypes, FlagsTellRequests, Tells, Rising, OfThisTopic
  <2>2. EditorInRow' /\ ModalOverEditor' /\ BatchFollows' /\ AnswerClosesItsEditor'
    BY DEF EditorInRow, ModalOverEditor, BatchFollows, NextOffset, AnswerClosesItsEditor
  <2> QED BY <2>1, <2>2
<1> QED BY <1>1, <1>2, <1>3, <1>4, <1>5, <1>6, <1>7, <1>8, <1>9, <1>10 DEF Next, User, InView

\* The invariant of a patient user always holds.
THEOREM PatientInvariant ==
    ASSUME Patient
    PROVE  Spec => []PatientInv
<1>1. Init => PatientInv
  BY InitPatient
<1>2. PatientInv /\ [Next]_vars => PatientInv'
  BY StepPatient
<1> QED BY <1>1, <1>2, PTL DEF Spec

\* A patient user's flags tell the requests under way (loading, retrying, sending).
THEOREM FlagsAreTrue ==
    ASSUME Patient
    PROVE  Spec => []FlagsTellRequests
<1>1. PatientInv => FlagsTellRequests
  BY DEF PatientInv
<1> QED BY <1>1, PatientInvariant, PTL

\* No row is shown twice to a patient user, however often he loads more (buildParams).
THEOREM RowsStayUnique ==
    ASSUME Patient
    PROVE  Spec => []RowsUnique
<1>1. PatientInv => RowsUnique
  BY RowsApart DEF PatientInv
<1> QED BY <1>1, PatientInvariant, PTL

\* What a patient user sends goes to the topic that its record was read from
\* (retryRecord, confirmSendCorrection).
THEOREM SentRight ==
    ASSUME Patient
    PROVE  Spec => []SentToItsTopic
<1>1. PatientInv => SentToItsTopic
  BY DEF PatientInv, OfThisTopic, SentToItsTopic
<1> QED BY <1>1, PatientInvariant, PTL

\* The modal compares a patient user's correction with the record that it was written
\* for (DiffModal).
THEOREM DiffIsOfEditor ==
    ASSUME Patient
    PROVE  Spec => []DiffOfEditor
<1>1. ASSUME PatientInv, ModalShown
      PROVE  ExpandedRecord = {correction}
  <2>1. PICK i \in 1..Len(records) : records[i].at = expanded /\ records[i] = correction
    BY <1>1 DEF PatientInv, ModalOverEditor, EditorInRow, ModalShown
  <2> QED BY <1>1, <2>1, RowIsExpanded DEF PatientInv
<1>2. PatientInv => DiffOfEditor
  BY <1>1 DEF DiffOfEditor
<1> QED BY <1>2, PatientInvariant, PTL

\* The answer to a patient user's correction closes the editor it was written in
\* (confirmSendCorrection).
THEOREM EditorOfItsAnswer ==
    ASSUME Patient
    PROVE  Spec => []AnswerClosesItsEditor
<1>1. PatientInv => AnswerClosesItsEditor
  BY DEF PatientInv
<1> QED BY <1>1, PatientInvariant, PTL

------------------------------------------------------------------------------
(* The history of a patient user. *)

\* The form that is read when a batch is answered is the one it was asked with.
AskedAsFormed ==
    \A r \in flying : r.kind = "browse" /\ form.mode = "offset" => form.at \in browsed[topic]

\* The inductive invariant of the history: a patient user's, and any user's.
BrowsedInv == PatientInv /\ StoredInv /\ HistoryBrowsed /\ AskedAsFormed

\* What leaves the form, the history and what was browsed, and asks for no new batch.
LEMMA BrowsedKept ==
    ASSUME HistoryBrowsed, AskedAsFormed, UNCHANGED <<topic, form, history, browsed>>,
           \A r \in flying' \ flying : r.kind # "browse"
    PROVE  HistoryBrowsed' /\ AskedAsFormed'
BY DEF HistoryBrowsed, AskedAsFormed

\* A request of another kind is no batch that is asked for anew.
LEMMA AskedOther ==
    ASSUME NEW r, r.kind # "browse", Send(r)
    PROVE  \A q \in flying' \ flying : q.kind # "browse"
BY DEF Send

\* The place that a batch is asked from is browsed (fetchRecords).
LEMMA BrowseBrowsed ==
    ASSUME BrowsedInv, Patient, Browse
    PROVE  HistoryBrowsed' /\ AskedAsFormed'
<1> USE DEF formVars
<1>1. PICK at : /\ at = IF form.mode = "offset" THEN form.at ELSE << >>
                /\ browsed' = IF at = << >> THEN browsed
                              ELSE [browsed EXCEPT ![topic] = @ \cup {at}]
  BY DEF Browse
<1>2. UNCHANGED <<topic, form, history>>
  BY DEF Browse
<1>3. topic \in Topics /\ browsed \in [Topics -> SUBSET Place] /\ form.at \in Place
  BY DEF BrowsedInv, StoredInv, TypeOK, Form
<1>4. \A t \in Topics : browsed[t] \subseteq browsed'[t]
  BY <1>1, <1>3
<1>5. form.mode = "offset" => form.at \in browsed'[topic]
  <2> SUFFICES ASSUME form.mode = "offset" PROVE form.at \in browsed'[topic]
    OBVIOUS
  <2>1. form.at # << >>
    BY <1>3 DEF Place
  <2> QED BY <1>1, <1>3, <2>1
<1>6. HistoryBrowsed'
  BY <1>2, <1>4 DEF BrowsedInv, HistoryBrowsed
<1> QED BY <1>2, <1>5, <1>6 DEF AskedAsFormed

\* What an answer adds to the history was browsed (then of fetchRecords).
LEMMA BatchBrowsed ==
    ASSUME BrowsedInv, NEW r \in flying, BatchAnswered(r)
    PROVE  HistoryBrowsed' /\ AskedAsFormed'
<1>1. UNCHANGED <<topic, form, browsed>> /\ flying' = flying \ {r}
  BY DEF BatchAnswered
<1>2. AskedAsFormed'
  BY <1>1 DEF BrowsedInv, AskedAsFormed
<1>3. CASE UNCHANGED history
  BY <1>1, <1>2, <1>3 DEF BrowsedInv, HistoryBrowsed
<1>4. CASE Remembered(r) /\ history' = [history EXCEPT ![topic] = Remember(@, form.at)]
  <2> DEFINE old == history[topic]
             new == Remember(old, form.at)
  <2>1. old \in Seq(Place) /\ form.at \in Place /\ topic \in Topics
    BY DEF BrowsedInv, StoredInv, TypeOK, Form
  <2>2. \A k \in 1..Len(new) :
          new[k] = form.at \/ \E i \in 1..Len(old) : new[k] = old[i]
    BY <2>1, RememberFacts
  <2>3. form.at \in browsed[topic]
    BY <1>4 DEF Remembered, BrowsedInv, AskedAsFormed
  <2>4. \A i \in 1..Len(old) : old[i] \in browsed[topic]
    BY <2>1 DEF BrowsedInv, HistoryBrowsed
  <2>5. \A k \in 1..Len(new) : new[k] \in browsed[topic]
    BY <2>2, <2>3, <2>4
  <2> HIDE DEF new
  <2>6. \A t \in Topics : history'[t] = IF t = topic THEN new ELSE history[t]
    BY <1>4 DEF BrowsedInv, StoredInv, TypeOK, new
  <2>7. HistoryBrowsed'
    BY <1>1, <2>5, <2>6 DEF BrowsedInv, HistoryBrowsed
  <2> QED BY <1>2, <2>7
<1> QED BY <1>3, <1>4 DEF BatchAnswered

LEMMA StepBrowsed ==
    ASSUME BrowsedInv, Patient, [Next]_vars
    PROVE  BrowsedInv'
<1>1. PatientInv' /\ StoredInv'
  BY StepPatient, StepStored DEF BrowsedInv
<1> SUFFICES HistoryBrowsed' /\ AskedAsFormed'
  BY <1>1 DEF BrowsedInv
<1> USE DEF formVars, rowVars, askVars
<1>2. ~AnyBusy => flying = {}
  BY NothingFlying DEF BrowsedInv, PatientInv
<1>3. CASE \E t \in Topics : SwitchTopic(t)
  BY <1>2, <1>3 DEF SwitchTopic, ResetState, Free, BrowsedInv, HistoryBrowsed, AskedAsFormed
<1>4. CASE EditForm
  BY <1>2, <1>4 DEF EditForm, Free, BrowsedInv, HistoryBrowsed, AskedAsFormed
<1>5. CASE Browse
  BY <1>5, BrowseBrowsed
<1>6. CASE LoadMore
  BY <1>6, AskedOther, BrowsedKept DEF LoadMore, BrowsedInv
<1>7. CASE RetryRecord
  BY <1>7, AskedOther, BrowsedKept DEF RetryRecord, BrowsedInv
<1>8. CASE Confirm
  BY <1>8, AskedOther, BrowsedKept DEF Confirm, BrowsedInv
<1>9. CASE \/ Filter \/ OpenEditor \/ CloseEditor \/ Review \/ CancelDiff
           \/ \E i \in 1..Len(records) : ToggleRow(i)
  <2>1. UNCHANGED <<topic, form, history, browsed, flying>>
    BY <1>9 DEF Filter, OpenEditor, CloseEditor, Review, CancelDiff, ToggleRow
  <2> QED BY <2>1, BrowsedKept DEF BrowsedInv
<1>10. ASSUME NEW r \in flying, BatchAnswered(r)
       PROVE  HistoryBrowsed' /\ AskedAsFormed'
  BY <1>10, BatchBrowsed
<1>11. ASSUME NEW r \in flying, BatchFails(r) \/ RetryAnswered(r) \/ CorrectionAnswered(r)
       PROVE  HistoryBrowsed' /\ AskedAsFormed'
  <2>1. UNCHANGED <<topic, form, history, browsed>> /\ flying' = flying \ {r}
    BY <1>11 DEF BatchFails, RetryAnswered, CorrectionAnswered
  <2> QED BY <2>1, BrowsedKept DEF BrowsedInv
<1>12. CASE UNCHANGED vars
  BY <1>12, BrowsedKept DEF vars, BrowsedInv
<1> QED BY <1>3, <1>4, <1>5, <1>6, <1>7, <1>8, <1>9, <1>10, <1>11, <1>12
        DEF Next, User, InView, Answered

\* The history of a patient user's topic holds places that were browsed in this topic,
\* although topic and form are read when the answer comes (then of fetchRecords).
THEOREM HistoryIsBrowsed ==
    ASSUME Patient
    PROVE  Spec => []HistoryBrowsed
<1>1. Init => BrowsedInv
  <2> SUFFICES ASSUME Init PROVE HistoryBrowsed /\ AskedAsFormed
    BY InitPatient, InitStored DEF BrowsedInv
  <2> QED BY DEF Init, HistoryBrowsed, AskedAsFormed
<1>2. BrowsedInv /\ [Next]_vars => BrowsedInv'
  BY StepBrowsed
<1>3. BrowsedInv => HistoryBrowsed
  BY DEF BrowsedInv
<1> QED BY <1>1, <1>2, <1>3, PTL DEF Spec

===============================================================================
