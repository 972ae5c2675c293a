----------------------------- MODULE Console_proofs -----------------------------
(***************************************************************************)
(* Theorems of the console as a whole, for any topics and any number of    *)
(* requests, and for any user: the sidebar and the browse view agree on    *)
(* the topic, nothing is asked of an unknown path, and the sidebar does    *)
(* not take a missed config for an empty list.  The state of the browse    *)
(* view keeps the invariant that BrowseView_proofs shows of it.            *)
(***************************************************************************)
EXTENDS Console, BrowseView_proofs

\* What is known once the path is: only then is there a list, a drain to confirm, or a
\* request for anything but the config.
PathFirst ==
    /\ consumers => basePath
    /\ confirmDrain # None => basePath
    /\ \A c \in asked : c.kind # "config" => c.path /\ basePath

\* The types of what the sidebar and the dialog keep.
SideTypes ==
    /\ screen \in {"/", "/browse"}
    /\ selectedTopic \in Topics \cup {None}
    /\ basePath \in BOOLEAN /\ disabled \in BOOLEAN
    /\ consumersLoading \in BOOLEAN /\ consumers \in BOOLEAN
    /\ expandedGroups \subseteq Main
    /\ confirmDrain \in DOMAIN DltOf \cup {None}
    /\ asked \in SUBSET Call /\ calls \in Nat
    /\ pathless \in SUBSET Nat
    /\ told \in SUBSET Nat

\* The inductive invariant of the console.
ConsoleInv ==
    /\ StoredInv
    /\ SideTypes
    /\ PathFirst
    /\ SelectedIsBrowsed
    /\ MissedConfigShows

------------------------------------------------------------------------------
(* Requests of the sidebar. *)

CallKinds == {"config", "list", "refresh"}

\* Requests that may be made together: of these kinds, and only the config before the
\* path is known.
MayAsk(kinds) ==
    /\ kinds \in Seq(CallKinds)
    /\ ~basePath => \A i \in 1..Len(kinds) : kinds[i] = "config"

\* What the sidebar asks when it is loaded and when it is refreshed (Sidebar.oninit,
\* refreshConsumers).
LEMMA LoadMayAsk ==
    /\ MayAsk(<< >>) /\ MayAsk(Load) /\ MayAsk(Refresh)
    /\ MayAsk(Refresh \o Load) /\ MayAsk(Refresh \o << >>)
<1>1. /\ << >> \in Seq(CallKinds) /\ << "list" >> \in Seq(CallKinds)
      /\ << "config" >> \in Seq(CallKinds) /\ << "refresh" >> \in Seq(CallKinds)
  BY DEF CallKinds
<1>2. Load \in Seq(CallKinds) /\ Refresh \in Seq(CallKinds)
  BY <1>1 DEF Load, Refresh
<1>3. MayAsk(<< >>) /\ MayAsk(Load) /\ MayAsk(Refresh)
  BY <1>1, <1>2 DEF MayAsk, Load, Refresh
<1>4. MayAsk(Refresh \o << >>)
  BY <1>2, <1>3, ConcatEmptySeq
<1>5. MayAsk(Refresh \o Load)
  <2>1. Refresh \o Load \in Seq(CallKinds)
    BY <1>2
  <2>2. CASE ~basePath
    BY <1>1, <1>3, <2>2, ConcatEmptySeq DEF Refresh, Load
  <2> QED BY <2>1, <2>2 DEF MayAsk
<1> QED BY <1>3, <1>4, <1>5

\* Requests that may be made keep what is said of the requests under way.
LEMMA AskKeeps ==
    ASSUME SideTypes, PathFirst, NEW kinds, MayAsk(kinds), Ask(kinds), UNCHANGED basePath,
           UNCHANGED <<consumers, confirmDrain>>
    PROVE  asked' \in SUBSET Call /\ calls' \in Nat /\ PathFirst'
<1> DEFINE new == {[id |-> calls + i, kind |-> kinds[i], path |-> basePath] :
                      i \in 1..Len(kinds)}
<1>1. asked' = asked \cup new /\ calls' = calls + Len(kinds)
  BY DEF Ask
<1>2. Len(kinds) \in Nat /\ \A i \in 1..Len(kinds) : kinds[i] \in CallKinds
  BY DEF MayAsk
<1>3. ASSUME NEW c \in new
      PROVE  c \in Call /\ (c.kind # "config" => c.path /\ basePath)
  <2>1. PICK i \in 1..Len(kinds) :
          c = [id |-> calls + i, kind |-> kinds[i], path |-> basePath]
    OBVIOUS
  <2>2. calls + i \in Nat
    BY <1>2 DEF SideTypes
  <2>3. c \in Call
    BY <1>2, <2>1, <2>2 DEF SideTypes, CallKinds, Call
  <2>4. c.kind = kinds[i] /\ c.path = basePath
    BY <2>1
  <2>5. kinds[i] # "config" => basePath
    BY DEF MayAsk
  <2> QED BY <2>3, <2>4, <2>5
<1> HIDE DEF new
<1>4. asked' \in SUBSET Call /\ calls' \in Nat
  BY <1>1, <1>2, <1>3 DEF SideTypes
<1>5. PathFirst'
  BY <1>1, <1>3 DEF PathFirst
<1> QED BY <1>4, <1>5

\* The same, past the bound.
LEMMA AskAnywayKeeps ==
    ASSUME SideTypes, PathFirst, NEW kinds, MayAsk(kinds), AskAnyway(kinds) \/ NoCall,
           UNCHANGED <<basePath, consumers, confirmDrain>>
    PROVE  asked' \in SUBSET Call /\ calls' \in Nat /\ PathFirst'
<1>1. CASE Ask(kinds)
  BY <1>1, AskKeeps
<1>2. CASE NoCall
  BY <1>2 DEF NoCall, SideTypes, PathFirst
<1> QED BY <1>1, <1>2 DEF AskAnyway

\* An ended request leaves what is said of the others.
LEMMA EndKeeps ==
    ASSUME SideTypes, NEW c \in asked, End(c)
    PROVE  /\ asked' \in SUBSET Call /\ calls' \in Nat
           /\ asked' \subseteq asked
BY DEF End, SideTypes

------------------------------------------------------------------------------
(* Steps of the sidebar and the dialog. *)

LEMMA InitConsole == ConsoleInit => ConsoleInv
<1> SUFFICES ASSUME ConsoleInit PROVE ConsoleInv
  OBVIOUS
<1> USE DEF ConsoleInit
<1>1. StoredInv
  BY InitStored
<1>2. topic \in Topics
  BY DEF Init
<1>3. [id |-> 0, kind |-> "config", path |-> FALSE] \in Call
  BY DEF Call
<1>4. SideTypes
  BY <1>2, <1>3 DEF SideTypes
<1>5. PathFirst /\ SelectedIsBrowsed /\ MissedConfigShows
  BY DEF PathFirst, SelectedIsBrowsed, MissedConfigShows
<1> QED BY <1>1, <1>4, <1>5 DEF ConsoleInv

\* The browse view shows the topic of the route, afresh or as it is (oninit and view of
\* BrowseView).
LEMMA ShowKeeps ==
    ASSUME ConsoleInv, NEW t \in Topics, ShowTopic(t)
    PROVE  StoredInv' /\ SelectedIsBrowsed' /\ screen' = "/browse" /\ selectedTopic' = t
<1>1. CASE ResetState(t)
  BY <1>1, ResetStored DEF ConsoleInv, ShowTopic, SelectedIsBrowsed, ResetState
<1>2. CASE t = topic /\ UNCHANGED vars
  <2>1. StoredInv'
    BY <1>2, IdleStored DEF ConsoleInv
  <2> QED BY <1>2, <2>1 DEF ShowTopic, SelectedIsBrowsed, vars, formVars
<1> QED BY <1>1, <1>2 DEF ShowTopic

\* A selection in the sidebar (selectTopic).
LEMMA SelectKeeps ==
    ASSUME ConsoleInv, NEW t \in Topics, SelectTopic(t),
           UNCHANGED <<basePath, disabled, consumersLoading, consumers, confirmDrain,
                       pathless, told>>,
           expandedGroups' \subseteq Main
    PROVE  ConsoleInv'
<1>1. StoredInv' /\ SelectedIsBrowsed' /\ screen' = "/browse" /\ selectedTopic' = t
  BY ShowKeeps DEF SelectTopic
<1>2. PICK kinds : MayAsk(kinds) /\ Ask(kinds)
  BY LoadMayAsk DEF SelectTopic
<1>3. asked' \in SUBSET Call /\ calls' \in Nat /\ PathFirst'
  BY <1>2, AskKeeps DEF ConsoleInv
<1>4. SideTypes'
  BY <1>1, <1>3 DEF ConsoleInv, SideTypes
<1>5. MissedConfigShows'
  BY DEF ConsoleInv, MissedConfigShows
<1> QED BY <1>1, <1>3, <1>4, <1>5 DEF ConsoleInv

LEMMA SelectItemKeeps ==
    ASSUME ConsoleInv,
           (\E c \in Main : SelectMain(c)) \/ (\E c \in DOMAIN DltOf : SelectDlt(c))
    PROVE  ConsoleInv'
<1>1. ASSUME NEW c \in Main, SelectMain(c)
      PROVE  ConsoleInv'
  <2>1. c \in Topics
    BY ConsoleAssumption
  <2>2. expandedGroups' \subseteq Main
    BY <1>1 DEF SelectMain, ConsoleInv, SideTypes
  <2> QED BY <1>1, <2>1, <2>2, SelectKeeps DEF SelectMain
<1>2. ASSUME NEW c \in DOMAIN DltOf, SelectDlt(c)
      PROVE  ConsoleInv'
  <2>1. DltOf[c] \in Topics
    BY ConsoleAssumption
  <2>2. expandedGroups' \subseteq Main
    BY <1>2 DEF SelectDlt, sideVars, ConsoleInv, SideTypes
  <2> QED BY <1>2, <2>1, <2>2, SelectKeeps DEF SelectDlt, sideVars
<1> QED BY <1>1, <1>2

\* The browser's history, or a link.
LEMMA GoKeeps ==
    ASSUME ConsoleInv, GoHome \/ \E t \in Topics : GoToTopic(t)
    PROVE  ConsoleInv'
<1>1. CASE GoHome
  <2>1. StoredInv'
    BY <1>1, IdleStored DEF GoHome, ConsoleInv
  <2>2. asked' \in SUBSET Call /\ calls' \in Nat /\ PathFirst'
    BY <1>1, LoadMayAsk, AskKeeps DEF GoHome, ConsoleInv, sideVars
  <2>3. SideTypes'
    BY <1>1, <2>2 DEF GoHome, ConsoleInv, SideTypes, sideVars
  <2> QED BY <1>1, <2>1, <2>2, <2>3
          DEF GoHome, ConsoleInv, sideVars, SelectedIsBrowsed, MissedConfigShows
<1>2. ASSUME NEW t \in Topics, GoToTopic(t)
      PROVE  ConsoleInv'
  <2>1. StoredInv' /\ SelectedIsBrowsed' /\ screen' = "/browse" /\ selectedTopic' = t
    BY <1>2, ShowKeeps DEF GoToTopic
  <2>2. Ask(Load) \/ NoCall
    BY <1>2 DEF GoToTopic
  <2>3. asked' \in SUBSET Call /\ calls' \in Nat /\ PathFirst'
    BY <1>2, <2>2, LoadMayAsk, AskKeeps, AskAnywayKeeps DEF GoToTopic, ConsoleInv, sideVars
  <2>4. SideTypes'
    BY <1>2, <2>1, <2>3 DEF GoToTopic, ConsoleInv, SideTypes, sideVars
  <2> QED BY <1>2, <2>1, <2>3, <2>4 DEF GoToTopic, ConsoleInv, sideVars, MissedConfigShows
<1> QED BY <1>1, <1>2

\* The dialog about a drain is open only where there is a list, and so is what is asked
\* after it (onConfirm).
LEMMA DialogKeeps ==
    ASSUME ConsoleInv,
           (\E c \in DOMAIN DltOf : OpenDrain(c)) \/ CancelDrain \/ ConfirmDrain
    PROVE  ConsoleInv'
<1> USE DEF ConsoleInv, sideVars, viewVars
<1>1. /\ UNCHANGED <<vars, viewVars, sideVars, pathless, told>>
  BY DEF OpenDrain, CancelDrain, ConfirmDrain
<1>2. StoredInv'
  BY <1>1, IdleStored
<1>3. SelectedIsBrowsed' /\ MissedConfigShows'
  BY <1>1 DEF SelectedIsBrowsed, MissedConfigShows, vars, formVars
<1>4. SideTypes' /\ PathFirst'
  <2>1. CASE \E c \in DOMAIN DltOf : OpenDrain(c)
    BY <2>1, <1>1 DEF OpenDrain, DltShown, ListShown, SideTypes, PathFirst
  <2>2. CASE CancelDrain
    BY <2>2, <1>1 DEF CancelDrain, SideTypes, PathFirst
  <2>3. CASE ConfirmDrain
    <3> DEFINE new == [id |-> calls + 1, kind |-> "drain", path |-> basePath,
                       of |-> confirmDrain]
    <3>1. basePath /\ confirmDrain \in Main
      BY <2>3, ConsoleAssumption DEF ConfirmDrain, SideTypes, PathFirst
    <3>2. calls + 1 \in Nat
      BY DEF SideTypes
    <3>3. new \in Call /\ new.path = basePath
      BY <3>1, <3>2 DEF Call
    <3>4. asked' = asked \cup {new} /\ calls' = calls + 1 /\ confirmDrain' = None
      BY <2>3 DEF ConfirmDrain
    <3> HIDE DEF new
    <3>5. SideTypes'
      BY <1>1, <3>2, <3>3, <3>4 DEF SideTypes
    <3>6. PathFirst'
      BY <1>1, <3>1, <3>3, <3>4 DEF PathFirst
    <3> QED BY <3>5, <3>6
  <2> QED BY <2>1, <2>2, <2>3
<1> QED BY <1>2, <1>3, <1>4

------------------------------------------------------------------------------
(* Answers to the sidebar. *)

\* Only a missed config ends the spinner without a path (the catch of Sidebar.oninit).
LEMMA CallAnsweredKeeps ==
    ASSUME ConsoleInv, NEW c \in asked,
           \/ ConfigAnswered(c) \/ ConfigFails(c) \/ ListAnswered(c) \/ ListFails(c)
           \/ DrainAnswered(c) \/ DrainFails(c)
    PROVE  ConsoleInv'
<1> USE DEF ConsoleInv, sideVars, viewVars
<1>1. UNCHANGED <<vars, viewVars, expandedGroups, confirmDrain, pathless>>
  BY DEF ConfigAnswered, ConfigFails, ListAnswered, ListFails, DrainAnswered, DrainFails
<1>2. StoredInv'
  BY <1>1, IdleStored
<1>3. SelectedIsBrowsed'
  BY <1>1 DEF SelectedIsBrowsed, vars, formVars
<1>4. c \in Call /\ c.id \in Nat
  BY DEF SideTypes, Call
<1>5. CASE ConfigAnswered(c)
  <2> DEFINE new == [id |-> c.id, kind |-> "list", path |-> TRUE]
  <2>1. new \in Call /\ new.path
    BY <1>4 DEF Call
  <2>2. asked' = (asked \ {c}) \cup {new} /\ basePath' = TRUE
    BY <1>5 DEF ConfigAnswered
  <2> HIDE DEF new
  <2>3. SideTypes'
    BY <1>1, <1>5, <2>1, <2>2 DEF ConfigAnswered, SideTypes
  <2>4. PathFirst'
    BY <1>1, <1>5, <2>1, <2>2 DEF ConfigAnswered, PathFirst
  <2> QED BY <1>2, <1>3, <2>2, <2>3, <2>4 DEF MissedConfigShows
<1>6. CASE ConfigFails(c)
  <2>1. SideTypes' /\ PathFirst' /\ MissedConfigShows'
    BY <1>1, <1>6, EndKeeps DEF ConfigFails, SideTypes, PathFirst, MissedConfigShows
  <2> QED BY <1>2, <1>3, <2>1
<1>7. CASE ListAnswered(c) \/ ListFails(c)
  <2>1. c.kind # "config"
    BY <1>7 DEF ListAnswered, ListFails
  <2>2. basePath /\ End(c) /\ UNCHANGED <<basePath, disabled, told>>
    BY <1>7, <2>1 DEF ListAnswered, ListFails, PathFirst
  <2>3. consumersLoading' \in BOOLEAN /\ consumers' \in BOOLEAN
    BY <1>7 DEF ListAnswered, ListFails, SideTypes
  <2>4. SideTypes'
    BY <1>1, <2>2, <2>3, EndKeeps DEF SideTypes
  <2>5. PathFirst' /\ MissedConfigShows'
    BY <1>1, <2>2, EndKeeps DEF PathFirst, MissedConfigShows
  <2> QED BY <1>2, <1>3, <2>4, <2>5
<1>8. CASE DrainAnswered(c) \/ DrainFails(c)
  <2> DEFINE new == [id |-> calls + 1, kind |-> "refresh", path |-> basePath]
  <2>1. basePath /\ UNCHANGED sideVars /\ told' = told \cup {c.id}
    BY <1>8 DEF DrainAnswered, DrainFails, PathFirst
  <2>2. calls + 1 \in Nat
    BY DEF SideTypes
  <2>3. new \in Call /\ new.path = basePath
    BY <2>1, <2>2 DEF Call
  <2>4. \/ End(c)
        \/ asked' = (asked \ {c}) \cup {new} /\ calls' = calls + 1
    BY <1>8 DEF DrainAnswered, DrainFails
  <2> HIDE DEF new
  <2>5. asked' \in SUBSET Call /\ calls' \in Nat /\ asked' \subseteq asked \cup {new}
    BY <2>2, <2>3, <2>4, EndKeeps DEF SideTypes
  <2>6. SideTypes'
    BY <1>1, <1>4, <2>1, <2>5 DEF SideTypes
  <2>7. PathFirst' /\ MissedConfigShows'
    BY <1>1, <2>1, <2>3, <2>5 DEF PathFirst, MissedConfigShows
  <2> QED BY <1>2, <1>3, <2>6, <2>7
<1> QED BY <1>5, <1>6, <1>7, <1>8

------------------------------------------------------------------------------
(* The browse view. *)

LEMMA UseKeeps ==
    ASSUME ConsoleInv, UseView
    PROVE  ConsoleInv'
<1> USE DEF ConsoleInv, sideVars, viewVars
<1>1. StoredInv'
  BY ViewStored DEF UseView
<1>2. UNCHANGED <<viewVars, sideVars, confirmDrain, asked, calls, told>>
  BY DEF UseView
<1>3. made \in Nat /\ made' \in Nat
  BY <1>1 DEF StoredInv, TypeOK
<1>4. pathless' \in SUBSET Nat
  <2>1. made..(made' - 1) \subseteq Nat
    <3>1. \A a, b \in Nat : a..(b - 1) \subseteq Nat
      OBVIOUS
    <3> QED BY <1>3, <3>1
  <2>2. pathless \subseteq Nat
    BY DEF SideTypes
  <2> QED BY <2>1, <2>2 DEF UseView
<1>5. SideTypes' /\ PathFirst' /\ MissedConfigShows'
  BY <1>2, <1>4 DEF SideTypes, PathFirst, MissedConfigShows
<1>6. UNCHANGED topic
  BY DEF UseView, InView, EditForm, Browse, LoadMore, ToggleRow, Filter, RetryRecord,
         OpenEditor, CloseEditor, Review, CancelDiff, Confirm, formVars
<1> QED BY <1>1, <1>2, <1>5, <1>6 DEF SelectedIsBrowsed

\* A batch with rows refreshes the list (then of fetchRecords).
LEMMA AnswerKeeps ==
    ASSUME ConsoleInv, NEW r \in flying, BatchRefreshes(r) \/ OtherAnswer(r)
    PROVE  ConsoleInv'
<1> USE DEF ConsoleInv, sideVars, viewVars
<1>1. StoredInv' /\ UNCHANGED topic
  BY BatchStored, AnswerStored
     DEF BatchRefreshes, OtherAnswer, BatchAnswered, BatchFails, RetryAnswered,
         CorrectionAnswered, formVars
<1>2. UNCHANGED <<viewVars, sideVars, confirmDrain, pathless, told>>
  BY DEF BatchRefreshes, OtherAnswer
<1>3. AskAnyway(Refresh) \/ NoCall
  BY DEF BatchRefreshes, OtherAnswer, NoCall
<1>4. asked' \in SUBSET Call /\ calls' \in Nat /\ PathFirst'
  BY <1>2, <1>3, LoadMayAsk, AskAnywayKeeps
<1>5. SideTypes' /\ MissedConfigShows' /\ SelectedIsBrowsed'
  BY <1>1, <1>2, <1>4 DEF SideTypes, MissedConfigShows, SelectedIsBrowsed
<1> QED BY <1>1, <1>4, <1>5

------------------------------------------------------------------------------
(* Theorems. *)

LEMMA StepConsole ==
    ASSUME ConsoleInv, [ConsoleNext]_consoleVars
    PROVE  ConsoleInv'
<1>1. CASE ConsoleUser
  BY <1>1, SelectItemKeeps, GoKeeps, DialogKeeps, UseKeeps DEF ConsoleUser
<1>2. CASE ConsoleAnswered
  BY <1>2, CallAnsweredKeeps, AnswerKeeps DEF ConsoleAnswered
<1>3. CASE UNCHANGED consoleVars
  <2> USE <1>3 DEF consoleVars, viewVars, sideVars
  <2>1. StoredInv' /\ UNCHANGED topic
    BY IdleStored DEF ConsoleInv, vars, formVars
  <2>2. SideTypes' /\ PathFirst'
    BY DEF ConsoleInv, SideTypes, PathFirst
  <2>3. SelectedIsBrowsed' /\ MissedConfigShows'
    BY <2>1 DEF ConsoleInv, SelectedIsBrowsed, MissedConfigShows
  <2> QED BY <2>1, <2>2, <2>3 DEF ConsoleInv
<1> QED BY <1>1, <1>2, <1>3 DEF ConsoleNext

\* The invariant of the console always holds.
THEOREM ConsoleInvariant == ConsoleSpec => []ConsoleInv
<1>1. ConsoleInit => ConsoleInv
  BY InitConsole
<1>2. ConsoleInv /\ [ConsoleNext]_consoleVars => ConsoleInv'
  BY StepConsole
<1> QED BY <1>1, <1>2, PTL DEF ConsoleSpec

\* The state of the console is of its types.
THEOREM TypesOfConsole == ConsoleSpec => []ConsoleTypeOK
<1>1. ConsoleInv => ConsoleTypeOK
  BY DEF ConsoleInv, StoredInv, SideTypes, ConsoleTypeOK
<1> QED BY <1>1, ConsoleInvariant, PTL

\* The topic marked in the sidebar is the one that the browse view acts on, whichever
\* way the user came to it (selectTopic, oninit and view of BrowseView).
THEOREM SelectedStaysBrowsed == ConsoleSpec => []SelectedIsBrowsed
<1>1. ConsoleInv => SelectedIsBrowsed
  BY DEF ConsoleInv
<1> QED BY <1>1, ConsoleInvariant, PTL

\* The sidebar and the dialog ask for nothing but the config as long as the path of the
\* REST API is not known (Sidebar.oninit, refreshConsumers, onConfirm).
THEOREM NothingAskedOfNoPath == ConsoleSpec => []AskedOfKnownPath
<1>1. ConsoleInv => AskedOfKnownPath
  BY DEF ConsoleInv, PathFirst, AskedOfKnownPath
<1> QED BY <1>1, ConsoleInvariant, PTL

\* A missed config is never shown as an empty list (the catch of Sidebar.oninit).
THEOREM MissedConfigAlwaysShows == ConsoleSpec => []MissedConfigShows
<1>1. ConsoleInv => MissedConfigShows
  BY DEF ConsoleInv
<1> QED BY <1>1, ConsoleInvariant, PTL

\* No history has an entry twice, whatever the user does in the whole console
\* (PollHistory.add).
THEOREM HistoryUniqueInConsole == ConsoleSpec => []HistoryUnique
<1>1. ConsoleInv => HistoryUnique
  BY DEF ConsoleInv, StoredInv
<1> QED BY <1>1, ConsoleInvariant, PTL

===============================================================================
