-------------------------------- MODULE Console --------------------------------
(***************************************************************************)
(* The console as a whole: the routes '/' and '/browse', the sidebar with  *)
(* the list of consumers and the dialog that starts a DLT route, and the   *)
(* browse view (BrowseView).  The two share state.js and api.js: the       *)
(* selected topic, the path of the REST API, which a first request asks    *)
(* for, and the list of consumers, which a batch refreshes.                *)
(*                                                                         *)
(* Switching between the routes replaces the view, and the new view loads  *)
(* the sidebar again.  What is in flight is answered all the same, into    *)
(* the state as it is then.                                                *)
(***************************************************************************)
EXTENDS BrowseView, FiniteSets

CONSTANTS
    Main,       \* topics of the registered consumers
    DltOf,      \* DltOf[c]: the DLT topic that consumer c has in its list
    Routed,     \* consumers with a DLT and a retry topic: they have a DLT route
    MaxCalls,   \* bound: requests of the sidebar
    MaxBoth     \* bound: requests of the sidebar and the browse view together

ASSUME ConsoleAssumption ==
    /\ Main \subseteq Topics
    /\ Routed \subseteq DOMAIN DltOf /\ DOMAIN DltOf \subseteq Main
    /\ \A c \in DOMAIN DltOf : DltOf[c] \in Topics \ Main
    /\ MaxCalls \in Nat \ {0} /\ MaxBoth \in Nat

VARIABLES
    screen,           \* the route: "/" or "/browse"
    selectedTopic,    \* AppState.selectedTopic, or None
    basePath,         \* Api.basePath is known
    disabled,         \* Api.disabled
    consumersLoading, \* AppState.consumersLoading
    consumers,        \* AppState.consumers holds the registered consumers
    expandedGroups,   \* Sidebar.expandedGroups
    confirmDrain,     \* the consumer whose drain the dialog asks about, or None
    asked,            \* requests of the sidebar that are not answered yet
    calls,            \* requests made by the sidebar
    pathless,         \* requests of the browse view made before the path was known
    told              \* drains whose outcome a toast has told

sideVars == <<basePath, disabled, consumersLoading, consumers, expandedGroups>>
viewVars == <<screen, selectedTopic>>
consoleVars ==
    <<vars, viewVars, sideVars, confirmDrain, asked, calls, pathless, told>>

\* config: Api.init; list: the list of consumers that a view loads; refresh: the one
\* that is loaded in the background; drain: Api.startDltRouting.
Call == [id : Nat, kind : {"config", "list", "refresh"}, path : BOOLEAN]
            \cup [id : Nat, kind : {"drain"}, path : BOOLEAN, of : Main]

ConsoleTypeOK ==
    /\ TypeOK
    /\ screen \in {"/", "/browse"}
    /\ selectedTopic \in Topics \cup {None}
    /\ basePath \in BOOLEAN /\ disabled \in BOOLEAN
    /\ consumersLoading \in BOOLEAN /\ consumers \in BOOLEAN
    /\ expandedGroups \subseteq Main
    /\ confirmDrain \in DOMAIN DltOf \cup {None}
    /\ asked \in SUBSET Call /\ calls \in Nat
    /\ pathless \in SUBSET Nat
    /\ told \in SUBSET Nat

\* The address the console is opened with: '/', or a topic.
ConsoleInit ==
    /\ Init
    /\ \/ screen = "/" /\ selectedTopic = None
       \/ screen = "/browse" /\ selectedTopic = topic
    /\ basePath = FALSE /\ disabled = FALSE
    /\ consumersLoading = TRUE /\ consumers = FALSE
    /\ expandedGroups = {} /\ confirmDrain = None
    /\ asked = {[id |-> 0, kind |-> "config", path |-> FALSE]} /\ calls = 1
    /\ pathless = {} /\ told = {}

------------------------------------------------------------------------------

Ask(kinds) ==
    /\ calls + Len(kinds) <= MaxCalls
    /\ asked' = asked \cup {[id |-> calls + i, kind |-> kinds[i], path |-> basePath] :
                               i \in 1..Len(kinds)}
    /\ calls' = calls + Len(kinds)

NoCall == UNCHANGED <<asked, calls>>

\* Past the bound a refresh counts as one that fails at once.
AskAnyway(kinds) == IF calls + Len(kinds) <= MaxCalls THEN Ask(kinds) ELSE NoCall

\* Slip: the list is asked for at once.
LoadAtOnce == << "list" >>

\* Sidebar.oninit: the list, but first the path, unless it is known.
Load == IF basePath THEN << "list" >> ELSE << "config" >>

\* refreshConsumers
Refresh == IF basePath /\ ~disabled THEN << "refresh" >> ELSE << >>

\* Slip: the topic of the route is not selected.
ShowTopicOnly(t) ==
    /\ screen' = "/browse"
    /\ UNCHANGED selectedTopic
    /\ IF screen = "/" \/ t # topic THEN ResetState(t) ELSE UNCHANGED vars

\* The browse view of topic t: it starts afresh when it was not there (oninit) and
\* when it showed another topic (view).
ShowTopic(t) ==
    /\ screen' = "/browse"
    /\ selectedTopic' = t
    /\ IF screen = "/" \/ t # topic THEN ResetState(t) ELSE UNCHANGED vars

\* A dialog covers the sidebar: the one of the drain or the diff modal.
Covered == confirmDrain # None \/ (screen = "/browse" /\ ModalShown)

\* The items of the sidebar, and those of them that are inside an open group.
ListShown == consumers /\ ~disabled /\ ~consumersLoading

GroupOpen(c) == c \in expandedGroups \/ selectedTopic = DltOf[c]

DltShown(c) == ListShown /\ c \in DOMAIN DltOf /\ GroupOpen(c)

\* selectTopic: a refresh, and the route; a route that replaces the view loads the
\* sidebar.
SelectTopic(t) ==
    /\ Free /\ ~Covered
    /\ Ask(Refresh \o (IF screen = "/" THEN Load ELSE << >>))
    /\ ShowTopic(t)

\* A click on a consumer opens or closes its group.
SelectMain(c) ==
    /\ ListShown
    /\ SelectTopic(c)
    /\ expandedGroups' =
          IF c \notin DOMAIN DltOf THEN expandedGroups
          ELSE (expandedGroups \cup {c}) \ (expandedGroups \cap {c})
    /\ UNCHANGED <<basePath, disabled, consumersLoading, consumers, confirmDrain, pathless,
                   told>>

SelectDlt(c) ==
    /\ DltShown(c)
    /\ SelectTopic(DltOf[c])
    /\ UNCHANGED <<sideVars, confirmDrain, pathless, told>>

\* The browser's history, or a link, leads to '/'.
GoHome ==
    /\ Free /\ screen = "/browse"
    /\ screen' = "/"
    /\ Ask(Load)
    /\ UNCHANGED <<vars, selectedTopic, sideVars, confirmDrain, pathless, told>>

\* The browser's history, or a link, leads to a topic: no refresh is asked for.
GoToTopic(t) ==
    /\ Free /\ (screen = "/browse" => t # topic)
    /\ IF screen = "/" THEN Ask(Load) ELSE NoCall
    /\ ShowTopic(t)
    /\ UNCHANGED <<sideVars, confirmDrain, pathless, told>>

------------------------------------------------------------------------------
(* The answers to the sidebar. *)

End(c) == asked' = asked \ {c} /\ UNCHANGED calls

\* The path is known; the list is the next request of the same load.
ConfigAnswered(c) ==
    /\ c.kind = "config"
    /\ basePath' = TRUE
    /\ asked' = (asked \ {c}) \cup {[id |-> c.id, kind |-> "list", path |-> TRUE]}
    /\ UNCHANGED <<vars, viewVars, disabled, consumersLoading, consumers, expandedGroups,
                   confirmDrain, calls, pathless, told>>

\* Slip: the spinner stays.
ConfigFailsAndSpins(c) ==
    /\ c.kind = "config"
    /\ disabled' = TRUE
    /\ End(c)
    /\ UNCHANGED <<vars, viewVars, basePath, consumersLoading, consumers, expandedGroups,
                   confirmDrain, pathless, told>>

\* Slip: the list counts as empty, and the console as enabled.
ConfigFailsUnnoticed(c) ==
    /\ c.kind = "config"
    /\ consumersLoading' = FALSE
    /\ End(c)
    /\ UNCHANGED <<vars, viewVars, basePath, disabled, consumers, expandedGroups,
                   confirmDrain, pathless, told>>

\* Nothing ever resets disabled.
ConfigFails(c) ==
    /\ c.kind = "config"
    /\ disabled' = TRUE
    /\ consumersLoading' = FALSE
    /\ End(c)
    /\ UNCHANGED <<vars, viewVars, basePath, consumers, expandedGroups, confirmDrain,
                   pathless, told>>

\* Only the load of a view ends the spinner.
ListAnswered(c) ==
    /\ c.kind \in {"list", "refresh"}
    /\ c.path
    /\ consumers' = TRUE
    /\ consumersLoading' = (consumersLoading /\ c.kind = "refresh")
    /\ End(c)
    /\ UNCHANGED <<vars, viewVars, basePath, disabled, expandedGroups, confirmDrain,
                   pathless, told>>

\* A list that was shown stays.
ListFails(c) ==
    /\ c.kind \in {"list", "refresh"}
    /\ consumersLoading' = (consumersLoading /\ c.kind = "refresh")
    /\ End(c)
    /\ UNCHANGED <<vars, viewVars, basePath, disabled, consumers, expandedGroups,
                   confirmDrain, pathless, told>>

------------------------------------------------------------------------------
(* Draining a DLT. *)

OpenDrain(c) ==
    /\ ~Covered /\ DltShown(c)
    /\ confirmDrain' = c
    /\ UNCHANGED <<vars, viewVars, sideVars, asked, calls, pathless, told>>

CancelDrain ==
    /\ confirmDrain # None
    /\ confirmDrain' = None
    /\ UNCHANGED <<vars, viewVars, sideVars, asked, calls, pathless, told>>

\* Slip: the route is started by the name of the DLT topic.
ConfirmByDlt ==
    /\ confirmDrain # None
    /\ calls < MaxCalls
    /\ asked' = asked \cup {[id |-> calls + 1, kind |-> "drain", path |-> basePath,
                            of |-> DltOf[confirmDrain]]}
    /\ calls' = calls + 1
    /\ confirmDrain' = None
    /\ UNCHANGED <<vars, viewVars, sideVars, pathless, told>>

\* onConfirm: the route is started by the name of its consumer.
ConfirmDrain ==
    /\ confirmDrain # None
    /\ calls < MaxCalls
    /\ asked' = asked \cup {[id |-> calls + 1, kind |-> "drain", path |-> basePath,
                            of |-> confirmDrain]}
    /\ calls' = calls + 1
    /\ confirmDrain' = None
    /\ UNCHANGED <<vars, viewVars, sideVars, pathless, told>>

\* A toast, and the list anew.
DrainAnswered(c) ==
    /\ c.kind = "drain" /\ c.path /\ c.of \in Routed
    /\ told' = told \cup {c.id}
    /\ IF calls < MaxCalls
       THEN /\ asked' = (asked \ {c}) \cup
                          {[id |-> calls + 1, kind |-> "refresh", path |-> basePath]}
            /\ calls' = calls + 1
       ELSE End(c)
    /\ UNCHANGED <<vars, viewVars, sideVars, confirmDrain, pathless>>

\* Slip: the error is swallowed.
DrainFailsQuietly(c) ==
    /\ c.kind = "drain"
    /\ End(c)
    /\ UNCHANGED <<vars, viewVars, sideVars, confirmDrain, pathless, told>>

\* No route, or no answer: a toast as well.
DrainFails(c) ==
    /\ c.kind = "drain"
    /\ told' = told \cup {c.id}
    /\ End(c)
    /\ UNCHANGED <<vars, viewVars, sideVars, confirmDrain, pathless>>

------------------------------------------------------------------------------
(* The browse view. *)

\* A request that was made before the path was known goes to no endpoint.  When a late
\* answer brings the diff modal up next to the dialog, the user may answer either.
UseView ==
    /\ screen = "/browse" /\ (confirmDrain # None => ModalShown)
    /\ InView
    /\ pathless' = IF basePath THEN pathless ELSE pathless \cup (made..(made' - 1))
    /\ UNCHANGED <<viewVars, sideVars, confirmDrain, asked, calls, told>>

\* A batch with rows refreshes the list.
BatchRefreshes(r) ==
    /\ r.id \notin pathless
    /\ BatchAnswered(r)
    /\ IF records' = << >> THEN NoCall ELSE AskAnyway(Refresh)
    /\ UNCHANGED <<viewVars, sideVars, confirmDrain, pathless, told>>

OtherAnswer(r) ==
    /\ BatchFails(r) \/ RetryAnswered(r) \/ CorrectionAnswered(r)
    /\ UNCHANGED <<viewVars, sideVars, confirmDrain, asked, calls, pathless, told>>

------------------------------------------------------------------------------

ConsoleUser ==
    \/ \E c \in Main : SelectMain(c)
    \/ \E c \in DOMAIN DltOf : SelectDlt(c) \/ OpenDrain(c)
    \/ GoHome
    \/ \E t \in Topics : GoToTopic(t)
    \/ CancelDrain
    \/ ConfirmDrain
    \/ UseView

ConsoleAnswered ==
    \/ \E c \in asked :
          \/ ConfigAnswered(c)
          \/ ConfigFails(c)
          \/ ListAnswered(c)
          \/ ListFails(c)
          \/ DrainAnswered(c)
          \/ DrainFails(c)
    \/ \E r \in flying : BatchRefreshes(r) \/ OtherAnswer(r)

\* The bound does not hold answers up.
ConsoleNext ==
    \/ ConsoleUser /\ made' + calls' <= MaxBoth
    \/ ConsoleAnswered

\* The browser reports an answer or an error for every request.
ConsoleSpec ==
    ConsoleInit /\ [][ConsoleNext]_consoleVars /\ WF_consoleVars(ConsoleAnswered)

------------------------------------------------------------------------------
(* Properties. *)

\* The topic marked in the sidebar is the one the browse view shows and acts on,
\* whichever way the user came to it (selectTopic, oninit and view of BrowseView).
SelectedIsBrowsed == screen = "/browse" => selectedTopic = topic

\* The sidebar asks for nothing but the config as long as it does not know the path of
\* the REST API (Sidebar.oninit, refreshConsumers).
AskedOfKnownPath == \A c \in asked : c.kind # "config" => c.path

\* "No consumers registered" is not said because the config was missed: when the
\* spinner is gone, the path is known or the sidebar says that the console is disabled.
MissedConfigShows == ~consumersLoading => basePath \/ disabled

\* The spinner of the sidebar ends, whatever fails and whatever the user does meanwhile
\* (the catch of Sidebar.oninit).
LoadingEnds == <>[]~consumersLoading

\* A drain that the user confirmed is told of by a toast in the end: it was started or
\* it failed, although the user may be in another view by then (onConfirm).
EveryDrainTold ==
    \A i \in 1..MaxCalls :
        (\E c \in asked : c.kind = "drain" /\ c.id = i) ~> i \in told

===============================================================================
