------------------------------- MODULE MCPage --------------------------------
(* What a command does on a page, checked in one run of TLC: the waits of a    *)
(* click, JavaScript dialogs, page loads, the waits for an element, emulation  *)
(* and the recorder, each over small instances of its own. A behaviour is of   *)
(* one instance, which part names; the components share the variables of the   *)
(* same name, and what an instance does not use is Idle and never changes.     *)
EXTENDS Naturals, Sequences, FiniteSets, TLC

CONSTANTS Parts,                       \* the instances that are checked
          name, street, home, shop,    \* of the recorder: fields and addresses
          t1, t2                       \* of the MCP server's emulation: tabs

Symmetry == Permutations({name, street}) \union Permutations({home, shop})
            \union Permutations({t1, t2})

VARIABLES part,   \* the component that this behaviour is of
          targets, here, wire, watch, news, ring, doc, begun, hints, click,
          result, policy, keys, policies, waiter, listening, used, caller,
          count, answered, heard, hand, call, open, docs, shown, stage,
          armed, frame, calls, pending, dom, url, req, pc, el, moved, polls,
          answer, typed, submitted, held, unseen, changes, faults,
          emulation, over, last, page, file, cmd, step, todo, next, seen,
          native, override, scripts, asked, phase, window, bound, styles,
          copy, timer, events, read, fired, handling, lastURL, out, command,
          chrome

\* The components, each over the instances v below.
Click(v) == INSTANCE ClickWaits WITH
    MaxClicks <- v.clicks, MaxTargets <- v.targets, MaxNavs <- v.navs,
    MaxDownloads <- v.downloads, Cap <- v.cap, HasHub <- v.hub
Dialog(v) == INSTANCE Dialogs WITH
    page <- v.page, Clones <- v.clones, Callers <- v.callers,
    recovery <- v.recovery, Preinstalled <- v.preinstalled,
    MaxDialogs <- v.dialogs, MayClose <- v.closes
Load(v) == INSTANCE PageLoads WITH
    Ops <- v.ops, Strategies <- v.strategies, Bounded <- v.bounded,
    MaxDocs <- v.docs, MaxCalls <- v.calls
Wait(v) == INSTANCE ElementWait WITH
    N <- v.n, Requests <- v.requests, MaxCount <- v.count,
    MaxPolls <- v.polls, MaxChanges <- v.changes, MaxFaults <- v.faults
Emulate(v) == INSTANCE McpEmulation WITH
    Tabs <- v.tabs, Devices <- v.devices, Sizes <- v.sizes,
    Mobiles <- v.mobiles, Touches <- v.touches, Uas <- v.uas,
    Schemes <- v.schemes, Safes <- v.safes, MaxGiven <- v.given,
    Swipes <- v.swipes, Failures <- v.failures
CliEmulate(v) == INSTANCE CliEmulation WITH
    Commands <- v.commands, Safes <- v.safes
Inset(v) == INSTANCE SafeAreaInsets WITH
    Insets <- v.insets, Styles <- v.styles, PageDoes <- v.does,
    MaxCalls <- v.calls
Record(v) == INSTANCE Recorder WITH
    Fields <- v.fields, Urls <- v.urls, Kinds <- v.kinds,
    MaxEvents <- v.events, StopOnNavigate <- v.stops

\* Clicks: among tabs with a list that overflows, among navigations and a
\* download, and without the hub.
ClickTabs ==
    [clicks |-> 2, targets |-> 3, navs |-> 0, downloads |-> 0, cap |-> 1,
     hub |-> TRUE]
ClickNavs ==
    [ClickTabs EXCEPT !.targets = 1, !.navs = 2, !.downloads = 1, !.cap = 2]
ClickStealth == [ClickNavs EXCEPT !.hub = FALSE]

\* Dialogs: of a page with its one handle, and of one that a call has a clone of.
OneHandle ==
    [page |-> "page", clones |-> {}, callers |-> {"cli", "hook"},
     recovery |-> "hook", preinstalled |-> TRUE, dialogs |-> 2,
     closes |-> FALSE]
TwoHandles ==
    [OneHandle EXCEPT !.clones = {"call1"}, !.callers = {"cli"},
                      !.preinstalled = FALSE]

Loads ==
    [ops |-> {"navigate", "reload", "history", "wait"},
     strategies |-> {"dcl", "load", "idle", "stable", "none"},
     bounded |-> TRUE, docs |-> 3, calls |-> 3]

\* Every request but those whose wait the code gets wrong (README, section 5).
SafeRequests ==
    ({"css"} \X {"attached", "visible", "enabled", "stable"})
    \union ({"locator"} \X {"visible", "hidden", "stable"})
    \union ({"ref"} \X {"attached", "visible", "enabled", "stable"})
    \union {<<"count", "attached">>, <<"type", "visible">>}
Waits ==
    [n |-> 3, requests |-> SafeRequests, count |-> 1, polls |-> 2,
     changes |-> 2, faults |-> 0]

\* Emulation: by the emulate tool, and with the swipe tool beside it; by the
\* command line; and of the safe area.
Emulates ==
    [tabs |-> {t1, t2}, devices |-> {"none", "phone", "desktop"},
     sizes |-> {"none", "large"}, mobiles |-> {"none", "no"},
     touches |-> {"none", "no"}, uas |-> {"none"},
     schemes |-> {"none", "dark"}, safes |-> {"none", "inset", "zero"},
     given |-> 2, swipes |-> FALSE, failures |-> FALSE]
Swipes ==
    [Emulates EXCEPT !.sizes = {"none"}, !.mobiles = {"none"},
                     !.schemes = {"none"}, !.safes = {"none"}, !.swipes = TRUE]
CliEmulates ==
    [commands |-> {"emulate", "viewport", "reset", "batch", "look"},
     safes |-> {"none"}]
Insets ==
    [insets |-> {"notch", "round"}, styles |-> {"main", "lazy"},
     does |-> {"adds"}, calls |-> 3]
Records ==
    [fields |-> {name, street}, urls |-> {home, shop},
     kinds |-> {"input", "click", "select", "submit", "navigated"},
     events |-> 3, stops |-> FALSE]

(* What the components that are not of this behaviour hold.                   *)
Idle == "idle"
OthersIdle ==
    /\ part \notin {"clickTabs", "clickWaits", "clickStealth"} =>
        /\ targets = Idle /\ here = Idle /\ wire = Idle /\ watch = Idle
        /\ news = Idle /\ ring = Idle /\ doc = Idle /\ begun = Idle
        /\ hints = Idle /\ click = Idle /\ result = Idle
    /\ part \notin {"dialogs", "dialogClones"} =>
        /\ policy = Idle /\ keys = Idle /\ policies = Idle /\ waiter = Idle
        /\ listening = Idle /\ used = Idle /\ caller = Idle /\ count = Idle
        /\ answered = Idle
    /\ part \notin {"dialogs", "dialogClones", "loads"} =>
        /\ heard = Idle
    /\ part \notin {"dialogs", "dialogClones", "recorder"} =>
        /\ hand = Idle
    /\ part \notin {"dialogs", "dialogClones", "loads", "insets"} =>
        /\ call = Idle
    /\ part \notin {"dialogs", "dialogClones", "emulation", "swipes"} =>
        /\ open = Idle
    /\ part # "loads" =>
        /\ docs = Idle /\ shown = Idle /\ stage = Idle /\ armed = Idle
        /\ frame = Idle /\ calls = Idle
    /\ part \notin {"loads", "recorder"} =>
        /\ pending = Idle
    /\ part # "waits" =>
        /\ dom = Idle /\ url = Idle /\ req = Idle /\ pc = Idle /\ el = Idle
        /\ moved = Idle /\ polls = Idle /\ answer = Idle /\ typed = Idle
        /\ submitted = Idle /\ held = Idle /\ unseen = Idle
        /\ changes = Idle /\ faults = Idle
    /\ part \notin {"emulation", "swipes"} =>
        /\ emulation = Idle /\ over = Idle /\ last = Idle
    /\ part \notin {"emulation", "swipes", "cliEmulation"} =>
        /\ page = Idle
    /\ part # "cliEmulation" =>
        /\ file = Idle /\ cmd = Idle /\ step = Idle /\ todo = Idle
        /\ next = Idle /\ seen = Idle
    /\ part # "insets" =>
        /\ native = Idle /\ override = Idle /\ scripts = Idle
        /\ asked = Idle /\ phase = Idle /\ window = Idle /\ bound = Idle
        /\ styles = Idle /\ copy = Idle
    /\ part \notin {"insets", "recorder"} =>
        /\ timer = Idle
    /\ part # "recorder" =>
        /\ events = Idle /\ read = Idle /\ fired = Idle /\ handling = Idle
        /\ lastURL = Idle /\ out = Idle /\ command = Idle /\ chrome = Idle
OthersStay ==
    /\ part \notin {"clickTabs", "clickWaits", "clickStealth"} => UNCHANGED
         <<targets, here, wire, watch, news, ring, doc, begun, hints, click,
           result>>
    /\ part \notin {"dialogs", "dialogClones"} => UNCHANGED
         <<policy, keys, policies, waiter, listening, used, caller, count,
           answered>>
    /\ part \notin {"dialogs", "dialogClones", "loads"} => UNCHANGED
         <<heard>>
    /\ part \notin {"dialogs", "dialogClones", "recorder"} => UNCHANGED
         <<hand>>
    /\ part \notin {"dialogs", "dialogClones", "loads", "insets"} => UNCHANGED
         <<call>>
    /\ part \notin {"dialogs", "dialogClones", "emulation", "swipes"} => UNCHANGED
         <<open>>
    /\ part # "loads" => UNCHANGED
         <<docs, shown, stage, armed, frame, calls>>
    /\ part \notin {"loads", "recorder"} => UNCHANGED <<pending>>
    /\ part # "waits" => UNCHANGED
         <<dom, url, req, pc, el, moved, polls, answer, typed, submitted,
           held, unseen, changes, faults>>
    /\ part \notin {"emulation", "swipes"} => UNCHANGED
         <<emulation, over, last>>
    /\ part \notin {"emulation", "swipes", "cliEmulation"} => UNCHANGED
         <<page>>
    /\ part # "cliEmulation" => UNCHANGED
         <<file, cmd, step, todo, next, seen>>
    /\ part # "insets" => UNCHANGED
         <<native, override, scripts, asked, phase, window, bound, styles,
           copy>>
    /\ part \notin {"insets", "recorder"} => UNCHANGED <<timer>>
    /\ part # "recorder" => UNCHANGED
         <<events, read, fired, handling, lastURL, out, command, chrome>>

Init ==
    /\ part \in Parts /\ OthersIdle
    /\ \/ part = "clickTabs" /\ Click(ClickTabs)!Init
       \/ part = "clickWaits" /\ Click(ClickNavs)!Init
       \/ part = "clickStealth" /\ Click(ClickStealth)!Init
       \/ part = "dialogs" /\ Dialog(OneHandle)!Init
       \/ part = "dialogClones" /\ Dialog(TwoHandles)!Init
       \/ part = "loads" /\ Load(Loads)!Init
       \/ part = "waits" /\ Wait(Waits)!Init
       \/ part = "emulation" /\ Emulate(Emulates)!Init
       \/ part = "swipes" /\ Emulate(Swipes)!Init
       \/ part = "cliEmulation" /\ CliEmulate(CliEmulates)!Init
       \/ part = "insets" /\ Inset(Insets)!Init
       \/ part = "recorder" /\ Record(Records)!Init

Step(p) == part = p /\ UNCHANGED part /\ OthersStay

Next ==
    \/ Step("clickTabs") /\ Click(ClickTabs)!Next
    \/ Step("clickWaits") /\ Click(ClickNavs)!Next
    \/ Step("clickStealth") /\ Click(ClickStealth)!Next
    \/ Step("dialogs") /\ Dialog(OneHandle)!Next
    \/ Step("dialogClones") /\ Dialog(TwoHandles)!Next
    \/ Step("loads") /\ Load(Loads)!Next
    \/ Step("waits") /\ Wait(Waits)!Next
    \/ Step("emulation") /\ Emulate(Emulates)!Next
    \/ Step("swipes") /\ Emulate(Swipes)!Next
    \/ Step("cliEmulation") /\ CliEmulate(CliEmulates)!Next
    \/ Step("insets") /\ Inset(Insets)!Next
    \/ Step("recorder") /\ Record(Records)!Next

vars == <<part, targets, here, wire, watch, news, ring, doc, begun, hints,
          click, result, policy, keys, policies, waiter, listening, used,
          caller, count, answered, heard, hand, call, open, docs, shown,
          stage, armed, frame, calls, pending, dom, url, req, pc, el, moved,
          polls, answer, typed, submitted, held, unseen, changes, faults,
          emulation, over, last, page, file, cmd, step, todo, next, seen,
          native, override, scripts, asked, phase, window, bound, styles,
          copy, timer, events, read, fired, handling, lastURL, out, command,
          chrome>>
Spec == Init /\ [][Next]_vars

ASSUME PageAssumption ==
    /\ Click(ClickTabs)!ClickAssumption /\ Click(ClickNavs)!ClickAssumption
    /\ Click(ClickStealth)!ClickAssumption
    /\ Dialog(OneHandle)!DialogAssumption /\ Dialog(TwoHandles)!DialogAssumption
    /\ Load(Loads)!PageLoadsAssumption /\ Wait(Waits)!ElementWaitAssumption
    /\ Emulate(Emulates)!McpEmulationAssumption
    /\ Emulate(Swipes)!McpEmulationAssumption
    /\ CliEmulate(CliEmulates)!CliEmulationAssumption
    /\ Inset(Insets)!SafeAreaAssumption /\ Record(Records)!RecorderAssumption
------------------------------------------------------------------------------
(* A click adopts only a tab that its own page opened, and looks for a         *)
(* navigation, a new tab or a download exactly when the probe of the element   *)
(* said there may be one.                                                      *)
ClicksHold ==
    /\ part = "clickTabs" =>
          Click(ClickTabs)!TypeOK /\ Click(ClickTabs)!TakenIsOwn
    /\ part = "clickWaits" =>
          Click(ClickNavs)!TypeOK /\ Click(ClickNavs)!WaitsMatchLook
    /\ part = "clickStealth" =>
          Click(ClickStealth)!TypeOK /\ Click(ClickStealth)!WaitsMatchLook

(* A policy for the next dialog answers one dialog, and every dialog is        *)
(* answered as the policy in force says, whichever handle of the page set it.  *)
DialogsHold ==
    /\ part = "dialogs" =>
          /\ Dialog(OneHandle)!TypeOK /\ Dialog(OneHandle)!OneShot
          /\ Dialog(OneHandle)!PolicyObeyed
    /\ part = "dialogClones" => Dialog(TwoHandles)!OneShot

(* A wait that was set up before a navigation is not outrun by it and ends     *)
(* with the main frame's event; a wait for an element times out only when the  *)
(* condition was not there to see, and a count is the page's.                  *)
WaitsHold ==
    /\ part = "loads" =>
          /\ Load(Loads)!TypeOK /\ Load(Loads)!NotOutrun
          /\ Load(Loads)!MainFrameEnds
    /\ part = "waits" =>
          /\ Wait(Waits)!TypeOK /\ Wait(Waits)!TimedOutOnlyUnmet
          /\ Wait(Waits)!CountIsTrue

(* What Chrome emulates is what the kept profile says, over tabs, calls and    *)
(* commands, and the insets a page reads are those asked for. Of what a user   *)
(* does while a recorder listens no text typed is lost or written twice, and   *)
(* what is held back has a timer.                                              *)
EmulationHolds ==
    /\ part = "emulation" =>
          Emulate(Emulates)!TypeOK /\ Emulate(Emulates)!InForce
    /\ part = "swipes" => Emulate(Swipes)!TypeOK /\ Emulate(Swipes)!InForce
    /\ part = "cliEmulation" =>
          CliEmulate(CliEmulates)!TypeOK /\ CliEmulate(CliEmulates)!Sticky
    /\ part = "insets" => Inset(Insets)!TypeOK /\ Inset(Insets)!EnvIsAsked
    /\ part = "recorder" =>
          /\ Record(Records)!TypeOK /\ Record(Records)!NoTextLost
          /\ Record(Records)!TypedOnce /\ Record(Records)!HeldHasTimer

(* Steps: a tab that a click opened within the ring's reach is taken or was    *)
(* lost with the ring, a wait for a navigation misses none, a wait for hidden  *)
(* or stable ends on what was so, and emulation keeps the User-Agent.          *)
PageSteps ==
    [][/\ part = "clickTabs"  => Click(ClickTabs)!HintedTabTaken
       /\ part = "clickWaits" => Click(ClickNavs)!NavNotMissed
       /\ part = "waits" =>
             Wait(Waits)!HiddenOnlyIfUnseen /\ Wait(Waits)!StableIsThere
       /\ part = "emulation"  => Emulate(Emulates)!KeepsUserAgent]_vars
==============================================================================
