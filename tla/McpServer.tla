----------------------------- MODULE McpServer -----------------------------
(***************************************************************************)
(* The Chrome lifecycle of the MCP server: internal/surface/mcp/server.go, *)
(* with the part of internal/runtime and internal/core/engine/browser.go   *)
(* each tool call goes through.  Tool calls, prewarms, the idle reaper and *)
(* Close serialise on one mutex; Chrome, its tabs and the user do not.     *)
(*                                                                         *)
(* A step of a mutex holder is one action, so Chrome may die between any   *)
(* two of them.  Attached is the `--connect` to a Chrome of the user (the  *)
(* code's foreignChrome, attach-fresh); otherwise the server launches a    *)
(* headless Chrome of its own.  Stealth mode (no observer) and headed      *)
(* launches (no reaper) are not modelled.                                  *)
(***************************************************************************)
EXTENDS Naturals, FiniteSets, TLC

CONSTANTS
    Clients,       \* concurrent MCP tool calls
    Prewarmers,    \* calls of PrewarmAsync
    Closers,       \* calls of Close
    Tabs,          \* target ids; one is reused once nothing names it
    Chromes,       \* Chrome processes
    UserChrome,    \* the user's Chrome when Attached
    Profiles,      \* device profiles of the emulate tool
    NoTab, NoChrome, NoProfile, NoActor,
    Attached,      \* --connect to a Chrome that is not a named session
    InitScripts,   \* init scripts are installed (ApplyInitScripts can fail)
    ProbeTimesOut  \* a probe of a live Chrome or target may time out

Actors == Clients \union Prewarmers \union Closers

ASSUME McpServerAssumption ==
    /\ NoTab \notin Tabs
    /\ NoChrome \notin Chromes
    /\ NoProfile \notin Profiles
    /\ NoActor \notin Actors
    /\ Clients \intersect Prewarmers = {}
    /\ Clients \intersect Closers = {}
    /\ Prewarmers \intersect Closers = {}
    /\ {Attached, InitScripts, ProbeTimesOut} \subseteq BOOLEAN
    /\ Attached => UserChrome \in Chromes

VARIABLES
    lock,       \* Server.mu: its holder, or NoActor
    pc,         \* where each actor is
    closed,     \* Server.closed
    closeDone,  \* Server.closeDone has been closed
    browser,    \* Server.browser: the Chrome it drives, or NoChrome
    page,       \* Server.page
    cached,     \* Browser.page, the handle Browser.Page() returns
    hub,        \* the page of the running event hub (Server.rt)
    observer,   \* the page of Server.observer
    refs,       \* the page of the in-memory ref table (Session.snapshot)
    saved,      \* targets with a snapshot in the browser's session state
    emulation,  \* Server.emulation
    idle,       \* 0: active, 1: PageIdleTimeout passed, 2: IdleTimeout too
    blanked,    \* Server.pagesBlanked
    worked,     \* a tool call has ended since the clock last moved
    up,         \* Chrome processes that run
    open,       \* targets that are open
    home,       \* the Chrome of each target
    mine,       \* targets created by the server or by its pages
    emu         \* the emulation in force on each target

ctlVars   == <<lock, pc, closed, closeDone>>
heldVars  == <<browser, page, cached, hub, observer, refs, saved, emulation>>
clockVars == <<idle, blanked, worked>>
envVars   == <<up, open, home, mine, emu>>
vars      == <<ctlVars, heldVars, clockVars, envVars>>

-----------------------------------------------------------------------------
(***************************************************************************)
(* Helpers                                                                 *)
(***************************************************************************)

TabsOf(b) == {t \in open : home[t] = b}

\* A target id nothing can name any more.
FreshTab(t) == t \in Tabs \ (open \union {page, cached, hub, observer, refs})

\* Browser.Snapshot before the in-memory table: Session.currentSnapshot.
RefsInForce == IF page \in saved THEN page ELSE refs

\* Browser.Alive on the held browser.
ProbeAlive == browser \in up
ProbeDead  == browser \notin up \/ ProbeTimesOut

\* page.Info() of the liveness probe.
TargetFound == page \in open
TargetLost  == page \notin open \/ ProbeTimesOut

Goto(a, label) == pc' = [pc EXCEPT ![a] = label]

AtRest(a) == IF a \in Prewarmers THEN "done" ELSE "idle"

\* Give the mutex back.
Release(a) == lock' = NoActor /\ Goto(a, AtRest(a))

\* The browser opens target t, owned by the server unless byUser.
OpenTab(t, b, byUser) ==
    /\ open' = open \union {t}
    /\ home' = [home EXCEPT ![t] = b]
    /\ mine' = IF byUser THEN mine \ {t} ELSE mine \union {t}

\* replayEmulationLocked on target t: nothing is undone by an empty profile.
Replayed(t) ==
    [emu EXCEPT ![t] = IF emulation = NoProfile THEN @ ELSE emulation]

\* The same on a target that has just been created.
ReplayedFresh(t) == [emu EXCEPT ![t] = emulation]

\* Mutant: the clock is set back by one stage instead of to now.
StampBack == idle' = idle - 1 /\ blanked' = FALSE /\ UNCHANGED worked

\* ensurePageLocked stamps the idle clock when it starts and when it returns.
Stamp == idle' = 0 /\ blanked' = FALSE /\ UNCHANGED worked

-----------------------------------------------------------------------------
Init ==
    /\ lock = NoActor
    /\ pc = [a \in Actors |-> "idle"]
    /\ closed = FALSE /\ closeDone = FALSE
    /\ browser = NoChrome
    /\ page = NoTab /\ cached = NoTab /\ hub = NoTab /\ observer = NoTab
    /\ refs = NoTab /\ saved = {}
    /\ emulation = NoProfile
    /\ idle = 0 /\ blanked = FALSE /\ worked = FALSE
    /\ up = IF Attached THEN {UserChrome} ELSE {}
    /\ IF Attached THEN \E t \in Tabs : open = {t} ELSE open = {}
    /\ home = [t \in Tabs |-> IF t \in open THEN UserChrome ELSE NoChrome]
    /\ mine = {}
    /\ emu = [t \in Tabs |-> NoProfile]

(***************************************************************************)
(* A tool call: withPage takes the mutex and ensures a page.               *)
(***************************************************************************)
Arrive(c) ==
    /\ pc[c] = "idle"
    /\ Goto(c, "waiting")
    /\ UNCHANGED <<lock, closed, closeDone, heldVars, clockVars, envVars>>

\* The request was cancelled before it had the mutex.
Cancelled(c) ==
    /\ pc[c] = "waiting" /\ lock = NoActor
    /\ Goto(c, "idle")
    /\ UNCHANGED <<lock, closed, closeDone, heldVars, clockVars, envVars>>

Acquire(c) ==
    /\ pc[c] = "waiting" /\ lock = NoActor
    /\ lock' = c
    /\ Goto(c, "ensure")
    /\ UNCHANGED <<closed, closeDone, heldVars, clockVars, envVars>>

Ensuring(a) == pc[a] = "ensure" /\ lock = a

EnsureClosed(a) ==
    /\ Ensuring(a) /\ closed
    /\ Release(a)
    /\ UNCHANGED <<closed, closeDone, heldVars, clockVars, envVars>>

\* The held Chrome and target both answer.
EnsureHeld(a) ==
    /\ Ensuring(a) /\ ~closed
    /\ page # NoTab /\ browser # NoChrome
    /\ ProbeAlive /\ TargetFound
    /\ Goto(a, "running")
    /\ Stamp
    /\ UNCHANGED <<lock, closed, closeDone, heldVars, envVars>>

\* Chrome answers, the target does not.
EnsureTargetLost(a) ==
    /\ Ensuring(a) /\ ~closed
    /\ page # NoTab /\ browser # NoChrome
    /\ ProbeAlive /\ TargetLost
    /\ Goto(a, "recover")
    /\ Stamp
    /\ UNCHANGED <<lock, closed, closeDone, heldVars, envVars>>

EnsureDead(a) ==
    /\ Ensuring(a) /\ ~closed
    /\ page # NoTab /\ browser # NoChrome
    /\ ProbeDead
    /\ Goto(a, "teardown")
    /\ Stamp
    /\ UNCHANGED <<lock, closed, closeDone, heldVars, envVars>>

\* A browser without a page: Browser.Page() hands out its cached handle
\* (UnboundHasCachedPage: there is one) and nothing is rebound.  Init scripts
\* cannot be applied to a target that is gone, and then the call fails.
EnsureUnbound(a) ==
    /\ Ensuring(a) /\ ~closed
    /\ page = NoTab /\ browser # NoChrome
    /\ ProbeAlive
    /\ IF InitScripts /\ cached \notin open
         THEN Release(a) /\ UNCHANGED page
         ELSE page' = cached /\ Goto(a, "running") /\ UNCHANGED lock
    /\ Stamp
    /\ UNCHANGED <<closed, closeDone, browser, cached, hub, observer, refs,
                   saved, emulation, envVars>>

\* Mutant: the closed check comes after the decision to launch.
EnsureColdUnchecked(a) ==
    /\ Ensuring(a)
    /\ page = NoTab
    /\ browser = NoChrome \/ ProbeDead
    /\ Goto(a, "launch")
    /\ Stamp
    /\ UNCHANGED <<lock, closed, closeDone, heldVars, envVars>>

\* No page and no Chrome that answers: launch, without a closeLocked.
EnsureCold(a) ==
    /\ Ensuring(a) /\ ~closed
    /\ page = NoTab
    /\ browser = NoChrome \/ ProbeDead
    /\ Goto(a, "launch")
    /\ Stamp
    /\ UNCHANGED <<lock, closed, closeDone, heldVars, envVars>>

\* bindPageLocked on page t of the held browser.
BindPage(t) ==
    /\ page' = t /\ cached' = t
    /\ hub' = t /\ observer' = t

\* recoverPageLocked over ReacquirePage: a new tab in the same Chrome.
Recover(a) ==
    /\ pc[a] = "recover" /\ lock = a
    /\ browser \in up /\ cached = page
    /\ \E t \in Tabs :
        /\ FreshTab(t)
        /\ OpenTab(t, browser, FALSE)
        /\ saved' = saved \ {page, t}
        /\ BindPage(t)
        /\ emu' = ReplayedFresh(t)
    /\ refs' = NoTab
    /\ Goto(a, "running")
    /\ Stamp
    /\ UNCHANGED <<lock, closed, closeDone, browser, emulation, up>>

\* ... or Browser.Page() still has another handle, which answers.
RecoverCached(a) ==
    /\ pc[a] = "recover" /\ lock = a
    /\ browser \in up /\ cached # page /\ cached \in open
    /\ saved' = saved \ {page}
    /\ refs' = IF cached \in saved THEN cached ELSE NoTab
    /\ BindPage(cached)
    /\ emu' = Replayed(cached)
    /\ Goto(a, "running")
    /\ Stamp
    /\ UNCHANGED <<lock, closed, closeDone, browser, emulation, up, open, home, mine>>

\* No tab can be opened: fall through to the full relaunch.
RecoverFails(a) ==
    /\ pc[a] = "recover" /\ lock = a
    /\ browser \notin up \/ ProbeTimesOut \/ (\A t \in Tabs : ~FreshTab(t))
       \/ (cached # page /\ cached \notin open)
    /\ saved' = saved \ {page}
    /\ cached' = IF cached = page THEN NoTab ELSE cached
    /\ Goto(a, "teardown")
    /\ UNCHANGED <<lock, closed, closeDone, browser, page, hub, observer, refs,
                   emulation, clockVars, envVars>>

\* Mutant: the handle is dropped and Chrome is left running.
CloseBrowserForgotten == UNCHANGED <<up, open>>

\* Browser.Close: a Chrome the server launched is killed; in a Chrome of the
\* user only the browser handle's own page is closed.
CloseBrowser ==
    IF Attached
      THEN /\ open' = open \ {cached}
           /\ UNCHANGED up
      ELSE /\ up' = up \ {browser}
           /\ open' = open \ TabsOf(browser)

\* closeLocked
CloseLocked ==
    /\ observer' = NoTab /\ hub' = NoTab
    /\ IF browser = NoChrome
         THEN UNCHANGED <<browser, page, cached, refs, up, open>>
         ELSE /\ browser' = NoChrome
              /\ page' = NoTab /\ cached' = NoTab /\ refs' = NoTab
              /\ CloseBrowser
    /\ UNCHANGED <<saved, emulation, home, mine, emu>>

Teardown(a) ==
    /\ pc[a] = "teardown" /\ lock = a
    /\ CloseLocked
    /\ Goto(a, "launch")
    /\ UNCHANGED <<lock, closed, closeDone, clockVars>>

\* launchPageLocked
Launch(a) ==
    /\ pc[a] = "launch" /\ lock = a
    /\ \E b \in Chromes, t \in Tabs :
        /\ FreshTab(t)
        /\ IF Attached
             THEN b = UserChrome /\ b \in up /\ UNCHANGED up
             ELSE b \notin up \union {browser} /\ up' = up \union {b}
        /\ browser' = b
        /\ OpenTab(t, b, FALSE)
        /\ saved' = saved \ {t}
        /\ BindPage(t)
        /\ emu' = ReplayedFresh(t)
    /\ Goto(a, "running")
    /\ Stamp
    /\ UNCHANGED <<lock, closed, closeDone, refs, emulation>>

LaunchFails(a) ==
    /\ pc[a] = "launch" /\ lock = a
    /\ Release(a)
    /\ Stamp
    /\ UNCHANGED <<closed, closeDone, heldVars, envVars>>

(***************************************************************************)
(* What the tool does on the page, then syncFromOps and the unlock.        *)
(***************************************************************************)
Running(c) == pc[c] = "running" /\ lock = c /\ c \in Clients

Return(c) ==
    /\ Release(c)
    /\ worked' = TRUE
    /\ UNCHANGED <<closed, closeDone, idle, blanked>>

\* Mutant: syncFromOps takes the page and does not replay the emulation.
AdoptBare(t) ==
    /\ page' = t /\ cached' = t /\ hub' = t
    /\ UNCHANGED <<emu, observer>>

\* Session.adoptPage followed by syncFromOps.  observer is not refreshed.
Adopt(t) ==
    /\ page' = t /\ cached' = t /\ hub' = t
    /\ emu' = IF t = page THEN emu ELSE Replayed(t)
    /\ UNCHANGED observer

\* extract, and every op that observes the page after a mutation
OpExtract(c) ==
    /\ Running(c) /\ page \in open
    /\ refs' = page
    /\ saved' = IF Attached THEN saved \union {page} ELSE saved
    /\ cached' = IF Attached THEN page ELSE cached
    /\ Return(c)
    /\ UNCHANGED <<browser, page, hub, observer, emulation, envVars>>

\* A click by ref that opens a tab: the popup is adopted, then extracted.
OpClickPopup(c) ==
    /\ Running(c) /\ page \in open /\ RefsInForce # NoTab
    /\ \E t \in Tabs :
        /\ FreshTab(t)
        /\ OpenTab(t, browser, FALSE)
        /\ saved' = IF Attached THEN saved \union {t} ELSE saved
        /\ refs' = t
        /\ page' = t /\ cached' = t /\ hub' = t
        /\ emu' = ReplayedFresh(t)
    /\ Return(c)
    /\ UNCHANGED <<browser, observer, emulation, up>>

\* The same when adoptPage fails: its error is dropped, and the popup is
\* extracted into the ref table of a session that stays on the opener.
OpClickPopupLost(c) ==
    /\ InitScripts
    /\ Running(c) /\ page \in open /\ RefsInForce # NoTab
    /\ \E t \in Tabs :
        /\ FreshTab(t)
        /\ OpenTab(t, browser, FALSE)
        /\ saved' = IF Attached THEN saved \union {t} ELSE saved
        /\ cached' = IF Attached THEN t ELSE cached
        /\ refs' = t
        /\ emu' = [emu EXCEPT ![t] = NoProfile]
    /\ Return(c)
    /\ UNCHANGED <<browser, page, hub, observer, emulation, up>>

\* tabs switch
OpSwitch(c) ==
    /\ Running(c)
    /\ \E t \in TabsOf(browser) :
        /\ Adopt(t)
        /\ refs' = IF t \in saved THEN t ELSE NoTab
    /\ Return(c)
    /\ UNCHANGED <<browser, saved, emulation, up, open, home, mine>>

\* tabs new
OpNew(c) ==
    /\ Running(c) /\ browser \in up
    /\ \E t \in Tabs :
        /\ FreshTab(t)
        /\ OpenTab(t, browser, FALSE)
        /\ saved' = saved \ {t}
        /\ page' = t /\ cached' = t /\ hub' = t
        /\ emu' = ReplayedFresh(t)
    /\ refs' = NoTab
    /\ Return(c)
    /\ UNCHANGED <<browser, observer, emulation, up>>

\* tabs close on another tab than the current one
OpCloseOther(c) ==
    /\ Running(c)
    /\ \E t \in TabsOf(browser) \ {page} :
        /\ open' = open \ {t}
        /\ saved' = saved \ {t}
    /\ Return(c)
    /\ UNCHANGED <<browser, page, cached, hub, observer, refs, emulation,
                   up, home, mine, emu>>

\* tabs close on the current tab: adopt another one if Pages() lists one
OpCloseCurrent(c) ==
    /\ Running(c) /\ page \in TabsOf(browser)
    /\ open' = open \ {page}
    /\ saved' = saved \ {page}
    /\ \E t \in TabsOf(browser) \ {page} :
        /\ Adopt(t)
        /\ refs' = IF t \in saved THEN t ELSE NoTab
    /\ Return(c)
    /\ UNCHANGED <<browser, emulation, up, home, mine>>

\* ... or none: the session and the server are left without a page.
OpCloseLast(c) ==
    /\ Running(c) /\ TabsOf(browser) = {page}
    /\ open' = open \ {page}
    /\ saved' = saved \ {page}
    /\ page' = NoTab /\ refs' = NoTab
    /\ Return(c)
    /\ UNCHANGED <<browser, cached, hub, observer, emulation, up, home, mine, emu>>

\* emulate
OpEmulate(c) ==
    /\ Running(c) /\ page \in open
    /\ \E p \in Profiles : emulation' = p /\ emu' = [emu EXCEPT ![page] = p]
    /\ Return(c)
    /\ UNCHANGED <<browser, page, cached, hub, observer, refs, saved,
                   up, open, home, mine>>

OpEmulateReset(c) ==
    /\ Running(c) /\ page \in open
    /\ emulation' = NoProfile
    /\ emu' = [emu EXCEPT ![page] = NoProfile]
    /\ Return(c)
    /\ UNCHANGED <<browser, page, cached, hub, observer, refs, saved,
                   up, open, home, mine>>

\* Tools that change nothing the server keeps, and every failing tool.
OpOther(c) ==
    /\ Running(c)
    /\ Return(c)
    /\ UNCHANGED <<heldVars, envVars>>

Op(c) ==
    \/ OpExtract(c) \/ OpClickPopup(c) \/ OpClickPopupLost(c)
    \/ OpSwitch(c) \/ OpNew(c)
    \/ OpCloseOther(c) \/ OpCloseCurrent(c) \/ OpCloseLast(c)
    \/ OpEmulate(c) \/ OpEmulateReset(c) \/ OpOther(c)

(***************************************************************************)
(* PrewarmAsync                                                            *)
(***************************************************************************)
PrewarmAdmit(p) ==
    /\ pc[p] = "idle" /\ lock = NoActor
    /\ Goto(p, IF closed THEN "await" ELSE "admitted")
    /\ UNCHANGED <<lock, closed, closeDone, heldVars, clockVars, envVars>>

PrewarmRun(p) ==
    /\ pc[p] = "admitted" /\ lock = NoActor
    /\ IF closed THEN Goto(p, "done") /\ UNCHANGED lock
                 ELSE Goto(p, "ensure") /\ lock' = p
    /\ UNCHANGED <<closed, closeDone, heldVars, clockVars, envVars>>

PrewarmEnd(p) ==
    /\ pc[p] = "running" /\ lock = p
    /\ Release(p)
    /\ UNCHANGED <<closed, closeDone, heldVars, clockVars, envVars>>

\* prewarmWG counts the goroutines between admission and return.
PrewarmsDrained == \A p \in Prewarmers : pc[p] \in {"idle", "await", "done"}

(***************************************************************************)
(* reapIfIdle                                                              *)
(***************************************************************************)
ReapRelease ==
    /\ lock = NoActor /\ ~closed /\ browser # NoChrome
    /\ idle >= (IF Attached THEN 1 ELSE 2)
    /\ CloseLocked
    /\ UNCHANGED <<ctlVars, clockVars>>

\* Mutant: the refs of the blanked document stay.
ReapBlankKeepsRefs ==
    /\ lock = NoActor /\ ~closed /\ browser # NoChrome
    /\ ~Attached /\ idle = 1 /\ ~blanked
    /\ LET keep == IF page = NoTab THEN cached ELSE page
       IN  open' = open \ (TabsOf(browser) \ {keep})
    /\ blanked' = TRUE
    /\ UNCHANGED <<ctlVars, browser, page, cached, hub, observer, refs, saved,
                   emulation, idle, worked, up, home, mine, emu>>

\* Browser.BlankPages: every other tab is closed, the kept one is blanked.
ReapBlank ==
    /\ lock = NoActor /\ ~closed /\ browser # NoChrome
    /\ ~Attached /\ idle = 1 /\ ~blanked
    /\ LET keep == IF page = NoTab THEN cached ELSE page
       IN  open' = open \ (TabsOf(browser) \ {keep})
    /\ blanked' = TRUE
    /\ refs' = NoTab
    /\ UNCHANGED <<ctlVars, browser, page, cached, hub, observer, saved,
                   emulation, idle, worked, up, home, mine, emu>>

(***************************************************************************)
(* Close                                                                   *)
(***************************************************************************)
CloseFirst(k) ==
    /\ pc[k] = "idle" /\ lock = NoActor /\ ~closed
    /\ closed' = TRUE
    /\ CloseLocked
    /\ Goto(k, "drain")
    /\ UNCHANGED <<lock, closeDone, clockVars>>

CloseAgain(k) ==
    /\ pc[k] = "idle" /\ lock = NoActor /\ closed
    /\ Goto(k, "await")
    /\ UNCHANGED <<lock, closed, closeDone, heldVars, clockVars, envVars>>

\* Mutant: Close does not wait for prewarmWG.
CloseFinishEarly(k) ==
    /\ pc[k] = "drain"
    /\ closeDone' = TRUE
    /\ Goto(k, "done")
    /\ UNCHANGED <<lock, closed, heldVars, clockVars, envVars>>

CloseFinish(k) ==
    /\ pc[k] = "drain"
    /\ PrewarmsDrained
    /\ closeDone' = TRUE
    /\ Goto(k, "done")
    /\ UNCHANGED <<lock, closed, heldVars, clockVars, envVars>>

\* A second Close, or a late PrewarmAsync, waits for closeDone.
AwaitClosed(a) ==
    /\ pc[a] = "await" /\ closeDone
    /\ Goto(a, "done")
    /\ UNCHANGED <<lock, closed, closeDone, heldVars, clockVars, envVars>>

(***************************************************************************)
(* The environment: time, Chrome, and the user.                            *)
(***************************************************************************)
Tick ==
    /\ idle < 2 \/ worked
    /\ idle' = IF idle < 2 THEN idle + 1 ELSE 2
    /\ worked' = FALSE
    /\ UNCHANGED <<ctlVars, heldVars, blanked, envVars>>

ChromeDies(b) ==
    /\ b \in up
    /\ up' = up \ {b}
    /\ open' = open \ TabsOf(b)
    /\ UNCHANGED <<ctlVars, heldVars, clockVars, home, mine, emu>>

\* window.close(), a renderer crash, or the user.
TabCloses(t) ==
    /\ t \in open
    /\ open' = open \ {t}
    /\ UNCHANGED <<ctlVars, heldVars, clockVars, up, home, mine, emu>>

\* The user starts Chrome again, on the same debugging port.
UserRestarts ==
    /\ Attached /\ UserChrome \notin up
    /\ up' = up \union {UserChrome}
    /\ \E t \in Tabs :
        /\ FreshTab(t)
        /\ OpenTab(t, UserChrome, TRUE)
        /\ emu' = [emu EXCEPT ![t] = NoProfile]
        /\ saved' = saved \ {t}
    /\ UNCHANGED <<ctlVars, browser, page, cached, hub, observer, refs,
                   emulation, clockVars>>

-----------------------------------------------------------------------------
EnsurePage(a) ==
    \/ EnsureClosed(a) \/ EnsureHeld(a) \/ EnsureTargetLost(a)
    \/ EnsureDead(a) \/ EnsureUnbound(a) \/ EnsureCold(a)
    \/ Recover(a) \/ RecoverCached(a) \/ RecoverFails(a)
    \/ Teardown(a) \/ Launch(a) \/ LaunchFails(a)

ToolCall(c) == Cancelled(c) \/ Acquire(c) \/ EnsurePage(c) \/ Op(c)

Prewarm(p) ==
    \/ PrewarmAdmit(p) \/ PrewarmRun(p) \/ EnsurePage(p)
    \/ PrewarmEnd(p) \/ AwaitClosed(p)

Close(k) ==
    CloseFirst(k) \/ CloseAgain(k) \/ CloseFinish(k) \/ AwaitClosed(k)

Environment ==
    \/ Tick
    \/ \E b \in Chromes : ChromeDies(b)
    \/ \E t \in Tabs : TabCloses(t)
    \/ UserRestarts

Next ==
    \/ \E c \in Clients : Arrive(c) \/ ToolCall(c)
    \/ \E p \in Prewarmers : Prewarm(p)
    \/ \E k \in Closers : Close(k)
    \/ ReapRelease \/ ReapBlank
    \/ Environment

Spec == Init /\ [][Next]_vars

\* Every CDP call of an op is bounded by a context deadline and the mutex
\* is a Go sync.Mutex, which does not starve a waiter: an actor that has
\* started goes on.  Nothing obliges a call to arrive or Close to be called.
Fairness ==
    /\ \A c \in Clients : SF_vars(Acquire(c)) /\ WF_vars(EnsurePage(c))
                          /\ WF_vars(Op(c))
    /\ \A p \in Prewarmers : SF_vars(PrewarmRun(p)) /\ WF_vars(EnsurePage(p))
                             /\ WF_vars(PrewarmEnd(p)) /\ WF_vars(AwaitClosed(p))
    /\ \A k \in Closers : WF_vars(CloseFinish(k)) /\ WF_vars(AwaitClosed(k))

FairSpec == Spec /\ Fairness

-----------------------------------------------------------------------------
(***************************************************************************)
(* Properties                                                              *)
(***************************************************************************)
Labels == {"idle", "waiting", "ensure", "recover", "teardown", "launch",
           "running", "admitted", "await", "drain", "done"}

\* The labels at which an actor is inside the mutex.
Critical == {"ensure", "recover", "teardown", "launch", "running"}

\* The types of the flags, and of everything else.
FlagsOK ==
    /\ closed \in BOOLEAN /\ closeDone \in BOOLEAN
    /\ blanked \in BOOLEAN /\ worked \in BOOLEAN

StateOK ==
    /\ lock \in Actors \union {NoActor}
    /\ pc \in [Actors -> Labels]
    /\ browser \in Chromes \union {NoChrome}
    /\ page \in Tabs \union {NoTab} /\ cached \in Tabs \union {NoTab}
    /\ hub \in Tabs \union {NoTab} /\ observer \in Tabs \union {NoTab}
    /\ refs \in Tabs \union {NoTab}
    /\ saved \subseteq Tabs
    /\ emulation \in Profiles \union {NoProfile}
    /\ idle \in 0..2
    /\ up \subseteq Chromes
    /\ open \subseteq Tabs /\ mine \subseteq Tabs
    /\ home \in [Tabs -> Chromes \union {NoChrome}]
    /\ emu \in [Tabs -> Profiles \union {NoProfile}]

\* Every variable has its type.
TypeOK == FlagsOK /\ StateOK

\* Exactly the holder of the mutex is inside the section it protects, across
\* recoveries, relaunches and every early return (server.go's defer Unlock).
MutexHeld == \A a \in Actors : pc[a] \in Critical <=> lock = a

\* Once Close has begun, no call, prewarm or reaper that was already under way
\* brings Chrome back: nothing is held, no event hub runs, and no Chrome of
\* the server survives (server.go Close, and the closed checks).
NothingAfterClose ==
    closed => /\ browser = NoChrome
              /\ hub = NoTab /\ observer = NoTab
              /\ ~Attached => up = {}

\* closeDone is only closed when every admitted prewarm has returned, and
\* after it none can start (server.go PrewarmAsync and Close).
CloseDoneIsFinal == closeDone => closed /\ PrewarmsDrained

\* Every running Chrome the server launched is the one it holds: no crash,
\* relaunch, reap or close leaks a process.
NoOrphanChrome == ~Attached => up \subseteq {browser}

\* A browser held without a page always has a cached handle, so Browser.Page()
\* never opens a tab the server has not bound (server.go ensurePageLocked).
UnboundHasCachedPage == browser # NoChrome /\ page = NoTab => cached # NoTab

\* The refs an op resolves were taken on the page it acts on, whatever tab
\* switches, popups, closes, recoveries and relaunches came between.
RefsBelongToPage == page # NoTab => RefsInForce \in {NoTab, page}

\* After the page-idle stage no ref of the blanked document resolves.
BlankedRefsDropped == blanked => refs = NoTab

\* What the server has bound is one page throughout: its handle is the cached
\* one when it has none, and the refs in force are of it.
BoundPageHolds == UnboundHasCachedPage /\ RefsBelongToPage /\ BlankedRefsDropped

\* A tool that runs on an open page under an emulate profile sees that profile
\* in force: every crash, recovery, switch and popup replays it.
EmulationReplayed ==
    lock # NoActor /\ pc[lock] = "running" /\ page \in open
        /\ emulation # NoProfile
    => emu[page] = emulation

\* In a Chrome of the user, whose tabs come and go and which restarts while the
\* server holds a tab of it: after Close nothing is held, however late a probe
\* answers, and a page has its emulation again after every kind of recovery.
AttachedHolds == TypeOK /\ NothingAfterClose /\ EmulationReplayed

\* A named page is never handed to a Chrome that is not the one held.
PageOfHeldBrowser ==
    page # NoTab => browser # NoChrome /\ (page \in open => home[page] = browser)

\* withPage: "runs fn under the server lock with a guaranteed-live page".
GuaranteedLivePage ==
    [][\A a \in Actors :
        pc[a] = "ensure" /\ pc'[a] = "running" => page' \in open']_vars

\* The observer the `errors` and `snapshot` tools read is the one the running
\* hub feeds: "Long-lived Observer so the `errors` tool can return events
\* accumulated since the session started".
ObserverIsLive == observer # NoTab => observer = hub

\* Releasing the browser never closes a tab of the user: "Work in a tab this
\* server creates and closes, never in one of the user's tabs".
UserTabsSurvive ==
    [][browser # NoChrome /\ browser' # browser
        => open \ mine \subseteq open']_vars

\* A released attached Chrome keeps no tab of the server: "leave nothing
\* behind once the agent stops".
NothingLeftBehind == Attached /\ browser = NoChrome => open \intersect mine = {}

\* The reaper releases Chrome only after a full idle window without tool
\* activity: "after opts.IdleTimeout of no tool activity".  (A release that
\* moves no actor is the reaper's.)
ReapOnlyWhenQuiet ==
    [][UNCHANGED pc /\ browser # NoChrome /\ browser' = NoChrome
        => ~worked]_vars

\* Every tool call that has arrived returns.
CallsReturn == \A c \in Clients : pc[c] = "waiting" ~> pc[c] = "idle"

\* Close completes, and with it every second Close and late prewarm.
CloseCompletes == closed ~> closeDone

\* A server left without a page gets one again, or lets its Chrome go:
\* "a fresh browser is launched instead of failing every call forever".
PageComesBack ==
    (browser # NoChrome /\ page = NoTab) ~> (page # NoTab \/ browser = NoChrome)

\* For TLC: tabs, clients and Chromes (of which there is one when Attached)
\* differ in nothing but what they are called.
Symmetry == Permutations(Tabs) \union Permutations(Clients)
            \union Permutations(Chromes)
=============================================================================
