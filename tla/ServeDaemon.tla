----------------------------- MODULE ServeDaemon -----------------------------
(***************************************************************************)
(* The loop of the serve daemon (internal/surface/cli/serve.go) and the    *)
(* page cleanup it calls (BlankPages of internal/core/engine/tab_gc.go).   *)
(*                                                                         *)
(* Every 3 s the daemon probes its Chrome, and gives it up after Strikes   *)
(* failures in a row.  It compares the open tabs with those it saw last:   *)
(* after PageIdle without a change it replaces them by one blank tab, and  *)
(* after IdleTimeout it exits.  A lease file that commands touch holds off *)
(* both.  Time passes in units of which PageIdle and IdleTimeout are some. *)
(***************************************************************************)
EXTENDS Naturals, FiniteSets

CONSTANTS
    Tabs,        \* target ids
    Sites,       \* URLs other than about:blank
    Blank, Gone, \* about:blank; no such tab
    Unknown,     \* lastTargets after a fetch that failed
    Strikes,     \* serveHealthStrikes
    PageIdle,    \* GHOSTCHROME_PAGE_IDLE_TIMEOUT, 0 = off
    IdleTimeout, \* GHOSTCHROME_IDLE_TIMEOUT, 0 = off
    Leased,      \* the daemon of a named session: commands touch its lease
    CanBeBusy    \* a Chrome that runs may answer too late

ASSUME ServeDaemonAssumption ==
    /\ Sites \intersect {Blank, Gone} = {} /\ Blank # Gone
    /\ Unknown \notin [Tabs -> Sites \union {Blank, Gone}]
    /\ Strikes \in Nat \ {0}
    /\ PageIdle \in Nat /\ IdleTimeout \in Nat
    /\ Leased \in BOOLEAN /\ CanBeBusy \in BOOLEAN

VARIABLES
    chrome,  \* whether Chrome runs
    tabs,    \* its tabs: the URL of each
    pc,      \* where the loop is
    why,     \* why the daemon has exited
    missed,  \* failed probes in a row
    last,    \* lastTargets
    quiet,   \* the age of lastActivity
    blanked, \* pagesBlanked
    listed,  \* tabs the cleanup will ask to close
    asked,   \* tabs it has asked to close and that have not closed yet
    lease,   \* the age of the lease file
    working, \* whether a command is at work
    streak,  \* ghost: failed probes since the last one answered
    late,    \* ghost: in this iteration a Chrome that runs has missed a deadline
    alone    \* ghost: since the last list no command has touched a tab, and no
             \* close of an earlier cleanup was outstanding then

cleanup == <<listed, asked>>
world == <<chrome, tabs, lease, working, alone>>
ghosts == <<streak, late>>
loop  == <<pc, why, missed, last, quiet, blanked, cleanup, ghosts>>
vars  == <<world, loop>>

-----------------------------------------------------------------------------
Open(t) == tabs[t] # Gone

\* A target id no tab has, nor ever had.
Free(t) == ~Open(t) /\ t \notin asked

\* SessionLeaseFresh
LeaseFresh(window) == Leased /\ window > 0 /\ lease < window

\* Ages are told apart up to the longer of the two windows.
Horizon == IF PageIdle > IdleTimeout THEN PageIdle ELSE IdleTimeout
Aged(a) == IF a < Horizon THEN a + 1 ELSE a

Init ==
    /\ chrome = TRUE
    /\ tabs \in {[t \in Tabs |-> IF t = first THEN Blank ELSE Gone] : first \in Tabs}
    /\ pc = "wait" /\ why = "none" /\ missed = 0
    /\ last \in {tabs, Unknown} /\ quiet = 0 /\ blanked = FALSE
    /\ listed = {} /\ asked = {} /\ alone = FALSE
    /\ lease = 0 /\ working = FALSE /\ streak = 0 /\ late = FALSE

\* A tab is closed; Chrome exits with its last tab.
Closed(t) ==
    /\ tabs' = [tabs EXCEPT ![t] = Gone]
    /\ chrome' = \E u \in Tabs \ {t} : Open(u)

Goto(label) == pc' = label

MissedIf(condition) == late' = (late \/ condition)

Exit(reason) == pc' = "exit" /\ why' = reason

(***************************************************************************)
(* The loop                                                                *)
(***************************************************************************)

\* The ticker fires.
Tick ==
    /\ pc = "wait" /\ Goto("probe") /\ late' = FALSE
    /\ UNCHANGED <<world, why, missed, last, quiet, blanked, cleanup, streak>>

\* SIGINT or SIGTERM
Signal ==
    /\ pc = "wait" /\ Exit("signal")
    /\ UNCHANGED <<world, missed, last, quiet, blanked, cleanup, ghosts>>

\* Mutant: an answer does not clear the count.
ProbeOkKeepsCount ==
    /\ pc = "probe" /\ chrome
    /\ streak' = 0 /\ Goto("fetch")
    /\ UNCHANGED <<world, missed, why, last, quiet, blanked, cleanup, late>>

ProbeOk ==
    /\ pc = "probe" /\ chrome
    /\ missed' = 0 /\ streak' = 0
    /\ Goto("fetch")
    /\ UNCHANGED <<world, why, last, quiet, blanked, cleanup, late>>

\* Mutant: one strike too many is allowed.
ProbeFailsOnceMore ==
    /\ pc = "probe" /\ (~chrome \/ CanBeBusy)
    /\ missed' = missed + 1
    /\ streak' = IF streak < Strikes THEN streak + 1 ELSE streak
    /\ IF missed' <= Strikes THEN Goto("wait") /\ UNCHANGED why ELSE Exit("dead")
    /\ MissedIf(chrome)
    /\ UNCHANGED <<world, last, quiet, blanked, cleanup>>

ProbeFails ==
    /\ pc = "probe" /\ (~chrome \/ CanBeBusy)
    /\ missed' = missed + 1
    /\ streak' = IF streak < Strikes THEN streak + 1 ELSE streak
    /\ IF missed' < Strikes THEN Goto("wait") /\ UNCHANGED why ELSE Exit("dead")
    /\ MissedIf(chrome)
    /\ UNCHANGED <<world, last, quiet, blanked, cleanup>>

\* The tabs have changed: someone is there.
FetchChanged ==
    /\ pc = "fetch" /\ chrome /\ tabs # last
    /\ last' = tabs /\ quiet' = 0 /\ blanked' = FALSE
    /\ Goto("wait")
    /\ UNCHANGED <<world, why, missed, cleanup, ghosts>>

\* The first stage is due.
DueForCleanup ==
    PageIdle > 0 /\ ~blanked /\ quiet >= PageIdle /\ ~LeaseFresh(PageIdle)

FetchCleanup ==
    /\ pc = "fetch" /\ chrome /\ tabs = last /\ DueForCleanup
    /\ Goto("list")
    /\ UNCHANGED <<world, why, missed, last, quiet, blanked, cleanup, ghosts>>

\* The second stage is due: a fresh lease counts as activity.
DueForExit == IdleTimeout > 0 /\ quiet >= IdleTimeout

FetchIdle ==
    /\ pc = "fetch" /\ chrome /\ tabs = last /\ ~DueForCleanup /\ DueForExit
    /\ IF LeaseFresh(IdleTimeout)
         THEN quiet' = 0 /\ Goto("wait") /\ UNCHANGED why
         ELSE Exit("idle") /\ UNCHANGED quiet
    /\ UNCHANGED <<world, missed, last, blanked, cleanup, ghosts>>

FetchQuiet ==
    /\ pc = "fetch" /\ chrome /\ tabs = last /\ ~DueForCleanup /\ ~DueForExit
    /\ Goto("wait")
    /\ UNCHANGED <<world, why, missed, last, quiet, blanked, cleanup, ghosts>>

\* No answer, or both stages are off.
FetchFails ==
    /\ pc = "fetch" /\ (~chrome \/ CanBeBusy \/ PageIdle + IdleTimeout = 0)
    /\ Goto("wait")
    /\ MissedIf(chrome /\ PageIdle + IdleTimeout > 0)
    /\ UNCHANGED <<world, why, missed, last, quiet, blanked, cleanup, streak>>

(***************************************************************************)
(* BlankPages                                                              *)
(***************************************************************************)
ListTabs ==
    /\ pc = "list" /\ chrome
    /\ LET open == {t \in Tabs : Open(t)}
       IN  IF Cardinality(open) <= 1 /\ \A t \in open : tabs[t] = Blank
             THEN Goto("refetch") /\ UNCHANGED <<listed, alone>>
             ELSE Goto("replace") /\ listed' = open /\ alone' = (asked = {})
    /\ UNCHANGED <<chrome, tabs, lease, working, why, missed, last, quiet,
                   blanked, asked, ghosts>>

\* Mutant: the tabs are closed before the blank one is opened.
ReplaceLater ==
    /\ pc = "replace" /\ chrome
    /\ asked' = asked \union listed /\ listed' = {}
    /\ Goto("close")
    /\ UNCHANGED <<world, why, missed, last, quiet, blanked, ghosts>>

\* The blank tab is opened first, then the others are asked to close.
Replace ==
    /\ pc = "replace" /\ chrome
    /\ \E t \in Tabs : Free(t) /\ tabs' = [tabs EXCEPT ![t] = Blank]
    /\ asked' = asked \union listed /\ listed' = {}
    /\ Goto("close")
    /\ UNCHANGED <<chrome, lease, working, alone, why, missed, last, quiet,
                   blanked, ghosts>>

\* A close takes effect, at any time after it was asked for.
CloseTakesEffect(t) ==
    /\ pc # "exit" /\ t \in asked
    /\ asked' = asked \ {t}
    /\ IF Open(t) THEN Closed(t) ELSE UNCHANGED <<chrome, tabs>>
    /\ alone' = (alone /\ asked' # {})
    /\ UNCHANGED <<lease, working, pc, why, missed, last, quiet, blanked,
                   listed, ghosts>>

\* All are closed, or the deadline has passed.
CleanupEnds ==
    /\ pc = "close" /\ Goto("refetch")
    /\ MissedIf(chrome /\ asked # {})
    /\ UNCHANGED <<world, why, missed, last, quiet, blanked, cleanup, streak>>

\* The list or the new tab cannot be had.
CleanupFails ==
    /\ pc \in {"list", "replace"} /\ (~chrome \/ CanBeBusy)
    /\ listed' = {} /\ Goto("refetch")
    /\ MissedIf(chrome)
    /\ UNCHANGED <<world, why, missed, last, quiet, blanked, asked, streak>>

\* Mutant: the cleanup is not noted, and is due again at the next tick.
RefetchUnnoted ==
    /\ pc = "refetch" /\ chrome
    /\ last' = tabs /\ Goto("wait")
    /\ UNCHANGED <<world, why, missed, quiet, blanked, cleanup, ghosts>>

\* The tabs the cleanup has left are not activity.
Refetch ==
    /\ pc = "refetch" /\ chrome
    /\ last' = tabs /\ blanked' = TRUE
    /\ Goto("wait")
    /\ UNCHANGED <<world, why, missed, quiet, cleanup, ghosts>>

RefetchFails ==
    /\ pc = "refetch" /\ (~chrome \/ CanBeBusy)
    /\ last' = Unknown /\ blanked' = TRUE
    /\ Goto("wait")
    /\ MissedIf(chrome)
    /\ UNCHANGED <<world, why, missed, quiet, cleanup, streak>>

(***************************************************************************)
(* Commands, Chrome and time                                               *)
(***************************************************************************)
\* A command of the session starts: TouchSessionLease.
CommandStarts ==
    /\ ~working /\ chrome /\ pc # "exit"
    /\ working' = TRUE
    /\ lease' = IF Leased THEN 0 ELSE lease
    /\ UNCHANGED <<chrome, tabs, alone, loop>>

CommandEnds ==
    /\ pc # "exit" /\ working /\ working' = FALSE
    /\ UNCHANGED <<chrome, tabs, lease, alone, loop>>

\* It opens or navigates a tab, or closes one; or it clicks, which shows
\* nowhere.  Bound: one target id stays free.
CommandActs(t) ==
    /\ pc # "exit" /\ working /\ chrome
    /\ \/ /\ Open(t) \/ (Free(t) /\ \E u \in Tabs \ {t} : Free(u))
          /\ \E s \in Sites : tabs' = [tabs EXCEPT ![t] = s]
          /\ UNCHANGED chrome
       \/ Open(t) /\ Closed(t)
    /\ alone' = FALSE
    /\ UNCHANGED <<lease, working, loop>>

\* Chrome crashes.
ChromeDies ==
    /\ pc # "exit" /\ chrome /\ chrome' = FALSE
    /\ tabs' = [t \in Tabs |-> Gone] /\ asked' = {}
    /\ UNCHANGED <<lease, working, alone, pc, why, missed, last, quiet, blanked,
                   listed, ghosts>>

Pass ==
    /\ pc # "exit" /\ (quiet < Horizon \/ lease < Horizon)
    /\ quiet' = Aged(quiet) /\ lease' = Aged(lease)
    /\ UNCHANGED <<chrome, tabs, working, alone, pc, why, missed, last, blanked,
                   cleanup, ghosts>>

-----------------------------------------------------------------------------
Iteration ==
    \/ ProbeOk \/ ProbeFails
    \/ FetchChanged \/ FetchCleanup \/ FetchIdle \/ FetchQuiet \/ FetchFails
    \/ ListTabs \/ Replace \/ CleanupEnds \/ CleanupFails
    \/ Refetch \/ RefetchFails

Next ==
    \/ Tick \/ Signal \/ Iteration
    \/ \E t \in Tabs : CloseTakesEffect(t) \/ CommandActs(t)
    \/ CommandStarts \/ CommandEnds \/ ChromeDies \/ Pass

Spec == Init /\ [][Next]_vars

\* The ticker keeps firing, every request has a deadline, a tab asked to close
\* closes, time passes.
Fairness ==
    /\ WF_vars(Tick) /\ WF_vars(Iteration) /\ WF_vars(Pass)
    /\ \A t \in Tabs : WF_vars(CloseTakesEffect(t))

FairSpec == Spec /\ Fairness

-----------------------------------------------------------------------------
(***************************************************************************)
(* Properties                                                              *)
(***************************************************************************)
Urls == Sites \union {Blank, Gone}

\* Every variable has its type, and the count stays below the limit while the
\* daemon runs.
TypeOK ==
    /\ chrome \in BOOLEAN /\ tabs \in [Tabs -> Urls]
    /\ pc \in {"wait", "probe", "fetch", "list", "replace", "close", "refetch", "exit"}
    /\ why \in {"none", "signal", "dead", "idle"}
    /\ missed \in 0..Strikes /\ streak \in 0..Strikes
    /\ pc # "exit" => missed < Strikes
    /\ last \in [Tabs -> Urls] \union {Unknown}
    /\ quiet \in 0..Horizon /\ lease \in 0..Horizon
    /\ blanked \in BOOLEAN /\ working \in BOOLEAN
    /\ listed \subseteq Tabs /\ asked \subseteq Tabs /\ alone \in BOOLEAN
    /\ late \in BOOLEAN

\* Chrome is given up only after Strikes probes in a row have failed: "only
\* declared dead after serveHealthStrikes consecutive failures".
DeadOnlyAfterStrikes == why = "dead" => streak = Strikes

\* The cleanup never closes the last tab, however late its closes take effect,
\* unless a command works on the tabs meanwhile: "Open the replacement first:
\* Chrome exits when its last tab closes".
CleanupKeepsChrome ==
    [][(\E t \in Tabs : CloseTakesEffect(t)) /\ chrome /\ alone => chrome']_vars

\* The daemon of a dead Chrome exits.
DeadChromeNoticed == ~chrome ~> pc = "exit"

\* Once no command is at work any more and Chrome keeps up, the daemon exits:
\* neither stage of idleness keeps the other from its turn, whatever has failed
\* before.
IdleServeExits ==
    (IdleTimeout > 0 /\ <>[]~working /\ <>[]~late) => <>(pc = "exit")

\* A daemon that nothing needs comes to its end.
ServeEnds == DeadChromeNoticed /\ IdleServeExits

\* Properties the code does not have.

\* The cleanup closes tabs only "after 5 minutes without a command".
CleanupSparesCommands ==
    [][\A t \in Tabs : CloseTakesEffect(t) => ~(working /\ Open(t))]_vars

\* Idle pages are blanked in the end, whatever fails at first: "so no site
\* keeps running scripts or network while Chrome stays warm".
IdlePagesBlanked ==
    (PageIdle > 0 /\ <>[]~working)
        => <>(pc = "exit" \/ \A t \in Tabs : tabs[t] \in {Blank, Gone})
=============================================================================
