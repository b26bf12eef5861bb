------------------------- MODULE McpServer_proofs -------------------------
(***************************************************************************)
(* Theorems about McpServer, for any number of callers, tabs and Chromes:  *)
(* type correctness, mutual exclusion and what a terminal Close promises.  *)
(***************************************************************************)
EXTENDS McpServer, TLAPS

USE McpServerAssumption

\* The initial states have their types.
LEMMA TypeInit == Init => TypeOK
<1>1. SUFFICES ASSUME Init PROVE TypeOK
    OBVIOUS
<1>2. open \subseteq Tabs /\ up \subseteq Chromes
    BY <1>1 DEF Init
<1>3. home \in [Tabs -> Chromes \union {NoChrome}]
    <2>1. CASE Attached
        BY <1>1, <2>1 DEF Init
    <2>2. CASE ~Attached
        BY <1>1, <2>2 DEF Init
    <2> QED BY <2>1, <2>2
<1>4. pc \in [Actors -> Labels] /\ emu \in [Tabs -> Profiles \union {NoProfile}]
    BY <1>1 DEF Init, Labels
<1>5. FlagsOK
    BY <1>1 DEF Init, FlagsOK
<1>6. StateOK
    BY <1>1, <1>2, <1>3, <1>4 DEF Init, StateOK
<1> QED BY <1>5, <1>6 DEF TypeOK

\* A step of a function variable keeps its type.
LEMMA GotoType ==
    ASSUME NEW a \in Actors, NEW label \in Labels, pc \in [Actors -> Labels],
           Goto(a, label)
    PROVE  pc' \in [Actors -> Labels]
BY DEF Goto

LEMMA OpenTabType ==
    ASSUME StateOK, NEW t \in Tabs, NEW b \in Chromes, NEW byUser \in BOOLEAN,
           OpenTab(t, b, byUser)
    PROVE  /\ open' \subseteq Tabs /\ mine' \subseteq Tabs
           /\ home' \in [Tabs -> Chromes \union {NoChrome}]
BY DEF StateOK, OpenTab

LEMMA ReplayedType ==
    ASSUME StateOK, NEW t \in Tabs
    PROVE  /\ Replayed(t) \in [Tabs -> Profiles \union {NoProfile}]
           /\ ReplayedFresh(t) \in [Tabs -> Profiles \union {NoProfile}]
BY DEF StateOK, Replayed, ReplayedFresh

LEMMA CloseLockedType ==
    ASSUME StateOK, CloseLocked
    PROVE  /\ browser' \in Chromes \union {NoChrome}
           /\ page' \in Tabs \union {NoTab} /\ cached' \in Tabs \union {NoTab}
           /\ hub' = NoTab /\ observer' = NoTab
           /\ refs' \in Tabs \union {NoTab}
           /\ up' \subseteq Chromes /\ open' \subseteq Tabs
BY DEF StateOK, CloseLocked, CloseBrowser, TabsOf

\* The flags, in every step.
LEMMA FlagsEnsure ==
    ASSUME FlagsOK, NEW a \in Actors, EnsurePage(a)
    PROVE  FlagsOK'
BY DEF FlagsOK, EnsurePage, EnsureClosed, EnsureHeld, EnsureTargetLost,
       EnsureDead, EnsureUnbound, EnsureCold, Recover, RecoverCached,
       RecoverFails, Teardown, Launch, LaunchFails, Stamp, clockVars

\* The rest, in the part of a step that ensures a page.
LEMMA StateEnsure ==
    ASSUME StateOK, NEW a \in Actors, EnsurePage(a)
    PROVE  StateOK'
<1> USE DEF Labels, Release, Stamp, AtRest, BindPage, heldVars, clockVars, envVars
<1>1. CASE EnsureClosed(a)
    BY <1>1, GotoType DEF StateOK, EnsureClosed
<1>2. CASE EnsureHeld(a)
    BY <1>2, GotoType DEF StateOK, EnsureHeld
<1>3. CASE EnsureTargetLost(a)
    BY <1>3, GotoType DEF StateOK, EnsureTargetLost
<1>4. CASE EnsureDead(a)
    BY <1>4, GotoType DEF StateOK, EnsureDead
<1>5. CASE EnsureUnbound(a)
    BY <1>5, GotoType DEF StateOK, EnsureUnbound
<1>6. CASE EnsureCold(a)
    BY <1>6, GotoType DEF StateOK, EnsureCold
<1>7. CASE Recover(a)
    <2>1. PICK t \in Tabs : Recover(a)!3!(t)
        BY <1>7 DEF Recover
    <2>2. browser \in Chromes
        BY <1>7 DEF StateOK, Recover
    <2>3. /\ open' \subseteq Tabs /\ mine' \subseteq Tabs
          /\ home' \in [Tabs -> Chromes \union {NoChrome}]
        BY <2>1, <2>2, OpenTabType
    <2>4. emu' \in [Tabs -> Profiles \union {NoProfile}]
        BY <2>1, ReplayedType
    <2> QED BY <1>7, <2>1, <2>3, <2>4, GotoType DEF StateOK, Recover
<1>8. CASE RecoverCached(a)
    <2>1. cached \in Tabs
        BY <1>8 DEF StateOK, RecoverCached
    <2>2. emu' \in [Tabs -> Profiles \union {NoProfile}]
        BY <1>8, <2>1, ReplayedType DEF RecoverCached
    <2> QED BY <1>8, <2>1, <2>2, GotoType DEF StateOK, RecoverCached
<1>9. CASE RecoverFails(a)
    BY <1>9, GotoType DEF StateOK, RecoverFails
<1>10. CASE Teardown(a)
    BY <1>10, GotoType, CloseLockedType DEF StateOK, Teardown, CloseLocked
<1>11. CASE Launch(a)
    <2>1. PICK b \in Chromes, t \in Tabs : Launch(a)!2!(b, t)
        BY <1>11 DEF Launch
    <2>2. /\ open' \subseteq Tabs /\ mine' \subseteq Tabs
          /\ home' \in [Tabs -> Chromes \union {NoChrome}]
        BY <2>1, OpenTabType
    <2>3. emu' \in [Tabs -> Profiles \union {NoProfile}]
        BY <2>1, ReplayedType
    <2>4. up' \subseteq Chromes
        BY <2>1 DEF StateOK
    <2> QED BY <1>11, <2>1, <2>2, <2>3, <2>4, GotoType DEF StateOK, Launch
<1>12. CASE LaunchFails(a)
    BY <1>12, GotoType DEF StateOK, LaunchFails
<1> QED BY <1>1, <1>2, <1>3, <1>4, <1>5, <1>6, <1>7, <1>8, <1>9, <1>10,
           <1>11, <1>12 DEF EnsurePage

\* The flags, in every step.
LEMMA FlagsNext == FlagsOK /\ [Next]_vars => FlagsOK'
<1> SUFFICES ASSUME FlagsOK, [Next]_vars PROVE FlagsOK'
    OBVIOUS
<1> USE DEF FlagsOK, ctlVars, heldVars, clockVars, envVars
<1>1. ASSUME NEW c \in Clients, Arrive(c) \/ ToolCall(c) PROVE FlagsOK'
    <2>1. CASE Arrive(c) \/ Cancelled(c) \/ Acquire(c)
        BY <2>1 DEF Arrive, Cancelled, Acquire
    <2>2. CASE EnsurePage(c)
        BY <2>2, FlagsEnsure DEF Actors
    <2>3. CASE Op(c)
        BY <2>3 DEF Op, OpExtract, OpClickPopup, OpClickPopupLost, OpSwitch,
           OpNew, OpCloseOther, OpCloseCurrent, OpCloseLast, OpEmulate,
           OpEmulateReset, OpOther, Return
    <2> QED BY <1>1, <2>1, <2>2, <2>3 DEF ToolCall
<1>2. ASSUME NEW p \in Prewarmers, Prewarm(p) PROVE FlagsOK'
    <2>1. CASE EnsurePage(p)
        BY <2>1, FlagsEnsure DEF Actors
    <2>2. CASE PrewarmAdmit(p) \/ PrewarmRun(p) \/ PrewarmEnd(p) \/ AwaitClosed(p)
        BY <2>2 DEF PrewarmAdmit, PrewarmRun, PrewarmEnd, AwaitClosed
    <2> QED BY <1>2, <2>1, <2>2 DEF Prewarm
<1>3. ASSUME NEW k \in Closers, Close(k) PROVE FlagsOK'
    BY <1>3 DEF Close, CloseFirst, CloseAgain, CloseFinish, AwaitClosed
<1>4. CASE ReapRelease \/ ReapBlank
    BY <1>4 DEF ReapRelease, ReapBlank
<1>5. CASE Environment
    BY <1>5 DEF Environment, Tick, ChromeDies, TabCloses, UserRestarts
<1>6. CASE UNCHANGED vars
    BY <1>6 DEF vars
<1> QED BY <1>1, <1>2, <1>3, <1>4, <1>5, <1>6 DEF Next

\* The rest, in what a tool does on the page.
LEMMA StateOp ==
    ASSUME StateOK, NEW c \in Clients, Op(c)
    PROVE  StateOK'
<1> USE DEF Labels, Running, Return, Release, AtRest, Adopt, envVars, heldVars
<1>0. c \in Actors
    BY DEF Actors
<1>1. CASE OpExtract(c)
    BY <1>0, <1>1, GotoType DEF StateOK, OpExtract
<1>2. CASE OpSwitch(c)
    <2>1. PICK t \in TabsOf(browser) : OpSwitch(c)!2!(t)
        BY <1>2 DEF OpSwitch
    <2>2. t \in Tabs
        BY DEF StateOK, TabsOf
    <2>3. emu' \in [Tabs -> Profiles \union {NoProfile}]
        BY <2>1, <2>2, ReplayedType DEF StateOK
    <2> QED BY <1>0, <1>2, <2>1, <2>2, <2>3, GotoType DEF StateOK, OpSwitch
<1>3. CASE OpCloseOther(c)
    BY <1>0, <1>3, GotoType DEF StateOK, OpCloseOther
<1>4. CASE OpCloseCurrent(c)
    <2>1. PICK t \in TabsOf(browser) \ {page} : OpCloseCurrent(c)!4!(t)
        BY <1>4 DEF OpCloseCurrent
    <2>2. t \in Tabs
        BY DEF StateOK, TabsOf
    <2>3. emu' \in [Tabs -> Profiles \union {NoProfile}]
        BY <2>1, <2>2, ReplayedType DEF StateOK
    <2> QED BY <1>0, <1>4, <2>1, <2>2, <2>3, GotoType DEF StateOK, OpCloseCurrent
<1>5. CASE OpCloseLast(c)
    BY <1>0, <1>5, GotoType DEF StateOK, OpCloseLast
<1>6. CASE OpEmulate(c) \/ OpEmulateReset(c) \/ OpOther(c)
    BY <1>0, <1>6, GotoType DEF StateOK, OpEmulate, OpEmulateReset, OpOther
<1>7. ASSUME NEW t \in Tabs, OpenTab(t, browser, FALSE), page \in open \/ browser \in up
      PROVE  /\ open' \subseteq Tabs /\ mine' \subseteq Tabs
             /\ home' \in [Tabs -> Chromes \union {NoChrome}]
    BY <1>7 DEF StateOK, OpenTab
<1>8. CASE OpNew(c)
    <2>1. PICK t \in Tabs : OpNew(c)!2!(t)
        BY <1>8 DEF OpNew
    <2>2. emu' \in [Tabs -> Profiles \union {NoProfile}]
        BY <2>1, ReplayedType
    <2> QED BY <1>0, <1>8, <2>1, <2>2, <1>7, GotoType DEF StateOK, OpNew
<1>9. CASE OpClickPopup(c)
    <2>1. PICK t \in Tabs : OpClickPopup(c)!2!(t)
        BY <1>9 DEF OpClickPopup
    <2>2. emu' \in [Tabs -> Profiles \union {NoProfile}]
        BY <2>1, ReplayedType
    <2> QED BY <1>0, <1>9, <2>1, <2>2, <1>7, GotoType DEF StateOK, OpClickPopup
<1>10. CASE OpClickPopupLost(c)
    <2>1. PICK t \in Tabs : OpClickPopupLost(c)!3!(t)
        BY <1>10 DEF OpClickPopupLost
    <2>2. emu' \in [Tabs -> Profiles \union {NoProfile}]
        BY <2>1 DEF StateOK
    <2> QED BY <1>0, <1>10, <2>1, <2>2, <1>7, GotoType DEF StateOK, OpClickPopupLost
<1> QED BY <1>1, <1>2, <1>3, <1>4, <1>5, <1>6, <1>8, <1>9, <1>10 DEF Op

\* The rest, in every step.
LEMMA StateNext == StateOK /\ [Next]_vars => StateOK'
<1> SUFFICES ASSUME StateOK, [Next]_vars PROVE StateOK'
    OBVIOUS
<1> USE DEF Labels, Release, AtRest, ctlVars, heldVars, clockVars, envVars
<1>1. ASSUME NEW c \in Clients, Arrive(c) \/ ToolCall(c) PROVE StateOK'
    <2>0. c \in Actors
        BY DEF Actors
    <2>1. CASE Arrive(c) \/ Cancelled(c) \/ Acquire(c)
        BY <2>0, <2>1, GotoType DEF StateOK, Arrive, Cancelled, Acquire
    <2> QED BY <1>1, <2>0, <2>1, StateEnsure, StateOp DEF ToolCall
<1>2. ASSUME NEW p \in Prewarmers, Prewarm(p) PROVE StateOK'
    <2>0. p \in Actors
        BY DEF Actors
    <2>1. CASE PrewarmAdmit(p) \/ PrewarmRun(p) \/ PrewarmEnd(p) \/ AwaitClosed(p)
        BY <2>0, <2>1, GotoType
           DEF StateOK, PrewarmAdmit, PrewarmRun, PrewarmEnd, AwaitClosed
    <2> QED BY <1>2, <2>0, <2>1, StateEnsure DEF Prewarm
<1>3. ASSUME NEW k \in Closers, Close(k) PROVE StateOK'
    <2>0. k \in Actors
        BY DEF Actors
    <2>1. CASE CloseFirst(k)
        BY <2>0, <2>1, GotoType, CloseLockedType DEF StateOK, CloseFirst, CloseLocked
    <2>2. CASE CloseAgain(k) \/ CloseFinish(k) \/ AwaitClosed(k)
        BY <2>0, <2>2, GotoType DEF StateOK, CloseAgain, CloseFinish, AwaitClosed
    <2> QED BY <1>3, <2>1, <2>2 DEF Close
<1>4. CASE ReapRelease
    BY <1>4, CloseLockedType DEF StateOK, ReapRelease, CloseLocked
<1>5. CASE ReapBlank
    BY <1>5 DEF StateOK, ReapBlank
<1>6. CASE Environment
    <2>1. CASE Tick
        BY <2>1 DEF StateOK, Tick
    <2>2. ASSUME NEW b \in Chromes, ChromeDies(b) PROVE StateOK'
        BY <2>2 DEF StateOK, ChromeDies
    <2>3. ASSUME NEW t \in Tabs, TabCloses(t) PROVE StateOK'
        BY <2>3 DEF StateOK, TabCloses
    <2>4. CASE UserRestarts
        <3>1. PICK t \in Tabs : UserRestarts!3!(t)
            BY <2>4 DEF UserRestarts
        <3>2. UserChrome \in Chromes
            BY <2>4 DEF UserRestarts
        <3>3. /\ open' \subseteq Tabs /\ mine' \subseteq Tabs
              /\ home' \in [Tabs -> Chromes \union {NoChrome}]
            BY <3>1, <3>2, OpenTabType
        <3>4. emu' \in [Tabs -> Profiles \union {NoProfile}]
            BY <3>1 DEF StateOK
        <3> QED BY <2>4, <3>1, <3>2, <3>3, <3>4 DEF StateOK, UserRestarts
    <2> QED BY <1>6, <2>1, <2>2, <2>3, <2>4 DEF Environment
<1>7. CASE UNCHANGED vars
    BY <1>7 DEF StateOK, vars
<1> QED BY <1>1, <1>2, <1>3, <1>4, <1>5, <1>6, <1>7 DEF Next

\* Every variable keeps its type: no step leaves a handle that is neither a
\* target nor absent, a Chrome that is not a process, or a lost label.
THEOREM TypeCorrect == Spec => []TypeOK
<1>1. Init => TypeOK
    BY TypeInit
<1>2. TypeOK /\ [Next]_vars => TypeOK'
    BY FlagsNext, StateNext DEF TypeOK
<1> QED BY <1>1, <1>2, PTL DEF Spec
-----------------------------------------------------------------------------
(***************************************************************************)
(* The mutex.  MutexHeld is inductive given the types.                     *)
(***************************************************************************)

\* The five ways in which a step of actor a moves its label and the mutex.
LEMMA MutexMoves ==
    ASSUME StateOK, MutexHeld, NEW a \in Actors, NEW label \in Labels,
           Goto(a, label),
           \/ lock = a /\ lock' = a /\ label \in Critical
           \/ lock = a /\ lock' = NoActor /\ label \notin Critical
           \/ lock = NoActor /\ lock' = a /\ label \in Critical
           \/ pc[a] \notin Critical /\ lock' = lock /\ label \notin Critical
    PROVE  MutexHeld'
BY DEF StateOK, MutexHeld, Goto, Critical

LEMMA MutexEnsure ==
    ASSUME StateOK, MutexHeld, NEW a \in Actors, EnsurePage(a)
    PROVE  MutexHeld'
<1> USE MutexMoves DEF Labels, Critical, Ensuring, Release, AtRest
<1>1. CASE EnsureClosed(a) \/ EnsureHeld(a) \/ EnsureTargetLost(a) \/ EnsureDead(a)
           \/ EnsureCold(a)
    BY <1>1 DEF EnsureClosed, EnsureHeld, EnsureTargetLost, EnsureDead, EnsureCold
<1>2. CASE EnsureUnbound(a)
    BY <1>2 DEF EnsureUnbound
<1>3. CASE Recover(a) \/ RecoverCached(a) \/ RecoverFails(a)
    BY <1>3 DEF Recover, RecoverCached, RecoverFails
<1>4. CASE Teardown(a) \/ Launch(a) \/ LaunchFails(a)
    BY <1>4 DEF Teardown, Launch, LaunchFails
<1> QED BY <1>1, <1>2, <1>3, <1>4 DEF EnsurePage

LEMMA MutexNext == StateOK /\ MutexHeld /\ [Next]_vars => MutexHeld'
<1> SUFFICES ASSUME StateOK, MutexHeld, [Next]_vars PROVE MutexHeld'
    OBVIOUS
<1> USE MutexMoves DEF Labels, Critical, Release, AtRest
<1>1. ASSUME NEW c \in Clients, Arrive(c) \/ ToolCall(c) PROVE MutexHeld'
    <2>0. c \in Actors
        BY DEF Actors
    <2>1. CASE Arrive(c) \/ Cancelled(c) \/ Acquire(c)
        BY <2>0, <2>1 DEF Arrive, Cancelled, Acquire
    <2>2. CASE Op(c)
        <3>1. lock = c /\ Return(c)
            BY <2>2 DEF Op, OpExtract, OpClickPopup, OpClickPopupLost, OpSwitch,
               OpNew, OpCloseOther, OpCloseCurrent, OpCloseLast, OpEmulate,
               OpEmulateReset, OpOther, Running
        <3> QED BY <2>0, <3>1 DEF Return
    <2> QED BY <1>1, <2>0, <2>1, <2>2, MutexEnsure DEF ToolCall
<1>2. ASSUME NEW p \in Prewarmers, Prewarm(p) PROVE MutexHeld'
    <2>0. p \in Actors
        BY DEF Actors
    <2>1. CASE PrewarmAdmit(p) \/ PrewarmRun(p) \/ PrewarmEnd(p) \/ AwaitClosed(p)
        BY <2>0, <2>1 DEF PrewarmAdmit, PrewarmRun, PrewarmEnd, AwaitClosed
    <2> QED BY <1>2, <2>0, <2>1, MutexEnsure DEF Prewarm
<1>3. ASSUME NEW k \in Closers, Close(k) PROVE MutexHeld'
    <2>0. k \in Actors
        BY DEF Actors
    <2> QED BY <1>3, <2>0
            DEF Close, CloseFirst, CloseAgain, CloseFinish, AwaitClosed
<1>4. CASE lock' = lock /\ pc' = pc
    BY <1>4 DEF MutexHeld
<1>5. CASE ReapRelease \/ ReapBlank \/ Environment \/ UNCHANGED vars
    BY <1>4, <1>5 DEF ReapRelease, ReapBlank, Environment, Tick, ChromeDies,
       TabCloses, UserRestarts, ctlVars, vars
<1> QED BY <1>1, <1>2, <1>3, <1>5 DEF Next

\* Mutual exclusion, across every recovery, relaunch and early return.
THEOREM MutualExclusion == Spec => []MutexHeld
<1>1. Init => MutexHeld
    BY DEF Init, MutexHeld, Critical
<1>2. MutexHeld /\ TypeOK /\ [Next]_vars => MutexHeld'
    BY MutexNext DEF TypeOK
<1> QED BY <1>1, <1>2, TypeCorrect, PTL DEF Spec
-----------------------------------------------------------------------------
(***************************************************************************)
(* Close.  CloseInv says who can still be under way once closed is set:    *)
(* nobody past the closed check of ensurePageLocked, because Close sets it *)
(* under the mutex; so nothing can be launched or bound again.             *)
(***************************************************************************)
PastCheck == {"recover", "teardown", "launch", "running"}

ClosedReleases == closed => browser = NoChrome /\ hub = NoTab /\ observer = NoTab
ClosedStopsCalls == closed => \A a \in Actors : pc[a] \notin PastCheck
WaitersSawClosed == \A a \in Actors : pc[a] \in {"await", "drain"} => closed

CloseInv ==
    ClosedReleases /\ ClosedStopsCalls /\ WaitersSawClosed /\ CloseDoneIsFinal

\* A step past the closed check is a step of an open server.
LEMMA PastCheckIsOpen ==
    ASSUME CloseInv, NEW a \in Actors, pc[a] \in PastCheck
    PROVE  ~closed /\ ~closeDone
BY DEF CloseInv, ClosedStopsCalls, CloseDoneIsFinal

\* A step of actor a that keeps an open server open.
LEMMA OpenMoves ==
    ASSUME StateOK, CloseInv, ~closed, closed' = closed, closeDone' = closeDone,
           NEW a \in Actors, NEW label \in Labels \ {"await", "drain"},
           Goto(a, label)
    PROVE  CloseInv'
BY DEF StateOK, CloseInv, ClosedReleases, ClosedStopsCalls, WaitersSawClosed,
       CloseDoneIsFinal, Goto

\* A step of actor a that leaves what is held, and goes neither past the check
\* nor from or to a place where a prewarm counts.
LEMMA QuietMoves ==
    ASSUME StateOK, CloseInv, closed' = closed, closeDone' = closeDone,
           UNCHANGED heldVars,
           NEW a \in Actors, NEW label \in Labels, Goto(a, label),
           label \notin PastCheck,
           label \in {"await", "drain"} => closed,
           a \in Prewarmers => label \in {"idle", "await", "done"}
    PROVE  CloseInv'
BY DEF StateOK, CloseInv, ClosedReleases, ClosedStopsCalls, WaitersSawClosed,
       CloseDoneIsFinal, PrewarmsDrained, Goto, heldVars

LEMMA CloseEnsure ==
    ASSUME StateOK, CloseInv, NEW a \in Actors, EnsurePage(a)
    PROVE  CloseInv'
<1> USE DEF Labels, PastCheck, AtRest, Release
<1>1. CASE EnsureClosed(a)
    BY <1>1, QuietMoves DEF EnsureClosed
<1>2. CASE EnsureHeld(a) \/ EnsureTargetLost(a) \/ EnsureDead(a) \/ EnsureCold(a)
    BY <1>2, OpenMoves
       DEF EnsureHeld, EnsureTargetLost, EnsureDead, EnsureCold
<1>3. CASE EnsureUnbound(a)
    BY <1>3, OpenMoves DEF EnsureUnbound
<1>4. CASE Recover(a) \/ RecoverCached(a) \/ RecoverFails(a)
    BY <1>4, OpenMoves, PastCheckIsOpen DEF Recover, RecoverCached, RecoverFails
<1>5. CASE Teardown(a) \/ Launch(a) \/ LaunchFails(a)
    BY <1>5, OpenMoves, PastCheckIsOpen DEF Teardown, Launch, LaunchFails
<1> QED BY <1>1, <1>2, <1>3, <1>4, <1>5 DEF EnsurePage

LEMMA CloseNext ==
    StateOK /\ MutexHeld /\ CloseInv /\ [Next]_vars => CloseInv'
<1> SUFFICES ASSUME StateOK, MutexHeld, CloseInv, [Next]_vars PROVE CloseInv'
    OBVIOUS
<1> USE DEF Labels, PastCheck, AtRest, Release
<1>1. ASSUME NEW c \in Clients, Arrive(c) \/ ToolCall(c) PROVE CloseInv'
    <2>0. c \in Actors /\ c \notin Prewarmers
        BY DEF Actors
    <2>1. CASE Arrive(c) \/ Cancelled(c) \/ Acquire(c)
        BY <2>0, <2>1, QuietMoves DEF Arrive, Cancelled, Acquire
    <2>2. CASE Op(c)
        <3>1. pc[c] = "running" /\ Return(c)
            BY <2>2 DEF Op, OpExtract, OpClickPopup, OpClickPopupLost, OpSwitch,
               OpNew, OpCloseOther, OpCloseCurrent, OpCloseLast, OpEmulate,
               OpEmulateReset, OpOther, Running
        <3> QED BY <2>0, <3>1, OpenMoves, PastCheckIsOpen DEF Return
    <2> QED BY <1>1, <2>0, <2>1, <2>2, CloseEnsure DEF ToolCall
<1>2. ASSUME NEW p \in Prewarmers, Prewarm(p) PROVE CloseInv'
    <2>0. p \in Actors
        BY DEF Actors
    <2>1. CASE PrewarmAdmit(p)
        BY <2>0, <2>1, OpenMoves, QuietMoves DEF PrewarmAdmit
    <2>2. CASE PrewarmRun(p)
        BY <2>0, <2>2, OpenMoves, QuietMoves DEF PrewarmRun
    <2>3. CASE PrewarmEnd(p) \/ AwaitClosed(p)
        BY <2>0, <2>3, QuietMoves DEF PrewarmEnd, AwaitClosed
    <2> QED BY <1>2, <2>0, <2>1, <2>2, <2>3, CloseEnsure DEF Prewarm
<1>3. ASSUME NEW k \in Closers, Close(k) PROVE CloseInv'
    <2>0. k \in Actors /\ k \notin Prewarmers
        BY DEF Actors
    <2>1. CASE CloseFirst(k)
        <3>1. \A a \in Actors : pc[a] \notin Critical
            BY <2>1 DEF CloseFirst, MutexHeld
        <3>2. ClosedReleases' /\ closed' /\ ~closeDone'
            BY <2>1 DEF CloseFirst, CloseLocked, ClosedReleases, CloseInv, CloseDoneIsFinal
        <3> QED BY <2>0, <2>1, <3>1, <3>2
                DEF CloseFirst, CloseInv, ClosedStopsCalls, WaitersSawClosed,
                    CloseDoneIsFinal, StateOK, Goto, Critical
    <2>2. CASE CloseAgain(k) \/ AwaitClosed(k)
        BY <2>0, <2>2, QuietMoves DEF CloseAgain, AwaitClosed
    <2>3. CASE CloseFinish(k)
        BY <2>0, <2>3
           DEF CloseFinish, CloseInv, ClosedReleases, ClosedStopsCalls,
               WaitersSawClosed, CloseDoneIsFinal, PrewarmsDrained, StateOK,
               Goto, heldVars
    <2> QED BY <1>3, <2>1, <2>2, <2>3 DEF Close
<1>4. CASE UNCHANGED <<pc, closed, closeDone, browser, hub, observer>>
    BY <1>4 DEF CloseInv, ClosedReleases, ClosedStopsCalls, WaitersSawClosed,
       CloseDoneIsFinal, PrewarmsDrained
<1>5. CASE ReapRelease
    BY <1>5 DEF ReapRelease, ctlVars, CloseInv, ClosedReleases, ClosedStopsCalls,
       WaitersSawClosed, CloseDoneIsFinal, PrewarmsDrained
<1>6. CASE ReapBlank \/ Environment \/ UNCHANGED vars
    BY <1>4, <1>6 DEF ReapBlank, Environment, Tick, ChromeDies, TabCloses,
       UserRestarts, ctlVars, heldVars, vars
<1> QED BY <1>1, <1>2, <1>3, <1>5, <1>6 DEF Next

LEMMA CloseInvariant == Spec => []CloseInv
<1>1. Init => CloseInv
    BY DEF Init, CloseInv, ClosedReleases, ClosedStopsCalls, WaitersSawClosed,
       CloseDoneIsFinal, PastCheck
<1>2. TypeOK /\ MutexHeld /\ CloseInv /\ [Next]_vars => CloseInv'
    BY CloseNext DEF TypeOK
<1> QED BY <1>1, <1>2, TypeCorrect, MutualExclusion, PTL DEF Spec

\* closeDone is closed only when the server is closed and every prewarm it had
\* admitted has returned, and none runs after it.
THEOREM CloseIsFinal == Spec => []CloseDoneIsFinal
<1>1. CloseInv => CloseDoneIsFinal
    BY DEF CloseInv
<1> QED BY <1>1, CloseInvariant, PTL
-----------------------------------------------------------------------------
(***************************************************************************)
(* Processes.  When no probe of a live Chrome times out, the Chrome that   *)
(* runs is the one held, and none runs when one is about to be launched.   *)
(* (A late answer makes the server launch over a Chrome that runs.)        *)
(***************************************************************************)
LaunchFromNone == ~Attached => \A a \in Actors : pc[a] = "launch" => up = {}

OrphanInv == NoOrphanChrome /\ LaunchFromNone

\* A step that starts no Chrome and keeps the handle, or drops it with its
\* Chrome, and sends nobody to launch.
LEMMA OrphanMoves ==
    ASSUME StateOK, OrphanInv,
           up' \subseteq up,
           browser' = browser \/ browser \notin up',
           \A a \in Actors : pc'[a] = "launch" => pc[a] = "launch" \/ up' = {}
    PROVE  OrphanInv'
BY DEF OrphanInv, NoOrphanChrome, LaunchFromNone

LEMMA OrphanGoto ==
    ASSUME StateOK, OrphanInv, up' = up, browser' = browser,
           NEW a \in Actors, NEW label \in Labels, Goto(a, label),
           label = "launch" => up = {}
    PROVE  OrphanInv'
<1>1. \A b \in Actors : pc'[b] = "launch" => pc[b] = "launch" \/ up' = {}
    BY DEF Goto, StateOK
<1> QED BY <1>1, OrphanMoves DEF OrphanInv, NoOrphanChrome, LaunchFromNone

LEMMA OrphanEnsure ==
    ASSUME ~ProbeTimesOut, ~Attached,
           StateOK, MutexHeld, OrphanInv, NEW a \in Actors, EnsurePage(a)
    PROVE  OrphanInv'
<1> USE DEF Labels, AtRest, Release, heldVars, envVars
<1>1. CASE EnsureClosed(a) \/ EnsureHeld(a) \/ EnsureTargetLost(a) \/ EnsureDead(a)
    BY <1>1, OrphanGoto DEF EnsureClosed, EnsureHeld, EnsureTargetLost, EnsureDead
<1>2. CASE EnsureUnbound(a)
    BY <1>2, OrphanGoto DEF EnsureUnbound
<1>3. CASE EnsureCold(a)
    <2>1. up = {}
        BY <1>3 DEF EnsureCold, ProbeDead, OrphanInv, NoOrphanChrome, StateOK
    <2> QED BY <1>3, <2>1, OrphanGoto DEF EnsureCold
<1>4. CASE Recover(a) \/ RecoverCached(a) \/ RecoverFails(a)
    BY <1>4, OrphanGoto DEF Recover, RecoverCached, RecoverFails
<1>5. CASE Teardown(a)
    <2>1. up' = {} /\ browser' = NoChrome
        BY <1>5 DEF Teardown, CloseLocked, CloseBrowser, OrphanInv, NoOrphanChrome, StateOK
    <2> QED BY <2>1 DEF OrphanInv, NoOrphanChrome, LaunchFromNone
<1>6. CASE Launch(a)
    <2>1. up = {}
        BY <1>6 DEF Launch, OrphanInv, LaunchFromNone
    <2>2. up' = {browser'}
        BY <1>6, <2>1 DEF Launch
    <2>3. \A b \in Actors : pc'[b] # "launch"
        BY <1>6 DEF Launch, Goto, StateOK, MutexHeld, Critical
    <2> QED BY <2>2, <2>3 DEF OrphanInv, NoOrphanChrome, LaunchFromNone
<1>7. CASE LaunchFails(a)
    BY <1>7, OrphanGoto DEF LaunchFails
<1> QED BY <1>1, <1>2, <1>3, <1>4, <1>5, <1>6, <1>7 DEF EnsurePage

LEMMA OrphanNext ==
    ASSUME ~ProbeTimesOut
    PROVE  StateOK /\ MutexHeld /\ OrphanInv /\ [Next]_vars => OrphanInv'
<1>0. CASE Attached
    BY <1>0 DEF OrphanInv, NoOrphanChrome, LaunchFromNone
<1> SUFFICES ASSUME ~Attached, StateOK, MutexHeld, OrphanInv, [Next]_vars
             PROVE  OrphanInv'
    BY <1>0
<1> USE DEF Labels, AtRest, Release, ctlVars, heldVars, envVars
<1>1. ASSUME NEW c \in Clients, Arrive(c) \/ ToolCall(c) PROVE OrphanInv'
    <2>0. c \in Actors
        BY DEF Actors
    <2>1. CASE Arrive(c) \/ Cancelled(c) \/ Acquire(c)
        BY <2>0, <2>1, OrphanGoto DEF Arrive, Cancelled, Acquire
    <2>2. CASE Op(c)
        <3>1. Return(c) /\ UNCHANGED <<up, browser>>
            BY <2>2 DEF Op, OpExtract, OpClickPopup, OpClickPopupLost, OpSwitch,
               OpNew, OpCloseOther, OpCloseCurrent, OpCloseLast, OpEmulate,
               OpEmulateReset, OpOther
        <3> QED BY <2>0, <3>1, OrphanGoto DEF Return
    <2> QED BY <1>1, <2>0, <2>1, <2>2, OrphanEnsure DEF ToolCall
<1>2. ASSUME NEW p \in Prewarmers, Prewarm(p) PROVE OrphanInv'
    <2>0. p \in Actors
        BY DEF Actors
    <2>1. CASE PrewarmAdmit(p) \/ PrewarmRun(p) \/ PrewarmEnd(p) \/ AwaitClosed(p)
        BY <2>0, <2>1, OrphanGoto DEF PrewarmAdmit, PrewarmRun, PrewarmEnd, AwaitClosed
    <2> QED BY <1>2, <2>0, <2>1, OrphanEnsure DEF Prewarm
<1>3. ASSUME CloseLocked, \A a \in Actors : pc'[a] = "launch" => pc[a] = "launch"
      PROVE  OrphanInv'
    BY <1>3, OrphanMoves DEF CloseLocked, CloseBrowser, OrphanInv, NoOrphanChrome
<1>4. ASSUME NEW k \in Closers, Close(k) PROVE OrphanInv'
    <2>0. k \in Actors
        BY DEF Actors
    <2>1. CASE CloseFirst(k)
        BY <1>3, <2>0, <2>1 DEF CloseFirst, Goto, StateOK
    <2>2. CASE CloseAgain(k) \/ CloseFinish(k) \/ AwaitClosed(k)
        BY <2>0, <2>2, OrphanGoto DEF CloseAgain, CloseFinish, AwaitClosed
    <2> QED BY <1>4, <2>1, <2>2 DEF Close
<1>5. CASE ReapRelease
    BY <1>3, <1>5 DEF ReapRelease
<1>6. CASE ReapBlank \/ Environment \/ UNCHANGED vars
    BY <1>6, OrphanMoves DEF ReapBlank, Environment, Tick, ChromeDies, TabCloses,
       UserRestarts, vars
<1> QED BY <1>1, <1>2, <1>4, <1>5, <1>6 DEF Next

LEMMA OrphanInvariant == ASSUME ~ProbeTimesOut PROVE Spec => []OrphanInv
<1>1. Init => OrphanInv
    BY DEF Init, OrphanInv, NoOrphanChrome, LaunchFromNone
<1>2. TypeOK /\ MutexHeld /\ OrphanInv /\ [Next]_vars => OrphanInv'
    BY OrphanNext DEF TypeOK
<1> QED BY <1>1, <1>2, TypeCorrect, MutualExclusion, PTL DEF Spec

\* If no probe of a live Chrome times out, the only Chrome of the server that
\* runs is the one it holds, whatever dies, is recovered, relaunched or reaped.
THEOREM NoChromeLeaks == ASSUME ~ProbeTimesOut PROVE Spec => []NoOrphanChrome
<1>1. OrphanInv => NoOrphanChrome
    BY DEF OrphanInv
<1> QED BY <1>1, OrphanInvariant, PTL

\* After Close nothing is held, no hub runs and no Chrome of the server is left,
\* under the same assumption; what is held needs none (CloseInvariant).
THEOREM CloseReleasesAll == ASSUME ~ProbeTimesOut PROVE Spec => []NothingAfterClose
<1>1. TypeOK /\ CloseInv /\ OrphanInv => NothingAfterClose
    BY DEF TypeOK, StateOK, CloseInv, ClosedReleases, OrphanInv, NoOrphanChrome,
       NothingAfterClose
<1> QED BY <1>1, TypeCorrect, CloseInvariant, OrphanInvariant, PTL
-----------------------------------------------------------------------------
(***************************************************************************)
(* The bound page.  HeldInv relates the three handles the server keeps:    *)
(* the Chrome, the page and the cached handle.  A call that doubts its     *)
(* page, or runs on it, has one; the cached handle is lost only between a  *)
(* failed recovery and the teardown that follows it; without a page the    *)
(* cached handle is a target that is gone, so EnsureUnbound binds nothing  *)
(* that could miss the emulation.                                          *)
(***************************************************************************)
PageNeedsBrowser == page # NoTab => browser # NoChrome

HeldTabsInBrowser ==
    \A t \in {page, cached} : t \in open => home[t] = browser

UnboundIsGone == page = NoTab => cached \notin open

PageEmulated == page \in open /\ emulation # NoProfile => emu[page] = emulation

OnPage == {"recover", "teardown", "running"}

HolderHasPage == \A a \in Actors : pc[a] \in OnPage => page # NoTab

HandleKept ==
    browser # NoChrome =>
        cached # NoTab \/ \E a \in Actors : pc[a] = "teardown"

HeldInv ==
    /\ PageNeedsBrowser /\ HeldTabsInBrowser /\ UnboundIsGone
    /\ PageEmulated /\ HolderHasPage /\ HandleKept

\* A step of an actor that binds nothing and opens nothing.
LEMMA HeldStays ==
    ASSUME StateOK, HeldInv,
           UNCHANGED <<browser, page, cached, emulation, home, emu>>,
           open' \subseteq open,
           NEW a \in Actors, NEW label \in Labels, Goto(a, label),
           pc[a] # "teardown", label \in OnPage => page # NoTab
    PROVE  HeldInv'
<1>1. HolderHasPage'
    BY DEF HeldInv, HolderHasPage, Goto, StateOK
<1>2. HandleKept'
    BY DEF HeldInv, HandleKept, Goto, StateOK
<1> QED BY <1>1, <1>2 DEF HeldInv, PageNeedsBrowser, HeldTabsInBrowser,
           UnboundIsGone, PageEmulated

\* A step that binds target t of the held browser, in any way that leaves the
\* emulation in force on it.
LEMMA HeldBinds ==
    ASSUME StateOK, NEW t \in Tabs, page' = t, cached' = t,
           browser' # NoChrome, t \in open' => home'[t] = browser',
           t \in open' /\ emulation' # NoProfile => emu'[t] = emulation'
    PROVE  HeldInv'
BY DEF HeldInv, PageNeedsBrowser, HeldTabsInBrowser, UnboundIsGone,
       PageEmulated, HolderHasPage, HandleKept

\* The browser opens a target, which is then bound.
LEMMA HeldOpens ==
    ASSUME StateOK, NEW t \in Tabs, NEW b \in Chromes, OpenTab(t, b, FALSE),
           page' = t, cached' = t, browser' = b,
           emulation' = emulation, emu' = ReplayedFresh(t)
    PROVE  HeldInv'
<1>1. home'[t] = browser' /\ emu'[t] = emulation'
    BY DEF OpenTab, ReplayedFresh, StateOK
<1>2. browser' # NoChrome
    OBVIOUS
<1> QED BY <1>1, <1>2, HeldBinds

\* closeLocked, when no actor is on a page any more.
LEMMA HeldCloses ==
    ASSUME StateOK, HeldInv, CloseLocked,
           \A a \in Actors : pc'[a] \notin OnPage
    PROVE  HeldInv'
<1>1. browser' = NoChrome /\ page' = NoTab /\ cached' \notin open'
    <2>1. CASE browser = NoChrome
        BY <2>1 DEF CloseLocked, HeldInv, PageNeedsBrowser, UnboundIsGone
    <2>2. CASE browser # NoChrome
        BY <2>2, CloseLockedType DEF CloseLocked
    <2> QED BY <2>1, <2>2
<1>2. page' \notin open'
    BY <1>1, CloseLockedType
<1> QED BY <1>1, <1>2 DEF HeldInv, PageNeedsBrowser, HeldTabsInBrowser,
           UnboundIsGone, PageEmulated, HolderHasPage, HandleKept

\* The holder of the mutex is the only actor on the page.
LEMMA OnlyHolder ==
    ASSUME StateOK, MutexHeld
    PROVE  /\ lock = NoActor => \A a \in Actors : pc[a] \notin OnPage
           /\ \A a, b \in Actors : lock = a /\ pc[b] \in OnPage => b = a
BY DEF StateOK, MutexHeld, Critical, OnPage

LEMMA HeldEnsure ==
    ASSUME StateOK, MutexHeld, HeldInv, NEW a \in Actors, EnsurePage(a)
    PROVE  HeldInv'
<1> USE DEF Labels, AtRest, Release, OnPage, heldVars, envVars
<1>1. CASE EnsureClosed(a) \/ EnsureHeld(a) \/ EnsureTargetLost(a)
           \/ EnsureDead(a) \/ EnsureCold(a)
    BY <1>1, HeldStays DEF EnsureClosed, EnsureHeld, EnsureTargetLost,
       EnsureDead, EnsureCold, Ensuring
<1>2. CASE EnsureUnbound(a)
    <2>1. CASE InitScripts /\ cached \notin open
        BY <1>2, <2>1, HeldStays DEF EnsureUnbound, Ensuring
    <2>2. CASE ~(InitScripts /\ cached \notin open)
        <3>1. page' = cached /\ cached \notin open /\ browser # NoChrome
            BY <1>2, <2>2 DEF EnsureUnbound, HeldInv, UnboundIsGone
        <3>2. cached # NoTab
            BY <1>2 DEF EnsureUnbound, HeldInv, HolderHasPage, HandleKept
        <3> QED BY <1>2, <3>1, <3>2
                DEF EnsureUnbound, HeldInv, PageNeedsBrowser, HeldTabsInBrowser,
                    UnboundIsGone, PageEmulated, HolderHasPage, HandleKept
    <2> QED BY <2>1, <2>2
<1>3. CASE Recover(a)
    <2>1. PICK t \in Tabs : Recover(a)!3!(t)
        BY <1>3 DEF Recover
    <2>2. browser \in Chromes
        BY <1>3 DEF StateOK, Recover
    <2> QED BY <1>3, <2>1, <2>2, HeldOpens DEF Recover, BindPage
<1>4. CASE RecoverCached(a)
    <2>1. cached \in Tabs /\ browser # NoChrome /\ home[cached] = browser
        BY <1>4 DEF RecoverCached, StateOK, HeldInv, HeldTabsInBrowser
    <2>2. emulation # NoProfile => emu'[cached] = emulation
        BY <1>4, <2>1 DEF RecoverCached, Replayed, StateOK
    <2> QED BY <1>4, <2>1, <2>2, HeldBinds DEF RecoverCached, BindPage
<1>5. CASE RecoverFails(a)
    <2>1. page # NoTab /\ NoTab \notin open
        BY <1>5 DEF RecoverFails, HeldInv, HolderHasPage, StateOK
    <2>2. pc' = [pc EXCEPT ![a] = "teardown"]
        BY <1>5 DEF RecoverFails, Goto
    <2>3. HandleKept' /\ HolderHasPage'
        BY <1>5, <2>1, <2>2 DEF RecoverFails, HandleKept, HolderHasPage, StateOK
    <2> QED BY <1>5, <2>1, <2>3
            DEF RecoverFails, HeldInv, PageNeedsBrowser, HeldTabsInBrowser,
                UnboundIsGone, PageEmulated
<1>6. CASE Teardown(a)
    <2>1. \A b \in Actors : pc'[b] \notin OnPage
        BY <1>6, OnlyHolder DEF Teardown, Goto, StateOK
    <2> QED BY <1>6, <2>1, HeldCloses DEF Teardown
<1>7. CASE Launch(a)
    <2>1. PICK b \in Chromes, t \in Tabs : Launch(a)!2!(b, t)
        BY <1>7 DEF Launch
    <2> QED BY <1>7, <2>1, HeldOpens DEF Launch, BindPage
<1>8. CASE LaunchFails(a)
    BY <1>8, HeldStays DEF LaunchFails
<1> QED BY <1>1, <1>2, <1>3, <1>4, <1>5, <1>6, <1>7, <1>8 DEF EnsurePage

LEMMA HeldOp ==
    ASSUME StateOK, MutexHeld, HeldInv, NEW c \in Clients, Op(c)
    PROVE  HeldInv'
<1> USE DEF Labels, Running, OnPage, heldVars, envVars
<1>0. /\ c \in Actors /\ lock = c /\ pc[c] = "running" /\ Goto(c, AtRest(c))
      /\ AtRest(c) \in {"idle", "done"}
      /\ browser \in Chromes /\ page # NoTab
    <2>1. c \in Actors /\ lock = c /\ pc[c] = "running" /\ Goto(c, AtRest(c))
        BY DEF Actors, Op, OpExtract, OpClickPopup, OpClickPopupLost, OpSwitch,
           OpNew, OpCloseOther, OpCloseCurrent, OpCloseLast, OpEmulate,
           OpEmulateReset, OpOther, Return, Release
    <2> QED BY <2>1 DEF HeldInv, HolderHasPage, PageNeedsBrowser, StateOK, AtRest
<1>1. HandleKept /\ cached # NoTab
    BY <1>0, OnlyHolder DEF HeldInv, HandleKept
<1>2. \A b \in Actors : pc'[b] \notin OnPage
    BY <1>0, OnlyHolder DEF Goto, StateOK
<1>3. CASE OpExtract(c)
    <2>1. cached' \in {page, cached}
        BY <1>3 DEF OpExtract
    <2> QED BY <1>0, <1>1, <1>2, <1>3, <2>1
            DEF OpExtract, HeldInv, PageNeedsBrowser, HeldTabsInBrowser,
                UnboundIsGone, PageEmulated, HolderHasPage, HandleKept
<1>4. CASE OpClickPopup(c)
    <2>1. PICK t \in Tabs : OpClickPopup(c)!2!(t)
        BY <1>4 DEF OpClickPopup
    <2> QED BY <1>0, <1>4, <2>1, HeldOpens DEF OpClickPopup
<1>5. CASE OpClickPopupLost(c)
    <2>1. PICK t \in Tabs : OpClickPopupLost(c)!3!(t)
        BY <1>5 DEF OpClickPopupLost
    <2>2. t # page /\ t # cached /\ t # NoTab
        BY <2>1 DEF FreshTab
    <2>3. cached' \in {cached, t} /\ home'[t] = browser
        BY <2>1 DEF OpenTab, StateOK
    <2>4. /\ page \in open' => page \in open
          /\ cached \in open' => cached \in open
          /\ \A u \in {page, cached} : u \in open => home'[u] = home[u]
          /\ page \in open => emu'[page] = emu[page]
        BY <2>1, <2>2 DEF OpenTab, StateOK
    <2> QED BY <1>0, <1>1, <1>2, <1>5, <2>2, <2>3, <2>4
            DEF OpClickPopupLost, HeldInv, PageNeedsBrowser, HeldTabsInBrowser,
                UnboundIsGone, PageEmulated, HolderHasPage, HandleKept
<1>6. CASE OpSwitch(c)
    <2>1. PICK t \in TabsOf(browser) : OpSwitch(c)!2!(t)
        BY <1>6 DEF OpSwitch
    <2>2. t \in Tabs /\ t \in open /\ home[t] = browser
        BY DEF TabsOf, StateOK
    <2>3. emulation # NoProfile => emu'[t] = emulation
        BY <2>1, <2>2 DEF Adopt, Replayed, StateOK, HeldInv, PageEmulated
    <2> QED BY <1>0, <1>6, <2>1, <2>2, <2>3, HeldBinds DEF OpSwitch, Adopt
<1>7. CASE OpNew(c)
    <2>1. PICK t \in Tabs : OpNew(c)!2!(t)
        BY <1>7 DEF OpNew
    <2> QED BY <1>0, <1>7, <2>1, HeldOpens DEF OpNew
<1>8. CASE OpCloseOther(c) \/ OpOther(c)
    BY <1>0, <1>8, HeldStays DEF OpCloseOther, OpOther
<1>9. CASE OpCloseCurrent(c)
    <2>1. PICK t \in TabsOf(browser) \ {page} : OpCloseCurrent(c)!4!(t)
        BY <1>9 DEF OpCloseCurrent
    <2>2. t \in Tabs /\ home[t] = browser
        BY DEF TabsOf, StateOK
    <2>3. emulation # NoProfile => emu'[t] = emulation
        BY <2>1, <2>2 DEF Adopt, Replayed, StateOK
    <2> QED BY <1>0, <1>9, <2>1, <2>2, <2>3, HeldBinds DEF OpCloseCurrent, Adopt
<1>10. CASE OpCloseLast(c)
    <2>1. cached' \notin open' /\ page' = NoTab /\ page' \notin open'
        BY <1>10 DEF OpCloseLast, HeldInv, HeldTabsInBrowser, TabsOf, StateOK
    <2> QED BY <1>0, <1>1, <1>2, <1>10, <2>1
            DEF OpCloseLast, HeldInv, PageNeedsBrowser, HeldTabsInBrowser,
                UnboundIsGone, PageEmulated, HolderHasPage, HandleKept
<1>11. CASE OpEmulate(c) \/ OpEmulateReset(c)
    <2>1. emulation' # NoProfile => emu'[page] = emulation'
        BY <1>11 DEF OpEmulate, OpEmulateReset, StateOK
    <2> QED BY <1>0, <1>1, <1>2, <1>11, <2>1
            DEF OpEmulate, OpEmulateReset, HeldInv, PageNeedsBrowser,
                HeldTabsInBrowser, UnboundIsGone, PageEmulated, HolderHasPage,
                HandleKept
<1> QED BY <1>3, <1>4, <1>5, <1>6, <1>7, <1>8, <1>9, <1>10, <1>11 DEF Op

LEMMA HeldNext == StateOK /\ MutexHeld /\ HeldInv /\ [Next]_vars => HeldInv'
<1> SUFFICES ASSUME StateOK, MutexHeld, HeldInv, [Next]_vars PROVE HeldInv'
    OBVIOUS
<1> USE DEF Labels, AtRest, Release, OnPage, ctlVars, heldVars, envVars
<1>1. ASSUME NEW c \in Clients, Arrive(c) \/ ToolCall(c) PROVE HeldInv'
    <2>0. c \in Actors
        BY DEF Actors
    <2>1. CASE Arrive(c) \/ Cancelled(c) \/ Acquire(c)
        BY <2>0, <2>1, HeldStays DEF Arrive, Cancelled, Acquire
    <2> QED BY <1>1, <2>0, <2>1, HeldEnsure, HeldOp DEF ToolCall
<1>2. ASSUME NEW p \in Prewarmers, Prewarm(p) PROVE HeldInv'
    <2>0. p \in Actors
        BY DEF Actors
    <2>1. CASE PrewarmAdmit(p) \/ PrewarmRun(p) \/ PrewarmEnd(p) \/ AwaitClosed(p)
        BY <2>0, <2>1, HeldStays
           DEF PrewarmAdmit, PrewarmRun, PrewarmEnd, AwaitClosed
    <2> QED BY <1>2, <2>0, <2>1, HeldEnsure DEF Prewarm
<1>3. ASSUME NEW k \in Closers, Close(k) PROVE HeldInv'
    <2>0. k \in Actors
        BY DEF Actors
    <2>1. CASE CloseFirst(k)
        <3>1. \A b \in Actors : pc'[b] \notin OnPage
            BY <2>0, <2>1, OnlyHolder DEF CloseFirst, Goto, StateOK
        <3> QED BY <2>1, <3>1, HeldCloses DEF CloseFirst
    <2>2. CASE CloseAgain(k) \/ CloseFinish(k) \/ AwaitClosed(k)
        BY <2>0, <2>2, HeldStays DEF CloseAgain, CloseFinish, AwaitClosed
    <2> QED BY <1>3, <2>1, <2>2 DEF Close
<1>4. CASE ReapRelease
    BY <1>4, OnlyHolder, HeldCloses DEF ReapRelease
<1>5. ASSUME UNCHANGED <<pc, browser, page, cached, emulation, home, emu>>,
             open' \subseteq open
      PROVE  HeldInv'
    BY <1>5 DEF HeldInv, PageNeedsBrowser, HeldTabsInBrowser, UnboundIsGone,
       PageEmulated, HolderHasPage, HandleKept
<1>6. CASE UserRestarts
    <2>1. PICK t \in Tabs : UserRestarts!3!(t)
        BY <1>6 DEF UserRestarts
    <2>2. /\ \A u \in {page, cached} : u \in open' => u \in open
          /\ \A u \in {page, cached} : u \in open => home'[u] = home[u]
          /\ page \in open => emu'[page] = emu[page]
        BY <2>1 DEF OpenTab, FreshTab, StateOK
    <2> QED BY <1>6, <2>2
            DEF UserRestarts, HeldInv, PageNeedsBrowser, HeldTabsInBrowser,
                UnboundIsGone, PageEmulated, HolderHasPage, HandleKept
<1>7. CASE ReapBlank \/ Environment \/ UNCHANGED vars
    BY <1>5, <1>6, <1>7 DEF ReapBlank, Environment, Tick, ChromeDies, TabCloses, vars
<1> QED BY <1>1, <1>2, <1>3, <1>4, <1>7 DEF Next

LEMMA HeldInvariant == Spec => []HeldInv
<1>1. Init => HeldInv
    <2> SUFFICES ASSUME Init PROVE HeldInv
        OBVIOUS
    <2>1. open \subseteq Tabs
        BY TypeInit DEF TypeOK, StateOK
    <2> QED BY <2>1 DEF Init, HeldInv, PageNeedsBrowser, HeldTabsInBrowser,
               UnboundIsGone, PageEmulated, HolderHasPage, OnPage, HandleKept
<1>2. TypeOK /\ MutexHeld /\ HeldInv /\ [Next]_vars => HeldInv'
    BY HeldNext DEF TypeOK
<1> QED BY <1>1, <1>2, TypeCorrect, MutualExclusion, PTL DEF Spec

\* A tool that runs on an open page under an emulate profile has it in force,
\* after any crash, recovery, relaunch, switch, popup or adopted tab.
THEOREM EmulationIsReplayed == Spec => []EmulationReplayed
<1>1. HeldInv => EmulationReplayed
    BY DEF HeldInv, PageEmulated, EmulationReplayed
<1> QED BY <1>1, HeldInvariant, PTL

\* The page the server acts on is never a target of another Chrome than the
\* one it holds, so no stale handle survives a relaunch.
THEOREM PageIsOfHeldBrowser == Spec => []PageOfHeldBrowser
<1>1. HeldInv => PageOfHeldBrowser
    BY DEF HeldInv, PageNeedsBrowser, HeldTabsInBrowser, PageOfHeldBrowser
<1> QED BY <1>1, HeldInvariant, PTL

\* The promises of a server attached to a Chrome of the user, for every number
\* of callers and tabs, and however late a probe answers.
THEOREM AttachedIsSafe == ASSUME Attached PROVE Spec => []AttachedHolds
<1>1. CloseInv => NothingAfterClose
    BY DEF CloseInv, ClosedReleases, NothingAfterClose
<1>2. TypeOK /\ NothingAfterClose /\ EmulationReplayed => AttachedHolds
    BY DEF AttachedHolds
<1> QED BY <1>1, <1>2, TypeCorrect, CloseInvariant, EmulationIsReplayed, PTL
-----------------------------------------------------------------------------
(***************************************************************************)
(* The refs.  Without init scripts no adoption fails, and the ref table is *)
(* of the page or empty; it is empty while the page is blanked, which only *)
(* the reaper does, when nobody is past the closed check, and which every  *)
(* way past it ends.                                                       *)
(***************************************************************************)
RefsOfPage == refs \in {NoTab, page}

BlankedIsQuiet ==
    blanked => refs = NoTab /\ \A a \in Actors : pc[a] \notin PastCheck

LaunchHasNoRefs == \A a \in Actors : pc[a] = "launch" => refs = NoTab

RefsInv == RefsOfPage /\ BlankedIsQuiet /\ LaunchHasNoRefs

\* A step that keeps the page and the refs.
LEMMA RefsStay ==
    ASSUME StateOK, RefsInv, UNCHANGED <<page, refs>>,
           NEW a \in Actors, NEW label \in Labels, Goto(a, label),
           label = "launch" => refs = NoTab,
           \/ ~blanked'
           \/ blanked' = blanked /\ (label \in PastCheck => pc[a] \in PastCheck)
    PROVE  RefsInv'
<1>1. BlankedIsQuiet'
    BY DEF RefsInv, BlankedIsQuiet, Goto, StateOK
<1>2. LaunchHasNoRefs'
    BY DEF RefsInv, LaunchHasNoRefs, Goto, StateOK
<1> QED BY <1>1, <1>2 DEF RefsInv, RefsOfPage

\* A step of the holder past the closed check: the page is not blanked, and
\* nobody else is about to launch.
LEMMA RefsMove ==
    ASSUME StateOK, MutexHeld, RefsInv,
           NEW a \in Actors, pc[a] \in PastCheck, lock = a,
           NEW label \in Labels, Goto(a, label),
           label = "launch" => refs' = NoTab,
           blanked' = FALSE \/ blanked' = blanked, refs' \in {NoTab, page'}
    PROVE  RefsInv'
<1>1. ~blanked'
    BY DEF RefsInv, BlankedIsQuiet
<1>2. LaunchHasNoRefs'
    BY DEF LaunchHasNoRefs, MutexHeld, Critical, Goto, StateOK
<1> QED BY <1>1, <1>2 DEF RefsInv, RefsOfPage, BlankedIsQuiet

LEMMA RefsEnsure ==
    ASSUME StateOK, MutexHeld, HeldInv, RefsInv, NEW a \in Actors, EnsurePage(a)
    PROVE  RefsInv'
<1> USE DEF Labels, AtRest, Release, PastCheck, Stamp, heldVars, clockVars
<1>1. CASE EnsureClosed(a) \/ EnsureHeld(a) \/ EnsureTargetLost(a)
           \/ EnsureDead(a) \/ EnsureCold(a)
    BY <1>1, RefsStay DEF EnsureClosed, EnsureHeld, EnsureTargetLost,
       EnsureDead, EnsureCold, RefsInv, RefsOfPage
<1>2. CASE EnsureUnbound(a)
    <2>1. refs = NoTab /\ refs' = NoTab /\ ~blanked'
        BY <1>2 DEF EnsureUnbound, RefsInv, RefsOfPage
    <2> QED BY <2>1 DEF RefsInv, RefsOfPage, BlankedIsQuiet, LaunchHasNoRefs
<1>3. CASE Recover(a) \/ RecoverCached(a) \/ RecoverFails(a)
    BY <1>3, RefsMove DEF Recover, RecoverCached, RecoverFails, BindPage,
       RefsInv, RefsOfPage
<1>4. CASE Teardown(a)
    <2>1. refs' = NoTab
        BY <1>4 DEF Teardown, CloseLocked, HeldInv, PageNeedsBrowser, RefsInv,
           RefsOfPage
    <2> QED BY <1>4, <2>1, RefsMove DEF Teardown
<1>5. CASE Launch(a)
    BY <1>5, RefsMove DEF Launch, RefsInv, LaunchHasNoRefs
<1>6. CASE LaunchFails(a)
    BY <1>6, RefsStay DEF LaunchFails
<1> QED BY <1>1, <1>2, <1>3, <1>4, <1>5, <1>6 DEF EnsurePage

LEMMA RefsOp ==
    ASSUME ~InitScripts, StateOK, MutexHeld, RefsInv, NEW c \in Clients, Op(c)
    PROVE  RefsInv'
<1> USE DEF Op, OpExtract, OpClickPopup, OpClickPopupLost, OpSwitch, OpNew,
        OpCloseOther, OpCloseCurrent, OpCloseLast, OpEmulate, OpEmulateReset,
        OpOther, Running, Return, Release
<1>1. /\ c \in Actors /\ pc[c] \in PastCheck /\ lock = c
      /\ Goto(c, AtRest(c)) /\ blanked' = blanked
    BY DEF Actors, PastCheck
<1>2. AtRest(c) \in Labels \ {"launch"}
    BY DEF AtRest, Labels
<1>3. refs' \in {NoTab, page'}
    BY DEF RefsInv, RefsOfPage, Adopt, heldVars
<1> QED BY <1>1, <1>2, <1>3, RefsMove

LEMMA RefsNext ==
    ASSUME ~InitScripts
    PROVE  StateOK /\ MutexHeld /\ HeldInv /\ RefsInv /\ [Next]_vars => RefsInv'
<1> SUFFICES ASSUME StateOK, MutexHeld, HeldInv, RefsInv, [Next]_vars
             PROVE  RefsInv'
    OBVIOUS
<1> USE DEF Labels, AtRest, Release, PastCheck, ctlVars, heldVars, clockVars
<1>1. ASSUME NEW c \in Clients, Arrive(c) \/ ToolCall(c) PROVE RefsInv'
    <2>0. c \in Actors
        BY DEF Actors
    <2>1. CASE Arrive(c) \/ Cancelled(c) \/ Acquire(c)
        BY <2>0, <2>1, RefsStay DEF Arrive, Cancelled, Acquire
    <2> QED BY <1>1, <2>0, <2>1, RefsEnsure, RefsOp DEF ToolCall
<1>2. ASSUME NEW p \in Prewarmers, Prewarm(p) PROVE RefsInv'
    <2>0. p \in Actors
        BY DEF Actors
    <2>1. CASE PrewarmAdmit(p) \/ PrewarmRun(p) \/ PrewarmEnd(p) \/ AwaitClosed(p)
        BY <2>0, <2>1, RefsStay
           DEF PrewarmAdmit, PrewarmRun, PrewarmEnd, AwaitClosed
    <2> QED BY <1>2, <2>0, <2>1, RefsEnsure DEF Prewarm
<1>3. CloseLocked => refs' = NoTab
    BY DEF CloseLocked, HeldInv, PageNeedsBrowser, RefsInv, RefsOfPage
<1>4. ASSUME NEW k \in Closers, Close(k) PROVE RefsInv'
    <2>0. k \in Actors
        BY DEF Actors
    <2>1. CASE CloseFirst(k)
        BY <1>3, <2>0, <2>1 DEF CloseFirst, Goto, StateOK, RefsInv, RefsOfPage,
           BlankedIsQuiet, LaunchHasNoRefs
    <2>2. CASE CloseAgain(k) \/ CloseFinish(k) \/ AwaitClosed(k)
        BY <2>0, <2>2, RefsStay DEF CloseAgain, CloseFinish, AwaitClosed
    <2> QED BY <1>4, <2>1, <2>2 DEF Close
<1>5. CASE ReapRelease
    BY <1>3, <1>5 DEF ReapRelease, RefsInv, RefsOfPage, BlankedIsQuiet,
       LaunchHasNoRefs
<1>6. CASE ReapBlank
    <2>1. \A a \in Actors : pc[a] \notin PastCheck
        BY <1>6 DEF ReapBlank, MutexHeld, Critical, StateOK
    <2> QED BY <1>6, <2>1 DEF ReapBlank, RefsInv, RefsOfPage, BlankedIsQuiet,
               LaunchHasNoRefs
<1>7. CASE UNCHANGED <<pc, page, refs, blanked>>
    BY <1>7 DEF RefsInv, RefsOfPage, BlankedIsQuiet, LaunchHasNoRefs
<1>8. CASE Environment \/ UNCHANGED vars
    BY <1>7, <1>8 DEF Environment, Tick, ChromeDies, TabCloses, UserRestarts, vars
<1> QED BY <1>1, <1>2, <1>4, <1>5, <1>6, <1>8 DEF Next

LEMMA RefsInvariant == ASSUME ~InitScripts PROVE Spec => []RefsInv
<1>1. Init => RefsInv
    BY DEF Init, RefsInv, RefsOfPage, BlankedIsQuiet, LaunchHasNoRefs
<1>2. TypeOK /\ MutexHeld /\ HeldInv /\ RefsInv /\ [Next]_vars => RefsInv'
    BY RefsNext DEF TypeOK
<1> QED BY <1>1, <1>2, TypeCorrect, MutualExclusion, HeldInvariant, PTL DEF Spec

\* When no init script can make an adoption fail, owned or attached: the refs
\* an op resolves were taken on the page it acts on, none survives blanking,
\* and a Chrome held without a page still has its cached handle.
THEOREM PageStaysBound == ASSUME ~InitScripts PROVE Spec => []BoundPageHolds
<1>1. HeldInv => UnboundHasCachedPage
    BY DEF HeldInv, HandleKept, HolderHasPage, OnPage, UnboundHasCachedPage
<1>2. RefsInv => RefsBelongToPage /\ BlankedRefsDropped
    BY DEF RefsInv, RefsOfPage, BlankedIsQuiet, RefsBelongToPage, RefsInForce,
       BlankedRefsDropped
<1>3. HeldInv /\ RefsInv => BoundPageHolds
    BY <1>1, <1>2 DEF BoundPageHolds
<1> QED BY <1>3, HeldInvariant, RefsInvariant, PTL
=============================================================================
