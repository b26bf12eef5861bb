---------------------------- MODULE SessionState ----------------------------
(***************************************************************************)
(* The session state file of internal/core/engine/session_state.go and the *)
(* Browser methods of browser.go and tab_gc.go that edit it.               *)
(*                                                                         *)
(* A process (one CLI command, an MCP server, a StopSession) loads the     *)
(* file once, edits its copy, and saves after every edit: under a flock it *)
(* reads the file again, applies the cells it has changed since its        *)
(* baseline (a three-way merge) and renames a new file into place.  It may *)
(* be killed at any step.                                                  *)
(*                                                                         *)
(* A cell is a top-level field, or one target's entry of "snapshots",      *)
(* which is what mergeSessionFields compares.  An absent key is NoValue.   *)
(***************************************************************************)
EXTENDS Naturals

CONSTANTS
    Procs,       \* processes that use the session
    Targets,     \* target ids; Chrome never gives one out twice
    UserTabs,    \* the targets of the user's own tabs
    PlainFields, \* fields a caller sets as a whole: emulation, browser_trace, ...
    Values,      \* contents of a plain field, a video state or a snapshot
    NoValue, NoProc,
    CloseCanFail,\* Target.closeTarget may fail on a tab that is open
    MaxEdits     \* bound: edits in a behaviour

Fields == PlainFields \union {"current", "owned", "video"}
Cells == Fields \union Targets

ASSUME SessionStateAssumption ==
    /\ Fields \intersect Targets = {} /\ UserTabs \subseteq Targets
    /\ {"current", "owned", "video"} \intersect PlainFields = {}
    /\ NoValue \notin Values \union Targets
    /\ \A v \in Values \union {NoValue} : NoValue # <<v>>
    /\ NoProc \notin Procs
    /\ CloseCanFail \in BOOLEAN /\ MaxEdits \in Nat

VARIABLES
    disk,    \* the state file
    mem,     \* each process's sessionState
    base,    \* each process's sessionState.baseline
    latest,  \* what a save has read under the lock
    undo,    \* SetVideoState's `previous`, or NoValue
    pc,      \* where each process is
    lock,    \* the flock of the file
    intent,  \* ghost: cells set since the last successful save
    tabs,    \* the tabs that are open
    mine,    \* ghost: tabs ownedPage has created
    recorded,\* ghost: tabs of mine whose save has succeeded
    edits    \* number of edits so far

procVars == <<mem, base, latest, undo, pc, intent>>
tabVars  == <<tabs, mine, recorded>>
vars     == <<disk, procVars, lock, tabVars, edits>>

-----------------------------------------------------------------------------
Blank == [c \in Cells |-> NoValue]

\* The ids of a list-valued field: an absent list is empty.
Ids(v) == IF v = NoValue THEN {} ELSE v

\* A snapshot with its cached extraction, or without it.
Snapshot(v, cached) == <<v, cached>>

\* Mutant: the whole copy is written, untouched cells included.
MergeAll(newest, before, after) == after

\* mergeSessionFields: cells that differ from the baseline replace the latest.
Merge(newest, before, after) ==
    [c \in Cells |-> IF before[c] = after[c] THEN newest[c] ELSE after[c]]

Changed(p) == {c \in Cells : mem[p][c] # base[p][c]}

\* What a save of p writes.
Merged(p) == Merge(latest[p], base[p], mem[p])

\* Process p sets some cells of its copy and goes on to save them.
Assign(p, cells, copy) ==
    /\ pc[p] = "idle" /\ edits < MaxEdits
    /\ mem' = [mem EXCEPT ![p] = copy]
    /\ intent' = [intent EXCEPT ![p] = @ \union cells]
    /\ pc' = [pc EXCEPT ![p] = "want"]
    /\ edits' = edits + 1
    /\ UNCHANGED <<disk, base, latest, lock>>

-----------------------------------------------------------------------------
Init ==
    /\ disk = Blank
    /\ mem = [p \in Procs |-> Blank]
    /\ base = [p \in Procs |-> Blank]
    /\ latest = [p \in Procs |-> Blank]
    /\ undo = [p \in Procs |-> NoValue]
    /\ pc = [p \in Procs |-> "off"]
    /\ lock = NoProc
    /\ intent = [p \in Procs |-> {}]
    /\ tabs = UserTabs /\ mine = {} /\ recorded = {}
    /\ edits = 0

\* loadSessionState when a Browser is made: no lock is taken.
Open(p) ==
    /\ pc[p] = "off"
    /\ mem' = [mem EXCEPT ![p] = disk]
    /\ base' = [base EXCEPT ![p] = disk]
    /\ pc' = [pc EXCEPT ![p] = "idle"]
    /\ UNCHANGED <<disk, latest, undo, lock, intent, tabVars, edits>>

(***************************************************************************)
(* Edits                                                                   *)
(***************************************************************************)

\* setCurrentTargetID
SetCurrent(p) ==
    /\ \E t \in tabs : Assign(p, {"current"}, [mem[p] EXCEPT !["current"] = t])
    /\ UNCHANGED <<undo, tabVars>>

\* SaveSnapshot
SaveSnapshot(p) ==
    /\ \E t \in tabs, v \in Values :
        Assign(p, {"current", t}, [mem[p] EXCEPT !["current"] = t,
                                                 ![t] = Snapshot(v, TRUE)])
    /\ UNCHANGED <<undo, tabVars>>

\* InvalidateCachedExtract: the refs stay.
InvalidateCachedExtract(p) ==
    /\ \E t \in tabs, v \in Values :
        /\ mem[p][t] = Snapshot(v, TRUE)
        /\ Assign(p, {t}, [mem[p] EXCEPT ![t] = Snapshot(v, FALSE)])
    /\ UNCHANGED <<undo, tabVars>>

\* deleteSnapshot
DeleteSnapshot(p) ==
    /\ \E t \in Targets :
        LET wasCurrent == mem[p]["current"] = t
        IN  Assign(p, IF wasCurrent THEN {"current", t} ELSE {t},
                   [mem[p] EXCEPT !["current"] = IF wasCurrent THEN NoValue ELSE @,
                                  ![t] = NoValue])
    /\ UNCHANGED <<undo, tabVars>>

\* SetEmulationState, SetBrowserTraceState, and the console and network logs.
SetField(p) ==
    /\ \E f \in PlainFields, v \in Values \union {NoValue} :
        Assign(p, {f}, [mem[p] EXCEPT ![f] = v])
    /\ UNCHANGED <<undo, tabVars>>

\* SetVideoState: a save that fails takes the edit back.
SetVideo(p) ==
    /\ \E v \in Values \union {NoValue} :
        /\ v # mem[p]["video"]
        /\ Assign(p, {"video"}, [mem[p] EXCEPT !["video"] = v])
    /\ undo' = [undo EXCEPT ![p] = <<mem[p]["video"]>>]
    /\ UNCHANGED tabVars

\* ownedPage when it has no tab to reuse: pruneOwned drops closed targets.
OwnTab(p) ==
    /\ ~(mem[p]["current"] \in Ids(mem[p]["owned"]) \intersect tabs)
    /\ \E t \in Targets \ (UserTabs \union mine) :
        /\ tabs' = tabs \union {t} /\ mine' = mine \union {t}
        /\ Assign(p, {"current", "owned"},
                  [mem[p] EXCEPT !["current"] = t,
                                 !["owned"] = (Ids(@) \union {t}) \intersect tabs'])
    /\ UNCHANGED <<undo, recorded>>

\* CloseOwnedTabs: the recorded tabs are closed and forgotten, whether or not
\* the close succeeds.
CloseOwnedTabs(p) ==
    /\ LET ids == Ids(mem[p]["owned"])
           gone == mem[p]["current"] \in ids
       IN  /\ ids # {}
           /\ \E failed \in IF CloseCanFail THEN SUBSET ids ELSE {{}} :
                tabs' = tabs \ (ids \ failed)
           /\ Assign(p, ids \union (IF gone THEN {"current", "owned"} ELSE {"owned"}),
                [c \in Cells |-> IF c \in ids \/ c = "owned" \/ (gone /\ c = "current")
                                   THEN NoValue ELSE mem[p][c]])
    /\ UNCHANGED <<undo, mine, recorded>>

(***************************************************************************)
(* saveSessionState                                                        *)
(***************************************************************************)
\* Mutant: no flock.
SaveLockFree(p) ==
    /\ pc[p] = "want"
    /\ lock' = p
    /\ pc' = [pc EXCEPT ![p] = "load"]
    /\ UNCHANGED <<disk, mem, base, latest, undo, intent, tabVars, edits>>

SaveLock(p) ==
    /\ pc[p] = "want" /\ lock = NoProc
    /\ lock' = p
    /\ pc' = [pc EXCEPT ![p] = "load"]
    /\ UNCHANGED <<disk, mem, base, latest, undo, intent, tabVars, edits>>

SaveLoad(p) ==
    /\ pc[p] = "load"
    /\ latest' = [latest EXCEPT ![p] = disk]
    /\ pc' = [pc EXCEPT ![p] = "write"]
    /\ UNCHANGED <<disk, mem, base, undo, lock, intent, tabVars, edits>>

\* writeSessionState: a temporary file renamed over the old one.
SaveRename(p) ==
    /\ pc[p] = "write"
    /\ disk' = Merged(p)
    /\ pc' = [pc EXCEPT ![p] = "written"]
    /\ UNCHANGED <<mem, base, latest, undo, lock, intent, tabVars, edits>>

\* *state = next: the process now sees what the others have saved.
SaveReturn(p) ==
    /\ pc[p] = "written" /\ lock = p
    /\ mem' = [mem EXCEPT ![p] = Merged(p)]
    /\ base' = [base EXCEPT ![p] = Merged(p)]
    /\ undo' = [undo EXCEPT ![p] = NoValue]
    /\ intent' = [intent EXCEPT ![p] = {}]
    /\ recorded' = recorded \union (Ids(mem[p]["owned"]) \intersect mine)
    /\ latest' = [latest EXCEPT ![p] = Blank]
    /\ lock' = NoProc
    /\ pc' = [pc EXCEPT ![p] = "idle"]
    /\ UNCHANGED <<disk, tabs, mine, edits>>

\* Mutant: a failed save keeps the video state.
SaveFailsAhead(p) ==
    /\ pc[p] \in {"want", "load", "write"}
    /\ undo' = [undo EXCEPT ![p] = NoValue]
    /\ lock' = IF lock = p THEN NoProc ELSE lock
    /\ pc' = [pc EXCEPT ![p] = "idle"]
    /\ latest' = [latest EXCEPT ![p] = Blank]
    /\ UNCHANGED <<disk, mem, base, intent, tabVars, edits>>

\* The flock, the read or the write fails.  The edit stays in memory, except
\* a video state.
SaveFails(p) ==
    /\ pc[p] \in {"want", "load", "write"}
    /\ mem' = [mem EXCEPT ![p]["video"] = IF undo[p] = NoValue THEN @ ELSE undo[p][1]]
    /\ undo' = [undo EXCEPT ![p] = NoValue]
    /\ lock' = IF lock = p THEN NoProc ELSE lock
    /\ pc' = [pc EXCEPT ![p] = "idle"]
    /\ latest' = [latest EXCEPT ![p] = Blank]
    /\ UNCHANGED <<disk, base, intent, tabVars, edits>>

\* The process ends or is killed; the kernel drops its flock.
Exit(p) ==
    /\ pc[p] # "off"
    /\ mem' = [mem EXCEPT ![p] = Blank]
    /\ base' = [base EXCEPT ![p] = Blank]
    /\ undo' = [undo EXCEPT ![p] = NoValue]
    /\ intent' = [intent EXCEPT ![p] = {}]
    /\ lock' = IF lock = p THEN NoProc ELSE lock
    /\ pc' = [pc EXCEPT ![p] = "off"]
    /\ latest' = [latest EXCEPT ![p] = Blank]
    /\ UNCHANGED <<disk, tabVars, edits>>

\* The user, or the page itself, closes a tab.
TabCloses(t) ==
    /\ t \in tabs
    /\ tabs' = tabs \ {t}
    /\ UNCHANGED <<disk, procVars, lock, mine, recorded, edits>>

-----------------------------------------------------------------------------
EditState(p) ==
    \/ SetCurrent(p) \/ SaveSnapshot(p) \/ InvalidateCachedExtract(p)
    \/ DeleteSnapshot(p) \/ SetField(p) \/ SetVideo(p)
    \/ OwnTab(p) \/ CloseOwnedTabs(p)

Save(p) ==
    \/ SaveLock(p) \/ SaveLoad(p) \/ SaveRename(p) \/ SaveReturn(p) \/ SaveFails(p)

Next ==
    \/ \E p \in Procs : Open(p) \/ EditState(p) \/ Save(p) \/ Exit(p)
    \/ \E t \in Targets : TabCloses(t)

Spec == Init /\ [][Next]_vars

-----------------------------------------------------------------------------
(***************************************************************************)
(* Properties                                                              *)
(***************************************************************************)
ProcLabels == {"off", "idle", "want", "load", "write", "written"}

\* What a cell may hold.
CellOK(c, v) ==
    \/ v = NoValue
    \/ c = "current" /\ v \in Targets
    \/ c = "owned" /\ v \subseteq Targets
    \/ c \in PlainFields \union {"video"} /\ v \in Values
    \/ c \in Targets /\ v \in Values \X BOOLEAN

\* Every variable has its type, and every cell of every copy.
TypeOK ==
    /\ pc \in [Procs -> ProcLabels]
    /\ lock \in Procs \union {NoProc}
    /\ \A c \in Cells : CellOK(c, disk[c])
    /\ \A p \in Procs, c \in Cells :
        CellOK(c, mem[p][c]) /\ CellOK(c, base[p][c]) /\ CellOK(c, latest[p][c])
    /\ \A p \in Procs : intent[p] \subseteq Cells
    /\ tabs \subseteq Targets /\ recorded \subseteq mine /\ mine \subseteq Targets
    /\ edits \in 0..MaxEdits

\* Between its read and its rename a save works on the file as it is: no other
\* process gets in between (the flock of saveSessionState).
LatestIsCurrent == \A p \in Procs : pc[p] = "write" => latest[p] = disk

\* A stale writer changes its own cells only: whatever the others have saved
\* since its baseline survives its save, and what it did change is written
\* ("so a stale writer only changes its own fields").
UntouchedFieldsSurvive ==
    [][\A p \in Procs : pc[p] = "write" /\ pc'[p] = "written" =>
        \A c \in Cells : disk'[c] = IF c \in Changed(p) THEN mem[p][c] ELSE disk[c]]_vars

\* The cells the cleanup will close tabs for never name a tab of the user
\* ("they are the only tabs it closes on cleanup").
OnlyOwnTabsRecorded ==
    /\ Ids(disk["owned"]) \subseteq mine
    /\ \A p \in Procs : Ids(mem[p]["owned"]) \subseteq mine

\* A video state a process holds is never ahead of what it has saved or read:
\* a failed save takes it back (SetVideoState).
VideoNeverAhead ==
    \A p \in Procs : pc[p] = "idle" => mem[p]["video"] = base[p]["video"]

\* Neither of the two cells that name what lives in Chrome says more than is so,
\* and every cell of every copy holds what its field may hold.
RecordsAreTrue == TypeOK /\ OnlyOwnTabsRecorded /\ VideoNeverAhead

\* The file implements cells with private edits and atomic commits.
Uncommitted ==
    [p \in Procs |->
        [c \in IF pc[p] = "written" THEN {} ELSE Changed(p) |-> mem[p][c]]]

Store == INSTANCE CellStore WITH Absent <- NoValue, store <- disk,
                                 pending <- Uncommitted
ImplementsCellStore == Store!Spec

\* A cell a process has set, and saved, holds what it was set to: "A deliberate
\* update to the same field wins over an earlier writer".
DeliberateWritesWin ==
    [][\A p \in Procs : pc[p] = "write" /\ pc'[p] = "written" =>
        \A c \in intent[p] : disk'[c] = mem[p][c]]_vars

\* A tab ghostchrome has created and recorded is closed or still on record, so
\* that the cleanup finds it: "ghostchrome must not leave pages behind".
OwnedTabsRemembered ==
    (\A p \in Procs : pc[p] \in {"off", "idle"})
        => recorded \intersect tabs \subseteq Ids(disk["owned"])
=============================================================================
