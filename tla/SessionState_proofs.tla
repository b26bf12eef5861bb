------------------------ MODULE SessionState_proofs ------------------------
(***************************************************************************)
(* Theorems about SessionState, for any number of processes, targets,      *)
(* fields and edits: the flock gives each save the file as it is, so a     *)
(* stale writer changes its own cells only, and the file implements        *)
(* CellStore.                                                              *)
(***************************************************************************)
EXTENDS SessionState, TLAPS

USE SessionStateAssumption

Saving == {"load", "write", "written"}

Shape ==
    /\ pc \in [Procs -> ProcLabels]
    /\ lock \in Procs \union {NoProc}
    /\ mem = [p \in Procs |-> mem[p]]
    /\ base = [p \in Procs |-> base[p]]
    /\ latest = [p \in Procs |-> latest[p]]

LockHeld == \A p \in Procs : pc[p] \in Saving => lock = p

\* The flock is held from the lock to the return, hence LatestIsCurrent.
SaveInv == Shape /\ LockHeld /\ LatestIsCurrent

\* What an edit does to the variables of the save.
LEMMA EditAssigns ==
    ASSUME NEW p \in Procs, EditState(p)
    PROVE  \E cells, copy : Assign(p, cells, copy)
<1>1. CASE SetCurrent(p)
    BY <1>1 DEF SetCurrent
<1>2. CASE SaveSnapshot(p)
    BY <1>2 DEF SaveSnapshot
<1>3. CASE InvalidateCachedExtract(p)
    BY <1>3 DEF InvalidateCachedExtract
<1>4. CASE DeleteSnapshot(p)
    BY <1>4 DEF DeleteSnapshot
<1>5. CASE SetField(p)
    BY <1>5 DEF SetField
<1>6. CASE SetVideo(p)
    BY <1>6 DEF SetVideo
<1>7. CASE OwnTab(p)
    BY <1>7 DEF OwnTab
<1>8. CASE CloseOwnedTabs(p)
    BY <1>8 DEF CloseOwnedTabs
<1> QED BY <1>1, <1>2, <1>3, <1>4, <1>5, <1>6, <1>7, <1>8 DEF EditState

LEMMA SaveInit == Init => SaveInv
BY DEF Init, SaveInv, Shape, LockHeld, LatestIsCurrent, ProcLabels, Saving

LEMMA SaveNext == SaveInv /\ [Next]_vars => SaveInv'
<1> SUFFICES ASSUME SaveInv, [Next]_vars PROVE SaveInv'
    OBVIOUS
<1> USE DEF SaveInv, Shape, LockHeld, LatestIsCurrent, ProcLabels, Saving
<1>1. ASSUME NEW p \in Procs, EditState(p) PROVE SaveInv'
    <2>1. PICK cells, copy : Assign(p, cells, copy)
        BY <1>1, EditAssigns
    <2> QED BY <2>1 DEF Assign
<1>2. ASSUME NEW p \in Procs, Open(p) PROVE SaveInv'
    BY <1>2 DEF Open
<1>3. ASSUME NEW p \in Procs, SaveLock(p) PROVE SaveInv'
    BY <1>3 DEF SaveLock
<1>4. ASSUME NEW p \in Procs, SaveLoad(p) PROVE SaveInv'
    BY <1>4 DEF SaveLoad
<1>5. ASSUME NEW p \in Procs, SaveRename(p) PROVE SaveInv'
    BY <1>5 DEF SaveRename
<1>6. ASSUME NEW p \in Procs, SaveReturn(p) PROVE SaveInv'
    BY <1>6 DEF SaveReturn
<1>7. ASSUME NEW p \in Procs, SaveFails(p) PROVE SaveInv'
    BY <1>7 DEF SaveFails
<1>8. ASSUME NEW p \in Procs, Exit(p) PROVE SaveInv'
    BY <1>8 DEF Exit
<1>9. ASSUME NEW t \in Targets, TabCloses(t) PROVE SaveInv'
    BY <1>9 DEF TabCloses, procVars
<1>10. CASE UNCHANGED vars
    BY <1>10 DEF vars, procVars
<1> QED BY <1>1, <1>2, <1>3, <1>4, <1>5, <1>6, <1>7, <1>8, <1>9, <1>10
        DEF Next, Save

LEMMA SaveInvariant == Spec => []SaveInv
BY SaveInit, SaveNext, PTL DEF Spec

\* No other process saves between the read and the rename of a save.
THEOREM SaveSeesTheFile == Spec => []LatestIsCurrent
<1>1. SaveInv => LatestIsCurrent
    BY DEF SaveInv
<1> QED BY <1>1, SaveInvariant, PTL

\* A save changes the cells its process has changed, and no other.
THEOREM StaleWritersAreHarmless == Spec => UntouchedFieldsSurvive
<1> DEFINE Careful ==
        \A p \in Procs : pc[p] = "write" /\ pc'[p] = "written" =>
            \A c \in Cells : disk'[c] = IF c \in Changed(p) THEN mem[p][c] ELSE disk[c]
<1>1. SaveInv /\ [Next]_vars => [Careful]_vars
    <2> SUFFICES ASSUME SaveInv, [Next]_vars, NEW p \in Procs,
                        pc[p] = "write", pc'[p] = "written", NEW c \in Cells
                 PROVE  disk'[c] = IF c \in Changed(p) THEN mem[p][c] ELSE disk[c]
        OBVIOUS
    <2>1. SaveRename(p)
        <3> USE DEF SaveInv, Shape, ProcLabels
        <3>1. ASSUME NEW q \in Procs, EditState(q) PROVE FALSE
            <4>1. PICK cells, copy : Assign(q, cells, copy)
                BY <3>1, EditAssigns
            <4> QED BY <4>1 DEF Assign
        <3>2. ASSUME NEW q \in Procs, Open(q) \/ SaveLock(q) \/ SaveLoad(q)
                     \/ SaveReturn(q) \/ SaveFails(q) \/ Exit(q)
              PROVE  FALSE
            BY <3>2 DEF Open, SaveLock, SaveLoad, SaveReturn, SaveFails, Exit
        <3>3. ASSUME NEW q \in Procs, SaveRename(q) PROVE SaveRename(p)
            BY <3>3 DEF SaveRename
        <3>4. ASSUME NEW t \in Targets, TabCloses(t) PROVE FALSE
            BY <3>4 DEF TabCloses, procVars
        <3>5. CASE UNCHANGED vars
            BY <3>5 DEF vars, procVars
        <3> QED BY <3>1, <3>2, <3>3, <3>4, <3>5 DEF Next, Save
    <2>2. disk' = Merge(disk, base[p], mem[p])
        BY <2>1 DEF SaveRename, Merged, SaveInv, LatestIsCurrent
    <2> QED BY <2>2 DEF Merge, Changed
<1> QED BY <1>1, SaveInvariant, PTL DEF Spec, UntouchedFieldsSurvive
-----------------------------------------------------------------------------
(***************************************************************************)
(* The refinement.  A step before the rename is an edit of the process, or *)
(* nothing; the rename is the commit.                                      *)
(***************************************************************************)

\* A step that leaves the file and every other process is an abstract edit.
LEMMA PrivateStep ==
    ASSUME NEW p \in Procs, disk' = disk,
           \A q \in Procs \ {p} : /\ mem'[q] = mem[q] /\ base'[q] = base[q]
                                  /\ pc'[q] = pc[q]
    PROVE  Store!Edit(p)
<1>1. DOMAIN Uncommitted' = Procs
    BY DEF Uncommitted
<1>2. DOMAIN Uncommitted'[p] \subseteq Cells
    BY DEF Uncommitted, Changed
<1>3. ASSUME NEW q \in Procs \ {p} PROVE Uncommitted'[q] = Uncommitted[q]
    <2>1. Changed(q)' = Changed(q)
        BY <1>3 DEF Changed
    <2> QED BY <1>3, <2>1 DEF Uncommitted
<1> QED BY <1>1, <1>2, <1>3 DEF Store!Edit

\* The rename of process p commits its changed cells.
LEMMA RenameCommits ==
    ASSUME SaveInv, NEW p \in Procs, SaveRename(p)
    PROVE  Store!Commit(p)
<1> USE DEF SaveInv, Shape
<1>1. pc[p] = "write" /\ mem' = mem /\ base' = base
      /\ pc' = [pc EXCEPT ![p] = "written"]
    BY DEF SaveRename
<1>2. Uncommitted[p] = [c \in Changed(p) |-> mem[p][c]]
    BY <1>1 DEF Uncommitted
<1>3. disk' = [c \in Cells |-> IF c \in DOMAIN Uncommitted[p] THEN Uncommitted[p][c]
                               ELSE disk[c]]
    <2>1. disk' = Merge(disk, base[p], mem[p])
        BY <1>1 DEF SaveRename, Merged, LatestIsCurrent
    <2> QED BY <1>2, <2>1 DEF Merge, Changed
<1>4. Uncommitted' = [Uncommitted EXCEPT ![p] = Store!Nothing]
    <2>1. ASSUME NEW q \in Procs PROVE Changed(q)' = Changed(q)
        BY <1>1 DEF Changed
    <2>2. ASSUME NEW q \in Procs, q # p PROVE Uncommitted'[q] = Uncommitted[q]
        BY <1>1, <2>1, <2>2 DEF Uncommitted
    <2>3. Uncommitted'[p] = Store!Nothing
        BY <1>1 DEF Uncommitted, Store!Nothing
    <2> QED BY <2>2, <2>3 DEF Uncommitted
<1> QED BY <1>3, <1>4 DEF Store!Commit

LEMMA StepRefines == SaveInv /\ [Next]_vars => [Store!Next]_<<disk, Uncommitted>>
<1> SUFFICES ASSUME SaveInv, [Next]_vars
             PROVE  Store!Next \/ UNCHANGED <<disk, Uncommitted>>
    OBVIOUS
<1> USE DEF SaveInv, Shape
<1>1. ASSUME NEW p \in Procs, EditState(p) PROVE Store!Edit(p)
    <2>1. PICK cells, copy : Assign(p, cells, copy)
        BY <1>1, EditAssigns
    <2> QED BY <2>1, PrivateStep DEF Assign
<1>2. ASSUME NEW p \in Procs, Open(p) PROVE Store!Edit(p)
    BY <1>2, PrivateStep DEF Open
<1>3. ASSUME NEW p \in Procs, SaveLock(p) PROVE Store!Edit(p)
    BY <1>3, PrivateStep DEF SaveLock
<1>4. ASSUME NEW p \in Procs, SaveLoad(p) PROVE Store!Edit(p)
    BY <1>4, PrivateStep DEF SaveLoad
<1>5. ASSUME NEW p \in Procs, SaveRename(p) PROVE Store!Commit(p)
    BY <1>5, RenameCommits
<1>6. ASSUME NEW p \in Procs, SaveReturn(p) PROVE Store!Edit(p)
    BY <1>6, PrivateStep DEF SaveReturn
<1>7. ASSUME NEW p \in Procs, SaveFails(p) PROVE Store!Edit(p)
    BY <1>7, PrivateStep DEF SaveFails
<1>8. ASSUME NEW p \in Procs, Exit(p) PROVE Store!Edit(p)
    BY <1>8, PrivateStep DEF Exit
<1>9. CASE UNCHANGED <<disk, mem, base, pc>>
    <2>1. ASSUME NEW q \in Procs PROVE Changed(q)' = Changed(q)
        BY <1>9 DEF Changed
    <2> QED BY <1>9, <2>1 DEF Uncommitted
<1>10. ASSUME NEW t \in Targets, TabCloses(t) PROVE UNCHANGED <<disk, mem, base, pc>>
    BY <1>10 DEF TabCloses, procVars
<1>11. CASE UNCHANGED vars
    BY <1>9, <1>11 DEF vars, procVars
<1> QED BY <1>1, <1>2, <1>3, <1>4, <1>5, <1>6, <1>7, <1>8, <1>9, <1>10, <1>11
        DEF Next, Save, Store!Next

LEMMA InitRefines == Init => Store!Init
<1> SUFFICES ASSUME Init PROVE Store!Init
    OBVIOUS
<1>1. \A p \in Procs : Changed(p) = {}
    BY DEF Init, Changed
<1>2. Uncommitted = [p \in Procs |-> Store!Nothing]
    BY <1>1 DEF Init, Uncommitted, Store!Nothing
<1> QED BY <1>2 DEF Init, Blank, Store!Init

\* The state file is a store of cells with private edits and atomic commits:
\* no update is lost to a stale writer, and no crash leaves half of one.
THEOREM FileImplementsCells == Spec => ImplementsCellStore
<1>1. SaveInv /\ [Next]_vars => [Store!Next]_<<disk, Uncommitted>>
    BY StepRefines
<1> QED BY <1>1, InitRefines, SaveInvariant, PTL DEF Spec, ImplementsCellStore, Store!Spec
-----------------------------------------------------------------------------
(***************************************************************************)
(* What the cells say.  Every copy of the state is a function from the     *)
(* cells, each holding what its field may hold.  What a save reads under   *)
(* the flock (latest) may end up in the copy, so it too names own tabs     *)
(* only; and while an edit of the video state is not saved, undo holds the *)
(* state the process had read.                                             *)
(***************************************************************************)
IsState(f) ==
    /\ f = [c \in Cells |-> f[c]]
    /\ \A c \in Cells : CellOK(c, f[c])

CopiesOK ==
    /\ IsState(disk)
    /\ \A p \in Procs : IsState(mem[p]) /\ IsState(base[p]) /\ IsState(latest[p])
    /\ undo = [p \in Procs |-> undo[p]]
    /\ intent = [p \in Procs |-> intent[p]]
    /\ \A p \in Procs : intent[p] \subseteq Cells
    /\ tabs \subseteq Targets /\ recorded \subseteq mine /\ mine \subseteq Targets
    /\ edits \in 0..MaxEdits

OwnInv ==
    OnlyOwnTabsRecorded /\ \A p \in Procs : Ids(latest[p]["owned"]) \subseteq mine

VideoInv ==
    \A p \in Procs :
        /\ pc[p] \in {"off", "idle"} => undo[p] = NoValue
        /\ pc[p] \in {"idle", "want", "load", "write"} =>
             IF undo[p] = NoValue THEN mem[p]["video"] = base[p]["video"]
             ELSE undo[p][1] = base[p]["video"]

RecordInv == Shape /\ CopiesOK /\ OwnInv /\ VideoInv

\* The fields are cells, and apart from each other and from the targets.
LEMMA FieldsApart ==
    /\ {"current", "owned", "video"} \subseteq Cells
    /\ {"current", "owned", "video"} \intersect (PlainFields \union Targets) = {}
    /\ Targets \subseteq Cells /\ PlainFields \subseteq Cells
    /\ Targets \intersect PlainFields = {}
BY DEF Cells, Fields

\* What a state records of the tabs and of the video.
LEMMA StateParts ==
    ASSUME NEW f, IsState(f)
    PROVE  /\ Ids(f["owned"]) \subseteq Targets
           /\ f["video"] \in Values \union {NoValue}
<1>1. CellOK("owned", f["owned"]) /\ CellOK("video", f["video"])
    BY FieldsApart DEF IsState
<1> QED BY <1>1, FieldsApart DEF CellOK, Ids

\* A three-way merge takes each cell from the file or from the copy.
LEMMA MergeIsState ==
    ASSUME NEW f, NEW g, NEW h, IsState(f), IsState(h)
    PROVE  /\ IsState(Merge(f, g, h))
           /\ Merge(f, g, h)["owned"] \in {f["owned"], h["owned"]}
BY FieldsApart DEF IsState, Merge

\* A copy of a state in which one cell, or two, are replaced.
LEMMA SetCell ==
    ASSUME NEW f, IsState(f), NEW c \in Cells, NEW v, CellOK(c, v)
    PROVE  IsState([f EXCEPT ![c] = v])
BY DEF IsState

\* An edit assigns a state that names own tabs only, and keeps the video state
\* unless it can take it back.
EditOf(p, cells, copy) ==
    /\ Assign(p, cells, copy)
    /\ cells \subseteq Cells
    /\ IsState(copy) /\ Ids(copy["owned"]) \subseteq mine'
    /\ mine \subseteq mine' /\ mine' \subseteq Targets /\ tabs' \subseteq Targets
    /\ recorded' = recorded
    /\ \/ undo' = undo /\ copy["video"] = mem[p]["video"]
       \/ undo' = [undo EXCEPT ![p] = <<mem[p]["video"]>>]

LEMMA EditKeepsRecords ==
    ASSUME RecordInv, NEW p \in Procs, EditState(p)
    PROVE  \E cells, copy : EditOf(p, cells, copy)
<1> USE FieldsApart DEF RecordInv, CopiesOK
<1>0. /\ IsState(mem[p]) /\ mem[p] = [c \in Cells |-> mem[p][c]]
      /\ Ids(mem[p]["owned"]) \subseteq mine
    BY DEF OwnInv, OnlyOwnTabsRecorded, IsState
<1>1. CASE SetCurrent(p)
    <2>1. PICK t \in tabs :
            Assign(p, {"current"}, [mem[p] EXCEPT !["current"] = t])
        BY <1>1 DEF SetCurrent
    <2>2. CellOK("current", t)
        BY DEF CellOK
    <2>3. EditOf(p, {"current"}, [mem[p] EXCEPT !["current"] = t])
        BY <1>0, <1>1, <2>1, <2>2, SetCell DEF SetCurrent, EditOf, tabVars
    <2> QED BY <2>3
<1>2. CASE SaveSnapshot(p)
    <2>1. PICK t \in tabs, v \in Values :
            Assign(p, {"current", t}, [mem[p] EXCEPT !["current"] = t,
                                                     ![t] = Snapshot(v, TRUE)])
        BY <1>2 DEF SaveSnapshot
    <2>2. CellOK("current", t) /\ CellOK(t, Snapshot(v, TRUE))
        BY DEF CellOK, Snapshot
    <2> DEFINE copy == [mem[p] EXCEPT !["current"] = t, ![t] = Snapshot(v, TRUE)]
    <2>3. IsState(copy) /\ copy["owned"] = mem[p]["owned"]
          /\ copy["video"] = mem[p]["video"]
        BY <1>0, <2>2, SetCell DEF IsState
    <2>4. EditOf(p, {"current", t}, copy)
        BY <1>0, <1>2, <2>1, <2>3 DEF SaveSnapshot, EditOf, tabVars
    <2> QED BY <2>4
<1>3. CASE InvalidateCachedExtract(p)
    <2>1. PICK t \in tabs, v \in Values :
            Assign(p, {t}, [mem[p] EXCEPT ![t] = Snapshot(v, FALSE)])
        BY <1>3 DEF InvalidateCachedExtract
    <2>2. CellOK(t, Snapshot(v, FALSE))
        BY DEF CellOK, Snapshot
    <2> DEFINE copy == [mem[p] EXCEPT ![t] = Snapshot(v, FALSE)]
    <2>3. IsState(copy) /\ copy["owned"] = mem[p]["owned"]
          /\ copy["video"] = mem[p]["video"]
        BY <1>0, <2>2, SetCell
    <2>4. EditOf(p, {t}, copy)
        BY <1>0, <1>3, <2>1, <2>3 DEF InvalidateCachedExtract, EditOf, tabVars
    <2> QED BY <2>4
<1>4. CASE DeleteSnapshot(p)
    <2>1. PICK t \in Targets : DeleteSnapshot(p)!1!(t)
        BY <1>4 DEF DeleteSnapshot
    <2> DEFINE was == mem[p]["current"] = t
               cells == IF was THEN {"current", t} ELSE {t}
               copy == [mem[p] EXCEPT !["current"] = IF was THEN NoValue ELSE @,
                                      ![t] = NoValue]
    <2>2. Assign(p, cells, copy)
        BY <2>1
    <2>3. IsState(copy) /\ copy["owned"] = mem[p]["owned"]
          /\ copy["video"] = mem[p]["video"]
        BY <1>0 DEF IsState, CellOK
    <2>4. cells \subseteq Cells
        OBVIOUS
    <2>5. EditOf(p, cells, copy)
        BY <1>0, <1>4, <2>2, <2>3, <2>4 DEF DeleteSnapshot, EditOf, tabVars
    <2> QED BY <2>5
<1>5. CASE SetField(p)
    <2>1. PICK f \in PlainFields, v \in Values \union {NoValue} :
            Assign(p, {f}, [mem[p] EXCEPT ![f] = v])
        BY <1>5 DEF SetField
    <2> DEFINE copy == [mem[p] EXCEPT ![f] = v]
    <2>2. CellOK(f, v)
        BY DEF CellOK
    <2>3. IsState(copy) /\ copy["owned"] = mem[p]["owned"]
          /\ copy["video"] = mem[p]["video"]
        BY <1>0, <2>2, SetCell
    <2>4. EditOf(p, {f}, copy)
        BY <1>0, <1>5, <2>1, <2>3 DEF SetField, EditOf, tabVars
    <2> QED BY <2>4
<1>6. CASE SetVideo(p)
    <2>1. PICK v \in Values \union {NoValue} :
            Assign(p, {"video"}, [mem[p] EXCEPT !["video"] = v])
        BY <1>6 DEF SetVideo
    <2> DEFINE copy == [mem[p] EXCEPT !["video"] = v]
    <2>2. CellOK("video", v)
        BY DEF CellOK
    <2>3. IsState(copy) /\ copy["owned"] = mem[p]["owned"]
        BY <1>0, <2>2, SetCell
    <2>4. EditOf(p, {"video"}, copy)
        BY <1>0, <1>6, <2>1, <2>3 DEF SetVideo, EditOf, tabVars
    <2> QED BY <2>4
<1>7. CASE OwnTab(p)
    <2>1. PICK t \in Targets \ (UserTabs \union mine) : OwnTab(p)!2!(t)
        BY <1>7 DEF OwnTab
    <2> DEFINE ids == (Ids(mem[p]["owned"]) \union {t}) \intersect tabs'
               copy == [mem[p] EXCEPT
                   !["current"] = t,
                   !["owned"] = (Ids(@) \union {t}) \intersect tabs']
    <2>2. ids \subseteq mine' /\ mine' \subseteq Targets /\ tabs' \subseteq Targets
        BY <1>0, <2>1
    <2>3. CellOK("current", t) /\ CellOK("owned", ids)
        BY <2>2 DEF CellOK
    <2>4. /\ IsState(copy) /\ copy["video"] = mem[p]["video"]
          /\ copy["owned"] = ids
        BY <1>0, <2>3 DEF IsState
    <2>5. Ids(copy["owned"]) \subseteq mine'
        BY <2>2, <2>4 DEF Ids
    <2>6. EditOf(p, {"current", "owned"}, copy)
        BY <1>0, <1>7, <2>1, <2>2, <2>4, <2>5 DEF OwnTab, EditOf
    <2> QED BY <2>6
<1>8. CASE CloseOwnedTabs(p)
    <2> DEFINE ids == Ids(mem[p]["owned"])
               gone == mem[p]["current"] \in ids
               cells == ids \union (IF gone THEN {"current", "owned"} ELSE {"owned"})
               copy == [c \in Cells |->
                   IF c \in ids \/ c = "owned" \/ (gone /\ c = "current")
                     THEN NoValue ELSE mem[p][c]]
    <2>1. Assign(p, cells, copy) /\ tabs' \subseteq tabs
        BY <1>8 DEF CloseOwnedTabs
    <2>2. ids \subseteq Targets
        BY <1>0, StateParts
    <2>3. IsState(copy) /\ copy["owned"] = NoValue
          /\ copy["video"] = mem[p]["video"]
        BY <1>0, <2>2 DEF IsState, CellOK
    <2>4. cells \subseteq Cells
        BY <2>2
    <2>5. EditOf(p, cells, copy)
        BY <1>0, <1>8, <2>1, <2>3, <2>4 DEF CloseOwnedTabs, EditOf, Ids
    <2> QED BY <2>5
<1> QED BY <1>1, <1>2, <1>3, <1>4, <1>5, <1>6, <1>7, <1>8 DEF EditState

LEMMA EditRecords ==
    ASSUME RecordInv, NEW p \in Procs, EditState(p)
    PROVE  RecordInv'
<1>1. PICK cells, copy : EditOf(p, cells, copy)
    BY EditKeepsRecords
<1> USE DEF EditOf, Assign, RecordInv
<1>2. Shape'
    BY <1>1 DEF Shape, ProcLabels
<1>3. mem' = [mem EXCEPT ![p] = copy] /\ mem'[p] = copy
    BY <1>1 DEF Shape
<1>4. CopiesOK'
    <2>1. \A q \in Procs : IsState(mem[q])' /\ IsState(base[q])' /\ IsState(latest[q])'
        <3>1. \A q \in Procs : mem'[q] \in {copy, mem[q]}
            BY <1>1 DEF Shape
        <3> QED BY <1>1, <3>1 DEF CopiesOK, IsState
    <2>2. intent' = [q \in Procs |-> intent'[q]]
          /\ \A q \in Procs : intent'[q] \subseteq Cells
        BY <1>1 DEF CopiesOK
    <2>3. undo' = [q \in Procs |-> undo'[q]]
        BY <1>1 DEF CopiesOK
    <2>4. edits' \in 0..MaxEdits
        BY <1>1 DEF CopiesOK
    <2> QED BY <1>1, <2>1, <2>2, <2>3, <2>4 DEF CopiesOK, IsState
<1>5. OwnInv'
    BY <1>1, <1>3 DEF Shape, OwnInv, OnlyOwnTabsRecorded
<1>6. VideoInv'
    <2>1. mem[p]["video"] \in Values \union {NoValue}
        BY StateParts DEF CopiesOK
    <2>2. pc[p] = "idle" /\ undo[p] = NoValue /\ mem[p]["video"] = base[p]["video"]
        BY <1>1 DEF VideoInv
    <2>3. pc'[p] = "want" /\ \A q \in Procs \ {p} :
              pc'[q] = pc[q] /\ undo'[q] = undo[q] /\ mem'[q] = mem[q]
        BY <1>1 DEF Shape, CopiesOK
    <2>4. IF undo'[p] = NoValue THEN copy["video"] = base[p]["video"]
          ELSE undo'[p][1] = base[p]["video"]
        <3>1. CASE undo' = undo /\ copy["video"] = mem[p]["video"]
            BY <2>2, <3>1
        <3>2. CASE undo' = [undo EXCEPT ![p] = <<mem[p]["video"]>>]
            <4>1. undo'[p] = <<mem[p]["video"]>>
                BY <3>2 DEF CopiesOK
            <4> QED BY <2>1, <2>2, <4>1
        <3> QED BY <1>1, <3>1, <3>2
    <2> QED BY <1>1, <1>3, <2>3, <2>4 DEF VideoInv
<1> QED BY <1>2, <1>4, <1>5, <1>6

LEMMA BlankIsState == IsState(Blank) /\ Ids(Blank["owned"]) = {}
BY FieldsApart DEF IsState, Blank, CellOK, Ids

\* A step of the save, an exit, or the start of a process.
LEMMA SaveRecords ==
    ASSUME RecordInv, NEW p \in Procs, Open(p) \/ Save(p) \/ Exit(p)
    PROVE  RecordInv'
<1> USE BlankIsState DEF RecordInv, Shape, ProcLabels
<1>1. CASE Open(p)
    BY <1>1 DEF Open, tabVars, CopiesOK, OwnInv, OnlyOwnTabsRecorded, VideoInv
<1>2. CASE SaveLock(p)
    BY <1>2 DEF SaveLock, tabVars, CopiesOK, OwnInv, OnlyOwnTabsRecorded, VideoInv
<1>3. CASE SaveLoad(p)
    BY <1>3 DEF SaveLoad, tabVars, CopiesOK, OwnInv, OnlyOwnTabsRecorded, VideoInv
<1>4. IsState(Merged(p)) /\ Ids(Merged(p)["owned"]) \subseteq mine
    BY MergeIsState DEF Merged, CopiesOK, OwnInv, OnlyOwnTabsRecorded
<1>5. CASE SaveRename(p)
    BY <1>4, <1>5 DEF SaveRename, tabVars, CopiesOK, OwnInv, OnlyOwnTabsRecorded,
       VideoInv
<1>6. CASE SaveReturn(p)
    <2>1. CopiesOK'
        BY <1>4, <1>6 DEF SaveReturn, CopiesOK
    <2>2. OwnInv'
        BY <1>4, <1>6 DEF SaveReturn, OwnInv, OnlyOwnTabsRecorded
    <2>3. VideoInv'
        BY <1>6 DEF SaveReturn, CopiesOK, VideoInv
    <2> QED BY <1>6, <2>1, <2>2, <2>3 DEF SaveReturn
<1>7. CASE SaveFails(p)
    <2> DEFINE v == IF undo[p] = NoValue THEN mem[p]["video"] ELSE undo[p][1]
    <2>1. mem' = [mem EXCEPT ![p] = [mem[p] EXCEPT !["video"] = v]]
        BY <1>7 DEF SaveFails
    <2>2. v = base[p]["video"]
        BY <1>7 DEF SaveFails, VideoInv
    <2>3. CellOK("video", v)
        BY <2>2, FieldsApart DEF CopiesOK, IsState
    <2> DEFINE copy == [mem[p] EXCEPT !["video"] = v]
    <2>4. mem'[p] = copy
        BY <2>1
    <2>5. IsState(mem[p]) /\ "video" \in Cells
        BY FieldsApart DEF CopiesOK
    <2>6. IsState(copy)
        BY <2>3, <2>5, SetCell
    <2>7. copy["owned"] = mem[p]["owned"] /\ copy["video"] = v
        BY <2>5, FieldsApart DEF IsState
    <2>8. /\ IsState(mem'[p]) /\ mem'[p]["owned"] = mem[p]["owned"]
          /\ mem'[p]["video"] = base[p]["video"]
        <3> HIDE DEF v, copy
        <3> QED BY <2>2, <2>4, <2>6, <2>7
    <2>9. CopiesOK'
        BY <1>7, <2>1, <2>8 DEF SaveFails, CopiesOK, tabVars
    <2>10. OwnInv'
        BY <1>7, <2>1, <2>8 DEF SaveFails, OwnInv, OnlyOwnTabsRecorded, tabVars
    <2>11. VideoInv'
        BY <1>7, <2>1, <2>8 DEF SaveFails, VideoInv, CopiesOK
    <2> QED BY <1>7, <2>9, <2>10, <2>11 DEF SaveFails
<1>8. CASE Exit(p)
    BY <1>8 DEF Exit, tabVars, CopiesOK, OwnInv, OnlyOwnTabsRecorded, VideoInv
<1> QED BY <1>1, <1>2, <1>3, <1>5, <1>6, <1>7, <1>8 DEF Save

LEMMA RecordInvariant == Spec => []RecordInv
<1>1. Init => RecordInv
    <2> SUFFICES ASSUME Init PROVE RecordInv
        OBVIOUS
    <2> USE BlankIsState DEF Init
    <2>1. Shape
        BY DEF Shape, ProcLabels
    <2>2. CopiesOK /\ OwnInv /\ VideoInv
        BY DEF CopiesOK, OwnInv, OnlyOwnTabsRecorded, VideoInv
    <2> QED BY <2>1, <2>2 DEF RecordInv
<1>2. RecordInv /\ [Next]_vars => RecordInv'
    <2> SUFFICES ASSUME RecordInv, [Next]_vars PROVE RecordInv'
        OBVIOUS
    <2>1. ASSUME NEW p \in Procs, Open(p) \/ EditState(p) \/ Save(p) \/ Exit(p)
          PROVE  RecordInv'
        BY <2>1, EditRecords, SaveRecords
    <2>2. ASSUME NEW t \in Targets, TabCloses(t) PROVE RecordInv'
        BY <2>2 DEF TabCloses, procVars, RecordInv, Shape, CopiesOK, OwnInv,
           OnlyOwnTabsRecorded, VideoInv
    <2>3. CASE UNCHANGED vars
        BY <2>3 DEF vars, procVars, tabVars, RecordInv, Shape, CopiesOK, OwnInv,
           OnlyOwnTabsRecorded, VideoInv
    <2> QED BY <2>1, <2>2, <2>3 DEF Next
<1> QED BY <1>1, <1>2, PTL DEF Spec

\* What the state says of Chrome is so: the cleanup is only ever told of tabs
\* ghostchrome has created, however stale the writer, and no process believes
\* in a recording whose save has failed.
THEOREM StateIsTruthful == Spec => []RecordsAreTrue
<1>1. RecordInv => TypeOK
    BY DEF RecordInv, Shape, CopiesOK, IsState, TypeOK
<1>2. RecordInv => OnlyOwnTabsRecorded /\ VideoNeverAhead
    BY DEF RecordInv, OwnInv, VideoInv, VideoNeverAhead
<1>3. RecordInv => RecordsAreTrue
    BY <1>1, <1>2 DEF RecordsAreTrue
<1> QED BY <1>3, RecordInvariant, PTL
=============================================================================
