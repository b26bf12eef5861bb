---------------------------- MODULE VideoRecorder ----------------------------
(***************************************************************************)
(* Video recording: the commands video-start, video-chapter and video-stop *)
(* (internal/surface/cli/playwright_video.go), the detached recorder they  *)
(* start (internal/core/engine/video_runtime.go) and its screencast        *)
(* (internal/core/media/screenrecord.go).                                  *)
(*                                                                         *)
(* The processes talk by files: the recorder publishes its status by       *)
(* renames and looks for a stop file; the commands keep the recording in   *)
(* use in the session's state file, of which each holds a copy.            *)
(***************************************************************************)
EXTENDS Naturals

CONSTANTS
    Clients,   \* processes of commands
    Recs,      \* recordings, each with a directory of frames of its own
    NoRec,
    MaxFrames, \* bound: frames of a recording
    Slow,      \* deadlines may pass although the other side is at work
    CanFail,   \* files may fail to be written
    Kills      \* commands and recorders may be killed

VideoAssumption ==
    /\ NoRec \notin Recs /\ MaxFrames \in Nat
    /\ {Slow, CanFail, Kills} \subseteq BOOLEAN

VARIABLES
    chrome,   \* whether Chrome runs
    record,   \* VideoState of the state file: the recording in use
    status,   \* the status file of each recording
    stop,     \* recordings whose stop file exists
    rt,       \* where the recorder of each recording is
    captured, \* frames it has captured
    pc, copy, \* where a command is; the VideoState it has loaded
    mine,     \* the recording a video-start creates
    manifest, \* what video-stop has written of a recording
    unasked   \* recordings whose stop file could not be written when it was to be

files == <<record, status, stop, manifest, unasked>>
recorders == <<rt, captured>>
commands == <<pc, copy, mine>>
vars == <<chrome, files, recorders, commands>>

Status(state, frames, fresh) == [state |-> state, frames |-> frames, fresh |-> fresh]
NoStatus == Status("absent", 0, FALSE)
NoManifest == [complete |-> FALSE, frames |-> 0]

Capturing(r) == rt[r] \in {"capturing", "recording", "stopping", "failing"}
Running(r) == Capturing(r) \/ rt[r] \in {"born", "connecting"}

Init ==
    /\ chrome = TRUE
    /\ record = NoRec /\ stop = {} /\ unasked = {}
    /\ status = [r \in Recs |-> NoStatus]
    /\ manifest = [r \in Recs |-> NoManifest]
    /\ rt = [r \in Recs |-> "none"] /\ captured = [r \in Recs |-> 0]
    /\ pc = [c \in Clients |-> "idle"]
    /\ copy = [c \in Clients |-> NoRec] /\ mine = [c \in Clients |-> NoRec]

-----------------------------------------------------------------------------
(***************************************************************************)
(* RunVideoRuntime                                                         *)
(***************************************************************************)
Turn(r, label) == rt' = [rt EXCEPT ![r] = label]

\* writeVideoRuntimeStatus, by a rename.
Publish(r, state, frames, fresh) ==
    status' = [status EXCEPT ![r] = Status(state, frames, fresh)]

\* The end: `failed` is published if a disk that may fail lets it.
EndsFailed(r, frames) ==
    /\ Turn(r, "gone")
    /\ Publish(r, "failed", frames, FALSE) \/ (CanFail /\ UNCHANGED status)

\* A stop file left over is removed.
RuntimeStarts(r) ==
    /\ rt[r] = "born"
    /\ stop' = stop \ {r}
    /\ \/ Turn(r, "connecting") /\ Publish(r, "starting", 0, FALSE)
       \/ CanFail /\ Turn(r, "gone") /\ UNCHANGED status
    /\ UNCHANGED <<chrome, record, manifest, unasked, captured, commands>>

\* ScreenRecorder.Start
RecorderStarts(r) ==
    /\ rt[r] = "connecting" /\ chrome
    /\ Turn(r, "capturing")
    /\ UNCHANGED <<chrome, files, captured, commands>>

\* No connection, no such target, or no screencast.
RuntimeCannotStart(r) ==
    /\ rt[r] = "connecting"
    /\ EndsFailed(r, 0)
    /\ UNCHANGED <<chrome, record, stop, manifest, unasked, captured, commands>>

PublishRecording(r) ==
    /\ rt[r] = "capturing"
    /\ \/ Turn(r, "recording") /\ Publish(r, "recording", 0, TRUE)
       \/ CanFail /\ EndsFailed(r, 0)
    /\ UNCHANGED <<chrome, record, stop, manifest, unasked, captured, commands>>

\* captureLoop; a frame under way while the recorder stops is kept.
CaptureFrame(r) ==
    /\ Capturing(r) /\ chrome /\ captured[r] < MaxFrames
    /\ captured' = [captured EXCEPT ![r] = @ + 1]
    /\ UNCHANGED <<chrome, files, rt, commands>>

Heartbeat(r) ==
    /\ rt[r] = "recording" /\ chrome /\ r \notin stop
    /\ \/ Publish(r, "recording", captured[r], TRUE) /\ UNCHANGED rt
       \/ CanFail /\ EndsFailed(r, captured[r])
    /\ UNCHANGED <<chrome, record, stop, manifest, unasked, captured, commands>>

\* The stop file is there, or an interrupt has come: the screencast ends.
SeesStop(r) ==
    /\ rt[r] = "recording" /\ (r \in stop /\ chrome)
    /\ Turn(r, "stopping")
    /\ UNCHANGED <<chrome, files, captured, commands>>

Interrupted(r) ==
    /\ Kills /\ rt[r] = "recording"
    /\ Turn(r, "stopping")
    /\ UNCHANGED <<chrome, files, captured, commands>>

\* Browser.getVersion fails.
SeesNoChrome(r) ==
    /\ rt[r] = "recording" /\ (~chrome \/ Slow)
    /\ Turn(r, "failing")
    /\ UNCHANGED <<chrome, files, captured, commands>>

\* ScreenRecorder.Stop has waited for the last frame: its count is final.
PublishStopped(r) ==
    /\ rt[r] = "stopping"
    /\ \/ Turn(r, "gone") /\ Publish(r, "stopped", captured[r], FALSE)
       \/ CanFail /\ EndsFailed(r, captured[r])
    /\ UNCHANGED <<chrome, record, stop, manifest, unasked, captured, commands>>

PublishFailed(r) ==
    /\ rt[r] = "failing"
    /\ EndsFailed(r, captured[r])
    /\ UNCHANGED <<chrome, record, stop, manifest, unasked, captured, commands>>

RuntimeKilled(r) ==
    /\ Kills /\ Running(r)
    /\ Turn(r, "gone")
    /\ UNCHANGED <<chrome, files, captured, commands>>

\* The heartbeat gets older than VideoRuntimeStaleAfter.
Age(r) ==
    /\ status[r].fresh /\ (~Running(r) \/ Slow)
    /\ status' = [status EXCEPT ![r].fresh = FALSE]
    /\ UNCHANGED <<chrome, record, stop, manifest, unasked, recorders, commands>>

-----------------------------------------------------------------------------
(***************************************************************************)
(* Commands                                                                *)
(***************************************************************************)
Goto(c, label) == pc' = [pc EXCEPT ![c] = label]

\* SetVideoState: the save merges an edit of the copy into the file.
SetVideoState(c, r) ==
    /\ record' = IF r = copy[c] THEN record ELSE r
    /\ copy' = [copy EXCEPT ![c] = record']

\* RequestVideoRuntimeStop, up to the wait: it writes the stop file of r, or
\* fails to, and what is left of a failed write is a stop file as well.
AskToStop(r) ==
    stop' = stop \union {r} /\ UNCHANGED unasked
CannotAsk(r) ==
    CanFail /\ stop' \in {stop, stop \union {r}} /\ unasked' = unasked \union {r}

\* WaitForVideoRuntime gives up when nothing more will come, or too early.
Overdue(r) == ~Running(r) \/ Slow

\* openPage loads the state file.
Open(c) ==
    /\ pc[c] = "idle" /\ chrome
    /\ \E op \in {"start", "chapter", "stop"} : Goto(c, op)
    /\ copy' = [copy EXCEPT ![c] = record]
    /\ mine' = [mine EXCEPT ![c] = NoRec]
    /\ UNCHANGED <<chrome, files, recorders>>

\* videoStateNeedsRecovery: no status, a terminal one, or no heartbeat.
NeedsRecovery(r) == status[r].state # "recording" \/ ~status[r].fresh

StartFree(c) ==
    /\ pc[c] = "start" /\ copy[c] = NoRec
    /\ Goto(c, "spawn")
    /\ UNCHANGED <<chrome, files, recorders, copy, mine>>

StartRefused(c) ==
    /\ pc[c] = "start" /\ copy[c] # NoRec /\ ~NeedsRecovery(copy[c])
    /\ Goto(c, "idle")
    /\ UNCHANGED <<chrome, files, recorders, copy, mine>>

StartRecovers(c) ==
    /\ pc[c] = "start" /\ copy[c] # NoRec /\ NeedsRecovery(copy[c])
    /\ Goto(c, "clear")
    /\ UNCHANGED <<chrome, files, recorders, copy, mine>>

StartClear(c) ==
    /\ pc[c] = "clear"
    /\ \/ SetVideoState(c, NoRec) /\ Goto(c, "spawn")
       \/ CanFail /\ Goto(c, "idle") /\ UNCHANGED <<record, copy>>
    /\ UNCHANGED <<chrome, status, stop, manifest, unasked, recorders, mine>>

\* startVideoRuntime, up to the wait.
StartSpawn(c) ==
    /\ pc[c] = "spawn"
    /\ \/ \E r \in Recs :
            /\ rt[r] = "none"
            /\ Turn(r, "born")
            /\ mine' = [mine EXCEPT ![c] = r]
            /\ Goto(c, "started")
       \/ Goto(c, "idle") /\ UNCHANGED <<rt, mine>>
    /\ UNCHANGED <<chrome, files, captured, copy>>

StartSeesRecording(c) ==
    /\ pc[c] = "started" /\ status[mine[c]].state = "recording"
    /\ Goto(c, "save")
    /\ UNCHANGED <<chrome, files, recorders, copy, mine>>

StartWaitFails(c) ==
    /\ pc[c] = "started"
    /\ status[mine[c]].state = "failed" \/ Overdue(mine[c])
    /\ Goto(c, "cancel")
    /\ UNCHANGED <<chrome, files, recorders, copy, mine>>

StartSave(c) ==
    /\ pc[c] = "save"
    /\ SetVideoState(c, mine[c]) /\ Goto(c, "idle")
    /\ UNCHANGED <<chrome, status, stop, manifest, unasked, recorders, mine>>

\* Mutant: a recorder whose record could not be saved is left alone.
StartSaveFailsQuietly(c) ==
    /\ pc[c] = "save" /\ CanFail
    /\ Goto(c, "idle")
    /\ UNCHANGED <<chrome, files, recorders, copy, mine>>

StartSaveFails(c) ==
    /\ pc[c] = "save" /\ CanFail
    /\ Goto(c, "undo")
    /\ UNCHANGED <<chrome, files, recorders, copy, mine>>

\* What was started is told to stop, by startVideoRuntime ("cancel") or, since
\* its record could not be saved, by stopFailedVideoRuntime ("undo").
StartCancel(c) ==
    /\ pc[c] \in {"cancel", "undo"}
    /\ \/ AskToStop(mine[c]) /\ Goto(c, IF pc[c] = "undo" THEN "undoing" ELSE "cancelled")
       \/ CannotAsk(mine[c]) /\ Goto(c, IF pc[c] = "undo" THEN "undone" ELSE "idle")
    /\ UNCHANGED <<chrome, record, status, manifest, recorders, copy, mine>>

StartCancelled(c) ==
    /\ pc[c] \in {"cancelled", "undoing"}
    /\ status[mine[c]].state \in {"stopped", "failed"} \/ Overdue(mine[c])
    /\ Goto(c, IF pc[c] = "undoing" THEN "undone" ELSE "idle")
    /\ UNCHANGED <<chrome, files, recorders, copy, mine>>

\* stopFailedVideoRuntime and video-stop end with no record, if it can be saved.
ForgetRecord(c) ==
    /\ pc[c] \in {"undone", "stopped"}
    /\ SetVideoState(c, NoRec) \/ (CanFail /\ UNCHANGED <<record, copy>>)
    /\ Goto(c, "idle")
    /\ UNCHANGED <<chrome, status, stop, manifest, unasked, recorders, mine>>

StopInactive(c) ==
    /\ pc[c] = "stop" /\ copy[c] = NoRec
    /\ Goto(c, "idle")
    /\ UNCHANGED <<chrome, files, recorders, copy, mine>>

StopRequest(c) ==
    /\ pc[c] = "stop" /\ copy[c] # NoRec
    /\ \/ AskToStop(copy[c]) /\ Goto(c, "stopping")
       \/ CannotAsk(copy[c]) /\ Goto(c, "unknown")
    /\ UNCHANGED <<chrome, record, status, manifest, recorders, copy, mine>>

\* writeVideoManifest, which may fail.  Either way video-stop goes on.
WriteManifest(c, complete, frames) ==
    /\ \/ manifest' = [manifest EXCEPT ![copy[c]] =
                          [complete |-> complete, frames |-> frames]]
       \/ CanFail /\ UNCHANGED manifest
    /\ Goto(c, "stopped")
    /\ UNCHANGED <<chrome, record, status, stop, unasked, recorders, copy, mine>>

\* The wait ends, whatever the answer, and the manifest tells it.
StopAnswered(c) ==
    /\ pc[c] = "stopping"
    /\ status[copy[c]].state \in {"stopped", "failed"} \/ Overdue(copy[c])
    /\ WriteManifest(c, status[copy[c]].state = "stopped", status[copy[c]].frames)

\* Nobody was asked and nobody is waited for.
StopUnasked(c) ==
    /\ pc[c] = "unknown"
    /\ WriteManifest(c, FALSE, 0)

\* video-chapter writes the VideoState it has loaded, with a chapter more.
Chapter(c) ==
    /\ pc[c] = "chapter"
    /\ \/ record' = IF copy[c] = NoRec THEN record ELSE copy[c]
       \/ CanFail /\ UNCHANGED record
    /\ Goto(c, "idle")
    /\ UNCHANGED <<chrome, status, stop, manifest, unasked, recorders, copy, mine>>

Killed(c) ==
    /\ Kills /\ pc[c] # "idle"
    /\ Goto(c, "idle")
    /\ UNCHANGED <<chrome, files, recorders, copy, mine>>

ChromeDies ==
    /\ chrome /\ chrome' = FALSE
    /\ UNCHANGED <<files, recorders, commands>>

-----------------------------------------------------------------------------
Runtime(r) ==
    \/ RuntimeStarts(r) \/ RecorderStarts(r) \/ RuntimeCannotStart(r)
    \/ PublishRecording(r) \/ Heartbeat(r)
    \/ SeesStop(r) \/ SeesNoChrome(r)
    \/ PublishStopped(r) \/ PublishFailed(r)

Command(c) ==
    \/ StartFree(c) \/ StartRefused(c) \/ StartRecovers(c) \/ StartClear(c)
    \/ StartSpawn(c) \/ StartSeesRecording(c) \/ StartWaitFails(c)
    \/ StartSave(c) \/ StartSaveFails(c) \/ StartCancel(c) \/ StartCancelled(c)
    \/ StopInactive(c) \/ StopRequest(c) \/ StopAnswered(c) \/ StopUnasked(c)
    \/ ForgetRecord(c) \/ Chapter(c)

Next ==
    \/ \E r \in Recs : \/ Runtime(r) \/ CaptureFrame(r) \/ Age(r)
                       \/ Interrupted(r) \/ RuntimeKilled(r)
    \/ \E c \in Clients : Open(c) \/ Command(c) \/ Killed(c)
    \/ ChromeDies

Spec == Init /\ [][Next]_vars

\* A recorder's loop looks for the stop file and for Chrome at every tick, not
\* only when there is no heartbeat to give; every wait has a deadline.
Fairness ==
    /\ \A r \in Recs :
        /\ WF_vars(SeesStop(r)) /\ WF_vars(~chrome /\ SeesNoChrome(r))
        /\ WF_vars(rt[r] # "recording" /\ Runtime(r))
    /\ \A c \in Clients : WF_vars(Command(c))

FairSpec == Spec /\ Fairness

-----------------------------------------------------------------------------
(***************************************************************************)
(* Properties                                                              *)
(***************************************************************************)
Labels == {"idle", "start", "chapter", "stop", "clear", "spawn", "started",
           "save", "cancel", "cancelled", "undo", "undoing", "undone",
           "stopping", "unknown", "stopped"}
Phases == {"none", "born", "connecting", "capturing", "recording", "stopping",
           "failing", "gone"}

\* Every variable has its type; a status counts no more than was captured.
TypeOK ==
    /\ chrome \in BOOLEAN
    /\ record \in Recs \union {NoRec} /\ {stop, unasked} \subseteq SUBSET Recs
    /\ status \in [Recs -> [state : {"absent", "starting", "recording", "stopped", "failed"},
                            frames : 0..MaxFrames, fresh : BOOLEAN]]
    /\ manifest \in [Recs -> [complete : BOOLEAN, frames : 0..MaxFrames]]
    /\ rt \in [Recs -> Phases] /\ captured \in [Recs -> 0..MaxFrames]
    /\ pc \in [Clients -> Labels]
    /\ copy \in [Clients -> Recs \union {NoRec}]
    /\ mine \in [Clients -> Recs \union {NoRec}]
    /\ \A r \in Recs : status[r].frames <= captured[r]

\* A manifest that calls its recording complete counts every frame there will
\* ever be: "finish its current frame, stop CDP screencast, and publish its
\* final count".
CompleteIsComplete ==
    \A r \in Recs :
        manifest[r].complete => ~Running(r) /\ manifest[r].frames = captured[r]

\* A record leaves the state file only when its recorder has ended, be it by a
\* stop or by the recovery of a record whose recorder "disappeared without
\* publishing a terminal status", or when it could not be asked to.  Commands one
\* at a time, deadlines kept.
ClearedAfterTheEnd ==
    \A r \in Recs : record = r /\ record' # r => ~Running(r) \/ r \in unasked

\* Every recorder at work can be stopped: it is in the state file, or the
\* command that started it still holds it, or it has been asked to stop, or a
\* command has failed because it could not ask it.  Commands one at a time,
\* deadlines kept.
RecorderIsKnown ==
    \A r \in Recs : Running(r) =>
        \/ record = r
        \/ r \in stop \union unasked
        \/ \E c \in Clients : mine[c] = r /\ pc[c] # "idle"

\* A recorder that records stops when it is asked to, and none outlives its
\* Chrome.
RecordersStop ==
    \A r \in Recs :
        (rt[r] = "recording" /\ r \in stop) \/ ~chrome ~> ~Running(r)

\* Every command returns.
CommandsReturn == \A c \in Clients : pc[c] # "idle" ~> pc[c] = "idle"

\* Properties the code does not have.

\* A recorder "records the requested target until a stop file is requested":
\* whenever one is, the recorder ends.
EveryStopIsHeard == \A r \in Recs : r \in stop ~> ~Running(r)

\* "Stop video recording and write manifest": no record is cleared of a recorder
\* that is at work and was never told to stop.
ClearedWhenTold ==
    [][\A r \in Recs : record = r /\ record' # r => ~Running(r) \/ r \in stop]_vars

\* Every recorder at work can be stopped, whatever fails.
EveryRecorderIsKnown ==
    \A r \in Recs : Running(r) =>
        \/ record = r
        \/ r \in stop
        \/ \E c \in Clients : mine[c] = r /\ pc[c] # "idle"
=============================================================================
