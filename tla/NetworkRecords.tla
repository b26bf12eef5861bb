--------------------------- MODULE NetworkRecords ---------------------------
(* What the recorders of network traffic make of one stream of CDP events: the *)
(* capture (engine/capture.go), the audit of a load (network_audit.go), and the*)
(* tracker behind navigate, errors and preview (network_tracker.go, errors.go, *)
(* preview.go).  Each reads the stream in a loop of its own, some events behind*)
(* Chrome; a cancelled loop drops what it has not read.                        *)
EXTENDS Naturals, Sequences, SequencesExt, FiniteSets, FiniteSetsExt

CONSTANTS Requests,    \* ids of requests
          Loader,      \* [Requests -> Loaders]: the document each one belongs to
          Documents,   \* those that fetch the document of their loader
          Matching,    \* those that pass the regular expressions of a capture
          MaxHops,     \* redirects of a request, to bound the runs
          CaptureMax,  \* CaptureSpec.Max, 0 for no limit
          Bodies,      \* CaptureSpec.IncludeBody
          Challenge,   \* the first answer is a bot challenge (403, 503)
          Users        \* which recorders run: "capture", "audit", "preview"

(* "left": the page being left, and a navigation of its own that has begun;    *)
(* "asked": the document the trigger loads; "frame": a frame of it; "next": the*)
(* document it goes to by itself.                                              *)
Loaders == {"left", "asked", "frame", "next"}

NetworkAssumption ==
  /\ Loader \in [Requests -> Loaders] /\ Documents \subseteq Requests /\ Matching \subseteq Requests
  /\ {MaxHops, CaptureMax} \subseteq Nat /\ {Bodies, Challenge} \subseteq BOOLEAN
  /\ Users \subseteq {"capture", "audit", "preview"}

VARIABLES
  told,       \* the events of Chrome: [id, hop, what]
  life, hops, \* of each request, as Chrome has it
  triggered,  \* the navigation has been asked for
  cap,        \* the capture: state, position, and what it keeps
  pending,    \* its requests in flight: id -> hop
  matched, file,
  aud,        \* the audit
  audited,    \* its table: keys [id, hop of the redirected ones, or "now"]
  prev,       \* preview or errors: state, position, status reported
  tracked     \* the tracker's table: id -> [status, failed]

vars == <<told, life, hops, triggered, cap, pending, matched, file, aud, audited, prev, tracked>>
chrome  == <<told, life, hops>>
capture == <<cap, pending, matched, file>>
audit   == <<aud, audited>>
preview == <<prev, tracked>>

Absent == [f \in {} |-> 0]
With(f, x, v) == [y \in DOMAIN f \cup {x} |-> IF y = x THEN v ELSE f[y]]
Drop(f, x)    == [y \in DOMAIN f \ {x} |-> f[y]]

NoEntry == [id |-> "none", hop |-> 0]

Init ==
  /\ told = << >> /\ life = [r \in Requests |-> "none"] /\ hops = [r \in Requests |-> 0]
  /\ triggered = FALSE
  /\ cap = [state |-> "off", from |-> 0, at |-> 0, loop |-> "none", entry |-> NoEntry, fired |-> FALSE,
             failed |-> FALSE, returned |-> << >>, error |-> FALSE]
  /\ pending = Absent /\ matched = << >> /\ file = << >>
  /\ aud = [state |-> "off", from |-> 0, at |-> 0, loader |-> "none", order |-> 0, report |-> {}]
  /\ audited = Absent
  /\ prev = [state |-> "off", at |-> 0, main |-> "none", status |-> "none", errors |-> {}, due |-> {}]
  /\ tracked = Absent

-------------------------------------------------------------------------------
(* Chrome: a document begins when it is asked for, what it holds when it has   *)
(* been answered, and the page being left goes on until then.                  *)
Answered(l) == \E d \in Documents : Loader[d] = l /\ life[d] \in {"responded", "finished"}
MaySend(r) ==
  CASE Loader[r] = "left"  -> ~Answered("asked")
    [] Loader[r] = "frame" -> Answered("asked")
    [] Loader[r] = "asked" -> triggered /\ (r \in Documents \/ Answered("asked"))
    [] Loader[r] = "next"  -> Answered("asked") /\ (r \in Documents \/ Answered("next"))

Tell(r, hop, what) == told' = Append(told, [id |-> r, hop |-> hop, what |-> what])
Becomes(r, from, to) ==
  /\ life[r] \in from
  /\ life' = [life EXCEPT ![r] = to]
  /\ Tell(r, hops[r], to)
  /\ UNCHANGED <<hops, triggered, capture, audit, preview>>

Send(r) == MaySend(r) /\ Becomes(r, {"none"}, "sent")
Redirect(r) ==
  /\ life[r] = "sent" /\ hops[r] < MaxHops
  /\ hops' = [hops EXCEPT ![r] = @ + 1]
  /\ Tell(r, hops[r] + 1, "redirected")
  /\ UNCHANGED <<life, triggered, capture, audit, preview>>
Respond(r) == Becomes(r, {"sent"}, "responded")
Finish(r)  == Becomes(r, {"responded"}, "finished")
Fail(r)    == Becomes(r, {"sent", "responded"}, "failed")

ChromeNext == \E r \in Requests : Send(r) \/ Redirect(r) \/ Respond(r) \/ Finish(r) \/ Fail(r)

-------------------------------------------------------------------------------
(* StartCapture, and its handlers.  The answer of a redirect is an entry of its*)
(* own; a request that fails is forgotten; the body is asked for in the loop.  *)
CaptureStart ==
  /\ "capture" \in Users /\ cap.state = "off"
  /\ cap' = [cap EXCEPT !.state = "on", !.from = Len(told), !.at = Len(told), !.loop = "idle"]
  /\ UNCHANGED <<chrome, triggered, pending, matched, file, audit, preview>>

(* The commands navigate when the capture has begun.                           *)
CaptureNavigate ==
  /\ cap.state = "on" /\ ~triggered
  /\ triggered' = TRUE
  /\ UNCHANGED <<chrome, capture, audit, preview>>

Matches(id) == id \in Matching
CaptureRead ==
  /\ cap.loop = "idle" /\ cap.at < Len(told)
  /\ LET e == told[cap.at + 1]
         whole == e.what = "finished" /\ e.id \in DOMAIN pending
         entry == IF e.what = "redirected" THEN [id |-> e.id, hop |-> e.hop - 1] ELSE [id |-> e.id, hop |-> e.hop]
         kept == (whole \/ e.what = "redirected") /\ Matches(e.id)
     IN /\ pending' = CASE e.what \in {"sent", "redirected"} -> With(pending, e.id, e.hop)
                        [] e.what \in {"finished", "failed"} -> Drop(pending, e.id)
                        [] OTHER -> pending
        /\ cap' = [cap EXCEPT !.at = @ + 1,
                              !.entry = IF kept THEN entry ELSE NoEntry,
                              !.loop = IF ~kept THEN "idle" ELSE IF whole /\ Bodies THEN "fetch" ELSE "record"]
  /\ UNCHANGED <<chrome, triggered, matched, file, audit, preview>>

BodyComes ==
  /\ cap.loop = "fetch"
  /\ cap' = [cap EXCEPT !.loop = "record"]
  /\ UNCHANGED <<chrome, triggered, pending, matched, file, audit, preview>>

(* record: the list under its mutex, then the file under another, then the     *)
(* signal.  A write that fails is the last one.                                *)
Record ==
  /\ cap.loop = "record"
  /\ matched' = Append(matched, cap.entry)
  /\ cap' = [cap EXCEPT !.loop = "write"]
  /\ UNCHANGED <<chrome, triggered, pending, file, audit, preview>>

Fires(n) == CaptureMax > 0 /\ n >= CaptureMax
WriteEntry ==
  /\ cap.loop = "write"
  /\ \E ok \in BOOLEAN :
       /\ ok => ~cap.error /\ cap.state # "done"
       /\ file' = IF ok THEN Append(file, cap.entry) ELSE file
       /\ cap' = [cap EXCEPT !.loop = "idle", !.entry = NoEntry, !.error = @ \/ ~ok,
                             !.fired = @ \/ Fires(Len(matched))]
  /\ UNCHANGED <<chrome, triggered, pending, matched, audit, preview>>

(* Stop: cancels the loop and waits for it, two seconds at most; only a body   *)
(* that Chrome does not send takes that long.                                  *)
CaptureStop ==
  /\ cap.state = "on"
  /\ cap' = [cap EXCEPT !.state = "stopping"]
  /\ UNCHANGED <<chrome, triggered, pending, matched, file, audit, preview>>
CaptureLoopEnds ==
  /\ cap.state \in {"stopping", "done"} /\ cap.loop = "idle"
  /\ cap' = [cap EXCEPT !.loop = "ended"]
  /\ UNCHANGED <<chrome, triggered, pending, matched, file, audit, preview>>
CaptureStopReturns ==
  /\ cap.state = "stopping" /\ cap.loop \in {"ended", "fetch"}
  /\ cap' = [cap EXCEPT !.state = "done", !.returned = matched, !.failed = cap.error]
  /\ UNCHANGED <<chrome, triggered, pending, matched, file, audit, preview>>

CaptureNext ==
  CaptureStart \/ CaptureNavigate \/ CaptureRead \/ BodyComes \/ Record \/ WriteEntry \/ CaptureStop \/ CaptureLoopEnds \/ CaptureStopReturns

-------------------------------------------------------------------------------
(* AuditNetwork: the listeners, then the trigger, then the wait for quiet or   *)
(* the deadline, which may come at any moment.                                 *)
AuditStart ==
  /\ "audit" \in Users /\ aud.state = "off"
  /\ aud' = [aud EXCEPT !.state = "on", !.from = Len(told), !.at = Len(told)]
  /\ UNCHANGED <<chrome, triggered, capture, audited, preview>>
AuditTrigger ==
  /\ aud.state = "on" /\ ~triggered
  /\ triggered' = TRUE
  /\ UNCHANGED <<chrome, capture, audit, preview>>

HopKey(e) == <<e.id, aud.order>>
Begun(e) == [id |-> e.id, hop |-> e.hop, order |-> aud.order + 1, answered |-> FALSE, pending |-> TRUE, failed |-> FALSE]
Asked(e) ==
  LET now == <<e.id, 0>>
      was == IF e.what = "redirected" /\ now \in DOMAIN audited
             THEN With(audited, HopKey(e), [audited[now] EXCEPT !.answered = TRUE, !.pending = FALSE])
             ELSE audited
  IN With(was, now, Begun(e))

AuditRead ==
  /\ aud.state = "on" /\ aud.at < Len(told)
  /\ LET e == told[aud.at + 1]
         now == <<e.id, 0>>
         new == e.what \in {"sent", "redirected"}
     IN /\ audited' = IF new THEN Asked(e)
                      ELSE IF now \notin DOMAIN audited THEN audited
                      ELSE [audited EXCEPT ![now].answered = @ \/ e.what = "responded",
                                           ![now].pending  = @ /\ e.what = "responded",
                                           ![now].failed   = @ \/ e.what = "failed"]
        /\ aud' = [aud EXCEPT !.at = @ + 1,
                              !.order = IF new THEN @ + 1 ELSE @,
                              !.loader = IF new /\ @ = "none" /\ e.id \in Documents /\ Loader[e.id] # "frame"
                                         THEN Loader[e.id] ELSE @]
  /\ UNCHANGED <<chrome, triggered, capture, preview>>

Listed(q) == (aud.loader = "none" \/ Loader[q.id] = aud.loader) /\ Matches(q.id)
AuditEnds ==
  /\ aud.state = "on" /\ triggered
  /\ aud' = [aud EXCEPT !.state = "done", !.report = {q \in {audited[k] : k \in DOMAIN audited} : Listed(q)}]
  /\ UNCHANGED <<chrome, triggered, capture, audited, preview>>

AuditNext == AuditStart \/ AuditTrigger \/ AuditRead \/ AuditEnds

-------------------------------------------------------------------------------
(* The tracker: one entry for an id; the document is the first of the main     *)
(* frame.  The status is written as the loader of the request.                 *)
IsMainDocument(e) ==
  /\ prev.main = "none" /\ e.what \in {"sent", "redirected"}
  /\ e.id \in Documents /\ Loader[e.id] # "frame"

TrackerRead ==
  /\ prev.state \notin {"off", "done"} /\ prev.at < Len(told)
  /\ LET e == told[prev.at + 1]
         was == IF e.id \in DOMAIN tracked THEN tracked[e.id] ELSE [status |-> "none", failed |-> FALSE]
     IN /\ tracked' = CASE e.what \in {"sent", "redirected"} -> With(tracked, e.id, [was EXCEPT !.failed = FALSE])
                        [] e.what = "responded" -> With(tracked, e.id, [was EXCEPT !.status = Loader[e.id]])
                        [] e.what = "failed"    -> With(tracked, e.id, [was EXCEPT !.failed = TRUE])
                        [] OTHER -> tracked
        /\ prev' = [prev EXCEPT !.at = @ + 1, !.main = IF IsMainDocument(e) THEN e.id ELSE @]
  /\ UNCHANGED <<chrome, triggered, capture, audit>>

MainDocumentStatus == IF prev.main \in DOMAIN tracked THEN tracked[prev.main].status ELSE "none"

(* Preview and CollectErrors: the listeners, Navigate and its wait, and after a*)
(* challenge the wait for the page that follows.                               *)
PreviewNavigate ==
  /\ "preview" \in Users /\ prev.state = "off" /\ ~triggered
  /\ prev' = [prev EXCEPT !.state = "navigating", !.at = Len(told)]
  /\ triggered' = TRUE
  /\ UNCHANGED <<chrome, capture, audit, tracked>>

PreviewLoaded ==
  /\ prev.state = "navigating" /\ Answered("asked")
  /\ prev' = [prev EXCEPT !.state = IF Challenge /\ MainDocumentStatus = "asked" THEN "challenged" ELSE "loaded",
                          !.status = MainDocumentStatus]
  /\ UNCHANGED <<chrome, triggered, capture, audit, tracked>>

ChallengeResolved ==
  /\ prev.state = "challenged" /\ Answered("next")
  /\ prev' = [prev EXCEPT !.state = "resolved", !.status = MainDocumentStatus]
  /\ UNCHANGED <<chrome, triggered, capture, audit, tracked>>
ChallengeTimesOut ==
  /\ prev.state = "challenged"
  /\ prev' = [prev EXCEPT !.state = "loaded"]
  /\ UNCHANGED <<chrome, triggered, capture, audit, tracked>>

ErrorEntries == {r \in DOMAIN tracked : tracked[r].failed \/ (Challenge /\ tracked[r].status = "asked")}
PreviewReports ==
  /\ prev.state \in {"loaded", "resolved"}
  /\ prev' = [prev EXCEPT !.state = "done", !.errors = ErrorEntries, !.due = {r \in Requests : life[r] = "failed"}]
  /\ UNCHANGED <<chrome, triggered, capture, audit, tracked>>

PreviewNext ==
  PreviewNavigate \/ TrackerRead \/ PreviewLoaded \/ ChallengeResolved \/ ChallengeTimesOut \/ PreviewReports

Next == ChromeNext \/ CaptureNext \/ AuditNext \/ PreviewNext

Spec == Init /\ [][Next]_vars

-------------------------------------------------------------------------------
(* Every recorder keeps within what Chrome has told.                           *)
TypeOK ==
  /\ cap.at <= Len(told) /\ aud.at <= Len(told) /\ prev.at <= Len(told)
  /\ Len(file) <= Len(matched) /\ DOMAIN pending \subseteq Requests
  /\ \A r \in DOMAIN pending : pending[r] <= hops[r]
  /\ DOMAIN tracked \subseteq Requests

(* What Stop returns without an error is what the file holds, entry by entry,  *)
(* though the list and the file are written apart and Stop may give up waiting *)
(* (record, Stop).                                                             *)
ReturnedIsFile == cap.state = "done" /\ ~cap.failed => cap.returned = file

(* "Stops automatically once --max matching entries have been collected": the  *)
(* signal has come when the loop has recorded that many (record).              *)
MaxIsSignalled == CaptureMax > 0 /\ cap.loop \in {"idle", "ended"} /\ Len(matched) >= CaptureMax => cap.fired

(* An entry of the report tells what Chrome has told of that hop of the request*)
(* as far as the audit has read: a later hop under the same id changes nothing *)
(* of an earlier one (AuditNetwork).                                           *)
Seen(id, hop, whats) ==
  \E i \in (aud.from + 1)..aud.at : told[i].id = id /\ told[i].hop = hop /\ told[i].what \in whats
AuditTrue ==
  \A q \in aud.report :
    /\ q.pending = ~(Seen(q.id, q.hop, {"finished", "failed"}) \/ Seen(q.id, q.hop + 1, {"redirected"}))
    /\ q.failed = Seen(q.id, q.hop, {"failed"})

(* Every hop of a request of the document is in the report.                    *)
HopsAudited ==
  aud.state = "done" =>
    \A i \in (aud.from + 1)..aud.at :
      told[i].what \in {"sent", "redirected"} /\ Listed(told[i]) =>
        \E q \in aud.report : q.id = told[i].id /\ q.hop = told[i].hop

(* Navigate reports the status of the document it asked for or none, never that*)
(* of a frame or of a page that followed (MainDocumentStatus).                 *)
StatusIsMain == prev.state \in {"loaded", "challenged"} => prev.status \in {"none", "asked"}

(* "Capture enables the Chrome Network domain and records every request made by*)
(* the page": every one that has ended while it listened.                      *)
EveryRequestCaptured ==
  cap.state = "on" /\ cap.loop = "idle" /\ cap.at = Len(told) =>
    \A i \in (cap.from + 1)..cap.at :
      told[i].what = "sent" /\ Matches(told[i].id) /\ life[told[i].id] \in {"finished", "failed"} =>
        \E k \in DOMAIN matched : matched[k].id = told[i].id

(* "AuditNetwork records every request the page makes while trigger runs and   *)
(* until the network has been quiet": those of its frames as well.             *)
PageAudited ==
  aud.state = "done" =>
    \A i \in (aud.from + 1)..aud.at :
      told[i].what = "sent" /\ Matches(told[i].id) /\ Loader[told[i].id] # "left" =>
        \E q \in aud.report : q.id = told[i].id

(* "Without this, events that fired during navigation but were not yet drained *)
(* get dropped on return": no failure is dropped (CollectErrors).              *)
FailuresReported == prev.state = "done" => prev.due \subseteq prev.errors

(* "Challenge resolved - re-capture page info": the status is that of the page *)
(* which followed, the tracker having read all there is (Preview).              *)
ResolvedStatus ==
  [][(prev.state = "challenged" /\ prev'.state = "resolved" /\ prev.at = Len(told)) => prev'.status # "asked"]_vars
===============================================================================
