------------------------------ MODULE Recorder ------------------------------
(* record (core/artifact/recorder.go, cli/record.go): a script in the page     *)
(* reports what the user does, and the recorder writes ops an agent can replay.*)
(* Typing is held back until a field has been left alone for a while, by a     *)
(* timer of its own, while the dispatcher of events handles the next one.      *)
(*                                                                             *)
(* EachEvent subscribes at once and hands events to its callbacks only while   *)
(* the function it returns runs; everywhere else in the repository that is a   *)
(* goroutine (interactor.go:931).  Here it is kept as stopCDP and first run by *)
(* Stop.                                                                       *)
EXTENDS Naturals, Sequences, FiniteSets

CONSTANTS Fields,        \* selectors of input fields
          Urls,          \* addresses a page may have
          Kinds,         \* the kinds of event the user causes
          MaxEvents,     \* bound: events
          StopOnNavigate \* --stop-on-navigate

AllKinds == {"input", "click", "select", "key", "submit", "hover", "navigated"}
RecorderAssumption ==
  /\ Kinds \subseteq AllKinds /\ MaxEvents \in Nat /\ StopOnNavigate \in BOOLEAN

VARIABLES events,    \* what the user has done, in order
          read,      \* how many of the events have been dispatched
          pending,   \* typePending: the event whose value a field holds back, or 0
          timer,     \* typeTimers: the fields whose timer runs
          fired,     \* timers that have fired and not yet taken the lock
          hand,      \* values taken out and not yet written
          handling,  \* what the dispatcher does with its event
          lastURL,
          out,       \* the ops written
          command,   \* "records", "flushes", "waits" in Stop, "ended"
          chrome     \* the browser is there

vars == <<events, read, pending, timer, fired, hand, handling, lastURL, out, command, chrome>>

Init ==
  /\ events = << >> /\ read = 0 /\ out = << >>
  /\ pending = [f \in Fields |-> 0] /\ timer = {} /\ fired = {} /\ hand = {}
  /\ handling = "nothing" /\ lastURL \in Urls
  /\ command = "records" /\ chrome = TRUE

Held == {f \in Fields : pending[f] # 0}
Current == events[read]

-----------------------------------------------------------------------------
(* The listener in the page: an event for what the user does.                  *)
UserActs ==
  /\ chrome /\ Len(events) < MaxEvents /\ command # "ended"
  /\ \E k \in Kinds : \E on \in IF k = "input" THEN Fields ELSE IF k = "navigated" THEN Urls ELSE {"page"} :
       events' = Append(events, [t |-> k, on |-> on])
  /\ UNCHANGED <<read, pending, timer, fired, hand, handling, lastURL, out, command, chrome>>

(* The callbacks run while Stop runs stopCDP.                                  *)
Dispatching == command = "waits"

Handle(how) ==
  /\ Dispatching /\ handling = "nothing" /\ read < Len(events)
  /\ read' = read + 1 /\ handling' = how

(* coalesceType: the value replaces the one before, the timer starts anew.     *)
Coalesce ==
  /\ Handle("nothing") /\ events[read + 1].t = "input"
  /\ LET f == events[read + 1].on
     IN  pending' = [pending EXCEPT ![f] = read + 1] /\ timer' = timer \union {f}
  /\ UNCHANGED <<events, fired, hand, lastURL, out, command, chrome>>

(* handleBinding: click, key and submit flush the typing first, select and     *)
(* hover do not.                                                               *)
Flushing == {"click", "key", "submit"}
Receive ==
  /\ Handle(IF events[read + 1].t \in Flushing THEN "flush" ELSE "emit")
  /\ events[read + 1].t \in AllKinds \ {"input", "navigated"}
  /\ UNCHANGED <<events, pending, timer, fired, hand, lastURL, out, command, chrome>>

(* handleFrameNavigated: the same address again is nothing.                    *)
Navigated ==
  /\ Handle(IF events[read + 1].on = lastURL THEN "nothing" ELSE "flush")
  /\ events[read + 1].t = "navigated"
  /\ lastURL' = events[read + 1].on
  /\ UNCHANGED <<events, pending, timer, fired, hand, out, command, chrome>>

-----------------------------------------------------------------------------
(* emitType under typeMu: the value and the timer go, and the lock is let go   *)
(* while the op is written.                                                    *)
Take(f, by) ==
  /\ pending[f] # 0
  /\ hand' = hand \union {[by |-> by, field |-> f, at |-> pending[f]]}
  /\ pending' = [pending EXCEPT ![f] = 0] /\ timer' = timer \ {f}

Op(op, on, at) == [op |-> op, on |-> on, at |-> at]
Put(h) == /\ out' = Append(out, Op("type", h.field, h.at)) /\ hand' = hand \ {h}
          /\ UNCHANGED pending

(* flushTypingFor("") and flushAllTyping by the dispatcher: one field after    *)
(* another, in the order of the map.                                           *)
FlushOne ==
  /\ handling = "flush" /\ \A h \in hand : h.by # "dispatcher"
  /\ \E f \in Held : Take(f, "dispatcher")
  /\ UNCHANGED <<events, read, fired, handling, lastURL, out, command, chrome>>
Write ==
  /\ \E h \in hand : Put(h)
  /\ UNCHANGED <<events, read, timer, fired, handling, lastURL, command, chrome>>
Flushed ==
  /\ handling = "flush" /\ Held = {} /\ \A h \in hand : h.by # "dispatcher"
  /\ handling' = "emit"
  /\ UNCHANGED <<events, read, pending, timer, fired, hand, lastURL, out, command, chrome>>

OpOf(t) == CASE t = "click" -> "click" [] t = "key" -> "press" [] t = "select" -> "select"
             [] t = "hover" -> "hover" [] t = "navigated" -> "navigate" [] OTHER -> "none"
Emit ==
  /\ handling = "emit" /\ handling' = "nothing"
  /\ out' = IF OpOf(Current.t) = "none" THEN out ELSE Append(out, Op(OpOf(Current.t), Current.on, read))
  /\ UNCHANGED <<events, read, pending, timer, fired, hand, lastURL, command, chrome>>

(* The timer of a field: it fires, waits for typeMu and flushes its field.     *)
Fire ==
  /\ \E f \in timer : fired' = fired \union {f} /\ timer' = timer \ {f}
  /\ command # "ended"
  /\ UNCHANGED <<events, read, pending, hand, handling, lastURL, out, command, chrome>>
FlushField ==
  /\ \E f \in fired :
       /\ fired' = fired \ {f}
       /\ \/ Take(f, "timer")
          \/ pending[f] = 0 /\ UNCHANGED <<pending, hand, timer>>
  /\ UNCHANGED <<events, read, handling, lastURL, out, command, chrome>>

-----------------------------------------------------------------------------
(* Ctrl-C, and Stop: the typing is flushed, then stopCDP runs and comes back   *)
(* when there is nothing to listen to any more.                                *)
Signal ==
  /\ command = "records" /\ command' = "flushes"
  /\ UNCHANGED <<events, read, pending, timer, fired, hand, handling, lastURL, out, chrome>>
StopCDP ==
  /\ command = "flushes" /\ Held = {} /\ command' = "waits"
  /\ UNCHANGED <<events, read, pending, timer, fired, hand, handling, lastURL, out, chrome>>
Close ==
  /\ command = "waits" /\ ~chrome /\ handling = "nothing"
  /\ command' = "ended" /\ timer' = {} /\ fired' = {} /\ hand' = {}
  /\ UNCHANGED <<events, read, pending, handling, lastURL, out, chrome>>

(* The user closes the browser.                                                *)
CloseBrowser ==
  /\ chrome /\ chrome' = FALSE
  /\ UNCHANGED <<events, read, pending, timer, fired, hand, handling, lastURL, out, command>>

Program == Coalesce \/ Receive \/ Navigated \/ FlushOne \/ Write \/ Flushed \/ Emit
           \/ Fire \/ FlushField \/ StopCDP \/ Close
Next == Program \/ UserActs \/ Signal \/ CloseBrowser
Spec == Init /\ [][Next]_vars
FairSpec == Spec /\ WF_vars(Program)

-----------------------------------------------------------------------------
TypeOK ==
  /\ Len(events) <= MaxEvents /\ read \in 0..Len(events)
  /\ pending \in [Fields -> 0..MaxEvents] /\ timer \subseteq Fields /\ fired \subseteq Fields
  /\ \A h \in hand : h.field \in Fields /\ h.at \in 1..read
  /\ handling \in {"nothing", "flush", "emit"} /\ lastURL \in Urls
  /\ \A i \in DOMAIN out : out[i].at \in 1..read
  /\ command \in {"records", "flushes", "waits", "ended"} /\ chrome \in BOOLEAN

(* No text is lost to the lock that is let go for the writing: what was typed  *)
(* last into a field is held back, in hand, or written.                        *)
Inputs(f) == {i \in 1..read : events[i].t = "input" /\ events[i].on = f}
NoTextLost ==
  command # "ended" =>
    \A f \in Fields : Inputs(f) # {} =>
      LET newest == CHOOSE i \in Inputs(f) : \A j \in Inputs(f) : j <= i
      IN  \/ pending[f] = newest \/ \E h \in hand : h.field = f /\ h.at = newest
          \/ \E i \in DOMAIN out : out[i].op = "type" /\ out[i].on = f /\ out[i].at = newest

(* A value is typed once, however the timer, the flush and the next input race.*)
TypedOnce ==
  \A i, j \in DOMAIN out : (out[i].op = "type" /\ out[j].op = "type" /\ out[i].at = out[j].at) => i = j

(* A value that is held back will be written: its timer runs, has fired, or    *)
(* the dispatcher is flushing.                                                 *)
HeldHasTimer ==
  command # "ended" => \A f \in Held : f \in timer \union fired \/ handling = "flush"

(* recorder.go:248, "flush any pending type before click", and cli.md:671, "the*)
(* equivalent agent JSONL script": the ops come in the order of what was done. *)
OrderKept == \A i, j \in DOMAIN out : i < j => out[i].at <= out[j].at

(* recorder.go:118, "Stop tears down the recorder and flushes any pending      *)
(* typed text".                                                                *)
StopFlushes == command = "ended" => Held = {} /\ read = Len(events)

(* record.go:26, "Each action is emitted as a JSONL op line".                  *)
ActionsWritten ==
  \A n \in 1..MaxEvents :
    (Len(events) >= n /\ events[n].t = "click") ~> (\E i \in DOMAIN out : out[i].at = n)

(* record.go:39, "Stop with Ctrl-C; the file is flushed and closed cleanly".   *)
StopEnds == (command = "flushes") ~> (command = "ended")

(* record.go:109, "Stop recording after the first navigation".                 *)
StopsOnNavigate ==
  StopOnNavigate =>
    \A i, j \in DOMAIN out : (i < j /\ out[i].op = "navigate") => FALSE

(* recorder.go:15, "The schema matches the agentRequest format consumed by     *)
(* ghostchrome agent": an op has the arguments the agent's op of the name asks *)
(* for.                                                                        *)
Given == [click |-> {"target", "byText"}, type |-> {"target", "text"}, select |-> {"target", "value"},
          press |-> {"key"}, hover |-> {"target"}, navigate |-> {"url"}]
Needed == [click |-> {"ref"}, type |-> {"ref", "text"}, select |-> {"ref", "values"},
           press |-> {"key"}, hover |-> {"ref"}, navigate |-> {"url"}]
Replayable == \A i \in DOMAIN out : Needed[out[i].op] \subseteq Given[out[i].op]
=============================================================================
