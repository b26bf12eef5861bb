----------------------------- MODULE PageLoads ------------------------------
(* Navigations of one tab and the wait for what they load (engine/navigator.go,*)
(* engine/wait.go): a waiter for a lifecycle event of the main frame is        *)
(* registered, the navigation is asked for, and the waiter ends at the first   *)
(* event of that name or at the deadline.  The wait tool waits without a       *)
(* navigation of its own.                                                      *)
EXTENDS Naturals, FiniteSets

CONSTANTS Ops,        \* what the tab is asked for, in \subseteq AllOps
          Strategies, \* wait strategies, in \subseteq AllStrategies
          Bounded,    \* the wait tool's page has a deadline
          MaxDocs,
          MaxCalls

AllOps == {"navigate", "reload", "history", "wait"}
AllStrategies == {"dcl", "load", "idle", "stable", "none"}

PageLoadsAssumption ==
  /\ Ops \subseteq AllOps /\ Strategies \subseteq AllStrategies
  /\ Bounded \in BOOLEAN /\ {MaxDocs, MaxCalls} \subseteq Nat \ {0}

VARIABLES
  docs,     \* how many documents have been asked for; the newest number
  shown,    \* the document the tab shows
  stage,    \* how far each document has got: 0 nothing, 1 dcl, 2 load, 3 idle
  pending,  \* the document asked for and not committed, 0 for none
  call,     \* the call: [op, wait, at, how, doc], doc the one it asked for, 0 for none
  armed,    \* the waiter is registered
  heard,    \* an event has reached the waiter: the document it was of, 0 for none
  frame,    \* it was the main frame's
  calls     \* calls so far

vars == <<docs, shown, stage, pending, call, armed, heard, frame, calls>>
tab == <<docs, shown, stage, pending>>
waiter == <<armed, heard, frame>>

Idle == [op |-> "none", wait |-> "none", at |-> "idle", how |-> "none", doc |-> 0]

Init ==
  /\ docs = 1 /\ shown = 1 /\ pending = 0
  /\ stage = [d \in 1..MaxDocs |-> 0]
  /\ call = Idle
  /\ armed = FALSE /\ heard = 0 /\ frame = "main"
  /\ calls = 0

(* lifecycleName: stable and none have no event.                               *)
Name(wait) ==
  CASE wait = "dcl"  -> 1
    [] wait = "load" -> 2
    [] wait = "idle" -> 3
    [] OTHER -> 0

Return(how) == call' = [call EXCEPT !.at = "returned", !.how = how]

Begin(op, wait) ==
  /\ call.at = "idle" /\ calls < MaxCalls
  /\ call' = [op |-> op, wait |-> wait, at |-> IF op = "wait" THEN "page" ELSE "begun", how |-> "none", doc |-> 0]
  /\ calls' = calls + 1
  /\ UNCHANGED <<tab, waiter>>

(* armLifecycleWait, before the navigation.                                    *)
Arm ==
  /\ call.at = "begun"
  /\ call' = [call EXCEPT !.at = "armed"]
  /\ armed' = (Name(call.wait) # 0)
  /\ heard' = 0 /\ frame' = "main"
  /\ UNCHANGED <<tab, calls>>

(* Page.navigate answers once the document is committed or refused; reload and *)
(* history.back answer at once.                                                *)
Request ==
  /\ call.at = "armed" /\ docs < MaxDocs
  /\ docs' = docs + 1 /\ pending' = docs + 1
  /\ call' = [call EXCEPT !.at = IF call.op = "navigate" THEN "asked" ELSE "waiting", !.doc = docs + 1]
  /\ UNCHANGED <<shown, stage, waiter, calls>>

Committed ==
  /\ call.at = "asked" /\ pending # call.doc
  /\ IF shown = call.doc
       THEN /\ call' = [call EXCEPT !.at = "waiting"] /\ armed' = (Name(call.wait) # 0)
       ELSE /\ Return("error") /\ armed' = FALSE
  /\ UNCHANGED <<tab, heard, frame, calls>>

(* The wait: the event, or the deadline, which is no error.  A strategy        *)
(* without an event goes on to WaitForPage.                                    *)
Ends(how) == Return(how) /\ armed' = FALSE /\ UNCHANGED <<tab, heard, frame, calls>>

WaitEvent ==
  /\ call.at \in {"waiting", "listening"}
  /\ heard # 0
  /\ Ends("event")
NavDeadline ==
  /\ call.at \in {"asked", "waiting"} /\ Name(call.wait) # 0
  /\ Ends(IF call.at = "asked" THEN "error" ELSE "deadline")
PageDeadline == call.at = "listening" /\ Bounded /\ Ends("deadline")

WaitDeadline == NavDeadline \/ PageDeadline

(* WaitForPage.  For domcontentloaded it reads the state of the document and   *)
(* then registers a listener, with no deadline but the page's.                 *)
WaitForPage ==
  /\ call.at = "page" \/ (call.at = "waiting" /\ Name(call.wait) = 0)
  /\ CASE call.wait = "none" -> Ends("event")
       [] call.wait = "stable" -> \E how \in {"event", "deadline"} :
                                    (how = "event" => stage[shown] = 3) /\ Ends(how)
       [] call.wait = "idle" -> \E how \in {"event", "deadline"} : Ends(how)
       [] call.wait = "load" -> stage[shown] >= 2 /\ Ends("event")
       [] call.wait = "dcl" ->
            IF stage[shown] >= 1 THEN Ends("event")
            ELSE call' = [call EXCEPT !.at = "unheard"] /\ UNCHANGED <<tab, waiter, calls>>

Listen ==
  /\ call.at = "unheard"
  /\ call' = [call EXCEPT !.at = "listening"]
  /\ armed' = TRUE /\ heard' = 0 /\ frame' = "main"
  /\ UNCHANGED <<tab, calls>>

Done ==
  /\ call.at = "returned"
  /\ call' = Idle
  /\ UNCHANGED <<tab, waiter, calls>>

(* Chrome: a document is committed or refused, gets on, in the main frame or   *)
(* in one below it; each stage is an event.                                    *)
Commit ==
  /\ pending # 0
  /\ \/ shown' = pending
     \/ /\ shown' = shown /\ call.op = "navigate"
  /\ pending' = 0
  /\ UNCHANGED <<docs, stage, call, waiter, calls>>

Wanted(f) == f = "main"

Event(name, f) ==
  IF armed /\ heard = 0 /\ Wanted(f) /\ name = (IF call.at = "listening" THEN 1 ELSE Name(call.wait))
    THEN heard' = shown /\ frame' = f
    ELSE UNCHANGED <<heard, frame>>

Progress ==
  /\ stage[shown] < 3
  /\ stage' = [stage EXCEPT ![shown] = @ + 1]
  /\ Event(stage[shown] + 1, "main")
  /\ UNCHANGED <<docs, shown, pending, call, armed, calls>>

SubFrame(name) ==
  /\ Event(name, "sub")
  /\ UNCHANGED <<tab, call, armed, calls>>

Caller == Arm \/ Request \/ Committed \/ WaitEvent \/ WaitForPage \/ Listen
Chrome == Commit \/ Progress

Next ==
  \/ \E op \in Ops, wait \in Strategies : Begin(op, wait)
  \/ Caller \/ WaitDeadline \/ Done
  \/ Chrome \/ \E name \in 1..3 : SubFrame(name)

Spec == Init /\ [][Next]_vars

(* The caller goes on and a deadline comes, whatever the page does; and with a *)
(* page that loads.                                                            *)
FairSpec == Spec /\ WF_vars(Caller) /\ WF_vars(WaitDeadline)
LoadingSpec == FairSpec /\ WF_vars(Chrome)

-----------------------------------------------------------------------------
(* Types of the variables.                                                     *)
TypeOK ==
  /\ docs \in 1..MaxDocs /\ shown \in 1..docs /\ pending \in 0..docs
  /\ stage \in [1..MaxDocs -> 0..3]
  /\ call.op \in AllOps \cup {"none"} /\ call.wait \in AllStrategies
  /\ call.at \in {"idle", "begun", "armed", "asked", "waiting", "page", "unheard", "listening", "returned"}
  /\ call.how \in {"none", "event", "deadline", "error"} /\ call.doc \in 0..docs
  /\ armed \in BOOLEAN /\ heard \in 0..docs /\ frame \in {"main", "sub"}

(* Navigate: "The lifecycle waiter is registered BEFORE page.Navigate so a fast*)
(* load cannot outrun it": a wait for the document asked for does not run into *)
(* its deadline once that document has got as far.                             *)
NotOutrun ==
  call.at = "waiting" /\ Name(call.wait) # 0 /\ shown = call.doc /\ stage[shown] >= Name(call.wait)
    => heard # 0

(* "Ignore iframe/subframe lifecycle": what ends a wait is an event of the tab,*)
(* of a document that has got that far.                                        *)
MainFrameEnds ==
  call.at = "returned" /\ call.how = "event" /\ call.op # "wait" /\ Name(call.wait) # 0 =>
    frame = "main" /\ stage[heard] >= Name(call.wait)

(* A navigation ends, whatever the page does.                                  *)
NavigationEnds == (call.at \in {"asked", "waiting"} /\ Name(call.wait) # 0) ~> (call.at = "returned")

(* WaitForPage: domcontentloaded "fires when HTML parsed": the wait of a tab   *)
(* that loads ends.                                                            *)
DomWaitEnds == (call.at = "page" /\ call.wait = "dcl") ~> (call.at = "returned")

(* back: "Returns the resulting page URL and title after navigating back": at  *)
(* the return by an event the tab shows the document asked for.                *)
ReturnsAtResult ==
  call.at = "returned" /\ call.op = "history" /\ call.how = "event" => shown = call.doc
=============================================================================
