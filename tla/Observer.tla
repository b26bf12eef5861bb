------------------------------- MODULE Observer -------------------------------
(* The observer of a page (engine/observer.go): four listeners, each with the  *)
(* loop rod runs for it, turn CDP messages into events; emit keeps the events  *)
(* in a ring and offers them to a channel.  A closer waits for the listeners,  *)
(* and Stop may come at any time.  One mutex guards everything, and the network*)
(* listener holds it while Chrome is asked for the body of a response.         *)
EXTENDS Naturals, Sequences, SequencesExt, FiniteSets

CONSTANTS Requests,       \* ids of network requests
          Wanted,         \* those whose type and URL pass NetTypes and NetURLRegex
          Kinds,          \* the kinds accepted (ObserverFilters.Kinds, {} for all)
          Evade,          \* EvadeRuntimeEnable: no console listener
          MaxEvents,      \* ObserverOpts.MaxEvents, 0 for no limit
          History,        \* the length of the ring
          BufferSize,     \* the room of the channel
          Messages,       \* messages of each other listener, to bound the runs
          StartMayFail    \* whether Network.enable may fail

ObserverAssumption ==
  /\ Wanted \subseteq Requests /\ Evade \in BOOLEAN /\ StartMayFail \in BOOLEAN
  /\ {MaxEvents, Messages} \subseteq Nat /\ {History, BufferSize} \subseteq Nat \ {0}

AllKinds  == {"net", "console", "error", "page"}
Listeners == {"net", "log", "page"} \cup (IF Evade THEN {} ELSE {"console"})
Nothing   == [kind |-> "none", id |-> "none", what |-> "none"]
Event(kind, id, what) == [kind |-> kind, id |-> id, what |-> what]

VARIABLES
  started,    \* "no", "yes" or "failed"
  ctx,        \* the context of the listeners: "live" or "cancelled"
  listening,  \* the listeners that have not called wg.Done
  looping,    \* the loops that may still take a message
  hand,       \* the event a loop has made and not yet emitted
  left,       \* messages the other listeners have still to come
  stage,      \* what Chrome has told of each request
  pending,    \* requests kept between their messages (pendingNet)
  mu,         \* "free", or the request whose body is asked for under the mutex
  ring, total, dropped,
  buffered,   \* events in the channel that nobody has read
  closing, closed, stopped,
  stopper     \* the caller of Stop: "idle", "lock", "cancel", "wait", "done"

vars == <<started, ctx, listening, looping, hand, left, stage, pending, mu, ring, total, dropped,
          buffered, closing, closed, stopped, stopper>>
net  == <<stage, pending>>
log  == <<ring, total, dropped, buffered>>
life == <<started, ctx, listening, looping, closing, closed, stopped>>

Init ==
  /\ started = "no" /\ ctx = "live" /\ listening = {} /\ looping = {}
  /\ hand = [l \in Listeners |-> Nothing]
  /\ left = [l \in Listeners \ {"net"} |-> Messages]
  /\ stage = [r \in Requests |-> "none"] /\ pending = {}
  /\ mu = "free"
  /\ ring = << >> /\ total = 0 /\ dropped = 0 /\ buffered = 0
  /\ closing = FALSE /\ closed = FALSE /\ stopped = FALSE
  /\ stopper = "idle"

(* Start: Network.enable is the one call whose failure matters.                *)
Start ==
  /\ started = "no"
  /\ \/ /\ started' = "yes" /\ listening' = Listeners /\ looping' = Listeners
     \/ /\ StartMayFail
        /\ started' = "failed"
        /\ UNCHANGED <<listening, looping>>
  /\ UNCHANGED <<ctx, hand, left, net, mu, log, closing, closed, stopped, stopper>>

Free(l) == l \in looping /\ hand[l] = Nothing /\ (l = "net" => mu = "free")

(* redirectNetEvent: a request seen before is a redirect, and its first leg is  *)
(* reported, whatever the filters say of it.                                   *)
RedirectNetEvent(r) ==
  IF stage[r] = "sent" THEN [hand EXCEPT !["net"] = Event("net", r, "redirect")] ELSE hand

(* listenNetwork, requestWillBeSent.                                           *)
RequestWillBeSent(r) ==
  /\ Free("net") /\ stage[r] \in {"none", "sent"}
  /\ stage' = [stage EXCEPT ![r] = IF @ = "none" THEN "sent" ELSE "again"]
  /\ pending' = pending \cup {r}
  /\ hand' = RedirectNetEvent(r)
  /\ UNCHANGED <<life, left, mu, log, stopper>>

(* responseReceived, of a request sent before the observer listened as well.   *)
ResponseReceived(r) ==
  /\ Free("net") /\ stage[r] \in {"none", "sent", "again"}
  /\ stage' = [stage EXCEPT ![r] = "responded"]
  /\ pending' = pending \cup {r}
  /\ UNCHANGED <<life, hand, left, mu, log, stopper>>

(* loadingFinished: the body is asked for with the mutex held; the request is  *)
(* forgotten when the answer, or an error, has come.                           *)
LoadingFinished(r) ==
  /\ Free("net") /\ stage[r] = "responded"
  /\ stage' = [stage EXCEPT ![r] = "done"]
  /\ mu' = IF r \in pending THEN r ELSE mu
  /\ UNCHANGED <<life, hand, left, pending, log, stopper>>

(* acceptNetType and acceptNetURL.                                             *)
Passes(r) == r \in Wanted

BodyAnswered ==
  /\ mu # "free"
  /\ mu' = "free"
  /\ pending' = pending \ {mu}
  /\ hand' = IF Passes(mu) THEN [hand EXCEPT !["net"] = Event("net", mu, "finished")] ELSE hand
  /\ UNCHANGED <<life, left, stage, log, stopper>>

LoadingFailed(r) ==
  /\ Free("net") /\ stage[r] \in {"sent", "again", "responded"}
  /\ stage' = [stage EXCEPT ![r] = "done"]
  /\ pending' = pending \ {r}
  /\ hand' = IF r \in pending /\ Passes(r) THEN [hand EXCEPT !["net"] = Event("net", r, "failed")] ELSE hand
  /\ UNCHANGED <<life, left, mu, log, stopper>>

(* listenConsole, listenLog and listenPage: a message that passes the levels   *)
(* becomes an event of its kind.                                               *)
KindsOf(l) == CASE l = "page" -> {"page"} [] OTHER -> {"console", "error"}
Message(l) ==
  /\ l # "net" /\ Free(l) /\ left[l] > 0
  /\ left' = [left EXCEPT ![l] = @ - 1]
  /\ \E k \in KindsOf(l) : hand' = [hand EXCEPT ![l] = Event(k, l, "message")]
  /\ UNCHANGED <<life, net, mu, log, stopper>>

(* emit: one critical section.                                                 *)
Accepts(k) == Kinds = {} \/ k \in Kinds
Full == MaxEvents > 0 /\ total >= MaxEvents
Recorded(e) ==
  LET all == Append(ring, e)
  IN ring' = IF Len(all) > History THEN Tail(all) ELSE all

Keep(e) ==
  /\ Recorded(e)
  /\ total' = total + 1
  /\ IF buffered < BufferSize THEN buffered' = buffered + 1 /\ UNCHANGED dropped
                              ELSE dropped' = dropped + 1 /\ UNCHANGED buffered

EmitAlways(l) ==      \* mutant: closing is not looked at
  /\ mu = "free" /\ hand[l] # Nothing
  /\ hand' = [hand EXCEPT ![l] = Nothing]
  /\ \/ ~Accepts(hand[l].kind) /\ UNCHANGED <<log, ctx>>
     \/ Accepts(hand[l].kind) /\ Full /\ dropped' = dropped + 1 /\ ctx' = "cancelled" /\ UNCHANGED <<ring, total, buffered>>
     \/ Accepts(hand[l].kind) /\ ~Full /\ Keep(hand[l]) /\ UNCHANGED ctx
  /\ UNCHANGED <<started, listening, looping, closing, closed, stopped, left, net, mu, stopper>>
Emit(l) ==
  /\ mu = "free" /\ hand[l] # Nothing
  /\ hand' = [hand EXCEPT ![l] = Nothing]
  /\ \/ (closing \/ ~Accepts(hand[l].kind)) /\ UNCHANGED <<log, ctx>>
     \/ /\ ~closing /\ Accepts(hand[l].kind) /\ Full
        /\ dropped' = dropped + 1 /\ ctx' = "cancelled"
        /\ UNCHANGED <<ring, total, buffered>>
     \/ /\ ~closing /\ Accepts(hand[l].kind) /\ ~Full
        /\ Keep(hand[l])
        /\ UNCHANGED ctx
  /\ UNCHANGED <<started, listening, looping, closing, closed, stopped, left, net, mu, stopper>>

(* The consumer of Events.                                                     *)
Consume ==
  /\ buffered > 0
  /\ buffered' = buffered - 1
  /\ UNCHANGED <<life, hand, left, net, mu, ring, total, dropped, stopper>>

(* The context ends: each listener calls wg.Done and cancels its loop, which   *)
(* ends when the handler it is in has returned.                                *)
ListenerDone(l) ==
  /\ ctx = "cancelled" /\ l \in listening
  /\ listening' = listening \ {l}
  /\ UNCHANGED <<started, ctx, looping, closing, closed, stopped, hand, left, net, mu, log, stopper>>

LoopEnds(l) ==
  /\ ctx = "cancelled" /\ Free(l)
  /\ looping' = looping \ {l}
  /\ UNCHANGED <<started, ctx, listening, closing, closed, stopped, hand, left, net, mu, log, stopper>>

(* ObserverOpts.Duration runs out.                                             *)
DurationEnds ==
  /\ started = "yes" /\ ctx = "live"
  /\ ctx' = "cancelled"
  /\ UNCHANGED <<started, listening, looping, closing, closed, stopped, hand, left, net, mu, log, stopper>>

(* waitAndClose.                                                               *)
CloseChannel ==
  /\ started = "yes" /\ listening = {} /\ ~closed /\ mu = "free"
  /\ closing' = TRUE /\ closed' = TRUE
  /\ UNCHANGED <<started, ctx, listening, looping, stopped, hand, left, net, mu, log, stopper>>
Stopped ==
  /\ closed /\ ~stopped
  /\ stopped' = TRUE
  /\ UNCHANGED <<started, ctx, listening, looping, closing, closed, hand, left, net, mu, log, stopper>>

(* Stop: the mutex, then the context, then the wait for the closer.            *)
CallStop ==
  /\ started # "no" /\ stopper = "idle"
  /\ stopper' = "lock"
  /\ UNCHANGED <<life, hand, left, net, mu, log>>

StopLocks ==
  /\ stopper = "lock" /\ mu = "free"
  /\ closing' = TRUE
  /\ stopper' = "cancel"
  /\ UNCHANGED <<started, ctx, listening, looping, closed, stopped, hand, left, net, mu, log>>

StopForgets ==        \* mutant: the context is left to its owner
  /\ stopper = "cancel"
  /\ stopper' = "wait"
  /\ UNCHANGED <<life, hand, left, net, mu, log>>
StopCancels ==
  /\ stopper = "cancel"
  /\ ctx' = IF started = "yes" THEN "cancelled" ELSE ctx
  /\ stopper' = "wait"
  /\ UNCHANGED <<started, listening, looping, closing, closed, stopped, hand, left, net, mu, log>>
StopReturns ==
  /\ stopper = "wait" /\ stopped
  /\ stopper' = "done"
  /\ UNCHANGED <<life, hand, left, net, mu, log>>

NetNext == \E r \in Requests :
             RequestWillBeSent(r) \/ ResponseReceived(r) \/ LoadingFinished(r) \/ LoadingFailed(r)
LoopNext(l) == Emit(l) \/ ListenerDone(l) \/ LoopEnds(l)
StopNext == StopLocks \/ StopCancels \/ StopReturns

Next ==
  \/ Start \/ NetNext \/ BodyAnswered \/ Consume \/ DurationEnds
  \/ \E l \in Listeners : Message(l) \/ LoopNext(l)
  \/ CloseChannel \/ Stopped \/ CallStop \/ StopNext

Spec == Init /\ [][Next]_vars

(* The goroutines run; Chrome answers for a body, with an error at the latest  *)
(* when the page is gone; a waiter for Go's mutex gets it in the end.          *)
Fairness ==
  /\ WF_vars(BodyAnswered) /\ WF_vars(CloseChannel) /\ WF_vars(Stopped)
  /\ WF_vars(StopCancels) /\ WF_vars(StopReturns) /\ SF_vars(StopLocks)
  /\ \A l \in Listeners : WF_vars(ListenerDone(l)) /\ SF_vars(Emit(l))

FairSpec == Spec /\ Fairness

-------------------------------------------------------------------------------
(* The ring and the channel stay in their bounds, and no event is counted twice*)
(* (emit, historyLimit).                                                       *)
TypeOK ==
  /\ Len(ring) <= History /\ buffered <= BufferSize
  /\ Len(ring) <= total /\ (MaxEvents > 0 => total <= MaxEvents)
  /\ mu \in {"free"} \cup Requests
  /\ stopped => closed
  /\ closed => closing

(* A request is kept only while Chrome has more to tell of it, or its body is  *)
(* asked for: what is done is forgotten (the pending map).                     *)
PendingIsOpen == \A r \in pending : stage[r] # "done" \/ mu = r

(* No event is sent on the closed channel, which would panic, though the loops *)
(* outlive the listeners the closer waits for (emit, waitAndClose).            *)
NoSendOnClosed == closed => buffered' <= buffered

(* Stop is final: what a caller reads after it does not change any more        *)
(* (console reads the ring when Stop has returned).                            *)
QuietAfterStop == (stopper \in {"wait", "done"}) => (UNCHANGED <<ring, total>>)

(* "Stop cancels listening, waits for goroutines, and closes the channel":     *)
(* it returns.                                                                 *)
StopEnds == stopper = "lock" ~> stopper = "done"

(* Once the limit or the duration has ended the context, the channel is closed *)
(* and a reader of it comes to an end (WriteNDJSON).                           *)
StreamEnds == ctx = "cancelled" ~> closed

(* "NetTypes filters by network resource type", "NetURLRegex filters net events*)
(* by URL": no event of a request that does not pass them.                     *)
FiltersHold == \A i \in DOMAIN ring : ring[i].kind = "net" => ring[i].id \in Wanted
===============================================================================
