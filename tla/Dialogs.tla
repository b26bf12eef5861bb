------------------------------ MODULE Dialogs -------------------------------
(* JavaScript dialogs of one page (engine/interactor.go): a listener for each  *)
(* rod handle of the page answers every dialog by a policy, and a one-shot     *)
(* request (cli/dialog.go, feedback/recovery.go) is routed through it.  The    *)
(* tools of the MCP server work on a clone of the page's handle, made anew for *)
(* each call and ended with it.                                                *)
EXTENDS Naturals, FiniteSets, FiniteSetsExt, Functions

CONSTANTS page,        \* the handle the session keeps
          Clones,      \* the handles of calls
          Callers,     \* callers of HandleNextDialog, the recovery hook among them
          recovery,    \* the caller that is RecoverDialogAccept
          Preinstalled,\* the handler is there from the start
          MaxDialogs,
          MayClose     \* Browser.Close of an attached browser while the process goes on

DialogAssumption ==
  /\ page \notin Clones /\ MaxDialogs \in Nat \ {0}
  /\ Callers \intersect (Clones \cup {page}) = {}
  /\ {"none", "policy", "direct"} \intersect (Callers \cup Clones \cup {page}) = {}
  /\ {Preinstalled, MayClose} \subseteq BOOLEAN

Handles == {page} \cup Clones
Answers == {"accept", "dismiss"}

VARIABLES
  policy,     \* the answer of the session's policy object
  keys,       \* dialogAutoOnce: the handles with an entry
  policies,   \* dialogAutoPolicies: "session" or "own", "none" without an entry
  waiter,     \* dialogAutoWaiters of each handle: the caller, or "none"
  listening,  \* listeners a handle has
  heard,      \* dialogs the listener of a handle, or a caller, has still to take
  hand,       \* the answer a listener is about to give: [n, answer, by]
  call,       \* the clone of the call under way, or "none"
  used,       \* clones that have been
  caller,     \* each caller of HandleNextDialog: [state, answer, via, since]
  open,       \* the dialog that is open, 0 for none
  count,      \* dialogs so far
  answered    \* what became of each: [answer, by, allowed]

vars == <<policy, keys, policies, waiter, listening, heard, hand, call, used, caller, open, count, answered>>
tables == <<keys, policies, listening>>
calls  == <<call, used>>
chrome == <<open, count, answered>>

NoHand == [n |-> 0, answer |-> "none", by |-> "none"]
Idle   == [state |-> "idle", answer |-> "none", via |-> "none", since |-> 0]

Init ==
  /\ policy = "accept"
  /\ keys = IF Preinstalled THEN {page} ELSE {}
  /\ policies = [h \in Handles |-> IF Preinstalled /\ h = page THEN "session" ELSE "none"]
  /\ waiter = [h \in Handles |-> "none"]
  /\ listening = [h \in Handles |-> IF Preinstalled /\ h = page THEN 1 ELSE 0]
  /\ heard = [x \in Handles \cup Callers |-> {}]
  /\ hand = [h \in Handles |-> NoHand]
  /\ call = "none" /\ used = {}
  /\ caller = [c \in Callers |-> Idle]
  /\ open = 0 /\ count = 0
  /\ answered = [n \in 1..MaxDialogs |-> [answer |-> "none", by |-> "none", allowed |-> {}]]

(* StartDialogAutoHandler: the policy is stored in any case, the listener begun*)
(* when the handle has none.                                                   *)
Install(h, p) ==
  /\ policies' = [policies EXCEPT ![h] = p]
  /\ keys' = keys \cup {h}
  /\ listening' = IF h \in keys THEN listening ELSE [listening EXCEPT ![h] = @ + 1]

StartHandler ==
  /\ Install(page, "session")
  /\ UNCHANGED <<policy, waiter, heard, hand, calls, caller, chrome>>

(* The dialog tool and op, between calls (the server's mutex): the policy      *)
(* object is changed in place.  A dialog that is open may be answered by either*)
(* of the two.                                                                 *)
SetPolicy(a) ==
  /\ call = "none"
  /\ policy' = a
  /\ answered' = IF open = 0 THEN answered ELSE [answered EXCEPT ![open].allowed = @ \cup {a}]
  /\ UNCHANGED <<tables, waiter, heard, hand, calls, caller, open, count>>

(* A tool call: its clone; the navigation, which ends in EnableDialogAutoAccept*)
(* of the handle it has been given; the end of the call's context.             *)
CallBegins(h) ==
  /\ call = "none" /\ h \notin used
  /\ call' = h /\ used' = used \cup {h}
  /\ UNCHANGED <<policy, tables, waiter, heard, hand, caller, chrome>>
Navigate(h) ==
  /\ h = call \/ (h = page /\ call = "none")
  /\ Install(h, IF policies[h] = "none" THEN "own" ELSE policies[h])
  /\ UNCHANGED <<policy, waiter, heard, hand, calls, caller, chrome>>
CallEnds ==
  /\ call # "none" /\ hand[call] = NoHand
  /\ call' = "none"
  /\ listening' = [listening EXCEPT ![call] = 0]
  /\ heard' = [heard EXCEPT ![call] = {}]
  /\ UNCHANGED <<policy, keys, policies, waiter, hand, used, caller, chrome>>

(* Chrome opens a dialog, and every listener is told; the page stands still    *)
(* until it has been answered.                                                 *)
Direct(c) == caller[c].state = "waiting" /\ caller[c].via = "direct"
Open ==
  /\ open = 0 /\ count < MaxDialogs
  /\ open' = count + 1 /\ count' = count + 1
  /\ answered' = [answered EXCEPT ![count + 1].allowed = {policy}]
  /\ heard' = [x \in Handles \cup Callers |->
                 IF (x \in Handles /\ listening[x] > 0) \/ (x \in Callers /\ Direct(x))
                 THEN heard[x] \cup {count + 1} ELSE heard[x]]
  /\ UNCHANGED <<policy, tables, waiter, hand, calls, caller>>

(* The listener's handler: a one-shot request goes before the policy.          *)
PolicyFixed(h) == "accept"      \* mutant: the policy the listener began with
PolicyOf(h) == IF policies[h] = "session" \/ (policies[h] = "none" /\ h = page) THEN policy ELSE "accept"
Take(h) ==
  \E n \in heard[h] :
    /\ hand[h] = NoHand
    /\ heard' = [heard EXCEPT ![h] = @ \ {n}]
    /\ waiter' = [waiter EXCEPT ![h] = "none"]
    /\ hand' = [hand EXCEPT ![h] = IF waiter[h] # "none"
                                   THEN [n |-> n, answer |-> caller[waiter[h]].answer, by |-> waiter[h]]
                                   ELSE [n |-> n, answer |-> PolicyOf(h), by |-> "policy"]]
    /\ UNCHANGED <<policy, tables, calls, caller, chrome>>

(* Page.handleJavaScriptDialog: the first answer closes the dialog, a later one*)
(* is an error.  Who asked for it is told.                                     *)
Closes(n, answer, by) ==
  IF open = n THEN /\ open' = 0
                   /\ answered' = [answered EXCEPT ![n].answer = answer, ![n].by = by]
              ELSE UNCHANGED <<open, answered>>
Answer(h) ==
  /\ hand[h] # NoHand
  /\ Closes(hand[h].n, hand[h].answer, hand[h].by)
  /\ caller' = IF hand[h].by \in Callers /\ caller[hand[h].by].state = "waiting"
               THEN [caller EXCEPT ![hand[h].by].state = IF open = hand[h].n THEN "handled" ELSE "failed"]
               ELSE caller
  /\ hand' = [hand EXCEPT ![h] = NoHand]
  /\ UNCHANGED <<policy, tables, waiter, heard, calls, count>>

(* HandleNextDialog: through the listener when the handle has one; a second    *)
(* request is refused.  Without one the caller listens for himself.            *)
Ask(c, h, a) ==
  /\ caller[c].state = "idle" /\ h \in {page, call} \ {"none"} /\ waiter[h] = "none"
  /\ c = recovery => a = "accept"
  /\ waiter' = IF h \in keys THEN [waiter EXCEPT ![h] = c] ELSE waiter
  /\ caller' = [caller EXCEPT ![c] = [state |-> "waiting", answer |-> a, since |-> count,
                                      via |-> IF h \in keys THEN h ELSE "direct"]]
  /\ UNCHANGED <<policy, tables, heard, hand, calls, chrome>>
Refused(c, h) ==
  /\ caller[c].state = "idle" /\ h \in {page, call} \cap keys /\ waiter[h] # "none"
  /\ caller' = [caller EXCEPT ![c].state = "failed"]
  /\ UNCHANGED <<policy, tables, waiter, heard, hand, calls, chrome>>
AnswerDirect(c) ==
  \E n \in heard[c] :
    /\ Closes(n, caller[c].answer, c)
    /\ heard' = [heard EXCEPT ![c] = {}]
    /\ caller' = [caller EXCEPT ![c].state = IF open = n THEN "handled" ELSE "failed"]
    /\ UNCHANGED <<policy, tables, waiter, hand, calls, count>>
TimesOut(c) ==
  /\ caller[c].state = "waiting"
  /\ caller' = [caller EXCEPT ![c].state = "timed out"]
  /\ waiter' = [h \in Handles |-> IF waiter[h] = c THEN "none" ELSE waiter[h]]
  /\ heard' = [heard EXCEPT ![c] = {}]
  /\ UNCHANGED <<policy, tables, hand, calls, chrome>>

(* Browser.Close of a browser it does not own: forgetPageEventState deletes the*)
(* keys; the target, and with it the listener, go on.                          *)
Close ==
  /\ MayClose /\ call = "none" /\ page \in keys /\ listening[page] = 1      \* once, to bound the runs
  /\ keys' = keys \ {page} /\ policies' = [policies EXCEPT ![page] = "none"]
  /\ waiter' = [waiter EXCEPT ![page] = "none"]
  /\ UNCHANGED <<policy, listening, heard, hand, calls, caller, chrome>>

ListenerNext(h) == Take(h) \/ Answer(h)
CallerNext(c) == (\E h \in Handles : Refused(c, h) \/ \E a \in Answers : Ask(c, h, a)) \/ AnswerDirect(c) \/ TimesOut(c)

Next ==
  \/ StartHandler \/ Open \/ CallEnds \/ Close
  \/ \E a \in Answers : SetPolicy(a)
  \/ \E h \in Clones : CallBegins(h)
  \/ \E h \in Handles : Navigate(h) \/ ListenerNext(h)
  \/ \E c \in Callers : CallerNext(c)

Spec == Init /\ [][Next]_vars

(* rod delivers the events it has, and Chrome answers.                         *)
FairSpec == Spec /\ \A h \in Handles : WF_vars(ListenerNext(h))

-------------------------------------------------------------------------------
(* One dialog is open at a time, a request is in one table at most and its     *)
(* caller waits for it, and an entry of the page has its one listener          *)
(* ("keeping exactly one event listener for each rod.Page instance").          *)
TypeOK ==
  /\ open \in 0..count /\ count <= MaxDialogs
  /\ \A h \in Handles : waiter[h] # "none" => caller[waiter[h]].state = "waiting"
  /\ \A h \in Handles : listening[h] <= 1
  /\ page \in keys => listening[page] = 1

(* A one-shot request answers one dialog, and one that opened after it was made*)
(* or was still to be taken then (HandleNextDialog).                           *)
OneShot ==
  \A c \in Callers : Cardinality({n \in 1..count : answered[n].by = c}) <= 1

(* While nobody asked for the next dialog, the answer is one the policy gave   *)
(* while it was open: "Existing explicit policies are preserved across         *)
(* navigation" (EnableDialogAutoAccept).                                       *)
PolicyObeyed == \A n \in 1..count : answered[n].by = "policy" => answered[n].answer \in answered[n].allowed

(* "so a click that triggers alert/confirm cannot stall the agent loop": every *)
(* dialog of a page with a handler is answered.                                *)
DialogAnswered == \A n \in 1..MaxDialogs : open = n ~> open # n

(* "Only trigger when there is an actual dialog open": what the recovery hook  *)
(* accepts was open when it began (RecoverDialogAccept).                       *)
RecoveredWasOpen == \A n \in 1..count : answered[n].by = recovery => n <= caller[recovery].since

(* "The event goroutines are tied to Rod's page context and terminate with the *)
(* target": where the entries are released no listener is left.                *)
ReleasedIsSilent == MayClose /\ page \notin keys => listening[page] = 0
===============================================================================
