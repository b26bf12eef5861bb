---------------------------- MODULE ElementWait ----------------------------
(***************************************************************************)
(* Waits for elements: internal/core/engine/locator.go, locator_wait.go,   *)
(* the actionability part of page_session.go, and the commands waitfor and *)
(* type with its --submit.                                                 *)
(*                                                                         *)
(* A target (a ref, a CSS selector, a semantic locator) is resolved anew   *)
(* on every poll, and the element it gives is looked at in a later call,   *)
(* while the page goes on changing.  All elements of the model match what  *)
(* is asked for; they differ in whether they are there and can be seen.    *)
(***************************************************************************)
EXTENDS Naturals, FiniteSets

CONSTANTS
    N,           \* elements, in document order
    Requests,    \* pairs of kind and state a client may ask for
    MaxCount,    \* waitfor --count with this --max
    MaxPolls, MaxChanges, MaxFaults

ElementWaitAssumption ==
    /\ N \in Nat \ {0}
    /\ {MaxCount, MaxChanges, MaxFaults} \subseteq Nat /\ MaxPolls \in Nat \ {0}
    /\ Requests \subseteq {"ref", "css", "locator", "any", "count", "type"}
                    \X {"attached", "visible", "hidden", "enabled", "stable"}

VARIABLES
    dom,      \* what each element is at present
    url,      \* the address has the awaited part
    req,      \* kind, state, whether there is a timeout; a ref's own element
    pc,       \* where the command is
    el,       \* the element resolved last
    moved,    \* it has moved since the first of the two reads of its box
    polls,    \* looks taken
    answer,
    typed, submitted,  \* the elements a type command wrote to and submitted
    held,     \* what was asked for has been so since the last look began
    unseen,   \* at some time since then nothing could be seen
    changes, faults

page == <<dom, url>>
budget == <<changes, faults>>
acts == <<typed, submitted>>
history == <<held, unseen>>
vars == <<page, req, pc, el, moved, polls, answer, acts, history, budget>>

Elems == 1..N
Looks == {"gone", "hidden", "disabled", "shown"}
Nobody == 0
NoReq == [kind |-> "css", state |-> "attached", timed |-> FALSE,
          own |-> Nobody, nth |-> 0]
Single(r) == r.kind \in {"ref", "css", "locator", "type"}
IsRef(r) == r.kind \in {"ref", "type"}

Attached(d) == {e \in Elems : d[e] # "gone"}
Seen(d) == {e \in Elems : d[e] \in {"shown", "disabled"}}

----------------------------------------------------------------------------
\* Resolution.

Found(e) == [el |-> e, why |-> "none"]
None(why) == [el |-> Nobody, why |-> why]
First(S, n) == CHOOSE e \in S : Cardinality({x \in S : x < e}) = n

\* requireUniqueLocatorMatch, and the count of ResolveTarget.
Unique(S) ==
    IF Cardinality(S) = 1 THEN Found(First(S, 0))
    ELSE None(IF S = {} THEN "missing" ELSE "many")

\* resolveByRoleNameNth: the accessibility tree has what can be seen.
ByRoleName(d, nth) ==
    LET S == Seen(d)
    IN  IF S = {} THEN None("missing")
        ELSE IF Cardinality(S) = 1 THEN Found(First(S, 0))
        ELSE IF nth < Cardinality(S) THEN Found(First(S, nth))
        ELSE None("many")

\* ResolveRefSemantic; a probe that fails is taken for a node that is gone.
ResolveRef(d, r, fails) ==
    IF d[r.own] # "gone" /\ ~fails THEN Found(r.own) ELSE ByRoleName(d, r.nth)

\* Mutant: a selector matches visible elements only, as a locator does.
ResolveSeen(d, r, fails) ==
    IF IsRef(r) THEN ResolveRef(d, r, fails)
    ELSE IF fails THEN None("failed")
    ELSE Unique(Seen(d))

\* ResolveTarget and ResolveByLocator.
Resolve(d, r, fails) ==
    IF IsRef(r) THEN ResolveRef(d, r, fails)
    ELSE IF fails THEN None("failed")
    ELSE IF r.kind = "css" THEN Unique(Attached(d))
    ELSE Unique(Seen(d))

\* isAmbiguousLocatorError, or ErrAmbiguousRef.
Ambiguous(r, why) == why = "many" /\ r.kind # "css"

\* checkState, but for the second read of a stable one.
CheckState(d, e, state) ==
    \/ state = "attached"
    \/ state \in {"visible", "stable"} /\ e \in Seen(d)
    \/ state = "hidden" /\ e \notin Seen(d)
    \/ state = "enabled" /\ d[e] # "disabled"

\* What the user asked for, in the words of docs/chrome-path.md.
Asked(d, u, r) ==
    \/ r.kind = "any" /\ (u \/ Attached(d) # {})
    \/ r.kind = "count" /\ Cardinality(Attached(d)) <= MaxCount
    \/ Single(r) /\ r.state = "hidden" /\ Seen(d) = {}
    \/ /\ Single(r) /\ r.state # "hidden"
       /\ \E e \in Elems :
            /\ IF IsRef(r) THEN e = r.own /\ d[e] # "gone" ELSE Attached(d) = {e}
            /\ CheckState(d, e, r.state)

----------------------------------------------------------------------------
Init ==
    /\ dom \in [Elems -> Looks]
    /\ url \in BOOLEAN
    /\ req = NoReq
    /\ pc = "idle"
    /\ el = Nobody
    /\ moved = FALSE
    /\ polls = 0
    /\ answer = "none"
    /\ typed = Nobody /\ submitted = Nobody
    /\ held = FALSE /\ unseen = FALSE
    /\ changes = 0 /\ faults = 0

\* A ref is of an element that could be seen in the last snapshot.  Only
\* resolveWaitFlags' opt-out waits without a timeout: "attached".
Start ==
    /\ pc = "idle"
    /\ \E q \in Requests, timed \in BOOLEAN, own \in Elems :
        /\ timed \/ q = <<"locator", "attached">>
        /\ q[1] # "any" => ~url
        /\ q[1] \in {"ref", "type"} => own \in Seen(dom)
        /\ q[1] \notin {"ref", "type"} => own = 1
        /\ req' = [kind |-> q[1], state |-> q[2], timed |-> timed, own |-> own,
                   nth |-> Cardinality({e \in Seen(dom) : e < own})]
        /\ pc' = IF q[1] = "any" THEN "selector" ELSE "poll"
    /\ held' = (req'.kind = "any" /\ Asked(dom, url, req'))
    /\ UNCHANGED <<page, el, moved, polls, answer, acts, unseen, budget>>

Answer(a) == pc' = "done" /\ answer' = a

\* A call may fail: the page navigates, the session is gone.
Fails(f) ==
    /\ f => faults < MaxFaults
    /\ faults' = IF f THEN faults + 1 ELSE faults

\* A look begins: from here on the page may make it true or untrue.
Look(f) ==
    /\ Fails(f)
    /\ polls' = polls + 1
    /\ held' = (~f /\ Asked(dom, url, req))
    /\ unseen' = (Seen(dom) = {})

\* What a failed resolution means.
Unresolved(why) ==
    \/ /\ req.state = "hidden" /\ ~IsRef(req)
       /\ ~(req.timed /\ Ambiguous(req, why))
       /\ Answer("hidden")
    \/ /\ req.state # "hidden" \/ IsRef(req) \/ (req.timed /\ Ambiguous(req, why))
       /\ IF req.timed /\ ~Ambiguous(req, why)
          THEN pc' = "sleep" /\ UNCHANGED answer
          ELSE Answer("error")

\* WaitForLocator, WaitForTarget, WaitForRef.
Poll ==
    /\ pc = "poll"
    /\ Single(req)
    /\ \E f \in BOOLEAN :
        /\ Look(f)
        /\ LET r == Resolve(dom, req, f)
           IN  /\ el' = r.el
               /\ IF r.el # Nobody THEN pc' = "check" /\ UNCHANGED answer
                  ELSE Unresolved(r.why)
    /\ UNCHANGED <<page, req, moved, acts, changes>>

Met ==
    IF req.kind = "type" THEN pc' = "resolve" /\ UNCHANGED answer
    ELSE Answer("found")

Unmet ==
    IF req.timed THEN pc' = "sleep" /\ UNCHANGED answer ELSE Answer("error")

\* checkState on the element, in a call of its own; of a call that fails,
\* "hidden" says that the element is gone.
Check ==
    /\ pc = "check"
    /\ \E f \in BOOLEAN :
        /\ f => req.state # "attached"
        /\ Fails(f)
        /\ held' = (held /\ ~f)
        /\ IF f THEN IF req.state = "hidden" THEN Met ELSE Unmet
           ELSE IF ~CheckState(dom, el, req.state) THEN Unmet
           ELSE IF req.state = "stable" THEN pc' = "second" /\ UNCHANGED answer
           ELSE Met
    /\ moved' = FALSE
    /\ UNCHANGED <<page, req, el, polls, acts, unseen, changes>>

\* checkStable's second read, 100 ms later.
CheckAgain ==
    /\ pc = "second"
    /\ IF el \in Seen(dom) /\ ~moved THEN Met ELSE Unmet
    /\ moved' = FALSE
    /\ UNCHANGED <<page, req, el, polls, acts, history, budget>>

\* waitForAnyCondition with a selector and a part of the address: HasSelector
\* returns when there is an element, or the deadline of the page has passed
\* and with it every later call fails.
Selector ==
    /\ pc = "selector"
    /\ Answer(IF Attached(dom) # {} THEN "found" ELSE "timeout")
    /\ UNCHANGED <<page, req, el, moved, polls, acts, history, budget>>

\* CountSelector: an error is no element.
Count ==
    /\ pc = "poll"
    /\ req.kind = "count"
    /\ \E f \in BOOLEAN :
        /\ Look(f)
        /\ IF f \/ Cardinality(Attached(dom)) <= MaxCount THEN Answer("found")
           ELSE pc' = "sleep" /\ UNCHANGED answer
    /\ UNCHANGED <<page, req, el, moved, acts, changes>>

Again ==
    /\ pc = "sleep"
    /\ polls < MaxPolls
    /\ pc' = "poll"
    /\ UNCHANGED <<page, req, el, moved, polls, answer, acts, history, budget>>

TimeOut ==
    /\ pc = "sleep"
    /\ Answer("timeout")
    /\ UNCHANGED <<page, req, el, moved, polls, acts, history, budget>>

----------------------------------------------------------------------------
\* type, with --submit.

\* TypeRef resolves the ref once more; a semantic locator's element is kept.
ResolveToType ==
    /\ pc = "resolve"
    /\ \E f \in BOOLEAN :
        /\ Fails(f)
        /\ LET r == Resolve(dom, req, f)
           IN  /\ el' = r.el
               /\ IF r.el # Nobody THEN pc' = "type" /\ UNCHANGED answer
                  ELSE Answer("error")
    /\ UNCHANGED <<page, req, moved, polls, acts, history, changes>>

\* EnsureActionable and the write; withSemanticRetry for a node that is
\* detached, once.
Type ==
    /\ pc \in {"type", "retype"}
    /\ \/ /\ dom[el] = "shown"
          /\ typed' = el
          /\ pc' = "submit"
          /\ UNCHANGED <<el, answer>>
       \/ /\ dom[el] = "gone"
          /\ LET r == ByRoleName(dom, req.nth)
             IN  IF pc = "type" /\ r.el # Nobody
                 THEN el' = r.el /\ pc' = "retype" /\ UNCHANGED answer
                 ELSE Answer("error") /\ UNCHANGED el
          /\ UNCHANGED typed
       \/ /\ dom[el] \in {"hidden", "disabled"}
          /\ Answer("error")
          /\ UNCHANGED <<el, typed>>
    /\ UNCHANGED <<page, req, moved, polls, submitted, history, budget>>

\* The ref is resolved a third time; Enter goes to the element it gives.
Submit ==
    /\ pc = "submit"
    /\ LET r == Resolve(dom, req, FALSE)
       IN  IF r.el # Nobody /\ dom[r.el] # "gone"
           THEN submitted' = r.el /\ Answer("found")
           ELSE UNCHANGED submitted /\ Answer("error")
    /\ UNCHANGED <<page, req, el, moved, polls, typed, history, budget>>

----------------------------------------------------------------------------
\* The page changes: an element, where it stands, or the address.
Changed ==
    /\ held' = (held /\ Asked(dom', url', req) /\ ~moved')
    /\ unseen' = (unseen \/ Seen(dom') = {})

Page ==
    /\ pc \notin {"idle", "done"}
    /\ changes < MaxChanges
    /\ changes' = changes + 1
    /\ \/ \E e \in Elems, s \in Looks :
            /\ dom' = [dom EXCEPT ![e] = s]
            /\ UNCHANGED <<url, moved>>
       \/ /\ pc = "second"
          /\ moved' = TRUE
          /\ UNCHANGED page
       \/ /\ url' = ~url
          /\ UNCHANGED <<dom, moved>>
    /\ Changed
    /\ UNCHANGED <<req, pc, el, polls, answer, acts, faults>>

Step ==
    \/ Poll \/ Check \/ CheckAgain
    \/ Selector \/ Count
    \/ Again \/ TimeOut
    \/ ResolveToType \/ Type \/ Submit

Next == Start \/ Step \/ Page

Spec == Init /\ [][Next]_vars

\* The command goes on; the page need not change.
FairSpec == Spec /\ WF_vars(Step)

----------------------------------------------------------------------------
\* Properties.

TypeOK ==
    /\ dom \in [Elems -> Looks]
    /\ req.own \in Elems \union {Nobody}
    /\ pc \in {"idle", "poll", "check", "second", "sleep", "selector",
              "resolve", "type", "retype", "submit", "done"}
    /\ el \in Elems \union {Nobody}
    /\ pc \in {"check", "second", "type", "retype"} => el # Nobody
    /\ answer \in {"none", "found", "hidden", "error", "timeout"}
    /\ (answer # "none") <=> (pc = "done")
    /\ polls \in 0..MaxPolls /\ changes \in 0..MaxChanges

\* A wait times out only if what was asked for (docs/chrome-path.md,
\* Auto-wait; waitForAnyCondition: "until any of the provided conditions
\* matches") was untrue at some time of its last look.
TimedOutOnlyUnmet == answer = "timeout" => ~held

\* "hidden": element absent OR display:none (docs/chrome-path.md, Auto-wait):
\* a wait for it ends well only if no match could be seen at some time of its
\* last look, or the one match it had found is hidden now.
HiddenOnlyIfUnseen ==
    /\ answer = "none" /\ answer' \in {"found", "hidden"}
    /\ req.kind \in {"css", "locator"} /\ req.state = "hidden"
    => unseen' \/ (el \in Elems \ Seen(dom))

\* A stable element is there and in place when the wait for it returns, unless
\* the page changed after the last read.
StableIsThere ==
    answer' = "found" /\ answer = "none" /\ Single(req) /\ req.state = "stable"
     => el \in Seen(dom)

\* A count is reported found only if it is within its bound, a call that
\* failed included (CountSelector: so the caller can tell it apart).
CountIsTrue ==
    answer = "found" /\ req.kind = "count" => held

\* Enter goes to the field that was typed into (type.go: "re-focus the exact
\* field it typed into").
SubmitsWhatItTyped == submitted # Nobody => submitted = typed

\* Every wait and every type command ends.
Ends == pc # "idle" ~> pc = "done"
=============================================================================
