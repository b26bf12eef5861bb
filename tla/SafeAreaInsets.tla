--------------------------- MODULE SafeAreaInsets ---------------------------
(* The env() of the safe area (core/engine/safe_area.go): Chrome's override    *)
(* when it has one; else a script copies the page's rules with the insets put  *)
(* in, on this document and on every one after it.  The page loads, and adds,  *)
(* replaces and removes style sheets meanwhile.                                *)
EXTENDS Naturals, Sequences, FiniteSets

CONSTANTS Insets,       \* insets that may be asked for
          Styles,       \* style sheets of a page that use them
          PageDoes,     \* what the page does with them
          MaxCalls      \* bound: calls that install or clear

None == "none"
NoCall == "nothing"
SafeAreaAssumption ==
  /\ MaxCalls \in Nat /\ Insets \intersect {None, NoCall, "unset"} = {}
  /\ PageDoes \subseteq {"adds", "replaces", "removes"}

VARIABLES native,    \* Chrome has the override
          override,  \* its value
          scripts,   \* the values of the scripts for new documents, in order
          call,      \* what the running call still has to run on the document
          asked,     \* what the last call asked for
          phase,     \* "loading", "parsed", "loaded"
          window,    \* the insets the document goes by, or "unset"
          bound,     \* a script has bound the document
          timer,     \* apply is scheduled
          styles,    \* the page's style sheets: 0 absent, else a version
          copy       \* what the rewritten sheet was made from

vars == <<native, override, scripts, call, asked, phase, window, bound, timer, styles, copy>>
page == <<phase, window, bound, timer, styles, copy>>

NoStyles == [s \in Styles |-> 0]
Empty == [insets |-> None, of |-> NoStyles]
Init ==
  /\ native \in BOOLEAN /\ override = None /\ scripts = << >> /\ call = NoCall /\ asked = None
  /\ phase = "loading" /\ window = "unset" /\ bound = FALSE /\ timer = FALSE
  /\ styles = NoStyles /\ copy = Empty

-----------------------------------------------------------------------------
(* apply(): the copy of all rules, or nothing.                                 *)
Rewritten(w, st) == IF w \in Insets THEN [insets |-> w, of |-> st] ELSE Empty

(* ApplySafeArea and ClearSafeArea: the override when there is one, and the    *)
(* script: EvalOnNewDocument first.                                            *)
Install(a) ==
  /\ call = NoCall /\ Len(scripts) < MaxCalls
  /\ asked' = a /\ override' = IF native THEN a ELSE override
  /\ LET value == IF native THEN None ELSE a
     IN  scripts' = Append(scripts, value) /\ call' = value
  /\ UNCHANGED <<native, page>>
ApplySafeArea == \E a \in Insets : Install(a)
ClearSafeArea == Install(None)

(* Then Eval on the document: a bound one applies at once, another is bound.   *)
Run ==
  /\ call # NoCall /\ call' = NoCall /\ window' = call
  /\ bound' = TRUE
  /\ copy' = IF bound \/ phase # "loading" THEN Rewritten(call, styles) ELSE copy
  /\ UNCHANGED <<native, override, scripts, asked, phase, timer, styles>>

-----------------------------------------------------------------------------
(* A new document: the scripts run before any of its own, one after another.   *)
Navigate ==
  /\ phase' = "loading" /\ styles' = NoStyles /\ timer' = FALSE /\ copy' = Empty
  /\ bound' = (scripts # << >>)
  /\ window' = IF scripts = << >> THEN "unset" ELSE scripts[Len(scripts)]
  /\ UNCHANGED <<native, override, scripts, call, asked>>

(* DOMContentLoaded: observe and apply.                                        *)
Parsed ==
  /\ phase = "loading" /\ phase' = "parsed"
  /\ copy' = IF bound THEN Rewritten(window, styles) ELSE copy
  /\ UNCHANGED <<native, override, scripts, call, asked, window, bound, timer, styles>>
(* load: apply is scheduled once more.                                         *)
Loaded ==
  /\ phase = "parsed" /\ phase' = "loaded" /\ timer' = (bound \/ timer)
  /\ UNCHANGED <<native, override, scripts, call, asked, window, bound, styles, copy>>
Timer ==
  /\ timer /\ timer' = FALSE /\ copy' = Rewritten(window, styles)
  /\ UNCHANGED <<native, override, scripts, call, asked, phase, window, bound, styles>>

(* The page's style sheets: the observer sees a STYLE or LINK that is added,   *)
(* not one whose text is replaced and not one that goes.                       *)
Observing == bound /\ phase # "loading"
PageChanges ==
  /\ \/ /\ "adds" \in PageDoes
        /\ \E s \in Styles : styles[s] = 0 /\ styles' = [styles EXCEPT ![s] = 1]
        /\ timer' = (timer \/ Observing)
     \/ /\ "replaces" \in PageDoes
        /\ \E s \in Styles : styles[s] = 1 /\ styles' = [styles EXCEPT ![s] = 2]
        /\ UNCHANGED timer
     \/ /\ "removes" \in PageDoes
        /\ \E s \in Styles : styles[s] # 0 /\ styles' = [styles EXCEPT ![s] = 0]
        /\ UNCHANGED timer
  /\ UNCHANGED <<native, override, scripts, call, asked, phase, window, bound, copy>>

Next == ApplySafeArea \/ ClearSafeArea \/ Run \/ Navigate \/ Parsed \/ Loaded \/ Timer \/ PageChanges
Spec == Init /\ [][Next]_vars

-----------------------------------------------------------------------------
TypeOK ==
  /\ native \in BOOLEAN /\ override \in Insets \union {None} /\ asked \in Insets \union {None}
  /\ Len(scripts) <= MaxCalls /\ call \in Insets \union {None, NoCall}
  /\ phase \in {"loading", "parsed", "loaded"} /\ window \in Insets \union {None, "unset"}
  /\ bound \in BOOLEAN /\ timer \in BOOLEAN /\ styles \in [Styles -> 0..2]
  /\ (~bound => copy = Empty /\ ~timer)

(* safe_area.go:64, "ApplySafeArea makes env ... resolve to the               *)
(* given insets on the page and on every document it navigates to next": when  *)
(* nothing is under way, the rules in force are those of the page with the     *)
(* insets asked for last, and no copy is left beside Chrome's own override.    *)
EnvIsAsked ==
  (phase = "loaded" /\ ~timer /\ call = NoCall) =>
    IF native THEN override = asked /\ copy = Empty ELSE copy = Rewritten(asked, styles)
=============================================================================
