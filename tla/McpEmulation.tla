---------------------------- MODULE McpEmulation ----------------------------
(* The emulate and swipe tools (surface/mcp/tools.go) and the replay of the    *)
(* server's profile on every page it binds (server.go).  An override belongs to*)
(* the tab it was made on: it stays with a tab the server turns away from and  *)
(* goes with a tab that is closed.  McpServer has the server around it; here   *)
(* the calls run one at a time, as they do under its lock.                     *)
EXTENDS EmulationProfile, FiniteSets

CONSTANTS Tabs,                   \* tabs there can be
          Devices, Sizes, Mobiles, Touches, Uas, Schemes, Safes,  \* what may be asked for, None included
          MaxGiven,               \* bound: axes a call gives
          Swipes,                 \* the swipe tool is used
          Failures                \* a CDP call may fail

McpEmulationAssumption ==
  /\ MaxGiven \in Nat /\ Swipes \in BOOLEAN /\ Failures \in BOOLEAN /\ Tabs # {}
  /\ Devices \subseteq {None, "phone", "desktop"} /\ Sizes \subseteq {None, "small", "large"}
  /\ Mobiles \union Touches \subseteq {None, "yes", "no"} /\ Uas \subseteq {None, "custom"}
  /\ Schemes \subseteq {None, "dark", "sepia"} /\ Safes \subseteq {None, "zero", "inset"}

VARIABLES emulation,   \* the server's profile
          over,        \* the overrides of every tab
          open,        \* tabs there are
          page,        \* the bound one
          last         \* what the last call asked for

vars == <<emulation, over, open, page, last>>

Init ==
  /\ emulation = NoProfile /\ over = [t \in Tabs |-> Blank]
  /\ page \in Tabs /\ open = {page} /\ last = "nothing"

(* How many of the calls succeed: a bad scheme is refused.                     *)
Done(calls) ==
  LET bad == {i \in DOMAIN calls : "scheme" \in DOMAIN calls[i] /\ calls[i] = [scheme |-> "sepia"]}
      n == IF bad = {} THEN Len(calls) ELSE (CHOOSE i \in bad : TRUE) - 1
  IN  IF Failures THEN 0..n ELSE {n}

-----------------------------------------------------------------------------
Given(a) == Cardinality({x \in DOMAIN a : a[x] # None})
Asks == {a \in [device : Devices, size : Sizes, mobile : Mobiles, touch : Touches,
                ua : Uas, scheme : Schemes, safe : Safes] : Given(a) <= MaxGiven}

(* handleEmulate: a preset replaces the geometry, the axes given override it.  *)
OfPreset(s, a) ==
  IF a.device = None THEN s
  ELSE LET d == FromDevice(a.device)
       IN  [d EXCEPT !.ua = IF @ = None THEN s.ua ELSE @, !.scheme = s.scheme]
Overridden(s, a) ==
  [s EXCEPT !.size   = IF a.size = None THEN @ ELSE a.size,
            !.mobile = IF a.mobile = None THEN @ ELSE a.mobile = "yes",
            !.touch  = IF a.touch = None THEN @ ELSE a.touch = "yes",
            !.ua     = IF a.ua = None THEN @ ELSE a.ua,
            !.scheme = IF a.scheme = None THEN @ ELSE a.scheme,
            !.safe   = CASE a.safe = None -> @ [] a.safe = "zero" -> None [] OTHER -> a.safe]
ByHand(a) == a.device = None /\ (a.size # None \/ a.mobile # None \/ a.touch # None)
Wanted(a) ==
  LET s == Overridden(OfPreset(emulation, a), a) IN IF ByHand(a) THEN [s EXCEPT !.dev = None] ELSE s

Asked(a) == IF a.safe = "zero" THEN "no inset" ELSE "emulation"
Emulate ==
  \E a \in Asks :
    /\ last' = Asked(a)
    /\ \/ Empty(Wanted(a)) /\ UNCHANGED <<emulation, over>>          \* "nothing to emulate"
       \/ /\ ~Empty(Wanted(a))
          /\ LET calls == ProfileCalls(Wanted(a))
             IN  \E n \in Done(calls) :
                   /\ over' = [over EXCEPT ![page] = After(@, calls, n)]
                   /\ emulation' = IF n = Len(calls) THEN Wanted(a) ELSE emulation
    /\ UNCHANGED <<open, page>>

(* emulate with reset=true.                                                    *)
Reset ==
  /\ \E n \in Done(ResetCalls) :
       /\ over' = [over EXCEPT ![page] = After(@, ResetCalls, n)]
       /\ IF n = Len(ResetCalls) THEN emulation' = NoProfile /\ last' = "reset"
          ELSE last' = "nothing" /\ UNCHANGED emulation
  /\ UNCHANGED <<open, page>>

(* swipe turns touch on when the profile has none.                             *)
Swipe ==
  /\ Swipes /\ ~emulation.touch
  /\ over' = [over EXCEPT ![page].touch = TRUE] /\ emulation' = [emulation EXCEPT !.touch = TRUE]
  /\ last' = "swipe" /\ UNCHANGED <<open, page>>

-----------------------------------------------------------------------------
(* replayEmulationLocked on a page that was bound, whose overrides are o.      *)
Replayed(o) ==
  IF Empty(emulation) THEN {o}
  ELSE {After(o, ProfileCalls(emulation), n) : n \in Done(ProfileCalls(emulation))}
Bind(t, o) ==
  /\ page' = t /\ \E r \in Replayed(o) : over' = [over EXCEPT ![t] = r]
  /\ UNCHANGED <<emulation, last>>

SwitchTab == \E t \in open \ {page} : Bind(t, over[t]) /\ UNCHANGED open
NewTab == \E t \in Tabs \ open : Bind(t, Blank) /\ open' = open \union {t}
CloseTab == \E t \in open \ {page} : Bind(t, over[t]) /\ open' = open \ {page}
(* Chrome died: the tabs are gone, the server opens one.                       *)
Relaunch == \E t \in Tabs : Bind(t, Blank) /\ open' = {t}

Next == Emulate \/ Reset \/ Swipe \/ SwitchTab \/ NewTab \/ CloseTab \/ Relaunch
Spec == Init /\ [][Next]_vars

-----------------------------------------------------------------------------
TypeOK ==
  /\ emulation \in Profiles /\ \A t \in Tabs : over[t] \in Overrides
  /\ page \in open /\ open \subseteq Tabs
  /\ last \in {"nothing", "emulation", "no inset", "reset", "swipe"}

(* server.go:84, "emulation is the device profile installed by the emulate     *)
(* tool ... replayed on every page bind": whatever the bound page went through,*)
(* it shows the profile the server holds.                                      *)
InForce ==
  ~Empty(emulation) =>
    /\ emulation.size # None => over[page].size = emulation.size /\ over[page].mobile = emulation.mobile
    /\ over[page].touch = emulation.touch
    /\ emulation.ua # None => over[page].ua = emulation.ua
    /\ emulation.scheme # None => over[page].scheme = emulation.scheme
    /\ over[page].safe = emulation.safe

(* tools.go:626, "the preset label the profile still carries would lie about   *)
(* what the page actually sees": a profile with a label has its geometry.      *)
LabelTrue ==
  emulation.dev # None =>
    LET d == FromDevice(emulation.dev)
    IN  <<emulation.size, emulation.mobile, emulation.touch>> = <<d.size, d.mobile, d.touch>>

(* tools.go:582, "keep whatever is in force rather than silently reverting to  *)
(* the browser default mid-flow": only a reset takes a User-Agent away.        *)
KeepsUserAgent == (emulation.ua # None /\ last' # "reset") => emulation'.ua # None

(* docs/mcp.md, reset: "Drop every override, restore the real viewport and UA".*)
ResetIsPlain == last = "reset" => over[page] = Blank

(* tools.go:613, "an explicit 0 clears that axis".                             *)
ZeroClears == last = "no inset" => over[page].safe = None

(* docs/mcp.md, mobile: "Mobile viewport semantics": a profile that is reported*)
(* as mobile is.                                                               *)
MobileInForce == emulation.mobile => over[page].mobile
=============================================================================
