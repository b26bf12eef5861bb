-------------------------- MODULE EmulationProfile --------------------------
(* Device emulation (core/engine/emulate.go): what a profile asks for, the CDP *)
(* calls that install it, and what a page shows after some of them.            *)
(*                                                                             *)
(* A profile and the overrides of a page have the same axes; a call sets the   *)
(* axes in its domain.  The size stands for width, height and the pixel ratio, *)
(* the colour scheme for the time zone too: both are handled alike.            *)
EXTENDS Naturals, Sequences, FiniteSetsExt

None == "none"

Blank == [size |-> None, mobile |-> FALSE, touch |-> FALSE, ua |-> None, scheme |-> None, safe |-> None]
NoProfile == [dev |-> None, size |-> None, mobile |-> FALSE, touch |-> FALSE,
              ua |-> None, scheme |-> None, safe |-> None]

Overrides == [size : {None, "small", "large"}, mobile : BOOLEAN, touch : BOOLEAN,
              ua : {None, "of phone", "custom"}, scheme : {None, "dark"}, safe : {None, "inset"}]
Profiles == [dev : {None, "phone", "desktop"},
             size : {None, "small", "large"}, mobile : BOOLEAN, touch : BOOLEAN,
             ua : {None, "of phone", "custom"}, scheme : {None, "dark"}, safe : {None, "inset"}]

(* EmulationFromDevice: desktop presets carry no User-Agent.                   *)
FromDevice(d) ==
  IF d = "phone"
  THEN [dev |-> d, size |-> "small", mobile |-> TRUE, touch |-> TRUE, ua |-> "of phone", scheme |-> None, safe |-> None]
  ELSE [dev |-> d, size |-> "large", mobile |-> FALSE, touch |-> FALSE, ua |-> None, scheme |-> None, safe |-> None]

(* EmulationState.Empty does not ask for the mobile flag.                      *)
Empty(s) == s.size = None /\ ~s.touch /\ s.ua = None /\ s.scheme = None /\ s.safe = None

-----------------------------------------------------------------------------
Metrics(s) == [size |-> s.size, mobile |-> s.mobile]
Touch(on) == [touch |-> on]
UserAgent(u) == [ua |-> u]
ColorScheme(c) == [scheme |-> c]
SafeArea(a) == [safe |-> a]
If(cond, call) == IF cond THEN <<call>> ELSE << >>

(* ApplyDevice.                                                                *)
DeviceCalls(d) == LET s == FromDevice(d)
                  IN  <<Metrics(s), Touch(s.touch)>> \o If(s.ua # None, UserAgent(s.ua))

(* ApplyEmulationState: a replay only ever adds.                               *)
ReplayCalls(s) ==
  If(s.size # None, Metrics(s)) \o If(s.touch, Touch(TRUE)) \o If(s.ua # None, UserAgent(s.ua))
  \o If(s.scheme # None, ColorScheme(s.scheme)) \o If(s.safe # None, SafeArea(s.safe))

(* ApplyEmulationProfile: touch and the safe area are also turned off.         *)
ProfileCallsAdding(s) == ReplayCalls(s)      \* mutant: nothing is turned off
ProfileCalls(s) ==
  If(s.size # None, Metrics(s)) \o <<Touch(s.touch)>> \o If(s.ua # None, UserAgent(s.ua))
  \o If(s.scheme # None, ColorScheme(s.scheme)) \o <<SafeArea(s.safe)>>

(* ResetEmulation: the User-Agent is the browser's own again.                  *)
ResetCalls == <<Metrics(Blank), Touch(FALSE), ColorScheme(None), SafeArea(None), UserAgent(None)>>

(* The page after the first n calls.                                           *)
Axis(page, calls, n, a) ==
  LET set == {i \in 1..n : a \in DOMAIN calls[i]}
  IN  IF set = {} THEN page[a] ELSE calls[Max(set)][a]
After(page, calls, n) ==
  [size   |-> Axis(page, calls, n, "size"), mobile |-> Axis(page, calls, n, "mobile"),
   touch  |-> Axis(page, calls, n, "touch"), ua |-> Axis(page, calls, n, "ua"),
   scheme |-> Axis(page, calls, n, "scheme"), safe |-> Axis(page, calls, n, "safe")]
=============================================================================
