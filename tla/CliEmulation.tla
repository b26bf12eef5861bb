---------------------------- MODULE CliEmulation ----------------------------
(* Emulation from the command line (surface/cli/emulate.go, viewport.go, open, *)
(* batch): an override lives as long as the connection that made it, so a      *)
(* command stores the profile in the state of the session and the next one     *)
(* replays it on its page.                                                     *)
EXTENDS EmulationProfile

CONSTANTS Commands,     \* the commands the user gives
          Safes         \* what --safe-area may be given, None included

AllCommands == {"emulate", "viewport", "open", "reset", "batch", "look"}
CliEmulationAssumption ==
  Commands \subseteq AllCommands /\ None \in Safes /\ Safes \subseteq {None, "zero", "inset"}

VARIABLES file,     \* the profile in the state of the session
          page,     \* the overrides of the command's connection
          cmd,      \* the command that runs
          step,     \* "opened", "applies"
          todo,     \* its calls that are left
          next,     \* the profile it will store
          seen      \* what the page of the last command that stored one looked like

vars == <<file, page, cmd, step, todo, next, seen>>

NoCommand == [op |-> "none", device |-> None, ua |-> None, scheme |-> None, safe |-> None]
Init ==
  /\ file = NoProfile /\ page = Blank /\ cmd = NoCommand /\ step = "none"
  /\ todo = << >> /\ next = NoProfile /\ seen = Blank

Asks == {c \in [op : Commands, device : {None, "phone", "desktop"}, ua : {None, "custom"},
                scheme : {None, "dark"}, safe : Safes] :
           /\ c.op \in {"reset", "look"} => c = [NoCommand EXCEPT !.op = c.op]
           /\ c.op \in {"open", "viewport"} => c.device # None /\ c = [NoCommand EXCEPT !.op = c.op, !.device = c.device]
           /\ c.op = "batch" => c.safe = None
           /\ c.op \in {"emulate", "batch"} => c # [NoCommand EXCEPT !.op = c.op]}

-----------------------------------------------------------------------------
(* openPage: maybeApplyProfile replays the profile of a managed session.       *)
Open ==
  /\ step = "none" /\ \E c \in Asks : cmd' = c
  /\ page' = LET calls == ReplayCalls(file) IN After(Blank, calls, Len(calls))
  /\ step' = "opened" /\ UNCHANGED <<file, todo, next, seen>>

(* The flags of emulate, in the order of the code.                             *)
EmulateCalls(c) ==
  (IF c.device = None THEN << >> ELSE DeviceCalls(c.device))
  \o If(c.ua # None, UserAgent(c.ua)) \o If(c.scheme # None, ColorScheme(c.scheme))
  \o If(c.safe # None, SafeArea(IF c.safe = "zero" THEN None ELSE c.safe))

(* ApplyDevice leaves the User-Agent in place for presets that carry none.     *)
OfPreset(c) ==
  IF c.device = None THEN file
  ELSE [FromDevice(c.device) EXCEPT !.ua = IF @ = None THEN file.ua ELSE @, !.scheme = file.scheme]
EmulateProfile(c) ==
  [OfPreset(c) EXCEPT !.ua     = IF c.ua = None THEN @ ELSE c.ua,
                      !.scheme = IF c.scheme = None THEN @ ELSE c.scheme,
                      !.safe   = CASE c.safe = None -> @ [] c.safe = "zero" -> None [] OTHER -> c.safe]

(* viewport: the size and the mobile flag; the rest of the profile stays.      *)
Viewport(c) == [size |-> FromDevice(c.device).size, mobile |-> FromDevice(c.device).mobile]

CallsOf(c) == CASE c.op \in {"emulate", "batch"} -> EmulateCalls(c)
                [] c.op = "viewport" -> <<Viewport(c)>>
                [] c.op = "open" -> DeviceCalls(c.device)
                [] c.op = "reset" -> ResetCalls
                [] OTHER -> << >>
ProfileOf(c) == CASE c.op = "emulate" -> EmulateProfile(c)
                  [] c.op = "viewport" -> [file EXCEPT !.dev = c.device, !.size = Viewport(c).size,
                                                       !.mobile = Viewport(c).mobile]
                  [] c.op = "open" -> FromDevice(c.device)
                  [] c.op = "reset" -> NoProfile
                  [] OTHER -> file

Start ==
  /\ step = "opened" /\ step' = "applies"
  /\ todo' = CallsOf(cmd) /\ next' = ProfileOf(cmd)
  /\ UNCHANGED <<file, page, cmd, seen>>

Apply ==
  /\ step = "applies" /\ todo # << >>
  /\ page' = After(page, todo, 1) /\ todo' = Tail(todo)
  /\ UNCHANGED <<file, cmd, step, next, seen>>

Exit == cmd' = NoCommand /\ step' = "none" /\ page' = Blank /\ todo' = << >> /\ next' = NoProfile

(* SetEmulationState, and the end of the process.                              *)
Stores == {"emulate", "viewport", "open", "reset"}
Save ==
  /\ step = "applies" /\ todo = << >> /\ cmd.op \in Stores
  /\ file' = next /\ seen' = page /\ Exit
End ==
  /\ step = "applies" /\ todo = << >> /\ cmd.op \notin Stores
  /\ Exit /\ UNCHANGED <<file, seen>>

(* A call or the saving fails, or the command is interrupted: nothing is stored*)
Fail ==
  /\ step # "none" /\ Exit /\ UNCHANGED <<file, seen>>

Next == Open \/ Start \/ Apply \/ Save \/ End \/ Fail
Spec == Init /\ [][Next]_vars

-----------------------------------------------------------------------------
TypeOK ==
  /\ file \in Profiles /\ next \in Profiles /\ page \in Overrides /\ seen \in Overrides
  /\ step \in {"none", "opened", "applies"} /\ (step = "none") = (cmd = NoCommand)
  /\ Len(todo) <= 6

(* README.md:271, "Emulation is sticky per session": a command finds its page  *)
(* as the last one that changed the emulation showed it, whatever the commands *)
(* that failed or ran between.                                                 *)
Sticky == step = "opened" => page = seen
=============================================================================
