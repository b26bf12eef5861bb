------------------------------ MODULE OpenPage -------------------------------
(* How a command finds its Chrome, opens a page in it and lets go of both      *)
(* (cli/browser_setup.go, the cleanup stack of cli/root.go, the ai command):   *)
(* the endpoint it is given, a named session, the default one or a Chrome of   *)
(* its own.  Process 1 is the command; process 2 is the serve it spawns for a  *)
(* session without a Chrome, which settles its options in the same way.        *)
EXTENDS Naturals, FiniteSets

CONSTANTS Kinds,       \* of process 1, in \subseteq {"command", "ai"}
          Connects,    \* what --connect or the config file says, in \subseteq AllConnects
          MaxChanges   \* what others do to the registry meanwhile

AllConnects == {"none", "auto", "user", "file"}
Names == {"default", "work"}
MaxTries == 4

OpenPageAssumption ==
  /\ Kinds \subseteq {"command", "ai"}
  /\ Connects \subseteq AllConnects
  /\ MaxChanges \in Nat

VARIABLES
  given,    \* [kind, connect, session, variable, dotenv, daemon, tab, profile]
  reg,      \* the registry: "none", "spawned" or "attached" for each name
  lock,     \* the process that holds the registry's lock, 0 for none
  proc,     \* the two processes
  profile,  \* the profile the Chrome of a spawned session runs with
  leased,   \* the sessions whose lease has been touched
  changes   \* what others have done to the registry

vars == <<given, reg, lock, proc, profile, leased, changes>>

(* what: the endpoint taken.  name: the session it is of.  whose: whose Chrome *)
(* it was when it was taken.                                                   *)
Fresh == [at |-> "idle", session |-> "none", connect |-> "none", name |-> "none", whose |-> "none",
          managed |-> FALSE, foreign |-> FALSE, own |-> FALSE, fresh |-> FALSE,
          holds |-> {}, tries |-> 0, stack |-> FALSE, ended |-> "none"]

WhoseConnect(c) == IF c \in {"user", "file", "auto"} THEN "user" ELSE "none"
Begins(s, c) == [Fresh EXCEPT !.at = "settings", !.session = s, !.connect = c, !.whose = WhoseConnect(c)]

Init ==
  /\ \E k \in Kinds, c \in Connects, s \in {"none", "work"}, v \in {"none", "playwright", "ghostchrome"},
        d, daemon, tab \in BOOLEAN, p \in {"none", "mine"} :
       /\ (d => v # "none") /\ (tab => c # "none")
       /\ given = [kind |-> k, connect |-> c, session |-> s, variable |-> v, dotenv |-> d,
                   daemon |-> daemon, tab |-> tab, profile |-> p]
       /\ proc = [i \in 1..2 |-> IF i = 1 THEN Begins(s, c) ELSE Fresh]
  /\ reg \in [Names -> {"none", "spawned", "attached"}]
  /\ profile = [n \in Names |-> IF reg[n] = "spawned" THEN n ELSE "none"]
  /\ lock = 0 /\ leased = {} /\ changes = 0

Serve(i) == i = 2
Put(i, p) == proc' = [proc EXCEPT ![i] = p]
Here(i, step) == proc[i].at = step

(* The variables a process sees: the serve's environment is stripped of the    *)
(* session names, and godotenv adds what the environment does not set.         *)
VariableSeen(i) == ~Serve(i) \/ given.dotenv

(* PLAYWRIGHT_CLI_SESSION is a setting, whatever the command.                  *)
Settle(i) ==
  /\ Here(i, "settings")
  /\ Put(i, [proc[i] EXCEPT !.at = "session",
                            !.session = IF @ = "none" /\ given.variable = "playwright" /\ VariableSeen(i)
                                          THEN "work" ELSE @])
  /\ UNCHANGED <<given, reg, lock, profile, leased, changes>>

(* buildBrowserOpts, one read of the registry at a time.                       *)
Skips(i) == Serve(i)

EnvSession(i) ==
  /\ Here(i, "session")
  /\ Put(i, [proc[i] EXCEPT !.at = "default",
                            !.session = IF @ = "none" /\ ~Skips(i) /\ given.variable # "none" /\ VariableSeen(i)
                                          THEN "work" ELSE @,
                            !.foreign = proc[i].connect \in {"user", "file"}])
  /\ UNCHANGED <<given, reg, lock, profile, leased, changes>>

Taken(p, n) == [p EXCEPT !.connect = "session", !.name = n, !.managed = TRUE,
                         !.whose = IF reg[n] = "attached" THEN "user" ELSE "ours"]

DefaultSession(i) ==
  /\ Here(i, "default")
  /\ IF proc[i].session = "none" /\ proc[i].connect = "none" /\ ~Skips(i) /\ reg["default"] # "none"
       THEN /\ Put(i, [Taken(proc[i], "default") EXCEPT !.at = "attached"])
            /\ leased' = leased \cup {"default"}
       ELSE /\ Put(i, [proc[i] EXCEPT !.at = "acquire",
                         !.session = IF @ = "none" /\ proc[i].connect = "none" /\ ~Skips(i) /\ given.daemon
                                       THEN "default" ELSE @])
            /\ UNCHANGED leased
  /\ UNCHANGED <<given, reg, lock, profile, changes>>

DefaultAttached(i) ==
  /\ Here(i, "attached")
  /\ Put(i, [proc[i] EXCEPT !.at = "own", !.foreign = (reg["default"] = "attached")])
  /\ UNCHANGED <<given, reg, lock, profile, leased, changes>>

(* AcquireSession holds the lock of the registry while the serve comes up.     *)
Wants(i) == proc[i].session # "none" /\ proc[i].connect = "none" /\ ~Skips(i)

NoSession(i) ==
  /\ Here(i, "acquire") /\ ~Wants(i)
  /\ Put(i, [proc[i] EXCEPT !.at = "own"])
  /\ UNCHANGED <<given, reg, lock, profile, leased, changes>>

Reuse(i) ==
  /\ Here(i, "acquire") /\ Wants(i) /\ lock = 0
  /\ reg[proc[i].session] # "none"
  /\ Put(i, [Taken(proc[i], proc[i].session) EXCEPT !.at = "own"])
  /\ UNCHANGED <<given, reg, lock, profile, leased, changes>>

(* The profile of the serve is the name of the session.                        *)
Spawn(i) ==
  /\ Here(i, "acquire") /\ Wants(i) /\ lock = 0 /\ ~Serve(i)
  /\ reg[proc[i].session] = "none"
  /\ lock' = i
  /\ proc' = [proc EXCEPT ![i].at = "spawning", ![2] = [Fresh EXCEPT !.at = "settings"]]
  /\ UNCHANGED <<given, reg, profile, leased, changes>>

SpawnUp(i) ==
  /\ Here(i, "spawning") /\ proc[2].at = "up"
  /\ reg' = [reg EXCEPT ![proc[i].session] = "spawned"]
  /\ profile' = [profile EXCEPT ![proc[i].session] = proc[i].session]
  /\ lock' = 0
  /\ Put(i, [proc[i] EXCEPT !.at = "own", !.connect = "session", !.name = proc[i].session,
                            !.managed = TRUE, !.whose = "ours"])
  /\ UNCHANGED <<given, leased, changes>>

SpawnFails(i) ==
  /\ Here(i, "spawning")
  /\ lock' = 0
  /\ proc' = [proc EXCEPT ![i].at = "over", ![i].ended = "error", ![2].at = "killed"]
  /\ UNCHANGED <<given, reg, profile, leased, changes>>

(* A Chrome that is not ours is worked in by a tab of our own, kept for the    *)
(* next command; the ai loop takes a tab it closes, and so does auto.          *)
OwnTab(i) == proc[i].foreign \/ (proc[i].session # "none" /\ reg[proc[i].session] = "attached")
Own(i) ==
  /\ Here(i, "own")
  /\ LET loop == given.kind = "ai" /\ ~Serve(i) IN
     Put(i, [proc[i] EXCEPT !.at = IF Serve(i) THEN "launch" ELSE "open",
                            !.own = OwnTab(i) /\ ~loop,
                            !.fresh = proc[i].connect = "auto" \/ (loop /\ OwnTab(i))])
  /\ UNCHANGED <<given, reg, lock, profile, leased, changes>>

(* launchServeChrome.                                                          *)
Launch(i) ==
  /\ Here(i, "launch")
  /\ Put(i, [proc[i] EXCEPT !.at = "up", !.holds = {"chrome"}])
  /\ UNCHANGED <<given, reg, lock, profile, leased, changes>>

(* openPage and EnsurePage.  holds: what the process must let go of, its       *)
(* Chrome or a tab in another one.  stack: Close is on the cleanup stack.      *)
Ends(i, how) == Put(i, [proc[i] EXCEPT !.at = "over", !.ended = how])

Open(i) ==
  /\ Here(i, "open")
  /\ \/ Put(i, [proc[i] EXCEPT !.at = "page", !.holds = IF proc[i].connect = "none" THEN {"chrome"} ELSE {},
                               !.stack = (given.kind = "command")])
     \/ Ends(i, "error")
  /\ UNCHANGED <<given, reg, lock, profile, leased, changes>>

Close(i) == {}

Again(i) == proc[i].tries < MaxTries
GivesUp(i) == Put(i, [proc[i] EXCEPT !.at = "over", !.ended = "error", !.holds = Close(i)])
Page(i) ==
  /\ Here(i, "page")
  /\ \/ Put(i, [proc[i] EXCEPT !.at = "apply", !.holds = @ \cup (IF proc[i].fresh THEN {"tab"} ELSE {})])
     \/ /\ given.kind = "command" /\ Again(i)
        /\ Put(i, [proc[i] EXCEPT !.tries = @ + 1])
     \/ GivesUp(i)
  /\ UNCHANGED <<given, reg, lock, profile, leased, changes>>

(* exitErr and exitNow drain the cleanup stack; os.Exit alone does not, nor    *)
(* does either run a deferred call.                                            *)
Drained(i) == IF proc[i].stack THEN Close(i) ELSE proc[i].holds
ExitErr(i) == Put(i, [proc[i] EXCEPT !.at = "over", !.ended = "error", !.holds = Drained(i)])

Apply(i) ==     \* the settings of the config; a storage state or a script that fails ends the command
  /\ Here(i, "apply")
  /\ \/ /\ Put(i, [proc[i] EXCEPT !.at = "work"])
        /\ leased' = leased \cup ({proc[i].session} \ {"none"})
     \/ /\ given.kind = "command"
        /\ ExitErr(i) /\ UNCHANGED leased
  /\ UNCHANGED <<given, reg, lock, profile, changes>>

Work(i) ==
  /\ Here(i, "work")
  /\ \/ Put(i, [proc[i] EXCEPT !.at = "over", !.ended = "ok", !.holds = Close(i)])
     \/ ExitErr(i)
     \/ given.kind = "ai" /\ Ends(i, "exit 1")      \* the goal was not reached
  /\ UNCHANGED <<given, reg, lock, profile, leased, changes>>

(* Other commands stop sessions and attach the user's Chrome.                  *)
Changed(n, entry) ==
  /\ changes < MaxChanges /\ lock = 0 /\ reg[n] # entry
  /\ changes' = changes + 1
  /\ reg' = [reg EXCEPT ![n] = entry]
  /\ UNCHANGED <<given, lock, proc, profile, leased>>
Others == \E n \in Names, entry \in {"none", "attached"} : Changed(n, entry)

Step(i) ==
  \/ Settle(i) \/ EnvSession(i) \/ DefaultSession(i) \/ DefaultAttached(i)
  \/ NoSession(i) \/ Reuse(i) \/ Spawn(i) \/ SpawnUp(i) \/ SpawnFails(i)
  \/ Own(i) \/ Launch(i) \/ Open(i) \/ Page(i) \/ Apply(i) \/ Work(i)

Next == (\E i \in 1..2 : Step(i)) \/ Others

Spec == Init /\ [][Next]_vars /\ WF_vars(\E i \in 1..2 : Step(i))

-----------------------------------------------------------------------------
(* The processes, the registry and the lock have their types.                  *)
TypeOK ==
  /\ reg \in [Names -> {"none", "spawned", "attached"}]
  /\ lock \in 0..2 /\ leased \subseteq Names /\ changes \in 0..MaxChanges
  /\ \A i \in 1..2 :
       /\ proc[i].at \in {"idle", "settings", "session", "default", "attached", "acquire", "spawning", "own",
                          "launch", "up", "killed", "open", "page", "apply", "work", "over"}
       /\ proc[i].holds \subseteq {"chrome", "tab"} /\ proc[i].tries \in 0..MaxTries

(* A serve launches its own Chrome: it takes no session, so that it spawns no  *)
(* serve of its own and does not wait for the lock its parent holds, whatever  *)
(* a .env file says (buildBrowserOpts, suppressDaemonEnv).                     *)
ServeLaunchesItsOwn == ~Wants(2) /\ ~proc[2].managed

(* The user's tabs are left alone: a Chrome that is not ours is worked in by a *)
(* tab of our own, unless the user names one of theirs (buildBrowserOpts).     *)
UserTabsLeftAlone ==
  (proc[1].at \in {"open", "page", "apply", "work"} /\ proc[1].whose = "user" /\ ~given.tab) =>
    (proc[1].own \/ proc[1].fresh)

(* A command that works in the Chrome of a session has touched that session's  *)
(* lease, so that its daemon does not take it for idle (openPage).             *)
WorkIsLeased == (proc[1].at = "work" /\ proc[1].connect = "session") => proc[1].name \in leased

(* A process that is over has closed the tab it opened in another Chrome and   *)
(* the Chrome it launched, however it ended (exitNow, Browser.Close).          *)
NothingLeft == proc[1].at = "over" => proc[1].holds = {}

(* The emulation kept for a session is replayed in Chromes of ours only.       *)
ManagedIsOurs == proc[1].managed => proc[1].whose = "ours"

(* The session named with -s is the one the command works in.                  *)
NamedSessionUsed ==
  (proc[1].at = "work" /\ given.session # "none" /\ given.connect \in {"none", "file"}) =>
    proc[1].name = given.session

(* The profile given to a command is the profile of the Chrome it spawns.      *)
ProfileApplied ==
  (proc[1].at = "work" /\ proc[2].at = "up" /\ given.profile # "none") => profile[proc[1].name] = given.profile

(* Every command ends, the lock is let go of, whatever its serve does.         *)
Ends1 == <>[](proc[1].at = "over" /\ lock = 0)
=============================================================================
