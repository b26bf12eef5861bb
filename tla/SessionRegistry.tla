-------------------------- MODULE SessionRegistry --------------------------
(***************************************************************************)
(* Named sessions: internal/core/engine/session_registry.go, the profile   *)
(* lock of profile_lock.go, the life of a `serve` process                  *)
(* (internal/surface/cli/serve.go) as the registry sees it, and the two    *)
(* reads of the registry a command makes (browser_setup.go).               *)
(*                                                                         *)
(* A client is a ghostchrome command.  A serve stands for its process, its *)
(* random port and the Chrome it launches, whose WebSocket URL is never    *)
(* given out again; a PID is.  AcquireSession, StopSession, PruneSessions, *)
(* KillAllSessions and AttachSession hold the flock of the registry from   *)
(* their read to their write; serves, Chromes and readers go on meanwhile. *)
(***************************************************************************)
EXTENDS Naturals, FiniteSets, TLC

CONSTANTS
    Clients, Names, Serves, Pids,
    UserChromes,   \* Chromes of the user, which `attach` registers
    NoEntry, NoClient, NoServe, NoChrome,
    Nobody, Other, \* a PID in no process, or in one that is not ghostchrome
    ProbesTimeOut, \* a Chrome that runs may miss a probe's deadline
    MaxOps         \* bound: operations started in a behaviour

Chromes == Serves \union UserChromes

ASSUME SessionRegistryAssumption ==
    /\ NoClient \notin Clients /\ NoServe \notin Serves
    /\ NoEntry \notin Names \union ({"spawned", "attached"} \X Chromes)
    /\ NoChrome \notin Chromes /\ Serves \intersect UserChromes = {}
    /\ {Nobody, Other} \intersect Serves = {} /\ Nobody # Other
    /\ ProbesTimeOut \in BOOLEAN /\ MaxOps \in Nat

VARIABLES
    reg,       \* sessions.json
    copy,      \* the registry each client has read under the flock
    flock,     \* the client that holds the flock
    pc,        \* where each client is
    job,       \* what it does: the operation, its names, its serve or Chrome
    got,       \* the Chrome a command was given, the surface that drives it, and
               \* whether it works in a tab of its own
    serve,     \* the state of each serve process
    nameOf,    \* --user-profile of each serve
    pidOf,     \* its PID
    table,     \* the process table
    termed,    \* serves whose handler has SIGTERM to deal with
    chromes,   \* the Chromes that run
    profile,   \* SingletonLock of each profile: the Chrome it names
    abandoned, \* ghost: serves whose acquirer was killed before it saved
    unlisted,  \* ghost: serves whose entry `attach` has overwritten
    taken,     \* ghost: the PID that was looked at, and is to be signalled, has
               \* been given to another process since
    innocent,  \* ghost: no signal has reached a process that was not its target,
               \* but for one that had taken the PID since it was looked at
    ops        \* number of operations so far

clientVars == <<copy, pc, job, got, ops>>
serveVars  == <<serve, nameOf, pidOf, table, termed>>
ghostVars  == <<abandoned, unlisted, taken, innocent>>
vars == <<reg, flock, clientVars, serveVars, chromes, profile, ghostVars>>

-----------------------------------------------------------------------------
Spawned(s)  == <<"spawned", s>>
Attached(x) == <<"attached", x>>

\* The Chrome behind an entry, and the serve behind a spawned one.
ChromeOf(e) == e[2]
IsSpawned(e) == e # NoEntry /\ e[1] = "spawned"

NoJob == [op |-> "none", name |-> NoEntry, todo |-> {}, serve |-> NoServe,
          chrome |-> NoChrome]
NoBrowser == [chrome |-> NoChrome, by |-> "cli", ownTab |-> FALSE]

Running(s) == serve[s] \in {"booting", "warming", "up"}

\* sessionAlive: the one probe.  It may answer late.
SeenAlive(e) == ChromeOf(e) \in chromes
SeenDead(e)  == ChromeOf(e) \notin chromes \/ ProbesTimeOut

Goto(c, label) == pc' = [pc EXCEPT ![c] = label]

\* The deferred unlock, and the way back to the command.
Unlock(c) == flock' = NoClient /\ copy' = [copy EXCEPT ![c] = [n \in Names |-> NoEntry]]

\* The client gives up its operation: an error, or nothing left to do.
GiveUp(c) ==
    /\ Unlock(c) /\ Goto(c, "idle")
    /\ job' = [job EXCEPT ![c] = NoJob]
    /\ UNCHANGED got

\* SIGTERM to serve s.  The handler is registered when the serve is up; before
\* that the signal ends it, and its Chrome is not told.
Signal(s) ==
    IF serve[s] = "up"
      THEN termed' = termed \union {s} /\ UNCHANGED <<serve, table>>
      ELSE /\ UNCHANGED termed
           /\ serve' = [serve EXCEPT ![s] = "gone"]
           /\ table' = [table EXCEPT ![pidOf[s]] = IF @ = s THEN Nobody ELSE @]

NoSignal == UNCHANGED <<serve, table, termed>>

\* killPID: whoever has the PID of serve s gets it.
SignalPid(s) ==
    LET q == table[pidOf[s]]
    IN  /\ IF q \in Serves THEN Signal(q) ELSE NoSignal
        /\ innocent' = (innocent /\ (q \in {s, Nobody} \/ taken))

\* Mutants: nobody looks at the command line, or it never matches.
AnyCmdline(e) == IsSpawned(e)

NoCmdline(e) == FALSE

\* processCmdline and cmdlineIsSessionServe: the process that has the PID is
\* the entry's serve.
CmdlineIsSessionServe(e) == IsSpawned(e) /\ table[pidOf[ChromeOf(e)]] = ChromeOf(e)

-----------------------------------------------------------------------------
Init ==
    /\ reg = [n \in Names |-> NoEntry]
    /\ copy = [c \in Clients |-> [n \in Names |-> NoEntry]]
    /\ flock = NoClient
    /\ pc = [c \in Clients |-> "idle"]
    /\ job = [c \in Clients |-> NoJob]
    /\ got = [c \in Clients |-> NoBrowser]
    /\ serve = [s \in Serves |-> "unborn"]
    /\ nameOf = [s \in Serves |-> NoEntry] /\ pidOf = [s \in Serves |-> Nobody]
    /\ table = [p \in Pids |-> Nobody]
    /\ termed = {}
    /\ chromes = UserChromes
    /\ profile = [n \in Names |-> NoChrome]
    /\ abandoned = {} /\ unlisted = {} /\ taken = FALSE /\ innocent = TRUE
    /\ ops = 0

(***************************************************************************)
(* The operations that hold the flock                                      *)
(***************************************************************************)
Begin(c, newJob) ==
    /\ pc[c] = "idle" /\ ops < MaxOps
    /\ ops' = ops + 1
    /\ job' = [job EXCEPT ![c] = newJob]
    /\ Goto(c, "lock")
    /\ UNCHANGED <<reg, flock, copy, got, serveVars, chromes, profile, ghostVars>>

AcquireSession(c) == \E n \in Names : Begin(c, [NoJob EXCEPT !.op = "acquire", !.name = n])
StopSession(c)    == \E n \in Names : Begin(c, [NoJob EXCEPT !.op = "stop", !.name = n])
PruneSessions(c)  == Begin(c, [NoJob EXCEPT !.op = "prune"])
KillAllSessions(c) == Begin(c, [NoJob EXCEPT !.op = "killall"])

\* AttachSession probes the endpoint before it takes the flock.
AttachSession(c) ==
    \E n \in Names, x \in chromes :
        Begin(c, [NoJob EXCEPT !.op = "attach", !.name = n, !.chrome = x])

\* Mutant: the registry is read without its flock.
LoadLockFree(c) ==
    /\ pc[c] = "lock"
    /\ flock' = c
    /\ copy' = [copy EXCEPT ![c] = reg]
    /\ job' = [job EXCEPT ![c].todo = IF job[c].op \in {"prune", "killall"}
                                        THEN {n \in Names : reg[n] # NoEntry} ELSE {}]
    /\ Goto(c, CASE job[c].op = "attach" -> "save"
                 [] job[c].op \in {"prune", "killall"} -> "each"
                 [] OTHER -> "entry")
    /\ UNCHANGED <<reg, got, ops, serveVars, chromes, profile, ghostVars>>

\* withSessionRegistry
Load(c) ==
    /\ pc[c] = "lock" /\ flock = NoClient
    /\ flock' = c
    /\ copy' = [copy EXCEPT ![c] = reg]
    /\ job' = [job EXCEPT ![c].todo = IF job[c].op \in {"prune", "killall"}
                                        THEN {n \in Names : reg[n] # NoEntry} ELSE {}]
    /\ Goto(c, CASE job[c].op = "attach" -> "save"
                 [] job[c].op \in {"prune", "killall"} -> "each"
                 [] OTHER -> "entry")
    /\ UNCHANGED <<reg, got, ops, serveVars, chromes, profile, ghostVars>>

\* The flock or the read fails.
LoadFails(c) ==
    /\ pc[c] = "lock"
    /\ Goto(c, "idle") /\ job' = [job EXCEPT ![c] = NoJob]
    /\ UNCHANGED <<reg, flock, copy, got, ops, serveVars, chromes, profile,
                   ghostVars>>

\* PruneSessions and KillAllSessions range over the entries.
EachEntry(c) ==
    /\ pc[c] = "each"
    /\ IF job[c].todo = {}
         THEN Goto(c, "save") /\ UNCHANGED job
         ELSE /\ \E n \in job[c].todo :
                   job' = [job EXCEPT ![c].name = n, ![c].todo = @ \ {n}]
              /\ Goto(c, "entry")
    /\ UNCHANGED <<reg, flock, copy, got, ops, serveVars, chromes, profile,
                   ghostVars>>

Entry(c) == copy[c][job[c].name]

\* The session answers: AcquireSession returns its URL, PruneSessions goes on.
EntryAlive(c) ==
    /\ pc[c] = "entry" /\ job[c].op \in {"acquire", "prune"}
    /\ Entry(c) # NoEntry /\ SeenAlive(Entry(c))
    /\ IF job[c].op = "prune"
         THEN Goto(c, "each") /\ UNCHANGED <<flock, copy, job, got>>
         ELSE /\ Unlock(c) /\ Goto(c, "check")
              /\ got' = [got EXCEPT ![c].chrome = ChromeOf(Entry(c))]
              /\ UNCHANGED job
    /\ UNCHANGED <<reg, ops, serveVars, chromes, profile, ghostVars>>

\* It does not, or it is to be stopped: killSessionProcess looks at the process
\* that has its PID, ...
EntryKilled(c) ==
    /\ pc[c] = "entry" /\ Entry(c) # NoEntry
    /\ job[c].op \in {"acquire", "prune"} => SeenDead(Entry(c))
    /\ Goto(c, IF CmdlineIsSessionServe(Entry(c)) THEN "kill" ELSE "waitDead")
    /\ taken' = FALSE
    /\ UNCHANGED <<reg, flock, copy, job, got, ops, serveVars, chromes, profile,
                   abandoned, unlisted, innocent>>

\* ... and signals the PID.  Nothing has held it meanwhile.
KillSessionProcess(c) ==
    /\ pc[c] = "kill"
    /\ SignalPid(ChromeOf(Entry(c)))
    /\ taken' = FALSE
    /\ Goto(c, "waitDead")
    /\ UNCHANGED <<reg, flock, copy, job, got, ops, nameOf, pidOf, chromes, profile,
                   abandoned, unlisted>>

EntryMissing(c) ==
    /\ pc[c] = "entry" /\ Entry(c) = NoEntry
    /\ IF job[c].op = "acquire"
         THEN Goto(c, "clear") /\ UNCHANGED <<flock, copy, job, got>>
         ELSE GiveUp(c)
    /\ UNCHANGED <<reg, ops, serveVars, chromes, profile, ghostVars>>

\* waitSessionDead returns when the serve is gone or after 2 to 5 seconds:
\* at any time.  Then the entry is deleted from the copy.
WaitSessionDead(c) ==
    /\ pc[c] = "waitDead"
    /\ copy' = [copy EXCEPT ![c][job[c].name] = NoEntry]
    /\ Goto(c, CASE job[c].op = "acquire" -> "clear"
                 [] job[c].op = "stop" -> "save"
                 [] OTHER -> "each")
    /\ UNCHANGED <<reg, flock, job, got, ops, serveVars, chromes, profile,
                   ghostVars>>

\* Mutant: the lock file goes, whoever owns it.
ClearProfileLockAlways(c) ==
    /\ pc[c] = "clear"
    /\ profile' = [profile EXCEPT ![job[c].name] = NoChrome]
    /\ Goto(c, "spawn")
    /\ UNCHANGED <<reg, flock, copy, job, got, ops, serveVars, chromes,
                   ghostVars>>

\* clearStaleProfileLock: the lock of a Chrome that is gone is removed, unless
\* another process has its PID; a live owner keeps its lock once the grace is
\* over.
ClearProfileLock(c) ==
    /\ pc[c] = "clear"
    /\ \/ /\ profile[job[c].name] \notin chromes
          /\ profile' = [profile EXCEPT ![job[c].name] = NoChrome]
       \/ UNCHANGED profile
    /\ Goto(c, "spawn")
    /\ UNCHANGED <<reg, flock, copy, job, got, ops, serveVars, chromes,
                   ghostVars>>

Spawn(c) ==
    /\ pc[c] = "spawn"
    /\ \E s \in Serves, p \in Pids :
        /\ serve[s] = "unborn" /\ table[p] = Nobody
        /\ \A d \in Clients : job[d].serve # NoServe => pidOf[job[d].serve] # p
        /\ serve' = [serve EXCEPT ![s] = "booting"]
        /\ nameOf' = [nameOf EXCEPT ![s] = job[c].name]
        /\ pidOf' = [pidOf EXCEPT ![s] = p]
        /\ table' = [table EXCEPT ![p] = s]
        /\ job' = [job EXCEPT ![c].serve = s]
    /\ Goto(c, "ready")
    /\ UNCHANGED <<reg, flock, copy, got, ops, termed, chromes, profile,
                   ghostVars>>

\* No port, no binary, no log file, no process.
SpawnFails(c) ==
    /\ pc[c] = "spawn"
    /\ GiveUp(c)
    /\ UNCHANGED <<reg, ops, serveVars, chromes, profile, ghostVars>>

\* waitForCDP has an answer.
Ready(c) ==
    /\ pc[c] = "ready" /\ job[c].serve \in chromes
    /\ copy' = [copy EXCEPT ![c][job[c].name] = Spawned(job[c].serve)]
    /\ Goto(c, "save")
    /\ UNCHANGED <<reg, flock, job, got, ops, serveVars, chromes, profile,
                   ghostVars>>

\* Mutant: the serve is left running.
NeverReadyLeft(c) ==
    /\ pc[c] = "ready"
    /\ GiveUp(c)
    /\ UNCHANGED <<reg, ops, serveVars, chromes, profile, ghostVars>>

\* It had none for 15 seconds.  The registry file is left as it was.
NeverReady(c) ==
    /\ pc[c] = "ready"
    /\ job[c].serve \notin chromes \/ ProbesTimeOut
    /\ SignalPid(job[c].serve)
    /\ GiveUp(c)
    /\ UNCHANGED <<reg, ops, nameOf, pidOf, chromes, profile, abandoned, unlisted,
                   taken>>

\* saveSessionRegistry, then the unlock.  PruneSessions saves if it dropped one.
Save(c) ==
    /\ pc[c] = "save"
    /\ LET op == job[c].op
           n == job[c].name
           lost == IF op = "attach" /\ IsSpawned(copy[c][n])
                     THEN {ChromeOf(copy[c][n])} ELSE {}
       IN  /\ reg' = IF op = "attach" THEN [copy[c] EXCEPT ![n] = Attached(job[c].chrome)]
                     ELSE copy[c]
           /\ unlisted' = unlisted \union lost
           /\ IF op = "acquire"
                THEN /\ Goto(c, "check")
                     /\ got' = [got EXCEPT ![c].chrome = job[c].serve]
                     /\ job' = [job EXCEPT ![c].serve = NoServe]
                ELSE /\ Goto(c, "idle") /\ UNCHANGED got
                     /\ job' = [job EXCEPT ![c] = NoJob]
    /\ Unlock(c)
    /\ UNCHANGED <<ops, serveVars, chromes, profile, abandoned, taken, innocent>>

SaveFails(c) ==
    /\ pc[c] = "save"
    /\ IF job[c].op = "acquire" THEN SignalPid(job[c].serve)
       ELSE NoSignal /\ UNCHANGED innocent
    /\ GiveUp(c)
    /\ UNCHANGED <<reg, ops, nameOf, pidOf, chromes, profile, abandoned, unlisted,
                   taken>>

(***************************************************************************)
(* What takes no flock                                                     *)
(***************************************************************************)
\* DefaultSession and ResolveSession: a session that answers is used.
ResolveSession(c) ==
    /\ pc[c] = "idle" /\ ops < MaxOps
    /\ \E n \in Names :
        /\ reg[n] # NoEntry /\ SeenAlive(reg[n])
        /\ got' = [got EXCEPT ![c].chrome = ChromeOf(reg[n])]
        /\ job' = [job EXCEPT ![c] = [NoJob EXCEPT !.op = "resolve", !.name = n]]
    /\ ops' = ops + 1
    /\ Goto(c, "check")
    /\ UNCHANGED <<reg, flock, copy, serveVars, chromes, profile, ghostVars>>

\* SessionAttached reads the registry again and decides whether the command
\* works in a tab of its own.
SessionAttached(c) ==
    /\ pc[c] = "check"
    /\ LET e == reg[job[c].name]
       IN  got' = [got EXCEPT ![c].ownTab = (e # NoEntry /\ ~IsSpawned(e))]
    /\ Goto(c, "using")
    /\ UNCHANGED <<reg, flock, copy, job, ops, serveVars, chromes, profile,
                   ghostVars>>

\* The MCP server asks foreignChrome instead: never with a session name.
ForeignChrome(c) ==
    /\ pc[c] = "check" /\ job[c].op = "acquire"
    /\ got' = [got EXCEPT ![c].by = "mcp"]
    /\ Goto(c, "using")
    /\ UNCHANGED <<reg, flock, copy, job, ops, serveVars, chromes, profile,
                   ghostVars>>

\* The command ends.
Finish(c) ==
    /\ pc[c] = "using"
    /\ Goto(c, "idle")
    /\ job' = [job EXCEPT ![c] = NoJob] /\ got' = [got EXCEPT ![c] = NoBrowser]
    /\ UNCHANGED <<reg, flock, copy, ops, serveVars, chromes, profile,
                   ghostVars>>

\* The command is killed: nothing is saved and the kernel drops its flock.  A
\* serve it has spawned is in a session of its own and lives on.
Killed(c) ==
    /\ pc[c] # "idle"
    /\ Goto(c, "idle")
    /\ job' = [job EXCEPT ![c] = NoJob] /\ got' = [got EXCEPT ![c] = NoBrowser]
    /\ abandoned' = abandoned \union ({job[c].serve} \ {NoServe})
    /\ copy' = [copy EXCEPT ![c] = [n \in Names |-> NoEntry]]
    /\ flock' = IF flock = c THEN NoClient ELSE flock
    /\ taken' = (taken /\ flock # c)
    /\ UNCHANGED <<reg, ops, serveVars, chromes, profile, unlisted, innocent>>

(***************************************************************************)
(* serve                                                                   *)
(***************************************************************************)
Gone(s) ==
    /\ serve' = [serve EXCEPT ![s] = "gone"]
    /\ table' = [table EXCEPT ![pidOf[s]] = IF @ = s THEN Nobody ELSE @]
    /\ termed' = termed \ {s}
    /\ UNCHANGED <<nameOf, pidOf>>

\* launchServeChrome: Chrome takes the lock of the profile.
Launch(s) ==
    /\ serve[s] = "booting" /\ profile[nameOf[s]] = NoChrome
    /\ serve' = [serve EXCEPT ![s] = "warming"]
    /\ chromes' = chromes \union {s}
    /\ profile' = [profile EXCEPT ![nameOf[s]] = s]
    /\ UNCHANGED <<reg, flock, clientVars, nameOf, pidOf, table, termed, ghostVars>>

\* Chrome aborts on the lock, or does not start.
LaunchFails(s) ==
    /\ serve[s] = "booting" /\ Gone(s)
    /\ UNCHANGED <<reg, flock, clientVars, chromes, profile, ghostVars>>

\* The observer and the stealth warm-up are done and signals are handled.
Warm(s) ==
    /\ serve[s] = "warming"
    /\ serve' = [serve EXCEPT ![s] = "up"]
    /\ UNCHANGED <<reg, flock, clientVars, nameOf, pidOf, table, termed, chromes,
                   profile, ghostVars>>

\* The deferred cleanup kills Chrome, which leaves its lock file behind.  The
\* loop ends on a signal, three missed probes or an idle hour; a failed
\* warm-up ends like it.
Shutdown(s) ==
    /\ serve[s] \in {"warming", "up"} /\ Gone(s)
    /\ chromes' = chromes \ {s}
    /\ UNCHANGED <<reg, flock, clientVars, profile, ghostVars>>

\* The serve is killed.
ServeDies(s) ==
    /\ Running(s) /\ Gone(s)
    /\ UNCHANGED <<reg, flock, clientVars, chromes, profile, ghostVars>>

\* A Chrome ends: on its own it removes its lock, killed (by the launcher's
\* guard once its serve is gone, or by the system) it does not.
ChromeDies(x) ==
    /\ x \in chromes
    /\ chromes' = chromes \ {x}
    /\ \/ UNCHANGED profile
       \/ profile' = [n \in Names |-> IF profile[n] = x THEN NoChrome ELSE profile[n]]
    /\ UNCHANGED <<reg, flock, clientVars, serveVars, ghostVars>>

\* Client c is about to signal PID p.
Looked(c, p) == pc[c] = "kill" /\ pidOf[ChromeOf(Entry(c))] = p

\* The system gives a free PID to some process, which ends some day.  Not that
\* of a client's child: nobody waits for it, so it stays a zombie.
Recycle(p) ==
    /\ \/ /\ table[p] = Nobody
          /\ \A c \in Clients : job[c].serve # NoServe => pidOf[job[c].serve] # p
          /\ table' = [table EXCEPT ![p] = Other]
          /\ taken' = (taken \/ \E c \in Clients : Looked(c, p))
       \/ /\ table[p] = Other /\ table' = [table EXCEPT ![p] = Nobody]
          /\ UNCHANGED taken
    /\ UNCHANGED <<reg, flock, clientVars, serve, nameOf, pidOf, termed, chromes,
                   profile, abandoned, unlisted, innocent>>

-----------------------------------------------------------------------------
Operation(c) ==
    \/ AcquireSession(c) \/ StopSession(c) \/ PruneSessions(c)
    \/ KillAllSessions(c) \/ AttachSession(c) \/ ResolveSession(c)

Locked(c) ==
    \/ Load(c) \/ LoadFails(c) \/ EachEntry(c)
    \/ EntryAlive(c) \/ EntryKilled(c) \/ EntryMissing(c)
    \/ KillSessionProcess(c) \/ WaitSessionDead(c)
    \/ ClearProfileLock(c) \/ Spawn(c) \/ SpawnFails(c) \/ Ready(c) \/ NeverReady(c)
    \/ Save(c) \/ SaveFails(c)

Daemon(s) ==
    Launch(s) \/ LaunchFails(s) \/ Warm(s) \/ Shutdown(s) \/ ServeDies(s)

Next ==
    \/ \E c \in Clients : \/ Operation(c) \/ Locked(c) \/ SessionAttached(c)
                          \/ ForeignChrome(c) \/ Finish(c) \/ Killed(c)
    \/ \E s \in Serves : Daemon(s)
    \/ \E x \in Chromes : ChromeDies(x)
    \/ \E p \in Pids : Recycle(p)

Spec == Init /\ [][Next]_vars

\* A command runs, and the kernel wakes the waiters of the flock in turn.
Fairness ==
    \A c \in Clients :
        /\ SF_vars(Load(c))
        /\ WF_vars(pc[c] # "lock" /\ Locked(c))
        /\ WF_vars(SessionAttached(c) \/ ForeignChrome(c)) /\ WF_vars(Finish(c))

FairSpec == Spec /\ Fairness

-----------------------------------------------------------------------------
(***************************************************************************)
(* Properties                                                              *)
(***************************************************************************)
ClientLabels == {"idle", "lock", "each", "entry", "kill", "waitDead", "clear",
                 "spawn", "ready", "save", "check", "using"}
ServeLabels == {"unborn", "booting", "warming", "up", "gone"}
Entries == {NoEntry} \union ({"spawned"} \X Serves) \union ({"attached"} \X Chromes)
Jobs == [op : {"none", "acquire", "stop", "prune", "killall", "attach", "resolve"},
         name : Names \union {NoEntry}, todo : SUBSET Names,
         serve : Serves \union {NoServe}, chrome : Chromes \union {NoChrome}]

Browsers == [chrome : Chromes \union {NoChrome}, by : {"cli", "mcp"}, ownTab : BOOLEAN]
Inside == {"each", "entry", "kill", "waitDead", "clear", "spawn", "ready", "save"}

ValuesOK ==
    /\ reg \in [Names -> Entries] /\ copy \in [Clients -> [Names -> Entries]]
    /\ flock \in Clients \union {NoClient}
    /\ pc \in [Clients -> ClientLabels] /\ job \in [Clients -> Jobs]
    /\ got \in [Clients -> Browsers]
    /\ serve \in [Serves -> ServeLabels]
    /\ nameOf \in [Serves -> Names \union {NoEntry}]
    /\ pidOf \in [Serves -> Pids \union {Nobody}]
    /\ table \in [Pids -> Serves \union {Nobody, Other}]
    /\ termed \subseteq Serves /\ chromes \subseteq Chromes
    /\ profile \in [Names -> Serves \union {NoChrome}]
    /\ abandoned \subseteq Serves /\ unlisted \subseteq Serves
    /\ taken \in BOOLEAN /\ innocent \in BOOLEAN /\ ops \in 0..MaxOps

\* Every variable has its type, and only the holder of the flock is between its
\* read of the registry and its write.
TypeOK == ValuesOK /\ \A c \in Clients : pc[c] \in Inside <=> flock = c

\* An operation leaves the entries of the other names as they are in the file:
\* the flock is held from the read to the write.
OthersEntriesSurvive ==
    [][\A c \in Clients, n \in Names :
        /\ pc[c] = "save" /\ pc'[c] # "save"
        /\ n # job[c].name /\ job[c].op \in {"acquire", "stop", "attach"}
        => reg'[n] = reg[n]]_vars

\* A recycled PID is left alone: a process that had the PID when it was looked
\* at, and is not the serve of the entry, is never signalled ("Guards against
\* the OS having recycled a dead serve's PID for an unrelated process"), nor one
\* that has the PID of a child given up.
NeverSignalsInnocent == innocent

\* Two Chromes never run on one profile, though lock files are removed: "a live
\* owner keeps its lock".
OneChromePerProfile ==
    \A s, t \in Serves \intersect chromes : nameOf[s] = nameOf[t] => s = t

\* A serve that was spawned for a name and runs, is registered under it, being
\* acquired, or on its way out, unless its acquirer was killed or `attach`
\* overwrote its entry.
NoForgottenServe ==
    \A s \in Serves \ (abandoned \union unlisted \union termed) : Running(s) =>
        \/ reg[nameOf[s]] = Spawned(s)
        \/ \E c \in Clients : job[c].serve = s

\* With the same exceptions a session that runs is reused: a serve is spawned
\* only once the last one of that name is gone or was signalled.
SpawnedOnlyWhenGone ==
    [][\A s, t \in Serves :
        serve[s] = "unborn" /\ serve'[s] = "booting" /\ t # s /\ nameOf[t] = nameOf'[s]
        => ~Running(t) \/ t \in termed \union abandoned \union unlisted]_vars

\* No command undoes what another has done: a session that runs is reused, and
\* the entries of the other names survive.
SessionsSurvive == SpawnedOnlyWhenGone /\ OthersEntriesSurvive

\* Every operation returns: each wait under the flock has a deadline.
OperationsReturn ==
    \A c \in Clients : pc[c] = "lock" ~> pc[c] \in {"idle", "using"}

(***************************************************************************)
(* Properties the code does not have                                       *)
(***************************************************************************)
\* "If the session is already running it is reused" (AcquireSession).
RunningSessionReused ==
    [][\A s, t \in Serves :
        serve[s] = "unborn" /\ serve'[s] = "booting" /\ t # s /\ nameOf[t] = nameOf'[s]
        => ~Running(t) \/ t \in termed]_vars

\* "Stop a named session (terminates its Chrome) and remove it", leaving aside
\* what a killed acquirer leaves.
StopTerminates ==
    [][\A c \in Clients : job[c].op = "stop" /\ pc[c] = "save" /\ reg' # reg =>
        \A s \in Serves : nameOf[s] = job[c].name =>
            ~Running(s) \/ s \in termed \union abandoned]_vars

\* "We must never signal an innocent process during respawn/prune/stop": nor
\* one that has taken the PID since.
OnlyServesSignalled ==
    [][\A c \in Clients :
        pc[c] = "kill" /\ pc'[c] = "waitDead"
        => table[pidOf[ChromeOf(Entry(c))]] # Other]_vars

\* "Remove dead sessions (Chrome no longer reachable)": prune signals no serve
\* that is up with its Chrome.
PruneSparesTheLiving ==
    [][\A c \in Clients, s \in Serves :
        job[c].op = "prune" /\ pc[c] = "kill" /\ s \in termed' \ termed
        => s \notin chromes]_vars

\* "ghostchrome never drives one of your tabs": in a Chrome of the user a
\* command works in a tab of its own.
OwnTabInUserChrome ==
    \A c \in Clients :
        pc[c] = "using" /\ got[c].by = "cli" /\ got[c].chrome \in UserChromes
        => got[c].ownTab

\* The same of the MCP server.
McpOwnTabInUserChrome ==
    \A c \in Clients :
        pc[c] = "using" /\ got[c].by = "mcp" /\ got[c].chrome \in UserChromes
        => got[c].ownTab

\* "killPID sends SIGTERM so serve can shut Chrome down cleanly".
SignalShutsChromeDown ==
    [][\A s \in Serves, c \in Clients :
        /\ pc[c] \in {"kill", "ready", "save"} /\ pc'[c] # pc[c]
        /\ Running(s) /\ serve'[s] = "gone"
        => s \notin chromes]_vars

\* For TLC: commands, serves, PIDs and names differ in nothing but what they
\* are called.
Symmetry == Permutations(Clients) \union Permutations(Serves) \union Permutations(Pids)
            \union Permutations(Names)
=============================================================================
