------------------------------- MODULE Routes -------------------------------
(* Persistent routes (cli/playwright_route.go): `route` starts a detached      *)
(* worker that intercepts requests of the session's browser and then adds an   *)
(* entry with the worker's pid to routes.json; `unroute` signals the pids of   *)
(* the entries it removes.  The file is read, changed and written without a    *)
(* lock, and the entries name processes that may have ended since.             *)
EXTENDS Naturals, Sequences, SequencesExt, FiniteSets

CONSTANTS Commands,      \* invocations of route, each with its id and its worker
          Removers,      \* invocations of unroute
          Patterns,
          Concurrent,    \* commands may overlap
          MayFail,       \* a worker may not reach its page, a save may fail
          MayDie         \* a command may be killed half-way

RoutesAssumption == {Concurrent, MayFail, MayDie} \subseteq BOOLEAN

Every == "every"         \* unroute without an argument

VARIABLES
  file,      \* the entries of routes.json: [id, pattern]
  worker,    \* the process of each route's worker: none, starting, active, stopping, ended, reused
  signalled, \* the pids that have been sent SIGTERM
  route,     \* each route command: [at, pattern, seen]
  remover,   \* each unroute command: [at, filter, seen, removed]
  owed       \* what each unroute command is to remove: the routes registered when it began

vars == <<file, worker, signalled, route, remover, owed>>

Entry(c, p) == [id |-> c, pattern |-> p]
Running == {"reading", "saving"}
Free == \/ Concurrent
        \/ /\ \A c \in Commands : route[c].at \notin Running
           /\ \A u \in Removers : remover[u].at \notin Running
Told(c) == route[c].at = "done"
Listed == {file[i].id : i \in DOMAIN file}

Init ==
  /\ file = <<>>
  /\ worker = [c \in Commands |-> "none"]
  /\ signalled = {}
  /\ route = [c \in Commands |-> [at |-> "idle", pattern |-> "none", seen |-> <<>>]]
  /\ remover = [u \in Removers |-> [at |-> "idle", filter |-> "none", seen |-> <<>>, removed |-> {}]]
  /\ owed = [u \in Removers |-> {}]

(* startPersistentRoute: the worker is started and let go, its pid kept for    *)
(* the entry.                                                                  *)
StartPersistentRoute(c, p) ==
  /\ Free /\ route[c].at = "idle"
  /\ route' = [route EXCEPT ![c] = [at |-> "reading", pattern |-> p, seen |-> <<>>]]
  /\ worker' = [worker EXCEPT ![c] = "starting"]
  /\ UNCHANGED <<file, signalled, remover, owed>>

(* registerRoute: read, append, write; the route is told to be active.         *)
RegisterRead(c) ==
  /\ route[c].at = "reading"
  /\ route' = [route EXCEPT ![c].at = "saving", ![c].seen = file]
  /\ UNCHANGED <<file, worker, signalled, remover, owed>>

Appended(c) == Append(route[c].seen, Entry(c, route[c].pattern))

RegisterSave(c) ==
  /\ route[c].at = "saving"
  /\ file' = Appended(c)
  /\ route' = [route EXCEPT ![c].at = "done"]
  /\ UNCHANGED <<worker, signalled, remover, owed>>

(* A SIGTERM, to whatever process has the pid: a worker that listens stops its *)
(* router first, one that does not yet is ended by the signal itself.          *)
Signal(w) ==
  CASE w = "active"   -> "stopping"
    [] w \in {"starting", "reused"} -> "ended"
    [] OTHER -> w

KillRoute(S) ==
  /\ worker' = [c \in Commands |-> IF c \in S THEN Signal(worker[c]) ELSE worker[c]]
  /\ signalled' = signalled \cup S

RegisterFails(c) ==
  /\ MayFail /\ route[c].at \in Running
  /\ KillRoute({c})
  /\ route' = [route EXCEPT ![c].at = "failed"]
  /\ UNCHANGED <<file, remover, owed>>

(* removeRoutes: read, signal the matches, write what is kept.                 *)
UnrouteBegin(u, f) ==
  /\ Free /\ remover[u].at = "idle"
  /\ remover' = [remover EXCEPT ![u].at = "reading", ![u].filter = f]
  /\ owed' = [owed EXCEPT ![u] =
       {c \in Commands : Told(c) /\ c \notin signalled /\ f \in {Every, route[c].pattern}}]
  /\ UNCHANGED <<file, worker, signalled, route>>

Matches(e, f) == f \in {Every, e.id, e.pattern}

UnrouteKill(u) ==
  /\ remover[u].at = "reading"
  /\ LET gone == {file[i].id : i \in {j \in DOMAIN file : Matches(file[j], remover[u].filter)}} IN
     /\ KillRoute(gone)
     /\ remover' = [remover EXCEPT ![u].at = "saving", ![u].seen = file, ![u].removed = gone]
  /\ UNCHANGED <<file, route, owed>>

UnrouteSave(u) ==
  /\ remover[u].at = "saving"
  /\ \/ /\ file' = SelectSeq(remover[u].seen, LAMBDA e : e.id \notin remover[u].removed)
        /\ remover' = [remover EXCEPT ![u].at = "done"]
     \/ /\ MayFail /\ file' = file
        /\ remover' = [remover EXCEPT ![u].at = "failed"]
  /\ UNCHANGED <<worker, signalled, route, owed>>

(* runRouteActive: the worker attaches to its session and starts the router.   *)
WorkerStarts(c) ==
  /\ worker[c] = "starting"
  /\ worker' = [worker EXCEPT ![c] = "active"]
  /\ UNCHANGED <<file, signalled, route, remover, owed>>
WorkerFails(c) ==
  /\ MayFail /\ worker[c] = "starting"
  /\ worker' = [worker EXCEPT ![c] = "ended"]
  /\ UNCHANGED <<file, signalled, route, remover, owed>>

(* waitForRouteStop: the router is stopped, the process ends.                  *)
WorkerStops(c) ==
  /\ worker[c] = "stopping"
  /\ worker' = [worker EXCEPT ![c] = "ended"]
  /\ UNCHANGED <<file, signalled, route, remover, owed>>

(* The system: a command is killed, a pid is given to another process.         *)
CommandDies(c) ==
  /\ MayDie /\ route[c].at \in Running
  /\ route' = [route EXCEPT ![c].at = "killed"]
  /\ UNCHANGED <<file, worker, signalled, remover, owed>>
RemoverDies(u) ==
  /\ MayDie /\ remover[u].at \in Running
  /\ remover' = [remover EXCEPT ![u].at = "killed"]
  /\ UNCHANGED <<file, worker, signalled, route, owed>>
PidReused(c) ==
  /\ MayFail /\ worker[c] = "ended"
  /\ worker' = [worker EXCEPT ![c] = "reused"]
  /\ UNCHANGED <<file, signalled, route, remover, owed>>

CommandSteps(c) == RegisterRead(c) \/ RegisterSave(c)
RemoverSteps(u) == UnrouteKill(u) \/ UnrouteSave(u)
WorkerSteps(c) == WorkerStarts(c) \/ WorkerStops(c)

Next ==
  \/ \E c \in Commands :
       \/ \E p \in Patterns : StartPersistentRoute(c, p)
       \/ CommandSteps(c) \/ RegisterFails(c) \/ CommandDies(c)
       \/ WorkerSteps(c) \/ WorkerFails(c) \/ PidReused(c)
  \/ \E u \in Removers :
       \/ \E f \in Patterns \cup {Every} : UnrouteBegin(u, f)
       \/ RemoverSteps(u) \/ RemoverDies(u)

Spec == Init /\ [][Next]_vars

(* The processes that run go on running.                                       *)
FairSpec ==
  /\ Spec
  /\ \A c \in Commands : WF_vars(CommandSteps(c)) /\ WF_vars(WorkerSteps(c))
  /\ \A u \in Removers : WF_vars(RemoverSteps(u))

-----------------------------------------------------------------------------
(* Types of the variables.                                                     *)
TypeOK ==
  /\ \A i \in DOMAIN file : file[i] \in [id : Commands, pattern : Patterns]
  /\ worker \in [Commands -> {"none", "starting", "active", "stopping", "ended", "reused"}]
  /\ signalled \subseteq Commands
  /\ \A c \in Commands : route[c].at \in {"idle", "done", "failed", "killed"} \cup Running
  /\ \A u \in Removers : remover[u].at \in {"idle", "done", "failed", "killed"} \cup Running

(* A worker that intercepts is in the file, where unroute finds it, or has been*)
(* signalled, or is that of a command still under way (registerRoute,          *)
(* removeRoutes).                                                              *)
WorkerFindable ==
  \A c \in Commands :
    worker[c] \in {"starting", "active"} => c \in Listed \cup signalled \/ route[c].at \in Running

(* docs/cli.md: "unroute with no argument removes every registered route", and *)
(* with a pattern those of the pattern: when the command has ended well, all   *)
(* that were registered when it began have been signalled.                     *)
UnrouteRemoves ==
  \A u \in Removers : remover[u].at = "done" => owed[u] \subseteq signalled

(* docs/cli.md: "List active route workers": an entry that is in the file when *)
(* its worker has started or failed to is that of a worker that intercepts.    *)
ListsActive ==
  \A c \in Listed : worker[c] \in {"starting", "active"} \cup (IF c \in signalled THEN {"stopping", "ended", "reused"} ELSE {})

(* The command says "route ... active for ...": the worker intercepts by then. *)
ToldIsActive == \A c \in Commands : Told(c) => worker[c] # "starting"

(* A route that was removed intercepts no more, at last.                       *)
RemovedStops ==
  \A c \in Commands : (c \in signalled) ~> (worker[c] \in {"ended", "reused"})
=============================================================================
