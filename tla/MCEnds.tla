------------------------------- MODULE MCEnds --------------------------------
(* What has to come to an end, checked in one run of TLC: tool calls and the   *)
(* close of the MCP server, registry operations, recorders, requests of an op  *)
(* session, waits, dialogs, loads, the observer, routes, the opening of a page *)
(* and the two client libraries, each over a small instance of its own, under  *)
(* the fairness its module states. A behaviour is of one instance, which part  *)
(* names; the components share the variables of the same name, and what an     *)
(* instance does not use is Idle and never changes.                            *)
EXTENDS Naturals, Sequences, FiniteSets, TLC

CONSTANTS Parts,                 \* the instances that are checked
          Missing, NoProcess, Stranger,   \* none, and who has a PID not ours
          Sends, AgentCrashes,            \* of a client library, and of its agent
          PythonTears, TypeScriptTears,   \* an agent may end amid a line
          Starts                          \* agents one TypeScript client starts

VARIABLES part,   \* the component that this behaviour is of
          lock, pc, closed, closeDone, cached, hub, observer, refs, saved,
          emulation, idle, blanked, worked, home, emu, browser, page, up,
          open, mine, reg, profile, copy, flock, job, got, serve, nameOf,
          pidOf, table, termed, chromes, abandoned, unlisted, taken, innocent,
          ops, chrome, record, status, stop, rt, captured, manifest, unasked,
          connected, doc, mem, kept, recovered, cameBy, known, prev, fields, snap, err,
          retried, semantic, done, acted, req, dom, url, el, moved, polls,
          answer, typed, submitted, held, unseen, faults, changes, policy,
          keys, policies, waiter, used, caller, count, answered, listening,
          hand, heard, call, docs, shown, armed, frame, calls, stage,
          pending, started, ctx, looping, left, mu, ring, total, dropped,
          buffered, closing, stopped, stopper, file, worker, signalled,
          route, remover, owed, given, leased, proc, alive, stdin,
          stdinOpen, busy, stdout, crashes, result, queues, mail, writer,
          reader, closer, starts, promise, failing, rest, missed, disposed,
          disposing

Server == INSTANCE McpServer WITH
    Clients <- {"c1"}, Prewarmers <- {"p1"}, Closers <- {"k1", "k2"},
    Tabs <- {"t1", "t2"}, Chromes <- {"b1"}, UserChrome <- "b1",
    Profiles <- {}, NoTab <- Missing, NoChrome <- Missing, NoProfile <- Missing,
    NoActor <- Missing, Attached <- FALSE, InitScripts <- FALSE,
    ProbeTimesOut <- FALSE
Registry == INSTANCE SessionRegistry WITH
    Clients <- {"c1", "c2"}, Names <- {"n1"}, Serves <- {"s1"},
    Pids <- {"p1"}, UserChromes <- {}, NoEntry <- Missing, NoClient <- Missing,
    NoServe <- Missing, NoChrome <- Missing, Nobody <- NoProcess, Other <- Stranger,
    ProbesTimeOut <- TRUE, MaxOps <- 2
Video == INSTANCE VideoRecorder WITH
    Clients <- {"c1"}, Recs <- {1}, NoRec <- Missing, MaxFrames <- 1,
    Slow <- FALSE, CanFail <- TRUE, Kills <- FALSE
OpServer == INSTANCE OpSession WITH
    Nodes <- {"n1", "n2"}, Kind <- ("n1" :> "x") @@ ("n2" :> "y"),
    Docs <- {<<"n1", "n2">>, <<"n2">>}, Tabs <- {"t1"}, NoTab <- Missing,
    Mcp <- FALSE, AdoptFails <- FALSE, MaxFields <- 1, MaxLaunches <- 1
Waits == INSTANCE ElementWait WITH
    N <- 2,
    Requests <- {"css", "locator", "ref"} \X {"visible", "hidden", "stable"},
    MaxCount <- 1, MaxPolls <- 2, MaxChanges <- 1, MaxFaults <- 2
Dialog == INSTANCE Dialogs WITH
    page <- "page", Clones <- {}, Callers <- {"cli"}, recovery <- "hook",
    Preinstalled <- TRUE, MaxDialogs <- 2, MayClose <- FALSE
Loads == INSTANCE PageLoads WITH
    Ops <- {"navigate", "history", "wait"},
    Strategies <- {"dcl", "load", "idle"}, Bounded <- TRUE, MaxDocs <- 2,
    MaxCalls <- 2
Observes == INSTANCE Observer WITH
    Requests <- {"r1"}, Wanted <- {"r1"}, Kinds <- {}, Evade <- TRUE,
    MaxEvents <- 1, History <- 1, BufferSize <- 1, Messages <- 0,
    StartMayFail <- FALSE
Route == INSTANCE Routes WITH
    Commands <- {"c1", "c2"}, Removers <- {"u1"}, Patterns <- {"ads"},
    Concurrent <- TRUE, MayFail <- FALSE, MayDie <- FALSE
Opens == INSTANCE OpenPage WITH
    Kinds <- {"command"}, Connects <- {"none"}, MaxChanges <- 0
Python == INSTANCE PythonTransport WITH
    NOps <- Sends, MaxCrashes <- AgentCrashes, Torn <- PythonTears
TypeScript == INSTANCE TypeScriptTransport WITH
    NOps <- Sends, MaxCrashes <- AgentCrashes, Torn <- TypeScriptTears,
    MaxStarts <- Starts

(* What the components that are not of this behaviour hold.                   *)
Idle == "idle"
OthersIdle ==
    /\ part \notin {"mcp", "open"} =>
        /\ lock = Idle
    /\ part \notin {"mcp", "registry", "video", "op", "waits", "python"} =>
        /\ pc = Idle
    /\ part \notin {"mcp", "observer", "python"} =>
        /\ closed = Idle
    /\ part # "mcp" =>
        /\ closeDone = Idle /\ cached = Idle /\ hub = Idle
        /\ observer = Idle /\ refs = Idle /\ saved = Idle
        /\ emulation = Idle /\ idle = Idle /\ blanked = Idle
        /\ worked = Idle /\ home = Idle /\ emu = Idle
    /\ part \notin {"mcp", "op"} =>
        /\ browser = Idle /\ page = Idle /\ up = Idle
    /\ part \notin {"mcp", "dialogs"} =>
        /\ open = Idle
    /\ part \notin {"mcp", "video"} =>
        /\ mine = Idle
    /\ part \notin {"registry", "open"} =>
        /\ reg = Idle /\ profile = Idle
    /\ part \notin {"registry", "video"} =>
        /\ copy = Idle
    /\ part # "registry" =>
        /\ flock = Idle /\ job = Idle /\ got = Idle /\ serve = Idle
        /\ nameOf = Idle /\ pidOf = Idle /\ table = Idle /\ termed = Idle
        /\ chromes = Idle /\ abandoned = Idle /\ unlisted = Idle
        /\ taken = Idle /\ innocent = Idle /\ ops = Idle
    /\ part # "video" =>
        /\ chrome = Idle /\ record = Idle /\ status = Idle /\ stop = Idle
        /\ rt = Idle /\ captured = Idle /\ manifest = Idle
        /\ unasked = Idle
    /\ part # "op" =>
        /\ connected = Idle /\ doc = Idle /\ mem = Idle /\ kept = Idle
        /\ recovered = Idle /\ cameBy = Idle /\ known = Idle /\ prev = Idle
        /\ fields = Idle /\ snap = Idle /\ err = Idle /\ retried = Idle
        /\ semantic = Idle /\ done = Idle /\ acted = Idle
    /\ part \notin {"op", "waits"} =>
        /\ req = Idle
    /\ part # "waits" =>
        /\ dom = Idle /\ url = Idle /\ el = Idle /\ moved = Idle
        /\ polls = Idle /\ answer = Idle /\ typed = Idle /\ submitted = Idle
        /\ held = Idle /\ unseen = Idle /\ faults = Idle
    /\ part \notin {"waits", "open"} =>
        /\ changes = Idle
    /\ part # "dialogs" =>
        /\ policy = Idle /\ keys = Idle /\ policies = Idle /\ waiter = Idle
        /\ used = Idle /\ caller = Idle /\ count = Idle /\ answered = Idle
    /\ part \notin {"dialogs", "observer"} =>
        /\ listening = Idle /\ hand = Idle
    /\ part \notin {"dialogs", "loads"} =>
        /\ heard = Idle /\ call = Idle
    /\ part # "loads" =>
        /\ docs = Idle /\ shown = Idle /\ armed = Idle /\ frame = Idle
        /\ calls = Idle
    /\ part \notin {"loads", "observer"} =>
        /\ stage = Idle
    /\ part \notin {"loads", "observer", "typescript"} =>
        /\ pending = Idle
    /\ part # "observer" =>
        /\ started = Idle /\ ctx = Idle /\ looping = Idle /\ left = Idle
        /\ mu = Idle /\ ring = Idle /\ total = Idle /\ dropped = Idle
        /\ buffered = Idle /\ closing = Idle /\ stopped = Idle
        /\ stopper = Idle
    /\ part # "routes" =>
        /\ file = Idle /\ worker = Idle /\ signalled = Idle /\ route = Idle
        /\ remover = Idle /\ owed = Idle
    /\ part # "open" =>
        /\ given = Idle /\ leased = Idle
    /\ part \notin {"open", "typescript"} =>
        /\ proc = Idle
    /\ part \notin {"python", "typescript"} =>
        /\ alive = Idle /\ stdin = Idle /\ stdinOpen = Idle /\ busy = Idle
        /\ stdout = Idle /\ crashes = Idle
    /\ part # "python" =>
        /\ result = Idle /\ queues = Idle /\ mail = Idle /\ writer = Idle
        /\ reader = Idle /\ closer = Idle
    /\ part # "typescript" =>
        /\ starts = Idle /\ promise = Idle /\ failing = Idle /\ rest = Idle
        /\ missed = Idle /\ disposed = Idle /\ disposing = Idle
OthersStay ==
    /\ part \notin {"mcp", "open"} => UNCHANGED <<lock>>
    /\ part \notin {"mcp", "registry", "video", "op", "waits", "python"} => UNCHANGED
         <<pc>>
    /\ part \notin {"mcp", "observer", "python"} => UNCHANGED <<closed>>
    /\ part # "mcp" => UNCHANGED
         <<closeDone, cached, hub, observer, refs, saved, emulation, idle,
           blanked, worked, home, emu>>
    /\ part \notin {"mcp", "op"} => UNCHANGED <<browser, page, up>>
    /\ part \notin {"mcp", "dialogs"} => UNCHANGED <<open>>
    /\ part \notin {"mcp", "video"} => UNCHANGED <<mine>>
    /\ part \notin {"registry", "open"} => UNCHANGED <<reg, profile>>
    /\ part \notin {"registry", "video"} => UNCHANGED <<copy>>
    /\ part # "registry" => UNCHANGED
         <<flock, job, got, serve, nameOf, pidOf, table, termed, chromes,
           abandoned, unlisted, taken, innocent, ops>>
    /\ part # "video" => UNCHANGED
         <<chrome, record, status, stop, rt, captured, manifest, unasked>>
    /\ part # "op" => UNCHANGED
         <<connected, doc, mem, kept, recovered, cameBy, known, prev,
           fields, snap, err, retried, semantic, done, acted>>
    /\ part \notin {"op", "waits"} => UNCHANGED <<req>>
    /\ part # "waits" => UNCHANGED
         <<dom, url, el, moved, polls, answer, typed, submitted, held,
           unseen, faults>>
    /\ part \notin {"waits", "open"} => UNCHANGED <<changes>>
    /\ part # "dialogs" => UNCHANGED
         <<policy, keys, policies, waiter, used, caller, count, answered>>
    /\ part \notin {"dialogs", "observer"} => UNCHANGED <<listening, hand>>
    /\ part \notin {"dialogs", "loads"} => UNCHANGED <<heard, call>>
    /\ part # "loads" => UNCHANGED <<docs, shown, armed, frame, calls>>
    /\ part \notin {"loads", "observer"} => UNCHANGED <<stage>>
    /\ part \notin {"loads", "observer", "typescript"} => UNCHANGED
         <<pending>>
    /\ part # "observer" => UNCHANGED
         <<started, ctx, looping, left, mu, ring, total, dropped, buffered,
           closing, stopped, stopper>>
    /\ part # "routes" => UNCHANGED
         <<file, worker, signalled, route, remover, owed>>
    /\ part # "open" => UNCHANGED <<given, leased>>
    /\ part \notin {"open", "typescript"} => UNCHANGED <<proc>>
    /\ part \notin {"python", "typescript"} => UNCHANGED
         <<alive, stdin, stdinOpen, busy, stdout, crashes>>
    /\ part # "python" => UNCHANGED
         <<result, queues, mail, writer, reader, closer>>
    /\ part # "typescript" => UNCHANGED
         <<starts, promise, failing, rest, missed, disposed, disposing>>

Init ==
    /\ part \in Parts /\ OthersIdle
    /\ \/ part = "mcp" /\ Server!Init
       \/ part = "registry" /\ Registry!Init
       \/ part = "video" /\ Video!Init
       \/ part = "op" /\ OpServer!Init
       \/ part = "waits" /\ Waits!Init
       \/ part = "dialogs" /\ Dialog!Init
       \/ part = "loads" /\ Loads!Init
       \/ part = "observer" /\ Observes!Init
       \/ part = "routes" /\ Route!Init
       \/ part = "open" /\ Opens!Init
       \/ part = "python" /\ Python!Init
       \/ part = "typescript" /\ TypeScript!Init

Step(p) == part = p /\ UNCHANGED part /\ OthersStay

Next ==
    \/ Step("mcp") /\ Server!Next
    \/ Step("registry") /\ Registry!Next
    \/ Step("video") /\ Video!Next
    \/ Step("op") /\ OpServer!Next
    \/ Step("waits") /\ Waits!Next
    \/ Step("dialogs") /\ Dialog!Next
    \/ Step("loads") /\ Loads!Next
    \/ Step("observer") /\ Observes!Next
    \/ Step("routes") /\ Route!Next
    \/ Step("open") /\ Opens!Next
    \/ Step("python") /\ Python!Next
    \/ Step("typescript") /\ TypeScript!Next

vars == <<part, lock, pc, closed, closeDone, cached, hub, observer, refs,
          saved, emulation, idle, blanked, worked, home, emu, browser, page,
          up, open, mine, reg, profile, copy, flock, job, got, serve,
          nameOf, pidOf, table, termed, chromes, abandoned, unlisted,
          taken, innocent, ops, chrome, record, status, stop, rt, captured,
          manifest, unasked, connected, doc, mem, kept, recovered, cameBy, known,
          prev, fields, snap, err, retried, semantic, done, acted, req, dom,
          url, el, moved, polls, answer, typed, submitted, held, unseen,
          faults, changes, policy, keys, policies, waiter, used, caller,
          count, answered, listening, hand, heard, call, docs, shown, armed,
          frame, calls, stage, pending, started, ctx, looping, left, mu,
          ring, total, dropped, buffered, closing, stopped, stopper, file,
          worker, signalled, route, remover, owed, given, leased, proc,
          alive, stdin, stdinOpen, busy, stdout, crashes, result, queues,
          mail, writer, reader, closer, starts, promise, failing, rest,
          missed, disposed, disposing>>
Spec == Init /\ [][Next]_vars

ASSUME EndsAssumption ==
    /\ Video!VideoAssumption /\ OpServer!OpSessionAssumption
    /\ Waits!ElementWaitAssumption /\ Dialog!DialogAssumption
    /\ Loads!PageLoadsAssumption /\ Observes!ObserverAssumption
    /\ Route!RoutesAssumption /\ Opens!OpenPageAssumption
    /\ Python!AgentAssumption /\ TypeScript!AgentAssumption /\ TypeScript!TransportAssumption

(* The fairness of every component, as its FairSpec states and justifies it:   *)
(* an actor that has started goes on, and a waiter for a lock gets it in the   *)
(* end; nothing obliges a caller to call, a page to change or a process to     *)
(* die. A behaviour is of one component, so that the actors of different       *)
(* components share one condition: Actor(k) is the k-th actor of each one.     *)
Own(p) == part = p /\ UNCHANGED part
own ==
    CASE part = "mcp" -> Server!vars      [] part = "registry" -> Registry!vars
      [] part = "video" -> Video!vars     [] part = "op" -> OpServer!vars
      [] part = "waits" -> Waits!vars     [] part = "dialogs" -> Dialog!vars
      [] part = "loads" -> Loads!vars     [] part = "open" -> Opens!vars
      [] part = "observer" -> Observes!vars [] part = "routes" -> Route!vars
      [] part = "python" -> Python!vars   [] part = "typescript" -> TypeScript!vars
Actor(k) ==
    \/ /\ Own("mcp")
       /\ \/ k = 1 /\ (Server!EnsurePage("c1") \/ Server!Op("c1"))
          \/ k = 2 /\ \/ Server!EnsurePage("p1")
                      \/ Server!PrewarmEnd("p1")
                      \/ Server!AwaitClosed("p1")
          \/ k = 3 /\ (Server!CloseFinish("k1") \/ Server!AwaitClosed("k1"))
          \/ k = 4 /\ (Server!CloseFinish("k2") \/ Server!AwaitClosed("k2"))
    \/ /\ Own("registry")
       /\ \E c \in {<<1, "c1">>, <<2, "c2">>} :
          /\ k = c[1]
          /\ \/ pc[c[2]] # "lock" /\ Registry!Locked(c[2])
             \/ Registry!SessionAttached(c[2])
             \/ Registry!ForeignChrome(c[2])
             \/ Registry!Finish(c[2])
    \/ /\ Own("video")
       /\ \/ k = 1 /\ Video!Command("c1")
          \/ k = 2 /\ \/ Video!SeesStop(1)
                      \/ ~chrome /\ Video!SeesNoChrome(1)
                      \/ rt[1] # "recording" /\ Video!Runtime(1)
    \/ Own("op")      /\ k = 1 /\ OpServer!Working
    \/ Own("waits")   /\ k = 1 /\ Waits!Step
    \/ Own("dialogs") /\ k = 1 /\ Dialog!ListenerNext("page")
    \/ Own("loads")   /\ \/ k = 1 /\ Loads!Caller
                         \/ k = 2 /\ Loads!WaitDeadline
    \/ Own("open")    /\ k = 1 /\ \E i \in 1..2 : Opens!Step(i)
    \/ /\ Own("observer")
       /\ \/ k = 1 /\ (Observes!StopCancels \/ Observes!StopReturns)
          \/ k = 2 /\ Observes!CloseChannel
          \/ k = 3 /\ Observes!Stopped
          \/ k = 4 /\ Observes!BodyAnswered
          \/ k = 5 /\ Observes!ListenerDone("net")
          \/ k = 6 /\ Observes!ListenerDone("log")
          \/ k = 7 /\ Observes!ListenerDone("page")
    \/ /\ Own("routes")
       /\ \/ k = 1 /\ Route!CommandSteps("c1")
          \/ k = 2 /\ Route!CommandSteps("c2")
          \/ k = 3 /\ Route!WorkerSteps("c1")
          \/ k = 4 /\ Route!WorkerSteps("c2")
          \/ k = 5 /\ Route!RemoverSteps("u1")
    \/ /\ Own("python")
       /\ \/ k \in 1..Sends /\ (Python!Lock(k) \/ Python!Write(k) \/ Python!Get(k))
          \/ k = 4 /\ Python!AgentRuns
          \/ k = 5 /\ Python!ReadLoop
    \/ /\ Own("typescript")
       /\ \/ k \in 1..Sends /\ TypeScript!WriteFailed(k)
          \/ k = 4 /\ TypeScript!AgentRuns
          \/ k = 5 /\ TypeScript!Turn

(* The k-th waiter for a lock of each component.                               *)
Waiter(k) ==
    \/ /\ Own("mcp")
       /\ \/ k = 1 /\ Server!Acquire("c1")
          \/ k = 2 /\ Server!PrewarmRun("p1")
    \/ /\ Own("registry")
       /\ \/ k = 1 /\ Registry!Load("c1")
          \/ k = 2 /\ Registry!Load("c2")
    \/ /\ Own("observer")
       /\ \/ k = 1 /\ Observes!Emit("net")
          \/ k = 2 /\ Observes!Emit("log")
          \/ k = 3 /\ Observes!Emit("page")
          \/ k = 4 /\ Observes!StopLocks

FairSpec ==
    /\ Spec
    /\ \A k \in 1..7 : WF_own(Actor(k))
    /\ \A k \in 1..4 : SF_own(Waiter(k))
------------------------------------------------------------------------------
(* What the client libraries promise: an answer goes to the send that asked    *)
(* for it, the end of the output is the end, and a closed client has no        *)
(* process left.                                                               *)
TransportsHold ==
    /\ part = "python" =>
          /\ Python!TypeOK /\ Python!OwnAnswer
          /\ Python!EofIsTheEnd /\ Python!ClosedLeavesNoProcess
    /\ part = "typescript" =>
          TypeScript!TypeOK /\ TypeScript!DisposedLeavesNothing

(* What has begun, and that it is over: of each component the liveness its     *)
(* module states, of the actor k when there are several.                       *)
Begun(k) ==
    \/ /\ part = "mcp"
       /\ (k = 1 /\ pc["c1"] = "waiting") \/ (k = 2 /\ closed = TRUE)
    \/ part = "registry" /\ k \in 1..2 /\ pc[<<"c1", "c2">>[k]] = "lock"
    \/ /\ part = "video"
       /\ \/ k = 1 /\ pc["c1"] # "idle"
          \/ k = 2 /\ ((rt[1] = "recording" /\ 1 \in stop) \/ ~chrome)
    \/ part = "op" /\ k = 1 /\ pc \in {"try", "fill"}
    \/ part = "waits" /\ k = 1 /\ pc # "idle"
    \/ part = "dialogs" /\ k \in 1..2 /\ open = k
    \/ /\ part = "loads"
       /\ \/ /\ k = 1 /\ call.at \in {"asked", "waiting"}
             /\ Loads!Name(call.wait) # 0
          \/ k = 2 /\ call.at = "page" /\ call.wait = "dcl"
    \/ part = "open" /\ k = 1
    \/ /\ part = "observer"
       /\ (k = 1 /\ stopper = "lock") \/ (k = 2 /\ ctx = "cancelled")
    \/ part = "routes" /\ k \in 1..2 /\ <<"c1", "c2">>[k] \in signalled
    \/ part = "python" /\ k \in 1..Sends /\ pc[k] = "queued"
    \/ part = "typescript" /\ k \in 1..Sends /\ promise[k] = "pending"

Over(k) ==
    \/ /\ part = "mcp"
       /\ (k = 1 /\ pc["c1"] = "idle") \/ (k = 2 /\ closeDone)
    \/ part = "registry" /\ k \in 1..2 /\ pc[<<"c1", "c2">>[k]] \in {"idle", "using"}
    \/ /\ part = "video"
       /\ (k = 1 /\ pc["c1"] = "idle") \/ (k = 2 /\ ~Video!Running(1))
    \/ part = "op" /\ pc = "ready"
    \/ part = "waits" /\ pc = "done"
    \/ part = "dialogs" /\ open # k
    \/ part = "loads" /\ call.at = "returned"
    \/ part = "open" /\ proc[1].at = "over" /\ lock = 0
    \/ /\ part = "observer"
       /\ (k = 1 /\ stopper = "done") \/ (k = 2 /\ closed)
    \/ /\ part = "routes" /\ k \in 1..2
       /\ worker[<<"c1", "c2">>[k]] \in {"ended", "reused"}
    \/ part = "python" /\ k \in 1..Sends /\ pc[k] = "done"
    \/ part = "typescript" /\ k \in 1..Sends /\ promise[k] # "pending"

(* Whatever has begun comes to its end: tool calls return and Close completes  *)
(* (CallsReturn, CloseCompletes), every registry operation returns with its    *)
(* waits under the lock (OperationsReturn), recorders that are told to stop do *)
(* and the commands about them return, a request of an op session is answered, *)
(* waits and navigations end, an open dialog is answered, the opening of a     *)
(* page is over, an observer that is stopped or done ends, a removed route     *)
(* stops, and every send of a client library ends without any timeout and      *)
(* only once.                                                                  *)
EverythingEnds ==
    /\ \A k \in 1..3 : Begun(k) ~> Over(k)
    /\ [][part = "typescript" => TypeScript!SettlesOnce]_vars
==============================================================================
