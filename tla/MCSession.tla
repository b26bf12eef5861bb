------------------------------ MODULE MCSession ------------------------------
(* What a session keeps and shares, checked in one run of TLC: the ops of an   *)
(* op session, the log that the daemon and the commands write, named browser   *)
(* contexts, profile directories, the opening of a page, the video recorder    *)
(* and a removal of the installation, each over small instances of its own. A  *)
(* behaviour is of one instance, which part names; the components share the    *)
(* variables of the same name, and what an instance does not use is Idle and   *)
(* never changes.                                                              *)
EXTENDS Naturals, Sequences, FiniteSets, TLC

CONSTANTS Parts,                   \* the instances that are checked
          n1, n2, n3,              \* the elements of a page
          c1, c2, m1, m2,          \* processes and clients, names of contexts
          NoTab, NoRec             \* none

Symmetry == Permutations({c1, c2}) \union Permutations({m1, m2})

VARIABLES part,   \* the component that this behaviour is of
          connected, browser, up, doc, page, mem, recovered, cameBy, known,
          req, prev, fields, snap, err, retried, semantic, done, acted,
          kept, pc, exists, lines, gen, daemon, ring, stamp, queue, field,
          emitted, clears, failures, tried, logged, cleared, cmd, file,
          torn, living, made, job, live, view, leftover, restarts, reg,
          crashes, dir, st, where, session, acq, spawned, gc, doomed, gone,
          lock, stop, given, proc, profile, leased, changes, chrome, record,
          status, rt, captured, copy, mine, unasked, manifest, bin, skill,
          entry, read, found, todo, last, clean, faults, edits

Op(v) == INSTANCE OpSession WITH
    Nodes <- v.nodes, Kind <- v.kind, Docs <- v.docs, Tabs <- v.tabs,
    Mcp <- v.mcp, AdoptFails <- v.adoptFails, MaxFields <- v.fields,
    MaxLaunches <- v.launches
Log == INSTANCE ContinuousLog WITH
    Commands <- {"cmd"}, Kinds <- {"error", "net"}, Keep <- 2, Rewrite <- 3,
    Buffer <- 2, Serves <- TRUE, CanTear <- FALSE, MaxEvents <- 4,
    MaxClears <- 1, MaxFailures <- 1
Context(v) == INSTANCE NamedContexts WITH
    Procs <- v.procs, Names <- v.names, Browsers <- v.browsers,
    Unreachable <- v.unreachable, MaxIds <- v.ids, MaxRestarts <- v.restarts,
    MaxCrashes <- v.crashes
Profile(v) == INSTANCE ProfileDirs WITH
    Profiles <- v.profiles, Default <- v.default, Temps <- v.temps,
    Pids <- v.pids, Actors <- v.actors, GcAlone <- v.gcAlone
Opens(v) == INSTANCE OpenPage WITH
    Kinds <- v.kinds, Connects <- v.connects, MaxChanges <- v.changes
Video(v) == INSTANCE VideoRecorder WITH
    Clients <- v.clients, Recs <- v.recs, MaxFrames <- v.frames,
    Slow <- v.slow, CanFail <- v.fails, Kills <- v.kills
Removal == INSTANCE Setup WITH
    Clients <- {"claude"}, Procs <- {c1, c2}, NoProc <- NoRec,
    NoManifest <- NoRec, ClientsChange <- FALSE, Purges <- FALSE,
    EditsAnytime <- FALSE, Faulty <- {"uninstall"}, MaxFaults <- 1,
    MaxEdits <- 0, MaxCrashes <- 1

\* The JSONL loop, on a page whose third element looks like its first.
Loop ==
    [nodes |-> {n1, n2, n3}, kind |-> (n1 :> "x") @@ (n2 :> "y") @@ (n3 :> "x"),
     docs |-> {<<n1, n2>>, <<n2>>}, tabs |-> {"t1", "t2"}, mcp |-> FALSE,
     adoptFails |-> FALSE, fields |-> 2, launches |-> 1]

\* A command, whatever it is told to connect to, with nobody at the registry.
Command ==
    [kinds |-> {"command"}, connects |-> {"none", "auto", "user", "file"},
     changes |-> 0]

\* Two recordings, one after the other, by commands one at a time; one recording
\* that two commands are about, which are slow and may be killed.
Recordings ==
    [clients |-> {c1}, recs |-> {1, 2}, frames |-> 1, slow |-> FALSE,
     fails |-> TRUE, kills |-> FALSE]
Shared ==
    [clients |-> {c1, c2}, recs |-> {1}, frames |-> 1, slow |-> TRUE,
     fails |-> TRUE, kills |-> TRUE]

\* Commands about contexts: one at a time, and two at once.
OneByOne ==
    [procs |-> {c1}, names |-> {m1, m2}, browsers |-> {"b1"},
     unreachable |-> FALSE, ids |-> 4, restarts |-> 1, crashes |-> 1]
AtOnce == [OneByOne EXCEPT !.procs = {c1, c2}, !.ids = 2, !.crashes = 0]

\* Who is about in the profile directories: starts beside Chromes that ask
\* nobody; a stop with its purge; a garbage collection and a sweep, with no
\* start beside them.
Starts ==
    [profiles |-> {"default", "work"}, default |-> "default", temps |-> {},
     pids |-> 1..3, actors |-> {"acquire", "embedded"}, gcAlone |-> FALSE]
Purges == [Starts EXCEPT !.actors = {"acquire", "purge"}]
Collects ==
    [Starts EXCEPT !.temps = {"temp"}, !.gcAlone = TRUE,
                   !.actors = {"acquire", "temp", "gc", "sweep"}]

(* What the components that are not of this behaviour hold.                   *)
Idle == "idle"
OthersIdle ==
    /\ part # "op" =>
        /\ connected = Idle /\ browser = Idle /\ up = Idle /\ doc = Idle
        /\ page = Idle /\ mem = Idle /\ recovered = Idle /\ cameBy = Idle
        /\ known = Idle /\ req = Idle /\ prev = Idle /\ fields = Idle
        /\ snap = Idle /\ err = Idle /\ retried = Idle /\ semantic = Idle
        /\ done = Idle /\ acted = Idle
    /\ part \notin {"op", "log"} =>
        /\ kept = Idle
    /\ part \notin {"op", "context", "contexts", "video", "videos", "removal"} =>
        /\ pc = Idle
    /\ part # "log" =>
        /\ exists = Idle /\ lines = Idle /\ gen = Idle /\ daemon = Idle
        /\ ring = Idle /\ stamp = Idle /\ queue = Idle /\ field = Idle
        /\ emitted = Idle /\ clears = Idle /\ failures = Idle
        /\ tried = Idle /\ logged = Idle /\ cleared = Idle
    /\ part \notin {"log", "removal"} =>
        /\ cmd = Idle
    /\ part \notin {"context", "contexts"} =>
        /\ file = Idle /\ torn = Idle /\ living = Idle /\ made = Idle
        /\ job = Idle /\ live = Idle /\ view = Idle /\ leftover = Idle
        /\ restarts = Idle
    /\ part \notin {"context", "contexts", "open"} =>
        /\ reg = Idle
    /\ part \notin {"context", "contexts", "removal"} =>
        /\ crashes = Idle
    /\ part \notin {"profileLocks", "profileStops", "profileGc"} =>
        /\ dir = Idle /\ st = Idle /\ where = Idle /\ session = Idle
        /\ acq = Idle /\ spawned = Idle /\ gc = Idle /\ doomed = Idle
        /\ gone = Idle
    /\ part \notin {"profileLocks", "profileStops", "profileGc", "open", "removal"} =>
        /\ lock = Idle
    /\ part \notin {"profileLocks", "profileStops", "profileGc", "video", "videos"} =>
        /\ stop = Idle
    /\ part # "open" =>
        /\ given = Idle /\ proc = Idle /\ profile = Idle /\ leased = Idle
        /\ changes = Idle
    /\ part \notin {"video", "videos"} =>
        /\ chrome = Idle /\ record = Idle /\ status = Idle /\ rt = Idle
        /\ captured = Idle /\ copy = Idle /\ mine = Idle /\ unasked = Idle
    /\ part \notin {"video", "videos", "removal"} =>
        /\ manifest = Idle
    /\ part # "removal" =>
        /\ bin = Idle /\ skill = Idle /\ entry = Idle /\ read = Idle
        /\ found = Idle /\ todo = Idle /\ last = Idle /\ clean = Idle
        /\ faults = Idle /\ edits = Idle
OthersStay ==
    /\ part # "op" => UNCHANGED
         <<connected, browser, up, doc, page, mem, recovered, cameBy, known,
           req, prev, fields, snap, err, retried, semantic, done, acted>>
    /\ part \notin {"op", "log"} => UNCHANGED <<kept>>
    /\ part \notin {"op", "context", "contexts", "video", "videos", "removal"} => UNCHANGED
         <<pc>>
    /\ part # "log" => UNCHANGED
         <<exists, lines, gen, daemon, ring, stamp, queue, field, emitted,
           clears, failures, tried, logged, cleared>>
    /\ part \notin {"log", "removal"} => UNCHANGED <<cmd>>
    /\ part \notin {"context", "contexts"} => UNCHANGED
         <<file, torn, living, made, job, live, view, leftover, restarts>>
    /\ part \notin {"context", "contexts", "open"} => UNCHANGED <<reg>>
    /\ part \notin {"context", "contexts", "removal"} => UNCHANGED
         <<crashes>>
    /\ part \notin {"profileLocks", "profileStops", "profileGc"} => UNCHANGED
         <<dir, st, where, session, acq, spawned, gc, doomed, gone>>
    /\ part \notin {"profileLocks", "profileStops", "profileGc", "open", "removal"} => UNCHANGED
         <<lock>>
    /\ part \notin {"profileLocks", "profileStops", "profileGc", "video", "videos"} => UNCHANGED
         <<stop>>
    /\ part # "open" => UNCHANGED <<given, proc, profile, leased, changes>>
    /\ part \notin {"video", "videos"} => UNCHANGED
         <<chrome, record, status, rt, captured, copy, mine, unasked>>
    /\ part \notin {"video", "videos", "removal"} => UNCHANGED <<manifest>>
    /\ part # "removal" => UNCHANGED
         <<bin, skill, entry, read, found, todo, last, clean, faults,
           edits>>

Init ==
    /\ part \in Parts /\ OthersIdle
    /\ \/ part = "op" /\ Op(Loop)!Init
       \/ part = "log" /\ Log!Init
       \/ part = "context" /\ Context(OneByOne)!Init
       \/ part = "contexts" /\ Context(AtOnce)!Init
       \/ part = "profileLocks" /\ Profile(Starts)!Init
       \/ part = "profileStops" /\ Profile(Purges)!Init
       \/ part = "profileGc" /\ Profile(Collects)!Init
       \/ part = "open" /\ Opens(Command)!Init
       \/ part = "video" /\ Video(Recordings)!Init
       \/ part = "removal" /\ Removal!Init
       \/ part = "videos" /\ Video(Shared)!Init

Step(p) == part = p /\ UNCHANGED part /\ OthersStay

Next ==
    \/ Step("op") /\ Op(Loop)!Next
    \/ Step("log") /\ Log!Next
    \/ Step("context") /\ Context(OneByOne)!Next
    \/ Step("contexts") /\ Context(AtOnce)!Next
    \/ Step("profileLocks") /\ Profile(Starts)!Next
    \/ Step("profileStops") /\ Profile(Purges)!Next
    \/ Step("profileGc") /\ Profile(Collects)!Next
    \/ Step("open") /\ Opens(Command)!Next
    \/ Step("video") /\ Video(Recordings)!Next
    \/ Step("removal") /\ Removal!Next
    \/ Step("videos") /\ Video(Shared)!Next

vars == <<part, connected, browser, up, doc, page, mem, recovered, cameBy,
          known, req, prev, fields, snap, err, retried, semantic, done,
          acted, kept, pc, exists, lines, gen, daemon, ring, stamp, queue,
          field, emitted, clears, failures, tried, logged, cleared, cmd,
          file, torn, living, made, job, live, view, leftover, restarts,
          reg, crashes, dir, st, where, session, acq, spawned, gc, doomed,
          gone, lock, stop, given, proc, profile, leased, changes, chrome,
          record, status, rt, captured, copy, mine, unasked, manifest, bin,
          skill, entry, read, found, todo, last, clean, faults, edits>>
Spec == Init /\ [][Next]_vars

ASSUME SessionAssumption ==
    /\ Op(Loop)!OpSessionAssumption /\ Log!ContinuousLogAssumption
    /\ Context(OneByOne)!NamedContextsAssumption /\ Context(AtOnce)!NamedContextsAssumption
    /\ Profile(Starts)!ProfileAssumption /\ Profile(Purges)!ProfileAssumption
    /\ Profile(Collects)!ProfileAssumption /\ Opens(Command)!OpenPageAssumption
    /\ Video(Recordings)!VideoAssumption /\ Video(Shared)!VideoAssumption
    /\ Removal!SetupAssumption /\ Removal!ManifestAssumption
------------------------------------------------------------------------------
(* A ref that the client of an op session knows stands for what it was shown,  *)
(* what is acted on is what it named, and no request runs to its end twice.    *)
OpsHold ==
    part = "op" =>
        /\ Op(Loop)!TypeOK /\ Op(Loop)!RefsNeverLie
        /\ Op(Loop)!ActsOnWhatWasNamed /\ Op(Loop)!CompletedOnce

(* A clear is for good, events come once and in order, the recent ones survive *)
(* rewrites and failures, and the daemon's ring has all a rewrite would keep.  *)
LogHolds ==
    part = "log" =>
        /\ Log!TypeOK /\ Log!ClearedStaysCleared /\ Log!LoggedInOrder
        /\ Log!RecentSurvive /\ Log!RingCoversLog

(* Two names never share a context, however many commands run. With one at a   *)
(* time every context is in the registry, but for those whose maker was killed *)
(* or could not save, and a closed one is gone, but for those whose disposal   *)
(* failed. One Chrome runs on a profile directory, and none loses its          *)
(* directory to a garbage collection with no start beside it.                  *)
SharedHold ==
    /\ part = "context" =>
          Context(OneByOne)!TypeOK /\ Context(OneByOne)!EveryContextRegistered /\ Context(OneByOne)!ClosedIsGone
    /\ part = "contexts"     => Context(AtOnce)!TypeOK /\ Context(AtOnce)!NamesAreIsolated
    /\ part = "profileLocks" => Profile(Starts)!TypeOK /\ Profile(Starts)!OneChrome
    /\ part = "profileStops" => Profile(Purges)!TypeOK
    /\ part = "profileGc"    => Profile(Collects)!TypeOK /\ Profile(Collects)!LiveKeepsItsDir

(* A serve takes no session, the user's tabs are left alone, work is leased,   *)
(* and a command that is over leaves no tab and no Chrome of its own. Every    *)
(* recorder at work can be stopped, unless its stop file could not be written, *)
(* and a recording said to be complete has every frame, and an uninstall that  *)
(* failed midway leaves nothing when it is repeated.                           *)
WorkHolds ==
    /\ part = "open" =>
          /\ Opens(Command)!TypeOK /\ Opens(Command)!ServeLaunchesItsOwn
          /\ Opens(Command)!UserTabsLeftAlone /\ Opens(Command)!WorkIsLeased /\ Opens(Command)!NothingLeft
    /\ part = "video"    => Video(Recordings)!TypeOK /\ Video(Recordings)!RecorderIsKnown
    /\ part = "videos"   => Video(Shared)!TypeOK /\ Video(Shared)!CompleteIsComplete
    /\ part = "removal"  => Removal!TypeOK /\ Removal!OneAtATime /\ Removal!NothingLeft

(* Steps: a command is given a context that lived when Chrome was asked, a     *)
(* start does not abort on the lock of a Chrome that was dead already and its  *)
(* PID nobody's, and a record is cleared only when its recorder has ended or   *)
(* could not be asked to.                                                      *)
SessionSteps ==
    [][/\ part = "contexts"     => Context(AtOnce)!NeverGivenDead
       /\ part = "profileStops" => Profile(Purges)!NeverAbortsOnDead
       /\ part = "video"        => Video(Recordings)!ClearedAfterTheEnd]_vars
==============================================================================
