------------------------------ MODULE MCContent ------------------------------
(* What commands read, rewrite and tell, checked in one run of TLC: the        *)
(* records of the network, routes and interception, the event observer, what   *)
(* an extraction and a snapshot tell, batch scripts, settings and the          *)
(* instruction files, each over small instances of its own. A behaviour is of  *)
(* one instance, which part names; the components share the variables of the   *)
(* same name, and what an instance does not use is Idle and never changes.     *)
EXTENDS Naturals, Sequences, FiniteSets, TLC

CONSTANTS Parts,           \* the instances that are checked
          d, a, b,         \* requests: a document and two others
          buy, remove,     \* names of elements
          c1, c2, c3,      \* route commands
          NoFile           \* an instruction file that is not there

Symmetry == Permutations({buy, remove}) \union Permutations({c1, c2, c3})

VARIABLES part,   \* the component that this behaviour is of
          told, life, hops, triggered, cap, matched, aud, audited, prev,
          tracked, pending, file, log, listed, stands, asked, worker,
          signalled, route, remover, owed, spec, router, request, decision,
          stats, started, ctx, listening, looping, hand, left, stage, mu,
          ring, total, dropped, buffered, closing, closed, stopped, stopper,
          page, result, printed, dom, view, doing, given, saved, script,
          next, stop, last, steps, final, newest, at, setting, lists,
          loaded, backups, pc, text, lost, edits, runs

\* Three requests, and the rules, patterns and headers they meet: a star is a
\* piece of its own.
Api(n)     == <<"host", "/", "api", "/", n>>
Q(u, m)    == [url |-> u, method |-> m, headers |-> {"auth", "lang"}]
R(p, t, m) == [match |-> p, type |-> t, method |-> m]
ThreeRequests ==
    {Q(Api("users"), "GET"), Q(Api("users"), "POST"),
     Q(<<"host", "/", "ads">>, "GET")}
RuleFiles ==
    [rules   : {<<>>, <<R(<<"host", "/", "api", "/", "*">>, "glob", "POST"),
                        R(<<"api">>, "regex", ""),
                        R(<<"host", "/", "ads">>, "exact", "")>>},
     blocks  : {<<>>, <<<<"*", "ads">>>>, <<<<"*", "api", "*">>, <<"*", "ads">>>>},
     fulfill : {<<>>, <<"*", "users">>},
     remove  : {{}, {"auth"}}]

\* Every setting alone, and pairs that meet in one list, report or step.
Keys  == INSTANCE Settings WITH Together <- {}, FileStates <- {}
Mixed == {"proxy", "saveVideo", "permissions", "serviceWorkers", "consoleLevel", "initScript"}
AloneAndMixed == {{k} : k \in Keys!AllKeys} \union {{j, k} : j, k \in Mixed}

\* Instruction files: lines, blocks old and new, stray and crossed markers.
FewTexts ==
    UNION {[1..n -> {"line", "old", "begin", "end"}] : n \in 0..3}
    \union {<<"begin", "new", "end">>, <<"line", "begin", "new", "end">>,
            <<"begin", "new", "end", "begin", "new", "end">>}

Captures == INSTANCE NetworkRecords WITH
    Requests <- {d, a}, Documents <- {d}, Matching <- {a, d},
    Loader <- (d :> "asked" @@ a :> "asked"), MaxHops <- 1, CaptureMax <- 1,
    Bodies <- TRUE, Challenge <- FALSE, Users <- {"capture"}
Audits == INSTANCE NetworkRecords WITH
    Requests <- {d, a}, Documents <- {d}, Matching <- {a, d},
    Loader <- (d :> "asked" @@ a :> "left"), MaxHops <- 2, CaptureMax <- 0,
    Bodies <- FALSE, Challenge <- FALSE, Users <- {"audit"}
Previews == INSTANCE NetworkRecords WITH
    Requests <- {d, a, b}, Documents <- {d, a, b}, Matching <- {},
    Loader <- (d :> "asked" @@ a :> "next" @@ b :> "frame"), MaxHops <- 0,
    CaptureMax <- 0, Bodies <- FALSE, Challenge <- TRUE, Users <- {"preview"}
Numbers == INSTANCE RequestNumbers WITH
    Entries <- {"page", "api", "img", "css"}, Static <- {"img", "css"},
    Matching <- {"api", "img"}, Options <- {{}}, Limit <- 3
OneRoute == INSTANCE Routes WITH
    Commands <- {c1, c2, c3}, Removers <- {"u1", "u2"},
    Patterns <- {"ads", "api"}, Concurrent <- FALSE, MayFail <- FALSE,
    MayDie <- FALSE
Rules == INSTANCE Intercepts WITH
    Requests <- ThreeRequests, Specs <- RuleFiles
Observes == INSTANCE Observer WITH
    Requests <- {"r1"}, Wanted <- {"r1"}, History <- 1, BufferSize <- 1,
    Messages <- 1, StartMayFail <- FALSE, Kinds <- {}, Evade <- TRUE,
    MaxEvents <- 2
Extracts == INSTANCE Extraction WITH
    MaxNodes <- 3, MaxFrames <- 0,
    Kinds <- {"button", "bare", "text", "treeitem", "generic"},
    Levels <- {"skeleton", "content"}, MaxIframeDepth <- 3
Frames == INSTANCE Extraction WITH
    MaxNodes <- 1, MaxFrames <- 4, Kinds <- {"button"},
    Levels <- {"content"}, MaxIframeDepth <- 3
Tells == INSTANCE Snapshots WITH
    Names <- {buy, remove}, MaxElements <- 2, MaxIds <- 4,
    Commands <- {"extract", "none", "diff", "full"}, Agent <- TRUE,
    SaveFails <- FALSE
TellsAll == INSTANCE Snapshots WITH
    Names <- {buy, remove}, MaxElements <- 2, MaxIds <- 4,
    Commands <- {"extract", "whole", "scope", "ref", "navigate", "url",
            "none", "diff",  "full"}, Agent <- TRUE, SaveFails <- TRUE
Scripts == INSTANCE Batch WITH
    Lines <- {"#", "extract", "preview", "navigate", "navigate ?q=1",
            "click",  "wait-ms", "bad"}, MaxLines <- 4, MaxPage <- 2,
    Connected <- TRUE, Agent <- TRUE
Sets == INSTANCE Settings WITH
    Together <- AloneAndMixed,
    FileStates <- {"ok", "unreadable", "malformed"}
Writes == INSTANCE Instructions WITH
    Texts <- FewTexts, MaxEdits <- 1, MaxRuns <- 2, Apart <- TRUE

(* What the components that are not of this behaviour hold.                   *)
Idle == "idle"
OthersIdle ==
    /\ part \notin {"capture", "audit", "preview", "intercept", "settings"} =>
        /\ told = Idle
    /\ part \notin {"capture", "audit", "preview"} =>
        /\ life = Idle /\ hops = Idle /\ triggered = Idle /\ cap = Idle
        /\ matched = Idle /\ aud = Idle /\ audited = Idle /\ prev = Idle
        /\ tracked = Idle
    /\ part \notin {"capture", "audit", "preview", "observer"} =>
        /\ pending = Idle
    /\ part \notin {"capture", "audit", "preview", "routes", "instructions"} =>
        /\ file = Idle
    /\ part # "numbers" =>
        /\ log = Idle /\ listed = Idle /\ stands = Idle
    /\ part \notin {"numbers", "extract", "frames"} =>
        /\ asked = Idle
    /\ part # "routes" =>
        /\ worker = Idle /\ signalled = Idle /\ route = Idle
        /\ remover = Idle /\ owed = Idle
    /\ part # "intercept" =>
        /\ spec = Idle /\ router = Idle /\ request = Idle /\ decision = Idle
        /\ stats = Idle
    /\ part # "observer" =>
        /\ started = Idle /\ ctx = Idle /\ listening = Idle
        /\ looping = Idle /\ hand = Idle /\ left = Idle /\ stage = Idle
        /\ mu = Idle /\ ring = Idle /\ total = Idle /\ dropped = Idle
        /\ buffered = Idle /\ closing = Idle /\ closed = Idle
        /\ stopped = Idle /\ stopper = Idle
    /\ part \notin {"extract", "frames", "batch"} =>
        /\ page = Idle
    /\ part \notin {"extract", "frames"} =>
        /\ result = Idle /\ printed = Idle
    /\ part \notin {"snapshot", "snapshots"} =>
        /\ dom = Idle /\ view = Idle /\ doing = Idle
    /\ part \notin {"snapshot", "snapshots", "settings"} =>
        /\ given = Idle
    /\ part \notin {"snapshot", "snapshots", "batch"} =>
        /\ saved = Idle
    /\ part # "batch" =>
        /\ script = Idle /\ next = Idle /\ stop = Idle /\ last = Idle
        /\ steps = Idle /\ final = Idle /\ newest = Idle
    /\ part # "settings" =>
        /\ at = Idle /\ setting = Idle /\ lists = Idle /\ loaded = Idle
    /\ part # "instructions" =>
        /\ backups = Idle /\ pc = Idle /\ text = Idle /\ lost = Idle
        /\ edits = Idle /\ runs = Idle
OthersStay ==
    /\ part \notin {"capture", "audit", "preview", "intercept", "settings"} => UNCHANGED
         <<told>>
    /\ part \notin {"capture", "audit", "preview"} => UNCHANGED
         <<life, hops, triggered, cap, matched, aud, audited, prev,
           tracked>>
    /\ part \notin {"capture", "audit", "preview", "observer"} => UNCHANGED
         <<pending>>
    /\ part \notin {"capture", "audit", "preview", "routes", "instructions"} => UNCHANGED
         <<file>>
    /\ part # "numbers" => UNCHANGED <<log, listed, stands>>
    /\ part \notin {"numbers", "extract", "frames"} => UNCHANGED <<asked>>
    /\ part # "routes" => UNCHANGED
         <<worker, signalled, route, remover, owed>>
    /\ part # "intercept" => UNCHANGED
         <<spec, router, request, decision, stats>>
    /\ part # "observer" => UNCHANGED
         <<started, ctx, listening, looping, hand, left, stage, mu, ring,
           total, dropped, buffered, closing, closed, stopped, stopper>>
    /\ part \notin {"extract", "frames", "batch"} => UNCHANGED <<page>>
    /\ part \notin {"extract", "frames"} => UNCHANGED <<result, printed>>
    /\ part \notin {"snapshot", "snapshots"} => UNCHANGED
         <<dom, view, doing>>
    /\ part \notin {"snapshot", "snapshots", "settings"} => UNCHANGED
         <<given>>
    /\ part \notin {"snapshot", "snapshots", "batch"} => UNCHANGED <<saved>>
    /\ part # "batch" => UNCHANGED
         <<script, next, stop, last, steps, final, newest>>
    /\ part # "settings" => UNCHANGED <<at, setting, lists, loaded>>
    /\ part # "instructions" => UNCHANGED
         <<backups, pc, text, lost, edits, runs>>

Init ==
    /\ part \in Parts /\ OthersIdle
    /\ \/ part = "capture" /\ Captures!Init
       \/ part = "audit" /\ Audits!Init
       \/ part = "preview" /\ Previews!Init
       \/ part = "numbers" /\ Numbers!Init
       \/ part = "routes" /\ OneRoute!Init
       \/ part = "intercept" /\ Rules!Init
       \/ part = "observer" /\ Observes!Init
       \/ part = "extract" /\ Extracts!Init
       \/ part = "frames" /\ Frames!Init
       \/ part = "snapshot" /\ Tells!Init
       \/ part = "snapshots" /\ TellsAll!Init
       \/ part = "batch" /\ Scripts!Init
       \/ part = "settings" /\ Sets!Init
       \/ part = "instructions" /\ Writes!Init

Step(p) == part = p /\ UNCHANGED part /\ OthersStay

Next ==
    \/ Step("capture") /\ Captures!Next
    \/ Step("audit") /\ Audits!Next
    \/ Step("preview") /\ Previews!Next
    \/ Step("numbers") /\ Numbers!Next
    \/ Step("routes") /\ OneRoute!Next
    \/ Step("intercept") /\ Rules!Next
    \/ Step("observer") /\ Observes!Next
    \/ Step("extract") /\ Extracts!Next
    \/ Step("frames") /\ Frames!Next
    \/ Step("snapshot") /\ Tells!Next
    \/ Step("snapshots") /\ TellsAll!Next
    \/ Step("batch") /\ Scripts!Next
    \/ Step("settings") /\ Sets!Next
    \/ Step("instructions") /\ Writes!Next

vars == <<part, told, life, hops, triggered, cap, matched, aud, audited,
          prev, tracked, pending, file, log, listed, stands, asked, worker,
          signalled, route, remover, owed, spec, router, request, decision,
          stats, started, ctx, listening, looping, hand, left, stage, mu,
          ring, total, dropped, buffered, closing, closed, stopped, stopper,
          page, result, printed, dom, view, doing, given, saved, script,
          next, stop, last, steps, final, newest, at, setting, lists,
          loaded, backups, pc, text, lost, edits, runs>>
Spec == Init /\ [][Next]_vars

ASSUME ContentAssumption ==
    /\ Captures!NetworkAssumption /\ Audits!NetworkAssumption
    /\ Previews!NetworkAssumption /\ Numbers!NumbersAssumption
    /\ OneRoute!RoutesAssumption
    /\ Observes!ObserverAssumption
    /\ Extracts!ExtractionAssumption /\ Frames!ExtractionAssumption
    /\ Tells!SnapshotsAssumption /\ TellsAll!SnapshotsAssumption
    /\ Scripts!BatchAssumption /\ Sets!SettingsAssumption
    /\ Writes!InstructionsAssumption
------------------------------------------------------------------------------

(* A ref that is printed reaches its element, through scopes, depths, levels   *)
(* and frames; what the caller was told is what the session keeps, and a batch *)
(* script acts on its newest extraction.                                       *)
RefsHold ==
    /\ part = "extract"  =>
          /\ Extracts!TypeOK /\ Extracts!ScopeIsSubtree
          /\ Extracts!SelectorNeverEmpties
          /\ Extracts!PrintedRefsHold /\ Extracts!LevelsAgree
    /\ part = "frames"    => Frames!TypeOK /\ Frames!FrameRefsReach
    /\ part = "snapshot"  => Tells!TypeOK /\ Tells!CallerInStep
    /\ part = "snapshots" => TellsAll!TypeOK
    /\ part = "batch" =>
          Scripts!TypeOK /\ Scripts!RefsAreNewest /\ Scripts!FinalOfNewestPayload

(* The strongest source of a setting wins, what is refused is told, lists are  *)
(* joined and a file that was named is used; an instruction file is backed up  *)
(* before it is written.                                                       *)
SettingsHold ==
    /\ part = "settings" =>
          /\ Sets!TypeOK /\ Sets!StrongestWins /\ Sets!RefusedIsTold
          /\ Sets!ListsJoined /\ Sets!NamedFileUsed
    /\ part = "instructions" => Writes!TypeOK /\ Writes!BackedUp

(* Steps: no event is sent on a closed channel and none kept after a stop, a   *)
(* number a list printed is that request, an extraction of the whole page puts *)
(* the caller in step, and a write keeps the user's lines.                     *)
ContentSteps ==
    [][/\ part = "observer"      => Observes!NoSendOnClosed /\ Observes!QuietAfterStop
       /\ part = "numbers"       => Numbers!NumberIsListed
       /\ part = "snapshots"     => TellsAll!WholePageHeals
       /\ part = "instructions"  => Writes!UserLinesStay]_vars
==============================================================================
