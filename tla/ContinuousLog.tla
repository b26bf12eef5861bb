---------------------------- MODULE ContinuousLog ----------------------------
(***************************************************************************)
(* The console and network log of a session: the daemon's log file of      *)
(* internal/core/engine/persistent_observer.go, and the log in the state   *)
(* file that browser.go falls back on when there is no such file.          *)
(*                                                                         *)
(* The serve daemon of a session observes every page and appends each      *)
(* event to the log file, which it compacts from an in-memory ring.  A     *)
(* command may clear a kind of event by appending a marker, and reads what *)
(* is left.  Every access holds the flock of the file, so that each is one *)
(* step here; what a failed write leaves behind is chosen.                 *)
(*                                                                         *)
(* When the file does not exist a command observes its own page instead,   *)
(* and appends what it saw to "playwright_log" of the state file.          *)
(***************************************************************************)
EXTENDS Naturals, Sequences, SequencesExt, FiniteSets

CONSTANTS
    Commands,   \* CLI commands on the session
    Kinds,      \* kinds of event that occur
    Keep,       \* continuousLogKeep and maxPlaywrightLogEntries
    Rewrite,    \* continuousLogRewrite
    Buffer,     \* capacity of an observer's channel
    Serves,     \* whether a serve daemon runs this session (FALSE: attached)
    CanTear,    \* a write may stop in the middle of a line
    MaxEvents,  \* bound: events of the pages
    MaxClears,  \* bound: clears
    MaxFailures \* bound: failed file operations

ContinuousLogAssumption ==
    /\ Kinds \subseteq {"console", "error", "net", "page"}
    /\ Keep \in Nat \ {0} /\ Rewrite \in Nat /\ Keep < Rewrite
    /\ Buffer \in Nat \ {0}
    /\ Serves \in BOOLEAN /\ CanTear \in BOOLEAN
    /\ MaxEvents \in Nat /\ MaxClears \in Nat /\ MaxFailures \in Nat

VARIABLES
    exists,  \* whether the log file exists
    lines,   \* the lines of the log file
    gen,     \* its identity: os.SameFile
    daemon,  \* the daemon's observer: "off", "on" or "failed"
    ring,    \* PersistentSessionObserver.ring
    stamp,   \* PersistentSessionObserver's logInfo and size
    queue,   \* events in the channel of the daemon's observer
    field,   \* "playwright_log" of the state file
    cmd,     \* each command
    emitted, \* number of events so far: the id of the latest
    clears, failures,
    tried,   \* ghost: events appendEvent was called with
    logged,  \* ghost: those it appended without an error
    cleared, \* ghost: events of the log a clear has removed
    kept     \* ghost: events appended by a command and not cleared since

logVars  == <<exists, lines, gen>>
ringVars == <<ring, stamp>>
ghosts   == <<tried, logged, cleared, kept>>
vars     == <<logVars, daemon, ringVars, queue, field, cmd, emitted, clears,
              failures, ghosts>>

-----------------------------------------------------------------------------
EventLine(e)  == [type |-> "event", event |-> e]
ClearLine(k)  == [type |-> "clear", kind |-> k]
Torn          == [type |-> "torn"]    \* the start of a line, with no newline
Junk          == [type |-> "junk"]    \* a line that is not JSON

\* The last n elements of s, or all of them.
LastFew(n, s) == IF Len(s) <= n THEN s ELSE SubSeq(s, Len(s) - n + 1, Len(s))

\* The kinds a clear removes: errors go with the console.
Removed(k) == IF k = "console" THEN {"console", "error"} ELSE {k}

\* filterContinuousEvents
Without(events, k) == SelectSeq(events, LAMBDA e : e.kind \notin Removed(k))

\* appendContinuousLogDataUnlocked: a line after a torn one is read with it.
WithLine(file, line) ==
    Append(file, IF file # <<>> /\ Last(file) = Torn THEN Junk ELSE line)

\* One line of readContinuousEventsUnlocked.
ReadLine(events, line) ==
    CASE line.type = "event" ->
            LET longer == Append(events, line.event)
            IN  IF Len(longer) > Rewrite THEN LastFew(Keep, longer) ELSE longer
      [] line.type = "clear" -> Without(events, line.kind)
      [] OTHER -> events

\* readContinuousEventsUnlocked
Read(file) == LastFew(Keep, FoldLeft(ReadLine, <<>>, file))

\* appendBoundedConsole and trimNetworkLog: the last Keep of each log.
LogOf(e) == IF e.kind = "net" THEN "network" ELSE "console"
Trimmed(events) ==
    SelectSeq(events, LAMBDA e : Cardinality({i \in DOMAIN events :
        events[i].id > e.id /\ LogOf(events[i]) = LogOf(e)}) < Keep)

\* The identity and size of the file, by which the daemon knows it.
Stamp(g, file) == <<g, Len(file)>>
NoStamp == <<0, 0>>

-----------------------------------------------------------------------------
Idle == [pc |-> "off", own |-> FALSE, copy |-> <<>>, base |-> <<>>, seen |-> <<>>]

Init ==
    /\ exists = FALSE /\ lines = <<>> /\ gen = 1
    /\ daemon = "off" /\ ring = <<>> /\ stamp = NoStamp
    /\ queue = <<>> /\ field = <<>>
    /\ cmd = [c \in Commands |-> Idle]
    /\ emitted = 0 /\ clears = 0 /\ failures = 0
    /\ tried = {} /\ logged = {} /\ cleared = {} /\ kept = {}

(***************************************************************************)
(* The daemon                                                              *)
(***************************************************************************)

\* StartPersistentSessionObserver
StartObserver ==
    /\ Serves /\ daemon = "off"
    /\ daemon' = "on"
    /\ exists' = TRUE
    /\ stamp' = Stamp(gen, lines)
    /\ ring' = Read(lines)
    /\ UNCHANGED <<lines, gen, queue, field, cmd, emitted, clears, failures, ghosts>>

\* Its connection or the creation of the file fails: serve goes on without.
StartFails ==
    /\ Serves /\ daemon = "off" /\ failures < MaxFailures
    /\ daemon' = "failed"
    /\ failures' = failures + 1
    /\ UNCHANGED <<logVars, ringVars, queue, field, cmd, emitted, clears, ghosts>>

\* What a page does, as every observer attached to it sees it: a full channel
\* drops the event (Observer.emit).
PageEmits ==
    /\ emitted < MaxEvents
    /\ emitted' = emitted + 1
    /\ \E k \in Kinds :
        LET e == [id |-> emitted + 1, kind |-> k]
        IN  /\ queue' = IF daemon = "on" /\ Len(queue) < Buffer
                          THEN Append(queue, e) ELSE queue
            /\ cmd' = [c \in Commands |->
                        IF cmd[c].own
                          THEN [cmd[c] EXCEPT !.seen = LastFew(Keep, Append(@, e))]
                          ELSE cmd[c]]
    /\ UNCHANGED <<logVars, daemon, ringVars, field, clears, failures, ghosts>>

\* Whether the file is as the daemon left it.
Stamped == stamp = Stamp(gen, lines)

\* The ring with the next event.
Longer == Append(IF Stamped THEN ring ELSE Read(lines), Head(queue))

\* It has grown so long that the file is rewritten.
Full == Len(Longer) >= Rewrite

\* Mutant: one event less is kept.
RingShort == IF Full THEN LastFew(Keep - 1, Longer) ELSE Longer

NewRing == IF Full THEN LastFew(Keep, Longer) ELSE Longer

NewLines ==
    IF Full THEN [i \in DOMAIN NewRing |-> EventLine(NewRing[i])]
            ELSE WithLine(lines, EventLine(Head(queue)))

\* The write of appendEvent: a longer file, or a new one.
WriteLog ==
    /\ ring' = NewRing /\ lines' = NewLines
    /\ gen' = IF Full THEN gen + 1 ELSE gen
    /\ exists' = TRUE

\* appendEvent
AppendEvent ==
    /\ queue # <<>>
    /\ queue' = Tail(queue)
    /\ WriteLog
    /\ stamp' = Stamp(gen', lines')
    /\ tried' = tried \union {Head(queue)}
    /\ logged' = logged \union {Head(queue)}
    /\ UNCHANGED <<daemon, field, cmd, emitted, clears, failures, cleared, kept>>

\* It fails, and nobody looks at the error: in the lock or the first Stat, in
\* the reload, in the write, which leaves the event in the ring only or a part
\* of its line in the file, or in the last Stat.
AppendEventFails ==
    /\ queue # <<>> /\ failures < MaxFailures
    /\ failures' = failures + 1
    /\ queue' = Tail(queue)
    /\ tried' = tried \union {Head(queue)}
    /\ \/ UNCHANGED <<logVars, ringVars>>
       \/ /\ ~Stamped
          /\ ring' = <<>>
          /\ UNCHANGED <<logVars, stamp>>
       \/ /\ \/ ring' = NewRing /\ UNCHANGED logVars
             \/ /\ CanTear /\ ~Full
                /\ ring' = NewRing /\ lines' = WithLine(lines, Torn)
                /\ UNCHANGED <<exists, gen>>
             \/ WriteLog
          /\ stamp' = IF Stamped THEN stamp ELSE <<stamp[1], Len(lines)>>
    /\ UNCHANGED <<daemon, field, cmd, emitted, clears, logged, cleared, kept>>

(***************************************************************************)
(* Commands                                                                *)
(***************************************************************************)

\* The command loads the state file; without a log file it observes its page
\* itself (StartBackgroundObserver).
Begin(c) ==
    /\ cmd[c].pc = "off"
    /\ cmd' = [cmd EXCEPT ![c] = [pc |-> "run", own |-> ~exists,
                                  copy |-> field, base |-> field, seen |-> <<>>]]
    /\ UNCHANGED <<logVars, daemon, ringVars, queue, field, emitted, clears,
                   failures, ghosts>>

\* saveSessionState on this one field.
Saved(c, copy) == IF copy # cmd[c].base THEN copy ELSE field

\* drainBackgroundObserver when the command ends: AppendConsoleLog and
\* AppendNetworkLog drop the events when there is a log file by now.
End(c) ==
    LET seen == SelectSeq(cmd[c].seen, LAMBDA e : e.kind # "page")
        copy == Trimmed(cmd[c].copy \o seen)
    IN  /\ cmd[c].pc = "run"
        /\ field' = IF exists THEN field ELSE Saved(c, copy)
        /\ cmd' = [cmd EXCEPT ![c] = Idle]
        /\ kept' = kept \union Range(seen)
        /\ UNCHANGED <<logVars, daemon, ringVars, queue, emitted, clears,
                       failures, tried, logged, cleared>>

\* The command is killed.
Killed(c) ==
    /\ cmd[c].pc = "run"
    /\ cmd' = [cmd EXCEPT ![c] = Idle]
    /\ UNCHANGED <<logVars, daemon, ringVars, queue, field, emitted, clears,
                   failures, ghosts>>

\* ClearConsoleLog and ClearNetworkLog: a marker in the log file, which is
\* made if there is none, and the copy in the state file.
Clear(c, k) ==
    LET copy == Without(cmd[c].copy, k)
    IN  /\ cmd[c].pc = "run" /\ clears < MaxClears
        /\ clears' = clears + 1
        /\ exists' = TRUE
        /\ lines' = WithLine(lines, ClearLine(k))
        /\ field' = Saved(c, copy)
        /\ cmd' = [cmd EXCEPT ![c].copy = Saved(c, copy), ![c].base = Saved(c, copy)]
        /\ cleared' = cleared \union {e \in tried : e.kind \in Removed(k)}
        /\ kept' = {e \in kept : e.kind \notin Removed(k)}
        /\ UNCHANGED <<gen, daemon, ringVars, queue, emitted, failures, tried, logged>>

\* The marker cannot be written: the command ends with the error.
ClearFails(c) ==
    /\ cmd[c].pc = "run" /\ failures < MaxFailures
    /\ failures' = failures + 1
    /\ \/ UNCHANGED lines
       \/ CanTear /\ lines' = WithLine(lines, Torn)
    /\ exists' \in {exists, TRUE}
    /\ lines' # lines => exists'
    /\ cmd' = [cmd EXCEPT ![c] = Idle]
    /\ UNCHANGED <<gen, daemon, ringVars, queue, field, emitted, clears, ghosts>>

-----------------------------------------------------------------------------
Daemon == StartObserver \/ StartFails \/ AppendEvent \/ AppendEventFails

Command(c) ==
    \/ Begin(c) \/ End(c) \/ Killed(c) \/ ClearFails(c)
    \/ \E k \in {"console", "net"} : Clear(c, k)

Next == Daemon \/ PageEmits \/ \E c \in Commands : Command(c)

Spec == Init /\ [][Next]_vars

-----------------------------------------------------------------------------
(***************************************************************************)
(* Properties                                                              *)
(***************************************************************************)
Event == [id : 1..MaxEvents, kind : Kinds]

IsEvents(s) == Range(s) \subseteq Event

\* Every variable has its type; the ring and the channel are bounded.
TypeOK ==
    /\ exists \in BOOLEAN /\ (lines # <<>> => exists)
    /\ daemon \in {"off", "on", "failed"}
    /\ IsEvents(ring) /\ IsEvents(queue) /\ IsEvents(field)
    /\ Len(ring) < Rewrite /\ Len(queue) <= Buffer
    /\ \A c \in Commands : IsEvents(cmd[c].copy) /\ IsEvents(cmd[c].seen)
    /\ logged \subseteq tried /\ tried \union kept \union cleared \subseteq Event

\* What a clear has removed never comes back, from a stale ring or a rewrite
\* ("compaction cannot resurrect cleared events").
ClearedStaysCleared == Range(Read(lines)) \intersect cleared = {}

\* A reader gets every event at most once and in the order of the pages.
LoggedInOrder ==
    \A i, j \in DOMAIN Read(lines) : i < j => Read(lines)[i].id < Read(lines)[j].id

\* An event appended without an error is there for a reader until it is
\* cleared or Keep newer ones have come, through rewrites and failures.
RecentSurvive ==
    \A e \in logged \ cleared :
        \/ e \in Range(Read(lines))
        \/ Cardinality({t \in tried : t.id > e.id}) >= Keep

\* When the daemon takes its ring for current it holds all a reader would get,
\* or Keep newer events, so that a rewrite from it loses nothing.
RingCoversLog ==
    Stamped => \A e \in Range(Read(lines)) :
        \/ e \in Range(ring)
        \/ Cardinality({r \in Range(ring) : r.id > e.id}) >= Keep

\* Properties the code does not have.

\* What a command appends to the log of the session stays there until it is
\* cleared or displaced ("appends console events to the persistent session
\* log").
Visible == IF exists THEN Read(lines) ELSE field
BufferedUntilCleared ==
    \A e \in kept :
        \/ e \in Range(Visible)
        \/ Cardinality({f \in kept : f.id > e.id}) >= Keep

\* The log file holds at most what makes a rewrite due.
LogFileBounded == Len(lines) < Rewrite
=============================================================================
