----------------------------- MODULE ProfileDirs ----------------------------
(***************************************************************************)
(* Chrome's profile directories: internal/core/engine/profiles.go (list,   *)
(* gc, removal), profile_lock.go and profile_sweep.go, with those who use  *)
(* them: the session start (under the registry's lock), a Chrome embedded  *)
(* in a command with --user-profile or with a temporary directory, and     *)
(* sessions stop --purge.  Several of them run at once.                    *)
(***************************************************************************)
EXTENDS Naturals, FiniteSets

CONSTANTS
    Profiles,   \* names under ~/.ghostchrome/profiles
    Default,    \* the one of the implicit session
    Temps,      \* Rod's temporary directories
    Pids,       \* processes that have run or will run Chrome
    Actors,     \* who is about
    GcAlone     \* no session is started while gc runs

ProfileAssumption ==
    /\ Default \in Profiles
    /\ Profiles \intersect Temps = {}
    /\ 0 \notin Pids
    /\ Actors \subseteq {"acquire", "embedded", "temp", "purge", "gc", "sweep"}
    /\ GcAlone \in BOOLEAN

VARIABLES
    dir,       \* not there; no file changed within --older-than; used since
    lock,      \* the pid in SingletonLock
    st, where, \* of each Chrome: its life and its directory
    session,   \* the Chrome of each registered session
    acq,       \* the start of a session: where it is and the name
    spawned,   \* the Chrome it has started
    stop,      \* sessions stop --purge
    gc,        \* gc: where it is, what it keeps, what is left to judge and to remove
    doomed,    \* directories a sweep has judged dead
    gone       \* the Chromes that were dead, and their PIDs nobody's, when a start
               \* looked at its lock

vars == <<dir, lock, st, where, session, acq, spawned, stop, gc, doomed, gone>>
chrome == <<dir, lock, st, where>>

Dirs == Profiles \union Temps
Nobody == 0
Idle == [pc |-> "idle", name |-> Default]
GcIdle == [pc |-> "idle", keep |-> {}, todo |-> {}, out |-> {}]
Alive(c) == c # Nobody /\ st[c] \in {"starting", "up", "closing"}

\* processCmdline, pidAlive: some process has the PID that was Chrome c's; those
\* of the dead Chromes in taken are other processes' by now.
Dead == {c \in Pids : st[c] = "dead"}
HasProcess(c, taken) == Alive(c) \/ c \in taken

Init ==
    /\ dir \in [Dirs -> {"none", "old"}]
    /\ \A d \in Temps : dir[d] = "none"
    /\ lock = [d \in Dirs |-> Nobody]
    /\ st = [c \in Pids |-> "none"]
    /\ where = [c \in Pids |-> Default]
    /\ session = [p \in Profiles |-> Nobody]
    /\ acq = Idle /\ spawned = Nobody
    /\ stop = Idle
    /\ gc = GcIdle
    /\ doomed = {} /\ gone = {}

----------------------------------------------------------------------------
\* Chrome.
Launch(c, d) ==
    /\ st[c] = "none"
    /\ st' = [st EXCEPT ![c] = "starting"]
    /\ where' = [where EXCEPT ![c] = d]
    /\ dir' = [dir EXCEPT ![d] = "new"]

\* It makes its lock, or aborts on one that is there.
Singleton(c) ==
    /\ st[c] = "starting"
    /\ IF lock[where[c]] = Nobody
       THEN /\ lock' = [lock EXCEPT ![where[c]] = c]
            /\ st' = [st EXCEPT ![c] = "up"]
       ELSE st' = [st EXCEPT ![c] = "dead"] /\ UNCHANGED lock
    /\ UNCHANGED <<dir, where, session, acq, spawned, stop, gc, doomed, gone>>

Unlocked(c) ==
    IF lock[where[c]] = c THEN [lock EXCEPT ![where[c]] = Nobody] ELSE lock

\* It ends by itself, or killed with its lock left behind.
Quit(c) ==
    /\ st[c] \in {"up", "closing"}
    /\ st' = [st EXCEPT ![c] = "dead"]
    /\ lock' = Unlocked(c)
    /\ dir' = IF where[c] \in Temps THEN [dir EXCEPT ![where[c]] = "none"] ELSE dir
    /\ UNCHANGED <<where, session, acq, spawned, stop, gc, doomed, gone>>

Die(c) ==
    /\ Alive(c)
    /\ st' = [st EXCEPT ![c] = "dead"]
    /\ UNCHANGED <<dir, lock, where, session, acq, spawned, stop, gc, doomed, gone>>

Use(c) ==
    /\ st[c] = "up"
    /\ dir[where[c]] = "old"
    /\ dir' = [dir EXCEPT ![where[c]] = "new"]
    /\ UNCHANGED <<lock, st, where, session, acq, spawned, stop, gc, doomed, gone>>

Age(d) ==
    /\ dir[d] = "new"
    /\ dir' = [dir EXCEPT ![d] = "old"]
    /\ UNCHANGED <<lock, st, where, session, acq, spawned, stop, gc, doomed, gone>>

\* A command's own Chrome, which asks nobody.
Embedded(c) ==
    /\ \E d \in Dirs :
        /\ IF d \in Temps THEN "temp" \in Actors /\ dir[d] = "none"
           ELSE "embedded" \in Actors
        /\ Launch(c, d)
    /\ UNCHANGED <<lock, session, acq, spawned, stop, gc, doomed, gone>>

----------------------------------------------------------------------------
\* AcquireSession, under the registry's lock (SessionRegistry has the rest).
Acquire(p) ==
    /\ "acquire" \in Actors
    /\ acq.pc = "idle" /\ stop.pc # "wait"
    /\ GcAlone => gc.pc = "idle"
    /\ ~Alive(session[p])
    /\ session' = [session EXCEPT ![p] = Nobody]
    /\ acq' = [pc |-> "clear", name |-> p]
    /\ UNCHANGED <<chrome, spawned, stop, gc, doomed, gone>>

\* clearStaleProfileLock: the lock of a PID that is gone; of one that some
\* process has, three seconds are waited, and the lock stays.
ClearLock ==
    /\ acq.pc = "clear"
    /\ \E taken \in SUBSET Dead :
        /\ LET owner == lock[acq.name]
           IN  lock' = IF owner # Nobody /\ ~HasProcess(owner, taken)
                       THEN [lock EXCEPT ![acq.name] = Nobody] ELSE lock
        /\ gone' = Dead \ taken
    /\ acq' = [acq EXCEPT !.pc = "spawn"]
    /\ UNCHANGED <<dir, st, where, session, spawned, stop, gc, doomed>>

Spawn(c) ==
    /\ acq.pc = "spawn"
    /\ Launch(c, acq.name)
    /\ spawned' = c
    /\ acq' = [acq EXCEPT !.pc = "ready"]
    /\ UNCHANGED <<lock, session, stop, gc, doomed, gone>>

\* waitForCDP.
Ready ==
    /\ acq.pc = "ready"
    /\ st[spawned] \in {"up", "closing", "dead"}
    /\ session' = [session EXCEPT ![acq.name] =
           IF st[spawned] = "up" THEN spawned ELSE Nobody]
    /\ acq' = Idle /\ spawned' = Nobody /\ gone' = {}
    /\ UNCHANGED <<chrome, stop, gc, doomed>>

----------------------------------------------------------------------------
\* sessions stop --purge: the signal and up to five seconds under the
\* registry's lock, the removal after it.
Stop(p) ==
    /\ "purge" \in Actors
    /\ stop.pc = "idle" /\ acq.pc = "idle"
    /\ session[p] # Nobody
    /\ st' = [st EXCEPT ![session[p]] = IF @ = "up" THEN "closing" ELSE @]
    /\ stop' = [pc |-> "wait", name |-> p]
    /\ UNCHANGED <<dir, lock, where, session, acq, spawned, gc, doomed, gone>>

StopWait ==
    /\ stop.pc = "wait"
    /\ session' = [session EXCEPT ![stop.name] = Nobody]
    /\ stop' = [stop EXCEPT !.pc = "remove"]
    /\ UNCHANGED <<chrome, acq, spawned, gc, doomed, gone>>

\* RemoveProfile: os.RemoveAll, the lock with it.
RemoveProfile(p) ==
    /\ dir' = [dir EXCEPT ![p] = "none"]
    /\ lock' = [lock EXCEPT ![p] = Nobody]

Purge ==
    /\ stop.pc = "remove"
    /\ RemoveProfile(stop.name)
    /\ stop' = Idle
    /\ UNCHANGED <<st, where, session, acq, spawned, gc, doomed, gone>>

----------------------------------------------------------------------------
\* GCProfiles with --yes: the profiles, the sessions that answer, each one's
\* last change, and the removals.
GcList ==
    /\ "gc" \in Actors
    /\ gc.pc = "idle"
    /\ GcAlone => acq.pc = "idle"
    /\ gc' = [GcIdle EXCEPT !.pc = "keep", !.todo = {p \in Profiles : dir[p] # "none"}]
    /\ UNCHANGED <<chrome, session, acq, spawned, stop, doomed, gone>>

GcKeep ==
    /\ gc.pc = "keep"
    /\ gc' = [gc EXCEPT !.pc = "judge",
           !.keep = {Default} \union
               {p \in Profiles : session[p] # Nobody /\ st[session[p]] = "up"}]
    /\ UNCHANGED <<chrome, session, acq, spawned, stop, doomed, gone>>

GcJudge(p) ==
    /\ gc.pc = "judge"
    /\ p \in gc.todo
    /\ gc' = [gc EXCEPT
           !.todo = @ \ {p},
           !.pc = IF gc.todo = {p} THEN "remove" ELSE "judge",
           !.out = IF p \notin gc.keep /\ dir[p] # "new" THEN @ \union {p} ELSE @]
    /\ UNCHANGED <<chrome, session, acq, spawned, stop, doomed, gone>>

GcRemove(p) ==
    /\ gc.pc = "remove"
    /\ p \in gc.out
    /\ gc' = [gc EXCEPT !.out = @ \ {p}]
    /\ RemoveProfile(p)
    /\ UNCHANGED <<st, where, session, acq, spawned, stop, doomed, gone>>

GcEnd ==
    /\ gc.pc \in {"judge", "remove"}
    /\ gc.todo \union gc.out = {}
    /\ gc' = GcIdle
    /\ UNCHANGED <<chrome, session, acq, spawned, stop, doomed, gone>>

----------------------------------------------------------------------------

\* SweepDeadRodProfiles: only a lock that names a PID that is gone.
SweepJudge(d) ==
    /\ "sweep" \in Actors
    /\ dir[d] # "none" /\ d \notin doomed
    /\ lock[d] # Nobody
    /\ \E taken \in SUBSET Dead : ~HasProcess(lock[d], taken)
    /\ doomed' = doomed \union {d}
    /\ UNCHANGED <<chrome, session, acq, spawned, stop, gc, gone>>

SweepRemove(d) ==
    /\ d \in doomed
    /\ doomed' = doomed \ {d}
    /\ RemoveProfile(d)
    /\ UNCHANGED <<st, where, session, acq, spawned, stop, gc, gone>>

----------------------------------------------------------------------------
Chrome(c) == Singleton(c) \/ Quit(c) \/ Die(c) \/ Use(c) \/ Embedded(c)
Start == (\E p \in Profiles : Acquire(p)) \/ ClearLock \/ (\E c \in Pids : Spawn(c)) \/ Ready
StopPurge == (\E p \in Profiles : Stop(p)) \/ StopWait \/ Purge
Gc == GcList \/ GcKeep \/ (\E p \in Profiles : GcJudge(p) \/ GcRemove(p)) \/ GcEnd
Sweep == \E d \in Temps : SweepJudge(d) \/ SweepRemove(d)

Next ==
    \/ \E c \in Pids : Chrome(c)
    \/ \E d \in Profiles : Age(d)
    \/ Start \/ StopPurge \/ Gc \/ Sweep

Spec == Init /\ [][Next]_vars

----------------------------------------------------------------------------
TypeOK ==
    /\ dir \in [Dirs -> {"none", "new", "old"}]
    /\ lock \in [Dirs -> Pids \union {Nobody}]
    /\ st \in [Pids -> {"none", "starting", "up", "closing", "dead"}]
    /\ \A p \in Profiles : session[p] # Nobody => where[session[p]] = p
    /\ spawned # Nobody <=> acq.pc = "ready"
    /\ gc.out \subseteq Profiles \ gc.keep

\* Chrome's own rule, which clearing a lock must not break (profile_lock.go:
\* "a live owner keeps its lock"): one Chrome on a directory.
OneChrome ==
    \A c, d \in Pids : c # d /\ {st[c], st[d]} \subseteq {"up", "closing"}
        => where[c] # where[d]

\* A running Chrome has its directory: neither gc nor a sweep takes it away,
\* whatever dies, ages or starts meanwhile (profiles gc: "it is not backing a
\* currently-live session"; profile_sweep.go: "a PID that is gone").
LiveKeepsItsDir ==
    \A c \in Pids : st[c] \in {"starting", "up"}
        /\ (where[c] \in Temps \/ \E p \in Profiles : session[p] = c)
        => dir[where[c]] # "none"

\* A killed Chrome does not "break every later command on that session"
\* (profile_lock.go): the Chrome of a session never aborts on the lock of one
\* that was dead already, its PID nobody's, when the start looked at it.
NeverAbortsOnDead ==
    \A c \in Pids :
       Singleton(c) /\ st'[c] = "dead" /\ spawned = c
       => lock[where[c]] \notin gone

\* A property the code does not have.

\* A killed Chrome leaves no lock that a start keeps.
LocksOfTheDeadGo ==
    [][acq.pc = "clear" /\ acq'.pc = "spawn"
       => lock'[acq.name] = Nobody \/ Alive(lock[acq.name])]_vars
=============================================================================
