---------------------------- MODULE NamedContexts ---------------------------
(***************************************************************************)
(* Named browser contexts: internal/core/engine/context_registry.go and    *)
(* the command contexts.  A file maps names to context ids of Chrome; a    *)
(* command reads it, asks Chrome which contexts live, makes or disposes    *)
(* one, and writes the file back whole, without a lock.                    *)
(***************************************************************************)
EXTENDS Naturals, FiniteSets

CONSTANTS
    Procs,        \* commands
    Names,        \* what --context may say
    Browsers,     \* Chromes a command may be connected to
    Unreachable,  \* a contexts command may find no Chrome
    MaxIds,       \* contexts ever made
    MaxRestarts, MaxCrashes

NamedContextsAssumption ==
    /\ Names # {}
    /\ {MaxIds, MaxRestarts, MaxCrashes} \subseteq Nat
    /\ Unreachable \in BOOLEAN

VARIABLES
    file,      \* contexts.json, as it was written last
    torn,      \* it is truncated and not written whole again
    living,    \* contexts of each Chrome
    made,      \* contexts ever made
    pc, job,   \* of each command: where it is; its op, name and Chrome
    reg, live, \* the copy of the file and Chrome's answer it works with
    view,      \* the context an acquire returned, or a close removed
    leftover,  \* contexts whose maker failed or was killed before it had saved
               \* them, and those that Chrome did not dispose of when it was told to
    restarts, crashes

commands == <<pc, job, reg, live, view>>
vars == <<file, torn, living, made, commands, leftover, restarts, crashes>>

NoId == 0
Ids == 1..MaxIds
NoBrowser == "none"
NoJob == [op |-> "none", name |-> CHOOSE n \in Names : TRUE, br |-> NoBrowser]
Empty == [n \in Names |-> NoId]
Registered(f) == {f[n] : n \in Names} \ {NoId}
Running(p) == pc[p] \notin {"idle", "done", "failed"}

Init ==
    /\ file = Empty /\ torn = FALSE
    /\ living = [b \in Browsers |-> {}]
    /\ made = {}
    /\ pc = [p \in Procs |-> "idle"]
    /\ job = [p \in Procs |-> NoJob]
    /\ reg = [p \in Procs |-> Empty]
    /\ live = [p \in Procs |-> {}]
    /\ view = [p \in Procs |-> NoId]
    /\ leftover = {}
    /\ restarts = 0 /\ crashes = 0

Goto(p, where) == pc' = [pc EXCEPT ![p] = where]

\* The command returns, and what it had read is of no more use.
Return(p, how) ==
    /\ Goto(p, how)
    /\ reg' = [reg EXCEPT ![p] = Empty]
    /\ live' = [live EXCEPT ![p] = {}]

\* A command with --context, or contexts close; it forgets the one before.
Start(p) ==
    /\ ~Running(p)
    /\ \E op \in {"acquire", "close"}, n \in Names, b \in Browsers \union {NoBrowser} :
        /\ b = NoBrowser => op = "close" /\ Unreachable
        /\ job' = [job EXCEPT ![p] = [op |-> op, name |-> n, br |-> b]]
    /\ Goto(p, "load")
    /\ view' = [view EXCEPT ![p] = NoId]
    /\ UNCHANGED <<file, torn, living, made, reg, live, leftover, restarts, crashes>>

\* loadContextRegistry: a file that is being written does not parse.
Load(p) ==
    /\ pc[p] = "load"
    /\ IF torn THEN Goto(p, "failed") /\ UNCHANGED reg
       ELSE /\ reg' = [reg EXCEPT ![p] = file]
            /\ Goto(p, IF job[p].op = "acquire" THEN "ask"
                       ELSE IF file[job[p].name] = NoId THEN "failed" ELSE "dispose")
    /\ UNCHANGED <<file, torn, living, made, job, live, view, leftover, restarts, crashes>>

\* liveContextIDs.
Ask(p) ==
    /\ pc[p] = "ask"
    /\ live' = [live EXCEPT ![p] = living[job[p].br]]
    /\ Goto(p, "choose")
    /\ UNCHANGED <<file, torn, living, made, job, reg, view, leftover, restarts, crashes>>

\* Mutant: any context that lives will do.
ChooseAny(p) ==
    /\ pc[p] = "choose"
    /\ IF live[p] # {}
       THEN /\ view' = [view EXCEPT ![p] = CHOOSE i \in live[p] : TRUE]
            /\ Return(p, "done")
       ELSE Goto(p, "create") /\ UNCHANGED <<reg, live, view>>
    /\ UNCHANGED <<file, torn, living, made, job, leftover, restarts, crashes>>

\* Mutant: the registry is believed.
ChooseRegistered(p) ==
    /\ pc[p] = "choose"
    /\ LET old == reg[p][job[p].name]
       IN  IF old # NoId
           THEN /\ view' = [view EXCEPT ![p] = old]
                /\ Return(p, "done")
           ELSE Goto(p, "create") /\ UNCHANGED <<reg, live, view>>
    /\ UNCHANGED <<file, torn, living, made, job, leftover, restarts, crashes>>

\* AcquireContext: the registered context if it lives.
Choose(p) ==
    /\ pc[p] = "choose"
    /\ LET old == reg[p][job[p].name]
       IN  IF old \in live[p]
           THEN /\ view' = [view EXCEPT ![p] = old]
                /\ Return(p, "done")
           ELSE Goto(p, "create") /\ UNCHANGED <<reg, live, view>>
    /\ UNCHANGED <<file, torn, living, made, job, leftover, restarts, crashes>>

\* b.Incognito, and the new entry in the copy.
Incognito(p) ==
    /\ pc[p] = "create"
    /\ \E i \in Ids \ made :
        /\ \A j \in Ids \ made : i <= j
        /\ made' = made \union {i}
        /\ living' = [living EXCEPT ![job[p].br] = @ \union {i}]
        /\ view' = [view EXCEPT ![p] = i]
        /\ reg' = [reg EXCEPT ![p][job[p].name] = i]
    /\ Goto(p, "truncate")
    /\ UNCHANGED <<file, torn, job, live, leftover, restarts, crashes>>

\* CloseContext: the error of the disposal is not looked at.
Dispose(p) ==
    /\ pc[p] = "dispose"
    /\ LET i == reg[p][job[p].name]
       IN  \/ /\ living' = [b \in Browsers |->
                     IF b = job[p].br THEN living[b] \ {i} ELSE living[b]]
              /\ UNCHANGED leftover
           \/ leftover' = leftover \union {i} /\ UNCHANGED living
    /\ reg' = [reg EXCEPT ![p][job[p].name] = NoId]
    /\ view' = [view EXCEPT ![p] = reg[p][job[p].name]]
    /\ Goto(p, "truncate")
    /\ UNCHANGED <<file, torn, made, job, live, restarts, crashes>>

\* saveContextRegistry: os.WriteFile truncates, and then writes.
Truncate(p) ==
    /\ pc[p] = "truncate"
    /\ torn' = TRUE
    /\ Goto(p, "write")
    /\ UNCHANGED <<file, living, made, job, reg, live, view, leftover, restarts, crashes>>

Write(p) ==
    /\ pc[p] = "write"
    /\ file' = reg[p]
    /\ torn' = FALSE
    /\ Return(p, "done")
    /\ UNCHANGED <<living, made, job, view, leftover, restarts, crashes>>

\* The command ends here: a context that it has made is in no registry.
Ends(p) ==
    /\ Return(p, "failed")
    /\ view' = [view EXCEPT ![p] = NoId]
    /\ leftover' = leftover \union (IF job[p].op = "acquire" THEN {view[p]} \ {NoId} ELSE {})
    /\ UNCHANGED <<file, torn, living, made, job, restarts>>

\* The file cannot be read or written, or Chrome does not answer: the command
\* returns the error.  A write may fail when the file is truncated already.
Fails(p) ==
    /\ pc[p] \in {"load", "ask", "create", "truncate", "write"}
    /\ Ends(p)
    /\ UNCHANGED crashes

\* A command is killed, wherever it is.
Crash(p) ==
    /\ Running(p)
    /\ crashes < MaxCrashes
    /\ crashes' = crashes + 1
    /\ Ends(p)

\* A Chrome is restarted: its contexts are gone.
Restart(b) ==
    /\ restarts < MaxRestarts
    /\ restarts' = restarts + 1
    /\ living[b] # {}
    /\ living' = [living EXCEPT ![b] = {}]
    /\ UNCHANGED <<file, torn, made, commands, leftover, crashes>>

Command(p) ==
    \/ Load(p) \/ Ask(p) \/ Choose(p) \/ Incognito(p)
    \/ Dispose(p) \/ Truncate(p) \/ Write(p) \/ Fails(p)

Next ==
    \/ \E p \in Procs : Start(p) \/ Command(p) \/ Crash(p)
    \/ \E b \in Browsers : Restart(b)

Spec == Init /\ [][Next]_vars

----------------------------------------------------------------------------
\* An id is of one Chrome, and is registered under one name.
TypeOK ==
    /\ file \in [Names -> Ids \union {NoId}]
    /\ torn \in BOOLEAN
    /\ \A b \in Browsers : living[b] \subseteq made
    /\ \A b, c \in Browsers : b # c => living[b] \intersect living[c] = {}
    /\ \A n, m \in Names : n # m /\ file[n] # NoId => file[n] # file[m]
    /\ restarts \in 0..MaxRestarts /\ crashes \in 0..MaxCrashes

\* Isolated contexts ("isolated browser contexts", docs/cli.md): however many
\* commands run at once, two under different names never get one context.
NamesAreIsolated ==
    \A p, q \in {r \in Procs : job[r].op = "acquire"} :
        view[p] # NoId /\ job[p].name # job[q].name => view[p] # view[q]

\* A context is given out only if it lived when Chrome was asked: one that
\* went with its Chrome is never taken up again.
NeverGivenDead ==
    \A p \in Procs :
       job[p].op = "acquire" /\ view'[p] # view[p] /\ view'[p] # NoId
       => view'[p] \in live[p] \union (Ids \ made)

\* AcquireContext: "otherwise creates a new one and persists it"; docs/cli.md:
\* "Letting multiple agents share one Chrome via separate contexts".  When no
\* command runs and the file is whole, every context of a Chrome is registered,
\* but for those whose maker failed or was killed and those a close has given up.
EveryContextRegistered ==
    (\A p \in Procs : ~Running(p)) /\ ~torn
        => \A b \in Browsers : living[b] \subseteq Registered(file) \union leftover

\* contexts close: "Dispose named context in Chrome and remove from registry":
\* when it says closed, the context that had the name does not live, unless
\* Chrome did not do as it was told.
ClosedIsGone ==
    \A p \in Procs : pc[p] = "done" /\ job[p].op = "close"
        => \A b \in Browsers : view[p] \notin living[b] \ leftover

\* Properties the code does not have.

\* A context that is closed is gone, whatever Chrome answers.
ClosedIsDisposed ==
    \A p \in Procs : pc[p] = "done" /\ job[p].op = "close"
        => \A b \in Browsers : view[p] \notin living[b]

\* A context that is made is persisted, whoever fails.
EveryContextKept ==
    (\A p \in Procs : ~Running(p))
        => \A b \in Browsers : living[b] \subseteq Registered(file)
=============================================================================
