------------------------------- MODULE Setup -------------------------------
(***************************************************************************)
(* The installation of one transport: internal/setup/setup.go with the     *)
(* commands setup, setup switch and setup uninstall.                       *)
(*                                                                         *)
(* Under ~/.ghostchrome are the manifest, a lock and the two binaries; in  *)
(* each client's own directories a skill and a configuration file with an  *)
(* entry named ghostchrome.  All but the manifest and the lock may also be *)
(* the user's.  The model follows who owns what over installations,        *)
(* switches and removals that may fail at each file, while the user edits. *)
(***************************************************************************)
EXTENDS Naturals, FiniteSets, TLC

CONSTANTS
    Clients,         \* claude, codex, grok
    Procs, NoProc,   \* commands that run at a time
    NoManifest,
    ClientsChange,   \* a later command may name other clients
    Purges,          \* uninstall may be told to purge
    EditsAnytime,    \* the user edits while a command runs
    Faulty,          \* the commands whose writes may fail
    MaxFaults,       \* bound: writes that fail and commands that are killed
    MaxCrashes,      \* bound: those of them that are killed
    MaxEdits         \* bound: edits by the user

ASSUME SetupAssumption ==
    /\ NoProc \notin Procs
    /\ {ClientsChange, Purges, EditsAnytime} \subseteq BOOLEAN
    /\ Faulty \subseteq {"install", "switch", "uninstall"}
    /\ {MaxFaults, MaxEdits, MaxCrashes} \subseteq Nat

VARIABLES
    manifest,  \* install.json
    lock,      \* who created setup.lock, or NoProc: there is none
    bin,       \* the file at the place of each binary
    skill,     \* the skill of each client
    entry,     \* the entry of each client's configuration
    pc, cmd,   \* where each command is, and what it was asked for
    read,      \* the manifest it has read
    found,     \* the entries its preflight found
    todo,      \* what the present loop has still to do
    last,      \* the last command that ended, and its result
    clean,     \* it went well, and no edit or other command has come since
    faults, edits, crashes

disk == <<manifest, bin, skill, entry>>
command == <<pc, cmd, read, found, todo>>
budget == <<faults, edits, crashes>>
vars == <<disk, lock, command, last, clean, budget>>

Modes == {"cli", "mcp"}
Opposite(m) == IF m = "cli" THEN "mcp" ELSE "cli"

\* "custom" is an entry for a Ghostchrome command other than the installed
\* one: the code calls it legacy, and an installed one too.
Entries == {"none", "foreign", "custom", "ours"}
Legacy(e) == e \in {"custom", "ours"}

BinPath(m) == <<"bin", m>>
SkillPath(c) == <<"skill", c>>
ConfigPath(c) == <<"config", c>>
Paths == {BinPath(m) : m \in Modes} \union {SkillPath(c) : c \in Clients}
            \union {ConfigPath(c) : c \in Clients}

Manifests == [mode : Modes, clients : SUBSET Clients, managed : SUBSET Paths]

ASSUME ManifestAssumption == NoManifest \notin Manifests

\* setupManagedMap.
Managed(m) == IF m = NoManifest THEN {} ELSE m.managed
InMode(m, mode) == m # NoManifest /\ m.mode = mode

NoCmd == [op |-> "", mode |-> "cli", clients |-> {}, purge |-> FALSE]
Forced(c) == c.op = "switch"

----------------------------------------------------------------------------
\* The checks of installSetupMode, before anything is written.

\* setupExistingOpposite.
OppositeInTheWay(m, c) ==
    /\ bin[Opposite(c.mode)] # "none"
    /\ BinPath(Opposite(c.mode)) \notin Managed(m)

\* setupSkillConflict.
SkillInTheWay(m, c) ==
    \E k \in c.clients :
        /\ skill[k] = "edited"
        /\ SkillPath(k) \notin Managed(m)
        /\ ~Forced(c)

\* Mutant: in CLI mode a registration is removed whatever it is.
EntryInTheWayOfMcp(m, c) ==
    \E k \in c.clients : c.mode = "mcp" /\ entry[k] = "foreign"

\* Of a configuration in the manifest of an MCP installation, only the entry
\* for the installed binary is not the user's.
EntryInTheWay(m, c) ==
    \E k \in c.clients :
        LET ownFile == ConfigPath(k) \in Managed(m) /\ InMode(m, "mcp")
        IN  \/ entry[k] = "foreign"
            \/ entry[k] = "custom" /\ ownFile

Refused(m, c) ==
    \/ m # NoManifest /\ m.mode # c.mode /\ ~Forced(c)
    \/ OppositeInTheWay(m, c)
    \/ m = NoManifest /\ ~Forced(c) /\ \E k \in c.clients : Legacy(entry[k])
    \/ SkillInTheWay(m, c)
    \/ EntryInTheWay(m, c)

\* setupCopyBinary, from a source that is not the installed file.
BinaryInTheWay(m, c) ==
    bin[c.mode] # "none" /\ BinPath(c.mode) \notin Managed(m)

\* Mutant: the configurations are not listed.
NewManagedOfMcp(m, c) ==
    {BinPath(c.mode)} \union {SkillPath(k) : k \in c.clients}

\* The managed files of the manifest an installation writes.
NewManaged(m, c) ==
    {BinPath(c.mode)} \union {SkillPath(k) : k \in c.clients}
    \union IF c.mode = "mcp" THEN {ConfigPath(k) : k \in c.clients}
           ELSE IF InMode(m, "mcp")
                THEN m.managed \intersect {ConfigPath(k) : k \in Clients}
                ELSE {}

----------------------------------------------------------------------------
Init ==
    /\ manifest = NoManifest
    /\ lock = NoProc
    /\ bin = [m \in Modes |-> "none"]
    /\ skill = [k \in Clients |-> "none"]
    /\ entry = [k \in Clients |-> "none"]
    /\ pc = [p \in Procs |-> "idle"]
    /\ cmd = [p \in Procs |-> NoCmd]
    /\ read = [p \in Procs |-> NoManifest]
    /\ found = [p \in Procs |-> [k \in Clients |-> "none"]]
    /\ todo = [p \in Procs |-> {}]
    /\ last = [op |-> "", mode |-> "cli", result |-> ""]
    /\ clean = FALSE
    /\ faults = 0
    /\ edits = 0
    /\ crashes = 0

Goto(p, where) == pc' = [pc EXCEPT ![p] = where]
Loop(p, things) == todo' = [todo EXCEPT ![p] = things]

\* setup and setup switch; switch reads the manifest before the lock, for
\* its clients, and will not start without one or a legacy entry.
Begin(p) ==
    /\ pc[p] = "idle"
    /\ \E op \in {"install", "switch", "uninstall"}, mode \in Modes,
          clients \in SUBSET Clients, purge \in BOOLEAN :
        /\ clients # {}
        /\ ClientsChange \/ clients = Clients
        /\ op = "switch" =>
            IF manifest # NoManifest THEN clients = manifest.clients
            ELSE \E k \in clients : Legacy(entry[k])
        /\ op = "uninstall" => mode = "cli" /\ clients = Clients
        /\ purge => Purges /\ op = "uninstall"
        /\ cmd' = [cmd EXCEPT ![p] = [op |-> op, mode |-> mode,
                                      clients |-> clients, purge |-> purge]]
    /\ Goto(p, "lock")
    /\ UNCHANGED <<disk, lock, read, found, todo, last, clean, budget>>

\* Mutant: a lock that exists is opened all the same.
TakeLockNotExclusive(p) ==
    /\ pc[p] = "lock"
    /\ lock' = p
    /\ clean' = FALSE
    /\ Goto(p, IF cmd[p].op = "uninstall" THEN "uninstall" ELSE "check")
    /\ UNCHANGED <<disk, cmd, read, found, todo, last, budget>>

\* withSetupLock.
TakeLock(p) ==
    /\ pc[p] = "lock"
    /\ lock = NoProc
    /\ lock' = p
    /\ clean' = FALSE
    /\ Goto(p, IF cmd[p].op = "uninstall" THEN "uninstall" ELSE "check")
    /\ UNCHANGED <<disk, cmd, read, found, todo, last, budget>>

Ended(p, result) ==
    /\ last' = [op |-> cmd[p].op, mode |-> cmd[p].mode, result |-> result]
    /\ clean' = (result = "ok")
    /\ Goto(p, "idle")
    /\ cmd' = [cmd EXCEPT ![p] = NoCmd]
    /\ read' = [read EXCEPT ![p] = NoManifest]
    /\ found' = [found EXCEPT ![p] = [k \in Clients |-> "none"]]
    /\ Loop(p, {})

InProgress(p) ==
    /\ pc[p] = "lock"
    /\ lock # NoProc
    /\ Ended(p, "busy")
    /\ UNCHANGED <<disk, lock, budget>>

\* The deferred removal of the lock, whoever created it.
Unlock(p) ==
    /\ pc[p] \in {"refused", "failed", "ok"}
    /\ lock' = NoProc
    /\ Ended(p, pc[p])
    /\ UNCHANGED <<disk, budget>>

----------------------------------------------------------------------------
\* installSetupMode.

Check(p) ==
    /\ pc[p] = "check"
    /\ IF Refused(manifest, cmd[p])
       THEN /\ Goto(p, "refused")
            /\ UNCHANGED <<read, found>>
       ELSE /\ Goto(p, "copy")
            /\ read' = [read EXCEPT ![p] = manifest]
            /\ found' = [found EXCEPT ![p] = entry]
    /\ UNCHANGED <<disk, lock, cmd, todo, last, clean, budget>>

\* A client's entry is written in MCP mode, and in CLI mode removed if it was
\* there and is managed or legacy.
ToConfigure(p) ==
    {k \in cmd[p].clients :
        \/ cmd[p].mode = "mcp"
        \/ found[p][k] # "none"
            /\ (ConfigPath(k) \in Managed(read[p]) \/ Legacy(found[p][k]))}

CopyBinary(p) ==
    /\ pc[p] = "copy"
    /\ IF BinaryInTheWay(read[p], cmd[p])
       THEN /\ Goto(p, "refused")
            /\ UNCHANGED <<bin, todo>>
       ELSE /\ bin' = [bin EXCEPT ![cmd[p].mode] = "ours"]
            /\ Goto(p, "configure")
            /\ Loop(p, ToConfigure(p))
    /\ UNCHANGED <<manifest, skill, entry, lock, cmd, read, found, last, clean,
                   budget>>

\* setupMCPJSON and setupMCPTOML read the file once more: only without force
\* does a foreign entry stop them.
ForeignStops(p, k) ==
    /\ entry[k] = "foreign"
    /\ ~Forced(cmd[p])
    /\ ConfigPath(k) \notin Managed(read[p])

Configure(p, k) ==
    /\ pc[p] = "configure"
    /\ k \in todo[p]
    /\ IF ForeignStops(p, k)
       THEN /\ Goto(p, "failed")
            /\ UNCHANGED <<entry, todo>>
       ELSE /\ entry' = [entry EXCEPT ![k] =
                            IF cmd[p].mode = "mcp" THEN "ours" ELSE "none"]
            /\ Loop(p, todo[p] \ {k})
            /\ UNCHANGED pc
    /\ UNCHANGED <<manifest, bin, skill, lock, cmd, read, found, last, clean,
                   budget>>

\* installSetupSkills checks all of them once more before it writes one.
BeginSkills(p) ==
    /\ pc[p] = "configure"
    /\ todo[p] = {}
    /\ IF SkillInTheWay(read[p], cmd[p])
       THEN /\ Goto(p, "failed")
            /\ UNCHANGED todo
       ELSE /\ Goto(p, "skills")
            /\ Loop(p, cmd[p].clients)
    /\ UNCHANGED <<disk, lock, cmd, read, found, last, clean, budget>>

InstallSkill(p, k) ==
    /\ pc[p] = "skills"
    /\ k \in todo[p]
    /\ skill' = [skill EXCEPT ![k] = "ours"]
    /\ Loop(p, todo[p] \ {k})
    /\ UNCHANGED <<manifest, bin, entry, lock, pc, cmd, read, found, last,
                   clean, budget>>

WriteManifest(p) ==
    /\ pc[p] = "skills"
    /\ todo[p] = {}
    /\ manifest' = [mode |-> cmd[p].mode, clients |-> cmd[p].clients,
                    managed |-> NewManaged(read[p], cmd[p])]
    /\ Goto(p, "old")
    /\ UNCHANGED <<bin, skill, entry, lock, cmd, read, found, todo, last, clean,
                   budget>>

\* Mutant: the previous artifact stays.
RemoveOldNever(p) ==
    /\ pc[p] = "old"
    /\ Goto(p, "ok")
    /\ UNCHANGED <<disk, lock, cmd, read, found, todo, last, clean, budget>>

\* The previous artifact goes last.
RemoveOld(p) ==
    /\ pc[p] = "old"
    /\ bin' = IF /\ InMode(read[p], Opposite(cmd[p].mode))
                 /\ BinPath(read[p].mode) \in Managed(read[p])
              THEN [bin EXCEPT ![read[p].mode] = "none"] ELSE bin
    /\ Goto(p, "ok")
    /\ UNCHANGED <<manifest, skill, entry, lock, cmd, read, found, todo, last,
                   clean, budget>>

----------------------------------------------------------------------------
\* Uninstall.

\* The entries to remove: the client's own file if the manifest lists it or
\* the entry is for the binary; a changed one is preserved.
BeginUninstall(p) ==
    /\ pc[p] = "uninstall"
    /\ IF manifest = NoManifest
       THEN /\ Goto(p, "refused")
            /\ UNCHANGED <<read, todo>>
       ELSE /\ Goto(p, "unregister")
            /\ read' = [read EXCEPT ![p] = manifest]
            /\ Loop(p, IF manifest.mode = "mcp" THEN manifest.clients ELSE {})
    /\ UNCHANGED <<disk, lock, cmd, found, last, clean, budget>>

Unregister(p, k) ==
    /\ pc[p] = "unregister"
    /\ k \in todo[p]
    /\ entry' = [entry EXCEPT ![k] = IF @ = "ours" THEN "none" ELSE @]
    /\ Loop(p, todo[p] \ {k})
    /\ UNCHANGED <<manifest, bin, skill, lock, pc, cmd, read, found, last,
                   clean, budget>>

BeginRemoval(p) ==
    /\ pc[p] = "unregister"
    /\ todo[p] = {}
    /\ Goto(p, "remove")
    /\ Loop(p, read[p].managed \ {ConfigPath(k) : k \in Clients})
    /\ UNCHANGED <<disk, lock, cmd, read, found, last, clean, budget>>

\* A modified skill is preserved.
RemoveManaged(p, f) ==
    /\ pc[p] = "remove"
    /\ f \in todo[p]
    /\ skill' = [k \in Clients |->
                    IF f = SkillPath(k) /\ skill[k] = "ours" THEN "none"
                    ELSE skill[k]]
    /\ bin' = [m \in Modes |-> IF f = BinPath(m) THEN "none" ELSE bin[m]]
    /\ Loop(p, todo[p] \ {f})
    /\ UNCHANGED <<manifest, entry, lock, pc, cmd, read, found, last, clean,
                   budget>>

\* --purge-data removes ~/.ghostchrome itself, the lock included.
Purge(p) ==
    /\ pc[p] = "remove"
    /\ todo[p] = {}
    /\ IF cmd[p].purge
       THEN /\ bin' = [m \in Modes |-> "none"]
            /\ manifest' = NoManifest
            /\ lock' = NoProc
       ELSE UNCHANGED <<bin, manifest, lock>>
    /\ Goto(p, "forget")
    /\ UNCHANGED <<skill, entry, cmd, read, found, todo, last, clean, budget>>

RemoveManifest(p) ==
    /\ pc[p] = "forget"
    /\ manifest' = NoManifest
    /\ Goto(p, "ok")
    /\ UNCHANGED <<bin, skill, entry, lock, cmd, read, found, todo, last, clean,
                   budget>>

----------------------------------------------------------------------------
\* What may come between.

Writing == {"copy", "configure", "skills", "old", "unregister", "remove",
            "forget"}

\* A write or removal fails; every one of them ends the command.
Fault(p) ==
    /\ pc[p] \in Writing
    /\ cmd[p].op \in Faulty
    /\ faults + crashes < MaxFaults
    /\ faults' = faults + 1
    /\ Goto(p, "failed")
    /\ UNCHANGED <<disk, lock, cmd, read, found, todo, last, clean, edits,
                   crashes>>

\* A command that is killed leaves the lock.
Crash(p) ==
    /\ pc[p] # "idle"
    /\ crashes < MaxCrashes /\ faults + crashes < MaxFaults
    /\ crashes' = crashes + 1
    /\ Ended(p, "killed")
    /\ UNCHANGED <<disk, lock, faults, edits>>

\* The user, or another program: never a file that looks like the installed.
Edit ==
    /\ edits < MaxEdits
    /\ EditsAnytime \/ \A p \in Procs : pc[p] = "idle"
    /\ \/ /\ \E k \in Clients, e \in Entries \ {"ours"} :
                entry' = [entry EXCEPT ![k] = e]
          /\ UNCHANGED <<skill, bin>>
       \/ /\ \E k \in Clients, s \in {"none", "edited"} :
                skill' = [skill EXCEPT ![k] = s]
          /\ UNCHANGED <<entry, bin>>
       \/ /\ \E m \in Modes : bin' = [bin EXCEPT ![m] = "foreign"]
          /\ UNCHANGED <<entry, skill>>
    /\ edits' = edits + 1
    /\ clean' = FALSE
    /\ UNCHANGED <<manifest, lock, command, last, faults, crashes>>

Install(p) ==
    \/ Check(p)
    \/ CopyBinary(p)
    \/ \E k \in Clients : Configure(p, k) \/ InstallSkill(p, k)
    \/ BeginSkills(p)
    \/ WriteManifest(p)
    \/ RemoveOld(p)

Uninstall(p) ==
    \/ BeginUninstall(p)
    \/ \E k \in Clients : Unregister(p, k)
    \/ BeginRemoval(p)
    \/ \E f \in Paths : RemoveManaged(p, f)
    \/ Purge(p)
    \/ RemoveManifest(p)

Step(p) ==
    \/ TakeLock(p)
    \/ InProgress(p)
    \/ Install(p)
    \/ Uninstall(p)
    \/ Unlock(p)

Next ==
    \/ \E p \in Procs : Begin(p) \/ Step(p) \/ Fault(p) \/ Crash(p)
    \/ Edit

Spec == Init /\ [][Next]_vars

----------------------------------------------------------------------------
\* Properties.

TypeOK ==
    /\ manifest # NoManifest =>
        /\ manifest.mode \in Modes
        /\ manifest.clients \in (SUBSET Clients) \ {{}}
        /\ manifest.managed \subseteq Paths
        /\ BinPath(manifest.mode) \in manifest.managed
        /\ manifest.mode = "mcp" =>
            {ConfigPath(k) : k \in manifest.clients} \subseteq manifest.managed
    /\ lock \in Procs \union {NoProc}
    /\ bin \in [Modes -> {"none", "foreign", "ours"}]
    /\ skill \in [Clients -> {"none", "edited", "ours"}]
    /\ entry \in [Clients -> Entries]
    /\ \A p \in Procs :
        pc[p] \in Writing \union {"idle", "lock", "check", "uninstall",
                                  "refused", "failed", "ok"}

Inside(p) == pc[p] \notin {"idle", "lock"}

\* One command at a time is past the lock (setup.go, withSetupLock: "another
\* Ghostchrome setup is in progress"), killed commands included.
OneAtATime ==
    \A p, q \in Procs : Inside(p) /\ Inside(q) => p = q

\* RunDoctor without a failed check.  It looks at entries in MCP mode only.
RunDoctor ==
    /\ manifest # NoManifest
    /\ bin[manifest.mode] # "none"
    /\ bin[Opposite(manifest.mode)] = "none"
    /\ \A k \in manifest.clients :
        /\ skill[k] = "ours"
        /\ manifest.mode = "mcp" => entry[k] = "ours"

\* After an installation or a switch that says it went well, the doctor finds
\* nothing wrong, the binary is the installed one, and no entry for it is left
\* in CLI mode, which the doctor does not look at.
DoctorAgrees ==
    clean /\ last.op \in {"install", "switch"} =>
        /\ RunDoctor
        /\ bin[manifest.mode] = "ours"
        /\ manifest.mode = "cli" => \A k \in manifest.clients : entry[k] # "ours"

\* No command changes an entry that is not Ghostchrome's, the forced switch
\* included: it remains a hard conflict (setup.go, installSetupMode).
ForeignEntriesStay ==
    [][\A k \in Clients :
        (\E p \in Procs : Step(p)) /\ entry[k] = "foreign"
            => entry'[k] = "foreign"]_vars

\* Nor a skill the user has written or, when it is being removed, changed,
\* without force.
EditedSkillsStay ==
    [][\A k \in Clients, p \in Procs :
        /\ Step(p)
        /\ skill[k] = "edited"
        /\ \/ cmd[p].op = "uninstall"
           \/ cmd[p].op = "install" /\ SkillPath(k) \notin Managed(read[p])
        => skill'[k] = "edited"]_vars

\* What is the user's stays, in the clients' files and among the skills.
UserFilesStay == ForeignEntriesStay /\ EditedSkillsStay

\* A legacy entry is removed by an explicit switch only (setup.go,
\* installSetupMode); a plain setup in CLI mode leaves it.
LegacyGoesBySwitchOnly ==
    [][\A k \in Clients, p \in Procs :
        /\ Step(p)
        /\ cmd[p].op = "install"
        /\ entry[k] = "custom"
        /\ ConfigPath(k) \notin Managed(read[p])
        /\ cmd[p].mode = "cli"
        => entry'[k] = "custom"]_vars

\* An uninstall that says it went well, be it the repetition of one that
\* failed, leaves no binary, skill or entry of an installation behind.
NothingLeft ==
    clean /\ last.op = "uninstall" =>
        /\ \A m \in Modes : bin[m] # "ours"
        /\ \A k \in Clients : skill[k] # "ours" /\ entry[k] # "ours"

\* Where nobody else touches the files, a switch that failed can be repeated
\* (setup.go, installSetupMode: "keeps a failed switch recoverable").
FailedSwitchRepeats ==
    [][\A p \in Procs :
        /\ Step(p)
        /\ last.result = "failed"
        /\ last.op = "switch" /\ cmd[p].op = "switch"
        /\ cmd[p].mode = last.mode
        => pc'[p] # "refused"]_vars

\* For TLC: the clients, and the commands, differ in nothing but their names.
Symmetry == Permutations(Clients) \union Permutations(Procs)
=============================================================================
