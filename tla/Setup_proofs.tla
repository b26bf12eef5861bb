---------------------------- MODULE Setup_proofs ----------------------------
(***************************************************************************)
(* Proofs about Setup: its type invariant; that one command at a time is   *)
(* past the lock as long as no uninstall purges; and, where in addition    *)
(* nobody edits while a command runs, that the doctor agrees with a good   *)
(* installation and that no file of the user is changed; and that nothing  *)
(* is left by an uninstall, where only uninstalls fail midway.             *)
(***************************************************************************)
EXTENDS Setup, TLAPS

LEMMA PathsDef ==
    /\ \A m \in Modes : BinPath(m) \in Paths
    /\ \A k \in Clients : SkillPath(k) \in Paths /\ ConfigPath(k) \in Paths
  BY DEF Paths

\* What an installation writes into its manifest is well formed.
LEMMA NewManagedOK ==
    ASSUME NEW m, NEW c, c.mode \in Modes, c.clients \in SUBSET Clients,
           InMode(m, "mcp") => m.managed \subseteq Paths
    PROVE  /\ NewManaged(m, c) \subseteq Paths
           /\ BinPath(c.mode) \in NewManaged(m, c)
           /\ c.mode = "mcp" =>
                {ConfigPath(k) : k \in c.clients} \subseteq NewManaged(m, c)
  BY PathsDef DEF NewManaged

Begun(p) ==
    /\ cmd[p].mode \in Modes
    /\ cmd[p].clients \in SUBSET Clients
    /\ pc[p] # "idle" => cmd[p].clients # {}

ReadOK(m) == m # NoManifest => m.mode \in Modes /\ m.managed \subseteq Paths

\* The type invariant with what it needs of the commands: what they were
\* asked for, what they have read, and which places their loops are at.
Typed ==
    /\ TypeOK
    /\ pc \in [Procs -> Writing \union {"idle", "lock", "check", "uninstall",
                                        "refused", "failed", "ok"}]
    /\ DOMAIN cmd = Procs /\ DOMAIN read = Procs
    /\ \A p \in Procs : Begun(p) /\ ReadOK(read[p])

LEMMA TypedInit == Init => Typed
  <1> SUFFICES ASSUME Init PROVE Typed
    OBVIOUS
  <1>1. TypeOK
    <2>1. bin \in [Modes -> {"none", "foreign", "ours"}]
      BY DEF Init
    <2>2. skill \in [Clients -> {"none", "edited", "ours"}]
      BY DEF Init
    <2>3. entry \in [Clients -> Entries]
      BY DEF Init, Entries
    <2>4. manifest = NoManifest /\ lock = NoProc /\ \A p \in Procs : pc[p] = "idle"
      BY DEF Init
    <2> QED BY <2>1, <2>2, <2>3, <2>4 DEF TypeOK
  <1>2. ASSUME NEW p \in Procs PROVE Begun(p) /\ ReadOK(read[p])
    BY <1>2 DEF Init, Begun, ReadOK, NoCmd, Modes
  <1>3. pc \in [Procs -> Writing \union {"idle", "lock", "check", "uninstall",
                                        "refused", "failed", "ok"}]
    BY DEF Init
  <1>4. DOMAIN cmd = Procs /\ DOMAIN read = Procs
    BY DEF Init
  <1> QED BY <1>1, <1>2, <1>3, <1>4 DEF Typed

\* A command that ends leaves the others as they were.
LEMMA EndedTyped ==
    ASSUME Typed, NEW p \in Procs, NEW r, Ended(p, r), UNCHANGED disk,
           lock' \in Procs \union {NoProc}
    PROVE  Typed'
  <1>1. TypeOK'
    BY DEF Typed, TypeOK, Ended, Goto, disk, Writing
  <1>2. pc' \in [Procs -> Writing \union {"idle", "lock", "check", "uninstall",
                                         "refused", "failed", "ok"}]
    BY DEF Typed, Ended, Goto
  <1>3. DOMAIN cmd' = Procs /\ DOMAIN read' = Procs
    BY DEF Typed, Ended
  <1>4. ASSUME NEW q \in Procs PROVE Begun(q)' /\ ReadOK(read[q])'
    BY <1>4 DEF Typed, Ended, Goto, Begun, ReadOK, NoCmd, Modes
  <1> QED BY <1>1, <1>2, <1>3, <1>4 DEF Typed

\* A step within a command: it goes somewhere, and may read the manifest.
Within(p) ==
    /\ \E where \in Writing \union {"check", "uninstall", "refused", "failed", "ok"} :
        pc' = [pc EXCEPT ![p] = where]
    /\ pc[p] # "idle"
    /\ UNCHANGED cmd
    /\ \/ UNCHANGED read
       \/ read' = [read EXCEPT ![p] = manifest]

LEMMA WithinTyped ==
    ASSUME Typed, NEW p \in Procs, Within(p), TypeOK'
    PROVE  Typed'
  <1>1. pc' \in [Procs -> Writing \union {"idle", "lock", "check", "uninstall",
                                         "refused", "failed", "ok"}]
    BY DEF Typed, Within
  <1>2. DOMAIN cmd' = Procs /\ DOMAIN read' = Procs
    BY DEF Typed, Within
  <1>3. ReadOK(manifest)
    BY DEF Typed, TypeOK, ReadOK
  <1>4. ASSUME NEW q \in Procs PROVE Begun(q)' /\ ReadOK(read[q])'
    BY <1>3, <1>4 DEF Typed, Within, Begun, ReadOK
  <1> QED BY <1>1, <1>2, <1>4 DEF Typed

\* Every step of a command but its begin and its end is a step within it.
LEMMA StepWithin ==
    ASSUME Typed, NEW p \in Procs,
           TakeLock(p) \/ Install(p) \/ Uninstall(p) \/ Fault(p)
    PROVE  Within(p)
  <1> DEFINE There == Writing \union {"check", "uninstall", "refused", "failed", "ok"}
  <1>0. pc = [pc EXCEPT ![p] = pc[p]]
    BY DEF Typed
  <1>1. CASE TakeLock(p) \/ Fault(p)
    BY <1>1 DEF TakeLock, Fault, Within, Goto, Writing
  <1>2. CASE Install(p)
    <2>1. CASE Check(p)
      BY <2>1 DEF Check, Within, Goto, Writing
    <2>2. CASE CopyBinary(p)
      BY <2>2 DEF CopyBinary, Within, Goto, Writing
    <2>3. ASSUME NEW k \in Clients, Configure(p, k) PROVE Within(p)
      BY <2>3, <1>0 DEF Configure, Within, Goto, Writing
    <2>4. ASSUME NEW k \in Clients, InstallSkill(p, k) PROVE Within(p)
      BY <2>4, <1>0 DEF InstallSkill, Within, Goto, Writing
    <2>5. CASE BeginSkills(p) \/ WriteManifest(p) \/ RemoveOld(p)
      BY <2>5 DEF BeginSkills, WriteManifest, RemoveOld, Within, Goto, Writing
    <2> QED BY <1>2, <2>1, <2>2, <2>3, <2>4, <2>5 DEF Install
  <1>3. CASE Uninstall(p)
    <2>1. CASE BeginUninstall(p)
      BY <2>1 DEF BeginUninstall, Within, Goto, Writing
    <2>2. ASSUME NEW k \in Clients, Unregister(p, k) PROVE Within(p)
      BY <2>2, <1>0 DEF Unregister, Within, Goto, Writing
    <2>3. ASSUME NEW f \in Paths, RemoveManaged(p, f) PROVE Within(p)
      BY <2>3, <1>0 DEF RemoveManaged, Within, Goto, Writing
    <2>4. CASE BeginRemoval(p) \/ Purge(p) \/ RemoveManifest(p)
      BY <2>4 DEF BeginRemoval, Purge, RemoveManifest, Within, Goto, Writing
    <2> QED BY <1>3, <2>1, <2>2, <2>3, <2>4 DEF Uninstall
  <1> QED BY <1>1, <1>2, <1>3

\* The files and the manifest keep their types.
FilesOK ==
    /\ bin \in [Modes -> {"none", "foreign", "ours"}]
    /\ skill \in [Clients -> {"none", "edited", "ours"}]
    /\ entry \in [Clients -> Entries]

LEMMA ManifestKept ==
    ASSUME Typed, UNCHANGED manifest, FilesOK', lock' \in Procs \union {NoProc},
           NEW p \in Procs, Within(p)
    PROVE  TypeOK'
  <1>1. \A q \in Procs : pc'[q] \in Writing \union {"idle", "lock", "check",
                            "uninstall", "refused", "failed", "ok"}
    BY DEF Typed, Within
  <1> QED BY <1>1 DEF Typed, TypeOK, FilesOK

LEMMA InstallTyped ==
    ASSUME Typed, NEW p \in Procs, Install(p)
    PROVE  TypeOK'
  <1>0. Within(p) /\ FilesOK /\ lock \in Procs \union {NoProc} /\ cmd[p].mode \in Modes
    BY StepWithin DEF Typed, TypeOK, FilesOK, Begun
  <1>1. CASE Check(p) \/ BeginSkills(p)
    BY <1>0, <1>1, ManifestKept DEF Check, BeginSkills, disk, FilesOK
  <1>2. CASE CopyBinary(p)
    BY <1>0, <1>2, ManifestKept DEF CopyBinary, FilesOK
  <1>3. ASSUME NEW k \in Clients, Configure(p, k) PROVE TypeOK'
    BY <1>0, <1>3, ManifestKept DEF Configure, FilesOK, Entries
  <1>4. ASSUME NEW k \in Clients, InstallSkill(p, k) PROVE TypeOK'
    BY <1>0, <1>4, ManifestKept DEF InstallSkill, FilesOK
  <1>5. CASE WriteManifest(p)
    <2>1. InMode(read[p], "mcp") => read[p].managed \subseteq Paths
      BY DEF Typed, ReadOK, InMode
    <2>2. cmd[p].clients \in SUBSET Clients /\ cmd[p].clients # {}
      BY <1>5 DEF Typed, Begun, WriteManifest
    <2>3. /\ NewManaged(read[p], cmd[p]) \subseteq Paths
          /\ BinPath(cmd[p].mode) \in NewManaged(read[p], cmd[p])
          /\ cmd[p].mode = "mcp" => {ConfigPath(k) : k \in cmd[p].clients}
                                        \subseteq NewManaged(read[p], cmd[p])
      BY <1>0, <2>1, <2>2, NewManagedOK
    <2>4. \A q \in Procs : pc'[q] \in Writing \union {"idle", "lock", "check",
                                "uninstall", "refused", "failed", "ok"}
      BY <1>0 DEF Typed, Within
    <2>5. /\ manifest' = [mode |-> cmd[p].mode, clients |-> cmd[p].clients,
                          managed |-> NewManaged(read[p], cmd[p])]
          /\ UNCHANGED <<bin, skill, entry, lock>>
      BY <1>5 DEF WriteManifest
    <2>6. /\ manifest'.mode = cmd[p].mode
          /\ manifest'.clients = cmd[p].clients
          /\ manifest'.managed = NewManaged(read[p], cmd[p])
      BY <2>5
    <2>7. /\ manifest'.mode \in Modes
          /\ manifest'.clients \in (SUBSET Clients) \ {{}}
          /\ manifest'.managed \subseteq Paths
          /\ BinPath(manifest'.mode) \in manifest'.managed
          /\ manifest'.mode = "mcp" =>
                {ConfigPath(k) : k \in manifest'.clients} \subseteq manifest'.managed
      BY <1>0, <2>2, <2>3, <2>6
    <2> QED BY <1>0, <2>4, <2>5, <2>7 DEF TypeOK, FilesOK
  <1>6. CASE RemoveOld(p)
    <2>1. FilesOK'
      BY <1>0, <1>6 DEF RemoveOld, FilesOK
    <2> QED BY <1>0, <1>6, <2>1, ManifestKept DEF RemoveOld
  <1> QED BY <1>1, <1>2, <1>3, <1>4, <1>5, <1>6 DEF Install

LEMMA UninstallTyped ==
    ASSUME Typed, NEW p \in Procs, Uninstall(p)
    PROVE  TypeOK'
  <1>0. Within(p) /\ FilesOK /\ lock \in Procs \union {NoProc}
    BY StepWithin DEF Typed, TypeOK, FilesOK
  <1>1. CASE BeginUninstall(p) \/ BeginRemoval(p)
    BY <1>0, <1>1, ManifestKept DEF BeginUninstall, BeginRemoval, disk, FilesOK
  <1>2. ASSUME NEW k \in Clients, Unregister(p, k) PROVE TypeOK'
    <2>1. FilesOK'
      BY <1>0, <1>2 DEF Unregister, FilesOK, Entries
    <2> QED BY <1>0, <1>2, <2>1, ManifestKept DEF Unregister
  <1>3. ASSUME NEW f \in Paths, RemoveManaged(p, f) PROVE TypeOK'
    <2>1. skill' \in [Clients -> {"none", "edited", "ours"}]
      BY <1>0, <1>3 DEF RemoveManaged, FilesOK
    <2>2. bin' \in [Modes -> {"none", "foreign", "ours"}]
      BY <1>0, <1>3 DEF RemoveManaged, FilesOK
    <2> QED BY <1>0, <1>3, <2>1, <2>2, ManifestKept DEF RemoveManaged, FilesOK
  <1>4. CASE Purge(p) \/ RemoveManifest(p)
    <2>1. manifest' = NoManifest \/ UNCHANGED manifest
      BY <1>4 DEF Purge, RemoveManifest
    <2>2. FilesOK' /\ lock' \in Procs \union {NoProc}
      BY <1>0, <1>4 DEF Purge, RemoveManifest, FilesOK
    <2>3. \A q \in Procs : pc'[q] \in Writing \union {"idle", "lock", "check",
                                "uninstall", "refused", "failed", "ok"}
      BY <1>0 DEF Typed, Within
    <2>4. CASE manifest' = NoManifest
      BY <2>2, <2>3, <2>4 DEF TypeOK, FilesOK
    <2>5. CASE UNCHANGED manifest
      BY <1>0, <2>2, <2>5, ManifestKept
    <2> QED BY <2>1, <2>4, <2>5
  <1> QED BY <1>1, <1>2, <1>3, <1>4 DEF Uninstall

LEMMA TypedStep == Typed /\ [Next]_vars => Typed'
  <1> SUFFICES ASSUME Typed, [Next]_vars PROVE Typed'
    OBVIOUS
  <1>0. FilesOK /\ lock \in Procs \union {NoProc}
    BY DEF Typed, TypeOK, FilesOK
  <1>1. ASSUME NEW p \in Procs, Begin(p) PROVE Typed'
    <2>1. PICK op \in {"install", "switch", "uninstall"}, mode \in Modes,
               clients \in SUBSET Clients, purge \in BOOLEAN :
            /\ clients # {}
            /\ cmd' = [cmd EXCEPT ![p] = [op |-> op, mode |-> mode,
                                          clients |-> clients, purge |-> purge]]
      BY <1>1 DEF Begin
    <2>2. pc' = [pc EXCEPT ![p] = "lock"] /\ UNCHANGED <<disk, lock, read>>
      BY <1>1 DEF Begin, Goto
    <2>3. TypeOK'
      BY <2>2 DEF Typed, TypeOK, disk
    <2>4. ASSUME NEW q \in Procs PROVE Begun(q)' /\ ReadOK(read[q])'
      BY <2>1, <2>2, <2>4 DEF Typed, Begun, ReadOK
    <2>5. pc' \in [Procs -> Writing \union {"idle", "lock", "check", "uninstall",
                                           "refused", "failed", "ok"}]
      BY <2>2 DEF Typed
    <2>6. DOMAIN cmd' = Procs /\ DOMAIN read' = Procs
      BY <2>1, <2>2 DEF Typed
    <2> QED BY <2>3, <2>4, <2>5, <2>6 DEF Typed
  <1>2. ASSUME NEW p \in Procs, TakeLock(p) \/ Fault(p) PROVE Typed'
    <2>1. Within(p)
      BY <1>2, StepWithin
    <2>2. UNCHANGED disk /\ lock' \in Procs \union {NoProc}
      BY <1>0, <1>2 DEF TakeLock, Fault
    <2>3. TypeOK'
      BY <1>0, <2>1, <2>2, ManifestKept DEF disk, FilesOK
    <2> QED BY <2>1, <2>3, WithinTyped
  <1>3. ASSUME NEW p \in Procs, Install(p) \/ Uninstall(p) PROVE Typed'
    BY <1>3, StepWithin, WithinTyped, InstallTyped, UninstallTyped
  <1>4. ASSUME NEW p \in Procs, InProgress(p) \/ Unlock(p) \/ Crash(p) PROVE Typed'
    <2>1. PICK r : Ended(p, r)
      BY <1>4 DEF InProgress, Unlock, Crash
    <2>2. UNCHANGED disk /\ lock' \in Procs \union {NoProc}
      BY <1>0, <1>4 DEF InProgress, Unlock, Crash
    <2> QED BY <2>1, <2>2, EndedTyped
  <1>5. CASE Edit
    <2>1. UNCHANGED <<manifest, lock, pc, cmd, read>> /\ FilesOK'
      BY <1>0, <1>5 DEF Edit, FilesOK, Entries, command
    <2> QED BY <2>1 DEF Typed, TypeOK, FilesOK, Begun, ReadOK
  <1>6. CASE UNCHANGED vars
    BY <1>6 DEF Typed, TypeOK, vars, disk, command, Begun, ReadOK
  <1> QED BY <1>1, <1>2, <1>3, <1>4, <1>5, <1>6 DEF Next, Step

\* The manifest lists its binary and, in MCP mode, its clients' files;
\* everything else is of its type.
THEOREM TypeCorrect == Spec => []TypeOK
  <1>1. Typed => TypeOK
    BY DEF Typed
  <1> QED BY <1>1, TypedInit, TypedStep, PTL DEF Spec

----------------------------------------------------------------------------
\* Whoever is past the lock has made the lock that is there, and nobody
\* purges.
Locked ==
    /\ Typed
    /\ \A p \in Procs : Inside(p) => lock = p
    /\ \A p \in Procs : ~cmd[p].purge

LEMMA LockedInit == Init => Locked
  <1> SUFFICES ASSUME Init PROVE Locked
    OBVIOUS
  <1>1. \A p \in Procs : ~Inside(p)
    BY DEF Init, Inside
  <1>2. \A p \in Procs : ~cmd[p].purge
    BY DEF Init, NoCmd
  <1> QED BY TypedInit, <1>1, <1>2 DEF Locked

LEMMA LockedStep ==
    ASSUME ~Purges
    PROVE  Locked /\ [Next]_vars => Locked'
  <1> SUFFICES ASSUME Locked, [Next]_vars PROVE Locked'
    OBVIOUS
  <1>0. Typed /\ Typed'
    BY TypedStep DEF Locked
  <1>1. ASSUME NEW p \in Procs, Begin(p) PROVE Locked'
    <2>1. pc' = [pc EXCEPT ![p] = "lock"] /\ UNCHANGED lock
      BY <1>1 DEF Begin, Goto
    <2>2. \A q \in Procs : Inside(q)' => lock' = q
      BY <1>0, <2>1 DEF Locked, Inside, Typed
    <2>3. PICK op \in {"install", "switch", "uninstall"}, mode \in Modes,
               clients \in SUBSET Clients, purge \in BOOLEAN :
            /\ ~purge
            /\ cmd' = [cmd EXCEPT ![p] = [op |-> op, mode |-> mode,
                                          clients |-> clients, purge |-> purge]]
      BY <1>1 DEF Begin
    <2>4. \A q \in Procs : ~cmd'[q].purge
      BY <1>0, <2>3 DEF Locked, Typed
    <2> QED BY <1>0, <2>2, <2>4 DEF Locked
  <1>2. ASSUME NEW p \in Procs, TakeLock(p) PROVE Locked'
    <2>1. \A q \in Procs : ~Inside(q)
      BY <1>2, SetupAssumption DEF TakeLock, Locked
    <2> QED BY <1>0, <1>2, <2>1 DEF TakeLock, Goto, Locked, Inside, Typed
  <1>3. ASSUME NEW p \in Procs, Install(p) \/ Uninstall(p) \/ Fault(p) PROVE Locked'
    <2>1. Within(p)
      BY <1>0, <1>3, StepWithin
    <2>2. Inside(p)
      BY <1>3 DEF Install, Uninstall, Fault, Check, CopyBinary, Configure,
                  InstallSkill, BeginSkills, WriteManifest, RemoveOld,
                  BeginUninstall, Unregister, BeginRemoval, RemoveManaged,
                  Purge, RemoveManifest, Inside, Writing
    <2>3. UNCHANGED lock
      BY <1>3 DEF Install, Uninstall, Fault, Check, CopyBinary, Configure,
                  InstallSkill, BeginSkills, WriteManifest, RemoveOld,
                  BeginUninstall, Unregister, BeginRemoval, RemoveManaged,
                  Purge, RemoveManifest, Locked
    <2> QED BY <1>0, <2>1, <2>2, <2>3 DEF Within, Locked, Inside, Typed
  <1>4. ASSUME NEW p \in Procs, InProgress(p) \/ Crash(p) PROVE Locked'
    <2>1. PICK r : Ended(p, r)
      BY <1>4 DEF InProgress, Crash
    <2>2. UNCHANGED lock
      BY <1>4 DEF InProgress, Crash
    <2>3. pc' = [pc EXCEPT ![p] = "idle"] /\ cmd' = [cmd EXCEPT ![p] = NoCmd]
      BY <2>1 DEF Ended, Goto
    <2>4. \A q \in Procs : Inside(q)' => Inside(q)
      BY <1>0, <2>3 DEF Typed, Inside
    <2>5. \A q \in Procs : ~cmd'[q].purge
      BY <1>0, <2>3 DEF Typed, Locked, NoCmd
    <2> QED BY <1>0, <2>2, <2>4, <2>5 DEF Locked
  <1>5. ASSUME NEW p \in Procs, Unlock(p) PROVE Locked'
    <2>1. Inside(p) /\ Ended(p, pc[p])
      BY <1>5 DEF Unlock, Inside
    <2>2. \A q \in Procs : q # p => ~Inside(q)
      BY <2>1 DEF Locked
    <2> QED BY <1>0, <2>1, <2>2 DEF Ended, Goto, Locked, Inside, Typed, NoCmd
  <1>6. CASE Edit \/ UNCHANGED vars
    BY <1>0, <1>6 DEF Edit, vars, command, Locked, Inside
  <1> QED BY <1>1, <1>2, <1>3, <1>4, <1>5, <1>6 DEF Next, Step

\* One command at a time is past the lock, whatever fails or is killed, as
\* long as no uninstall purges.
THEOREM LockExcludes ==
    ASSUME ~Purges
    PROVE  Spec => []OneAtATime
  <1>1. Locked => OneAtATime
    BY DEF Locked, OneAtATime
  <1> QED BY <1>1, LockedInit, LockedStep, PTL DEF Spec

----------------------------------------------------------------------------
(***************************************************************************)
(* What an installation that says it went well has done.  Progress says    *)
(* how much of it is done at each place; it survives because the lock      *)
(* keeps other commands out and, where the user does not edit while a      *)
(* command runs, the files are as the command has left them.               *)
(***************************************************************************)

\* The binary a manifest lists is the one of its mode.
OneBinary(m) == \A x \in Modes : BinPath(x) \in Managed(m) => x = m.mode

\* What an installation leaves in the configuration of client k.
Registered(c, k) ==
    IF c.mode = "mcp" THEN entry[k] = "ours" ELSE entry[k] # "ours"

Installed(c) ==
    /\ manifest # NoManifest /\ manifest.mode = c.mode
    /\ manifest.clients = c.clients
    /\ bin[c.mode] = "ours" /\ bin[Opposite(c.mode)] = "none"
    /\ \A k \in c.clients : skill[k] = "ours" /\ Registered(c, k)

InInstall == {"check", "copy", "configure", "skills", "old"}
InUninstall == {"uninstall", "unregister", "remove", "forget"}

OpOK(p) ==
    /\ pc[p] = "lock" => cmd[p].op \in {"install", "switch", "uninstall"}
    /\ pc[p] \in InInstall => cmd[p].op \in {"install", "switch"}
    /\ pc[p] \in InUninstall => cmd[p].op = "uninstall"

\* The preflight holds to the end of the part it was made for.
Checked(p) ==
    /\ pc[p] \in {"copy", "configure", "skills"} => read[p] = manifest
    /\ pc[p] \in {"copy", "configure", "skills", "old"} =>
        \/ bin[Opposite(cmd[p].mode)] = "none"
        \/ BinPath(Opposite(cmd[p].mode)) \in Managed(read[p])
    /\ pc[p] = "copy" => found[p] = entry
    /\ pc[p] \in {"copy", "configure"} =>
        \A k \in cmd[p].clients : entry[k] # "foreign"

\* What has been written stays written.
Written(p) ==
    /\ pc[p] \in {"configure", "skills", "old"} => bin[cmd[p].mode] = "ours"
    /\ pc[p] \in {"configure", "skills"} => todo[p] \subseteq cmd[p].clients
    /\ pc[p] = "configure" =>
        \A k \in cmd[p].clients \ todo[p] : Registered(cmd[p], k)
    /\ pc[p] \in {"skills", "old"} =>
        \A k \in cmd[p].clients : Registered(cmd[p], k)
    /\ pc[p] = "skills" => \A k \in cmd[p].clients :
        /\ k \notin todo[p] => skill[k] = "ours"
        /\ skill[k] = "edited" /\ ~Forced(cmd[p]) => SkillPath(k) \in Managed(read[p])
    /\ pc[p] = "old" => \A k \in cmd[p].clients : skill[k] = "ours"
    /\ pc[p] = "old" => /\ manifest # NoManifest /\ manifest.mode = cmd[p].mode
                        /\ manifest.clients = cmd[p].clients
    /\ pc[p] = "ok" /\ cmd[p].op # "uninstall" => Installed(cmd[p])

Progress(p) == OpOK(p) /\ Checked(p) /\ Written(p) /\ OneBinary(read[p])

CleanIsQuiet == clean => \A p \in Procs : ~Inside(p)

InstallInv ==
    /\ DOMAIN todo = Procs /\ DOMAIN found = Procs
    /\ OneBinary(manifest)
    /\ \A p \in Procs : Progress(p)
    /\ CleanIsQuiet
    /\ DoctorAgrees

LEMMA NoBinaries == OneBinary(NoManifest)
  BY DEF OneBinary, Managed

\* Of the managed files of a new manifest, one is a binary.
LEMMA NewManagedOneBinary ==
    ASSUME NEW m, NEW c, NEW x \in Modes, BinPath(x) \in NewManaged(m, c)
    PROVE  x = c.mode
  BY DEF NewManaged, BinPath, SkillPath, ConfigPath

\* Nothing is claimed of a command at rest, or that has given up.
LEMMA AtRestProgress ==
    ASSUME NEW p \in Procs,
           pc'[p] \in {"idle", "lock", "refused", "failed"},
           pc'[p] = "lock" => cmd'[p].op \in {"install", "switch", "uninstall"},
           OneBinary(read[p])'
    PROVE  Progress(p)'
  BY DEF Progress, OpOK, Checked, Written, InInstall, InUninstall

\* A step of the command inside leaves the others outside.
LEMMA InsideStep ==
    ASSUME Locked, InstallInv, NEW p \in Procs, Inside(p), Within(p),
           UNCHANGED <<last, clean>>,
           DOMAIN todo' = Procs, DOMAIN found' = Procs,
           OneBinary(manifest)', Progress(p)'
    PROVE  InstallInv'
  <1>1. ASSUME NEW q \in Procs, q # p PROVE Progress(q)'
    <2>1. ~Inside(q) /\ pc'[q] = pc[q] /\ cmd'[q] = cmd[q] /\ read'[q] = read[q]
      BY <1>1 DEF Locked, Typed, Within
    <2>2. Progress(q)
      BY DEF InstallInv
    <2> QED BY <2>1, <2>2, AtRestProgress DEF Inside, Progress, OpOK, OneBinary
  <1>2. ~clean /\ ~clean'
    BY DEF InstallInv, CleanIsQuiet
  <1> QED BY <1>1, <1>2 DEF InstallInv, CleanIsQuiet, DoctorAgrees

LEMMA ManagedOf ==
    ASSUME NEW m, NEW x, x \in Managed(m)
    PROVE  m # NoManifest
  BY DEF Managed

\* Opposite maps a mode to the other one.
LEMMA Opposites ==
    ASSUME NEW m \in Modes
    PROVE  Opposite(m) \in Modes /\ Opposite(m) # m
  BY DEF Modes, Opposite

LEMMA InstallProgress ==
    ASSUME Locked, InstallInv, NEW p \in Procs, Install(p)
    PROVE  InstallInv'
  <1>0. /\ Typed /\ Within(p) /\ Inside(p) /\ Progress(p)
        /\ cmd[p].mode \in Modes /\ cmd[p].clients \in SUBSET Clients
        /\ cmd' = cmd /\ UNCHANGED <<last, clean>>
        /\ DOMAIN todo' = Procs /\ DOMAIN found' = Procs
        /\ cmd[p].op \in {"install", "switch"}
    <2>1. Within(p)
      BY StepWithin DEF Locked
    <2>2. pc[p] \in InInstall /\ UNCHANGED <<cmd, last, clean>>
      BY DEF Install, Check, CopyBinary, Configure, InstallSkill, BeginSkills,
             WriteManifest, RemoveOld, InInstall
    <2>3. DOMAIN todo' = Procs /\ DOMAIN found' = Procs
      BY DEF InstallInv, Install, Check, CopyBinary, Configure, InstallSkill,
             BeginSkills, WriteManifest, RemoveOld, Loop
    <2> QED BY <2>1, <2>2, <2>3
            DEF Locked, Typed, Begun, InstallInv, Progress, OpOK, Inside, InInstall
  <1>1. CASE Check(p)
    <2>1. OneBinary(manifest)' /\ OneBinary(read[p])'
      BY <1>0, <1>1 DEF Check, disk, InstallInv, Progress, OneBinary, Typed
    <2>2. Progress(p)'
      <3>1. CASE Refused(manifest, cmd[p])
        BY <1>0, <1>1, <2>1, <3>1, AtRestProgress DEF Check, Goto, Typed
      <3>2. CASE ~Refused(manifest, cmd[p])
        <4>1. /\ pc'[p] = "copy" /\ read'[p] = manifest /\ found'[p] = entry
              /\ UNCHANGED <<manifest, bin, entry, cmd>>
          BY <1>0, <1>1, <3>2 DEF Check, Goto, Typed, disk, InstallInv
        <4>2. /\ ~OppositeInTheWay(manifest, cmd[p])
              /\ ~EntryInTheWay(manifest, cmd[p])
          BY <3>2 DEF Refused
        <4>3. Checked(p)'
          BY <4>1, <4>2 DEF Checked, OppositeInTheWay, EntryInTheWay
        <4> QED BY <1>0, <2>1, <4>1, <4>3
                DEF Progress, OpOK, Written, InInstall, InUninstall
      <3> QED BY <3>1, <3>2
    <2> QED BY <1>0, <2>1, <2>2, InsideStep
  <1>2. CASE CopyBinary(p)
    <2>1. OneBinary(manifest)' /\ OneBinary(read[p])'
      BY <1>0, <1>2 DEF CopyBinary, InstallInv, Progress, OneBinary
    <2>2. Progress(p)'
      <3>1. CASE BinaryInTheWay(read[p], cmd[p])
        BY <1>0, <1>2, <2>1, <3>1, AtRestProgress DEF CopyBinary, Goto, Typed
      <3>2. CASE ~BinaryInTheWay(read[p], cmd[p])
        <4>1. /\ pc[p] = "copy" /\ pc'[p] = "configure"
              /\ todo'[p] = ToConfigure(p)
              /\ bin'[cmd[p].mode] = "ours"
              /\ bin'[Opposite(cmd[p].mode)] = bin[Opposite(cmd[p].mode)]
              /\ UNCHANGED <<manifest, entry, cmd, read>>
          BY <1>0, <1>2, <3>2, Opposites
             DEF CopyBinary, Goto, Loop, Typed, TypeOK, InstallInv
        <4>2. ToConfigure(p) \subseteq cmd[p].clients
              /\ \A k \in cmd[p].clients \ ToConfigure(p) : Registered(cmd[p], k)
          BY <1>0, <4>1 DEF ToConfigure, Registered, Progress, Checked, Legacy
        <4>3. Checked(p)'
          BY <1>0, <4>1 DEF Progress, Checked
        <4>4. Written(p)'
          BY <4>1, <4>2 DEF Written, Registered
        <4> QED BY <1>0, <2>1, <4>1, <4>3, <4>4
                DEF Progress, OpOK, InInstall, InUninstall
      <3> QED BY <3>1, <3>2
    <2> QED BY <1>0, <2>1, <2>2, InsideStep
  <1>3. ASSUME NEW k \in Clients, Configure(p, k) PROVE InstallInv'
    <2>1. OneBinary(manifest)' /\ OneBinary(read[p])'
      BY <1>0, <1>3 DEF Configure, InstallInv, Progress, OneBinary
    <2>2. Progress(p)'
      <3>1. CASE ForeignStops(p, k)
        BY <1>0, <1>3, <2>1, <3>1, AtRestProgress DEF Configure, Goto, Typed
      <3>2. CASE ~ForeignStops(p, k)
        <4>1. /\ pc[p] = "configure" /\ pc'[p] = "configure"
              /\ todo'[p] = todo[p] \ {k}
              /\ entry'[k] = IF cmd[p].mode = "mcp" THEN "ours" ELSE "none"
              /\ \A j \in Clients \ {k} : entry'[j] = entry[j]
              /\ UNCHANGED <<manifest, bin, cmd, read>>
          BY <1>0, <1>3, <3>2
             DEF Configure, Goto, Loop, Typed, TypeOK, InstallInv
        <4>2. Checked(p)'
          BY <1>0, <4>1 DEF Progress, Checked
        <4>3. Written(p)'
          BY <1>0, <4>1 DEF Progress, Written, Registered
        <4> QED BY <1>0, <2>1, <4>1, <4>2, <4>3
                DEF Progress, OpOK, InInstall, InUninstall
      <3> QED BY <3>1, <3>2
    <2> QED BY <1>0, <2>1, <2>2, InsideStep
  <1>4. CASE BeginSkills(p)
    <2>1. OneBinary(manifest)' /\ OneBinary(read[p])'
      BY <1>0, <1>4 DEF BeginSkills, disk, InstallInv, Progress, OneBinary
    <2>2. Progress(p)'
      <3>1. CASE SkillInTheWay(read[p], cmd[p])
        BY <1>0, <1>4, <2>1, <3>1, AtRestProgress DEF BeginSkills, Goto, Typed
      <3>2. CASE ~SkillInTheWay(read[p], cmd[p])
        <4>1. /\ pc[p] = "configure" /\ pc'[p] = "skills"
              /\ todo[p] = {} /\ todo'[p] = cmd[p].clients
              /\ UNCHANGED <<manifest, bin, skill, entry, cmd, read>>
          BY <1>0, <1>4, <3>2 DEF BeginSkills, Goto, Loop, Typed, InstallInv, disk
        <4>2. Checked(p)'
          BY <1>0, <4>1 DEF Progress, Checked
        <4>3. Written(p)'
          BY <1>0, <3>2, <4>1 DEF Progress, Written, Registered, SkillInTheWay
        <4> QED BY <1>0, <2>1, <4>1, <4>2, <4>3
                DEF Progress, OpOK, InInstall, InUninstall
      <3> QED BY <3>1, <3>2
    <2> QED BY <1>0, <2>1, <2>2, InsideStep
  <1>5. ASSUME NEW k \in Clients, InstallSkill(p, k) PROVE InstallInv'
    <2>1. OneBinary(manifest)' /\ OneBinary(read[p])'
      BY <1>0, <1>5 DEF InstallSkill, InstallInv, Progress, OneBinary
    <2>2. /\ pc[p] = "skills" /\ pc'[p] = "skills"
          /\ todo'[p] = todo[p] \ {k} /\ skill'[k] = "ours"
          /\ \A j \in Clients \ {k} : skill'[j] = skill[j]
          /\ UNCHANGED <<manifest, bin, entry, cmd, read>>
      BY <1>0, <1>5 DEF InstallSkill, Loop, Typed, TypeOK, InstallInv
    <2>3. Checked(p)'
      BY <1>0, <2>2 DEF Progress, Checked
    <2>4. Written(p)'
      BY <1>0, <2>2 DEF Progress, Written, Registered
    <2>5. Progress(p)'
      BY <1>0, <2>1, <2>2, <2>3, <2>4 DEF Progress, OpOK, InInstall, InUninstall
    <2> QED BY <1>0, <2>1, <2>5, InsideStep
  <1>6. CASE WriteManifest(p)
    <2> DEFINE new == [mode |-> cmd[p].mode, clients |-> cmd[p].clients,
                       managed |-> NewManaged(read[p], cmd[p])]
    <2>1. /\ pc[p] = "skills" /\ pc'[p] = "old" /\ todo[p] = {}
          /\ manifest' = new
          /\ UNCHANGED <<bin, skill, entry, cmd, read>>
      BY <1>0, <1>6 DEF WriteManifest, Goto, Typed
    <2>2. manifest' # NoManifest
      <3>1. InMode(read[p], "mcp") => read[p].managed \subseteq Paths
        BY <1>0 DEF Typed, ReadOK, InMode
      <3>2. NewManaged(read[p], cmd[p]) \subseteq Paths
        BY <1>0, <3>1, NewManagedOK
      <3>3. new \in Manifests
        BY <1>0, <3>2 DEF Manifests
      <3> QED BY <2>1, <3>3, ManifestAssumption
    <2>3. /\ manifest'.mode = cmd[p].mode /\ manifest'.clients = cmd[p].clients
          /\ Managed(manifest)' = NewManaged(read[p], cmd[p])
      BY <2>1, <2>2 DEF Managed
    <2> HIDE DEF new
    <2>4. OneBinary(manifest)' /\ OneBinary(read[p])'
      BY <1>0, <2>1, <2>3, NewManagedOneBinary DEF Progress, OneBinary
    <2>5. Checked(p)'
      BY <1>0, <2>1 DEF Progress, Checked
    <2>6. Written(p)'
      BY <1>0, <2>1, <2>2, <2>3 DEF Progress, Written, Registered
    <2>7. Progress(p)'
      BY <1>0, <2>1, <2>4, <2>5, <2>6 DEF Progress, OpOK, InInstall, InUninstall
    <2> QED BY <1>0, <2>4, <2>7, InsideStep
  <1>7. CASE RemoveOld(p)
    <2>1. OneBinary(manifest)' /\ OneBinary(read[p])'
      BY <1>0, <1>7 DEF RemoveOld, InstallInv, Progress, OneBinary
    <2>2. /\ pc[p] = "old" /\ pc'[p] = "ok"
          /\ UNCHANGED <<manifest, skill, entry, cmd, read>>
      BY <1>0, <1>7 DEF RemoveOld, Goto, Typed
    <2> DEFINE opp == Opposite(cmd[p].mode)
    <2>3. bin'[cmd[p].mode] = "ours" /\ bin'[opp] = "none"
      <3>0. /\ opp \in Modes /\ opp # cmd[p].mode /\ bin[cmd[p].mode] = "ours"
            /\ bin \in [Modes -> {"none", "foreign", "ours"}]
        BY <1>0, <2>2, Opposites DEF Progress, Written, Typed, TypeOK
      <3>1. CASE InMode(read[p], opp) /\ BinPath(read[p].mode) \in Managed(read[p])
        BY <1>7, <3>0, <3>1 DEF RemoveOld, InMode
      <3>2. CASE ~(InMode(read[p], opp) /\ BinPath(read[p].mode) \in Managed(read[p]))
        <4>1. BinPath(opp) \notin Managed(read[p])
          BY <1>0, <3>0, <3>2, ManagedOf DEF Progress, OneBinary, InMode
        <4>2. bin[opp] = "none"
          BY <1>0, <2>2, <4>1 DEF Progress, Checked
        <4> QED BY <1>7, <3>0, <3>2, <4>2 DEF RemoveOld
      <3> QED BY <3>1, <3>2
    <2>4. Installed(cmd[p])'
      BY <1>0, <2>2, <2>3 DEF Progress, Written, Installed, Registered
    <2>5. Progress(p)'
      BY <1>0, <2>1, <2>2, <2>4
         DEF Progress, OpOK, Checked, Written, InInstall, InUninstall
    <2> QED BY <1>0, <2>1, <2>5, InsideStep
  <1> QED BY <1>1, <1>2, <1>3, <1>4, <1>5, <1>6, <1>7 DEF Install

LEMMA UninstallProgress ==
    ASSUME Locked, InstallInv, NEW p \in Procs, Uninstall(p)
    PROVE  InstallInv'
  <1>1. /\ Within(p) /\ Typed /\ Progress(p)
        /\ pc[p] \in InUninstall /\ UNCHANGED <<cmd, last, clean, found>>
        /\ DOMAIN todo' = Procs
    <2>1. Within(p)
      BY StepWithin DEF Locked
    <2>2. pc[p] \in InUninstall /\ UNCHANGED <<cmd, last, clean, found>>
      BY DEF Uninstall, BeginUninstall, Unregister, BeginRemoval, RemoveManaged,
             Purge, RemoveManifest, InUninstall
    <2>3. DOMAIN todo' = Procs
      BY DEF InstallInv, Uninstall, BeginUninstall, Unregister, BeginRemoval,
             RemoveManaged, Purge, RemoveManifest, Loop
    <2> QED BY <2>1, <2>2, <2>3 DEF Locked, InstallInv
  <1>2. pc'[p] \in InUninstall \union {"refused", "ok"}
    BY <1>1 DEF Uninstall, BeginUninstall, Unregister, BeginRemoval, RemoveManaged,
           Purge, RemoveManifest, InUninstall, Goto, Typed
  <1>3. OneBinary(manifest)'
    <2>1. manifest' = manifest \/ manifest' = NoManifest
      BY DEF Uninstall, BeginUninstall, Unregister, BeginRemoval, RemoveManaged,
             Purge, RemoveManifest, disk
    <2> QED BY <2>1, NoBinaries DEF InstallInv, OneBinary
  <1>4. OneBinary(read[p])'
    <2>1. read'[p] = read[p] \/ read'[p] = manifest
      BY <1>1 DEF Within, Typed
    <2> QED BY <1>1, <2>1 DEF InstallInv, Progress, OneBinary
  <1>5. Progress(p)'
    BY <1>1, <1>2, <1>4
       DEF Progress, OpOK, Checked, Written, InInstall, InUninstall
  <1>6. Inside(p)
    BY <1>1 DEF Inside, InUninstall
  <1> QED BY <1>1, <1>3, <1>5, <1>6, InsideStep DEF InstallInv

\* A command ends.
LEMMA EndedProgress ==
    ASSUME Locked, InstallInv, NEW p \in Procs, NEW r, Ended(p, r), UNCHANGED disk,
           r = "ok" => pc[p] = "ok"
    PROVE  InstallInv'
  <1>1. /\ Typed /\ pc'[p] = "idle" /\ read'[p] = NoManifest
        /\ DOMAIN todo' = Procs /\ DOMAIN found' = Procs
        /\ last'.op = cmd[p].op /\ (clean' => r = "ok")
        /\ \A q \in Procs \ {p} :
            /\ pc'[q] = pc[q] /\ cmd'[q] = cmd[q] /\ read'[q] = read[q]
            /\ found'[q] = found[q] /\ todo'[q] = todo[q]
    BY DEF Ended, Goto, Loop, Locked, Typed, InstallInv
  <1>2. Progress(p)'
    BY <1>1, NoBinaries, AtRestProgress DEF OneBinary, Managed
  <1>3. ASSUME NEW q \in Procs \ {p} PROVE Progress(q)'
    <2>1. Progress(q)
      BY DEF InstallInv
    <2> QED BY <1>1, <1>3, <2>1
            DEF disk, Progress, OpOK, Checked, Written, Installed, Registered, OneBinary
  <1>4. OneBinary(manifest)'
    BY DEF InstallInv, OneBinary, disk
  <1>5. CleanIsQuiet'
    BY <1>1 DEF CleanIsQuiet, Inside, Locked
  <1>6. DoctorAgrees'
    <2> SUFFICES ASSUME clean', last'.op \in {"install", "switch"}
                 PROVE  DoctorAgrees!2'
      BY DEF DoctorAgrees
    <2>1. Installed(cmd[p])
      BY <1>1 DEF InstallInv, Progress, Written
    <2>2. Installed(cmd[p]) => DoctorAgrees!2
      BY DEF Installed, Registered, RunDoctor, Opposite
    <2> QED BY <2>1, <2>2 DEF disk, RunDoctor
  <1> QED BY <1>1, <1>2, <1>3, <1>4, <1>5, <1>6 DEF InstallInv

LEMMA InstallStep ==
    ASSUME ~EditsAnytime
    PROVE  Locked /\ InstallInv /\ [Next]_vars => InstallInv'
  <1> SUFFICES ASSUME Locked, InstallInv, [Next]_vars PROVE InstallInv'
    OBVIOUS
  <1>0. Typed
    BY DEF Locked
  <1>1. ASSUME NEW p \in Procs, Begin(p) PROVE InstallInv'
    <2>1. /\ pc' = [pc EXCEPT ![p] = "lock"] /\ pc[p] = "idle"
          /\ UNCHANGED <<disk, read, found, todo, last, clean>>
      BY <1>1 DEF Begin, Goto
    <2>2. cmd'[p].op \in {"install", "switch", "uninstall"}
          /\ \A q \in Procs \ {p} : cmd'[q] = cmd[q]
      BY <1>0, <1>1 DEF Begin, Typed
    <2>3. ASSUME NEW q \in Procs PROVE Progress(q)'
      <3>1. Progress(q)
        BY DEF InstallInv
      <3>2. CASE q = p
        BY <1>0, <2>1, <2>2, <3>1, <3>2, AtRestProgress
           DEF Typed, Progress, OneBinary
      <3>3. CASE q # p
        BY <1>0, <2>1, <2>2, <3>1, <3>3
           DEF Typed, disk, Progress, OpOK, Checked, Written, Installed, Registered,
               OneBinary
      <3> QED BY <3>2, <3>3
    <2>4. CleanIsQuiet'
      BY <1>0, <2>1 DEF InstallInv, CleanIsQuiet, Inside, Typed
    <2> QED BY <2>1, <2>3, <2>4
            DEF InstallInv, disk, OneBinary, DoctorAgrees, RunDoctor
  <1>2. ASSUME NEW p \in Procs, TakeLock(p) \/ Fault(p) PROVE InstallInv'
    <2>1. /\ UNCHANGED <<disk, cmd, read, found, todo, last>>
          /\ pc'[p] \in {"uninstall", "check", "failed"}
          /\ \A q \in Procs \ {p} : pc'[q] = pc[q]
      BY <1>0, <1>2 DEF TakeLock, Fault, Goto, Typed
    <2>2. ~clean'
      <3>1. CASE TakeLock(p)
        BY <3>1 DEF TakeLock
      <3>2. CASE Fault(p)
        BY <3>2 DEF Fault, Writing, InstallInv, CleanIsQuiet, Inside
      <3> QED BY <1>2, <3>1, <3>2
    <2>3. ASSUME NEW q \in Procs PROVE Progress(q)'
      <3>1. Progress(q)
        BY DEF InstallInv
      <3>2. CASE q = p
        <4>1. OpOK(p)'
          BY <1>0, <1>2, <2>1, <3>1, <3>2
             DEF TakeLock, Fault, Goto, Typed, Progress, OpOK, InInstall, InUninstall
        <4> QED BY <2>1, <3>1, <3>2, <4>1
                DEF Progress, Checked, Written, OneBinary
      <3>3. CASE q # p
        BY <2>1, <3>1, <3>3
           DEF disk, Progress, OpOK, Checked, Written, Installed, Registered, OneBinary
      <3> QED BY <3>2, <3>3
    <2> QED BY <2>1, <2>2, <2>3
            DEF InstallInv, disk, OneBinary, CleanIsQuiet, DoctorAgrees
  <1>3. ASSUME NEW p \in Procs, Install(p) \/ Uninstall(p) PROVE InstallInv'
    BY <1>3, InstallProgress, UninstallProgress
  <1>4. ASSUME NEW p \in Procs, InProgress(p) \/ Unlock(p) \/ Crash(p) PROVE InstallInv'
    <2>1. PICK r : Ended(p, r) /\ (r = "ok" => pc[p] = "ok")
      BY <1>4 DEF InProgress, Unlock, Crash
    <2>2. UNCHANGED disk
      BY <1>4 DEF InProgress, Unlock, Crash
    <2> QED BY <2>1, <2>2, EndedProgress
  <1>5. CASE Edit
    <2>1. /\ \A p \in Procs : pc[p] = "idle"
          /\ UNCHANGED <<manifest, command>> /\ ~clean'
      BY <1>5 DEF Edit
    <2>2. ASSUME NEW q \in Procs PROVE Progress(q)'
      <3>1. pc'[q] = "idle" /\ OneBinary(read[q])'
        BY <2>1 DEF command, InstallInv, Progress, OneBinary
      <3> QED BY <3>1, AtRestProgress
    <2> QED BY <2>1, <2>2
            DEF command, InstallInv, OneBinary, CleanIsQuiet, DoctorAgrees
  <1>6. CASE UNCHANGED vars
    BY <1>6 DEF vars, disk, command, InstallInv, OneBinary, Progress, OpOK, Checked,
       Written, Installed, Registered, CleanIsQuiet, Inside, DoctorAgrees, RunDoctor
  <1> QED BY <1>1, <1>2, <1>3, <1>4, <1>5, <1>6 DEF Next, Step

LEMMA InstallInit == Init => InstallInv
  <1> SUFFICES ASSUME Init PROVE InstallInv
    OBVIOUS
  <1>1. DOMAIN todo = Procs /\ DOMAIN found = Procs /\ ~clean
    BY DEF Init
  <1>2. OneBinary(manifest) /\ \A p \in Procs : OneBinary(read[p])
    BY NoBinaries DEF Init
  <1>3. \A p \in Procs : Progress(p)
    BY <1>2 DEF Init, Progress, OpOK, Checked, Written, InInstall, InUninstall
  <1> QED BY <1>1, <1>2, <1>3 DEF InstallInv, CleanIsQuiet, DoctorAgrees

LEMMA InstallInvariant ==
    ASSUME ~Purges, ~EditsAnytime
    PROVE  Spec => [](Locked /\ InstallInv)
  <1>1. Locked /\ InstallInv /\ [Next]_vars => (Locked /\ InstallInv)'
    BY LockedStep, InstallStep
  <1> QED BY <1>1, LockedInit, InstallInit, PTL DEF Spec

\* An installation or a switch that says it went well leaves what the doctor
\* looks for, and in CLI mode no entry for the binary, whatever had failed or
\* been killed before and whatever clients are named each time.
THEOREM DoctorIsRight ==
    ASSUME ~Purges, ~EditsAnytime
    PROVE  Spec => []DoctorAgrees
  <1>1. InstallInv => DoctorAgrees
    BY DEF InstallInv
  <1> QED BY <1>1, InstallInvariant, PTL

\* No command, the forced switch included, changes an entry that is not
\* Ghostchrome's, and none but a switch a skill the user has written.
THEOREM UserFilesAreKept ==
    ASSUME ~Purges, ~EditsAnytime
    PROVE  Spec => UserFilesStay
  <1> DEFINE EntryStays(k) ==
        (\E p \in Procs : Step(p)) /\ entry[k] = "foreign" => entry'[k] = "foreign"
             SkillStays(k, p) ==
        /\ Step(p)
        /\ skill[k] = "edited"
        /\ \/ cmd[p].op = "uninstall"
           \/ cmd[p].op = "install" /\ SkillPath(k) \notin Managed(read[p])
        => skill'[k] = "edited"
  <1>1. ASSUME Locked, InstallInv, NEW k \in Clients PROVE EntryStays(k)
    <2> SUFFICES ASSUME NEW p \in Procs, Step(p), entry[k] = "foreign"
                 PROVE  entry'[k] = "foreign"
      OBVIOUS
    <2>0. Progress(p) /\ entry \in [Clients -> Entries]
      BY <1>1 DEF InstallInv, Locked, Typed, TypeOK
    <2>1. ASSUME NEW j \in Clients, Configure(p, j) PROVE entry'[k] = "foreign"
      <3>1. j \in cmd[p].clients /\ entry[j] # "foreign"
        BY <2>0, <2>1 DEF Configure, Progress, Checked, Written
      <3> QED BY <2>0, <2>1, <3>1 DEF Configure
    <2>2. ASSUME NEW j \in Clients, Unregister(p, j) PROVE entry'[k] = "foreign"
      BY <2>0, <2>2 DEF Unregister
    <2>3. CASE UNCHANGED entry
      BY <2>3
    <2> QED BY <2>1, <2>2, <2>3
            DEF Step, TakeLock, InProgress, Install, Uninstall, Unlock, Check,
                CopyBinary, InstallSkill, BeginSkills, WriteManifest, RemoveOld,
                BeginUninstall, BeginRemoval, RemoveManaged, Purge,
                RemoveManifest, disk
  <1>2. ASSUME Locked, InstallInv, NEW k \in Clients, NEW p \in Procs
        PROVE  SkillStays(k, p)
    <2> SUFFICES ASSUME Step(p), skill[k] = "edited",
                        \/ cmd[p].op = "uninstall"
                        \/ /\ cmd[p].op = "install"
                           /\ SkillPath(k) \notin Managed(read[p])
                 PROVE  skill'[k] = "edited"
      OBVIOUS
    <2>0. Progress(p) /\ skill \in [Clients -> {"none", "edited", "ours"}]
      BY <1>2 DEF InstallInv, Locked, Typed, TypeOK
    <2>1. ASSUME NEW j \in Clients, InstallSkill(p, j) PROVE skill'[k] = "edited"
      <3>1. pc[p] = "skills" /\ j \in cmd[p].clients
            /\ cmd[p].op \in {"install", "switch"}
        BY <2>0, <2>1 DEF InstallSkill, Progress, Written, OpOK, InInstall
      <3>2. j # k
        BY <2>0, <3>1 DEF Progress, Written, Forced
      <3> QED BY <2>0, <2>1, <3>2 DEF InstallSkill
    <2>2. ASSUME NEW f \in Paths, RemoveManaged(p, f) PROVE skill'[k] = "edited"
      BY <2>2 DEF RemoveManaged
    <2>3. CASE UNCHANGED skill
      BY <2>3
    <2> QED BY <2>1, <2>2, <2>3
            DEF Step, TakeLock, InProgress, Install, Uninstall, Unlock, Check,
                CopyBinary, Configure, BeginSkills, WriteManifest, RemoveOld,
                BeginUninstall, Unregister, BeginRemoval, Purge,
                RemoveManifest, disk
  <1>3. Locked /\ InstallInv => [\A k \in Clients : EntryStays(k)]_vars
    BY <1>1
  <1>4. Locked /\ InstallInv => [\A k \in Clients, p \in Procs : SkillStays(k, p)]_vars
    BY <1>2
  <1>5. Spec => [][\A k \in Clients : EntryStays(k)]_vars
    BY <1>3, InstallInvariant, PTL
  <1>6. Spec => [][\A k \in Clients, p \in Procs : SkillStays(k, p)]_vars
    BY <1>4, InstallInvariant, PTL
  <1> QED BY <1>5, <1>6 DEF UserFilesStay, ForeignEntriesStay, EditedSkillsStay

(***************************************************************************)
(* What an uninstall that says it went well has left.  While the lock is   *)
(* free, all that is the installation's is in the manifest, and an         *)
(* uninstall works its way through it; one that fails midway leaves a      *)
(* manifest that still has all of the rest.                                *)
(***************************************************************************)

\* What is the installation's is what the manifest m lists.
CoveredBy(m) ==
    /\ \A x \in Modes : bin[x] = "ours" => BinPath(x) \in Managed(m)
    /\ \A k \in Clients : skill[k] = "ours" => SkillPath(k) \in Managed(m)
    /\ \A k \in Clients : entry[k] = "ours" => InMode(m, "mcp")

NothingOurs ==
    /\ \A x \in Modes : bin[x] # "ours"
    /\ \A k \in Clients : skill[k] # "ours" /\ entry[k] # "ours"

\* The clients are always the same ones.
SameClients(p) == pc[p] # "idle" => cmd[p].clients = Clients
ManifestClients == manifest # NoManifest => manifest.clients = Clients

\* An installation writes where nothing has changed since its preflight.
Installing(p) ==
    /\ pc[p] \in {"copy", "configure"} => ~SkillInTheWay(read[p], cmd[p])
    /\ pc[p] = "old" => \A k \in Clients : SkillPath(k) \in Managed(manifest)

\* What an uninstall has still to remove is what its loop has still to do.
Removing(p) ==
    /\ pc[p] = "unregister" =>
        /\ read[p] = manifest
        /\ \A k \in Clients : entry[k] = "ours" => k \in todo[p]
    /\ pc[p] = "remove" =>
        /\ \A x \in Modes : bin[x] = "ours" => BinPath(x) \in todo[p]
        /\ \A k \in Clients : skill[k] = "ours" => SkillPath(k) \in todo[p]
        /\ \A k \in Clients : entry[k] # "ours"
    /\ pc[p] = "forget" => NothingOurs
    /\ pc[p] = "ok" /\ cmd[p].op = "uninstall" => NothingOurs

Covering(p) ==
    pc[p] \in {"check", "copy", "uninstall", "unregister", "remove", "forget",
               "refused", "failed", "ok"} => CoveredBy(manifest)

Owns(p) == SameClients(p) /\ Installing(p) /\ Removing(p) /\ Covering(p)

RemoveInv ==
    /\ ManifestClients
    /\ lock = NoProc => CoveredBy(manifest)
    /\ \A p \in Procs : Owns(p)
    /\ NothingLeft

\* Where an uninstall may fail and be repeated, the rest being well.
OnlyUninstallFails ==
    ~Purges /\ ~EditsAnytime /\ ~ClientsChange /\ Faulty \subseteq {"uninstall"}

LEMMA RemoveInit == Init => RemoveInv
  <1> SUFFICES ASSUME Init PROVE RemoveInv
    OBVIOUS
  <1>1. CoveredBy(manifest)
    BY DEF Init, CoveredBy
  <1>2. \A p \in Procs : Owns(p)
    BY DEF Init, Owns, SameClients, Installing, Removing, Covering
  <1> QED BY <1>1, <1>2 DEF Init, RemoveInv, ManifestClients, NothingLeft

\* A step of the command inside: the others are outside, and nothing is claimed
\* of an uninstall that is over.
LEMMA OwnerMoves ==
    ASSUME Locked, InstallInv, RemoveInv, NEW p \in Procs, Inside(p), Within(p),
           UNCHANGED <<lock, last, clean>>, Owns(p)', ManifestClients'
    PROVE  RemoveInv'
  <1>1. ASSUME NEW q \in Procs, q # p PROVE Owns(q)'
    <2>1. ~Inside(q) /\ pc'[q] = pc[q] /\ cmd'[q] = cmd[q]
      BY <1>1 DEF Locked, Typed, Within
    <2>2. Owns(q)
      BY DEF RemoveInv
    <2> QED BY <2>1, <2>2
            DEF Inside, Owns, SameClients, Installing, Removing, Covering
  <1>2. ~clean'
    BY DEF InstallInv, CleanIsQuiet
  <1>3. lock' # NoProc
    BY SetupAssumption DEF Locked
  <1> QED BY <1>1, <1>2, <1>3 DEF RemoveInv, NothingLeft

LEMMA InstallOwns ==
    ASSUME OnlyUninstallFails, Locked, InstallInv, Locked', InstallInv', RemoveInv,
           NEW p \in Procs, Install(p)
    PROVE  RemoveInv'
  <1>0. /\ Typed /\ Typed' /\ Within(p) /\ Inside(p) /\ Progress(p) /\ Progress(p)'
        /\ Owns(p) /\ cmd[p].clients = Clients /\ cmd' = cmd
        /\ UNCHANGED <<lock, last, clean>> /\ cmd[p].op \in {"install", "switch"}
    <2>1. Within(p)
      BY StepWithin DEF Locked
    <2>2. pc[p] \in InInstall /\ UNCHANGED <<lock, cmd, last, clean>>
      BY DEF Install, Check, CopyBinary, Configure, InstallSkill, BeginSkills,
             WriteManifest, RemoveOld, InInstall
    <2> QED BY <2>1, <2>2
            DEF Locked, InstallInv, Progress, OpOK, Inside, InInstall, RemoveInv,
                Owns, SameClients
  <1>1. CASE Check(p)
    <2>1. /\ pc'[p] \in {"refused", "copy"} /\ UNCHANGED disk
          /\ pc'[p] = "copy" => ~SkillInTheWay(manifest, cmd[p]) /\ read'[p] = manifest
      BY <1>0, <1>1 DEF Check, Goto, Typed, Refused
    <2>2. Owns(p)'
      <3>1. pc[p] = "check"
        BY <1>1 DEF Check
      <3> QED BY <1>0, <2>1, <3>1
              DEF disk, Owns, SameClients, Installing, Removing, Covering, CoveredBy,
                  SkillInTheWay
    <2> QED BY <1>0, <2>1, <2>2, OwnerMoves DEF disk, RemoveInv, ManifestClients
  <1>2. CASE CopyBinary(p)
    <2>1. /\ pc[p] = "copy" /\ pc'[p] \in {"refused", "configure"}
          /\ UNCHANGED <<manifest, skill, entry>> /\ read'[p] = read[p]
          /\ pc'[p] = "refused" => UNCHANGED bin
      BY <1>0, <1>2 DEF CopyBinary, Goto, Typed
    <2>2. Owns(p)'
      BY <1>0, <2>1 DEF Owns, SameClients, Installing, Removing, Covering, CoveredBy,
         SkillInTheWay
    <2> QED BY <1>0, <2>1, <2>2, OwnerMoves DEF RemoveInv, ManifestClients
  <1>3. ASSUME NEW k \in Clients, Configure(p, k) PROVE RemoveInv'
    <2>1. ~ForeignStops(p, k)
      BY <1>0, <1>3 DEF Configure, ForeignStops, Progress, Checked
    <2>2. /\ pc[p] = "configure" /\ pc'[p] = "configure"
          /\ UNCHANGED <<manifest, skill>> /\ read'[p] = read[p]
      BY <1>3, <2>1 DEF Configure
    <2>3. Owns(p)'
      BY <1>0, <2>2 DEF Owns, SameClients, Installing, Removing, Covering,
         SkillInTheWay
    <2> QED BY <1>0, <2>2, <2>3, OwnerMoves DEF RemoveInv, ManifestClients
  <1>4. CASE BeginSkills(p)
    <2>1. ~SkillInTheWay(read[p], cmd[p])
      BY <1>0, <1>4 DEF BeginSkills, Owns, Installing
    <2>2. pc'[p] = "skills" /\ UNCHANGED manifest
      BY <1>0, <1>4, <2>1 DEF BeginSkills, Goto, Typed, disk
    <2>3. Owns(p)'
      BY <1>0, <2>2 DEF Owns, SameClients, Installing, Removing, Covering
    <2> QED BY <1>0, <2>2, <2>3, OwnerMoves DEF RemoveInv, ManifestClients
  <1>5. ASSUME NEW k \in Clients, InstallSkill(p, k) PROVE RemoveInv'
    <2>1. pc'[p] = "skills" /\ UNCHANGED manifest
      BY <1>5 DEF InstallSkill
    <2>2. Owns(p)'
      BY <1>0, <2>1 DEF Owns, SameClients, Installing, Removing, Covering
    <2> QED BY <1>0, <2>1, <2>2, OwnerMoves DEF RemoveInv, ManifestClients
  <1>6. CASE WriteManifest(p)
    <2>1. /\ pc'[p] = "old" /\ manifest'.clients = Clients
          /\ manifest'.managed = NewManaged(read[p], cmd[p])
      BY <1>0, <1>6 DEF WriteManifest, Goto, Typed
    <2>2. manifest' # NoManifest
      BY <1>0, <2>1 DEF Progress, Written
    <2>3. \A k \in Clients : SkillPath(k) \in Managed(manifest)'
      BY <1>0, <2>1, <2>2 DEF Managed, NewManaged
    <2>4. Owns(p)'
      BY <1>0, <2>1, <2>3 DEF Owns, SameClients, Installing, Removing, Covering
    <2> QED BY <1>0, <2>1, <2>4, OwnerMoves DEF ManifestClients
  <1>7. CASE RemoveOld(p)
    <2>1. /\ pc[p] = "old" /\ pc'[p] = "ok" /\ UNCHANGED manifest
      BY <1>0, <1>7 DEF RemoveOld, Goto, Typed
    <2>2. Installed(cmd[p])'
      BY <1>0, <2>1 DEF Progress, Written
    <2>3. /\ \A k \in Clients : SkillPath(k) \in Managed(manifest)'
          /\ BinPath(manifest.mode)' \in Managed(manifest)'
      BY <1>0, <2>1, <2>2 DEF Owns, Installing, Installed, Typed, TypeOK, Managed
    <2>4. CoveredBy(manifest)'
      <3>1. cmd[p].mode \in Modes
        BY <1>0 DEF Typed, Begun
      <3>2. \A x \in Modes : x = cmd[p].mode \/ x = Opposite(cmd[p].mode)
        BY <3>1 DEF Modes, Opposite
      <3>3. /\ manifest' # NoManifest /\ manifest'.mode = cmd[p].mode
            /\ bin'[Opposite(cmd[p].mode)] = "none"
            /\ \A k \in Clients : Registered(cmd[p], k)'
        BY <1>0, <2>2 DEF Installed
      <3>4. \A x \in Modes : bin'[x] = "ours" => BinPath(x) \in Managed(manifest)'
        BY <2>3, <3>2, <3>3
      <3>5. \A k \in Clients : entry'[k] = "ours" => InMode(manifest, "mcp")'
        BY <1>0, <3>1, <3>3 DEF Registered, InMode, Modes
      <3> QED BY <2>3, <3>4, <3>5 DEF CoveredBy
    <2>5. Owns(p)'
      BY <1>0, <2>1, <2>4 DEF Owns, SameClients, Installing, Removing, Covering
    <2> QED BY <1>0, <2>1, <2>5, OwnerMoves DEF RemoveInv, ManifestClients
  <1> QED BY <1>1, <1>2, <1>3, <1>4, <1>5, <1>6, <1>7 DEF Install

LEMMA UninstallOwns ==
    ASSUME OnlyUninstallFails, Locked, InstallInv, RemoveInv, NEW p \in Procs,
           Uninstall(p)
    PROVE  RemoveInv'
  <1>0. /\ Typed /\ Within(p) /\ Inside(p) /\ Progress(p)
        /\ Owns(p) /\ ~cmd[p].purge /\ cmd' = cmd
        /\ UNCHANGED <<lock, last, clean>> /\ cmd[p].clients = Clients
        /\ DOMAIN todo = Procs /\ ManifestClients
        /\ bin \in [Modes -> {"none", "foreign", "ours"}]
        /\ skill \in [Clients -> {"none", "edited", "ours"}]
        /\ entry \in [Clients -> Entries]
    <2>1. Within(p)
      BY StepWithin DEF Locked
    <2>2. pc[p] \in InUninstall /\ UNCHANGED <<lock, cmd, last, clean>>
      BY DEF Uninstall, BeginUninstall, Unregister, BeginRemoval, RemoveManaged,
             Purge, RemoveManifest, InUninstall, Locked
    <2> QED BY <2>1, <2>2 DEF Locked, InstallInv, Inside, InUninstall, RemoveInv,
            Owns, SameClients, Typed, TypeOK
  <1>1. CASE BeginUninstall(p)
    <2>1. /\ pc[p] = "uninstall" /\ pc'[p] \in {"refused", "unregister"}
          /\ UNCHANGED disk
          /\ pc'[p] = "unregister" =>
                /\ read'[p] = manifest
                /\ todo'[p] = IF manifest.mode = "mcp" THEN manifest.clients ELSE {}
      BY <1>0, <1>1 DEF BeginUninstall, Goto, Loop, Typed
    <2>2. CoveredBy(manifest)
      BY <1>0, <2>1 DEF Owns, Covering
    <2>3. Removing(p)'
      BY <1>0, <2>1, <2>2 DEF Removing, CoveredBy, InMode, ManifestClients, disk
    <2>4. Owns(p)'
      BY <1>0, <2>1, <2>2, <2>3
         DEF disk, Owns, SameClients, Installing, Covering, CoveredBy
    <2> QED BY <1>0, <2>1, <2>4, OwnerMoves DEF disk, ManifestClients
  <1>2. ASSUME NEW k \in Clients, Unregister(p, k) PROVE RemoveInv'
    <2>1. /\ pc[p] = "unregister" /\ pc'[p] = "unregister" /\ read' = read
          /\ UNCHANGED <<manifest, bin, skill>>
          /\ todo'[p] = todo[p] \ {k} /\ entry'[k] # "ours"
          /\ \A j \in Clients : j # k => entry'[j] = entry[j]
      BY <1>0, <1>2 DEF Unregister, Loop
    <2>2. CoveredBy(manifest)'
      BY <1>0, <2>1 DEF Owns, Covering, CoveredBy
    <2>3. Owns(p)'
      BY <1>0, <2>1, <2>2 DEF Owns, SameClients, Installing, Removing, Covering
    <2> QED BY <1>0, <2>1, <2>3, OwnerMoves DEF ManifestClients
  <1>3. CASE BeginRemoval(p)
    <2>1. /\ pc[p] = "unregister" /\ pc'[p] = "remove" /\ todo[p] = {}
          /\ todo'[p] = read[p].managed \ {ConfigPath(k) : k \in Clients}
          /\ UNCHANGED disk
      BY <1>0, <1>3 DEF BeginRemoval, Goto, Loop, Typed
    <2>2. /\ CoveredBy(manifest) /\ read[p] = manifest
          /\ \A k \in Clients : entry[k] # "ours"
      BY <1>0, <2>1 DEF Owns, Covering, Removing
    <2>3. \A x \in Modes : bin[x] = "ours" => BinPath(x) \in todo'[p]
      BY <2>1, <2>2 DEF CoveredBy, Managed, BinPath, ConfigPath
    <2>4. \A k \in Clients : skill[k] = "ours" => SkillPath(k) \in todo'[p]
      BY <2>1, <2>2 DEF CoveredBy, Managed, SkillPath, ConfigPath
    <2>5. Owns(p)'
      BY <1>0, <2>1, <2>2, <2>3, <2>4
         DEF disk, Owns, SameClients, Installing, Removing, Covering, CoveredBy
    <2> QED BY <1>0, <2>1, <2>5, OwnerMoves DEF disk, ManifestClients
  <1>4. ASSUME NEW f \in Paths, RemoveManaged(p, f) PROVE RemoveInv'
    <2>1. /\ pc[p] = "remove" /\ pc'[p] = "remove" /\ todo'[p] = todo[p] \ {f}
          /\ UNCHANGED <<manifest, entry>>
          /\ \A k \in Clients : skill'[k] = "ours" => skill[k] = "ours" /\ f # SkillPath(k)
          /\ \A x \in Modes : bin'[x] = "ours" => bin[x] = "ours" /\ f # BinPath(x)
      BY <1>0, <1>4 DEF RemoveManaged, Loop
    <2>2. CoveredBy(manifest)'
      BY <1>0, <2>1 DEF Owns, Covering, CoveredBy
    <2>3. Owns(p)'
      BY <1>0, <2>1, <2>2 DEF Owns, SameClients, Installing, Removing, Covering
    <2> QED BY <1>0, <2>1, <2>3, OwnerMoves DEF ManifestClients
  <1>5. CASE Purge(p)
    <2>1. /\ pc[p] = "remove" /\ pc'[p] = "forget" /\ todo[p] = {} /\ UNCHANGED disk
      BY <1>0, <1>5 DEF Purge, Goto, Typed, disk
    <2>2. NothingOurs /\ CoveredBy(manifest)
      BY <1>0, <2>1 DEF Owns, Removing, Covering, NothingOurs
    <2>3. Owns(p)'
      BY <1>0, <2>1, <2>2
         DEF disk, Owns, SameClients, Installing, Removing, Covering, CoveredBy,
             NothingOurs
    <2> QED BY <1>0, <2>1, <2>3, OwnerMoves DEF disk, ManifestClients
  <1>6. CASE RemoveManifest(p)
    <2>1. /\ pc[p] = "forget" /\ pc'[p] = "ok" /\ UNCHANGED <<bin, skill, entry>>
          /\ manifest' = NoManifest
      BY <1>0, <1>6 DEF RemoveManifest, Goto, Typed
    <2>2. NothingOurs
      BY <1>0, <2>1 DEF Owns, Removing
    <2>3. Owns(p)'
      BY <1>0, <2>1, <2>2
         DEF Owns, SameClients, Installing, Removing, Covering, CoveredBy, NothingOurs
    <2> QED BY <1>0, <2>1, <2>3, OwnerMoves DEF ManifestClients
  <1> QED BY <1>1, <1>2, <1>3, <1>4, <1>5, <1>6 DEF Uninstall

LEMMA RemoveStep ==
    ASSUME OnlyUninstallFails
    PROVE  Locked /\ InstallInv /\ RemoveInv /\ [Next]_vars => RemoveInv'
  <1> SUFFICES ASSUME Locked, InstallInv, RemoveInv, [Next]_vars PROVE RemoveInv'
    OBVIOUS
  <1>0. Typed /\ Locked' /\ InstallInv' /\ Typed'
    BY LockedStep, InstallStep DEF Locked, OnlyUninstallFails
  <1>a. ASSUME NEW p \in Procs, UNCHANGED disk,
               \A q \in Procs \ {p} : /\ pc'[q] = pc[q] /\ cmd'[q] = cmd[q]
                                      /\ read'[q] = read[q] /\ todo'[q] = todo[q]
        PROVE  /\ ManifestClients' /\ (CoveredBy(manifest) => CoveredBy(manifest)')
               /\ \A q \in Procs \ {p} : Owns(q)'
    <2>1. ASSUME NEW q \in Procs \ {p} PROVE Owns(q)'
      <3>1. Owns(q)
        BY DEF RemoveInv
      <3> QED BY <1>a, <2>1, <3>1
              DEF disk, Owns, SameClients, Installing, Removing, Covering, CoveredBy,
                  SkillInTheWay, NothingOurs
    <2> QED BY <1>a, <2>1 DEF disk, RemoveInv, ManifestClients, CoveredBy
  <1>1. ASSUME NEW p \in Procs, Begin(p) PROVE RemoveInv'
    <2>1. /\ pc'[p] = "lock" /\ UNCHANGED <<lock, last, clean>> /\ UNCHANGED disk
          /\ \A q \in Procs \ {p} : /\ pc'[q] = pc[q] /\ cmd'[q] = cmd[q]
                                    /\ read'[q] = read[q] /\ todo'[q] = todo[q]
      BY <1>0, <1>1 DEF Begin, Goto, Typed
    <2>2. cmd'[p].clients = Clients
      BY <1>0, <1>1 DEF Begin, Typed, OnlyUninstallFails, RemoveInv, ManifestClients
    <2>3. Owns(p)'
      BY <2>1, <2>2 DEF Owns, SameClients, Installing, Removing, Covering
    <2> QED BY <1>a, <2>1, <2>3 DEF RemoveInv, NothingLeft, disk
  <1>2. ASSUME NEW p \in Procs, TakeLock(p) PROVE RemoveInv'
    <2>1. /\ pc[p] = "lock" /\ pc'[p] \in {"uninstall", "check"} /\ UNCHANGED disk
          /\ lock = NoProc /\ lock' = p /\ ~clean' /\ cmd' = cmd
          /\ \A q \in Procs \ {p} : /\ pc'[q] = pc[q] /\ cmd'[q] = cmd[q]
                                    /\ read'[q] = read[q] /\ todo'[q] = todo[q]
      BY <1>0, <1>2 DEF TakeLock, Goto, Typed
    <2>2. CoveredBy(manifest) /\ SameClients(p)
      BY <2>1 DEF RemoveInv, Owns
    <2>3. Owns(p)'
      BY <2>1, <2>2 DEF Owns, SameClients, Installing, Removing, Covering, CoveredBy,
         disk
    <2> QED BY <1>a, <2>1, <2>3, SetupAssumption DEF RemoveInv, NothingLeft
  <1>3. ASSUME NEW p \in Procs, Fault(p) PROVE RemoveInv'
    <2>1. /\ cmd[p].op = "uninstall" /\ pc[p] \in Writing /\ pc'[p] = "failed"
          /\ UNCHANGED <<disk, lock, cmd, read, todo, last, clean>>
      BY <1>0, <1>3 DEF Fault, Goto, Typed, OnlyUninstallFails
    <2>2. /\ pc[p] \in {"unregister", "remove", "forget"} /\ Owns(p)
      BY <2>1 DEF InstallInv, Progress, OpOK, InInstall, Writing, RemoveInv
    <2>3. Within(p) /\ Inside(p)
      BY <1>0, <1>3, <2>2, StepWithin DEF Inside
    <2>4. Owns(p)' /\ ManifestClients'
      BY <2>1, <2>2
         DEF disk, Owns, SameClients, Installing, Removing, Covering, CoveredBy,
             RemoveInv, ManifestClients
    <2> QED BY <2>1, <2>3, <2>4, OwnerMoves
  <1>4. ASSUME NEW p \in Procs, Install(p) \/ Uninstall(p) PROVE RemoveInv'
    BY <1>0, <1>4, InstallOwns, UninstallOwns
  <1>5. ASSUME NEW p \in Procs, InProgress(p) \/ Unlock(p) \/ Crash(p) PROVE RemoveInv'
    <2>1. PICK r : /\ Ended(p, r) /\ (r = "ok" => pc[p] = "ok")
                   /\ UNCHANGED disk
                   /\ lock' = NoProc => CoveredBy(manifest)
      <3>1. CASE InProgress(p)
        BY <3>1 DEF InProgress
      <3>2. CASE Unlock(p)
        <4>1. CoveredBy(manifest)
          BY <3>2 DEF Unlock, RemoveInv, Owns, Covering
        <4> QED BY <3>2, <4>1 DEF Unlock
      <3>3. CASE Crash(p)
        BY <3>3 DEF Crash, RemoveInv
      <3> QED BY <1>5, <3>1, <3>2, <3>3
    <2>2. /\ pc'[p] = "idle" /\ last'.op = cmd[p].op /\ (clean' => r = "ok")
          /\ \A q \in Procs \ {p} : /\ pc'[q] = pc[q] /\ cmd'[q] = cmd[q]
                                    /\ read'[q] = read[q] /\ todo'[q] = todo[q]
      BY <1>0, <2>1 DEF Ended, Goto, Loop, Typed, InstallInv
    <2>3. Owns(p)'
      BY <2>2 DEF Owns, SameClients, Installing, Removing, Covering
    <2>4. NothingLeft'
      <3> SUFFICES ASSUME clean', last'.op = "uninstall" PROVE NothingOurs'
        BY DEF NothingLeft, NothingOurs
      <3>1. NothingOurs
        BY <2>1, <2>2 DEF RemoveInv, Owns, Removing
      <3> QED BY <2>1, <3>1 DEF NothingOurs, disk
    <2> QED BY <1>a, <2>1, <2>2, <2>3, <2>4 DEF RemoveInv
  <1>6. CASE Edit
    <2>1. /\ \A p \in Procs : pc'[p] = "idle"
          /\ UNCHANGED <<manifest, lock>> /\ ~clean'
          /\ \A x \in Modes : bin'[x] = "ours" => bin[x] = "ours"
          /\ \A k \in Clients : /\ skill'[k] = "ours" => skill[k] = "ours"
                                /\ entry'[k] = "ours" => entry[k] = "ours"
      BY <1>0, <1>6 DEF Edit, command, OnlyUninstallFails, Typed, TypeOK
    <2>2. \A q \in Procs : Owns(q)'
      BY <2>1 DEF Owns, SameClients, Installing, Removing, Covering
    <2> QED BY <2>1, <2>2 DEF RemoveInv, ManifestClients, CoveredBy, NothingLeft
  <1>7. CASE UNCHANGED vars
    <2>1. ASSUME NEW q \in Procs PROVE Owns(q)'
      <3>1. Owns(q)
        BY DEF RemoveInv
      <3> QED BY <1>7, <3>1
              DEF vars, disk, command, Owns, SameClients, Installing, Removing,
                  Covering, CoveredBy, SkillInTheWay, NothingOurs
    <2> QED BY <1>7, <2>1
            DEF vars, disk, command, RemoveInv, ManifestClients, CoveredBy, NothingLeft
  <1> QED BY <1>1, <1>2, <1>3, <1>4, <1>5, <1>6, <1>7 DEF Next, Step

\* An uninstall that says it went well, be it the repetition of one that had
\* failed or a first one after anything else, leaves no binary, skill or entry
\* of an installation behind (setup.go, Uninstall), as long as no
\* installation fails midway, the clients stay the same, nothing is purged and
\* the user edits between commands only.
THEOREM UninstallLeavesNothing ==
    ASSUME OnlyUninstallFails
    PROVE  Spec => []NothingLeft
  <1> DEFINE I == Locked /\ InstallInv /\ RemoveInv
  <1>1. Init => I
    BY LockedInit, InstallInit, RemoveInit
  <1>2. I /\ [Next]_vars => I'
    BY LockedStep, InstallStep, RemoveStep DEF OnlyUninstallFails
  <1>3. I => NothingLeft
    BY DEF RemoveInv
  <1> QED BY <1>1, <1>2, <1>3, PTL DEF Spec
=============================================================================
