----------------------- MODULE SessionRegistry_proofs -----------------------
(***************************************************************************)
(* Theorems about SessionRegistry, for any number of clients, names,       *)
(* serves and PIDs.                                                        *)
(***************************************************************************)
EXTENDS SessionRegistry, TLAPS

USE SessionRegistryAssumption

-----------------------------------------------------------------------------
(***************************************************************************)
(* Types                                                                   *)
(***************************************************************************)
LEMMA InitValues == Init => ValuesOK
<1> SUFFICES ASSUME Init PROVE ValuesOK
    OBVIOUS
<1>1. NoJob \in Jobs
    BY DEF NoJob, Jobs
<1>2. NoEntry \in Entries
    BY DEF Entries
<1>3. chromes \subseteq Chromes
    BY DEF Init, Chromes
<1>4. NoBrowser \in Browsers
    BY DEF NoBrowser, Browsers
<1>5. taken \in BOOLEAN /\ innocent \in BOOLEAN
    BY DEF Init
<1> QED BY <1>1, <1>2, <1>3, <1>4, <1>5 DEF Init, ValuesOK, ClientLabels, ServeLabels

\* What the parts of an action do to the types.
LEMMA GotoType ==
    ASSUME ValuesOK, NEW c \in Clients, NEW label \in ClientLabels, Goto(c, label)
    PROVE  pc' \in [Clients -> ClientLabels]
BY DEF ValuesOK, Goto

LEMMA UnlockType ==
    ASSUME ValuesOK, NEW c \in Clients, Unlock(c)
    PROVE  flock' \in Clients \union {NoClient} /\ copy' \in [Clients -> [Names -> Entries]]
BY DEF ValuesOK, Unlock, Entries

LEMMA GiveUpType ==
    ASSUME ValuesOK, NEW c \in Clients, GiveUp(c)
    PROVE  /\ flock' \in Clients \union {NoClient}
           /\ copy' \in [Clients -> [Names -> Entries]]
           /\ pc' \in [Clients -> ClientLabels] /\ job' \in [Clients -> Jobs]
           /\ got' = got
<1>1. flock' \in Clients \union {NoClient} /\ copy' \in [Clients -> [Names -> Entries]]
    BY UnlockType DEF GiveUp
<1>2. pc' \in [Clients -> ClientLabels]
    BY GotoType DEF GiveUp, ClientLabels
<1>3. job' \in [Clients -> Jobs] /\ got' = got
    BY DEF ValuesOK, GiveUp, NoJob, Jobs
<1> QED BY <1>1, <1>2, <1>3

LEMMA FreedType ==
    ASSUME ValuesOK, NEW s \in Serves,
           table' = [table EXCEPT ![pidOf[s]] = IF @ = s THEN Nobody ELSE @]
    PROVE  table' \in [Pids -> Serves \union {Nobody, Other}]
<1>1. DOMAIN table' = Pids
    BY DEF ValuesOK
<1>2. ASSUME NEW p \in Pids PROVE table'[p] = table[p] \/ table'[p] = Nobody
    BY DEF ValuesOK
<1>3. \A p \in Pids : table'[p] \in Serves \union {Nobody, Other}
    BY <1>2 DEF ValuesOK
<1>4. table' = [p \in Pids |-> table'[p]]
    BY <1>1 DEF ValuesOK
<1> QED BY <1>3, <1>4

LEMMA SignalType ==
    ASSUME ValuesOK, NEW s, SignalPid(s) \/ NoSignal
    PROVE  /\ serve' \in [Serves -> ServeLabels]
           /\ table' \in [Pids -> Serves \union {Nobody, Other}]
           /\ termed' \subseteq Serves
<1>1. ASSUME NEW q \in Serves, Signal(q)
      PROVE  /\ serve' \in [Serves -> ServeLabels]
             /\ table' \in [Pids -> Serves \union {Nobody, Other}]
             /\ termed' \subseteq Serves
    <2>1. CASE serve[q] = "up"
        BY <1>1, <2>1 DEF ValuesOK, Signal
    <2>2. CASE serve[q] # "up"
        <3>1. serve' = [serve EXCEPT ![q] = "gone"] /\ UNCHANGED termed
            BY <1>1, <2>2 DEF Signal
        <3>2. table' \in [Pids -> Serves \union {Nobody, Other}]
            BY <1>1, <2>2, FreedType DEF Signal
        <3> QED BY <3>1, <3>2 DEF ValuesOK, ServeLabels
    <2> QED BY <2>1, <2>2
<1>2. CASE NoSignal
    BY <1>2 DEF ValuesOK, NoSignal
<1> QED BY <1>1, <1>2 DEF SignalPid

LEMMA GoneType ==
    ASSUME ValuesOK, NEW s \in Serves, Gone(s)
    PROVE  /\ serve' \in [Serves -> ServeLabels]
           /\ nameOf' \in [Serves -> Names \union {NoEntry}]
           /\ pidOf' \in [Serves -> Pids \union {Nobody}]
           /\ table' \in [Pids -> Serves \union {Nobody, Other}]
           /\ termed' \subseteq Serves
BY FreedType DEF ValuesOK, Gone, ServeLabels

LEMMA ChromeOfType ==
    ASSUME NEW e \in Entries, e # NoEntry
    PROVE  /\ ChromeOf(e) \in Chromes
           /\ IsSpawned(e) => ChromeOf(e) \in Serves /\ e = Spawned(ChromeOf(e))
BY DEF Entries, ChromeOf, IsSpawned, Chromes, Spawned

LEMMA JobType ==
    ASSUME ValuesOK, NEW c \in Clients, NEW j \in Jobs,
           job' = [job EXCEPT ![c] = j]
    PROVE  job' \in [Clients -> Jobs]
BY DEF ValuesOK

LEMMA JobTodoType ==
    ASSUME ValuesOK, NEW c \in Clients, NEW todo \in SUBSET Names
    PROVE  /\ [job[c] EXCEPT !.todo = todo] \in Jobs
           /\ \A n \in Names : [job[c] EXCEPT !.name = n, !.todo = todo] \in Jobs
<1>1. job[c] \in Jobs
    BY DEF ValuesOK
<1> QED BY <1>1 DEF Jobs

LEMMA JobServeType ==
    ASSUME ValuesOK, NEW c \in Clients, NEW s \in Serves \union {NoServe}
    PROVE  [job[c] EXCEPT !.serve = s] \in Jobs
<1>1. job[c] \in Jobs
    BY DEF ValuesOK
<1> QED BY <1>1 DEF Jobs

LEMMA BrowserType ==
    ASSUME ValuesOK, NEW c \in Clients, NEW x \in Chromes, NEW by \in {"cli", "mcp"},
           NEW own \in BOOLEAN,
           \/ got' = [got EXCEPT ![c].chrome = x]
           \/ got' = [got EXCEPT ![c].by = by]
           \/ got' = [got EXCEPT ![c].ownTab = own]
    PROVE  got' \in [Clients -> Browsers]
<1>1. got[c] \in Browsers
    BY DEF ValuesOK
<1>2. /\ [got[c] EXCEPT !.chrome = x] \in Browsers
      /\ [got[c] EXCEPT !.by = by] \in Browsers
      /\ [got[c] EXCEPT !.ownTab = own] \in Browsers
    BY <1>1 DEF Browsers
<1>3. \E b \in Browsers : got' = [got EXCEPT ![c] = b]
    BY <1>2 DEF ValuesOK
<1> QED BY <1>3 DEF ValuesOK

Single == {"acquire", "stop", "attach"}

\* What a client is doing, as its place tells.
JobOK(c) ==
    /\ pc[c] \in {"entry", "kill", "waitDead", "clear", "spawn", "ready", "check"} =>
        job[c].name \in Names
    /\ pc[c] \in {"lock", "save"} /\ job[c].op \in Single => job[c].name \in Names
    /\ pc[c] \in {"lock", "save"} => job[c].op \in Single \union {"prune", "killall"}
    /\ pc[c] \in {"entry", "kill", "waitDead"} =>
        job[c].op \in {"acquire", "stop", "prune", "killall"}
    /\ pc[c] = "each" => job[c].op \in {"prune", "killall"}
    /\ pc[c] \in {"clear", "spawn", "ready"} => job[c].op = "acquire"
    /\ pc[c] \in {"lock", "save"} /\ job[c].op = "attach" => job[c].chrome \in Chromes
    /\ job[c].serve # NoServe <=> pc[c] = "ready" \/ (pc[c] = "save" /\ job[c].op = "acquire")

\* The steps of the clients.
LEMMA ValuesOperation ==
    ASSUME ValuesOK, NEW c \in Clients, Operation(c)
    PROVE  ValuesOK'
<1> USE DEF serveVars, ghostVars
<1>1. ASSUME NEW j \in Jobs, Begin(c, j) PROVE ValuesOK'
    <2>1. job' \in [Clients -> Jobs]
        BY <1>1, JobType DEF Begin
    <2>2. pc' \in [Clients -> ClientLabels]
        BY <1>1, GotoType DEF Begin, ClientLabels
    <2>3. ops' \in 0..MaxOps
        BY <1>1 DEF Begin, ValuesOK
    <2> QED BY <1>1, <2>1, <2>2, <2>3 DEF Begin, ValuesOK
<1>2. CASE AcquireSession(c) \/ StopSession(c) \/ PruneSessions(c) \/ KillAllSessions(c)
    BY <1>1, <1>2 DEF AcquireSession, StopSession, PruneSessions, KillAllSessions,
       NoJob, Jobs
<1>3. CASE AttachSession(c)
    BY <1>1, <1>3 DEF AttachSession, NoJob, Jobs, ValuesOK
<1>4. CASE ResolveSession(c)
    <2>1. PICK n \in Names : ResolveSession(c)!2!(n)
        BY <1>4 DEF ResolveSession
    <2>2. job' \in [Clients -> Jobs]
        BY <2>1, JobType DEF NoJob, Jobs
    <2>3. pc' \in [Clients -> ClientLabels]
        BY <1>4, GotoType DEF ResolveSession, ClientLabels
    <2>4. ChromeOf(reg[n]) \in Chromes
        BY <2>1, ChromeOfType DEF ValuesOK
    <2>5. got' \in [Clients -> Browsers]
        BY <2>1, <2>4, BrowserType
    <2>6. ops' \in 0..MaxOps
        BY <1>4 DEF ResolveSession, ValuesOK
    <2> QED BY <1>4, <2>2, <2>3, <2>5, <2>6 DEF ResolveSession, ValuesOK
<1> QED BY <1>2, <1>3, <1>4 DEF Operation

LEMMA ValuesLocked ==
    ASSUME ValuesOK, NEW c \in Clients, JobOK(c), Locked(c)
    PROVE  ValuesOK'
<1> USE DEF serveVars, ghostVars, ClientLabels
<1>1. CASE Load(c)
    <2>1. job' \in [Clients -> Jobs]
        <3> DEFINE todo == IF job[c].op \in {"prune", "killall"}
                             THEN {n \in Names : reg[n] # NoEntry} ELSE {}
        <3>1. todo \in SUBSET Names
            OBVIOUS
        <3>2. job' = [job EXCEPT ![c] = [job[c] EXCEPT !.todo = todo]]
            BY <1>1 DEF Load, ValuesOK
        <3> HIDE DEF todo
        <3> QED BY <3>1, <3>2, JobType, JobTodoType
    <2>2. pc' \in [Clients -> ClientLabels]
        BY <1>1, GotoType DEF Load
    <2> QED BY <1>1, <2>1, <2>2 DEF Load, ValuesOK
<1>2. CASE LoadFails(c)
    BY <1>2, GotoType, JobType DEF LoadFails, ValuesOK, NoJob, Jobs
<1>3. CASE EachEntry(c)
    <2>1. job' \in [Clients -> Jobs]
        <3>1. CASE job[c].todo = {}
            BY <1>3, <3>1 DEF EachEntry, ValuesOK
        <3>2. CASE job[c].todo # {}
            <4>1. PICK n \in job[c].todo :
                    job' = [job EXCEPT ![c].name = n, ![c].todo = @ \ {n}]
                BY <1>3, <3>2 DEF EachEntry
            <4>2. n \in Names /\ job[c].todo \ {n} \in SUBSET Names
                BY DEF ValuesOK, Jobs
            <4>3. job' = [job EXCEPT ![c] = [job[c] EXCEPT !.name = n,
                                                          !.todo = job[c].todo \ {n}]]
                BY <4>1 DEF ValuesOK
            <4> QED BY <4>2, <4>3, JobType, JobTodoType
        <3> QED BY <3>1, <3>2
    <2>2. pc' \in [Clients -> ClientLabels]
        BY <1>3, GotoType DEF EachEntry
    <2> QED BY <1>3, <2>1, <2>2 DEF EachEntry, ValuesOK
<1>4. CASE EntryAlive(c)
    <2>1. CASE job[c].op = "prune"
        BY <1>4, <2>1, GotoType DEF EntryAlive, ValuesOK
    <2>2. CASE job[c].op # "prune"
        <3>1. Entry(c) \in Entries
            BY <1>4, <2>2 DEF EntryAlive, Entry, ValuesOK, JobOK
        <3>2. ChromeOf(Entry(c)) \in Chromes
            BY <1>4, <3>1, ChromeOfType DEF EntryAlive
        <3>3. got' \in [Clients -> Browsers]
            <4>1. got' = [got EXCEPT ![c].chrome = ChromeOf(Entry(c))]
                BY <1>4, <2>2 DEF EntryAlive
            <4> QED BY <3>2, <4>1, BrowserType
        <3> QED BY <1>4, <2>2, <3>3, GotoType, UnlockType DEF EntryAlive, ValuesOK
    <2> QED BY <2>1, <2>2
<1>5. CASE EntryKilled(c)
    BY <1>5, GotoType DEF EntryKilled, ValuesOK
<1>15. CASE KillSessionProcess(c)
    <2> DEFINE s == ChromeOf(Entry(c))
    <2>1. SignalPid(s)
        BY <1>15 DEF KillSessionProcess
    <2> HIDE DEF s
    <2>2. innocent' \in BOOLEAN
        BY <2>1 DEF SignalPid, ValuesOK
    <2>3. /\ serve' \in [Serves -> ServeLabels]
          /\ table' \in [Pids -> Serves \union {Nobody, Other}]
          /\ termed' \subseteq Serves
        BY <2>1, SignalType
    <2> QED BY <1>15, <2>2, <2>3, GotoType DEF KillSessionProcess, ValuesOK
<1>6. CASE EntryMissing(c)
    BY <1>6, GotoType, GiveUpType DEF EntryMissing, ValuesOK
<1>7. CASE WaitSessionDead(c)
    <2>1. copy' \in [Clients -> [Names -> Entries]]
        BY <1>7 DEF WaitSessionDead, ValuesOK, Entries
    <2> QED BY <1>7, <2>1, GotoType DEF WaitSessionDead, ValuesOK
<1>8. CASE ClearProfileLock(c)
    BY <1>8, GotoType DEF ClearProfileLock, ValuesOK
<1>9. CASE Spawn(c)
    <2>1. PICK s \in Serves, p \in Pids : Spawn(c)!2!(s, p)
        BY <1>9 DEF Spawn
    <2>2. job' \in [Clients -> Jobs]
        <3>1. job' = [job EXCEPT ![c] = [job[c] EXCEPT !.serve = s]]
            BY <2>1 DEF ValuesOK
        <3> QED BY <3>1, JobType, JobServeType
    <2>3. job[c].name \in Names \union {NoEntry}
        BY DEF ValuesOK, Jobs
    <2> QED BY <1>9, <2>1, <2>2, <2>3, GotoType DEF Spawn, ValuesOK, ServeLabels
<1>10. CASE SpawnFails(c)
    BY <1>10, GiveUpType DEF SpawnFails, ValuesOK
<1>11. CASE Ready(c)
    <2>1. Spawned(job[c].serve) \in Entries
        BY <1>11 DEF Ready, ValuesOK, Jobs, JobOK, Spawned, Entries
    <2>2. copy' \in [Clients -> [Names -> Entries]]
        BY <1>11, <2>1 DEF Ready, ValuesOK
    <2> QED BY <1>11, <2>2, GotoType DEF Ready, ValuesOK
<1>12. CASE NeverReady(c)
    BY <1>12, GiveUpType, SignalType DEF NeverReady, ValuesOK, SignalPid
<1>13. CASE Save(c)
    <2>1. job[c] \in Jobs /\ job[c].op \in Single \union {"prune", "killall"}
        BY <1>13 DEF Save, ValuesOK, JobOK
    <2>2. reg' \in [Names -> Entries]
        <3>1. CASE job[c].op = "attach"
            <4>1. Attached(job[c].chrome) \in Entries
                BY <1>13, <3>1 DEF Save, JobOK, Attached, Entries, Single
            <4>2. reg' = [copy[c] EXCEPT ![job[c].name] = Attached(job[c].chrome)]
                BY <1>13, <3>1 DEF Save
            <4> QED BY <4>1, <4>2 DEF ValuesOK
        <3>2. CASE job[c].op # "attach"
            BY <1>13, <3>2 DEF Save, ValuesOK
        <3> QED BY <3>1, <3>2
    <2>3. unlisted' \subseteq Serves
        <3>1. CASE job[c].op = "attach" /\ IsSpawned(copy[c][job[c].name])
            <4>1. job[c].name \in Names
                BY <1>13, <3>1 DEF Save, JobOK, Single
            <4>2. copy[c][job[c].name] \in Entries \ {NoEntry}
                BY <3>1, <4>1 DEF ValuesOK, IsSpawned
            <4>3. ChromeOf(copy[c][job[c].name]) \in Serves
                BY <3>1, <4>2, ChromeOfType
            <4> QED BY <1>13, <3>1, <4>3 DEF Save, ValuesOK
        <3>2. CASE ~(job[c].op = "attach" /\ IsSpawned(copy[c][job[c].name]))
            BY <1>13, <3>2 DEF Save, ValuesOK
        <3> QED BY <3>1, <3>2
    <2>4. job' \in [Clients -> Jobs] /\ got' \in [Clients -> Browsers]
        <3>1. CASE job[c].op = "acquire"
            <4>1. job' = [job EXCEPT ![c] = [job[c] EXCEPT !.serve = NoServe]]
                BY <1>13, <3>1 DEF Save, ValuesOK
            <4>2. job[c].serve \in Chromes
                BY <1>13, <2>1, <3>1 DEF Save, JobOK, Jobs, Chromes
            <4>3. got' = [got EXCEPT ![c].chrome = job[c].serve]
                BY <1>13, <3>1 DEF Save
            <4>4. got' \in [Clients -> Browsers]
                BY <4>2, <4>3, BrowserType
            <4>5. NoServe \in Serves \union {NoServe}
                OBVIOUS
            <4> QED BY <4>1, <4>4, <4>5, JobType, JobServeType
        <3>2. CASE job[c].op # "acquire"
            <4>1. NoJob \in Jobs
                BY DEF NoJob, Jobs
            <4> QED BY <1>13, <3>2, <4>1 DEF Save, ValuesOK
        <3> QED BY <3>1, <3>2
    <2> QED BY <1>13, <2>2, <2>3, <2>4, GotoType, UnlockType DEF Save, ValuesOK
<1>14. CASE SaveFails(c)
    BY <1>14, GiveUpType, SignalType DEF SaveFails, ValuesOK, SignalPid
<1> QED BY <1>1, <1>2, <1>3, <1>4, <1>5, <1>6, <1>7, <1>8, <1>9, <1>10, <1>11,
           <1>12, <1>13, <1>14, <1>15 DEF Locked

LEMMA ValuesRest ==
    ASSUME ValuesOK,
           \/ \E c \in Clients : SessionAttached(c) \/ ForeignChrome(c) \/ Finish(c) \/ Killed(c)
           \/ \E s \in Serves : Daemon(s)
           \/ \E x \in Chromes : ChromeDies(x)
           \/ \E p \in Pids : Recycle(p)
           \/ UNCHANGED vars
    PROVE  ValuesOK'
<1> USE DEF clientVars, serveVars, ghostVars, ClientLabels
<1>1. ASSUME NEW c \in Clients, SessionAttached(c) PROVE ValuesOK'
    <2> DEFINE e == reg[job[c].name]
               own == e # NoEntry /\ ~IsSpawned(e)
    <2>1. own \in BOOLEAN
        OBVIOUS
    <2>2. got' = [got EXCEPT ![c].ownTab = own]
        BY <1>1 DEF SessionAttached
    <2> HIDE DEF own
    <2>3. got[c] \in Browsers
        BY DEF ValuesOK
    <2>4. [got[c] EXCEPT !.ownTab = own] \in Browsers
        BY <2>1, <2>3 DEF Browsers
    <2>5. got' \in [Clients -> Browsers]
        BY <2>2, <2>4 DEF ValuesOK
    <2> QED BY <1>1, <2>5, GotoType DEF SessionAttached, ValuesOK
<1>2. ASSUME NEW c \in Clients, ForeignChrome(c) PROVE ValuesOK'
    <2>1. got[c] \in Browsers
        BY DEF ValuesOK
    <2>2. [got[c] EXCEPT !.by = "mcp"] \in Browsers
        BY <2>1 DEF Browsers
    <2>3. got' \in [Clients -> Browsers]
        BY <1>2, <2>2 DEF ForeignChrome, ValuesOK
    <2> QED BY <1>2, <2>3, GotoType DEF ForeignChrome, ValuesOK
<1>3. NoBrowser \in Browsers /\ NoJob \in Jobs
    BY DEF NoBrowser, Browsers, NoJob, Jobs
<1>4. ASSUME NEW c \in Clients, Finish(c) PROVE ValuesOK'
    BY <1>3, <1>4, GotoType, JobType DEF Finish, ValuesOK
<1>5. ASSUME NEW c \in Clients, Killed(c) PROVE ValuesOK'
    <2>1. job[c].serve \in Serves \union {NoServe}
        BY DEF ValuesOK, Jobs
    <2>2. copy' \in [Clients -> [Names -> Entries]]
        BY <1>5 DEF Killed, ValuesOK, Entries
    <2> QED BY <1>3, <1>5, <2>1, <2>2, GotoType, JobType DEF Killed, ValuesOK
<1>6. ASSUME NEW s \in Serves, Daemon(s) PROVE ValuesOK'
    <2>1. CASE Launch(s)
        BY <2>1 DEF Launch, ValuesOK, ServeLabels, Chromes
    <2>2. CASE LaunchFails(s)
        BY <2>2, GoneType DEF LaunchFails, ValuesOK
    <2>3. CASE Warm(s)
        BY <2>3 DEF Warm, ValuesOK, ServeLabels
    <2>4. CASE Shutdown(s)
        BY <2>4, GoneType DEF Shutdown, ValuesOK
    <2>5. CASE ServeDies(s)
        BY <2>5, GoneType DEF ServeDies, ValuesOK
    <2> QED BY <1>6, <2>1, <2>2, <2>3, <2>4, <2>5 DEF Daemon
<1>7. ASSUME NEW x \in Chromes, ChromeDies(x) PROVE ValuesOK'
    BY <1>7 DEF ChromeDies, ValuesOK
<1>8. ASSUME NEW p \in Pids, Recycle(p) PROVE ValuesOK'
    BY <1>8 DEF Recycle, ValuesOK
<1>9. CASE UNCHANGED vars
    BY <1>9 DEF vars, ValuesOK
<1> QED BY <1>1, <1>2, <1>4, <1>5, <1>6, <1>7, <1>8, <1>9

LEMMA ValuesNext ==
    ASSUME ValuesOK, \A c \in Clients : JobOK(c), [Next]_vars
    PROVE  ValuesOK'
BY ValuesOperation, ValuesLocked, ValuesRest DEF Next

\* The parts of the state that belong to client c.
Elsewhere(c) == pc'[c] = pc[c] /\ job'[c] = job[c] /\ copy'[c] = copy[c]

ClientStep(c) ==
    Operation(c) \/ Locked(c) \/ SessionAttached(c) \/ ForeignChrome(c) \/ Finish(c) \/ Killed(c)

\* A client changes its own part only.
LEMMA OwnPartOnly ==
    ASSUME ValuesOK, NEW c \in Clients, NEW d \in Clients, d # c, ClientStep(d)
    PROVE  Elsewhere(c)
<1> USE DEF Elsewhere, ValuesOK, Goto, GiveUp, Unlock, clientVars
<1>1. CASE Operation(d)
    <2>1. ASSUME NEW j, Begin(d, j) PROVE Elsewhere(c)
        BY <2>1 DEF Begin
    <2>2. CASE ResolveSession(d)
        BY <2>2 DEF ResolveSession
    <2> QED BY <1>1, <2>1, <2>2 DEF Operation, AcquireSession, StopSession,
           PruneSessions, KillAllSessions, AttachSession
<1>2. CASE Load(d) \/ LoadFails(d) \/ EntryAlive(d) \/ EntryKilled(d) \/ EntryMissing(d)
           \/ KillSessionProcess(d) \/ WaitSessionDead(d)
    BY <1>2 DEF Load, LoadFails, EntryAlive, EntryKilled, EntryMissing, KillSessionProcess,
       WaitSessionDead
<1>3. CASE ClearProfileLock(d) \/ SpawnFails(d) \/ Ready(d) \/ NeverReady(d) \/ Save(d)
           \/ SaveFails(d)
    BY <1>3 DEF ClearProfileLock, SpawnFails, Ready, NeverReady, Save, SaveFails
<1>4. CASE EachEntry(d)
    BY <1>4 DEF EachEntry
<1>5. CASE Spawn(d)
    BY <1>5 DEF Spawn
<1>6. CASE SessionAttached(d) \/ ForeignChrome(d) \/ Finish(d) \/ Killed(d)
    BY <1>6 DEF SessionAttached, ForeignChrome, Finish, Killed
<1> QED BY <1>1, <1>2, <1>3, <1>4, <1>5, <1>6 DEF ClientStep, Locked

\* What is not a step of a client.
Outside ==
    \/ \E s \in Serves : Daemon(s)
    \/ \E x \in Chromes : ChromeDies(x)
    \/ \E p \in Pids : Recycle(p)
    \/ UNCHANGED vars

LEMMA OutsideClients == Outside => UNCHANGED <<clientVars, reg, flock>>
BY DEF Outside, vars, Daemon, Launch, LaunchFails, Warm, Shutdown, ServeDies, ChromeDies,
   Recycle

LEMMA WhoSteps == [Next]_vars <=> Outside \/ \E c \in Clients : ClientStep(c)
BY DEF Next, Outside, ClientStep

LEMMA JobNext ==
    ASSUME ValuesOK, NEW c \in Clients, JobOK(c), [Next]_vars
    PROVE  JobOK(c)'
<1> USE DEF JobOK, Single
<1>0. ASSUME Elsewhere(c) PROVE JobOK(c)'
    BY <1>0 DEF Elsewhere
<1>1. ASSUME NEW d \in Clients, d # c, ClientStep(d) PROVE Elsewhere(c)
    BY <1>1, OwnPartOnly
<1>2. CASE Operation(c)
    <2>1. ASSUME NEW j \in Jobs, Begin(c, j) PROVE pc'[c] = "lock" /\ job'[c] = j
        BY <2>1 DEF ValuesOK, Goto, Begin
    <2>2. CASE AcquireSession(c) \/ StopSession(c)
        <3>1. PICK n \in Names, o \in {"acquire", "stop"} :
                Begin(c, [NoJob EXCEPT !.op = o, !.name = n])
            BY <2>2 DEF AcquireSession, StopSession
        <3> DEFINE j == [NoJob EXCEPT !.op = o, !.name = n]
        <3>2. j \in Jobs /\ j.op = o /\ j.name = n /\ j.serve = NoServe
            BY DEF NoJob, Jobs
        <3> HIDE DEF j
        <3> QED BY <2>1, <3>1, <3>2 DEF j
    <2>3. CASE PruneSessions(c) \/ KillAllSessions(c)
        <3>1. PICK o \in {"prune", "killall"} : Begin(c, [NoJob EXCEPT !.op = o])
            BY <2>3 DEF PruneSessions, KillAllSessions
        <3> DEFINE j == [NoJob EXCEPT !.op = o]
        <3>2. j \in Jobs /\ j.op = o /\ j.serve = NoServe
            BY DEF NoJob, Jobs
        <3> HIDE DEF j
        <3> QED BY <2>1, <3>1, <3>2 DEF j
    <2>4. CASE AttachSession(c)
        <3>1. PICK n \in Names, x \in chromes :
                Begin(c, [NoJob EXCEPT !.op = "attach", !.name = n, !.chrome = x])
            BY <2>4 DEF AttachSession
        <3> DEFINE j == [NoJob EXCEPT !.op = "attach", !.name = n, !.chrome = x]
        <3>2. /\ j \in Jobs /\ j.op = "attach" /\ j.name = n /\ j.serve = NoServe
              /\ j.chrome \in Chromes
            BY DEF NoJob, Jobs, ValuesOK
        <3> HIDE DEF j
        <3> QED BY <2>1, <3>1, <3>2 DEF j
    <2>5. CASE ResolveSession(c)
        BY <2>5 DEF ResolveSession, ValuesOK, Goto, NoJob
    <2> QED BY <1>2, <2>2, <2>3, <2>4, <2>5 DEF Operation
<1>3. CASE Load(c)
    BY <1>3 DEF ValuesOK, Goto, Load
<1>4. CASE EachEntry(c)
    <2>0. pc[c] = "each" /\ job[c] \in Jobs
        BY <1>4 DEF EachEntry, ValuesOK
    <2>1. CASE job[c].todo = {}
        <3>1. pc'[c] = "save" /\ job'[c] = job[c]
            BY <1>4, <2>1 DEF EachEntry, Goto, ValuesOK
        <3> QED BY <2>0, <3>1
    <2>2. CASE job[c].todo # {}
        <3>1. PICK n \in job[c].todo :
                job' = [job EXCEPT ![c].name = n, ![c].todo = @ \ {n}]
            BY <1>4, <2>2 DEF EachEntry
        <3>2. /\ n \in Names
              /\ job'[c] = [job[c] EXCEPT !.name = n, !.todo = job[c].todo \ {n}]
            BY <3>1 DEF ValuesOK, Jobs
        <3>3. /\ job'[c].name = n /\ job'[c].op = job[c].op
              /\ job'[c].serve = job[c].serve
            BY <2>0, <3>2 DEF Jobs
        <3>4. pc'[c] = "entry"
            BY <1>4, <2>2 DEF EachEntry, Goto, ValuesOK
        <3> QED BY <2>0, <3>2, <3>3, <3>4
    <2> QED BY <2>1, <2>2
<1>5. CASE EntryAlive(c) \/ EntryKilled(c) \/ KillSessionProcess(c) \/ WaitSessionDead(c)
           \/ ClearProfileLock(c) \/ Ready(c)
    BY <1>5 DEF ValuesOK, Goto, EntryAlive, EntryKilled, KillSessionProcess,
       WaitSessionDead, ClearProfileLock, Ready
<1>6. CASE Spawn(c)
    BY <1>6 DEF ValuesOK, Goto, Spawn
<1>7. CASE EntryMissing(c) \/ LoadFails(c) \/ SpawnFails(c) \/ NeverReady(c) \/ SaveFails(c)
           \/ Finish(c) \/ Killed(c)
    BY <1>7 DEF ValuesOK, Goto, GiveUp, NoJob, EntryMissing, LoadFails, SpawnFails,
       NeverReady, SaveFails, Finish, Killed
<1>8. CASE Save(c)
    <2>0. pc[c] = "save" /\ job[c] \in Jobs
        BY <1>8 DEF Save, ValuesOK
    <2>1. CASE job[c].op = "acquire"
        <3>1. pc'[c] = "check" /\ job'[c] = [job[c] EXCEPT !.serve = NoServe]
            BY <1>8, <2>1 DEF Save, Goto, ValuesOK
        <3>2. job'[c].name = job[c].name /\ job'[c].serve = NoServe
            BY <2>0, <3>1 DEF Jobs
        <3> QED BY <2>0, <2>1, <3>1, <3>2
    <2>2. CASE job[c].op # "acquire"
        BY <1>8, <2>2 DEF Save, Goto, ValuesOK, NoJob
    <2> QED BY <2>1, <2>2
<1>9. CASE SessionAttached(c) \/ ForeignChrome(c)
    BY <1>9 DEF ValuesOK, Goto, SessionAttached, ForeignChrome
<1>10. CASE Outside
    BY <1>0, <1>10, OutsideClients DEF Elsewhere, clientVars
<1> QED BY <1>0, <1>1, <1>2, <1>3, <1>4, <1>5, <1>6, <1>7, <1>8, <1>9, <1>10, WhoSteps
        DEF ClientStep, Locked

\* Only the holder of the flock is between its read and its write.
FlockOK == \A c \in Clients : pc[c] \in Inside <=> flock = c

LEMMA FlockNext ==
    ASSUME ValuesOK, FlockOK, \A c \in Clients : JobOK(c), [Next]_vars
    PROVE  FlockOK'
<1>1. ASSUME NEW d \in Clients, ClientStep(d),
             \/ flock' = flock /\ (pc'[d] \in Inside <=> pc[d] \in Inside)
             \/ flock = NoClient /\ flock' = d /\ pc'[d] \in Inside
             \/ flock' = NoClient /\ pc[d] \in Inside /\ pc'[d] \notin Inside
      PROVE  FlockOK'
    <2>1. ASSUME NEW c \in Clients, c # d PROVE pc'[c] = pc[c]
        BY <1>1, <2>1, OwnPartOnly DEF Elsewhere
    <2> QED BY <1>1, <2>1 DEF FlockOK
<1>2. ASSUME NEW d \in Clients, ClientStep(d)
      PROVE  \/ flock' = flock /\ (pc'[d] \in Inside <=> pc[d] \in Inside)
             \/ flock = NoClient /\ flock' = d /\ pc'[d] \in Inside
             \/ flock' = NoClient /\ pc[d] \in Inside /\ pc'[d] \notin Inside
    <2> USE DEF ValuesOK, Goto, Inside
    <2>1. CASE Operation(d)
        <3>1. ASSUME NEW j, Begin(d, j) PROVE flock' = flock /\ pc[d] = "idle" /\ pc'[d] = "lock"
            BY <3>1 DEF Begin
        <3>2. CASE ResolveSession(d)
            BY <3>2 DEF ResolveSession
        <3> QED BY <2>1, <3>1, <3>2 DEF Operation, AcquireSession, StopSession,
               PruneSessions, KillAllSessions, AttachSession
    <2>2. CASE Load(d)
        BY <2>2 DEF Load
    <2>3. CASE EachEntry(d)
        BY <2>3 DEF EachEntry
    <2>4. CASE EntryAlive(d) \/ EntryMissing(d)
        BY <2>4 DEF EntryAlive, EntryMissing, Unlock, GiveUp
    <2>5. CASE EntryKilled(d) \/ KillSessionProcess(d) \/ WaitSessionDead(d)
               \/ ClearProfileLock(d) \/ Spawn(d) \/ Ready(d)
        BY <2>5 DEF EntryKilled, KillSessionProcess, WaitSessionDead, ClearProfileLock,
           Spawn, Ready
    <2>6. CASE SpawnFails(d) \/ NeverReady(d) \/ Save(d) \/ SaveFails(d)
        BY <2>6 DEF SpawnFails, NeverReady, Save, SaveFails, Unlock, GiveUp
    <2>7. CASE LoadFails(d) \/ SessionAttached(d) \/ ForeignChrome(d) \/ Finish(d)
        BY <2>7 DEF LoadFails, SessionAttached, ForeignChrome, Finish
    <2>8. CASE Killed(d)
        BY <2>8 DEF Killed, FlockOK
    <2> QED BY <1>2, <2>1, <2>2, <2>3, <2>4, <2>5, <2>6, <2>7, <2>8 DEF ClientStep, Locked
<1>3. CASE Outside
    BY <1>3, OutsideClients DEF FlockOK, clientVars
<1> QED BY <1>1, <1>2, <1>3, WhoSteps

\* The part of the invariant that is about types and places.
TypeInv == ValuesOK /\ FlockOK /\ \A c \in Clients : JobOK(c)

LEMMA InitTypeInv == Init => TypeInv
BY InitValues DEF Init, TypeInv, FlockOK, JobOK, NoJob, Inside

LEMMA TypeInvNext == TypeInv /\ [Next]_vars => TypeInv'
<1> SUFFICES ASSUME TypeInv, [Next]_vars PROVE TypeInv'
    OBVIOUS
<1>1. ValuesOK'
    BY ValuesNext DEF TypeInv
<1>2. FlockOK'
    BY FlockNext DEF TypeInv
<1>3. ASSUME NEW c \in Clients PROVE JobOK(c)'
    BY <1>3, JobNext DEF TypeInv
<1> QED BY <1>1, <1>2, <1>3 DEF TypeInv

\* Every variable has its type, and of all commands only the one that holds
\* the flock of sessions.json is between its read and its write.
THEOREM TypeCorrect == Spec => []TypeOK
<1>1. TypeInv => TypeOK
    BY DEF TypeInv, TypeOK, FlockOK
<1> QED BY <1>1, InitTypeInv, TypeInvNext, PTL DEF Spec


-----------------------------------------------------------------------------
(***************************************************************************)
(* Processes                                                               *)
(***************************************************************************)
\* A serve that runs has its PID, and the PID of a serve is that of one that
\* runs.
ProcessesOK ==
    /\ \A s \in Serves : serve[s] # "unborn" => nameOf[s] \in Names /\ pidOf[s] \in Pids
    /\ \A s \in Serves : Running(s) => table[pidOf[s]] = s
    /\ \A p \in Pids : table[p] \in Serves => Running(table[p]) /\ pidOf[table[p]] = p
    /\ \A s \in termed : serve[s] = "up"

\* The serve of an entry, or of a client, was started.
Started(e) == IsSpawned(e) => serve[ChromeOf(e)] # "unborn"
ChildStarted(c) == job[c].serve # NoServe => serve[job[c].serve] # "unborn"
StartedOK ==
    /\ \A n \in Names : Started(reg[n]) /\ \A c \in Clients : Started(copy[c][n])
    /\ \A c \in Clients : ChildStarted(c)

\* The child of a client has its PID, or nobody has: the parent does not wait
\* for it.
ChildOK(c) ==
    job[c].serve # NoServe =>
        /\ nameOf[job[c].serve] = job[c].name
        /\ table[pidOf[job[c].serve]] \in {job[c].serve, Nobody}
        /\ pc[c] = "save" => copy[c][job[c].name] = Spawned(job[c].serve)

\* What is about to be signalled is the PID of a spawned entry.
KillOK(c) == pc[c] = "kill" => IsSpawned(Entry(c))

ProcInv ==
    TypeInv /\ ProcessesOK /\ StartedOK /\ \A c \in Clients : ChildOK(c) /\ KillOK(c)

\* A signal to a PID of a serve reaches a serve that runs.
LEMMA SignalReaches ==
    ASSUME ProcInv, NEW s, pidOf[s] \in Pids, SignalPid(s)
    PROVE  NoSignal \/ \E q \in Serves : Running(q) /\ Signal(q)
BY DEF ProcInv, ProcessesOK, SignalPid

\* All that happens to serves.
SignalStep(s) == Running(s) /\ Signal(s) /\ UNCHANGED <<nameOf, pidOf>>
GoneStep(s)   == Running(s) /\ Gone(s)

LEMMA ChildType ==
    ASSUME ProcInv, NEW c \in Clients, job[c].serve # NoServe
    PROVE  job[c].serve \in Serves /\ pidOf[job[c].serve] \in Pids
BY DEF ProcInv, TypeInv, ValuesOK, Jobs, ProcessesOK, StartedOK, ChildStarted

LEMMA EntryType ==
    ASSUME ProcInv, NEW c \in Clients, NEW n \in Names, IsSpawned(copy[c][n])
    PROVE  /\ ChromeOf(copy[c][n]) \in Serves
           /\ pidOf[ChromeOf(copy[c][n])] \in Pids
           /\ copy[c][n] = Spawned(ChromeOf(copy[c][n]))
<1>1. copy[c][n] \in Entries \ {NoEntry}
    BY DEF ProcInv, TypeInv, ValuesOK, IsSpawned
<1>2. ChromeOf(copy[c][n]) \in Serves /\ copy[c][n] = Spawned(ChromeOf(copy[c][n]))
    BY <1>1, ChromeOfType
<1> QED BY <1>2 DEF ProcInv, StartedOK, Started, ProcessesOK

LEMMA SignalsOfClients ==
    ASSUME ProcInv, NEW c \in Clients,
           KillSessionProcess(c) \/ NeverReady(c) \/ SaveFails(c)
    PROVE  UNCHANGED serveVars \/ \E s \in Serves : SignalStep(s)
<1> USE DEF serveVars, SignalStep, NoSignal
<1>0. JobOK(c) /\ KillOK(c)
    BY DEF ProcInv, TypeInv
<1>1. CASE KillSessionProcess(c)
    <2>1. job[c].name \in Names /\ IsSpawned(copy[c][job[c].name])
        BY <1>0, <1>1 DEF JobOK, KillOK, KillSessionProcess, Entry
    <2>2. UNCHANGED <<nameOf, pidOf>> /\ SignalPid(ChromeOf(Entry(c)))
        BY <1>1 DEF KillSessionProcess
    <2>3. pidOf[ChromeOf(Entry(c))] \in Pids
        BY <2>1, EntryType DEF Entry
    <2> HIDE DEF NoSignal
    <2>4. NoSignal \/ \E s \in Serves : Running(s) /\ Signal(s)
        BY <2>2, <2>3, SignalReaches
    <2> QED BY <2>2, <2>4 DEF NoSignal
<1>2. CASE NeverReady(c)
    <2>1. job[c].serve # NoServe
        BY <1>0, <1>2 DEF JobOK, NeverReady
    <2>2. SignalPid(job[c].serve) /\ UNCHANGED <<nameOf, pidOf>>
        BY <1>2 DEF NeverReady
    <2> HIDE DEF NoSignal
    <2>3. NoSignal \/ \E s \in Serves : Running(s) /\ Signal(s)
        BY <2>1, <2>2, ChildType, SignalReaches
    <2> QED BY <2>2, <2>3 DEF NoSignal
<1>3. CASE SaveFails(c)
    <2>1. UNCHANGED <<nameOf, pidOf>>
        BY <1>3 DEF SaveFails
    <2>2. CASE job[c].op = "acquire"
        <3>1. job[c].serve # NoServe
            BY <1>0, <1>3, <2>2 DEF JobOK, SaveFails
        <3>2. SignalPid(job[c].serve)
            BY <1>3, <2>2 DEF SaveFails
        <3> HIDE DEF NoSignal
        <3>3. NoSignal \/ \E s \in Serves : Running(s) /\ Signal(s)
            BY <3>1, <3>2, ChildType, SignalReaches
        <3> QED BY <2>1, <3>3 DEF NoSignal
    <2>3. CASE job[c].op # "acquire"
        BY <1>3, <2>1, <2>3 DEF SaveFails
    <2> QED BY <2>2, <2>3
<1> QED BY <1>1, <1>2, <1>3

LEMMA ServeStep ==
    ASSUME ProcInv, [Next]_vars
    PROVE  \/ UNCHANGED serveVars
           \/ \E s \in Serves : SignalStep(s) \/ GoneStep(s) \/ Launch(s) \/ Warm(s)
           \/ \E c \in Clients : Spawn(c)
           \/ \E p \in Pids : Recycle(p)
<1>1. ASSUME NEW c \in Clients, Operation(c) PROVE UNCHANGED serveVars
    BY <1>1 DEF Operation, AcquireSession, StopSession, PruneSessions, KillAllSessions,
       AttachSession, Begin, ResolveSession
<1>2. ASSUME NEW c \in Clients, KillSessionProcess(c) \/ NeverReady(c) \/ SaveFails(c)
      PROVE  UNCHANGED serveVars \/ \E s \in Serves : SignalStep(s)
    BY <1>2, SignalsOfClients
<1>3. ASSUME NEW c \in Clients,
             \/ Load(c) \/ LoadFails(c) \/ EachEntry(c) \/ EntryAlive(c) \/ EntryKilled(c)
             \/ EntryMissing(c) \/ WaitSessionDead(c) \/ ClearProfileLock(c)
      PROVE  UNCHANGED serveVars
    BY <1>3 DEF Load, LoadFails, EachEntry, EntryAlive, EntryKilled, EntryMissing,
       WaitSessionDead, ClearProfileLock
<1>4. ASSUME NEW c \in Clients,
             \/ SpawnFails(c) \/ Ready(c) \/ Save(c)
             \/ SessionAttached(c) \/ ForeignChrome(c) \/ Finish(c) \/ Killed(c)
      PROVE  UNCHANGED serveVars
    BY <1>4 DEF SpawnFails, Ready, Save, SessionAttached, ForeignChrome, Finish, Killed
<1>5. ASSUME NEW s \in Serves, Daemon(s) PROVE GoneStep(s) \/ Launch(s) \/ Warm(s)
    BY <1>5 DEF Daemon, LaunchFails, Shutdown, ServeDies, GoneStep, Running
<1>6. ASSUME NEW x \in Chromes, ChromeDies(x) PROVE UNCHANGED serveVars
    BY <1>6 DEF ChromeDies
<1>7. CASE UNCHANGED vars
    BY <1>7 DEF vars
<1> QED BY <1>1, <1>2, <1>3, <1>4, <1>5, <1>6, <1>7 DEF Next, Locked


\* A serve only grows older.
Older(s) ==
    /\ serve[s] # "unborn" =>
        serve'[s] # "unborn" /\ nameOf'[s] = nameOf[s] /\ pidOf'[s] = pidOf[s]
    /\ serve[s] = "gone" => serve'[s] = "gone"
    /\ s \in termed => s \in termed' \/ serve'[s] = "gone"
    /\ serve[s] # "unborn" /\ serve'[s] \in {"unborn", "booting"} => serve'[s] = serve[s]

LEMMA ServesAge ==
    ASSUME ProcInv, NEW s \in Serves, [Next]_vars
    PROVE  Older(s)
<1> USE DEF ProcInv, TypeInv, ValuesOK, ProcessesOK, Older
<1>1. CASE UNCHANGED serveVars
    BY <1>1 DEF serveVars
<1>2. ASSUME NEW t \in Serves, SignalStep(t) PROVE Older(s)
    BY <1>2 DEF SignalStep, Signal
<1>3. ASSUME NEW t \in Serves, GoneStep(t) PROVE Older(s)
    BY <1>3 DEF GoneStep, Gone, Running
<1>4. ASSUME NEW t \in Serves, Launch(t) \/ Warm(t) PROVE Older(s)
    BY <1>4 DEF Launch, Warm
<1>5. ASSUME NEW c \in Clients, Spawn(c) PROVE Older(s)
    BY <1>5 DEF Spawn
<1>6. ASSUME NEW p \in Pids, Recycle(p) PROVE Older(s)
    BY <1>6 DEF Recycle
<1> QED BY <1>1, <1>2, <1>3, <1>4, <1>5, <1>6, ServeStep

LEMMA ProcessesNext == ProcInv /\ [Next]_vars => ProcessesOK'
<1> SUFFICES ASSUME ProcInv, [Next]_vars PROVE ProcessesOK'
    OBVIOUS
<1>0. /\ serve \in [Serves -> ServeLabels]
      /\ nameOf \in [Serves -> Names \union {NoEntry}]
      /\ pidOf \in [Serves -> Pids \union {Nobody}]
      /\ table \in [Pids -> Serves \union {Nobody, Other}]
      /\ termed \subseteq Serves /\ ProcessesOK
    BY DEF ProcInv, TypeInv, ValuesOK
<1> USE DEF ProcessesOK, Running
<1>1. CASE UNCHANGED serveVars
    BY <1>0, <1>1 DEF serveVars
<1>2. ASSUME NEW s \in Serves, SignalStep(s) PROVE ProcessesOK'
    <2>1. CASE serve[s] = "up"
        BY <1>0, <1>2, <2>1 DEF SignalStep, Signal
    <2>2. CASE serve[s] # "up"
        <3>1. /\ UNCHANGED <<termed, nameOf, pidOf>> /\ serve' = [serve EXCEPT ![s] = "gone"]
              /\ Running(s) /\ table[pidOf[s]] = s /\ pidOf[s] \in Pids /\ s \notin termed
              /\ table' = [table EXCEPT ![pidOf[s]] = Nobody]
            BY <1>0, <1>2, <2>2 DEF SignalStep, Signal
        <3> QED BY <1>0, <3>1
    <2> QED BY <2>1, <2>2
<1>3. ASSUME NEW s \in Serves, GoneStep(s) PROVE ProcessesOK'
    <2>1. /\ UNCHANGED <<nameOf, pidOf>> /\ serve' = [serve EXCEPT ![s] = "gone"]
          /\ Running(s) /\ table[pidOf[s]] = s /\ pidOf[s] \in Pids
          /\ table' = [table EXCEPT ![pidOf[s]] = Nobody] /\ termed' = termed \ {s}
        BY <1>0, <1>3 DEF GoneStep, Gone
    <2> QED BY <1>0, <2>1
<1>4. ASSUME NEW s \in Serves, Launch(s) \/ Warm(s) PROVE ProcessesOK'
    <2>1. /\ UNCHANGED <<termed, nameOf, pidOf, table>> /\ s \notin termed /\ Running(s)
          /\ serve' = [serve EXCEPT ![s] = "warming"] \/ serve' = [serve EXCEPT ![s] = "up"]
        BY <1>0, <1>4 DEF Launch, Warm
    <2> QED BY <1>0, <2>1
<1>5. ASSUME NEW c \in Clients, Spawn(c) PROVE ProcessesOK'
    <2>1. PICK s \in Serves, p \in Pids : Spawn(c)!2!(s, p)
        BY <1>5 DEF Spawn
    <2>2. UNCHANGED termed /\ job[c].name \in Names
        BY <1>5 DEF Spawn, JobOK, ProcInv, TypeInv
    <2>3. \A t \in Serves \ {s} : /\ serve'[t] = serve[t] /\ nameOf'[t] = nameOf[t]
                                  /\ pidOf'[t] = pidOf[t]
        BY <1>0, <2>1
    <2>4. serve'[s] = "booting" /\ nameOf'[s] = job[c].name /\ pidOf'[s] = p
        BY <1>0, <2>1
    <2>5. table'[p] = s /\ \A q \in Pids \ {p} : table'[q] = table[q]
        BY <1>0, <2>1
    <2>6. s \notin termed /\ \A t \in Serves : Running(t) => pidOf[t] # p
        BY <1>0, <2>1
    <2>7. \A q \in Pids : table[q] # s
        BY <1>0, <2>1
    <2>8. \A t \in Serves : serve'[t] # "unborn" => nameOf'[t] \in Names /\ pidOf'[t] \in Pids
        BY <1>0, <2>2, <2>3, <2>4
    <2>9. \A t \in Serves : Running(t)' => table'[pidOf'[t]] = t
        BY <1>0, <2>3, <2>4, <2>5, <2>6
    <2>10. \A q \in Pids :
            table'[q] \in Serves => /\ serve'[table'[q]] \in {"booting", "warming", "up"}
                                    /\ pidOf'[table'[q]] = q
        <3> TAKE q \in Pids
        <3>1. CASE q = p
            BY <2>4, <2>5, <3>1
        <3>2. CASE q # p
            <4>1. table'[q] = table[q] /\ table[q] # s
                BY <2>5, <2>7, <3>2
            <4> QED BY <1>0, <2>3, <4>1
        <3> QED BY <3>1, <3>2
    <2> QED BY <1>0, <2>2, <2>3, <2>4, <2>5, <2>6, <2>8, <2>9, <2>10
<1>6. ASSUME NEW p \in Pids, Recycle(p) PROVE ProcessesOK'
    <2>1. /\ UNCHANGED <<serve, nameOf, pidOf, termed>>
          /\ table' = [table EXCEPT ![p] = Other] \/ table' = [table EXCEPT ![p] = Nobody]
          /\ table[p] \notin Serves
        BY <1>6 DEF Recycle
    <2> QED BY <1>0, <2>1
<1> QED BY <1>1, <1>2, <1>3, <1>4, <1>5, <1>6, ServeStep

\* Where the values of the registry, its copies and the jobs come from.
LEMMA EntrySources ==
    ASSUME ProcInv, NEW c \in Clients, NEW n \in Names, ClientStep(c)
    PROVE  /\ reg'[n] \in {reg[n], copy[c][n]} \union ({"attached"} \X Chromes)
           /\ \/ copy'[c][n] \in {copy[c][n], reg[n], NoEntry}
              \/ job[c].serve # NoServe /\ copy'[c][n] = Spawned(job[c].serve)
<1> USE DEF ProcInv, TypeInv, ValuesOK, Goto, GiveUp, Unlock
<1>1. CASE Operation(c)
    <2>1. ASSUME NEW j, Begin(c, j) PROVE UNCHANGED <<reg, copy>>
        BY <2>1 DEF Begin
    <2>2. CASE ResolveSession(c)
        BY <2>2 DEF ResolveSession
    <2> QED BY <1>1, <2>1, <2>2 DEF Operation, AcquireSession, StopSession,
           PruneSessions, KillAllSessions, AttachSession
<1>2. CASE Load(c) \/ LoadFails(c) \/ EachEntry(c)
    BY <1>2 DEF Load, LoadFails, EachEntry
<1>3. CASE EntryAlive(c) \/ EntryKilled(c) \/ EntryMissing(c) \/ KillSessionProcess(c)
    BY <1>3 DEF EntryAlive, EntryKilled, EntryMissing, KillSessionProcess
<1>4. CASE WaitSessionDead(c) \/ ClearProfileLock(c) \/ Spawn(c) \/ SpawnFails(c)
    BY <1>4 DEF WaitSessionDead, ClearProfileLock, Spawn, SpawnFails
<1>5. CASE Ready(c)
    BY <1>5 DEF Ready, JobOK
<1>6. CASE NeverReady(c) \/ SaveFails(c)
    BY <1>6 DEF NeverReady, SaveFails
<1>7. CASE Save(c)
    <2>1. job[c].op = "attach" => job[c].chrome \in Chromes
        BY <1>7 DEF Save, JobOK
    <2> QED BY <1>7, <2>1 DEF Save, Attached
<1>8. CASE SessionAttached(c) \/ ForeignChrome(c) \/ Finish(c) \/ Killed(c)
    BY <1>8 DEF SessionAttached, ForeignChrome, Finish, Killed
<1> QED BY <1>1, <1>2, <1>3, <1>4, <1>5, <1>6, <1>7, <1>8 DEF ClientStep, Locked

\* A client gets a child by spawning it; losing it needs a save, a failure or
\* its end.
LEMMA ChildSources ==
    ASSUME ProcInv, NEW c \in Clients, ClientStep(c)
    PROVE  \/ job'[c].serve = NoServe
           \/ /\ job'[c].serve = job[c].serve /\ job'[c].name = job[c].name
              /\ job[c].serve # NoServe
              /\ Ready(c) \/ UNCHANGED <<copy, pc>>
           \/ Spawn(c) /\ pc'[c] = "ready"
<1> USE DEF ProcInv, TypeInv, ValuesOK, Goto, GiveUp, NoJob, Jobs
<1>0. JobOK(c)
    OBVIOUS
<1>1. CASE Operation(c)
    <2>1. ASSUME NEW j \in Jobs, Begin(c, j), j.serve = NoServe PROVE job'[c].serve = NoServe
        BY <2>1 DEF Begin
    <2>2. CASE ResolveSession(c)
        BY <2>2 DEF ResolveSession
    <2>3. CASE AttachSession(c)
        BY <2>1, <2>3 DEF AttachSession
    <2>4. CASE AcquireSession(c)
        BY <2>1, <2>4 DEF AcquireSession
    <2>5. CASE StopSession(c)
        BY <2>1, <2>5 DEF StopSession
    <2>6. CASE PruneSessions(c) \/ KillAllSessions(c)
        BY <2>1, <2>6 DEF PruneSessions, KillAllSessions
    <2> QED BY <1>1, <2>2, <2>3, <2>4, <2>5, <2>6 DEF Operation
<1>2. ASSUME pc[c] \notin {"ready", "save"} PROVE job[c].serve = NoServe
    BY <1>0, <1>2 DEF JobOK
<1>3. CASE Load(c) \/ LoadFails(c) \/ EachEntry(c)
    <2>1. job[c].serve = NoServe
        BY <1>2, <1>3 DEF Load, LoadFails, EachEntry
    <2>2. CASE Load(c) \/ LoadFails(c)
        BY <2>1, <2>2 DEF Load, LoadFails
    <2>3. CASE EachEntry(c)
        <3>1. CASE job[c].todo = {}
            BY <2>1, <2>3, <3>1 DEF EachEntry
        <3>2. CASE job[c].todo # {}
            <4>1. PICK n \in job[c].todo :
                    job' = [job EXCEPT ![c].name = n, ![c].todo = @ \ {n}]
                BY <2>3, <3>2 DEF EachEntry
            <4>2. job'[c] = [job[c] EXCEPT !.name = n, !.todo = job[c].todo \ {n}]
                BY <4>1
            <4> QED BY <2>1, <4>2
        <3> QED BY <3>1, <3>2
    <2> QED BY <1>3, <2>2, <2>3
<1>4. CASE EntryAlive(c) \/ EntryKilled(c) \/ EntryMissing(c) \/ KillSessionProcess(c)
           \/ WaitSessionDead(c) \/ ClearProfileLock(c) \/ SpawnFails(c)
           \/ SessionAttached(c) \/ ForeignChrome(c)
    BY <1>2, <1>4 DEF EntryAlive, EntryKilled, EntryMissing, KillSessionProcess,
       WaitSessionDead, ClearProfileLock, SpawnFails, SessionAttached, ForeignChrome
<1>5. CASE Spawn(c)
    BY <1>5 DEF Spawn
<1>6. CASE Ready(c)
    BY <1>0, <1>6 DEF Ready, JobOK
<1>7. CASE NeverReady(c) \/ SaveFails(c) \/ Finish(c) \/ Killed(c)
    BY <1>7 DEF NeverReady, SaveFails, Finish, Killed
<1>8. CASE Save(c)
    BY <1>8 DEF Save
<1> QED BY <1>1, <1>3, <1>4, <1>5, <1>6, <1>7, <1>8 DEF ClientStep, Locked


\* Started, of an entry, after a step.
StartedThen(e) == IsSpawned(e) => serve'[ChromeOf(e)] # "unborn"

LEMMA StartedNext == ProcInv /\ [Next]_vars => StartedOK'
<1> SUFFICES ASSUME ProcInv, [Next]_vars PROVE StartedOK'
    OBVIOUS
<1>0. \A s \in Serves : serve[s] # "unborn" => serve'[s] # "unborn"
    BY ServesAge DEF Older
<1>1. ASSUME NEW e \in Entries, Started(e) PROVE StartedThen(e)
    <2>1. IsSpawned(e) => ChromeOf(e) \in Serves
        BY ChromeOfType DEF IsSpawned
    <2> QED BY <1>0, <1>1, <2>1 DEF Started, StartedThen
<1>2. /\ \A n \in Names : StartedThen(reg[n])
      /\ \A d \in Clients, n \in Names : StartedThen(copy[d][n])
    BY <1>1 DEF ProcInv, TypeInv, ValuesOK, StartedOK
<1>3. StartedThen(NoEntry) /\ \A x \in Chromes : StartedThen(<<"attached", x>>)
    BY DEF StartedThen, IsSpawned
<1>4. ASSUME NEW c \in Clients, job[c].serve # NoServe
      PROVE  serve'[job[c].serve] # "unborn"
    BY <1>0, <1>4, ChildType DEF ProcInv, StartedOK, ChildStarted
<1>5. CASE Outside
    <2>1. UNCHANGED <<reg, copy, job>>
        BY <1>5, OutsideClients DEF clientVars
    <2> QED BY <1>2, <1>4, <2>1 DEF StartedOK, Started, StartedThen, ChildStarted
<1>6. ASSUME NEW c \in Clients, ClientStep(c) PROVE StartedOK'
    <2>1. \A n \in Names : StartedThen(reg'[n])
        <3> TAKE n \in Names
        <3>1. reg'[n] \in {reg[n], copy[c][n]} \union ({"attached"} \X Chromes)
            BY <1>6, EntrySources
        <3> QED BY <1>2, <1>3, <3>1
    <2>2. \A d \in Clients, n \in Names : StartedThen(copy'[d][n])
        <3> TAKE d \in Clients, n \in Names
        <3>1. CASE d # c
            BY <1>2, <1>6, <3>1, OwnPartOnly DEF Elsewhere, ProcInv, TypeInv
        <3>2. CASE d = c
            <4>1. \/ copy'[c][n] \in {copy[c][n], reg[n], NoEntry}
                  \/ job[c].serve # NoServe /\ copy'[c][n] = Spawned(job[c].serve)
                BY <1>6, EntrySources
            <4>2. job[c].serve # NoServe => StartedThen(Spawned(job[c].serve))
                BY <1>4 DEF StartedThen, Spawned, ChromeOf
            <4> QED BY <1>2, <1>3, <3>2, <4>1, <4>2
        <3> QED BY <3>1, <3>2
    <2>3. \A d \in Clients : job'[d].serve # NoServe => serve'[job'[d].serve] # "unborn"
        <3> TAKE d \in Clients
        <3>1. CASE d # c
            BY <1>4, <1>6, <3>1, OwnPartOnly DEF Elsewhere, ProcInv, TypeInv
        <3>2. CASE d = c /\ Spawn(c)
            BY <3>2 DEF Spawn, ProcInv, TypeInv, ValuesOK
        <3>3. CASE d = c /\ ~Spawn(c)
            BY <1>4, <1>6, <3>3, ChildSources
        <3> QED BY <3>1, <3>2, <3>3
    <2> QED BY <2>1, <2>2, <2>3 DEF StartedOK, Started, StartedThen, ChildStarted
<1> QED BY <1>5, <1>6, WhoSteps

\* No step gives away the PID of a child.
LEMMA ChildPidNext ==
    ASSUME ProcInv, [Next]_vars, NEW c \in Clients, job[c].serve # NoServe
    PROVE  /\ nameOf'[job[c].serve] = job[c].name
           /\ table'[pidOf'[job[c].serve]] \in {job[c].serve, Nobody}
<1>0. PICK s \in Serves, p \in Pids : s = job[c].serve /\ p = pidOf[s]
    BY ChildType
<1>1. /\ serve[s] # "unborn" /\ nameOf[s] = job[c].name /\ table[p] \in {s, Nobody}
      /\ table \in [Pids -> Serves \union {Nobody, Other}]
    BY <1>0 DEF ProcInv, TypeInv, ValuesOK, StartedOK, ChildStarted, ChildOK
<1>2. nameOf'[s] = job[c].name /\ pidOf'[s] = p
    BY <1>0, <1>1, ServesAge DEF Older
<1>3. job[c].serve # NoServe
    OBVIOUS
<1>4. ASSUME UNCHANGED serveVars PROVE table'[p] \in {s, Nobody}
    BY <1>1, <1>4 DEF serveVars
<1>5. ASSUME NEW t \in Serves, SignalStep(t) \/ GoneStep(t) PROVE table'[p] \in {s, Nobody}
    BY <1>1, <1>5 DEF SignalStep, GoneStep, Signal, Gone
<1>6. ASSUME NEW t \in Serves, Launch(t) \/ Warm(t) PROVE table'[p] \in {s, Nobody}
    BY <1>1, <1>6 DEF Launch, Warm
<1>7. ASSUME NEW d \in Clients, Spawn(d) PROVE table'[p] \in {s, Nobody}
    <2>1. PICK t \in Serves, q \in Pids : Spawn(d)!2!(t, q)
        BY <1>7 DEF Spawn
    <2>2. q # p
        BY <1>0, <1>3, <2>1
    <2> QED BY <1>1, <2>1, <2>2
<1>8. ASSUME NEW q \in Pids, Recycle(q) PROVE table'[p] \in {s, Nobody}
    <2>1. \/ table' = [table EXCEPT ![q] = Other] /\ q # p
          \/ table' = [table EXCEPT ![q] = Nobody]
        BY <1>0, <1>3, <1>8 DEF Recycle
    <2> QED BY <1>1, <2>1
<1>9. table'[p] \in {s, Nobody}
    BY <1>4, <1>5, <1>6, <1>7, <1>8, ServeStep
<1> QED BY <1>0, <1>2, <1>9

LEMMA ChildNext ==
    ASSUME ProcInv, [Next]_vars, NEW c \in Clients
    PROVE  ChildOK(c)'
<1>0. ChildOK(c) /\ JobOK(c)
    BY DEF ProcInv, TypeInv
<1>1. CASE UNCHANGED <<pc[c], job[c], copy[c]>>
    BY <1>0, <1>1, ChildPidNext DEF ChildOK
<1>2. CASE Outside
    BY <1>1, <1>2, OutsideClients DEF clientVars
<1>3. ASSUME NEW d \in Clients, d # c, ClientStep(d) PROVE ChildOK(c)'
    BY <1>1, <1>3, OwnPartOnly DEF Elsewhere, ProcInv, TypeInv
<1>4. CASE Spawn(c)
    <2>1. PICK s \in Serves, p \in Pids : Spawn(c)!2!(s, p)
        BY <1>4 DEF Spawn
    <2>2. /\ job'[c].serve = s /\ job'[c].name = job[c].name /\ nameOf'[s] = job[c].name
          /\ pidOf'[s] = p /\ table'[p] = s
        BY <2>1 DEF ProcInv, TypeInv, ValuesOK, Jobs
    <2>3. pc'[c] = "ready"
        BY <1>4 DEF Spawn, Goto, ProcInv, TypeInv, ValuesOK
    <2> QED BY <2>2, <2>3 DEF ChildOK
<1>5. CASE Ready(c)
    <2>1. copy'[c][job[c].name] = Spawned(job[c].serve) /\ job'[c] = job[c]
        BY <1>0, <1>5 DEF Ready, ProcInv, TypeInv, ValuesOK, JobOK
    <2> QED BY <1>0, <2>1, ChildPidNext DEF ChildOK
<1>6. CASE ClientStep(c) /\ ~Spawn(c) /\ ~Ready(c)
    <2>1. \/ job'[c].serve = NoServe
          \/ /\ job'[c].serve = job[c].serve /\ job'[c].name = job[c].name
             /\ job[c].serve # NoServe /\ UNCHANGED <<copy, pc>>
        BY <1>6, ChildSources
    <2> QED BY <1>0, <2>1, ChildPidNext DEF ChildOK
<1> QED BY <1>2, <1>3, <1>4, <1>5, <1>6, WhoSteps

\* Who is about to signal has just looked, or was about to before.
LEMMA LookedBefore ==
    ASSUME ProcInv, [Next]_vars, NEW c \in Clients, pc'[c] = "kill"
    PROVE  \/ EntryKilled(c) /\ CmdlineIsSessionServe(Entry(c))
           \/ /\ pc[c] = "kill" /\ job'[c] = job[c] /\ copy'[c] = copy[c]
              /\ Outside \/ \E d \in Clients \ {c} : ClientStep(d)
<1>1. CASE Outside
    BY <1>1, OutsideClients DEF clientVars
<1>2. ASSUME NEW d \in Clients, d # c, ClientStep(d)
      PROVE  pc[c] = "kill" /\ job'[c] = job[c] /\ copy'[c] = copy[c]
    BY <1>2, OwnPartOnly DEF Elsewhere, ProcInv, TypeInv
<1>3. CASE ClientStep(c)
    <2>1. ASSUME NEW label, Goto(c, label) PROVE label = "kill"
        BY <2>1 DEF Goto, ProcInv, TypeInv, ValuesOK
    <2>2. ASSUME Operation(c) PROVE FALSE
        BY <2>1, <2>2 DEF Operation, AcquireSession, StopSession, PruneSessions,
           KillAllSessions, AttachSession, Begin, ResolveSession
    <2>3. ASSUME \/ Load(c) \/ LoadFails(c) \/ EachEntry(c) \/ EntryAlive(c)
                 \/ EntryMissing(c) \/ KillSessionProcess(c) \/ WaitSessionDead(c)
                 \/ ClearProfileLock(c)
          PROVE  FALSE
        BY <2>1, <2>3 DEF Load, LoadFails, EachEntry, EntryAlive, EntryMissing,
           KillSessionProcess, WaitSessionDead, ClearProfileLock, GiveUp
    <2>4. ASSUME \/ Spawn(c) \/ SpawnFails(c) \/ Ready(c) \/ NeverReady(c) \/ Save(c)
                 \/ SaveFails(c) \/ SessionAttached(c) \/ ForeignChrome(c) \/ Finish(c)
                 \/ Killed(c)
          PROVE  FALSE
        BY <2>1, <2>4 DEF Spawn, SpawnFails, Ready, NeverReady, Save, SaveFails, GiveUp,
           SessionAttached, ForeignChrome, Finish, Killed
    <2>5. EntryKilled(c)
        BY <1>3, <2>2, <2>3, <2>4 DEF ClientStep, Locked
    <2>6. CmdlineIsSessionServe(Entry(c))
        <3>1. ASSUME ~CmdlineIsSessionServe(Entry(c)) PROVE Goto(c, "waitDead")
            BY <2>5, <3>1 DEF EntryKilled
        <3> QED BY <2>1, <3>1
    <2> QED BY <2>5, <2>6
<1> QED BY <1>1, <1>2, <1>3, WhoSteps

LEMMA KillNext ==
    ASSUME ProcInv, [Next]_vars, NEW c \in Clients
    PROVE  KillOK(c)'
<1> SUFFICES ASSUME pc'[c] = "kill" PROVE IsSpawned(Entry(c))'
    BY DEF KillOK
<1>1. CASE EntryKilled(c) /\ CmdlineIsSessionServe(Entry(c))
    BY <1>1 DEF EntryKilled, CmdlineIsSessionServe, IsSpawned, Entry
<1>2. CASE pc[c] = "kill" /\ job'[c] = job[c] /\ copy'[c] = copy[c]
    BY <1>2 DEF ProcInv, KillOK, IsSpawned, Entry
<1> QED BY <1>1, <1>2, LookedBefore

LEMMA InitProcInv == Init => ProcInv
BY InitTypeInv DEF Init, ProcInv, ProcessesOK, StartedOK, Started, ChildStarted, ChildOK,
   KillOK, IsSpawned, Running, NoJob

LEMMA ProcInvNext == ProcInv /\ [Next]_vars => ProcInv'
<1> SUFFICES ASSUME ProcInv, [Next]_vars PROVE ProcInv'
    OBVIOUS
<1>1. TypeInv'
    BY TypeInvNext DEF ProcInv
<1>2. ProcessesOK' /\ StartedOK'
    BY ProcessesNext, StartedNext
<1>3. ASSUME NEW c \in Clients PROVE ChildOK(c)' /\ KillOK(c)'
    BY <1>3, ChildNext, KillNext
<1> QED BY <1>1, <1>2, <1>3 DEF ProcInv


LEMMA ProcInvAlways == Spec => []ProcInv
BY InitProcInv, ProcInvNext, PTL DEF Spec

\* Between the look and the signal the PID is the serve's or nobody's, unless
\* it has been given to another process since.
LookedOK(c) ==
    pc[c] = "kill" =>
        table[pidOf[ChromeOf(Entry(c))]] \in {ChromeOf(Entry(c)), Nobody} \/ taken

\* While one command looks and signals, no other can.
LEMMA TakenStays ==
    ASSUME ProcInv, NEW c \in Clients, pc[c] = "kill", taken,
           Outside \/ \E d \in Clients \ {c} : ClientStep(d)
    PROVE  taken'
<1> USE DEF ghostVars, GiveUp
<1>1. CASE Outside
    BY <1>1 DEF Outside, vars, Daemon, Launch, LaunchFails, Warm, Shutdown, ServeDies,
       ChromeDies, Recycle
<1>2. ASSUME NEW d \in Clients, d # c, ClientStep(d) PROVE taken'
    <2>1. pc[d] \notin Inside /\ flock # d
        BY <1>2 DEF ProcInv, TypeInv, FlockOK, Inside
    <2>2. ~EntryKilled(d) /\ ~KillSessionProcess(d)
        BY <2>1 DEF EntryKilled, KillSessionProcess, Inside
    <2>3. CASE Operation(d)
        BY <2>3 DEF Operation, AcquireSession, StopSession, PruneSessions,
           KillAllSessions, AttachSession, Begin, ResolveSession
    <2>4. CASE \/ Load(d) \/ LoadFails(d) \/ EachEntry(d) \/ EntryAlive(d)
               \/ EntryMissing(d) \/ WaitSessionDead(d) \/ ClearProfileLock(d)
        BY <2>4 DEF Load, LoadFails, EachEntry, EntryAlive, EntryMissing, WaitSessionDead,
           ClearProfileLock
    <2>5. CASE \/ Spawn(d) \/ SpawnFails(d) \/ Ready(d) \/ NeverReady(d) \/ Save(d)
               \/ SaveFails(d) \/ SessionAttached(d) \/ ForeignChrome(d) \/ Finish(d)
        BY <2>5 DEF Spawn, SpawnFails, Ready, NeverReady, Save, SaveFails,
           SessionAttached, ForeignChrome, Finish
    <2>6. CASE Killed(d)
        BY <2>1, <2>6 DEF Killed
    <2> QED BY <1>2, <2>2, <2>3, <2>4, <2>5, <2>6 DEF ClientStep, Locked
<1> QED BY <1>1, <1>2

LEMMA LookedNext ==
    ASSUME ProcInv, [Next]_vars, NEW c \in Clients, LookedOK(c)
    PROVE  LookedOK(c)'
<1> SUFFICES ASSUME pc'[c] = "kill"
             PROVE  (table[pidOf[ChromeOf(Entry(c))]] \in {ChromeOf(Entry(c)), Nobody}
                        \/ taken)'
    BY DEF LookedOK
<1>1. CASE EntryKilled(c) /\ CmdlineIsSessionServe(Entry(c))
    BY <1>1 DEF EntryKilled, CmdlineIsSessionServe, Entry, ChromeOf, serveVars
<1>2. CASE /\ pc[c] = "kill" /\ job'[c] = job[c] /\ copy'[c] = copy[c]
           /\ Outside \/ \E d \in Clients \ {c} : ClientStep(d)
    <2>0. PICK s \in Serves : s = ChromeOf(Entry(c)) /\ pidOf[s] \in Pids /\ serve[s] # "unborn"
        <3>1. job[c].name \in Names /\ IsSpawned(copy[c][job[c].name])
            BY <1>2 DEF ProcInv, TypeInv, JobOK, KillOK, Entry
        <3>2. serve[ChromeOf(Entry(c))] # "unborn"
            BY <3>1 DEF ProcInv, StartedOK, Started, Entry
        <3> QED BY <3>1, <3>2, EntryType DEF Entry
    <2>1. PICK p \in Pids : p = pidOf[s] /\ p = pidOf'[s]
        BY <2>0, ServesAge DEF Older
    <2>2. ChromeOf(Entry(c))' = s
        BY <1>2, <2>0 DEF ChromeOf, Entry
    <2>3. table \in [Pids -> Serves \union {Nobody, Other}]
        BY DEF ProcInv, TypeInv, ValuesOK
    <2>4. taken => taken'
        BY <1>2, TakenStays
    <2>5. SUFFICES ASSUME table[p] \in {s, Nobody} PROVE table'[p] \in {s, Nobody} \/ taken'
        BY <1>2, <2>0, <2>1, <2>2, <2>4 DEF LookedOK
    <2>6. CASE UNCHANGED serveVars
        BY <2>5, <2>6 DEF serveVars
    <2>7. ASSUME NEW t \in Serves, SignalStep(t) \/ GoneStep(t) PROVE table'[p] \in {s, Nobody}
        BY <2>3, <2>5, <2>7 DEF SignalStep, GoneStep, Signal, Gone
    <2>8. ASSUME NEW t \in Serves, Launch(t) \/ Warm(t) PROVE table'[p] \in {s, Nobody}
        BY <2>5, <2>8 DEF Launch, Warm
    <2>9. ASSUME NEW d \in Clients, Spawn(d) PROVE FALSE
        BY <1>2, <2>9 DEF Spawn, ProcInv, TypeInv, FlockOK, Inside
    <2>10. ASSUME NEW q \in Pids, Recycle(q) PROVE table'[p] \in {s, Nobody} \/ taken'
        <3>1. Looked(c, p)
            BY <1>2, <2>0, <2>1 DEF Looked
        <3>2. \/ table' = [table EXCEPT ![q] = Other] /\ (q = p => taken')
              \/ table' = [table EXCEPT ![q] = Nobody]
            BY <2>10, <3>1 DEF Recycle
        <3> QED BY <2>3, <2>5, <3>2
    <2> QED BY <2>6, <2>7, <2>8, <2>9, <2>10, ServeStep
<1> QED BY <1>1, <1>2, LookedBefore

SparedInv == ProcInv /\ (\A c \in Clients : LookedOK(c)) /\ NeverSignalsInnocent

\* killPID reaches no process that had the PID when killSessionProcess looked at
\* its command line and is not the serve, however the system reuses PIDs, nor
\* one that has the PID of a child: it stays the child's while the command runs.
\* What has taken the PID between the look and the signal is not spared.
THEOREM InnocentAreSpared == Spec => []NeverSignalsInnocent
<1>1. Init => SparedInv
    BY InitProcInv DEF Init, SparedInv, LookedOK, NeverSignalsInnocent
<1>2. SparedInv /\ [Next]_vars => SparedInv'
    <2> SUFFICES ASSUME SparedInv, [Next]_vars PROVE SparedInv'
        OBVIOUS
    <2>0. ProcInv /\ NeverSignalsInnocent
        BY DEF SparedInv
    <2>1. ASSUME UNCHANGED innocent PROVE NeverSignalsInnocent'
        BY <2>0, <2>1 DEF NeverSignalsInnocent
    <2>2. ASSUME NEW s, SignalPid(s), table[pidOf[s]] \in {s, Nobody} \/ taken
          PROVE  NeverSignalsInnocent'
        BY <2>0, <2>2 DEF SignalPid, NeverSignalsInnocent
    <2>3. ASSUME NEW c \in Clients, KillSessionProcess(c) PROVE NeverSignalsInnocent'
        <3>1. /\ SignalPid(ChromeOf(Entry(c)))
              /\ \/ table[pidOf[ChromeOf(Entry(c))]] \in {ChromeOf(Entry(c)), Nobody}
                 \/ taken
            BY <2>3 DEF SparedInv, LookedOK, KillSessionProcess
        <3> QED BY <2>2, <3>1
    <2>4. ASSUME NEW c \in Clients, job[c].serve # NoServe, SignalPid(job[c].serve)
          PROVE  NeverSignalsInnocent'
        BY <2>0, <2>2, <2>4 DEF ProcInv, ChildOK
    <2>5. ASSUME NEW c \in Clients, NeverReady(c) PROVE NeverSignalsInnocent'
        BY <2>0, <2>4, <2>5 DEF NeverReady, ProcInv, TypeInv, JobOK
    <2>6. ASSUME NEW c \in Clients, SaveFails(c) PROVE NeverSignalsInnocent'
        BY <2>0, <2>1, <2>4, <2>6 DEF SaveFails, ProcInv, TypeInv, JobOK
    <2>7. ASSUME NEW c \in Clients, Operation(c) PROVE UNCHANGED innocent
        BY <2>7 DEF Operation, AcquireSession, StopSession, PruneSessions, KillAllSessions,
           AttachSession, Begin, ResolveSession, ghostVars
    <2>8. ASSUME NEW c \in Clients,
                 \/ Load(c) \/ LoadFails(c) \/ EachEntry(c) \/ EntryAlive(c) \/ EntryKilled(c)
                 \/ EntryMissing(c) \/ WaitSessionDead(c) \/ ClearProfileLock(c)
          PROVE  UNCHANGED innocent
        BY <2>8 DEF Load, LoadFails, EachEntry, EntryAlive, EntryKilled, EntryMissing,
           WaitSessionDead, ClearProfileLock, ghostVars
    <2>9. ASSUME NEW c \in Clients,
                 \/ Spawn(c) \/ SpawnFails(c) \/ Ready(c) \/ Save(c)
                 \/ SessionAttached(c) \/ ForeignChrome(c) \/ Finish(c) \/ Killed(c)
          PROVE  UNCHANGED innocent
        BY <2>9 DEF Spawn, SpawnFails, Ready, Save, SessionAttached, ForeignChrome, Finish,
           Killed, ghostVars
    <2>10. ASSUME Outside PROVE UNCHANGED innocent
        BY <2>10 DEF Outside, vars, ghostVars, Daemon, Launch, LaunchFails, Warm, Shutdown,
           ServeDies, ChromeDies, Recycle
    <2>11. ASSUME NEW c \in Clients, ClientStep(c) PROVE NeverSignalsInnocent'
        BY <2>1, <2>3, <2>5, <2>6, <2>7, <2>8, <2>9, <2>11 DEF ClientStep, Locked
    <2>12. NeverSignalsInnocent'
        BY <2>1, <2>10, <2>11, WhoSteps
    <2>13. \A c \in Clients : LookedOK(c)'
        BY <2>0, LookedNext DEF SparedInv
    <2> QED BY <2>0, <2>12, <2>13, ProcInvNext DEF SparedInv
<1>3. SparedInv => NeverSignalsInnocent
    BY DEF SparedInv
<1> QED BY <1>1, <1>2, <1>3, PTL DEF Spec

-----------------------------------------------------------------------------
(***************************************************************************)
(* Profiles                                                                *)
(***************************************************************************)
\* A Chrome of a serve holds the lock of its profile.
ChromesOK ==
    \A s \in Serves \intersect chromes :
        serve[s] \notin {"unborn", "booting"} /\ profile[nameOf[s]] = s

LEMMA ChromesNext == ProcInv /\ ChromesOK /\ [Next]_vars => ChromesOK'
<1> SUFFICES ASSUME ProcInv, ChromesOK, [Next]_vars PROVE ChromesOK'
    OBVIOUS
<1>0. \A s \in Serves : Older(s)
    BY ServesAge
<1>1. /\ \A s \in Serves : serve[s] # "unborn" => nameOf[s] \in Names
      /\ profile \in [Names -> Serves \union {NoChrome}]
    BY DEF ProcInv, TypeInv, ValuesOK, ProcessesOK
<1>2. ASSUME chromes' \subseteq chromes,
             \A s \in Serves \intersect chromes' :
                profile[nameOf[s]] = s => profile'[nameOf[s]] = s
      PROVE  ChromesOK'
    BY <1>0, <1>2 DEF ChromesOK, Older
<1>3. CASE UNCHANGED <<chromes, profile>>
    BY <1>2, <1>3
<1>4. ASSUME NEW c \in Clients, ClearProfileLock(c) PROVE ChromesOK'
    <2>1. UNCHANGED chromes
        BY <1>4 DEF ClearProfileLock
    <2>2. ASSUME NEW s \in Serves \intersect chromes, profile[nameOf[s]] = s
          PROVE  profile'[nameOf[s]] = s
        <3>1. nameOf[s] \in Names
            BY <1>1 DEF ChromesOK
        <3> QED BY <1>1, <1>4, <2>2, <3>1 DEF ClearProfileLock
    <2> QED BY <1>2, <2>1, <2>2
<1>5. ASSUME NEW s \in Serves, Launch(s) PROVE ChromesOK'
    <2>1. /\ serve[s] = "booting" /\ profile[nameOf[s]] = NoChrome
          /\ serve' = [serve EXCEPT ![s] = "warming"] /\ chromes' = chromes \union {s}
          /\ profile' = [profile EXCEPT ![nameOf[s]] = s] /\ UNCHANGED nameOf
        BY <1>5 DEF Launch
    <2>2. ASSUME NEW t \in Serves \intersect chromes', t # s
          PROVE  serve'[t] \notin {"unborn", "booting"} /\ profile'[nameOf'[t]] = t
        <3>1. t \in chromes /\ nameOf[t] \in Names /\ nameOf[t] # nameOf[s]
            BY <1>1, <2>1, <2>2 DEF ChromesOK, Chromes
        <3> QED BY <1>1, <2>1, <2>2, <3>1 DEF ChromesOK, ProcInv, TypeInv, ValuesOK
    <2>3. serve'[s] = "warming" /\ profile'[nameOf'[s]] = s
        BY <1>1, <2>1 DEF ProcInv, TypeInv, ValuesOK
    <2> QED BY <2>2, <2>3 DEF ChromesOK
<1>6. ASSUME NEW s \in Serves, LaunchFails(s) \/ Warm(s) \/ Shutdown(s) \/ ServeDies(s)
      PROVE  ChromesOK'
    BY <1>2, <1>6 DEF LaunchFails, Warm, Shutdown, ServeDies
<1>7. ASSUME NEW x \in Chromes, ChromeDies(x) PROVE ChromesOK'
    <2>1. chromes' = chromes \ {x}
        BY <1>7 DEF ChromeDies
    <2>2. ASSUME NEW s \in Serves \intersect chromes', profile[nameOf[s]] = s
          PROVE  profile'[nameOf[s]] = s
        <3>1. s # x /\ nameOf[s] \in Names
            BY <1>1, <2>1 DEF ChromesOK
        <3> QED BY <1>1, <1>7, <2>2, <3>1 DEF ChromeDies
    <2> QED BY <1>2, <2>1, <2>2
<1>8. ASSUME NEW p \in Pids, Recycle(p) PROVE UNCHANGED <<chromes, profile>>
    BY <1>8 DEF Recycle
<1>9. ASSUME NEW c \in Clients, Operation(c) PROVE UNCHANGED <<chromes, profile>>
    BY <1>9 DEF Operation, AcquireSession, StopSession, PruneSessions, KillAllSessions,
       AttachSession, Begin, ResolveSession
<1>10. ASSUME NEW c \in Clients,
              \/ Load(c) \/ LoadFails(c) \/ EachEntry(c) \/ EntryAlive(c) \/ EntryKilled(c)
              \/ EntryMissing(c) \/ KillSessionProcess(c) \/ WaitSessionDead(c)
              \/ NeverReady(c) \/ SaveFails(c)
       PROVE  UNCHANGED <<chromes, profile>>
    BY <1>10 DEF Load, LoadFails, EachEntry, EntryAlive, EntryKilled, EntryMissing,
       KillSessionProcess, WaitSessionDead, NeverReady, SaveFails
<1>11. ASSUME NEW c \in Clients,
              \/ Spawn(c) \/ SpawnFails(c) \/ Ready(c) \/ Save(c)
              \/ SessionAttached(c) \/ ForeignChrome(c) \/ Finish(c) \/ Killed(c)
       PROVE  UNCHANGED <<chromes, profile>>
    BY <1>11 DEF Spawn, SpawnFails, Ready, Save, SessionAttached, ForeignChrome, Finish,
       Killed
<1>12. CASE UNCHANGED vars
    BY <1>3, <1>12 DEF vars
<1> QED BY <1>3, <1>4, <1>5, <1>6, <1>7, <1>8, <1>9, <1>10, <1>11, <1>12
        DEF Next, Locked, Daemon

\* Two Chromes never run on one profile: a Chrome starts only on a profile whose
\* lock is free, and clearStaleProfileLock frees only what no live Chrome holds.
THEOREM ProfilesAreExclusive == Spec => []OneChromePerProfile
<1>1. Init => ChromesOK
    BY DEF Init, ChromesOK
<1>2. ChromesOK => OneChromePerProfile
    BY DEF ChromesOK, OneChromePerProfile
<1> QED BY <1>1, <1>2, ChromesNext, ProcInvAlways, PTL DEF Spec


-----------------------------------------------------------------------------
(***************************************************************************)
(* The registry                                                            *)
(***************************************************************************)
\* The serve of entry e, if any, is gone or on its way out; and after a step.
Ended(e) == IsSpawned(e) => ~Running(ChromeOf(e)) \/ ChromeOf(e) \in termed
EndedThen(e) ==
    IsSpawned(e) => \/ serve'[ChromeOf(e)] \notin {"booting", "warming", "up"}
                    \/ ChromeOf(e) \in termed'

\* Under the flock the copy of the registry is the file, but for entries whose
\* serve has ended and, in an operation on one name, only at that name.
SameOrEnded(c) ==
    \A n \in Names :
        \/ copy[c][n] = reg[n]
        \/ Ended(reg[n]) /\ (job[c].op \in Single => n = job[c].name)

\* From the signal to the save the entry in the file is that of an ended serve.
Replaces(c) ==
    \/ pc[c] \in {"waitDead", "clear", "spawn", "ready"}
    \/ pc[c] = "save" /\ job[c].op = "acquire"

CopyOK(c) ==
    /\ pc[c] \in Inside => SameOrEnded(c)
    /\ Replaces(c) => Ended(reg[job[c].name])

RegInv == ProcInv /\ (\A c \in Clients : CopyOK(c)) /\ NoForgottenServe

LEMMA EndedStays ==
    ASSUME ProcInv, [Next]_vars, NEW n \in Names, Ended(reg[n])
    PROVE  EndedThen(reg[n])
<1>1. CASE ~IsSpawned(reg[n])
    BY <1>1 DEF EndedThen
<1>2. CASE IsSpawned(reg[n])
    <2>1. PICK s \in Serves : s = ChromeOf(reg[n]) /\ serve[s] # "unborn"
        BY <1>2, ChromeOfType DEF ProcInv, TypeInv, ValuesOK, StartedOK, Started, IsSpawned
    <2>2. serve[s] = "gone" \/ s \in termed
        BY <1>2, <2>1 DEF Ended, Running, ProcInv, TypeInv, ValuesOK, ServeLabels
    <2> QED BY <2>1, <2>2, ServesAge DEF Older, EndedThen
<1> QED BY <1>1, <1>2

\* The file is written by the holder of the flock alone.
LEMMA OnlySaveWrites ==
    ASSUME ProcInv, NEW c \in Clients, ClientStep(c)
    PROVE  reg' = reg \/ Save(c)
<1> USE DEF GiveUp
<1>1. CASE Operation(c)
    BY <1>1 DEF Operation, AcquireSession, StopSession, PruneSessions, KillAllSessions,
       AttachSession, Begin, ResolveSession
<1>2. CASE Load(c) \/ LoadFails(c) \/ EachEntry(c) \/ EntryAlive(c) \/ EntryKilled(c)
           \/ EntryMissing(c) \/ KillSessionProcess(c) \/ WaitSessionDead(c)
    BY <1>2 DEF Load, LoadFails, EachEntry, EntryAlive, EntryKilled, EntryMissing,
       KillSessionProcess, WaitSessionDead
<1>3. CASE ClearProfileLock(c) \/ Spawn(c) \/ SpawnFails(c) \/ Ready(c) \/ NeverReady(c)
           \/ SaveFails(c)
    BY <1>3 DEF ClearProfileLock, Spawn, SpawnFails, Ready, NeverReady, SaveFails
<1>4. CASE SessionAttached(c) \/ ForeignChrome(c) \/ Finish(c) \/ Killed(c)
    BY <1>4 DEF SessionAttached, ForeignChrome, Finish, Killed
<1> QED BY <1>1, <1>2, <1>3, <1>4 DEF ClientStep, Locked

LEMMA FlockHolder ==
    ASSUME ProcInv, NEW c \in Clients, NEW d \in Clients, pc[c] \in Inside, pc[d] \in Inside
    PROVE  c = d
BY DEF ProcInv, TypeInv, FlockOK

\* killSessionProcess ends the serve of the entry it is given: it signals the
\* PID, or the serve no longer has it.
LEMMA KilledEnds ==
    ASSUME ProcInv, [Next]_vars, NEW c \in Clients,
           \/ KillSessionProcess(c)
           \/ EntryKilled(c) /\ IsSpawned(Entry(c)) /\ ~CmdlineIsSessionServe(Entry(c))
    PROVE  EndedThen(Entry(c))
<1>1. job[c].name \in Names /\ IsSpawned(copy[c][job[c].name])
    BY DEF ProcInv, TypeInv, JobOK, KillOK, EntryKilled, KillSessionProcess, Entry
<1>2. PICK s \in Serves : s = ChromeOf(Entry(c)) /\ pidOf[s] \in Pids /\ serve[s] # "unborn"
    BY <1>1, EntryType DEF Entry, ProcInv, StartedOK, Started
<1>3. CASE ~Running(s)
    <2>1. serve'[s] = "gone"
        BY <1>2, <1>3, ServesAge DEF Older, Running, ProcInv, TypeInv, ValuesOK, ServeLabels
    <2> QED BY <1>2, <2>1 DEF EndedThen
<1>4. CASE Running(s)
    <2>1. table[pidOf[s]] = s
        BY <1>4 DEF ProcInv, ProcessesOK
    <2>2. SignalPid(s)
        BY <1>1, <1>2, <2>1 DEF EntryKilled, KillSessionProcess, CmdlineIsSessionServe
    <2>3. Signal(s)
        BY <2>1, <2>2 DEF SignalPid
    <2>4. s \in termed' \/ serve'[s] = "gone"
        BY <2>3 DEF Signal, ProcInv, TypeInv, ValuesOK
    <2> QED BY <1>2, <2>4 DEF EndedThen
<1> QED BY <1>3, <1>4

LEMMA CopyNext ==
    ASSUME ProcInv, \A d \in Clients : CopyOK(d), [Next]_vars, NEW c \in Clients
    PROVE  CopyOK(c)'
<1>0. CopyOK(c) /\ JobOK(c) /\ (Replaces(c) => job[c].name \in Names /\ pc[c] \in Inside)
    BY DEF ProcInv, TypeInv, JobOK, Replaces, Single, Inside
<1>1. CASE UNCHANGED <<pc[c], job[c], copy[c]>> /\ (pc[c] \in Inside => reg' = reg)
    <2>1. pc[c] \in Inside => SameOrEnded(c)'
        BY <1>0, <1>1, EndedStays DEF CopyOK, SameOrEnded, Ended, EndedThen, Running
    <2>2. Replaces(c) => Ended(reg[job[c].name])'
        BY <1>0, <1>1, EndedStays DEF CopyOK, Ended, EndedThen, Running
    <2> QED BY <1>1, <2>1, <2>2 DEF CopyOK, Replaces
<1>2. CASE Outside
    BY <1>1, <1>2, OutsideClients DEF clientVars
<1>3. ASSUME NEW d \in Clients, d # c, ClientStep(d) PROVE CopyOK(c)'
    <2>1. UNCHANGED <<pc[c], job[c], copy[c]>>
        BY <1>3, OwnPartOnly DEF Elsewhere, ProcInv, TypeInv
    <2>2. Save(d) => pc[d] \in Inside
        BY DEF Save, Inside
    <2>3. pc[c] \in Inside => reg' = reg
        BY <1>3, <2>2, OnlySaveWrites, FlockHolder
    <2> QED BY <1>1, <2>1, <2>3
<1>4. ASSUME NEW label, Goto(c, label) PROVE pc'[c] = label
    BY <1>4 DEF Goto, ProcInv, TypeInv, ValuesOK
\* The client stays under the flock: what is left to show.
<1>5. ASSUME pc[c] \in Inside, reg' = reg, job'[c] = job[c] \/ job[c].op \notin Single,
             job'[c].op = job[c].op,
             \A n \in Names : \/ copy'[c][n] = copy[c][n]
                              \/ EndedThen(reg[n]) /\ (job[c].op \in Single => n = job[c].name)
      PROVE  SameOrEnded(c)'
    BY <1>0, <1>5, EndedStays DEF CopyOK, SameOrEnded, Ended, EndedThen, Running
<1>6. ASSUME reg' = reg, job'[c].name = job[c].name, EndedThen(reg[job[c].name])
      PROVE  Ended(reg[job[c].name])'
    BY <1>6 DEF Ended, EndedThen, Running
<1>7. CASE Load(c)
    <2>1. copy'[c] = reg /\ reg' = reg
        BY <1>7 DEF Load, ProcInv, TypeInv, ValuesOK
    <2>2. job'[c].op = job[c].op
        BY <1>7 DEF Load, ProcInv, TypeInv, ValuesOK, Jobs
    <2>3. pc'[c] \in {"save", "each", "entry"} /\ (pc'[c] = "save" => job[c].op = "attach")
        BY <1>4, <1>7 DEF Load
    <2> QED BY <2>1, <2>2, <2>3 DEF CopyOK, SameOrEnded, Replaces
<1>8. CASE EachEntry(c)
    <2>1. pc[c] = "each" /\ job[c].op \in {"prune", "killall"} /\ UNCHANGED <<reg, copy>>
        BY <1>0, <1>8 DEF EachEntry, JobOK
    <2>2. pc'[c] \in {"save", "entry"}
        BY <1>4, <1>8 DEF EachEntry
    <2>3. job'[c].op = job[c].op
        <3>1. CASE job[c].todo = {}
            BY <1>8, <3>1 DEF EachEntry
        <3>2. CASE job[c].todo # {}
            <4>1. PICK n \in job[c].todo :
                    job' = [job EXCEPT ![c].name = n, ![c].todo = @ \ {n}]
                BY <1>8, <3>2 DEF EachEntry
            <4>2. job'[c] = [job[c] EXCEPT !.name = n, !.todo = job[c].todo \ {n}]
                BY <4>1 DEF ProcInv, TypeInv, ValuesOK
            <4> QED BY <4>2 DEF ProcInv, TypeInv, ValuesOK, Jobs
        <3> QED BY <3>1, <3>2
    <2>4. SameOrEnded(c)'
        BY <1>5, <2>1, <2>3 DEF Inside, Single
    <2> QED BY <2>1, <2>2, <2>3, <2>4 DEF CopyOK, Replaces
<1>9. CASE EntryAlive(c)
    <2>1. CASE job[c].op = "prune"
        <3>1. pc'[c] = "each" /\ UNCHANGED <<reg, copy, job>> /\ pc[c] \in Inside
            BY <1>4, <1>9, <2>1 DEF EntryAlive, Inside
        <3> QED BY <1>5, <3>1 DEF CopyOK, Replaces
    <2>2. CASE job[c].op # "prune"
        <3>1. pc'[c] = "check"
            BY <1>4, <1>9, <2>2 DEF EntryAlive
        <3> QED BY <3>1 DEF CopyOK, Replaces, Inside
    <2> QED BY <2>1, <2>2
<1>10. CASE EntryKilled(c) \/ KillSessionProcess(c)
    <2>1. UNCHANGED <<reg, copy, job>> /\ pc[c] \in Inside /\ job[c].name \in Names
        BY <1>0, <1>10 DEF EntryKilled, KillSessionProcess, Inside, JobOK
    <2>2. SameOrEnded(c)'
        BY <1>5, <2>1
    <2>3. CASE EntryKilled(c) /\ CmdlineIsSessionServe(Entry(c))
        <3>1. pc'[c] = "kill"
            BY <1>4, <2>3 DEF EntryKilled
        <3> QED BY <2>2, <3>1 DEF CopyOK, Replaces
    <2>4. CASE KillSessionProcess(c) \/ ~CmdlineIsSessionServe(Entry(c))
        <3>1. EndedThen(Entry(c))
            BY <1>10, <2>4, KilledEnds DEF EndedThen
        <3>2. EndedThen(reg[job[c].name])
            <4>1. CASE reg[job[c].name] = Entry(c)
                BY <3>1, <4>1
            <4>2. CASE reg[job[c].name] # Entry(c)
                BY <1>0, <2>1, <4>2, EndedStays DEF CopyOK, SameOrEnded, Entry
            <4> QED BY <4>1, <4>2
        <3> QED BY <1>6, <2>1, <2>2, <3>2 DEF CopyOK
    <2> QED BY <1>10, <2>3, <2>4
<1>11. CASE EntryMissing(c)
    <2>1. CASE job[c].op = "acquire"
        <3>1. pc'[c] = "clear" /\ UNCHANGED <<reg, copy, job>> /\ pc[c] \in Inside
            BY <1>4, <1>11, <2>1 DEF EntryMissing, Inside
        <3>2. job[c].name \in Names
            BY <1>0, <1>11 DEF EntryMissing, JobOK
        <3>3. EndedThen(reg[job[c].name])
            <4>1. CASE reg[job[c].name] = Entry(c)
                BY <1>11, <4>1 DEF EntryMissing, EndedThen, IsSpawned
            <4>2. CASE reg[job[c].name] # Entry(c)
                BY <1>0, <3>1, <3>2, <4>2, EndedStays DEF CopyOK, SameOrEnded, Entry
            <4> QED BY <4>1, <4>2
        <3> QED BY <1>5, <1>6, <3>1, <3>3 DEF CopyOK
    <2>2. CASE job[c].op # "acquire"
        <3>1. pc'[c] = "idle"
            BY <1>4, <1>11, <2>2 DEF EntryMissing, GiveUp
        <3> QED BY <3>1 DEF CopyOK, Replaces, Inside
    <2> QED BY <2>1, <2>2
<1>12. ASSUME Replaces(c), UNCHANGED <<reg>>, job'[c].op = job[c].op, job'[c].name = job[c].name,
              job'[c] = job[c] \/ Spawn(c),
              \A n \in Names \ {job[c].name} : copy'[c][n] = copy[c][n]
       PROVE  CopyOK(c)'
    <2>1. EndedThen(reg[job[c].name])
        BY <1>0, <1>12, EndedStays DEF CopyOK
    <2>2. Ended(reg[job[c].name])'
        BY <1>6, <1>12, <2>1
    <2>3. SameOrEnded(c)'
        BY <1>0, <1>12, <2>1, EndedStays DEF CopyOK, SameOrEnded, Ended, EndedThen, Running
    <2> QED BY <2>2, <2>3 DEF CopyOK
<1>13. CASE WaitSessionDead(c) \/ Ready(c)
    <2>1. UNCHANGED <<reg, job>> /\ Replaces(c)
        BY <1>13 DEF WaitSessionDead, Ready, Replaces
    <2>2. \A n \in Names \ {job[c].name} : copy'[c][n] = copy[c][n]
        BY <1>13 DEF WaitSessionDead, Ready, ProcInv, TypeInv, ValuesOK
    <2> QED BY <1>12, <2>1, <2>2
<1>14. CASE ClearProfileLock(c)
    BY <1>12, <1>14 DEF ClearProfileLock, Replaces
<1>15. CASE Spawn(c)
    <2>1. UNCHANGED <<reg, copy>> /\ Replaces(c)
        BY <1>15 DEF Spawn, Replaces
    <2>2. job'[c].op = job[c].op /\ job'[c].name = job[c].name
        BY <1>15 DEF Spawn, ProcInv, TypeInv, ValuesOK, Jobs
    <2> QED BY <1>12, <1>15, <2>1, <2>2
<1>16. CASE Operation(c)
    <2>1. pc'[c] \in {"lock", "check"}
        BY <1>4, <1>16 DEF Operation, AcquireSession, StopSession, PruneSessions,
           KillAllSessions, AttachSession, Begin, ResolveSession
    <2> QED BY <2>1 DEF CopyOK, Replaces, Inside
<1>17. CASE LoadFails(c) \/ SpawnFails(c) \/ NeverReady(c) \/ Save(c) \/ SaveFails(c)
            \/ SessionAttached(c) \/ ForeignChrome(c) \/ Finish(c) \/ Killed(c)
    <2>1. pc'[c] \in {"idle", "check", "using"}
        BY <1>4, <1>17 DEF LoadFails, SpawnFails, NeverReady, Save, SaveFails, GiveUp,
           SessionAttached, ForeignChrome, Finish, Killed
    <2> QED BY <2>1 DEF CopyOK, Replaces, Inside
<1> QED BY <1>2, <1>3, <1>7, <1>8, <1>9, <1>10, <1>11, <1>13, <1>14, <1>15, <1>16, <1>17,
        WhoSteps DEF ClientStep, Locked


\* The serves that may run unregistered.
Excused == abandoned \union unlisted \union termed

LEMMA SpawnedEntry ==
    ASSUME NEW s \in Serves PROVE IsSpawned(Spawned(s)) /\ ChromeOf(Spawned(s)) = s
<1>1. Spawned(s) # NoEntry
    BY DEF Spawned, Chromes
<1> QED BY <1>1 DEF IsSpawned, Spawned, ChromeOf

LEMMA GhostsGrow ==
    [Next]_vars => abandoned \subseteq abandoned' /\ unlisted \subseteq unlisted'
<1> USE DEF ghostVars, GiveUp
<1> SUFFICES ASSUME [Next]_vars
             PROVE  abandoned \subseteq abandoned' /\ unlisted \subseteq unlisted'
    OBVIOUS
<1>1. ASSUME NEW c \in Clients, Operation(c) PROVE UNCHANGED <<abandoned, unlisted>>
    BY <1>1 DEF Operation, AcquireSession, StopSession, PruneSessions, KillAllSessions,
       AttachSession, Begin, ResolveSession
<1>2. ASSUME NEW c \in Clients,
             \/ Load(c) \/ LoadFails(c) \/ EachEntry(c) \/ EntryAlive(c) \/ EntryKilled(c)
             \/ EntryMissing(c) \/ KillSessionProcess(c) \/ WaitSessionDead(c)
      PROVE  UNCHANGED <<abandoned, unlisted>>
    BY <1>2 DEF Load, LoadFails, EachEntry, EntryAlive, EntryKilled, EntryMissing,
       KillSessionProcess, WaitSessionDead
<1>3. ASSUME NEW c \in Clients,
             \/ ClearProfileLock(c) \/ Spawn(c) \/ SpawnFails(c) \/ Ready(c)
             \/ NeverReady(c) \/ SaveFails(c)
             \/ SessionAttached(c) \/ ForeignChrome(c) \/ Finish(c)
      PROVE  UNCHANGED <<abandoned, unlisted>>
    BY <1>3 DEF ClearProfileLock, Spawn, SpawnFails, Ready, NeverReady, SaveFails,
       SessionAttached, ForeignChrome, Finish
<1>4. ASSUME NEW c \in Clients, Save(c) \/ Killed(c)
      PROVE  abandoned \subseteq abandoned' /\ unlisted \subseteq unlisted'
    BY <1>4 DEF Save, Killed
<1>5. CASE Outside
    BY <1>5 DEF Outside, vars, Daemon, Launch, LaunchFails, Warm, Shutdown, ServeDies,
       ChromeDies, Recycle
<1> QED BY <1>1, <1>2, <1>3, <1>4, <1>5, WhoSteps DEF ClientStep, Locked

LEMMA ForgottenNext ==
    ASSUME RegInv, [Next]_vars
    PROVE  NoForgottenServe'
<1>0. ProcInv /\ NoForgottenServe
    BY DEF RegInv
<1> SUFFICES ASSUME NEW s \in Serves, s \notin Excused', Running(s)',
                    \A c \in Clients : job'[c].serve # s
             PROVE  reg'[nameOf'[s]] = Spawned(s)
    BY DEF NoForgottenServe, Excused
<1>1. CASE serve[s] = "unborn"
    <2>1. PICK c \in Clients : Spawn(c) /\ serve'[s] # serve[s]
        <3>1. ASSUME NEW t \in Serves, SignalStep(t) \/ GoneStep(t) \/ Launch(t) \/ Warm(t)
              PROVE  serve'[s] = serve[s]
            BY <1>1, <3>1 DEF SignalStep, Signal, GoneStep, Gone, Launch, Warm, Running,
               RegInv, ProcInv, TypeInv, ValuesOK
        <3>2. ASSUME NEW p \in Pids, Recycle(p) PROVE serve'[s] = serve[s]
            BY <3>2 DEF Recycle
        <3> QED BY <1>0, <1>1, <3>1, <3>2, ServeStep DEF serveVars, Running
    <2>2. PICK t \in Serves, p \in Pids : Spawn(c)!2!(t, p)
        BY <2>1 DEF Spawn
    <2>3. job'[c].serve = t /\ (s # t => serve'[s] = serve[s])
        BY <2>2 DEF RegInv, ProcInv, TypeInv, ValuesOK, Jobs
    <2> QED BY <2>1, <2>3
<1>2. CASE serve[s] # "unborn"
    <2>1. nameOf'[s] = nameOf[s] /\ nameOf[s] \in Names
        BY <1>0, <1>2, ServesAge DEF Older, ProcInv, ProcessesOK
    <2>2. Running(s) /\ s \notin Excused
        <3>1. s \notin termed
            BY <1>0, ServesAge DEF Older, Excused, Running
        <3>2. serve[s] # "gone"
            BY <1>0, ServesAge DEF Older, Running
        <3> QED BY <1>0, <1>2, <3>1, <3>2, GhostsGrow
                DEF Excused, Running, ProcInv, TypeInv, ValuesOK, ServeLabels
    <2>3. reg[nameOf[s]] = Spawned(s) \/ \E c \in Clients : job[c].serve = s
        BY <1>0, <2>2 DEF NoForgottenServe, Excused
    <2>4. ASSUME NEW c \in Clients, job[c].serve = s, ClientStep(c)
          PROVE  reg'[nameOf'[s]] = Spawned(s)
        <3>1. pc[c] = "ready" \/ (pc[c] = "save" /\ job[c].op = "acquire")
            BY <1>0, <2>4 DEF ProcInv, TypeInv, JobOK
        <3>2. nameOf[s] = job[c].name /\ (pc[c] = "save" => copy[c][job[c].name] = Spawned(s))
            BY <1>0, <2>4 DEF ProcInv, ChildOK
        <3>3. CASE Save(c)
            BY <2>1, <3>1, <3>2, <3>3 DEF Save
        <3>4. CASE NeverReady(c) \/ SaveFails(c)
            <4>1. SignalPid(s)
                BY <2>4, <3>1, <3>4 DEF NeverReady, SaveFails
            <4>2. table[pidOf[s]] = s
                BY <1>0, <2>2 DEF ProcInv, ProcessesOK
            <4>3. Signal(s)
                BY <4>1, <4>2 DEF SignalPid
            <4>4. s \in termed' \/ serve'[s] = "gone"
                BY <1>0, <4>3 DEF Signal, ProcInv, TypeInv, ValuesOK
            <4> QED BY <4>4 DEF Excused, Running
        <3>5. CASE Killed(c)
            BY <2>4, <3>5 DEF Killed, Excused
        <3>6. CASE Ready(c)
            BY <2>4, <3>6 DEF Ready
        <3>7. Save(c) \/ NeverReady(c) \/ SaveFails(c) \/ Killed(c) \/ Ready(c)
            <4>1. pc[c] \in {"ready", "save"}
                BY <3>1
            <4> QED BY <2>4, <4>1 DEF ClientStep, Locked, Operation, AcquireSession, StopSession,
                   PruneSessions, KillAllSessions, AttachSession, Begin, ResolveSession, Load,
                   LoadFails, EachEntry, EntryAlive, EntryKilled, EntryMissing,
                   KillSessionProcess, WaitSessionDead, ClearProfileLock, Spawn, SpawnFails, SessionAttached,
                   ForeignChrome, Finish
        <3> QED BY <3>3, <3>4, <3>5, <3>6, <3>7
    <2>5. ASSUME NEW c \in Clients, job[c].serve = s PROVE reg'[nameOf'[s]] = Spawned(s)
        <3>1. ASSUME NEW d \in Clients, d # c, ClientStep(d) PROVE FALSE
            BY <1>0, <2>5, <3>1, OwnPartOnly DEF Elsewhere, ProcInv, TypeInv
        <3>2. CASE Outside
            BY <2>5, <3>2, OutsideClients DEF clientVars
        <3> QED BY <2>4, <2>5, <3>1, <3>2, WhoSteps
    <2>6. ASSUME reg[nameOf[s]] = Spawned(s), NEW d \in Clients, ClientStep(d)
          PROVE  reg'[nameOf'[s]] = Spawned(s)
        <3>1. CASE reg' = reg
            BY <2>1, <2>6, <3>1
        <3>2. CASE Save(d)
            <4>1. ~Ended(reg[nameOf[s]])
                BY <2>2, <2>6, SpawnedEntry DEF Ended, Excused
            <4>2. copy[d][nameOf[s]] = Spawned(s)
                BY <2>1, <2>6, <3>2, <4>1 DEF Save, Inside, RegInv, CopyOK, SameOrEnded
            <4>3. job[d].op = "attach" => nameOf[s] # job[d].name
                BY <2>1, <3>2, <4>2, SpawnedEntry DEF Save, Excused
            <4>4. job[d].op = "attach" => job[d].name \in Names
                BY <1>0, <3>2 DEF Save, ProcInv, TypeInv, JobOK, Single
            <4> QED BY <1>0, <2>1, <3>2, <4>2, <4>3, <4>4 DEF Save, ProcInv, TypeInv, ValuesOK
        <3> QED BY <1>0, <2>6, <3>1, <3>2, OnlySaveWrites
    <2>7. ASSUME reg[nameOf[s]] = Spawned(s), Outside PROVE reg'[nameOf'[s]] = Spawned(s)
        BY <2>1, <2>7, OutsideClients
    <2> QED BY <2>3, <2>5, <2>6, <2>7, WhoSteps
<1> QED BY <1>1, <1>2

LEMMA RegInvAlways == Spec => []RegInv
<1>1. Init => RegInv
    BY InitProcInv DEF Init, RegInv, CopyOK, Replaces, Inside, NoForgottenServe, Running
<1>2. RegInv /\ [Next]_vars => RegInv'
    BY ProcInvNext, CopyNext, ForgottenNext DEF RegInv
<1> QED BY <1>1, <1>2, PTL DEF Spec

\* A serve that runs is registered under its name, being acquired or on its way
\* out: only a killed acquirer, or an `attach` over it, loses one.
THEOREM NoServeIsForgotten == Spec => []NoForgottenServe
BY RegInvAlways, PTL DEF RegInv

\* AcquireSession spawns a serve only once the last one of that name is gone or
\* signalled, with the same exceptions.
THEOREM SpawnsWhenGone == Spec => SpawnedOnlyWhenGone
<1> DEFINE A == \A s, t \in Serves :
        serve[s] = "unborn" /\ serve'[s] = "booting" /\ t # s /\ nameOf[t] = nameOf'[s]
        => ~Running(t) \/ t \in termed \union abandoned \union unlisted
<1>1. RegInv /\ [Next]_vars => A
    <2> SUFFICES ASSUME RegInv, [Next]_vars, NEW s \in Serves, NEW t \in Serves,
                        serve[s] = "unborn", serve'[s] = "booting", t # s,
                        nameOf[t] = nameOf'[s], Running(t), t \notin Excused
                 PROVE  FALSE
        BY DEF Excused
    <2>0. ProcInv /\ NoForgottenServe
        BY DEF RegInv
    <2>1. PICK c \in Clients : Spawn(c)
        <3>1. ASSUME NEW u \in Serves, SignalStep(u) \/ GoneStep(u) \/ Launch(u) \/ Warm(u)
              PROVE  serve'[s] # "booting"
            BY <2>0, <3>1 DEF SignalStep, Signal, GoneStep, Gone, Launch, Warm, Running,
               ProcInv, TypeInv, ValuesOK
        <3>2. ASSUME NEW p \in Pids, Recycle(p) PROVE serve'[s] # "booting"
            BY <3>2 DEF Recycle
        <3> QED BY <2>0, <3>1, <3>2, ServeStep DEF serveVars
    <2>2. nameOf'[s] = job[c].name
        <3>1. PICK u \in Serves, p \in Pids : Spawn(c)!2!(u, p)
            BY <2>1 DEF Spawn
        <3> QED BY <2>0, <3>1 DEF ProcInv, TypeInv, ValuesOK
    <2>3. pc[c] = "spawn" /\ job[c].serve = NoServe
        BY <2>0, <2>1 DEF Spawn, ProcInv, TypeInv, JobOK
    <2>4. Ended(reg[job[c].name])
        BY <2>3 DEF RegInv, CopyOK, Replaces
    <2>5. reg[job[c].name] # Spawned(t)
        BY <2>4, SpawnedEntry DEF Ended, Excused
    <2>6. PICK d \in Clients : job[d].serve = t
        BY <2>0, <2>2, <2>5 DEF NoForgottenServe, Excused
    <2>7. pc[d] \in Inside /\ pc[c] \in Inside
        BY <2>0, <2>3, <2>6 DEF ProcInv, TypeInv, JobOK, Inside
    <2> QED BY <2>0, <2>3, <2>6, <2>7, FlockHolder
<1> QED BY <1>1, RegInvAlways, PTL DEF Spec, SpawnedOnlyWhenGone

\* What an operation writes back for the names it is not about is what the file
\* holds: no update of another command is lost.
THEOREM OthersSurvive == Spec => OthersEntriesSurvive
<1> DEFINE A == \A c \in Clients, n \in Names :
        /\ pc[c] = "save" /\ pc'[c] # "save"
        /\ n # job[c].name /\ job[c].op \in {"acquire", "stop", "attach"}
        => reg'[n] = reg[n]
<1>1. RegInv /\ [Next]_vars => A
    <2> SUFFICES ASSUME RegInv, [Next]_vars, NEW c \in Clients, NEW n \in Names,
                        pc[c] = "save", pc'[c] # "save", n # job[c].name, job[c].op \in Single
                 PROVE  reg'[n] = reg[n]
        BY DEF Single
    <2>0. ProcInv
        BY DEF RegInv
    <2>1. copy[c][n] = reg[n]
        BY DEF RegInv, CopyOK, SameOrEnded, Inside
    <2>2. CASE Save(c)
        <3>1. job[c].name \in Names
            BY <2>0 DEF ProcInv, TypeInv, JobOK
        <3> QED BY <2>0, <2>1, <2>2, <3>1 DEF Save, ProcInv, TypeInv, ValuesOK
    <2>3. ASSUME ClientStep(c), ~Save(c) PROVE reg'[n] = reg[n]
        BY <2>0, <2>3, OnlySaveWrites
    <2>4. ASSUME NEW d \in Clients, d # c, ClientStep(d) PROVE FALSE
        BY <2>0, <2>4, OwnPartOnly DEF Elsewhere, ProcInv, TypeInv
    <2>5. CASE Outside
        BY <2>5, OutsideClients
    <2> QED BY <2>2, <2>3, <2>4, <2>5, WhoSteps
<1> QED BY <1>1, RegInvAlways, PTL DEF Spec, OthersEntriesSurvive


\* Both hold of every step: no command undoes what another has done.
THEOREM SessionsAreKept == Spec => SessionsSurvive
BY SpawnsWhenGone, OthersSurvive DEF SessionsSurvive
=============================================================================
