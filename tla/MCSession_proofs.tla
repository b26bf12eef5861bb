-------------------------- MODULE MCSession_proofs --------------------------
(* Proofs about the sessions and what outlives a command.  An instance is      *)
(* taken at an arbitrary record v of its constants, and its invariants hold    *)
(* for every v that meets the component's assumption; the families that the    *)
(* run checks follow.  What is proved of Setup, in Setup_proofs, is taken over *)
(* for the removal of an installation.                                         *)
EXTENDS MCSession, WellFoundedInduction, TLAPS

Tables(v) == [v.names -> Context(v)!Ids \union {Context(v)!NoId}]
Labels(v) ==
    {"idle", "load", "ask", "choose", "create", "dispose", "truncate", "write",
     "done", "failed"}
Jobs(v) ==
    [op : {"none", "acquire", "close"}, name : v.names,
     br : v.browsers \union {Context(v)!NoBrowser}]

ContextShape(v) ==
    /\ file \in Tables(v) /\ reg \in [v.procs -> Tables(v)]
    /\ torn \in BOOLEAN
    /\ made \subseteq Context(v)!Ids /\ living \in [v.browsers -> SUBSET made]
    /\ pc \in [v.procs -> Labels(v)] /\ job \in [v.procs -> Jobs(v)]
    /\ view \in [v.procs -> Context(v)!Ids \union {Context(v)!NoId}]
    /\ restarts \in 0..v.restarts /\ crashes \in 0..v.crashes

\* Somebody, or the file, remembers the context i under the name n.
Known(v, i, n) ==
    \/ file[n] = i
    \/ \E p \in v.procs : reg[p][n] = i
    \/ \E p \in v.procs : view[p] = i /\ job[p].name = n

KnownAreMade(v) ==
    \A i \in Context(v)!Ids, n \in v.names : Known(v, i, n) => i \in made
OneName(v) ==
    \A i \in Context(v)!Ids : \A n, m \in v.names :
       Known(v, i, n) /\ Known(v, i, m) => n = m
OneBrowser(v) ==
    \A b, c \in v.browsers : b # c => living[b] \intersect living[c] = {}
DisposeCloses(v) ==
    \A p \in v.procs :
       /\ pc[p] = "dispose" => job[p].op = "close"
       /\ pc[p] \in {"ask", "choose", "create"} => job[p].op = "acquire"
       /\ pc[p] = "load" => job[p].op # "none"
ContextInv(v) ==
    /\ ContextShape(v) /\ KnownAreMade(v) /\ OneName(v) /\ OneBrowser(v)
    /\ DisposeCloses(v)

\* ContextInv holds at first.
LEMMA ContextInit ==
    ASSUME NEW v, Context(v)!NamedContextsAssumption, Context(v)!Init
    PROVE  ContextInv(v)
<1>1. ContextShape(v)
  <2>1. Context(v)!NoJob \in Jobs(v)
    BY DEF Context!NamedContextsAssumption, Context!NoJob, Jobs
  <2>2. Context(v)!Empty \in Tables(v)
    BY DEF Context!Empty, Tables
  <2>3. v.restarts \in Nat /\ v.crashes \in Nat
    BY DEF Context!NamedContextsAssumption
  <2>4. file \in Tables(v) /\ reg \in [v.procs -> Tables(v)]
          /\ job \in [v.procs -> Jobs(v)]
    BY <2>1, <2>2 DEF Context!Init
  <2>5. living \in [v.browsers -> SUBSET made] /\ made \subseteq Context(v)!Ids
    BY DEF Context!Init
  <2>6. pc \in [v.procs -> Labels(v)]
          /\ view \in [v.procs -> Context(v)!Ids \union {Context(v)!NoId}]
    BY DEF Context!Init, Labels
  <2>7. torn \in BOOLEAN
    BY DEF Context!Init
  <2>8. restarts \in 0..v.restarts /\ crashes \in 0..v.crashes
    BY <2>3 DEF Context!Init
  <2>. QED BY <2>4, <2>5, <2>6, <2>7, <2>8 DEF ContextShape
<1>2. \A i \in Context(v)!Ids, n \in v.names : ~Known(v, i, n)
  BY DEF Context!Init, Known, Context!Empty, Context!Ids, Context!NoId
<1>. QED BY <1>1, <1>2
         DEF Context!Init, ContextInv, KnownAreMade, OneName, OneBrowser,
             DisposeCloses

\* Types, for every step (Start, Load, Choose, Incognito, Dispose and the rest).
LEMMA ContextShapeKeeps ==
    ASSUME NEW v, Context(v)!NamedContextsAssumption, ContextShape(v),
           [Context(v)!Next]_(Context(v)!vars)
    PROVE  ContextShape(v)'
<1>. USE Context(v)!NamedContextsAssumption DEF Context!NamedContextsAssumption,
       ContextShape, Labels, Tables, Context!Goto
<1>0. Context(v)!Empty \in Tables(v) /\ Context(v)!NoId \notin Context(v)!Ids
  BY DEF Context!Empty, Context!Ids, Context!NoId
<1>1. CASE UNCHANGED Context(v)!vars
  BY <1>1 DEF Context!vars, Context!commands
<1>2. ASSUME NEW p \in v.procs, Context(v)!Start(p) PROVE ContextShape(v)'
  BY <1>2 DEF Context!Start, Jobs
<1>3. ASSUME NEW p \in v.procs, Context(v)!Load(p) PROVE ContextShape(v)'
  BY <1>3 DEF Context!Load
<1>4. ASSUME NEW p \in v.procs, Context(v)!Ask(p) PROVE ContextShape(v)'
  BY <1>4 DEF Context!Ask
<1>5. ASSUME NEW p \in v.procs, Context(v)!Choose(p) PROVE ContextShape(v)'
  <2>1. job[p].name \in v.names /\ reg[p][job[p].name] \in Context(v)!Ids
          \union {Context(v)!NoId}
    BY DEF Jobs
  <2>2. CASE Context(v)!Return(p, "done")
    BY <1>0, <1>5, <2>1, <2>2 DEF Context!Choose, Context!Return
  <2>3. CASE Context(v)!Goto(p, "create") /\ UNCHANGED <<reg, live, view>>
    BY <1>5, <2>3 DEF Context!Choose
  <2>. QED BY <1>5, <2>2, <2>3 DEF Context!Choose
<1>6. ASSUME NEW p \in v.procs, Context(v)!Incognito(p) PROVE ContextShape(v)'
  <2>1. job[p].name \in v.names
    BY DEF Jobs
  <2>2. PICK i \in Context(v)!Ids \ made : /\ made' = made \union {i}
                                /\ living' = [living EXCEPT ![job[p].br] = @
                                    \union {i}]
                                /\ view' = [view EXCEPT ![p] = i]
                                /\ reg' = [reg EXCEPT ![p][job[p].name] = i]
    BY <1>6 DEF Context!Incognito
  <2>3. made' \subseteq Context(v)!Ids /\ living' \in [v.browsers -> SUBSET made']
    BY <2>2
  <2>. QED BY <1>6, <2>1, <2>2, <2>3 DEF Context!Incognito
<1>7. ASSUME NEW p \in v.procs, Context(v)!Dispose(p) PROVE ContextShape(v)'
  <2>1. job[p].name \in v.names /\ reg[p][job[p].name] \in Context(v)!Ids
          \union {Context(v)!NoId}
    BY DEF Jobs
  <2>2. living' \in [v.browsers -> SUBSET made]
    BY <1>7 DEF Context!Dispose
  <2>. QED BY <1>7, <2>1, <2>2 DEF Context!Dispose
<1>8. ASSUME NEW p \in v.procs, Context(v)!Truncate(p) \/ Context(v)!Write(p)
      PROVE  ContextShape(v)'
  <2>1. CASE Context(v)!Truncate(p)
    BY <2>1 DEF Context!Truncate
  <2>2. CASE Context(v)!Write(p)
    BY <1>0, <2>2 DEF Context!Write, Context!Return
  <2>. QED BY <1>8, <2>1, <2>2
<1>9. ASSUME NEW p \in v.procs, Context(v)!Fails(p) \/ Context(v)!Crash(p)
      PROVE  ContextShape(v)'
  <2>1. Context(v)!Ends(p) /\ crashes' \in 0..v.crashes
    BY <1>9 DEF Context!Fails, Context!Crash
  <2>. QED BY <1>0, <2>1 DEF Context!Ends, Context!Return
<1>10. ASSUME NEW b \in v.browsers, Context(v)!Restart(b) PROVE ContextShape(v)'
  BY <1>10 DEF Context!Restart, Context!commands
<1>. QED BY <1>1, <1>2, <1>3, <1>4, <1>5, <1>6, <1>7, <1>8, <1>9, <1>10
            DEF Context!Next, Context!Command

\* A step makes nobody remember an id under a name it was not remembered
\* under, unless Chrome has just made it, and then for one name (Incognito).
LEMMA KnownBefore ==
    ASSUME NEW v, Context(v)!NamedContextsAssumption, ContextInv(v),
           [Context(v)!Next]_(Context(v)!vars),
           NEW i \in Context(v)!Ids, NEW n \in v.names, Known(v, i, n)'
    PROVE  \/ Known(v, i, n)
           \/ i \in made' \ made /\ \A m \in v.names : Known(v, i, m)' => m = n
<1>. USE DEF ContextInv, ContextShape, Context!Goto
<1>0. Context(v)!NoId \notin Context(v)!Ids /\ \A m \in v.names :
        Context(v)!Empty[m] = Context(v)!NoId
  BY DEF Context!Empty, Context!Ids, Context!NoId
<1>1. CASE UNCHANGED Context(v)!vars
  BY <1>1 DEF Context!vars, Context!commands, Known
<1>2. ASSUME NEW p \in v.procs, Context(v)!Start(p) PROVE Known(v, i, n)
  BY <1>0, <1>2 DEF Context!Start, Known
<1>3. ASSUME NEW p \in v.procs, Context(v)!Load(p) PROVE Known(v, i, n)
  BY <1>3 DEF Context!Load, Known
<1>4. ASSUME NEW p \in v.procs, Context(v)!Ask(p) PROVE Known(v, i, n)
  BY <1>4 DEF Context!Ask, Known
<1>5. ASSUME NEW p \in v.procs, Context(v)!Choose(p) PROVE Known(v, i, n)
  BY <1>0, <1>5 DEF Context!Choose, Context!Return, Known
<1>6. ASSUME NEW p \in v.procs, Context(v)!Incognito(p), ~Known(v, i, n)
      PROVE  i \in made' \ made /\ \A m \in v.names : Known(v, i, m)' => m = n
  <2>1. PICK k \in Context(v)!Ids \ made : /\ made' = made \union {k}
                                /\ view' = [view EXCEPT ![p] = k]
                                /\ reg' = [reg EXCEPT ![p][job[p].name] = k]
    BY <1>6 DEF Context!Incognito
  <2>2. UNCHANGED <<file, job>>
    BY <1>6 DEF Context!Incognito
  <2>3. \A j \in Context(v)!Ids, m \in v.names : Known(v, j, m)'
          => Known(v, j, m) \/ (j = k /\ m = job[p].name)
    BY <2>1, <2>2 DEF Known, Tables
  <2>4. i = k /\ n = job[p].name
    BY <1>6, <2>3
  <2>. QED BY <2>1, <2>3, <2>4 DEF KnownAreMade
<1>7. ASSUME NEW p \in v.procs, Context(v)!Dispose(p) PROVE Known(v, i, n)
  <2>1. job[p].name \in v.names
    BY DEF Jobs
  <2>. QED BY <1>0, <1>7, <2>1 DEF Context!Dispose, Known, Tables
<1>8. ASSUME NEW p \in v.procs, Context(v)!Truncate(p) \/ Context(v)!Write(p)
      PROVE  Known(v, i, n)
  BY <1>0, <1>8 DEF Context!Truncate, Context!Write, Context!Return, Known
<1>9. ASSUME NEW p \in v.procs, Context(v)!Fails(p) \/ Context(v)!Crash(p)
      PROVE  Known(v, i, n)
  BY <1>0, <1>9 DEF Context!Fails, Context!Crash, Context!Ends, Context!Return, Known
<1>10. ASSUME NEW b \in v.browsers, Context(v)!Restart(b) PROVE Known(v, i, n)
  BY <1>10 DEF Context!Restart, Context!commands, Known
<1>. QED BY <1>1, <1>2, <1>3, <1>4, <1>5, <1>6, <1>7, <1>8, <1>9, <1>10
            DEF Context!Next, Context!Command

\* Contexts of two Chromes have different ids: a new one is in neither.
LEMMA BrowsersApart ==
    ASSUME NEW v, ContextShape(v), OneBrowser(v),
           [Context(v)!Next]_(Context(v)!vars)
    PROVE  OneBrowser(v)' /\ made \subseteq made'
<1>. USE DEF OneBrowser, ContextShape
<1>1. CASE UNCHANGED Context(v)!vars
  BY <1>1 DEF Context!vars
<1>2. ASSUME NEW p \in v.procs,
             Context(v)!Start(p) \/ Context(v)!Load(p) \/ Context(v)!Ask(p) \/ Context(v)!Choose(p) \/ Context(v)!Truncate(p)
                              \/ Context(v)!Write(p) \/ Context(v)!Fails(p) \/ Context(v)!Crash(p)
      PROVE  UNCHANGED <<living, made>>
  BY <1>2 DEF Context!Start, Context!Load, Context!Ask, Context!Choose,
     Context!Truncate, Context!Write, Context!Fails, Context!Crash, Context!Ends
<1>3. ASSUME NEW p \in v.procs, Context(v)!Incognito(p)
      PROVE  OneBrowser(v)' /\ made \subseteq made'
  <2>1. PICK i \in Context(v)!Ids \ made : /\ made' = made \union {i}
                                /\ living' = [living EXCEPT ![job[p].br] = @
                                    \union {i}]
    BY <1>3 DEF Context!Incognito
  <2>2. \A b \in v.browsers : living[b] \subseteq made
    OBVIOUS
  <2>3. \A b \in v.browsers : living'[b] =
          IF b = job[p].br THEN living[b] \union {i} ELSE living[b]
    BY <2>1
  <2>. QED BY <2>1, <2>2, <2>3
<1>4. ASSUME NEW p \in v.procs, Context(v)!Dispose(p)
      PROVE  OneBrowser(v)' /\ made \subseteq made'
  BY <1>4 DEF Context!Dispose
<1>5. ASSUME NEW b \in v.browsers, Context(v)!Restart(b)
      PROVE  OneBrowser(v)' /\ made \subseteq made'
  BY <1>5 DEF Context!Restart
<1>. QED BY <1>1, <1>2, <1>3, <1>4, <1>5 DEF Context!Next, Context!Command

\* Only contexts close disposes; only --context asks and makes.
LEMMA OpsKeep ==
    ASSUME NEW v, ContextShape(v), DisposeCloses(v),
           [Context(v)!Next]_(Context(v)!vars)
    PROVE  DisposeCloses(v)'
<1>. USE DEF DisposeCloses, ContextShape, Context!Goto
<1>1. CASE UNCHANGED Context(v)!vars
  BY <1>1 DEF Context!vars, Context!commands
<1>2. ASSUME NEW p \in v.procs, Context(v)!Start(p) PROVE DisposeCloses(v)'
  BY <1>2 DEF Context!Start
<1>3. ASSUME NEW p \in v.procs, Context(v)!Load(p) PROVE DisposeCloses(v)'
  <2>1. job[p].op \in {"none", "acquire", "close"}
    BY DEF Jobs
  <2>2. \A q \in v.procs : q # p => pc'[q] = pc[q]
    BY <1>3 DEF Context!Load
  <2>3. \/ pc'[p] = "failed"
        \/ job[p].op = "acquire" /\ pc'[p] = "ask"
        \/ job[p].op = "close" /\ pc'[p] = "dispose"
    BY <1>3, <2>1 DEF Context!Load
  <2>. QED BY <1>3, <2>2, <2>3 DEF Context!Load
<1>4. ASSUME NEW p \in v.procs, Context(v)!Choose(p) PROVE DisposeCloses(v)'
  BY <1>4 DEF Context!Choose, Context!Return
<1>5. ASSUME NEW p \in v.procs,
             Context(v)!Ask(p) \/ Context(v)!Incognito(p) \/ Context(v)!Dispose(p) \/ Context(v)!Truncate(p)
      PROVE DisposeCloses(v)'
  BY <1>5 DEF Context!Ask, Context!Incognito, Context!Dispose, Context!Truncate
<1>6. ASSUME NEW p \in v.procs,
             Context(v)!Write(p) \/ Context(v)!Fails(p) \/ Context(v)!Crash(p)
      PROVE  DisposeCloses(v)'
  BY <1>6 DEF Context!Write, Context!Return, Context!Fails, Context!Crash, Context!Ends
<1>7. ASSUME NEW b \in v.browsers, Context(v)!Restart(b) PROVE DisposeCloses(v)'
  BY <1>7 DEF Context!Restart, Context!commands
<1>. QED BY <1>1, <1>2, <1>3, <1>4, <1>5, <1>6, <1>7 DEF Context!Next,
            Context!Command

\* ContextInv is inductive.
LEMMA ContextKeeps ==
    ASSUME NEW v, Context(v)!NamedContextsAssumption, ContextInv(v),
           [Context(v)!Next]_(Context(v)!vars)
    PROVE  ContextInv(v)'
<1>1. ContextShape(v)'
  BY ContextShapeKeeps DEF ContextInv
<1>2. OneBrowser(v)' /\ made \subseteq made'
  BY BrowsersApart DEF ContextInv
<1>3. DisposeCloses(v)'
  BY OpsKeep DEF ContextInv
<1>4. KnownAreMade(v)'
  <2>1. SUFFICES ASSUME NEW i \in Context(v)!Ids, NEW n \in v.names, Known(v, i,
          n)' PROVE i \in made'
    BY DEF KnownAreMade
  <2>. QED BY <1>2, <2>1, KnownBefore DEF ContextInv, KnownAreMade
<1>5. OneName(v)'
  <2>1. SUFFICES ASSUME NEW i \in Context(v)!Ids, NEW n \in v.names,
          NEW m \in v.names,
                        Known(v, i, n)', Known(v, i, m)'
                 PROVE  n = m
    BY DEF OneName
  <2>2. CASE Known(v, i, n) /\ Known(v, i, m)
    BY <2>2 DEF ContextInv, OneName
  <2>3. CASE ~Known(v, i, n)
    BY <2>1, <2>3, KnownBefore
  <2>4. CASE ~Known(v, i, m)
    BY <2>1, <2>4, KnownBefore
  <2>. QED BY <2>2, <2>3, <2>4
<1>. QED BY <1>1, <1>2, <1>3, <1>4, <1>5 DEF ContextInv

LEMMA ContextInvHolds ==
    ASSUME NEW v, Context(v)!NamedContextsAssumption
    PROVE  Context(v)!Spec => []ContextInv(v)
<1>1. Context(v)!Init => ContextInv(v)
  BY ContextInit
<1>2. ContextInv(v) /\ [Context(v)!Next]_(Context(v)!vars) => ContextInv(v)'
  BY ContextKeeps
<1>. QED BY <1>1, <1>2, PTL DEF Context!Spec

LEMMA ContextInvMeans ==
    ASSUME NEW v, Context(v)!NamedContextsAssumption, ContextInv(v)
    PROVE  Context(v)!TypeOK /\ Context(v)!NamesAreIsolated
<1>. USE DEF ContextInv
<1>1. ASSUME NEW n \in v.names, NEW m \in v.names, n # m, file[n] # Context(v)!NoId
      PROVE  file[n] # file[m]
  <2>1. file[n] \in Context(v)!Ids
    BY <1>1 DEF ContextShape, Tables
  <2>. QED BY <1>1, <2>1 DEF OneName, Known
<1>2. ASSUME NEW b \in v.browsers PROVE living[b] \subseteq made
  BY <1>2 DEF ContextShape
<1>3. Context(v)!TypeOK
  BY <1>1, <1>2 DEF Context!TypeOK, ContextShape, Tables, OneBrowser
<1>4. ASSUME NEW p \in v.procs, NEW q \in v.procs,
             view[p] # Context(v)!NoId, view[p] = view[q]
      PROVE  job[p].name = job[q].name
  <2>1. view[p] \in Context(v)!Ids /\ job[p].name \in v.names
          /\ job[q].name \in v.names
    BY <1>4 DEF ContextShape, Jobs
  <2>2. Known(v, view[p], job[p].name) /\ Known(v, view[p], job[q].name)
    BY <1>4 DEF Known
  <2>. QED BY <2>1, <2>2 DEF OneName
<1>. QED BY <1>3, <1>4 DEF Context!NamesAreIsolated

\* Type correctness; an id of the file is registered under one name and lives
\* in one Chrome (saveContextRegistry, liveContextIDs).
THEOREM ContextsTypeCorrect ==
    ASSUME NEW v, Context(v)!NamedContextsAssumption
    PROVE  Context(v)!Spec => []Context(v)!TypeOK
<1>1. ContextInv(v) => Context(v)!TypeOK
  BY ContextInvMeans
<1>. QED BY <1>1, ContextInvHolds, PTL

\* Commands under different names never work in one context, for any number
\* of commands, kills, restarts of Chrome and lost updates of the file
\* (AcquireContext).
THEOREM IsolatedNames ==
    ASSUME NEW v, Context(v)!NamedContextsAssumption
    PROVE  Context(v)!Spec => []Context(v)!NamesAreIsolated
<1>1. ContextInv(v) => Context(v)!NamesAreIsolated
  BY ContextInvMeans
<1>. QED BY <1>1, ContextInvHolds, PTL

\* A command is given only a context that lived when Chrome was asked.
LEMMA GivenLives ==
    ASSUME NEW v, Context(v)!NamedContextsAssumption, ContextInv(v), Context(v)!Next
    PROVE  Context(v)!NeverGivenDead
<1>. USE DEF ContextInv, ContextShape, Context!NeverGivenDead
<1>1. ASSUME NEW p \in v.procs,
             Context(v)!Start(p) \/ Context(v)!Fails(p) \/ Context(v)!Crash(p)
      PROVE  Context(v)!NeverGivenDead
  BY <1>1 DEF Context!Start, Context!Fails, Context!Crash, Context!Ends
<1>2. ASSUME NEW p \in v.procs,
             Context(v)!Load(p) \/ Context(v)!Ask(p) \/ Context(v)!Truncate(p) \/ Context(v)!Write(p)
      PROVE Context(v)!NeverGivenDead
  BY <1>2 DEF Context!Load, Context!Ask, Context!Truncate, Context!Write
<1>3. ASSUME NEW p \in v.procs, Context(v)!Choose(p)
      PROVE  Context(v)!NeverGivenDead
  BY <1>3 DEF Context!Choose, Context!Return
<1>4. ASSUME NEW p \in v.procs, Context(v)!Incognito(p)
      PROVE  Context(v)!NeverGivenDead
  BY <1>4 DEF Context!Incognito
<1>5. ASSUME NEW p \in v.procs, Context(v)!Dispose(p)
      PROVE  Context(v)!NeverGivenDead
  <2>1. job[p].op = "close" /\ \A q \in v.procs : q # p => view'[q] = view[q]
    BY <1>5 DEF Context!Dispose, DisposeCloses
  <2>. QED BY <2>1
<1>6. ASSUME NEW b \in v.browsers, Context(v)!Restart(b)
      PROVE  Context(v)!NeverGivenDead
  BY <1>6 DEF Context!Restart, Context!commands
<1>. QED BY <1>1, <1>2, <1>3, <1>4, <1>5, <1>6 DEF Context!Next, Context!Command

\* A context is given out only if Chrome has just said that it lives, or has
\* just made it (AcquireContext, liveContextIDs).
THEOREM DeadAreNotGiven ==
    ASSUME NEW v, Context(v)!NamedContextsAssumption
    PROVE  Context(v)!Spec => [][Context(v)!NeverGivenDead]_(Context(v)!vars)
<1>1. ContextInv(v) /\ [Context(v)!Next]_(Context(v)!vars)
        => [Context(v)!NeverGivenDead]_(Context(v)!vars)
  BY GivenLives
<1>. QED BY <1>1, ContextInvHolds, PTL DEF Context!Spec
----------------------------------------------------------------------------
\* One command at a time, on one Chrome: the registry and Chrome agree. They
\* are only apart while the command that makes or closes a context has not
\* written the file, for the contexts of a command that failed or was killed
\* then, and for those that Chrome did not dispose of.
Alone(v, p, b) ==
    v.procs = {p} /\ v.browsers = {b} /\ b # "none" /\ v.unreachable = FALSE

\* The contexts that live are in the table t, or were left over.
Covered(v, t, b) == living[b] \subseteq Context(v)!Registered(t) \union leftover

Agrees(v, p, b) ==
    /\ live \in [v.procs -> SUBSET Context(v)!Ids]
    /\ pc[p] \notin {"idle", "done", "failed"} => job[p].br = b /\ job[p].op # "none"
    /\ pc[p] \notin {"truncate", "write"} => Covered(v, file, b)
    /\ pc[p] \in {"ask", "choose", "create", "dispose"} => reg[p] = file
    /\ pc[p] = "choose" => living[b] \subseteq live[p]
    /\ pc[p] = "create" => file[job[p].name] \notin living[b]
    /\ pc[p] \in {"truncate", "write"} =>
          /\ Covered(v, reg[p], b)
          /\ \A i \in living[b] :
                \/ i \in Context(v)!Registered(file) \union leftover
                \/ job[p].op = "acquire" /\ i = view[p]
    /\ pc[p] \in {"truncate", "write", "done"} /\ job[p].op = "close"
          => view[p] \notin living[b] \ leftover

LEMMA AgreesInit ==
    ASSUME NEW v, NEW p, NEW b, Alone(v, p, b), Context(v)!NamedContextsAssumption,
           Context(v)!Init
    PROVE  Agrees(v, p, b)
BY DEF Alone, Context!Init, Agrees, Covered

LEMMA AgreesKeeps ==
    ASSUME NEW v, NEW p, NEW b, Alone(v, p, b), Context(v)!NamedContextsAssumption,
           ContextInv(v), Agrees(v, p, b), [Context(v)!Next]_(Context(v)!vars)
    PROVE  Agrees(v, p, b)'
<1>. USE DEF Alone, ContextInv, Agrees, Context!Goto
<1>0. /\ p \in v.procs /\ b \in v.browsers
      /\ file \in [v.names -> Context(v)!Ids \union {Context(v)!NoId}]
      /\ reg \in [v.procs -> [v.names -> Context(v)!Ids \union {Context(v)!NoId}]]
      /\ living \in [v.browsers -> SUBSET made] /\ made \subseteq Context(v)!Ids
      /\ pc \in [v.procs -> Labels(v)] /\ job \in [v.procs -> Jobs(v)]
      /\ view \in [v.procs -> Context(v)!Ids \union {Context(v)!NoId}]
      /\ job[p].name \in v.names /\ Context(v)!NoId \notin Context(v)!Ids
  BY DEF ContextShape, Tables, Jobs, Context!Ids, Context!NoId
<1>1. CASE UNCHANGED Context(v)!vars
  BY <1>1 DEF Context!vars, Context!commands, Covered, Context!Registered
<1>2. CASE Context(v)!Start(p)
  BY <1>0, <1>2 DEF Context!Start, Context!Running, Context!NoBrowser, Covered,
     Context!Registered
<1>3. CASE Context(v)!Load(p)
  BY <1>0, <1>3 DEF Context!Load, Covered, Context!Registered
<1>4. CASE Context(v)!Ask(p)
  BY <1>0, <1>4 DEF Context!Ask, Covered, Context!Registered
<1>5. CASE Context(v)!Choose(p)
  BY <1>0, <1>5 DEF Context!Choose, Context!Return, Covered, Context!Registered,
     DisposeCloses
<1>6. CASE Context(v)!Incognito(p)
  <2>1. PICK i \in Context(v)!Ids \ made :
          /\ living' = [living EXCEPT ![job[p].br] = @ \union {i}]
          /\ view' = [view EXCEPT ![p] = i]
          /\ reg' = [reg EXCEPT ![p][job[p].name] = i]
    BY <1>6 DEF Context!Incognito
  <2>2. /\ pc[p] = "create" /\ pc'[p] = "truncate" /\ reg[p] = file
        /\ UNCHANGED <<file, job, leftover, live>>
        /\ file[job[p].name] \notin living[b] /\ Covered(v, file, b)
        /\ job[p].br = b /\ job[p].op = "acquire"
    BY <1>0, <1>6 DEF Context!Incognito, DisposeCloses
  <2>3. living'[b] = living[b] \union {i} /\ view'[p] = i
    BY <1>0, <2>1, <2>2
  <2>4. \A n \in v.names : reg'[p][n] = IF n = job[p].name THEN i ELSE file[n]
    BY <1>0, <2>1, <2>2
  <2>5. Covered(v, reg[p], b)'
    <3>1. ASSUME NEW j \in living'[b], j \notin leftover
          PROVE  \E n \in v.names : reg'[p][n] = j /\ j # Context(v)!NoId
      <4>1. CASE j = i
        BY <1>0, <2>1, <2>4, <4>1
      <4>2. CASE j \in living[b]
        <5>1. PICK n \in v.names : file[n] = j /\ j # Context(v)!NoId
          BY <2>2, <3>1, <4>2 DEF Covered, Context!Registered
        <5>2. n # job[p].name
          BY <2>2, <4>2, <5>1
        <5>. QED BY <2>4, <5>1, <5>2
      <4>. QED BY <2>3, <3>1, <4>1, <4>2
    <3>. QED BY <2>2, <3>1 DEF Covered, Context!Registered
  <2>. QED BY <2>2, <2>3, <2>5 DEF Covered, Context!Registered
<1>7. CASE Context(v)!Dispose(p)
  <2>1. /\ pc[p] = "dispose" /\ pc'[p] = "truncate" /\ reg[p] = file
        /\ UNCHANGED <<file, job, live>>
        /\ living'[b] \subseteq living[b] /\ leftover \subseteq leftover'
        /\ file[job[p].name] \notin living'[b] \/ file[job[p].name] \in leftover'
        /\ view'[p] = file[job[p].name]
        /\ job'[p].op = "close" /\ job[p].br = b /\ Covered(v, file, b)
    BY <1>0, <1>7 DEF Context!Dispose, DisposeCloses
  <2>2. \A n \in v.names :
          reg'[p][n] = IF n = job[p].name THEN Context(v)!NoId ELSE file[n]
    BY <1>0, <1>7, <2>1 DEF Context!Dispose
  <2>3. ASSUME NEW j \in living'[b], j \notin leftover'
        PROVE  \E n \in v.names : file[n] = j /\ j # Context(v)!NoId /\ n # job[p].name
    <3>1. PICK n \in v.names : file[n] = j /\ j # Context(v)!NoId
      BY <2>1, <2>3 DEF Covered, Context!Registered
    <3>. QED BY <2>1, <2>3, <3>1
  <2>4. Covered(v, reg[p], b)'
    BY <2>2, <2>3 DEF Covered, Context!Registered
  <2>5. \A j \in living'[b] : j \in Context(v)!Registered(file') \union leftover'
    BY <2>1, <2>3 DEF Context!Registered
  <2>. QED BY <2>1, <2>4, <2>5 DEF Covered, Context!Registered
<1>8. CASE Context(v)!Truncate(p)
  BY <1>0, <1>8 DEF Context!Truncate, Covered, Context!Registered
<1>9. CASE Context(v)!Write(p)
  BY <1>0, <1>9 DEF Context!Write, Context!Return, Covered, Context!Registered
<1>10. CASE Context(v)!Fails(p) \/ Context(v)!Crash(p)
  <2>0. Context(v)!Ends(p)
    BY <1>10 DEF Context!Fails, Context!Crash
  <2>1. /\ pc'[p] = "failed" /\ UNCHANGED <<file, living, job>>
        /\ leftover \subseteq leftover' /\ live' \in [v.procs -> SUBSET Context(v)!Ids]
        /\ job[p].op = "acquire" /\ view[p] # Context(v)!NoId => view[p] \in leftover'
    BY <1>0, <2>0 DEF Context!Ends, Context!Return
  <2>2. Covered(v, file, b)'
    BY <1>0, <2>1 DEF Covered, Context!Registered
  <2>. QED BY <2>1, <2>2
<1>11. CASE Context(v)!Restart(b)
  BY <1>0, <1>11 DEF Context!Restart, Context!commands, Covered, Context!Registered
<1>. QED BY <1>1, <1>2, <1>3, <1>4, <1>5, <1>6, <1>7, <1>8, <1>9, <1>10, <1>11
         DEF Context!Next, Context!Command

LEMMA AgreesMeans ==
    ASSUME NEW v, NEW p, NEW b, Alone(v, p, b), ContextInv(v), Agrees(v, p, b)
    PROVE  Context(v)!EveryContextRegistered /\ Context(v)!ClosedIsGone
BY DEF Alone, Agrees, Covered, Context!EveryContextRegistered, Context!ClosedIsGone,
   Context!Running

\* With one command at a time on one Chrome, every context that lives is
\* registered but for those whose maker failed or was killed and those that
\* Chrome did not dispose of, and a context that was closed does not live unless
\* Chrome did not dispose of it, through restarts, kills and failing reads and
\* writes of the file (AcquireContext, CloseContext).
THEOREM AloneAllRegistered ==
    ASSUME NEW v, NEW p, NEW b, Alone(v, p, b), Context(v)!NamedContextsAssumption
    PROVE  Context(v)!Spec
             => [](Context(v)!EveryContextRegistered /\ Context(v)!ClosedIsGone)
<1>1. Context(v)!Init => ContextInv(v) /\ Agrees(v, p, b)
  BY ContextInit, AgreesInit
<1>2. ContextInv(v) /\ Agrees(v, p, b) /\ [Context(v)!Next]_(Context(v)!vars)
        => ContextInv(v)' /\ Agrees(v, p, b)'
  BY ContextKeeps, AgreesKeeps
<1>3. ContextInv(v) /\ Agrees(v, p, b)
        => Context(v)!EveryContextRegistered /\ Context(v)!ClosedIsGone
  BY AgreesMeans
<1>. QED BY <1>1, <1>2, <1>3, PTL DEF Context!Spec


ProfileShape(v) ==
    /\ dir \in [Profile(v)!Dirs -> {"none", "new", "old"}]
    /\ lock \in [Profile(v)!Dirs -> v.pids \union {Profile(v)!Nobody}]
    /\ st \in [v.pids -> {"none", "starting", "up", "closing", "dead"}]
    /\ where \in [v.pids -> Profile(v)!Dirs]
    /\ session \in [v.profiles -> v.pids \union {Profile(v)!Nobody}]
    /\ acq \in [pc : {"idle", "clear", "spawn", "ready"}, name : v.profiles]
    /\ spawned \in v.pids \union {Profile(v)!Nobody}
    /\ stop \in [pc : {"idle", "wait", "remove"}, name : v.profiles]
    /\ gc \in [pc : {"idle", "keep", "judge", "remove"}, keep : SUBSET v.profiles,
               todo : SUBSET v.profiles, out : SUBSET v.profiles]
    /\ gc.out \intersect gc.keep = {}
    /\ gc.pc \in {"idle", "keep"} => gc.out = {}
    /\ doomed \subseteq v.temps
    /\ gone \subseteq v.pids

\* The Chrome of a session and the one being started are in the directory of
\* their name.
OwnedDirs(v) ==
    /\ \A p \in v.profiles : session[p] # Profile(v)!Nobody =>
          where[session[p]] = p /\ st[session[p]] \in {"up", "closing", "dead"}
    /\ acq.pc # "idle" => session[acq.name] = Profile(v)!Nobody
    /\ spawned # Profile(v)!Nobody <=> acq.pc = "ready"
    /\ spawned # Profile(v)!Nobody => where[spawned] = acq.name
        /\ st[spawned] # "none"

\* A start has cleared the lock of whatever was dead when it looked, its PID
\* nobody's.
LocksCleared(v) ==
    /\ \A c \in gone : st[c] = "dead"
    /\ acq.pc \notin {"spawn", "ready"} => gone = {}
    /\ lock[acq.name] \notin gone

ProfileInv(v) == ProfileShape(v) /\ OwnedDirs(v) /\ LocksCleared(v)

\* Nobody removes the directory of a profile with a Chrome in it: nothing is
\* purged, and gc runs by itself and without a Chrome no session knows of.
NothingTaken(v) ==
    /\ "purge" \notin v.actors
    /\ "gc" \in v.actors => v.gcAlone /\ "embedded" \notin v.actors

LocksTrue(v) ==
    /\ \A d \in Profile(v)!Dirs : lock[d] # Profile(v)!Nobody =>
          where[lock[d]] = d /\ st[lock[d]] \in {"up", "closing", "dead"}
    /\ \A c \in v.pids : st[c] \in {"up", "closing"} => lock[where[c]] = c

\* A temporary directory has had one Chrome, which made it.
TempsTrue(v) ==
    /\ \A d \in v.temps : dir[d] = "none" => lock[d] = Profile(v)!Nobody
    /\ \A c, e \in v.pids : Profile(v)!Alive(c) /\ where[c] \in v.temps
          => lock[where[c]] \in {Profile(v)!Nobody, c} /\ (Profile(v)!Alive(e)
          /\ where[e] = where[c] => e = c)

DirsTrue(v) == \A c \in v.pids : Profile(v)!Alive(c) => dir[where[c]] # "none"

DoomedDead(v) ==
    \A d \in doomed : lock[d] # Profile(v)!Nobody /\ st[lock[d]] = "dead"

\* While gc runs, the Chromes in profiles are those of the sessions it keeps.
GcTrue(v) ==
    "gc" \in v.actors =>
        /\ gc.pc # "idle" => acq.pc = "idle"
        /\ \A c \in v.pids : Profile(v)!Alive(c) /\ where[c] \in v.profiles =>
              /\ session[where[c]] = c \/ spawned = c
              /\ gc.pc \in {"judge", "remove"} => where[c] \in gc.keep

QuietTrue(v) ==
    /\ stop.pc = "idle" /\ \A c \in v.pids : st[c] # "closing"
    /\ "gc" \notin v.actors => gc.pc = "idle" /\ gc.out = {}

DirsInv(v) ==
    LocksTrue(v) /\ TempsTrue(v) /\ DirsTrue(v) /\ DoomedDead(v) /\ GcTrue(v)
      /\ QuietTrue(v)
LEMMA ProfileInit ==
    ASSUME NEW v, Profile(v)!ProfileAssumption, Profile(v)!Init
    PROVE  ProfileInv(v)
<1>. USE DEF Profile!Init, Profile!Idle, Profile!GcIdle, Profile!Nobody,
       Profile!ProfileAssumption
<1>1. v.default \in v.profiles /\ v.default \in Profile(v)!Dirs
  BY DEF Profile!Dirs
<1>2. ProfileShape(v)
  BY <1>1 DEF ProfileShape
<1>. QED BY <1>1, <1>2 DEF ProfileInv, OwnedDirs, LocksCleared

\* Types, for every step of Chromes, starts, stops, gc and sweeps.
LEMMA ProfileShapeKeeps ==
    ASSUME NEW v, Profile(v)!ProfileAssumption, ProfileShape(v),
           [Profile(v)!Next]_(Profile(v)!vars)
    PROVE  ProfileShape(v)'
<1>. USE DEF ProfileShape
<1>0. v.default \in v.profiles /\ v.profiles \subseteq Profile(v)!Dirs
        /\ v.temps \subseteq Profile(v)!Dirs
  BY DEF Profile!ProfileAssumption, Profile!Dirs
<1>1. CASE UNCHANGED Profile(v)!vars
  BY <1>1 DEF Profile!vars, Profile!chrome
<1>2. ASSUME NEW c \in v.pids, Profile(v)!Singleton(c) PROVE ProfileShape(v)'
  BY <1>0, <1>2 DEF Profile!Singleton
<1>3. ASSUME NEW c \in v.pids, Profile(v)!Quit(c) PROVE ProfileShape(v)'
  BY <1>0, <1>3 DEF Profile!Quit, Profile!Unlocked
<1>4. ASSUME NEW c \in v.pids, Profile(v)!Die(c) PROVE ProfileShape(v)'
  BY <1>0, <1>4 DEF Profile!Die
<1>5. ASSUME NEW c \in v.pids, Profile(v)!Use(c) PROVE ProfileShape(v)'
  BY <1>0, <1>5 DEF Profile!Use
<1>6. ASSUME NEW c \in v.pids, Profile(v)!Embedded(c) PROVE ProfileShape(v)'
  BY <1>0, <1>6 DEF Profile!Embedded, Profile!Launch, Profile!Dirs
<1>7. ASSUME NEW d \in v.profiles, Profile(v)!Age(d) PROVE ProfileShape(v)'
  BY <1>0, <1>7 DEF Profile!Age, Profile!Dirs
<1>8. ASSUME NEW p \in v.profiles, Profile(v)!Acquire(p) PROVE ProfileShape(v)'
  BY <1>0, <1>8 DEF Profile!Acquire, Profile!chrome
<1>9. ASSUME Profile(v)!ClearLock PROVE ProfileShape(v)'
  BY <1>0, <1>9 DEF Profile!ClearLock, Profile!Dead, Profile!HasProcess
<1>10. ASSUME NEW c \in v.pids, Profile(v)!Spawn(c) PROVE ProfileShape(v)'
  BY <1>0, <1>10 DEF Profile!Spawn, Profile!Launch
<1>11. ASSUME Profile(v)!Ready PROVE ProfileShape(v)'
  BY <1>0, <1>11 DEF Profile!Ready, Profile!chrome, Profile!Idle
<1>12. ASSUME NEW p \in v.profiles, Profile(v)!Stop(p) PROVE ProfileShape(v)'
  BY <1>0, <1>12 DEF Profile!Stop
<1>13. ASSUME Profile(v)!StopWait PROVE ProfileShape(v)'
  BY <1>0, <1>13 DEF Profile!StopWait, Profile!chrome
<1>14. ASSUME Profile(v)!Purge PROVE ProfileShape(v)'
  BY <1>0, <1>14 DEF Profile!Purge, Profile!RemoveProfile, Profile!Idle
<1>15. ASSUME Profile(v)!GcList PROVE ProfileShape(v)'
  BY <1>0, <1>15 DEF Profile!GcList, Profile!chrome, Profile!GcIdle
<1>16. ASSUME Profile(v)!GcKeep PROVE ProfileShape(v)'
  BY <1>0, <1>16 DEF Profile!GcKeep, Profile!chrome
<1>17. ASSUME NEW p \in v.profiles, Profile(v)!GcJudge(p) PROVE ProfileShape(v)'
  <2>1. gc' \in [pc : {"judge", "remove"}, keep : SUBSET v.profiles,
                 todo : SUBSET v.profiles, out : SUBSET v.profiles]
    BY <1>17 DEF Profile!GcJudge
  <2>2. gc'.out \intersect gc'.keep = {}
    BY <1>17 DEF Profile!GcJudge
  <2>. QED BY <1>17, <2>1, <2>2 DEF Profile!GcJudge, Profile!chrome
<1>18. ASSUME NEW p \in v.profiles, Profile(v)!GcRemove(p) PROVE ProfileShape(v)'
  BY <1>0, <1>18 DEF Profile!GcRemove, Profile!RemoveProfile
<1>19. ASSUME Profile(v)!GcEnd PROVE ProfileShape(v)'
  BY <1>0, <1>19 DEF Profile!GcEnd, Profile!chrome, Profile!GcIdle
<1>20. ASSUME NEW d \in v.temps, Profile(v)!SweepJudge(d) PROVE ProfileShape(v)'
  BY <1>0, <1>20 DEF Profile!SweepJudge, Profile!HasProcess, Profile!chrome
<1>21. ASSUME NEW d \in v.temps, Profile(v)!SweepRemove(d) PROVE ProfileShape(v)'
  BY <1>0, <1>21 DEF Profile!SweepRemove, Profile!RemoveProfile
<1>. QED BY <1>1, <1>2, <1>3, <1>4, <1>5, <1>6, <1>7, <1>8, <1>9, <1>10,
      <1>11, <1>12, <1>13, <1>14, <1>15, <1>16, <1>17, <1>18, <1>19, <1>20,
      <1>21 DEF Profile!Next, Profile!Chrome, Profile!Start, Profile!StopPurge,
      Profile!Gc, Profile!Sweep

\* Whose the Chromes of sessions and starts are (Spawn, waitForCDP, Stop).
LEMMA OwnedKeeps ==
    ASSUME NEW v, Profile(v)!ProfileAssumption, ProfileShape(v), OwnedDirs(v),
           [Profile(v)!Next]_(Profile(v)!vars)
    PROVE  OwnedDirs(v)'
<1>. USE DEF ProfileShape, OwnedDirs, Profile!Alive
<1>0. Profile(v)!Nobody \notin v.pids
  BY DEF Profile!ProfileAssumption, Profile!Nobody
<1>1. CASE UNCHANGED Profile(v)!vars
  BY <1>1 DEF Profile!vars, Profile!chrome
<1>2. ASSUME NEW c \in v.pids, Profile(v)!Singleton(c) PROVE OwnedDirs(v)'
  BY <1>0, <1>2 DEF Profile!Singleton
<1>3. ASSUME NEW c \in v.pids, Profile(v)!Quit(c) PROVE OwnedDirs(v)'
  BY <1>0, <1>3 DEF Profile!Quit, Profile!Unlocked
<1>4. ASSUME NEW c \in v.pids, Profile(v)!Die(c) PROVE OwnedDirs(v)'
  BY <1>0, <1>4 DEF Profile!Die
<1>5. ASSUME NEW c \in v.pids, Profile(v)!Embedded(c) PROVE OwnedDirs(v)'
  BY <1>0, <1>5 DEF Profile!Embedded, Profile!Launch, Profile!Dirs
<1>6. ASSUME NEW p \in v.profiles, Profile(v)!Acquire(p) PROVE OwnedDirs(v)'
  BY <1>0, <1>6 DEF Profile!Acquire, Profile!chrome
<1>7. ASSUME Profile(v)!ClearLock PROVE OwnedDirs(v)'
  BY <1>0, <1>7 DEF Profile!ClearLock, Profile!Dead, Profile!HasProcess
<1>8. ASSUME NEW c \in v.pids, Profile(v)!Spawn(c) PROVE OwnedDirs(v)'
  BY <1>0, <1>8 DEF Profile!Spawn, Profile!Launch
<1>9. ASSUME Profile(v)!Ready PROVE OwnedDirs(v)'
  BY <1>0, <1>9 DEF Profile!Ready, Profile!chrome, Profile!Idle
<1>10. ASSUME NEW p \in v.profiles, Profile(v)!Stop(p) PROVE OwnedDirs(v)'
  BY <1>0, <1>10 DEF Profile!Stop
<1>11. ASSUME Profile(v)!StopWait PROVE OwnedDirs(v)'
  BY <1>0, <1>11 DEF Profile!StopWait, Profile!chrome
<1>12. ASSUME \/ \E c \in v.pids : Profile(v)!Use(c)
              \/ \E d \in v.profiles : Profile(v)!Age(d)
              \/ \E p \in v.profiles :
                  Profile(v)!GcJudge(p) \/ Profile(v)!GcRemove(p)
              \/ \E d \in v.temps :
                  Profile(v)!SweepJudge(d) \/ Profile(v)!SweepRemove(d)
              \/ Profile(v)!Purge \/ Profile(v)!GcList \/ Profile(v)!GcKeep
              \/ Profile(v)!GcEnd
      PROVE  OwnedDirs(v)'
  BY <1>0, <1>12 DEF Profile!Use, Profile!Age, Profile!Dirs, Profile!Purge,
     Profile!RemoveProfile, Profile!Idle, Profile!GcList,
        Profile!chrome, Profile!GcIdle, Profile!GcKeep, Profile!GcJudge,
        Profile!GcRemove, Profile!GcEnd, Profile!SweepJudge,
        Profile!SweepRemove
<1>. QED BY <1>1, <1>2, <1>3, <1>4, <1>5, <1>6, <1>7, <1>8, <1>9, <1>10,
      <1>11, <1>12 DEF Profile!Next, Profile!Chrome, Profile!Start,
      Profile!StopPurge, Profile!Gc, Profile!Sweep

\* The dead stay dead, and no lock comes to name one of them.
LEMMA ClearedKeeps ==
    ASSUME NEW v, Profile(v)!ProfileAssumption, ProfileShape(v), OwnedDirs(v),
           LocksCleared(v), [Profile(v)!Next]_(Profile(v)!vars)
    PROVE  LocksCleared(v)'
<1>. USE DEF ProfileShape, OwnedDirs, LocksCleared, Profile!Alive
<1>0. Profile(v)!Nobody \notin v.pids /\ v.profiles \subseteq Profile(v)!Dirs
  BY DEF Profile!ProfileAssumption, Profile!Nobody, Profile!Dirs
<1>1. CASE UNCHANGED Profile(v)!vars
  BY <1>1 DEF Profile!vars, Profile!chrome
<1>2. ASSUME NEW c \in v.pids, Profile(v)!Singleton(c) PROVE LocksCleared(v)'
  BY <1>0, <1>2 DEF Profile!Singleton
<1>3. ASSUME NEW c \in v.pids, Profile(v)!Quit(c) PROVE LocksCleared(v)'
  BY <1>0, <1>3 DEF Profile!Quit, Profile!Unlocked
<1>4. ASSUME NEW c \in v.pids, Profile(v)!Die(c) PROVE LocksCleared(v)'
  BY <1>0, <1>4 DEF Profile!Die
<1>5. ASSUME NEW c \in v.pids, Profile(v)!Embedded(c) PROVE LocksCleared(v)'
  BY <1>0, <1>5 DEF Profile!Embedded, Profile!Launch, Profile!Dirs
<1>6. ASSUME NEW p \in v.profiles, Profile(v)!Acquire(p) PROVE LocksCleared(v)'
  BY <1>0, <1>6 DEF Profile!Acquire, Profile!chrome
<1>7. ASSUME Profile(v)!ClearLock PROVE LocksCleared(v)'
  BY <1>0, <1>7 DEF Profile!ClearLock, Profile!Dead, Profile!HasProcess
<1>8. ASSUME NEW c \in v.pids, Profile(v)!Spawn(c) PROVE LocksCleared(v)'
  BY <1>0, <1>8 DEF Profile!Spawn, Profile!Launch
<1>9. ASSUME Profile(v)!Ready PROVE LocksCleared(v)'
  BY <1>0, <1>9 DEF Profile!Ready, Profile!chrome, Profile!Idle
<1>10. ASSUME NEW p \in v.profiles, Profile(v)!Stop(p) PROVE LocksCleared(v)'
  BY <1>0, <1>10 DEF Profile!Stop
<1>11. ASSUME Profile(v)!StopWait PROVE LocksCleared(v)'
  BY <1>0, <1>11 DEF Profile!StopWait, Profile!chrome
<1>12. ASSUME Profile(v)!Purge PROVE LocksCleared(v)'
  BY <1>0, <1>12 DEF Profile!Purge, Profile!RemoveProfile, Profile!Idle
<1>13. ASSUME NEW p \in v.profiles, Profile(v)!GcRemove(p) PROVE LocksCleared(v)'
  BY <1>0, <1>13 DEF Profile!GcRemove, Profile!RemoveProfile
<1>14. ASSUME NEW d \in v.temps, Profile(v)!SweepRemove(d) PROVE LocksCleared(v)'
  BY <1>0, <1>14 DEF Profile!SweepRemove, Profile!RemoveProfile
<1>15. ASSUME \/ \E c \in v.pids : Profile(v)!Use(c)
              \/ \E d \in v.profiles : Profile(v)!Age(d)
              \/ \E p \in v.profiles : Profile(v)!GcJudge(p)
              \/ \E d \in v.temps : Profile(v)!SweepJudge(d)
              \/ Profile(v)!GcList \/ Profile(v)!GcKeep \/ Profile(v)!GcEnd
      PROVE  LocksCleared(v)'
  <2>1. UNCHANGED <<lock, st, acq, gone>>
    BY <1>15 DEF Profile!Use, Profile!Age, Profile!Dirs, Profile!GcList,
       Profile!chrome, Profile!GcIdle, Profile!GcKeep, Profile!GcJudge,
          Profile!GcEnd, Profile!SweepJudge
  <2>. QED BY <2>1
<1>. QED BY <1>1, <1>2, <1>3, <1>4, <1>5, <1>6, <1>7, <1>8, <1>9, <1>10,
      <1>11, <1>12, <1>13, <1>14, <1>15 DEF Profile!Next, Profile!Chrome,
      Profile!Start, Profile!StopPurge,
      Profile!Gc, Profile!Sweep

LEMMA DirsInit ==
    ASSUME NEW v, Profile(v)!ProfileAssumption, Profile(v)!Init
    PROVE  DirsInv(v)
<1>. USE DEF Profile!Init, Profile!Idle, Profile!GcIdle, Profile!Nobody,
       Profile!Alive, Profile!ProfileAssumption
<1>1. v.default \in Profile(v)!Dirs /\ v.temps \subseteq Profile(v)!Dirs
  BY DEF Profile!Dirs
<1>. QED BY <1>1 DEF DirsInv, LocksTrue, TempsTrue, DirsTrue, DoomedDead,
      GcTrue, QuietTrue

LEMMA NoPurge ==
    ASSUME NEW v, NothingTaken(v), DirsInv(v)
    PROVE  ~Profile(v)!StopPurge
BY DEF NothingTaken, DirsInv, QuietTrue, Profile!StopPurge, Profile!Stop,
   Profile!StopWait, Profile!Purge

\* What gc and a sweep remove no living Chrome is using.
LEMMA NobodyInGc ==
    ASSUME NEW v, ProfileShape(v), DirsInv(v), NEW p \in v.profiles,
           Profile(v)!GcRemove(p), NEW c \in v.pids,
          Profile(v)!Alive(c)
    PROVE  where[c] # p
BY DEF ProfileShape, DirsInv, GcTrue, QuietTrue, Profile!GcRemove

LEMMA NobodyInSwept ==
    ASSUME NEW v, ProfileShape(v), DirsInv(v), NEW d \in v.temps,
           Profile(v)!SweepRemove(d), NEW c \in v.pids,
          Profile(v)!Alive(c)
    PROVE  where[c] # d
BY DEF ProfileShape, DirsInv, TempsTrue, DoomedDead, Profile!SweepRemove,
   Profile!Alive

\* A lock names the last Chrome that had the directory, and a Chrome that is
\* up has its lock (Chrome's ProcessSingleton, clearStaleProfileLock).
LEMMA LocksKeep ==
    ASSUME NEW v, Profile(v)!ProfileAssumption, NothingTaken(v), ProfileShape(v),
           OwnedDirs(v), DirsInv(v), [Profile(v)!Next]_(Profile(v)!vars)
    PROVE  LocksTrue(v)'
<1>. USE DEF ProfileShape, OwnedDirs, Profile!Alive, DirsInv, LocksTrue
<1>0. Profile(v)!Nobody \notin v.pids /\ v.profiles \subseteq Profile(v)!Dirs
        /\ v.temps \subseteq Profile(v)!Dirs
      /\ v.profiles \intersect v.temps = {} /\ Profile(v)!Dirs = v.profiles
          \union v.temps
  BY DEF Profile!ProfileAssumption, Profile!Nobody, Profile!Dirs
<1>1. CASE UNCHANGED Profile(v)!vars
  BY <1>1 DEF Profile!vars, Profile!chrome
<1>2. ASSUME NEW c \in v.pids, Profile(v)!Singleton(c) PROVE LocksTrue(v)'
  BY <1>0, <1>2 DEF Profile!Singleton
<1>3. ASSUME NEW c \in v.pids, Profile(v)!Quit(c) PROVE LocksTrue(v)'
  BY <1>0, <1>3 DEF Profile!Quit, Profile!Unlocked
<1>4. ASSUME NEW c \in v.pids, Profile(v)!Die(c) PROVE LocksTrue(v)'
  BY <1>0, <1>4 DEF Profile!Die
<1>5. ASSUME NEW c \in v.pids, Profile(v)!Embedded(c) PROVE LocksTrue(v)'
  BY <1>0, <1>5 DEF Profile!Embedded, Profile!Launch, Profile!Dirs
<1>6. ASSUME Profile(v)!ClearLock PROVE LocksTrue(v)'
  BY <1>0, <1>6 DEF Profile!ClearLock, Profile!Dead, Profile!HasProcess
<1>7. ASSUME NEW c \in v.pids, Profile(v)!Spawn(c) PROVE LocksTrue(v)'
  BY <1>0, <1>7 DEF Profile!Spawn, Profile!Launch
<1>8. ASSUME NEW p \in v.profiles, Profile(v)!GcRemove(p) PROVE LocksTrue(v)'
  <2>1. \A c \in v.pids : Profile(v)!Alive(c) => where[c] # p
    BY <1>8, NobodyInGc
  <2>. QED BY <1>0, <1>8, <2>1 DEF Profile!GcRemove, Profile!RemoveProfile
<1>9. ASSUME NEW d \in v.temps, Profile(v)!SweepRemove(d) PROVE LocksTrue(v)'
  <2>1. \A c \in v.pids : Profile(v)!Alive(c) => where[c] # d
    BY <1>9, NobodyInSwept
  <2>. QED BY <1>0, <1>9, <2>1 DEF Profile!SweepRemove, Profile!RemoveProfile
<1>10. ASSUME \/ \E c \in v.pids : Profile(v)!Use(c)
              \/ \E d \in v.profiles : Profile(v)!Age(d)
              \/ \E p \in v.profiles :
                  Profile(v)!Acquire(p) \/ Profile(v)!GcJudge(p)
              \/ \E d \in v.temps : Profile(v)!SweepJudge(d)
              \/ Profile(v)!Ready \/ Profile(v)!GcList \/ Profile(v)!GcKeep
              \/ Profile(v)!GcEnd
      PROVE  LocksTrue(v)'
  <2>1. UNCHANGED <<lock, st, where>>
    BY <1>10 DEF Profile!Use, Profile!Age, Profile!Dirs, Profile!Acquire,
       Profile!chrome, Profile!Ready, Profile!Idle, Profile!GcList, Profile!GcIdle,
          Profile!GcKeep, Profile!GcJudge, Profile!GcEnd, Profile!SweepJudge
  <2>. QED BY <2>1
<1>. QED BY NoPurge, <1>1, <1>2, <1>3, <1>4, <1>5, <1>6, <1>7, <1>8, <1>9,
      <1>10 DEF Profile!Next, Profile!Chrome, Profile!Start, Profile!Gc,
      Profile!Sweep

\* A temporary directory belongs to the Chrome that made it (rod's launcher).
LEMMA TempsKeep ==
    ASSUME NEW v, Profile(v)!ProfileAssumption, NothingTaken(v), ProfileShape(v),
           OwnedDirs(v), DirsInv(v), [Profile(v)!Next]_(Profile(v)!vars)
    PROVE  TempsTrue(v)'
<1>. USE DEF ProfileShape, OwnedDirs, Profile!Alive, DirsInv, LocksTrue, TempsTrue,
       DirsTrue
<1>0. Profile(v)!Nobody \notin v.pids /\ v.profiles \subseteq Profile(v)!Dirs
        /\ v.temps \subseteq Profile(v)!Dirs
      /\ v.profiles \intersect v.temps = {} /\ Profile(v)!Dirs = v.profiles
          \union v.temps
  BY DEF Profile!ProfileAssumption, Profile!Nobody, Profile!Dirs
<1>1. CASE UNCHANGED Profile(v)!vars
  BY <1>1 DEF Profile!vars, Profile!chrome
<1>2. ASSUME NEW c \in v.pids, Profile(v)!Singleton(c) PROVE TempsTrue(v)'
  BY <1>0, <1>2 DEF Profile!Singleton
<1>3. ASSUME NEW c \in v.pids, Profile(v)!Quit(c) PROVE TempsTrue(v)'
  BY <1>0, <1>3 DEF Profile!Quit, Profile!Unlocked
<1>4. ASSUME NEW c \in v.pids, Profile(v)!Die(c) PROVE TempsTrue(v)'
  BY <1>0, <1>4 DEF Profile!Die
<1>5. ASSUME NEW c \in v.pids, Profile(v)!Use(c) PROVE TempsTrue(v)'
  BY <1>0, <1>5 DEF Profile!Use
<1>6. ASSUME NEW c \in v.pids, Profile(v)!Embedded(c) PROVE TempsTrue(v)'
  BY <1>0, <1>6 DEF Profile!Embedded, Profile!Launch, Profile!Dirs
<1>7. ASSUME NEW d \in v.profiles, Profile(v)!Age(d) PROVE TempsTrue(v)'
  BY <1>0, <1>7 DEF Profile!Age, Profile!Dirs
<1>8. ASSUME Profile(v)!ClearLock PROVE TempsTrue(v)'
  BY <1>0, <1>8 DEF Profile!ClearLock, Profile!Dead, Profile!HasProcess
<1>9. ASSUME NEW c \in v.pids, Profile(v)!Spawn(c) PROVE TempsTrue(v)'
  BY <1>0, <1>9 DEF Profile!Spawn, Profile!Launch
<1>10. ASSUME NEW p \in v.profiles, Profile(v)!GcRemove(p) PROVE TempsTrue(v)'
  <2>1. \A c \in v.pids : Profile(v)!Alive(c) => where[c] # p
    BY <1>10, NobodyInGc
  <2>. QED BY <1>0, <1>10, <2>1 DEF Profile!GcRemove, Profile!RemoveProfile
<1>11. ASSUME NEW d \in v.temps, Profile(v)!SweepRemove(d) PROVE TempsTrue(v)'
  <2>1. \A c \in v.pids : Profile(v)!Alive(c) => where[c] # d
    BY <1>11, NobodyInSwept
  <2>. QED BY <1>0, <1>11, <2>1 DEF Profile!SweepRemove, Profile!RemoveProfile
<1>12. ASSUME \/ \E p \in v.profiles :
                  Profile(v)!Acquire(p) \/ Profile(v)!GcJudge(p)
              \/ \E d \in v.temps : Profile(v)!SweepJudge(d)
              \/ Profile(v)!Ready \/ Profile(v)!GcList \/ Profile(v)!GcKeep
              \/ Profile(v)!GcEnd
      PROVE  TempsTrue(v)'
  <2>1. UNCHANGED <<dir, lock, st, where>>
    BY <1>12 DEF Profile!Acquire, Profile!chrome, Profile!Ready, Profile!Idle,
       Profile!GcList, Profile!GcIdle, Profile!GcKeep,
          Profile!GcJudge, Profile!GcEnd, Profile!SweepJudge
  <2>. QED BY <2>1
<1>. QED BY NoPurge, <1>1, <1>2, <1>3, <1>4, <1>5, <1>6, <1>7, <1>8, <1>9,
      <1>10, <1>11, <1>12 DEF Profile!Next, Profile!Chrome, Profile!Start,
      Profile!Gc, Profile!Sweep

\* Whoever lives has its directory (GCProfiles, SweepDeadRodProfiles).
LEMMA DirsKeep ==
    ASSUME NEW v, Profile(v)!ProfileAssumption, NothingTaken(v), ProfileShape(v),
           OwnedDirs(v), DirsInv(v), [Profile(v)!Next]_(Profile(v)!vars)
    PROVE  DirsTrue(v)'
<1>. USE DEF ProfileShape, OwnedDirs, Profile!Alive, DirsInv, LocksTrue, TempsTrue,
       DirsTrue
<1>0. Profile(v)!Nobody \notin v.pids /\ v.profiles \subseteq Profile(v)!Dirs
        /\ v.temps \subseteq Profile(v)!Dirs
      /\ v.profiles \intersect v.temps = {} /\ Profile(v)!Dirs = v.profiles
          \union v.temps
  BY DEF Profile!ProfileAssumption, Profile!Nobody, Profile!Dirs
<1>1. CASE UNCHANGED Profile(v)!vars
  BY <1>1 DEF Profile!vars, Profile!chrome
<1>2. ASSUME NEW c \in v.pids, Profile(v)!Singleton(c) PROVE DirsTrue(v)'
  BY <1>0, <1>2 DEF Profile!Singleton
<1>3. ASSUME NEW c \in v.pids, Profile(v)!Quit(c) PROVE DirsTrue(v)'
  BY <1>0, <1>3 DEF Profile!Quit, Profile!Unlocked
<1>4. ASSUME NEW c \in v.pids, Profile(v)!Die(c) PROVE DirsTrue(v)'
  BY <1>0, <1>4 DEF Profile!Die
<1>5. ASSUME NEW c \in v.pids, Profile(v)!Use(c) PROVE DirsTrue(v)'
  BY <1>0, <1>5 DEF Profile!Use
<1>6. ASSUME NEW c \in v.pids, Profile(v)!Embedded(c) PROVE DirsTrue(v)'
  BY <1>0, <1>6 DEF Profile!Embedded, Profile!Launch, Profile!Dirs
<1>7. ASSUME NEW d \in v.profiles, Profile(v)!Age(d) PROVE DirsTrue(v)'
  BY <1>0, <1>7 DEF Profile!Age, Profile!Dirs
<1>8. ASSUME NEW c \in v.pids, Profile(v)!Spawn(c) PROVE DirsTrue(v)'
  BY <1>0, <1>8 DEF Profile!Spawn, Profile!Launch
<1>9. ASSUME NEW p \in v.profiles, Profile(v)!GcRemove(p) PROVE DirsTrue(v)'
  <2>1. \A c \in v.pids : Profile(v)!Alive(c) => where[c] # p
    BY <1>9, NobodyInGc
  <2>. QED BY <1>0, <1>9, <2>1 DEF Profile!GcRemove, Profile!RemoveProfile
<1>10. ASSUME NEW d \in v.temps, Profile(v)!SweepRemove(d) PROVE DirsTrue(v)'
  <2>1. \A c \in v.pids : Profile(v)!Alive(c) => where[c] # d
    BY <1>10, NobodyInSwept
  <2>. QED BY <1>0, <1>10, <2>1 DEF Profile!SweepRemove, Profile!RemoveProfile
<1>11. ASSUME \/ \E p \in v.profiles :
                  Profile(v)!Acquire(p) \/ Profile(v)!GcJudge(p)
              \/ \E d \in v.temps : Profile(v)!SweepJudge(d)
              \/ Profile(v)!ClearLock \/ Profile(v)!Ready \/ Profile(v)!GcList
              \/ Profile(v)!GcKeep \/ Profile(v)!GcEnd
      PROVE  DirsTrue(v)'
  <2>1. UNCHANGED <<dir, st, where>>
    BY <1>11 DEF Profile!Acquire, Profile!chrome, Profile!ClearLock, Profile!Ready,
       Profile!Idle, Profile!GcList, Profile!GcIdle,
          Profile!GcKeep, Profile!GcJudge, Profile!GcEnd, Profile!SweepJudge
  <2>. QED BY <2>1
<1>. QED BY NoPurge, <1>1, <1>2, <1>3, <1>4, <1>5, <1>6, <1>7, <1>8, <1>9,
      <1>10, <1>11 DEF Profile!Next, Profile!Chrome, Profile!Start, Profile!Gc,
      Profile!Sweep

\* A directory judged dead stays so until it is removed (SweepDeadRodProfiles).
LEMMA DoomedKeeps ==
    ASSUME NEW v, Profile(v)!ProfileAssumption, NothingTaken(v), ProfileShape(v),
           OwnedDirs(v), DirsInv(v), [Profile(v)!Next]_(Profile(v)!vars)
    PROVE  DoomedDead(v)'
<1>. USE DEF ProfileShape, OwnedDirs, Profile!Alive, DirsInv, LocksTrue, DoomedDead
<1>0. Profile(v)!Nobody \notin v.pids /\ v.profiles \subseteq Profile(v)!Dirs
        /\ v.temps \subseteq Profile(v)!Dirs
      /\ v.profiles \intersect v.temps = {} /\ Profile(v)!Dirs = v.profiles
          \union v.temps
  BY DEF Profile!ProfileAssumption, Profile!Nobody, Profile!Dirs
<1>1. CASE UNCHANGED Profile(v)!vars
  BY <1>1 DEF Profile!vars, Profile!chrome
<1>2. ASSUME NEW c \in v.pids, Profile(v)!Singleton(c) PROVE DoomedDead(v)'
  BY <1>0, <1>2 DEF Profile!Singleton
<1>3. ASSUME NEW c \in v.pids, Profile(v)!Quit(c) PROVE DoomedDead(v)'
  BY <1>0, <1>3 DEF Profile!Quit, Profile!Unlocked
<1>4. ASSUME NEW c \in v.pids, Profile(v)!Die(c) PROVE DoomedDead(v)'
  BY <1>0, <1>4 DEF Profile!Die
<1>5. ASSUME NEW c \in v.pids, Profile(v)!Embedded(c) PROVE DoomedDead(v)'
  BY <1>0, <1>5 DEF Profile!Embedded, Profile!Launch, Profile!Dirs
<1>6. ASSUME Profile(v)!ClearLock PROVE DoomedDead(v)'
  BY <1>0, <1>6 DEF Profile!ClearLock, Profile!Dead, Profile!HasProcess
<1>7. ASSUME NEW c \in v.pids, Profile(v)!Spawn(c) PROVE DoomedDead(v)'
  BY <1>0, <1>7 DEF Profile!Spawn, Profile!Launch
<1>8. ASSUME NEW p \in v.profiles, Profile(v)!GcRemove(p) PROVE DoomedDead(v)'
  BY <1>0, <1>8 DEF Profile!GcRemove, Profile!RemoveProfile
<1>9. ASSUME NEW d \in v.temps, Profile(v)!SweepJudge(d) PROVE DoomedDead(v)'
  BY <1>0, <1>9 DEF Profile!SweepJudge, Profile!HasProcess, Profile!chrome
<1>10. ASSUME NEW d \in v.temps, Profile(v)!SweepRemove(d) PROVE DoomedDead(v)'
  BY <1>0, <1>10 DEF Profile!SweepRemove, Profile!RemoveProfile
<1>11. ASSUME \/ \E c \in v.pids : Profile(v)!Use(c)
              \/ \E d \in v.profiles : Profile(v)!Age(d)
              \/ \E p \in v.profiles :
                  Profile(v)!Acquire(p) \/ Profile(v)!GcJudge(p)
              \/ Profile(v)!Ready \/ Profile(v)!GcList \/ Profile(v)!GcKeep
              \/ Profile(v)!GcEnd
      PROVE  DoomedDead(v)'
  <2>1. UNCHANGED <<lock, st, doomed>>
    BY <1>11 DEF Profile!Use, Profile!Age, Profile!Dirs, Profile!Acquire,
       Profile!chrome, Profile!Ready, Profile!Idle, Profile!GcList, Profile!GcIdle,
          Profile!GcKeep, Profile!GcJudge, Profile!GcEnd
  <2>. QED BY <2>1
<1>. QED BY NoPurge, <1>1, <1>2, <1>3, <1>4, <1>5, <1>6, <1>7, <1>8, <1>9,
      <1>10, <1>11 DEF Profile!Next, Profile!Chrome, Profile!Start, Profile!Gc,
      Profile!Sweep

\* gc keeps what is in use: with no start beside it, nothing comes up in a
\* profile after it has asked which sessions answer.
LEMMA GcKeeps ==
    ASSUME NEW v, Profile(v)!ProfileAssumption, NothingTaken(v), ProfileShape(v),
           OwnedDirs(v), DirsInv(v), [Profile(v)!Next]_(Profile(v)!vars)
    PROVE  GcTrue(v)'
<1>. USE DEF ProfileShape, OwnedDirs, Profile!Alive, DirsInv, GcTrue, QuietTrue,
       NothingTaken
<1>0. Profile(v)!Nobody \notin v.pids /\ v.profiles \subseteq Profile(v)!Dirs
        /\ v.temps \subseteq Profile(v)!Dirs
      /\ v.profiles \intersect v.temps = {} /\ Profile(v)!Dirs = v.profiles
          \union v.temps
  BY DEF Profile!ProfileAssumption, Profile!Nobody, Profile!Dirs
<1>1. CASE UNCHANGED Profile(v)!vars
  BY <1>1 DEF Profile!vars, Profile!chrome
<1>2. ASSUME NEW c \in v.pids, Profile(v)!Singleton(c) PROVE GcTrue(v)'
  BY <1>0, <1>2 DEF Profile!Singleton
<1>3. ASSUME NEW c \in v.pids, Profile(v)!Quit(c) PROVE GcTrue(v)'
  BY <1>0, <1>3 DEF Profile!Quit, Profile!Unlocked
<1>4. ASSUME NEW c \in v.pids, Profile(v)!Die(c) PROVE GcTrue(v)'
  BY <1>0, <1>4 DEF Profile!Die
<1>5. ASSUME NEW c \in v.pids, Profile(v)!Embedded(c) PROVE GcTrue(v)'
  BY <1>0, <1>5 DEF Profile!Embedded, Profile!Launch, Profile!Dirs
<1>6. ASSUME NEW p \in v.profiles, Profile(v)!Acquire(p) PROVE GcTrue(v)'
  BY <1>0, <1>6 DEF Profile!Acquire, Profile!chrome
<1>7. ASSUME Profile(v)!ClearLock PROVE GcTrue(v)'
  BY <1>0, <1>7 DEF Profile!ClearLock, Profile!Dead, Profile!HasProcess
<1>8. ASSUME NEW c \in v.pids, Profile(v)!Spawn(c) PROVE GcTrue(v)'
  BY <1>0, <1>8 DEF Profile!Spawn, Profile!Launch
<1>9. ASSUME Profile(v)!Ready PROVE GcTrue(v)'
  BY <1>0, <1>9 DEF Profile!Ready, Profile!chrome, Profile!Idle
<1>10. ASSUME Profile(v)!GcList PROVE GcTrue(v)'
  BY <1>0, <1>10 DEF Profile!GcList, Profile!chrome, Profile!GcIdle
<1>11. ASSUME Profile(v)!GcKeep PROVE GcTrue(v)'
  BY <1>0, <1>11 DEF Profile!GcKeep, Profile!chrome
<1>12. ASSUME NEW p \in v.profiles, Profile(v)!GcJudge(p) PROVE GcTrue(v)'
  BY <1>0, <1>12 DEF Profile!GcJudge, Profile!chrome
<1>13. ASSUME Profile(v)!GcEnd PROVE GcTrue(v)'
  BY <1>0, <1>13 DEF Profile!GcEnd, Profile!chrome, Profile!GcIdle
<1>14. ASSUME \/ \E c \in v.pids : Profile(v)!Use(c)
              \/ \E d \in v.profiles : Profile(v)!Age(d)
              \/ \E d \in v.temps : Profile(v)!SweepJudge(d)
      PROVE  GcTrue(v)'
  BY <1>0, <1>14 DEF Profile!Use, Profile!Age, Profile!Dirs, Profile!SweepJudge,
     Profile!chrome
<1>15. ASSUME NEW p \in v.profiles, Profile(v)!GcRemove(p) PROVE GcTrue(v)'
  BY <1>0, <1>15 DEF Profile!GcRemove, Profile!RemoveProfile
<1>16. ASSUME NEW d \in v.temps, Profile(v)!SweepRemove(d) PROVE GcTrue(v)'
  BY <1>0, <1>16 DEF Profile!SweepRemove, Profile!RemoveProfile
<1>. QED BY NoPurge, <1>1, <1>2, <1>3, <1>4, <1>5, <1>6, <1>7, <1>8, <1>9,
      <1>10, <1>11, <1>12, <1>13, <1>14, <1>15, <1>16 DEF Profile!Next,
      Profile!Chrome, Profile!Start,
      Profile!Gc, Profile!Sweep

LEMMA QuietKeeps ==
    ASSUME NEW v, Profile(v)!ProfileAssumption, NothingTaken(v), ProfileShape(v),
           OwnedDirs(v), DirsInv(v), [Profile(v)!Next]_(Profile(v)!vars)
    PROVE  QuietTrue(v)'
<1>. USE DEF ProfileShape, OwnedDirs, Profile!Alive, DirsInv, QuietTrue
<1>0. Profile(v)!Nobody \notin v.pids /\ v.profiles \subseteq Profile(v)!Dirs
        /\ v.temps \subseteq Profile(v)!Dirs
      /\ v.profiles \intersect v.temps = {} /\ Profile(v)!Dirs = v.profiles
          \union v.temps
  BY DEF Profile!ProfileAssumption, Profile!Nobody, Profile!Dirs
<1>1. CASE UNCHANGED Profile(v)!vars
  BY <1>1 DEF Profile!vars, Profile!chrome
<1>2. ASSUME NEW c \in v.pids, Profile(v)!Singleton(c) PROVE QuietTrue(v)'
  BY <1>0, <1>2 DEF Profile!Singleton
<1>3. ASSUME NEW c \in v.pids, Profile(v)!Quit(c) \/ Profile(v)!Die(c)
      PROVE  QuietTrue(v)'
  BY <1>0, <1>3 DEF Profile!Quit, Profile!Unlocked, Profile!Die
<1>4. ASSUME NEW c \in v.pids, Profile(v)!Embedded(c) PROVE QuietTrue(v)'
  BY <1>0, <1>4 DEF Profile!Embedded, Profile!Launch, Profile!Dirs
<1>5. ASSUME NEW c \in v.pids, Profile(v)!Spawn(c) PROVE QuietTrue(v)'
  BY <1>0, <1>5 DEF Profile!Spawn, Profile!Launch
<1>6. ASSUME Profile(v)!GcList PROVE QuietTrue(v)'
  BY <1>0, <1>6 DEF Profile!GcList, Profile!chrome, Profile!GcIdle
<1>7. ASSUME Profile(v)!GcKeep PROVE QuietTrue(v)'
  BY <1>0, <1>7 DEF Profile!GcKeep, Profile!chrome
<1>8. ASSUME NEW p \in v.profiles, Profile(v)!GcJudge(p) PROVE QuietTrue(v)'
  BY <1>0, <1>8 DEF Profile!GcJudge, Profile!chrome
<1>9. ASSUME NEW p \in v.profiles, Profile(v)!GcRemove(p) PROVE QuietTrue(v)'
  BY <1>0, <1>9 DEF Profile!GcRemove, Profile!RemoveProfile
<1>10. ASSUME Profile(v)!GcEnd PROVE QuietTrue(v)'
  BY <1>0, <1>10 DEF Profile!GcEnd, Profile!chrome, Profile!GcIdle
<1>11. ASSUME \/ \E c \in v.pids : Profile(v)!Use(c)
              \/ \E d \in v.profiles : Profile(v)!Age(d)
              \/ \E p \in v.profiles : Profile(v)!Acquire(p)
              \/ \E d \in v.temps :
                  Profile(v)!SweepJudge(d) \/ Profile(v)!SweepRemove(d)
              \/ Profile(v)!ClearLock \/ Profile(v)!Ready
      PROVE  QuietTrue(v)'
  BY <1>0, <1>11 DEF Profile!Use, Profile!Age, Profile!Dirs, Profile!Acquire,
     Profile!chrome, Profile!ClearLock, Profile!Ready, Profile!Idle,
        Profile!SweepJudge, Profile!SweepRemove, Profile!RemoveProfile
<1>. QED BY NoPurge, <1>1, <1>2, <1>3, <1>4, <1>5, <1>6, <1>7, <1>8, <1>9,
      <1>10, <1>11 DEF Profile!Next, Profile!Chrome, Profile!Start, Profile!Gc,
      Profile!Sweep

LEMMA ProfileInvHolds ==
    ASSUME NEW v, Profile(v)!ProfileAssumption
    PROVE  Profile(v)!Spec => []ProfileInv(v)
<1>1. Profile(v)!Init => ProfileInv(v)
  BY ProfileInit
<1>2. ProfileInv(v) /\ [Profile(v)!Next]_(Profile(v)!vars) => ProfileInv(v)'
  BY ProfileShapeKeeps, OwnedKeeps, ClearedKeeps DEF ProfileInv
<1>. QED BY <1>1, <1>2, PTL DEF Profile!Spec

LEMMA DirsInvHolds ==
    ASSUME NEW v, Profile(v)!ProfileAssumption, NothingTaken(v)
    PROVE  Profile(v)!Spec => [](ProfileInv(v) /\ DirsInv(v))
<1>1. Profile(v)!Init => DirsInv(v)
  BY DirsInit
<1>2. ProfileInv(v) /\ DirsInv(v) /\ [Profile(v)!Next]_(Profile(v)!vars)
        => DirsInv(v)'
  BY LocksKeep, TempsKeep, DirsKeep, DoomedKeeps, GcKeeps, QuietKeeps DEF
        ProfileInv, DirsInv
<1>. QED BY <1>1, <1>2, ProfileInvHolds, PTL DEF Profile!Spec

LEMMA ProfileInvMeans ==
    ASSUME NEW v, Profile(v)!ProfileAssumption, ProfileInv(v)
    PROVE  Profile(v)!TypeOK
BY DEF ProfileInv, ProfileShape, OwnedDirs, Profile!TypeOK

LEMMA DirsInvMeans ==
    ASSUME NEW v, Profile(v)!ProfileAssumption, ProfileInv(v), DirsInv(v)
    PROVE  Profile(v)!OneChrome /\ Profile(v)!LiveKeepsItsDir
<1>1. Profile(v)!OneChrome
  BY DEF ProfileInv, ProfileShape, DirsInv, LocksTrue, Profile!OneChrome
<1>2. Profile(v)!LiveKeepsItsDir
  BY DEF ProfileInv, ProfileShape, DirsInv, DirsTrue, Profile!Alive,
     Profile!Nobody, Profile!ProfileAssumption, Profile!LiveKeepsItsDir
<1>. QED BY <1>1, <1>2

\* Type correctness, whoever is about: a registered session's Chrome is in the
\* directory of its name, and gc removes none it has decided to keep.
THEOREM ProfilesTypeCorrect ==
    ASSUME NEW v, Profile(v)!ProfileAssumption
    PROVE  Profile(v)!Spec => []Profile(v)!TypeOK
<1>1. ProfileInv(v) => Profile(v)!TypeOK
  BY ProfileInvMeans
<1>. QED BY <1>1, ProfileInvHolds, PTL

\* A Chrome aborts at no lock whose holder was gone when the start looked.
LEMMA DeadLocksPass ==
    ASSUME NEW v, Profile(v)!ProfileAssumption, ProfileInv(v)
    PROVE  Profile(v)!NeverAbortsOnDead
<1>1. SUFFICES ASSUME NEW c \in v.pids, Profile(v)!Singleton(c), st'[c] = "dead", spawned = c
               PROVE  lock[where[c]] \notin gone
  BY DEF Profile!NeverAbortsOnDead
<1>. QED BY <1>1 DEF ProfileInv, OwnedDirs, LocksCleared, Profile!Nobody,
         Profile!ProfileAssumption

\* The Chrome a session start has launched never aborts on the lock of one
\* that was dead when the start looked, and its PID nobody's, whoever else is
\* about (clearStaleProfileLock, waitForCDP).
THEOREM DeadLocksDoNotStop ==
    ASSUME NEW v, Profile(v)!ProfileAssumption
    PROVE  Profile(v)!Spec => [][Profile(v)!NeverAbortsOnDead]_(Profile(v)!vars)
<1>1. ProfileInv(v) /\ [Profile(v)!Next]_(Profile(v)!vars)
        => [Profile(v)!NeverAbortsOnDead]_(Profile(v)!vars)
  BY DeadLocksPass
<1>. QED BY <1>1, ProfileInvHolds, PTL DEF Profile!Spec

\* Two Chromes never run on one directory, though starts remove locks
\* (clearStaleProfileLock, GCProfiles, SweepDeadRodProfiles).
THEOREM OneChromeEach ==
    ASSUME NEW v, Profile(v)!ProfileAssumption, NothingTaken(v)
    PROVE  Profile(v)!Spec => []Profile(v)!OneChrome
<1>1. ProfileInv(v) /\ DirsInv(v) => Profile(v)!OneChrome
  BY DirsInvMeans
<1>. QED BY <1>1, DirsInvHolds, PTL

\* No directory is taken from a Chrome that lives (GCProfiles, which judges by
\* what it read before it removes; SweepDeadRodProfiles).
THEOREM LivingKeepTheirs ==
    ASSUME NEW v, Profile(v)!ProfileAssumption, NothingTaken(v)
    PROVE  Profile(v)!Spec => []Profile(v)!LiveKeepsItsDir
<1>1. ProfileInv(v) /\ DirsInv(v) => Profile(v)!LiveKeepsItsDir
  BY DirsInvMeans
<1>. QED BY <1>1, DirsInvHolds, PTL
----------------------------------------------------------------------------
\* The component that the behaviour is of keeps its invariant; a step of
\* another component is none of it.
SharedInv ==
    /\ part = "context"      => ContextInv(OneByOne) /\ Agrees(OneByOne, c1, "b1")
    /\ part = "contexts"     => ContextInv(AtOnce)
    /\ part = "profileLocks" => ProfileInv(Starts) /\ DirsInv(Starts)
    /\ part = "profileStops" => ProfileInv(Purges)
    /\ part = "profileGc"    => ProfileInv(Collects) /\ DirsInv(Collects)

SharedParts ==
    {"context", "contexts", "profileLocks", "profileStops", "profileGc"}

LEMMA Instances ==
    /\ Alone(OneByOne, c1, "b1")
    /\ NothingTaken(Starts) /\ NothingTaken(Collects)
BY DEF OneByOne, Starts, Collects, Alone, NothingTaken

LEMMA SharedInit == Init => SharedInv
BY SessionAssumption, Instances, ContextInit, AgreesInit, ProfileInit, DirsInit
   DEF SessionAssumption, Init, SharedInv

LEMMA SharedKeeps == SharedInv /\ [Next]_vars => SharedInv'
<1>. SUFFICES ASSUME SharedInv, [Next]_vars PROVE SharedInv'
  OBVIOUS
<1>. USE SessionAssumption, Instances DEF SessionAssumption
<1>1. ASSUME NEW v, Context(v)!NamedContextsAssumption, ContextInv(v),
             UNCHANGED vars \/ Context(v)!Next
      PROVE  /\ ContextInv(v)'
             /\ \A p, b : Alone(v, p, b) /\ Agrees(v, p, b) => Agrees(v, p, b)'
  <2>1. [Context(v)!Next]_(Context(v)!vars)
    BY <1>1 DEF vars, Context!vars, Context!commands
  <2>. QED BY <1>1, <2>1, ContextKeeps, AgreesKeeps
<1>2. ASSUME NEW v, Profile(v)!ProfileAssumption, ProfileInv(v),
             UNCHANGED vars \/ Profile(v)!Next
      PROVE  /\ ProfileInv(v)'
             /\ NothingTaken(v) /\ DirsInv(v) => DirsInv(v)'
  <2>1. [Profile(v)!Next]_(Profile(v)!vars)
    BY <1>2 DEF vars, Profile!vars
  <2>2. ProfileInv(v)'
    BY <1>2, <2>1, ProfileShapeKeeps, OwnedKeeps, ClearedKeeps DEF ProfileInv
  <2>3. ASSUME NothingTaken(v), DirsInv(v) PROVE DirsInv(v)'
    BY <1>2, <2>1, <2>3, LocksKeep, TempsKeep, DirsKeep, DoomedKeeps, GcKeeps,
       QuietKeeps DEF ProfileInv, DirsInv
  <2>. QED BY <2>2, <2>3
<1>3. CASE UNCHANGED vars
  <2>1. UNCHANGED part
    BY <1>3 DEF vars
  <2>. QED BY <1>1, <1>2, <1>3, <2>1 DEF SharedInv
<1>4. CASE part = "context" /\ UNCHANGED part /\ Context(OneByOne)!Next
  BY <1>1, <1>4 DEF SharedInv
<1>5. CASE part = "contexts" /\ UNCHANGED part /\ Context(AtOnce)!Next
  BY <1>1, <1>5 DEF SharedInv
<1>6. CASE part = "profileLocks" /\ UNCHANGED part /\ Profile(Starts)!Next
  BY <1>2, <1>6 DEF SharedInv
<1>7. CASE part = "profileStops" /\ UNCHANGED part /\ Profile(Purges)!Next
  BY <1>2, <1>7 DEF SharedInv
<1>8. CASE part = "profileGc" /\ UNCHANGED part /\ Profile(Collects)!Next
  BY <1>2, <1>8 DEF SharedInv
<1>9. CASE part \notin SharedParts /\ UNCHANGED part
  BY <1>9 DEF SharedInv, SharedParts
<1>. QED BY <1>3, <1>4, <1>5, <1>6, <1>7, <1>8, <1>9 DEF Next, Step, SharedParts

\* Contexts and profile directories in the run of the sessions: names share no
\* context; where commands come one at a time a context is registered, but for
\* those whose maker failed or was killed and those Chrome did not dispose of; one
\* Chrome runs on a profile and none loses its directory (AcquireContext,
\* CloseContext, clearStaleProfileLock, GCProfiles).
THEOREM SharedIsRight == Spec => []SharedHold
<1>1. SharedInv => SharedHold
  <2>. USE SessionAssumption, Instances DEF SessionAssumption, SharedInv
  <2>1. ASSUME SharedInv, part = "context"
        PROVE  /\ Context(OneByOne)!TypeOK /\ Context(OneByOne)!ClosedIsGone
               /\ Context(OneByOne)!EveryContextRegistered
    BY <2>1, AgreesMeans, ContextInvMeans
  <2>2. ASSUME SharedInv, part = "contexts"
        PROVE  Context(AtOnce)!TypeOK /\ Context(AtOnce)!NamesAreIsolated
    BY <2>2, ContextInvMeans
  <2>3. ASSUME SharedInv, part = "profileLocks"
        PROVE  Profile(Starts)!TypeOK /\ Profile(Starts)!OneChrome
    BY <2>3, ProfileInvMeans, DirsInvMeans
  <2>4. ASSUME SharedInv, part = "profileStops" PROVE Profile(Purges)!TypeOK
    BY <2>4, ProfileInvMeans
  <2>5. ASSUME SharedInv, part = "profileGc"
        PROVE  Profile(Collects)!TypeOK /\ Profile(Collects)!LiveKeepsItsDir
    BY <2>5, ProfileInvMeans, DirsInvMeans
  <2>. QED BY <2>1, <2>2, <2>3, <2>4, <2>5 DEF SharedHold
<1>2. SharedInv /\ [Next]_vars => SharedInv'
  BY SharedKeeps
<1>. QED BY <1>1, <1>2, SharedInit, PTL DEF Spec
----------------------------------------------------------------------------
\* The op session. The types of what it keeps.
OpKinds(v) == {v.kind[n] : n \in v.nodes}
OpShape(v) ==
    /\ connected \in BOOLEAN /\ browser \in 0..v.launches
    /\ up \subseteq 1..v.launches
    /\ DOMAIN doc \subseteq v.tabs /\ \A t \in DOMAIN doc : doc[t] \in v.docs
    /\ page \in v.tabs \union {NoTab}
OpTables(v) ==
    /\ mem \in Seq(v.nodes)
    /\ DOMAIN kept \subseteq (IF connected THEN v.tabs ELSE {})
    /\ \A t \in DOMAIN kept : kept[t] \in Seq(v.nodes)
    /\ DOMAIN known \subseteq Nat /\ \A i \in DOMAIN known : known[i] \in OpKinds(v)
OpAsked(v) ==
    /\ req.op \in Op(v)!Ops \union {""} /\ req.ref \in Nat
    /\ prev \in Seq(v.nodes) /\ fields \subseteq Nat
OpFlags ==
    /\ recovered \in BOOLEAN /\ cameBy \in BOOLEAN
    /\ retried \in BOOLEAN /\ semantic \in BOOLEAN
OpActs(v) ==
    acted.want \in OpKinds(v) \union {""} /\ acted.got \in OpKinds(v) \union {""}

\* Where a request may be, and how often it has run to its end there.
OpPlace(v) ==
    /\ pc \in {"ready", "try", "failed", "observe", "capture", "fill", "shut"}
    /\ err \in Op(v)!Errors /\ done \in Nat
    /\ pc \notin {"ready", "shut"} => page \in DOMAIN doc
    /\ pc = "ready" => req.op # "fill"
    /\ pc \in {"try", "failed", "observe"} =>
          req.ref \in DOMAIN known /\ req.op # "fill"
    /\ pc = "fill" =>
          req.op = "fill" /\ fields \subseteq DOMAIN known /\ snap \in Seq(v.nodes)
    /\ pc = "capture" => snap = <<page>>
    /\ pc \notin {"capture", "fill"} => snap = << >>
    /\ pc \in {"ready", "shut", "try", "failed"} => done = 0
    /\ pc \in {"observe", "capture"} => done = 1 /\ err = ""
    /\ pc = "try" /\ semantic => req.ref \in DOMAIN Op(v)!Table

\* The refs of k stand in the table t for what they were shown as.
Agree(v, k, t) == \A i \in DOMAIN k \intersect DOMAIN t : k[i] = v.kind[t[i]]

\* What the client knows agrees with the table of the session, and while a
\* request runs with the one it began with, of which the client will be told
\* the differences; a fill has written nothing while it has no table.
OpRefs(v) ==
    /\ pc \notin {"fill", "shut"} => Agree(v, known, Op(v)!Table)
    /\ pc \notin {"ready", "shut"} => Agree(v, known, prev)
    /\ pc = "fill" =>
          /\ done = 0 => snap = prev /\ Op(v)!Table = prev
          /\ prev = << >> => done = 0
OpInv(v) ==
    /\ OpShape(v) /\ OpTables(v) /\ OpAsked(v) /\ OpFlags /\ OpActs(v)
    /\ OpPlace(v) /\ OpRefs(v)
    /\ Op(v)!ActsOnWhatWasNamed

\* The client is the JSONL loop, which is told what a fill did to the refs, and
\* adoptions do not fail.
Told(v) == Op(v)!OpSessionAssumption /\ ~v.mcp /\ ~v.adoptFails

\* Tables.
LEMMA TableElems ==
    ASSUME NEW S, NEW t \in Seq(S)
    PROVE  /\ DOMAIN t \subseteq Nat \ {0} /\ DOMAIN t = 1..Len(t) /\ Len(t) \in Nat
           /\ \A i \in DOMAIN t : t[i] \in S
OBVIOUS

\* A ref is resolved to an element of the kind that it has in the table, and by
\* its node only if it is in the table.
LEMMA ResolvedIsAlike ==
    ASSUME NEW v, NEW t \in Seq(v.nodes), NEW d \in Seq(v.nodes), NEW i
    PROVE  /\ \A e \in Op(v)!ByRoleName(t, i, d) :
                 e \in v.nodes /\ v.kind[e] = v.kind[t[i]]
           /\ \A e \in Op(v)!Resolve(t, i, d) :
                 i \in DOMAIN t /\ e \in v.nodes /\ v.kind[e] = v.kind[t[i]]
<1>1. \A e \in Op(v)!ByRoleName(t, i, d) :
        e \in v.nodes /\ v.kind[e] = v.kind[t[i]]
  <2>. SUFFICES ASSUME NEW e \in Op(v)!ByRoleName(t, i, d)
                PROVE  e \in v.nodes /\ v.kind[e] = v.kind[t[i]]
    OBVIOUS
  <2>1. PICK j \in DOMAIN d : e = d[j] /\ v.kind[d[j]] = v.kind[t[i]]
    BY DEF Op!ByRoleName
  <2>. QED BY <2>1, TableElems
<1>2. ASSUME NEW e \in Op(v)!Resolve(t, i, d)
      PROVE  i \in DOMAIN t /\ e \in v.nodes /\ v.kind[e] = v.kind[t[i]]
  <2>1. i \in DOMAIN t /\ (e = t[i] \/ e \in Op(v)!ByRoleName(t, i, d))
    BY <1>2 DEF Op!Resolve
  <2>. QED BY <1>1, <2>1, TableElems
<1>. QED BY <1>1, <1>2

\* A client that is shown a table agrees with it.
LEMMA ShownAgrees ==
    ASSUME NEW v, NEW t \in Seq(v.nodes)
    PROVE  /\ Agree(v, Op(v)!Shown(t), t) /\ DOMAIN Op(v)!Shown(t) \subseteq Nat
           /\ \A i \in DOMAIN Op(v)!Shown(t) : Op(v)!Shown(t)[i] \in OpKinds(v)
BY TableElems DEF Agree, Op!Shown, OpKinds

\* One that agreed with a table and reads how another differs agrees with the
\* other.
LEMMA AppliedAgrees ==
    ASSUME NEW v, NEW p \in Seq(v.nodes), NEW t \in Seq(v.nodes), NEW k,
           DOMAIN k \subseteq Nat, \A i \in DOMAIN k : k[i] \in OpKinds(v),
           Agree(v, k, p)
    PROVE  LET a == Op(v)!Applied(k, Op(v)!DiffRefs(p, t))
           IN  /\ Agree(v, a, t) /\ DOMAIN a \subseteq Nat
               /\ \A i \in DOMAIN a : a[i] \in OpKinds(v)
<1>. DEFINE D == {j \in DOMAIN t : j \in DOMAIN p => v.kind[p[j]] # v.kind[t[j]]}
            s == [i \in D |-> v.kind[t[i]]]
            r == DOMAIN p \ DOMAIN t
            a == [i \in (DOMAIN k \ r) \union D |-> IF i \in D THEN s[i] ELSE k[i]]
<1>1. Op(v)!DiffRefs(p, t) = [removed |-> r, shown |-> s]
  BY DEF Op!DiffRefs, Op!Shown
<1>2. Op(v)!Applied(k, Op(v)!DiffRefs(p, t)) = a
  BY <1>1 DEF Op!Applied
<1>3. /\ DOMAIN a = (DOMAIN k \ r) \union D
      /\ \A i \in D : a[i] = v.kind[t[i]]
      /\ \A i \in DOMAIN a : i \notin D => i \in DOMAIN k /\ i \notin r /\ a[i] = k[i]
  OBVIOUS
<1>4. D \subseteq DOMAIN t /\ DOMAIN t \subseteq Nat
      /\ \A i \in DOMAIN t : v.kind[t[i]] \in OpKinds(v)
  BY TableElems DEF OpKinds
<1>5. Agree(v, a, t)
  <2>. SUFFICES ASSUME NEW i \in DOMAIN a \intersect DOMAIN t
                PROVE  a[i] = v.kind[t[i]]
    BY DEF Agree
  <2>1. CASE i \in D
    BY <1>3, <2>1
  <2>2. CASE i \notin D
    <3>1. i \in DOMAIN p /\ v.kind[p[i]] = v.kind[t[i]]
      BY <2>2
    <3>2. i \in DOMAIN k /\ a[i] = k[i]
      BY <1>3, <2>2
    <3>. HIDE DEF a, s, D, r
    <3>. QED BY <3>1, <3>2 DEF Agree
  <2>. QED BY <2>1, <2>2
<1>6. DOMAIN a \subseteq Nat /\ \A i \in DOMAIN a : a[i] \in OpKinds(v)
  <2>. HIDE DEF a, s, D, r
  <2>. QED BY <1>3, <1>4
<1>. HIDE DEF a
<1>. QED BY <1>2, <1>5, <1>6

\* The table that is saved for the current target is its table from then on.
LEMMA SavedIsTable ==
    ASSUME NEW v, NEW p \in v.tabs, NEW t, NEW m,
           DOMAIN kept \subseteq (IF connected THEN v.tabs ELSE {})
    PROVE  /\ (connected \/ m = t) => Op(v)!TableOf(Op(v)!Saved(p, t), m, p) = t
           /\ DOMAIN Op(v)!Saved(p, t) \subseteq (IF connected THEN v.tabs ELSE {})
           /\ \A u \in DOMAIN Op(v)!Saved(p, t) :
                 Op(v)!Saved(p, t)[u] = t \/ (u \in DOMAIN kept
                                             /\ Op(v)!Saved(p, t)[u] = kept[u])
<1>1. CASE connected
  BY <1>1 DEF Op!Saved, Op!With, Op!TableOf
<1>2. CASE ~connected
  BY <1>2 DEF Op!Saved, Op!TableOf
<1>. QED BY <1>1, <1>2

\* The current table.
LEMMA TableIsTyped ==
    ASSUME NEW v, OpTables(v)
    PROVE  /\ Op(v)!Table \in Seq(v.nodes)
           /\ page \notin DOMAIN kept => Op(v)!Table = mem
BY DEF OpTables, Op!Table, Op!TableOf

LEMMA NoTable == DOMAIN << >> = {} /\ \A S : << >> \in Seq(S)
<1>1. DOMAIN << >> = {}
  OBVIOUS
<1>2. \A S : << >> \in Seq(S)
  OBVIOUS
<1>. QED BY <1>1, <1>2

LEMMA OpInit ==
    ASSUME NEW v, Told(v), Op(v)!Init
    PROVE  OpInv(v)
<1>. USE DEF Op!Init, Op!NoReq, Op!NoAct
<1>1. connected \in BOOLEAN
  BY Zenon
<1>0. /\ DOMAIN known = {} /\ DOMAIN kept = {} /\ DOMAIN doc = {}
      /\ mem \in Seq(v.nodes) /\ prev \in Seq(v.nodes)
  BY NoTable
<1>2. OpShape(v) /\ OpTables(v) /\ OpAsked(v)
  <2>1. browser \in 0..v.launches /\ up \subseteq 1..v.launches
    <3>1. v.launches \in Nat
      BY DEF Told, Op!OpSessionAssumption
    <3>2. 0 \in 0..v.launches
      <4>. HIDE DEF Op!Init
      <4>. QED BY <3>1
    <3>. QED BY <3>2, Zenon
  <2>. QED BY <1>0, <1>1, <2>1 DEF OpShape, OpTables, OpAsked, Told
<1>3. OpFlags /\ OpActs(v)
  BY DEF OpFlags, OpActs
<1>4. OpPlace(v)
  BY DEF OpPlace, Op!Errors
<1>5. OpRefs(v) /\ Op(v)!ActsOnWhatWasNamed
  BY <1>0 DEF OpRefs, Agree, Op!ActsOnWhatWasNamed
<1>. QED BY <1>2, <1>3, <1>4, <1>5 DEF OpInv

LEMMA TailIsTable ==
    ASSUME NEW S, NEW s \in Seq(S), NEW k \in 1..(Len(s) + 1)
    PROVE  SubSeq(s, k, Len(s)) \in Seq(S)
OBVIOUS

LEMMA SavedHere ==
    ASSUME NEW v, OpTables(v), page \in v.tabs, NEW t
    PROVE  /\ Op(v)!TableOf(Op(v)!Saved(page, t), t, page) = t
           /\ DOMAIN Op(v)!Saved(page, t) \subseteq (IF connected THEN v.tabs ELSE {})
           /\ \A u \in DOMAIN Op(v)!Saved(page, t) :
                 Op(v)!Saved(page, t)[u] = t
                   \/ (u \in DOMAIN kept /\ Op(v)!Saved(page, t)[u] = kept[u])
<1>1. DOMAIN kept \subseteq (IF connected THEN v.tabs ELSE {})
  BY DEF OpTables
<1>. QED BY <1>1, SavedIsTable

\* An extraction of the current target is its table from then on.
LEMMA RememberedIsTable ==
    ASSUME NEW v, OpTables(v), page \in v.tabs, NEW t \in Seq(v.nodes),
           mem' = t, kept' = Op(v)!Saved(page, t), page' = page,
           connected' = connected, DOMAIN known' \subseteq Nat,
           \A i \in DOMAIN known' : known'[i] \in OpKinds(v)
    PROVE  Op(v)!Table' = t /\ OpTables(v)'
<1>1. /\ Op(v)!TableOf(Op(v)!Saved(page, t), t, page) = t
      /\ DOMAIN Op(v)!Saved(page, t) \subseteq (IF connected THEN v.tabs ELSE {})
      /\ \A u \in DOMAIN Op(v)!Saved(page, t) :
            Op(v)!Saved(page, t)[u] = t \/ (u \in DOMAIN kept
                                           /\ Op(v)!Saved(page, t)[u] = kept[u])
  BY SavedHere
<1>2. Op(v)!Table' = t
  BY <1>1 DEF Op!Table
<1>. QED BY <1>1, <1>2 DEF OpTables

\* A tab shows another document; a tab is opened.
LEMMA DocumentsChange ==
    ASSUME NEW v, OpShape(v), NEW t, NEW d \in v.docs
    PROVE  /\ t \in DOMAIN doc /\ doc' = [doc EXCEPT ![t] = d] =>
                 DOMAIN doc' = DOMAIN doc /\ \A u \in DOMAIN doc' : doc'[u] \in v.docs
           /\ doc' = Op(v)!With(doc, t, d) =>
                 /\ DOMAIN doc' = DOMAIN doc \union {t}
                 /\ \A u \in DOMAIN doc' : doc'[u] \in v.docs
BY DEF OpShape, Op!With

\* What the session does between two requests.
LEMMA BetweenRequests ==
    ASSUME NEW v, OpInv(v), pc = "ready", pc' \in {"ready", "shut"},
           UNCHANGED <<req, prev, fields, snap, err, retried, semantic, done, acted>>,
           OpShape(v)', OpTables(v)', recovered' \in BOOLEAN, cameBy' \in BOOLEAN,
           pc' = "ready" => Agree(v, known, Op(v)!Table)'
    PROVE  OpInv(v)'
<1>1. OpAsked(v)' /\ OpFlags' /\ OpActs(v)'
  BY DEF OpInv, OpAsked, OpFlags, OpActs
<1>2. OpPlace(v)'
  BY DEF OpInv, OpPlace
<1>3. OpRefs(v)'
  BY DEF OpInv, OpRefs
<1>4. Op(v)!ActsOnWhatWasNamed'
  BY DEF OpInv, Op!ActsOnWhatWasNamed
<1>. QED BY <1>1, <1>2, <1>3, <1>4 DEF OpInv

\* A request is answered.
LEMMA AnswerKeeps ==
    ASSUME NEW v, OpInv(v), NEW e \in Op(v)!Errors, Op(v)!Answered(e),
           e = "timeout" => done = 0 /\ req.op # "fill",
           UNCHANGED <<connected, browser, up, doc, page, recovered, cameBy>>,
           OpTables(v)', Agree(v, known, Op(v)!Table)'
    PROVE  OpInv(v)'
<1>0. /\ pc' = "ready" /\ err' = e /\ prev' = << >> /\ fields' = {} /\ snap' = << >>
      /\ req' \in {req, [op |-> "", ref |-> 0]} /\ done' \in {done, 0}
      /\ (e # "timeout" => done' = 0)
      /\ acted' = [want |-> "", got |-> "", field |-> 1]
      /\ retried' \in BOOLEAN /\ semantic' \in BOOLEAN
  <2>1. retried' \in BOOLEAN /\ semantic' \in BOOLEAN
    BY Zenon DEF Op!Answered
  <2>. QED BY <2>1 DEF Op!Answered, Op!NoReq, Op!NoAct
<1>1. OpShape(v)' /\ OpFlags' /\ OpActs(v)'
  BY <1>0 DEF OpInv, OpShape, OpFlags, OpActs
<1>2. OpAsked(v)'
  <2>1. /\ req.op \in Op(v)!Ops \union {""} /\ req.ref \in Nat
    BY DEF OpInv, OpAsked
  <2>2. req'.op \in Op(v)!Ops \union {""} /\ req'.ref \in Nat
    <3>1. CASE req' = req
      BY <2>1, <3>1
    <3>2. CASE req' = [op |-> "", ref |-> 0]
      <4>1. req'.op = "" /\ req'.ref = 0
        BY <3>2
      <4>2. req'.op \in Op(v)!Ops \union {""}
        BY <4>1, Zenon
      <4>3. 0 \in Nat
        OBVIOUS
      <4>. QED BY <4>1, <4>2, <4>3, Zenon
    <3>. QED BY <1>0, <3>1, <3>2
  <2>. QED BY <1>0, <2>2, NoTable DEF OpAsked
<1>3. OpPlace(v)'
  <2>1. done' = 0
    BY <1>0
  <2>2. req'.op # "fill"
    <3>1. CASE e = "timeout"
      <4>1. req' = req
        BY <3>1 DEF Op!Answered
      <4>. QED BY <3>1, <4>1
    <3>2. CASE e # "timeout"
      <4>1. req' = [op |-> "", ref |-> 0]
        BY <3>2 DEF Op!Answered, Op!NoReq
      <4>. QED BY <4>1
    <3>. QED BY <3>1, <3>2
  <2>. QED BY <1>0, <2>1, <2>2 DEF OpPlace
<1>4. OpRefs(v)'
  BY <1>0 DEF OpRefs
<1>5. Op(v)!ActsOnWhatWasNamed'
  BY <1>0 DEF Op!ActsOnWhatWasNamed
<1>. QED BY <1>1, <1>2, <1>3, <1>4, <1>5 DEF OpInv

\* The session opens, turns to and closes tabs, and looks at them.
LEMMA SessionKeeps ==
    ASSUME NEW v, Told(v), OpInv(v),
           \/ Op(v)!Launch \/ Op(v)!Shutdown \/ Op(v)!Navigate \/ Op(v)!History
           \/ Op(v)!Extract
    PROVE  OpInv(v)'
<1>0. /\ OpShape(v) /\ OpTables(v) /\ (Agree(v, known, Op(v)!Table) \/ pc # "ready")
      /\ recovered \in BOOLEAN /\ cameBy \in BOOLEAN
      /\ v.docs \subseteq Seq(v.nodes) /\ NoTab \notin v.tabs /\ v.launches \in Nat
  BY DEF OpInv, OpFlags, OpRefs, Told, Op!OpSessionAssumption
<1>1. CASE Op(v)!Launch
  <2>1. /\ pc = "ready" /\ page = NoTab /\ browser < v.launches
        /\ UNCHANGED <<connected, mem, kept, known, recovered, cameBy, pc, req, prev,
                       fields, snap, err, retried, semantic, done, acted>>
        /\ browser' = browser + 1 /\ up' = up \union {browser + 1}
    BY <1>1 DEF Op!Launch, Op!tables, Op!flags, Op!attempt
  <2>2. PICK t \in v.tabs \ DOMAIN kept, d \in v.docs :
          doc' = Op(v)!With(<< >>, t, d) /\ page' = t
    BY <1>1 DEF Op!Launch
  <2>3. DOMAIN doc' = {t} /\ doc'[t] = d
    BY <2>2, NoTable DEF Op!With
  <2>4. browser' \in 0..v.launches /\ up' \subseteq 1..v.launches
    BY <1>0, <2>1 DEF OpShape
  <2>5. OpShape(v)' /\ OpTables(v)'
    BY <1>0, <2>1, <2>2, <2>3, <2>4 DEF OpShape, OpTables
  <2>6. Op(v)!Table = mem
    BY <1>0, <2>1, TableIsTyped DEF OpTables
  <2>7. Op(v)!Table' = Op(v)!Table
    BY <2>1, <2>2, <2>6 DEF Op!Table, Op!TableOf
  <2>8. Agree(v, known, Op(v)!Table)'
    BY <1>0, <2>1, <2>7 DEF Agree
  <2>. QED BY <1>0, <2>1, <2>5, <2>8, BetweenRequests
<1>2. CASE Op(v)!Shutdown
  <2>1. /\ pc = "ready" /\ pc' = "shut" /\ up' = up \ {browser} /\ doc' = << >>
        /\ page' = NoTab
        /\ UNCHANGED <<connected, browser, mem, kept, known, recovered, cameBy, req,
                       prev, fields, snap, err, retried, semantic, done, acted>>
    BY <1>2 DEF Op!Shutdown, Op!tables, Op!flags, Op!attempt
  <2>2. OpShape(v)' /\ OpTables(v)'
    BY <1>0, <2>1, NoTable DEF OpShape, OpTables
  <2>. QED BY <1>0, <2>1, <2>2, BetweenRequests
<1>3. CASE Op(v)!Navigate \/ Op(v)!History
  <2>1. /\ pc = "ready" /\ known' = << >> /\ page \in DOMAIN doc
        /\ recovered' \in BOOLEAN /\ cameBy' \in BOOLEAN
        /\ UNCHANGED <<connected, browser, up, page, mem, kept, pc, req, prev,
                       fields, snap, err, retried, semantic, done, acted>>
    BY <1>0, <1>3 DEF Op!Navigate, Op!History, Op!ReadyOnPage, Op!session, Op!attempt
  <2>2. PICK d \in v.docs : doc' = [doc EXCEPT ![page] = d]
    BY <1>3 DEF Op!Navigate, Op!History
  <2>3. DOMAIN doc' = DOMAIN doc /\ \A u \in DOMAIN doc' : doc'[u] \in v.docs
    BY <1>0, <2>1, <2>2, DocumentsChange
  <2>4. OpShape(v)' /\ OpTables(v)'
    BY <1>0, <2>1, <2>3, NoTable DEF OpShape, OpTables
  <2>5. Agree(v, known, Op(v)!Table)'
    BY <2>1, NoTable DEF Agree
  <2>. QED BY <1>0, <2>1, <2>4, <2>5, BetweenRequests
<1>4. CASE Op(v)!Extract
  <2>1. /\ pc = "ready" /\ page \in DOMAIN doc /\ recovered' = FALSE
        /\ UNCHANGED <<connected, browser, up, doc, page, cameBy, pc, req, prev,
                       fields, snap, err, retried, semantic, done, acted>>
    BY <1>4 DEF Op!Extract, Op!ReadyOnPage, Op!session, Op!attempt
  <2>2. PICK k \in 1..(Len(doc[page]) + 1) :
          /\ Op(v)!Remember(page, SubSeq(doc[page], k, Len(doc[page])))
          /\ known' = Op(v)!Shown(SubSeq(doc[page], k, Len(doc[page])))
    BY <1>4 DEF Op!Extract
  <2>. DEFINE t == SubSeq(doc[page], k, Len(doc[page]))
  <2>3. t \in Seq(v.nodes)
    <3>1. doc[page] \in Seq(v.nodes)
      BY <1>0, <2>1 DEF OpShape
    <3>. QED BY <3>1, TailIsTable
  <2>. HIDE DEF t
  <2>4. mem' = t /\ kept' = Op(v)!Saved(page, t) /\ known' = Op(v)!Shown(t)
    BY <2>2 DEF Op!Remember, t
  <2>5. page \in v.tabs
    BY <1>0, <2>1 DEF OpShape
  <2>6. Op(v)!Table' = t /\ OpTables(v)'
    BY <1>0, <2>1, <2>3, <2>4, <2>5, ShownAgrees, RememberedIsTable
  <2>7. Agree(v, known, Op(v)!Table)'
    BY <2>3, <2>4, <2>6, ShownAgrees DEF Agree
  <2>8. OpShape(v)'
    BY <1>0, <2>1 DEF OpShape
  <2>. QED BY <1>0, <2>1, <2>6, <2>7, <2>8, BetweenRequests
<1>. QED BY <1>1, <1>2, <1>3, <1>4

LEMMA TabsKeep ==
    ASSUME NEW v, Told(v), OpInv(v), NEW t \in v.tabs,
           Op(v)!TabSwitch(t) \/ Op(v)!TabNew(t) \/ Op(v)!TabClose(t)
    PROVE  OpInv(v)'
<1>0. /\ OpShape(v) /\ OpTables(v)
      /\ recovered \in BOOLEAN /\ cameBy \in BOOLEAN
      /\ NoTab \notin v.tabs /\ v.adoptFails = FALSE
      /\ pc = "ready" => Agree(v, known, Op(v)!Table)
  BY DEF OpInv, OpFlags, OpRefs, Told, Op!OpSessionAssumption
<1>1. /\ pc = "ready" /\ cameBy' \in BOOLEAN
      /\ UNCHANGED <<connected, browser, up, recovered, pc, req, prev,
                     fields, snap, err, retried, semantic, done, acted>>
  <2>1. /\ pc = "ready"
        /\ UNCHANGED <<connected, browser, up, recovered, pc, req, prev,
                       fields, snap, err, retried, semantic, done, acted>>
    BY DEF Op!TabSwitch, Op!TabNew, Op!TabClose, Op!session, Op!attempt
  <2>2. cameBy' \in BOOLEAN
    BY <1>0, Zenon DEF Op!TabSwitch, Op!TabNew, Op!TabClose
  <2>. QED BY <2>1, <2>2
<1>2. ASSUME NEW u \in DOMAIN doc', Op(v)!Adopt(u), DOMAIN kept' \subseteq DOMAIN kept,
             \A w \in DOMAIN kept' : kept'[w] = kept[w], known' = << >>,
             DOMAIN doc' \subseteq v.tabs, \A w \in DOMAIN doc' : doc'[w] \in v.docs,
             u \in DOMAIN kept => kept[u] \in Seq(v.nodes)
      PROVE  OpInv(v)'
  <2>1. page' = u /\ mem' \in Seq(v.nodes)
    BY <1>2, NoTable DEF Op!Adopt
  <2>2. OpShape(v)' /\ OpTables(v)'
    BY <1>0, <1>1, <1>2, <2>1, NoTable DEF OpShape, OpTables
  <2>3. Agree(v, known, Op(v)!Table)'
    BY <1>2, NoTable DEF Agree
  <2>. QED BY <1>0, <1>1, <2>2, <2>3, BetweenRequests
<1>3. CASE Op(v)!TabSwitch(t)
  BY <1>0, <1>2, <1>3 DEF Op!TabSwitch, Op!AdoptRefused, OpShape, OpTables
<1>4. CASE Op(v)!TabNew(t)
  <2>1. PICK d \in v.docs : doc' = Op(v)!With(doc, t, d)
    BY <1>4 DEF Op!TabNew
  <2>2. DOMAIN doc' = DOMAIN doc \union {t} /\ \A u \in DOMAIN doc' : doc'[u] \in v.docs
    BY <1>0, <2>1, DocumentsChange
  <2>. QED BY <1>0, <1>2, <1>4, <2>2
       DEF Op!TabNew, Op!AdoptRefused, OpShape, OpTables
<1>5. CASE Op(v)!TabClose(t)
  <2>1. /\ t \in DOMAIN doc /\ DOMAIN doc' = DOMAIN doc \ {t}
        /\ \A u \in DOMAIN doc' : doc'[u] = doc[u]
        /\ DOMAIN kept' = DOMAIN kept \ {t}
        /\ \A u \in DOMAIN kept' : kept'[u] = kept[u]
    BY <1>5 DEF Op!TabClose, Op!Without
  <2>2. CASE t # page
    <3>1. UNCHANGED <<page, mem, known>>
      BY <1>5, <2>2 DEF Op!TabClose
    <3>2. OpShape(v)' /\ OpTables(v)'
      BY <1>0, <1>1, <2>1, <3>1 DEF OpShape, OpTables
    <3>3. Op(v)!Table' = Op(v)!Table
      BY <2>1, <2>2, <3>1 DEF Op!Table, Op!TableOf
    <3>4. Agree(v, known, Op(v)!Table)'
      BY <1>0, <1>1, <3>1, <3>3 DEF Agree
    <3>. QED BY <1>0, <1>1, <3>2, <3>4, BetweenRequests
  <2>3. CASE t = page /\ DOMAIN doc' = {}
    <3>1. page' = NoTab /\ mem' = << >> /\ known' = << >>
      BY <1>5, <2>3 DEF Op!TabClose
    <3>2. OpShape(v)' /\ OpTables(v)'
      BY <1>0, <1>1, <2>1, <3>1, NoTable DEF OpShape, OpTables
    <3>3. Agree(v, known, Op(v)!Table)'
      BY <3>1, NoTable DEF Agree
    <3>. QED BY <1>0, <1>1, <3>2, <3>3, BetweenRequests
  <2>4. CASE t = page /\ DOMAIN doc' # {}
    <3>1. known' = << >> /\ \E u \in DOMAIN doc' : Op(v)!Adopt(u)
      BY <1>0, <1>5, <2>4 DEF Op!TabClose, Op!AdoptRefused
    <3>. QED BY <1>0, <1>2, <2>1, <3>1 DEF OpShape, OpTables
  <2>. QED BY <2>2, <2>3, <2>4
<1>. QED BY <1>3, <1>4, <1>5

LEMMA TableStays ==
    ASSUME NEW v, UNCHANGED <<page, mem, kept>>
    PROVE  Op(v)!Table' = Op(v)!Table
BY DEF Op!Table, Op!TableOf

\* The page changes by itself; requests are made.
LEMMA RequestsKeep ==
    ASSUME NEW v, Told(v), OpInv(v),
           \/ Op(v)!PageChanges \/ Op(v)!Repeat \/ Op(v)!Fill
           \/ \E op \in Op(v)!Ops, i \in DOMAIN known : Op(v)!Request(op, i)
           \/ UNCHANGED Op(v)!vars
    PROVE  OpInv(v)'
<1>0. /\ OpShape(v) /\ OpTables(v) /\ OpAsked(v) /\ OpActs(v) /\ OpPlace(v) /\ OpRefs(v)
      /\ recovered \in BOOLEAN /\ cameBy \in BOOLEAN
      /\ retried \in BOOLEAN /\ semantic \in BOOLEAN
      /\ Op(v)!ActsOnWhatWasNamed /\ Op(v)!Table \in Seq(v.nodes)
  BY TableIsTyped DEF OpInv, OpFlags
<1>1. ASSUME UNCHANGED <<connected, browser, up, page, mem, kept, known, recovered,
                         cameBy, pc, req, prev, fields, snap, err, retried, semantic,
                         done, acted>>,
             DOMAIN doc' = DOMAIN doc, \A u \in DOMAIN doc' : doc'[u] \in v.docs
      PROVE  OpInv(v)'
  <2>1. OpShape(v)' /\ OpTables(v)' /\ OpAsked(v)' /\ OpFlags' /\ OpActs(v)'
    BY <1>0, <1>1 DEF OpShape, OpTables, OpAsked, OpFlags, OpActs
  <2>2. Op(v)!Table' = Op(v)!Table
    BY <1>1, TableStays
  <2>3. OpPlace(v)'
    BY <1>0, <1>1, <2>2 DEF OpPlace
  <2>4. OpRefs(v)' /\ Op(v)!ActsOnWhatWasNamed'
    BY <1>0, <1>1, <2>2 DEF OpRefs, Agree, Op!ActsOnWhatWasNamed
  <2>. QED BY <2>1, <2>3, <2>4 DEF OpInv
<1>2. CASE Op(v)!PageChanges
  <2>1. PICK t \in DOMAIN doc, d \in v.docs : doc' = [doc EXCEPT ![t] = d]
    BY <1>2 DEF Op!PageChanges
  <2>2. DOMAIN doc' = DOMAIN doc /\ \A u \in DOMAIN doc' : doc'[u] \in v.docs
    BY <1>0, <2>1, DocumentsChange
  <2>. QED BY <1>1, <1>2, <2>2
       DEF Op!PageChanges, Op!session, Op!tables, Op!flags, Op!attempt
<1>3. CASE UNCHANGED Op(v)!vars
  BY <1>0, <1>1, <1>3
    DEF Op!vars, Op!session, Op!tables, Op!flags, Op!attempt, OpShape
\* A request begins: at its ref, or a fill.
<1>4. ASSUME pc = "ready", page \in DOMAIN doc, prev' = Op(v)!Table, err' = "",
             UNCHANGED <<connected, browser, up, doc, page, mem, kept, known, acted>>,
             recovered' \in BOOLEAN, cameBy' \in BOOLEAN, done' = 0,
             retried' \in BOOLEAN, semantic' \in BOOLEAN,
             req'.op \in Op(v)!Ops \union {""}, req'.ref \in Nat,
             \/ /\ pc' = "try" /\ req'.op # "fill" /\ req'.ref \in DOMAIN known
                /\ ~semantic' /\ UNCHANGED <<fields, snap>>
             \/ /\ pc' = "fill" /\ req'.op = "fill" /\ fields' \subseteq DOMAIN known
                /\ snap' = Op(v)!Table
      PROVE  OpInv(v)'
  <2>1. DOMAIN known \subseteq Nat /\ fields \subseteq Nat
    BY <1>0 DEF OpTables, OpAsked
  <2>2. OpShape(v)' /\ OpTables(v)' /\ OpAsked(v)' /\ OpFlags' /\ OpActs(v)'
    BY <1>0, <1>4, <2>1 DEF OpShape, OpTables, OpAsked, OpFlags, OpActs
  <2>3. Op(v)!Table' = Op(v)!Table
    BY <1>4, TableStays
  <2>4. done' \in Nat /\ err' \in Op(v)!Errors
    BY <1>4 DEF Op!Errors
  <2>5. OpPlace(v)'
    <3>1. pc' = "try" => snap' = << >>
      BY <1>0, <1>4 DEF OpPlace
    <3>. QED BY <1>0, <1>4, <2>3, <2>4, <3>1 DEF OpPlace
  <2>6. Agree(v, known, Op(v)!Table)
    BY <1>0, <1>4 DEF OpRefs
  <2>7. OpRefs(v)' /\ Op(v)!ActsOnWhatWasNamed'
    BY <1>0, <1>4, <2>3, <2>6 DEF OpRefs, Agree, Op!ActsOnWhatWasNamed
  <2>. QED BY <2>2, <2>5, <2>7 DEF OpInv
<1>5. CASE \E op \in Op(v)!Ops, i \in DOMAIN known : Op(v)!Request(op, i)
  <2>1. PICK op \in Op(v)!Ops, i \in DOMAIN known : Op(v)!Request(op, i)
    BY <1>5
  <2>2. /\ pc = "ready" /\ page \in DOMAIN doc /\ op # "fill" /\ i \in DOMAIN known
        /\ pc' = "try" /\ req' = [op |-> op, ref |-> i] /\ prev' = Op(v)!Table
        /\ done' = 0 /\ err' = ""
        /\ UNCHANGED <<connected, browser, up, doc, page, mem, kept, known, fields,
                       snap, acted>>
    BY <2>1 DEF Op!Request, Op!ReadyOnPage, Op!session, Op!tables
  <2>3. /\ recovered' \in BOOLEAN /\ cameBy' \in BOOLEAN /\ retried' \in BOOLEAN
        /\ semantic' \in BOOLEAN /\ ~semantic'
    BY <2>1, Zenon DEF Op!Request
  <2>4. req'.op = op /\ req'.ref = i
    BY <2>2
  <2>5. i \in Nat
    BY <1>0 DEF OpTables
  <2>. QED BY <1>4, <2>2, <2>3, <2>4, <2>5
<1>6. CASE Op(v)!Repeat
  <2>1. /\ pc = "ready" /\ page \in DOMAIN doc /\ req.ref \in DOMAIN known
        /\ pc' = "try" /\ prev' = Op(v)!Table /\ err' = ""
        /\ UNCHANGED <<connected, browser, up, doc, page, mem, kept, known, req,
                       fields, snap, done, acted>>
    BY <1>6 DEF Op!Repeat, Op!ReadyOnPage, Op!session, Op!tables
  <2>2. /\ recovered' \in BOOLEAN /\ cameBy' \in BOOLEAN /\ retried' \in BOOLEAN
        /\ semantic' \in BOOLEAN /\ ~semantic'
    BY <1>6, Zenon DEF Op!Repeat
  <2>3. done = 0 /\ req.op # "fill"
    BY <1>0, <2>1 DEF OpPlace
  <2>. QED BY <1>0, <1>4, <2>1, <2>2, <2>3 DEF OpAsked
<1>7. CASE Op(v)!Fill
  <2>1. PICK f \in SUBSET DOMAIN known : fields' = f
    BY <1>7 DEF Op!Fill
  <2>2. /\ pc = "ready" /\ page \in DOMAIN doc /\ pc' = "fill"
        /\ req' = [op |-> "fill", ref |-> 0] /\ prev' = Op(v)!Table
        /\ snap' = Op(v)!Table /\ done' = 0 /\ err' = ""
        /\ UNCHANGED <<connected, browser, up, doc, page, mem, kept, known, recovered,
                       cameBy, retried, semantic, acted>>
    BY <1>7 DEF Op!Fill, Op!ReadyOnPage, Op!session, Op!tables, Op!flags
  <2>3. req'.op = "fill" /\ req'.ref = 0 /\ "fill" \in Op(v)!Ops
    BY <2>2 DEF Op!Ops
  <2>. QED BY <1>0, <1>4, <2>1, <2>2, <2>3
<1>. QED BY <1>2, <1>3, <1>5, <1>6, <1>7

LEMMA OneMore == 0 + 1 = 1 /\ 1 \in Nat
OBVIOUS

\* An attempt moves on.
LEMMA AttemptMoves ==
    ASSUME NEW v, OpInv(v), pc \in {"try", "failed", "observe"},
           pc' \in {"try", "failed", "observe", "capture"},
           UNCHANGED <<connected, browser, up, page, mem, kept, known, recovered,
                       cameBy, req, prev, fields>>,
           DOMAIN doc' = DOMAIN doc, \A u \in DOMAIN doc' : doc'[u] \in v.docs,
           retried' \in BOOLEAN, semantic' \in BOOLEAN, OpActs(v)',
           Op(v)!ActsOnWhatWasNamed', OpPlace(v)'
    PROVE  OpInv(v)'
<1>1. OpShape(v)' /\ OpTables(v)' /\ OpAsked(v)' /\ OpFlags'
  BY DEF OpInv, OpShape, OpTables, OpAsked, OpFlags
<1>2. Op(v)!Table' = Op(v)!Table
  BY TableStays
<1>3. OpRefs(v)'
  BY <1>2 DEF OpInv, OpRefs, Agree
<1>. QED BY <1>1, <1>3 DEF OpInv

\* What an attempt may hit is of the kind that the ref stands for.
LEMMA TargetIsAlike ==
    ASSUME NEW v, Told(v), OpInv(v), pc = "try", NEW el \in Op(v)!Target
    PROVE  /\ req.ref \in DOMAIN Op(v)!Table
           /\ v.kind[el] = known[req.ref] /\ known[req.ref] \in OpKinds(v)
<1>1. /\ page \in DOMAIN doc /\ req.ref \in DOMAIN known
      /\ semantic => req.ref \in DOMAIN Op(v)!Table
  BY DEF OpInv, OpPlace
<1>2. doc[page] \in Seq(v.nodes)
  BY <1>1 DEF OpInv, OpShape, Told, Op!OpSessionAssumption
<1>3. Op(v)!Table \in Seq(v.nodes)
  BY TableIsTyped DEF OpInv
<1>4. Agree(v, known, Op(v)!Table) /\ known[req.ref] \in OpKinds(v)
  BY <1>1 DEF OpInv, OpRefs, OpTables
<1>5. v.kind[el] = v.kind[Op(v)!Table[req.ref]] /\ req.ref \in DOMAIN Op(v)!Table
  <2>1. CASE semantic
    <3>1. el \in Op(v)!ByRoleName(Op(v)!Table, req.ref, doc[page])
      BY <2>1 DEF Op!Target
    <3>. QED BY <1>1, <1>2, <1>3, <2>1, <3>1, ResolvedIsAlike
  <2>2. CASE ~semantic
    <3>1. el \in Op(v)!Resolve(Op(v)!Table, req.ref, doc[page])
      BY <2>2 DEF Op!Target
    <3>. QED BY <1>2, <1>3, <3>1, ResolvedIsAlike
  <2>. QED BY <2>1, <2>2
<1>. QED BY <1>1, <1>4, <1>5 DEF Agree

LEMMA ActsKeep ==
    ASSUME NEW v, Told(v), OpInv(v),
           \/ Op(v)!ActSucceeds \/ Op(v)!ActRetried \/ Op(v)!ActFails
           \/ Op(v)!Recover \/ Op(v)!NoPopup
    PROVE  OpInv(v)'
<1>0. /\ OpShape(v) /\ OpPlace(v) /\ OpActs(v) /\ Op(v)!ActsOnWhatWasNamed
      /\ retried \in BOOLEAN /\ semantic \in BOOLEAN
  BY DEF OpInv, OpFlags
<1>1. ASSUME NEW d \in v.docs, doc' = [doc EXCEPT ![page] = d], page \in DOMAIN doc
      PROVE  DOMAIN doc' = DOMAIN doc /\ \A u \in DOMAIN doc' : doc'[u] \in v.docs
  BY <1>0, <1>1, DocumentsChange
<1>2. CASE Op(v)!ActSucceeds
  <2>1. /\ pc = "try" /\ pc' = "observe" /\ done' = done + 1 /\ err' = ""
        /\ UNCHANGED <<connected, browser, up, page, mem, kept, known, recovered,
                       cameBy, req, prev, fields, snap, retried, semantic>>
    BY <1>2 DEF Op!ActSucceeds, Op!session, Op!tables, Op!flags
  <2>2. page \in DOMAIN doc /\ done = 0
    BY <1>0, <2>1 DEF OpPlace
  <2>3. DOMAIN doc' = DOMAIN doc /\ \A u \in DOMAIN doc' : doc'[u] \in v.docs
    BY <1>1, <1>2, <2>2 DEF Op!ActSucceeds
  <2>4. PICK el \in Op(v)!Target : Op(v)!Hit(el)
    BY <1>2 DEF Op!ActSucceeds
  <2>5. acted' = [want |-> known[req.ref], got |-> v.kind[el], field |-> 1]
    BY <2>4 DEF Op!Hit
  <2>6. OpActs(v)' /\ Op(v)!ActsOnWhatWasNamed'
    BY <2>1, <2>5, TargetIsAlike DEF OpActs, Op!ActsOnWhatWasNamed
  <2>7. OpPlace(v)'
    <3>1. done' = 1 /\ done' \in Nat
      BY <2>1, <2>2, OneMore, Zenon
    <3>2. err' \in Op(v)!Errors
      BY <2>1 DEF Op!Errors
    <3>3. snap' = << >>
      BY <1>0, <2>1 DEF OpPlace
    <3>. QED BY <1>0, <2>1, <2>2, <2>3, <3>1, <3>2, <3>3 DEF OpPlace
  <2>. QED BY <1>0, <2>1, <2>3, <2>6, <2>7, AttemptMoves
<1>3. CASE Op(v)!ActRetried
  <2>1. /\ pc = "try" /\ semantic' = TRUE /\ Op(v)!Target # {}
        /\ UNCHANGED <<connected, browser, up, page, mem, kept, known, recovered,
                       cameBy, pc, req, prev, fields, snap, err, retried, done, acted>>
    BY <1>3 DEF Op!ActRetried, Op!session, Op!tables, Op!flags
  <2>2. page \in DOMAIN doc
    BY <1>0, <2>1 DEF OpPlace
  <2>3. DOMAIN doc' = DOMAIN doc /\ \A u \in DOMAIN doc' : doc'[u] \in v.docs
    BY <1>1, <1>3, <2>2 DEF Op!ActRetried
  <2>4. req.ref \in DOMAIN Op(v)!Table
    BY <2>1, TargetIsAlike
  <2>5. Op(v)!Table' = Op(v)!Table
    BY <2>1, TableStays
  <2>6. OpPlace(v)'
    BY <1>0, <2>1, <2>3, <2>4, <2>5 DEF OpPlace
  <2>7. OpActs(v)' /\ Op(v)!ActsOnWhatWasNamed'
    BY <1>0, <2>1 DEF OpActs, Op!ActsOnWhatWasNamed
  <2>. QED BY <1>0, <2>1, <2>3, <2>6, <2>7, AttemptMoves
<1>4. CASE Op(v)!ActFails
  <2>1. /\ pc = "try" /\ pc' = "failed" /\ err' \in Op(v)!Errors
        /\ UNCHANGED <<connected, browser, up, page, mem, kept, known, recovered,
                       cameBy, req, prev, fields, snap, retried, semantic, done, acted>>
    BY <1>4 DEF Op!ActFails, Op!session, Op!tables, Op!flags, Op!Errors
  <2>2. page \in DOMAIN doc
    BY <1>0, <2>1 DEF OpPlace
  <2>3. DOMAIN doc' = DOMAIN doc /\ \A u \in DOMAIN doc' : doc'[u] \in v.docs
    BY <1>1, <1>4, <2>2 DEF Op!ActFails
  <2>4. OpPlace(v)'
    BY <1>0, <2>1, <2>3 DEF OpPlace
  <2>5. OpActs(v)' /\ Op(v)!ActsOnWhatWasNamed'
    BY <1>0, <2>1 DEF OpActs, Op!ActsOnWhatWasNamed
  <2>. QED BY <1>0, <2>1, <2>3, <2>4, <2>5, AttemptMoves
<1>5. CASE Op(v)!Recover \/ Op(v)!NoPopup
  <2>1. /\ UNCHANGED <<connected, browser, up, doc, page, mem, kept, known, recovered,
                       cameBy, req, prev, fields, err, done, acted>>
        /\ \/ pc = "failed" /\ pc' = "try" /\ snap' = snap
           \/ pc = "observe" /\ pc' = "capture" /\ snap' = <<page>>
    BY <1>5 DEF Op!Recover, Op!NoPopup, Op!session, Op!tables, Op!flags
  <2>2. retried' \in BOOLEAN /\ semantic' \in BOOLEAN /\ (pc' = "try" => ~semantic')
    <3>1. CASE Op(v)!Recover
      BY <3>1, Zenon DEF Op!Recover
    <3>2. CASE Op(v)!NoPopup
      <4>1. pc' = "capture" /\ UNCHANGED <<retried, semantic>>
        BY <3>2 DEF Op!NoPopup
      <4>. QED BY <1>0, <4>1
    <3>. QED BY <1>5, <3>1, <3>2
  <2>3. DOMAIN doc' = DOMAIN doc /\ \A u \in DOMAIN doc' : doc'[u] \in v.docs
    BY <1>0, <2>1 DEF OpShape
  <2>4. OpPlace(v)'
    BY <1>0, <2>1, <2>2 DEF OpPlace
  <2>5. OpActs(v)' /\ Op(v)!ActsOnWhatWasNamed'
    BY <1>0, <2>1 DEF OpActs, Op!ActsOnWhatWasNamed
  <2>. QED BY <2>1, <2>2, <2>3, <2>4, <2>5, AttemptMoves
<1>. QED BY <1>2, <1>3, <1>4, <1>5

\* What the client is told of an action that ran to its end.
LEMMA LooksKeep ==
    ASSUME NEW v, Told(v), OpInv(v),
           \/ Op(v)!GiveUp \/ Op(v)!AdoptPopup \/ Op(v)!Looked
           \/ Op(v)!CaptureNothing \/ Op(v)!CaptureFull \/ Op(v)!CaptureDiff
           \/ Op(v)!CaptureFails
    PROVE  OpInv(v)'
<1>0. /\ OpShape(v) /\ OpTables(v) /\ OpAsked(v) /\ OpPlace(v) /\ OpRefs(v)
      /\ OpActs(v) /\ Op(v)!ActsOnWhatWasNamed
      /\ v.docs \subseteq Seq(v.nodes) /\ NoTab \notin v.tabs /\ v.adoptFails = FALSE
  BY DEF OpInv, Told, Op!OpSessionAssumption
<1>e. {"", "other"} \subseteq Op(v)!Errors /\ err \in Op(v)!Errors
  BY <1>0 DEF Op!Errors, OpPlace
\* The refs stay as they are.
<1>1. ASSUME NEW e \in Op(v)!Errors, Op(v)!Answered(e),
             e = "timeout" => done = 0 /\ req.op # "fill",
             pc \in {"failed", "observe", "capture"},
             UNCHANGED <<connected, browser, up, doc, page, mem, kept, known,
                         recovered, cameBy>>
      PROVE  OpInv(v)'
  <2>1. OpTables(v)'
    BY <1>0, <1>1 DEF OpTables
  <2>2. Op(v)!Table' = Op(v)!Table
    BY <1>1, TableStays
  <2>3. Agree(v, known, Op(v)!Table)'
    BY <1>0, <1>1, <2>2 DEF OpRefs, Agree
  <2>. QED BY <1>1, <2>1, <2>3, AnswerKeeps
<1>2. CASE Op(v)!GiveUp
  <2>1. pc = "failed" /\ Op(v)!Answered(err)
        /\ UNCHANGED <<connected, browser, up, doc, page, mem, kept, known,
                       recovered, cameBy>>
    BY <1>2 DEF Op!GiveUp, Op!session, Op!tables, Op!flags
  <2>2. done = 0 /\ req.op # "fill"
    BY <1>0, <2>1 DEF OpPlace
  <2>. QED BY <1>1, <1>e, <2>1, <2>2
<1>3. CASE Op(v)!Looked \/ Op(v)!CaptureNothing \/ Op(v)!CaptureFails
  <2>1. /\ pc \in {"observe", "capture"}
        /\ Op(v)!Answered("") \/ (pc = "capture" /\ Op(v)!Answered(err))
           \/ Op(v)!Answered("other")
        /\ UNCHANGED <<connected, browser, up, doc, page, mem, kept, known,
                       recovered, cameBy>>
    BY <1>3 DEF Op!Looked, Op!CaptureNothing, Op!CaptureFails, Op!session, Op!tables,
                Op!flags
  <2>2. pc = "capture" => err = ""
    BY <1>0 DEF OpPlace
  <2>. QED BY <1>1, <1>e, <2>1, <2>2
<1>4. CASE Op(v)!AdoptPopup
  <2>1. /\ pc = "observe" /\ pc' = "capture"
        /\ UNCHANGED <<connected, browser, up, kept, known, recovered, cameBy, req,
                       prev, fields, err, retried, semantic, done, acted>>
    BY <1>4 DEF Op!AdoptPopup, Op!session, Op!flags
  <2>2. PICK t \in v.tabs \ (DOMAIN doc \union DOMAIN kept), d \in v.docs :
          /\ doc' = Op(v)!With(doc, t, d) /\ snap' = <<t>>
          /\ Op(v)!Adopt(t) \/ Op(v)!AdoptRefused
    BY <1>4 DEF Op!AdoptPopup
  <2>3. DOMAIN doc' = DOMAIN doc \union {t} /\ \A u \in DOMAIN doc' : doc'[u] \in v.docs
    BY <1>0, <2>2, DocumentsChange
  <2>4. page' = t /\ mem' = << >>
    BY <1>0, <2>2 DEF Op!Adopt, Op!AdoptRefused
  <2>5. Op(v)!Table' = << >>
    BY <2>1, <2>2, <2>4 DEF Op!Table, Op!TableOf
  <2>6. OpShape(v)' /\ OpTables(v)' /\ OpAsked(v)'
    BY <1>0, <2>1, <2>2, <2>3, <2>4, NoTable DEF OpShape, OpTables, OpAsked
  <2>7. OpFlags' /\ OpActs(v)' /\ Op(v)!ActsOnWhatWasNamed'
    BY <1>0, <2>1 DEF OpInv, OpFlags, OpActs, Op!ActsOnWhatWasNamed
  <2>8. OpPlace(v)'
    BY <1>0, <2>1, <2>2, <2>3, <2>4 DEF OpPlace
  <2>9. Agree(v, known, << >>)
    BY NoTable DEF Agree
  <2>10. OpRefs(v)'
    BY <1>0, <2>1, <2>5, <2>9 DEF OpRefs, Agree
  <2>. QED BY <2>6, <2>7, <2>8, <2>10 DEF OpInv
<1>5. CASE Op(v)!CaptureFull \/ Op(v)!CaptureDiff
  <2>. DEFINE t == doc[page]
              a == Op(v)!Applied(known, Op(v)!DiffRefs(prev, t))
  <2>1. /\ pc = "capture" /\ Op(v)!Answered("")
        /\ UNCHANGED <<connected, browser, up, doc, page, recovered, cameBy>>
    BY <1>5 DEF Op!CaptureFull, Op!CaptureDiff, Op!session, Op!flags
  <2>2. snap = <<page>> /\ page \in DOMAIN doc /\ page \in v.tabs
    BY <1>0, <2>1 DEF OpPlace, OpShape
  <2>3. t \in Seq(v.nodes) /\ prev \in Seq(v.nodes) /\ Agree(v, known, prev)
    BY <1>0, <2>1, <2>2 DEF OpShape, OpAsked, OpRefs
  <2>4. snap[1] = page
    BY <2>2
  <2>. HIDE DEF t, a
  <2>5. Op(v)!Remember(page, t) /\ known' \in {Op(v)!Shown(t), a}
    BY <1>5, <2>4 DEF Op!CaptureFull, Op!CaptureDiff, t, a
  <2>6. /\ DOMAIN known \subseteq Nat
        /\ \A i \in DOMAIN known : known[i] \in OpKinds(v)
    BY <1>0 DEF OpTables
  <2>7. /\ Agree(v, a, t) /\ DOMAIN a \subseteq Nat
        /\ \A i \in DOMAIN a : a[i] \in OpKinds(v)
    BY <2>3, <2>6, AppliedAgrees DEF a
  <2>8. /\ Agree(v, known', t) /\ DOMAIN known' \subseteq Nat
        /\ \A i \in DOMAIN known' : known'[i] \in OpKinds(v)
    BY <2>3, <2>5, <2>7, ShownAgrees
  <2>9. mem' = t /\ kept' = Op(v)!Saved(page, t)
    BY <2>5 DEF Op!Remember
  <2>10. Op(v)!Table' = t /\ OpTables(v)'
    BY <1>0, <2>1, <2>2, <2>3, <2>8, <2>9, RememberedIsTable
  <2>11. Agree(v, known, Op(v)!Table)'
    BY <2>8, <2>10 DEF Agree
  <2>. QED BY <1>e, <2>1, <2>10, <2>11, AnswerKeeps
<1>. QED BY <1>2, <1>3, <1>4, <1>5

\* Sets of numbers: the least one, and the one with n before it.
LEMMA LeastOf ==
    ASSUME NEW T \in SUBSET Nat, T # {}
    PROVE  \E x \in T : \A y \in T : x <= y
<1>1. PICK x \in T : \A y \in T : <<y, x>> \notin OpToRel(<, Nat)
  BY WFMin, NatLessThanWellFounded
<1>2. \A y \in T : ~(y < x)
  BY <1>1 DEF OpToRel
<1>. QED BY <1>2

\* What the client reads of the tables around a fill.
LEMMA ObservedAgrees ==
    ASSUME NEW v, OpTables(v), prev \in Seq(v.nodes), Agree(v, known, prev), ~v.mcp,
           NEW t \in Seq(v.nodes), prev = << >> => t = << >>, Op(v)!Observed(t)
    PROVE  /\ Agree(v, known', t) /\ DOMAIN known' \subseteq Nat
           /\ \A i \in DOMAIN known' : known'[i] \in OpKinds(v)
<1>1. DOMAIN known \subseteq Nat /\ \A i \in DOMAIN known : known[i] \in OpKinds(v)
  BY DEF OpTables
<1>2. CASE t = << >>
  <2>1. known' = known /\ DOMAIN t = {}
    BY <1>2, NoTable DEF Op!Observed
  <2>. QED BY <1>1, <2>1 DEF Agree
<1>3. CASE t # << >>
  <2>1. known' = Op(v)!Applied(known, Op(v)!DiffRefs(prev, t))
    BY <1>3 DEF Op!Observed
  <2>. QED BY <1>1, <2>1, AppliedAgrees
<1>. QED BY <1>2, <1>3

\* The fields of a fill are written in the order of their refs.
LEMMA NextIsNamed ==
    ASSUME NEW v, fields \subseteq Nat, fields # {}
    PROVE  Op(v)!NextField \in fields
<1>1. \E i \in fields : \A j \in fields : i <= j
  BY LeastOf
<1>. QED BY <1>1 DEF Op!NextField

LEMMA FillsKeep ==
    ASSUME NEW v, Told(v), OpInv(v), Op(v)!FillField \/ Op(v)!FillFails \/ Op(v)!FillEnds
    PROVE  OpInv(v)'
<1>0. /\ OpShape(v) /\ OpTables(v) /\ OpAsked(v) /\ OpPlace(v) /\ OpRefs(v)
      /\ v.docs \subseteq Seq(v.nodes) /\ ~v.mcp /\ "other" \in Op(v)!Errors
      /\ "" \in Op(v)!Errors
  BY DEF OpInv, Told, Op!OpSessionAssumption, Op!Errors
<1>1. /\ pc = "fill" /\ req.op = "fill" /\ fields \subseteq DOMAIN known
      /\ fields \subseteq Nat /\ snap \in Seq(v.nodes) /\ prev \in Seq(v.nodes)
      /\ page \in DOMAIN doc /\ page \in v.tabs /\ done \in Nat
      /\ Agree(v, known, prev)
      /\ done = 0 => snap = prev /\ Op(v)!Table = prev
      /\ prev = << >> => done = 0
      /\ err \in Op(v)!Errors
  <2>1. pc = "fill"
    BY DEF Op!FillField, Op!FillFails, Op!FillEnds
  <2>. QED BY <1>0, <2>1 DEF OpPlace, OpAsked, OpRefs, OpShape
<1>2. CASE Op(v)!FillField
  <2>. DEFINE i == Op(v)!NextField
  <2>1. /\ fields # {} /\ done' = done + 1 /\ fields' = fields \ {i}
        /\ UNCHANGED <<connected, browser, up, page, mem, known, recovered, cameBy,
                       pc, req, prev, err, retried, semantic>>
    BY <1>2 DEF Op!FillField, Op!session, Op!flags
  <2>2. PICK d \in v.docs : doc' = [doc EXCEPT ![page] = d]
    BY <1>2 DEF Op!FillField
  <2>3. /\ DOMAIN doc' = DOMAIN doc /\ \A u \in DOMAIN doc' : doc'[u] \in v.docs
        /\ doc'[page] = d /\ doc[page] \in Seq(v.nodes) /\ d \in Seq(v.nodes)
    BY <1>0, <1>1, <2>2, DocumentsChange DEF OpShape
  <2>4. PICK el \in Op(v)!Resolve(snap, i, doc[page]) :
          acted' = [want |-> known[i], got |-> v.kind[el], field |-> done + 1]
    BY <1>2 DEF Op!FillField
  <2>5. i \in fields
    BY <1>1, <2>1, NextIsNamed
  <2>6. \/ snap' = d /\ kept' = Op(v)!Saved(page, d)
        \/ UNCHANGED <<snap, kept>>
    BY <1>2, <2>1, <2>3 DEF Op!FillField
  <2>. HIDE DEF i
  <2>7. i \in DOMAIN snap /\ el \in v.nodes /\ v.kind[el] = v.kind[snap[i]]
    BY <1>1, <2>3, <2>4, ResolvedIsAlike
  <2>8. i \in DOMAIN known /\ known[i] \in OpKinds(v)
    BY <1>0, <1>1, <2>5 DEF OpTables
  <2>9. prev # << >>
    BY <1>1, <2>7, NoTable
  <2>10. /\ acted'.want = known[i] /\ acted'.got = v.kind[el]
         /\ acted'.field = done + 1
    BY <2>4
  <2>11. OpActs(v)'
    BY <2>7, <2>8, <2>10 DEF OpActs, OpKinds
  <2>12. Op(v)!ActsOnWhatWasNamed'
    <3>1. CASE done = 0
      BY <1>1, <2>7, <2>8, <2>10, <3>1 DEF Agree, Op!ActsOnWhatWasNamed
    <3>2. CASE done # 0
      <4>1. done + 1 # 1
        BY <1>1, <3>2
      <4>. QED BY <2>10, <4>1 DEF Op!ActsOnWhatWasNamed
    <3>. QED BY <3>1, <3>2
  <2>13. snap' \in Seq(v.nodes)
    BY <1>1, <2>3, <2>6
  <2>14. OpTables(v)'
    <3>1. CASE UNCHANGED <<snap, kept>>
      BY <1>0, <2>1, <3>1 DEF OpTables
    <3>2. CASE kept' = Op(v)!Saved(page, d)
      <4>1. /\ DOMAIN kept' \subseteq (IF connected THEN v.tabs ELSE {})
            /\ \A u \in DOMAIN kept' :
                  kept'[u] = d \/ (u \in DOMAIN kept /\ kept'[u] = kept[u])
        BY <1>0, <1>1, <3>2, SavedHere
      <4>. QED BY <1>0, <2>1, <2>3, <4>1 DEF OpTables
    <3>. QED BY <2>6, <3>1, <3>2
  <2>15. done' \in Nat /\ done' # 0
    BY <1>1, <2>1
  <2>16. OpShape(v)' /\ OpAsked(v)' /\ OpFlags'
    BY <1>0, <1>1, <2>1, <2>3 DEF OpInv, OpShape, OpAsked, OpFlags
  <2>17. OpPlace(v)'
    BY <1>1, <2>1, <2>3, <2>13, <2>15 DEF OpPlace
  <2>18. OpRefs(v)'
    BY <1>1, <2>1, <2>9, <2>15 DEF OpRefs, Agree
  <2>. QED BY <2>11, <2>12, <2>14, <2>16, <2>17, <2>18 DEF OpInv
<1>3. CASE Op(v)!FillFails
  <2>1. /\ Op(v)!Observed(Op(v)!Table) /\ Op(v)!Answered("other")
        /\ UNCHANGED <<connected, browser, up, doc, page, mem, kept, recovered, cameBy>>
    BY <1>3 DEF Op!FillFails, Op!session, Op!flags
  <2>2. Op(v)!Table \in Seq(v.nodes) /\ Op(v)!Table' = Op(v)!Table
    BY <1>0, <2>1, TableIsTyped, TableStays
  <2>3. prev = << >> => Op(v)!Table = << >>
    BY <1>1
  <2>4. /\ Agree(v, known', Op(v)!Table) /\ DOMAIN known' \subseteq Nat
        /\ \A j \in DOMAIN known' : known'[j] \in OpKinds(v)
    BY <1>0, <1>1, <2>1, <2>2, <2>3, ObservedAgrees
  <2>5. OpTables(v)' /\ Agree(v, known, Op(v)!Table)'
    BY <1>0, <2>1, <2>2, <2>4 DEF OpTables, Agree
  <2>. QED BY <1>0, <2>1, <2>5, AnswerKeeps
<1>4. CASE Op(v)!FillEnds
  <2>. DEFINE t == Op(v)!TableOf(kept, snap, page)
  <2>1. /\ Op(v)!Observed(t) /\ Op(v)!Answered("") /\ mem' = snap
        /\ UNCHANGED <<connected, browser, up, doc, page, kept, recovered, cameBy>>
    BY <1>0, <1>4 DEF Op!FillEnds, Op!session, Op!flags
  <2>2. t \in Seq(v.nodes) /\ Op(v)!Table' = t
    BY <1>0, <1>1, <2>1 DEF Op!Table, Op!TableOf, OpTables
  <2>3. prev = << >> => t = << >>
    BY <1>1 DEF Op!Table, Op!TableOf
  <2>. HIDE DEF t
  <2>4. /\ Agree(v, known', t) /\ DOMAIN known' \subseteq Nat
        /\ \A j \in DOMAIN known' : known'[j] \in OpKinds(v)
    BY <1>0, <1>1, <2>1, <2>2, <2>3, ObservedAgrees
  <2>5. OpTables(v)' /\ Agree(v, known, Op(v)!Table)'
    BY <1>0, <1>1, <2>1, <2>2, <2>4 DEF OpTables, Agree
  <2>. QED BY <1>0, <2>1, <2>5, AnswerKeeps
<1>. QED BY <1>2, <1>3, <1>4

\* Every step of the op session.
LEMMA OpStepsKeep ==
    ASSUME NEW v, Told(v), OpInv(v), [Op(v)!Next]_(Op(v)!vars)
    PROVE  OpInv(v)'
<1>1. CASE Op(v)!Launch \/ Op(v)!Shutdown \/ Op(v)!PageChanges \/ UNCHANGED Op(v)!vars
  BY <1>1, SessionKeeps, RequestsKeep
<1>2. CASE Op(v)!Client
  <2>1. CASE \E t \in v.tabs :
               Op(v)!TabSwitch(t) \/ Op(v)!TabNew(t) \/ Op(v)!TabClose(t)
    BY <2>1, TabsKeep
  <2>. QED BY <1>2, <2>1, SessionKeeps, RequestsKeep DEF Op!Client
<1>3. CASE Op(v)!Working
  BY <1>3, ActsKeep, LooksKeep, FillsKeep DEF Op!Working
<1>. QED BY <1>1, <1>2, <1>3 DEF Op!Next

\* The invariant says what is wanted.
LEMMA OpInvMeans ==
    ASSUME NEW v, Told(v), OpInv(v)
    PROVE  /\ Op(v)!TypeOK /\ Op(v)!RefsNeverLie /\ Op(v)!ActsOnWhatWasNamed
           /\ Op(v)!CompletedOnce
<1>1. /\ OpShape(v) /\ OpTables(v) /\ OpAsked(v) /\ OpFlags /\ OpPlace(v) /\ OpRefs(v)
      /\ OpActs(v) /\ Op(v)!ActsOnWhatWasNamed
      /\ NoTab \notin v.tabs
  BY DEF OpInv, Told, Op!OpSessionAssumption
<1>2. Op(v)!CompletedOnce
  <2>1. done \in {0, 1} \/ pc = "fill"
    BY <1>1 DEF OpPlace
  <2>2. done \in {0, 1} => done <= 1
    OBVIOUS
  <2>3. pc = "fill" => req.op = "fill"
    BY <1>1 DEF OpPlace
  <2>. QED BY <2>1, <2>2, <2>3 DEF Op!CompletedOnce
<1>3. Op(v)!RefsNeverLie
  BY <1>1 DEF OpRefs, Agree, Op!RefsNeverLie
<1>4. Op(v)!TypeOK
  <2>1. {recovered, cameBy, retried, semantic} \subseteq BOOLEAN
    BY <1>1, Zenon DEF OpFlags
  <2>2. {acted.want, acted.got} \subseteq {v.kind[n] : n \in v.nodes} \union {""}
    BY <1>1 DEF OpActs, OpKinds
  <2>3. snap \in Seq(v.nodes) \/ snap \in {<<t>> : t \in v.tabs}
    <3>1. pc = "capture" => snap = <<page>> /\ page \in v.tabs
      BY <1>1 DEF OpPlace, OpShape
    <3>2. pc # "capture" => snap \in Seq(v.nodes)
      BY <1>1, NoTable DEF OpPlace
    <3>. QED BY <3>1, <3>2
  <2>. QED BY <1>1, <2>1, <2>2, <2>3
       DEF OpShape, OpTables, OpAsked, OpPlace, Op!TypeOK
<1>. QED BY <1>1, <1>2, <1>3, <1>4

\* For every page, however it changes, and every client that is told what its
\* requests did: a ref it knows stands for what it was shown, what is acted on
\* is what was meant, and a request runs to its end once (opRef,
\* ResolveRefSemantic, withRecovery).
THEOREM RefsStayTrue ==
    ASSUME NEW CONSTANT v, Told(v)
    PROVE  Op(v)!Spec => [](/\ Op(v)!TypeOK /\ Op(v)!RefsNeverLie
                            /\ Op(v)!ActsOnWhatWasNamed /\ Op(v)!CompletedOnce)
<1>1. Op(v)!Init => OpInv(v)
  BY OpInit
<1>2. OpInv(v) /\ [Op(v)!Next]_(Op(v)!vars) => OpInv(v)'
  BY OpStepsKeep
<1>3. OpInv(v) => /\ Op(v)!TypeOK /\ Op(v)!RefsNeverLie
                  /\ Op(v)!ActsOnWhatWasNamed /\ Op(v)!CompletedOnce
  BY OpInvMeans
<1>. QED BY <1>1, <1>2, <1>3, PTL DEF Op!Spec

OpInstanceInv == part = "op" => OpInv(Loop)

\* The op session in the run of the sessions: a ref that the loop knows stands
\* for what it was shown, and no request runs twice (runAgentLoop, RunOp).
THEOREM OpsAreRight == Spec => []OpsHold
<1>1. Told(Loop)
  BY SessionAssumption DEF SessionAssumption, Told, Loop
<1>2. Init => OpInstanceInv
  BY <1>1, OpInit DEF Init, OpInstanceInv
<1>3. OpInstanceInv /\ [Next]_vars => OpInstanceInv'
  <2>. SUFFICES ASSUME OpInstanceInv, [Next]_vars PROVE OpInstanceInv'
    OBVIOUS
  <2>1. ASSUME OpInv(Loop), UNCHANGED vars \/ Op(Loop)!Next
        PROVE  OpInv(Loop)'
    <3>1. [Op(Loop)!Next]_(Op(Loop)!vars)
      BY <2>1 DEF vars, Op!vars, Op!session, Op!tables, Op!flags, Op!attempt
    <3>. QED BY <1>1, <2>1, <3>1, OpStepsKeep
  <2>2. CASE UNCHANGED vars
    <3>1. UNCHANGED part
      BY <2>2 DEF vars
    <3>. QED BY <2>1, <2>2, <3>1 DEF OpInstanceInv
  <2>3. CASE part = "op" /\ UNCHANGED part /\ Op(Loop)!Next
    BY <2>1, <2>3 DEF OpInstanceInv
  <2>4. CASE part # "op" /\ UNCHANGED part
    BY <2>4 DEF OpInstanceInv
  <2>. QED BY <2>2, <2>3, <2>4 DEF Next, Step
<1>4. OpInstanceInv => OpsHold
  BY <1>1, OpInvMeans DEF OpInstanceInv, OpsHold
<1>. QED BY <1>2, <1>3, <1>4, PTL DEF Spec
----------------------------------------------------------------------------
\* Video recording. The types of what it keeps; a command past its first step
\* has the recording it works on.
VideoLabels ==
    {"idle", "start", "chapter", "stop", "clear", "spawn", "started", "save",
     "cancel", "cancelled", "undo", "undoing", "undone", "stopping", "unknown",
     "stopped"}
\* The steps of a video-start that has its recorder, and of a video-stop that has
\* its recording.
Starting == {"started", "save", "cancel", "cancelled", "undo", "undoing", "undone"}
Stopping == {"stopping", "unknown", "stopped"}
VideoPhases ==
    {"none", "born", "connecting", "capturing", "recording", "stopping",
     "failing", "gone"}
VideoStatus(v) ==
    [state : {"absent", "starting", "recording", "stopped", "failed"},
     frames : 0..v.frames, fresh : BOOLEAN]

RecorderShape(v) ==
    /\ chrome \in BOOLEAN
    /\ status \in [v.recs -> VideoStatus(v)]
    /\ rt \in [v.recs -> VideoPhases] /\ captured \in [v.recs -> 0..v.frames]
    /\ \A r \in v.recs : status[r].frames <= captured[r]
CommandShape(v) ==
    /\ record \in v.recs \union {NoRec}
    /\ stop \subseteq v.recs /\ unasked \subseteq v.recs
    /\ pc \in [v.clients -> VideoLabels]
    /\ copy \in [v.clients -> v.recs \union {NoRec}]
    /\ mine \in [v.clients -> v.recs \union {NoRec}]
    /\ \A c \in v.clients :
          /\ pc[c] \in Stopping => copy[c] \in v.recs
          /\ pc[c] \in Starting => mine[c] \in v.recs /\ rt[mine[c]] # "none"
ManifestShape(v) == manifest \in [v.recs -> [complete : BOOLEAN, frames : 0..v.frames]]

\* A recorder that has told its end is over, and its last count is final.
EndTold(v) ==
    \A r \in v.recs :
        /\ status[r].state \in {"stopped", "failed"} => rt[r] = "gone"
        /\ status[r].state = "stopped" => status[r].frames = captured[r]
        /\ manifest[r].complete => rt[r] = "gone" /\ manifest[r].frames = captured[r]

VideoInv(v) == RecorderShape(v) /\ CommandShape(v) /\ ManifestShape(v) /\ EndTold(v)

\* The status that is published.
LEMMA StatusIs ==
    ASSUME NEW v, NEW s, NEW n, NEW b
    PROVE  /\ Video(v)!Status(s, n, b).state = s
           /\ Video(v)!Status(s, n, b).frames = n
           /\ Video(v)!Status(s, n, b).fresh = b
           /\ s \in {"absent", "starting", "recording", "stopped", "failed"}
              /\ n \in 0..v.frames /\ b \in BOOLEAN =>
                 Video(v)!Status(s, n, b) \in VideoStatus(v)
<1>1. Video(v)!Status(s, n, b) = [state |-> s, frames |-> n, fresh |-> b]
  BY DEF Video!Status
<1>. QED BY <1>1 DEF VideoStatus

LEMMA AbsentIs ==
    ASSUME NEW v
    PROVE  /\ 0 \in 0..v.frames =>
                 Video(v)!Status("absent", 0, FALSE) \in VideoStatus(v)
           /\ Video(v)!Status("absent", 0, FALSE).state = "absent"
           /\ Video(v)!Status("absent", 0, FALSE).frames = 0
BY DEF Video!Status, VideoStatus

LEMMA NoneYet == 0 <= 0
OBVIOUS

LEMMA VideoInit ==
    ASSUME NEW v, Video(v)!VideoAssumption, Video(v)!Init
    PROVE  VideoInv(v)
<1>. USE DEF Video!Init, Video!NoStatus, Video!NoManifest
<1>1. v.frames \in Nat /\ 0 \in 0..v.frames
  <2>1. v.frames \in Nat
    BY DEF Video!VideoAssumption
  <2>2. 0 \in 0..v.frames
    <3>. HIDE DEF Video!Init
    <3>. QED BY <2>1
  <2>. QED BY <2>1, <2>2
<1>2. \A r \in v.recs :
        /\ status[r] = Video(v)!Status("absent", 0, FALSE)
        /\ status[r] \in VideoStatus(v) /\ status[r].state = "absent"
        /\ status[r].frames = 0
        /\ rt[r] = "none" /\ captured[r] = 0
        /\ manifest[r] = [complete |-> FALSE, frames |-> 0]
  <2>. SUFFICES ASSUME NEW r \in v.recs
                PROVE  /\ status[r] = Video(v)!Status("absent", 0, FALSE)
                       /\ status[r] \in VideoStatus(v) /\ status[r].state = "absent"
                       /\ status[r].frames = 0
                       /\ rt[r] = "none" /\ captured[r] = 0
                       /\ manifest[r] = [complete |-> FALSE, frames |-> 0]
    OBVIOUS
  <2>1. /\ status[r] = Video(v)!Status("absent", 0, FALSE)
        /\ rt[r] = "none" /\ captured[r] = 0
        /\ manifest[r] = [complete |-> FALSE, frames |-> 0]
    OBVIOUS
  <2>2. /\ status[r] \in VideoStatus(v) /\ status[r].state = "absent"
        /\ status[r].frames = 0
    <3>. HIDE DEF Video!Init
    <3>. QED BY <1>1, <2>1, AbsentIs
  <2>. QED BY <2>1, <2>2
<1>3. RecorderShape(v)
  <2>1. status \in [v.recs -> VideoStatus(v)]
    BY <1>2
  <2>2. \A r \in v.recs : status[r].frames <= captured[r]
    <3>1. \A r \in v.recs : status[r].frames = 0 /\ captured[r] = 0
      BY <1>2
    <3>. HIDE DEF Video!Init
    <3>. QED BY <3>1, NoneYet, Zenon
  <2>. QED BY <1>1, <2>1, <2>2 DEF RecorderShape, VideoPhases
<1>4. CommandShape(v)
  BY DEF CommandShape, VideoLabels, Starting, Stopping
<1>5. ManifestShape(v)
  BY <1>1 DEF ManifestShape
<1>6. EndTold(v)
  <2>1. \A r \in v.recs : ~manifest[r].complete
    BY <1>2
  <2>. QED BY <1>2, <2>1 DEF EndTold
<1>. QED BY <1>3, <1>4, <1>5, <1>6 DEF VideoInv

\* A step of one recorder: it turns to another phase, counts a frame or tells
\* its status, and says its end only then.
LEMMA RecorderMoves ==
    ASSUME NEW v, Video(v)!VideoAssumption, VideoInv(v), NEW r \in v.recs, NEW label \in VideoPhases, NEW n,
           NEW s,
           rt[r] \notin {"none", "gone"}, label # "none",
           rt' = [rt EXCEPT ![r] = label],
           n \in 0..v.frames, captured[r] <= n,
           captured' = [captured EXCEPT ![r] = n],
           status' = [status EXCEPT ![r] = s], s \in VideoStatus(v), s.frames <= n,
           s.state \in {"stopped", "failed"} => label = "gone",
           s.state = "stopped" => s.frames = n,
           stop' \subseteq stop, UNCHANGED <<chrome, record, manifest, unasked, pc, copy, mine>>
    PROVE  VideoInv(v)'
<1>1. RecorderShape(v)'
  BY DEF VideoInv, RecorderShape
<1>2. CommandShape(v)'
  BY DEF VideoInv, CommandShape, RecorderShape
<1>3. ManifestShape(v)'
  BY DEF VideoInv, ManifestShape
<1>4. EndTold(v)'
  <2>1. ~manifest[r].complete
    BY DEF VideoInv, EndTold
  <2>. QED BY <2>1 DEF VideoInv, EndTold, RecorderShape
<1>. QED BY <1>1, <1>2, <1>3, <1>4 DEF VideoInv

\* The recorders keep it.
LEMMA RecordersKeep ==
    ASSUME NEW v, Video(v)!VideoAssumption, VideoInv(v), NEW r \in v.recs,
           \/ Video(v)!Runtime(r) \/ Video(v)!CaptureFrame(r)
           \/ Video(v)!Interrupted(r) \/ Video(v)!RuntimeKilled(r)
    PROVE  VideoInv(v)'
<1>0. /\ rt[r] \in VideoPhases /\ rt = [rt EXCEPT ![r] = rt[r]]
      /\ status[r] \in VideoStatus(v) /\ status = [status EXCEPT ![r] = status[r]]
      /\ captured[r] \in 0..v.frames /\ captured = [captured EXCEPT ![r] = captured[r]]
      /\ captured[r] <= captured[r] /\ status[r].frames <= captured[r]
      /\ v.frames \in Nat /\ 0 \in 0..v.frames /\ 0 <= captured[r]
      /\ status[r].state \in {"stopped", "failed"} => rt[r] = "gone"
      /\ status[r].state = "stopped" => status[r].frames = captured[r]
  <2>1. v.frames \in Nat
    BY DEF Video!VideoAssumption
  <2>2. captured[r] \in 0..v.frames
    BY DEF VideoInv, RecorderShape
  <2>3. captured[r] <= captured[r] /\ 0 \in 0..v.frames /\ 0 <= captured[r]
    BY <2>1, <2>2
  <2>. QED BY <2>1, <2>2, <2>3 DEF VideoInv, RecorderShape, EndTold
<1>l. \A x \in {"connecting", "capturing", "recording", "stopping", "failing", "gone"} :
        x \in VideoPhases /\ x # "none"
  BY DEF VideoPhases
<1>a. ASSUME NEW label \in {"connecting", "capturing", "recording", "stopping",
                            "failing", "gone"},
             NEW n, NEW s,
             rt[r] \notin {"none", "gone"}, rt' = [rt EXCEPT ![r] = label],
             n \in 0..v.frames, captured[r] <= n,
             captured' = [captured EXCEPT ![r] = n],
             status' = [status EXCEPT ![r] = s], s \in VideoStatus(v), s.frames <= n,
             s.state \in {"stopped", "failed"} => label = "gone",
             s.state = "stopped" => s.frames = n,
             stop' \subseteq stop,
             UNCHANGED <<chrome, record, manifest, unasked, pc, copy, mine>>
      PROVE  VideoInv(v)'
  <2>1. label \in VideoPhases /\ label # "none"
    BY <1>l, <1>a
  <2>. QED BY <1>a, <2>1, RecorderMoves
\* With its status told.
<1>b. ASSUME NEW label \in {"connecting", "recording", "gone"},
             NEW state \in {"starting", "recording", "stopped", "failed"},
             NEW n \in 0..v.frames, NEW b \in BOOLEAN,
             n <= captured[r], state = "stopped" => n = captured[r],
             state \in {"stopped", "failed"} => label = "gone",
             rt[r] \notin {"none", "gone"}, rt' = [rt EXCEPT ![r] = label],
             Video(v)!Publish(r, state, n, b), stop' \subseteq stop,
             UNCHANGED <<chrome, record, manifest, unasked, captured, pc, copy, mine>>
      PROVE  VideoInv(v)'
  <2>. DEFINE s == Video(v)!Status(state, n, b)
  <2>1. status' = [status EXCEPT ![r] = s]
    BY <1>b DEF Video!Publish
  <2>2. /\ s \in VideoStatus(v) /\ s.state = state /\ s.frames = n
    BY <1>b, StatusIs
  <2>3. captured' = [captured EXCEPT ![r] = captured[r]]
    BY <1>0, <1>b
  <2>. HIDE DEF s
  <2>. QED BY <1>0, <1>a, <1>b, <2>1, <2>2, <2>3
\* With its status as it was.
<1>c. ASSUME NEW label \in {"connecting", "capturing", "recording", "stopping",
                            "failing", "gone"},
             rt[r] \notin {"none", "gone"}, rt' = [rt EXCEPT ![r] = label],
             stop' \subseteq stop,
             UNCHANGED <<chrome, record, manifest, unasked, captured, status, pc, copy, mine>>
      PROVE  VideoInv(v)'
  <2>1. /\ captured' = [captured EXCEPT ![r] = captured[r]]
        /\ status' = [status EXCEPT ![r] = status[r]]
    BY <1>0, <1>c
  <2>. QED BY <1>0, <1>a, <1>c, <2>1
<1>d. ASSUME NEW n \in 0..v.frames, n <= captured[r], rt[r] \notin {"none", "gone"},
             Video(v)!EndsFailed(r, n), stop' \subseteq stop,
             UNCHANGED <<chrome, record, manifest, unasked, captured, pc, copy, mine>>
      PROVE  VideoInv(v)'
  <2>1. rt' = [rt EXCEPT ![r] = "gone"]
    BY <1>d DEF Video!EndsFailed, Video!Turn
  <2>2. CASE Video(v)!Publish(r, "failed", n, FALSE)
    BY <1>b, <1>d, <2>1, <2>2
  <2>3. CASE UNCHANGED status
    BY <1>c, <1>d, <2>1, <2>3
  <2>. QED BY <1>d, <2>2, <2>3 DEF Video!EndsFailed
<1>. USE DEF Video!Turn, Video!files, Video!commands
<1>1. CASE Video(v)!RuntimeStarts(r)
  BY <1>0, <1>1, <1>b, <1>c DEF Video!RuntimeStarts
<1>2. CASE Video(v)!RecorderStarts(r)
  BY <1>2, <1>c DEF Video!RecorderStarts
<1>3. CASE Video(v)!RuntimeCannotStart(r)
  BY <1>0, <1>3, <1>d DEF Video!RuntimeCannotStart
<1>4. CASE Video(v)!PublishRecording(r)
  BY <1>0, <1>4, <1>b, <1>d DEF Video!PublishRecording
<1>5. CASE Video(v)!Heartbeat(r)
  BY <1>0, <1>5, <1>b, <1>d DEF Video!Heartbeat
<1>6. CASE Video(v)!SeesStop(r) \/ Video(v)!SeesNoChrome(r) \/ Video(v)!Interrupted(r)
  BY <1>6, <1>c DEF Video!SeesStop, Video!SeesNoChrome, Video!Interrupted
<1>7. CASE Video(v)!PublishStopped(r)
  BY <1>0, <1>7, <1>b, <1>d DEF Video!PublishStopped
<1>8. CASE Video(v)!PublishFailed(r)
  BY <1>0, <1>8, <1>d DEF Video!PublishFailed
<1>9. CASE Video(v)!RuntimeKilled(r)
  BY <1>9, <1>c DEF Video!RuntimeKilled, Video!Running, Video!Capturing
<1>10. CASE Video(v)!CaptureFrame(r)
  <2>1. /\ rt[r] \notin {"none", "gone"} /\ captured[r] < v.frames
        /\ captured' = [captured EXCEPT ![r] = captured[r] + 1]
        /\ UNCHANGED <<chrome, record, status, stop, manifest, unasked, rt, pc, copy, mine>>
    BY <1>0, <1>10 DEF Video!CaptureFrame, Video!Capturing
  <2>2. captured[r] + 1 \in 0..v.frames /\ captured[r] <= captured[r] + 1
        /\ status[r].frames <= captured[r] + 1
    <3>1. status[r].frames \in 0..v.frames
      BY <1>0 DEF VideoStatus
    <3>. QED BY <1>0, <2>1, <3>1
  <2>3. rt[r] \in {"connecting", "capturing", "recording", "stopping", "failing", "gone"}
    BY <1>10 DEF Video!CaptureFrame, Video!Capturing
  <2>4. rt' = [rt EXCEPT ![r] = rt[r]] /\ status' = [status EXCEPT ![r] = status[r]]
    BY <1>0, <2>1
  <2>. QED BY <1>0, <1>a, <2>1, <2>2, <2>3, <2>4
<1>. QED BY <1>1, <1>2, <1>3, <1>4, <1>5, <1>6, <1>7, <1>8, <1>9, <1>10
         DEF Video!Runtime


\* A step of one command, which leaves the recorders alone.
LEMMA CommandMoves ==
    ASSUME NEW v, VideoInv(v), NEW c \in v.clients, NEW label \in VideoLabels,
           pc' = [pc EXCEPT ![c] = label],
           record' \in v.recs \union {NoRec}, stop' \subseteq v.recs,
           unasked' \subseteq v.recs,
           NEW x \in v.recs \union {NoRec}, copy' = [copy EXCEPT ![c] = x],
           NEW y \in v.recs \union {NoRec}, mine' = [mine EXCEPT ![c] = y],
           label \in Stopping => x \in v.recs,
           label \in Starting => y \in v.recs /\ rt'[y] # "none",
           \A r \in v.recs : rt[r] # "none" => rt'[r] = rt[r],
           rt' \in [v.recs -> VideoPhases],
           \A r \in v.recs : manifest'[r] = manifest[r] \/
              (manifest'[r].complete => status[r].state = "stopped"
                                        /\ manifest'[r].frames = status[r].frames),
           ManifestShape(v)', UNCHANGED <<chrome, status, captured>>
    PROVE  VideoInv(v)'
<1>1. RecorderShape(v)'
  BY DEF VideoInv, RecorderShape
<1>2. CommandShape(v)'
  BY DEF VideoInv, CommandShape
<1>3. EndTold(v)'
  BY DEF VideoInv, EndTold
<1>. QED BY <1>1, <1>2, <1>3 DEF VideoInv

\* The commands keep it.
LEMMA CommandsKeep ==
    ASSUME NEW v, Video(v)!VideoAssumption, VideoInv(v), NEW c \in v.clients,
           Video(v)!Open(c) \/ Video(v)!Command(c) \/ Video(v)!Killed(c)
    PROVE  VideoInv(v)'
<1>0. /\ record \in v.recs \union {NoRec} /\ stop \subseteq v.recs
      /\ unasked \subseteq v.recs
      /\ copy[c] \in v.recs \union {NoRec} /\ copy = [copy EXCEPT ![c] = copy[c]]
      /\ mine[c] \in v.recs \union {NoRec} /\ mine = [mine EXCEPT ![c] = mine[c]]
      /\ pc[c] \in Stopping => copy[c] \in v.recs
      /\ pc[c] \in Starting => mine[c] \in v.recs /\ rt[mine[c]] # "none"
      /\ rt \in [v.recs -> VideoPhases] /\ ManifestShape(v) /\ NoRec \notin v.recs
  BY DEF VideoInv, CommandShape, RecorderShape, Video!VideoAssumption
\* It turns to another step, and no file is touched but the record.
<1>a. ASSUME NEW label \in VideoLabels, label # "stopped",
             pc' = [pc EXCEPT ![c] = label],
             label \in Starting => pc[c] \in Starting,
             label \in Stopping => copy[c] \in v.recs,
             record' \in v.recs \union {NoRec}, stop' \subseteq v.recs,
             unasked' \subseteq v.recs,
             \E x \in v.recs \union {NoRec} :
                copy' = [copy EXCEPT ![c] = x] /\ (label \in Stopping => x = copy[c]),
             \E y \in v.recs \union {NoRec} :
                mine' = [mine EXCEPT ![c] = y] /\ (label \in Starting => y = mine[c]),
             UNCHANGED <<chrome, status, rt, captured, manifest>>
      PROVE  VideoInv(v)'
  <2>1. PICK x \in v.recs \union {NoRec} :
          copy' = [copy EXCEPT ![c] = x] /\ (label \in Stopping => x = copy[c])
    BY <1>a
  <2>2. PICK y \in v.recs \union {NoRec} :
          mine' = [mine EXCEPT ![c] = y] /\ (label \in Starting => y = mine[c])
    BY <1>a
  <2>3. ManifestShape(v)'
    BY <1>0, <1>a DEF ManifestShape
  <2>. QED BY <1>0, <1>a, <2>1, <2>2, <2>3, CommandMoves
\* It writes a manifest that is no better than the status, or none.
<1>m. ASSUME NEW b \in BOOLEAN, NEW n \in 0..v.frames, copy[c] \in v.recs,
             b => status[copy[c]].state = "stopped" /\ n = status[copy[c]].frames,
             Video(v)!WriteManifest(c, b, n)
      PROVE  VideoInv(v)'
  <2>. DEFINE r == copy[c]
              m == [complete |-> b, frames |-> n]
  <2>1. /\ r \in v.recs /\ pc' = [pc EXCEPT ![c] = "stopped"]
        /\ manifest' = [manifest EXCEPT ![r] = m] \/ UNCHANGED manifest
        /\ UNCHANGED <<chrome, record, status, stop, unasked, rt, captured, copy, mine>>
    BY <1>m DEF Video!WriteManifest, Video!Goto, Video!recorders
  <2>2. m.complete = b /\ m.frames = n /\ m \in [complete : BOOLEAN, frames : 0..v.frames]
    BY <1>m
  <2>. HIDE DEF m
  <2>3. ManifestShape(v)' /\ "stopped" \in VideoLabels
    BY <1>0, <2>1, <2>2 DEF ManifestShape, VideoLabels
  <2>4. \A q \in v.recs : manifest'[q] = manifest[q] \/
           (manifest'[q].complete => status[q].state = "stopped"
                                     /\ manifest'[q].frames = status[q].frames)
    <3>1. \A q \in v.recs : q # r => manifest'[q] = manifest[q]
      BY <1>0, <2>1 DEF ManifestShape
    <3>2. manifest'[r] = m \/ manifest'[r] = manifest[r]
      BY <1>0, <2>1 DEF ManifestShape
    <3>3. m.complete => status[r].state = "stopped" /\ m.frames = status[r].frames
      BY <1>m, <2>2
    <3>. QED BY <3>1, <3>2, <3>3
  <2>5. copy' = [copy EXCEPT ![c] = copy[c]] /\ mine' = [mine EXCEPT ![c] = mine[c]]
    BY <1>0, <2>1
  <2>6. /\ record' \in v.recs \union {NoRec} /\ stop' \subseteq v.recs
        /\ unasked' \subseteq v.recs
        /\ copy[c] \in v.recs /\ copy[c] \in v.recs \union {NoRec}
        /\ mine[c] \in v.recs \union {NoRec} /\ pc' = [pc EXCEPT ![c] = "stopped"]
        /\ rt' \in [v.recs -> VideoPhases] /\ "stopped" \notin Starting
        /\ \A q \in v.recs : rt[q] # "none" => rt'[q] = rt[q]
        /\ UNCHANGED <<chrome, status, captured>>
    BY <1>0, <2>1 DEF Starting
  <2>. QED BY <2>3, <2>4, <2>5, <2>6, CommandMoves
<1>s. ASSUME NEW r \in v.recs \union {NoRec}, Video(v)!SetVideoState(c, r)
      PROVE  /\ record' \in v.recs \union {NoRec}
             /\ copy' = [copy EXCEPT ![c] = record']
  BY <1>0, <1>s DEF Video!SetVideoState
<1>l. VideoLabels \ (Starting \union Stopping) =
        {"idle", "start", "chapter", "stop", "clear", "spawn"}
  BY DEF VideoLabels, Starting, Stopping
<1>. USE DEF Video!Goto, Video!files, Video!recorders
<1>1. CASE Video(v)!Open(c)
  BY <1>0, <1>1, <1>a, <1>l DEF Video!Open
<1>2. CASE Video(v)!StartFree(c) \/ Video(v)!StartRefused(c) \/ Video(v)!StartRecovers(c)
  BY <1>0, <1>2, <1>a, <1>l DEF Video!StartFree, Video!StartRefused, Video!StartRecovers
<1>3. CASE Video(v)!StartClear(c)
  BY <1>0, <1>3, <1>a, <1>s, <1>l DEF Video!StartClear
<1>4. CASE Video(v)!StartSpawn(c)
  <2>1. CASE Video(v)!Goto(c, "idle") /\ UNCHANGED <<rt, mine>>
    BY <1>0, <1>4, <1>a, <1>l, <2>1 DEF Video!StartSpawn
  <2>2. ASSUME NEW r \in v.recs, rt[r] = "none", Video(v)!Turn(r, "born"),
               mine' = [mine EXCEPT ![c] = r], Video(v)!Goto(c, "started")
        PROVE  VideoInv(v)'
    <3>1. rt' = [rt EXCEPT ![r] = "born"] /\ pc' = [pc EXCEPT ![c] = "started"]
      BY <2>2 DEF Video!Turn
    <3>2. UNCHANGED <<chrome, record, status, stop, manifest, unasked, captured, copy>>
      BY <1>4 DEF Video!StartSpawn
    <3>3. /\ rt' \in [v.recs -> VideoPhases] /\ rt'[r] # "none"
          /\ \A q \in v.recs : rt[q] # "none" => rt'[q] = rt[q]
      BY <1>0, <2>2, <3>1 DEF VideoPhases
    <3>4. ManifestShape(v)' /\ "started" \in VideoLabels /\ "started" \notin Stopping
      BY <1>0, <3>2 DEF ManifestShape, VideoLabels, Stopping
    <3>5. copy' = [copy EXCEPT ![c] = copy[c]]
      BY <1>0, <3>2
    <3>6. \A q \in v.recs : manifest'[q] = manifest[q] \/
            (manifest'[q].complete => status[q].state = "stopped"
                                      /\ manifest'[q].frames = status[q].frames)
      BY <3>2
    <3>7. /\ record' \in v.recs \union {NoRec} /\ stop' \subseteq v.recs
          /\ unasked' \subseteq v.recs
          /\ copy[c] \in v.recs \union {NoRec} /\ r \in v.recs \union {NoRec}
          /\ r \in v.recs /\ mine' = [mine EXCEPT ![c] = r]
          /\ UNCHANGED <<chrome, status, captured>>
      BY <1>0, <2>2, <3>2
    <3>. QED BY <3>1, <3>3, <3>4, <3>5, <3>6, <3>7,
             CommandMoves
  <2>. QED BY <1>4, <2>1, <2>2 DEF Video!StartSpawn
<1>5. CASE Video(v)!StartSeesRecording(c) \/ Video(v)!StartWaitFails(c)
           \/ Video(v)!StartSaveFails(c) \/ Video(v)!StartCancelled(c)
  <2>1. /\ pc[c] \in Starting
        /\ UNCHANGED <<chrome, record, status, stop, manifest, unasked, rt, captured,
                       copy, mine>>
        /\ \E label \in {"save", "cancel", "undo", "undone", "idle"} :
              pc' = [pc EXCEPT ![c] = label]
    BY <1>5 DEF Video!StartSeesRecording, Video!StartWaitFails,
       Video!StartSaveFails, Video!StartCancelled, Starting
  <2>. QED BY <1>0, <1>a, <2>1 DEF VideoLabels, Starting, Stopping
<1>6. CASE Video(v)!StartSave(c)
  BY <1>0, <1>6, <1>a, <1>s, <1>l DEF Video!StartSave
<1>7. CASE Video(v)!StartCancel(c)
  <2>1. /\ pc[c] \in Starting /\ mine[c] \in v.recs
        /\ stop' \subseteq stop \union {mine[c]} /\ unasked' \subseteq unasked \union {mine[c]}
        /\ UNCHANGED <<chrome, record, status, manifest, rt, captured, copy, mine>>
        /\ \E label \in {"undoing", "cancelled", "undone", "idle"} :
              pc' = [pc EXCEPT ![c] = label]
    BY <1>0, <1>7 DEF Video!StartCancel, Video!AskToStop, Video!CannotAsk, Starting
  <2>. QED BY <1>0, <1>a, <2>1 DEF VideoLabels, Starting, Stopping
<1>8. CASE Video(v)!StopInactive(c) \/ Video(v)!StopRequest(c)
  <2>1. CASE Video(v)!StopInactive(c)
    BY <1>0, <1>a, <1>l, <2>1 DEF Video!StopInactive
  <2>2. CASE Video(v)!StopRequest(c)
    <3>1. /\ copy[c] \in v.recs
          /\ stop' \subseteq stop \union {copy[c]} /\ unasked' \subseteq unasked \union {copy[c]}
          /\ UNCHANGED <<chrome, record, status, manifest, rt, captured, copy, mine>>
          /\ \E label \in {"stopping", "unknown"} : pc' = [pc EXCEPT ![c] = label]
      BY <1>0, <2>2 DEF Video!StopRequest, Video!AskToStop, Video!CannotAsk
    <3>. QED BY <1>0, <1>a, <3>1 DEF VideoLabels, Starting, Stopping
  <2>. QED BY <1>8, <2>1, <2>2
<1>9. CASE Video(v)!StopAnswered(c)
  <2>. DEFINE b == status[copy[c]].state = "stopped"
              n == status[copy[c]].frames
  <2>1. copy[c] \in v.recs /\ Video(v)!WriteManifest(c, b, n)
    BY <1>0, <1>9 DEF Video!StopAnswered, Stopping
  <2>2. n \in 0..v.frames
    BY <2>1 DEF VideoInv, RecorderShape, VideoStatus
  <2>3. b \in BOOLEAN /\ (b => status[copy[c]].state = "stopped")
    BY Zenon
  <2>. HIDE DEF b
  <2>. QED BY <1>m, <2>1, <2>2, <2>3
<1>u. CASE Video(v)!StopUnasked(c)
  <2>1. v.frames \in Nat
    BY DEF Video!VideoAssumption
  <2>2. copy[c] \in v.recs /\ Video(v)!WriteManifest(c, FALSE, 0)
    BY <1>0, <1>u DEF Video!StopUnasked, Stopping
  <2>3. 0 \in 0..v.frames
    BY <2>1
  <2>. QED BY <1>m, <2>2, <2>3
<1>10. CASE Video(v)!ForgetRecord(c)
  BY <1>0, <1>10, <1>a, <1>s, <1>l DEF Video!ForgetRecord
<1>11. CASE Video(v)!Chapter(c)
  BY <1>0, <1>11, <1>a, <1>l DEF Video!Chapter
<1>12. CASE Video(v)!Killed(c)
  BY <1>0, <1>12, <1>a, <1>l DEF Video!Killed
<1>. QED BY <1>1, <1>2, <1>3, <1>4, <1>5, <1>6, <1>7, <1>8, <1>9, <1>u, <1>10, <1>11, <1>12
         DEF Video!Command

\* Every step keeps it.
LEMMA VideoKeeps ==
    ASSUME NEW v, Video(v)!VideoAssumption, VideoInv(v), [Video(v)!Next]_(Video(v)!vars)
    PROVE  VideoInv(v)'
<1>1. CASE UNCHANGED Video(v)!vars
  <2>1. UNCHANGED <<chrome, record, status, stop, manifest, unasked, rt, captured, pc,
                    copy, mine>>
    BY <1>1 DEF Video!vars, Video!files, Video!recorders, Video!commands
  <2>. QED BY <2>1 DEF VideoInv, RecorderShape, CommandShape, ManifestShape, EndTold
<1>2. CASE Video(v)!ChromeDies
  BY <1>2 DEF Video!ChromeDies, Video!files, Video!recorders, Video!commands,
     VideoInv, RecorderShape, CommandShape, ManifestShape, EndTold
<1>3. ASSUME NEW r \in v.recs, Video(v)!Age(r) PROVE VideoInv(v)'
  <2>1. /\ status' = [status EXCEPT ![r].fresh = FALSE]
        /\ UNCHANGED <<chrome, record, stop, manifest, unasked, rt, captured, pc, copy, mine>>
    BY <1>3 DEF Video!Age, Video!recorders, Video!commands
  <2>2. /\ status' \in [v.recs -> VideoStatus(v)]
        /\ \A q \in v.recs : status'[q].state = status[q].state
                             /\ status'[q].frames = status[q].frames
    BY <2>1 DEF VideoInv, RecorderShape, VideoStatus
  <2>. QED BY <2>1, <2>2 DEF VideoInv, RecorderShape, CommandShape, ManifestShape, EndTold
<1>4. ASSUME NEW r \in v.recs,
             \/ Video(v)!Runtime(r) \/ Video(v)!CaptureFrame(r)
             \/ Video(v)!Interrupted(r) \/ Video(v)!RuntimeKilled(r)
      PROVE  VideoInv(v)'
  BY <1>4, RecordersKeep
<1>5. ASSUME NEW c \in v.clients,
             Video(v)!Open(c) \/ Video(v)!Command(c) \/ Video(v)!Killed(c)
      PROVE  VideoInv(v)'
  BY <1>5, CommandsKeep
<1>. QED BY <1>1, <1>2, <1>3, <1>4, <1>5 DEF Video!Next

LEMMA VideoInvMeans ==
    ASSUME NEW v, VideoInv(v)
    PROVE  Video(v)!TypeOK /\ Video(v)!CompleteIsComplete
<1>1. Video(v)!TypeOK
  BY DEF VideoInv, RecorderShape, CommandShape, ManifestShape, VideoStatus, VideoLabels,
     VideoPhases, Video!TypeOK, Video!Labels, Video!Phases
<1>2. Video(v)!CompleteIsComplete
  BY DEF VideoInv, EndTold, Video!CompleteIsComplete, Video!Running, Video!Capturing
<1>. QED BY <1>1, <1>2

\* A recording that a manifest calls complete has every frame its recorder ever
\* took, however slow the commands and the recorder are and whoever is killed
\* (RunVideoRuntime, writeVideoManifest).
THEOREM CompleteMeansAll ==
    ASSUME NEW CONSTANT v, Video(v)!VideoAssumption
    PROVE  Video(v)!Spec => [](Video(v)!TypeOK /\ Video(v)!CompleteIsComplete)
<1>1. Video(v)!Init => VideoInv(v)
  BY VideoInit
<1>2. VideoInv(v) /\ [Video(v)!Next]_(Video(v)!vars) => VideoInv(v)'
  BY VideoKeeps
<1>3. VideoInv(v) => Video(v)!TypeOK /\ Video(v)!CompleteIsComplete
  BY VideoInvMeans
<1>. QED BY <1>1, <1>2, <1>3, PTL DEF Video!Spec
----------------------------------------------------------------------------
\* Commands one at a time that keep their deadlines and are not killed.
OneCommand(v) == ~v.slow /\ ~v.kills /\ \A p, q \in v.clients : p = q

\* A recorder that has told that it records goes on telling until it is over;
\* none is stopped, or in the state file, before.
Late == {"recording", "stopping", "failing", "gone"}
Cancelling == Starting \ {"started"}
RecorderTells(v) ==
    \A r \in v.recs :
        /\ rt[r] \in {"recording", "stopping", "failing"} =>
              status[r].state = "recording" /\ status[r].fresh
        /\ status[r].state = "recording" => rt[r] \in Late
        /\ r \in stop => rt[r] \in Late
        /\ record = r => rt[r] \in Late

\* The command's copy is what the state file says; it clears a recording that is
\* over, or that it could not ask to be, and starts one when there is none.
CommandTells(v, c) ==
    /\ copy[c] = record
    /\ pc[c] \in {"spawn"} \union Starting => record = NoRec
    /\ pc[c] = "clear" => record \in v.recs /\ rt[record] = "gone"
    /\ pc[c] = "unknown" => record \in unasked
    /\ pc[c] = "stopped" => record \in v.recs /\ (rt[record] = "gone" \/ record \in unasked)
    /\ pc[c] \in Cancelling => rt[mine[c]] \in Late
    /\ pc[c] \in {"cancelled", "undoing", "undone"} => mine[c] \in stop \union unasked

\* A recorder at work is in the state file, asked to stop or held by a command,
\* or could not be asked.
Held(r, c) == mine[c] = r /\ pc[c] \in Starting
RecordersKnown(v) ==
    \A r \in v.recs :
        Video(v)!Running(r) => \/ record = r \/ r \in stop \union unasked
                               \/ \E c \in v.clients : Held(r, c)

KnownInv(v) ==
    /\ RecorderTells(v) /\ \A c \in v.clients : CommandTells(v, c)
    /\ RecordersKnown(v)


LEMMA KnownInit ==
    ASSUME NEW v, Video(v)!VideoAssumption, Video(v)!Init
    PROVE  KnownInv(v)
<1>1. \A r \in v.recs : rt[r] = "none" /\ status[r].state = "absent"
  <2>1. \A r \in v.recs :
          rt[r] = "none" /\ status[r] = Video(v)!Status("absent", 0, FALSE)
    BY DEF Video!Init, Video!NoStatus
  <2>2. Video(v)!Status("absent", 0, FALSE).state = "absent"
    BY AbsentIs
  <2>. HIDE DEF Video!Init
  <2>. QED BY <2>1, <2>2
<1>2. RecorderTells(v)
  BY <1>1 DEF Video!Init, Video!VideoAssumption, RecorderTells
<1>3. \A c \in v.clients : CommandTells(v, c)
  BY DEF Video!Init, CommandTells, Starting, Cancelling
<1>4. RecordersKnown(v)
  BY <1>1 DEF RecordersKnown, Video!Running, Video!Capturing
<1>. QED BY <1>2, <1>3, <1>4 DEF KnownInv

\* A step of one recorder.
LEMMA KnownMoves ==
    ASSUME NEW v, VideoInv(v), KnownInv(v), NEW r \in v.recs, NEW label,
           rt[r] \notin {"none", "gone"}, rt' = [rt EXCEPT ![r] = label],
           \A q \in v.recs : q # r => status'[q] = status[q],
           rt[r] \in {"recording", "stopping", "failing"} => label \in Late,
           label \in {"recording", "stopping", "failing"} =>
              status'[r].state = "recording" /\ status'[r].fresh,
           status'[r].state = "recording" => label \in Late,
           UNCHANGED <<record, stop, unasked, pc, copy, mine>>
    PROVE  KnownInv(v)'
<1>1. /\ rt \in [v.recs -> VideoPhases] /\ rt'[r] = label
      /\ \A q \in v.recs : q # r => rt'[q] = rt[q]
      /\ \A q \in v.recs : rt[q] \in Late => rt'[q] \in Late
  BY DEF VideoInv, RecorderShape, Late
<1>2. RecorderTells(v)'
  BY <1>1 DEF KnownInv, RecorderTells
<1>3. ASSUME NEW c \in v.clients PROVE CommandTells(v, c)'
  <2>1. pc[c] \in Cancelling => mine[c] \in v.recs
    BY DEF VideoInv, CommandShape, Starting, Cancelling
  <2>2. CommandTells(v, c)
    BY DEF KnownInv
  <2>3. pc[c] = "clear" \/ (pc[c] = "stopped" /\ record \notin unasked) => record # r
    BY <2>2 DEF CommandTells
  <2>. QED BY <1>1, <2>1, <2>2, <2>3 DEF CommandTells
<1>4. RecordersKnown(v)'
  <2>1. \A q \in v.recs : Video(v)!Running(q)' => Video(v)!Running(q)
    BY <1>1 DEF VideoInv, RecorderShape, VideoPhases, Video!Running, Video!Capturing
  <2>. QED BY <2>1 DEF KnownInv, RecordersKnown, Held
<1>. QED BY <1>2, <1>3, <1>4 DEF KnownInv

LEMMA RecordersTell ==
    ASSUME NEW v, OneCommand(v), VideoInv(v), KnownInv(v), NEW r \in v.recs,
           \/ Video(v)!Runtime(r) \/ Video(v)!CaptureFrame(r)
           \/ Video(v)!Interrupted(r) \/ Video(v)!RuntimeKilled(r)
    PROVE  KnownInv(v)'
<1>0. /\ status \in [v.recs -> VideoStatus(v)]
      /\ rt[r] \in {"recording", "stopping", "failing"} =>
            status[r].state = "recording" /\ status[r].fresh
      /\ status[r].state = "recording" => rt[r] \in Late
      /\ r \in stop => rt[r] \in Late
      /\ rt = [rt EXCEPT ![r] = rt[r]]
      /\ {"recording", "stopping", "failing", "gone"} \subseteq Late
  BY DEF VideoInv, RecorderShape, KnownInv, RecorderTells, Late
<1>p. ASSUME NEW s, NEW n, NEW b, Video(v)!Publish(r, s, n, b)
      PROVE  /\ \A q \in v.recs : q # r => status'[q] = status[q]
             /\ status'[r].state = s /\ status'[r].fresh = b
  BY <1>0, <1>p, StatusIs DEF Video!Publish
\* It is over.
<1>g. ASSUME rt[r] \notin {"none", "gone"}, rt' = [rt EXCEPT ![r] = "gone"],
             UNCHANGED status \/ \E s, n : Video(v)!Publish(r, s, n, FALSE),
             UNCHANGED <<record, stop, unasked, pc, copy, mine>>
      PROVE  KnownInv(v)'
  <2>1. \A q \in v.recs : q # r => status'[q] = status[q]
    BY <1>g, <1>p
  <2>. QED BY <1>0, <1>g, <2>1, KnownMoves
<1>f. ASSUME NEW n, rt[r] \notin {"none", "gone"}, Video(v)!EndsFailed(r, n),
             UNCHANGED <<record, stop, unasked, pc, copy, mine>>
      PROVE  KnownInv(v)'
  BY <1>f, <1>g DEF Video!EndsFailed, Video!Turn
\* It turns to another phase, and tells nothing.
<1>t. ASSUME NEW label, rt[r] \notin {"none", "gone"}, rt' = [rt EXCEPT ![r] = label],
             rt[r] \in {"recording", "stopping", "failing"} => label \in Late,
             label \in {"recording", "stopping", "failing"} =>
                rt[r] \in {"recording", "stopping", "failing"},
             status[r].state = "recording" => label \in Late,
             UNCHANGED <<record, stop, unasked, status, pc, copy, mine>>
      PROVE  KnownInv(v)'
  BY <1>0, <1>t, KnownMoves
<1>. USE DEF Video!Turn, Video!files, Video!commands
<1>1. CASE Video(v)!RuntimeStarts(r)
  <2>1. /\ rt[r] = "born" /\ stop' = stop \ {r}
        /\ UNCHANGED <<record, unasked, pc, copy, mine>>
    BY <1>1 DEF Video!RuntimeStarts
  <2>2. UNCHANGED stop
    BY <1>0, <2>1 DEF Late
  <2>3. CASE Video(v)!Turn(r, "connecting") /\ Video(v)!Publish(r, "starting", 0, FALSE)
    <3>1. /\ \A q \in v.recs : q # r => status'[q] = status[q]
          /\ status'[r].state = "starting"
      BY <1>p, <2>3
    <3>. QED BY <2>1, <2>2, <2>3, <3>1, KnownMoves
  <2>4. CASE Video(v)!Turn(r, "gone") /\ UNCHANGED status
    BY <1>g, <2>1, <2>2, <2>4
  <2>. QED BY <1>1, <2>3, <2>4 DEF Video!RuntimeStarts
<1>2. CASE Video(v)!RecorderStarts(r)
  <2>1. rt[r] = "connecting" /\ status[r].state # "recording"
    BY <1>0, <1>2 DEF Video!RecorderStarts, Late
  <2>. QED BY <1>2, <1>t, <2>1 DEF Video!RecorderStarts
<1>3. CASE Video(v)!RuntimeCannotStart(r)
  BY <1>3, <1>f DEF Video!RuntimeCannotStart
<1>4. CASE Video(v)!PublishRecording(r)
  <2>1. /\ rt[r] = "capturing" /\ UNCHANGED <<record, stop, unasked, pc, copy, mine>>
    BY <1>4 DEF Video!PublishRecording
  <2>2. CASE Video(v)!Turn(r, "recording") /\ Video(v)!Publish(r, "recording", 0, TRUE)
    <3>1. /\ \A q \in v.recs : q # r => status'[q] = status[q]
          /\ status'[r].state = "recording" /\ status'[r].fresh
      BY <1>p, <2>2
    <3>. QED BY <1>0, <2>1, <2>2, <3>1, KnownMoves
  <2>. QED BY <1>4, <1>f, <2>1, <2>2 DEF Video!PublishRecording
<1>5. CASE Video(v)!Heartbeat(r)
  <2>1. /\ rt[r] = "recording" /\ UNCHANGED <<record, stop, unasked, pc, copy, mine>>
    BY <1>5 DEF Video!Heartbeat
  <2>2. CASE Video(v)!Publish(r, "recording", captured[r], TRUE) /\ UNCHANGED rt
    <3>1. /\ \A q \in v.recs : q # r => status'[q] = status[q]
          /\ status'[r].state = "recording" /\ status'[r].fresh
          /\ rt' = [rt EXCEPT ![r] = "recording"]
      BY <1>0, <1>p, <2>1, <2>2
    <3>. QED BY <1>0, <2>1, <3>1, KnownMoves
  <2>. QED BY <1>5, <1>f, <2>1, <2>2 DEF Video!Heartbeat
<1>6. CASE Video(v)!SeesStop(r) \/ Video(v)!SeesNoChrome(r) \/ Video(v)!Interrupted(r)
  BY <1>0, <1>6, <1>t DEF Video!SeesStop, Video!SeesNoChrome, Video!Interrupted
<1>7. CASE Video(v)!PublishStopped(r)
  <2>1. /\ rt[r] = "stopping" /\ UNCHANGED <<record, stop, unasked, pc, copy, mine>>
    BY <1>7 DEF Video!PublishStopped
  <2>2. CASE Video(v)!Turn(r, "gone") /\ Video(v)!Publish(r, "stopped", captured[r], FALSE)
    BY <1>g, <2>1, <2>2
  <2>. QED BY <1>7, <1>f, <2>1, <2>2 DEF Video!PublishStopped
<1>8. CASE Video(v)!PublishFailed(r)
  BY <1>8, <1>f DEF Video!PublishFailed
<1>9. CASE Video(v)!RuntimeKilled(r)
  BY <1>9 DEF Video!RuntimeKilled, OneCommand
<1>10. CASE Video(v)!CaptureFrame(r)
  <2>1. UNCHANGED <<record, status, stop, unasked, rt, pc, copy, mine>>
    BY <1>10 DEF Video!CaptureFrame
  <2>. QED BY <2>1 DEF KnownInv, RecorderTells, CommandTells, RecordersKnown, Held,
           Video!Running, Video!Capturing
<1>. QED BY <1>1, <1>2, <1>3, <1>4, <1>5, <1>6, <1>7, <1>8, <1>9, <1>10
         DEF Video!Runtime


\* A step of the one command.
LEMMA OneMoves ==
    ASSUME NEW v, OneCommand(v), VideoInv(v), KnownInv(v), NEW c \in v.clients,
           UNCHANGED status, CommandTells(v, c)', stop \subseteq stop',
           unasked \subseteq unasked',
           \A q \in v.recs :
              \/ rt'[q] = rt[q]
              \/ rt[q] = "none" /\ rt'[q] = "born" /\ Held(q, c)',
           \A q \in v.recs :
              (q \in stop' /\ q \notin stop) \/ (record' = q /\ record # q)
                 => rt[q] \in Late,
           \A q \in v.recs :
              Video(v)!Running(q) /\ (record = q \/ Held(q, c))
                 => record' = q \/ q \in stop' \union unasked' \/ Held(q, c)'
    PROVE  KnownInv(v)'
<1>0. /\ \A d \in v.clients : d = c
      /\ \A q \in v.recs : rt[q] \in Late => rt'[q] = rt[q]
      /\ \A q \in v.recs : rt'[q] \in {"recording", "stopping", "failing"} => rt'[q] = rt[q]
  BY DEF OneCommand, Late
<1>1. RecorderTells(v)'
  BY <1>0 DEF KnownInv, RecorderTells
<1>2. \A d \in v.clients : CommandTells(v, d)'
  BY <1>0
<1>3. RecordersKnown(v)'
  <2>. SUFFICES ASSUME NEW q \in v.recs, Video(v)!Running(q)'
                PROVE  record' = q \/ q \in stop' \union unasked' \/ Held(q, c)'
    BY DEF RecordersKnown
  <2>1. CASE rt'[q] = rt[q]
    <3>1. Video(v)!Running(q)
      BY <2>1 DEF Video!Running, Video!Capturing
    <3>. QED BY <1>0, <3>1 DEF KnownInv, RecordersKnown
  <2>. QED BY <2>1
<1>. QED BY <1>1, <1>2, <1>3 DEF KnownInv

LEMMA CommandsTell ==
    ASSUME NEW v, Video(v)!VideoAssumption, OneCommand(v), VideoInv(v), VideoInv(v)',
           KnownInv(v), NEW c \in v.clients,
           Video(v)!Open(c) \/ Video(v)!Command(c) \/ Video(v)!Killed(c)
    PROVE  /\ KnownInv(v)'
           /\ \A r \in v.recs : record = r /\ record' # r
                 => ~Video(v)!Running(r) \/ r \in unasked
<1>0. /\ CommandTells(v, c) /\ RecorderTells(v) /\ ~v.slow /\ ~v.kills
      /\ NoRec \notin v.recs /\ record \in v.recs \union {NoRec}
      /\ pc \in [v.clients -> VideoLabels]
      /\ copy \in [v.clients -> v.recs \union {NoRec}]
      /\ mine \in [v.clients -> v.recs \union {NoRec}]
      /\ rt \in [v.recs -> VideoPhases]
      /\ pc[c] \in Stopping => copy[c] \in v.recs
      /\ pc[c] \in Starting => mine[c] \in v.recs /\ rt[mine[c]] # "none"
  BY DEF VideoInv, CommandShape, RecorderShape, Video!VideoAssumption, KnownInv,
     OneCommand
<1>n. \A r \in v.recs : Video(v)!Running(r) => rt[r] \notin {"none", "gone"}
  BY DEF Video!Running, Video!Capturing
<1>s. ASSUME NEW r \in v.recs, status[r].state \in {"stopped", "failed"} \/ Video(v)!Overdue(r),
             rt[r] # "none"
      PROVE  rt[r] = "gone"
  BY <1>0, <1>s DEF VideoInv, EndTold, Video!Overdue, Video!Running, Video!Capturing,
     VideoPhases
\* The record stays, and what the command holds is held or is not to be.
<1>a. ASSUME UNCHANGED <<record, status, rt>>, copy'[c] = record, stop \subseteq stop',
             unasked \subseteq unasked',
             CommandTells(v, c)',
             \A q \in v.recs : q \in stop' /\ q \notin stop => rt[q] \in Late,
             \A q \in v.recs : Video(v)!Running(q) /\ Held(q, c)
                => q \in stop' \union unasked' \/ Held(q, c)'
      PROVE  /\ KnownInv(v)'
             /\ \A r \in v.recs : record = r /\ record' # r
                   => ~Video(v)!Running(r) \/ r \in unasked
  BY <1>0, <1>a, OneMoves
<1>. USE DEF Video!Goto, Video!files, Video!recorders
<1>1. CASE Video(v)!Open(c)
  <2>1. /\ pc[c] = "idle" /\ pc'[c] \in {"start", "chapter", "stop"}
        /\ copy'[c] = record /\ UNCHANGED <<record, status, stop, unasked, rt>>
    BY <1>0, <1>1 DEF Video!Open
  <2>2. CommandTells(v, c)' /\ \A q \in v.recs : ~Held(q, c)
    BY <2>1 DEF CommandTells, Starting, Cancelling, Held
  <2>. QED BY <1>a, <2>1, <2>2
<1>2. CASE Video(v)!StartFree(c) \/ Video(v)!StartRefused(c) \/ Video(v)!StartRecovers(c)
  <2>1. /\ pc[c] = "start" /\ copy'[c] = record
        /\ UNCHANGED <<record, status, stop, unasked, rt, copy, mine>>
        /\ pc'[c] \in {"spawn", "idle", "clear"}
        /\ pc'[c] = "spawn" => copy[c] = NoRec
        /\ pc'[c] = "clear" => copy[c] # NoRec /\ Video(v)!NeedsRecovery(copy[c])
    BY <1>0, <1>2 DEF Video!StartFree, Video!StartRefused, Video!StartRecovers,
       CommandTells
  <2>2. pc'[c] = "clear" => record \in v.recs /\ rt[record] = "gone"
    <3>. SUFFICES ASSUME pc'[c] = "clear" PROVE record \in v.recs /\ rt[record] = "gone"
      OBVIOUS
    <3>1. record \in v.recs /\ Video(v)!NeedsRecovery(record)
      BY <1>0, <2>1 DEF CommandTells
    <3>. QED BY <1>0, <3>1 DEF RecorderTells, Late, Video!NeedsRecovery
  <2>3. CommandTells(v, c)' /\ \A q \in v.recs : ~Held(q, c)
    BY <1>0, <2>1, <2>2 DEF CommandTells, Starting, Cancelling, Held
  <2>. QED BY <1>a, <2>1, <2>3
<1>3. CASE Video(v)!StartClear(c) \/ (Video(v)!ForgetRecord(c) /\ pc[c] = "stopped")
  <2>1. /\ pc[c] \in {"clear", "stopped"} /\ pc'[c] \in {"spawn", "idle"}
        /\ UNCHANGED <<status, stop, unasked, rt, mine>> /\ copy'[c] = record'
        /\ record' \in {record, NoRec} /\ (pc'[c] = "spawn" => record' = NoRec)
    BY <1>0, <1>3 DEF Video!StartClear, Video!ForgetRecord, Video!SetVideoState,
       CommandTells
  <2>2. record \in v.recs /\ (rt[record] = "gone" \/ record \in unasked)
    BY <1>0, <2>1 DEF CommandTells
  <2>3. CommandTells(v, c)' /\ \A q \in v.recs : ~Held(q, c)
    BY <2>1 DEF CommandTells, Starting, Cancelling, Held
  <2>4. \A q \in v.recs : record = q => ~Video(v)!Running(q) \/ q \in unasked
    BY <1>n, <2>2
  <2>5. \A q \in v.recs : Video(v)!Running(q) /\ record = q => q \in unasked'
    BY <2>1, <2>4
  <2>. QED BY <1>0, <2>1, <2>3, <2>4, <2>5, OneMoves
\* There is nothing to forget of what was never in the state file.
<1>u. CASE Video(v)!ForgetRecord(c) /\ pc[c] = "undone"
  <2>1. record = NoRec /\ copy[c] = NoRec /\ mine[c] \in stop \union unasked
    BY <1>0, <1>u DEF CommandTells, Starting
  <2>2. pc'[c] = "idle" /\ UNCHANGED <<record, status, stop, unasked, rt, mine>>
        /\ copy'[c] = record
    BY <1>0, <1>u, <2>1 DEF Video!ForgetRecord, Video!SetVideoState
  <2>3. CommandTells(v, c)' /\ \A q \in v.recs : Held(q, c) => q \in stop' \union unasked'
    BY <2>1, <2>2 DEF CommandTells, Starting, Cancelling, Held
  <2>. QED BY <1>a, <2>2, <2>3
<1>4. CASE Video(v)!StartSpawn(c)
  <2>1. /\ pc[c] = "spawn" /\ record = NoRec /\ copy'[c] = record
        /\ UNCHANGED <<record, status, stop, unasked>>
    BY <1>0, <1>4 DEF Video!StartSpawn, CommandTells
  <2>2. \A q \in v.recs : ~Held(q, c)
    BY <2>1 DEF Held, Starting
  <2>3. CASE pc'[c] = "idle" /\ UNCHANGED rt
    <3>1. CommandTells(v, c)'
      BY <2>1, <2>3 DEF CommandTells, Starting, Cancelling
    <3>. QED BY <1>a, <2>1, <2>2, <2>3, <3>1
  <2>4. ASSUME NEW r \in v.recs, rt[r] = "none", rt' = [rt EXCEPT ![r] = "born"],
               mine' = [mine EXCEPT ![c] = r], pc'[c] = "started"
        PROVE  /\ KnownInv(v)'
               /\ \A q \in v.recs : record = q /\ record' # q
                     => ~Video(v)!Running(q) \/ q \in unasked
    <3>1. /\ rt'[r] = "born" /\ \A q \in v.recs : q # r => rt'[q] = rt[q]
          /\ Held(r, c)'
      BY <1>0, <2>4 DEF Held, Starting
    <3>2. CommandTells(v, c)'
      BY <2>1, <2>4 DEF CommandTells, Starting, Cancelling
    <3>. QED BY <1>0, <2>1, <2>2, <2>4, <3>1, <3>2, OneMoves
  <2>. QED BY <1>0, <1>4, <2>3, <2>4 DEF Video!StartSpawn, Video!Turn
<1>5. CASE Video(v)!StartSeesRecording(c) \/ Video(v)!StartWaitFails(c)
           \/ Video(v)!StartSaveFails(c)
  <2>1. /\ pc[c] \in {"started", "save"} /\ pc'[c] \in {"save", "cancel", "undo"}
        /\ UNCHANGED <<record, status, stop, unasked, rt, copy, mine>>
    BY <1>0, <1>5 DEF Video!StartSeesRecording, Video!StartWaitFails,
       Video!StartSaveFails
  <2>2. record = NoRec /\ copy[c] = record /\ mine[c] \in v.recs /\ rt[mine[c]] # "none"
    BY <1>0, <2>1 DEF CommandTells, Starting, Cancelling
  <2>3. rt[mine[c]] \in Late
    <3>1. CASE Video(v)!StartSeesRecording(c)
      BY <1>0, <2>2, <3>1 DEF Video!StartSeesRecording, RecorderTells
    <3>2. CASE Video(v)!StartWaitFails(c)
      BY <1>s, <2>2, <3>2 DEF Video!StartWaitFails, Late
    <3>3. CASE Video(v)!StartSaveFails(c)
      BY <1>0, <3>3 DEF Video!StartSaveFails, CommandTells, Starting, Cancelling
    <3>. QED BY <1>5, <3>1, <3>2, <3>3
  <2>4. CommandTells(v, c)' /\ \A q \in v.recs : Held(q, c) => Held(q, c)'
    BY <2>1, <2>2, <2>3 DEF CommandTells, Starting, Cancelling, Held
  <2>. QED BY <1>a, <2>1, <2>2, <2>4
<1>6. CASE Video(v)!StartSave(c)
  <2>1. /\ pc[c] = "save" /\ pc'[c] = "idle" /\ record = NoRec
        /\ mine[c] \in v.recs /\ rt[mine[c]] \in Late
        /\ record' = mine[c] /\ copy'[c] = record'
        /\ UNCHANGED <<status, stop, unasked, rt, mine>>
    BY <1>0, <1>6 DEF Video!StartSave, Video!SetVideoState, CommandTells, Starting,
       Cancelling
  <2>2. CommandTells(v, c)'
    BY <2>1 DEF CommandTells, Starting, Cancelling
  <2>3. \A q \in v.recs : Held(q, c) => record' = q
    BY <2>1 DEF Held
  <2>. QED BY <1>0, <2>1, <2>2, <2>3, OneMoves
<1>7. CASE Video(v)!StartCancel(c)
  <2>1. /\ pc[c] \in {"cancel", "undo"}
        /\ pc'[c] \in {"cancelled", "idle", "undoing", "undone"}
        /\ stop \subseteq stop' /\ stop' \subseteq stop \union {mine[c]}
        /\ unasked \subseteq unasked' /\ mine[c] \in stop' \union unasked'
        /\ pc[c] = "cancel" => pc'[c] \in {"cancelled", "idle"}
        /\ UNCHANGED <<record, status, rt, copy, mine>>
    BY <1>0, <1>7 DEF Video!StartCancel, Video!AskToStop, Video!CannotAsk
  <2>2. rt[mine[c]] \in Late /\ record = NoRec /\ copy[c] = record
    BY <1>0, <2>1 DEF CommandTells, Starting, Cancelling
  <2>3. CommandTells(v, c)' /\ \A q \in v.recs : Held(q, c) => q \in stop' \union unasked'
    BY <2>1, <2>2 DEF CommandTells, Starting, Cancelling, Held
  <2>. QED BY <1>a, <2>1, <2>2, <2>3
<1>8. CASE Video(v)!StartCancelled(c)
  <2>1. /\ pc[c] \in {"cancelled", "undoing"} /\ pc'[c] \in {"idle", "undone"}
        /\ UNCHANGED <<record, status, stop, unasked, rt, copy, mine>>
    BY <1>0, <1>8 DEF Video!StartCancelled
  <2>2. /\ mine[c] \in stop \union unasked /\ rt[mine[c]] \in Late
        /\ record = NoRec /\ copy[c] = record
    BY <1>0, <2>1 DEF CommandTells, Starting, Cancelling
  <2>3. CommandTells(v, c)' /\ \A q \in v.recs : Held(q, c) => q \in stop' \union unasked'
    BY <2>1, <2>2 DEF CommandTells, Starting, Cancelling, Held
  <2>. QED BY <1>a, <2>1, <2>2, <2>3
<1>9. CASE Video(v)!StopInactive(c) \/ Video(v)!StopRequest(c) \/ Video(v)!Chapter(c)
  <2>1. /\ pc[c] \in {"stop", "chapter"} /\ pc'[c] \in {"idle", "stopping", "unknown"}
        /\ copy[c] = record /\ UNCHANGED <<record, status, rt, copy, mine>>
        /\ stop \subseteq stop' /\ stop' \subseteq stop \union {record}
        /\ unasked \subseteq unasked' /\ (pc'[c] = "unknown" => record \in unasked')
    BY <1>0, <1>9 DEF Video!StopInactive, Video!StopRequest, Video!AskToStop,
       Video!CannotAsk, Video!Chapter, CommandTells
  <2>2. CommandTells(v, c)' /\ \A q \in v.recs : ~Held(q, c)
    BY <2>1 DEF CommandTells, Starting, Cancelling, Held
  <2>3. \A q \in v.recs : q \in stop' /\ q \notin stop => rt[q] \in Late
    BY <1>0, <2>1 DEF RecorderTells
  <2>. QED BY <1>a, <2>1, <2>2, <2>3
<1>10. CASE Video(v)!StopAnswered(c) \/ Video(v)!StopUnasked(c)
  <2>1. /\ pc[c] \in Stopping /\ pc'[c] = "stopped" /\ copy[c] = record
        /\ record \in v.recs /\ UNCHANGED <<record, status, stop, unasked, rt, copy, mine>>
        /\ \/ status[record].state \in {"stopped", "failed"} \/ Video(v)!Overdue(record)
           \/ record \in unasked
    BY <1>0, <1>10 DEF Video!StopAnswered, Video!StopUnasked, Video!WriteManifest,
       Stopping, CommandTells
  <2>2. rt[record] = "gone" \/ record \in unasked
    BY <1>0, <1>s, <2>1 DEF RecorderTells, Late
  <2>3. CommandTells(v, c)' /\ \A q \in v.recs : ~Held(q, c)
    BY <2>1, <2>2 DEF CommandTells, Starting, Stopping, Cancelling, Held
  <2>. QED BY <1>a, <2>1, <2>3
<1>11. CASE Video(v)!Killed(c)
  BY <1>0, <1>11 DEF Video!Killed
<1>12. Video(v)!ForgetRecord(c) => pc[c] \in {"undone", "stopped"}
  BY DEF Video!ForgetRecord
<1>. QED BY <1>1, <1>2, <1>3, <1>u, <1>4, <1>5, <1>6, <1>7, <1>8, <1>9, <1>10, <1>11,
            <1>12
         DEF Video!Command

\* Every step, which is what is wanted of a record that is cleared.
LEMMA KnownKeeps ==
    ASSUME NEW v, Video(v)!VideoAssumption, OneCommand(v), VideoInv(v), VideoInv(v)',
           KnownInv(v), [Video(v)!Next]_(Video(v)!vars)
    PROVE  KnownInv(v)' /\ Video(v)!ClearedAfterTheEnd
<1>1. ASSUME UNCHANGED <<record, status, stop, unasked, rt, pc, copy, mine>>
      PROVE  KnownInv(v)' /\ Video(v)!ClearedAfterTheEnd
  BY <1>1 DEF KnownInv, RecorderTells, CommandTells, RecordersKnown, Held,
     Video!Running, Video!Capturing, Video!ClearedAfterTheEnd
<1>2. CASE UNCHANGED Video(v)!vars \/ Video(v)!ChromeDies
  BY <1>1, <1>2 DEF Video!vars, Video!ChromeDies, Video!files, Video!recorders,
     Video!commands
<1>3. ASSUME NEW r \in v.recs, Video(v)!Age(r)
      PROVE  KnownInv(v)' /\ Video(v)!ClearedAfterTheEnd
  <2>1. /\ ~Video(v)!Running(r) /\ status' = [status EXCEPT ![r].fresh = FALSE]
        /\ UNCHANGED <<record, stop, unasked, rt, pc, copy, mine>>
    BY <1>3 DEF Video!Age, Video!recorders, Video!commands, OneCommand
  <2>2. /\ \A q \in v.recs : status'[q].state = status[q].state
        /\ \A q \in v.recs : q # r => status'[q] = status[q]
        /\ rt[r] \notin {"recording", "stopping", "failing"}
    BY <2>1 DEF VideoInv, RecorderShape, VideoStatus, Video!Running, Video!Capturing
  <2>3. RecorderTells(v)'
    BY <2>1, <2>2 DEF KnownInv, RecorderTells
  <2>. QED BY <2>1, <2>3 DEF KnownInv, CommandTells, RecordersKnown, Held,
           Video!Running, Video!Capturing, Video!ClearedAfterTheEnd
<1>4. ASSUME NEW r \in v.recs,
             \/ Video(v)!Runtime(r) \/ Video(v)!CaptureFrame(r)
             \/ Video(v)!Interrupted(r) \/ Video(v)!RuntimeKilled(r)
      PROVE  KnownInv(v)' /\ Video(v)!ClearedAfterTheEnd
  <2>1. record' = record
    BY <1>4 DEF Video!Runtime, Video!CaptureFrame, Video!Interrupted,
       Video!RuntimeKilled, Video!RuntimeStarts, Video!RecorderStarts,
       Video!RuntimeCannotStart, Video!PublishRecording, Video!Heartbeat,
       Video!SeesStop, Video!SeesNoChrome, Video!PublishStopped, Video!PublishFailed,
       Video!files
  <2>. QED BY <1>4, <2>1, RecordersTell DEF Video!ClearedAfterTheEnd
<1>5. ASSUME NEW c \in v.clients,
             Video(v)!Open(c) \/ Video(v)!Command(c) \/ Video(v)!Killed(c)
      PROVE  KnownInv(v)' /\ Video(v)!ClearedAfterTheEnd
  BY <1>5, CommandsTell DEF Video!ClearedAfterTheEnd
<1>. QED BY <1>2, <1>3, <1>4, <1>5 DEF Video!Next

LEMMA KnownInvMeans ==
    ASSUME NEW v, KnownInv(v)
    PROVE  Video(v)!RecorderIsKnown
BY DEF KnownInv, RecordersKnown, Held, Starting, Video!RecorderIsKnown

\* Where commands come one at a time, keep their deadlines and are not killed,
\* though any file may fail to be written: every recorder at work can be stopped,
\* and no record of one is cleared, unless the stop file of that recorder could
\* not be written (videoStartCmd, videoStopCmd, stopFailedVideoRuntime).
THEOREM RecordersStayKnown ==
    ASSUME NEW CONSTANT v, Video(v)!VideoAssumption, OneCommand(v)
    PROVE  Video(v)!Spec => /\ []Video(v)!RecorderIsKnown
                            /\ [][Video(v)!ClearedAfterTheEnd]_(Video(v)!vars)
<1>. DEFINE I == VideoInv(v) /\ KnownInv(v)
<1>1. Video(v)!Init => I
  BY VideoInit, KnownInit
<1>2. I /\ [Video(v)!Next]_(Video(v)!vars) => I'
  BY VideoKeeps, KnownKeeps
<1>3. I /\ [Video(v)!Next]_(Video(v)!vars)
        => [Video(v)!ClearedAfterTheEnd]_(Video(v)!vars)
  BY VideoKeeps, KnownKeeps
<1>4. I => Video(v)!RecorderIsKnown
  BY KnownInvMeans
<1>. QED BY <1>1, <1>2, <1>3, <1>4, PTL DEF Video!Spec
----------------------------------------------------------------------------
\* The recordings of the run of the sessions, and its steps.
RecordingInv ==
    /\ part = "video"  => VideoInv(Recordings) /\ KnownInv(Recordings)
    /\ part = "videos" => VideoInv(Shared)

LEMMA RecordingInstance == OneCommand(Recordings)
BY DEF OneCommand, Recordings

LEMMA RecordingInit == Init => RecordingInv
BY SessionAssumption, RecordingInstance, VideoInit, KnownInit
   DEF SessionAssumption, Init, RecordingInv

LEMMA RecordingKeeps == RecordingInv /\ [Next]_vars => RecordingInv'
<1>. SUFFICES ASSUME RecordingInv, [Next]_vars PROVE RecordingInv'
  OBVIOUS
<1>. USE SessionAssumption, RecordingInstance DEF SessionAssumption
<1>1. ASSUME NEW v, Video(v)!VideoAssumption, VideoInv(v),
             UNCHANGED vars \/ Video(v)!Next
      PROVE  VideoInv(v)' /\ (OneCommand(v) /\ KnownInv(v) => KnownInv(v)')
  <2>1. [Video(v)!Next]_(Video(v)!vars)
    BY <1>1 DEF vars, Video!vars, Video!files, Video!recorders, Video!commands
  <2>. QED BY <1>1, <2>1, VideoKeeps, KnownKeeps
<1>2. CASE UNCHANGED vars
  <2>1. UNCHANGED part
    BY <1>2 DEF vars
  <2>. QED BY <1>1, <1>2, <2>1 DEF RecordingInv
<1>3. CASE part = "video" /\ UNCHANGED part /\ Video(Recordings)!Next
  BY <1>1, <1>3 DEF RecordingInv
<1>4. CASE part = "videos" /\ UNCHANGED part /\ Video(Shared)!Next
  BY <1>1, <1>4 DEF RecordingInv
<1>5. CASE part \notin {"video", "videos"} /\ UNCHANGED part
  BY <1>5 DEF RecordingInv
<1>. QED BY <1>2, <1>3, <1>4, <1>5 DEF Next, Step

\* Every step of this run is as it should be: a command is given a context that
\* lived when Chrome was asked, a start does not abort on the lock of a Chrome
\* that was dead already if no other process has its PID, and a record is cleared
\* only when its recorder has ended or could not be asked to (AcquireContext,
\* clearStaleProfileLock, videoStopCmd).
THEOREM SessionStepsAreRight == Spec => SessionSteps
<1>. DEFINE I == SharedInv /\ RecordingInv
            A ==
       /\ part = "contexts"     => Context(AtOnce)!NeverGivenDead
       /\ part = "profileStops" => Profile(Purges)!NeverAbortsOnDead
       /\ part = "video"        => Video(Recordings)!ClearedAfterTheEnd
<1>1. Init => I
  BY SharedInit, RecordingInit
<1>2. I /\ [Next]_vars => I'
  BY SharedKeeps, RecordingKeeps
<1>3. I /\ [Next]_vars => [A]_vars
  <2>. SUFFICES ASSUME I, Next PROVE A
    OBVIOUS
  <2>. USE SessionAssumption DEF SessionAssumption
  <2>1. ASSUME part = "contexts"
        PROVE  Context(AtOnce)!NeverGivenDead
    <3>1. Context(AtOnce)!Next
      BY <2>1 DEF Next, Step
    <3>. QED BY <2>1, <3>1, GivenLives DEF SharedInv
  <2>2. ASSUME part = "profileStops"
        PROVE  Profile(Purges)!NeverAbortsOnDead
    BY <2>2, DeadLocksPass DEF SharedInv
  <2>3. ASSUME part = "video"
        PROVE  Video(Recordings)!ClearedAfterTheEnd
    <3>1. Video(Recordings)!Next
      BY <2>3 DEF Next, Step
    <3>. QED BY <2>3, <3>1, VideoKeeps, KnownKeeps, RecordingInstance DEF RecordingInv
  <2>. QED BY <2>1, <2>2, <2>3
<1>4. Spec => [][A]_vars
  BY <1>1, <1>2, <1>3, PTL DEF Spec
<1>. QED BY <1>4 DEF SessionSteps
----------------------------------------------------------------------------
\* The opening of a page. The types of what it keeps.
OpenNames == {"default", "work"}
OpenPlaces ==
    {"idle", "settings", "session", "default", "attached", "acquire", "spawning",
     "own", "launch", "up", "killed", "open", "page", "apply", "work", "over"}
OpenFields ==
    {"at", "session", "connect", "name", "whose", "managed", "foreign", "own",
     "fresh", "holds", "tries", "stack", "ended"}
IsProc(p) ==
    /\ DOMAIN p = OpenFields /\ p.at \in OpenPlaces
    /\ p.session \in OpenNames \union {"none"} /\ p.name \in OpenNames \union {"none"}
    /\ p.holds \subseteq {"chrome", "tab"} /\ p.tries \in 0..4
OpenShape(v) ==
    /\ reg \in [OpenNames -> {"none", "spawned", "attached"}]
    /\ DOMAIN profile = OpenNames
    /\ lock \in 0..2 /\ leased \subseteq OpenNames /\ changes \in 0..v.changes
    /\ DOMAIN proc = 1..2 /\ IsProc(proc[1]) /\ IsProc(proc[2])

\* A serve goes no other way than to a Chrome of its own.
ServeWay ==
    /\ proc[2].managed = FALSE
    /\ proc[2].at \in {"idle", "settings", "session", "default", "acquire", "own",
                       "launch", "up", "killed"}

\* A command that is in the Chrome of a session is in that of the session it is
\* to use, whose lease it touches when it begins to work, or has touched already.
Early == {"settings", "session", "default", "acquire", "spawning"}
LeaseFor(p, l) ==
    /\ p.at \in Early => p.connect # "session"
    /\ p.connect = "session" =>
          \/ p.name \in l
          \/ p.at # "work" /\ p.session # "none" /\ p.name = p.session
    /\ p.at = "spawning" => p.session # "none"
    /\ p.at \notin {"idle", "launch", "up", "killed"}
LeaseWay == LeaseFor(proc[1], leased)

OpenInv(v) == OpenShape(v) /\ ServeWay /\ LeaseWay

\* Nobody else is at the registry: the user's Chrome is known for what it is.
TabFor(p, e) ==
    p.whose = "user" =>
        /\ p.at \in Early => p.connect \in {"auto", "user", "file"}
        /\ p.at = "attached" => e["default"] = "attached"
        /\ p.at = "own" =>
              \/ p.connect = "auto" \/ p.foreign
              \/ p.session # "none" /\ e[p.session] = "attached"
        /\ p.at \in {"open", "page", "apply", "work"} => p.own \/ p.fresh
ForeignFor(p) ==
    /\ p.at \in {"default", "acquire"} /\ p.connect \in {"user", "file"} => p.foreign
    /\ p.at = "spawning" => p.connect = "none"
TabWay == TabFor(proc[1], reg) /\ ForeignFor(proc[1])

\* A command that is no ai loop lets go of what it holds by its cleanup stack.
HoldFor(p) == IF p.at \in {"page", "apply", "work"} THEN p.stack ELSE p.holds = {}
HoldWay == given.kind = "command" /\ HoldFor(proc[1])

\* What the steps make of a process, and what they leave of it.
Else(q, p, F) == DOMAIN q = OpenFields /\ \A f \in OpenFields \ F : q[f] = p[f]
Turned(p, a) == [p EXCEPT !.at = a]
Named(p, a, s) == [p EXCEPT !.at = a, !.session = s]
Seen(p, a, s, b) == [p EXCEPT !.at = a, !.session = s, !.foreign = b]
Found(p, a, b) == [p EXCEPT !.at = a, !.foreign = b]
Working(p, a, b, c) == [p EXCEPT !.at = a, !.own = b, !.fresh = c]
Taking(p, n, w) ==
    [p EXCEPT !.connect = "session", !.name = n, !.managed = TRUE, !.whose = w]
Holding(p, a, h) == [p EXCEPT !.at = a, !.holds = h]
Opened(p, a, h, s) == [p EXCEPT !.at = a, !.holds = h, !.stack = s]
Tried(p, t) == [p EXCEPT !.tries = t]
Over(p, a, e, h) == [p EXCEPT !.at = a, !.ended = e, !.holds = h]
Left(p, a, e) == [p EXCEPT !.at = a, !.ended = e]

LEMMA TurnedIs ==
    ASSUME NEW p, DOMAIN p = OpenFields, NEW a
    PROVE  LET q == Turned(p, a)
           IN  /\ q.at = a
               /\ Else(q, p, {"at"})
<1>. DEFINE q == Turned(p, a)
<1>1. q.at = a /\ DOMAIN q = OpenFields
  BY DEF Turned, OpenFields
<1>2. ASSUME NEW f \in OpenFields \ {"at"}
      PROVE  q[f] = p[f]
  BY <1>2 DEF Turned, OpenFields
<1>. QED BY <1>1, <1>2 DEF Else

LEMMA NamedIs ==
    ASSUME NEW p, DOMAIN p = OpenFields, NEW a, NEW s
    PROVE  LET q == Named(p, a, s)
           IN  /\ q.at = a /\ q.session = s
               /\ Else(q, p, {"at", "session"})
<1>. DEFINE q == Named(p, a, s)
<1>1. q.at = a /\ q.session = s /\ DOMAIN q = OpenFields
  BY DEF Named, OpenFields
<1>2. ASSUME NEW f \in OpenFields \ {"at", "session"}
      PROVE  q[f] = p[f]
  BY <1>2 DEF Named, OpenFields
<1>. QED BY <1>1, <1>2 DEF Else

LEMMA SeenIs ==
    ASSUME NEW p, DOMAIN p = OpenFields, NEW a, NEW s, NEW b
    PROVE  LET q == Seen(p, a, s, b)
           IN  /\ q.at = a /\ q.session = s /\ q.foreign = b
               /\ Else(q, p, {"at", "session", "foreign"})
<1>. DEFINE q == Seen(p, a, s, b)
<1>1. q.at = a /\ q.session = s /\ q.foreign = b /\ DOMAIN q = OpenFields
  BY DEF Seen, OpenFields
<1>2. ASSUME NEW f \in OpenFields \ {"at", "session", "foreign"}
      PROVE  q[f] = p[f]
  BY <1>2 DEF Seen, OpenFields
<1>. QED BY <1>1, <1>2 DEF Else

LEMMA FoundIs ==
    ASSUME NEW p, DOMAIN p = OpenFields, NEW a, NEW b
    PROVE  LET q == Found(p, a, b)
           IN  /\ q.at = a /\ q.foreign = b
               /\ Else(q, p, {"at", "foreign"})
<1>. DEFINE q == Found(p, a, b)
<1>1. q.at = a /\ q.foreign = b /\ DOMAIN q = OpenFields
  BY DEF Found, OpenFields
<1>2. ASSUME NEW f \in OpenFields \ {"at", "foreign"}
      PROVE  q[f] = p[f]
  BY <1>2 DEF Found, OpenFields
<1>. QED BY <1>1, <1>2 DEF Else

LEMMA WorkingIs ==
    ASSUME NEW p, DOMAIN p = OpenFields, NEW a, NEW b, NEW c
    PROVE  LET q == Working(p, a, b, c)
           IN  /\ q.at = a /\ q.own = b /\ q.fresh = c
               /\ Else(q, p, {"at", "own", "fresh"})
<1>. DEFINE q == Working(p, a, b, c)
<1>1. q.at = a /\ q.own = b /\ q.fresh = c /\ DOMAIN q = OpenFields
  BY DEF Working, OpenFields
<1>2. ASSUME NEW f \in OpenFields \ {"at", "own", "fresh"}
      PROVE  q[f] = p[f]
  BY <1>2 DEF Working, OpenFields
<1>. QED BY <1>1, <1>2 DEF Else

LEMMA TakingIs ==
    ASSUME NEW p, DOMAIN p = OpenFields, NEW n, NEW w
    PROVE  LET q == Taking(p, n, w)
           IN  /\ q.connect = "session" /\ q.name = n /\ q.whose = w
               /\ Else(q, p, {"connect", "name", "managed", "whose"})
<1>. DEFINE q == Taking(p, n, w)
<1>1. q.connect = "session" /\ q.name = n /\ q.whose = w /\ DOMAIN q = OpenFields
  BY DEF Taking, OpenFields
<1>2. ASSUME NEW f \in OpenFields \ {"connect", "name", "managed", "whose"}
      PROVE  q[f] = p[f]
  BY <1>2 DEF Taking, OpenFields
<1>. QED BY <1>1, <1>2 DEF Else

LEMMA HoldingIs ==
    ASSUME NEW p, DOMAIN p = OpenFields, NEW a, NEW h
    PROVE  LET q == Holding(p, a, h)
           IN  /\ q.at = a /\ q.holds = h
               /\ Else(q, p, {"at", "holds"})
<1>. DEFINE q == Holding(p, a, h)
<1>1. q.at = a /\ q.holds = h /\ DOMAIN q = OpenFields
  BY DEF Holding, OpenFields
<1>2. ASSUME NEW f \in OpenFields \ {"at", "holds"}
      PROVE  q[f] = p[f]
  BY <1>2 DEF Holding, OpenFields
<1>. QED BY <1>1, <1>2 DEF Else

LEMMA OpenedIs ==
    ASSUME NEW p, DOMAIN p = OpenFields, NEW a, NEW h, NEW s
    PROVE  LET q == Opened(p, a, h, s)
           IN  /\ q.at = a /\ q.holds = h /\ q.stack = s
               /\ Else(q, p, {"at", "holds", "stack"})
<1>. DEFINE q == Opened(p, a, h, s)
<1>1. q.at = a /\ q.holds = h /\ q.stack = s /\ DOMAIN q = OpenFields
  BY DEF Opened, OpenFields
<1>2. ASSUME NEW f \in OpenFields \ {"at", "holds", "stack"}
      PROVE  q[f] = p[f]
  BY <1>2 DEF Opened, OpenFields
<1>. QED BY <1>1, <1>2 DEF Else

LEMMA TriedIs ==
    ASSUME NEW p, DOMAIN p = OpenFields, NEW t
    PROVE  LET q == Tried(p, t)
           IN  /\ q.tries = t
               /\ Else(q, p, {"tries"})
<1>. DEFINE q == Tried(p, t)
<1>1. q.tries = t /\ DOMAIN q = OpenFields
  BY DEF Tried, OpenFields
<1>2. ASSUME NEW f \in OpenFields \ {"tries"}
      PROVE  q[f] = p[f]
  BY <1>2 DEF Tried, OpenFields
<1>. QED BY <1>1, <1>2 DEF Else

LEMMA OverIs ==
    ASSUME NEW p, DOMAIN p = OpenFields, NEW a, NEW e, NEW h
    PROVE  LET q == Over(p, a, e, h)
           IN  /\ q.at = a /\ q.ended = e /\ q.holds = h
               /\ Else(q, p, {"at", "ended", "holds"})
<1>. DEFINE q == Over(p, a, e, h)
<1>1. q.at = a /\ q.ended = e /\ q.holds = h /\ DOMAIN q = OpenFields
  BY DEF Over, OpenFields
<1>2. ASSUME NEW f \in OpenFields \ {"at", "ended", "holds"}
      PROVE  q[f] = p[f]
  BY <1>2 DEF Over, OpenFields
<1>. QED BY <1>1, <1>2 DEF Else

LEMMA LeftIs ==
    ASSUME NEW p, DOMAIN p = OpenFields, NEW a, NEW e
    PROVE  LET q == Left(p, a, e)
           IN  /\ q.at = a /\ q.ended = e
               /\ Else(q, p, {"at", "ended"})
<1>. DEFINE q == Left(p, a, e)
<1>1. q.at = a /\ q.ended = e /\ DOMAIN q = OpenFields
  BY DEF Left, OpenFields
<1>2. ASSUME NEW f \in OpenFields \ {"at", "ended"}
      PROVE  q[f] = p[f]
  BY <1>2 DEF Left, OpenFields
<1>. QED BY <1>1, <1>2 DEF Else

LEMMA BeginsIs ==
    ASSUME NEW v, NEW c, NEW s
    PROVE  LET q == Opens(v)!Begins(s, c)
           IN  /\ DOMAIN q = OpenFields /\ q.at = "settings" /\ q.session = s
               /\ q.connect = c /\ q.whose = Opens(v)!WhoseConnect(c)
               /\ q.name = "none" /\ q.holds = {} /\ q.tries = 0
BY DEF Opens!Begins, Opens!Fresh, OpenFields

LEMMA FreshIs ==
    ASSUME NEW v
    PROVE  LET f == Opens(v)!Fresh
           IN  /\ DOMAIN f = OpenFields /\ f.at = "idle" /\ f.session = "none"
               /\ f.name = "none" /\ f.holds = {} /\ f.tries = 0 /\ f.managed = FALSE
BY DEF Opens!Fresh, OpenFields

LEMMA IsProcIf ==
    ASSUME NEW q, DOMAIN q = OpenFields, q.at \in OpenPlaces,
           q.session \in OpenNames \union {"none"}, q.name \in OpenNames \union {"none"},
           q.holds \subseteq {"chrome", "tab"}, q.tries \in 0..4
    PROVE  IsProc(q)
BY DEF IsProc

LEMMA ZeroUpTo == ASSUME NEW n \in Nat PROVE 0 \in 0..n /\ 0 \in 0..4 /\ 0 \in 0..2
OBVIOUS

LEMMA OpenInit ==
    ASSUME NEW v, Opens(v)!OpenPageAssumption, Opens(v)!Init
    PROVE  /\ OpenInv(v) /\ TabWay
           /\ v.kinds \subseteq {"command"} => HoldWay
<1>1. given.kind \in v.kinds
  BY DEF Opens!Init
<1>2. PICK c \in v.connects, s \in {"none", "work"} :
        /\ proc[1] = Opens(v)!Begins(s, c) /\ proc[2] = Opens(v)!Fresh
        /\ DOMAIN proc = 1..2
  BY DEF Opens!Init
<1>3. /\ DOMAIN proc[2] = OpenFields /\ proc[2].at = "idle" /\ proc[2].session = "none"
      /\ proc[2].name = "none" /\ proc[2].holds = {} /\ proc[2].tries = 0
      /\ proc[2].managed = FALSE
  BY <1>2, FreshIs
<1>4. /\ DOMAIN proc[1] = OpenFields /\ proc[1].at = "settings" /\ proc[1].session = s
      /\ proc[1].connect = c /\ proc[1].whose = Opens(v)!WhoseConnect(c)
      /\ proc[1].name = "none" /\ proc[1].holds = {} /\ proc[1].tries = 0
  BY <1>2, BeginsIs
<1>5. c \in {"none", "auto", "user", "file"} /\ v.changes \in Nat
  BY DEF Opens!OpenPageAssumption, Opens!AllConnects
<1>6. IsProc(proc[1]) /\ IsProc(proc[2])
  BY <1>3, <1>4, ZeroUpTo, IsProcIf DEF OpenPlaces, OpenNames
<1>7. OpenShape(v)
  <2>1. /\ reg \in [OpenNames -> {"none", "spawned", "attached"}]
        /\ DOMAIN profile = OpenNames /\ lock = 0 /\ leased = {} /\ changes = 0
    BY DEF Opens!Init, Opens!Names, OpenNames
  <2>. QED BY <1>2, <1>5, <1>6, <2>1, ZeroUpTo DEF OpenShape
<1>8. ServeWay /\ LeaseWay /\ TabWay
  BY <1>3, <1>4, <1>5 DEF ServeWay, LeaseWay, LeaseFor, TabWay, TabFor, ForeignFor, Early,
     Opens!WhoseConnect
<1>9. v.kinds \subseteq {"command"} => HoldWay
  BY <1>1, <1>4 DEF HoldWay, HoldFor
<1>. QED BY <1>7, <1>8, <1>9 DEF OpenInv

\* A process becomes another one, and the rest stays.
LEMMA PutIs ==
    ASSUME NEW v, OpenShape(v), NEW i \in 1..2, NEW p, Opens(v)!Put(i, p)
    PROVE  /\ DOMAIN proc' = 1..2 /\ proc'[i] = p /\ DOMAIN proc[i] = OpenFields
           /\ \A j \in 1..2 : j # i => proc'[j] = proc[j]
BY DEF OpenShape, IsProc, Opens!Put

\* The steps that settle which session a process uses.
LEMMA SettleIs ==
    ASSUME NEW v, NEW i \in 1..2, Opens(v)!Settle(i)
    PROVE  \E s \in {"work", proc[i].session} :
              Opens(v)!Put(i, Named(proc[i], "session", s))
<1>. DEFINE s == IF /\ proc[i].session = "none" /\ given.variable = "playwright"
                    /\ Opens(v)!VariableSeen(i) THEN "work" ELSE proc[i].session
<1>1. Opens(v)!Put(i, Named(proc[i], "session", s))
  BY DEF Opens!Settle, Opens!Put, Named
<1>2. s \in {"work", proc[i].session}
  OBVIOUS
<1>. HIDE DEF s
<1>. QED BY <1>1, <1>2

LEMMA EnvSessionIs ==
    ASSUME NEW v, NEW i \in 1..2, Opens(v)!EnvSession(i)
    PROVE  \E s, f :
              /\ s \in {"work", proc[i].session}
              /\ f = (proc[i].connect \in {"user", "file"})
              /\ Opens(v)!Put(i, Seen(proc[i], "default", s, f))
<1>. DEFINE s == IF /\ proc[i].session = "none" /\ ~Opens(v)!Skips(i)
                    /\ given.variable # "none" /\ Opens(v)!VariableSeen(i)
                 THEN "work" ELSE proc[i].session
            f == proc[i].connect \in {"user", "file"}
<1>1. Opens(v)!Put(i, Seen(proc[i], "default", s, f))
  BY DEF Opens!EnvSession, Opens!Put, Seen
<1>2. s \in {"work", proc[i].session}
  OBVIOUS
<1>. HIDE DEF s, f
<1>3. f = (proc[i].connect \in {"user", "file"})
  BY DEF f
<1>. QED BY <1>1, <1>2, <1>3

LEMMA DefaultSessionIs ==
    ASSUME NEW v, NEW i \in 1..2, Opens(v)!DefaultSession(i)
    PROVE  \/ /\ proc[i].connect = "none" /\ reg["default"] # "none"
              /\ ~Opens(v)!Skips(i)
              /\ leased' = leased \union {"default"}
              /\ \E w :
                    /\ w = IF reg["default"] = "attached" THEN "user" ELSE "ours"
                    /\ Opens(v)!Put(i, Turned(Taking(proc[i], "default", w),
                                              "attached"))
           \/ /\ leased' = leased
              /\ \E s \in {"default", proc[i].session} :
                    Opens(v)!Put(i, Named(proc[i], "acquire", s))
<1>. DEFINE A == /\ proc[i].session = "none" /\ proc[i].connect = "none"
                 /\ ~Opens(v)!Skips(i) /\ reg["default"] # "none"
<1>1. CASE A
  <2>. DEFINE w == IF reg["default"] = "attached" THEN "user" ELSE "ours"
  <2>1. Opens(v)!Put(i, Turned(Taking(proc[i], "default", w), "attached"))
    BY <1>1 DEF Opens!DefaultSession, Opens!Put, Opens!Taken, Turned, Taking
  <2>2. leased' = leased \union {"default"}
    BY <1>1 DEF Opens!DefaultSession
  <2>. QED BY <1>1, <2>1, <2>2
<1>2. CASE ~A
  <2>. DEFINE s == IF /\ proc[i].session = "none" /\ proc[i].connect = "none"
                      /\ ~Opens(v)!Skips(i) /\ given.daemon
                   THEN "default" ELSE proc[i].session
  <2>1. Opens(v)!Put(i, Named(proc[i], "acquire", s)) /\ leased' = leased
    BY <1>2 DEF Opens!DefaultSession, Opens!Put, Named
  <2>2. s \in {"default", proc[i].session}
    OBVIOUS
  <2>. HIDE DEF s
  <2>. QED BY <2>1, <2>2
<1>. QED BY <1>1, <1>2

LEMMA OwnIs ==
    ASSUME NEW v, NEW i \in 1..2, Opens(v)!Own(i)
    PROVE  \E b, c :
              /\ Opens(v)!OwnTab(i) \/ proc[i].connect = "auto" => b \/ c
              /\ Opens(v)!Put(i, Working(proc[i], IF i = 2 THEN "launch" ELSE "open", b, c))
<1>. DEFINE loop == given.kind = "ai" /\ ~Opens(v)!Serve(i)
            b == Opens(v)!OwnTab(i) /\ ~loop
            c == proc[i].connect = "auto" \/ (loop /\ Opens(v)!OwnTab(i))
<1>1. Opens(v)!Put(i, Working(proc[i], IF i = 2 THEN "launch" ELSE "open", b, c))
  BY DEF Opens!Own, Opens!Put, Working, Opens!Serve
<1>2. Opens(v)!OwnTab(i) \/ proc[i].connect = "auto" => b \/ c
  OBVIOUS
<1>. HIDE DEF b, c
<1>. QED BY <1>1, <1>2

\* The way of a serve.
LEMMA ServeSteps ==
    ASSUME NEW v, OpenInv(v), Opens(v)!Step(2)
    PROVE  /\ OpenInv(v)' /\ UNCHANGED <<given, reg, lock, profile, changes, leased>>
           /\ proc'[1] = proc[1]
<1>. DEFINE p == proc[2]
            q == proc'[2]
<1>0. /\ OpenShape(v) /\ IsProc(p) /\ DOMAIN p = OpenFields /\ p.managed = FALSE
      /\ p.at \in {"idle", "settings", "session", "default", "acquire", "own",
                   "launch", "up", "killed"}
      /\ 2 \in 1..2 /\ 1 \in 1..2 /\ 1 # 2
  BY DEF OpenInv, OpenShape, ServeWay, IsProc
<1>1. ASSUME NEW r, Opens(v)!Put(2, r)
      PROVE  DOMAIN proc' = 1..2 /\ q = r /\ proc'[1] = proc[1]
  BY <1>0, <1>1, PutIs
<1>2. ASSUME NEW r, Opens(v)!Put(2, r), DOMAIN r = OpenFields, r.managed = p.managed,
             r.at \in {"session", "default", "acquire", "own", "launch", "up"},
             r.session \in OpenNames \union {"none"}, r.name = p.name,
             r.holds \in {p.holds, {"chrome"}}, r.tries = p.tries,
             UNCHANGED <<given, reg, lock, profile, leased, changes>>
      PROVE  OpenInv(v)' /\ proc'[1] = proc[1]
  <2>1. DOMAIN proc' = 1..2 /\ q = r /\ proc'[1] = proc[1]
    BY <1>1, <1>2
  <2>2. IsProc(r)
    BY <1>0, <1>2 DEF IsProc, OpenPlaces
  <2>3. OpenShape(v)'
    BY <1>0, <1>2, <2>1, <2>2 DEF OpenShape
  <2>4. ServeWay'
    BY <1>0, <1>2, <2>1 DEF ServeWay
  <2>5. LeaseWay'
    BY <1>2, <2>1 DEF OpenInv, LeaseWay
  <2>. QED BY <2>1, <2>3, <2>4, <2>5 DEF OpenInv
<1>3. \/ Opens(v)!Settle(2) \/ Opens(v)!EnvSession(2) \/ Opens(v)!DefaultSession(2)
      \/ Opens(v)!NoSession(2) \/ Opens(v)!Own(2) \/ Opens(v)!Launch(2)
  BY <1>0 DEF Opens!Step, Opens!Here, Opens!Serve, Opens!Skips, Opens!DefaultAttached,
     Opens!Reuse, Opens!Spawn, Opens!SpawnUp, Opens!SpawnFails, Opens!Open, Opens!Page,
     Opens!Apply, Opens!Work, Opens!Wants
<1>4. UNCHANGED <<given, reg, lock, profile, changes, leased>>
  BY <1>3, DefaultSessionIs DEF Opens!Settle, Opens!EnvSession, Opens!DefaultSession,
     Opens!NoSession, Opens!Own, Opens!Launch, Opens!Skips, Opens!Serve
<1>5. p.session \in OpenNames \union {"none"} /\ {"work", "default"} \subseteq OpenNames
  BY <1>0 DEF IsProc, OpenNames
<1>6. CASE Opens(v)!Settle(2)
  <2>1. PICK s \in {"work", p.session} : Opens(v)!Put(2, Named(p, "session", s))
    BY <1>0, <1>6, SettleIs
  <2>. DEFINE r == Named(p, "session", s)
  <2>2. r.at = "session" /\ r.session = s /\ Else(r, p, {"at", "session"})
    BY <1>0, NamedIs
  <2>. HIDE DEF r
  <2>3. /\ DOMAIN r = OpenFields /\ r.managed = p.managed /\ r.name = p.name
        /\ r.holds = p.holds /\ r.tries = p.tries
    BY <2>2 DEF Else, OpenFields
  <2>4. Opens(v)!Put(2, r)
    BY <2>1 DEF r
  <2>. QED BY <1>2, <1>4, <1>5, <2>2, <2>3, <2>4
<1>7. CASE Opens(v)!EnvSession(2)
  <2>1. PICK s, f : s \in {"work", p.session} /\ Opens(v)!Put(2, Seen(p, "default", s, f))
    BY <1>0, <1>7, EnvSessionIs
  <2>. DEFINE r == Seen(p, "default", s, f)
  <2>2. r.at = "default" /\ r.session = s /\ Else(r, p, {"at", "session", "foreign"})
    BY <1>0, SeenIs
  <2>. HIDE DEF r
  <2>3. /\ DOMAIN r = OpenFields /\ r.managed = p.managed /\ r.name = p.name
        /\ r.holds = p.holds /\ r.tries = p.tries
    BY <2>2 DEF Else, OpenFields
  <2>4. Opens(v)!Put(2, r)
    BY <2>1 DEF r
  <2>. QED BY <1>2, <1>4, <1>5, <2>1, <2>2, <2>3, <2>4
<1>8. CASE Opens(v)!DefaultSession(2)
  <2>1. PICK s \in {"default", p.session} : Opens(v)!Put(2, Named(p, "acquire", s))
    BY <1>0, <1>8, DefaultSessionIs DEF Opens!Skips, Opens!Serve
  <2>. DEFINE r == Named(p, "acquire", s)
  <2>2. r.at = "acquire" /\ r.session = s /\ Else(r, p, {"at", "session"})
    BY <1>0, NamedIs
  <2>. HIDE DEF r
  <2>3. /\ DOMAIN r = OpenFields /\ r.managed = p.managed /\ r.name = p.name
        /\ r.holds = p.holds /\ r.tries = p.tries
    BY <2>2 DEF Else, OpenFields
  <2>4. Opens(v)!Put(2, r)
    BY <2>1 DEF r
  <2>. QED BY <1>2, <1>4, <1>5, <2>2, <2>3, <2>4
<1>9. CASE Opens(v)!NoSession(2)
  <2>1. Opens(v)!Put(2, Turned(p, "own"))
    BY <1>9 DEF Opens!NoSession, Turned
  <2>. DEFINE r == Turned(p, "own")
  <2>2. r.at = "own" /\ Else(r, p, {"at"})
    BY <1>0, TurnedIs
  <2>. HIDE DEF r
  <2>3. /\ DOMAIN r = OpenFields /\ r.managed = p.managed /\ r.name = p.name
        /\ r.holds = p.holds /\ r.tries = p.tries /\ r.session = p.session
    BY <2>2 DEF Else, OpenFields
  <2>4. Opens(v)!Put(2, r)
    BY <2>1 DEF r
  <2>. QED BY <1>2, <1>4, <1>5, <2>2, <2>3, <2>4
<1>10. CASE Opens(v)!Own(2)
  <2>1. PICK b, c : Opens(v)!Put(2, Working(p, "launch", b, c))
    BY <1>0, <1>10, OwnIs
  <2>. DEFINE r == Working(p, "launch", b, c)
  <2>2. r.at = "launch" /\ Else(r, p, {"at", "own", "fresh"})
    BY <1>0, WorkingIs
  <2>. HIDE DEF r
  <2>3. /\ DOMAIN r = OpenFields /\ r.managed = p.managed /\ r.name = p.name
        /\ r.holds = p.holds /\ r.tries = p.tries /\ r.session = p.session
    BY <2>2 DEF Else, OpenFields
  <2>4. Opens(v)!Put(2, r)
    BY <2>1 DEF r
  <2>. QED BY <1>2, <1>4, <1>5, <2>2, <2>3, <2>4
<1>11. CASE Opens(v)!Launch(2)
  <2>1. Opens(v)!Put(2, Holding(p, "up", {"chrome"}))
    BY <1>11 DEF Opens!Launch, Holding
  <2>. DEFINE r == Holding(p, "up", {"chrome"})
  <2>2. r.at = "up" /\ r.holds = {"chrome"} /\ Else(r, p, {"at", "holds"})
    BY <1>0, HoldingIs
  <2>. HIDE DEF r
  <2>3. /\ DOMAIN r = OpenFields /\ r.managed = p.managed /\ r.name = p.name
        /\ r.tries = p.tries /\ r.session = p.session
    BY <2>2 DEF Else, OpenFields
  <2>4. Opens(v)!Put(2, r)
    BY <2>1 DEF r
  <2>. QED BY <1>2, <1>4, <1>5, <2>2, <2>3, <2>4
<1>. QED BY <1>3, <1>4, <1>6, <1>7, <1>8, <1>9, <1>10, <1>11

\* The command becomes r.
LEMMA CommandTurns ==
    ASSUME NEW v, OpenInv(v), NEW r, IsProc(r), DOMAIN proc' = 1..2, proc'[1] = r,
           IsProc(proc'[2]), ServeWay', LeaseFor(r, leased'),
           given' = given, changes' = changes,
           reg' \in [OpenNames -> {"none", "spawned", "attached"}],
           DOMAIN profile' = OpenNames, lock' \in 0..2, leased' \subseteq OpenNames
    PROVE  /\ OpenInv(v)'
           /\ TabFor(r, reg') /\ ForeignFor(r) => TabWay'
           /\ given.kind = "command" /\ HoldFor(r) => HoldWay'
<1>1. OpenShape(v)'
  BY DEF OpenInv, OpenShape
<1>2. LeaseWay'
  BY DEF LeaseWay
<1>3. /\ TabFor(r, reg') /\ ForeignFor(r) => TabWay'
      /\ given.kind = "command" /\ HoldFor(r) => HoldWay'
  BY DEF TabWay, HoldWay
<1>. QED BY <1>1, <1>2, <1>3 DEF OpenInv

\* It becomes r, and the registry and the serve stay.
LEMMA CommandPuts ==
    ASSUME NEW v, OpenInv(v), NEW r, IsProc(r), Opens(v)!Put(1, r),
           LeaseFor(r, leased'), leased' \subseteq OpenNames,
           UNCHANGED <<given, reg, lock, profile, changes>>
    PROVE  /\ OpenInv(v)'
           /\ TabFor(r, reg) /\ ForeignFor(r) => TabWay'
           /\ given.kind = "command" /\ HoldFor(r) => HoldWay'
<1>1. /\ OpenShape(v) /\ 1 \in 1..2 /\ 2 \in 1..2 /\ 1 # 2
      /\ lock \in 0..2 /\ reg \in [OpenNames -> {"none", "spawned", "attached"}]
      /\ DOMAIN profile = OpenNames /\ IsProc(proc[2])
  BY DEF OpenInv, OpenShape
<1>2. DOMAIN proc' = 1..2 /\ proc'[1] = r /\ proc'[2] = proc[2]
  BY <1>1, PutIs
<1>3. IsProc(proc'[2]) /\ ServeWay'
  BY <1>1, <1>2 DEF OpenInv, ServeWay
<1>4. /\ given' = given /\ changes' = changes /\ reg' = reg /\ lock' \in 0..2
      /\ reg' \in [OpenNames -> {"none", "spawned", "attached"}]
      /\ DOMAIN profile' = OpenNames
  BY <1>1
<1>. QED BY <1>2, <1>3, <1>4, CommandTurns

\* The steps of a command up to its Chrome.
LEMMA CommandSettles ==
    ASSUME NEW v, OpenInv(v),
           \/ Opens(v)!Settle(1) \/ Opens(v)!EnvSession(1) \/ Opens(v)!DefaultSession(1)
           \/ Opens(v)!DefaultAttached(1)
    PROVE  OpenInv(v)' /\ (TabWay => TabWay') /\ (HoldWay => HoldWay')
<1>. DEFINE p == proc[1]
<1>0. /\ OpenShape(v) /\ IsProc(p) /\ DOMAIN p = OpenFields /\ 1 \in 1..2 /\ 1 # 2
      /\ p.session \in OpenNames \union {"none"} /\ {"work", "default"} \subseteq OpenNames
      /\ LeaseFor(p, leased) /\ leased \subseteq OpenNames
  BY DEF OpenInv, OpenShape, IsProc, OpenNames, LeaseWay
<1>. HIDE DEF p
<1>1. CASE Opens(v)!Settle(1)
  <2>1. PICK s \in {"work", p.session} : Opens(v)!Put(1, Named(p, "session", s))
    BY <1>0, <1>1, SettleIs DEF p
  <2>. DEFINE r == Named(p, "session", s)
  <2>2. r.at = "session" /\ r.session = s /\ Else(r, p, {"at", "session"})
    BY <1>0, NamedIs
  <2>3. Opens(v)!Put(1, r)
    BY <2>1
  <2>. HIDE DEF r
  <2>4. /\ DOMAIN r = OpenFields /\ r.name = p.name /\ r.holds = p.holds
        /\ r.tries = p.tries /\ r.connect = p.connect /\ r.whose = p.whose
    BY <2>2 DEF Else, OpenFields
  <2>5. p.at = "settings" /\ UNCHANGED <<given, reg, lock, profile, changes, leased>>
    BY <1>1 DEF Opens!Settle, Opens!Here, p
  <2>6. IsProc(r)
    BY <1>0, <2>2, <2>4 DEF IsProc, OpenPlaces
  <2>7. LeaseFor(r, leased')
    BY <1>0, <2>2, <2>4, <2>5 DEF LeaseFor, Early
  <2>8. /\ TabFor(p, reg) /\ ForeignFor(p) => TabFor(r, reg) /\ ForeignFor(r)
        /\ HoldFor(p) => HoldFor(r)
    BY <2>2, <2>4, <2>5 DEF TabFor, ForeignFor, HoldFor, Early
  <2>. QED BY <1>0, <2>3, <2>5, <2>6, <2>7, <2>8, CommandPuts DEF TabWay, HoldWay, p
<1>2. CASE Opens(v)!EnvSession(1)
  <2>1. PICK s, f :
          /\ s \in {"work", p.session}
          /\ f = (p.connect \in {"user", "file"})
          /\ Opens(v)!Put(1, Seen(p, "default", s, f))
    BY <1>0, <1>2, EnvSessionIs DEF p
  <2>. DEFINE r == Seen(p, "default", s, f)
  <2>2. r.at = "default" /\ r.session = s /\ r.foreign = f
        /\ Else(r, p, {"at", "session", "foreign"})
    BY <1>0, SeenIs
  <2>3. Opens(v)!Put(1, r)
    BY <2>1
  <2>. HIDE DEF r
  <2>4. /\ DOMAIN r = OpenFields /\ r.name = p.name /\ r.holds = p.holds
        /\ r.tries = p.tries /\ r.connect = p.connect /\ r.whose = p.whose
    BY <2>2 DEF Else, OpenFields
  <2>5. p.at = "session" /\ UNCHANGED <<given, reg, lock, profile, changes, leased>>
    BY <1>2 DEF Opens!EnvSession, Opens!Here, p
  <2>6. IsProc(r)
    BY <1>0, <2>1, <2>2, <2>4 DEF IsProc, OpenPlaces
  <2>7. LeaseFor(r, leased')
    BY <1>0, <2>2, <2>4, <2>5 DEF LeaseFor, Early
  <2>8. r.connect \in {"user", "file"} => r.foreign
    BY <2>1, <2>2, <2>4
  <2>9. /\ TabFor(p, reg) /\ ForeignFor(p) => TabFor(r, reg) /\ ForeignFor(r)
        /\ HoldFor(p) => HoldFor(r)
    BY <2>2, <2>4, <2>5, <2>8 DEF TabFor, ForeignFor, HoldFor, Early
  <2>. QED BY <1>0, <2>3, <2>5, <2>6, <2>7, <2>9, CommandPuts DEF TabWay, HoldWay, p
<1>3. CASE Opens(v)!DefaultSession(1)
  <2>0. p.at = "default" /\ UNCHANGED <<given, reg, lock, profile, changes>>
    BY <1>3 DEF Opens!DefaultSession, Opens!Here, p
  <2>1. CASE \E w : /\ p.connect = "none" /\ leased' = leased \union {"default"}
                    /\ w = IF reg["default"] = "attached" THEN "user" ELSE "ours"
                    /\ Opens(v)!Put(1, Turned(Taking(p, "default", w),
                                              "attached"))
    <3>1. PICK w : /\ leased' = leased \union {"default"}
                   /\ w = IF reg["default"] = "attached" THEN "user" ELSE "ours"
                   /\ Opens(v)!Put(1, Turned(Taking(p, "default", w),
                                             "attached"))
      BY <2>1
    <3>. DEFINE t == Taking(p, "default", w)
                r == Turned(t, "attached")
    <3>2. /\ t.connect = "session" /\ t.name = "default" /\ t.whose = w
          /\ Else(t, p, {"connect", "name", "managed", "whose"})
      BY <1>0, TakingIs
    <3>3. DOMAIN t = OpenFields
      BY <3>2 DEF Else
    <3>. HIDE DEF t
    <3>4. r.at = "attached" /\ Else(r, t, {"at"})
      BY <3>3, TurnedIs
    <3>5. Opens(v)!Put(1, r)
      BY <3>1 DEF t
    <3>. HIDE DEF r
    <3>6. /\ DOMAIN r = OpenFields /\ r.name = "default" /\ r.holds = p.holds
          /\ r.tries = p.tries /\ r.connect = "session" /\ r.whose = w
          /\ r.session = p.session
      BY <3>2, <3>4 DEF Else, OpenFields
    <3>7. IsProc(r)
      BY <1>0, <3>4, <3>6 DEF IsProc, OpenPlaces
    <3>8. LeaseFor(r, leased') /\ leased' \subseteq OpenNames
      BY <1>0, <3>1, <3>4, <3>6 DEF LeaseFor, Early
    <3>9. TabFor(r, reg) /\ ForeignFor(r) /\ (HoldFor(p) => HoldFor(r))
      BY <2>0, <3>1, <3>4, <3>6 DEF TabFor, ForeignFor, HoldFor, Early
    <3>. QED BY <1>0, <2>0, <3>5, <3>7, <3>8, <3>9, CommandPuts DEF TabWay, HoldWay, p
  <2>2. CASE /\ leased' = leased
             /\ \E s \in {"default", p.session} :
                   Opens(v)!Put(1, Named(p, "acquire", s))
    <3>1. PICK s \in {"default", p.session} : Opens(v)!Put(1, Named(p, "acquire", s))
      BY <2>2
    <3>. DEFINE r == Named(p, "acquire", s)
    <3>2. r.at = "acquire" /\ r.session = s /\ Else(r, p, {"at", "session"})
      BY <1>0, NamedIs
    <3>3. Opens(v)!Put(1, r)
      BY <3>1
    <3>. HIDE DEF r
    <3>4. /\ DOMAIN r = OpenFields /\ r.name = p.name /\ r.holds = p.holds
          /\ r.tries = p.tries /\ r.connect = p.connect /\ r.whose = p.whose
          /\ r.foreign = p.foreign
      BY <3>2 DEF Else, OpenFields
    <3>5. IsProc(r)
      BY <1>0, <3>2, <3>4 DEF IsProc, OpenPlaces
    <3>6. LeaseFor(r, leased')
      BY <1>0, <2>0, <2>2, <3>2, <3>4 DEF LeaseFor, Early
    <3>7. /\ TabFor(p, reg) /\ ForeignFor(p) => TabFor(r, reg) /\ ForeignFor(r)
          /\ HoldFor(p) => HoldFor(r)
      BY <2>0, <3>2, <3>4 DEF TabFor, ForeignFor, HoldFor, Early
    <3>. QED BY <1>0, <2>0, <2>2, <3>3, <3>5, <3>6, <3>7, CommandPuts
             DEF TabWay, HoldWay, p
  <2>. QED BY <1>0, <1>3, <2>1, <2>2, DefaultSessionIs DEF p
<1>4. CASE Opens(v)!DefaultAttached(1)
  <2>1. PICK f : /\ f = (reg["default"] = "attached")
                 /\ Opens(v)!Put(1, Found(p, "own", f))
    BY <1>4 DEF Opens!DefaultAttached, Found, p
  <2>. DEFINE r == Found(p, "own", f)
  <2>2. r.at = "own" /\ r.foreign = f /\ Else(r, p, {"at", "foreign"})
    BY <1>0, FoundIs
  <2>3. Opens(v)!Put(1, r)
    BY <2>1
  <2>. HIDE DEF r
  <2>4. /\ DOMAIN r = OpenFields /\ r.name = p.name /\ r.holds = p.holds
        /\ r.tries = p.tries /\ r.connect = p.connect /\ r.whose = p.whose
        /\ r.session = p.session
    BY <2>2 DEF Else, OpenFields
  <2>5. p.at = "attached" /\ UNCHANGED <<given, reg, lock, profile, changes, leased>>
    BY <1>4 DEF Opens!DefaultAttached, Opens!Here, p
  <2>6. IsProc(r)
    BY <1>0, <2>2, <2>4 DEF IsProc, OpenPlaces
  <2>7. LeaseFor(r, leased')
    BY <1>0, <2>2, <2>4, <2>5 DEF LeaseFor, Early
  <2>8. reg["default"] = "attached" => r.foreign
    BY <2>1, <2>2
  <2>9. /\ TabFor(p, reg) /\ ForeignFor(p) => TabFor(r, reg) /\ ForeignFor(r)
        /\ HoldFor(p) => HoldFor(r)
    BY <2>2, <2>4, <2>5, <2>8 DEF TabFor, ForeignFor, HoldFor, Early
  <2>. QED BY <1>0, <2>3, <2>5, <2>6, <2>7, <2>9, CommandPuts DEF TabWay, HoldWay, p
<1>. QED BY <1>1, <1>2, <1>3, <1>4

\* The steps of a command that takes its Chrome.
LEMMA CommandTakes ==
    ASSUME NEW v, OpenInv(v),
           Opens(v)!NoSession(1) \/ Opens(v)!Reuse(1) \/ Opens(v)!Own(1)
    PROVE  OpenInv(v)' /\ (TabWay => TabWay') /\ (HoldWay => HoldWay')
<1>. DEFINE p == proc[1]
<1>0. /\ OpenShape(v) /\ IsProc(p) /\ DOMAIN p = OpenFields /\ 1 \in 1..2 /\ 1 # 2
      /\ p.session \in OpenNames \union {"none"}
      /\ LeaseFor(p, leased) /\ leased \subseteq OpenNames
      /\ UNCHANGED <<given, reg, lock, profile, leased, changes>>
  BY DEF OpenInv, OpenShape, IsProc, LeaseWay, Opens!NoSession, Opens!Reuse, Opens!Own
<1>. HIDE DEF p
<1>1. CASE Opens(v)!NoSession(1)
  <2>. DEFINE r == Turned(p, "own")
  <2>1. Opens(v)!Put(1, r) /\ p.at = "acquire"
        /\ (p.session = "none" \/ p.connect # "none")
    BY <1>1 DEF Opens!NoSession, Opens!Here, Opens!Wants, Opens!Skips, Opens!Serve, Turned, p
  <2>2. r.at = "own" /\ Else(r, p, {"at"})
    BY <1>0, TurnedIs
  <2>. HIDE DEF r
  <2>4. /\ DOMAIN r = OpenFields /\ r.name = p.name /\ r.holds = p.holds
        /\ r.tries = p.tries /\ r.connect = p.connect /\ r.whose = p.whose
        /\ r.session = p.session /\ r.foreign = p.foreign
    BY <2>2 DEF Else, OpenFields
  <2>6. IsProc(r)
    BY <1>0, <2>2, <2>4 DEF IsProc, OpenPlaces
  <2>7. LeaseFor(r, leased')
    BY <1>0, <2>1, <2>2, <2>4 DEF LeaseFor, Early
  <2>8. /\ TabFor(p, reg) /\ ForeignFor(p) => TabFor(r, reg) /\ ForeignFor(r)
        /\ HoldFor(p) => HoldFor(r)
    BY <2>1, <2>2, <2>4 DEF TabFor, ForeignFor, HoldFor, Early
  <2>. QED BY <1>0, <2>1, <2>6, <2>7, <2>8, CommandPuts DEF TabWay, HoldWay, p
<1>2. CASE Opens(v)!Reuse(1)
  <2>1. PICK w : /\ w = IF reg[p.session] = "attached" THEN "user" ELSE "ours"
                 /\ Opens(v)!Put(1, Turned(Taking(p, p.session, w), "own"))
    BY <1>2 DEF Opens!Reuse, Opens!Put, Opens!Taken, Turned, Taking, p
  <2>2. p.at = "acquire" /\ p.session \in OpenNames /\ p.session # "none"
    BY <1>0, <1>2 DEF Opens!Reuse, Opens!Here, Opens!Wants, p
  <2>. DEFINE t == Taking(p, p.session, w)
              r == Turned(t, "own")
  <2>3. /\ t.connect = "session" /\ t.name = p.session /\ t.whose = w
        /\ Else(t, p, {"connect", "name", "managed", "whose"})
    BY <1>0, TakingIs
  <2>4. DOMAIN t = OpenFields
    BY <2>3 DEF Else
  <2>. HIDE DEF t
  <2>5. r.at = "own" /\ Else(r, t, {"at"})
    BY <2>4, TurnedIs
  <2>6. Opens(v)!Put(1, r)
    BY <2>1 DEF t
  <2>. HIDE DEF r
  <2>7. /\ DOMAIN r = OpenFields /\ r.name = p.session /\ r.holds = p.holds
        /\ r.tries = p.tries /\ r.connect = "session" /\ r.whose = w
        /\ r.session = p.session
    BY <2>3, <2>5 DEF Else, OpenFields
  <2>8. IsProc(r)
    BY <1>0, <2>2, <2>5, <2>7 DEF IsProc, OpenPlaces
  <2>9. LeaseFor(r, leased')
    BY <1>0, <2>2, <2>5, <2>7 DEF LeaseFor, Early
  <2>10. TabFor(r, reg) /\ ForeignFor(r) /\ (HoldFor(p) => HoldFor(r))
    BY <2>1, <2>2, <2>5, <2>7 DEF TabFor, ForeignFor, HoldFor, Early
  <2>. QED BY <1>0, <2>6, <2>8, <2>9, <2>10, CommandPuts DEF TabWay, HoldWay, p
<1>3. CASE Opens(v)!Own(1)
  <2>1. PICK b, c : /\ Opens(v)!OwnTab(1) \/ p.connect = "auto" => b \/ c
                    /\ Opens(v)!Put(1, Working(p, "open", b, c))
    BY <1>0, <1>3, OwnIs DEF p
  <2>2. p.at = "own"
    BY <1>3 DEF Opens!Own, Opens!Here, p
  <2>. DEFINE r == Working(p, "open", b, c)
  <2>3. r.at = "open" /\ r.own = b /\ r.fresh = c /\ Else(r, p, {"at", "own", "fresh"})
    BY <1>0, WorkingIs
  <2>4. Opens(v)!Put(1, r)
    BY <2>1
  <2>. HIDE DEF r
  <2>5. /\ DOMAIN r = OpenFields /\ r.name = p.name /\ r.holds = p.holds
        /\ r.tries = p.tries /\ r.connect = p.connect /\ r.whose = p.whose
        /\ r.session = p.session
    BY <2>3 DEF Else, OpenFields
  <2>6. IsProc(r)
    BY <1>0, <2>3, <2>5 DEF IsProc, OpenPlaces
  <2>7. LeaseFor(r, leased')
    BY <1>0, <2>2, <2>3, <2>5 DEF LeaseFor, Early
  <2>8. TabFor(p, reg) /\ p.whose = "user" => r.own \/ r.fresh
    BY <2>1, <2>2, <2>3 DEF TabFor, Opens!OwnTab, p
  <2>9. /\ TabFor(p, reg) /\ ForeignFor(p) => TabFor(r, reg) /\ ForeignFor(r)
        /\ HoldFor(p) => HoldFor(r)
    BY <2>2, <2>3, <2>5, <2>8 DEF TabFor, ForeignFor, HoldFor, Early
  <2>. QED BY <1>0, <2>4, <2>6, <2>7, <2>9, CommandPuts DEF TabWay, HoldWay, p
<1>. QED BY <1>1, <1>2, <1>3

\* The steps of a command that spawns the serve of a session.
LEMMA CommandSpawns ==
    ASSUME NEW v, OpenInv(v),
           Opens(v)!Spawn(1) \/ Opens(v)!SpawnUp(1) \/ Opens(v)!SpawnFails(1)
    PROVE  OpenInv(v)' /\ (TabWay => TabWay') /\ (HoldWay => HoldWay')
<1>. DEFINE p == proc[1]
            q == proc'[2]
<1>0. /\ OpenShape(v) /\ IsProc(p) /\ DOMAIN p = OpenFields /\ 1 \in 1..2 /\ 2 \in 1..2 /\ 1 # 2
      /\ p.session \in OpenNames \union {"none"}
      /\ LeaseFor(p, leased) /\ leased \subseteq OpenNames
      /\ reg \in [OpenNames -> {"none", "spawned", "attached"}] /\ DOMAIN profile = OpenNames
      /\ DOMAIN proc = 1..2 /\ IsProc(proc[2]) /\ DOMAIN proc[2] = OpenFields
      /\ ServeWay /\ lock \in 0..2 /\ 1 \in 0..2 /\ 0 \in 0..2
      /\ UNCHANGED <<given, leased, changes>>
  BY DEF OpenInv, OpenShape, IsProc, LeaseWay, Opens!Spawn, Opens!SpawnUp, Opens!SpawnFails
<1>. HIDE DEF p
<1>1. CASE Opens(v)!Spawn(1)
  <2>. DEFINE r == Turned(p, "spawning")
              f == Opens(v)!Fresh
  <2>1. /\ DOMAIN proc' = 1..2 /\ proc'[1] = r
        /\ q = Turned(f, "settings")
    BY <1>0, <1>1 DEF Opens!Spawn, Turned, p
  <2>2. /\ p.at = "acquire" /\ p.session # "none" /\ p.connect = "none"
        /\ lock' \in 0..2 /\ UNCHANGED <<reg, profile>>
    BY <1>0, <1>1 DEF Opens!Spawn, Opens!Here, Opens!Wants, p
  <2>3. /\ DOMAIN q = OpenFields /\ q.at = "settings" /\ q.session = "none"
        /\ q.name = "none" /\ q.holds = {} /\ q.tries = 0 /\ q.managed = FALSE
    <3>1. /\ DOMAIN f = OpenFields /\ f.session = "none" /\ f.name = "none"
          /\ f.holds = {} /\ f.tries = 0 /\ f.managed = FALSE
      BY FreshIs
    <3>. HIDE DEF f
    <3>2. Turned(f, "settings").at = "settings" /\ Else(Turned(f, "settings"), f, {"at"})
      BY <3>1, TurnedIs
    <3>. QED BY <2>1, <3>1, <3>2 DEF Else, OpenFields
  <2>4. IsProc(q) /\ ServeWay'
    BY <2>3, ZeroUpTo, IsProcIf DEF OpenPlaces, ServeWay
  <2>5. r.at = "spawning" /\ Else(r, p, {"at"})
    BY <1>0, TurnedIs
  <2>. HIDE DEF r, q, f
  <2>6. /\ DOMAIN r = OpenFields /\ r.name = p.name /\ r.holds = p.holds
        /\ r.tries = p.tries /\ r.connect = p.connect /\ r.whose = p.whose
        /\ r.session = p.session
    BY <2>5 DEF Else, OpenFields
  <2>7. IsProc(r)
    BY <1>0, <2>5, <2>6 DEF IsProc, OpenPlaces
  <2>8. LeaseFor(r, leased')
    BY <1>0, <2>2, <2>5, <2>6 DEF LeaseFor, Early
  <2>9. /\ TabFor(p, reg) /\ ForeignFor(p) => TabFor(r, reg') /\ ForeignFor(r)
        /\ HoldFor(p) => HoldFor(r)
    BY <2>2, <2>5, <2>6 DEF TabFor, ForeignFor, HoldFor, Early
  <2>10. /\ reg' \in [OpenNames -> {"none", "spawned", "attached"}]
         /\ DOMAIN profile' = OpenNames /\ IsProc(proc'[2])
    BY <1>0, <2>2, <2>4 DEF q
  <2>. QED BY <1>0, <2>1, <2>2, <2>4, <2>7, <2>8, <2>9, <2>10, CommandTurns DEF TabWay, HoldWay, p
<1>2. CASE Opens(v)!SpawnUp(1)
  <2>. DEFINE t == Taking(p, p.session, "ours")
              r == Turned(t, "own")
  <2>1. Opens(v)!Put(1, r)
    BY <1>2 DEF Opens!SpawnUp, Opens!Put, Turned, Taking, p
  <2>2. /\ p.at = "spawning" /\ p.session # "none" /\ lock' \in 0..2
        /\ reg' \in [OpenNames -> {"none", "spawned", "attached"}]
        /\ DOMAIN profile' = OpenNames
    BY <1>0, <1>2 DEF Opens!SpawnUp, Opens!Here, LeaseFor, p
  <2>3. /\ t.connect = "session" /\ t.name = p.session /\ t.whose = "ours"
        /\ Else(t, p, {"connect", "name", "managed", "whose"})
    BY <1>0, TakingIs
  <2>4. DOMAIN t = OpenFields
    BY <2>3 DEF Else
  <2>. HIDE DEF t
  <2>5. r.at = "own" /\ Else(r, t, {"at"})
    BY <2>4, TurnedIs
  <2>. HIDE DEF r
  <2>6. DOMAIN proc' = 1..2 /\ proc'[1] = r /\ q = proc[2]
    BY <1>0, <2>1, PutIs
  <2>7. /\ DOMAIN r = OpenFields /\ r.name = p.session /\ r.holds = p.holds
        /\ r.tries = p.tries /\ r.connect = "session" /\ r.whose = "ours"
        /\ r.session = p.session
    BY <2>3, <2>5 DEF Else, OpenFields
  <2>8. IsProc(r)
    BY <1>0, <2>2, <2>5, <2>7 DEF IsProc, OpenPlaces
  <2>9. LeaseFor(r, leased')
    BY <1>0, <2>2, <2>5, <2>7 DEF LeaseFor, Early
  <2>10. TabFor(r, reg') /\ ForeignFor(r) /\ (HoldFor(p) => HoldFor(r))
    BY <2>2, <2>5, <2>7 DEF TabFor, ForeignFor, HoldFor, Early
  <2>11. IsProc(proc'[2]) /\ ServeWay'
    BY <1>0, <2>6 DEF ServeWay
  <2>. QED BY <1>0, <2>2, <2>6, <2>8, <2>9, <2>10, <2>11, CommandTurns DEF TabWay, HoldWay, p
<1>3. CASE Opens(v)!SpawnFails(1)
  <2>. DEFINE r == Left(p, "over", "error")
              k == Turned(proc[2], "killed")
  <2>1. DOMAIN proc' = 1..2 /\ proc'[1] = r /\ q = k
    BY <1>0, <1>3 DEF Opens!SpawnFails, Left, Turned, p
  <2>2. p.at = "spawning" /\ lock' \in 0..2 /\ UNCHANGED <<reg, profile>>
    BY <1>0, <1>3 DEF Opens!SpawnFails, Opens!Here, p
  <2>3. k.at = "killed" /\ Else(k, proc[2], {"at"})
    BY <1>0, TurnedIs
  <2>4. r.at = "over" /\ Else(r, p, {"at", "ended"})
    BY <1>0, LeftIs
  <2>. HIDE DEF r, k, q
  <2>5. /\ DOMAIN k = OpenFields /\ k.session = proc[2].session /\ k.name = proc[2].name
        /\ k.holds = proc[2].holds /\ k.tries = proc[2].tries /\ k.managed = proc[2].managed
    BY <2>3 DEF Else, OpenFields
  <2>6. IsProc(proc'[2]) /\ ServeWay'
    BY <1>0, <2>1, <2>3, <2>5 DEF IsProc, OpenPlaces, ServeWay, q
  <2>7. /\ DOMAIN r = OpenFields /\ r.name = p.name /\ r.holds = p.holds
        /\ r.tries = p.tries /\ r.connect = p.connect /\ r.whose = p.whose
        /\ r.session = p.session
    BY <2>4 DEF Else, OpenFields
  <2>8. IsProc(r)
    BY <1>0, <2>4, <2>7 DEF IsProc, OpenPlaces
  <2>9. LeaseFor(r, leased')
    BY <1>0, <2>2, <2>4, <2>7 DEF LeaseFor, Early
  <2>10. TabFor(r, reg') /\ ForeignFor(r) /\ (HoldFor(p) => HoldFor(r))
    BY <2>2, <2>4, <2>7 DEF TabFor, ForeignFor, HoldFor, Early
  <2>11. /\ reg' \in [OpenNames -> {"none", "spawned", "attached"}]
         /\ DOMAIN profile' = OpenNames
    BY <1>0, <2>2
  <2>. QED BY <1>0, <2>1, <2>2, <2>6, <2>8, <2>9, <2>10, <2>11, CommandTurns
           DEF TabWay, HoldWay, p
<1>. QED BY <1>1, <1>2, <1>3

\* The steps of a command that works in its page.
LEMMA CommandWorks ==
    ASSUME NEW v, OpenInv(v),
           Opens(v)!Open(1) \/ Opens(v)!Page(1) \/ Opens(v)!Apply(1) \/ Opens(v)!Work(1)
    PROVE  OpenInv(v)' /\ (TabWay => TabWay') /\ (HoldWay => HoldWay')
<1>. DEFINE p == proc[1]
<1>0. /\ OpenShape(v) /\ IsProc(p) /\ DOMAIN p = OpenFields /\ 1 \in 1..2 /\ 1 # 2
      /\ p.session \in OpenNames \union {"none"} /\ p.holds \subseteq {"chrome", "tab"}
      /\ p.tries \in 0..4
      /\ LeaseFor(p, leased) /\ leased \subseteq OpenNames
      /\ UNCHANGED <<given, reg, lock, profile, changes>>
      /\ p.at \in {"open", "page", "apply", "work"}
      /\ p.at # "apply" => leased' = leased
  <2>1. /\ OpenShape(v) /\ IsProc(p) /\ LeaseFor(p, leased) /\ leased \subseteq OpenNames
    BY DEF OpenInv, OpenShape, LeaseWay
  <2>2. /\ UNCHANGED <<given, reg, lock, profile, changes>>
        /\ \/ p.at = "apply"
           \/ p.at \in {"open", "page", "work"} /\ leased' = leased
    BY DEF Opens!Open, Opens!Page, Opens!Apply, Opens!Work, Opens!Here
  <2>. QED BY <2>1, <2>2 DEF IsProc
<1>. HIDE DEF p
\* The steps that end it.
<1>1. ASSUME NEW e, NEW h \in SUBSET {"chrome", "tab"}, HoldWay => h = {},
             Opens(v)!Put(1, Over(p, "over", e, h)), leased' = leased
      PROVE  OpenInv(v)' /\ (TabWay => TabWay') /\ (HoldWay => HoldWay')
  <2>. DEFINE r == Over(p, "over", e, h)
  <2>1. r.at = "over" /\ r.holds = h /\ Else(r, p, {"at", "ended", "holds"})
    BY <1>0, OverIs
  <2>2. Opens(v)!Put(1, r)
    BY <1>1
  <2>. HIDE DEF r
  <2>3. /\ DOMAIN r = OpenFields /\ r.name = p.name /\ r.tries = p.tries
        /\ r.connect = p.connect /\ r.whose = p.whose /\ r.session = p.session
    BY <2>1 DEF Else, OpenFields
  <2>4. IsProc(r)
    BY <1>0, <2>1, <2>3 DEF IsProc, OpenPlaces
  <2>5. LeaseFor(r, leased')
    BY <1>0, <1>1, <2>1, <2>3 DEF LeaseFor, Early
  <2>6. TabFor(r, reg) /\ ForeignFor(r)
    BY <2>1 DEF TabFor, ForeignFor, Early
  <2>7. HoldWay => HoldFor(r)
    BY <1>1, <2>1 DEF HoldFor
  <2>. QED BY <1>0, <1>1, <2>2, <2>4, <2>5, <2>6, <2>7, CommandPuts DEF HoldWay
\* Those that do not.
<1>2. ASSUME NEW r, Opens(v)!Put(1, r), DOMAIN r = OpenFields, r.name = p.name,
             r.connect = p.connect, r.whose = p.whose, r.session = p.session,
             r.own = p.own, r.fresh = p.fresh, r.at \in {"page", "apply", "work"},
             r.holds \subseteq {"chrome", "tab"}, r.tries \in 0..4,
             HoldWay => r.stack,
             leased \subseteq leased', leased' \subseteq OpenNames,
             r.at = "work" => p.session = "none" \/ p.session \in leased'
      PROVE  OpenInv(v)' /\ (TabWay => TabWay') /\ (HoldWay => HoldWay')
  <2>1. IsProc(r)
    BY <1>0, <1>2 DEF IsProc, OpenPlaces
  <2>2. LeaseFor(r, leased')
    BY <1>0, <1>2 DEF LeaseFor, Early
  <2>3. TabFor(p, reg) => TabFor(r, reg) /\ ForeignFor(r)
    BY <1>0, <1>2 DEF TabFor, ForeignFor, Early
  <2>4. HoldWay => HoldFor(r)
    BY <1>2 DEF HoldFor
  <2>. QED BY <1>0, <1>2, <2>1, <2>2, <2>3, <2>4, CommandPuts DEF TabWay, HoldWay, p
<1>3. HoldWay => /\ given.kind = "command"
                 /\ p.at \in {"page", "apply", "work"} => p.stack
                 /\ p.at = "open" => p.holds = {}
  BY DEF HoldWay, HoldFor, p
<1>4. {"chrome"} \subseteq {"chrome", "tab"} /\ {} \subseteq {"chrome", "tab"}
  OBVIOUS
<1>5. CASE Opens(v)!Open(1)
  <2>0. p.at = "open" /\ leased' = leased
    BY <1>0, <1>5 DEF Opens!Open, Opens!Here, p
  <2>1. CASE \E h, s :
                /\ h \in SUBSET {"chrome", "tab"}
                /\ s = (given.kind = "command")
                /\ Opens(v)!Put(1, Opened(p, "page", h, s))
    <3>1. PICK h, s :
                /\ h \in SUBSET {"chrome", "tab"}
                /\ s = (given.kind = "command")
                /\ Opens(v)!Put(1, Opened(p, "page", h, s))
      BY <2>1
    <3>. DEFINE r == Opened(p, "page", h, s)
    <3>2. r.at = "page" /\ r.holds = h /\ r.stack = s /\ Else(r, p, {"at", "holds", "stack"})
      BY <1>0, OpenedIs
    <3>3. Opens(v)!Put(1, r)
      BY <3>1
    <3>. HIDE DEF r
    <3>4. /\ DOMAIN r = OpenFields /\ r.name = p.name /\ r.tries = p.tries
          /\ r.connect = p.connect /\ r.whose = p.whose /\ r.session = p.session
          /\ r.own = p.own /\ r.fresh = p.fresh
      BY <3>2 DEF Else, OpenFields
    <3>5. HoldWay => r.stack
      BY <1>3, <3>1, <3>2
    <3>. QED BY <1>0, <1>2, <2>0, <3>1, <3>2, <3>3, <3>4, <3>5
  <2>2. CASE Opens(v)!Put(1, Left(p, "over", "error"))
    <3>1. Left(p, "over", "error") = Over(p, "over", "error", p.holds)
      BY <1>0 DEF Left, Over, OpenFields
    <3>. QED BY <1>0, <1>1, <1>3, <2>0, <2>2, <3>1
  <2>. DEFINE g == IF p.connect = "none" THEN {"chrome"} ELSE {}
              k == given.kind = "command"
  <2>3. Opens(v)!Put(1, Opened(p, "page", g, k)) \/ Opens(v)!Put(1, Left(p, "over", "error"))
    BY <1>5 DEF Opens!Open, Opens!Put, Opens!Ends, Opened, Left, p
  <2>4. g \in SUBSET {"chrome", "tab"} /\ k = (given.kind = "command")
    OBVIOUS
  <2>. HIDE DEF g, k
  <2>. QED BY <2>1, <2>2, <2>3, <2>4
<1>6. CASE Opens(v)!Page(1)
  <2>0. p.at = "page" /\ leased' = leased
    BY <1>0, <1>6 DEF Opens!Page, Opens!Here, p
  <2>1. CASE \E h \in SUBSET {"chrome", "tab"} : Opens(v)!Put(1, Holding(p, "apply", h))
    <3>1. PICK h \in SUBSET {"chrome", "tab"} : Opens(v)!Put(1, Holding(p, "apply", h))
      BY <2>1
    <3>. DEFINE r == Holding(p, "apply", h)
    <3>2. r.at = "apply" /\ r.holds = h /\ Else(r, p, {"at", "holds"})
      BY <1>0, HoldingIs
    <3>3. Opens(v)!Put(1, r)
      BY <3>1
    <3>. HIDE DEF r
    <3>4. /\ DOMAIN r = OpenFields /\ r.name = p.name /\ r.tries = p.tries
          /\ r.connect = p.connect /\ r.whose = p.whose /\ r.session = p.session
          /\ r.own = p.own /\ r.fresh = p.fresh /\ r.stack = p.stack
      BY <3>2 DEF Else, OpenFields
    <3>. QED BY <1>0, <1>2, <1>3, <2>0, <3>2, <3>3, <3>4
  <2>2. CASE \E t \in 0..4 : Opens(v)!Put(1, Tried(p, t))
    <3>1. PICK t \in 0..4 : Opens(v)!Put(1, Tried(p, t))
      BY <2>2
    <3>. DEFINE r == Tried(p, t)
    <3>2. r.tries = t /\ Else(r, p, {"tries"})
      BY <1>0, TriedIs
    <3>3. Opens(v)!Put(1, r)
      BY <3>1
    <3>. HIDE DEF r
    <3>4. /\ DOMAIN r = OpenFields /\ r.name = p.name /\ r.holds = p.holds
          /\ r.connect = p.connect /\ r.whose = p.whose /\ r.session = p.session
          /\ r.own = p.own /\ r.fresh = p.fresh /\ r.stack = p.stack /\ r.at = p.at
      BY <3>2 DEF Else, OpenFields
    <3>. QED BY <1>0, <1>2, <1>3, <2>0, <3>2, <3>3, <3>4
  <2>3. CASE Opens(v)!Put(1, Over(p, "over", "error", {}))
    BY <1>1, <1>4, <2>0, <2>3
  <2>. DEFINE h == p.holds \union (IF p.fresh THEN {"tab"} ELSE {})
              t == p.tries + 1
  <2>4. \/ Opens(v)!Put(1, Holding(p, "apply", h))
        \/ Opens(v)!Again(1) /\ Opens(v)!Put(1, Tried(p, t))
        \/ Opens(v)!Put(1, Over(p, "over", "error", {}))
    BY <1>6 DEF Opens!Page, Opens!Put, Opens!GivesUp, Opens!Close, Holding, Tried, Over, p
  <2>5. h \in SUBSET {"chrome", "tab"}
    BY <1>0
  <2>6. Opens(v)!Again(1) => t \in 0..4
    BY <1>0 DEF Opens!Again, Opens!MaxTries, p
  <2>. HIDE DEF h, t
  <2>. QED BY <2>1, <2>2, <2>3, <2>4, <2>5, <2>6
<1>7. CASE Opens(v)!Apply(1)
  <2>0. p.at = "apply"
    BY <1>7 DEF Opens!Apply, Opens!Here, p
  <2>1. CASE /\ Opens(v)!Put(1, Turned(p, "work"))
             /\ leased' = leased \union ({p.session} \ {"none"})
    <3>. DEFINE r == Turned(p, "work")
    <3>2. r.at = "work" /\ Else(r, p, {"at"})
      BY <1>0, TurnedIs
    <3>3. Opens(v)!Put(1, r)
      BY <2>1
    <3>. HIDE DEF r
    <3>4. /\ DOMAIN r = OpenFields /\ r.name = p.name /\ r.holds = p.holds
          /\ r.connect = p.connect /\ r.whose = p.whose /\ r.session = p.session
          /\ r.own = p.own /\ r.fresh = p.fresh /\ r.stack = p.stack /\ r.tries = p.tries
      BY <3>2 DEF Else, OpenFields
    <3>5. /\ leased \subseteq leased' /\ leased' \subseteq OpenNames
          /\ p.session = "none" \/ p.session \in leased'
      BY <1>0, <2>1
    <3>. QED BY <1>0, <1>2, <1>3, <2>0, <3>2, <3>3, <3>4, <3>5
  <2>. DEFINE d == Opens(v)!Drained(1)
  <2>2. d \in SUBSET {"chrome", "tab"} /\ (HoldWay => d = {})
    BY <1>0, <1>3 DEF Opens!Drained, Opens!Close, p
  <2>3. \/ /\ Opens(v)!Put(1, Turned(p, "work"))
           /\ leased' = leased \union ({p.session} \ {"none"})
        \/ leased' = leased /\ Opens(v)!Put(1, Over(p, "over", "error", d))
    BY <1>7 DEF Opens!Apply, Opens!ExitErr, Opens!Put, Turned, Over, p
  <2>. HIDE DEF d
  <2>. QED BY <1>1, <2>1, <2>2, <2>3
<1>8. CASE Opens(v)!Work(1)
  <2>0. p.at = "work" /\ leased' = leased
    BY <1>0, <1>8 DEF Opens!Work, Opens!Here, p
  <2>. DEFINE d == Opens(v)!Drained(1)
  <2>1. d \in SUBSET {"chrome", "tab"} /\ (HoldWay => d = {})
    BY <1>0, <1>3, <2>0 DEF Opens!Drained, Opens!Close, p
  <2>2. \/ Opens(v)!Put(1, Over(p, "over", "ok", {}))
        \/ Opens(v)!Put(1, Over(p, "over", "error", d))
        \/ given.kind = "ai" /\ Opens(v)!Put(1, Left(p, "over", "exit 1"))
    BY <1>8 DEF Opens!Work, Opens!ExitErr, Opens!Ends, Opens!Put, Opens!Close, Over, Left, p
  <2>3. Left(p, "over", "exit 1") = Over(p, "over", "exit 1", p.holds)
    BY <1>0 DEF Left, Over, OpenFields
  <2>. HIDE DEF d
  <2>4. CASE given.kind = "ai" /\ Opens(v)!Put(1, Left(p, "over", "exit 1"))
    <3>1. Opens(v)!Put(1, Over(p, "over", "exit 1", p.holds))
      BY <2>3, <2>4
    <3>. QED BY <1>0, <1>1, <1>3, <2>0, <2>4, <3>1
  <2>. QED BY <1>1, <1>4, <2>0, <2>1, <2>2, <2>4
<1>. QED BY <1>5, <1>6, <1>7, <1>8

LEMMA OpenKeeps ==
    ASSUME NEW v, Opens(v)!OpenPageAssumption, OpenInv(v), [Opens(v)!Next]_(Opens(v)!vars)
    PROVE  /\ OpenInv(v)'
           /\ v.changes = 0 /\ TabWay => TabWay'
           /\ HoldWay => HoldWay'
<1>1. CASE UNCHANGED Opens(v)!vars
  <2>1. UNCHANGED <<given, reg, lock, proc, profile, leased, changes>>
    BY <1>1 DEF Opens!vars
  <2>2. OpenInv(v)'
    BY <2>1 DEF OpenInv, OpenShape, ServeWay, LeaseWay
  <2>3. (TabWay => TabWay') /\ (HoldWay => HoldWay')
    BY <2>1 DEF TabWay, HoldWay
  <2>. QED BY <2>2, <2>3
<1>2. CASE Opens(v)!Step(1)
  <2>1. ~Opens(v)!Launch(1)
    BY DEF OpenInv, LeaseWay, LeaseFor, Opens!Launch, Opens!Here
  <2>2. \/ \/ Opens(v)!Settle(1) \/ Opens(v)!EnvSession(1) \/ Opens(v)!DefaultSession(1)
           \/ Opens(v)!DefaultAttached(1)
        \/ Opens(v)!NoSession(1) \/ Opens(v)!Reuse(1) \/ Opens(v)!Own(1)
        \/ Opens(v)!Spawn(1) \/ Opens(v)!SpawnUp(1) \/ Opens(v)!SpawnFails(1)
        \/ Opens(v)!Open(1) \/ Opens(v)!Page(1) \/ Opens(v)!Apply(1) \/ Opens(v)!Work(1)
    BY <1>2, <2>1 DEF Opens!Step
  <2>. QED BY <2>2, CommandSettles, CommandTakes, CommandSpawns, CommandWorks
<1>3. CASE Opens(v)!Step(2)
  <2>1. OpenInv(v)' /\ UNCHANGED <<given, reg>> /\ proc'[1] = proc[1]
    BY <1>3, ServeSteps
  <2>2. (TabWay => TabWay') /\ (HoldWay => HoldWay')
    BY <2>1 DEF TabWay, HoldWay
  <2>. QED BY <2>1, <2>2
<1>4. CASE Opens(v)!Others
  <2>1. PICK n \in OpenNames, e \in {"none", "attached"} : Opens(v)!Changed(n, e)
    BY <1>4 DEF Opens!Others, Opens!Names, OpenNames
  <2>2. /\ reg' = [reg EXCEPT ![n] = e] /\ changes < v.changes /\ changes' = changes + 1
        /\ UNCHANGED <<given, lock, proc, profile, leased>>
    BY <2>1 DEF Opens!Changed
  <2>3. changes \in 0..v.changes /\ v.changes \in Nat
    BY DEF OpenInv, OpenShape, Opens!OpenPageAssumption
  <2>4. changes' \in 0..v.changes /\ v.changes # 0
    BY <2>2, <2>3
  <2>5. reg' \in [OpenNames -> {"none", "spawned", "attached"}]
    BY <2>2 DEF OpenInv, OpenShape
  <2>6. OpenInv(v)'
    BY <2>2, <2>4, <2>5 DEF OpenInv, OpenShape, ServeWay, LeaseWay
  <2>7. HoldWay => HoldWay'
    BY <2>2 DEF HoldWay
  <2>. QED BY <2>4, <2>6, <2>7
<1>5. \/ Opens(v)!Step(1) \/ Opens(v)!Step(2) \/ Opens(v)!Others
      \/ UNCHANGED Opens(v)!vars
  <2>1. \A i \in 1..2 : i = 1 \/ i = 2
    OBVIOUS
  <2>. QED BY <2>1 DEF Opens!Next
<1>. QED BY <1>1, <1>2, <1>3, <1>4, <1>5

LEMMA OpenInvMeans ==
    ASSUME NEW v, OpenInv(v)
    PROVE  /\ Opens(v)!TypeOK /\ Opens(v)!ServeLaunchesItsOwn /\ Opens(v)!WorkIsLeased
           /\ TabWay => Opens(v)!UserTabsLeftAlone
           /\ HoldWay => Opens(v)!NothingLeft
<1>1. Opens(v)!TypeOK
  <2>1. \A i \in 1..2 : i = 1 \/ i = 2
    OBVIOUS
  <2>2. \A i \in 1..2 : IsProc(proc[i])
    BY <2>1 DEF OpenInv, OpenShape
  <2>. QED BY <2>2 DEF OpenInv, OpenShape, OpenNames, IsProc, OpenPlaces, Opens!TypeOK,
           Opens!Names, Opens!MaxTries
<1>2. Opens(v)!ServeLaunchesItsOwn
  BY DEF OpenInv, ServeWay, Opens!ServeLaunchesItsOwn, Opens!Wants, Opens!Skips, Opens!Serve
<1>3. Opens(v)!WorkIsLeased
  BY DEF OpenInv, LeaseWay, LeaseFor, Opens!WorkIsLeased
<1>4. TabWay => Opens(v)!UserTabsLeftAlone
  BY DEF TabWay, TabFor, Opens!UserTabsLeftAlone
<1>5. HoldWay => Opens(v)!NothingLeft
  BY DEF HoldWay, HoldFor, Opens!NothingLeft
<1>. QED BY <1>1, <1>2, <1>3, <1>4, <1>5

\* Whatever the registry says and others do to it, a serve launches a Chrome of
\* its own and a command that works in a session has touched its lease; the
\* user's tabs are left alone when no other command changes the registry, and
\* nothing is left of a command that is no ai loop (buildBrowserOpts, openPage,
\* exitNow).
THEOREM PagesAreLetGo ==
    ASSUME NEW CONSTANT v, Opens(v)!OpenPageAssumption
    PROVE  Opens(v)!Spec =>
              [](/\ Opens(v)!ServeLaunchesItsOwn /\ Opens(v)!WorkIsLeased
                 /\ v.changes = 0 => Opens(v)!UserTabsLeftAlone
                 /\ v.kinds \subseteq {"command"} => Opens(v)!NothingLeft)
<1>. DEFINE I == /\ OpenInv(v)
                 /\ v.changes = 0 => TabWay
                 /\ v.kinds \subseteq {"command"} => HoldWay
            P == /\ Opens(v)!ServeLaunchesItsOwn /\ Opens(v)!WorkIsLeased
                 /\ v.changes = 0 => Opens(v)!UserTabsLeftAlone
                 /\ v.kinds \subseteq {"command"} => Opens(v)!NothingLeft
<1>1. Opens(v)!Init => I
  BY OpenInit
<1>2. I /\ [Opens(v)!Next]_(Opens(v)!vars) => I'
  BY OpenKeeps
<1>3. I => P
  BY OpenInvMeans
<1>. QED BY <1>1, <1>2, <1>3, PTL DEF Opens!Spec
----------------------------------------------------------------------------
\* The removal of the installation is a Setup, and what is proved of one holds
\* of it.
Removals == INSTANCE Setup_proofs WITH
    Clients <- {"claude"}, Procs <- {c1, c2}, NoProc <- NoRec,
    NoManifest <- NoRec, ClientsChange <- FALSE, Purges <- FALSE,
    EditsAnytime <- FALSE, Faulty <- {"uninstall"}, MaxFaults <- 1,
    MaxEdits <- 0, MaxCrashes <- 1

LEMMA SameInit == Removal!Init => Removals!Init
<1>. SUFFICES ASSUME Removal!Init PROVE Removals!Init
  OBVIOUS
<1>. QED BY DEF
     Removal!Init, Removals!Init, Removal!Modes, Removals!Modes, Removal!NoCmd,
     Removals!NoCmd

LEMMA SameSteps == Removal!Next => Removals!Next
<1>. SUFFICES ASSUME Removal!Next PROVE Removals!Next
  OBVIOUS
<1>. QED BY DEF
     Removal!Next, Removals!Next, Removal!Step, Removals!Step, Removal!Begin,
     Removals!Begin, Removal!TakeLock, Removals!TakeLock, Removal!InProgress,
     Removals!InProgress, Removal!Install, Removals!Install, Removal!Uninstall,
     Removals!Uninstall, Removal!Unlock, Removals!Unlock, Removal!Check,
     Removals!Check, Removal!CopyBinary, Removals!CopyBinary, Removal!Configure,
     Removals!Configure, Removal!InstallSkill, Removals!InstallSkill,
     Removal!BeginSkills, Removals!BeginSkills, Removal!WriteManifest,
     Removals!WriteManifest, Removal!RemoveOld, Removals!RemoveOld,
     Removal!BeginUninstall, Removals!BeginUninstall, Removal!Unregister,
     Removals!Unregister, Removal!BeginRemoval, Removals!BeginRemoval,
     Removal!RemoveManaged, Removals!RemoveManaged, Removal!Purge,
     Removals!Purge, Removal!RemoveManifest, Removals!RemoveManifest,
     Removal!Fault, Removals!Fault, Removal!Crash, Removals!Crash, Removal!Edit,
     Removals!Edit, Removal!Writing, Removals!Writing, Removal!Entries,
     Removals!Entries, Removal!Legacy, Removals!Legacy, Removal!BinPath,
     Removals!BinPath, Removal!SkillPath, Removals!SkillPath,
     Removal!ConfigPath, Removals!ConfigPath, Removal!Paths, Removals!Paths,
     Removal!Managed, Removals!Managed, Removal!InMode, Removals!InMode,
     Removal!NoCmd, Removals!NoCmd, Removal!Forced, Removals!Forced,
     Removal!OppositeInTheWay, Removals!OppositeInTheWay, Removal!SkillInTheWay,
     Removals!SkillInTheWay, Removal!EntryInTheWay, Removals!EntryInTheWay,
     Removal!Refused, Removals!Refused, Removal!BinaryInTheWay,
     Removals!BinaryInTheWay, Removal!NewManaged, Removals!NewManaged,
     Removal!Goto, Removals!Goto, Removal!Loop, Removals!Loop, Removal!Ended,
     Removals!Ended, Removal!ToConfigure, Removals!ToConfigure,
     Removal!ForeignStops, Removals!ForeignStops, Removal!Modes, Removals!Modes,
     Removal!Opposite, Removals!Opposite, Removal!disk, Removals!disk,
     Removal!command, Removals!command, Removal!budget, Removals!budget

RemovalInv == Removals!Locked /\ Removals!InstallInv /\ Removals!RemoveInv

LEMMA RemovalAssumed ==
    /\ Removals!SetupAssumption /\ Removals!ManifestAssumption
    /\ Removals!OnlyUninstallFails
BY SessionAssumption
   DEF SessionAssumption, Removal!SetupAssumption, Removals!SetupAssumption,
       Removal!ManifestAssumption, Removals!ManifestAssumption, Removal!Manifests,
       Removals!Manifests, Removal!Paths, Removals!Paths, Removal!Modes, Removals!Modes,
       Removal!BinPath, Removals!BinPath, Removal!SkillPath, Removals!SkillPath,
       Removal!ConfigPath, Removals!ConfigPath, Removals!OnlyUninstallFails

LEMMA RemovalInit == Removal!Init => RemovalInv
BY SameInit, RemovalAssumed, Removals!LockedInit, Removals!InstallInit, Removals!RemoveInit
   DEF RemovalInv

LEMMA RemovalKeeps == RemovalInv /\ (UNCHANGED vars \/ Removal!Next) => RemovalInv'
<1>. SUFFICES ASSUME RemovalInv, UNCHANGED vars \/ Removal!Next PROVE RemovalInv'
  OBVIOUS
<1>1. [Removals!Next]_(Removals!vars)
  BY SameSteps DEF
     vars, Removals!vars, Removals!disk, Removals!command, Removals!budget
<1>2. Removals!Locked'
  BY <1>1, RemovalAssumed, Removals!LockedStep DEF RemovalInv
<1>3. Removals!InstallInv'
  BY <1>1, RemovalAssumed, Removals!InstallStep DEF RemovalInv
<1>4. Removals!RemoveInv'
  BY <1>1, RemovalAssumed, Removals!RemoveStep DEF RemovalInv
<1>. QED BY <1>2, <1>3, <1>4 DEF RemovalInv

LEMMA RemovalInvMeans ==
    ASSUME RemovalInv
    PROVE  Removal!TypeOK /\ Removal!OneAtATime /\ Removal!NothingLeft
<1>1. Removals!TypeOK /\ Removals!NothingLeft
  BY DEF RemovalInv, Removals!Locked, Removals!Typed, Removals!RemoveInv
<1>2. Removals!OneAtATime
  BY DEF RemovalInv, Removals!Locked, Removals!OneAtATime
<1>3. Removal!TypeOK
  BY <1>1 DEF
     Removal!TypeOK, Removals!TypeOK, Removal!Writing, Removals!Writing,
     Removal!Entries, Removals!Entries, Removal!Modes, Removals!Modes,
     Removal!Paths, Removals!Paths, Removal!BinPath, Removals!BinPath,
     Removal!SkillPath, Removals!SkillPath, Removal!ConfigPath,
     Removals!ConfigPath
<1>4. Removal!OneAtATime
  BY <1>2 DEF Removal!OneAtATime, Removals!OneAtATime, Removal!Inside, Removals!Inside
<1>5. Removal!NothingLeft
  BY <1>1 DEF Removal!NothingLeft, Removals!NothingLeft, Removal!Modes, Removals!Modes
<1>. QED BY <1>3, <1>4, <1>5
----------------------------------------------------------------------------
\* The openings, the recordings and the removal of the run of the sessions.
WorkInv ==
    /\ part = "open" => OpenInv(Command) /\ TabWay /\ HoldWay
    /\ RecordingInv
    /\ part = "removal" => RemovalInv

LEMMA WorkInit == Init => WorkInv
<1>. SUFFICES ASSUME Init PROVE WorkInv
  OBVIOUS
<1>1. ASSUME part = "open"
      PROVE  OpenInv(Command) /\ TabWay /\ HoldWay
  <2>1. Opens(Command)!Init /\ Opens(Command)!OpenPageAssumption
    BY <1>1, SessionAssumption DEF SessionAssumption, Init
  <2>2. Command.kinds \subseteq {"command"}
    BY DEF Command
  <2>. QED BY <2>1, <2>2, OpenInit
<1>2. ASSUME part = "removal"
      PROVE  RemovalInv
  BY <1>2, RemovalInit DEF Init
<1>. QED BY <1>1, <1>2, RecordingInit DEF WorkInv

LEMMA WorkKeeps == WorkInv /\ [Next]_vars => WorkInv'
<1>. SUFFICES ASSUME WorkInv, [Next]_vars PROVE WorkInv'
  OBVIOUS
<1>1. RecordingInv'
  BY RecordingKeeps DEF WorkInv
<1>2. UNCHANGED part
  BY DEF Next, Step, vars
<1>3. ASSUME part = "open"
      PROVE  OpenInv(Command)' /\ TabWay' /\ HoldWay'
  <2>1. UNCHANGED vars \/ Opens(Command)!Next
    BY <1>3 DEF Next, Step
  <2>2. [Opens(Command)!Next]_(Opens(Command)!vars)
    BY <2>1 DEF vars, Opens!vars
  <2>3. Opens(Command)!OpenPageAssumption /\ Command.changes = 0
    BY SessionAssumption DEF SessionAssumption, Command
  <2>4. OpenInv(Command) /\ TabWay /\ HoldWay
    BY <1>3 DEF WorkInv
  <2>. QED BY <2>2, <2>3, <2>4, OpenKeeps
<1>4. ASSUME part = "removal"
      PROVE  RemovalInv'
  <2>1. UNCHANGED vars \/ Removal!Next
    BY <1>4 DEF Next, Step
  <2>. QED BY <1>4, <2>1, RemovalKeeps DEF WorkInv
<1>. QED BY <1>1, <1>2, <1>3, <1>4 DEF WorkInv

\* The opening of a page leaves the user's tabs alone and nothing behind, a
\* recorder at work is known unless its stop file could not be written, a
\* recording called complete is, and an installation that was removed leaves
\* nothing (openPage, RunVideoRuntime, stopFailedVideoRuntime, Uninstall).
THEOREM WorkIsRight == Spec => []WorkHolds
<1>1. WorkInv => WorkHolds
  <2>. SUFFICES ASSUME WorkInv PROVE WorkHolds
    OBVIOUS
  <2>1. ASSUME part = "open"
        PROVE  /\ Opens(Command)!TypeOK /\ Opens(Command)!ServeLaunchesItsOwn
               /\ Opens(Command)!UserTabsLeftAlone /\ Opens(Command)!WorkIsLeased
               /\ Opens(Command)!NothingLeft
    BY <2>1, OpenInvMeans DEF WorkInv
  <2>2. ASSUME part = "video"
        PROVE  Video(Recordings)!TypeOK /\ Video(Recordings)!RecorderIsKnown
    BY <2>2, VideoInvMeans, KnownInvMeans DEF WorkInv, RecordingInv
  <2>3. ASSUME part = "videos"
        PROVE  Video(Shared)!TypeOK /\ Video(Shared)!CompleteIsComplete
    BY <2>3, VideoInvMeans DEF WorkInv, RecordingInv
  <2>4. ASSUME part = "removal"
        PROVE  Removal!TypeOK /\ Removal!OneAtATime /\ Removal!NothingLeft
    BY <2>4, RemovalInvMeans DEF WorkInv
  <2>. QED BY <2>1, <2>2, <2>3, <2>4 DEF WorkHolds
<1>. QED BY <1>1, WorkInit, WorkKeeps, PTL DEF Spec
=============================================================================
