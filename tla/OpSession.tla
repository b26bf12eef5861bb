----------------------------- MODULE OpSession -----------------------------
(***************************************************************************)
(* The op session: internal/runtime/session.go, ops.go and bind.go over    *)
(* the ref tables of internal/core/engine (page_session.go, mutation.go,   *)
(* snapshot_diff.go, interactor.go) and the recovery hooks of              *)
(* internal/core/feedback.                                                 *)
(*                                                                         *)
(* A client names elements by their refs @1, @2, ...; a ref is a position  *)
(* in the table the session keeps from its last extraction.  The model     *)
(* follows what the client has been shown, what the session's table says   *)
(* and what the page holds, while the page changes under both.  A document *)
(* is the sequence of its elements; Kind is the role and name of one.      *)
(***************************************************************************)
EXTENDS Naturals, Sequences, FiniteSets

CONSTANTS
    Nodes,        \* elements (backend node ids)
    Kind,         \* role and name of each
    Docs,         \* documents a page may show
    Tabs, NoTab,  \* target ids
    Mcp,          \* the client is the MCP surface: it gets no observation
    AdoptFails,   \* the init scripts of an adopted page may fail
    MaxFields,    \* fields of one fill
    MaxLaunches   \* Chromes this session may launch

OpSessionAssumption ==
    /\ Docs \subseteq Seq(Nodes)
    /\ NoTab \notin Tabs
    /\ {Mcp, AdoptFails} \subseteq BOOLEAN
    /\ MaxFields \in Nat
    /\ MaxLaunches \in Nat

VARIABLES
    connected,  \* Browser.connected: a named session, with a table per target
    browser,    \* Session.browser, the number of its launch, or 0
    up,         \* the launched Chromes that run
    doc,        \* the document of each open tab
    page,       \* Session.page
    mem,        \* Session.snapshot
    kept,       \* Browser.state.Snapshots
    recovered,  \* Session.challengeRecovered
    cameBy,     \* the last op that changed the page was a recovered navigate
    known,      \* the kind the client has been shown at each ref
    pc,         \* where the session is in the request
    req,        \* the request
    prev,       \* the table when it came
    fields,     \* refs a fill has still to write
    snap,       \* the table a fill works with
    err,        \* why the last attempt failed, "" if it did not
    retried,    \* the recovery chain has asked for a retry already
    semantic,   \* the attempt resolves by role and name only
    done,       \* the attempts that ran to their end
    acted       \* what the last act was for and what it hit

session == <<connected, browser, up>>
tables == <<mem, kept, known>>
attempt == <<prev, fields, snap, err, retried, semantic, done>>
flags == <<recovered, cameBy>>
vars == <<session, doc, page, tables, flags, pc, req, attempt, acted>>

Ops == {"click", "type", "hover", "look", "fill"}
\* resetsChallengeRecovered, as far as the ops below go.
Resets == {"click", "type"}
NoReq == [op |-> "", ref |-> 0]
NoAct == [want |-> "", got |-> "", field |-> 1]
Errors == {"", "stale", "timeout", "other"}

----------------------------------------------------------------------------
\* Tables, refs and diffs.

Elements(s) == {s[i] : i \in DOMAIN s}

\* A function that maps x to v as well.
With(f, x, v) == [y \in DOMAIN f \union {x} |-> IF y = x THEN v ELSE f[y]]
Without(f, x) == [y \in DOMAIN f \ {x} |-> f[y]]

\* The kinds at the refs of a table: what an extraction shows.
Shown(t) == [i \in DOMAIN t |-> Kind[t[i]]]

\* assignRefSnapshots: which of its role and name an element is.
Nth(t, i) == Cardinality({j \in 1..(i - 1) : Kind[t[j]] = Kind[t[i]]})

\* chooseSemanticMatch, with resolveByRoleNameNth: nothing if ambiguous.
ByRoleName(t, i, d) ==
    LET same == {j \in DOMAIN d : Kind[d[j]] = Kind[t[i]]}
    IN  {d[j] : j \in {k \in same :
                         \/ same = {k}
                         \/ Cardinality({l \in same : l < k}) = Nth(t, i)}}

\* ResolveRefSemantic: the node itself, or, when it is gone or its probe
\* takes longer than 250 ms, one of its role and name.
Resolve(t, i, d) ==
    IF i \notin DOMAIN t THEN {}
    ELSE ({t[i]} \intersect Elements(d)) \union ByRoleName(t, i, d)

\* DiffRefs: refs are slots, so a diff is of the kinds at each.
DiffRefs(from, to) ==
    [removed |-> DOMAIN from \ DOMAIN to,
     shown |-> [i \in {j \in DOMAIN to :
                       j \in DOMAIN from => Kind[from[j]] # Kind[to[j]]}
                |-> Kind[to[i]]]]

\* A client that reads a diff.
Applied(k, diff) ==
    [i \in (DOMAIN k \ diff.removed) \union DOMAIN diff.shown |->
        IF i \in DOMAIN diff.shown THEN diff.shown[i] ELSE k[i]]

\* currentSnapshot: the table of the target, else the one in memory.
TableOf(k, m, p) == IF p \in DOMAIN k THEN k[p] ELSE m
Table == TableOf(kept, mem, page)

\* SaveSnapshot keeps a table for the target in a named session only.
Saved(p, t) == IF connected THEN With(kept, p, t) ELSE kept

\* The locals of a request end with it; the client keeps what it may repeat.
Answered(e) ==
    /\ pc' = "ready"
    /\ err' = e
    /\ IF e = "timeout" THEN UNCHANGED <<req, done>>
       ELSE /\ req' = NoReq
            /\ done' = 0
    /\ acted' = NoAct
    /\ prev' = << >>
    /\ fields' = {}
    /\ snap' = << >>
    /\ retried' = FALSE
    /\ semantic' = FALSE

----------------------------------------------------------------------------
Init ==
    /\ connected \in BOOLEAN
    /\ browser = 0
    /\ up = {}
    /\ doc = << >>
    /\ page = NoTab
    /\ mem = << >>
    /\ kept = << >>
    /\ known = << >>
    /\ recovered = FALSE
    /\ cameBy = FALSE
    /\ pc = "ready"
    /\ req = NoReq
    /\ prev = << >>
    /\ fields = {}
    /\ snap = << >>
    /\ err = ""
    /\ retried = FALSE
    /\ semantic = FALSE
    /\ done = 0
    /\ acted = NoAct

\* EnsurePage for a session that owns its Chrome: the first op, or an op
\* after the last tab was closed, launches one.
Launch ==
    /\ pc = "ready"
    /\ page = NoTab
    /\ browser < MaxLaunches
    /\ \E t \in Tabs \ DOMAIN kept, d \in Docs :
        /\ doc' = With(<< >>, t, d)
        /\ page' = t
    /\ browser' = browser + 1
    /\ up' = up \union {browser + 1}
    /\ UNCHANGED <<connected, tables, flags, pc, req, attempt, acted>>

\* Shutdown: the browser it holds.
Shutdown ==
    /\ pc = "ready"
    /\ browser # 0
    /\ pc' = "shut"
    /\ up' = up \ {browser}
    /\ doc' = << >>
    /\ page' = NoTab
    /\ UNCHANGED <<connected, browser, tables, flags, req, attempt, acted>>

\* The page changes by itself: it renders again or it navigates.
PageChanges ==
    /\ pc # "shut"
    /\ \E t \in DOMAIN doc, d \in Docs : doc' = [doc EXCEPT ![t] = d]
    /\ UNCHANGED <<session, page, tables, flags, pc, req, attempt, acted>>

----------------------------------------------------------------------------
\* Ops without a ref.

ReadyOnPage ==
    /\ pc = "ready"
    /\ page \in DOMAIN doc

\* opNavigate.  A navigation that fails may have left the page all the same,
\* and returns before it sets the flag.  The refs the client holds are void.
Navigate ==
    /\ ReadyOnPage
    /\ \E d \in Docs : doc' = [doc EXCEPT ![page] = d]
    /\ \/ /\ recovered' \in BOOLEAN
          /\ cameBy' = recovered'
       \/ /\ cameBy' = FALSE
          /\ UNCHANGED recovered
    /\ known' = << >>
    /\ UNCHANGED <<session, page, mem, kept, pc, req, attempt, acted>>

\* opHistory and opReload.
History ==
    /\ ReadyOnPage
    /\ \E d \in Docs : doc' = [doc EXCEPT ![page] = d]
    /\ recovered' = FALSE
    /\ cameBy' = FALSE
    /\ known' = << >>
    /\ UNCHANGED <<session, page, mem, kept, pc, req, attempt, acted>>

\* What an extraction that numbers its refs from @1 leaves behind.
Remember(p, t) ==
    /\ kept' = Saved(p, t)
    /\ mem' = t

\* opExtract, and RememberExtraction for the MCP snapshot tool: the whole
\* page or the subtree of a selector, which numbers its refs from @1 too.
Extract ==
    /\ ReadyOnPage
    /\ \E k \in 1..(Len(doc[page]) + 1) :
        LET t == SubSeq(doc[page], k, Len(doc[page]))
        IN  /\ Remember(page, t)
            /\ known' = Shown(t)
    /\ recovered' = FALSE
    /\ UNCHANGED <<session, doc, page, cameBy, pc, req, attempt, acted>>

----------------------------------------------------------------------------
\* Tabs.

\* adoptPage.
Adopt(t) ==
    /\ page' = t
    /\ mem' = IF t \in DOMAIN kept THEN kept[t] ELSE << >>

AdoptRefused ==
    /\ AdoptFails
    /\ UNCHANGED <<page, mem>>

\* opTabs, which works from the list of targets.  A client that has changed the tab has no refs of it.
TabSwitch(t) ==
    /\ pc = "ready"
    /\ page # NoTab
    /\ t \in DOMAIN doc
    /\ Adopt(t) \/ AdoptRefused
    /\ known' = << >>
    /\ cameBy' = (cameBy /\ page' = page)
    /\ UNCHANGED <<session, doc, kept, recovered, pc, req, attempt, acted>>

TabNew(t) ==
    /\ pc = "ready"
    /\ page # NoTab
    /\ t \in Tabs \ (DOMAIN doc \union DOMAIN kept)
    /\ \E d \in Docs : doc' = With(doc, t, d)
    /\ Adopt(t) \/ AdoptRefused
    /\ known' = << >>
    /\ cameBy' = (cameBy /\ page' = page)
    /\ UNCHANGED <<session, kept, recovered, pc, req, attempt, acted>>

\* The current tab: the first one that is left is adopted, or no page is.
TabClose(t) ==
    /\ pc = "ready"
    /\ page # NoTab
    /\ t \in DOMAIN doc
    /\ doc' = Without(doc, t)
    /\ kept' = Without(kept, t)
    /\ IF t # page THEN UNCHANGED <<page, mem>>
       ELSE IF DOMAIN doc' = {}
            THEN /\ page' = NoTab
                 /\ mem' = << >>
            ELSE \/ \E u \in DOMAIN doc' : Adopt(u)
                 \/ AdoptRefused
    /\ known' = IF t = page THEN << >> ELSE known
    /\ cameBy' = (cameBy /\ t # page)
    /\ UNCHANGED <<session, recovered, pc, req, attempt, acted>>

----------------------------------------------------------------------------
\* Ops on a ref: opRef, opSetChecked, opSelect, opPress, opType ("click",
\* "type", "hover"), and EvalTimeout, CaptureScreenshot, ResolveRef ("look").

Request(op, i) ==
    /\ ReadyOnPage
    /\ op # "fill"
    /\ i \in DOMAIN known
    /\ pc' = "try"
    /\ req' = [op |-> op, ref |-> i]
    /\ prev' = Table
    /\ retried' = FALSE
    /\ semantic' = FALSE
    /\ done' = 0
    /\ err' = ""
    /\ recovered' = (recovered /\ op \notin Resets)
    /\ cameBy' = (cameBy /\ op \notin Resets)
    /\ UNCHANGED <<session, doc, page, tables, fields, snap, acted>>

\* A client that repeats a request it was told may be repeated.
Repeat ==
    /\ ReadyOnPage
    /\ err \in {"timeout"}
    /\ req.ref \in DOMAIN known
    /\ pc' = "try"
    /\ prev' = Table
    /\ retried' = FALSE
    /\ semantic' = FALSE
    /\ err' = ""
    /\ recovered' = (recovered /\ req.op \notin Resets)
    /\ cameBy' = (cameBy /\ req.op \notin Resets)
    /\ UNCHANGED <<session, doc, page, tables, req, fields, snap, done, acted>>

\* The element the attempt may hit.
Target ==
    IF semantic THEN ByRoleName(Table, req.ref, doc[page])
    ELSE Resolve(Table, req.ref, doc[page])

Hit(el) ==
    acted' = [want |-> known[req.ref], got |-> Kind[el], field |-> 1]

\* The action runs to its end; the page may be another one afterwards.
ActSucceeds ==
    /\ pc = "try"
    /\ \E el \in Target : Hit(el)
    /\ \E d \in Docs : doc' = [doc EXCEPT ![page] = d]
    /\ done' = done + 1
    /\ pc' = "observe"
    /\ err' = ""
    /\ UNCHANGED <<session, page, tables, flags, req, prev, fields, snap,
                   retried, semantic>>

\* withSemanticRetry: an element that was detached is looked up once more.
ActRetried ==
    /\ pc = "try"
    /\ ~semantic
    /\ Target # {}
    /\ semantic' = TRUE
    /\ \E d \in Docs : doc' = [doc EXCEPT ![page] = d]
    /\ UNCHANGED <<session, page, tables, flags, pc, req, prev, fields, snap,
                   err, retried, done, acted>>

\* It fails, with nothing done or something.
ActFails ==
    /\ pc = "try"
    /\ \/ /\ Target = {}
          /\ err' = "stale"
       \/ /\ Target # {}
          /\ err' \in {"timeout", "other"}
    /\ \E d \in Docs : doc' = [doc EXCEPT ![page] = d]
    /\ pc' = "failed"
    /\ UNCHANGED <<session, page, tables, flags, req, prev, fields, snap,
                   retried, semantic, done, acted>>

\* RecoveryChain: a dialog accepted, a challenge gone, the network settled;
\* a stale ref is never retried for its own sake.
Recover ==
    /\ pc = "failed"
    /\ ~retried
    /\ retried' = TRUE
    /\ semantic' = FALSE
    /\ pc' = "try"
    /\ UNCHANGED <<session, doc, page, tables, flags, req, prev, fields, snap,
                   err, done, acted>>

GiveUp ==
    /\ pc = "failed"
    /\ Answered(err)
    /\ UNCHANGED <<session, doc, page, tables, flags>>

----------------------------------------------------------------------------
\* What the client is told after an action: mutationResult.

\* TakePopup and adoptPage, whose error is dropped: what follows is about
\* the popup in either case.
AdoptPopup ==
    /\ pc = "observe"
    /\ req.op = "click"
    /\ \E t \in Tabs \ (DOMAIN doc \union DOMAIN kept), d \in Docs :
        /\ doc' = With(doc, t, d)
        /\ Adopt(t) \/ AdoptRefused
        /\ snap' = <<t>>
    /\ pc' = "capture"
    /\ UNCHANGED <<session, kept, known, flags, req, prev, fields, err,
                   retried, semantic, done, acted>>

NoPopup ==
    /\ pc = "observe"
    /\ req.op # "look"
    /\ snap' = <<page>>
    /\ pc' = "capture"
    /\ UNCHANGED <<session, doc, page, tables, flags, req, prev, fields, err,
                   retried, semantic, done, acted>>

\* An op that only looks has nothing to observe.
Looked ==
    /\ pc = "observe"
    /\ req.op = "look"
    /\ Answered("")
    /\ UNCHANGED <<session, doc, page, tables, flags>>

\* SnapshotModeNone: the table stays, and so do the refs.
CaptureNothing ==
    /\ pc = "capture"
    /\ Answered(err)
    /\ UNCHANGED <<session, doc, page, tables, flags>>

\* SnapshotModeFull: the skeleton becomes the table and is shown.
CaptureFull ==
    /\ pc = "capture"
    /\ LET t == doc[snap[1]]
       IN  /\ Remember(snap[1], t)
           /\ known' = Shown(t)
    /\ Answered("")
    /\ UNCHANGED <<session, doc, page, flags>>

\* Mutant: the table stays pinned to the last extract.
CaptureDiffPinned ==
    /\ pc = "capture"
    /\ known' = Applied(known, DiffRefs(prev, doc[snap[1]]))
    /\ Answered("")
    /\ UNCHANGED <<session, doc, page, mem, kept, flags>>

\* SnapshotModeDiff: CaptureMutation and rememberMutationRefs.
CaptureDiff ==
    /\ pc = "capture"
    /\ LET t == doc[snap[1]]
       IN  /\ Remember(snap[1], t)
           /\ known' = Applied(known, DiffRefs(prev, t))
    /\ Answered("")
    /\ UNCHANGED <<session, doc, page, flags>>

\* The action is done but cannot be observed: not to be repeated.
CaptureFails ==
    /\ pc = "capture"
    /\ Answered("other")
    /\ UNCHANGED <<session, doc, page, tables, flags>>

----------------------------------------------------------------------------
\* opFill with FillFields: the fields in the order of their refs, the table
\* taken anew after each.

Fill ==
    /\ ReadyOnPage
    /\ \E f \in SUBSET DOMAIN known :
        /\ Cardinality(f) \in 1..MaxFields
        /\ fields' = f
    /\ pc' = "fill"
    /\ req' = [op |-> "fill", ref |-> 0]
    /\ prev' = Table
    /\ snap' = Table
    /\ done' = 0
    /\ err' = ""
    /\ UNCHANGED <<session, doc, page, tables, flags, retried, semantic, acted>>

NextField == CHOOSE i \in fields : \A j \in fields : i <= j

FillField ==
    /\ pc = "fill"
    /\ fields # {}
    /\ \E el \in Resolve(snap, NextField, doc[page]) :
        acted' = [want |-> known[NextField], got |-> Kind[el],
                  field |-> done + 1]
    /\ \E d \in Docs : doc' = [doc EXCEPT ![page] = d]
    /\ done' = done + 1
    /\ fields' = fields \ {NextField}
    /\ \/ /\ snap' = doc'[page]
          /\ kept' = Saved(page, snap')
       \/ UNCHANGED <<snap, kept>>
    /\ UNCHANGED <<session, page, mem, known, flags, pc, req, prev, err,
                   retried, semantic>>

\* RunOp: the JSONL client also reads the difference of the tables around
\* an op, if both have refs.
Observed(after) ==
    known' = IF Mcp \/ prev = << >> \/ after = << >> THEN known
             ELSE Applied(known, DiffRefs(prev, after))

\* A field that cannot be written ends the op; what it has taken anew stays
\* with a named session.
FillFails ==
    /\ pc = "fill"
    /\ fields # {}
    /\ Observed(Table)
    /\ Answered("other")
    /\ UNCHANGED <<session, doc, page, mem, kept, flags>>

FillEnds ==
    /\ pc = "fill"
    /\ fields = {}
    /\ mem' = snap
    /\ Observed(TableOf(kept, snap, page))
    /\ IF Mcp THEN /\ prev' = TableOf(kept, snap, page)
                   /\ snap' = <<page>>
                   /\ pc' = "capture"
                   /\ UNCHANGED <<req, fields, err, retried, semantic, done,
                                  acted>>
       ELSE Answered("")
    /\ UNCHANGED <<session, doc, page, kept, flags>>

----------------------------------------------------------------------------
Working ==
    \/ ActSucceeds
    \/ ActRetried
    \/ ActFails
    \/ Recover
    \/ GiveUp
    \/ AdoptPopup
    \/ NoPopup
    \/ Looked
    \/ CaptureNothing
    \/ CaptureFull
    \/ CaptureDiff
    \/ CaptureFails
    \/ FillField
    \/ FillFails
    \/ FillEnds

Client ==
    \/ Navigate
    \/ History
    \/ Extract
    \/ \E t \in Tabs : TabSwitch(t) \/ TabNew(t) \/ TabClose(t)
    \/ \E op \in Ops, i \in DOMAIN known : Request(op, i)
    \/ Repeat
    \/ Fill

Next ==
    \/ Launch
    \/ Shutdown
    \/ PageChanges
    \/ Client
    \/ Working

Spec == Init /\ [][Next]_vars

\* The loop runs an op it has begun to its end.
FairSpec == Spec /\ WF_vars(Working)

----------------------------------------------------------------------------
\* Properties.

TypeOK ==
    /\ connected \in BOOLEAN
    /\ browser \in 0..MaxLaunches
    /\ up \subseteq 1..MaxLaunches
    /\ DOMAIN doc \subseteq Tabs /\ \A t \in DOMAIN doc : doc[t] \in Docs
    /\ page \in Tabs \union {NoTab}
    /\ mem \in Seq(Nodes) /\ prev \in Seq(Nodes)
    /\ snap \in Seq(Nodes) \/ snap \in {<<t>> : t \in Tabs}
    /\ DOMAIN kept \subseteq (IF connected THEN Tabs ELSE {})
    /\ \A t \in DOMAIN kept : kept[t] \in Seq(Nodes)
    /\ {recovered, cameBy, retried, semantic} \subseteq BOOLEAN
    /\ DOMAIN known \subseteq Nat
    /\ pc \in {"ready", "try", "failed", "observe", "capture", "fill", "shut"}
    /\ req.op \in Ops \union {""}
    /\ req.ref \in Nat
    /\ {acted.want, acted.got} \subseteq {Kind[n] : n \in Nodes} \union {""}
    /\ fields \subseteq Nat
    /\ err \in Errors
    /\ done \in Nat

\* Where the client waits, a ref it knows stands for what it was shown: the
\* diffs of observations and mutations, the full captures and the extractions
\* add up to the table (session.go, rememberMutationRefs: the table must not
\* stay pinned to the last extract).
RefsNeverLie ==
    pc = "ready" =>
        \A i \in DOMAIN known \intersect DOMAIN Table : known[i] = Kind[Table[i]]

\* What is acted on is of the role and name that the client meant, whatever
\* the page did since, the retries included; a fill renumbers after its first
\* field (NamedFieldsOnly).
ActsOnWhatWasNamed == acted.field = 1 => acted.want = acted.got

\* The same for every field of a fill: interactor.go:255 says that the table
\* taken anew after each field keeps the next from a stale ref.
NamedFieldsOnly == acted.want = acted.got

\* One request runs to its end once at most, the recovery, the second try by
\* role and name and the repetition after a timeout included (session.go,
\* withRecovery; protocol.go: only a timeout may be repeated).
CompletedOnce == req.op # "fill" => done <= 1

\* A request is answered: the recovery does not go round for ever
\* (session.go, withRecovery: one retry).
RequestsEnd == pc \in {"try", "fill"} ~> pc = "ready"

\* An extract takes the payloads of the server only right after a navigate
\* that got past a challenge (session.go:103: every op that changes the
\* current page resets the flag).
SSROnlyAfterRecovery == recovered => cameBy

\* After Shutdown no Chrome that the session launched runs
\* (session.go:134: it releases the browser).
ShutdownReleases == pc = "shut" => up = {}
=============================================================================
