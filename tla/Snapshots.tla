------------------------------ MODULE Snapshots ------------------------------
(* Snapshots and refs between commands (cli/snapshot_helpers.go, extract.go,   *)
(* navigate.go, engine/mutation.go, snapshot_diff.go): a command extracts the  *)
(* page, keeps the refs in the session's state and prints them, all of them or *)
(* what has changed; a later command takes @k for what the state says of it.   *)
(* The page belongs to the site and changes when it likes.                     *)
EXTENDS Naturals, Sequences, SequencesExt, FiniteSets

CONSTANTS Names,       \* role and name of an element
          MaxElements, \* bound: elements of the page
          MaxIds,      \* bound: backend node ids given out
          Commands,    \* the commands that are called (see Next)
          Agent,       \* the agent profile, in which extract prints a difference
          SaveFails    \* the state may be impossible to write

AllCommands == {"extract", "whole", "scope", "ref", "navigate", "url", "none", "diff", "full"}
SnapshotsAssumption ==
  /\ MaxElements \in Nat /\ MaxIds \in Nat /\ Commands \subseteq AllCommands
  /\ Agent \in BOOLEAN /\ SaveFails \in BOOLEAN

VARIABLES dom,     \* the elements, in document order
          given,   \* the last id given out
          saved,   \* PageSnapshot.Refs of the session: position k is @k
          view,    \* what the caller has been told of each ref
          doing    \* the action whose result is still to be captured

vars == <<dom, given, saved, view, doing>>

NoSnapshot == <<[id |-> 0, name |-> "none"]>>
Idle == [mode |-> "idle", looks |-> 0, prev |-> << >>]

Element(id, name) == [id |-> id, name |-> name]
NamesOf(s) == [k \in DOMAIN s |-> s[k].name]
IdsOf(s) == {s[k].id : k \in DOMAIN s}

Init ==
  /\ dom \in {[k \in 1..Len(s) |-> Element(k, s[k])] : s \in BoundedSeq(Names, 2)}
  /\ given = Len(dom) /\ saved = NoSnapshot /\ view = << >> /\ doing = Idle

-----------------------------------------------------------------------------
(* The page: an element comes, goes, or is drawn anew under another id.        *)
Drift ==
  /\ \/ \E i \in DOMAIN dom : dom' = RemoveAt(dom, i) /\ UNCHANGED given
     \/ \E i \in 1..(Len(dom) + 1), n \in Names :
          /\ Len(dom) < MaxElements /\ given < MaxIds
          /\ dom' = InsertAt(dom, i, Element(given + 1, n)) /\ given' = given + 1
     \/ \E i \in DOMAIN dom, n \in Names :
          /\ given < MaxIds
          /\ dom' = [dom EXCEPT ![i] = Element(given + 1, n)] /\ given' = given + 1
  /\ UNCHANGED <<saved, view, doing>>

-----------------------------------------------------------------------------
(* DiffRefs: by ref, role and name.                                            *)
Base(prev) == IF prev = NoSnapshot THEN << >> ELSE prev
DiffRefs(prev, curr) ==
  [removed |-> DOMAIN prev \ DOMAIN curr,
   changed |-> {k \in DOMAIN prev \intersect DOMAIN curr : prev[k].name # curr[k].name},
   added   |-> DOMAIN curr \ DOMAIN prev]
Unchanged(d) == d.removed \union d.changed \union d.added = {}

(* What a reader of the difference holds for true afterwards.                  *)
Apply(v, d, curr) ==
  [k \in (DOMAIN v \ d.removed) \union d.added \union d.changed |->
     IF k \in d.added \union d.changed THEN curr[k].name ELSE v[k]]

(* SaveSnapshot: what the page shows is kept under its target.                 *)
SaveSnapshot(s) == saved' = s

(* shouldDiff: in the agent profile, once there is something to compare with.  *)
ShouldDiff == Agent /\ saved # NoSnapshot

(* extract and snapshot without a target.                                      *)
ExtractPage ==
  /\ "extract" \in Commands /\ doing = Idle
  /\ SaveSnapshot(dom)
  /\ view' = IF ShouldDiff THEN Apply(view, DiffRefs(saved, dom), dom) ELSE NamesOf(dom)
  /\ UNCHANGED <<dom, given, doing>>

(* extract --diff off, goto, navigate --extract.                               *)
ExtractWhole ==
  /\ "whole" \in Commands /\ doing = Idle
  /\ SaveSnapshot(dom) /\ view' = NamesOf(dom)
  /\ UNCHANGED <<dom, given, doing>>

(* extract --selector: numbered from one and not kept.                         *)
ExtractScope ==
  /\ "scope" \in Commands /\ doing = Idle
  /\ \E from, to \in DOMAIN dom :
       /\ from <= to
       /\ LET shown == NamesOf(SubSeq(dom, from, to))
          IN  view' = [k \in DOMAIN view \union DOMAIN shown |-> IF k \in DOMAIN shown THEN shown[k] ELSE view[k]]
  /\ UNCHANGED <<dom, given, saved, doing>>

(* snapshot @k: the page is kept before the ref is looked for, and only what   *)
(* is below the ref is printed.                                                *)
ExtractRef ==
  /\ "ref" \in Commands /\ doing = Idle
  /\ SaveSnapshot(dom)
  /\ \E k \in 1..MaxElements :
       view' = IF k \in DOMAIN dom
               THEN [j \in DOMAIN view \union {k} |-> IF j = k THEN dom[k].name ELSE view[j]]
               ELSE view
  /\ UNCHANGED <<dom, given, doing>>

(* navigate: trySnapshot keeps the refs of the new page and prints none of     *)
(* them, or fails and leaves those of the page before.                         *)
Arrive == \E n \in Names : /\ given < MaxIds
                           /\ dom' = <<Element(given + 1, n)>> /\ given' = given + 1
Navigate ==
  /\ "navigate" \in Commands /\ doing = Idle
  /\ Arrive
  /\ SaveSnapshot(dom') \/ UNCHANGED saved
  /\ UNCHANGED <<view, doing>>

-----------------------------------------------------------------------------
(* ResolveRefSemantic: the node if it lives, else the name and its count.      *)
Nth(s, k) == Cardinality({j \in 1..(k - 1) : s[j].name = s[k].name})
Resolves(k) ==
  \/ saved[k].id \in IdsOf(dom)
  \/ LET same == SelectSeq(dom, LAMBDA e : e.name = saved[k].name)
     IN  Len(same) = 1 \/ Nth(saved, k) < Len(same)

(* click, type, press, select, check, drag, upload: the ref is acted on, and   *)
(* what it did to the page is still to come.  A ref that does not resolve ends *)
(* the command.                                                                *)
Act ==
  /\ doing = Idle /\ saved # NoSnapshot
  /\ \E mode \in Commands \intersect {"none", "diff", "full"}, k \in DOMAIN saved :
       Resolves(k) /\ doing' = [mode |-> mode, looks |-> 0, prev |-> saved]
  /\ UNCHANGED <<dom, given, saved, view>>

(* click @k url: ensureSnapshot opens the page and keeps its refs unprinted.   *)
ActUrl ==
  /\ "url" \in Commands /\ doing = Idle
  /\ Arrive /\ SaveSnapshot(dom')
  /\ doing' = [mode |-> "diff", looks |-> 0, prev |-> dom']
  /\ UNCHANGED view

(* emitMutationOutput: --snapshot none.                                        *)
Acknowledge ==
  /\ doing.mode = "none" /\ doing' = Idle
  /\ UNCHANGED <<dom, given, saved, view>>

(* --snapshot full: the wait, then the page state.                             *)
PrintFull ==
  /\ doing.mode = "full"
  /\ SaveSnapshot(dom) /\ view' = NamesOf(dom) /\ doing' = Idle
  /\ UNCHANGED <<dom, given>>

(* CaptureMutation: an unchanged page is given some time and looked at again.  *)
LookAgain ==
  /\ doing.mode = "diff" /\ doing.looks = 0
  /\ Unchanged(DiffRefs(Base(doing.prev), dom))
  /\ doing' = [doing EXCEPT !.looks = 1]
  /\ UNCHANGED <<dom, given, saved, view>>

(* The difference is printed whether or not its refs could be kept.            *)
Told(prev) == Apply(view, DiffRefs(Base(prev), dom), dom)
PrintDiff ==
  /\ doing.mode = "diff"
  /\ doing.looks = 1 \/ ~Unchanged(DiffRefs(Base(doing.prev), dom))
  /\ view' = Told(doing.prev) /\ doing' = Idle
  /\ SaveSnapshot(dom) \/ (SaveFails /\ UNCHANGED saved)
  /\ UNCHANGED <<dom, given>>

Next == Drift \/ ExtractPage \/ ExtractWhole \/ ExtractScope \/ ExtractRef \/ Navigate
        \/ Act \/ ActUrl \/ Acknowledge \/ PrintFull \/ LookAgain \/ PrintDiff
Spec == Init /\ [][Next]_vars

-----------------------------------------------------------------------------
Elements == [id : 0..MaxIds, name : Names \union {"none"}]
TypeOK ==
  /\ dom \in Seq(Elements) /\ saved \in Seq(Elements) /\ given \in 0..MaxIds
  /\ Len(dom) <= MaxElements /\ Cardinality(IdsOf(dom)) = Len(dom) /\ IdsOf(dom) \subseteq 1..given
  /\ DOMAIN view \subseteq 1..MaxElements /\ \A k \in DOMAIN view : view[k] \in Names
  /\ doing.mode \in {"idle", "none", "diff", "full"} /\ doing.looks \in {0, 1}

(* cli.md:207, "Refs (@1, @2, ...) come from the latest snapshot": between two *)
(* commands the refs the session keeps are those the caller has been told, by  *)
(* name, however many of the outputs were differences and whatever the page    *)
(* did meanwhile.                                                              *)
CallerInStep == (doing = Idle /\ saved # NoSnapshot) => view = NamesOf(saved)

(* A caller that prints the whole page is in step again, whatever the commands *)
(* before have left it with.                                                   *)
WholePageHeals ==
  (ExtractWhole \/ PrintFull) => view' = NamesOf(saved')

(* extract.go:57: an extract tells the page it is called on, whether it prints *)
(* all of it or a difference.                                                  *)
ExtractTells == [][ExtractPage => view' = NamesOf(dom)]_vars

(* snapshot_diff.go:51, "a key match indicates the same logical node slot": a  *)
(* ref that a difference leaves unmentioned stands for the element it stood    *)
(* for, as long as that element is on the page.                                *)
KeptIsSame ==
  [][(PrintDiff /\ saved' = dom) =>
       \A k \in DOMAIN doing.prev \intersect DOMAIN dom :
         (doing.prev[k].name = dom[k].name /\ doing.prev[k].id \in IdsOf(dom))
           => dom[k].id = doing.prev[k].id]_vars
=============================================================================
