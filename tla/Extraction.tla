----------------------------- MODULE Extraction -----------------------------
(* The extraction of a page (engine/extractor.go): the accessibility nodes     *)
(* that a level lets through, in document order, a scope given by a selector,  *)
(* the frames of the same origin, the @N refs of what can be acted on, and the *)
(* copies cut down to a ref or a depth that a command prints.                  *)
EXTENDS Naturals, Sequences, SequencesExt, FiniteSetsExt

CONSTANTS MaxNodes,        \* bound: accessibility nodes of the main document
          MaxFrames,       \* bound: frames of the page
          Kinds,           \* the kinds of node that occur (see Shown)
          Levels,          \* the levels asked for
          MaxIframeDepth   \* maxIframeDepth

AllKinds == {"button", "bare", "text", "treeitem", "generic"}
ExtractionAssumption ==
  /\ MaxNodes \in Nat /\ MaxFrames \in Nat /\ MaxIframeDepth \in Nat
  /\ Kinds \subseteq AllKinds /\ Levels \subseteq {"skeleton", "content", "full"}

VARIABLES page,     \* the accessibility tree, the DOM subtree of the selector, the frames
          asked,    \* the level, and whether a selector was given
          result,   \* ExtractionResult, whose refs the session keeps
          printed   \* what the command prints of it

vars == <<page, asked, result, printed>>

Nodes  == 1..MaxNodes
Frames == 1..MaxFrames

(* Trees whose nodes are numbered in document order: a node hangs from the one *)
(* before it or from an ancestor of that one.  0 is the top.                   *)
RECURSIVE Above(_, _)
Above(up, n) == IF up[n] = 0 THEN {} ELSE {up[n]} \union Above(up, up[n])
Forests(n) ==
  {up \in [1..n -> 0..(n - 1)] :
     \A i \in 1..n : up[i] < i /\ (up[i] \in {0, i - 1} \/ (i > 1 /\ up[i] \in Above(up, i - 1)))}

Main == 0    \* the main document among the frames

Pages == [up : Forests(MaxNodes), kind : [Nodes -> Kinds], within : SUBSET Nodes,
          host : Forests(MaxFrames), own : [Frames -> 0..1], reads : [Frames -> BOOLEAN]]

(* "bare" is a button without a DOM node; a selector reaches only DOM nodes.   *)
Init ==
  /\ page \in {p \in Pages : \A n \in p.within : p.kind[n] # "bare"}
  /\ asked \in [level : Levels, selector : BOOLEAN]
  /\ asked.selector \/ page.within = {}
  /\ result = << >> /\ printed = << >>

Ascending(S) == SetToSortSeq(S, <)

-----------------------------------------------------------------------------
(* shouldInclude: a treeitem is in no level's list and full takes it for its   *)
(* name; what is ignored or generic never shows.                               *)
Shown == [skeleton |-> {"button", "bare"},
          content  |-> {"button", "bare", "text"},
          full     |-> {"button", "bare", "text", "treeitem"}]
Included(level) == {n \in Nodes : page.kind[n] \in Shown[level]}

(* interactiveRoles, and the node must be one of the DOM.                      *)
IsRef(n)  == page.kind[n] \in {"button", "treeitem"}

(* buildTree from one root: what a node lets out is passed over, not cut off.  *)
BuildTree(root, level) ==
  Ascending({n \in Included(level) : n = root \/ root \in Above(page.up, n)})
TreeRoots == {n \in Nodes : page.up[n] = 0}

(* scopeRootsForBackends, hasScopedAncestor.                                   *)
ScopedAncestor(n) == Above(page.up, n) \intersect page.within # {}
ScopeRoots == {n \in page.within : ~ScopedAncestor(n)}

Build(roots, level) ==
  FlattenSeq([i \in 1..Cardinality(roots) |-> BuildTree(Ascending(roots)[i], level)])

(* resolveScope and the second chance: a scope that holds nothing to show      *)
(* gives the whole page and a warning.                                         *)
Fallback(level) == IF Build(ScopeRoots, level) = << >> THEN TreeRoots ELSE ScopeRoots
RootsUsed(level, selector) == IF selector THEN Fallback(level) ELSE TreeRoots
IsScoped(level, selector) == selector /\ Fallback(level) = ScopeRoots /\ ScopeRoots # {}

-----------------------------------------------------------------------------
(* appendSameOriginIframesAt: a frame that cannot be read takes its frames     *)
(* with it, and so does the depth.                                             *)
Nesting(f)  == 1 + Cardinality(Above(page.host, f))
Walked      == {f \in Frames : Nesting(f) <= MaxIframeDepth /\ \A g \in {f} \union Above(page.host, f) : page.reads[g]}
(* pageForFrameAt, which looks for a frame when a ref of it is used.           *)
Found(f) == Nesting(f) <= MaxIframeDepth
(* stampFrame runs before the frames within are appended.                      *)
Stamped(f) == f
FrameRefs == LET holding == Ascending({f \in Walked : page.own[f] = 1})
             IN  [i \in 1..Len(holding) |-> [node |-> 0, doc |-> holding[i], frame |-> Stamped(holding[i])]]

(* The refs of a result: position k is @k.                                     *)
RefsOf(nodes, level) ==
  LET acted == SelectSeq(nodes, IsRef)
  IN  [i \in 1..Len(acted) |-> [node |-> acted[i], doc |-> Main, frame |-> Main]]

(* ExtractWithTimeout.                                                         *)
ResultOf(level, selector) ==
  LET nodes  == Build(RootsUsed(level, selector), level)
      scoped == IsScoped(level, selector)
  IN  [nodes |-> nodes, warned |-> selector /\ ~scoped,
       refs  |-> RefsOf(nodes, level) \o IF scoped THEN << >> ELSE FrameRefs]

Extract ==
  /\ result = << >>
  /\ result' = <<ResultOf(asked.level, asked.selector)>>
  /\ UNCHANGED <<page, asked, printed>>

-----------------------------------------------------------------------------
(* What is printed: refs with the nodes they stand for.                        *)
Held == result[1]
Depth(n) == Cardinality(Above(page.up, n) \intersect ToSet(Held.nodes))

Near(r, d) == IF r.doc = Main THEN Depth(r.node) <= d ELSE Nesting(r.doc) <= d
Below(r, at) == r = at \/ (at.doc = Main /\ r.doc = Main /\ at.node \in Above(page.up, r.node))

(* limitNodeDepth; the nodes of a frame hang below the frame's own.            *)
LimitAnew(d) ==      \* mutant: the copy is numbered anew
  LET kept == SelectSeq(Held.refs, LAMBDA r : Near(r, d)) IN {<<k, kept[k]>> : k \in DOMAIN kept}
LimitDepth(d) == {<<k, Held.refs[k]>> : k \in {j \in DOMAIN Held.refs : Near(Held.refs[j], d)}}
(* ExtractionForRef: the node of a ref and what is below it.                   *)
ForRef(k) == {<<j, Held.refs[j]>> : j \in {i \in DOMAIN Held.refs : Below(Held.refs[i], Held.refs[k])}}

Emit ==
  /\ result # << >> /\ printed = << >>
  /\ \/ \E d \in 0..MaxNodes : printed' = <<LimitDepth(d)>>
     \/ \E k \in DOMAIN Held.refs : printed' = <<ForRef(k)>>
  /\ UNCHANGED <<page, asked, result>>

Next == Extract \/ Emit
Spec == Init /\ [][Next]_vars

-----------------------------------------------------------------------------
Refs == [node : 0..MaxNodes, doc : 0..MaxFrames, frame : 0..MaxFrames]
TypeOK ==
  /\ asked \in [level : Levels, selector : BOOLEAN]
  /\ \A i \in DOMAIN result :
       /\ result[i].nodes \in Seq(Nodes) /\ result[i].warned \in BOOLEAN
       /\ result[i].refs \in Seq(Refs)
  /\ \A i \in DOMAIN printed : \A e \in printed[i] : e[1] \in 1..(MaxNodes + MaxFrames) /\ e[2] \in Refs

(* extractor.go:475, "the caller gets the subtree and nothing above it": a     *)
(* scoped result holds each node of the DOM subtree that the level shows, what *)
(* hangs below such a node in the accessibility tree, and each of them once.   *)
ScopeIsSubtree ==
  (result # << >> /\ asked.selector /\ ~Held.warned) =>
    /\ ToSet(Held.nodes) = {n \in Included(asked.level) : n \in page.within \/ ScopedAncestor(n)}
    /\ Len(Held.nodes) = Cardinality(ToSet(Held.nodes))

(* A selector that holds nothing to show never makes the answer empty: it is   *)
(* the whole page then, and the warning says so.                               *)
SelectorNeverEmpties ==
  (result # << >> /\ asked.selector) =>
    LET whole == Ascending(Included(asked.level))
    IN  (Held.nodes = << >> => whole = << >>) /\ (Held.warned => Held.nodes = whole)

(* A ref of a frame can be followed: the frame noted for it is the one that    *)
(* holds the node, and pageForFrame goes as deep as the extraction went.       *)
FrameRefsReach ==
  result # << >> =>
    \A k \in DOMAIN Held.refs :
      LET r == Held.refs[k] IN r.doc # Main => r.frame = r.doc /\ Found(r.frame)

(* The refs that are printed of a cut copy are those the session keeps: the    *)
(* number stands for the node it will be resolved to.                          *)
PrintedRefsHold ==
  \A i \in DOMAIN printed : \A e \in printed[i] : e[1] \in DOMAIN Held.refs /\ Held.refs[e[1]] = e[2]

(* A page that has not changed has the same refs at every level, so that the   *)
(* skeleton taken after an action compares with what an extract of another     *)
(* level left (snapshot_diff.go:11).                                           *)
LevelsAgree ==
  (result # << >> /\ ~asked.selector) => ResultOf("skeleton", FALSE).refs = Held.refs

(* extract.go:44, "skeleton - interactive elements + landmarks only": every    *)
(* element that can be acted on is in the skeleton.                            *)
SkeletonHasInteractive ==
  (result # << >> /\ ~asked.selector) =>
    \A n \in Nodes : IsRef(n) => n \in ToSet(Build(TreeRoots, "skeleton"))
=============================================================================
