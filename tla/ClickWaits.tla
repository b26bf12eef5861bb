------------------------------ MODULE ClickWaits ------------------------------
(* What a click brings about, and what the code waits for after it             *)
(* (engine/popup_watch.go, interactor.go, runtime/ops.go opRef): a new tab that*)
(* is adopted, a navigation of the page, a download.  Chrome tells of them in  *)
(* two streams, one of the browser that the popup watch reads and one of the   *)
(* page that its event hub reads; both run behind what has happened.           *)
EXTENDS Naturals, Sequences, FiniteSets, FiniteSetsExt

CONSTANTS MaxClicks,    \* clicks of the session
          MaxTargets,   \* tabs Chrome opens in all
          MaxNavs,      \* events of the page stream in all
          MaxDownloads, \* downloads begun in all
          Cap,          \* popupWatchCap
          HasHub        \* FALSE under stealth, where no hub is attached

ClickAssumption == /\ {MaxNavs, MaxDownloads} \subseteq Nat /\ {MaxClicks, MaxTargets, Cap} \subseteq Nat \ {0}
                          /\ HasHub \in BOOLEAN

Looks   == {"popup", "nav", "download", "plain"}   \* what actionableJS says
Frames  == {"main", "inner"}
Changes == {"document", "within", "parsed"}         \* events of the page stream
Phases  == {"idle", "probe", "input", "nav", "reading", "load", "download", "beginning", "popup"}

VARIABLES
  targets,    \* the tabs, in the order Chrome made them: opener, alive
  here,       \* the page of the session
  wire,       \* events of the browser stream the watch has not read
  watch,      \* the watch: seq, events, downloads
  news,       \* events of the page stream the hub has not read
  ring,       \* what the hub drains
  doc,        \* documents the main frame has committed; its address
  begun,      \* downloads Chrome has begun
  hints,      \* clickPopupHints, clickNavHints and clickDownloadHints of the page
  click,      \* the click in hand: its number, page, look, phase and cursors
  result      \* of the last click: the tab taken, how its waits ended

vars == <<targets, here, wire, watch, news, ring, doc, begun, hints, click, result>>

None == 0
NoResult == [taken |-> None, nav |-> "none", frame |-> "none", download |-> "none", lost |-> {}]

Init ==
  /\ targets = <<[opener |-> None, alive |-> TRUE]>>
  /\ here = 1
  /\ wire = << >> /\ news = << >> /\ ring = << >>
  /\ watch = [seq |-> 0, events |-> << >>, downloads |-> 0]
  /\ doc = 0 /\ begun = 0
  /\ hints = [popup |-> FALSE, nav |-> FALSE, download |-> FALSE]
  /\ click = [n |-> 0, page |-> 1, look |-> "plain", phase |-> "idle", mark |-> 0, made |-> 1, counted |-> 0, from |-> 1, since |-> 1, at |-> 0, before |-> 0, dmark |-> 0]
  /\ result = NoResult

(* Chrome: what the page does, on a click's input or by itself. *)
Opened(p, t) == [kind |-> "target", opener |-> p, target |-> t]
DownloadNews == [kind |-> "download", opener |-> None, target |-> None]

OpenTarget(p) ==
  /\ Len(targets) < MaxTargets /\ targets[p].alive
  /\ targets' = Append(targets, [opener |-> p, alive |-> TRUE])
  /\ wire' = Append(wire, Opened(p, Len(targets) + 1))
  /\ UNCHANGED <<news, doc, begun>>

BeginDownload ==
  /\ begun < MaxDownloads
  /\ begun' = begun + 1
  /\ wire' = Append(wire, DownloadNews)
  /\ UNCHANGED <<targets, news, doc>>

Commit(frame, change) ==
  /\ Len(news) + Len(ring) < MaxNavs
  /\ news' = Append(news, [frame |-> frame, change |-> change])
  /\ doc' = IF frame = "main" /\ change # "parsed" THEN doc + 1 ELSE doc
  /\ UNCHANGED <<targets, wire, begun>>

(* Pages do these by themselves or on an input, at once or later: the code     *)
(* cannot tell which.                                                          *)
PageActs ==
  /\ \/ \E p \in DOMAIN targets : OpenTarget(p)
     \/ BeginDownload
     \/ \E f \in Frames, c \in Changes : Commit(f, c)
  /\ UNCHANGED <<here, watch, ring, hints, click, result>>

TargetCloses(t) ==
  /\ t # here /\ targets[t].alive
  /\ targets' = [targets EXCEPT ![t].alive = FALSE]
  /\ UNCHANGED <<here, wire, watch, news, ring, doc, begun, hints, click, result>>

(* popupWatch.loop, with push (the list keeps the newest Cap) and noteDownload. *)
Entered(w, e) == Append(w.events, [seq |-> w.seq + 1, opener |-> e.opener, target |-> e.target])
Push(w, e) ==
  LET all == Entered(w, e) IN [w EXCEPT !.seq = @ + 1,
               !.events = IF Len(all) > Cap THEN SubSeq(all, Len(all) - Cap + 1, Len(all)) ELSE all]
WatchReads ==
  /\ wire # << >>
  /\ wire' = Tail(wire)
  /\ watch' = IF Head(wire).kind = "target" THEN Push(watch, Head(wire))
              ELSE [watch EXCEPT !.downloads = @ + 1]
  /\ UNCHANGED <<targets, here, news, ring, doc, begun, hints, click, result>>

HubReads ==
  /\ HasHub /\ news # << >>
  /\ news' = Tail(news)
  /\ ring' = Append(ring, Head(news))
  /\ UNCHANGED <<targets, here, wire, watch, doc, begun, hints, click, result>>

(* opRef: PopupMark before the click.  The result of the last one is dropped.  *)
Mark ==
  /\ click.phase = "idle" /\ click.n < MaxClicks
  /\ click' = [click EXCEPT !.n = @ + 1, !.page = here, !.phase = "probe", !.mark = watch.seq, !.made = Len(targets)]
  /\ result' = NoResult
  /\ UNCHANGED <<targets, here, wire, watch, news, ring, doc, begun, hints>>
(* checkActionable: one look at the element sets all three hints.              *)
Probe(look) ==
  /\ click.phase = "probe"
  /\ hints' = [h \in DOMAIN hints |-> h = look]
  /\ click' = [click EXCEPT !.phase = "input", !.look = look, !.from = Len(ring) + 1]
  /\ UNCHANGED <<targets, here, wire, watch, news, ring, doc, begun, result>>

(* The press itself: from here on the page may act on it.  The address and the *)
(* download count of this instant are kept for the properties.                 *)
Input ==
  /\ click.phase = "input"
  /\ click' = [click EXCEPT !.phase = "nav", !.at = doc, !.counted = watch.downloads]
  /\ UNCHANGED <<targets, here, wire, watch, news, ring, doc, begun, hints, result>>

(* PressKey (Enter) and SubmitOnElement: no probe and no mark; the navigation  *)
(* hint is set by hand, the wait is the same, and nothing else is waited for.  *)
PressEnter ==
  /\ click.phase = "idle" /\ click.n < MaxClicks
  /\ click' = [click EXCEPT !.n = @ + 1, !.page = here, !.look = "enter", !.phase = "nav", !.from = Len(ring) + 1, !.at = doc]
  /\ hints' = [hints EXCEPT !.nav = TRUE]
  /\ result' = NoResult
  /\ UNCHANGED <<targets, here, wire, watch, news, ring, doc, begun>>

AfterNav == IF click.look = "enter" THEN "idle" ELSE "download"

(* WaitForClickNavigation begins: the hub is asked for what came since 50 ms   *)
(* ago, which is this click's events and perhaps older ones; without a hub the *)
(* address is read now.                                                        *)
BeginNavWaitNow ==    \* mutant: the window begins now
  /\ click.phase = "nav"
  /\ click' = IF hints.nav THEN [click EXCEPT !.phase = "reading", !.since = Len(ring) + 1, !.before = doc]
                           ELSE [click EXCEPT !.phase = AfterNav]
  /\ UNCHANGED <<targets, here, wire, watch, news, ring, doc, begun, hints, result>>
BeginNavWait ==
  /\ click.phase = "nav"
  /\ IF hints.nav
     THEN IF HasHub THEN \E s \in 1..click.from : click' = [click EXCEPT !.phase = "reading", !.since = s]
                    ELSE click' = [click EXCEPT !.phase = "reading", !.before = doc]
     ELSE click' = [click EXCEPT !.phase = AfterNav]
  /\ UNCHANGED <<targets, here, wire, watch, news, ring, doc, begun, hints, result>>

Moves(e) == e.change \in {"document", "within"}

(* waitFrameNavigated: the first event of a navigation, of whatever frame.     *)
MovesSince == {i \in click.since..Len(ring) : Moves(ring[i])}
FirstMove == Min(MovesSince)

NavSeen ==
  /\ click.phase = "reading" /\ HasHub /\ MovesSince # {}
  /\ click' = [click EXCEPT !.phase = IF ring[FirstMove].change = "document" THEN "load" ELSE AfterNav]
  /\ result' = [result EXCEPT !.nav = ring[FirstMove].change, !.frame = ring[FirstMove].frame]
  /\ UNCHANGED <<targets, here, wire, watch, news, ring, doc, begun, hints>>

AddressChanged ==
  /\ click.phase = "reading" /\ ~HasHub /\ doc # click.before
  /\ click' = [click EXCEPT !.phase = "load"]
  /\ result' = [result EXCEPT !.nav = "document", !.frame = "main"]
  /\ UNCHANGED <<targets, here, wire, watch, news, ring, doc, begun, hints>>

NavTimesOut ==
  /\ click.phase = "reading"
  /\ HasHub => MovesSince = {}
  /\ ~HasHub => doc = click.before
  /\ click' = [click EXCEPT !.phase = AfterNav]
  /\ result' = [result EXCEPT !.nav = "timeout"]
  /\ UNCHANGED <<targets, here, wire, watch, news, ring, doc, begun, hints>>

(* WaitLifecycleSince and WaitForPage: the document is parsed, or time is up;  *)
(* neither outcome is looked at.                                               *)
LoadWaitEnds ==
  /\ click.phase = "load"
  /\ click' = [click EXCEPT !.phase = AfterNav]
  /\ UNCHANGED <<targets, here, wire, watch, news, ring, doc, begun, hints, result>>

(* WaitForClickDownload: the cursor is read here, after the click.             *)
BeginDownloadWait ==
  /\ click.phase = "download"
  /\ click' = IF hints.download THEN [click EXCEPT !.phase = "beginning", !.dmark = watch.downloads]
                                ELSE [click EXCEPT !.phase = "popup"]
  /\ UNCHANGED <<targets, here, wire, watch, news, ring, doc, begun, hints, result>>

DownloadWaitEnds ==
  /\ click.phase = "beginning"
  /\ click' = [click EXCEPT !.phase = "popup"]
  /\ result' = [result EXCEPT !.download = IF watch.downloads > click.dmark THEN "seen" ELSE "timeout"]
  /\ UNCHANGED <<targets, here, wire, watch, news, ring, doc, begun, hints>>

(* take: the first entry after the mark that this page opened.                 *)
TakeableOfAny(e) == e.seq > click.mark      \* mutant: of whatever opener
Takeable(e) == e.seq > click.mark /\ e.opener = here
Entries == {i \in DOMAIN watch.events : Takeable(watch.events[i])}
Entry == Min(Entries)
Without(s, i) == [j \in 1..(Len(s) - 1) |-> s[IF j < i THEN j ELSE j + 1]]

(* Another page has another hub, which begins empty.                           *)
MoveTo(t) == here' = t /\ news' = << >> /\ ring' = << >> /\ doc' = 0

(* TakePopup: the entry leaves the list before its page is asked for; when     *)
(* that fails, the target is gone for the loop that tries again.               *)
TakeTarget ==
  /\ click.phase = "popup" /\ Entries # {}
  /\ watch' = [watch EXCEPT !.events = Without(@, Entry)]
  /\ LET t == watch.events[Entry].target IN
       \/ /\ targets[t].alive
          /\ result' = [result EXCEPT !.taken = t]
          /\ MoveTo(t)                       \* opRef: adoptPage
          /\ click' = [click EXCEPT !.phase = "idle"]
       \/ /\ result' = [result EXCEPT !.lost = @ \cup {t}]
          /\ click' = IF hints.popup THEN click ELSE [click EXCEPT !.phase = "idle"]
          /\ UNCHANGED <<here, news, ring, doc>>
  /\ UNCHANGED <<targets, wire, begun, hints>>
(* popupWaitAfterClick: without a hint one look is all, with one the loop      *)
(* looks for 250 ms.  Nothing is taken when the loop ends.                     *)
NoTarget ==
  /\ click.phase = "popup" /\ Entries = {}
  /\ click' = [click EXCEPT !.phase = "idle"]
  /\ UNCHANGED <<targets, here, wire, watch, news, ring, doc, begun, hints, result>>

(* Tabs are switched by a command of the caller.                               *)
SwitchTab(t) ==
  /\ click.phase = "idle" /\ t # here /\ targets[t].alive
  /\ MoveTo(t)
  /\ result' = NoResult
  /\ UNCHANGED <<targets, wire, watch, begun, hints, click>>

Next ==
  \/ PageActs
  \/ \E t \in DOMAIN targets : TargetCloses(t) \/ SwitchTab(t)
  \/ WatchReads \/ HubReads
  \/ Mark \/ (\E l \in Looks : Probe(l)) \/ Input \/ PressEnter
  \/ BeginNavWait \/ NavSeen \/ AddressChanged \/ NavTimesOut \/ LoadWaitEnds
  \/ BeginDownloadWait \/ DownloadWaitEnds
  \/ TakeTarget \/ NoTarget

Spec == Init /\ [][Next]_vars

-------------------------------------------------------------------------------
(* The cursors never run ahead of the watch, and its list stays in its cap, in *)
(* the order of arrival, of tabs that exist (popupWatch).                      *)
TypeOK ==
  /\ here \in DOMAIN targets /\ targets[here].alive
  /\ Len(watch.events) <= Cap
  /\ \A i, j \in DOMAIN watch.events : i < j => watch.events[i].seq < watch.events[j].seq
  /\ \A i \in DOMAIN watch.events :
       /\ watch.events[i].seq \in 1..watch.seq
       /\ targets[watch.events[i].target].opener = watch.events[i].opener
  /\ click.mark <= watch.seq /\ click.dmark <= watch.downloads /\ watch.downloads <= begun
  /\ click.phase \in Phases /\ click.look \in Looks \cup {"enter"}
  /\ result.taken \in {None} \cup DOMAIN targets

(* The tab a click adopts was opened by the page it clicked, not by another    *)
(* page that opened one meanwhile (take).                                      *)
TakenIsOwn == result.taken # None => targets[result.taken].opener = click.page

(* A session waits for what the element it clicked looked like and for nothing *)
(* an earlier click looked like: "Button clicks skip this entirely"            *)
(* (checkActionable and the hint maps, kept per target from click to click).   *)
WaitsMatchLook ==
  /\ result.nav # "none" => click.look \in {"nav", "enter"}
  /\ result.download # "none" => click.look = "download"
  /\ Cardinality(result.lost) > 1 => click.look = "popup"

(* A click that looked like a popup gives up on a tab only when it has not been*)
(* told of one: each tab its page opened since the mark, and the watch has     *)
(* read, was asked for in vain, unless more than Cap came since (TakePopup).   *)
ToldOf == {t \in DOMAIN targets : /\ targets[t].opener = here /\ t > click.made
                                  /\ ~\E i \in DOMAIN wire : wire[i].target = t}
HintedTabTaken ==
  (click.phase = "popup" /\ click'.phase = "idle" /\ result'.taken = None
   /\ hints.popup /\ watch.seq - click.mark <= Cap) => ToldOf \subseteq result.lost

(* A wait for a navigation times out only when none was told since the press   *)
(* (WaitForClickNavigation: the hub is asked from 50 ms back; without a hub    *)
(* the address is compared).                                                   *)
NavNotMissed ==
  (click.phase = "reading" /\ result'.nav = "timeout") =>
    IF HasHub THEN \A i \in click.from..Len(ring) : ~Moves(ring[i])
              ELSE doc = click.at

(* "TakePopup returns a page opened by page since mark."                       *)
TakenIsNew == result.taken # None => result.taken > click.made

(* "WaitForClickNavigation waits for a same-tab navigation after a click": the *)
(* navigation it ends on is one of the page, not of a frame in it.             *)
NavIsOfPage == (result.nav = "document" /\ click.page = here) => result.frame = "main"

(* "WaitForClickDownload peeks for Browser.downloadWillBegin after a click":   *)
(* it does not run out when the watch has counted one since the press.         *)
DownloadNotMissed ==
  [][(click.phase = "beginning" /\ result'.download = "timeout") => watch.downloads = click.counted]_vars
===============================================================================
