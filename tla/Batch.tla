-------------------------------- MODULE Batch --------------------------------
(* batch (cli/batch.go): the lines of a script run one after another on one    *)
(* page in one process; the result has a line on every step and one payload.   *)
EXTENDS Naturals, Sequences, SequencesExt

CONSTANTS Lines,      \* the lines a script may hold (see Dispatch)
          MaxLines,   \* bound: lines of the script
          MaxPage,    \* bound: changes of the page
          Connected,  \* the browser outlives the process, and its session has a state
          Agent       \* the agent profile

AllLines == {"#", "extract", "preview", "navigate", "navigate ?q=1", "click", "wait-ms", "bad"}
BatchAssumption ==
  /\ Lines \subseteq AllLines /\ MaxLines \in Nat /\ MaxPage \in Nat
  /\ Connected \in BOOLEAN /\ Agent \in BOOLEAN

VARIABLES script, next,   \* the lines, and how many have been read
          stop,           \* --stop-on-error
          page,           \* how often the page has changed
          saved,          \* the session's snapshot: the page it is of, or None
          last,           \* batchRunner.lastSnapshot
          steps, final,   \* BatchResult
          newest          \* the page the newest extraction of this session saw

vars == <<script, next, stop, page, saved, last, steps, final, newest>>

None == 99
NoFinal == [op |-> "none", of |-> None, base |-> None]

Init ==
  /\ script \in BoundedSeq(Lines, MaxLines) /\ stop \in BOOLEAN
  /\ saved \in IF Connected THEN {None, 0} ELSE {None}
  /\ newest = saved
  /\ next = 0 /\ page = 0 /\ last = None /\ steps = << >> /\ final = NoFinal

Line == script[next + 1]
More == next < Len(script) /\ ~(stop /\ steps # << >> /\ ~Last(steps).ok)

(* BatchStep, Summary and Final: the payload of the newest step that has one.  *)
Succeed(payload) ==
  /\ steps' = Append(steps, [cmd |-> Line, ok |-> TRUE])
  /\ final' = IF payload = NoFinal THEN final ELSE payload
Fail == steps' = Append(steps, [cmd |-> Line, ok |-> FALSE]) /\ UNCHANGED final

Read(l) == More /\ Line = l /\ next' = next + 1 /\ UNCHANGED <<script, stop>>

(* Blank lines and comments are no steps.                                      *)
Comment == Read("#") /\ UNCHANGED <<page, saved, last, steps, final, newest>>

(* Browser.SaveSnapshot keeps nothing without a session.                       *)
Save == saved' = IF Connected THEN page' ELSE saved
Seen == newest' = page'

-----------------------------------------------------------------------------
(* cmdExtract: compared with the extract before it in the script, or else with *)
(* the session's snapshot.                                                     *)
Prev == IF last # None THEN last ELSE saved
Extract ==
  /\ Read("extract")
  /\ \/ /\ UNCHANGED page /\ Save /\ Seen /\ last' = page
        /\ Succeed([op |-> "extract", of |-> page, base |-> IF Agent THEN Prev ELSE None])
     \/ Fail /\ UNCHANGED <<page, saved, last, newest>>

(* cmdPreview: it keeps its snapshot for the refs and not for the comparison.  *)
Preview ==
  /\ Read("preview") /\ page < MaxPage /\ page' = page + 1
  /\ \/ Save /\ Seen /\ Succeed([op |-> "preview", of |-> page', base |-> None])
     \/ Fail /\ UNCHANGED <<saved, newest>>
  /\ UNCHANGED last

(* cmdNavigate: parseArgs takes what holds an = for an option, so that an      *)
(* address with a query is no argument.                                        *)
Positional(l) == l # "navigate ?q=1"
Navigate ==
  /\ \E l \in {"navigate", "navigate ?q=1"} :
       /\ Read(l)
       /\ IF Positional(l)
          THEN /\ page < MaxPage /\ page' = page + 1
               /\ Fail \/ Succeed([op |-> "navigate", of |-> page', base |-> None])
          ELSE Fail /\ UNCHANGED page
  /\ UNCHANGED <<saved, last, newest>>

(* cmdClick and the others that take a ref; a ref of a page that has changed   *)
(* since may or may not resolve.                                               *)
HasRefs == saved # None
Click ==
  /\ Read("click")
  /\ \/ /\ HasRefs /\ (page' = page \/ (page < MaxPage /\ page' = page + 1))
        /\ Succeed(NoFinal)
     \/ Fail /\ (HasRefs => saved # page) /\ UNCHANGED page
  /\ UNCHANGED <<saved, last, newest>>

(* wait-ms and scroll-to have neither a ref nor a payload; dispatch refuses    *)
(* what it does not know.                                                      *)
Wait == Read("wait-ms") /\ Succeed(NoFinal) /\ UNCHANGED <<page, saved, last, newest>>
Bad  == Read("bad") /\ Fail /\ UNCHANGED <<page, saved, last, newest>>

Next == Comment \/ Extract \/ Preview \/ Navigate \/ Click \/ Wait \/ Bad
Spec == Init /\ [][Next]_vars

-----------------------------------------------------------------------------
Pages == 0..MaxPage \union {None}
TypeOK ==
  /\ next \in 0..Len(script) /\ page \in 0..MaxPage
  /\ saved \in Pages /\ last \in Pages /\ newest \in Pages
  /\ Len(steps) <= next /\ \A i \in DOMAIN steps : steps[i].cmd \in Lines /\ steps[i].ok \in BOOLEAN
  /\ final.op \in {"none", "extract", "preview", "navigate"} /\ final.of \in Pages /\ final.base \in Pages

(* The refs a step takes are those of the newest extraction, whichever verb    *)
(* made it.                                                                    *)
RefsAreNewest == saved = newest

(* The payload is that of the newest step that succeeded with one, whatever    *)
(* failed, stopped or had none after it.                                       *)
WithPayload == {"extract", "preview", "navigate"}
FinalOfNewestPayload ==
  LET paid == SelectSeq(steps, LAMBDA s : s.ok /\ s.cmd \in WithPayload)
  IN  final.op = IF paid = << >> THEN "none" ELSE Last(paid).cmd

(* batch.go:49, "Only the FINAL command's payload is returned in full".        *)
FinalIsLastCommands ==
  (next = Len(script) /\ steps # << >>) => final.op \in {"none", Last(steps).cmd}

(* The same words: what is returned in full is no difference to a snapshot     *)
(* that a step of the script took and nobody was given.                        *)
FinalInFull == final.base \in {None, 0}

(* batch.go:56 and 74, "navigate <url>": a line with an address goes there.    *)
AddressIsArgument ==
  [][(Navigate /\ Line = "navigate ?q=1") => page' = page + 1]_vars

(* batch.go:129, "even when not connected to a persistent Chrome": the refs    *)
(* of an extract can be used by the steps after it.                            *)
ExtractGivesRefs == last # None => HasRefs
=============================================================================
