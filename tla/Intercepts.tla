----------------------------- MODULE Intercepts -----------------------------
(* One request interceptor of a browser (engine/intercept.go, rules of         *)
(* intercept_rules.go): a rod router with a catch-all handler for the rules    *)
(* file, one for each block pattern and one for the fulfill pattern, in this   *)
(* order.  Rod asks the first handler whose pattern matches a paused request,  *)
(* each request in a goroutine of its own, and carries out its answer after the*)
(* handler has counted it.                                                     *)
EXTENDS Naturals, Sequences, SequencesExt, FiniteSets, FiniteSetsExt

CONSTANTS Requests,   \* [url, method, headers], each made once
          Specs       \* [rules, blocks, fulfill, remove]: what the interceptor may be given

(* A URL and a pattern are sequences of pieces.  The star of a rule's glob is  *)
(* that of path.Match, which stops at a slash; that of the block and fulfill   *)
(* patterns is rod's, which does not.                                          *)
Star == "*"
Slash == "/"
RECURSIVE Glob(_, _, _)
Glob(p, u, spans) ==
  CASE p = <<>> -> u = <<>>
    [] p # <<>> /\ Head(p) = Star ->
         \E n \in 0..Len(u) :
           /\ spans \/ \A i \in 1..n : u[i] # Slash
           /\ Glob(Tail(p), SubSeq(u, n + 1, Len(u)), spans)
    [] OTHER -> u # <<>> /\ Head(p) = Head(u) /\ Glob(Tail(p), Tail(u), spans)

(* compileMatch: the regular expressions are those that look for a piece.      *)
CompileMatch(r, url) ==
  CASE r.type = "glob"  -> Glob(r.match, url, FALSE)
    [] r.type = "regex" -> \E i \in DOMAIN url : url[i] = r.match[1]
    [] r.type = "exact" -> url = r.match

(* MatchRule: the first rule whose method, if it has one, and pattern match.   *)
Fits(r, q) == r.method \in {"", q.method} /\ CompileMatch(r, q.url)
MatchRule(rules, q) == SelectInSeq(rules, LAMBDA r : Fits(r, q))

VARIABLES
  spec,      \* what the interceptor was given
  router,    \* "running", "stopping", "stopped"
  request,   \* each request: new, paused, counted or what became of it
  decision,  \* the answer of the handler that took it
  stats,     \* the counters
  told       \* the counters the command prints, taken once the router is stopped

vars == <<spec, router, request, decision, stats, told>>

Undecided == [as |-> "none", by |-> 0, headers |-> {}]
Counters == [blocked |-> 0, fulfilled |-> 0, passed |-> 0]
Counted == {"blocked", "fulfilled", "passed"}

(* StartIntercept refuses a specification without any pattern.                 *)
Init ==
  /\ spec \in {s \in Specs : s.rules # <<>> \/ s.blocks # <<>> \/ s.fulfill # <<>>}
  /\ router = "running"
  /\ request = [q \in Requests |-> "new"]
  /\ decision = [q \in Requests |-> Undecided]
  /\ stats = Counters
  /\ told = Counters

(* Chrome pauses what a handler's pattern matches; the rest goes its way.      *)
BlockAt(q) == SelectInSeq(spec.blocks, LAMBDA p : Glob(p, q.url, TRUE))
Fulfills(q) == spec.fulfill # <<>> /\ Glob(spec.fulfill, q.url, TRUE)

Paused(q) == router = "running" /\ (spec.rules # <<>> \/ BlockAt(q) # 0 \/ Fulfills(q))

Send(q) ==
  /\ request[q] = "new"
  /\ request' = [request EXCEPT ![q] = IF Paused(q) THEN "paused" ELSE "unseen"]
  /\ UNCHANGED <<spec, router, decision, stats, told>>

(* The handlers.  That of the rules continues a request no rule matches, which *)
(* ends rod's search.                                                          *)
Rule(q) ==
  LET i == MatchRule(spec.rules, q) IN
  IF i = 0 THEN [as |-> "passed", by |-> 0, headers |-> q.headers]
           ELSE [as |-> "fulfilled", by |-> i, headers |-> {}]
Block(q) == [as |-> "blocked", by |-> BlockAt(q), headers |-> {}]
Fulfill(q) ==
  IF spec.remove = {} THEN [as |-> "fulfilled", by |-> 0, headers |-> {}]
                      ELSE [as |-> "passed", by |-> 0, headers |-> q.headers \ spec.remove]

Decide(q) ==
  CASE spec.rules # <<>> -> Rule(q)
    [] BlockAt(q) # 0    -> Block(q)
    [] OTHER             -> Fulfill(q)

Handle(q) ==
  /\ request[q] = "paused"
  /\ decision' = [decision EXCEPT ![q] = Decide(q)]
  /\ request' = [request EXCEPT ![q] = "counted"]
  /\ stats' = [stats EXCEPT ![Decide(q).as] = @ + 1]
  /\ UNCHANGED <<spec, router, told>>

Settle(q) ==
  /\ request[q] = "counted"
  /\ request' = [request EXCEPT ![q] = decision[q].as]
  /\ UNCHANGED <<spec, router, decision, stats, told>>

(* Stop: interception is disabled, which lets go what is paused, and the event *)
(* loop ends; the handlers that run are not waited for.                        *)
Stop ==
  /\ router = "running"
  /\ router' = "stopping"
  /\ UNCHANGED <<spec, request, decision, stats, told>>

Released(q) ==
  /\ router # "running" /\ request[q] \in {"paused", "counted"}
  /\ request' = [request EXCEPT ![q] = "released"]
  /\ UNCHANGED <<spec, router, decision, stats, told>>

Snapshot ==
  /\ router = "stopping"
  /\ router' = "stopped"
  /\ told' = stats
  /\ UNCHANGED <<spec, request, decision, stats>>

Next ==
  \/ \E q \in Requests : Send(q) \/ Handle(q) \/ Settle(q) \/ Released(q)
  \/ Stop \/ Snapshot

Spec == Init /\ [][Next]_vars

-----------------------------------------------------------------------------
Done(c) == Cardinality({q \in Requests : decision[q].as = c})

(* Types of the variables.                                                     *)
TypeOK ==
  /\ router \in {"running", "stopping", "stopped"}
  /\ request \in [Requests -> {"new", "unseen", "paused", "counted", "released"} \cup Counted]
  /\ \A q \in Requests : decision[q].as \in Counted \cup {"none"}
  /\ stats \in [Counted -> Nat] /\ told \in [Counted -> Nat]

(* A mocked answer is the first matching rule's of the file: no rule before it *)
(* fits URL and method (MatchRule, "returns the first compiledRule whose       *)
(* pattern and method match").                                                 *)
FirstRuleAnswers ==
  \A q \in Requests :
    decision[q].by # 0 /\ decision[q].as = "fulfilled" =>
      LET fits(i) == /\ CompileMatch(spec.rules[i], q.url)
                     /\ spec.rules[i].method = "" \/ spec.rules[i].method = q.method
      IN fits(decision[q].by) /\ \A i \in 1..(decision[q].by - 1) : ~fits(i)

(* What the block list names does not reach the network while the interceptor  *)
(* runs without rules, nor is it answered by the mock.                         *)
BlockedStays ==
  \A q \in Requests :
    spec.rules = <<>> /\ BlockAt(q) # 0 => request[q] \notin {"fulfilled", "passed"}

(* The counters told are those of handlers that ran; each request is counted   *)
(* once.                                                                       *)
ToldTrue == \A c \in Counted : stats[c] = Done(c) /\ told[c] <= Done(c)

(* InterceptSpec.Rules: "each incoming request is matched against them before  *)
(* falling through to FulfillPattern / BlockPatterns".                         *)
RulesFallThrough ==
  \A q \in Requests :
    decision[q].as = "passed" /\ MatchRule(spec.rules, q) = 0 => BlockAt(q) = 0

(* cli/intercept.go: "Patterns use glob syntax (same as Chrome DevTools): *    *)
(* matches any sequence", and a rule's match is a glob by default.             *)
StarSpans ==
  \A q \in Requests :
    decision[q].as = "passed" =>
      ~\E i \in DOMAIN spec.rules :
         spec.rules[i].type = "glob" /\ spec.rules[i].method = "" /\ Glob(spec.rules[i].match, q.url, TRUE)
=============================================================================
