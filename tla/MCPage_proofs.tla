---------------------------- MODULE MCPage_proofs ----------------------------
(* Proofs about what a command does on a page.  Each component's instance is   *)
(* taken at an arbitrary record v of its constants: its invariants and its     *)
(* theorems hold for every v that meets the component's assumption.  The       *)
(* families that the run checks follow, since a step of another component      *)
(* leaves a component's variables alone.                                       *)
EXTENDS MCPage, FiniteSetTheorems, WellFoundedInduction, TLAPS


\* The types of what the dialogs of a page keep.
Givers(v) == v.callers \union {"policy"}
Fates(v) ==
    [answer : Dialog(v)!Answers \union {"none"},
     by : Givers(v) \union {"none"}, allowed : SUBSET Dialog(v)!Answers]
HandleTypes(v) ==
    /\ policy \in Dialog(v)!Answers
    /\ keys \subseteq Dialog(v)!Handles
    /\ policies \in [Dialog(v)!Handles -> {"none", "session", "own"}]
    /\ listening \in [Dialog(v)!Handles -> Nat]
    /\ call \in v.clones \union {"none"}
EventTypes(v) ==
    /\ v.dialogs \in Nat /\ count \in 0..v.dialogs /\ open \in 0..count
    /\ heard \in [Dialog(v)!Handles \union v.callers -> SUBSET (1..count)]
AnswerTypes(v) == answered \in [1..v.dialogs -> Fates(v)]
HandTypes(v) ==
    hand \in [Dialog(v)!Handles ->
                [n : 1..count, answer : Dialog(v)!Answers, by : Givers(v)]
                  \union {Dialog(v)!NoHand}]
Requests(v) ==
    [state : {"idle", "waiting", "handled", "failed", "timed out"},
     answer : Dialog(v)!Answers \union {"none"},
     via : Dialog(v)!Handles \union {"none", "direct"}, since : Nat]
RequestTypes(v) ==
    /\ waiter \in [Dialog(v)!Handles -> v.callers \union {"none"}]
    /\ caller \in [v.callers -> Requests(v)]
    /\ \A c \in v.callers : caller[c].state = "waiting" \/ heard[c] # {} =>
          caller[c].answer \in Dialog(v)!Answers
    /\ \A h \in Dialog(v)!Handles : waiter[h] # "none" =>
          caller[waiter[h]].answer \in Dialog(v)!Answers
DialogShape(v) ==
    /\ HandleTypes(v) /\ EventTypes(v) /\ AnswerTypes(v) /\ HandTypes(v)
    /\ RequestTypes(v)

\* The request of the caller c is with the listener of the handle h.
Carries(h, c) == waiter[h] = c \/ hand[h].by = c

\* A request is in one place at a time: with the listener its caller went by,
\* or with the caller himself, or in the answer it has become.
OneRequest(v, c) ==
    /\ \A h \in Dialog(v)!Handles :
          /\ Carries(h, c) => caller[c].state # "idle" /\ caller[c].via = h
          /\ ~(waiter[h] = c /\ hand[h].by = c)
          /\ waiter[h] = c => caller[c].state = "waiting"
    /\ heard[c] # {} => Dialog(v)!Direct(c)
    /\ \A n \in 1..v.dialogs : answered[n].by = c =>
          /\ caller[c].state \notin {"idle", "waiting"}
          /\ \A h \in Dialog(v)!Handles : ~Carries(h, c)
          /\ \A m \in 1..v.dialogs : answered[m].by = c => m = n
RequestsOnce(v) == \A c \in v.callers : OneRequest(v, c)

\* What is yet to open has no answer.
NoneAhead(v) == \A n \in 1..v.dialogs : n > count => answered[n].by = "none"

\* A handle has a listener only with an entry, and the page's stays.
Listeners(v) ==
    /\ \A h \in Dialog(v)!Handles :
          listening[h] <= 1 /\ (h \notin keys => listening[h] = 0)
    /\ v.page \in keys => listening[v.page] = 1

\* The page has its entry from the start, and no other handle answers.
OneSession(v) == v.clones = {} /\ v.preinstalled = TRUE /\ v.closes = FALSE

\* The policy object's answers are those the open dialog may have.
ByPolicy(v) ==
    /\ policies[v.page] = "session"
    /\ open # 0 => policy \in answered[open].allowed
    /\ hand[v.page].by = "policy" /\ hand[v.page].n = open =>
          hand[v.page].answer \in answered[open].allowed
    /\ \A n \in 1..count : answered[n].by = "policy" =>
          answered[n].answer \in answered[n].allowed

DialogInv(v) == DialogShape(v) /\ RequestsOnce(v) /\ NoneAhead(v)

LEMMA DialogNames ==
    ASSUME NEW v, Dialog(v)!DialogAssumption
    PROVE  /\ v.dialogs \in Nat \ {0} /\ v.page \notin v.clones
           /\ v.page \in Dialog(v)!Handles /\ v.clones \subseteq Dialog(v)!Handles
           /\ v.callers \intersect Dialog(v)!Handles = {}
           /\ \A x \in {"none", "policy", "direct"} :
                x \notin v.callers /\ x \notin Dialog(v)!Handles
BY DEF Dialog!DialogAssumption, Dialog!Handles

LEMMA DialogInit ==
    ASSUME NEW v, Dialog(v)!DialogAssumption, Dialog(v)!Init
    PROVE  /\ DialogInv(v) /\ Listeners(v)
           /\ OneSession(v) => ByPolicy(v)
<1>. USE DialogNames DEF Dialog!Init
<1>1. HandleTypes(v)
  BY DEF HandleTypes, Dialog!Answers, Dialog!Handles
<1>2. EventTypes(v)
  BY DEF EventTypes
<1>3. AnswerTypes(v)
  BY DEF AnswerTypes, Fates, Givers
<1>4. HandTypes(v)
  BY DEF HandTypes
<1>5. RequestTypes(v)
  BY DEF RequestTypes, Requests, Dialog!Idle, Dialog!Handles
<1>6. RequestsOnce(v)
  BY DEF RequestsOnce, OneRequest, Carries, Dialog!NoHand, Dialog!Handles
<1>7. NoneAhead(v)
  BY DEF NoneAhead
<1>8. Listeners(v)
  BY DEF Listeners
<1>9. OneSession(v) => ByPolicy(v)
  BY DEF OneSession, ByPolicy, Dialog!NoHand
<1>. QED BY <1>1, <1>2, <1>3, <1>4, <1>5, <1>6, <1>7, <1>8, <1>9
         DEF DialogInv, DialogShape

\* What the listener of the handle h takes into its hand.
LEMMA Taken ==
    ASSUME NEW v, Dialog(v)!DialogAssumption, DialogShape(v),
           NEW h \in Dialog(v)!Handles, Dialog(v)!Take(h)
    PROVE  \E n \in heard[h], give \in
                  [n : 1..count, answer : Dialog(v)!Answers, by : Givers(v)] :
             /\ give.n = n
             /\ waiter[h] # "none" => give.by = waiter[h] /\ waiter[h] \in v.callers
             /\ waiter[h] = "none" =>
                  give.by = "policy" /\ give.answer = Dialog(v)!PolicyOf(h)
             /\ hand' = [hand EXCEPT ![h] = give]
             /\ heard' = [heard EXCEPT ![h] = @ \ {n}]
<1>1. PICK n \in heard[h] :
        /\ heard' = [heard EXCEPT ![h] = @ \ {n}]
        /\ hand' = [hand EXCEPT ![h] = IF waiter[h] # "none"
                     THEN [n |-> n, answer |-> caller[waiter[h]].answer,
                           by |-> waiter[h]]
                     ELSE [n |-> n, answer |-> Dialog(v)!PolicyOf(h),
                            by |-> "policy"]]
  BY DEF Dialog!Take
<1>2. n \in 1..count
  BY DEF DialogShape, EventTypes
<1>3. Dialog(v)!PolicyOf(h) \in Dialog(v)!Answers
  BY DEF DialogShape, HandleTypes, Dialog!PolicyOf, Dialog!Answers
<1>4. waiter[h] # "none" =>
        waiter[h] \in v.callers /\ caller[waiter[h]].answer \in Dialog(v)!Answers
  BY DEF DialogShape, RequestTypes
<1>5. CASE waiter[h] # "none"
  <2>. DEFINE give == [n |-> n, answer |-> caller[waiter[h]].answer,
         by |-> waiter[h]]
  <2>1. give \in [n : 1..count, answer : Dialog(v)!Answers, by : Givers(v)]
    BY <1>2, <1>4, <1>5 DEF Givers
  <2>. QED BY <1>1, <1>4, <1>5, <2>1
<1>6. CASE waiter[h] = "none"
  <2>. DEFINE give == [n |-> n, answer |-> Dialog(v)!PolicyOf(h), by |-> "policy"]
  <2>1. give \in [n : 1..count, answer : Dialog(v)!Answers, by : Givers(v)]
    BY <1>2, <1>3 DEF Givers
  <2>. QED BY <1>1, <1>6, <2>1
<1>. QED BY <1>5, <1>6

\* What an answer leaves: the dialog closed, if it was open, and told by whom.
LEMMA Closed ==
    ASSUME NEW v, DialogShape(v), NEW n \in 1..count, NEW a \in Dialog(v)!Answers,
           NEW by \in Givers(v), Dialog(v)!Closes(n, a, by)
    PROVE  /\ open' \in {0, open} /\ answered' \in [1..v.dialogs -> Fates(v)]
           /\ \A m \in 1..v.dialogs :
                \/ answered'[m] = answered[m]
                \/ m = n /\ open = n /\ answered'[m].by = by
                     /\ answered'[m].answer = a
                     /\ answered'[m].allowed = answered[m].allowed
<1>1. n \in 1..v.dialogs
  BY DEF DialogShape, EventTypes
<1>2. answered \in [1..v.dialogs -> Fates(v)]
  BY DEF DialogShape, AnswerTypes
<1>3. CASE open = n
  <2>1. PICK fate : fate = [answered[n] EXCEPT !.answer = a, !.by = by]
    OBVIOUS
  <2>2. answered' = [answered EXCEPT ![n] = fate] /\ open' = 0
    BY <1>1, <1>2, <1>3, <2>1 DEF Dialog!Closes
  <2>3. /\ fate \in Fates(v) /\ fate.by = by /\ fate.answer = a
        /\ fate.allowed = answered[n].allowed
    BY <1>1, <1>2, <2>1 DEF Fates
  <2>. QED BY <1>1, <1>2, <1>3, <2>2, <2>3
<1>4. CASE open # n
  BY <1>2, <1>4 DEF Dialog!Closes
<1>. QED BY <1>3, <1>4

LEMMA HandleTypesKeep ==
    ASSUME NEW v, Dialog(v)!DialogAssumption, HandleTypes(v),
           [Dialog(v)!Next]_(Dialog(v)!vars)
    PROVE  HandleTypes(v)'
<1>. USE DEF HandleTypes
<1>1. CASE Dialog(v)!StartHandler
  <2>1. v.page \in Dialog(v)!Handles
    BY DialogNames
  <2>. QED BY <1>1, <2>1 DEF Dialog!StartHandler, Dialog!Install, Dialog!calls
<1>2. ASSUME NEW h \in Dialog(v)!Handles, Dialog(v)!Navigate(h)
      PROVE  HandleTypes(v)'
  BY <1>2 DEF Dialog!Navigate, Dialog!Install, Dialog!calls, Dialog!chrome
<1>3. ASSUME NEW a \in Dialog(v)!Answers, Dialog(v)!SetPolicy(a)
      PROVE  HandleTypes(v)'
  BY <1>3 DEF Dialog!SetPolicy, Dialog!tables, Dialog!calls
<1>4. ASSUME NEW h \in v.clones, Dialog(v)!CallBegins(h) PROVE HandleTypes(v)'
  BY <1>4 DEF Dialog!CallBegins, Dialog!tables
<1>5. CASE Dialog(v)!CallEnds
  BY <1>5 DEF Dialog!CallEnds
<1>6. CASE Dialog(v)!Close
  BY <1>6 DEF Dialog!Close, Dialog!calls
<1>7. CASE UNCHANGED <<policy, keys, policies, listening, call>>
  BY <1>7
<1>. QED BY <1>1, <1>2, <1>3, <1>4, <1>5, <1>6, <1>7
         DEF Dialog!Next, Dialog!ListenerNext, Dialog!CallerNext, Dialog!Take,
             Dialog!Answer, Dialog!Ask, Dialog!Refused, Dialog!AnswerDirect,
             Dialog!TimesOut, Dialog!Open, Dialog!tables, Dialog!calls,
             Dialog!chrome, Dialog!vars

LEMMA EventTypesKeep ==
    ASSUME NEW v, Dialog(v)!DialogAssumption, DialogShape(v),
           [Dialog(v)!Next]_(Dialog(v)!vars)
    PROVE  EventTypes(v)' /\ AnswerTypes(v)'
<1>0. /\ v.dialogs \in Nat /\ count \in 0..v.dialogs /\ open \in 0..count
      /\ heard \in [Dialog(v)!Handles \union v.callers -> SUBSET (1..count)]
      /\ answered \in [1..v.dialogs -> Fates(v)]
      /\ v.clones \subseteq Dialog(v)!Handles
  BY DialogNames DEF DialogShape, EventTypes, AnswerTypes
<1>1. ASSUME NEW a \in Dialog(v)!Answers, Dialog(v)!SetPolicy(a)
      PROVE  EventTypes(v)' /\ AnswerTypes(v)'
  <2>1. answered' \in [1..v.dialogs -> Fates(v)]
    BY <1>0, <1>1 DEF Dialog!SetPolicy, Fates
  <2>. QED BY <1>0, <1>1, <2>1 DEF Dialog!SetPolicy, EventTypes, AnswerTypes
<1>2. CASE Dialog(v)!Open
  <2>1. /\ count' = count + 1 /\ open' = count + 1 /\ count + 1 \in 1..v.dialogs
        /\ 1..count \subseteq 1..count' /\ count + 1 \in 1..count'
    BY <1>0, <1>2 DEF Dialog!Open
  <2>2. answered' \in [1..v.dialogs -> Fates(v)]
    <3>1. {policy} \in SUBSET Dialog(v)!Answers
      BY DEF DialogShape, HandleTypes
    <3>. QED BY <1>0, <1>2, <2>1, <3>1 DEF Dialog!Open, Fates
  <2>3. heard' \in [Dialog(v)!Handles \union v.callers -> SUBSET (1..count')]
    BY <1>0, <1>2, <2>1 DEF Dialog!Open
  <2>. QED BY <1>0, <2>1, <2>2, <2>3 DEF EventTypes, AnswerTypes
<1>3. CASE Dialog(v)!CallEnds
  BY <1>0, <1>3 DEF Dialog!CallEnds, Dialog!chrome, EventTypes, AnswerTypes
<1>4. ASSUME NEW h \in Dialog(v)!Handles, Dialog(v)!Take(h)
      PROVE  EventTypes(v)' /\ AnswerTypes(v)'
  <2>1. heard' \in [Dialog(v)!Handles \union v.callers -> SUBSET (1..count)]
    BY <1>0, <1>4, Taken
  <2>. QED BY <1>0, <1>4, <2>1 DEF Dialog!Take, Dialog!chrome, EventTypes,
              AnswerTypes
<1>5. ASSUME NEW h \in Dialog(v)!Handles, Dialog(v)!Answer(h)
      PROVE  EventTypes(v)' /\ AnswerTypes(v)'
  <2>1. hand[h] \in [n : 1..count, answer : Dialog(v)!Answers, by : Givers(v)]
    BY <1>5 DEF Dialog!Answer, DialogShape, HandTypes
  <2>2. /\ open' \in {0, open} /\ answered' \in [1..v.dialogs -> Fates(v)]
    BY <1>5, <2>1, Closed DEF Dialog!Answer
  <2>. QED BY <1>0, <1>5, <2>2 DEF Dialog!Answer, EventTypes, AnswerTypes
<1>6. ASSUME NEW c \in v.callers, Dialog(v)!AnswerDirect(c)
      PROVE  EventTypes(v)' /\ AnswerTypes(v)'
  <2>1. PICK n \in heard[c] : Dialog(v)!Closes(n, caller[c].answer, c)
    BY <1>6 DEF Dialog!AnswerDirect
  <2>2. n \in 1..count /\ caller[c].answer \in Dialog(v)!Answers /\ c \in Givers(v)
    BY <1>0, <1>6, <2>1 DEF DialogShape, RequestTypes, Givers
  <2>3. open' \in {0, open} /\ answered' \in [1..v.dialogs -> Fates(v)]
    BY <2>1, <2>2, Closed
  <2>. QED BY <1>0, <1>6, <2>3 DEF Dialog!AnswerDirect, EventTypes, AnswerTypes
<1>7. ASSUME NEW c \in v.callers, Dialog(v)!TimesOut(c)
      PROVE  EventTypes(v)' /\ AnswerTypes(v)'
  BY <1>0, <1>7 DEF Dialog!TimesOut, Dialog!chrome, EventTypes, AnswerTypes
<1>8. CASE UNCHANGED <<count, open, heard, answered>>
  BY <1>0, <1>8 DEF EventTypes, AnswerTypes
<1>. QED BY <1>1, <1>2, <1>3, <1>4, <1>5, <1>6, <1>7, <1>8
         DEF Dialog!Next, Dialog!ListenerNext, Dialog!CallerNext, Dialog!Ask,
             Dialog!Refused, Dialog!StartHandler, Dialog!Navigate, Dialog!Close,
             Dialog!CallBegins, Dialog!chrome, Dialog!vars

LEMMA HandTypesKeep ==
    ASSUME NEW v, Dialog(v)!DialogAssumption, DialogShape(v),
           [Dialog(v)!Next]_(Dialog(v)!vars)
    PROVE  HandTypes(v)'
<1>0. HandTypes(v) /\ count \in Nat
  BY DEF DialogShape, EventTypes
<1>1. CASE Dialog(v)!Open
  <2>1. UNCHANGED hand /\ 1..count \subseteq 1..count'
    BY <1>0, <1>1 DEF Dialog!Open
  <2>. QED BY <1>0, <2>1 DEF HandTypes, Dialog!NoHand
<1>2. ASSUME NEW h \in Dialog(v)!Handles, Dialog(v)!Take(h) PROVE HandTypes(v)'
  <2>1. UNCHANGED count
    BY <1>2 DEF Dialog!Take, Dialog!chrome
  <2>. QED BY <1>0, <1>2, <2>1, Taken DEF HandTypes, Dialog!NoHand
<1>3. ASSUME NEW h \in Dialog(v)!Handles, Dialog(v)!Answer(h) PROVE HandTypes(v)'
  BY <1>0, <1>3 DEF Dialog!Answer, HandTypes, Dialog!NoHand
<1>4. CASE UNCHANGED <<hand, count>>
  BY <1>0, <1>4 DEF HandTypes, Dialog!NoHand
<1>. QED BY <1>1, <1>2, <1>3, <1>4
         DEF Dialog!Next, Dialog!ListenerNext, Dialog!CallerNext, Dialog!Ask,
             Dialog!Refused, Dialog!StartHandler, Dialog!Navigate, Dialog!Close,
             Dialog!CallBegins, Dialog!CallEnds, Dialog!SetPolicy,
             Dialog!AnswerDirect, Dialog!TimesOut, Dialog!chrome, Dialog!vars

\* The caller c is told how his request went, or gives it up.
LEMMA Told ==
    ASSUME NEW v, RequestTypes(v), NEW c \in v.callers,
           NEW told \in {"handled", "failed", "timed out"},
           caller' = [caller EXCEPT ![c].state = told],
           waiter' \in [Dialog(v)!Handles -> v.callers \union {"none"}],
           \A h \in Dialog(v)!Handles : waiter'[h] \in {"none", waiter[h]},
           \A d \in v.callers : heard'[d] \subseteq heard[d]
    PROVE  RequestTypes(v)'
<1>1. caller[c] \in Requests(v)
  BY DEF RequestTypes
<1>2. PICK r : r = [caller[c] EXCEPT !.state = told]
  OBVIOUS
<1>3. /\ r \in Requests(v) /\ r.answer = caller[c].answer
      /\ r.state # "waiting"
  BY <1>1, <1>2 DEF Requests
<1>4. caller' = [caller EXCEPT ![c] = r]
  BY <1>2
<1>5. caller' \in [v.callers -> Requests(v)]
  BY <1>3, <1>4 DEF RequestTypes
<1>6. \A d \in v.callers :
        /\ caller'[d].answer = caller[d].answer
        /\ caller'[d].state = "waiting" => caller[d].state = "waiting"
  BY <1>3, <1>4 DEF RequestTypes
<1>7. ASSUME NEW d \in v.callers, caller'[d].state = "waiting" \/ heard'[d] # {}
      PROVE  caller'[d].answer \in Dialog(v)!Answers
  BY <1>6, <1>7 DEF RequestTypes
<1>8. ASSUME NEW h \in Dialog(v)!Handles, waiter'[h] # "none"
      PROVE  caller'[waiter'[h]].answer \in Dialog(v)!Answers
  BY <1>6, <1>8 DEF RequestTypes
<1>9. Dialog(v)!Answers' = Dialog(v)!Answers
  BY DEF Dialog!Answers
<1>. QED BY <1>5, <1>7, <1>8, <1>9 DEF RequestTypes, Requests

LEMMA RequestTypesKeep ==
    ASSUME NEW v, Dialog(v)!DialogAssumption, DialogShape(v),
           [Dialog(v)!Next]_(Dialog(v)!vars)
    PROVE  RequestTypes(v)'
<1>0. /\ RequestTypes(v)
      /\ heard \in [Dialog(v)!Handles \union v.callers -> SUBSET (1..count)]
      /\ v.callers \intersect Dialog(v)!Handles = {} /\ "none" \notin v.callers
      /\ v.clones \subseteq Dialog(v)!Handles
      /\ v.page \in Dialog(v)!Handles
  BY DialogNames DEF DialogShape, EventTypes
<1>1. CASE Dialog(v)!Open
  <2>1. UNCHANGED <<waiter, caller>>
    BY <1>1 DEF Dialog!Open
  <2>2. ASSUME NEW c \in v.callers, heard'[c] # {}
        PROVE  heard[c] # {} \/ caller[c].state = "waiting"
    BY <1>0, <1>1, <2>2 DEF Dialog!Open, Dialog!Direct
  <2>. QED BY <1>0, <2>1, <2>2 DEF RequestTypes, Requests
<1>2. ASSUME NEW h \in Dialog(v)!Handles, Dialog(v)!Take(h) PROVE RequestTypes(v)'
  <2>1. waiter' = [waiter EXCEPT ![h] = "none"] /\ UNCHANGED caller
        /\ \A c \in v.callers : heard'[c] = heard[c]
    BY <1>0, <1>2 DEF Dialog!Take
  <2>. QED BY <1>0, <2>1 DEF RequestTypes
<1>3. ASSUME NEW h \in Dialog(v)!Handles, Dialog(v)!Answer(h) PROVE RequestTypes(v)'
  <2>. DEFINE c == hand[h].by
  <2>1. CASE c \in v.callers /\ caller[c].state = "waiting"
    <3>1. PICK told \in {"handled", "failed"} :
            caller' = [caller EXCEPT ![c].state = told]
      BY <1>3, <2>1 DEF Dialog!Answer
    <3>. QED BY <1>0, <1>3, <2>1, <3>1, Told DEF Dialog!Answer, RequestTypes
  <2>2. CASE UNCHANGED <<waiter, caller, heard>>
    BY <1>0, <2>2 DEF RequestTypes
  <2>. QED BY <1>3, <2>1, <2>2 DEF Dialog!Answer
<1>4. ASSUME NEW c \in v.callers, NEW h \in Dialog(v)!Handles,
             NEW a \in Dialog(v)!Answers, Dialog(v)!Ask(c, h, a)
      PROVE  RequestTypes(v)'
  <2>1. count \in Nat
    BY DEF DialogShape, EventTypes
  <2>2. waiter' \in [Dialog(v)!Handles -> v.callers \union {"none"}]
    BY <1>0, <1>4 DEF Dialog!Ask, RequestTypes
  <2>3. PICK via \in Dialog(v)!Handles \union {"direct"} :
          caller' = [caller EXCEPT ![c] = [state |-> "waiting", answer |-> a,
                                           since |-> count, via |-> via]]
    BY <1>4 DEF Dialog!Ask
  <2>4. PICK ask \in Requests(v) :
          ask.answer = a /\ caller' = [caller EXCEPT ![c] = ask]
    BY <2>1, <2>3 DEF Requests
  <2>5. /\ caller' \in [v.callers -> Requests(v)] /\ caller'[c].answer = a
        /\ \A d \in v.callers : d # c => caller'[d] = caller[d]
    BY <1>0, <2>4 DEF RequestTypes
  <2>6. UNCHANGED heard /\ \A g \in Dialog(v)!Handles :
          waiter'[g] \in {waiter[g], c}
    BY <1>0, <1>4 DEF Dialog!Ask, RequestTypes
  <2>7. \A d \in v.callers : caller'[d].state = "waiting" \/ heard'[d] # {} =>
          caller'[d].answer \in Dialog(v)!Answers
    BY <1>0, <2>5, <2>6 DEF RequestTypes
  <2>8. \A g \in Dialog(v)!Handles : waiter'[g] # "none" =>
          caller'[waiter'[g]].answer \in Dialog(v)!Answers
    BY <1>0, <2>5, <2>6 DEF RequestTypes
  <2>. QED BY <2>2, <2>5, <2>7, <2>8 DEF RequestTypes, Requests
<1>5. ASSUME NEW c \in v.callers, NEW h \in Dialog(v)!Handles,
             Dialog(v)!Refused(c, h)
      PROVE  RequestTypes(v)'
  BY <1>0, <1>5, Told DEF Dialog!Refused, RequestTypes
<1>6. ASSUME NEW c \in v.callers, Dialog(v)!AnswerDirect(c) PROVE RequestTypes(v)'
  <2>1. heard[c] # {} /\ heard' = [heard EXCEPT ![c] = {}] /\ UNCHANGED waiter
    BY <1>6 DEF Dialog!AnswerDirect
  <2>2. PICK told \in {"handled", "failed"} :
          caller' = [caller EXCEPT ![c].state = told]
    BY <1>6 DEF Dialog!AnswerDirect
  <2>. QED BY <1>0, <2>1, <2>2, Told DEF RequestTypes
<1>7. ASSUME NEW c \in v.callers, Dialog(v)!TimesOut(c) PROVE RequestTypes(v)'
  BY <1>0, <1>7, Told DEF Dialog!TimesOut, RequestTypes
<1>8. CASE Dialog(v)!CallEnds
  <2>1. call \in Dialog(v)!Handles
    BY <1>0, <1>8 DEF Dialog!CallEnds, DialogShape, HandleTypes
  <2>2. \A c \in v.callers : heard'[c] = heard[c]
    BY <1>0, <1>8, <2>1 DEF Dialog!CallEnds
  <2>. QED BY <1>0, <1>8, <2>2 DEF Dialog!CallEnds, RequestTypes
<1>9. CASE Dialog(v)!Close
  BY <1>0, <1>9 DEF Dialog!Close, RequestTypes
<1>10. CASE UNCHANGED <<waiter, caller, heard>>
  BY <1>0, <1>10 DEF RequestTypes
<1>. QED BY <1>1, <1>2, <1>3, <1>4, <1>5, <1>6, <1>7, <1>8, <1>9, <1>10
         DEF Dialog!Next, Dialog!ListenerNext, Dialog!CallerNext,
             Dialog!StartHandler, Dialog!Navigate, Dialog!CallBegins,
             Dialog!SetPolicy, Dialog!vars

\* What a caller is told changes nothing else of his.
LEMMA Marked ==
    ASSUME NEW v, RequestTypes(v), NEW d \in v.callers, NEW told,
           caller' = [caller EXCEPT ![d].state = told]
    PROVE  /\ caller'[d].state = told /\ caller'[d].via = caller[d].via
           /\ \A e \in v.callers : e # d => caller'[e] = caller[e]
<1>1. caller[d] \in Requests(v) /\ DOMAIN caller = v.callers
  BY DEF RequestTypes
<1>2. PICK r : r = [caller[d] EXCEPT !.state = told]
  OBVIOUS
<1>3. r.state = told /\ r.via = caller[d].via
  BY <1>1, <1>2 DEF Requests
<1>4. caller' = [caller EXCEPT ![d] = r]
  BY <1>2
<1>. QED BY <1>1, <1>3, <1>4

LEMMA OneRequestKeeps ==
    ASSUME NEW v, Dialog(v)!DialogAssumption, DialogShape(v),
           NEW c \in v.callers, OneRequest(v, c), [Dialog(v)!Next]_(Dialog(v)!vars)
    PROVE  OneRequest(v, c)'
<1>. USE DEF OneRequest, Carries, Dialog!Direct
<1>0. /\ RequestTypes(v)
      /\ waiter \in [Dialog(v)!Handles -> v.callers \union {"none"}]
      /\ DOMAIN hand = Dialog(v)!Handles /\ DOMAIN caller = v.callers
      /\ DOMAIN heard = Dialog(v)!Handles \union v.callers
      /\ c \notin {"none", "policy", "direct"} /\ c \notin Dialog(v)!Handles
      /\ "none" \notin Dialog(v)!Handles /\ "direct" \notin Dialog(v)!Handles
      /\ v.clones \subseteq Dialog(v)!Handles /\ v.page \in Dialog(v)!Handles
      /\ Dialog(v)!Handles' = Dialog(v)!Handles
  BY DialogNames DEF DialogShape, RequestTypes, HandTypes, EventTypes,
     Dialog!Handles
<1>1. ASSUME NEW a \in Dialog(v)!Answers, Dialog(v)!SetPolicy(a)
      PROVE  OneRequest(v, c)'
  <2>1. \A n \in 1..v.dialogs : answered'[n].by = answered[n].by
    BY <1>1 DEF Dialog!SetPolicy, DialogShape, AnswerTypes, Fates
  <2>. QED BY <1>0, <1>1, <2>1 DEF Dialog!SetPolicy
<1>2. CASE Dialog(v)!Open
  <2>1. \A n \in 1..v.dialogs : answered'[n].by = answered[n].by
    BY <1>2 DEF Dialog!Open, DialogShape, AnswerTypes, Fates
  <2>2. heard'[c] # {} => heard[c] # {} \/ Dialog(v)!Direct(c)
    BY <1>0, <1>2 DEF Dialog!Open
  <2>. QED BY <1>0, <1>2, <2>1, <2>2 DEF Dialog!Open
<1>3. ASSUME NEW h \in Dialog(v)!Handles, Dialog(v)!Take(h) PROVE OneRequest(v, c)'
  <2>1. /\ waiter' = [waiter EXCEPT ![h] = "none"] /\ hand[h].by = "none"
        /\ UNCHANGED <<caller, answered>> /\ heard'[c] = heard[c]
    BY <1>0, <1>3 DEF Dialog!Take, Dialog!NoHand, Dialog!chrome
  <2>2. hand'[h].by = c => waiter[h] = c
    BY <1>0, <1>3, Taken
  <2>3. \A g \in Dialog(v)!Handles : g # h => hand'[g] = hand[g]
    BY <1>0, <1>3 DEF Dialog!Take
  <2>. QED BY <1>0, <2>1, <2>2, <2>3
<1>4. ASSUME NEW h \in Dialog(v)!Handles, Dialog(v)!Answer(h)
      PROVE  OneRequest(v, c)'
  <2>1. hand[h] \in [n : 1..count, answer : Dialog(v)!Answers, by : Givers(v)]
    BY <1>4 DEF Dialog!Answer, DialogShape, HandTypes
  <2>2. /\ \A n \in 1..v.dialogs :
             answered'[n].by = answered[n].by \/ answered'[n].by = hand[h].by
        /\ \A n \in 1..v.dialogs : answered'[n].by = answered[n].by \/ n = hand[h].n
    BY <1>4, <2>1, Closed DEF Dialog!Answer
  <2>3. hand' = [hand EXCEPT ![h] = Dialog(v)!NoHand] /\ UNCHANGED <<waiter, heard>>
    BY <1>4 DEF Dialog!Answer
  <2>4. CASE hand[h].by # c
    <3>1. caller'[c] = caller[c]
      BY <1>0, <1>4, <2>4 DEF Dialog!Answer
    <3>. QED BY <1>0, <2>2, <2>3, <2>4, <3>1 DEF Dialog!NoHand
  <2>5. CASE hand[h].by = c
    <3>1. /\ caller'[c].state \notin {"idle", "waiting"}
          /\ caller'[c].via = caller[c].via
      <4>1. caller[c].state # "idle"
        BY <2>5
      <4>2. CASE caller[c].state = "waiting"
        <5>1. \E told \in {"handled", "failed"} :
                caller' = [caller EXCEPT ![c].state = told]
          BY <1>4, <2>5, <4>2 DEF Dialog!Answer
        <5>2. PICK told \in {"handled", "failed"} :
                caller' = [caller EXCEPT ![c].state = told]
          BY <5>1
        <5>. QED BY <1>0, <5>2, Marked
      <4>3. CASE caller[c].state # "waiting"
        BY <1>4, <2>5, <4>1, <4>3 DEF Dialog!Answer
      <4>. QED BY <4>2, <4>3
    <3>2. \A n \in 1..v.dialogs : answered[n].by # c
      BY <2>5
    <3>3. heard[c] = {}
      BY <1>0, <2>5
    <3>4. \A g \in Dialog(v)!Handles : waiter'[g] # c /\ hand'[g].by # c
      BY <1>0, <2>3, <2>5 DEF Dialog!NoHand
    <3>. QED BY <1>0, <2>2, <2>3, <3>1, <3>2, <3>3, <3>4
  <2>. QED BY <2>4, <2>5
<1>5. ASSUME NEW d \in v.callers, NEW h \in Dialog(v)!Handles,
             NEW a \in Dialog(v)!Answers, Dialog(v)!Ask(d, h, a)
      PROVE  OneRequest(v, c)'
  BY <1>0, <1>5 DEF Dialog!Ask, Dialog!chrome
<1>6. ASSUME NEW d \in v.callers, NEW h \in Dialog(v)!Handles,
             Dialog(v)!Refused(d, h)
      PROVE  OneRequest(v, c)'
  BY <1>0, <1>6 DEF Dialog!Refused, Dialog!chrome
<1>7. ASSUME NEW d \in v.callers, Dialog(v)!AnswerDirect(d) PROVE OneRequest(v, c)'
  <2>1. PICK n \in heard[d] : Dialog(v)!Closes(n, caller[d].answer, d)
    BY <1>7 DEF Dialog!AnswerDirect
  <2>2. n \in 1..count /\ caller[d].answer \in Dialog(v)!Answers /\ d \in Givers(v)
    BY <1>7, <2>1 DEF DialogShape, EventTypes, RequestTypes, Givers
  <2>3. /\ \A m \in 1..v.dialogs :
             answered'[m].by = answered[m].by \/ answered'[m].by = d
        /\ \A m \in 1..v.dialogs : answered'[m].by = answered[m].by \/ m = n
    BY <2>1, <2>2, Closed
  <2>4. /\ heard' = [heard EXCEPT ![d] = {}] /\ UNCHANGED <<waiter, hand>>
        /\ \E told \in {"handled", "failed"} :
              caller' = [caller EXCEPT ![d].state = told]
    BY <1>7 DEF Dialog!AnswerDirect
  <2>5. CASE c # d
    BY <1>0, <2>3, <2>4, <2>5
  <2>6. CASE c = d
    <3>1. Dialog(v)!Direct(c)
      BY <2>1, <2>6
    <3>2. \A m \in 1..v.dialogs : answered[m].by # c
      BY <3>1
    <3>3. \A g \in Dialog(v)!Handles : ~Carries(g, c)
      BY <1>0, <3>1
    <3>4. caller'[c].state \notin {"idle", "waiting"}
      <4>1. PICK told \in {"handled", "failed"} :
              caller' = [caller EXCEPT ![c].state = told]
        BY <2>4, <2>6
      <4>. QED BY <1>0, <4>1, Marked
    <3>5. heard'[c] = {}
      BY <1>0, <2>4, <2>6
    <3>. QED BY <1>0, <2>3, <2>4, <3>2, <3>3, <3>4, <3>5
  <2>. QED BY <2>5, <2>6
<1>8. ASSUME NEW d \in v.callers, Dialog(v)!TimesOut(d) PROVE OneRequest(v, c)'
  <2>1. /\ \A h \in Dialog(v)!Handles :
             waiter'[h] = IF waiter[h] = d THEN "none" ELSE waiter[h]
        /\ heard' = [heard EXCEPT ![d] = {}] /\ UNCHANGED <<hand, answered>>
        /\ caller' = [caller EXCEPT ![d].state = "timed out"]
        /\ caller[d].state = "waiting"
    BY <1>8 DEF Dialog!TimesOut, Dialog!chrome
  <2>2. /\ caller'[d].state = "timed out" /\ caller'[d].via = caller[d].via
        /\ c # d => caller'[c] = caller[c]
    BY <1>0, <2>1, Marked
  <2>3. heard'[c] = IF c = d THEN {} ELSE heard[c]
    BY <1>0, <2>1
  <2>4. CASE c # d
    <3>1. \A h \in Dialog(v)!Handles :
            (waiter'[h] = c <=> waiter[h] = c) /\ hand'[h] = hand[h]
      BY <1>0, <2>1, <2>4
    <3>2. caller'[c] = caller[c] /\ heard'[c] = heard[c] /\ UNCHANGED answered
      BY <2>1, <2>2, <2>3, <2>4
    <3>. QED BY <1>0, <3>1, <3>2
  <2>5. CASE c = d
    BY <1>0, <2>1, <2>2, <2>3, <2>5
  <2>. QED BY <2>4, <2>5
<1>9. CASE Dialog(v)!CallEnds
  <2>1. heard'[c] = heard[c]
    BY <1>0, <1>9 DEF Dialog!CallEnds, DialogShape, HandleTypes
  <2>. QED BY <1>0, <1>9, <2>1 DEF Dialog!CallEnds, Dialog!chrome
<1>10. CASE Dialog(v)!Close
  BY <1>0, <1>10 DEF Dialog!Close, Dialog!chrome
<1>11. CASE UNCHANGED <<waiter, caller, heard, hand, answered>>
  BY <1>0, <1>11
<1>. QED BY <1>1, <1>2, <1>3, <1>4, <1>5, <1>6, <1>7, <1>8, <1>9, <1>10, <1>11
         DEF Dialog!Next, Dialog!ListenerNext, Dialog!CallerNext,
             Dialog!StartHandler, Dialog!Navigate, Dialog!CallBegins,
             Dialog!vars, Dialog!chrome

LEMMA NoneAheadKeeps ==
    ASSUME NEW v, Dialog(v)!DialogAssumption, DialogShape(v), NoneAhead(v),
           [Dialog(v)!Next]_(Dialog(v)!vars)
    PROVE  NoneAhead(v)'
<1>. USE DEF NoneAhead
<1>0. count \in Nat /\ answered \in [1..v.dialogs -> Fates(v)]
  BY DEF DialogShape, EventTypes, AnswerTypes
<1>1. ASSUME NEW a \in Dialog(v)!Answers, Dialog(v)!SetPolicy(a) PROVE NoneAhead(v)'
  BY <1>0, <1>1 DEF Dialog!SetPolicy, Fates
<1>2. CASE Dialog(v)!Open
  BY <1>0, <1>2 DEF Dialog!Open, Fates
<1>3. ASSUME NEW n \in 1..count, NEW a \in Dialog(v)!Answers, NEW by \in Givers(v),
             Dialog(v)!Closes(n, a, by), UNCHANGED count
      PROVE  NoneAhead(v)'
  BY <1>0, <1>3, Closed
<1>4. ASSUME NEW h \in Dialog(v)!Handles, Dialog(v)!Answer(h) PROVE NoneAhead(v)'
  <2>1. hand[h] \in [n : 1..count, answer : Dialog(v)!Answers, by : Givers(v)]
    BY <1>4 DEF Dialog!Answer, DialogShape, HandTypes
  <2>. QED BY <1>3, <1>4, <2>1 DEF Dialog!Answer
<1>5. ASSUME NEW c \in v.callers, Dialog(v)!AnswerDirect(c) PROVE NoneAhead(v)'
  <2>1. PICK n \in heard[c] : Dialog(v)!Closes(n, caller[c].answer, c)
    BY <1>5 DEF Dialog!AnswerDirect
  <2>2. n \in 1..count /\ caller[c].answer \in Dialog(v)!Answers /\ c \in Givers(v)
    BY <2>1 DEF DialogShape, EventTypes, RequestTypes, Givers
  <2>. QED BY <1>3, <1>5, <2>1, <2>2 DEF Dialog!AnswerDirect
<1>6. CASE UNCHANGED <<count, answered>>
  BY <1>6
<1>. QED BY <1>1, <1>2, <1>4, <1>5, <1>6
         DEF Dialog!Next, Dialog!ListenerNext, Dialog!CallerNext, Dialog!Take,
             Dialog!Ask, Dialog!Refused, Dialog!TimesOut, Dialog!StartHandler,
             Dialog!Navigate, Dialog!CallBegins, Dialog!CallEnds, Dialog!Close,
             Dialog!vars, Dialog!chrome

LEMMA DialogKeeps ==
    ASSUME NEW v, Dialog(v)!DialogAssumption, DialogInv(v),
           [Dialog(v)!Next]_(Dialog(v)!vars)
    PROVE  DialogInv(v)'
<1>1. HandleTypes(v)' /\ EventTypes(v)' /\ AnswerTypes(v)' /\ HandTypes(v)'
        /\ RequestTypes(v)' /\ NoneAhead(v)'
  BY HandleTypesKeep, EventTypesKeep, HandTypesKeep, RequestTypesKeep,
     NoneAheadKeeps DEF DialogInv, DialogShape
<1>2. RequestsOnce(v)'
  BY OneRequestKeeps DEF DialogInv, RequestsOnce
<1>. QED BY <1>1, <1>2 DEF DialogInv, DialogShape

\* With the page kept by the session (no Browser.Close of an attached browser).
LEMMA ListenersKeep ==
    ASSUME NEW v, Dialog(v)!DialogAssumption, v.closes = FALSE, HandleTypes(v),
           Listeners(v), [Dialog(v)!Next]_(Dialog(v)!vars)
    PROVE  Listeners(v)'
<1>. USE DEF Listeners
<1>0. /\ listening \in [Dialog(v)!Handles -> Nat]
      /\ keys \subseteq Dialog(v)!Handles
      /\ v.page \in Dialog(v)!Handles /\ v.page \notin v.clones
      /\ call \in v.clones \union {"none"} /\ "none" \notin Dialog(v)!Handles
      /\ Dialog(v)!Handles' = Dialog(v)!Handles
  BY DialogNames DEF HandleTypes, Dialog!Handles
<1>1. ASSUME NEW h \in Dialog(v)!Handles, NEW p, Dialog(v)!Install(h, p)
      PROVE  Listeners(v)'
  BY <1>0, <1>1 DEF Dialog!Install
<1>2. CASE Dialog(v)!CallEnds
  BY <1>0, <1>2 DEF Dialog!CallEnds
<1>3. CASE UNCHANGED <<keys, listening>>
  BY <1>0, <1>3
<1>4. Dialog(v)!StartHandler => Listeners(v)'
  BY <1>0, <1>1 DEF Dialog!StartHandler
<1>5. \A h \in Dialog(v)!Handles : Dialog(v)!Navigate(h) => Listeners(v)'
  BY <1>1 DEF Dialog!Navigate
<1>. QED BY <1>2, <1>3, <1>4, <1>5
         DEF Dialog!Next, Dialog!ListenerNext, Dialog!CallerNext, Dialog!Take,
             Dialog!Ask, Dialog!Refused, Dialog!TimesOut, Dialog!Close,
             Dialog!Answer, Dialog!AnswerDirect, Dialog!Open, Dialog!SetPolicy,
             Dialog!CallBegins, Dialog!vars, Dialog!tables

LEMMA ByPolicyKeeps ==
    ASSUME NEW v, Dialog(v)!DialogAssumption, OneSession(v), DialogInv(v),
           ByPolicy(v), [Dialog(v)!Next]_(Dialog(v)!vars)
    PROVE  ByPolicy(v)'
<1>. USE DEF ByPolicy
<1>0. /\ count \in Nat /\ open \in 0..count /\ v.dialogs \in Nat
      /\ count <= v.dialogs
      /\ answered \in [1..v.dialogs -> Fates(v)]
      /\ policy \in Dialog(v)!Answers /\ DOMAIN policies = {v.page}
      /\ DOMAIN hand = {v.page} /\ Dialog(v)!Handles = {v.page}
      /\ hand[v.page].by = "policy" => hand[v.page].n \in 1..count
      /\ v.clones = {} /\ v.closes = FALSE /\ "policy" \notin v.callers
  BY DialogNames DEF DialogInv, DialogShape, HandleTypes, EventTypes, AnswerTypes,
     HandTypes, Dialog!NoHand, OneSession, Dialog!Handles
<1>1. ASSUME NEW a \in Dialog(v)!Answers, Dialog(v)!SetPolicy(a) PROVE ByPolicy(v)'
  <2>1. policy' = a /\ UNCHANGED <<policies, hand, open, count>>
    BY <1>1 DEF Dialog!SetPolicy, Dialog!tables
  <2>2. CASE open = 0
    BY <1>0, <1>1, <2>1, <2>2 DEF Dialog!SetPolicy
  <2>3. CASE open # 0
    <3>1. PICK fate : fate = [answered[open] EXCEPT !.allowed = @ \union {a}]
      OBVIOUS
    <3>2. answered' = [answered EXCEPT ![open] = fate]
      BY <1>1, <2>3, <3>1 DEF Dialog!SetPolicy
    <3>3. open \in 1..v.dialogs /\ answered[open] \in Fates(v)
      BY <1>0, <2>3
    <3>4. /\ fate.by = answered[open].by /\ fate.answer = answered[open].answer
          /\ fate.allowed = answered[open].allowed \union {a}
      BY <3>1, <3>3 DEF Fates
    <3>. QED BY <1>0, <2>1, <2>3, <3>2, <3>3, <3>4
  <2>. QED BY <2>2, <2>3
<1>2. CASE Dialog(v)!Open
  <2>1. /\ open' = count + 1 /\ count' = count + 1 /\ count + 1 \in 1..v.dialogs
        /\ UNCHANGED <<policy, policies, hand>>
        /\ \A n \in 1..v.dialogs :
              /\ answered'[n].by = answered[n].by
              /\ answered'[n].answer = answered[n].answer
              /\ answered'[n].allowed = IF n = count + 1 THEN {policy}
                                        ELSE answered[n].allowed
    BY <1>0, <1>2 DEF Dialog!Open, Dialog!tables, Fates
  <2>2. hand[v.page].n # count + 1 \/ hand[v.page].by # "policy"
    BY <1>0 DEF DialogInv, DialogShape, HandTypes, Dialog!NoHand
  <2>3. answered[count + 1].by = "none"
    BY <1>0, <2>1 DEF DialogInv, NoneAhead
  <2>. QED BY <1>0, <2>1, <2>2, <2>3
<1>3. ASSUME NEW h \in Dialog(v)!Handles, Dialog(v)!Take(h) PROVE ByPolicy(v)'
  <2>1. h = v.page /\ UNCHANGED <<policy, policies, open, count, answered>>
    BY <1>0, <1>3 DEF Dialog!Take, Dialog!tables, Dialog!chrome
  <2>2. hand'[h].by = "policy" =>
          hand'[h].answer = policy /\ hand'[h].n \in 1..count
    <3>1. Dialog(v)!PolicyOf(h) = policy
      BY <2>1 DEF Dialog!PolicyOf
    <3>. QED BY <1>0, <1>3, <3>1, Taken DEF DialogInv
  <2>. QED BY <1>0, <2>1, <2>2
<1>4. ASSUME NEW h \in Dialog(v)!Handles, Dialog(v)!Answer(h) PROVE ByPolicy(v)'
  <2>1. hand[h] \in [n : 1..count, answer : Dialog(v)!Answers, by : Givers(v)]
    BY <1>4 DEF Dialog!Answer, DialogInv, DialogShape, HandTypes
  <2>2. /\ open' \in {0, open}
        /\ \A m \in 1..v.dialogs :
             \/ answered'[m] = answered[m]
             \/ m = hand[h].n /\ open = hand[h].n /\ answered'[m].by = hand[h].by
                  /\ answered'[m].answer = hand[h].answer
                  /\ answered'[m].allowed = answered[m].allowed
    BY <1>4, <2>1, Closed DEF Dialog!Answer, DialogInv
  <2>3. /\ h = v.page /\ hand'[v.page].by = "none"
        /\ UNCHANGED <<policy, policies, count>>
    BY <1>0, <1>4 DEF Dialog!Answer, Dialog!tables, Dialog!NoHand
  <2>. QED BY <1>0, <2>2, <2>3
<1>5. ASSUME NEW c \in v.callers, Dialog(v)!AnswerDirect(c) PROVE ByPolicy(v)'
  <2>1. PICK n \in heard[c] : Dialog(v)!Closes(n, caller[c].answer, c)
    BY <1>5 DEF Dialog!AnswerDirect
  <2>2. n \in 1..count /\ caller[c].answer \in Dialog(v)!Answers /\ c \in Givers(v)
    BY <2>1 DEF DialogInv, DialogShape, EventTypes, RequestTypes, Givers
  <2>3. /\ open' \in {0, open}
        /\ \A m \in 1..v.dialogs :
             \/ answered'[m] = answered[m]
             \/ answered'[m].by = c /\ answered'[m].allowed = answered[m].allowed
    BY <2>1, <2>2, Closed DEF DialogInv
  <2>4. UNCHANGED <<policy, policies, count, hand>>
    BY <1>5 DEF Dialog!AnswerDirect, Dialog!tables
  <2>. QED BY <1>0, <2>3, <2>4
<1>6. CASE Dialog(v)!StartHandler \/ Dialog(v)!Navigate(v.page)
  <2>1. policies'[v.page] = "session"
    BY <1>0, <1>6 DEF Dialog!StartHandler, Dialog!Navigate, Dialog!Install
  <2>. QED BY <1>6, <2>1 DEF Dialog!StartHandler, Dialog!Navigate, Dialog!chrome
<1>7. CASE UNCHANGED <<policy, policies, count, open, hand, answered>>
  BY <1>7
<1>. QED BY <1>0, <1>1, <1>2, <1>3, <1>4, <1>5, <1>6, <1>7
         DEF Dialog!Next, Dialog!ListenerNext, Dialog!CallerNext, Dialog!Ask,
             Dialog!Refused, Dialog!TimesOut, Dialog!CallBegins, Dialog!CallEnds,
             Dialog!Close, Dialog!vars, Dialog!tables, Dialog!chrome

LEMMA DialogInvMeans ==
    ASSUME NEW v, Dialog(v)!DialogAssumption, DialogInv(v)
    PROVE  /\ Dialog(v)!OneShot
           /\ Listeners(v) => Dialog(v)!TypeOK
           /\ ByPolicy(v) => Dialog(v)!PolicyObeyed
<1>0. /\ count \in Nat /\ v.dialogs \in Nat /\ count <= v.dialogs
      /\ open \in 0..count /\ "none" \notin v.callers
      /\ waiter \in [Dialog(v)!Handles -> v.callers \union {"none"}]
  BY DialogNames DEF DialogInv, DialogShape, EventTypes, RequestTypes
<1>1. ASSUME NEW c \in v.callers
      PROVE  Cardinality({n \in 1..count : answered[n].by = c}) <= 1
  <2>. DEFINE S == {n \in 1..count : answered[n].by = c}
  <2>1. \A m, n \in S : m = n
    BY <1>0, <1>1 DEF DialogInv, RequestsOnce, OneRequest
  <2>2. S = {} \/ \E n : S = {n}
    BY <2>1
  <2>3. CASE S = {}
    BY <2>3, FS_EmptySet
  <2>4. CASE \E n : S = {n}
    BY <2>4, FS_Singleton
  <2>. QED BY <2>2, <2>3, <2>4
<1>2. ASSUME NEW h \in Dialog(v)!Handles, waiter[h] # "none"
      PROVE  caller[waiter[h]].state = "waiting"
  BY <1>0, <1>2 DEF DialogInv, RequestsOnce, OneRequest
<1>3. Listeners(v) => Dialog(v)!TypeOK
  BY <1>0, <1>2 DEF Listeners, Dialog!TypeOK
<1>4. ByPolicy(v) => Dialog(v)!PolicyObeyed
  BY DEF ByPolicy, Dialog!PolicyObeyed
<1>5. Dialog(v)!OneShot
  <2>1. \A S : Dialog(v)!Cardinality(S) = Cardinality(S)
    BY DEF Dialog!Cardinality, Cardinality
  <2>. QED BY <1>1, <2>1 DEF Dialog!OneShot
<1>. QED BY <1>3, <1>4, <1>5

\* A request for the next dialog answers one dialog at most, whichever handles
\* of the page have listeners and through clones that come and go
\* (HandleNextDialog).
THEOREM OneShotAnswersOnce ==
    ASSUME NEW v, Dialog(v)!DialogAssumption
    PROVE  Dialog(v)!Spec => []Dialog(v)!OneShot
<1>1. Dialog(v)!Init => DialogInv(v)
  BY DialogInit
<1>2. DialogInv(v) /\ [Dialog(v)!Next]_(Dialog(v)!vars) => DialogInv(v)'
  BY DialogKeeps
<1>3. DialogInv(v) => Dialog(v)!OneShot
  BY DialogInvMeans
<1>. QED BY <1>1, <1>2, <1>3, PTL DEF Dialog!Spec

\* Type correctness of a page whose session stays: an entry has one listener,
\* and who is waited for waits (StartDialogAutoHandler).
THEOREM DialogsTypeCorrect ==
    ASSUME NEW v, Dialog(v)!DialogAssumption, v.closes = FALSE
    PROVE  Dialog(v)!Spec => []Dialog(v)!TypeOK
<1>1. Dialog(v)!Init => DialogInv(v) /\ Listeners(v)
  BY DialogInit
<1>2. DialogInv(v) /\ Listeners(v) /\ [Dialog(v)!Next]_(Dialog(v)!vars)
        => DialogInv(v)' /\ Listeners(v)'
  BY DialogKeeps, ListenersKeep DEF DialogInv, DialogShape
<1>3. DialogInv(v) /\ Listeners(v) => Dialog(v)!TypeOK
  BY DialogInvMeans
<1>. QED BY <1>1, <1>2, <1>3, PTL DEF Dialog!Spec

\* On a page with its one handle every dialog that nobody asked for is answered
\* as the policy in force while it was open said, however often the policy is
\* changed and the handler started again (DialogAutoPolicy, StartDialogAutoHandler).
THEOREM PolicyIsObeyed ==
    ASSUME NEW v, Dialog(v)!DialogAssumption, OneSession(v)
    PROVE  Dialog(v)!Spec => []Dialog(v)!PolicyObeyed
<1>1. Dialog(v)!Init => DialogInv(v) /\ ByPolicy(v)
  BY DialogInit
<1>2. DialogInv(v) /\ ByPolicy(v) /\ [Dialog(v)!Next]_(Dialog(v)!vars)
        => DialogInv(v)' /\ ByPolicy(v)'
  BY DialogKeeps, ByPolicyKeeps
<1>3. DialogInv(v) /\ ByPolicy(v) => Dialog(v)!PolicyObeyed
  BY DialogInvMeans
<1>. QED BY <1>1, <1>2, <1>3, PTL DEF Dialog!Spec
----------------------------------------------------------------------------
\* The dialogs of the two instances; a step of another component is none of
\* theirs.
DialogsInv ==
    /\ part = "dialogs" =>
          DialogInv(OneHandle) /\ Listeners(OneHandle) /\ ByPolicy(OneHandle)
    /\ part = "dialogClones" => DialogInv(TwoHandles)

LEMMA DialogInstances == OneSession(OneHandle) /\ OneHandle.closes = FALSE
BY DEF OneHandle, OneSession

LEMMA DialogsKeep == DialogsInv /\ [Next]_vars => DialogsInv'
<1>. SUFFICES ASSUME DialogsInv, [Next]_vars PROVE DialogsInv'
  OBVIOUS
<1>. USE PageAssumption, DialogInstances DEF PageAssumption
<1>1. ASSUME NEW v, Dialog(v)!DialogAssumption, DialogInv(v),
             UNCHANGED vars \/ Dialog(v)!Next
      PROVE  /\ DialogInv(v)'
             /\ v.closes = FALSE /\ Listeners(v) => Listeners(v)'
             /\ OneSession(v) /\ ByPolicy(v) => ByPolicy(v)'
  <2>1. [Dialog(v)!Next]_(Dialog(v)!vars)
    BY <1>1 DEF vars, Dialog!vars
  <2>. QED BY <1>1, <2>1, DialogKeeps, ListenersKeep, ByPolicyKeeps
           DEF DialogInv, DialogShape
<1>2. CASE UNCHANGED vars
  <2>1. UNCHANGED part
    BY <1>2 DEF vars
  <2>. QED BY <1>1, <1>2, <2>1 DEF DialogsInv
<1>3. CASE part = "dialogs" /\ UNCHANGED part /\ Dialog(OneHandle)!Next
  BY <1>1, <1>3 DEF DialogsInv
<1>4. CASE part = "dialogClones" /\ UNCHANGED part /\ Dialog(TwoHandles)!Next
  BY <1>1, <1>4 DEF DialogsInv
<1>5. CASE part \notin {"dialogs", "dialogClones"} /\ UNCHANGED part
  BY <1>5 DEF DialogsInv
<1>. QED BY <1>2, <1>3, <1>4, <1>5 DEF Next, Step

\* Dialogs in the run of the pages: a policy for the next one answers one, and
\* each is answered as the policy in force says (HandleNextDialog,
\* StartDialogAutoHandler).
THEOREM DialogsAreRight == Spec => []DialogsHold
<1>1. Init => DialogsInv
  BY PageAssumption, DialogInstances, DialogInit
     DEF PageAssumption, Init, DialogsInv
<1>2. DialogsInv => DialogsHold
  BY PageAssumption, DialogInstances, DialogInvMeans
     DEF PageAssumption, DialogsInv, DialogsHold
<1>. QED BY <1>1, <1>2, DialogsKeep, PTL DEF Spec
----------------------------------------------------------------------------
\* The types of what a tab and the wait for its loads keep.
Places ==
    {"idle", "begun", "armed", "asked", "waiting", "page", "unheard",
     "listening", "returned"}
LoadCalls(v) ==
    [op : Load(v)!AllOps \union {"none"}, wait : Load(v)!AllStrategies,
     at : Places, how : {"none", "event", "deadline", "error"}, doc : Nat]
LoadShape(v) ==
    /\ v.docs \in Nat /\ docs \in 1..v.docs /\ shown \in 1..docs
    /\ pending \in 0..docs /\ stage \in [1..v.docs -> 0..3]
    /\ call \in LoadCalls(v) /\ call.doc \in 0..docs
    /\ armed \in BOOLEAN /\ heard \in 0..docs /\ frame = "main"

\* A document asked for is newer than the one shown, and what was never shown
\* has not begun to load.
Newer(v) ==
    /\ pending # 0 => pending > shown
    /\ \A d \in 1..v.docs : stage[d] > 0 => d <= shown

\* Only a navigation is registered before it asks, only the wait tool after.
ByNavigation ==
    /\ call.at \in {"begun", "armed", "asked", "waiting"} => call.op # "wait"
    /\ call.at \in {"page", "unheard", "listening"} => call.op = "wait"

\* The waiter for the event of the stage n of a navigation is there until the
\* call returns, what it has heard of has happened, and it has heard when the
\* document asked for has got so far.
Registered(n) ==
    /\ call.at \in {"armed", "asked", "waiting"} => armed
    /\ call.at \in {"armed", "asked", "waiting", "returned"} /\ heard # 0 =>
          stage[heard] >= n
    /\ call.at \in {"asked", "waiting"} /\ shown = call.doc
       /\ stage[shown] >= n => heard # 0
    /\ call.at = "returned" =>
          ~armed /\ (call.how = "event" => heard # 0)
Hears(v) ==
    call.op # "wait" /\ Load(v)!Name(call.wait) # 0 =>
       Registered(Load(v)!Name(call.wait))
LoadInv(v) == LoadShape(v) /\ Newer(v) /\ ByNavigation /\ Hears(v)

LEMMA LoadInit ==
    ASSUME NEW v, Load(v)!PageLoadsAssumption, Load(v)!Init
    PROVE  LoadInv(v)
<1>. USE DEF Load!Init, Load!PageLoadsAssumption
<1>1. call \in LoadCalls(v) /\ call.doc = 0 /\ call.at = "idle"
  BY DEF LoadCalls, Load!Idle, Load!AllStrategies, Load!AllOps, Places
<1>2. LoadShape(v)
  <2>1. v.docs \in Nat /\ 1 \in 1..v.docs
    OBVIOUS
  <2>2. /\ docs = 1 /\ shown = 1 /\ pending = 0 /\ heard = 0 /\ frame = "main"
        /\ stage \in [1..v.docs -> 0..3]
    BY <2>1
  <2>3. armed \in BOOLEAN
    BY Zenon
  <2>. QED BY <1>1, <2>1, <2>2, <2>3 DEF LoadShape
<1>3. Newer(v)
  BY DEF Newer
<1>4. ByNavigation
  BY <1>1 DEF ByNavigation
<1>5. Hears(v)
  BY <1>1 DEF Hears, Registered
<1>. QED BY <1>2, <1>3, <1>4, <1>5 DEF LoadInv

\* A call that goes on remembers what it was of.
LEMMA CallGoesOn ==
    ASSUME NEW v, call \in LoadCalls(v), NEW at \in Places,
           call' = [call EXCEPT !.at = at]
    PROVE  /\ call' \in LoadCalls(v) /\ call'.at = at /\ call'.how = call.how
           /\ call'.op = call.op /\ call'.wait = call.wait /\ call'.doc = call.doc
BY DEF LoadCalls

\* A return by the deadline, by an error or by what was waited for.
LEMMA Returned ==
    ASSUME NEW v, call \in LoadCalls(v),
           NEW how \in {"none", "event", "deadline", "error"}, Load(v)!Return(how)
    PROVE  /\ call' \in LoadCalls(v) /\ call'.at = "returned" /\ call'.how = how
           /\ call'.op = call.op /\ call'.wait = call.wait /\ call'.doc = call.doc
BY DEF Load!Return, LoadCalls, Places

LEMMA LoadKeeps ==
    ASSUME NEW v, Load(v)!PageLoadsAssumption, LoadInv(v),
           [Load(v)!Next]_(Load(v)!vars)
    PROVE  LoadInv(v)'
<1>0. /\ v.docs \in Nat /\ docs \in 1..v.docs /\ shown \in 1..docs
      /\ pending \in 0..docs /\ stage \in [1..v.docs -> 0..3]
      /\ call \in LoadCalls(v) /\ call.doc \in 0..docs /\ call.at \in Places
      /\ armed \in BOOLEAN /\ heard \in 0..docs /\ frame = "main"
      /\ Load(v)!Name(call.wait) \in 0..3
  BY DEF LoadInv, LoadShape, LoadCalls, Load!Name
<1>. DEFINE Tab == UNCHANGED <<docs, shown, stage, pending>>
            Heard == UNCHANGED <<heard, frame>>
            Same == /\ call'.op = call.op /\ call'.wait = call.wait
                    /\ call'.doc = call.doc /\ call' \in LoadCalls(v)
\* The call returns: the waiter has been taken away.
<1>1. ASSUME NEW how \in {"event", "deadline", "error"}, Load(v)!Return(how),
             armed' = FALSE, Tab, Heard,
             how = "event" /\ call.op # "wait" /\ Load(v)!Name(call.wait) # 0 =>
               call.at = "waiting" /\ heard # 0,
             call.at \in {"asked", "waiting", "page", "listening"}
      PROVE  LoadInv(v)'
  <2>1. Same /\ call'.at = "returned" /\ call'.how = how
    BY <1>0, <1>1, Returned
  <2>. QED BY <1>0, <1>1, <2>1
           DEF LoadInv, LoadShape, Newer, ByNavigation, Hears, Registered
<1>2. ASSUME NEW op \in v.ops, NEW wait \in v.strategies, Load(v)!Begin(op, wait)
      PROVE  LoadInv(v)'
  <2>1. /\ call' \in LoadCalls(v) /\ call'.op = op /\ call'.wait = wait
        /\ call'.at = (IF op = "wait" THEN "page" ELSE "begun")
        /\ call'.doc = 0 /\ Tab /\ Heard /\ UNCHANGED armed
    BY <1>2 DEF Load!Begin, Load!PageLoadsAssumption, LoadCalls, Places,
                Load!tab, Load!waiter
  <2>. QED BY <1>0, <2>1
           DEF LoadInv, LoadShape, Newer, ByNavigation, Hears, Registered
<1>3. CASE Load(v)!Arm
  <2>1. /\ Same /\ call'.at = "armed" /\ call.at = "begun" /\ Tab
        /\ heard' = 0 /\ frame' = "main"
    BY <1>0, <1>3, CallGoesOn DEF Load!Arm, Load!tab, Places
  <2>2. armed' \in BOOLEAN /\ (Load(v)!Name(call.wait) # 0 => armed')
    BY <1>3, Zenon DEF Load!Arm
  <2>. QED BY <1>0, <2>1, <2>2
           DEF LoadInv, LoadShape, Newer, ByNavigation, Hears, Registered
<1>4. CASE Load(v)!Request
  <2>1. /\ call.at = "armed" /\ docs < v.docs /\ docs' = docs + 1
        /\ pending' = docs + 1 /\ UNCHANGED <<shown, stage, armed, heard, frame>>
    BY <1>4 DEF Load!Request, Load!waiter
  <2>2. /\ call'.op = call.op /\ call'.wait = call.wait
        /\ call' \in LoadCalls(v) /\ call'.doc = docs + 1
        /\ call'.at \in {"asked", "waiting"}
    <3>1. PICK at \in {"asked", "waiting"} :
            call' = [call EXCEPT !.at = at, !.doc = docs + 1]
      BY <1>4 DEF Load!Request
    <3>2. docs + 1 \in Nat /\ at \in Places
      BY <1>0 DEF Places
    <3>. QED BY <1>0, <3>1, <3>2 DEF LoadCalls
  <2>. QED BY <1>0, <2>1, <2>2
           DEF LoadInv, LoadShape, Newer, ByNavigation, Hears, Registered
<1>5. CASE Load(v)!Committed
  <2>1. Tab /\ Heard /\ call.at = "asked"
    BY <1>5 DEF Load!Committed, Load!tab
  <2>2. CASE shown = call.doc
    <3>1. Same /\ call'.at = "waiting"
      BY <1>0, <1>5, <2>2, CallGoesOn DEF Load!Committed, Places
    <3>2. armed' \in BOOLEAN /\ (Load(v)!Name(call.wait) # 0 => armed')
      BY <1>5, <2>2, Zenon DEF Load!Committed
    <3>. QED BY <1>0, <2>1, <3>1, <3>2
             DEF LoadInv, LoadShape, Newer, ByNavigation, Hears, Registered
  <2>3. CASE shown # call.doc
    BY <1>1, <1>5, <2>1, <2>3 DEF Load!Committed
  <2>. QED BY <2>2, <2>3
<1>6. CASE Load(v)!WaitEvent
  BY <1>1, <1>6 DEF Load!WaitEvent, Load!Ends, Load!tab, LoadInv, ByNavigation
<1>7. CASE Load(v)!WaitDeadline
  <2>1. Load(v)!Ends("error") \/ Load(v)!Ends("deadline")
    BY <1>7 DEF Load!WaitDeadline, Load!NavDeadline, Load!PageDeadline
  <2>2. call.at \in {"asked", "waiting", "listening"}
    BY <1>7 DEF Load!WaitDeadline, Load!NavDeadline, Load!PageDeadline
  <2>. QED BY <1>1, <2>1, <2>2 DEF Load!Ends, Load!tab
<1>8. CASE Load(v)!WaitForPage
  <2>1. /\ call.at = "page" \/ (call.at = "waiting" /\ Load(v)!Name(call.wait) = 0)
        /\ call.wait \in Load(v)!AllStrategies
    BY <1>0, <1>8 DEF Load!WaitForPage, LoadCalls
  <2>2. \/ \E how \in {"event", "deadline"} : Load(v)!Ends(how)
        \/ /\ call.wait = "dcl" /\ call' = [call EXCEPT !.at = "unheard"]
           /\ Tab /\ Heard /\ UNCHANGED armed
    BY <1>8, <2>1 DEF Load!WaitForPage, Load!AllStrategies, Load!tab, Load!waiter
  <2>3. CASE \E how \in {"event", "deadline"} : Load(v)!Ends(how)
    BY <1>1, <2>1, <2>3 DEF Load!Ends, Load!tab, LoadInv, ByNavigation
  <2>4. CASE /\ call.wait = "dcl" /\ call' = [call EXCEPT !.at = "unheard"]
             /\ Tab /\ Heard /\ UNCHANGED armed
    <3>1. call.at = "page"
      BY <2>1, <2>4 DEF Load!Name
    <3>2. Same /\ call'.at = "unheard"
      BY <1>0, <2>4, CallGoesOn DEF Places
    <3>. QED BY <1>0, <2>4, <3>1, <3>2
             DEF LoadInv, LoadShape, Newer, ByNavigation, Hears, Registered
  <2>. QED BY <2>2, <2>3, <2>4
<1>9. CASE Load(v)!Listen
  <2>1. /\ Same /\ call'.at = "listening" /\ call.at = "unheard" /\ Tab
        /\ armed' = TRUE /\ heard' = 0 /\ frame' = "main"
    BY <1>0, <1>9, CallGoesOn DEF Load!Listen, Load!tab, Places
  <2>. QED BY <1>0, <2>1
           DEF LoadInv, LoadShape, Newer, ByNavigation, Hears, Registered
<1>10. CASE Load(v)!Done
  <2>1. /\ call'.at = "idle" /\ call'.doc = 0 /\ call' \in LoadCalls(v)
        /\ Tab /\ Heard /\ UNCHANGED armed
    BY <1>10 DEF Load!Done, Load!Idle, Load!tab, Load!waiter, LoadCalls,
                 Load!AllStrategies, Load!AllOps, Places
  <2>. QED BY <1>0, <2>1
           DEF LoadInv, LoadShape, Newer, ByNavigation, Hears, Registered
<1>11. CASE Load(v)!Commit
  <2>1. /\ shown' \in {shown, pending} /\ pending # 0 /\ pending' = 0
        /\ UNCHANGED <<docs, stage, call, armed, heard, frame>>
    BY <1>11 DEF Load!Commit, Load!waiter
  <2>2. shown' # shown => stage[shown'] = 0
    BY <1>0, <2>1 DEF LoadInv, Newer
  <2>3. Load(v)!Name(call'.wait) = Load(v)!Name(call.wait)
    BY <2>1
  <2>. QED BY <1>0, <2>1, <2>2, <2>3
           DEF LoadInv, LoadShape, Newer, ByNavigation, Hears, Registered
<1>12. CASE Load(v)!Progress
  <2>1. /\ stage[shown] < 3 /\ stage' = [stage EXCEPT ![shown] = @ + 1]
        /\ UNCHANGED <<docs, shown, pending, call, armed>>
    BY <1>12 DEF Load!Progress
  <2>2. /\ frame' = "main" /\ heard' \in {heard, shown}
        /\ heard' # heard => heard = 0
        /\ heard' # heard /\ call.at # "listening" =>
             Load(v)!Name(call.wait) = stage[shown] + 1
        /\ /\ armed /\ heard = 0 /\ call.at # "listening"
           /\ Load(v)!Name(call.wait) = stage[shown] + 1
           => heard' = shown
    BY <1>0, <1>12 DEF Load!Progress, Load!Event, Load!Wanted
  <2>. QED BY <1>0, <2>1, <2>2
           DEF LoadInv, LoadShape, Newer, ByNavigation, Hears, Registered
<1>13. ASSUME NEW n \in 1..3, Load(v)!SubFrame(n) PROVE LoadInv(v)'
  BY <1>0, <1>13 DEF Load!SubFrame, Load!Event, Load!Wanted, Load!tab,
     LoadInv, LoadShape, Newer, ByNavigation, Hears, Registered
<1>14. CASE UNCHANGED Load(v)!vars
  BY <1>0, <1>14 DEF Load!vars, LoadInv, LoadShape, Newer, ByNavigation, Hears,
     Registered
<1>. QED BY <1>2, <1>3, <1>4, <1>5, <1>6, <1>7, <1>8, <1>9, <1>10, <1>11, <1>12,
            <1>13, <1>14 DEF Load!Next, Load!Caller, Load!Chrome

LEMMA LoadInvMeans ==
    ASSUME NEW v, Load(v)!PageLoadsAssumption, LoadInv(v)
    PROVE  /\ Load(v)!TypeOK /\ Load(v)!NotOutrun /\ Load(v)!MainFrameEnds
<1>1. Load(v)!TypeOK
  BY DEF LoadInv, LoadShape, LoadCalls, Places, Load!TypeOK
<1>2. Load(v)!Name(call.wait) \in 0..3
  BY DEF LoadInv, LoadShape, LoadCalls, Load!Name
<1>3. Load(v)!NotOutrun
  BY <1>2 DEF LoadInv, ByNavigation, Hears, Registered, Load!NotOutrun
<1>4. Load(v)!MainFrameEnds
  BY <1>2 DEF LoadInv, LoadShape, ByNavigation, Hears, Registered,
     Load!MainFrameEnds
<1>. QED BY <1>1, <1>3, <1>4

LEMMA LoadInvHolds ==
    ASSUME NEW v, Load(v)!PageLoadsAssumption
    PROVE  Load(v)!Spec => []LoadInv(v)
<1>1. Load(v)!Init => LoadInv(v)
  BY LoadInit
<1>2. LoadInv(v) /\ [Load(v)!Next]_(Load(v)!vars) => LoadInv(v)'
  BY LoadKeeps
<1>. QED BY <1>1, <1>2, PTL DEF Load!Spec

\* Type correctness of a tab, its loads and the wait for them.
THEOREM LoadsTypeCorrect ==
    ASSUME NEW v, Load(v)!PageLoadsAssumption
    PROVE  Load(v)!Spec => []Load(v)!TypeOK
<1>1. LoadInv(v) => Load(v)!TypeOK
  BY LoadInvMeans
<1>. QED BY <1>1, LoadInvHolds, PTL

\* A wait registered before the navigation is asked for is not outrun by the
\* document, however fast it loads and whatever the tab did before
\* (armLifecycleWait, Navigate).
THEOREM LoadsAreNotOutrun ==
    ASSUME NEW v, Load(v)!PageLoadsAssumption
    PROVE  Load(v)!Spec => []Load(v)!NotOutrun
<1>1. LoadInv(v) => Load(v)!NotOutrun
  BY LoadInvMeans
<1>. QED BY <1>1, LoadInvHolds, PTL

\* What ends a navigation's wait is an event of the main frame, of a document
\* that has got so far (armLifecycleWait).
THEOREM MainFramesEndWaits ==
    ASSUME NEW v, Load(v)!PageLoadsAssumption
    PROVE  Load(v)!Spec => []Load(v)!MainFrameEnds
<1>1. LoadInv(v) => Load(v)!MainFrameEnds
  BY LoadInvMeans
<1>. QED BY <1>1, LoadInvHolds, PTL
----------------------------------------------------------------------------
\* Sets of numbers: the least one, and the one with n before it.
LEMMA LeastOf ==
    ASSUME NEW T \in SUBSET Nat, T # {}
    PROVE  \E x \in T : \A y \in T : x <= y
<1>1. PICK x \in T : \A y \in T : <<y, x>> \notin OpToRel(<, Nat)
  BY WFMin, NatLessThanWellFounded
<1>2. \A y \in T : ~(y < x)
  BY <1>1 DEF OpToRel
<1>. QED BY <1>2

LEMMA NumberWithBelow ==
    ASSUME NEW m \in Nat, NEW S \in SUBSET (1..m), NEW n \in Nat,
           n < Cardinality(S)
    PROVE  \E e \in S : Cardinality({x \in S : x < e}) = n
<1>. DEFINE Below(k) == {x \in S : x < k}
            Over == {k \in Nat : n < Cardinality(Below(k))}
<1>0. \A x \in S : x \in Nat /\ 0 < x /\ x < m + 1
  OBVIOUS
<1>1. IsFiniteSet(S) /\ Cardinality(S) \in Nat
  <2>1. IsFiniteSet(1..m)
    BY FS_Interval
  <2>. QED BY <2>1, FS_Subset, FS_CardinalityType
<1>2. ASSUME NEW k PROVE IsFiniteSet(Below(k)) /\ Cardinality(Below(k)) \in Nat
  <2>1. Below(k) \in SUBSET S
    OBVIOUS
  <2>. QED BY <1>1, <2>1, FS_Subset, FS_CardinalityType
<1>3. m + 1 \in Over
  <2>1. Below(m + 1) = S
    BY <1>0
  <2>. QED BY <2>1
<1>4. PICK k \in Over : \A j \in Over : k <= j
  <2>. HIDE DEF Over
  <2>1. Over \subseteq Nat
    BY DEF Over
  <2>. QED BY <1>3, <2>1, LeastOf
<1>5. k # 0
  <2>1. \A x \in S : ~(x < 0)
    BY <1>0
  <2>2. Below(0) = {}
    BY <2>1
  <2>. QED BY <2>2, FS_EmptySet
<1>6. k - 1 \in Nat /\ ~(n < Cardinality(Below(k - 1)))
  <2>1. k \in Nat /\ k - 1 \in Nat
    BY <1>4, <1>5
  <2>2. k - 1 \notin Over
    <3>. HIDE DEF Over
    <3>. QED BY <1>4, <2>1
  <2>. QED BY <2>1, <2>2
<1>7. Below(k) = Below(k - 1) \union (IF k - 1 \in S THEN {k - 1} ELSE {})
  <2>1. k \in Nat
    BY <1>4
  <2>2. \A x \in S : x < k <=> x < k - 1 \/ x = k - 1
    BY <1>0, <2>1
  <2>. QED BY <2>2
<1>8. CASE k - 1 \in S
  <2>1. k - 1 \notin Below(k - 1)
    BY <1>0, <1>8
  <2>. HIDE DEF Below
  <2>2. Cardinality(Below(k)) = Cardinality(Below(k - 1)) + 1
    BY <1>2, <1>7, <1>8, <2>1, FS_AddElement
  <2>3. n < Cardinality(Below(k))
    BY <1>4
  <2>4. Cardinality(Below(k - 1)) = n
    BY <1>2, <1>6, <2>2, <2>3
  <2>. QED BY <1>8, <2>4 DEF Below
<1>9. CASE k - 1 \notin S
  <2>1. Below(k) = Below(k - 1)
    BY <1>7, <1>9
  <2>. QED BY <1>4, <1>6, <2>1
<1>. QED BY <1>8, <1>9
----------------------------------------------------------------------------
\* The types of what a wait for an element keeps, and where it may be.
WaitKinds == {"ref", "css", "locator", "any", "count", "type"}
WaitStates == {"attached", "visible", "hidden", "enabled", "stable"}
WaitRequests(v) ==
    [kind : WaitKinds, state : WaitStates, timed : BOOLEAN,
     own : Wait(v)!Elems \union {Wait(v)!Nobody}, nth : Nat]
WaitTypes(v) ==
    /\ v.n \in Nat \ {0} /\ dom \in [Wait(v)!Elems -> Wait(v)!Looks]
    /\ req \in WaitRequests(v)
    /\ el \in Wait(v)!Elems \union {Wait(v)!Nobody}
    /\ changes \in 0..v.changes /\ faults \in 0..v.faults
WaitPlace(v) ==
    /\ pc \in {"idle", "poll", "check", "second", "sleep", "selector",
               "resolve", "type", "retype", "submit", "done"}
    /\ answer \in {"none", "found", "hidden", "error", "timeout"}
    /\ (answer # "none") <=> (pc = "done")
    /\ v.polls \in Nat /\ v.polls > 0 /\ polls \in 0..v.polls
    /\ (pc = "idle" => polls = 0) /\ (pc = "poll" => polls < v.polls)
    /\ pc # "idle" => req.own \in Wait(v)!Elems
    /\ pc \in {"check", "second", "type", "retype"} => el # Wait(v)!Nobody
    /\ pc \in {"check", "second", "resolve", "type", "retype", "submit"} =>
          Wait(v)!Single(req)
WaitShape(v) == WaitTypes(v) /\ WaitPlace(v)

\* Where no call fails and only what the code gets right is asked for.
Reliable(v) == v.requests \subseteq SafeRequests /\ v.faults = 0

\* The element e is the one asked for, and is as asked.
IsAsked(v, e) ==
    /\ req.state # "hidden"
    /\ IF Wait(v)!IsRef(req) THEN e = req.own /\ dom[e] # "gone"
       ELSE Wait(v)!Attached(dom) = {e}
    /\ Wait(v)!CheckState(dom, e, req.state)

\* While what was asked for has been so since the look began, the element that
\* is looked at is the one, and the command does not go to sleep.
Truthful(v) ==
    /\ pc # "idle" => <<req.kind, req.state>> \in SafeRequests
    /\ pc # "selector"
    /\ held /\ pc \in {"check", "second"} => IsAsked(v, el)
    /\ pc = "second" => req.state = "stable" /\ (held => ~moved)
    /\ pc = "sleep" \/ answer = "timeout" => ~held
    /\ answer = "found" /\ req.kind = "count" => held

\* The elements are numbers, and there are finitely many.
LEMMA WaitNames ==
    ASSUME NEW v, WaitTypes(v)
    PROVE  /\ v.n \in Nat /\ Wait(v)!Elems = 1..v.n /\ Wait(v)!Nobody = 0
           /\ Wait(v)!Nobody \notin Wait(v)!Elems
           /\ Wait(v)!Attached(dom) \in SUBSET Wait(v)!Elems
           /\ Wait(v)!Seen(dom) \in SUBSET Wait(v)!Attached(dom)
           /\ \A S : Wait(v)!Cardinality(S) = Cardinality(S)
           /\ \A S \in SUBSET Wait(v)!Elems :
                IsFiniteSet(S) /\ Cardinality(S) \in Nat
<1>1. v.n \in Nat /\ Wait(v)!Elems = 1..v.n /\ Wait(v)!Nobody = 0
  BY DEF WaitTypes, Wait!Elems, Wait!Nobody
<1>2. /\ Wait(v)!Attached(dom) \in SUBSET Wait(v)!Elems
      /\ Wait(v)!Seen(dom) \in SUBSET Wait(v)!Attached(dom)
  BY DEF Wait!Attached, Wait!Seen
<1>3. \A S : Wait(v)!Cardinality(S) = Cardinality(S)
  BY DEF Wait!Cardinality, Cardinality
<1>4. ASSUME NEW S \in SUBSET Wait(v)!Elems
      PROVE  IsFiniteSet(S) /\ Cardinality(S) \in Nat
  <2>1. IsFiniteSet(Wait(v)!Elems)
    BY <1>1, FS_Interval
  <2>. QED BY <2>1, FS_Subset, FS_CardinalityType
<1>. QED BY <1>1, <1>2, <1>3, <1>4

\* The element with n before it is one of the set (First).
LEMMA FirstIsIn ==
    ASSUME NEW v, WaitTypes(v), NEW S \in SUBSET Wait(v)!Elems, NEW n \in Nat,
           n < Cardinality(S)
    PROVE  Wait(v)!First(S, n) \in S
<1>1. \E e \in S : Wait(v)!Cardinality({x \in S : x < e}) = n
  <2>1. \E e \in S : Cardinality({x \in S : x < e}) = n
    <3>1. v.n \in Nat /\ S \in SUBSET (1..v.n)
      BY WaitNames
    <3>. QED BY <3>1, NumberWithBelow
  <2>. QED BY <2>1, WaitNames
<1>. QED BY <1>1 DEF Wait!First

\* requireUniqueLocatorMatch gives the one match, if there is one.
LEMMA UniqueIs ==
    ASSUME NEW v, WaitTypes(v), NEW S \in SUBSET Wait(v)!Elems
    PROVE  /\ Wait(v)!Unique(S).el \in S \union {Wait(v)!Nobody}
           /\ \A e \in S : S = {e} => Wait(v)!Unique(S).el = e
           /\ S = {} => Wait(v)!Unique(S).el = Wait(v)!Nobody
<1>1. Cardinality(S) = 1 => Wait(v)!First(S, 0) \in S
  BY FirstIsIn
<1>2. /\ Wait(v)!Unique(S).el = IF Cardinality(S) = 1 THEN Wait(v)!First(S, 0)
                               ELSE Wait(v)!Nobody
  BY WaitNames DEF Wait!Unique, Wait!Found, Wait!None
<1>3. \A e \in S : S = {e} => Cardinality(S) = 1
  BY FS_Singleton
<1>4. S = {} => Cardinality(S) = 0
  BY FS_EmptySet
<1>. QED BY <1>1, <1>2, <1>3, <1>4

\* The n-th with its role and name is one of those that can be seen.
LEMMA ByRoleNameIs ==
    ASSUME NEW v, WaitTypes(v), NEW n \in Nat
    PROVE  Wait(v)!ByRoleName(dom, n).el \in Wait(v)!Elems \union {Wait(v)!Nobody}
<1>. DEFINE S == Wait(v)!Seen(dom)
<1>1. S \in SUBSET Wait(v)!Elems
  BY WaitNames
<1>2. /\ Cardinality(S) = 1 => Wait(v)!First(S, 0) \in S
      /\ n < Cardinality(S) => Wait(v)!First(S, n) \in S
  <2>. HIDE DEF S
  <2>. QED BY <1>1, FirstIsIn
<1>. QED BY <1>1, <1>2, WaitNames DEF Wait!ByRoleName, Wait!Found, Wait!None

\* A target is resolved to an element or to none.
LEMMA ResolveIs ==
    ASSUME NEW v, WaitTypes(v), req.own \in Wait(v)!Elems, NEW f
    PROVE  Wait(v)!Resolve(dom, req, f).el
             \in Wait(v)!Elems \union {Wait(v)!Nobody}
<1>1. req.nth \in Nat
  BY DEF WaitTypes, WaitRequests
<1>2. /\ Wait(v)!Unique(Wait(v)!Attached(dom)).el
           \in Wait(v)!Elems \union {Wait(v)!Nobody}
      /\ Wait(v)!Unique(Wait(v)!Seen(dom)).el
           \in Wait(v)!Elems \union {Wait(v)!Nobody}
  BY WaitNames, UniqueIs
<1>3. Wait(v)!ByRoleName(dom, req.nth).el
        \in Wait(v)!Elems \union {Wait(v)!Nobody}
  BY <1>1, ByRoleNameIs
<1>. QED BY <1>2, <1>3
         DEF Wait!Resolve, Wait!ResolveRef, Wait!Found, Wait!None

\* What is as asked is found by a call that does not fail, and it is what is
\* found; what is asked to be hidden is not found while it is.
LEMMA FindsAsked ==
    ASSUME NEW v, WaitTypes(v), req.own \in Wait(v)!Elems, Wait(v)!Single(req),
           <<req.kind, req.state>> \in SafeRequests,
           Wait(v)!Asked(dom, url, req)
    PROVE  LET e == Wait(v)!Resolve(dom, req, FALSE).el
           IN  IF req.state = "hidden"
               THEN req.kind = "locator" /\ e = Wait(v)!Nobody
               ELSE e \in Wait(v)!Elems /\ IsAsked(v, e)
<1>1. CASE req.state = "hidden"
  <2>1. req.kind = "locator" /\ Wait(v)!Seen(dom) = {}
    BY <1>1 DEF Wait!Asked, Wait!Single, SafeRequests
  <2>2. Wait(v)!Unique(Wait(v)!Seen(dom)).el = Wait(v)!Nobody
    BY <2>1, WaitNames, UniqueIs
  <2>. QED BY <1>1, <2>1, <2>2 DEF Wait!Resolve, Wait!IsRef
<1>2. CASE req.state # "hidden"
  <2>1. PICK e \in Wait(v)!Elems :
          /\ IF Wait(v)!IsRef(req) THEN e = req.own /\ dom[e] # "gone"
             ELSE Wait(v)!Attached(dom) = {e}
          /\ Wait(v)!CheckState(dom, e, req.state)
    BY <1>2 DEF Wait!Asked, Wait!Single
  <2>2. CASE Wait(v)!IsRef(req)
    <3>1. Wait(v)!Resolve(dom, req, FALSE).el = e
      BY <2>1, <2>2 DEF Wait!Resolve, Wait!ResolveRef, Wait!Found
    <3>. QED BY <1>2, <2>1, <2>2, <3>1 DEF IsAsked
  <2>3. CASE ~Wait(v)!IsRef(req) /\ req.kind = "css"
    <3>1. Wait(v)!Resolve(dom, req, FALSE) = Wait(v)!Unique(Wait(v)!Attached(dom))
      BY <2>3 DEF Wait!Resolve
    <3>2. Wait(v)!Resolve(dom, req, FALSE).el = e
      BY <2>1, <2>3, <3>1, WaitNames, UniqueIs
    <3>. QED BY <1>2, <2>1, <2>3, <3>2 DEF IsAsked
  <2>4. CASE ~Wait(v)!IsRef(req) /\ req.kind # "css"
    <3>1. Wait(v)!Resolve(dom, req, FALSE) = Wait(v)!Unique(Wait(v)!Seen(dom))
      BY <2>4 DEF Wait!Resolve
    <3>2. req.state \in {"visible", "stable"}
      BY <1>2, <2>4 DEF SafeRequests, Wait!Single, Wait!IsRef
    <3>3. Wait(v)!Seen(dom) = {e}
      BY <2>1, <2>4, <3>2, WaitNames DEF Wait!CheckState
    <3>4. Wait(v)!Resolve(dom, req, FALSE).el = e
      BY <3>1, <3>3, WaitNames, UniqueIs
    <3>. QED BY <1>2, <2>1, <2>4, <3>4 DEF IsAsked
  <2>. QED BY <2>2, <2>3, <2>4
<1>. QED BY <1>1, <1>2

LEMMA WaitInit ==
    ASSUME NEW v, Wait(v)!ElementWaitAssumption, Wait(v)!Init
    PROVE  WaitShape(v) /\ (Reliable(v) => Truthful(v))
<1>1. /\ changes = 0 /\ faults = 0 /\ polls = 0 /\ pc = "idle" /\ answer = "none"
      /\ el = Wait(v)!Nobody /\ req = Wait(v)!NoReq
      /\ dom \in [Wait(v)!Elems -> Wait(v)!Looks]
  BY DEF Wait!Init
<1>2. /\ v.n \in Nat \ {0} /\ v.changes \in Nat /\ v.faults \in Nat
      /\ v.polls \in Nat /\ v.polls > 0
  BY DEF Wait!ElementWaitAssumption
<1>3. WaitTypes(v)
  <2>1. req \in WaitRequests(v)
    BY <1>1 DEF WaitRequests, WaitKinds, WaitStates, Wait!NoReq
  <2>. QED BY <1>1, <1>2, <2>1 DEF WaitTypes
<1>4. WaitPlace(v)
  BY <1>1, <1>2 DEF WaitPlace
<1>5. Truthful(v)
  BY <1>1 DEF Truthful
<1>. QED BY <1>3, <1>4, <1>5 DEF WaitShape

\* Where the command goes: on, to an answer, or to sleep.
LEMMA WaitTypesKeep ==
    ASSUME NEW v, Wait(v)!ElementWaitAssumption, WaitShape(v),
           [Wait(v)!Next]_(Wait(v)!vars)
    PROVE  WaitTypes(v)'
<1>0. /\ WaitTypes(v) /\ v.changes \in Nat /\ v.faults \in Nat
      /\ pc # "idle" => req.own \in Wait(v)!Elems
      /\ req.nth \in Nat
  BY DEF WaitShape, WaitPlace, WaitTypes, WaitRequests, Wait!ElementWaitAssumption
<1>1. ASSUME NEW f \in BOOLEAN, Wait(v)!Fails(f) PROVE faults' \in 0..v.faults
  BY <1>0, <1>1 DEF WaitTypes, Wait!Fails
<1>2. CASE Wait(v)!Start
  <2>1. PICK q \in v.requests, timed \in BOOLEAN, own \in Wait(v)!Elems :
          req' = [kind |-> q[1], state |-> q[2], timed |-> timed, own |-> own,
                  nth |-> Wait(v)!Cardinality({e \in Wait(v)!Seen(dom) : e < own})]
    BY <1>2 DEF Wait!Start
  <2>2. q[1] \in WaitKinds /\ q[2] \in WaitStates
    BY DEF Wait!ElementWaitAssumption, WaitKinds, WaitStates
  <2>3. Wait(v)!Cardinality({e \in Wait(v)!Seen(dom) : e < own}) \in Nat
    <3>1. {e \in Wait(v)!Seen(dom) : e < own} \in SUBSET Wait(v)!Elems
      BY <1>0, WaitNames
    <3>. QED BY <1>0, <3>1, WaitNames
  <2>4. req' \in WaitRequests(v)
    BY <2>1, <2>2, <2>3 DEF WaitRequests
  <2>. QED BY <1>0, <1>2, <2>4 DEF Wait!Start, Wait!page, Wait!budget, WaitTypes
<1>3. CASE Wait(v)!Poll
  <2>1. PICK f \in BOOLEAN :
          Wait(v)!Fails(f) /\ el' = Wait(v)!Resolve(dom, req, f).el
    BY <1>3 DEF Wait!Poll, Wait!Look
  <2>2. el' \in Wait(v)!Elems \union {Wait(v)!Nobody} /\ faults' \in 0..v.faults
    BY <1>0, <1>1, <1>3, <2>1, ResolveIs DEF Wait!Poll
  <2>. QED BY <1>0, <1>3, <2>2 DEF Wait!Poll, Wait!page, WaitTypes
<1>4. CASE Wait(v)!Check
  <2>1. faults' \in 0..v.faults
    BY <1>1, <1>4 DEF Wait!Check
  <2>. QED BY <1>0, <1>4, <2>1 DEF Wait!Check, Wait!page, WaitTypes
<1>5. CASE Wait(v)!Count
  <2>1. faults' \in 0..v.faults
    BY <1>1, <1>5 DEF Wait!Count, Wait!Look
  <2>. QED BY <1>0, <1>5, <2>1 DEF Wait!Count, Wait!page, WaitTypes
<1>6. CASE Wait(v)!ResolveToType
  <2>1. PICK f \in BOOLEAN :
          Wait(v)!Fails(f) /\ el' = Wait(v)!Resolve(dom, req, f).el
    BY <1>6 DEF Wait!ResolveToType
  <2>2. el' \in Wait(v)!Elems \union {Wait(v)!Nobody} /\ faults' \in 0..v.faults
    BY <1>0, <1>1, <1>6, <2>1, ResolveIs DEF Wait!ResolveToType
  <2>. QED BY <1>0, <1>6, <2>2 DEF Wait!ResolveToType, Wait!page, WaitTypes
<1>7. CASE Wait(v)!Type
  <2>1. el' \in {el, Wait(v)!ByRoleName(dom, req.nth).el}
    BY <1>7 DEF Wait!Type
  <2>2. el' \in Wait(v)!Elems \union {Wait(v)!Nobody}
    BY <1>0, <2>1, ByRoleNameIs DEF WaitTypes
  <2>. QED BY <1>0, <1>7, <2>2 DEF Wait!Type, Wait!page, Wait!budget, WaitTypes
<1>8. CASE Wait(v)!Page
  <2>1. dom' \in [Wait(v)!Elems -> Wait(v)!Looks] /\ changes' \in 0..v.changes
    BY <1>0, <1>8 DEF Wait!Page, Wait!page, WaitTypes
  <2>. QED BY <1>0, <1>8, <2>1 DEF Wait!Page, WaitTypes
<1>9. CASE Wait(v)!CheckAgain \/ Wait(v)!Selector \/ Wait(v)!Again
        \/ Wait(v)!TimeOut \/ Wait(v)!Submit \/ UNCHANGED Wait(v)!vars
  BY <1>0, <1>9 DEF Wait!CheckAgain, Wait!Selector, Wait!Again, Wait!TimeOut,
     Wait!Submit, Wait!vars, Wait!page, Wait!budget, WaitTypes
<1>. QED BY <1>2, <1>3, <1>4, <1>5, <1>6, <1>7, <1>8, <1>9 DEF Wait!Next, Wait!Step

LEMMA WaitPlaceKeeps ==
    ASSUME NEW v, Wait(v)!ElementWaitAssumption, WaitShape(v),
           [Wait(v)!Next]_(Wait(v)!vars)
    PROVE  WaitPlace(v)'
<1>. USE DEF WaitPlace, Wait!Answer, Wait!Nobody, Wait!Single
<1>0. WaitPlace(v) /\ v.polls \in Nat /\ polls \in 0..v.polls
  BY DEF WaitShape
<1>1. CASE Wait(v)!Start
  <2>1. PICK q \in v.requests, timed \in BOOLEAN, own \in Wait(v)!Elems :
          req' = [kind |-> q[1], state |-> q[2], timed |-> timed, own |-> own,
                  nth |-> Wait(v)!Cardinality({e \in Wait(v)!Seen(dom) : e < own})]
    BY <1>1 DEF Wait!Start
  <2>2. req'.own \in Wait(v)!Elems
    BY <2>1
  <2>3. /\ pc = "idle" /\ pc' \in {"selector", "poll"}
        /\ UNCHANGED <<el, polls, answer>>
    BY <1>1 DEF Wait!Start
  <2>. QED BY <1>0, <2>2, <2>3
<1>2. CASE Wait(v)!Poll
  <2>1. /\ pc = "poll" /\ Wait(v)!Single(req) /\ polls' = polls + 1 /\ UNCHANGED req
        /\ \/ el' # Wait(v)!Nobody /\ pc' = "check" /\ UNCHANGED answer
           \/ pc' = "sleep" /\ UNCHANGED answer
           \/ pc' = "done" /\ answer' \in {"hidden", "error"}
    BY <1>2 DEF Wait!Poll, Wait!Look, Wait!Unresolved
  <2>2. polls' \in 0..v.polls
    <3>1. polls < v.polls
      BY <1>0, <2>1
    <3>. QED BY <1>0, <2>1, <3>1
  <2>. QED BY <1>0, <2>1, <2>2
<1>3. CASE Wait(v)!Check \/ Wait(v)!CheckAgain
  <2>1. /\ pc \in {"check", "second"} /\ UNCHANGED <<req, el, polls>>
        /\ \/ pc' \in {"sleep", "second", "resolve"} /\ UNCHANGED answer
           \/ pc' = "done" /\ answer' \in {"found", "error"}
    BY <1>3 DEF Wait!Check, Wait!CheckAgain, Wait!Met, Wait!Unmet
  <2>. QED BY <1>0, <2>1
<1>4. CASE Wait(v)!Selector \/ Wait(v)!TimeOut \/ Wait(v)!Submit
  <2>1. /\ pc' = "done" /\ answer' \in {"found", "timeout", "error"}
        /\ UNCHANGED <<req, el, polls>> /\ pc # "idle"
    BY <1>4 DEF Wait!Selector, Wait!TimeOut, Wait!Submit
  <2>. QED BY <1>0, <2>1
<1>5. CASE Wait(v)!Count
  <2>1. /\ pc = "poll" /\ polls' = polls + 1 /\ UNCHANGED <<req, el>>
        /\ \/ pc' = "sleep" /\ UNCHANGED answer
           \/ pc' = "done" /\ answer' = "found"
    BY <1>5 DEF Wait!Count, Wait!Look
  <2>2. polls' \in 0..v.polls
    <3>1. polls < v.polls
      BY <1>0, <2>1
    <3>. QED BY <1>0, <2>1, <3>1
  <2>. QED BY <1>0, <2>1, <2>2
<1>6. CASE Wait(v)!Again
  BY <1>0, <1>6 DEF Wait!Again
<1>7. CASE Wait(v)!ResolveToType
  <2>1. /\ pc = "resolve" /\ UNCHANGED <<req, polls>>
        /\ \/ el' # Wait(v)!Nobody /\ pc' = "type" /\ UNCHANGED answer
           \/ pc' = "done" /\ answer' = "error"
    BY <1>7 DEF Wait!ResolveToType
  <2>. QED BY <1>0, <2>1
<1>8. CASE Wait(v)!Type
  <2>1. /\ pc \in {"type", "retype"} /\ UNCHANGED <<req, polls>>
        /\ \/ pc' = "submit" /\ UNCHANGED <<el, answer>>
           \/ el' # Wait(v)!Nobody /\ pc' = "retype" /\ UNCHANGED answer
           \/ pc' = "done" /\ answer' = "error" /\ UNCHANGED el
    BY <1>8 DEF Wait!Type
  <2>. QED BY <1>0, <2>1
<1>9. CASE Wait(v)!Page \/ UNCHANGED Wait(v)!vars
  <2>1. UNCHANGED <<req, pc, el, polls, answer>>
    BY <1>9 DEF Wait!Page, Wait!vars
  <2>. QED BY <1>0, <2>1
<1>. QED BY <1>1, <1>2, <1>3, <1>4, <1>5, <1>6, <1>7, <1>8, <1>9
         DEF Wait!Next, Wait!Step

\* What has been so since the look began is so now, when the page has changed.
LEMMA StaysAsked ==
    ASSUME NEW v, WaitShape(v), WaitTypes(v)', Reliable(v), Truthful(v),
           Wait(v)!Page, held', pc \in {"check", "second"}
    PROVE  held /\ IsAsked(v, el)' /\ ~moved'
<1>1. held /\ Wait(v)!Asked(dom', url', req) /\ ~moved'
  BY Zenon DEF Wait!Page, Wait!Changed
<1>2. IsAsked(v, el) /\ Wait(v)!Single(req) /\ req.state # "hidden"
  BY <1>1 DEF Truthful, IsAsked, WaitShape, WaitPlace
<1>3. PICK e \in Wait(v)!Elems :
        /\ IF Wait(v)!IsRef(req) THEN e = req.own /\ dom'[e] # "gone"
           ELSE Wait(v)!Attached(dom') = {e}
        /\ Wait(v)!CheckState(dom', e, req.state)
  BY <1>1, <1>2 DEF Wait!Asked, Wait!Single
<1>4. e = el
  <2>1. CASE Wait(v)!IsRef(req)
    BY <1>2, <1>3, <2>1 DEF IsAsked
  <2>2. CASE ~Wait(v)!IsRef(req)
    <3>1. \E x \in Wait(v)!Elems :
            \A y \in Wait(v)!Elems : y # x => dom'[y] = dom[y]
      BY DEF Wait!Page, Wait!page, WaitShape, WaitTypes
    <3>2. Wait(v)!Attached(dom) = {el} /\ Wait(v)!Attached(dom') = {e}
      BY <1>2, <1>3, <2>2 DEF IsAsked
    <3>3. /\ dom[el] # "gone" /\ el \in Wait(v)!Elems /\ dom'[e] # "gone"
          /\ e # el => dom[e] = "gone" /\ dom'[el] = "gone"
      BY <3>2 DEF Wait!Attached
    <3>. QED BY <3>1, <3>3
  <2>. QED BY <2>1, <2>2
<1>5. UNCHANGED <<req, el>>
  BY DEF Wait!Page
<1>. QED BY <1>1, <1>2, <1>3, <1>4, <1>5
         DEF IsAsked, Wait!IsRef, Wait!Attached, Wait!CheckState, Wait!Seen

LEMMA NoFaults ==
    ASSUME NEW v, Reliable(v), faults \in 0..v.faults, NEW f \in BOOLEAN,
           Wait(v)!Fails(f)
    PROVE  f = FALSE
<1>1. ~(faults < v.faults)
  BY DEF Reliable
<1>. QED BY <1>1, Zenon DEF Wait!Fails

LEMMA TruthfulKeeps ==
    ASSUME NEW v, Wait(v)!ElementWaitAssumption, Reliable(v), WaitShape(v),
           WaitTypes(v)', Truthful(v), [Wait(v)!Next]_(Wait(v)!vars)
    PROVE  Truthful(v)'
<1>. USE DEF Truthful, Wait!Answer
<1>0. /\ WaitTypes(v) /\ faults \in 0..v.faults /\ v.requests \subseteq SafeRequests
      /\ pc # "idle" => req.own \in Wait(v)!Elems
      /\ pc \in {"check", "second"} => Wait(v)!Single(req)
      /\ answer # "none" <=> pc = "done"
  BY DEF WaitShape, WaitTypes, WaitPlace, Reliable
<1>1. CASE Wait(v)!Start
  <2>1. PICK q \in v.requests, timed \in BOOLEAN, own \in Wait(v)!Elems :
          /\ req' = [kind |-> q[1], state |-> q[2], timed |-> timed, own |-> own,
                     nth |-> Wait(v)!Cardinality({e \in Wait(v)!Seen(dom) :
                                                     e < own})]
          /\ pc' = IF q[1] = "any" THEN "selector" ELSE "poll"
    BY <1>1 DEF Wait!Start
  <2>2. q \in SafeRequests /\ q = <<q[1], q[2]>> /\ q[1] # "any"
    BY <1>0 DEF SafeRequests
  <2>3. <<req'.kind, req'.state>> \in SafeRequests /\ pc' = "poll"
    BY <2>1, <2>2
  <2>4. answer' = "none"
    BY <1>0, <1>1 DEF Wait!Start
  <2>. QED BY <2>3, <2>4
<1>2. CASE Wait(v)!Poll
  <2>1. PICK f \in BOOLEAN :
          /\ Wait(v)!Look(f) /\ el' = Wait(v)!Resolve(dom, req, f).el
          /\ IF el' # Wait(v)!Nobody THEN pc' = "check" /\ UNCHANGED answer
             ELSE Wait(v)!Unresolved(Wait(v)!Resolve(dom, req, f).why)
    BY <1>2 DEF Wait!Poll
  <2>2. f = FALSE
    BY <1>0, <2>1, NoFaults DEF Wait!Look
  <2>3. held' => Wait(v)!Asked(dom, url, req)
    BY <2>1, <2>2, Zenon DEF Wait!Look
  <2>4. pc = "poll" /\ Wait(v)!Single(req) /\ UNCHANGED <<dom, req>>
    BY <1>2 DEF Wait!Poll, Wait!page
  <2>5. held' => IF req.state = "hidden"
                 THEN req.kind = "locator" /\ el' = Wait(v)!Nobody
                 ELSE el' \in Wait(v)!Elems /\ IsAsked(v, el')
    BY <1>0, <2>1, <2>2, <2>3, <2>4, FindsAsked
  <2>6. req.kind # "count" /\ <<req'.kind, req'.state>> \in SafeRequests
    BY <2>4 DEF Wait!Single
  <2>7. CASE el' # Wait(v)!Nobody
    <3>1. pc' = "check" /\ answer' = "none"
      BY <1>0, <2>1, <2>4, <2>7
    <3>2. held' => IsAsked(v, el)'
      BY <2>4, <2>5, <2>7
        DEF IsAsked, Wait!IsRef, Wait!Attached, Wait!CheckState, Wait!Seen
    <3>. QED BY <2>6, <3>1, <3>2
  <2>8. CASE el' = Wait(v)!Nobody
    <3>1. Wait(v)!Unresolved(Wait(v)!Resolve(dom, req, f).why)
      BY <2>1, <2>8
    <3>2. /\ pc' \in {"sleep", "done"} /\ answer' \in {"none", "hidden", "error"}
          /\ pc' = "sleep" => req.state # "hidden" \/ Wait(v)!IsRef(req)
      BY <1>0, <2>4, <3>1 DEF Wait!Unresolved
    <3>3. pc' = "sleep" => ~held'
      BY <2>5, <2>8, <1>0, <3>2, WaitNames DEF Wait!IsRef
    <3>. QED BY <2>4, <2>6, <3>2, <3>3
  <2>. QED BY <2>7, <2>8
<1>3. CASE Wait(v)!Check
  <2>1. PICK f \in BOOLEAN :
          /\ Wait(v)!Fails(f) /\ held' = (held /\ ~f)
          /\ IF f THEN IF req.state = "hidden" THEN Wait(v)!Met ELSE Wait(v)!Unmet
             ELSE IF ~Wait(v)!CheckState(dom, el, req.state) THEN Wait(v)!Unmet
             ELSE IF req.state = "stable" THEN pc' = "second" /\ UNCHANGED answer
             ELSE Wait(v)!Met
    BY <1>3 DEF Wait!Check
  <2>2. f = FALSE
    BY <1>0, <2>1, NoFaults
  <2>3. held' => held
    BY <2>1, Zenon
  <2>4. /\ pc = "check" /\ UNCHANGED <<dom, req, el>> /\ Wait(v)!Single(req)
        /\ <<req'.kind, req'.state>> \in SafeRequests /\ req.kind # "count"
    BY <1>0, <1>3 DEF Wait!Check, Wait!page, Wait!Single
  <2>5. ~moved'
    BY <1>3, Zenon DEF Wait!Check
  <2>6. held' => IsAsked(v, el) /\ IsAsked(v, el)'
    BY <2>3, <2>4 DEF IsAsked, Wait!IsRef, Wait!Attached, Wait!CheckState, Wait!Seen
  <2>7. CASE ~Wait(v)!CheckState(dom, el, req.state)
    <3>1. ~held'
      BY <2>6, <2>7 DEF IsAsked
    <3>2. pc' \in {"sleep", "done"} /\ answer' \in {"none", "error"}
      BY <1>0, <2>1, <2>2, <2>4, <2>7 DEF Wait!Unmet
    <3>. QED BY <2>4, <3>1, <3>2
  <2>8. CASE Wait(v)!CheckState(dom, el, req.state)
    <3>1. /\ pc' \in {"second", "resolve", "done"}
          /\ answer' \in {"none", "found"}
          /\ pc' = "second" => req.state = "stable"
      BY <1>0, <2>1, <2>2, <2>4, <2>8 DEF Wait!Met
    <3>. QED BY <2>4, <2>5, <2>6, <3>1
  <2>. QED BY <2>7, <2>8
<1>4. CASE Wait(v)!CheckAgain
  <2>1. /\ pc = "second" /\ UNCHANGED <<dom, req, el>> /\ Wait(v)!Single(req)
        /\ <<req'.kind, req'.state>> \in SafeRequests /\ req.kind # "count"
    BY <1>0, <1>4 DEF Wait!CheckAgain, Wait!page, Wait!Single
  <2>2. held' = held
    BY <1>4 DEF Wait!CheckAgain, Wait!history
  <2>3. CASE el \in Wait(v)!Seen(dom) /\ ~moved
    <3>1. pc' \in {"resolve", "done"} /\ answer' \in {"none", "found"}
      BY <1>0, <1>4, <2>1, <2>3 DEF Wait!CheckAgain, Wait!Met
    <3>. QED BY <2>1, <3>1
  <2>4. CASE ~(el \in Wait(v)!Seen(dom) /\ ~moved)
    <3>1. pc' \in {"sleep", "done"} /\ answer' \in {"none", "error"}
      BY <1>0, <1>4, <2>1, <2>4 DEF Wait!CheckAgain, Wait!Unmet
    <3>2. ~held
      BY <2>1, <2>4 DEF IsAsked, Wait!CheckState
    <3>. QED BY <2>1, <2>2, <3>1, <3>2
  <2>. QED BY <2>3, <2>4
<1>5. CASE Wait(v)!Count
  <2>1. PICK f \in BOOLEAN :
          /\ Wait(v)!Look(f)
          /\ IF f \/ Wait(v)!Cardinality(Wait(v)!Attached(dom)) <= v.count
             THEN Wait(v)!Answer("found")
             ELSE pc' = "sleep" /\ UNCHANGED answer
    BY <1>5 DEF Wait!Count
  <2>2. f = FALSE
    BY <1>0, <2>1, NoFaults DEF Wait!Look
  <2>3. held' <=> Wait(v)!Asked(dom, url, req)
    BY <2>1, <2>2, Zenon DEF Wait!Look
  <2>4. /\ pc = "poll" /\ req.kind = "count" /\ UNCHANGED <<dom, req>>
        /\ <<req'.kind, req'.state>> \in SafeRequests /\ answer = "none"
    BY <1>0, <1>5 DEF Wait!Count, Wait!page
  <2>5. held' <=> Wait(v)!Cardinality(Wait(v)!Attached(dom)) <= v.count
    BY <2>3, <2>4 DEF Wait!Asked, Wait!Single
  <2>. QED BY <2>1, <2>2, <2>4, <2>5
<1>6. CASE Wait(v)!TimeOut
  BY <1>6 DEF Wait!TimeOut, Wait!history
<1>7. CASE Wait(v)!Again
  BY <1>0, <1>7 DEF Wait!Again
<1>8. CASE Wait(v)!Selector
  BY <1>8 DEF Wait!Selector
<1>9. CASE Wait(v)!ResolveToType \/ Wait(v)!Type \/ Wait(v)!Submit
  <2>1. /\ pc \in {"resolve", "type", "retype", "submit"} /\ Wait(v)!Single(req)
        /\ pc' \in {"type", "retype", "submit", "done"} /\ UNCHANGED req
        /\ answer' \in {"none", "error", "found"}
    BY <1>0, <1>9 DEF Wait!ResolveToType, Wait!Type, Wait!Submit, WaitShape,
       WaitPlace
  <2>. QED BY <2>1 DEF Wait!Single
<1>10. CASE Wait(v)!Page
  <2>1. UNCHANGED <<req, pc, el, answer>> /\ pc \notin {"idle", "done"}
    BY <1>10 DEF Wait!Page
  <2>2. held' => held
    BY <1>10, Zenon DEF Wait!Page, Wait!Changed
  <2>3. held' /\ pc \in {"check", "second"} => IsAsked(v, el)' /\ ~moved'
    BY <1>10, StaysAsked
  <2>. QED BY <1>0, <2>1, <2>2, <2>3
<1>11. CASE UNCHANGED Wait(v)!vars
  BY <1>11 DEF Wait!vars, Wait!page, Wait!history, IsAsked, Wait!IsRef,
     Wait!Attached, Wait!CheckState, Wait!Seen
<1>. QED BY <1>1, <1>2, <1>3, <1>4, <1>5, <1>6, <1>7, <1>8, <1>9, <1>10, <1>11
         DEF Wait!Next, Wait!Step

LEMMA WaitShapeHolds ==
    ASSUME NEW v, Wait(v)!ElementWaitAssumption
    PROVE  Wait(v)!Spec => []WaitShape(v)
<1>1. Wait(v)!Init => WaitShape(v)
  BY WaitInit
<1>2. WaitShape(v) /\ [Wait(v)!Next]_(Wait(v)!vars) => WaitShape(v)'
  BY WaitTypesKeep, WaitPlaceKeeps DEF WaitShape
<1>. QED BY <1>1, <1>2, PTL DEF Wait!Spec

LEMMA TruthfulHolds ==
    ASSUME NEW v, Wait(v)!ElementWaitAssumption, Reliable(v)
    PROVE  Wait(v)!Spec => []Truthful(v)
<1>1. Wait(v)!Init => Truthful(v)
  BY WaitInit
<1>2. WaitShape(v) /\ WaitShape(v)' /\ Truthful(v)
        /\ [Wait(v)!Next]_(Wait(v)!vars) => Truthful(v)'
  BY TruthfulKeeps DEF WaitShape
<1>. QED BY <1>1, <1>2, WaitShapeHolds, PTL DEF Wait!Spec

LEMMA WaitShapeMeans ==
    ASSUME NEW v, WaitShape(v)
    PROVE  Wait(v)!TypeOK
BY DEF WaitShape, WaitTypes, WaitPlace, WaitRequests, Wait!TypeOK

LEMMA TruthfulMeans ==
    ASSUME NEW v, Truthful(v)
    PROVE  Wait(v)!TimedOutOnlyUnmet /\ Wait(v)!CountIsTrue
BY DEF Truthful, Wait!TimedOutOnlyUnmet, Wait!CountIsTrue

\* Type correctness of every wait and type command, failing calls included:
\* what is looked at or written to is an element of the page, also the n-th of
\* a ref's role and name (ResolveByLocator, resolveByRoleNameNth).
THEOREM ElementWaitTypeCorrect ==
    ASSUME NEW v, Wait(v)!ElementWaitAssumption
    PROVE  Wait(v)!Spec => []Wait(v)!TypeOK
BY WaitShapeMeans, WaitShapeHolds, PTL

\* On any page, however it changes, a wait times out only if what it waited for
\* was untrue at some time of its last look (WaitForLocator, WaitForTarget).
THEOREM TimesOutOnlyUnmet ==
    ASSUME NEW v, Wait(v)!ElementWaitAssumption, Reliable(v)
    PROVE  Wait(v)!Spec => []Wait(v)!TimedOutOnlyUnmet
BY TruthfulMeans, TruthfulHolds, PTL

\* A count that is reported found was within its bound (CountSelector).
THEOREM CountsAreTrue ==
    ASSUME NEW v, Wait(v)!ElementWaitAssumption, Reliable(v)
    PROVE  Wait(v)!Spec => []Wait(v)!CountIsTrue
BY TruthfulMeans, TruthfulHolds, PTL
----------------------------------------------------------------------------
\* The loads and the waits of the two instances.
AllWaitsInv ==
    /\ part = "loads" => LoadInv(Loads)
    /\ part = "waits" => WaitShape(Waits) /\ Truthful(Waits)

LEMMA WaitInstance == Reliable(Waits)
BY DEF Reliable, Waits

LEMMA AllWaitsKeep == AllWaitsInv /\ [Next]_vars => AllWaitsInv'
<1>. SUFFICES ASSUME AllWaitsInv, [Next]_vars PROVE AllWaitsInv'
  OBVIOUS
<1>. USE PageAssumption, WaitInstance DEF PageAssumption
<1>1. ASSUME LoadInv(Loads), UNCHANGED vars \/ Load(Loads)!Next
      PROVE  LoadInv(Loads)'
  <2>1. [Load(Loads)!Next]_(Load(Loads)!vars)
    BY <1>1 DEF vars, Load!vars
  <2>. QED BY <1>1, <2>1, LoadKeeps
<1>2. ASSUME WaitShape(Waits), Truthful(Waits),
             UNCHANGED vars \/ Wait(Waits)!Next
      PROVE  WaitShape(Waits)' /\ Truthful(Waits)'
  <2>1. [Wait(Waits)!Next]_(Wait(Waits)!vars)
    BY <1>2 DEF vars, Wait!vars, Wait!page, Wait!acts, Wait!history, Wait!budget
  <2>2. WaitShape(Waits)'
    BY <1>2, <2>1, WaitTypesKeep, WaitPlaceKeeps DEF WaitShape
  <2>. QED BY <1>2, <2>1, <2>2, TruthfulKeeps DEF WaitShape
<1>3. CASE UNCHANGED vars
  <2>1. UNCHANGED part
    BY <1>3 DEF vars
  <2>. QED BY <1>1, <1>2, <1>3, <2>1 DEF AllWaitsInv
<1>4. CASE part = "loads" /\ UNCHANGED part /\ Load(Loads)!Next
  BY <1>1, <1>4 DEF AllWaitsInv
<1>5. CASE part = "waits" /\ UNCHANGED part /\ Wait(Waits)!Next
  BY <1>2, <1>5 DEF AllWaitsInv
<1>6. CASE part \notin {"loads", "waits"} /\ UNCHANGED part
  BY <1>6 DEF AllWaitsInv
<1>. QED BY <1>3, <1>4, <1>5, <1>6 DEF Next, Step

\* Loads and waits for elements in the run of the pages: no wait is outrun by
\* its navigation, and none for an element runs out on what it has seen
\* (Navigate, WaitForTarget).
THEOREM WaitsAreRight == Spec => []WaitsHold
<1>1. Init => AllWaitsInv
  BY PageAssumption, WaitInstance, LoadInit, WaitInit
     DEF PageAssumption, Init, AllWaitsInv
<1>2. AllWaitsInv => WaitsHold
  BY PageAssumption, LoadInvMeans, WaitShapeMeans, TruthfulMeans
     DEF PageAssumption, AllWaitsInv, WaitsHold
<1>. QED BY <1>1, <1>2, AllWaitsKeep, PTL DEF Spec
----------------------------------------------------------------------------
\* Whoever waits for more than a node has a timeout, and only a type command
\* goes on to its element.
Patient ==
    /\ pc # "idle" => req.timed \/ req.state = "attached"
    /\ pc \in {"resolve", "type", "retype", "submit"} => req.kind = "type"

LEMMA PatientKeeps ==
    ASSUME NEW v, Patient, [Wait(v)!Next]_(Wait(v)!vars)
    PROVE  Patient'
<1>. USE DEF Patient, Wait!Answer
<1>1. CASE Wait(v)!Start
  <2>1. PICK q \in v.requests, timed \in BOOLEAN, own \in Wait(v)!Elems :
          /\ timed \/ q = <<"locator", "attached">>
          /\ req' = [kind |-> q[1], state |-> q[2], timed |-> timed, own |-> own,
                     nth |-> Wait(v)!Cardinality({e \in Wait(v)!Seen(dom) :
                                                     e < own})]
    BY <1>1 DEF Wait!Start
  <2>2. req'.timed = timed /\ req'.state = q[2]
    BY <2>1
  <2>3. req'.timed \/ req'.state = "attached"
    <3>1. CASE timed
      BY <2>2, <3>1, Zenon
    <3>2. CASE q = <<"locator", "attached">>
      BY <2>2, <3>2
    <3>. QED BY <2>1, <3>1, <3>2
  <2>4. pc' \in {"selector", "poll"}
    BY <1>1 DEF Wait!Start
  <2>. QED BY <2>3, <2>4
<1>2. CASE Wait(v)!Poll \/ Wait(v)!Check \/ Wait(v)!CheckAgain
  <2>1. /\ pc # "idle" /\ UNCHANGED req
        /\ pc' \in {"resolve", "type", "retype", "submit"} => req.kind = "type"
    BY <1>2 DEF Wait!Poll, Wait!Unresolved, Wait!Check, Wait!CheckAgain, Wait!Met,
       Wait!Unmet
  <2>. QED BY <2>1
<1>3. CASE Wait(v)!Selector \/ Wait(v)!Count \/ Wait(v)!Again \/ Wait(v)!TimeOut
  BY <1>3 DEF Wait!Selector, Wait!Count, Wait!Again, Wait!TimeOut
<1>4. CASE Wait(v)!ResolveToType \/ Wait(v)!Type \/ Wait(v)!Submit
  <2>1. pc \in {"resolve", "type", "retype", "submit"} /\ UNCHANGED req
    BY <1>4 DEF Wait!ResolveToType, Wait!Type, Wait!Submit
  <2>. QED BY <2>1
<1>5. CASE Wait(v)!Page \/ UNCHANGED Wait(v)!vars
  <2>1. UNCHANGED <<req, pc>>
    BY <1>5 DEF Wait!Page, Wait!vars
  <2>. QED BY <2>1
<1>. QED BY <1>1, <1>2, <1>3, <1>4, <1>5 DEF Wait!Next, Wait!Step

\* Of several matches, or of none, none is resolved, and the error tells the two
\* apart.
LEMMA NoneIsUnique ==
    ASSUME NEW v, WaitTypes(v), NEW S \in SUBSET Wait(v)!Elems,
           Wait(v)!Unique(S).el = Wait(v)!Nobody, Wait(v)!Unique(S).why # "many"
    PROVE  S = {}
<1>1. Cardinality(S) = 1 => Wait(v)!First(S, 0) \in S
  BY FirstIsIn
<1>2. Cardinality(S) # 1
  <2>. SUFFICES ASSUME Cardinality(S) = 1 PROVE FALSE
    OBVIOUS
  <2>1. Wait(v)!Unique(S).el = Wait(v)!First(S, 0)
    BY WaitNames DEF Wait!Unique, Wait!Found
  <2>. QED BY <1>1, <2>1, WaitNames
<1>3. Wait(v)!Unique(S) = Wait(v)!None(IF S = {} THEN "missing" ELSE "many")
  BY <1>2, WaitNames DEF Wait!Unique
<1>. QED BY <1>3 DEF Wait!None

LEMMA WaitStepsAreRight ==
    ASSUME NEW v, Reliable(v), WaitShape(v), Truthful(v), Patient, Wait(v)!Next
    PROVE  Wait(v)!HiddenOnlyIfUnseen /\ Wait(v)!StableIsThere
<1>0. /\ WaitTypes(v) /\ faults \in 0..v.faults
      /\ pc # "idle" => <<req.kind, req.state>> \in SafeRequests
      /\ pc \in {"check", "second"} => el \in Wait(v)!Elems
  BY DEF WaitShape, WaitTypes, WaitPlace, Truthful
<1>1. Wait(v)!HiddenOnlyIfUnseen
  <2>. SUFFICES ASSUME answer = "none", answer' \in {"found", "hidden"},
                       req.kind \in {"css", "locator"}, req.state = "hidden"
                PROVE  unseen' \/ el \in Wait(v)!Elems \ Wait(v)!Seen(dom)
    BY DEF Wait!HiddenOnlyIfUnseen
  <2>1. /\ ~Wait(v)!Start /\ ~Wait(v)!Again /\ ~Wait(v)!TimeOut /\ ~Wait(v)!Page
        /\ ~Wait(v)!ResolveToType /\ ~Wait(v)!Type
    BY DEF Wait!Start, Wait!Again, Wait!TimeOut, Wait!Page, Wait!ResolveToType,
       Wait!Type, Wait!Answer
  <2>2. ~Wait(v)!Selector /\ ~Wait(v)!Count
    BY DEF Wait!Selector, Wait!Count, Truthful
  <2>3. ~Wait(v)!Submit /\ ~Wait(v)!CheckAgain
    BY DEF Wait!Submit, Wait!CheckAgain, Patient, Truthful
  <2>4. CASE Wait(v)!Poll
    <3>1. PICK f \in BOOLEAN :
            /\ Wait(v)!Look(f) /\ el' = Wait(v)!Resolve(dom, req, f).el
            /\ IF el' # Wait(v)!Nobody THEN pc' = "check" /\ UNCHANGED answer
               ELSE Wait(v)!Unresolved(Wait(v)!Resolve(dom, req, f).why)
      BY <2>4 DEF Wait!Poll
    <3>2. f = FALSE
      BY <1>0, <3>1, NoFaults DEF Wait!Look
    <3>3. req.kind = "locator" /\ req.timed
      <4>1. <<req.kind, "hidden">> \in SafeRequests /\ pc # "idle"
        BY <1>0, <2>4 DEF Wait!Poll
      <4>2. req.kind = "locator"
        BY <4>1 DEF SafeRequests
      <4>. QED BY <4>1, <4>2 DEF Patient
    <3>4. Wait(v)!Resolve(dom, req, f) = Wait(v)!Unique(Wait(v)!Seen(dom))
      BY <3>2, <3>3 DEF Wait!Resolve, Wait!IsRef
    <3>5. el' = Wait(v)!Nobody
      BY <3>1
    <3>6. Wait(v)!Unique(Wait(v)!Seen(dom)).why # "many"
      BY <3>1, <3>3, <3>4, <3>5
        DEF Wait!Unresolved, Wait!Ambiguous, Wait!Answer, Wait!IsRef
    <3>7. Wait(v)!Seen(dom) = {}
      BY <1>0, <3>1, <3>4, <3>5, <3>6, WaitNames, NoneIsUnique
    <3>. QED BY <3>1, <3>7, Zenon DEF Wait!Look
  <2>5. CASE Wait(v)!Check
    <3>1. PICK f \in BOOLEAN :
            /\ Wait(v)!Fails(f)
            /\ ~f /\ ~Wait(v)!CheckState(dom, el, req.state) => Wait(v)!Unmet
      BY <2>5 DEF Wait!Check
    <3>2. f = FALSE
      BY <1>0, <3>1, NoFaults
    <3>3. Wait(v)!CheckState(dom, el, req.state)
      BY <3>1, <3>2 DEF Wait!Unmet, Wait!Answer
    <3>4. el \notin Wait(v)!Seen(dom)
      BY <3>3 DEF Wait!CheckState
    <3>. QED BY <1>0, <2>5, <3>4 DEF Wait!Check
  <2>. QED BY <2>1, <2>2, <2>3, <2>4, <2>5 DEF Wait!Next, Wait!Step
<1>2. Wait(v)!StableIsThere
  <2>. SUFFICES ASSUME answer = "none", answer' = "found", Wait(v)!Single(req),
                       req.state = "stable"
                PROVE  el \in Wait(v)!Seen(dom)
    BY DEF Wait!StableIsThere
  <2>1. /\ ~Wait(v)!Start /\ ~Wait(v)!Again /\ ~Wait(v)!TimeOut /\ ~Wait(v)!Page
        /\ ~Wait(v)!ResolveToType /\ ~Wait(v)!Type
    BY DEF Wait!Start, Wait!Again, Wait!TimeOut, Wait!Page, Wait!ResolveToType,
       Wait!Type, Wait!Answer
  <2>2. ~Wait(v)!Selector /\ ~Wait(v)!Count
    BY DEF Wait!Selector, Wait!Count, Truthful, Wait!Single
  <2>3. ~Wait(v)!Submit
    BY <1>0 DEF Wait!Submit, Patient, SafeRequests
  <2>4. ~Wait(v)!Poll /\ ~Wait(v)!Check
    BY DEF Wait!Poll, Wait!Unresolved, Wait!Check, Wait!Met, Wait!Unmet, Wait!Answer
  <2>5. CASE Wait(v)!CheckAgain
    BY <2>5 DEF Wait!CheckAgain, Wait!Unmet, Wait!Answer
  <2>. QED BY <2>1, <2>2, <2>3, <2>4, <2>5 DEF Wait!Next, Wait!Step
<1>. QED BY <1>1, <1>2
----------------------------------------------------------------------------
\* Clicks (ClickWaits).

\* The records of the two streams and of the watch.
Tabs      == [opener : Nat, alive : BOOLEAN]
Wired     == [kind : {"target", "download"}, opener : Nat, target : Nat]
Watched   == [seq : Nat, opener : Nat, target : Nat]
PageNews  == [frame : {"main", "inner"}, change : {"document", "within", "parsed"}]
Switches  == [popup : BOOLEAN, nav : BOOLEAN, download : BOOLEAN]
Watches   == [seq : Nat, events : Seq(Watched), downloads : Nat]
ClickTypes(v) ==
    [n : Nat, page : Nat, look : Click(v)!Looks \union {"enter"},
     phase : Click(v)!Phases, mark : Nat, made : Nat, counted : Nat,
     from : Nat \ {0}, since : Nat \ {0}, at : Nat, before : Nat, dmark : Nat]
ResultTypes ==
    [taken : Nat, nav : {"none", "timeout", "document", "within", "parsed"},
     frame : {"none", "main", "inner"}, download : {"none", "seen", "timeout"},
     lost : SUBSET Nat]

ClickShape(v) ==
    /\ targets \in Seq(Tabs) /\ wire \in Seq(Wired) /\ watch \in Watches
    /\ news \in Seq(PageNews) /\ ring \in Seq(PageNews)
    /\ doc \in Nat /\ begun \in Nat /\ hints \in Switches
    /\ click \in ClickTypes(v) /\ result \in ResultTypes

\* A tab that is told of, on the stream or in the watch's list, is one that
\* Chrome opened, by the page it says.
TabsAreTold ==
    /\ \A i \in DOMAIN wire : wire[i].kind = "target" =>
          /\ wire[i].target \in DOMAIN targets
          /\ targets[wire[i].target].opener = wire[i].opener
    /\ \A i \in DOMAIN watch.events :
          /\ watch.events[i].target \in DOMAIN targets
          /\ targets[watch.events[i].target].opener = watch.events[i].opener

\* Numbers in order, as far apart as their places at least: so they stay when
\* one more is added, the first one dropped or not, and when one is taken out.
Apart(q, n, s) ==
    /\ \A i \in 1..n : q[i] \in 1..s
    /\ \A i, j \in 1..n : i <= j => q[i] + (j - i) <= q[j]

\* The list is within its cap and in the order of arrival.
Numbers(s) == [i \in DOMAIN s |-> s[i].seq]
InOrder(v) ==
    /\ Len(watch.events) <= v.cap
    /\ Apart(Numbers(watch.events), Len(watch.events), watch.seq)
    /\ click.mark <= watch.seq

\* Of lo downloads counted and hi begun: f counts those of the events before
\* each place of the stream.
Counted(w, lo, hi) ==
    \E f \in [0..Len(w) -> Nat] :
        /\ lo <= f[0] /\ f[Len(w)] <= hi
        /\ \A i, j \in 0..Len(w) : i <= j => f[i] <= f[j]
        /\ \A i \in 1..Len(w) : w[i].kind = "download" => f[i - 1] + 1 <= f[i]
DownloadsCounted ==
    click.dmark <= watch.downloads /\ Counted(wire, watch.downloads, begun)

\* The page of the click stays the session's, and what was taken is its own.
OwnTabs ==
    /\ here \in DOMAIN targets /\ targets[here].alive
    /\ click.phase # "idle" => click.page = here /\ result.taken = 0
    /\ result.taken # 0 =>
          /\ result.taken \in DOMAIN targets
          /\ targets[result.taken].opener = click.page

\* What the waits go by is the look of this click's own element.
LooksAreOwn ==
    /\ click.phase \in {"probe", "input", "nav", "reading"} => result.nav = "none"
    /\ result.nav # "none" => click.look \in {"nav", "enter"}
    /\ click.phase \in {"reading", "load"} => click.look \in {"nav", "enter"}
    /\ click.phase \in {"input", "download", "beginning", "popup"} =>
          click.look # "enter"
    /\ click.phase \notin {"idle", "probe"} /\ click.look # "enter" =>
          /\ (hints.nav => click.look = "nav")
          /\ (hints.download => click.look = "download")
          /\ (hints.popup => click.look = "popup")
    /\ click.phase \notin {"idle", "popup"} =>
          result.download = "none" /\ result.lost = {}
    /\ result.download # "none" => click.look = "download"
    /\ click.phase = "beginning" => click.look = "download"
    /\ click.look # "popup" /\ click.phase # "idle" => result.lost = {}
    /\ click.look # "popup" => \E t \in Nat : result.lost \subseteq {t}

\* A tab of the page, opened since the mark, is on the stream, in the list
\* beyond the mark, or lost; or the list has overflown since, or nothing is
\* looked for.
Remembered(v, t) ==
    \/ \E i \in DOMAIN wire : wire[i].kind = "target" /\ wire[i].target = t
    \/ \E i \in DOMAIN watch.events :
          watch.events[i].target = t /\ watch.events[i].seq > click.mark
    \/ t \in result.lost
    \/ click.look = "enter" /\ click.phase # "probe"
    \/ watch.seq > click.mark + v.cap
NoneForgotten(v) ==
    click.phase # "idle" =>
        \A t \in DOMAIN targets :
            targets[t].opener = here /\ t > click.made => Remembered(v, t)

\* The hub is asked from before the press.
SinceThePress(v) ==
    v.hub /\ click.phase = "reading" => click.since <= click.from

ClickInv(v) ==
    /\ ClickShape(v) /\ TabsAreTold /\ InOrder(v) /\ DownloadsCounted
    /\ OwnTabs /\ LooksAreOwn /\ NoneForgotten(v) /\ SinceThePress(v)

LEMMA WatchChanged ==
    ASSUME NEW s \in Seq(Watched), NEW n \in Nat, watch \in Watches,
           watch' = [watch EXCEPT !.seq = n, !.events = s]
    PROVE  /\ watch' \in Watches /\ watch'.seq = n /\ watch'.events = s
           /\ watch'.downloads = watch.downloads
BY DEF Watches

LEMMA SequenceOf ==
    ASSUME NEW A, NEW n \in Nat, NEW s \in [1..n -> A]
    PROVE  s \in Seq(A) /\ Len(s) = n
OBVIOUS

LEMMA SequenceAfter ==
    ASSUME NEW A, NEW s \in Seq(A), Len(s) > 1, NEW r, r = SubSeq(s, 2, Len(s))
    PROVE  /\ r \in Seq(A) /\ Len(r) = Len(s) - 1
           /\ \A i \in 1..Len(r) : r[i] = s[i + 1]
OBVIOUS

LEMMA LeastEntry ==
    ASSUME NEW v, ClickShape(v), Click(v)!Entries # {}
    PROVE  /\ Click(v)!Entry \in DOMAIN watch.events
           /\ Click(v)!Takeable(watch.events[Click(v)!Entry])
<1>1. watch.events \in Seq(Watched)
  BY DEF ClickShape, Watches
<1>2. DOMAIN watch.events \in SUBSET Nat
  BY <1>1
<1>3. Click(v)!Entries \in SUBSET Nat
  BY <1>2 DEF Click!Entries
<1>4. Click(v)!Entry \in Click(v)!Entries
  BY <1>3, LeastOf DEF Click!Entry, Click!Min
<1>. QED BY <1>4 DEF Click!Entries

LEMMA LeastMove ==
    ASSUME NEW v, ClickShape(v), Click(v)!MovesSince # {}
    PROVE  ring[Click(v)!FirstMove] \in PageNews
<1>1. ring \in Seq(PageNews) /\ click.since \in Nat \ {0}
  BY DEF ClickShape, ClickTypes
<1>2. Click(v)!MovesSince \in SUBSET (1..Len(ring))
  BY <1>1 DEF Click!MovesSince
<1>3. Click(v)!FirstMove \in Click(v)!MovesSince
  BY <1>2, LeastOf DEF Click!FirstMove, Click!Min
<1>. QED BY <1>1, <1>2, <1>3

\* An entry added to the list, which drops its oldest one when it is full.
LEMMA EntryAdded ==
    ASSUME NEW v, Click(v)!ClickAssumption, ClickShape(v), InOrder(v),
           NEW e \in Wired,
           watch' = Click(v)!Push(watch, e)
    PROVE  /\ watch' \in Watches
           /\ watch'.seq = watch.seq + 1 /\ watch'.downloads = watch.downloads
           /\ \E k \in {0, 1} :
                 /\ k = 1 => Len(watch.events) = v.cap
                 /\ Len(watch'.events) = Len(watch.events) + 1 - k
                 /\ Len(watch'.events) <= v.cap
                 /\ \A i \in DOMAIN watch'.events :
                       watch'.events[i] =
                          IF i + k <= Len(watch.events) THEN watch.events[i + k]
                          ELSE [seq |-> watch.seq + 1, opener |-> e.opener,
                                target |-> e.target]
<1>. DEFINE new == [seq |-> watch.seq + 1, opener |-> e.opener,
                    target |-> e.target]
            all == Append(watch.events, new)
            kept == IF Len(all) > v.cap
                    THEN SubSeq(all, Len(all) - v.cap + 1, Len(all)) ELSE all
<1>1. /\ watch.events \in Seq(Watched) /\ watch.seq \in Nat /\ v.cap \in Nat \ {0}
      /\ watch \in Watches /\ Len(watch.events) \in Nat
      /\ Len(watch.events) <= v.cap
  BY DEF ClickShape, Watches, Click!ClickAssumption, InOrder
<1>0. watch.seq + 1 \in Nat
  BY <1>1
<1>2. new \in Watched
  BY <1>1 DEF Wired, Watched
<1>3. all \in Seq(Watched) /\ Len(all) = Len(watch.events) + 1
  BY <1>1, <1>2
<1>4. /\ watch' = [watch EXCEPT !.seq = watch.seq + 1, !.events = kept]
  BY DEF Click!Push, Click!Entered
<1>5. \A i \in 1..Len(all) :
         all[i] = IF i <= Len(watch.events) THEN watch.events[i] ELSE new
  BY <1>1, <1>2
<1>. HIDE DEF all, new
<1>6. CASE Len(watch.events) < v.cap
  <2>1. kept = all
    BY <1>1, <1>3, <1>6
  <2>2. watch' = [watch EXCEPT !.seq = watch.seq + 1, !.events = all]
    BY <1>4, <2>1
  <2>3. watch' \in Watches /\ watch'.seq = watch.seq + 1
        /\ watch'.downloads = watch.downloads /\ watch'.events = all
    BY <1>0, <1>1, <1>3, <2>2, WatchChanged
  <2>4. \A i \in DOMAIN watch'.events : watch'.events[i] =
           IF i + 0 <= Len(watch.events) THEN watch.events[i + 0] ELSE new
    BY <1>1, <1>3, <1>5, <2>3
  <2>. QED BY <1>1, <1>3, <1>6, <2>3, <2>4 DEF new
<1>7. CASE Len(watch.events) = v.cap
  <2>1. kept = SubSeq(all, 2, Len(all))
    BY <1>1, <1>3, <1>7
  <2>. HIDE DEF kept
  <2>2. kept \in Seq(Watched) /\ Len(kept) = Len(watch.events)
        /\ \A i \in 1..Len(kept) : kept[i] = all[i + 1]
    <3>1. Len(all) > 1 /\ Len(all) - 1 = Len(watch.events)
      BY <1>1, <1>3, <1>7
    <3>. QED BY <1>3, <2>1, <3>1, SequenceAfter
  <2>3. watch' \in Watches /\ watch'.seq = watch.seq + 1
        /\ watch'.downloads = watch.downloads /\ watch'.events = kept
    BY <1>0, <1>1, <1>4, <2>2, WatchChanged
  <2>4. \A i \in DOMAIN watch'.events : watch'.events[i] =
           IF i + 1 <= Len(watch.events) THEN watch.events[i + 1] ELSE new
    <3>. SUFFICES ASSUME NEW i \in 1..Len(kept)
                  PROVE  kept[i] = IF i + 1 <= Len(watch.events)
                                   THEN watch.events[i + 1] ELSE new
      BY <2>2, <2>3
    <3>1. i + 1 \in 1..Len(all) /\ kept[i] = all[i + 1]
      BY <1>1, <1>3, <2>2
    <3>. QED BY <1>5, <3>1
  <2>. QED BY <1>1, <1>3, <1>7, <2>2, <2>3, <2>4 DEF new
<1>. QED BY <1>1, <1>6, <1>7

\* An entry taken out of the list.
LEMMA EntryTaken ==
    ASSUME NEW v, ClickShape(v), NEW m \in DOMAIN watch.events,
           watch' = [watch EXCEPT !.events = Click(v)!Without(@, m)]
    PROVE  /\ watch' \in Watches
           /\ watch'.seq = watch.seq /\ watch'.downloads = watch.downloads
           /\ Len(watch'.events) = Len(watch.events) - 1
           /\ DOMAIN watch'.events = 1..(Len(watch.events) - 1)
           /\ \A i \in DOMAIN watch'.events :
                 watch'.events[i] = watch.events[IF i < m THEN i ELSE i + 1]
<1>. DEFINE rest == Click(v)!Without(watch.events, m)
<1>1. /\ watch.events \in Seq(Watched) /\ watch \in Watches
      /\ Len(watch.events) \in Nat /\ m \in 1..Len(watch.events)
  BY DEF ClickShape, Watches
<1>2. rest = [j \in 1..(Len(watch.events) - 1) |->
                 watch.events[IF j < m THEN j ELSE j + 1]]
  BY DEF Click!Without
<1>3. rest \in [1..(Len(watch.events) - 1) -> Watched]
  BY <1>1, <1>2
<1>4. rest \in Seq(Watched) /\ Len(rest) = Len(watch.events) - 1
  <2>1. Len(watch.events) - 1 \in Nat
    BY <1>1
  <2>. QED BY <1>3, <2>1, SequenceOf
<1>5. watch' = [watch EXCEPT !.seq = watch.seq, !.events = rest]
  BY <1>1 DEF Watches
<1>. HIDE DEF rest
<1>6. watch' \in Watches /\ watch'.events = rest
      /\ watch'.seq = watch.seq /\ watch'.downloads = watch.downloads
  BY <1>1, <1>4, <1>5, WatchChanged DEF Watches
<1>. QED BY <1>1, <1>2, <1>4, <1>6

\* The types of the streams and of the tabs.
LEMMA ClickStreamsKeep ==
    ASSUME NEW v, Click(v)!ClickAssumption, ClickShape(v), InOrder(v),
           Click(v)!Next
    PROVE  /\ targets' \in Seq(Tabs) /\ wire' \in Seq(Wired) /\ watch' \in Watches
           /\ news' \in Seq(PageNews) /\ ring' \in Seq(PageNews)
           /\ doc' \in Nat /\ begun' \in Nat
<1>0. /\ targets \in Seq(Tabs) /\ wire \in Seq(Wired) /\ watch \in Watches
      /\ news \in Seq(PageNews) /\ ring \in Seq(PageNews)
      /\ doc \in Nat /\ begun \in Nat /\ click \in ClickTypes(v)
  BY DEF ClickShape
<1>1. ASSUME NEW p \in DOMAIN targets, Click(v)!OpenTarget(p)
      PROVE  targets' \in Seq(Tabs) /\ wire' \in Seq(Wired)
  <2>1. /\ [opener |-> p, alive |-> TRUE] \in Tabs
        /\ Click(v)!Opened(p, Len(targets) + 1) \in Wired
    BY <1>0 DEF Tabs, Wired, Click!Opened
  <2>. QED BY <1>0, <1>1, <2>1 DEF Click!OpenTarget
<1>2. ASSUME Click(v)!BeginDownload PROVE wire' \in Seq(Wired) /\ begun' \in Nat
  <2>1. Click(v)!DownloadNews \in Wired
    BY DEF Wired, Click!DownloadNews, Click!None
  <2>. QED BY <1>0, <1>2, <2>1 DEF Click!BeginDownload
<1>3. ASSUME NEW f \in Click(v)!Frames, NEW c \in Click(v)!Changes,
             Click(v)!Commit(f, c)
      PROVE  news' \in Seq(PageNews) /\ doc' \in Nat
  <2>1. [frame |-> f, change |-> c] \in PageNews
    BY DEF PageNews, Click!Frames, Click!Changes
  <2>. QED BY <1>0, <1>3, <2>1 DEF Click!Commit
<1>4. CASE Click(v)!PageActs
  BY <1>0, <1>1, <1>2, <1>3, <1>4
     DEF Click!PageActs, Click!OpenTarget, Click!BeginDownload, Click!Commit
<1>5. ASSUME NEW t \in DOMAIN targets, Click(v)!TargetCloses(t)
      PROVE  targets' \in Seq(Tabs)
  <2>0. targets[t] \in Tabs
    BY <1>0, <1>5
  <2>1. PICK tab : tab = [targets[t] EXCEPT !.alive = FALSE]
    OBVIOUS
  <2>2. tab \in Tabs
    BY <1>0, <1>5, <2>1, <2>0 DEF Tabs
  <2>3. targets' = [targets EXCEPT ![t] = tab]
    BY <1>5, <2>1 DEF Click!TargetCloses
  <2>. QED BY <1>0, <2>2, <2>3
<1>6. CASE Click(v)!WatchReads
  <2>1. wire # << >> /\ Head(wire) \in Wired /\ wire' = Tail(wire)
    BY <1>0, <1>6 DEF Click!WatchReads
  <2>2. wire' \in Seq(Wired)
    BY <1>0, <2>1
  <2>3. CASE Head(wire).kind = "target"
    <3>1. watch' = Click(v)!Push(watch, Head(wire))
      BY <1>6, <2>3 DEF Click!WatchReads
    <3>2. watch' \in Watches
      BY <2>1, <3>1, EntryAdded
    <3>. QED BY <1>0, <1>6, <2>2, <3>2 DEF Click!WatchReads
  <2>4. CASE Head(wire).kind # "target"
    <3>1. watch' = [watch EXCEPT !.downloads = watch.downloads + 1]
      BY <1>6, <2>4 DEF Click!WatchReads
    <3>2. watch.downloads + 1 \in Nat
      BY <1>0 DEF Watches
    <3>3. watch' \in Watches
      BY <1>0, <3>1, <3>2 DEF Watches
    <3>. QED BY <1>0, <1>6, <2>2, <3>3 DEF Click!WatchReads
  <2>. QED BY <2>3, <2>4
<1>7. CASE Click(v)!HubReads
  BY <1>0, <1>7 DEF Click!HubReads
<1>8. ASSUME NEW t, Click(v)!MoveTo(t)
      PROVE  news' \in Seq(PageNews) /\ ring' \in Seq(PageNews) /\ doc' \in Nat
  BY <1>8 DEF Click!MoveTo
<1>9. CASE Click(v)!TakeTarget
  <2>1. watch' \in Watches
    BY <1>9, LeastEntry, EntryTaken DEF Click!TakeTarget
  <2>. QED BY <1>0, <1>8, <1>9, <2>1 DEF Click!TakeTarget
<1>10. CASE UNCHANGED <<targets, wire, watch, news, ring, doc, begun>>
  BY <1>0, <1>10
<1>. QED BY <1>0, <1>4, <1>5, <1>6, <1>7, <1>8, <1>9, <1>10
         DEF Click!Next, Click!TargetCloses, Click!SwitchTab, Click!Mark,
             Click!Probe, Click!Input, Click!PressEnter, Click!BeginNavWait,
             Click!NavSeen, Click!AddressChanged, Click!NavTimesOut,
             Click!LoadWaitEnds, Click!BeginDownloadWait,
             Click!DownloadWaitEnds, Click!NoTarget

\* The types of the hints, of the click in hand and of its result.
LEMMA ClickCallKeeps ==
    ASSUME NEW v, Click(v)!ClickAssumption, ClickShape(v), Click(v)!Next,
           here \in Nat
    PROVE  hints' \in Switches /\ click' \in ClickTypes(v)
           /\ result' \in ResultTypes
<1>0. /\ watch \in Watches /\ doc \in Nat /\ Len(ring) \in Nat
      /\ Len(targets) \in Nat /\ hints \in Switches
      /\ click \in ClickTypes(v) /\ result \in ResultTypes
      /\ watch.events \in Seq(Watched)
  BY DEF ClickShape, Watches
<1>1. /\ watch.seq \in Nat /\ watch.downloads \in Nat /\ Len(ring) + 1 \in Nat \ {0}
      /\ click.n + 1 \in Nat /\ Click(v)!AfterNav \in Click(v)!Phases
      /\ Click(v)!NoResult \in ResultTypes
  BY <1>0 DEF Watches, ClickTypes, Click!AfterNav, Click!Phases, Click!NoResult,
              ResultTypes, Click!None
<1>2. CASE Click(v)!Mark
  BY <1>0, <1>1, <1>2 DEF Click!Mark, ClickTypes, Click!Phases
<1>3. ASSUME NEW l \in Click(v)!Looks, Click(v)!Probe(l)
      PROVE  hints' \in Switches /\ click' \in ClickTypes(v)
  <2>1. hints' \in Switches
    BY <1>0, <1>3 DEF Click!Probe, Switches
  <2>. QED BY <1>0, <1>1, <1>3, <2>1 DEF Click!Probe, ClickTypes, Click!Phases
<1>4. CASE Click(v)!Input
  BY <1>0, <1>1, <1>4 DEF Click!Input, ClickTypes, Click!Phases
<1>5. CASE Click(v)!PressEnter
  <2>1. hints' \in Switches
    BY <1>0, <1>5 DEF Click!PressEnter, Switches
  <2>2. click' \in ClickTypes(v)
    BY <1>0, <1>1, <1>5 DEF Click!PressEnter, ClickTypes, Click!Phases
  <2>. QED BY <1>1, <1>5, <2>1, <2>2 DEF Click!PressEnter
<1>6. CASE Click(v)!BeginNavWait
  <2>1. \A s \in 1..click.from : s \in Nat \ {0}
    BY <1>0 DEF ClickTypes
  <2>2. UNCHANGED <<hints, result>>
    BY <1>6 DEF Click!BeginNavWait
  <2>3. ASSUME NEW s \in Nat \ {0},
               click' = [click EXCEPT !.phase = "reading", !.since = s]
        PROVE  click' \in ClickTypes(v)
    BY <1>0, <2>3 DEF ClickTypes, Click!Phases
  <2>4. ASSUME click' = [click EXCEPT !.phase = "reading", !.before = doc]
        PROVE  click' \in ClickTypes(v)
    BY <1>0, <2>4 DEF ClickTypes, Click!Phases
  <2>5. ASSUME click' = [click EXCEPT !.phase = Click(v)!AfterNav]
        PROVE  click' \in ClickTypes(v)
    BY <1>0, <1>1, <2>5 DEF ClickTypes
  <2>. QED BY <1>0, <1>6, <2>1, <2>2, <2>3, <2>4, <2>5 DEF Click!BeginNavWait
<1>7. CASE Click(v)!NavSeen
  <2>1. ring[Click(v)!FirstMove] \in PageNews
    BY <1>7, LeastMove DEF Click!NavSeen
  <2>2. click' \in ClickTypes(v)
    BY <1>0, <1>1, <1>7 DEF Click!NavSeen, ClickTypes, Click!Phases
  <2>. QED BY <1>0, <1>7, <2>1, <2>2 DEF Click!NavSeen, PageNews, ResultTypes
<1>8. ASSUME NEW p \in Click(v)!Phases, click' = [click EXCEPT !.phase = p]
      PROVE  click' \in ClickTypes(v)
  BY <1>0, <1>8 DEF ClickTypes
<1>9. /\ "load" \in Click(v)!Phases /\ "popup" \in Click(v)!Phases
      /\ "idle" \in Click(v)!Phases
  BY DEF Click!Phases
<1>12. CASE Click(v)!AddressChanged
  <2>1. result' \in ResultTypes
    BY <1>0, <1>12 DEF Click!AddressChanged, ResultTypes
  <2>. QED BY <1>0, <1>8, <1>9, <1>12, <2>1 DEF Click!AddressChanged
<1>13. CASE Click(v)!NavTimesOut
  <2>1. result' \in ResultTypes
    BY <1>0, <1>13 DEF Click!NavTimesOut, ResultTypes
  <2>. QED BY <1>0, <1>1, <1>8, <1>13, <2>1 DEF Click!NavTimesOut
<1>14. CASE Click(v)!LoadWaitEnds
  BY <1>0, <1>1, <1>8, <1>14 DEF Click!LoadWaitEnds
<1>15. CASE Click(v)!BeginDownloadWait
  <2>1. ASSUME click' = [click EXCEPT !.phase = "beginning",
                                      !.dmark = watch.downloads]
        PROVE  click' \in ClickTypes(v)
    BY <1>0, <1>1, <2>1 DEF ClickTypes, Click!Phases
  <2>. QED BY <1>0, <1>8, <1>9, <1>15, <2>1 DEF Click!BeginDownloadWait
<1>16. CASE Click(v)!DownloadWaitEnds
  <2>1. result' \in ResultTypes
    BY <1>0, <1>16 DEF Click!DownloadWaitEnds, ResultTypes
  <2>. QED BY <1>0, <1>8, <1>9, <1>16, <2>1 DEF Click!DownloadWaitEnds
<1>17. CASE Click(v)!NoTarget
  BY <1>0, <1>8, <1>9, <1>17 DEF Click!NoTarget
<1>10. CASE Click(v)!TakeTarget
  <2>1. watch.events[Click(v)!Entry].target \in Nat
    <3>1. Click(v)!Entry \in DOMAIN watch.events
      BY <1>10, LeastEntry DEF Click!TakeTarget
    <3>2. watch.events[Click(v)!Entry] \in Watched
      BY <1>0, <3>1
    <3>. QED BY <3>2 DEF Watched
  <2>2. click' \in ClickTypes(v)
    BY <1>0, <1>10 DEF Click!TakeTarget, ClickTypes, Click!Phases
  <2>3. result' \in ResultTypes
    BY <1>0, <1>10, <2>1 DEF Click!TakeTarget, ResultTypes
  <2>. QED BY <1>0, <1>10, <2>2, <2>3 DEF Click!TakeTarget
<1>11. CASE UNCHANGED <<hints, click>> /\ result' \in {result, Click(v)!NoResult}
  BY <1>0, <1>1, <1>11
<1>18. CASE \/ Click(v)!PageActs \/ Click(v)!WatchReads \/ Click(v)!HubReads
             \/ \E t \in DOMAIN targets :
                   Click(v)!TargetCloses(t) \/ Click(v)!SwitchTab(t)
  BY <1>11, <1>18 DEF Click!PageActs, Click!TargetCloses, Click!SwitchTab,
     Click!WatchReads, Click!HubReads
<1>19. ASSUME NEW l \in Click(v)!Looks, Click(v)!Probe(l)
       PROVE  UNCHANGED result
  BY <1>19 DEF Click!Probe
<1>. QED BY <1>0, <1>2, <1>3, <1>4, <1>5, <1>6, <1>7, <1>10, <1>12, <1>13, <1>14,
            <1>15, <1>16, <1>17, <1>18, <1>19 DEF Click!Next

\* The tabs that there are stay, opened by whom they were.
LEMMA TabsStay ==
    ASSUME NEW v, ClickShape(v), Click(v)!Next
    PROVE  \A t \in DOMAIN targets :
              t \in DOMAIN targets' /\ targets'[t].opener = targets[t].opener
<1>0. targets \in Seq(Tabs)
  BY DEF ClickShape
<1>1. ASSUME NEW tab, targets' = Append(targets, tab)
      PROVE  \A t \in DOMAIN targets :
                t \in DOMAIN targets' /\ targets'[t] = targets[t]
  BY <1>0, <1>1
<1>2. ASSUME NEW u \in DOMAIN targets,
             targets' = [targets EXCEPT ![u].alive = FALSE]
      PROVE  \A t \in DOMAIN targets :
                t \in DOMAIN targets' /\ targets'[t].opener = targets[t].opener
  <2>1. targets[u] \in Tabs
    BY <1>0
  <2>2. PICK tab : tab = [targets[u] EXCEPT !.alive = FALSE]
    OBVIOUS
  <2>3. tab.opener = targets[u].opener
    BY <2>1, <2>2 DEF Tabs
  <2>4. targets' = [targets EXCEPT ![u] = tab]
    BY <1>2, <2>2
  <2>. QED BY <1>0, <2>3, <2>4
<1>3. CASE \E p \in DOMAIN targets : Click(v)!OpenTarget(p)
  BY <1>1, <1>3 DEF Click!OpenTarget
<1>4. CASE \E u \in DOMAIN targets : Click(v)!TargetCloses(u)
  BY <1>2, <1>4 DEF Click!TargetCloses
<1>5. CASE UNCHANGED targets
  BY <1>5
<1>. QED BY <1>3, <1>4, <1>5
         DEF Click!Next, Click!PageActs, Click!BeginDownload, Click!Commit,
             Click!SwitchTab, Click!WatchReads, Click!HubReads, Click!Mark,
             Click!Probe, Click!Input, Click!PressEnter, Click!BeginNavWait,
             Click!NavSeen, Click!AddressChanged, Click!NavTimesOut,
             Click!LoadWaitEnds, Click!BeginDownloadWait,
             Click!DownloadWaitEnds, Click!TakeTarget, Click!NoTarget

LEMMA TabsAreToldKeeps ==
    ASSUME NEW v, Click(v)!ClickAssumption, ClickShape(v), InOrder(v),
           TabsAreTold, Click(v)!Next
    PROVE  TabsAreTold'
<1>. USE DEF TabsAreTold
<1>0. /\ targets \in Seq(Tabs) /\ wire \in Seq(Wired)
      /\ watch.events \in Seq(Watched) /\ Len(watch.events) \in Nat
  BY DEF ClickShape, Watches
<1>1. \A t \in DOMAIN targets :
         t \in DOMAIN targets' /\ targets'[t].opener = targets[t].opener
  BY TabsStay
<1>2. ASSUME NEW p \in DOMAIN targets, Click(v)!OpenTarget(p), UNCHANGED watch
      PROVE  TabsAreTold'
  <2>1. /\ wire' = Append(wire, Click(v)!Opened(p, Len(targets) + 1))
        /\ targets' = Append(targets, [opener |-> p, alive |-> TRUE])
    BY <1>2 DEF Click!OpenTarget
  <2>2. targets'[Len(targets) + 1] = [opener |-> p, alive |-> TRUE]
        /\ Len(targets) + 1 \in DOMAIN targets'
    BY <1>0, <2>1
  <2>3. targets'[Len(targets) + 1].opener = p
    BY <2>2
  <2>4. \A i \in DOMAIN wire' :
           \/ i \in DOMAIN wire /\ wire'[i] = wire[i]
           \/ wire'[i] = Click(v)!Opened(p, Len(targets) + 1)
    BY <1>0, <2>1
  <2>5. /\ Click(v)!Opened(p, Len(targets) + 1).target = Len(targets) + 1
        /\ Click(v)!Opened(p, Len(targets) + 1).opener = p
    BY DEF Click!Opened
  <2>. QED BY <1>1, <1>2, <2>2, <2>3, <2>4, <2>5
<1>3. CASE Click(v)!BeginDownload /\ UNCHANGED watch
  <2>1. \A i \in DOMAIN wire' :
           \/ i \in DOMAIN wire /\ wire'[i] = wire[i]
           \/ wire'[i] = Click(v)!DownloadNews
    BY <1>0, <1>3 DEF Click!BeginDownload
  <2>2. Click(v)!DownloadNews.kind # "target"
    BY DEF Click!DownloadNews
  <2>. QED BY <1>1, <1>3, <2>1, <2>2
<1>4. CASE Click(v)!WatchReads
  <2>1. wire # << >> /\ wire' = Tail(wire) /\ Head(wire) = wire[1]
        /\ 1 \in DOMAIN wire /\ Head(wire) \in Wired
    BY <1>0, <1>4 DEF Click!WatchReads
  <2>2. \A i \in DOMAIN wire' : i + 1 \in DOMAIN wire /\ wire'[i] = wire[i + 1]
    BY <1>0, <2>1
  <2>3. CASE Head(wire).kind = "target"
    <3>1. watch' = Click(v)!Push(watch, Head(wire))
      BY <1>4, <2>3 DEF Click!WatchReads
    <3>2. PICK k \in {0, 1} :
             \A i \in DOMAIN watch'.events :
                watch'.events[i] =
                   IF i + k <= Len(watch.events) THEN watch.events[i + k]
                   ELSE [seq |-> watch.seq + 1, opener |-> Head(wire).opener,
                         target |-> Head(wire).target]
      BY <2>1, <3>1, EntryAdded
    <3>3. DOMAIN watch'.events \subseteq Nat \ {0}
      <4>1. watch' \in Watches
        BY <2>1, <3>1, EntryAdded
      <4>. QED BY <4>1 DEF Watches
    <3>4. \A i \in DOMAIN watch'.events :
             \/ /\ i + k \in DOMAIN watch.events
                /\ watch'.events[i] = watch.events[i + k]
             \/ /\ watch'.events[i].target = Head(wire).target
                /\ watch'.events[i].opener = Head(wire).opener
      BY <1>0, <3>2, <3>3
    <3>. QED BY <1>1, <2>1, <2>2, <2>3, <3>4
  <2>4. CASE Head(wire).kind # "target"
    <3>1. watch'.events = watch.events
      BY <1>4, <2>4 DEF Click!WatchReads, ClickShape, Watches
    <3>. QED BY <1>1, <2>2, <3>1
  <2>. QED BY <2>3, <2>4
<1>5. CASE Click(v)!TakeTarget
  <2>1. PICK m \in DOMAIN watch.events :
           watch' = [watch EXCEPT !.events = Click(v)!Without(@, m)]
    BY <1>5, LeastEntry DEF Click!TakeTarget
  <2>2. /\ DOMAIN watch'.events = 1..(Len(watch.events) - 1)
        /\ \A i \in DOMAIN watch'.events :
              watch'.events[i] = watch.events[IF i < m THEN i ELSE i + 1]
    BY <2>1, EntryTaken
  <2>3. \A i \in DOMAIN watch'.events :
           \E j \in DOMAIN watch.events : watch'.events[i] = watch.events[j]
    BY <1>0, <2>2
  <2>4. UNCHANGED wire
    BY <1>5 DEF Click!TakeTarget
  <2>. QED BY <1>1, <2>3, <2>4
<1>6. CASE UNCHANGED <<wire, watch>>
  BY <1>1, <1>6
<1>. QED BY <1>2, <1>3, <1>4, <1>5, <1>6
         DEF Click!Next, Click!PageActs, Click!Commit, Click!TargetCloses,
             Click!SwitchTab, Click!HubReads, Click!Mark,
             Click!Probe, Click!Input, Click!PressEnter, Click!BeginNavWait,
             Click!NavSeen, Click!AddressChanged, Click!NavTimesOut,
             Click!LoadWaitEnds, Click!BeginDownloadWait,
             Click!DownloadWaitEnds, Click!NoTarget

LEMMA OneMoreApart ==
    ASSUME NEW n \in Nat, NEW s \in Nat, NEW q, Apart(q, n, s),
           NEW k \in {0, 1}, NEW r,
           \A i \in 1..(n + 1 - k) : r[i] = IF i + k <= n THEN q[i + k] ELSE s + 1
    PROVE  Apart(r, n + 1 - k, s + 1)
<1>1. \A i \in 1..n : q[i] \in Nat /\ q[i] <= s /\ q[i] >= 1
  BY DEF Apart
<1>2. \A i \in 1..(n + 1 - k) :
         \/ i + k \in 1..n /\ r[i] = q[i + k]
         \/ i + k = n + 1 /\ r[i] = s + 1
  OBVIOUS
<1>3. \A i \in 1..n : q[i] + (n - i) <= s
  <2>. SUFFICES ASSUME NEW i \in 1..n PROVE q[i] + (n - i) <= s
    OBVIOUS
  <2>1. n \in 1..n /\ i <= n
    OBVIOUS
  <2>2. q[i] + (n - i) <= q[n]
    BY <2>1 DEF Apart
  <2>. QED BY <1>1, <2>1, <2>2
<1>4. ASSUME NEW i \in 1..(n + 1 - k), NEW j \in 1..(n + 1 - k), i <= j
      PROVE  r[i] + (j - i) <= r[j]
  <2>1. CASE j + k = n + 1 /\ i + k = n + 1
    BY <1>2, <2>1
  <2>2. CASE j + k = n + 1 /\ i + k \in 1..n
    <3>1. r[i] = q[i + k] /\ r[j] = s + 1
      BY <1>2, <2>2
    <3>2. q[i + k] + (n - (i + k)) <= s
      BY <1>3, <2>2
    <3>3. q[i + k] \in Nat
      BY <1>1, <2>2
    <3>. QED BY <2>2, <3>1, <3>2, <3>3
  <2>3. CASE j + k \in 1..n /\ i + k \in 1..n
    <3>1. r[i] = q[i + k] /\ r[j] = q[j + k]
      BY <1>2, <2>3
    <3>2. q[i + k] + ((j + k) - (i + k)) <= q[j + k]
      BY <1>4, <2>3 DEF Apart
    <3>3. q[i + k] \in Nat /\ q[j + k] \in Nat
      BY <1>1, <2>3
    <3>. QED BY <1>4, <3>1, <3>2, <3>3
  <2>. QED BY <1>4, <2>1, <2>2, <2>3
<1>. QED BY <1>1, <1>2, <1>4 DEF Apart

LEMMA OneLessApart ==
    ASSUME NEW n \in Nat, NEW s \in Nat, NEW q, Apart(q, n, s),
           NEW m \in 1..n, NEW r,
           \A i \in 1..(n - 1) : r[i] = q[IF i < m THEN i ELSE i + 1]
    PROVE  Apart(r, n - 1, s)
<1>1. \A i \in 1..n : q[i] \in Nat /\ q[i] <= s /\ q[i] >= 1
  BY DEF Apart
<1>2. \A i \in 1..(n - 1) : \E a \in 1..n :
         a = (IF i < m THEN i ELSE i + 1) /\ r[i] = q[a]
  OBVIOUS
<1>3. ASSUME NEW i \in 1..(n - 1), NEW j \in 1..(n - 1), i <= j
      PROVE  r[i] + (j - i) <= r[j]
  <2>1. PICK a \in 1..n : a = (IF i < m THEN i ELSE i + 1) /\ r[i] = q[a]
    BY <1>2
  <2>2. PICK b \in 1..n : b = (IF j < m THEN j ELSE j + 1) /\ r[j] = q[b]
    BY <1>2
  <2>3. a <= b /\ b - a >= j - i
    BY <1>3, <2>1, <2>2
  <2>4. q[a] + (b - a) <= q[b]
    BY <2>3 DEF Apart
  <2>. QED BY <1>1, <2>1, <2>2, <2>3, <2>4
<1>. QED BY <1>1, <1>2, <1>3 DEF Apart

LEMMA InOrderKeeps ==
    ASSUME NEW v, Click(v)!ClickAssumption, ClickShape(v), InOrder(v),
           Click(v)!Next
    PROVE  InOrder(v)'
<1>. USE DEF InOrder
<1>. DEFINE n == Len(watch.events)
            q == Numbers(watch.events)
<1>0. /\ watch \in Watches /\ watch.events \in Seq(Watched) /\ watch.seq \in Nat
      /\ n \in Nat /\ click.mark \in Nat /\ v.cap \in Nat \ {0}
      /\ click \in ClickTypes(v) /\ wire \in Seq(Wired)
      /\ DOMAIN watch.events = 1..n
  BY DEF ClickShape, Watches, ClickTypes, Click!ClickAssumption
<1>9. \A i \in 1..n : q[i] = watch.events[i].seq
  BY <1>0 DEF Numbers
<1>1. CASE Click(v)!WatchReads
  <2>1. Head(wire) \in Wired /\ click' = click
    BY <1>0, <1>1 DEF Click!WatchReads
  <2>2. CASE Head(wire).kind = "target"
    <3>1. watch' = Click(v)!Push(watch, Head(wire))
      BY <1>1, <2>2 DEF Click!WatchReads
    <3>2. watch' \in Watches /\ watch'.seq = watch.seq + 1
      BY <2>1, <3>1, EntryAdded
    <3>3. PICK k \in {0, 1} :
             /\ Len(watch'.events) = Len(watch.events) + 1 - k
             /\ Len(watch'.events) <= v.cap
             /\ \A i \in DOMAIN watch'.events :
                   watch'.events[i] =
                      IF i + k <= Len(watch.events) THEN watch.events[i + k]
                      ELSE [seq |-> watch.seq + 1, opener |-> Head(wire).opener,
                            target |-> Head(wire).target]
      BY <2>1, <3>1, EntryAdded
    <3>4. DOMAIN watch'.events = 1..(n + 1 - k)
      BY <3>2, <3>3 DEF Watches
    <3>5. \A i \in 1..(n + 1 - k) :
             Numbers(watch'.events)[i] = IF i + k <= n THEN q[i + k]
                                         ELSE watch.seq + 1
      <4>. SUFFICES ASSUME NEW i \in 1..(n + 1 - k)
                    PROVE  watch'.events[i].seq = IF i + k <= n THEN q[i + k]
                                                  ELSE watch.seq + 1
        BY <3>4 DEF Numbers
      <4>1. CASE i + k <= n
        <5>1. i + k \in 1..n
          BY <1>0, <4>1
        <5>. QED BY <1>9, <3>3, <3>4, <4>1, <5>1
      <4>2. CASE ~(i + k <= n)
        BY <3>3, <3>4, <4>2
      <4>. QED BY <4>1, <4>2
    <3>. HIDE DEF q
    <3>6. Apart(Numbers(watch'.events), n + 1 - k, watch.seq + 1)
      BY <1>0, <3>5, OneMoreApart DEF q
    <3>7. click.mark <= watch.seq + 1
      BY <1>0
    <3>. QED BY <2>1, <3>2, <3>3, <3>6, <3>7
  <2>3. CASE Head(wire).kind # "target"
    <3>1. watch'.events = watch.events /\ watch'.seq = watch.seq
      BY <1>1, <2>3 DEF Click!WatchReads, ClickShape, Watches
    <3>. QED BY <2>1, <3>1
  <2>. QED BY <2>2, <2>3
<1>2. CASE Click(v)!TakeTarget
  <2>1. PICK m \in DOMAIN watch.events :
           watch' = [watch EXCEPT !.events = Click(v)!Without(@, m)]
    BY <1>2, LeastEntry DEF Click!TakeTarget
  <2>2. /\ DOMAIN watch'.events = 1..(n - 1)
        /\ Len(watch'.events) = n - 1
        /\ watch'.seq = watch.seq
        /\ \A i \in DOMAIN watch'.events :
              watch'.events[i] = watch.events[IF i < m THEN i ELSE i + 1]
    BY <2>1, EntryTaken
  <2>3. \A i \in 1..(n - 1) :
           (IF i < m THEN i ELSE i + 1) \in 1..n
    BY <1>0
  <2>4. \A i \in 1..(n - 1) :
           Numbers(watch'.events)[i] = q[IF i < m THEN i ELSE i + 1]
    BY <1>9, <2>2, <2>3 DEF Numbers
  <2>. HIDE DEF q
  <2>5. Apart(Numbers(watch'.events), n - 1, watch.seq)
    BY <1>0, <2>4, OneLessApart DEF q
  <2>6. click'.mark = click.mark
    BY <1>0, <1>2 DEF Click!TakeTarget, ClickTypes
  <2>7. n - 1 <= v.cap
    BY <1>0
  <2>. QED BY <2>2, <2>5, <2>6, <2>7
<1>3. ASSUME watch' = watch, click'.mark \in {click.mark, watch.seq}
      PROVE  InOrder(v)'
  BY <1>0, <1>3
<1>4. CASE Click(v)!Mark
  BY <1>0, <1>3, <1>4 DEF Click!Mark, ClickTypes
<1>5. CASE UNCHANGED <<watch, click>>
  BY <1>3, <1>5
<1>6. CASE watch' = watch /\ click'.mark = click.mark
  BY <1>3, <1>6
<1>7. Click(v)!BeginNavWait => watch' = watch /\ click'.mark = click.mark
  BY <1>0 DEF Click!BeginNavWait, ClickTypes
<1>8. (\E l \in Click(v)!Looks : Click(v)!Probe(l)) \/ Click(v)!Input
        \/ Click(v)!PressEnter
        => watch' = watch /\ click'.mark = click.mark
  BY <1>0 DEF Click!Probe, Click!Input, Click!PressEnter, ClickTypes
<1>10. Click(v)!NavSeen \/ Click(v)!AddressChanged \/ Click(v)!NavTimesOut
         \/ Click(v)!LoadWaitEnds
         => watch' = watch /\ click'.mark = click.mark
  BY <1>0 DEF Click!NavSeen, Click!AddressChanged, Click!NavTimesOut,
     Click!LoadWaitEnds, ClickTypes
<1>11. Click(v)!BeginDownloadWait \/ Click(v)!DownloadWaitEnds \/ Click(v)!NoTarget
         => watch' = watch /\ click'.mark = click.mark
  BY <1>0 DEF Click!BeginDownloadWait, Click!DownloadWaitEnds, Click!NoTarget,
     ClickTypes
<1>. QED BY <1>1, <1>2, <1>4, <1>5, <1>6, <1>7, <1>8, <1>10, <1>11
         DEF Click!Next, Click!PageActs, Click!TargetCloses, Click!SwitchTab,
             Click!HubReads

LEMMA CountedMore ==
    ASSUME NEW w \in Seq(Wired), NEW e \in Wired, NEW lo \in Nat, NEW hi \in Nat,
           Counted(w, lo, hi), NEW top \in Nat, hi <= top,
           e.kind = "download" => hi + 1 <= top
    PROVE  Counted(Append(w, e), lo, top)
<1>. DEFINE n == Len(w)
            w1 == Append(w, e)
<1>0. n \in Nat
  OBVIOUS
<1>1. Len(w1) = n + 1 /\ w1[n + 1] = e /\ \A i \in 1..n : w1[i] = w[i]
  OBVIOUS
<1>2. PICK f \in [0..n -> Nat] :
         /\ lo <= f[0] /\ f[n] <= hi
         /\ \A i, j \in 0..n : i <= j => f[i] <= f[j]
         /\ \A i \in 1..n : w[i].kind = "download" => f[i - 1] + 1 <= f[i]
  BY DEF Counted
<1>. HIDE DEF w1, n
<1>3. DEFINE g == [i \in 0..(n + 1) |-> IF i = n + 1 THEN top ELSE f[i]]
<1>4. /\ g \in [0..(n + 1) -> Nat] /\ g[n + 1] = top
      /\ \A i \in 0..n : g[i] = f[i] /\ f[i] \in Nat
  BY <1>0, <1>2
<1>. HIDE DEF g
<1>5. \A i \in 0..n : f[i] <= top
  <2>. SUFFICES ASSUME NEW i \in 0..n PROVE f[i] <= top
    OBVIOUS
  <2>1. n \in 0..n /\ f[i] <= f[n]
    BY <1>0, <1>2
  <2>. QED BY <1>2, <1>4, <2>1
<1>6. \A i, j \in 0..(n + 1) : i <= j => g[i] <= g[j]
  <2>. SUFFICES ASSUME NEW i \in 0..(n + 1), NEW j \in 0..(n + 1), i <= j
                PROVE  g[i] <= g[j]
    OBVIOUS
  <2>1. CASE j = n + 1
    BY <1>0, <1>4, <1>5, <2>1
  <2>2. CASE j # n + 1
    <3>1. i \in 0..n /\ j \in 0..n
      BY <1>0, <2>2
    <3>. QED BY <1>2, <1>4, <3>1
  <2>. QED BY <2>1, <2>2
<1>7. \A i \in 1..(n + 1) : w1[i].kind = "download" => g[i - 1] + 1 <= g[i]
  <2>. SUFFICES ASSUME NEW i \in 1..(n + 1), w1[i].kind = "download"
                PROVE  g[i - 1] + 1 <= g[i]
    OBVIOUS
  <2>1. CASE i = n + 1
    <3>1. hi + 1 <= top /\ n \in 0..n /\ n + 1 - 1 = n
      BY <1>0, <1>1, <2>1
    <3>2. g[i - 1] = f[n] /\ g[i] = top /\ f[n] \in Nat /\ f[n] <= hi
      BY <1>0, <1>2, <1>4, <2>1
    <3>. QED BY <3>1, <3>2
  <2>2. CASE i # n + 1
    <3>1. i \in 1..n /\ i - 1 \in 0..n /\ i \in 0..n
      BY <1>0, <2>2
    <3>. QED BY <1>1, <1>2, <1>4, <3>1
  <2>. QED BY <2>1, <2>2
<1>8. 0 \in 0..n /\ g[0] = f[0]
  BY <1>0, <1>4
<1>9. top <= top
  OBVIOUS
<1>. QED BY <1>1, <1>2, <1>4, <1>6, <1>7, <1>8, <1>9 DEF Counted, w1

LEMMA CountedLess ==
    ASSUME NEW w \in Seq(Wired), w # << >>, NEW lo \in Nat, NEW hi \in Nat,
           Counted(w, lo, hi), NEW low \in Nat,
           low = IF Head(w).kind = "download" THEN lo + 1 ELSE lo
    PROVE  Counted(Tail(w), low, hi)
<1>. DEFINE n == Len(w)
            w1 == Tail(w)
<1>0. n \in Nat /\ n >= 1 /\ Head(w) = w[1]
  OBVIOUS
<1>1. Len(w1) = n - 1 /\ \A i \in 1..(n - 1) : w1[i] = w[i + 1]
  OBVIOUS
<1>2. PICK f \in [0..n -> Nat] :
         /\ lo <= f[0] /\ f[n] <= hi
         /\ \A i, j \in 0..n : i <= j => f[i] <= f[j]
         /\ \A i \in 1..n : w[i].kind = "download" => f[i - 1] + 1 <= f[i]
  BY DEF Counted
<1>. HIDE DEF w1, n
<1>3. DEFINE g == [i \in 0..(n - 1) |-> f[i + 1]]
<1>4. /\ g \in [0..(n - 1) -> Nat] /\ \A i \in 0..(n - 1) : g[i] = f[i + 1]
      /\ \A i \in 0..n : f[i] \in Nat
  BY <1>0, <1>2
<1>. HIDE DEF g
<1>5. low <= g[0] /\ g[n - 1] <= hi
  <2>1. 0 \in 0..(n - 1) /\ n - 1 \in 0..(n - 1) /\ 0 + 1 = 1 /\ n - 1 + 1 = n
    BY <1>0
  <2>2. g[0] = f[1] /\ g[n - 1] = f[n]
    BY <1>4, <2>1
  <2>3. f[0] <= f[1] /\ 0 \in 0..n /\ 1 \in 0..n /\ 1 \in 1..n /\ 1 - 1 = 0
    BY <1>0, <1>2
  <2>4. w[1].kind = "download" => f[0] + 1 <= f[1]
    BY <1>2, <2>3
  <2>. QED BY <1>0, <1>2, <1>4, <2>2, <2>3, <2>4
<1>6. \A i, j \in 0..(n - 1) : i <= j => g[i] <= g[j]
  <2>. SUFFICES ASSUME NEW i \in 0..(n - 1), NEW j \in 0..(n - 1), i <= j
                PROVE  g[i] <= g[j]
    OBVIOUS
  <2>1. i + 1 \in 0..n /\ j + 1 \in 0..n /\ i + 1 <= j + 1
    BY <1>0
  <2>. QED BY <1>2, <1>4, <2>1
<1>7. \A i \in 1..(n - 1) : w1[i].kind = "download" => g[i - 1] + 1 <= g[i]
  <2>. SUFFICES ASSUME NEW i \in 1..(n - 1), w1[i].kind = "download"
                PROVE  g[i - 1] + 1 <= g[i]
    OBVIOUS
  <2>1. /\ i + 1 \in 1..n /\ i - 1 \in 0..(n - 1) /\ i \in 0..(n - 1)
        /\ i - 1 + 1 = i /\ i + 1 - 1 = i
    BY <1>0
  <2>2. w[i + 1].kind = "download"
    BY <1>1
  <2>3. f[i] + 1 <= f[i + 1]
    BY <1>2, <2>1, <2>2
  <2>. QED BY <1>4, <2>1, <2>3
<1>. QED BY <1>1, <1>4, <1>5, <1>6, <1>7 DEF Counted, w1

LEMMA CountedMeans ==
    ASSUME NEW w \in Seq(Wired), NEW lo \in Nat, NEW hi \in Nat, Counted(w, lo, hi)
    PROVE  lo <= hi
<1>1. PICK f \in [0..Len(w) -> Nat] :
         /\ lo <= f[0] /\ f[Len(w)] <= hi
         /\ \A i, j \in 0..Len(w) : i <= j => f[i] <= f[j]
  BY DEF Counted
<1>2. Len(w) \in Nat /\ 0 \in 0..Len(w) /\ Len(w) \in 0..Len(w) /\ 0 <= Len(w)
  OBVIOUS
<1>3. f[0] <= f[Len(w)] /\ f[0] \in Nat /\ f[Len(w)] \in Nat
  BY <1>1, <1>2
<1>. QED BY <1>1, <1>3

LEMMA DownloadsCountedKeeps ==
    ASSUME NEW v, Click(v)!ClickAssumption, ClickShape(v), InOrder(v),
           DownloadsCounted, Click(v)!Next
    PROVE  DownloadsCounted'
<1>. USE DEF DownloadsCounted
<1>0. /\ wire \in Seq(Wired) /\ watch \in Watches /\ begun \in Nat
      /\ watch.downloads \in Nat /\ click \in ClickTypes(v) /\ click.dmark \in Nat
  BY DEF ClickShape, Watches, ClickTypes
<1>1. ASSUME NEW p \in DOMAIN targets, Click(v)!OpenTarget(p),
             UNCHANGED <<click, watch>>
      PROVE  DownloadsCounted'
  <2>1. /\ Click(v)!Opened(p, Len(targets) + 1) \in Wired
        /\ Click(v)!Opened(p, Len(targets) + 1).kind # "download"
    BY DEF ClickShape, Wired, Click!Opened
  <2>2. Counted(Append(wire, Click(v)!Opened(p, Len(targets) + 1)),
                watch.downloads, begun)
    BY <1>0, <2>1, CountedMore
  <2>. QED BY <1>1, <2>2 DEF Click!OpenTarget
<1>2. CASE Click(v)!BeginDownload /\ UNCHANGED <<click, watch>>
  <2>1. Click(v)!DownloadNews \in Wired /\ begun + 1 \in Nat /\ begun <= begun + 1
    BY <1>0 DEF Wired, Click!DownloadNews, Click!None
  <2>2. Counted(Append(wire, Click(v)!DownloadNews), watch.downloads, begun + 1)
    BY <1>0, <2>1, CountedMore
  <2>. QED BY <1>2, <2>2 DEF Click!BeginDownload
<1>3. CASE Click(v)!WatchReads
  <2>1. /\ wire # << >> /\ wire' = Tail(wire) /\ Head(wire) \in Wired
        /\ UNCHANGED <<click, begun>>
    BY <1>0, <1>3 DEF Click!WatchReads
  <2>2. CASE Head(wire).kind = "target"
    <3>1. watch' = Click(v)!Push(watch, Head(wire))
      BY <1>3, <2>2 DEF Click!WatchReads
    <3>2. watch'.downloads = watch.downloads
      BY <2>1, <3>1, EntryAdded
    <3>3. Counted(Tail(wire), watch.downloads, begun)
      BY <1>0, <2>1, <2>2, CountedLess
    <3>. QED BY <2>1, <3>2, <3>3
  <2>3. CASE Head(wire).kind # "target"
    <3>1. watch' = [watch EXCEPT !.downloads = watch.downloads + 1]
      BY <1>3, <2>3 DEF Click!WatchReads
    <3>2. watch'.downloads = watch.downloads + 1 /\ watch.downloads + 1 \in Nat
      BY <1>0, <3>1 DEF Watches
    <3>3. Head(wire).kind = "download"
      BY <2>1, <2>3 DEF Wired
    <3>4. Counted(Tail(wire), watch.downloads + 1, begun)
      BY <1>0, <2>1, <3>2, <3>3, CountedLess
    <3>5. click.dmark <= watch.downloads + 1
      BY <1>0
    <3>. QED BY <2>1, <3>2, <3>4, <3>5
  <2>. QED BY <2>2, <2>3
<1>4. CASE Click(v)!TakeTarget
  <2>1. UNCHANGED <<wire, begun>> /\ click'.dmark = click.dmark
    BY <1>0, <1>4 DEF Click!TakeTarget, ClickTypes
  <2>2. watch'.downloads = watch.downloads
    BY <1>4, LeastEntry, EntryTaken DEF Click!TakeTarget
  <2>. QED BY <2>1, <2>2
<1>5. ASSUME UNCHANGED <<wire, watch, begun>>,
             click'.dmark \in {click.dmark, watch.downloads}
      PROVE  DownloadsCounted'
  BY <1>0, <1>5
<1>6. CASE Click(v)!BeginDownloadWait
  BY <1>0, <1>5, <1>6 DEF Click!BeginDownloadWait, ClickTypes
<1>7. CASE UNCHANGED <<wire, watch, begun, click>>
  BY <1>5, <1>7
<1>8. CASE UNCHANGED <<wire, watch, begun>> /\ click'.dmark = click.dmark
  BY <1>5, <1>8
<1>9. Click(v)!BeginNavWait
        => UNCHANGED <<wire, watch, begun>> /\ click'.dmark = click.dmark
  BY <1>0 DEF Click!BeginNavWait, ClickTypes
<1>10. (\E l \in Click(v)!Looks : Click(v)!Probe(l)) \/ Click(v)!Input
         \/ Click(v)!PressEnter \/ Click(v)!Mark
         => UNCHANGED <<wire, watch, begun>> /\ click'.dmark = click.dmark
  BY <1>0 DEF Click!Probe, Click!Input, Click!PressEnter, Click!Mark, ClickTypes
<1>11. Click(v)!NavSeen \/ Click(v)!AddressChanged \/ Click(v)!NavTimesOut
         \/ Click(v)!LoadWaitEnds
         => UNCHANGED <<wire, watch, begun>> /\ click'.dmark = click.dmark
  BY <1>0 DEF Click!NavSeen, Click!AddressChanged, Click!NavTimesOut,
     Click!LoadWaitEnds, ClickTypes
<1>12. Click(v)!DownloadWaitEnds \/ Click(v)!NoTarget
         => UNCHANGED <<wire, watch, begun>> /\ click'.dmark = click.dmark
  BY <1>0 DEF Click!DownloadWaitEnds, Click!NoTarget, ClickTypes
<1>. QED BY <1>1, <1>2, <1>3, <1>4, <1>6, <1>7, <1>8, <1>9, <1>10, <1>11, <1>12
         DEF Click!Next, Click!PageActs, Click!Commit, Click!TargetCloses,
             Click!SwitchTab, Click!HubReads

LEMMA OwnTabsKeeps ==
    ASSUME NEW v, ClickShape(v), TabsAreTold, OwnTabs, Click(v)!Next
    PROVE  OwnTabs'
<1>. USE DEF OwnTabs
<1>0. /\ targets \in Seq(Tabs) /\ click \in ClickTypes(v) /\ result \in ResultTypes
      /\ DOMAIN targets \subseteq Nat \ {0}
      /\ \A t \in DOMAIN targets :
            t \in DOMAIN targets' /\ targets'[t].opener = targets[t].opener
  BY TabsStay DEF ClickShape
<1>1. ASSUME UNCHANGED <<here, click, result>>, targets'[here].alive
      PROVE  OwnTabs'
  BY <1>0, <1>1
<1>2. CASE Click(v)!PageActs
  <2>1. targets'[here] = targets[here]
    <3>1. ASSUME NEW tab, targets' = Append(targets, tab)
          PROVE  targets'[here] = targets[here]
      BY <1>0, <3>1
    <3>. QED BY <1>2, <3>1 DEF Click!PageActs, Click!OpenTarget,
                Click!BeginDownload, Click!Commit
  <2>. QED BY <1>1, <1>2, <2>1 DEF Click!PageActs
<1>3. ASSUME NEW t \in DOMAIN targets, Click(v)!TargetCloses(t) PROVE OwnTabs'
  <2>1. targets'[here] = targets[here]
    BY <1>0, <1>3 DEF Click!TargetCloses
  <2>. QED BY <1>1, <1>3, <2>1 DEF Click!TargetCloses
<1>4. ASSUME NEW t \in DOMAIN targets, Click(v)!SwitchTab(t) PROVE OwnTabs'
  <2>1. Click(v)!NoResult.taken = 0
    BY DEF Click!NoResult, Click!None
  <2>. QED BY <1>0, <1>4, <2>1 DEF Click!SwitchTab, Click!MoveTo
<1>5. CASE Click(v)!WatchReads \/ Click(v)!HubReads
  BY <1>1, <1>5 DEF Click!WatchReads, Click!HubReads
<1>6. CASE Click(v)!Mark \/ Click(v)!PressEnter
  <2>1. Click(v)!NoResult.taken = 0
    BY DEF Click!NoResult, Click!None
  <2>2. UNCHANGED <<targets, here>> /\ result' = Click(v)!NoResult
        /\ click'.page = here
    BY <1>0, <1>6 DEF Click!Mark, Click!PressEnter, ClickTypes
  <2>. QED BY <2>1, <2>2
<1>7. ASSUME UNCHANGED <<targets, here>>, click.phase # "idle",
             click'.page = click.page, result'.taken = result.taken
      PROVE  OwnTabs'
  BY <1>7
<1>8. CASE (\E l \in Click(v)!Looks : Click(v)!Probe(l)) \/ Click(v)!Input
             \/ Click(v)!LoadWaitEnds
  BY <1>0, <1>7, <1>8 DEF Click!Probe, Click!Input, Click!LoadWaitEnds, ClickTypes
<1>9. CASE Click(v)!BeginNavWait
  BY <1>0, <1>7, <1>9 DEF Click!BeginNavWait, ClickTypes
<1>10. CASE Click(v)!NavSeen \/ Click(v)!AddressChanged \/ Click(v)!NavTimesOut
  BY <1>0, <1>7, <1>10 DEF Click!NavSeen, Click!AddressChanged, Click!NavTimesOut,
     ClickTypes, ResultTypes
<1>11. CASE Click(v)!BeginDownloadWait \/ Click(v)!DownloadWaitEnds
              \/ Click(v)!NoTarget
  BY <1>0, <1>7, <1>11 DEF Click!BeginDownloadWait, Click!DownloadWaitEnds,
     Click!NoTarget, ClickTypes, ResultTypes
<1>12. CASE Click(v)!TakeTarget
  <2>1. PICK t : t = watch.events[Click(v)!Entry].target
    OBVIOUS
  <2>2. t \in DOMAIN targets /\ targets[t].opener = here
    BY <1>12, <2>1, LeastEntry DEF Click!TakeTarget, Click!Takeable, TabsAreTold
  <2>3. click.page = here /\ click.phase = "popup" /\ UNCHANGED targets
    BY <1>12 DEF Click!TakeTarget
  <2>4. CASE /\ targets[t].alive /\ here' = t
             /\ result' = [result EXCEPT !.taken = t]
             /\ click' = [click EXCEPT !.phase = "idle"]
    <3>1. result'.taken = t /\ click'.page = here /\ click'.phase = "idle"
      BY <1>0, <2>3, <2>4 DEF ClickTypes, ResultTypes
    <3>. QED BY <2>2, <2>3, <2>4, <3>1
  <2>5. CASE /\ UNCHANGED here /\ result'.taken = result.taken
             /\ click'.page = click.page
    BY <1>7, <2>3, <2>5
  <2>6. \/ /\ targets[t].alive /\ here' = t
           /\ result' = [result EXCEPT !.taken = t]
           /\ click' = [click EXCEPT !.phase = "idle"]
        \/ /\ UNCHANGED here /\ result'.taken = result.taken
           /\ click'.page = click.page
    BY <1>0, <1>12, <2>1 DEF Click!TakeTarget, Click!MoveTo, ClickTypes, ResultTypes
  <2>. QED BY <2>4, <2>5, <2>6
<1>. QED BY <1>2, <1>3, <1>4, <1>5, <1>6, <1>8, <1>9, <1>10, <1>11, <1>12
         DEF Click!Next

LEMMA LooksAreOwnKeeps ==
    ASSUME NEW v, ClickShape(v), OwnTabs, LooksAreOwn, Click(v)!Next
    PROVE  LooksAreOwn'
<1>. USE DEF LooksAreOwn
<1>0. /\ click \in ClickTypes(v) /\ result \in ResultTypes /\ hints \in Switches
  BY DEF ClickShape
<1>1. /\ Click(v)!NoResult.nav = "none" /\ Click(v)!NoResult.download = "none"
      /\ Click(v)!NoResult.lost = {}
  BY DEF Click!NoResult
<1>2. CASE UNCHANGED <<click, hints, result>>
  BY <1>2
<1>3. CASE /\ click.phase = "idle" /\ UNCHANGED <<click, hints>>
           /\ result' = Click(v)!NoResult
  BY <1>1, <1>3
<1>4. CASE Click(v)!Mark
  BY <1>0, <1>1, <1>4 DEF Click!Mark, ClickTypes
<1>5. ASSUME NEW l \in Click(v)!Looks, Click(v)!Probe(l) PROVE LooksAreOwn'
  <2>1. /\ hints' = [h \in DOMAIN hints |-> h = l]
        /\ click'.look = l /\ click'.phase = "input" /\ UNCHANGED result
        /\ click.phase = "probe" /\ l # "enter"
    BY <1>0, <1>5 DEF Click!Probe, ClickTypes, Click!Looks
  <2>2. /\ hints'.nav => l = "nav" 
        /\ hints'.download => l = "download"
        /\ hints'.popup => l = "popup"
    BY <1>0, <2>1 DEF Switches
  <2>. QED BY <2>1, <2>2
<1>6. CASE Click(v)!Input
  BY <1>0, <1>6 DEF Click!Input, ClickTypes
<1>7. CASE Click(v)!PressEnter
  BY <1>0, <1>1, <1>7 DEF Click!PressEnter, ClickTypes
<1>8. CASE Click(v)!BeginNavWait
  <2>1. /\ click.phase = "nav" /\ UNCHANGED <<hints, result>>
        /\ click'.look = click.look
        /\ \/ hints.nav /\ click'.phase = "reading"
           \/ click'.phase = Click(v)!AfterNav
    BY <1>0, <1>8 DEF Click!BeginNavWait, ClickTypes
  <2>. QED BY <2>1 DEF Click!AfterNav
<1>9. CASE Click(v)!NavSeen \/ Click(v)!AddressChanged \/ Click(v)!NavTimesOut
  <2>1. /\ click.phase = "reading" /\ UNCHANGED hints
        /\ click'.look = click.look /\ click'.phase \in {"load", Click(v)!AfterNav}
        /\ result'.download = result.download /\ result'.lost = result.lost
    BY <1>0, <1>9 DEF Click!NavSeen, Click!AddressChanged, Click!NavTimesOut,
       ClickTypes, ResultTypes
  <2>. QED BY <2>1 DEF Click!AfterNav
<1>10. CASE Click(v)!LoadWaitEnds
  BY <1>0, <1>10 DEF Click!LoadWaitEnds, ClickTypes, Click!AfterNav
<1>11. CASE Click(v)!BeginDownloadWait
  <2>1. /\ click.phase = "download" /\ UNCHANGED <<hints, result>>
        /\ click'.look = click.look
        /\ \/ hints.download /\ click'.phase = "beginning"
           \/ click'.phase = "popup"
    BY <1>0, <1>11 DEF Click!BeginDownloadWait, ClickTypes
  <2>. QED BY <2>1
<1>12. CASE Click(v)!DownloadWaitEnds
  <2>1. /\ click.phase = "beginning" /\ UNCHANGED hints /\ click'.phase = "popup"
        /\ click'.look = click.look
        /\ result'.nav = result.nav /\ result'.lost = result.lost
    BY <1>0, <1>12 DEF Click!DownloadWaitEnds, ClickTypes, ResultTypes
  <2>. QED BY <2>1
<1>13. CASE Click(v)!NoTarget
  BY <1>0, <1>13 DEF Click!NoTarget, ClickTypes
<1>14. CASE Click(v)!TakeTarget
  <2>1. /\ click.phase = "popup" /\ UNCHANGED hints /\ click'.look = click.look
        /\ result'.nav = result.nav /\ result'.download = result.download
        /\ \/ result'.lost = result.lost /\ click'.phase = "idle"
           \/ /\ result'.lost = result.lost
                   \union {watch.events[Click(v)!Entry].target}
              /\ hints.popup /\ click'.phase = "popup"
           \/ /\ result'.lost = result.lost
                   \union {watch.events[Click(v)!Entry].target}
              /\ click'.phase = "idle"
    BY <1>0, <1>14 DEF Click!TakeTarget, ClickTypes, ResultTypes
  <2>2. watch.events[Click(v)!Entry].target \in Nat
    <3>1. Click(v)!Entry \in DOMAIN watch.events
      BY <1>14, LeastEntry DEF Click!TakeTarget
    <3>2. watch.events[Click(v)!Entry] \in Watched
      BY <3>1 DEF ClickShape, Watches
    <3>. QED BY <3>2 DEF Watched
  <2>. QED BY <2>1, <2>2
<1>. QED BY <1>2, <1>3, <1>4, <1>5, <1>6, <1>7, <1>8, <1>9, <1>10, <1>11, <1>12,
            <1>13, <1>14
         DEF Click!Next, Click!PageActs, Click!TargetCloses, Click!SwitchTab,
             Click!WatchReads, Click!HubReads

\* When the list drops an entry beyond the mark, more than its cap have come
\* since the mark.
LEMMA DroppedOverflows ==
    ASSUME NEW v, Click(v)!ClickAssumption, ClickShape(v), InOrder(v),
           Len(watch.events) = v.cap, watch.events[1].seq > click.mark
    PROVE  watch.seq + 1 > click.mark + v.cap
<1>0. watch.events \in Seq(Watched)
  BY DEF ClickShape, Watches
<1>1. /\ v.cap \in Nat \ {0} /\ watch.seq \in Nat /\ click.mark \in Nat
      /\ DOMAIN watch.events = 1..v.cap
  <2>1. DOMAIN watch.events = 1..v.cap
    BY <1>0
  <2>2. watch.seq \in Nat /\ click.mark \in Nat
    BY DEF ClickShape, Watches, ClickTypes
  <2>. QED BY <2>1, <2>2 DEF Click!ClickAssumption
<1>2. 1 \in 1..v.cap /\ v.cap \in 1..v.cap /\ 1 <= v.cap
  BY <1>1
<1>3. Apart(Numbers(watch.events), v.cap, watch.seq)
  BY DEF InOrder
<1>4. /\ Numbers(watch.events)[1] = watch.events[1].seq
      /\ Numbers(watch.events)[1] \in 1..watch.seq
      /\ Numbers(watch.events)[v.cap] \in 1..watch.seq
      /\ Numbers(watch.events)[1] + (v.cap - 1) <= Numbers(watch.events)[v.cap]
  BY <1>1, <1>2, <1>3 DEF Apart, Numbers
<1>. DEFINE first == Numbers(watch.events)[1]
            last1 == Numbers(watch.events)[v.cap]
<1>5. /\ first \in Nat /\ last1 \in Nat /\ last1 <= watch.seq
      /\ first > click.mark /\ first + (v.cap - 1) <= last1
  BY <1>1, <1>4
<1>. HIDE DEF first, last1
<1>. QED BY <1>1, <1>5

LEMMA NoneForgottenKeeps ==
    ASSUME NEW v, Click(v)!ClickAssumption, ClickShape(v), TabsAreTold, InOrder(v),
           OwnTabs, LooksAreOwn, NoneForgotten(v), Click(v)!Next
    PROVE  NoneForgotten(v)'
<1>. USE DEF NoneForgotten
<1>0. /\ targets \in Seq(Tabs) /\ click \in ClickTypes(v) /\ result \in ResultTypes
      /\ wire \in Seq(Wired) /\ watch \in Watches
      /\ watch.events \in Seq(Watched) /\ Len(watch.events) \in Nat
      /\ watch.seq \in Nat /\ v.cap \in Nat /\ click.mark \in Nat
  <2>1. watch.events \in Seq(Watched)
    BY DEF ClickShape, Watches
  <2>2. watch.seq \in Nat /\ v.cap \in Nat /\ click.mark \in Nat
    BY DEF ClickShape, Watches, ClickTypes, Click!ClickAssumption
  <2>. QED BY <2>1, <2>2 DEF ClickShape
<1>19. DOMAIN targets = 1..Len(targets) /\ Len(targets) \in Nat
  BY <1>0
<1>18. \A t \in DOMAIN targets :
          t \in DOMAIN targets' /\ targets'[t].opener = targets[t].opener
  BY TabsStay
<1>1. ASSUME UNCHANGED here, click'.made = click.made,
             click'.phase = "idle" \/ click.phase # "idle",
             DOMAIN targets' = DOMAIN targets,
             click.phase # "idle" /\ click'.phase # "idle" =>
                \A t \in DOMAIN targets : Remembered(v, t) => Remembered(v, t)'
      PROVE  NoneForgotten(v)'
  BY <1>1, <1>18
<1>2. ASSUME UNCHANGED <<wire, watch, targets, here>>,
             click'.made = click.made, click'.mark = click.mark,
             click'.phase = "idle" \/ click.phase # "idle",
             click' = click \/ click'.phase # "probe",
             click'.phase # "idle" => click'.look = click.look,
             click'.phase # "idle" => result'.lost = result.lost
      PROVE  NoneForgotten(v)'
  BY <1>1, <1>2 DEF Remembered
<1>3. ASSUME NEW p \in DOMAIN targets, Click(v)!OpenTarget(p),
             UNCHANGED <<click, watch, here, result>>
      PROVE  NoneForgotten(v)'
  <2>1. /\ wire' = Append(wire, Click(v)!Opened(p, Len(targets) + 1))
        /\ targets' = Append(targets, [opener |-> p, alive |-> TRUE])
    BY <1>3 DEF Click!OpenTarget
  <2>2. /\ \A i \in DOMAIN wire : i \in DOMAIN wire' /\ wire'[i] = wire[i]
        /\ Len(wire) + 1 \in DOMAIN wire'
        /\ wire'[Len(wire) + 1] = Click(v)!Opened(p, Len(targets) + 1)
        /\ DOMAIN targets' = 1..(Len(targets) + 1)
    BY <1>0, <2>1
  <2>3. /\ Click(v)!Opened(p, Len(targets) + 1).target = Len(targets) + 1
        /\ Click(v)!Opened(p, Len(targets) + 1).kind = "target"
    BY DEF Click!Opened
  <2>4. \A t \in DOMAIN targets : Remembered(v, t) => Remembered(v, t)'
    BY <1>3, <2>2 DEF Remembered
  <2>5. PICK u : u = Len(targets) + 1
    OBVIOUS
  <2>6. Remembered(v, u)'
    BY <2>2, <2>3, <2>5 DEF Remembered
  <2>7. \A t \in DOMAIN targets' : t \in DOMAIN targets \/ t = u
    BY <1>0, <1>19, <2>2, <2>5
  <2>. QED BY <1>3, <1>18, <2>4, <2>6, <2>7
<1>4. CASE Click(v)!BeginDownload /\ UNCHANGED <<click, watch, here, result>>
  <2>1. \A i \in DOMAIN wire : i \in DOMAIN wire' /\ wire'[i] = wire[i]
    BY <1>0, <1>4 DEF Click!BeginDownload
  <2>2. \A t \in DOMAIN targets : Remembered(v, t) => Remembered(v, t)'
    BY <1>4, <2>1 DEF Remembered
  <2>. QED BY <1>1, <1>4, <2>2 DEF Click!BeginDownload
<1>5. ASSUME NEW u \in DOMAIN targets, Click(v)!TargetCloses(u)
      PROVE  NoneForgotten(v)'
  <2>1. DOMAIN targets' = DOMAIN targets
    BY <1>0, <1>5 DEF Click!TargetCloses
  <2>. QED BY <1>1, <1>5, <2>1 DEF Click!TargetCloses, Remembered
<1>6. CASE Click(v)!WatchReads
  <2>1. /\ wire # << >> /\ wire' = Tail(wire) /\ Head(wire) = wire[1]
        /\ Head(wire) \in Wired /\ UNCHANGED <<click, here, result, targets>>
    BY <1>0, <1>6 DEF Click!WatchReads
  <2>2. \A i \in DOMAIN wire :
           i = 1 \/ (i - 1 \in DOMAIN wire' /\ wire'[i - 1] = wire[i])
    BY <1>0, <2>1
  <2>3. CASE Head(wire).kind = "target"
    <3>1. watch' = Click(v)!Push(watch, Head(wire))
      BY <1>6, <2>3 DEF Click!WatchReads
    <3>2. watch' \in Watches /\ watch'.seq = watch.seq + 1
      BY <2>1, <3>1, EntryAdded
    <3>3. PICK k \in {0, 1} :
             /\ k = 1 => Len(watch.events) = v.cap
             /\ Len(watch'.events) = Len(watch.events) + 1 - k
             /\ \A i \in DOMAIN watch'.events :
                   watch'.events[i] =
                      IF i + k <= Len(watch.events) THEN watch.events[i + k]
                      ELSE [seq |-> watch.seq + 1, opener |-> Head(wire).opener,
                            target |-> Head(wire).target]
      BY <2>1, <3>1, EntryAdded
    <3>4. DOMAIN watch'.events = 1..(Len(watch.events) + 1 - k)
      BY <3>2, <3>3 DEF Watches
    <3>5. ASSUME NEW t \in DOMAIN targets, Head(wire).target = t
          PROVE  Remembered(v, t)'
      <4>. DEFINE l == Len(watch.events) + 1 - k
      <4>1. l \in DOMAIN watch'.events /\ ~(l + k <= Len(watch.events))
        <5>1. k = 1 => Len(watch.events) >= 1
          BY <1>0, <3>3 DEF Click!ClickAssumption
        <5>. QED BY <1>0, <3>4, <5>1
      <4>2. watch'.events[l] = [seq |-> watch.seq + 1, opener |-> Head(wire).opener,
                                target |-> Head(wire).target]
        BY <3>3, <4>1
      <4>3. watch.seq + 1 > click.mark
        BY <1>0 DEF InOrder
      <4>4. watch'.events[l].target = t /\ watch'.events[l].seq > click'.mark
        BY <2>1, <3>5, <4>2, <4>3
      <4>. QED BY <4>1, <4>4 DEF Remembered
    <3>6. ASSUME NEW t \in DOMAIN targets, NEW i \in DOMAIN watch.events,
                 watch.events[i].target = t, watch.events[i].seq > click.mark
          PROVE  Remembered(v, t)'
      <4>1. i \in 1..Len(watch.events)
        BY <1>0
      <4>2. CASE i = 1 /\ k = 1
        <5>1. watch.seq + 1 > click.mark + v.cap
          BY <3>3, <3>6, <4>2, DroppedOverflows
        <5>. QED BY <2>1, <3>2, <5>1 DEF Remembered
      <4>3. CASE ~(i = 1 /\ k = 1)
        <5>1. i - k \in DOMAIN watch'.events /\ (i - k) + k = i
              /\ (i - k) + k <= Len(watch.events)
          BY <1>0, <3>4, <4>1, <4>3
        <5>2. watch'.events[i - k] = watch.events[i]
          BY <3>3, <5>1
        <5>. QED BY <2>1, <3>6, <5>1, <5>2 DEF Remembered
      <4>. QED BY <4>2, <4>3
    <3>7. ASSUME watch.seq > click.mark + v.cap
          PROVE  watch.seq + 1 > click.mark + v.cap
      BY <1>0, <3>7
    <3>8. ASSUME NEW t \in DOMAIN targets, Remembered(v, t) PROVE Remembered(v, t)'
      <4>1. CASE \E i \in DOMAIN wire :
                    wire[i].kind = "target" /\ wire[i].target = t
        <5>1. PICK i \in DOMAIN wire : wire[i].kind = "target" /\ wire[i].target = t
          BY <4>1
        <5>2. CASE i = 1
          BY <2>1, <3>5, <5>1, <5>2
        <5>3. CASE i # 1
          BY <2>2, <5>1, <5>3 DEF Remembered
        <5>. QED BY <5>2, <5>3
      <4>2. CASE t \in result.lost \/ (click.look = "enter"
                                       /\ click.phase # "probe")
        BY <2>1, <4>2 DEF Remembered
      <4>3. CASE watch.seq > click.mark + v.cap
        BY <2>1, <3>2, <3>7, <4>3 DEF Remembered
      <4>4. CASE \E i \in DOMAIN watch.events :
                    watch.events[i].target = t /\ watch.events[i].seq > click.mark
        BY <3>6, <4>4
      <4>5. \/ \E i \in DOMAIN wire : wire[i].kind = "target" /\ wire[i].target = t
            \/ t \in result.lost \/ (click.look = "enter" /\ click.phase # "probe")
            \/ watch.seq > click.mark + v.cap
            \/ \E i \in DOMAIN watch.events :
                  watch.events[i].target = t /\ watch.events[i].seq > click.mark
        BY <3>8 DEF Remembered
      <4>. QED BY <4>1, <4>2, <4>3, <4>4, <4>5
    <3>. QED BY <1>1, <2>1, <3>8
  <2>4. CASE Head(wire).kind # "target"
    <3>1. watch'.events = watch.events /\ watch'.seq = watch.seq
      BY <1>6, <2>4 DEF Click!WatchReads, ClickShape, Watches
    <3>2. Head(wire).kind = "download"
      BY <2>1, <2>4 DEF Wired
    <3>3. ASSUME NEW t \in DOMAIN targets, Remembered(v, t) PROVE Remembered(v, t)'
      <4>1. CASE \E i \in DOMAIN wire :
                    wire[i].kind = "target" /\ wire[i].target = t
        BY <2>1, <2>2, <2>4, <4>1 DEF Remembered
      <4>. QED BY <2>1, <3>1, <3>3, <4>1 DEF Remembered
    <3>. QED BY <1>1, <2>1, <3>3
  <2>. QED BY <2>3, <2>4
<1>7. CASE Click(v)!TakeTarget
  <2>. DEFINE m == Click(v)!Entry
              t0 == watch.events[m].target
  <2>1. m \in DOMAIN watch.events
    BY <1>7, LeastEntry DEF Click!TakeTarget
  <2>2. watch' = [watch EXCEPT !.events = Click(v)!Without(@, m)]
    BY <1>7 DEF Click!TakeTarget
  <2>3. /\ DOMAIN watch'.events = 1..(Len(watch.events) - 1)
        /\ watch'.seq = watch.seq
        /\ \A i \in DOMAIN watch'.events :
              watch'.events[i] = watch.events[IF i < m THEN i ELSE i + 1]
    BY <2>1, <2>2, EntryTaken
  <2>4. UNCHANGED <<targets, wire>> /\ click.phase = "popup"
    BY <1>7 DEF Click!TakeTarget
  <2>5. \/ click'.phase = "idle"
        \/ /\ result'.lost = result.lost \union {t0} /\ UNCHANGED <<here, click>>
    BY <1>0, <1>7 DEF Click!TakeTarget, ResultTypes, ClickTypes
  <2>. HIDE DEF m
  <2>6. ASSUME NEW i \in DOMAIN watch.events, i # m
        PROVE  \E j \in DOMAIN watch'.events : watch'.events[j] = watch.events[i]
    <3>1. CASE i < m
      <4>1. i \in DOMAIN watch'.events
        BY <1>0, <2>1, <2>3, <3>1
      <4>. QED BY <2>3, <3>1, <4>1
    <3>2. CASE ~(i < m)
      <4>1. i - 1 \in DOMAIN watch'.events /\ ~(i - 1 < m) /\ i - 1 + 1 = i
        BY <1>0, <2>1, <2>3, <2>6, <3>2
      <4>. QED BY <2>3, <4>1
    <3>. QED BY <3>1, <3>2
  <2>7. CASE click'.phase = "idle"
    BY <2>7
  <2>8. CASE result'.lost = result.lost \union {t0} /\ UNCHANGED <<here, click>>
    <3>1. ASSUME NEW t \in DOMAIN targets, Remembered(v, t) PROVE Remembered(v, t)'
      <4>1. ASSUME NEW i \in DOMAIN watch.events,
                   watch.events[i].target = t, watch.events[i].seq > click.mark
            PROVE  Remembered(v, t)'
        <5>1. CASE i = m
          BY <2>8, <4>1, <5>1 DEF Remembered
        <5>2. CASE i # m
          BY <2>6, <2>8, <4>1, <5>2 DEF Remembered
        <5>. QED BY <5>1, <5>2
      <4>. QED BY <2>3, <2>4, <2>8, <3>1, <4>1 DEF Remembered
    <3>. QED BY <1>1, <2>4, <2>8, <3>1
  <2>. QED BY <2>5, <2>7, <2>8
<1>8. CASE Click(v)!Mark
  <2>1. click'.made = Len(targets) /\ UNCHANGED targets
    BY <1>0, <1>8 DEF Click!Mark, ClickTypes
  <2>. QED BY <1>19, <2>1
<1>9. CASE Click(v)!PressEnter
  <2>1. click'.look = "enter" /\ click'.phase = "nav"
    BY <1>0, <1>9 DEF Click!PressEnter, ClickTypes
  <2>. QED BY <2>1 DEF Remembered
<1>10. ASSUME NEW l \in Click(v)!Looks, Click(v)!Probe(l) PROVE NoneForgotten(v)'
  <2>1. /\ click.phase = "probe" /\ click'.made = click.made
        /\ click'.mark = click.mark
        /\ UNCHANGED <<wire, watch, targets, here, result>>
    BY <1>0, <1>10 DEF Click!Probe, ClickTypes
  <2>. QED BY <1>1, <2>1 DEF Remembered
<1>11. CASE Click(v)!Input \/ Click(v)!LoadWaitEnds \/ Click(v)!NoTarget
  BY <1>0, <1>2, <1>11 DEF Click!Input, Click!LoadWaitEnds, Click!NoTarget,
     Click!AfterNav, ClickTypes
<1>12. CASE Click(v)!BeginNavWait
  BY <1>0, <1>2, <1>12 DEF Click!BeginNavWait, Click!AfterNav, ClickTypes
<1>13. CASE Click(v)!NavSeen \/ Click(v)!AddressChanged \/ Click(v)!NavTimesOut
  <2>1. /\ click'.phase \in {"load", Click(v)!AfterNav}
        /\ click'.look = click.look /\ click'.made = click.made
        /\ click'.mark = click.mark /\ result'.lost = result.lost
        /\ click.phase = "reading" /\ UNCHANGED <<wire, watch, targets, here>>
    BY <1>0, <1>13 DEF Click!NavSeen, Click!AddressChanged, Click!NavTimesOut,
       ClickTypes, ResultTypes
  <2>. QED BY <1>2, <2>1 DEF Click!AfterNav
<1>14. CASE Click(v)!BeginDownloadWait \/ Click(v)!DownloadWaitEnds
  BY <1>0, <1>2, <1>14 DEF Click!BeginDownloadWait, Click!DownloadWaitEnds,
     ClickTypes, ResultTypes
<1>15. CASE (\E f \in Click(v)!Frames, c \in Click(v)!Changes :
         Click(v)!Commit(f, c))
               /\ UNCHANGED <<here, watch, click, result>>
  BY <1>2, <1>15 DEF Click!Commit
<1>16. CASE Click(v)!HubReads
  BY <1>2, <1>16 DEF Click!HubReads
<1>17. ASSUME NEW t \in DOMAIN targets, Click(v)!SwitchTab(t)
       PROVE  NoneForgotten(v)'
  BY <1>17 DEF Click!SwitchTab
<1>. QED BY <1>3, <1>4, <1>5, <1>6, <1>7, <1>8, <1>9, <1>10, <1>11, <1>12, <1>13,
            <1>14, <1>15, <1>16, <1>17 DEF Click!Next, Click!PageActs

LEMMA SinceThePressKeeps ==
    ASSUME NEW v, ClickShape(v), SinceThePress(v), Click(v)!Next
    PROVE  SinceThePress(v)'
<1>. USE DEF SinceThePress
<1>0. click \in ClickTypes(v) /\ click.from \in Nat \ {0}
  BY DEF ClickShape, ClickTypes
<1>1. CASE Click(v)!BeginNavWait
  <2>1. CASE click'.phase # "reading"
    BY <2>1
  <2>2. CASE ~v.hub
    BY <2>2
  <2>3. CASE \E s \in 1..click.from :
                click' = [click EXCEPT !.phase = "reading", !.since = s]
    <3>1. PICK s \in 1..click.from :
             click' = [click EXCEPT !.phase = "reading", !.since = s]
      BY <2>3
    <3>2. click'.since = s /\ click'.from = click.from
      BY <1>0, <3>1 DEF ClickTypes
    <3>. QED BY <1>0, <3>2
  <2>. QED BY <1>0, <1>1, <2>1, <2>2, <2>3
       DEF Click!BeginNavWait, Click!AfterNav, ClickTypes
<1>2. CASE UNCHANGED click
  BY <1>2
<1>3. CASE click'.phase # "reading"
  BY <1>3
<1>4. Click(v)!Mark \/ Click(v)!Input \/ Click(v)!PressEnter
        \/ (\E l \in Click(v)!Looks : Click(v)!Probe(l)) => click'.phase # "reading"
  BY <1>0 DEF Click!Mark, Click!Input, Click!PressEnter, Click!Probe, ClickTypes
<1>5. Click(v)!NavSeen \/ Click(v)!AddressChanged \/ Click(v)!NavTimesOut
        \/ Click(v)!LoadWaitEnds => click'.phase # "reading"
  BY <1>0 DEF Click!NavSeen, Click!AddressChanged, Click!NavTimesOut,
     Click!LoadWaitEnds, Click!AfterNav, ClickTypes
<1>6. Click(v)!BeginDownloadWait \/ Click(v)!DownloadWaitEnds \/ Click(v)!NoTarget
        \/ Click(v)!TakeTarget => click'.phase # "reading"
  BY <1>0 DEF Click!BeginDownloadWait, Click!DownloadWaitEnds, Click!NoTarget,
     Click!TakeTarget, ClickTypes
<1>. QED BY <1>1, <1>2, <1>3, <1>4, <1>5, <1>6
         DEF Click!Next, Click!PageActs, Click!TargetCloses, Click!SwitchTab,
             Click!WatchReads, Click!HubReads

LEMMA ClickInit ==
    ASSUME NEW v, Click(v)!ClickAssumption, Click(v)!Init
    PROVE  ClickInv(v)
<1>. USE DEF Click!Init
<1>1. ClickShape(v)
  <2>1. [opener |-> 0, alive |-> TRUE] \in Tabs
    BY DEF Tabs
  <2>2. targets \in Seq(Tabs)
    BY <2>1 DEF Click!None
  <2>3. /\ << >> \in Seq(Wired) /\ << >> \in Seq(PageNews) /\ << >> \in Seq(Watched)
    OBVIOUS
  <2>4. watch \in Watches /\ hints \in Switches
    BY <2>3 DEF Watches, Switches
  <2>5. click \in ClickTypes(v)
    BY DEF ClickTypes, Click!Looks, Click!Phases
  <2>6. result \in ResultTypes
    BY DEF ResultTypes, Click!NoResult, Click!None
  <2>. QED BY <2>2, <2>3, <2>4, <2>5, <2>6 DEF ClickShape
<1>2. /\ wire = << >> /\ watch.events = << >> /\ watch.seq = 0
      /\ watch.downloads = 0 /\ click.mark = 0 /\ click.dmark = 0
      /\ click.phase = "idle" /\ click.look = "plain"
      /\ result.taken = 0 /\ result.nav = "none" /\ result.download = "none"
      /\ result.lost = {} /\ begun = 0
  BY DEF Click!NoResult, Click!None
<1>3. TabsAreTold
  BY <1>2 DEF TabsAreTold
<1>4. InOrder(v)
  BY <1>2 DEF InOrder, Apart, Click!ClickAssumption
<1>5. DownloadsCounted
  <2>. DEFINE f == [i \in 0..0 |-> 0]
  <2>1. f \in [0..0 -> Nat] /\ f[0] = 0
    OBVIOUS
  <2>2. Len(wire) = 0
    BY <1>2
  <2>. HIDE DEF f
  <2>. QED BY <1>2, <2>1, <2>2 DEF DownloadsCounted, Counted
<1>6. OwnTabs
  BY <1>2 DEF OwnTabs
<1>7. LooksAreOwn
  BY <1>2 DEF LooksAreOwn
<1>8. NoneForgotten(v) /\ SinceThePress(v)
  BY <1>2 DEF NoneForgotten, SinceThePress
<1>. QED BY <1>1, <1>3, <1>4, <1>5, <1>6, <1>7, <1>8 DEF ClickInv

LEMMA ClickKeeps ==
    ASSUME NEW v, Click(v)!ClickAssumption, ClickInv(v),
           [Click(v)!Next]_(Click(v)!vars)
    PROVE  ClickInv(v)'
<1>. USE DEF ClickInv
<1>1. CASE Click(v)!Next
  <2>1. ClickShape(v)'
    <3>1. here \in Nat
      BY DEF OwnTabs, ClickShape
    <3>. QED BY <1>1, <3>1, ClickStreamsKeep, ClickCallKeeps 
             DEF ClickShape, ClickTypes, Click!Looks, Click!Phases
  <2>. QED BY <1>1, <2>1, TabsAreToldKeeps, InOrderKeeps, DownloadsCountedKeeps,
           OwnTabsKeeps, LooksAreOwnKeeps, NoneForgottenKeeps, SinceThePressKeeps
<1>2. CASE UNCHANGED Click(v)!vars
  <2>1. UNCHANGED <<targets, here, wire, watch, news, ring, doc, begun, hints,
                    click, result>>
    BY <1>2 DEF Click!vars
  <2>2. ClickShape(v)' /\ TabsAreTold' /\ InOrder(v)' /\ DownloadsCounted'
    BY <2>1 DEF ClickShape, ClickTypes, Click!Looks, Click!Phases, TabsAreTold,
       InOrder, DownloadsCounted
  <2>3. OwnTabs' /\ LooksAreOwn' /\ NoneForgotten(v)' /\ SinceThePress(v)'
    BY <2>1 DEF OwnTabs, LooksAreOwn, NoneForgotten, Remembered, SinceThePress
  <2>. QED BY <2>2, <2>3
<1>. QED BY <1>1, <1>2

LEMMA ClickInvMeans ==
    ASSUME NEW v, Click(v)!ClickAssumption, ClickInv(v)
    PROVE  /\ Click(v)!TypeOK /\ Click(v)!TakenIsOwn
           /\ Click(v)!WaitsMatchLook
<1>. USE DEF ClickInv
<1>1. /\ wire \in Seq(Wired) /\ watch \in Watches /\ watch.events \in Seq(Watched)
      /\ watch.seq \in Nat /\ watch.downloads \in Nat /\ begun \in Nat
      /\ click \in ClickTypes(v) /\ result \in ResultTypes
  BY DEF ClickShape, Watches
<1>2. watch.downloads <= begun
  BY <1>1, CountedMeans DEF DownloadsCounted
<1>3. \A i \in DOMAIN watch.events : watch.events[i].seq \in 1..watch.seq
  <2>1. DOMAIN watch.events = 1..Len(watch.events)
    BY <1>1
  <2>. QED BY <2>1 DEF InOrder, Apart, Numbers
<1>4. ASSUME NEW i \in DOMAIN watch.events, NEW j \in DOMAIN watch.events, i < j
      PROVE  watch.events[i].seq < watch.events[j].seq
  <2>1. i \in 1..Len(watch.events) /\ j \in 1..Len(watch.events) /\ i <= j
    BY <1>1, <1>4
  <2>2. watch.events[i].seq + (j - i) <= watch.events[j].seq
    BY <1>1, <2>1 DEF InOrder, Apart, Numbers
  <2>3. watch.events[i].seq \in Nat /\ watch.events[j].seq \in Nat
    BY <1>1, <1>3
  <2>. QED BY <1>4, <2>1, <2>2, <2>3
<1>5. Click(v)!TypeOK
  <2>1. click.phase \in Click(v)!Phases
          /\ click.look \in Click(v)!Looks \cup {"enter"}
    BY <1>1 DEF ClickTypes
  <2>2. result.taken \in {Click(v)!None} \cup DOMAIN targets
    BY DEF OwnTabs, Click!None
  <2>3. \A i \in DOMAIN watch.events :
           targets[watch.events[i].target].opener = watch.events[i].opener
    BY DEF TabsAreTold
  <2>4. here \in DOMAIN targets /\ targets[here].alive
    BY DEF OwnTabs
  <2>5. /\ Len(watch.events) <= v.cap /\ click.mark <= watch.seq
        /\ click.dmark <= watch.downloads
    BY DEF InOrder, DownloadsCounted
  <2>. QED BY <1>2, <1>3, <1>4, <2>1, <2>2, <2>3, <2>4, <2>5 DEF Click!TypeOK
<1>6. Click(v)!TakenIsOwn
  BY DEF OwnTabs, Click!TakenIsOwn, Click!None
<1>7. Click(v)!WaitsMatchLook
  <2>1. \A S : Click(v)!Cardinality(S) = Cardinality(S)
    BY DEF Click!Cardinality, Cardinality
  <2>2. ASSUME NEW t \in Nat, result.lost \subseteq {t}
        PROVE  ~(Cardinality(result.lost) > 1)
    <3>1. IsFiniteSet({t}) /\ Cardinality({t}) = 1
      BY FS_Singleton
    <3>2. Cardinality(result.lost) <= 1 /\ Cardinality(result.lost) \in Nat
      BY <2>2, <3>1, FS_Subset, FS_CardinalityType
    <3>. QED BY <3>2
  <2>3. click.look # "popup" => ~(Cardinality(result.lost) > 1)
    BY <2>2 DEF LooksAreOwn
  <2>. QED BY <2>1, <2>3 DEF LooksAreOwn, Click!WaitsMatchLook
<1>. QED BY <1>5, <1>6, <1>7

\* Steps.
LEMMA ClickStepsAreRight ==
    ASSUME NEW v, Click(v)!ClickAssumption, ClickInv(v), Click(v)!Next
    PROVE  /\ Click(v)!HintedTabTaken
           /\ v.hub => Click(v)!NavNotMissed
<1>. USE DEF ClickInv
<1>0. /\ click \in ClickTypes(v) /\ result \in ResultTypes /\ watch.seq \in Nat
      /\ click.mark \in Nat /\ v.cap \in Nat /\ hints \in Switches
      /\ DOMAIN targets \subseteq Nat \ {0}
  <2>1. targets \in Seq(Tabs)
    BY DEF ClickShape
  <2>2. DOMAIN targets \subseteq Nat \ {0}
    BY <2>1
  <2>. QED BY <2>2 DEF ClickShape, Watches, ClickTypes, Click!ClickAssumption
<1>1. Click(v)!HintedTabTaken
  <2>. SUFFICES ASSUME click.phase = "popup", click'.phase = "idle",
                       result'.taken = 0, hints.popup,
                       watch.seq - click.mark <= v.cap,
                       NEW t \in Click(v)!ToldOf
                PROVE  t \in result.lost
    BY DEF Click!HintedTabTaken, Click!None
  <2>1. Click(v)!TakeTarget \/ Click(v)!NoTarget
    <3>1. ~Click(v)!PageActs
      BY DEF Click!PageActs
    <3>2. ~(\E u \in DOMAIN targets :
            Click(v)!TargetCloses(u) \/ Click(v)!SwitchTab(u))
      BY DEF Click!TargetCloses, Click!SwitchTab
    <3>3. ~Click(v)!WatchReads /\ ~Click(v)!HubReads
      BY DEF Click!WatchReads, Click!HubReads
    <3>. QED BY <3>1, <3>2, <3>3
         DEF Click!Next, Click!Mark, Click!Probe, Click!Input, Click!PressEnter,
             Click!BeginNavWait, Click!NavSeen, Click!AddressChanged,
             Click!NavTimesOut, Click!LoadWaitEnds, Click!BeginDownloadWait,
             Click!DownloadWaitEnds
  <2>2. CASE Click(v)!TakeTarget
    <3>1. PICK u : u = watch.events[Click(v)!Entry].target
      OBVIOUS
    <3>2. u \in DOMAIN targets
      BY <2>2, <3>1, LeastEntry DEF Click!TakeTarget, TabsAreTold
    <3>3. result' = [result EXCEPT !.taken = u]
      BY <2>2, <3>1 DEF Click!TakeTarget
    <3>. QED BY <1>0, <3>2, <3>3 DEF ResultTypes
  <2>3. CASE Click(v)!NoTarget
    <3>1. /\ t \in DOMAIN targets /\ targets[t].opener = here /\ t > click.made
          /\ ~\E i \in DOMAIN wire : wire[i].target = t
      BY DEF Click!ToldOf
    <3>2. Remembered(v, t)
      BY <3>1 DEF NoneForgotten
    <3>3. ASSUME NEW i \in DOMAIN watch.events, watch.events[i].target = t,
                 watch.events[i].seq > click.mark
          PROVE  FALSE
      BY <2>3, <3>1, <3>3 DEF TabsAreTold, Click!NoTarget, Click!Entries,
         Click!Takeable
    <3>4. ~(watch.seq > click.mark + v.cap)
      BY <1>0
    <3>5. click.look # "enter"
      BY DEF LooksAreOwn
    <3>. QED BY <3>1, <3>2, <3>3, <3>4, <3>5 DEF Remembered
  <2>. QED BY <2>1, <2>2, <2>3
<1>2. ASSUME v.hub PROVE Click(v)!NavNotMissed
  <2>. SUFFICES ASSUME click.phase = "reading", result'.nav = "timeout",
                       NEW i \in click.from..Len(ring)
                PROVE  ~Click(v)!Moves(ring[i])
    BY <1>2 DEF Click!NavNotMissed
  <2>1. result.nav = "none"
    BY DEF LooksAreOwn
  <2>2. Click(v)!NavTimesOut
    <3>1. ~Click(v)!NavSeen
      BY <1>0, LeastMove DEF Click!NavSeen, ResultTypes, PageNews
    <3>2. ~Click(v)!AddressChanged
      BY <1>0 DEF Click!AddressChanged, ResultTypes
    <3>3. result' # result
      BY <2>1
    <3>4. ~(\E u \in DOMAIN targets :
               Click(v)!TargetCloses(u) \/ Click(v)!SwitchTab(u))
      BY <3>3 DEF Click!TargetCloses, Click!SwitchTab
    <3>5. ~(\E l \in Click(v)!Looks : Click(v)!Probe(l)) /\ ~Click(v)!PageActs
      BY <3>3 DEF Click!Probe, Click!PageActs
    <3>. QED BY <3>1, <3>2, <3>3, <3>4, <3>5
         DEF Click!Next, Click!WatchReads, Click!HubReads, Click!Mark,
             Click!Input, Click!PressEnter, Click!BeginNavWait,
             Click!LoadWaitEnds, Click!BeginDownloadWait,
             Click!DownloadWaitEnds, Click!TakeTarget, Click!NoTarget
  <2>3. Click(v)!MovesSince = {}
    BY <1>2, <2>2 DEF Click!NavTimesOut
  <2>4. i \in click.since..Len(ring)
    <3>1. click.since \in Nat /\ click.from \in Nat /\ click.since <= click.from
      BY <1>0, <1>2 DEF SinceThePress, ClickTypes
    <3>2. Len(ring) \in Nat
      BY DEF ClickShape
    <3>. QED BY <3>1, <3>2
  <2>. QED BY <2>3, <2>4 DEF Click!MovesSince
<1>. QED BY <1>1, <1>2

LEMMA ClickInvHolds ==
    ASSUME NEW v, Click(v)!ClickAssumption
    PROVE  Click(v)!Spec => []ClickInv(v)
<1>1. Click(v)!Init => ClickInv(v)
  BY ClickInit
<1>2. ClickInv(v) /\ [Click(v)!Next]_(Click(v)!vars) => ClickInv(v)'
  BY ClickKeeps
<1>. QED BY <1>1, <1>2, PTL DEF Click!Spec

\* The watch's cursors never run ahead of it, and its list stays within its cap
\* and in the order of arrival, of tabs opened by whom it says (popupWatch).
THEOREM ClicksTypeCorrect ==
    ASSUME NEW v, Click(v)!ClickAssumption
    PROVE  Click(v)!Spec => []Click(v)!TypeOK
<1>1. ClickInv(v) => Click(v)!TypeOK
  BY ClickInvMeans
<1>. QED BY <1>1, ClickInvHolds, PTL

\* The tab a click adopts was opened by the page it clicked, whatever other
\* pages open meanwhile and however the stream lags behind (take).
THEOREM TakenTabsAreOwn ==
    ASSUME NEW v, Click(v)!ClickAssumption
    PROVE  Click(v)!Spec => []Click(v)!TakenIsOwn
<1>1. ClickInv(v) => Click(v)!TakenIsOwn
  BY ClickInvMeans
<1>. QED BY <1>1, ClickInvHolds, PTL

\* A click waits for what its own element looked like and never for what an
\* earlier one did, though the hints outlive their click (checkActionable).
THEOREM WaitsAreForTheLook ==
    ASSUME NEW v, Click(v)!ClickAssumption
    PROVE  Click(v)!Spec => []Click(v)!WaitsMatchLook
<1>1. ClickInv(v) => Click(v)!WaitsMatchLook
  BY ClickInvMeans
<1>. QED BY <1>1, ClickInvHolds, PTL

\* A click that looked like a popup gives up on no tab that the watch was told
\* of since the mark, unless more than its cap came since (TakePopup).
THEOREM HintedTabsAreTaken ==
    ASSUME NEW v, Click(v)!ClickAssumption
    PROVE  Click(v)!Spec => [][Click(v)!HintedTabTaken]_(Click(v)!vars)
<1>1. ClickInv(v) /\ [Click(v)!Next]_(Click(v)!vars)
        => [Click(v)!HintedTabTaken]_(Click(v)!vars)
  BY ClickStepsAreRight
<1>. QED BY <1>1, ClickInvHolds, PTL DEF Click!Spec

\* With a hub a wait for a navigation runs out only if the hub has told of none
\* since the press (WaitForClickNavigation).
THEOREM NavigationsAreSeen ==
    ASSUME NEW v, Click(v)!ClickAssumption, v.hub
    PROVE  Click(v)!Spec => [][Click(v)!NavNotMissed]_(Click(v)!vars)
<1>1. ClickInv(v) /\ [Click(v)!Next]_(Click(v)!vars)
        => [Click(v)!NavNotMissed]_(Click(v)!vars)
  BY ClickStepsAreRight
<1>. QED BY <1>1, ClickInvHolds, PTL DEF Click!Spec
----------------------------------------------------------------------------
\* The clicks of the three instances.
ClicksInv ==
    /\ part = "clickTabs" => ClickInv(ClickTabs)
    /\ part = "clickWaits" => ClickInv(ClickNavs)
    /\ part = "clickStealth" => ClickInv(ClickStealth)

LEMMA ClicksKeep == ClicksInv /\ [Next]_vars => ClicksInv'
<1>. SUFFICES ASSUME ClicksInv, [Next]_vars PROVE ClicksInv'
  OBVIOUS
<1>. USE PageAssumption DEF PageAssumption
<1>1. ASSUME NEW v, Click(v)!ClickAssumption, ClickInv(v),
             UNCHANGED vars \/ Click(v)!Next
      PROVE  ClickInv(v)'
  <2>1. [Click(v)!Next]_(Click(v)!vars)
    BY <1>1 DEF vars, Click!vars
  <2>. QED BY <1>1, <2>1, ClickKeeps
<1>2. CASE UNCHANGED vars
  <2>1. UNCHANGED part
    BY <1>2 DEF vars
  <2>. QED BY <1>1, <1>2, <2>1 DEF ClicksInv
<1>3. CASE part = "clickTabs" /\ UNCHANGED part /\ Click(ClickTabs)!Next
  BY <1>1, <1>3 DEF ClicksInv
<1>4. CASE part = "clickWaits" /\ UNCHANGED part /\ Click(ClickNavs)!Next
  BY <1>1, <1>4 DEF ClicksInv
<1>5. CASE part = "clickStealth" /\ UNCHANGED part /\ Click(ClickStealth)!Next
  BY <1>1, <1>5 DEF ClicksInv
<1>6. CASE part \notin {"clickTabs", "clickWaits", "clickStealth"} /\ UNCHANGED part
  BY <1>6 DEF ClicksInv
<1>. QED BY <1>2, <1>3, <1>4, <1>5, <1>6 DEF Next, Step

LEMMA ClicksInvHolds == Spec => []ClicksInv
<1>1. Init => ClicksInv
  BY PageAssumption, ClickInit DEF PageAssumption, Init, ClicksInv
<1>. QED BY <1>1, ClicksKeep, PTL DEF Spec

\* Clicks in the run of the pages: a click adopts a tab of its own page only and
\* waits exactly for what its own element looked like (take, checkActionable).
THEOREM ClicksAreRight == Spec => []ClicksHold
<1>1. ClicksInv => ClicksHold
  BY PageAssumption, ClickInvMeans DEF PageAssumption, ClicksInv, ClicksHold
<1>. QED BY <1>1, ClicksInvHolds, PTL

----------------------------------------------------------------------------
\* The types of what the safe area keeps.
InsetShape(v) ==
    /\ native \in BOOLEAN /\ bound \in BOOLEAN /\ timer \in BOOLEAN
    /\ override \in v.insets \union {"none"}
    /\ asked \in v.insets \union {"none"}
    /\ scripts \in Seq(v.insets \union {"none"}) /\ Len(scripts) <= v.calls
    /\ call \in v.insets \union {"none", "nothing"}
    /\ phase \in {"loading", "parsed", "loaded"}
    /\ window \in v.insets \union {"none", "unset"}
    /\ styles \in [v.styles -> 0..2]

\* The value that the scripts are to leave in the page: what was asked for last,
\* or nothing beside Chrome's own override, which then has it.
Inserted == IF native THEN "none" ELSE asked
LastAsked ==
    /\ override = (IF native THEN asked ELSE "none")
    /\ scripts # << >> => scripts[Len(scripts)] = Inserted
    /\ scripts = << >> => asked = "none" /\ call = "nothing"
    /\ call # "nothing" => call = Inserted

\* Between calls a document is bound when there is a script for it and goes by
\* what the last one left; during a call it may go by an earlier value.
GoesBy ==
    call = "nothing" =>
       /\ bound <=> scripts # << >>
       /\ bound => window = Inserted

\* A document that has been parsed has the rules of its sheets, or will have:
\* the sheet that came after the last copy has scheduled one.
Copied(v) ==
    /\ ~bound => copy = Inset(v)!Empty /\ ~timer
    /\ bound /\ phase # "loading" /\ ~timer =>
          copy = Inset(v)!Rewritten(window, styles)
InsetInv(v) == InsetShape(v) /\ LastAsked /\ GoesBy /\ Copied(v)

LEMMA InsetInit ==
    ASSUME NEW v, Inset(v)!SafeAreaAssumption, Inset(v)!Init
    PROVE  InsetInv(v)
<1>. USE DEF Inset!Init, Inset!SafeAreaAssumption, Inset!None, Inset!NoCall
<1>1. native \in BOOLEAN /\ bound \in BOOLEAN /\ timer \in BOOLEAN
  BY Zenon
<1>2. ~bound /\ ~timer
  BY Zenon
<1>3. InsetShape(v)
  BY <1>1 DEF InsetShape, Inset!NoStyles
<1>4. LastAsked /\ GoesBy
  BY <1>1, <1>2 DEF LastAsked, GoesBy, Inserted
<1>5. Copied(v)
  BY <1>2 DEF Copied
<1>. QED BY <1>3, <1>4, <1>5 DEF InsetInv

\* A value appended is the last one.
LEMMA LastAppended ==
    ASSUME NEW S, NEW q \in Seq(S), NEW x \in S
    PROVE  /\ Append(q, x) \in Seq(S) /\ Append(q, x) # << >>
           /\ Len(Append(q, x)) = Len(q) + 1
           /\ Append(q, x)[Len(Append(q, x))] = x
OBVIOUS

\* A call of ApplySafeArea or ClearSafeArea begins.
LEMMA InstallKeeps ==
    ASSUME NEW v, Inset(v)!SafeAreaAssumption, InsetInv(v),
           NEW a \in v.insets \union {"none"}, Inset(v)!Install(a)
    PROVE  InsetInv(v)'
<1>. USE DEF Inset!None, Inset!NoCall
<1>. DEFINE value == IF native THEN "none" ELSE a
<1>1. /\ call = "nothing" /\ Len(scripts) < v.calls /\ asked' = a
      /\ scripts' = Append(scripts, value) /\ call' = value
      /\ override' = IF native THEN a ELSE override
      /\ UNCHANGED <<native, phase, window, bound, timer, styles, copy>>
  BY DEF Inset!Install, Inset!page
<1>2. value \in v.insets \union {"none"} /\ value # "nothing"
  BY DEF Inset!SafeAreaAssumption
<1>3. scripts \in Seq(v.insets \union {"none"}) /\ v.calls \in Nat
  BY DEF InsetInv, InsetShape, Inset!SafeAreaAssumption
<1>4. /\ scripts' \in Seq(v.insets \union {"none"}) /\ scripts' # << >>
      /\ Len(scripts') = Len(scripts) + 1 /\ scripts'[Len(scripts')] = value
  BY <1>1, <1>2, <1>3, LastAppended
<1>5. InsetShape(v)'
  BY <1>1, <1>2, <1>3, <1>4 DEF InsetInv, InsetShape
<1>6. Inserted' = value
  BY <1>1 DEF Inserted
<1>7. LastAsked' /\ GoesBy'
  BY <1>1, <1>2, <1>4, <1>6 DEF InsetInv, LastAsked, GoesBy
<1>8. Copied(v)'
  BY <1>1 DEF InsetInv, Copied, Inset!Rewritten
<1>. QED BY <1>5, <1>7, <1>8 DEF InsetInv

\* The page only adds style sheets.
LEMMA InsetKeeps ==
    ASSUME NEW v, Inset(v)!SafeAreaAssumption, v.does \subseteq {"adds"},
           InsetInv(v), [Inset(v)!Next]_(Inset(v)!vars)
    PROVE  InsetInv(v)'
<1>. USE DEF Inset!None, Inset!NoCall, Inset!page
<1>0. /\ InsetShape(v) /\ LastAsked /\ GoesBy /\ Copied(v)
      /\ scripts \in Seq(v.insets \union {"none"})
      /\ bound \in BOOLEAN /\ timer \in BOOLEAN
  BY DEF InsetInv, InsetShape
<1>1. CASE Inset(v)!ApplySafeArea \/ Inset(v)!ClearSafeArea
  <2>1. PICK a \in v.insets \union {"none"} : Inset(v)!Install(a)
    BY <1>1 DEF Inset!ApplySafeArea, Inset!ClearSafeArea
  <2>. QED BY <2>1, InstallKeeps
<1>2. CASE Inset(v)!Run
  <2>1. /\ call # "nothing" /\ call' = "nothing" /\ window' = call
        /\ UNCHANGED <<native, override, scripts, asked, phase, timer, styles>>
        /\ copy' = IF bound \/ phase # "loading"
                   THEN Inset(v)!Rewritten(call, styles) ELSE copy
    BY <1>2 DEF Inset!Run
  <2>2. bound' /\ bound' \in BOOLEAN
    BY <1>2, Zenon DEF Inset!Run
  <2>3. scripts # << >> /\ call = Inserted
    BY <1>0, <2>1 DEF LastAsked
  <2>4. InsetShape(v)'
    BY <1>0, <2>1, <2>2 DEF InsetShape
  <2>5. LastAsked' /\ GoesBy'
    BY <1>0, <2>1, <2>2, <2>3 DEF LastAsked, GoesBy, Inserted
  <2>6. Copied(v)'
    BY <2>1, <2>2 DEF Copied
  <2>. QED BY <2>4, <2>5, <2>6 DEF InsetInv
<1>3. CASE Inset(v)!Navigate
  <2>1. /\ phase' = "loading" /\ styles' = [s \in v.styles |-> 0]
        /\ copy' = Inset(v)!Empty
        /\ UNCHANGED <<native, override, scripts, call, asked>>
        /\ window' = IF scripts = << >> THEN "unset" ELSE scripts[Len(scripts)]
    BY <1>3 DEF Inset!Navigate, Inset!NoStyles
  <2>2. /\ ~timer' /\ timer' \in BOOLEAN /\ bound' \in BOOLEAN
        /\ bound' <=> scripts # << >>
    BY <1>3, Zenon DEF Inset!Navigate
  <2>3. scripts # << >> =>
          /\ scripts[Len(scripts)] = Inserted
          /\ scripts[Len(scripts)] \in v.insets \union {"none"}
    BY <1>0 DEF LastAsked, Inserted, InsetShape
  <2>4. InsetShape(v)'
    BY <1>0, <2>1, <2>2, <2>3 DEF InsetShape
  <2>5. LastAsked' /\ GoesBy'
    BY <1>0, <2>1, <2>2, <2>3 DEF LastAsked, GoesBy, Inserted
  <2>6. Copied(v)'
    BY <2>1, <2>2 DEF Copied, Inset!Empty, Inset!NoStyles
  <2>. QED BY <2>4, <2>5, <2>6 DEF InsetInv
<1>4. CASE Inset(v)!Parsed
  <2>1. /\ phase = "loading" /\ phase' = "parsed"
        /\ copy' = IF bound THEN Inset(v)!Rewritten(window, styles) ELSE copy
        /\ UNCHANGED <<native, override, scripts, call, asked, window, bound,
                       timer, styles>>
    BY <1>4 DEF Inset!Parsed
  <2>. QED BY <1>0, <2>1
           DEF InsetInv, InsetShape, LastAsked, GoesBy, Inserted, Copied
<1>5. CASE Inset(v)!Loaded
  <2>1. /\ phase = "parsed" /\ phase' = "loaded"
        /\ UNCHANGED <<native, override, scripts, call, asked, window, bound,
                       styles, copy>>
    BY <1>5 DEF Inset!Loaded
  <2>2. timer' \in BOOLEAN /\ (timer' <=> bound \/ timer)
    BY <1>0, <1>5, Zenon DEF Inset!Loaded
  <2>3. InsetShape(v)' /\ LastAsked' /\ GoesBy'
    BY <1>0, <2>1, <2>2 DEF InsetShape, LastAsked, GoesBy, Inserted
  <2>4. Copied(v)'
    BY <1>0, <2>1, <2>2 DEF Copied
  <2>. QED BY <2>3, <2>4 DEF InsetInv
<1>6. CASE Inset(v)!Timer
  <2>1. /\ copy' = Inset(v)!Rewritten(window, styles)
        /\ UNCHANGED <<native, override, scripts, call, asked, phase, window,
                       bound, styles>>
    BY <1>6 DEF Inset!Timer
  <2>2. timer /\ ~timer' /\ timer' \in BOOLEAN
    BY <1>6, Zenon DEF Inset!Timer
  <2>3. InsetShape(v)' /\ LastAsked' /\ GoesBy'
    BY <1>0, <2>1, <2>2 DEF InsetShape, LastAsked, GoesBy, Inserted
  <2>4. Copied(v)'
    BY <1>0, <2>1, <2>2 DEF Copied
  <2>. QED BY <2>3, <2>4 DEF InsetInv
<1>7. CASE Inset(v)!PageChanges
  <2>1. UNCHANGED <<native, override, scripts, call, asked, phase, window,
                    bound, copy>>
    BY <1>7 DEF Inset!PageChanges
  <2>2. PICK s \in v.styles : styles' = [styles EXCEPT ![s] = 1]
    BY <1>7 DEF Inset!PageChanges
  <2>3. timer' = (timer \/ Inset(v)!Observing)
    BY <1>7 DEF Inset!PageChanges
  <2>4. /\ timer' \in BOOLEAN
        /\ timer' <=> timer \/ (bound /\ phase # "loading")
    BY <1>0, <2>3, Zenon DEF Inset!Observing
  <2>5. InsetShape(v)' /\ LastAsked' /\ GoesBy'
    BY <1>0, <2>1, <2>2, <2>4 DEF InsetShape, LastAsked, GoesBy, Inserted
  <2>6. Copied(v)'
    BY <1>0, <2>1, <2>4 DEF Copied
  <2>. QED BY <2>5, <2>6 DEF InsetInv
<1>8. CASE UNCHANGED Inset(v)!vars
  BY <1>0, <1>8 DEF Inset!vars, InsetInv, InsetShape, LastAsked, GoesBy,
     Inserted, Copied
<1>. QED BY <1>1, <1>2, <1>3, <1>4, <1>5, <1>6, <1>7, <1>8 DEF Inset!Next

LEMMA InsetInvMeans ==
    ASSUME NEW v, Inset(v)!SafeAreaAssumption, InsetInv(v)
    PROVE  Inset(v)!TypeOK /\ Inset(v)!EnvIsAsked
<1>. USE DEF Inset!None, Inset!NoCall
<1>1. Inset(v)!TypeOK
  BY DEF InsetInv, InsetShape, Copied, Inset!TypeOK
<1>2. ASSUME phase = "loaded", ~timer, call = "nothing"
      PROVE  copy = Inset(v)!Rewritten(Inserted, styles)
  <2>1. CASE bound
    BY <1>2, <2>1 DEF InsetInv, GoesBy, Copied
  <2>2. CASE ~bound
    <3>1. Inserted = "none"
      BY <1>2, <2>2 DEF InsetInv, GoesBy, LastAsked, Inserted
    <3>. QED BY <2>2, <3>1 DEF InsetInv, Copied, Inset!Rewritten,
             Inset!SafeAreaAssumption
  <2>. QED BY <2>1, <2>2
<1>3. Inset(v)!EnvIsAsked
  <2>1. Inset(v)!Rewritten("none", styles) = Inset(v)!Empty
    BY DEF Inset!Rewritten, Inset!SafeAreaAssumption
  <2>. QED BY <1>2, <2>1 DEF Inset!EnvIsAsked, InsetInv, LastAsked, Inserted
<1>. QED BY <1>1, <1>3

LEMMA InsetInvHolds ==
    ASSUME NEW v, Inset(v)!SafeAreaAssumption, v.does \subseteq {"adds"}
    PROVE  Inset(v)!Spec => []InsetInv(v)
<1>1. Inset(v)!Init => InsetInv(v)
  BY InsetInit
<1>2. InsetInv(v) /\ [Inset(v)!Next]_(Inset(v)!vars) => InsetInv(v)'
  BY InsetKeeps
<1>. QED BY <1>1, <1>2, PTL DEF Inset!Spec

\* While the page adds style sheets, whatever the order of its parsing, the
\* calls, the observer and the timer, a page at rest has its rules with the
\* insets asked for last, and no copy beside Chrome's own override
\* (ApplySafeArea, safeAreaRewriteTemplate).
THEOREM InsetsAreInForce ==
    ASSUME NEW v, Inset(v)!SafeAreaAssumption, v.does \subseteq {"adds"}
    PROVE  Inset(v)!Spec => [](Inset(v)!TypeOK /\ Inset(v)!EnvIsAsked)
<1>1. InsetInv(v) => Inset(v)!TypeOK /\ Inset(v)!EnvIsAsked
  BY InsetInvMeans
<1>. QED BY <1>1, InsetInvHolds, PTL

\* What a sequence holds is of its type.
LEMMA SequenceAt ==
    ASSUME NEW S, NEW q \in Seq(S), NEW i \in 1..Len(q)
    PROVE  q[i] \in S
OBVIOUS

\* A set of numbers up to a bound has a greatest.
LEMMA GreatestOf ==
    ASSUME NEW n \in Nat, NEW S, S \subseteq 1..n, S # {}
    PROVE  \E i \in S : \A j \in S : j <= i
<1>. DEFINE T == {n - i : i \in S}
<1>1. T \in SUBSET Nat /\ T # {}
  <2>1. \A i \in S : i \in Nat /\ n - i \in Nat
    OBVIOUS
  <2>2. T # {}
    OBVIOUS
  <2>. QED BY <2>1, <2>2
<1>2. PICK t \in T : \A u \in T : t <= u
  BY <1>1, LeastOf
<1>3. PICK i \in S : t = n - i
  BY <1>2
<1>4. ASSUME NEW j \in S PROVE j <= i
  <2>1. n - i <= n - j
    BY <1>2, <1>3
  <2>2. i \in Nat /\ j \in Nat
    OBVIOUS
  <2>. QED BY <2>1, <2>2
<1>. QED BY <1>4

----------------------------------------------------------------------------
\* The event n is a value typed into the field f.
TypedInto(f, n) == events[n].t = "input" /\ events[n].on = f
Writers == {"dispatcher", "timer"}
Where(v) == v.fields \union v.urls \union {"page"}
Ops == {"type", "click", "press", "select", "hover", "navigate"}

\* The types of what a recorder keeps.
RecShape(v) ==
    /\ events \in Seq([t : Record(v)!AllKinds, on : Where(v)])
    /\ Len(events) <= v.events /\ read \in 0..Len(events)
    /\ \A n \in 1..Len(events) :
          /\ events[n].t = "input" => events[n].on \in v.fields
          /\ events[n].t = "navigated" => events[n].on \in v.urls
    /\ pending \in [v.fields -> 0..read]
    /\ timer \subseteq v.fields /\ fired \subseteq v.fields
    /\ hand \subseteq [by : Writers, field : v.fields, at : 1..read]
    /\ handling \in {"nothing", "flush", "emit"} /\ lastURL \in v.urls
    /\ handling # "nothing" => read > 0
    /\ out \in Seq([op : Ops, on : Where(v), at : Nat])
    /\ \A i \in DOMAIN out : out[i].at \in 1..read
    /\ command \in {"records", "flushes", "waits", "ended"}
    /\ chrome \in BOOLEAN

\* A value held back, in hand or written is of its field, and it is in one
\* place only.
Writes(i, n) == out[i].op = "type" /\ out[i].at = n
OnePlace(v) ==
    /\ \A f \in v.fields : pending[f] # 0 => TypedInto(f, pending[f])
    /\ \A h \in hand :
          /\ TypedInto(h.field, h.at) /\ pending[h.field] # h.at
          /\ \A g \in hand : g.at = h.at => g = h
          /\ \A i \in DOMAIN out : ~Writes(i, h.at)
    /\ \A i \in DOMAIN out : out[i].op = "type" =>
          /\ TypedInto(out[i].on, out[i].at)
          /\ pending[out[i].on] # out[i].at
          /\ \A j \in DOMAIN out : Writes(j, out[i].at) => i = j

\* The value typed last into a field is in one of the three places.
Latest(f, n) ==
    /\ n \in 1..read /\ TypedInto(f, n)
    /\ \A m \in 1..read : TypedInto(f, m) => m <= n
Kept(f, n) ==
    \/ pending[f] = n
    \/ \E h \in hand : h.field = f /\ h.at = n
    \/ \E i \in DOMAIN out : Writes(i, n) /\ out[i].on = f
NewestKept(v) ==
    command # "ended" =>
       \A f \in v.fields, n \in 1..read : Latest(f, n) => Kept(f, n)

\* Where a value is held back a timer runs or has fired.
Timed(v) ==
    command # "ended" =>
       \A f \in v.fields : pending[f] # 0 => f \in timer \union fired
RecInv(v) == RecShape(v) /\ OnePlace(v) /\ NewestKept(v) /\ Timed(v)

LEMMA RecInit ==
    ASSUME NEW v, Record(v)!RecorderAssumption, Record(v)!Init
    PROVE  RecInv(v)
<1>. USE DEF Record!Init, Record!RecorderAssumption
<1>1. chrome \in BOOLEAN
  BY Zenon
<1>2. RecShape(v)
  <2>1. /\ events = << >> /\ out = << >> /\ read = 0 /\ Len(events) = 0
        /\ hand = {} /\ timer = {} /\ fired = {} /\ v.events \in Nat
        /\ handling = "nothing" /\ command = "records" /\ lastURL \in v.urls
    OBVIOUS
  <2>2. pending \in [v.fields -> 0..read]
    BY <2>1
  <2>3. events \in Seq([t : Record(v)!AllKinds, on : Where(v)])
    BY <2>1
  <2>4. out \in Seq([op : Ops, on : Where(v), at : Nat]) /\ DOMAIN out = {}
    BY <2>1
  <2>. QED BY <1>1, <2>1, <2>2, <2>3, <2>4 DEF RecShape
<1>3. OnePlace(v)
  BY DEF OnePlace
<1>4. NewestKept(v) /\ Timed(v)
  BY DEF NewestKept, Timed
<1>. QED BY <1>2, <1>3, <1>4 DEF RecInv

\* What the invariant is about apart from its types, when the events, the
\* values and the ops stay.
LEMMA PlacesStay ==
    ASSUME NEW v, RecInv(v), UNCHANGED <<events, read, pending, hand, out>>,
           command' = "ended" \/ (command # "ended" /\
              \A f \in v.fields : f \in timer \union fired =>
                                  f \in timer' \union fired')
    PROVE  OnePlace(v)' /\ NewestKept(v)' /\ Timed(v)'
<1>1. OnePlace(v)'
  BY DEF RecInv, OnePlace, Writes, TypedInto
<1>2. NewestKept(v)'
  BY DEF RecInv, NewestKept, Latest, Kept, Writes, TypedInto
<1>3. Timed(v)'
  BY DEF RecInv, Timed
<1>. QED BY <1>1, <1>2, <1>3

\* emitType takes the value of a field out.
LEMMA TakeKeeps ==
    ASSUME NEW v, RecInv(v), NEW f \in v.fields, NEW by \in Writers,
           Record(v)!Take(f, by), fired' \subseteq fired, fired \subseteq fired' \union {f},
           UNCHANGED <<events, read, handling, lastURL, out, command, chrome>>
    PROVE  RecInv(v)'
<1>. DEFINE h == [by |-> by, field |-> f, at |-> pending[f]]
<1>1. /\ pending[f] # 0 /\ hand' = hand \union {h}
      /\ pending' = [pending EXCEPT ![f] = 0] /\ timer' = timer \ {f}
  BY DEF Record!Take
<1>2. /\ pending \in [v.fields -> 0..read] /\ read \in Nat
      /\ timer \subseteq v.fields /\ fired \subseteq v.fields
      /\ hand \subseteq [by : Writers, field : v.fields, at : 1..read]
  BY DEF RecInv, RecShape
<1>3. /\ pending' \in [v.fields -> 0..read] /\ pending'[f] = 0
      /\ pending[f] \in 1..read
      /\ \A g \in v.fields : g # f => pending'[g] = pending[g]
  BY <1>1, <1>2
<1>4. /\ h \in [by : Writers, field : v.fields, at : 1..read]
      /\ h.field = f /\ h.at = pending[f]
  BY <1>3
<1>5. RecShape(v)'
  <2>1. hand' \subseteq [by : Writers, field : v.fields, at : 1..read]
    BY <1>1, <1>2, <1>4
  <2>2. timer' \subseteq v.fields /\ fired' \subseteq v.fields
    BY <1>1, <1>2
  <2>. QED BY <1>3, <2>1, <2>2 DEF RecInv, RecShape
<1>6. TypedInto(f, pending[f])
  BY <1>1 DEF RecInv, OnePlace
<1>7. OnePlace(v)'
  <2>1. ASSUME NEW g \in v.fields, pending'[g] # 0
        PROVE  TypedInto(g, pending'[g])
    BY <1>3, <2>1 DEF RecInv, OnePlace
  <2>2. ASSUME NEW g \in hand, g.at = h.at PROVE FALSE
    <3>1. TypedInto(g.field, g.at) /\ pending[g.field] # g.at
      BY DEF RecInv, OnePlace
    <3>2. g.field = f
      BY <1>4, <1>6, <2>2, <3>1 DEF TypedInto
    <3>. QED BY <1>4, <2>2, <3>1, <3>2
  <2>3. ASSUME NEW i \in DOMAIN out, Writes(i, h.at) PROVE FALSE
    <3>1. TypedInto(out[i].on, out[i].at) /\ pending[out[i].on] # out[i].at
          /\ out[i].at = pending[f]
      BY <1>4, <2>3 DEF RecInv, OnePlace, Writes
    <3>2. out[i].on = f
      BY <1>6, <3>1 DEF TypedInto
    <3>. QED BY <3>1, <3>2
  <2>4. ASSUME NEW g \in hand'
        PROVE  /\ TypedInto(g.field, g.at) /\ pending'[g.field] # g.at
               /\ \A k \in hand' : k.at = g.at => k = g
               /\ \A i \in DOMAIN out : ~Writes(i, g.at)
    <3>1. CASE g \in hand
      <4>1. /\ TypedInto(g.field, g.at) /\ pending[g.field] # g.at
            /\ \A k \in hand : k.at = g.at => k = g
            /\ \A i \in DOMAIN out : ~Writes(i, g.at)
            /\ g.field \in v.fields /\ g.at \in 1..read
        BY <1>2, <3>1 DEF RecInv, OnePlace
      <4>2. pending'[g.field] # g.at
        BY <1>3, <4>1
      <4>3. \A k \in hand' : k.at = g.at => k = g
        BY <1>1, <2>2, <3>1, <4>1
      <4>. QED BY <4>1, <4>2, <4>3
    <3>2. CASE g = h
      BY <1>1, <1>3, <1>4, <1>6, <2>2, <2>3, <3>2
    <3>. QED BY <1>1, <3>1, <3>2
  <2>5. ASSUME NEW i \in DOMAIN out, out[i].op = "type"
        PROVE  /\ TypedInto(out[i].on, out[i].at)
               /\ pending'[out[i].on] # out[i].at
               /\ \A j \in DOMAIN out : Writes(j, out[i].at) => i = j
    <3>1. /\ TypedInto(out[i].on, out[i].at) /\ pending[out[i].on] # out[i].at
          /\ \A j \in DOMAIN out : Writes(j, out[i].at) => i = j
          /\ out[i].at \in 1..read
      BY <2>5 DEF RecInv, RecShape, OnePlace
    <3>2. out[i].on \in v.fields
      BY <3>1 DEF RecInv, RecShape, TypedInto
    <3>. QED BY <1>3, <3>1, <3>2
  <2>. QED BY <2>1, <2>4, <2>5 DEF OnePlace, TypedInto, Writes
<1>8. NewestKept(v)'
  <2>1. ASSUME command # "ended", NEW g \in v.fields, NEW n \in 1..read,
               Latest(g, n)
        PROVE  Kept(g, n)'
    <3>1. Kept(g, n)
      BY <2>1 DEF RecInv, NewestKept
    <3>2. CASE pending[g] = n /\ g = f
      BY <1>1, <1>4, <3>2 DEF Kept
    <3>3. CASE pending[g] = n /\ g # f
      BY <1>3, <3>3 DEF Kept
    <3>4. CASE pending[g] # n
      BY <1>1, <3>1, <3>4 DEF Kept, Writes
    <3>. QED BY <3>2, <3>3, <3>4
  <2>. QED BY <2>1 DEF NewestKept, Latest, TypedInto
<1>9. Timed(v)'
  BY <1>1, <1>3 DEF RecInv, Timed
<1>. QED BY <1>5, <1>7, <1>8, <1>9 DEF RecInv

\* A value in hand is written.
LEMMA PutKeeps ==
    ASSUME NEW v, RecInv(v), NEW h \in hand, Record(v)!Put(h),
           UNCHANGED <<events, read, timer, fired, handling, lastURL, command,
                       chrome>>
    PROVE  RecInv(v)'
<1>. DEFINE op == [op |-> "type", on |-> h.field, at |-> h.at]
            n == Len(out) + 1
<1>1. /\ out' = Append(out, op) /\ hand' = hand \ {h} /\ pending' = pending
  BY DEF Record!Put, Record!Op
<1>2. /\ h \in [by : Writers, field : v.fields, at : 1..read]
      /\ h.field \in v.fields /\ h.at \in 1..read /\ read \in Nat
      /\ out \in Seq([op : Ops, on : Where(v), at : Nat])
      /\ \A i \in DOMAIN out : out[i].at \in 1..read
  BY DEF RecInv, RecShape
<1>3. /\ op \in [op : Ops, on : Where(v), at : Nat]
      /\ op.op = "type" /\ op.on = h.field /\ op.at = h.at
  BY <1>2 DEF Ops, Where
<1>4. /\ out' \in Seq([op : Ops, on : Where(v), at : Nat])
      /\ DOMAIN out = 1..Len(out) /\ DOMAIN out' = 1..n /\ Len(out) \in Nat
      /\ out'[n] = op /\ \A i \in DOMAIN out : out'[i] = out[i]
  BY <1>1, <1>2, <1>3
<1>5. n \notin DOMAIN out /\ DOMAIN out' = DOMAIN out \union {n}
  BY <1>4
<1>6. RecShape(v)'
  <2>1. \A i \in DOMAIN out' : out'[i].at \in 1..read
    BY <1>2, <1>3, <1>4, <1>5
  <2>. QED BY <1>1, <1>4, <2>1 DEF RecInv, RecShape
<1>7. /\ TypedInto(h.field, h.at) /\ pending[h.field] # h.at
      /\ \A i \in DOMAIN out : ~Writes(i, h.at)
      /\ \A g \in hand : g.at = h.at => g = h
  BY DEF RecInv, OnePlace
<1>8. OnePlace(v)'
  <2>1. ASSUME NEW f \in v.fields, pending[f] # 0 PROVE TypedInto(f, pending[f])
    BY <2>1 DEF RecInv, OnePlace
  <2>2. ASSUME NEW g \in hand'
        PROVE  /\ TypedInto(g.field, g.at) /\ pending[g.field] # g.at
               /\ \A k \in hand' : k.at = g.at => k = g
               /\ \A i \in DOMAIN out' : ~(out'[i].op = "type" /\ out'[i].at = g.at)
    <3>1. /\ TypedInto(g.field, g.at) /\ pending[g.field] # g.at
          /\ \A k \in hand : k.at = g.at => k = g
          /\ \A i \in DOMAIN out : ~Writes(i, g.at) /\ g \in hand /\ g # h
      BY <1>1 DEF RecInv, OnePlace
    <3>2. h.at # g.at
      BY <1>1, <1>7
    <3>3. \A i \in DOMAIN out' : ~(out'[i].op = "type" /\ out'[i].at = g.at)
      BY <1>3, <1>4, <1>5, <3>1, <3>2 DEF Writes
    <3>. QED BY <1>1, <3>1, <3>3
  <2>3. ASSUME NEW i \in DOMAIN out', out'[i].op = "type"
        PROVE  /\ TypedInto(out'[i].on, out'[i].at)
               /\ pending[out'[i].on] # out'[i].at
               /\ \A j \in DOMAIN out' :
                     out'[j].op = "type" /\ out'[j].at = out'[i].at => i = j
    <3>1. CASE i = n
      <4>1. out'[i] = op
        BY <1>4, <3>1
      <4>2. \A j \in DOMAIN out' :
              out'[j].op = "type" /\ out'[j].at = h.at => j = n
        BY <1>4, <1>5, <1>7 DEF Writes
      <4>. QED BY <1>3, <1>7, <3>1, <4>1, <4>2
    <3>2. CASE i \in DOMAIN out
      <4>1. /\ out'[i] = out[i] /\ TypedInto(out[i].on, out[i].at)
            /\ pending[out[i].on] # out[i].at
            /\ \A j \in DOMAIN out : Writes(j, out[i].at) => i = j
        BY <1>4, <2>3, <3>2 DEF RecInv, OnePlace
      <4>2. out[i].at # h.at
        BY <1>7, <2>3, <3>2, <4>1 DEF Writes
      <4>3. \A j \in DOMAIN out' :
              out'[j].op = "type" /\ out'[j].at = out[i].at => i = j
        BY <1>3, <1>4, <1>5, <4>1, <4>2 DEF Writes
      <4>. QED BY <4>1, <4>3
    <3>. QED BY <1>5, <3>1, <3>2
  <2>. QED BY <1>1, <2>1, <2>2, <2>3 DEF OnePlace, TypedInto, Writes
<1>9. NewestKept(v)'
  <2>1. ASSUME command # "ended", NEW f \in v.fields, NEW m \in 1..read,
               Latest(f, m)
        PROVE  Kept(f, m)'
    <3>1. Kept(f, m)
      BY <2>1 DEF RecInv, NewestKept
    <3>2. CASE pending[f] = m
      BY <1>1, <3>2 DEF Kept
    <3>3. CASE \E g \in hand : g.field = f /\ g.at = m
      <4>1. PICK g \in hand : g.field = f /\ g.at = m
        BY <3>3
      <4>2. CASE g = h
        <5>1. n \in DOMAIN out' /\ out'[n].op = "type" /\ out'[n].at = m
              /\ out'[n].on = f
          BY <1>3, <1>4, <1>5, <4>1, <4>2
        <5>. QED BY <5>1 DEF Kept, Writes
      <4>3. CASE g # h
        BY <1>1, <4>1, <4>3 DEF Kept
      <4>. QED BY <4>2, <4>3
    <3>4. CASE \E i \in DOMAIN out : Writes(i, m) /\ out[i].on = f
      BY <1>4, <1>5, <3>4 DEF Kept, Writes
    <3>. QED BY <3>1, <3>2, <3>3, <3>4 DEF Kept
  <2>. QED BY <2>1 DEF NewestKept, Latest, TypedInto
<1>10. Timed(v)'
  BY <1>1 DEF RecInv, Timed
<1>. QED BY <1>6, <1>8, <1>9, <1>10 DEF RecInv

\* The op of another event is written.
LEMMA EmitKeeps ==
    ASSUME NEW v, Record(v)!RecorderAssumption, RecInv(v), Record(v)!Emit
    PROVE  RecInv(v)'
<1>. DEFINE op == [op |-> Record(v)!OpOf(events[read].t), on |-> events[read].on,
                   at |-> read]
            n == Len(out) + 1
<1>1. /\ handling = "emit" /\ handling' = "nothing"
      /\ out' = IF op.op = "none" THEN out ELSE Append(out, op)
      /\ UNCHANGED <<events, read, pending, timer, fired, hand, lastURL,
                     command, chrome>>
  BY DEF Record!Emit, Record!Op, Record!Current
<1>2. /\ out \in Seq([op : Ops, on : Where(v), at : Nat])
      /\ read \in 1..Len(events) /\ Len(events) \in Nat
      /\ events \in Seq([t : Record(v)!AllKinds, on : Where(v)])
      /\ \A i \in DOMAIN out : out[i].at \in 1..read
  <2>1. events \in Seq([t : Record(v)!AllKinds, on : Where(v)])
    BY DEF RecInv, RecShape
  <2>. QED BY <1>1, <2>1 DEF RecInv, RecShape
<1>3. \/ out' = out
      \/ /\ out' = Append(out, op) /\ op \in [op : Ops, on : Where(v), at : Nat]
         /\ op.op # "type" /\ op.at = read
  <2>1. CASE op.op = "none"
    BY <1>1, <2>1
  <2>2. CASE op.op # "none"
    <3>1. op.op \in Ops /\ op.op # "type"
      BY <2>2 DEF Ops, Record!OpOf
    <3>2. events[read].on \in Where(v)
      <4>1. events[read] \in [t : Record(v)!AllKinds, on : Where(v)]
        BY <1>2, SequenceAt
      <4>. QED BY <4>1
    <3>. QED BY <1>1, <1>2, <2>2, <3>1, <3>2
  <2>. QED BY <2>1, <2>2
<1>4. CASE out' = out
  <2>1. RecShape(v)'
    BY <1>1, <1>4 DEF RecInv, RecShape
  <2>2. command = "ended" => command' = "ended"
    BY <1>1
  <2>3. OnePlace(v)' /\ NewestKept(v)' /\ Timed(v)'
    BY <1>1, <1>4, <2>2, PlacesStay
  <2>. QED BY <2>1, <2>3 DEF RecInv
<1>5. CASE /\ out' = Append(out, op) /\ op \in [op : Ops, on : Where(v), at : Nat]
           /\ op.op # "type" /\ op.at = read
  <2>1. /\ out' \in Seq([op : Ops, on : Where(v), at : Nat])
        /\ DOMAIN out = 1..Len(out) /\ DOMAIN out' = 1..n /\ Len(out) \in Nat
        /\ out'[n] = op /\ \A i \in DOMAIN out : out'[i] = out[i]
    BY <1>2, <1>5
  <2>2. DOMAIN out' = DOMAIN out \union {n}
    BY <2>1
  <2>3. RecShape(v)'
    <3>1. \A i \in DOMAIN out' : out'[i].at \in 1..read
      BY <1>2, <1>5, <2>1, <2>2
    <3>. QED BY <1>1, <2>1, <3>1 DEF RecInv, RecShape
  <2>4. \A m : /\ \A i \in DOMAIN out' : Writes(i, m)' => i \in DOMAIN out /\ Writes(i, m)
               /\ \A i \in DOMAIN out : Writes(i, m) => Writes(i, m)' /\ i \in DOMAIN out'
    BY <1>5, <2>1, <2>2 DEF Writes
  <2>5. OnePlace(v)'
    <3>1. \A h \in hand : \A i \in DOMAIN out' : ~Writes(i, h.at)'
      BY <2>4 DEF RecInv, OnePlace
    <3>2. ASSUME NEW i \in DOMAIN out', out'[i].op = "type"
          PROVE  /\ TypedInto(out'[i].on, out'[i].at)
                 /\ pending[out'[i].on] # out'[i].at
                 /\ \A j \in DOMAIN out' :
                       out'[j].op = "type" /\ out'[j].at = out'[i].at => i = j
      <4>1. i \in DOMAIN out /\ out'[i] = out[i]
        BY <1>5, <2>1, <2>2, <3>2
      <4>2. /\ TypedInto(out[i].on, out[i].at)
            /\ pending[out[i].on] # out[i].at
            /\ \A j \in DOMAIN out : Writes(j, out[i].at) => i = j
        BY <3>2, <4>1 DEF RecInv, OnePlace
      <4>3. \A j \in DOMAIN out' : out'[j].op = "type" =>
               j \in DOMAIN out /\ out'[j] = out[j]
        BY <1>5, <2>1, <2>2
      <4>. QED BY <4>1, <4>2, <4>3 DEF Writes
    <3>. QED BY <1>1, <3>1, <3>2 DEF RecInv, OnePlace, TypedInto, Writes
  <2>6. NewestKept(v)'
    <3>1. ASSUME command # "ended", NEW f \in v.fields, NEW m \in 1..read,
                 Latest(f, m)
          PROVE  Kept(f, m)'
      <4>1. Kept(f, m)
        BY <3>1 DEF RecInv, NewestKept
      <4>. QED BY <1>1, <2>1, <2>2, <4>1 DEF Kept, Writes
    <3>. QED BY <1>1, <3>1 DEF NewestKept, Latest, TypedInto
  <2>7. Timed(v)'
    BY <1>1 DEF RecInv, Timed
  <2>. QED BY <2>3, <2>5, <2>6, <2>7 DEF RecInv
<1>. QED BY <1>3, <1>4, <1>5

\* The dispatcher handles an event that is not text.
LEMMA OtherKeeps ==
    ASSUME NEW v, RecInv(v), read < Len(events), events[read + 1].t # "input",
           read' = read + 1, handling' \in {"nothing", "flush", "emit"},
           lastURL' \in v.urls,
           UNCHANGED <<events, pending, timer, fired, hand, out, command, chrome>>
    PROVE  RecInv(v)'
<1>1. read \in Nat /\ Len(events) \in Nat /\ read + 1 \in 1..Len(events)
  <2>1. events \in Seq([t : Record(v)!AllKinds, on : Where(v)])
    BY DEF RecInv, RecShape
  <2>. QED BY <2>1 DEF RecInv, RecShape
<1>2. RecShape(v)'
  <2>1. pending' \in [v.fields -> 0..read']
    BY <1>1 DEF RecInv, RecShape
  <2>2. hand' \subseteq [by : Writers, field : v.fields, at : 1..read']
    <3>1. 1..read \subseteq 1..(read + 1)
      BY <1>1
    <3>. QED BY <3>1 DEF RecInv, RecShape
  <2>3. \A i \in DOMAIN out' : out'[i].at \in 1..read'
    BY <1>1 DEF RecInv, RecShape
  <2>. QED BY <1>1, <2>1, <2>2, <2>3 DEF RecInv, RecShape
<1>3. OnePlace(v)'
  BY DEF RecInv, OnePlace, Writes, TypedInto
<1>4. NewestKept(v)'
  <2>1. ASSUME command # "ended", NEW f \in v.fields, NEW n \in 1..read',
               Latest(f, n)'
        PROVE  Kept(f, n)'
    <3>1. n \in 1..read
      BY <1>1, <2>1 DEF Latest, TypedInto
    <3>2. Latest(f, n)
      BY <1>1, <2>1, <3>1 DEF Latest, TypedInto
    <3>3. Kept(f, n)
      BY <2>1, <3>1, <3>2 DEF RecInv, NewestKept
    <3>. QED BY <3>3 DEF Kept, Writes
  <2>. QED BY <2>1 DEF NewestKept
<1>5. Timed(v)'
  BY DEF RecInv, Timed
<1>. QED BY <1>2, <1>3, <1>4, <1>5 DEF RecInv

\* The dispatcher holds a value back.
LEMMA CoalesceKeeps ==
    ASSUME NEW v, RecInv(v), Record(v)!Coalesce
    PROVE  RecInv(v)'
<1>. DEFINE f == events[read + 1].on
            n == read + 1
<1>1. /\ read < Len(events) /\ read' = n /\ handling' = "nothing"
      /\ events[n].t = "input" /\ pending' = [pending EXCEPT ![f] = n]
      /\ timer' = timer \union {f}
      /\ UNCHANGED <<events, fired, hand, lastURL, out, command, chrome>>
  BY DEF Record!Coalesce, Record!Handle
<1>2. read \in Nat /\ Len(events) \in Nat /\ n \in 1..Len(events) /\ f \in v.fields
  <2>1. events \in Seq([t : Record(v)!AllKinds, on : Where(v)])
    BY DEF RecInv, RecShape
  <2>. QED BY <1>1, <2>1 DEF RecInv, RecShape
<1>3. /\ pending \in [v.fields -> 0..read] /\ pending' \in [v.fields -> 0..n]
      /\ pending'[f] = n /\ TypedInto(f, n)
      /\ \A g \in v.fields : g # f => pending'[g] = pending[g]
  <2>1. pending \in [v.fields -> 0..read]
    BY DEF RecInv, RecShape
  <2>. QED BY <1>1, <1>2, <2>1 DEF TypedInto
<1>4. RecShape(v)'
  <2>1. hand' \subseteq [by : Writers, field : v.fields, at : 1..read']
    <3>1. 1..read \subseteq 1..n
      BY <1>2
    <3>. QED BY <1>1, <3>1 DEF RecInv, RecShape
  <2>2. \A i \in DOMAIN out' : out'[i].at \in 1..read'
    BY <1>1, <1>2 DEF RecInv, RecShape
  <2>3. timer' \subseteq v.fields
    BY <1>1, <1>2 DEF RecInv, RecShape
  <2>. QED BY <1>1, <1>2, <1>3, <2>1, <2>2, <2>3 DEF RecInv, RecShape
<1>5. OnePlace(v)'
  <2>1. ASSUME NEW g \in v.fields, pending'[g] # 0
        PROVE  TypedInto(g, pending'[g])
    BY <1>3, <2>1 DEF RecInv, OnePlace
  <2>2. ASSUME NEW h \in hand
        PROVE  /\ pending'[h.field] # h.at /\ TypedInto(h.field, h.at)
               /\ \A g \in hand : g.at = h.at => g = h
               /\ \A i \in DOMAIN out : ~Writes(i, h.at)
    <3>1. /\ h.field \in v.fields /\ h.at \in 1..read
          /\ pending[h.field] # h.at
          /\ TypedInto(h.field, h.at)
          /\ \A g \in hand : g.at = h.at => g = h
          /\ \A i \in DOMAIN out : ~Writes(i, h.at)
      BY DEF RecInv, RecShape, OnePlace
    <3>. QED BY <1>2, <1>3, <3>1
  <2>3. ASSUME NEW i \in DOMAIN out, out[i].op = "type"
        PROVE  /\ TypedInto(out[i].on, out[i].at)
               /\ pending'[out[i].on] # out[i].at
               /\ \A j \in DOMAIN out : Writes(j, out[i].at) => i = j
    <3>1. /\ out[i].at \in 1..read /\ pending[out[i].on] # out[i].at
          /\ TypedInto(out[i].on, out[i].at)
          /\ \A j \in DOMAIN out : Writes(j, out[i].at) => i = j
      BY <2>3 DEF RecInv, RecShape, OnePlace
    <3>2. out[i].on \in v.fields
      <4>1. out[i].at \in 1..Len(events)
        BY <1>1, <1>2, <3>1
      <4>. QED BY <3>1, <4>1 DEF RecInv, RecShape, TypedInto
    <3>. QED BY <1>2, <1>3, <3>1, <3>2
  <2>. QED BY <1>1, <2>1, <2>2, <2>3 DEF OnePlace, Writes, TypedInto
<1>6. NewestKept(v)'
  <2>1. ASSUME command # "ended", NEW g \in v.fields, NEW m \in 1..n,
               Latest(g, m)'
        PROVE  Kept(g, m)'
    <3>1. CASE g = f
      <4>1. n <= m
        BY <1>1, <1>2, <1>3, <2>1, <3>1 DEF Latest, TypedInto
      <4>2. n = m
        BY <1>2, <4>1
      <4>. QED BY <1>3, <3>1, <4>2 DEF Kept
    <3>2. CASE g # f
      <4>1. m \in 1..read
        BY <1>1, <1>2, <2>1, <3>2 DEF Latest, TypedInto
      <4>2. Latest(g, m)
        BY <1>1, <1>2, <2>1, <4>1 DEF Latest, TypedInto
      <4>3. Kept(g, m)
        BY <2>1, <4>1, <4>2 DEF RecInv, NewestKept
      <4>. QED BY <1>1, <1>3, <3>2, <4>3 DEF Kept, Writes
    <3>. QED BY <3>1, <3>2
  <2>. QED BY <1>1, <2>1 DEF NewestKept
<1>7. Timed(v)'
  BY <1>1, <1>3 DEF RecInv, Timed
<1>. QED BY <1>4, <1>5, <1>6, <1>7 DEF RecInv

\* The user does something more.
LEMMA UserKeeps ==
    ASSUME NEW v, Record(v)!RecorderAssumption, RecInv(v), Record(v)!UserActs
    PROVE  RecInv(v)'
<1>. DEFINE Evs == [t : Record(v)!AllKinds, on : Where(v)]
<1>1. PICK k \in v.kinds, on \in Where(v) :
        events' = Append(events, [t |-> k, on |-> on])
        /\ (k = "input" => on \in v.fields)
        /\ (k = "navigated" => on \in v.urls)
  BY DEF Record!UserActs, Where
<1>2. /\ Len(events) < v.events /\ v.events \in Nat
      /\ UNCHANGED <<read, pending, timer, fired, hand, handling, lastURL, out,
                     command, chrome>>
  BY DEF Record!UserActs, Record!RecorderAssumption
<1>3. [t |-> k, on |-> on] \in Evs /\ events \in Seq(Evs)
  BY <1>1 DEF Record!RecorderAssumption, RecInv, RecShape
<1>4. /\ events' \in Seq(Evs) /\ Len(events') = Len(events) + 1
      /\ Len(events) \in Nat /\ read \in 0..Len(events)
      /\ \A n \in 1..Len(events) : events'[n] = events[n]
      /\ events'[Len(events) + 1] = [t |-> k, on |-> on]
  BY <1>1, <1>3 DEF RecInv, RecShape
<1>5. RecShape(v)'
  <2>1. ASSUME NEW n \in 1..Len(events')
        PROVE  /\ events'[n].t = "input" => events'[n].on \in v.fields
               /\ events'[n].t = "navigated" => events'[n].on \in v.urls
    <3>1. CASE n = Len(events) + 1
      BY <1>1, <1>4, <3>1
    <3>2. CASE n \in 1..Len(events)
      BY <1>4, <3>2 DEF RecInv, RecShape
    <3>. QED BY <1>4, <3>1, <3>2
  <2>. QED BY <1>2, <1>4, <2>1 DEF RecInv, RecShape
<1>6. \A f, n : n \in 1..read /\ TypedInto(f, n) =>
                   events'[n].t = "input" /\ events'[n].on = f
  BY <1>2, <1>4 DEF TypedInto
<1>7. OnePlace(v)'
  <2>1. ASSUME NEW f \in v.fields, pending[f] # 0
        PROVE  events'[pending[f]].t = "input" /\ events'[pending[f]].on = f
    <3>1. pending[f] \in 0..read /\ read \in Nat /\ TypedInto(f, pending[f])
      BY <2>1 DEF RecInv, RecShape, OnePlace
    <3>. QED BY <1>6, <2>1, <3>1
  <2>2. ASSUME NEW h \in hand
        PROVE  events'[h.at].t = "input" /\ events'[h.at].on = h.field
    <3>1. h.at \in 1..read /\ TypedInto(h.field, h.at)
      BY DEF RecInv, RecShape, OnePlace
    <3>. QED BY <1>6, <3>1
  <2>3. ASSUME NEW i \in DOMAIN out, out[i].op = "type"
        PROVE  events'[out[i].at].t = "input" /\ events'[out[i].at].on = out[i].on
    <3>1. out[i].at \in 1..read /\ TypedInto(out[i].on, out[i].at)
      BY <2>3 DEF RecInv, RecShape, OnePlace
    <3>. QED BY <1>6, <3>1
  <2>. QED BY <1>2, <2>1, <2>2, <2>3 DEF RecInv, OnePlace, Writes, TypedInto
<1>8. NewestKept(v)'
  <2>1. ASSUME command # "ended", NEW f \in v.fields, NEW n \in 1..read,
               Latest(f, n)'
        PROVE  Kept(f, n)'
    <3>1. Latest(f, n)
      BY <1>2, <1>4, <2>1 DEF Latest, TypedInto
    <3>2. Kept(f, n)
      BY <2>1, <3>1 DEF RecInv, NewestKept
    <3>. QED BY <1>2, <3>2 DEF Kept, Writes
  <2>. QED BY <1>2, <2>1 DEF NewestKept
<1>9. Timed(v)'
  BY <1>2 DEF RecInv, Timed
<1>. QED BY <1>5, <1>7, <1>8, <1>9 DEF RecInv

LEMMA RecKeeps ==
    ASSUME NEW v, Record(v)!RecorderAssumption, RecInv(v),
           [Record(v)!Next]_(Record(v)!vars)
    PROVE  RecInv(v)'
<1>0. /\ RecShape(v) /\ read \in Nat /\ lastURL \in v.urls
      /\ fired \subseteq v.fields /\ timer \subseteq v.fields
  BY DEF RecInv, RecShape
<1>1. CASE Record(v)!Receive
  <2>1. /\ read < Len(events) /\ events[read + 1].t # "input" /\ read' = read + 1
        /\ handling' \in {"nothing", "flush", "emit"}
        /\ UNCHANGED <<events, pending, timer, fired, hand, lastURL, out, command, chrome>>
    BY <1>1 DEF Record!Receive, Record!Handle
  <2>. QED BY <1>0, <2>1, OtherKeeps
<1>2. CASE Record(v)!Navigated
  <2>1. /\ read < Len(events) /\ events[read + 1].t = "navigated"
        /\ read' = read + 1 /\ handling' \in {"nothing", "flush", "emit"}
        /\ lastURL' = events[read + 1].on
        /\ UNCHANGED <<events, pending, timer, fired, hand, out, command, chrome>>
    BY <1>2 DEF Record!Navigated, Record!Handle
  <2>2. events[read + 1].on \in v.urls
    <3>1. events \in Seq([t : Record(v)!AllKinds, on : Where(v)])
      BY <1>0 DEF RecShape
    <3>2. read + 1 \in 1..Len(events)
      BY <1>0, <2>1, <3>1
    <3>. QED BY <1>0, <2>1, <3>2 DEF RecShape
  <2>. QED BY <2>1, <2>2, OtherKeeps
<1>3. CASE Record(v)!FlushOne
  <2>1. PICK f \in v.fields : Record(v)!Take(f, "dispatcher")
    BY <1>3 DEF Record!FlushOne, Record!Held
  <2>2. UNCHANGED <<events, read, fired, handling, lastURL, out, command, chrome>>
        /\ "dispatcher" \in Writers
    BY <1>3 DEF Record!FlushOne, Writers
  <2>. QED BY <2>1, <2>2, TakeKeeps
<1>4. CASE Record(v)!Write
  <2>1. PICK h \in hand : Record(v)!Put(h)
    BY <1>4 DEF Record!Write
  <2>2. UNCHANGED <<events, read, timer, fired, handling, lastURL, command, chrome>>
    BY <1>4 DEF Record!Write
  <2>. QED BY <2>1, <2>2, PutKeeps
<1>5. CASE Record(v)!FlushField
  <2>1. PICK f \in fired :
          /\ fired' = fired \ {f}
          /\ \/ Record(v)!Take(f, "timer")
             \/ pending[f] = 0 /\ UNCHANGED <<pending, hand, timer>>
    BY <1>5 DEF Record!FlushField
  <2>2. UNCHANGED <<events, read, handling, lastURL, out, command, chrome>>
        /\ "timer" \in Writers
    BY <1>5 DEF Record!FlushField, Writers
  <2>3. CASE Record(v)!Take(f, "timer")
    BY <1>0, <2>1, <2>2, <2>3, TakeKeeps
  <2>4. CASE pending[f] = 0 /\ UNCHANGED <<pending, hand, timer>>
    <3>1. RecShape(v)'
      BY <1>0, <2>1, <2>2, <2>4 DEF RecShape
    <3>2. OnePlace(v)' /\ NewestKept(v)'
      BY <2>2, <2>4 DEF RecInv, OnePlace, NewestKept, Latest, Kept, Writes, TypedInto
    <3>3. Timed(v)'
      BY <2>1, <2>2, <2>4 DEF RecInv, Timed
    <3>. QED BY <3>1, <3>2, <3>3 DEF RecInv
  <2>. QED BY <2>1, <2>3, <2>4
<1>6. CASE Record(v)!Fire
  <2>1. PICK f \in timer : fired' = fired \union {f} /\ timer' = timer \ {f}
    BY <1>6 DEF Record!Fire
  <2>2. /\ command # "ended"
        /\ UNCHANGED <<events, read, pending, hand, handling, lastURL, out,
                       command, chrome>>
    BY <1>6 DEF Record!Fire
  <2>3. RecShape(v)'
    BY <1>0, <2>1, <2>2 DEF RecShape
  <2>4. OnePlace(v)' /\ NewestKept(v)' /\ Timed(v)'
    BY <2>1, <2>2, PlacesStay
  <2>. QED BY <2>3, <2>4 DEF RecInv
<1>7. CASE Record(v)!Flushed \/ Record(v)!Signal \/ Record(v)!StopCDP
           \/ Record(v)!CloseBrowser
  <2>1. /\ UNCHANGED <<events, read, pending, timer, fired, hand, out, lastURL>>
        /\ handling' = handling \/ (handling = "flush" /\ handling' = "emit")
        /\ command' \in {command, "flushes", "waits"}
        /\ command = "ended" => command' = "ended"
    BY <1>7 DEF Record!Flushed, Record!Signal, Record!StopCDP, Record!CloseBrowser
  <2>2. chrome' \in BOOLEAN
    BY <1>0, <1>7, Zenon DEF RecShape, Record!Flushed, Record!Signal, Record!StopCDP,
       Record!CloseBrowser
  <2>3. OnePlace(v)' /\ NewestKept(v)' /\ Timed(v)'
    BY <2>1, PlacesStay
  <2>4. handling = "flush" => read > 0
    BY <1>0 DEF RecShape
  <2>5. RecShape(v)'
    BY <1>0, <2>1, <2>2, <2>4 DEF RecShape
  <2>. QED BY <2>3, <2>5 DEF RecInv
<1>8. CASE Record(v)!Close
  <2>1. /\ command' = "ended" /\ timer' = {} /\ fired' = {} /\ hand' = {}
        /\ UNCHANGED <<events, read, pending, handling, lastURL, out, chrome>>
    BY <1>8 DEF Record!Close
  <2>2. RecShape(v)'
    BY <1>0, <2>1 DEF RecShape
  <2>3. OnePlace(v)' /\ NewestKept(v)' /\ Timed(v)'
    BY <2>1 DEF RecInv, OnePlace, NewestKept, Timed, Writes, TypedInto
  <2>. QED BY <2>2, <2>3 DEF RecInv
<1>9. CASE UNCHANGED Record(v)!vars
  <2>1. UNCHANGED <<events, read, pending, timer, fired, hand, handling, lastURL,
                    out, command, chrome>>
    BY <1>9 DEF Record!vars
  <2>2. OnePlace(v)' /\ NewestKept(v)' /\ Timed(v)'
    BY <2>1, PlacesStay
  <2>3. RecShape(v)'
    BY <1>0, <2>1 DEF RecShape
  <2>. QED BY <2>2, <2>3 DEF RecInv
<1>. QED BY <1>1, <1>2, <1>3, <1>4, <1>5, <1>6, <1>7, <1>8, <1>9, CoalesceKeeps,
            EmitKeeps, UserKeeps DEF Record!Next, Record!Program

LEMMA RecInvMeans ==
    ASSUME NEW v, Record(v)!RecorderAssumption, RecInv(v)
    PROVE  /\ Record(v)!TypeOK /\ Record(v)!NoTextLost /\ Record(v)!TypedOnce
           /\ Record(v)!HeldHasTimer
<1>1. /\ read \in Nat /\ read \in 0..Len(events) /\ Len(events) \in Nat
      /\ Len(events) <= v.events /\ v.events \in Nat
  <2>1. events \in Seq([t : Record(v)!AllKinds, on : Where(v)])
    BY DEF RecInv, RecShape
  <2>. QED BY <2>1 DEF RecInv, RecShape, Record!RecorderAssumption
<1>2. Record(v)!TypeOK
  <2>1. pending \in [v.fields -> 0..v.events]
    BY <1>1 DEF RecInv, RecShape
  <2>. QED BY <1>1, <2>1 DEF RecInv, RecShape, Record!TypeOK
<1>3. Record(v)!TypedOnce
  BY DEF RecInv, OnePlace, Writes, Record!TypedOnce
<1>4. Record(v)!HeldHasTimer
  BY DEF RecInv, Timed, Record!HeldHasTimer, Record!Held
<1>5. Record(v)!NoTextLost
  <2>1. ASSUME NEW f \in v.fields, Record(v)!Inputs(f) # {}
        PROVE  \E i \in Record(v)!Inputs(f) : \A j \in Record(v)!Inputs(f) : j <= i
    <3>1. Record(v)!Inputs(f) \subseteq 1..read
      BY DEF Record!Inputs
    <3>. QED BY <1>1, <2>1, <3>1, GreatestOf
  <2>2. ASSUME command # "ended", NEW f \in v.fields, NEW n \in Record(v)!Inputs(f),
               \A j \in Record(v)!Inputs(f) : j <= n
        PROVE  Kept(f, n)
    <3>1. n \in 1..read /\ Latest(f, n)
      BY <2>2 DEF Record!Inputs, Latest, TypedInto
    <3>. QED BY <2>2, <3>1 DEF RecInv, NewestKept
  <2>3. ASSUME command # "ended", NEW f \in v.fields, Record(v)!Inputs(f) # {}
        PROVE  LET newest == CHOOSE i \in Record(v)!Inputs(f) :
                                \A j \in Record(v)!Inputs(f) : j <= i
               IN  Kept(f, newest)
    BY <2>1, <2>2, <2>3
  <2>. QED BY <2>3 DEF Record!NoTextLost, Kept, Writes
<1>. QED BY <1>2, <1>3, <1>4, <1>5

LEMMA RecInvHolds ==
    ASSUME NEW v, Record(v)!RecorderAssumption
    PROVE  Record(v)!Spec => []RecInv(v)
<1>1. Record(v)!Init => RecInv(v)
  BY RecInit
<1>2. RecInv(v) /\ [Record(v)!Next]_(Record(v)!vars) => RecInv(v)'
  BY RecKeeps
<1>. QED BY <1>1, <1>2, PTL DEF Record!Spec

\* However the dispatcher, the timers and the user race, what was typed last
\* into a field is held back, in hand or written until the command has ended, no
\* value is written twice, and what is held back has a timer (coalesceType,
\* emitType, flushTypingFor).
THEOREM TypingIsKept ==
    ASSUME NEW v, Record(v)!RecorderAssumption
    PROVE  Record(v)!Spec =>
             [](Record(v)!TypeOK /\ Record(v)!NoTextLost /\ Record(v)!TypedOnce
                /\ Record(v)!HeldHasTimer)
<1>1. RecInv(v) =>
        Record(v)!TypeOK /\ Record(v)!NoTextLost /\ Record(v)!TypedOnce
        /\ Record(v)!HeldHasTimer
  BY RecInvMeans
<1>. QED BY <1>1, RecInvHolds, PTL

----------------------------------------------------------------------------
\* What an axis has after the calls q, if it had x: the last call that sets it
\* counts.
Setting(q, a) == {i \in 1..Len(q) : a \in DOMAIN q[i]}
LastOf(S) == CHOOSE i \in S : \A j \in S : i >= j
Val(q, a, x) ==
    IF Setting(q, a) = {} THEN x ELSE q[LastOf(Setting(q, a))][a]

LEMMA ValNone ==
    ASSUME NEW q, NEW a, NEW x, \A i \in 1..Len(q) : a \notin DOMAIN q[i]
    PROVE  Val(q, a, x) = x
BY DEF Val, Setting

LEMMA ValLast ==
    ASSUME NEW q, NEW a, NEW x, Len(q) \in Nat, NEW i \in 1..Len(q),
           a \in DOMAIN q[i], \A j \in 1..Len(q) : a \in DOMAIN q[j] => j <= i
    PROVE  Val(q, a, x) = q[i][a]
<1>1. i \in Setting(q, a) /\ \A j \in Setting(q, a) : j \in Nat /\ j <= i
  BY DEF Setting
<1>2. LastOf(Setting(q, a)) \in Setting(q, a)
      /\ \A j \in Setting(q, a) : LastOf(Setting(q, a)) >= j
  BY <1>1 DEF LastOf
<1>3. LastOf(Setting(q, a)) = i
  <2>1. PICK k \in Setting(q, a) :
          k = LastOf(Setting(q, a)) /\ \A j \in Setting(q, a) : k >= j
    BY <1>2
  <2>2. k \in Nat /\ i \in Nat /\ k <= i /\ k >= i
    BY <1>1, <2>1
  <2>. QED BY <2>1, <2>2
<1>. QED BY <1>1, <1>3 DEF Val

\* There is a last one.
LEMMA SettingLast ==
    ASSUME NEW q, NEW a, Len(q) \in Nat, NEW k \in 1..Len(q), a \in DOMAIN q[k]
    PROVE  \E i \in 1..Len(q) :
             a \in DOMAIN q[i] /\ \A j \in 1..Len(q) : a \in DOMAIN q[j] => j <= i
<1>1. Setting(q, a) \subseteq 1..Len(q) /\ Setting(q, a) # {}
  BY DEF Setting
<1>2. PICK i \in Setting(q, a) : \A j \in Setting(q, a) : j <= i
  BY <1>1, GreatestOf
<1>. QED BY <1>2 DEF Setting

LEMMA ValNothing ==
    ASSUME NEW a, NEW x
    PROVE  Val(<< >>, a, x) = x
BY ValNone

LEMMA ValOne ==
    ASSUME NEW c, NEW a, NEW x
    PROVE  Val(<<c>>, a, x) = IF a \in DOMAIN c THEN c[a] ELSE x
<1>1. Len(<<c>>) = 1 /\ <<c>>[1] = c /\ 1 \in 1..1
  OBVIOUS
<1>2. CASE a \in DOMAIN c
  BY <1>1, <1>2, ValLast
<1>3. CASE a \notin DOMAIN c
  BY <1>1, <1>3, ValNone
<1>. QED BY <1>2, <1>3

\* The calls of one list, then those of another.
LEMMA ValConcat ==
    ASSUME NEW S, NEW q \in Seq(S), NEW r \in Seq(S), NEW a, NEW x
    PROVE  Val(q \o r, a, x) = Val(r, a, Val(q, a, x))
<1>. DEFINE s == q \o r
            m == Len(q)
            n == Len(r)
<1>1. /\ m \in Nat /\ n \in Nat /\ Len(s) = m + n
      /\ \A i \in 1..m : s[i] = q[i] /\ i \in 1..Len(s)
      /\ \A i \in 1..n : s[m + i] = r[i] /\ m + i \in 1..Len(s)
  OBVIOUS
<1>2. \A i \in 1..Len(s) : i \in 1..m \/ (i - m \in 1..n /\ i = m + (i - m))
  BY <1>1
<1>. HIDE DEF s
<1>3. CASE \E k \in 1..n : a \in DOMAIN r[k]
  <2>1. PICK i \in 1..n : a \in DOMAIN r[i] /\ \A j \in 1..n : a \in DOMAIN r[j] => j <= i
    BY <1>1, <1>3, SettingLast
  <2>2. Val(r, a, Val(q, a, x)) = r[i][a]
    BY <1>1, <2>1, ValLast
  <2>3. \A j \in 1..Len(s) : a \in DOMAIN s[j] => j <= m + i
    <3>1. ASSUME NEW j \in 1..Len(s), a \in DOMAIN s[j] PROVE j <= m + i
      <4>1. CASE j \in 1..m
        BY <1>1, <4>1
      <4>2. CASE j - m \in 1..n /\ j = m + (j - m)
        <5>1. a \in DOMAIN r[j - m]
          BY <1>1, <3>1, <4>2
        <5>2. j - m <= i
          BY <2>1, <4>2, <5>1
        <5>. QED BY <1>1, <5>2
      <4>. QED BY <1>2, <4>1, <4>2
    <3>. QED BY <3>1
  <2>4. s[m + i] = r[i] /\ m + i \in 1..Len(s) /\ Len(s) \in Nat
    BY <1>1
  <2>5. Val(s, a, x) = s[m + i][a]
    BY <2>1, <2>3, <2>4, ValLast
  <2>. QED BY <2>2, <2>4, <2>5 DEF s
<1>4. CASE \A k \in 1..n : a \notin DOMAIN r[k]
  <2>1. Val(r, a, Val(q, a, x)) = Val(q, a, x)
    BY <1>4, ValNone
  <2>2. \A j \in 1..Len(s) : a \in DOMAIN s[j] => j \in 1..m
    BY <1>1, <1>2, <1>4
  <2>3. CASE \E k \in 1..m : a \in DOMAIN q[k]
    <3>1. PICK i \in 1..m : a \in DOMAIN q[i] /\ \A j \in 1..m : a \in DOMAIN q[j] => j <= i
      BY <1>1, <2>3, SettingLast
    <3>2. Val(q, a, x) = q[i][a]
      BY <1>1, <3>1, ValLast
    <3>3. s[i] = q[i] /\ i \in 1..Len(s) /\ Len(s) \in Nat
      BY <1>1
    <3>4. \A j \in 1..Len(s) : a \in DOMAIN s[j] => j <= i
      BY <1>1, <2>2, <3>1
    <3>5. Val(s, a, x) = s[i][a]
      BY <3>1, <3>3, <3>4, ValLast
    <3>. QED BY <2>1, <3>2, <3>3, <3>5 DEF s
  <2>4. CASE \A k \in 1..m : a \notin DOMAIN q[k]
    <3>1. \A j \in 1..Len(s) : a \notin DOMAIN s[j]
      BY <1>1, <2>2, <2>4
    <3>. QED BY <2>1, <2>4, <3>1, ValNone DEF s
  <2>. QED BY <2>3, <2>4
<1>. QED BY <1>3, <1>4

LEMMA ValGiven ==
    ASSUME NEW c, NEW q \in {<<c>>, << >>}, NEW a, NEW x
    PROVE  Val(q, a, x) = IF q # << >> /\ a \in DOMAIN c THEN c[a] ELSE x
<1>1. CASE q = <<c>>
  BY <1>1, ValOne
<1>2. CASE q = << >>
  BY <1>2, ValNothing
<1>. QED BY <1>1, <1>2


LEMMA FourParts ==
    ASSUME NEW S, NEW q1 \in Seq(S), NEW q2 \in Seq(S), NEW q3 \in Seq(S),
           NEW q4 \in Seq(S)
    PROVE  /\ q1 \o q2 \o q3 \o q4 \in Seq(S)
           /\ \A a, x : Val(q1 \o q2 \o q3 \o q4, a, x) =
                Val(q4, a, Val(q3, a, Val(q2, a, Val(q1, a, x))))
<1>. DEFINE r2 == q1 \o q2
            r3 == r2 \o q3
<1>1. r2 \in Seq(S)
  OBVIOUS
<1>2. \A a, x : Val(r2, a, x) = Val(q2, a, Val(q1, a, x))
  BY ValConcat
<1>. HIDE DEF r2
<1>3. r3 \in Seq(S)
  BY <1>1
<1>4. \A a, x : Val(r3, a, x) = Val(q3, a, Val(r2, a, x))
  BY <1>1, ValConcat
<1>. HIDE DEF r3
<1>5. r3 \o q4 \in Seq(S)
  BY <1>3
<1>6. \A a, x : Val(r3 \o q4, a, x) = Val(q4, a, Val(r3, a, x))
  BY <1>3, ValConcat
<1>7. \A a, x : Val(r3 \o q4, a, x) =
        Val(q4, a, Val(q3, a, Val(q2, a, Val(q1, a, x))))
  BY <1>2, <1>4, <1>6
<1>. QED BY <1>5, <1>7 DEF r3, r2

LEMMA FiveParts ==
    ASSUME NEW S, NEW q1 \in Seq(S), NEW q2 \in Seq(S), NEW q3 \in Seq(S),
           NEW q4 \in Seq(S), NEW q5 \in Seq(S)
    PROVE  /\ q1 \o q2 \o q3 \o q4 \o q5 \in Seq(S)
           /\ \A a, x : Val(q1 \o q2 \o q3 \o q4 \o q5, a, x) =
                Val(q5, a, Val(q4, a, Val(q3, a, Val(q2, a, Val(q1, a, x)))))
<1>. DEFINE r == q1 \o q2 \o q3 \o q4
<1>1. /\ r \in Seq(S)
      /\ \A a, x : Val(r, a, x) =
           Val(q4, a, Val(q3, a, Val(q2, a, Val(q1, a, x))))
  BY FourParts
<1>. HIDE DEF r
<1>2. r \o q5 \in Seq(S) /\ \A a, x : Val(r \o q5, a, x) = Val(q5, a, Val(r, a, x))
  BY <1>1, ValConcat
<1>3. \A a, x : Val(r \o q5, a, x) =
        Val(q5, a, Val(q4, a, Val(q3, a, Val(q2, a, Val(q1, a, x)))))
  BY <1>1, <1>2
<1>. QED BY <1>2, <1>3 DEF r

\* A page that takes calls one list at a time shows what all of them leave.
\* (after calls that set the axes in their domains)
Sizes == {"none", "small", "large"}
Agents == {"none", "of phone", "custom"}
Shows == {"none", "dark"}
Edges == {"none", "inset"}
Call == [size : Sizes, mobile : BOOLEAN] \union [touch : BOOLEAN]
        \union [ua : Agents] \union [scheme : Shows] \union [safe : Edges]
Page == [size : Sizes, mobile : BOOLEAN, touch : BOOLEAN, ua : Agents,
         scheme : Shows, safe : Edges]
Profile == [dev : {"none", "phone", "desktop"}, size : Sizes, mobile : BOOLEAN,
            touch : BOOLEAN, ua : Agents, scheme : Shows, safe : Edges]
AfterAll(o, q) ==
    [size |-> Val(q, "size", o.size), mobile |-> Val(q, "mobile", o.mobile),
     touch |-> Val(q, "touch", o.touch), ua |-> Val(q, "ua", o.ua),
     scheme |-> Val(q, "scheme", o.scheme), safe |-> Val(q, "safe", o.safe)]

\* What a page o shows of a profile s that was installed or, for the replay of
\* a command, added.
Installed(o, s) ==
    [size |-> IF s.size # "none" THEN s.size ELSE o.size,
     mobile |-> IF s.size # "none" THEN s.mobile ELSE o.mobile,
     touch |-> s.touch,
     ua |-> IF s.ua # "none" THEN s.ua ELSE o.ua,
     scheme |-> IF s.scheme # "none" THEN s.scheme ELSE o.scheme,
     safe |-> s.safe]

\* ApplyEmulationProfile.
LEMMA ProfileCallsInstall ==
    ASSUME NEW v, NEW s \in Profile, NEW o \in Page
    PROVE  /\ Emulate(v)!ProfileCalls(s) \in Seq(Call)
           /\ AfterAll(o, Emulate(v)!ProfileCalls(s)) = Installed(o, s)
<1>. DEFINE M == [size |-> s.size, mobile |-> s.mobile]
            T == [touch |-> s.touch]
            U == [ua |-> s.ua]
            C == [scheme |-> s.scheme]
            E == [safe |-> s.safe]
            q1 == IF s.size # "none" THEN <<M>> ELSE << >>
            q2 == <<T>>
            q3 == IF s.ua # "none" THEN <<U>> ELSE << >>
            q4 == IF s.scheme # "none" THEN <<C>> ELSE << >>
            q5 == <<E>>
<1>1. Emulate(v)!ProfileCalls(s) = q1 \o q2 \o q3 \o q4 \o q5
  BY DEF Emulate!ProfileCalls, Emulate!If, Emulate!Metrics, Emulate!Touch,
     Emulate!UserAgent, Emulate!ColorScheme, Emulate!SafeArea, Emulate!None
<1>2. /\ s.size \in Sizes /\ s.mobile \in BOOLEAN /\ s.touch \in BOOLEAN
      /\ s.ua \in Agents /\ s.scheme \in Shows /\ s.safe \in Edges
  BY DEF Profile
<1>3. M \in Call /\ T \in Call /\ U \in Call /\ C \in Call /\ E \in Call
  BY <1>2 DEF Call
<1>4. /\ DOMAIN M = {"size", "mobile"} /\ DOMAIN T = {"touch"} /\ DOMAIN U = {"ua"}
      /\ DOMAIN C = {"scheme"} /\ DOMAIN E = {"safe"}
      /\ M["size"] = s.size /\ M["mobile"] = s.mobile /\ T["touch"] = s.touch
      /\ U["ua"] = s.ua /\ C["scheme"] = s.scheme /\ E["safe"] = s.safe
  OBVIOUS
<1>. HIDE DEF M, T, U, C, E
<1>5. q1 \in Seq(Call) /\ q2 \in Seq(Call) /\ q3 \in Seq(Call)
      /\ q4 \in Seq(Call) /\ q5 \in Seq(Call)
  BY <1>3
<1>6. \A a, x :
        /\ Val(q1, a, x) = IF s.size # "none" /\ a \in DOMAIN M THEN M[a] ELSE x
        /\ Val(q2, a, x) = IF a \in DOMAIN T THEN T[a] ELSE x
        /\ Val(q3, a, x) = IF s.ua # "none" /\ a \in DOMAIN U THEN U[a] ELSE x
        /\ Val(q4, a, x) = IF s.scheme # "none" /\ a \in DOMAIN C THEN C[a] ELSE x
        /\ Val(q5, a, x) = IF a \in DOMAIN E THEN E[a] ELSE x
  <2>1. /\ q1 \in {<<M>>, << >>} /\ (q1 # << >> <=> s.size # "none")
        /\ q3 \in {<<U>>, << >>} /\ (q3 # << >> <=> s.ua # "none")
        /\ q4 \in {<<C>>, << >>} /\ (q4 # << >> <=> s.scheme # "none")
    OBVIOUS
  <2>2. q2 = <<T>> /\ q5 = <<E>>
    OBVIOUS
  <2>. HIDE DEF q1, q2, q3, q4, q5
  <2>3. \A a, x : Val(q1, a, x) = IF q1 # << >> /\ a \in DOMAIN M THEN M[a] ELSE x
    BY <2>1, ValGiven
  <2>4. \A a, x : Val(q3, a, x) = IF q3 # << >> /\ a \in DOMAIN U THEN U[a] ELSE x
    BY <2>1, ValGiven
  <2>5. \A a, x : Val(q4, a, x) = IF q4 # << >> /\ a \in DOMAIN C THEN C[a] ELSE x
    BY <2>1, ValGiven
  <2>6. \A a, x : Val(q2, a, x) = IF a \in DOMAIN T THEN T[a] ELSE x
    BY <2>2, ValOne
  <2>7. \A a, x : Val(q5, a, x) = IF a \in DOMAIN E THEN E[a] ELSE x
    BY <2>2, ValOne
  <2>8. \A a, x : Val(q1, a, x) = IF s.size # "none" /\ a \in DOMAIN M THEN M[a] ELSE x
    BY <2>1, <2>3
  <2>9. \A a, x : Val(q3, a, x) = IF s.ua # "none" /\ a \in DOMAIN U THEN U[a] ELSE x
    BY <2>1, <2>4
  <2>10. \A a, x : Val(q4, a, x) = IF s.scheme # "none" /\ a \in DOMAIN C THEN C[a] ELSE x
    BY <2>1, <2>5
  <2>. QED BY <2>6, <2>7, <2>8, <2>9, <2>10
<1>. HIDE DEF q1, q2, q3, q4, q5
<1>7. \A a, x : Val(Emulate(v)!ProfileCalls(s), a, x) =
        Val(q5, a, Val(q4, a, Val(q3, a, Val(q2, a, Val(q1, a, x)))))
      /\ Emulate(v)!ProfileCalls(s) \in Seq(Call)
  BY <1>1, <1>5, FiveParts
<1>8. \A x : /\ Val(Emulate(v)!ProfileCalls(s), "size", x) =
                  IF s.size # "none" THEN s.size ELSE x
             /\ Val(Emulate(v)!ProfileCalls(s), "mobile", x) =
                  IF s.size # "none" THEN s.mobile ELSE x
             /\ Val(Emulate(v)!ProfileCalls(s), "touch", x) = s.touch
  BY <1>4, <1>6, <1>7
<1>9. \A x : /\ Val(Emulate(v)!ProfileCalls(s), "ua", x) =
                  IF s.ua # "none" THEN s.ua ELSE x
             /\ Val(Emulate(v)!ProfileCalls(s), "scheme", x) =
                  IF s.scheme # "none" THEN s.scheme ELSE x
             /\ Val(Emulate(v)!ProfileCalls(s), "safe", x) = s.safe
  BY <1>4, <1>6, <1>7
<1>. QED BY <1>7, <1>8, <1>9 DEF AfterAll, Installed

LEMMA ValTyped ==
    ASSUME NEW q, Len(q) \in Nat, NEW a, NEW T, NEW x \in T,
           \A i \in 1..Len(q) : a \in DOMAIN q[i] => q[i][a] \in T
    PROVE  Val(q, a, x) \in T
<1>1. CASE \E k \in 1..Len(q) : a \in DOMAIN q[k]
  <2>1. PICK i \in 1..Len(q) : a \in DOMAIN q[i]
          /\ \A j \in 1..Len(q) : a \in DOMAIN q[j] => j <= i
    BY <1>1, SettingLast
  <2>. QED BY <2>1, ValLast
<1>2. CASE \A k \in 1..Len(q) : a \notin DOMAIN q[k]
  BY <1>2, ValNone
<1>. QED BY <1>1, <1>2

\* What calls leave is what a page can show.
LEMMA CallTypes ==
    ASSUME NEW c \in Call
    PROVE  /\ "size" \in DOMAIN c => c["size"] \in Sizes
           /\ "mobile" \in DOMAIN c => c["mobile"] \in BOOLEAN
           /\ "touch" \in DOMAIN c => c["touch"] \in BOOLEAN
           /\ "ua" \in DOMAIN c => c["ua"] \in Agents
           /\ "scheme" \in DOMAIN c => c["scheme"] \in Shows
           /\ "safe" \in DOMAIN c => c["safe"] \in Edges
<1>1. CASE c \in [size : Sizes, mobile : BOOLEAN]
  BY <1>1
<1>2. CASE c \in [touch : BOOLEAN]
  BY <1>2
<1>3. CASE c \in [ua : Agents]
  BY <1>3
<1>4. CASE c \in [scheme : Shows]
  BY <1>4
<1>5. CASE c \in [safe : Edges]
  BY <1>5
<1>. QED BY <1>1, <1>2, <1>3, <1>4, <1>5 DEF Call

LEMMA AfterTyped ==
    ASSUME NEW o \in Page, NEW q \in Seq(Call)
    PROVE  AfterAll(o, q) \in Page
<1>1. \A i \in 1..Len(q) : q[i] \in Call
  BY SequenceAt
<1>2. /\ o.size \in Sizes /\ o.mobile \in BOOLEAN /\ o.touch \in BOOLEAN
      /\ o.ua \in Agents /\ o.scheme \in Shows /\ o.safe \in Edges
  BY DEF Page
<1>0. Len(q) \in Nat
  OBVIOUS
<1>3. Val(q, "size", o.size) \in Sizes
  BY <1>0, <1>1, <1>2, CallTypes, ValTyped
<1>4. Val(q, "mobile", o.mobile) \in BOOLEAN
  BY <1>0, <1>1, <1>2, CallTypes, ValTyped
<1>5. Val(q, "touch", o.touch) \in BOOLEAN
  BY <1>0, <1>1, <1>2, CallTypes, ValTyped
<1>6. Val(q, "ua", o.ua) \in Agents
  BY <1>0, <1>1, <1>2, CallTypes, ValTyped
<1>7. Val(q, "scheme", o.scheme) \in Shows
  BY <1>0, <1>1, <1>2, CallTypes, ValTyped
<1>8. Val(q, "safe", o.safe) \in Edges
  BY <1>0, <1>1, <1>2, CallTypes, ValTyped
<1>. QED BY <1>3, <1>4, <1>5, <1>6, <1>7, <1>8 DEF AfterAll, Page

\* The model's way of finding the last call that sets an axis is the same.
LEMMA AfterIsAll ==
    ASSUME NEW v, NEW o, NEW q, NEW n, n = Len(q)
    PROVE  Emulate(v)!After(o, q, n) = AfterAll(o, q)
<1>1. \A a : Emulate(v)!Axis(o, q, n, a) = Val(q, a, o[a])
  BY DEF Emulate!Axis, Emulate!Max, Val, Setting, LastOf
<1>2. /\ Emulate(v)!Axis(o, q, n, "size") = Val(q, "size", o.size)
      /\ Emulate(v)!Axis(o, q, n, "mobile") = Val(q, "mobile", o.mobile)
      /\ Emulate(v)!Axis(o, q, n, "touch") = Val(q, "touch", o.touch)
      /\ Emulate(v)!Axis(o, q, n, "ua") = Val(q, "ua", o.ua)
      /\ Emulate(v)!Axis(o, q, n, "scheme") = Val(q, "scheme", o.scheme)
      /\ Emulate(v)!Axis(o, q, n, "safe") = Val(q, "safe", o.safe)
  BY <1>1
<1>. QED BY <1>2 DEF Emulate!After, AfterAll

\* Unless a call may fail, all of them are made.
LEMMA AllDone ==
    ASSUME NEW v, ~v.failures, NEW q \in Seq(Call)
    PROVE  Emulate(v)!Done(q) = {Len(q)}
<1>1. \A i \in DOMAIN q : q[i] \in Call
  OBVIOUS
<1>2. \A c \in Call : c # [scheme |-> "sepia"]
  <2>1. [scheme |-> "sepia"] \notin Call
    <3>1. "scheme" \in DOMAIN [scheme |-> "sepia"]
          /\ [scheme |-> "sepia"]["scheme"] \notin Shows
      BY DEF Shows
    <3>. QED BY <3>1, CallTypes
  <2>. QED BY <2>1
<1>3. {i \in DOMAIN q : "scheme" \in DOMAIN q[i] /\ q[i] = [scheme |-> "sepia"]} = {}
  BY <1>1, <1>2
<1>. QED BY <1>3 DEF Emulate!Done

\* ResetEmulation.
LEMMA ResetCallsTyped ==
    ASSUME NEW v
    PROVE  /\ Emulate(v)!ResetCalls \in Seq(Call)
           /\ \A i \in 1..Len(Emulate(v)!ResetCalls) :
                "safe" \in DOMAIN Emulate(v)!ResetCalls[i] =>
                   Emulate(v)!ResetCalls[i]["safe"] \in {"none"}
<1>. DEFINE M == [size |-> "none", mobile |-> FALSE]
            T == [touch |-> FALSE]
            C == [scheme |-> "none"]
            E == [safe |-> "none"]
            U == [ua |-> "none"]
<1>1. Emulate(v)!ResetCalls = <<M, T, C, E, U>>
  BY DEF Emulate!ResetCalls, Emulate!Metrics, Emulate!Touch, Emulate!UserAgent,
     Emulate!ColorScheme, Emulate!SafeArea, Emulate!None, Emulate!Blank
<1>2. M \in Call /\ T \in Call /\ U \in Call /\ C \in Call /\ E \in Call
  BY DEF Call, Sizes, Agents, Shows, Edges
<1>3. /\ "safe" \notin DOMAIN M /\ "safe" \notin DOMAIN T /\ "safe" \notin DOMAIN U
      /\ "safe" \notin DOMAIN C /\ E["safe"] = "none"
  OBVIOUS
<1>. HIDE DEF M, T, U, C, E
<1>. QED BY <1>1, <1>2, <1>3

\* The record of a call to emulate.
Given(v) ==
    [device : v.devices, size : v.sizes, mobile : v.mobiles, touch : v.touches,
     ua : v.uas, scheme : v.schemes, safe : v.safes]

\* The preset and the axes given.
LEMMA PresetIsProfile ==
    ASSUME NEW v, NEW s \in Profile, NEW a \in Given(v),
           Emulate(v)!McpEmulationAssumption
    PROVE  /\ Emulate(v)!OfPreset(s, a) \in Profile
           /\ s.ua # "none" => Emulate(v)!OfPreset(s, a).ua # "none"
           /\ s.safe = "none" => Emulate(v)!OfPreset(s, a).safe = "none"
<1>. DEFINE d == Emulate(v)!FromDevice(a.device)
<1>0. a.device \in {"none", "phone", "desktop"}
  BY DEF Given, Emulate!McpEmulationAssumption, Emulate!None
<1>1. CASE a.device = "none"
  BY <1>1 DEF Emulate!OfPreset, Emulate!None
<1>2. CASE a.device # "none"
  <2>1. d \in Profile /\ d.safe = "none"
    <3>1. CASE a.device = "phone"
      <4>1. d = [dev |-> "phone", size |-> "small", mobile |-> TRUE,
                 touch |-> TRUE, ua |-> "of phone", scheme |-> "none",
                 safe |-> "none"]
        BY <3>1 DEF Emulate!FromDevice, Emulate!None
      <4>. HIDE DEF d
      <4>. QED BY <4>1 DEF Profile, Sizes, Agents, Shows, Edges
    <3>2. CASE a.device = "desktop"
      <4>1. d = [dev |-> "desktop", size |-> "large", mobile |-> FALSE,
                 touch |-> FALSE, ua |-> "none", scheme |-> "none",
                 safe |-> "none"]
        BY <3>2 DEF Emulate!FromDevice, Emulate!None
      <4>. HIDE DEF d
      <4>. QED BY <4>1 DEF Profile, Sizes, Agents, Shows, Edges
    <3>. QED BY <1>0, <1>2, <3>1, <3>2
  <2>2. s.ua \in Agents /\ s.scheme \in Shows
    BY DEF Profile
  <2>. HIDE DEF d
  <2>3. Emulate(v)!OfPreset(s, a) =
          [d EXCEPT !.ua = IF d.ua = "none" THEN s.ua ELSE d.ua, !.scheme = s.scheme]
    BY <1>2 DEF Emulate!OfPreset, Emulate!None, d
  <2>4. (IF d.ua = "none" THEN s.ua ELSE d.ua) \in Agents
    BY <2>1, <2>2 DEF Profile
  <2>. QED BY <2>1, <2>2, <2>3, <2>4 DEF Profile
<1>. QED BY <1>1, <1>2

LEMMA OverriddenIsProfile ==
    ASSUME NEW v, NEW s \in Profile, NEW a \in Given(v),
           Emulate(v)!McpEmulationAssumption, "sepia" \notin v.schemes
    PROVE  /\ Emulate(v)!Overridden(s, a) \in Profile
           /\ s.ua # "none" => Emulate(v)!Overridden(s, a).ua # "none"
           /\ s.safe = "none" /\ a.safe # "inset" =>
                Emulate(v)!Overridden(s, a).safe = "none"
<1>. DEFINE size == IF a.size = "none" THEN s.size ELSE a.size
            mobile == IF a.mobile = "none" THEN s.mobile ELSE a.mobile = "yes"
            touch == IF a.touch = "none" THEN s.touch ELSE a.touch = "yes"
            ua == IF a.ua = "none" THEN s.ua ELSE a.ua
            scheme == IF a.scheme = "none" THEN s.scheme ELSE a.scheme
            safe == CASE a.safe = "none" -> s.safe [] a.safe = "zero" -> "none"
                      [] OTHER -> a.safe
<1>1. /\ a.size \in Sizes /\ a.ua \in Agents /\ a.scheme \in Shows
      /\ a.safe \in Edges \union {"zero"}
  BY DEF Given, Emulate!McpEmulationAssumption, Emulate!None, Sizes, Agents,
     Shows, Edges
<1>2. /\ s.size \in Sizes /\ s.mobile \in BOOLEAN /\ s.touch \in BOOLEAN
      /\ s.ua \in Agents /\ s.scheme \in Shows /\ s.safe \in Edges
  BY DEF Profile
<1>3. size \in Sizes /\ ua \in Agents /\ scheme \in Shows /\ safe \in Edges
  BY <1>1, <1>2 DEF Edges
<1>4. mobile \in BOOLEAN /\ touch \in BOOLEAN
  <2>1. (a.mobile = "yes") \in BOOLEAN /\ (a.touch = "yes") \in BOOLEAN
    BY Zenon
  <2>2. CASE a.mobile = "none"
    BY <1>2, <2>1, <2>2
  <2>3. CASE a.mobile # "none"
    BY <1>2, <2>1, <2>3
  <2>. QED BY <1>2, <2>1, <2>2, <2>3
<1>5. /\ s.ua # "none" => ua # "none"
      /\ s.safe = "none" /\ a.safe # "inset" => safe = "none"
  BY <1>1 DEF Edges
<1>6. Emulate(v)!Overridden(s, a) =
        [s EXCEPT !.size = size, !.mobile = mobile, !.touch = touch, !.ua = ua,
                  !.scheme = scheme, !.safe = safe]
  BY DEF Emulate!Overridden, Emulate!None
<1>. HIDE DEF size, mobile, touch, ua, scheme, safe
<1>7. [s EXCEPT !.size = size, !.mobile = mobile, !.touch = touch, !.ua = ua,
                !.scheme = scheme, !.safe = safe] \in Profile
  BY <1>3, <1>4 DEF Profile
<1>8. /\ Emulate(v)!Overridden(s, a).ua = ua /\ Emulate(v)!Overridden(s, a).safe = safe
  BY <1>6 DEF Profile
<1>. QED BY <1>5, <1>6, <1>7, <1>8

LEMMA WantedIsProfile ==
    ASSUME NEW v, emulation \in Profile, NEW a \in Given(v),
           Emulate(v)!McpEmulationAssumption, "sepia" \notin v.schemes
    PROVE  /\ Emulate(v)!Wanted(a) \in Profile
           /\ emulation.ua # "none" => Emulate(v)!Wanted(a).ua # "none"
           /\ emulation.safe = "none" /\ a.safe # "inset" =>
                Emulate(v)!Wanted(a).safe = "none"
<1>. DEFINE p == Emulate(v)!OfPreset(emulation, a)
            s == Emulate(v)!Overridden(p, a)
<1>1. /\ p \in Profile
      /\ emulation.ua # "none" => p.ua # "none"
      /\ emulation.safe = "none" => p.safe = "none"
  BY PresetIsProfile
<1>. HIDE DEF p
<1>2. /\ s \in Profile
      /\ p.ua # "none" => s.ua # "none"
      /\ p.safe = "none" /\ a.safe # "inset" => s.safe = "none"
  BY <1>1, OverriddenIsProfile
<1>. HIDE DEF s
<1>3. Emulate(v)!Wanted(a) \in {s, [s EXCEPT !.dev = "none"]}
  BY DEF Emulate!Wanted, Emulate!None, s, p
<1>4. [s EXCEPT !.dev = "none"] \in Profile
  BY <1>2 DEF Profile
<1>5. [s EXCEPT !.dev = "none"].ua = s.ua
  BY <1>2 DEF Profile
<1>6. [s EXCEPT !.dev = "none"].safe = s.safe
  BY <1>2 DEF Profile
<1>. QED BY <1>1, <1>2, <1>3, <1>4, <1>5, <1>6

\* The overrides of every tab and the profile of the server, which the bound
\* page shows. With the swipe tool alone no inset is ever asked for.
Lasts == {"nothing", "emulation", "no inset", "reset", "swipe"}
EmuShape(v) ==
    /\ emulation \in Profile /\ over \in [v.tabs -> Page]
    /\ open \subseteq v.tabs /\ page \in open /\ last \in Lasts
NoInsets(v) ==
    v.swipes => emulation.safe = "none" /\ \A t \in v.tabs : over[t].safe = "none"
EmuInv(v) == EmuShape(v) /\ NoInsets(v) /\ Emulate(v)!InForce

\* No call to Chrome fails, and swipes are not used where insets are asked for:
\* a swipe makes a profile of the touch flag alone, and a tab turned to may
\* have kept an inset since before a reset.
Quiet(v) ==
    /\ Emulate(v)!McpEmulationAssumption /\ ~v.failures
    /\ "sepia" \notin v.schemes /\ (v.swipes => "inset" \notin v.safes)

\* A page that the profile was installed on shows it.
Shown(o, s) ==
    (s.size # "none" \/ s.touch \/ s.ua # "none" \/ s.scheme # "none"
     \/ s.safe # "none") =>
       /\ s.size # "none" => o.size = s.size /\ o.mobile = s.mobile
       /\ o.touch = s.touch
       /\ s.ua # "none" => o.ua = s.ua
       /\ s.scheme # "none" => o.scheme = s.scheme
       /\ o.safe = s.safe

LEMMA InForceMeans ==
    ASSUME NEW v
    PROVE  Emulate(v)!InForce <=> Shown(over[page], emulation)
BY DEF Emulate!InForce, Emulate!Empty, Emulate!None, Shown

LEMMA InstalledShows ==
    ASSUME NEW o \in Page, NEW s \in Profile
    PROVE  /\ Shown(Installed(o, s), s) /\ Installed(o, s).safe = s.safe
           /\ Installed(o, s) \in Page
<1>1. /\ o.size \in Sizes /\ o.mobile \in BOOLEAN /\ o.touch \in BOOLEAN
      /\ o.ua \in Agents /\ o.scheme \in Shows /\ o.safe \in Edges
  BY DEF Page
<1>2. /\ s.size \in Sizes /\ s.mobile \in BOOLEAN /\ s.touch \in BOOLEAN
      /\ s.ua \in Agents /\ s.scheme \in Shows /\ s.safe \in Edges
  BY DEF Profile
<1>3. Installed(o, s) \in Page
  BY <1>1, <1>2 DEF Installed, Page
<1>4. Shown(Installed(o, s), s) /\ Installed(o, s).safe = s.safe
  BY DEF Shown, Installed
<1>. QED BY <1>3, <1>4

LEMMA EmuInit ==
    ASSUME NEW v, Quiet(v), Emulate(v)!Init
    PROVE  EmuInv(v)
<1>. DEFINE B == [size |-> "none", mobile |-> FALSE, touch |-> FALSE, ua |-> "none",
                  scheme |-> "none", safe |-> "none"]
            N == [dev |-> "none", size |-> "none", mobile |-> FALSE,
                  touch |-> FALSE, ua |-> "none", scheme |-> "none",
                  safe |-> "none"]
<1>1. /\ emulation = N /\ over = [t \in v.tabs |-> B] /\ page \in v.tabs
      /\ open = {page} /\ last = "nothing"
  BY DEF Emulate!Init, Emulate!NoProfile, Emulate!Blank, Emulate!None
<1>2. /\ B \in Page /\ N \in Profile /\ B.safe = "none" /\ N.safe = "none"
      /\ Shown(B, N)
  BY DEF Page, Profile, Sizes, Agents, Shows, Edges, Shown
<1>. HIDE DEF B, N
<1>3. EmuShape(v)
  BY <1>1, <1>2 DEF EmuShape, Lasts
<1>4. NoInsets(v)
  BY <1>1, <1>2 DEF NoInsets
<1>5. over[page] = B
  BY <1>1
<1>6. Emulate(v)!InForce
  BY <1>1, <1>2, <1>5, InForceMeans
<1>. QED BY <1>3, <1>4, <1>6 DEF EmuInv

\* A tab is bound: the profile, if there is one, is replayed on it.
LEMMA BindKeeps ==
    ASSUME NEW v, Quiet(v), EmuInv(v), NEW t \in v.tabs, NEW o \in Page,
           v.swipes => o.safe = "none", Emulate(v)!Bind(t, o),
           open' \subseteq v.tabs, t \in open'
    PROVE  EmuInv(v)'
<1>. DEFINE q == Emulate(v)!ProfileCalls(emulation)
<1>1. PICK r \in Emulate(v)!Replayed(o) :
        /\ page' = t /\ over' = [over EXCEPT ![t] = r]
        /\ UNCHANGED <<emulation, last>>
  BY DEF Emulate!Bind
<1>2. emulation \in Profile /\ over \in [v.tabs -> Page]
  BY DEF EmuInv, EmuShape
<1>3. /\ r \in Page /\ Shown(r, emulation) /\ (v.swipes => r.safe = "none")
  <2>1. CASE Emulate(v)!Empty(emulation)
    <3>1. r = o
      BY <2>1 DEF Emulate!Replayed
    <3>2. Shown(o, emulation)
      BY <2>1 DEF Shown, Emulate!Empty, Emulate!None
    <3>. QED BY <3>1, <3>2
  <2>2. CASE ~Emulate(v)!Empty(emulation)
    <3>1. q \in Seq(Call) /\ AfterAll(o, q) = Installed(o, emulation)
      BY <1>2, ProfileCallsInstall
    <3>2. PICK n \in Emulate(v)!Done(q) : r = Emulate(v)!After(o, q, n)
      BY <2>2 DEF Emulate!Replayed
    <3>3. n = Len(q)
      BY <3>1, <3>2, AllDone DEF Quiet
    <3>4. r = Installed(o, emulation)
      BY <3>1, <3>2, <3>3, AfterIsAll
    <3>. QED BY <1>2, <3>4, InstalledShows DEF EmuInv, NoInsets
  <2>. QED BY <2>1, <2>2
<1>4. over' \in [v.tabs -> Page] /\ over'[t] = r
      /\ \A u \in v.tabs : u # t => over'[u] = over[u]
  BY <1>1, <1>2, <1>3
<1>5. EmuShape(v)'
  BY <1>1, <1>4 DEF EmuInv, EmuShape
<1>6. NoInsets(v)'
  BY <1>1, <1>3, <1>4 DEF EmuInv, NoInsets
<1>7. Shown(over'[page'], emulation')
  BY <1>1, <1>3, <1>4
<1>8. Emulate(v)!InForce'
  BY <1>7 DEF Emulate!InForce, Emulate!Empty, Emulate!None, Shown
<1>. QED BY <1>5, <1>6, <1>8 DEF EmuInv

LEMMA EmuKeeps ==
    ASSUME NEW v, Quiet(v), EmuInv(v), [Emulate(v)!Next]_(Emulate(v)!vars)
    PROVE  EmuInv(v)'
<1>0. /\ emulation \in Profile /\ over \in [v.tabs -> Page] /\ page \in v.tabs
      /\ open \subseteq v.tabs /\ page \in open /\ last \in Lasts
      /\ over[page] \in Page /\ Emulate(v)!McpEmulationAssumption
  BY DEF EmuInv, EmuShape, Quiet
\* A call has made its overrides on the bound page.
<1>1. ASSUME NEW r \in Page, NEW s \in Profile, Shown(r, s),
             over' = [over EXCEPT ![page] = r], emulation' = s,
             last' \in Lasts, UNCHANGED <<open, page>>,
             v.swipes => r.safe = "none" /\ s.safe = "none"
      PROVE  EmuInv(v)'
  <2>1. over' \in [v.tabs -> Page] /\ over'[page'] = r
        /\ \A u \in v.tabs : u # page => over'[u] = over[u]
    BY <1>0, <1>1
  <2>2. EmuShape(v)'
    BY <1>0, <1>1, <2>1 DEF EmuShape
  <2>3. NoInsets(v)'
    BY <1>0, <1>1, <2>1 DEF EmuInv, NoInsets
  <2>4. Shown(over'[page'], emulation')
    BY <1>1, <2>1
  <2>5. Emulate(v)!InForce'
    BY <2>4 DEF Emulate!InForce, Emulate!Empty, Emulate!None, Shown
  <2>. QED BY <2>2, <2>3, <2>5 DEF EmuInv
<1>2. CASE Emulate(v)!Emulate
  <2>1. PICK a \in Emulate(v)!Asks :
          /\ last' = Emulate(v)!Asked(a)
          /\ \/ Emulate(v)!Empty(Emulate(v)!Wanted(a)) /\ UNCHANGED <<emulation, over>>
             \/ \E n \in Emulate(v)!Done(Emulate(v)!ProfileCalls(Emulate(v)!Wanted(a))) :
                  /\ over' = [over EXCEPT ![page] = Emulate(v)!After(@,
                                Emulate(v)!ProfileCalls(Emulate(v)!Wanted(a)), n)]
                  /\ emulation' =
                       IF n = Len(Emulate(v)!ProfileCalls(Emulate(v)!Wanted(a)))
                       THEN Emulate(v)!Wanted(a) ELSE emulation
          /\ UNCHANGED <<open, page>>
    BY <1>2 DEF Emulate!Emulate
  <2>. DEFINE s == Emulate(v)!Wanted(a)
              q == Emulate(v)!ProfileCalls(s)
  <2>2. last' \in Lasts
    BY <2>1 DEF Emulate!Asked, Lasts
  <2>3. CASE UNCHANGED <<emulation, over>>
    BY <1>0, <2>1, <2>2, <2>3 DEF EmuInv, EmuShape, NoInsets, Emulate!InForce,
       Emulate!Empty
  <2>4. CASE \E n \in Emulate(v)!Done(q) :
               /\ over' = [over EXCEPT ![page] = Emulate(v)!After(@, q, n)]
               /\ emulation' = IF n = Len(q) THEN s ELSE emulation
    <3>1. a \in Given(v)
      BY DEF Emulate!Asks, Given
    <3>2. /\ s \in Profile
          /\ emulation.safe = "none" /\ a.safe # "inset" => s.safe = "none"
      BY <1>0, <3>1, WantedIsProfile DEF Quiet
    <3>. HIDE DEF s
    <3>3. q \in Seq(Call) /\ AfterAll(over[page], q) = Installed(over[page], s)
      BY <1>0, <3>2, ProfileCallsInstall
    <3>. HIDE DEF q
    <3>4. /\ over' = [over EXCEPT ![page] = Emulate(v)!After(over[page], q, Len(q))]
          /\ emulation' = s
      BY <2>4, <3>3, AllDone DEF Quiet
    <3>5. over' = [over EXCEPT ![page] = Installed(over[page], s)]
      BY <3>3, <3>4, AfterIsAll
    <3>6. v.swipes => s.safe = "none"
      BY <3>1, <3>2 DEF EmuInv, NoInsets, Quiet, Given
    <3>7. /\ Shown(Installed(over[page], s), s)
          /\ Installed(over[page], s).safe = s.safe
          /\ Installed(over[page], s) \in Page
      BY <1>0, <3>2, InstalledShows
    <3>. QED BY <1>1, <2>1, <2>2, <3>2, <3>4, <3>5, <3>6, <3>7
  <2>. QED BY <2>1, <2>3, <2>4
<1>3. CASE Emulate(v)!Reset
  <2>. DEFINE q == Emulate(v)!ResetCalls
              N == [dev |-> "none", size |-> "none", mobile |-> FALSE,
                    touch |-> FALSE, ua |-> "none", scheme |-> "none",
                    safe |-> "none"]
  <2>1. q \in Seq(Call)
    BY ResetCallsTyped
  <2>2. PICK n \in Emulate(v)!Done(q) :
          /\ over' = [over EXCEPT ![page] = Emulate(v)!After(@, q, n)]
          /\ IF n = Len(q) THEN emulation' = N /\ last' = "reset"
             ELSE last' = "nothing" /\ UNCHANGED emulation
    BY <1>3 DEF Emulate!Reset, Emulate!NoProfile, Emulate!None
  <2>3. n = Len(q) /\ UNCHANGED <<open, page>>
    BY <1>3, <2>1, <2>2, AllDone DEF Quiet, Emulate!Reset
  <2>4. /\ over' = [over EXCEPT ![page] = AfterAll(over[page], q)]
        /\ emulation' = N /\ last' = "reset"
    BY <2>2, <2>3, AfterIsAll
  <2>5. AfterAll(over[page], q) \in Page
    BY <1>0, <2>1, AfterTyped
  <2>6. v.swipes => AfterAll(over[page], q).safe = "none"
    <3>1. ASSUME v.swipes PROVE Val(q, "safe", over[page].safe) \in {"none"}
      <4>1. over[page].safe \in {"none"} /\ Len(q) \in Nat
        BY <1>0, <2>1, <3>1 DEF EmuInv, NoInsets
      <4>. QED BY <4>1, ResetCallsTyped, ValTyped
    <3>. QED BY <3>1 DEF AfterAll
  <2>. HIDE DEF q
  <2>7. N \in Profile /\ N.safe = "none" /\ Shown(AfterAll(over[page], q), N)
    BY DEF Profile, Sizes, Agents, Shows, Edges, Shown
  <2>. HIDE DEF N
  <2>. QED BY <1>1, <2>3, <2>4, <2>5, <2>6, <2>7 DEF Lasts
<1>4. CASE Emulate(v)!Swipe
  <2>. DEFINE r == [over[page] EXCEPT !.touch = TRUE]
              s == [emulation EXCEPT !.touch = TRUE]
  <2>1. /\ v.swipes /\ over' = [over EXCEPT ![page] = r] /\ emulation' = s
        /\ last' = "swipe" /\ UNCHANGED <<open, page>>
    BY <1>4 DEF Emulate!Swipe
  <2>2. r \in Page /\ s \in Profile
    BY <1>0 DEF Page, Profile
  <2>3. /\ r.size = over[page].size /\ r.mobile = over[page].mobile
        /\ r.ua = over[page].ua /\ r.scheme = over[page].scheme
        /\ r.safe = over[page].safe /\ r.touch = TRUE
    BY <1>0 DEF Page
  <2>4. /\ s.size = emulation.size /\ s.mobile = emulation.mobile
        /\ s.ua = emulation.ua /\ s.scheme = emulation.scheme
        /\ s.safe = emulation.safe /\ s.touch = TRUE
    BY <1>0 DEF Profile
  <2>5. over[page].safe = "none" /\ emulation.safe = "none"
    BY <1>0, <2>1 DEF EmuInv, NoInsets
  <2>. HIDE DEF r, s
  <2>6. Shown(over[page], emulation)
    BY InForceMeans DEF EmuInv
  <2>7. Shown(r, s)
    BY <2>3, <2>4, <2>5, <2>6 DEF Shown
  <2>. QED BY <1>1, <2>1, <2>2, <2>3, <2>4, <2>5, <2>7 DEF Lasts
<1>5. CASE Emulate(v)!SwitchTab \/ Emulate(v)!CloseTab
  <2>1. PICK t \in open \ {page} :
          /\ Emulate(v)!Bind(t, over[t]) /\ open' \in {open, open \ {page}}
    BY <1>5 DEF Emulate!SwitchTab, Emulate!CloseTab
  <2>2. t \in v.tabs /\ over[t] \in Page /\ (v.swipes => over[t].safe = "none")
        /\ open' \subseteq v.tabs /\ t \in open'
    BY <1>0, <2>1 DEF EmuInv, NoInsets
  <2>. QED BY <2>1, <2>2, BindKeeps
<1>6. CASE Emulate(v)!NewTab \/ Emulate(v)!Relaunch
  <2>1. PICK t \in v.tabs :
          /\ Emulate(v)!Bind(t, Emulate(v)!Blank)
          /\ open' \in {open \union {t}, {t}}
    BY <1>6 DEF Emulate!NewTab, Emulate!Relaunch
  <2>2. Emulate(v)!Blank \in Page /\ Emulate(v)!Blank.safe = "none"
    BY DEF Emulate!Blank, Emulate!None, Page, Sizes, Agents, Shows, Edges
  <2>3. open' \subseteq v.tabs /\ t \in open'
    BY <1>0, <2>1
  <2>. QED BY <2>1, <2>2, <2>3, BindKeeps
<1>7. CASE UNCHANGED Emulate(v)!vars
  BY <1>7 DEF Emulate!vars, EmuInv, EmuShape, NoInsets, Emulate!InForce, Emulate!Empty
<1>. QED BY <1>2, <1>3, <1>4, <1>5, <1>6, <1>7 DEF Emulate!Next

LEMMA EmuInvMeans ==
    ASSUME NEW v, EmuInv(v)
    PROVE  Emulate(v)!TypeOK /\ Emulate(v)!InForce
<1>1. Emulate(v)!TypeOK
  BY DEF EmuInv, EmuShape, Lasts, Page, Profile, Sizes, Agents, Shows, Edges,
     Emulate!TypeOK, Emulate!Profiles, Emulate!Overrides, Emulate!None
<1>. QED BY <1>1 DEF EmuInv

LEMMA EmuInvHolds ==
    ASSUME NEW v, Quiet(v)
    PROVE  Emulate(v)!Spec => []EmuInv(v)
<1>1. Emulate(v)!Init => EmuInv(v)
  BY EmuInit
<1>2. EmuInv(v) /\ [Emulate(v)!Next]_(Emulate(v)!vars) => EmuInv(v)'
  BY EmuKeeps
<1>. QED BY <1>1, <1>2, PTL DEF Emulate!Spec

\* While Chrome takes every call, the page that is bound shows the profile that
\* the server holds, whatever tabs were opened, closed and turned to and
\* whatever each of them was left with (handleEmulate, replayEmulationLocked).
THEOREM ProfileIsInForce ==
    ASSUME NEW v, Quiet(v)
    PROVE  Emulate(v)!Spec => [](Emulate(v)!TypeOK /\ Emulate(v)!InForce)
<1>1. EmuInv(v) => Emulate(v)!TypeOK /\ Emulate(v)!InForce
  BY EmuInvMeans
<1>. QED BY <1>1, EmuInvHolds, PTL

\* Only a reset takes a User-Agent away (handleEmulate).
LEMMA EmuStepKeepsUserAgent ==
    ASSUME NEW v, Quiet(v), EmuInv(v), [Emulate(v)!Next]_(Emulate(v)!vars)
    PROVE  Emulate(v)!KeepsUserAgent
<1>0. emulation \in Profile /\ Emulate(v)!McpEmulationAssumption
  BY DEF EmuInv, EmuShape, Quiet
<1>1. CASE Emulate(v)!Emulate
  <2>1. PICK a \in Emulate(v)!Asks : emulation' \in {emulation, Emulate(v)!Wanted(a)}
    BY <1>1 DEF Emulate!Emulate
  <2>2. a \in Given(v)
    BY DEF Emulate!Asks, Given
  <2>3. emulation.ua # "none" => Emulate(v)!Wanted(a).ua # "none"
    BY <1>0, <2>2, WantedIsProfile DEF Quiet
  <2>. QED BY <2>1, <2>3 DEF Emulate!KeepsUserAgent, Emulate!None
<1>2. CASE Emulate(v)!Reset
  BY <1>2 DEF Emulate!Reset, Emulate!KeepsUserAgent
<1>3. CASE Emulate(v)!Swipe
  <2>1. emulation' = [emulation EXCEPT !.touch = TRUE]
    BY <1>3 DEF Emulate!Swipe
  <2>2. emulation'.ua = emulation.ua
    BY <1>0, <2>1 DEF Profile
  <2>. QED BY <2>2 DEF Emulate!KeepsUserAgent
<1>4. CASE Emulate(v)!SwitchTab \/ Emulate(v)!NewTab \/ Emulate(v)!CloseTab
           \/ Emulate(v)!Relaunch \/ UNCHANGED Emulate(v)!vars
  BY <1>4 DEF Emulate!SwitchTab, Emulate!NewTab, Emulate!CloseTab,
     Emulate!Relaunch, Emulate!Bind, Emulate!vars, Emulate!KeepsUserAgent
<1>. QED BY <1>1, <1>2, <1>3, <1>4 DEF Emulate!Next

----------------------------------------------------------------------------
\* What a page o shows of a profile that the next command replays on it: a
\* replay only adds.
Replays(o, s) ==
    [size |-> IF s.size # "none" THEN s.size ELSE o.size,
     mobile |-> IF s.size # "none" THEN s.mobile ELSE o.mobile,
     touch |-> IF s.touch THEN TRUE ELSE o.touch,
     ua |-> IF s.ua # "none" THEN s.ua ELSE o.ua,
     scheme |-> IF s.scheme # "none" THEN s.scheme ELSE o.scheme,
     safe |-> IF s.safe # "none" THEN s.safe ELSE o.safe]

\* ApplyEmulationState.
LEMMA ReplayCallsAdd ==
    ASSUME NEW v, NEW s \in Profile, NEW o \in Page
    PROVE  /\ CliEmulate(v)!ReplayCalls(s) \in Seq(Call)
           /\ AfterAll(o, CliEmulate(v)!ReplayCalls(s)) = Replays(o, s)
<1>. DEFINE M == [size |-> s.size, mobile |-> s.mobile]
            T == [touch |-> TRUE]
            U == [ua |-> s.ua]
            C == [scheme |-> s.scheme]
            E == [safe |-> s.safe]
            q1 == IF s.size # "none" THEN <<M>> ELSE << >>
            q2 == IF s.touch THEN <<T>> ELSE << >>
            q3 == IF s.ua # "none" THEN <<U>> ELSE << >>
            q4 == IF s.scheme # "none" THEN <<C>> ELSE << >>
            q5 == IF s.safe # "none" THEN <<E>> ELSE << >>
<1>1. CliEmulate(v)!ReplayCalls(s) = q1 \o q2 \o q3 \o q4 \o q5
  BY DEF CliEmulate!ReplayCalls, CliEmulate!If, CliEmulate!Metrics,
     CliEmulate!Touch, CliEmulate!UserAgent, CliEmulate!ColorScheme,
     CliEmulate!SafeArea, CliEmulate!None
<1>2. /\ s.size \in Sizes /\ s.mobile \in BOOLEAN /\ s.touch \in BOOLEAN
      /\ s.ua \in Agents /\ s.scheme \in Shows /\ s.safe \in Edges
  BY DEF Profile
<1>3. M \in Call /\ T \in Call /\ U \in Call /\ C \in Call /\ E \in Call
  BY <1>2 DEF Call
<1>4. /\ DOMAIN M = {"size", "mobile"} /\ DOMAIN T = {"touch"} /\ DOMAIN U = {"ua"}
      /\ DOMAIN C = {"scheme"} /\ DOMAIN E = {"safe"}
      /\ M["size"] = s.size /\ M["mobile"] = s.mobile /\ T["touch"] = TRUE
      /\ U["ua"] = s.ua /\ C["scheme"] = s.scheme /\ E["safe"] = s.safe
  OBVIOUS
<1>. HIDE DEF M, T, U, C, E
<1>5. q1 \in Seq(Call) /\ q2 \in Seq(Call) /\ q3 \in Seq(Call)
      /\ q4 \in Seq(Call) /\ q5 \in Seq(Call)
  BY <1>3
<1>6. /\ \A a, x : Val(q1, a, x) = IF s.size # "none" /\ a \in DOMAIN M THEN M[a] ELSE x
      /\ \A a, x : Val(q2, a, x) = IF s.touch /\ a \in DOMAIN T THEN T[a] ELSE x
      /\ \A a, x : Val(q3, a, x) = IF s.ua # "none" /\ a \in DOMAIN U THEN U[a] ELSE x
      /\ \A a, x : Val(q4, a, x) = IF s.scheme # "none" /\ a \in DOMAIN C THEN C[a] ELSE x
      /\ \A a, x : Val(q5, a, x) = IF s.safe # "none" /\ a \in DOMAIN E THEN E[a] ELSE x
  <2>1. /\ q1 \in {<<M>>, << >>} /\ (q1 # << >> <=> s.size # "none")
        /\ q2 \in {<<T>>, << >>} /\ (q2 # << >> <=> s.touch)
        /\ q3 \in {<<U>>, << >>} /\ (q3 # << >> <=> s.ua # "none")
        /\ q4 \in {<<C>>, << >>} /\ (q4 # << >> <=> s.scheme # "none")
        /\ q5 \in {<<E>>, << >>} /\ (q5 # << >> <=> s.safe # "none")
    OBVIOUS
  <2>. HIDE DEF q1, q2, q3, q4, q5
  <2>2. \A a, x : Val(q1, a, x) = IF q1 # << >> /\ a \in DOMAIN M THEN M[a] ELSE x
    BY <2>1, ValGiven
  <2>3. \A a, x : Val(q2, a, x) = IF q2 # << >> /\ a \in DOMAIN T THEN T[a] ELSE x
    BY <2>1, ValGiven
  <2>4. \A a, x : Val(q3, a, x) = IF q3 # << >> /\ a \in DOMAIN U THEN U[a] ELSE x
    BY <2>1, ValGiven
  <2>5. \A a, x : Val(q4, a, x) = IF q4 # << >> /\ a \in DOMAIN C THEN C[a] ELSE x
    BY <2>1, ValGiven
  <2>6. \A a, x : Val(q5, a, x) = IF q5 # << >> /\ a \in DOMAIN E THEN E[a] ELSE x
    BY <2>1, ValGiven
  <2>7. \A a, x : Val(q1, a, x) = IF s.size # "none" /\ a \in DOMAIN M THEN M[a] ELSE x
    BY <2>1, <2>2
  <2>8. \A a, x : Val(q2, a, x) = IF s.touch /\ a \in DOMAIN T THEN T[a] ELSE x
    BY <2>1, <2>3
  <2>9. \A a, x : Val(q3, a, x) = IF s.ua # "none" /\ a \in DOMAIN U THEN U[a] ELSE x
    BY <2>1, <2>4
  <2>10. \A a, x : Val(q4, a, x) = IF s.scheme # "none" /\ a \in DOMAIN C THEN C[a] ELSE x
    BY <2>1, <2>5
  <2>11. \A a, x : Val(q5, a, x) = IF s.safe # "none" /\ a \in DOMAIN E THEN E[a] ELSE x
    BY <2>1, <2>6
  <2>. QED BY <2>7, <2>8, <2>9, <2>10, <2>11
<1>. HIDE DEF q1, q2, q3, q4, q5
<1>7. \A a, x : Val(CliEmulate(v)!ReplayCalls(s), a, x) =
        Val(q5, a, Val(q4, a, Val(q3, a, Val(q2, a, Val(q1, a, x)))))
      /\ CliEmulate(v)!ReplayCalls(s) \in Seq(Call)
  BY <1>1, <1>5, FiveParts
<1>8. \A x : /\ Val(CliEmulate(v)!ReplayCalls(s), "size", x) =
                  IF s.size # "none" THEN s.size ELSE x
             /\ Val(CliEmulate(v)!ReplayCalls(s), "mobile", x) =
                  IF s.size # "none" THEN s.mobile ELSE x
  BY <1>4, <1>6, <1>7
<1>10. \A x : Val(CliEmulate(v)!ReplayCalls(s), "touch", x) =
                  IF s.touch THEN TRUE ELSE x
  <2>1. \A x : /\ Val(q1, "touch", x) = x /\ Val(q3, "touch", x) = x
               /\ Val(q4, "touch", x) = x /\ Val(q5, "touch", x) = x
    BY <1>4, <1>6
  <2>2. \A x : Val(q2, "touch", x) = IF s.touch THEN T["touch"] ELSE x
    BY <1>4, <1>6
  <2>3. \A x : Val(CliEmulate(v)!ReplayCalls(s), "touch", x) =
                 IF s.touch THEN T["touch"] ELSE x
    BY <1>7, <2>1, <2>2
  <2>4. T["touch"] = TRUE
    BY <1>4
  <2>. QED BY <2>3, <2>4, Zenon
<1>9. \A x : /\ Val(CliEmulate(v)!ReplayCalls(s), "ua", x) =
                  IF s.ua # "none" THEN s.ua ELSE x
             /\ Val(CliEmulate(v)!ReplayCalls(s), "scheme", x) =
                  IF s.scheme # "none" THEN s.scheme ELSE x
             /\ Val(CliEmulate(v)!ReplayCalls(s), "safe", x) =
                  IF s.safe # "none" THEN s.safe ELSE x
  BY <1>4, <1>6, <1>7
<1>. QED BY <1>7, <1>8, <1>9, <1>10 DEF AfterAll, Replays

\* After is AfterAll here too, of all calls and of the next one.
LEMMA CliAfterIsAll ==
    ASSUME NEW v, NEW o, NEW q, NEW n, n = Len(q)
    PROVE  CliEmulate(v)!After(o, q, n) = AfterAll(o, q)
<1>1. \A a : CliEmulate(v)!Axis(o, q, n, a) = Val(q, a, o[a])
  BY DEF CliEmulate!Axis, CliEmulate!Max, Val, Setting, LastOf
<1>2. /\ CliEmulate(v)!Axis(o, q, n, "size") = Val(q, "size", o.size)
      /\ CliEmulate(v)!Axis(o, q, n, "mobile") = Val(q, "mobile", o.mobile)
      /\ CliEmulate(v)!Axis(o, q, n, "touch") = Val(q, "touch", o.touch)
      /\ CliEmulate(v)!Axis(o, q, n, "ua") = Val(q, "ua", o.ua)
      /\ CliEmulate(v)!Axis(o, q, n, "scheme") = Val(q, "scheme", o.scheme)
      /\ CliEmulate(v)!Axis(o, q, n, "safe") = Val(q, "safe", o.safe)
  BY <1>1
<1>. QED BY <1>2 DEF CliEmulate!After, AfterAll

\* One call and then the rest leave what all of them leave.
LEMMA OneCallLess ==
    ASSUME NEW v, NEW o, NEW q \in Seq(Call), q # << >>
    PROVE  /\ AfterAll(CliEmulate(v)!After(o, q, 1), Tail(q)) = AfterAll(o, q)
           /\ CliEmulate(v)!After(o, q, 1) = AfterAll(o, <<q[1]>>)
           /\ <<q[1]>> \in Seq(Call) /\ Tail(q) \in Seq(Call)
<1>1. /\ q = <<q[1]>> \o Tail(q) /\ <<q[1]>> \in Seq(Call) /\ Tail(q) \in Seq(Call)
      /\ <<q[1]>>[1] = q[1] /\ Len(<<q[1]>>) = 1
  OBVIOUS
<1>2. \A a : CliEmulate(v)!Axis(o, q, 1, a) = Val(<<q[1]>>, a, o[a])
  <2>1. ASSUME NEW a PROVE CliEmulate(v)!Axis(o, q, 1, a) = Val(<<q[1]>>, a, o[a])
    <3>1. CASE a \in DOMAIN q[1]
      <4>1. {i \in 1..1 : a \in DOMAIN q[i]} = {1}
        BY <3>1
      <4>2. CliEmulate(v)!Max({1}) = 1
        BY DEF CliEmulate!Max
      <4>. QED BY <3>1, <4>1, <4>2, ValOne DEF CliEmulate!Axis
    <3>2. CASE a \notin DOMAIN q[1]
      <4>1. {i \in 1..1 : a \in DOMAIN q[i]} = {}
        BY <3>2
      <4>. QED BY <3>2, <4>1, ValOne DEF CliEmulate!Axis
    <3>. QED BY <3>1, <3>2
  <2>. QED BY <2>1
<1>3. CliEmulate(v)!After(o, q, 1) = AfterAll(o, <<q[1]>>)
  <2>1. /\ CliEmulate(v)!Axis(o, q, 1, "size") = Val(<<q[1]>>, "size", o.size)
        /\ CliEmulate(v)!Axis(o, q, 1, "mobile") = Val(<<q[1]>>, "mobile", o.mobile)
        /\ CliEmulate(v)!Axis(o, q, 1, "touch") = Val(<<q[1]>>, "touch", o.touch)
        /\ CliEmulate(v)!Axis(o, q, 1, "ua") = Val(<<q[1]>>, "ua", o.ua)
        /\ CliEmulate(v)!Axis(o, q, 1, "scheme") = Val(<<q[1]>>, "scheme", o.scheme)
        /\ CliEmulate(v)!Axis(o, q, 1, "safe") = Val(<<q[1]>>, "safe", o.safe)
    BY <1>2
  <2>. QED BY <2>1 DEF CliEmulate!After, AfterAll
<1>4. \A a, x : Val(q, a, x) = Val(Tail(q), a, Val(<<q[1]>>, a, x))
  <2>. DEFINE h == <<q[1]>>
              t == Tail(q)
  <2>1. q = h \o t /\ h \in Seq(Call) /\ t \in Seq(Call)
    BY <1>1
  <2>. HIDE DEF h, t
  <2>2. \A a, x : Val(h \o t, a, x) = Val(t, a, Val(h, a, x))
    BY <2>1, ValConcat
  <2>. QED BY <2>1, <2>2 DEF h, t
<1>5. AfterAll(AfterAll(o, <<q[1]>>), Tail(q)) = AfterAll(o, q)
  BY <1>4 DEF AfterAll
<1>. QED BY <1>1, <1>3, <1>5

\* What a page that was just opened shows of the profile in the state file.
Sticks(s) ==
    [size |-> s.size, mobile |-> IF s.size # "none" THEN s.mobile ELSE FALSE,
     touch |-> s.touch, ua |-> s.ua, scheme |-> s.scheme, safe |-> s.safe]
Plainest ==
    [size |-> "none", mobile |-> FALSE, touch |-> FALSE, ua |-> "none",
     scheme |-> "none", safe |-> "none"]

LEMMA ReplaySticks ==
    ASSUME NEW s \in Profile
    PROVE  /\ Replays(Plainest, s) = Sticks(s) /\ Sticks(s) \in Page
           /\ Plainest \in Page
<1>1. /\ s.size \in Sizes /\ s.mobile \in BOOLEAN /\ s.touch \in BOOLEAN
      /\ s.ua \in Agents /\ s.scheme \in Shows /\ s.safe \in Edges
  BY DEF Profile
<1>2. Sticks(s) \in Page /\ Plainest \in Page
  BY <1>1 DEF Sticks, Plainest, Page, Sizes, Agents, Shows, Edges
<1>3. (IF s.touch THEN TRUE ELSE Plainest.touch) = s.touch
  <2>1. CASE s.touch = TRUE
    BY <2>1
  <2>2. CASE s.touch = FALSE
    BY <2>2 DEF Plainest
  <2>. QED BY <1>1, <2>1, <2>2
<1>4. /\ (IF s.size # "none" THEN s.size ELSE Plainest.size) = s.size
      /\ (IF s.ua # "none" THEN s.ua ELSE Plainest.ua) = s.ua
      /\ (IF s.scheme # "none" THEN s.scheme ELSE Plainest.scheme) = s.scheme
      /\ (IF s.safe # "none" THEN s.safe ELSE Plainest.safe) = s.safe
      /\ Plainest.mobile = FALSE
  BY DEF Plainest
<1>5. Replays(Plainest, s) = Sticks(s)
  BY <1>3, <1>4 DEF Replays, Sticks
<1>. QED BY <1>2, <1>5

\* The commands of a user who does not use open, which does not know the
\* profile, nor the safe area.
CliPlain(v) ==
    /\ CliEmulate(v)!CliEmulationAssumption
    /\ "open" \notin v.commands /\ v.safes = {"none"}
Verbs == {"emulate", "viewport", "reset", "batch", "look"}
Order(v) ==
    [op : Verbs, device : {"none", "phone", "desktop"}, ua : {"none", "custom"},
     scheme : Shows, safe : {"none"}]

\* The presets.
LEMMA Presets ==
    ASSUME NEW v, NEW d \in {"phone", "desktop"}
    PROVE  /\ CliEmulate(v)!FromDevice(d) \in Profile
           /\ CliEmulate(v)!FromDevice(d).size # "none"
           /\ CliEmulate(v)!FromDevice(d).safe = "none"
<1>1. CASE d = "phone"
  <2>. DEFINE p == [dev |-> "phone", size |-> "small", mobile |-> TRUE,
                    touch |-> TRUE, ua |-> "of phone", scheme |-> "none",
                    safe |-> "none"]
  <2>1. CliEmulate(v)!FromDevice(d) = p
    BY <1>1 DEF CliEmulate!FromDevice, CliEmulate!None
  <2>2. p \in Profile /\ p.size # "none" /\ p.safe = "none"
    BY DEF Profile, Sizes, Agents, Shows, Edges
  <2>. QED BY <2>1, <2>2
<1>2. CASE d = "desktop"
  <2>. DEFINE p == [dev |-> "desktop", size |-> "large", mobile |-> FALSE,
                    touch |-> FALSE, ua |-> "none", scheme |-> "none",
                    safe |-> "none"]
  <2>1. CliEmulate(v)!FromDevice(d) = p
    BY <1>2 DEF CliEmulate!FromDevice, CliEmulate!None
  <2>2. p \in Profile /\ p.size # "none" /\ p.safe = "none"
    BY DEF Profile, Sizes, Agents, Shows, Edges
  <2>. QED BY <2>1, <2>2
<1>. QED BY <1>1, <1>2

LEMMA TwoCalls ==
    ASSUME NEW S, NEW c \in S, NEW d \in S
    PROVE  /\ <<c, d>> \in Seq(S) /\ Len(<<c, d>>) = 2
           /\ \A a, x : Val(<<c, d>>, a, x) = Val(<<d>>, a, Val(<<c>>, a, x))
<1>. DEFINE q == <<c, d>>
<1>1. q \in Seq(S) /\ Len(q) = 2 /\ q[1] = c /\ q[2] = d
  OBVIOUS
<1>. HIDE DEF q
<1>2. ASSUME NEW a, NEW x PROVE Val(q, a, x) = Val(<<d>>, a, Val(<<c>>, a, x))
  <2>1. /\ \A y : Val(<<d>>, a, y) = IF a \in DOMAIN d THEN d[a] ELSE y
        /\ \A y : Val(<<c>>, a, y) = IF a \in DOMAIN c THEN c[a] ELSE y
    BY ValOne
  <2>2. CASE a \in DOMAIN d
    <3>1. Val(q, a, x) = q[2][a]
      BY <1>1, <2>2, ValLast
    <3>. QED BY <1>1, <2>1, <2>2, <3>1
  <2>3. CASE a \notin DOMAIN d /\ a \in DOMAIN c
    <3>1. Val(q, a, x) = q[1][a]
      BY <1>1, <2>3, ValLast
    <3>. QED BY <1>1, <2>1, <2>3, <3>1
  <2>4. CASE a \notin DOMAIN d /\ a \notin DOMAIN c
    <3>1. Val(q, a, x) = x
      BY <1>1, <2>4, ValNone
    <3>. QED BY <2>1, <2>4, <3>1
  <2>. QED BY <2>2, <2>3, <2>4
<1>. QED BY <1>1, <1>2 DEF q

LEMMA LengthOfBoth ==
    ASSUME NEW S, NEW q \in Seq(S), NEW r \in Seq(S)
    PROVE  /\ q \o r \in Seq(S) /\ Len(q \o r) = Len(q) + Len(r)
           /\ Len(q) \in Nat /\ Len(r) \in Nat
OBVIOUS

\* ApplyDevice.
LEMMA DeviceCallsSet ==
    ASSUME NEW v, NEW d \in {"phone", "desktop"}
    PROVE  LET q == CliEmulate(v)!DeviceCalls(d)
               s == CliEmulate(v)!FromDevice(d)
           IN  /\ q \in Seq(Call) /\ Len(q) <= 3
               /\ \A x : /\ Val(q, "size", x) = s.size
                         /\ Val(q, "mobile", x) = s.mobile
                         /\ Val(q, "touch", x) = s.touch
                         /\ Val(q, "ua", x) = IF s.ua # "none" THEN s.ua ELSE x
                         /\ Val(q, "scheme", x) = x /\ Val(q, "safe", x) = x
<1>. DEFINE s == CliEmulate(v)!FromDevice(d)
            q == CliEmulate(v)!DeviceCalls(d)
            M == [size |-> s.size, mobile |-> s.mobile]
            T == [touch |-> s.touch]
            U == [ua |-> s.ua]
            q1 == <<M, T>>
            q2 == IF s.ua # "none" THEN <<U>> ELSE << >>
<1>1. q = q1 \o q2
  BY DEF CliEmulate!DeviceCalls, CliEmulate!If, CliEmulate!Metrics,
     CliEmulate!Touch, CliEmulate!UserAgent, CliEmulate!None
<1>2. s \in Profile
  BY Presets
<1>. HIDE DEF s, q
<1>3. M \in Call /\ T \in Call /\ U \in Call
  BY <1>2 DEF Call, Profile
<1>4. /\ DOMAIN M = {"size", "mobile"} /\ DOMAIN T = {"touch"} /\ DOMAIN U = {"ua"}
      /\ M["size"] = s.size /\ M["mobile"] = s.mobile /\ T["touch"] = s.touch
      /\ U["ua"] = s.ua
  OBVIOUS
<1>. HIDE DEF M, T, U
<1>5. q1 \in Seq(Call) /\ Len(q1) = 2
  BY <1>3, TwoCalls
<1>6. /\ q2 \in {<<U>>, << >>} /\ (q2 # << >> <=> s.ua # "none")
      /\ q2 \in Seq(Call) /\ Len(q2) \in {0, 1}
  BY <1>3
<1>7. \A a, x : Val(q1, a, x) = Val(<<T>>, a, Val(<<M>>, a, x))
  BY <1>3, TwoCalls
<1>. HIDE DEF q1, q2
<1>8. /\ \A a, x : Val(<<M>>, a, x) = IF a \in DOMAIN M THEN M[a] ELSE x
      /\ \A a, x : Val(<<T>>, a, x) = IF a \in DOMAIN T THEN T[a] ELSE x
  BY ValOne
<1>9. \A a, x : Val(q2, a, x) = IF q2 # << >> /\ a \in DOMAIN U THEN U[a] ELSE x
  BY <1>6, ValGiven
<1>10. \A a, x : Val(q, a, x) = Val(q2, a, Val(q1, a, x))
  BY <1>1, <1>5, <1>6, ValConcat
<1>11. q \in Seq(Call) /\ Len(q) <= 3
  <2>1. q1 \o q2 \in Seq(Call) /\ Len(q1 \o q2) = Len(q1) + Len(q2)
    BY <1>5, <1>6, LengthOfBoth
  <2>2. Len(q1) + Len(q2) <= 3
    BY <1>5, <1>6
  <2>. QED BY <1>1, <2>1, <2>2
<1>12. \A x : /\ Val(q, "size", x) = s.size /\ Val(q, "mobile", x) = s.mobile
              /\ Val(q, "touch", x) = s.touch
  BY <1>4, <1>7, <1>8, <1>9, <1>10
<1>13. \A x : /\ Val(q, "ua", x) = IF s.ua # "none" THEN s.ua ELSE x
              /\ Val(q, "scheme", x) = x /\ Val(q, "safe", x) = x
  BY <1>4, <1>6, <1>7, <1>8, <1>9, <1>10
<1>. QED BY <1>11, <1>12, <1>13 DEF q, s

\* The flags of emulate, on a page that shows the profile s.
EmulatedPage(v, c, p) ==
    LET d == CliEmulate(v)!FromDevice(c.device)
        on == c.device # "none"
    IN  [size |-> IF on THEN d.size ELSE p.size,
         mobile |-> IF on THEN d.mobile ELSE p.mobile,
         touch |-> IF on THEN d.touch ELSE p.touch,
         ua |-> IF c.ua # "none" THEN c.ua
                ELSE IF on /\ d.ua # "none" THEN d.ua ELSE p.ua,
         scheme |-> IF c.scheme # "none" THEN c.scheme ELSE p.scheme,
         safe |-> p.safe]

LEMMA EmulateCallsSet ==
    ASSUME NEW v, NEW c \in Order(v), NEW p \in Page
    PROVE  /\ CliEmulate(v)!EmulateCalls(c) \in Seq(Call)
           /\ Len(CliEmulate(v)!EmulateCalls(c)) <= 6
           /\ AfterAll(p, CliEmulate(v)!EmulateCalls(c)) = EmulatedPage(v, c, p)
<1>. DEFINE D == CliEmulate(v)!DeviceCalls(c.device)
            d == CliEmulate(v)!FromDevice(c.device)
            U == [ua |-> c.ua]
            C == [scheme |-> c.scheme]
            q == CliEmulate(v)!EmulateCalls(c)
            q1 == IF c.device = "none" THEN << >> ELSE D
            q2 == IF c.ua # "none" THEN <<U>> ELSE << >>
            q3 == IF c.scheme # "none" THEN <<C>> ELSE << >>
            q4 == << >>
<1>0. /\ c.device \in {"none", "phone", "desktop"} /\ c.ua \in Agents
      /\ c.scheme \in Shows /\ c.safe = "none"
  BY DEF Order, Agents
<1>1. q = q1 \o q2 \o q3 \o q4
  BY <1>0 DEF CliEmulate!EmulateCalls, CliEmulate!If, CliEmulate!UserAgent,
     CliEmulate!ColorScheme, CliEmulate!None
<1>2. U \in Call /\ C \in Call
  BY <1>0 DEF Call
<1>3. /\ DOMAIN U = {"ua"} /\ DOMAIN C = {"scheme"}
      /\ U["ua"] = c.ua /\ C["scheme"] = c.scheme
  OBVIOUS
<1>. HIDE DEF q, U, C
<1>4. /\ q2 \in {<<U>>, << >>} /\ (q2 # << >> <=> c.ua # "none")
      /\ q3 \in {<<C>>, << >>} /\ (q3 # << >> <=> c.scheme # "none")
      /\ q2 \in Seq(Call) /\ q3 \in Seq(Call) /\ q4 \in Seq(Call)
      /\ Len(q2) \in Nat /\ Len(q2) <= 1 /\ Len(q3) \in Nat
      /\ Len(q3) <= 1 /\ Len(q4) = 0
  BY <1>2
<1>5. c.device # "none" =>
        /\ D \in Seq(Call) /\ Len(D) <= 3 /\ Len(D) \in Nat
        /\ \A x : /\ Val(D, "size", x) = d.size /\ Val(D, "mobile", x) = d.mobile
                  /\ Val(D, "touch", x) = d.touch
                  /\ Val(D, "ua", x) = IF d.ua # "none" THEN d.ua ELSE x
                  /\ Val(D, "scheme", x) = x /\ Val(D, "safe", x) = x
  BY <1>0, DeviceCallsSet
<1>. HIDE DEF D, d
<1>6. q1 \in Seq(Call) /\ Len(q1) <= 3 /\ Len(q1) \in Nat
  BY <1>5
<1>7. \A x :
        /\ Val(q1, "size", x) = IF c.device # "none" THEN d.size ELSE x
        /\ Val(q1, "mobile", x) = IF c.device # "none" THEN d.mobile ELSE x
        /\ Val(q1, "touch", x) = IF c.device # "none" THEN d.touch ELSE x
        /\ Val(q1, "ua", x) =
             IF c.device # "none" /\ d.ua # "none" THEN d.ua ELSE x
        /\ Val(q1, "scheme", x) = x /\ Val(q1, "safe", x) = x
  <2>1. CASE c.device = "none"
    <3>1. q1 = << >>
      BY <2>1
    <3>. HIDE DEF q1
    <3>. QED BY <2>1, <3>1, ValNothing
  <2>2. CASE c.device # "none"
    <3>1. q1 = D
      BY <2>2
    <3>. HIDE DEF q1
    <3>. QED BY <1>5, <2>2, <3>1
  <2>. QED BY <2>1, <2>2
<1>8. \A a, x : Val(q4, a, x) = x
  BY ValNothing
<1>. HIDE DEF q1, q2, q3, q4
<1>15. /\ q1 \in Seq(Call) /\ q2 \in Seq(Call) /\ q3 \in Seq(Call)
       /\ q4 \in Seq(Call) /\ Len(q1) \in Nat /\ Len(q1) <= 3
       /\ Len(q4) = 0
  BY <1>4, <1>6
<1>16. /\ Len(q2) \in Nat /\ Len(q2) <= 1
       /\ Len(q3) \in Nat /\ Len(q3) <= 1
  BY <1>4
<1>9. /\ \A a, x : Val(q2, a, x) = IF q2 # << >> /\ a \in DOMAIN U THEN U[a] ELSE x
      /\ \A a, x : Val(q3, a, x) = IF q3 # << >> /\ a \in DOMAIN C THEN C[a] ELSE x
  BY <1>4, ValGiven
<1>10. /\ q \in Seq(Call)
       /\ \A a, x : Val(q, a, x) =
            Val(q4, a, Val(q3, a, Val(q2, a, Val(q1, a, x))))
  <2>1. /\ q1 \o q2 \o q3 \o q4 \in Seq(Call)
        /\ \A a, x : Val(q1 \o q2 \o q3 \o q4, a, x) =
             Val(q4, a, Val(q3, a, Val(q2, a, Val(q1, a, x))))
    <3>1. q1 \in Seq(Call)
      BY <1>15
    <3>2. q2 \in Seq(Call) /\ q3 \in Seq(Call) /\ q4 \in Seq(Call)
      BY <1>15
    <3>. QED BY <3>1, <3>2, FourParts
  <2>. QED BY <1>1, <2>1
<1>11. Len(q) <= 6
  <2>. DEFINE r2 == q1 \o q2
              r3 == r2 \o q3
  <2>1. r2 \in Seq(Call) /\ Len(r2) = Len(q1) + Len(q2)
    BY <1>4, <1>6, LengthOfBoth
  <2>. HIDE DEF r2
  <2>2. r3 \in Seq(Call) /\ Len(r3) = Len(r2) + Len(q3)
    BY <1>4, <2>1, LengthOfBoth
  <2>. HIDE DEF r3
  <2>3. Len(r3 \o q4) = Len(r3) + Len(q4)
    BY <1>4, <2>2, LengthOfBoth
  <2>4. Len(r3 \o q4) <= 6
    <3>1. Len(r3 \o q4) = ((Len(q1) + Len(q2)) + Len(q3)) + Len(q4)
      BY <2>1, <2>2, <2>3
    <3>2. \A i, j, k, l \in Nat : i <= 3 /\ j <= 1 /\ k <= 1 /\ l = 0 =>
             ((i + j) + k) + l <= 6
      OBVIOUS
    <3>3. Len(q1) \in Nat /\ Len(q1) <= 3
      BY <1>15
    <3>4. Len(q4) \in Nat /\ Len(q4) = 0
      BY <1>15
    <3>. QED BY <3>1, <3>2, <1>16, <3>3, <3>4
  <2>. QED BY <1>1, <2>4 DEF r3, r2
<1>12. \A x : /\ Val(q, "size", x) = Val(q1, "size", x)
              /\ Val(q, "mobile", x) = Val(q1, "mobile", x)
              /\ Val(q, "touch", x) = Val(q1, "touch", x)
              /\ Val(q, "safe", x) = Val(q1, "safe", x)
  BY <1>3, <1>8, <1>9, <1>10
<1>13. \A x : /\ Val(q, "ua", x) = IF c.ua # "none" THEN c.ua ELSE Val(q1, "ua", x)
              /\ Val(q, "scheme", x) = IF c.scheme # "none" THEN c.scheme ELSE x
  BY <1>3, <1>4, <1>7, <1>8, <1>9, <1>10
<1>14. AfterAll(p, q) = EmulatedPage(v, c, p)
  BY <1>7, <1>12, <1>13 DEF AfterAll, EmulatedPage, d
<1>. QED BY <1>10, <1>11, <1>14 DEF q

\* ResetEmulation, whatever the page shows.
LEMMA ResetCallsSet ==
    ASSUME NEW v, NEW p
    PROVE  /\ CliEmulate(v)!ResetCalls \in Seq(Call)
           /\ Len(CliEmulate(v)!ResetCalls) <= 6
           /\ AfterAll(p, CliEmulate(v)!ResetCalls) = Plainest
<1>. DEFINE M == [size |-> "none", mobile |-> FALSE]
            T == [touch |-> FALSE]
            C == [scheme |-> "none"]
            E == [safe |-> "none"]
            U == [ua |-> "none"]
            q == <<M, T, C, E, U>>
<1>1. CliEmulate(v)!ResetCalls = q
  BY DEF CliEmulate!ResetCalls, CliEmulate!Metrics, CliEmulate!Touch,
     CliEmulate!UserAgent, CliEmulate!ColorScheme, CliEmulate!SafeArea,
     CliEmulate!None, CliEmulate!Blank
<1>2. M \in Call /\ T \in Call /\ U \in Call /\ C \in Call /\ E \in Call
  BY DEF Call, Sizes, Agents, Shows, Edges
<1>3. /\ DOMAIN M = {"size", "mobile"} /\ DOMAIN T = {"touch"} /\ DOMAIN U = {"ua"}
      /\ DOMAIN C = {"scheme"} /\ DOMAIN E = {"safe"}
      /\ M["size"] = "none" /\ M["mobile"] = FALSE /\ T["touch"] = FALSE
      /\ U["ua"] = "none" /\ C["scheme"] = "none" /\ E["safe"] = "none"
  OBVIOUS
<1>. HIDE DEF M, T, U, C, E
<1>4. /\ q \in Seq(Call) /\ Len(q) = 5
      /\ q[1] = M /\ q[2] = T /\ q[3] = C /\ q[4] = E /\ q[5] = U
  BY <1>2
<1>. HIDE DEF q
<1>5. \A i \in 1..5 : i = 1 \/ i = 2 \/ i = 3 \/ i = 4 \/ i = 5
  OBVIOUS
<1>6. \A x : Val(q, "size", x) = q[1]["size"] /\ Val(q, "mobile", x) = q[1]["mobile"]
  BY <1>3, <1>4, <1>5, ValLast
<1>7. \A x : Val(q, "touch", x) = q[2]["touch"]
  BY <1>3, <1>4, <1>5, ValLast
<1>8. \A x : Val(q, "scheme", x) = q[3]["scheme"]
  BY <1>3, <1>4, <1>5, ValLast
<1>9. \A x : Val(q, "safe", x) = q[4]["safe"]
  BY <1>3, <1>4, <1>5, ValLast
<1>10. \A x : Val(q, "ua", x) = q[5]["ua"]
  BY <1>3, <1>4, <1>5, ValLast
<1>11. AfterAll(p, q) = Plainest
  BY <1>3, <1>4, <1>6, <1>7, <1>8, <1>9, <1>10 DEF AfterAll, Plainest
<1>. QED BY <1>1, <1>4, <1>11

\* viewport.
LEMMA ViewportCallSets ==
    ASSUME NEW v, NEW d \in {"phone", "desktop"}, NEW p
    PROVE  LET s == CliEmulate(v)!FromDevice(d)
               c == [size |-> s.size, mobile |-> s.mobile]
           IN  /\ <<c>> \in Seq(Call) /\ Len(<<c>>) = 1
               /\ AfterAll(p, <<c>>) =
                    [size |-> s.size, mobile |-> s.mobile, touch |-> p.touch,
                     ua |-> p.ua, scheme |-> p.scheme, safe |-> p.safe]
<1>. DEFINE s == CliEmulate(v)!FromDevice(d)
            c == [size |-> s.size, mobile |-> s.mobile]
<1>1. s \in Profile
  BY Presets
<1>. HIDE DEF s
<1>2. c \in Call
  BY <1>1 DEF Call, Profile
<1>3. DOMAIN c = {"size", "mobile"} /\ c["size"] = s.size /\ c["mobile"] = s.mobile
  OBVIOUS
<1>. HIDE DEF c
<1>4. \A a, x : Val(<<c>>, a, x) = IF a \in DOMAIN c THEN c[a] ELSE x
  BY ValOne
<1>5. /\ \A x : Val(<<c>>, "size", x) = s.size /\ Val(<<c>>, "mobile", x) = s.mobile
      /\ \A x : Val(<<c>>, "touch", x) = x /\ Val(<<c>>, "ua", x) = x
                /\ Val(<<c>>, "scheme", x) = x /\ Val(<<c>>, "safe", x) = x
  BY <1>3, <1>4
<1>6. AfterAll(p, <<c>>) =
        [size |-> s.size, mobile |-> s.mobile, touch |-> p.touch,
         ua |-> p.ua, scheme |-> p.scheme, safe |-> p.safe]
  BY <1>5 DEF AfterAll
<1>7. <<c>> \in Seq(Call) /\ Len(<<c>>) = 1
  BY <1>2
<1>. QED BY <1>6, <1>7 DEF c, s

\* A command finds its page as the state file says, and what its calls that are
\* left make of the page is what the profile it will store says.
NoOrder ==
    [op |-> "none", device |-> "none", ua |-> "none", scheme |-> "none",
     safe |-> "none"]
CliStores == {"emulate", "viewport", "reset"}
CliShape(v) ==
    /\ file \in Profile /\ file.safe = "none"
    /\ next \in Profile /\ next.safe = "none"
    /\ page \in Page /\ seen \in Page
    /\ cmd \in Order(v) \union {NoOrder} /\ cmd.op \in v.commands \union {"none"}
    /\ cmd.op = "viewport" => cmd.device # "none"
    /\ step \in {"none", "opened", "applies"}
    /\ step = "none" <=> cmd = NoOrder
    /\ todo \in Seq(Call) /\ Len(todo) <= 6
Follows ==
    /\ seen = Sticks(file)
    /\ step = "opened" => page = Sticks(file)
    /\ step = "applies" /\ cmd.op \in CliStores =>
          AfterAll(page, todo) = Sticks(next)
CliInv(v) == CliShape(v) /\ Follows

LEMMA NoProfileSticks ==
    ASSUME NEW v
    PROVE  /\ CliEmulate(v)!NoProfile \in Profile
           /\ CliEmulate(v)!NoProfile.safe = "none"
           /\ Sticks(CliEmulate(v)!NoProfile) = Plainest
           /\ CliEmulate(v)!Blank = Plainest /\ Plainest \in Page
<1>. DEFINE N == [dev |-> "none", size |-> "none", mobile |-> FALSE,
                  touch |-> FALSE, ua |-> "none", scheme |-> "none",
                  safe |-> "none"]
<1>1. CliEmulate(v)!NoProfile = N
  BY DEF CliEmulate!NoProfile, CliEmulate!None
<1>2. N \in Profile /\ N.safe = "none" /\ Sticks(N) = Plainest
  BY DEF Profile, Sizes, Agents, Shows, Edges, Sticks, Plainest
<1>. HIDE DEF N
<1>3. CliEmulate(v)!Blank = Plainest
  BY DEF CliEmulate!Blank, CliEmulate!None, Plainest
<1>4. Plainest \in Page
  BY DEF Plainest, Page, Sizes, Agents, Shows, Edges
<1>. QED BY <1>1, <1>2, <1>3, <1>4

LEMMA CliInit ==
    ASSUME NEW v, CliPlain(v), CliEmulate(v)!Init
    PROVE  CliInv(v)
<1>1. /\ file = CliEmulate(v)!NoProfile /\ next = CliEmulate(v)!NoProfile
      /\ page = CliEmulate(v)!Blank /\ seen = CliEmulate(v)!Blank
      /\ cmd = NoOrder /\ step = "none" /\ todo = << >>
  BY DEF CliEmulate!Init, CliEmulate!NoCommand, CliEmulate!None, NoOrder
<1>2. cmd.op = "none"
  BY <1>1 DEF NoOrder
<1>3. todo \in Seq(Call) /\ Len(todo) <= 6
  BY <1>1
<1>4. CliShape(v)
  BY <1>1, <1>2, <1>3, NoProfileSticks DEF CliShape
<1>5. Follows
  BY <1>1, NoProfileSticks DEF Follows
<1>. QED BY <1>4, <1>5 DEF CliInv

\* The profile that emulate stores is what its calls make of a page that shows
\* the stored one.
LEMMA EmulateSticks ==
    ASSUME NEW v, file \in Profile, file.safe = "none", NEW c \in Order(v)
    PROVE  /\ CliEmulate(v)!EmulateProfile(c) \in Profile
           /\ CliEmulate(v)!EmulateProfile(c).safe = "none"
           /\ EmulatedPage(v, c, Sticks(file)) =
                Sticks(CliEmulate(v)!EmulateProfile(c))
<1>. DEFINE d == CliEmulate(v)!FromDevice(c.device)
            o == CliEmulate(v)!OfPreset(c)
            e == CliEmulate(v)!EmulateProfile(c)
            ua == IF c.ua = "none" THEN o.ua ELSE c.ua
            scheme == IF c.scheme = "none" THEN o.scheme ELSE c.scheme
<1>0. /\ c.device \in {"none", "phone", "desktop"} /\ c.ua \in Agents
      /\ c.scheme \in Shows /\ c.safe = "none"
  BY DEF Order, Agents
<1>1. /\ o \in Profile /\ o.safe = "none"
      /\ c.device = "none" => o = file
      /\ c.device # "none" =>
           /\ d \in Profile /\ d.size # "none"
           /\ o.size = d.size /\ o.mobile = d.mobile /\ o.touch = d.touch
           /\ o.ua = (IF d.ua = "none" THEN file.ua ELSE d.ua)
           /\ o.scheme = file.scheme
  <2>1. CASE c.device = "none"
    BY <2>1 DEF CliEmulate!OfPreset, CliEmulate!None
  <2>2. CASE c.device # "none"
    <3>1. d \in Profile /\ d.size # "none" /\ d.safe = "none"
      BY <1>0, <2>2, Presets
    <3>. DEFINE w == IF d.ua = "none" THEN file.ua ELSE d.ua
    <3>2. o = [d EXCEPT !.ua = w, !.scheme = file.scheme]
      BY <2>2 DEF CliEmulate!OfPreset, CliEmulate!None
    <3>. HIDE DEF d, o
    <3>3. w \in Agents /\ file.scheme \in Shows
      BY <3>1 DEF Profile
    <3>. HIDE DEF w
    <3>4. o \in Profile
      BY <3>1, <3>2, <3>3 DEF Profile
    <3>5. /\ o.size = d.size /\ o.mobile = d.mobile /\ o.touch = d.touch
          /\ o.safe = d.safe /\ o.ua = w /\ o.scheme = file.scheme
      BY <3>1, <3>2 DEF Profile
    <3>. QED BY <2>2, <3>1, <3>4, <3>5 DEF w
  <2>. QED BY <2>1, <2>2
<1>2. e = [o EXCEPT !.ua = ua, !.scheme = scheme, !.safe = o.safe]
  BY <1>0 DEF CliEmulate!EmulateProfile, CliEmulate!None
<1>. HIDE DEF o, e, d
<1>3. ua \in Agents /\ scheme \in Shows /\ o.safe \in Edges
  BY <1>0, <1>1 DEF Profile
<1>4. e \in Profile
  <2>. HIDE DEF ua, scheme
  <2>. QED BY <1>1, <1>2, <1>3 DEF Profile
<1>5. /\ e.size = o.size /\ e.mobile = o.mobile /\ e.touch = o.touch
      /\ e.ua = ua /\ e.scheme = scheme /\ e.safe = "none"
  <2>. HIDE DEF ua, scheme
  <2>. QED BY <1>1, <1>2 DEF Profile
<1>6. /\ Sticks(file).size = file.size /\ Sticks(file).touch = file.touch
      /\ Sticks(file).mobile = (IF file.size # "none" THEN file.mobile ELSE FALSE)
      /\ Sticks(file).ua = file.ua /\ Sticks(file).scheme = file.scheme
      /\ Sticks(file).safe = "none"
  BY DEF Sticks
<1>7. EmulatedPage(v, c, Sticks(file)) = Sticks(e)
  <2>1. CASE c.device = "none"
    <3>1. EmulatedPage(v, c, Sticks(file)) =
            [size |-> file.size, mobile |-> Sticks(file).mobile,
             touch |-> file.touch, ua |-> IF c.ua # "none" THEN c.ua ELSE file.ua,
             scheme |-> IF c.scheme # "none" THEN c.scheme ELSE file.scheme,
             safe |-> "none"]
      BY <1>6, <2>1 DEF EmulatedPage
    <3>. QED BY <1>1, <1>5, <1>6, <2>1, <3>1 DEF Sticks
  <2>2. CASE c.device # "none"
    <3>1. EmulatedPage(v, c, Sticks(file)) =
            [size |-> d.size, mobile |-> d.mobile, touch |-> d.touch,
             ua |-> IF c.ua # "none" THEN c.ua
                    ELSE IF d.ua # "none" THEN d.ua ELSE file.ua,
             scheme |-> IF c.scheme # "none" THEN c.scheme ELSE file.scheme,
             safe |-> "none"]
      BY <1>6, <2>2 DEF EmulatedPage, d
    <3>. QED BY <1>1, <1>5, <2>2, <3>1 DEF Sticks
  <2>. QED BY <2>1, <2>2
<1>. QED BY <1>4, <1>5, <1>7 DEF e

\* A command begins: what its calls will make of the page is what it will store.
LEMMA CliStartKeeps ==
    ASSUME NEW v, CliPlain(v), CliInv(v), CliEmulate(v)!Start
    PROVE  CliInv(v)'
<1>1. /\ step = "opened" /\ step' = "applies"
      /\ todo' = CliEmulate(v)!CallsOf(cmd) /\ next' = CliEmulate(v)!ProfileOf(cmd)
      /\ UNCHANGED <<file, page, cmd, seen>>
  BY DEF CliEmulate!Start
<1>2. /\ file \in Profile /\ file.safe = "none" /\ page = Sticks(file)
      /\ page \in Page /\ cmd \in Order(v)
      /\ cmd.op = "viewport" => cmd.device # "none"
  BY <1>1 DEF CliInv, CliShape, Follows
<1>3. cmd.op \in Verbs
  BY <1>2 DEF Order
\* What is to be shown of the calls and the profile of the command.
<1>4. ASSUME todo' \in Seq(Call), Len(todo') <= 6, next' \in Profile,
             next'.safe = "none",
             cmd.op \in CliStores => AfterAll(page, todo') = Sticks(next')
      PROVE  CliInv(v)'
  <2>1. CliShape(v)'
    BY <1>1, <1>4 DEF CliInv, CliShape
  <2>2. Follows'
    BY <1>1, <1>4 DEF CliInv, Follows, AfterAll, Sticks
  <2>. QED BY <2>1, <2>2 DEF CliInv
<1>5. CASE cmd.op \in {"emulate", "batch"}
  <2>1. /\ todo' = CliEmulate(v)!EmulateCalls(cmd)
        /\ next' = IF cmd.op = "emulate" THEN CliEmulate(v)!EmulateProfile(cmd)
                   ELSE file
    BY <1>1, <1>5 DEF CliEmulate!CallsOf, CliEmulate!ProfileOf
  <2>2. /\ todo' \in Seq(Call) /\ Len(todo') <= 6
        /\ AfterAll(page, todo') = EmulatedPage(v, cmd, page)
    BY <1>2, <2>1, EmulateCallsSet
  <2>3. /\ CliEmulate(v)!EmulateProfile(cmd) \in Profile
        /\ CliEmulate(v)!EmulateProfile(cmd).safe = "none"
        /\ EmulatedPage(v, cmd, page) = Sticks(CliEmulate(v)!EmulateProfile(cmd))
    BY <1>2, EmulateSticks
  <2>4. cmd.op \in CliStores => cmd.op = "emulate"
    BY <1>5 DEF CliStores
  <2>. QED BY <1>2, <1>4, <2>1, <2>2, <2>3, <2>4
<1>6. CASE cmd.op = "viewport"
  <2>. DEFINE s == CliEmulate(v)!FromDevice(cmd.device)
              c == [size |-> s.size, mobile |-> s.mobile]
  <2>1. cmd.device \in {"phone", "desktop"}
    BY <1>2, <1>6 DEF Order
  <2>2. s \in Profile /\ s.size # "none"
    BY <2>1, Presets
  <2>3. /\ todo' = <<c>>
        /\ next' = [file EXCEPT !.dev = cmd.device, !.size = s.size,
                                !.mobile = s.mobile]
    BY <1>1, <1>6 DEF CliEmulate!CallsOf, CliEmulate!ProfileOf, CliEmulate!Viewport
  <2>4. /\ todo' \in Seq(Call) /\ Len(todo') = 1
        /\ AfterAll(page, todo') =
             [size |-> s.size, mobile |-> s.mobile, touch |-> page.touch,
              ua |-> page.ua, scheme |-> page.scheme, safe |-> page.safe]
    BY <2>1, <2>3, ViewportCallSets
  <2>. HIDE DEF s
  <2>5. next' \in Profile
    BY <1>2, <2>1, <2>2, <2>3 DEF Profile
  <2>6. /\ next'.size = s.size /\ next'.mobile = s.mobile
        /\ next'.touch = file.touch /\ next'.ua = file.ua
        /\ next'.scheme = file.scheme /\ next'.safe = file.safe
    BY <1>2, <2>3 DEF Profile
  <2>7. /\ page.touch = file.touch /\ page.ua = file.ua
        /\ page.scheme = file.scheme /\ page.safe = file.safe
    BY <1>2 DEF Sticks
  <2>8. AfterAll(page, todo') = Sticks(next')
    BY <2>2, <2>4, <2>6, <2>7 DEF Sticks
  <2>. QED BY <1>2, <1>4, <2>4, <2>5, <2>6, <2>8
<1>7. CASE cmd.op = "reset"
  <2>1. todo' = CliEmulate(v)!ResetCalls /\ next' = CliEmulate(v)!NoProfile
    BY <1>1, <1>7 DEF CliEmulate!CallsOf, CliEmulate!ProfileOf
  <2>. QED BY <1>4, <2>1, ResetCallsSet, NoProfileSticks
<1>8. CASE cmd.op = "look"
  <2>1. todo' = << >> /\ next' = file /\ cmd.op \notin CliStores
    BY <1>1, <1>8 DEF CliEmulate!CallsOf, CliEmulate!ProfileOf, CliStores
  <2>2. todo' \in Seq(Call) /\ Len(todo') <= 6
    BY <2>1
  <2>. QED BY <1>2, <1>4, <2>1, <2>2
<1>. QED BY <1>3, <1>5, <1>6, <1>7, <1>8 DEF Verbs

LEMMA CliKeeps ==
    ASSUME NEW v, CliPlain(v), CliInv(v), [CliEmulate(v)!Next]_(CliEmulate(v)!vars)
    PROVE  CliInv(v)'
<1>0. CliShape(v) /\ Follows /\ file \in Profile /\ page \in Page /\ todo \in Seq(Call)
  BY DEF CliInv, CliShape
\* The command is over; what it stored, if it did, is what its page showed.
<1>1. ASSUME CliEmulate(v)!Exit, file' \in Profile, file'.safe = "none",
             seen' \in Page, seen' = Sticks(file')
      PROVE  CliInv(v)'
  <2>1. /\ cmd' = NoOrder /\ step' = "none" /\ page' = Plainest /\ todo' = << >>
        /\ next' = CliEmulate(v)!NoProfile
    BY <1>1, NoProfileSticks DEF CliEmulate!Exit, CliEmulate!NoCommand,
       CliEmulate!None, NoOrder
  <2>2. cmd'.op = "none" /\ todo' \in Seq(Call) /\ Len(todo') <= 6
    BY <2>1 DEF NoOrder
  <2>3. CliShape(v)'
    BY <1>1, <2>1, <2>2, NoProfileSticks DEF CliShape
  <2>4. Follows'
    BY <1>1, <2>1 DEF Follows, Sticks
  <2>. QED BY <2>3, <2>4 DEF CliInv
<1>2. CASE CliEmulate(v)!Open
  <2>. DEFINE q == CliEmulate(v)!ReplayCalls(file)
  <2>1. PICK c \in CliEmulate(v)!Asks : cmd' = c
    BY <1>2 DEF CliEmulate!Open
  <2>2. /\ step = "none" /\ step' = "opened"
        /\ page' = CliEmulate(v)!After(Plainest, q, Len(q))
        /\ UNCHANGED <<file, todo, next, seen>>
    BY <1>2, NoProfileSticks DEF CliEmulate!Open
  <2>3. page' = Sticks(file) /\ page' \in Page
    BY <1>0, <2>2, CliAfterIsAll, ReplayCallsAdd, ReplaySticks
  <2>4. c.op \in v.commands /\ c \in Order(v)
        /\ (c.op = "viewport" => c.device # "none")
    <3>1. c \in [op : v.commands, device : {"none", "phone", "desktop"},
                 ua : {"none", "custom"}, scheme : {"none", "dark"}, safe : v.safes]
      BY DEF CliEmulate!Asks, CliEmulate!None
    <3>2. v.commands \subseteq Verbs /\ v.safes = {"none"}
      BY DEF CliPlain, CliEmulate!CliEmulationAssumption, CliEmulate!AllCommands, Verbs
    <3>3. c.op = "viewport" => c.device # "none"
      BY DEF CliEmulate!Asks, CliEmulate!None
    <3>. QED BY <3>1, <3>2, <3>3 DEF Order, Shows
  <2>5. c # NoOrder
    BY <2>4 DEF Order, Verbs, NoOrder
  <2>6. CliShape(v)'
    BY <1>0, <2>1, <2>2, <2>3, <2>4, <2>5 DEF CliShape
  <2>7. Follows'
    BY <1>0, <2>2, <2>3 DEF Follows, Sticks
  <2>. QED BY <2>6, <2>7 DEF CliInv
<1>3. CASE CliEmulate(v)!Apply
  <2>1. /\ step = "applies" /\ todo # << >>
        /\ page' = CliEmulate(v)!After(page, todo, 1) /\ todo' = Tail(todo)
        /\ UNCHANGED <<file, cmd, step, next, seen>>
    BY <1>3 DEF CliEmulate!Apply
  <2>2. /\ AfterAll(page', todo') = AfterAll(page, todo)
        /\ page' = AfterAll(page, <<todo[1]>>) /\ <<todo[1]>> \in Seq(Call)
        /\ todo' \in Seq(Call)
    BY <1>0, <2>1, OneCallLess
  <2>3. page' \in Page
    BY <1>0, <2>2, AfterTyped
  <2>4. Len(todo') <= 6
    <3>1. Len(todo') = Len(todo) - 1 /\ Len(todo) \in Nat
      BY <1>0, <2>1
    <3>. QED BY <1>0, <3>1 DEF CliShape
  <2>5. CliShape(v)'
    BY <1>0, <2>1, <2>2, <2>3, <2>4 DEF CliShape
  <2>6. AfterAll(page, todo)' = AfterAll(page', todo')
    BY DEF AfterAll
  <2>7. Sticks(next)' = Sticks(next) /\ Sticks(file)' = Sticks(file)
    BY <2>1 DEF Sticks
  <2>8. Follows'
    BY <1>0, <2>1, <2>2, <2>6, <2>7 DEF Follows
  <2>. QED BY <2>5, <2>8 DEF CliInv
<1>4. CASE CliEmulate(v)!Save
  <2>1. /\ step = "applies" /\ todo = << >>
        /\ cmd.op \in {"emulate", "viewport", "open", "reset"}
        /\ file' = next /\ seen' = page /\ CliEmulate(v)!Exit
    BY <1>4 DEF CliEmulate!Save, CliEmulate!Stores
  <2>2. cmd.op \in CliStores
    <3>1. cmd.op # "open"
      BY <1>0 DEF CliPlain, CliShape
    <3>. QED BY <2>1, <3>1 DEF CliStores
  <2>3. AfterAll(page, todo) = Sticks(next)
    BY <1>0, <2>1, <2>2 DEF Follows
  <2>4. AfterAll(page, << >>) = page
    <3>1. \A a, x : Val(<< >>, a, x) = x
      BY ValNothing
    <3>. QED BY <1>0, <3>1 DEF AfterAll, Page
  <2>5. Sticks(file)' = Sticks(next)
    BY <2>1 DEF Sticks
  <2>6. next \in Profile /\ next.safe = "none"
    BY <1>0 DEF CliShape
  <2>. QED BY <1>0, <1>1, <2>1, <2>3, <2>4, <2>5, <2>6 DEF Sticks
<1>5. CASE CliEmulate(v)!End \/ CliEmulate(v)!Fail
  <2>1. CliEmulate(v)!Exit /\ UNCHANGED <<file, seen>>
    BY <1>5 DEF CliEmulate!End, CliEmulate!Fail
  <2>2. file.safe = "none" /\ seen \in Page /\ seen = Sticks(file)
    BY <1>0 DEF CliShape, Follows
  <2>. QED BY <1>0, <1>1, <2>1, <2>2 DEF Sticks
<1>6. CASE UNCHANGED CliEmulate(v)!vars
  <2>1. UNCHANGED <<file, page, cmd, step, todo, next, seen>>
    BY <1>6 DEF CliEmulate!vars
  <2>2. CliShape(v)'
    BY <1>0, <2>1 DEF CliShape
  <2>3. Follows'
    BY <1>0, <2>1 DEF Follows, Sticks, AfterAll
  <2>. QED BY <2>2, <2>3 DEF CliInv
<1>. QED BY <1>2, <1>3, <1>4, <1>5, <1>6, CliStartKeeps DEF CliEmulate!Next

LEMMA CliInvMeans ==
    ASSUME NEW v, CliInv(v)
    PROVE  CliEmulate(v)!TypeOK /\ CliEmulate(v)!Sticky
<1>1. CliEmulate(v)!TypeOK
  <2>1. /\ file \in CliEmulate(v)!Profiles /\ next \in CliEmulate(v)!Profiles
        /\ page \in CliEmulate(v)!Overrides /\ seen \in CliEmulate(v)!Overrides
    BY DEF CliInv, CliShape, Page, Profile, Sizes, Agents, Shows, Edges,
       CliEmulate!Profiles, CliEmulate!Overrides, CliEmulate!None
  <2>2. (step = "none") = (cmd = CliEmulate(v)!NoCommand)
    <3>1. step = "none" <=> cmd = CliEmulate(v)!NoCommand
      BY DEF CliInv, CliShape, NoOrder, CliEmulate!NoCommand, CliEmulate!None
    <3>. QED BY <3>1, Zenon
  <2>3. step \in {"none", "opened", "applies"} /\ Len(todo) <= 6
    BY DEF CliInv, CliShape
  <2>. QED BY <2>1, <2>2, <2>3 DEF CliEmulate!TypeOK
<1>2. CliEmulate(v)!Sticky
  BY DEF CliInv, Follows, CliEmulate!Sticky
<1>. QED BY <1>1, <1>2

LEMMA CliInvHolds ==
    ASSUME NEW v, CliPlain(v)
    PROVE  CliEmulate(v)!Spec => []CliInv(v)
<1>1. CliEmulate(v)!Init => CliInv(v)
  BY CliInit
<1>2. CliInv(v) /\ [CliEmulate(v)!Next]_(CliEmulate(v)!vars) => CliInv(v)'
  BY CliKeeps
<1>. QED BY <1>1, <1>2, PTL DEF CliEmulate!Spec

\* A command finds its page as the last one that changed the emulation showed
\* it, whatever commands failed or ran between (emulate, viewport, batch;
\* maybeApplyProfile).
THEOREM EmulationIsSticky ==
    ASSUME NEW v, CliPlain(v)
    PROVE  CliEmulate(v)!Spec => [](CliEmulate(v)!TypeOK /\ CliEmulate(v)!Sticky)
<1>1. CliInv(v) => CliEmulate(v)!TypeOK /\ CliEmulate(v)!Sticky
  BY CliInvMeans
<1>. QED BY <1>1, CliInvHolds, PTL
----------------------------------------------------------------------------
\* The five instances of the run, each with its own invariant.
EmulationInv ==
    /\ part = "emulation" => EmuInv(Emulates)
    /\ part = "swipes" => EmuInv(Swipes)
    /\ part = "cliEmulation" => CliInv(CliEmulates)
    /\ part = "insets" => InsetInv(Insets)
    /\ part = "recorder" => RecInv(Records)
EmulationParts == {"emulation", "swipes", "cliEmulation", "insets", "recorder"}

\* What the proofs ask of an instance is so of these.
LEMMA EmulationInstances ==
    /\ Quiet(Emulates) /\ Quiet(Swipes) /\ CliPlain(CliEmulates)
    /\ Inset(Insets)!SafeAreaAssumption /\ Insets.does \subseteq {"adds"}
    /\ Record(Records)!RecorderAssumption
<1>1. /\ Emulates.failures = FALSE /\ Emulates.swipes = FALSE
      /\ Emulates.schemes = {"none", "dark"}
  BY DEF Emulates
<1>2. /\ Swipes.failures = FALSE /\ Swipes.safes = {"none"}
      /\ Swipes.schemes = {"none"}
  BY DEF Swipes, Emulates
<1>3. /\ CliEmulates.safes = {"none"}
      /\ CliEmulates.commands = {"emulate", "viewport", "reset", "batch", "look"}
  BY DEF CliEmulates
<1>4. Insets.does = {"adds"}
  BY DEF Insets
<1>. QED BY PageAssumption, <1>1, <1>2, <1>3, <1>4 DEF PageAssumption, Quiet, CliPlain

LEMMA EmulationKeeps == EmulationInv /\ [Next]_vars => EmulationInv'
<1>. SUFFICES ASSUME EmulationInv, [Next]_vars PROVE EmulationInv'
  OBVIOUS
<1>. USE EmulationInstances
<1>1. ASSUME NEW v, Quiet(v), EmuInv(v), UNCHANGED vars \/ Emulate(v)!Next
      PROVE  EmuInv(v)'
  <2>1. [Emulate(v)!Next]_(Emulate(v)!vars)
    BY <1>1 DEF vars, Emulate!vars
  <2>. QED BY <1>1, <2>1, EmuKeeps
<1>2. ASSUME NEW v, CliPlain(v), CliInv(v), UNCHANGED vars \/ CliEmulate(v)!Next
      PROVE  CliInv(v)'
  <2>1. [CliEmulate(v)!Next]_(CliEmulate(v)!vars)
    BY <1>2 DEF vars, CliEmulate!vars
  <2>. QED BY <1>2, <2>1, CliKeeps
<1>3. ASSUME NEW v, Inset(v)!SafeAreaAssumption, v.does \subseteq {"adds"},
             InsetInv(v), UNCHANGED vars \/ Inset(v)!Next
      PROVE  InsetInv(v)'
  <2>1. [Inset(v)!Next]_(Inset(v)!vars)
    BY <1>3 DEF vars, Inset!vars
  <2>. QED BY <1>3, <2>1, InsetKeeps
<1>4. ASSUME NEW v, Record(v)!RecorderAssumption, RecInv(v),
             UNCHANGED vars \/ Record(v)!Next
      PROVE  RecInv(v)'
  <2>1. [Record(v)!Next]_(Record(v)!vars)
    BY <1>4 DEF vars, Record!vars
  <2>. QED BY <1>4, <2>1, RecKeeps
<1>5. CASE UNCHANGED vars
  <2>1. UNCHANGED part
    BY <1>5 DEF vars
  <2>. QED BY <1>1, <1>2, <1>3, <1>4, <1>5, <2>1 DEF EmulationInv
<1>6. CASE part = "emulation" /\ UNCHANGED part /\ Emulate(Emulates)!Next
  BY <1>1, <1>6 DEF EmulationInv
<1>7. CASE part = "swipes" /\ UNCHANGED part /\ Emulate(Swipes)!Next
  BY <1>1, <1>7 DEF EmulationInv
<1>8. CASE part = "cliEmulation" /\ UNCHANGED part /\ CliEmulate(CliEmulates)!Next
  BY <1>2, <1>8 DEF EmulationInv
<1>9. CASE part = "insets" /\ UNCHANGED part /\ Inset(Insets)!Next
  BY <1>3, <1>9 DEF EmulationInv
<1>10. CASE part = "recorder" /\ UNCHANGED part /\ Record(Records)!Next
  BY <1>4, <1>10 DEF EmulationInv
<1>11. CASE part \notin EmulationParts /\ UNCHANGED part
  BY <1>11 DEF EmulationInv, EmulationParts
<1>. QED BY <1>5, <1>6, <1>7, <1>8, <1>9, <1>10, <1>11
         DEF Next, Step, EmulationParts

LEMMA EmulationInvHolds == Spec => []EmulationInv
<1>1. Init => EmulationInv
  BY EmulationInstances, EmuInit, CliInit, InsetInit, RecInit
     DEF Init, EmulationInv
<1>. QED BY <1>1, EmulationKeeps, PTL DEF Spec

\* Emulation and the recorder in the run of the pages: what Chrome shows is what
\* is kept, and no text typed is lost or written twice (replayEmulationLocked,
\* maybeApplyProfile, ApplySafeArea, coalesceType).
THEOREM EmulationIsRight == Spec => []EmulationHolds
<1>1. EmulationInv => EmulationHolds
  BY EmulationInstances, EmuInvMeans, CliInvMeans, InsetInvMeans, RecInvMeans
     DEF EmulationInv, EmulationHolds
<1>. QED BY <1>1, EmulationInvHolds, PTL
----------------------------------------------------------------------------
\* The steps that the run of the pages checks, of clicks, waits and emulation.
StepsInv ==
    ClicksInv /\ AllWaitsInv /\ EmulationInv /\ (part = "waits" => Patient)

LEMMA StepsKeep == StepsInv /\ [Next]_vars => StepsInv'
<1>. SUFFICES ASSUME StepsInv, [Next]_vars
              PROVE  (part = "waits" => Patient)'
  BY ClicksKeep, AllWaitsKeep, EmulationKeeps DEF StepsInv
<1>1. ASSUME Patient, UNCHANGED vars \/ Wait(Waits)!Next
      PROVE  Patient'
  <2>1. [Wait(Waits)!Next]_(Wait(Waits)!vars)
    BY <1>1 DEF vars, Wait!vars, Wait!page, Wait!acts, Wait!history, Wait!budget
  <2>. QED BY <1>1, <2>1, PatientKeeps
<1>2. CASE UNCHANGED vars
  <2>1. UNCHANGED part
    BY <1>2 DEF vars
  <2>. QED BY <1>1, <1>2, <2>1 DEF StepsInv
<1>3. CASE part = "waits" /\ UNCHANGED part /\ Wait(Waits)!Next
  BY <1>1, <1>3 DEF StepsInv
<1>4. CASE part # "waits" /\ UNCHANGED part
  BY <1>4
<1>. QED BY <1>2, <1>3, <1>4 DEF Next, Step

\* Every step of the run of the pages is as it should be: a tab that a click
\* opened is taken, a navigation is seen, a wait for hidden or stable ends on
\* what was so, and emulation keeps the User-Agent.
THEOREM StepsAreRight == Spec => PageSteps
<1>. DEFINE A ==
       /\ part = "clickTabs"  => Click(ClickTabs)!HintedTabTaken
       /\ part = "clickWaits" => Click(ClickNavs)!NavNotMissed
       /\ part = "waits" =>
             Wait(Waits)!HiddenOnlyIfUnseen /\ Wait(Waits)!StableIsThere
       /\ part = "emulation"  => Emulate(Emulates)!KeepsUserAgent
<1>1. Init => StepsInv
  <2>1. Init /\ part = "waits" => Patient
    BY DEF Init, Wait!Init, Patient
  <2>. QED BY <2>1, PageAssumption, ClickInit, WaitInstance, LoadInit, WaitInit,
           EmulationInstances, EmuInit, CliInit, InsetInit, RecInit
       DEF PageAssumption, Init, StepsInv, ClicksInv, AllWaitsInv, EmulationInv
<1>2. StepsInv /\ [Next]_vars => [A]_vars
  <2>. SUFFICES ASSUME StepsInv, Next PROVE A
    OBVIOUS
  <2>1. ASSUME part = "clickTabs"
        PROVE  Click(ClickTabs)!HintedTabTaken
    <3>1. Click(ClickTabs)!Next
      BY <2>1 DEF Next, Step
    <3>. QED BY <2>1, <3>1, PageAssumption, ClickStepsAreRight
             DEF StepsInv, ClicksInv, PageAssumption
  <2>2. ASSUME part = "clickWaits"
        PROVE  Click(ClickNavs)!NavNotMissed
    <3>1. Click(ClickNavs)!Next
      BY <2>2 DEF Next, Step
    <3>2. ClickNavs.hub
      BY DEF ClickNavs, ClickTabs
    <3>. QED BY <2>2, <3>1, <3>2, PageAssumption, ClickStepsAreRight
             DEF StepsInv, ClicksInv, PageAssumption
  <2>3. ASSUME part = "waits"
        PROVE  Wait(Waits)!HiddenOnlyIfUnseen /\ Wait(Waits)!StableIsThere
    <3>1. Wait(Waits)!Next
      BY <2>3 DEF Next, Step
    <3>. QED BY <2>3, <3>1, WaitInstance, WaitStepsAreRight
             DEF StepsInv, AllWaitsInv
  <2>4. ASSUME part = "emulation"
        PROVE  Emulate(Emulates)!KeepsUserAgent
    <3>1. Emulate(Emulates)!Next
      BY <2>4 DEF Next, Step
    <3>. QED BY <2>4, <3>1, EmulationInstances, EmuStepKeepsUserAgent
             DEF StepsInv, EmulationInv
  <2>. QED BY <2>1, <2>2, <2>3, <2>4
<1>3. Spec => [][A]_vars
  BY <1>1, <1>2, StepsKeep, PTL DEF Spec
<1>. QED BY <1>3 DEF PageSteps
=============================================================================
