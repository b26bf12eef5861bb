---------------------------- MODULE MCEnds_proofs ----------------------------
(***************************************************************************)
(* Proofs about the client libraries of MCEnds, for any number of sends,   *)
(* crashes and starts.                                                     *)
(***************************************************************************)
EXTENDS MCEnds, TLAPS

Outcomes == [how : {"", "answer", "eof", "TransportError", "OSError", "ValueError"},
             id : Python!Ops \union {Python!None}]

PythonShape ==
    /\ pc \in [Python!Ops -> {"idle", "queued", "writing", "sent", "done"}]
    /\ result \in [Python!Ops -> Outcomes] /\ mail \in [Python!Ops -> Outcomes]
    /\ writer \in Python!Ops \union {Python!None}
    /\ closed \in BOOLEAN /\ reader \in BOOLEAN
    /\ closer \in {"no", "closing", "waiting", "done"}
    /\ closed = (closer # "no")

\* A queue is there, and has mail, only while its send is in flight; whoever
\* is writing is the one that has the lock.
InFlight ==
    /\ queues = {i \in Python!Ops : pc[i] \in {"queued", "writing", "sent"}}
    /\ \A i \in Python!Ops : mail[i] # Python!Nothing => i \in queues
    /\ \A i \in Python!Ops : pc[i] = "writing" <=> writer = i

OwnAnswerOf(i, r) == r.how = "answer" => r.id = i
OwnMail == \A i \in Python!Ops : OwnAnswerOf(i, mail[i])
/\ OwnAnswerOf(i, result[i])

\* The reader thread ends, and says so, only when the process has.
EndIsTrue ==
    /\ ~reader => ~alive
    /\ \A i \in Python!Ops : mail[i].how = "eof" \/ result[i].how = "eof" => ~alive

PythonInv ==
    Python!AgentTypeOK /\ PythonShape /\ InFlight /\ OwnMail /\ EndIsTrue
    /\ Python!ClosedLeavesNoProcess

\* What the model's operators stand for.
LEMMA PythonNumbers ==
    ASSUME Python!AgentAssumption
    PROVE  /\ Python!CloseOp \in Python!Ops
           /\ Python!LastLine \in Python!Requests
           /\ Python!Ops \subseteq Python!Requests
           /\ Python!None \notin Python!Ops /\ Python!NoOp \notin Python!Requests
           /\ Python!Ops \subseteq Nat /\ 0 \in 0..AgentCrashes
BY DEF Python!AgentAssumption, Python!CloseOp, Python!Ops, Python!LastLine,
   Python!Requests, Python!None, Python!NoOp

LEMMA Outcomed ==
    ASSUME NEW i \in Python!Ops
    PROVE  /\ Python!Nothing \in Outcomes /\ Python!Eof \in Outcomes
           /\ Python!Answer(i) \in Outcomes
           /\ Python!Raise("TransportError") \in Outcomes
           /\ Python!Raise("OSError") \in Outcomes
           /\ Python!Raise("ValueError") \in Outcomes
           /\ Python!Answer(i) # Python!Nothing /\ Python!Eof # Python!Nothing
BY DEF Python!Nothing, Python!Eof, Python!Answer, Python!Raise, Python!Outcome,
   Outcomes

LEMMA PythonInit == ASSUME Python!AgentAssumption, Python!Init PROVE PythonInv
<1>. USE PythonNumbers, Outcomed DEF Python!Init
<1>1. Python!AgentTypeOK
  BY DEF Python!AgentTypeOK
<1>2. PythonShape
  BY DEF PythonShape, Python!Nothing, Python!Outcome, Outcomes
<1>3. InFlight
  BY DEF InFlight
<1>4. OwnMail /\ EndIsTrue /\ Python!ClosedLeavesNoProcess
  BY DEF OwnMail, OwnAnswerOf, EndIsTrue, Python!ClosedLeavesNoProcess,
     Python!Nothing, Python!Outcome
<1>. QED BY <1>1, <1>2, <1>3, <1>4 DEF PythonInv

----------------------------------------------------------------------------
\* The agent's own steps: what it writes are lines, and it does not revive.
PythonLines == [id : Python!Requests, whole : BOOLEAN]

LEMMA Appended ==
    ASSUME NEW S, NEW q \in Seq(S), NEW e \in S PROVE Append(q, e) \in Seq(S)
OBVIOUS

LEMMA EmptyIsSeq == ASSUME NEW S PROVE << >> \in Seq(S)
OBVIOUS

LEMMA PythonKilled ==
    ASSUME Python!AgentTypeOK, Python!Killed, crashes' \in 0..AgentCrashes
    PROVE  Python!AgentTypeOK' /\ ~alive'
<1>0. stdout \in Seq(PythonLines)
  BY DEF Python!AgentTypeOK, PythonLines
<1>1. stdout' \in Seq(PythonLines)
  <2>1. CASE stdout' = stdout
    BY <1>0, <2>1
  <2>2. CASE busy # Python!NoOp /\ stdout' = Append(stdout, Python!Line(busy,
  FALSE))
    <3>1. Python!Line(busy, FALSE) \in PythonLines
      BY <2>2 DEF Python!AgentTypeOK, Python!Line, PythonLines
    <3>. QED BY <2>2, <3>1, <1>0, Appended
  <2>. QED BY <2>1, <2>2 DEF Python!Killed
<1>2. stdin' = << >> /\ busy' = Python!NoOp /\ alive' = FALSE /\ stdinOpen' = stdinOpen
  BY DEF Python!Killed, Python!Exit
<1>3. stdin' \in Seq(Python!Requests)
  BY <1>2, EmptyIsSeq
<1>4. {alive', stdinOpen'} \subseteq BOOLEAN
  BY <1>2 DEF Python!AgentTypeOK
<1>. QED BY <1>1, <1>2, <1>3, <1>4 DEF Python!AgentTypeOK, PythonLines

LEMMA PythonAgent ==
    ASSUME Python!AgentAssumption, Python!AgentTypeOK, Python!Agent \/ Python!Crash
    PROVE  Python!AgentTypeOK' /\ (alive' => alive)
<1>1. CASE Python!Scan
  <2>1. Head(stdin) \in Python!Requests /\ Tail(stdin) \in Seq(Python!Requests)
    BY <1>1 DEF Python!Scan, Python!AgentTypeOK
  <2>. QED BY <1>1, <2>1 DEF Python!Scan, Python!AgentTypeOK
<1>2. CASE Python!RunOp
  <2>1. Python!Line(busy, TRUE) \in PythonLines
    BY <1>2 DEF Python!RunOp, Python!AgentTypeOK, Python!Line, PythonLines
  <2>2. stdout' \in Seq(PythonLines)
    <3>1. stdout \in Seq(PythonLines)
      BY DEF Python!AgentTypeOK, PythonLines
    <3>. QED BY <1>2, <2>1, <3>1, Appended DEF Python!RunOp
  <2>3. /\ alive' \in BOOLEAN /\ UNCHANGED <<stdinOpen, crashes>>
        /\ stdin' \in {<< >>, stdin} /\ busy' = Python!NoOp
        /\ alive' \/ stdin' = << >>
        /\ alive
    BY <1>2 DEF Python!RunOp, Python!Exit, Python!AgentTypeOK
  <2>4. stdin' \in Seq(Python!Requests)
    <3>1. stdin \in Seq(Python!Requests)
      BY DEF Python!AgentTypeOK
    <3>. QED BY <2>3, <3>1, EmptyIsSeq
  <2>. QED BY <2>2, <2>3, <2>4 DEF Python!AgentTypeOK, PythonLines
<1>3. CASE Python!EndOfInput
  BY <1>3 DEF Python!EndOfInput, Python!Exit, Python!AgentTypeOK
<1>4. CASE Python!Crash
  <2>1. crashes' \in 0..AgentCrashes
    BY <1>4 DEF Python!Crash, Python!AgentTypeOK, Python!AgentAssumption
  <2>. QED BY <1>4, <2>1, PythonKilled DEF Python!Crash
<1>. QED BY <1>1, <1>2, <1>3, <1>4 DEF Python!Agent

\* A send that returns has no queue, mail or lock any more (the finally of send).
LEMMA Returned ==
    ASSUME Python!AgentAssumption, PythonInv, NEW i \in Python!Ops,
           NEW r \in Outcomes, Python!Return(i, r),
           OwnAnswerOf(i, r), r.how = "eof" => ~alive,
           pc[i] = "writing" => writer' = Python!None,
           pc[i] # "writing" => UNCHANGED writer,
           UNCHANGED <<closed, reader, closer>>, alive' => alive
    PROVE  PythonShape' /\ InFlight' /\ OwnMail' /\ EndIsTrue'
           /\ Python!ClosedLeavesNoProcess'
<1>. USE PythonNumbers, Outcomed DEF PythonInv, Python!Return
<1>1. PythonShape'
  BY DEF PythonShape
<1>2. InFlight'
  BY DEF InFlight, PythonShape
<1>3. OwnMail' /\ EndIsTrue'
  BY DEF OwnMail, OwnAnswerOf, EndIsTrue, PythonShape, Python!Nothing,
     Python!Outcome
<1>. QED BY <1>1, <1>2, <1>3 DEF Python!ClosedLeavesNoProcess

LEMMA PythonKeeps ==
    ASSUME Python!AgentAssumption, PythonInv,
           [Python!Next]_Python!vars PROVE PythonInv'
<1>. USE PythonNumbers, Outcomed DEF PythonInv
<1>1. CASE UNCHANGED Python!vars
  BY <1>1 DEF Python!vars, Python!agentVars, Python!threads, Python!AgentTypeOK,
     PythonShape, InFlight, OwnMail, OwnAnswerOf,
     EndIsTrue, Python!ClosedLeavesNoProcess
<1>2. CASE (Python!Agent \/ Python!Crash) /\ UNCHANGED Python!threads
  <2>1. Python!AgentTypeOK' /\ (alive' => alive)
    BY <1>2, PythonAgent
  <2>. QED BY <1>2, <2>1 DEF Python!threads, PythonShape, InFlight, OwnMail,
              OwnAnswerOf, EndIsTrue,
                Python!ClosedLeavesNoProcess
<1>3. ASSUME NEW i \in Python!Ops, Python!Enter(i) PROVE PythonInv'
  <2>1. Python!AgentTypeOK'
    BY <1>3 DEF Python!Enter, Python!agentVars, Python!AgentTypeOK
  <2>2. CASE closed
    <3>1. Python!Return(i, Python!Raise("TransportError"))
      BY <1>3, <2>2 DEF Python!Enter
    <3>. QED BY <1>3, <2>1, <3>1, Returned DEF Python!Enter, Python!agentVars,
                Python!Raise, Python!Outcome, OwnAnswerOf
  <2>3. CASE ~closed
    BY <1>3, <2>1, <2>3
       DEF Python!Enter, Python!agentVars, PythonShape, InFlight, OwnMail,
           EndIsTrue, Python!ClosedLeavesNoProcess
  <2>. QED BY <2>2, <2>3
<1>4. ASSUME NEW i \in Python!Ops, Python!Lock(i) PROVE PythonInv'
  <2>1. Python!AgentTypeOK'
    BY <1>4 DEF Python!Lock, Python!agentVars, Python!AgentTypeOK
  <2>2. CASE ~stdinOpen
    <3>1. Python!Return(i, Python!Raise("TransportError"))
      BY <1>4, <2>2 DEF Python!Lock
    <3>. QED BY <1>4, <2>1, <2>2, <3>1, Returned DEF Python!Lock,
                Python!agentVars, Python!Raise, Python!Outcome, OwnAnswerOf
  <2>3. CASE stdinOpen
    BY <1>4, <2>1, <2>3
       DEF Python!Lock, Python!agentVars, PythonShape, InFlight, OwnMail,
           EndIsTrue, Python!ClosedLeavesNoProcess
  <2>. QED BY <2>2, <2>3
<1>5. ASSUME NEW i \in Python!Ops, Python!Write(i) PROVE PythonInv'
  <2>1. Python!AgentTypeOK'
    <3>1. stdin' = stdin \/ (alive /\ stdin' = Append(stdin, i))
      BY <1>5 DEF Python!Write
    <3>2. stdin' \in Seq(Python!Requests) /\ (alive \/ stdin' = stdin)
      BY <3>1 DEF Python!AgentTypeOK
    <3>. QED BY <1>5, <3>2 DEF Python!Write, Python!AgentTypeOK
  <2>2. CASE ~(stdinOpen /\ alive)
    <3>1. PICK r \in {Python!Raise("OSError"),
    Python!Raise("ValueError")} : Python!Return(i, r)
      BY <1>5, <2>2 DEF Python!Write
    <3>. QED BY <1>5, <2>1, <3>1, Returned DEF Python!Write, Python!Raise,
                Python!Outcome, OwnAnswerOf
  <2>3. CASE stdinOpen /\ alive
    BY <1>5, <2>1, <2>3
       DEF Python!Write, PythonShape, InFlight, OwnMail, EndIsTrue,
           Python!ClosedLeavesNoProcess
  <2>. QED BY <2>2, <2>3
<1>6. ASSUME NEW i \in Python!Ops, Python!Get(i) PROVE PythonInv'
  <2>1. Python!AgentTypeOK'
    BY <1>6 DEF Python!Get, Python!agentVars, Python!AgentTypeOK
  <2>2. mail[i] \in Outcomes /\ OwnAnswerOf(i,
  mail[i]) /\ (mail[i].how = "eof" => ~alive)
    BY DEF PythonShape, OwnMail, EndIsTrue
  <2>. QED BY <1>6, <2>1, <2>2, Returned DEF Python!Get, Python!agentVars
<1>7. ASSUME NEW i \in Python!Ops, Python!TimeOut(i) PROVE PythonInv'
  <2>1. Python!AgentTypeOK'
    BY <1>7 DEF Python!TimeOut, Python!agentVars, Python!AgentTypeOK
  <2>. QED BY <1>7, <2>1, Returned DEF Python!TimeOut, Python!agentVars,
              Python!Raise, Python!Outcome, OwnAnswerOf
<1>8. CASE Python!ReadLoop
  <2>1. CASE stdout # <<>> /\ Python!DispatchLine(Head(stdout)) /\ stdout' = Tail(stdout)
             /\ UNCHANGED reader
    <3>1. Python!AgentTypeOK'
      <4>1. stdout' \in Seq(PythonLines)
        BY <2>1 DEF Python!AgentTypeOK, PythonLines
      <4>. QED BY <1>8, <2>1, <4>1 DEF Python!ReadLoop, Python!AgentTypeOK,
                  PythonLines
    <3>2. CASE UNCHANGED mail
      BY <1>8, <2>1, <3>1, <3>2
         DEF Python!ReadLoop, PythonShape, InFlight, OwnMail, EndIsTrue,
             Python!ClosedLeavesNoProcess
    <3>3. ASSUME NEW i \in queues, mail' = [mail EXCEPT ![i] = Python!Answer(i)]
          PROVE  PythonInv'
      <4>1. i \in Python!Ops
        BY <3>3 DEF InFlight
      <4>. QED BY <1>8, <2>1, <3>1, <3>3, <4>1
                  DEF Python!ReadLoop, PythonShape, InFlight, OwnMail,
                      OwnAnswerOf, EndIsTrue,
                      Python!ClosedLeavesNoProcess, Python!Answer, Python!Outcome
    <3>. QED BY <2>1, <3>2, <3>3 DEF Python!DispatchLine
  <2>2. CASE ~alive /\ Python!DispatchEof /\ reader' = FALSE /\ UNCHANGED stdout
    BY <1>8, <2>2
       DEF Python!ReadLoop, Python!DispatchEof, Python!AgentTypeOK, PythonShape,
           InFlight, OwnMail, OwnAnswerOf, EndIsTrue,
           Python!ClosedLeavesNoProcess, Python!Eof, Python!Outcome
  <2>. QED BY <1>8, <2>1, <2>2 DEF Python!ReadLoop
<1>9. CASE Python!CloseBegin
  BY <1>9 DEF Python!CloseBegin, Python!agentVars, Python!AgentTypeOK,
     PythonShape, InFlight, OwnMail, OwnAnswerOf, EndIsTrue,
     Python!ClosedLeavesNoProcess
<1>10. CASE Python!CloseWrite
  <2>1. stdin' \in Seq(Python!Requests) /\ (alive \/ stdin' = stdin)
    BY <1>10 DEF Python!CloseWrite, Python!AgentTypeOK
  <2>. QED BY <1>10, <2>1 DEF Python!CloseWrite, Python!AgentTypeOK, PythonShape,
              InFlight, OwnMail, OwnAnswerOf,
                EndIsTrue, Python!ClosedLeavesNoProcess
<1>11. CASE Python!CloseWait
  <2>1. Python!AgentTypeOK' /\ ~alive'
    BY <1>11, PythonKilled DEF Python!CloseWait, Python!agentVars,
       Python!AgentTypeOK
  <2>. QED BY <1>11, <2>1 DEF Python!CloseWait, PythonShape, InFlight, OwnMail,
              OwnAnswerOf, EndIsTrue,
                Python!ClosedLeavesNoProcess
<1>. QED BY <1>1, <1>2, <1>3, <1>4, <1>5, <1>6, <1>7, <1>8, <1>9, <1>10, <1>11
         DEF Python!Next, Python!AgentRuns, Python!Thread, Python!Closer

LEMMA PythonInvHolds == ASSUME Python!AgentAssumption PROVE Python!Spec => []PythonInv
<1>1. Python!Init => PythonInv
  BY PythonInit
<1>2. PythonInv /\ [Python!Next]_Python!vars => PythonInv'
  BY PythonKeeps
<1>. QED BY <1>1, <1>2, PTL DEF Python!Spec

LEMMA PythonInvMeans ==
    ASSUME Python!AgentAssumption, PythonInv
    PROVE  /\ Python!TypeOK /\ Python!OwnAnswer
           /\ Python!EofIsTheEnd /\ Python!ClosedLeavesNoProcess
BY PythonNumbers DEF PythonInv, PythonShape, InFlight, OwnMail, OwnAnswerOf, EndIsTrue,
   Python!TypeOK, Python!OwnAnswer, Python!EofIsTheEnd, Python!Eof, Python!Outcome

----------------------------------------------------------------------------
\* Type correctness; a queue is there exactly while its send is in flight, and
\* one send at a time writes to the pipe (send, with self._lock).
THEOREM PythonTypeCorrect == ASSUME Python!AgentAssumption PROVE Python!Spec => []Python!TypeOK
<1>1. PythonInv => Python!TypeOK
  BY PythonInvMeans
<1>. QED BY <1>1, PythonInvHolds, PTL

\* A send returns the response to its own op, for any number of sends, however
\* late answers come (_dispatch_line, and the finally of send).
THEOREM AnswersAreOwn == ASSUME Python!AgentAssumption PROVE Python!Spec => []Python!OwnAnswer
<1>1. PythonInv => Python!OwnAnswer
  BY PythonInvMeans
<1>. QED BY <1>1, PythonInvHolds, PTL

\* No send is told of the end of a process that runs (_dispatch_eof).
THEOREM EndIsNotInvented == ASSUME Python!AgentAssumption PROVE Python!Spec => []Python!EofIsTheEnd
<1>1. PythonInv => Python!EofIsTheEnd
  BY PythonInvMeans
<1>. QED BY <1>1, PythonInvHolds, PTL

\* When close has returned there is no process (Transport.close, the kill after
\* five seconds).
THEOREM CloseLeavesNothing ==
    ASSUME Python!AgentAssumption PROVE Python!Spec => []Python!ClosedLeavesNoProcess
<1>1. PythonInv => Python!ClosedLeavesNoProcess
  BY PythonInvMeans
<1>. QED BY <1>1, PythonInvHolds, PTL

----------------------------------------------------------------------------
\* The TypeScript client. While dispose has not ended, a process that lives is
\* the one the client holds.
TypeScriptInv ==
    /\ TypeScript!TypeOK /\ TypeScript!DisposedLeavesNothing
    /\ {proc, disposed, rest} \subseteq BOOLEAN
    /\ disposing \in {"no", "waiting", "done"}
    /\ alive => proc

LEMMA TypeScriptNumbers ==
    ASSUME TypeScript!AgentAssumption, TypeScript!TransportAssumption
    PROVE  /\ TypeScript!CloseOp \in TypeScript!Ops
           /\ TypeScript!Ops \subseteq TypeScript!Requests
           /\ TypeScript!LastLine \in TypeScript!Requests
           /\ TypeScript!NoOp \notin TypeScript!Requests
           /\ 0 \in 0..AgentCrashes /\ 0 \in 0..Starts
BY DEF TypeScript!AgentAssumption, TypeScript!TransportAssumption, TypeScript!CloseOp,
   TypeScript!Ops, TypeScript!LastLine, TypeScript!Requests, TypeScript!NoOp

LEMMA TypeScriptInit ==
    ASSUME TypeScript!AgentAssumption, TypeScript!TransportAssumption, TypeScript!Init
    PROVE  TypeScriptInv
<1>. USE TypeScriptNumbers DEF TypeScript!Init
<1>1. TypeScript!AgentTypeOK
  BY EmptyIsSeq DEF TypeScript!AgentTypeOK
<1>2. TypeScript!TypeOK
  BY <1>1 DEF TypeScript!TypeOK
<1>. QED BY <1>2 DEF TypeScriptInv, TypeScript!DisposedLeavesNothing

TypeScriptLines == [id : TypeScript!Requests, whole : BOOLEAN]

LEMMA TypeScriptKilled ==
    ASSUME TypeScript!AgentTypeOK, TypeScript!Killed, crashes' \in 0..AgentCrashes
    PROVE  TypeScript!AgentTypeOK' /\ ~alive'
<1>0. stdout \in Seq(TypeScriptLines)
  BY DEF TypeScript!AgentTypeOK, TypeScriptLines
<1>1. stdout' \in Seq(TypeScriptLines)
  <2>1. CASE stdout' = stdout
    BY <1>0, <2>1
  <2>2. CASE busy # TypeScript!NoOp /\ stdout' = Append(stdout,
  TypeScript!Line(busy,
  FALSE))
    <3>1. TypeScript!Line(busy, FALSE) \in TypeScriptLines
      BY <2>2 DEF TypeScript!AgentTypeOK, TypeScript!Line, TypeScriptLines
    <3>. QED BY <2>2, <3>1, <1>0, Appended
  <2>. QED BY <2>1, <2>2 DEF TypeScript!Killed
<1>2. stdin' = << >> /\ busy' = TypeScript!NoOp /\ alive' = FALSE /\ stdinOpen' = stdinOpen
  BY DEF TypeScript!Killed, TypeScript!Exit
<1>3. stdin' \in Seq(TypeScript!Requests)
  BY <1>2, EmptyIsSeq
<1>4. {alive', stdinOpen'} \subseteq BOOLEAN
  BY <1>2 DEF TypeScript!AgentTypeOK
<1>. QED BY <1>1, <1>2, <1>3, <1>4 DEF TypeScript!AgentTypeOK, TypeScriptLines

LEMMA TypeScriptAgent ==
    ASSUME TypeScript!AgentAssumption, TypeScript!TransportAssumption,
           TypeScript!AgentTypeOK, TypeScript!Agent \/ TypeScript!Crash
    PROVE  TypeScript!AgentTypeOK' /\ (alive' => alive)
<1>1. CASE TypeScript!Scan
  <2>1. Head(stdin) \in TypeScript!Requests /\ Tail(stdin) \in Seq(TypeScript!Requests)
    BY <1>1 DEF TypeScript!Scan, TypeScript!AgentTypeOK
  <2>. QED BY <1>1, <2>1 DEF TypeScript!Scan, TypeScript!AgentTypeOK
<1>2. CASE TypeScript!RunOp
  <2>1. TypeScript!Line(busy, TRUE) \in TypeScriptLines
    BY <1>2 DEF TypeScript!RunOp, TypeScript!AgentTypeOK, TypeScript!Line,
       TypeScriptLines
  <2>2. stdout' \in Seq(TypeScriptLines)
    <3>1. stdout \in Seq(TypeScriptLines)
      BY DEF TypeScript!AgentTypeOK, TypeScriptLines
    <3>. QED BY <1>2, <2>1, <3>1, Appended DEF TypeScript!RunOp
  <2>3. /\ alive' \in BOOLEAN /\ UNCHANGED <<stdinOpen, crashes>>
        /\ stdin' \in {<< >>, stdin} /\ busy' = TypeScript!NoOp
        /\ alive' \/ stdin' = << >>
        /\ alive
    BY <1>2 DEF TypeScript!RunOp, TypeScript!Exit, TypeScript!AgentTypeOK
  <2>4. stdin' \in Seq(TypeScript!Requests)
    <3>1. stdin \in Seq(TypeScript!Requests)
      BY DEF TypeScript!AgentTypeOK
    <3>. QED BY <2>3, <3>1, EmptyIsSeq
  <2>. QED BY <2>2, <2>3, <2>4 DEF TypeScript!AgentTypeOK, TypeScriptLines
<1>3. CASE TypeScript!EndOfInput
  BY <1>3 DEF TypeScript!EndOfInput, TypeScript!Exit, TypeScript!AgentTypeOK
<1>4. CASE TypeScript!Crash
  <2>1. crashes' \in 0..AgentCrashes
    BY <1>4 DEF TypeScript!Crash, TypeScript!AgentTypeOK, TypeScript!AgentAssumption
  <2>. QED BY <1>4, <2>1, TypeScriptKilled DEF TypeScript!Crash
<1>. QED BY <1>1, <1>2, <1>3, <1>4 DEF TypeScript!Agent

\* Settling promises takes exactly their ids out of pending.
LEMMA Settled ==
    ASSUME TypeScriptInv, NEW S, NEW how \in {"answered", "rejected"},
           TypeScript!Settle(S, how)
    PROVE  /\ promise' \in [TypeScript!Ops -> {"none", "pending", "answered", "rejected"}]
           /\ pending' = {i \in TypeScript!Ops : promise'[i] = "pending"}
           /\ pending = {} => pending' = {}
BY DEF TypeScriptInv, TypeScript!TypeOK, TypeScript!Settle

\* A promise is made for a send that has none yet.
LEMMA MadeIsPending ==
    ASSUME TypeScriptInv, NEW i \in TypeScript!Ops, TypeScript!Made(i)
    PROVE  /\ promise' \in [TypeScript!Ops -> {"none", "pending", "answered", "rejected"}]
           /\ pending' = {j \in TypeScript!Ops : promise'[j] = "pending"}
BY DEF TypeScriptInv, TypeScript!TypeOK, TypeScript!Made

LEMMA TypeScriptKeeps ==
    ASSUME TypeScript!AgentAssumption, TypeScript!TransportAssumption, TypeScriptInv,
           [TypeScript!Next]_TypeScript!vars
    PROVE  TypeScriptInv'
<1>. USE TypeScriptNumbers DEF TypeScriptInv, TypeScript!TypeOK,
       TypeScript!DisposedLeavesNothing
<1>1. CASE UNCHANGED TypeScript!vars
  BY <1>1 DEF TypeScript!vars, TypeScript!agentVars, TypeScript!client,
     TypeScript!AgentTypeOK
<1>2. CASE (TypeScript!Agent \/ TypeScript!Crash) /\ UNCHANGED TypeScript!client
  <2>1. TypeScript!AgentTypeOK' /\ (alive' => alive)
    BY <1>2, TypeScriptAgent
  <2>. QED BY <1>2, <2>1 DEF TypeScript!client
<1>3. ASSUME NEW i \in TypeScript!Ops, TypeScript!Send(i) PROVE TypeScriptInv'
  <2>1. CASE disposed /\ TypeScript!Refused(i)
             /\ UNCHANGED <<TypeScript!agentVars, proc, starts>>
    <3>1. TypeScript!Settle({i}, "rejected") /\ UNCHANGED failing
      BY <2>1 DEF TypeScript!Refused
    <3>. QED BY <1>3, <2>1, <3>1, Settled
                DEF TypeScript!Send, TypeScript!agentVars, TypeScript!AgentTypeOK
  <2>2. CASE ~disposed /\ ~proc /\ starts < Starts /\ proc' = TRUE /\ starts' = starts + 1
             /\ alive' = TRUE /\ stdinOpen' = TRUE /\ busy' = TypeScript!NoOp
             /\ stdin' = <<i>> /\ TypeScript!Made(i)
             /\ UNCHANGED <<stdout, crashes, failing>>
    <3>1. starts' \in 0..Starts
      BY <2>2 DEF TypeScript!TransportAssumption
    <3>2. TypeScript!AgentTypeOK'
      BY <2>2 DEF TypeScript!AgentTypeOK
    <3>. QED BY <1>3, <2>2, <3>1, <3>2, MadeIsPending DEF TypeScript!Send
  <2>3. CASE ~disposed /\ proc /\ alive /\ stdin' = Append(stdin, i) /\ TypeScript!Made(i)
             /\ UNCHANGED <<alive, stdinOpen, busy, stdout, crashes, proc, starts, failing>>
    <3>1. TypeScript!AgentTypeOK'
      BY <2>3 DEF TypeScript!AgentTypeOK
    <3>. QED BY <1>3, <2>3, <3>1, MadeIsPending DEF TypeScript!Send
  <2>4. CASE ~disposed /\ proc /\ ~alive
             /\ (TypeScript!Refused(i)
                 \/ (TypeScript!Made(i) /\ failing' = failing \union {i}))
             /\ UNCHANGED <<TypeScript!agentVars, proc, starts>>
    <3>1. TypeScript!AgentTypeOK'
      BY <2>4 DEF TypeScript!agentVars, TypeScript!AgentTypeOK
    <3>2. CASE TypeScript!Settle({i}, "rejected") /\ UNCHANGED failing
      BY <1>3, <2>4, <3>1, <3>2, Settled DEF TypeScript!Send, TypeScript!agentVars
    <3>3. CASE TypeScript!Made(i) /\ failing' = failing \union {i}
      BY <1>3, <2>4, <3>1, <3>3, MadeIsPending DEF TypeScript!Send, TypeScript!agentVars
    <3>. QED BY <2>4, <3>2, <3>3 DEF TypeScript!Refused
  <2>. QED BY <1>3, <2>1, <2>2, <2>3, <2>4 DEF TypeScript!Send
<1>4. ASSUME NEW i \in TypeScript!Ops, TypeScript!TimedOut(i) \/ TypeScript!WriteFailed(i)
      PROVE  TypeScriptInv'
  <2>1. PICK S : TypeScript!Settle(S, "rejected")
    BY <1>4 DEF TypeScript!TimedOut, TypeScript!WriteFailed
  <2>2. failing' \subseteq failing
        /\ UNCHANGED <<TypeScript!agentVars, proc, starts, rest, missed, disposed, disposing>>
    BY <1>4 DEF TypeScript!TimedOut, TypeScript!WriteFailed
  <2>. QED BY <2>1, <2>2, Settled DEF TypeScript!agentVars, TypeScript!AgentTypeOK
<1>5. CASE TypeScript!Data
  <2>1. stdout' = Tail(stdout) /\ rest' \in BOOLEAN
        /\ UNCHANGED <<alive, stdin, stdinOpen, busy, crashes, proc, starts, failing,
                       disposed, disposing>>
    <3>1. stdout \in Seq(TypeScriptLines) /\ stdout # << >>
      BY <1>5 DEF TypeScript!Data, TypeScript!AgentTypeOK, TypeScriptLines
    <3>2. Head(stdout) \in TypeScriptLines
      BY <3>1
    <3>3. Head(stdout).whole \in BOOLEAN
      BY <3>2 DEF TypeScriptLines
    <3>. QED BY <1>5, <3>3 DEF TypeScript!Data
  <2>2. TypeScript!AgentTypeOK'
    <3>1. stdout' \in Seq(TypeScriptLines)
      BY <1>5, <2>1 DEF TypeScript!Data, TypeScript!AgentTypeOK, TypeScriptLines
    <3>. QED BY <2>1, <3>1 DEF TypeScript!AgentTypeOK, TypeScriptLines
  <2>3. CASE TypeScript!HandleLine(Head(stdout).id)
    <3>1. PICK S : TypeScript!Settle(S, "answered")
      BY <2>3 DEF TypeScript!HandleLine
    <3>. QED BY <2>1, <2>2, <3>1, Settled
  <2>4. CASE UNCHANGED <<pending, promise>>
    BY <2>1, <2>2, <2>4
  <2>. QED BY <1>5, <2>3, <2>4 DEF TypeScript!Data
<1>6. CASE TypeScript!CloseEvent
  <2>1. TypeScript!Settle(pending, "rejected") /\ proc' = FALSE /\ ~alive
        /\ disposing' = (IF disposing = "waiting" THEN "done" ELSE disposing)
        /\ UNCHANGED <<TypeScript!agentVars, starts, failing, rest, missed, disposed>>
    BY <1>6 DEF TypeScript!CloseEvent, TypeScript!RejectAll
  <2>2. pending' = {}
    BY <2>1 DEF TypeScript!Settle
  <2>. QED BY <2>1, <2>2, Settled DEF TypeScript!agentVars, TypeScript!AgentTypeOK
<1>7. CASE TypeScript!Dispose
  <2>1. TypeScript!AgentTypeOK'
    BY <1>7 DEF TypeScript!Dispose, TypeScript!AgentTypeOK
  <2>2. CASE proc
    BY <1>7, <2>1, <2>2 DEF TypeScript!Dispose
  <2>3. CASE ~proc
    <3>1. TypeScript!Settle(pending, "rejected") /\ disposing' = "done"
      BY <1>7, <2>3 DEF TypeScript!Dispose, TypeScript!RejectAll
    <3>2. pending' = {}
      BY <3>1 DEF TypeScript!Settle
    <3>. QED BY <1>7, <2>1, <2>3, <3>1, <3>2, Settled DEF TypeScript!Dispose
  <2>. QED BY <2>2, <2>3
<1>8. CASE TypeScript!DisposeKill
  <2>1. TypeScript!AgentTypeOK' /\ ~alive'
    BY <1>8, TypeScriptKilled DEF TypeScript!DisposeKill, TypeScript!agentVars,
       TypeScript!AgentTypeOK
  <2>2. TypeScript!Settle(pending, "rejected")
    BY <1>8 DEF TypeScript!DisposeKill, TypeScript!RejectAll
  <2>3. pending' = {}
    BY <2>2 DEF TypeScript!Settle
  <2>. QED BY <1>8, <2>1, <2>2, <2>3, Settled DEF TypeScript!DisposeKill
<1>. QED BY <1>1, <1>2, <1>3, <1>4, <1>5, <1>6, <1>7, <1>8
         DEF TypeScript!Next, TypeScript!AgentRuns, TypeScript!Turn

LEMMA TypeScriptInvHolds ==
    ASSUME TypeScript!AgentAssumption, TypeScript!TransportAssumption
    PROVE  TypeScript!Spec => []TypeScriptInv
<1>1. TypeScript!Init => TypeScriptInv
  BY TypeScriptInit
<1>2. TypeScriptInv /\ [TypeScript!Next]_TypeScript!vars => TypeScriptInv'
  BY TypeScriptKeeps
<1>. QED BY <1>1, <1>2, PTL DEF TypeScript!Spec

\* When dispose has returned there is no process and no promise is open, for any
\* number of sends and restarts (Transport.dispose).
THEOREM DisposeLeavesNothing ==
    ASSUME TypeScript!AgentAssumption, TypeScript!TransportAssumption
    PROVE  TypeScript!Spec => [](TypeScript!TypeOK /\ TypeScript!DisposedLeavesNothing)
<1>1. TypeScriptInv => TypeScript!TypeOK /\ TypeScript!DisposedLeavesNothing
  BY DEF TypeScriptInv
<1>. QED BY <1>1, TypeScriptInvHolds, PTL

\* A promise that is settled is never settled again: no response of one process
\* is taken for that of its successor (_settle and rejectAll, by this.pending).
THEOREM PromisesSettleOnce ==
    ASSUME TypeScript!AgentAssumption, TypeScript!TransportAssumption
    PROVE  TypeScript!Spec => [][TypeScript!SettlesOnce]_TypeScript!vars
<1>1. TypeScriptInv /\ [TypeScript!Next]_TypeScript!vars
        => [TypeScript!SettlesOnce]_TypeScript!vars
  <2>. SUFFICES ASSUME TypeScriptInv, TypeScript!Next, NEW i \in TypeScript!Ops,
                       promise[i] \in {"answered", "rejected"}
                PROVE  promise'[i] = promise[i]
    BY DEF TypeScript!SettlesOnce
  <2>. USE DEF TypeScriptInv, TypeScript!TypeOK
  <2>1. ASSUME NEW S \in SUBSET pending, NEW how, TypeScript!Settle(S, how)
        PROVE  promise'[i] = promise[i]
    BY <2>1 DEF TypeScript!Settle
  <2>2. CASE UNCHANGED promise
    BY <2>2
  <2>3. ASSUME NEW j \in TypeScript!Ops, TypeScript!Send(j) PROVE promise'[i] = promise[i]
    BY <2>3 DEF TypeScript!Send, TypeScript!Refused, TypeScript!Made, TypeScript!Settle
  <2>4. ASSUME NEW j \in TypeScript!Ops, TypeScript!TimedOut(j) \/ TypeScript!WriteFailed(j)
        PROVE  promise'[i] = promise[i]
    <3>1. CASE TypeScript!Settle({j}, "rejected") /\ j \in pending
      BY <2>1, <3>1
    <3>2. CASE TypeScript!Settle({j} \intersect pending, "rejected")
      BY <2>1, <3>2
    <3>. QED BY <2>4, <3>1, <3>2 DEF TypeScript!TimedOut, TypeScript!WriteFailed
  <2>5. CASE TypeScript!Data
    <3>1. CASE TypeScript!HandleLine(Head(stdout).id)
      BY <2>1, <3>1 DEF TypeScript!HandleLine
    <3>. QED BY <2>2, <2>5, <3>1 DEF TypeScript!Data
  <2>6. CASE TypeScript!RejectAll
    BY <2>1, <2>6 DEF TypeScript!RejectAll
  <2>. QED BY <2>2, <2>3, <2>4, <2>5, <2>6
           DEF TypeScript!Next, TypeScript!AgentRuns, TypeScript!client, TypeScript!Turn,
               TypeScript!CloseEvent, TypeScript!Dispose, TypeScript!DisposeKill
<1>. QED BY <1>1, TypeScriptInvHolds, PTL DEF TypeScript!Spec

----------------------------------------------------------------------------
\* The client that the behaviour is of keeps its invariant; a step of another
\* component is none of it.
ClientsInv ==
    /\ part = "python" => PythonInv
    /\ part = "typescript" => TypeScriptInv

LEMMA ClientsInvHolds == Spec => []ClientsInv
<1>. USE EndsAssumption DEF EndsAssumption
<1>1. Init => ClientsInv
  BY PythonInit, TypeScriptInit DEF Init, ClientsInv
<1>2. ClientsInv /\ [Next]_vars => ClientsInv'
  <2>. SUFFICES ASSUME ClientsInv, [Next]_vars PROVE ClientsInv'
    OBVIOUS
  <2>1. CASE UNCHANGED vars
    <3>1. UNCHANGED part /\ UNCHANGED Python!vars /\ UNCHANGED TypeScript!vars
      BY <2>1 DEF vars, Python!vars, Python!agentVars, Python!threads,
         TypeScript!vars, TypeScript!agentVars, TypeScript!client
    <3>. QED BY <3>1, PythonKeeps, TypeScriptKeeps DEF ClientsInv
  <2>2. CASE part = "python" /\ UNCHANGED part /\ Python!Next
    BY <2>2, PythonKeeps DEF ClientsInv
  <2>3. CASE part = "typescript" /\ UNCHANGED part /\ TypeScript!Next
    BY <2>3, TypeScriptKeeps DEF ClientsInv
  <2>4. CASE part \notin {"python", "typescript"} /\ UNCHANGED part
    BY <2>4 DEF ClientsInv
  <2>. QED BY <2>1, <2>2, <2>3, <2>4 DEF Next, Step
<1>. QED BY <1>1, <1>2, PTL DEF Spec

\* What the run of this family checks of its client libraries, for any number of
\* sends, crashes and starts.
THEOREM TransportsAreRight == Spec => []TransportsHold
<1>1. ClientsInv => TransportsHold
  BY EndsAssumption, PythonInvMeans
     DEF EndsAssumption, ClientsInv, TypeScriptInv, TransportsHold
<1>. QED BY <1>1, ClientsInvHolds, PTL
=============================================================================
