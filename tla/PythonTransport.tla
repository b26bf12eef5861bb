--------------------------- MODULE PythonTransport --------------------------
(***************************************************************************)
(* sdk/python/ghostchrome/transport.py, with the client's close.  Threads  *)
(* send ops through one agent process; a reader thread hands every         *)
(* response to the queue of the send that waits for its id.  A send of the *)
(* model is named by its id.                                               *)
(***************************************************************************)
EXTENDS AgentProcess

VARIABLES
    pc,       \* of every send
    result,   \* what it returned or raised
    queues,   \* _queues: the ids with a queue
    mail,     \* what is first in an id's queue
    writer,   \* the send that has _lock
    closed,   \* _closed
    reader,   \* the reader thread runs
    closer    \* where close is

threads == <<pc, result, queues, mail, writer, closed, reader, closer>>
vars == <<agentVars, threads>>

None == 0
Outcome(how, id) == [how |-> how, id |-> id]
Nothing == Outcome("", None)
Raise(e) == Outcome(e, None)    \* a Python exception
Answer(id) == Outcome("answer", id)
Eof == Outcome("eof", None)     \* the sentinel of _dispatch_eof

Init ==
    /\ alive = TRUE /\ stdin = <<>> /\ stdinOpen = TRUE /\ busy = NoOp
    /\ stdout = <<>> /\ crashes = 0
    /\ pc = [i \in Ops |-> "idle"]
    /\ result = [i \in Ops |-> Nothing]
    /\ queues = {}
    /\ mail = [i \in Ops |-> Nothing]
    /\ writer = None
    /\ closed = FALSE
    /\ reader = TRUE
    /\ closer = "no"

\* The finally of send.
Return(i, r) ==
    /\ pc' = [pc EXCEPT ![i] = "done"]
    /\ result' = [result EXCEPT ![i] = r]
    /\ queues' = queues \ {i}
    /\ mail' = [mail EXCEPT ![i] = Nothing]

\* send up to its queue.
Enter(i) ==
    /\ pc[i] = "idle"
    /\ IF closed THEN Return(i, Raise("TransportError"))
       ELSE /\ pc' = [pc EXCEPT ![i] = "queued"]
            /\ queues' = queues \union {i}
            /\ UNCHANGED <<result, mail>>
    /\ UNCHANGED <<agentVars, writer, closed, reader, closer>>

\* with self._lock: the pipe is looked at before it is written to.
Lock(i) ==
    /\ pc[i] = "queued"
    /\ writer = None
    /\ IF stdinOpen
       THEN /\ pc' = [pc EXCEPT ![i] = "writing"]
            /\ writer' = i
            /\ UNCHANGED <<result, queues, mail>>
       ELSE Return(i, Raise("TransportError")) /\ UNCHANGED writer
    /\ UNCHANGED <<agentVars, closed, reader, closer>>

Write(i) ==
    /\ pc[i] = "writing"
    /\ writer' = None
    /\ IF stdinOpen /\ alive
       THEN /\ stdin' = Append(stdin, i)
            /\ pc' = [pc EXCEPT ![i] = "sent"]
            /\ UNCHANGED <<result, queues, mail>>
       ELSE /\ Return(i, Raise(IF stdinOpen THEN "OSError" ELSE "ValueError"))
            /\ UNCHANGED stdin
    /\ UNCHANGED <<alive, stdinOpen, busy, stdout, crashes, closed, reader, closer>>

\* q.get returns.
Get(i) ==
    /\ pc[i] = "sent"
    /\ mail[i] # Nothing
    /\ Return(i, mail[i])
    /\ UNCHANGED <<agentVars, writer, closed, reader, closer>>

\* q.get raises Empty; the op may still be run, and its answer read later.
TimeOut(i) ==
    /\ pc[i] = "sent"
    /\ mail[i] = Nothing
    /\ Return(i, Raise("TransportError"))
    /\ UNCHANGED <<agentVars, writer, closed, reader, closer>>

\* Mutant: a response goes to the send that has waited longest.
DispatchLineFirst(line) ==
    /\ queues # {}
    /\ \E i \in queues : (\A j \in queues : i <= j)
                         /\ mail' = [mail EXCEPT ![i] = Answer(line.id)]

\* _dispatch_line: a line that is no JSON or has no queue is ignored.
DispatchLine(line) ==
    IF line.whole /\ line.id \in queues
    THEN mail' = [mail EXCEPT ![line.id] = Answer(line.id)]
    ELSE UNCHANGED mail

\* _dispatch_eof: the sentinel is second in a queue that has an answer.
DispatchEof ==
    mail' = [i \in Ops |-> IF i \in queues /\ mail[i] = Nothing THEN Eof ELSE mail[i]]

\* _read_loop.
ReadLoop ==
    /\ reader
    /\ \/ /\ stdout # <<>>
          /\ DispatchLine(Head(stdout))
          /\ stdout' = Tail(stdout)
          /\ UNCHANGED reader
       \/ /\ stdout = <<>> /\ ~alive
          /\ DispatchEof
          /\ reader' = FALSE
          /\ UNCHANGED stdout
    /\ UNCHANGED <<alive, stdin, stdinOpen, busy, crashes,
                   pc, result, queues, writer, closed, closer>>

----------------------------------------------------------------------------
\* Ghostchrome.close, when its close op has an answer, and what other threads
\* that call the transport's close do.
CloseBegin ==
    /\ closer = "no"
    /\ pc[CloseOp] = "done"
    /\ closed' = TRUE
    /\ closer' = "closing"
    /\ UNCHANGED <<agentVars, pc, result, queues, mail, writer, reader>>

\* A close request of its own and the end of the input, without _lock.
CloseWrite ==
    /\ closer = "closing"
    /\ stdin' = IF alive THEN Append(stdin, LastLine) ELSE stdin
    /\ stdinOpen' = FALSE
    /\ closer' = "waiting"
    /\ UNCHANGED <<alive, busy, stdout, crashes,
                   pc, result, queues, mail, writer, closed, reader>>

\* _proc.wait, and the kill after five seconds.
CloseWait ==
    /\ closer = "waiting"
    /\ IF alive THEN Killed /\ UNCHANGED crashes ELSE UNCHANGED agentVars
    /\ closer' = "done"
    /\ UNCHANGED <<pc, result, queues, mail, writer, closed, reader>>

----------------------------------------------------------------------------
Thread(i) == Enter(i) \/ Lock(i) \/ Write(i) \/ Get(i)
Closer == CloseBegin \/ CloseWrite \/ CloseWait

AgentRuns == Agent /\ UNCHANGED threads

Next ==
    \/ AgentRuns
    \/ Crash /\ UNCHANGED threads
    \/ \E i \in Ops : Thread(i) \/ TimeOut(i)
    \/ ReadLoop
    \/ Closer

Spec == Init /\ [][Next]_vars

\* The threads run, and the agent ends every op; no timeout need ever fire.
FairSpec ==
    /\ Spec
    /\ WF_vars(AgentRuns)
    /\ WF_vars(ReadLoop)
    /\ \A i \in Ops : WF_vars(Lock(i) \/ Write(i) \/ Get(i))

----------------------------------------------------------------------------
\* A queue is there exactly while its send is in flight, and one send writes.
TypeOK ==
    /\ AgentTypeOK
    /\ pc \in [Ops -> {"idle", "queued", "writing", "sent", "done"}]
    /\ queues = {i \in Ops : pc[i] \in {"queued", "writing", "sent"}}
    /\ \A i \in Ops : mail[i] # Nothing => i \in queues
    /\ {i \in Ops : pc[i] = "writing"} = {writer} \ {None}
    /\ closer \in {"no", "closing", "waiting", "done"}
    /\ closed = (closer # "no")

\* What a send returns is the response to its own op, after timeouts, crashes
\* and late answers too (correlation by id), or the sentinel of the end.
OwnAnswer ==
    \A i \in Ops : result[i].how = "answer" => result[i].id = i

\* The sentinel is never said of a process that runs.
EofIsTheEnd == \A i \in Ops : Eof \in {mail[i], result[i]} => ~alive

\* Transport.close: "Cleanly shut down the transport and release resources":
\* when close has returned there is no process, however long its last op.
ClosedLeavesNoProcess == closer = "done" => ~alive

\* Transport.send: "Raises: TransportError: on I/O failure".
FailsAsTransportError ==
    \A i \in Ops : result[i].how \notin {"OSError", "ValueError"}

\* Without any timeout every send ends: by its answer, or since the process
\* has (_dispatch_eof: "unblock all waiting send() calls").
EverySendEnds == \A i \in Ops : pc[i] = "queued" ~> pc[i] = "done"
=============================================================================
