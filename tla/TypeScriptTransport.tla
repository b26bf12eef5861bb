------------------------- MODULE TypeScriptTransport ------------------------
(***************************************************************************)
(* sdk/typescript/src/transport.ts, with the client's close.  Everything   *)
(* runs in one event loop: a send, a chunk of output, a timer, an event of *)
(* the child is a turn of it.  When the child has gone the next send       *)
(* starts another.                                                         *)
(***************************************************************************)
EXTENDS AgentProcess

CONSTANT MaxStarts   \* processes one transport starts

TransportAssumption == MaxStarts \in Nat \ {0}

VARIABLES
    proc,       \* this.proc # null
    starts,
    pending,    \* the ids in this.pending
    promise,    \* of every send: not made, made, settled and how
    failing,    \* writes whose callback will have an error
    rest,       \* lineBuffer holds the beginning of a line
    missed,     \* an answer to a pending send that was read and dropped
    disposed,   \* this.disposed
    disposing   \* where dispose is

client == <<proc, starts, pending, promise, failing, rest, missed,
            disposed, disposing>>
vars == <<agentVars, client>>

Init ==
    /\ alive = FALSE /\ stdin = <<>> /\ stdinOpen = FALSE /\ busy = NoOp
    /\ stdout = <<>> /\ crashes = 0
    /\ proc = FALSE /\ starts = 0
    /\ pending = {} /\ failing = {}
    /\ promise = [i \in Ops |-> "none"]
    /\ rest = FALSE
    /\ missed = {}
    /\ disposed = FALSE
    /\ disposing = "no"

Settle(S, how) ==
    /\ pending' = pending \ S
    /\ promise' = [i \in Ops |-> IF i \in S THEN how ELSE promise[i]]

RejectAll == Settle(pending, "rejected")

\* closed of the client: no op after its close.
MaySend(i) == i # CloseOp => promise[CloseOp] = "none"

Made(i) ==
    /\ pending' = pending \union {i}
    /\ promise' = [promise EXCEPT ![i] = "pending"]

Refused(i) == Settle({i}, "rejected") /\ UNCHANGED failing

\* send, start with it when there is no process.  Of a process that has ended
\* the pipe may be known to be closed, or the write fails in a later turn.
Send(i) ==
    /\ promise[i] = "none"
    /\ MaySend(i)
    /\ \/ disposed /\ Refused(i) /\ UNCHANGED <<agentVars, proc, starts>>
       \/ /\ ~disposed /\ ~proc
          /\ starts < MaxStarts
          /\ proc' = TRUE /\ starts' = starts + 1
          /\ alive' = TRUE /\ stdinOpen' = TRUE /\ busy' = NoOp
          /\ stdin' = <<i>>
          /\ Made(i)
          /\ UNCHANGED <<stdout, crashes, failing>>
       \/ /\ ~disposed /\ proc /\ alive
          /\ stdin' = Append(stdin, i)
          /\ Made(i)
          /\ UNCHANGED <<alive, stdinOpen, busy, stdout, crashes,
                         proc, starts, failing>>
       \/ /\ ~disposed /\ proc /\ ~alive
          /\ Refused(i) \/ (Made(i) /\ failing' = failing \union {i})
          /\ UNCHANGED <<agentVars, proc, starts>>
    /\ UNCHANGED <<rest, missed, disposed, disposing>>

\* The callback of stdin.write.
WriteFailed(i) ==
    /\ i \in failing
    /\ failing' = failing \ {i}
    /\ Settle({i} \intersect pending, "rejected")
    /\ UNCHANGED <<agentVars, proc, starts, rest, missed, disposed, disposing>>

\* setTimeout of a send.
TimedOut(i) ==
    /\ i \in pending
    /\ Settle({i}, "rejected")
    /\ UNCHANGED <<agentVars, proc, starts, failing, rest, missed,
                   disposed, disposing>>

\* handleLine.
HandleLine(id) == Settle({id} \intersect pending, "answered")

\* stdout's "data": what follows the beginning of a line is the rest of it.
Data ==
    /\ proc
    /\ stdout # <<>>
    /\ LET line == Head(stdout)
       IN  /\ rest' = ~line.whole
           /\ IF line.whole /\ ~rest
              THEN HandleLine(line.id) /\ UNCHANGED missed
              ELSE /\ UNCHANGED <<pending, promise>>
                   /\ missed' = IF line.whole THEN missed \union
                                    ({line.id} \intersect pending) ELSE missed
    /\ stdout' = Tail(stdout)
    /\ UNCHANGED <<alive, stdin, stdinOpen, busy, crashes,
                   proc, starts, failing, disposed, disposing>>

\* "close": the process has ended and its output was read; dispose's own
\* listener resolves, and goes on to reject what is left.
CloseEvent ==
    /\ proc /\ ~alive
    /\ stdout = <<>>
    /\ RejectAll
    /\ proc' = FALSE
    /\ disposing' = IF disposing = "waiting" THEN "done" ELSE disposing
    /\ UNCHANGED <<agentVars, starts, failing, rest, missed, disposed>>

----------------------------------------------------------------------------
\* dispose, which the client's close calls when its op has settled.
Dispose ==
    /\ ~disposed
    /\ promise[CloseOp] \in {"answered", "rejected"}
    /\ disposed' = TRUE
    /\ IF proc
       THEN disposing' = "waiting" /\ UNCHANGED <<pending, promise>>
       ELSE disposing' = "done" /\ RejectAll
    /\ stdinOpen' = FALSE
    /\ UNCHANGED <<alive, stdin, busy, stdout, crashes,
                   proc, starts, failing, rest, missed>>

\* SIGKILL after four seconds; SIGTERM after two is a crash of the agent.
DisposeKill ==
    /\ disposing = "waiting"
    /\ IF alive THEN Killed /\ UNCHANGED crashes ELSE UNCHANGED agentVars
    /\ disposing' = "done"
    /\ RejectAll
    /\ proc' = FALSE
    /\ UNCHANGED <<starts, failing, rest, missed, disposed>>

----------------------------------------------------------------------------
Turn == Data \/ CloseEvent \/ Dispose \/ \E i \in Ops : WriteFailed(i)

AgentRuns == Agent /\ UNCHANGED client

Next ==
    \/ AgentRuns
    \/ Crash /\ UNCHANGED client
    \/ \E i \in Ops : Send(i) \/ TimedOut(i)
    \/ Turn
    \/ DisposeKill

Spec == Init /\ [][Next]_vars

\* The event loop turns and the agent ends every op (opTimeoutMs may be 0:
\* no timeout); the client need not send.
FairSpec ==
    /\ Spec
    /\ WF_vars(AgentRuns)
    /\ WF_vars(Turn)
    /\ \A i \in Ops : WF_vars(WriteFailed(i))

----------------------------------------------------------------------------
\* pending has exactly the sends whose promise is not settled.
TypeOK ==
    /\ AgentTypeOK
    /\ starts \in 0..MaxStarts
    /\ promise \in [Ops -> {"none", "pending", "answered", "rejected"}]
    /\ pending = {i \in Ops : promise[i] = "pending"}
    /\ failing \subseteq Ops
    /\ disposed = (disposing # "no")
    /\ disposing = "done" => ~proc

\* dispose: "A binary that ignores SIGTERM must never leave a zombie agent
\* behind": when it has returned there is no process and nobody waits, and no
\* later send changes that.
DisposedLeavesNothing ==
    disposing = "done" => ~alive /\ pending = {}

\* The response of a process is never taken for one of its successor, nor is
\* one run twice: every promise settles once.
SettlesOnce ==
    \A i \in Ops : promise[i] \in {"answered", "rejected"}
       => promise'[i] = promise[i]

\* Transport.send: "Send an op and return its response": an answer that was
\* read while its send was waiting is not dropped.
AnswerReadIsDelivered == missed = {}

\* Without any timeout every send settles, over the end of the process.
EverySendSettles == \A i \in Ops : promise[i] = "pending" ~> promise[i] # "pending"
=============================================================================
