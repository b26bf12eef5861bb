---------------------------- MODULE AgentProcess ----------------------------
(***************************************************************************)
(* The JSONL agent as its client sees it: internal/surface/cli/agent.go.   *)
(* One process reads a request per line from its standard input, runs it,  *)
(* and writes a response per line; it ends after a close op, at the end of *)
(* its input, or at any time.                                              *)
(***************************************************************************)
EXTENDS Naturals, Sequences

CONSTANTS
    NOps,        \* ops a client may send; an op stands for its own id
    MaxCrashes,
    Torn         \* whether a process may end in the middle of a line

AgentAssumption ==
    /\ NOps \in Nat \ {0} /\ MaxCrashes \in Nat
    /\ Torn \in BOOLEAN

VARIABLES
    alive,
    stdin,       \* requests not read yet
    stdinOpen,   \* the client has not closed its end
    busy,        \* the request being run
    stdout,      \* lines the client has not read yet
    crashes

agentVars == <<alive, stdin, stdinOpen, busy, stdout, crashes>>

Ops == 1..NOps
CloseOp == NOps      \* the op close, and
LastLine == NOps + 1 \* the one the Python transport sends on its own
Requests == Ops \union {LastLine}
NoOp == 0
Line(i, whole) == [id |-> i, whole |-> whole]

Fresh == alive' = TRUE /\ stdin' = <<>> /\ stdinOpen' = TRUE /\ busy' = NoOp

Exit == alive' = FALSE /\ stdin' = <<>> /\ busy' = NoOp

\* runAgentLoop: scanner.Scan, which is not asked for more while an op runs.
Scan ==
    /\ alive /\ busy = NoOp
    /\ stdin # <<>>
    /\ busy' = Head(stdin)
    /\ stdin' = Tail(stdin)
    /\ UNCHANGED <<alive, stdinOpen, stdout, crashes>>

\* RunOp and out.write; a close that went well is the last op.
RunOp ==
    /\ alive /\ busy # NoOp
    /\ stdout' = Append(stdout, Line(busy, TRUE))
    /\ IF busy \in {CloseOp, LastLine} THEN Exit
       ELSE busy' = NoOp /\ UNCHANGED <<alive, stdin>>
    /\ UNCHANGED <<stdinOpen, crashes>>

EndOfInput ==
    /\ alive /\ busy = NoOp
    /\ stdin = <<>> /\ ~stdinOpen
    /\ Exit
    /\ UNCHANGED <<stdinOpen, stdout, crashes>>

Killed ==
    /\ Exit
    /\ stdout' \in {stdout} \union
          (IF Torn /\ busy # NoOp THEN {Append(stdout, Line(busy, FALSE))} ELSE {})
    /\ UNCHANGED stdinOpen

Crash ==
    /\ alive
    /\ crashes < MaxCrashes
    /\ crashes' = crashes + 1
    /\ Killed

Agent == Scan \/ RunOp \/ EndOfInput

AgentTypeOK ==
    /\ {alive, stdinOpen} \subseteq BOOLEAN
    /\ stdin \in Seq(Requests)
    /\ busy \in Requests \union {NoOp}
    /\ stdout \in Seq([id : Requests, whole : BOOLEAN])
    /\ alive \/ (stdin = <<>> /\ busy = NoOp)
    /\ crashes \in 0..MaxCrashes
=============================================================================
