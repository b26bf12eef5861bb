--------------------------- MODULE RequestNumbers ---------------------------
(* The numbers of requests (cli/playwright_observe.go): requests prints a list *)
(* of the session's network log with numbers, and request, request-headers,    *)
(* request-body, response-headers and response-body each read the log again and*)
(* take the entry of a number.  Every command is a process of its own.         *)
EXTENDS Naturals, Sequences, SequencesExt, FiniteSets

CONSTANTS Entries,    \* entries that may come to the log
          Static,     \* those of scripts, styles, images, fonts and media
          Matching,   \* those the regular expression of --filter accepts
          Options,    \* the flags of requests: a subset of {"static", "filter"} each
          Limit       \* maxPlaywrightLogEntries

NumbersAssumption ==
  /\ Static \subseteq Entries /\ Matching \subseteq Entries
  /\ Options \subseteq SUBSET {"static", "filter"} /\ Limit \in Nat \ {0}

VARIABLES log,       \* the network log of the session
          listed,    \* the list the user has before him
          stands,    \* since it was printed the log has not lost an entry
          asked      \* the last number asked for, and what was shown

vars == <<log, listed, stands, asked>>

Nothing == [number |-> 0, shown |-> "none"]
Init == log = << >> /\ listed = << >> /\ stands = FALSE /\ asked = Nothing

(* filterNetworkLog.                                                           *)
Filtered(l, filter, static) ==
  SelectSeq(l, LAMBDA e : (filter => e \in Matching) /\ (static \/ e \notin Static))

(* AppendNetworkLog and the trim: the oldest go.                               *)
Grow(e) ==
  /\ e \notin ToSet(log) /\ e \notin ToSet(listed)
  /\ log' = IF Len(log) = Limit THEN Append(Tail(log), e) ELSE Append(log, e)
  /\ stands' = (stands /\ Len(log) < Limit)
  /\ UNCHANGED <<listed, asked>>

(* network --clear and requests --clear.                                       *)
Clear ==
  /\ log # << >>
  /\ log' = << >> /\ stands' = FALSE
  /\ UNCHANGED <<listed, asked>>

Requests(o) ==
  /\ listed' = Filtered(log, "filter" \in o, "static" \in o)
  /\ stands' = TRUE
  /\ UNCHANGED <<log, asked>>

(* currentPlaywrightRequests.                                                  *)
CurrentRequests == Filtered(log, FALSE, FALSE)

(* parseRequestIndex, pickRequestEntry.                                        *)
Pick(l, n) == IF n \in 1..Len(l) THEN l[n] ELSE "error"

Request(n) ==
  /\ asked' = [number |-> n, shown |-> Pick(CurrentRequests, n)]
  /\ UNCHANGED <<log, listed, stands>>

Next ==
  \/ \E e \in Entries : Grow(e)
  \/ Clear
  \/ \E o \in Options : Requests(o)
  \/ \E n \in 1..(Limit + 1) : Request(n)

Spec == Init /\ [][Next]_vars

-------------------------------------------------------------------------------
(* The log and the list are within the limit, and no entry is in them twice.   *)
TypeOK ==
  /\ Len(log) <= Limit /\ Len(listed) <= Limit
  /\ IsInjective(log) /\ IsInjective(listed)
  /\ asked.shown \in Entries \cup {"none", "error"}

(* "Each request is numbered for use with request-level commands": while the   *)
(* log only grows, the number of the list shows the request of the list.       *)
NumberIsListed ==
  \A n \in DOMAIN listed : stands /\ Request(n) => asked'.shown = listed[n]
===============================================================================
