------------------------- MODULE ServeDaemon_proofs -------------------------
(* Theorems about ServeDaemon. *)
EXTENDS ServeDaemon, TLAPS

-----------------------------------------------------------------------------
\* Type correctness, for any tabs, limits and windows: the count of failed
\* probes stays below its limit for as long as the daemon runs.
THEOREM TypeCorrect == Spec => []TypeOK
<1> USE ServeDaemonAssumption
<1>1. Init => TypeOK
  <2> SUFFICES ASSUME Init PROVE TypeOK
    OBVIOUS
  <2>1. tabs \in [Tabs -> Urls]
    BY DEF Init, Urls
  <2>2. last \in [Tabs -> Urls] \union {Unknown}
    BY <2>1 DEF Init
  <2>3. Horizon \in Nat
    BY DEF Horizon
  <2>4. /\ chrome \in BOOLEAN /\ blanked \in BOOLEAN /\ working \in BOOLEAN
        /\ alone \in BOOLEAN /\ late \in BOOLEAN
        /\ listed \subseteq Tabs /\ asked \subseteq Tabs
        /\ pc = "wait" /\ why = "none"
    BY DEF Init
  <2>5. /\ missed \in 0..Strikes /\ missed < Strikes /\ streak \in 0..Strikes
        /\ quiet \in 0..Horizon /\ lease \in 0..Horizon
    BY <2>3 DEF Init
  <2> QED
    BY <2>1, <2>2, <2>4, <2>5 DEF TypeOK
<1>2. TypeOK /\ [Next]_vars => TypeOK'
  <2> SUFFICES ASSUME TypeOK, [Next]_vars PROVE TypeOK'
    OBVIOUS
  <2> USE DEF TypeOK, Urls, Horizon, Goto, Exit, MissedIf
  <2>1. CASE Tick
    BY <2>1 DEF Tick, world, cleanup
  <2>2. CASE Signal
    BY <2>2 DEF Signal, world, cleanup, ghosts
  <2>3. CASE ProbeOk
    BY <2>3 DEF ProbeOk, world, cleanup
  <2>4. CASE ProbeFails
    BY <2>4 DEF ProbeFails, world, cleanup
  <2>5. CASE FetchChanged
    <3>1. last' \in [Tabs -> Urls]
      BY <2>5 DEF FetchChanged, world
    <3>2. quiet' \in 0..Horizon
      BY <2>5 DEF FetchChanged
    <3> QED
      BY <2>5, <3>1, <3>2 DEF FetchChanged, world, cleanup, ghosts
  <2>6. CASE FetchCleanup
    BY <2>6 DEF FetchCleanup, world, cleanup, ghosts
  <2>7. CASE FetchIdle
    BY <2>7 DEF FetchIdle, world, cleanup, ghosts
  <2>8. CASE FetchQuiet
    BY <2>8 DEF FetchQuiet, world, cleanup, ghosts
  <2>9. CASE FetchFails
    BY <2>9 DEF FetchFails, world, cleanup
  <2>10. CASE ListTabs
    BY <2>10 DEF ListTabs, ghosts
  <2>11. CASE Replace
    BY <2>11 DEF Replace, ghosts
  <2>12. CASE CleanupEnds
    BY <2>12 DEF CleanupEnds, world, cleanup
  <2>13. CASE CleanupFails
    BY <2>13 DEF CleanupFails, world
  <2>14. CASE Refetch
    BY <2>14 DEF Refetch, world, cleanup, ghosts
  <2>15. CASE RefetchFails
    BY <2>15 DEF RefetchFails, world, cleanup
  <2>16. ASSUME NEW t \in Tabs, CloseTakesEffect(t) PROVE TypeOK'
    BY <2>16 DEF CloseTakesEffect, Closed, ghosts
  <2>17. ASSUME NEW t \in Tabs, CommandActs(t) PROVE TypeOK'
    BY <2>17 DEF CommandActs, Closed, loop, cleanup, ghosts
  <2>18. CASE CommandStarts
    BY <2>18 DEF CommandStarts, loop, cleanup, ghosts
  <2>19. CASE CommandEnds
    BY <2>19 DEF CommandEnds, loop, cleanup, ghosts
  <2>20. CASE ChromeDies
    BY <2>20 DEF ChromeDies, ghosts
  <2>21. CASE Pass
    BY <2>21 DEF Pass, Aged, cleanup, ghosts
  <2>22. CASE UNCHANGED vars
    BY <2>22 DEF vars, world, loop, cleanup, ghosts
  <2> QED
    BY <2>1, <2>2, <2>3, <2>4, <2>5, <2>6, <2>7, <2>8, <2>9, <2>10, <2>11,
       <2>12, <2>13, <2>14, <2>15, <2>16, <2>17, <2>18, <2>19, <2>20, <2>21,
       <2>22 DEF Next, Iteration
<1> QED
  BY <1>1, <1>2, PTL DEF Spec

-----------------------------------------------------------------------------
\* The daemon's own count is the number of probes that failed in a row, and a
\* daemon that has given Chrome up has counted to the limit.
StrikeInv ==
    /\ missed = streak
    /\ why = "dead" => missed = Strikes /\ pc = "exit"

\* A Chrome is given up only after Strikes failed probes in a row, whatever
\* happens between them.
THEOREM DeadAfterStrikes == Spec => []DeadOnlyAfterStrikes
<1> USE ServeDaemonAssumption
<1>1. Init => StrikeInv
  BY DEF Init, StrikeInv
<1>2. TypeOK /\ StrikeInv /\ [Next]_vars => StrikeInv'
  <2> SUFFICES ASSUME TypeOK, StrikeInv, [Next]_vars PROVE StrikeInv'
    OBVIOUS
  <2> USE DEF StrikeInv
  <2>1. CASE ProbeOk
    BY <2>1 DEF ProbeOk, Goto
  <2>2. CASE ProbeFails
    BY <2>2 DEF ProbeFails, Goto, Exit, TypeOK
  <2>3. CASE Tick \/ Signal \/ Pass
    BY <2>3 DEF Tick, Signal, Pass, Goto, Exit, ghosts
  <2>4. CASE FetchChanged \/ FetchCleanup \/ FetchIdle \/ FetchQuiet \/ FetchFails
    BY <2>4 DEF FetchChanged, FetchCleanup, FetchIdle, FetchQuiet, FetchFails,
                Goto, Exit, ghosts
  <2>5. CASE ListTabs \/ Replace \/ CleanupEnds \/ CleanupFails \/ Refetch \/ RefetchFails
    BY <2>5 DEF ListTabs, Replace, CleanupEnds, CleanupFails, Refetch,
                RefetchFails, Goto, ghosts
  <2>6. ASSUME NEW t \in Tabs, CloseTakesEffect(t) \/ CommandActs(t)
        PROVE  StrikeInv'
    BY <2>6 DEF CloseTakesEffect, CommandActs, loop, ghosts
  <2>7. CASE CommandStarts \/ CommandEnds \/ ChromeDies
    BY <2>7 DEF CommandStarts, CommandEnds, ChromeDies, loop, ghosts
  <2>8. CASE UNCHANGED vars
    BY <2>8 DEF vars, loop, ghosts
  <2> QED
    BY <2>1, <2>2, <2>3, <2>4, <2>5, <2>6, <2>7, <2>8 DEF Next, Iteration
<1>3. StrikeInv => DeadOnlyAfterStrikes
  BY DEF StrikeInv, DeadOnlyAfterStrikes
<1> QED
  BY <1>1, <1>2, <1>3, TypeCorrect, PTL DEF Spec

-----------------------------------------------------------------------------
\* While a cleanup is alone, one of the open tabs is not to be closed; when it
\* is about to open that tab it has asked for no close yet, and what it has
\* listed is still open.
KeptInv ==
    /\ ~chrome => \A t \in Tabs : ~Open(t)
    /\ pc # "replace" => listed = {}
    /\ alone /\ pc = "replace" /\ chrome => asked = {} /\ \A t \in listed : Open(t)
    /\ alone /\ chrome /\ asked # {} => \E u \in Tabs \ asked : Open(u)

\* KeptInv is an invariant.
LEMMA OneTabIsKept == Spec => []KeptInv
<1>1. Init => KeptInv
  BY DEF Init, KeptInv
<1>2. TypeOK /\ KeptInv /\ [Next]_vars => KeptInv'
  <2> SUFFICES ASSUME TypeOK, KeptInv, [Next]_vars PROVE KeptInv'
    OBVIOUS
  <2> USE DEF KeptInv, Open
  <2>1. CASE Tick \/ Signal \/ ProbeOk \/ ProbeFails
    BY <2>1 DEF Tick, Signal, ProbeOk, ProbeFails, Goto, Exit, world, cleanup
  <2>2. CASE FetchChanged \/ FetchCleanup \/ FetchIdle \/ FetchQuiet \/ FetchFails
    BY <2>2 DEF FetchChanged, FetchCleanup, FetchIdle, FetchQuiet, FetchFails,
                Goto, Exit, world, cleanup
  <2>3. CASE ListTabs
    BY <2>3 DEF ListTabs, Goto
  <2>4. CASE Replace
    <3> PICK t \in Tabs : Free(t) /\ tabs' = [tabs EXCEPT ![t] = Blank]
      BY <2>4 DEF Replace
    <3>1. asked' = asked \union listed /\ listed' = {} /\ pc' = "close"
          /\ UNCHANGED <<chrome, alone>> /\ pc = "replace" /\ chrome
      BY <2>4 DEF Replace, Goto
    <3>2. Open(t)' /\ (alone => t \notin asked')
      BY <3>1, ServeDaemonAssumption DEF Free, TypeOK
    <3> QED
      BY <3>1, <3>2
  <2>5. CASE CleanupEnds \/ CleanupFails \/ Refetch \/ RefetchFails
    BY <2>5 DEF CleanupEnds, CleanupFails, Refetch, RefetchFails, Goto, world, cleanup
  <2>6. ASSUME NEW t \in Tabs, CloseTakesEffect(t) PROVE KeptInv'
    <3>1. /\ t \in asked /\ asked' = asked \ {t}
          /\ alone' = (alone /\ asked' # {})
          /\ UNCHANGED <<pc, listed>> /\ (chrome' => chrome)
      BY <2>6 DEF CloseTakesEffect, Closed, TypeOK
    <3>2. \A u \in Tabs \ {t} : tabs'[u] = tabs[u]
      BY <2>6 DEF CloseTakesEffect, Closed, TypeOK
    <3>3. alone' => ~(pc = "replace" /\ chrome)
      BY <3>1
    <3>4. ASSUME alone', chrome', asked' # {} PROVE \E u \in Tabs \ asked' : Open(u)'
      <4>1. PICK u \in Tabs \ asked : tabs[u] # Gone
        BY <3>1, <3>4
      <4> QED
        BY <3>1, <3>2, <4>1
    <3>5. chrome' = FALSE => \A u \in Tabs : ~Open(u)'
      BY <2>6, <3>1 DEF CloseTakesEffect, Closed, TypeOK
    <3> QED
      BY <3>1, <3>3, <3>4, <3>5
  <2>7. ASSUME NEW t \in Tabs, CommandActs(t) PROVE KeptInv'
    <3>1. alone' = FALSE /\ UNCHANGED <<pc, listed>>
      BY <2>7 DEF CommandActs, loop, cleanup
    <3>2. ~chrome' => \A u \in Tabs : ~Open(u)'
      BY <2>7 DEF CommandActs, Closed, TypeOK
    <3> QED
      BY <3>1, <3>2
  <2>8. CASE CommandStarts \/ CommandEnds
    BY <2>8 DEF CommandStarts, CommandEnds, loop, cleanup
  <2>9. CASE ChromeDies
    BY <2>9 DEF ChromeDies
  <2>10. CASE Pass \/ UNCHANGED vars
    BY <2>10 DEF Pass, vars, world, loop, cleanup
  <2> QED
    BY <2>1, <2>2, <2>3, <2>4, <2>5, <2>6, <2>7, <2>8, <2>9, <2>10
       DEF Next, Iteration
<1> QED
  BY <1>1, <1>2, TypeCorrect, PTL DEF Spec

\* No close of a cleanup, however late it takes effect, makes Chrome exit by
\* taking its last tab, unless a command works on the tabs meanwhile.
THEOREM ChromeSurvivesCleanup == Spec => CleanupKeepsChrome
<1>1. TypeOK /\ KeptInv /\ [Next]_vars
        => [(\E t \in Tabs : CloseTakesEffect(t)) /\ chrome /\ alone => chrome']_vars
  <2> SUFFICES ASSUME TypeOK, KeptInv, chrome, alone,
                      NEW t \in Tabs, CloseTakesEffect(t)
               PROVE  chrome'
    OBVIOUS
  <2>1. PICK u \in Tabs \ asked : Open(u)
    BY DEF KeptInv, CloseTakesEffect
  <2> QED
    BY <2>1 DEF CloseTakesEffect, Closed
<1> QED
  BY <1>1, TypeCorrect, OneTabIsKept, PTL DEF Spec, CleanupKeepsChrome
=============================================================================
