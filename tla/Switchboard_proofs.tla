-------------------------- MODULE Switchboard_proofs ---------------------------
(***************************************************************************)
(* The switchboard keeps its promises for any number of requests,          *)
(* rollouts, route keys and upstreams: a drain that was told is over, no   *)
(* request of the table in force is cut, no drain is forgotten, what is    *)
(* routed runs, and what a rollout stops was drained.                      *)
(***************************************************************************)
EXTENDS Switchboard, TLAPS

-----------------------------------------------------------------------------
(***************************************************************************)
(* What the board keeps, step by step.                                     *)
(***************************************************************************)
\* A rollout that has not cut over has no cutover, and none that was told.
Composing ==
    \A c \in Rollouts : at[c] \in {"idle", "gating", "composed"} =>
        box[c] = "none" /\ c \notin told /\ c \notin unrouted

\* A cutover is told once, at its end, and of a retiree.
Telling ==
    \A c \in Rollouts : box[c] # "none" =>
        c \notin told /\ (box[c] = "draining" => Retiree(c) # Nothing)

\* The table in force does not route what no table has since it was retired.
UnroutedNow == \A c \in unrouted : Retiree(c) \notin Routed(table)

\* A request that is late for such a retiree read a table since replaced.
Late ==
    \A c \in unrouted, r \in Requests :
        at[r] \in {"read", "taken"} /\ on[r] = Retiree(c) => r \in stale

\* One that is not late goes where the table says.
Fresh ==
    \A r \in Requests : at[r] # "idle" /\ r \notin stale => on[r] = table[key[r]]

BoardInv == Composing /\ Telling /\ UnroutedNow /\ Late /\ Fresh

-----------------------------------------------------------------------------
(***************************************************************************)
(* What the rollout at work knows.                                         *)
(***************************************************************************)
Works(c) == at[c] \notin {"idle", "ended"}

\* The lease: one works at a time.
OneWorks == \A c, d \in Rollouts : Works(c) /\ Works(d) => c = d

\* What it rolls out runs, and what that displaces.
Aims ==
    \A c \in Rollouts :
        /\ Works(c) => target[c] \in Upstreams
        /\ at[c] \in {"gating", "composed", "waiting", "failed"} => target[c] \notin stopped
        /\ at[c] \in {"composed", "waiting", "failed"} =>
               prior[c] \in Upstreams /\ prior[c] \notin stopped

\* What it asks about is routed by no table the file does not route it by.
Asks ==
    \A c \in Rollouts :
        /\ at[c] \in {"asking", "reading"} =>
               asked \in Upstreams /\ (asked \in Routed(table) => asked \in Routed(file))
        /\ at[c] = "stopping" =>
               asked \in Upstreams /\ asked \notin Routed(table) /\ asked \notin Routed(file)

\* While it works nothing routes its retiree again but the file it wrote.
Retired ==
    \A c \in Rollouts :
        /\ at[c] = "waiting" /\ box[c] \in {"loaded", "draining"} =>
               (Retiree(c) \notin Routed(file) => c \in unrouted)
        /\ \/ at[c] = "told"
           \/ at[c] \in {"asking", "reading", "stopping"} /\ asked = Retiree(c)
           => /\ c \in told /\ Retiree(c) # Nothing
              /\ Retiree(c) \notin Routed(file) => c \in unrouted

RolloutInv == OneWorks /\ Aims /\ Asks /\ Retired

IInv ==
    /\ TypeOK /\ BoardInv /\ RolloutInv
    /\ DrainedIsOver /\ CutsOnlyReplaced /\ RoutedRuns /\ DrainsHear
-----------------------------------------------------------------------------
(***************************************************************************)
(* Proofs                                                                  *)
(***************************************************************************)
\* Every step keeps the types.
LEMMA TypeStep ==
    TypeOK /\ BoardInv /\ RolloutInv /\ [Next]_vars => TypeOK'
<1> SUFFICES ASSUME TypeOK /\ BoardInv /\ RolloutInv, [Next]_vars PROVE TypeOK'
  OBVIOUS
<1> USE SwitchboardAssumption DEF TypeOK, RequestPhases, RolloutPhases, CutoverPhases
<1>1. ASSUME NEW r \in Requests, ReadTable(r) PROVE TypeOK'
  BY <1>1 DEF ReadTable, At, Goto, rollouts, cutovers, board
<1>2. ASSUME NEW r \in Requests, Take(r) PROVE TypeOK'
  BY <1>2 DEF Take, At, Goto, rollouts, cutovers, board, requests
<1>3. ASSUME NEW r \in Requests, Check(r) PROVE TypeOK'
  BY <1>3 DEF Check, Drop, InFlight, At, Goto, rollouts, cutovers, board, requests
<1>4. ASSUME NEW r \in Requests, End(r) PROVE TypeOK'
  BY <1>4 DEF End, Drop, InFlight, At, Goto, rollouts, cutovers, board
<1>5. ASSUME NEW c \in Rollouts, CutoverLoads(c) PROVE TypeOK'
  BY <1>5 DEF CutoverLoads, Boxed, BoxTo, Load, rollouts, board, requests
<1>6. ASSUME NEW c \in Rollouts, LoadFails(c) PROVE TypeOK'
  BY <1>6 DEF LoadFails, Boxed, BoxTo, Ends, rollouts, board, requests
<1>7. ASSUME NEW c \in Rollouts, Quiet(c) PROVE TypeOK'
  BY <1>7 DEF Quiet, Boxed, BoxTo, InFlight, rollouts, board, requests
<1>8. ASSUME NEW c \in Rollouts, RetiresNothing(c) PROVE TypeOK'
  BY <1>8 DEF RetiresNothing, Boxed, BoxTo, Ends, rollouts, board, requests
<1>9. ASSUME NEW c \in Rollouts, Drained(c) PROVE TypeOK'
  BY <1>9 DEF
    Drained, Boxed, Tells, Ends, BoxTo, CutUnrouted, InFlight, rollouts, board, requests
<1>10. ASSUME NEW c \in Rollouts, Expires(c) PROVE TypeOK'
  BY <1>10 DEF
    Expires, Boxed, Tells, Ends, BoxTo, CutUnrouted, InFlight, rollouts, board, requests
<1>11. ASSUME NEW c \in Rollouts, CutShort(c) PROVE TypeOK'
  BY <1>11 DEF CutShort, Boxed, BoxTo, Ends, rollouts, board, requests
<1>12. ASSUME NEW c \in Rollouts, Start(c) PROVE TypeOK'
  BY <1>12 DEF
    Start, Working, At, Goto, rollouts, cutovers, board, requests, BoardUnchanged
<1>13. ASSUME NEW c \in Rollouts, GateFails(c) PROVE TypeOK'
  BY <1>13 DEF GateFails, At, Goto, rollouts, cutovers, board, requests, BoardUnchanged
<1>14. ASSUME NEW c \in Rollouts, Compose(c) PROVE TypeOK'
  <2>1. key[c] \in Keys /\ target[c] \in Upstreams /\ file[key[c]] \in Upstreams
    BY <1>14 DEF Compose, At, RolloutInv, Aims, Works
  <2>2. prior' \in [Rollouts -> Upstreams \cup {Nothing}]
    BY <1>14, <2>1 DEF Compose
  <2>3. file' \in [Keys -> Upstreams]
    BY <1>14, <2>1 DEF Compose
  <2> QED
    BY <1>14, <2>2, <2>3 DEF Compose, At, Goto, rollouts, cutovers, board, requests, BoardUnchanged
<1>15. ASSUME NEW c \in Rollouts, NotTakenUp(c) PROVE TypeOK'
  BY <1>15 DEF
    NotTakenUp, PutBack, At, Goto, rollouts, cutovers, board, requests, BoardUnchanged,
    Aims, Works, RolloutInv
<1>16. ASSUME NEW c \in Rollouts, Retires(c) PROVE TypeOK'
  BY <1>16 DEF
    Retires, BoxTo, At, Goto, rollouts, cutovers, board, requests, BoardUnchanged,
    BoardInv, Composing
<1>17. ASSUME NEW c \in Rollouts, LosesTouch(c) PROVE TypeOK'
  BY <1>17 DEF LosesTouch, At, Goto, rollouts, cutovers, board, requests, BoardUnchanged
<1>18. ASSUME NEW c \in Rollouts, RestoreFile(c) PROVE TypeOK'
  BY <1>18 DEF
    RestoreFile, PutBack, At, Goto, rollouts, cutovers, board, requests, BoardUnchanged,
    Aims, Works, RolloutInv
<1>19. ASSUME NEW c \in Rollouts, RestoreBoard(c) PROVE TypeOK'
  BY <1>19 DEF
    RestoreBoard, Load, At, Goto, rollouts, cutovers, board, requests, BoardUnchanged
<1>20. ASSUME NEW c \in Rollouts, AskIdle(c) PROVE TypeOK'
  BY <1>20 DEF
    AskIdle, Unneeded, At, Goto, rollouts, cutovers, board, requests, BoardUnchanged,
    Retiree
<1>21. ASSUME NEW c \in Rollouts, AnswerIdle(c) PROVE TypeOK'
  BY <1>21 DEF AnswerIdle, At, Goto, rollouts, cutovers, board, requests, BoardUnchanged
<1>22. ASSUME NEW c \in Rollouts, ReadFile(c) PROVE TypeOK'
  BY <1>22 DEF ReadFile, At, Goto, rollouts, cutovers, board, requests, BoardUnchanged
<1>23. ASSUME NEW c \in Rollouts, Stop(c) PROVE TypeOK'
  BY <1>23 DEF
    Stop, At, Goto, rollouts, cutovers, board, requests, BoardUnchanged, Asks,
    RolloutInv
<1>24. ASSUME NEW c \in Rollouts, Dies(c) PROVE TypeOK'
  BY <1>24 DEF Dies, At, Goto, rollouts, cutovers, board, requests, BoardUnchanged
<1>25. CASE LoadByOthers
  BY <1>25 DEF LoadByOthers, Load, rollouts, cutovers
<1>26. CASE UNCHANGED vars
  BY <1>26 DEF vars, rollouts, cutovers, board, requests
<1> QED
  BY <1>1, <1>2, <1>3, <1>4, <1>5, <1>6, <1>7, <1>8, <1>9, <1>10, <1>11, <1>12, <1>13, <1>14, <1>15, <1>16, <1>17, <1>18, <1>19, <1>20, <1>21, <1>22, <1>23, <1>24, <1>25, <1>26 DEF
    Next, Requesting, Boarding, Rolling

\* Every step keeps what the board keeps.
LEMMA BoardStep ==
    TypeOK /\ BoardInv /\ [Next]_vars => BoardInv'
<1> SUFFICES ASSUME TypeOK /\ BoardInv, [Next]_vars PROVE BoardInv'
  OBVIOUS
<1> USE SwitchboardAssumption DEF
      TypeOK, RequestPhases, RolloutPhases, CutoverPhases, BoardInv, Composing, Telling,
      UnroutedNow, Late, Fresh, Retiree, Routed
<1>1. ASSUME NEW r \in Requests, ReadTable(r) PROVE BoardInv'
  BY <1>1 DEF ReadTable, At, Goto, rollouts, cutovers, board
<1>2. ASSUME NEW r \in Requests, Take(r) PROVE BoardInv'
  BY <1>2 DEF Take, At, Goto, rollouts, cutovers, board, requests
<1>3. ASSUME NEW r \in Requests, Check(r) PROVE BoardInv'
  BY <1>3 DEF Check, Drop, InFlight, At, Goto, rollouts, cutovers, board, requests
<1>4. ASSUME NEW r \in Requests, End(r) PROVE BoardInv'
  BY <1>4 DEF End, Drop, InFlight, At, Goto, rollouts, cutovers, board
<1>5. ASSUME NEW c \in Rollouts, CutoverLoads(c) PROVE BoardInv'
  BY <1>5 DEF CutoverLoads, Boxed, BoxTo, Load, rollouts, board, requests
<1>6. ASSUME NEW c \in Rollouts, LoadFails(c) PROVE BoardInv'
  BY <1>6 DEF LoadFails, Boxed, BoxTo, Ends, rollouts, board, requests
<1>7. ASSUME NEW c \in Rollouts, Quiet(c) PROVE BoardInv'
  BY <1>7 DEF Quiet, Boxed, BoxTo, InFlight, rollouts, board, requests
<1>8. ASSUME NEW c \in Rollouts, RetiresNothing(c) PROVE BoardInv'
  BY <1>8 DEF RetiresNothing, Boxed, BoxTo, Ends, rollouts, board, requests
<1>9. ASSUME NEW c \in Rollouts, Drained(c) PROVE BoardInv'
  BY <1>9 DEF
    Drained, Boxed, Tells, Ends, BoxTo, CutUnrouted, InFlight, rollouts, board, requests
<1>10. ASSUME NEW c \in Rollouts, Expires(c) PROVE BoardInv'
  BY <1>10 DEF
    Expires, Boxed, Tells, Ends, BoxTo, CutUnrouted, InFlight, rollouts, board, requests
<1>11. ASSUME NEW c \in Rollouts, CutShort(c) PROVE BoardInv'
  BY <1>11 DEF CutShort, Boxed, BoxTo, Ends, rollouts, board, requests
<1>12. ASSUME NEW c \in Rollouts, Start(c) PROVE BoardInv'
  BY <1>12 DEF
    Start, Working, At, Goto, rollouts, cutovers, board, requests, BoardUnchanged
<1>13. ASSUME NEW c \in Rollouts, GateFails(c) PROVE BoardInv'
  BY <1>13 DEF GateFails, At, Goto, rollouts, cutovers, board, requests, BoardUnchanged
<1>14. ASSUME NEW c \in Rollouts, Compose(c) PROVE BoardInv'
  BY <1>14 DEF Compose, At, Goto, rollouts, cutovers, board, requests, BoardUnchanged
<1>15. ASSUME NEW c \in Rollouts, NotTakenUp(c) PROVE BoardInv'
  BY <1>15 DEF
    NotTakenUp, PutBack, At, Goto, rollouts, cutovers, board, requests, BoardUnchanged
<1>16. ASSUME NEW c \in Rollouts, Retires(c) PROVE BoardInv'
  BY <1>16 DEF
    Retires, BoxTo, At, Goto, rollouts, cutovers, board, requests, BoardUnchanged
<1>17. ASSUME NEW c \in Rollouts, LosesTouch(c) PROVE BoardInv'
  BY <1>17 DEF LosesTouch, At, Goto, rollouts, cutovers, board, requests, BoardUnchanged
<1>18. ASSUME NEW c \in Rollouts, RestoreFile(c) PROVE BoardInv'
  BY <1>18 DEF
    RestoreFile, PutBack, At, Goto, rollouts, cutovers, board, requests, BoardUnchanged
<1>19. ASSUME NEW c \in Rollouts, RestoreBoard(c) PROVE BoardInv'
  BY <1>19 DEF
    RestoreBoard, Load, At, Goto, rollouts, cutovers, board, requests, BoardUnchanged
<1>20. ASSUME NEW c \in Rollouts, AskIdle(c) PROVE BoardInv'
  BY <1>20 DEF
    AskIdle, Unneeded, At, Goto, rollouts, cutovers, board, requests, BoardUnchanged
<1>21. ASSUME NEW c \in Rollouts, AnswerIdle(c) PROVE BoardInv'
  BY <1>21 DEF AnswerIdle, At, Goto, rollouts, cutovers, board, requests, BoardUnchanged
<1>22. ASSUME NEW c \in Rollouts, ReadFile(c) PROVE BoardInv'
  BY <1>22 DEF ReadFile, At, Goto, rollouts, cutovers, board, requests, BoardUnchanged
<1>23. ASSUME NEW c \in Rollouts, Stop(c) PROVE BoardInv'
  BY <1>23 DEF Stop, At, Goto, rollouts, cutovers, board, requests, BoardUnchanged
<1>24. ASSUME NEW c \in Rollouts, Dies(c) PROVE BoardInv'
  BY <1>24 DEF Dies, At, Goto, rollouts, cutovers, board, requests, BoardUnchanged
<1>25. CASE LoadByOthers
  BY <1>25 DEF LoadByOthers, Load, rollouts, cutovers
<1>26. CASE UNCHANGED vars
  BY <1>26 DEF vars, rollouts, cutovers, board, requests
<1> QED
  BY <1>1, <1>2, <1>3, <1>4, <1>5, <1>6, <1>7, <1>8, <1>9, <1>10, <1>11, <1>12, <1>13, <1>14, <1>15, <1>16, <1>17, <1>18, <1>19, <1>20, <1>21, <1>22, <1>23, <1>24, <1>25, <1>26 DEF
    Next, Requesting, Boarding, Rolling

\* Every step keeps a drain that was told over.
LEMMA DrainedStep ==
    TypeOK /\ BoardInv /\ DrainedIsOver /\ [Next]_vars => DrainedIsOver'
<1> SUFFICES ASSUME TypeOK /\ BoardInv /\ DrainedIsOver, [Next]_vars PROVE DrainedIsOver'
  OBVIOUS
<1> USE SwitchboardAssumption DEF
      TypeOK, RequestPhases, RolloutPhases, CutoverPhases, BoardInv, Composing, Telling,
      UnroutedNow, Late, Fresh, Retiree, Routed, DrainedIsOver, At
<1>1. ASSUME NEW r \in Requests, ReadTable(r) PROVE DrainedIsOver'
  BY <1>1 DEF ReadTable, At, Goto, rollouts, cutovers, board
<1>2. ASSUME NEW r \in Requests, Take(r) PROVE DrainedIsOver'
  BY <1>2 DEF Take, At, Goto, rollouts, cutovers, board, requests
<1>3. ASSUME NEW r \in Requests, Check(r) PROVE DrainedIsOver'
  BY <1>3 DEF Check, Drop, InFlight, At, Goto, rollouts, cutovers, board, requests
<1>4. ASSUME NEW r \in Requests, End(r) PROVE DrainedIsOver'
  BY <1>4 DEF End, Drop, InFlight, At, Goto, rollouts, cutovers, board
<1>5. ASSUME NEW c \in Rollouts, CutoverLoads(c) PROVE DrainedIsOver'
  BY <1>5 DEF CutoverLoads, Boxed, BoxTo, Load, rollouts, board, requests
<1>6. ASSUME NEW c \in Rollouts, LoadFails(c) PROVE DrainedIsOver'
  BY <1>6 DEF LoadFails, Boxed, BoxTo, Ends, rollouts, board, requests
<1>7. ASSUME NEW c \in Rollouts, Quiet(c) PROVE DrainedIsOver'
  BY <1>7 DEF Quiet, Boxed, BoxTo, InFlight, rollouts, board, requests
<1>8. ASSUME NEW c \in Rollouts, RetiresNothing(c) PROVE DrainedIsOver'
  BY <1>8 DEF RetiresNothing, Boxed, BoxTo, Ends, rollouts, board, requests
<1>9. ASSUME NEW c \in Rollouts, Drained(c) PROVE DrainedIsOver'
  BY <1>9 DEF
    Drained, Boxed, Tells, Ends, BoxTo, CutUnrouted, InFlight, rollouts, board, requests
<1>10. ASSUME NEW c \in Rollouts, Expires(c) PROVE DrainedIsOver'
  BY <1>10 DEF
    Expires, Boxed, Tells, Ends, BoxTo, CutUnrouted, InFlight, rollouts, board, requests
<1>11. ASSUME NEW c \in Rollouts, CutShort(c) PROVE DrainedIsOver'
  BY <1>11 DEF CutShort, Boxed, BoxTo, Ends, rollouts, board, requests
<1>12. ASSUME NEW c \in Rollouts, Start(c) PROVE DrainedIsOver'
  BY <1>12 DEF
    Start, Working, At, Goto, rollouts, cutovers, board, requests, BoardUnchanged
<1>13. ASSUME NEW c \in Rollouts, GateFails(c) PROVE DrainedIsOver'
  BY <1>13 DEF GateFails, At, Goto, rollouts, cutovers, board, requests, BoardUnchanged
<1>14. ASSUME NEW c \in Rollouts, Compose(c) PROVE DrainedIsOver'
  BY <1>14 DEF Compose, At, Goto, rollouts, cutovers, board, requests, BoardUnchanged
<1>15. ASSUME NEW c \in Rollouts, NotTakenUp(c) PROVE DrainedIsOver'
  BY <1>15 DEF
    NotTakenUp, PutBack, At, Goto, rollouts, cutovers, board, requests, BoardUnchanged
<1>16. ASSUME NEW c \in Rollouts, Retires(c) PROVE DrainedIsOver'
  BY <1>16 DEF
    Retires, BoxTo, At, Goto, rollouts, cutovers, board, requests, BoardUnchanged
<1>17. ASSUME NEW c \in Rollouts, LosesTouch(c) PROVE DrainedIsOver'
  BY <1>17 DEF LosesTouch, At, Goto, rollouts, cutovers, board, requests, BoardUnchanged
<1>18. ASSUME NEW c \in Rollouts, RestoreFile(c) PROVE DrainedIsOver'
  BY <1>18 DEF
    RestoreFile, PutBack, At, Goto, rollouts, cutovers, board, requests, BoardUnchanged
<1>19. ASSUME NEW c \in Rollouts, RestoreBoard(c) PROVE DrainedIsOver'
  BY <1>19 DEF
    RestoreBoard, Load, At, Goto, rollouts, cutovers, board, requests, BoardUnchanged
<1>20. ASSUME NEW c \in Rollouts, AskIdle(c) PROVE DrainedIsOver'
  BY <1>20 DEF
    AskIdle, Unneeded, At, Goto, rollouts, cutovers, board, requests, BoardUnchanged
<1>21. ASSUME NEW c \in Rollouts, AnswerIdle(c) PROVE DrainedIsOver'
  BY <1>21 DEF AnswerIdle, At, Goto, rollouts, cutovers, board, requests, BoardUnchanged
<1>22. ASSUME NEW c \in Rollouts, ReadFile(c) PROVE DrainedIsOver'
  BY <1>22 DEF ReadFile, At, Goto, rollouts, cutovers, board, requests, BoardUnchanged
<1>23. ASSUME NEW c \in Rollouts, Stop(c) PROVE DrainedIsOver'
  BY <1>23 DEF Stop, At, Goto, rollouts, cutovers, board, requests, BoardUnchanged
<1>24. ASSUME NEW c \in Rollouts, Dies(c) PROVE DrainedIsOver'
  BY <1>24 DEF Dies, At, Goto, rollouts, cutovers, board, requests, BoardUnchanged
<1>25. CASE LoadByOthers
  BY <1>25 DEF LoadByOthers, Load, rollouts, cutovers
<1>26. CASE UNCHANGED vars
  BY <1>26 DEF vars, rollouts, cutovers, board, requests
<1> QED
  BY <1>1, <1>2, <1>3, <1>4, <1>5, <1>6, <1>7, <1>8, <1>9, <1>10, <1>11, <1>12, <1>13, <1>14, <1>15, <1>16, <1>17, <1>18, <1>19, <1>20, <1>21, <1>22, <1>23, <1>24, <1>25, <1>26 DEF
    Next, Requesting, Boarding, Rolling

\* No step cuts a request of the table in force.
LEMMA CutStep ==
    TypeOK /\ BoardInv /\ CutsOnlyReplaced /\ [Next]_vars => CutsOnlyReplaced'
<1> SUFFICES ASSUME TypeOK /\ BoardInv /\ CutsOnlyReplaced, [Next]_vars PROVE CutsOnlyReplaced'
  OBVIOUS
<1> USE SwitchboardAssumption DEF
      TypeOK, RequestPhases, RolloutPhases, CutoverPhases, BoardInv, Composing, Telling,
      UnroutedNow, Late, Fresh, Retiree, Routed, CutsOnlyReplaced
<1>1. ASSUME NEW r \in Requests, ReadTable(r) PROVE CutsOnlyReplaced'
  BY <1>1 DEF ReadTable, At, Goto, rollouts, cutovers, board
<1>2. ASSUME NEW r \in Requests, Take(r) PROVE CutsOnlyReplaced'
  BY <1>2 DEF Take, At, Goto, rollouts, cutovers, board, requests
<1>3. ASSUME NEW r \in Requests, Check(r) PROVE CutsOnlyReplaced'
  BY <1>3 DEF Check, Drop, InFlight, At, Goto, rollouts, cutovers, board, requests
<1>4. ASSUME NEW r \in Requests, End(r) PROVE CutsOnlyReplaced'
  BY <1>4 DEF End, Drop, InFlight, At, Goto, rollouts, cutovers, board
<1>5. ASSUME NEW c \in Rollouts, CutoverLoads(c) PROVE CutsOnlyReplaced'
  BY <1>5 DEF CutoverLoads, Boxed, BoxTo, Load, rollouts, board, requests
<1>6. ASSUME NEW c \in Rollouts, LoadFails(c) PROVE CutsOnlyReplaced'
  BY <1>6 DEF LoadFails, Boxed, BoxTo, Ends, rollouts, board, requests
<1>7. ASSUME NEW c \in Rollouts, Quiet(c) PROVE CutsOnlyReplaced'
  BY <1>7 DEF Quiet, Boxed, BoxTo, InFlight, rollouts, board, requests
<1>8. ASSUME NEW c \in Rollouts, RetiresNothing(c) PROVE CutsOnlyReplaced'
  BY <1>8 DEF RetiresNothing, Boxed, BoxTo, Ends, rollouts, board, requests
<1>9. ASSUME NEW c \in Rollouts, Drained(c) PROVE CutsOnlyReplaced'
  BY <1>9 DEF
    Drained, Boxed, Tells, Ends, BoxTo, CutUnrouted, InFlight, rollouts, board, requests
<1>10. ASSUME NEW c \in Rollouts, Expires(c) PROVE CutsOnlyReplaced'
  BY <1>10 DEF
    Expires, Boxed, Tells, Ends, BoxTo, CutUnrouted, InFlight, rollouts, board, requests
<1>11. ASSUME NEW c \in Rollouts, CutShort(c) PROVE CutsOnlyReplaced'
  BY <1>11 DEF CutShort, Boxed, BoxTo, Ends, rollouts, board, requests
<1>12. ASSUME NEW c \in Rollouts, Start(c) PROVE CutsOnlyReplaced'
  BY <1>12 DEF
    Start, Working, At, Goto, rollouts, cutovers, board, requests, BoardUnchanged
<1>13. ASSUME NEW c \in Rollouts, GateFails(c) PROVE CutsOnlyReplaced'
  BY <1>13 DEF GateFails, At, Goto, rollouts, cutovers, board, requests, BoardUnchanged
<1>14. ASSUME NEW c \in Rollouts, Compose(c) PROVE CutsOnlyReplaced'
  BY <1>14 DEF Compose, At, Goto, rollouts, cutovers, board, requests, BoardUnchanged
<1>15. ASSUME NEW c \in Rollouts, NotTakenUp(c) PROVE CutsOnlyReplaced'
  BY <1>15 DEF
    NotTakenUp, PutBack, At, Goto, rollouts, cutovers, board, requests, BoardUnchanged
<1>16. ASSUME NEW c \in Rollouts, Retires(c) PROVE CutsOnlyReplaced'
  BY <1>16 DEF
    Retires, BoxTo, At, Goto, rollouts, cutovers, board, requests, BoardUnchanged
<1>17. ASSUME NEW c \in Rollouts, LosesTouch(c) PROVE CutsOnlyReplaced'
  BY <1>17 DEF LosesTouch, At, Goto, rollouts, cutovers, board, requests, BoardUnchanged
<1>18. ASSUME NEW c \in Rollouts, RestoreFile(c) PROVE CutsOnlyReplaced'
  BY <1>18 DEF
    RestoreFile, PutBack, At, Goto, rollouts, cutovers, board, requests, BoardUnchanged
<1>19. ASSUME NEW c \in Rollouts, RestoreBoard(c) PROVE CutsOnlyReplaced'
  BY <1>19 DEF
    RestoreBoard, Load, At, Goto, rollouts, cutovers, board, requests, BoardUnchanged
<1>20. ASSUME NEW c \in Rollouts, AskIdle(c) PROVE CutsOnlyReplaced'
  BY <1>20 DEF
    AskIdle, Unneeded, At, Goto, rollouts, cutovers, board, requests, BoardUnchanged
<1>21. ASSUME NEW c \in Rollouts, AnswerIdle(c) PROVE CutsOnlyReplaced'
  BY <1>21 DEF AnswerIdle, At, Goto, rollouts, cutovers, board, requests, BoardUnchanged
<1>22. ASSUME NEW c \in Rollouts, ReadFile(c) PROVE CutsOnlyReplaced'
  BY <1>22 DEF ReadFile, At, Goto, rollouts, cutovers, board, requests, BoardUnchanged
<1>23. ASSUME NEW c \in Rollouts, Stop(c) PROVE CutsOnlyReplaced'
  BY <1>23 DEF Stop, At, Goto, rollouts, cutovers, board, requests, BoardUnchanged
<1>24. ASSUME NEW c \in Rollouts, Dies(c) PROVE CutsOnlyReplaced'
  BY <1>24 DEF Dies, At, Goto, rollouts, cutovers, board, requests, BoardUnchanged
<1>25. CASE LoadByOthers
  BY <1>25 DEF LoadByOthers, Load, rollouts, cutovers
<1>26. CASE UNCHANGED vars
  BY <1>26 DEF vars, rollouts, cutovers, board, requests
<1> QED
  BY <1>1, <1>2, <1>3, <1>4, <1>5, <1>6, <1>7, <1>8, <1>9, <1>10, <1>11, <1>12, <1>13, <1>14, <1>15, <1>16, <1>17, <1>18, <1>19, <1>20, <1>21, <1>22, <1>23, <1>24, <1>25, <1>26 DEF
    Next, Requesting, Boarding, Rolling

\* No step forgets a drain.
LEMMA HearStep ==
    TypeOK /\ BoardInv /\ DrainsHear /\ [Next]_vars => DrainsHear'
<1> SUFFICES ASSUME TypeOK /\ BoardInv /\ DrainsHear, [Next]_vars PROVE DrainsHear'
  OBVIOUS
<1> USE SwitchboardAssumption DEF
      TypeOK, RequestPhases, RolloutPhases, CutoverPhases, BoardInv, Composing, Telling,
      UnroutedNow, Late, Fresh, Retiree, Routed, DrainsHear, InFlight
<1>1. ASSUME NEW r \in Requests, ReadTable(r) PROVE DrainsHear'
  BY <1>1 DEF ReadTable, At, Goto, rollouts, cutovers, board
<1>2. ASSUME NEW r \in Requests, Take(r) PROVE DrainsHear'
  BY <1>2 DEF Take, At, Goto, rollouts, cutovers, board, requests
<1>3. ASSUME NEW r \in Requests, Check(r) PROVE DrainsHear'
  BY <1>3 DEF Check, Drop, InFlight, At, Goto, rollouts, cutovers, board, requests
<1>4. ASSUME NEW r \in Requests, End(r) PROVE DrainsHear'
  BY <1>4 DEF End, Drop, InFlight, At, Goto, rollouts, cutovers, board
<1>5. ASSUME NEW c \in Rollouts, CutoverLoads(c) PROVE DrainsHear'
  BY <1>5 DEF CutoverLoads, Boxed, BoxTo, Load, rollouts, board, requests
<1>6. ASSUME NEW c \in Rollouts, LoadFails(c) PROVE DrainsHear'
  BY <1>6 DEF LoadFails, Boxed, BoxTo, Ends, rollouts, board, requests
<1>7. ASSUME NEW c \in Rollouts, Quiet(c) PROVE DrainsHear'
  BY <1>7 DEF Quiet, Boxed, BoxTo, InFlight, rollouts, board, requests
<1>8. ASSUME NEW c \in Rollouts, RetiresNothing(c) PROVE DrainsHear'
  BY <1>8 DEF RetiresNothing, Boxed, BoxTo, Ends, rollouts, board, requests
<1>9. ASSUME NEW c \in Rollouts, Drained(c) PROVE DrainsHear'
  BY <1>9 DEF
    Drained, Boxed, Tells, Ends, BoxTo, CutUnrouted, InFlight, rollouts, board, requests
<1>10. ASSUME NEW c \in Rollouts, Expires(c) PROVE DrainsHear'
  BY <1>10 DEF
    Expires, Boxed, Tells, Ends, BoxTo, CutUnrouted, InFlight, rollouts, board, requests
<1>11. ASSUME NEW c \in Rollouts, CutShort(c) PROVE DrainsHear'
  BY <1>11 DEF CutShort, Boxed, BoxTo, Ends, rollouts, board, requests
<1>12. ASSUME NEW c \in Rollouts, Start(c) PROVE DrainsHear'
  BY <1>12 DEF
    Start, Working, At, Goto, rollouts, cutovers, board, requests, BoardUnchanged
<1>13. ASSUME NEW c \in Rollouts, GateFails(c) PROVE DrainsHear'
  BY <1>13 DEF GateFails, At, Goto, rollouts, cutovers, board, requests, BoardUnchanged
<1>14. ASSUME NEW c \in Rollouts, Compose(c) PROVE DrainsHear'
  BY <1>14 DEF Compose, At, Goto, rollouts, cutovers, board, requests, BoardUnchanged
<1>15. ASSUME NEW c \in Rollouts, NotTakenUp(c) PROVE DrainsHear'
  BY <1>15 DEF
    NotTakenUp, PutBack, At, Goto, rollouts, cutovers, board, requests, BoardUnchanged
<1>16. ASSUME NEW c \in Rollouts, Retires(c) PROVE DrainsHear'
  BY <1>16 DEF
    Retires, BoxTo, At, Goto, rollouts, cutovers, board, requests, BoardUnchanged
<1>17. ASSUME NEW c \in Rollouts, LosesTouch(c) PROVE DrainsHear'
  BY <1>17 DEF LosesTouch, At, Goto, rollouts, cutovers, board, requests, BoardUnchanged
<1>18. ASSUME NEW c \in Rollouts, RestoreFile(c) PROVE DrainsHear'
  BY <1>18 DEF
    RestoreFile, PutBack, At, Goto, rollouts, cutovers, board, requests, BoardUnchanged
<1>19. ASSUME NEW c \in Rollouts, RestoreBoard(c) PROVE DrainsHear'
  BY <1>19 DEF
    RestoreBoard, Load, At, Goto, rollouts, cutovers, board, requests, BoardUnchanged
<1>20. ASSUME NEW c \in Rollouts, AskIdle(c) PROVE DrainsHear'
  BY <1>20 DEF
    AskIdle, Unneeded, At, Goto, rollouts, cutovers, board, requests, BoardUnchanged
<1>21. ASSUME NEW c \in Rollouts, AnswerIdle(c) PROVE DrainsHear'
  BY <1>21 DEF AnswerIdle, At, Goto, rollouts, cutovers, board, requests, BoardUnchanged
<1>22. ASSUME NEW c \in Rollouts, ReadFile(c) PROVE DrainsHear'
  BY <1>22 DEF ReadFile, At, Goto, rollouts, cutovers, board, requests, BoardUnchanged
<1>23. ASSUME NEW c \in Rollouts, Stop(c) PROVE DrainsHear'
  BY <1>23 DEF Stop, At, Goto, rollouts, cutovers, board, requests, BoardUnchanged
<1>24. ASSUME NEW c \in Rollouts, Dies(c) PROVE DrainsHear'
  BY <1>24 DEF Dies, At, Goto, rollouts, cutovers, board, requests, BoardUnchanged
<1>25. CASE LoadByOthers
  BY <1>25 DEF LoadByOthers, Load, rollouts, cutovers
<1>26. CASE UNCHANGED vars
  BY <1>26 DEF vars, rollouts, cutovers, board, requests
<1> QED
  BY <1>1, <1>2, <1>3, <1>4, <1>5, <1>6, <1>7, <1>8, <1>9, <1>10, <1>11, <1>12, <1>13, <1>14, <1>15, <1>16, <1>17, <1>18, <1>19, <1>20, <1>21, <1>22, <1>23, <1>24, <1>25, <1>26 DEF
    Next, Requesting, Boarding, Rolling

\* No step stops what is routed.
LEMMA RunsStep ==
    TypeOK /\ RolloutInv /\ RoutedRuns /\ [Next]_vars => RoutedRuns'
<1> SUFFICES ASSUME TypeOK /\ RolloutInv /\ RoutedRuns, [Next]_vars PROVE RoutedRuns'
  OBVIOUS
<1> USE SwitchboardAssumption DEF
      TypeOK, RequestPhases, RolloutPhases, CutoverPhases, Routed, RolloutInv, OneWorks,
      Works, Aims, Asks, RoutedRuns
<1>1. ASSUME NEW r \in Requests, ReadTable(r) PROVE RoutedRuns'
  BY <1>1 DEF ReadTable, At, Goto, rollouts, cutovers, board
<1>2. ASSUME NEW r \in Requests, Take(r) PROVE RoutedRuns'
  BY <1>2 DEF Take, At, Goto, rollouts, cutovers, board, requests
<1>3. ASSUME NEW r \in Requests, Check(r) PROVE RoutedRuns'
  BY <1>3 DEF Check, Drop, InFlight, At, Goto, rollouts, cutovers, board, requests
<1>4. ASSUME NEW r \in Requests, End(r) PROVE RoutedRuns'
  BY <1>4 DEF End, Drop, InFlight, At, Goto, rollouts, cutovers, board
<1>5. ASSUME NEW c \in Rollouts, CutoverLoads(c) PROVE RoutedRuns'
  BY <1>5 DEF CutoverLoads, Boxed, BoxTo, Load, rollouts, board, requests
<1>6. ASSUME NEW c \in Rollouts, LoadFails(c) PROVE RoutedRuns'
  BY <1>6 DEF LoadFails, Boxed, BoxTo, Ends, rollouts, board, requests
<1>7. ASSUME NEW c \in Rollouts, Quiet(c) PROVE RoutedRuns'
  BY <1>7 DEF Quiet, Boxed, BoxTo, InFlight, rollouts, board, requests
<1>8. ASSUME NEW c \in Rollouts, RetiresNothing(c) PROVE RoutedRuns'
  BY <1>8 DEF RetiresNothing, Boxed, BoxTo, Ends, rollouts, board, requests
<1>9. ASSUME NEW c \in Rollouts, Drained(c) PROVE RoutedRuns'
  BY <1>9 DEF
    Drained, Boxed, Tells, Ends, BoxTo, CutUnrouted, InFlight, rollouts, board, requests
<1>10. ASSUME NEW c \in Rollouts, Expires(c) PROVE RoutedRuns'
  BY <1>10 DEF
    Expires, Boxed, Tells, Ends, BoxTo, CutUnrouted, InFlight, rollouts, board, requests
<1>11. ASSUME NEW c \in Rollouts, CutShort(c) PROVE RoutedRuns'
  BY <1>11 DEF CutShort, Boxed, BoxTo, Ends, rollouts, board, requests
<1>12. ASSUME NEW c \in Rollouts, Start(c) PROVE RoutedRuns'
  BY <1>12 DEF
    Start, Working, At, Goto, rollouts, cutovers, board, requests, BoardUnchanged
<1>13. ASSUME NEW c \in Rollouts, GateFails(c) PROVE RoutedRuns'
  BY <1>13 DEF GateFails, At, Goto, rollouts, cutovers, board, requests, BoardUnchanged
<1>14. ASSUME NEW c \in Rollouts, Compose(c) PROVE RoutedRuns'
  BY <1>14 DEF Compose, At, Goto, rollouts, cutovers, board, requests, BoardUnchanged
<1>15. ASSUME NEW c \in Rollouts, NotTakenUp(c) PROVE RoutedRuns'
  BY <1>15 DEF
    NotTakenUp, PutBack, At, Goto, rollouts, cutovers, board, requests, BoardUnchanged
<1>16. ASSUME NEW c \in Rollouts, Retires(c) PROVE RoutedRuns'
  BY <1>16 DEF
    Retires, BoxTo, At, Goto, rollouts, cutovers, board, requests, BoardUnchanged
<1>17. ASSUME NEW c \in Rollouts, LosesTouch(c) PROVE RoutedRuns'
  BY <1>17 DEF LosesTouch, At, Goto, rollouts, cutovers, board, requests, BoardUnchanged
<1>18. ASSUME NEW c \in Rollouts, RestoreFile(c) PROVE RoutedRuns'
  BY <1>18 DEF
    RestoreFile, PutBack, At, Goto, rollouts, cutovers, board, requests, BoardUnchanged
<1>19. ASSUME NEW c \in Rollouts, RestoreBoard(c) PROVE RoutedRuns'
  BY <1>19 DEF
    RestoreBoard, Load, At, Goto, rollouts, cutovers, board, requests, BoardUnchanged
<1>20. ASSUME NEW c \in Rollouts, AskIdle(c) PROVE RoutedRuns'
  BY <1>20 DEF
    AskIdle, Unneeded, At, Goto, rollouts, cutovers, board, requests, BoardUnchanged
<1>21. ASSUME NEW c \in Rollouts, AnswerIdle(c) PROVE RoutedRuns'
  BY <1>21 DEF AnswerIdle, At, Goto, rollouts, cutovers, board, requests, BoardUnchanged
<1>22. ASSUME NEW c \in Rollouts, ReadFile(c) PROVE RoutedRuns'
  BY <1>22 DEF ReadFile, At, Goto, rollouts, cutovers, board, requests, BoardUnchanged
<1>23. ASSUME NEW c \in Rollouts, Stop(c) PROVE RoutedRuns'
  BY <1>23 DEF Stop, At, Goto, rollouts, cutovers, board, requests, BoardUnchanged
<1>24. ASSUME NEW c \in Rollouts, Dies(c) PROVE RoutedRuns'
  BY <1>24 DEF Dies, At, Goto, rollouts, cutovers, board, requests, BoardUnchanged
<1>25. CASE LoadByOthers
  BY <1>25 DEF LoadByOthers, Load, rollouts, cutovers
<1>26. CASE UNCHANGED vars
  BY <1>26 DEF vars, rollouts, cutovers, board, requests
<1> QED
  BY <1>1, <1>2, <1>3, <1>4, <1>5, <1>6, <1>7, <1>8, <1>9, <1>10, <1>11, <1>12, <1>13, <1>14, <1>15, <1>16, <1>17, <1>18, <1>19, <1>20, <1>21, <1>22, <1>23, <1>24, <1>25, <1>26 DEF
    Next, Requesting, Boarding, Rolling

\* Every step keeps what the rollout at work knows.
LEMMA RolloutStep ==
    TypeOK /\ BoardInv /\ RolloutInv /\ RoutedRuns /\ [Next]_vars => RolloutInv'
<1> SUFFICES ASSUME TypeOK /\ BoardInv /\ RolloutInv /\ RoutedRuns, [Next]_vars PROVE RolloutInv'
  OBVIOUS
<1> USE SwitchboardAssumption DEF
      TypeOK, RequestPhases, RolloutPhases, CutoverPhases, BoardInv, Composing, Telling,
      UnroutedNow, Late, Fresh, Retiree, Routed, RolloutInv, OneWorks, Works, Aims,
      Asks, Retired, RoutedRuns
<1>1. ASSUME NEW r \in Requests, ReadTable(r) PROVE RolloutInv'
  BY <1>1 DEF ReadTable, At, Goto, rollouts, cutovers, board
<1>2. ASSUME NEW r \in Requests, Take(r) PROVE RolloutInv'
  BY <1>2 DEF Take, At, Goto, rollouts, cutovers, board, requests
<1>3. ASSUME NEW r \in Requests, Check(r) PROVE RolloutInv'
  BY <1>3 DEF Check, Drop, InFlight, At, Goto, rollouts, cutovers, board, requests
<1>4. ASSUME NEW r \in Requests, End(r) PROVE RolloutInv'
  BY <1>4 DEF End, Drop, InFlight, At, Goto, rollouts, cutovers, board
<1>5. ASSUME NEW c \in Rollouts, CutoverLoads(c) PROVE RolloutInv'
  BY <1>5 DEF CutoverLoads, Boxed, BoxTo, Load, rollouts, board, requests
<1>6. ASSUME NEW c \in Rollouts, LoadFails(c) PROVE RolloutInv'
  BY <1>6 DEF LoadFails, Boxed, BoxTo, Ends, rollouts, board, requests
<1>7. ASSUME NEW c \in Rollouts, Quiet(c) PROVE RolloutInv'
  BY <1>7 DEF Quiet, Boxed, BoxTo, InFlight, rollouts, board, requests
<1>8. ASSUME NEW c \in Rollouts, RetiresNothing(c) PROVE RolloutInv'
  BY <1>8 DEF RetiresNothing, Boxed, BoxTo, Ends, rollouts, board, requests
<1>9. ASSUME NEW c \in Rollouts, Drained(c) PROVE RolloutInv'
  BY <1>9 DEF
    Drained, Boxed, Tells, Ends, BoxTo, CutUnrouted, InFlight, rollouts, board, requests
<1>10. ASSUME NEW c \in Rollouts, Expires(c) PROVE RolloutInv'
  BY <1>10 DEF
    Expires, Boxed, Tells, Ends, BoxTo, CutUnrouted, InFlight, rollouts, board, requests
<1>11. ASSUME NEW c \in Rollouts, CutShort(c) PROVE RolloutInv'
  BY <1>11 DEF CutShort, Boxed, BoxTo, Ends, rollouts, board, requests
<1>12. ASSUME NEW c \in Rollouts, Start(c) PROVE RolloutInv'
  BY <1>12 DEF
    Start, Working, At, Goto, rollouts, cutovers, board, requests, BoardUnchanged
<1>13. ASSUME NEW c \in Rollouts, GateFails(c) PROVE RolloutInv'
  BY <1>13 DEF GateFails, At, Goto, rollouts, cutovers, board, requests, BoardUnchanged
<1>14. ASSUME NEW c \in Rollouts, Compose(c) PROVE RolloutInv'
  BY <1>14 DEF Compose, At, Goto, rollouts, cutovers, board, requests, BoardUnchanged
<1>15. ASSUME NEW c \in Rollouts, NotTakenUp(c) PROVE RolloutInv'
  BY <1>15 DEF
    NotTakenUp, PutBack, At, Goto, rollouts, cutovers, board, requests, BoardUnchanged
<1>16. ASSUME NEW c \in Rollouts, Retires(c) PROVE RolloutInv'
  BY <1>16 DEF
    Retires, BoxTo, At, Goto, rollouts, cutovers, board, requests, BoardUnchanged
<1>17. ASSUME NEW c \in Rollouts, LosesTouch(c) PROVE RolloutInv'
  BY <1>17 DEF LosesTouch, At, Goto, rollouts, cutovers, board, requests, BoardUnchanged
<1>18. ASSUME NEW c \in Rollouts, RestoreFile(c) PROVE RolloutInv'
  BY <1>18 DEF
    RestoreFile, PutBack, At, Goto, rollouts, cutovers, board, requests, BoardUnchanged
<1>19. ASSUME NEW c \in Rollouts, RestoreBoard(c) PROVE RolloutInv'
  BY <1>19 DEF
    RestoreBoard, Load, At, Goto, rollouts, cutovers, board, requests, BoardUnchanged
<1>20. ASSUME NEW c \in Rollouts, AskIdle(c) PROVE RolloutInv'
  BY <1>20 DEF
    AskIdle, Unneeded, At, Goto, rollouts, cutovers, board, requests, BoardUnchanged
<1>21. ASSUME NEW c \in Rollouts, AnswerIdle(c) PROVE RolloutInv'
  BY <1>21 DEF AnswerIdle, At, Goto, rollouts, cutovers, board, requests, BoardUnchanged
<1>22. ASSUME NEW c \in Rollouts, ReadFile(c) PROVE RolloutInv'
  BY <1>22 DEF ReadFile, At, Goto, rollouts, cutovers, board, requests, BoardUnchanged
<1>23. ASSUME NEW c \in Rollouts, Stop(c) PROVE RolloutInv'
  BY <1>23 DEF Stop, At, Goto, rollouts, cutovers, board, requests, BoardUnchanged
<1>24. ASSUME NEW c \in Rollouts, Dies(c) PROVE RolloutInv'
  BY <1>24 DEF Dies, At, Goto, rollouts, cutovers, board, requests, BoardUnchanged
<1>25. CASE LoadByOthers
  BY <1>25 DEF LoadByOthers, Load, rollouts, cutovers
<1>26. CASE UNCHANGED vars
  BY <1>26 DEF vars, rollouts, cutovers, board, requests
<1> QED
  BY <1>1, <1>2, <1>3, <1>4, <1>5, <1>6, <1>7, <1>8, <1>9, <1>10, <1>11, <1>12, <1>13, <1>14, <1>15, <1>16, <1>17, <1>18, <1>19, <1>20, <1>21, <1>22, <1>23, <1>24, <1>25, <1>26 DEF
    Next, Requesting, Boarding, Rolling

\* The first state has no cutover, no drain and no request.
LEMMA Initially == Init => IInv
BY SwitchboardAssumption
   DEF Init, IInv, TypeOK, RequestPhases, RolloutPhases, CutoverPhases, BoardInv,
       Composing, Telling, UnroutedNow, Late, Fresh, RolloutInv, OneWorks, Works, Aims,
       Asks, Retired, DrainedIsOver, CutsOnlyReplaced, RoutedRuns, DrainsHear, Routed,
       At, InFlight, Retiree

\* Every step keeps the invariant.
LEMMA Keeps == IInv /\ [Next]_vars => IInv'
BY TypeStep, BoardStep, DrainedStep, CutStep, HearStep, RunsStep, RolloutStep DEF IInv

\* The invariant holds in every state of every behaviour.
LEMMA Invariant == Spec => []IInv
BY Initially, Keeps, PTL DEF Spec

\* Every variable of the board and its rollouts keeps its type.
THEOREM TypeCorrect == Spec => []TypeOK
BY Invariant, PTL DEF IInv

\* Cutover, board.go forwarding: once a drain was told, and while its upstream
\* stays unrouted, whatever is still on it was cut and nothing late joins it.
THEOREM DrainsAreOver == Spec => []DrainedIsOver
BY Invariant, PTL DEF IInv

\* board.go cutUnrouted: no request is cut that the table in force placed.
THEOREM CutsAreLate == Spec => []CutsOnlyReplaced
BY Invariant, PTL DEF IInv

\* ledger.go quiet and drop: a drain that waits has something to hear of.
THEOREM DrainsAreHeard == Spec => []DrainsHear
BY Invariant, PTL DEF IInv

\* rollout.go: no rollout stops what the board or the file routes.
THEOREM RoutedKeepsRunning == Spec => []RoutedRuns
BY Invariant, PTL DEF IInv

\* What is about to be stopped as retired was told drained by a cutover whose
\* retiree no table routes since, so the drain is over.
LEMMA StoppingIsDrained == IInv => StopsDrained
<1> SUFFICES ASSUME IInv, NEW c \in Rollouts, At(c, "stopping"), asked = Retiree(c),
                    NEW r \in Requests, At(r, "placed"), on[r] = asked
             PROVE  r \in cut
  BY DEF StopsDrained
<1>1. c \in told /\ c \in unrouted
  BY DEF IInv, RolloutInv, Retired, Asks, At
<1> QED
  BY <1>1 DEF IInv, DrainedIsOver

\* rollout.go stopRetired: a retired container is stopped only once every
\* request on it ended or was cut.
THEOREM StopsAreDrained == Spec => []StopsDrained
BY Invariant, StoppingIsDrained, PTL
==============================================================================
