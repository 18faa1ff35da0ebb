------------------------ MODULE EnvironmentLease_proofs ------------------------
(***************************************************************************)
(* Proofs about the lease on an environment, for any number of holders and *)
(* any times that satisfy EnvironmentLeaseAssumption.                      *)
(*                                                                         *)
(* The argument: a hold that still works began its last good renewal less  *)
(* than TTL - Answer ago (AgesBounded), and nobody has watched the revision *)
(* that renewal wrote for longer than that plus Answer (WatchesBounded), so *)
(* no taker gets to overwrite it (WritesSafe) and it keeps naming its      *)
(* holder (OwnersAreNamed).                                                *)
(***************************************************************************)
EXTENDS EnvironmentLease, TLAPS

USE EnvironmentLeaseAssumption
    DEF EnvironmentLeaseAssumption, At, Goto, GotoAt, Put, NoStoreCall, Reads, Takeable, Current,
        WatchedThrough, Renewable, GivesUp, Works, Owns, Unwinds, Keeps

\* A holder that works, is being answered, or unwinds in time leaves no taker
\* time to have watched its lease through.
LEMMA NobodyWatchedThrough ==
    ASSUME IInv, NEW w \in Holders, NEW h \in Holders,
           At(w, "watching"), Current(w), WatchedThrough(w), lease = h, h # w
    PROVE  ~Keeps(h)
  <1>1. ASSUME Works(h) PROVE FALSE
    <2>1. age[w] <= age[h] + Answer  BY <1>1 DEF IInv, WatchesBounded
    <2>2. age[h] \in Nat /\ age[w] \in Nat /\ clock[h] \in Nat  BY DEF IInv, TypeOK
    <2>3. clock[h] <= Limit(at[h])
      BY <1>1 DEF IInv, AgesBounded, Timed
    <2>4. CASE At(h, "waiting")
      <3>1. age[h] <= Renewal + Retry
        BY <2>2, <2>3, <2>4, EnvironmentLeaseAssumption DEF IInv, AgesBounded, Limit, Working, Answering
      <3> QED  BY <3>1, <2>1, <2>2, EnvironmentLeaseAssumption
    <2>5. CASE At(h, "retrying")
      <3>1. age[h] < TTL - Margin + Retry
        BY <2>2, <2>3, <2>5, EnvironmentLeaseAssumption DEF IInv, AgesBounded, Limit, Working, Answering
      <3> QED  BY <3>1, <2>1, <2>2, EnvironmentLeaseAssumption
    <2>6. CASE at[h] \in {"renewing", "renewed"}
      <3>1. clock[h] <= Retry
        BY <2>3, <2>6 DEF Limit, Working, Answering
      <3>2. \/ age[h] <= Renewal + Retry + clock[h]
            \/ age[h] < TTL - Margin + Retry + clock[h]
        BY <2>6 DEF IInv, AgesBounded
      <3> QED  BY <3>1, <3>2, <2>1, <2>2, EnvironmentLeaseAssumption
    <2> QED  BY <1>1, <2>4, <2>5, <2>6 DEF Working
  <1>2. ASSUME at[h] \in Answering PROVE FALSE
    <2>1. age[w] <= clock[h]  BY <1>2 DEF IInv, WatchesBounded
    <2>2. age[w] \in Nat /\ clock[h] \in Nat  BY DEF IInv, TypeOK
    <2>3. clock[h] <= Answer
      BY <1>2 DEF IInv, AgesBounded, Timed, Limit, Answering
    <2> QED  BY <2>1, <2>2, <2>3, EnvironmentLeaseAssumption
  <1>3. ASSUME Unwinds(h) PROVE FALSE
    <2>1. age[w] <= age[h] + Answer  BY <1>3 DEF IInv, WatchesBounded
    <2>2. age[h] \in Nat /\ age[w] \in Nat  BY DEF IInv, TypeOK
    <2> QED  BY <1>3, <2>1, <2>2, EnvironmentLeaseAssumption
  <1> QED  BY <1>1, <1>2, <1>3

LEMMA Initially == Init => IInv
  BY DEF Init, IInv, TypeOK, OwnersAreNamed, AgesBounded, WatchesBounded, WritesSafe,
         States, Working, Answering, Writing, Timed

-----------------------------------------------------------------------------
(***************************************************************************)
(* What a step of one holder leaves true.                                  *)
(***************************************************************************)

\* A holder gives up, whatever it was at; a write of its own may be left.
LEMMA GivingUp ==
    ASSUME IInv, NEW h \in Holders, NEW s \in {"lost", "gone"}, Goto(h, s),
           UNCHANGED <<lease, phase, fresh>>,
           \/ inflight' = inflight
           \/ /\ inflight' = inflight \cup {h}
              /\ lease \in {h, Free} \/ ~Keeps(lease)
    PROVE  IInv'
  <1> USE DEF IInv
  <1>1. TypeOK'
    BY DEF TypeOK, States
  <1>2. at[h] # "gone" => \A g \in Holders : Keeps(g)' => Keeps(g) /\ g # h
    BY DEF TypeOK, Working, Answering
  <1>3. \A g \in Holders : Keeps(g)' => Keeps(g) /\ g # h
    BY DEF TypeOK, Working, Answering
  <1>4. OwnersAreNamed'
    BY <1>3 DEF OwnersAreNamed
  <1>5. AgesBounded'
    BY DEF TypeOK, AgesBounded, Timed, Limit, Working, Answering
  <1>6. WatchesBounded'
    BY DEF TypeOK, WatchesBounded, Working, Answering
  <1>7. WritesSafe'
    BY <1>3 DEF TypeOK, WritesSafe, Writing, Working, Answering
  <1> QED  BY <1>1, <1>4, <1>5, <1>6, <1>7

\* The record is written under the token it already names.
LEMMA Refreshing ==
    ASSUME IInv, NEW h \in Holders, lease = h, Put(h), UNCHANGED <<at, phase, age, clock>>
    PROVE  IInv'
  BY DEF IInv, TypeOK, OwnersAreNamed, AgesBounded, WatchesBounded, WritesSafe, Timed, Limit,
         Writing, Working, Answering

LEMMA LookStep ==
    ASSUME IInv, NEW h \in Holders, Look(h)
    PROVE  IInv'
  <1> USE DEF IInv
  <1>1. CASE Goto(h, "lost") /\ NoStoreCall
    BY <1>1, GivingUp DEF Look
  <1>2. CASE \/ Takeable(h) /\ Goto(h, "write") /\ Reads(h)
             \/ ~Takeable(h) /\ Goto(h, "watching") /\ Reads(h)
    <2>1. TypeOK'
      BY <1>2 DEF Look, TypeOK, States, Writing
    <2>2. \A g \in Holders : Keeps(g)' => Keeps(g) /\ g # h
      BY <1>2 DEF TypeOK, Working, Answering
    <2>3. OwnersAreNamed'
      BY <1>2, <2>2 DEF OwnersAreNamed
    <2>4. AgesBounded'
      BY <1>2 DEF TypeOK, AgesBounded, Timed, Limit, Working, Answering
    <2>5. WatchesBounded'
      BY <1>2 DEF TypeOK, WatchesBounded, Working, Answering
    <2>6. WritesSafe'
      BY <1>2, <2>2 DEF TypeOK, WritesSafe, Writing, Look, Working, Answering
    <2> QED  BY <2>1, <2>3, <2>4, <2>5, <2>6
  <1> QED  BY <1>1, <1>2 DEF Look

LEMMA LookAgainStep ==
    ASSUME IInv, NEW h \in Holders, LookAgain(h)
    PROVE  IInv'
  <1> USE DEF IInv
  <1>1. CASE WatchBroken(h)
    BY <1>1, GivingUp DEF LookAgain, WatchBroken
  <1>2. CASE \/ Takeable(h) /\ GotoAt(h, "seize", age[h]) /\ Reads(h)
             \/ /\ ~Takeable(h) /\ Current(h) /\ WatchedThrough(h)
                /\ GotoAt(h, "seize", age[h]) /\ NoStoreCall
    <2>1. TypeOK'
      BY <1>2 DEF LookAgain, TypeOK, States, Writing
    <2>2. \A g \in Holders : Keeps(g)' => Keeps(g) /\ g # h
      BY <1>2 DEF TypeOK, Working, Answering
    <2>3. lease \in {h, Free} \/ ~Keeps(lease)
      BY <1>2, NobodyWatchedThrough DEF LookAgain, TypeOK
    <2>4. OwnersAreNamed'
      BY <1>2, <2>2 DEF OwnersAreNamed
    <2>5. AgesBounded'
      BY <1>2 DEF TypeOK, AgesBounded, Timed, Limit, Working, Answering
    <2>6. WatchesBounded'
      BY <1>2 DEF TypeOK, WatchesBounded, Working, Answering
    <2>7. WritesSafe'
      BY <1>2, <2>2, <2>3 DEF TypeOK, WritesSafe, Writing, LookAgain, Working, Answering
    <2> QED  BY <2>1, <2>4, <2>5, <2>6, <2>7
  <1> QED  BY <1>1, <1>2 DEF LookAgain

\* A take or keep lands, over a lease nobody works under.
LEMMA Landing ==
    ASSUME IInv, NEW h \in Holders, NEW s \in Answering, Put(h), Goto(h, s), phase' = phase,
           lease \in {h, Free} \/ ~Keeps(lease)
    PROVE  IInv'
  <1> USE DEF IInv
  <1>1. TypeOK'
    BY DEF TypeOK, States, Answering
  <1>2. \A g \in Holders : g # h => ~Keeps(g)'
    BY DEF TypeOK, OwnersAreNamed, Working, Answering
  <1>3. OwnersAreNamed'
    BY <1>2 DEF OwnersAreNamed
  <1>4. AgesBounded'
    BY DEF TypeOK, AgesBounded, Timed, Limit, Working, Answering
  <1>5. WatchesBounded' /\ WritesSafe'
    BY DEF WatchesBounded, WritesSafe
  <1> QED  BY <1>1, <1>3, <1>4, <1>5

LEMMA TakeLandsStep ==
    ASSUME IInv, NEW h \in Holders, TakeLands(h)
    PROVE  IInv'
  <1>1. lease \in {h, Free} \/ ~Keeps(lease)
    BY DEF IInv, WritesSafe, TakeLands
  <1> QED  BY <1>1, Landing DEF TakeLands, Answering

LEMMA KeepLandsStep ==
    ASSUME IInv, NEW h \in Holders, KeepLands(h)
    PROVE  IInv'
  BY Landing DEF KeepLands, Answering

LEMMA TakeStaleStep ==
    ASSUME IInv, NEW h \in Holders, TakeStale(h)
    PROVE  IInv'
  <1> USE DEF IInv
  <1>1. CASE Goto(h, "lost")
    BY <1>1, GivingUp DEF TakeStale
  <1>2. CASE \/ At(h, "seize") /\ GotoAt(h, "watching", age[h])
             \/ At(h, "write") /\ Goto(h, "new")
    <2>1. TypeOK'
      BY <1>2 DEF TakeStale, TypeOK, States, Writing
    <2>2. \A g \in Holders : Keeps(g)' => Keeps(g) /\ g # h
      BY <1>2 DEF TypeOK, Working, Answering
    <2>3. OwnersAreNamed'
      BY <1>2, <2>2 DEF TakeStale, OwnersAreNamed
    <2>4. AgesBounded'
      BY <1>2 DEF TypeOK, AgesBounded, Timed, Limit, Working, Answering
    <2>5. WatchesBounded'
      BY <1>2 DEF TakeStale, TypeOK, WatchesBounded, Working, Answering
    <2>6. WritesSafe'
      BY <1>2, <2>2 DEF TypeOK, WritesSafe, Writing, TakeStale, Working, Answering
    <2> QED  BY <2>1, <2>3, <2>4, <2>5, <2>6
  <1> QED  BY <1>1, <1>2 DEF TakeStale

LEMMA TakeFailsStep ==
    ASSUME IInv, NEW h \in Holders, TakeFails(h)
    PROVE  IInv'
  <1>1. at[h] \in Writing /\ Current(h) => lease \in {h, Free} \/ ~Keeps(lease)
    BY DEF IInv, WritesSafe
  <1> QED  BY <1>1, GivingUp DEF TakeFails

\* The store's answer starts the renewal loop.
LEMMA HoldStartsStep ==
    ASSUME IInv, NEW h \in Holders, HoldStarts(h)
    PROVE  IInv'
  <1> USE DEF IInv, HoldStarts
  <1>1. TypeOK'
    BY DEF TypeOK, States, Working, Answering
  <1>2. \A g \in Holders : Keeps(g)' => Keeps(g)
    BY DEF TypeOK, Working, Answering
  <1>3. OwnersAreNamed'
    BY <1>2 DEF OwnersAreNamed
  <1>4. AgesBounded'
    BY DEF TypeOK, AgesBounded, Timed, Limit, Working, Answering
  <1>5. clock[h] <= Answer
    BY DEF AgesBounded, Timed, Limit, Answering
  <1>6. WatchesBounded'
    BY <1>5 DEF TypeOK, WatchesBounded, Working, Answering
  <1>7. WritesSafe'
    BY <1>2 DEF TypeOK, WritesSafe, Writing, Working, Answering
  <1> QED  BY <1>1, <1>3, <1>4, <1>6, <1>7

-----------------------------------------------------------------------------
(***************************************************************************)
(* The renewal loop.                                                       *)
(***************************************************************************)
LEMMA RenewStartsStep ==
    ASSUME IInv, NEW h \in Holders, RenewStarts(h)
    PROVE  IInv'
  <1> USE DEF IInv, RenewStarts
  <1>1. TypeOK'
    BY DEF TypeOK, States, Working
  <1>2. \A g \in Holders : Keeps(g)' => Keeps(g)
    BY DEF TypeOK, Working, Answering
  <1>3. OwnersAreNamed'
    BY <1>2 DEF OwnersAreNamed
  <1>4. AgesBounded'
    BY DEF TypeOK, AgesBounded, Timed, Limit, Working, Answering
  <1>5. WatchesBounded'
    BY DEF TypeOK, WatchesBounded, Working, Answering
  <1>6. WritesSafe'
    BY <1>2 DEF TypeOK, WritesSafe, Writing, Working, Answering
  <1> QED  BY <1>1, <1>3, <1>4, <1>5, <1>6

LEMMA RenewLandsStep ==
    ASSUME IInv, NEW h \in Holders, RenewLands(h)
    PROVE  IInv'
  <1> USE DEF IInv, RenewLands
  <1>1. TypeOK'
    BY DEF TypeOK, States, Working
  <1>2. OwnersAreNamed'
    BY DEF TypeOK, OwnersAreNamed, Working, Answering
  <1>3. AgesBounded'
    BY DEF TypeOK, AgesBounded, Timed, Limit, Working, Answering
  <1>4. WatchesBounded' /\ WritesSafe'
    BY DEF WatchesBounded, WritesSafe
  <1> QED  BY <1>1, <1>2, <1>3, <1>4

LEMMA RenewAnsweredStep ==
    ASSUME IInv, NEW h \in Holders, RenewAnswered(h)
    PROVE  IInv'
  <1> USE DEF IInv, RenewAnswered
  <1>1. clock[h] <= Retry /\ Retry <= TTL
    BY DEF TypeOK, AgesBounded, Timed, Limit, Working, Answering
  <1>2. TypeOK'
    BY <1>1 DEF TypeOK, States, Working
  <1>3. \A g \in Holders : Keeps(g)' => Keeps(g)
    BY DEF TypeOK, Working, Answering
  <1>4. OwnersAreNamed'
    BY <1>3 DEF OwnersAreNamed
  <1>5. AgesBounded'
    BY <1>1 DEF TypeOK, AgesBounded, Timed, Limit, Working, Answering
  <1>6. WatchesBounded'
    BY DEF TypeOK, WatchesBounded, Working, Answering
  <1>7. WritesSafe'
    BY <1>3 DEF TypeOK, WritesSafe, Writing, Working, Answering
  <1> QED  BY <1>2, <1>4, <1>5, <1>6, <1>7

LEMMA RenewFailsStep ==
    ASSUME IInv, NEW h \in Holders, RenewFails(h)
    PROVE  IInv'
  <1> USE DEF IInv
  <1>1. \/ inflight' = inflight
        \/ inflight' = inflight \cup {h} /\ At(h, "renewing") /\ lease = h
    BY DEF RenewFails
  <1>2. PICK s \in {"retrying", "unwinding"} :
               GotoAt(h, s, age[h]) /\ (s = "retrying" => ~GivesUp(h))
    BY DEF RenewFails
  <1>3. TypeOK'
    BY <1>2 DEF RenewFails, TypeOK, States, Working
  <1>4. \A g \in Holders : Keeps(g)' => Keeps(g)
    BY <1>2 DEF RenewFails, TypeOK, Working, Answering
  <1>5. OwnersAreNamed'
    BY <1>4 DEF RenewFails, OwnersAreNamed
  <1>6. AgesBounded'
    BY <1>2 DEF RenewFails, TypeOK, AgesBounded, Timed, Limit, Working, Answering
  <1>7. WatchesBounded'
    BY <1>2 DEF RenewFails, TypeOK, WatchesBounded, Working, Answering
  <1>8. WritesSafe'
    BY <1>1, <1>2, <1>4 DEF RenewFails, TypeOK, WritesSafe, Writing, Working, Answering
  <1> QED  BY <1>3, <1>5, <1>6, <1>7, <1>8

LEMMA RefusedStep ==
    ASSUME IInv, NEW h \in Holders, Refused(h)
    PROVE  IInv'
  BY GivingUp DEF Refused

\* A renewal beside the loop: its write may be left on the way, and the
\* record still names whoever made it.
LEMMA RenewsBesideStep ==
    ASSUME IInv, NEW h \in Holders, RenewsBeside(h)
    PROVE  IInv'
  <1> USE DEF IInv
  <1>1. CASE Renewable(h) /\ Put(h) /\ UNCHANGED <<at, phase, age, clock>>
    BY <1>1, Refreshing
  <1>2. CASE Renewable(h) /\ inflight' = inflight \cup {h}
               /\ UNCHANGED <<lease, fresh, at, phase, age, clock>>
    BY <1>2 DEF TypeOK, OwnersAreNamed, AgesBounded, Timed, Limit, WatchesBounded, WritesSafe
  <1>3. CASE Refused(h)
    BY <1>3, RefusedStep
  <1> QED  BY <1>1, <1>2, <1>3 DEF RenewsBeside

\* A write that lands late finds its holder on the record, or nobody at work.
LEMMA LandsLateStep ==
    ASSUME IInv, NEW h \in Holders, LandsLate(h)
    PROVE  IInv'
  <1> USE DEF IInv
  <1>1. CASE lease = h
    BY <1>1, Refreshing DEF LandsLate
  <1>2. CASE lease # h
    <2>1. lease = Free \/ ~Keeps(lease)
      BY <1>2 DEF LandsLate, WritesSafe
    <2>2. \A g \in Holders : ~Keeps(g)
      BY <2>1 DEF OwnersAreNamed
    <2>3. TypeOK' /\ AgesBounded'
      BY DEF LandsLate, TypeOK, AgesBounded, Timed, Limit
    <2>4. OwnersAreNamed' /\ WatchesBounded' /\ WritesSafe'
      BY <2>2 DEF LandsLate, OwnersAreNamed, WatchesBounded, WritesSafe
    <2> QED  BY <2>3, <2>4
  <1> QED  BY <1>1, <1>2

-----------------------------------------------------------------------------
LEMMA ParkStep ==
    ASSUME IInv, NEW h \in Holders, Park(h)
    PROVE  IInv'
  <1> USE DEF IInv, Park
  <1>1. TypeOK'
    BY DEF TypeOK, States
  <1>2. \A g \in Holders : Keeps(g)' => Keeps(g)
    BY DEF TypeOK, Working, Answering
  <1>3. OwnersAreNamed'
    BY <1>2 DEF OwnersAreNamed
  <1>4. AgesBounded'
    BY DEF TypeOK, AgesBounded, Timed, Limit, Working, Answering
  <1>5. WatchesBounded'
    BY DEF TypeOK, WatchesBounded, Working, Answering
  <1>6. WritesSafe'
    BY <1>2 DEF TypeOK, WritesSafe, Writing, Working, Answering
  <1> QED  BY <1>1, <1>3, <1>4, <1>5, <1>6

LEMMA ReleaseStep ==
    ASSUME IInv, NEW h \in Holders, Release(h)
    PROVE  IInv'
  <1> USE DEF IInv
  <1>1. CASE lease # h
    BY <1>1, GivingUp DEF Release
  <1>2. CASE lease = h
    <2>1. TypeOK'
      BY <1>2 DEF Release, TypeOK, States
    <2>2. \A g \in Holders : ~Keeps(g)'
      BY <1>2 DEF Release, TypeOK, OwnersAreNamed, Working, Answering
    <2>3. AgesBounded'
      BY <1>2 DEF Release, TypeOK, AgesBounded, Timed, Limit, Working, Answering
    <2>4. OwnersAreNamed' /\ WatchesBounded' /\ WritesSafe'
      BY <1>2, <2>2 DEF Release, OwnersAreNamed, WatchesBounded, WritesSafe
    <2> QED  BY <2>1, <2>3, <2>4
  <1> QED  BY <1>1, <1>2

LEMMA CrashStep ==
    ASSUME IInv, NEW h \in Holders, Crash(h)
    PROVE  IInv'
  BY GivingUp DEF Crash

\* Time passes for all at once, and no timer is let run over.
LEMMA TickStep ==
    ASSUME IInv, Tick
    PROVE  IInv'
  <1> USE DEF IInv, Tick
  <1>1. \A h \in Holders : Works(h) => age[h] + 1 <= TTL
    BY DEF TypeOK, AgesBounded, Timed, Limit, Working, Answering
  <1>2. TypeOK'
    BY <1>1 DEF TypeOK, Ages
  <1>3. \A h \in Holders : Keeps(h)' => Keeps(h)
    BY DEF TypeOK, Ages
  <1>4. OwnersAreNamed' /\ WritesSafe'
    BY <1>3 DEF TypeOK, OwnersAreNamed, WritesSafe
  <1>5. AgesBounded'
    BY DEF TypeOK, AgesBounded, Ages, Timed, Limit, Working, Answering
  <1>6. WatchesBounded'
    BY DEF TypeOK, WatchesBounded, Ages, Timed, Working, Answering
  <1> QED  BY <1>2, <1>4, <1>5, <1>6

LEMMA Inductive == IInv /\ [Next]_vars => IInv'
  <1> SUFFICES ASSUME IInv, [Next]_vars PROVE IInv'
    OBVIOUS
  <1>1. ASSUME NEW h \in Holders, Take(h) \/ TakeFails(h) PROVE IInv'
    BY <1>1, LookStep, LookAgainStep, TakeLandsStep, TakeStaleStep, TakeFailsStep,
       HoldStartsStep DEF Take
  <1>2. ASSUME NEW h \in Holders, Renew(h) \/ LandsLate(h) PROVE IInv'
    BY <1>2, RenewStartsStep, RenewLandsStep, RenewAnsweredStep, RenewFailsStep, RefusedStep,
       LandsLateStep DEF Renew, RenewReaches, RenewRefused
  <1>3. ASSUME NEW h \in Holders, KeepLands(h) \/ CliRenews(h) \/ Confirm(h) PROVE IInv'
    BY <1>3, KeepLandsStep, RenewsBesideStep DEF CliRenews, Confirm
  <1>4. ASSUME NEW h \in Holders, Park(h) \/ Release(h) \/ Crash(h) PROVE IInv'
    BY <1>4, ParkStep, ReleaseStep, CrashStep
  <1>5. CASE Tick
    BY <1>5, TickStep
  <1>6. CASE UNCHANGED vars
    BY <1>6 DEF vars, IInv, TypeOK, OwnersAreNamed, AgesBounded, WatchesBounded, WritesSafe,
                Timed, Limit
  <1> QED  BY <1>1, <1>2, <1>3, <1>4, <1>5, <1>6 DEF Next

THEOREM Invariance == Spec => []IInv
  <1>1. Init => IInv  BY Initially
  <1>2. IInv /\ [Next]_vars => IInv'  BY Inductive
  <1> QED  BY <1>1, <1>2, PTL DEF Spec

\* Every variable keeps its type, and no hold goes unrenewed for a full TTL.
THEOREM TypeCorrect == Spec => []TypeOK
  <1>1. IInv => TypeOK  BY DEF IInv
  <1> QED  BY <1>1, Invariance, PTL

\* Whoever still works is the one the lease names, whatever clocks say and
\* whichever calls to the store fail or land late.
THEOREM Exclusion == Spec => []HoldsWhatItWorksUnder
  <1>1. IInv => HoldsWhatItWorksUnder
    BY DEF IInv, OwnersAreNamed, HoldsWhatItWorksUnder
  <1> QED  BY <1>1, Invariance, PTL

\* Whoever gave up unrenewed is named by its lease until a TTL, less the time
\* of an answer, has passed since its last good renewal: nobody else begins.
THEOREM UnwindingIsAlone == Spec => []UnwindsAlone
  <1>1. IInv => UnwindsAlone
    BY DEF IInv, OwnersAreNamed, UnwindsAlone
  <1> QED  BY <1>1, Invariance, PTL

-----------------------------------------------------------------------------
(***************************************************************************)
(* The lease is what others build on.                                      *)
(***************************************************************************)
Owners == {h \in Holders : Owns(h)}

\* Nobody is at work but the one on the record.
LEMMA OwnerIsNamed == IInv => Owners \subseteq {lease}
  BY DEF IInv, OwnersAreNamed, Owners

\* Nobody's work begins or ends but h's, over a record that stays.
LEMMA Leaving ==
    ASSUME NEW h \in Holders, lease' = lease,
           \A g \in Holders : g # h => (Owns(g)' <=> Owns(g)),
           Owns(h)' => Owns(h)
    PROVE  [L!Next]_<<lease, Owners>>
  <1>1. Owners' = Owners \/ Owners' = Owners \ {h}
    BY DEF Owners
  <1> QED  BY <1>1 DEF L!Next, L!End, Owners

LEMMA StepLeases ==
    ASSUME IInv, IInv', [Next]_vars
    PROVE  [L!Next]_<<lease, Owners>>
  <1> USE DEF IInv
  <1>1. ASSUME NEW h \in Holders, TakeLands(h) \/ KeepLands(h)
        PROVE  [L!Next]_<<lease, Owners>>
    <2>1. lease \in {h, Free} \/ ~Owns(lease)
      BY <1>1 DEF WritesSafe, TakeLands, KeepLands
    <2>2. lease \notin Owners \ {h}
      BY <2>1 DEF Owners
    <2>3. Owners' = Owners \cup {h} /\ lease' = h
      BY <1>1 DEF Owners, TakeLands, KeepLands, TypeOK, Working, Answering, Writing
    <2> QED  BY <2>2, <2>3 DEF L!Next, L!Take, L!Takeable, Owners
  <1>2. ASSUME NEW h \in Holders, LandsLate(h)
        PROVE  [L!Next]_<<lease, Owners>>
    <2>1. lease \notin Owners \ {h}
      BY <1>2 DEF LandsLate, WritesSafe, Owners
    <2>2. Owners' = Owners /\ lease' = h
      BY <1>2 DEF LandsLate, Owners
    <2> QED  BY <2>1, <2>2 DEF L!Next, L!LandsLate, L!Takeable, Owners
  <1>3. ASSUME NEW h \in Holders, Release(h), lease = h
        PROVE  [L!Next]_<<lease, Owners>>
    <2>1. Owners' = Owners \ {h} /\ lease' = Free
      BY <1>3 DEF Release, Owners, TypeOK, Working, Answering
    <2> QED  BY <1>3, <2>1 DEF L!Next, L!Forget, Owners
  <1>4. ASSUME NEW h \in Holders,
               \/ Look(h) \/ LookAgain(h) \/ TakeStale(h) \/ TakeFails(h)
               \/ HoldStarts(h) \/ RenewStarts(h) \/ RenewAnswered(h) \/ RenewFails(h)
               \/ Refused(h) \/ Park(h) \/ Crash(h) \/ (Release(h) /\ lease # h)
        PROVE  [L!Next]_<<lease, Owners>>
    <2>1. lease' = lease
      BY <1>4 DEF Look, LookAgain, WatchBroken, TakeStale, TakeFails, HoldStarts, RenewStarts,
                  RenewAnswered, RenewFails, Refused, Park, Crash, Release
    <2>2. \A g \in Holders : g # h => at'[g] = at[g]
      BY <1>4 DEF Look, LookAgain, WatchBroken, TakeStale, TakeFails, HoldStarts, RenewStarts,
                  RenewAnswered, RenewFails, Refused, Park, Crash, Release, TypeOK
    <2>3. Owns(h)' => Owns(h)
      BY <1>4 DEF Look, LookAgain, WatchBroken, TakeStale, TakeFails, HoldStarts, RenewStarts,
                  RenewAnswered, RenewFails, Refused, Park, Crash, Release, TypeOK,
                  Working, Answering, Writing
    <2> QED  BY <2>1, <2>2, <2>3, Leaving
  <1>5. ASSUME NEW h \in Holders, RenewLands(h)
        PROVE  [L!Next]_<<lease, Owners>>
    <2>1. lease' = lease
      BY <1>5 DEF RenewLands
    <2>2. \A g \in Holders : Owns(g)' <=> Owns(g)
      BY <1>5 DEF RenewLands, TypeOK, Working
    <2> QED  BY <2>1, <2>2 DEF Owners
  <1>6. ASSUME NEW h \in Holders, CliRenews(h) \/ Confirm(h), ~Refused(h)
        PROVE  [L!Next]_<<lease, Owners>>
    BY <1>6 DEF CliRenews, Confirm, RenewsBeside, Owners
  <1>7. CASE Tick
    BY <1>7 DEF Tick, Owners
  <1>8. CASE UNCHANGED vars
    BY <1>8 DEF vars, Owners
  <1> QED
    BY <1>1, <1>2, <1>3, <1>4, <1>5, <1>6, <1>7, <1>8
    DEF Next, Take, Renew, RenewReaches, RenewRefused

\* A lease is taken, or written late, only when nobody else is at work under
\* it, and is removed under nobody's feet.
THEOREM LeaseRefinement == Spec => ImplementsLease
  <1>1. Init => L!Init
    BY DEF Init, L!Init, Working, Answering
  <1>2. IInv /\ IInv' /\ [Next]_vars => [L!Next]_<<lease, Owners>>
    BY StepLeases
  <1> QED
    BY <1>1, <1>2, Invariance, PTL DEF Spec, ImplementsLease, L!Spec, Owners

-----------------------------------------------------------------------------
(***************************************************************************)
(* The lease is a reservation.                                             *)
(***************************************************************************)
Workers      == {h \in Holders : Works(h)}
Reservations == {h \in Holders : Reserved(h)}

\* Nobody works or reserves the environment beside the one on the record.
LEMMA OneIsNamed ==
    ASSUME IInv
    PROVE  /\ Workers \subseteq {lease} /\ Reservations \subseteq {lease}
           /\ Workers = {} \/ Reservations = {}
  BY DEF IInv, OwnersAreNamed, Workers, Reservations, Reserved, Working

\* A step that takes some holders off both sets and adds none.
LEMMA Dropping ==
    ASSUME IInv, NEW h \in Holders,
           \A g \in Holders : Works(g)' <=> (Works(g) /\ g # h),
           \A g \in Holders : Reserved(g)' <=> (Reserved(g) /\ g # h)
    PROVE  [R!Next]_<<Workers, Reservations>>
  <1>1. Workers' = Workers \ {h} /\ Reservations' = Reservations \ {h}
    BY DEF Workers, Reservations
  <1>2. CASE h \in Workers \cup Reservations
    BY <1>1, <1>2 DEF R!Next, R!Leave, Workers, Reservations
  <1>3. CASE h \notin Workers \cup Reservations
    BY <1>1, <1>3
  <1> QED  BY <1>2, <1>3

LEMMA Keeping ==
    ASSUME \A g \in Holders : Works(g)' <=> Works(g),
           \A g \in Holders : Reserved(g)' <=> Reserved(g)
    PROVE  UNCHANGED <<Workers, Reservations>>
  BY DEF Workers, Reservations

\* A holder that gives up leaves what it held.
LEMMA GivingUpLeaves ==
    ASSUME IInv, NEW h \in Holders, NEW s \in {"unwinding", "lost", "gone"},
           at' = [at EXCEPT ![h] = s],
           lease' = lease \/ (lease = h /\ lease' = Free)
    PROVE  [R!Next]_<<Workers, Reservations>>
  <1>1. \A g \in Holders : Works(g)' <=> (Works(g) /\ g # h)
    BY DEF IInv, TypeOK, Working
  <1>2. \A g \in Holders : Reserved(g)' <=> (Reserved(g) /\ g # h)
    BY DEF IInv, TypeOK, Reserved
  <1> QED  BY <1>1, <1>2, Dropping

\* A write by one that is not waiting to resume ends any reservation.
LEMMA TakingOverLeaves ==
    ASSUME IInv, IInv', NEW h \in Holders, lease' = h,
           \A g \in Holders : Works(g)' <=> Works(g),
           ~Reserved(h) /\ ~Reserved(h)',
           \A g \in Holders : g # h => at'[g] = at[g]
    PROVE  [R!Next]_<<Workers, Reservations>>
  <1>1. Reservations' = {}
    BY DEF Reservations, Reserved, IInv, TypeOK
  <1>2. CASE Reservations = {}
    BY <1>1, <1>2 DEF Workers
  <1>3. CASE Reservations # {}
    <2>1. PICK g \in Holders : Reserved(g)
      BY <1>3 DEF Reservations
    <2>2. Reservations = {g} /\ Workers = {}
      BY <2>1, OneIsNamed DEF Reservations, Reserved
    <2>3. Workers' = {}
      BY <2>2 DEF Workers
    <2>4. R!Leave(g)
      BY <1>1, <2>2, <2>3 DEF R!Leave, Workers, Reservations
    <2> QED  BY <2>4 DEF R!Next
  <1> QED  BY <1>2, <1>3

LEMMA StepRefines ==
    ASSUME IInv, IInv', [Next]_vars
    PROVE  [R!Next]_<<Workers, Reservations>>
  <1> USE DEF IInv
  <1>1. ASSUME NEW h \in Holders, HoldStarts(h), At(h, "taken")
        PROVE  [R!Next]_<<Workers, Reservations>>
    <2>1. lease = h /\ ~Works(h) /\ ~Reserved(h)
      BY <1>1 DEF OwnersAreNamed, Answering, Reserved, Working
    <2>2. Workers = {} /\ Reservations = {}
      BY <2>1, OneIsNamed DEF Workers, Reservations
    <2>3. Workers' = {h} /\ Reservations' = {}
      BY <1>1, <2>1, <2>2 DEF HoldStarts, TypeOK, Workers, Reservations, Reserved, Working
    <2> QED  BY <2>2, <2>3 DEF R!Next, R!Acquire, Workers, Reservations
  <1>2. ASSUME NEW h \in Holders, HoldStarts(h), At(h, "kept")
        PROVE  [R!Next]_<<Workers, Reservations>>
    <2>1. lease = h /\ Reserved(h)
      BY <1>2 DEF OwnersAreNamed, Answering, Reserved
    <2>2. Workers = {} /\ Reservations = {h}
      BY <2>1, OneIsNamed DEF Workers, Reservations
    <2>3. Workers' = {h} /\ Reservations' = {}
      BY <1>2, <2>1, <2>2 DEF HoldStarts, TypeOK, Workers, Reservations, Reserved, Working
    <2> QED  BY <2>2, <2>3 DEF R!Next, R!Resume, Workers, Reservations
  <1>3. ASSUME NEW h \in Holders, Park(h)
        PROVE  [R!Next]_<<Workers, Reservations>>
    <2>1. lease = h /\ Works(h)
      BY <1>3 DEF Park, OwnersAreNamed, Working
    <2>2. Workers = {h} /\ Reservations = {}
      BY <2>1, OneIsNamed DEF Workers, Reservations
    <2>3. Workers' = {} /\ Reservations' = {h}
      BY <1>3, <2>1, <2>2 DEF Park, TypeOK, Workers, Reservations, Reserved, Working
    <2> QED  BY <2>2, <2>3 DEF R!Next, R!Suspend, Workers, Reservations
  <1>4. ASSUME NEW h \in Holders, Look(h) \/ LookAgain(h) \/ TakeStale(h)
        PROVE  [R!Next]_<<Workers, Reservations>>
    <2>1. \A g \in Holders : Works(g)' <=> (Works(g) /\ g # h)
      BY <1>4 DEF Look, LookAgain, WatchBroken, TakeStale, TypeOK, Working, Writing
    <2>2. \A g \in Holders : Reserved(g)' <=> (Reserved(g) /\ g # h)
      BY <1>4 DEF Look, LookAgain, WatchBroken, TakeStale, TypeOK, Reserved, Writing
    <2> QED  BY <2>1, <2>2, Dropping
  <1>5. ASSUME NEW h \in Holders, TakeLands(h)
        PROVE  [R!Next]_<<Workers, Reservations>>
    <2>1. \A g \in Holders : Works(g)' <=> Works(g)
      BY <1>5 DEF TakeLands, TypeOK, Working, Writing
    <2>2. ~Reserved(h) /\ ~Reserved(h)'
      BY <1>5 DEF TakeLands, TypeOK, Reserved, Writing
    <2> QED  BY <1>5, <2>1, <2>2, TakingOverLeaves DEF TakeLands, TypeOK
  <1>6. ASSUME NEW h \in Holders, LandsLate(h)
        PROVE  [R!Next]_<<Workers, Reservations>>
    <2>1. CASE lease = h
      BY <1>6, <2>1, Keeping DEF LandsLate, Reserved
    <2>2. CASE lease # h
      <3>1. at[h] \in {"unwinding", "lost", "gone"}
        BY <1>6, <2>2 DEF LandsLate, WritesSafe
      <3> QED  BY <1>6, <3>1, TakingOverLeaves DEF LandsLate, Reserved
    <2> QED  BY <2>1, <2>2
  <1>7. ASSUME NEW h \in Holders, KeepLands(h) \/ RenewStarts(h) \/ RenewLands(h) \/ RenewAnswered(h)
        PROVE  [R!Next]_<<Workers, Reservations>>
    <2>1. \A g \in Holders : Works(g)' <=> Works(g)
      BY <1>7 DEF KeepLands, RenewStarts, RenewLands, RenewAnswered, TypeOK, Working
    <2>2. \A g \in Holders : Reserved(g)' <=> Reserved(g)
      BY <1>7 DEF KeepLands, RenewStarts, RenewLands, RenewAnswered, TypeOK, Reserved
    <2> QED  BY <2>1, <2>2, Keeping
  <1>8. ASSUME NEW h \in Holders, RenewFails(h)
        PROVE  [R!Next]_<<Workers, Reservations>>
    <2>1. CASE GivesUp(h)
      BY <1>8, <2>1, GivingUpLeaves DEF RenewFails
    <2>2. CASE ~GivesUp(h)
      <3>1. \A g \in Holders : Works(g)' <=> Works(g)
        BY <1>8, <2>2 DEF RenewFails, TypeOK, Working
      <3>2. \A g \in Holders : Reserved(g)' <=> Reserved(g)
        BY <1>8, <2>2 DEF RenewFails, TypeOK, Reserved
      <3> QED  BY <3>1, <3>2, Keeping
    <2> QED  BY <2>1, <2>2
  <1>9. ASSUME NEW h \in Holders, Refused(h) \/ TakeFails(h) \/ Crash(h) \/ Release(h)
        PROVE  [R!Next]_<<Workers, Reservations>>
    BY <1>9, GivingUpLeaves DEF Refused, TakeFails, Crash, Release
  <1>10. ASSUME NEW h \in Holders, CliRenews(h) \/ Confirm(h), ~Refused(h)
         PROVE  [R!Next]_<<Workers, Reservations>>
    BY <1>10, Keeping DEF CliRenews, Confirm, RenewsBeside, Reserved
  <1>11. CASE Tick
    BY <1>11, Keeping DEF Tick, Reserved
  <1>12. CASE UNCHANGED vars
    BY <1>12, Keeping DEF vars, Reserved
  <1> QED
    BY <1>1, <1>2, <1>3, <1>4, <1>5, <1>6, <1>7, <1>8, <1>9, <1>10, <1>11, <1>12
    DEF Next, Take, Renew, RenewReaches, RenewRefused, HoldStarts, Answering

\* One works at a time, and a deploy resumes only what it still reserves.
THEOREM Refinement == Spec => ImplementsReservation
  <1>1. Init => R!Init
    BY DEF Init, R!Init, Working, Reserved
  <1>2. IInv /\ IInv' /\ [Next]_vars => [R!Next]_<<Workers, Reservations>>
    BY StepRefines
  <1> QED
    BY <1>1, <1>2, Invariance, PTL DEF Spec, ImplementsReservation, R!Spec, Workers, Reservations
=============================================================================
