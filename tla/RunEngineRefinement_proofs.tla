--------------------- MODULE RunEngineRefinement_proofs ---------------------
(***************************************************************************)
(* What any step of the run engine may make of a record, and from it the   *)
(* action properties and the refinement: proved once per action here, then *)
(* used by every theorem below without looking at the actions again.       *)
(***************************************************************************)
EXTENDS RunEngine_proofs

USE RunRecordAssumption, RunEngineAssumption DEF RunRecordAssumption, RunEngineAssumption

(***************************************************************************)
(* The transitions of the record r of e into s.                            *)
(***************************************************************************)
Unseen(r, s) ==
    \/ s = r
    \/ r.status \in Waiting /\ \E h \in Deliveries : s = HeldBy(r, h)
    \/ r.status \in Waiting /\ s = [r EXCEPT !.expiry = "past"]
    \/ s = [r EXCEPT !.leased = FALSE]

Nears(r, s) ==
    /\ r.status \in Waiting /\ r.due # "come"
    /\ s = [r EXCEPT !.due = IF @ = "ahead" THEN "slack" ELSE "come"]

Created(r, s) ==
    r.status = Absent /\ \E due \in Dues, expiry \in Expiries : s = NewRun(due, expiry)

Started(r, s) ==
    /\ r.status \in Unfinished /\ ~Leased(r)
    /\ r.attempts < MaxAttempts /\ r.due # "ahead"
    /\ s = Claimed(r)

Worked(e, r, s) ==
    \E w \in Deliverers :
        /\ Working(w) /\ job[w].exec = e /\ OwnsRun(w)
        /\ \/ s = Renewed(r)
           \/ /\ At(w, "finish") /\ job'[w].at # "finish"
              /\ s = Judged(r, job[w].answer, job[w].attempt, Task(e))

CanceledBy(c, e) == Calling(c, "cancel") /\ call[c].exec = e /\ call'[c].at # "cancel"

Ended(e, r, s) ==
    /\ r.status \in Unfinished
    /\ \E t \in {"expired", "failed", "canceled"} :
         /\ s = SettledAs(r, t)
         /\ t # "canceled" => ~Leased(r)
         /\ t = "canceled" => \E c \in Callers : CanceledBy(c, e)
         /\ t = "expired" => r.status \in Waiting /\ r.attempts = 0

MovedOn(e, r, s) ==
    /\ Task(e) /\ r.status = "delayed" /\ r.due # "come"
    /\ \E d \in Deliveries, due \in Dues : d > r.delivery /\ s = Moved(r, d, due)

PutOnAgain(e, r, s) ==
    /\ ~Task(e) /\ r.status = "failed"
    /\ \E d \in Deliveries : d > r.delivery /\ s = Redriven(r, d)

Undone(e, r, s) ==
    /\ r.status \in Waiting /\ r.attempts = 0
    /\ s \in Run /\ RecordOK(s) /\ s.delivery < r.delivery
    /\ s.status = IF Task(e) THEN "delayed" ELSE "failed"
    /\ Task(e) => s.due # "come"
    /\ ~Task(e) => r.due # "ahead"

Removed(e, r, s) ==
    /\ s = NoRun
    /\ \/ Task(e) /\ r.status \in Waiting /\ r.attempts = 0 /\ r.delivery = 0
       \/ ~Task(e) /\ r.status = "failed"

Transition(e, r, s) ==
    \/ Unseen(r, s) \/ Nears(r, s) \/ Created(r, s) \/ Started(r, s) \/ Worked(e, r, s)
    \/ Ended(e, r, s) \/ MovedOn(e, r, s) \/ PutOnAgain(e, r, s) \/ Undone(e, r, s)
    \/ Removed(e, r, s)

Steps(e, s) == run' = [run EXCEPT ![e] = s] /\ Transition(e, run[e], s)

StepsSomewhere == \E e \in Executions : \E s : Steps(e, s)

LEMMA StaysPut ==
    ASSUME IInv, run' = run
    PROVE  StepsSomewhere
  <1>1. PICK e \in Executions : TRUE
    OBVIOUS
  <1>2. run' = [run EXCEPT ![e] = run[e]]
    BY DEF IInv, TypeOK
  <1> QED BY <1>1, <1>2 DEF StepsSomewhere, Steps, Transition, Unseen

LEMMA GoesThere ==
    ASSUME IInv, NEW w \in Deliverers, NEW t, Goto(w, t)
    PROVE  job'[w].at = t
  BY InHand DEF Goto, GotoWith, NoJob

\* What the steps of a deliverer make of its record.
LEMMA DelivererTransitions ==
    ASSUME IInv, NEW w \in Deliverers, Deliver(w) \/ RenewLease(w) \/ CallFails(w) \/ Crash(w)
    PROVE  StepsSomewhere
  <1> DEFINE e == job[w].exec
             d == job[w].delivery
             r == run[e]
  <1>0. /\ e \in Executions /\ d \in Deliveries /\ run \in [Executions -> Run]
        /\ w \in fresh => DelivererKnows(r, job[w])
    BY InHand
  <1>1. CASE run' = run
    BY <1>1, StaysPut
  <1>2. ASSUME NEW s, run' = [run EXCEPT ![e] = s], Transition(e, r, s)
        PROVE  StepsSomewhere
    BY <1>0, <1>2 DEF StepsSomewhere, Steps
  <1>3. ASSUME At(w, "hold"), w \in fresh, run' = [run EXCEPT ![e] = HeldBy(r, d)]
        PROVE  StepsSomewhere
    BY <1>0, <1>2, <1>3 DEF Transition, Unseen, DelivererKnows, At
  <1>4. ASSUME NEW t \in {"expired", "failed"}, w \in fresh,
               job[w].at \in {"expire", "exhaust", "undeliverable"},
               t = "expired" => At(w, "expire"),
               run' = [run EXCEPT ![e] = SettledAs(r, t)]
        PROVE  StepsSomewhere
    <2>1. r.status \in Unfinished /\ ~Leased(r)
      BY <1>0, <1>4 DEF DelivererKnows, Unfinished, Waiting, Leased
    <2>2. t = "expired" => r.status \in Waiting /\ r.attempts = 0
      BY <1>0, <1>4 DEF DelivererKnows, At
    <2>3. Ended(e, r, SettledAs(r, t))
      BY <2>1, <2>2 DEF Ended
    <2> QED BY <1>2, <1>4, <2>3 DEF Transition
  <1>5. ASSUME At(w, "claim"), w \in fresh, run' = [run EXCEPT ![e] = Claimed(r)]
        PROVE  StepsSomewhere
    BY <1>0, <1>2, <1>5 DEF Transition, Started, DelivererKnows, At
  <1>6. ASSUME Working(w), OwnsRun(w), NEW s, run' = [run EXCEPT ![e] = s],
               \/ s = Renewed(r)
               \/ /\ At(w, "finish") /\ job'[w].at # "finish"
                  /\ s = Judged(r, job[w].answer, job[w].attempt, Task(e))
        PROVE  StepsSomewhere
    BY <1>2, <1>6 DEF Transition, Worked
  <1>7. w \in fresh /\ job[w].at \in {"work", "finish"} => Working(w) /\ OwnsRun(w)
    BY <1>0 DEF DelivererKnows, Working, OwnsRun
  <1>8. CASE CreateOnArrival(w)
    <2>1. CASE Admit(w, "slots")
      BY <1>1, <2>1 DEF Admit
    <2>2. ASSUME NEW due \in Dues, NEW expiry \in Expiries, r.status = Absent,
                 Put(e, w, NewRun(due, expiry))
          PROVE  StepsSomewhere
      BY <1>2, <2>2 DEF Put, Transition, Created
    <2>3. \A due \in Dues : ExpiriesOnArrival(due) \subseteq Expiries
      BY DEF ExpiriesOnArrival, Expiries
    <2> QED BY <1>8, <2>1, <2>2, <2>3 DEF CreateOnArrival
  <1>9. CASE AdmitWrite(w)
    <2>1. CASE AdmitAgain(w, "slots")
      BY <1>1, <2>1 DEF AdmitAgain, Admit, NoStoreCall
    <2> QED BY <1>9, <2>1, <1>3, <1>4, AdmitWriteOver DEF Write, Put, LastWrite, At
  <1>10. CASE FailUndeliverable(w)
    BY <1>10, <1>1, <1>4, FailUndeliverableOver DEF FailUndeliverable, LastWrite, NoStoreCall, At
  <1>11. CASE Claim(w)
    <2>1. CASE AdmitAgain(w, "claim")
      BY <1>1, <2>1 DEF AdmitAgain, Admit, NoStoreCall
    <2> QED BY <1>11, <2>1, <1>5, ClaimOver DEF Claim, Write, Put
  <1>12. CASE RenewLease(w)
    BY <1>12, <1>6 DEF RenewLease, Put, Working, At
  <1>13. CASE Finish(w)
    <2>1. ASSUME LastWrite(e, w, Judged(r, job[w].answer, job[w].attempt, Task(e))),
                 NEW t \in {"ack", "hide"}, Goto(w, t)
          PROVE  StepsSomewhere
      <3>1. job'[w].at # "finish"
        BY <2>1, GoesThere
      <3> QED BY <1>13, <2>1, <3>1, <1>6, <1>7 DEF Finish, LastWrite, At
    <2> QED BY <1>13, <2>1, <1>1, FinishOver DEF Read, NoStoreCall
  <1>14. CASE CallFails(w)
    <2>1. CASE At(w, "finish") /\ LastWrite(e, w, Judged(r, job[w].answer, job[w].attempt, Task(e)))
      <3>1. job'[w].at # "finish"
        BY <1>14, GoesThere DEF CallFails
      <3> QED BY <2>1, <3>1, <1>6, <1>7 DEF LastWrite, At
    <2>2. CASE At(w, "claim") /\ LastWrite(e, w, Claimed(r))
      BY <2>2, <1>5 DEF LastWrite
    <2>3. CASE At(w, "hold") /\ LastWrite(e, w, HeldBy(r, d))
      BY <2>3, <1>3 DEF LastWrite
    <2>4. CASE At(w, "expire") /\ LastWrite(e, w, SettledAs(r, "expired"))
      BY <2>4, <1>4 DEF LastWrite, At
    <2>5. CASE job[w].at \in {"exhaust", "undeliverable"} /\ LastWrite(e, w, SettledAs(r, "failed"))
      BY <2>5, <1>4 DEF LastWrite, At
    <2>6. CASE NoStoreCall
      BY <2>6, <1>1 DEF NoStoreCall
    <2> QED BY <1>14, <2>1, <2>2, <2>3, <2>4, <2>5, <2>6, CallFailsOver
  <1>15. CASE \/ Arrive(w) \/ SlotsTaken(w) \/ SlotsRefused(w) \/ AttemptCanceled(w)
              \/ Answered(w) \/ Dispose(w) \/ Crash(w)
    BY <1>15, <1>1 DEF Arrive, Admit, NoStoreCall, SlotsTaken, SlotsRefused, AttemptCanceled,
                       Answered, Dispose, Crash
  <1> QED BY <1>8, <1>9, <1>10, <1>11, <1>12, <1>13, <1>14, <1>15 DEF Deliver

\* What the steps of a caller make of the record it is about.
LEMMA CallerTransitions ==
    ASSUME IInv, NEW c \in Callers,
           \/ CallerStep(c) \/ SendFails(c) \/ CallerCrash(c)
           \/ \E e \in Executions : Trigger(c, e) \/ Publish(c, e) \/ Begin(c, e)
    PROVE  StepsSomewhere
  <1> DEFINE e == call[c].exec
             r == run[e]
  <1>0. /\ e \in Executions /\ c \in fresh => CallerKnows(r, call[c])
        /\ e \in Executions /\ r \in Run /\ RecordOK(r)
        /\ PutsBack(call[c], Task(e)) /\ call[c].saved \in Run
        /\ (r.status # Absent => r.delivery < named[e]) /\ named[e] \in 0..(MaxDelivery + 1)
    BY InCall
  <1>1. CASE run' = run
    BY <1>1, StaysPut
  <1>2. ASSUME NEW x \in Executions, NEW s, run' = [run EXCEPT ![x] = s],
               Transition(x, run[x], s)
        PROVE  StepsSomewhere
    BY <1>2 DEF StepsSomewhere, Steps
  <1>3. ASSUME NEW x \in Executions, Trigger(c, x)
        PROVE  StepsSomewhere
    <2>1. PICK due \in Dues : Put(x, c, NewRun(due, Expiry))
      BY <1>3 DEF Trigger
    <2>2. run[x].status = Absent
      BY <1>3 DEF Trigger, IInv, RecordsOK, NoRun, Task
    <2> QED BY <1>2, <2>1, <2>2 DEF Put, Transition, Created, Expiries
  <1>4. CASE Undo(c)
    <2>1. CASE LastWrite(e, c, call[c].saved)
      <3>1. /\ call[c].at \in {"drop", "restore"} /\ r.status \in Waiting /\ r.attempts = 0
            /\ r.delivery = call[c].delivery
            /\ call[c].at = "restore" /\ call[c].saved.status = "failed" => r.due # "ahead"
        BY <1>0, <1>4, <2>1 DEF Undo, LastWrite, CallerKnows
      <3>2. CASE call[c].at = "drop"
        <4>1. Removed(e, r, call[c].saved)
          BY <1>0, <3>1, <3>2 DEF Removed, PutsBack
        <4> QED BY <1>0, <1>2, <2>1, <4>1 DEF LastWrite, Transition
      <3>3. CASE call[c].at = "restore"
        <4>1. Undone(e, r, call[c].saved)
          BY <1>0, <3>1, <3>3 DEF Undone, PutsBack
        <4> QED BY <1>0, <1>2, <2>1, <4>1 DEF LastWrite, Transition
      <3> QED BY <3>1, <3>2, <3>3
    <2> QED BY <1>1, <1>4, <2>1 DEF Undo, WriteOrGiveUp
  <1>5. CASE Cancel(c)
    <2>1. CASE /\ LastWrite(e, c, SettledAs(r, "canceled"))
               /\ call' = [call EXCEPT ![c] = NoCall]
      <3>1. r.status \in Unfinished
        BY <1>0, <1>5, <2>1 DEF Cancel, LastWrite, CallerKnows, Calling
      <3>2. CanceledBy(c, e)
        <4>1. Calling(c, "cancel") /\ call' = [call EXCEPT ![c] = NoCall] /\ call \in [Callers -> Call]
          BY <1>5, <2>1, <1>0 DEF Cancel, LastWrite, Return, IInv, TypeOK
        <4> QED BY <4>1 DEF CanceledBy, Calling, NoCall
      <3>3. Ended(e, r, SettledAs(r, "canceled"))
        BY <3>1, <3>2 DEF Ended
      <3> QED BY <1>0, <1>2, <2>1, <3>3 DEF LastWrite, Transition
    <2> QED BY <1>1, <1>5, <2>1 DEF Cancel, Read
  <1>6. CASE Reschedule(c)
    <2>1. ASSUME NEW due \in Dues, Movable(r), named[e] <= MaxDelivery,
                 Write(e, c, Moved(r, named[e], due))
          PROVE  StepsSomewhere
      <3>1. r.status = "delayed" /\ r.due # "come"
        BY <1>0, <2>1 DEF Movable, StatusAt, Lapsed, RecordOK, Waiting
      <3>2. Task(e) /\ named[e] \in Deliveries /\ named[e] > r.delivery
        BY <1>0, <1>6, <2>1, <3>1 DEF Reschedule, Calling, PutsBack, Absent, Deliveries, Run
      <3>3. MovedOn(e, r, Moved(r, named[e], due))
        BY <3>1, <3>2 DEF MovedOn
      <3> QED BY <1>0, <1>2, <2>1, <3>3 DEF Write, Put, Transition
    <2> QED BY <1>1, <1>6, <2>1 DEF Reschedule, Read
  <1>7. CASE Redrive(c)
    <2>1. CASE named[e] <= MaxDelivery /\ Write(e, c, Redriven(r, named[e]))
      <3>1. r.status = "failed" /\ ~Task(e)
        BY <1>0, <1>7, <2>1 DEF Redrive, Write, CallerKnows, PutsBack, Calling
      <3>2. named[e] \in Deliveries /\ named[e] > r.delivery
        BY <1>0, <2>1, <3>1 DEF Absent, Deliveries, Run
      <3>3. PutOnAgain(e, r, Redriven(r, named[e]))
        BY <3>1, <3>2 DEF PutOnAgain
      <3> QED BY <1>0, <1>2, <2>1, <3>3 DEF Write, Put, Transition
    <2> QED BY <1>1, <1>7, <2>1 DEF Redrive
  <1>8. CASE Purge(c)
    <2>1. CASE LastWrite(e, c, NoRun)
      <3>1. r.status = "failed" /\ ~Task(e)
        BY <1>0, <1>8, <2>1 DEF Purge, LastWrite, CallerKnows, PutsBack, Calling
      <3>2. Removed(e, r, NoRun)
        BY <3>1 DEF Removed
      <3> QED BY <1>0, <1>2, <2>1, <3>2 DEF LastWrite, Transition
    <2> QED BY <1>1, <1>8, <2>1 DEF Purge, WriteOrGiveUp
  <1>9. CASE \/ SendMessage(c) \/ SendFails(c) \/ CallerCrash(c)
             \/ \E x \in Executions : Publish(c, x) \/ Begin(c, x)
    BY <1>1, <1>9 DEF SendMessage, SendFails, CallerCrash, Publish, Begin, Read
  <1> QED BY <1>3, <1>4, <1>5, <1>6, <1>7, <1>8, <1>9 DEF CallerStep

\* Every step is a transition of one record, or leaves the store alone.
LEMMA NextTransitions ==
    ASSUME IInv, [Next]_vars
    PROVE  StepsSomewhere
  <1>1. CASE run' = run
    BY <1>1, StaysPut
  <1>2. ASSUME NEW w \in Deliverers, Deliver(w) \/ RenewLease(w) \/ CallFails(w) \/ Crash(w)
        PROVE  StepsSomewhere
    BY <1>2, DelivererTransitions
  <1>3. ASSUME NEW c \in Callers,
               \/ CallerStep(c) \/ SendFails(c) \/ CallerCrash(c)
               \/ \E e \in Executions : Trigger(c, e) \/ Publish(c, e) \/ Begin(c, e)
        PROVE  StepsSomewhere
    BY <1>3, CallerTransitions
  <1>4. ASSUME NEW e \in Executions, NEW s, run' = [run EXCEPT ![e] = s], Transition(e, run[e], s)
        PROVE  StepsSomewhere
    BY <1>4 DEF StepsSomewhere, Steps
  <1>5. ASSUME NEW e \in Executions, DueArrives(e)
        PROVE  StepsSomewhere
    <2> DEFINE s == [run[e] EXCEPT !.due = IF @ = "ahead" THEN "slack" ELSE "come"]
    <2>1. Nears(run[e], s) /\ run' = [run EXCEPT ![e] = s]
      BY <1>5 DEF DueArrives, Ages, Nears
    <2> QED BY <1>4, <2>1 DEF Transition
  <1>6. ASSUME NEW e \in Executions, TtlPasses(e) \/ LeaseLapses(e)
        PROVE  StepsSomewhere
    BY <1>4, <1>6 DEF TtlPasses, LeaseLapses, Ages, Transition, Unseen
  <1>7. ASSUME NEW w \in Deliverers, NEW e \in Executions, NEW d \in Deliveries, Receive(w, e, d)
        PROVE  run' = run
    BY <1>7 DEF Receive
  <1>8. ASSUME NEW e \in Executions, NEW d \in Deliveries,
               Reappear(e, d) \/ Overrun(e, d) \/ Duplicate(e, d) \/ DeadLetter(e, d)
        PROVE  run' = run
    BY <1>8 DEF Reappear, Overrun, Duplicate, DeadLetter
  <1> QED BY <1>1, <1>2, <1>3, <1>5, <1>6, <1>7, <1>8 DEF Next, vars

\* What a theorem about a step may use of it.
LEMMA TheStep ==
    ASSUME IInv, [Next]_vars
    PROVE  \E e \in Executions : \E s :
              /\ Transition(e, run[e], s) /\ run' = [run EXCEPT ![e] = s]
              /\ run[e] \in Run /\ RecordOK(run[e]) /\ (run[e].status = Absent => run[e] = NoRun)
              /\ run'[e] = s /\ \A x \in Executions : x # e => run'[x] = run[x]
  BY NextTransitions DEF StepsSomewhere, Steps, IInv, TypeOK, RecordsOK

-----------------------------------------------------------------------------
(***************************************************************************)
(* The action properties.                                                  *)
(***************************************************************************)

\* A run that has settled is never written again, but that a failed topic run
\* may be redriven or purged: late answers, stale copies, cancels, expiries and
\* undone sends all miss it.
THEOREM SettledForGood == Spec => SettledStays
  <1> DEFINE Stays(e) == run[e].status \in Settled =>
                           \/ run'[e] = run[e]
                           \/ ~Task(e) /\ run[e].status = "failed"
  <1>1. ASSUME IInv, [Next]_vars, NEW e \in Executions, run[e].status \in Settled
        PROVE  Stays(e)
    <2>1. PICK x \in Executions : \E s :
             /\ Transition(x, run[x], s) /\ run[x] \in Run /\ RecordOK(run[x]) /\ run'[x] = s
             /\ \A y \in Executions : y # x => run'[y] = run[y]
      BY <1>1, TheStep
    <2>2. CASE x = e
      <3>1. PICK s : Transition(e, run[e], s) /\ run'[e] = s /\ run[e] \in Run /\ RecordOK(run[e])
        BY <2>1, <2>2
      <3>2. /\ run[e].status \notin Unfinished /\ run[e].status \notin Waiting
            /\ run[e].status # Absent /\ run[e].leased = FALSE
        BY <1>1, <3>1 DEF Settled, Unfinished, Waiting, Absent, RecordOK, Run
      <3>3. ~Worked(e, run[e], s)
        BY <3>2 DEF Worked, OwnsRun, Owns, Unfinished
      <3>4. [run[e] EXCEPT !.leased = FALSE] = run[e]
        BY <3>1, <3>2 DEF Run
      <3> QED BY <3>1, <3>2, <3>3, <3>4
              DEF Transition, Unseen, Nears, Created, Started, Ended, MovedOn, PutOnAgain,
                  Undone, Removed, Unfinished, Waiting
    <2> QED BY <2>1, <2>2
  <1>2. IInv /\ [Next]_vars => [\A e \in Executions : Stays(e)]_vars
    BY <1>1
  <1> QED BY <1>2, Invariance, PTL DEF Spec, SettledStays

\* A deliverer that leaves "claim" for "work" wrote its claim over a record
\* that carried no lease.
LEMMA LeasedIsNotClaimed ==
    ASSUME IInv, [Next]_vars, NEW e \in Executions, Leased(run[e]), NEW w \in Deliverers
    PROVE  ~Claims(w, e)
  <1> SUFFICES ASSUME Claims(w, e) PROVE FALSE
    OBVIOUS
  <1>0. /\ At(w, "claim") /\ job[w].exec = e /\ job'[w].at = "work" /\ job'[w] # job[w]
        /\ job \in [Deliverers -> Job]
    BY DEF Claims, At, IInv, TypeOK
  <1>1. CASE Claim(w)
    <2>1. CASE AdmitAgain(w, "claim")
      <3>1. ASSUME NEW n \in 0..MaxAttempts, NEW t, GotoWith(w, t, n) PROVE job'[w].at = t
        BY <1>0, <3>1 DEF GotoWith, NoJob
      <3>2. \E t \in {"ack", "hide", "hold", "expire", "exhaust", "undeliverable", "claim"},
               n \in 0..MaxAttempts : GotoWith(w, t, n)
        <4>0. /\ job[w].receives \in Nat /\ run[e].attempts \in 0..MaxAttempts
              /\ run[e] \in Run /\ RecordOK(run[e]) /\ job[w].delivery \in Deliveries
              /\ job[w].attempt \in 0..MaxAttempts
          BY <1>0, InHand DEF Job, Run
        <4>1. CASE Goto(w, "hide")
          BY <4>0, <4>1 DEF Goto
        <4>2. CASE Admit(w, "claim")
          <5> DEFINE next == Admission(run[e], job[w].delivery, job[w].receives, "claim")
          <5>1. next \in {"ack", "hide", "hold", "expire", "exhaust", "undeliverable", "claim"}
            BY <4>0, AdmissionKnows
          <5>2. GotoWith(w, next, run[e].attempts)
            BY <1>0, <4>2 DEF Admit
          <5> HIDE DEF next
          <5> QED BY <4>0, <5>1, <5>2
        <4> QED BY <2>1, <4>1, <4>2 DEF AdmitAgain
      <3> QED BY <1>0, <3>1, <3>2
    <2>2. CASE Write(e, w, Claimed(run[e]))
      BY <1>0, <2>2, InHand DEF Write, DelivererKnows, At
    <2> QED BY <1>0, <1>1, <2>1, <2>2, ClaimOver
  <1>2. CASE CallFails(w)
    BY <1>0, <1>2, GoesThere DEF CallFails
  <1>3. CASE Crash(w)
    BY <1>0, <1>3 DEF Crash, NoJob
  <1>4. ASSUME NEW v \in Deliverers, v # w,
               \/ Deliver(v) \/ RenewLease(v) \/ CallFails(v) \/ Crash(v)
               \/ \E x \in Executions, d \in Deliveries : Receive(v, x, d)
        PROVE  FALSE
    BY <1>0, <1>4
       DEF Deliver, Arrive, Admit, CreateOnArrival, AdmitWrite, AdmitAgain, FailUndeliverable,
           SlotsTaken, SlotsRefused, Claim, RenewLease, AttemptCanceled, Answered, Finish, Dispose,
           CallFails, Crash, Receive, Goto, GotoWith
  <1>5. CASE \/ Deliver(w) \/ RenewLease(w)
             \/ \E x \in Executions, d \in Deliveries : Receive(w, x, d)
    BY <1>0, <1>1, <1>5
       DEF Deliver, Arrive, CreateOnArrival, AdmitWrite, FailUndeliverable, SlotsTaken,
           SlotsRefused, RenewLease, AttemptCanceled, Answered, Finish, Dispose, Receive, At
  <1>6. ASSUME NEW c \in Callers,
               \/ CallerStep(c) \/ SendFails(c) \/ CallerCrash(c)
               \/ \E x \in Executions : Trigger(c, x) \/ Publish(c, x) \/ Begin(c, x)
        PROVE  FALSE
    BY <1>0, <1>6
       DEF CallerStep, SendMessage, Undo, Cancel, Reschedule, Redrive, Purge, SendFails,
           CallerCrash, Trigger, Publish, Begin
  <1>7. ASSUME NEW x \in Executions,
               \/ \E d \in Deliveries : Reappear(x, d) \/ Overrun(x, d) \/ Duplicate(x, d) \/ DeadLetter(x, d)
               \/ DueArrives(x) \/ TtlPasses(x) \/ LeaseLapses(x)
        PROVE  FALSE
    BY <1>0, <1>7
       DEF Reappear, Overrun, Duplicate, DeadLetter, DueArrives, TtlPasses, LeaseLapses, Ages
  <1> QED BY <1>0, <1>2, <1>3, <1>4, <1>5, <1>6, <1>7 DEF Next, vars

\* While the lease of an attempt is ahead the run is not claimed again, and its
\* record changes by the hand of its owner, by a cancel or by the lapse of the
\* lease: the step that changes it is the owner's or the canceling caller's own.
THEOREM LeaseHolds == Spec => LeaseRespected
  <1> DEFINE Respects(e) ==
        Leased(run[e]) =>
          /\ \A w \in Deliverers : ~Claims(w, e)
          /\ run'[e] # run[e] =>
               \/ run'[e] = [run[e] EXCEPT !.leased = FALSE]
               \/ \E w \in Deliverers : OwnerJudges(w, e)
               \/ \E c \in Callers : CallerCancels(c, e)
  <1>1. ASSUME IInv, [Next]_vars, NEW e \in Executions
        PROVE  Respects(e)
    <2> SUFFICES ASSUME Leased(run[e]), run'[e] # run[e]
                 PROVE  \/ run'[e] = [run[e] EXCEPT !.leased = FALSE]
                        \/ \E w \in Deliverers : OwnerJudges(w, e)
                        \/ \E c \in Callers : CallerCancels(c, e)
      BY <1>1, LeasedIsNotClaimed
    <2>1. PICK x \in Executions : \E s :
             /\ Transition(x, run[x], s) /\ run[x] \in Run /\ RecordOK(run[x]) /\ run'[x] = s
             /\ \A y \in Executions : y # x => run'[y] = run[y]
      BY <1>1, TheStep
    <2>2. PICK s : Transition(e, run[e], s) /\ run'[e] = s /\ run[e] \in Run
      BY <2>1
    <2>3. run[e].status = "executing" /\ run[e].leased /\ run[e].status \notin Waiting
      BY DEF Leased, Waiting
    <2>4. CASE Worked(e, run[e], s)
      <3>1. Renewed(run[e]) = run[e]
        BY <2>2, <2>3 DEF Renewed, Run
      <3> QED BY <2>2, <2>4, <3>1 DEF Worked, OwnerJudges
    <2>5. CASE Ended(e, run[e], s)
      BY <2>2, <2>5 DEF Ended, CanceledBy, CallerCancels
    <2>6. CASE Unseen(run[e], s)
      BY <2>2, <2>3, <2>6 DEF Unseen
    <2> QED BY <2>2, <2>3, <2>4, <2>5, <2>6
            DEF Transition, Nears, Created, Started, MovedOn, PutOnAgain, Undone, Removed, Leased, Absent
  <1>2. IInv /\ [Next]_vars => [\A e \in Executions : Respects(e)]_vars
    BY <1>1
  <1> QED BY <1>2, Invariance, PTL DEF Spec, LeaseRespected

\* An attempt is only ever counted on a run whose time has come or is within
\* the slack a deliverer waits out.
THEOREM StartsOnTime == Spec => NoEarlyStart
  <1> DEFINE OnTime(e) == run'[e].attempts > run[e].attempts => run[e].due # "ahead"
  <1>1. ASSUME IInv, [Next]_vars, NEW e \in Executions
        PROVE  OnTime(e)
    <2>1. PICK x \in Executions : \E s :
             /\ Transition(x, run[x], s) /\ run[x] \in Run /\ RecordOK(run[x]) /\ run'[x] = s
             /\ (run[x].status = Absent => run[x] = NoRun)
             /\ \A y \in Executions : y # x => run'[y] = run[y]
      BY <1>1, TheStep
    <2>2. CASE x = e
      <3>1. PICK s : /\ Transition(e, run[e], s) /\ run'[e] = s /\ run[e] \in Run
                     /\ RecordOK(run[e]) /\ (run[e].status = Absent => run[e] = NoRun)
        BY <2>1, <2>2
      <3>2. run[e].attempts \in Nat
        BY <3>1 DEF Run
      <3>3. SUFFICES ASSUME run[e].due = "ahead" PROVE ~(s.attempts > run[e].attempts)
        BY <3>1, <3>2
      <3>4. run[e].attempts = 0
        BY <3>1, <3>2, <3>3 DEF RecordOK
      <3>5. ~Worked(e, run[e], s) /\ ~Started(run[e], s)
        BY <3>1, <3>3, <3>4 DEF Worked, OwnsRun, Owns, Started, RecordOK
      <3>6. CASE Undone(e, run[e], s)
        BY <3>3, <3>4, <3>6 DEF Undone, RecordOK
      <3>7. CASE Unseen(run[e], s) \/ Nears(run[e], s) \/ Ended(e, run[e], s)
        <4>1. s.attempts = run[e].attempts
          <5>1. CASE Unseen(run[e], s)
            BY <3>1, <5>1 DEF Unseen, HeldBy, Run
          <5>2. CASE Nears(run[e], s)
            BY <3>1, <5>2 DEF Nears, Run
          <5>3. CASE Ended(e, run[e], s)
            BY <3>1, <5>3 DEF Ended, SettledAs, Run
          <5> QED BY <3>7, <5>1, <5>2, <5>3
        <4> QED BY <3>2, <4>1
      <3>8. CASE Created(run[e], s) \/ Removed(e, run[e], s)
        BY <3>4, <3>8, NewRunOK DEF Created, Removed, NoRun
      <3>9. CASE MovedOn(e, run[e], s) \/ PutOnAgain(e, run[e], s)
        <4>1. s.attempts = 0
          <5>1. CASE MovedOn(e, run[e], s)
            BY <3>1, <3>4, <5>1 DEF MovedOn, Moved, Run
          <5>2. CASE PutOnAgain(e, run[e], s)
            BY <3>1, <5>2 DEF PutOnAgain, Redriven, Run
          <5> QED BY <3>9, <5>1, <5>2
        <4> QED BY <3>4, <4>1
      <3> QED BY <3>1, <3>5, <3>6, <3>7, <3>8, <3>9 DEF Transition
    <2>3. CASE x # e
      <3>1. run[e].attempts \in Nat
        BY <1>1 DEF IInv, TypeOK, Run
      <3> QED BY <2>1, <2>3, <3>1
    <2> QED BY <2>2, <2>3
  <1>2. IInv /\ [Next]_vars => [\A e \in Executions : OnTime(e)]_vars
    BY <1>1
  <1> QED BY <1>2, Invariance, PTL DEF Spec, NoEarlyStart

-----------------------------------------------------------------------------
(***************************************************************************)
(* The refinement.                                                         *)
(***************************************************************************)
View(r) == [status |-> r.status, attempts |-> r.attempts,
            delivery |-> r.delivery, due |-> r.due]

Life == [e \in Executions |->
            [status   |-> run[e].status,
             attempts |-> run[e].attempts,
             delivery |-> run[e].delivery,
             due      |-> run[e].due]]

\* A write of one record is a change of one life.
LEMMA LifeChanges ==
    ASSUME run \in [Executions -> Run], NEW e \in Executions, NEW s,
           run' = [run EXCEPT ![e] = s]
    PROVE  /\ Life' = [Life EXCEPT ![e] = View(s)]
           /\ Life[e] = View(run[e])
           /\ View(s) = View(run[e]) => Life' = Life
  BY DEF Life, View

\* Each transition of a record is a step of the life of its run, or unseen.
LEMMA TransitionIsLife ==
    ASSUME run \in [Executions -> Run], NEW e \in Executions, NEW s, run' = [run EXCEPT ![e] = s],
           RecordOK(run[e]), run[e].status = Absent => run[e] = NoRun, Transition(e, run[e], s)
    PROVE  Lifecycle!Next \/ Life' = Life
  <1> DEFINE r == run[e]
  <1>0. /\ r \in Run /\ Life' = [Life EXCEPT ![e] = View(s)] /\ Life[e] = View(r)
        /\ View(s) = View(r) => Life' = Life
    BY LifeChanges
  <1>1. /\ Life[e].status = r.status /\ Life[e].attempts = r.attempts
        /\ Life[e].delivery = r.delivery /\ Life[e].due = r.due
    BY <1>0 DEF View
  <1>2. CASE Unseen(r, s)
    <2>1. View(s) = View(r)
      BY <1>0, <1>2 DEF Unseen, View, HeldBy, Run
    <2> QED BY <1>0, <2>1
  <1>3. CASE Nears(r, s)
    <2>1. View(s) = [View(r) EXCEPT !.due = IF @ = "ahead" THEN "slack" ELSE "come"]
      BY <1>0, <1>3 DEF Nears, View, Run
    <2>2. Lifecycle!ComesDue(e)
      BY <1>0, <1>1, <1>3, <2>1
         DEF Nears, Lifecycle!ComesDue, Lifecycle!Becomes, Lifecycle!Waiting, Waiting, Life
    <2> QED BY <2>2 DEF Lifecycle!Next
  <1>4. CASE Created(r, s)
    <2>1. PICK due \in Dues, expiry \in Expiries : s = NewRun(due, expiry)
      BY <1>4 DEF Created
    <2>2. View(s) = [status |-> WaitingFor(due), attempts |-> 0, delivery |-> 0, due |-> due]
      BY <2>1 DEF View, NewRun
    <2>3. Lifecycle!Create(e)
      BY <1>0, <1>1, <1>4, <2>2
         DEF Created, Lifecycle!Create, Lifecycle!Becomes, Lifecycle!WaitingFor, Lifecycle!Dues,
             Lifecycle!Absent, WaitingFor, Dues, Absent, Life
    <2> QED BY <2>3 DEF Lifecycle!Next
  <1>5. CASE Started(r, s)
    <2>0. /\ s.status = "executing" /\ s.attempts = r.attempts + 1
          /\ s.delivery = r.delivery /\ s.due = r.due
      BY <1>0, <1>5 DEF Started, Claimed, Run
    <2>1. View(s) = [View(r) EXCEPT !.status = "executing", !.attempts = @ + 1]
      <3>1. View(s) = [status |-> "executing", attempts |-> r.attempts + 1,
                       delivery |-> r.delivery, due |-> r.due]
        BY <2>0 DEF View
      <3> DEFINE a == [View(r) EXCEPT !.status = "executing"]
      <3>2. a = [status |-> "executing", attempts |-> r.attempts,
                 delivery |-> r.delivery, due |-> r.due]
        BY DEF View
      <3>3. [View(r) EXCEPT !.status = "executing", !.attempts = @ + 1]
              = [a EXCEPT !.attempts = a.attempts + 1]
        BY <3>2 DEF View
      <3> HIDE DEF a
      <3>4. [a EXCEPT !.attempts = a.attempts + 1]
              = [status |-> "executing", attempts |-> r.attempts + 1,
                 delivery |-> r.delivery, due |-> r.due]
        BY <3>2
      <3> QED BY <3>1, <3>3, <3>4
    <2>2. Lifecycle!Start(e)
      BY <1>0, <1>1, <1>5, <2>1
         DEF Started, Lifecycle!Start, Lifecycle!Becomes, Lifecycle!Unfinished, Lifecycle!Waiting,
             Unfinished, Waiting, Life
    <2> QED BY <2>2 DEF Lifecycle!Next
  <1>6. CASE Worked(e, r, s)
    <2>1. PICK w \in Deliverers :
            /\ r.status = "executing" /\ r.attempts = job[w].attempt
            /\ s = Renewed(r) \/ s = Judged(r, job[w].answer, job[w].attempt, Task(e))
      BY <1>6 DEF Worked, OwnsRun, Owns
    <2>2. CASE s = Renewed(r)
      <3>1. View(s) = View(r)
        BY <1>0, <2>2 DEF View, Renewed, Run
      <3> QED BY <1>0, <3>1
    <2>3. CASE s = Judged(r, job[w].answer, job[w].attempt, Task(e))
      <3> DEFINE v == Verdict(job[w].answer, r.attempts, Task(e))
      <3>1. /\ v \in {"completed", "failed", "timed-out", "queued"}
            /\ v = "queued" => ~(r.attempts >= MaxAttempts)
            /\ v = "timed-out" => Task(e)
        BY DEF Verdict
      <3>2. View(s) = [View(r) EXCEPT !.status = v]
        BY <1>0, <2>1, <2>3 DEF View, Judged, Requeued, SettledAs, Run
      <3> HIDE DEF v
      <3>3. CASE v = "queued"
        <4>1. r.attempts < MaxAttempts
          BY <1>0, <3>1, <3>3 DEF Run
        <4>2. Lifecycle!Retry(e)
          BY <1>0, <1>1, <2>1, <3>2, <3>3, <4>1 DEF Lifecycle!Retry, Lifecycle!Becomes, Life
        <4> QED BY <4>2 DEF Lifecycle!Next
      <3>4. CASE v # "queued"
        <4>0. /\ Life' = [Life EXCEPT ![e] = [Life[e] EXCEPT !.status = v]]
              /\ v \in Lifecycle!Settled /\ v # "expired" /\ (v = "timed-out" => e \in Tasks)
              /\ Life[e].status = "executing"
          BY <1>0, <1>1, <2>1, <3>1, <3>2, <3>4 DEF Lifecycle!Settled, Task
        <4>1. Lifecycle!Settle(e)
          BY <4>0 DEF Lifecycle!Settle, Lifecycle!Becomes, Lifecycle!Unfinished, Life
        <4> QED BY <4>1 DEF Lifecycle!Next
      <3> QED BY <3>3, <3>4
    <2> QED BY <2>1, <2>2, <2>3
  <1>7. CASE Ended(e, r, s)
    <2>1. PICK t \in {"expired", "failed", "canceled"} :
            /\ s = SettledAs(r, t)
            /\ t = "expired" => r.status \in Waiting /\ r.attempts = 0
      BY <1>7 DEF Ended
    <2>2. View(s) = [View(r) EXCEPT !.status = t]
      BY <1>0, <2>1 DEF View, SettledAs, Run
    <2>4. /\ Life' = [Life EXCEPT ![e] = [Life[e] EXCEPT !.status = t]]
          /\ t \in Lifecycle!Settled /\ t \notin {"completed", "timed-out"}
          /\ Life[e].status \in Lifecycle!Unfinished
          /\ t = "expired" => Lifecycle!Fresh(Life[e])
      BY <1>0, <1>1, <1>7, <2>1, <2>2
         DEF Ended, Lifecycle!Settled, Lifecycle!Unfinished, Lifecycle!Waiting, Lifecycle!Fresh,
             Unfinished, Waiting
    <2>3. Lifecycle!Settle(e)
      BY <2>4 DEF Lifecycle!Settle, Lifecycle!Becomes, Life
    <2> QED BY <2>3 DEF Lifecycle!Next
  <1>8. CASE MovedOn(e, r, s)
    <2>1. PICK d \in Deliveries, due \in Dues : d > r.delivery /\ s = Moved(r, d, due)
      BY <1>8 DEF MovedOn
    <2>2. /\ s.status = WaitingFor(due) /\ s.attempts = r.attempts
          /\ s.delivery = d /\ s.due = due
      BY <1>0, <2>1 DEF Moved, Run
    <2>4. View(s) = [View(r) EXCEPT !.status = WaitingFor(due), !.delivery = d, !.due = due]
      <3>1. View(s) = [status |-> WaitingFor(due), attempts |-> r.attempts,
                       delivery |-> d, due |-> due]
        BY <2>2 DEF View
      <3> DEFINE a == [View(r) EXCEPT !.status = WaitingFor(due)]
                 b == [a EXCEPT !.delivery = d]
      <3>2. a = [status |-> WaitingFor(due), attempts |-> r.attempts,
                 delivery |-> r.delivery, due |-> r.due]
        BY DEF View
      <3>3. b = [status |-> WaitingFor(due), attempts |-> r.attempts, delivery |-> d, due |-> r.due]
        <4> HIDE DEF a
        <4> QED BY <3>2
      <3>4. [b EXCEPT !.due = due]
              = [status |-> WaitingFor(due), attempts |-> r.attempts, delivery |-> d, due |-> due]
        <4> HIDE DEF b
        <4> QED BY <3>3
      <3> QED BY <3>1, <3>4
    <2>5. /\ Life' = [Life EXCEPT ![e] = [Life[e] EXCEPT !.status = Lifecycle!WaitingFor(due),
                                                        !.delivery = d, !.due = due]]
          /\ d \in Lifecycle!Deliveries /\ due \in Lifecycle!Dues /\ d > Life[e].delivery
          /\ Life[e].status = "delayed" /\ Life[e].due # "come"
      BY <1>0, <1>1, <1>8, <2>1, <2>4
         DEF MovedOn, Lifecycle!WaitingFor, Lifecycle!Dues, Lifecycle!Deliveries, WaitingFor,
             Dues, Deliveries
    <2>3. Lifecycle!Move(e)
      BY <2>5 DEF Lifecycle!Move, Lifecycle!Becomes, Life
    <2> QED BY <2>3 DEF Lifecycle!Next
  <1>9. CASE PutOnAgain(e, r, s)
    <2>1. PICK d \in Deliveries : d > r.delivery /\ s = Redriven(r, d)
      BY <1>9 DEF PutOnAgain
    <2>2. View(s) = [status |-> "queued", attempts |-> 0, delivery |-> d, due |-> "come"]
      BY <1>0, <2>1 DEF View, Redriven, Run
    <2>4. /\ Life' = [Life EXCEPT ![e] = [status |-> "queued", attempts |-> 0,
                                           delivery |-> d, due |-> "come"]]
          /\ d \in Lifecycle!Deliveries /\ d > Life[e].delivery
          /\ e \notin Tasks /\ Life[e].status = "failed"
      BY <1>0, <1>1, <1>9, <2>1, <2>2
         DEF PutOnAgain, Lifecycle!Deliveries, Deliveries, Task
    <2>3. Lifecycle!Redrive(e)
      BY <2>4 DEF Lifecycle!Redrive, Lifecycle!Becomes, Life
    <2> QED BY <2>3 DEF Lifecycle!Next
  <1>10. CASE Undone(e, r, s)
    <2>1. /\ s \in Run /\ s.delivery \in Deliveries /\ s.attempts \in 0..MaxAttempts
          /\ s.due \in Dues /\ s.status \in {"delayed", "failed"} /\ s.delivery < r.delivery
          /\ (s.status = "delayed" => s.attempts = 0 /\ s.due # "come")
          /\ (s.status = "failed" => e \notin Tasks)
      BY <1>10 DEF Undone, Run, RecordOK, Task
    <2>3. /\ Life' = [Life EXCEPT ![e] = [status |-> s.status, attempts |-> s.attempts,
                                           delivery |-> s.delivery, due |-> s.due]]
          /\ s.delivery \in Lifecycle!Deliveries /\ s.due \in Lifecycle!Dues
          /\ s.delivery < Life[e].delivery /\ Lifecycle!Fresh(Life[e])
      BY <1>0, <1>1, <1>10, <2>1
         DEF Undone, View, Lifecycle!Fresh, Lifecycle!Waiting, Lifecycle!Deliveries,
             Lifecycle!Dues, Waiting, Deliveries, Dues
    <2>2. Lifecycle!PutBack(e)
      <3>1. \E d \in Lifecycle!Deliveries, t \in {"delayed", "failed"}, n \in 0..MaxAttempts,
              due \in Lifecycle!Dues :
                /\ d < Life[e].delivery
                /\ t = "delayed" => n = 0 /\ due # "come"
                /\ t = "failed" => e \notin Tasks
                /\ Life' = [Life EXCEPT ![e] = [status |-> t, attempts |-> n,
                                               delivery |-> d, due |-> due]]
        BY <2>1, <2>3
      <3> QED BY <2>3, <3>1 DEF Lifecycle!PutBack, Lifecycle!Becomes, Life
    <2> QED BY <2>2 DEF Lifecycle!Next
  <1>11. CASE Removed(e, r, s)
    <2>1. View(s) = [status |-> Absent, attempts |-> 0, delivery |-> 0, due |-> "ahead"]
      BY <1>11 DEF Removed, View, NoRun
    <2>2. Lifecycle!Remove(e)
      BY <1>0, <1>1, <1>11, <2>1
         DEF Removed, Lifecycle!Remove, Lifecycle!Becomes, Lifecycle!Fresh, Lifecycle!Waiting,
             Lifecycle!Absent, Waiting, Absent, Task, Life
    <2> QED BY <2>2 DEF Lifecycle!Next
  <1> QED BY <1>2, <1>3, <1>4, <1>5, <1>6, <1>7, <1>8, <1>9, <1>10, <1>11 DEF Transition

\* The run engine implements the life of a run: with any number of deliverers,
\* callers, stale copies, lost answers and repeated messages, what the store
\* shows of each run is a life that RunLifecycle allows.
THEOREM Refinement == Spec => ImplementsLifecycle
  <1>1. Init => Lifecycle!Init
    BY DEF Init, Lifecycle!Init, NoRun, Lifecycle!Absent, Absent
  <1>2. IInv /\ [Next]_vars => [Lifecycle!Next]_Life
    <2> SUFFICES ASSUME IInv, [Next]_vars PROVE Lifecycle!Next \/ Life' = Life
      OBVIOUS
    <2>1. run \in [Executions -> Run]
      BY DEF IInv, TypeOK
    <2> QED BY <2>1, TheStep, TransitionIsLife
  <1>3. Life = [e \in Executions |->
                  [status   |-> run[e].status,
                   attempts |-> run[e].attempts,
                   delivery |-> run[e].delivery,
                   due      |-> run[e].due]]
    BY DEF Life
  <1> QED BY <1>1, <1>2, Invariance, PTL DEF Spec, ImplementsLifecycle, Lifecycle!Spec, Life
=============================================================================
