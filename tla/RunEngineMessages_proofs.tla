---------------------- MODULE RunEngineMessages_proofs ----------------------
(***************************************************************************)
(* Messages and the runs they are of: a dead letter that is put back is    *)
(* sent once, and a task run keeps a message until it settles.  Both rest  *)
(* on what a deliverer may write: nothing but the run that waits for the   *)
(* delivery it has in hand.                                                *)
(***************************************************************************)
EXTENDS RunEngine_proofs

USE RunRecordAssumption, RunEngineAssumption DEF RunRecordAssumption, RunEngineAssumption

-----------------------------------------------------------------------------
(***************************************************************************)
(* Deliverers.                                                             *)
(***************************************************************************)
AtWork(w) == Deliver(w) \/ RenewLease(w) \/ CallFails(w) \/ Crash(w)

\* A deliverer writes an unfinished run that waits for its delivery, and past a
\* lease only when it owns it.
Writes(w, s) ==
    LET r == run[job[w].exec] IN
    /\ r.status \in Unfinished /\ r.delivery = job[w].delivery
    /\ s.delivery = r.delivery
    /\ ~Leased(r) \/ (Working(w) /\ OwnsRun(w))

Creates(w, s) ==
    /\ At(w, "create") /\ run[job[w].exec].status = Absent
    /\ job[w].delivery = 0 /\ s.delivery = 0

\* What a deliverer at work leaves alone.
LEMMA DelivererFrame ==
    ASSUME IInv, NEW w \in Deliverers, AtWork(w)
    PROVE  /\ call' = call /\ named' = named /\ ~At(w, "idle")
           /\ \E j : /\ job' = [job EXCEPT ![w] = j]
                     /\ j.at # "idle" => j.exec = job[w].exec /\ j.delivery = job[w].delivery
           /\ \A e \in Executions, d \in Deliveries : WasSent(e, d)' => WasSent(e, d)
  <1> DEFINE Moves == \E j : /\ job' = [job EXCEPT ![w] = j]
                             /\ j.at # "idle" => j.exec = job[w].exec /\ j.delivery = job[w].delivery
  <1>1. ASSUME NEW s, NEW n, GotoWith(w, s, n)
        PROVE  Moves
    <2> DEFINE m == IF s \in {"ack", "hide"} THEN 0 ELSE n
               j == [NoJob EXCEPT !.at = s, !.exec = job[w].exec, !.delivery = job[w].delivery,
                                  !.receives = job[w].receives, !.attempt = m]
    <2>1. job' = [job EXCEPT ![w] = j]
      BY <1>1 DEF GotoWith
    <2> HIDE DEF m
    <2>2. j.exec = job[w].exec /\ j.delivery = job[w].delivery
      BY DEF NoJob
    <2> HIDE DEF j
    <2> QED BY <2>1, <2>2
  <1>11. ASSUME NEW s, Goto(w, s)
         PROVE  Moves
    BY <1>1, <1>11 DEF Goto
  <1>2. ASSUME job' = [job EXCEPT ![w] = NoJob]
        PROVE  Moves
    <2>1. NoJob.at = "idle"
      BY DEF NoJob
    <2> QED BY <1>2, <2>1
  <1>3. ASSUME NEW ready, NEW e, Admit(w, ready) \/ AdmitAgain(w, ready)
        PROVE  Moves
    BY <1>1, <1>11, <1>3 DEF Admit, AdmitAgain
  <1>4. job[w] \in Job
    BY InHand
  <1>5. Moves
    <2>1. CASE Claim(w)
      <3> DEFINE j == [job[w] EXCEPT !.at = "work", !.attempt = run[job[w].exec].attempts + 1]
      <3>1. j.exec = job[w].exec /\ j.delivery = job[w].delivery
        BY <1>4 DEF Job
      <3>2. ASSUME job' = [job EXCEPT ![w].at = "work", ![w].attempt = run[job[w].exec].attempts + 1]
            PROVE  job' = [job EXCEPT ![w] = j]
        BY <3>2, <1>4 DEF IInv, TypeOK, Job
      <3> QED BY <1>3, <2>1, <3>1, <3>2, ClaimOver
    <2>2. CASE RenewLease(w)
      BY <2>2 DEF RenewLease, IInv, TypeOK
    <2>3. CASE Answered(w)
      <3>1. PICK o \in Outcomes : job' = [job EXCEPT ![w].at = "finish", ![w].answer = o]
        BY <2>3 DEF Answered
      <3> DEFINE j == [job[w] EXCEPT !.at = "finish", !.answer = o]
      <3>2. j.exec = job[w].exec /\ j.delivery = job[w].delivery
        BY <1>4 DEF Job
      <3>3. job' = [job EXCEPT ![w] = j]
        BY <3>1, <1>4 DEF IInv, TypeOK, Job
      <3> QED BY <3>2, <3>3
    <2>4. CASE Finish(w)
      <3>1. CASE UNCHANGED job
        BY <3>1 DEF IInv, TypeOK
      <3> QED BY <1>11, <2>4, <3>1 DEF Finish
    <2>5. CASE AdmitWrite(w)
      BY <1>11, <1>3, <2>5 DEF AdmitWrite
    <2>6. CASE CreateOnArrival(w) \/ Arrive(w)
      BY <1>1, <1>11, <1>3, <2>6 DEF CreateOnArrival, Arrive
    <2>7. CASE Dispose(w) \/ Crash(w)
      BY <1>2, <2>7 DEF Dispose, Crash
    <2>8. CASE \/ FailUndeliverable(w) \/ SlotsTaken(w) \/ SlotsRefused(w)
               \/ AttemptCanceled(w) \/ CallFails(w)
      BY <1>11, <2>8 DEF FailUndeliverable, SlotsTaken, SlotsRefused, AttemptCanceled, CallFails
    <2> QED BY <2>1, <2>2, <2>3, <2>4, <2>5, <2>6, <2>7, <2>8 DEF AtWork, Deliver
  <1>6. call' = call /\ named' = named /\ ~At(w, "idle")
    BY DEF AtWork, Deliver, Arrive, CreateOnArrival, AdmitWrite, FailUndeliverable, SlotsTaken,
           SlotsRefused, Claim, AttemptCanceled, Answered, Finish, Dispose, RenewLease, CallFails,
           Crash, At
  <1>7. \A e \in Executions, d \in Deliveries : WasSent(e, d)' => WasSent(e, d)
    <2>1. CASE Dispose(w)
      <3>1. \A e \in Executions, d \in Deliveries : queue'[e][d] = queue[e][d] \/ WasSent(e, d)
        BY <2>1, InHand DEF Dispose, OnQueue, WasSent
      <3> QED BY <3>1 DEF WasSent
    <2>2. CASE queue' = queue
      BY <2>2 DEF WasSent
    <2> QED BY <2>1, <2>2
            DEF AtWork, Deliver, Arrive, CreateOnArrival, AdmitWrite, FailUndeliverable, SlotsTaken,
                SlotsRefused, Claim, AttemptCanceled, Answered, Finish, RenewLease, CallFails, Crash
  <1> QED BY <1>5, <1>6, <1>7

\* What a deliverer at work does to the store.
LEMMA DelivererWrites ==
    ASSUME IInv, NEW w \in Deliverers, AtWork(w)
    PROVE  \E s : /\ Replaces(job[w].exec, w, s)
                  /\ s = run[job[w].exec] \/ Writes(w, s) \/ Creates(w, s)
  <1> DEFINE e == job[w].exec
             d == job[w].delivery
             r == run[e]
             Done == \E s : Replaces(e, w, s) /\ (s = r \/ Writes(w, s) \/ Creates(w, s))
  <1>0. /\ e \in Executions /\ d \in Deliveries /\ run \in [Executions -> Run] /\ r \in Run
        /\ w \in fresh => DelivererKnows(r, job[w])
        /\ (At(w, "create") => d = 0)
    BY InHand
  <1>1. ASSUME run' = run, fresh' \subseteq fresh \cup {w}
        PROVE  Done
    BY <1>0, <1>1 DEF Replaces
  <1>2. ASSUME NEW s, LastWrite(e, w, s) \/ Write(e, w, s) \/ Put(e, w, s),
               Writes(w, s) \/ Creates(w, s)
        PROVE  Done
    BY <1>0, <1>2 DEF Replaces, LastWrite, Write, Put
  <1>3. ASSUME NEW ready, Admit(w, ready) \/ AdmitAgain(w, ready)
        PROVE  Done
    BY <1>1, <1>3 DEF Admit, AdmitAgain, NoStoreCall
  <1>4. ASSUME w \in fresh, At(w, "hold")
        PROVE  Writes(w, HeldBy(r, d))
    BY <1>0, <1>4 DEF Writes, HeldBy, DelivererKnows, At, Waiting, Unfinished, Leased, Run
  <1>5. ASSUME w \in fresh, job[w].at \in {"expire", "exhaust", "undeliverable"}, NEW t
        PROVE  Writes(w, SettledAs(r, t))
    BY <1>0, <1>5 DEF Writes, SettledAs, DelivererKnows, At, Waiting, Unfinished, Leased, Run
  <1>6. ASSUME w \in fresh, At(w, "claim")
        PROVE  Writes(w, Claimed(r))
    BY <1>0, <1>6 DEF Writes, Claimed, DelivererKnows, At, Run
  <1>7. ASSUME w \in fresh, At(w, "finish")
        PROVE  Writes(w, Judged(r, job[w].answer, job[w].attempt, Task(e)))
    <2>1. Owns(r, d, job[w].attempt) /\ Working(w) /\ OwnsRun(w)
      BY <1>0, <1>7 DEF DelivererKnows, At, Working, OwnsRun
    <2>2. Judged(r, job[w].answer, job[w].attempt, Task(e)).delivery = r.delivery
      BY <1>0 DEF Judged, Requeued, SettledAs, Run
    <2> QED BY <2>1, <2>2 DEF Writes, Owns, Unfinished
  <1>8. CASE Claim(w)
    BY <1>8, <1>2, <1>3, <1>6, ClaimOver DEF Claim, Write
  <1>9. CASE RenewLease(w)
    <2>1. Writes(w, Renewed(r))
      BY <1>0, <1>9 DEF RenewLease, Writes, Renewed, OwnsRun, Owns, Working, At, Unfinished, Run
    <2> QED BY <1>9, <2>1, <1>2 DEF RenewLease
  <1>10. CASE Finish(w)
    BY <1>10, <1>1, <1>2, <1>7, FinishOver DEF Finish, LastWrite, Read, NoStoreCall
  <1>11. CASE AdmitWrite(w)
    BY <1>11, <1>2, <1>3, <1>4, <1>5, AdmitWriteOver DEF LastWrite, Write, At
  <1>12. CASE FailUndeliverable(w)
    BY <1>12, <1>1, <1>2, <1>5, FailUndeliverableOver DEF FailUndeliverable, LastWrite, NoStoreCall, At
  <1>13. CASE CreateOnArrival(w)
    <2>1. ASSUME NEW due \in Dues, NEW expiry, r.status = Absent
          PROVE  Creates(w, NewRun(due, expiry))
      BY <1>0, <1>13, <2>1 DEF Creates, CreateOnArrival, NewRun
    <2> QED BY <1>13, <2>1, <1>2, <1>3 DEF CreateOnArrival
  <1>14. CASE CallFails(w)
    <2>1. CASE NoStoreCall
      BY <1>1, <2>1 DEF NoStoreCall
    <2>2. CASE At(w, "finish") /\ LastWrite(e, w, Judged(r, job[w].answer, job[w].attempt, Task(e)))
      BY <2>2, <1>2, <1>7 DEF LastWrite
    <2>3. CASE At(w, "claim") /\ LastWrite(e, w, Claimed(r))
      BY <2>3, <1>2, <1>6 DEF LastWrite
    <2>4. CASE At(w, "hold") /\ LastWrite(e, w, HeldBy(r, d))
      BY <2>4, <1>2, <1>4 DEF LastWrite
    <2>5. CASE At(w, "expire") /\ LastWrite(e, w, SettledAs(r, "expired"))
      BY <2>5, <1>2, <1>5 DEF LastWrite, At
    <2>6. CASE job[w].at \in {"exhaust", "undeliverable"} /\ LastWrite(e, w, SettledAs(r, "failed"))
      BY <2>6, <1>2, <1>5 DEF LastWrite
    <2> QED BY <1>14, <2>1, <2>2, <2>3, <2>4, <2>5, <2>6, CallFailsOver
  <1>15. CASE Arrive(w)
    BY <1>15, <1>1, <1>3 DEF Arrive, NoStoreCall
  <1>16. CASE \/ SlotsTaken(w) \/ SlotsRefused(w) \/ AttemptCanceled(w)
              \/ Answered(w) \/ Dispose(w) \/ Crash(w)
    BY <1>16, <1>1 DEF SlotsTaken, SlotsRefused, AttemptCanceled, Answered, Dispose, Crash
  <1> QED BY <1>8, <1>9, <1>10, <1>11, <1>12, <1>13, <1>14, <1>15, <1>16 DEF AtWork, Deliver

-----------------------------------------------------------------------------
(***************************************************************************)
(* Callers.                                                                *)
(***************************************************************************)
Calls(c) ==
    \/ CallerStep(c) \/ SendFails(c) \/ CallerCrash(c)
    \/ \E e \in Executions : Trigger(c, e) \/ Publish(c, e) \/ Begin(c, e)

\* What a caller makes of the record of x.
Canceled(c, x, s) ==
    /\ call[c].at = "cancel" /\ run[x].status \in Unfinished
    /\ s = SettledAs(run[x], "canceled")
Undoes(c, x, s) ==
    /\ call[c].at \in {"drop", "restore"} /\ call[c].exec = x
    /\ run[x].delivery = call[c].delivery /\ (call[c].at = "drop" => Task(x))
Enters(c, x, s) ==
    /\ Task(x) /\ named[x] = 0 /\ named'[x] = 1 /\ s.delivery = 0
    /\ call'[c].at = "send" /\ call'[c].exec = x /\ call'[c].delivery = 0
Moves(c, x, s) ==
    /\ Task(x) /\ run[x].status = "delayed" /\ s.delivery = named[x]
    /\ call'[c].at = "sendMoved" /\ call'[c].exec = x /\ call'[c].delivery = named[x]
Letters(c, x, s) ==
    /\ ~Task(x) /\ run[x].status = "failed"
    /\ \/ s = NoRun /\ call'[c].at = "idle"
       \/ s = Redriven(run[x], named[x]) /\ named'[x] = named[x] + 1

LEMMA CallerWrites ==
    ASSUME IInv, NEW c \in Callers, Calls(c)
    PROVE  /\ job' = job
           /\ \A b \in Callers : b # c => call'[b] = call[b]
           /\ \E x \in Executions : \E s :
                /\ Replaces(x, c, s)
                /\ \/ s = run[x] \/ Canceled(c, x, s) \/ Undoes(c, x, s) \/ Enters(c, x, s)
                   \/ Moves(c, x, s) \/ Letters(c, x, s)
  <1> DEFINE e == call[c].exec
             r == run[e]
             Kinds(x, s) == \/ s = run[x] \/ Canceled(c, x, s) \/ Undoes(c, x, s)
                            \/ Enters(c, x, s) \/ Moves(c, x, s) \/ Letters(c, x, s)
             Done == \E x \in Executions : \E s : Replaces(x, c, s) /\ Kinds(x, s)
  <1>0. /\ e \in Executions /\ run \in [Executions -> Run] /\ r \in Run /\ call \in [Callers -> Call]
        /\ named \in [Executions -> 0..(MaxDelivery + 1)]
        /\ c \in fresh => CallerKnows(r, call[c])
        /\ PutsBack(call[c], Task(e))
    BY InCall DEF IInv, TypeOK
  <1>1. ASSUME run' = run, fresh' \subseteq fresh \cup {c}
        PROVE  Done
    BY <1>0, <1>1 DEF Replaces
  <1>2. ASSUME NEW x \in Executions, NEW s, Kinds(x, s),
               LastWrite(x, c, s) \/ Write(x, c, s) \/ Put(x, c, s)
        PROVE  Done
    <2>1. Replaces(x, c, s)
      BY <1>2 DEF Replaces, LastWrite, Write, Put
    <2> QED BY <1>2, <2>1
  <1>3. Done
    <2>1. ASSUME NEW x \in Executions, Trigger(c, x)
          PROVE  Done
      <3>1. PICK due \in Dues : Put(x, c, NewRun(due, Expiry)) /\ Proceed(c, "send", x, 0, NoRun)
        BY <2>1 DEF Trigger
      <3>2. Enters(c, x, NewRun(due, Expiry))
        BY <1>0, <2>1, <3>1 DEF Trigger, Enters, Proceed, NewRun
      <3> QED BY <1>2, <3>1, <3>2
    <2>2. CASE Undo(c)
      <3>1. CASE LastWrite(e, c, call[c].saved)
        <4>1. Undoes(c, e, call[c].saved)
          BY <1>0, <2>2, <3>1 DEF Undo, LastWrite, Undoes, CallerKnows, PutsBack
        <4> QED BY <1>0, <1>2, <3>1, <4>1
      <3> QED BY <1>1, <2>2, <3>1 DEF Undo, WriteOrGiveUp
    <2>3. CASE Cancel(c)
      <3>1. CASE LastWrite(e, c, SettledAs(r, "canceled"))
        <4>1. Canceled(c, e, SettledAs(r, "canceled"))
          BY <1>0, <2>3, <3>1 DEF Cancel, LastWrite, Canceled, CallerKnows, Calling
        <4> QED BY <1>0, <1>2, <3>1, <4>1
      <3> QED BY <1>1, <2>3, <3>1 DEF Cancel, Read, Return
    <2>4. CASE Reschedule(c)
      <3>1. ASSUME NEW due \in Dues, Movable(r), Write(e, c, Moved(r, named[e], due)),
                   Proceed(c, "sendMoved", e, named[e], r)
            PROVE  Done
        <4>1. r.status = "delayed"
          BY <1>0, <3>1 DEF Movable, StatusAt, Lapsed, Waiting
        <4>2. Moves(c, e, Moved(r, named[e], due))
          BY <1>0, <2>4, <3>1, <4>1
             DEF Moves, Reschedule, Calling, PutsBack, Proceed, Moved, Run
        <4> QED BY <1>0, <1>2, <3>1, <4>2
      <3> QED BY <1>1, <2>4, <3>1 DEF Reschedule, Read, Return
    <2>5. CASE Redrive(c)
      <3>1. CASE /\ Write(e, c, Redriven(r, named[e]))
                 /\ named' = [named EXCEPT ![e] = @ + 1]
        <4>1. Letters(c, e, Redriven(r, named[e]))
          BY <1>0, <2>5, <3>1 DEF Letters, Redrive, Write, Calling, CallerKnows, PutsBack
        <4> QED BY <1>0, <1>2, <3>1, <4>1
      <3> QED BY <1>1, <2>5, <3>1 DEF Redrive, Return
    <2>6. CASE Purge(c)
      <3>1. CASE LastWrite(e, c, NoRun)
        <4>1. Letters(c, e, NoRun)
          BY <1>0, <2>6, <3>1 DEF Letters, Purge, LastWrite, Calling, CallerKnows, PutsBack, NoCall
        <4> QED BY <1>0, <1>2, <3>1, <4>1
      <3> QED BY <1>1, <2>6, <3>1 DEF Purge, WriteOrGiveUp
    <2>7. CASE \/ SendMessage(c) \/ SendFails(c) \/ CallerCrash(c)
               \/ \E x \in Executions : Publish(c, x) \/ Begin(c, x)
      BY <1>1, <2>7 DEF SendMessage, SendFails, CallerCrash, Publish, Begin, Return, Read
    <2> QED BY <2>1, <2>2, <2>3, <2>4, <2>5, <2>6, <2>7 DEF Calls, CallerStep
  <1>4. job' = job /\ \A b \in Callers : b # c => call'[b] = call[b]
    BY <1>0 DEF Calls, CallerStep, SendMessage, Undo, Cancel, Reschedule, Redrive, Purge, SendFails,
                CallerCrash, Trigger, Publish, Begin, Proceed, Return
  <1> QED BY <1>3, <1>4

-----------------------------------------------------------------------------
\* A message is acknowledged on judgement only when its run is settled or waits
\* for another.
LEMMA AdmissionStale ==
    ASSUME NEW r \in Run, NEW d, NEW n, NEW ready \in {"slots", "claim"},
           Admission(r, d, n, ready) = "ack"
    PROVE  r.status \notin Unfinished \/ r.delivery # d
  <1> SUFFICES ASSUME ~Stale(r, d) PROVE FALSE
    BY DEF Stale
  <1>1. Readiness(r, d) \in {"held", "expired", "early", "exhausted", "runnable"}
    BY DEF Readiness
  <1>2. Redelivery(r, n) # "ack"
    BY DEF Redelivery
  <1> QED BY <1>1, <1>2 DEF Admission

-----------------------------------------------------------------------------
(***************************************************************************)
(* The queue and the clock.                                                *)
(***************************************************************************)
Queues(e, d) == Reappear(e, d) \/ Overrun(e, d) \/ Duplicate(e, d) \/ DeadLetter(e, d)
Clocks(e) == DueArrives(e) \/ TtlPasses(e) \/ LeaseLapses(e)

\* The queue moves messages that were sent, and drops none but dead letters.
LEMMA QueueFrame ==
    ASSUME IInv, NEW e \in Executions, NEW d \in Deliveries, Queues(e, d)
    PROVE  /\ UNCHANGED <<run, named, job, call, fresh>>
           /\ \A x \in Executions, b \in Deliveries : WasSent(x, b)' => WasSent(x, b)
           /\ \A x \in Executions, b \in Deliveries :
                OnQueue(x, b) => OnQueue(x, b)' \/ DeadLetter(e, d)
  <1>1. queue \in [Executions -> [Deliveries -> Message]]
    BY DEF IInv, TypeOK
  <1>2. CASE Reappear(e, d) \/ Overrun(e, d)
    <2> DEFINE m == [queue[e][d] EXCEPT !.state = "visible"]
    <2>1. m.state = "visible" /\ queue[e][d].state = "hidden"
      BY <1>1, <1>2 DEF Reappear, Overrun, Message
    <2>2. queue' = [queue EXCEPT ![e][d] = m] /\ UNCHANGED <<run, named, job, call, fresh>>
      BY <1>2 DEF Reappear, Overrun
    <2> HIDE DEF m
    <2> QED BY <1>1, <2>1, <2>2 DEF OnQueue, WasSent
  <1>3. CASE Duplicate(e, d)
    BY <1>1, <1>3 DEF Duplicate, Sent, OnQueue, WasSent, NoMessage
  <1>4. CASE DeadLetter(e, d)
    BY <1>1, <1>4 DEF DeadLetter, OnQueue, WasSent, NoMessage
  <1> QED BY <1>2, <1>3, <1>4 DEF Queues

\* Time changes neither what a run waits for nor how far it is.
LEMMA ClockFrame ==
    ASSUME IInv, NEW e \in Executions, Clocks(e)
    PROVE  /\ UNCHANGED <<queue, named, job, call, fresh>>
           /\ \A x \in Executions : /\ run'[x].delivery = run[x].delivery
                                    /\ run'[x].status = run[x].status
                                    /\ run'[x].attempts = run[x].attempts
           /\ \A x \in Executions : run'[x].leased = run[x].leased \/ (x = e /\ LeaseLapses(e))
  <1>1. run \in [Executions -> Run]
    BY DEF IInv, TypeOK
  <1> QED BY <1>1 DEF Clocks, DueArrives, TtlPasses, LeaseLapses, Ages, Run

LEMMA ReceiveFrame ==
    ASSUME IInv, NEW w \in Deliverers, NEW e \in Executions, NEW d \in Deliveries, Receive(w, e, d)
    PROVE  /\ UNCHANGED <<run, named, call>> /\ fresh' = fresh \ {w} /\ OnQueue(e, d)
           /\ job'[w].at = "arrive" /\ job'[w].exec = e /\ job'[w].delivery = d
           /\ \A v \in Deliverers : v # w => job'[v] = job[v]
           /\ \A x \in Executions, b \in Deliveries :
                (OnQueue(x, b)' <=> OnQueue(x, b)) /\ (WasSent(x, b)' <=> WasSent(x, b))
  <1>1. queue \in [Executions -> [Deliveries -> Message]] /\ job \in [Deliverers -> Job]
    BY DEF IInv, TypeOK
  <1> QED BY <1>1 DEF Receive, OnQueue, WasSent, NoJob

-----------------------------------------------------------------------------
(***************************************************************************)
(* Letters.                                                                *)
(***************************************************************************)
SendsNow(c) == call[c].at \in {"send", "sendMoved", "sendLetter"}

\* What a caller's step puts on the queue.
LEMMA CallerQueue ==
    ASSUME IInv, NEW c \in Callers, Calls(c)
    PROVE  \A x \in Executions, b \in Deliveries :
              WasSent(x, b)' => \/ WasSent(x, b)
                                \/ named[x] = 0 /\ b = 0
                                \/ SendsNow(c) /\ x = call[c].exec /\ b = call[c].delivery
  <1> DEFINE e == call[c].exec
             d == call[c].delivery
  <1>0. /\ queue \in [Executions -> [Deliveries -> Message]] /\ e \in Executions
        /\ d \in Deliveries /\ call[c].saved.held \in Deliveries \cup {NoHandle}
        /\ run[e].held \in Deliveries \cup {NoHandle} /\ 0 \in Deliveries
    BY InCall DEF Run, Deliveries
  <1>1. CASE queue' = queue
    BY <1>1 DEF WasSent
  <1>2. ASSUME NEW x \in Executions, Publish(c, x)
        PROVE  \A y \in Executions, b \in Deliveries :
                  WasSent(y, b)' => WasSent(y, b) \/ (y = x /\ b = 0 /\ named[x] = 0)
    <2>1. PICK v \in BOOLEAN : queue' = Sent(x, 0, v)
      BY <1>2 DEF Publish
    <2>2. \A y \in Executions, b \in Deliveries :
             Sent(x, 0, v)[y][b].state # "absent" => WasSent(y, b) \/ (y = x /\ b = 0)
      BY <1>0, SentOK
    <2> QED BY <1>2, <2>1, <2>2 DEF WasSent, Publish
  <1>3. CASE SendMessage(c)
    <2>1. PICK v \in BOOLEAN : queue' = Released(Sent(e, d, v), e, call[c].saved.held)
      BY <1>3 DEF SendMessage
    <2>3. PICK x \in Executions, b \in Deliveries : x = e /\ b = d
      BY <1>0
    <2>2. queue \in [Executions -> [Deliveries -> Message]]
      BY <1>0
    <2>4. Sent(x, b, v) \in [Executions -> [Deliveries -> Message]]
      BY <2>2, SentOK
    <2>5. \A y \in Executions, f \in Deliveries :
             Sent(x, b, v)[y][f].state # "absent" => WasSent(y, f) \/ (y = x /\ f = b)
      BY <2>2, SentOK
    <2>6. PICK q \in [Executions -> [Deliveries -> Message]],
               h \in Deliveries \cup {NoHandle} :
             q = Sent(x, b, v) /\ queue' = Released(q, x, h)
      BY <1>0, <2>1, <2>3, <2>4, Zenon
    <2>7. \A y \in Executions, f \in Deliveries :
             queue'[y][f].state # "absent" => q[y][f].state # "absent"
      <3>1. \A y \in Executions, f \in Deliveries :
               Released(q, x, h)[y][f].state # "absent" => q[y][f].state # "absent"
        <4>1. /\ q \in [Executions -> [Deliveries -> Message]] /\ x \in Executions
              /\ h \in Deliveries \cup {NoHandle}
          BY <2>3, <2>6
        <4> QED BY <4>1, ReleasedOK
      <3> QED BY <2>6, <3>1, Zenon
    <2>8. \A y \in Executions, f \in Deliveries :
             queue'[y][f].state # "absent" => WasSent(y, f) \/ (y = x /\ f = b)
      BY <2>5, <2>6, <2>7, Zenon
    <2>9. SendsNow(c)
      BY <1>3 DEF SendMessage, SendsNow
    <2> QED BY <2>3, <2>8, <2>9 DEF WasSent
  <1>4. CASE SendFails(c)
    <2>1. CASE queue' = Sent(e, d, TRUE)
      <3>1. \A y \in Executions, b \in Deliveries :
               Sent(e, d, TRUE)[y][b].state # "absent" => WasSent(y, b) \/ (y = e /\ b = d)
        BY <1>0, SentOK
      <3> QED BY <1>4, <2>1, <3>1 DEF WasSent, SendFails, SendsNow
    <2> QED BY <1>1, <1>4, <2>1 DEF SendFails
  <1>5. CASE Cancel(c)
    <2>1. CASE queue' = Released(queue, e, run[e].held)
      <3> DEFINE h == run[e].held
      <3>1. h \in Deliveries \cup {NoHandle} /\ queue' = Released(queue, e, h)
        BY <1>0, <2>1
      <3> HIDE DEF h
      <3> QED BY <1>0, <3>1, ReleasedOK DEF WasSent
    <2> QED BY <1>1, <1>5, <2>1 DEF Cancel
  <1> QED BY <1>1, <1>2, <1>3, <1>4, <1>5
          DEF Calls, CallerStep, Undo, Reschedule, Redrive, Purge, CallerCrash, Trigger, Begin

\* How a call comes to send a letter, or to put one back.
LEMMA CallerTurns ==
    ASSUME IInv, NEW c \in Callers, Calls(c)
    PROVE  /\ call'[c].at = "sendLetter" =>
                /\ Redrive(c) /\ call'[c].exec = call[c].exec
                /\ call'[c].delivery = named[call[c].exec]
                /\ run[call[c].exec].status = "failed"
                /\ run'[call[c].exec] = Redriven(run[call[c].exec], named[call[c].exec])
           /\ call'[c].at = "restore" =>
                /\ call[c].at \in {"sendMoved", "sendLetter"}
                /\ call'[c].exec = call[c].exec /\ call'[c].delivery = call[c].delivery
  <1> DEFINE e == call[c].exec
  <1>0. /\ call \in [Callers -> Call] /\ e \in Executions /\ run \in [Executions -> Run]
        /\ c \in fresh => CallerKnows(run[e], call[c])
    BY InCall DEF IInv, TypeOK
  <1>1. CASE Redrive(c)
    <2>1. CASE Return(c)
      BY <1>0, <2>1 DEF Return, NoCall
    <2>2. CASE Write(e, c, Redriven(run[e], named[e])) /\ Proceed(c, "sendLetter", e, named[e], run[e])
      BY <1>0, <1>1, <2>2 DEF Redrive, Calling, Write, Put, Proceed, CallerKnows
    <2> QED BY <1>1, <2>1, <2>2 DEF Redrive
  <1>2. CASE SendFails(c)
    BY <1>0, <1>2 DEF SendFails, Calling, Call
  <1>3. CASE Reschedule(c)
    BY <1>0, <1>3 DEF Reschedule, Return, NoCall, Calling, Proceed
  <1>4. CASE \/ SendMessage(c) \/ Undo(c) \/ Cancel(c) \/ Purge(c) \/ CallerCrash(c)
    BY <1>0, <1>4 DEF SendMessage, Undo, Cancel, Purge, CallerCrash, Return, NoCall, Calling
  <1>5. ASSUME NEW x \in Executions, Trigger(c, x) \/ Publish(c, x) \/ Begin(c, x)
        PROVE  call'[c].at \notin {"sendLetter", "restore"}
    BY <1>0, <1>5 DEF Trigger, Publish, Begin, Proceed, Calling
  <1> QED BY <1>1, <1>2, <1>3, <1>4, <1>5 DEF Calls, CallerStep

LetterGoes(c) == Calling(c, "sendLetter") => OnItsWay(c, call[c].exec, call[c].delivery)

\* A letter is of a topic's run, and its delivery was named.
LEMMA InLetter ==
    ASSUME IInv, NEW c \in Callers, Calling(c, "sendLetter")
    PROVE  /\ call[c].exec \in Executions /\ call[c].delivery \in Deliveries
           /\ ~Task(call[c].exec) /\ named[call[c].exec] # 0
  <1>1. call[c].delivery < named[call[c].exec] /\ call[c].delivery \in 0..MaxDelivery
    BY InCall DEF Calling, Deliveries
  <1> QED BY <1>1, InCall DEF Calling, PutsBack

LEMMA LetterMeetsDeliverer ==
    ASSUME IInv, NEW c \in Callers, LetterGoes(c), NEW w \in Deliverers, AtWork(w)
    PROVE  LetterGoes(c)'
  <1> SUFFICES ASSUME Calling(c, "sendLetter")
               PROVE  OnItsWay(c, call[c].exec, call[c].delivery)'
    BY DelivererFrame DEF LetterGoes, Calling
  <1>0. PICK e \in Executions, d \in Deliveries : e = call[c].exec /\ d = call[c].delivery
    BY InCall
  <1>1. OnItsWay(c, e, d) /\ e \in Executions /\ d \in Deliveries
    BY <1>0, InLetter DEF LetterGoes
  <1>2. PICK j : /\ job' = [job EXCEPT ![w] = j] /\ ~At(w, "idle") /\ call' = call
                 /\ j.at # "idle" => j.exec = job[w].exec /\ j.delivery = job[w].delivery
    BY DelivererFrame
  <1>3. ~WasSent(e, d)'
    BY <1>1, DelivererFrame DEF OnItsWay
  <1>4. ~BeingDelivered(e, d)'
    BY <1>1, <1>2 DEF OnItsWay, BeingDelivered, At, IInv, TypeOK
  <1>5. run'[e] = run[e]
    <2>1. PICK s : /\ Replaces(job[w].exec, w, s)
                   /\ s = run[job[w].exec] \/ Writes(w, s) \/ Creates(w, s)
      BY DelivererWrites
    <2>2. run \in [Executions -> Run] /\ job[w].exec \in Executions
      BY InHand DEF IInv, TypeOK
    <2>3. CASE job[w].exec = e
      <3>1. ~Writes(w, s)
        BY <1>1, <1>2, <2>3 DEF OnItsWay, BeingDelivered, Writes
      <3>2. ~Creates(w, s)
        BY <1>1, <2>3 DEF OnItsWay, Creates, Absent
      <3> QED BY <2>1, <2>2, <2>3, <3>1, <3>2 DEF Replaces
    <2>4. CASE job[w].exec # e
      BY <1>1, <2>1, <2>2, <2>4 DEF Replaces
    <2> QED BY <2>3, <2>4
  <1> QED BY <1>0, <1>1, <1>2, <1>3, <1>4, <1>5 DEF OnItsWay

\* Another caller may cancel the run of a letter on its way, no more.
LEMMA LetterMeetsCaller ==
    ASSUME IInv, NEW c \in Callers, LetterGoes(c), NEW b \in Callers, b # c, Calls(b)
    PROVE  LetterGoes(c)'
  <1>6. call'[c] = call[c]
    BY CallerWrites
  <1> SUFFICES ASSUME Calling(c, "sendLetter")
               PROVE  OnItsWay(c, call[c].exec, call[c].delivery)'
    BY <1>6 DEF LetterGoes, Calling
  <1>0. PICK e \in Executions, d \in Deliveries : e = call[c].exec /\ d = call[c].delivery
    BY InCall
  <1>1. /\ OnItsWay(c, e, d) /\ e \in Executions /\ d \in Deliveries /\ ~Task(e) /\ named[e] # 0
        /\ run \in [Executions -> Run]
    BY <1>0, InLetter DEF LetterGoes, IInv, TypeOK
  <1>2. ~WasSent(e, d)'
    <2>1. ~(SendsNow(b) /\ e = call[b].exec /\ d = call[b].delivery)
      BY <1>1, InCall DEF OnItsWay, SendsNow, PutsBack
    <2>2. WasSent(e, d)' => \/ WasSent(e, d)
                            \/ named[e] = 0 /\ d = 0
                            \/ SendsNow(b) /\ e = call[b].exec /\ d = call[b].delivery
      BY <1>1, CallerQueue
    <2> QED BY <1>1, <2>1, <2>2 DEF OnItsWay
  <1>3. ~BeingDelivered(e, d)'
    BY <1>1, CallerWrites DEF OnItsWay, BeingDelivered, At
  <1>4. run'[e].delivery = d /\ run'[e].status \in {"queued", "canceled"}
    <2>1. PICK x \in Executions : \E s :
             /\ Replaces(x, b, s)
             /\ \/ s = run[x] \/ Canceled(b, x, s) \/ Undoes(b, x, s) \/ Enters(b, x, s)
                \/ Moves(b, x, s) \/ Letters(b, x, s)
      BY CallerWrites
    <2>2. PICK s :
             /\ Replaces(x, b, s)
             /\ \/ s = run[x] \/ Canceled(b, x, s) \/ Undoes(b, x, s) \/ Enters(b, x, s)
                \/ Moves(b, x, s) \/ Letters(b, x, s)
      BY <2>1
    <2>3. CASE x = e
      <3>1. ~Undoes(b, x, s)
        BY <1>1, <2>3 DEF Undoes, OnItsWay
      <3>2. ~Enters(b, x, s) /\ ~Moves(b, x, s) /\ ~Letters(b, x, s)
        BY <1>1, <2>3 DEF Enters, Moves, Letters, OnItsWay
      <3>3. run[e] \in Run /\ run[e].delivery = d /\ run[e].status \in {"queued", "canceled"}
        BY <1>1 DEF OnItsWay
      <3>4. SettledAs(run[e], "canceled").delivery = d /\ SettledAs(run[e], "canceled").status = "canceled"
        BY <3>3 DEF SettledAs, Run
      <3>5. s = run[e] \/ s = SettledAs(run[e], "canceled")
        BY <2>2, <2>3, <3>1, <3>2 DEF Canceled
      <3>6. s.delivery = d /\ s.status \in {"queued", "canceled"}
        BY <3>3, <3>4, <3>5
      <3> QED BY <1>1, <2>2, <2>3, <3>6 DEF Replaces
    <2>4. CASE x # e
      BY <1>1, <2>2, <2>4 DEF Replaces, OnItsWay
    <2> QED BY <2>3, <2>4
  <1>5. \A a \in Callers :
           a # c /\ call'[a].exec = e /\ call'[a].at \in {"sendLetter", "restore"} =>
               call'[a].delivery # d
    <2>1. ASSUME call'[b].exec = e, call'[b].at \in {"sendLetter", "restore"}
          PROVE  call'[b].delivery # d
      <3>1. CASE call'[b].at = "sendLetter"
        BY <1>1, <2>1, <3>1, CallerTurns DEF OnItsWay
      <3>2. CASE call'[b].at = "restore"
        BY <1>1, <2>1, <3>2, CallerTurns, InCall DEF OnItsWay, PutsBack
      <3> QED BY <2>1, <3>1, <3>2
    <2> QED BY <1>1, <2>1, CallerWrites DEF OnItsWay
  <1> QED BY <1>0, <1>2, <1>3, <1>4, <1>5, <1>6 DEF OnItsWay

\* A letter put back carries a delivery nobody has heard of.
LEMMA LetterStarts ==
    ASSUME IInv, NEW c \in Callers, Calls(c)
    PROVE  LetterGoes(c)'
  <1> SUFFICES ASSUME call'[c].at = "sendLetter"
               PROVE  OnItsWay(c, call[c].exec, call[c].delivery)'
    BY DEF LetterGoes, Calling
  <1>0. PICK e \in Executions : e = call[c].exec
    BY InCall
  <1>1. PICK d \in Nat : d = named[e]
    BY <1>0, InCall
  <1>2. /\ Redrive(c) /\ run[e] \in Run /\ run[e].status = "failed" /\ run'[e] = Redriven(run[e], d)
        /\ queue' = queue /\ job' = job /\ call'[c].exec = e /\ call'[c].delivery = d
    BY <1>0, <1>1, CallerTurns, InCall DEF Redrive
  <1>3. run'[e].delivery = d /\ run'[e].status = "queued"
    BY <1>2 DEF Redriven, Run
  <1>4. d \in Deliveries
    <2>1. call'[c].at # "idle" /\ call \in [Callers -> Call]
      BY DEF IInv, TypeOK
    <2> QED BY <1>0, <1>1, <1>2, <2>1 DEF Redrive, Return, NoCall, Deliveries
  <1>5. ~WasSent(e, d)'
    <2>1. \A x \in Executions, b \in Deliveries : WasSent(x, b) => b < named[x]
      BY InCall
    <2>2. ~WasSent(e, d)
      BY <1>1, <1>4, <2>1
    <2> QED BY <1>2, <2>2 DEF WasSent
  <1>6. ~BeingDelivered(e, d)'
    <2>1. \A w \in Deliverers : ~At(w, "idle") /\ job[w].exec = e => job[w].delivery # d
      BY <1>1, InHand DEF Deliveries
    <2> QED BY <1>2, <2>1 DEF BeingDelivered, At
  <1>7. \A b \in Callers :
           b # c /\ call'[b].exec = e /\ call'[b].at \in {"sendLetter", "restore"} =>
               call'[b].delivery # d
    <2>1. \A b \in Callers :
             call[b].exec = e /\ call[b].at \in {"sendLetter", "restore"} => call[b].delivery # d
      BY <1>1, InCall DEF Deliveries
    <2> QED BY <2>1, CallerWrites
  <1> QED BY <1>2, <1>3, <1>5, <1>6, <1>7 DEF OnItsWay

LEMMA LettersNext ==
    ASSUME IInv, LettersOK, [Next]_vars
    PROVE  LettersOK'
  <1> SUFFICES ASSUME NEW c \in Callers PROVE LetterGoes(c)'
    BY DEF LettersOK, LetterGoes
  <1>0. LetterGoes(c)
    BY DEF LettersOK, LetterGoes
  <1>1. CASE UNCHANGED vars
    BY <1>0, <1>1 DEF vars, LetterGoes, Calling, OnItsWay, WasSent, BeingDelivered, At
  <1>2. ASSUME NEW w \in Deliverers, NEW x \in Executions, NEW b \in Deliveries, Receive(w, x, b)
        PROVE  LetterGoes(c)'
    <2> SUFFICES ASSUME Calling(c, "sendLetter")
                 PROVE  OnItsWay(c, call[c].exec, call[c].delivery)'
      BY <1>2, ReceiveFrame DEF LetterGoes, Calling
    <2>1. PICK e \in Executions, d \in Deliveries : e = call[c].exec /\ d = call[c].delivery
      BY InCall
    <2>2. OnItsWay(c, e, d) /\ WasSent(x, b)
      BY <1>0, <1>2, <2>1, ReceiveFrame DEF LetterGoes, OnQueue, WasSent
    <2>3. ~(x = e /\ b = d)
      BY <2>2 DEF OnItsWay
    <2>4. ~WasSent(e, d)'
      BY <1>2, <2>2, ReceiveFrame DEF OnItsWay
    <2>5. ~BeingDelivered(e, d)'
      <3>1. \A v \in Deliverers : ~(~At(v, "idle") /\ job[v].exec = e /\ job[v].delivery = d)'
        BY <1>2, <2>2, <2>3, ReceiveFrame DEF OnItsWay, BeingDelivered, At
      <3> QED BY <3>1 DEF BeingDelivered
    <2> QED BY <1>2, <2>1, <2>2, <2>4, <2>5, ReceiveFrame DEF OnItsWay
  <1>3. ASSUME NEW w \in Deliverers, AtWork(w)
        PROVE  LetterGoes(c)'
    BY <1>0, <1>3, LetterMeetsDeliverer
  <1>4. ASSUME NEW b \in Callers, Calls(b)
        PROVE  LetterGoes(c)'
    BY <1>0, <1>4, LetterMeetsCaller, LetterStarts
  <1>5. ASSUME NEW x \in Executions, NEW b \in Deliveries, Queues(x, b)
        PROVE  LetterGoes(c)'
    <2> SUFFICES ASSUME Calling(c, "sendLetter")
                 PROVE  OnItsWay(c, call[c].exec, call[c].delivery)'
      BY <1>5, QueueFrame DEF LetterGoes, Calling
    <2>1. PICK e \in Executions, d \in Deliveries : e = call[c].exec /\ d = call[c].delivery
      BY InCall
    <2>2. OnItsWay(c, e, d)
      BY <1>0, <2>1 DEF LetterGoes
    <2>4. ~WasSent(e, d)'
      BY <1>5, <2>2, QueueFrame DEF OnItsWay
    <2> QED BY <1>5, <2>1, <2>2, <2>4, QueueFrame DEF OnItsWay, BeingDelivered, At
  <1>6. ASSUME NEW x \in Executions, Clocks(x)
        PROVE  LetterGoes(c)'
    <2>1. call[c].exec \in Executions
      BY InCall
    <2> QED BY <1>0, <1>6, <2>1, ClockFrame
            DEF LetterGoes, Calling, OnItsWay, WasSent, BeingDelivered, At
  <1> QED BY <1>1, <1>2, <1>3, <1>4, <1>5, <1>6 DEF Next, AtWork, Calls, Queues, Clocks

\* Two operators who redrive one dead letter send it once: of two callers with
\* its letter in hand only one can have the delivery the record waits for
\* (topics.go RedriveDeadLetters).
THEOREM OneLetter == Spec => []OneLetterInFlight
  <1>1. Init => LettersOK
    BY DEF Init, LettersOK, Calling, NoCall
  <1>2. LettersOK => OneLetterInFlight
    BY DEF LettersOK, OneLetterInFlight, OnItsWay, Calling
  <1>3. IInv /\ LettersOK /\ [Next]_vars => LettersOK'
    BY LettersNext
  <1> QED BY <1>1, <1>2, <1>3, Invariance, PTL DEF Spec

-----------------------------------------------------------------------------
(***************************************************************************)
(* A message kept, where callers and sends do not fail, renewals are in    *)
(* time and the queue dead-letters nothing.                                *)
(***************************************************************************)
Calm == ~CallersFail /\ ~LateRenewals /\ MaxReceives = 0

HoldsOn(w) ==
    Working(w) /\ Task(job[w].exec) /\ run[job[w].exec].status \in Unfinished => Holds(w)

\* Whoever works a task run has it counted among the attempts of its record.
LEMMA InWork ==
    ASSUME IInv, NEW w \in Deliverers, Working(w), Task(job[w].exec)
    PROVE  /\ run[job[w].exec].attempts > 0 /\ run[job[w].exec].status # Absent
           /\ run[job[w].exec].status # "delayed" /\ named[job[w].exec] # 0
           /\ \A v \in Deliverers :
                 v # w /\ Working(v) /\ job[v].exec = job[w].exec => ~(OwnsRun(v) /\ OwnsRun(w))
  <1>1. /\ job[w].attempt > 0 /\ job[w].attempt <= run[job[w].exec].attempts
        /\ \A v \in Deliverers :
              v # w /\ Working(v) /\ job[v].exec = job[w].exec => job[v].attempt # job[w].attempt
    BY DEF IInv, ClaimsOK
  <1>2. run[job[w].exec].attempts > 0
    BY <1>1, InHand DEF Run
  <1>3. NoRun.attempts = 0
    BY DEF NoRun
  <1>4. run[job[w].exec] # NoRun /\ run[job[w].exec].status # "delayed"
    BY <1>2, <1>3, InHand DEF RecordOK, Run
  <1> QED BY <1>1, <1>2, <1>4, InHand DEF OwnsRun, Owns

\* Nobody else takes a task run, or its lease, from under its worker.
LEMMA OthersLeaveHeld ==
    ASSUME IInv, WorkersHold, NothingUndone, NEW v \in Deliverers, job'[v] = job[v],
           \/ \E w \in Deliverers : w # v /\ AtWork(w)
           \/ \E c \in Callers : Calls(c)
    PROVE  HoldsOn(v)'
  <1> DEFINE y == job[v].exec
  <1> SUFFICES ASSUME Working(v), Task(y), run'[y].status \in Unfinished
               PROVE  Holds(v)'
    BY DEF HoldsOn, Working
  <1>0. run \in [Executions -> Run] /\ y \in Executions
    BY InHand DEF IInv, TypeOK
  <1>1. CASE run'[y] = run[y]
    BY <1>1 DEF WorkersHold, Holds, OwnsRun
  <1>2. ASSUME NEW w \in Deliverers, w # v, AtWork(w), run'[y] # run[y]
        PROVE  FALSE
    <2>1. PICK s : /\ Replaces(job[w].exec, w, s)
                   /\ s = run[job[w].exec] \/ Writes(w, s) \/ Creates(w, s)
      BY <1>2, DelivererWrites
    <2>2. job[w].exec = y /\ s # run[y]
      BY <1>0, <1>2, <2>1 DEF Replaces
    <2>3. Writes(w, s)
      BY <2>1, <2>2, InWork DEF Creates
    <2>4. OwnsRun(v) /\ Leased(run[y])
      BY <2>2, <2>3 DEF WorkersHold, Holds, Writes, Leased, OwnsRun, Owns
    <2> QED BY <1>2, <2>2, <2>3, <2>4, InWork DEF Writes
  <1>3. ASSUME NEW c \in Callers, Calls(c), run'[y] # run[y]
        PROVE  FALSE
    <2>1. PICK x, s :
             /\ x \in Executions
             /\ Replaces(x, c, s)
             /\ \/ s = run[x] \/ Canceled(c, x, s) \/ Undoes(c, x, s) \/ Enters(c, x, s)
                \/ Moves(c, x, s) \/ Letters(c, x, s)
      BY <1>3, CallerWrites
    <2>2. x = y /\ s # run[y] /\ run'[y] = s
      BY <1>0, <1>3, <2>1 DEF Replaces
    <2>3. ~Canceled(c, x, s)
      <3>1. run[y] \in Run => SettledAs(run[y], "canceled").status = "canceled"
        BY DEF SettledAs, Run
      <3>2. "canceled" \notin Unfinished
        BY DEF Unfinished, Waiting
      <3> QED BY <1>0, <2>2, <3>1, <3>2 DEF Canceled
    <2>4. ~Undoes(c, x, s) /\ ~Enters(c, x, s) /\ ~Moves(c, x, s) /\ ~Letters(c, x, s)
      BY <2>2, InWork DEF NothingUndone, Undoes, Enters, Moves, Letters
    <2> QED BY <2>1, <2>2, <2>3, <2>4
  <1> QED BY <1>1, <1>2, <1>3

\* A claim holds what it claimed, and so does its worker until it lets go.
LEMMA WorkerHolds ==
    ASSUME IInv, WorkersHold, NEW w \in Deliverers, AtWork(w)
    PROVE  HoldsOn(w)'
  <1> DEFINE e == job[w].exec
             r == run[e]
  <1>0. /\ e \in Executions /\ run \in [Executions -> Run] /\ r \in Run
        /\ job \in [Deliverers -> Job] /\ job[w] \in Job
        /\ w \in fresh => DelivererKnows(r, job[w])
    BY InHand DEF IInv, TypeOK
  <1>1. ASSUME job'[w].at \notin {"work", "finish"}
        PROVE  HoldsOn(w)'
    BY <1>1 DEF HoldsOn, Working
  <1>02. ASSUME NEW s, NEW n, GotoWith(w, s, n)
         PROVE  job'[w].at = s
    BY <1>0, <1>02 DEF GotoWith, NoJob
  <1>2. ASSUME NEW s, Goto(w, s)
        PROVE  job'[w].at = s
    BY <1>02, <1>2 DEF Goto
  <1>3. ASSUME NEW ready \in {"slots", "claim"}, Admit(w, ready) \/ AdmitAgain(w, ready)
        PROVE  HoldsOn(w)'
    <2> DEFINE next == Admission(r, job[w].delivery, job[w].receives, ready)
    <2>1. next \notin {"work", "finish"}
      <3>0. job[w].receives \in Nat
        BY <1>0 DEF Job
      <3>1. next \in {"ack", "hide", "hold", "expire", "exhaust", "undeliverable", ready}
        BY <3>0, InHand, AdmissionKnows
      <3> HIDE DEF next
      <3> QED BY <3>1
    <2>2. GotoWith(w, next, r.attempts) \/ Goto(w, "hide")
      BY <1>3 DEF Admit, AdmitAgain
    <2> HIDE DEF next
    <2> QED BY <1>1, <1>02, <1>2, <2>1, <2>2
  <1>4. CASE Claim(w)
    <2>1. CASE /\ Write(e, w, Claimed(r))
               /\ job' = [job EXCEPT ![w].at = "work", ![w].attempt = r.attempts + 1]
      <3>1. r.delivery = job[w].delivery
        BY <1>0, <1>4, <2>1 DEF Claim, Write, DelivererKnows, At
      <3>2. run'[e] = Claimed(r) /\ job'[w].exec = e /\ job'[w].attempt = r.attempts + 1
            /\ job'[w].delivery = job[w].delivery
        BY <1>0, <2>1 DEF Write, Put, Job
      <3>3. Owns(run'[e], r.delivery, r.attempts + 1) /\ run'[e].leased
        BY <1>0, <3>2 DEF Claimed, Owns, Run
      <3> QED BY <3>1, <3>2, <3>3 DEF HoldsOn, Holds, OwnsRun
    <2> QED BY <1>3, <1>4, <2>1, ClaimOver
  <1>5. CASE RenewLease(w)
    <2>1. run'[e] = Renewed(r) /\ job' = job /\ OwnsRun(w)
      BY <1>0, <1>5 DEF RenewLease, Put
    <2>2. Owns(run'[e], job[w].delivery, job[w].attempt) /\ run'[e].leased
      BY <1>0, <2>1 DEF Renewed, OwnsRun, Owns, Run
    <2> QED BY <2>1, <2>2 DEF HoldsOn, Holds, OwnsRun
  <1>6. CASE Answered(w)
    <2>1. /\ run' = run /\ job'[w].exec = e /\ job'[w].attempt = job[w].attempt
          /\ job'[w].delivery = job[w].delivery /\ Working(w)
      BY <1>0, <1>6 DEF Answered, Job, Working, At
    <2> QED BY <2>1 DEF HoldsOn, WorkersHold, Holds, OwnsRun
  <1>7. CASE Finish(w)
    <2>1. CASE Read(w) /\ UNCHANGED job
      BY <1>7, <2>1 DEF Finish, Read, HoldsOn, WorkersHold, Holds, OwnsRun, Working
    <2>2. CASE \E s \in {"ack", "hide"} : Goto(w, s)
      BY <1>1, <1>2, <2>2
    <2> QED BY <1>7, <2>1, <2>2 DEF Finish
  <1>8. CASE Arrive(w)
    BY <1>1, <1>2, <1>3, <1>8 DEF Arrive
  <1>9. CASE CreateOnArrival(w)
    <2>1. ASSUME NEW due \in Dues, NEW expiry \in ExpiriesOnArrival(due),
                 GotoWith(w, Admission(NewRun(due, expiry), 0, job[w].receives, "slots"), 0)
          PROVE  HoldsOn(w)'
      <3> DEFINE next == Admission(NewRun(due, expiry), 0, job[w].receives, "slots")
      <3>0. expiry \in Expiries /\ job[w].receives \in Nat /\ 0 \in Deliveries
        BY <1>0 DEF ExpiriesOnArrival, Expiries, Job, Deliveries
      <3>1. next \in {"ack", "hide", "hold", "expire", "exhaust", "undeliverable", "slots"}
        BY <3>0, NewRunOK, AdmissionKnows
      <3>2. GotoWith(w, next, 0)
        BY <2>1
      <3> HIDE DEF next
      <3> QED BY <1>1, <1>02, <3>1, <3>2
    <2> QED BY <1>1, <1>2, <1>3, <1>9, <2>1 DEF CreateOnArrival
  <1>10. CASE AdmitWrite(w)
    <2>1. Redelivery(r, job[w].receives) \notin {"work", "finish"}
      BY DEF Redelivery
    <2> QED BY <1>1, <1>2, <1>3, <1>10, <2>1, AdmitWriteOver
  <1>11. CASE SlotsRefused(w)
    <2>1. Redelivery(r, job[w].receives) \notin {"work", "finish"}
      BY DEF Redelivery
    <2> QED BY <1>1, <1>2, <1>11, <2>1, SlotsRefusedOver
  <1>12. CASE Dispose(w) \/ Crash(w)
    BY <1>0, <1>1, <1>12 DEF Dispose, Crash, NoJob
  <1>13. CASE FailUndeliverable(w) \/ SlotsTaken(w) \/ AttemptCanceled(w) \/ CallFails(w)
    BY <1>1, <1>2, <1>13 DEF FailUndeliverable, SlotsTaken, AttemptCanceled, CallFails
  <1> QED BY <1>4, <1>5, <1>6, <1>7, <1>8, <1>9, <1>10, <1>11, <1>12, <1>13 DEF AtWork, Deliver

LEMMA WorkersHoldNext ==
    ASSUME Calm, IInv, WorkersHold, NothingUndone, [Next]_vars
    PROVE  WorkersHold'
  <1> SUFFICES ASSUME NEW v \in Deliverers PROVE HoldsOn(v)'
    BY DEF WorkersHold, HoldsOn
  <1>0. HoldsOn(v) /\ job[v].exec \in Executions
    BY InHand DEF WorkersHold, HoldsOn
  <1>1. CASE UNCHANGED vars
    BY <1>0, <1>1 DEF vars, HoldsOn, Holds, OwnsRun, Working
  <1>2. ASSUME NEW w \in Deliverers, NEW e \in Executions, NEW d \in Deliveries, Receive(w, e, d)
        PROVE  HoldsOn(v)'
    <2>1. CASE v = w
      BY <1>2, <2>1, ReceiveFrame DEF HoldsOn, Working
    <2>2. CASE v # w
      BY <1>0, <1>2, <2>2, ReceiveFrame DEF HoldsOn, Holds, OwnsRun, Working
    <2> QED BY <2>1, <2>2
  <1>3. ASSUME NEW w \in Deliverers, AtWork(w)
        PROVE  HoldsOn(v)'
    <2>1. CASE v = w
      BY <1>3, <2>1, WorkerHolds
    <2>2. CASE v # w
      <3>1. job'[v] = job[v]
        BY <1>3, <2>2, DelivererFrame DEF IInv, TypeOK
      <3> QED BY <1>3, <2>2, <3>1, OthersLeaveHeld
    <2> QED BY <2>1, <2>2
  <1>4. ASSUME NEW c \in Callers, Calls(c)
        PROVE  HoldsOn(v)'
    <2>1. job'[v] = job[v]
      BY <1>4, CallerWrites
    <2> QED BY <1>4, <2>1, OthersLeaveHeld
  <1>5. ASSUME NEW e \in Executions, NEW d \in Deliveries, Queues(e, d)
        PROVE  HoldsOn(v)'
    BY <1>0, <1>5, QueueFrame DEF HoldsOn, Holds, OwnsRun, Working
  <1>6. ASSUME NEW e \in Executions, Clocks(e)
        PROVE  HoldsOn(v)'
    <2> DEFINE y == job[v].exec
    <2>1. /\ job' = job /\ run'[y].delivery = run[y].delivery /\ run'[y].status = run[y].status
          /\ run'[y].attempts = run[y].attempts
          /\ run'[y].leased = run[y].leased \/ (y = e /\ LeaseLapses(e))
      BY <1>0, <1>6, ClockFrame
    <2>2. CASE y = e /\ LeaseLapses(e)
      BY <1>0, <2>1, <2>2 DEF Calm, LeaseLapses, HoldsOn, Holds, Working, OwnsRun
    <2>3. CASE run'[y].leased = run[y].leased
      BY <1>0, <2>1, <2>3 DEF HoldsOn, Holds, OwnsRun, Owns, Working
    <2> QED BY <2>1, <2>2, <2>3
  <1> QED BY <1>1, <1>2, <1>3, <1>4, <1>5, <1>6 DEF Next, AtWork, Calls, Queues, Clocks

AcksWell(w) ==
    At(w, "ack") /\ Task(job[w].exec) /\ run[job[w].exec].status \in Unfinished =>
        run[job[w].exec].delivery # job[w].delivery

\* A message in hand to be acknowledged stays one whoever else writes its run.
LEMMA OthersLeaveAcked ==
    ASSUME IInv, AcksAreDue, NothingUndone, NEW v \in Deliverers, job'[v] = job[v],
           \/ \E w \in Deliverers : w # v /\ AtWork(w)
           \/ \E c \in Callers : Calls(c)
    PROVE  AcksWell(v)'
  <1> DEFINE y == job[v].exec
  <1> SUFFICES ASSUME At(v, "ack"), Task(y), run'[y].status \in Unfinished
               PROVE  run'[y].delivery # job[v].delivery
    BY DEF AcksWell, At
  <1>0. /\ run \in [Executions -> Run] /\ y \in Executions
        /\ job[v].delivery < named[y] /\ job[v].delivery \in Deliveries
    BY InHand DEF IInv, TypeOK, At
  <1>1. run[y].status \in Unfinished => run[y].delivery # job[v].delivery
    BY DEF AcksAreDue
  <1>2. CASE run'[y] = run[y]
    BY <1>1, <1>2
  <1>3. ASSUME NEW w \in Deliverers, w # v, AtWork(w), run'[y] # run[y]
        PROVE  run'[y].delivery # job[v].delivery
    <2>1. PICK s : /\ Replaces(job[w].exec, w, s)
                   /\ s = run[job[w].exec] \/ Writes(w, s) \/ Creates(w, s)
      BY <1>3, DelivererWrites
    <2>2. job[w].exec = y /\ run'[y] = s /\ s # run[y]
      BY <1>0, <1>3, <2>1 DEF Replaces
    <2>3. ~Creates(w, s)
      BY <2>2, InHand DEF Creates
    <2> QED BY <1>1, <2>1, <2>2, <2>3 DEF Writes
  <1>4. ASSUME NEW c \in Callers, Calls(c), run'[y] # run[y]
        PROVE  run'[y].delivery # job[v].delivery
    <2>1. PICK x, s :
             /\ x \in Executions
             /\ Replaces(x, c, s)
             /\ \/ s = run[x] \/ Canceled(c, x, s) \/ Undoes(c, x, s) \/ Enters(c, x, s)
                \/ Moves(c, x, s) \/ Letters(c, x, s)
      BY <1>4, CallerWrites
    <2>2. x = y /\ s # run[y] /\ run'[y] = s
      BY <1>0, <1>4, <2>1 DEF Replaces
    <2>3. ~Canceled(c, x, s)
      <3>1. run[y] \in Run => SettledAs(run[y], "canceled").status = "canceled"
        BY DEF SettledAs, Run
      <3>2. "canceled" \notin Unfinished
        BY DEF Unfinished, Waiting
      <3> QED BY <1>0, <2>2, <3>1, <3>2 DEF Canceled
    <2>4. ~Undoes(c, x, s) /\ ~Letters(c, x, s)
      BY <2>2 DEF NothingUndone, Undoes, Letters
    <2>5. ~Enters(c, x, s)
      BY <1>0, <2>2 DEF Enters, Deliveries
    <2>6. CASE Moves(c, x, s)
      BY <1>0, <2>2, <2>6 DEF Moves, Deliveries
    <2> QED BY <2>1, <2>2, <2>3, <2>4, <2>5, <2>6
  <1> QED BY <1>2, <1>3, <1>4

\* Nobody comes to acknowledge the message its own task run waits for.
LEMMA DelivererAcks ==
    ASSUME IInv, WorkersHold, NEW w \in Deliverers, AtWork(w)
    PROVE  AcksWell(w)'
  <1> DEFINE e == job[w].exec
             d == job[w].delivery
             r == run[e]
  <1>0. /\ e \in Executions /\ run \in [Executions -> Run] /\ r \in Run
        /\ job \in [Deliverers -> Job] /\ job[w] \in Job /\ d \in Deliveries
        /\ At(w, "create") => ~Task(e)
    BY InHand DEF IInv, TypeOK
  <1>1. ASSUME job'[w].at # "ack"
        PROVE  AcksWell(w)'
    BY <1>1 DEF AcksWell, At
  <1>02. ASSUME NEW s, NEW n, GotoWith(w, s, n)
         PROVE  job'[w].at = s /\ job'[w].exec = e /\ job'[w].delivery = d
    BY <1>0, <1>02 DEF GotoWith, NoJob
  <1>2. ASSUME NEW s, Goto(w, s)
        PROVE  job'[w].at = s /\ job'[w].exec = e /\ job'[w].delivery = d
    BY <1>02, <1>2 DEF Goto
  <1>3. ASSUME run'[e].status \notin Unfinished, job'[w].exec = e
        PROVE  AcksWell(w)'
    BY <1>3 DEF AcksWell
  <1>4. ASSUME NEW ready \in {"slots", "claim"}, Admit(w, ready) \/ AdmitAgain(w, ready)
        PROVE  AcksWell(w)'
    <2>1. CASE Admit(w, ready)
      <3> DEFINE next == Admission(r, d, job[w].receives, ready)
      <3>1. next = "ack" => r.status \notin Unfinished \/ r.delivery # d
        BY <1>0, InHand, AdmissionStale
      <3>2. GotoWith(w, next, r.attempts) /\ run' = run
        BY <2>1 DEF Admit
      <3> HIDE DEF next
      <3> QED BY <1>02, <3>1, <3>2 DEF AcksWell, At
    <2>2. CASE Goto(w, "hide")
      BY <2>2, <1>1, <1>2
    <2> QED BY <1>4, <2>1, <2>2 DEF AdmitAgain
  <1>5. ASSUME NEW s \in Settled, LastWrite(e, w, SettledAs(r, s)), Goto(w, "ack")
        PROVE  AcksWell(w)'
    <2>1. run'[e].status = s /\ s \notin Unfinished
      BY <1>0, <1>5 DEF LastWrite, SettledAs, Run, Settled, Unfinished, Waiting
    <2> QED BY <1>2, <1>3, <1>5, <2>1
  <1>6. ASSUME Working(w), ~OwnsRun(w), Goto(w, "ack"), run' = run
        PROVE  AcksWell(w)'
    BY <1>2, <1>6 DEF AcksWell, WorkersHold, Holds
  <1>7. CASE Finish(w)
    <2> DEFINE judged == Judged(r, job[w].answer, job[w].attempt, Task(e))
    <2>1. CASE LastWrite(e, w, judged) /\ Goto(w, IF judged.status = "queued" THEN "hide" ELSE "ack")
      <3>1. r.status = "executing"
        BY <1>7, <2>1, InHand DEF Finish, LastWrite, DelivererKnows, At, Owns
      <3>2. judged.status \in Settled \cup {"queued"}
        <4>1. RecordOK(r) /\ job[w].attempt \in 0..MaxAttempts /\ Task(e) \in BOOLEAN
          BY InHand DEF Task
        <4> QED BY <1>0, <3>1, <4>1, JudgedOK
      <3>3. CASE judged.status = "queued"
        BY <1>1, <1>2, <2>1, <3>3
      <3>4. CASE judged.status \in Settled
        <4>1. run'[e].status \in Settled
          BY <1>0, <2>1, <3>4 DEF LastWrite
        <4>2. run'[e].status \notin Unfinished
          BY <4>1 DEF Settled, Unfinished, Waiting
        <4> QED BY <1>2, <1>3, <2>1, <4>2
      <3> QED BY <3>2, <3>3, <3>4
    <2>2. CASE ~OwnsRun(w) /\ Goto(w, "ack") /\ NoStoreCall
      BY <1>6, <1>7, <2>2 DEF Finish, NoStoreCall, Working, At
    <2>3. CASE Goto(w, "hide")
      BY <1>1, <1>2, <2>3
    <2>4. CASE UNCHANGED job
      BY <1>1, <1>7, <2>4 DEF Finish, At
    <2> QED BY <1>7, <2>1, <2>2, <2>3, <2>4, FinishOver
  <1>8. CASE AttemptCanceled(w)
    BY <1>6, <1>8 DEF AttemptCanceled, Working, At
  <1>9. CASE Arrive(w)
    <2>1. CASE r.status = Absent /\ run' = run
      <3>1. Goto(w, "ack") \/ Goto(w, "create")
        BY <1>9, <2>1 DEF Arrive
      <3> QED BY <1>2, <1>3, <2>1, <3>1 DEF Absent, Unfinished, Waiting
    <2> QED BY <1>4, <1>9, <2>1 DEF Arrive, NoStoreCall
  <1>10. CASE CreateOnArrival(w)
    <2>1. ~Task(e)
      BY <1>0, <1>10 DEF CreateOnArrival
    <2>2. job'[w].at # "idle" => job'[w].exec = e
      BY <1>0, <1>10, DelivererFrame DEF AtWork, Deliver
    <2> QED BY <1>1, <2>1, <2>2 DEF AcksWell, Task
  <1>11. CASE AdmitWrite(w)
    <2>1. Redelivery(r, job[w].receives) # "ack"
      BY DEF Redelivery
    <2>2. CASE Goto(w, Redelivery(r, job[w].receives))
      BY <1>1, <1>2, <2>1, <2>2
    <2> QED BY <1>4, <1>5, <1>11, <2>2, AdmitWriteOver DEF Settled
  <1>12. CASE FailUndeliverable(w)
    BY <1>1, <1>2, <1>5, <1>12, FailUndeliverableOver DEF Settled
  <1>13. CASE SlotsRefused(w)
    <2>1. Redelivery(r, job[w].receives) # "ack"
      BY DEF Redelivery
    <2> QED BY <1>1, <1>2, <1>13, <2>1, SlotsRefusedOver
  <1>14. CASE Claim(w)
    <2>1. CASE job' = [job EXCEPT ![w].at = "work", ![w].attempt = r.attempts + 1]
      BY <1>0, <1>1, <2>1 DEF Job
    <2> QED BY <1>4, <1>14, <2>1, ClaimOver
  <1>15. CASE RenewLease(w) \/ Answered(w)
    BY <1>0, <1>1, <1>15 DEF RenewLease, Answered, Job, At
  <1>16. CASE Dispose(w) \/ Crash(w)
    BY <1>0, <1>1, <1>16 DEF Dispose, Crash, NoJob
  <1>17. CASE SlotsTaken(w) \/ CallFails(w)
    BY <1>1, <1>2, <1>17 DEF SlotsTaken, CallFails
  <1> QED BY <1>7, <1>8, <1>9, <1>10, <1>11, <1>12, <1>13, <1>14, <1>15, <1>16, <1>17
          DEF AtWork, Deliver

LEMMA AcksAreDueNext ==
    ASSUME IInv, WorkersHold, AcksAreDue, NothingUndone, [Next]_vars
    PROVE  AcksAreDue'
  <1> SUFFICES ASSUME NEW v \in Deliverers PROVE AcksWell(v)'
    BY DEF AcksAreDue, AcksWell
  <1>0. AcksWell(v) /\ job[v].exec \in Executions
    BY InHand DEF AcksAreDue, AcksWell
  <1>1. CASE UNCHANGED vars
    BY <1>0, <1>1 DEF vars, AcksWell, At
  <1>2. ASSUME NEW w \in Deliverers, NEW e \in Executions, NEW d \in Deliveries, Receive(w, e, d)
        PROVE  AcksWell(v)'
    <2>1. CASE v = w
      BY <1>2, <2>1, ReceiveFrame DEF AcksWell, At
    <2>2. CASE v # w
      BY <1>0, <1>2, <2>2, ReceiveFrame DEF AcksWell, At
    <2> QED BY <2>1, <2>2
  <1>3. ASSUME NEW w \in Deliverers, AtWork(w)
        PROVE  AcksWell(v)'
    <2>1. CASE v = w
      BY <1>3, <2>1, DelivererAcks
    <2>2. CASE v # w
      <3>1. job'[v] = job[v]
        BY <1>3, <2>2, DelivererFrame DEF IInv, TypeOK
      <3> QED BY <1>3, <2>2, <3>1, OthersLeaveAcked
    <2> QED BY <2>1, <2>2
  <1>4. ASSUME NEW c \in Callers, Calls(c)
        PROVE  AcksWell(v)'
    <2>1. job'[v] = job[v]
      BY <1>4, CallerWrites
    <2> QED BY <1>4, <2>1, OthersLeaveAcked
  <1>5. ASSUME NEW e \in Executions, NEW d \in Deliveries, Queues(e, d)
        PROVE  AcksWell(v)'
    BY <1>0, <1>5, QueueFrame DEF AcksWell, At
  <1>6. ASSUME NEW e \in Executions, Clocks(e)
        PROVE  AcksWell(v)'
    BY <1>0, <1>6, ClockFrame DEF AcksWell, At
  <1> QED BY <1>1, <1>2, <1>3, <1>4, <1>5, <1>6 DEF Next, AtWork, Calls, Queues, Clocks

\* A deliverer takes a message off the queue only to acknowledge it.
LEMMA DelivererTakes ==
    ASSUME IInv, NEW w \in Deliverers, AtWork(w), NEW e \in Executions, NEW d \in Deliveries,
           OnQueue(e, d), ~OnQueue(e, d)'
    PROVE  At(w, "ack") /\ job[w].exec = e /\ job[w].delivery = d
  <1>1. queue # queue'
    BY DEF OnQueue
  <1>2. Dispose(w)
    BY <1>1 DEF AtWork, Deliver, Arrive, CreateOnArrival, AdmitWrite, FailUndeliverable, SlotsTaken,
                SlotsRefused, Claim, AttemptCanceled, Answered, Finish, RenewLease, CallFails, Crash
  <1>3. queue \in [Executions -> [Deliveries -> Message]]
    BY InHand
  <1>4. CASE At(w, "ack") /\ queue' = [queue EXCEPT ![job[w].exec][job[w].delivery] =
                                                   [NoMessage EXCEPT !.state = "acked"]]
    BY <1>3, <1>4, InHand DEF OnQueue
  <1>5. CASE queue' = [queue EXCEPT ![job[w].exec][job[w].delivery].state = "hidden"]
    <2> DEFINE m == [queue[job[w].exec][job[w].delivery] EXCEPT !.state = "hidden"]
    <2>1. m.state = "hidden"
      BY <1>3, InHand DEF Message
    <2>2. queue' = [queue EXCEPT ![job[w].exec][job[w].delivery] = m]
      BY <1>5
    <2> HIDE DEF m
    <2> QED BY <1>3, <2>1, <2>2, InHand DEF OnQueue
  <1> QED BY <1>1, <1>2, <1>4, <1>5 DEF Dispose

\* Sending and releasing take none.
LEMMA SentStays ==
    ASSUME NEW q \in [Executions -> [Deliveries -> Message]],
           NEW x \in Executions, NEW b \in Deliveries
    PROVE  /\ \A v \in BOOLEAN :
                q = queue => /\ Sent(x, b, v)[x][b].state \in {"visible", "hidden"}
                             /\ \A e \in Executions, d \in Deliveries :
                                  OnQueue(e, d) => Sent(x, b, v)[e][d].state \in {"visible", "hidden"}
           /\ \A h \in Deliveries \cup {NoHandle}, e \in Executions, d \in Deliveries :
                q[e][d].state \in {"visible", "hidden"} => Released(q, x, h)[e][d].state \in {"visible", "hidden"}
  <1>1. ASSUME NEW v \in BOOLEAN, q = queue
        PROVE  /\ Sent(x, b, v)[x][b].state \in {"visible", "hidden"}
               /\ \A e \in Executions, d \in Deliveries :
                    OnQueue(e, d) => Sent(x, b, v)[e][d].state \in {"visible", "hidden"}
    <2> DEFINE m == [NoMessage EXCEPT !.state = IF v THEN "visible" ELSE "hidden"]
    <2>1. m.state \in {"visible", "hidden"}
      BY DEF NoMessage
    <2> HIDE DEF m
    <2> QED BY <1>1, <2>1 DEF Sent, OnQueue, m
  <1>2. ASSUME NEW h \in Deliveries \cup {NoHandle}, NEW e \in Executions, NEW d \in Deliveries,
               q[e][d].state \in {"visible", "hidden"}
        PROVE  Released(q, x, h)[e][d].state \in {"visible", "hidden"}
    <2>1. CASE h = NoHandle \/ q[x][h].state \notin {"visible", "hidden"}
      BY <1>2, <2>1 DEF Released
    <2>2. CASE ~(h = NoHandle \/ q[x][h].state \notin {"visible", "hidden"})
      <3> DEFINE m == [q[x][h] EXCEPT !.state = "visible"]
      <3>1. h \in Deliveries /\ m.state \in {"visible", "hidden"}
        BY <2>2 DEF Message
      <3>2. Released(q, x, h) = [q EXCEPT ![x][h] = m]
        BY <2>2 DEF Released
      <3> HIDE DEF m
      <3> QED BY <1>2, <3>1, <3>2
    <2> QED BY <2>1, <2>2
  <1> QED BY <1>1, <1>2

\* A caller's step leaves every message on the queue, and adds the one it sends.
LEMMA CallerLeaves ==
    ASSUME IInv, NEW c \in Callers, Calls(c)
    PROVE  /\ \A e \in Executions, d \in Deliveries : OnQueue(e, d) => OnQueue(e, d)'
           /\ \A e \in Executions, d \in Deliveries :
                SendMessage(c) /\ e = call[c].exec /\ d = call[c].delivery => OnQueue(e, d)'
  <1>0. /\ queue \in [Executions -> [Deliveries -> Message]]
        /\ run[call[c].exec].held \in Deliveries \cup {NoHandle} /\ 0 \in Deliveries
    BY InCall DEF Run, Deliveries
  <1>1. PICK x \in Executions, b \in Deliveries, h \in Deliveries \cup {NoHandle} :
           x = call[c].exec /\ b = call[c].delivery /\ h = call[c].saved.held
    BY InCall DEF Run
  <1>2. CASE queue' = queue /\ ~SendMessage(c)
    BY <1>2 DEF OnQueue
  <1>3. ASSUME NEW y \in Executions, Publish(c, y)
        PROVE  \A e \in Executions, d \in Deliveries : OnQueue(e, d) => OnQueue(e, d)'
    <2>1. PICK v \in BOOLEAN : queue' = Sent(y, 0, v)
      BY <1>3 DEF Publish
    <2>2. \A e \in Executions, d \in Deliveries :
             OnQueue(e, d) => Sent(y, 0, v)[e][d].state \in {"visible", "hidden"}
      BY <1>0, SentStays
    <2> QED BY <2>1, <2>2 DEF OnQueue
  <1>4. CASE SendMessage(c)
    <2>1. PICK v \in BOOLEAN : queue' = Released(Sent(x, b, v), x, h)
      BY <1>1, <1>4 DEF SendMessage
    <2>2. Sent(x, b, v) \in [Executions -> [Deliveries -> Message]]
      BY <1>0, SentOK
    <2>3. /\ Sent(x, b, v)[x][b].state \in {"visible", "hidden"}
          /\ \A e \in Executions, d \in Deliveries :
               OnQueue(e, d) => Sent(x, b, v)[e][d].state \in {"visible", "hidden"}
      BY <1>0, SentStays
    <2>4. PICK q \in [Executions -> [Deliveries -> Message]] :
             q = Sent(x, b, v) /\ queue' = Released(q, x, h)
      BY <2>1, <2>2, Zenon
    <2>5. \A e \in Executions, d \in Deliveries :
             q[e][d].state \in {"visible", "hidden"} => queue'[e][d].state \in {"visible", "hidden"}
      BY <2>4, SentStays
    <2>6. q[x][b].state \in {"visible", "hidden"}
      BY <2>3, <2>4
    <2>7. \A e \in Executions, d \in Deliveries : OnQueue(e, d) => q[e][d].state \in {"visible", "hidden"}
      BY <2>3, <2>4
    <2> QED BY <1>1, <2>5, <2>6, <2>7 DEF OnQueue
  <1>5. ASSUME SendFails(c)
        PROVE  \A e \in Executions, d \in Deliveries : OnQueue(e, d) => OnQueue(e, d)'
    <2>1. TRUE \in BOOLEAN
      OBVIOUS
    <2>2. \A e \in Executions, d \in Deliveries :
             OnQueue(e, d) => Sent(x, b, TRUE)[e][d].state \in {"visible", "hidden"}
      BY <1>0, <2>1, SentStays
    <2>3. queue' = queue \/ queue' = Sent(x, b, TRUE)
      BY <1>1, <1>5 DEF SendFails
    <2> QED BY <2>2, <2>3 DEF OnQueue
  <1>6. ASSUME Cancel(c)
        PROVE  \A e \in Executions, d \in Deliveries : OnQueue(e, d) => OnQueue(e, d)'
    <2>1. PICK g \in Deliveries \cup {NoHandle} : g = run[x].held
      BY <1>0, <1>1
    <2>2. \A e \in Executions, d \in Deliveries :
             OnQueue(e, d) => Released(queue, x, g)[e][d].state \in {"visible", "hidden"}
      BY <1>0, SentStays DEF OnQueue
    <2>3. queue' = queue \/ queue' = Released(queue, x, g)
      BY <1>1, <1>6, <2>1 DEF Cancel
    <2> QED BY <2>2, <2>3 DEF OnQueue
  <1> QED BY <1>2, <1>3, <1>4, <1>5, <1>6
          DEF Calls, CallerStep, Undo, Reschedule, Redrive, Purge, CallerCrash, Trigger, Begin

NeedsMessage(e) ==
    Task(e) /\ run[e].status \in Unfinished => Deliverable(e, run[e].delivery)

\* A caller that is to send goes on to, and the delivery a caller names it is
\* about to send.
LEMMA CallerDelivers ==
    ASSUME Calm, IInv, NothingUndone, NEW c \in Callers, Calls(c), NEW e \in Executions,
           NeedsMessage(e)
    PROVE  NeedsMessage(e)'
  <1> SUFFICES ASSUME Task(e), run'[e].status \in Unfinished
               PROVE  Deliverable(e, run[e].delivery)'
    BY DEF NeedsMessage
  <1>0. run \in [Executions -> Run] /\ call \in [Callers -> Call]
    BY DEF IInv, TypeOK
  <1>1. PICK x, s :
           /\ x \in Executions
           /\ Replaces(x, c, s)
           /\ \/ s = run[x] \/ Canceled(c, x, s) \/ Undoes(c, x, s) \/ Enters(c, x, s)
              \/ Moves(c, x, s) \/ Letters(c, x, s)
    BY CallerWrites
  <1>2. CASE run'[e] = run[e]
    <2>1. PICK d \in Deliveries : d = run[e].delivery
      BY <1>0 DEF Run
    <2>2. CASE OnQueue(e, d)
      BY <1>2, <2>1, <2>2, CallerLeaves DEF Deliverable
    <2>3. ASSUME NEW b \in Callers, Sending(b, e), call[b].delivery = d, b # c
          PROVE  Deliverable(e, run[e].delivery)'
      <3>1. call'[b] = call[b]
        BY <2>3, CallerWrites
      <3> QED BY <1>2, <2>1, <2>3, <3>1 DEF Deliverable, Sending
    <2>4. CASE Sending(c, e) /\ call[c].delivery = d
      <3>1. CASE SendMessage(c)
        BY <1>2, <2>1, <2>4, <3>1, CallerLeaves DEF Deliverable, Sending
      <3>2. ~SendMessage(c) => FALSE
        BY <2>4 DEF Calls, CallerStep, Undo, Cancel, Reschedule, Redrive, Purge, SendFails,
                    CallerCrash, Trigger, Publish, Begin, Calling, Sending, Calm
      <3> QED BY <3>1, <3>2
    <2>5. Deliverable(e, d)
      BY <1>2, <2>1 DEF NeedsMessage
    <2> QED BY <2>2, <2>3, <2>4, <2>5 DEF Deliverable
  <1>3. CASE run'[e] # run[e]
    <2>1. x = e /\ run'[e] = s /\ s # run[e]
      BY <1>0, <1>1, <1>3 DEF Replaces
    <2>2. ~Canceled(c, x, s)
      <3>1. run[e] \in Run => SettledAs(run[e], "canceled").status = "canceled"
        BY DEF SettledAs, Run
      <3>2. "canceled" \notin Unfinished
        BY DEF Unfinished, Waiting
      <3> QED BY <1>0, <2>1, <3>1, <3>2 DEF Canceled
    <2>3. ~Undoes(c, x, s) /\ ~Letters(c, x, s)
      BY <2>1 DEF NothingUndone, Undoes, Letters
    <2>4. CASE Enters(c, x, s) \/ Moves(c, x, s)
      BY <2>1, <2>4 DEF Enters, Moves, Deliverable, Sending
    <2> QED BY <1>1, <2>1, <2>2, <2>3, <2>4
  <1> QED BY <1>2, <1>3

LEMMA TasksDeliverableNext ==
    ASSUME Calm, IInv, AcksAreDue, NothingUndone, TasksDeliverable, [Next]_vars
    PROVE  TasksDeliverable'
  <1> SUFFICES ASSUME NEW e \in Executions PROVE NeedsMessage(e)'
    BY DEF TasksDeliverable, NeedsMessage
  <1>0. NeedsMessage(e) /\ run \in [Executions -> Run]
    BY DEF TasksDeliverable, NeedsMessage, IInv, TypeOK
  <1>1. CASE UNCHANGED vars
    BY <1>0, <1>1 DEF vars, NeedsMessage, Deliverable, OnQueue, Sending
  <1>2. ASSUME NEW w \in Deliverers, NEW x \in Executions, NEW d \in Deliveries, Receive(w, x, d)
        PROVE  NeedsMessage(e)'
    <2>1. run' = run /\ call' = call /\ run[e].delivery \in Deliveries
      BY <1>0, <1>2, ReceiveFrame DEF Run
    <2>2. OnQueue(e, run[e].delivery) => OnQueue(e, run[e].delivery)'
      BY <1>2, <2>1, ReceiveFrame
    <2> QED BY <1>0, <2>1, <2>2 DEF NeedsMessage, Deliverable, Sending
  <1>3. ASSUME NEW w \in Deliverers, AtWork(w)
        PROVE  NeedsMessage(e)'
    <2> SUFFICES ASSUME Task(e), run'[e].status \in Unfinished
                 PROVE  Deliverable(e, run[e].delivery)'
      BY DEF NeedsMessage
    <2>1. run'[e].delivery = run[e].delivery /\ run[e].status \in Unfinished
      <3>1. PICK s : /\ Replaces(job[w].exec, w, s)
                     /\ s = run[job[w].exec] \/ Writes(w, s) \/ Creates(w, s)
        BY <1>3, DelivererWrites
      <3>2. CASE job[w].exec = e
        BY <1>0, <3>1, <3>2, InHand DEF Replaces, Writes, Creates
      <3>3. CASE job[w].exec # e
        BY <1>0, <3>1, <3>3, InHand DEF Replaces
      <3> QED BY <3>2, <3>3
    <2>2. PICK d \in Deliveries : d = run[e].delivery
      BY <1>0 DEF Run
    <2>3. OnQueue(e, d) => OnQueue(e, d)'
      BY <1>3, <2>1, <2>2, DelivererTakes DEF AcksAreDue
    <2>4. call' = call
      BY <1>3, DelivererFrame
    <2> QED BY <1>0, <2>1, <2>2, <2>3, <2>4 DEF NeedsMessage, Deliverable, Sending
  <1>4. ASSUME NEW c \in Callers, Calls(c)
        PROVE  NeedsMessage(e)'
    BY <1>0, <1>4, CallerDelivers
  <1>5. ASSUME NEW x \in Executions, NEW d \in Deliveries, Queues(x, d)
        PROVE  NeedsMessage(e)'
    <2>1. run' = run /\ call' = call /\ run[e].delivery \in Deliveries
      BY <1>0, <1>5, QueueFrame DEF Run
    <2>2. ~DeadLetter(x, d)
      BY DEF DeadLetter, Calm
    <2>3. OnQueue(e, run[e].delivery) => OnQueue(e, run[e].delivery)'
      BY <1>5, <2>1, <2>2, QueueFrame
    <2> QED BY <1>0, <2>1, <2>3 DEF NeedsMessage, Deliverable, Sending
  <1>6. ASSUME NEW x \in Executions, Clocks(x)
        PROVE  NeedsMessage(e)'
    BY <1>0, <1>6, ClockFrame DEF NeedsMessage, Deliverable, OnQueue, Sending
  <1> QED BY <1>1, <1>2, <1>3, <1>4, <1>5, <1>6 DEF Next, AtWork, Calls, Queues, Clocks

LEMMA NothingUndoneNext ==
    ASSUME Calm, IInv, NothingUndone, [Next]_vars
    PROVE  NothingUndone'
  <1> SUFFICES ASSUME NEW c \in Callers PROVE call'[c].at \notin {"drop", "restore"}
    BY DEF NothingUndone
  <1>0. call[c].at \notin {"drop", "restore"} /\ call \in [Callers -> Call]
    BY DEF NothingUndone, IInv, TypeOK
  <1>1. CASE call' = call
    BY <1>0, <1>1
  <1>2. ASSUME NEW b \in Callers, Calls(b)
        PROVE  call'[c].at \notin {"drop", "restore"}
    <2>1. CASE b # c
      BY <1>0, <1>2, <2>1, CallerWrites
    <2>2. CASE b = c
      <3>1. CASE call' = call \/ Return(c) \/ call' = [call EXCEPT ![c] = NoCall]
        BY <1>0, <3>1 DEF Return, NoCall
      <3>2. ASSUME NEW s \in CallStates \ {"drop", "restore"}, NEW x, NEW d, NEW k,
                   Proceed(c, s, x, d, k)
            PROVE  call'[c].at \notin {"drop", "restore"}
        BY <1>0, <3>2 DEF Proceed
      <3> QED BY <1>2, <2>2, <3>1, <3>2
              DEF Calls, CallerStep, SendMessage, Undo, Cancel, Reschedule, Redrive, Purge, SendFails,
                  CallerCrash, Trigger, Publish, Begin, Calm, CallStates
    <2> QED BY <2>1, <2>2
  <1>3. ASSUME NEW w \in Deliverers, AtWork(w)
        PROVE  call' = call
    BY <1>3, DelivererFrame
  <1>4. ASSUME NEW w \in Deliverers, NEW e \in Executions, NEW d \in Deliveries,
               Receive(w, e, d) \/ Queues(e, d) \/ Clocks(e)
        PROVE  call' = call
    BY <1>4, ReceiveFrame, QueueFrame, ClockFrame
  <1>5. ASSUME NEW e \in Executions, NEW d \in Deliveries, Queues(e, d) \/ Clocks(e)
        PROVE  call' = call
    BY <1>5, QueueFrame, ClockFrame
  <1>6. 0 \in Deliveries
    BY DEF Deliveries
  <1> QED BY <1>1, <1>2, <1>3, <1>4, <1>5, <1>6
          DEF Next, vars, AtWork, Calls, Queues, Clocks

\* A task run keeps a message until it settles: nobody acknowledges the message
\* of the delivery it waits for.  This needs callers that do not fail, leases
\* renewed in time and a queue that dead-letters nothing; without them the code
\* promises less (trigger.go send, deliver.go dispose).
THEOREM MessagesKept ==
    ASSUME Calm
    PROVE  Spec => []MessageKept
  <1> DEFINE Keeps == /\ NothingUndone /\ WorkersHold /\ AcksAreDue
                      /\ TasksDeliverable
  <1>1. Init => Keeps
    BY DEF Init, NothingUndone, WorkersHold, AcksAreDue, TasksDeliverable, NoCall, NoJob,
           NoRun, Working, At, Unfinished, Waiting, Absent
  <1>2. IInv /\ Keeps /\ [Next]_vars => Keeps'
    BY NothingUndoneNext, WorkersHoldNext, AcksAreDueNext, TasksDeliverableNext
  <1>3. Keeps => MessageKept
    BY DEF MessageKept, TasksDeliverable, Deliverable, Task
  <1> HIDE DEF Keeps
  <1> QED BY <1>1, <1>2, <1>3, Invariance, PTL DEF Spec
=============================================================================
