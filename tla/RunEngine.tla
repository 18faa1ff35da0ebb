------------------------------ MODULE RunEngine ------------------------------
(***************************************************************************)
(* The run engine of pkg/runs: deliverers that take a message off a queue, *)
(* claim the run it names, attempt it and record the outcome; callers that *)
(* trigger, cancel, reschedule, redrive and purge runs; the store they all *)
(* write over the revision they read, and the at-least-once queue.         *)
(*                                                                         *)
(* Every store or queue call is a step of its own.  A copy of a run is the *)
(* record as it was read; whether its revision is still current is         *)
(* membership in `fresh`.  A deliverer writes what it makes of its copy,   *)
(* `Copy`, of which `job` keeps the delivery and the attempts counted and  *)
(* leaves the rest, which only dates and settles the run, to the record.   *)
(***************************************************************************)
EXTENDS RunRecord

CONSTANTS
    Executions,        \* the runs there can be
    Tasks,             \* those that are task runs; the others are topic runs
    Deliverers,        \* goroutines inside Deliver, on any engine
    Callers,           \* clients inside a Tasks or Topics call
    Expiry,            \* "ahead" where a topic or trigger sets a TTL, or "none"
    Ordered,           \* TopicSpec.Ordered
    MaxReceives,       \* Config.MaxReceives, 0 where the queue never dead-letters
    ReceiptHandles,    \* a handle names one receipt (SQS), not the message (pgmq)
    LateRenewals,      \* keepLeases may renew only after the lease has lapsed
    CallersFail,       \* callers may crash and Queue.Send may fail
    MaxFaults          \* bound: crashes, store errors and queue mishaps

ASSUME RunEngineAssumption ==
    /\ Executions # {} /\ Tasks \subseteq Executions
    /\ Deliverers \cap Callers = {}
    /\ Expiry \in {"none", "ahead"}
    /\ MaxReceives \in Nat
    /\ MaxFaults \in Nat
    /\ Ordered \in BOOLEAN /\ ReceiptHandles \in BOOLEAN /\ CallersFail \in BOOLEAN
    /\ LateRenewals \in BOOLEAN

VARIABLES
    run,           \* the store: the record of each execution
    queue,         \* the queue: the message of each execution and delivery
    named,         \* how many deliveries of each execution have been named
    job,           \* what each deliverer is at
    call,          \* what each caller is at
    fresh,         \* the deliverers and callers whose copy is current
    faults         \* crashes, store errors and queue mishaps so far

vars == <<run, queue, named, job, call, fresh, faults>>

\* A message was never sent, is on the queue, or was acknowledged.
Message == [state : {"absent", "visible", "hidden", "acked"}, receives : Nat,
            holder : Deliverers \cup {NoHandle}]
NoMessage == [state |-> "absent", receives |-> 0, holder |-> NoHandle]

JobStates == {"idle", "arrive", "create", "hold", "expire", "exhaust",
              "undeliverable", "slots", "claim", "work", "finish", "ack", "hide"}
\* `receives` is the count the message in hand was handed out with; `attempt` the
\* attempts the deliverer's copy counts, from its claim on the number of its own.
Job == [at : JobStates, exec : Executions, delivery : Deliveries, receives : Nat,
        attempt : 0..MaxAttempts, answer : Outcomes \cup {"none"}]

CallStates == {"idle", "send", "drop", "cancel", "move", "sendMoved", "restore",
               "redrive", "sendLetter", "purge"}
Call == [at : CallStates, exec : Executions, delivery : Deliveries, saved : Run]

SomeExecution == CHOOSE e \in Executions : TRUE
NoJob  == [at |-> "idle", exec |-> SomeExecution, delivery |-> 0, receives |-> 0,
           attempt |-> 0, answer |-> "none"]
NoCall == [at |-> "idle", exec |-> SomeExecution, delivery |-> 0, saved |-> NoRun]

Init ==
    /\ run = [e \in Executions |-> NoRun]
    /\ queue = [e \in Executions |-> [d \in Deliveries |-> NoMessage]]
    /\ named = [e \in Executions |-> 0]
    /\ job = [w \in Deliverers |-> NoJob]
    /\ call = [c \in Callers |-> NoCall]
    /\ fresh = {}
    /\ faults = 0

-----------------------------------------------------------------------------
(***************************************************************************)
(* The store.                                                              *)
(***************************************************************************)
Holders(e) == {w \in Deliverers : job[w].exec = e} \cup {c \in Callers : call[c].exec = e}

\* A write lands: every other copy of the record is stale from here on.
Put(e, a, r) ==
    /\ run' = [run EXCEPT ![e] = r]
    /\ fresh' = (fresh \ Holders(e)) \cup {a}

\* Mutants: writes that do not ask whether the copy is current.
WriteBlind(e, a, r) == Put(e, a, r)
UndoBlind(c, r) ==
    /\ run' = [run EXCEPT ![call[c].exec] = r]
    /\ fresh' = fresh \ Holders(call[c].exec)

\* WriteRun over the revision a read, when nobody has written since.
Write(e, a, r) == a \in fresh /\ Put(e, a, r)

\* The same, after which a has no further use for its copy.
LastWrite(e, a, r) ==
    /\ a \in fresh
    /\ run' = [run EXCEPT ![e] = r]
    /\ fresh' = fresh \ Holders(e)

Read(a) == run' = run /\ fresh' = fresh \cup {a}

NoStoreCall == UNCHANGED <<run, fresh>>

(***************************************************************************)
(* The queue.                                                              *)
(***************************************************************************)
OnQueue(e, d) == queue[e][d].state \in {"visible", "hidden"}
WasSent(e, d) == queue[e][d].state # "absent"

Sent(e, d, visible) ==
    [queue EXCEPT ![e][d] = [NoMessage EXCEPT !.state = IF visible THEN "visible" ELSE "hidden"]]

\* Release makes the message a handle names visible, if it is still there.
Released(q, e, h) ==
    IF h # NoHandle /\ q[e][h].state \in {"visible", "hidden"}
    THEN [q EXCEPT ![e][h].state = "visible"] ELSE q

\* Mutant: every message is acknowledged under a handle of an earlier receipt.
HandleOutdated(w, e, d) == ~ReceiptHandles

\* Receipt handles of an earlier receipt change nothing.
HandleWorks(w, e, d) == ~ReceiptHandles \/ queue[e][d].holder = w

-----------------------------------------------------------------------------
(***************************************************************************)
(* Deliverers.                                                             *)
(***************************************************************************)
At(w, s) == job[w].at = s
Task(e)  == e \in Tasks

\* The run as deliverer w writes it back: what its copy says of the claim that
\* names the run, beside the rest of the record.
Copy(w) == [run[job[w].exec] EXCEPT !.attempts = job[w].attempt, !.delivery = job[w].delivery]

\* What the deliverer does next with the message in hand and a copy that
\* counts n attempts; a message to dispose of needs no copy.
GotoWith(w, s, n) ==
    job' = [job EXCEPT ![w] =
               [NoJob EXCEPT !.at = s, !.exec = job[w].exec, !.delivery = job[w].delivery,
                             !.receives = job[w].receives,
                             !.attempt = IF s \in {"ack", "hide"} THEN 0 ELSE n]]

Goto(w, s) == GotoWith(w, s, job[w].attempt)

\* Receive: an ordered queue hands out nothing behind a hidden message.
Receive(w, e, d) ==
    /\ At(w, "idle")
    /\ queue[e][d].state = "visible"
    /\ MaxReceives > 0 => queue[e][d].receives < MaxReceives
    /\ Ordered => \A b \in 0..(d - 1) : queue[e][b].state # "hidden"
    /\ LET n == IF MaxReceives > 0 THEN queue[e][d].receives + 1 ELSE 0 IN
         /\ queue' = [queue EXCEPT ![e][d] = [state |-> "hidden", holder |-> w, receives |-> n]]
         /\ job' = [job EXCEPT ![w] = [NoJob EXCEPT !.at = "arrive", !.exec = e,
                                                    !.delivery = d, !.receives = n]]
    /\ fresh' = fresh \ {w}
    /\ UNCHANGED <<run, named, call, faults>>

\* Mutant: a message whose run someone else works is taken for done.
RedeliveryOfWaiting(r, n) == IF r.status \in Waiting THEN "hide" ELSE "ack"

\* redeliverUnlessUndeliverable: the queue is about to dead-letter the message,
\* which it handed out for the n-th time.
Redelivery(r, n) ==
    IF MaxReceives > 0 /\ n >= MaxReceives /\ r.status \in Waiting
    THEN "undeliverable" ELSE "hide"

\* admit: where the readiness of the record just read sends its deliverer.
Admission(r, d, n, ready) ==
    CASE Readiness(r, d) = "stale"     -> "ack"
      [] Readiness(r, d) = "runnable"  -> ready
      [] Readiness(r, d) = "expired"   -> "expire"
      [] Readiness(r, d) = "exhausted" -> "exhaust"
      [] Readiness(r, d) = "held"      -> "hide"
      [] Readiness(r, d) = "early"     ->
            IF Ordered /\ (ReceiptHandles \/ r.held # d) THEN "hold" ELSE Redelivery(r, n)

Admit(w, ready) ==
    LET e == job[w].exec
        next == Admission(run[e], job[w].delivery, job[w].receives, ready) IN
    /\ GotoWith(w, next, run[e].attempts)
    /\ fresh' = IF next \in {"ack", "hide"} THEN fresh \ {w} ELSE fresh \cup {w}
    /\ UNCHANGED run

\* arrive: the run the message names is read and judged.
Arrive(w) ==
    LET e == job[w].exec IN
    /\ At(w, "arrive")
    /\ \/ run[e].status # Absent /\ Admit(w, "slots")
       \/ /\ run[e].status = Absent
          /\ Goto(w, IF Task(e) \/ job[w].delivery # 0 THEN "ack" ELSE "create")
          /\ NoStoreCall
    /\ UNCHANGED <<queue, named, call, faults>>

\* runOfMessage: ExpiresAt is DueAt and the topic's TTL, which may have passed
\* before a message that is due arrives.
ExpiriesOnArrival(due) == IF Expiry = "ahead" /\ due = "come" THEN {"ahead", "past"} ELSE {Expiry}

\* arrive, for a published message no run was recorded for when it was read.
CreateOnArrival(w) ==
    LET e == job[w].exec IN
    /\ At(w, "create")
    /\ \/ /\ run[e].status = Absent
          /\ \E due \in Dues : \E expiry \in ExpiriesOnArrival(due) :
               /\ Put(e, w, NewRun(due, expiry))
               /\ GotoWith(w, Admission(NewRun(due, expiry), 0, job[w].receives, "slots"), 0)
       \/ run[e].status # Absent /\ Admit(w, "slots")
    /\ UNCHANGED <<queue, named, call, faults>>

\* A copy found stale is read again and judged again, until the retries of
\* RetryWhileStale run out or the run turns out to be gone.
AdmitAgain(w, ready) ==
    LET e == job[w].exec IN
    \/ run[e].status # Absent /\ Admit(w, ready)
    \/ Goto(w, "hide") /\ NoStoreCall

\* admit: the write of an early, expired or exhausted run.
AdmitWrite(w) ==
    LET e == job[w].exec
        d == job[w].delivery IN
    /\ job[w].at \in {"hold", "expire", "exhaust"}
    /\ \/ At(w, "hold") /\ Write(e, w, HeldBy(Copy(w), d))
                        /\ Goto(w, Redelivery(Copy(w), job[w].receives))
       \/ At(w, "expire")  /\ LastWrite(e, w, SettledAs(Copy(w), "expired")) /\ Goto(w, "ack")
       \/ At(w, "exhaust") /\ LastWrite(e, w, SettledAs(Copy(w), "failed"))  /\ Goto(w, "ack")
       \/ w \notin fresh /\ AdmitAgain(w, "slots")
    /\ UNCHANGED <<queue, named, call, faults>>

\* redeliverUnlessUndeliverable: one write, given up when it is stale.
FailUndeliverable(w) ==
    LET e == job[w].exec IN
    /\ At(w, "undeliverable")
    /\ \/ LastWrite(e, w, SettledAs(Copy(w), "failed")) /\ Goto(w, "ack")
       \/ w \notin fresh /\ Goto(w, "hide") /\ NoStoreCall
    /\ UNCHANGED <<queue, named, call, faults>>

\* takeSlots: the slots of consumer and worker are someone else's to give.
SlotsTaken(w) ==
    /\ At(w, "slots")
    /\ Goto(w, "claim")
    /\ UNCHANGED <<run, queue, named, call, fresh, faults>>

\* Without a slot the message goes back; the write that would fail a run on
\* its last receipt is refused over a stale copy, so that copy just goes back.
SlotsRefused(w) ==
    /\ At(w, "slots")
    /\ Goto(w, IF w \in fresh THEN Redelivery(Copy(w), job[w].receives) ELSE "hide")
    /\ UNCHANGED <<run, queue, named, call, fresh, faults>>

\* claim: the attempt is counted and leased in one write over the copy.
Claim(w) ==
    LET e == job[w].exec IN
    /\ At(w, "claim")
    /\ \/ /\ Write(e, w, Claimed(Copy(w)))
          /\ job' = [job EXCEPT ![w].at = "work", ![w].attempt = @ + 1]
       \/ w \notin fresh /\ AdmitAgain(w, "claim")
    /\ UNCHANGED <<queue, named, call, faults>>

Working(w) == job[w].at \in {"work", "finish"}

OwnsRun(w) == Owns(run[job[w].exec], job[w].delivery, job[w].attempt)

\* renewLease: written over the copy, or over a reread that is still owned.
RenewLease(w) ==
    LET e == job[w].exec IN
    /\ At(w, "work") /\ OwnsRun(w)
    /\ Put(e, w, Renewed(run[e]))
    /\ UNCHANGED <<queue, named, job, call, faults>>

\* keepLeases finds the claim lost, watchForCancel or stopInFlight finds the
\* run canceled or gone: the attempt is canceled, which settles nothing.
AttemptCanceled(w) ==
    /\ At(w, "work")
    /\ ~OwnsRun(w)
    /\ Goto(w, "ack")
    /\ UNCHANGED <<run, queue, named, call, fresh, faults>>

\* The worker answers, times out, or is cut off by a stopping engine.
Answered(w) ==
    /\ At(w, "work")
    /\ \E o \in Outcomes : job' = [job EXCEPT ![w].at = "finish", ![w].answer = o]
    /\ UNCHANGED <<run, queue, named, call, fresh, faults>>

\* finish: the outcome is written only over a run this attempt still owns.
Finish(w) ==
    LET e == job[w].exec
        judged == Judged(Copy(w), job[w].answer, job[w].attempt, Task(e)) IN
    /\ At(w, "finish")
    /\ \/ /\ LastWrite(e, w, judged)
          /\ Goto(w, IF judged.status = "queued" THEN "hide" ELSE "ack")
       \/ w \notin fresh /\ OwnsRun(w) /\ Read(w) /\ UNCHANGED job
       \/ w \notin fresh /\ ~OwnsRun(w) /\ Goto(w, "ack") /\ NoStoreCall
       \/ w \notin fresh /\ Goto(w, "hide") /\ NoStoreCall
    /\ UNCHANGED <<queue, named, call, faults>>

\* dispose: Ack deletes the message, Hide keeps it for another delivery.
Dispose(w) ==
    LET e == job[w].exec
        d == job[w].delivery IN
    /\ job[w].at \in {"ack", "hide"}
    /\ queue' = IF ~OnQueue(e, d) \/ ~HandleWorks(w, e, d) THEN queue
                ELSE IF At(w, "ack") THEN [queue EXCEPT ![e][d] = [NoMessage EXCEPT !.state = "acked"]]
                ELSE [queue EXCEPT ![e][d].state = "hidden"]
    /\ job' = [job EXCEPT ![w] = NoJob]
    /\ fresh' = fresh \ {w}
    /\ UNCHANGED <<run, named, call, faults>>

\* A store or slot call fails: the message goes back, and whether a write of
\* the failed call landed is not known.
CallFails(w) ==
    LET e == job[w].exec
        landed == CASE At(w, "hold")    -> HeldBy(Copy(w), job[w].delivery)
                    [] At(w, "expire")  -> SettledAs(Copy(w), "expired")
                    [] At(w, "exhaust") -> SettledAs(Copy(w), "failed")
                    [] At(w, "undeliverable") -> SettledAs(Copy(w), "failed")
                    [] At(w, "claim")   -> Claimed(Copy(w))
                    [] At(w, "finish")  -> Judged(Copy(w), job[w].answer, job[w].attempt, Task(e))
                    [] OTHER            -> run[e] IN
    /\ faults < MaxFaults
    /\ job[w].at \in JobStates \ {"idle", "work", "ack", "hide"}
    /\ Goto(w, "hide")
    /\ \/ NoStoreCall
       \/ landed # run[e] /\ LastWrite(e, w, landed)
    /\ faults' = faults + 1
    /\ UNCHANGED <<queue, named, call>>

\* The engine dies under a delivery, or its call to the queue is lost.
Crash(w) ==
    /\ faults < MaxFaults
    /\ ~At(w, "idle")
    /\ job' = [job EXCEPT ![w] = NoJob]
    /\ fresh' = fresh \ {w}
    /\ faults' = faults + 1
    /\ UNCHANGED <<run, queue, named, call>>

Deliver(w) ==
    \/ Arrive(w) \/ CreateOnArrival(w) \/ AdmitWrite(w) \/ FailUndeliverable(w)
    \/ SlotsTaken(w) \/ SlotsRefused(w) \/ Claim(w)
    \/ AttemptCanceled(w) \/ Answered(w) \/ Finish(w) \/ Dispose(w)

-----------------------------------------------------------------------------
(***************************************************************************)
(* Callers.                                                                *)
(***************************************************************************)
Calling(c, s) == call[c].at = s

\* A caller goes on: with its run, the delivery its message is to carry and
\* what it puts back should that message not go out.
Proceed(c, s, e, d, saved) ==
    call' = [call EXCEPT ![c] = [at |-> s, exec |-> e, delivery |-> d, saved |-> saved]]

Return(c) == call' = [call EXCEPT ![c] = NoCall] /\ fresh' = fresh \ {c}


\* DeleteRun and WriteRun over a copy that may have gone stale; a refusal is
\* an error to the caller and changes nothing.
WriteOrGiveUp(c, r) ==
    LET e == call[c].exec IN
    \/ LastWrite(e, c, r)
    \/ c \notin fresh /\ UNCHANGED <<run, fresh>>

\* newTaskRun and create: the record first, its message after.
Trigger(c, e) ==
    /\ Calling(c, "idle") /\ Task(e) /\ named[e] = 0
    /\ \E due \in Dues :
         /\ Put(e, c, NewRun(due, Expiry))
         /\ Proceed(c, "send", e, 0, NoRun)
    /\ named' = [named EXCEPT ![e] = 1]
    /\ UNCHANGED <<queue, job, faults>>

\* Topics.Send: a message and no run; its arrival makes the run.
Publish(c, e) ==
    /\ Calling(c, "idle") /\ ~Task(e) /\ named[e] = 0
    /\ \E due \in Dues : queue' = Sent(e, 0, due = "come")
    /\ named' = [named EXCEPT ![e] = 1]
    /\ UNCHANGED <<run, job, call, fresh, faults>>

\* send: the message of a run just created, moved or redriven; Release frees
\* the message an earlier delivery left hidden.
SendMessage(c) ==
    LET e == call[c].exec IN
    /\ call[c].at \in {"send", "sendMoved", "sendLetter"}
    /\ \E visible \in BOOLEAN :
         queue' = Released(Sent(e, call[c].delivery, visible), e, call[c].saved.held)
    /\ Return(c)
    /\ UNCHANGED <<run, named, job, faults>>

\* Queue.Send returns an error, with the message enqueued or not.
SendFails(c) ==
    LET e == call[c].exec
        undo == CASE Calling(c, "send") -> "drop"
                  [] OTHER -> "restore" IN
    /\ CallersFail
    /\ call[c].at \in {"send", "sendMoved", "sendLetter"}
    /\ call' = [call EXCEPT ![c].at = undo]
    /\ queue' \in {queue, Sent(e, call[c].delivery, TRUE)}
    /\ UNCHANGED <<run, named, job, fresh, faults>>

\* What send, reschedule and RedriveDeadLetters put back after a failed Send:
\* nothing in place of a run just created, else the record as it was.
Undo(c) ==
    /\ call[c].at \in {"drop", "restore"}
    /\ WriteOrGiveUp(c, call[c].saved)
    /\ call' = [call EXCEPT ![c] = NoCall]
    /\ UNCHANGED <<queue, named, job, faults>>

\* A cancel, reschedule, redrive or purge reads the run it is about.
Begin(c, e) ==
    /\ Calling(c, "idle")
    /\ \/ run[e].status \in Unfinished /\ Proceed(c, "cancel", e, 0, NoRun)
       \/ Task(e) /\ Movable(run[e]) /\ named[e] <= MaxDelivery /\ Proceed(c, "move", e, 0, NoRun)
       \/ ~Task(e) /\ run[e].status = "failed" /\ named[e] <= MaxDelivery
                   /\ Proceed(c, "redrive", e, 0, NoRun)
       \/ ~Task(e) /\ run[e].status = "failed" /\ Proceed(c, "purge", e, 0, NoRun)
    /\ Read(c)
    /\ UNCHANGED <<queue, named, job, faults>>

\* cancel: over an unfinished copy, read again while it is stale.
Cancel(c) ==
    LET e == call[c].exec IN
    /\ Calling(c, "cancel")
    /\ \/ /\ LastWrite(e, c, SettledAs(run[e], "canceled"))
          /\ queue' = Released(queue, e, run[e].held)
          /\ call' = [call EXCEPT ![c] = NoCall]
       \/ c \notin fresh /\ run[e].status \in Unfinished /\ Read(c) /\ UNCHANGED <<queue, call>>
       \/ c \notin fresh /\ Return(c) /\ UNCHANGED <<run, queue>>
    /\ UNCHANGED <<named, job, faults>>

\* reschedule: a delayed run gets a new time and a new delivery.
Reschedule(c) ==
    LET e == call[c].exec IN
    /\ Calling(c, "move")
    /\ \/ /\ Movable(run[e]) /\ named[e] <= MaxDelivery
          /\ \E due \in Dues : Write(e, c, Moved(run[e], named[e], due))
          /\ named' = [named EXCEPT ![e] = @ + 1]
          /\ Proceed(c, "sendMoved", e, named[e], run[e])
       \/ c \notin fresh /\ Movable(run[e]) /\ Read(c) /\ UNCHANGED <<named, call>>
       \/ Return(c) /\ UNCHANGED <<run, named>>
    /\ UNCHANGED <<queue, job, faults>>

\* RedriveDeadLetters: a stale letter is left to whoever changed it.
Redrive(c) ==
    LET e == call[c].exec IN
    /\ Calling(c, "redrive")
    /\ \/ /\ named[e] <= MaxDelivery
          /\ Write(e, c, Redriven(run[e], named[e]))
          /\ named' = [named EXCEPT ![e] = @ + 1]
          /\ Proceed(c, "sendLetter", e, named[e], run[e])
       \/ c \notin fresh /\ Return(c) /\ UNCHANGED <<run, named>>
       \/ named[e] > MaxDelivery /\ Return(c) /\ UNCHANGED <<run, named>>
    /\ UNCHANGED <<queue, job, faults>>

\* PurgeDeadLetters: DeleteRun over the letter as it was read.
Purge(c) ==
    /\ Calling(c, "purge")
    /\ WriteOrGiveUp(c, NoRun)
    /\ call' = [call EXCEPT ![c] = NoCall]
    /\ UNCHANGED <<queue, named, job, faults>>

\* The caller's process dies between two of its calls.
CallerCrash(c) ==
    /\ CallersFail
    /\ ~Calling(c, "idle")
    /\ Return(c)
    /\ UNCHANGED <<run, queue, named, job, faults>>

CallerStep(c) ==
    \/ SendMessage(c) \/ Undo(c) \/ Cancel(c) \/ Reschedule(c) \/ Redrive(c) \/ Purge(c)

-----------------------------------------------------------------------------
(***************************************************************************)
(* The queue's own steps and the passing of time.                          *)
(***************************************************************************)

BeingDelivered(e, d) ==
    \E w \in Deliverers : ~At(w, "idle") /\ job[w].exec = e /\ job[w].delivery = d

\* A hidden message comes back when its time has come; keepHidden keeps it
\* hidden while it is being delivered.
Reappear(e, d) ==
    /\ queue[e][d].state = "hidden" /\ ~BeingDelivered(e, d)
    /\ queue' = [queue EXCEPT ![e][d].state = "visible"]
    /\ UNCHANGED <<run, named, job, call, fresh, faults>>

\* keepHidden is late: the message comes back under its deliverer.
Overrun(e, d) ==
    /\ faults < MaxFaults
    /\ queue[e][d].state = "hidden" /\ BeingDelivered(e, d)
    /\ queue' = [queue EXCEPT ![e][d].state = "visible"]
    /\ faults' = faults + 1
    /\ UNCHANGED <<run, named, job, call, fresh>>

\* The queue delivers a message again that was acknowledged.
Duplicate(e, d) ==
    /\ faults < MaxFaults
    /\ queue[e][d].state = "acked"
    /\ queue' = Sent(e, d, TRUE)
    /\ faults' = faults + 1
    /\ UNCHANGED <<run, named, job, call, fresh>>

\* The queue drops a message it handed out as often as it is allowed to.
DeadLetter(e, d) ==
    /\ MaxReceives > 0
    /\ queue[e][d].state = "visible" /\ queue[e][d].receives >= MaxReceives
    /\ queue' = [queue EXCEPT ![e][d] = NoMessage]
    /\ UNCHANGED <<run, named, job, call, fresh, faults>>

Ages(e, r) ==
    /\ run' = [run EXCEPT ![e] = r]
    /\ UNCHANGED <<queue, named, job, call, fresh, faults>>

DueArrives(e) ==
    /\ run[e].status \in Waiting /\ run[e].due # "come"
    /\ Ages(e, [run[e] EXCEPT !.due = IF @ = "ahead" THEN "slack" ELSE "come"])

\* ExpiresAt is DueAt and the TTL, until a reschedule moves DueAt alone.
TtlPasses(e) ==
    /\ run[e].status \in Waiting /\ run[e].expiry = "ahead"
    /\ run[e].due = "come" \/ run[e].delivery # 0
    /\ Ages(e, [run[e] EXCEPT !.expiry = "past"])

\* The lease of a deliverer that died, or whose renewals are late.
LeaseLapses(e) ==
    /\ run[e].leased
    /\ LateRenewals \/ \A w \in Deliverers : ~(Working(w) /\ job[w].exec = e /\ OwnsRun(w))
    /\ Ages(e, [run[e] EXCEPT !.leased = FALSE])

-----------------------------------------------------------------------------
Next ==
    \/ \E w \in Deliverers :
         \/ \E e \in Executions, d \in Deliveries : Receive(w, e, d)
         \/ Deliver(w) \/ RenewLease(w) \/ CallFails(w) \/ Crash(w)
    \/ \E c \in Callers :
         \/ \E e \in Executions : Trigger(c, e) \/ Publish(c, e) \/ Begin(c, e)
         \/ CallerStep(c) \/ SendFails(c) \/ CallerCrash(c)
    \/ \E e \in Executions :
         \/ \E d \in Deliveries : Reappear(e, d) \/ Overrun(e, d) \/ Duplicate(e, d) \/ DeadLetter(e, d)
         \/ DueArrives(e) \/ TtlPasses(e) \/ LeaseLapses(e)

Spec == Init /\ [][Next]_vars

(***************************************************************************)
(* A deliverer at work and a caller in a call go on; some deliverer keeps  *)
(* polling the queue, slots come free, hidden messages come back and time  *)
(* passes.                                                                 *)
(***************************************************************************)
Fairness ==
    /\ \A w \in Deliverers : WF_vars(Deliver(w)) /\ SF_vars(SlotsTaken(w))
    /\ \A c \in Callers : WF_vars(CallerStep(c))
    /\ \A e \in Executions :
         /\ WF_vars(DueArrives(e)) /\ WF_vars(LeaseLapses(e))
         /\ \A d \in Deliveries :
              /\ WF_vars(Reappear(e, d))
              /\ SF_vars(\E w \in Deliverers : Receive(w, e, d))

FairSpec == Spec /\ Fairness

-----------------------------------------------------------------------------
(***************************************************************************)
(* What must hold.                                                         *)
(***************************************************************************)

\* Every variable keeps its type; no run is given more than MaxAttempts.
TypeOK ==
    /\ run \in [Executions -> Run]
    /\ queue \in [Executions -> [Deliveries -> Message]]
    /\ named \in [Executions -> 0..(MaxDelivery + 1)]
    /\ job \in [Deliverers -> Job]
    /\ call \in [Callers -> Call]
    /\ fresh \subseteq Deliverers \cup Callers
    /\ faults \in 0..MaxFaults

\* However often a message is delivered and however late leases are renewed,
\* at most one deliverer at work on a task run holds the attempt its record
\* names.  Two that judged the same record would count the same attempt; the
\* second claim is over a revision that is gone (deliver.go claim).
OneOwner ==
    \A v, w \in Deliverers :
        v # w /\ Working(v) /\ Working(w) /\ OwnsRun(v) /\ OwnsRun(w)
            => job[v].exec # job[w].exec \/ ~Task(job[w].exec)

Sending(c, e) == call[c].exec = e /\ call[c].at \in {"send", "sendMoved", "sendLetter"}

\* Two operators redriving the same dead letter send it once: the second write
\* is over a revision that is gone (topics.go RedriveDeadLetters).
OneLetterInFlight ==
    \A b, c \in Callers :
        b # c /\ Calling(b, "sendLetter") /\ Calling(c, "sendLetter")
            => call[b].exec # call[c].exec

\* A task run that is not settled can still be delivered: the message its
\* record names is on the queue, or its sender is about to send it
\* ("ocel redelivers a message until the run it started settles").
MessageKept ==
    \A e \in Tasks :
        run[e].status \in Unfinished =>
            OnQueue(e, run[e].delivery) \/ \E c \in Callers : Sending(c, e)

\* A settled run stays as it settled; only a failed topic run is redriven or
\* purged.  Late answers, expired copies and cancels change nothing.
SettledStays ==
    [][\A e \in Executions :
          run[e].status \in Settled =>
             \/ run'[e] = run[e]
             \/ ~Task(e) /\ run[e].status = "failed"]_vars

\* The steps of deliverer w that record the outcome of the attempt the run names.
OwnerJudges(w, e) ==
    /\ At(w, "finish") /\ job[w].exec = e /\ OwnsRun(w)
    /\ job'[w].at # "finish"
    /\ run'[e] = Judged(run[e], job[w].answer, job[w].attempt, Task(e))

\* The steps of caller c that cancel the run.
CallerCancels(c, e) ==
    /\ Calling(c, "cancel") /\ call[c].exec = e
    /\ call'[c].at # "cancel"
    /\ run'[e] = SettledAs(run[e], "canceled")

\* The step of deliverer w that claims the run, even one that leaves the record
\* as the claim before it did.
Claims(w, e) == At(w, "claim") /\ job[w].exec = e /\ job'[w].at = "work"

\* While an attempt's lease is ahead, nobody claims the run, and only its owner
\* recording its outcome, a caller canceling it or time taking the lease changes
\* its record: not a deliverer or a reschedule that judged the run before the
\* lease was taken (deliver.go claim, tasks.go reschedule).
LeaseRespected ==
    [][\A e \in Executions : Leased(run[e]) =>
          /\ \A w \in Deliverers : ~Claims(w, e)
          /\ run'[e] # run[e] =>
               \/ run'[e] = [run[e] EXCEPT !.leased = FALSE]
               \/ \E w \in Deliverers : OwnerJudges(w, e)
               \/ \E c \in Callers : CallerCancels(c, e)]_vars

\* No attempt starts before the time the run is due, not even when the run is
\* rescheduled between the judgement and the claim.
NoEarlyStart ==
    [][\A e \in Executions :
          run'[e].attempts > run[e].attempts => run[e].due # "ahead"]_vars

\* A message handed out for the last time is not dead-lettered while its run
\* waits: redeliverUnlessUndeliverable fails such a run first ("SQS
\* dead-letters after 1,000, so a run still waiting then ends failed").
DeadLetteredRunsEnded ==
    [][\A e \in Tasks, d \in Deliveries :
          DeadLetter(e, d) => run[e].status \notin Waiting \/ run[e].delivery # d]_vars

\* Every run that is recorded settles, whatever crashes and however often its
\* message comes back.
Settles ==
    \A e \in Executions : run[e].status \in Unfinished ~> run[e].status \notin Unfinished

\* No message is delivered for ever: each one is acknowledged in the end.
QueueDrains ==
    \A e \in Executions, d \in Deliveries : OnQueue(e, d) ~> ~OnQueue(e, d)
=============================================================================
