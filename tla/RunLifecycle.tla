---------------------------- MODULE RunLifecycle ----------------------------
(***************************************************************************)
(* What the run engine promises of each run, whoever delivers, retries,    *)
(* cancels or moves it: the life of its record with no queue, no copies,   *)
(* no leases and no crashes.                                               *)
(***************************************************************************)
EXTENDS RunRecord

CONSTANTS
    Executions,     \* the runs there can be
    Tasks           \* those that are task runs

VARIABLE life       \* for each run its status, attempts, delivery and due

Fresh(r) == r.status \in Waiting /\ r.attempts = 0

Becomes(e, r) == life' = [life EXCEPT ![e] = r]

Init == life = [e \in Executions |->
                   [status |-> Absent, attempts |-> 0, delivery |-> 0, due |-> "ahead"]]

\* A run is recorded, waiting for its time or for a deliverer.
Create(e) ==
    /\ life[e].status = Absent
    /\ \E due \in Dues :
         Becomes(e, [status |-> WaitingFor(due), attempts |-> 0,
                     delivery |-> 0, due |-> due])

ComesDue(e) ==
    /\ life[e].status \in Waiting
    /\ life[e].due # "come"
    /\ Becomes(e, [life[e] EXCEPT !.due = IF @ = "ahead" THEN "slack" ELSE "come"])

\* An attempt starts: the run is due and has attempts left.
Start(e) ==
    /\ life[e].status \in Unfinished
    /\ life[e].due # "ahead"
    /\ life[e].attempts < MaxAttempts
    /\ Becomes(e, [life[e] EXCEPT !.status = "executing", !.attempts = @ + 1])

\* An attempt ends without settling the run.
Retry(e) ==
    /\ life[e].status = "executing"
    /\ life[e].attempts < MaxAttempts
    /\ Becomes(e, [life[e] EXCEPT !.status = "queued"])

\* The run settles: an attempt gave it an outcome, or it never needs another.
Settle(e) ==
    /\ life[e].status \in Unfinished
    /\ \E s \in Settled :
         /\ s \in {"completed", "timed-out"} => life[e].status = "executing"
         /\ s = "expired" => Fresh(life[e])
         /\ s = "timed-out" => e \in Tasks
         /\ Becomes(e, [life[e] EXCEPT !.status = s])

\* A delayed run is moved to another time under a delivery of its own.
Move(e) ==
    /\ life[e].status = "delayed" /\ life[e].due # "come"
    /\ \E d \in Deliveries, due \in Dues :
         /\ d > life[e].delivery
         /\ Becomes(e, [life[e] EXCEPT !.status = WaitingFor(due),
                                       !.delivery = d, !.due = due])

\* A dead letter is put back on its topic with every attempt given again.
Redrive(e) ==
    /\ e \notin Tasks /\ life[e].status = "failed"
    /\ \E d \in Deliveries :
         /\ d > life[e].delivery
         /\ Becomes(e, [status |-> "queued", attempts |-> 0, delivery |-> d, due |-> "come"])

\* A move or redrive whose message did not go out is undone, over a run that
\* no attempt has started since.
PutBack(e) ==
    /\ Fresh(life[e])
    /\ \E d \in Deliveries, s \in {"delayed", "failed"}, n \in 0..MaxAttempts, due \in Dues :
         /\ d < life[e].delivery
         /\ s = "delayed" => n = 0 /\ due # "come"
         /\ s = "failed" => e \notin Tasks
         /\ Becomes(e, [status |-> s, attempts |-> n, delivery |-> d, due |-> due])

\* A run nobody has started is withdrawn, or a dead letter purged.
Remove(e) ==
    /\ \/ e \in Tasks /\ Fresh(life[e]) /\ life[e].delivery = 0
       \/ e \notin Tasks /\ life[e].status = "failed"
    /\ Becomes(e, [status |-> Absent, attempts |-> 0, delivery |-> 0, due |-> "ahead"])

Next ==
    \E e \in Executions :
        \/ Create(e) \/ ComesDue(e) \/ Start(e) \/ Retry(e) \/ Settle(e)
        \/ Move(e) \/ Redrive(e) \/ PutBack(e) \/ Remove(e)

Spec == Init /\ [][Next]_life
=============================================================================
