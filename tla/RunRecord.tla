------------------------------ MODULE RunRecord ------------------------------
(***************************************************************************)
(* The record of one run and the transitions a writer may apply to a copy  *)
(* of it: pkg/runs/run.go, status.go and transition.go.                    *)
(*                                                                         *)
(* Times are kept as what the code asks of them.  `due` says whether DueAt *)
(* is ahead, ahead but within dueSlack of now, or has come; `expiry`       *)
(* whether ExpiresAt is unset, ahead or past; `leased` whether LeaseUntil  *)
(* is still ahead.  `held` is the queue handle an early delivery left on   *)
(* the run.                                                                *)
(***************************************************************************)
EXTENDS Naturals

CONSTANTS
    MaxAttempts,    \* Run.MaxAttempts: the attempts a run is given
    MaxDelivery,    \* bound: deliveries are named 0..MaxDelivery
    NoHandle        \* the empty Held handle

ASSUME RunRecordAssumption ==
    /\ MaxAttempts \in Nat \ {0}
    /\ MaxDelivery \in Nat
    /\ NoHandle \notin Nat

Deliveries == 0..MaxDelivery

Waiting    == {"delayed", "queued"}
Unfinished == Waiting \cup {"executing"}
Settled    == {"completed", "failed", "canceled", "expired", "timed-out"}
Absent     == "absent"

Dues     == {"ahead", "slack", "come"}
Expiries == {"none", "ahead", "past"}

Run == [status   : Unfinished \cup Settled \cup {Absent},
        attempts : 0..MaxAttempts,
        delivery : Deliveries,
        due      : Dues,
        expiry   : Expiries,
        leased   : BOOLEAN,
        held     : Deliveries \cup {NoHandle}]

NoRun == [status |-> Absent, attempts |-> 0, delivery |-> 0, due |-> "ahead",
          expiry |-> "none", leased |-> FALSE, held |-> NoHandle]

WaitingFor(due) == IF due = "come" THEN "queued" ELSE "delayed"

NewRun(due, expiry) ==
    [status |-> WaitingFor(due), attempts |-> 0,
     delivery |-> 0, due |-> due, expiry |-> expiry, leased |-> FALSE,
     held |-> NoHandle]

(***************************************************************************)
(* readinessOf: the first case that applies, read from the record and the  *)
(* delivery the message in hand carries.                                   *)
(***************************************************************************)
\* Mutants: what the conditions below would be with a comparison dropped.
StaleByDelivery(r, d) == r.delivery # d
LeasedForever(r)      == r.status = "executing"
OutOfAttemptsLate(r)  == r.attempts > MaxAttempts
RedrivenInPlace(r, d) ==
    [r EXCEPT !.status = "queued", !.attempts = 0, !.due = "come",
              !.leased = FALSE, !.held = NoHandle]

Stale(r, d)   == r.status \notin Unfinished \/ r.delivery # d
Leased(r)     == r.status = "executing" /\ r.leased
Lapsed(r)     == r.status \in Waiting /\ r.attempts = 0 /\ r.expiry = "past"
Early(r)      == r.status \in Waiting /\ r.due = "ahead"
OutOfAttempts(r) == r.attempts >= MaxAttempts

Readiness(r, d) ==
    CASE Stale(r, d)      -> "stale"
      [] ~Stale(r, d) /\ Leased(r) -> "held"
      [] ~Stale(r, d) /\ Lapsed(r) -> "expired"
      [] ~Stale(r, d) /\ Early(r) /\ ~Lapsed(r) -> "early"
      [] ~Stale(r, d) /\ ~Leased(r) /\ ~Lapsed(r) /\ ~Early(r)
            /\ OutOfAttempts(r) -> "exhausted"
      [] OTHER            -> "runnable"

(***************************************************************************)
(* The record as each transition leaves it.                                *)
(***************************************************************************)
Claimed(r) == [r EXCEPT !.status = "executing", !.attempts = @ + 1,
                        !.leased = TRUE, !.held = NoHandle]

SettledAs(r, s) == [r EXCEPT !.status = s, !.leased = FALSE, !.held = NoHandle]

Requeued(r) == [r EXCEPT !.status = "queued", !.leased = FALSE]

Renewed(r) == [r EXCEPT !.leased = TRUE]

HeldBy(r, h) == [r EXCEPT !.held = h]

(***************************************************************************)
(* owns: the record still names the claim <<d, n>> of delivery d and       *)
(* attempt n as the attempt being worked.                                  *)
(***************************************************************************)
Owns(r, d, n) == r.status = "executing" /\ r.delivery = d /\ r.attempts = n

(***************************************************************************)
(* verdictOn: what an attempt's answer makes of the run that made it.  A   *)
(* cut off attempt is retried or fails as a failed one; a refused one fails *)
(* as an aborted one.                                                      *)
(***************************************************************************)
Outcomes == {"succeeded", "failed", "aborted", "timed-out"}

Verdict(outcome, n, task) ==
    CASE outcome = "succeeded" -> "completed"
      [] outcome = "aborted"   -> "failed"
      [] outcome = "timed-out" /\ task -> "timed-out"
      [] OTHER -> IF n >= MaxAttempts THEN "failed" ELSE "queued"

Judged(r, outcome, n, task) ==
    LET v == Verdict(outcome, n, task)
    IN  IF v = "queued" THEN Requeued(r) ELSE SettledAs(r, v)

(***************************************************************************)
(* statusAt: the status a reader is told, which is what a reschedule asks. *)
(***************************************************************************)
StatusAt(r) ==
    CASE Lapsed(r) -> "expired"
      [] r.status = "delayed" /\ r.due = "come" /\ ~Lapsed(r) -> "queued"
      [] OTHER -> r.status

Movable(r) == StatusAt(r) = "delayed"

\* A reschedule: a new time, a new delivery, nothing held.
Moved(r, d, due) ==
    [r EXCEPT !.status = WaitingFor(due), !.due = due,
              !.delivery = d, !.held = NoHandle]

\* A dead letter put back: every attempt given again under a new delivery.
Redriven(r, d) ==
    [r EXCEPT !.status = "queued", !.attempts = 0, !.due = "come",
              !.delivery = d, !.leased = FALSE, !.held = NoHandle]
==============================================================================
