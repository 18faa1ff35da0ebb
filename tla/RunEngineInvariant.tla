------------------------- MODULE RunEngineInvariant -------------------------
(***************************************************************************)
(* Why the run engine keeps its promises: what each record, each copy that *)
(* is still current, each claim and each half-done call imply.  The        *)
(* conjunction is inductive; RunEngine_proofs proves it.                   *)
(***************************************************************************)
EXTENDS RunEngineRefinement

\* A record that was written by some sequence of the transitions.
RecordOK(r) ==
    /\ r.status = "executing" => r.attempts > 0
    /\ r.status = "delayed"   => r.attempts = 0
    /\ r.attempts > 0         => r.due # "ahead"
    /\ r.leased               => r.status = "executing"

RecordsOK ==
    \A e \in Executions :
        /\ RecordOK(run[e])
        /\ run[e].status # Absent => run[e].delivery < named[e]
        /\ run[e].status = Absent => run[e] = NoRun
        /\ e \in Tasks /\ named[e] = 0 => run[e] = NoRun

\* What a deliverer whose copy is current knows of the record: the delivery in
\* its hand is the record's, and it counts the attempts the record counts.
DelivererKnows(r, j) ==
    /\ j.at \in {"hold", "expire", "exhaust", "undeliverable", "slots", "claim"} =>
          r.delivery = j.delivery /\ r.attempts = j.attempt
    /\ j.at \in {"hold", "expire", "undeliverable"} => r.status \in Waiting
    /\ j.at = "expire" => r.attempts = 0
    /\ j.at \in {"exhaust", "slots", "claim"} => r.status \in Unfinished /\ ~Leased(r)
    /\ j.at \in {"slots", "claim"} =>
          r.attempts < MaxAttempts /\ r.due # "ahead"
    /\ j.at \in {"work", "finish"} => Owns(r, j.delivery, j.attempt)

CopiesOK ==
    \A w \in Deliverers : w \in fresh => DelivererKnows(run[job[w].exec], job[w])

\* What a caller whose copy is current knows of the record.
CallerKnows(r, k) ==
    /\ k.at \in {"send", "drop", "sendMoved", "sendLetter", "restore"} =>
          r.status \in Waiting /\ r.attempts = 0 /\ r.delivery = k.delivery
    /\ k.at \in {"sendLetter", "restore"} /\ k.saved.status = "failed" => r.due # "ahead"
    /\ k.at = "cancel" => r.status \in Unfinished
    /\ k.at = "move" => r.status # Absent
    /\ k.at \in {"redrive", "purge"} => r.status = "failed"

CallsKnow ==
    \A c \in Callers : c \in fresh => CallerKnows(run[call[c].exec], call[c])

\* What a caller may put back: nothing, or the record it moved or redrove.
PutsBack(k, task) ==
    /\ k.at \in {"send", "drop"} => task /\ k.saved = NoRun /\ k.delivery = 0
    /\ k.at \in {"move", "sendMoved"} => task
    /\ k.at \in {"redrive", "sendLetter", "purge"} => ~task
    /\ k.at \in {"sendMoved", "sendLetter", "restore"} =>
          /\ RecordOK(k.saved)
          /\ k.saved.delivery < k.delivery
          /\ k.saved.status = IF task THEN "delayed" ELSE "failed"
          /\ task => k.saved.due # "come"

CallsPutBack ==
    \A c \in Callers :
        /\ PutsBack(call[c], Task(call[c].exec))
        /\ call[c].at \in {"send", "drop", "sendMoved", "sendLetter", "restore"} =>
              call[c].delivery < named[call[c].exec]

\* A claim on a task run is one of the attempts its record counts, no two
\* deliverers hold the same one, and the delivery it came by is the record's.
ClaimsOK ==
    \A w \in Deliverers :
        Working(w) /\ Task(job[w].exec) =>
            /\ job[w].attempt > 0
            /\ job[w].attempt <= run[job[w].exec].attempts
            /\ job[w].delivery = run[job[w].exec].delivery
            /\ \A v \in Deliverers :
                  v # w /\ Working(v) /\ job[v].exec = job[w].exec => job[v].attempt # job[w].attempt

\* Every message, and every message in hand, is of a delivery that was named;
\* a run is made on arrival only for a published message.
MessagesOK ==
    /\ \A e \in Executions, d \in Deliveries : WasSent(e, d) => d < named[e]
    /\ \A w \in Deliverers :
          /\ ~At(w, "idle") => job[w].delivery < named[job[w].exec]
          /\ At(w, "create") => ~Task(job[w].exec) /\ job[w].delivery = 0

IInv == TypeOK /\ MessagesOK /\ RecordsOK /\ CopiesOK /\ CallsKnow /\ CallsPutBack /\ ClaimsOK
-----------------------------------------------------------------------------
(***************************************************************************)
(* What one letter in flight and one message kept rest on, each inductive  *)
(* beside IInv; RunEngineMessages_proofs proves it.                        *)
(***************************************************************************)

\* While a redriven letter is on its way nobody has its delivery in hand, so
\* nobody but a cancel writes its run, and no other caller would put it back.
OnItsWay(c, e, d) ==
    /\ run[e].delivery = d /\ run[e].status \in {"queued", "canceled"}
    /\ ~WasSent(e, d) /\ ~BeingDelivered(e, d)
    /\ \A b \in Callers :
          b # c /\ call[b].exec = e /\ call[b].at \in {"sendLetter", "restore"} =>
              call[b].delivery # d

LettersOK ==
    \A c \in Callers : Calling(c, "sendLetter") => OnItsWay(c, call[c].exec, call[c].delivery)

\* Where renewals are in time, a task run that is worked and not settled is
\* its worker's, lease and all.
Holds(w) == OwnsRun(w) /\ run[job[w].exec].leased

WorkersHold ==
    \A w \in Deliverers :
        Working(w) /\ Task(job[w].exec) /\ run[job[w].exec].status \in Unfinished => Holds(w)

\* A message of a task run is acknowledged only for good.
AcksAreDue ==
    \A w \in Deliverers :
        At(w, "ack") /\ Task(job[w].exec) /\ run[job[w].exec].status \in Unfinished =>
            run[job[w].exec].delivery # job[w].delivery

\* The message of a task run is on the queue, or whoever named its delivery
\* is about to send it; nothing is undone where no send fails.
Deliverable(e, d) ==
    OnQueue(e, d) \/ \E c \in Callers : Sending(c, e) /\ call[c].delivery = d

TasksDeliverable ==
    \A e \in Executions :
        Task(e) /\ run[e].status \in Unfinished => Deliverable(e, run[e].delivery)

NothingUndone == \A c \in Callers : call[c].at \notin {"drop", "restore"}
=============================================================================
