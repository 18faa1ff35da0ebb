-------------------------- MODULE RunEngine_proofs --------------------------
(***************************************************************************)
(* The invariant of RunEngineInvariant is inductive, and with it the run   *)
(* engine keeps its promises for any number of runs, deliverers, callers,  *)
(* attempts, deliveries and faults.                                        *)
(***************************************************************************)
EXTENDS RunEngineInvariant, TLAPS

USE RunRecordAssumption, RunEngineAssumption DEF RunRecordAssumption, RunEngineAssumption

-----------------------------------------------------------------------------
(***************************************************************************)
(* Records.                                                                *)
(***************************************************************************)

\* A run just created is well formed.
LEMMA NewRunOK ==
    ASSUME NEW due \in Dues, NEW expiry \in Expiries
    PROVE  /\ NewRun(due, expiry) \in Run
           /\ RecordOK(NewRun(due, expiry))
           /\ NewRun(due, expiry).status \in Waiting
           /\ NewRun(due, expiry).attempts = 0
           /\ NewRun(due, expiry).delivery = 0
  BY DEF NewRun, Run, RecordOK, WaitingFor, Waiting, Unfinished, Settled, Dues,
         Expiries, Deliveries, Absent

LEMMA NoRunOK == NoRun \in Run /\ RecordOK(NoRun)
  BY DEF NoRun, Run, RecordOK, Absent, Dues, Expiries, Deliveries

\* A claim starts the next attempt of a run that is due and has one left.
LEMMA ClaimedOK ==
    ASSUME NEW r \in Run, r.attempts < MaxAttempts, r.due # "ahead"
    PROVE  /\ Claimed(r) \in Run
           /\ RecordOK(Claimed(r))
           /\ Owns(Claimed(r), r.delivery, r.attempts + 1)
           /\ Claimed(r).attempts = r.attempts + 1
           /\ Claimed(r).delivery = r.delivery
  <1>1. r.attempts + 1 \in 0..MaxAttempts /\ r.attempts \in Nat
    BY DEF Run
  <1>2. Claimed(r) \in Run
    BY <1>1 DEF Claimed, Run, Unfinished
  <1>3. /\ Claimed(r).status = "executing" /\ Claimed(r).attempts = r.attempts + 1
        /\ Claimed(r).delivery = r.delivery /\ Claimed(r).due = r.due
    BY DEF Claimed, Run
  <1> QED BY <1>1, <1>2, <1>3 DEF RecordOK, Owns

LEMMA SettledAsOK ==
    ASSUME NEW r \in Run, RecordOK(r), NEW s \in Settled
    PROVE  /\ SettledAs(r, s) \in Run
           /\ RecordOK(SettledAs(r, s))
           /\ SettledAs(r, s).status = s
           /\ SettledAs(r, s).attempts = r.attempts
           /\ SettledAs(r, s).delivery = r.delivery
  BY DEF SettledAs, Run, RecordOK, Settled, Unfinished, Waiting

LEMMA MovedOK ==
    ASSUME NEW r \in Run, NEW d \in Deliveries, NEW due \in Dues
    PROVE  Moved(r, d, due) \in Run
  <1>1. WaitingFor(due) \in Unfinished
    BY DEF WaitingFor, Unfinished, Waiting
  <1> QED BY <1>1 DEF Moved, Run

LEMMA RedrivenOK ==
    ASSUME NEW r \in Run, NEW d \in Deliveries
    PROVE  Redriven(r, d) \in Run
  <1> DEFINE a == [r EXCEPT !.status = "queued", !.attempts = 0]
             b == [a EXCEPT !.due = "come", !.delivery = d]
  <1>1. a \in Run
    <2>1. "queued" \in Unfinished /\ 0 \in 0..MaxAttempts
      BY DEF Unfinished, Waiting
    <2> QED BY <2>1 DEF Run
  <1>2. b \in Run
    <2> HIDE DEF a
    <2> QED BY <1>1 DEF Run, Dues
  <1>3. Redriven(r, d) = [b EXCEPT !.leased = FALSE, !.held = NoHandle]
    BY DEF Redriven
  <1> HIDE DEF b
  <1> QED BY <1>2, <1>3 DEF Run

\* The verdict on an attempt settles its run or queues it again.
LEMMA JudgedOK ==
    ASSUME NEW r \in Run, RecordOK(r), r.status = "executing",
           NEW o, NEW n \in 0..MaxAttempts, NEW task \in BOOLEAN
    PROVE  /\ Judged(r, o, n, task) \in Run
           /\ RecordOK(Judged(r, o, n, task))
           /\ Judged(r, o, n, task).status \in Settled \cup {"queued"}
           /\ Judged(r, o, n, task).status = "expired" => FALSE
           /\ Judged(r, o, n, task).attempts = r.attempts
           /\ Judged(r, o, n, task).delivery = r.delivery
  <1>1. Verdict(o, n, task) \in {"completed", "failed", "timed-out", "queued"}
    BY DEF Verdict, Outcomes
  <1>2. CASE Verdict(o, n, task) = "queued"
    BY <1>2 DEF Judged, Requeued, Run, RecordOK, Unfinished, Waiting
  <1>3. CASE Verdict(o, n, task) # "queued"
    BY <1>1, <1>3, SettledAsOK DEF Judged, Settled
  <1> QED BY <1>2, <1>3

-----------------------------------------------------------------------------
(***************************************************************************)
(* Steps.  Whoever takes it, a step is a write of one record by one actor, *)
(* after which no other copy of that record is current.                    *)
(***************************************************************************)

\* a replaces the record of e, or leaves the store alone.
Replaces(e, a, r) ==
    /\ run' = [run EXCEPT ![e] = r]
    /\ \/ fresh' \subseteq (fresh \ Holders(e)) \cup {a}
       \/ r = run[e] /\ fresh' \subseteq fresh \cup {a}

\* Copies the step did not make stale tell their holders what they told before.
LEMMA OtherDelivererKnows ==
    ASSUME TypeOK, CopiesOK, NEW e \in Executions, NEW a, NEW r, Replaces(e, a, r),
           NEW v \in Deliverers, v # a, v \in fresh', job'[v] = job[v]
    PROVE  DelivererKnows(run'[job'[v].exec], job'[v])
  <1>1. v \in fresh /\ job[v].exec \in Executions
    BY DEF Replaces, TypeOK, Job
  <1>2. DelivererKnows(run[job[v].exec], job[v])
    BY <1>1 DEF CopiesOK
  <1>3. run'[job[v].exec] = run[job[v].exec]
    <2>1. CASE job[v].exec = e
      BY <2>1, <1>1 DEF Replaces, Holders, TypeOK
    <2>2. CASE job[v].exec # e
      BY <2>2, <1>1 DEF Replaces, TypeOK
    <2> QED BY <2>1, <2>2
  <1> QED BY <1>2, <1>3

LEMMA OtherCallerKnows ==
    ASSUME TypeOK, CallsKnow, NEW e \in Executions, NEW a, NEW r, Replaces(e, a, r),
           NEW c \in Callers, c # a, c \in fresh', call'[c] = call[c]
    PROVE  CallerKnows(run'[call'[c].exec], call'[c])
  <1>1. c \in fresh /\ call[c].exec \in Executions
    BY DEF Replaces, TypeOK, Call
  <1>2. CallerKnows(run[call[c].exec], call[c])
    BY <1>1 DEF CallsKnow
  <1>3. run'[call[c].exec] = run[call[c].exec]
    <2>1. CASE call[c].exec = e
      BY <2>1, <1>1 DEF Replaces, Holders, TypeOK
    <2>2. CASE call[c].exec # e
      BY <2>2, <1>1 DEF Replaces, TypeOK
    <2> QED BY <2>1, <2>2
  <1> QED BY <1>2, <1>3

\* A step of the deliverer w, whatever it is at: what it must establish for
\* the invariant to hold after it.
LEMMA DelivererStep ==
    ASSUME IInv, NEW w \in Deliverers, NEW r, NEW j \in Job,
           Replaces(job[w].exec, w, r), fresh' \subseteq Deliverers \cup Callers,
           job' = [job EXCEPT ![w] = j], j.exec = job[w].exec,
           r \in Run, RecordOK(r), r.status = Absent => r = NoRun,
           r.delivery = run[job[w].exec].delivery \/ run[job[w].exec] = NoRun,
           r.status # Absent => r.delivery < named[job[w].exec],
           Task(job[w].exec) => /\ named[job[w].exec] = 0 => r = NoRun
                                /\ r.attempts >= run[job[w].exec].attempts
                                /\ r.delivery = run[job[w].exec].delivery,
           w \in fresh' => DelivererKnows(r, j),
           j.at # "idle" => j.delivery < named[job[w].exec],
           j.at = "create" => ~Task(job[w].exec) /\ j.delivery = 0,
           j.at \in {"work", "finish"} /\ Task(job[w].exec) =>
               \/ Working(w) /\ j.attempt = job[w].attempt /\ j.delivery = job[w].delivery
               \/ /\ j.attempt = run[job[w].exec].attempts + 1 /\ j.attempt = r.attempts
                  /\ j.delivery = r.delivery,
           queue' \in [Executions -> [Deliveries -> Message]],
           \A e \in Executions, d \in Deliveries : WasSent(e, d)' => d < named[e],
           named' = named, call' = call, faults' \in 0..MaxFaults
    PROVE  IInv'
  <1> DEFINE e == job[w].exec
  <1>0. e \in Executions /\ w \notin Callers
    BY DEF IInv, TypeOK, Job
  <1>1. TypeOK'
    BY <1>0 DEF IInv, TypeOK, Replaces
  <1>2. MessagesOK'
    BY <1>0 DEF IInv, MessagesOK, TypeOK, At, Task
  <1>3. RecordsOK'
    BY <1>0 DEF IInv, RecordsOK, TypeOK, Replaces, Task
  <1>4. CopiesOK'
    <2> SUFFICES ASSUME NEW v \in Deliverers, v \in fresh'
                 PROVE  DelivererKnows(run'[job'[v].exec], job'[v])
      BY DEF CopiesOK
    <2>1. CASE v = w
      BY <2>1, <1>0 DEF IInv, TypeOK, Replaces
    <2>2. CASE v # w
      <3>1. job'[v] = job[v]
        BY <2>2 DEF IInv, TypeOK
      <3> QED BY <2>2, <3>1, <1>0, OtherDelivererKnows DEF IInv
    <2> QED BY <2>1, <2>2
  <1>5. CallsKnow'
    <2> SUFFICES ASSUME NEW c \in Callers, c \in fresh'
                 PROVE  CallerKnows(run'[call'[c].exec], call'[c])
      BY DEF CallsKnow
    <2>1. c # w /\ call'[c] = call[c]
      BY <1>0
    <2> QED BY <2>1, <1>0, OtherCallerKnows DEF IInv
  <1>6. CallsPutBack'
    BY DEF IInv, CallsPutBack
  <1>7. ClaimsOK'
    <2> SUFFICES ASSUME NEW v \in Deliverers, Working(v)', Task(job'[v].exec)
                 PROVE  /\ job'[v].attempt > 0
                        /\ job'[v].attempt <= run'[job'[v].exec].attempts
                        /\ job'[v].delivery = run'[job'[v].exec].delivery
                        /\ \A u \in Deliverers :
                              u # v /\ Working(u)' /\ job'[u].exec = job'[v].exec
                                  => job'[u].attempt # job'[v].attempt
      BY DEF ClaimsOK, Task
    <2>1. \A u \in Deliverers : u # w => job'[u] = job[u] /\ Working(u)' = Working(u)
      BY DEF IInv, TypeOK, Working
    <2>2. job'[w] = j /\ run'[e] = r /\ (\A x \in Executions : x # e => run'[x] = run[x])
      BY <1>0 DEF IInv, TypeOK, Replaces
    <2>3. \A u \in Deliverers : /\ job[u].attempt \in Nat /\ job[u].exec \in Executions
                                /\ run[job[u].exec].attempts \in Nat
      BY DEF IInv, TypeOK, Job, Run
    <2>4. r.attempts \in Nat /\ j.attempt \in Nat
      BY DEF Run, Job
    <2>5. \A u \in Deliverers : Working(u) /\ Task(job[u].exec) =>
            /\ job[u].attempt > 0
            /\ job[u].attempt <= run[job[u].exec].attempts
            /\ job[u].delivery = run[job[u].exec].delivery
            /\ \A x \in Deliverers :
                  x # u /\ Working(x) /\ job[x].exec = job[u].exec
                      => job[x].attempt # job[u].attempt
      BY DEF IInv, ClaimsOK
    <2>6. CASE v = w
      <3>1. j.at \in {"work", "finish"} /\ Task(e)
        BY <2>6, <2>2 DEF Working
      <3>2. CASE Working(w) /\ j.attempt = job[w].attempt /\ j.delivery = job[w].delivery
        BY <3>1, <3>2, <2>1, <2>2, <2>3, <2>4, <2>5, <2>6
      <3>3. CASE j.attempt = run[e].attempts + 1 /\ j.attempt = r.attempts /\ j.delivery = r.delivery
        BY <3>1, <3>3, <2>1, <2>2, <2>3, <2>4, <2>5, <2>6
      <3> QED BY <3>1, <3>2, <3>3
    <2>7. CASE v # w
      <3>1. Working(v) /\ Task(job[v].exec) /\ job'[v] = job[v]
        BY <2>7, <2>1
      <3>2. run[job[v].exec].attempts <= run'[job[v].exec].attempts
            /\ run[job[v].exec].delivery = run'[job[v].exec].delivery
        BY <3>1, <2>2, <2>3, <2>4
      <3>3. ASSUME NEW u \in Deliverers, u # v, Working(u)', job'[u].exec = job[v].exec
            PROVE  job'[u].attempt # job[v].attempt
        <4>1. CASE u # w
          BY <4>1, <3>1, <3>3, <2>1, <2>5
        <4>2. CASE u = w
          <5>1. j.at \in {"work", "finish"} /\ Task(e) /\ job[v].exec = e
            BY <4>2, <3>1, <3>3, <2>2 DEF Working
          <5>2. CASE Working(w) /\ j.attempt = job[w].attempt /\ j.delivery = job[w].delivery
            BY <5>1, <5>2, <4>2, <3>1, <3>3, <2>2, <2>5
          <5>3. CASE j.attempt = run[e].attempts + 1 /\ j.attempt = r.attempts
            BY <5>1, <5>3, <4>2, <3>1, <2>2, <2>3, <2>5
          <5> QED BY <5>1, <5>2, <5>3
        <4> QED BY <4>1, <4>2
      <3> QED BY <3>1, <3>2, <3>3, <2>3, <2>4, <2>5, <2>2
    <2> QED BY <2>6, <2>7
  <1> QED BY <1>1, <1>2, <1>3, <1>4, <1>5, <1>6, <1>7 DEF IInv

\* A deliverer takes up a message or puts one down: it has no copy.
LEMMA DelivererPauses ==
    ASSUME IInv, NEW w \in Deliverers, NEW j \in Job, j.at \in {"idle", "arrive"},
           job' = [job EXCEPT ![w] = j], j.at # "idle" => j.delivery < named[j.exec],
           queue' \in [Executions -> [Deliveries -> Message]],
           \A e \in Executions, d \in Deliveries : WasSent(e, d)' => d < named[e],
           fresh' = fresh \ {w}, faults' \in 0..MaxFaults,
           run' = run, named' = named, call' = call
    PROVE  IInv'
  <1>0. \A v \in Deliverers : v # w => job'[v] = job[v] /\ Working(v)' = Working(v)
    BY DEF IInv, TypeOK, Working
  <1>00. job'[w] = j /\ ~Working(w)'
    BY DEF IInv, TypeOK, Working
  <1>1. TypeOK'
    BY DEF IInv, TypeOK
  <1>2. MessagesOK'
    BY <1>0, <1>00 DEF IInv, MessagesOK, At, Task
  <1>3. RecordsOK' /\ CallsKnow' /\ CallsPutBack'
    BY DEF IInv, RecordsOK, CallsKnow, CallsPutBack, Task
  <1>4. CopiesOK'
    BY <1>0 DEF IInv, CopiesOK
  <1>5. ClaimsOK'
    BY <1>0, <1>00 DEF IInv, ClaimsOK, Task
  <1> QED BY <1>1, <1>2, <1>3, <1>4, <1>5 DEF IInv

\* A step of the caller c over the record of e.
LEMMA CallerMoves ==
    ASSUME IInv, NEW c \in Callers, NEW e \in Executions, NEW r \in Run, NEW k \in Call,
           NEW n \in 0..(MaxDelivery + 1), n >= named[e],
           Replaces(e, c, r), fresh' \subseteq Deliverers \cup Callers,
           call' = [call EXCEPT ![c] = k], k.at = "idle" \/ k.exec = e,
           named' = [named EXCEPT ![e] = n],
           RecordOK(r), r.status = Absent => r = NoRun,
           r.status # Absent => r.delivery < n, Task(e) /\ n = 0 => r = NoRun,
           c \in fresh' /\ k.at # "idle" => CallerKnows(r, k),
           PutsBack(k, Task(k.exec)),
           k.at \in {"send", "drop", "sendMoved", "sendLetter", "restore"} => k.delivery < n,
           \A w \in Deliverers : Working(w) /\ job[w].exec = e /\ Task(e) =>
               r.attempts >= run[e].attempts /\ r.delivery = run[e].delivery,
           queue' \in [Executions -> [Deliveries -> Message]],
           \A x \in Executions, d \in Deliveries : WasSent(x, d)' => d < named'[x],
           job' = job, faults' = faults
    PROVE  IInv'
  <1>0. c \notin Deliverers
    BY DEF IInv
  <1>00. /\ run'[e] = r /\ \A x \in Executions : x # e => run'[x] = run[x]
         /\ named'[e] = n /\ \A x \in Executions : named'[x] >= named[x] /\ named[x] \in Nat
         /\ call'[c] = k /\ \A b \in Callers : b # c => call'[b] = call[b]
    BY DEF IInv, TypeOK, Replaces
  <1>1. TypeOK'
    BY DEF IInv, TypeOK, Replaces
  <1>2. MessagesOK'
    <2>1. \A w \in Deliverers : job[w].exec \in Executions /\ job[w].delivery \in Nat
      BY DEF IInv, TypeOK, Job, Deliveries
    <2>2. \A x \in Executions : named'[x] \in Nat
      BY <1>1 DEF TypeOK
    <2> QED BY <2>1, <2>2, <1>00 DEF IInv, MessagesOK, At, Task
  <1>3. RecordsOK'
    <2>1. \A x \in Executions : run[x].delivery \in Nat /\ named'[x] \in Nat
      BY <1>1 DEF IInv, TypeOK, Run, Deliveries
    <2> SUFFICES ASSUME NEW x \in Executions
                 PROVE  /\ RecordOK(run'[x])
                        /\ run'[x].status # Absent => run'[x].delivery < named'[x]
                        /\ run'[x].status = Absent => run'[x] = NoRun
                        /\ x \in Tasks /\ named'[x] = 0 => run'[x] = NoRun
      BY DEF RecordsOK
    <2>2. CASE x = e
      BY <2>2, <1>00 DEF Task
    <2>3. CASE x # e
      BY <2>3, <2>1, <1>00 DEF IInv, RecordsOK
    <2> QED BY <2>2, <2>3
  <1>4. CopiesOK'
    BY <1>0, OtherDelivererKnows DEF IInv, CopiesOK
  <1>5. CallsKnow'
    <2> SUFFICES ASSUME NEW b \in Callers, b \in fresh'
                 PROVE  CallerKnows(run'[call'[b].exec], call'[b])
      BY DEF CallsKnow
    <2>1. CASE b = c
      BY <2>1, <1>00 DEF CallerKnows
    <2>2. CASE b # c
      BY <2>2, <1>00, OtherCallerKnows DEF IInv
    <2> QED BY <2>1, <2>2
  <1>6. CallsPutBack'
    <2> SUFFICES ASSUME NEW b \in Callers
                 PROVE  /\ PutsBack(call'[b], Task(call'[b].exec))
                        /\ call'[b].at \in {"send", "drop", "sendMoved", "sendLetter", "restore"}
                              => call'[b].delivery < named'[call'[b].exec]
      BY DEF CallsPutBack, Task
    <2>1. CASE b = c
      BY <2>1, <1>00
    <2>2. CASE b # c
      <3>1. call[b].exec \in Executions /\ call[b].delivery \in Nat /\ named'[call[b].exec] \in Nat
        BY <1>1 DEF IInv, TypeOK, Call, Deliveries
      <3> QED BY <2>2, <3>1, <1>00 DEF IInv, CallsPutBack
    <2> QED BY <2>1, <2>2
  <1>7. ClaimsOK'
    <2>1. \A w \in Deliverers : /\ Working(w)' = Working(w) /\ job[w].exec \in Executions
                                /\ job[w].attempt \in Nat /\ run[job[w].exec].attempts \in Nat
      BY DEF IInv, TypeOK, Job, Run, Working
    <2>2. r.attempts \in Nat
      BY DEF Run
    <2>3. \A w \in Deliverers : Working(w) /\ Task(job[w].exec) =>
            /\ run[job[w].exec].attempts <= run'[job[w].exec].attempts
            /\ run'[job[w].exec].attempts \in Nat
            /\ run'[job[w].exec].delivery = run[job[w].exec].delivery
      BY <1>00, <2>1, <2>2
    <2> QED BY <2>1, <2>3 DEF IInv, ClaimsOK, Task
  <1> QED BY <1>1, <1>2, <1>3, <1>4, <1>5, <1>6, <1>7 DEF IInv

\* Time, the queue and its mishaps make no copy stale and change nothing a
\* copy was read for.
LEMMA TimePasses ==
    ASSUME IInv, NEW e \in Executions, NEW r \in Run, run' = [run EXCEPT ![e] = r],
           r.status = run[e].status, r.attempts = run[e].attempts,
           r.delivery = run[e].delivery, RecordOK(r), r.leased => run[e].leased,
           run[e].due # "ahead" => r.due # "ahead", r.status = Absent => r = run[e],
           named[e] = 0 /\ Task(e) => r = run[e],
           queue' \in [Executions -> [Deliveries -> Message]],
           \A x \in Executions, d \in Deliveries : WasSent(x, d)' => d < named[x],
           fresh' = fresh, job' = job, call' = call, named' = named, faults' \in 0..MaxFaults
    PROVE  IInv'
  <1>0. run'[e] = r /\ \A x \in Executions : x # e => run'[x] = run[x]
    BY DEF IInv, TypeOK
  <1>1. TypeOK'
    BY DEF IInv, TypeOK
  <1>2. MessagesOK'
    BY DEF IInv, MessagesOK, At, Task
  <1>3. RecordsOK'
    BY <1>0 DEF IInv, RecordsOK, Task
  <1>4. CopiesOK'
    <2> SUFFICES ASSUME NEW w \in Deliverers, w \in fresh
                 PROVE  DelivererKnows(run'[job[w].exec], job[w])
      BY DEF CopiesOK
    <2>1. DelivererKnows(run[job[w].exec], job[w]) /\ job[w].exec \in Executions
      BY DEF IInv, CopiesOK, TypeOK, Job
    <2>2. DelivererKnows(run[e], job[w]) => DelivererKnows(r, job[w])
      BY DEF DelivererKnows, Leased, Owns
    <2> QED BY <2>1, <2>2, <1>0
  <1>5. CallsKnow'
    <2> SUFFICES ASSUME NEW c \in Callers, c \in fresh
                 PROVE  CallerKnows(run'[call[c].exec], call[c])
      BY DEF CallsKnow
    <2>1. CallerKnows(run[call[c].exec], call[c]) /\ call[c].exec \in Executions
      BY DEF IInv, CallsKnow, TypeOK, Call
    <2>2. CallerKnows(run[e], call[c]) => CallerKnows(r, call[c])
      BY DEF CallerKnows
    <2> QED BY <2>1, <2>2, <1>0
  <1>6. CallsPutBack'
    BY DEF IInv, CallsPutBack, Task
  <1>7. ClaimsOK'
    <2>1. \A x \in Executions : run'[x].attempts = run[x].attempts /\ run'[x].delivery = run[x].delivery
      BY <1>0
    <2>2. \A w \in Deliverers : Working(w)' = Working(w) /\ job[w].exec \in Executions
      BY DEF IInv, TypeOK, Job, Working
    <2> QED BY <2>1, <2>2 DEF IInv, ClaimsOK, Task
  <1> QED BY <1>1, <1>2, <1>3, <1>4, <1>5, <1>6, <1>7 DEF IInv

-----------------------------------------------------------------------------
(***************************************************************************)
(* The invariant holds at first and is kept by every step.                 *)
(***************************************************************************)

\* What a deliverer may assume of its message and its run.
LEMMA InHand ==
    ASSUME IInv, NEW w \in Deliverers
    PROVE  /\ job[w] \in Job /\ job[w].exec \in Executions
           /\ job[w].delivery \in Deliveries /\ job[w].attempt \in 0..MaxAttempts
           /\ run[job[w].exec] \in Run /\ RecordOK(run[job[w].exec])
           /\ run[job[w].exec].status = Absent => run[job[w].exec] = NoRun
           /\ run[job[w].exec].status # Absent =>
                run[job[w].exec].delivery < named[job[w].exec]
           /\ Task(job[w].exec) /\ named[job[w].exec] = 0 => run[job[w].exec] = NoRun
           /\ ~At(w, "idle") => job[w].delivery < named[job[w].exec]
           /\ At(w, "create") => ~Task(job[w].exec) /\ job[w].delivery = 0
           /\ w \in fresh => DelivererKnows(run[job[w].exec], job[w])
           /\ queue \in [Executions -> [Deliveries -> Message]]
           /\ \A e \in Executions, d \in Deliveries : WasSent(e, d) => d < named[e]
           /\ fresh \subseteq Deliverers \cup Callers /\ faults \in 0..MaxFaults
           /\ run[job[w].exec].attempts \in Nat /\ job \in [Deliverers -> Job]
           /\ run \in [Executions -> Run]
  BY DEF IInv, TypeOK, Job, Run, RecordsOK, MessagesOK, CopiesOK, Task

LEMMA NoJobOK == NoJob \in Job
  BY DEF NoJob, Job, JobStates, Deliveries, SomeExecution

LEMMA NoCallOK == NoCall \in Call /\ \A t \in BOOLEAN : PutsBack(NoCall, t)
  BY NoRunOK DEF NoCall, Call, CallStates, Deliveries, SomeExecution, PutsBack

LEMMA InitIInv == Init => IInv
  <1> SUFFICES ASSUME Init PROVE IInv
    OBVIOUS
  <1>1. TypeOK
    BY NoRunOK, NoJobOK, NoCallOK
       DEF Init, TypeOK, NoMessage, Message, Deliveries
  <1>2. MessagesOK /\ RecordsOK
    BY NoRunOK DEF Init, MessagesOK, RecordsOK, WasSent, NoMessage, At, NoJob, NoRun, Absent
  <1>3. CopiesOK /\ CallsKnow /\ ClaimsOK
    BY DEF Init, CopiesOK, CallsKnow, ClaimsOK, Working, NoJob
  <1>4. CallsPutBack
    BY DEF Init, CallsPutBack, PutsBack, NoCall, Task
  <1> QED BY <1>1, <1>2, <1>3, <1>4 DEF IInv

\* The copy of a job, if it still has one, counts n attempts.
Counts(j, n) == j.at \notin {"ack", "hide"} => j.attempt = n

\* What GotoWith makes of a job.
LEMMA GotoOK ==
    ASSUME IInv, NEW w \in Deliverers, NEW s \in JobStates \ {"idle"}, ~At(w, "idle"),
           NEW n \in 0..MaxAttempts, GotoWith(w, s, n)
    PROVE  \E j \in Job : /\ j.at = s /\ j.exec = job[w].exec /\ j.delivery = job[w].delivery
                          /\ Counts(j, n)
                          /\ j.delivery < named[job[w].exec]
                          /\ job' = [job EXCEPT ![w] = j]
  <1> DEFINE m == IF s \in {"ack", "hide"} THEN 0 ELSE n
             j == [NoJob EXCEPT !.at = s, !.exec = job[w].exec, !.delivery = job[w].delivery,
                                !.receives = job[w].receives, !.attempt = m]
  <1>0. m \in 0..MaxAttempts /\ (s \notin {"ack", "hide"} => m = n) /\ job[w].receives \in Nat
    BY InHand DEF Job
  <1>2. job' = [job EXCEPT ![w] = j] /\ job[w].delivery < named[job[w].exec]
    BY InHand DEF GotoWith
  <1> HIDE DEF m
  <1>1. /\ j \in Job /\ j.at = s /\ j.exec = job[w].exec /\ j.delivery = job[w].delivery
        /\ Counts(j, n)
    BY <1>0, NoJobOK, InHand DEF NoJob, Job, Counts
  <1> HIDE DEF j
  <1> QED BY <1>1, <1>2

\* A record read and judged is known to be what its admission asks.
LEMMA AdmissionKnows ==
    ASSUME NEW r \in Run, NEW d \in Deliveries, NEW n \in Nat, NEW ready \in {"slots", "claim"},
           RecordOK(r)
    PROVE  /\ Admission(r, d, n, ready) \in
                {"ack", "hide", "hold", "expire", "exhaust", "undeliverable", ready}
           /\ \A j \in Job :
                j.at = Admission(r, d, n, ready) /\ j.delivery = d /\ Counts(j, r.attempts)
                    => DelivererKnows(r, j)
  <1> DEFINE next == Admission(r, d, n, ready)
  <1>0. /\ Readiness(r, d) \in {"stale", "held", "expired", "early", "exhausted", "runnable"}
        /\ Readiness(r, d) = "expired" => r.status \in Waiting /\ r.attempts = 0
        /\ Readiness(r, d) = "early" => r.status \in Waiting
        /\ Readiness(r, d) # "stale" => r.delivery = d
        /\ Readiness(r, d) = "exhausted" =>
             r.status \in Unfinished /\ ~Leased(r)
        /\ Readiness(r, d) = "runnable" =>
             /\ r.status \in Unfinished /\ ~Leased(r) /\ r.delivery = d
             /\ r.attempts < MaxAttempts
             /\ r.status \in Waiting => r.due # "ahead"
    BY DEF Readiness, Stale, Lapsed, Early, OutOfAttempts, Run
  <1>1. CASE Readiness(r, d) \in {"stale", "held", "expired", "exhausted"}
    BY <1>0, <1>1 DEF Admission, DelivererKnows, Counts
  <1>2. CASE Readiness(r, d) = "early"
    <2>1. next \in {"hold", "hide", "undeliverable"}
      BY <1>2 DEF Admission, Redelivery
    <2> QED BY <2>1, <1>0, <1>2 DEF DelivererKnows, Counts
  <1>3. CASE Readiness(r, d) = "runnable"
    <2>1. r.due # "ahead"
      BY <1>0, <1>3 DEF Unfinished, RecordOK
    <2> QED BY <2>1, <1>0, <1>3 DEF Admission, DelivererKnows, Counts
  <1> QED BY <1>0, <1>1, <1>2, <1>3

\* A deliverer goes on without a write, with a copy that tells what it should.
LEMMA GoesOn ==
    ASSUME IInv, NEW w \in Deliverers, NEW s \in JobStates \ {"idle", "work", "finish"},
           NEW n \in 0..MaxAttempts,
           ~At(w, "idle"), GotoWith(w, s, n), fresh' \subseteq fresh \cup {w},
           s = "create" => ~Task(job[w].exec) /\ job[w].delivery = 0,
           w \in fresh' => \A j \in Job :
               j.at = s /\ j.delivery = job[w].delivery /\ j.exec = job[w].exec /\ Counts(j, n)
                   => DelivererKnows(run[job[w].exec], j),
           run' = run, faults' \in 0..MaxFaults, UNCHANGED <<queue, named, call>>
    PROVE  IInv'
  <1> DEFINE r == run[job[w].exec]
  <1>1. PICK j \in Job : /\ j.at = s /\ j.exec = job[w].exec /\ j.delivery = job[w].delivery
                         /\ Counts(j, n)
                         /\ j.delivery < named[job[w].exec]
                         /\ job' = [job EXCEPT ![w] = j]
    BY GotoOK
  <1>2. Replaces(job[w].exec, w, r) /\ fresh' \subseteq Deliverers \cup Callers
    BY InHand DEF Replaces
  <1>3. /\ queue' \in [Executions -> [Deliveries -> Message]]
        /\ \A e \in Executions, d \in Deliveries : WasSent(e, d)' => d < named[e]
    BY InHand DEF WasSent
  <1>4. r \in Run /\ RecordOK(r) /\ (r.status = Absent => r = NoRun)
        /\ (r.status # Absent => r.delivery < named[job[w].exec])
        /\ (Task(job[w].exec) /\ named[job[w].exec] = 0 => r = NoRun)
        /\ r.attempts >= r.attempts
    BY InHand
  <1>5. w \in fresh' => DelivererKnows(r, j)
    BY <1>1
  <1>6. named' = named /\ call' = call
    OBVIOUS
  <1> HIDE DEF r
  <1>7. /\ j.at \notin {"work", "finish"} /\ (j.at # "idle" => j.delivery < named[job[w].exec])
        /\ j.at = "create" => ~Task(job[w].exec) /\ j.delivery = 0
    BY <1>1
  <1> QED BY <1>1, <1>2, <1>3, <1>4, <1>5, <1>6, <1>7, DelivererStep DEF r

\* The deliverer writes its record over a copy that is current and goes on.
LEMMA WritesAndGoesOn ==
    ASSUME IInv, NEW w \in Deliverers,
           NEW s \in JobStates \ {"idle", "work", "finish", "create"},
           NEW r \in Run, NEW n \in 0..MaxAttempts,
           ~At(w, "idle"), GotoWith(w, s, n), run' = [run EXCEPT ![job[w].exec] = r],
           fresh' \subseteq (fresh \ Holders(job[w].exec)) \cup {w},
           RecordOK(r), r.status # Absent, run[job[w].exec].status # Absent,
           r.attempts = run[job[w].exec].attempts, r.delivery = run[job[w].exec].delivery,
           w \in fresh' => \A j \in Job :
               j.at = s /\ j.delivery = job[w].delivery /\ Counts(j, n) => DelivererKnows(r, j),
           faults' \in 0..MaxFaults, UNCHANGED <<queue, named, call>>
    PROVE  IInv'
  <1>1. PICK j \in Job : /\ j.at = s /\ j.exec = job[w].exec /\ j.delivery = job[w].delivery
                         /\ Counts(j, n)
                         /\ j.delivery < named[job[w].exec]
                         /\ job' = [job EXCEPT ![w] = j]
    BY GotoOK
  <1>2. Replaces(job[w].exec, w, r) /\ fresh' \subseteq Deliverers \cup Callers
    BY InHand DEF Replaces
  <1>3. /\ queue' \in [Executions -> [Deliveries -> Message]]
        /\ \A e \in Executions, d \in Deliveries : WasSent(e, d)' => d < named[e]
    BY InHand DEF WasSent
  <1>4. /\ r.delivery < named[job[w].exec] /\ r.attempts >= run[job[w].exec].attempts
        /\ named[job[w].exec] = 0 /\ Task(job[w].exec) => FALSE
    BY InHand DEF NoRun
  <1>5. w \in fresh' => DelivererKnows(r, j)
    BY <1>1
  <1>7. j.at \notin {"work", "finish", "create"}
        /\ (j.at # "idle" => j.delivery < named[job[w].exec]) /\ named' = named /\ call' = call
    BY <1>1
  <1> QED BY <1>1, <1>2, <1>3, <1>4, <1>5, <1>7, DelivererStep

LEMMA AdmitKeeps ==
    ASSUME IInv, NEW w \in Deliverers, NEW ready \in {"slots", "claim"},
           ~At(w, "idle"), Admit(w, ready), UNCHANGED <<queue, named, call, faults>>
    PROVE  IInv'
  <1> DEFINE e == job[w].exec
             next == Admission(run[e], job[w].delivery, job[w].receives, ready)
  <1>1. GotoWith(w, next, run[e].attempts) /\ run' = run /\ fresh' \subseteq fresh \cup {w} /\ faults' \in 0..MaxFaults
    BY InHand DEF Admit
  <1>2. /\ next \in JobStates \ {"idle", "work", "finish", "create"}
        /\ \A j \in Job :
             j.at = next /\ j.delivery = job[w].delivery /\ Counts(j, run[e].attempts)
                 => DelivererKnows(run[e], j)
        /\ run[e].attempts \in 0..MaxAttempts
    <2>0. job[w].receives \in Nat /\ run[e].attempts \in 0..MaxAttempts
      BY InHand DEF Job, Run
    <2>1. /\ next \in {"ack", "hide", "hold", "expire", "exhaust", "undeliverable", ready}
          /\ \A j \in Job :
             j.at = next /\ j.delivery = job[w].delivery /\ Counts(j, run[e].attempts)
                 => DelivererKnows(run[e], j)
      BY <2>0, InHand, AdmissionKnows
    <2> HIDE DEF next
    <2> QED BY <2>0, <2>1 DEF JobStates
  <1> HIDE DEF next
  <1> QED BY <1>1, <1>2, GoesOn

LEMMA AdmitAgainKeeps ==
    ASSUME IInv, NEW w \in Deliverers, NEW ready \in {"slots", "claim"},
           ~At(w, "idle"), w \notin fresh, AdmitAgain(w, ready),
           UNCHANGED <<queue, named, call, faults>>
    PROVE  IInv'
  <1>1. CASE Admit(w, ready)
    BY <1>1, AdmitKeeps
  <1>2. CASE Goto(w, "hide") /\ NoStoreCall
    BY <1>2, GoesOn, InHand DEF NoStoreCall, JobStates, Goto
  <1> QED BY <1>1, <1>2 DEF AdmitAgain

\* Putting a message back or away asks nothing of a copy.
LEMMA PutsAway ==
    ASSUME IInv, NEW w \in Deliverers, NEW s \in {"ack", "hide", "create"}, ~At(w, "idle"),
           s = "create" => ~Task(job[w].exec) /\ job[w].delivery = 0,
           Goto(w, s), NoStoreCall, faults' \in 0..MaxFaults, UNCHANGED <<queue, named, call>>
    PROVE  IInv'
  <1>1. \A j, r : j.at = s => DelivererKnows(r, j)
    BY DEF DelivererKnows
  <1> QED BY <1>1, GoesOn, InHand DEF NoStoreCall, JobStates, Goto

\* A run is settled, or queued again, over a copy that is current.
LEMMA WritesLast ==
    ASSUME IInv, NEW w \in Deliverers, NEW s \in {"ack", "hide"}, NEW r \in Run, ~At(w, "idle"),
           run[job[w].exec].status \in Unfinished,
           LastWrite(job[w].exec, w, r), Goto(w, s), RecordOK(r),
           r.status # Absent, r.attempts = run[job[w].exec].attempts,
           r.delivery = run[job[w].exec].delivery,
           faults' \in 0..MaxFaults, UNCHANGED <<queue, named, call>>
    PROVE  IInv'
  <1>1. run[job[w].exec].status # Absent
    BY DEF Unfinished, Waiting, Absent
  <1>2. /\ run' = [run EXCEPT ![job[w].exec] = r]
        /\ fresh' \subseteq (fresh \ Holders(job[w].exec)) \cup {w}
    BY DEF LastWrite
  <1>3. \A j : j.at = s => DelivererKnows(r, j)
    BY DEF DelivererKnows
  <1> QED BY <1>1, <1>2, <1>3, InHand, WritesAndGoesOn DEF JobStates, Goto

(***************************************************************************)
(* A copy whose revision is current is the record: what a deliverer writes *)
(* over it, it makes of the record.                                        *)
(***************************************************************************)
CopyStates == {"hold", "expire", "exhaust", "undeliverable", "slots", "claim", "finish"}

LEMMA CopyIsRun ==
    ASSUME IInv, NEW w \in Deliverers, w \in fresh, job[w].at \in CopyStates
    PROVE  Copy(w) = run[job[w].exec]
  <1>1. run[job[w].exec].attempts = job[w].attempt /\ run[job[w].exec].delivery = job[w].delivery
    BY InHand DEF CopyStates, DelivererKnows, Owns
  <1>2. run[job[w].exec] \in Run
    BY InHand
  <1> QED BY <1>1, <1>2 DEF Copy, Run

\* Each write of a deliverer, restated over the record.
LEMMA AdmitWriteOver ==
    ASSUME IInv, NEW w \in Deliverers, AdmitWrite(w)
    PROVE  LET e == job[w].exec
               d == job[w].delivery
               r == run[e] IN
           \/ At(w, "hold") /\ Write(e, w, HeldBy(r, d)) /\ Goto(w, Redelivery(r, job[w].receives))
           \/ At(w, "expire")  /\ LastWrite(e, w, SettledAs(r, "expired")) /\ Goto(w, "ack")
           \/ At(w, "exhaust") /\ LastWrite(e, w, SettledAs(r, "failed"))  /\ Goto(w, "ack")
           \/ w \notin fresh /\ AdmitAgain(w, "slots")
  <1>1. w \in fresh => Copy(w) = run[job[w].exec]
    BY CopyIsRun DEF AdmitWrite, CopyStates
  <1>2. CASE w \in fresh
    BY <1>1, <1>2 DEF AdmitWrite
  <1>3. CASE w \notin fresh
    BY <1>3 DEF AdmitWrite, Write, LastWrite
  <1> QED BY <1>2, <1>3

LEMMA FailUndeliverableOver ==
    ASSUME IInv, NEW w \in Deliverers, FailUndeliverable(w)
    PROVE  LET e == job[w].exec IN
           \/ LastWrite(e, w, SettledAs(run[e], "failed")) /\ Goto(w, "ack")
           \/ w \notin fresh /\ Goto(w, "hide") /\ NoStoreCall
  <1>1. w \in fresh => Copy(w) = run[job[w].exec]
    BY CopyIsRun DEF FailUndeliverable, At, CopyStates
  <1> QED BY <1>1 DEF FailUndeliverable, LastWrite

LEMMA SlotsRefusedOver ==
    ASSUME IInv, NEW w \in Deliverers, SlotsRefused(w)
    PROVE  \/ w \in fresh /\ Goto(w, Redelivery(run[job[w].exec], job[w].receives))
           \/ Goto(w, "hide")
  <1>1. w \in fresh => Copy(w) = run[job[w].exec]
    BY CopyIsRun DEF SlotsRefused, At, CopyStates
  <1> QED BY <1>1 DEF SlotsRefused

LEMMA ClaimOver ==
    ASSUME IInv, NEW w \in Deliverers, Claim(w)
    PROVE  LET e == job[w].exec IN
           \/ /\ Write(e, w, Claimed(run[e])) /\ job[w].attempt = run[e].attempts
              /\ job' = [job EXCEPT ![w].at = "work", ![w].attempt = run[e].attempts + 1]
           \/ w \notin fresh /\ AdmitAgain(w, "claim")
  <1>1. w \in fresh => Copy(w) = run[job[w].exec]
    BY CopyIsRun DEF Claim, At, CopyStates
  <1>2. w \in fresh => job[w].attempt = run[job[w].exec].attempts
    BY InHand DEF Claim, At, DelivererKnows
  <1>3. [job EXCEPT ![w].at = "work", ![w].attempt = @ + 1] =
        [job EXCEPT ![w].at = "work", ![w].attempt = job[w].attempt + 1]
    BY InHand DEF Job
  <1> QED BY <1>1, <1>2, <1>3 DEF Claim, Write

LEMMA FinishOver ==
    ASSUME IInv, NEW w \in Deliverers, Finish(w)
    PROVE  LET e == job[w].exec
               judged == Judged(run[e], job[w].answer, job[w].attempt, Task(e)) IN
           \/ LastWrite(e, w, judged) /\ Goto(w, IF judged.status = "queued" THEN "hide" ELSE "ack")
           \/ w \notin fresh /\ OwnsRun(w) /\ Read(w) /\ UNCHANGED job
           \/ w \notin fresh /\ ~OwnsRun(w) /\ Goto(w, "ack") /\ NoStoreCall
           \/ w \notin fresh /\ Goto(w, "hide") /\ NoStoreCall
  <1>1. w \in fresh => Copy(w) = run[job[w].exec]
    BY CopyIsRun DEF Finish, At, CopyStates
  <1>2. CASE w \in fresh
    BY <1>1, <1>2 DEF Finish
  <1>3. CASE w \notin fresh
    BY <1>3 DEF Finish, LastWrite
  <1> QED BY <1>2, <1>3

LEMMA CallFailsOver ==
    ASSUME IInv, NEW w \in Deliverers, CallFails(w)
    PROVE  LET e == job[w].exec
               r == run[e] IN
           \/ NoStoreCall
           \/ At(w, "hold")   /\ LastWrite(e, w, HeldBy(r, job[w].delivery))
           \/ At(w, "expire") /\ LastWrite(e, w, SettledAs(r, "expired"))
           \/ job[w].at \in {"exhaust", "undeliverable"} /\ LastWrite(e, w, SettledAs(r, "failed"))
           \/ At(w, "claim")  /\ LastWrite(e, w, Claimed(r))
           \/ At(w, "finish")
                /\ LastWrite(e, w, Judged(r, job[w].answer, job[w].attempt, Task(e)))
  <1>1. w \in fresh /\ job[w].at \in CopyStates => Copy(w) = run[job[w].exec]
    BY CopyIsRun
  <1>2. CASE w \in fresh /\ job[w].at \in CopyStates
    BY <1>1, <1>2 DEF CallFails, At, CopyStates
  <1>3. CASE w \notin fresh
    BY <1>3 DEF CallFails, LastWrite
  <1>4. CASE job[w].at \notin CopyStates
    BY <1>4 DEF CallFails, At, CopyStates
  <1> QED BY <1>2, <1>3, <1>4

LEMMA ReceiveKeeps ==
    ASSUME IInv, NEW w \in Deliverers, NEW e \in Executions, NEW d \in Deliveries,
           Receive(w, e, d)
    PROVE  IInv'
  <1> DEFINE n == IF MaxReceives > 0 THEN queue[e][d].receives + 1 ELSE 0
             j == [NoJob EXCEPT !.at = "arrive", !.exec = e, !.delivery = d, !.receives = n]
  <1>0. n \in Nat
    BY InHand DEF Message
  <1>2. d < named[e]
    BY InHand DEF Receive, WasSent
  <1>3. /\ queue' \in [Executions -> [Deliveries -> Message]]
        /\ \A x \in Executions, b \in Deliveries : WasSent(x, b)' => WasSent(x, b)
    <2>1. queue' = [queue EXCEPT ![e][d] = [state |-> "hidden", holder |-> w, receives |-> n]]
      BY DEF Receive
    <2>2. queue[e][d].state = "visible"
      BY DEF Receive
    <2> HIDE DEF n
    <2>3. [state |-> "hidden", holder |-> w, receives |-> n] \in Message
      BY <1>0 DEF Message
    <2> QED BY <2>1, <2>2, <2>3, InHand DEF WasSent
  <1>4. \A x \in Executions, b \in Deliveries : WasSent(x, b)' => b < named[x]
    BY <1>3, InHand
  <1>5. job' = [job EXCEPT ![w] = j] /\ faults' \in 0..MaxFaults /\ fresh' = fresh \ {w}
        /\ run' = run /\ named' = named /\ call' = call
    BY InHand DEF Receive
  <1> HIDE DEF n
  <1>1. j \in Job /\ j.at = "arrive" /\ j.delivery = d /\ j.exec = e
    BY <1>0, NoJobOK DEF NoJob, Job, JobStates
  <1> HIDE DEF j
  <1> QED BY <1>1, <1>2, <1>3, <1>4, <1>5, DelivererPauses

LEMMA ArriveKeeps ==
    ASSUME IInv, NEW w \in Deliverers, Arrive(w)
    PROVE  IInv'
  <1>1. ~At(w, "idle") /\ UNCHANGED <<queue, named, call, faults>> /\ faults' \in 0..MaxFaults
    BY InHand DEF Arrive, At
  <1>2. CASE Admit(w, "slots")
    BY <1>1, <1>2, AdmitKeeps
  <1>3. CASE NoStoreCall /\ Goto(w, "ack")
    BY <1>1, <1>3, PutsAway
  <1>4. CASE /\ NoStoreCall /\ Goto(w, "create")
             /\ ~Task(job[w].exec) /\ job[w].delivery = 0
    BY <1>1, <1>4, PutsAway
  <1> QED BY <1>2, <1>3, <1>4 DEF Arrive

LEMMA CreateOnArrivalKeeps ==
    ASSUME IInv, NEW w \in Deliverers, CreateOnArrival(w)
    PROVE  IInv'
  <1> DEFINE e == job[w].exec
  <1>1. ~At(w, "idle") /\ UNCHANGED <<queue, named, call, faults>> /\ faults' \in 0..MaxFaults
    BY InHand DEF CreateOnArrival, At
  <1>2. CASE Admit(w, "slots")
    BY <1>1, <1>2, AdmitKeeps
  <1>3. ASSUME NEW due \in Dues, NEW expiry \in ExpiriesOnArrival(due),
               run[e].status = Absent, Put(e, w, NewRun(due, expiry)),
               GotoWith(w, Admission(NewRun(due, expiry), 0, job[w].receives, "slots"), 0)
        PROVE  IInv'
    <2> DEFINE r == NewRun(due, expiry)
               next == Admission(r, 0, job[w].receives, "slots")
    <2>0. expiry \in Expiries /\ job[w].receives \in Nat /\ 0 \in 0..MaxAttempts
      BY InHand DEF ExpiriesOnArrival, Expiries, Job
    <2>1. r \in Run /\ RecordOK(r) /\ r.status \in Waiting /\ r.attempts = 0 /\ r.delivery = 0
      BY <2>0, NewRunOK
    <2>2. run[e] = NoRun
      BY <1>3, InHand
    <2>3. /\ next \in JobStates \ {"idle", "work", "finish"}
          /\ next # "create"
          /\ \A k \in Job :
                k.at = next /\ k.delivery = 0 /\ Counts(k, 0) => DelivererKnows(r, k)
      <3>1. 0 \in Deliveries
        BY DEF Deliveries
      <3>2. /\ next \in {"ack", "hide", "hold", "expire", "exhaust", "undeliverable", "slots"}
            /\ \A k \in Job :
                k.at = next /\ k.delivery = 0 /\ Counts(k, 0) => DelivererKnows(r, k)
        BY <2>0, <2>1, <3>1, AdmissionKnows
      <3> HIDE DEF next
      <3> QED BY <3>2 DEF JobStates
    <2>4. ~Task(e) /\ job[w].delivery = 0
      BY InHand DEF CreateOnArrival
    <2>7. PICK j \in Job : /\ j.at = next /\ j.exec = e /\ j.delivery = 0
                           /\ Counts(j, 0)
                           /\ j.delivery < named[e] /\ job' = [job EXCEPT ![w] = j]
      <3>1. next \in JobStates \ {"idle"} /\ GotoWith(w, next, 0)
        BY <1>3, <2>3
      <3> HIDE DEF next
      <3> QED BY <1>1, <2>0, <2>4, <3>1, GotoOK
    <2>5. /\ Replaces(e, w, r) /\ fresh' \subseteq Deliverers \cup Callers
          /\ queue' \in [Executions -> [Deliveries -> Message]]
          /\ \A x \in Executions, d \in Deliveries : WasSent(x, d)' => d < named[x]
          /\ named' = named /\ call' = call
      BY <1>1, <1>3, InHand DEF Replaces, Put, WasSent
    <2>6. DelivererKnows(r, j) /\ r.status # Absent /\ r.delivery < named[e]
      BY <2>1, <2>3, <2>7 DEF Waiting, Absent
    <2> HIDE DEF r, next
    <2> QED BY <1>1, <2>1, <2>2, <2>3, <2>4, <2>7, <2>5, <2>6, DelivererStep
  <1> QED BY <1>2, <1>3 DEF CreateOnArrival

LEMMA AdmitWriteKeeps ==
    ASSUME IInv, NEW w \in Deliverers, AdmitWrite(w)
    PROVE  IInv'
  <1> DEFINE e == job[w].exec
             d == job[w].delivery
             r == run[e]
  <1>1. ~At(w, "idle") /\ UNCHANGED <<queue, named, call, faults>> /\ faults' \in 0..MaxFaults
    BY InHand DEF AdmitWrite, At
  <1>2. CASE At(w, "hold") /\ Write(e, w, HeldBy(r, d)) /\ Goto(w, Redelivery(r, job[w].receives))
    <2> DEFINE next == Redelivery(r, job[w].receives)
    <2>1. /\ r.status \in Waiting /\ r \in Run /\ RecordOK(r)
          /\ r.delivery = d /\ r.attempts = job[w].attempt
      BY <1>2, InHand DEF Write, DelivererKnows, At
    <2>2. /\ HeldBy(r, d) \in Run /\ RecordOK(HeldBy(r, d))
          /\ HeldBy(r, d).status = r.status /\ HeldBy(r, d).attempts = r.attempts
          /\ HeldBy(r, d).delivery = r.delivery /\ r.status # Absent
      BY <2>1, InHand DEF HeldBy, Run, RecordOK, Waiting, Absent
    <2>3. next \in {"hide", "undeliverable"}
      BY DEF Redelivery
    <2> HIDE DEF next
    <2>4. \A j \in Job : j.at = next /\ j.delivery = d /\ Counts(j, job[w].attempt)
                            => DelivererKnows(HeldBy(r, d), j)
      BY <2>1, <2>2, <2>3 DEF DelivererKnows, Counts
    <2>5. next \in JobStates \ {"idle", "work", "finish", "create"}
      BY <2>3 DEF JobStates
    <2>6. /\ GotoWith(w, next, job[w].attempt) /\ job[w].attempt \in 0..MaxAttempts
          /\ run' = [run EXCEPT ![e] = HeldBy(r, d)]
          /\ fresh' \subseteq (fresh \ Holders(e)) \cup {w}
      BY <1>2, InHand DEF Write, Put, Goto, next
    <2> QED BY <1>1, <2>2, <2>4, <2>5, <2>6, WritesAndGoesOn
  <1>3. ASSUME NEW s \in Settled, LastWrite(e, w, SettledAs(r, s)), Goto(w, "ack"),
               r.status \in Unfinished
        PROVE  IInv'
    BY <1>1, <1>3, SettledAsOK, InHand, WritesLast DEF Settled, Absent
  <1>4. CASE At(w, "expire") /\ LastWrite(e, w, SettledAs(r, "expired")) /\ Goto(w, "ack")
    <2>1. r.status \in Unfinished
      BY <1>4, InHand DEF LastWrite, DelivererKnows, At, Unfinished
    <2> QED BY <1>3, <1>4, <2>1 DEF Settled
  <1>5. CASE At(w, "exhaust") /\ LastWrite(e, w, SettledAs(r, "failed")) /\ Goto(w, "ack")
    <2>1. r.status \in Unfinished
      BY <1>5, InHand DEF LastWrite, DelivererKnows, At, Unfinished
    <2> QED BY <1>3, <1>5, <2>1 DEF Settled
  <1>6. CASE w \notin fresh /\ AdmitAgain(w, "slots")
    BY <1>1, <1>6, AdmitAgainKeeps
  <1> QED BY <1>2, <1>4, <1>5, <1>6, AdmitWriteOver

LEMMA FailUndeliverableKeeps ==
    ASSUME IInv, NEW w \in Deliverers, FailUndeliverable(w)
    PROVE  IInv'
  <1> DEFINE r == run[job[w].exec]
  <1>1. ~At(w, "idle") /\ UNCHANGED <<queue, named, call, faults>> /\ faults' \in 0..MaxFaults
    BY InHand DEF FailUndeliverable, At
  <1>2. CASE LastWrite(job[w].exec, w, SettledAs(r, "failed")) /\ Goto(w, "ack")
    <2>1. r.status \in Unfinished
      BY <1>2, InHand DEF FailUndeliverable, LastWrite, DelivererKnows, At, Unfinished
    <2> QED BY <1>1, <1>2, <2>1, SettledAsOK, InHand, WritesLast DEF Settled, Absent
  <1>3. CASE Goto(w, "hide") /\ NoStoreCall
    BY <1>1, <1>3, PutsAway
  <1> QED BY <1>2, <1>3, FailUndeliverableOver

LEMMA SlotsKeep ==
    ASSUME IInv, NEW w \in Deliverers, SlotsTaken(w) \/ SlotsRefused(w)
    PROVE  IInv'
  <1> DEFINE e == job[w].exec
             d == job[w].delivery
  <1>1. /\ At(w, "slots") /\ ~At(w, "idle") /\ fresh' \subseteq fresh \cup {w} /\ run' = run
        /\ faults' \in 0..MaxFaults /\ UNCHANGED <<queue, named, call>>
    BY InHand DEF SlotsTaken, SlotsRefused, At
  <1>2. w \in fresh' => DelivererKnows(run[e], job[w])
    BY InHand DEF SlotsTaken, SlotsRefused
  <1>0. job[w].attempt \in 0..MaxAttempts
    BY InHand
  <1>3. ASSUME NEW s \in {"claim", "hide", "undeliverable"}, Goto(w, s),
               s = "undeliverable" => run[e].status \in Waiting
        PROVE  IInv'
    <2>1. w \in fresh' =>
            \A j \in Job : j.at = s /\ j.delivery = d /\ Counts(j, job[w].attempt)
                              => DelivererKnows(run[e], j)
      BY <1>1, <1>2, <1>3 DEF DelivererKnows, At, Counts
    <2>2. GotoWith(w, s, job[w].attempt) /\ s \in JobStates \ {"idle", "work", "finish", "create"}
      BY <1>3 DEF Goto, JobStates
    <2> QED BY <1>0, <1>1, <2>1, <2>2, GoesOn
  <1>4. CASE SlotsTaken(w)
    BY <1>3, <1>4 DEF SlotsTaken
  <1>5. CASE SlotsRefused(w)
    BY <1>3, <1>5, SlotsRefusedOver DEF Redelivery
  <1> QED BY <1>4, <1>5

\* A claim is taken by one deliverer, over the record it judged.
LEMMA ClaimKeeps ==
    ASSUME IInv, NEW w \in Deliverers, Claim(w)
    PROVE  IInv'
  <1> DEFINE e == job[w].exec
             r == Claimed(run[e])
             j == [job[w] EXCEPT !.at = "work", !.attempt = run[e].attempts + 1]
  <1>1. /\ At(w, "claim") /\ ~At(w, "idle") /\ UNCHANGED <<queue, named, call, faults>>
        /\ faults' \in 0..MaxFaults
    BY InHand DEF Claim, At
  <1>2. CASE w \notin fresh /\ AdmitAgain(w, "claim")
    BY <1>1, <1>2, AdmitAgainKeeps
  <1>3. CASE /\ Write(e, w, r)
             /\ job' = [job EXCEPT ![w].at = "work", ![w].attempt = run[e].attempts + 1]
    <2>1. /\ run[e].status \in Unfinished /\ run[e].delivery = job[w].delivery
          /\ run[e].attempts < MaxAttempts /\ run[e].due # "ahead"
      BY <1>1, <1>3, InHand DEF Write, DelivererKnows, At
    <2>2. /\ r \in Run /\ RecordOK(r) /\ Owns(r, run[e].delivery, run[e].attempts + 1)
          /\ r.attempts = run[e].attempts + 1 /\ r.delivery = run[e].delivery
      BY <2>1, InHand, ClaimedOK
    <2>3. /\ j \in Job /\ j.exec = e /\ j.delivery = job[w].delivery /\ j.at = "work"
          /\ j.attempt = run[e].attempts + 1 /\ job' = [job EXCEPT ![w] = j]
      <3>1. run[e].attempts + 1 \in 0..MaxAttempts
        BY <2>1, InHand DEF Run
      <3> QED BY <1>3, <3>1, InHand DEF Job, JobStates
    <2>4. /\ Replaces(e, w, r) /\ fresh' \subseteq Deliverers \cup Callers
          /\ queue' \in [Executions -> [Deliveries -> Message]]
          /\ \A x \in Executions, d \in Deliveries : WasSent(x, d)' => d < named[x]
          /\ named' = named /\ call' = call
      BY <1>1, <1>3, InHand DEF Replaces, Write, Put, WasSent
    <2>5. DelivererKnows(r, j)
      BY <2>1, <2>2, <2>3 DEF DelivererKnows
    <2>6. /\ r.status # Absent /\ run[e].status # Absent /\ r.delivery < named[e]
          /\ j.delivery < named[e] /\ r.attempts >= run[e].attempts
          /\ (Task(e) => named[e] # 0)
      BY <1>1, <2>1, <2>2, <2>3, InHand DEF Owns, Unfinished, Waiting, Absent, NoRun
    <2> HIDE DEF j, r
    <2> QED BY <1>1, <2>1, <2>2, <2>3, <2>4, <2>5, <2>6, DelivererStep
  <1> QED BY <1>2, <1>3, ClaimOver

LEMMA RenewLeaseKeeps ==
    ASSUME IInv, NEW w \in Deliverers, RenewLease(w)
    PROVE  IInv'
  <1> DEFINE e == job[w].exec
             r == Renewed(run[e])
             j == job[w]
  <1>1. /\ At(w, "work") /\ OwnsRun(w) /\ Put(e, w, r)
        /\ UNCHANGED <<queue, named, job, call, faults>>
    BY DEF RenewLease
  <1>2. /\ run[e].status = "executing" /\ run[e].delivery = j.delivery
        /\ run[e].attempts = j.attempt
    BY <1>1 DEF OwnsRun, Owns
  <1>3. /\ r \in Run /\ RecordOK(r) /\ r.status = "executing"
        /\ r.attempts = run[e].attempts /\ r.delivery = run[e].delivery
    BY <1>2, InHand DEF Renewed, Run, RecordOK
  <1>4. /\ j \in Job /\ j.at = "work" /\ job' = [job EXCEPT ![w] = j] /\ Working(w)
        /\ faults' \in 0..MaxFaults
    BY <1>1, InHand DEF At, Working
  <1>5. /\ Replaces(e, w, r) /\ fresh' \subseteq Deliverers \cup Callers
        /\ queue' \in [Executions -> [Deliveries -> Message]]
        /\ \A x \in Executions, d \in Deliveries : WasSent(x, d)' => d < named[x]
        /\ named' = named /\ call' = call
    BY <1>1, InHand DEF Replaces, Put, WasSent
  <1>6. DelivererKnows(r, j)
    BY <1>2, <1>3, <1>4 DEF DelivererKnows, Owns
  <1>7. /\ r.status # Absent /\ run[e].status # Absent /\ r.delivery < named[e]
        /\ j.delivery < named[e] /\ r.attempts >= run[e].attempts
        /\ (Task(e) => named[e] # 0)
    BY <1>1, <1>2, <1>3, InHand DEF Absent, NoRun, At
  <1> HIDE DEF j, r
  <1> QED BY <1>3, <1>4, <1>5, <1>6, <1>7, DelivererStep DEF j

LEMMA WorkEndsKeeps ==
    ASSUME IInv, NEW w \in Deliverers, AttemptCanceled(w) \/ Answered(w)
    PROVE  IInv'
  <1> DEFINE e == job[w].exec
  <1>1. /\ At(w, "work") /\ ~At(w, "idle") /\ run' = run /\ fresh' = fresh
        /\ faults' \in 0..MaxFaults /\ UNCHANGED <<queue, named, call>>
    BY InHand DEF AttemptCanceled, Answered, At
  <1>2. CASE AttemptCanceled(w)
    BY <1>1, <1>2, PutsAway DEF AttemptCanceled, NoStoreCall
  <1>3. ASSUME NEW o \in Outcomes, job' = [job EXCEPT ![w].at = "finish", ![w].answer = o]
        PROVE  IInv'
    <2> DEFINE j == [job[w] EXCEPT !.at = "finish", !.answer = o]
               r == run[e]
    <2>1. /\ j \in Job /\ j.exec = e /\ j.delivery = job[w].delivery /\ j.at = "finish"
          /\ j.attempt = job[w].attempt /\ job' = [job EXCEPT ![w] = j]
      BY <1>3, InHand DEF Job, JobStates
    <2>2. /\ Replaces(e, w, r) /\ fresh' \subseteq Deliverers \cup Callers
          /\ queue' \in [Executions -> [Deliveries -> Message]]
          /\ \A x \in Executions, d \in Deliveries : WasSent(x, d)' => d < named[x]
          /\ named' = named /\ call' = call
      BY <1>1, InHand DEF Replaces, WasSent
    <2>3. w \in fresh' => DelivererKnows(r, j)
      BY <1>1, <2>1, InHand DEF DelivererKnows, At
    <2>4. /\ Working(w) /\ j.delivery < named[e]
          /\ r \in Run /\ RecordOK(r) /\ (r.status = Absent => r = NoRun)
          /\ (r.status # Absent => r.delivery < named[e])
          /\ (Task(e) /\ named[e] = 0 => r = NoRun) /\ r.attempts >= r.attempts
      BY <1>1, <2>1, InHand DEF At, Working
    <2> HIDE DEF j, r
    <2> QED BY <1>1, <2>1, <2>2, <2>3, <2>4, DelivererStep DEF r
  <1> QED BY <1>2, <1>3 DEF Answered

LEMMA FinishKeeps ==
    ASSUME IInv, NEW w \in Deliverers, Finish(w)
    PROVE  IInv'
  <1> DEFINE e == job[w].exec
             r == run[e]
             judged == Judged(r, job[w].answer, job[w].attempt, Task(e))
  <1>1. /\ At(w, "finish") /\ ~At(w, "idle") /\ UNCHANGED <<queue, named, call, faults>>
        /\ faults' \in 0..MaxFaults
    BY InHand DEF Finish, At
  <1>2. ASSUME LastWrite(e, w, judged), NEW s \in {"ack", "hide"}, Goto(w, s)
        PROVE  IInv'
    <2>1. r.status = "executing"
      BY <1>1, <1>2, InHand DEF LastWrite, DelivererKnows, Owns, At
    <2>2. Task(e) \in BOOLEAN
      BY DEF Task
    <2>3. /\ judged \in Run /\ RecordOK(judged) /\ judged.status \in Settled \cup {"queued"}
          /\ judged.attempts = r.attempts /\ judged.delivery = r.delivery
      BY <2>1, <2>2, InHand, JudgedOK
    <2>4. judged.status # Absent /\ r.status \in Unfinished
      BY <2>1, <2>3 DEF Settled, Absent, Unfinished
    <2> HIDE DEF judged
    <2> QED BY <1>1, <1>2, <2>3, <2>4, WritesLast
  <1>3. CASE OwnsRun(w) /\ Read(w) /\ UNCHANGED job
    <2> DEFINE j == job[w]
    <2>1. /\ j \in Job /\ j.at = "finish" /\ job' = [job EXCEPT ![w] = j] /\ Working(w)
          /\ r \in Run /\ RecordOK(r) /\ (r.status = Absent => r = NoRun)
          /\ (r.status # Absent => r.delivery < named[e])
          /\ (Task(e) /\ named[e] = 0 => r = NoRun) /\ r.attempts >= r.attempts
          /\ j.delivery < named[e]
      BY <1>1, <1>3, InHand DEF At, Working
    <2>2. /\ Replaces(e, w, r) /\ fresh' \subseteq Deliverers \cup Callers
          /\ queue' \in [Executions -> [Deliveries -> Message]]
          /\ \A x \in Executions, d \in Deliveries : WasSent(x, d)' => d < named[x]
          /\ named' = named /\ call' = call
      BY <1>1, <1>3, InHand DEF Replaces, Read, WasSent
    <2>3. DelivererKnows(r, j)
      BY <1>3, <2>1 DEF DelivererKnows, OwnsRun
    <2> HIDE DEF j, r
    <2> QED BY <1>1, <2>1, <2>2, <2>3, DelivererStep DEF j, r
  <1>4. CASE NoStoreCall /\ (Goto(w, "ack") \/ Goto(w, "hide"))
    BY <1>1, <1>4, PutsAway
  <1> QED BY <1>2, <1>3, <1>4, FinishOver

LEMMA DisposeKeeps ==
    ASSUME IInv, NEW w \in Deliverers, Dispose(w)
    PROVE  IInv'
  <1>1. /\ queue' \in [Executions -> [Deliveries -> Message]]
        /\ \A x \in Executions, b \in Deliveries : WasSent(x, b)' => WasSent(x, b)
    <2> DEFINE e == job[w].exec
               d == job[w].delivery
    <2>1. CASE queue' = queue
      BY <2>1, InHand DEF WasSent
    <2>2. CASE WasSent(e, d) /\ queue' = [queue EXCEPT ![e][d] = [NoMessage EXCEPT !.state = "acked"]]
      <3>1. [NoMessage EXCEPT !.state = "acked"] \in Message
        BY DEF NoMessage, Message
      <3> QED BY <2>2, <3>1, InHand DEF WasSent
    <2>3. CASE WasSent(e, d) /\ queue' = [queue EXCEPT ![e][d].state = "hidden"]
      <3>1. queue[e] \in [Deliveries -> Message] /\ queue[e][d] \in Message
        BY InHand
      <3>2. [queue[e][d] EXCEPT !.state = "hidden"] \in Message
        BY <3>1 DEF Message
      <3>3. /\ queue'[e][d] = [queue[e][d] EXCEPT !.state = "hidden"]
            /\ \A x \in Executions, b \in Deliveries : <<x, b>> # <<e, d>> => queue'[x][b] = queue[x][b]
        BY <2>3, <3>1, InHand
      <3>4. queue' \in [Executions -> [Deliveries -> Message]]
        BY <2>3, <3>1, <3>2, InHand
      <3> QED BY <2>3, <3>3, <3>4, InHand DEF WasSent
    <2> QED BY <2>1, <2>2, <2>3 DEF Dispose, OnQueue, WasSent
  <1>2. NoJob \in Job /\ NoJob.at = "idle"
    BY NoJobOK DEF NoJob
  <1>3. /\ \A x \in Executions, b \in Deliveries : WasSent(x, b)' => b < named[x]
        /\ job' = [job EXCEPT ![w] = NoJob] /\ fresh' = fresh \ {w} /\ faults' \in 0..MaxFaults
        /\ run' = run /\ named' = named /\ call' = call
    BY <1>1, InHand DEF Dispose
  <1> QED BY <1>1, <1>2, <1>3, DelivererPauses

LEMMA CrashKeeps ==
    ASSUME IInv, NEW w \in Deliverers, Crash(w)
    PROVE  IInv'
  <1> DEFINE j == NoJob
  <1>1. j \in Job /\ j.at = "idle"
    BY NoJobOK DEF NoJob
  <1>2. /\ queue' \in [Executions -> [Deliveries -> Message]]
        /\ \A x \in Executions, b \in Deliveries : WasSent(x, b)' => b < named[x]
        /\ fresh' = fresh \ {w} /\ faults' \in 0..MaxFaults
        /\ run' = run /\ named' = named /\ call' = call
    BY InHand DEF Crash, WasSent
  <1>3. job' = [job EXCEPT ![w] = j]
    BY DEF Crash
  <1> HIDE DEF j
  <1> QED BY <1>1, <1>2, <1>3, DelivererPauses

LEMMA CallFailsKeeps ==
    ASSUME IInv, NEW w \in Deliverers, CallFails(w)
    PROVE  IInv'
  <1> DEFINE e == job[w].exec
             d == job[w].delivery
             r == run[e]
  <1>1. /\ ~At(w, "idle") /\ Goto(w, "hide") /\ faults' \in 0..MaxFaults
        /\ UNCHANGED <<queue, named, call>>
        /\ job[w].at \in JobStates \ {"idle", "work", "ack", "hide"}
    BY InHand DEF CallFails, At
  <1>2. CASE NoStoreCall
    BY <1>1, <1>2, PutsAway
  <1>3. ASSUME NEW s \in {"expired", "failed"}, LastWrite(e, w, SettledAs(r, s)),
               job[w].at \in {"expire", "exhaust", "undeliverable"}
        PROVE  IInv'
    <2>1. r.status \in Unfinished
      BY <1>3, InHand DEF LastWrite, DelivererKnows, Unfinished
    <2> QED BY <1>1, <1>3, <2>1, SettledAsOK, InHand, WritesLast DEF Settled, Absent
  <1>4. CASE At(w, "hold") /\ LastWrite(e, w, HeldBy(r, d))
    <2>1. r.status \in Waiting
      BY <1>4, InHand DEF LastWrite, DelivererKnows, At
    <2>2. /\ HeldBy(r, d) \in Run /\ RecordOK(HeldBy(r, d))
          /\ HeldBy(r, d).status = r.status /\ HeldBy(r, d).attempts = r.attempts
          /\ HeldBy(r, d).delivery = r.delivery /\ r.status # Absent
          /\ r.status \in Unfinished
      BY <2>1, InHand DEF HeldBy, Run, RecordOK, Waiting, Absent, Unfinished
    <2> QED BY <1>1, <1>4, <2>2, WritesLast
  <1>5. CASE At(w, "claim") /\ LastWrite(e, w, Claimed(r))
    <2>1. /\ r.status \in Unfinished /\ r.attempts < MaxAttempts /\ r.due # "ahead"
      BY <1>5, InHand DEF LastWrite, DelivererKnows, At
    <2>2. /\ Claimed(r) \in Run /\ RecordOK(Claimed(r)) /\ Claimed(r).status = "executing"
          /\ Claimed(r).attempts = r.attempts + 1 /\ Claimed(r).delivery = r.delivery
      BY <2>1, InHand, ClaimedOK DEF Owns
    <2>3. PICK j \in Job : /\ j.at = "hide" /\ j.exec = e /\ j.delivery = d
                           /\ j.delivery < named[e] /\ job' = [job EXCEPT ![w] = j]
      <3>1. /\ "hide" \in JobStates \ {"idle"} /\ GotoWith(w, "hide", job[w].attempt)
            /\ job[w].attempt \in 0..MaxAttempts
        BY <1>1, InHand DEF JobStates, Goto
      <3> QED BY <1>1, <3>1, GotoOK
    <2>4. /\ Replaces(e, w, Claimed(r)) /\ fresh' \subseteq Deliverers \cup Callers
          /\ queue' \in [Executions -> [Deliveries -> Message]]
          /\ \A x \in Executions, b \in Deliveries : WasSent(x, b)' => b < named[x]
          /\ named' = named /\ call' = call
      BY <1>1, <1>5, InHand DEF Replaces, LastWrite, WasSent
    <2>5. /\ Claimed(r).status # Absent /\ r.status # Absent /\ r.delivery < named[e]
          /\ Claimed(r).attempts >= r.attempts /\ (Task(e) => named[e] # 0)
          /\ DelivererKnows(Claimed(r), j)
      BY <2>1, <2>2, <2>3, InHand DEF Unfinished, Waiting, Absent, NoRun, DelivererKnows
    <2> QED BY <1>1, <2>2, <2>3, <2>4, <2>5, DelivererStep
  <1>6. CASE /\ At(w, "finish")
             /\ LastWrite(e, w, Judged(r, job[w].answer, job[w].attempt, Task(e)))
    <2> DEFINE judged == Judged(r, job[w].answer, job[w].attempt, Task(e))
    <2>1. r.status = "executing" /\ Task(e) \in BOOLEAN
      BY <1>6, InHand DEF LastWrite, DelivererKnows, Owns, At, Task
    <2>3. /\ judged \in Run /\ RecordOK(judged) /\ judged.status \in Settled \cup {"queued"}
          /\ judged.attempts = r.attempts /\ judged.delivery = r.delivery
      BY <2>1, InHand, JudgedOK
    <2>4. judged.status # Absent /\ r.status \in Unfinished
      BY <2>1, <2>3 DEF Settled, Absent, Unfinished
    <2> QED BY <1>1, <1>6, <2>3, <2>4, WritesLast
  <1>7. CASE \/ At(w, "expire") /\ LastWrite(e, w, SettledAs(r, "expired"))
             \/ job[w].at \in {"exhaust", "undeliverable"} /\ LastWrite(e, w, SettledAs(r, "failed"))
    BY <1>3, <1>7 DEF At
  <1> QED BY <1>2, <1>4, <1>5, <1>6, <1>7, CallFailsOver

LEMMA DelivererKeeps ==
    ASSUME IInv, NEW w \in Deliverers, Deliver(w) \/ RenewLease(w) \/ CallFails(w) \/ Crash(w)
    PROVE  IInv'
  BY ArriveKeeps, CreateOnArrivalKeeps, AdmitWriteKeeps, FailUndeliverableKeeps, SlotsKeep,
     ClaimKeeps, RenewLeaseKeeps, WorkEndsKeeps, FinishKeeps, DisposeKeeps, CallFailsKeeps,
     CrashKeeps
  DEF Deliver

-----------------------------------------------------------------------------
(***************************************************************************)
(* Callers.                                                                *)
(***************************************************************************)

\* What a caller may assume of its call and its run.
LEMMA InCall ==
    ASSUME IInv, NEW c \in Callers
    PROVE  /\ call[c] \in Call /\ call[c].exec \in Executions
           /\ call[c].delivery \in Deliveries /\ call[c].saved \in Run
           /\ run[call[c].exec] \in Run /\ RecordOK(run[call[c].exec])
           /\ named[call[c].exec] \in 0..(MaxDelivery + 1)
           /\ named[call[c].exec] \in Nat
           /\ named = [named EXCEPT ![call[c].exec] = named[call[c].exec]]
           /\ run[call[c].exec].status = Absent => run[call[c].exec] = NoRun
           /\ run[call[c].exec].status # Absent =>
                run[call[c].exec].delivery < named[call[c].exec]
           /\ Task(call[c].exec) /\ named[call[c].exec] = 0 => run[call[c].exec] = NoRun
           /\ PutsBack(call[c], Task(call[c].exec))
           /\ call[c].at \in {"send", "drop", "sendMoved", "sendLetter", "restore"} =>
                call[c].delivery < named[call[c].exec]
           /\ c \in fresh => CallerKnows(run[call[c].exec], call[c])
           /\ queue \in [Executions -> [Deliveries -> Message]]
           /\ \A e \in Executions, d \in Deliveries : WasSent(e, d) => d < named[e]
           /\ fresh \subseteq Deliverers \cup Callers /\ run \in [Executions -> Run]
           /\ Task(call[c].exec) \in BOOLEAN
  BY DEF IInv, TypeOK, Call, RecordsOK, MessagesOK, CallsPutBack, CallsKnow, Task

\* A message sent is on the queue; the others are where they were.
LEMMA SentOK ==
    ASSUME queue \in [Executions -> [Deliveries -> Message]],
           NEW e \in Executions, NEW d \in Deliveries, NEW v \in BOOLEAN
    PROVE  /\ Sent(e, d, v) \in [Executions -> [Deliveries -> Message]]
           /\ \A x \in Executions, b \in Deliveries :
                Sent(e, d, v)[x][b].state # "absent" => WasSent(x, b) \/ (x = e /\ b = d)
  <1> DEFINE m == [NoMessage EXCEPT !.state = IF v THEN "visible" ELSE "hidden"]
  <1>1. m \in Message
    BY DEF NoMessage, Message
  <1> HIDE DEF m
  <1> QED BY <1>1 DEF Sent, WasSent, m

\* Releasing a message puts none on the queue.
LEMMA ReleasedOK ==
    ASSUME NEW q \in [Executions -> [Deliveries -> Message]],
           NEW e \in Executions, NEW h \in Deliveries \cup {NoHandle}
    PROVE  /\ Released(q, e, h) \in [Executions -> [Deliveries -> Message]]
           /\ \A x \in Executions, b \in Deliveries :
                Released(q, e, h)[x][b].state # "absent" => q[x][b].state # "absent"
  <1>1. CASE ~(h # NoHandle /\ q[e][h].state \in {"visible", "hidden"})
    BY <1>1 DEF Released
  <1>2. CASE h # NoHandle /\ q[e][h].state \in {"visible", "hidden"}
    <2>0. h \in Deliveries /\ q[e][h] \in Message
      BY <1>2
    <2>1. [q[e][h] EXCEPT !.state = "visible"] \in Message
      BY <2>0 DEF Message
    <2>2. Released(q, e, h) = [q EXCEPT ![e][h].state = "visible"]
      BY <1>2 DEF Released
    <2> QED BY <1>2, <2>0, <2>1, <2>2
  <1> QED BY <1>1, <1>2

\* Naming more deliveries leaves no message of a delivery without a name.
LEMMA NamesGrow ==
    ASSUME IInv, NEW e \in Executions, NEW n \in 0..(MaxDelivery + 1), n >= named[e],
           named' = [named EXCEPT ![e] = n],
           \A x \in Executions, d \in Deliveries :
              WasSent(x, d)' => WasSent(x, d) \/ (x = e /\ d < n)
    PROVE  \A x \in Executions, d \in Deliveries : WasSent(x, d)' => d < named'[x]
  <1> SUFFICES ASSUME NEW x \in Executions, NEW d \in Deliveries, WasSent(x, d)'
               PROVE  d < named'[x]
    OBVIOUS
  <1>1. /\ named'[e] = n /\ (x # e => named'[x] = named[x]) /\ named[x] \in Nat /\ d \in Nat
        /\ (WasSent(x, d) => d < named[x])
    BY DEF IInv, TypeOK, MessagesOK, Deliveries
  <1> QED BY <1>1

\* A caller goes back to its client without a word to the store.
LEMMA CallerReturns ==
    ASSUME IInv, NEW c \in Callers, call' = [call EXCEPT ![c] = NoCall],
           fresh' \subseteq fresh,
           queue' \in [Executions -> [Deliveries -> Message]],
           \A x \in Executions, d \in Deliveries : WasSent(x, d)' => d < named[x],
           UNCHANGED <<run, named, job, faults>>
    PROVE  IInv'
  <1> DEFINE e == call[c].exec
             r == run[e]
             n == named[e]
  <1>1. /\ e \in Executions /\ r \in Run /\ n \in 0..(MaxDelivery + 1) /\ n >= named[e]
        /\ RecordOK(r) /\ (r.status = Absent => r = NoRun)
        /\ (r.status # Absent => r.delivery < n) /\ (Task(e) /\ n = 0 => r = NoRun)
        /\ named' = [named EXCEPT ![e] = n] /\ fresh' \subseteq Deliverers \cup Callers
        /\ r.attempts >= run[e].attempts /\ named' = named
    BY InCall DEF Run
  <1>2. Replaces(e, c, r)
    BY <1>1, InCall DEF Replaces
  <1>3. NoCall \in Call /\ PutsBack(NoCall, Task(NoCall.exec)) /\ NoCall.at = "idle"
    <2>1. NoCall.at = "idle" /\ Task(NoCall.exec) \in BOOLEAN
      BY DEF NoCall, Task
    <2> QED BY <2>1, NoCallOK
  <1> HIDE DEF e, r, n
  <1> QED BY <1>1, <1>2, <1>3, CallerMoves DEF r

LEMMA TriggerKeeps ==
    ASSUME IInv, NEW c \in Callers, NEW e \in Executions, Trigger(c, e)
    PROVE  IInv'
  <1>1. PICK due \in Dues : /\ Put(e, c, NewRun(due, Expiry))
                            /\ Proceed(c, "send", e, 0, NoRun)
    BY DEF Trigger
  <1> DEFINE r == NewRun(due, Expiry)
             k == [at |-> "send", exec |-> e, delivery |-> 0, saved |-> NoRun]
  <1>2. /\ r \in Run /\ RecordOK(r) /\ r.status \in Waiting /\ r.attempts = 0 /\ r.delivery = 0
        /\ r.status # Absent /\ r.delivery < 1
    BY NewRunOK DEF Waiting, Absent, Expiries
  <1>3. k \in Call /\ k.exec = e /\ k.at = "send" /\ k.delivery = 0 /\ k.saved = NoRun
    BY NoRunOK DEF Call, CallStates, Deliveries
  <1>4. CallerKnows(r, k) /\ PutsBack(k, Task(k.exec))
    BY <1>2, <1>3 DEF CallerKnows, PutsBack, Trigger
  <1>5. /\ 1 \in 0..(MaxDelivery + 1) /\ 1 >= named[e] /\ named[e] = 0
        /\ named' = [named EXCEPT ![e] = 1] /\ call' = [call EXCEPT ![c] = k]
        /\ Task(e) /\ queue' = queue /\ job' = job /\ faults' = faults
    BY <1>1 DEF Trigger, Proceed
  <1>6. /\ Replaces(e, c, r) /\ fresh' \subseteq Deliverers \cup Callers
        /\ queue' \in [Executions -> [Deliveries -> Message]]
        /\ \A x \in Executions, d \in Deliveries : WasSent(x, d)' => WasSent(x, d)
    BY <1>1, <1>5 DEF Replaces, Put, WasSent, IInv, TypeOK
  <1>8. \A x \in Executions, d \in Deliveries : WasSent(x, d)' => d < named'[x]
    BY <1>5, <1>6, NamesGrow
  <1>7. \A w \in Deliverers : ~(Working(w) /\ job[w].exec = e /\ Task(e))
    BY <1>5, InHand DEF Working, At, Deliveries
  <1>9. /\ k.at = "idle" \/ k.exec = e
        /\ Task(e) /\ 1 = 0 => r = NoRun
        /\ k.at \in {"send", "drop", "sendMoved", "sendLetter", "restore"} => k.delivery < 1
        /\ \A w \in Deliverers : Working(w) /\ job[w].exec = e /\ Task(e) =>
               r.attempts >= run[e].attempts /\ r.delivery = run[e].delivery
    BY <1>3, <1>7
  <1> DEFINE n == 1
  <1>10. /\ n \in 0..(MaxDelivery + 1) /\ n >= named[e] /\ named' = [named EXCEPT ![e] = n]
         /\ r.status # Absent => r.delivery < n
         /\ Task(e) /\ n = 0 => r = NoRun
         /\ k.at \in {"send", "drop", "sendMoved", "sendLetter", "restore"} => k.delivery < n
    BY <1>2, <1>5, <1>9
  <1> HIDE DEF r, k, n
  <1> QED BY <1>2, <1>3, <1>4, <1>5, <1>6, <1>8, <1>9, <1>10, CallerMoves

LEMMA PublishKeeps ==
    ASSUME IInv, NEW c \in Callers, NEW e \in Executions, Publish(c, e)
    PROVE  IInv'
  <1>1. PICK due \in Dues : queue' = Sent(e, 0, due = "come")
    BY DEF Publish
  <1> DEFINE r == run[e]
             k == call[c]
  <1>2. /\ r \in Run /\ RecordOK(r) /\ (r.status = Absent => r = NoRun)
        /\ (r.status # Absent => r.delivery < 1) /\ ~Task(e) /\ r.attempts >= run[e].attempts
        /\ named[e] = 0
    BY DEF IInv, TypeOK, RecordsOK, Publish, Run, Deliveries
  <1>3. k \in Call /\ k.at = "idle" /\ PutsBack(k, Task(k.exec)) /\ call' = [call EXCEPT ![c] = k]
    BY InCall DEF Publish, Calling, IInv, TypeOK
  <1>4. /\ 1 \in 0..(MaxDelivery + 1) /\ 1 >= named[e]
        /\ named' = [named EXCEPT ![e] = 1] /\ job' = job /\ faults' = faults
    BY <1>2 DEF Publish
  <1>5. Replaces(e, c, r) /\ fresh' \subseteq Deliverers \cup Callers
    BY DEF Replaces, Publish, IInv, TypeOK
  <1>6. 0 \in Deliveries /\ queue \in [Executions -> [Deliveries -> Message]]
    BY DEF Deliveries, IInv, TypeOK
  <1>7. /\ queue' \in [Executions -> [Deliveries -> Message]]
        /\ \A x \in Executions, d \in Deliveries : WasSent(x, d)' => WasSent(x, d) \/ (x = e /\ d < 1)
    <2>1. PICK v \in BOOLEAN : queue' = Sent(e, 0, v)
      BY <1>1
    <2>2. /\ Sent(e, 0, v) \in [Executions -> [Deliveries -> Message]]
          /\ \A x \in Executions, d \in Deliveries :
                Sent(e, 0, v)[x][d].state # "absent" => WasSent(x, d) \/ (x = e /\ d = 0)
      BY <1>6, SentOK
    <2> QED BY <2>1, <2>2 DEF WasSent
  <1>8. \A x \in Executions, d \in Deliveries : WasSent(x, d)' => d < named'[x]
    BY <1>4, <1>7, NamesGrow
  <1> HIDE DEF r, k
  <1> QED BY <1>2, <1>3, <1>4, <1>5, <1>7, <1>8, CallerMoves DEF r

LEMMA SendMessageKeeps ==
    ASSUME IInv, NEW c \in Callers, SendMessage(c)
    PROVE  IInv'
  <1> DEFINE e == call[c].exec
             d == call[c].delivery
  <1>1. PICK visible \in BOOLEAN : queue' = Released(Sent(e, d, visible), e, call[c].saved.held)
    BY DEF SendMessage
  <1>2. e \in Executions /\ d \in Deliveries /\ call[c].saved.held \in Deliveries \cup {NoHandle}
    BY InCall DEF Run
  <1>3. d < named[e] /\ queue \in [Executions -> [Deliveries -> Message]]
    BY InCall DEF SendMessage
  <1>4. /\ Sent(e, d, visible) \in [Executions -> [Deliveries -> Message]]
        /\ \A x \in Executions, b \in Deliveries :
              Sent(e, d, visible)[x][b].state # "absent" => WasSent(x, b) \/ (x = e /\ b = d)
    BY <1>2, <1>3, SentOK
  <1>5. /\ queue' \in [Executions -> [Deliveries -> Message]]
        /\ \A x \in Executions, b \in Deliveries :
              queue'[x][b].state # "absent" => WasSent(x, b) \/ (x = e /\ b = d)
    <2> DEFINE q == Sent(e, d, visible)
               h == call[c].saved.held
    <2>1. q \in [Executions -> [Deliveries -> Message]] /\ queue' = Released(q, e, h)
          /\ h \in Deliveries \cup {NoHandle}
          /\ \A x \in Executions, b \in Deliveries :
                q[x][b].state # "absent" => WasSent(x, b) \/ (x = e /\ b = d)
      BY <1>1, <1>2, <1>4
    <2> HIDE DEF q, h
    <2> QED BY <2>1, <1>2, ReleasedOK
  <1>6. \A x \in Executions, b \in Deliveries : WasSent(x, b)' => b < named[x]
    BY <1>3, <1>5, InCall DEF WasSent
  <1> QED BY <1>5, <1>6, CallerReturns DEF SendMessage, Return

\* A caller's last write: it goes back to its client without a copy.
LEMMA CallerWritesLast ==
    ASSUME IInv, NEW c \in Callers, NEW r \in Run, LastWrite(call[c].exec, c, r),
           call' = [call EXCEPT ![c] = NoCall], RecordOK(r), r.status = Absent => r = NoRun,
           r.status # Absent => r.delivery < named[call[c].exec],
           Task(call[c].exec) =>
               \/ /\ r.attempts >= run[call[c].exec].attempts
                  /\ r.delivery = run[call[c].exec].delivery
               \/ \A w \in Deliverers : ~(Working(w) /\ job[w].exec = call[c].exec),
           queue' \in [Executions -> [Deliveries -> Message]],
           \A x \in Executions, d \in Deliveries : WasSent(x, d)' => WasSent(x, d),
           UNCHANGED <<named, job, faults>>
    PROVE  IInv'
  <1> DEFINE e == call[c].exec
             n == named[e]
             k == NoCall
  <1>1. /\ e \in Executions /\ n \in 0..(MaxDelivery + 1) /\ n >= named[e]
        /\ named' = [named EXCEPT ![e] = n]
        /\ (r.status # Absent => r.delivery < n) /\ job' = job /\ faults' = faults
    BY InCall DEF Run
  <1>2. /\ Replaces(e, c, r) /\ fresh' \subseteq Deliverers \cup Callers
        /\ \A x \in Executions, d \in Deliveries : WasSent(x, d)' => d < named'[x]
    BY InCall DEF Replaces, LastWrite
  <1>3. k \in Call /\ k.at = "idle" /\ PutsBack(k, Task(k.exec))
    <2>1. NoCall.at = "idle" /\ Task(NoCall.exec) \in BOOLEAN
      BY DEF NoCall, Task
    <2> QED BY <2>1, NoCallOK
  <1>4. /\ Task(e) /\ n = 0 => r = NoRun
        /\ \A w \in Deliverers : Working(w) /\ job[w].exec = e /\ Task(e) =>
               r.attempts >= run[e].attempts /\ r.delivery = run[e].delivery
    <2>1. Task(e) /\ n = 0 => run[e] = NoRun /\ r.status = Absent
      <3>1. Task(e) /\ n = 0 => ~(r.delivery < n)
        BY DEF Run, Deliveries
      <3> QED BY <3>1, InCall
    <2> QED BY <2>1
  <1> HIDE DEF e, n, k
  <1> QED BY <1>1, <1>2, <1>3, <1>4, CallerMoves DEF k

LEMMA SendFailsKeeps ==
    ASSUME IInv, NEW c \in Callers, SendFails(c)
    PROVE  IInv'
  <1> DEFINE e == call[c].exec
             d == call[c].delivery
             n == named[e]
             r == run[e]
  <1>1. PICK undo \in {"drop", "restore"} :
          /\ call' = [call EXCEPT ![c].at = undo]
          /\ undo = "drop" <=> Calling(c, "send")
    BY DEF SendFails
  <1> DEFINE k == [call[c] EXCEPT !.at = undo]
  <1>2. /\ call[c].at \in {"send", "sendMoved", "sendLetter"}
        /\ run' = run /\ named' = named /\ job' = job /\ faults' = faults /\ fresh' = fresh
    BY DEF SendFails
  <1>3. /\ k \in Call /\ k.at = undo /\ k.exec = e /\ k.delivery = d /\ k.saved = call[c].saved
        /\ call' = [call EXCEPT ![c] = k]
    BY <1>1, InCall DEF Call, CallStates, IInv, TypeOK
  <1>4. PutsBack(k, Task(k.exec))
    BY <1>1, <1>2, <1>3, InCall DEF PutsBack, Calling
  <1>5. c \in fresh' => CallerKnows(r, k)
    BY <1>1, <1>2, <1>3, InCall DEF CallerKnows, PutsBack, Calling
  <1>6. /\ e \in Executions /\ d \in Deliveries /\ r \in Run /\ n \in 0..(MaxDelivery + 1)
        /\ n >= named[e] /\ RecordOK(r) /\ (r.status = Absent => r = NoRun)
        /\ (r.status # Absent => r.delivery < n) /\ (Task(e) /\ n = 0 => r = NoRun)
        /\ named' = [named EXCEPT ![e] = n] /\ d < n
        /\ r.attempts >= run[e].attempts
    BY <1>2, InCall DEF Run
  <1>7. Replaces(e, c, r) /\ fresh' \subseteq Deliverers \cup Callers
    BY <1>2, InCall DEF Replaces
  <1>8. /\ queue' \in [Executions -> [Deliveries -> Message]]
        /\ \A x \in Executions, b \in Deliveries : WasSent(x, b)' => WasSent(x, b) \/ (x = e /\ b = d)
    <2>1. CASE queue' = queue
      BY <2>1, InCall DEF WasSent
    <2>2. CASE queue' = Sent(e, d, TRUE)
      <3>1. /\ Sent(e, d, TRUE) \in [Executions -> [Deliveries -> Message]]
            /\ \A x \in Executions, b \in Deliveries :
                  Sent(e, d, TRUE)[x][b].state # "absent" => WasSent(x, b) \/ (x = e /\ b = d)
        BY <1>6, InCall, SentOK
      <3> QED BY <2>2, <3>1 DEF WasSent
    <2> QED BY <2>1, <2>2 DEF SendFails
  <1>9. \A x \in Executions, b \in Deliveries : WasSent(x, b)' => b < named'[x]
    BY <1>2, <1>6, <1>8, InCall
  <1> HIDE DEF e, d, n, r, k
  <1> QED BY <1>2, <1>3, <1>4, <1>5, <1>6, <1>7, <1>8, <1>9, CallerMoves DEF r

\* A caller that found its copy stale gives up.
LEMMA UndoKeeps ==
    ASSUME IInv, NEW c \in Callers, Undo(c)
    PROVE  IInv'
  <1> DEFINE e == call[c].exec
             r == call[c].saved
  <1>1. /\ call[c].at \in {"drop", "restore"} /\ WriteOrGiveUp(c, r)
        /\ call' = [call EXCEPT ![c] = NoCall] /\ UNCHANGED <<queue, named, job, faults>>
    BY DEF Undo
  <1>2. CASE c \notin fresh /\ UNCHANGED <<run, fresh>>
    BY <1>1, <1>2, CallerReturns, InCall DEF WasSent
  <1>3. CASE LastWrite(e, c, r)
    <2>1. /\ run[e].status \in Waiting /\ run[e].attempts = 0
          /\ run[e].delivery = call[c].delivery
      BY <1>1, <1>3, InCall DEF CallerKnows, LastWrite
    <2>2. /\ r \in Run /\ RecordOK(r) /\ (r.status = Absent => r = NoRun)
          /\ (r.status # Absent => r.delivery < named[e])
      <3>1. CASE call[c].at = "drop"
        <4>1. r = NoRun
          BY <3>1, InCall DEF PutsBack
        <4>2. r.status = Absent
          BY <4>1 DEF NoRun
        <4> HIDE DEF r
        <4> QED BY <4>1, <4>2, NoRunOK
      <3>2. CASE call[c].at = "restore"
        <4>1. /\ r \in Run /\ RecordOK(r) /\ r.delivery < call[c].delivery
              /\ r.status \in {"delayed", "failed"} /\ call[c].delivery < named[e]
          BY <3>2, InCall DEF PutsBack
        <4>2. r.delivery \in Nat /\ call[c].delivery \in Nat /\ named[e] \in Nat
          BY InCall DEF Run, Deliveries
        <4> QED BY <4>1, <4>2 DEF Absent
      <3> QED BY <1>1, <3>1, <3>2
    <2>3. Task(e) => \A w \in Deliverers : ~(Working(w) /\ job[w].exec = e)
      <3> SUFFICES ASSUME Task(e), NEW w \in Deliverers, Working(w), job[w].exec = e
                   PROVE  FALSE
        OBVIOUS
      <3>1. job[w].attempt > 0 /\ job[w].attempt <= run[e].attempts
        BY DEF IInv, ClaimsOK
      <3> QED BY <3>1, <2>1, InHand
    <2>4. /\ queue' \in [Executions -> [Deliveries -> Message]]
          /\ \A x \in Executions, d \in Deliveries : WasSent(x, d)' => WasSent(x, d)
      BY <1>1, InCall DEF WasSent
    <2> QED BY <1>1, <1>3, <2>2, <2>3, <2>4, CallerWritesLast
  <1> QED BY <1>1, <1>2, <1>3 DEF WriteOrGiveUp

\* A caller reads its run again, or begins on one, and knows what it read.
LEMMA CallerReads ==
    ASSUME IInv, NEW c \in Callers, NEW e \in Executions, NEW k \in Call, k.exec = e,
           call' = [call EXCEPT ![c] = k], Read(c),
           CallerKnows(run[e], k), PutsBack(k, Task(e)),
           k.at \notin {"send", "drop", "sendMoved", "sendLetter", "restore"},
           UNCHANGED <<queue, named, job, faults>>
    PROVE  IInv'
  <1> DEFINE r == run[e]
             n == named[e]
  <1>1. /\ r \in Run /\ n \in 0..(MaxDelivery + 1) /\ n >= named[e]
        /\ RecordOK(r) /\ (r.status = Absent => r = NoRun)
        /\ (r.status # Absent => r.delivery < n) /\ (Task(e) /\ n = 0 => r = NoRun)
        /\ named' = [named EXCEPT ![e] = n] /\ r.attempts >= run[e].attempts
        /\ job' = job /\ faults' = faults
    BY DEF IInv, TypeOK, RecordsOK, Run, Task
  <1>2. Replaces(e, c, r) /\ fresh' \subseteq Deliverers \cup Callers
    BY DEF Replaces, Read, IInv, TypeOK
  <1>3. /\ queue' \in [Executions -> [Deliveries -> Message]]
        /\ \A x \in Executions, d \in Deliveries : WasSent(x, d)' => d < named'[x]
    BY InCall DEF WasSent
  <1>4. /\ CallerKnows(r, k) /\ PutsBack(k, Task(k.exec)) /\ r.delivery = run[e].delivery
        /\ k.at \in {"send", "drop", "sendMoved", "sendLetter", "restore"} => k.delivery < n
    OBVIOUS
  <1> HIDE DEF r, n
  <1> QED BY <1>1, <1>2, <1>3, <1>4, CallerMoves

LEMMA BeginKeeps ==
    ASSUME IInv, NEW c \in Callers, NEW e \in Executions, Begin(c, e)
    PROVE  IInv'
  <1>1. PICK s \in {"cancel", "move", "redrive", "purge"} :
          /\ Proceed(c, s, e, 0, NoRun)
          /\ s = "cancel" => run[e].status \in Unfinished
          /\ s = "move" => Task(e) /\ Movable(run[e])
          /\ s \in {"redrive", "purge"} => ~Task(e) /\ run[e].status = "failed"
    BY DEF Begin
  <1> DEFINE k == [at |-> s, exec |-> e, delivery |-> 0, saved |-> NoRun]
  <1>2. k \in Call /\ k.exec = e /\ k.at = s /\ call' = [call EXCEPT ![c] = k]
    BY <1>1, NoRunOK DEF Call, CallStates, Deliveries, Proceed
  <1>3. Movable(run[e]) => run[e].status # Absent
    BY DEF Movable, StatusAt, Lapsed, Absent, Waiting
  <1>4. CallerKnows(run[e], k) /\ PutsBack(k, Task(e))
    BY <1>1, <1>2, <1>3 DEF CallerKnows, PutsBack, Task
  <1>5. Read(c) /\ UNCHANGED <<queue, named, job, faults>>
    BY DEF Begin
  <1> HIDE DEF k
  <1> QED BY <1>1, <1>2, <1>4, <1>5, CallerReads

LEMMA CancelKeeps ==
    ASSUME IInv, NEW c \in Callers, Cancel(c)
    PROVE  IInv'
  <1> DEFINE e == call[c].exec
             r == SettledAs(run[e], "canceled")
  <1>1. Calling(c, "cancel") /\ UNCHANGED <<named, job, faults>>
    BY DEF Cancel
  <1>2. CASE /\ LastWrite(e, c, r) /\ queue' = Released(queue, e, run[e].held)
             /\ call' = [call EXCEPT ![c] = NoCall]
    <2>1. run[e].status \in Unfinished
      BY <1>1, <1>2, InCall DEF LastWrite, CallerKnows, Calling
    <2>2. /\ r \in Run /\ RecordOK(r) /\ r.status = "canceled"
          /\ r.attempts = run[e].attempts /\ r.delivery = run[e].delivery
      BY InCall, SettledAsOK DEF Settled
    <2>3. r.status # Absent /\ r.delivery < named[e] /\ r.attempts >= run[e].attempts
      BY <2>1, <2>2, InCall DEF Unfinished, Waiting, Absent, Run
    <2>4. /\ queue' \in [Executions -> [Deliveries -> Message]]
          /\ \A x \in Executions, d \in Deliveries : WasSent(x, d)' => WasSent(x, d)
      <3>1. e \in Executions /\ run[e].held \in Deliveries \cup {NoHandle}
        BY InCall DEF Run
      <3> DEFINE h == run[e].held
      <3>2. /\ queue' = Released(queue, e, h) /\ h \in Deliveries \cup {NoHandle}
            /\ queue \in [Executions -> [Deliveries -> Message]]
        BY <1>2, <3>1, InCall
      <3> HIDE DEF h
      <3>3. /\ queue' \in [Executions -> [Deliveries -> Message]]
            /\ \A x \in Executions, d \in Deliveries :
                  queue'[x][d].state # "absent" => queue[x][d].state # "absent"
        BY <3>1, <3>2, ReleasedOK
      <3> QED BY <3>3 DEF WasSent
    <2> HIDE DEF r
    <2> QED BY <1>1, <1>2, <2>2, <2>3, <2>4, CallerWritesLast
  <1>3. CASE /\ c \notin fresh /\ run[e].status \in Unfinished /\ Read(c)
             /\ UNCHANGED <<queue, call>>
    <2> DEFINE k == call[c]
    <2>1. /\ k \in Call /\ k.exec = e /\ e \in Executions /\ call' = [call EXCEPT ![c] = k]
          /\ k.at = "cancel" /\ PutsBack(k, Task(e)) /\ CallerKnows(run[e], k)
      BY <1>1, <1>3, InCall DEF Calling, IInv, TypeOK, CallerKnows
    <2> HIDE DEF e, k
    <2> QED BY <1>1, <1>3, <2>1, CallerReads
  <1>4. CASE Return(c) /\ UNCHANGED <<run, queue>>
    BY <1>1, <1>4, CallerReturns, InCall DEF Return, WasSent
  <1> QED BY <1>2, <1>3, <1>4 DEF Cancel

LEMMA PurgeKeeps ==
    ASSUME IInv, NEW c \in Callers, Purge(c)
    PROVE  IInv'
  <1> DEFINE e == call[c].exec
  <1>1. /\ call[c].at = "purge" /\ ~Task(e)
        /\ call' = [call EXCEPT ![c] = NoCall] /\ UNCHANGED <<queue, named, job, faults>>
    BY InCall DEF Purge, Calling, PutsBack
  <1>2. CASE LastWrite(e, c, NoRun)
    <2>1. /\ queue' \in [Executions -> [Deliveries -> Message]] /\ NoRun.status = Absent
          /\ \A x \in Executions, d \in Deliveries : WasSent(x, d)' => WasSent(x, d)
      BY <1>1, InCall DEF WasSent, NoRun
    <2> QED BY <1>1, <1>2, <2>1, NoRunOK, CallerWritesLast
  <1>3. CASE c \notin fresh /\ UNCHANGED <<run, fresh>>
    BY <1>1, <1>3, CallerReturns, InCall DEF WasSent
  <1> QED BY <1>2, <1>3 DEF Purge, WriteOrGiveUp

LEMMA CallerCrashKeeps ==
    ASSUME IInv, NEW c \in Callers, CallerCrash(c)
    PROVE  IInv'
  BY CallerReturns, InCall DEF CallerCrash, Return, WasSent

\* A caller names another delivery of its run and goes on to send it.
LEMMA CallerRenames ==
    ASSUME IInv, NEW c \in Callers, NEW r \in Run, NEW k \in Call,
           Write(call[c].exec, c, r), call' = [call EXCEPT ![c] = k],
           named[call[c].exec] <= MaxDelivery,
           named' = [named EXCEPT ![call[c].exec] = @ + 1],
           k.at \in {"sendMoved", "sendLetter"}, k.exec = call[c].exec,
           k.delivery = named[call[c].exec], k.saved = run[call[c].exec],
           PutsBack(k, Task(call[c].exec)),
           RecordOK(r), r.status \in Waiting, r.attempts = 0, r.delivery = named[call[c].exec],
           Task(call[c].exec) => run[call[c].exec].attempts = 0,
           k.at = "sendLetter" => r.due # "ahead",
           UNCHANGED <<queue, job, faults>>
    PROVE  IInv'
  <1> DEFINE e == call[c].exec
             n == named[e] + 1
  <1>1. /\ e \in Executions /\ n \in 0..(MaxDelivery + 1) /\ n >= named[e] /\ n # 0
        /\ named' = [named EXCEPT ![e] = n] /\ r.delivery < n /\ k.delivery < n
        /\ r.status # Absent
    BY InCall DEF Waiting, Absent
  <1>2. /\ Replaces(e, c, r) /\ fresh' \subseteq Deliverers \cup Callers
        /\ queue' \in [Executions -> [Deliveries -> Message]]
        /\ \A x \in Executions, d \in Deliveries : WasSent(x, d)' => WasSent(x, d) \/ (x = e /\ d < n)
    BY InCall DEF Replaces, Write, Put, WasSent
  <1>3. \A x \in Executions, d \in Deliveries : WasSent(x, d)' => d < named'[x]
    BY <1>1, <1>2, NamesGrow
  <1>4. CallerKnows(r, k) /\ PutsBack(k, Task(k.exec))
    BY DEF CallerKnows, PutsBack
  <1>5. \A w \in Deliverers : ~(Working(w) /\ job[w].exec = e /\ Task(e))
    <2> SUFFICES ASSUME NEW w \in Deliverers, Task(e), Working(w), job[w].exec = e
                 PROVE  FALSE
      OBVIOUS
    <2>1. job[w].attempt > 0 /\ job[w].attempt <= run[e].attempts
      BY DEF IInv, ClaimsOK
    <2> QED BY <2>1, InHand
  <1> HIDE DEF e, n
  <1> QED BY <1>1, <1>2, <1>3, <1>4, <1>5, CallerMoves DEF e

LEMMA RescheduleKeeps ==
    ASSUME IInv, NEW c \in Callers, Reschedule(c)
    PROVE  IInv'
  <1> DEFINE e == call[c].exec
  <1>0. /\ Calling(c, "move") /\ Task(e) /\ UNCHANGED <<queue, job, faults>>
    BY InCall DEF Reschedule, PutsBack, Calling
  <1>1. CASE /\ Movable(run[e]) /\ named[e] <= MaxDelivery
             /\ \E due \in Dues : Write(e, c, Moved(run[e], named[e], due))
             /\ named' = [named EXCEPT ![e] = @ + 1]
             /\ Proceed(c, "sendMoved", e, named[e], run[e])
    <2>1. PICK due \in Dues : Write(e, c, Moved(run[e], named[e], due))
      BY <1>1
    <2> DEFINE r == Moved(run[e], named[e], due)
               k == [at |-> "sendMoved", exec |-> e, delivery |-> named[e], saved |-> run[e]]
    <2>2. run[e].status = "delayed" /\ run[e].due # "come" /\ run[e].attempts = 0
      BY <1>1, InCall DEF Movable, StatusAt, Lapsed, RecordOK, Waiting
    <2>3. named[e] \in Deliveries
      BY <1>1, InCall DEF Deliveries
    <2>4. /\ r \in Run /\ RecordOK(r) /\ r.status \in Waiting /\ r.attempts = 0
          /\ r.delivery = named[e]
      <3>1. WaitingFor(due) \in Waiting
        BY DEF WaitingFor, Waiting
      <3>2. r \in Run
        BY <2>3, InCall, MovedOK
      <3>3. /\ r.status \in Waiting /\ r.attempts = run[e].attempts /\ r.delivery = named[e]
            /\ r.leased = run[e].leased
        BY <3>1, InCall DEF Moved, Run
      <3> QED BY <3>2, <3>3, <2>2, InCall DEF RecordOK, Waiting
    <2>5. /\ k \in Call /\ k.at = "sendMoved" /\ k.exec = e /\ k.delivery = named[e]
          /\ k.saved = run[e] /\ call' = [call EXCEPT ![c] = k]
      BY <1>1, <2>3, InCall DEF Call, CallStates, Proceed
    <2>6. PutsBack(k, Task(e))
      BY <1>0, <2>2, <2>5, InCall DEF PutsBack, Absent
    <2> HIDE DEF r, k
    <2> QED BY <1>0, <1>1, <2>1, <2>2, <2>4, <2>5, <2>6, CallerRenames DEF r
  <1>2. CASE c \notin fresh /\ Movable(run[e]) /\ Read(c) /\ UNCHANGED <<named, call>>
    <2> DEFINE k == call[c]
    <2>1. run[e].status # Absent
      BY <1>2 DEF Movable, StatusAt, Lapsed, Absent, Waiting
    <2>2. /\ k \in Call /\ k.exec = e /\ e \in Executions /\ call' = [call EXCEPT ![c] = k]
          /\ k.at = "move" /\ PutsBack(k, Task(e)) /\ CallerKnows(run[e], k)
      BY <1>0, <1>2, <2>1, InCall DEF Calling, IInv, TypeOK, CallerKnows
    <2> HIDE DEF e, k
    <2> QED BY <1>0, <1>2, <2>2, CallerReads
  <1>3. CASE Return(c) /\ UNCHANGED <<run, named>>
    BY <1>0, <1>3, CallerReturns, InCall DEF Return, WasSent
  <1> QED BY <1>1, <1>2, <1>3 DEF Reschedule

LEMMA RedriveKeeps ==
    ASSUME IInv, NEW c \in Callers, Redrive(c)
    PROVE  IInv'
  <1> DEFINE e == call[c].exec
  <1>0. /\ Calling(c, "redrive") /\ ~Task(e) /\ UNCHANGED <<queue, job, faults>>
    BY InCall DEF Redrive, PutsBack, Calling
  <1>1. CASE /\ named[e] <= MaxDelivery
             /\ Write(e, c, Redriven(run[e], named[e]))
             /\ named' = [named EXCEPT ![e] = @ + 1]
             /\ Proceed(c, "sendLetter", e, named[e], run[e])
    <2> DEFINE r == Redriven(run[e], named[e])
               k == [at |-> "sendLetter", exec |-> e, delivery |-> named[e], saved |-> run[e]]
    <2>2. run[e].status = "failed"
      BY <1>0, <1>1, InCall DEF Write, CallerKnows, Calling
    <2>3. named[e] \in Deliveries
      BY <1>1, InCall DEF Deliveries
    <2>4. /\ r \in Run /\ RecordOK(r) /\ r.status \in Waiting /\ r.attempts = 0
          /\ r.delivery = named[e] /\ r.due # "ahead"
      <3>1. r \in Run
        BY <2>3, InCall, RedrivenOK
      <3>2. /\ r.status = "queued" /\ r.attempts = 0 /\ r.delivery = named[e] /\ ~r.leased
            /\ r.due = "come"
        BY InCall DEF Redriven, Run
      <3> QED BY <3>1, <3>2 DEF RecordOK, Waiting
    <2>5. /\ k \in Call /\ k.at = "sendLetter" /\ k.exec = e /\ k.delivery = named[e]
          /\ k.saved = run[e] /\ call' = [call EXCEPT ![c] = k]
      BY <1>1, <2>3, InCall DEF Call, CallStates, Proceed
    <2>6. PutsBack(k, Task(e))
      BY <1>0, <2>2, <2>5, InCall DEF PutsBack, Absent
    <2> HIDE DEF r, k
    <2> QED BY <1>0, <1>1, <2>4, <2>5, <2>6, CallerRenames DEF r
  <1>2. CASE Return(c) /\ UNCHANGED <<run, named>>
    BY <1>0, <1>2, CallerReturns, InCall DEF Return, WasSent
  <1> QED BY <1>1, <1>2 DEF Redrive

LEMMA CallerKeeps ==
    ASSUME IInv, NEW c \in Callers, CallerStep(c) \/ SendFails(c) \/ CallerCrash(c)
    PROVE  IInv'
  BY SendMessageKeeps, UndoKeeps, CancelKeeps, RescheduleKeeps, RedriveKeeps, PurgeKeeps,
     SendFailsKeeps, CallerCrashKeeps
  DEF CallerStep

-----------------------------------------------------------------------------
(***************************************************************************)
(* The queue and the clock.                                                *)
(***************************************************************************)

\* A step of the queue alone.
LEMMA QueueMoves ==
    ASSUME IInv, NEW e \in Executions, NEW d \in Deliveries, NEW m \in Message,
           queue' = [queue EXCEPT ![e][d] = m], m.state # "absent" => d < named[e],
           faults' \in 0..MaxFaults, UNCHANGED <<run, named, job, call, fresh>>
    PROVE  IInv'
  <1> DEFINE r == run[e]
  <1>1. /\ r \in Run /\ RecordOK(r) /\ run' = [run EXCEPT ![e] = r]
        /\ queue \in [Executions -> [Deliveries -> Message]]
        /\ \A x \in Executions, b \in Deliveries : queue[x][b].state # "absent" => b < named[x]
    BY DEF IInv, TypeOK, RecordsOK, MessagesOK, WasSent
  <1>2. queue' \in [Executions -> [Deliveries -> Message]]
    BY <1>1
  <1>3. \A x \in Executions, b \in Deliveries : WasSent(x, b)' => b < named[x]
    BY <1>1 DEF WasSent
  <1>4. UNCHANGED <<run, named, job, call, fresh>> /\ r = run[e]
    OBVIOUS
  <1> HIDE DEF r
  <1> QED BY <1>1, <1>2, <1>3, <1>4, TimePasses

\* Messages come back, are doubled or are dropped.
LEMMA QueueKeeps ==
    ASSUME IInv, NEW e \in Executions, NEW d \in Deliveries,
           Reappear(e, d) \/ Overrun(e, d) \/ Duplicate(e, d) \/ DeadLetter(e, d)
    PROVE  IInv'
  <1>0. /\ queue \in [Executions -> [Deliveries -> Message]] /\ queue[e][d] \in Message
        /\ (WasSent(e, d) => d < named[e]) /\ faults \in 0..MaxFaults
    BY DEF IInv, TypeOK, MessagesOK
  <1> DEFINE back == [queue[e][d] EXCEPT !.state = "visible"]
             sent == [NoMessage EXCEPT !.state = "visible"]
  <1>1. /\ back \in Message /\ sent \in Message /\ NoMessage \in Message
        /\ NoMessage.state = "absent"
    BY <1>0 DEF Message, NoMessage
  <1>2. CASE Reappear(e, d) \/ Overrun(e, d)
    <2>1. queue' = [queue EXCEPT ![e][d] = back]
      BY <1>0, <1>2 DEF Reappear, Overrun
    <2>2. /\ d < named[e] /\ faults' \in 0..MaxFaults
          /\ UNCHANGED <<run, named, job, call, fresh>>
      BY <1>0, <1>2 DEF Reappear, Overrun, WasSent
    <2> HIDE DEF back
    <2> QED BY <1>1, <2>1, <2>2, QueueMoves
  <1>3. CASE Duplicate(e, d)
    <2>1. queue' = [queue EXCEPT ![e][d] = sent]
      BY <1>3 DEF Duplicate, Sent
    <2>2. /\ d < named[e] /\ faults' \in 0..MaxFaults
          /\ UNCHANGED <<run, named, job, call, fresh>>
      BY <1>0, <1>3 DEF Duplicate, WasSent
    <2> HIDE DEF sent
    <2> QED BY <1>1, <2>1, <2>2, QueueMoves
  <1>4. CASE DeadLetter(e, d)
    BY <1>0, <1>1, <1>4, QueueMoves DEF DeadLetter
  <1> QED BY <1>2, <1>3, <1>4

\* Due times come, times to live pass and leases lapse.
LEMMA ClockKeeps ==
    ASSUME IInv, NEW e \in Executions, DueArrives(e) \/ TtlPasses(e) \/ LeaseLapses(e)
    PROVE  IInv'
  <1>1. /\ run[e] \in Run /\ RecordOK(run[e]) /\ (run[e].status = Absent => run[e] = NoRun)
        /\ (named[e] = 0 /\ Task(e) => run[e] = NoRun)
    BY DEF IInv, TypeOK, RecordsOK, Task
  <1>2. ASSUME NEW r \in Run, RecordOK(r), Ages(e, r),
               r.status = run[e].status, r.attempts = run[e].attempts,
               r.delivery = run[e].delivery, r.leased => run[e].leased,
               run[e].due # "ahead" => r.due # "ahead", run[e].status # Absent
        PROVE  IInv'
    <2>1. run[e] # NoRun
      BY <1>2 DEF NoRun
    <2>2. /\ queue' \in [Executions -> [Deliveries -> Message]]
          /\ \A x \in Executions, d \in Deliveries : WasSent(x, d)' => d < named[x]
          /\ fresh' = fresh /\ job' = job /\ call' = call /\ named' = named
          /\ faults' \in 0..MaxFaults /\ run' = [run EXCEPT ![e] = r]
      BY <1>2 DEF Ages, IInv, TypeOK, MessagesOK, WasSent
    <2> QED BY <1>1, <1>2, <2>1, <2>2, TimePasses
  <1>3. CASE DueArrives(e)
    <2> DEFINE due == IF run[e].due = "ahead" THEN "slack" ELSE "come"
               r == [run[e] EXCEPT !.due = due]
    <2>1. Ages(e, r) /\ run[e].status # Absent
      BY <1>1, <1>3 DEF DueArrives, Waiting, Absent, Run
    <2>2. /\ r \in Run /\ r.status = run[e].status /\ r.attempts = run[e].attempts
          /\ r.delivery = run[e].delivery /\ r.leased = run[e].leased /\ r.due # "ahead"
      BY <1>1 DEF Run, Dues
    <2>3. RecordOK(r)
      BY <1>1, <2>2 DEF RecordOK
    <2> HIDE DEF r
    <2> QED BY <2>1, <2>2, <2>3, <1>2
  <1>4. CASE TtlPasses(e)
    <2> DEFINE r == [run[e] EXCEPT !.expiry = "past"]
    <2>1. Ages(e, r) /\ run[e].status # Absent
      BY <1>4 DEF TtlPasses, Waiting, Absent
    <2>2. /\ r \in Run /\ r.status = run[e].status /\ r.attempts = run[e].attempts
          /\ r.delivery = run[e].delivery /\ r.leased = run[e].leased /\ r.due = run[e].due
      BY <1>1 DEF Run, Expiries
    <2>3. RecordOK(r)
      BY <1>1, <2>2 DEF RecordOK
    <2> HIDE DEF r
    <2> QED BY <2>1, <2>2, <2>3, <1>2
  <1>5. CASE LeaseLapses(e)
    <2> DEFINE r == [run[e] EXCEPT !.leased = FALSE]
    <2>1. Ages(e, r) /\ run[e].status # Absent
      BY <1>1, <1>5 DEF LeaseLapses, RecordOK, Absent
    <2>2. /\ r \in Run /\ r.status = run[e].status /\ r.attempts = run[e].attempts
          /\ r.delivery = run[e].delivery /\ ~r.leased /\ r.due = run[e].due
      BY <1>1 DEF Run
    <2>3. RecordOK(r)
      BY <1>1, <2>2 DEF RecordOK
    <2> HIDE DEF r
    <2> QED BY <2>1, <2>2, <2>3, <1>1, <1>2, <1>5 DEF LeaseLapses
  <1> QED BY <1>3, <1>4, <1>5

LEMMA NextKeeps ==
    ASSUME IInv, [Next]_vars
    PROVE  IInv'
  <1>1. CASE UNCHANGED vars
    BY <1>1 DEF vars, IInv, TypeOK, MessagesOK, RecordsOK, CopiesOK, CallsKnow, CallsPutBack,
                ClaimsOK, WasSent, At, Task, Working
  <1>2. ASSUME NEW w \in Deliverers, NEW e \in Executions, NEW d \in Deliveries, Receive(w, e, d)
        PROVE  IInv'
    BY <1>2, ReceiveKeeps
  <1>3. ASSUME NEW w \in Deliverers, Deliver(w) \/ RenewLease(w) \/ CallFails(w) \/ Crash(w)
        PROVE  IInv'
    BY <1>3, DelivererKeeps
  <1>4. ASSUME NEW c \in Callers, NEW e \in Executions, Trigger(c, e) \/ Publish(c, e) \/ Begin(c, e)
        PROVE  IInv'
    BY <1>4, TriggerKeeps, PublishKeeps, BeginKeeps
  <1>5. ASSUME NEW c \in Callers, CallerStep(c) \/ SendFails(c) \/ CallerCrash(c)
        PROVE  IInv'
    BY <1>5, CallerKeeps
  <1>6. ASSUME NEW e \in Executions, NEW d \in Deliveries,
               Reappear(e, d) \/ Overrun(e, d) \/ Duplicate(e, d) \/ DeadLetter(e, d)
        PROVE  IInv'
    BY <1>6, QueueKeeps
  <1>7. ASSUME NEW e \in Executions, DueArrives(e) \/ TtlPasses(e) \/ LeaseLapses(e)
        PROVE  IInv'
    BY <1>7, ClockKeeps
  <1> QED BY <1>1, <1>2, <1>3, <1>4, <1>5, <1>6, <1>7 DEF Next

\* The invariant is inductive: however many runs, deliverers and callers there
\* are, and whatever fails, every current copy is of the record it is taken
\* for, and every claim is one of the attempts its record counts.
THEOREM Invariance == Spec => []IInv
  <1>1. Init => IInv
    BY InitIInv
  <1>2. IInv /\ [Next]_vars => IInv'
    BY NextKeeps
  <1> QED BY <1>1, <1>2, PTL DEF Spec

\* Every variable keeps its type, so no run is ever given more than
\* MaxAttempts attempts and no delivery is used that was not named.
THEOREM TypeCorrect == Spec => []TypeOK
  <1>1. IInv => TypeOK
    BY DEF IInv
  <1> QED BY <1>1, Invariance, PTL

\* No two deliverers at work on a task run hold the attempt its record names,
\* however late leases are renewed and however often messages come back.
THEOREM SingleOwner == Spec => []OneOwner
  <1>1. IInv => OneOwner
    <2> SUFFICES ASSUME IInv, NEW v \in Deliverers, NEW w \in Deliverers, v # w,
                        Working(v), Working(w), OwnsRun(v), OwnsRun(w),
                        job[v].exec = job[w].exec, Task(job[w].exec)
                 PROVE  FALSE
      BY DEF OneOwner
    <2>1. job[v].attempt # job[w].attempt
      BY DEF IInv, ClaimsOK
    <2> QED BY <2>1 DEF OwnsRun, Owns
  <1> QED BY <1>1, Invariance, PTL
=============================================================================
