------------------------------- MODULE Promotion -------------------------------
(***************************************************************************)
(* What one environment serves: the pointer in the ledger, the releases    *)
(* its promotions name, and the routers that follow it.                    *)
(* pkg/provider/ledger/pointer.go and ledger.go;                           *)
(* pkg/provider/providerserver/promote.go, deploypromote.go, promotions.go *)
(* and reclaim.go; pkg/router/pointermove.go.                              *)
(*                                                                         *)
(* Deploys and rollbacks move the pointer under the environment's lease; a *)
(* prune takes no lease.  Every write of the pointer is a read and a       *)
(* conditional write tried again while stale (records.RetryWhileStale), so *)
(* it is one step.  Everything else - staging, reading, moving a router,   *)
(* destroying a release - is a step of its own.                            *)
(*                                                                         *)
(* A promotion is named by the deploy or the rollback that records it, and *)
(* a release by the deploy that builds it.  Tags, hosts, deployment        *)
(* hostnames, container scaling and inline bindings are left out.          *)
(***************************************************************************)
EXTENDS Naturals, FiniteSets

CONSTANTS
    Deploys,        \* deploys to the environment
    Rollbacks,      \* rollbacks of it
    Prunes,         \* prunes of its promotions
    RouterCount,    \* the routers its apps are served by
    Keep,           \* KeptPromotions: what a promotion keeps
    PruneKeeps,     \* what a prune may be asked to keep
    MaxFaults,      \* bound: faults in one behaviour
    MaxLost,        \* bound: promoters at work under a lost lease
    Nothing         \* no promotion

Promoters == Deploys \cup Rollbacks
Actors    == Promoters \cup Prunes
Routers   == 1 .. RouterCount

ASSUME PromotionAssumption ==
    /\ IsFiniteSet(Promoters)
    /\ Deploys \cap Rollbacks = {} /\ Promoters \cap Prunes = {}
    /\ Nothing \notin Actors
    /\ {RouterCount, Keep} \subseteq Nat \ {0}
    /\ PruneKeeps \subseteq Nat /\ {MaxFaults, MaxLost} \subseteq Nat

VARIABLES
    active,     \* Pointer.Active
    kept,       \* the promotions of Pointer.Promotions
    sequence,   \* Sequence of a promotion
    displaced,  \* Displaced of a promotion, what its promoter replaces
    unpromoted, \* the promotions whose Unpromoted is set
    release,    \* the release a promotion names, or will
    staged,     \* the releases whose record the ledger holds
    up,         \* the releases whose stack exists
    served,     \* the promotion each router serves
    holder,     \* who holds the environment's lease
    lost,       \* those whose hold of it was lost, so their context is done
    at,         \* what each actor is at
    target,     \* the promotion a rollback goes back to
    router,     \* the router a promoter is at
    touched,    \* how many routers it has to restore
    aim,        \* the promotion it is about to serve there
    seen,       \* the promotion it read there
    dropped,    \* promotions its change of the pointer dropped
    doomed,     \* releases it has to destroy
    gone,       \* releases it destroyed and has to forget
    failed,     \* promoters whose promotion did not land
    faults      \* faults so far

pointer  == <<active, kept, sequence, displaced, unpromoted, release>>
releases == <<staged, up>>
lease    == <<holder, lost>>
moving   == <<router, touched, aim, seen>>
reclaim  == <<dropped, doomed, gone, failed>>
vars     == <<pointer, releases, served, lease, at, target, moving, reclaim, faults>>

Moving     == {"recorded", "aiming", "moving", "unpromoting", "restoring", "rewriting"}
Reclaiming == {"served", "reading", "destroying", "owning"}
Phases     == {"idle", "provisioning", "recording", "done"} \cup Moving \cup Reclaiming

Init ==
    /\ active = Nothing /\ kept = {} /\ unpromoted = {}
    /\ sequence = [p \in Promoters |-> 0]
    /\ displaced = [p \in Promoters |-> Nothing]
    /\ release = [p \in Promoters |-> IF p \in Deploys THEN p ELSE Nothing]
    /\ staged = {} /\ up = {}
    /\ served = [r \in Routers |-> Nothing]
    /\ holder = Nothing /\ lost = {}
    /\ at = [a \in Actors |-> "idle"]
    /\ target = [p \in Promoters |-> Nothing]
    /\ router = [p \in Promoters |-> 1] /\ touched = [p \in Promoters |-> 0]
    /\ aim = [p \in Promoters |-> Nothing] /\ seen = [p \in Promoters |-> Nothing]
    /\ dropped = [a \in Actors |-> {}]
    /\ doomed = [a \in Actors |-> {}] /\ gone = [a \in Actors |-> {}]
    /\ failed = {} /\ faults = 0

At(a, s)   == at[a] = s
Goto(a, s) == at' = [at EXCEPT ![a] = s]
Fault      == faults < MaxFaults /\ faults' = faults + 1

-----------------------------------------------------------------------------
(***************************************************************************)
(* The pointer.  The history of a promotion is what it displaced, what     *)
(* that displaced if it was taken back, and so on: the least set that      *)
(* holds the first and is closed under the second.                         *)
(***************************************************************************)
Closed(S, p, K, disp, un) ==
    /\ disp[p] \in K => disp[p] \in S
    /\ \A q \in S \cap un : disp[q] \in K => disp[q] \in S

\* findFallbackChain: none of a promotion that is not recorded.
FallbackChain(p, K, disp, un) ==
    {q \in K : p \in K /\ \A S \in SUBSET K : Closed(S, p, K, disp, un) => q \in S}

\* Mutant: a promotion gives way to whatever it displaced.
FallbackDisplaced(p) == IF displaced[p] \in kept THEN displaced[p] ELSE Nothing

\* findFallback: the last of the chain, when it was not taken back.
Fallback(p) ==
    LET standing == FallbackChain(p, kept, displaced, unpromoted) \ unpromoted
    IN  IF standing = {} THEN Nothing ELSE CHOOSE q \in standing : TRUE

Newer(p, K, seq) == {q \in K : seq[q] > seq[p]}

\* Mutant: only the newest and the active are pinned.
RetainedUnpinned(k, act, K, seq, disp, un) ==
    {p \in K : Cardinality(Newer(p, K, seq)) < k \/ p = act}

\* Retain: the newest k, the active one, and those it may fall back through.
Retained(k, act, K, seq, disp, un) ==
    {p \in K : \/ Cardinality(Newer(p, K, seq)) < k
               \/ p = act
               \/ p \in FallbackChain(act, K, disp, un)}

Named(K) == {release[p] : p \in K}

\* Pointer.Sequence: every sequence a promotion was given is below it.
NextSequence == Cardinality({q \in Promoters : sequence[q] > 0}) + 1

\* Pointer.Promote of a promotion as its promoter drew it up: when what it
\* replaces is still active it becomes the active one, and what Retain does not
\* keep is dropped.
Promote(p) ==
    LET seq == [sequence EXCEPT ![p] = NextSequence]
    IN  /\ active = displaced[p] /\ p \notin kept
        /\ active' = p /\ sequence' = seq
        /\ kept' = Retained(Keep, p, kept \cup {p}, seq, displaced, unpromoted)
        /\ UNCHANGED <<displaced, unpromoted, release>>

\* Pointer.Unpromote
Unpromote(p) ==
    /\ p \in kept
    /\ unpromoted' = unpromoted \cup {p}
    /\ active' = IF active = p THEN Fallback(p) ELSE active
    /\ UNCHANGED <<kept, sequence, displaced, release>>

-----------------------------------------------------------------------------
(***************************************************************************)
(* The lease.  Who lost its hold unwinds in a context of its own, for up   *)
(* to unpromoteWindow, a minute.  Of the lease's margin, a minute too, it  *)
(* may have only half left when it gives up, so another may take the lease *)
(* over while it unwinds.  A promoter that starts while another still      *)
(* moves the pointer is a fault.                                           *)
(***************************************************************************)
Holds(a)  == a \notin lost
Unwinding == {p \in Promoters : at[p] \in Moving}

Take(a) ==
    /\ holder = Nothing /\ holder' = a
    /\ IF Unwinding = {} THEN UNCHANGED faults ELSE Fault
    /\ UNCHANGED lost

\* The environment's lease passes while its holder works, and its context ends.
LoseLease(a) ==
    /\ a \in Promoters /\ holder = a /\ Cardinality(lost) < MaxLost
    /\ holder' = Nothing /\ lost' = lost \cup {a}
    /\ UNCHANGED <<pointer, releases, served, at, target, moving, reclaim, faults>>

\* Its hold ends with the promoter.
LetGo(a) == holder' = (IF holder = a THEN Nothing ELSE holder) /\ lost' = lost \ {a}

\* What a call of MovePointer read ends with it.
Looked(a) ==
    /\ aim' = [aim EXCEPT ![a] = Nothing] /\ seen' = [seen EXCEPT ![a] = Nothing]

\* The process of a promoter dies: what it knew goes with it, and nothing of
\* it is unwound.
Crash(a) ==
    /\ a \in Promoters /\ at[a] \notin {"idle", "done"}
    /\ Fault /\ Goto(a, "done") /\ LetGo(a)
    /\ target' = [target EXCEPT ![a] = Nothing]
    /\ router' = [router EXCEPT ![a] = 1] /\ touched' = [touched EXCEPT ![a] = 0]
    /\ Looked(a)
    /\ dropped' = [dropped EXCEPT ![a] = {}]
    /\ doomed' = [doomed EXCEPT ![a] = {}] /\ gone' = [gone EXCEPT ![a] = {}]
    /\ failed' = failed \ {a}
    /\ UNCHANGED <<pointer, releases, served>>

-----------------------------------------------------------------------------
(***************************************************************************)
(* deployRun.execute and rollBack, up to the record.                       *)
(***************************************************************************)
\* recordProject reads what the deploy will replace.
StartDeploy(d) ==
    /\ d \in Deploys /\ At(d, "idle") /\ Take(d)
    /\ displaced' = [displaced EXCEPT ![d] = active]
    /\ Goto(d, "provisioning")
    /\ UNCHANGED <<active, kept, sequence, unpromoted, release,
                   releases, served, target, moving, reclaim>>

\* rollBack names the release of a promotion it read as recorded.
StartRollback(b) ==
    /\ b \in Rollbacks /\ At(b, "idle") /\ Take(b)
    /\ \E p \in kept :
           /\ target' = [target EXCEPT ![b] = p]
           /\ release' = [release EXCEPT ![b] = release[p]]
    /\ displaced' = [displaced EXCEPT ![b] = active]
    /\ Goto(b, "recording")
    /\ UNCHANGED <<active, kept, sequence, unpromoted, releases, served, moving, reclaim>>

\* A stack stands before its record is staged.
Provision(d) ==
    /\ d \in Deploys /\ At(d, "provisioning") /\ Holds(d)
    /\ up' = up \cup {d}
    /\ \/ staged' = staged \cup {d} /\ Goto(d, "recording")
       \/ UNCHANGED staged /\ Goto(d, "owning")
    /\ UNCHANGED <<pointer, served, lease, target, moving, reclaim, faults>>

\* Mutant: a rollback goes back to what it read, whatever became of it.
ToRecordUnchecked(a) == Promote(a) /\ target' = [target EXCEPT ![a] = Nothing]

\* Ledger.Rollback: what it goes back to must be recorded and have served.
ToRecord(a) ==
    /\ a \in Rollbacks => target[a] \in kept \ unpromoted
    /\ Promote(a)
    /\ target' = [target EXCEPT ![a] = Nothing]

\* promoteRequest.record, after the confirmation of the lease.
Record(a) ==
    /\ a \in Promoters /\ At(a, "recording") /\ Holds(a)
    /\ ToRecord(a)
    /\ dropped' = [dropped EXCEPT ![a] = (kept \cup {a}) \ kept']
    /\ Goto(a, "recorded")
    /\ UNCHANGED <<releases, served, lease, moving, doomed, gone, failed, faults>>

\* The confirmation fails, or the ledger refuses the promotion, or a read or
\* the write fails: the deploy reclaims its own release.
RecordFails(a) ==
    /\ a \in Promoters /\ at[a] \in {"provisioning", "recording"}
    /\ Goto(a, "owning")
    /\ displaced' = [displaced EXCEPT ![a] = Nothing]
    /\ target' = [target EXCEPT ![a] = Nothing]
    /\ UNCHANGED <<active, kept, sequence, unpromoted, release,
                   releases, served, lease, moving, reclaim, faults>>

\* The write lands and its answer is lost: nothing takes the promotion back.
RecordUnanswered(a) ==
    /\ a \in Promoters /\ At(a, "recording")
    /\ Fault /\ ToRecord(a)
    /\ Goto(a, "owning")
    /\ UNCHANGED <<releases, served, lease, moving, reclaim>>

-----------------------------------------------------------------------------
(***************************************************************************)
(* servePromotion: the routers one after another.                          *)
(***************************************************************************)
\* RewriteRecords and readKeptPromotions; when either fails the promotion is
\* taken back and no router has moved.
ReadKept(a) ==
    /\ a \in Promoters /\ At(a, "recorded")
    /\ \/ Holds(a) /\ release[a] \in staged /\ Goto(a, "aiming")
       \/ Goto(a, "unpromoting")
    /\ UNCHANGED <<pointer, releases, served, lease, target, moving, reclaim, faults>>

\* MovePointer reads what the router serves, then asks whether the promotion
\* is still active (PointerMove.RefuseInactive).
Aim(a) ==
    /\ a \in Promoters /\ At(a, "aiming") /\ Holds(a) /\ active = a
    /\ aim' = [aim EXCEPT ![a] = a]
    /\ seen' = [seen EXCEPT ![a] = served[router[a]]]
    /\ Goto(a, "moving")
    /\ UNCHANGED <<pointer, releases, served, lease, target, router, touched, reclaim, faults>>

\* The router takes the move over what was read there, and the next is due.
Move(a) ==
    /\ a \in Promoters /\ At(a, "moving") /\ Holds(a)
    /\ served[router[a]] = seen[a]
    /\ served' = [served EXCEPT ![router[a]] = aim[a]]
    /\ router' = [router EXCEPT ![a] = IF @ = RouterCount THEN 1 ELSE @ + 1]
    /\ Goto(a, IF router[a] = RouterCount THEN "served" ELSE "aiming")
    /\ Looked(a)
    /\ UNCHANGED <<pointer, releases, lease, target, touched, reclaim, faults>>

\* Another promotion moved the router meanwhile: it is read again.
MoveStale(a) ==
    /\ a \in Promoters /\ At(a, "moving")
    /\ served[router[a]] # seen[a]
    /\ Goto(a, "aiming") /\ Looked(a)
    /\ UNCHANGED <<pointer, releases, served, lease, target, router, touched, reclaim, faults>>

\* The n routers that may have moved are the ones to restore.
TakeBack(a, n) ==
    /\ touched' = [touched EXCEPT ![a] = n]
    /\ failed' = failed \cup {a}
    /\ router' = [router EXCEPT ![a] = 1]
    /\ Goto(a, "unpromoting") /\ Looked(a)
    /\ UNCHANGED <<pointer, releases, lease, target, dropped, doomed, gone, faults>>

\* Unserved: the router was not moved.
MoveUnserved(a) ==
    /\ a \in Promoters /\ at[a] \in {"aiming", "moving"}
    /\ TakeBack(a, router[a] - 1)
    /\ UNCHANGED served

\* Mutant: the router that broke is taken for one that was not moved.
MoveBrokenUncounted(a) ==
    /\ a \in Promoters /\ At(a, "moving")
    /\ served[router[a]] = seen[a] /\ served' = [served EXCEPT ![router[a]] = aim[a]]
    /\ TakeBack(a, router[a] - 1)

\* Any other error: it may have moved.
MoveBroken(a) ==
    /\ a \in Promoters /\ At(a, "moving")
    /\ \/ UNCHANGED served
       \/ served[router[a]] = seen[a] /\ served' = [served EXCEPT ![router[a]] = aim[a]]
    /\ TakeBack(a, router[a])

-----------------------------------------------------------------------------
(***************************************************************************)
(* unpromote: in a context of its own, whether or not the lease is held.   *)
(***************************************************************************)
Unpromoting(a) ==
    /\ a \in Promoters /\ At(a, "unpromoting")
    /\ Unpromote(a)
    /\ failed' = failed \cup {a}
    /\ Goto(a, IF touched[a] = 0 THEN "reading" ELSE "restoring")
    /\ UNCHANGED <<releases, served, lease, target, moving, dropped, doomed, gone, faults>>

\* The ledger still names the promotion, and nothing is restored.
UnpromoteFails(a) ==
    /\ a \in Promoters /\ At(a, "unpromoting")
    /\ IF a \in kept THEN Fault ELSE UNCHANGED faults
    /\ failed' = failed \cup {a}
    /\ touched' = [touched EXCEPT ![a] = 0]
    /\ Goto(a, "reading")
    /\ UNCHANGED <<pointer, releases, served, lease, target, router, aim, seen,
                   dropped, doomed, gone>>

NextRestored(a) ==
    LET last == router[a] = touched[a]
    IN  /\ router' = [router EXCEPT ![a] = IF last THEN 1 ELSE @ + 1]
        /\ touched' = [touched EXCEPT ![a] = IF last THEN 0 ELSE @]
        /\ Goto(a, IF last THEN "reading" ELSE "restoring")
        /\ Looked(a)

\* restore reads the active promotion, if any, and, through MovePointer, what
\* the router serves.
RestoreAim(a) ==
    /\ a \in Promoters /\ At(a, "restoring")
    /\ aim' = [aim EXCEPT ![a] = active]
    /\ seen' = [seen EXCEPT ![a] = served[router[a]]]
    /\ Goto(a, "rewriting")
    /\ UNCHANGED <<pointer, releases, served, lease, target, router, touched, reclaim, faults>>

Restore(a) ==
    /\ a \in Promoters /\ At(a, "rewriting") /\ aim[a] # Nothing
    /\ served[router[a]] = seen[a]
    /\ served' = [served EXCEPT ![router[a]] = aim[a]]
    /\ NextRestored(a)
    /\ UNCHANGED <<pointer, releases, lease, target, reclaim, faults>>

\* The router, or the ledger, moved meanwhile: both are read again.
RestoreStale(a) ==
    /\ a \in Promoters /\ At(a, "rewriting") /\ aim[a] # Nothing
    /\ served[router[a]] # seen[a] \/ active # aim[a]
    /\ Goto(a, "restoring") /\ Looked(a)
    /\ UNCHANGED <<pointer, releases, served, lease, target, router, touched, reclaim, faults>>

\* Nothing was active: whatever the router serves is removed, and what is
\* active is read again.
RestoreNothing(a) ==
    /\ a \in Promoters /\ At(a, "rewriting") /\ aim[a] = Nothing
    /\ served' = [served EXCEPT ![router[a]] = Nothing]
    /\ IF active = Nothing THEN NextRestored(a)
       ELSE Goto(a, "restoring") /\ Looked(a) /\ UNCHANGED <<router, touched>>
    /\ UNCHANGED <<pointer, releases, lease, target, reclaim, faults>>

\* restore gives the router up; the others are still restored.
RestoreFails(a) ==
    /\ a \in Promoters /\ at[a] \in {"restoring", "rewriting"}
    /\ Fault /\ NextRestored(a)
    /\ UNCHANGED <<pointer, releases, served, lease, target, reclaim>>

-----------------------------------------------------------------------------
(***************************************************************************)
(* reclaimDropped, reclaimUnnamed, reclaimOwnRelease and prunes.           *)
(***************************************************************************)
\* RemoveStalePromotions: it takes no lease.  One that drops nothing has nothing
\* to reclaim either, and is left out.
Prune(p) ==
    /\ p \in Prunes /\ At(p, "idle")
    /\ \E k \in PruneKeeps :
           kept' = Retained(k, active, kept, sequence, displaced, unpromoted)
    /\ kept' # kept /\ dropped' = [dropped EXCEPT ![p] = kept \ kept']
    /\ Goto(p, "reading")
    /\ UNCHANGED <<active, sequence, displaced, unpromoted, release, releases, served,
                   lease, target, moving, doomed, gone, failed, faults>>

\* checkpointPromoted fails: the deploy ends as failed, its promotion stays.
CheckpointFails(a) ==
    /\ a \in Promoters /\ At(a, "served") /\ Goto(a, "owning")
    /\ dropped' = [dropped EXCEPT ![a] = {}]
    /\ UNCHANGED <<pointer, releases, served, lease, target, moving,
                   doomed, gone, failed, faults>>

\* What follows a reclaim: a deploy that failed reclaims its own release.
Reclaimed(a) ==
    /\ failed' = failed \ {a}
    /\ Goto(a, IF a \in failed THEN "owning" ELSE "done")
    /\ IF a \in failed THEN UNCHANGED lease ELSE LetGo(a)

Reclaim(a, xs) ==
    \/ xs = {} /\ Reclaimed(a) /\ UNCHANGED doomed
    \/ /\ xs # {} /\ doomed' = [doomed EXCEPT ![a] = xs]
       /\ Goto(a, "destroying") /\ UNCHANGED <<lease, failed>>

\* ReadUnnamedRecords: the releases of what was dropped that no promotion
\* still recorded names and whose record is staged; none when the context is
\* done or a read fails.
ReadUnnamed(a) ==
    /\ at[a] \in {"served", "reading"}
    /\ \/ Reclaim(a, {})
       \/ /\ a \in Promoters => Holds(a)
          /\ Reclaim(a, (Named(dropped[a]) \ Named(kept)) \cap staged)
    /\ dropped' = [dropped EXCEPT ![a] = {}]
    /\ UNCHANGED <<pointer, releases, served, target, moving, gone, faults>>

\* Mutant: a deploy that failed reclaims its release though it is recorded.
ReadOwnNamed(a) ==
    /\ a \in Promoters /\ At(a, "owning")
    /\ Reclaim(a, {a} \cap up)
    /\ UNCHANGED <<pointer, releases, served, target, moving, dropped, gone, faults>>

\* Mutant: a rollback reclaims as if it had provisioned something.
ReadOwnUnprovisioned(a) ==
    /\ a \in Promoters /\ At(a, "owning")
    /\ Reclaim(a, {a} \ Named(kept))
    /\ UNCHANGED <<pointer, releases, served, target, moving, dropped, gone, faults>>

\* reclaimProvisioned: the release of a deploy that failed, unless a promotion
\* recorded names it.
ReadOwn(a) ==
    /\ a \in Promoters /\ At(a, "owning")
    /\ Reclaim(a, ({a} \cap up) \ Named(kept))
    /\ UNCHANGED <<pointer, releases, served, target, moving, dropped, gone, faults>>

\* destroyReclaimTarget: the stack goes, then its objects; a failure before,
\* between or after, forgetting it included, leaves the release's record staged.
Destroy(a) ==
    /\ At(a, "destroying")
    /\ \E x \in doomed[a] :
           /\ doomed' = [doomed EXCEPT ![a] = @ \ {x}]
           /\ \/ up' = up \ {x} /\ gone' = [gone EXCEPT ![a] = @ \cup {x}]
              \/ up' \in {up, up \ {x}} /\ UNCHANGED gone
    /\ UNCHANGED <<pointer, staged, served, lease, at, target, moving, dropped, failed, faults>>

\* ForgetUnnamedRecords reads again which releases a promotion names.
Forget(a) ==
    /\ At(a, "destroying") /\ doomed[a] = {}
    /\ staged' = staged \ (gone[a] \ Named(kept))
    /\ gone' = [gone EXCEPT ![a] = {}]
    /\ Reclaimed(a)
    /\ UNCHANGED <<pointer, up, served, target, moving, dropped, doomed, faults>>

-----------------------------------------------------------------------------
Promoting(a) ==
    \/ StartDeploy(a) \/ StartRollback(a) \/ Provision(a)
    \/ Record(a) \/ RecordFails(a) \/ RecordUnanswered(a)
    \/ ReadKept(a) \/ Aim(a) \/ Move(a) \/ MoveStale(a)
    \/ MoveUnserved(a) \/ MoveBroken(a)
    \/ Unpromoting(a) \/ UnpromoteFails(a)
    \/ RestoreAim(a) \/ Restore(a) \/ RestoreStale(a) \/ RestoreNothing(a)
    \/ RestoreFails(a) \/ CheckpointFails(a)

Reclaims(a) ==
    \/ Prune(a) \/ ReadUnnamed(a) \/ ReadOwn(a)
    \/ Destroy(a) \/ Forget(a)

Next == \E a \in Actors : Promoting(a) \/ Reclaims(a) \/ LoseLease(a) \/ Crash(a)

Spec == Init /\ [][Next]_vars

-----------------------------------------------------------------------------
(***************************************************************************)
(* Properties.                                                             *)
(***************************************************************************)
\* Every variable holds a value of its kind.
TypeOK ==
    /\ active \in Promoters \cup {Nothing}
    /\ kept \subseteq Promoters /\ unpromoted \subseteq Promoters
    /\ sequence \in [Promoters -> Nat]
    /\ displaced \in [Promoters -> Promoters \cup {Nothing}]
    /\ release \in [Promoters -> Deploys \cup {Nothing}]
    /\ staged \subseteq Deploys /\ up \subseteq Deploys
    /\ served \in [Routers -> Promoters \cup {Nothing}]
    /\ holder \in Promoters \cup {Nothing} /\ lost \subseteq Promoters
    /\ at \in [Actors -> Phases]
    /\ target \in [Promoters -> Promoters \cup {Nothing}]
    /\ router \in [Promoters -> Routers] /\ touched \in [Promoters -> 0 .. RouterCount]
    /\ aim \in [Promoters -> Promoters \cup {Nothing}]
    /\ seen \in [Promoters -> Promoters \cup {Nothing}]
    /\ dropped \in [Actors -> SUBSET Promoters]
    /\ doomed \in [Actors -> SUBSET Deploys] /\ gone \in [Actors -> SUBSET Deploys]
    /\ failed \subseteq Promoters /\ faults \in Nat

\* The promotions that served and may serve again.
Standing == kept \ unpromoted

\* The pointer names the newest recorded promotion that was not taken back,
\* whoever promoted, took back and pruned in whatever order: a promotion taken
\* back gives way to the one it really followed (findFallbackChain, Retain).
ActiveIsNewest ==
    IF Standing = {} THEN active = Nothing
    ELSE active \in Standing /\ \A q \in Standing : sequence[q] <= sequence[active]

\* What a recorded promotion names exists, stack and record, so it can be
\* rolled back to: reclaims race with rollbacks that name a release again, and
\* a deploy that failed reclaims its own.
KeptIsUp == \A p \in kept : release[p] \in staged \cap up

\* Without faults, every router serves the active promotion once nobody is
\* moving the pointer, whatever router refused or broke and whoever lost its
\* lease on the way.
RoutersFollow ==
    faults = 0 /\ Unwinding = {} => \A r \in Routers : served[r] = active

ServedUp == \A r \in Routers : served[r] # Nothing => release[served[r]] \in up

Restoring == {p \in Promoters : at[p] \in {"restoring", "rewriting"}}

\* Without faults, no release is destroyed while a router still serves it:
\* neither when a promotion waits for the routers it has not reached, nor while
\* one that failed has yet to be taken back.  Routers being restored may serve,
\* until they are, a promotion a prune already dropped.
ServedIsUp == faults = 0 /\ Restoring = {} => ServedUp

\* "The live one always stays": whatever died on the way, no release is gone
\* that a router serves while nobody is at work on the environment, unless its
\* promotion was taken back.
ServedStaysUp ==
    holder = Nothing /\ Unwinding = {} =>
        \A r \in Routers :
            served[r] \notin unpromoted \cup {Nothing} => release[served[r]] \in up

H == INSTANCE PromotionHistory WITH
        names  <- [p \in kept |-> release[p]],
        before <- {e \in kept \X kept : sequence[e[1]] < sequence[e[2]]},
        back   <- kept \cap unpromoted,
        ready  <- staged \cap up

\* The ledger keeps a history: whatever is promoted, taken back, pruned and
\* reclaimed in whatever order, the active promotion gives way to the newest
\* that still stands, which no prune and no promotion dropped, a rollback
\* serves again what a promotion that stands names, and what is named is there.
ImplementsHistory == H!Spec
==============================================================================
