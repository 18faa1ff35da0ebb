---------------------------- MODULE ProjectRemoval ----------------------------
(***************************************************************************)
(* A removal of a whole project against the deploys to its environments:   *)
(* pkg/provider/providerserver/projectremoval.go, deploy.go and            *)
(* provisioninfra.go over the leases of                                    *)
(* pkg/stackrecords/environmentleases.go.                                  *)
(*                                                                         *)
(* EnvironmentLease models how one lease is taken, watched, renewed and    *)
(* lost.  What it is shown to implement, NamedLease, is all that the       *)
(* leases here do: a hold that is `live` keeps its name, and one that is   *)
(* not may be taken over.                                                  *)
(*                                                                         *)
(* A deploy stands for the stack it provisions.                            *)
(***************************************************************************)
EXTENDS FiniteSets

CONSTANTS
    Environments,   \* the environments of one project in one tier
    Named,          \* those a removal takes whatever it reads: production
    Deploys,        \* deploys, in one call or in two with a build between
    Removals,       \* removals of the project
    Project,        \* the name of the project's own lease
    Free            \* the token of an absent lease

Actors == Deploys \cup Removals
Names  == Environments \cup {Project}

ASSUME ProjectRemovalAssumption ==
    /\ Environments # {} /\ Named \subseteq Environments
    /\ Deploys \cap Removals = {}
    /\ Project \notin Environments /\ Free \notin Actors

VARIABLES
    target,     \* the environment each deploy is to
    lease,      \* the token each lease names
    live,       \* the holds whose context is alive, as <<actor, name>>
    at,         \* what each deploy or removal is at
    project,    \* the project is on record
    metas,      \* the environments on record
    stacks,     \* the stacks on record
    up,         \* the stacks that exist at the vendor
    names,      \* the environments each removal takes
    plan,       \* the stacks each removal has to destroy, as it read them
    torn,       \* those of them it has destroyed and not yet forgotten
    amid        \* history: the deploys under way when it read them

leases  == <<lease, live>>
records == <<project, metas, stacks, up>>
reading == <<names, plan, torn, amid>>
vars    == <<target, at, leases, records, reading>>

AtWork   == {"working", "known", "ready", "recorded"}
DeployAt == AtWork \cup {"new", "clear", "leased", "parked", "ending", "gone"}
InRun    == {"destroying", "checking", "forgetting", "forgotten"}
Listed   == {"listing", "taking"} \cup InRun
RemovalAt == Listed \cup {"new", "owner", "opened", "removed", "ending", "gone"}

Init ==
    /\ target \in [Deploys -> Environments]
    /\ lease = [n \in Names |-> Free] /\ live = {}
    /\ at = [a \in Actors |-> "new"]
    /\ project = FALSE /\ metas = {} /\ stacks = {} /\ up = {}
    /\ names = [r \in Removals |-> {}]
    /\ plan = [r \in Removals |-> {}] /\ torn = [r \in Removals |-> {}]
    /\ amid = [r \in Removals |-> {}]

At(a, s) == at[a] = s
Goto(a, s) == at' = [at EXCEPT ![a] = s]
Works(d) == at[d] \in AtWork
Runs(r)  == at[r] \in InRun

-----------------------------------------------------------------------------
(***************************************************************************)
(* The leases.                                                             *)
(***************************************************************************)
HeldByOther(a, n) == lease[n] \notin {Free, a}

\* takeLease: over nothing, over one's own token, or over a hold that was
\* watched until it must have given up.
CanTake(a, n) == ~HeldByOther(a, n) \/ <<lease[n], n>> \notin live

Hold(a, n) ==
    /\ CanTake(a, n)
    /\ lease' = [lease EXCEPT ![n] = a]
    /\ live' = live \cup {<<a, n>>}

\* end: a's work is over, or was refused, and its holds are renewed no more.
Drops(a) == live' = {h \in live : h[1] # a}

\* What a removal read goes with it.
Unreads(a) ==
    /\ names' = [r \in Removals |-> IF r = a THEN {} ELSE names[r]]
    /\ plan'  = [r \in Removals |-> IF r = a THEN {} ELSE plan[r]]
    /\ torn'  = [r \in Removals |-> IF r = a THEN {} ELSE torn[r]]
    /\ amid'  = [r \in Removals |-> IF r = a THEN {} ELSE amid[r]]

Stops(a) == Goto(a, "ending") /\ Drops(a) /\ Unreads(a) /\ UNCHANGED lease

\* forgetLease: the record is removed if it still names a.
Forget(a, n) == lease' = [lease EXCEPT ![n] = IF @ = a THEN Free ELSE @]

\* What a may have asked a lease for.
Wanted(a) == IF a \in Deploys THEN {target[a]} ELSE Names

\* A write that a gave up on lands, over nobody's live hold.
LandsLate(a) ==
    /\ at[a] \in {"ending", "gone"}
    /\ \E n \in Wanted(a) : CanTake(a, n) /\ lease' = [lease EXCEPT ![n] = a]
    /\ UNCHANGED <<target, live, at, records, reading>>

\* A step of the work fails, or a hold could not be renewed in time and all
\* that runs under it is canceled: the call returns its error.  What was
\* canceled is taken to be over by then; only writes of leases land later.
Fails(a) ==
    /\ at[a] \notin {"new", "clear", "ending", "gone"}
    /\ Stops(a)
    /\ UNCHANGED <<target, records>>

\* The process dies, or its last lease could not be removed.
Crash(a) ==
    /\ at[a] \notin {"new", "gone"}
    /\ Goto(a, "gone") /\ Drops(a) /\ Unreads(a)
    /\ UNCHANGED <<target, lease, records>>

-----------------------------------------------------------------------------
(***************************************************************************)
(* Deploys.                                                                *)
(***************************************************************************)
\* forgetStoppedProjectLease: a removal of the project that is running
\* refuses the deploy, the lease of one that stopped is removed.
ForgetStoppedProject(d) ==
    /\ At(d, "new") \/ At(d, "parked")
    /\ \/ CanTake(d, Project) /\ lease' = [lease EXCEPT ![Project] = Free]
                              /\ Goto(d, "clear") /\ UNCHANGED <<live, reading>>
       \/ HeldByOther(d, Project) /\ Stops(d)
    /\ UNCHANGED <<target, records>>

TakeEnvironment(d) ==
    /\ At(d, "clear")
    /\ \/ Hold(d, target[d]) /\ Goto(d, "leased") /\ UNCHANGED reading
       \/ HeldByOther(d, target[d]) /\ Stops(d)
    /\ UNCHANGED <<target, records>>

\* Mutant: a deploy that looks at the project's lease only before it takes its own.
ProjectUnchecked(d) == TRUE

ProjectFree(d) == ~HeldByOther(d, Project)

\* refuseHeldProject: a removal may have taken the project meanwhile.
CheckProject(d) ==
    /\ At(d, "leased")
    /\ \/ ProjectFree(d) /\ Goto(d, "working") /\ UNCHANGED <<leases, reading>>
       \/ ~ProjectFree(d) /\ Stops(d)
    /\ UNCHANGED <<target, records>>

\* rememberProject, ensureProject: the project goes on record first,
RecordProject(d) ==
    /\ At(d, "working") /\ Goto(d, "known")
    /\ project' = TRUE
    /\ UNCHANGED <<target, leases, metas, stacks, up, reading>>

\* ensureLifecycle: then the environment,
RecordEnvironment(d) ==
    /\ At(d, "known") /\ Goto(d, "ready")
    /\ metas' = metas \cup {target[d]}
    /\ UNCHANGED <<target, leases, project, stacks, up, reading>>

\* recordInfraStack, recordAppStack: then each stack,
RecordStack(d) ==
    /\ At(d, "ready") /\ Goto(d, "recorded")
    /\ stacks' = stacks \cup {d}
    /\ UNCHANGED <<target, leases, project, metas, up, reading>>

\* Stacks().Provision: before the stack is made.
Provision(d) ==
    /\ At(d, "recorded") /\ Goto(d, "ready")
    /\ up' = up \cup {d}
    /\ UNCHANGED <<target, leases, project, metas, stacks, reading>>

\* ProvisionInfra ends with the lease still recorded while the CLI builds.
Park(d) ==
    /\ At(d, "ready") /\ Goto(d, "parked") /\ Drops(d)
    /\ UNCHANGED <<target, lease, records, reading>>

\* Mutant: Deploy takes its environment again.
KeepByTaking(d) ==
    /\ At(d, "parked")
    /\ Hold(d, target[d]) /\ Goto(d, "working")
    /\ UNCHANGED <<target, records, reading>>

\* keep: Deploy goes on only under the lease its provisioning took.
Keep(d) ==
    /\ At(d, "parked")
    /\ \/ lease[target[d]] = d /\ Hold(d, target[d]) /\ Goto(d, "working") /\ UNCHANGED reading
       \/ lease[target[d]] # d /\ Stops(d)
    /\ UNCHANGED <<target, records>>

Finish(d) ==
    /\ At(d, "ready") /\ Stops(d)
    /\ UNCHANGED <<target, records>>

\* release, AbandonDeploy, or the cleanup of a take the project refused.
ReleaseDeploy(d) ==
    /\ At(d, "ending") /\ Goto(d, "gone")
    /\ Forget(d, target[d])
    /\ UNCHANGED <<target, live, records, reading>>

Deploy(d) ==
    \/ ForgetStoppedProject(d) \/ TakeEnvironment(d) \/ CheckProject(d)
    \/ RecordProject(d) \/ RecordEnvironment(d) \/ RecordStack(d) \/ Provision(d)
    \/ Park(d) \/ Keep(d) \/ Finish(d) \/ ReleaseDeploy(d)

-----------------------------------------------------------------------------
(***************************************************************************)
(* Removals.                                                               *)
(***************************************************************************)
TakeProject(r) ==
    /\ At(r, "new")
    /\ \/ Hold(r, Project) /\ Goto(r, "owner") /\ UNCHANGED reading
       \/ HeldByOther(r, Project) /\ Stops(r)
    /\ UNCHANGED <<target, records>>

\* openRemoval: what is to be destroyed is read once, here.
OpenRemoval(r) ==
    /\ At(r, "owner") /\ Goto(r, "opened")
    /\ plan' = [plan EXCEPT ![r] = stacks]
    /\ amid' = [amid EXCEPT ![r] = {d \in Deploys : Works(d) \/ At(d, "parked")}]
    /\ UNCHANGED <<target, leases, records, names, torn>>

\* Mutant: the project's own lease is listed with those of its environments.
LeasedAnywhere == {n \in Names : lease[n] # Free}

Leased == {e \in Environments : lease[e] # Free}

\* listRemovedEnvironments: those of the stacks, those with a lease,
ListLeases(r) ==
    /\ At(r, "opened") /\ Goto(r, "listing")
    /\ names' = [names EXCEPT ![r] = Named \cup {target[s] : s \in plan[r]} \cup Leased]
    /\ UNCHANGED <<target, leases, records, plan, torn, amid>>

\* and those on record.
ListEnvironments(r) ==
    /\ At(r, "listing") /\ Goto(r, "taking")
    /\ names' = [names EXCEPT ![r] = @ \cup metas]
    /\ UNCHANGED <<target, leases, records, plan, torn, amid>>

\* takeEach: all of them at once, and all are let go when one is refused.
TakeEach(r, e) ==
    /\ At(r, "taking") /\ e \in names[r] /\ <<r, e>> \notin live
    /\ \/ Hold(r, e) /\ UNCHANGED <<at, reading>>
       \/ HeldByOther(r, e) /\ Stops(r)
    /\ UNCHANGED <<target, records>>

AllTaken(r) ==
    /\ At(r, "taking") /\ Goto(r, "destroying")
    /\ \A e \in names[r] : <<r, e>> \in live
    /\ UNCHANGED <<target, leases, records, reading>>

\* destroyStack: the stack first,
DestroyStack(r, s) ==
    /\ At(r, "destroying") /\ s \in plan[r] \ torn[r]
    /\ up' = up \ {s}
    /\ torn' = [torn EXCEPT ![r] = @ \cup {s}]
    /\ UNCHANGED <<target, at, leases, project, metas, stacks, names, plan, amid>>

\* its record after.
ForgetStack(r, s) ==
    /\ At(r, "destroying") /\ s \in torn[r]
    /\ stacks' = stacks \ {s}
    /\ plan' = [plan EXCEPT ![r] = @ \ {s}]
    /\ torn' = [torn EXCEPT ![r] = @ \ {s}]
    /\ UNCHANGED <<target, at, leases, project, metas, up, names, amid>>

AllDestroyed(r) ==
    /\ At(r, "destroying") /\ plan[r] = {} /\ Goto(r, "checking")
    /\ UNCHANGED <<target, leases, records, reading>>

\* Mutant: a project is forgotten whatever is left of it.
NothingCounted == TRUE

NothingLeft == stacks = {}

\* forgetProjectIfEmpty: a stack still on record keeps its project there.
CheckEmpty(r) ==
    /\ At(r, "checking")
    /\ Goto(r, IF NothingLeft THEN "forgetting" ELSE "removed")
    /\ UNCHANGED <<target, leases, records, reading>>

ForgetEnvironments(r) ==
    /\ At(r, "forgetting") /\ Goto(r, "forgotten")
    /\ metas' = {}
    /\ UNCHANGED <<target, leases, project, stacks, up, reading>>

ForgetProject(r) ==
    /\ At(r, "forgotten") /\ Goto(r, "removed")
    /\ project' = FALSE
    /\ UNCHANGED <<target, leases, metas, stacks, up, reading>>

\* The removal has succeeded, and its holds end.
EndRemoval(r) ==
    /\ At(r, "removed") /\ Stops(r)
    /\ UNCHANGED <<target, records>>

\* release: the environments, then the project; one that cannot be removed is
\* left to run out.
ReleaseRemoval(r, n) ==
    /\ At(r, "ending")
    /\ Forget(r, n)
    /\ IF n = Project THEN Goto(r, "gone") ELSE UNCHANGED at
    /\ UNCHANGED <<target, live, records, reading>>

Remove(r) ==
    \/ TakeProject(r) \/ OpenRemoval(r) \/ ListLeases(r) \/ ListEnvironments(r)
    \/ \E e \in Environments : TakeEach(r, e)
    \/ AllTaken(r)
    \/ \E s \in Deploys : DestroyStack(r, s) \/ ForgetStack(r, s)
    \/ AllDestroyed(r) \/ CheckEmpty(r) \/ ForgetEnvironments(r) \/ ForgetProject(r)
    \/ EndRemoval(r)
    \/ \E n \in Names : ReleaseRemoval(r, n)

Next ==
    \/ \E d \in Deploys : Deploy(d)
    \/ \E r \in Removals : Remove(r)
    \/ \E a \in Actors : LandsLate(a) \/ Fails(a) \/ Crash(a)

Spec == Init /\ [][Next]_vars

-----------------------------------------------------------------------------
\* Every variable keeps its type.
TypeOK ==
    /\ target \in [Deploys -> Environments]
    /\ lease \in [Names -> Actors \cup {Free}]
    /\ live \subseteq Actors \X Names
    /\ at \in [Actors -> DeployAt \cup RemovalAt]
    /\ project \in BOOLEAN
    /\ metas \subseteq Environments
    /\ stacks \subseteq Deploys /\ up \subseteq Deploys
    /\ names \in [Removals -> SUBSET Environments]
    /\ plan \in [Removals -> SUBSET Deploys]
    /\ torn \in [Removals -> SUBSET Deploys] /\ amid \in [Removals -> SUBSET Deploys]

\* While a removal destroys and forgets what a project has, no deploy works on
\* any environment of it, not even on one the removal never heard of, and no
\* other removal of it runs ("holds every preview of shop").
RemovesAlone ==
    \A r \in Removals :
        Runs(r) => /\ \A d \in Deploys : ~Works(d)
                   /\ \A q \in Removals : Runs(q) => q = r

\* Whatever exists at the vendor is on record, and belongs to a project on
\* record, so that a later removal finds it: however deploys and removals
\* fail, crash or lose their leases half way.
NothingOrphaned == up \subseteq stacks /\ (stacks # {} => project)

P == INSTANCE ProjectAccess WITH
        working  <- {d \in Deploys : Works(d)},
        removing <- {r \in Removals : Runs(r)}

\* Deploys and removals change the stacks of a project in turn: whatever was
\* read before a lease was held, a stack is made only by a deploy that is alone
\* on its environment and no removal beside it, destroyed only by a removal
\* that is alone on the project, and on record from before it is made until it
\* is gone.
ImplementsAccess == P!Spec

\* One of the leases, on the name n.
LeaseOn(n) == INSTANCE NamedLease WITH
        Holders <- Actors,
        lease   <- lease[n],
        live    <- {a \in Actors : <<a, n>> \in live}

\* A removal that succeeds leaves nothing but what was put on record amid it: by
\* a deploy that was under way when it read, under the project's lease, what to
\* destroy, and that ended, or died, before its environment was taken.
LeavesOnlyAmid ==
    [][\A r \in Removals : Runs(r) /\ at'[r] = "removed" => stacks' \subseteq amid[r]]_vars

\* A removal that succeeds leaves nothing of the project ("Permanently destroy
\* a project: ... its resources ... and every app").
LeavesNothing ==
    [][\A r \in Removals : Runs(r) /\ at'[r] = "removed" => stacks' = {}]_vars

-----------------------------------------------------------------------------
(***************************************************************************)
(* Why: the inductive invariant ProjectRemoval_proofs proves.              *)
(***************************************************************************)
KindsOK ==
    /\ \A d \in Deploys : at[d] \in DeployAt
    /\ \A r \in Removals : at[r] \in RemovalAt

\* A live hold is the one its lease names; nobody holds on when it has ended,
\* and no deploy holds the project.
LiveNamed ==
    \A a \in Actors, n \in Names :
        <<a, n>> \in live => /\ lease[n] = a
                             /\ at[a] \notin {"ending", "gone"}
                             /\ a \in Deploys => n # Project

DeploysHold ==
    \A d \in Deploys : Works(d) \/ At(d, "leased") => <<d, target[d]>> \in live

RemovalsHold ==
    \A r \in Removals :
        /\ at[r] \in {"owner", "opened"} \cup Listed => <<r, Project>> \in live
        /\ Runs(r) => \A e \in names[r] : <<r, e>> \in live

\* Once a removal has listed what to take, every deploy that still holds its
\* environment is to one it listed: no other gets past the project's lease.
NamesCover ==
    \A r \in Removals, d \in Deploys :
        at[r] \in Listed /\ (Works(d) \/ At(d, "parked")) /\ lease[target[d]] = d
            => target[d] \in names[r]

\* What a deploy has put on record stays there while it works.
DeploysRecorded ==
    \A d \in Deploys :
        /\ at[d] \in {"known", "ready", "recorded"} => project
        /\ At(d, "recorded") => d \in stacks

RemovalsRead ==
    \A r \in Removals :
        /\ Runs(r) => torn[r] \cap up = {}
        /\ at[r] \in {"new", "owner", "opened", "listing", "taking"} => torn[r] = {}
        /\ at[r] \in {"forgetting", "forgotten"} => stacks = {}

IInv ==
    /\ TypeOK /\ KindsOK /\ LiveNamed /\ DeploysHold /\ RemovalsHold
    /\ NamesCover /\ DeploysRecorded /\ RemovalsRead /\ NothingOrphaned

\* Once a removal has read what there is, only deploys that were under way then
\* get past the project's lease, so only they add to it.
AmidReading ==
    \A r \in Removals :
        /\ at[r] \in {"opened"} \cup Listed =>
               /\ stacks \subseteq plan[r] \cup amid[r]
               /\ {d \in Deploys : Works(d) \/ At(d, "parked")} \subseteq amid[r]
        /\ at[r] \in {"checking", "forgetting", "forgotten"} => plan[r] = {}
==============================================================================
