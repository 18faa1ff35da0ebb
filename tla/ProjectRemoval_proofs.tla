------------------------ MODULE ProjectRemoval_proofs -------------------------
(***************************************************************************)
(* Proofs about the removal of a project, for any environments, deploys    *)
(* and removals.                                                           *)
(*                                                                         *)
(* The argument: a removal that runs holds the project and every           *)
(* environment it listed (RemovalsHold). A deploy that works holds its own *)
(* (DeploysHold), and it either was past the project's check when the      *)
(* removal listed the leases, so that its environment is among those       *)
(* listed (NamesCover), or it was refused by the project's lease. Since a  *)
(* name has one live hold (LiveNamed), the two exclude each other (Alone), *)
(* and what a removal does to the records disturbs no deploy, nor the      *)
(* other way round.                                                        *)
(***************************************************************************)
EXTENDS ProjectRemoval, TLAPS

USE ProjectRemovalAssumption
    DEF ProjectRemovalAssumption, Actors, Names, At, Goto, Stops, Drops, Unreads, Forget, Hold,
        CanTake, HeldByOther, leases, records, reading

\* Whoever runs a removal works alone: the whole of RemovesAlone.
LEMMA Alone == IInv => RemovesAlone
  <1> SUFFICES ASSUME IInv, NEW r \in Removals, Runs(r)
               PROVE  /\ \A d \in Deploys : ~Works(d)
                      /\ \A q \in Removals : Runs(q) => q = r
    BY DEF RemovesAlone
  <1>1. ASSUME NEW d \in Deploys, Works(d) PROVE FALSE
    <2>1. target[d] \in Names /\ target[d] \in Environments  BY DEF IInv, TypeOK
    <2>2. lease[target[d]] = d
      BY <1>1, <2>1 DEF IInv, DeploysHold, LiveNamed
    <2>3. target[d] \in names[r]
      BY <1>1, <2>2 DEF IInv, NamesCover, Runs, Listed
    <2>4. lease[target[d]] = r
      BY <2>1, <2>3 DEF IInv, RemovalsHold, LiveNamed
    <2> QED  BY <2>2, <2>4
  <1>2. ASSUME NEW q \in Removals, Runs(q) PROVE q = r
    <2>1. <<q, Project>> \in live /\ <<r, Project>> \in live
      BY <1>2 DEF IInv, RemovalsHold, Runs, Listed
    <2> QED  BY <2>1 DEF IInv, LiveNamed
  <1> QED  BY <1>1, <1>2

LEMMA Initially == Init => IInv
  BY DEF Init, IInv, TypeOK, KindsOK, LiveNamed, DeploysHold, RemovalsHold, NamesCover,
         DeploysRecorded, RemovalsRead, NothingOrphaned, DeployAt, RemovalAt, AtWork,
         Listed, InRun, Works, Runs

-----------------------------------------------------------------------------
(***************************************************************************)
(* The steps both kinds of actor take.                                     *)
(***************************************************************************)
USE DEF DeployAt, RemovalAt, AtWork, Listed, InRun, Works, Runs

\* An actor that stops holds nothing any more and disturbs nobody.
LEMMA Ending ==
    ASSUME IInv, NEW a \in Actors, at[a] # "gone",
           at' = [at EXCEPT ![a] = "ending"] \/ at' = [at EXCEPT ![a] = "gone"],
           Drops(a), Unreads(a), UNCHANGED <<target, lease, records>>
    PROVE  IInv'
  <1>1. TypeOK' /\ KindsOK' /\ LiveNamed'
    BY DEF IInv, TypeOK, KindsOK, LiveNamed
  <1>2. DeploysHold' /\ RemovalsHold'
    BY DEF IInv, TypeOK, DeploysHold, RemovalsHold
  <1>3. NamesCover' /\ DeploysRecorded' /\ RemovalsRead' /\ NothingOrphaned'
    BY DEF IInv, TypeOK, NamesCover, DeploysRecorded, RemovalsRead, NothingOrphaned
  <1> QED  BY <1>1, <1>2, <1>3 DEF IInv

\* A write that lands late takes nothing from a live hold, and its actor is
\* not one that a removal counts on meeting.
LEMMA LandsLateStep ==
    ASSUME IInv, NEW a \in Actors, LandsLate(a)
    PROVE  IInv'
  <1>1. TypeOK' /\ KindsOK' /\ LiveNamed'
    BY DEF LandsLate, Wanted, IInv, TypeOK, KindsOK, LiveNamed
  <1>2. DeploysHold' /\ RemovalsHold'
    BY DEF LandsLate, Wanted, IInv, TypeOK, DeploysHold, RemovalsHold
  <1>3. NamesCover'
    BY DEF LandsLate, Wanted, IInv, TypeOK, KindsOK, NamesCover
  <1>4. DeploysRecorded' /\ RemovalsRead' /\ NothingOrphaned'
    BY DEF LandsLate, Wanted, IInv, TypeOK, DeploysRecorded, RemovalsRead, NothingOrphaned
  <1> QED  BY <1>1, <1>2, <1>3, <1>4 DEF IInv

-----------------------------------------------------------------------------
(***************************************************************************)
(* The steps of a deploy.                                                  *)
(***************************************************************************)
\* The lease it removes is nobody's live hold.
LEMMA ForgetStoppedProjectStep ==
    ASSUME IInv, NEW d \in Deploys, ForgetStoppedProject(d)
    PROVE  IInv'
  <1>1. TypeOK' /\ KindsOK' /\ LiveNamed'
    BY DEF ForgetStoppedProject, IInv, TypeOK, KindsOK, LiveNamed
  <1>2. DeploysHold' /\ RemovalsHold'
    BY DEF ForgetStoppedProject, IInv, TypeOK, LiveNamed, DeploysHold, RemovalsHold
  <1>3. NamesCover'
    BY DEF ForgetStoppedProject, IInv, TypeOK, KindsOK, NamesCover
  <1>4. DeploysRecorded' /\ RemovalsRead' /\ NothingOrphaned'
    BY DEF ForgetStoppedProject, IInv, TypeOK, KindsOK, DeploysRecorded, RemovalsRead,
           NothingOrphaned
  <1> QED  BY <1>1, <1>2, <1>3, <1>4 DEF IInv

\* What it takes over is nobody's live hold.
LEMMA TakeEnvironmentStep ==
    ASSUME IInv, NEW d \in Deploys, TakeEnvironment(d)
    PROVE  IInv'
  <1>1. TypeOK' /\ KindsOK' /\ LiveNamed'
    BY DEF TakeEnvironment, IInv, TypeOK, KindsOK, LiveNamed
  <1>2. DeploysHold' /\ RemovalsHold'
    BY DEF TakeEnvironment, IInv, TypeOK, LiveNamed, DeploysHold, RemovalsHold
  <1>3. NamesCover'
    BY DEF TakeEnvironment, IInv, TypeOK, KindsOK, NamesCover
  <1>4. DeploysRecorded' /\ RemovalsRead' /\ NothingOrphaned'
    BY DEF TakeEnvironment, IInv, TypeOK, KindsOK, DeploysRecorded, RemovalsRead,
           NothingOrphaned
  <1> QED  BY <1>1, <1>2, <1>3, <1>4 DEF IInv

\* No removal has listed anything while the project is free.
LEMMA CheckProjectStep ==
    ASSUME IInv, NEW d \in Deploys, CheckProject(d)
    PROVE  IInv'
  <1>1. TypeOK' /\ KindsOK' /\ LiveNamed'
    BY DEF CheckProject, ProjectFree, IInv, TypeOK, KindsOK, LiveNamed
  <1>2. DeploysHold' /\ RemovalsHold'
    BY DEF CheckProject, ProjectFree, IInv, TypeOK, LiveNamed, DeploysHold, RemovalsHold
  <1>3. NamesCover'
    <2>1. CASE ~ProjectFree(d)
      BY <2>1 DEF CheckProject, IInv, TypeOK, KindsOK, NamesCover
    <2>2. ASSUME ProjectFree(d), NEW r \in Removals, at[r] \in Listed PROVE FALSE
      <3>1. <<r, Project>> \in live  BY <2>2 DEF IInv, RemovalsHold
      <3>2. lease[Project] = r  BY <3>1 DEF IInv, LiveNamed
      <3> QED  BY <2>2, <3>2 DEF ProjectFree
    <2>3. CASE ProjectFree(d)
      <3>1. \A r \in Removals : at'[r] \notin Listed
        BY <2>2, <2>3 DEF CheckProject, IInv, TypeOK
      <3> QED  BY <3>1 DEF NamesCover
    <2> QED  BY <2>1, <2>3
  <1>4. DeploysRecorded' /\ RemovalsRead' /\ NothingOrphaned'
    BY DEF CheckProject, ProjectFree, IInv, TypeOK, KindsOK, DeploysRecorded, RemovalsRead,
           NothingOrphaned
  <1> QED  BY <1>1, <1>2, <1>3, <1>4 DEF IInv

\* It only adds to what is on record.
LEMMA RecordProjectStep ==
    ASSUME IInv, NEW d \in Deploys, RecordProject(d)
    PROVE  IInv'
  <1>1. TypeOK' /\ KindsOK' /\ LiveNamed'
    BY DEF RecordProject, IInv, TypeOK, KindsOK, LiveNamed
  <1>2. DeploysHold' /\ RemovalsHold'
    BY DEF RecordProject, IInv, TypeOK, LiveNamed, DeploysHold, RemovalsHold
  <1>3. NamesCover'
    BY DEF RecordProject, IInv, TypeOK, KindsOK, NamesCover
  <1>4. DeploysRecorded' /\ RemovalsRead' /\ NothingOrphaned'
    BY DEF RecordProject, IInv, TypeOK, KindsOK, DeploysRecorded, RemovalsRead,
           NothingOrphaned
  <1> QED  BY <1>1, <1>2, <1>3, <1>4 DEF IInv

\* It only adds to what is on record.
LEMMA RecordEnvironmentStep ==
    ASSUME IInv, NEW d \in Deploys, RecordEnvironment(d)
    PROVE  IInv'
  <1>1. TypeOK' /\ KindsOK' /\ LiveNamed'
    BY DEF RecordEnvironment, IInv, TypeOK, KindsOK, LiveNamed
  <1>2. DeploysHold' /\ RemovalsHold'
    BY DEF RecordEnvironment, IInv, TypeOK, LiveNamed, DeploysHold, RemovalsHold
  <1>3. NamesCover'
    BY DEF RecordEnvironment, IInv, TypeOK, KindsOK, NamesCover
  <1>4. DeploysRecorded' /\ RemovalsRead' /\ NothingOrphaned'
    BY DEF RecordEnvironment, IInv, TypeOK, KindsOK, DeploysRecorded, RemovalsRead,
           NothingOrphaned
  <1> QED  BY <1>1, <1>2, <1>3, <1>4 DEF IInv

\* No removal runs, so none counts on there being no stack.
LEMMA RecordStackStep ==
    ASSUME IInv, NEW d \in Deploys, RecordStack(d)
    PROVE  IInv'
  <1>a. RemovesAlone  BY Alone
  <1>1. TypeOK' /\ KindsOK' /\ LiveNamed'
    BY DEF RecordStack, IInv, TypeOK, KindsOK, LiveNamed
  <1>2. DeploysHold' /\ RemovalsHold'
    BY DEF RecordStack, IInv, TypeOK, LiveNamed, DeploysHold, RemovalsHold
  <1>3. NamesCover'
    BY DEF RecordStack, IInv, TypeOK, KindsOK, NamesCover
  <1>4. DeploysRecorded' /\ RemovalsRead' /\ NothingOrphaned'
    BY <1>a DEF RecordStack, IInv, TypeOK, KindsOK, DeploysRecorded, RemovalsRead,
           NothingOrphaned, RemovesAlone
  <1> QED  BY <1>1, <1>2, <1>3, <1>4 DEF IInv

\* No removal runs, so none has destroyed this stack.
LEMMA ProvisionStep ==
    ASSUME IInv, NEW d \in Deploys, Provision(d)
    PROVE  IInv'
  <1>a. RemovesAlone  BY Alone
  <1>1. TypeOK' /\ KindsOK' /\ LiveNamed'
    BY DEF Provision, IInv, TypeOK, KindsOK, LiveNamed
  <1>2. DeploysHold' /\ RemovalsHold'
    BY DEF Provision, IInv, TypeOK, LiveNamed, DeploysHold, RemovalsHold
  <1>3. NamesCover'
    BY DEF Provision, IInv, TypeOK, KindsOK, NamesCover
  <1>4. DeploysRecorded' /\ RemovalsRead' /\ NothingOrphaned'
    BY <1>a DEF Provision, IInv, TypeOK, KindsOK, DeploysRecorded, RemovalsRead,
           NothingOrphaned, RemovesAlone
  <1> QED  BY <1>1, <1>2, <1>3, <1>4 DEF IInv

\* Its lease still names it, but it holds nothing.
LEMMA ParkStep ==
    ASSUME IInv, NEW d \in Deploys, Park(d)
    PROVE  IInv'
  <1>1. TypeOK' /\ KindsOK' /\ LiveNamed'
    BY DEF Park, IInv, TypeOK, KindsOK, LiveNamed
  <1>2. DeploysHold' /\ RemovalsHold'
    BY DEF Park, IInv, TypeOK, LiveNamed, DeploysHold, RemovalsHold
  <1>3. NamesCover'
    BY DEF Park, IInv, TypeOK, KindsOK, NamesCover
  <1>4. DeploysRecorded' /\ RemovalsRead' /\ NothingOrphaned'
    BY DEF Park, IInv, TypeOK, KindsOK, DeploysRecorded, RemovalsRead,
           NothingOrphaned
  <1> QED  BY <1>1, <1>2, <1>3, <1>4 DEF IInv

\* Its lease named it all along, so a removal that listed leases listed it.
LEMMA KeepStep ==
    ASSUME IInv, NEW d \in Deploys, Keep(d)
    PROVE  IInv'
  <1>1. TypeOK' /\ KindsOK' /\ LiveNamed'
    BY DEF Keep, IInv, TypeOK, KindsOK, LiveNamed
  <1>2. DeploysHold' /\ RemovalsHold'
    BY DEF Keep, IInv, TypeOK, LiveNamed, DeploysHold, RemovalsHold
  <1>3. NamesCover'
    BY DEF Keep, IInv, TypeOK, KindsOK, NamesCover
  <1>4. DeploysRecorded' /\ RemovalsRead' /\ NothingOrphaned'
    BY DEF Keep, IInv, TypeOK, KindsOK, DeploysRecorded, RemovalsRead,
           NothingOrphaned
  <1> QED  BY <1>1, <1>2, <1>3, <1>4 DEF IInv

\* A deploy that releases holds nothing.
LEMMA ReleaseDeployStep ==
    ASSUME IInv, NEW d \in Deploys, ReleaseDeploy(d)
    PROVE  IInv'
  <1>1. TypeOK' /\ KindsOK' /\ LiveNamed'
    BY DEF ReleaseDeploy, IInv, TypeOK, KindsOK, LiveNamed
  <1>2. DeploysHold' /\ RemovalsHold'
    BY DEF ReleaseDeploy, IInv, TypeOK, LiveNamed, DeploysHold, RemovalsHold
  <1>3. NamesCover'
    BY DEF ReleaseDeploy, IInv, TypeOK, KindsOK, NamesCover
  <1>4. DeploysRecorded' /\ RemovalsRead' /\ NothingOrphaned'
    BY DEF ReleaseDeploy, IInv, TypeOK, KindsOK, DeploysRecorded, RemovalsRead,
           NothingOrphaned
  <1> QED  BY <1>1, <1>2, <1>3, <1>4 DEF IInv

-----------------------------------------------------------------------------
(***************************************************************************)
(* The steps of a removal.                                                 *)
(***************************************************************************)
\* What it takes over is nobody's live hold.
LEMMA TakeProjectStep ==
    ASSUME IInv, NEW r \in Removals, TakeProject(r)
    PROVE  IInv'
  <1>1. TypeOK' /\ KindsOK' /\ LiveNamed'
    BY DEF TakeProject, IInv, TypeOK, KindsOK, LiveNamed
  <1>2. DeploysHold' /\ RemovalsHold'
    BY DEF TakeProject, IInv, TypeOK, LiveNamed, DeploysHold, RemovalsHold
  <1>3. NamesCover'
    BY DEF TakeProject, IInv, TypeOK, KindsOK, NamesCover
  <1>4. DeploysRecorded' /\ RemovalsRead' /\ NothingOrphaned'
    BY DEF TakeProject, IInv, TypeOK, KindsOK, DeploysRecorded, RemovalsRead,
           NothingOrphaned
  <1> QED  BY <1>1, <1>2, <1>3, <1>4 DEF IInv

\* It has destroyed nothing yet.
LEMMA OpenRemovalStep ==
    ASSUME IInv, NEW r \in Removals, OpenRemoval(r)
    PROVE  IInv'
  <1>1. TypeOK' /\ KindsOK' /\ LiveNamed'
    BY DEF OpenRemoval, IInv, TypeOK, KindsOK, LiveNamed
  <1>2. DeploysHold' /\ RemovalsHold'
    BY DEF OpenRemoval, IInv, TypeOK, LiveNamed, DeploysHold, RemovalsHold
  <1>3. NamesCover'
    BY DEF OpenRemoval, IInv, TypeOK, KindsOK, NamesCover
  <1>4. DeploysRecorded' /\ RemovalsRead' /\ NothingOrphaned'
    BY DEF OpenRemoval, IInv, TypeOK, KindsOK, DeploysRecorded, RemovalsRead,
           NothingOrphaned
  <1> QED  BY <1>1, <1>2, <1>3, <1>4 DEF IInv

\* Every deploy that works has a lease to list.
LEMMA ListLeasesStep ==
    ASSUME IInv, NEW r \in Removals, ListLeases(r)
    PROVE  IInv'
  <1>1. TypeOK' /\ KindsOK' /\ LiveNamed'
    BY DEF ListLeases, Leased, IInv, TypeOK, KindsOK, LiveNamed
  <1>2. DeploysHold' /\ RemovalsHold'
    BY DEF ListLeases, Leased, IInv, TypeOK, LiveNamed, DeploysHold, RemovalsHold
  <1>3. NamesCover'
    BY DEF ListLeases, Leased, IInv, TypeOK, KindsOK, NamesCover
  <1>4. DeploysRecorded' /\ RemovalsRead' /\ NothingOrphaned'
    BY DEF ListLeases, Leased, IInv, TypeOK, KindsOK, DeploysRecorded, RemovalsRead,
           NothingOrphaned
  <1> QED  BY <1>1, <1>2, <1>3, <1>4 DEF IInv

\* It only adds to what it will take.
LEMMA ListEnvironmentsStep ==
    ASSUME IInv, NEW r \in Removals, ListEnvironments(r)
    PROVE  IInv'
  <1>1. TypeOK' /\ KindsOK' /\ LiveNamed'
    BY DEF ListEnvironments, IInv, TypeOK, KindsOK, LiveNamed
  <1>2. DeploysHold' /\ RemovalsHold'
    BY DEF ListEnvironments, IInv, TypeOK, LiveNamed, DeploysHold, RemovalsHold
  <1>3. NamesCover'
    BY DEF ListEnvironments, IInv, TypeOK, KindsOK, NamesCover
  <1>4. DeploysRecorded' /\ RemovalsRead' /\ NothingOrphaned'
    BY DEF ListEnvironments, IInv, TypeOK, KindsOK, DeploysRecorded, RemovalsRead,
           NothingOrphaned
  <1> QED  BY <1>1, <1>2, <1>3, <1>4 DEF IInv

\* What it takes over is nobody's live hold.
LEMMA TakeEachStep ==
    ASSUME IInv, NEW r \in Removals, NEW e \in Environments, TakeEach(r, e)
    PROVE  IInv'
  <1>1. TypeOK' /\ KindsOK' /\ LiveNamed'
    <2>1. CASE Stops(r)
      BY <2>1 DEF TakeEach, IInv, TypeOK, KindsOK, LiveNamed
    <2>2. CASE Hold(r, e) /\ UNCHANGED <<at, reading>>
      BY <2>2 DEF TakeEach, IInv, TypeOK, KindsOK, LiveNamed
    <2> QED  BY <2>1, <2>2 DEF TakeEach
  <1>2. DeploysHold' /\ RemovalsHold'
    BY DEF TakeEach, IInv, TypeOK, LiveNamed, DeploysHold, RemovalsHold
  <1>3. NamesCover'
    BY DEF TakeEach, IInv, TypeOK, KindsOK, NamesCover
  <1>4. DeploysRecorded' /\ RemovalsRead' /\ NothingOrphaned'
    BY DEF TakeEach, IInv, TypeOK, KindsOK, DeploysRecorded, RemovalsRead,
           NothingOrphaned
  <1> QED  BY <1>1, <1>2, <1>3, <1>4 DEF IInv

\* Now it holds all it listed.
LEMMA AllTakenStep ==
    ASSUME IInv, NEW r \in Removals, AllTaken(r)
    PROVE  IInv'
  <1>1. TypeOK' /\ KindsOK' /\ LiveNamed'
    BY DEF AllTaken, IInv, TypeOK, KindsOK, LiveNamed
  <1>2. DeploysHold' /\ RemovalsHold'
    BY DEF AllTaken, IInv, TypeOK, LiveNamed, DeploysHold, RemovalsHold
  <1>3. NamesCover'
    BY DEF AllTaken, IInv, TypeOK, KindsOK, NamesCover
  <1>4. DeploysRecorded' /\ RemovalsRead' /\ NothingOrphaned'
    BY DEF AllTaken, IInv, TypeOK, KindsOK, DeploysRecorded, RemovalsRead,
           NothingOrphaned
  <1> QED  BY <1>1, <1>2, <1>3, <1>4 DEF IInv

\* Only what exists shrinks.
LEMMA DestroyStackStep ==
    ASSUME IInv, NEW r \in Removals, NEW s \in Deploys, DestroyStack(r, s)
    PROVE  IInv'
  <1>1. TypeOK' /\ KindsOK' /\ LiveNamed'
    BY DEF DestroyStack, IInv, TypeOK, KindsOK, LiveNamed
  <1>2. DeploysHold' /\ RemovalsHold'
    BY DEF DestroyStack, IInv, TypeOK, LiveNamed, DeploysHold, RemovalsHold
  <1>3. NamesCover'
    BY DEF DestroyStack, IInv, TypeOK, KindsOK, NamesCover
  <1>4. DeploysRecorded' /\ RemovalsRead' /\ NothingOrphaned'
    BY DEF DestroyStack, IInv, TypeOK, KindsOK, DeploysRecorded, RemovalsRead,
           NothingOrphaned
  <1> QED  BY <1>1, <1>2, <1>3, <1>4 DEF IInv

\* No deploy is at work on the stack, and it no longer exists.
LEMMA ForgetStackStep ==
    ASSUME IInv, NEW r \in Removals, NEW s \in Deploys, ForgetStack(r, s)
    PROVE  IInv'
  <1>a. RemovesAlone  BY Alone
  <1>1. TypeOK' /\ KindsOK' /\ LiveNamed'
    BY DEF ForgetStack, IInv, TypeOK, KindsOK, LiveNamed
  <1>2. DeploysHold' /\ RemovalsHold'
    BY DEF ForgetStack, IInv, TypeOK, LiveNamed, DeploysHold, RemovalsHold
  <1>3. NamesCover'
    BY DEF ForgetStack, IInv, TypeOK, KindsOK, NamesCover
  <1>4. DeploysRecorded' /\ RemovalsRead' /\ NothingOrphaned'
    BY <1>a DEF ForgetStack, IInv, TypeOK, KindsOK, DeploysRecorded, RemovalsRead,
           NothingOrphaned, RemovesAlone
  <1> QED  BY <1>1, <1>2, <1>3, <1>4 DEF IInv

\* Nothing but its place changes.
LEMMA AllDestroyedStep ==
    ASSUME IInv, NEW r \in Removals, AllDestroyed(r)
    PROVE  IInv'
  <1>1. TypeOK' /\ KindsOK' /\ LiveNamed'
    BY DEF AllDestroyed, IInv, TypeOK, KindsOK, LiveNamed
  <1>2. DeploysHold' /\ RemovalsHold'
    BY DEF AllDestroyed, IInv, TypeOK, LiveNamed, DeploysHold, RemovalsHold
  <1>3. NamesCover'
    BY DEF AllDestroyed, IInv, TypeOK, KindsOK, NamesCover
  <1>4. DeploysRecorded' /\ RemovalsRead' /\ NothingOrphaned'
    BY DEF AllDestroyed, IInv, TypeOK, KindsOK, DeploysRecorded, RemovalsRead,
           NothingOrphaned
  <1> QED  BY <1>1, <1>2, <1>3, <1>4 DEF IInv

\* It goes on to forget only when no stack is on record.
LEMMA CheckEmptyStep ==
    ASSUME IInv, NEW r \in Removals, CheckEmpty(r)
    PROVE  IInv'
  <1>1. TypeOK' /\ KindsOK' /\ LiveNamed'
    BY DEF CheckEmpty, NothingLeft, IInv, TypeOK, KindsOK, LiveNamed
  <1>2. DeploysHold' /\ RemovalsHold'
    BY DEF CheckEmpty, NothingLeft, IInv, TypeOK, LiveNamed, DeploysHold, RemovalsHold
  <1>3. NamesCover'
    BY DEF CheckEmpty, NothingLeft, IInv, TypeOK, KindsOK, NamesCover
  <1>4. DeploysRecorded' /\ RemovalsRead' /\ NothingOrphaned'
    BY DEF CheckEmpty, NothingLeft, IInv, TypeOK, KindsOK, DeploysRecorded, RemovalsRead,
           NothingOrphaned
  <1> QED  BY <1>1, <1>2, <1>3, <1>4 DEF IInv

\* No invariant depends on the environments on record.
LEMMA ForgetEnvironmentsStep ==
    ASSUME IInv, NEW r \in Removals, ForgetEnvironments(r)
    PROVE  IInv'
  <1>1. TypeOK' /\ KindsOK' /\ LiveNamed'
    BY DEF ForgetEnvironments, IInv, TypeOK, KindsOK, LiveNamed
  <1>2. DeploysHold' /\ RemovalsHold'
    BY DEF ForgetEnvironments, IInv, TypeOK, LiveNamed, DeploysHold, RemovalsHold
  <1>3. NamesCover'
    BY DEF ForgetEnvironments, IInv, TypeOK, KindsOK, NamesCover
  <1>4. DeploysRecorded' /\ RemovalsRead' /\ NothingOrphaned'
    BY DEF ForgetEnvironments, IInv, TypeOK, KindsOK, DeploysRecorded, RemovalsRead,
           NothingOrphaned
  <1> QED  BY <1>1, <1>2, <1>3, <1>4 DEF IInv

\* No deploy is at work and no stack is on record.
LEMMA ForgetProjectStep ==
    ASSUME IInv, NEW r \in Removals, ForgetProject(r)
    PROVE  IInv'
  <1>a. RemovesAlone  BY Alone
  <1>1. TypeOK' /\ KindsOK' /\ LiveNamed'
    BY DEF ForgetProject, IInv, TypeOK, KindsOK, LiveNamed
  <1>2. DeploysHold' /\ RemovalsHold'
    BY DEF ForgetProject, IInv, TypeOK, LiveNamed, DeploysHold, RemovalsHold
  <1>3. NamesCover'
    BY DEF ForgetProject, IInv, TypeOK, KindsOK, NamesCover
  <1>4. DeploysRecorded' /\ RemovalsRead' /\ NothingOrphaned'
    BY <1>a DEF ForgetProject, IInv, TypeOK, KindsOK, DeploysRecorded, RemovalsRead,
           NothingOrphaned, RemovesAlone
  <1> QED  BY <1>1, <1>2, <1>3, <1>4 DEF IInv

\* A removal that releases holds nothing.
LEMMA ReleaseRemovalStep ==
    ASSUME IInv, NEW r \in Removals, NEW n \in Names, ReleaseRemoval(r, n)
    PROVE  IInv'
  <1>1. TypeOK' /\ KindsOK' /\ LiveNamed'
    BY DEF ReleaseRemoval, IInv, TypeOK, KindsOK, LiveNamed
  <1>2. DeploysHold' /\ RemovalsHold'
    BY DEF ReleaseRemoval, IInv, TypeOK, LiveNamed, DeploysHold, RemovalsHold
  <1>3. NamesCover'
    BY DEF ReleaseRemoval, IInv, TypeOK, KindsOK, NamesCover
  <1>4. DeploysRecorded' /\ RemovalsRead' /\ NothingOrphaned'
    BY DEF ReleaseRemoval, IInv, TypeOK, KindsOK, DeploysRecorded, RemovalsRead,
           NothingOrphaned
  <1> QED  BY <1>1, <1>2, <1>3, <1>4 DEF IInv

-----------------------------------------------------------------------------
\* The invariant is kept by every step.
LEMMA Inductive == IInv /\ [Next]_vars => IInv'
  <1> SUFFICES ASSUME IInv, [Next]_vars PROVE IInv'
    OBVIOUS
  <1>1. ASSUME NEW d \in Deploys, Deploy(d) PROVE IInv'
    <2>1. CASE Finish(d)
      BY <2>1, Ending DEF Finish
    <2> QED
      BY <1>1, <2>1, ForgetStoppedProjectStep, TakeEnvironmentStep, CheckProjectStep,
         RecordProjectStep, RecordEnvironmentStep, RecordStackStep, ProvisionStep, ParkStep,
         KeepStep, ReleaseDeployStep DEF Deploy
  <1>2. ASSUME NEW r \in Removals, Remove(r) PROVE IInv'
    <2>1. CASE EndRemoval(r)
      BY <2>1, Ending DEF EndRemoval
    <2> QED
      BY <1>2, <2>1, TakeProjectStep, OpenRemovalStep, ListLeasesStep, ListEnvironmentsStep,
         TakeEachStep, AllTakenStep, DestroyStackStep, ForgetStackStep, AllDestroyedStep,
         CheckEmptyStep, ForgetEnvironmentsStep, ForgetProjectStep, ReleaseRemovalStep
      DEF Remove
  <1>3. ASSUME NEW a \in Actors, LandsLate(a) \/ Fails(a) \/ Crash(a) PROVE IInv'
    <2>1. CASE LandsLate(a)
      BY <2>1, LandsLateStep
    <2>2. CASE Fails(a)
      BY <2>2, Ending DEF Fails
    <2>3. CASE Crash(a)
      BY <2>3, Ending DEF Crash
    <2> QED  BY <1>3, <2>1, <2>2, <2>3
  <1>4. CASE UNCHANGED vars
    BY <1>4 DEF vars, IInv, TypeOK, KindsOK, LiveNamed, DeploysHold, RemovalsHold, NamesCover,
           DeploysRecorded, RemovalsRead, NothingOrphaned
  <1> QED  BY <1>1, <1>2, <1>3, <1>4 DEF Next

\* The invariant holds of every behaviour.
THEOREM Invariance == Spec => []IInv
  BY Initially, Inductive, PTL DEF Spec

\* Every variable keeps its type, whatever deploys and removals there are.
THEOREM TypeCorrect == Spec => []TypeOK
  <1>1. IInv => TypeOK  BY DEF IInv
  <1> QED  BY <1>1, Invariance, PTL

\* A removal that destroys and forgets works alone on the project: no deploy
\* works on any of its environments, and no other removal of it runs.
THEOREM Exclusive == Spec => []RemovesAlone
  BY Alone, Invariance, PTL

\* Whatever exists is on record under a project on record, however deploys and
\* removals fail, crash or lose their leases half way.
THEOREM Recorded == Spec => []NothingOrphaned
  <1>1. IInv => NothingOrphaned  BY DEF IInv
  <1> QED  BY <1>1, Invariance, PTL

-----------------------------------------------------------------------------
(***************************************************************************)
(* What a removal that succeeds may leave: AmidReading is inductive under  *)
(* the invariant above, because CheckProject refuses whoever was not past  *)
(* it when the removal read.                                               *)
(***************************************************************************)
UnderWay == {d \in Deploys : Works(d) \/ At(d, "parked")}
Reading(r) == at[r] \in {"opened"} \cup Listed

\* Whoever goes where no work is under way takes nothing from what the other
\* removals read, and its own is gone with it.
LEMMA AmidEnding ==
    ASSUME IInv, AmidReading, NEW a \in Actors, NEW s \in {"ending", "gone"}, Goto(a, s),
           Unreads(a) \/ UNCHANGED reading, UNCHANGED <<target, records>>
    PROVE  AmidReading'
  <1> SUFFICES ASSUME NEW r \in Removals, Reading(r)' \/ at'[r] \in {"checking"}
               PROVE  /\ stacks' \subseteq plan'[r] \cup amid'[r]
                      /\ UnderWay' \subseteq amid'[r]
                      /\ at'[r] \in {"checking", "forgetting", "forgotten"} => plan'[r] = {}
    BY DEF AmidReading, UnderWay, Reading
  <1>1. r # a /\ Reading(r) /\ at'[r] = at[r]
    BY DEF IInv, TypeOK, Reading
  <1>2. UnderWay' \subseteq UnderWay
    BY DEF IInv, TypeOK, KindsOK, UnderWay
  <1>3. plan'[r] = plan[r] /\ amid'[r] = amid[r]
    BY <1>1 DEF IInv, TypeOK
  <1> QED  BY <1>1, <1>2, <1>3 DEF AmidReading, UnderWay, Reading

\* While a removal reads, the project's lease refuses every deploy that asks.
LEMMA NoneStarts ==
    ASSUME IInv, NEW r \in Removals, Reading(r), NEW d \in Deploys
    PROVE  ~ProjectFree(d)
  <1>1. <<r, Project>> \in live  BY DEF IInv, RemovalsHold, Reading
  <1>2. lease[Project] = r  BY <1>1 DEF IInv, LiveNamed
  <1> QED  BY <1>2 DEF ProjectFree

LEMMA AmidDeploy ==
    ASSUME IInv, AmidReading, NEW d \in Deploys, Deploy(d)
    PROVE  AmidReading'
  <1>0. d \in Actors /\ d \notin Removals
    OBVIOUS
  <1>1. CASE Stops(d) \/ ReleaseDeploy(d)
    <2>1. CASE ReleaseDeploy(d)
      BY <1>0, <2>1, AmidEnding DEF ReleaseDeploy
    <2>2. CASE Stops(d)
      <3>1. UNCHANGED <<target, records>>
        <4>1. ASSUME NEW s, Goto(d, s), s # "ending" PROVE FALSE
          BY <1>0, <2>2, <4>1 DEF IInv, TypeOK
        <4> QED
          BY <4>1
          DEF Deploy, ForgetStoppedProject, TakeEnvironment, CheckProject, Keep, Finish,
              RecordProject, RecordEnvironment, RecordStack, Provision, Park, ReleaseDeploy
      <3> QED  BY <1>0, <2>2, <3>1, AmidEnding
    <2> QED  BY <1>1, <2>1, <2>2
  <1>2. CASE CheckProject(d) /\ ProjectFree(d)
    <2>1. \A r \in Removals : ~Reading(r) /\ at'[r] = at[r]
      BY <1>0, <1>2, NoneStarts DEF CheckProject, IInv, TypeOK
    <2> QED  BY <2>1 DEF AmidReading, Reading
  <1>3. ASSUME UNCHANGED <<stacks, reading>>, NEW s \in DeployAt, Goto(d, s),
               s \in {"clear", "leased"} \/ d \in UnderWay
        PROVE  AmidReading'
    <2>1. UnderWay' \subseteq UnderWay
      BY <1>3 DEF IInv, TypeOK, KindsOK, UnderWay
    <2>2. \A r \in Removals : at'[r] = at[r]
      BY <1>0, <1>3 DEF IInv, TypeOK
    <2> QED  BY <1>3, <2>1, <2>2 DEF AmidReading, UnderWay
  <1>4. CASE RecordStack(d)
    <2>1. UnderWay' \subseteq UnderWay /\ d \in UnderWay
      BY <1>4 DEF RecordStack, IInv, TypeOK, KindsOK, UnderWay
    <2>2. \A r \in Removals : at'[r] = at[r]
      BY <1>0, <1>4 DEF RecordStack, IInv, TypeOK
    <2> QED  BY <1>4, <2>1, <2>2 DEF RecordStack, AmidReading, UnderWay
  <1> QED
    BY <1>1, <1>2, <1>3, <1>4
    DEF Deploy, ForgetStoppedProject, TakeEnvironment, CheckProject, Keep, Finish, UnderWay,
        RecordProject, RecordEnvironment, Provision, Park

LEMMA AmidRemove ==
    ASSUME IInv, AmidReading, NEW r \in Removals, Remove(r)
    PROVE  AmidReading'
  <1>0. r \in Actors /\ r \notin Deploys
    OBVIOUS
  <1>a. ASSUME NEW s, Goto(r, s) \/ UNCHANGED at PROVE UnderWay' = UnderWay
    BY <1>0, <1>a DEF IInv, TypeOK, UnderWay
  <1>1. CASE Stops(r) /\ UNCHANGED <<target, records>>
    BY <1>0, <1>1, AmidEnding
  <1>2. CASE TakeProject(r)
    BY <1>1, <1>2, <1>a DEF TakeProject, IInv, TypeOK, AmidReading, UnderWay
  <1>3. CASE OpenRemoval(r)
    BY <1>3, <1>a DEF OpenRemoval, IInv, TypeOK, AmidReading, UnderWay
  <1>4. CASE ListLeases(r) \/ ListEnvironments(r)
    BY <1>4, <1>a DEF ListLeases, ListEnvironments, IInv, TypeOK, AmidReading, UnderWay
  <1>5. ASSUME NEW e \in Environments, TakeEach(r, e) PROVE AmidReading'
    BY <1>1, <1>5, <1>a DEF TakeEach, AmidReading, UnderWay
  <1>6. CASE AllTaken(r) \/ AllDestroyed(r)
    BY <1>6, <1>a DEF AllTaken, AllDestroyed, IInv, TypeOK, AmidReading, UnderWay
  <1>7. ASSUME NEW s \in Deploys, DestroyStack(r, s) PROVE AmidReading'
    BY <1>7, <1>a DEF DestroyStack, AmidReading, UnderWay
  <1>8. ASSUME NEW s \in Deploys, ForgetStack(r, s) PROVE AmidReading'
    BY <1>8, <1>a DEF ForgetStack, IInv, TypeOK, AmidReading, UnderWay
  <1>9. CASE CheckEmpty(r) \/ ForgetEnvironments(r) \/ ForgetProject(r)
    BY <1>9, <1>a
    DEF CheckEmpty, ForgetEnvironments, ForgetProject, IInv, TypeOK, AmidReading, UnderWay
  <1>10. CASE EndRemoval(r)
    BY <1>1, <1>10 DEF EndRemoval
  <1>11. ASSUME NEW n \in Names, ReleaseRemoval(r, n) PROVE AmidReading'
    <2>1. CASE Goto(r, "gone")
      BY <1>0, <1>11, <2>1, AmidEnding DEF ReleaseRemoval
    <2> QED  BY <1>11, <2>1, <1>a DEF ReleaseRemoval, AmidReading, UnderWay
  <1> QED
    BY <1>2, <1>3, <1>4, <1>5, <1>6, <1>7, <1>8, <1>9, <1>10, <1>11 DEF Remove

LEMMA AmidInductive == IInv /\ AmidReading /\ [Next]_vars => AmidReading'
  <1> SUFFICES ASSUME IInv, AmidReading, [Next]_vars PROVE AmidReading'
    OBVIOUS
  <1>1. ASSUME NEW a \in Actors, LandsLate(a) PROVE AmidReading'
    BY <1>1 DEF LandsLate, AmidReading
  <1>2. ASSUME NEW a \in Actors, Fails(a) \/ Crash(a) PROVE AmidReading'
    BY <1>2, AmidEnding DEF Fails, Crash
  <1>3. CASE UNCHANGED vars
    BY <1>3 DEF vars, AmidReading
  <1> QED  BY <1>1, <1>2, <1>3, AmidDeploy, AmidRemove DEF Next

\* A removal that succeeds leaves nothing but what a deploy that was under way
\* when it read put on record before it ended.
THEOREM LeavesNothingElse == Spec => LeavesOnlyAmid
  <1>1. Init => AmidReading
    BY DEF Init, AmidReading
  <1>2. IInv /\ AmidReading /\ [Next]_vars
            => [\A r \in Removals : Runs(r) /\ at'[r] = "removed"
                                        => stacks' \subseteq amid[r]]_vars
    <2> SUFFICES ASSUME IInv, AmidReading, Next, NEW r \in Removals, Runs(r),
                        at'[r] = "removed"
                 PROVE  stacks' \subseteq amid[r]
      OBVIOUS
    <2>1. CheckEmpty(r) \/ ForgetProject(r)
      <3>1. ASSUME NEW a \in Actors, NEW s, Goto(a, s), s # "removed" PROVE FALSE
        BY <3>1 DEF IInv, TypeOK
      <3>2. ASSUME NEW d \in Deploys, Deploy(d) PROVE FALSE
        BY <3>1, <3>2
        DEF Deploy, ForgetStoppedProject, TakeEnvironment, CheckProject, Keep, Finish,
            RecordProject, RecordEnvironment, RecordStack, Provision, Park, ReleaseDeploy
      <3>3. ASSUME NEW q \in Removals, Remove(q), ~CheckEmpty(q), ~ForgetProject(q)
            PROVE  FALSE
        BY <3>1, <3>3
        DEF Remove, TakeProject, OpenRemoval, ListLeases, ListEnvironments, TakeEach,
            AllTaken, DestroyStack, ForgetStack, AllDestroyed, ForgetEnvironments,
            EndRemoval, ReleaseRemoval
      <3>4. ASSUME NEW q \in Removals, CheckEmpty(q) \/ ForgetProject(q) PROVE q = r
        BY <3>4 DEF CheckEmpty, ForgetProject, IInv, TypeOK
      <3>5. ASSUME NEW a \in Actors, LandsLate(a) \/ Fails(a) \/ Crash(a) PROVE FALSE
        BY <3>1, <3>5 DEF LandsLate, Fails, Crash
      <3> QED  BY <3>2, <3>3, <3>4, <3>5 DEF Next
    <2> QED  BY <2>1 DEF CheckEmpty, ForgetProject, AmidReading
  <1> QED
    BY <1>1, <1>2, Invariance, AmidInductive, PTL DEF Spec, LeavesOnlyAmid

-----------------------------------------------------------------------------
(***************************************************************************)
(* ProjectAccess: each step begins, ends or works under the access it      *)
(* promises, or changes nothing of it.                                     *)
(***************************************************************************)
Workers == {d \in Deploys : Works(d)}
Runners == {r \in Removals : Runs(r)}

\* Who is at work and which removal runs, when one actor goes from one place
\* to another.
LEMMA Goes ==
    ASSUME TypeOK, KindsOK, NEW a \in Actors, NEW s, Goto(a, s)
    PROVE  /\ a \in Deploys /\ s \in AtWork => Workers' = Workers \cup {a}
           /\ a \in Removals /\ s \in InRun => Runners' = Runners \cup {a}
           /\ a \in Deploys \/ s \notin InRun => Runners' = Runners \ {a}
           /\ a \in Removals \/ s \notin AtWork => Workers' = Workers \ {a}
  BY DEF TypeOK, KindsOK, Workers, Runners

\* Nobody is at work who does not work and none runs who does not.
LEMMA Elsewhere ==
    ASSUME NEW a
    PROVE  /\ ~Works(a) => Workers \ {a} = Workers
           /\ ~Runs(a) => Runners \ {a} = Runners
           /\ a \in Deploys => a \notin Runners
           /\ a \in Removals => a \notin Workers
           /\ a \in Deploys /\ Works(a) => Workers \cup {a} = Workers
           /\ a \in Removals /\ Runs(a) => Runners \cup {a} = Runners
  BY DEF Workers, Runners

USE DEF P!vars, P!access, P!records

\* Whoever goes where nobody works stops, and whoever did not work and goes
\* nowhere to work is not heard of.
LEMMA StopRefines ==
    ASSUME IInv, NEW a \in Actors, NEW s, Goto(a, s), s \notin AtWork \cup InRun,
           UNCHANGED <<target, records>>
    PROVE  P!Stop(a)
  <1>1. Workers' = Workers \ {a} /\ Runners' = Runners \ {a}
    BY Goes DEF IInv
  <1> QED  BY <1>1 DEF P!Stop, Workers, Runners

\* A step that neither begins nor ends work and keeps the records is none.
LEMMA SameRefines ==
    ASSUME IInv, NEW a \in Actors, NEW s, Goto(a, s),
           \/ a \in Deploys /\ Works(a) /\ s \in AtWork
           \/ a \in Removals /\ Runs(a) /\ s \in InRun
           \/ ~Works(a) /\ ~Runs(a) /\ s \notin AtWork \cup InRun,
           UNCHANGED <<target, records>>
    PROVE  UNCHANGED P!vars
  <1>1. Workers' = Workers /\ Runners' = Runners
    BY Goes, Elsewhere DEF IInv
  <1> QED  BY <1>1 DEF Workers, Runners

\* A deploy that begins holds its environment; no removal runs.
LEMMA BeginRefines ==
    ASSUME IInv, IInv', NEW d \in Deploys, At(d, "leased") \/ At(d, "parked"),
           Goto(d, "working"), UNCHANGED <<target, records>>
    PROVE  P!Begin(d)
  <1>1. Workers' = Workers \cup {d} /\ Runners' = Runners
    <2>1. Workers' = Workers \cup {d} /\ Runners' = Runners \ {d}
      BY Goes DEF IInv
    <2>2. ~Runs(d)  OBVIOUS
    <2> QED  BY <2>1, <2>2, Elsewhere
  <1>2. Runners = {}
    <2>1. RemovesAlone'  BY Alone, PTL
    <2> QED  BY <1>1, <2>1 DEF RemovesAlone, Runners, IInv, TypeOK
  <1>3. ASSUME NEW c \in Workers PROVE target[c] # target[d]
    <2>1. Works(c)' /\ c # d  BY <1>1, <1>3 DEF Workers
    <2>2. Works(d)'  BY <1>1 DEF Workers
    <2>3. <<c, target[c]>> \in live' /\ <<d, target[d]>> \in live'
      BY <2>1, <2>2, <1>3 DEF IInv, DeploysHold, Workers
    <2> QED  BY <2>1, <2>3, <1>3 DEF IInv, LiveNamed, TypeOK, Workers
  <1> QED  BY <1>1, <1>2, <1>3 DEF P!Begin, Workers, Runners

LEMMA DeployRefines ==
    ASSUME IInv, IInv', NEW d \in Deploys, Deploy(d)
    PROVE  P!Next \/ UNCHANGED P!vars
  <1>0. d \in Actors /\ d \notin Removals
    OBVIOUS
  <1>1. CASE ForgetStoppedProject(d)
    BY <1>1, StopRefines, <1>0 DEF ForgetStoppedProject, P!Next
  <1>2. CASE TakeEnvironment(d)
    BY <1>2, StopRefines, <1>0 DEF TakeEnvironment, P!Next
  <1>3. CASE CheckProject(d)
    <2>1. CASE Goto(d, "working")
      BY <1>3, <2>1, BeginRefines DEF CheckProject, P!Next
    <2> QED  BY <1>3, <2>1, StopRefines, <1>0 DEF CheckProject, P!Next
  <1>4. CASE RecordProject(d)
    <2>1. Workers' = Workers /\ Runners' = Runners /\ d \in Workers
      BY <1>4, Goes, Elsewhere DEF RecordProject, IInv, Workers
    <2>2. P!RecordProject(d)
      BY <1>4, <2>1 DEF RecordProject, P!RecordProject, Workers, Runners
    <2> QED  BY <2>2 DEF P!Next
  <1>5. CASE RecordEnvironment(d)
    <2>1. Workers' = Workers /\ Runners' = Runners
      BY <1>5, Goes, Elsewhere DEF RecordEnvironment, IInv
    <2> QED  BY <1>5, <2>1 DEF RecordEnvironment, Workers, Runners
  <1>6. CASE RecordStack(d)
    <2>1. Workers' = Workers /\ Runners' = Runners /\ d \in Workers
      BY <1>6, Goes, Elsewhere DEF RecordStack, IInv, Workers
    <2>2. project
      BY <1>6 DEF RecordStack, IInv, DeploysRecorded
    <2>3. P!RecordStack(d)
      BY <1>6, <2>1, <2>2 DEF RecordStack, P!RecordStack, Workers, Runners
    <2> QED  BY <2>3 DEF P!Next
  <1>7. CASE Provision(d)
    <2>1. Workers' = Workers /\ Runners' = Runners /\ d \in Workers
      BY <1>7, Goes, Elsewhere DEF Provision, IInv, Workers
    <2>2. d \in stacks
      BY <1>7 DEF Provision, IInv, DeploysRecorded
    <2>3. P!Make(d)
      BY <1>7, <2>1, <2>2 DEF Provision, P!Make, Workers, Runners
    <2> QED  BY <2>3 DEF P!Next
  <1>8. CASE Park(d) \/ Finish(d)
    BY <1>8, StopRefines, <1>0 DEF Park, Finish, P!Next
  <1>9. CASE Keep(d)
    <2>1. CASE Goto(d, "working")
      BY <1>9, <2>1, BeginRefines DEF Keep, P!Next
    <2> QED  BY <1>9, <2>1, StopRefines, <1>0 DEF Keep, P!Next
  <1>10. CASE ReleaseDeploy(d)
    BY <1>10, StopRefines, <1>0 DEF ReleaseDeploy, P!Next
  <1> QED
    BY <1>1, <1>2, <1>3, <1>4, <1>5, <1>6, <1>7, <1>8, <1>9, <1>10 DEF Deploy

LEMMA RemoveRefines ==
    ASSUME IInv, IInv', NEW r \in Removals, Remove(r)
    PROVE  P!Next \/ UNCHANGED P!vars
  <1>0. r \in Actors /\ r \notin Deploys
    OBVIOUS
  <1>1. CASE TakeProject(r) \/ EndRemoval(r) \/ CheckEmpty(r)
    <2>1. CASE CheckEmpty(r) /\ NothingLeft
      BY <2>1, SameRefines, <1>0 DEF CheckEmpty
    <2> QED  BY <1>1, <2>1, StopRefines, <1>0 DEF TakeProject, EndRemoval, CheckEmpty, P!Next
  <1>2. CASE OpenRemoval(r) \/ ListLeases(r) \/ ListEnvironments(r)
    BY <1>2, StopRefines, <1>0 DEF OpenRemoval, ListLeases, ListEnvironments, P!Next
  <1>3. ASSUME NEW e \in Environments, TakeEach(r, e) PROVE P!Next \/ UNCHANGED P!vars
    <2>1. CASE UNCHANGED at
      BY <1>3, <2>1 DEF TakeEach
    <2> QED  BY <1>3, <2>1, StopRefines, <1>0 DEF TakeEach, P!Next
  <1>4. CASE AllTaken(r)
    <2>1. Runners' = Runners \cup {r} /\ Workers' = Workers
      BY <1>4, Goes, Elsewhere, <1>0 DEF AllTaken, IInv
    <2>2. RemovesAlone'  BY Alone, PTL
    <2>3. Workers = {} /\ Runners \subseteq {r} /\ r \notin Runners
      BY <1>4, <2>1, <2>2 DEF AllTaken, RemovesAlone, Workers, Runners
    <2>4. P!BeginRemoval(r)
      BY <1>4, <2>1, <2>3 DEF AllTaken, P!BeginRemoval, Workers, Runners
    <2> QED  BY <2>4 DEF P!Next
  <1>5. ASSUME NEW s \in Deploys, DestroyStack(r, s) PROVE P!Next
    <2>1. r \in Runners  BY <1>5 DEF DestroyStack, Runners
    <2>2. P!Destroy(s)  BY <1>5, <2>1 DEF DestroyStack, P!Destroy, Runners
    <2> QED  BY <2>2 DEF P!Next
  <1>6. ASSUME NEW s \in Deploys, ForgetStack(r, s) PROVE P!Next
    <2>1. r \in Runners  BY <1>6 DEF ForgetStack, Runners
    <2>2. s \notin up  BY <1>6 DEF ForgetStack, IInv, RemovalsRead
    <2>3. P!ForgetStack(s)  BY <1>6, <2>1, <2>2 DEF ForgetStack, P!ForgetStack, Runners
    <2> QED  BY <2>3 DEF P!Next
  <1>7. CASE AllDestroyed(r)
    BY <1>7, SameRefines, <1>0 DEF AllDestroyed
  <1>8. CASE ForgetEnvironments(r)
    <2>1. Workers' = Workers /\ Runners' = Runners
      BY <1>8, Goes, Elsewhere, <1>0 DEF ForgetEnvironments, IInv
    <2> QED  BY <1>8, <2>1 DEF ForgetEnvironments, Workers, Runners
  <1>9. CASE ForgetProject(r)
    <2>1. Runners' = Runners \ {r} /\ Workers' = Workers /\ r \in Runners
      BY <1>9, Goes, Elsewhere, <1>0 DEF ForgetProject, IInv, Runners
    <2>2. stacks = {}
      BY <1>9 DEF ForgetProject, IInv, RemovalsRead
    <2>3. P!ForgetProject(r)
      BY <1>9, <2>1, <2>2 DEF ForgetProject, P!ForgetProject, Workers, Runners
    <2> QED  BY <2>3 DEF P!Next
  <1>10. ASSUME NEW n \in Names, ReleaseRemoval(r, n) PROVE P!Next \/ UNCHANGED P!vars
    <2>1. CASE UNCHANGED at
      BY <1>10, <2>1 DEF ReleaseRemoval
    <2> QED  BY <1>10, <2>1, StopRefines, <1>0 DEF ReleaseRemoval, P!Next
  <1> QED
    BY <1>1, <1>2, <1>3, <1>4, <1>5, <1>6, <1>7, <1>8, <1>9, <1>10 DEF Remove

LEMMA AccessStep ==
    ASSUME IInv, IInv', [Next]_vars
    PROVE  [P!Next]_P!vars
  <1>1. ASSUME NEW a \in Actors, LandsLate(a) PROVE UNCHANGED P!vars
    BY <1>1 DEF LandsLate
  <1>2. ASSUME NEW a \in Actors, Fails(a) \/ Crash(a) PROVE P!Next
    BY <1>2, StopRefines DEF Fails, Crash, P!Next
  <1>3. CASE UNCHANGED vars
    BY <1>3 DEF vars
  <1> QED  BY <1>1, <1>2, <1>3, DeployRefines, RemoveRefines DEF Next

\* Deploys and removals change the stacks of a project in turn, and a stack is
\* on record from before it is made until it is gone, whatever fails.
THEOREM AccessRefinement == Spec => ImplementsAccess
  <1>1. Init => P!Init
    BY DEF Init, P!Init
  <1>2. IInv /\ IInv' /\ [Next]_vars => [P!Next]_P!vars
    BY AccessStep
  <1> QED  BY <1>1, <1>2, Invariance, PTL DEF Spec, ImplementsAccess, P!Spec

-----------------------------------------------------------------------------
(***************************************************************************)
(* NamedLease: what the actors do to one lease is what EnvironmentLease    *)
(* lets the holders of a lease do.                                         *)
(***************************************************************************)
Live(n) == {a \in Actors : <<a, n>> \in live}

\* Whoever drops what it holds ends its hold on each name.
LEMMA DropsEnds ==
    ASSUME NEW n \in Names, NEW a \in Actors, Drops(a), UNCHANGED lease
    PROVE  LeaseOn(n)!End(a)
  <1>1. Live(n)' = Live(n) \ {a}  BY DEF Live
  <1> QED  BY <1>1 DEF LeaseOn!End, Live

\* Whoever holds a name takes its lease and no other.
LEMMA HoldTakes ==
    ASSUME IInv, NEW n \in Names, NEW m \in Names, NEW a \in Actors, Hold(a, m)
    PROVE  LeaseOn(n)!Take(a) \/ UNCHANGED <<lease[n], Live(n)>>
  <1>1. CASE m = n
    <2>1. Live(n)' = Live(n) \cup {a}  BY <1>1 DEF Live
    <2>2. lease[n] \notin Live(n) \ {a}  BY <1>1 DEF Live
    <2>3. lease'[n] = a  BY <1>1 DEF IInv, TypeOK
    <2> QED  BY <2>1, <2>2, <2>3 DEF LeaseOn!Take, LeaseOn!Takeable, Live
  <1>2. CASE m # n
    BY <1>2 DEF IInv, TypeOK, Live
  <1> QED  BY <1>1, <1>2

\* A lease is forgotten by one that holds nothing, and it was its own or that
\* of a hold that has ended.
LEMMA FreeForgets ==
    ASSUME IInv, NEW n \in Names, NEW m \in Names, NEW a \in Actors,
           CanTake(a, m), <<a, m>> \notin live,
           lease' = [lease EXCEPT ![m] = Free], UNCHANGED live
    PROVE  LeaseOn(n)!Forget(a) \/ UNCHANGED <<lease[n], Live(n)>>
  <1>1. CASE m = n
    <2>1. Live(n)' = Live(n) \ {a}  BY <1>1 DEF Live
    <2>2. lease[n] \notin Live(n) \ {a}  BY <1>1 DEF Live
    <2>3. lease'[n] = Free  BY <1>1 DEF IInv, TypeOK
    <2> QED  BY <2>1, <2>2, <2>3 DEF LeaseOn!Forget, Live
  <1>2. CASE m # n
    BY <1>2 DEF IInv, TypeOK, Live
  <1> QED  BY <1>1, <1>2

\* The record is removed only if it still names the one that removes it.
LEMMA ForgetForgets ==
    ASSUME IInv, NEW n \in Names, NEW m \in Names, NEW a \in Actors,
           At(a, "ending"), Forget(a, m), UNCHANGED live
    PROVE  LeaseOn(n)!Forget(a) \/ UNCHANGED <<lease[n], Live(n)>>
  <1>1. CASE lease[m] = a
    <2>1. <<a, m>> \notin live  BY DEF IInv, LiveNamed
    <2>2. lease' = [lease EXCEPT ![m] = Free]  BY <1>1
    <2> QED  BY <1>1, <2>1, <2>2, FreeForgets
  <1>2. CASE lease[m] # a
    BY <1>2 DEF IInv, TypeOK, Live
  <1> QED  BY <1>1, <1>2

\* A write that lands late is one of the lease it was to.
LEMMA LateLands ==
    ASSUME IInv, NEW n \in Names, NEW a \in Actors, LandsLate(a)
    PROVE  LeaseOn(n)!LandsLate(a) \/ UNCHANGED <<lease[n], Live(n)>>
  <1>1. PICK m \in Wanted(a) : CanTake(a, m) /\ lease' = [lease EXCEPT ![m] = a]
    BY DEF LandsLate
  <1>2. UNCHANGED live  BY DEF LandsLate
  <1>3. CASE m = n
    <2>1. lease[n] \notin Live(n) \ {a}  BY <1>1, <1>3 DEF Live
    <2>2. lease'[n] = a  BY <1>1, <1>3 DEF IInv, TypeOK
    <2> QED  BY <1>2, <2>1, <2>2 DEF LeaseOn!LandsLate, LeaseOn!Takeable, Live
  <1>4. CASE m # n
    BY <1>1, <1>2, <1>4 DEF IInv, TypeOK, Live
  <1> QED  BY <1>3, <1>4

LEMMA DeployLeases ==
    ASSUME IInv, NEW n \in Names, NEW d \in Deploys, Deploy(d)
    PROVE  LeaseOn(n)!Next \/ UNCHANGED <<lease[n], Live(n)>>
  <1>0. d \in Actors /\ target[d] \in Names /\ Project \in Names
    BY DEF IInv, TypeOK
  <1>1. CASE ForgetStoppedProject(d)
    <2>1. CASE Stops(d)
      BY <2>1, <1>0, DropsEnds DEF LeaseOn!Next
    <2>2. <<d, Project>> \notin live  BY DEF IInv, LiveNamed
    <2> QED  BY <1>1, <1>0, <2>1, <2>2, FreeForgets DEF ForgetStoppedProject, LeaseOn!Next
  <1>2. CASE TakeEnvironment(d) \/ Keep(d)
    <2>1. CASE Stops(d)
      BY <2>1, <1>0, DropsEnds DEF LeaseOn!Next
    <2>2. CASE Hold(d, target[d])
      BY <2>2, <1>0, HoldTakes DEF LeaseOn!Next
    <2> QED  BY <1>2, <2>1, <2>2 DEF TakeEnvironment, Keep
  <1>3. CASE CheckProject(d) \/ Finish(d) \/ Park(d)
    <2>1. CASE Drops(d) /\ UNCHANGED lease
      BY <2>1, <1>0, DropsEnds DEF LeaseOn!Next
    <2> QED  BY <1>3, <2>1 DEF CheckProject, Finish, Park, Live
  <1>4. CASE ReleaseDeploy(d)
    BY <1>4, <1>0, ForgetForgets DEF ReleaseDeploy, LeaseOn!Next
  <1>5. CASE RecordProject(d) \/ RecordEnvironment(d) \/ RecordStack(d) \/ Provision(d)
    BY <1>5 DEF RecordProject, RecordEnvironment, RecordStack, Provision, Live
  <1> QED  BY <1>1, <1>2, <1>3, <1>4, <1>5 DEF Deploy

LEMMA RemoveLeases ==
    ASSUME IInv, NEW n \in Names, NEW r \in Removals, Remove(r)
    PROVE  LeaseOn(n)!Next \/ UNCHANGED <<lease[n], Live(n)>>
  <1>0. r \in Actors /\ Project \in Names
    OBVIOUS
  <1>1. ASSUME NEW m \in Names, Hold(r, m) \/ Stops(r)
        PROVE  LeaseOn(n)!Next \/ UNCHANGED <<lease[n], Live(n)>>
    <2>1. CASE Stops(r)
      BY <2>1, <1>0, DropsEnds DEF LeaseOn!Next
    <2>2. CASE Hold(r, m)
      BY <2>2, <1>0, HoldTakes DEF LeaseOn!Next
    <2> QED  BY <1>1, <2>1, <2>2
  <1>2. CASE TakeProject(r) \/ EndRemoval(r)
    BY <1>0, <1>1, <1>2 DEF TakeProject, EndRemoval
  <1>3. ASSUME NEW e \in Environments, TakeEach(r, e)
        PROVE  LeaseOn(n)!Next \/ UNCHANGED <<lease[n], Live(n)>>
    BY <1>1, <1>3 DEF TakeEach
  <1>4. ASSUME NEW m \in Names, ReleaseRemoval(r, m)
        PROVE  LeaseOn(n)!Next \/ UNCHANGED <<lease[n], Live(n)>>
    BY <1>0, <1>4, ForgetForgets DEF ReleaseRemoval, LeaseOn!Next
  <1>5. CASE UNCHANGED leases
    BY <1>5 DEF Live
  <1> QED
    BY <1>2, <1>3, <1>4, <1>5
    DEF Remove, OpenRemoval, ListLeases, ListEnvironments, AllTaken, DestroyStack,
        ForgetStack, AllDestroyed, CheckEmpty, ForgetEnvironments, ForgetProject

LEMMA LeaseStep ==
    ASSUME IInv, [Next]_vars, NEW n \in Names
    PROVE  [LeaseOn(n)!Next]_<<lease[n], Live(n)>>
  <1>1. ASSUME NEW a \in Actors, LandsLate(a) \/ Fails(a) \/ Crash(a)
        PROVE  LeaseOn(n)!Next \/ UNCHANGED <<lease[n], Live(n)>>
    <2>1. CASE LandsLate(a)
      BY <2>1, LateLands DEF LeaseOn!Next
    <2>2. CASE Drops(a) /\ UNCHANGED lease
      BY <2>2, DropsEnds DEF LeaseOn!Next
    <2> QED  BY <1>1, <2>1, <2>2 DEF Fails, Crash
  <1>2. CASE UNCHANGED vars
    BY <1>2 DEF vars, Live
  <1> QED  BY <1>1, <1>2, DeployLeases, RemoveLeases DEF Next

\* Each lease of the project is a NamedLease: nothing a removal, a deploy or a
\* late write does to it is more than EnvironmentLease is shown to allow.
THEOREM LeasesAreNamed == ASSUME NEW n \in Names PROVE Spec => LeaseOn(n)!Spec
  <1>1. Init => LeaseOn(n)!Init
    BY DEF Init, LeaseOn!Init
  <1>2. IInv /\ [Next]_vars => [LeaseOn(n)!Next]_<<lease[n], Live(n)>>
    BY LeaseStep
  <1> QED  BY <1>1, <1>2, Invariance, PTL DEF Spec, LeaseOn!Spec, Live
==============================================================================
