--------------------------- MODULE EnvironmentLease ---------------------------
(***************************************************************************)
(* The lease that lets one deploy, rollback or removal at a time change an *)
(* environment: pkg/stackrecords/environmentleases.go (the record) and     *)
(* pkg/provider/providerserver/environmentleases.go (the renewing hold).   *)
(*                                                                         *)
(* ExpiresAt is written by one machine and read by another, and the code   *)
(* does not trust the two clocks to agree: whether a lease looks run out   *)
(* is left open here.  What it does rely on is that clocks run at the same *)
(* rate, and that is what Tick advances: the time a taker has watched one  *)
(* revision, and the time a holder has gone since its last renewal.        *)
(***************************************************************************)
EXTENDS Naturals

CONSTANTS
    Holders,     \* the runs that take the lease, each under a token of its own
    Deploys,     \* those that provision under it, build, and then deploy
    Free,        \* the token of an absent record
    TTL,         \* environmentLeaseTTL
    Renewal,     \* environmentLeaseRenewal
    Retry,       \* environmentLeaseRetry, also the timeout of a renewal
    Margin,      \* environmentLeaseMargin
    Answer       \* bound: how late the store answers a take or keep

\* The code's 5 m, 2 m, 15 s and 1 m leave a store 30 s to answer a take.
ASSUME EnvironmentLeaseAssumption ==
    /\ Deploys \subseteq Holders /\ Free \notin Holders
    /\ TTL \in Nat /\ Renewal \in Nat /\ Retry \in Nat /\ Margin \in Nat /\ Answer \in Nat
    /\ Margin <= TTL
    /\ 2 * Retry + Answer <= Margin
    /\ Renewal + 2 * Retry + Answer < TTL

VARIABLES
    lease,       \* the token the record names
    at,          \* what each holder is at
    phase,       \* how far its work is: "new", "provisioned" or "last"
    fresh,       \* the holders whose copy of the record is current
    inflight,    \* those with a write they gave up on that may still land
    age,         \* how long each taker has watched the revision it read, or
                 \* how long ago each holder began its last good renewal, up to TTL
    clock        \* how long each holder has been at its present step

vars == <<lease, at, phase, fresh, inflight, age, clock>>

\* The renewal loop of a hold; the context of its work is alive in each.
Working == {"waiting", "retrying", "renewing", "renewed"}
\* The store has written the lease and the holder has not heard.
Answering == {"taken", "kept"}
\* About to write: over nothing or its own token, or over a watched lease.
Writing == {"write", "seize"}
\* "unwinding" has given up unrenewed, and undoes what it was doing in a
\* context of its own.
States ==
    Working \cup Answering \cup Writing
        \cup {"new", "watching", "parked", "unwinding", "lost", "gone"}

Init ==
    /\ lease = Free
    /\ at = [h \in Holders |-> "new"]
    /\ phase = [h \in Holders |-> IF h \in Deploys THEN "new" ELSE "last"]
    /\ fresh = {} /\ inflight = {}
    /\ age = [h \in Holders |-> 0]
    /\ clock = [h \in Holders |-> 0]

At(h, s) == at[h] = s

\* h goes on to s, with its watch or its last renewal t ago.
GotoAt(h, s, t) ==
    /\ at' = [at EXCEPT ![h] = s]
    /\ age' = [age EXCEPT ![h] = t]
    /\ clock' = [clock EXCEPT ![h] = 0]

Goto(h, s) == GotoAt(h, s, 0)

-----------------------------------------------------------------------------
\* A write lands: the record has a new revision and every copy is stale.
Put(token) == lease' = token /\ fresh' = {} /\ inflight' = {}

NoStoreCall == UNCHANGED <<lease, fresh, inflight>>

Reads(h) == fresh' = fresh \cup {h} /\ UNCHANGED <<lease, inflight>>

\* Mutants: a write that asks for no revision, a watch cut short, or as short
\* as a hold is given, a renewal that takes back a freed lease, a hold that
\* gives up at the very TTL or not at all, a watch that starts again.
CurrentAnyway(h)      == TRUE
WatchedForAWhile(h)   == age[h] > 0
WatchedToTheMargin(h) == age[h] >= TTL - Margin
RenewableOnceFreed(h) == lease \in {h, Free}
GivesUpAtTheTTL(h)    == age[h] >= TTL
NeverGivesUp(h)       == FALSE
WatchStartsAgain(h)   == Goto(h, "watching") /\ Reads(h)

\* takeLease: what may be written over at once.
Takeable(h) == lease \in {h, Free}
\* The revision h read is still the record's.
Current(h)  == h \in fresh
\* takeLease: an unchanged lease may be written over.
WatchedThrough(h) == age[h] >= TTL
\* renewLease: only a record that still names the token.
Renewable(h) == lease = h
\* leaseHold.renew gives its work up once it went this long unrenewed.
GivesUp(h) == age[h] >= TTL - Margin

-----------------------------------------------------------------------------
\* takeLease, first look: a lease that does not look run out refuses, one
\* that does is watched.  A deploy may provision again under its lease.
Look(h) ==
    /\ At(h, "new") \/ At(h, "parked")
    /\ \/ Takeable(h) /\ Goto(h, "write") /\ Reads(h)
       \/ ~Takeable(h) /\ Goto(h, "lost") /\ NoStoreCall
       \/ ~Takeable(h) /\ Goto(h, "watching") /\ Reads(h)
    /\ UNCHANGED phase

\* The revision watched is gone and another token is on the record.
WatchBroken(h) == Goto(h, "lost") /\ NoStoreCall

\* takeLease, while it watches: freed, renewed, or unchanged for a full TTL.
LookAgain(h) ==
    /\ At(h, "watching")
    /\ \/ Takeable(h) /\ GotoAt(h, "seize", age[h]) /\ Reads(h)
       \/ ~Takeable(h) /\ ~Current(h) /\ WatchBroken(h)
       \/ /\ ~Takeable(h) /\ Current(h) /\ WatchedThrough(h)
          /\ GotoAt(h, "seize", age[h])
          /\ NoStoreCall
    /\ UNCHANGED phase

\* writeEnvironmentLease over the revision just read.
TakeLands(h) ==
    /\ at[h] \in Writing /\ Current(h)
    /\ Put(h)
    /\ Goto(h, "taken")
    /\ UNCHANGED phase

\* A stale write reads again, leaseWriteAttempts times.
TakeStale(h) ==
    /\ at[h] \in Writing /\ ~Current(h)
    /\ \/ At(h, "seize") /\ GotoAt(h, "watching", age[h])
       \/ At(h, "write") /\ Goto(h, "new")
       \/ Goto(h, "lost")
    /\ NoStoreCall
    /\ UNCHANGED phase

\* A take fails before its write is answered, which may yet land.
TakeFails(h) ==
    /\ at[h] \in Writing \cup Answering
    /\ Goto(h, "lost")
    /\ inflight' \in {inflight, IF at[h] \in Writing /\ Current(h) THEN inflight \cup {h} ELSE inflight}
    /\ UNCHANGED <<lease, phase, fresh>>

\* keep: the deploy goes on under the lease its provisioning took.
KeepLands(h) ==
    /\ At(h, "parked") /\ Renewable(h)
    /\ Put(h)
    /\ Goto(h, "kept")
    /\ UNCHANGED phase

\* startHold: the store has answered and the renewal loop starts from now.
HoldStarts(h) ==
    /\ at[h] \in Answering
    /\ phase' = [phase EXCEPT ![h] = IF At(h, "kept") THEN "last" ELSE @]
    /\ Goto(h, "waiting")
    /\ NoStoreCall

\* A renewal that finds another token, or none, is refused for good.
Refused(h) ==
    /\ ~Renewable(h)
    /\ Goto(h, "lost")
    /\ NoStoreCall
    /\ UNCHANGED phase

\* leaseHold.renew: the timer fires.
RenewStarts(h) ==
    /\ \/ At(h, "waiting") /\ clock[h] = Renewal
       \/ At(h, "retrying") /\ clock[h] = Retry
    /\ GotoAt(h, "renewing", age[h])
    /\ NoStoreCall
    /\ UNCHANGED phase

RenewLands(h) ==
    /\ At(h, "renewing") /\ Renewable(h)
    /\ Put(h)
    /\ at' = [at EXCEPT ![h] = "renewed"]
    /\ UNCHANGED <<phase, age, clock>>

RenewRefused(h) == At(h, "renewing") /\ Refused(h)

\* The renewal reaches the store; HoldsWhatItWorksUnder is why it is never
\* refused there.
RenewReaches(h) == At(h, "renewing") /\ (RenewLands(h) \/ RenewRefused(h))

\* A good renewal counts from when it was begun.
RenewAnswered(h) ==
    /\ At(h, "renewed")
    /\ GotoAt(h, "waiting", clock[h])
    /\ NoStoreCall
    /\ UNCHANGED phase

\* A renewal fails or times out, and its write may land later.
RenewFails(h) ==
    /\ at[h] \in {"renewing", "renewed"}
    /\ GotoAt(h, IF GivesUp(h) THEN "unwinding" ELSE "retrying", age[h])
    /\ inflight' \in {inflight, IF At(h, "renewing") /\ Renewable(h) THEN inflight \cup {h} ELSE inflight}
    /\ UNCHANGED <<lease, phase, fresh>>

\* A write whose caller gave up lands over the revision it was made for.
LandsLate(h) ==
    /\ h \in inflight
    /\ Put(h)
    /\ UNCHANGED <<at, phase, age, clock>>

\* A renewal beside the loop's own: it lands, is refused, or fails with its
\* write still on the way.  The hold goes on, and so does the loop's count.
RenewsBeside(h) ==
    \/ /\ Renewable(h) /\ Put(h)
       /\ UNCHANGED <<at, phase, age, clock>>
    \/ /\ Renewable(h) /\ inflight' = inflight \cup {h}
       /\ UNCHANGED <<lease, fresh, at, phase, age, clock>>
    \/ Refused(h)

\* confirm: a promotion renews the lease once more before it moves traffic.
Confirm(h) == at[h] \in Working /\ phase[h] = "last" /\ RenewsBeside(h)

\* RenewDeployLease: the CLI renews from its first ProvisionInfra on to the
\* Deploy, and stops when it is refused.
CliRenews(h) ==
    phase[h] = "provisioned" /\ at[h] \notin {"kept", "lost", "gone"} /\ RenewsBeside(h)

\* ProvisionInfra ends: so does the hold, and the lease stays.
Park(h) ==
    /\ at[h] \in {"waiting", "retrying"} /\ phase[h] # "last"
    /\ Goto(h, "parked")
    /\ phase' = [phase EXCEPT ![h] = "provisioned"]
    /\ NoStoreCall

\* Mutant: the record is removed whoever it names.
ReleaseAnyones(h) ==
    /\ at[h] \in {"waiting", "retrying", "parked", "unwinding", "lost"}
    /\ Goto(h, "gone") /\ Put(Free) /\ UNCHANGED phase

\* release and AbandonDeploy: the work is over, and the record is removed if
\* it still names the token.
Release(h) ==
    /\ at[h] \in {"waiting", "retrying", "parked", "unwinding", "lost"}
    /\ Goto(h, "gone")
    /\ IF lease = h THEN Put(Free) ELSE NoStoreCall
    /\ UNCHANGED phase

\* The process dies, or its lease could not be removed.
Crash(h) ==
    /\ ~At(h, "gone")
    /\ Goto(h, "gone")
    /\ NoStoreCall
    /\ UNCHANGED phase

-----------------------------------------------------------------------------
\* How long a holder may be at a step before its timer fires or its call is
\* cut off.
Limit(s) ==
    IF s = "waiting" THEN Renewal ELSE IF s \in Answering THEN Answer ELSE Retry

Timed == Working \cup Answering

Ages(h) == at[h] \in Working \/ (at[h] \in {"watching", "unwinding"} /\ age[h] < TTL)

Tick ==
    /\ \A h \in Holders : at[h] \in Timed => clock[h] < Limit(at[h])
    /\ clock' = [h \in Holders |-> IF at[h] \in Timed THEN clock[h] + 1 ELSE clock[h]]
    /\ age' = [h \in Holders |-> IF Ages(h) THEN age[h] + 1 ELSE age[h]]
    /\ UNCHANGED <<lease, at, phase, fresh, inflight>>

Take(h) == Look(h) \/ LookAgain(h) \/ TakeLands(h) \/ TakeStale(h) \/ HoldStarts(h)

Renew(h) == RenewStarts(h) \/ RenewReaches(h) \/ RenewAnswered(h) \/ RenewFails(h)

Next ==
    \/ \E h \in Holders :
         \/ Take(h) \/ TakeFails(h) \/ Renew(h) \/ LandsLate(h)
         \/ KeepLands(h) \/ CliRenews(h) \/ Confirm(h)
         \/ Park(h) \/ Release(h) \/ Crash(h)
    \/ Tick

Spec == Init /\ [][Next]_vars

\* Timers fire, calls are answered or cut off, takers look again, time passes.
FairSpec ==
    /\ Spec
    /\ WF_vars(Tick)
    /\ \A h \in Holders :
         /\ WF_vars(HoldStarts(h)) /\ WF_vars(RenewStarts(h))
         /\ WF_vars(RenewAnswered(h) \/ RenewFails(h) \/ RenewRefused(h))
         /\ WF_vars(LookAgain(h)) /\ WF_vars(TakeLands(h) \/ TakeStale(h))

-----------------------------------------------------------------------------
\* Every variable keeps its type; no hold goes unrenewed for a full TTL.
TypeOK ==
    /\ lease \in Holders \cup {Free}
    /\ at \in [Holders -> States]
    /\ phase \in [Holders -> {"new", "provisioned", "last"}]
    /\ fresh \subseteq Holders /\ inflight \subseteq Holders
    /\ age \in [Holders -> 0..TTL]
    /\ clock \in [Holders -> Nat]

Works(h) == at[h] \in Working

\* Whoever still has a live context for its work is the one the record names,
\* although takers overwrite a lease they only watched: a hold gives up
\* before anyone could have watched its last renewal for a full TTL.
HoldsWhatItWorksUnder == \A h \in Holders : Works(h) => lease = h

\* It gave up, and less than a TTL, and the time an answer takes, has passed
\* since it began its last good renewal.
Unwinds(h) == At(h, "unwinding") /\ age[h] < TTL - Answer

\* Whoever could not renew in time, and gave its work up, has what is left of
\* the margin to undo it before anybody else may begin: until then the record
\* still names it, however long others have watched it already.
UnwindsAlone == \A h \in Holders : Unwinds(h) => lease = h

\* Nobody waits for ever for a lease: it runs out and is taken, or it is
\* renewed and refuses its taker.
TakesEnd ==
    \A h \in Holders : at[h] \in {"watching", "seize"} ~> at[h] \notin {"watching", "seize"}

\* The lease as a reservation: who works, and who stopped between its halves
\* with its token still on the record.
Reserved(h) == lease = h /\ at[h] \in {"parked", "kept"}

R == INSTANCE Reservation WITH
        working  <- {h \in Holders : Works(h)},
        reserved <- {h \in Holders : Reserved(h)}

\* A deploy that provisioned goes on only while nobody else took its
\* environment, not even for a while (the hold of Deploy is a keep, which a
\* freed lease refuses).
ImplementsReservation == R!Spec

-----------------------------------------------------------------------------
(***************************************************************************)
(* Why: the inductive invariant EnvironmentLease_proofs proves.            *)
(***************************************************************************)
Owns(h) == Works(h) \/ at[h] \in Answering

\* Those whose lease nobody may take over.
Keeps(h) == Owns(h) \/ Unwinds(h)

OwnersAreNamed == \A h \in Holders : Keeps(h) => lease = h

\* The lease as others build on it: who is at work is who holds it.
L == INSTANCE NamedLease WITH live <- {h \in Holders : Owns(h)}

\* A lease is taken from nobody who is at work under it, whatever write lands
\* late, and removed under nobody's feet: what ProjectRemoval takes a lease for.
ImplementsLease == L!Spec

\* How old a holder's last renewal can be at each step of its loop.
AgesBounded ==
    \A h \in Holders :
        /\ at[h] \in Timed => clock[h] <= Limit(at[h])
        /\ At(h, "waiting") => age[h] <= clock[h] + Retry
        /\ At(h, "retrying") => age[h] < TTL - Margin + clock[h]
        /\ at[h] \in {"renewing", "renewed"} =>
              /\ clock[h] <= age[h]
              /\ \/ age[h] <= Renewal + Retry + clock[h]
                 \/ age[h] < TTL - Margin + Retry + clock[h]

\* Who watches an unchanged revision has done so since after it was written.
WatchesBounded ==
    \A w, h \in Holders :
        At(w, "watching") /\ Current(w) /\ lease = h /\ h # w =>
            /\ Works(h) \/ At(h, "unwinding") => age[w] <= age[h] + Answer
            /\ at[h] \in {"renewed"} \cup Answering => age[w] <= clock[h]

\* A write that can still land overwrites no one who works or unwinds.
WritesSafe ==
    \A w \in Holders :
        /\ (at[w] \in Writing /\ Current(w)) \/ w \in inflight =>
              lease \in {w, Free} \/ ~Keeps(lease)
        /\ w \in inflight => lease = w \/ at[w] \in {"unwinding", "lost", "gone"}

IInv == TypeOK /\ OwnersAreNamed /\ AgesBounded /\ WatchesBounded /\ WritesSafe
==============================================================================
