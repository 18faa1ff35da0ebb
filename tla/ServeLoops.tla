------------------------------ MODULE ServeLoops ------------------------------
(***************************************************************************)
(* The loops of one process that receive a worker's messages               *)
(* (Engine.Serve, pkg/runs/serve.go), and the slots they reserve first, in *)
(* their own consumer's pool and in the worker's, which they share         *)
(* (pkg/runs/slots.go).  What a delivery does is RunEngine's.              *)
(*                                                                         *)
(* A loop with no slot waits until a pool it tried says that a slot came   *)
(* free, or for idleWait; since the timer may fire at any time, so may the *)
(* wait end.                                                               *)
(***************************************************************************)
EXTENDS Naturals, FiniteSets

CONSTANTS
    Consumers,    \* the consumers one worker serves, each with a loop
    Worker,       \* the worker's own pool
    Batching,     \* the consumers that take their messages in batches
    Ordered,      \* those whose messages of one key are delivered in turn
    Limits,       \* the limits a deployment sets for the worker; 0 is none
    InFlight,     \* Config.InFlight, at most this many deliveries of a consumer
    MaxReceive,   \* maxReceive, what a loop asks for at once
    MaxWaiting,   \* bound: the messages visible on a consumer's queue
    MaxLeaving    \* bound: the deliveries between their two releases

Pools == Consumers \cup {Worker}

ASSUME ServeLoopsAssumption ==
    /\ IsFiniteSet(Consumers) /\ Worker \notin Consumers
    /\ Batching \subseteq Consumers /\ Ordered \subseteq Consumers
    /\ Limits \subseteq Nat /\ Limits # {}
    /\ InFlight \in Nat \ {0} /\ MaxReceive \in Nat \ {0} /\ MaxWaiting \in Nat
    /\ MaxLeaving \in Nat \ {0}

VARIABLES
    deployed,     \* the consumers' limits in the current deployment
    limit, used,  \* what each pool allows and what it counts as taken
    at,           \* what each loop is at
    granted,      \* the slots of its own pool a loop has reserved
    n,            \* the slots of the worker's it has reserved
    groups,       \* the deliveries a loop is about to start
    running,      \* the deliveries of each consumer at work
    leaving,      \* those that gave back their consumer's slot alone so far
    waiting       \* the messages visible on each consumer's queue

pools == <<limit, used>>
loops == <<at, granted, n, groups>>
deliveries == <<running, leaving>>
vars  == <<deployed, pools, loops, deliveries, waiting>>

\* inFlightOf
InFlightOf(concurrency) == IF concurrency > 0 /\ concurrency < InFlight THEN concurrency ELSE InFlight

Init ==
    /\ deployed \in [Consumers -> Limits]
    /\ \E l \in Limits : limit = [p \in Pools |-> IF p = Worker THEN l ELSE InFlight]
    /\ used = [p \in Pools |-> 0]
    /\ at = [c \in Consumers |-> "top"]
    /\ granted = [c \in Consumers |-> 0] /\ n = [c \in Consumers |-> 0]
    /\ groups = [c \in Consumers |-> 0]
    /\ running = [c \in Consumers |-> 0] /\ leaving = [c \in Consumers |-> 0]
    /\ waiting = [c \in Consumers |-> 0]

Goto(c, s) == at' = [at EXCEPT ![c] = s]

Lesser(a, b) == IF a <= b THEN a ELSE b

-----------------------------------------------------------------------------
(***************************************************************************)
(* localSlots                                                              *)
(***************************************************************************)
\* Mutants: a pool grants up to its limit, whatever is used already; or what is
\* left of it, though more may be used than a limit lowered meanwhile.
RoomOfLimit(p) == limit[p]
RoomBelowZero(p) == limit[p] - used[p]

\* What a pool has left; a limit lowered under what is used leaves none.
Room(p) == IF used[p] < limit[p] THEN limit[p] - used[p] ELSE 0

\* reserve
Grant(p, want) == IF limit[p] = 0 THEN want ELSE Lesser(want, Room(p))

\* unreserve, and release, which also tells those who wait.
GiveBack(p, k) == used' = [used EXCEPT ![p] = @ - k]

\* maxReceive, or the one slot a whole batch takes.
Want(c) == IF c \in Batching THEN 1 ELSE MaxReceive

-----------------------------------------------------------------------------
(***************************************************************************)
(* A loop of Serve.                                                        *)
(***************************************************************************)
Begin(c) ==
    /\ at[c] = "top" /\ Goto(c, "consumer")
    /\ limit' = [limit EXCEPT ![c] = InFlightOf(deployed[c])]
    /\ UNCHANGED <<deployed, used, granted, n, groups, deliveries, waiting>>

\* reserveSlots: of the consumer's,
ReserveConsumer(c) ==
    /\ at[c] = "consumer"
    /\ LET g == Grant(c, Want(c)) IN
       /\ used' = [used EXCEPT ![c] = @ + g]
       /\ granted' = [granted EXCEPT ![c] = g]
       /\ Goto(c, IF g = 0 THEN "idle" ELSE "worker")
    /\ UNCHANGED <<deployed, limit, n, groups, deliveries, waiting>>

\* of the worker's as many,
ReserveWorker(c) ==
    /\ at[c] = "worker" /\ Goto(c, "excess")
    /\ LET g == Grant(Worker, granted[c]) IN
       /\ used' = [used EXCEPT ![Worker] = @ + g]
       /\ n' = [n EXCEPT ![c] = g]
    /\ UNCHANGED <<deployed, limit, granted, groups, deliveries, waiting>>

\* and what the worker had no room for goes back.
GiveBackExcess(c) ==
    /\ at[c] = "excess" /\ Goto(c, IF n[c] = 0 THEN "idle" ELSE "receive")
    /\ GiveBack(c, granted[c] - n[c])
    /\ granted' = [granted EXCEPT ![c] = n[c]]
    /\ UNCHANGED <<deployed, limit, n, groups, deliveries, waiting>>

\* wait: no slot was free.
Wakes(c) ==
    /\ at[c] = "idle" /\ Goto(c, "top")
    /\ UNCHANGED <<deployed, pools, granted, n, groups, deliveries, waiting>>

\* deliveriesOf: how many deliveries k messages make.
DeliveriesOf(c, k) ==
    {d \in 0..k : /\ k > 0 => d > 0
                  /\ c \in Batching => d <= 1
                  /\ c \notin Batching \cup Ordered => d = k}

\* gather: k messages, a batch of them for one slot; none when the wait ends.
Gather(c, k) ==
    /\ at[c] = "receive" /\ Goto(c, "keep")
    /\ k <= waiting[c] /\ (c \in Batching \/ k <= n[c])
    /\ \E d \in DeliveriesOf(c, k) : groups' = [groups EXCEPT ![c] = d]
    /\ waiting' = [waiting EXCEPT ![c] = @ - k]
    /\ UNCHANGED <<deployed, pools, granted, n, deliveries>>

\* A receive that fails keeps no slot, and gives back what it received.
GatherFails(c) ==
    /\ at[c] = "receive" /\ Goto(c, "keep")
    /\ UNCHANGED <<deployed, pools, granted, n, groups, deliveries, waiting>>

\* Mutant: what was not used stays reserved.
KeepsAll(c) == n[c]

\* keep: the slots a loop received no message for,
Kept(c) == groups[c]

KeepOfConsumer(c) ==
    /\ at[c] = "keep" /\ Goto(c, "keepWorker")
    /\ GiveBack(c, n[c] - Kept(c))
    /\ granted' = [granted EXCEPT ![c] = groups[c]]
    /\ UNCHANGED <<deployed, limit, n, groups, deliveries, waiting>>

\* in both pools; then the deliveries start, each with the slots it holds.
KeepOfWorker(c) ==
    /\ at[c] = "keepWorker" /\ Goto(c, "top")
    /\ GiveBack(Worker, n[c] - groups[c])
    /\ running' = [running EXCEPT ![c] = @ + groups[c]]
    /\ granted' = [granted EXCEPT ![c] = 0] /\ n' = [n EXCEPT ![c] = 0]
    /\ groups' = [groups EXCEPT ![c] = 0]
    /\ UNCHANGED <<deployed, limit, leaving, waiting>>

\* The loop ends: its context is canceled, or its consumer is deployed no more.
Stop(c) ==
    /\ at[c] \in {"top", "idle"} /\ Goto(c, "stopped")
    /\ UNCHANGED <<deployed, pools, granted, n, groups, deliveries, waiting>>

-----------------------------------------------------------------------------
\* A delivery ends: reservation.release gives back its consumer's slot,
LeaveConsumer(c) ==
    /\ running[c] > 0 /\ leaving[c] < MaxLeaving
    /\ running' = [running EXCEPT ![c] = @ - 1]
    /\ leaving' = [leaving EXCEPT ![c] = @ + 1]
    /\ GiveBack(c, 1)
    /\ UNCHANGED <<deployed, limit, loops, waiting>>

\* and then its worker's.
LeaveWorker(c) ==
    /\ leaving[c] > 0
    /\ leaving' = [leaving EXCEPT ![c] = @ - 1]
    /\ GiveBack(Worker, 1)
    /\ UNCHANGED <<deployed, limit, loops, running, waiting>>

\* Deploy: new limits, which consumers' loops read when they begin again.
Redeploy ==
    /\ \E l \in Limits : limit' = [limit EXCEPT ![Worker] = l]
    /\ deployed' \in [Consumers -> Limits]
    /\ UNCHANGED <<used, loops, deliveries, waiting>>

\* A message is sent, or one that was hidden comes back.
Arrives(c) ==
    /\ waiting[c] < MaxWaiting
    /\ waiting' = [waiting EXCEPT ![c] = @ + 1]
    /\ UNCHANGED <<deployed, pools, loops, deliveries>>

Takes(c) == \E k \in 1..MaxWaiting : Gather(c, k)

Loop(c) ==
    \/ Begin(c) \/ ReserveConsumer(c) \/ ReserveWorker(c) \/ GiveBackExcess(c) \/ Wakes(c)
    \/ Takes(c) \/ Gather(c, 0) \/ GatherFails(c)
    \/ KeepOfConsumer(c) \/ KeepOfWorker(c)

Next ==
    \/ \E c \in Consumers : Loop(c) \/ Stop(c) \/ LeaveConsumer(c) \/ LeaveWorker(c) \/ Arrives(c)
    \/ Redeploy

Spec == Init /\ [][Next]_vars

\* Loops go on, deliveries end, and a loop that keeps receiving from a queue
\* with a message on it gets it some time.
FairSpec ==
    /\ Spec
    /\ \A c \in Consumers :
         WF_vars(Loop(c)) /\ WF_vars(LeaveConsumer(c)) /\ WF_vars(LeaveWorker(c)) /\ SF_vars(Takes(c))

-----------------------------------------------------------------------------
\* The slots of the worker's pool: its loops hold them, and its deliveries.
SlotsOf(held) == UNION {{c} \X (1..held[c]) : c \in Consumers}

HeldOfWorker == [c \in Consumers |-> n[c] + running[c] + leaving[c]]

\* The slots of a pool that loops and deliveries hold, whatever it counts.
Held(p) ==
    IF p = Worker THEN Cardinality(SlotsOf(HeldOfWorker)) ELSE granted[p] + running[p]

\* Every variable keeps its type.
TypeOK ==
    /\ deployed \in [Consumers -> Limits]
    /\ limit \in [Pools -> Nat] /\ used \in [Pools -> Nat]
    /\ at \in [Consumers -> {"top", "consumer", "worker", "excess", "idle", "receive",
                             "keep", "keepWorker", "stopped"}]
    /\ granted \in [Consumers -> Nat] /\ n \in [Consumers -> Nat] /\ groups \in [Consumers -> Nat]
    /\ running \in [Consumers -> Nat] /\ leaving \in [Consumers -> Nat]
    /\ waiting \in [Consumers -> 0..MaxWaiting]

\* No slot is lost and none is given back twice: a pool counts what is held of
\* it at every step, so that a worker all of whose loops stopped and whose
\* deliveries ended has every slot again for the next deployment.
SlotsAccounted == \A p \in Pools : used[p] = Held(p)

\* Whatever is redeployed meanwhile, nobody comes to hold a slot of a pool
\* beyond the limit in force ("how many runs or messages the worker handles at
\* once, at most, across everything it serves").
NeverOverbooked ==
    [][\A p \in Pools : Held(p)' > Held(p) => limit[p] = 0 \/ Held(p)' <= limit[p]]_vars

\* A message on a consumer's queue is received some time, while the loop runs
\* ("how many messages the service works at once").
Received ==
    \A c \in Consumers : waiting[c] > 0 ~> (waiting[c] = 0 \/ at[c] = "stopped")
==============================================================================
