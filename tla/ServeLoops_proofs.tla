--------------------------- MODULE ServeLoops_proofs ---------------------------
(***************************************************************************)
(* Proofs about the slots of a process: no pool loses one, and none is     *)
(* taken beyond a limit in force.                                          *)
(*                                                                         *)
(* A count is right only together with what a loop at each of its steps    *)
(* has reserved (LoopsInv), and the worker's, which sums over consumers,   *)
(* is a set of slots whose size changes by what one consumer's does        *)
(* (SlotsChange).                                                          *)
(***************************************************************************)
EXTENDS ServeLoops, FiniteSetTheorems, TLAPS

\* What a loop has reserved at each of its steps.
LoopInv(c) ==
    /\ at[c] \in {"top", "consumer", "idle", "stopped"} => granted[c] = 0
    /\ at[c] = "excess" => n[c] <= granted[c]
    /\ at[c] \in {"receive", "keep"} => granted[c] = n[c]
    /\ at[c] = "receive" => n[c] > 0
    /\ at[c] \in {"top", "consumer", "worker", "idle", "stopped"} => n[c] = 0
    /\ at[c] \in {"keep", "keepWorker"} => groups[c] <= n[c]
    /\ at[c] = "keepWorker" => granted[c] = groups[c]
    /\ at[c] \notin {"keep", "keepWorker"} => groups[c] = 0

LoopsInv == \A c \in Consumers : LoopInv(c)

SlotsFinite == IsFiniteSet(SlotsOf(HeldOfWorker))

IInv == TypeOK /\ LoopsInv /\ SlotsFinite /\ SlotsAccounted

-----------------------------------------------------------------------------
\* The slots of one consumer.
LEMMA SlotsOfOne ==
    ASSUME NEW c, NEW k \in Nat
    PROVE  IsFiniteSet({c} \X (1..k)) /\ Cardinality({c} \X (1..k)) = k
<1>1. IsFiniteSet({c}) /\ Cardinality({c}) = 1
  BY FS_Singleton
<1>2. IsFiniteSet(1..k) /\ Cardinality(1..k) = k
  BY FS_Interval, SMT
<1>3. /\ IsFiniteSet({c} \X (1..k))
      /\ Cardinality({c} \X (1..k)) = Cardinality({c}) * Cardinality(1..k)
  BY <1>1, <1>2, FS_Product, Zenon
<1> DEFINE P == {c} \X (1..k)  I == 1..k
<1> HIDE DEF P, I
<1>4. Cardinality(P) = Cardinality({c}) * Cardinality(I)
  BY <1>3 DEF P, I
<1>5. Cardinality(I) = k
  BY <1>2 DEF I
<1>6. Cardinality(P) = k
  BY <1>1, <1>4, <1>5, SMT
<1> QED
  BY <1>3, <1>6 DEF P

\* The size of a disjoint union.
LEMMA DisjointUnion ==
    ASSUME NEW S, NEW T, IsFiniteSet(S), IsFiniteSet(T), S \cap T = {}
    PROVE  /\ IsFiniteSet(S \cup T) /\ Cardinality(S) \in Nat
           /\ Cardinality(S \cup T) = Cardinality(S) + Cardinality(T)
<1>1. /\ IsFiniteSet(S \cup T)
      /\ Cardinality(S \cup T) = Cardinality(S) + Cardinality(T) - Cardinality(S \cap T)
  BY FS_Union, Zenon
<1>2. Cardinality(S \cap T) = 0
  BY FS_EmptySet, Zenon
<1>3. Cardinality(S) \in Nat /\ Cardinality(T) \in Nat
  BY FS_CardinalityType, Zenon
<1> DEFINE U == S \cup T  N == S \cap T
<1> HIDE DEF U, N
<1>4. Cardinality(U) = Cardinality(S) + Cardinality(T) - Cardinality(N) /\ Cardinality(N) = 0
  BY <1>1, <1>2 DEF U, N
<1>5. Cardinality(U) = Cardinality(S) + Cardinality(T)
  BY <1>3, <1>4, SMT
<1> QED
  BY <1>1, <1>3, <1>5 DEF U

\* When what one consumer holds changes, the set of slots changes by as much.
LEMMA SlotsChange ==
    ASSUME NEW held \in [Consumers -> Nat], IsFiniteSet(SlotsOf(held)),
           NEW c \in Consumers, NEW k \in Nat
    PROVE  LET new == [held EXCEPT ![c] = k] IN
           /\ IsFiniteSet(SlotsOf(new))
           /\ Cardinality(SlotsOf(held)) \in Nat /\ Cardinality(SlotsOf(held)) >= held[c]
           /\ Cardinality(SlotsOf(new)) = Cardinality(SlotsOf(held)) - held[c] + k
<1> DEFINE new  == [held EXCEPT ![c] = k]
           Rest == UNION {{d} \X (1..held[d]) : d \in Consumers \ {c}}
           Own  == {c} \X (1..held[c])
           Next1 == {c} \X (1..k)
<1>1. SlotsOf(held) = Rest \cup Own
  BY DEF SlotsOf
<1>2. SlotsOf(new) = Rest \cup Next1
  <2>1. new[c] = k /\ \A d \in Consumers \ {c} : new[d] = held[d]
    OBVIOUS
  <2> QED
    BY <2>1 DEF SlotsOf
<1>3. Rest \cap Own = {} /\ Rest \cap Next1 = {}
  OBVIOUS
<1>4. IsFiniteSet(Rest)
  BY <1>1, FS_Subset
<1>5. /\ IsFiniteSet(Own) /\ Cardinality(Own) = held[c]
      /\ IsFiniteSet(Next1) /\ Cardinality(Next1) = k
  BY SlotsOfOne
<1> HIDE DEF new, Rest, Own, Next1
<1>7. Cardinality(Rest) \in Nat /\ Cardinality(Rest \cup Own) = Cardinality(Rest) + Cardinality(Own)
  BY <1>3, <1>4, <1>5, DisjointUnion, Zenon
<1>8. /\ IsFiniteSet(Rest \cup Next1)
      /\ Cardinality(Rest \cup Next1) = Cardinality(Rest) + Cardinality(Next1)
  BY <1>3, <1>4, <1>5, DisjointUnion, Zenon
<1>10. held[c] \in Nat
  OBVIOUS
<1> QED
  <2>1. /\ IsFiniteSet(SlotsOf(new))
        /\ Cardinality(SlotsOf(held)) \in Nat /\ Cardinality(SlotsOf(held)) >= held[c]
        /\ Cardinality(SlotsOf(new)) = Cardinality(SlotsOf(held)) - held[c] + k
    BY <1>1, <1>2, <1>5, <1>7, <1>8, <1>10
  <2> QED
    BY <2>1 DEF new

-----------------------------------------------------------------------------
\* A pool without a limit grants what is asked for; one with a limit no more
\* than it has left.
LEMMA GrantIs ==
    ASSUME TypeOK, NEW p \in Pools, NEW want \in Nat
    PROVE  /\ Grant(p, want) \in Nat /\ Grant(p, want) <= want
           /\ Grant(p, want) > 0 => limit[p] = 0 \/ used[p] + Grant(p, want) <= limit[p]
BY DEF TypeOK, Grant, Lesser, Room

LEMMA WantIs == \A c \in Consumers : Want(c) \in Nat
BY ServeLoopsAssumption DEF Want

\* What the worker's pool holds, when one consumer's part of it changes.
LEMMA WorkerChange ==
    ASSUME TypeOK, TypeOK', SlotsFinite, NEW c \in Consumers, NEW k \in Nat,
           HeldOfWorker' = [HeldOfWorker EXCEPT ![c] = k]
    PROVE  /\ SlotsFinite'
           /\ Held(Worker) \in Nat /\ Held(Worker) >= HeldOfWorker[c]
           /\ Held(Worker)' = Held(Worker) - HeldOfWorker[c] + k
<1>1. HeldOfWorker \in [Consumers -> Nat]
  BY DEF HeldOfWorker, TypeOK
<1>2. IsFiniteSet(SlotsOf(HeldOfWorker))
  BY DEF SlotsFinite
<1> DEFINE new == [HeldOfWorker EXCEPT ![c] = k]
<1>3. /\ IsFiniteSet(SlotsOf(new))
      /\ Cardinality(SlotsOf(HeldOfWorker)) \in Nat
      /\ Cardinality(SlotsOf(HeldOfWorker)) >= HeldOfWorker[c]
      /\ Cardinality(SlotsOf(new)) = Cardinality(SlotsOf(HeldOfWorker)) - HeldOfWorker[c] + k
  BY <1>1, <1>2, SlotsChange
<1>4. HeldOfWorker' = new
  OBVIOUS
<1>5. SlotsOf(HeldOfWorker)' = SlotsOf(new)
  BY <1>4 DEF SlotsOf
<1> QED
  BY <1>3, <1>5 DEF SlotsFinite, Held

\* What the count of a pool says, in the pools' own terms.
Accounts ==
    /\ used[Worker] = Held(Worker)
    /\ \A c \in Consumers : used[c] = granted[c] + running[c]

LEMMA AccountsAre == (SlotsAccounted <=> Accounts) /\ (SlotsAccounted' <=> Accounts')
<1>1. \A c \in Consumers : c # Worker
  BY ServeLoopsAssumption
<1>2. \A c \in Consumers : Held(c) = granted[c] + running[c] /\ Held(c)' = granted'[c] + running'[c]
  BY <1>1 DEF Held
<1> QED
  BY <1>2 DEF SlotsAccounted, Accounts, Pools

\* A step of one consumer: what it leaves of the others, and of the worker's pool.
LEMMA OwnStep ==
    ASSUME IInv, TypeOK', NEW c \in Consumers,
           LoopInv(c)',
           \A d \in Consumers \ {c} :
               at'[d] = at[d] /\ granted'[d] = granted[d] /\ n'[d] = n[d] /\ groups'[d] = groups[d],
           \A d \in Consumers : used'[d] = granted'[d] + running'[d],
           NEW k \in Nat,
           HeldOfWorker' = [HeldOfWorker EXCEPT ![c] = k],
           used'[Worker] = used[Worker] - HeldOfWorker[c] + k
    PROVE  IInv'
<1>1. LoopsInv'
  BY DEF IInv, LoopsInv, LoopInv
<1>2. /\ SlotsFinite'
      /\ Held(Worker)' = Held(Worker) - HeldOfWorker[c] + k
  BY WorkerChange DEF IInv
<1>3. used[Worker] = Held(Worker)
  BY AccountsAre DEF IInv, Accounts
<1>4. used'[Worker] = Held(Worker)'
  BY <1>2, <1>3
<1>5. Accounts'
  BY <1>4 DEF Accounts
<1> QED
  BY <1>1, <1>2, <1>5, AccountsAre DEF IInv

\* A step that leaves the worker's pool and the deliveries alone.
LEMMA QuietStep ==
    ASSUME IInv, TypeOK', NEW c \in Consumers,
           LoopInv(c)',
           \A d \in Consumers \ {c} :
               at'[d] = at[d] /\ granted'[d] = granted[d] /\ n'[d] = n[d] /\ groups'[d] = groups[d],
           \A d \in Consumers : used'[d] = granted'[d] + running'[d],
           HeldOfWorker' = HeldOfWorker,
           used'[Worker] = used[Worker]
    PROVE  IInv'
<1>1. HeldOfWorker \in [Consumers -> Nat] /\ used[Worker] \in Nat
  BY DEF HeldOfWorker, IInv, TypeOK, Pools
<1> DEFINE k == HeldOfWorker[c]
<1>2. k \in Nat /\ HeldOfWorker' = [HeldOfWorker EXCEPT ![c] = k]
  BY <1>1
<1>3. used'[Worker] = used[Worker] - HeldOfWorker[c] + k
  BY <1>1
<1> QED
  BY <1>2, <1>3, OwnStep

\* What is known of the counts before a step.
LEMMA Counts ==
    ASSUME IInv, NEW c \in Consumers
    PROVE  /\ c # Worker /\ LoopInv(c)
           /\ \A d \in Consumers : used[d] = granted[d] + running[d]
           /\ used[Worker] \in Nat /\ used[Worker] >= n[c] + running[c] + leaving[c]
           /\ HeldOfWorker[c] = n[c] + running[c] + leaving[c]
<1>1. HeldOfWorker \in [Consumers -> Nat] /\ used[Worker] \in Nat
  BY DEF HeldOfWorker, IInv, TypeOK, Pools
<1>2. IsFiniteSet(SlotsOf(HeldOfWorker))
  BY DEF IInv, SlotsFinite
<1>3. Cardinality(SlotsOf(HeldOfWorker)) >= HeldOfWorker[c]
  BY <1>1, <1>2, SlotsChange
<1>4. used[Worker] = Cardinality(SlotsOf(HeldOfWorker))
  BY AccountsAre DEF IInv, Accounts, Held
<1>5. HeldOfWorker[c] = n[c] + running[c] + leaving[c]
  BY DEF HeldOfWorker
<1>6. \A d \in Consumers : used[d] = granted[d] + running[d]
  BY AccountsAre DEF IInv, Accounts
<1> QED
  BY <1>1, <1>3, <1>4, <1>5, <1>6, ServeLoopsAssumption DEF IInv, LoopsInv

\* What the worker's pool holds for each consumer, when one's changes to k.
LEMMA HeldChanges ==
    ASSUME TypeOK, NEW c \in Consumers, NEW k \in Nat,
           n'[c] + running'[c] + leaving'[c] = k,
           \A d \in Consumers \ {c} :
               n'[d] = n[d] /\ running'[d] = running[d] /\ leaving'[d] = leaving[d]
    PROVE  HeldOfWorker' = [HeldOfWorker EXCEPT ![c] = k]
BY DEF HeldOfWorker

-----------------------------------------------------------------------------
(***************************************************************************)
(* The steps.                                                              *)
(***************************************************************************)
LEMMA BeginKeeps ==
    ASSUME IInv, NEW c \in Consumers, Begin(c)
    PROVE  IInv'
<1>1. InFlightOf(deployed[c]) \in Nat
  BY ServeLoopsAssumption DEF InFlightOf, IInv, TypeOK
<1>2. TypeOK'
  BY <1>1 DEF IInv, TypeOK, Begin, Goto, deliveries
<1>3. LoopInv(c)'
  BY Counts DEF LoopInv, Begin, Goto, IInv, TypeOK
<1>4. HeldOfWorker' = HeldOfWorker
  BY DEF HeldOfWorker, Begin, deliveries
<1> QED
  BY <1>2, <1>3, <1>4, Counts, QuietStep DEF Begin, Goto, deliveries, IInv, TypeOK

LEMMA ReserveConsumerKeeps ==
    ASSUME IInv, NEW c \in Consumers, ReserveConsumer(c)
    PROVE  IInv'
<1> DEFINE g == Grant(c, Want(c))
<1>1. g \in Nat
  BY GrantIs, WantIs DEF IInv, Pools
<1>2. /\ at[c] = "consumer" /\ used' = [used EXCEPT ![c] = @ + g]
      /\ granted' = [granted EXCEPT ![c] = g]
      /\ at' = [at EXCEPT ![c] = IF g = 0 THEN "idle" ELSE "worker"]
      /\ UNCHANGED <<deployed, limit, n, groups, running, leaving, waiting>>
  BY DEF ReserveConsumer, Goto, deliveries
<1> HIDE DEF g
<1>3. TypeOK'
  BY <1>1, <1>2 DEF IInv, TypeOK, Pools
<1>4. LoopInv(c)'
  BY <1>1, <1>2, Counts DEF LoopInv, IInv, TypeOK
<1>5. HeldOfWorker' = HeldOfWorker
  BY <1>2 DEF HeldOfWorker
<1>6. \A d \in Consumers : used'[d] = granted'[d] + running'[d]
  BY <1>1, <1>2, Counts DEF IInv, TypeOK, Pools, LoopInv
<1>7. used'[Worker] = used[Worker]
  BY <1>2, Counts DEF IInv, TypeOK, Pools
<1> QED
  BY <1>2, <1>3, <1>4, <1>5, <1>6, <1>7, QuietStep DEF IInv, TypeOK

LEMMA ReserveWorkerKeeps ==
    ASSUME IInv, NEW c \in Consumers, ReserveWorker(c)
    PROVE  IInv'
<1> DEFINE g == Grant(Worker, granted[c])
<1>1. g \in Nat /\ g <= granted[c]
  BY GrantIs DEF IInv, Pools, TypeOK
<1>2. /\ at[c] = "worker" /\ used' = [used EXCEPT ![Worker] = @ + g]
      /\ n' = [n EXCEPT ![c] = g]
      /\ at' = [at EXCEPT ![c] = "excess"]
      /\ UNCHANGED <<deployed, limit, granted, groups, running, leaving, waiting>>
  BY DEF ReserveWorker, Goto, deliveries
<1> HIDE DEF g
<1>3. TypeOK'
  BY <1>1, <1>2 DEF IInv, TypeOK, Pools
<1>4. LoopInv(c)'
  BY <1>1, <1>2, Counts DEF LoopInv, IInv, TypeOK
<1> DEFINE k == g + running[c] + leaving[c]
<1>5. k \in Nat /\ HeldOfWorker' = [HeldOfWorker EXCEPT ![c] = k]
  <2>1. k \in Nat
    BY <1>1, <1>2 DEF IInv, TypeOK
  <2>2. n'[c] + running'[c] + leaving'[c] = k
    BY <1>1, <1>2 DEF IInv, TypeOK
  <2>3. \A d \in Consumers \ {c} :
            n'[d] = n[d] /\ running'[d] = running[d] /\ leaving'[d] = leaving[d]
    BY <1>1, <1>2 DEF IInv, TypeOK
  <2> HIDE DEF k
  <2> QED
    BY <2>1, <2>2, <2>3, HeldChanges DEF IInv
<1>6. \A d \in Consumers : used'[d] = granted'[d] + running'[d]
  <2>1. \A d \in Consumers : d # Worker /\ used'[d] = used[d]
    BY <1>2, ServeLoopsAssumption DEF IInv, TypeOK, Pools
  <2> QED
    BY <1>2, <2>1, Counts
<1>7. used'[Worker] = used[Worker] - HeldOfWorker[c] + k
  BY <1>1, <1>2, Counts DEF IInv, TypeOK, Pools, LoopInv
<1> HIDE DEF k
<1> QED
  BY <1>2, <1>3, <1>4, <1>5, <1>6, <1>7, OwnStep DEF IInv, TypeOK

LEMMA GiveBackExcessKeeps ==
    ASSUME IInv, NEW c \in Consumers, GiveBackExcess(c)
    PROVE  IInv'
<1>1. /\ at[c] = "excess" /\ used' = [used EXCEPT ![c] = @ - (granted[c] - n[c])]
      /\ granted' = [granted EXCEPT ![c] = n[c]]
      /\ at' = [at EXCEPT ![c] = IF n[c] = 0 THEN "idle" ELSE "receive"]
      /\ UNCHANGED <<deployed, limit, n, groups, running, leaving, waiting>>
  BY DEF GiveBackExcess, GiveBack, Goto, deliveries
<1>2. n[c] <= granted[c] /\ used[c] = granted[c] + running[c]
  BY <1>1, Counts DEF LoopInv
<1>3. TypeOK'
  BY <1>1, <1>2 DEF IInv, TypeOK, Pools
<1>4. LoopInv(c)'
  BY <1>1, Counts DEF LoopInv, IInv, TypeOK
<1>5. HeldOfWorker' = HeldOfWorker
  BY <1>1 DEF HeldOfWorker
<1>6. \A d \in Consumers : used'[d] = granted'[d] + running'[d]
  BY <1>1, <1>2, Counts DEF IInv, TypeOK, Pools
<1>7. used'[Worker] = used[Worker]
  BY <1>1, Counts DEF IInv, TypeOK, Pools
<1> QED
  BY <1>1, <1>3, <1>4, <1>5, <1>6, <1>7, QuietStep DEF IInv, TypeOK

LEMMA WakesKeeps ==
    ASSUME IInv, NEW c \in Consumers, Wakes(c)
    PROVE  IInv'
<1>1. /\ at[c] = "idle" /\ at' = [at EXCEPT ![c] = "top"]
      /\ UNCHANGED <<deployed, limit, used, granted, n, groups, running, leaving, waiting>>
  BY DEF Wakes, Goto, deliveries, pools
<1>2. TypeOK'
  BY <1>1 DEF IInv, TypeOK
<1>3. LoopInv(c)'
  BY <1>1, Counts DEF LoopInv, IInv, TypeOK
<1>4. HeldOfWorker' = HeldOfWorker
  BY <1>1 DEF HeldOfWorker
<1> QED
  BY <1>1, <1>2, <1>3, <1>4, Counts, QuietStep DEF IInv, TypeOK

LEMMA GatherKeeps ==
    ASSUME IInv, NEW c \in Consumers, NEW k \in Nat, Gather(c, k)
    PROVE  IInv'
<1>1. PICK d \in DeliveriesOf(c, k) : groups' = [groups EXCEPT ![c] = d]
  BY DEF Gather
<1>2. /\ at[c] = "receive" /\ at' = [at EXCEPT ![c] = "keep"]
      /\ k <= waiting[c] /\ (c \in Batching \/ k <= n[c])
      /\ waiting' = [waiting EXCEPT ![c] = @ - k]
      /\ UNCHANGED <<deployed, limit, used, granted, n, running, leaving>>
  BY DEF Gather, Goto, deliveries, pools
<1>3. n[c] \in Nat /\ n[c] > 0
  BY <1>2, Counts DEF LoopInv, IInv, TypeOK
<1>4. d \in Nat /\ d <= n[c]
  BY <1>2, <1>3 DEF DeliveriesOf
<1>5. TypeOK'
  BY <1>1, <1>2, <1>4, ServeLoopsAssumption DEF IInv, TypeOK
<1>6. LoopInv(c)'
  BY <1>1, <1>2, <1>4, Counts DEF LoopInv, IInv, TypeOK
<1>7. HeldOfWorker' = HeldOfWorker
  BY <1>2 DEF HeldOfWorker
<1> QED
  BY <1>1, <1>2, <1>5, <1>6, <1>7, Counts, QuietStep DEF IInv, TypeOK

LEMMA GatherFailsKeeps ==
    ASSUME IInv, NEW c \in Consumers, GatherFails(c)
    PROVE  IInv'
<1>1. /\ at[c] = "receive" /\ at' = [at EXCEPT ![c] = "keep"]
      /\ UNCHANGED <<deployed, limit, used, granted, n, groups, running, leaving, waiting>>
  BY DEF GatherFails, Goto, deliveries, pools
<1>2. TypeOK'
  BY <1>1 DEF IInv, TypeOK
<1>3. LoopInv(c)'
  BY <1>1, Counts DEF LoopInv, IInv, TypeOK
<1>4. HeldOfWorker' = HeldOfWorker
  BY <1>1 DEF HeldOfWorker
<1> QED
  BY <1>1, <1>2, <1>3, <1>4, Counts, QuietStep DEF IInv, TypeOK

LEMMA KeepOfConsumerKeeps ==
    ASSUME IInv, NEW c \in Consumers, KeepOfConsumer(c)
    PROVE  IInv'
<1>1. /\ at[c] = "keep" /\ used' = [used EXCEPT ![c] = @ - (n[c] - groups[c])]
      /\ granted' = [granted EXCEPT ![c] = groups[c]]
      /\ at' = [at EXCEPT ![c] = "keepWorker"]
      /\ UNCHANGED <<deployed, limit, n, groups, running, leaving, waiting>>
  BY DEF KeepOfConsumer, Kept, GiveBack, Goto, deliveries
<1>2. granted[c] = n[c] /\ groups[c] <= n[c] /\ used[c] = granted[c] + running[c]
  BY <1>1, Counts DEF LoopInv
<1>3. TypeOK'
  BY <1>1, <1>2 DEF IInv, TypeOK, Pools
<1>4. LoopInv(c)'
  BY <1>1, <1>2 DEF LoopInv, IInv, TypeOK
<1>5. HeldOfWorker' = HeldOfWorker
  BY <1>1 DEF HeldOfWorker
<1>6. \A d \in Consumers : used'[d] = granted'[d] + running'[d]
  BY <1>1, <1>2, Counts DEF IInv, TypeOK, Pools
<1>7. used'[Worker] = used[Worker]
  BY <1>1, Counts DEF IInv, TypeOK, Pools
<1> QED
  BY <1>1, <1>3, <1>4, <1>5, <1>6, <1>7, QuietStep DEF IInv, TypeOK

LEMMA KeepOfWorkerKeeps ==
    ASSUME IInv, NEW c \in Consumers, KeepOfWorker(c)
    PROVE  IInv'
<1>1. /\ at[c] = "keepWorker" /\ at' = [at EXCEPT ![c] = "top"]
      /\ used' = [used EXCEPT ![Worker] = @ - (n[c] - groups[c])]
      /\ running' = [running EXCEPT ![c] = @ + groups[c]]
      /\ granted' = [granted EXCEPT ![c] = 0] /\ n' = [n EXCEPT ![c] = 0]
      /\ groups' = [groups EXCEPT ![c] = 0]
      /\ UNCHANGED <<deployed, limit, leaving, waiting>>
  BY DEF KeepOfWorker, GiveBack, Goto
<1>2. /\ granted[c] = groups[c] /\ groups[c] <= n[c]
      /\ used[Worker] \in Nat /\ used[Worker] >= n[c] + running[c] + leaving[c]
  BY <1>1, Counts DEF LoopInv
<1>3. TypeOK'
  BY <1>1, <1>2 DEF IInv, TypeOK, Pools
<1>4. LoopInv(c)'
  BY <1>1 DEF LoopInv, IInv, TypeOK
<1> DEFINE k == running[c] + groups[c] + leaving[c]
<1>5. k \in Nat /\ HeldOfWorker' = [HeldOfWorker EXCEPT ![c] = k]
  <2>1. k \in Nat
    BY <1>1 DEF IInv, TypeOK
  <2>2. n'[c] + running'[c] + leaving'[c] = k
    BY <1>1 DEF IInv, TypeOK
  <2>3. \A d \in Consumers \ {c} :
            n'[d] = n[d] /\ running'[d] = running[d] /\ leaving'[d] = leaving[d]
    BY <1>1 DEF IInv, TypeOK
  <2> HIDE DEF k
  <2> QED
    BY <2>1, <2>2, <2>3, HeldChanges DEF IInv
<1>6. \A d \in Consumers : used'[d] = granted'[d] + running'[d]
  <2>1. \A d \in Consumers : d # Worker /\ used'[d] = used[d]
    BY <1>1, ServeLoopsAssumption DEF IInv, TypeOK, Pools
  <2> QED
    BY <1>1, <1>2, <2>1, Counts DEF IInv, TypeOK
<1>7. used'[Worker] = used[Worker] - HeldOfWorker[c] + k
  BY <1>1, <1>2, Counts DEF IInv, TypeOK, Pools
<1> HIDE DEF k
<1> QED
  BY <1>1, <1>3, <1>4, <1>5, <1>6, <1>7, OwnStep DEF IInv, TypeOK

LEMMA StopKeeps ==
    ASSUME IInv, NEW c \in Consumers, Stop(c)
    PROVE  IInv'
<1>1. /\ at[c] \in {"top", "idle"} /\ at' = [at EXCEPT ![c] = "stopped"]
      /\ UNCHANGED <<deployed, limit, used, granted, n, groups, running, leaving, waiting>>
  BY DEF Stop, Goto, deliveries, pools
<1>2. TypeOK'
  BY <1>1 DEF IInv, TypeOK
<1>3. LoopInv(c)'
  BY <1>1, Counts DEF LoopInv, IInv, TypeOK
<1>4. HeldOfWorker' = HeldOfWorker
  BY <1>1 DEF HeldOfWorker
<1> QED
  BY <1>1, <1>2, <1>3, <1>4, Counts, QuietStep DEF IInv, TypeOK

LEMMA LeaveConsumerKeeps ==
    ASSUME IInv, NEW c \in Consumers, LeaveConsumer(c)
    PROVE  IInv'
<1>1. /\ running[c] > 0 /\ used' = [used EXCEPT ![c] = @ - 1]
      /\ running' = [running EXCEPT ![c] = @ - 1]
      /\ leaving' = [leaving EXCEPT ![c] = @ + 1]
      /\ UNCHANGED <<deployed, limit, at, granted, n, groups, waiting>>
  BY DEF LeaveConsumer, GiveBack, loops
<1>2. TypeOK'
  BY <1>1, Counts DEF IInv, TypeOK, Pools
<1>3. LoopInv(c)'
  BY <1>1, Counts DEF LoopInv
<1>4. HeldOfWorker' = HeldOfWorker
  BY <1>1 DEF HeldOfWorker, IInv, TypeOK
<1>5. \A d \in Consumers : used'[d] = granted'[d] + running'[d]
  BY <1>1, Counts DEF IInv, TypeOK, Pools
<1>6. used'[Worker] = used[Worker]
  BY <1>1, Counts DEF IInv, TypeOK, Pools
<1> QED
  BY <1>1, <1>2, <1>3, <1>4, <1>5, <1>6, QuietStep

LEMMA LeaveWorkerKeeps ==
    ASSUME IInv, NEW c \in Consumers, LeaveWorker(c)
    PROVE  IInv'
<1>1. /\ leaving[c] > 0 /\ used' = [used EXCEPT ![Worker] = @ - 1]
      /\ leaving' = [leaving EXCEPT ![c] = @ - 1]
      /\ UNCHANGED <<deployed, limit, at, granted, n, groups, running, waiting>>
  BY DEF LeaveWorker, GiveBack, loops
<1>2. TypeOK'
  BY <1>1, Counts DEF IInv, TypeOK, Pools
<1>3. LoopInv(c)'
  BY <1>1, Counts DEF LoopInv
<1> DEFINE k == n[c] + running[c] + (leaving[c] - 1)
<1>4. k \in Nat /\ HeldOfWorker' = [HeldOfWorker EXCEPT ![c] = k]
  <2>1. k \in Nat
    BY <1>1 DEF IInv, TypeOK
  <2>2. n'[c] + running'[c] + leaving'[c] = k
    BY <1>1 DEF IInv, TypeOK
  <2>3. \A d \in Consumers \ {c} :
            n'[d] = n[d] /\ running'[d] = running[d] /\ leaving'[d] = leaving[d]
    BY <1>1 DEF IInv, TypeOK
  <2> HIDE DEF k
  <2> QED
    BY <2>1, <2>2, <2>3, HeldChanges DEF IInv
<1>5. \A d \in Consumers : used'[d] = granted'[d] + running'[d]
  <2>1. \A d \in Consumers : d # Worker /\ used'[d] = used[d]
    BY <1>1, ServeLoopsAssumption DEF IInv, TypeOK, Pools
  <2> QED
    BY <1>1, <2>1, Counts
<1>6. used'[Worker] = used[Worker] - HeldOfWorker[c] + k
  BY <1>1, Counts DEF IInv, TypeOK, Pools
<1> HIDE DEF k
<1> QED
  BY <1>1, <1>2, <1>3, <1>4, <1>5, <1>6, OwnStep

\* What leaves loops, deliveries and counts alone.
LEMMA RestKeeps ==
    ASSUME IInv, TypeOK', UNCHANGED <<used, loops, deliveries>>
    PROVE  IInv'
<1>1. UNCHANGED <<used, at, granted, n, groups, running, leaving>>
  BY DEF loops, deliveries
<1>2. HeldOfWorker' = HeldOfWorker
  BY <1>1 DEF HeldOfWorker
<1>3. SlotsFinite' /\ Held(Worker)' = Held(Worker)
  BY <1>2 DEF IInv, SlotsFinite, Held, SlotsOf
<1>4. LoopsInv'
  BY <1>1 DEF IInv, LoopsInv, LoopInv
<1>5. Accounts'
  BY <1>1, <1>3, AccountsAre DEF IInv, Accounts
<1> QED
  BY <1>3, <1>4, <1>5, AccountsAre DEF IInv

LEMMA RedeployKeeps ==
    ASSUME IInv, Redeploy
    PROVE  IInv'
<1>1. TypeOK'
  BY ServeLoopsAssumption DEF IInv, TypeOK, Redeploy, loops, deliveries, Pools
<1> QED
  BY <1>1, RestKeeps DEF Redeploy

LEMMA ArrivesKeeps ==
    ASSUME IInv, NEW c \in Consumers, Arrives(c)
    PROVE  IInv'
<1>1. TypeOK'
  BY ServeLoopsAssumption DEF IInv, TypeOK, Arrives, loops, deliveries, pools
<1> QED
  BY <1>1, RestKeeps DEF Arrives, pools

-----------------------------------------------------------------------------
(***************************************************************************)
(* The invariant, and the theorems.                                        *)
(***************************************************************************)
LEMMA InitHolds == Init => IInv
<1> SUFFICES ASSUME Init PROVE IInv
  OBVIOUS
<1>1. TypeOK
  BY ServeLoopsAssumption DEF Init, TypeOK, Pools
<1>2. LoopsInv
  BY DEF Init, LoopsInv, LoopInv
<1>3. SlotsOf(HeldOfWorker) = {}
  BY DEF Init, HeldOfWorker, SlotsOf
<1>4. SlotsFinite /\ Held(Worker) = 0
  BY <1>3, FS_EmptySet DEF SlotsFinite, Held
<1>5. Accounts
  BY <1>4, ServeLoopsAssumption DEF Accounts, Init, Pools
<1> QED
  BY <1>1, <1>2, <1>4, <1>5, AccountsAre DEF IInv

LEMMA NextKeeps == IInv /\ [Next]_vars => IInv'
<1> SUFFICES ASSUME IInv, [Next]_vars PROVE IInv'
  OBVIOUS
<1>1. ASSUME NEW c \in Consumers, Loop(c) PROVE IInv'
  <2>1. \A k \in 1..MaxWaiting : k \in Nat
    OBVIOUS
  <2> QED
    BY <1>1, <2>1, BeginKeeps, ReserveConsumerKeeps, ReserveWorkerKeeps, GiveBackExcessKeeps,
       WakesKeeps, GatherKeeps, GatherFailsKeeps, KeepOfConsumerKeeps, KeepOfWorkerKeeps
    DEF Loop, Takes
<1>2. CASE UNCHANGED vars
  <2>1. UNCHANGED <<deployed, limit, used, at, granted, n, groups, running, leaving, waiting>>
    BY <1>2 DEF vars, pools, loops, deliveries
  <2>2. TypeOK'
    BY <2>1 DEF IInv, TypeOK
  <2> QED
    BY <2>1, <2>2, RestKeeps DEF loops, deliveries
<1> QED
  BY <1>1, <1>2, StopKeeps, LeaveConsumerKeeps, LeaveWorkerKeeps, ArrivesKeeps, RedeployKeeps
  DEF Next

LEMMA Invariance == Spec => []IInv
BY InitHolds, NextKeeps, PTL DEF Spec

\* Every variable keeps its type: no count of slots goes below none.
THEOREM TypeCorrect == Spec => []TypeOK
<1>1. IInv => TypeOK
  BY DEF IInv
<1> QED
  BY <1>1, Invariance, PTL

\* No slot of a pool is lost and none is given back twice (slots.go), for any
\* consumers, limits and bounds.
THEOREM NoSlotLost == Spec => []SlotsAccounted
<1>1. IInv => SlotsAccounted
  BY DEF IInv
<1> QED
  BY <1>1, Invariance, PTL

\* Only reserve makes a pool count more.
LEMMA UsedGrows ==
    ASSUME IInv, [Next]_vars, NEW p \in Pools, used'[p] > used[p]
    PROVE  limit[p] = 0 \/ used'[p] <= limit[p]
<1>1. used[p] \in Nat /\ used \in [Pools -> Nat]
  BY DEF IInv, TypeOK
<1>2. ASSUME NEW c \in Consumers, ReserveConsumer(c)
      PROVE  limit[p] = 0 \/ used'[p] <= limit[p]
  <2> DEFINE g == Grant(c, Want(c))
  <2>1. c \in Pools /\ used' = [used EXCEPT ![c] = @ + g]
    BY <1>2 DEF ReserveConsumer, Pools
  <2>2. g \in Nat /\ (g > 0 => limit[c] = 0 \/ used[c] + g <= limit[c])
    BY <2>1, GrantIs, WantIs DEF IInv
  <2> HIDE DEF g
  <2> QED
    BY <1>1, <2>1, <2>2
<1>3. ASSUME NEW c \in Consumers, ReserveWorker(c)
      PROVE  limit[p] = 0 \/ used'[p] <= limit[p]
  <2> DEFINE g == Grant(Worker, granted[c])
  <2>1. Worker \in Pools /\ used' = [used EXCEPT ![Worker] = @ + g]
    BY <1>3 DEF ReserveWorker, Pools
  <2>2. g \in Nat /\ (g > 0 => limit[Worker] = 0 \/ used[Worker] + g <= limit[Worker])
    BY <2>1, GrantIs DEF IInv, TypeOK
  <2> HIDE DEF g
  <2> QED
    BY <1>1, <2>1, <2>2
<1>4. ASSUME NEW c \in Consumers, NEW q \in Pools, NEW k \in Nat, GiveBack(q, k)
      PROVE  FALSE
  BY <1>1, <1>4 DEF GiveBack
<1>5. ASSUME NEW c \in Consumers,
             GiveBackExcess(c) \/ KeepOfConsumer(c) \/ KeepOfWorker(c)
             \/ LeaveConsumer(c) \/ LeaveWorker(c)
      PROVE  FALSE
  <2>1. c \in Pools /\ Worker \in Pools
    BY DEF Pools
  <2>2. n[c] \in Nat /\ granted[c] \in Nat /\ groups[c] \in Nat /\ LoopInv(c)
    BY Counts DEF IInv, TypeOK
  <2>3. CASE GiveBackExcess(c)
    <3>1. granted[c] - n[c] \in Nat
      BY <2>2, <2>3 DEF GiveBackExcess, LoopInv
    <3> QED
      BY <1>4, <2>1, <2>3, <3>1 DEF GiveBackExcess
  <2>4. CASE KeepOfConsumer(c)
    <3>1. n[c] - groups[c] \in Nat
      BY <2>2, <2>4 DEF KeepOfConsumer, LoopInv
    <3> QED
      BY <1>4, <2>1, <2>4, <3>1 DEF KeepOfConsumer, Kept
  <2>5. CASE KeepOfWorker(c)
    <3>1. n[c] - groups[c] \in Nat
      BY <2>2, <2>5 DEF KeepOfWorker, LoopInv
    <3> QED
      BY <1>4, <2>1, <2>5, <3>1 DEF KeepOfWorker
  <2>6. CASE LeaveConsumer(c) \/ LeaveWorker(c)
    BY <1>4, <2>1, <2>6 DEF LeaveConsumer, LeaveWorker
  <2> QED
    BY <1>5, <2>3, <2>4, <2>5, <2>6
<1>6. \/ used' = used
      \/ \E c \in Consumers :
             \/ ReserveConsumer(c) \/ ReserveWorker(c)
             \/ GiveBackExcess(c) \/ KeepOfConsumer(c) \/ KeepOfWorker(c)
             \/ LeaveConsumer(c) \/ LeaveWorker(c)
  BY DEF Next, Loop, Takes, Begin, Wakes, Gather, GatherFails, Stop, Redeploy, Arrives, vars, pools
<1>7. used' # used
  BY <1>1
<1> QED
  BY <1>2, <1>3, <1>5, <1>6, <1>7

\* Nobody comes to hold a slot beyond the limit in force (slots.go, reserve),
\* whatever is redeployed meanwhile.
THEOREM NeverBeyondLimit == Spec => NeverOverbooked
<1> DEFINE A == \A p \in Pools : Held(p)' > Held(p) => limit[p] = 0 \/ Held(p)' <= limit[p]
<1>1. IInv /\ IInv' /\ [Next]_vars => A
  <2> SUFFICES ASSUME IInv, IInv', [Next]_vars, NEW p \in Pools, Held(p)' > Held(p)
               PROVE  limit[p] = 0 \/ Held(p)' <= limit[p]
    OBVIOUS
  <2>1. used[p] = Held(p) /\ used'[p] = Held(p)'
    BY DEF IInv, SlotsAccounted
  <2> QED
    BY <2>1, UsedGrows
<1>2. IInv /\ IInv' /\ [Next]_vars => [A]_vars
  BY <1>1
<1>3. Spec => [][A]_vars
  BY <1>2, Invariance, PTL DEF Spec
<1> QED
  BY <1>3 DEF NeverOverbooked

=============================================================================
