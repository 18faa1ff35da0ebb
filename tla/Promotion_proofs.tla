--------------------------- MODULE Promotion_proofs ---------------------------
(***************************************************************************)
(* Proofs about what an environment serves, for any deploys, rollbacks and *)
(* prunes, any number of routers, any number kept and any faults.          *)
(***************************************************************************)
EXTENDS Promotion, FiniteSetTheorems, TLAPS

-----------------------------------------------------------------------------
(***************************************************************************)
(* The chain a promotion falls back through, as a least set.               *)
(***************************************************************************)
LEMMA ChainKept ==
    ASSUME NEW p, NEW K, NEW disp, NEW un
    PROVE  FallbackChain(p, K, disp, un) \subseteq K
  BY DEF FallbackChain

\* The chain is within every set that is closed.
LEMMA ChainLeast ==
    ASSUME NEW p, NEW K, NEW disp, NEW un, NEW S \in SUBSET K, Closed(S, p, K, disp, un)
    PROVE  FallbackChain(p, K, disp, un) \subseteq S
  BY DEF FallbackChain

\* The chain is closed itself.
LEMMA ChainClosed ==
    ASSUME NEW K, NEW p \in K, NEW disp, NEW un
    PROVE  Closed(FallbackChain(p, K, disp, un), p, K, disp, un)
  BY DEF FallbackChain, Closed

\* Only what recorded promotions displaced decides a chain.
LEMMA ChainAgrees ==
    ASSUME NEW K, NEW p \in K, NEW disp, NEW un, NEW other,
           \A q \in K : other[q] = disp[q]
    PROVE  FallbackChain(p, K, other, un) = FallbackChain(p, K, disp, un)
  <1>1. \A S \in SUBSET K : Closed(S, p, K, other, un) <=> Closed(S, p, K, disp, un)
    BY DEF Closed
  <1> QED  BY <1>1 DEF FallbackChain

-----------------------------------------------------------------------------
(***************************************************************************)
(* A pointer in order: its active promotion is the newest that stands, and *)
(* each that stands has the next older one that stands at the end of its   *)
(* chain, which passes nothing older on its way.                           *)
(***************************************************************************)
ActiveNewest(act, K, seq, un) ==
    IF K \ un = {} THEN act \notin K
    ELSE act \in K \ un /\ \A q \in K \ un : seq[q] <= seq[act]

Numbered(K, seq) ==
    /\ \A p \in K : seq[p] \in Nat
    /\ \A p, q \in K : seq[p] = seq[q] => p = q

ChainsDescend(K, seq, disp, un) ==
    \A p \in K \ un : \A x \in FallbackChain(p, K, disp, un) :
        /\ seq[x] < seq[p]
        /\ \A s \in K \ un : seq[s] < seq[p] => seq[s] <= seq[x]

ChainsReach(K, seq, disp, un) ==
    \A p \in K \ un :
        (\E s \in K \ un : seq[s] < seq[p]) => FallbackChain(p, K, disp, un) \ un # {}

Ordered(act, K, seq, disp, un) ==
    /\ ActiveNewest(act, K, seq, un) /\ Numbered(K, seq)
    /\ ChainsDescend(K, seq, disp, un) /\ ChainsReach(K, seq, disp, un)

\* What a promotion that is not recorded displaced, or its number, is nothing
\* to the order.
LEMMA OrderedAgrees ==
    ASSUME NEW act, NEW K, NEW seq, NEW disp, NEW un, NEW seq2, NEW disp2,
           Ordered(act, K, seq, disp, un),
           \A q \in K : seq2[q] = seq[q] /\ disp2[q] = disp[q]
    PROVE  Ordered(act, K, seq2, disp2, un)
  <1>1. \A p \in K : FallbackChain(p, K, disp2, un) = FallbackChain(p, K, disp, un)
    BY ChainAgrees
  <1>2. ActiveNewest(act, K, seq2, un) /\ Numbered(K, seq2)
    BY DEF Ordered, ActiveNewest, Numbered
  <1>3. ChainsDescend(K, seq2, disp2, un)
    BY <1>1, ChainKept DEF Ordered, ChainsDescend
  <1>4. ChainsReach(K, seq2, disp2, un)
    BY <1>1 DEF Ordered, ChainsReach
  <1> QED  BY <1>2, <1>3, <1>4 DEF Ordered

\* A promotion newer than all, that displaced the active one, keeps the order.
LEMMA OrderedAdds ==
    ASSUME NEW act, NEW K, NEW seq, NEW disp, NEW un, NEW p,
           Ordered(act, K, seq, disp, un), p \notin K, p \notin un,
           seq[p] \in Nat, \A q \in K : seq[q] < seq[p] /\ disp[q] # p,
           disp[p] = act, act # p
    PROVE  Ordered(p, K \cup {p}, seq, disp, un)
  <1> DEFINE L == K \cup {p}
             C(q) == FallbackChain(q, K, disp, un)
             D(q) == FallbackChain(q, L, disp, un)
  <1>1. ASSUME NEW q \in K PROVE D(q) = C(q)
    <2>1. D(q) \subseteq C(q)
      <3>1. C(q) \in SUBSET L /\ Closed(C(q), q, K, disp, un)
        BY ChainKept, ChainClosed
      <3>2. Closed(C(q), q, L, disp, un)
        BY <3>1, ChainKept DEF Closed
      <3> QED  BY <3>1, <3>2, ChainLeast
    <2>2. C(q) \subseteq D(q) \cap K
      <3>1. Closed(D(q), q, L, disp, un)  BY ChainClosed
      <3>2. Closed(D(q) \cap K, q, K, disp, un)
        BY <3>1 DEF Closed
      <3> QED  BY <3>2, ChainLeast
    <2> QED  BY <2>1, <2>2
  <1>2. D(p) = {act} \cap K
    <2>1. \A q \in {act} \cap K : q \notin un
      BY DEF Ordered, ActiveNewest
    <2>2. Closed({act} \cap K, p, L, disp, un)
      BY <2>1 DEF Closed
    <2>3. D(p) \subseteq {act} \cap K
      BY <2>2, ChainLeast
    <2>4. {act} \cap K \subseteq D(p)
      <3>1. Closed(D(p), p, L, disp, un)  BY ChainClosed
      <3> QED  BY <3>1 DEF Closed
    <2> QED  BY <2>3, <2>4
  <1>3. ActiveNewest(p, L, seq, un) /\ Numbered(L, seq)
    <2>1. Numbered(L, seq)
      BY DEF Ordered, Numbered
    <2>2. ActiveNewest(p, L, seq, un)
      BY <2>1 DEF ActiveNewest, Numbered
    <2> QED  BY <2>1, <2>2
  <1>4. ChainsDescend(L, seq, disp, un)
    <2> SUFFICES ASSUME NEW q \in L \ un, NEW x \in D(q)
                 PROVE  /\ seq[x] < seq[q]
                        /\ \A s \in L \ un : seq[s] < seq[q] => seq[s] <= seq[x]
      BY DEF ChainsDescend
    <2>1. CASE q = p
      <3>1. x = act /\ x \in K \ un
        BY <2>1, <1>2 DEF Ordered, ActiveNewest
      <3> QED  BY <2>1, <3>1, <1>3 DEF Ordered, ActiveNewest, Numbered
    <2>2. CASE q # p
      <3>1. q \in K \ un /\ x \in C(q) /\ x \in K
        BY <2>2, <1>1, ChainKept
      <3>2. /\ seq[x] < seq[q]
            /\ \A s \in K \ un : seq[s] < seq[q] => seq[s] <= seq[x]
        BY <3>1 DEF Ordered, ChainsDescend
      <3>3. ~(seq[p] < seq[q])
        BY <3>1, <1>3 DEF Numbered
      <3> QED  BY <3>2, <3>3
    <2> QED  BY <2>1, <2>2
  <1>5. ChainsReach(L, seq, disp, un)
    <2> SUFFICES ASSUME NEW q \in L \ un, NEW s \in L \ un, seq[s] < seq[q]
                 PROVE  D(q) \ un # {}
      BY DEF ChainsReach
    <2>1. s \in K \ un
      BY <1>3 DEF Numbered
    <2>2. CASE q = p
      BY <2>1, <2>2, <1>2 DEF Ordered, ActiveNewest
    <2>3. CASE q # p
      BY <2>1, <2>3, <1>1 DEF Ordered, ChainsReach
    <2> QED  BY <2>2, <2>3
  <1> QED  BY <1>3, <1>4, <1>5 DEF Ordered

\* Taking a promotion back keeps the order: the active one becomes the end of
\* its own chain, and a chain that ended with it goes on through its own.
LEMMA OrderedTakesBack ==
    ASSUME NEW act, NEW K, NEW seq, NEW disp, NEW un, NEW u \in K, NEW next,
           Ordered(act, K, seq, disp, un),
           act # u => next = act,
           act = u => IF FallbackChain(u, K, disp, un) \ un = {} THEN next \notin K
                      ELSE next \in FallbackChain(u, K, disp, un) \ un
    PROVE  Ordered(next, K, seq, disp, un \cup {u})
  <1> DEFINE w == un \cup {u}
             C(q) == FallbackChain(q, K, disp, un)
             D(q) == FallbackChain(q, K, disp, w)
  <1>1. \A q \in K : C(q) \subseteq D(q)
    <2> SUFFICES ASSUME NEW q \in K PROVE C(q) \subseteq D(q)
      OBVIOUS
    <2>1. D(q) \in SUBSET K /\ Closed(D(q), q, K, disp, w)
      BY ChainKept, ChainClosed
    <2>2. Closed(D(q), q, K, disp, un)
      BY <2>1 DEF Closed
    <2> QED  BY <2>1, <2>2, ChainLeast
  <1>2. \A q \in K : u \notin C(q) => D(q) = C(q)
    <2> SUFFICES ASSUME NEW q \in K, u \notin C(q) PROVE D(q) \subseteq C(q)
      BY <1>1
    <2>1. C(q) \in SUBSET K /\ Closed(C(q), q, K, disp, un)
      BY ChainKept, ChainClosed
    <2>2. Closed(C(q), q, K, disp, w)
      BY <2>1 DEF Closed
    <2> QED  BY <2>1, <2>2, ChainLeast
  <1>3. \A q \in K : D(q) \subseteq C(q) \cup C(u)
    <2> SUFFICES ASSUME NEW q \in K PROVE D(q) \subseteq C(q) \cup C(u)
      OBVIOUS
    <2>1. /\ C(q) \cup C(u) \in SUBSET K
          /\ Closed(C(q), q, K, disp, un) /\ Closed(C(u), u, K, disp, un)
      BY ChainKept, ChainClosed
    <2>2. Closed(C(q) \cup C(u), q, K, disp, w)
      BY <2>1 DEF Closed
    <2> QED  BY <2>1, <2>2, ChainLeast
  <1>4. \A q \in K : u \in C(q) => C(u) \subseteq D(q)
    <2> SUFFICES ASSUME NEW q \in K, u \in C(q) PROVE C(u) \subseteq D(q)
      OBVIOUS
    <2>1. D(q) \in SUBSET K /\ Closed(D(q), q, K, disp, w) /\ u \in D(q)
      BY ChainKept, ChainClosed, <1>1
    <2>2. Closed(D(q), u, K, disp, un)
      BY <2>1 DEF Closed
    <2> QED  BY <2>1, <2>2, ChainLeast
  <1>5. CASE u \in un
    <2>1. w = un  BY <1>5
    <2>2. act # u  BY <1>5 DEF Ordered, ActiveNewest
    <2> QED  BY <2>1, <2>2
  <1>6. CASE u \notin un
    <2>1. Numbered(K, seq)
      BY DEF Ordered
    <2>2. \A q \in K \ un : \A x \in C(q) :
              /\ x \in K /\ seq[x] < seq[q]
              /\ \A s \in K \ un : seq[s] < seq[q] => seq[s] <= seq[x]
      BY ChainKept DEF Ordered, ChainsDescend
    <2>3. ActiveNewest(next, K, seq, w)
      <3>1. CASE act # u
        BY <3>1, <1>6 DEF Ordered, ActiveNewest
      <3>2. CASE act = u /\ C(u) \ un = {}
        <4>1. \A s \in K \ un : s = u
          BY <3>2, <1>6, <2>1 DEF Ordered, ActiveNewest, ChainsReach, Numbered
        <4> QED  BY <3>2, <4>1 DEF ActiveNewest
      <3>3. CASE act = u /\ C(u) \ un # {}
        <4>1. next \in K \ w /\ next \in C(u)
          BY <3>3, <2>2, <1>6, <2>1 DEF Numbered
        <4>2. \A s \in K \ w : seq[s] < seq[u]
          BY <3>3, <2>1 DEF Ordered, ActiveNewest, Numbered
        <4> QED  BY <4>1, <4>2, <2>2, <1>6 DEF ActiveNewest
      <3> QED  BY <3>1, <3>2, <3>3
    <2>4. ChainsDescend(K, seq, disp, w)
      <3> SUFFICES ASSUME NEW q \in K \ w, NEW x \in D(q)
                   PROVE  /\ seq[x] < seq[q]
                          /\ \A s \in K \ w : seq[s] < seq[q] => seq[s] <= seq[x]
        BY DEF ChainsDescend
      <3>1. CASE x \in C(q)
        BY <3>1, <2>2
      <3>2. CASE x \notin C(q)
        <4>1. u \in C(q) /\ x \in C(u)
          BY <3>2, <1>2, <1>3
        <4>2. seq[u] < seq[q] /\ seq[x] < seq[u]
          BY <4>1, <2>2, <1>6
        <4>3. \A s \in K \ w : seq[s] < seq[q] => seq[s] < seq[u]
          BY <4>1, <2>1, <2>2, <1>6 DEF Numbered
        <4> QED  BY <4>1, <4>2, <4>3, <2>1, <2>2, <1>6 DEF Numbered
      <3> QED  BY <3>1, <3>2
    <2>5. ChainsReach(K, seq, disp, w)
      <3> SUFFICES ASSUME NEW q \in K \ w, NEW s \in K \ w, seq[s] < seq[q]
                   PROVE  D(q) \ w # {}
        BY DEF ChainsReach
      <3>1. PICK z \in C(q) : z \notin un
        BY DEF Ordered, ChainsReach
      <3>2. CASE z # u
        BY <3>1, <3>2, <1>1
      <3>3. CASE z = u
        <4>1. seq[s] < seq[u]
          BY <3>1, <3>3, <2>1, <2>2 DEF Numbered
        <4>2. PICK y \in C(u) : y \notin un
          BY <4>1, <1>6 DEF Ordered, ChainsReach
        <4>3. y # u
          BY <4>2, <2>1, <2>2, <1>6 DEF Numbered
        <4> QED  BY <3>1, <3>3, <4>2, <4>3, <1>4
      <3> QED  BY <3>2, <3>3
    <2> QED  BY <2>1, <2>3, <2>4, <2>5 DEF Ordered
  <1> QED  BY <1>5, <1>6

\* What is not retained is older than everything retained, but for the active
\* promotion and its chain.
LEMMA RetainedNewest ==
    ASSUME NEW k \in Nat, NEW act, NEW K, IsFiniteSet(K), NEW seq, NEW disp, NEW un,
           Numbered(K, seq),
           NEW x \in K, x \notin Retained(k, act, K, seq, disp, un),
           NEW y \in Retained(k, act, K, seq, disp, un), seq[y] < seq[x]
    PROVE  y = act \/ y \in FallbackChain(act, K, disp, un)
  <1> SUFFICES ASSUME Cardinality(Newer(y, K, seq)) < k PROVE FALSE
    BY DEF Retained
  <1>1. y \in K  BY DEF Retained
  <1>2. Newer(x, K, seq) \subseteq Newer(y, K, seq) /\ Newer(y, K, seq) \subseteq K
    BY <1>1 DEF Newer, Numbered
  <1>3. /\ IsFiniteSet(Newer(y, K, seq)) /\ IsFiniteSet(Newer(x, K, seq))
        /\ Cardinality(Newer(x, K, seq)) <= Cardinality(Newer(y, K, seq))
    BY <1>2, FS_Subset
  <1>4. Cardinality(Newer(x, K, seq)) \in Nat /\ Cardinality(Newer(y, K, seq)) \in Nat
    BY <1>3, FS_CardinalityType
  <1> QED  BY <1>3, <1>4 DEF Retained

\* Retaining any number keeps the order.
LEMMA OrderedRetains ==
    ASSUME NEW k \in Nat, NEW act, NEW K, IsFiniteSet(K), NEW seq, NEW disp, NEW un,
           Ordered(act, K, seq, disp, un)
    PROVE  Ordered(act, Retained(k, act, K, seq, disp, un), seq, disp, un)
  <1> DEFINE L == Retained(k, act, K, seq, disp, un)
             C(q) == FallbackChain(q, K, disp, un)
             D(q) == FallbackChain(q, L, disp, un)
  <1>1. L \subseteq K /\ Numbered(K, seq) /\ Numbered(L, seq)
    BY DEF Retained, Ordered, Numbered
  <1>2. act \in K => act \in L /\ C(act) \subseteq L
    BY ChainKept DEF Retained
  <1>3. ActiveNewest(act, L, seq, un)
    BY <1>1, <1>2 DEF Ordered, ActiveNewest
  <1>4. \A q \in L : D(q) \subseteq C(q)
    <2> SUFFICES ASSUME NEW q \in L PROVE D(q) \subseteq C(q)
      OBVIOUS
    <2>1. Closed(C(q), q, K, disp, un)
      BY <1>1, ChainClosed
    <2>2. Closed(C(q) \cap L, q, L, disp, un)
      BY <1>1, <2>1 DEF Closed
    <2> QED  BY <2>2, ChainLeast
  <1>5. ChainsDescend(L, seq, disp, un)
    BY <1>1, <1>4 DEF Ordered, ChainsDescend
  <1>6. ChainsReach(L, seq, disp, un)
    <2> SUFFICES ASSUME NEW q \in L \ un, NEW s \in L \ un, seq[s] < seq[q]
                 PROVE  D(q) \ un # {}
      BY DEF ChainsReach
    <2>1. q \in K \ un /\ s \in K \ un
      BY <1>1
    <2>2. C(q) \subseteq L
      <3> SUFFICES ASSUME NEW x \in C(q), x \notin L PROVE FALSE
        OBVIOUS
      <3>1. x \in K /\ seq[s] <= seq[x] /\ x # s
        BY <2>1, ChainKept DEF Ordered, ChainsDescend
      <3>2. seq[s] < seq[x]
        BY <3>1, <2>1, <1>1 DEF Numbered
      <3>3. s = act \/ s \in C(act)
        BY <3>1, <3>2, <1>1, RetainedNewest
      <3>4. act \in K \ un /\ seq[q] <= seq[act]
        BY <2>1 DEF Ordered, ActiveNewest
      <3>5. q # act
        BY <3>1, <1>2, <3>4
      <3>6. seq[q] < seq[act] /\ s # act
        BY <3>4, <3>5, <2>1, <1>1 DEF Numbered
      <3>7. seq[q] <= seq[s]
        BY <3>3, <3>4, <3>6, <2>1 DEF Ordered, ChainsDescend
      <3> QED  BY <3>7, <2>1, <1>1 DEF Numbered
    <2>3. C(q) \subseteq D(q)
      <3>1. Closed(C(q), q, K, disp, un) /\ Closed(D(q), q, L, disp, un)
        BY <2>1, ChainClosed
      <3>2. D(q) \subseteq C(q) /\ D(q) \in SUBSET K
        BY <1>4, <2>1, ChainKept
      <3>3. Closed(D(q), q, K, disp, un)
        BY <3>1, <3>2, <2>2 DEF Closed
      <3> QED  BY <3>2, <3>3, ChainLeast
    <2> QED  BY <2>1, <2>3 DEF Ordered, ChainsReach
  <1> QED  BY <1>1, <1>3, <1>5, <1>6 DEF Ordered

-----------------------------------------------------------------------------
(***************************************************************************)
(* Types.                                                                  *)
(***************************************************************************)
\* Where a promoter is among the routers.
Cursors ==
    \A p \in Promoters :
        /\ at[p] \notin {"aiming", "moving", "restoring", "rewriting"} => router[p] = 1
        /\ at[p] \in {"restoring", "rewriting"} => router[p] <= touched[p]

\* TypeOK in parts.
LedgerOK ==
    /\ active \in Promoters \cup {Nothing}
    /\ kept \subseteq Promoters /\ unpromoted \subseteq Promoters
    /\ sequence \in [Promoters -> Nat]
    /\ displaced \in [Promoters -> Promoters \cup {Nothing}]
    /\ release \in [Promoters -> Deploys \cup {Nothing}]
    /\ target \in [Promoters -> Promoters \cup {Nothing}]

StoreOK ==
    /\ staged \subseteq Deploys /\ up \subseteq Deploys
    /\ served \in [Routers -> Promoters \cup {Nothing}]

LeaseOK ==
    /\ holder \in Promoters \cup {Nothing} /\ lost \subseteq Promoters
    /\ faults \in Nat

AtOK == at \in [Actors -> Phases]

MovingOK ==
    /\ router \in [Promoters -> Routers] /\ touched \in [Promoters -> 0 .. RouterCount]
    /\ aim \in [Promoters -> Promoters \cup {Nothing}]
    /\ seen \in [Promoters -> Promoters \cup {Nothing}]

ReclaimOK ==
    /\ dropped \in [Actors -> SUBSET Promoters]
    /\ doomed \in [Actors -> SUBSET Deploys] /\ gone \in [Actors -> SUBSET Deploys]
    /\ failed \subseteq Promoters

LEMMA TypeParts == TypeOK <=> LedgerOK /\ StoreOK /\ LeaseOK /\ AtOK /\ MovingOK /\ ReclaimOK
  BY DEF TypeOK, LedgerOK, StoreOK, LeaseOK, AtOK, MovingOK, ReclaimOK

Typed == LedgerOK /\ StoreOK /\ LeaseOK /\ AtOK /\ MovingOK /\ ReclaimOK /\ Cursors

LEMMA FallbackKept ==
    ASSUME NEW p PROVE Fallback(p) \in kept \cup {Nothing}
  <1>1. FallbackChain(p, kept, displaced, unpromoted) \subseteq kept
    BY ChainKept
  <1> QED  BY <1>1 DEF Fallback

LEMMA NextSequenceType == NextSequence \in Nat \ {0}
  <1>1. IsFiniteSet({q \in Promoters : sequence[q] > 0})
    BY FS_Subset, PromotionAssumption DEF PromotionAssumption
  <1> QED  BY <1>1, FS_CardinalityType DEF NextSequence

USE PromotionAssumption
    DEF PromotionAssumption, Promoters, Actors, Routers, At, Goto, Fault, Phases, Moving,
        Reclaiming, pointer, releases, lease, moving, reclaim

LEMMA ReclaimType ==
    ASSUME ReclaimOK, NEW a \in Actors, NEW xs \in SUBSET Deploys, Reclaim(a, xs)
    PROVE  doomed' \in [Actors -> SUBSET Deploys] /\ failed' \subseteq Promoters
  <1>1. CASE doomed' = doomed
    BY <1>1 DEF ReclaimOK, Reclaim, Reclaimed
  <1>2. CASE doomed' = [doomed EXCEPT ![a] = xs] /\ UNCHANGED failed
    BY <1>2 DEF ReclaimOK
  <1> QED  BY <1>1, <1>2 DEF Reclaim

LEMMA TypePromoting ==
    ASSUME Typed, NEW a \in Promoters, Promoting(a)
    PROVE  Typed'
  <1>1. ASSUME StartDeploy(a) \/ StartRollback(a) \/ Provision(a) \/
               RecordFails(a)
        PROVE  Typed'
    <2>1. LedgerOK'
      BY <1>1 DEF Typed, LedgerOK, StartDeploy, StartRollback, Provision,
             RecordFails, Take
    <2>2. StoreOK'
      BY <1>1 DEF Typed, LedgerOK, StoreOK, MovingOK, StartDeploy,
             StartRollback, Provision, RecordFails, Take
    <2>3. LeaseOK'
      BY <1>1 DEF Typed, LeaseOK, StartDeploy, StartRollback, Provision,
             RecordFails, Take
    <2>4. AtOK'
      BY <1>1 DEF Typed, AtOK, StartDeploy, StartRollback, Provision,
             RecordFails, Take
    <2>5. MovingOK'
      BY <1>1 DEF Typed, LedgerOK, StoreOK, AtOK, MovingOK, Cursors,
             StartDeploy, StartRollback, Provision, RecordFails, Take
    <2>6. ReclaimOK'
      BY <1>1 DEF Typed, LedgerOK, StoreOK, ReclaimOK, StartDeploy,
             StartRollback, Provision, RecordFails, Take
    <2>7. Cursors'
      BY <1>1 DEF Typed, AtOK, MovingOK, Cursors, StartDeploy, StartRollback,
             Provision, RecordFails, Take
    <2> QED  BY <2>1, <2>2, <2>3, <2>4, <2>5, <2>6, <2>7 DEF Typed
  <1>2. ASSUME Record(a) \/ RecordUnanswered(a)
        PROVE  Typed'
    <2>8. /\ kept' \subseteq Promoters /\ active' \in Promoters
          /\ sequence' \in [Promoters -> Nat]
          /\ UNCHANGED <<displaced, unpromoted, release>>
      <3>1. ToRecord(a) /\ NextSequence \in Nat
        BY <1>2, NextSequenceType DEF Record, RecordUnanswered
      <3> QED  BY <3>1 DEF Typed, LedgerOK, ToRecord, Promote, Retained
    <2>9. target' \in [Promoters -> Promoters \cup {Nothing}]
      BY <1>2 DEF Typed, LedgerOK, Record, RecordUnanswered, ToRecord
    <2>1. LedgerOK'
      BY <2>8, <2>9 DEF Typed, LedgerOK
    <2>2. StoreOK'
      BY <1>2 DEF Typed, LedgerOK, StoreOK, MovingOK, Record, RecordUnanswered
    <2>3. LeaseOK'
      BY <1>2 DEF Typed, LeaseOK, Record, RecordUnanswered
    <2>4. AtOK'
      BY <1>2 DEF Typed, AtOK, Record, RecordUnanswered
    <2>5. MovingOK'
      BY <1>2 DEF Typed, LedgerOK, StoreOK, AtOK, MovingOK, Cursors, Record,
             RecordUnanswered
    <2>6. ReclaimOK'
      <3>1. UNCHANGED <<doomed, gone, failed>>
        BY <1>2 DEF Record, RecordUnanswered, reclaim
      <3>2. \/ dropped' = [dropped EXCEPT ![a] = (kept \cup {a}) \ kept']
            \/ UNCHANGED dropped
        BY <1>2 DEF Record, RecordUnanswered, reclaim
      <3>3. (kept \cup {a}) \ kept' \in SUBSET Promoters
        BY DEF Typed, LedgerOK
      <3> QED
        BY <3>1, <3>2, <3>3 DEF Typed, ReclaimOK
    <2>7. Cursors'
      BY <1>2 DEF Typed, AtOK, MovingOK, Cursors, Record, RecordUnanswered
    <2> QED  BY <2>1, <2>2, <2>3, <2>4, <2>5, <2>6, <2>7 DEF Typed
  <1>3. ASSUME ReadKept(a) \/ Aim(a) \/ MoveStale(a) \/ RestoreAim(a) \/
               RestoreStale(a) \/ CheckpointFails(a) \/ UnpromoteFails(a)
        PROVE  Typed'
    <2>1. LedgerOK'
      BY <1>3 DEF Typed, LedgerOK, ReadKept, Aim, MoveStale, RestoreAim,
             RestoreStale, CheckpointFails, UnpromoteFails, Looked
    <2>2. StoreOK'
      BY <1>3 DEF Typed, LedgerOK, StoreOK, MovingOK, ReadKept, Aim,
             MoveStale, RestoreAim, RestoreStale, CheckpointFails,
             UnpromoteFails, Looked
    <2>3. LeaseOK'
      BY <1>3 DEF Typed, LeaseOK, ReadKept, Aim, MoveStale, RestoreAim,
             RestoreStale, CheckpointFails, UnpromoteFails, Looked
    <2>4. AtOK'
      BY <1>3 DEF Typed, AtOK, ReadKept, Aim, MoveStale, RestoreAim,
             RestoreStale, CheckpointFails, UnpromoteFails, Looked
    <2>5. MovingOK'
      <3>1. CASE ReadKept(a) \/ CheckpointFails(a)
        BY <3>1 DEF Typed, MovingOK, ReadKept, CheckpointFails
      <3>2. CASE Aim(a) \/ RestoreAim(a)
        <4>1. served[router[a]] \in Promoters \cup {Nothing}
          BY DEF Typed, StoreOK, MovingOK
        <4>2. active \in Promoters \cup {Nothing}
          BY DEF Typed, LedgerOK
        <4> QED  BY <3>2, <4>1, <4>2 DEF Typed, MovingOK, Aim, RestoreAim
      <3>3. CASE MoveStale(a) \/ RestoreStale(a)
        BY <3>3 DEF Typed, MovingOK, MoveStale, RestoreStale, Looked
      <3>4. CASE UnpromoteFails(a)
        BY <3>4 DEF Typed, MovingOK, UnpromoteFails
      <3> QED  BY <1>3, <3>1, <3>2, <3>3, <3>4
    <2>6. ReclaimOK'
      BY <1>3 DEF Typed, LedgerOK, StoreOK, ReclaimOK, ReadKept, Aim,
             MoveStale, RestoreAim, RestoreStale, CheckpointFails,
             UnpromoteFails, Looked
    <2>7. Cursors'
      BY <1>3 DEF Typed, AtOK, MovingOK, Cursors, ReadKept, Aim, MoveStale,
             RestoreAim, RestoreStale, CheckpointFails, UnpromoteFails, Looked
    <2> QED  BY <2>1, <2>2, <2>3, <2>4, <2>5, <2>6, <2>7 DEF Typed
  <1>4. ASSUME Move(a)
        PROVE  Typed'
    <2>1. LedgerOK'
      BY <1>4 DEF Typed, LedgerOK, Move, Looked
    <2>2. StoreOK'
      <3>1. router[a] \in Routers /\ aim[a] \in Promoters \cup {Nothing}
        BY DEF Typed, MovingOK
      <3> QED  BY <1>4, <3>1 DEF Typed, StoreOK, Move
    <2>3. LeaseOK'
      BY <1>4 DEF Typed, LeaseOK, Move, Looked
    <2>4. AtOK'
      BY <1>4 DEF Typed, AtOK, Move, Looked
    <2>5. MovingOK'
      BY <1>4 DEF Typed, LedgerOK, StoreOK, AtOK, MovingOK, Cursors, Move,
             Looked
    <2>6. ReclaimOK'
      BY <1>4 DEF Typed, LedgerOK, StoreOK, ReclaimOK, Move, Looked
    <2>7. Cursors'
      BY <1>4 DEF Typed, AtOK, MovingOK, Cursors, Move, Looked
    <2> QED  BY <2>1, <2>2, <2>3, <2>4, <2>5, <2>6, <2>7 DEF Typed
  <1>5. ASSUME MoveUnserved(a) \/ MoveBroken(a)
        PROVE  Typed'
    <2>1. LedgerOK'
      BY <1>5 DEF Typed, LedgerOK, MoveUnserved, MoveBroken, TakeBack, Looked
    <2>2. StoreOK'
      <3>1. router[a] \in Routers /\ aim[a] \in Promoters \cup {Nothing}
        BY DEF Typed, MovingOK
      <3>2. UNCHANGED served \/ served' = [served EXCEPT ![router[a]] = aim[a]]
        BY <1>5 DEF MoveUnserved, MoveBroken
      <3> QED  BY <1>5, <3>1, <3>2 DEF Typed, StoreOK, MoveUnserved, MoveBroken, TakeBack
    <2>3. LeaseOK'
      BY <1>5 DEF Typed, LeaseOK, MoveUnserved, MoveBroken, TakeBack, Looked
    <2>4. AtOK'
      BY <1>5 DEF Typed, AtOK, MoveUnserved, MoveBroken, TakeBack, Looked
    <2>5. MovingOK'
      <3>1. router[a] \in 0 .. RouterCount /\ router[a] - 1 \in 0 .. RouterCount
        BY DEF Typed, MovingOK
      <3>2. PICK n \in 0 .. RouterCount : TakeBack(a, n)
        BY <1>5, <3>1 DEF MoveUnserved, MoveBroken
      <3> QED  BY <3>2 DEF Typed, MovingOK, TakeBack, Looked
    <2>6. ReclaimOK'
      BY <1>5 DEF Typed, LedgerOK, StoreOK, ReclaimOK, MoveUnserved,
             MoveBroken, TakeBack, Looked
    <2>7. Cursors'
      BY <1>5 DEF Typed, AtOK, MovingOK, Cursors, MoveUnserved, MoveBroken,
             TakeBack, Looked
    <2> QED  BY <2>1, <2>2, <2>3, <2>4, <2>5, <2>6, <2>7 DEF Typed
  <1>6. ASSUME Unpromoting(a)
        PROVE  Typed'
    <2>1. LedgerOK'
      BY <1>6, FallbackKept DEF Typed, LedgerOK, Unpromoting, Unpromote
    <2>2. StoreOK'
      BY <1>6, FallbackKept DEF Typed, LedgerOK, StoreOK, MovingOK,
             Unpromoting, Unpromote
    <2>3. LeaseOK'
      BY <1>6, FallbackKept DEF Typed, LeaseOK, Unpromoting, Unpromote
    <2>4. AtOK'
      BY <1>6, FallbackKept DEF Typed, AtOK, Unpromoting, Unpromote
    <2>5. MovingOK'
      BY <1>6, FallbackKept DEF Typed, LedgerOK, StoreOK, AtOK, MovingOK,
             Cursors, Unpromoting, Unpromote
    <2>6. ReclaimOK'
      BY <1>6, FallbackKept DEF Typed, LedgerOK, StoreOK, ReclaimOK,
             Unpromoting, Unpromote
    <2>7. Cursors'
      BY <1>6, FallbackKept DEF Typed, AtOK, MovingOK, Cursors, Unpromoting,
             Unpromote
    <2> QED  BY <2>1, <2>2, <2>3, <2>4, <2>5, <2>6, <2>7 DEF Typed
  <1>7. ASSUME Restore(a) \/ RestoreNothing(a) \/ RestoreFails(a)
        PROVE  Typed'
    <2>1. LedgerOK'
      BY <1>7 DEF Typed, LedgerOK, Restore, RestoreNothing, RestoreFails,
             NextRestored, Looked
    <2>2. StoreOK'
      <3>1. router[a] \in Routers /\ aim[a] \in Promoters \cup {Nothing}
        BY DEF Typed, MovingOK
      <3> QED  BY <1>7, <3>1 DEF Typed, StoreOK, Restore, RestoreNothing, RestoreFails
    <2>3. LeaseOK'
      BY <1>7 DEF Typed, LeaseOK, Restore, RestoreNothing, RestoreFails,
             NextRestored, Looked
    <2>4. AtOK'
      BY <1>7 DEF Typed, AtOK, Restore, RestoreNothing, RestoreFails,
             NextRestored, Looked
    <2>5. MovingOK'
      <3>1. /\ router[a] \in Routers /\ touched[a] \in 0 .. RouterCount
            /\ router[a] <= touched[a]
        BY <1>7 DEF Typed, MovingOK, Cursors, Restore, RestoreNothing, RestoreFails
      <3>2. NextRestored(a) \/ (Looked(a) /\ UNCHANGED <<router, touched>>)
        BY <1>7 DEF Restore, RestoreNothing, RestoreFails
      <3>3. (IF router[a] = touched[a] THEN 1 ELSE router[a] + 1) \in Routers
        BY <3>1
      <3> QED  BY <3>1, <3>2, <3>3 DEF Typed, MovingOK, NextRestored, Looked
    <2>6. ReclaimOK'
      BY <1>7 DEF Typed, LedgerOK, StoreOK, ReclaimOK, Restore,
             RestoreNothing, RestoreFails, NextRestored, Looked
    <2>7. Cursors'
      BY <1>7 DEF Typed, AtOK, MovingOK, Cursors, Restore, RestoreNothing,
             RestoreFails, NextRestored, Looked
    <2> QED  BY <2>1, <2>2, <2>3, <2>4, <2>5, <2>6, <2>7 DEF Typed
  <1> QED  BY <1>1, <1>2, <1>3, <1>4, <1>5, <1>6, <1>7 DEF Promoting

LEMMA TypeReclaims ==
    ASSUME Typed, NEW a \in Actors, Reclaims(a) \/ LoseLease(a) \/ Crash(a)
    PROVE  Typed'
  <1>1. ASSUME Prune(a)
        PROVE  Typed'
    <2>1. LedgerOK'
      BY <1>1 DEF Typed, LedgerOK, Prune, Retained
    <2>2. StoreOK'
      BY <1>1 DEF Typed, LedgerOK, StoreOK, MovingOK, Prune, Retained
    <2>3. LeaseOK'
      BY <1>1 DEF Typed, LeaseOK, Prune, Retained
    <2>4. AtOK'
      BY <1>1 DEF Typed, AtOK, Prune, Retained
    <2>5. MovingOK'
      BY <1>1 DEF Typed, LedgerOK, StoreOK, AtOK, MovingOK, Cursors, Prune,
             Retained
    <2>6. ReclaimOK'
      BY <1>1 DEF Typed, LedgerOK, StoreOK, ReclaimOK, Prune, Retained
    <2>7. Cursors'
      BY <1>1 DEF Typed, AtOK, MovingOK, Cursors, Prune, Retained
    <2> QED  BY <2>1, <2>2, <2>3, <2>4, <2>5, <2>6, <2>7 DEF Typed
  <1>2. ASSUME ReadUnnamed(a)
        PROVE  Typed'
    <2>8. (Named(dropped[a]) \ Named(kept)) \cap staged \subseteq Deploys
      BY DEF Typed, StoreOK
    <2>1. LedgerOK'
      BY <1>2, <2>8 DEF Typed, LedgerOK, ReadUnnamed, Reclaim, Reclaimed,
             LetGo
    <2>2. StoreOK'
      BY <1>2, <2>8 DEF Typed, LedgerOK, StoreOK, MovingOK, ReadUnnamed,
             Reclaim, Reclaimed, LetGo
    <2>3. LeaseOK'
      BY <1>2, <2>8 DEF Typed, LeaseOK, ReadUnnamed, Reclaim, Reclaimed, LetGo
    <2>4. AtOK'
      BY <1>2, <2>8 DEF Typed, AtOK, ReadUnnamed, Reclaim, Reclaimed, LetGo
    <2>5. MovingOK'
      BY <1>2, <2>8 DEF Typed, LedgerOK, StoreOK, AtOK, MovingOK, Cursors,
             ReadUnnamed, Reclaim, Reclaimed, LetGo
    <2>6. ReclaimOK'
      BY <1>2, <2>8, ReclaimType DEF Typed, ReclaimOK, ReadUnnamed
    <2>7. Cursors'
      BY <1>2, <2>8 DEF Typed, AtOK, MovingOK, Cursors, ReadUnnamed, Reclaim,
             Reclaimed, LetGo
    <2> QED  BY <2>1, <2>2, <2>3, <2>4, <2>5, <2>6, <2>7 DEF Typed
  <1>3. ASSUME ReadOwn(a)
        PROVE  Typed'
    <2>1. LedgerOK'
      BY <1>3 DEF Typed, LedgerOK, ReadOwn, Reclaim, Reclaimed, LetGo
    <2>2. StoreOK'
      BY <1>3 DEF Typed, LedgerOK, StoreOK, MovingOK, ReadOwn, Reclaim,
             Reclaimed, LetGo
    <2>3. LeaseOK'
      BY <1>3 DEF Typed, LeaseOK, ReadOwn, Reclaim, Reclaimed, LetGo
    <2>4. AtOK'
      BY <1>3 DEF Typed, AtOK, ReadOwn, Reclaim, Reclaimed, LetGo
    <2>5. MovingOK'
      BY <1>3 DEF Typed, LedgerOK, StoreOK, AtOK, MovingOK, Cursors, ReadOwn,
             Reclaim, Reclaimed, LetGo
    <2>6. ReclaimOK'
      <3>1. ({a} \cap up) \ Named(kept) \subseteq Deploys
        BY DEF Typed, StoreOK
      <3> QED  BY <1>3, <3>1, ReclaimType DEF Typed, ReclaimOK, ReadOwn
    <2>7. Cursors'
      BY <1>3 DEF Typed, AtOK, MovingOK, Cursors, ReadOwn, Reclaim, Reclaimed,
             LetGo
    <2> QED  BY <2>1, <2>2, <2>3, <2>4, <2>5, <2>6, <2>7 DEF Typed
  <1>4. ASSUME Destroy(a) \/ Forget(a)
        PROVE  Typed'
    <2>1. LedgerOK'
      BY <1>4 DEF Typed, LedgerOK, Destroy, Forget, Reclaimed, LetGo
    <2>2. StoreOK'
      BY <1>4 DEF Typed, LedgerOK, StoreOK, MovingOK, Destroy, Forget,
             Reclaimed, LetGo
    <2>3. LeaseOK'
      BY <1>4 DEF Typed, LeaseOK, Destroy, Forget, Reclaimed, LetGo
    <2>4. AtOK'
      BY <1>4 DEF Typed, AtOK, Destroy, Forget, Reclaimed, LetGo
    <2>5. MovingOK'
      BY <1>4 DEF Typed, LedgerOK, StoreOK, AtOK, MovingOK, Cursors, Destroy,
             Forget, Reclaimed, LetGo
    <2>6. ReclaimOK'
      <3>1. doomed[a] \subseteq Deploys /\ gone[a] \subseteq Deploys
        BY DEF Typed, ReclaimOK
      <3>2. CASE Destroy(a)
        <4>1. PICK x \in doomed[a] :
                  /\ doomed' = [doomed EXCEPT ![a] = @ \ {x}]
                  /\ gone' = [gone EXCEPT ![a] = @ \cup {x}] \/ UNCHANGED gone
          BY <3>2 DEF Destroy
        <4>2. doomed[a] \ {x} \subseteq Deploys /\ gone[a] \cup {x} \subseteq Deploys
          BY <3>1
        <4> QED  BY <3>2, <4>1, <4>2 DEF Typed, ReclaimOK, Destroy
      <3>3. CASE Forget(a)
        BY <3>3 DEF Typed, ReclaimOK, Forget, Reclaimed
      <3> QED  BY <1>4, <3>2, <3>3
    <2>7. Cursors'
      BY <1>4 DEF Typed, AtOK, MovingOK, Cursors, Destroy, Forget, Reclaimed,
             LetGo
    <2> QED  BY <2>1, <2>2, <2>3, <2>4, <2>5, <2>6, <2>7 DEF Typed
  <1>5. ASSUME LoseLease(a) \/ Crash(a)
        PROVE  Typed'
    <2>1. LedgerOK'
      BY <1>5 DEF Typed, LedgerOK, LoseLease, Crash, LetGo, Looked
    <2>2. StoreOK'
      BY <1>5 DEF Typed, LedgerOK, StoreOK, MovingOK, LoseLease, Crash, LetGo,
             Looked
    <2>3. LeaseOK'
      BY <1>5 DEF Typed, LeaseOK, LoseLease, Crash, LetGo, Looked
    <2>4. AtOK'
      BY <1>5 DEF Typed, AtOK, LoseLease, Crash, LetGo, Looked
    <2>5. MovingOK'
      <3>1. CASE LoseLease(a)
        BY <3>1 DEF Typed, MovingOK, LoseLease
      <3>2. CASE Crash(a)
        BY <3>2 DEF Typed, MovingOK, Crash, Looked
      <3> QED  BY <1>5, <3>1, <3>2
    <2>6. ReclaimOK'
      BY <1>5 DEF Typed, LedgerOK, StoreOK, ReclaimOK, LoseLease, Crash,
             LetGo, Looked
    <2>7. Cursors'
      BY <1>5 DEF Typed, AtOK, MovingOK, Cursors, LoseLease, Crash, LetGo,
             Looked
    <2> QED  BY <2>1, <2>2, <2>3, <2>4, <2>5, <2>6, <2>7 DEF Typed
  <1> QED  BY <1>1, <1>2, <1>3, <1>4, <1>5 DEF Reclaims

LEMMA TypeInit == Init => Typed
  BY DEF Init, Typed, LedgerOK, StoreOK, LeaseOK, AtOK, MovingOK, ReclaimOK, Cursors

LEMMA TypeNext == Typed /\ [Next]_vars => Typed'
  <1> SUFFICES ASSUME Typed, [Next]_vars PROVE Typed'
    OBVIOUS
  <1>1. CASE UNCHANGED vars
    BY <1>1 DEF vars, Typed, LedgerOK, StoreOK, LeaseOK, AtOK, MovingOK, ReclaimOK, Cursors
  <1>2. ASSUME NEW a \in Actors, Promoting(a) PROVE a \in Promoters
    BY <1>2 DEF Promoting, StartDeploy, StartRollback, Provision, Record, RecordFails,
                RecordUnanswered, ReadKept, Aim, Move, MoveStale, MoveUnserved, MoveBroken,
                Unpromoting, UnpromoteFails, RestoreAim, Restore, RestoreStale,
                RestoreNothing, RestoreFails, CheckpointFails
  <1> QED  BY <1>1, <1>2, TypePromoting, TypeReclaims DEF Next

\* Every variable keeps its type.
THEOREM TypeCorrect == Spec => []TypeOK
  <1>1. Typed => TypeOK
    BY TypeParts DEF Typed
  <1> QED  BY <1>1, TypeInit, TypeNext, PTL DEF Spec

-----------------------------------------------------------------------------
(***************************************************************************)
(* What a recorded promotion names exists.  The reclaims are why: what one *)
(* still has to destroy or forget, no promotion recorded names and none    *)
(* that is on its way to be recorded will, for a rollback names what a     *)
(* recorded promotion names when it is recorded, and a deploy reclaims its *)
(* own release only once it records nothing any more.                      *)
(***************************************************************************)
\* A promoter that may still record.
Early == {"idle", "provisioning", "recording"}

\* What is to be destroyed or forgotten is named by nothing, and will be.
Unnamed ==
    \A a \in Actors : \A x \in doomed[a] \cup gone[a] :
        x \notin Named(kept) /\ at[x] \notin Early

\* A rollback about to record names what the one it goes back to names.
GoingBack ==
    \A b \in Rollbacks :
        /\ target[b] # Nothing => at[target[b]] \notin Early
        /\ at[b] = "recording" => target[b] \in Promoters /\ release[b] = release[target[b]]

\* A deploy about to record has its release up.
Building ==
    \A d \in Deploys : release[d] = d /\ (at[d] = "recording" => d \in staged \cap up)

\* A promotion that may still be recorded was not before, nor dropped.
Fresh ==
    \A p \in Promoters : at[p] \in Early => p \notin kept /\ \A a \in Actors : p \notin dropped[a]

\* What a promotion recorded or dropped names was built by one recorded before.
Built ==
    \A p \in Promoters : (p \in kept \/ \E a \in Actors : p \in dropped[a]) =>
        release[p] \in Deploys /\ at[release[p]] \notin Early

KInv == KeptIsUp /\ Unnamed /\ GoingBack /\ Building /\ Fresh /\ Built

\* A step that leaves releases and the pointer's promotions alone.
LEMMA KeptQuiet ==
    ASSUME Typed, KInv, UNCHANGED <<kept, release, releases>>,
           \A a \in Actors : /\ dropped'[a] \subseteq dropped[a]
                             /\ doomed'[a] \subseteq doomed[a] /\ gone'[a] \subseteq gone[a],
           \A p \in Promoters : /\ at'[p] \in Early => at[p] \in Early
                                /\ target'[p] \in {target[p], Nothing}
                                /\ at'[p] = "recording" =>
                                       at[p] = "recording" /\ target'[p] = target[p]
    PROVE  KInv'
  <1>1. KeptIsUp'
    BY DEF KInv, KeptIsUp
  <1>2. Unnamed'
    <2> SUFFICES ASSUME NEW a \in Actors, NEW x \in doomed'[a] \cup gone'[a]
                 PROVE  x \notin Named(kept) /\ at'[x] \notin Early
      BY DEF Unnamed, Named
    <2>1. x \in doomed[a] \cup gone[a] /\ x \in Promoters
      BY DEF Typed, ReclaimOK
    <2> QED  BY <2>1 DEF KInv, Unnamed
  <1>3. GoingBack'
    <2> SUFFICES ASSUME NEW b \in Rollbacks
                 PROVE  /\ target'[b] # Nothing => at'[target'[b]] \notin Early
                        /\ at'[b] = "recording" => /\ target'[b] \in Promoters
                                                   /\ release[b] = release[target'[b]]
      BY DEF GoingBack
    <2>1. target[b] \in Promoters \cup {Nothing}
      BY DEF Typed, LedgerOK
    <2> QED  BY <2>1 DEF KInv, GoingBack
  <1>4. Building'
    BY DEF KInv, Building
  <1>5. Fresh'
    BY DEF KInv, Fresh
  <1>6. Built'
    BY DEF KInv, Built
  <1> QED  BY <1>1, <1>2, <1>3, <1>4, <1>5, <1>6 DEF KInv

LEMMA KeptStartRollback ==
    ASSUME Typed, KInv, NEW b \in Promoters, StartRollback(b)
    PROVE  KInv'
  <1>1. PICK p \in kept : /\ target' = [target EXCEPT ![b] = p]
                          /\ release' = [release EXCEPT ![b] = release[p]]
    BY DEF StartRollback
  <1>2. /\ b \in Rollbacks /\ at[b] = "idle" /\ at' = [at EXCEPT ![b] = "recording"]
        /\ UNCHANGED <<kept, releases, dropped, doomed, gone>>
    BY DEF StartRollback
  <1>3. b \notin kept /\ \A a \in Actors : b \notin dropped[a]
    BY <1>2 DEF KInv, Fresh, Early
  <1>4. p \in Promoters /\ at[p] \notin Early /\ p # b
    BY <1>2, <1>3 DEF Typed, LedgerOK, KInv, Fresh
  <1>5. \A q \in Promoters : /\ q # b => release'[q] = release[q] /\ target'[q] = target[q]
                             /\ at'[q] \in Early <=> at[q] \in Early
                             /\ q # b => at'[q] = at[q]
    BY <1>1, <1>2 DEF Early, Typed, LedgerOK, AtOK
  <1>6. release'[b] = release[p] /\ target'[b] = p
    BY <1>1, <1>2 DEF Typed, LedgerOK
  <1>7. \A q \in kept : q \in Promoters /\ q # b
    BY <1>3 DEF Typed, LedgerOK
  <1>8. KeptIsUp'
    BY <1>2, <1>5, <1>7 DEF KInv, KeptIsUp
  <1>9. Unnamed'
    <2>1. Named(kept)' = Named(kept)
      BY <1>2, <1>5, <1>7 DEF Named
    <2> QED  BY <2>1, <1>2, <1>5 DEF Unnamed, KInv, Typed, ReclaimOK
  <1>10. GoingBack'
    <2> SUFFICES ASSUME NEW c \in Rollbacks
                 PROVE  /\ target'[c] # Nothing => at'[target'[c]] \notin Early
                        /\ at'[c] = "recording" => /\ target'[c] \in Promoters
                                                   /\ release'[c] = release'[target'[c]]
      BY DEF GoingBack
    <2>1. CASE c = b
      BY <2>1, <1>4, <1>5, <1>6
    <2>2. CASE c # b
      <3>1. target[c] \in Promoters \cup {Nothing} /\ target[c] # b
        BY <1>2 DEF Typed, LedgerOK, KInv, GoingBack, Early
      <3> QED  BY <2>2, <3>1, <1>5 DEF KInv, GoingBack
    <2> QED  BY <2>1, <2>2
  <1>11. Building' /\ Fresh'
    BY <1>2, <1>5 DEF KInv, Building, Fresh
  <1>12. Built'
    <2> SUFFICES ASSUME NEW q \in Promoters, q \in kept \/ \E a \in Actors : q \in dropped[a]
                 PROVE  release'[q] \in Deploys /\ at'[release'[q]] \notin Early
      BY <1>2 DEF Built
    <2>1. q # b
      BY <1>3
    <2> QED  BY <2>1, <1>5 DEF KInv, Built
  <1> QED  BY <1>8, <1>9, <1>10, <1>11, <1>12 DEF KInv

LEMMA KeptProvision ==
    ASSUME Typed, KInv, NEW d \in Promoters, Provision(d)
    PROVE  KInv'
  <1>1. /\ d \in Deploys /\ at[d] = "provisioning"
        /\ staged \subseteq staged' /\ up \subseteq up'
        /\ at'[d] = "recording" => d \in staged' \cap up'
        /\ UNCHANGED <<kept, release, target, dropped, doomed, gone>>
    BY DEF Provision, Typed, AtOK
  <1>2. \A q \in Promoters : /\ at'[q] \in Early => at[q] \in Early
                             /\ q # d => at'[q] = at[q]
    BY DEF Provision, Typed, AtOK, Early
  <1>3. KeptIsUp' /\ Fresh' /\ Built'
    BY <1>1, <1>2 DEF KInv, KeptIsUp, Fresh, Built
  <1>4. Unnamed'
    <2>1. Named(kept)' = Named(kept)
      BY <1>1 DEF Named
    <2> QED  BY <2>1, <1>1, <1>2 DEF Unnamed, KInv, Typed, ReclaimOK
  <1>5. GoingBack'
    <2>1. \A b \in Rollbacks : target[b] \in Promoters \cup {Nothing} /\ b # d
      BY <1>1 DEF Typed, LedgerOK
    <2> QED  BY <2>1, <1>1, <1>2 DEF KInv, GoingBack
  <1>6. Building'
    BY <1>1, <1>2 DEF KInv, Building
  <1> QED  BY <1>3, <1>4, <1>5, <1>6 DEF KInv

\* What is recorded names what is up, and nothing that is reclaimed.
LEMMA KeptRecord ==
    ASSUME Typed, KInv, NEW p \in Promoters, Record(p) \/ RecordUnanswered(p)
    PROVE  KInv'
  <1>1. /\ at[p] = "recording" /\ ToRecord(p)
        /\ UNCHANGED <<release, releases, doomed, gone>>
        /\ kept' \subseteq kept \cup {p}
        /\ \A a \in Actors : dropped'[a] \subseteq dropped[a] \cup kept \cup {p}
        /\ at'[p] \notin Early
        /\ \A q \in Promoters : q # p => at'[q] = at[q] /\ target'[q] = target[q]
        /\ target'[p] = Nothing
    <2>1. kept' \subseteq kept \cup {p} /\ UNCHANGED release
      BY DEF Record, RecordUnanswered, ToRecord, Promote, Retained
    <2>2. \A a \in Actors : dropped'[a] \subseteq dropped[a] \cup kept \cup {p}
      BY <2>1 DEF Record, RecordUnanswered, Typed, ReclaimOK
    <2>3. /\ at' = [at EXCEPT ![p] = "recorded"] \/ at' = [at EXCEPT ![p] = "owning"]
          /\ target' = [target EXCEPT ![p] = Nothing]
      BY DEF Record, RecordUnanswered, ToRecord
    <2> QED  BY <2>1, <2>2, <2>3 DEF Record, RecordUnanswered, Early, Typed, LedgerOK, AtOK
  <1>2. \A q \in Promoters : at'[q] \in Early => at[q] \in Early
    BY <1>1
  <1>3. /\ release[p] \in staged \cap up /\ release[p] \in Deploys
        /\ at'[release[p]] \notin Early
        /\ \A a \in Actors : release[p] \notin doomed[a] \cup gone[a]
    <2>1. CASE p \in Deploys
      <3>1. release[p] = p /\ p \in staged \cap up
        BY <1>1, <2>1 DEF KInv, Building
      <3>2. \A a \in Actors : p \notin doomed[a] \cup gone[a]
        BY <1>1 DEF KInv, Unnamed, Early
      <3> QED  BY <2>1, <3>1, <3>2, <1>1
    <2>2. CASE p \in Rollbacks
      <3>1. target[p] \in kept /\ release[p] = release[target[p]]
        BY <1>1, <2>2 DEF KInv, GoingBack, ToRecord
      <3>2. release[p] \in staged \cap up /\ release[p] \in Deploys /\ at[release[p]] \notin Early
        BY <3>1 DEF KInv, KeptIsUp, Built, Typed, LedgerOK
      <3>3. \A a \in Actors : release[p] \notin doomed[a] \cup gone[a]
        BY <3>1 DEF KInv, Unnamed, Named
      <3> QED  BY <3>2, <3>3, <1>2
    <2> QED  BY <2>1, <2>2
  <1>4. KeptIsUp'
    BY <1>1, <1>3 DEF KInv, KeptIsUp
  <1>5. Unnamed'
    <2> SUFFICES ASSUME NEW a \in Actors, NEW x \in doomed[a] \cup gone[a]
                 PROVE  x \notin Named(kept)' /\ at'[x] \notin Early
      BY <1>1 DEF Unnamed
    <2>1. x \notin Named(kept) /\ at[x] \notin Early /\ x \in Promoters /\ x # release[p]
      BY <1>3 DEF KInv, Unnamed, Typed, ReclaimOK
    <2> QED  BY <2>1, <1>1, <1>2 DEF Named
  <1>6. GoingBack'
    <2>1. \A b \in Rollbacks : target[b] \in Promoters \cup {Nothing}
      BY DEF Typed, LedgerOK
    <2>2. \A b \in Rollbacks : b # p => target'[b] = target[b] /\ at'[b] = at[b]
      BY <1>1
    <2> QED  BY <2>1, <2>2, <1>1, <1>2 DEF KInv, GoingBack, Early
  <1>7. Building'
    BY <1>1 DEF KInv, Building, Early
  <1>8. Fresh'
    BY <1>1 DEF KInv, Fresh
  <1>9. Built'
    <2> SUFFICES ASSUME NEW q \in Promoters, q \in kept' \/ \E a \in Actors : q \in dropped'[a]
                 PROVE  release[q] \in Deploys /\ at'[release[q]] \notin Early
      BY <1>1 DEF Built
    <2>1. CASE q = p
      BY <2>1, <1>3
    <2>2. CASE q # p
      <3>1. release[q] \in Deploys /\ at[release[q]] \notin Early
        BY <2>2, <1>1 DEF KInv, Built
      <3> QED  BY <3>1, <1>2
    <2> QED  BY <2>1, <2>2
  <1> QED  BY <1>4, <1>5, <1>6, <1>7, <1>8, <1>9 DEF KInv

LEMMA KeptPrune ==
    ASSUME Typed, KInv, NEW a \in Actors, Prune(a)
    PROVE  KInv'
  <1>1. /\ kept' \subseteq kept /\ a \in Prunes
        /\ \A c \in Actors : dropped'[c] \subseteq dropped[c] \cup kept
        /\ \A p \in Promoters : at'[p] = at[p]
        /\ UNCHANGED <<release, releases, target, doomed, gone>>
    BY DEF Prune, Retained, Typed, AtOK, ReclaimOK
  <1>2. KeptIsUp' /\ Building' /\ Fresh' /\ Built'
    BY <1>1 DEF KInv, KeptIsUp, Building, Fresh, Built
  <1>3. Unnamed'
    BY <1>1 DEF KInv, Unnamed, Named, Typed, ReclaimOK
  <1>4. GoingBack'
    BY <1>1 DEF KInv, GoingBack, Typed, LedgerOK
  <1> QED  BY <1>2, <1>3, <1>4 DEF KInv

\* What is read to be reclaimed is named by nothing recorded.
LEMMA KeptReads ==
    ASSUME Typed, KInv, NEW a \in Actors, ReadUnnamed(a) \/ ReadOwn(a)
    PROVE  KInv'
  <1> DEFINE xs == {x \in Deploys : x \notin Named(kept) /\ at[x] \notin Early}
  <1>1. /\ UNCHANGED <<kept, release, releases, target, gone>>
        /\ \A c \in Actors : dropped'[c] \subseteq dropped[c]
    BY DEF ReadUnnamed, ReadOwn, Typed, ReclaimOK
  <1>2. \A p \in Promoters : (at'[p] = at[p] \/ at'[p] \notin Early)
    BY DEF ReadUnnamed, ReadOwn, Reclaim, Reclaimed, Typed, AtOK, Early
  <1>3. \A c \in Actors : doomed'[c] \subseteq doomed[c] \cup xs
    <2>1. CASE ReadUnnamed(a)
      <3>1. (Named(dropped[a]) \ Named(kept)) \cap staged \subseteq xs
        BY DEF KInv, Built, Named, Typed, ReclaimOK
      <3> QED  BY <2>1, <3>1 DEF ReadUnnamed, Reclaim, Typed, ReclaimOK
    <2>2. CASE ReadOwn(a)
      <3>1. ({a} \cap up) \ Named(kept) \subseteq xs
        BY <2>2 DEF ReadOwn, Typed, StoreOK, Early
      <3> QED  BY <2>2, <3>1 DEF ReadOwn, Reclaim, Typed, ReclaimOK
    <2> QED  BY <2>1, <2>2
  <1>4. KeptIsUp' /\ Building' /\ Fresh'
    BY <1>1, <1>2 DEF KInv, KeptIsUp, Building, Fresh, Early
  <1>5. Built'
    BY <1>1, <1>2 DEF KInv, Built
  <1>6. Unnamed'
    <2> SUFFICES ASSUME NEW c \in Actors, NEW x \in doomed'[c] \cup gone[c]
                 PROVE  x \notin Named(kept) /\ at'[x] \notin Early
      BY <1>1 DEF Unnamed, Named
    <2>1. x \in Promoters /\ x \notin Named(kept) /\ at[x] \notin Early
      BY <1>3 DEF KInv, Unnamed, Typed, ReclaimOK
    <2> QED  BY <2>1, <1>2
  <1>7. GoingBack'
    BY <1>1, <1>2 DEF KInv, GoingBack, Typed, LedgerOK, Early
  <1> QED  BY <1>4, <1>5, <1>6, <1>7 DEF KInv

\* What is destroyed or forgotten is not what a recorded promotion names.
LEMMA KeptDestroys ==
    ASSUME Typed, KInv, NEW a \in Actors, Destroy(a) \/ Forget(a)
    PROVE  KInv'
  <1>1. /\ UNCHANGED <<kept, release, target, dropped>>
        /\ \A p \in Promoters : (at'[p] = at[p] \/ at'[p] \notin Early)
    BY DEF Destroy, Forget, Reclaimed, Typed, AtOK, Early
  <1>2. /\ \A x \in staged : x \in staged' \/ x \in gone[a]
        /\ \A x \in up : x \in up' \/ x \in doomed[a]
    BY DEF Destroy, Forget
  <1>3. \A c \in Actors : doomed'[c] \cup gone'[c] \subseteq doomed[c] \cup gone[c]
    BY DEF Destroy, Forget, Typed, ReclaimOK
  <1>4. KeptIsUp'
    BY <1>1, <1>2 DEF KInv, KeptIsUp, Unnamed, Named
  <1>5. Fresh' /\ Built'
    BY <1>1 DEF KInv, Fresh, Built
  <1>6. Unnamed'
    <2> SUFFICES ASSUME NEW c \in Actors, NEW x \in doomed'[c] \cup gone'[c]
                 PROVE  x \notin Named(kept) /\ at'[x] \notin Early
      BY <1>1 DEF Unnamed, Named
    <2>1. x \in Promoters /\ x \notin Named(kept) /\ at[x] \notin Early
      BY <1>3 DEF KInv, Unnamed, Typed, ReclaimOK
    <2> QED  BY <2>1, <1>1
  <1>7. GoingBack'
    BY <1>1 DEF KInv, GoingBack, Typed, LedgerOK, Early
  <1>8. Building'
    <2> SUFFICES ASSUME NEW d \in Deploys, at'[d] = "recording"
                 PROVE  d \in staged' \cap up'
      BY <1>1 DEF KInv, Building
    <2>1. at[d] = "recording"
      BY <1>1 DEF Early
    <2>2. d \notin doomed[a] \cup gone[a]
      BY <2>1 DEF KInv, Unnamed, Early
    <2> QED  BY <2>1, <2>2, <1>2 DEF KInv, Building
  <1> QED  BY <1>4, <1>5, <1>6, <1>7, <1>8 DEF KInv

LEMMA KeptInit == Init => KInv
  BY DEF Init, KInv, KeptIsUp, Unnamed, GoingBack, Building, Fresh, Built, Early

LEMMA KeptNext == Typed /\ KInv /\ [Next]_vars => KInv'
  <1> SUFFICES ASSUME Typed, KInv, [Next]_vars PROVE KInv'
    OBVIOUS
  <1>1. CASE UNCHANGED vars
    BY <1>1, KeptQuiet DEF vars
  <1>2. ASSUME NEW a \in Actors,
               StartDeploy(a) \/ RecordFails(a) \/ ReadKept(a) \/ Aim(a) \/ Move(a) \/
               MoveStale(a) \/ MoveUnserved(a) \/ MoveBroken(a) \/ Unpromoting(a) \/
               UnpromoteFails(a)
        PROVE  KInv'
    <2>1. /\ UNCHANGED <<kept, release, releases, dropped, doomed, gone>>
          /\ \A p \in Promoters : /\ target'[p] \in {target[p], Nothing}
                                  /\ at'[p] \in Early => at[p] \in Early
                                  /\ at'[p] = "recording" =>
                                         at[p] = "recording" /\ target'[p] = target[p]
      BY <1>2 DEF StartDeploy, RecordFails, ReadKept, Aim, Move, MoveStale, MoveUnserved,
                  MoveBroken, TakeBack, Unpromoting, Unpromote, UnpromoteFails, Early,
                  Typed, AtOK, LedgerOK
    <2> QED  BY <2>1, KeptQuiet
  <1>3. ASSUME NEW a \in Actors,
               RestoreAim(a) \/ Restore(a) \/ RestoreStale(a) \/ RestoreNothing(a) \/
               RestoreFails(a) \/ CheckpointFails(a) \/ LoseLease(a) \/ Crash(a)
        PROVE  KInv'
    <2>1. /\ UNCHANGED <<kept, release, releases>>
          /\ \A c \in Actors : /\ dropped'[c] \subseteq dropped[c]
                               /\ doomed'[c] \subseteq doomed[c] /\ gone'[c] \subseteq gone[c]
      BY <1>3 DEF RestoreAim, Restore, RestoreStale, RestoreNothing, RestoreFails,
                  CheckpointFails, LoseLease, Crash, Typed, ReclaimOK
    <2>2. \A p \in Promoters : /\ target'[p] \in {target[p], Nothing}
                               /\ at'[p] \in Early => at[p] \in Early
                               /\ at'[p] = "recording" =>
                                      at[p] = "recording" /\ target'[p] = target[p]
      BY <1>3 DEF RestoreAim, Restore, RestoreStale, RestoreNothing, RestoreFails,
                  NextRestored, CheckpointFails, LoseLease, Crash, Early,
                  Typed, AtOK, LedgerOK
    <2> QED  BY <2>1, <2>2, KeptQuiet
  <1>4. ASSUME NEW a \in Actors, StartRollback(a) \/ Provision(a) PROVE KInv'
    BY <1>4, KeptStartRollback, KeptProvision DEF StartRollback, Provision
  <1>5. ASSUME NEW a \in Actors, Record(a) \/ RecordUnanswered(a) PROVE KInv'
    BY <1>5, KeptRecord DEF Record, RecordUnanswered
  <1>6. ASSUME NEW a \in Actors, Reclaims(a) PROVE KInv'
    BY <1>6, KeptPrune, KeptReads, KeptDestroys DEF Reclaims
  <1> QED  BY <1>1, <1>2, <1>3, <1>4, <1>5, <1>6 DEF Next, Promoting

\* What a recorded promotion names is staged and up, so it can be gone back to.
THEOREM KeptStaysUp == Spec => []KeptIsUp
  <1>1. Init => Typed /\ KInv
    BY TypeInit, KeptInit
  <1>2. Typed /\ KInv /\ [Next]_vars => (Typed /\ KInv)'
    BY TypeNext, KeptNext
  <1>3. KInv => KeptIsUp
    BY DEF KInv
  <1> QED  BY <1>1, <1>2, <1>3, PTL DEF Spec
-----------------------------------------------------------------------------
(***************************************************************************)
(* The active promotion is the newest that stands.  That a promotion taken *)
(* back gives way to the next older one is a fact about its chain, which   *)
(* promotions, retained and taken back in any order, only keep because     *)
(* every chain descends without passing over a promotion that stands, and  *)
(* reaches one whenever there is one: the pointer is in order.             *)
(***************************************************************************)
\* Sequences are given out in order, and only to promotions recorded.
Sequenced ==
    /\ \A p \in Promoters : sequence[p] < NextSequence
    /\ \A p \in Promoters : at[p] \in Early => sequence[p] = 0

\* A promotion that may still be recorded was displaced by none and not taken
\* back; the active one is recorded.
Recorded ==
    /\ \A p \in Promoters : at[p] \in Early => p \notin unpromoted
    /\ \A p \in Promoters : displaced[p] # Nothing => at[displaced[p]] \notin Early
    /\ active \in kept \cup {Nothing}

NInv == Ordered(active, kept, sequence, displaced, unpromoted) /\ Sequenced /\ Recorded

\* A step that leaves the pointer alone, but for what one yet to be recorded
\* will displace.
LEMMA NewestQuiet ==
    ASSUME Typed, KInv, NInv, UNCHANGED <<active, kept, sequence, unpromoted>>,
           \A p \in Promoters :
               /\ at'[p] \in Early => at[p] \in Early
               /\ displaced'[p] \in {displaced[p], Nothing} \cup {active}
               /\ displaced'[p] = displaced[p] \/ at[p] \in Early
    PROVE  NInv'
  <1>1. \A q \in kept : displaced'[q] = displaced[q]
    BY DEF KInv, Fresh, Typed, LedgerOK
  <1>2. Ordered(active, kept, sequence, displaced', unpromoted)
    BY <1>1, OrderedAgrees DEF NInv
  <1>3. Sequenced'
    BY DEF NInv, Sequenced, NextSequence
  <1>4. active # Nothing => active \in Promoters /\ at[active] \notin Early
    BY DEF NInv, Recorded, KInv, Fresh, Typed, LedgerOK
  <1>5. Recorded'
    BY <1>4 DEF NInv, Recorded, Typed, LedgerOK
  <1> QED  BY <1>2, <1>3, <1>5 DEF NInv

LEMMA NewestRecord ==
    ASSUME Typed, KInv, NInv, NEW p \in Promoters, Record(p) \/ RecordUnanswered(p)
    PROVE  NInv'
  <1> DEFINE seq == [sequence EXCEPT ![p] = NextSequence]
             K   == kept \cup {p}
  <1>1. /\ active = displaced[p] /\ p \notin kept
        /\ active' = p /\ sequence' = seq
        /\ kept' = Retained(Keep, p, K, seq, displaced, unpromoted)
        /\ UNCHANGED <<displaced, unpromoted>>
    BY DEF Record, RecordUnanswered, ToRecord, Promote
  <1>2. /\ at[p] \in Early
        /\ at' = [at EXCEPT ![p] = "recorded"] \/ at' = [at EXCEPT ![p] = "owning"]
    BY DEF Record, RecordUnanswered, Early
  <1>3. \A q \in Promoters : at'[q] \in Early => at[q] \in Early /\ q # p
    BY <1>2 DEF Early, Typed, AtOK
  <1>4. /\ seq \in [Promoters -> Nat] /\ seq[p] = NextSequence
        /\ \A q \in Promoters : q # p => seq[q] = sequence[q]
    BY NextSequenceType DEF Typed, LedgerOK
  <1>5. Ordered(active, kept, seq, displaced, unpromoted)
    <2>1. \A q \in kept : seq[q] = sequence[q] /\ displaced[q] = displaced[q]
      BY <1>1, <1>4 DEF Typed, LedgerOK
    <2>2. Ordered(active, kept, sequence, displaced, unpromoted)
      BY DEF NInv
    <2> HIDE DEF seq
    <2> QED  BY <2>1, <2>2, OrderedAgrees
  <1>6. Ordered(p, K, seq, displaced, unpromoted)
    <2>1. \A q \in kept : seq[q] < seq[p] /\ displaced[q] # p
      BY <1>1, <1>2, <1>4 DEF NInv, Sequenced, Recorded, Typed, LedgerOK
    <2>2. p \notin unpromoted /\ active # p
      BY <1>1, <1>2 DEF NInv, Recorded
    <2> QED  BY <1>1, <1>4, <1>5, <2>1, <2>2, OrderedAdds
  <1>7. Ordered(p, Retained(Keep, p, K, seq, displaced, unpromoted), seq, displaced, unpromoted)
    <2>1. IsFiniteSet(K)
      BY FS_Subset DEF Typed, LedgerOK
    <2> QED  BY <1>6, <2>1, OrderedRetains
  <1>8. Sequenced'
    <2> DEFINE S == {q \in Promoters : sequence[q] > 0}
    <2>1. {q \in Promoters : sequence'[q] > 0} = S \cup {p} /\ p \notin S
      BY <1>1, <1>2, <1>4, NextSequenceType DEF NInv, Sequenced
    <2>2. IsFiniteSet(S) /\ Cardinality(S \cup {p}) = Cardinality(S) + 1
      BY <2>1, FS_Subset, FS_AddElement
    <2>3. NextSequence' = NextSequence + 1
      BY <2>1, <2>2 DEF NextSequence
    <2>4. \A q \in Promoters : sequence'[q] <= NextSequence
      BY <1>1, <1>4, NextSequenceType DEF NInv, Sequenced, Typed, LedgerOK
    <2>5. \A q \in Promoters : sequence'[q] < NextSequence'
      BY <1>1, <1>4, <2>3, <2>4, NextSequenceType
    <2>6. \A q \in Promoters : at'[q] \in Early => sequence'[q] = 0
      BY <1>1, <1>3, <1>4 DEF NInv, Sequenced
    <2> QED  BY <2>5, <2>6 DEF Sequenced
  <1>9. Recorded'
    <2>1. p \in kept'
      BY <1>1 DEF Retained
    <2> QED  BY <1>1, <1>3, <2>1 DEF NInv, Recorded, Typed, LedgerOK
  <1> QED  BY <1>1, <1>7, <1>8, <1>9 DEF NInv

LEMMA NewestUnpromoting ==
    ASSUME Typed, KInv, NInv, NEW p \in Promoters, Unpromoting(p)
    PROVE  NInv'
  <1>1. /\ p \in kept /\ unpromoted' = unpromoted \cup {p}
        /\ active' = IF active = p THEN Fallback(p) ELSE active
        /\ UNCHANGED <<kept, sequence, displaced>>
    BY DEF Unpromoting, Unpromote
  <1>2. \A q \in Promoters : at'[q] = at[q] \/ (q = p /\ at'[q] \notin Early)
    BY DEF Unpromoting, Early, Typed, AtOK
  <1>3. Ordered(active', kept, sequence, displaced, unpromoted \cup {p})
    <2> DEFINE standing == FallbackChain(p, kept, displaced, unpromoted) \ unpromoted
    <2>1. active # p => active' = active
      BY <1>1
    <2>2. active = p => IF standing = {} THEN active' \notin kept ELSE active' \in standing
      BY <1>1 DEF Fallback, Typed, LedgerOK
    <2> QED  BY <1>1, <2>1, <2>2, OrderedTakesBack DEF NInv
  <1>4. Sequenced'
    BY <1>1, <1>2 DEF NInv, Sequenced, NextSequence
  <1>5. Recorded'
    <2>1. at[p] \notin Early
      BY DEF Unpromoting, Early
    <2> QED  BY <1>1, <1>2, <2>1, FallbackKept DEF NInv, Recorded, Typed, LedgerOK
  <1> QED  BY <1>1, <1>3, <1>4, <1>5 DEF NInv

LEMMA NewestPrune ==
    ASSUME Typed, KInv, NInv, NEW a \in Actors, Prune(a)
    PROVE  NInv'
  <1>1. PICK k \in Nat :
            kept' = Retained(k, active, kept, sequence, displaced, unpromoted)
    BY DEF Prune
  <1>2. /\ UNCHANGED <<active, sequence, displaced, unpromoted>>
        /\ \A p \in Promoters : at'[p] = at[p]
    BY DEF Prune, Typed, AtOK
  <1>3. Ordered(active, kept', sequence, displaced, unpromoted)
    <2>1. IsFiniteSet(kept)
      BY FS_Subset DEF Typed, LedgerOK
    <2> QED  BY <1>1, <2>1, OrderedRetains DEF NInv
  <1>4. Sequenced'
    BY <1>2 DEF NInv, Sequenced, NextSequence
  <1>5. Recorded'
    <2>1. active \in kept => active \in kept'
      BY <1>1 DEF Retained
    <2> QED  BY <1>2, <2>1 DEF NInv, Recorded, Typed, LedgerOK
  <1> QED  BY <1>2, <1>3, <1>4, <1>5 DEF NInv

LEMMA NewestInit == Init => NInv
  <1> SUFFICES ASSUME Init PROVE NInv
    OBVIOUS
  <1>1. Ordered(active, kept, sequence, displaced, unpromoted)
    BY DEF Init, Ordered, ActiveNewest, Numbered, ChainsDescend, ChainsReach
  <1>2. Sequenced
    BY NextSequenceType DEF Init, Sequenced
  <1> QED  BY <1>1, <1>2 DEF Init, NInv, Recorded

LEMMA NewestNext == Typed /\ KInv /\ NInv /\ [Next]_vars => NInv'
  <1> SUFFICES ASSUME Typed, KInv, NInv, [Next]_vars PROVE NInv'
    OBVIOUS
  <1>1. CASE UNCHANGED vars
    BY <1>1, NewestQuiet DEF vars
  <1>2. ASSUME NEW a \in Actors,
               StartDeploy(a) \/ StartRollback(a) \/ Provision(a) \/ RecordFails(a) \/
               ReadKept(a) \/ Aim(a) \/ Move(a) \/ MoveStale(a) \/ MoveUnserved(a) \/
               MoveBroken(a)
        PROVE  NInv'
    <2>1. UNCHANGED <<active, kept, sequence, unpromoted>>
      BY <1>2 DEF StartDeploy, StartRollback, Provision, RecordFails, ReadKept, Aim, Move,
                  MoveStale, MoveUnserved, MoveBroken, TakeBack
    <2>2. \A p \in Promoters :
              /\ at'[p] \in Early => at[p] \in Early
              /\ displaced'[p] \in {displaced[p], Nothing} \cup {active}
              /\ displaced'[p] = displaced[p] \/ at[p] \in Early
      BY <1>2 DEF StartDeploy, StartRollback, Provision, RecordFails, ReadKept, Aim, Move,
                  MoveStale, MoveUnserved, MoveBroken, TakeBack, Early, Typed, LedgerOK, AtOK
    <2> QED  BY <2>1, <2>2, NewestQuiet
  <1>3. ASSUME NEW a \in Actors,
               UnpromoteFails(a) \/ RestoreAim(a) \/ Restore(a) \/ RestoreStale(a) \/
               RestoreNothing(a) \/ RestoreFails(a) \/ CheckpointFails(a) \/
               LoseLease(a) \/ Crash(a)
        PROVE  NInv'
    <2>1. UNCHANGED <<active, kept, sequence, displaced, unpromoted>>
      BY <1>3 DEF UnpromoteFails, RestoreAim, Restore, RestoreStale, RestoreNothing,
                  RestoreFails, CheckpointFails, LoseLease, Crash
    <2>2. \A p \in Promoters : at'[p] \in Early => at[p] \in Early
      BY <1>3 DEF UnpromoteFails, RestoreAim, Restore, RestoreStale, RestoreNothing,
                  RestoreFails, NextRestored, CheckpointFails, LoseLease, Crash, Early,
                  Typed, AtOK
    <2> QED  BY <2>1, <2>2, NewestQuiet
  <1>4. ASSUME NEW a \in Actors, Record(a) \/ RecordUnanswered(a) \/ Unpromoting(a)
        PROVE  NInv'
    BY <1>4, NewestRecord, NewestUnpromoting DEF Record, RecordUnanswered, Unpromoting
  <1>5. ASSUME NEW a \in Actors, ReadUnnamed(a) \/ ReadOwn(a) \/ Destroy(a) \/ Forget(a)
        PROVE  NInv'
    <2>1. UNCHANGED <<active, kept, sequence, displaced, unpromoted>>
      BY <1>5 DEF ReadUnnamed, ReadOwn, Destroy, Forget
    <2>2. \A p \in Promoters : at'[p] \in Early => at[p] \in Early
      BY <1>5 DEF ReadUnnamed, ReadOwn, Destroy, Forget, Reclaim, Reclaimed, Early, Typed, AtOK
    <2> QED  BY <2>1, <2>2, NewestQuiet
  <1>6. ASSUME NEW a \in Actors, Prune(a) PROVE NInv'
    BY <1>6, NewestPrune
  <1> QED  BY <1>1, <1>2, <1>3, <1>4, <1>5, <1>6 DEF Next, Promoting, Reclaims

\* The pointer names the newest recorded promotion that was not taken back.
THEOREM NewestIsActive == Spec => []ActiveIsNewest
  <1>1. Init => Typed /\ KInv /\ NInv
    BY TypeInit, KeptInit, NewestInit
  <1>2. Typed /\ KInv /\ NInv /\ [Next]_vars => (Typed /\ KInv /\ NInv)'
    BY TypeNext, KeptNext, NewestNext
  <1>3. Typed /\ NInv => ActiveIsNewest
    BY DEF Typed, LedgerOK, NInv, Recorded, Ordered, ActiveNewest, ActiveIsNewest, Standing
  <1> QED  BY <1>1, <1>2, <1>3, PTL DEF Spec
-----------------------------------------------------------------------------
(***************************************************************************)
(* Routers follow the pointer, while nothing dies and no answer is lost.   *)
(* One promoter moves routers at a time: whoever else would record has     *)
(* lost the lease, and nobody starts while one unwinds.  What a promoter   *)
(* that may be taken back displaced stays recorded, so that the pointer    *)
(* goes back to what the routers it has not moved still serve.             *)
(***************************************************************************)
\* A promoter whose promotion is recorded and was not taken back.
Before == {"recorded", "aiming", "moving", "unpromoting"}

\* A promoter that may still record.
Heading == {"provisioning", "recording"}

\* Who works holds the lease or has lost it.
Holding == \A p \in Promoters : at[p] \notin {"idle", "done"} => p \in lost \/ holder = p

\* Nothing is to be restored before a router refused.
Untouched ==
    \A p \in Promoters :
        at[p] \in Early \cup {"recorded", "aiming", "moving"} => touched[p] = 0

\* Nobody else moves routers or will.
SoloBut(p) ==
    \A q \in Promoters : q # p => at[q] \notin Moving /\ (at[q] \in Heading => q \in lost)

\* What it displaced is there to go back to.
Returns(p) ==
    at[p] \in Before =>
        active = p /\ p \in kept /\ displaced[p] \in (kept \ unpromoted) \cup {Nothing}

\* What the routers serve while it moves or restores them.
Serving(p) ==
    /\ at[p] \in {"recorded", "aiming", "moving"} =>
           \A r \in Routers : served[r] = IF r < router[p] THEN p ELSE displaced[p]
    /\ at[p] = "moving" => aim[p] = p
    /\ at[p] = "unpromoting" =>
           \A r \in Routers : /\ served[r] \in {p, displaced[p]}
                              /\ r > touched[p] => served[r] = displaced[p]
    /\ at[p] \in {"restoring", "rewriting"} =>
           \A r \in Routers : r < router[p] \/ r > touched[p] => served[r] = active
    /\ at[p] = "rewriting" => aim[p] = active

Follow == \A r \in Routers : served[r] = active

Follows ==
    /\ \A p \in Promoters : at[p] \in Moving => SoloBut(p) /\ Returns(p) /\ Serving(p)
    /\ (\A p \in Promoters : at[p] \notin Moving) => Follow

RInv == Holding /\ Untouched /\ (faults = 0 => Follows)

LEMMA HoldingNext == Typed /\ Holding /\ [Next]_vars => Holding'
  <1> SUFFICES ASSUME Typed, Holding, [Next]_vars PROVE Holding'
    OBVIOUS
  <1> USE DEF Typed, AtOK, LeaseOK, Holding
  <1>1. CASE UNCHANGED vars
    BY <1>1 DEF vars
  <1>2. ASSUME NEW a \in Actors, StartDeploy(a) \/ StartRollback(a)
        PROVE  Holding'
    BY <1>2 DEF StartDeploy, StartRollback, Take
  <1>3. ASSUME NEW a \in Actors,
               Provision(a) \/ Record(a) \/ RecordFails(a) \/ RecordUnanswered(a) \/
               ReadKept(a) \/ Aim(a) \/ Move(a) \/ MoveStale(a)
        PROVE  Holding'
    BY <1>3 DEF Provision, Record, RecordFails, RecordUnanswered, ReadKept, Aim, Move, MoveStale
  <1>4. ASSUME NEW a \in Actors,
               MoveUnserved(a) \/ MoveBroken(a) \/ Unpromoting(a) \/ UnpromoteFails(a) \/
               RestoreAim(a) \/ Restore(a) \/ RestoreStale(a) \/ RestoreNothing(a) \/
               RestoreFails(a) \/ CheckpointFails(a)
        PROVE  Holding'
    BY <1>4 DEF MoveUnserved, MoveBroken, TakeBack, Unpromoting, UnpromoteFails, RestoreAim,
                Restore, RestoreStale, RestoreNothing, RestoreFails, NextRestored, CheckpointFails
  <1>5. ASSUME NEW a \in Actors,
               Prune(a) \/ ReadUnnamed(a) \/ ReadOwn(a) \/ Destroy(a) \/ Forget(a)
        PROVE  Holding'
    BY <1>5 DEF Prune, ReadUnnamed, ReadOwn, Destroy, Forget, Reclaim, Reclaimed, LetGo
  <1>6. ASSUME NEW a \in Actors, LoseLease(a) \/ Crash(a)
        PROVE  Holding'
    BY <1>6 DEF LoseLease, Crash, LetGo
  <1> QED  BY <1>1, <1>2, <1>3, <1>4, <1>5, <1>6 DEF Next, Promoting, Reclaims

LEMMA UntouchedNext == Typed /\ Untouched /\ [Next]_vars => Untouched'
  <1> SUFFICES ASSUME Typed, Untouched, [Next]_vars PROVE Untouched'
    OBVIOUS
  <1> USE DEF Typed, AtOK, MovingOK, Untouched, Early
  <1>1. CASE UNCHANGED vars
    BY <1>1 DEF vars
  <1>2. ASSUME NEW a \in Actors,
               StartDeploy(a) \/ StartRollback(a) \/ Provision(a) \/ Record(a) \/
               RecordFails(a) \/ RecordUnanswered(a) \/ ReadKept(a) \/ Aim(a) \/
               Move(a) \/ MoveStale(a)
        PROVE  Untouched'
    BY <1>2 DEF StartDeploy, StartRollback, Provision, Record, RecordFails, RecordUnanswered,
                ReadKept, Aim, Move, MoveStale
  <1>3. ASSUME NEW a \in Actors,
               MoveUnserved(a) \/ MoveBroken(a) \/ Unpromoting(a) \/ UnpromoteFails(a) \/
               RestoreAim(a) \/ Restore(a) \/ RestoreStale(a) \/ RestoreNothing(a) \/
               RestoreFails(a) \/ CheckpointFails(a)
        PROVE  Untouched'
    BY <1>3 DEF MoveUnserved, MoveBroken, TakeBack, Unpromoting, UnpromoteFails, RestoreAim,
                Restore, RestoreStale, RestoreNothing, RestoreFails, NextRestored, CheckpointFails
  <1>4. ASSUME NEW a \in Actors,
               Prune(a) \/ ReadUnnamed(a) \/ ReadOwn(a) \/ Destroy(a) \/ Forget(a) \/
               LoseLease(a) \/ Crash(a)
        PROVE  Untouched'
    BY <1>4 DEF Prune, ReadUnnamed, ReadOwn, Destroy, Forget, Reclaim, Reclaimed, LoseLease, Crash
  <1> QED  BY <1>1, <1>2, <1>3, <1>4 DEF Next, Promoting, Reclaims

\* A step that moves no router and is nobody's who moves them.
LEMMA FollowsQuiet ==
    ASSUME Typed, Follows, UNCHANGED <<active, unpromoted, served>>,
           \A p \in Promoters : at[p] \in Moving \/ at'[p] \in Moving =>
               /\ at'[p] = at[p] /\ router'[p] = router[p] /\ touched'[p] = touched[p]
               /\ aim'[p] = aim[p] /\ displaced'[p] = displaced[p]
               /\ at[p] \in Before => {p, displaced[p]} \cap kept \subseteq kept'
               /\ \A q \in Promoters : at'[q] \in Heading => at[q] \in Heading /\ (q \in lost => q \in lost')
    PROVE  Follows'
  <1>1. ASSUME NEW p \in Promoters, at'[p] \in Moving
        PROVE  SoloBut(p)' /\ Returns(p)' /\ Serving(p)'
    <2>1. SoloBut(p) /\ Returns(p) /\ Serving(p) /\ at'[p] = at[p]
      BY <1>1 DEF Follows
    <2>2. SoloBut(p)'
      BY <1>1, <2>1 DEF SoloBut
    <2>3. Returns(p)'
      BY <1>1, <2>1 DEF Returns, Before
    <2>4. Serving(p)'
      BY <1>1, <2>1 DEF Serving
    <2> QED  BY <2>2, <2>3, <2>4
  <1>2. ASSUME \A p \in Promoters : at'[p] \notin Moving
        PROVE  Follow'
    <2>1. \A p \in Promoters : at[p] \notin Moving
      BY <1>2
    <2> QED  BY <2>1 DEF Follows, Follow
  <1> QED  BY <1>1, <1>2 DEF Follows

\* A step of the one who moves routers.
LEMMA FollowsOwn ==
    ASSUME Typed, NEW p \in Promoters, SoloBut(p), NEW s \in Phases, s \notin Heading,
           at' = [at EXCEPT ![p] = s], UNCHANGED lost,
           IF s \in Moving THEN Returns(p)' /\ Serving(p)' ELSE Follow'
    PROVE  Follows'
  <1>1. \A q \in Promoters : at'[q] = IF q = p THEN s ELSE at[q]
    BY DEF Typed, AtOK
  <1>2. SoloBut(p)'
    BY <1>1 DEF SoloBut
  <1>3. \A q \in Promoters : q # p => at'[q] \notin Moving
    BY <1>1 DEF SoloBut
  <1> QED  BY <1>1, <1>2, <1>3 DEF Follows

\* What the active promotion displaced is retained with it.
LEMMA RetainedDisplaced ==
    ASSUME NEW k \in Nat, NEW K, NEW p \in K, NEW seq, NEW disp, NEW un
    PROVE  {p, disp[p]} \cap K \subseteq Retained(k, p, K, seq, disp, un)
  <1>1. disp[p] \in K => disp[p] \in FallbackChain(p, K, disp, un)
    BY ChainClosed DEF Closed
  <1> QED  BY <1>1 DEF Retained

\* A promotion gives way to the one it displaced, when that stands.
LEMMA FallbackIsDisplaced ==
    ASSUME Typed, NEW p \in kept, displaced[p] \in (kept \ unpromoted) \cup {Nothing}
    PROVE  Fallback(p) = displaced[p]
  <1> DEFINE C == FallbackChain(p, kept, displaced, unpromoted)
  <1>1. CASE displaced[p] = Nothing
    <2>1. Nothing \notin kept
      BY DEF Typed, LedgerOK
    <2>2. C = {}
      BY <1>1, <2>1, ChainLeast DEF Closed
    <2> QED  BY <1>1, <2>2 DEF Fallback
  <1>2. CASE displaced[p] \in kept \ unpromoted
    <2>1. C \subseteq {displaced[p]}
      <3>1. Closed({displaced[p]}, p, kept, displaced, unpromoted)
        BY <1>2 DEF Closed
      <3> QED  BY <1>2, <3>1, ChainLeast
    <2>2. displaced[p] \in C
      BY <1>2, ChainClosed DEF Closed
    <2>3. C \ unpromoted = {displaced[p]}
      BY <1>2, <2>1, <2>2
    <2> QED  BY <2>3 DEF Fallback
  <1> QED  BY <1>1, <1>2

LEMMA FollowsRecord ==
    ASSUME Typed, KInv, NInv, Holding, Follows, NEW p \in Promoters, Record(p)
    PROVE  Follows'
  <1>1. /\ at[p] = "recording" /\ p \notin lost /\ holder = p
        /\ active = displaced[p] /\ active' = p /\ p \notin kept
        /\ kept' = Retained(Keep, p, kept \cup {p}, [sequence EXCEPT ![p] = NextSequence],
                            displaced, unpromoted)
        /\ UNCHANGED <<displaced, unpromoted, served, router, lost>>
        /\ at' = [at EXCEPT ![p] = "recorded"]
    BY DEF Record, Holds, ToRecord, Promote, Holding, moving
  <1>2. \A q \in Promoters : at[q] \notin Moving
    BY <1>1 DEF Follows, SoloBut, Heading
  <1>3. SoloBut(p)
    BY <1>1, <1>2 DEF SoloBut, Holding, Heading
  <1>4. active \in (kept \ unpromoted) \cup {Nothing}
    BY DEF NInv, Recorded, Ordered, ActiveNewest
  <1>5. p \in kept' /\ displaced[p] \in kept' \cup {Nothing}
    <2>1. {p, displaced[p]} \cap (kept \cup {p}) \subseteq kept'
      BY <1>1, RetainedDisplaced
    <2> QED  BY <1>1, <1>4, <2>1
  <1>6. Returns(p)'
    BY <1>1, <1>4, <1>5 DEF Returns
  <1>7. Serving(p)'
    <2>1. router[p] = 1 /\ at'[p] = "recorded"
      BY <1>1 DEF Typed, Cursors, AtOK
    <2>2. \A r \in Routers : served[r] = displaced[p] /\ ~ (r < 1)
      BY <1>1, <1>2 DEF Follows, Follow
    <2> QED  BY <1>1, <2>1, <2>2 DEF Serving
  <1> QED  BY <1>1, <1>3, <1>6, <1>7, FollowsOwn DEF Heading

\* The steps that move routers.
LEMMA FollowsMoving ==
    ASSUME Typed, Untouched, Follows, NEW p \in Promoters,
           ReadKept(p) \/ Aim(p) \/ Move(p) \/ MoveStale(p) \/ MoveUnserved(p) \/ MoveBroken(p)
    PROVE  Follows'
  <1>1. /\ at[p] \in {"recorded", "aiming", "moving"}
        /\ UNCHANGED <<active, kept, displaced, unpromoted, lost>>
    BY DEF ReadKept, Aim, Move, MoveStale, MoveUnserved, MoveBroken, TakeBack
  <1>2. /\ SoloBut(p) /\ active = p /\ p \in kept
        /\ displaced[p] \in (kept \ unpromoted) \cup {Nothing}
        /\ \A r \in Routers : served[r] = IF r < router[p] THEN p ELSE displaced[p]
        /\ at[p] = "moving" => aim[p] = p
        /\ touched[p] = 0 /\ router[p] \in Routers
    BY <1>1 DEF Follows, Returns, Serving, Before, Untouched, Typed, MovingOK
  <1>3. Returns(p)'
    BY <1>1, <1>2 DEF Returns
  <1>4. ASSUME ReadKept(p) PROVE Follows'
    <2>1. /\ UNCHANGED <<served, router, touched>>
          /\ \/ at' = [at EXCEPT ![p] = "aiming"]
             \/ at' = [at EXCEPT ![p] = "unpromoting"] /\ router[p] = 1
      BY <1>4 DEF ReadKept, Typed, Cursors
    <2>2. Serving(p)'
      BY <1>1, <1>2, <2>1 DEF Serving, Typed, AtOK
    <2> QED  BY <1>1, <1>2, <1>3, <2>1, <2>2, FollowsOwn DEF Heading
  <1>5. ASSUME Aim(p) \/ MoveStale(p) PROVE Follows'
    <2>1. /\ UNCHANGED <<served, router, touched>>
          /\ \/ at' = [at EXCEPT ![p] = "aiming"]
             \/ at' = [at EXCEPT ![p] = "moving"] /\ aim'[p] = p
      BY <1>5 DEF Aim, MoveStale, Looked, Typed, MovingOK
    <2>2. Serving(p)'
      BY <1>1, <1>2, <2>1 DEF Serving, Typed, AtOK
    <2> QED  BY <1>1, <1>2, <1>3, <2>1, <2>2, FollowsOwn DEF Heading
  <1>6. ASSUME Move(p) PROVE Follows'
    <2>1. \A r \in Routers : served'[r] = IF r < router[p] + 1 THEN p ELSE displaced[p]
      <3>1. aim[p] = p /\ served' = [served EXCEPT ![router[p]] = p]
        BY <1>2, <1>6 DEF Move
      <3> QED  BY <1>2, <3>1 DEF Typed, StoreOK
    <2>2. CASE router[p] = RouterCount
      <3>1. at' = [at EXCEPT ![p] = "served"]
        BY <1>6, <2>2 DEF Move
      <3>2. Follow'
        BY <1>1, <1>2, <2>1, <2>2 DEF Follow
      <3> QED  BY <1>1, <1>2, <3>1, <3>2, FollowsOwn DEF Heading
    <2>3. CASE router[p] # RouterCount
      <3>1. at' = [at EXCEPT ![p] = "aiming"] /\ router'[p] = router[p] + 1
        BY <1>6, <2>3 DEF Move, Typed, MovingOK
      <3>2. Serving(p)'
        BY <1>1, <2>1, <3>1 DEF Serving, Typed, AtOK
      <3> QED  BY <1>1, <1>2, <1>3, <3>1, <3>2, FollowsOwn DEF Heading
    <2> QED  BY <2>2, <2>3
  <1>7. ASSUME MoveUnserved(p) \/ MoveBroken(p) PROVE Follows'
    <2>1. /\ at' = [at EXCEPT ![p] = "unpromoting"]
          /\ \/ touched'[p] = router[p] - 1 /\ UNCHANGED served
             \/ /\ touched'[p] = router[p]
                /\ \/ UNCHANGED served
                   \/ served' = [served EXCEPT ![router[p]] = p]
      BY <1>2, <1>7 DEF MoveUnserved, MoveBroken, TakeBack, Typed, MovingOK
    <2>2. \A r \in Routers : /\ served'[r] \in {p, displaced[p]}
                             /\ r > touched'[p] => served'[r] = displaced[p]
      BY <1>2, <2>1 DEF Typed, StoreOK
    <2>3. Serving(p)'
      BY <1>1, <2>1, <2>2 DEF Serving, Typed, AtOK
    <2> QED  BY <1>1, <1>2, <1>3, <2>1, <2>3, FollowsOwn DEF Heading
  <1> QED  BY <1>4, <1>5, <1>6, <1>7

LEMMA FollowsUnpromoting ==
    ASSUME Typed, Follows, NEW p \in Promoters, Unpromoting(p)
    PROVE  Follows'
  <1>1. /\ at[p] = "unpromoting" /\ router[p] = 1
        /\ active' = (IF active = p THEN Fallback(p) ELSE active)
        /\ at' = [at EXCEPT ![p] = IF touched[p] = 0 THEN "reading" ELSE "restoring"]
        /\ UNCHANGED <<served, router, touched, lost>>
    BY DEF Unpromoting, Unpromote, Typed, Cursors
  <1>2. /\ SoloBut(p) /\ active = p /\ p \in kept
        /\ displaced[p] \in (kept \ unpromoted) \cup {Nothing}
        /\ \A r \in Routers : r > touched[p] => served[r] = displaced[p]
    BY <1>1 DEF Follows, Returns, Serving, Before
  <1>3. \A r \in Routers : r > touched[p] => served'[r] = active'
    BY <1>1, <1>2, FallbackIsDisplaced
  <1>4. CASE touched[p] = 0
    <2>1. Follow'
      BY <1>3, <1>4 DEF Follow
    <2>2. at' = [at EXCEPT ![p] = "reading"]
      BY <1>1, <1>4
    <2> QED  BY <1>1, <1>2, <2>1, <2>2, FollowsOwn DEF Heading
  <1>5. CASE touched[p] # 0
    <2>1. at' = [at EXCEPT ![p] = "restoring"]
      BY <1>1, <1>5
    <2>2. at'[p] = "restoring" /\ \A r \in Routers : ~ (r < router'[p])
      BY <1>1, <2>1 DEF Typed, AtOK
    <2>3. Returns(p)' /\ Serving(p)'
      BY <1>1, <1>3, <2>2 DEF Returns, Serving, Before
    <2> QED  BY <1>1, <1>2, <2>1, <2>3, FollowsOwn DEF Heading
  <1> QED  BY <1>4, <1>5

\* The steps that restore routers.
LEMMA FollowsRestoring ==
    ASSUME Typed, Follows, NEW p \in Promoters,
           RestoreAim(p) \/ Restore(p) \/ RestoreStale(p) \/ RestoreNothing(p)
    PROVE  Follows'
  <1>1. at[p] \in {"restoring", "rewriting"} /\ UNCHANGED <<active, lost>>
    BY DEF RestoreAim, Restore, RestoreStale, RestoreNothing
  <1>2. /\ SoloBut(p)
        /\ at[p] = "rewriting" => aim[p] = active
        /\ \A r \in Routers : r < router[p] \/ r > touched[p] => served[r] = active
        /\ router[p] \in Routers /\ touched[p] \in 0 .. RouterCount /\ router[p] <= touched[p]
    BY <1>1 DEF Follows, Serving, Typed, MovingOK, Cursors
  <1>3. ASSUME RestoreAim(p) \/ RestoreStale(p) PROVE Follows'
    <2>1. /\ UNCHANGED <<served, router, touched>>
          /\ \/ at' = [at EXCEPT ![p] = "restoring"]
             \/ at' = [at EXCEPT ![p] = "rewriting"] /\ aim'[p] = active
      BY <1>3 DEF RestoreAim, RestoreStale, Looked, Typed, MovingOK
    <2>2. Returns(p)' /\ Serving(p)'
      BY <1>1, <1>2, <2>1 DEF Returns, Serving, Before, Typed, AtOK
    <2> QED  BY <1>1, <1>2, <2>1, <2>2, FollowsOwn DEF Heading
  <1>4. ASSUME Restore(p) \/ RestoreNothing(p) PROVE Follows'
    <2>1. served' = [served EXCEPT ![router[p]] = active] /\ NextRestored(p)
      BY <1>2, <1>4 DEF Restore, RestoreNothing
    <2>2. \A r \in Routers : r < router[p] + 1 \/ r > touched[p] => served'[r] = active
      BY <1>2, <2>1 DEF Typed, StoreOK
    <2>3. CASE router[p] = touched[p]
      <3>1. at' = [at EXCEPT ![p] = "reading"]
        BY <2>1, <2>3 DEF NextRestored
      <3>2. Follow'
        BY <1>1, <1>2, <2>2, <2>3 DEF Follow
      <3> QED  BY <1>1, <1>2, <3>1, <3>2, FollowsOwn DEF Heading
    <2>4. CASE router[p] # touched[p]
      <3>1. /\ at' = [at EXCEPT ![p] = "restoring"]
            /\ router'[p] = router[p] + 1 /\ touched'[p] = touched[p]
        BY <2>1, <2>4 DEF NextRestored, Typed, MovingOK
      <3>2. Returns(p)' /\ Serving(p)'
        BY <1>1, <2>2, <3>1 DEF Returns, Serving, Before, Typed, AtOK
      <3> QED  BY <1>1, <1>2, <3>1, <3>2, FollowsOwn DEF Heading
    <2> QED  BY <2>3, <2>4
  <1> QED  BY <1>3, <1>4

LEMMA FollowsNext ==
    Typed /\ KInv /\ NInv /\ RInv /\ [Next]_vars => (faults' = 0 => Follows')
  <1> SUFFICES ASSUME Typed, KInv, NInv, RInv, [Next]_vars, faults' = 0
               PROVE  Follows'
    OBVIOUS
  <1>1. faults = 0 /\ Follows
    <2>1. ASSUME UNCHANGED vars PROVE UNCHANGED faults
      BY <2>1 DEF vars
    <2>2. ASSUME NEW a \in Actors,
                 StartDeploy(a) \/ StartRollback(a) \/ RecordUnanswered(a)
          PROVE  faults' \in {faults, faults + 1}
      BY <2>2 DEF StartDeploy, StartRollback, Take, RecordUnanswered
    <2>3. ASSUME NEW a \in Actors,
                 Provision(a) \/ Record(a) \/ RecordFails(a) \/ ReadKept(a) \/ Aim(a) \/
                 Move(a) \/ MoveStale(a) \/ MoveUnserved(a) \/ MoveBroken(a)
          PROVE  UNCHANGED faults
      BY <2>3 DEF Provision, Record, RecordFails, ReadKept, Aim, Move, MoveStale, MoveUnserved,
                  MoveBroken, TakeBack
    <2>4. ASSUME NEW a \in Actors,
                 Unpromoting(a) \/ UnpromoteFails(a) \/ RestoreAim(a) \/ Restore(a) \/
                 RestoreStale(a) \/ RestoreNothing(a) \/ RestoreFails(a) \/
                 CheckpointFails(a)
          PROVE  faults' \in {faults, faults + 1}
      BY <2>4 DEF Unpromoting, UnpromoteFails, RestoreAim, Restore, RestoreStale,
                  RestoreNothing, RestoreFails, CheckpointFails
    <2>5. ASSUME NEW a \in Actors,
                 Prune(a) \/ ReadUnnamed(a) \/ ReadOwn(a) \/ Destroy(a) \/ Forget(a) \/
                 LoseLease(a) \/ Crash(a)
          PROVE  faults' \in {faults, faults + 1}
      BY <2>5 DEF Prune, ReadUnnamed, ReadOwn, Destroy, Forget, LoseLease, Crash
    <2>6. faults' \in {faults, faults + 1}
      BY <2>1, <2>2, <2>3, <2>4, <2>5 DEF Next, Promoting, Reclaims
    <2> QED  BY <2>6 DEF Typed, LeaseOK, RInv
  <1>2. CASE UNCHANGED vars
    BY <1>1, <1>2, FollowsQuiet DEF vars
  <1>3. ASSUME NEW a \in Actors, StartDeploy(a) \/ StartRollback(a)
        PROVE  Follows'
    <2>1. a \in Promoters /\ Unwinding = {}
      BY <1>1, <1>3 DEF StartDeploy, StartRollback, Take
    <2>2. \A p \in Promoters : at[p] \notin Moving /\ at'[p] \notin Moving
      BY <1>3, <2>1 DEF Unwinding, StartDeploy, StartRollback, Typed, AtOK
    <2>3. UNCHANGED <<active, unpromoted, served>>
      BY <1>3 DEF StartDeploy, StartRollback
    <2> QED  BY <1>1, <2>2, <2>3, FollowsQuiet
  <1>4. ASSUME NEW a \in Actors, Provision(a) \/ RecordFails(a) \/ CheckpointFails(a)
        PROVE  Follows'
    <2>1. UNCHANGED <<active, kept, unpromoted, served, router, touched, aim, lost>>
      BY <1>4 DEF Provision, RecordFails, CheckpointFails
    <2>2. \A p \in Promoters : at[p] \in Moving \/ at'[p] \in Moving =>
              /\ at'[p] = at[p] /\ displaced'[p] = displaced[p]
      BY <1>4 DEF Provision, RecordFails, CheckpointFails, Typed, AtOK, LedgerOK
    <2>3. \A q \in Promoters : at'[q] \in Heading => at[q] \in Heading
      BY <1>4 DEF Provision, RecordFails, CheckpointFails, Typed, AtOK, Heading
    <2> QED  BY <1>1, <2>1, <2>2, <2>3, FollowsQuiet
  <1>5. ASSUME NEW a \in Actors,
               ReadUnnamed(a) \/ ReadOwn(a) \/ Destroy(a) \/ Forget(a) \/ LoseLease(a)
        PROVE  Follows'
    <2>1. UNCHANGED <<active, kept, displaced, unpromoted, served, router, touched, aim>>
      BY <1>5 DEF ReadUnnamed, ReadOwn, Destroy, Forget, LoseLease
    <2>2. \A p \in Promoters :
              /\ at[p] \in Moving \cup Heading \/ at'[p] \in Moving \cup Heading => at'[p] = at[p]
              /\ at'[p] \in Heading /\ p \in lost => p \in lost'
      BY <1>5 DEF ReadUnnamed, ReadOwn, Destroy, Forget, Reclaim, Reclaimed, LetGo, LoseLease,
                  Typed, AtOK, Heading
    <2> QED  BY <1>1, <2>1, <2>2, FollowsQuiet
  <1>6. ASSUME NEW a \in Actors, Prune(a) PROVE Follows'
    <2>1. PICK k \in Nat :
              kept' = Retained(k, active, kept, sequence, displaced, unpromoted)
      BY <1>6 DEF Prune
    <2>2. /\ UNCHANGED <<active, displaced, unpromoted, served, router, touched, aim, lost>>
          /\ \A p \in Promoters : at'[p] = at[p]
      BY <1>6 DEF Prune, Typed, AtOK
    <2>3. ASSUME NEW p \in Promoters, at[p] \in Moving, at[p] \in Before
          PROVE  {p, displaced[p]} \cap kept \subseteq kept'
      <3>1. active = p /\ p \in kept
        BY <1>1, <2>3 DEF Follows, Returns
      <3> QED  BY <2>1, <3>1, RetainedDisplaced
    <2> QED  BY <1>1, <2>2, <2>3, FollowsQuiet
  <1>7. ASSUME NEW a \in Actors, Record(a) PROVE Follows'
    BY <1>1, <1>7, FollowsRecord DEF RInv, Record
  <1>8. ASSUME NEW a \in Actors,
               ReadKept(a) \/ Aim(a) \/ Move(a) \/ MoveStale(a) \/ MoveUnserved(a) \/
               MoveBroken(a) \/ Unpromoting(a)
        PROVE  Follows'
    <2>1. a \in Promoters
      BY <1>8 DEF ReadKept, Aim, Move, MoveStale, MoveUnserved, MoveBroken, Unpromoting
    <2> QED  BY <1>1, <1>8, <2>1, FollowsMoving, FollowsUnpromoting DEF RInv
  <1>9. ASSUME NEW a \in Actors,
               RestoreAim(a) \/ Restore(a) \/ RestoreStale(a) \/ RestoreNothing(a)
        PROVE  Follows'
    <2>1. a \in Promoters
      BY <1>9 DEF RestoreAim, Restore, RestoreStale, RestoreNothing
    <2> QED  BY <1>1, <1>9, <2>1, FollowsRestoring
  <1>10. ASSUME NEW a \in Actors, UnpromoteFails(a) PROVE FALSE
    <2>1. a \in Promoters /\ at[a] = "unpromoting" /\ a \notin kept
      BY <1>1, <1>10 DEF UnpromoteFails
    <2> QED  BY <1>1, <2>1 DEF Follows, Returns, Before
  <1>11. ASSUME NEW a \in Actors, RecordUnanswered(a) \/ RestoreFails(a) \/ Crash(a)
         PROVE  FALSE
    BY <1>1, <1>11 DEF RecordUnanswered, RestoreFails, Crash
  <1> QED  BY <1>2, <1>3, <1>4, <1>5, <1>6, <1>7, <1>8, <1>9, <1>10, <1>11
           DEF Next, Promoting, Reclaims

LEMMA RInit == Init => RInv
  BY DEF Init, RInv, Holding, Untouched, Follows, Follow

LEMMA RInvariance == Spec => [](Typed /\ KInv /\ NInv /\ RInv)
  <1>1. Init => Typed /\ KInv /\ NInv /\ RInv
    BY TypeInit, KeptInit, NewestInit, RInit
  <1>2. Typed /\ KInv /\ NInv /\ RInv /\ [Next]_vars => RInv'
    BY HoldingNext, UntouchedNext, FollowsNext DEF RInv
  <1>3. Typed /\ KInv /\ NInv /\ RInv /\ [Next]_vars => (Typed /\ KInv /\ NInv /\ RInv)'
    BY <1>2, TypeNext, KeptNext, NewestNext
  <1> QED  BY <1>1, <1>3, PTL DEF Spec

\* Without faults every router serves the active promotion once nobody moves
\* the pointer (servePromotion, unpromote, restore), whatever routers refused or
\* broke and whoever lost the lease.
THEOREM RoutersAgree == Spec => []RoutersFollow
  <1>1. RInv => RoutersFollow
    BY DEF RInv, Follows, Follow, RoutersFollow, Unwinding
  <1> QED  BY <1>1, RInvariance, PTL

\* Without faults nothing is destroyed that a router serves, for what routers
\* serve is recorded (Retain) and what is recorded exists.
THEOREM ServedExists == Spec => []ServedIsUp
  <1>1. Typed /\ KInv /\ NInv /\ RInv => ServedIsUp
    <2> SUFFICES ASSUME Typed, KInv, NInv, RInv, faults = 0, Restoring = {},
                        NEW r \in Routers, served[r] # Nothing
                 PROVE  served[r] \in kept
      BY DEF ServedIsUp, ServedUp, KInv, KeptIsUp
    <2>1. CASE \E p \in Promoters : at[p] \in Moving
      <3>1. PICK p \in Promoters : at[p] \in Moving
        BY <2>1
      <3>2. at[p] \in Before
        BY <3>1 DEF Restoring, Before
      <3>3. Returns(p) /\ Serving(p)
        BY <3>1 DEF RInv, Follows
      <3>4. served[r] \in {p, displaced[p]}
        BY <3>2, <3>3 DEF Serving, Before
      <3> QED  BY <3>2, <3>3, <3>4 DEF Returns
    <2>2. CASE \A p \in Promoters : at[p] \notin Moving
      BY <2>2 DEF RInv, Follows, Follow, NInv, Recorded
    <2> QED  BY <2>1, <2>2
  <1> QED  BY <1>1, RInvariance, PTL

-----------------------------------------------------------------------------
(***************************************************************************)
(* PromotionHistory: the chains, the numbers and what promoters read are   *)
(* gone, and what is left of the ledger is a history. A pointer in order   *)
(* is what its steps need: the newest that stands is the active one, and   *)
(* the next in line is at the end of its chain, which Retain keeps.        *)
(***************************************************************************)
NamedBy(K, rel) == [p \in K |-> rel[p]]

Earlier(K, seq) == {e \in K \X K : seq[e[1]] < seq[e[2]]}

LEMMA EarlierIs ==
    ASSUME NEW K, NEW seq, NEW p, NEW q
    PROVE  <<p, q>> \in Earlier(K, seq) <=> p \in K /\ q \in K /\ seq[p] < seq[q]
  BY DEF Earlier

\* What is retained comes in the order it did.
LEMMA EarlierRetains ==
    ASSUME NEW K, NEW seq, NEW L \in SUBSET K
    PROVE  Earlier(L, seq) = Earlier(K, seq) \cap (L \X L)
  BY DEF Earlier

\* The newest comes after all there were.
LEMMA EarlierAdds ==
    ASSUME NEW K, NEW seq, NEW seq2, NEW p, p \notin K,
           \A q \in K : seq2[q] = seq[q] /\ seq[q] \in Nat /\ seq[q] < seq2[p],
           seq2[p] \in Nat
    PROVE  Earlier(K \cup {p}, seq2) = Earlier(K, seq) \cup K \X {p}
  BY DEF Earlier

\* The newest of those that stand is the active one.
ActiveIsLatest ==
    IF Standing = {} THEN active = Nothing
    ELSE /\ active \in Standing
         /\ \A q \in Standing \ {active} : sequence[q] < sequence[active]

LEMMA LatestIsActive == Typed /\ NInv => ActiveIsLatest
  BY DEF Typed, LedgerOK, NInv, Recorded, Ordered, ActiveNewest, Numbered, Standing,
         ActiveIsLatest

\* The next in line is at the end of the chain of the active one.
LEMMA NextInLine ==
    ASSUME Typed, NInv, NEW s \in Standing \ {active},
           \A q \in Standing \ {active, s} : sequence[q] < sequence[s]
    PROVE  s \in FallbackChain(active, kept, displaced, unpromoted)
  <1>1. active \in Standing /\ sequence[s] < sequence[active]
    BY LatestIsActive DEF ActiveIsLatest
  <1>2. PICK z \in FallbackChain(active, kept, displaced, unpromoted) : z \notin unpromoted
    BY <1>1 DEF NInv, Ordered, ChainsReach, Standing
  <1>3. z \in Standing
    BY <1>2, ChainKept DEF Standing
  <1>4. sequence[z] < sequence[active] /\ sequence[s] <= sequence[z]
    BY <1>1, <1>2 DEF NInv, Ordered, ChainsDescend, Standing
  <1>5. sequence[z] \in Nat /\ sequence[s] \in Nat /\ sequence[active] \in Nat
    BY <1>1, <1>3 DEF Standing, Typed, LedgerOK
  <1> QED  BY <1>2, <1>3, <1>4, <1>5

\* The history as the proofs below read it.
LEMMA HistoryIs ==
    /\ H!Recorded = kept /\ H!Standing = Standing
    /\ NamedBy(kept, release) = [p \in kept |-> release[p]]
    /\ Earlier(kept, sequence) = {e \in kept \X kept : sequence[e[1]] < sequence[e[2]]}
  BY DEF H!Recorded, H!Standing, Standing, NamedBy, Earlier

LEMMA LatestIs ==
    ASSUME NEW S \in SUBSET kept
    PROVE  H!Latest(S) = {p \in S : \A q \in S \ {p} : sequence[q] < sequence[p]}
  BY DEF H!Latest

\* What no part of the history depends on.
LEMMA HistoryQuiet ==
    ASSUME UNCHANGED <<active, kept, sequence, unpromoted, releases>>,
           \A q \in kept : release'[q] = release[q]
    PROVE  UNCHANGED H!vars
  BY DEF H!vars

LEMMA HistoryRecord ==
    ASSUME Typed, KInv, NInv, NInv', NEW p \in Promoters, Record(p) \/ RecordUnanswered(p)
    PROVE  \E x \in Deploys : H!Join(p, x)
  <1> DEFINE seq == [sequence EXCEPT ![p] = NextSequence]
             K   == kept \cup {p}
  <1>1. /\ at[p] = "recording" /\ ToRecord(p) /\ UNCHANGED releases
    BY DEF Record, RecordUnanswered
  <1>2. /\ active = displaced[p] /\ p \notin kept
        /\ active' = p /\ sequence' = seq
        /\ kept' = Retained(Keep, p, K, seq, displaced, unpromoted)
        /\ UNCHANGED <<displaced, unpromoted, release>>
    BY <1>1 DEF ToRecord, Promote
  <1>3. p \notin unpromoted
    BY <1>1 DEF NInv, Recorded, Early
  <1>4. /\ seq[p] = NextSequence /\ seq[p] \in Nat
        /\ \A q \in kept : seq[q] = sequence[q] /\ sequence[q] \in Nat /\ sequence[q] < seq[p]
    BY <1>2, NextSequenceType DEF Typed, LedgerOK, NInv, Sequenced
  <1>5. kept' \in SUBSET K /\ {p} \cup ({active} \ {Nothing}) \subseteq kept'
    <2>1. active \in kept \cup {Nothing}
      BY DEF NInv, Recorded
    <2>2. {p, displaced[p]} \cap K \subseteq kept'
      BY <1>2, RetainedDisplaced
    <2> QED  BY <1>2, <2>1, <2>2 DEF Retained
  <1>6. Earlier(kept', sequence') = (Earlier(kept, sequence) \cup kept \X {p}) \cap (kept' \X kept')
    <2>1. Earlier(K, seq) = Earlier(kept, sequence) \cup kept \X {p}
      <3> HIDE DEF seq
      <3> QED  BY <1>2, <1>4, EarlierAdds
    <2>2. Earlier(kept', seq) = Earlier(K, seq) \cap (kept' \X kept')
      <3> HIDE DEF seq, K
      <3> QED  BY <1>5, EarlierRetains
    <2> QED  BY <1>2, <2>1, <2>2
  <1>7. kept' \cap unpromoted' = (kept \cap unpromoted) \cap kept'
    BY <1>2, <1>3, <1>5
  <1>8. /\ release[p] \in staged \cap up /\ release[p] \in Deploys
        /\ IF p \in Deploys THEN release[p] = p
           ELSE \E q \in Standing : release[q] = release[p]
    <2>1. CASE p \in Deploys
      BY <1>1, <2>1 DEF KInv, Building
    <2>2. CASE p \in Rollbacks
      <3>1. target[p] \in Standing /\ release[p] = release[target[p]]
        BY <1>1, <2>2 DEF KInv, GoingBack, ToRecord, Standing
      <3>2. target[p] \in kept /\ target[p] \in Promoters
        BY <3>1 DEF Standing, Typed, LedgerOK
      <3>3. release[p] \in staged \cap up /\ release[p] \in Deploys
        BY <3>1, <3>2 DEF KInv, KeptIsUp, Built
      <3> QED  BY <2>2, <3>1, <3>3
    <2> QED  BY <2>1, <2>2
  <1>9. PICK x \in Deploys : x = release[p]
    BY <1>8
  <1>10. [q \in kept' |-> release'[q]]
            = [q \in kept' |-> IF q = p THEN x ELSE [c \in kept |-> release[c]][q]]
    BY <1>2, <1>5, <1>9
  <1>11. H!Join(p, x)
    BY <1>1, <1>2, <1>5, <1>6, <1>7, <1>8, <1>9, <1>10
    DEF H!Join, H!Recorded, H!Standing, Standing, Earlier
  <1> QED  BY <1>11

LEMMA HistoryTakesBack ==
    ASSUME Typed, KInv, NInv, Typed', NInv', NEW p \in Promoters, Unpromoting(p)
    PROVE  H!TakeBack(p)
  <1>1. /\ p \in kept /\ unpromoted' = unpromoted \cup {p}
        /\ UNCHANGED <<kept, sequence, release, releases>>
    BY DEF Unpromoting, Unpromote
  <1>2. Standing' = Standing \ {p}
    BY <1>1 DEF Standing
  <1>3. ActiveIsLatest'
    BY LatestIsActive, PTL
  <1>4. IF Standing \ {p} = {} THEN active' = Nothing
        ELSE active' \in H!Latest(Standing \ {p})
    <2>1. H!Latest(Standing \ {p})
             = {s \in Standing \ {p} : \A q \in (Standing \ {p}) \ {s} : sequence[q] < sequence[s]}
      BY LatestIs DEF Standing
    <2> QED  BY <1>1, <1>2, <1>3, <2>1 DEF ActiveIsLatest
  <1> QED  BY <1>1, <1>4, HistoryIs DEF H!TakeBack

LEMMA HistoryPrune ==
    ASSUME Typed, NInv, NEW a \in Actors, Prune(a)
    PROVE  H!Drop
  <1>1. PICK k \in Nat :
            kept' = Retained(k, active, kept, sequence, displaced, unpromoted)
    BY DEF Prune
  <1>2. UNCHANGED <<active, sequence, unpromoted, release, releases>>
    BY DEF Prune
  <1>3. kept' \in SUBSET kept
    BY <1>1 DEF Retained
  <1>4. {active} \ {Nothing} \subseteq kept'
    BY <1>1 DEF Retained, NInv, Recorded
  <1>5. H!Latest(Standing \ {active}) \subseteq kept'
    <2> SUFFICES ASSUME NEW s \in H!Latest(Standing \ {active}) PROVE s \in kept'
      OBVIOUS
    <2>1. /\ s \in Standing \ {active}
          /\ \A q \in Standing \ {active, s} : sequence[q] < sequence[s]
      BY LatestIs DEF Standing
    <2>2. s \in FallbackChain(active, kept, displaced, unpromoted) /\ s \in kept
      BY <2>1, NextInLine DEF Standing
    <2> QED  BY <1>1, <2>2 DEF Retained
  <1>6. Earlier(kept', sequence') = Earlier(kept, sequence) \cap (kept' \X kept')
    BY <1>2, <1>3, EarlierRetains
  <1>7. [q \in kept' |-> release'[q]] = [q \in kept' |-> [c \in kept |-> release[c]][q]]
    BY <1>2, <1>3
  <1>8. kept' \cap unpromoted' = (kept \cap unpromoted) \cap kept'
    BY <1>2, <1>3
  <1> QED
    BY <1>2, <1>3, <1>4, <1>5, <1>6, <1>7, <1>8, HistoryIs DEF H!Drop, Earlier

\* A stack stands before its record is staged, so a release is ready at once.
LEMMA HistoryBuilds ==
    ASSUME Typed, NEW d \in Promoters, Provision(d)
    PROVE  H!Build(d) \/ UNCHANGED H!vars
  <1>1. /\ UNCHANGED pointer /\ up' = up \cup {d}
        /\ staged' = staged \cup {d} \/ staged' = staged
    BY DEF Provision
  <1>2. staged' \cap up' \in {(staged \cap up) \cup {d}, staged \cap up}
    BY <1>1
  <1> QED  BY <1>1, <1>2 DEF H!Build, H!vars

\* What is destroyed or forgotten is named by nothing on record.
LEMMA HistoryReclaims ==
    ASSUME Typed, KInv, KInv', NEW a \in Actors, Destroy(a) \/ Forget(a)
    PROVE  H!Reclaim
  <1>1. UNCHANGED pointer /\ staged' \subseteq staged /\ up' \subseteq up
    BY DEF Destroy, Forget
  <1>2. \A p \in kept : release[p] \in staged' \cap up'
    BY <1>1 DEF KInv, KeptIsUp
  <1> QED  BY <1>1, <1>2 DEF H!Reclaim, H!Recorded

LEMMA HistoryNext ==
    ASSUME Typed, KInv, NInv, Typed', KInv', NInv', [Next]_vars
    PROVE  [H!Next]_H!vars
  <1>1. CASE UNCHANGED vars
    BY <1>1, HistoryQuiet DEF vars
  <1>2. ASSUME NEW a \in Actors,
               StartDeploy(a) \/ RecordFails(a) \/ ReadKept(a) \/ Aim(a) \/ Move(a) \/
               MoveStale(a) \/ MoveUnserved(a) \/ MoveBroken(a) \/ UnpromoteFails(a) \/
               RestoreAim(a) \/ Restore(a) \/ RestoreStale(a) \/ RestoreNothing(a) \/
               RestoreFails(a) \/ CheckpointFails(a) \/ ReadUnnamed(a) \/ ReadOwn(a) \/
               LoseLease(a) \/ Crash(a)
        PROVE  UNCHANGED H!vars
    <2>1. UNCHANGED <<active, kept, sequence, unpromoted, release, releases>>
      BY <1>2 DEF StartDeploy, RecordFails, ReadKept, Aim, Move, MoveStale, MoveUnserved,
                  MoveBroken, TakeBack, UnpromoteFails, RestoreAim, Restore, RestoreStale,
                  RestoreNothing, RestoreFails, CheckpointFails, ReadUnnamed, ReadOwn,
                  LoseLease, Crash
    <2> QED  BY <2>1, HistoryQuiet
  <1>3. ASSUME NEW b \in Actors, StartRollback(b) PROVE UNCHANGED H!vars
    <2>1. b \notin kept
      BY <1>3 DEF StartRollback, KInv, Fresh, Early
    <2>2. \A q \in kept : release'[q] = release[q]
      BY <1>3, <2>1 DEF StartRollback, Typed, LedgerOK
    <2> QED  BY <1>3, <2>2, HistoryQuiet DEF StartRollback
  <1>4. ASSUME NEW a \in Actors, Provision(a) PROVE H!Next \/ UNCHANGED H!vars
    BY <1>4, HistoryBuilds DEF Provision, H!Next
  <1>5. ASSUME NEW a \in Actors, Record(a) \/ RecordUnanswered(a) PROVE H!Next
    <2>1. a \in Promoters
      BY <1>5 DEF Record, RecordUnanswered
    <2>2. \E x \in Deploys : H!Join(a, x)
      BY <1>5, <2>1, HistoryRecord
    <2> QED  BY <2>1, <2>2 DEF H!Next
  <1>6. ASSUME NEW a \in Actors, Unpromoting(a) PROVE H!Next
    BY <1>6, HistoryTakesBack DEF Unpromoting, H!Next
  <1>7. ASSUME NEW a \in Actors, Prune(a) \/ Destroy(a) \/ Forget(a) PROVE H!Next
    BY <1>7, HistoryPrune, HistoryReclaims DEF H!Next
  <1> QED
    BY <1>1, <1>2, <1>3, <1>4, <1>5, <1>6, <1>7 DEF Next, Promoting, Reclaims

\* The ledger keeps a history, for any deploys, rollbacks and prunes, whatever
\* they keep, and however they fail.
THEOREM HistoryRefinement == Spec => ImplementsHistory
  <1>1. Init => H!Init
    BY DEF Init, H!Init
  <1>2. Typed /\ KInv /\ NInv /\ (Typed /\ KInv /\ NInv)' /\ [Next]_vars => [H!Next]_H!vars
    BY HistoryNext
  <1> QED  BY <1>1, <1>2, RInvariance, PTL DEF ImplementsHistory, H!Spec, Spec
==============================================================================
