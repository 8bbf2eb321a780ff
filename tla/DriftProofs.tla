----------------------------- MODULE DriftProofs -----------------------------
(***************************************************************************)
(* Theorems about DriftReconciler for every set of events, tenants, units  *)
(* and plans, any window and any faults: a pass that completes tells of    *)
(* every tenant that owes and was charged nothing, and is quiet about a    *)
(* reconciled one.                                                         *)
(***************************************************************************)
EXTENDS DriftReconciler, BillingProofs, FiniteSetTheorems, WellFoundedInduction

----------------------------------------------------------------------------
(* Sums over a finite set.  The fold of the community modules goes through *)
(* the set in an order of its own; what it returns does not depend on it.  *)

LEMMA LeastIn ==
    ASSUME NEW T \in SUBSET Nat, T # {} PROVE \E x \in T : \A y \in T : x <= y
<1>1. PICK x \in T : \A y \in T : ~(<<y, x>> \in OpToRel(<, Nat))
  BY WFMin, NatLessThanWellFounded
<1>2. ASSUME NEW y \in T PROVE x <= y
  <2>1. ~(y < x)
    BY <1>1 DEF OpToRel
  <2> QED BY <2>1
<1> QED BY <1>2

\* Induction, with a set in the place of the property.
LEMMA AllNat ==
    ASSUME NEW G \in SUBSET Nat, 0 \in G, \A n \in G : n + 1 \in G PROVE G = Nat
<1> SUFFICES ASSUME Nat \ G # {} PROVE FALSE
  OBVIOUS
<1>1. PICK m \in Nat \ G : \A y \in Nat \ G : m <= y
  <2>1. Nat \ G \in SUBSET Nat
    OBVIOUS
  <2> QED BY <2>1, LeastIn
<1>2. m # 0 /\ m - 1 \in Nat
  BY <1>1
<1>3. m - 1 \in G
  BY <1>1, <1>2
<1>4. (m - 1) + 1 \in G
  BY <1>3
<1> QED BY <1>1, <1>4

Pick(s) == CHOOSE y \in s : TRUE

\* f is the sum of the weights w of every subset of S.
Sums(f, w, S) ==
    f = [s \in SUBSET S |-> IF s = {} THEN 0 ELSE w[Pick(s)] + f[s \ {Pick(s)}]]

\* The weights of a set are numbers.
Weighs(w, S) == \A x \in S : w[x] \in Nat

SumOf(w, S) == (CHOOSE f : Sums(f, w, S))[S]

\* The elements of a subset go one by one.
LEMMA PickLeaves ==
    ASSUME NEW S, IsFiniteSet(S), NEW s \in SUBSET S, s # {}, NEW x \in s
    PROVE  /\ Pick(s) \in s /\ s \ {x} \in SUBSET S
           /\ Cardinality(s) \in Nat /\ Cardinality(s \ {x}) = Cardinality(s) - 1
           /\ Cardinality(s \ {x}) \in Nat
<1>1. IsFiniteSet(s)
  BY FS_Subset
<1>2. IsFiniteSet(s \ {x}) /\ Cardinality(s \ {x}) = Cardinality(s) - 1
  BY <1>1, FS_RemoveElement
<1> QED BY <1>1, <1>2, FS_CardinalityType DEF Pick

LEMMA SumsExist == ASSUME NEW S, IsFiniteSet(S), NEW w PROVE \E f : Sums(f, w, S)
<1> DEFINE Small(n) == {s \in SUBSET S : Cardinality(s) <= n}
           Step(f, n) == f = [s \in Small(n) |->
                                IF s = {} THEN 0 ELSE w[Pick(s)] + f[s \ {Pick(s)}]]
           G == {n \in Nat : \E f : Step(f, n)}
<1>1. \A s \in SUBSET S : Cardinality(s) \in Nat /\ (Cardinality(s) = 0 <=> s = {})
  BY FS_Subset, FS_CardinalityType, FS_EmptySet
<1>2. 0 \in G
  <2>1. \A s \in Small(0) : s = {}
    BY <1>1
  <2>2. [s \in Small(0) |-> 0] = [s \in Small(0) |->
            IF s = {} THEN 0 ELSE w[Pick(s)] + [r \in Small(0) |-> 0][s \ {Pick(s)}]]
    BY <2>1
  <2>3. Step([s \in Small(0) |-> 0], 0)
    BY <2>2
  <2> QED BY <2>3
<1>3. ASSUME NEW n \in G PROVE n + 1 \in G
  <2>1. n \in Nat
    OBVIOUS
  <2>2. PICK f : Step(f, n)
    OBVIOUS
  <2> DEFINE g == [s \in Small(n + 1) |->
                     IF s = {} THEN 0 ELSE w[Pick(s)] + f[s \ {Pick(s)}]]
  <2>3. ASSUME NEW s \in Small(n) PROVE s \in Small(n + 1) /\ g[s] = f[s]
    <3>1. s \in SUBSET S /\ Cardinality(s) <= n + 1
      BY <1>1, <2>1
    <3>2. s \in Small(n + 1)
      BY <3>1
    <3>3. f[s] = IF s = {} THEN 0 ELSE w[Pick(s)] + f[s \ {Pick(s)}]
      BY <2>2
    <3> QED BY <3>2, <3>3
  <2>4. ASSUME NEW s \in Small(n + 1), s # {} PROVE s \ {Pick(s)} \in Small(n)
    <3>1. Pick(s) \in s
      BY <2>4 DEF Pick
    <3>2. s \ {Pick(s)} \in SUBSET S /\ Cardinality(s \ {Pick(s)}) = Cardinality(s) - 1
      BY <2>4, <3>1, PickLeaves
    <3> QED BY <1>1, <2>1, <2>4, <3>2
  <2>5. ASSUME NEW s \in Small(n + 1)
        PROVE  g[s] = IF s = {} THEN 0 ELSE w[Pick(s)] + g[s \ {Pick(s)}]
    <3>1. s # {} => g[s \ {Pick(s)}] = f[s \ {Pick(s)}]
      BY <2>3, <2>4
    <3> QED BY <3>1
  <2>6. g = [s \in Small(n + 1) |->
               IF s = {} THEN 0 ELSE w[Pick(s)] + g[s \ {Pick(s)}]]
    <3>1. g = [s \in Small(n + 1) |-> g[s]]
      OBVIOUS
    <3> HIDE DEF g, Small
    <3> QED BY <2>5, <3>1
  <2>7. Step(g, n + 1)
    BY <2>6
  <2>8. \E h : Step(h, n + 1)
    BY <2>7
  <2>9. n + 1 \in Nat
    BY <2>1
  <2> HIDE DEF Step
  <2> QED BY <2>8, <2>9
<1>4. G = Nat
  <2> HIDE DEF G
  <2>1. G \in SUBSET Nat
    BY DEF G
  <2> QED BY <1>2, <1>3, <2>1, AllNat
<1>5. PICK f : Step(f, Cardinality(S))
  BY <1>1, <1>4
<1>6. Small(Cardinality(S)) = SUBSET S
  <2>1. ASSUME NEW s \in SUBSET S PROVE Cardinality(s) <= Cardinality(S)
    BY FS_Subset
  <2> QED BY <2>1
<1>7. Sums(f, w, S)
  <2> HIDE DEF Small
  <2> QED BY <1>5, <1>6 DEF Sums
<1> QED BY <1>7

\* Any element may go first.
LEMMA SumTakesAny ==
    ASSUME NEW S, IsFiniteSet(S), NEW w, Weighs(w, S),
           NEW f, Sums(f, w, S), NEW s \in SUBSET S
    PROVE  f[s] \in Nat /\ \A x \in s : f[s] = w[x] + f[s \ {x}]
<1> DEFINE Right(r) == f[r] \in Nat /\ \A x \in r : f[r] = w[x] + f[r \ {x}]
           G == {n \in Nat : \A r \in SUBSET S : Cardinality(r) <= n => Right(r)}
<1>1. \A r \in SUBSET S : Cardinality(r) \in Nat /\ (Cardinality(r) = 0 <=> r = {})
  BY FS_Subset, FS_CardinalityType, FS_EmptySet
<1>2. \A r \in SUBSET S : f[r] = IF r = {} THEN 0 ELSE w[Pick(r)] + f[r \ {Pick(r)}]
  BY DEF Sums
<1>3. f[{}] = 0
  BY DEF Sums
<1>4. 0 \in G
  <2>1. \A r \in SUBSET S : Cardinality(r) <= 0 => r = {}
    BY <1>1
  <2>2. Right({})
    BY <1>3
  <2> HIDE DEF Right
  <2> QED BY <2>1, <2>2
<1>5. ASSUME NEW n \in G PROVE n + 1 \in G
  <2> SUFFICES ASSUME NEW r \in SUBSET S, Cardinality(r) <= n + 1 PROVE Right(r)
    OBVIOUS
  <2>1. CASE r = {}
    BY <1>3, <2>1
  <2>2. CASE r # {}
    <3> DEFINE y == Pick(r)
    <3>1. y \in r /\ y \in S /\ w[y] \in Nat
      BY <2>2 DEF Pick, Weighs
    <3>2. f[r] = w[y] + f[r \ {y}]
      BY <1>2, <2>2
    <3>3. ASSUME NEW x \in r PROVE Right(r \ {x}) /\ r \ {x} \in SUBSET S
      <4>1. Cardinality(r \ {x}) = Cardinality(r) - 1 /\ Cardinality(r) \in Nat
            /\ r \ {x} \in SUBSET S
        BY <2>2, PickLeaves
      <4>2. Cardinality(r \ {x}) <= n
        BY <4>1
      <4> QED BY <4>1, <4>2
    <3>4. f[r] \in Nat
      BY <3>1, <3>2, <3>3
    <3>5. ASSUME NEW x \in r PROVE f[r] = w[x] + f[r \ {x}]
      <4>1. CASE x = y
        BY <3>2, <4>1
      <4>2. CASE x # y
        <5> HIDE DEF y
        <5>1. x \in r \ {y} /\ y \in r \ {x} /\ (r \ {y}) \ {x} = (r \ {x}) \ {y}
          BY <3>1, <4>2
        <5>2. f[r \ {y}] = w[x] + f[(r \ {y}) \ {x}]
          BY <3>1, <3>3, <5>1
        <5>3. f[r \ {x}] = w[y] + f[(r \ {x}) \ {y}]
          BY <3>3, <5>1
        <5>4. f[(r \ {x}) \ {y}] \in Int /\ w[x] \in Nat /\ w[y] \in Nat
          <6>1. f[r \ {x}] \in Nat /\ r \ {x} \in SUBSET S /\ r \ {x} # {}
            BY <3>3, <5>1
          <6>2. Right((r \ {x}) \ {y})
            <7>1. Cardinality((r \ {x}) \ {y}) = Cardinality(r \ {x}) - 1
                  /\ (r \ {x}) \ {y} \in SUBSET S
              BY <5>1, <6>1, PickLeaves
            <7>2. Cardinality(r \ {x}) = Cardinality(r) - 1 /\ Cardinality(r) \in Nat
              BY <2>2, PickLeaves
            <7>3. Cardinality((r \ {x}) \ {y}) <= n
              BY <7>1, <7>2
            <7> QED BY <7>1, <7>3
          <6>3. w[x] \in Nat
            BY DEF Weighs
          <6> QED BY <3>1, <6>2, <6>3
        <5>5. f[(r \ {y}) \ {x}] = f[(r \ {x}) \ {y}]
          BY <5>1
        <5>6. \A a, b, i \in Int : a + (b + i) = b + (a + i)
          OBVIOUS
        <5> QED BY <3>2, <5>2, <5>3, <5>4, <5>5, <5>6
      <4> QED BY <4>1, <4>2
    <3> QED BY <3>4, <3>5
  <2> QED BY <2>1, <2>2
<1>6. G = Nat
  <2> HIDE DEF G
  <2>1. G \in SUBSET Nat
    BY DEF G
  <2> QED BY <1>4, <1>5, <2>1, AllNat
<1> QED BY <1>1, <1>6

\* Weights of 0 may be left out.
LEMMA SumsAgree ==
    ASSUME NEW T, IsFiniteSet(T), NEW U \in SUBSET T,
           NEW w, NEW v, Weighs(w, T), \A x \in U : w[x] = v[x], \A x \in T \ U : w[x] = 0,
           NEW f, Sums(f, w, T), NEW g, Sums(g, v, U)
    PROVE  f[T] = g[U]
<1> DEFINE Same(r) == f[r] = g[r \cap U]
           G == {n \in Nat : \A r \in SUBSET T : Cardinality(r) <= n => Same(r)}
<1>1. \A r \in SUBSET T : Cardinality(r) \in Nat /\ (Cardinality(r) = 0 <=> r = {})
  BY FS_Subset, FS_CardinalityType, FS_EmptySet
<1>2. IsFiniteSet(U) /\ Weighs(v, U)
  BY FS_Subset DEF Weighs
<1>3. 0 \in G
  <2>1. f[{}] = 0 /\ g[{}] = 0
    BY DEF Sums
  <2>2. \A r \in SUBSET T : Cardinality(r) <= 0 => r = {}
    BY <1>1
  <2> QED BY <2>1, <2>2
<1>4. ASSUME NEW n \in G PROVE n + 1 \in G
  <2> SUFFICES ASSUME NEW r \in SUBSET T, Cardinality(r) <= n + 1 PROVE Same(r)
    OBVIOUS
  <2>1. CASE r = {}
    BY <2>1 DEF Sums
  <2>2. CASE r # {}
    <3>1. PICK x \in r : TRUE
      BY <2>2
    <3>2. r \ {x} \in SUBSET T /\ Cardinality(r \ {x}) <= n
      BY <2>2, PickLeaves
    <3>3. f[r \ {x}] = g[(r \ {x}) \cap U]
      BY <3>2
    <3>4. f[r] = w[x] + f[r \ {x}] /\ f[r \ {x}] \in Nat
      BY <3>1, <3>2, SumTakesAny
    <3>5. CASE x \in U
      <4>1. r \cap U \in SUBSET U /\ x \in r \cap U /\ (r \ {x}) \cap U = (r \cap U) \ {x}
        BY <3>5
      <4>2. g[r \cap U] = v[x] + g[(r \cap U) \ {x}]
        BY <1>2, <4>1, SumTakesAny
      <4> QED BY <3>3, <3>4, <3>5, <4>1, <4>2
    <3>6. CASE x \notin U
      <4>1. (r \ {x}) \cap U = r \cap U /\ w[x] = 0
        BY <3>6
      <4>2. f[r] = f[r \ {x}]
        BY <3>4, <4>1
      <4> QED BY <3>3, <4>1, <4>2
    <3> QED BY <3>5, <3>6
  <2> QED BY <2>1, <2>2
<1>5. G = Nat
  <2> HIDE DEF G
  <2>1. G \in SUBSET Nat
    BY DEF G
  <2> QED BY <1>3, <1>4, <2>1, AllNat
<1>6. Same(T)
  <2>1. Cardinality(T) \in Nat /\ T \in SUBSET T
    BY <1>1
  <2>2. Cardinality(T) \in G
    BY <1>5, <2>1
  <2>3. Cardinality(T) <= Cardinality(T)
    BY <2>1
  <2> QED BY <2>1, <2>2, <2>3
<1>7. T \cap U = U
  OBVIOUS
<1> QED BY <1>6, <1>7

\* What the sum is, for weights that are numbers.
LEMMA SumFacts ==
    ASSUME NEW S, IsFiniteSet(S), NEW w, Weighs(w, S)
    PROVE  /\ SumOf(w, S) \in Nat
           /\ \A x \in S : w[x] <= SumOf(w, S)
           /\ (\A x \in S : w[x] = 0) => SumOf(w, S) = 0
           /\ \A f : Sums(f, w, S) => f[S] = SumOf(w, S)
<1> DEFINE f == CHOOSE f : Sums(f, w, S)
<1>1. Sums(f, w, S) /\ SumOf(w, S) = f[S]
  BY SumsExist DEF SumOf
<1> HIDE DEF f
<1>2. f[S] \in Nat
  BY <1>1, SumTakesAny
<1>3. ASSUME NEW x \in S PROVE w[x] <= f[S]
  <2>1. f[S] = w[x] + f[S \ {x}]
    BY <1>1, SumTakesAny
  <2>2. f[S \ {x}] \in Nat
    BY <1>1, SumTakesAny
  <2>3. w[x] \in Nat
    BY DEF Weighs
  <2> QED BY <2>1, <2>2, <2>3
<1>4. ASSUME \A x \in S : w[x] = 0 PROVE f[S] = 0
  <2>1. PICK g : Sums(g, w, {})
    BY SumsExist, FS_EmptySet
  <2>2. f[S] = g[{}]
    BY <1>1, <1>4, <2>1, SumsAgree
  <2> QED BY <2>1, <2>2 DEF Sums
<1>5. ASSUME NEW g, Sums(g, w, S) PROVE g[S] = f[S]
  BY <1>1, <1>5, SumsAgree
<1> QED BY <1>1, <1>2, <1>3, <1>4, <1>5

LEMMA SumLeavesOut ==
    ASSUME NEW T, IsFiniteSet(T), NEW U \in SUBSET T,
           NEW w, NEW v, Weighs(w, T), \A x \in U : w[x] = v[x],
           \A x \in T \ U : w[x] = 0
    PROVE  SumOf(w, T) = SumOf(v, U)
<1>1. IsFiniteSet(U) /\ Weighs(v, U)
  BY FS_Subset DEF Weighs
<1>2. PICK f : Sums(f, w, T)
  BY SumsExist
<1>3. PICK g : Sums(g, v, U)
  BY <1>1, SumsExist
<1>4. f[T] = g[U]
  BY <1>2, <1>3, SumsAgree
<1> QED BY <1>1, <1>2, <1>3, <1>4, SumFacts

----------------------------------------------------------------------------
(* The two sums of a tenant *)

Ledger(t) == {e \in Window : Recorded(e) /\ PayerOf[e] = t}

Metered(t) == {e \in Overlapping : Plan[e] = "metered" /\ PayerOf[e] = t}

Used == [e \in Event |-> charges[e] * Units[e]]

LEMMA LedgerIsSumOf == ASSUME NEW t PROVE LedgerUnits(t) = SumOf(Units, Ledger(t))
<1>1. LedgerUnits(t) =
        (CHOOSE f : f = [s \in SUBSET Ledger(t) |->
                           IF s = {} THEN 0
                           ELSE Units[CHOOSE y \in s : TRUE] + f[s \ {CHOOSE y \in s : TRUE}]]
        )[Ledger(t)]
  BY DEF LedgerUnits, MapThenSumSet, MapThenFoldSet, Ledger
<1> QED BY <1>1 DEF SumOf, Sums, Pick

LEMMA ProductType == ASSUME NEW m \in Nat, NEW n \in Nat PROVE m * n \in Nat
OBVIOUS

LEMMA UsedType == ASSUME BillingTypeOK PROVE \A e \in Event : Used[e] \in Nat
<1> SUFFICES ASSUME NEW e \in Event PROVE charges[e] * Units[e] \in Nat
  BY DEF Used
<1>1. charges[e] \in Nat /\ Units[e] \in Nat
  BY DriftAssumption DEF BillingTypeOK
<1> QED BY <1>1, ProductType

LEMMA StripeIsSumOf ==
    ASSUME BillingTypeOK, NEW t PROVE StripeUnits(t) = SumOf(Used, Metered(t))
<1> DEFINE M == Metered(t)
           Charged(f) == f = [s \in SUBSET M |->
                                IF s = {} THEN 0
                                ELSE charges[Pick(s)] * Units[Pick(s)] + f[s \ {Pick(s)}]]
<1>1. M \in SUBSET Event /\ IsFiniteSet(M) /\ Weighs(Used, M)
  BY DriftAssumption, FS_Subset, UsedType DEF Metered, Weighs
<1>2. StripeUnits(t) = (CHOOSE f : Charged(f))[M]
  <2>1. StripeUnits(t) =
          (CHOOSE f : f = [s \in SUBSET M |->
                             IF s = {} THEN 0
                             ELSE charges[CHOOSE y \in s : TRUE] * Units[CHOOSE y \in s : TRUE]
                                  + f[s \ {CHOOSE y \in s : TRUE}]])[M]
    BY DEF StripeUnits, MapThenSumSet, MapThenFoldSet, Metered
  <2> QED BY <2>1 DEF Pick
<1>3. ASSUME NEW f PROVE Charged(f) <=> Sums(f, Used, M)
  <2>1. \A s \in SUBSET M : s # {} => Used[Pick(s)] = charges[Pick(s)] * Units[Pick(s)]
    <3> SUFFICES ASSUME NEW s \in SUBSET M, s # {}
                 PROVE  Used[Pick(s)] = charges[Pick(s)] * Units[Pick(s)]
      OBVIOUS
    <3>1. Pick(s) \in Event
      BY <1>1 DEF Pick
    <3> QED BY <3>1 DEF Used
  <2>2. [s \in SUBSET M |->
           IF s = {} THEN 0 ELSE charges[Pick(s)] * Units[Pick(s)] + f[s \ {Pick(s)}]]
      = [s \in SUBSET M |-> IF s = {} THEN 0 ELSE Used[Pick(s)] + f[s \ {Pick(s)}]]
    <3> HIDE DEF M
    <3> QED BY <2>1
  <2> QED BY <2>2 DEF Sums
<1>4. PICK f : Sums(f, Used, M)
  BY <1>1, SumsExist
<1>5. Charged(CHOOSE g : Charged(g))
  <2>1. Charged(f)
    BY <1>3, <1>4
  <2> HIDE DEF Charged
  <2> QED BY <2>1
<1>6. Sums(CHOOSE g : Charged(g), Used, M)
  BY <1>3, <1>5
<1> HIDE DEF M, Charged
<1> QED BY <1>1, <1>2, <1>6, SumFacts DEF M

\* Both sets of events are finite, and their weights are numbers.
LEMMA SumsWeigh ==
    ASSUME BillingTypeOK, NEW t
    PROVE  /\ Ledger(t) \in SUBSET Window
           /\ Metered(t) \in SUBSET Event /\ IsFiniteSet(Metered(t)) /\ Weighs(Used, Metered(t))
           /\ \A S \in SUBSET Window : IsFiniteSet(S) /\ Weighs(Units, S)
<1>1. Metered(t) \in SUBSET Event /\ Ledger(t) \in SUBSET Window
  BY DriftAssumption DEF Metered, Ledger
<1>2. \A S \in SUBSET Event : IsFiniteSet(S)
  BY DriftAssumption, FS_Subset
<1>3. \A S \in SUBSET Event : Weighs(Units, S) /\ Weighs(Used, S)
  BY DriftAssumption, UsedType DEF Weighs
<1>4. Window \in SUBSET Event
  BY DriftAssumption
<1> QED BY <1>1, <1>2, <1>3, <1>4

----------------------------------------------------------------------------
(* The invariant of a pass *)

AtHand == pass.pc \in {"usage", "log", "fire"}

PassType == [pc: PassPc, todo: SUBSET Payer, tenant: Payer \cup {NoEvent}, ledger: Nat,
             kind: Kind, logged: SUBSET [kind: Kind, tenant: Payer \cup {NoEvent}],
             known: SUBSET Event, billed: SUBSET Event]

PassTypeOK ==
    /\ pass \in PassType
    /\ AtHand => pass.tenant \in Payer
    /\ pass.pc = "complete" => pass.todo = {}

\* What the outbox held when the pass began, it holds still.
SnapshotHolds ==
    /\ \A e \in pass.known : Recorded(e)
    /\ \A e \in pass.billed : outbox[e].billed /\ e \in pass.known

\* The sum of the ledger is that of some rows of the tenant: of all that were
\* there when the pass began, and maybe of later ones.
SumOfRows(S) ==
    /\ \A e \in S : Recorded(e) /\ PayerOf[e] = pass.tenant
    /\ \A e \in pass.known \cap Window : PayerOf[e] = pass.tenant => e \in S
    /\ pass.ledger = SumOf(Units, S)

LedgerIsSum == pass.pc = "usage" => \E S \in SUBSET Window : SumOfRows(S)

\* Whoever owes and was charged nothing is still to come, at hand, or told of.
OwingIsMet ==
    pass.pc \in {"sum", "usage", "log", "fire", "complete"} =>
        \A t \in Owing : Unpaid(t) => t \in pass.todo \/ (AtHand /\ t = pass.tenant) \/ Told(t)

\* An alert that is fired has been logged.
FiredIsLogged == pass.pc = "fire" => Alert \in pass.logged

DriftInv == PassTypeOK /\ SnapshotHolds /\ LedgerIsSum /\ OwingIsMet /\ FiredIsLogged

\* A drift that is about to be told of is one.
DriftIsReal ==
    pass.pc \in {"log", "fire"} /\ pass.kind = "drift" => ~Reconciled(pass.tenant)

QuietInv == DriftIsReal /\ BilledIsQuiet

LEMMA BillingBelow == [DriftNext]_driftVars => [BillingNext]_billingVars
BY DEF DriftNext, PassStep, StartPass, SumLedger, SumFails, Compare, UsageFails, EndReconcile,
       LogAlert, Fire, FireFails, PassDies, driftVars, billingVars

\* A step of the pass leaves the outbox alone, any other leaves the pass alone.
LEMMA OneAtATime == [DriftNext]_driftVars => (PassStep /\ UNCHANGED billingVars) \/ UNCHANGED pass
BY DEF DriftNext, PassStep, StartPass, SumLedger, SumFails, Compare, UsageFails, EndReconcile,
       LogAlert, Fire, FireFails, PassDies, driftVars

\* A tenant that is unpaid was unpaid, and one that was not reconciled is not.
LEMMA TenantsOnlyPay ==
    ASSUME BillingTypeOK, PassInv, [BillingNext]_billingVars, NEW t
    PROVE  /\ Unpaid(t)' => Unpaid(t)
           /\ UNCHANGED pass => (Reconciled(t)' => Reconciled(t))
<1>1. \A e \in Event : /\ Recorded(e) => Recorded(e)'
                       /\ charges[e] > 0 => charges'[e] > 0
  BY BillingGrows
<1>2. \A e \in Event : charges[e] \in Nat /\ (charges[e] = 0 <=> ~(charges[e] > 0))
  BY DEF BillingTypeOK
<1>3. \A e \in Event : charges'[e] = 0 => charges[e] = 0
  <2> SUFFICES ASSUME NEW e \in Event, charges'[e] = 0, charges[e] > 0 PROVE FALSE
    BY <1>2
  <2> QED BY <1>1
<1>4. Unpaid(t)' => Unpaid(t)
  BY <1>3 DEF Unpaid
<1>5. UNCHANGED pass => (Reconciled(t)' => Reconciled(t))
  BY <1>1, DriftAssumption DEF Reconciled
<1> QED BY <1>4, <1>5

----------------------------------------------------------------------------
(* What is compared *)

\* The usage of a tenant that owes and was charged nothing drifts from its sum.
LEMMA UnpaidDrifts ==
    ASSUME BillingTypeOK, DriftInv, pass.pc = "usage", pass.tenant \in Owing, Unpaid(pass.tenant)
    PROVE  Drifts(pass.ledger, StripeUnits(pass.tenant))
<1> DEFINE t == pass.tenant
<1>1. PICK S \in SUBSET Window : SumOfRows(S)
  BY DEF DriftInv, LedgerIsSum
<1>2. PICK e \in pass.known \cap Window : PayerOf[e] = t
  BY DEF Owing
<1>3. e \in S /\ e \in Event
  BY <1>1, <1>2, DriftAssumption DEF SumOfRows
<1>4. pass.ledger \in Nat /\ Units[e] <= pass.ledger
  BY <1>1, <1>3, SumsWeigh, SumFacts DEF SumOfRows
<1>5. Units[e] \in Nat \ {0}
  BY <1>3, DriftAssumption
<1>6. \A x \in Metered(t) : Used[x] = 0
  <2> SUFFICES ASSUME NEW x \in Metered(t) PROVE charges[x] * Units[x] = 0
    BY SumsWeigh DEF Used
  <2>1. x \in Event /\ charges[x] = 0 /\ Units[x] \in Nat
    BY DriftAssumption DEF Metered, Unpaid
  <2>2. 0 * Units[x] = 0
    BY <2>1
  <2> QED BY <2>1, <2>2
<1>7. StripeUnits(t) = 0
  BY <1>6, SumsWeigh, SumFacts, StripeIsSumOf
<1>8. pass.ledger >= 1
  BY <1>4, <1>5
<1>9. Drifts(pass.ledger, 0)
  BY <1>4, <1>8 DEF Drifts
<1> QED BY <1>7, <1>9

\* The usage of a reconciled tenant is its sum.
LEMMA ReconciledAgrees ==
    ASSUME BillingTypeOK, BilledIsCharged, ChargedOnce, DriftInv, pass.pc = "usage",
           Reconciled(pass.tenant)
    PROVE  ~Drifts(pass.ledger, StripeUnits(pass.tenant))
<1> DEFINE t == pass.tenant
<1>1. PICK S \in SUBSET Window : SumOfRows(S)
  BY DEF DriftInv, LedgerIsSum
<1>2. ASSUME NEW e \in S PROVE e \in Metered(t) /\ Used[e] = Units[e]
  <2>1. e \in Overlapping /\ e \in Event /\ Recorded(e) /\ PayerOf[e] = t
    BY <1>1, DriftAssumption DEF SumOfRows
  <2>2. Plan[e] = "metered" /\ e \in pass.billed
    BY <2>1 DEF Reconciled
  <2>3. outbox[e].billed
    BY <2>2 DEF DriftInv, SnapshotHolds
  <2>4. charges[e] > 0
    BY <2>1, <2>2, <2>3 DEF BilledIsCharged
  <2>5. charges[e] = 1
    BY <2>1, <2>4 DEF ChargedOnce, BillingTypeOK
  <2>6. Units[e] \in Nat
    BY <2>1, DriftAssumption
  <2>7. Used[e] = 1 * Units[e]
    BY <2>1, <2>5 DEF Used
  <2> QED BY <2>1, <2>2, <2>6, <2>7 DEF Metered
<1>3. ASSUME NEW e \in Metered(t) \ S PROVE Used[e] = 0
  <2>1. e \in Overlapping /\ e \in Event /\ PayerOf[e] = t
    BY DriftAssumption DEF Metered
  <2>2. charges[e] > 0 => e \in Window /\ e \in pass.known
    BY <2>1 DEF Reconciled, DriftInv, SnapshotHolds
  <2>3. ~(charges[e] > 0)
    BY <1>1, <2>1, <2>2 DEF SumOfRows
  <2>4. charges[e] = 0 /\ Units[e] \in Nat
    BY <2>1, <2>3, DriftAssumption DEF BillingTypeOK
  <2>5. Used[e] = 0 * Units[e]
    BY <2>1, <2>4 DEF Used
  <2> QED BY <2>4, <2>5
<1>4. S \in SUBSET Metered(t)
  BY <1>2
<1>5. SumOf(Used, Metered(t)) = SumOf(Units, S)
  BY <1>2, <1>3, <1>4, SumsWeigh, SumLeavesOut
<1>6. StripeUnits(t) = pass.ledger
  BY <1>1, <1>5, StripeIsSumOf DEF SumOfRows
<1>7. pass.ledger \in Nat
  BY DEF DriftInv, PassTypeOK, PassType
<1>8. ~Drifts(pass.ledger, pass.ledger)
  BY <1>7 DEF Drifts
<1> QED BY <1>6, <1>8

----------------------------------------------------------------------------
(* The invariant is kept *)

LEMMA DriftTypeStep ==
    ASSUME BillingTypeOK, PassTypeOK, [DriftNext]_driftVars
    PROVE  PassTypeOK'
<1>1. CASE UNCHANGED pass
  BY <1>1 DEF PassTypeOK, AtHand
<1>2. CASE StartPass
  <2>1. {PayerOf[e] : e \in {x \in Event : Recorded(x)}} \in SUBSET Payer
    BY DriftAssumption
  <2>2. pass' \in PassType
    BY <1>2, <2>1 DEF StartPass, NoPass, PassType, PassPc, Kind
  <2> QED BY <1>2, <2>2 DEF StartPass, NoPass, PassTypeOK, AtHand
<1>3. CASE SumLedger
  <2>1. PICK t \in pass.todo :
          pass' = [pass EXCEPT !.pc = "usage", !.todo = @ \ {t}, !.tenant = t,
                               !.ledger = LedgerUnits(t)]
    BY <1>3 DEF SumLedger
  <2>2. LedgerUnits(t) \in Nat
    BY LedgerIsSumOf, SumsWeigh, SumFacts
  <2>3. t \in Payer
    BY DEF PassTypeOK, PassType
  <2>4. pass' \in PassType
    BY <2>1, <2>2, <2>3 DEF PassTypeOK, PassType, PassPc
  <2> QED BY <2>1, <2>3, <2>4 DEF PassTypeOK, PassType, AtHand
<1>4. ASSUME NEW pc \in PassPc, pass' = Leave(pc), pc \notin {"usage", "log", "fire", "complete"}
      PROVE  PassTypeOK'
  BY <1>4 DEF Leave, PassTypeOK, PassType, Kind, AtHand
<1>5. CASE Compare
  <2>1. CASE pass' = Leave("sum")
    BY <1>4, <2>1 DEF PassPc
  <2>2. CASE pass' = [pass EXCEPT !.pc = "log", !.kind = "drift"]
    BY <1>5, <2>2 DEF Compare, PassTypeOK, PassType, PassPc, Kind, AtHand
  <2> QED BY <1>5, <2>1, <2>2 DEF Compare
<1>6. CASE SumFails \/ UsageFails \/ EndReconcile
  BY <1>6 DEF SumFails, UsageFails, EndReconcile, PassTypeOK, PassType, PassPc, Kind, AtHand
<1>7. CASE LogAlert
  <2>1. Alert \in [kind: Kind, tenant: Payer \cup {NoEvent}]
    BY DEF Alert, PassTypeOK, PassType
  <2>2. pass' \in PassType
    BY <1>7, <2>1 DEF LogAlert, PassTypeOK, PassType, PassPc
  <2> QED BY <1>7, <2>2 DEF LogAlert, PassTypeOK, PassType, AtHand
<1>8. CASE Fire \/ FireFails
  <2>1. pass' = Leave("sum") \/ pass' = Leave("aborted")
    BY <1>8 DEF Fire, FireFails, AfterPagerError
  <2> QED BY <1>4, <2>1 DEF PassPc
<1>9. CASE PassDies
  BY <1>9 DEF PassDies, NoPass, PassTypeOK, PassType, PassPc, Kind, AtHand
<1> QED
  BY <1>1, <1>2, <1>3, <1>5, <1>6, <1>7, <1>8, <1>9, OneAtATime DEF PassStep

\* A pass that begins, or is gone, has told nobody of anything.
LEMMA FreshPass ==
    ASSUME StartPass \/ PassDies
    PROVE  pass'.pc \in {"sum", "idle"} /\ pass'.logged = {}
<1>1. CASE StartPass
  <2>1. pass'.pc = "sum"
    BY <1>1 DEF StartPass, NoPass
  <2>2. pass'.logged = {}
    BY <1>1 DEF StartPass, NoPass
  <2> QED BY <2>1, <2>2
<1>2. CASE PassDies
  BY <1>2 DEF PassDies, NoPass
<1> QED BY <1>1, <1>2

\* What a step of a pass that goes on leaves as it was.
LEMMA PassGoesOn ==
    ASSUME PassTypeOK, PassStep, ~StartPass, ~PassDies
    PROVE  /\ pass'.known = pass.known /\ pass'.billed = pass.billed
           /\ pass.logged \subseteq pass'.logged
BY DEF PassStep, SumLedger, SumFails, Compare, UsageFails, EndReconcile, LogAlert, Fire,
       FireFails, Leave, PassTypeOK, PassType

LEMMA SnapshotStep ==
    ASSUME BillingTypeOK, PassInv, PassTypeOK, SnapshotHolds, [DriftNext]_driftVars
    PROVE  SnapshotHolds'
<1>1. CASE UNCHANGED pass
  <2>1. pass.known \subseteq Event /\ pass.billed \subseteq Event
    BY DEF PassTypeOK, PassType
  <2>2. \A e \in Event : /\ Recorded(e) => Recorded(e)'
                         /\ outbox[e].billed => outbox'[e].billed
    BY BillingBelow, BillingGrows
  <2> QED BY <1>1, <2>1, <2>2 DEF SnapshotHolds
<1>2. CASE PassStep /\ UNCHANGED billingVars
  <2>1. \A e : Recorded(e)' <=> Recorded(e)
    BY <1>2 DEF Recorded, billingVars
  <2>2. outbox' = outbox
    BY <1>2 DEF billingVars
  <2>3. CASE StartPass
    <3>1. \A e \in Event : outbox[e].billed => Recorded(e)
      BY DEF PassInv, SettledRecorded, Settled
    <3> QED BY <2>1, <2>2, <2>3, <3>1 DEF StartPass, NoPass, SnapshotHolds
  <2>4. CASE PassDies
    BY <2>4 DEF PassDies, NoPass, SnapshotHolds
  <2>5. CASE ~StartPass /\ ~PassDies
    BY <1>2, <2>1, <2>2, <2>5, PassGoesOn DEF SnapshotHolds
  <2> QED BY <2>3, <2>4, <2>5
<1> QED BY <1>1, <1>2, OneAtATime

LEMMA LedgerStep ==
    ASSUME BillingTypeOK, PassInv, DriftInv, [DriftNext]_driftVars
    PROVE  LedgerIsSum'
<1>1. CASE UNCHANGED pass
  <2> SUFFICES ASSUME pass.pc = "usage" PROVE \E S \in SUBSET Window : SumOfRows(S)'
    BY <1>1 DEF LedgerIsSum
  <2>1. PICK S \in SUBSET Window : SumOfRows(S)
    BY DEF DriftInv, LedgerIsSum
  <2>2. \A e \in S : Recorded(e)'
    BY <2>1, BillingBelow, BillingGrows, DriftAssumption DEF SumOfRows
  <2>3. SumOfRows(S)'
    BY <1>1, <2>1, <2>2 DEF SumOfRows
  <2> QED BY <2>3
<1>2. CASE SumLedger /\ UNCHANGED billingVars
  <2>1. PICK t \in pass.todo :
          pass' = [pass EXCEPT !.pc = "usage", !.todo = @ \ {t}, !.tenant = t,
                               !.ledger = LedgerUnits(t)]
    BY <1>2 DEF SumLedger
  <2>2. pass'.tenant = t /\ pass'.known = pass.known /\ pass'.ledger = SumOf(Units, Ledger(t))
    BY <2>1, LedgerIsSumOf DEF DriftInv, PassTypeOK, PassType
  <2>3. Ledger(t) \in SUBSET Window
    BY SumsWeigh
  <2>4. \A e : Recorded(e)' <=> Recorded(e)
    BY <1>2 DEF Recorded, billingVars
  <2>5. \A e \in pass.known \cap Window : PayerOf[e] = t => e \in Ledger(t)
    BY DEF Ledger, DriftInv, SnapshotHolds
  <2>6. \A e \in Ledger(t) : Recorded(e)' /\ PayerOf[e] = t
    BY <2>4 DEF Ledger
  <2> DEFINE L == Ledger(t)
  <2>7. L \in SUBSET Window /\ (\A e \in L : Recorded(e)' /\ PayerOf[e] = t)
        /\ (\A e \in pass.known \cap Window : PayerOf[e] = t => e \in L)
        /\ pass'.ledger = SumOf(Units, L)
    BY <2>2, <2>3, <2>5, <2>6
  <2> HIDE DEF L
  <2>8. \E S \in SUBSET Window :
          /\ \A e \in S : Recorded(e)' /\ PayerOf[e] = pass'.tenant
          /\ \A e \in pass'.known \cap Window : PayerOf[e] = pass'.tenant => e \in S
          /\ pass'.ledger = SumOf(Units, S)
    BY <2>2, <2>7
  <2> QED BY <2>8 DEF LedgerIsSum, SumOfRows
<1>3. CASE PassStep /\ ~SumLedger
  <2>1. ASSUME NEW pc \in {"sum", "aborted"}, pass' = Leave(pc) PROVE pass'.pc # "usage"
    BY <2>1 DEF Leave, DriftInv, PassTypeOK, PassType
  <2>2. CASE Compare \/ Fire \/ FireFails
    <3>1. \/ pass' = Leave("sum") \/ pass' = Leave("aborted")
          \/ pass' = [pass EXCEPT !.pc = "log", !.kind = "drift"]
      BY <2>2 DEF Compare, Fire, FireFails, AfterPagerError
    <3>2. pass'.pc # "usage"
      BY <2>1, <3>1 DEF DriftInv, PassTypeOK, PassType
    <3> QED BY <3>2 DEF LedgerIsSum
  <2>3. CASE \/ StartPass \/ SumFails \/ UsageFails \/ EndReconcile \/ LogAlert \/ PassDies
    <3>1. pass'.pc \in {"sum", "failed", "log", "complete", "fire", "idle"}
      <4>1. CASE StartPass \/ PassDies
        BY <4>1, FreshPass
      <4>2. CASE UsageFails
        BY <4>2 DEF UsageFails, DriftInv, PassTypeOK, PassType
      <4>3. CASE SumFails \/ EndReconcile \/ LogAlert
        BY <4>3 DEF SumFails, EndReconcile, LogAlert, DriftInv, PassTypeOK, PassType
      <4> QED BY <2>3, <4>1, <4>2, <4>3
    <3> QED BY <3>1 DEF LedgerIsSum
  <2> QED BY <1>3, <2>2, <2>3 DEF PassStep
<1> QED BY <1>1, <1>2, <1>3, OneAtATime

\* The fields of a pass that leaves the tenant at hand.
LEMMA LeaveFields ==
    ASSUME PassTypeOK, NEW pc \in PassPc, pass' = Leave(pc)
    PROVE  /\ pass'.pc = pc /\ pass'.todo = pass.todo
           /\ pass'.logged = pass.logged /\ pass'.known = pass.known
           /\ pass'.billed = pass.billed
BY DEF Leave, PassTypeOK, PassType

\* A pass that ends, fails or dies owes nothing to anyone.
LEMMA OwingStep ==
    ASSUME BillingTypeOK, PassInv, DriftInv, [DriftNext]_driftVars
    PROVE  OwingIsMet'
<1> USE DEF DriftInv
<1> DEFINE Met(t) == t \in pass.todo \/ (AtHand /\ t = pass.tenant) \/ Told(t)
<1>1. ASSUME NEW t, Unpaid(t)' PROVE Unpaid(t)
  BY <1>1, BillingBelow, TenantsOnlyPay
<1>2. ASSUME pass'.known = pass.known,
             pass.pc \in {"sum", "usage", "log", "fire", "complete"},
             \A t \in Owing : Unpaid(t) /\ Met(t) => Met(t)'
      PROVE  OwingIsMet'
  <2>1. Owing' = Owing
    BY <1>2 DEF Owing
  <2>2. \A t \in Owing : Unpaid(t) => Met(t)
    BY <1>2 DEF OwingIsMet
  <2>3. \A t \in Owing' : Unpaid(t)' => Met(t)'
    BY <1>1, <1>2, <2>1, <2>2
  <2> QED BY <2>3 DEF OwingIsMet
<1>3. ASSUME NEW t, pass.logged \subseteq pass'.logged, Told(t) PROVE Told(t)'
  BY <1>3 DEF Told
<1>4. CASE UNCHANGED pass
  <2>1. CASE pass.pc \in {"sum", "usage", "log", "fire", "complete"}
    <3>1. \A t \in Owing : Met(t) => Met(t)'
      BY <1>4 DEF AtHand, Told
    <3> QED BY <1>2, <1>4, <2>1, <3>1
  <2>2. CASE pass.pc \notin {"sum", "usage", "log", "fire", "complete"}
    BY <1>4, <2>2 DEF OwingIsMet
  <2> QED BY <2>1, <2>2
<1>5. CASE StartPass
  <2>1. pass'.todo = {PayerOf[e] : e \in {x \in Event : Recorded(x)}}
        /\ pass'.known = {e \in Event : Recorded(e)}
    BY <1>5 DEF StartPass, NoPass
  <2>2. \A t \in Owing' : t \in pass'.todo
    BY <2>1 DEF Owing
  <2> QED BY <2>2 DEF OwingIsMet
<1>6. CASE SumLedger
  <2>1. PICK x \in pass.todo :
          pass' = [pass EXCEPT !.pc = "usage", !.todo = @ \ {x}, !.tenant = x,
                               !.ledger = LedgerUnits(x)]
    BY <1>6 DEF SumLedger
  <2>2. pass'.pc = "usage" /\ pass'.todo = pass.todo \ {x} /\ pass'.tenant = x
        /\ pass'.logged = pass.logged /\ pass'.known = pass.known
    BY <2>1 DEF PassTypeOK, PassType
  <2>3. pass.pc = "sum"
    BY <1>6 DEF SumLedger
  <2>4. \A t \in Owing : Met(t) => Met(t)'
    BY <1>3, <2>2, <2>3 DEF AtHand
  <2> QED BY <1>2, <2>2, <2>3, <2>4
<1>7. CASE Compare
  <2>1. pass.pc = "usage"
    BY <1>7 DEF Compare
  <2>2. CASE Drifts(pass.ledger, StripeUnits(pass.tenant))
    <3>1. pass' = [pass EXCEPT !.pc = "log", !.kind = "drift"]
      BY <1>7, <2>2 DEF Compare
    <3>2. pass'.pc = "log" /\ pass'.todo = pass.todo /\ pass'.tenant = pass.tenant
          /\ pass'.logged = pass.logged /\ pass'.known = pass.known
      BY <3>1 DEF PassTypeOK, PassType
    <3>3. \A t \in Owing : Met(t) => Met(t)'
      BY <1>3, <3>2 DEF AtHand
    <3> QED BY <1>2, <2>1, <3>2, <3>3
  <2>3. CASE ~Drifts(pass.ledger, StripeUnits(pass.tenant))
    <3>1. pass' = Leave("sum")
      BY <1>7, <2>3 DEF Compare
    <3>2. ~(pass.tenant \in Owing /\ Unpaid(pass.tenant))
      BY <2>1, <2>3, UnpaidDrifts
    <3>3. \A t \in Owing : Unpaid(t) /\ Met(t) => Met(t)'
      BY <1>3, <3>1, <3>2, LeaveFields DEF PassPc
    <3>4. pass'.known = pass.known
      BY <3>1, LeaveFields DEF PassPc
    <3> QED BY <1>2, <2>1, <3>3, <3>4
  <2> QED BY <2>2, <2>3
<1>8. CASE UsageFails
  <2>1. pass.pc = "usage" /\ pass'.pc = "log" /\ pass'.todo = pass.todo
        /\ pass'.tenant = pass.tenant /\ pass'.logged = pass.logged /\ pass'.known = pass.known
    BY <1>8 DEF UsageFails, PassTypeOK, PassType
  <2>2. \A t \in Owing : Met(t) => Met(t)'
    BY <1>3, <2>1 DEF AtHand
  <2> QED BY <1>2, <2>1, <2>2
<1>9. CASE EndReconcile
  <2>1. pass.pc = "sum" /\ pass'.pc = "complete" /\ pass'.todo = pass.todo
        /\ pass'.logged = pass.logged /\ pass'.known = pass.known
    BY <1>9 DEF EndReconcile, PassTypeOK, PassType
  <2>2. \A t \in Owing : Met(t) => Met(t)'
    BY <1>3, <2>1 DEF AtHand
  <2> QED BY <1>2, <2>1, <2>2
<1>10. CASE LogAlert
  <2>1. pass.pc = "log" /\ pass'.pc = "fire" /\ pass'.todo = pass.todo
        /\ pass'.tenant = pass.tenant /\ pass'.logged = pass.logged \cup {Alert}
        /\ pass'.known = pass.known
    BY <1>10 DEF LogAlert, PassTypeOK, PassType
  <2>2. \A t \in Owing : Met(t) => Met(t)'
    BY <1>3, <2>1 DEF AtHand
  <2> QED BY <1>2, <2>1, <2>2
<1>11. CASE Fire \/ FireFails
  <2>1. pass.pc = "fire" /\ (pass' = Leave("sum") \/ pass' = Leave("aborted"))
    BY <1>11 DEF Fire, FireFails, AfterPagerError
  <2>2. pass'.todo = pass.todo /\ pass'.logged = pass.logged /\ pass'.known = pass.known
    BY <2>1, LeaveFields DEF PassPc
  <2>3. Told(pass.tenant)
    <3>1. Alert \in pass.logged /\ pass.kind \in Kind
      BY <2>1 DEF FiredIsLogged, PassTypeOK, PassType
    <3> QED BY <3>1 DEF Told, Alert
  <2>4. \A t \in Owing : Met(t) => Met(t)'
    BY <1>3, <2>2, <2>3
  <2> QED BY <1>2, <2>1, <2>2, <2>4
<1>12. CASE SumFails \/ PassDies
  <2>1. pass'.pc = "failed" \/ pass'.pc = "idle"
    BY <1>12 DEF SumFails, PassDies, NoPass, PassTypeOK, PassType
  <2> QED BY <2>1 DEF OwingIsMet
<1> QED
  BY <1>4, <1>5, <1>6, <1>7, <1>8, <1>9, <1>10, <1>11, <1>12, OneAtATime DEF PassStep

LEMMA FiredStep ==
    ASSUME PassTypeOK, FiredIsLogged, [DriftNext]_driftVars
    PROVE  FiredIsLogged'
<1>1. CASE UNCHANGED pass
  BY <1>1 DEF FiredIsLogged, Alert
<1>2. CASE LogAlert
  <2>1. pass'.logged = pass.logged \cup {Alert} /\ pass'.kind = pass.kind
        /\ pass'.tenant = pass.tenant
    BY <1>2 DEF LogAlert, PassTypeOK, PassType
  <2> QED BY <2>1 DEF FiredIsLogged, Alert
<1>3. ASSUME NEW pc \in PassPc, pc # "fire", pass' = Leave(pc) PROVE FiredIsLogged'
  BY <1>3, LeaveFields DEF FiredIsLogged
<1>4. CASE Compare \/ Fire \/ FireFails
  <2>1. \/ pass' = Leave("sum") \/ pass' = Leave("aborted")
        \/ pass' = [pass EXCEPT !.pc = "log", !.kind = "drift"]
    BY <1>4 DEF Compare, Fire, FireFails, AfterPagerError
  <2>2. CASE pass' = [pass EXCEPT !.pc = "log", !.kind = "drift"]
    BY <2>2 DEF FiredIsLogged, PassTypeOK, PassType
  <2> QED BY <1>3, <2>1, <2>2 DEF PassPc
<1>5. CASE SumLedger
  BY <1>5 DEF SumLedger, FiredIsLogged, PassTypeOK, PassType
<1>6. CASE StartPass \/ SumFails \/ UsageFails \/ EndReconcile \/ PassDies
  <2>1. CASE StartPass \/ PassDies
    BY <2>1, FreshPass DEF FiredIsLogged
  <2>2. CASE UsageFails
    BY <2>2 DEF UsageFails, FiredIsLogged, PassTypeOK, PassType
  <2>3. CASE SumFails \/ EndReconcile
    BY <2>3 DEF SumFails, EndReconcile, FiredIsLogged, PassTypeOK, PassType
  <2> QED BY <1>6, <2>1, <2>2, <2>3
<1> QED BY <1>1, <1>2, <1>4, <1>5, <1>6, OneAtATime DEF PassStep

LEMMA DriftInitInv == DriftInit => BillingTypeOK /\ PassInv /\ DriftInv
<1> SUFFICES ASSUME DriftInit PROVE DriftInv
  BY TypeInit, PassInit DEF DriftInit
<1> QED
  BY DEF DriftInit, NoPass, DriftInv, PassTypeOK, PassType, PassPc, Kind, AtHand,
         SnapshotHolds, LedgerIsSum, OwingIsMet, FiredIsLogged

LEMMA DriftInvariant == DriftSpec => [](BillingTypeOK /\ PassInv /\ DriftInv)
<1>1. BillingTypeOK /\ PassInv /\ DriftInv /\ [DriftNext]_driftVars
        => (BillingTypeOK /\ PassInv /\ DriftInv)'
  <2> SUFFICES ASSUME BillingTypeOK, PassInv, DriftInv, [DriftNext]_driftVars
               PROVE  (BillingTypeOK /\ PassInv /\ DriftInv)'
    OBVIOUS
  <2>1. BillingTypeOK' /\ PassInv'
    BY BillingBelow, TypeStep, PassInvStep DEF PassInv
  <2>2. PassTypeOK' /\ SnapshotHolds'
    BY DriftTypeStep, SnapshotStep DEF DriftInv
  <2>3. LedgerIsSum' /\ OwingIsMet'
    BY LedgerStep, OwingStep
  <2>4. FiredIsLogged'
    BY FiredStep DEF DriftInv
  <2> QED BY <2>1, <2>2, <2>3, <2>4 DEF DriftInv
<1> QED BY <1>1, DriftInitInv, PTL DEF DriftSpec

----------------------------------------------------------------------------

\* Beside the reconciler the outbox is the outbox: every theorem about BillingSpec
\* holds of DriftSpec.
THEOREM DriftImplementsOutbox == DriftSpec => BillingSpec
<1>1. DriftInit => BillingInit
  BY DEF DriftInit
<1> QED BY <1>1, BillingBelow, PTL DEF DriftSpec, BillingSpec

\* Reconciler.Run: a pass that completes has told of every tenant with usage
\* recorded before the pass began none of which was charged to it, whatever the
\* outbox, its flusher, the provider and the pager did meanwhile.
THEOREM OwingIsTold == DriftSpec => []UnpaidIsTold
<1>1. DriftInv => UnpaidIsTold
  BY DEF DriftInv, PassTypeOK, OwingIsMet, UnpaidIsTold, AtHand
<1> QED BY <1>1, DriftInvariant, PTL

LEMMA QuietStep ==
    ASSUME BillingTypeOK, PassInv, ChargedOnce, DriftInv, QuietInv, [DriftNext]_driftVars
    PROVE  QuietInv'
<1> USE DEF DriftInv, QuietInv
<1>1. CASE UNCHANGED pass
  <2>1. \A t : Reconciled(t)' => Reconciled(t)
    BY <1>1, BillingBelow, TenantsOnlyPay
  <2> QED BY <1>1, <2>1 DEF DriftIsReal, BilledIsQuiet
<1>2. CASE PassStep /\ UNCHANGED billingVars
  <2>1. ASSUME pass'.billed = pass.billed PROVE \A t : Reconciled(t)' <=> Reconciled(t)
    BY <1>2, <2>1 DEF Reconciled, Recorded, billingVars
  <2>2. ASSUME pass'.logged = pass.logged, pass'.billed = pass.billed PROVE BilledIsQuiet'
    BY <2>1, <2>2 DEF BilledIsQuiet
  <2>3. CASE StartPass \/ PassDies
    BY <2>3, FreshPass DEF DriftIsReal, BilledIsQuiet
  <2>4. ASSUME NEW pc \in PassPc, pc \notin {"log", "fire"}, pass' = Leave(pc) PROVE QuietInv'
    BY <2>2, <2>4, LeaveFields DEF DriftIsReal
  <2>5. CASE Compare
    <3>1. CASE Drifts(pass.ledger, StripeUnits(pass.tenant))
      <4>1. pass.pc = "usage" /\ pass' = [pass EXCEPT !.pc = "log", !.kind = "drift"]
        BY <2>5, <3>1 DEF Compare
      <4>2. pass'.tenant = pass.tenant /\ pass'.logged = pass.logged
            /\ pass'.billed = pass.billed
        BY <4>1 DEF PassTypeOK, PassType
      <4>3. ~Reconciled(pass.tenant)
        BY <3>1, <4>1, ReconciledAgrees DEF PassInv
      <4> QED BY <2>1, <2>2, <4>2, <4>3 DEF DriftIsReal
    <3>2. CASE ~Drifts(pass.ledger, StripeUnits(pass.tenant))
      BY <2>4, <2>5, <3>2 DEF Compare, PassPc
    <3> QED BY <3>1, <3>2
  <2>6. CASE Fire \/ FireFails
    BY <2>4, <2>6 DEF Fire, FireFails, AfterPagerError, PassPc
  <2>7. CASE UsageFails
    <3>1. pass'.kind = "report_error" /\ pass'.logged = pass.logged
          /\ pass'.billed = pass.billed
      BY <2>7 DEF UsageFails, PassTypeOK, PassType
    <3> QED BY <2>2, <3>1 DEF DriftIsReal
  <2>8. CASE LogAlert
    <3>1. pass.pc = "log" /\ pass'.kind = pass.kind /\ pass'.tenant = pass.tenant
          /\ pass'.logged = pass.logged \cup {Alert} /\ pass'.billed = pass.billed
      BY <2>8 DEF LogAlert, PassTypeOK, PassType
    <3>2. \A t : [kind |-> "drift", tenant |-> t] = Alert =>
                   pass.kind = "drift" /\ t = pass.tenant
      BY DEF Alert
    <3> QED BY <2>1, <3>1, <3>2 DEF DriftIsReal, BilledIsQuiet
  <2>9. CASE SumLedger \/ SumFails \/ EndReconcile
    <3>1. pass'.logged = pass.logged /\ pass'.billed = pass.billed
          /\ pass'.pc \notin {"log", "fire"}
      BY <2>9 DEF SumLedger, SumFails, EndReconcile, PassTypeOK, PassType
    <3> QED BY <2>2, <3>1 DEF DriftIsReal
  <2> QED BY <1>2, <2>3, <2>5, <2>6, <2>7, <2>8, <2>9 DEF PassStep
<1> QED BY <1>1, <1>2, OneAtATime

\* "A run with zero drift is silent" (reconciler.go): while the provider remembers
\* the keys of unsettled rows, no drift is told of a tenant whose usage was all
\* billed before the pass began, however the flusher retries.
THEOREM ReconciledIsQuiet ==
    ASSUME "window" \notin Faults
    PROVE  DriftSpec => []BilledIsQuiet
<1>1. DriftInit => KeyInv /\ QuietInv
  BY DEF DriftInit, BillingInit, KeyInv, ChargedOnce, NoPass, QuietInv, DriftIsReal,
         BilledIsQuiet
<1>2. BillingTypeOK /\ PassInv /\ DriftInv /\ KeyInv /\ QuietInv /\ [DriftNext]_driftVars
        => (KeyInv /\ QuietInv)'
  <2> SUFFICES ASSUME BillingTypeOK, PassInv, DriftInv, KeyInv, QuietInv, [DriftNext]_driftVars
               PROVE  (KeyInv /\ QuietInv)'
    OBVIOUS
  <2>1. KeyInv'
    BY BillingBelow, KeyStep
  <2>2. QuietInv'
    BY QuietStep DEF KeyInv
  <2> QED BY <2>1, <2>2
<1>3. QuietInv => BilledIsQuiet
  BY DEF QuietInv
<1> QED BY <1>1, <1>2, <1>3, DriftInvariant, PTL DEF DriftSpec
=============================================================================
