---------------------------- MODULE AccountProofs ----------------------------
(***************************************************************************)
(* Theorems about the two modules that stand on Identity, for every number *)
(* of tenants, users, keys, submissions and requests.  CostCap: how far a  *)
(* tenant can get past its cap.  AdminApi: what the statements of          *)
(* interleaving handlers keep true of the tables, of who is admitted, and  *)
(* of a listing.                                                           *)
(***************************************************************************)
EXTENDS CostCap, AdminApi, FiniteSetTheorems, TLAPS

\* Jobs that exist, and those of a tenant billed since a check read the sum.
Live == {j \in Submission : state[j] # "none"}
Later(check, t) == {j \in Submission : Owner[j] = t /\ state[j] = "billed"} \ check.billed

\* A check of this period found room for one unit at the price of the job, and
\* what the tenant has spent since was billed by jobs it did not count.
Sound(j, check) ==
    /\ check.billed \subseteq Billed
    /\ check.month <= month
    /\ check.cap >= 0 /\ check.month = month =>
         /\ EstimateCents(j, check.spent) + BaseCents[j] <= check.cap
         /\ spent[Owner[j]] <= check.spent + MaxUnits * Cardinality(Later(check, Owner[j]))

ChecksAreSound ==
    \A j \in Submission :
        /\ state[j] # "none" => Sound(j, basis[j])
        /\ post[j].pc = "submit" => Sound(j, post[j].check)

SpendInv == SpendTypeOK /\ IsFiniteSet(Live) /\ ChecksAreSound

----------------------------------------------------------------------------
(* Arithmetic: a product grows with each factor *)

LEMMA TimesMonotone ==
    ASSUME NEW a \in Nat, NEW b \in Nat, NEW p \in Nat, a <= b
    PROVE  a * p \in Nat /\ b * p \in Nat /\ a * p <= b * p
<1>1. PICK d \in Nat : b = a + d
  <2>1. b - a \in Nat /\ b = a + (b - a)
    OBVIOUS
  <2> QED BY <2>1
<1>2. (a + d) * p = a * p + d * p
  BY SMT
<1>3. a * p \in Nat /\ d * p \in Nat
  BY SMT
<1>4. b * p = a * p + d * p
  BY <1>1, <1>2
<1> QED BY <1>3, <1>4

LEMMA PlusTimes ==
    ASSUME NEW a \in Nat, NEW b \in Nat, NEW p \in Nat
    PROVE  (a + b) * p = a * p + b * p
BY SMT

----------------------------------------------------------------------------
(* Types *)

LEMMA NoCheckType == NoCheck \in Check
BY DEF NoCheck, Check

LEMMA CheckOf ==
    ASSUME SpendTypeOK, NEW j \in Submission
    PROVE  /\ post[j].pc \in {"idle", "spend", "submit"} /\ post[j].check \in Check
           /\ basis[j] \in Check
           /\ Owner[j] \in Tenant /\ BaseCents[j] \in Nat /\ spent[Owner[j]] \in Nat
           /\ MonthlyCap(Owner[j]) \in Int
<1>1. post[j] \in PostFrame /\ basis[j] \in Check
  BY DEF SpendTypeOK
<1>2. Owner[j] \in Tenant /\ BaseCents[j] \in Nat
  BY CostCapAssumption
<1>3. spent[Owner[j]] \in Nat /\ tenants[Owner[j]] \in TenantRow
  BY <1>2 DEF SpendTypeOK
<1>4. MonthlyCap(Owner[j]) \in Int
  BY <1>3, IdentityAssumption DEF MonthlyCap, TenantRow
<1> QED BY <1>1, <1>2, <1>3, <1>4 DEF PostFrame

LEMMA SpendTypeInit == SpendInit => SpendTypeOK
<1> SUFFICES ASSUME SpendInit PROVE SpendTypeOK
  OBVIOUS
<1>1. tenants \in [Tenant -> TenantRow] /\ users \in [User -> UserRow] /\ apiKeys \in [ApiKey -> KeyRow]
  BY IdentityAssumption
     DEF SpendInit, IdentityInit, NoTenant, NoUser, NoKey, TenantRow, UserRow, KeyRow
<1>2. post \in [Submission -> PostFrame] /\ basis \in [Submission -> Check]
  BY NoCheckType DEF SpendInit, SpendIdle, PostFrame
<1> QED BY <1>1, <1>2 DEF SpendInit, SpendIdle, SpendTypeOK

LEMMA AdministerKeepsTypes ==
    ASSUME tenants \in [Tenant -> TenantRow], NEW t \in Tenant,
           CreateTenant(t) \/ \E cents \in Cap : SetMonthlyCap(t, cents)
    PROVE  tenants' \in [Tenant -> TenantRow]
<1>1. CASE CreateTenant(t)
  <2>1. [tenants[t] EXCEPT !.made = TRUE] \in TenantRow
    BY DEF TenantRow
  <2> QED BY <1>1, <2>1 DEF CreateTenant
<1>2. ASSUME NEW cents \in Cap, SetMonthlyCap(t, cents)
      PROVE  tenants' \in [Tenant -> TenantRow]
  <2>1. [tenants[t] EXCEPT !.cap = cents] \in TenantRow
    BY DEF TenantRow
  <2> QED BY <1>2, <2>1 DEF SetMonthlyCap
<1> QED BY <1>1, <1>2

LEMMA SpendTypeStep == SpendTypeOK /\ [SpendNext]_spendVars => SpendTypeOK'
<1> SUFFICES ASSUME SpendTypeOK, [SpendNext]_spendVars PROVE SpendTypeOK'
  OBVIOUS
<1> USE DEF SpendTypeOK
<1>0. CASE UNCHANGED spendVars
  BY <1>0 DEF spendVars, identityVars
<1>1. ASSUME NEW j \in Submission, ReadCap(j) PROVE SpendTypeOK'
  <2> DEFINE cap == EffectiveCap(MonthlyCap(Owner[j]))
  <2>1. cap \in Int
    BY CheckOf, CostCapAssumption DEF EffectiveCap
  <2>2. [NoCheck EXCEPT !.cap = cap] \in Check
    BY <2>1 DEF NoCheck, Check
  <2>3. [pc |-> IF cap < 0 THEN "submit" ELSE "spend", check |-> [NoCheck EXCEPT !.cap = cap]] \in PostFrame
    BY <2>2 DEF PostFrame
  <2> HIDE DEF cap
  <2>4. post' \in [Submission -> PostFrame]
    BY <1>1, <2>3 DEF ReadCap, cap
  <2> QED BY <1>1, <2>4 DEF ReadCap, identityVars
<1>2. ASSUME NEW j \in Submission, Enforce(j) PROVE SpendTypeOK'
  <2>1. post[j].check \in Check /\ spent[Owner[j]] \in Nat
    BY CheckOf
  <2>2. [cap |-> post[j].check.cap, spent |-> spent[Owner[j]], billed |-> Billed, month |-> month] \in Check
    BY <2>1 DEF Check, Billed
  <2>3. post' \in [Submission -> PostFrame]
    BY <1>2, <2>2, NoCheckType DEF Enforce, PostFrame
  <2> QED BY <1>2, <2>3 DEF Enforce, identityVars
<1>3. ASSUME NEW j \in Submission, SubmitJob(j) PROVE SpendTypeOK'
  <2>1. post' \in [Submission -> PostFrame]
    BY <1>3, NoCheckType DEF SubmitJob, PostFrame
  <2>2. state' \in [Submission -> {"none", "live", "billed"}] /\ basis' \in [Submission -> Check]
    BY <1>3, CheckOf DEF SubmitJob
  <2> QED BY <1>3, <2>1, <2>2 DEF SubmitJob, identityVars
<1>4. ASSUME NEW j \in Submission, Abandon(j) PROVE SpendTypeOK'
  <2>1. post' \in [Submission -> PostFrame]
    BY <1>4, NoCheckType DEF Abandon, PostFrame
  <2> QED BY <1>4, <2>1 DEF Abandon, identityVars
<1>5. ASSUME NEW j \in Submission, RecordBills(j) PROVE SpendTypeOK'
  <2>1. PICK units \in 0..MaxUnits : spent' = [spent EXCEPT ![Owner[j]] = @ + units]
    BY <1>5 DEF RecordBills
  <2>2. spent' \in [Tenant -> Nat]
    BY <2>1, CostCapAssumption, CheckOf
  <2>3. state' \in [Submission -> {"none", "live", "billed"}]
    BY <1>5 DEF RecordBills
  <2> QED BY <1>5, <2>2, <2>3 DEF RecordBills, identityVars
<1>6. CASE NextMonth
  BY <1>6 DEF NextMonth, identityVars
<1>7. CASE Administer
  <2>1. PICK t \in Tenant : CreateTenant(t) \/ \E cents \in Cap : SetMonthlyCap(t, cents)
    BY <1>7 DEF Administer
  <2>2. tenants' \in [Tenant -> TenantRow]
    BY <2>1, AdministerKeepsTypes
  <2>3. UNCHANGED <<users, apiKeys>>
    BY <2>1 DEF CreateTenant, SetMonthlyCap
  <2> QED BY <1>7, <2>2, <2>3 DEF Administer
<1> QED BY <1>0, <1>1, <1>2, <1>3, <1>4, <1>5, <1>6, <1>7 DEF SpendNext

\* The caps, the sums and the requests hold what CostCap says they can
\* (costcap.go, postJob).
THEOREM SpendTypeCorrect == SpendSpec => []SpendTypeOK
BY SpendTypeInit, SpendTypeStep, PTL DEF SpendSpec

----------------------------------------------------------------------------
(* The checks stay sound *)

LEMMA LiveIsFinite ==
    ASSUME SpendTypeOK, IsFiniteSet(Live), [SpendNext]_spendVars
    PROVE  IsFiniteSet(Live')
<1>1. CASE UNCHANGED state
  BY <1>1 DEF Live
<1>2. ASSUME NEW j \in Submission, SubmitJob(j) PROVE IsFiniteSet(Live')
  <2>1. Live' \subseteq Live \cup {j}
    BY <1>2 DEF SubmitJob, Live, SpendTypeOK
  <2>2. IsFiniteSet(Live \cup {j})
    BY FS_AddElement
  <2> QED BY <2>1, <2>2, FS_Subset
<1>3. ASSUME NEW j \in Submission, RecordBills(j) PROVE IsFiniteSet(Live')
  <2>1. Live' = Live
    BY <1>3 DEF RecordBills, Live, SpendTypeOK
  <2> QED BY <2>1
<1> QED BY <1>1, <1>2, <1>3
        DEF SpendNext, spendVars, ReadCap, Enforce, Abandon, NextMonth, Administer

\* Sets of existing jobs are finite.
LEMMA LaterIsFinite ==
    ASSUME SpendTypeOK, IsFiniteSet(Live), NEW check, NEW t
    PROVE  /\ IsFiniteSet(Later(check, t)) /\ Cardinality(Later(check, t)) \in Nat
           /\ IsFiniteSet(Unseen(check, t)) /\ Cardinality(Unseen(check, t)) \in Nat
           /\ Cardinality(Later(check, t)) <= Cardinality(Unseen(check, t))
<1>1. Later(check, t) \subseteq Unseen(check, t)
  BY DEF Later, Unseen, SpendTypeOK
<1>2. Unseen(check, t) \subseteq Live
  BY DEF Unseen, Live
<1>3. IsFiniteSet(Unseen(check, t)) /\ IsFiniteSet(Later(check, t))
  BY <1>1, <1>2, FS_Subset
<1>4. Cardinality(Later(check, t)) <= Cardinality(Unseen(check, t))
  BY <1>1, <1>3, FS_Subset
<1> QED BY <1>3, <1>4, FS_CardinalityType

\* A step that bills nothing leaves a sound check sound, or behind in its month.
LEMMA SoundStays ==
    ASSUME SpendTypeOK, NEW j \in Submission, NEW check \in Check, Sound(j, check),
           Billed' = Billed, \A t : Later(check, t)' = Later(check, t),
           \/ month' = month /\ spent' = spent
           \/ NextMonth
    PROVE  Sound(j, check)'
<1>1. CASE month' = month /\ spent' = spent
  BY <1>1 DEF Sound, EstimateCents
<1>2. CASE NextMonth
  <2>1. check.month <= month /\ month' = month + 1 /\ month \in Nat /\ check.month \in Nat
    BY <1>2 DEF Sound, NextMonth, SpendTypeOK, Check
  <2>2. check.month # month' /\ check.month <= month'
    BY <2>1
  <2> QED BY <2>2 DEF Sound
<1> QED BY <1>1, <1>2

\* A bill counts against every sound check of its tenant, and no other.
LEMMA SoundWhenBilled ==
    ASSUME SpendTypeOK, IsFiniteSet(Live), NEW j \in Submission, NEW check \in Check,
           Sound(j, check), NEW i \in Submission, RecordBills(i)
    PROVE  Sound(j, check)'
<1> DEFINE t == Owner[j]
           n == Cardinality(Later(check, t))
<1>1. PICK units \in 0..MaxUnits : spent' = [spent EXCEPT ![Owner[i]] = @ + units]
  BY DEF RecordBills
<1>2. state[i] = "live" /\ state' = [state EXCEPT ![i] = "billed"] /\ month' = month
  BY DEF RecordBills
<1>3. Billed' = Billed \cup {i} /\ i \notin Billed
  BY <1>2 DEF Billed, SpendTypeOK
<1>4. i \notin check.billed /\ check.billed \subseteq Billed'
  BY <1>3 DEF Sound
<1>5. Owner[i] \in Tenant /\ t \in Tenant /\ spent \in [Tenant -> Nat]
      /\ MaxUnits \in Nat /\ check.spent \in Nat /\ n \in Nat
  BY CheckOf, CostCapAssumption, LaterIsFinite DEF SpendTypeOK, Check
<1>6. ASSUME check.cap >= 0, check.month = month'
      PROVE  spent'[t] <= check.spent + MaxUnits * Cardinality(Later(check, t)')
  <2>1. spent[t] <= check.spent + MaxUnits * n
    BY <1>2, <1>6 DEF Sound
  <2>2. CASE Owner[i] = t
    <3>1. Later(check, t)' = Later(check, t) \cup {i} /\ i \notin Later(check, t)
      BY <1>2, <1>4, <2>2 DEF Later, SpendTypeOK
    <3>2. Cardinality(Later(check, t)') = n + 1
      BY <3>1, LaterIsFinite, FS_AddElement
    <3>3. spent'[t] = spent[t] + units
      BY <1>1, <1>5, <2>2
    <3>4. MaxUnits * (n + 1) = MaxUnits * n + MaxUnits /\ MaxUnits * n \in Nat
      BY <1>5, SMT
    <3> HIDE DEF n
    <3>5. spent[t] \in Nat /\ units \in Nat /\ units <= MaxUnits
      BY <1>5
    <3>6. spent[t] + units <= check.spent + (MaxUnits * n + MaxUnits)
      BY <1>5, <2>1, <3>4, <3>5
    <3> QED BY <3>2, <3>3, <3>4, <3>6
  <2>3. CASE Owner[i] # t
    <3>1. Later(check, t)' = Later(check, t)
      BY <1>2, <2>3 DEF Later, SpendTypeOK
    <3>2. spent'[t] = spent[t]
      BY <1>1, <1>5, <2>3
    <3> QED BY <2>1, <3>1, <3>2
  <2> QED BY <2>2, <2>3
<1>7. check.cap >= 0 /\ check.month = month =>
        EstimateCents(j, check.spent) + BaseCents[j] <= check.cap
  BY DEF Sound
<1> QED BY <1>2, <1>4, <1>6, <1>7 DEF Sound, EstimateCents

\* What Enforce has just found is sound: nothing was billed since.
LEMMA FoundIsSound ==
    ASSUME SpendTypeOK, IsFiniteSet(Live), NEW j \in Submission,
           Fits(j, post[j].check.cap)
    PROVE  Sound(j, [cap |-> post[j].check.cap, spent |-> spent[Owner[j]],
                     billed |-> Billed, month |-> month])
<1> DEFINE check == [cap |-> post[j].check.cap, spent |-> spent[Owner[j]],
                     billed |-> Billed, month |-> month]
<1>1. Later(check, Owner[j]) = {}
  BY DEF Later, Billed
<1>2. Cardinality(Later(check, Owner[j])) = 0
  BY <1>1, FS_EmptySet
<1>3. spent[Owner[j]] \in Nat /\ MaxUnits \in Nat
  BY CheckOf, CostCapAssumption
<1>4. spent[Owner[j]] <= check.spent + MaxUnits * Cardinality(Later(check, Owner[j]))
  BY <1>2, <1>3
<1>5. EstimateCents(j, check.spent) + BaseCents[j] <= check.cap
  BY DEF Fits, Projected
<1>6. month <= month
  BY DEF SpendTypeOK
<1> QED BY <1>4, <1>5, <1>6 DEF Sound

LEMMA SpendStart == SpendInit => SpendInv
<1> SUFFICES ASSUME SpendInit PROVE SpendInv
  OBVIOUS
<1>1. Live = {}
  BY DEF SpendInit, SpendIdle, Live
<1>2. IsFiniteSet(Live)
  BY <1>1, FS_EmptySet
<1>3. ChecksAreSound
  BY DEF SpendInit, SpendIdle, ChecksAreSound
<1> QED BY <1>2, <1>3, SpendTypeInit DEF SpendInv

\* Steps that change neither jobs nor sums keep every sound check.
LEMMA SoundWhenStill ==
    ASSUME SpendTypeOK, UNCHANGED <<spent, state, month>>,
           NEW j \in Submission, NEW check \in Check, Sound(j, check)
    PROVE  Sound(j, check)'
<1>1. Billed' = Billed /\ \A t : Later(check, t)' = Later(check, t)
  BY DEF Billed, Later
<1> QED BY <1>1, SoundStays

\* What a frame of the next state holds may be given a name.
LEMMA NameNext ==
    ASSUME NEW j, NEW b, NEW c, b = basis'[j], c = post'[j].check
    PROVE  /\ Sound(j, b)' => Sound(j, basis[j])'
           /\ Sound(j, c)' => Sound(j, post[j].check)'
BY DEF Sound, Later, Billed, EstimateCents

LEMMA ChecksStep ==
    ASSUME SpendTypeOK, IsFiniteSet(Live), ChecksAreSound, [SpendNext]_spendVars
    PROVE  ChecksAreSound'
<1> SUFFICES ASSUME NEW j \in Submission, NEW b, NEW c, b = basis'[j], c = post'[j].check
             PROVE  /\ state'[j] # "none" => Sound(j, b)'
                    /\ post'[j].pc = "submit" => Sound(j, c)'
  BY NameNext DEF ChecksAreSound
<1>j. /\ state[j] # "none" => Sound(j, basis[j])
      /\ post[j].pc = "submit" => Sound(j, post[j].check)
      /\ basis[j] \in Check /\ post[j].check \in Check
  BY CheckOf DEF ChecksAreSound
<1>0. CASE UNCHANGED <<spent, post, state, basis, month>>
  BY <1>0, <1>j, SoundWhenStill
<1>1. ASSUME NEW i \in Submission, ReadCap(i)
      PROVE  /\ state'[j] # "none" => Sound(j, b)'
             /\ post'[j].pc = "submit" => Sound(j, c)'
  <2> DEFINE cap == EffectiveCap(MonthlyCap(Owner[i]))
  <2>1. UNCHANGED <<spent, state, basis, month>>
    BY <1>1 DEF ReadCap
  <2>2. post' = [post EXCEPT ![i] = [pc |-> IF cap < 0 THEN "submit" ELSE "spend",
                                     check |-> [NoCheck EXCEPT !.cap = cap]]]
    BY <1>1 DEF ReadCap
  <2>3. cap \in Int
    BY CheckOf, CostCapAssumption DEF EffectiveCap
  <2> HIDE DEF cap
  <2>4. \A x \in Check : Sound(j, x) => Sound(j, x)'
    BY <2>1, SoundWhenStill
  <2>5. i # j => post'[j] = post[j]
    BY <2>2
  <2>6. i = j => /\ c = [cap |-> cap, spent |-> 0, billed |-> {}, month |-> 0]
                 /\ post'[j].pc = "submit" => cap < 0
    BY <2>2 DEF SpendTypeOK, NoCheck
  <2>7. ASSUME i = j, cap < 0 PROVE Sound(j, c)'
    <3>1. c.cap = cap /\ c.billed = {} /\ c.month = 0
      BY <2>6, <2>7
    <3>2. month' \in Nat
      BY <2>1 DEF SpendTypeOK
    <3>3. ~(c.cap >= 0) /\ c.month <= month'
      BY <2>3, <2>7, <3>1, <3>2
    <3> QED BY <3>1, <3>3 DEF Sound
  <2> QED BY <1>j, <2>1, <2>4, <2>5, <2>6, <2>7
<1>2. ASSUME NEW i \in Submission, Enforce(i)
      PROVE  /\ state'[j] # "none" => Sound(j, b)'
             /\ post'[j].pc = "submit" => Sound(j, c)'
  <2> DEFINE found == [cap |-> post[i].check.cap, spent |-> spent[Owner[i]],
                       billed |-> Billed, month |-> month]
  <2>1. UNCHANGED <<spent, state, basis, month>>
    BY <1>2 DEF Enforce
  <2>2. i # j => post'[j] = post[j]
    BY <1>2 DEF Enforce, SpendTypeOK
  <2>3. i = j => \/ post'[j].pc = "idle"
                 \/ Fits(j, post[j].check.cap) /\ post'[j].check = found
    BY <1>2 DEF Enforce, SpendTypeOK
  <2>4. \A x \in Check : Sound(j, x) => Sound(j, x)'
    BY <2>1, SoundWhenStill
  <2>5. ASSUME i = j, Fits(j, post[j].check.cap), c = found PROVE c \in Check /\ Sound(j, c)
    <3>1. found \in Check
      BY CheckOf DEF Check, Billed, SpendTypeOK
    <3>2. Sound(j, found)
      BY <2>5, FoundIsSound
    <3> QED BY <2>5, <3>1, <3>2
  <2> HIDE DEF found
  <2> QED BY <1>j, <2>1, <2>2, <2>3, <2>4, <2>5
<1>3. ASSUME NEW i \in Submission, SubmitJob(i)
      PROVE  /\ state'[j] # "none" => Sound(j, b)'
             /\ post'[j].pc = "submit" => Sound(j, c)'
  <2>1. post[i].pc = "submit" /\ post' = [post EXCEPT ![i] = [pc |-> "idle", check |-> NoCheck]]
        /\ spent' = spent /\ month' = month
    BY <1>3 DEF SubmitJob
  <2>2. \/ UNCHANGED <<state, basis>>
        \/ /\ state[i] = "none" /\ state' = [state EXCEPT ![i] = "live"]
           /\ basis' = [basis EXCEPT ![i] = post[i].check]
    BY <1>3 DEF SubmitJob
  <2>3. Billed' = Billed /\ \A x, t : Later(x, t)' = Later(x, t)
    BY <2>2 DEF Billed, Later, SpendTypeOK
  <2>4. \A x \in Check : Sound(j, x) => Sound(j, x)'
    BY <2>1, <2>3, SoundStays
  <2>5. post'[j].pc = "submit" => post'[j] = post[j]
    BY <2>1 DEF SpendTypeOK
  <2>6. \/ state'[j] = state[j] /\ basis'[j] = basis[j]
        \/ i = j /\ basis'[j] = post[j].check
    <3>1. state \in [Submission -> {"none", "live", "billed"}] /\ basis \in [Submission -> Check]
      BY DEF SpendTypeOK
    <3> QED BY <2>2, <3>1
  <2> QED BY <1>j, <2>1, <2>4, <2>5, <2>6
<1>4. ASSUME NEW i \in Submission, Abandon(i)
      PROVE  /\ state'[j] # "none" => Sound(j, b)'
             /\ post'[j].pc = "submit" => Sound(j, c)'
  <2>1. UNCHANGED <<spent, state, basis, month>>
    BY <1>4 DEF Abandon
  <2>2. post'[j].pc = "submit" => post'[j] = post[j]
    BY <1>4 DEF Abandon, SpendTypeOK
  <2> QED BY <1>j, <2>1, <2>2, SoundWhenStill
<1>5. ASSUME NEW i \in Submission, RecordBills(i)
      PROVE  /\ state'[j] # "none" => Sound(j, b)'
             /\ post'[j].pc = "submit" => Sound(j, c)'
  <2>1. UNCHANGED <<post, basis>> /\ (state'[j] # "none" => state[j] # "none")
    BY <1>5 DEF RecordBills, SpendTypeOK
  <2>2. \A x \in Check : Sound(j, x) => Sound(j, x)'
    BY <1>5, SoundWhenBilled
  <2> QED BY <1>j, <2>1, <2>2
<1>6. CASE NextMonth
  <2>1. UNCHANGED <<post, state, basis>>
    BY <1>6 DEF NextMonth
  <2>2. Billed' = Billed /\ \A x, t : Later(x, t)' = Later(x, t)
    BY <2>1 DEF Billed, Later
  <2>3. \A x \in Check : Sound(j, x) => Sound(j, x)'
    BY <1>6, <2>2, SoundStays
  <2> QED BY <1>j, <2>1, <2>3
<1>7. CASE Administer
  BY <1>0, <1>7 DEF Administer
<1> QED BY <1>0, <1>1, <1>2, <1>3, <1>4, <1>5, <1>6, <1>7 DEF SpendNext, spendVars

----------------------------------------------------------------------------
(* The bound *)

LEMMA SoundBoundsOvershoot == SpendInv => OvershootIsInFlight
<1> SUFFICES ASSUME SpendInv, NEW j \in Submission, state[j] # "none",
                    basis[j].cap >= 0, basis[j].month = month
             PROVE  EstimateCents(j, spent[Owner[j]]) + BaseCents[j]
                      <= basis[j].cap
                         + EstimateCents(j, MaxUnits * Cardinality(Unseen(basis[j], Owner[j])))
  BY DEF OvershootIsInFlight
<1> DEFINE b == basis[j]
           p == BaseCents[j]
           s == spent[Owner[j]]
           k == MaxUnits * Cardinality(Later(b, Owner[j]))
           n == MaxUnits * Cardinality(Unseen(b, Owner[j]))
<1>1. SpendTypeOK /\ IsFiniteSet(Live) /\ Sound(j, b)
  BY DEF SpendInv, ChecksAreSound
<1>2. p \in Nat /\ s \in Nat /\ b.spent \in Nat /\ b.cap \in Int /\ MaxUnits \in Nat
  BY <1>1, CheckOf, CostCapAssumption DEF Check
<1>3. b.spent * p + p <= b.cap /\ s <= b.spent + k
  BY <1>1 DEF Sound, EstimateCents
<1>4. k \in Nat /\ n \in Nat /\ k <= n
  <2> DEFINE K == Cardinality(Later(b, Owner[j]))
             N == Cardinality(Unseen(b, Owner[j]))
  <2>1. K \in Nat /\ N \in Nat /\ K <= N
    BY <1>1, LaterIsFinite
  <2> HIDE DEF K, N
  <2>2. K * MaxUnits \in Nat /\ N * MaxUnits \in Nat /\ K * MaxUnits <= N * MaxUnits
    BY <1>2, <2>1, TimesMonotone
  <2>3. MaxUnits * K = K * MaxUnits /\ MaxUnits * N = N * MaxUnits
    BY <1>2, <2>1, SMT
  <2> QED BY <2>2, <2>3 DEF K, N
<1> HIDE DEF b, p, s, k, n
<1>5. s <= b.spent + n
  BY <1>2, <1>3, <1>4
<1>6. s * p \in Nat /\ (b.spent + n) * p \in Nat /\ s * p <= (b.spent + n) * p
  BY <1>2, <1>4, <1>5, TimesMonotone
<1>7. (b.spent + n) * p = b.spent * p + n * p /\ b.spent * p \in Nat /\ n * p \in Nat
  BY <1>2, <1>4, PlusTimes, TimesMonotone
<1>8. s * p + p <= b.cap + n * p
  BY <1>2, <1>3, <1>6, <1>7
<1> QED BY <1>8 DEF EstimateCents, b, p, s, n

LEMMA SpendInvariant == SpendSpec => []SpendInv
<1>1. SpendInv /\ [SpendNext]_spendVars => SpendInv'
  BY SpendTypeStep, LiveIsFinite, ChecksStep DEF SpendInv
<1> QED BY <1>1, SpendStart, PTL DEF SpendSpec

\* What a tenant spends in a month passes the cap its jobs were admitted under by
\* no more than the jobs in flight at the check were billed, for every number of
\* jobs, prices, caps and months (Enforce in costcap.go, postJob in server.go).
THEOREM OvershootIsBounded == SpendSpec => []OvershootIsInFlight
BY SpendInvariant, SoundBoundsOvershoot, PTL

TablesOK ==
    /\ tenants \in [Tenant -> TenantRow]
    /\ users \in [User -> UserRow]
    /\ apiKeys \in [ApiKey -> KeyRow]

\* A call holds an entry only when it is about to append it, and the user of a
\* key about to be inserted is one of the path's tenant.
CallInv ==
    \A c \in Call :
        /\ call[c].pc # "audit" => call[c].entry = Nil
        /\ call[c].pc = "insertKey" =>
             /\ call[c].user \in User /\ call[c].tenant \in Tenant
             /\ users[call[c].user].tenant = call[c].tenant

\* Only a key that has its row can have been revoked.
KeyInv == \A k \in ApiKey : apiKeys[k].revoked => LookupAPIKey(k)

\* A request begun with a revoked key is still before the lookup.
RequestInv ==
    \A r \in Request :
        /\ request[r].pc = "key" => request[r].key \in ApiKey
        /\ request[r].late => request[r].pc = "key" /\ apiKeys[request[r].key].revoked

\* Nothing beyond the cursor was shown, everything up to it was.
ListingInv ==
    /\ \A t \in listing.existed : tenants[t].made
    /\ \A t \in Tenant : listing.shown[t] <= 1
    /\ listing.pc = "reading" =>
         /\ \A t \in Tenant : t > listing.cursor => listing.shown[t] = 0
         /\ \A t \in listing.existed : t <= listing.cursor => listing.shown[t] = 1
    /\ listing.pc = "done" => \A t \in listing.existed : listing.shown[t] = 1

AdminInv ==
    /\ AdminTypeOK
    /\ CallInv /\ KeyInv /\ KeyIsOwned /\ RequestInv /\ ListingInv

----------------------------------------------------------------------------
(* The tables *)

\* What a step can do to them.
TableStep ==
    \/ UNCHANGED identityVars
    \/ \E t \in Tenant :
         \/ CreateTenant(t)
         \/ \E u \in User : CreateUser(t, u)
         \/ \E x \in Customer : SetStripeCustomerID(t, x)
         \/ \E cents \in Cap : SetMonthlyCap(t, cents)
         \/ \E o \in Org : SetClerkOrgID(t, o)
         \/ \E u \in User, s \in Subject : SetClerkUserID(t, u, s)
         \/ \E u \in User, k \in ApiKey : users[u].tenant = t /\ IssueAPIKey(t, u, k)
    \/ \E k \in ApiKey : RevokeAPIKey(k)

LEMMA StepIsTableStep ==
    ASSUME AdminTypeOK, CallInv, [AdminNext]_adminVars
    PROVE  TableStep
<1>1. CASE UNCHANGED adminVars
  BY <1>1 DEF TableStep, adminVars
<1>2. ASSUME NEW c \in Call, CallStep(c) PROVE TableStep
  <2>1. ASSUME NEW u \in User, InsertUser(c, u) PROVE TableStep
    <3>1. CreateUser(call[c].tenant, u) /\ call[c].tenant \in Tenant
      BY <2>1 DEF InsertUser, CreateUser, GetTenant
    <3> QED BY <3>1 DEF TableStep
  <2>2. ASSUME NEW k \in ApiKey, InsertKey(c, k) PROVE TableStep
    <3>1. IssueAPIKey(call[c].tenant, call[c].user, k) /\ call[c].tenant \in Tenant
          /\ call[c].user \in User /\ users[call[c].user].tenant = call[c].tenant
      BY <2>2 DEF InsertKey, CallInv
    <3> QED BY <3>1 DEF TableStep
  <2>3. CASE recordAdminAudit(c) \/ AuditIsLost(c)
    BY <2>3 DEF recordAdminAudit, AuditIsLost, TableStep
  <2>4. ASSUME NEW t \in Tenant, adminCreateUser(c, t) \/ \E u \in User : adminIssueAPIKey(c, t, u)
        PROVE  TableStep
    BY <2>4 DEF adminCreateUser, adminIssueAPIKey, TableStep
  <2>5. ASSUME NEW t \in Tenant,
               \/ adminCreateTenant(c, t)
               \/ \E x \in Customer : adminSetStripeCustomer(c, t, x)
               \/ \E cents \in Cap : adminSetCap(c, t, cents)
               \/ \E o \in Org : adminSetClerkOrg(c, t, o)
               \/ \E u \in User, s \in Subject : adminSetClerkUser(c, t, u, s)
        PROVE  TableStep
    BY <2>5 DEF adminCreateTenant, adminSetStripeCustomer, adminSetCap, adminSetClerkOrg,
                adminSetClerkUser, TableStep
  <2> QED BY <1>2, <2>1, <2>2, <2>3, <2>4, <2>5 DEF CallStep
<1>3. ASSUME NEW r \in Request, RequestStep(r) PROVE TableStep
  BY <1>3 DEF RequestStep, BearKey, BearSession, ResolveKey, ResolveOrg, ResolveSubject, Answer,
              Serve, TableStep
<1>4. CASE StartListing \/ adminListTenants
  BY <1>4 DEF StartListing, adminListTenants, TableStep
<1>5. ASSUME NEW k \in ApiKey, Revoke(k) PROVE TableStep
  BY <1>5 DEF Revoke, TableStep
<1> QED BY <1>1, <1>2, <1>3, <1>4, <1>5 DEF AdminNext

\* A tenant stays, a user stays with its tenant, a key with its user, and what is
\* revoked stays revoked.
TablesGrow ==
    /\ \A t \in Tenant : tenants[t].made => tenants'[t].made
    /\ \A u \in User : users[u].tenant # 0 => users'[u].tenant = users[u].tenant
    /\ \A k \in ApiKey : LookupAPIKey(k) =>
         /\ apiKeys'[k].tenant = apiKeys[k].tenant /\ apiKeys'[k].user = apiKeys[k].user
         /\ apiKeys[k].revoked => apiKeys'[k].revoked
    /\ \A k \in ApiKey : apiKeys'[k].user # Nil /\ ~LookupAPIKey(k) =>
         /\ ~apiKeys'[k].revoked /\ apiKeys'[k].user \in User /\ apiKeys'[k].tenant \in Tenant
         /\ users'[apiKeys'[k].user].tenant = apiKeys'[k].tenant
    /\ \A k \in ApiKey : ~LookupAPIKey(k) /\ apiKeys'[k].user = Nil =>
         apiKeys'[k].revoked = apiKeys[k].revoked

LEMMA TablesStep ==
    ASSUME TablesOK, TableStep
    PROVE  TablesOK' /\ TablesGrow
<1> USE DEF TablesOK, TablesGrow, LookupAPIKey
<1>n. 0 \notin Tenant /\ Nil \notin User
  BY IdentityAssumption
<1>1. CASE UNCHANGED identityVars
  <2>1. tenants' = tenants /\ users' = users /\ apiKeys' = apiKeys
    BY <1>1 DEF identityVars
  <2> QED BY <2>1
<1>2. ASSUME NEW t \in Tenant, NEW row \in TenantRow, tenants[t].made => row.made,
             tenants' = [tenants EXCEPT ![t] = row], UNCHANGED <<users, apiKeys>>
      PROVE  TablesOK' /\ TablesGrow
  BY <1>2
<1>3. ASSUME NEW t \in Tenant,
             \/ CreateTenant(t)
             \/ \E x \in Customer : SetStripeCustomerID(t, x)
             \/ \E cents \in Cap : SetMonthlyCap(t, cents)
             \/ \E o \in Org : SetClerkOrgID(t, o)
      PROVE  TablesOK' /\ TablesGrow
  <2>1. tenants[t] \in TenantRow
    BY <1>3
  <2>2. CASE CreateTenant(t)
    <3>1. [tenants[t] EXCEPT !.made = TRUE] \in TenantRow /\ [tenants[t] EXCEPT !.made = TRUE].made
      BY <2>1 DEF TenantRow
    <3> QED BY <1>2, <2>2, <3>1 DEF CreateTenant
  <2>3. ASSUME NEW x \in Customer, SetStripeCustomerID(t, x) PROVE TablesOK' /\ TablesGrow
    <3>1. [tenants[t] EXCEPT !.customer = x] \in TenantRow
          /\ [tenants[t] EXCEPT !.customer = x].made = tenants[t].made
      BY <2>1 DEF TenantRow
    <3> QED BY <1>2, <2>3, <3>1 DEF SetStripeCustomerID
  <2>4. ASSUME NEW cents \in Cap, SetMonthlyCap(t, cents) PROVE TablesOK' /\ TablesGrow
    <3>1. [tenants[t] EXCEPT !.cap = cents] \in TenantRow
          /\ [tenants[t] EXCEPT !.cap = cents].made = tenants[t].made
      BY <2>1 DEF TenantRow
    <3> QED BY <1>2, <2>4, <3>1 DEF SetMonthlyCap
  <2>5. ASSUME NEW o \in Org, SetClerkOrgID(t, o) PROVE TablesOK' /\ TablesGrow
    <3>1. [tenants[t] EXCEPT !.org = o] \in TenantRow
          /\ [tenants[t] EXCEPT !.org = o].made = tenants[t].made
      BY <2>1 DEF TenantRow
    <3> QED BY <1>2, <2>5, <3>1 DEF SetClerkOrgID
  <2> QED BY <1>3, <2>2, <2>3, <2>4, <2>5
<1>4. ASSUME NEW u \in User, NEW row \in UserRow, users[u].tenant # 0 => row.tenant = users[u].tenant,
             users' = [users EXCEPT ![u] = row], UNCHANGED <<tenants, apiKeys>>
      PROVE  TablesOK' /\ TablesGrow
  BY <1>4
<1>5. ASSUME NEW t \in Tenant, NEW u \in User, CreateUser(t, u) PROVE TablesOK' /\ TablesGrow
  <2>1. users[u].tenant = 0 /\ users' = [users EXCEPT ![u].tenant = t] /\ UNCHANGED <<tenants, apiKeys>>
    BY <1>5 DEF CreateUser
  <2>2. [users[u] EXCEPT !.tenant = t] \in UserRow
    BY DEF UserRow
  <2> QED BY <1>4, <2>1, <2>2
<1>6. ASSUME NEW t \in Tenant, NEW u \in User, NEW s \in Subject, SetClerkUserID(t, u, s)
      PROVE  TablesOK' /\ TablesGrow
  <2>1. users' = [users EXCEPT ![u].subject = s] /\ UNCHANGED <<tenants, apiKeys>>
    BY <1>6 DEF SetClerkUserID
  <2>2. [users[u] EXCEPT !.subject = s] \in UserRow
        /\ [users[u] EXCEPT !.subject = s].tenant = users[u].tenant
    BY DEF UserRow
  <2> QED BY <1>4, <2>1, <2>2
<1>7. ASSUME NEW t \in Tenant, NEW u \in User, NEW k \in ApiKey, users[u].tenant = t, IssueAPIKey(t, u, k)
      PROVE  TablesOK' /\ TablesGrow
  <2>1. apiKeys[k].user = Nil /\ UNCHANGED <<tenants, users>>
        /\ apiKeys' = [apiKeys EXCEPT ![k] = [tenant |-> t, user |-> u, revoked |-> FALSE]]
    BY <1>7 DEF IssueAPIKey
  <2>2. [tenant |-> t, user |-> u, revoked |-> FALSE] \in KeyRow
    BY DEF KeyRow
  <2>3. TablesOK' /\ LookupAPIKey(k)' /\ ~LookupAPIKey(k)
    BY <1>n, <2>1, <2>2
  <2>4. \A m \in ApiKey \ {k} : apiKeys'[m] = apiKeys[m]
    BY <2>1
  <2>5. apiKeys'[k].tenant = t /\ apiKeys'[k].user = u /\ ~apiKeys'[k].revoked
    BY <2>1
  <2>6. TablesGrow
    BY <1>7, <2>1, <2>3, <2>4, <2>5
  <2> QED BY <2>3, <2>6
<1>8. ASSUME NEW k \in ApiKey, RevokeAPIKey(k) PROVE TablesOK' /\ TablesGrow
  <2>1. apiKeys[k].user # Nil /\ UNCHANGED <<tenants, users>>
        /\ apiKeys' = [apiKeys EXCEPT ![k].revoked = TRUE]
    BY <1>8 DEF RevokeAPIKey
  <2>2. [apiKeys[k] EXCEPT !.revoked = TRUE] \in KeyRow
        /\ [apiKeys[k] EXCEPT !.revoked = TRUE].user = apiKeys[k].user
        /\ [apiKeys[k] EXCEPT !.revoked = TRUE].tenant = apiKeys[k].tenant
        /\ [apiKeys[k] EXCEPT !.revoked = TRUE].revoked
    BY DEF KeyRow
  <2>3. apiKeys' = [apiKeys EXCEPT ![k] = [apiKeys[k] EXCEPT !.revoked = TRUE]]
    BY <2>1
  <2>4. TablesOK'
    BY <2>1, <2>2, <2>3
  <2>5. \A m \in ApiKey \ {k} : apiKeys'[m] = apiKeys[m]
    BY <2>3
  <2>6. apiKeys'[k].user = apiKeys[k].user /\ apiKeys'[k].tenant = apiKeys[k].tenant
        /\ apiKeys'[k].revoked
    BY <2>2, <2>3
  <2>7. TablesGrow
    BY <2>1, <2>5, <2>6
  <2> QED BY <2>4, <2>7
<1> QED BY <1>1, <1>3, <1>5, <1>6, <1>7, <1>8 DEF TableStep

\* A key belongs to a user of its own tenant, and keeps to it.
LEMMA OwnersStep ==
    ASSUME TablesOK, KeyIsOwned, KeyInv, TableStep
    PROVE  KeyIsOwned' /\ KeyInv'
<1>1. TablesGrow /\ TablesOK'
  BY TablesStep
<1>2. 0 \notin Tenant
  BY IdentityAssumption
<1>3. ASSUME NEW k \in ApiKey, apiKeys'[k].user # Nil
      PROVE  apiKeys'[k].tenant # 0 /\ users'[apiKeys'[k].user].tenant = apiKeys'[k].tenant
  <2>1. CASE LookupAPIKey(k)
    <3>1. apiKeys[k].tenant # 0 /\ users[apiKeys[k].user].tenant = apiKeys[k].tenant
          /\ apiKeys[k].user \in User
      BY <2>1 DEF KeyIsOwned, LookupAPIKey, TablesOK, KeyRow
    <3> QED BY <1>1, <2>1, <3>1 DEF TablesGrow
  <2>2. CASE ~LookupAPIKey(k)
    BY <1>1, <1>2, <1>3, <2>2 DEF TablesGrow
  <2> QED BY <2>1, <2>2
<1>4. ASSUME NEW k \in ApiKey, apiKeys'[k].revoked PROVE apiKeys'[k].user # Nil
  BY <1>1, <1>4 DEF TablesGrow, KeyInv, LookupAPIKey
<1> QED BY <1>3, <1>4 DEF KeyIsOwned, KeyInv, LookupAPIKey

----------------------------------------------------------------------------
(* The calls *)

LEMMA EntryTyped ==
    ASSUME NEW a \in Action, NEW t \in Tenant, NEW x \in Target
    PROVE  Entry(a, t, x) \in EntryRow
BY DEF Entry, EntryRow

\* The frame a handler goes on with.
CallBecomes(c, frame) ==
    /\ call' = [call EXCEPT ![c] = frame]
    /\ frame \in CallFrame
    /\ frame.pc # "audit" => frame.entry = Nil
    /\ frame.pc = "insertKey" =>
         /\ frame.user \in User /\ frame.tenant \in Tenant
         /\ users[frame.user].tenant = frame.tenant

LEMMA DoneFrame ==
    ASSUME NEW c \in Call, NEW entry \in EntryRow, Done(c, entry)
    PROVE  \E frame : CallBecomes(c, frame)
<1> DEFINE frame == [IdleCall EXCEPT !.pc = "audit", !.entry = entry]
<1>2. frame \in CallFrame /\ frame.pc = "audit"
  BY DEF CallFrame, CallPc, IdleCall
<1>3. CallBecomes(c, frame)
  BY <1>2 DEF Done, CallBecomes
<1> QED BY <1>3

LEMMA CallsStep ==
    ASSUME AdminTypeOK, [AdminNext]_adminVars
    PROVE  /\ begun' \in Nat
           /\ call' = call \/ \E c \in Call : \E frame : CallBecomes(c, frame)
<1> USE DEF Action, Target
<1>i. IdleCall \in CallFrame /\ IdleCall.entry = Nil /\ IdleCall.pc = "idle"
  BY DEF IdleCall, CallFrame, CallPc
<1>1. CASE UNCHANGED adminVars
  BY <1>1 DEF adminVars, AdminTypeOK
<1>2. ASSUME NEW c \in Call, CallStep(c)
      PROVE  begun' \in Nat /\ (call' = call \/ \E d \in Call : \E frame : CallBecomes(d, frame))
  <2>2. ASSUME NEW t \in Tenant, adminCreateTenant(c, t) PROVE \E frame : CallBecomes(c, frame)
    BY <2>2, EntryTyped, DoneFrame DEF adminCreateTenant
  <2>3. ASSUME NEW t \in Tenant, adminCreateUser(c, t) PROVE \E frame : CallBecomes(c, frame)
    <3> DEFINE frame == [IdleCall EXCEPT !.pc = "insertUser", !.tenant = t]
    <3>1. frame \in CallFrame /\ frame.pc = "insertUser" /\ frame.entry = Nil
      BY DEF IdleCall, CallFrame, CallPc
    <3>2. CallBecomes(c, frame)
      BY <2>3, <3>1 DEF adminCreateUser, CallBecomes
    <3> QED BY <3>2
  <2>4. ASSUME NEW t \in Tenant, NEW u \in User, adminIssueAPIKey(c, t, u)
        PROVE  \E frame : CallBecomes(c, frame)
    <3> DEFINE frame == [IdleCall EXCEPT !.pc = "insertKey", !.tenant = t, !.user = u]
    <3>1. /\ frame \in CallFrame /\ frame.pc = "insertKey" /\ frame.entry = Nil
          /\ frame.user = u /\ frame.tenant = t
      BY DEF IdleCall, CallFrame, CallPc
    <3>2. users[u].tenant = t
      BY <2>4 DEF adminIssueAPIKey, GetUser
    <3>3. CallBecomes(c, frame)
      BY <2>4, <3>1, <3>2 DEF adminIssueAPIKey, CallBecomes
    <3> QED BY <3>3
  <2>5. ASSUME NEW t \in Tenant, NEW x \in Customer, adminSetStripeCustomer(c, t, x)
        PROVE  \E frame : CallBecomes(c, frame)
    BY <2>5, EntryTyped, DoneFrame DEF adminSetStripeCustomer
  <2>6. ASSUME NEW t \in Tenant, NEW x \in Cap, adminSetCap(c, t, x) PROVE \E frame : CallBecomes(c, frame)
    BY <2>6, EntryTyped, DoneFrame DEF adminSetCap
  <2>7. ASSUME NEW t \in Tenant, NEW x \in Org, adminSetClerkOrg(c, t, x) PROVE \E frame : CallBecomes(c, frame)
    BY <2>7, EntryTyped, DoneFrame DEF adminSetClerkOrg
  <2>8. ASSUME NEW t \in Tenant, NEW u \in User, NEW x \in Subject, adminSetClerkUser(c, t, u, x)
        PROVE  \E frame : CallBecomes(c, frame)
    BY <2>8, EntryTyped, DoneFrame DEF adminSetClerkUser
  <2>9. ASSUME NEW u \in User, InsertUser(c, u) PROVE \E frame : CallBecomes(c, frame)
    <3>1. call[c].tenant \in Tenant
      BY <2>9 DEF InsertUser, CreateUser, GetTenant
    <3> QED BY <2>9, <3>1, EntryTyped, DoneFrame DEF InsertUser
  <2>10. ASSUME NEW k \in ApiKey, InsertKey(c, k) PROVE \E frame : CallBecomes(c, frame)
    <3>1. call[c].tenant \in Tenant
      BY <2>10 DEF InsertKey, IssueAPIKey, GetTenant
    <3> QED BY <2>10, <3>1, EntryTyped, DoneFrame DEF InsertKey
  <2>11. ASSUME recordAdminAudit(c) \/ AuditIsLost(c) PROVE \E frame : CallBecomes(c, frame)
    <3>1. CallBecomes(c, IdleCall)
      BY <1>i, <2>11 DEF recordAdminAudit, AuditIsLost, CallBecomes
    <3> QED BY <3>1
  <2>12. CASE \E t \in Tenant :
                 \/ adminCreateTenant(c, t) \/ adminCreateUser(c, t)
                 \/ \E x \in Customer : adminSetStripeCustomer(c, t, x)
                 \/ \E cents \in Cap : adminSetCap(c, t, cents)
                 \/ \E o \in Org : adminSetClerkOrg(c, t, o)
                 \/ \E u \in User : adminIssueAPIKey(c, t, u)
                 \/ \E u \in User, x \in Subject : adminSetClerkUser(c, t, u, x)
    <3>1. PICK t \in Tenant :
                 \/ adminCreateTenant(c, t) \/ adminCreateUser(c, t)
                 \/ \E x \in Customer : adminSetStripeCustomer(c, t, x)
                 \/ \E cents \in Cap : adminSetCap(c, t, cents)
                 \/ \E o \in Org : adminSetClerkOrg(c, t, o)
                 \/ \E u \in User : adminIssueAPIKey(c, t, u)
                 \/ \E u \in User, x \in Subject : adminSetClerkUser(c, t, u, x)
      BY <2>12
    <3>2. begun' = begun + 1
      BY <3>1 DEF Begin, adminCreateTenant, adminCreateUser, adminSetStripeCustomer, adminSetCap,
                  adminSetClerkOrg, adminSetClerkUser, adminIssueAPIKey
    <3>3. \E frame : CallBecomes(c, frame)
      BY <3>1, <2>2, <2>3, <2>4, <2>5, <2>6, <2>7, <2>8
    <3> QED BY <3>2, <3>3 DEF AdminTypeOK
  <2>13. CASE \/ \E u \in User : InsertUser(c, u)
              \/ \E k \in ApiKey : InsertKey(c, k)
              \/ recordAdminAudit(c) \/ AuditIsLost(c)
    <3>1. begun' = begun
      BY <2>13 DEF InsertUser, InsertKey, recordAdminAudit, AuditIsLost
    <3>2. \E frame : CallBecomes(c, frame)
      BY <2>13, <2>9, <2>10, <2>11
    <3> QED BY <3>1, <3>2 DEF AdminTypeOK
  <2> QED BY <1>2, <2>12, <2>13 DEF CallStep
<1>3. CASE (\E r \in Request : RequestStep(r)) \/ StartListing \/ adminListTenants
           \/ \E k \in ApiKey : Revoke(k)
  <2>1. call' = call /\ begun' = begun
    BY <1>3 DEF RequestStep, BearKey, BearSession, ResolveKey, ResolveOrg, ResolveSubject, Answer,
                Serve, StartListing, adminListTenants, Revoke
  <2> QED BY <2>1 DEF AdminTypeOK
<1> QED BY <1>1, <1>2, <1>3 DEF AdminNext

LEMMA CallsKept ==
    ASSUME AdminTypeOK, CallInv, [AdminNext]_adminVars
    PROVE  CallInv' /\ call' \in [Call -> CallFrame] /\ begun' \in Nat
<1>1. TablesGrow
  BY StepIsTableStep, TablesStep DEF AdminTypeOK, TablesOK
<1>2. 0 \notin Tenant
  BY IdentityAssumption
<1>3. ASSUME NEW c \in Call, NEW f, CallBecomes(c, f) PROVE CallInv' /\ call' \in [Call -> CallFrame]
  <2>1. call' \in [Call -> CallFrame] /\ call'[c] = f /\ \A d \in Call \ {c} : call'[d] = call[d]
    BY <1>3 DEF CallBecomes, AdminTypeOK
  <2>2. f.pc = "insertKey" => users'[f.user].tenant = f.tenant
    BY <1>1, <1>2, <1>3 DEF CallBecomes, TablesGrow
  <2>3. \A d \in Call \ {c} : call[d].pc = "insertKey" => users'[call[d].user].tenant = call[d].tenant
    BY <1>1, <1>2 DEF CallInv, TablesGrow
  <2>4. CallInv'
    BY <1>3, <2>1, <2>2, <2>3 DEF CallBecomes, CallInv
  <2> QED BY <2>1, <2>4
<1>4. CASE call' = call
  <2>1. \A d \in Call : call[d].pc = "insertKey" => users'[call[d].user].tenant = call[d].tenant
    BY <1>1, <1>2 DEF CallInv, TablesGrow
  <2> QED BY <1>4, <2>1, CallsStep DEF CallInv, AdminTypeOK
<1> QED BY <1>3, <1>4, CallsStep

----------------------------------------------------------------------------
(* The requests *)

\* The frame a request goes on with.
RequestBecomes(r, frame) ==
    /\ request' = [request EXCEPT ![r] = frame]
    /\ UNCHANGED apiKeys
    /\ frame \in RequestFrame
    /\ frame.pc = "key" => frame.key \in ApiKey
    /\ frame.late => frame.pc = "key" /\ apiKeys[frame.key].revoked

LEMMA RequestsStep ==
    ASSUME AdminTypeOK, RequestInv, NEW r \in Request, RequestStep(r)
    PROVE  \E frame : RequestBecomes(r, frame)
<1> DEFINE f == request[r]
<1>f. /\ f \in RequestFrame
      /\ f.pc = "key" => f.key \in ApiKey
      /\ f.late => f.pc = "key" /\ apiKeys[f.key].revoked
  BY DEF RequestInv, AdminTypeOK
<1>i. IdleRequest \in RequestFrame /\ IdleRequest.pc = "idle" /\ ~IdleRequest.late
  BY DEF IdleRequest, RequestFrame
<1>0. ASSUME Serve(r, IdleRequest) PROVE \E frame : RequestBecomes(r, frame)
  <2>1. RequestBecomes(r, IdleRequest)
    BY <1>0, <1>i DEF Serve, RequestBecomes, identityVars
  <2> QED BY <2>1
<1>1. ASSUME NEW k \in ApiKey, BearKey(r, k) PROVE \E frame : RequestBecomes(r, frame)
  <2> DEFINE g == [IdleRequest EXCEPT !.pc = "key", !.key = k, !.late = apiKeys[k].revoked]
  <2>1. apiKeys[k].revoked \in BOOLEAN
    BY DEF AdminTypeOK, KeyRow
  <2>2. g \in RequestFrame
    BY <2>1 DEF IdleRequest, RequestFrame
  <2>3. g.pc = "key" /\ g.key = k /\ g.late = apiKeys[k].revoked
    BY DEF IdleRequest
  <2>4. RequestBecomes(r, g)
    BY <1>1, <2>2, <2>3 DEF BearKey, Serve, RequestBecomes, identityVars
  <2> QED BY <2>4
<1>2. ASSUME NEW o \in Org, NEW s \in Subject, BearSession(r, o, s)
      PROVE  \E frame : RequestBecomes(r, frame)
  <2> DEFINE g == [IdleRequest EXCEPT !.pc = "org", !.org = o, !.subject = s]
  <2>1. g \in RequestFrame /\ g.pc = "org" /\ ~g.late
    BY DEF IdleRequest, RequestFrame
  <2>2. RequestBecomes(r, g)
    BY <1>2, <2>1 DEF BearSession, Serve, RequestBecomes, identityVars
  <2> QED BY <2>2
<1>3. ASSUME ResolveKey(r) PROVE \E frame : RequestBecomes(r, frame)
  <2>1. f.pc = "key" /\ f.key \in ApiKey /\ apiKeys[f.key] \in KeyRow
    BY <1>3, <1>f DEF ResolveKey, AdminTypeOK
  <2>2. CASE ~KeyIsGood(f.key)
    BY <1>0, <1>3, <2>2 DEF ResolveKey
  <2>3. CASE KeyIsGood(f.key)
    <3> DEFINE g == [f EXCEPT !.pc = "admitted", !.tenant = apiKeys[f.key].tenant, !.user = apiKeys[f.key].user]
    <3>1. ~f.late
      BY <1>f, <2>3 DEF KeyIsGood
    <3>2. apiKeys[f.key].tenant \in Tenant \cup {0} /\ apiKeys[f.key].user \in User \cup {Nil}
      BY <2>1 DEF KeyRow
    <3>3. g \in RequestFrame /\ g.pc = "admitted" /\ ~g.late
      BY <1>f, <3>1, <3>2 DEF RequestFrame
    <3>4. RequestBecomes(r, g)
      BY <1>3, <2>3, <3>3 DEF ResolveKey, Serve, RequestBecomes, identityVars
    <3> QED BY <3>4
  <2> QED BY <2>2, <2>3
<1>4. ASSUME ResolveOrg(r) PROVE \E frame : RequestBecomes(r, frame)
  <2> DEFINE t == LookupByClerkOrgID(f.org)
             g == [f EXCEPT !.pc = "subject", !.tenant = t]
  <2>1. t \in Tenant \cup {0}
    BY DEF LookupByClerkOrgID
  <2> HIDE DEF t
  <2>2. g \in RequestFrame /\ g.pc = "subject" /\ g.late = f.late
    BY <1>f, <2>1 DEF RequestFrame
  <2>3. f.pc = "org" /\ (t # 0 => Serve(r, g)) /\ (t = 0 => Serve(r, IdleRequest))
    BY <1>4 DEF ResolveOrg, t
  <2>4. CASE t = 0
    BY <1>0, <2>3, <2>4
  <2>5. CASE t # 0
    <3>1. RequestBecomes(r, g)
      BY <1>f, <2>2, <2>3, <2>5 DEF Serve, RequestBecomes, identityVars
    <3> QED BY <3>1
  <2> QED BY <2>4, <2>5
<1>5. ASSUME ResolveSubject(r) PROVE \E frame : RequestBecomes(r, frame)
  <2> DEFINE u == LookupUserByClerkUserID(f.subject)
             g == [f EXCEPT !.pc = "admitted", !.user = u]
  <2>1. u \in User \cup {Nil}
    BY DEF LookupUserByClerkUserID
  <2> HIDE DEF u
  <2>2. g \in RequestFrame /\ g.pc = "admitted" /\ g.late = f.late
    BY <1>f, <2>1 DEF RequestFrame
  <2>3. f.pc = "subject" /\ (u # Nil => Serve(r, g)) /\ (u = Nil => Serve(r, IdleRequest))
    BY <1>5 DEF ResolveSubject, u
  <2>4. CASE u = Nil
    BY <1>0, <2>3, <2>4
  <2>5. CASE u # Nil
    <3>1. RequestBecomes(r, g)
      BY <1>f, <2>2, <2>3, <2>5 DEF Serve, RequestBecomes, identityVars
    <3> QED BY <3>1
  <2> QED BY <2>4, <2>5
<1>6. ASSUME Answer(r) PROVE \E frame : RequestBecomes(r, frame)
  BY <1>0, <1>6 DEF Answer
<1> QED BY <1>1, <1>2, <1>3, <1>4, <1>5, <1>6 DEF RequestStep

LEMMA RequestsKept ==
    ASSUME AdminTypeOK, CallInv, KeyInv, RequestInv, [AdminNext]_adminVars
    PROVE  RequestInv' /\ request' \in [Request -> RequestFrame]
<1>1. ASSUME NEW k \in ApiKey, apiKeys[k].revoked PROVE apiKeys'[k].revoked
  BY <1>1, StepIsTableStep, TablesStep DEF AdminTypeOK, TablesOK, TablesGrow, KeyInv
<1>2. CASE request' = request
  BY <1>1, <1>2 DEF RequestInv, AdminTypeOK
<1>3. ASSUME NEW r \in Request, RequestStep(r) PROVE RequestInv' /\ request' \in [Request -> RequestFrame]
  <2>1. PICK f : RequestBecomes(r, f)
    BY <1>3, RequestsStep
  <2>2. request' \in [Request -> RequestFrame] /\ request'[r] = f
        /\ \A q \in Request \ {r} : request'[q] = request[q]
    BY <2>1 DEF RequestBecomes, AdminTypeOK
  <2> QED BY <2>1, <2>2 DEF RequestBecomes, RequestInv
<1>4. ASSUME NEW c \in Call, CallStep(c) PROVE request' = request
  BY <1>4 DEF CallStep, adminCreateTenant, adminCreateUser, adminSetStripeCustomer, adminSetCap,
              adminSetClerkOrg, adminSetClerkUser, adminIssueAPIKey, InsertUser, InsertKey, Done,
              recordAdminAudit, AuditIsLost
<1>5. CASE UNCHANGED adminVars \/ StartListing \/ adminListTenants \/ \E k \in ApiKey : Revoke(k)
  BY <1>2, <1>5 DEF adminVars, StartListing, adminListTenants, Revoke
<1> QED BY <1>2, <1>3, <1>4, <1>5 DEF AdminNext

----------------------------------------------------------------------------
(* The listing *)

ListingType ==
    listing \in [pc: {"idle", "reading", "done"}, cursor: Tenant \cup {0},
                 existed: SUBSET Tenant, shown: [Tenant -> Nat]]

LEMMA ShownOnce ==
    ASSUME AdminTypeOK, ListingInv, listing.pc = "reading", NEW page \in SUBSET After(listing.cursor)
    PROVE  /\ Shown(page) \in [Tenant -> Nat]
           /\ \A t \in Tenant : Shown(page)[t] <= 1
           /\ \A t \in page : Shown(page)[t] = 1
           /\ \A t \in Tenant \ page : Shown(page)[t] = listing.shown[t]
<1>1. listing.shown \in [Tenant -> Nat] /\ \A t \in page : listing.shown[t] = 0 /\ t \in Tenant
  BY DEF AdminTypeOK, ListingInv, After
<1> QED BY <1>1 DEF Shown, ListingInv

LEMMA ListingPage ==
    ASSUME AdminTypeOK, ListingInv, adminListTenants
    PROVE  ListingType' /\ ListingInv'
<1> DEFINE rest == After(listing.cursor)
<1>t. /\ listing.pc = "reading" /\ listing.cursor \in Tenant \cup {0}
      /\ listing.existed \subseteq Tenant /\ tenants' = tenants
      /\ \A t \in Tenant \cup {0} : t \in Int
      /\ listing \in [pc: {"idle", "reading", "done"}, cursor: Tenant \cup {0},
                      existed: SUBSET Tenant, shown: [Tenant -> Nat]]
  <2>1. listing \in [pc: {"idle", "reading", "done"}, cursor: Tenant \cup {0},
                      existed: SUBSET Tenant, shown: [Tenant -> Nat]]
    BY DEF AdminTypeOK
  <2>2. listing.pc = "reading" /\ tenants' = tenants
    BY DEF adminListTenants, identityVars
  <2>3. \A t \in Tenant \cup {0} : t \in Int
    BY IdentityAssumption
  <2> QED BY <2>1, <2>2, <2>3
<1>1. PICK page \in SUBSET rest :
        /\ IsPage(page, rest)
        /\ \/ /\ page = rest
              /\ listing' = [listing EXCEPT !.pc = "done", !.shown = Shown(page)]
           \/ \E last \in rest :
                /\ IsNextCursor(last, page, rest)
                /\ listing' = [listing EXCEPT !.cursor = last, !.shown = Shown(page)]
  BY DEF adminListTenants
<1> DEFINE shown == Shown(page)
<1>2. /\ shown \in [Tenant -> Nat]
      /\ \A t \in Tenant : shown[t] <= 1
      /\ \A t \in page : shown[t] = 1
      /\ \A t \in Tenant \ page : shown[t] = listing.shown[t]
  BY <1>t, ShownOnce
<1>3. \A t \in listing.existed : t \in rest \/ (t <= listing.cursor /\ t \notin rest /\ listing.shown[t] = 1)
  BY <1>t DEF ListingInv, After
<1> HIDE DEF shown
<1>4. ASSUME page = rest, listing' = [listing EXCEPT !.pc = "done", !.shown = shown]
      PROVE  ListingType' /\ ListingInv'
  <2>1. ListingType'
    BY <1>t, <1>2, <1>4 DEF ListingType
  <2>2. listing'.pc = "done" /\ listing'.shown = shown /\ listing'.existed = listing.existed
    BY <1>t, <1>4
  <2>3. \A t \in listing.existed : shown[t] = 1
    BY <1>t, <1>2, <1>3, <1>4
  <2> QED BY <1>t, <1>2, <2>1, <2>2, <2>3 DEF ListingInv
<1>5. ASSUME NEW last \in rest, IsNextCursor(last, page, rest),
             listing' = [listing EXCEPT !.cursor = last, !.shown = shown]
      PROVE  ListingType' /\ ListingInv'
  <2>0. last \in Tenant /\ last > listing.cursor
    BY DEF After
  <2>1. ListingType'
    BY <1>t, <1>2, <1>5, <2>0 DEF ListingType
  <2>2. listing'.pc = "reading" /\ listing'.shown = shown /\ listing'.existed = listing.existed
        /\ listing'.cursor = last
    BY <1>t, <1>5
  <2>3. last \in page /\ \A s \in page : s <= last
    BY <1>5 DEF IsNextCursor
  <2>4. ASSUME NEW t \in Tenant, t > last PROVE shown[t] = 0
    <3>1. t \notin page /\ t > listing.cursor
      BY <1>t, <2>0, <2>3, <2>4
    <3>2. listing.shown[t] = 0
      BY <1>t, <3>1 DEF ListingInv
    <3> QED BY <1>2, <3>1, <3>2
  <2>5. ASSUME NEW t \in listing.existed, t <= last PROVE shown[t] = 1
    <3>1. CASE t \in rest
      <4>1. t \in page
        <5>1. last \in page /\ t \in Int /\ last \in Int
          BY <1>t, <2>0, <2>3
        <5>2. t \in rest \ page => last < t
          BY <1>1, <5>1 DEF IsPage
        <5> QED BY <2>5, <3>1, <5>1, <5>2
      <4> QED BY <1>2, <4>1
    <3>2. CASE t \notin rest
      <4>1. t \in Tenant \ page /\ listing.shown[t] = 1
        BY <1>1, <1>3, <1>t, <3>2
      <4> QED BY <1>2, <4>1
    <3> QED BY <3>1, <3>2
  <2> QED BY <1>t, <1>2, <2>1, <2>2, <2>4, <2>5 DEF ListingInv
<1> QED BY <1>1, <1>4, <1>5 DEF shown

LEMMA ListingKept ==
    ASSUME AdminTypeOK, CallInv, ListingInv, [AdminNext]_adminVars
    PROVE  ListingType' /\ ListingInv'
<1>1. ASSUME NEW t \in Tenant, tenants[t].made PROVE tenants'[t].made
  BY <1>1, StepIsTableStep, TablesStep DEF AdminTypeOK, TablesOK, TablesGrow
<1>2. CASE listing' = listing
  <2>1. \A t \in listing.existed : tenants'[t].made
    BY <1>1 DEF ListingInv, AdminTypeOK
  <2> QED BY <1>2, <2>1 DEF ListingInv, ListingType, AdminTypeOK
<1>3. CASE StartListing
  <2> DEFINE l == [NotListing EXCEPT !.pc = "reading", !.existed = {t \in Tenant : tenants[t].made}]
  <2>1. listing' = l /\ tenants' = tenants
    BY <1>3 DEF StartListing, identityVars
  <2>2. l.pc = "reading" /\ l.cursor = 0 /\ l.existed = {t \in Tenant : tenants[t].made}
        /\ l.shown = [t \in Tenant |-> 0]
    BY DEF NotListing
  <2>3. l \in [pc: {"idle", "reading", "done"}, cursor: Tenant \cup {0},
               existed: SUBSET Tenant, shown: [Tenant -> Nat]]
    BY DEF NotListing
  <2> HIDE DEF l
  <2>4. \A t \in Tenant : ~(t <= 0)
    BY IdentityAssumption
  <2>5. ListingInv'
    BY <2>1, <2>2, <2>4 DEF ListingInv
  <2> QED BY <2>1, <2>3, <2>5 DEF ListingType
<1>4. CASE adminListTenants
  BY <1>4, ListingPage
<1>5. ASSUME NEW c \in Call, CallStep(c) PROVE listing' = listing
  BY <1>5 DEF CallStep, adminCreateTenant, adminCreateUser, adminSetStripeCustomer, adminSetCap,
              adminSetClerkOrg, adminSetClerkUser, adminIssueAPIKey, InsertUser, InsertKey, Done,
              recordAdminAudit, AuditIsLost
<1>6. ASSUME NEW r \in Request, RequestStep(r) PROVE listing' = listing
  BY <1>6 DEF RequestStep, BearKey, BearSession, ResolveKey, ResolveOrg, ResolveSubject, Answer, Serve
<1>7. CASE UNCHANGED adminVars \/ \E k \in ApiKey : Revoke(k)
  BY <1>2, <1>7 DEF adminVars, Revoke
<1> QED BY <1>2, <1>3, <1>4, <1>5, <1>6, <1>7 DEF AdminNext

----------------------------------------------------------------------------
(* The theorems *)

LEMMA AdminStart == AdminInit => AdminInv
<1> SUFFICES ASSUME AdminInit PROVE AdminInv
  OBVIOUS
<1>1. tenants \in [Tenant -> TenantRow] /\ users \in [User -> UserRow] /\ apiKeys \in [ApiKey -> KeyRow]
  BY IdentityAssumption
     DEF AdminInit, IdentityInit, NoTenant, NoUser, NoKey, TenantRow, UserRow, KeyRow
<1>2. call \in [Call -> CallFrame] /\ CallInv
  BY DEF AdminInit, AdminIdle, IdleCall, CallFrame, CallPc, CallInv
<1>3. request \in [Request -> RequestFrame] /\ RequestInv
  BY DEF AdminInit, AdminIdle, IdleRequest, RequestFrame, RequestInv
<1>4. ListingType /\ ListingInv
  BY DEF AdminInit, AdminIdle, NotListing, ListingType, ListingInv
<1>5. KeyInv /\ KeyIsOwned
  BY DEF AdminInit, IdentityInit, NoKey, KeyInv, KeyIsOwned, LookupAPIKey
<1>6. begun \in Nat
  BY DEF AdminInit, AdminIdle
<1> QED BY <1>1, <1>2, <1>3, <1>4, <1>5, <1>6 DEF AdminInv, AdminTypeOK, ListingType

LEMMA AdminInvariant == AdminSpec => []AdminInv
<1>1. ASSUME AdminInv, [AdminNext]_adminVars PROVE AdminInv'
  <2>1. TablesOK' /\ KeyIsOwned' /\ KeyInv'
    BY <1>1, StepIsTableStep, TablesStep, OwnersStep DEF AdminInv, AdminTypeOK, TablesOK
  <2>2. CallInv' /\ call' \in [Call -> CallFrame] /\ begun' \in Nat
    BY <1>1, CallsKept DEF AdminInv
  <2>3. RequestInv' /\ request' \in [Request -> RequestFrame]
    BY <1>1, RequestsKept DEF AdminInv
  <2>4. ListingInv' /\ ListingType'
    BY <1>1, ListingKept DEF AdminInv
  <2> QED BY <2>1, <2>2, <2>3, <2>4 DEF AdminInv, AdminTypeOK, TablesOK, ListingType
<1> QED BY <1>1, AdminStart, PTL DEF AdminSpec

\* The tables of the identity store, the frames of the handlers and the listing
\* keep their types (identity.go, admin.go, auth.go).
THEOREM AdminTypeCorrect == AdminSpec => []AdminTypeOK
<1>1. AdminInv => AdminTypeOK
  BY DEF AdminInv
<1> QED BY <1>1, AdminInvariant, PTL

\* Whatever runs between its lookup and its INSERT, adminIssueAPIKey gives a key
\* to a user of the path's tenant, and it stays so.
THEOREM KeysAreOwned == AdminSpec => []KeyIsOwned
<1>1. AdminInv => KeyIsOwned
  BY DEF AdminInv
<1> QED BY <1>1, AdminInvariant, PTL

\* MiddlewareWithClerk admits no request begun after its key was revoked.
THEOREM RevokedKeysAreRefused == AdminSpec => []RevokedIsRefused
<1>1. AdminInv => RevokedIsRefused
  BY DEF AdminInv, RequestInv, RevokedIsRefused
<1> QED BY <1>1, AdminInvariant, PTL

\* adminListTenants, followed to its last page, has shown every tenant there was
\* when it began, and none twice, for every page limit and any interleaving with
\* the creation of tenants.
THEOREM ListingsAreComplete == AdminSpec => []ListingIsComplete
<1>1. AdminInv => ListingIsComplete
  BY DEF AdminInv, ListingInv, ListingIsComplete
<1> QED BY <1>1, AdminInvariant, PTL

----------------------------------------------------------------------------
(* The audit log *)

\* The rows of Current, table by table.
TenantSays(T, e) ==
    \E t \in Tenant :
        \/ T[t].made /\ e = Entry("tenant", t, t)
        \/ T[t].customer # Nil /\ e = Entry("customer", t, T[t].customer)
        \/ T[t].cap # 0 /\ e = Entry("cap", t, T[t].cap)
        \/ T[t].org # Nil /\ e = Entry("org", t, T[t].org)

UserSays(U, e) ==
    \E u \in User :
        \/ U[u].tenant # 0 /\ e = Entry("user", U[u].tenant, u)
        \/ U[u].subject # Nil /\ e = Entry("subject", U[u].tenant, U[u].subject)

KeySays(K, e) == \E k \in ApiKey : K[k].user # Nil /\ e = Entry("key", K[k].tenant, k)

LEMMA CurrentNow ==
    ASSUME NEW e
    PROVE  e \in Current <=> TenantSays(tenants, e) \/ UserSays(users, e) \/ KeySays(apiKeys, e)
<1> DEFINE Made == {Entry("tenant", t, t) : t \in {x \in Tenant : tenants[x].made}}
           Paying == {Entry("customer", t, tenants[t].customer) : t \in {x \in Tenant : tenants[x].customer # Nil}}
           Capped == {Entry("cap", t, tenants[t].cap) : t \in {x \in Tenant : tenants[x].cap # 0}}
           Bound == {Entry("org", t, tenants[t].org) : t \in {x \in Tenant : tenants[x].org # Nil}}
           Joined == {Entry("user", users[u].tenant, u) : u \in {x \in User : users[x].tenant # 0}}
           Named == {Entry("subject", users[u].tenant, users[u].subject) : u \in {x \in User : users[x].subject # Nil}}
           Issued == {Entry("key", apiKeys[k].tenant, k) : k \in {x \in ApiKey : apiKeys[x].user # Nil}}
<1>1. Current = Made \cup Paying \cup Capped \cup Bound \cup Joined \cup Named \cup Issued
  BY DEF Current, LookupAPIKey
<1>2. e \in Made \cup Paying \cup Capped \cup Bound <=> TenantSays(tenants, e)
  <2>1. e \in Made <=> \E t \in Tenant : tenants[t].made /\ e = Entry("tenant", t, t)
    OBVIOUS
  <2>2. e \in Paying <=> \E t \in Tenant : tenants[t].customer # Nil /\ e = Entry("customer", t, tenants[t].customer)
    OBVIOUS
  <2>3. e \in Capped <=> \E t \in Tenant : tenants[t].cap # 0 /\ e = Entry("cap", t, tenants[t].cap)
    OBVIOUS
  <2>4. e \in Bound <=> \E t \in Tenant : tenants[t].org # Nil /\ e = Entry("org", t, tenants[t].org)
    OBVIOUS
  <2> HIDE DEF Made, Paying, Capped, Bound
  <2> QED BY <2>1, <2>2, <2>3, <2>4 DEF TenantSays
<1>3. e \in Joined \cup Named <=> UserSays(users, e)
  <2>1. e \in Joined <=> \E u \in User : users[u].tenant # 0 /\ e = Entry("user", users[u].tenant, u)
    OBVIOUS
  <2>2. e \in Named <=> \E u \in User : users[u].subject # Nil /\ e = Entry("subject", users[u].tenant, users[u].subject)
    OBVIOUS
  <2> HIDE DEF Joined, Named
  <2> QED BY <2>1, <2>2 DEF UserSays
<1>4. e \in Issued <=> KeySays(apiKeys, e)
  BY DEF KeySays
<1> HIDE DEF Made, Paying, Capped, Bound, Joined, Named, Issued
<1> QED BY <1>1, <1>2, <1>3, <1>4

LEMMA CurrentNext ==
    ASSUME NEW e
    PROVE  e \in Current' <=> TenantSays(tenants', e) \/ UserSays(users', e) \/ KeySays(apiKeys', e)
<1> DEFINE Made == {Entry("tenant", t, t) : t \in {x \in Tenant : tenants'[x].made}}
           Paying == {Entry("customer", t, tenants'[t].customer) : t \in {x \in Tenant : tenants'[x].customer # Nil}}
           Capped == {Entry("cap", t, tenants'[t].cap) : t \in {x \in Tenant : tenants'[x].cap # 0}}
           Bound == {Entry("org", t, tenants'[t].org) : t \in {x \in Tenant : tenants'[x].org # Nil}}
           Joined == {Entry("user", users'[u].tenant, u) : u \in {x \in User : users'[x].tenant # 0}}
           Named == {Entry("subject", users'[u].tenant, users'[u].subject) : u \in {x \in User : users'[x].subject # Nil}}
           Issued == {Entry("key", apiKeys'[k].tenant, k) : k \in {x \in ApiKey : apiKeys'[x].user # Nil}}
<1>1. Current' = Made \cup Paying \cup Capped \cup Bound \cup Joined \cup Named \cup Issued
  BY DEF Current, LookupAPIKey
<1>2. e \in Made \cup Paying \cup Capped \cup Bound <=> TenantSays(tenants', e)
  <2>1. e \in Made <=> \E t \in Tenant : tenants'[t].made /\ e = Entry("tenant", t, t)
    OBVIOUS
  <2>2. e \in Paying <=> \E t \in Tenant : tenants'[t].customer # Nil /\ e = Entry("customer", t, tenants'[t].customer)
    OBVIOUS
  <2>3. e \in Capped <=> \E t \in Tenant : tenants'[t].cap # 0 /\ e = Entry("cap", t, tenants'[t].cap)
    OBVIOUS
  <2>4. e \in Bound <=> \E t \in Tenant : tenants'[t].org # Nil /\ e = Entry("org", t, tenants'[t].org)
    OBVIOUS
  <2> HIDE DEF Made, Paying, Capped, Bound
  <2> QED BY <2>1, <2>2, <2>3, <2>4 DEF TenantSays
<1>3. e \in Joined \cup Named <=> UserSays(users', e)
  <2>1. e \in Joined <=> \E u \in User : users'[u].tenant # 0 /\ e = Entry("user", users'[u].tenant, u)
    OBVIOUS
  <2>2. e \in Named <=> \E u \in User : users'[u].subject # Nil /\ e = Entry("subject", users'[u].tenant, users'[u].subject)
    OBVIOUS
  <2> HIDE DEF Joined, Named
  <2> QED BY <2>1, <2>2 DEF UserSays
<1>4. e \in Issued <=> KeySays(apiKeys', e)
  BY DEF KeySays
<1> HIDE DEF Made, Paying, Capped, Bound, Joined, Named, Issued
<1> QED BY <1>1, <1>2, <1>3, <1>4

\* A row that replaces another one says what it says.
LEMMA TenantRowSays ==
    ASSUME tenants \in [Tenant -> TenantRow], NEW t \in Tenant, NEW row,
           NEW e, TenantSays([tenants EXCEPT ![t] = row], e)
    PROVE  \/ TenantSays(tenants, e)
           \/ row.made /\ ~tenants[t].made /\ e = Entry("tenant", t, t)
           \/ row.customer # tenants[t].customer /\ e = Entry("customer", t, row.customer)
           \/ row.cap # tenants[t].cap /\ e = Entry("cap", t, row.cap)
           \/ row.org # tenants[t].org /\ e = Entry("org", t, row.org)
<1> DEFINE T == [tenants EXCEPT ![t] = row]
<1>1. PICK s \in Tenant :
        \/ T[s].made /\ e = Entry("tenant", s, s)
        \/ T[s].customer # Nil /\ e = Entry("customer", s, T[s].customer)
        \/ T[s].cap # 0 /\ e = Entry("cap", s, T[s].cap)
        \/ T[s].org # Nil /\ e = Entry("org", s, T[s].org)
  BY DEF TenantSays
<1>2. T[t] = row /\ (s # t => T[s] = tenants[s])
  OBVIOUS
<1> HIDE DEF T
<1>3. CASE s # t
  BY <1>1, <1>2, <1>3 DEF TenantSays
<1>4. CASE s = t
  BY <1>1, <1>2, <1>4 DEF TenantSays
<1> QED BY <1>3, <1>4

LEMMA UserRowSays ==
    ASSUME users \in [User -> UserRow], NEW u \in User, NEW row,
           NEW e, UserSays([users EXCEPT ![u] = row], e)
    PROVE  \/ UserSays(users, e)
           \/ row.tenant # users[u].tenant /\ e = Entry("user", row.tenant, u)
           \/ row.subject # Nil /\ e = Entry("subject", row.tenant, row.subject)
<1> DEFINE U == [users EXCEPT ![u] = row]
<1>1. PICK v \in User :
        \/ U[v].tenant # 0 /\ e = Entry("user", U[v].tenant, v)
        \/ U[v].subject # Nil /\ e = Entry("subject", U[v].tenant, U[v].subject)
  BY DEF UserSays
<1>2. U[u] = row /\ (v # u => U[v] = users[v])
  OBVIOUS
<1> HIDE DEF U
<1>3. CASE v # u
  BY <1>1, <1>2, <1>3 DEF UserSays
<1>4. CASE v = u
  BY <1>1, <1>2, <1>4 DEF UserSays
<1> QED BY <1>3, <1>4

\* Each change is said by the row its handler is about to append.
LEMMA ChangeIsSaid ==
    ASSUME TablesOK, \A u \in User : users[u].subject # Nil => users[u].tenant # 0,
           NEW e, e \in Current', e \notin Current, NEW t \in Tenant
    PROVE  /\ CreateTenant(t) => e = Entry("tenant", t, t)
           /\ \A x \in Customer : SetStripeCustomerID(t, x) => e = Entry("customer", t, x)
           /\ \A x \in Cap : SetMonthlyCap(t, x) => e = Entry("cap", t, x)
           /\ \A x \in Org : SetClerkOrgID(t, x) => e = Entry("org", t, x)
           /\ \A u \in User : CreateUser(t, u) => e = Entry("user", t, u)
           /\ \A u \in User, x \in Subject : SetClerkUserID(t, u, x) => e = Entry("subject", t, x)
           /\ \A u \in User, k \in ApiKey : IssueAPIKey(t, u, k) => e = Entry("key", t, k)
<1>n. /\ ~TenantSays(tenants, e) /\ ~UserSays(users, e) /\ ~KeySays(apiKeys, e)
      /\ TenantSays(tenants', e) \/ UserSays(users', e) \/ KeySays(apiKeys', e)
  BY CurrentNow, CurrentNext
<1>t. tenants[t] \in TenantRow
  BY DEF TablesOK
<1>1. ASSUME CreateTenant(t) PROVE e = Entry("tenant", t, t)
  <2> DEFINE row == [tenants[t] EXCEPT !.made = TRUE]
  <2>1. row.customer = tenants[t].customer /\ row.cap = tenants[t].cap /\ row.org = tenants[t].org
    BY <1>t DEF TenantRow
  <2>2. tenants' = [tenants EXCEPT ![t] = row] /\ users' = users /\ apiKeys' = apiKeys
    BY <1>1 DEF CreateTenant
  <2> HIDE DEF row
  <2>3. TenantSays([tenants EXCEPT ![t] = row], e)
    BY <1>n, <2>2
  <2> QED BY <1>n, <2>1, <2>3, TenantRowSays DEF TablesOK
<1>2. ASSUME NEW x \in Customer, SetStripeCustomerID(t, x) PROVE e = Entry("customer", t, x)
  <2> DEFINE row == [tenants[t] EXCEPT !.customer = x]
  <2>1. row.customer = x /\ row.made = tenants[t].made /\ row.cap = tenants[t].cap /\ row.org = tenants[t].org
    BY <1>t DEF TenantRow
  <2>2. tenants' = [tenants EXCEPT ![t] = row] /\ users' = users /\ apiKeys' = apiKeys
    BY <1>2 DEF SetStripeCustomerID
  <2> HIDE DEF row
  <2>3. TenantSays([tenants EXCEPT ![t] = row], e)
    BY <1>n, <2>2
  <2> QED BY <1>n, <2>1, <2>3, TenantRowSays DEF TablesOK
<1>3. ASSUME NEW x \in Cap, SetMonthlyCap(t, x) PROVE e = Entry("cap", t, x)
  <2> DEFINE row == [tenants[t] EXCEPT !.cap = x]
  <2>1. row.cap = x /\ row.made = tenants[t].made /\ row.customer = tenants[t].customer /\ row.org = tenants[t].org
    BY <1>t DEF TenantRow
  <2>2. tenants' = [tenants EXCEPT ![t] = row] /\ users' = users /\ apiKeys' = apiKeys
    BY <1>3 DEF SetMonthlyCap
  <2> HIDE DEF row
  <2>3. TenantSays([tenants EXCEPT ![t] = row], e)
    BY <1>n, <2>2
  <2> QED BY <1>n, <2>1, <2>3, TenantRowSays DEF TablesOK
<1>4. ASSUME NEW x \in Org, SetClerkOrgID(t, x) PROVE e = Entry("org", t, x)
  <2> DEFINE row == [tenants[t] EXCEPT !.org = x]
  <2>1. row.org = x /\ row.made = tenants[t].made /\ row.cap = tenants[t].cap /\ row.customer = tenants[t].customer
    BY <1>t DEF TenantRow
  <2>2. tenants' = [tenants EXCEPT ![t] = row] /\ users' = users /\ apiKeys' = apiKeys
    BY <1>4 DEF SetClerkOrgID
  <2> HIDE DEF row
  <2>3. TenantSays([tenants EXCEPT ![t] = row], e)
    BY <1>n, <2>2
  <2>4. \/ TenantSays(tenants, e)
        \/ row.made /\ ~tenants[t].made
        \/ row.customer # tenants[t].customer
        \/ row.cap # tenants[t].cap
        \/ e = Entry("org", t, row.org)
    BY <2>3, TenantRowSays DEF TablesOK
  <2> QED BY <1>n, <2>1, <2>4
<1>5. ASSUME NEW u \in User, CreateUser(t, u) PROVE e = Entry("user", t, u)
  <2> DEFINE row == [users[u] EXCEPT !.tenant = t]
  <2>1. users[u] \in UserRow /\ users[u].tenant = 0 /\ users[u].subject = Nil
    BY <1>5 DEF CreateUser, TablesOK
  <2>2. row.tenant = t /\ row.subject = Nil
    BY <2>1 DEF UserRow
  <2>3. users' = [users EXCEPT ![u] = row] /\ tenants' = tenants /\ apiKeys' = apiKeys
    BY <1>5 DEF CreateUser
  <2> HIDE DEF row
  <2>4. UserSays(users', e)
    BY <1>n, <2>3
  <2> QED BY <1>n, <2>1, <2>2, <2>3, <2>4, UserRowSays DEF TablesOK
<1>6. ASSUME NEW u \in User, NEW x \in Subject, SetClerkUserID(t, u, x) PROVE e = Entry("subject", t, x)
  <2> DEFINE row == [users[u] EXCEPT !.subject = x]
  <2>1. users[u] \in UserRow /\ users[u].tenant = t
    BY <1>6 DEF SetClerkUserID, GetUser, TablesOK
  <2>2. row.tenant = t /\ row.subject = x
    BY <2>1 DEF UserRow
  <2>3. users' = [users EXCEPT ![u] = row] /\ tenants' = tenants /\ apiKeys' = apiKeys
    BY <1>6 DEF SetClerkUserID
  <2> HIDE DEF row
  <2> QED BY <1>n, <2>1, <2>2, <2>3, UserRowSays DEF TablesOK
<1>7. ASSUME NEW u \in User, NEW k \in ApiKey, IssueAPIKey(t, u, k) PROVE e = Entry("key", t, k)
  <2> DEFINE row == [tenant |-> t, user |-> u, revoked |-> FALSE]
  <2>1. apiKeys' = [apiKeys EXCEPT ![k] = row] /\ tenants' = tenants /\ users' = users
    BY <1>7 DEF IssueAPIKey
  <2>2. PICK m \in ApiKey : apiKeys'[m].user # Nil /\ e = Entry("key", apiKeys'[m].tenant, m)
    BY <1>n, <2>1 DEF KeySays
  <2>3. m # k => apiKeys'[m] = apiKeys[m]
    BY <2>1 DEF TablesOK
  <2>4. m = k
    BY <1>n, <2>2, <2>3 DEF KeySays
  <2>5. apiKeys'[k].tenant = t
    BY <2>1 DEF TablesOK
  <2> QED BY <2>2, <2>4, <2>5
<1> QED BY <1>1, <1>2, <1>3, <1>4, <1>5, <1>6, <1>7

\* A subject is bound to a user that exists.
SubjectInv == \A u \in User : users[u].subject # Nil => users[u].tenant # 0

LEMMA SubjectsKept ==
    ASSUME AdminInv, SubjectInv, [AdminNext]_adminVars
    PROVE  SubjectInv'
<1>1. TableStep /\ TablesOK
  BY StepIsTableStep DEF AdminInv, AdminTypeOK, TablesOK
<1>n. 0 \notin Tenant
  BY IdentityAssumption
<1>2. CASE users' = users
  BY <1>2 DEF SubjectInv
<1>3. ASSUME NEW t \in Tenant, NEW u \in User, CreateUser(t, u) PROVE SubjectInv'
  <2>1. users' = [users EXCEPT ![u] = [users[u] EXCEPT !.tenant = t]] /\ users[u] \in UserRow
    BY <1>1, <1>3 DEF CreateUser, TablesOK
  <2>2. users'[u].tenant = t /\ \A v \in User \ {u} : users'[v] = users[v]
    BY <1>1, <2>1 DEF UserRow, TablesOK
  <2> QED BY <1>n, <2>2 DEF SubjectInv
<1>4. ASSUME NEW t \in Tenant, NEW u \in User, NEW x \in Subject, SetClerkUserID(t, u, x) PROVE SubjectInv'
  <2>1. users' = [users EXCEPT ![u] = [users[u] EXCEPT !.subject = x]] /\ users[u] \in UserRow
        /\ users[u].tenant # 0
    BY <1>1, <1>4 DEF SetClerkUserID, GetUser, TablesOK
  <2>2. users'[u].tenant = users[u].tenant /\ \A v \in User \ {u} : users'[v] = users[v]
    BY <1>1, <2>1 DEF UserRow, TablesOK
  <2> QED BY <2>1, <2>2 DEF SubjectInv
<1> QED BY <1>1, <1>2, <1>3, <1>4
        DEF TableStep, identityVars, CreateTenant, SetStripeCustomerID, SetMonthlyCap, SetClerkOrgID,
            IssueAPIKey, RevokeAPIKey

LEMMA CurrentTyped ==
    ASSUME AdminInv, SubjectInv, NEW e, e \in Current
    PROVE  e \in EntryRow
<1> USE DEF Action, Target
<1>t. TablesOK /\ KeyIsOwned
  BY DEF AdminInv, AdminTypeOK, TablesOK
<1>1. CASE TenantSays(tenants, e)
  <2>1. PICK t \in Tenant :
          \/ e = Entry("tenant", t, t)
          \/ tenants[t].customer # Nil /\ e = Entry("customer", t, tenants[t].customer)
          \/ e = Entry("cap", t, tenants[t].cap)
          \/ tenants[t].org # Nil /\ e = Entry("org", t, tenants[t].org)
    BY <1>1 DEF TenantSays
  <2>2. tenants[t].customer \in Customer \cup {Nil} /\ tenants[t].cap \in Cap /\ tenants[t].org \in Org \cup {Nil}
    BY <1>t DEF TablesOK, TenantRow
  <2> QED BY <2>1, <2>2, EntryTyped
<1>2. CASE UserSays(users, e)
  <2>1. PICK u \in User :
          \/ users[u].tenant # 0 /\ e = Entry("user", users[u].tenant, u)
          \/ users[u].subject # Nil /\ e = Entry("subject", users[u].tenant, users[u].subject)
    BY <1>2 DEF UserSays
  <2>2. users[u].tenant \in Tenant /\ users[u].subject \in Subject \cup {Nil}
    BY <1>t, <2>1 DEF TablesOK, UserRow, SubjectInv
  <2> QED BY <2>1, <2>2, EntryTyped
<1>3. CASE KeySays(apiKeys, e)
  <2>1. PICK k \in ApiKey : apiKeys[k].user # Nil /\ e = Entry("key", apiKeys[k].tenant, k)
    BY <1>3 DEF KeySays
  <2>2. apiKeys[k].tenant \in Tenant
    BY <1>t, <2>1 DEF TablesOK, KeyRow, KeyIsOwned, LookupAPIKey
  <2> QED BY <2>1, <2>2, EntryTyped
<1> QED BY <1>1, <1>2, <1>3, CurrentNow

\* The rows there are, were lost, or are about to be appended.
Held == logged \cup unlogged \cup {call[c].entry : c \in Call}

\* Rows stay, and only its append ends a call that is about to append.
LEMMA RowsStay ==
    ASSUME AdminTypeOK, [AdminNext]_adminVars
    PROVE  /\ logged \subseteq logged' /\ unlogged \subseteq unlogged'
           /\ \A c \in Call : call[c].pc = "audit" =>
                call'[c] = call[c] \/ call[c].entry \in logged' \cup unlogged'
<1>1. CASE call' = call /\ logged' = logged /\ unlogged' = unlogged
  BY <1>1
<1>2. ASSUME NEW c \in Call, recordAdminAudit(c) \/ AuditIsLost(c)
      PROVE  /\ logged \subseteq logged' /\ unlogged \subseteq unlogged'
             /\ \A d \in Call : call'[d] = call[d] \/ call[d].entry \in logged' \cup unlogged'
  BY <1>2 DEF recordAdminAudit, AuditIsLost, Appended, AdminTypeOK
<1>3. ASSUME NEW c \in Call, call[c].pc # "audit", NEW frame, call' = [call EXCEPT ![c] = frame],
             logged' = logged, unlogged' = unlogged
      PROVE  \A d \in Call : call[d].pc = "audit" => call'[d] = call[d]
  BY <1>3 DEF AdminTypeOK
<1>4. ASSUME NEW c \in Call, CallStep(c), ~recordAdminAudit(c), ~AuditIsLost(c)
      PROVE  /\ call[c].pc # "audit" /\ logged' = logged /\ unlogged' = unlogged
             /\ \E frame : call' = [call EXCEPT ![c] = frame]
  BY <1>4 DEF CallStep, adminCreateTenant, adminCreateUser, adminSetStripeCustomer, adminSetCap,
              adminSetClerkOrg, adminSetClerkUser, adminIssueAPIKey, InsertUser, InsertKey, Done, Begin
<1>5. ASSUME NEW r \in Request, RequestStep(r)
      PROVE  call' = call /\ logged' = logged /\ unlogged' = unlogged
  BY <1>5 DEF RequestStep, BearKey, BearSession, ResolveKey, ResolveOrg, ResolveSubject, Answer, Serve
<1>6. CASE UNCHANGED adminVars \/ StartListing \/ adminListTenants \/ \E k \in ApiKey : Revoke(k)
  BY <1>1, <1>6 DEF adminVars, Revoke, StartListing, adminListTenants
<1>7. CASE \E c \in Call : CallStep(c)
  <2>1. PICK c \in Call : CallStep(c)
    BY <1>7
  <2> QED BY <1>2, <1>3, <1>4, <2>1
<1> QED BY <1>1, <1>5, <1>6, <1>7 DEF AdminNext

LEMMA HeldKept ==
    ASSUME AdminTypeOK, CallInv, [AdminNext]_adminVars, NEW e \in EntryRow, e \in Held
    PROVE  e \in Held'
<1>1. CASE e \in logged \cup unlogged
  BY <1>1, RowsStay DEF Held
<1>2. ASSUME NEW c \in Call, e = call[c].entry PROVE e \in Held'
  <2>1. call[c].pc = "audit"
    BY <1>2, AdminAssumption DEF CallInv
  <2> QED BY <1>2, <2>1, RowsStay DEF Held
<1> QED BY <1>1, <1>2 DEF Held

LEMMA DoneHolds ==
    ASSUME AdminTypeOK, NEW c \in Call, NEW entry, Done(c, entry)
    PROVE  entry \in Held'
<1> DEFINE frame == [IdleCall EXCEPT !.pc = "audit", !.entry = entry]
<1>1. frame.entry = entry
  BY DEF IdleCall
<1>2. call'[c] = frame
  BY DEF Done, AdminTypeOK
<1> QED BY <1>1, <1>2 DEF Held

\* What a step puts into the tables, the call that made it holds the row of.
LEMMA ChangeIsHeld ==
    ASSUME AdminInv, SubjectInv, [AdminNext]_adminVars, NEW e, e \in Current', e \notin Current
    PROVE  e \in Held'
<1>t. TablesOK /\ AdminTypeOK
  BY DEF AdminInv, AdminTypeOK, TablesOK
<1>0. ASSUME UNCHANGED identityVars PROVE FALSE
  BY <1>0 DEF Current, identityVars, LookupAPIKey
<1>1. ASSUME NEW c \in Call, NEW t \in Tenant,
             \/ adminCreateTenant(c, t)
             \/ \E x \in Customer : adminSetStripeCustomer(c, t, x)
             \/ \E x \in Cap : adminSetCap(c, t, x)
             \/ \E x \in Org : adminSetClerkOrg(c, t, x)
             \/ \E u \in User, x \in Subject : adminSetClerkUser(c, t, u, x)
      PROVE  Done(c, e)
  BY <1>1, <1>t, ChangeIsSaid DEF SubjectInv, adminCreateTenant, adminSetStripeCustomer, adminSetCap,
                           adminSetClerkOrg, adminSetClerkUser
<1>2. ASSUME NEW c \in Call, NEW u \in User, InsertUser(c, u) PROVE Done(c, e)
  <2>1. call[c].tenant \in Tenant
    BY <1>2 DEF InsertUser, CreateUser, GetTenant
  <2> QED BY <1>2, <1>t, <2>1, ChangeIsSaid DEF SubjectInv, InsertUser
<1>3. ASSUME NEW c \in Call, NEW k \in ApiKey, InsertKey(c, k) PROVE Done(c, e)
  <2>1. call[c].tenant \in Tenant /\ call[c].user \in User
    BY <1>3 DEF InsertKey, IssueAPIKey, GetTenant, AdminInv, CallInv
  <2> QED BY <1>3, <1>t, <2>1, ChangeIsSaid DEF SubjectInv, InsertKey
<1>4. ASSUME NEW k \in ApiKey, Revoke(k) PROVE FALSE
  <2>1. /\ tenants' = tenants /\ users' = users
        /\ apiKeys' = [apiKeys EXCEPT ![k] = [apiKeys[k] EXCEPT !.revoked = TRUE]]
        /\ apiKeys[k] \in KeyRow
    BY <1>4, <1>t DEF Revoke, RevokeAPIKey, TablesOK
  <2>2. \A m \in ApiKey : apiKeys'[m].user = apiKeys[m].user /\ apiKeys'[m].tenant = apiKeys[m].tenant
    BY <1>t, <2>1 DEF KeyRow, TablesOK
  <2>3. KeySays(apiKeys', e) <=> KeySays(apiKeys, e)
    BY <2>2 DEF KeySays
  <2> QED BY <2>1, <2>3, CurrentNow, CurrentNext
<1>5. ASSUME NEW r \in Request, RequestStep(r) PROVE FALSE
  BY <1>0, <1>5 DEF RequestStep, BearKey, BearSession, ResolveKey, ResolveOrg, ResolveSubject, Answer, Serve
<1>6. ASSUME UNCHANGED adminVars \/ StartListing \/ adminListTenants PROVE FALSE
  BY <1>0, <1>6 DEF adminVars, identityVars, StartListing, adminListTenants
<1>7. ASSUME NEW c \in Call, CallStep(c) PROVE Done(c, e)
  <2>1. ASSUME NEW t \in Tenant, adminCreateUser(c, t) \/ \E u \in User : adminIssueAPIKey(c, t, u)
        PROVE  FALSE
    BY <1>0, <2>1 DEF adminCreateUser, adminIssueAPIKey
  <2>2. ASSUME recordAdminAudit(c) \/ AuditIsLost(c) PROVE FALSE
    BY <1>0, <2>2 DEF recordAdminAudit, AuditIsLost
  <2> QED BY <1>1, <1>2, <1>3, <1>7, <2>1, <2>2 DEF CallStep
<1> QED BY <1>4, <1>5, <1>6, <1>7, <1>t, DoneHolds DEF AdminNext

\* admin.go:6, for every number of calls, tenants and keys: each value the tables
\* hold is named by an audit row, by one that was lost, or by one about to be
\* appended.
THEOREM CurrentAudited == AdminSpec => []CurrentIsAudited
<1> DEFINE Inv == AdminInv /\ SubjectInv /\ Current \subseteq Held
<1>1. AdminInit => Inv
  <2> SUFFICES ASSUME AdminInit PROVE Inv
    OBVIOUS
  <2>1. SubjectInv
    BY DEF SubjectInv, AdminInit, IdentityInit, NoUser
  <2>2. ASSUME NEW e, e \in Current PROVE FALSE
    BY <2>2, CurrentNow
       DEF TenantSays, UserSays, KeySays, AdminInit, IdentityInit, NoTenant, NoUser, NoKey
  <2> QED BY <2>1, <2>2, AdminStart
<1>2. ASSUME Inv, [AdminNext]_adminVars PROVE (SubjectInv /\ Current \subseteq Held)'
  <2>1. SubjectInv'
    BY <1>2, SubjectsKept
  <2>2. ASSUME NEW e, e \in Current' PROVE e \in Held'
    <3>1. CASE e \in Current
      BY <1>2, <3>1, CurrentTyped, HeldKept DEF AdminInv
    <3>2. CASE e \notin Current
      BY <1>2, <2>2, <3>2, ChangeIsHeld
    <3> QED BY <3>1, <3>2
  <2> QED BY <2>1, <2>2
<1>3. Inv => CurrentIsAudited
  BY DEF Held, CurrentIsAudited
<1> QED BY <1>1, <1>2, <1>3, AdminInvariant, PTL DEF AdminSpec
=============================================================================
