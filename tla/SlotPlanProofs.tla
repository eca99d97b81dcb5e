---------------------------- MODULE SlotPlanProofs ----------------------------
(***************************************************************************)
(* Whatever minutes are taken, assign_slot finds a free one as long as     *)
(* there is one, and redistribute_slots gives every customer a minute of   *)
(* its own: so only a request that the plan has overtaken can put two      *)
(* customers into one minute.                                              *)
(***************************************************************************)
EXTENDS SlotPlan, FiniteSetTheorems, WellFoundedInduction, TLAPS

-------------------------------------------------------------------------------
(* Least and greatest numbers *)

LEMMA LeastExists ==
    ASSUME NEW T, T \subseteq Nat, T # {}
    PROVE  \E x \in T : \A y \in T : x <= y
<1> DEFINE F == {0..x : x \in T}
<1>1. F \subseteq FiniteSubsetsOf(Nat)
  <2>1. ASSUME NEW x \in T PROVE IsFiniteSet(0..x) /\ 0..x \subseteq Nat
    BY FS_Interval
  <2>2. QED
    BY <2>1 DEF FiniteSubsetsOf
<1>2. F # {}
  OBVIOUS
<1>3. PICK s \in F : \A t \in F : <<t, s>> \notin StrictSubsetOrdering(Nat)
  <2> HIDE DEF F
  <2> QED BY <1>1, <1>2, FS_StrictSubsetOrderingWellFounded, WFMin
<1>4. PICK x \in T : s = 0..x
  BY <1>3
<1>5. ASSUME NEW y \in T PROVE x <= y
  <2>1. <<0..y, 0..x>> \notin StrictSubsetOrdering(Nat)
    BY <1>3, <1>4
  <2>2. QED
    BY <2>1 DEF StrictSubsetOrdering
<1>6. QED
  BY <1>5

LEMMA GreatestExists ==
    ASSUME NEW n \in Nat, NEW T, T \subseteq 0..n, T # {}
    PROVE  \E x \in T : \A y \in T : y <= x
<1> DEFINE R == {n - x : x \in T}
<1>1. R \subseteq Nat /\ R # {}
  <2>1. \A x \in T : n - x \in Nat
    OBVIOUS
  <2>2. PICK x \in T : TRUE
    OBVIOUS
  <2>3. QED
    BY <2>1, <2>2
<1>2. PICK z \in R : \A y \in R : z <= y
  <2> HIDE DEF R
  <2> QED BY <1>1, LeastExists
<1>3. PICK x \in T : z = n - x
  BY <1>2
<1>4. ASSUME NEW y \in T PROVE y <= x
  <2>1. z <= n - y
    BY <1>2
  <2>2. QED
    BY <2>1, <1>3
<1>5. QED
  BY <1>4

LEMMA MinIs ==
    ASSUME NEW T, T \subseteq Nat, T # {}
    PROVE  Min(T) \in T /\ \A y \in T : Min(T) <= y
  BY LeastExists DEF Min

LEMMA MaxIs ==
    ASSUME NEW T, T \subseteq Minutes, T # {}
    PROVE  Max(T) \in T /\ \A y \in T : y <= Max(T)
<1>1. MinutesPerDay - 1 \in Nat /\ T \subseteq 0..(MinutesPerDay - 1)
  BY SlotAssumption DEF Minutes
<1>2. \E x \in T : \A y \in T : x >= y
  <2>1. PICK x \in T : \A y \in T : y <= x
    BY <1>1, GreatestExists
  <2>2. QED
    BY <2>1, <1>1
<1>3. QED
  BY <1>1, <1>2 DEF Max

-------------------------------------------------------------------------------
(* Around the clock *)

\* The remainder of a sum that leads at most once around the day.
LEMMA AroundOnce ==
    \A x \in Nat :
        x < 2 * MinutesPerDay
        => x % MinutesPerDay = IF x < MinutesPerDay THEN x ELSE x - MinutesPerDay
  BY SlotAssumption

LEMMA GapIs ==
    ASSUME NEW used, used \subseteq Minutes, NEW u \in used
    PROVE  /\ Gap(u, used) \in 1..MinutesPerDay
           /\ (u + Gap(u, used)) % MinutesPerDay \in used
           /\ \A d \in 1..MinutesPerDay :
                 (u + d) % MinutesPerDay \in used => Gap(u, used) <= d
<1> DEFINE D == {d \in 1..MinutesPerDay : (u + d) % MinutesPerDay \in used}
<1>1. MinutesPerDay \in Nat \ {0} /\ u \in Nat /\ u < MinutesPerDay
  BY SlotAssumption DEF Minutes
<1>2. MinutesPerDay \in D
  <2>1. (u + MinutesPerDay) % MinutesPerDay = u
    BY <1>1, AroundOnce
  <2>2. QED
    BY <1>1, <2>1
<1>3. D \subseteq Nat /\ D # {}
  BY <1>2
<1>4. Min(D) \in D /\ \A d \in D : Min(D) <= d
  <2> HIDE DEF D
  <2> QED BY <1>3, MinIs
<1>5. Gap(u, used) = Min(D)
  BY DEF Gap
<1>6. QED
  BY <1>4, <1>5

\* A free minute lies in the gap that begins with the last used one before it.
LEMMA FreeInGap ==
    ASSUME NEW used, used \subseteq Minutes, used # {}, NEW m \in Minutes, m \notin used
    PROVE  \E u \in used, d \in 1..MinutesPerDay :
              (u + d) % MinutesPerDay = m /\ d < Gap(u, used)
<1> DEFINE Back(d) == (m + (MinutesPerDay - d)) % MinutesPerDay
           D == {d \in 1..MinutesPerDay : Back(d) \in used}
<1>1. MinutesPerDay \in Nat \ {0} /\ m \in Nat /\ m < MinutesPerDay
  BY SlotAssumption DEF Minutes
<1>2. \A d \in 1..MinutesPerDay : Back(d) = IF d <= m THEN m - d ELSE m + MinutesPerDay - d
  <2> SUFFICES ASSUME NEW d \in 1..MinutesPerDay
               PROVE  Back(d) = IF d <= m THEN m - d ELSE m + MinutesPerDay - d
    OBVIOUS
  <2>1. m + (MinutesPerDay - d) \in Nat /\ m + (MinutesPerDay - d) < 2 * MinutesPerDay
    BY <1>1
  <2>2. QED
    BY <1>1, <2>1, AroundOnce
<1> HIDE DEF Back
<1>3. D # {}
  <2>1. PICK v \in used : TRUE
    OBVIOUS
  <2>2. v \in Nat /\ v < MinutesPerDay /\ v # m
    BY <2>1, SlotAssumption DEF Minutes
  <2>3. CASE v < m
    <3>1. m - v \in 1..MinutesPerDay /\ Back(m - v) = v
      BY <1>1, <1>2, <2>2, <2>3
    <3>2. QED
      BY <3>1, <2>1
  <2>4. CASE v > m
    <3>1. m + MinutesPerDay - v \in 1..MinutesPerDay /\ Back(m + MinutesPerDay - v) = v
      BY <1>1, <1>2, <2>2, <2>4
    <3>2. QED
      BY <3>1, <2>1
  <2>5. QED
    BY <1>1, <2>2, <2>3, <2>4
<1>4. D \subseteq Nat
  OBVIOUS
<1>5. PICK d \in D : \A e \in D : d <= e
  <2> HIDE DEF D
  <2> QED BY <1>3, <1>4, LeastExists
<1>6. d \in 1..MinutesPerDay /\ Back(d) \in used
  BY <1>5
<1>7. Back(d) \in Nat /\ Back(d) < MinutesPerDay
  <2> HIDE DEF D
  <2>1. \A v \in used : v \in Nat /\ v < MinutesPerDay
    BY <1>1 DEF Minutes
  <2>2. QED
    BY <1>6, <2>1
<1>8. Gap(Back(d), used) \in 1..MinutesPerDay
  BY <1>6, GapIs
<1>9. \A e \in 1..d : (Back(d) + e) % MinutesPerDay = IF e = d THEN m ELSE Back(d - e)
  <2> SUFFICES ASSUME NEW e \in 1..d
               PROVE  (Back(d) + e) % MinutesPerDay = IF e = d THEN m ELSE Back(d - e)
    OBVIOUS
  <2>1. Back(d) + e \in Nat /\ Back(d) + e < 2 * MinutesPerDay
    BY <1>1, <1>6, <1>7
  <2>2. (Back(d) + e) % MinutesPerDay
           = IF Back(d) + e < MinutesPerDay THEN Back(d) + e ELSE Back(d) + e - MinutesPerDay
    BY <1>1, <1>7, <2>1, AroundOnce
  <2>3. e # d => d - e \in 1..MinutesPerDay
    BY <1>1, <1>6
  <2>4. QED
    BY <1>1, <1>2, <1>6, <1>7, <2>2, <2>3
<1>10. CASE Gap(Back(d), used) <= d
  <2> DEFINE e == Gap(Back(d), used)
  <2>1. e \in 1..d
    BY <1>8, <1>10, <1>6
  <2>2. (Back(d) + e) % MinutesPerDay \in used
    BY <1>6, GapIs
  <2>3. e # d
    BY <2>1, <2>2, <1>9
  <2>4. d - e \in D
    BY <1>1, <2>1, <2>2, <2>3, <1>6, <1>9
  <2>5. QED
    BY <2>1, <2>4, <1>5, <1>6
<1>11. CASE Gap(Back(d), used) > d
  <2>1. (Back(d) + d) % MinutesPerDay = m
    BY <1>1, <1>6, <1>9
  <2>2. QED
    BY <1>6, <1>11, <2>1
<1>12. QED
  BY <1>6, <1>8, <1>10, <1>11

LEMMA WidestIs ==
    ASSUME NEW used, used \subseteq Minutes, used # {}
    PROVE  /\ WidestStart(used) \in used
           /\ \A v \in used : Gap(v, used) <= Gap(WidestStart(used), used)
<1> DEFINE W == {u \in used : \A v \in used : Gap(v, used) <= Gap(u, used)}
           G == {Gap(u, used) : u \in used}
<1>1. \A u \in used : Gap(u, used) \in 0..MinutesPerDay
  <2> SUFFICES ASSUME NEW u \in used PROVE Gap(u, used) \in 0..MinutesPerDay
    OBVIOUS
  <2>1. Gap(u, used) \in 1..MinutesPerDay
    BY GapIs
  <2>2. QED
    BY <2>1, SlotAssumption
<1>2. G \subseteq 0..MinutesPerDay /\ G # {}
  BY <1>1
<1>3. PICK g \in G : \A x \in G : x <= g
  <2> HIDE DEF G
  <2> QED BY <1>2, GreatestExists, SlotAssumption
<1>4. PICK u \in used : g = Gap(u, used)
  BY <1>3
<1>5. u \in W
  BY <1>3, <1>4
<1>6. W \subseteq Minutes /\ W \subseteq Nat /\ W # {}
  BY <1>5, SlotAssumption DEF Minutes
<1>7. Min(W) \in W
  <2> HIDE DEF W
  <2> QED BY <1>6, MinIs
<1>8. WidestStart(used) \in W
  <2>1. WidestStart(used) = IF Max(used) \in W THEN Max(used) ELSE Min(W)
    BY DEF WidestStart
  <2>2. QED
    BY <1>7, <2>1
<1>9. QED
  BY <1>8

\* assign_slot finds a free minute whenever there is one.
THEOREM AssignFindsFree ==
    ASSUME NEW used, used \subseteq Minutes, used # Minutes
    PROVE  AssignSlot(used) \in Minutes \ used
<1>1. MinutesPerDay \in Nat \ {0}
  BY SlotAssumption
<1>2. CASE used = {}
  BY <1>1, <1>2 DEF AssignSlot, Minutes
<1>3. CASE used # {}
  <2> DEFINE s == WidestStart(used)
             g == Gap(s, used)
             h == g \div 2
  <2>1. s \in used /\ \A v \in used : Gap(v, used) <= g
    BY <1>3, WidestIs
  <2>2. g \in 1..MinutesPerDay
    BY <2>1, GapIs
  <2>3. PICK u \in used : Gap(u, used) >= 2
    <3>1. PICK m \in Minutes : m \notin used
      OBVIOUS
    <3>2. PICK u \in used, d \in 1..MinutesPerDay : d < Gap(u, used)
      BY <1>3, <3>1, FreeInGap
    <3>3. Gap(u, used) \in 1..MinutesPerDay
      BY GapIs
    <3>4. QED
      BY <1>1, <3>2, <3>3
  <2>4. Gap(u, used) \in 1..MinutesPerDay
    BY GapIs
  <2>5. g >= 2
    BY <1>1, <2>1, <2>2, <2>3, <2>4
  <2>6. h \in 1..MinutesPerDay /\ h < g
    <3> HIDE DEF g
    <3> QED BY <1>1, <2>2, <2>5
  <2>7. (s + h) % MinutesPerDay \notin used
    <3>1. (s + h) % MinutesPerDay \in used => g <= h
      BY <2>1, <2>6, GapIs
    <3>2. QED
      BY <1>1, <2>2, <2>6, <3>1
  <2>8. s \in Nat
    <3>1. \A v \in used : v \in Nat
      BY <1>1 DEF Minutes
    <3>2. QED
      BY <2>1, <3>1
  <2>9. (s + h) % MinutesPerDay \in Minutes
    <3> HIDE DEF s, h
    <3> QED BY <1>1, <2>6, <2>8 DEF Minutes
  <2>10. AssignSlot(used) = (s + h) % MinutesPerDay
    BY <1>3 DEF AssignSlot
  <2>11. QED
    BY <2>7, <2>9, <2>10
<1>4. QED
  BY <1>2, <1>3

-------------------------------------------------------------------------------
(* Places of a redistribution *)

LEMMA PlacesAreMinutes ==
    ASSUME NEW i \in Nat, NEW n \in Nat \ {0}
    PROVE  Spaced(i, n) \in Minutes
<1>1. MinutesPerDay \in Nat \ {0} /\ i * MinutesPerDay \in Nat
  BY SlotAssumption
<1> DEFINE exact == (i * MinutesPerDay) \div n
<1>2. exact \in Nat
  BY <1>1
<1> HIDE DEF exact
<1>3. exact % MinutesPerDay \in Minutes /\ (exact - 1) % MinutesPerDay \in Minutes
  BY <1>1, <1>2 DEF Minutes
<1>4. QED
  BY <1>3 DEF Spaced, exact

\* What a quotient is.
LEMMA Quotient ==
    ASSUME NEW x \in Nat, NEW n \in Nat \ {0}
    PROVE  /\ x \div n \in Nat
           /\ n * (x \div n) <= x
           /\ x < n * (x \div n) + n
           /\ x % n = 0 => x = n * (x \div n)
  OBVIOUS

LEMMA PlacesApart ==
    ASSUME NEW n \in Nat \ {0}, n <= MinutesPerDay,
           NEW i \in 0..(n - 1), NEW j \in 0..(n - 1), i < j
    PROVE  Spaced(i, n) < Spaced(j, n)
<1> DEFINE M == MinutesPerDay
           a == (i * M) \div n
           b == (j * M) \div n
<1>1. M \in Nat \ {0} /\ i \in Nat /\ j \in Nat /\ j <= n - 1
  BY SlotAssumption
<1>2. i * M \in Nat /\ j * M \in Nat /\ i * M + M <= j * M /\ j * M + M <= n * M
  BY <1>1
<1>3. /\ a \in Nat /\ n * a <= i * M /\ i * M < n * a + n
      /\ b \in Nat /\ n * b <= j * M /\ j * M < n * b + n
      /\ (j * M) % n = 0 => j * M = n * b
  BY <1>2, Quotient
<1> HIDE DEF a, b
<1>4. a < b
  <2>1. n * a < n * b
    BY <1>1, <1>2, <1>3
  <2>2. QED
    BY <2>1, <1>1, <1>3
<1>5. b < M
  <2>1. n * b < n * M
    BY <1>1, <1>2, <1>3
  <2>2. QED
    BY <2>1, <1>1, <1>3
<1>6. ASSUME <<j, n>> \in RoundsDown
      PROVE  a < b - 1
  <2>1. (j * M) % n = 0 /\ M % n # 0
    BY <1>6, SlotAssumption
  <2>2. n < M
    BY <2>1, <1>1
  <2>3. n * a < n * (b - 1)
    BY <2>1, <2>2, <1>1, <1>2, <1>3
  <2>4. QED
    BY <2>3, <1>1, <1>3
<1>7. ASSUME <<i, n>> \in RoundsDown
      PROVE  a >= 1
  <2>1. (i * M) % n = 0 /\ i \in 1..(n - 1)
    BY <1>7, SlotAssumption
  <2>2. i * M >= M
    BY <2>1, <1>1
  <2>3. i * M >= n
    BY <2>2, <1>1
  <2>4. n * a > 0
    BY <2>3, <1>1, <1>3
  <2>5. QED
    BY <2>4, <1>1, <1>3
<1> DEFINE p == IF <<i, n>> \in RoundsDown THEN a - 1 ELSE a
           q == IF <<j, n>> \in RoundsDown THEN b - 1 ELSE b
<1>8. p \in Nat /\ q \in Nat /\ p < q /\ q < M
  BY <1>1, <1>3, <1>4, <1>5, <1>6, <1>7
<1> HIDE DEF p, q
<1>9. p % M = p /\ q % M = q
  BY <1>1, <1>8
<1>10. Spaced(i, n) = p % M /\ Spaced(j, n) = q % M
  BY DEF Spaced, p, q, a, b
<1>11. QED
  BY <1>8, <1>9, <1>10

LEMMA PresentIsFinite ==
    ASSUME NEW plan
    PROVE  /\ IsFiniteSet(Present(plan))
           /\ Present(plan) \subseteq Customer
           /\ Cardinality(Present(plan)) \in Nat
           /\ Cardinality(Present(plan)) <= Cardinality(Customer)
  BY FS_Subset, FS_CardinalityType, SlotAssumption DEF Present

LEMMA RankIs ==
    ASSUME NEW plan, NEW c \in Present(plan)
    PROVE  Rank(c, plan) \in 0..(Cardinality(Present(plan)) - 1)
<1> DEFINE B == {d \in Present(plan) : d < c}
<1>1. IsFiniteSet(Present(plan)) /\ Cardinality(Present(plan)) \in Nat /\ c \in Nat
  BY PresentIsFinite, SlotAssumption
<1>2. B \subseteq Present(plan) /\ c \notin B
  BY <1>1
<1>3. IsFiniteSet(B) /\ Cardinality(B) \in Nat /\ Cardinality(B) <= Cardinality(Present(plan))
      /\ Cardinality(B) # Cardinality(Present(plan))
  <2> HIDE DEF B
  <2> QED BY <1>1, <1>2, FS_Subset, FS_CardinalityType
<1>4. Rank(c, plan) = Cardinality(B)
  BY DEF Rank
<1>5. QED
  BY <1>1, <1>3, <1>4

LEMMA RanksApart ==
    ASSUME NEW plan, NEW c \in Present(plan), NEW d \in Present(plan), c < d
    PROVE  Rank(c, plan) < Rank(d, plan)
<1> DEFINE B(x) == {e \in Present(plan) : e < x}
<1>1. IsFiniteSet(Present(plan)) /\ Present(plan) \subseteq Nat
  BY PresentIsFinite, SlotAssumption
<1>2. B(c) \subseteq B(d) /\ c \in B(d) /\ c \notin B(c) /\ B(d) \subseteq Present(plan)
  BY <1>1
<1>3. Rank(c, plan) = Cardinality(B(c)) /\ Rank(d, plan) = Cardinality(B(d))
  BY DEF Rank
<1> HIDE DEF B
<1>4. IsFiniteSet(B(d)) /\ Cardinality(B(d)) \in Nat
  BY <1>1, <1>2, FS_Subset, FS_CardinalityType
<1>5. IsFiniteSet(B(c)) /\ Cardinality(B(c)) \in Nat /\ Cardinality(B(c)) <= Cardinality(B(d))
      /\ Cardinality(B(c)) # Cardinality(B(d))
  BY <1>2, <1>4, FS_Subset, FS_CardinalityType
<1>6. QED
  BY <1>3, <1>4, <1>5

LEMMA TargetIsMinute ==
    ASSUME NEW plan, NEW c \in Present(plan)
    PROVE  Target(c, plan) \in Minutes
<1>1. Rank(c, plan) \in 0..(Cardinality(Present(plan)) - 1)
  BY RankIs
<1>2. Rank(c, plan) \in Nat /\ Cardinality(Present(plan)) \in Nat \ {0}
  BY <1>1, PresentIsFinite
<1>3. QED
  BY <1>2, PlacesAreMinutes DEF Target

LEMMA TargetsApart ==
    ASSUME NEW plan, Cardinality(Customer) <= MinutesPerDay,
           NEW c \in Present(plan), NEW d \in Present(plan), c < d
    PROVE  Target(c, plan) < Target(d, plan)
<1> DEFINE n == Cardinality(Present(plan))
<1>1. n \in Nat /\ n <= MinutesPerDay
  BY PresentIsFinite, SlotAssumption, FS_CardinalityType
<1>2. Rank(c, plan) \in 0..(n - 1) /\ Rank(d, plan) \in 0..(n - 1) /\ Rank(c, plan) < Rank(d, plan)
  BY RankIs, RanksApart
<1>3. Spaced(Rank(c, plan), n) < Spaced(Rank(d, plan), n)
  <2> HIDE DEF n
  <2>1. n \in Nat \ {0}
    BY <1>1, <1>2
  <2>2. QED
    BY <1>1, <1>2, <2>1, PlacesApart
<1>4. QED
  BY <1>3 DEF Target

-------------------------------------------------------------------------------
(* What a pending request is going to write *)

\* As long as nothing has overtaken it, a form holds what assign_slot would answer
\* now and a redistribution what it would compute now.
Current(r) ==
    ~task[r].stale =>
        /\ task[r].step = "picked" =>
              \E c \in Customer : /\ slot[c] = NoSlot
                                  /\ task[r].moves = [d \in {c} |-> AssignSlot(Used(slot))]
        /\ task[r].step = "loaded" =>
              task[r].moves = [c \in Changed(slot) |-> Target(c, slot)]

IInv == TypeOK /\ \A r \in Request : Current(r)

LEMMA UsedAreMinutes ==
    ASSUME NEW plan \in Plans
    PROVE  Used(plan) \subseteq Minutes
  BY DEF Used, Present, Plans

LEMMA AssignIsMinute ==
    ASSUME NEW used, used \subseteq Minutes
    PROVE  AssignSlot(used) \in Minutes
<1>1. MinutesPerDay \in Nat \ {0}
  BY SlotAssumption
<1>2. CASE used = {}
  BY <1>1, <1>2 DEF AssignSlot, Minutes
<1>3. CASE used # {}
  <2> DEFINE s == WidestStart(used)
             g == Gap(s, used)
  <2>1. s \in used
    BY <1>3, WidestIs
  <2>2. g \in 1..MinutesPerDay
    BY <2>1, GapIs
  <2>3. s \in Minutes
    BY <2>1
  <2>4. s \in Nat /\ g \in Nat
    BY <1>1, <2>2, <2>3 DEF Minutes
  <2>5. (s + (g \div 2)) % MinutesPerDay \in Minutes
    <3> HIDE DEF s, g
    <3> QED BY <1>1, <2>4 DEF Minutes
  <2>6. QED
    BY <1>3, <2>5 DEF AssignSlot
<1>4. QED
  BY <1>2, <1>3

Task == [step: {"idle", "picked", "loaded"}, moves: Moves, stale: BOOLEAN]

LEMMA IdleIsTask == Idle \in Task
<1>1. [c \in {} |-> NoSlot] \in [{} -> Minutes]
  OBVIOUS
<1>2. [c \in {} |-> NoSlot] \in Moves
  <2>1. {} \in SUBSET Customer
    OBVIOUS
  <2>2. QED
    BY <1>1, <2>1 DEF Moves
<1>3. QED
  BY <1>2 DEF Idle, Task

LEMMA PlanAfterMoves ==
    ASSUME TypeOK, NEW moves \in Moves
    PROVE  Written(moves) \in Plans
<1>1. PICK S \in SUBSET Customer : moves \in [S -> Minutes]
  BY DEF Moves
<1>2. QED
  BY <1>1 DEF TypeOK, Written, Plans

LEMMA UntouchedStaysCurrent ==
    ASSUME NEW q \in Request, Current(q), slot' = slot,
           task'[q].step = task[q].step, task'[q].moves = task[q].moves,
           task'[q].stale = task[q].stale
    PROVE  Current(q)'
  BY DEF Current

\* A commit keeps the types and lets nobody hold something out of date unknowingly.
LEMMA CommitsKeeps ==
    ASSUME IInv, NEW r \in Request, NEW plan \in Plans, Commits(r, plan)
    PROVE  IInv'
<1>1. TypeOK'
  <2>1. ASSUME NEW q \in Request PROVE task'[q] \in Task
    <3>1. task[q] \in Task
      BY DEF IInv, TypeOK, Task
    <3>2. [task[q] EXCEPT !.stale = @ \/ plan # slot] \in Task
      BY <3>1 DEF Task
    <3>3. QED
      BY <3>2, IdleIsTask DEF Commits
  <2>2. task' \in [Request -> Task]
    BY <2>1 DEF Commits
  <2>3. QED
    BY <2>2 DEF Commits, TypeOK, Task
<1>2. ASSUME NEW q \in Request PROVE Current(q)'
  <2>1. CASE q = r \/ task[q].step = "idle"
    BY <2>1 DEF Commits, Current, Idle
  <2>2. CASE ~(q = r \/ task[q].step = "idle")
    <3>1. task[q] \in Task
      BY DEF IInv, TypeOK, Task
    <3>2. task'[q] = [task[q] EXCEPT !.stale = @ \/ plan # slot]
      BY <2>2 DEF Commits
    <3>3. /\ task'[q].step = task[q].step /\ task'[q].moves = task[q].moves
          /\ task'[q].stale = (task[q].stale \/ plan # slot)
      BY <3>1, <3>2 DEF Task
    <3>4. CASE plan # slot
      BY <3>3, <3>4 DEF Current
    <3>5. CASE plan = slot
      <4>1. slot' = slot
        BY <3>5 DEF Commits
      <4>2. Current(q)
        BY DEF IInv
      <4>3. QED
        BY <4>1, <4>2, <3>3 DEF Current
    <3>6. QED
      BY <3>4, <3>5
  <2>3. QED
    BY <2>1, <2>2
<1>3. QED
  BY <1>1, <1>2 DEF IInv

LEMMA ReadsKeeps ==
    ASSUME IInv, NEW r \in Request, NEW step \in {"picked", "loaded"}, NEW moves \in Moves,
           Reads(r, step, moves), Current(r)'
    PROVE  IInv'
<1>1. TypeOK'
  BY DEF IInv, TypeOK, Reads
<1>2. ASSUME NEW q \in Request PROVE Current(q)'
  <2>1. CASE q = r
    BY <2>1
  <2>2. CASE q # r
    <3>1. task'[q] = task[q] /\ slot' = slot
      BY <2>2 DEF Reads, IInv, TypeOK
    <3>2. Current(q)
      BY DEF IInv
    <3>3. QED
      BY <3>1, <3>2, UntouchedStaysCurrent
  <2>3. QED
    BY <2>1, <2>2
<1>3. QED
  BY <1>1, <1>2 DEF IInv

LEMMA AbandonKeeps ==
    ASSUME IInv, NEW r \in Request, Abandon(r)
    PROVE  IInv'
<1>1. TypeOK'
  <2>1. task' \in [Request -> Task]
    BY IdleIsTask DEF IInv, TypeOK, Abandon, Task
  <2>2. QED
    BY <2>1 DEF IInv, TypeOK, Abandon, Task
<1>2. ASSUME NEW q \in Request PROVE Current(q)'
  <2>1. Current(q) /\ slot' = slot
    BY DEF IInv, Abandon
  <2>2. task'[q] = IF q = r THEN Idle ELSE task[q]
    BY DEF Abandon, IInv, TypeOK
  <2>3. CASE q = r
    BY <2>2, <2>3 DEF Current, Idle
  <2>4. CASE q # r
    BY <2>1, <2>2, <2>4 DEF Current
  <2>5. QED
    BY <2>3, <2>4
<1>3. QED
  BY <1>1, <1>2 DEF IInv

LEMMA TaskOf ==
    ASSUME IInv, NEW r \in Request
    PROVE  task[r] \in Task /\ task[r].moves \in Moves /\ slot \in Plans
  BY DEF IInv, TypeOK, Task

LEMMA IInvNext == IInv /\ [Next]_vars => IInv'
<1> SUFFICES ASSUME IInv, [Next]_vars PROVE IInv'
  OBVIOUS
<1>1. ASSUME NEW r \in Request, NEW c \in Customer, PickSlot(r, c)
      PROVE  IInv'
  <2> DEFINE moves == [d \in {c} |-> AssignSlot(Used(slot))]
  <2>1. AssignSlot(Used(slot)) \in Minutes
    BY <1>1, TaskOf, UsedAreMinutes, AssignIsMinute
  <2>2. moves \in Moves
    <3>1. moves \in [{c} -> Minutes] /\ {c} \in SUBSET Customer
      BY <2>1
    <3>2. QED
      BY <3>1 DEF Moves
  <2>3. Reads(r, "picked", moves)
    BY <1>1 DEF PickSlot
  <2>4. Current(r)'
    <3>1. task'[r] = [step |-> "picked", moves |-> moves, stale |-> FALSE] /\ slot' = slot
      BY <2>3 DEF Reads, IInv, TypeOK
    <3>2. slot[c] = NoSlot
      BY <1>1 DEF PickSlot
    <3>3. QED
      BY <3>1, <3>2 DEF Current
  <2>5. QED
    <3> HIDE DEF moves
    <3> QED BY <2>2, <2>3, <2>4, ReadsKeeps
<1>2. ASSUME NEW r \in Request, LoadAll(r)
      PROVE  IInv'
  <2> DEFINE moves == [c \in Changed(slot) |-> Target(c, slot)]
  <2>1. moves \in Moves
    <3>1. Changed(slot) \in SUBSET Customer /\ Changed(slot) \subseteq Present(slot)
      BY PresentIsFinite DEF Changed
    <3>2. moves \in [Changed(slot) -> Minutes]
      BY <3>1, TargetIsMinute
    <3>3. QED
      BY <3>1, <3>2 DEF Moves
  <2>2. Reads(r, "loaded", moves)
    BY <1>2 DEF LoadAll
  <2>3. Current(r)'
    <3>1. task'[r] = [step |-> "loaded", moves |-> moves, stale |-> FALSE] /\ slot' = slot
      BY <2>2 DEF Reads, IInv, TypeOK
    <3>2. QED
      BY <3>1 DEF Current
  <2>4. QED
    <3> HIDE DEF moves
    <3> QED BY <2>1, <2>2, <2>3, ReadsKeeps
<1>3. ASSUME NEW r \in Request, CommitForm(r) \/ Spread(r)
      PROVE  IInv'
  <2>1. Written(task[r].moves) \in Plans /\ slot \in Plans
    BY TaskOf, PlanAfterMoves DEF IInv
  <2>2. PICK plan \in Plans : Commits(r, plan)
    BY <1>3, <2>1 DEF CommitForm, Spread
  <2>3. QED
    BY <2>2, CommitsKeeps
<1>4. ASSUME NEW r \in Request, NEW c \in Customer, CreateViaApi(r, c)
      PROVE  IInv'
  <2>1. 0 \in Minutes
    BY SlotAssumption DEF Minutes
  <2>2. AssignSlot(Used(slot) \cup {0}) \in Minutes
    BY <2>1, <1>4, TaskOf, UsedAreMinutes, AssignIsMinute
  <2>3. [slot EXCEPT ![c] = AssignSlot(Used(slot) \cup {0})] \in Plans
    BY <2>2, TaskOf DEF Plans
  <2>4. QED
    BY <1>4, <2>3, CommitsKeeps DEF CreateViaApi
<1>5. ASSUME NEW r \in Request, NEW c \in Customer, Delete(r, c)
      PROVE  IInv'
  <2>1. [slot EXCEPT ![c] = NoSlot] \in Plans
    BY TaskOf DEF Plans
  <2>2. QED
    BY <1>5, <2>1, CommitsKeeps DEF Delete
<1>6. ASSUME NEW r \in Request, Abandon(r)
      PROVE  IInv'
  BY <1>6, AbandonKeeps
<1>7. CASE UNCHANGED vars
  BY <1>7 DEF IInv, TypeOK, Current, vars
<1>8. QED
  BY <1>1, <1>2, <1>3, <1>4, <1>5, <1>6, <1>7 DEF Next

LEMMA IInvInit == Init => IInv
<1> SUFFICES ASSUME Init PROVE IInv
  OBVIOUS
<1>1. TypeOK
  BY IdleIsTask DEF Init, TypeOK, Task, Plans
<1>2. \A r \in Request : Current(r)
  BY DEF Init, Current, Idle
<1>3. QED
  BY <1>1, <1>2 DEF IInv

LEMMA InductiveInvariant == Spec => []IInv
  BY IInvInit, IInvNext, PTL DEF Spec

\* Slots are minutes of the day, for any customers, requests and length of day.
THEOREM TypeCorrect == Spec => []TypeOK
<1>1. IInv => TypeOK
  BY DEF IInv
<1>2. QED
  BY <1>1, InductiveInvariant, PTL

-------------------------------------------------------------------------------
(* Who shares a minute *)

\* There is a free minute as long as the customers do not fill the day.
LEMMA NotAllUsed ==
    ASSUME NEW plan \in Plans, NEW c \in Customer, plan[c] = NoSlot,
           Cardinality(Customer) < MinutesPerDay
    PROVE  Used(plan) \cup {0} # Minutes
<1>1. IsFiniteSet(Present(plan)) /\ Present(plan) \subseteq Customer \ {c}
      /\ Cardinality(Present(plan)) \in Nat
  BY PresentIsFinite DEF Present
<1>2. IsFiniteSet(Customer \ {c}) /\ Cardinality(Customer \ {c}) = Cardinality(Customer) - 1
      /\ Cardinality(Customer) \in Nat
  BY SlotAssumption, FS_RemoveElement, FS_CardinalityType
<1>3. Cardinality(Present(plan)) <= Cardinality(Customer) - 1
  BY <1>1, <1>2, FS_Subset
<1>4. IsFiniteSet(Used(plan)) /\ Cardinality(Used(plan)) <= Cardinality(Present(plan))
      /\ Cardinality(Used(plan)) \in Nat
  <2> DEFINE f == [d \in Present(plan) |-> plan[d]]
  <2>1. f \in Surjection(Present(plan), Used(plan))
    BY DEF Surjection, Used
  <2>2. QED
    <3> HIDE DEF f
    <3> QED BY <1>1, <2>1, FS_Surjection, FS_CardinalityType
<1>5. Cardinality(Used(plan) \cup {0}) = IF 0 \in Used(plan) THEN Cardinality(Used(plan))
                                         ELSE Cardinality(Used(plan)) + 1
  BY <1>4, FS_AddElement
<1>6. /\ Cardinality(Used(plan) \cup {0}) <= Cardinality(Used(plan)) + 1
      /\ Cardinality(Used(plan) \cup {0}) \in Nat
  BY <1>4, <1>5
<1>7. Cardinality(Minutes) = MinutesPerDay
  BY SlotAssumption, FS_Interval DEF Minutes
<1>8. MinutesPerDay \in Nat
  BY SlotAssumption
<1>9. Cardinality(Used(plan) \cup {0}) < MinutesPerDay
  BY <1>1, <1>2, <1>3, <1>4, <1>6, <1>8
<1>10. QED
  BY <1>7, <1>8, <1>9

LEMMA JoinsAlone ==
    ASSUME NEW plan \in Plans, NEW c \in Customer, NEW m \in Minutes, m \notin Used(plan)
    PROVE  Sharing([plan EXCEPT ![c] = m]) \subseteq Sharing(plan)
<1> DEFINE new == [plan EXCEPT ![c] = m]
<1> SUFFICES ASSUME NEW a \in Present(new), NEW b \in Present(new), a # b, new[a] = new[b]
             PROVE  /\ a \in Present(plan) /\ b \in Present(plan)
                    /\ plan[a] = plan[b]
  BY DEF Sharing
<1>1. a \in Customer /\ b \in Customer
  BY PresentIsFinite
<1>2. \A d \in Customer : new[d] = IF d = c THEN m ELSE plan[d]
  BY DEF Plans
<1>3. \A d \in Customer \ {c} : new[d] # NoSlot => plan[d] # m
  BY <1>2 DEF Used, Present
<1>4. new[a] # NoSlot /\ new[b] # NoSlot
  BY DEF Present
<1>5. a # c /\ b # c
  BY <1>1, <1>2, <1>3, <1>4
<1>6. QED
  BY <1>1, <1>2, <1>4, <1>5 DEF Present

LEMMA SpreadPlan ==
    ASSUME IInv, NEW r \in Request, Spread(r), ~task[r].stale
    PROVE  /\ Present(slot)' = Present(slot)
           /\ \A c \in Present(slot) : slot'[c] = Target(c, slot)
<1>1. task[r].moves = [c \in Changed(slot) |-> Target(c, slot)]
  BY DEF Spread, IInv, Current
<1>2. \A c \in Changed(slot) : slot[c] # NoSlot
  BY DEF Changed, Present
<1>3. slot' = Written(task[r].moves)
  BY <1>1, <1>2 DEF Spread, Commits
<1>4. \A c \in Customer : slot'[c] = IF c \in Present(slot) THEN Target(c, slot) ELSE NoSlot
  <2> SUFFICES ASSUME NEW c \in Customer
               PROVE  slot'[c] = IF c \in Present(slot) THEN Target(c, slot) ELSE NoSlot
    OBVIOUS
  <2>1. slot'[c] = IF c \in Changed(slot) THEN Target(c, slot) ELSE slot[c]
    BY <1>1, <1>3 DEF Written
  <2>2. QED
    BY <2>1 DEF Changed, Present
<1>5. NoSlot \notin Minutes
  BY SlotAssumption DEF Minutes, NoSlot
<1>6. \A c \in Present(slot) : Target(c, slot) # NoSlot
  BY <1>5, TargetIsMinute
<1>7. QED
  BY <1>4, <1>6, PresentIsFinite DEF Present

\* Whoever is in step with the plan puts nobody where another customer is.
LEMMA NewlyShared ==
    ASSUME IInv, Next, Cardinality(Customer) < MinutesPerDay
    PROVE  \/ Sharing(slot)' \subseteq Sharing(slot)
           \/ \E r \in Request : task[r].stale /\ (CommitForm(r) \/ Spread(r))
<1>0. slot \in Plans
  BY DEF IInv, TypeOK
<1>1. ASSUME NEW r \in Request, NEW c \in Customer, PickSlot(r, c)
      PROVE  Sharing(slot)' \subseteq Sharing(slot)
  <2>1. slot' = slot
    BY <1>1 DEF PickSlot, Reads
  <2>2. QED
    BY <2>1
<1>2. ASSUME NEW r \in Request, LoadAll(r) \/ Abandon(r)
      PROVE  Sharing(slot)' \subseteq Sharing(slot)
  <2>1. slot' = slot
    BY <1>2 DEF LoadAll, Reads, Abandon
  <2>2. QED
    BY <2>1
<1>3. ASSUME NEW r \in Request, NEW c \in Customer, CreateViaApi(r, c)
      PROVE  Sharing(slot)' \subseteq Sharing(slot)
  <2> DEFINE used == Used(slot) \cup {0}
             m == AssignSlot(used)
  <2>1. slot[c] = NoSlot /\ slot' = [slot EXCEPT ![c] = m]
    BY <1>3 DEF CreateViaApi, Commits
  <2>2. used \subseteq Minutes /\ used # Minutes
    BY <1>0, <2>1, UsedAreMinutes, NotAllUsed, SlotAssumption DEF Minutes
  <2>3. m \in Minutes \ used
    <3> HIDE DEF used
    <3> QED BY <2>2, AssignFindsFree
  <2>4. m \in Minutes /\ m \notin Used(slot)
    BY <2>3
  <2>5. Sharing([slot EXCEPT ![c] = m]) \subseteq Sharing(slot)
    <3> HIDE DEF m
    <3> QED BY <1>0, <2>4, JoinsAlone
  <2>6. QED
    BY <2>1, <2>5
<1>4. ASSUME NEW r \in Request, NEW c \in Customer, Delete(r, c)
      PROVE  Sharing(slot)' \subseteq Sharing(slot)
  <2>1. slot' = [slot EXCEPT ![c] = NoSlot]
    BY <1>4 DEF Delete, Commits
  <2>2. \A d \in Customer : slot'[d] = IF d = c THEN NoSlot ELSE slot[d]
    BY <1>0, <2>1 DEF Plans
  <2>3. QED
    BY <2>2 DEF Sharing, Present
<1>5. ASSUME NEW r \in Request, CommitForm(r), ~task[r].stale
      PROVE  Sharing(slot)' \subseteq Sharing(slot)
  <2>1. PICK c \in Customer : /\ slot[c] = NoSlot
                              /\ task[r].moves = [d \in {c} |-> AssignSlot(Used(slot))]
    BY <1>5 DEF CommitForm, IInv, Current
  <2> DEFINE m == AssignSlot(Used(slot))
  <2>2. m \in Minutes \ Used(slot)
    <3>1. Used(slot) # Minutes
      <4>1. 0 \in Minutes
        BY SlotAssumption DEF Minutes
      <4>2. Used(slot) \cup {0} # Minutes
        BY <1>0, <2>1, NotAllUsed
      <4>3. QED
        BY <4>1, <4>2
    <3>2. QED
      BY <1>0, <3>1, UsedAreMinutes, AssignFindsFree
  <2>3. slot' = [slot EXCEPT ![c] = m]
    <3>1. slot' = Written(task[r].moves)
      BY <1>5, <2>1 DEF CommitForm, Commits
    <3>2. QED
      BY <1>0, <2>1, <3>1 DEF Written, Plans
  <2>4. Sharing([slot EXCEPT ![c] = m]) \subseteq Sharing(slot)
    <3> HIDE DEF m
    <3> QED BY <1>0, <2>2, JoinsAlone
  <2>5. QED
    BY <2>3, <2>4
<1>6. ASSUME NEW r \in Request, Spread(r), ~task[r].stale
      PROVE  Sharing(slot)' = {}
  <2>1. /\ Present(slot)' = Present(slot)
        /\ \A c \in Present(slot) : slot'[c] = Target(c, slot)
    BY <1>6, SpreadPlan
  <2>2. Cardinality(Customer) <= MinutesPerDay /\ Present(slot) \subseteq Nat
    <3>1. Cardinality(Customer) \in Nat /\ MinutesPerDay \in Nat
      BY SlotAssumption, FS_CardinalityType
    <3>2. Present(slot) \subseteq Nat
      BY PresentIsFinite, SlotAssumption
    <3>3. QED
      BY <3>1, <3>2
  <2>3. ASSUME NEW a \in Present(slot), NEW b \in Present(slot), a # b
        PROVE  Target(a, slot) # Target(b, slot)
    <3>1. Target(a, slot) \in Nat /\ Target(b, slot) \in Nat
      BY TargetIsMinute, SlotAssumption DEF Minutes
    <3>2. CASE a < b
      BY <2>2, <3>1, <3>2, TargetsApart
    <3>3. CASE b < a
      BY <2>2, <3>1, <3>3, TargetsApart
    <3>4. QED
      BY <2>2, <2>3, <3>2, <3>3
  <2>4. QED
    BY <2>1, <2>3, PresentIsFinite DEF Sharing
<1>7. QED
  <2>1. \A r \in Request : task[r].stale \in BOOLEAN
    BY TaskOf DEF Task
  <2>2. QED
    BY <1>1, <1>2, <1>3, <1>4, <1>5, <1>6, <2>1 DEF Next

\* However many customers there are short of a full day, whatever requests run at
\* a time and wherever floating point rounds down: only a request the plan has
\* overtaken brings two customers into one minute.
THEOREM OnlyTheOvertakenShare ==
    ASSUME Cardinality(Customer) < MinutesPerDay
    PROVE  Spec => SharedOnlyByOvertaken
<1>1. IInv /\ [Next]_vars
        => [Sharing(slot)' \subseteq Sharing(slot)
            \/ \E r \in Request : task[r].stale /\ task'[r].step = "idle"]_vars
  BY NewlyShared DEF CommitForm, Spread, Commits, Idle
<1>2. QED
  BY <1>1, InductiveInvariant, PTL DEF Spec, SharedOnlyByOvertaken

\* A plan in which every customer has a minute of its own.
Distinct == Sharing(slot) = {}

NoStaleWrite == \A r \in Request : task[r].stale => ~CommitForm(r) /\ ~Spread(r)

\* So the plan stays distinct for as long as no request writes what it chose from a
\* plan that has changed since, however many run beside each other.
THEOREM DistinctUnlessOvertaken ==
    ASSUME Cardinality(Customer) < MinutesPerDay
    PROVE  Spec /\ [][NoStaleWrite]_vars => []Distinct
<1>1. Init => Distinct
  BY DEF Init, Distinct, Sharing, Present
<1>2. IInv /\ Distinct /\ [Next]_vars /\ [NoStaleWrite]_vars => Distinct'
  <2> SUFFICES ASSUME IInv, Distinct, [Next]_vars, [NoStaleWrite]_vars PROVE Distinct'
    OBVIOUS
  <2>1. CASE UNCHANGED vars
    BY <2>1 DEF Distinct, vars
  <2>2. CASE Next /\ NoStaleWrite
    BY <2>2, NewlyShared DEF NoStaleWrite, Distinct
  <2>3. QED
    BY <2>1, <2>2
<1>3. QED
  BY <1>1, <1>2, InductiveInvariant, PTL DEF Spec

\* A request as one step on the plan as it is.
Joins(c, used) == slot[c] = NoSlot /\ slot' = [slot EXCEPT ![c] = AssignSlot(used)]

Atomic ==
    \/ \E c \in Customer :
          \/ Joins(c, Used(slot))
          \/ Joins(c, Used(slot) \cup {0})
          \/ slot[c] # NoSlot /\ slot' = [slot EXCEPT ![c] = NoSlot]
    \/ slot' = [c \in Customer |-> IF c \in Present(slot) THEN Target(c, slot) ELSE NoSlot]

LEMMA AtomicStep ==
    ASSUME IInv, Next, NoStaleWrite
    PROVE  Atomic \/ slot' = slot
<1>0. slot \in Plans
  BY DEF IInv, TypeOK
<1>1. ASSUME NEW r \in Request,
             LoadAll(r) \/ Abandon(r) \/ \E c \in Customer : PickSlot(r, c)
      PROVE  slot' = slot
  BY <1>1 DEF PickSlot, LoadAll, Reads, Abandon
<1>2. ASSUME NEW r \in Request, NEW c \in Customer, CreateViaApi(r, c) \/ Delete(r, c)
      PROVE  Atomic
  BY <1>2 DEF CreateViaApi, Delete, Commits, Atomic, Joins
<1>3. ASSUME NEW r \in Request, CommitForm(r), ~task[r].stale
      PROVE  Atomic
  <2>1. PICK c \in Customer : /\ slot[c] = NoSlot
                              /\ task[r].moves = [d \in {c} |-> AssignSlot(Used(slot))]
    BY <1>3 DEF CommitForm, IInv, Current
  <2>2. slot' = Written(task[r].moves)
    BY <1>3, <2>1 DEF CommitForm, Commits
  <2>3. slot' = [slot EXCEPT ![c] = AssignSlot(Used(slot))]
    BY <1>0, <2>1, <2>2 DEF Written, Plans
  <2>4. QED
    BY <2>1, <2>3 DEF Atomic, Joins
<1>4. ASSUME NEW r \in Request, Spread(r), ~task[r].stale
      PROVE  Atomic
  <2>1. /\ Present(slot)' = Present(slot)
        /\ \A c \in Present(slot) : slot'[c] = Target(c, slot)
    BY <1>4, SpreadPlan
  <2>2. slot' \in Plans
    BY <1>4, IInvNext DEF IInv, TypeOK
  <2>3. \A c \in Customer \ Present(slot) : slot'[c] = NoSlot
    BY <2>1 DEF Present
  <2>4. slot' = [c \in Customer |-> IF c \in Present(slot) THEN Target(c, slot) ELSE NoSlot]
    BY <2>1, <2>2, <2>3 DEF Plans
  <2>5. QED
    BY <2>4 DEF Atomic
<1>5. QED
  <2>1. \A r \in Request : task[r].stale \in BOOLEAN
    BY TaskOf DEF Task
  <2>2. QED
    BY <1>1, <1>2, <1>3, <1>4, <2>1 DEF Next, NoStaleWrite

\* Forms, API calls, deletions and redistributions that read first and write later
\* change the plan as if each did all of it at the moment it writes, unless one
\* writes what the plan has overtaken.
THEOREM RequestsSerialise == Spec /\ [][NoStaleWrite]_vars => [][Atomic]_slot
<1>1. IInv /\ [Next]_vars /\ [NoStaleWrite]_vars => [Atomic]_slot
  BY AtomicStep DEF vars
<1>2. QED
  BY <1>1, InductiveInvariant, PTL DEF Spec

OneAtATime == \A r, s \in Request : r = s

\* With one request at a time nothing is out of date when it is written ...
LEMMA AloneNothingIsStale ==
    ASSUME OneAtATime
    PROVE  Spec => [](\A r \in Request : ~task[r].stale)
<1> DEFINE Fresh == \A r \in Request : ~task[r].stale
<1>1. Init => Fresh
  BY DEF Init, Idle
<1>2. IInv /\ Fresh /\ [Next]_vars => Fresh'
  <2> SUFFICES ASSUME IInv, Fresh, [Next]_vars PROVE Fresh'
    OBVIOUS
  <2>0. task \in [Request -> Task]
    BY DEF IInv, TypeOK, Task
  <2>1. ASSUME NEW r \in Request, NEW plan, Commits(r, plan) PROVE Fresh'
    BY <2>1 DEF Commits, OneAtATime, Idle
  <2>2. ASSUME NEW r \in Request, NEW step, NEW moves, Reads(r, step, moves) PROVE Fresh'
    BY <2>0, <2>2 DEF Reads
  <2>3. ASSUME NEW r \in Request, Abandon(r) PROVE Fresh'
    BY <2>0, <2>3 DEF Abandon, Idle
  <2>4. CASE UNCHANGED vars
    BY <2>4 DEF vars
  <2> HIDE DEF Fresh
  <2>5. QED
    BY <2>1, <2>2, <2>3, <2>4
    DEF Next, PickSlot, LoadAll, CommitForm, CreateViaApi, Delete, Spread
<1> HIDE DEF Fresh
<1>3. Spec => []Fresh
  BY <1>1, <1>2, InductiveInvariant, PTL DEF Spec
<1>4. QED
  BY <1>3 DEF Fresh

\* ... and no two customers ever share a minute, for as
\* many customers as there are minutes but one.
THEOREM AlonePlanStaysDistinct ==
    ASSUME OneAtATime, Cardinality(Customer) < MinutesPerDay
    PROVE  Spec => []Distinct
<1> DEFINE Fresh == \A r \in Request : ~task[r].stale
<1>1. Fresh => NoStaleWrite
  BY DEF NoStaleWrite
<1>2. Spec => []Fresh
  BY AloneNothingIsStale
<1> HIDE DEF Fresh
<1>3. QED
  BY <1>1, <1>2, DistinctUnlessOvertaken, PTL

-------------------------------------------------------------------------------
(* How even a redistribution is *)

LEMMA RankOnto ==
    ASSUME NEW plan, NEW i \in 0..(Cardinality(Present(plan)) - 1)
    PROVE  \E c \in Present(plan) : Rank(c, plan) = i
<1> DEFINE P == Present(plan)
           I == 0..(Cardinality(P) - 1)
           f == [c \in P |-> Rank(c, plan)]
<1>1. IsFiniteSet(P) /\ Cardinality(P) \in Nat /\ P \subseteq Nat
  BY PresentIsFinite, SlotAssumption
<1>2. f \in [P -> I]
  BY RankIs
<1>3. ASSUME NEW c \in P, NEW d \in P, f[c] = f[d] PROVE c = d
  <2>1. f[c] = Rank(c, plan) /\ f[d] = Rank(d, plan)
    OBVIOUS
  <2>2. Rank(c, plan) \in Nat /\ Rank(d, plan) \in Nat
    BY RankIs
  <2>3. ~(c < d) /\ ~(d < c)
    BY <1>3, <2>1, <2>2, RanksApart
  <2>4. c \in Nat /\ d \in Nat
    BY <1>1
  <2>5. QED
    BY <2>3, <2>4
<1>4. IsFiniteSet(I) /\ Cardinality(I) = Cardinality(P)
  BY <1>1, FS_Interval
<1>5. f \in Injection(P, I)
  <2> HIDE DEF f, I, P
  <2> QED BY <1>2, <1>3 DEF Injection, IsInjective
<1>6. f \in Surjection(P, I)
  <2> HIDE DEF f, I, P
  <2> QED BY <1>4, <1>5, FS_Injection
<1>7. PICK c \in P : f[c] = i
  BY <1>6 DEF Surjection
<1>8. QED
  BY <1>7

\* A place lies less than a minute before its exact value, or one minute.
LEMMA PlaceIs ==
    ASSUME NEW n \in Nat \ {0}, n <= MinutesPerDay, NEW i \in 0..(n - 1)
    PROVE  /\ Spaced(i, n) \in Nat /\ Spaced(i, n) < MinutesPerDay
           /\ n * Spaced(i, n) <= i * MinutesPerDay
           /\ IF <<i, n>> \in RoundsDown
              THEN i * MinutesPerDay - n <= n * Spaced(i, n)
              ELSE i * MinutesPerDay - n < n * Spaced(i, n)
<1> DEFINE M == MinutesPerDay
           a == (i * M) \div n
<1>1. M \in Nat \ {0} /\ i \in Nat /\ i <= n - 1
  BY SlotAssumption
<1>2. i * M \in Nat /\ i * M + M <= n * M
  BY <1>1
<1>3. /\ a \in Nat /\ n * a <= i * M /\ i * M < n * a + n
      /\ (i * M) % n = 0 => i * M = n * a
  BY <1>2, Quotient
<1> HIDE DEF a
<1>4. a < M
  <2>1. n * a < n * M
    BY <1>1, <1>2, <1>3
  <2>2. QED
    BY <2>1, <1>1, <1>3
<1>5. ASSUME <<i, n>> \in RoundsDown
      PROVE  a >= 1 /\ i * M = n * a
  <2>1. (i * M) % n = 0 /\ i \in 1..(n - 1)
    BY <1>5, SlotAssumption
  <2>2. i * M >= M
    BY <2>1, <1>1
  <2>3. i * M >= n
    BY <2>2, <1>1
  <2>4. n * a > 0
    BY <2>1, <2>3, <1>1, <1>3
  <2>5. QED
    BY <2>1, <2>4, <1>1, <1>3
<1> DEFINE p == IF <<i, n>> \in RoundsDown THEN a - 1 ELSE a
<1>6. p \in Nat /\ p < M /\ n * p <= i * M
  <2>1. CASE <<i, n>> \in RoundsDown
    <3>1. n * (a - 1) = i * M - n
      BY <1>1, <1>3, <1>5, <2>1
    <3>2. QED
      BY <1>1, <1>2, <1>3, <1>4, <1>5, <2>1, <3>1
  <2>2. CASE <<i, n>> \notin RoundsDown
    BY <1>3, <1>4, <2>2
  <2>3. QED
    BY <2>1, <2>2
<1>7. IF <<i, n>> \in RoundsDown THEN i * M - n <= n * p ELSE i * M - n < n * p
  <2>1. CASE <<i, n>> \in RoundsDown
    <3>1. n * (a - 1) = i * M - n
      BY <1>1, <1>3, <1>5, <2>1
    <3>2. QED
      BY <1>1, <1>2, <1>3, <2>1, <3>1
  <2>2. CASE <<i, n>> \notin RoundsDown
    BY <1>1, <1>2, <1>3, <2>2
  <2>3. QED
    BY <2>1, <2>2
<1>8. Spaced(i, n) = p % M
  BY DEF Spaced, a
<1> HIDE DEF p
<1>9. p % M = p
  BY <1>1, <1>6
<1>10. QED
  BY <1>6, <1>7, <1>8, <1>9

\* The plan that a redistribution leaves.
LEMMA SpreadIsEven ==
    ASSUME NEW plan \in Plans, NEW old, Present(plan) = Present(old),
           \A c \in Present(old) : plan[c] = Target(c, old),
           Cardinality(Customer) <= MinutesPerDay
    PROVE  EvenlySpread(plan)
<1> DEFINE M == MinutesPerDay
           P == Present(plan)
           n == Cardinality(P)
           used == Used(plan)
           place(i) == Spaced(i, n)
<1>1. M \in Nat \ {0} /\ n \in Nat /\ n <= M /\ IsFiniteSet(P) /\ P \subseteq Nat
  <2>1. IsFiniteSet(P) /\ P \subseteq Customer /\ n \in Nat /\ n <= Cardinality(Customer)
    BY PresentIsFinite
  <2>2. Cardinality(Customer) \in Nat /\ Customer \subseteq Nat /\ M \in Nat \ {0}
    BY SlotAssumption, FS_CardinalityType
  <2> HIDE DEF n, P
  <2>3. QED
    BY <2>1, <2>2
<1>2. used \subseteq Minutes
  BY UsedAreMinutes
<1>3. \A c \in P : Rank(c, old) \in 0..(n - 1) /\ plan[c] = place(Rank(c, old))
  BY RankIs DEF Target
<1>4. \A i \in 0..(n - 1) : place(i) \in used
  <2> SUFFICES ASSUME NEW i \in 0..(n - 1) PROVE place(i) \in used
    OBVIOUS
  <2>1. PICK c \in Present(old) : Rank(c, old) = i
    BY RankOnto
  <2>2. QED
    BY <2>1, <1>3 DEF Used
<1>5. \A u \in used : \E i \in 0..(n - 1) : u = place(i)
  BY <1>3 DEF Used
<1>6. \A i, j \in 0..(n - 1) : i < j => place(i) < place(j)
  <2> SUFFICES ASSUME NEW i \in 0..(n - 1), NEW j \in 0..(n - 1), i < j PROVE place(i) < place(j)
    OBVIOUS
  <2>1. n \in Nat \ {0}
    BY <1>1
  <2>2. QED
    <3> HIDE DEF n
    <3> QED BY <1>1, <2>1, PlacesApart
<1>7. Cardinality(used) = n
  <2> DEFINE f == [c \in P |-> plan[c]]
  <2>1. f \in Surjection(P, used)
    BY DEF Surjection, Used
  <2>2. ASSUME NEW c \in P, NEW d \in P, f[c] = f[d] PROVE c = d
    <3>1. Target(c, old) = Target(d, old)
      BY <2>2
    <3>2. Target(c, old) \in Nat /\ Target(d, old) \in Nat
      BY TargetIsMinute, SlotAssumption DEF Minutes
    <3>3. ~(c < d) /\ ~(d < c)
      BY <3>1, <3>2, TargetsApart
    <3>4. c \in Nat /\ d \in Nat
      BY <1>1
    <3>5. QED
      BY <3>3, <3>4
  <2>3. f \in Injection(P, used)
    <3>1. f \in [P -> used]
      BY DEF Used
    <3>2. QED
      <4> HIDE DEF f, P
      <4> QED BY <3>1, <2>2 DEF Injection, IsInjective
  <2>4. QED
    <3> HIDE DEF f, P
    <3> QED BY <1>1, <2>1, <2>3, FS_Surjection
<1> HIDE DEF P, n, used
<1>8. \A i \in 0..(n - 1) :
         /\ place(i) \in Nat /\ place(i) < M
         /\ n * place(i) <= i * M
         /\ IF <<i, n>> \in RoundsDown
            THEN i * M - n <= n * place(i)
            ELSE i * M - n < n * place(i)
  <2> SUFFICES ASSUME NEW i \in 0..(n - 1)
               PROVE  /\ place(i) \in Nat /\ place(i) < M
                      /\ n * place(i) <= i * M
                      /\ IF <<i, n>> \in RoundsDown
                         THEN i * M - n <= n * place(i)
                         ELSE i * M - n < n * place(i)
    OBVIOUS
  <2>1. n \in Nat \ {0}
    BY <1>1
  <2>2. QED
    BY <1>1, <2>1, PlaceIs
<1> HIDE DEF place
<1>9. ASSUME NEW u \in used
      PROVE  LET off == n * Gap(u, used) - M
             IN  -(n * Slack(n)) < off /\ off < n * Slack(n)
  <2>1. PICK i \in 0..(n - 1) : u = place(i)
    BY <1>5
  <2>2. n \in Nat \ {0} /\ i \in Nat /\ i <= n - 1
    BY <1>1
  <2> DEFINE next == IF i = n - 1 THEN M ELSE place(i + 1)
             g == next - u
  <2>3. i # n - 1 => i + 1 \in 0..(n - 1)
    BY <2>2
  <2>4. u \in Nat /\ next \in Nat /\ u < next /\ next <= M
    <3>1. u \in Nat /\ u < M
      BY <1>8, <2>1
    <3>2. CASE i = n - 1
      BY <3>1, <3>2, <1>1
    <3>3. CASE i # n - 1
      <4>1. place(i + 1) \in Nat /\ place(i + 1) < M
        BY <1>8, <2>3, <3>3
      <4>2. place(i) < place(i + 1)
        BY <1>6, <2>2, <2>3, <3>3
      <4>3. QED
        BY <3>1, <3>3, <4>1, <4>2, <1>1, <2>1
    <3>4. QED
      BY <3>2, <3>3
  <2>5. (u + g) % M \in used
    <3>1. u + g = next
      BY <2>4
    <3>2. CASE i = n - 1
      <4>1. next % M = 0
        BY <1>1, <3>2
      <4>2. 0 \in 0..(n - 1) /\ place(0) = 0
        <5>1. 0 \in 0..(n - 1)
          BY <2>2
        <5>2. place(0) \in Nat /\ n * place(0) <= 0 * M
          BY <1>8, <5>1
        <5>3. QED
          BY <5>1, <5>2, <2>2, <1>1
      <4>3. QED
        BY <3>1, <4>1, <4>2, <1>4
    <3>3. CASE i # n - 1
      <4>1. next = place(i + 1) /\ next \in used /\ next < M
        BY <3>3, <2>3, <1>4, <1>8
      <4>2. next % M = next
        BY <4>1, <2>4, <1>1
      <4>3. QED
        BY <3>1, <4>1, <4>2
    <3>4. QED
      BY <3>2, <3>3
  <2>6. g \in 1..M
    BY <2>4, <1>1
  <2>7. Gap(u, used) \in 1..M /\ (u + Gap(u, used)) % M \in used /\ Gap(u, used) <= g
    <3> HIDE DEF g
    <3> QED BY <1>2, <2>5, <2>6, GapIs
  <2> DEFINE h == Gap(u, used)
  <2>8. ~(h < g)
    <3> SUFFICES ASSUME h < g PROVE FALSE
      OBVIOUS
    <3> HIDE DEF h
    <3>1. h \in Nat /\ u < u + h /\ u + h < next /\ u + h < M /\ u + h \in Nat
      BY <2>4, <2>7, <1>1 DEF h
    <3>2. (u + h) % M = u + h
      BY <3>1, <1>1
    <3>3. u + h \in used
      BY <3>2, <2>7 DEF h
    <3>4. PICK j \in 0..(n - 1) : u + h = place(j)
      BY <3>3, <1>5
    <3>5. ~(j <= i)
      <4>1. j < i => place(j) < place(i)
        BY <1>6
      <4>2. QED
        BY <4>1, <3>1, <3>4, <2>1, <2>2, <2>4
    <3>6. i # n - 1 /\ i + 1 <= j
      BY <3>5, <2>2
    <3>7. i + 1 < j => place(i + 1) < place(j)
      BY <1>6, <2>3, <3>6
    <3>8. next = place(i + 1) /\ place(i + 1) \in Nat
      BY <3>6, <2>3, <1>8
    <3>9. QED
      BY <3>1, <3>4, <3>6, <3>7, <3>8, <2>2
  <2>9. h = g
    BY <2>4, <2>7, <2>8
  <2>10. n * u <= i * M /\ i * M - n <= n * u
         /\ (<<i, n>> \notin RoundsDown => i * M - n < n * u)
    BY <1>8, <2>1, <1>1, <2>2
  <2>11. n * next <= i * M + M /\ i * M + M - n <= n * next
         /\ (Slack(n) = 1 => i * M + M - n < n * next)
    <3>1. CASE i = n - 1
      <4>1. n * M = i * M + M
        BY <3>1, <1>1, <2>2
      <4>2. QED
        BY <3>1, <4>1, <1>1, <2>2
    <3>2. CASE i # n - 1
      <4>1. /\ n * place(i + 1) <= (i + 1) * M
            /\ IF <<i + 1, n>> \in RoundsDown
               THEN (i + 1) * M - n <= n * place(i + 1)
               ELSE (i + 1) * M - n < n * place(i + 1)
            /\ place(i + 1) \in Nat
        BY <1>8, <2>3, <3>2
      <4>2. (i + 1) * M = i * M + M
        BY <1>1, <2>2
      <4>3. Slack(n) = 1 => <<i + 1, n>> \notin RoundsDown
        BY DEF Slack
      <4>4. next = place(i + 1)
        BY <3>2
      <4>5. i * M \in Nat /\ n * place(i + 1) \in Nat
        BY <1>1, <2>2, <4>1
      <4>6. QED
        BY <4>1, <4>2, <4>3, <4>4, <4>5, <1>1, <2>2
    <3>3. QED
      BY <3>1, <3>2
  <2>12. Slack(n) = 1 => <<i, n>> \notin RoundsDown
    BY DEF Slack
  <2>13. n * g = n * next - n * u
    BY <2>2, <2>4
  <2>14. n * next \in Nat /\ n * u \in Nat /\ i * M \in Nat
    BY <1>1, <2>2, <2>4
  <2> HIDE DEF next, g, h
  <2>15. CASE Slack(n) = 1
    <3>1. -n < n * g - M /\ n * g - M < n
      BY <2>10, <2>11, <2>12, <2>13, <2>14, <2>15, <2>2, <1>1
    <3>2. QED
      BY <3>1, <2>9, <2>15, <2>2 DEF h
  <2>16. CASE Slack(n) = 2
    <3>1. -n <= n * g - M /\ n * g - M <= n
      BY <2>10, <2>11, <2>13, <2>14, <2>2, <1>1
    <3>2. n * 2 = n + n /\ n > 0 /\ n * g \in Int
      BY <2>2, <2>13, <2>14
    <3>3. QED
      BY <3>1, <3>2, <2>9, <2>16, <2>2, <1>1 DEF h
  <2>17. QED
    BY <2>15, <2>16 DEF Slack
<1>10. QED
  BY <1>7, <1>9 DEF EvenlySpread, P, n, used

\* A redistribution that nothing overtook leaves the day evenly divided, whatever
\* the plan was, for as many customers as the day has minutes.
THEOREM RedistributionIsEven ==
    ASSUME Cardinality(Customer) <= MinutesPerDay
    PROVE  Spec => RedistributionEvens
<1>1. ASSUME IInv, Next, NEW r \in Request, Spread(r), ~task[r].stale
      PROVE  EvenlySpread(slot')
  <2>1. slot' \in Plans
    <3>1. IInv'
      BY <1>1, IInvNext
    <3>2. QED
      BY <3>1 DEF IInv, TypeOK
  <2>2. /\ Present(slot') = Present(slot)
        /\ \A c \in Present(slot) : slot'[c] = Target(c, slot)
    BY <1>1, SpreadPlan
  <2>3. QED
    BY <2>1, <2>2, SpreadIsEven
<1>2. IInv /\ [Next]_vars
        => [\A r \in Request : Spread(r) /\ ~task[r].stale => EvenlySpread(slot')]_vars
  BY <1>1
<1>3. QED
  BY <1>2, InductiveInvariant, PTL DEF Spec, RedistributionEvens

-------------------------------------------------------------------------------
(* How good the choice is *)

LEMMA DistanceIs ==
    ASSUME NEW m \in Minutes, NEW u \in Minutes, NEW d \in 0..MinutesPerDay,
           (u + d) % MinutesPerDay = m
    PROVE  Distance(m, u) = IF d <= MinutesPerDay - d THEN d ELSE MinutesPerDay - d
<1> DEFINE M == MinutesPerDay
           e == (m - u) % M
<1>1. /\ M \in Nat \ {0} /\ d \in Nat /\ d <= M
      /\ m \in Nat /\ m < M /\ u \in Nat /\ u < M
  BY SlotAssumption DEF Minutes
<1>2. m = IF u + d < M THEN u + d ELSE u + d - M
  BY <1>1, AroundOnce
<1>3. e = IF d = M THEN 0 ELSE d
  <2>1. m - u = d \/ m - u = d - M
    BY <1>1, <1>2
  <2>2. d < M => d % M = d /\ (d - M) % M = d
    BY <1>1
  <2>3. d = M => (d - M) % M = 0
    BY <1>1
  <2>4. d = M => m - u = d - M
    BY <1>1, <1>2
  <2>5. QED
    BY <1>1, <2>1, <2>2, <2>3, <2>4
<1> HIDE DEF e
<1>4. e \in Nat /\ M - e \in Nat
  BY <1>1, <1>3
<1>5. Min({e, M - e}) \in {e, M - e} /\ \A y \in {e, M - e} : Min({e, M - e}) <= y
  BY <1>4, MinIs
<1>6. Distance(m, u) = Min({e, M - e})
  BY DEF Distance, e
<1>7. QED
  BY <1>1, <1>3, <1>4, <1>5, <1>6

\* The way forward from one minute to another.
LEMMA WayForward ==
    ASSUME NEW m \in Minutes, NEW u \in Minutes
    PROVE  \E d \in 0..MinutesPerDay : d < MinutesPerDay /\ (u + d) % MinutesPerDay = m
<1>1. /\ MinutesPerDay \in Nat \ {0}
      /\ m \in Nat /\ m < MinutesPerDay /\ u \in Nat /\ u < MinutesPerDay
  BY SlotAssumption DEF Minutes
<1>2. CASE u <= m
  <2>1. (u + (m - u)) % MinutesPerDay = m
    BY <1>1
  <2>2. m - u \in 0..MinutesPerDay /\ m - u < MinutesPerDay
    BY <1>1, <1>2
  <2>3. QED
    BY <2>1, <2>2
<1>3. CASE u > m
  <2> DEFINE d == m - u + MinutesPerDay
  <2>1. u + d = m + MinutesPerDay /\ d \in 0..MinutesPerDay /\ d < MinutesPerDay
    BY <1>1, <1>3
  <2>2. (m + MinutesPerDay) % MinutesPerDay = m
    BY <1>1, AroundOnce
  <2>3. QED
    BY <2>1, <2>2
<1>4. QED
  BY <1>1, <1>2, <1>3

LEMMA ChoiceIsMiddle ==
    ASSUME NEW used, used \subseteq Minutes, used # {}
    PROVE  Farthest(AssignSlot(used), used)
<1> DEFINE M == MinutesPerDay
           s == WidestStart(used)
           g == Gap(s, used)
           h == g \div 2
           a == AssignSlot(used)
<1>1. M \in Nat \ {0} /\ \A v \in used : v \in Nat /\ v < M
  BY SlotAssumption DEF Minutes
<1>2. s \in used /\ \A v \in used : Gap(v, used) <= g
  BY WidestIs
<1>3. g \in 1..M /\ \A d \in 1..M : (s + d) % M \in used => g <= d
  BY <1>2, GapIs
<1>4. a = (s + h) % M /\ a \in Minutes
  BY AssignIsMinute DEF AssignSlot
<1> HIDE DEF s, g, a
<1>5. h \in Nat /\ 2 * h <= g /\ g <= 2 * h + 1 /\ h < g
  BY <1>1, <1>3
<1> HIDE DEF h
<1>6. a = IF s + h < M THEN s + h ELSE s + h - M
  <2>1. s \in Nat /\ s < M
    BY <1>1, <1>2
  <2>2. s + h \in Nat /\ s + h < 2 * M
    BY <1>1, <1>3, <1>5, <2>1
  <2>3. (s + h) % M = IF s + h < M THEN s + h ELSE s + h - M
    BY <1>1, <1>5, <2>1, <2>2, AroundOnce
  <2>4. QED
    BY <1>4, <2>3
<1>7. ASSUME NEW v \in used
      PROVE  h <= Distance(a, v) /\ Distance(a, v) \in Nat
  <2>1. PICK e \in 0..M : e < M /\ (v + e) % M = a
    BY <1>4, WayForward
  <2>2. Distance(a, v) = IF e <= M - e THEN e ELSE M - e
    BY <1>4, <2>1, DistanceIs
  <2>3. v \in Nat /\ v < M /\ s \in Nat /\ s < M /\ a = IF v + e < M THEN v + e ELSE v + e - M
    BY <1>1, <1>2, <2>1, AroundOnce
  <2>4. ~(e < h)
    <3> SUFFICES ASSUME e < h PROVE FALSE
      OBVIOUS
    <3>1. h - e \in 1..M /\ h - e < g
      BY <1>1, <1>3, <1>5, <2>1
    <3>2. (s + (h - e)) % M = IF s + (h - e) < M THEN s + (h - e) ELSE s + (h - e) - M
      BY <1>1, <1>3, <2>3, <3>1, AroundOnce
    <3>3. (s + (h - e)) % M = v
      BY <1>1, <1>5, <1>6, <2>1, <2>3, <3>1, <3>2
    <3>4. QED
      BY <1>1, <1>3, <3>1, <3>3
  <2>5. ~(M - e < h)
    <3> SUFFICES ASSUME M - e < h PROVE FALSE
      OBVIOUS
    <3>1. h + (M - e) \in 1..M /\ h + (M - e) < g
      BY <1>1, <1>3, <1>5, <2>1
    <3>2. (s + (h + (M - e))) % M
             = IF s + (h + (M - e)) < M THEN s + (h + (M - e)) ELSE s + (h + (M - e)) - M
      BY <1>1, <1>3, <2>3, <3>1, AroundOnce
    <3>3. (s + (h + (M - e))) % M = v
      BY <1>1, <1>5, <1>6, <2>1, <2>3, <3>1, <3>2
    <3>4. QED
      BY <1>1, <1>3, <3>1, <3>3
  <2>6. QED
    BY <1>1, <1>5, <2>1, <2>2, <2>4, <2>5
<1>8. ASSUME NEW other \in Minutes
      PROVE  \E u \in used : Distance(other, u) \in Nat /\ Distance(other, u) <= h
  <2>1. CASE other \in used
    <3>1. other \in Nat /\ other < M
      BY <1>1, <2>1
    <3>2. (other + 0) % M = other
      BY <1>1, <3>1
    <3>3. 0 \in 0..M
      BY <1>1
    <3>4. Distance(other, other) = IF 0 <= M - 0 THEN 0 ELSE M - 0
      BY <3>2, <3>3, DistanceIs
    <3>5. QED
      BY <1>1, <1>5, <2>1, <3>4
  <2>2. CASE other \notin used
    <3>1. PICK u \in used, d \in 1..M : (u + d) % M = other /\ d < Gap(u, used)
      BY <2>2, FreeInGap
    <3> DEFINE k == Gap(u, used)
               w == (u + k) % M
    <3>2. k \in 1..M /\ w \in used /\ k <= g
      BY <1>2, GapIs
    <3> HIDE DEF k
    <3>3. CASE d <= h
      <4>1. Distance(other, u) = IF d <= M - d THEN d ELSE M - d
        BY <3>1, <1>1, DistanceIs
      <4>2. QED
        BY <1>1, <1>5, <3>1, <3>3, <4>1
    <3>4. CASE d > h
      <4> DEFINE e == k - d
      <4>1. e \in Nat /\ e <= h /\ e <= M /\ u \in Nat /\ u < M
        BY <1>1, <1>3, <1>5, <3>1, <3>2, <3>4 DEF k
      <4>2. /\ w = IF u + k < M THEN u + k ELSE u + k - M
            /\ other = IF u + d < M THEN u + d ELSE u + d - M
        BY <1>1, <3>1, <3>2, <4>1, AroundOnce
      <4> HIDE DEF w
      <4>3. w \in Minutes /\ w \in Nat /\ w < M /\ M - e \in 0..M
        BY <1>1, <3>2, <4>1
      <4>4. (w + (M - e)) % M = IF w + (M - e) < M THEN w + (M - e) ELSE w + (M - e) - M
        <5>1. e # 0
          BY <3>1, <3>2, <1>1 DEF k
        <5>2. w + (M - e) \in Nat /\ w + (M - e) < 2 * M
          BY <1>1, <4>1, <4>3, <5>1
        <5>3. QED
          BY <1>1, <4>1, <4>3, <5>2, AroundOnce
      <4>5. (w + (M - e)) % M = other
        BY <1>1, <3>1, <3>2, <4>1, <4>2, <4>3, <4>4
      <4>6. Distance(other, w) = IF M - e <= M - (M - e) THEN M - e ELSE M - (M - e)
        BY <4>3, <4>5, DistanceIs
      <4>7. QED
        BY <1>1, <1>5, <3>2, <4>1, <4>6 DEF w
    <3>5. QED
      BY <1>5, <3>1, <3>3, <3>4
  <2>3. QED
    BY <2>1, <2>2
<1>9. QED
  <2> SUFFICES ASSUME NEW other \in Minutes
               PROVE  \E u \in used : \A v \in used : Distance(other, u) <= Distance(a, v)
    BY DEF Farthest, a
  <2>1. PICK u \in used : Distance(other, u) \in Nat /\ Distance(other, u) <= h
    BY <1>8
  <2>2. \A v \in used : Distance(other, u) <= Distance(a, v)
    BY <1>5, <1>7, <2>1
  <2>3. QED
    BY <2>2

\* No minute would have been farther from the customers a form looked at than the
\* one it chose, whatever the plan.
THEOREM ChoiceIsAlwaysFarthest == Spec => ChoiceIsFarthest
<1>1. ASSUME IInv, Next, NEW r \in Request,
             task[r].step = "idle", task'[r].step = "picked", Used(slot) # {}
      PROVE  \A c \in DOMAIN task'[r].moves : Farthest(task'[r].moves[c], Used(slot))
  <2>0. Used(slot) \subseteq Minutes /\ task \in [Request -> Task]
    BY <1>1, UsedAreMinutes DEF IInv, TypeOK, Task
  <2>1. ASSUME NEW q \in Request, NEW c \in Customer, PickSlot(q, c)
        PROVE  \A d \in DOMAIN task'[r].moves : Farthest(task'[r].moves[d], Used(slot))
    <3> DEFINE moves == [d \in {c} |-> AssignSlot(Used(slot))]
    <3>1. task' = [task EXCEPT ![q] = [step |-> "picked", moves |-> moves, stale |-> FALSE]]
      BY <2>1 DEF PickSlot, Reads
    <3>2. q = r
      BY <1>1, <2>0, <3>1
    <3>3. task'[r].moves = moves
      BY <2>0, <3>1, <3>2
    <3>4. Farthest(AssignSlot(Used(slot)), Used(slot))
      BY <1>1, <2>0, ChoiceIsMiddle
    <3>5. QED
      BY <3>3, <3>4
  <2>2. ASSUME NEW q \in Request, LoadAll(q) PROVE FALSE
    <3>1. task'[r].step \in {"loaded", "idle"}
      BY <1>1, <2>0, <2>2 DEF LoadAll, Reads
    <3>2. QED
      BY <1>1, <3>1
  <2>3. ASSUME NEW q \in Request, NEW plan, Commits(q, plan) PROVE FALSE
    <3>1. task'[r].step = "idle"
      BY <1>1, <2>3 DEF Commits, Idle
    <3>2. QED
      BY <1>1, <3>1
  <2>4. ASSUME NEW q \in Request, Abandon(q) PROVE FALSE
    <3>1. task'[r].step = "idle"
      BY <1>1, <2>0, <2>4 DEF Abandon, Idle
    <3>2. QED
      BY <1>1, <3>1
  <2>5. QED
    BY <1>1, <2>1, <2>2, <2>3, <2>4 DEF Next, CommitForm, CreateViaApi, Delete, Spread
<1>2. IInv /\ [Next]_vars
        => [\A r \in Request :
               task[r].step = "idle" /\ task'[r].step = "picked" /\ Used(slot) # {}
                   => \A c \in DOMAIN task'[r].moves :
                          Farthest(task'[r].moves[c], Used(slot))]_vars
  BY <1>1
<1>3. QED
  BY <1>2, InductiveInvariant, PTL DEF Spec, ChoiceIsFarthest
===============================================================================
