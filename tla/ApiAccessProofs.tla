---------------------------- MODULE ApiAccessProofs ----------------------------
(***************************************************************************)
(* The limiter keeps its promise for any keys, limits, windows, number of  *)
(* callers and cap of the table.  The argument: a bucket is always the     *)
(* tail of what was admitted under its key, each event recorded at most    *)
(* MaxDelay too early, and everything in front of that tail has left the   *)
(* window, short of MaxDelay.  A call is admitted only if fewer than       *)
(* anzahl events are left, so the anzahl-th last one is in front.          *)
(*                                                                         *)
(* The interface uses the limiter as RateLimit describes it, so that what  *)
(* is proved of the limiter holds of it: every step of ApiAccess is a step *)
(* of RateLimit or leaves the limiter alone.  And a good key's allowance   *)
(* is spent by its own calls only: what got through with a key is, event   *)
(* by event, what the limiter admitted under that key, because no other    *)
(* request ever asks for that limit.                                       *)
(***************************************************************************)
EXTENDS ApiAccess, FiniteSetTheorems, SequenceTheorems, TLAPS

-------------------------------------------------------------------------------
(* The limiter *)

\* The bucket b is all that the window of length f still needs of history g.
Covers(b, g, f, t) ==
    /\ Len(b) <= Len(g)
    /\ \A i \in 1..Len(b) : /\ b[i] <= g[Len(g) - Len(b) + i]
                            /\ g[Len(g) - Len(b) + i] <= b[i] + MaxDelay
    /\ \A j \in 1..(Len(g) - Len(b)) : g[j] + f <= t + MaxDelay
    /\ \A i, j \in 1..Len(g) : i <= j => g[i] <= g[j]
    /\ \A j \in 1..Len(g) : g[j] <= t

\* Any n + 1 admissions in a row span the window f, short of MaxDelay.
Spaced(g, n, f) ==
    \A i \in 1..Len(g) : i + n <= Len(g) => g[i + n] - g[i] >= f - MaxDelay

\* A bucket that covers its history goes on covering it as time passes.
LEMMA CoversLater ==
    ASSUME NEW b \in Seq(Nat), NEW g \in Seq(Nat), NEW f \in Nat, NEW t \in Nat,
           Covers(b, g, f, t)
    PROVE  Covers(b, g, f, t + 1)
<1>1. MaxDelay \in Nat /\ Len(g) \in Nat /\ Len(b) \in Nat
  BY LimitAssumption, LenProperties
<1>2. \A j \in 1..Len(g) : g[j] \in Nat
  BY ElementOfSeq
<1>3. \A j \in 1..(Len(g) - Len(b)) : g[j] + f <= t + 1 + MaxDelay
  <2> TAKE j \in 1..(Len(g) - Len(b))
  <2>1. g[j] + f <= t + MaxDelay
    BY DEF Covers
  <2>2. j \in 1..Len(g)
    BY <1>1
  <2>3. g[j] \in Nat
    BY <1>2, <2>2
  <2>4. QED
    BY <1>1, <2>1, <2>3
<1>4. \A j \in 1..Len(g) : g[j] <= t + 1
  <2> TAKE j \in 1..Len(g)
  <2>1. g[j] <= t /\ g[j] \in Nat
    BY <1>2 DEF Covers
  <2>2. QED
    BY <2>1
<1>5. QED
  BY <1>3, <1>4 DEF Covers

\* What is left of a bucket after its first n events were dropped.
LEMMA DroppedHead ==
    ASSUME NEW b \in Seq(Nat), NEW n \in 0..Len(b)
    PROVE  LET left == SubSeq(b, n + 1, Len(b))
           IN  /\ left \in Seq(Nat)
               /\ Len(left) = IF n + 1 <= Len(b) THEN Len(b) - (n + 1) + 1 ELSE 0
               /\ \A i \in 1..(Len(b) - (n + 1) + 1) : left[i] = b[n + 1 + i - 1]
<1>1. Len(b) \in Nat /\ n \in Nat /\ n <= Len(b)
  BY LenProperties
<1>2. \A i \in (n + 1)..Len(b) : b[i] \in Nat
  BY <1>1, ElementOfSeq
<1>3. QED
  BY <1>1, <1>2, SubSeqProperties

\* Dropping expired events from the head of a bucket loses nothing.
LEMMA CoversDropped ==
    ASSUME NEW b \in Seq(Nat), NEW g \in Seq(Nat), NEW f \in Nat, NEW t \in Nat,
           Covers(b, g, f, t), NEW n \in 0..Len(b),
           \A i \in 1..n : b[i] + f <= t
    PROVE  LET left == SubSeq(b, n + 1, Len(b))
           IN  left \in Seq(Nat) /\ Len(left) = Len(b) - n /\ Covers(left, g, f, t)
<1> DEFINE left == SubSeq(b, n + 1, Len(b))
           d == Len(g) - Len(b)
<1>1. MaxDelay \in Nat /\ Len(g) \in Nat /\ Len(b) \in Nat /\ n \in Nat /\ n <= Len(b)
  BY LimitAssumption, LenProperties
<1>2. \A j \in 1..Len(g) : g[j] \in Nat
  BY ElementOfSeq
<1>3. \A j \in 1..Len(b) : b[j] \in Nat
  BY ElementOfSeq
<1>4. /\ left \in Seq(Nat)
      /\ Len(left) = IF n + 1 <= Len(b) THEN Len(b) - (n + 1) + 1 ELSE 0
      /\ \A i \in 1..(Len(b) - (n + 1) + 1) : left[i] = b[n + 1 + i - 1]
  BY DroppedHead
<1> HIDE DEF left
<1>5. Len(left) = Len(b) - n
  BY <1>1, <1>4
<1>6. Len(g) - Len(left) = d + n /\ d \in Nat /\ d + n <= Len(g)
  BY <1>1, <1>5 DEF Covers
<1>7. ASSUME NEW i \in 1..Len(left)
      PROVE  /\ left[i] <= g[d + n + i]
             /\ g[d + n + i] <= left[i] + MaxDelay
  <2>1. n + i \in 1..Len(b) /\ i \in 1..(Len(b) - (n + 1) + 1) /\ n + 1 + i - 1 = n + i
    BY <1>1, <1>5
  <2>2. left[i] = b[n + i]
    BY <1>4, <2>1
  <2>3. b[n + i] <= g[d + (n + i)] /\ g[d + (n + i)] <= b[n + i] + MaxDelay
    BY <2>1 DEF Covers
  <2>4. d + (n + i) = d + n + i
    BY <1>1, <1>6
  <2>5. QED
    BY <2>2, <2>3, <2>4
<1>8. ASSUME NEW j \in 1..(d + n) PROVE g[j] + f <= t + MaxDelay
  <2>1. CASE j \in 1..d
    BY <2>1 DEF Covers
  <2>2. CASE j \notin 1..d
    <3>1. j - d \in 1..n /\ j - d \in 1..Len(b) /\ d + (j - d) = j /\ j \in 1..Len(g)
      BY <1>1, <1>6, <2>2
    <3>2. g[d + (j - d)] <= b[j - d] + MaxDelay
      BY <3>1 DEF Covers
    <3>3. b[j - d] + f <= t
      BY <3>1
    <3>4. b[j - d] \in Nat /\ g[j] \in Nat
      BY <1>2, <1>3, <3>1
    <3> DEFINE e == b[j - d]
               a == g[j]
    <3>5. a <= e + MaxDelay /\ e + f <= t /\ e \in Nat /\ a \in Nat
      BY <3>1, <3>2, <3>3, <3>4
    <3> HIDE DEF e, a
    <3>6. a + f <= t + MaxDelay
      BY <1>1, <3>5
    <3>7. QED
      BY <3>6 DEF a
  <2>3. QED
    BY <2>1, <2>2
<1>9. Covers(left, g, f, t)
  BY <1>5, <1>6, <1>7, <1>8, <1>1 DEF Covers
<1>10. QED
  BY <1>4, <1>5, <1>9 DEF left

\* A bucket that is cleared away had nothing left in its window.
LEMMA CoversCleared ==
    ASSUME NEW b \in Seq(Nat), NEW g \in Seq(Nat), NEW f \in Nat, NEW t \in Nat,
           Covers(b, g, f, t), Len(b) > 0 => b[Len(b)] + f <= t
    PROVE  Covers(<<>>, g, f, t)
<1>1. MaxDelay \in Nat /\ Len(g) \in Nat /\ Len(b) \in Nat /\ Len(b) <= Len(g)
  BY LimitAssumption, LenProperties DEF Covers
<1>2. \A j \in 1..Len(g) : g[j] \in Nat
  BY ElementOfSeq
<1>3. \A j \in 1..Len(b) : b[j] \in Nat
  BY ElementOfSeq
<1>4. Len(<<>>) = 0 /\ Len(g) - 0 = Len(g)
  BY <1>1, EmptySeq
<1>5. ASSUME NEW j \in 1..Len(g) PROVE g[j] + f <= t + MaxDelay
  <2>1. CASE Len(b) = 0
    <3>1. j \in 1..(Len(g) - Len(b))
      BY <1>1, <2>1
    <3>2. QED
      BY <3>1 DEF Covers
  <2>2. CASE Len(b) # 0
    <3>1. /\ Len(b) > 0 /\ Len(b) \in 1..Len(b) /\ Len(g) \in 1..Len(g) /\ j <= Len(g)
          /\ Len(g) - Len(b) + Len(b) = Len(g)
      BY <1>1, <2>2
    <3>2. g[Len(g)] <= b[Len(b)] + MaxDelay
      BY <3>1 DEF Covers
    <3>3. g[j] <= g[Len(g)]
      BY <3>1 DEF Covers
    <3>4. b[Len(b)] + f <= t
      BY <3>1
    <3>5. g[j] \in Nat /\ g[Len(g)] \in Nat /\ b[Len(b)] \in Nat
      BY <1>2, <1>3, <3>1
    <3> DEFINE first == g[j]
               last == g[Len(g)]
               e == b[Len(b)]
    <3>6. /\ first <= last /\ last <= e + MaxDelay /\ e + f <= t
          /\ first \in Nat /\ last \in Nat /\ e \in Nat
      BY <3>2, <3>3, <3>4, <3>5
    <3> HIDE DEF first, last, e
    <3>7. first + f <= t + MaxDelay
      BY <1>1, <3>6
    <3>8. QED
      BY <3>7 DEF first
  <2>3. QED
    BY <2>1, <2>2
<1>6. QED
  BY <1>1, <1>4, <1>5 DEF Covers

\* An admitted call: recorded in the bucket with the clock it read, and in the
\* history with the time it is.
LEMMA CoversAdmitted ==
    ASSUME NEW b \in Seq(Nat), NEW g \in Seq(Nat), NEW f \in Nat, NEW t \in Nat,
           Covers(b, g, f, t), NEW jetzt \in Nat, jetzt <= t, t <= jetzt + MaxDelay
    PROVE  Covers(Append(b, jetzt), Append(g, t), f, t)
<1> DEFINE b2 == Append(b, jetzt)
           g2 == Append(g, t)
           m == Len(b)
           l == Len(g)
<1>1. MaxDelay \in Nat /\ l \in Nat /\ m \in Nat /\ m <= l
  BY LimitAssumption, LenProperties DEF Covers
<1>2. /\ Len(b2) = m + 1 /\ \A i \in 1..m : b2[i] = b[i]
      /\ b2[m + 1] = jetzt
  BY AppendProperties
<1>3. /\ Len(g2) = l + 1 /\ \A i \in 1..l : g2[i] = g[i]
      /\ g2[l + 1] = t
  BY AppendProperties
<1>4. /\ \A i \in 1..m : b[i] <= g[l - m + i] /\ g[l - m + i] <= b[i] + MaxDelay
      /\ \A j \in 1..(l - m) : g[j] + f <= t + MaxDelay
      /\ \A i, j \in 1..l : i <= j => g[i] <= g[j]
      /\ \A j \in 1..l : g[j] <= t
  BY DEF Covers
<1> HIDE DEF b2, g2, m, l
<1>5. ASSUME NEW i \in 1..(m + 1)
      PROVE  b2[i] <= g2[(l + 1) - (m + 1) + i] /\ g2[(l + 1) - (m + 1) + i] <= b2[i] + MaxDelay
  <2>1. CASE i = m + 1
    <3>1. (l + 1) - (m + 1) + i = l + 1
      BY <1>1, <2>1
    <3>2. QED
      BY <1>2, <1>3, <2>1, <3>1
  <2>2. CASE i # m + 1
    <3>1. i \in 1..m /\ (l + 1) - (m + 1) + i = l - m + i /\ l - m + i \in 1..l
      BY <1>1, <2>2
    <3>2. QED
      BY <1>2, <1>3, <1>4, <3>1
  <2>3. QED
    BY <2>1, <2>2
<1>6. ASSUME NEW j \in 1..((l + 1) - (m + 1)) PROVE g2[j] + f <= t + MaxDelay
  <2>1. j \in 1..(l - m) /\ j \in 1..l
    BY <1>1
  <2>2. QED
    BY <1>3, <1>4, <2>1
<1>7. ASSUME NEW j \in 1..(l + 1) PROVE g2[j] <= t
  <2>1. CASE j = l + 1
    BY <1>3, <2>1
  <2>2. CASE j # l + 1
    <3>1. j \in 1..l
      BY <1>1, <2>2
    <3>2. QED
      BY <1>3, <1>4, <3>1
  <2>3. QED
    BY <2>1, <2>2
<1>8. ASSUME NEW i \in 1..(l + 1), NEW j \in 1..(l + 1), i <= j PROVE g2[i] <= g2[j]
  <2>1. CASE j = l + 1
    BY <1>3, <1>7, <2>1
  <2>2. CASE j # l + 1
    <3>1. i \in 1..l /\ j \in 1..l
      BY <1>1, <1>8, <2>2
    <3>2. QED
      BY <1>3, <1>4, <1>8, <3>1
  <2>3. QED
    BY <2>1, <2>2
<1>9. m + 1 <= l + 1
  BY <1>1
<1>10. Covers(b2, g2, f, t)
  BY <1>2, <1>3, <1>5, <1>6, <1>7, <1>8, <1>9 DEF Covers
<1>11. QED
  BY <1>10 DEF b2, g2

\* ... and it keeps its distance to the one anzahl places before it.
LEMMA SpacedAdmitted ==
    ASSUME NEW b \in Seq(Nat), NEW g \in Seq(Nat), NEW f \in Nat, NEW t \in Nat,
           NEW n \in Nat \ {0}, Covers(b, g, f, t), Spaced(g, n, f), Len(b) < n
    PROVE  Spaced(Append(g, t), n, f)
<1> DEFINE g2 == Append(g, t)
           l == Len(g)
<1>1. MaxDelay \in Nat /\ l \in Nat /\ Len(b) \in Nat
  BY LimitAssumption, LenProperties
<1>2. Len(g2) = l + 1 /\ (\A i \in 1..l : g2[i] = g[i]) /\ g2[l + 1] = t
  BY AppendProperties
<1>3. \A j \in 1..l : g[j] \in Nat
  BY ElementOfSeq
<1> HIDE DEF g2
<1>4. ASSUME NEW i \in 1..(l + 1), i + n <= l + 1 PROVE g2[i + n] - g2[i] >= f - MaxDelay
  <2>0. i \in 1..l
    BY <1>1, <1>4
  <2>1. CASE i + n = l + 1
    <3>1. i \in 1..(l - Len(b))
      BY <1>1, <2>0, <2>1
    <3>2. g[i] + f <= t + MaxDelay
      BY <3>1 DEF Covers
    <3>3. g[i] \in Nat
      BY <1>3, <2>0
    <3>4. t - g[i] >= f - MaxDelay
      BY <1>1, <3>2, <3>3
    <3>5. QED
      BY <1>2, <2>0, <2>1, <3>4
  <2>2. CASE i + n # l + 1
    <3>1. i + n <= l /\ i + n \in 1..l
      BY <1>1, <1>4, <2>0, <2>2
    <3>2. g[i + n] - g[i] >= f - MaxDelay
      BY <2>0, <3>1 DEF Spaced
    <3>3. QED
      BY <1>2, <2>0, <3>1, <3>2
  <2>3. QED
    BY <2>1, <2>2
<1>5. Spaced(g2, n, f)
  BY <1>2, <1>4 DEF Spaced
<1>6. QED
  BY <1>5 DEF g2

-------------------------------------------------------------------------------
(* The inductive invariant *)

\* Arithmetic that the provers want stated for numbers of any size.
LEMMA ProductGrows ==
    ASSUME NEW a \in Int, NEW b \in Int, NEW s \in Nat \ {0}, a >= b
    PROVE  a * s >= b * s
  BY Z3

LEMMA ProductOfNext ==
    ASSUME NEW b \in Int, NEW s \in Int
    PROVE  (b + 1) * s = b * s + s
  BY Z3

LEMMA WaitIsNat ==
    ASSUME NEW k \in Key, NEW head \in Nat, NEW jetzt \in Nat
    PROVE  Wait(head, k, jetzt) \in Nat
  BY LimitAssumption DEF Wait

\* A call that has read the clock reads it at most MaxDelay too early.
CallInv ==
    \A c \in Caller : call[c].step = "read" =>
        /\ call[c].key \in Key
        /\ call[c].jetzt <= now
        /\ now <= call[c].jetzt + MaxDelay

BucketInv ==
    \A k \in Key : /\ Covers(eimer[k], admitted[k], fenster[k], now)
                   /\ Spaced(admitted[k], anzahl[k], fenster[k])
                   /\ k \notin table => eimer[k] = <<>>

TableInv == IsFiniteSet(table) /\ Cardinality(table) <= MaxEimer

IInv == TypeOK /\ CallInv /\ BucketInv /\ TableInv

LEMMA IdleIsAnswer ==
    /\ Idle \in Answer
    /\ \A w \in Nat : [Idle EXCEPT !.wait = w] \in Answer
    /\ \A w \in Nat : [Idle EXCEPT !.full = TRUE, !.wait = w] \in Answer
    /\ [Idle EXCEPT !.ok = TRUE] \in Answer
    /\ \A k \in Key, t \in Nat :
          [Idle EXCEPT !.step = "read", !.key = k, !.jetzt = t] \in Answer
  BY DEF Idle, Answer

LEMMA IInvInit == Init => IInv
<1> SUFFICES ASSUME Init PROVE IInv
  OBVIOUS
<1>1. <<>> \in Seq(Nat) /\ Len(<<>>) = 0
  BY EmptySeq
<1>2. TypeOK
  BY <1>1, IdleIsAnswer DEF Init, TypeOK
<1>3. CallInv
  BY DEF Init, CallInv, Idle
<1>4. BucketInv
  BY <1>1 DEF Init, BucketInv, Covers, Spaced
<1>5. TableInv
  BY FS_EmptySet, LimitAssumption DEF Init, TableInv
<1>6. QED
  BY <1>2, <1>3, <1>4, <1>5 DEF IInv

\* Adding a key after clearing keeps the table within its cap.
LEMMA KnownBounded ==
    ASSUME TableInv, NEW k \in Key, NEW jetzt,
           k \in table \/ ~Full \/ Cleared(jetzt) # {}
    PROVE  /\ IsFiniteSet(Known(k, jetzt))
           /\ Cardinality(Known(k, jetzt)) <= MaxEimer
<1>1. IsFiniteSet(table) /\ Cardinality(table) \in Nat /\ Cardinality(table) <= MaxEimer
      /\ MaxEimer \in Nat
  BY FS_CardinalityType, LimitAssumption DEF TableInv
<1>2. CASE k \in table
  <2>1. Known(k, jetzt) = table
    BY <1>2 DEF Known
  <2>2. QED
    BY <1>1, <2>1
<1>3. CASE k \notin table /\ ~Full
  <2>1. Known(k, jetzt) = table \cup {k}
    BY <1>3 DEF Known
  <2>2. IsFiniteSet(table \cup {k}) /\ Cardinality(table \cup {k}) = Cardinality(table) + 1
    BY <1>1, <1>3, FS_AddElement
  <2>3. Cardinality(table) + 1 <= MaxEimer
    BY <1>1, <1>3 DEF Full
  <2>4. QED
    BY <2>1, <2>2, <2>3
<1>4. CASE k \notin table /\ Full
  <2> DEFINE rest == table \ Cleared(jetzt)
  <2>1. Known(k, jetzt) = rest \cup {k}
    BY <1>4 DEF Known
  <2>2. PICK gone \in Cleared(jetzt) : gone \in table
    BY <1>4 DEF Cleared
  <2>3. rest \in SUBSET (table \ {gone})
    BY <2>2
  <2>4. IsFiniteSet(table \ {gone}) /\ Cardinality(table \ {gone}) = Cardinality(table) - 1
    BY <1>1, <2>2, FS_RemoveElement
  <2> HIDE DEF rest
  <2>5. IsFiniteSet(rest) /\ Cardinality(rest) <= Cardinality(table) - 1
        /\ Cardinality(rest) \in Nat
    BY <2>3, <2>4, FS_Subset, FS_CardinalityType
  <2>6. IsFiniteSet(rest \cup {k}) /\ Cardinality(rest \cup {k}) <= Cardinality(rest) + 1
    <3>1. IsFiniteSet(rest \cup {k})
          /\ Cardinality(rest \cup {k})
               = IF k \in rest THEN Cardinality(rest) ELSE Cardinality(rest) + 1
      BY <2>5, FS_AddElement
    <3>2. QED
      BY <2>5, <3>1
  <2>7. Cardinality(rest \cup {k}) \in Nat
    BY <2>6, FS_CardinalityType
  <2>8. QED
    BY <1>1, <2>1, <2>5, <2>6, <2>7
<1>5. QED
  BY <1>2, <1>3, <1>4

\* A step of pruefe under the lock keeps the invariant, admitted or rejected.
LEMMA RegisterKeeps ==
    ASSUME IInv, NEW c \in Caller, Register(c) PROVE IInv'
<1> DEFINE k == call[c].key
           jetzt == call[c].jetzt
           b == eimer[k]
           g == admitted[k]
           f == fenster[k]
           kept == [j \in Key |-> IF j \in table' THEN eimer[j] ELSE <<>>]
<1>1. /\ k \in Key /\ jetzt \in Nat /\ jetzt <= now /\ now <= jetzt + MaxDelay
      /\ now \in Nat /\ now' = now /\ call[c].step = "read"
      /\ b \in Seq(Nat) /\ g \in Seq(Nat)
  BY DEF IInv, CallInv, Register, TypeOK, Answer
<1>2. /\ f \in Nat \ {0} /\ anzahl[k] \in Nat \ {0} /\ MaxDelay \in Nat
  BY <1>1, LimitAssumption
<1>3. Covers(b, g, f, now) /\ Spaced(g, anzahl[k], f)
  BY <1>1 DEF IInv, BucketInv
<1>4. table' = Known(k, jetzt) /\ k \in table' /\ table' \subseteq Key
      /\ (k \in table \/ ~Full \/ Cleared(jetzt) # {})
  BY <1>1 DEF Register, Known, IInv, TypeOK
<1>5. TableInv'
  BY <1>1, <1>4, KnownBounded DEF IInv, TableInv
<1>6. ASSUME NEW j \in Key
      PROVE  /\ kept[j] \in Seq(Nat)
             /\ Covers(kept[j], admitted[j], fenster[j], now)
             /\ j \notin table' => kept[j] = <<>>
  <2>1. eimer[j] \in Seq(Nat) /\ admitted[j] \in Seq(Nat) /\ fenster[j] \in Nat
        /\ fenster[j] <= AelterAls /\ AelterAls \in Nat /\ Len(eimer[j]) \in Nat
    BY LimitAssumption, LenProperties DEF IInv, TypeOK
  <2>2. Covers(eimer[j], admitted[j], fenster[j], now) /\ (j \notin table => eimer[j] = <<>>)
    BY DEF IInv, BucketInv
  <2>3. CASE j \in table'
    BY <2>1, <2>2, <2>3
  <2>4. CASE j \notin table
    <3>1. kept[j] = eimer[j]
      BY <2>2, <2>4
    <3>2. QED
      BY <2>1, <2>2, <2>4, <3>1
  <2>5. CASE j \in table /\ j \notin table'
    <3>1. Stale(j, jetzt)
      BY <1>4, <2>5 DEF Known, Cleared
    <3>2. ASSUME Len(eimer[j]) > 0 PROVE eimer[j][Len(eimer[j])] + fenster[j] <= now
      <4>1. Len(eimer[j]) \in 1..Len(eimer[j])
        BY <2>1, <3>2
      <4>2. eimer[j][Len(eimer[j])] \in Nat
        BY <2>1, <4>1, ElementOfSeq
      <4>3. eimer[j] # <<>>
        BY <3>2, EmptySeq
      <4>4. jetzt - eimer[j][Len(eimer[j])] > AelterAls
        BY <3>1, <4>3 DEF Stale
      <4> DEFINE last == eimer[j][Len(eimer[j])]
                 fj == fenster[j]
      <4>5. jetzt - last > AelterAls /\ last \in Nat /\ fj <= AelterAls /\ fj \in Nat
        BY <2>1, <4>2, <4>4
      <4> HIDE DEF last, fj, jetzt
      <4>6. last + fj <= now
        BY <1>1, <2>1, <4>5
      <4>7. QED
        BY <4>6 DEF last, fj
    <3>3. Covers(<<>>, admitted[j], fenster[j], now)
      BY <1>1, <2>1, <2>2, <3>2, CoversCleared
    <3>4. QED
      BY <2>5, <3>3, EmptySeq
  <2>6. QED
    BY <2>3, <2>4, <2>5
<1>7. PICK n \in 0..Len(b) :
        LET left == SubSeq(b, n + 1, Len(b))
        IN  /\ Drops(b, n, k, jetzt)
            /\ IF Len(left) >= anzahl[k]
               THEN /\ eimer' = [kept EXCEPT ![k] = left]
                    /\ call' = [call EXCEPT ![c] = [Idle EXCEPT !.wait = Wait(left[1], k, jetzt)]]
                    /\ UNCHANGED admitted
               ELSE /\ eimer' = [kept EXCEPT ![k] = Append(left, jetzt)]
                    /\ call' = [call EXCEPT ![c] = [Idle EXCEPT !.ok = TRUE]]
                    /\ admitted' = [admitted EXCEPT ![k] = Append(g, now)]
  BY DEF Register
<1> DEFINE left == SubSeq(b, n + 1, Len(b))
<1>8. \A i \in 1..n : b[i] + f <= now
  <2> TAKE i \in 1..n
  <2>1. jetzt - b[i] >= f
    BY <1>7 DEF Drops, Expired
  <2>2. i \in 1..Len(b)
    BY <1>1, LenProperties
  <2>3. b[i] \in Nat
    BY <1>1, <2>2, ElementOfSeq
  <2> DEFINE e == b[i]
  <2>4. jetzt - e >= f /\ e \in Nat
    BY <2>1, <2>3
  <2> HIDE DEF e, jetzt, f
  <2>5. e + f <= now
    BY <1>1, <1>2, <2>4
  <2>6. QED
    BY <2>5 DEF e
<1>9. left \in Seq(Nat) /\ Len(left) \in Nat /\ Covers(left, g, f, now)
  <2>1. left \in Seq(Nat) /\ Covers(left, g, f, now)
    BY <1>1, <1>2, <1>3, <1>8, CoversDropped
  <2>2. QED
    BY <2>1, LenProperties
<1> HIDE DEF kept, left
<1>10. kept \in [Key -> Seq(Nat)]
  BY <1>6 DEF kept
<1>11. ASSUME NEW bucket \in Seq(Nat), NEW history \in Seq(Nat),
              eimer' = [kept EXCEPT ![k] = bucket],
              admitted' = [admitted EXCEPT ![k] = history],
              Covers(bucket, history, f, now), Spaced(history, anzahl[k], f)
       PROVE  /\ BucketInv'
              /\ eimer' \in [Key -> Seq(Nat)]
              /\ admitted' \in [Key -> Seq(Nat)]
  <2>1. eimer' \in [Key -> Seq(Nat)] /\ admitted' \in [Key -> Seq(Nat)]
    BY <1>1, <1>10, <1>11 DEF IInv, TypeOK
  <2>2. eimer'[k] = bucket /\ admitted'[k] = history
    BY <1>1, <1>10, <1>11 DEF IInv, TypeOK
  <2>3. ASSUME NEW j \in Key
        PROVE  /\ Covers(eimer'[j], admitted'[j], fenster[j], now')
               /\ Spaced(admitted'[j], anzahl[j], fenster[j])
               /\ j \notin table' => eimer'[j] = <<>>
    <3>1. CASE j = k
      BY <1>1, <1>4, <1>11, <2>2, <3>1
    <3>2. CASE j # k
      <4>1. eimer'[j] = kept[j] /\ admitted'[j] = admitted[j]
        BY <1>10, <1>11, <3>2 DEF IInv, TypeOK
      <4>2. Spaced(admitted[j], anzahl[j], fenster[j])
        BY DEF IInv, BucketInv
      <4>3. QED
        BY <1>1, <1>6, <4>1, <4>2
    <3>3. QED
      BY <3>1, <3>2
  <2>4. BucketInv'
    BY <2>3 DEF BucketInv
  <2>5. QED
    BY <2>1, <2>4
<1>12. ASSUME NEW answer \in Answer, answer.step = "idle", call' = [call EXCEPT ![c] = answer]
       PROVE  CallInv' /\ call' \in [Caller -> Answer]
  BY <1>1, <1>12 DEF IInv, CallInv, TypeOK
<1>13. Idle.step = "idle" /\ [Idle EXCEPT !.ok = TRUE].step = "idle"
       /\ \A w \in Nat : [Idle EXCEPT !.wait = w].step = "idle"
  BY DEF Idle
<1>14. CASE Len(left) >= anzahl[k]
  <2>1. /\ eimer' = [kept EXCEPT ![k] = left]
        /\ call' = [call EXCEPT ![c] = [Idle EXCEPT !.wait = Wait(left[1], k, jetzt)]]
        /\ UNCHANGED admitted
    BY <1>7, <1>14 DEF left
  <2>2. left[1] \in Nat
    <3>1. 1 \in 1..Len(left)
      BY <1>2, <1>9, <1>14
    <3>2. QED
      BY <1>9, <3>1, ElementOfSeq
  <2>3. Wait(left[1], k, jetzt) \in Nat
    BY <1>1, <2>2, WaitIsNat
  <2>4. CallInv' /\ call' \in [Caller -> Answer]
    BY <1>12, <1>13, <2>1, <2>3, IdleIsAnswer
  <2>5. admitted' = [admitted EXCEPT ![k] = g]
    BY <1>1, <2>1 DEF IInv, TypeOK
  <2>6. /\ BucketInv'
        /\ eimer' \in [Key -> Seq(Nat)]
        /\ admitted' \in [Key -> Seq(Nat)]
    BY <1>1, <1>3, <1>9, <1>11, <2>1, <2>5
  <2>7. QED
    BY <1>1, <1>4, <1>5, <2>4, <2>6 DEF IInv, TypeOK
<1>15. CASE ~(Len(left) >= anzahl[k])
  <2>1. /\ eimer' = [kept EXCEPT ![k] = Append(left, jetzt)]
        /\ call' = [call EXCEPT ![c] = [Idle EXCEPT !.ok = TRUE]]
        /\ admitted' = [admitted EXCEPT ![k] = Append(g, now)]
    BY <1>7, <1>15 DEF left
  <2>2. CallInv' /\ call' \in [Caller -> Answer]
    BY <1>12, <1>13, <2>1, IdleIsAnswer
  <2>3. Append(left, jetzt) \in Seq(Nat) /\ Append(g, now) \in Seq(Nat)
    BY <1>1, <1>9, AppendProperties
  <2>4. Len(left) < anzahl[k]
    BY <1>2, <1>9, <1>15
  <2>5. Covers(Append(left, jetzt), Append(g, now), f, now)
    BY <1>1, <1>2, <1>9, CoversAdmitted
  <2>6. Spaced(Append(g, now), anzahl[k], f)
    BY <1>1, <1>2, <1>3, <1>9, <2>4, SpacedAdmitted
  <2>7. /\ BucketInv'
        /\ eimer' \in [Key -> Seq(Nat)]
        /\ admitted' \in [Key -> Seq(Nat)]
    BY <1>11, <2>1, <2>3, <2>5, <2>6
  <2>8. QED
    BY <1>1, <1>4, <1>5, <2>2, <2>7 DEF IInv, TypeOK
<1>16. QED
  BY <1>14, <1>15

\* The limiter's invariant holds through every call and every second.
LEMMA IInvNext == IInv /\ [Next]_vars => IInv'
<1> SUFFICES ASSUME IInv, [Next]_vars PROVE IInv'
  OBVIOUS
<1>1. CASE Tick
  <2>1. now' = now + 1 /\ now \in Nat /\ UNCHANGED <<eimer, table, call, admitted>>
    BY <1>1 DEF Tick, IInv, TypeOK
  <2>2. TypeOK' /\ TableInv'
    BY <2>1 DEF IInv, TypeOK, TableInv
  <2>3. CallInv'
    <3> SUFFICES ASSUME NEW c \in Caller, call[c].step = "read"
                 PROVE  /\ call[c].key \in Key
                        /\ call[c].jetzt <= now + 1
                        /\ now + 1 <= call[c].jetzt + MaxDelay
      BY <2>1 DEF CallInv
    <3>1. call[c].key \in Key /\ call[c].jetzt <= now /\ call[c].jetzt \in Nat
      BY DEF IInv, CallInv, TypeOK, Answer
    <3>2. now < call[c].jetzt + MaxDelay
      BY <1>1 DEF Tick
    <3>3. QED
      BY <2>1, <3>1, <3>2, LimitAssumption
  <2>4. BucketInv'
    <3> SUFFICES ASSUME NEW k \in Key
                 PROVE  Covers(eimer[k], admitted[k], fenster[k], now + 1)
      BY <2>1 DEF BucketInv, IInv
    <3>1. eimer[k] \in Seq(Nat) /\ admitted[k] \in Seq(Nat) /\ fenster[k] \in Nat
      BY LimitAssumption DEF IInv, TypeOK
    <3>2. QED
      BY <2>1, <3>1, CoversLater DEF IInv, BucketInv
  <2>5. QED
    BY <2>2, <2>3, <2>4 DEF IInv
<1>2. ASSUME NEW c \in Caller, NEW answer \in Answer, call' = [call EXCEPT ![c] = answer],
             answer.step = "read" => answer.key \in Key /\ answer.jetzt = now,
             UNCHANGED <<now, eimer, table, admitted>>
      PROVE  IInv'
  <2>1. now \in Nat /\ MaxDelay \in Nat
    BY LimitAssumption DEF IInv, TypeOK
  <2>2. TypeOK' /\ BucketInv' /\ TableInv'
    BY <1>2 DEF IInv, TypeOK, BucketInv, TableInv
  <2>3. CallInv'
    BY <1>2, <2>1 DEF IInv, CallInv, TypeOK
  <2>4. QED
    BY <2>2, <2>3 DEF IInv
<1>3. ASSUME NEW c \in Caller, NEW k \in Key, ReadClock(c, k) PROVE IInv'
  <2> DEFINE answer == [Idle EXCEPT !.step = "read", !.key = k, !.jetzt = now]
  <2>1. answer \in Answer
    BY IdleIsAnswer DEF IInv, TypeOK
  <2>2. answer.key = k /\ answer.jetzt = now
    BY DEF Idle
  <2>3. call' = [call EXCEPT ![c] = answer] /\ UNCHANGED <<now, eimer, table, admitted>>
    BY <1>3 DEF ReadClock
  <2> HIDE DEF answer
  <2>4. QED
    BY <1>2, <2>1, <2>2, <2>3
<1>4. ASSUME NEW c \in Caller, TurnAway(c) PROVE IInv'
  <2> DEFINE answer == [Idle EXCEPT !.full = TRUE, !.wait = 1]
  <2>1. answer \in Answer
    BY IdleIsAnswer
  <2>2. answer.step = "idle"
    BY DEF Idle
  <2>3. call' = [call EXCEPT ![c] = answer] /\ UNCHANGED <<now, eimer, table, admitted>>
    BY <1>4 DEF TurnAway
  <2> HIDE DEF answer
  <2>4. QED
    BY <1>2, <2>1, <2>2, <2>3
<1>5. ASSUME NEW c \in Caller, Register(c) PROVE IInv'
  BY <1>5, RegisterKeeps
<1>6. CASE UNCHANGED vars
  BY <1>6 DEF vars, IInv, TypeOK, CallInv, BucketInv, TableInv
<1>7. QED
  BY <1>1, <1>3, <1>4, <1>5, <1>6 DEF Next

LEMMA InductiveInvariant == Spec => []IInv
  BY IInvInit, IInvNext, PTL DEF Spec

\* Type correctness of the table, of its buckets and of the calls (pruefe).
THEOREM TypeCorrect == Spec => []TypeOK
<1>1. IInv => TypeOK
  BY DEF IInv
<1>2. QED
  BY <1>1, InductiveInvariant, PTL

\* The sliding window holds for every key: no order of the lock, no rejection
\* and no clearing of the table admits more than anzahl calls in a window,
\* short of the delay between clock and lock.
THEOREM WindowAlwaysHolds == Spec => []WindowHolds
<1>1. IInv => WindowHolds
  BY DEF IInv, BucketInv, Spaced, WindowHolds
<1>2. QED
  BY <1>1, InductiveInvariant, PTL

\* The table never outgrows MAX_EIMER.
THEOREM TableAlwaysBounded == Spec => []TableBounded
<1>1. IInv => TableBounded
  BY DEF IInv, BucketInv, TableInv, TableBounded
<1>2. QED
  BY <1>1, InductiveInvariant, PTL

\* A call turned down under the lock leaves its bucket full of events of which
\* the first is not expired, and is told to wait for that one.
LEMMA RegisterRejects ==
    ASSUME IInv, NEW c \in Caller, Register(c), ~call'[c].ok
    PROVE  LET k == call[c].key
               jetzt == call[c].jetzt
           IN  /\ eimer'[k] \in Seq(Nat)
               /\ Len(eimer'[k]) >= anzahl[k]
               /\ ~Expired(eimer'[k][1], k, jetzt)
               /\ call'[c].wait = Wait(eimer'[k][1], k, jetzt)
               /\ UNCHANGED <<now, admitted>>
<1> DEFINE k == call[c].key
           jetzt == call[c].jetzt
           b == eimer[k]
           kept == [j \in Key |-> IF j \in table' THEN eimer[j] ELSE <<>>]
<1>1. k \in Key /\ jetzt \in Nat /\ b \in Seq(Nat) /\ anzahl[k] \in Nat \ {0} /\ UNCHANGED now
  BY LimitAssumption DEF IInv, CallInv, Register, TypeOK, Answer
<1>2. PICK n \in 0..Len(b) :
        LET left == SubSeq(b, n + 1, Len(b))
        IN  /\ Drops(b, n, k, jetzt)
            /\ IF Len(left) >= anzahl[k]
               THEN /\ eimer' = [kept EXCEPT ![k] = left]
                    /\ call' = [call EXCEPT ![c] = [Idle EXCEPT !.wait = Wait(left[1], k, jetzt)]]
                    /\ UNCHANGED admitted
               ELSE /\ eimer' = [kept EXCEPT ![k] = Append(left, jetzt)]
                    /\ call' = [call EXCEPT ![c] = [Idle EXCEPT !.ok = TRUE]]
                    /\ admitted' = [admitted EXCEPT ![k] = Append(admitted[k], now)]
  BY DEF Register
<1> DEFINE left == SubSeq(b, n + 1, Len(b))
<1>3. Len(b) \in Nat /\ n \in Nat /\ n <= Len(b)
  BY <1>1, LenProperties
<1>4. /\ left \in Seq(Nat)
      /\ Len(left) = IF n + 1 <= Len(b) THEN Len(b) - (n + 1) + 1 ELSE 0
      /\ \A i \in 1..(Len(b) - (n + 1) + 1) : left[i] = b[n + 1 + i - 1]
  <2> HIDE DEF b
  <2>1. QED
    BY <1>1, DroppedHead
<1> HIDE DEF left
<1>5. Len(left) >= anzahl[k]
  <2> SUFFICES ASSUME ~(Len(left) >= anzahl[k]) PROVE FALSE
    OBVIOUS
  <2>1. call' = [call EXCEPT ![c] = [Idle EXCEPT !.ok = TRUE]]
    BY <1>2 DEF left
  <2>2. call'[c].ok = TRUE
    BY <2>1 DEF IInv, TypeOK, Idle
  <2>3. QED
    BY <2>2
<1>6. /\ eimer' = [kept EXCEPT ![k] = left]
      /\ call' = [call EXCEPT ![c] = [Idle EXCEPT !.wait = Wait(left[1], k, jetzt)]]
      /\ UNCHANGED admitted
  BY <1>2, <1>5 DEF left
<1>7. eimer'[k] = left /\ call'[c].wait = Wait(left[1], k, jetzt)
  BY <1>1, <1>6 DEF IInv, TypeOK, Idle
<1>8. n < Len(b) /\ left[1] = b[n + 1]
  <2> HIDE DEF b, k, jetzt, kept
  <2>1. Len(left) > 0
    BY <1>1, <1>3, <1>4, <1>5
  <2>2. n < Len(b)
    BY <1>3, <1>4, <2>1
  <2>3. 1 \in 1..(Len(b) - (n + 1) + 1) /\ n + 1 + 1 - 1 = n + 1
    BY <1>3, <2>2
  <2>4. left[1] = b[n + 1 + 1 - 1]
    BY <1>4, <2>3
  <2>5. QED
    BY <2>2, <2>3, <2>4
<1>9. ~Expired(left[1], k, jetzt)
  BY <1>2, <1>8 DEF Drops
<1>10. QED
  BY <1>1, <1>4, <1>5, <1>6, <1>7, <1>9

\* The wait in Retry-After is never a second short: when it is over, the event
\* that blocked the call has left the window (pruefe's rounding).
THEOREM RetryAlwaysLongEnough == Spec => RetryLongEnough
<1>1. ASSUME IInv, [Next]_vars, NEW c \in Caller,
             call[c].step = "read", call'[c].step = "idle", ~call'[c].ok, ~call'[c].full
      PROVE  Expired(eimer'[call[c].key][1], call[c].key, call[c].jetzt + call'[c].wait * Second)
  <2>1. ASSUME Register(c)
        PROVE  Expired(eimer'[call[c].key][1], call[c].key, call[c].jetzt + call'[c].wait * Second)
    <3> DEFINE k == call[c].key
               jetzt == call[c].jetzt
               head == eimer'[k][1]
               f == fenster[k]
    <3>1. k \in Key /\ jetzt \in Nat /\ f \in Nat /\ anzahl[k] \in Nat \ {0}
      BY <1>1, LimitAssumption DEF IInv, CallInv, TypeOK, Answer
    <3>2. /\ eimer'[k] \in Seq(Nat) /\ Len(eimer'[k]) >= anzahl[k]
          /\ call'[c].wait = Wait(head, k, jetzt)
      BY <1>1, <2>1, RegisterRejects
    <3>3. 1 \in 1..Len(eimer'[k])
      BY <3>1, <3>2, LenProperties
    <3>4. head \in Nat
      BY <3>2, <3>3, ElementOfSeq
    <3>5. Wait(head, k, jetzt)
            = IF (f - (jetzt - head)) \div Second + 1 < 1 THEN 1
              ELSE (f - (jetzt - head)) \div Second + 1
      BY DEF Wait
    <3> HIDE DEF head, f, jetzt
    <3>6. (jetzt + Wait(head, k, jetzt) * Second) - head >= f
      <4> DEFINE left == f - (jetzt - head)
                 whole == left \div Second
      <4>1. left \in Int /\ Second \in Nat \ {0}
        BY <3>1, <3>4, LimitAssumption
      <4> HIDE DEF left
      <4>2. whole \in Int /\ left < whole * Second + Second
        BY <4>1
      <4>3. Wait(head, k, jetzt) \in Int /\ Wait(head, k, jetzt) >= whole + 1
        BY <3>5, <4>2 DEF left
      <4> HIDE DEF whole
      <4>4. Wait(head, k, jetzt) * Second >= (whole + 1) * Second
        BY <4>1, <4>2, <4>3, ProductGrows
      <4>5. (whole + 1) * Second = whole * Second + Second
        BY <4>1, <4>2, ProductOfNext
      <4>6. Wait(head, k, jetzt) * Second \in Int /\ whole * Second \in Int
        BY <4>1, <4>2, <4>3
      <4>7. Wait(head, k, jetzt) * Second > left
        BY <4>1, <4>2, <4>4, <4>5, <4>6
      <4>8. QED
        BY <3>1, <3>4, <4>6, <4>7 DEF left
    <3>7. QED
      BY <3>2, <3>6 DEF Expired, head, f, jetzt
  <2>2. ASSUME ~Register(c) PROVE FALSE
    <3>1. CASE Tick \/ UNCHANGED vars
      BY <1>1, <3>1 DEF Tick, vars
    <3>2. ASSUME NEW d \in Caller, NEW k \in Key, ReadClock(d, k) PROVE FALSE
      <4>1. call'[c] = call[c] \/ call'[c].step = "read"
        BY <3>2 DEF ReadClock, IInv, TypeOK, Idle
      <4>2. QED
        BY <1>1, <4>1
    <3>3. ASSUME NEW d \in Caller, TurnAway(d) PROVE FALSE
      <4>1. call'[c] = call[c] \/ call'[c].full = TRUE
        BY <1>1, <3>3 DEF TurnAway, IInv, TypeOK, Idle
      <4>2. QED
        BY <1>1, <4>1
    <3>4. ASSUME NEW d \in Caller, Register(d) PROVE FALSE
      <4>1. d # c
        BY <2>2, <3>4
      <4>2. call'[c] = call[c]
        BY <1>1, <3>4, <4>1 DEF Register, IInv, TypeOK
      <4>3. QED
        BY <1>1, <4>2
    <3>5. QED
      BY <1>1, <3>1, <3>2, <3>3, <3>4 DEF Next
  <2>3. QED
    BY <2>1, <2>2
<1>2. IInv /\ [Next]_vars
        => [\A c \in Caller :
              call[c].step = "read" /\ call'[c].step = "idle" /\ ~call'[c].ok /\ ~call'[c].full
                => Expired(eimer'[call[c].key][1], call[c].key, call[c].jetzt + call'[c].wait * Second)]_vars
  BY <1>1
<1>3. QED
  BY <1>2, InductiveInvariant, PTL DEF Spec, RetryLongEnough

-------------------------------------------------------------------------------
(* The interface *)

\* What a request without a good key may still have to ask for.
Strange == {<<Attempts[p], Anon>> : p \in Presented} \cup {<<Anon>>, <<Check>>}

RequestInv(c) ==
    /\ req[c] \in Requests
    /\ req[c].step = "found" => req[c].key \in ApiKey
    /\ req[c].key \in ApiKey => req[c].limits = <<General[req[c].key]>>
    /\ req[c].key = Other /\ req[c].step # "idle" => req[c].limits \in Strange
    /\ req[c].step = "wait" => call[c].key = Head(req[c].limits)
    /\ call[c].step = "read" <=> req[c].step = "wait"

AccessInv ==
    /\ IInv
    /\ row \in [ApiKey -> Rows]
    /\ req \in [Caller -> Requests]
    /\ refused \in Seq(Nat)
    /\ \A c \in Caller : RequestInv(c)
    /\ served = [k \in ApiKey |-> admitted[General[k]]]

-------------------------------------------------------------------------------
(* The lists of limits *)

LEMMA LimitLists ==
    /\ \A x \in Key : <<x>> \in Seq(Key) /\ Head(<<x>>) = x /\ Tail(<<x>>) = <<>> /\ <<x>> # <<>>
    /\ \A x, y \in Key : /\ <<x, y>> \in Seq(Key) /\ Head(<<x, y>>) = x
                         /\ Tail(<<x, y>>) = <<y>> /\ <<x, y>> # <<>>
  OBVIOUS

LEMMA StrangeLists ==
    ASSUME NEW limits \in Strange
    PROVE  /\ limits \in Seq(Key) /\ limits # <<>> /\ Head(limits) \in Key
           /\ \A k \in ApiKey : Head(limits) # General[k]
           /\ Tail(limits) = <<>> \/ Tail(limits) \in Strange
<1>1. CASE limits \in {<<Anon>>, <<Check>>}
  BY <1>1, LimitLists, AccessAssumption
<1>2. CASE limits \in {<<Attempts[p], Anon>> : p \in Presented}
  <2>1. PICK p \in Presented : limits = <<Attempts[p], Anon>>
    BY <1>2
  <2>2. Attempts[p] \in Key /\ Anon \in Key
    BY AccessAssumption
  <2>3. \A k \in ApiKey : Attempts[p] # General[k]
    BY AccessAssumption
  <2>4. QED
    BY <2>1, <2>2, <2>3, LimitLists DEF Strange
<1>3. QED
  BY <1>1, <1>2 DEF Strange

LEMMA NoRequestIsRequest ==
    /\ NoRequest \in Requests /\ NoRow \in Rows
    /\ NoRequest.step = "idle" /\ NoRequest.key = Other /\ NoRequest.limits = <<>>
    /\ Other \notin ApiKey /\ Presented = ApiKey \cup {Other}
<1>1. <<>> \in Seq(Key)
  OBVIOUS
<1>2. NoRow \in Rows
  BY DEF NoRow, Rows
<1>3. QED
  BY <1>1, <1>2, AccessAssumption DEF NoRequest, Requests, Presented

-------------------------------------------------------------------------------
(* The invariant *)

LEMMA AccessInit == ApiInit => AccessInv
<1> SUFFICES ASSUME ApiInit PROVE AccessInv
  OBVIOUS
<1>1. IInv
  BY IInvInit DEF ApiInit
<1>2. row \in [ApiKey -> Rows] /\ req \in [Caller -> Requests]
  BY NoRequestIsRequest DEF ApiInit
<1>3. refused \in Seq(Nat)
  BY EmptySeq DEF ApiInit
<1>4. \A c \in Caller : RequestInv(c)
  BY <1>2, NoRequestIsRequest DEF ApiInit, Init, RequestInv, Idle
<1>5. served = [k \in ApiKey |-> admitted[General[k]]]
  BY AccessAssumption DEF ApiInit, Init
<1>6. QED
  BY <1>1, <1>2, <1>3, <1>4, <1>5 DEF AccessInv

\* The administrators touch the rows and nothing else.
LEMMA AdministrationKeeps ==
    ASSUME AccessInv, NEW k \in ApiKey,
           (\E writes \in BOOLEAN : Issue(k, writes)) \/ Revoke(k) \/ Remove(k)
    PROVE  AccessInv' /\ UNCHANGED vars
<1>1. UNCHANGED <<vars, req, served, refused>>
  BY DEF Issue, Revoke, Remove
<1>2. row' \in [ApiKey -> Rows]
  <2>1. row[k] \in Rows /\ row \in [ApiKey -> Rows]
    BY DEF AccessInv
  <2>2. PICK new \in Rows : row' = [row EXCEPT ![k] = new]
    <3>1. ASSUME NEW writes \in BOOLEAN, Issue(k, writes)
          PROVE  \E new \in Rows : row' = [row EXCEPT ![k] = new]
      BY <3>1 DEF Issue, Rows
    <3>2. ASSUME Revoke(k) PROVE \E new \in Rows : row' = [row EXCEPT ![k] = new]
      <4> DEFINE new == [row[k] EXCEPT !.state = "revoked"]
      <4>1. new \in Rows
        BY <2>1 DEF Rows
      <4>2. row' = [row EXCEPT ![k] = new]
        BY <2>1, <3>2 DEF Revoke
      <4>3. QED
        BY <4>1, <4>2
    <3>3. ASSUME Remove(k) PROVE \E new \in Rows : row' = [row EXCEPT ![k] = new]
      <4> DEFINE new == [NoRow EXCEPT !.state = "deleted"]
      <4>1. new \in Rows
        BY DEF Rows, NoRow
      <4>2. row' = [row EXCEPT ![k] = new]
        BY <3>3 DEF Remove
      <4>3. QED
        BY <4>1, <4>2
    <3>4. QED
      BY <3>1, <3>2, <3>3
  <2>3. QED
    BY <2>1, <2>2
<1>3. UNCHANGED <<now, eimer, table, call, admitted>>
  BY <1>1 DEF vars
<1>4. IInv'
  BY <1>1, IInvNext DEF AccessInv
<1>5. \A c \in Caller : RequestInv(c)'
  BY <1>1, <1>3 DEF AccessInv, RequestInv
<1>6. QED
  BY <1>1, <1>2, <1>3, <1>4, <1>5 DEF AccessInv

\* A request that changes alone keeps what is known of the others.
LEMMA RequestKeeps ==
    ASSUME AccessInv, NEW c \in Caller, NEW r \in Requests,
           req' = [req EXCEPT ![c] = r],
           UNCHANGED <<vars, served, refused>>,
           row' \in [ApiKey -> Rows],
           req[c].step # "wait", r.step # "wait",
           r.step = "found" => r.key \in ApiKey,
           r.key \in ApiKey => r.limits = <<General[r.key]>>,
           r.key = Other /\ r.step # "idle" => r.limits \in Strange
    PROVE  AccessInv'
<1>1. UNCHANGED <<now, eimer, table, call, admitted>>
  BY DEF vars
<1>2. IInv'
  BY IInvNext DEF AccessInv
<1>3. req' \in [Caller -> Requests]
  BY DEF AccessInv
<1>4. ASSUME NEW d \in Caller PROVE RequestInv(d)'
  <2>1. CASE d = c
    <3>1. req'[d] = r /\ call'[d] = call[d] /\ call[d].step # "read"
      BY <1>1, <2>1 DEF AccessInv, RequestInv
    <3>2. QED
      BY <3>1 DEF RequestInv
  <2>2. CASE d # c
    <3>1. req'[d] = req[d] /\ call'[d] = call[d]
      BY <1>1, <2>2 DEF AccessInv
    <3>2. QED
      BY <3>1 DEF RequestInv, AccessInv
  <2>3. QED
    BY <2>1, <2>2
<1>5. QED
  BY <1>1, <1>2, <1>3, <1>4 DEF AccessInv

LEMMA LookupKeeps ==
    ASSUME AccessInv, NEW c \in Caller, NEW p \in Presented, NEW right \in BOOLEAN,
           NEW writes \in BOOLEAN, NEW check \in BOOLEAN, Lookup(c, p, right, writes, check)
    PROVE  AccessInv' /\ UNCHANGED vars
<1> DEFINE valid == Finds(p, right) /\ (writes => row[p].writes)
           good == [NoRequest EXCEPT !.step = "found", !.key = p, !.seen = row[p],
                                     !.check = check, !.limits = Limits(p, TRUE)]
           bad == [NoRequest EXCEPT !.step = "ask", !.limits = Limits(p, FALSE)]
<1>1. /\ req[c].step = "idle" /\ UNCHANGED <<vars, row, served, refused>>
      /\ req' = [req EXCEPT ![c] = IF valid THEN good ELSE bad]
  BY DEF Lookup
<1>2. row' \in [ApiKey -> Rows]
  BY <1>1 DEF AccessInv
<1>3. CASE valid
  <2>1. p \in ApiKey /\ row[p] \in Rows /\ General[p] \in Key
    BY <1>3, AccessAssumption DEF Finds, AccessInv
  <2>2. Limits(p, TRUE) = <<General[p]>> /\ <<General[p]>> \in Seq(Key)
    BY <2>1, LimitLists DEF Limits
  <2>3. good \in Requests /\ good.step = "found" /\ good.key = p /\ good.limits = <<General[p]>>
    BY <2>1, <2>2, NoRequestIsRequest DEF Requests, NoRequest
  <2> HIDE DEF good, bad, valid
  <2>4. QED
    BY <1>1, <1>2, <1>3, <2>1, <2>3, NoRequestIsRequest, RequestKeeps
<1>4. CASE ~valid
  <2>1. Limits(p, FALSE) = <<Attempts[p], Anon>> /\ <<Attempts[p], Anon>> \in Strange
    BY DEF Limits, Strange
  <2>2. <<Attempts[p], Anon>> \in Seq(Key)
    BY <2>1, StrangeLists
  <2>3. /\ bad \in Requests /\ bad.step = "ask" /\ bad.key = Other
        /\ bad.limits = <<Attempts[p], Anon>>
    BY <2>1, <2>2, NoRequestIsRequest DEF Requests, NoRequest
  <2> HIDE DEF good, bad, valid
  <2>4. QED
    BY <1>1, <1>2, <1>4, <2>1, <2>3, NoRequestIsRequest, RequestKeeps
<1>5. QED
  BY <1>3, <1>4

LEMMA UseKeyKeeps ==
    ASSUME AccessInv, NEW c \in Caller, UseKey(c)
    PROVE  AccessInv' /\ UNCHANGED vars
<1> DEFINE k == req[c].key
           asking == [req[c] EXCEPT !.step = "ask", !.seen = NoRow]
<1>1. /\ req[c] \in Requests /\ req[c].step = "found" /\ k \in ApiKey
      /\ req[c].limits = <<General[k]>>
      /\ UNCHANGED <<vars, served, refused>>
  BY DEF UseKey, AccessInv, RequestInv
<1>2. CASE row[k].state = "deleted"
  <2>1. req' = [req EXCEPT ![c] = NoRequest] /\ UNCHANGED row
    BY <1>2 DEF UseKey
  <2>2. row' \in [ApiKey -> Rows]
    BY <2>1 DEF AccessInv
  <2>3. QED
    BY <1>1, <2>1, <2>2, NoRequestIsRequest, RequestKeeps
<1>3. CASE row[k].state # "deleted"
  <2>1. /\ row' = [row EXCEPT ![k] = Used(row[k], req[c].seen)]
        /\ req' = [req EXCEPT ![c].step = "ask", ![c].seen = NoRow]
    BY <1>3 DEF UseKey
  <2>2. row' \in [ApiKey -> Rows]
    BY <1>1, <2>1 DEF AccessInv, Rows, Used
  <2>3. asking \in Requests /\ asking.step = "ask" /\ asking.key = k /\ asking.limits = <<General[k]>>
    BY <1>1, NoRequestIsRequest DEF Requests
  <2>4. req' = [req EXCEPT ![c] = asking]
    BY <2>1 DEF AccessInv, Requests
  <2> HIDE DEF asking
  <2>5. QED
    BY <1>1, <2>2, <2>3, <2>4, NoRequestIsRequest, RequestKeeps
<1>4. QED
  BY <1>2, <1>3

LEMMA PressButtonKeeps ==
    ASSUME AccessInv, NEW c \in Caller, PressButton(c)
    PROVE  AccessInv' /\ UNCHANGED vars
<1> DEFINE r == [NoRequest EXCEPT !.step = "ask", !.limits = <<Check>>]
<1>1. <<Check>> \in Seq(Key) /\ <<Check>> \in Strange
  BY LimitLists, AccessAssumption DEF Strange
<1>2. r \in Requests /\ r.step = "ask" /\ r.key = Other /\ r.limits = <<Check>>
  BY <1>1, NoRequestIsRequest DEF Requests, NoRequest
<1>3. /\ req[c].step = "idle" /\ req' = [req EXCEPT ![c] = r]
      /\ UNCHANGED <<vars, row, served, refused>>
  BY DEF PressButton
<1>4. row' \in [ApiKey -> Rows]
  BY <1>3 DEF AccessInv
<1> HIDE DEF r
<1>5. QED
  BY <1>1, <1>2, <1>3, <1>4, NoRequestIsRequest, RequestKeeps

LEMMA AskLimitKeeps ==
    ASSUME AccessInv, NEW c \in Caller, AskLimit(c)
    PROVE  AccessInv' /\ Next
<1> DEFINE k == Head(req[c].limits)
           waiting == [req[c] EXCEPT !.step = "wait"]
           reading == [Idle EXCEPT !.step = "read", !.key = k, !.jetzt = now]
<1>1. /\ req[c] \in Requests /\ req[c].step = "ask" /\ RequestInv(c)
      /\ ReadClock(c, k) /\ UNCHANGED <<row, served, refused>>
      /\ req' = [req EXCEPT ![c].step = "wait"]
  BY DEF AskLimit, AccessInv
<1>2. req[c].key \in ApiKey \/ req[c].key = Other
  BY <1>1 DEF Requests, Presented
<1>3. k \in Key
  <2>1. CASE req[c].key \in ApiKey
    <3>1. General[req[c].key] \in Key /\ req[c].limits = <<General[req[c].key]>>
      BY <1>1, <2>1, AccessAssumption DEF RequestInv
    <3>2. QED
      BY <3>1, LimitLists
  <2>2. CASE req[c].key = Other
    BY <1>1, <2>2, StrangeLists DEF RequestInv
  <2>3. QED
    BY <1>2, <2>1, <2>2
<1>4. Next
  BY <1>1, <1>3 DEF Next
<1>5. IInv'
  BY <1>4, IInvNext DEF AccessInv
<1>6. call' = [call EXCEPT ![c] = reading] /\ UNCHANGED admitted
  BY <1>1 DEF ReadClock
<1>7. reading.step = "read" /\ reading.key = k
  BY DEF Idle
<1>8. /\ waiting \in Requests /\ waiting.step = "wait" /\ waiting.key = req[c].key
      /\ waiting.limits = req[c].limits
  BY <1>1 DEF Requests
<1>9. req' = [req EXCEPT ![c] = waiting]
  BY <1>1 DEF AccessInv, Requests
<1> HIDE DEF waiting, reading
<1>10. req' \in [Caller -> Requests]
  BY <1>8, <1>9 DEF AccessInv
<1>11. ASSUME NEW d \in Caller PROVE RequestInv(d)'
  <2>1. CASE d = c
    <3>1. req'[d] = waiting /\ call'[d] = reading
      BY <1>6, <1>9, <2>1 DEF AccessInv, IInv, TypeOK
    <3>2. QED
      BY <1>1, <1>7, <1>8, <2>1, <3>1 DEF RequestInv
  <2>2. CASE d # c
    <3>1. req'[d] = req[d] /\ call'[d] = call[d]
      BY <1>6, <1>9, <2>2 DEF AccessInv, IInv, TypeOK
    <3>2. QED
      BY <3>1 DEF RequestInv, AccessInv
  <2>3. QED
    BY <2>1, <2>2
<1>12. QED
  BY <1>1, <1>4, <1>5, <1>6, <1>10, <1>11 DEF AccessInv

\* What an answer of the limiter does to the calls and to the history.
LEMMA LimiterAnswers ==
    ASSUME IInv, NEW c \in Caller, TurnAway(c) \/ Register(c)
    PROVE  /\ call[c].step = "read" /\ call[c].key \in Key
           /\ \A d \in Caller : d # c => call'[d] = call[d]
           /\ call'[c].step = "idle"
           /\ now' = now /\ now \in Nat
           /\ admitted' = IF call'[c].ok
                          THEN [admitted EXCEPT ![call[c].key] = Append(admitted[call[c].key], now)]
                          ELSE admitted
<1>1. call \in [Caller -> Answer] /\ now \in Nat
  BY DEF IInv, TypeOK
<1>2. CASE TurnAway(c)
  BY <1>1, <1>2 DEF TurnAway, Idle, IInv, CallInv
<1>3. CASE Register(c)
  <2> DEFINE k == call[c].key
             jetzt == call[c].jetzt
  <2>1. call[c].step = "read" /\ k \in Key /\ now' = now
    BY <1>3 DEF Register, IInv, CallInv
  <2>2. \/ \E w : call' = [call EXCEPT ![c] = [Idle EXCEPT !.wait = w]] /\ UNCHANGED admitted
        \/ /\ call' = [call EXCEPT ![c] = [Idle EXCEPT !.ok = TRUE]]
           /\ admitted' = [admitted EXCEPT ![k] = Append(admitted[k], now)]
    BY <1>3 DEF Register
  <2>3. CASE \E w : call' = [call EXCEPT ![c] = [Idle EXCEPT !.wait = w]] /\ UNCHANGED admitted
    BY <1>1, <2>1, <2>3 DEF Idle
  <2>4. CASE /\ call' = [call EXCEPT ![c] = [Idle EXCEPT !.ok = TRUE]]
             /\ admitted' = [admitted EXCEPT ![k] = Append(admitted[k], now)]
    BY <1>1, <2>1, <2>4 DEF Idle
  <2>5. QED
    BY <2>2, <2>3, <2>4
<1>4. QED
  BY <1>2, <1>3

\* Whatever the answer, the request is over or goes on without a key.
LEMMA AnsweredRequest ==
    ASSUME AccessInv, NEW c \in Caller, Answered(c)
    PROVE  \E r \in Requests : /\ req' = [req EXCEPT ![c] = r]
                               /\ r.step \in {"idle", "ask"} /\ r.key = Other
                               /\ r.step # "idle" => r.limits \in Strange
<1> DEFINE rest == Tail(req[c].limits)
           on == [req[c] EXCEPT !.step = "ask", !.limits = rest, !.slowed = Slowed(c)]
           checking == [req[c] EXCEPT !.step = "ask", !.limits = <<Check>>, !.key = Other,
                                      !.check = FALSE]
<1>1. req[c] \in Requests /\ req[c].step = "wait" /\ RequestInv(c) /\ req \in [Caller -> Requests]
  BY DEF Answered, AccessInv
<1>2. Slowed(c) \in BOOLEAN
  BY DEF Slowed
<1>3. \/ rest # <<>> /\ req' = [req EXCEPT ![c].step = "ask", ![c].limits = rest,
                                           ![c].slowed = Slowed(c)]
      \/ req' = [req EXCEPT ![c] = NoRequest]
      \/ req' = [req EXCEPT ![c].step = "ask", ![c].limits = <<Check>>, ![c].key = Other,
                            ![c].check = FALSE]
  BY DEF Answered
<1>4. CASE rest # <<>> /\ req' = [req EXCEPT ![c].step = "ask", ![c].limits = rest,
                                            ![c].slowed = Slowed(c)]
  <2>1. req[c].key = Other
    <3> SUFFICES ASSUME req[c].key \in ApiKey PROVE FALSE
      BY <1>1 DEF Requests, Presented
    <3>1. req[c].limits = <<General[req[c].key]>> /\ General[req[c].key] \in Key
      BY <1>1, AccessAssumption DEF RequestInv
    <3>2. rest = <<>>
      BY <3>1, LimitLists
    <3>3. QED
      BY <1>4, <3>2
  <2>2. rest \in Strange
    BY <1>1, <1>4, <2>1, StrangeLists DEF RequestInv
  <2>3. rest \in Seq(Key)
    BY <2>2, StrangeLists
  <2> HIDE DEF rest
  <2>4. on \in Requests /\ on.step = "ask" /\ on.key = Other /\ on.limits = rest
    BY <1>1, <1>2, <2>1, <2>3 DEF Requests
  <2>5. req' = [req EXCEPT ![c] = on]
    BY <1>1, <1>4 DEF Requests
  <2>6. QED
    BY <2>2, <2>4, <2>5
<1>5. CASE req' = [req EXCEPT ![c] = NoRequest]
  BY <1>5, NoRequestIsRequest
<1>6. CASE req' = [req EXCEPT ![c].step = "ask", ![c].limits = <<Check>>, ![c].key = Other,
                              ![c].check = FALSE]
  <2>1. <<Check>> \in Strange /\ <<Check>> \in Seq(Key) /\ Other \in Presented
    BY LimitLists, AccessAssumption DEF Strange, Presented
  <2>2. checking \in Requests /\ checking.step = "ask" /\ checking.key = Other
        /\ checking.limits = <<Check>>
    BY <1>1, <2>1 DEF Requests
  <2>3. req' = [req EXCEPT ![c] = checking]
    BY <1>1, <1>6 DEF Requests
  <2>4. QED
    BY <2>1, <2>2, <2>3
<1>7. QED
  BY <1>3, <1>4, <1>5, <1>6

LEMMA AnsweredKeeps ==
    ASSUME AccessInv, NEW c \in Caller, Answered(c)
    PROVE  AccessInv' /\ Next
<1> DEFINE k == call[c].key
<1>1. /\ req[c] \in Requests /\ req[c].step = "wait" /\ RequestInv(c)
      /\ TurnAway(c) \/ Register(c)
      /\ UNCHANGED row /\ row \in [ApiKey -> Rows]
  BY DEF Answered, AccessInv
<1>2. Next
  BY <1>1 DEF Next
<1>3. IInv'
  BY <1>2, IInvNext DEF AccessInv
<1>4. /\ call[c].step = "read" /\ k \in Key /\ now \in Nat
      /\ \A d \in Caller : d # c => call'[d] = call[d]
      /\ call'[c].step = "idle"
      /\ admitted' = IF call'[c].ok THEN [admitted EXCEPT ![k] = Append(admitted[k], now)]
                                    ELSE admitted
  BY <1>1, LimiterAnswers DEF AccessInv
<1>5. PICK r \in Requests : /\ req' = [req EXCEPT ![c] = r]
                            /\ r.step \in {"idle", "ask"} /\ r.key = Other
                            /\ r.step # "idle" => r.limits \in Strange
  BY AnsweredRequest
<1>6. req' \in [Caller -> Requests]
  BY <1>5 DEF AccessInv
<1>7. ASSUME NEW d \in Caller PROVE RequestInv(d)'
  <2>1. CASE d = c
    <3>1. req'[d] = r
      BY <1>5, <2>1 DEF AccessInv
    <3>2. QED
      BY <1>4, <1>5, <2>1, <3>1, NoRequestIsRequest DEF RequestInv
  <2>2. CASE d # c
    <3>1. req'[d] = req[d] /\ call'[d] = call[d]
      BY <1>4, <1>5, <2>2 DEF AccessInv
    <3>2. QED
      BY <3>1 DEF RequestInv, AccessInv
  <2>3. QED
    BY <2>1, <2>2
<1>8. refused' \in Seq(Nat)
  <2>1. refused' = refused \/ refused' = Append(refused, now)
    BY DEF Answered
  <2>2. QED
    BY <1>4, <2>1, AppendProperties DEF AccessInv
<1>9. served' = [l \in ApiKey |-> admitted'[General[l]]]
  <2>1. served = [l \in ApiKey |-> admitted[General[l]]] /\ General \in [ApiKey -> Key]
        /\ admitted \in [Key -> Seq(Nat)]
    BY AccessAssumption DEF AccessInv, IInv, TypeOK
  <2>2. k = Head(req[c].limits)
    BY <1>1 DEF RequestInv
  <2>3. CASE req[c].key = Other
    <3>1. \A l \in ApiKey : k # General[l]
      BY <1>1, <2>2, <2>3, StrangeLists DEF RequestInv
    <3>2. \A l \in ApiKey : admitted'[General[l]] = admitted[General[l]]
      BY <1>4, <2>1, <3>1
    <3>3. served' = served
      BY <2>3 DEF Answered
    <3>4. QED
      BY <2>1, <3>2, <3>3
  <2>4. CASE req[c].key \in ApiKey
    <3>1. k = General[req[c].key]
      <4>1. req[c].limits = <<General[req[c].key]>> /\ General[req[c].key] \in Key
        BY <1>1, <2>1, <2>4 DEF RequestInv
      <4>2. QED
        BY <2>2, <4>1, LimitLists
    <3>2. \A l \in ApiKey : l # req[c].key => General[l] # k
      BY <2>4, <3>1, AccessAssumption
    <3>3. req[c].key # Other
      BY <2>4, NoRequestIsRequest
    <3>4. served' = IF call'[c].ok THEN [served EXCEPT ![req[c].key] = Append(served[req[c].key], now)]
                                  ELSE served
      BY <3>3 DEF Answered
    <3>5. CASE call'[c].ok
      <4>1. served' = [served EXCEPT ![req[c].key] = Append(served[req[c].key], now)]
        BY <3>4, <3>5
      <4>2. admitted' = [admitted EXCEPT ![k] = Append(admitted[k], now)]
        BY <1>4, <3>5
      <4>3. ASSUME NEW l \in ApiKey PROVE served'[l] = admitted'[General[l]]
        <5>1. CASE l = req[c].key
          BY <1>4, <2>1, <2>4, <3>1, <4>1, <4>2, <5>1
        <5>2. CASE l # req[c].key
          BY <1>4, <2>1, <2>4, <3>2, <4>1, <4>2, <5>2
        <5>3. QED
          BY <5>1, <5>2
      <4>4. DOMAIN served' = ApiKey /\ served' = [l \in ApiKey |-> served'[l]]
        BY <2>1, <4>1
      <4>5. QED
        BY <4>3, <4>4
    <3>6. CASE ~call'[c].ok
      BY <1>4, <2>1, <3>4, <3>6
    <3>7. QED
      BY <3>5, <3>6
  <2>5. QED
    BY <1>1, <2>3, <2>4 DEF Requests, Presented
<1>10. QED
  BY <1>1, <1>2, <1>3, <1>6, <1>7, <1>8, <1>9 DEF AccessInv

\* Every step keeps the invariant and is a step of the limiter, or leaves it alone.
LEMMA AccessNext ==
    ASSUME AccessInv, [ApiNext]_allVars
    PROVE  AccessInv' /\ [Next]_vars
<1>1. CASE TimePasses
  <2>1. Tick /\ UNCHANGED <<row, req, served, refused>> /\ UNCHANGED <<call, admitted>>
    BY <1>1 DEF TimePasses, accessVars, Tick
  <2>2. IInv' /\ Next
    BY <2>1, IInvNext DEF AccessInv, Next
  <2>3. QED
    BY <2>1, <2>2 DEF AccessInv, RequestInv
<1>2. CASE UNCHANGED allVars
  <2>1. UNCHANGED vars /\ UNCHANGED <<row, req, served, refused>> /\ UNCHANGED <<call, admitted>>
    BY <1>2 DEF allVars, accessVars, vars
  <2>2. IInv'
    BY <2>1, IInvNext DEF AccessInv
  <2>3. QED
    BY <2>1, <2>2 DEF AccessInv, RequestInv
<1>3. ASSUME NEW k \in ApiKey, (\E writes \in BOOLEAN : Issue(k, writes)) \/ Revoke(k) \/ Remove(k)
      PROVE  AccessInv' /\ [Next]_vars
  BY <1>3, AdministrationKeeps
<1>4. ASSUME NEW c \in Caller, NEW p \in Presented, NEW right \in BOOLEAN,
             NEW writes \in BOOLEAN, NEW check \in BOOLEAN, Lookup(c, p, right, writes, check)
      PROVE  AccessInv' /\ [Next]_vars
  BY <1>4, LookupKeeps
<1>5. ASSUME NEW c \in Caller, UseKey(c) PROVE AccessInv' /\ [Next]_vars
  BY <1>5, UseKeyKeeps
<1>6. ASSUME NEW c \in Caller, PressButton(c) PROVE AccessInv' /\ [Next]_vars
  BY <1>6, PressButtonKeeps
<1>7. ASSUME NEW c \in Caller, AskLimit(c) PROVE AccessInv' /\ [Next]_vars
  BY <1>7, AskLimitKeeps
<1>8. ASSUME NEW c \in Caller, Answered(c) PROVE AccessInv' /\ [Next]_vars
  BY <1>8, AnsweredKeeps
<1>9. QED
  BY <1>1, <1>2, <1>3, <1>4, <1>5, <1>6, <1>7, <1>8 DEF ApiNext

LEMMA AccessInvariant == ApiSpec => []AccessInv
  BY AccessInit, AccessNext, PTL DEF ApiSpec

-------------------------------------------------------------------------------
(* Theorems *)

\* Type correctness of rows, requests and histories; and no request waits for a
\* limit it did not ask for (authentifiziere).
THEOREM AccessTypeCorrect == ApiSpec => []ApiTypeOK
<1>1. ASSUME AccessInv PROVE ApiTypeOK
  <2>1. TypeOK /\ row \in [ApiKey -> Rows] /\ req \in [Caller -> Requests] /\ refused \in Seq(Nat)
    BY <1>1 DEF AccessInv, IInv
  <2>2. served \in [ApiKey -> Seq(Nat)]
    BY <1>1, AccessAssumption DEF AccessInv, IInv, TypeOK
  <2>3. ASSUME NEW c \in Caller, req[c].step \in {"ask", "wait"}
        PROVE  req[c].limits \in Seq(Key) /\ req[c].limits # <<>>
    <3>1. RequestInv(c) /\ req[c] \in Requests
      BY <1>1 DEF AccessInv
    <3>2. CASE req[c].key \in ApiKey
      <4>1. req[c].limits = <<General[req[c].key]>> /\ General[req[c].key] \in Key
        BY <3>1, <3>2, AccessAssumption DEF RequestInv
      <4>2. QED
        BY <4>1, LimitLists
    <3>3. CASE req[c].key = Other
      BY <2>3, <3>1, <3>3, StrangeLists DEF RequestInv
    <3>4. QED
      BY <3>1, <3>2, <3>3 DEF Requests, Presented
  <2>4. ASSUME NEW c \in Caller, req[c].step = "wait" PROVE call[c].key = req[c].limits[1]
    <3>1. call[c].key = Head(req[c].limits)
      BY <1>1, <2>4 DEF AccessInv, RequestInv
    <3>2. QED
      BY <2>3, <2>4, <3>1, HeadTailProperties
  <2>5. QED
    BY <1>1, <2>1, <2>2, <2>3, <2>4 DEF ApiTypeOK, AccessInv, RequestInv
<1>2. QED
  BY <1>1, AccessInvariant, PTL

\* The interface and the button use the limiter as RateLimit says it is used:
\* whatever holds of RateLimit's behaviours holds of theirs (authentifiziere,
\* kunde_pruefen and the button call pruefe and nothing else of ratelimit.py).
THEOREM LimiterIsUsed == ApiSpec => Spec
<1>1. ApiInit => Init
  BY DEF ApiInit
<1>2. QED
  BY <1>1, AccessNext, AccessInvariant, PTL DEF ApiSpec, Spec

\* So the limits of calls, attempts, addresses and checks hold for the interface.
THEOREM InterfaceLimitsHold == ApiSpec => []WindowHolds
  BY LimiterIsUsed, WindowAlwaysHolds, PTL

\* Nor do its requests make the table outgrow its bound (_raeume_auf) ...
THEOREM InterfaceTableBounded == ApiSpec => []TableBounded
  BY LimiterIsUsed, TableAlwaysBounded, PTL

\* ... or turn away a caller that is on its own and waited as long as it was told.
THEOREM InterfaceRetryLongEnough == ApiSpec => RetryLongEnough
  BY LimiterIsUsed, RetryAlwaysLongEnough, PTL

\* A key that was revoked or deleted never comes back, whatever requests are
\* writing to its row when it happens (authentifiziere, revoke, delete).
THEOREM KeysAreGoneForGood == ApiSpec => KeysNeverReturn
<1>1. ASSUME AccessInv, [ApiNext]_allVars, NEW k \in ApiKey,
             row[k].state \in {"revoked", "deleted"}
      PROVE  row'[k].state \in {row[k].state, "deleted"}
  <2>1. row \in [ApiKey -> Rows] /\ row[k] \in Rows
    BY <1>1 DEF AccessInv
  <2>2. CASE UNCHANGED row
    BY <2>2
  <2>3. ASSUME NEW l \in ApiKey, (\E writes \in BOOLEAN : Issue(l, writes)) \/ Revoke(l)
        PROVE  row'[k] = row[k]
    BY <1>1, <2>1, <2>3 DEF Issue, Revoke
  <2>4. ASSUME NEW l \in ApiKey, Remove(l)
        PROVE  row'[k] = row[k] \/ row'[k].state = "deleted"
    BY <2>1, <2>4 DEF Remove, NoRow
  <2>5. ASSUME NEW c \in Caller, UseKey(c) PROVE row'[k].state = row[k].state
    <3>1. CASE UNCHANGED row
      BY <3>1
    <3>2. CASE row' = [row EXCEPT ![req[c].key] = Used(row[req[c].key], req[c].seen)]
      BY <2>1, <3>2 DEF Used, Rows
    <3>3. QED
      BY <2>5, <3>1, <3>2 DEF UseKey
  <2>6. ASSUME ~UNCHANGED row
        PROVE  \/ \E l \in ApiKey : (\E writes \in BOOLEAN : Issue(l, writes)) \/ Revoke(l) \/ Remove(l)
               \/ \E c \in Caller : UseKey(c)
    BY <1>1, <2>6 DEF ApiNext, TimePasses, Lookup, PressButton, AskLimit, Answered,
                      allVars, accessVars
  <2>7. QED
    BY <2>2, <2>3, <2>4, <2>5, <2>6
<1>2. AccessInv /\ [ApiNext]_allVars
        => [\A k \in ApiKey : row[k].state \in {"revoked", "deleted"}
              => row'[k].state \in {row[k].state, "deleted"}]_allVars
  BY <1>1
<1>3. QED
  BY <1>2, AccessInvariant, PTL DEF ApiSpec, KeysNeverReturn

\* A sequence whose last m elements lie after a moment has m such elements.
LEMMA RecentCount ==
    ASSUME NEW g \in Seq(Nat), NEW m \in Nat, NEW n \in Nat, NEW since \in Int,
           m <= Len(g), n <= m, \A i \in (Len(g) - m + 1)..Len(g) : g[i] > since
    PROVE  Cardinality({i \in DOMAIN g : g[i] > since}) >= n
<1> DEFINE last == (Len(g) - m + 1)..Len(g)
           recent == {i \in DOMAIN g : g[i] > since}
<1>1. Len(g) \in Nat /\ DOMAIN g = 1..Len(g)
  BY LenProperties
<1>2. IsFiniteSet(last) /\ Cardinality(last) = m
  <2>1. Len(g) - m + 1 \in Int /\ Len(g) \in Int
    BY <1>1
  <2>2. /\ IsFiniteSet(last)
        /\ Cardinality(last) = IF Len(g) - m + 1 > Len(g) THEN 0
                               ELSE Len(g) - (Len(g) - m + 1) + 1
    BY <2>1, FS_Interval
  <2>3. QED
    BY <1>1, <2>2
<1>3. IsFiniteSet(1..Len(g))
  BY <1>1, FS_Interval
<1>4. last \subseteq recent /\ recent \subseteq 1..Len(g)
  BY <1>1
<1> HIDE DEF last, recent
<1>5. IsFiniteSet(recent) /\ Cardinality(last) <= Cardinality(recent)
  BY <1>3, <1>4, FS_Subset
<1>6. Cardinality(recent) \in Nat
  BY <1>5, FS_CardinalityType
<1>7. Cardinality(recent) >= n
  BY <1>2, <1>5, <1>6
<1>8. QED
  BY <1>7 DEF recent

\* Who shows a good key is slowed down only after as many calls with that very
\* key got through as its limit admits (authentifiziere counts after it knows).
THEOREM AllowanceIsOwn == ApiSpec => OwnAllowance
<1>1. ASSUME AccessInv, [ApiNext]_allVars, NEW c \in Caller,
             req[c].step = "wait", req[c].key # Other,
             ~call'[c].ok, ~call'[c].full, call'[c].step = "idle"
      PROVE  Cardinality({i \in DOMAIN served[req[c].key] :
                            served[req[c].key][i]
                               > now - fenster[General[req[c].key]] - MaxDelay})
                >= anzahl[General[req[c].key]]
  <2> DEFINE k == General[req[c].key]
             g == served[req[c].key]
             b == eimer'[k]
             f == fenster[k]
             jetzt == call[c].jetzt
             d == Len(g) - Len(b)
  <2>1. RequestInv(c) /\ IInv /\ call[c].step = "read" /\ req[c].key \in ApiKey
    BY <1>1 DEF AccessInv, RequestInv, Requests, Presented
  <2>2. Register(c)
    <3>1. Answered(c)
      <4>1. call'[c] # call[c]
        BY <1>1, <2>1
      <4>2. \A e \in Caller : AskLimit(e) => call'[c] = call[c]
        BY <1>1 DEF AskLimit, ReadClock, AccessInv, IInv, TypeOK
      <4>3. \A e \in Caller : Answered(e) /\ e # c => call'[c] = call[c]
        BY <1>1, LimiterAnswers DEF Answered, AccessInv
      <4>4. UNCHANGED vars => call'[c] = call[c]
        BY DEF vars
      <4>5. TimePasses \/ UNCHANGED allVars => call'[c] = call[c]
        BY <4>4 DEF TimePasses, Tick, allVars
      <4>6. QED
        BY <1>1, <4>1, <4>2, <4>3, <4>4, <4>5
           DEF ApiNext, Issue, Revoke, Remove, Lookup, UseKey, PressButton
    <3>2. TurnAway(c) => call'[c].full
      BY <2>1 DEF TurnAway, Idle, IInv, TypeOK
    <3>3. QED
      BY <1>1, <3>1, <3>2 DEF Answered
  <2>3. call[c].key = k /\ k \in Key
    <3>1. req[c].limits = <<k>> /\ k \in Key
      BY <2>1, AccessAssumption DEF RequestInv
    <3>2. QED
      BY <1>1, <2>1, <3>1, LimitLists DEF RequestInv
  <2>4. /\ b \in Seq(Nat) /\ Len(b) >= anzahl[k]
        /\ ~Expired(b[1], k, jetzt) /\ UNCHANGED <<now, admitted>>
    BY <1>1, <2>1, <2>2, <2>3, RegisterRejects
  <2>5. /\ jetzt \in Nat /\ now \in Nat /\ now <= jetzt + MaxDelay
        /\ f \in Nat /\ anzahl[k] \in Nat \ {0} /\ MaxDelay \in Nat
    BY <2>1, <2>3, LimitAssumption DEF IInv, TypeOK, CallInv, Answer
  <2>6. g = admitted'[k] /\ g \in Seq(Nat)
    BY <1>1, <2>1, <2>3, <2>4 DEF AccessInv, IInv, TypeOK
  <2>7. Covers(b, g, f, now)
    BY <1>1, <2>3, <2>4, <2>6, AccessNext DEF AccessInv, IInv, BucketInv
  <2>8. Len(b) \in Nat /\ Len(g) \in Nat /\ Len(b) <= Len(g) /\ 1 \in 1..Len(b)
        /\ d \in Nat /\ d + 1 \in 1..Len(g)
    <3>1. Len(b) \in Nat /\ Len(g) \in Nat
      BY <2>4, <2>6, LenProperties
    <3>2. Len(b) <= Len(g)
      BY <2>7 DEF Covers
    <3> HIDE DEF b, g
    <3>3. QED
      BY <2>4, <2>5, <3>1, <3>2
  <2>9. b[1] \in Nat /\ \A i \in 1..Len(g) : g[i] \in Nat
    BY <2>4, <2>6, <2>8, ElementOfSeq
  <2>10. b[1] <= g[d + 1]
    BY <2>7, <2>8 DEF Covers
  <2>11. ASSUME NEW i \in (d + 1)..Len(g) PROVE g[d + 1] <= g[i]
    <3>1. i \in 1..Len(g) /\ d + 1 <= i
      BY <2>8, <2>11
    <3>2. \A x, y \in 1..Len(g) : x <= y => g[x] <= g[y]
      BY <2>7 DEF Covers
    <3> HIDE DEF g, d
    <3>3. QED
      BY <2>8, <3>1, <3>2
  <2>12. jetzt - b[1] < f
    BY <2>4, <2>5, <2>9 DEF Expired
  <2>13. ASSUME NEW i \in (d + 1)..Len(g) PROVE g[i] > now - f - MaxDelay
    <3>1. i \in 1..Len(g)
      BY <2>8
    <3>2. g[i] \in Nat /\ g[d + 1] \in Nat /\ g[d + 1] <= g[i]
      BY <2>8, <2>9, <2>11, <3>1
    <3> HIDE DEF g, b, f, jetzt, d
    <3>3. QED
      BY <2>5, <2>9, <2>10, <2>12, <3>2
  <2>14. now - f - MaxDelay \in Int
    BY <2>5
  <2> HIDE DEF g, b, f
  <2>15. Cardinality({i \in DOMAIN g : g[i] > now - f - MaxDelay}) >= anzahl[k]
    <3> DEFINE m == Len(b)
               n == anzahl[k]
               since == now - f - MaxDelay
    <3>1. g \in Seq(Nat) /\ m \in Nat /\ n \in Nat /\ since \in Int /\ m <= Len(g) /\ n <= m
      BY <2>4, <2>5, <2>6, <2>8, <2>14
    <3>2. \A i \in (Len(g) - m + 1)..Len(g) : g[i] > since
      BY <2>13
    <3> HIDE DEF m, n, since
    <3>3. Cardinality({i \in DOMAIN g : g[i] > since}) >= n
      BY <3>1, <3>2, RecentCount
    <3>4. QED
      BY <3>3 DEF n, since
  <2>16. QED
    BY <2>15 DEF g, f
<1>2. AccessInv /\ [ApiNext]_allVars
        => [\A c \in Caller :
              LET k == req[c].key
                  since == now - fenster[General[k]] - MaxDelay
              IN  req[c].step = "wait" /\ req[c].key # Other /\ ~call'[c].ok /\ ~call'[c].full
                      /\ call'[c].step = "idle"
                  => Cardinality({i \in DOMAIN served[k] : served[k][i] > since})
                        >= anzahl[General[k]]]_allVars
  BY <1>1
<1>3. QED
  BY <1>2, AccessInvariant, PTL DEF ApiSpec, OwnAllowance

-------------------------------------------------------------------------------
(* Calls that are refused *)

\* r is g with some of its elements left out.
Within(r, g) ==
    \E f \in [1..Len(r) -> 1..Len(g)] :
        /\ \A i \in 1..Len(r) : r[i] = g[f[i]]
        /\ \A i, j \in 1..Len(r) : i <= j => f[j] - f[i] >= j - i

LEMMA WithinLonger ==
    ASSUME NEW r \in Seq(Nat), NEW g \in Seq(Nat), NEW t \in Nat, Within(r, g)
    PROVE  Within(r, Append(g, t))
<1>1. PICK f \in [1..Len(r) -> 1..Len(g)] :
        /\ \A i \in 1..Len(r) : r[i] = g[f[i]]
        /\ \A i, j \in 1..Len(r) : i <= j => f[j] - f[i] >= j - i
  BY DEF Within
<1>2. /\ Len(Append(g, t)) = Len(g) + 1 /\ Len(g) \in Nat
      /\ \A i \in 1..Len(g) : Append(g, t)[i] = g[i]
  BY AppendProperties, LenProperties
<1>3. \A i \in 1..Len(r) : f[i] \in 1..Len(g)
  BY <1>1
<1>4. f \in [1..Len(r) -> 1..Len(Append(g, t))]
  BY <1>2, <1>3
<1>5. \A i \in 1..Len(r) : r[i] = Append(g, t)[f[i]]
  BY <1>1, <1>2, <1>3
<1>6. QED
  BY <1>1, <1>4, <1>5, Zenon DEF Within

LEMMA WithinBoth ==
    ASSUME NEW r \in Seq(Nat), NEW g \in Seq(Nat), NEW t \in Nat, Within(r, g)
    PROVE  Within(Append(r, t), Append(g, t))
<1> DEFINE m == Len(r)
           n == Len(g)
<1>1. PICK f \in [1..m -> 1..n] :
        /\ \A i \in 1..m : r[i] = g[f[i]]
        /\ \A i, j \in 1..m : i <= j => f[j] - f[i] >= j - i
  BY DEF Within
<1>2. /\ Len(Append(g, t)) = n + 1 /\ n \in Nat
      /\ \A i \in 1..n : Append(g, t)[i] = g[i]
      /\ Append(g, t)[n + 1] = t
      /\ Len(Append(r, t)) = m + 1 /\ m \in Nat
      /\ \A i \in 1..m : Append(r, t)[i] = r[i]
      /\ Append(r, t)[m + 1] = t
  BY AppendProperties, LenProperties
<1> DEFINE h == [i \in 1..(m + 1) |-> IF i = m + 1 THEN n + 1 ELSE f[i]]
<1> HIDE DEF m, n
<1>3. \A i \in 1..m : f[i] \in 1..n
  BY <1>1
<1>4. h \in [1..(m + 1) -> 1..(n + 1)]
  BY <1>2, <1>3
<1>5. \A i \in 1..(m + 1) : Append(r, t)[i] = Append(g, t)[h[i]]
  <2> TAKE i \in 1..(m + 1)
  <2>1. CASE i = m + 1
    BY <1>2, <2>1
  <2>2. CASE i # m + 1
    <3>1. i \in 1..m /\ h[i] = f[i]
      BY <1>2, <2>2
    <3>2. QED
      BY <1>1, <1>2, <1>3, <3>1
  <2>3. QED
    BY <2>1, <2>2
<1>6. \A i, j \in 1..(m + 1) : i <= j => h[j] - h[i] >= j - i
  <2> SUFFICES ASSUME NEW i \in 1..(m + 1), NEW j \in 1..(m + 1), i <= j
               PROVE  h[j] - h[i] >= j - i
    OBVIOUS
  <2>1. CASE i = m + 1
    BY <1>2, <2>1
  <2>2. CASE i # m + 1 /\ j # m + 1
    BY <1>1, <1>2, <1>3, <2>2
  <2>3. CASE i # m + 1 /\ j = m + 1
    <3>1. i \in 1..m /\ m \in 1..m /\ i <= m
      BY <1>2, <2>3
    <3>2. f[m] - f[i] >= m - i /\ f[m] \in 1..n /\ f[i] \in 1..n
      BY <1>1, <1>3, <3>1
    <3>3. h[j] = n + 1 /\ h[i] = f[i]
      BY <2>3, <3>1
    <3>4. \A x, y \in Int : x - y >= m - i /\ x <= n => n + 1 - y >= m + 1 - i
      BY <1>2, <3>1
    <3> HIDE DEF h
    <3>5. n + 1 - f[i] >= m + 1 - i
      BY <1>2, <3>2, <3>4
    <3>6. QED
      BY <1>2, <2>3, <3>1, <3>2, <3>3, <3>5
  <2>4. QED
    BY <2>1, <2>2, <2>3
<1> HIDE DEF h
<1>7. QED
  BY <1>2, <1>4, <1>5, <1>6 DEF Within

\* Elements left out bring the others no closer.
LEMMA WithinSpaced ==
    ASSUME NEW r \in Seq(Nat), NEW g \in Seq(Nat), NEW n \in Nat, NEW f \in Nat,
           Within(r, g), Spaced(g, n, f), \A i, j \in 1..Len(g) : i <= j => g[i] <= g[j]
    PROVE  Spaced(r, n, f)
<1>1. PICK e \in [1..Len(r) -> 1..Len(g)] :
        /\ \A i \in 1..Len(r) : r[i] = g[e[i]]
        /\ \A i, j \in 1..Len(r) : i <= j => e[j] - e[i] >= j - i
  BY DEF Within
<1>2. MaxDelay \in Nat /\ Len(r) \in Nat /\ Len(g) \in Nat
  BY LimitAssumption, LenProperties
<1>3. \A i \in 1..Len(r) : e[i] \in 1..Len(g)
  BY <1>1
<1>4. ASSUME NEW i \in 1..Len(r), i + n <= Len(r)
      PROVE  r[i + n] - r[i] >= f - MaxDelay
  <2> DEFINE j == i + n
             x == e[i]
             y == e[j]
  <2>1. j \in 1..Len(r) /\ i <= j /\ j - i = n
    BY <1>2, <1>4
  <2>2. x \in 1..Len(g) /\ y \in 1..Len(g) /\ y - x >= j - i /\ r[i] = g[x] /\ r[j] = g[y]
    <3> HIDE DEF j
    <3>1. QED
      BY <1>1, <1>3, <2>1
  <2>3. x + n \in 1..Len(g) /\ x + n <= y
    <3> HIDE DEF j, x, y
    <3>1. QED
      BY <1>2, <2>1, <2>2
  <2> HIDE DEF j, x, y
  <2>4. g[x + n] - g[x] >= f - MaxDelay
    BY <1>2, <2>2, <2>3 DEF Spaced
  <2>5. g[x + n] <= g[y]
    BY <2>2, <2>3
  <2>6. g[x + n] \in Nat /\ g[x] \in Nat /\ g[y] \in Nat
    BY <2>2, <2>3, ElementOfSeq
  <2>7. r[j] - r[i] >= f - MaxDelay
    <3>1. \A a, b, c \in Nat : b - a >= f - MaxDelay /\ b <= c => c - a >= f - MaxDelay
      BY <1>2
    <3>2. g[y] - g[x] >= f - MaxDelay
      BY <2>4, <2>5, <2>6, <3>1, Zenon
    <3>3. QED
      BY <2>2, <3>2
  <2>8. QED
    BY <2>7 DEF j
<1>5. QED
  BY <1>4 DEF Spaced

\* What was refused was admitted under the counter of the address.
LEMMA RefusedWithin ==
    ASSUME AccessInv, [ApiNext]_allVars, Within(refused, admitted[Anon])
    PROVE  Within(refused, admitted[Anon])'
<1>1. /\ admitted \in [Key -> Seq(Nat)] /\ Anon \in Key /\ refused \in Seq(Nat)
      /\ admitted[Anon] \in Seq(Nat)
  BY AccessAssumption DEF AccessInv, IInv, TypeOK
<1>2. CASE UNCHANGED <<refused, admitted>>
  BY <1>2 DEF Within
<1>3. ASSUME NEW c \in Caller, Answered(c) PROVE Within(refused, admitted[Anon])'
  <2>1. /\ call[c].key \in Key /\ now \in Nat
        /\ admitted' = IF call'[c].ok
                       THEN [admitted EXCEPT ![call[c].key] = Append(admitted[call[c].key], now)]
                       ELSE admitted
    BY <1>3, LimiterAnswers DEF Answered, AccessInv
  <2>2. refused' = IF call[c].key = Anon /\ ~Slowed(c) THEN Append(refused, now) ELSE refused
    BY <1>3 DEF Answered
  <2>3. CASE call[c].key = Anon /\ call'[c].ok
    <3>1. admitted'[Anon] = Append(admitted[Anon], now)
      BY <1>1, <2>1, <2>3
    <3>2. refused' = refused \/ refused' = Append(refused, now)
      BY <2>2
    <3>3. Within(refused', admitted'[Anon])
      BY <1>1, <2>1, <3>1, <3>2, WithinLonger, WithinBoth
    <3>4. QED
      BY <3>3 DEF Within
  <2>4. CASE ~(call[c].key = Anon /\ call'[c].ok)
    <3>1. admitted'[Anon] = admitted[Anon]
      BY <1>1, <2>1, <2>4
    <3>2. refused' = refused
      BY <2>2, <2>4 DEF Slowed
    <3>3. QED
      BY <3>1, <3>2 DEF Within
  <2>5. QED
    BY <2>3, <2>4
<1>4. (~ \E c \in Caller : Answered(c)) => UNCHANGED <<refused, admitted>>
  BY DEF ApiNext, TimePasses, Tick, Issue, Revoke, Remove, Lookup, UseKey, PressButton,
         AskLimit, ReadClock, allVars, accessVars, vars
<1>5. QED
  BY <1>2, <1>3, <1>4

\* However many keys are tried from one address, and although each prefix has a
\* counter of its own, the address is refused no more often than its limit allows
\* (authentifiziere: both limits of a bad call are asked).
THEOREM RefusalsAreBounded == ApiSpec => []RefusalsBounded
<1>1. ApiInit => Within(refused, admitted[Anon])
  <2> SUFFICES ASSUME ApiInit PROVE Within(refused, admitted[Anon])
    OBVIOUS
  <2>1. refused = <<>> /\ admitted[Anon] = <<>> /\ Len(<<>>) = 0
    BY AccessAssumption DEF ApiInit, Init
  <2> DEFINE f == [i \in 1..0 |-> i]
  <2>2. f \in [1..0 -> 1..0] /\ \A i \in 1..0 : FALSE
    OBVIOUS
  <2> HIDE DEF f
  <2>3. QED
    BY <2>1, <2>2 DEF Within
<1>2. AccessInv /\ Within(refused, admitted[Anon]) /\ [ApiNext]_allVars
        => Within(refused, admitted[Anon])'
  BY RefusedWithin
<1>3. ASSUME AccessInv, Within(refused, admitted[Anon]) PROVE RefusalsBounded
  <2>1. /\ Anon \in Key /\ refused \in Seq(Nat) /\ admitted[Anon] \in Seq(Nat)
        /\ anzahl[Anon] \in Nat /\ fenster[Anon] \in Nat
    BY <1>3, AccessAssumption, LimitAssumption DEF AccessInv, IInv, TypeOK
  <2>2. /\ Spaced(admitted[Anon], anzahl[Anon], fenster[Anon])
        /\ \A i, j \in 1..Len(admitted[Anon]) : i <= j => admitted[Anon][i] <= admitted[Anon][j]
    BY <1>3, <2>1 DEF AccessInv, IInv, BucketInv, Covers
  <2>3. Spaced(refused, anzahl[Anon], fenster[Anon])
    BY <1>3, <2>1, <2>2, WithinSpaced
  <2>4. QED
    BY <2>3 DEF Spaced, RefusalsBounded
<1>4. QED
  BY <1>1, <1>2, <1>3, AccessInvariant, PTL DEF ApiSpec
===============================================================================
