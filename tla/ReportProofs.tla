----------------------------- MODULE ReportProofs -----------------------------
(***************************************************************************)
(* What a customer's report says (app/graph.py and the portal's readings   *)
(* of it), for every size.                                                 *)
(*                                                                         *)
(* No two channels of a sensor end with one name.  Suffixes may leave      *)
(* names shared; what makes the numbers at the end suffice: until then no  *)
(* name ends with a number, so a numbered name is nobody else's, and       *)
(* within a group the numbers differ.                                      *)
(*                                                                         *)
(* Dashboard, findings and sensors agree.  The totals in the row are those *)
(* of the snapshot, whatever happened since the scan, and a sensor's       *)
(* colour is decided by its age and by the days of the channels it shows.  *)
(***************************************************************************)
EXTENDS ChannelNames, CustomerView, FiniteSetTheorems, SequenceTheorems,
        WellFoundedInduction, TLAPS

-------------------------------------------------------------------------------
(* The names of the channels *)

LastPart(s) == s[Len(s)]

\* Before the numbers, every name ends with its type or with a suffix.
Unnumbered ==
    step # "done" => \A i \in DOMAIN name : LastPart(name[i]) \in Types \cup Kinds \cup Prefix

NamesIInv == NamesTypeOK /\ Unnumbered /\ NamesUnique

-------------------------------------------------------------------------------

LEMMA Appended ==
    ASSUME NEW s \in Seq(Part), NEW e \in Part
    PROVE  /\ Append(s, e) \in Seq(Part)
           /\ Len(Append(s, e)) = Len(s) + 1
           /\ LastPart(Append(s, e)) = e
  <1>1. /\ Append(s, e) \in Seq(Part)
        /\ Len(Append(s, e)) = Len(s) + 1
        /\ Append(s, e)[Len(s) + 1] = e
    BY AppendProperties
  <1> QED BY <1>1 DEF LastPart

LEMMA AppendedEqual ==
    \A s, t \in Seq(Part) : \A e, f \in Part : Append(s, e) = Append(t, f) => s = t /\ e = f
  BY AppendInjective

\* A position in a group: between 1 and Most, and growing along the list.
LEMMA Positions ==
    ASSUME NamesTypeOK, NEW i \in DOMAIN name
    PROVE  /\ Index(i) \in 1..Most
           /\ \A j \in DOMAIN name : i < j /\ name[i] = name[j] => Index(i) < Index(j)
  <1> DEFINE Upto(k) == {j \in Sharing(k) : j <= k}
  <1>1. PICK n \in 0..Most : list \in [1..n -> Channel] /\ name \in [1..n -> Seq(Part)]
    BY DEF NamesTypeOK
  <1>2. n \in Nat /\ Most \in Nat /\ DOMAIN name = 1..n /\ n <= Most
    BY <1>1, NamesAssumption
  <1>3. \A k \in DOMAIN name : /\ IsFiniteSet(Upto(k))
                               /\ Upto(k) \subseteq 1..n
                               /\ k \in Upto(k)
                               /\ Index(k) = Cardinality(Upto(k))
    <2>1. \A k \in DOMAIN name : Upto(k) \subseteq 1..n /\ k \in Upto(k)
      BY <1>2 DEF Sharing
    <2>2. IsFiniteSet(1..n)
      BY <1>2, FS_Interval
    <2>3. \A k \in DOMAIN name : IsFiniteSet(Upto(k))
      BY <2>1, <2>2, FS_Subset
    <2> QED BY <2>1, <2>3 DEF Index
  <1>4. Index(i) \in 1..Most
    <2>1. Cardinality(1..n) = n /\ IsFiniteSet(1..n)
      BY <1>2, FS_Interval
    <2>2. Cardinality(Upto(i)) <= n
      BY <1>3, <2>1, FS_Subset
    <2>3. Cardinality(Upto(i)) \in Nat /\ Cardinality(Upto(i)) # 0
      <3>1. Cardinality(Upto(i)) \in Nat
        BY <1>3, FS_CardinalityType
      <3>2. Upto(i) # {}
        BY <1>3
      <3>3. Cardinality(Upto(i)) # 0
        BY <1>3, <3>2, FS_EmptySet
      <3> QED BY <3>1, <3>3
    <2>4. Index(i) = Cardinality(Upto(i))
      BY <1>3
    <2> HIDE DEF Upto
    <2> QED BY <1>2, <2>2, <2>3, <2>4
  <1>5. ASSUME NEW j \in DOMAIN name, i < j, name[i] = name[j]
        PROVE  Index(i) < Index(j)
    <2>1. Upto(i) \subseteq Upto(j) \ {j}
      BY <1>2, <1>5 DEF Sharing
    <2>2. j \in Upto(j) /\ IsFiniteSet(Upto(j))
      BY <1>3
    <2>3. IsFiniteSet(Upto(j) \ {j}) /\ Cardinality(Upto(j) \ {j}) = Cardinality(Upto(j)) - 1
      BY <2>2, FS_RemoveElement
    <2>4. Cardinality(Upto(i)) <= Cardinality(Upto(j) \ {j})
      BY <2>1, <2>3, FS_Subset
    <2>5. Cardinality(Upto(i)) \in Nat /\ Cardinality(Upto(j)) \in Nat
      BY <1>3, FS_CardinalityType
    <2>6. Index(i) = Cardinality(Upto(i)) /\ Index(j) = Cardinality(Upto(j))
      BY <1>3
    <2> HIDE DEF Upto
    <2> QED BY <2>3, <2>4, <2>5, <2>6
  <1> QED BY <1>4, <1>5

-------------------------------------------------------------------------------

LEMMA NamesInitHolds == NamesInit => NamesIInv
  <1> SUFFICES ASSUME NamesInit PROVE NamesIInv
    OBVIOUS
  <1>1. PICK n \in 0..Most : list \in [1..n -> Channel]
    BY DEF NamesInit
  <1>2. \A i \in 1..n : /\ name[i] = <<directory[list[i][1]].app, list[i][2]>>
                        /\ directory[list[i][1]].app \in App
                        /\ list[i][2] \in Types
    BY <1>1 DEF NamesInit, Plain, Channel, Entry
  <1>3. \A i \in 1..n : name[i] \in Seq(Part) /\ Len(name[i]) = 2 /\ LastPart(name[i]) \in Types
    <2> SUFFICES ASSUME NEW i \in 1..n
                 PROVE  name[i] \in Seq(Part) /\ Len(name[i]) = 2 /\ LastPart(name[i]) \in Types
      OBVIOUS
    <2>1. PICK a \in App, t \in Types : name[i] = <<a, t>>
      BY <1>2
    <2>2. a \in Part /\ t \in Part
      BY DEF Part
    <2>3. <<a, t>> \in Seq(Part)
      BY <2>2
    <2> QED BY <2>1, <2>3 DEF LastPart
  <1>4. name \in [1..n -> Seq(Part)]
    BY <1>1, <1>3 DEF NamesInit
  <1>5. NamesTypeOK
    <2>1. \A i \in DOMAIN name : Len(name[i]) >= 2
      <3>1. DOMAIN name = 1..n
        BY <1>4
      <3>2. \A i \in 1..n : Len(name[i]) = 2
        BY <1>3
      <3>3. \A x : x = 2 => x >= 2
        OBVIOUS
      <3> QED BY <3>1, <3>2, <3>3, Zenon
    <2>2. directory \in [Object -> Entry] /\ step = "kind"
      BY DEF NamesInit
    <2> QED BY <1>1, <1>4, <2>1, <2>2 DEF NamesTypeOK
  <1>6. Unnumbered /\ NamesUnique
    BY <1>3, <1>4 DEF NamesInit, Unnumbered, NamesUnique
  <1> QED BY <1>5, <1>6 DEF NamesIInv

LEMMA SuffixHolds ==
    ASSUME NamesIInv, NEW field \in {"kind", "appId", "id"}, NEW next \in {"appId", "id", "number"},
           AddSuffix(field, next)
    PROVE  NamesIInv'
  <1>1. PICK n \in 0..Most : list \in [1..n -> Channel] /\ name \in [1..n -> Seq(Part)]
    BY DEF NamesIInv, NamesTypeOK
  <1>2. CASE Distinct(name)
    <2>1. step' = "done" /\ UNCHANGED <<directory, list, name>>
      BY <1>2 DEF AddSuffix
    <2> QED BY <1>2, <2>1 DEF NamesIInv, NamesTypeOK, Unnumbered, NamesUnique, Distinct
  <1>3. CASE ~Distinct(name)
    <2> DEFINE suffix(i) == directory[list[i][1]][field]
    <2>1. /\ step' = next /\ step # "done"
          /\ UNCHANGED <<directory, list>>
          /\ name' = [i \in DOMAIN name |->
                        IF Splits(field, i) THEN Append(name[i], suffix(i)) ELSE name[i]]
      BY <1>3 DEF AddSuffix
    <2>2. \A i \in 1..n : suffix(i) \in Kinds \cup Prefix /\ suffix(i) \in Part
      BY <1>1 DEF NamesIInv, NamesTypeOK, Channel, Entry, Part
    <2>3. \A i \in 1..n : /\ name'[i] \in Seq(Part)
                          /\ Len(name'[i]) >= 2
                          /\ LastPart(name'[i]) \in Types \cup Kinds \cup Prefix
      <3> SUFFICES ASSUME NEW i \in 1..n
                   PROVE  /\ name'[i] \in Seq(Part)
                          /\ Len(name'[i]) >= 2
                          /\ LastPart(name'[i]) \in Types \cup Kinds \cup Prefix
        OBVIOUS
      <3>1. /\ name[i] \in Seq(Part) /\ Len(name[i]) >= 2 /\ Len(name[i]) \in Nat
            /\ LastPart(name[i]) \in Types \cup Kinds \cup Prefix
        BY <1>1, <2>1 DEF NamesIInv, NamesTypeOK, Unnumbered
      <3>2. CASE Splits(field, i)
        <4>1. name'[i] = Append(name[i], suffix(i))
          BY <1>1, <2>1, <3>2
        <4> HIDE DEF suffix
        <4> QED BY <2>2, <3>1, <4>1, Appended
      <3>3. CASE ~Splits(field, i)
        BY <1>1, <2>1, <3>1, <3>3
      <3> QED BY <3>2, <3>3
    <2>4. name' \in [1..n -> Seq(Part)]
      BY <1>1, <2>1, <2>3
    <2> HIDE DEF suffix
    <2> QED BY <1>1, <2>1, <2>3, <2>4 DEF NamesIInv, NamesTypeOK, Unnumbered, NamesUnique
  <1> QED BY <1>2, <1>3

LEMMA NumberHolds ==
    ASSUME NamesIInv, Number
    PROVE  NamesIInv'
  <1>1. PICK n \in 0..Most : list \in [1..n -> Channel] /\ name \in [1..n -> Seq(Part)]
    BY DEF NamesIInv, NamesTypeOK
  <1>2. /\ step' = "done"
        /\ UNCHANGED <<directory, list>>
        /\ DOMAIN name' = 1..n
        /\ \A i \in 1..n : name'[i] = IF Index(i) > 1 THEN Append(name[i], Ordinal[Index(i)])
                                      ELSE name[i]
    BY <1>1 DEF Number
  <1>3. \A i \in 1..n : /\ Index(i) \in 1..Most
                        /\ Ordinal[Index(i)] \in Part
                        /\ \A j \in 1..n : i < j /\ name[i] = name[j] => Index(i) < Index(j)
    BY <1>1, Positions DEF NamesIInv, Part
  <1>4. \A i \in 1..n : /\ name[i] \in Seq(Part) /\ Len(name[i]) >= 2 /\ Len(name[i]) \in Nat
                        /\ LastPart(name[i]) \in Types \cup Kinds \cup Prefix
    BY <1>1 DEF NamesIInv, NamesTypeOK, Unnumbered, Number
  <1>5. \A i \in 1..n : name'[i] \in Seq(Part) /\ Len(name'[i]) >= 2
    <2> SUFFICES ASSUME NEW i \in 1..n
                 PROVE  name'[i] \in Seq(Part) /\ Len(name'[i]) >= 2
      OBVIOUS
    <2>1. /\ name[i] \in Seq(Part) /\ Len(name[i]) >= 2 /\ Len(name[i]) \in Nat
          /\ Ordinal[Index(i)] \in Part
          /\ name'[i] = IF Index(i) > 1 THEN Append(name[i], Ordinal[Index(i)]) ELSE name[i]
      BY <1>2, <1>3, <1>4
    <2>2. /\ Append(name[i], Ordinal[Index(i)]) \in Seq(Part)
          /\ Len(Append(name[i], Ordinal[Index(i)])) = Len(name[i]) + 1
      BY <2>1, Appended
    <2> QED BY <2>1, <2>2
  <1>6. ASSUME NEW i \in 1..n, NEW j \in 1..n, i < j, name'[i] = name'[j]
        PROVE  FALSE
    <2>1. CASE name[i] = name[j]
      <3>1. Index(i) < Index(j) /\ Index(i) \in 1..Most /\ Index(j) \in 1..Most
        BY <1>3, <1>6, <2>1
      <3>2. name'[j] = Append(name[j], Ordinal[Index(j)])
        BY <1>2, <3>1
      <3>3. CASE Index(i) > 1
        <4>1. name'[i] = Append(name[i], Ordinal[Index(i)])
          BY <1>2, <3>3
        <4>2. Ordinal[Index(i)] = Ordinal[Index(j)]
          BY <1>3, <1>4, <1>6, <3>2, <4>1, AppendedEqual
        <4> QED BY <3>1, <4>2, NamesAssumption
      <3>4. CASE ~(Index(i) > 1)
        <4>1. name'[i] = name[i]
          BY <1>2, <3>4
        <4>2. Len(name'[j]) = Len(name[j]) + 1
          BY <1>3, <1>4, <3>2, Appended
        <4> QED BY <1>4, <1>6, <2>1, <4>1, <4>2
      <3> QED BY <3>3, <3>4
    <2>2. CASE name[i] # name[j]
      <3>1. ASSUME NEW k \in 1..n, NEW l \in 1..n, Index(k) > 1, ~(Index(l) > 1)
            PROVE  name'[k] # name'[l]
        <4>1. LastPart(name'[k]) = Ordinal[Index(k)]
          <5>1. name'[k] = Append(name[k], Ordinal[Index(k)])
            BY <1>2, <3>1
          <5>2. name[k] \in Seq(Part) /\ Ordinal[Index(k)] \in Part
            BY <1>3, <1>4
          <5> QED BY <5>1, <5>2, Appended
        <4>2. LastPart(name'[l]) \in Types \cup Kinds \cup Prefix
          BY <1>2, <1>4, <3>1
        <4> QED BY <1>3, <4>1, <4>2, NamesAssumption
      <3>2. CASE Index(i) > 1 /\ Index(j) > 1
        <4>1. /\ name'[i] = Append(name[i], Ordinal[Index(i)])
              /\ name'[j] = Append(name[j], Ordinal[Index(j)])
          BY <1>2, <3>2
        <4>2. /\ name[i] \in Seq(Part) /\ Ordinal[Index(i)] \in Part
              /\ name[j] \in Seq(Part) /\ Ordinal[Index(j)] \in Part
          BY <1>3, <1>4
        <4>3. Append(name[i], Ordinal[Index(i)]) = Append(name[j], Ordinal[Index(j)])
          BY <1>6, <4>1
        <4>4. name[i] = name[j]
          BY <4>2, <4>3, AppendedEqual, Zenon
        <4> QED BY <2>2, <4>4
      <3>3. CASE ~(Index(i) > 1) /\ ~(Index(j) > 1)
        BY <1>2, <1>6, <2>2, <3>3
      <3> QED BY <1>6, <3>1, <3>2, <3>3
    <2> QED BY <2>1, <2>2
  <1>7. NamesUnique'
    BY <1>2, <1>6 DEF NamesUnique, Distinct
  <1>8. name' \in [1..n -> Seq(Part)]
    BY <1>1, <1>2, <1>5 DEF Number
  <1> QED BY <1>1, <1>2, <1>5, <1>7, <1>8 DEF NamesIInv, NamesTypeOK, Unnumbered

LEMMA NamesStepHolds == NamesIInv /\ [NamesNext]_nameVars => NamesIInv'
  <1> SUFFICES ASSUME NamesIInv, [NamesNext]_nameVars PROVE NamesIInv'
    OBVIOUS
  <1>1. CASE AddSuffix("kind", "appId")
    BY <1>1, SuffixHolds
  <1>2. CASE AddSuffix("appId", "id")
    BY <1>2, SuffixHolds
  <1>3. CASE AddSuffix("id", "number")
    BY <1>3, SuffixHolds
  <1>4. CASE Number
    BY <1>4, NumberHolds
  <1>5. CASE UNCHANGED nameVars
    BY <1>5 DEF nameVars, NamesIInv, NamesTypeOK, Unnumbered, NamesUnique, Distinct
  <1> QED BY <1>1, <1>2, <1>3, <1>4, <1>5 DEF NamesNext, Done

LEMMA NamesInvariant == NamesSpec => []NamesIInv
  BY NamesInitHolds, NamesStepHolds, PTL DEF NamesSpec

\* Types of names and lists, for any tenant and any number of channels
\* (_assign_channel_names).
THEOREM NamesTypeCorrect == NamesSpec => []NamesTypeOK
  <1>1. NamesIInv => NamesTypeOK
    BY DEF NamesIInv
  <1> QED BY <1>1, NamesInvariant, PTL

\* The names of the monitor's channels are unique when they are sent
\* (_assign_channel_names).
THEOREM NamesEndUnique == NamesSpec => []NamesUnique
  <1>1. NamesIInv => NamesUnique
    BY DEF NamesIInv
  <1> QED BY <1>1, NamesInvariant, PTL

-------------------------------------------------------------------------------

\* Suffixes come at the end: a name still says whose it is.
Heads ==
    /\ DOMAIN name = DOMAIN list
    /\ \A i \in DOMAIN list : /\ name[i][1] = Plain(directory, list[i])[1]
                              /\ name[i][2] = Plain(directory, list[i])[2]

LEMMA AppendedHead ==
    ASSUME NEW s \in Seq(Part), NEW e \in Part, Len(s) >= 2
    PROVE  Append(s, e)[1] = s[1] /\ Append(s, e)[2] = s[2]
  BY AppendProperties

\* What the loop and the numbers do to a name: nothing or one part more.
Extended(i) == name'[i] = name[i] \/ \E e \in Part : name'[i] = Append(name[i], e)

LEMMA StepExtends ==
    ASSUME NamesIInv, NamesNext
    PROVE  /\ UNCHANGED <<directory, list>>
           /\ DOMAIN name' = DOMAIN name
           /\ \A i \in DOMAIN name : Extended(i)
  <1>1. PICK n \in 0..Most : list \in [1..n -> Channel] /\ name \in [1..n -> Seq(Part)]
    BY DEF NamesIInv, NamesTypeOK
  <1>2. ASSUME NEW field \in {"kind", "appId", "id"}, NEW next \in {"appId", "id", "number"},
               AddSuffix(field, next)
        PROVE  /\ UNCHANGED <<directory, list>>
               /\ DOMAIN name' = DOMAIN name
               /\ \A i \in DOMAIN name : Extended(i)
    <2>1. \A i \in 1..n : directory[list[i][1]][field] \in Part
      BY <1>1 DEF NamesIInv, NamesTypeOK, Channel, Entry, Part
    <2>2. CASE Distinct(name)
      BY <1>2, <2>2 DEF AddSuffix, Extended
    <2>3. CASE ~Distinct(name)
      BY <1>1, <1>2, <2>1, <2>3 DEF AddSuffix, Extended
    <2> QED BY <2>2, <2>3
  <1>3. CASE Number
    <2>1. \A i \in 1..n : Ordinal[Index(i)] \in Part
      BY <1>1, Positions DEF NamesIInv, Part
    <2> QED BY <1>1, <1>3, <2>1 DEF Number, Extended
  <1>4. CASE Done
    BY <1>4 DEF Done, nameVars, Extended
  <1> QED BY <1>2, <1>3, <1>4 DEF NamesNext

LEMMA HeadsHold ==
    ASSUME NamesIInv, Heads, NamesNext
    PROVE  Heads'
  <1>1. PICK n \in 0..Most : list \in [1..n -> Channel] /\ name \in [1..n -> Seq(Part)]
    BY DEF NamesIInv, NamesTypeOK
  <1>2. ASSUME NEW i \in 1..n
        PROVE  name'[i][1] = name[i][1] /\ name'[i][2] = name[i][2]
    <2>1. name[i] \in Seq(Part) /\ Len(name[i]) >= 2
      BY <1>1 DEF NamesIInv, NamesTypeOK
    <2>2. Extended(i)
      BY <1>1, StepExtends
    <2> QED BY <2>1, <2>2, AppendedHead DEF Extended
  <1> QED BY <1>1, <1>2, StepExtends DEF Heads, Plain

\* The other channels have other plain names.
Lone(i) == \A j \in DOMAIN list \ {i} : Plain(directory, list[j]) # Plain(directory, list[i])

LEMMA LoneIsAlone ==
    ASSUME Heads, NEW i \in DOMAIN list, Lone(i)
    PROVE  Sharing(i) = {i}
  <1>1. ASSUME NEW j \in Sharing(i) PROVE j = i
    <2>1. j \in DOMAIN list /\ name[j] = name[i]
      BY <1>1 DEF Sharing, Heads
    <2>2. Plain(directory, list[j]) = Plain(directory, list[i])
      BY <2>1 DEF Heads, Plain
    <2> QED BY <2>1, <2>2 DEF Lone
  <1> QED BY <1>1 DEF Sharing, Heads

LEMMA LoneUntouched ==
    ASSUME NamesIInv, Heads, NamesNext, NEW i \in DOMAIN list, Lone(i)
    PROVE  name'[i] = name[i]
  <1>1. Sharing(i) = {i} /\ i \in DOMAIN name
    BY LoneIsAlone DEF Heads
  <1>2. \A field : ~Splits(field, i)
    BY <1>1 DEF Splits
  <1>3. ASSUME NEW field, NEW next, AddSuffix(field, next) PROVE name'[i] = name[i]
    BY <1>1, <1>2, <1>3 DEF AddSuffix
  <1>4. ~(Index(i) > 1)
    <2>1. \/ {j \in Sharing(i) : j <= i} = {i}
          \/ {j \in Sharing(i) : j <= i} = {}
      BY <1>1
    <2>2. Index(i) = 1 \/ Index(i) = 0
      BY <2>1, FS_Singleton, FS_EmptySet DEF Index
    <2> QED BY <2>2
  <1>5. CASE Number
    BY <1>1, <1>4, <1>5 DEF Number
  <1>6. CASE Done
    BY <1>6 DEF Done, nameVars
  <1> QED BY <1>3, <1>5, <1>6 DEF NamesNext

KInv == NamesIInv /\ Heads /\ LoneNameKept

\* A channel whose plain name nobody else has keeps that name and with it its
\* history in PRTG, whatever the other channels need (_assign_channel_names).
THEOREM LoneNamesAreKept == NamesSpec => []LoneNameKept
  <1>1. NamesInit => KInv
    <2> SUFFICES ASSUME NamesInit PROVE KInv
      OBVIOUS
    <2>1. Heads
      BY DEF NamesInit, Heads
    <2>2. LoneNameKept
      BY DEF NamesInit, LoneNameKept
    <2> QED BY <2>1, <2>2, NamesInitHolds DEF KInv
  <1>2. KInv /\ [NamesNext]_nameVars => KInv'
    <2> SUFFICES ASSUME KInv, [NamesNext]_nameVars PROVE KInv'
      OBVIOUS
    <2>1. NamesIInv'
      BY NamesStepHolds DEF KInv
    <2>2. CASE NamesNext
      <3>1. Heads'
        BY <2>2, HeadsHold DEF KInv
      <3>2. UNCHANGED <<directory, list>>
        BY <2>2, StepExtends DEF KInv
      <3>3. \A i \in DOMAIN list : Lone(i) => name[i] = Plain(directory, list[i])
        BY DEF KInv, LoneNameKept, Lone
      <3>4. \A i \in DOMAIN list : Lone(i) => name'[i] = Plain(directory, list[i])
        BY <2>2, <3>3, LoneUntouched DEF KInv
      <3>5. LoneNameKept'
        BY <3>2, <3>4 DEF LoneNameKept, Lone, Plain
      <3> QED BY <2>1, <3>1, <3>5 DEF KInv
    <2>3. CASE UNCHANGED nameVars
      BY <2>1, <2>3 DEF nameVars, KInv, Heads, LoneNameKept, Plain
    <2> QED BY <2>2, <2>3
  <1>3. KInv => LoneNameKept
    BY DEF KInv
  <1> QED BY <1>1, <1>2, <1>3, PTL DEF NamesSpec

-------------------------------------------------------------------------------
(* Least and greatest numbers *)

LEMMA LeastExists ==
    ASSUME NEW T, T \subseteq Nat, T # {}
    PROVE  \E x \in T : \A y \in T : x <= y
  <1> DEFINE F == {0..x : x \in T}
  <1>1. F \subseteq FiniteSubsetsOf(Nat)
    <2>1. ASSUME NEW x \in T PROVE IsFiniteSet(0..x) /\ 0..x \subseteq Nat
      BY FS_Interval
    <2> QED BY <2>1 DEF FiniteSubsetsOf
  <1>2. F # {}
    OBVIOUS
  <1>3. PICK s \in F : \A t \in F : <<t, s>> \notin StrictSubsetOrdering(Nat)
    <2> HIDE DEF F
    <2> QED BY <1>1, <1>2, FS_StrictSubsetOrderingWellFounded, WFMin
  <1>4. PICK x \in T : s = 0..x
    BY <1>3
  <1>5. ASSUME NEW y \in T PROVE x <= y
    <2>1. <<0..y, 0..x>> \notin StrictSubsetOrdering(Nat)
      BY <1>3, <1>4
    <2> QED BY <2>1 DEF StrictSubsetOrdering
  <1> QED BY <1>5

LEMMA MinIs ==
    ASSUME NEW S, S \subseteq Int, S # {}, NEW low \in Int, \A s \in S : low <= s
    PROVE  Min(S) \in S /\ \A s \in S : Min(S) <= s
  <1> DEFINE T == {s - low : s \in S}
  <1>1. T \subseteq Nat /\ T # {}
    <2>1. \A s \in S : s - low \in Nat
      OBVIOUS
    <2> QED BY <2>1
  <1>2. PICK x \in T : \A y \in T : x <= y
    <2> HIDE DEF T
    <2> QED BY <1>1, LeastExists
  <1>3. PICK m \in S : x = m - low
    BY <1>2
  <1>4. ASSUME NEW s \in S PROVE m <= s
    <2>1. x <= s - low
      BY <1>2
    <2> QED BY <1>3, <2>1
  <1> QED BY <1>4 DEF Min

LEMMA MaxIs ==
    ASSUME NEW S, S \subseteq Int, S # {}, NEW high \in Int, \A s \in S : s <= high
    PROVE  Max(S) \in S /\ \A s \in S : s <= Max(S)
  <1> DEFINE T == {high - s : s \in S}
  <1>1. T \subseteq Nat /\ T # {}
    <2>1. \A s \in S : high - s \in Nat
      OBVIOUS
    <2> QED BY <2>1
  <1>2. PICK x \in T : \A y \in T : x <= y
    <2> HIDE DEF T
    <2> QED BY <1>1, LeastExists
  <1>3. PICK m \in S : x = high - m
    BY <1>2
  <1>4. ASSUME NEW s \in S PROVE m >= s
    <2>1. x <= high - s
      BY <1>2
    <2> QED BY <1>3, <2>1
  <1>5. Max(S) \in S /\ \A s \in S : Max(S) >= s
    BY <1>4 DEF Max
  <1> QED BY <1>5

\* The least of some numbers is below a limit if one of them is.
LEMMA LeastBelow ==
    ASSUME NEW S, S \subseteq Int, NEW low \in Int, \A s \in S : low <= s
    PROVE  /\ Least(S) \in Int
           /\ \A limit \in 1..Far : Least(S) < limit <=> \E s \in S : s < limit
  <1>1. CASE S = {}
    BY <1>1 DEF Least, Far
  <1>2. CASE S # {}
    <2>1. Least(S) \in S /\ \A s \in S : Least(S) <= s
      BY <1>2, MinIs DEF Least
    <2>2. ASSUME NEW limit \in 1..Far, NEW s \in S, s < limit PROVE Least(S) < limit
      <3>1. Least(S) \in Int /\ Least(S) <= s
        BY <2>1
      <3>2. limit \in Int /\ s \in Int
        BY DEF Far
      <3>3. \A m \in Int : m <= s => m < limit
        BY <2>2, <3>2
      <3> QED BY <3>1, <3>3
    <2> QED BY <2>1, <2>2
  <1> QED BY <1>1, <1>2

-------------------------------------------------------------------------------
(* What a scan leaves *)

LEMMA WholeDays ==
    ASSUME NEW x \in Int
    PROVE  /\ x \div DayLength \in Int
           /\ (x \div DayLength) * DayLength <= x
           /\ \A h \in Nat : -h <= x => -h <= x \div DayLength
  <1>1. DayLength \in Nat /\ DayLength >= 1
    BY ViewAssumption
  <1>2. x \div DayLength \in Int
    BY <1>1
  <1>3. /\ (x \div DayLength) * DayLength <= x
        /\ x < (x \div DayLength) * DayLength + DayLength
    BY <1>1
  <1>4. ASSUME NEW h \in Nat, -h <= x, NEW q \in Int, x < q * DayLength + DayLength
        PROVE  -h <= q
    <2> SUFFICES ASSUME q <= -h - 1 PROVE FALSE
      BY <1>4
    <2>1. (q + 1) * DayLength <= (-h) * DayLength
      BY <1>1, <1>4
    <2>2. (-h) * DayLength <= -h
      BY <1>1, <1>4
    <2> QED BY <1>1, <1>4, <2>1, <2>2
  <1> QED BY <1>2, <1>3, <1>4

LEMMA LongestIs ==
    ASSUME NEW tenant \in Tenant, NEW g \in {c[1] : c \in tenant}
    PROVE  Longest(tenant, g) \in End
  <1> DEFINE ends == {c[2] : c \in {d \in tenant : d[1] = g}}
  <1>1. ends \subseteq End /\ ends # {}
    BY DEF Tenant
  <1>2. PICK last \in End : \A end \in End : end <= last
    BY ViewAssumption
  <1>3. Longest(tenant, g) = Max(ends)
    BY DEF Longest
  <1> HIDE DEF ends
  <1>4. ends \subseteq Int /\ last \in Int /\ \A end \in ends : end <= last
    BY <1>1, <1>2, ViewAssumption
  <1> QED BY <1>1, <1>3, <1>4, MaxIs

\* A snapshot: one channel of a group, with days that were true at some moment.
TakenAt(channels, moment) ==
    /\ channels \subseteq [group: Group, end: End, days: Int]
    /\ \A ch, other \in channels : ch.group = other.group => ch = other
    /\ \A ch \in channels : -Horizon <= ch.days /\ ch.days * DayLength <= ch.end - moment

LEMMA ChannelsAre ==
    ASSUME NEW wanted \in SUBSET Group, NEW show, now \in 0..Horizon, NEW tenant \in Tenant
    PROVE  TakenAt(Channels(tenant, wanted, show), now)
  <1> DEFINE groups == wanted \cap {c[1] : c \in tenant}
             channel(g) == [group |-> g, end |-> Longest(tenant, g), days |-> DaysLeft(Longest(tenant, g))]
  <1>1. \A ch \in Channels(tenant, wanted, show) : \E g \in groups : ch = channel(g)
    BY DEF Channels
  <1>2. ASSUME NEW g \in groups
        PROVE  /\ channel(g) \in [group: Group, end: End, days: Int]
               /\ -Horizon <= channel(g).days
               /\ channel(g).days * DayLength <= channel(g).end - now
    <2>1. g \in Group /\ Longest(tenant, g) \in End /\ Longest(tenant, g) \in Nat
      BY LongestIs, ViewAssumption
    <2>2. now \in Nat /\ Horizon \in Nat /\ now <= Horizon
      BY ViewAssumption
    <2>3. Longest(tenant, g) - now \in Int /\ -Horizon <= Longest(tenant, g) - now
      BY <2>1, <2>2
    <2>4. /\ DaysLeft(Longest(tenant, g)) \in Int
          /\ DaysLeft(Longest(tenant, g)) * DayLength <= Longest(tenant, g) - now
          /\ -Horizon <= DaysLeft(Longest(tenant, g))
      BY <2>2, <2>3, WholeDays DEF DaysLeft
    <2> QED BY <2>1, <2>4
  <1>3. \A g, h \in groups : channel(g).group = channel(h).group => channel(g) = channel(h)
    OBVIOUS
  <1> HIDE DEF channel, groups
  <1> QED BY <1>1, <1>2, <1>3 DEF TakenAt

\* Fewer channels than groups are expired, and there is one if their number says so.
LEMMA ExpiredIs ==
    ASSUME NEW channels, NEW moment, TakenAt(channels, moment)
    PROVE  /\ Cardinality(Expired(channels)) \in 0..Cardinality(Group)
           /\ Cardinality(Expired(channels)) > 0 <=> \E ch \in channels : ch.days < 0
  <1> DEFINE E == Expired(channels)
             f == [ch \in E |-> ch.group]
  <1>1. E \subseteq channels
    BY DEF Expired
  <1>2. f \in Injection(E, Group)
    BY <1>1 DEF TakenAt, Injection, IsInjective
  <1>3. IsFiniteSet(E) /\ Cardinality(E) <= Cardinality(Group)
    <2> HIDE DEF E, f
    <2> QED BY <1>2, ViewAssumption, FS_Injection
  <1>4. Cardinality(E) \in Nat /\ Cardinality(Group) \in Nat
    BY <1>3, ViewAssumption, FS_CardinalityType
  <1>5. Cardinality(E) = 0 <=> E = {}
    BY <1>3, FS_EmptySet
  <1>6. E # {} <=> \E ch \in channels : ch.days < 0
    BY DEF Expired
  <1> HIDE DEF E
  <1>7. Cardinality(E) \in 0..Cardinality(Group) /\ (Cardinality(E) > 0 <=> E # {})
    BY <1>3, <1>4, <1>5
  <1> QED BY <1>6, <1>7 DEF E

LEMMA MinimumIs ==
    ASSUME NEW channels, NEW moment, TakenAt(channels, moment)
    PROVE  /\ Minimum(channels) \in Int
           /\ \A limit \in 1..Far : Minimum(channels) < limit <=> \E ch \in channels : ch.days < limit
  <1> DEFINE days == {ch.days : ch \in channels}
  <1>1. days \subseteq Int /\ -Horizon \in Int /\ \A d \in days : -Horizon <= d
    BY ViewAssumption DEF TakenAt
  <1>2. Minimum(channels) = Least(days)
    BY DEF Minimum
  <1>3. \A limit \in 1..Far : (\E d \in days : d < limit) <=> \E ch \in channels : ch.days < limit
    OBVIOUS
  <1> HIDE DEF days
  <1> QED BY <1>1, <1>2, <1>3, LeastBelow

-------------------------------------------------------------------------------
(* Row and snapshot *)

\* The totals in the row are those of the snapshot, and its days were true at the
\* moment the age counts from, when there is one.
RowInv ==
    /\ row.error <= row.warn
    /\ row.least = Minimum(snapshot)
    /\ row.expired = Cardinality(Expired(snapshot))
    /\ row.check <= now /\ row.success <= now
    /\ row.status = "pending" => snapshot = {} /\ row.check = Never /\ row.success = Never
    /\ row.status # "pending" => row.check # Never
    /\ TakenAt(snapshot, IF AgeBasis = Never THEN 0 ELSE AgeBasis)

ViewInv == TypeOK /\ RowInv


LEMMA TakenEarlier ==
    ASSUME NEW channels, NEW moment \in Int, NEW earlier \in Int, earlier <= moment,
           TakenAt(channels, moment)
    PROVE  TakenAt(channels, earlier)
  <1>1. \A ch \in channels : ch.days * DayLength <= ch.end - earlier
    <2> SUFFICES ASSUME NEW ch \in channels PROVE ch.days * DayLength <= ch.end - earlier
      OBVIOUS
    <2>1. ch.days \in Int /\ ch.end \in Int /\ DayLength \in Int
      <3>1. ch.days \in Int /\ ch.end \in End
        BY DEF TakenAt
      <3>2. End \subseteq Int /\ DayLength \in Int
        BY ViewAssumption
      <3> QED BY <3>1, <3>2
    <2>2. ch.days * DayLength <= ch.end - moment /\ ch.days * DayLength \in Int
      BY <2>1 DEF TakenAt
    <2> QED BY <2>1, <2>2
  <1> QED BY <1>1 DEF TakenAt

LEMMA NothingTaken ==
    /\ \A moment : TakenAt({}, moment)
    /\ Minimum({}) = Far /\ Expired({}) = {} /\ Cardinality({}) = 0
  BY FS_EmptySet DEF TakenAt, Minimum, Least, Expired

Customer == [active: BOOLEAN, status: {"pending", "ok", "error"}, check: Moment,
             success: Moment, least: Int, expired: 0..Cardinality(Group),
             warn: Threshold, error: Threshold, show: BOOLEAN]

LEMMA GroupsCounted == Cardinality(Group) \in Nat
  BY ViewAssumption, FS_CardinalityType

LEMMA NewRowIs ==
    ASSUME NEW warn \in Threshold, NEW error \in Threshold, NEW show \in BOOLEAN
    PROVE  NewRow(warn, error, show) \in Customer
  BY GroupsCounted DEF NewRow, Customer, Moment, Never, Far

\* A row written by a scan that found these channels.
LEMMA ScannedIs ==
    ASSUME NEW customer \in Customer, NEW channels, TakenAt(channels, now), now \in 0..Horizon
    PROVE  /\ Scanned(customer, channels) \in Customer
           /\ Scanned(customer, channels) =
                [customer EXCEPT !.status = "ok", !.check = now, !.success = now,
                                 !.least = Minimum(channels),
                                 !.expired = Cardinality(Expired(channels))]
  <1>1. Minimum(channels) \in Int /\ Cardinality(Expired(channels)) \in 0..Cardinality(Group)
    BY MinimumIs, ExpiredIs
  <1>2. Scanned(customer, channels) =
                [customer EXCEPT !.status = "ok", !.check = now, !.success = now,
                                 !.least = Minimum(channels),
                                 !.expired = Cardinality(Expired(channels))]
    BY DEF Scanned, Minimum
  <1>3. now \in Moment
    BY DEF Moment
  <1> QED BY <1>1, <1>2, <1>3 DEF Customer

LEMMA ViewInitHolds == Init => ViewInv
  <1> SUFFICES ASSUME Init PROVE ViewInv
    OBVIOUS
  <1>1. now = 0 /\ 0 \in 0..Horizon
    BY ViewAssumption DEF Init
  <1>2. PICK warn \in Threshold, error \in Threshold, show \in BOOLEAN :
          /\ error <= warn
          /\ \/ /\ snapshot = {}
                /\ row = NewRow(warn, error, show)
             \/ /\ \E tenant \in Tenant : snapshot = Channels(tenant, Group, show)
                /\ \E status \in {"ok", "error"} :
                      row = [Scanned(NewRow(warn, error, show), snapshot)
                                EXCEPT !.success = Never, !.status = status]
    BY DEF Init
  <1>3. CASE snapshot = {} /\ row = NewRow(warn, error, show)
    <2>1. TypeOK
      BY <1>1, <1>3, NewRowIs DEF TypeOK, Customer
    <2>2. RowInv
      BY <1>1, <1>2, <1>3, NothingTaken DEF RowInv, NewRow, Never
    <2> QED BY <2>1, <2>2 DEF ViewInv
  <1>4. ASSUME NEW tenant \in Tenant, snapshot = Channels(tenant, Group, show), NEW status \in {"ok", "error"},
               row = [Scanned(NewRow(warn, error, show), snapshot)
                        EXCEPT !.success = Never, !.status = status]
        PROVE  ViewInv
    <2>1. TakenAt(snapshot, now)
      BY <1>1, <1>4, ChannelsAre
    <2> DEFINE old == NewRow(warn, error, show)
               new == Scanned(old, snapshot)
    <2>2. old \in Customer /\ old.warn = warn /\ old.error = error
      BY NewRowIs DEF NewRow
    <2> HIDE DEF old
    <2>3. /\ new \in Customer
          /\ new = [old EXCEPT !.status = "ok", !.check = now, !.success = now,
                               !.least = Minimum(snapshot),
                               !.expired = Cardinality(Expired(snapshot))]
      BY <1>1, <2>1, <2>2, ScannedIs
    <2>4. row = [new EXCEPT !.success = Never, !.status = status]
      BY <1>4 DEF old
    <2> HIDE DEF new
    <2>5. /\ row \in Customer
          /\ row.warn = warn /\ row.error = error /\ row.check = 0 /\ row.success = Never
          /\ row.status = status
          /\ row.least = Minimum(snapshot) /\ row.expired = Cardinality(Expired(snapshot))
      BY <1>1, <2>2, <2>3, <2>4 DEF Customer, Moment
    <2>6. AgeBasis = Never \/ AgeBasis = 0
      BY <2>5 DEF AgeBasis
    <2>7. TypeOK
      BY <1>1, <2>1, <2>5 DEF TypeOK, TakenAt, Customer
    <2>8. RowInv
      BY <1>1, <1>2, <2>1, <2>5, <2>6 DEF RowInv, Never
    <2> QED BY <2>7, <2>8 DEF ViewInv
  <1> QED BY <1>2, <1>3, <1>4

LEMMA ScanKeepsView ==
    ASSUME ViewInv, NEW tenant \in Tenant, NEW wanted \in SUBSET Group,
           ScanSucceeds(tenant, wanted)
    PROVE  ViewInv'
  <1>1. /\ row \in Customer /\ now \in 0..Horizon
        /\ UNCHANGED now /\ row' = Scanned(row, snapshot')
    BY DEF ViewInv, TypeOK, Customer, ScanSucceeds
  <1>2. TakenAt(snapshot', now)
    BY <1>1, ChannelsAre DEF ScanSucceeds
  <1>3. /\ row' \in Customer
        /\ row' = [row EXCEPT !.status = "ok", !.check = now, !.success = now,
                              !.least = Minimum(snapshot'),
                              !.expired = Cardinality(Expired(snapshot'))]
    BY <1>1, <1>2, ScannedIs
  <1>4. /\ row'.error = row.error /\ row'.warn = row.warn
        /\ row'.status = "ok" /\ row'.check = now /\ row'.success = now
        /\ row'.least = Minimum(snapshot')
        /\ row'.expired = Cardinality(Expired(snapshot'))
    BY <1>1, <1>3 DEF Customer
  <1>5. now # Never /\ now <= now /\ AgeBasis' = now
    BY <1>1, <1>4 DEF AgeBasis, Never
  <1>6. TypeOK'
    BY <1>1, <1>2, <1>3 DEF TypeOK, TakenAt, Customer, Moment
  <1>7. (Minimum(snapshot))' = Minimum(snapshot') /\ (Expired(snapshot))' = Expired(snapshot')
    BY DEF Minimum, Expired
  <1>8. TakenAt(snapshot', IF AgeBasis' = Never THEN 0 ELSE AgeBasis')
    BY <1>2, <1>5
  <1>9. RowInv'
    BY <1>1, <1>4, <1>5, <1>7, <1>8 DEF ViewInv, RowInv, TakenAt
  <1> QED BY <1>6, <1>9 DEF ViewInv

LEMMA ViewStepHolds == ViewInv /\ [Next]_vars => ViewInv'
  <1> SUFFICES ASSUME ViewInv, [Next]_vars PROVE ViewInv'
    OBVIOUS
  <1>1. CASE UNCHANGED <<row, snapshot>> /\ now' \in 0..Horizon /\ now <= now'
    <2>1. TypeOK'
      BY <1>1 DEF ViewInv, TypeOK, Moment
    <2>2. row.check \in Int /\ row.success \in Int /\ now \in Int /\ now' \in Int
      BY <1>1 DEF ViewInv, TypeOK, Moment, Never
    <2>3. AgeBasis' = AgeBasis /\ UNCHANGED <<row, snapshot>>
      BY <1>1 DEF AgeBasis
    <2>4. row'.check <= now' /\ row'.success <= now'
      BY <1>1, <2>2 DEF ViewInv, RowInv
    <2>5. (Minimum(snapshot))' = Minimum(snapshot) /\ (Expired(snapshot))' = Expired(snapshot)
      BY <2>3 DEF Minimum, Expired
    <2>6. RowInv'
      BY <2>3, <2>4, <2>5 DEF ViewInv, RowInv, TakenAt
    <2> QED BY <2>1, <2>6 DEF ViewInv
  <1>2. CASE Tick
    BY <1>1, <1>2, ViewAssumption DEF Tick, ViewInv, TypeOK
  <1>3. ASSUME NEW tenant \in Tenant, NEW wanted \in SUBSET Group,
               ScanSucceeds(tenant, wanted)
        PROVE  ViewInv'
    BY <1>3, ScanKeepsView
  <1>4. CASE ScanFails
    <2>1. /\ row \in Customer /\ now \in 0..Horizon /\ UNCHANGED <<now, snapshot>>
          /\ row' = [row EXCEPT !.status = "error", !.check = now]
      BY <1>4 DEF ViewInv, TypeOK, Customer, ScanFails
    <2>2. /\ row' \in Customer /\ row'.status = "error" /\ row'.check = now
          /\ row'.success = row.success /\ row'.least = row.least /\ row'.expired = row.expired
          /\ row'.warn = row.warn /\ row'.error = row.error
      BY <2>1 DEF Customer, Moment
    <2>3. TypeOK'
      BY <2>1, <2>2 DEF ViewInv, TypeOK, Customer, Moment
    <2>4. AgeBasis' = AgeBasis \/ AgeBasis' = Never
      BY <2>2 DEF AgeBasis
    <2>5. AgeBasis = Never \/ AgeBasis \in 0..Horizon
      BY <2>1 DEF AgeBasis, Customer, Moment
    <2>6. TakenAt(snapshot, 0)
      BY <2>5, TakenEarlier DEF ViewInv, RowInv
    <2>7. TakenAt(snapshot, IF AgeBasis' = Never THEN 0 ELSE AgeBasis')
      BY <2>4, <2>6 DEF ViewInv, RowInv
    <2>8. (Minimum(snapshot))' = Minimum(snapshot) /\ (Expired(snapshot))' = Expired(snapshot)
      BY <2>1 DEF Minimum, Expired
    <2>9. now # Never /\ now <= now
      BY <2>1 DEF Never
    <2>10. RowInv'
      BY <2>1, <2>2, <2>7, <2>8, <2>9 DEF ViewInv, RowInv, TakenAt
    <2> QED BY <2>3, <2>10 DEF ViewInv
  <1>5. ASSUME NEW active \in BOOLEAN, NEW show \in BOOLEAN,
               NEW warn \in Threshold, NEW error \in Threshold, Edit(active, warn, error, show)
        PROVE  ViewInv'
    <2>1. /\ row \in Customer /\ now \in 0..Horizon /\ UNCHANGED <<now, snapshot>>
          /\ row' = [row EXCEPT !.active = active, !.warn = warn, !.error = error, !.show = show]
          /\ error <= warn
      BY <1>5 DEF ViewInv, TypeOK, Customer, Edit
    <2>2. /\ row' \in Customer /\ row'.status = row.status /\ row'.check = row.check
          /\ row'.success = row.success /\ row'.least = row.least /\ row'.expired = row.expired
          /\ row'.warn = warn /\ row'.error = error
      BY <2>1 DEF Customer
    <2>3. TypeOK'
      BY <2>1, <2>2 DEF ViewInv, TypeOK, Customer, Moment
    <2>4. RowInv'
      BY <2>1, <2>2 DEF ViewInv, RowInv, AgeBasis, TakenAt, Minimum, Least, Expired
    <2> QED BY <2>3, <2>4 DEF ViewInv
  <1>6. CASE UNCHANGED vars
    BY <1>1, <1>6 DEF vars, ViewInv, TypeOK
  <1> QED BY <1>2, <1>3, <1>4, <1>5, <1>6 DEF Next

LEMMA ViewInvariant == Spec => []ViewInv
  BY ViewInitHolds, ViewStepHolds, PTL DEF Spec

\* Types of row and snapshot, for any groups, ends and thresholds; and never
\* more expired channels than groups (summarize).
THEOREM ViewTypeCorrect == Spec => []TypeOK
  <1>1. ViewInv => TypeOK
    BY DEF ViewInv
  <1> QED BY <1>1, ViewInvariant, PTL

-------------------------------------------------------------------------------
(* What decides a colour *)

Below(scope, limit) == \E ch \in snapshot : ch.group \in scope /\ ch.days < limit

LEMMA LimitsAre ==
    ASSUME ViewInv
    PROVE  /\ row.error \in 1..Far /\ row.warn \in 1..Far /\ row.error <= row.warn
           /\ row.error \in Int /\ row.warn \in Int
           /\ row.error \in Threshold /\ row.warn \in Threshold
           /\ \A d \in Int : /\ d < 0 => d < row.error
                             /\ d < row.error => d < row.warn
  <1>1. /\ row.error \in 1..Far /\ row.warn \in 1..Far /\ row.error <= row.warn
        /\ row.error \in Threshold /\ row.warn \in Threshold
    BY ViewAssumption DEF ViewInv, TypeOK, RowInv
  <1>2. Far \in Int
    BY DEF Far
  <1>3. row.error \in Int /\ row.warn \in Int /\ 1 <= row.error
    BY <1>1, <1>2
  <1> QED BY <1>1, <1>3

LEMMA PollIs ==
    ASSUME NEW p \in Poll
    PROVE  /\ p.error \in 1..Far /\ p.warn \in 1..Far
           /\ p.error \in Int /\ p.warn \in Int
           /\ \A d \in Int : /\ d < 0 => d < p.error
                             /\ d \in 0..(p.warn - 1) => d < p.warn
  <1>1. p.error \in 1..Far /\ p.warn \in 1..Far
    BY ViewAssumption DEF Poll
  <1>2. Far \in Int
    BY DEF Far
  <1>3. p.error \in Int /\ p.warn \in Int /\ 1 <= p.error
    BY <1>1, <1>2
  <1> QED BY <1>1, <1>3

LEMMA CountIs ==
    ASSUME ViewInv, NEW scope
    PROVE  LET channels == {ch \in snapshot : ch.group \in scope}
           IN  /\ Minimum(channels) \in Int
               /\ \A limit \in 1..Far :
                     /\ Minimum(channels) < limit <=> Below(scope, limit)
                     /\ Expired(channels) # {} => Below(scope, limit)
                     /\ Below(scope, limit)
                          <=> \/ Expired(channels) # {}
                              \/ {ch \in channels : ch.days \in 0..(limit - 1)} # {}
  <1> DEFINE channels == {ch \in snapshot : ch.group \in scope}
  <1>1. PICK moment : TakenAt(snapshot, moment)
    BY DEF ViewInv, RowInv
  <1>2. TakenAt(channels, moment) /\ \A ch \in channels : ch.days \in Int
    BY <1>1 DEF TakenAt
  <1>3. \A limit : Below(scope, limit) <=> \E ch \in channels : ch.days < limit
    BY DEF Below
  <1>4. \A limit \in 1..Far : \A d \in Int : d < limit <=> d < 0 \/ d \in 0..(limit - 1)
    BY DEF Far
  <1> HIDE DEF channels
  <1>5. /\ Minimum(channels) \in Int
        /\ \A limit \in 1..Far : Minimum(channels) < limit <=> Below(scope, limit)
    BY <1>2, <1>3, MinimumIs
  <1>6. ASSUME NEW limit \in 1..Far
        PROVE  /\ Expired(channels) # {} => Below(scope, limit)
               /\ Below(scope, limit)
                    <=> \/ Expired(channels) # {}
                        \/ {ch \in channels : ch.days \in 0..(limit - 1)} # {}
    BY <1>2, <1>3, <1>4 DEF Expired
  <1> QED BY <1>5, <1>6 DEF channels

\* Whatever limits PRTG took: too old an age is not green, and neither is a sensor
\* with a channel below the threshold its critical channels are counted with.
LEMMA HeldIs ==
    ASSUME ViewInv, row.active, NEW most, NEW warn \in 1..Far, NEW held
    PROVE  /\ AgeColour = "error" => Colour(Group, most, warn, held) = "error"
           /\ AgeColour # "ok" => Colour(Group, most, warn, held) # "ok"
           /\ Below(Group, warn) => Colour(Group, most, warn, held) # "ok"
  <1> DEFINE channels == {ch \in snapshot : ch.group \in Group}
             critical == {ch \in channels : ch.days \in 0..(warn - 1)}
             colours == {AgeColour, Runtime(Minimum(channels), held.summary)}
                          \cup {Runtime(ch.days, held.of[ch.group]) : ch \in Shown(channels, most)}
                          \cup (IF critical # {} THEN {"warn"} ELSE {})
                          \cup (IF Expired(channels) # {} THEN {"error"} ELSE {})
  <1>1. Colour(Group, most, warn, held) = Worst(colours)
    BY DEF Colour
  <1>2. AgeColour \in {"ok", "warn", "error"} /\ AgeColour \in colours
    BY DEF AgeColour
  <1>3. Below(Group, warn) => "warn" \in colours \/ "error" \in colours
    BY CountIs
  <1> HIDE DEF colours
  <1> QED BY <1>1, <1>2, <1>3 DEF Worst

\* Under limits that are alike a sensor is as bad as its age and its worst channel:
\* critical and expired, the counts of the summary, say nothing that the least days do
\* not say, and neither do the channels, so that it does not matter which are shown.
LEMMA ColourIs ==
    ASSUME ViewInv, row.active, NEW scope \in SUBSET Group, NEW most,
           NEW warn \in 1..Far, NEW error \in 1..Far
    PROVE  Colour(scope, most, warn, Alike(warn, error))
             = IF AgeColour = "error" \/ Below(scope, error) THEN "error"
               ELSE IF AgeColour = "warn" \/ Below(scope, warn) THEN "warn" ELSE "ok"
  <1> DEFINE limits == [warn |-> warn, error |-> error]
             channels == {ch \in snapshot : ch.group \in scope}
             critical == {ch \in channels : ch.days \in 0..(warn - 1)}
             shown == {Runtime(ch.days, limits) : ch \in Shown(channels, most)}
             colours == {AgeColour, Runtime(Minimum(channels), limits)}
                          \cup shown
                          \cup (IF critical # {} THEN {"warn"} ELSE {})
                          \cup (IF Expired(channels) # {} THEN {"error"} ELSE {})
  <1>1. Colour(scope, most, warn, Alike(warn, error)) = Worst(colours)
    <2>1. /\ Alike(warn, error).summary = limits
          /\ \A g \in Group : Alike(warn, error).of[g] = limits
      BY DEF Alike
    <2>2. {Runtime(ch.days, Alike(warn, error).of[ch.group]) : ch \in Shown(channels, most)} = shown
      BY <2>1 DEF Shown
    <2>3. Colour(scope, most, warn, Alike(warn, error)) =
            Worst({AgeColour, Runtime(Minimum(channels), Alike(warn, error).summary)}
                   \cup {Runtime(ch.days, Alike(warn, error).of[ch.group]) :
                            ch \in Shown(channels, most)}
                   \cup (IF critical # {} THEN {"warn"} ELSE {})
                   \cup (IF Expired(channels) # {} THEN {"error"} ELSE {}))
      BY DEF Colour
    <2> HIDE DEF shown, channels, critical, limits
    <2> QED BY <2>1, <2>2, <2>3
  <1>2. /\ Minimum(channels) < error <=> Below(scope, error)
        /\ Minimum(channels) < warn <=> Below(scope, warn)
        /\ Expired(channels) # {} => Below(scope, error)
        /\ critical # {} => Below(scope, warn)
    BY CountIs
  <1>3. \A days : Runtime(days, limits) = IF days < error THEN "error"
                                          ELSE IF days < warn THEN "warn" ELSE "ok"
    BY DEF Runtime
  <1>4. /\ "error" \in shown => Below(scope, error)
        /\ "warn" \in shown => Below(scope, warn)
    <2>1. \A ch \in Shown(channels, most) : ch \in snapshot /\ ch.group \in scope
      BY DEF Shown
    <2> HIDE DEF limits
    <2> QED BY <1>3, <2>1 DEF Below
  <1>5. AgeColour \in {"ok", "warn", "error"}
    BY DEF AgeColour
  <1>6. "error" \in colours <=> AgeColour = "error" \/ Below(scope, error)
    <2> HIDE DEF shown, critical, channels, limits
    <2> QED BY <1>2, <1>3, <1>4
  <1>7. "error" \in colours \/ ("warn" \in colours <=> AgeColour = "warn" \/ Below(scope, warn))
    <2> HIDE DEF shown, critical, channels, limits
    <2> QED BY <1>2, <1>3, <1>4, <1>6
  <1> HIDE DEF colours
  <1> QED BY <1>1, <1>6, <1>7 DEF Worst

LEMMA SensorIs ==
    ASSUME ViewInv, row.active, NEW p \in Poll
    PROVE  Sensor(p) = IF AgeColour = "error" \/ Below(p.scope, p.error) THEN "error"
                       ELSE IF AgeColour = "warn" \/ Below(p.scope, p.warn) THEN "warn" ELSE "ok"
  <1>1. p.scope \in SUBSET Group /\ p.warn \in 1..Far /\ p.error \in 1..Far
    BY PollIs DEF Poll
  <1> QED BY <1>1, ColourIs DEF Sensor

\* What stands for an unknown age is more than data may be old, and more than twice
\* that, where the sensor turns from yellow to red.
UnknownIsStale == StaleHours < Far
UnknownIsRed == 2 * StaleHours < Far

LEMMA RedIsStale == UnknownIsRed => UnknownIsStale
  BY ViewAssumption DEF UnknownIsRed, UnknownIsStale, Far

\* Whole hours, and what is left of one.
LEMMA WholeHours ==
    ASSUME NEW x \in Nat
    PROVE  /\ x \div HourLength \in Nat
           /\ x < (x \div HourLength + 1) * HourLength
           /\ \A hours \in Nat : x \div HourLength <= hours => x < (hours + 1) * HourLength
           /\ x \div HourLength <= (x + 1) \div HourLength
  <1>1. HourLength \in Nat /\ HourLength >= 1
    BY ViewAssumption
  <1>2. /\ x \div HourLength \in Nat
        /\ (x \div HourLength) * HourLength <= x
        /\ x < (x \div HourLength) * HourLength + HourLength
    BY <1>1
  <1>3. \A q \in Nat : (q + 1) * HourLength = q * HourLength + HourLength
    BY <1>1
  <1>4. ASSUME NEW hours \in Nat, NEW q \in Nat, q <= hours
        PROVE  (q + 1) * HourLength <= (hours + 1) * HourLength
    BY <1>1, <1>4
  <1>5. \A hours \in Nat : x \div HourLength <= hours => x < (hours + 1) * HourLength
    <2> SUFFICES ASSUME NEW hours \in Nat, x \div HourLength <= hours
                 PROVE  x < (hours + 1) * HourLength
      OBVIOUS
    <2> DEFINE q == x \div HourLength
    <2>1. q \in Nat /\ q <= hours /\ x < q * HourLength + HourLength
      BY <1>2
    <2> HIDE DEF q
    <2>2. /\ (q + 1) * HourLength = q * HourLength + HourLength
          /\ (q + 1) * HourLength <= (hours + 1) * HourLength
      BY <1>3, <1>4, <2>1
    <2>3. (hours + 1) * HourLength \in Int /\ q * HourLength + HourLength \in Int
      BY <1>1, <2>1
    <2> QED BY <2>1, <2>2, <2>3
  <1>6. x \div HourLength <= (x + 1) \div HourLength
    <2> DEFINE q == x \div HourLength
               n == (x + 1) \div HourLength
    <2>1. /\ q \in Nat /\ n \in Nat
          /\ q * HourLength <= x
          /\ x + 1 < n * HourLength + HourLength
      BY <1>1
    <2> HIDE DEF q, n
    <2> SUFFICES ASSUME n + 1 <= q PROVE FALSE
      BY <2>1 DEF q, n
    <2>2. (n + 1) * HourLength <= q * HourLength
      BY <1>1, <2>1
    <2>3. (n + 1) * HourLength = n * HourLength + HourLength
      BY <1>3, <2>1
    <2> DEFINE before == q * HourLength
               after == n * HourLength
    <2>4. before \in Int /\ after \in Int /\ HourLength \in Int
      BY <1>1, <2>1
    <2>5. before <= x /\ x + 1 < after + HourLength /\ after + HourLength <= before
      BY <2>1, <2>2, <2>3
    <2> HIDE DEF before, after
    <2> QED BY <2>4, <2>5
  <1> QED BY <1>2, <1>3, <1>5, <1>6

LEMMA AgeIs ==
    ASSUME ViewInv
    PROVE  /\ Age \in Int
           /\ AgeBasis = Never => Age = -1 /\ ~Stale
           /\ AgeBasis = Never => (AgeColour = "error" <=> UnknownIsRed)
           /\ AgeBasis # Never => /\ AgeBasis \in Nat /\ AgeBasis <= now /\ Age >= 0
                                  /\ Age = (now - AgeBasis) \div HourLength
           /\ AgeBasis # Never => (AgeColour = "ok" <=> ~Stale)
           /\ AgeColour = "ok" /\ UnknownIsStale => AgeBasis # Never /\ Age <= StaleHours
  <1>1. /\ now \in Nat /\ row.check \in {Never} \cup Nat /\ row.success \in {Never} \cup Nat
        /\ row.check <= now /\ row.success <= now /\ StaleHours \in Nat
    BY ViewAssumption DEF ViewInv, TypeOK, RowInv, Moment
  <1>2. AgeBasis = Never \/ (AgeBasis \in Nat /\ AgeBasis <= now)
    BY <1>1 DEF AgeBasis
  <1>3. CASE AgeBasis = Never
    <2>1. Age = -1
      BY <1>3 DEF Age
    <2>2. ~Stale /\ (AgeColour = "error" <=> UnknownIsRed)
      BY <1>1, <2>1 DEF Stale, AgeColour, Far, UnknownIsRed
    <2>3. UnknownIsStale => AgeColour # "ok"
      BY <1>1, <2>1 DEF AgeColour, Far, UnknownIsStale
    <2> QED BY <1>3, <2>1, <2>2, <2>3
  <1>4. CASE AgeBasis # Never
    <2>1. Age = (now - AgeBasis) \div HourLength /\ Age \in Nat
      <3>1. now - AgeBasis \in Nat
        BY <1>1, <1>2, <1>4
      <3>2. Age = (now - AgeBasis) \div HourLength
        BY <1>4 DEF Age
      <3> QED BY <3>1, <3>2, WholeHours
    <2>2. AgeColour = "ok" <=> ~(Age > StaleHours)
      BY <1>1, <2>1 DEF AgeColour
    <2> QED BY <1>1, <1>2, <1>4, <2>1, <2>2 DEF Stale
  <1> QED BY <1>3, <1>4

\* What a text splits: the sensor that excludes it and those that filter by its pieces
\* have the scope between them, and none of it twice.
LEMMA DivisionsAre ==
    ASSUME NEW split \in Divisions
    PROVE  /\ split[1] \in SUBSET Group /\ split[2] \in SUBSET Group
           /\ split[3] \subseteq SUBSET Group
           /\ split[1] = split[2] \cup UNION split[3]
           /\ \A scope \in split[3] : split[2] \cap scope = {}
  <1>1. PICK q \in Address, text \in Text :
          /\ q.filter = None /\ q.exclude = None
          /\ split = <<Scope(q), Scope([q EXCEPT !.exclude = text]),
                       {Scope([q EXCEPT !.filter = piece]) : piece \in Pieces[text]}>>
    BY DEF Divisions
  <1> DEFINE rest == [q EXCEPT !.exclude = text]
             part(piece) == [q EXCEPT !.filter = piece]
             Given(g) == /\ q.app # None => g \in Named[q.app]
                         /\ q.type # None => (q.type = "secret" <=> g \in Secrets)
  <1>2. /\ rest.app = q.app /\ rest.filter = None /\ rest.exclude = text /\ rest.type = q.type
        /\ \A piece : /\ part(piece).app = q.app /\ part(piece).filter = piece
                      /\ part(piece).exclude = None /\ part(piece).type = q.type
    BY <1>1 DEF Address
  <1>3. \A piece \in Pieces[text] : piece \in Text
    BY ViewAssumption
  <1>4. Scope(q) = {g \in Group : Given(g)}
    BY <1>1 DEF Scope
  <1>5. Scope(rest) = {g \in Group : Given(g) /\ (text # None => g \notin Excluded(text))}
    BY <1>2 DEF Scope
  <1>6. \A piece \in Pieces[text] :
          Scope(part(piece)) = {g \in Group : Given(g) /\ (piece # None => g \in Within[piece])}
    BY <1>2 DEF Scope
  <1>7. \A g : g \in Excluded(text) <=> \E piece \in Pieces[text] : g \in Within[piece]
    BY DEF Excluded
  <1>8. split = <<Scope(q), Scope(rest), {Scope(part(piece)) : piece \in Pieces[text]}>>
    BY <1>1
  <1>9. text # None /\ \A piece \in Pieces[text] : piece # None
    BY <1>3, TextAssumption
  <1> HIDE DEF rest, part, Given
  <1>10. /\ split[1] = Scope(q) /\ split[2] = Scope(rest)
         /\ split[3] = {Scope(part(piece)) : piece \in Pieces[text]}
    BY <1>8
  <1>11. \A g : g \in UNION split[3] <=> \E piece \in Pieces[text] : g \in Scope(part(piece))
    BY <1>10
  <1>12. split[1] = split[2] \cup UNION split[3]
    BY <1>4, <1>5, <1>6, <1>7, <1>9, <1>10, <1>11
  <1>13. \A scope \in split[3] : split[2] \cap scope = {}
    BY <1>5, <1>6, <1>7, <1>9, <1>10
  <1>14. /\ split[1] \in SUBSET Group /\ split[2] \in SUBSET Group
         /\ split[3] \subseteq SUBSET Group
    BY <1>4, <1>5, <1>6, <1>10
  <1> QED BY <1>12, <1>13, <1>14

\* A sensor that excludes a list of texts and one for each of the texts show what one
\* sensor shows, and a sensor is green exactly when its data is fresh and every channel
\* it shows is above the warning (filter_result recomputes the summary).
THEOREM ScopesAlwaysPartition == Spec => []ScopesPartition
  <1>1. ASSUME ViewInv, row.active, NEW p \in Poll
        PROVE  /\ \A split \in Divisions : p.scope = split[1] =>
                     /\ Worst({Sensor([p EXCEPT !.scope = scope]) :
                                  scope \in {split[2]} \cup split[3]}) = Sensor(p)
                     /\ \A scope \in split[3] : split[2] \cap scope = {}
               /\ Sensor(p) = "ok" <=>
                     /\ AgeColour = "ok"
                     /\ \A ch \in snapshot : ch.group \in p.scope =>
                           ch.days >= p.warn /\ ch.days >= p.error
    <2>1. snapshot \subseteq [group: Group, end: End, days: Int]
      BY <1>1 DEF ViewInv, TypeOK
    <2>2. p.warn \in Int /\ p.error \in Int
      BY PollIs
    <2>3. AgeColour \in {"ok", "warn", "error"}
      BY DEF AgeColour
    <2>4. \A q \in Poll :
            Sensor(q) = IF AgeColour = "error" \/ Below(q.scope, q.error) THEN "error"
                        ELSE IF AgeColour = "warn" \/ Below(q.scope, q.warn) THEN "warn" ELSE "ok"
      BY <1>1, SensorIs
    <2>5. ASSUME NEW split \in Divisions, p.scope = split[1]
          PROVE  /\ Worst({Sensor([p EXCEPT !.scope = scope]) :
                              scope \in {split[2]} \cup split[3]}) = Sensor(p)
                 /\ \A scope \in split[3] : split[2] \cap scope = {}
      <3> DEFINE scopes == {split[2]} \cup split[3]
                 colours == {Sensor([p EXCEPT !.scope = scope]) : scope \in scopes}
      <3>1. /\ scopes \subseteq SUBSET Group /\ split[2] \in scopes
            /\ p.scope = UNION scopes
        BY <2>5, DivisionsAre
      <3>2. \A limit : Below(p.scope, limit) <=> \E scope \in scopes : Below(scope, limit)
        BY <3>1 DEF Below
      <3>3. \A scope \in scopes :
              Sensor([p EXCEPT !.scope = scope])
                = IF AgeColour = "error" \/ Below(scope, p.error) THEN "error"
                  ELSE IF AgeColour = "warn" \/ Below(scope, p.warn) THEN "warn" ELSE "ok"
        <4> TAKE scope \in scopes
        <4>1. /\ [p EXCEPT !.scope = scope] \in Poll
              /\ [p EXCEPT !.scope = scope].scope = scope
              /\ [p EXCEPT !.scope = scope].warn = p.warn
              /\ [p EXCEPT !.scope = scope].error = p.error
          BY <3>1 DEF Poll
        <4> QED BY <2>4, <4>1
      <3> HIDE DEF scopes
      <3>4. "error" \in colours <=> AgeColour = "error" \/ Below(p.scope, p.error)
        BY <3>1, <3>2, <3>3
      <3>5. "error" \in colours \/ ("warn" \in colours <=> AgeColour = "warn" \/ Below(p.scope, p.warn))
        BY <3>1, <3>2, <3>3, <3>4
      <3> HIDE DEF colours
      <3>6. Worst(colours) = Sensor(p)
        BY <2>3, <2>4, <3>4, <3>5 DEF Worst
      <3> QED BY <3>6, DivisionsAre DEF colours, scopes
    <2>6. ASSUME NEW ch \in snapshot
          PROVE  /\ ch.days >= p.warn <=> ~(ch.days < p.warn)
                 /\ ch.days >= p.error <=> ~(ch.days < p.error)
      BY <2>1, <2>2
    <2>7. ~Below(p.scope, p.error) /\ ~Below(p.scope, p.warn)
            <=> \A ch \in snapshot : ch.group \in p.scope =>
                   ch.days >= p.warn /\ ch.days >= p.error
      BY <2>6 DEF Below
    <2>8. Sensor(p) = "ok" <=> AgeColour = "ok" /\ ~Below(p.scope, p.error) /\ ~Below(p.scope, p.warn)
      BY <2>3, <2>4
    <2> QED BY <2>5, <2>7, <2>8
  <1>2. ViewInv => ScopesPartition
    BY <1>1 DEF ScopesPartition
  <1> QED BY <1>2, ViewInvariant, PTL

\* A green sensor means time: what the last scan saw runs on for the warning
\* threshold, short of the hours data may be old and the hour that is cut off
\* (build_channels, data_age_hours, _age_channel).
THEOREM GreenAlwaysMeansTime ==
    ASSUME UnknownIsStale PROVE Spec => []GreenMeansTime
  <1>1. ASSUME ViewInv, NEW p \in Poll, Sensor(p) = "ok", NEW ch \in snapshot, ch.group \in p.scope
        PROVE  ch.end - now > p.warn * DayLength - (StaleHours + 1) * HourLength
    <2>1. row.active
      BY <1>1 DEF Sensor, Colour
    <2>2. ch.group \in Group /\ ch.end \in Nat /\ ch.days \in Int
      BY <1>1, ViewAssumption DEF ViewInv, TypeOK
    <2>3. p.warn \in Int
      BY PollIs
    <2>4. AgeColour = "ok" /\ ~Below(p.scope, p.warn)
      BY <1>1, <2>1, SensorIs DEF AgeColour
    <2>5. ch.days >= p.warn
      BY <1>1, <2>2, <2>3, <2>4 DEF Below
    <2>6. /\ AgeBasis \in Nat /\ AgeBasis # Never /\ AgeBasis <= now
          /\ (now - AgeBasis) \div HourLength <= StaleHours
      BY <1>1, <2>4, AgeIs
    <2>7. ch.days * DayLength <= ch.end - AgeBasis
      BY <1>1, <2>6 DEF ViewInv, RowInv, TakenAt
    <2>8. DayLength \in Nat /\ StaleHours \in Nat /\ now \in Nat /\ HourLength \in Nat
      BY <1>1, ViewAssumption DEF ViewInv, TypeOK
    <2>9. /\ p.warn * DayLength <= ch.days * DayLength
          /\ p.warn * DayLength \in Int /\ ch.days * DayLength \in Int
      BY <2>2, <2>3, <2>5, <2>8
    <2>10. /\ now - AgeBasis < (StaleHours + 1) * HourLength
           /\ (StaleHours + 1) * HourLength \in Int
      <3>1. now - AgeBasis \in Nat
        BY <2>6, <2>8
      <3> QED BY <2>6, <2>8, <3>1, WholeHours
    <2> QED BY <2>2, <2>6, <2>7, <2>8, <2>9, <2>10
  <1>2. ViewInv => GreenMeansTime
    BY <1>1 DEF GreenMeansTime
  <1> QED BY <1>2, ViewInvariant, PTL

\* The totals in the row tell what a sensor of the whole tenant would show.
LEMMA TotalsAre ==
    ASSUME ViewInv
    PROVE  /\ row.expired > 0 \/ row.least < row.error <=> Below(Group, row.error)
           /\ row.least < row.warn <=> Below(Group, row.warn)
  <1>1. PICK moment : TakenAt(snapshot, moment)
    BY DEF ViewInv, RowInv
  <1>2. \A ch \in snapshot : ch.group \in Group /\ ch.days \in Int
    BY <1>1 DEF TakenAt
  <1>3. /\ row.least < row.error <=> \E ch \in snapshot : ch.days < row.error
        /\ row.least < row.warn <=> \E ch \in snapshot : ch.days < row.warn
    BY <1>1, MinimumIs, LimitsAre DEF ViewInv, RowInv
  <1>4. row.expired > 0 <=> \E ch \in snapshot : ch.days < 0
    BY <1>1, ExpiredIs DEF ViewInv, RowInv
  <1>5. \A ch \in snapshot : ch.days < 0 => ch.days < row.error
    BY <1>2, LimitsAre
  <1> QED BY <1>2, <1>3, <1>4, <1>5 DEF Below

LEMMA FindingsAre ==
    ASSUME ViewInv
    PROVE  /\ CredentialFindings \subseteq
                {"credential_expired", "credential_critical", "credential_warning"}
           /\ "credential_expired" \in CredentialFindings
                \/ "credential_critical" \in CredentialFindings <=> Below(Group, row.error)
           /\ Below(Group, row.warn) => Below(Group, row.error) \/ "credential_warning" \in CredentialFindings
           /\ "credential_warning" \in CredentialFindings => Below(Group, row.warn)
  <1>1. \A ch \in snapshot : ch.group \in Group /\ ch.days \in Int
    BY DEF ViewInv, TypeOK
  <1>2. row.error \in Int /\ row.warn \in Int /\ 1 <= row.error
    <2>1. Far \in Int
      BY DEF Far
    <2> QED BY <2>1, LimitsAre
  <1>3. \A d \in Int : /\ d < row.error <=> d < 0 \/ d \in 0..(row.error - 1)
                       /\ d \in row.error..(row.warn - 1) <=> d < row.warn /\ ~(d < row.error)
    BY <1>2
  <1>4. /\ "credential_expired" \in CredentialFindings <=> \E ch \in snapshot : ch.days < 0
        /\ "credential_critical" \in CredentialFindings
              <=> \E ch \in snapshot : ch.days \in 0..(row.error - 1)
        /\ "credential_warning" \in CredentialFindings
              <=> \E ch \in snapshot : ch.days \in row.error..(row.warn - 1)
    BY DEF CredentialFindings
  <1>5. CredentialFindings \subseteq
          {"credential_expired", "credential_critical", "credential_warning"}
    BY DEF CredentialFindings
  <1> QED BY <1>1, <1>3, <1>4, <1>5 DEF Below

\* Dashboard, findings and sensor tell one story: while the data is fresh no sensor is
\* green where the dashboard is not, whatever limits PRTG took, and one whose limits are
\* in step has its colour; when it is not fresh all say so (customer_state, befunde,
\* render_prtg).
THEOREM ViewsAlwaysAgree ==
    ASSUME UnknownIsRed PROVE Spec => []ViewsAgree
  <1> DEFINE InStep(most) == Usual(most, Alike(row.warn, row.error))
             Agree ==
               CASE row.status = "pending" ->
                       /\ State = "unknown" /\ Findings = {"never_checked"}
                       /\ \A most \in Room, held \in Held : Usual(most, held) = "error"
                 [] row.status = "error" -> State = "error" /\ "scan_failed" \in Findings
                 [] row.status = "ok" /\ Stale ->
                       /\ State = "stale" /\ "data_stale" \in Findings
                       /\ \A most \in Room, held \in Held : Usual(most, held) # "ok"
                 [] row.status = "ok" /\ ~Stale ->
                       /\ State = Worst({Severity(code) : code \in Findings})
                       /\ State # "ok" => \A most \in Room, held \in Held : Usual(most, held) # "ok"
                       /\ \A most \in Room : Usual(most, Alike(row.warn, row.error)) = State
  <1>1. ASSUME ViewInv, row.active PROVE Agree
    <2>1. row.status \in {"pending", "ok", "error"} /\ row.active \in BOOLEAN
      BY <1>1 DEF ViewInv, TypeOK
    <2>2. \A most, held :
            /\ AgeColour = "error" => Usual(most, held) = "error"
            /\ AgeColour # "ok" => Usual(most, held) # "ok"
            /\ Below(Group, row.warn) => Usual(most, held) # "ok"
      BY <1>1, LimitsAre, HeldIs DEF Usual
    <2>3. \A most : InStep(most) =
            IF AgeColour = "error" \/ Below(Group, row.error) THEN "error"
            ELSE IF AgeColour = "warn" \/ Below(Group, row.warn) THEN "warn" ELSE "ok"
      BY <1>1, LimitsAre, ColourIs DEF Usual
    <2> HIDE DEF InStep
    <2>4. CASE row.status = "pending"
      <3>1. snapshot = {} /\ row.check = Never /\ AgeBasis = Never
        BY <1>1, <2>4 DEF ViewInv, RowInv, AgeBasis
      <3>2. State = "unknown"
        BY <1>1, <2>4 DEF State
      <3>3. CredentialFindings = {}
        BY <3>1 DEF CredentialFindings
      <3>4. Findings = {"never_checked"}
        BY <1>1, <2>4, <3>3 DEF Findings
      <3>5. \A most, held : Usual(most, held) = "error"
        BY <1>1, <2>2, <3>1, AgeIs
      <3> QED BY <2>4, <3>2, <3>4, <3>5
    <2>5. CASE row.status = "error"
      <3>1. row.check # Never
        BY <1>1, <2>5 DEF ViewInv, RowInv
      <3>2. State = "error"
        BY <1>1, <2>5, <3>1 DEF State
      <3>3. "scan_failed" \in Findings
        BY <1>1, <2>5, <3>1 DEF Findings
      <3> QED BY <2>5, <3>2, <3>3
    <2>6. CASE row.status = "ok"
      <3>1. row.check # Never /\ AgeBasis # Never
        BY <1>1, <2>6 DEF ViewInv, RowInv, AgeBasis
      <3>2. AgeColour = "ok" <=> ~Stale
        BY <1>1, <3>1, AgeIs
      <3>3. CASE Stale
        <4>1. State = "stale"
          BY <1>1, <2>6, <3>1, <3>3 DEF State
        <4>2. "data_stale" \in Findings
          BY <1>1, <2>6, <3>1, <3>3 DEF Findings
        <4>3. \A most, held : Usual(most, held) # "ok"
          BY <2>2, <3>2, <3>3
        <4> QED BY <2>6, <3>3, <4>1, <4>2, <4>3
      <3>4. CASE ~Stale
        <4>1. \A most : InStep(most) = IF Below(Group, row.error) THEN "error"
                                       ELSE IF Below(Group, row.warn) THEN "warn" ELSE "ok"
          BY <2>3, <3>2, <3>4
        <4>2. State = IF row.expired > 0 \/ row.least < row.error THEN "error"
                      ELSE IF row.least < row.warn THEN "warn" ELSE "ok"
          BY <1>1, <2>6, <3>1, <3>4 DEF State
        <4>3. State = IF Below(Group, row.error) THEN "error"
                      ELSE IF Below(Group, row.warn) THEN "warn" ELSE "ok"
          BY <1>1, <4>2, TotalsAre
        <4>4. Findings = CredentialFindings
          BY <1>1, <2>6, <3>1, <3>4 DEF Findings
        <4> DEFINE colours == {Severity(code) : code \in Findings}
        <4>5. /\ Severity("credential_expired") = "error"
              /\ Severity("credential_critical") = "error"
              /\ Severity("credential_warning") = "warn"
          BY DEF Severity
        <4>6. "error" \in colours <=> Below(Group, row.error)
          BY <1>1, <4>4, <4>5, FindingsAre
        <4>7. ~Below(Group, row.error) => ("warn" \in colours <=> Below(Group, row.warn))
          BY <1>1, <4>4, <4>5, FindingsAre
        <4> HIDE DEF colours
        <4>8. Worst(colours) = State
          BY <4>3, <4>6, <4>7 DEF Worst
        <4>9. Below(Group, row.error) => Below(Group, row.warn)
          <5>1. \A ch \in snapshot : ch.days \in Int
            BY <1>1 DEF ViewInv, TypeOK
          <5> QED BY <1>1, <5>1, LimitsAre DEF Below
        <4>10. State # "ok" => \A most, held : Usual(most, held) # "ok"
          BY <2>2, <4>3, <4>9
        <4>11. \A most : Usual(most, Alike(row.warn, row.error)) = State
          BY <4>1, <4>3 DEF InStep
        <4> QED BY <2>6, <3>4, <4>8, <4>10, <4>11 DEF colours
      <3> QED BY <3>3, <3>4
    <2> QED BY <2>1, <2>4, <2>5, <2>6
  <1>2. ViewInv => ViewsAgree
    BY <1>1 DEF ViewsAgree
  <1> QED BY <1>2, ViewInvariant, PTL

\* The bound is exact: with more hours than that, a customer who was never checked,
\* or whose data are of unknown age, no longer makes the sensor red (_age_channel,
\* views/prtg.py).
THEOREM UnknownAgeFades ==
    ASSUME ~UnknownIsRed
    PROVE  Spec => [](row.active /\ row.status = "pending" =>
                          \A p \in Poll : Sensor(p) \in {"ok", "warn"})
  <1>1. ASSUME ViewInv, row.active, row.status = "pending", NEW p \in Poll
        PROVE  Sensor(p) \in {"ok", "warn"}
    <2>1. snapshot = {} /\ AgeBasis = Never
      BY <1>1 DEF ViewInv, RowInv, AgeBasis
    <2>2. AgeColour # "error"
      BY <1>1, <2>1, AgeIs
    <2>3. \A limit : ~Below(p.scope, limit)
      BY <2>1 DEF Below
    <2> QED BY <1>1, <2>2, <2>3, SensorIs
  <1>2. ViewInv => (row.active /\ row.status = "pending" =>
                       \A p \in Poll : Sensor(p) \in {"ok", "warn"})
    BY <1>1
  <1> QED BY <1>2, ViewInvariant, PTL

Green(p) ==
    row.active /\ AgeColour = "ok" /\ ~Below(p.scope, p.error) /\ ~Below(p.scope, p.warn)

LEMMA GreenIs == ViewInv => \A p \in Poll : Sensor(p) = "ok" <=> Green(p)
  <1>1. \A p \in Poll : ~row.active => Sensor(p) = "error"
    BY DEF Sensor, Colour
  <1>2. ASSUME ViewInv, row.active, NEW p \in Poll PROVE Sensor(p) = "ok" <=> Green(p)
    <2>1. AgeColour \in {"ok", "warn", "error"}
      BY DEF AgeColour
    <2> QED BY <1>2, <2>1, SensorIs DEF Green
  <1> QED BY <1>1, <1>2 DEF Green

LEMMA GreenIsNext == (ViewInv => \A p \in Poll : Sensor(p) = "ok" <=> Green(p))'
  BY GreenIs, PTL

\* With its limits as they are, a sensor turns green by a scan that succeeds or a
\* customer switched on again: no failed scan, no other setting and no passing of time
\* makes it (run_check, data_age_hours).
THEOREM RecoveryAlwaysNeedsScan ==
    ASSUME UnknownIsStale PROVE Spec => RecoveryNeedsScan
  <1>1. ASSUME ViewInv, [Next]_vars, NEW p \in Poll, ~Green(p), Green(p)'
        PROVE  \/ row'.status = "ok" /\ row'.success = now
               \/ row'.active /\ ~row.active
    <2>1. row \in Customer /\ now \in Nat /\ StaleHours \in Nat
      BY <1>1, ViewAssumption DEF ViewInv, TypeOK, Customer
    <2>2. snapshot' = snapshot => \A limit : Below(p.scope, limit)' = Below(p.scope, limit)
      BY DEF Below
    <2>3. CASE UNCHANGED <<now, row, snapshot>>
      BY <1>1, <2>3 DEF Green, AgeColour, Age, AgeBasis, Below
    <2>4. CASE Tick
      <3>1. UNCHANGED <<row, snapshot>> /\ AgeBasis' = AgeBasis /\ now' = now + 1
        BY <2>4 DEF Tick, AgeBasis
      <3>2. AgeColour # "ok"
        BY <1>1, <2>2, <3>1 DEF Green
      <3>3. AgeBasis = Never => Age' = Age
        BY <3>1 DEF Age
      <3>4. AgeBasis # Never => Age \in Nat /\ Age' \in Nat /\ Age <= Age'
        <4> SUFFICES ASSUME AgeBasis # Never
                     PROVE  Age \in Nat /\ Age' \in Nat /\ Age <= Age'
          OBVIOUS
        <4> DEFINE x == now - AgeBasis
        <4>1. AgeBasis \in Nat /\ AgeBasis <= now
          BY <1>1, AgeIs
        <4>2. Age = x \div HourLength /\ Age' = (x + 1) \div HourLength
          BY <2>1, <3>1, <4>1 DEF Age
        <4>3. x \in Nat /\ x + 1 \in Nat
          BY <2>1, <4>1
        <4> HIDE DEF x
        <4> QED BY <4>2, <4>3, WholeHours
      <3>5. AgeColour' # "ok"
        BY <2>1, <3>2, <3>3, <3>4 DEF AgeColour
      <3> QED BY <1>1, <3>5 DEF Green
    <2>5. ASSUME NEW tenant \in Tenant, NEW wanted \in SUBSET Group,
                 ScanSucceeds(tenant, wanted)
          PROVE  row'.status = "ok" /\ row'.success = now
      BY <2>1, <2>5 DEF ScanSucceeds, Scanned, Customer
    <2>6. CASE ScanFails
      <3>1. /\ UNCHANGED <<now, snapshot>>
            /\ row'.status = "error" /\ row'.success = row.success
            /\ row'.active = row.active
        BY <2>1, <2>6 DEF ScanFails, Customer
      <3>2. AgeBasis' = AgeBasis \/ AgeBasis' = Never
        BY <3>1 DEF AgeBasis
      <3>3. AgeBasis' = Never => AgeColour' # "ok"
        <4> SUFFICES ASSUME AgeBasis' = Never PROVE AgeColour' # "ok"
          OBVIOUS
        <4>1. Age' = -1
          BY DEF Age
        <4> QED BY <2>1, <4>1 DEF AgeColour, Far, UnknownIsStale
      <3>4. AgeBasis' = AgeBasis => Age' = Age
        BY <3>1 DEF Age
      <3>5. Age' = Age => AgeColour' = AgeColour
        BY DEF AgeColour
      <3> QED BY <1>1, <2>2, <3>1, <3>2, <3>3, <3>4, <3>5 DEF Green
    <2>7. ASSUME NEW active \in BOOLEAN, NEW show \in BOOLEAN, NEW warn \in Threshold,
                 NEW error \in Threshold, Edit(active, warn, error, show)
          PROVE  row'.active /\ ~row.active
      <3>1. /\ UNCHANGED <<now, snapshot>>
            /\ row'.status = row.status /\ row'.success = row.success /\ row'.check = row.check
        BY <2>1, <2>7 DEF Edit, Customer
      <3>2. AgeColour' = AgeColour
        BY <3>1 DEF AgeColour, Age, AgeBasis
      <3> QED BY <1>1, <2>2, <3>1, <3>2 DEF Green
    <2> QED BY <1>1, <2>3, <2>4, <2>5, <2>6, <2>7 DEF Next, vars
  <1>2. ASSUME ViewInv, [Next]_vars, NEW p \in Poll, Sensor(p)' = "ok", Sensor(p) # "ok"
        PROVE  \/ row'.status = "ok" /\ row'.success = now
               \/ row'.active /\ ~row.active
    <2>1. ~Green(p)
      BY <1>2, GreenIs
    <2>2. Green(p)'
      BY <1>2, ViewStepHolds, GreenIsNext
    <2> QED BY <1>1, <1>2, <2>1, <2>2
  <1>3. ViewInv /\ [Next]_vars
          => [\/ row'.status = "ok" /\ row'.success = now
              \/ row'.active /\ ~row.active
              \/ \A p \in Poll : Sensor(p)' = "ok" => Sensor(p) = "ok"]_<<now, row, snapshot>>
    BY <1>2
  <1> QED BY <1>3, ViewInvariant, PTL DEF Spec, RecoveryNeedsScan
===============================================================================
