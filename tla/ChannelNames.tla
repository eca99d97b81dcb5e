----------------------------- MODULE ChannelNames -----------------------------
(***************************************************************************)
(* The names of a sensor's channels.  PRTG tells channels apart by name,   *)
(* and display names are not unique in a tenant: _assign_channel_names     *)
(* (app/graph.py) adds suffixes to the names that collide, one kind of     *)
(* suffix after the other, and numbers at last.                            *)
(*                                                                         *)
(* A name is the sequence of its parts: display name, type, suffixes.      *)
(***************************************************************************)
EXTENDS Integers, FiniteSets, Sequences

CONSTANTS
    Object,     \* applications and service principals
    App,        \* display names
    Prefix,     \* the first eight characters of appIds and object ids
    Ordinal,    \* how a number is written in a name
    Most        \* bound: channels of a sensor

Kinds == {"App", "SP"}

Types == {"Secret", "Zertifikat"}

\* Ids are GUIDs: what a suffix shows of one reads like no small number.
ASSUME NamesAssumption ==
    /\ Most \in Nat
    /\ DOMAIN Ordinal = 1..Most
    /\ \A i, j \in 1..Most : Ordinal[i] = Ordinal[j] => i = j
    /\ \A i \in 1..Most : Ordinal[i] \notin Prefix \cup Kinds \cup Types

VARIABLES
    directory,  \* the objects of the tenant
    list,       \* the channels, <<object, type>>, in the order Graph gave them
    name,       \* their names so far
    step        \* the suffix to try next, or what follows the suffixes

nameVars == <<directory, list, name, step>>

Entry == [app: App, kind: Kinds, appId: Prefix, id: Prefix]

Channel == Object \X Types

Part == App \cup Types \cup Kinds \cup Prefix \cup {Ordinal[i] : i \in 1..Most}

Plain(entries, channel) == <<entries[channel[1]].app, channel[2]>>

Distinct(names) == \A i, j \in DOMAIN names : names[i] = names[j] => i = j

\* build_channels makes one channel per object and type.
NamesInit ==
    /\ directory \in [Object -> Entry]
    /\ list \in {l \in UNION {[1..n -> Channel] : n \in 0..Most} : Distinct(l)}
    /\ name = [i \in DOMAIN list |-> Plain(directory, list[i])]
    /\ step = "kind"

Sharing(i) == {j \in DOMAIN name : name[j] = name[i]}

\* Slip: a suffix is added wherever names are shared or not.
Splits_Always(field, i) == TRUE

\* The suffix tells channels apart that share this name.
Splits(field, i) ==
    \E j \in Sharing(i) : directory[list[j][1]][field] # directory[list[i][1]][field]

AddSuffix(field, next) ==
    /\ step = field
    /\ IF Distinct(name)
       THEN step' = "done" /\ UNCHANGED name
       ELSE /\ step' = next
            /\ name' = [i \in DOMAIN name |->
                          IF Splits(field, i)
                          THEN Append(name[i], directory[list[i][1]][field]) ELSE name[i]]
    /\ UNCHANGED <<directory, list>>

\* The position of a channel in its group, in the order of the list.
Index(i) == Cardinality({j \in Sharing(i) : j <= i})

\* Slip: after three suffixes nothing can be left.
Number_Never ==
    /\ step = "number"
    /\ step' = "done"
    /\ UNCHANGED <<directory, list, name>>

\* The suffixes may be used up and names still be shared.
Number ==
    /\ step = "number"
    /\ step' = "done"
    /\ name' = [i \in DOMAIN name |->
                  IF Index(i) > 1 THEN Append(name[i], Ordinal[Index(i)]) ELSE name[i]]
    /\ UNCHANGED <<directory, list>>

Done == step = "done" /\ UNCHANGED nameVars

NamesNext ==
    \/ AddSuffix("kind", "appId")
    \/ AddSuffix("appId", "id")
    \/ AddSuffix("id", "number")
    \/ Number
    \/ Done

NamesSpec == NamesInit /\ [][NamesNext]_nameVars

-------------------------------------------------------------------------------
(* Properties *)

NamesTypeOK ==
    /\ directory \in [Object -> Entry]
    /\ \E n \in 0..Most : list \in [1..n -> Channel] /\ name \in [1..n -> Seq(Part)]
    /\ \A i \in DOMAIN name : Len(name[i]) >= 2
    /\ step \in {"kind", "appId", "id", "number", "done"}

\* Whatever names, ids and prefixes of ids the objects of a tenant share and in
\* whatever order they come, no two channels of a sensor end with one name
\* (_assign_channel_names: a duplicate makes a sensor unusable).
NamesUnique == step = "done" => Distinct(name)

\* A name nobody else has is left alone, so its channel keeps its history whatever
\* the other channels need.
LoneNameKept ==
    \A i \in DOMAIN list :
        (\A j \in DOMAIN list \ {i} : Plain(directory, list[j]) # Plain(directory, list[i]))
            => name[i] = Plain(directory, list[i])
===============================================================================
