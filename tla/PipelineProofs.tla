--------------------------- MODULE PipelineProofs ---------------------------
(***************************************************************************)
(* What the workers of a crawl make of the issues they fetch: which        *)
(* children an issue has, what survives a failed request, what the graph   *)
(* consists of and what is announced, for every project, every number of   *)
(* workers, every interleaving and every failure.                          *)
(*                                                                         *)
(* First what the operators of the model compute, loops by the rule of     *)
(* LoopProofs; then what each action does; then the invariant.             *)
(***************************************************************************)
EXTENDS Pipeline, SequenceTheorems, FiniteSetTheorems, FunctionTheorems, TLAPS

-----------------------------------------------------------------------------
(* Sequences of anything.                                                  *)
IsSeq(s) == \E S : s \in Seq(S)

(* The indices of a sequence.                                              *)
LEMMA Sequence ==
  ASSUME NEW s, IsSeq(s)
  PROVE  Len(s) \in Nat /\ DOMAIN s = 1 .. Len(s)
BY LenProperties DEF IsSeq

(* The empty sequence.                                                     *)
LEMMA NoElements == IsSeq(<< >>) /\ Len(<< >>) = 0 /\ ToSet(<< >>) = {}
<1>1. IsSeq(<< >>) /\ Len(<< >>) = 0
  BY EmptySeq DEF IsSeq
<1>2. DOMAIN << >> = {}
  BY <1>1, Sequence
<1> QED
  BY <1>1, <1>2 DEF ToSet

(* A sequence over a set has elements of the set.                          *)
LEMMA SeqHas ==
  ASSUME NEW S, NEW s \in Seq(S)
  PROVE  IsSeq(s) /\ ToSet(s) \subseteq S /\ \A i \in DOMAIN s : s[i] \in S
<1>1. IsSeq(s)
  BY DEF IsSeq
<1>2. \A i \in DOMAIN s : s[i] \in S
  BY LenProperties, ElementOfSeq
<1> QED
  BY <1>1, <1>2 DEF ToSet

(* A function on the indices of a sequence is a sequence as long.          *)
LEMMA MapIs ==
  ASSUME NEW s, IsSeq(s), NEW t, t = [i \in DOMAIN s |-> t[i]]
  PROVE  IsSeq(t) /\ Len(t) = Len(s) /\ DOMAIN t = DOMAIN s
<1>1. Len(s) \in Nat /\ DOMAIN s = 1 .. Len(s)
  BY Sequence
<1> DEFINE S == {t[i] : i \in DOMAIN s}
<1>2. t \in [1 .. Len(s) -> S]
  BY <1>1
<1>3. t \in Seq(S)
  BY <1>1, <1>2, SeqDef
<1>4. IsSeq(t) /\ Len(t) \in Nat /\ DOMAIN t = 1 .. Len(t) /\ DOMAIN t = 1 .. Len(s)
  BY <1>2, <1>3, LenProperties DEF IsSeq
<1>5. \A m, n \in Nat : 1 .. m = 1 .. n => m = n
  <2> SUFFICES ASSUME NEW m \in Nat, NEW n \in Nat, 1 .. m = 1 .. n PROVE m = n
    OBVIOUS
  <2>1. m \in 1 .. n \/ m = 0
    OBVIOUS
  <2>2. n \in 1 .. m \/ n = 0
    OBVIOUS
  <2>3. m = 0 => ~(n \in 1 .. m)
    OBVIOUS
  <2>4. n = 0 => ~(m \in 1 .. n)
    OBVIOUS
  <2> QED
    BY <2>1, <2>2, <2>3, <2>4
<1>6. Len(t) = Len(s)
  BY <1>1, <1>4, <1>5
<1> QED
  BY <1>1, <1>4, <1>6

(* Append adds one element at the end.                                     *)
LEMMA AppendHas ==
  ASSUME NEW s, IsSeq(s), NEW e
  PROVE  /\ IsSeq(Append(s, e)) /\ Len(Append(s, e)) = Len(s) + 1
         /\ Append(s, e)[Len(s) + 1] = e
         /\ \A i \in DOMAIN s : Append(s, e)[i] = s[i]
         /\ ToSet(Append(s, e)) = ToSet(s) \cup {e}
<1>1. PICK S : s \in Seq(S)
  BY DEF IsSeq
<1>2. s \in Seq(S \cup {e})
  BY <1>1, SeqMonotonic
<1>3. /\ IsSeq(Append(s, e)) /\ Len(Append(s, e)) = Len(s) + 1
      /\ Append(s, e)[Len(s) + 1] = e
      /\ \A i \in 1 .. Len(s) : Append(s, e)[i] = s[i]
  BY <1>2, AppendProperties DEF IsSeq
<1>4. /\ Len(s) \in Nat /\ DOMAIN s = 1 .. Len(s)
      /\ DOMAIN Append(s, e) = 1 .. Len(s) + 1
  BY <1>3, Sequence
<1> DEFINE a == Append(s, e)
<1> HIDE DEF a
<1>5. ASSUME NEW i \in 1 .. Len(s) + 1 PROVE i \in 1 .. Len(s) \/ i = Len(s) + 1
  BY <1>4
<1>6. Len(s) + 1 \in 1 .. Len(s) + 1 /\ 1 .. Len(s) \subseteq 1 .. Len(s) + 1
  BY <1>4
<1>7. /\ DOMAIN a = 1 .. Len(s) + 1 /\ a[Len(s) + 1] = e
      /\ \A i \in 1 .. Len(s) : a[i] = s[i]
  BY <1>3, <1>4 DEF a
<1>8. ToSet(a) = ToSet(s) \cup {e}
  BY <1>4, <1>5, <1>6, <1>7 DEF ToSet
<1> QED
  BY <1>3, <1>4, <1>8 DEF a

(* Two sequences one after the other: where each element of them is.       *)
LEMMA JoinHas ==
  ASSUME NEW s, IsSeq(s), NEW t, IsSeq(t)
  PROVE  /\ IsSeq(s \o t) /\ Len(s \o t) = Len(s) + Len(t)
         /\ DOMAIN (s \o t) = 1 .. Len(s) + Len(t)
         /\ \A i \in 1 .. Len(s) : (s \o t)[i] = s[i]
         /\ \A i \in 1 .. Len(t) : (s \o t)[Len(s) + i] = t[i]
         /\ \A i \in 1 .. Len(s) + Len(t) : i \notin 1 .. Len(s) => i - Len(s) \in 1 .. Len(t) /\ (s \o t)[i] = t[i - Len(s)]
         /\ ToSet(s \o t) = ToSet(s) \cup ToSet(t)
<1>1. PICK S, T : s \in Seq(S) /\ t \in Seq(T)
  BY DEF IsSeq
<1>2. s \in Seq(S \cup T) /\ t \in Seq(S \cup T)
  BY <1>1, SeqMonotonic
<1>3. Len(s) \in Nat /\ Len(t) \in Nat /\ DOMAIN s = 1 .. Len(s) /\ DOMAIN t = 1 .. Len(t)
  BY Sequence
<1> DEFINE j == s \o t
<1>4. /\ IsSeq(j) /\ Len(j) = Len(s) + Len(t)
      /\ \A i \in 1 .. Len(s) + Len(t) : j[i] = IF i <= Len(s) THEN s[i] ELSE t[i - Len(s)]
  BY <1>2, ConcatProperties DEF IsSeq
<1>5. DOMAIN j = 1 .. Len(s) + Len(t)
  BY <1>4, Sequence
<1> HIDE DEF j
<1>6. \A i \in 1 .. Len(s) : j[i] = s[i]
  BY <1>3, <1>4
<1>7. \A i \in 1 .. Len(t) : j[Len(s) + i] = t[i]
  BY <1>3, <1>4
<1>8. ASSUME NEW i \in 1 .. Len(s) + Len(t), i \notin 1 .. Len(s)
      PROVE  i - Len(s) \in 1 .. Len(t) /\ j[i] = t[i - Len(s)]
  BY <1>3, <1>4, <1>8
<1>9. 1 .. Len(s) \subseteq 1 .. Len(s) + Len(t) /\ \A i \in 1 .. Len(t) : Len(s) + i \in 1 .. Len(s) + Len(t)
  BY <1>3
<1>10. ToSet(j) = ToSet(s) \cup ToSet(t)
  <2>1. ASSUME NEW i \in 1 .. Len(s) + Len(t) PROVE j[i] \in ToSet(s) \cup ToSet(t)
    BY <1>3, <1>6, <1>8 DEF ToSet
  <2>2. ASSUME NEW i \in 1 .. Len(s) PROVE s[i] \in ToSet(j)
    BY <1>5, <1>6, <1>9 DEF ToSet
  <2>3. ASSUME NEW i \in 1 .. Len(t) PROVE t[i] \in ToSet(j)
    BY <1>5, <1>7, <1>9 DEF ToSet
  <2> QED
    BY <1>3, <1>5, <2>1, <2>2, <2>3 DEF ToSet
<1> QED
  BY <1>4, <1>5, <1>6, <1>7, <1>8, <1>10 DEF j

-----------------------------------------------------------------------------
(* The smaller of two numbers.                                             *)
LEMMA MinOfTwo ==
  ASSUME NEW a \in Int, NEW b \in Int
  PROVE  Min({a, b}) = IF a <= b THEN a ELSE b
<1> DEFINE m == IF a <= b THEN a ELSE b
<1>1. m \in {a, b} /\ \A y \in {a, b} : m =< y
  OBVIOUS
<1>2. ASSUME NEW x \in {a, b}, \A y \in {a, b} : x =< y PROVE x = m
  BY <1>2
<1> HIDE DEF m
<1>3. Min({a, b}) = m
  BY <1>1, <1>2 DEF Min
<1> QED
  BY <1>3 DEF m

(* The limit on the children is a positive number, whatever the            *)
(* configuration says.                                                     *)
LEMMA LimitIsPositive == Limit \in Nat /\ Limit > 0
BY PipelineAssumption DEF Limit

(* The elements of a finite set, in some order.                            *)
LEMMA SetToSeqHas ==
  ASSUME NEW S, IsFiniteSet(S)
  PROVE  IsSeq(SetToSeq(S)) /\ ToSet(SetToSeq(S)) = S
<1> DEFINE n == Cardinality(S)
           f == SetToSeq(S)
<1>1. n \in Nat /\ ExistsBijection(1 .. n, S)
  BY FS_CardinalityType
<1>2. \E g \in [1 .. n -> S] : IsInjective(g)
  BY <1>1 DEF ExistsBijection, Bijection, Injection, IsInjective
<1>3. f \in [1 .. n -> S] /\ IsInjective(f)
  BY <1>2 DEF SetToSeq
<1> HIDE DEF f
<1>4. f \in Injection(1 .. n, S)
  BY <1>3 DEF Injection, IsInjective
<1>5. Cardinality(1 .. n) = n
  BY <1>1, FS_Interval
<1>6. f \in Surjection(1 .. n, S)
  BY <1>4, <1>5, FS_Injection
<1>7. ToSet(f) = S
  BY <1>3, <1>6 DEF ToSet, Surjection
<1>8. IsSeq(f)
  BY <1>1, <1>3, SeqDef DEF IsSeq
<1> QED
  BY <1>7, <1>8 DEF f

(* What a sequence holds up to its i-th element.                           *)
First(s, i) == {s[j] : j \in 1 .. i}

(* The first elements of a sequence, one more at a time.                   *)
LEMMA FirstGrows ==
  ASSUME NEW s, IsSeq(s)
  PROVE  /\ First(s, 0) = {}
         /\ First(s, Len(s)) = ToSet(s)
         /\ \A i \in 1 .. Len(s) : First(s, i) = First(s, i - 1) \cup {s[i]}
<1>1. Len(s) \in Nat /\ DOMAIN s = 1 .. Len(s)
  BY Sequence
<1>2. First(s, 0) = {} /\ First(s, Len(s)) = ToSet(s)
  BY <1>1 DEF First, ToSet
<1>3. ASSUME NEW i \in 1 .. Len(s) PROVE First(s, i) = First(s, i - 1) \cup {s[i]}
  <2>1. 1 .. i = (1 .. i - 1) \cup {i}
    BY <1>1
  <2> QED
    BY <2>1 DEF First
<1> QED
  BY <1>2, <1>3

-----------------------------------------------------------------------------
(* The loops of the model.  Only: what is in the set, in its order.        *)
OnlyBody(set, some, x) == IF x \in set THEN Append(some, x) ELSE some
OnlyKept(d, i, some) == IsSeq(some) /\ ToSet(some) = First(d.s, i) \cap d.set
OnlyLoop == INSTANCE LoopProofs WITH Body <- OnlyBody, Kept <- OnlyKept

(* Only keeps the elements that are in the set, and no others.             *)
LEMMA OnlyHas ==
  ASSUME NEW s, IsSeq(s), NEW set
  PROVE  IsSeq(Only(s, set)) /\ ToSet(Only(s, set)) = ToSet(s) \cap set
<1> DEFINE f(t) == OnlyLoop!Loop(t, s, << >>)
           d == [s |-> s, set |-> set]
<1>1. Only(s, set) = CHOOSE v \in {f(t) : t \in {set}} : TRUE
  BY DEF Only, ForEach, Apply, OnlyLoop!Loop, OnlyLoop!ForEach, OnlyLoop!Apply, OnlyBody
<1>2. d.s = s /\ d.set = set
  OBVIOUS
<1> HIDE DEF f, d
<1>3. Only(s, set) = f(set)
  BY <1>1
<1>4. Len(s) \in Nat
  BY Sequence
<1>5. OnlyKept(d, 0, << >>)
  BY <1>2, NoElements, FirstGrows DEF OnlyKept
<1>6. ASSUME NEW i \in 1 .. Len(s), NEW v, OnlyKept(d, i - 1, v)
      PROVE  OnlyKept(d, i, OnlyBody(set, v, s[i]))
  <2>1. First(s, i) = First(s, i - 1) \cup {s[i]}
    BY FirstGrows
  <2>2. IsSeq(v) /\ ToSet(v) = First(s, i - 1) \cap set
    BY <1>2, <1>6 DEF OnlyKept
  <2>3. IsSeq(Append(v, s[i])) /\ ToSet(Append(v, s[i])) = ToSet(v) \cup {s[i]}
    BY <2>2, AppendHas
  <2> QED
    BY <1>2, <2>1, <2>2, <2>3 DEF OnlyKept, OnlyBody
<1>7. OnlyKept(d, Len(s), OnlyLoop!Loop(set, s, << >>))
  BY <1>4, <1>5, <1>6, OnlyLoop!LoopKeeps
<1> QED
  BY <1>2, <1>3, <1>7, FirstGrows DEF OnlyKept, f

-----------------------------------------------------------------------------
(* A set that holds everything that was found, or as much as the limit     *)
(* lets in.                                                                *)
CutTo(seen, found) ==
  /\ IsFiniteSet(found) /\ seen \subseteq found
  /\ Cardinality(seen) = Min({Limit, Cardinality(found)})

(* A key that is added to the children is found, and the limit still       *)
(* holds.                                                                  *)
LEMMA CutToOneMore ==
  ASSUME NEW seen, NEW found, CutTo(seen, found), NEW k
  PROVE  CutTo(AddKey(seen, k), found \cup ({k} \ {Empty}))
<1>1. Limit \in Nat /\ Cardinality(found) \in Nat /\ IsFiniteSet(seen) /\ Cardinality(seen) \in Nat
  BY LimitIsPositive, FS_CardinalityType, FS_Subset DEF CutTo
<1>2. Cardinality(seen) = IF Limit <= Cardinality(found) THEN Limit ELSE Cardinality(found)
  BY <1>1, MinOfTwo DEF CutTo
<1>3. CASE k = Empty
  <2>1. {k} \ {Empty} = {} /\ AddKey(seen, k) = seen
    BY <1>3 DEF AddKey
  <2> QED
    BY <2>1
<1>4. CASE k # Empty /\ Cardinality(seen) >= Limit
  <2>1. {k} \ {Empty} = {k} /\ AddKey(seen, k) = seen
    BY <1>4 DEF AddKey
  <2> DEFINE more == found \cup {k}
  <2>2. IsFiniteSet(more) /\ Cardinality(more) \in Nat /\ Cardinality(found) <= Cardinality(more)
    <3>1. IsFiniteSet(more) /\ found \in SUBSET more
      BY FS_AddElement DEF CutTo
    <3> QED
      BY <3>1, FS_Subset, FS_CardinalityType
  <2>3. seen \subseteq more
    BY DEF CutTo
  <2> HIDE DEF more
  <2>4. Cardinality(seen) = Limit /\ Limit <= Cardinality(more)
    BY <1>1, <1>2, <1>4, <2>2
  <2>5. Min({Limit, Cardinality(more)}) = Limit
    BY <1>1, <2>2, <2>4, MinOfTwo
  <2> QED
    BY <2>1, <2>2, <2>3, <2>4, <2>5 DEF CutTo, more
<1>5. CASE k # Empty /\ ~(Cardinality(seen) >= Limit)
  <2>1. {k} \ {Empty} = {k} /\ AddKey(seen, k) = seen \cup {k}
    BY <1>5 DEF AddKey
  <2>2. Cardinality(seen) = Cardinality(found)
    BY <1>1, <1>2, <1>5
  <2>3. seen = found
    BY <2>2, FS_Subset DEF CutTo
  <2> DEFINE more == found \cup {k}
  <2>4. IsFiniteSet(more) /\ Cardinality(more) \in Nat /\ Cardinality(more) <= Cardinality(found) + 1
    BY <1>1, FS_AddElement, FS_CardinalityType DEF CutTo
  <2> HIDE DEF more
  <2>5. Cardinality(more) <= Limit
    BY <1>1, <1>5, <2>2, <2>4
  <2>6. Min({Limit, Cardinality(more)}) = Cardinality(more)
    BY <1>1, <2>4, <2>5, MinOfTwo
  <2> QED
    BY <2>1, <2>3, <2>4, <2>6 DEF CutTo, more
<1> QED
  BY <1>3, <1>4, <1>5

AddKeyBody(c, seen, k) == AddKey(seen, k)
AddKeysKept(d, i, seen) == CutTo(seen, d.found \cup (First(d.keys, i) \ {Empty}))
AddKeysLoop == INSTANCE LoopProofs WITH Body <- AddKeyBody, Kept <- AddKeysKept

(* Whether the limit cuts what was found does not depend on where the      *)
(* searches share it.                                                      *)
LEMMA AddKeysHas ==
  ASSUME NEW keys, IsSeq(keys), NEW seen, NEW found, CutTo(seen, found)
  PROVE  CutTo(AddKeys(seen, keys), found \cup (ToSet(keys) \ {Empty}))
<1> DEFINE d == [found |-> found, keys |-> keys]
<1>1. d.found = found /\ d.keys = keys
  OBVIOUS
<1> HIDE DEF d
<1>2. AddKeys(seen, keys) = AddKeysLoop!Loop(d, keys, seen)
  BY DEF AddKeys, ForEach, Apply, AddKeysLoop!Loop, AddKeysLoop!ForEach, AddKeysLoop!Apply,
       AddKeyBody
<1>3. Len(keys) \in Nat
  BY Sequence
<1>4. AddKeysKept(d, 0, seen)
  <2>1. found \cup (First(keys, 0) \ {Empty}) = found
    BY FirstGrows
  <2> QED
    BY <1>1, <2>1 DEF AddKeysKept
<1>5. ASSUME NEW i \in 1 .. Len(keys), NEW v, AddKeysKept(d, i - 1, v)
      PROVE  AddKeysKept(d, i, AddKeyBody(d, v, keys[i]))
  <2> DEFINE before == found \cup (First(keys, i - 1) \ {Empty})
  <2>1. CutTo(v, before)
    BY <1>1, <1>5 DEF AddKeysKept
  <2>2. found \cup (First(keys, i) \ {Empty}) = before \cup ({keys[i]} \ {Empty})
    BY FirstGrows
  <2> HIDE DEF before
  <2>3. CutTo(AddKey(v, keys[i]), before \cup ({keys[i]} \ {Empty}))
    BY <2>1, CutToOneMore
  <2> QED
    BY <1>1, <2>2, <2>3 DEF AddKeysKept, AddKeyBody
<1>6. AddKeysKept(d, Len(keys), AddKeysLoop!Loop(d, keys, seen))
  BY <1>3, <1>4, <1>5, AddKeysLoop!LoopKeeps
<1> QED
  BY <1>1, <1>2, <1>6, FirstGrows DEF AddKeysKept

-----------------------------------------------------------------------------
(* The pull requests an issue announces: none that was announced before,   *)
(* none twice, and everything it refers to is known afterwards.            *)
AnnounceBody(c, said, url) == Announce(said, url)
AnnounceKept(d, i, said) ==
  /\ IsSeq(said.events)
  /\ \A j \in DOMAIN said.events : said.events[j].kind = "pr" /\ said.events[j].what \notin d.seen
  /\ \A j, m \in DOMAIN said.events : said.events[j].what = said.events[m].what => j = m
  /\ said.seen = d.seen \cup {said.events[j].what : j \in DOMAIN said.events}
  /\ IsFiniteSet(said.seen) /\ said.found = Cardinality(said.seen)
  /\ First(d.urls, i) \ {Empty} \subseteq said.seen
AnnounceLoop == INSTANCE LoopProofs WITH Body <- AnnounceBody, Kept <- AnnounceKept

(* What holds of the announcements so far holds after one more URL.        *)
LEMMA AnnounceOneMore ==
  ASSUME NEW d, IsSeq(d.urls), NEW i \in 1 .. Len(d.urls), NEW said, AnnounceKept(d, i - 1, said)
  PROVE  AnnounceKept(d, i, Announce(said, d.urls[i]))
<1> DEFINE url == d.urls[i]
<1>1. First(d.urls, i) = First(d.urls, i - 1) \cup {url}
  BY FirstGrows
<1> HIDE DEF url
<1>2. CASE url = Empty \/ url \in said.seen
  <2>1. Announce(said, url) = said
    BY <1>2 DEF Announce
  <2>2. First(d.urls, i) \ {Empty} \subseteq said.seen
    BY <1>1, <1>2 DEF AnnounceKept
  <2>3. AnnounceKept(d, i, said)
    BY <2>2 DEF AnnounceKept
  <2> QED
    BY <2>1, <2>3 DEF url
<1>3. CASE ~(url = Empty \/ url \in said.seen)
  <2> DEFINE e == Event("pr", url)
             more == Append(said.events, e)
             new == Announce(said, url)
             n == Len(said.events) + 1
  <2>1. new.seen = said.seen \cup {url} /\ new.found = said.found + 1 /\ new.events = more
    BY <1>3 DEF Announce
  <2>2. e.kind = "pr" /\ e.what = url
    BY DEF Event
  <2> HIDE DEF e, new
  <2>3. /\ IsSeq(said.events) /\ Len(said.events) \in Nat
        /\ DOMAIN said.events = 1 .. Len(said.events)
    BY <1>2, Sequence DEF AnnounceKept
  <2>4. /\ IsSeq(more) /\ Len(more) = n /\ more[n] = e
        /\ \A j \in DOMAIN said.events : more[j] = said.events[j]
    BY <2>3, AppendHas
  <2>5. DOMAIN more = 1 .. n
    BY <2>4, Sequence
  <2> HIDE DEF more
  <2>6. n \in DOMAIN more /\ DOMAIN more = DOMAIN said.events \cup {n} /\ n \notin DOMAIN said.events
    BY <2>3, <2>5
  <2> HIDE DEF n
  <2>7. \A j \in DOMAIN said.events : said.events[j].what \in said.seen
    BY DEF AnnounceKept
  <2>8. d.seen \subseteq said.seen
    BY DEF AnnounceKept
  <2>9. \A j \in DOMAIN more : more[j].kind = "pr" /\ more[j].what \notin d.seen
    BY <1>3, <2>2, <2>4, <2>6, <2>8 DEF AnnounceKept
  <2>10. \A j, m \in DOMAIN more : more[j].what = more[m].what => j = m
    BY <1>3, <2>2, <2>4, <2>6, <2>7 DEF AnnounceKept
  <2>11. new.seen = d.seen \cup {more[j].what : j \in DOMAIN more}
    <3>1. {more[j].what : j \in DOMAIN more} = {said.events[j].what : j \in DOMAIN said.events} \cup {url}
      BY <2>2, <2>4, <2>6
    <3> QED
      BY <2>1, <3>1 DEF AnnounceKept
  <2>12. IsFiniteSet(new.seen) /\ new.found = Cardinality(new.seen)
    <3>1. IsFiniteSet(said.seen) /\ said.found = Cardinality(said.seen)
      BY DEF AnnounceKept
    <3>2. /\ IsFiniteSet(said.seen \cup {url})
          /\ Cardinality(said.seen \cup {url}) = Cardinality(said.seen) + 1
      BY <1>3, <3>1, FS_AddElement
    <3> QED
      BY <2>1, <3>1, <3>2
  <2>13. First(d.urls, i) \ {Empty} \subseteq new.seen
    BY <1>1, <2>1 DEF AnnounceKept
  <2> QED
    BY <2>1, <2>4, <2>9, <2>10, <2>11, <2>12, <2>13 DEF AnnounceKept, url, new
<1> QED
  BY <1>2, <1>3 DEF url

(* AnnouncePRs announces what an issue refers to and nobody announced,     *)
(* each once.                                                              *)
LEMMA AnnounceHas ==
  ASSUME NEW issue, IsSeq(issue.prs), NEW refs, IsSeq(refs),
         IsFiniteSet(prs.seen), prs.found = Cardinality(prs.seen)
  PROVE  LET said == AnnouncePRs(issue, refs)
         IN  /\ IsSeq(said.events)
             /\ \A j \in DOMAIN said.events :
                  said.events[j].kind = "pr" /\ said.events[j].what \notin prs.seen
             /\ \A j, m \in DOMAIN said.events : said.events[j].what = said.events[m].what => j = m
             /\ said.seen = prs.seen \cup {said.events[j].what : j \in DOMAIN said.events}
             /\ IsFiniteSet(said.seen) /\ said.found = Cardinality(said.seen)
             /\ ToSet(issue.prs) \ {Empty} \subseteq said.seen
<1> DEFINE init == [seen |-> prs.seen, found |-> prs.found, events |-> << >>]
           pulls == Only(refs, {r \in ToSet(refs) : r.kind = "github_pr"})
           urls(p) == [i \in DOMAIN p |-> p[i].url] \o issue.prs
           f(p) == AnnounceLoop!Loop(0, urls(p), init)
           d == [seen |-> prs.seen, urls |-> urls(pulls)]
<1>1. AnnouncePRs(issue, refs) = CHOOSE v \in {f(p) : p \in {pulls}} : TRUE
  BY DEF AnnouncePRs, ForEach, Apply, AnnounceLoop!Loop, AnnounceLoop!ForEach,
       AnnounceLoop!Apply, AnnounceBody
<1>2. init.seen = prs.seen /\ init.found = prs.found /\ init.events = << >>
  OBVIOUS
<1>3. d.seen = prs.seen /\ d.urls = urls(pulls)
  OBVIOUS
<1>4. IsSeq(pulls)
  BY OnlyHas
<1> HIDE DEF f, init, pulls, d
<1>5. AnnouncePRs(issue, refs) = f(pulls)
  BY <1>1
<1>6. IsSeq(urls(pulls)) /\ ToSet(issue.prs) \subseteq ToSet(urls(pulls))
  <2> DEFINE own == [i \in DOMAIN pulls |-> pulls[i].url]
  <2>1. IsSeq(own)
    BY <1>4, MapIs
  <2> HIDE DEF own
  <2>2. IsSeq(own \o issue.prs) /\ ToSet(own \o issue.prs) = ToSet(own) \cup ToSet(issue.prs)
    BY <2>1, JoinHas
  <2> QED
    BY <2>2 DEF own
<1> HIDE DEF urls
<1>7. Len(urls(pulls)) \in Nat
  BY <1>6, Sequence
<1>8. AnnounceKept(d, 0, init)
  <2>1. First(d.urls, 0) = {}
    BY <1>3, <1>6, FirstGrows
  <2>2. DOMAIN << >> = {} /\ IsSeq(<< >>)
    BY NoElements, Sequence
  <2> QED
    BY <1>2, <1>3, <2>1, <2>2 DEF AnnounceKept
<1>9. ASSUME NEW i \in 1 .. Len(urls(pulls)), NEW v, AnnounceKept(d, i - 1, v)
      PROVE  AnnounceKept(d, i, AnnounceBody(0, v, urls(pulls)[i]))
  <2>1. AnnounceKept(d, i, Announce(v, d.urls[i]))
    BY <1>3, <1>6, <1>9, AnnounceOneMore
  <2> QED
    BY <1>3, <2>1 DEF AnnounceBody
<1>10. AnnounceKept(d, Len(urls(pulls)), AnnounceLoop!Loop(0, urls(pulls), init))
  BY <1>7, <1>8, <1>9, AnnounceLoop!LoopKeeps
<1>11. AnnounceKept(d, Len(d.urls), AnnouncePRs(issue, refs))
  BY <1>3, <1>5, <1>10 DEF f
<1>12. First(d.urls, Len(d.urls)) = ToSet(d.urls)
  BY <1>3, <1>6, FirstGrows
<1> QED
  BY <1>3, <1>6, <1>11, <1>12 DEF AnnounceKept

-----------------------------------------------------------------------------
(* The keys that entities have.                                            *)
Ids(s) == {e.id : e \in ToSet(s)}

(* The entities of an answer have the keys of the answer.                  *)
LEMMA ConvertHas ==
  ASSUME NEW ids, IsSeq(ids), NEW app
  PROVE  IsSeq(Convert(ids, app)) /\ Ids(Convert(ids, app)) = ToSet(ids)
<1> DEFINE c == Convert(ids, app)
<1>1. c = [i \in DOMAIN ids |-> c[i]] /\ \A i \in DOMAIN ids : c[i].id = ids[i]
  BY DEF Convert
<1> HIDE DEF c
<1>2. IsSeq(c) /\ DOMAIN c = DOMAIN ids
  BY <1>1, MapIs
<1>3. Ids(c) = ToSet(ids)
  BY <1>1, <1>2 DEF Ids, ToSet
<1> QED
  BY <1>2, <1>3 DEF c

(* The requests of an issue are for configured data types.                 *)
LEMMA CallsAre == IsSeq(Calls) /\ \A c \in ToSet(Calls) : c[2] \in DataTypes
<1> DEFINE types == OrderedDataTypes
           apps == Only(Applications, ToSet(Applications) \ {Empty})
           n == Len(types)
<1>1. IsSeq(CanonicalDataTypes)
  <2> DEFINE all == {"pullrequest", "branch", "commit", "repository", "build"}
  <2>1. CanonicalDataTypes \in Seq(all)
    BY DEF CanonicalDataTypes
  <2> QED
    BY <2>1 DEF IsSeq
<1>2. IsSeq(types) /\ ToSet(types) \subseteq DataTypes
  BY <1>1, OnlyHas DEF OrderedDataTypes
<1>3. IsSeq(apps)
  BY PipelineAssumption, OnlyHas DEF IsSeq
<1>4. n \in Nat /\ DOMAIN types = 1 .. n /\ Len(apps) \in Nat
  BY <1>2, <1>3, Sequence
<1> DEFINE last == Len(apps) * n
           f == [i \in 1 .. last |-> <<apps[((i - 1) \div n) + 1], types[((i - 1) % n) + 1]>>]
<1>5. Calls = f
  BY DEF Calls
<1> HIDE DEF types, apps
<1>6. last \in Nat
  BY <1>4
<1>7. \A i \in 1 .. last : ((i - 1) % n) + 1 \in 1 .. n
  <2> SUFFICES ASSUME NEW i \in 1 .. last PROVE ((i - 1) % n) + 1 \in 1 .. n
    OBVIOUS
  <2>1. n # 0
    BY <1>4
  <2>2. \A a, b \in Nat : b # 0 => a % b \in 0 .. b - 1
    OBVIOUS
  <2>3. i - 1 \in Nat
    BY <1>6
  <2>4. (i - 1) % n \in 0 .. n - 1
    BY <1>4, <2>1, <2>2, <2>3
  <2> HIDE DEF n, last
  <2> QED
    BY <1>4, <2>4
<1> HIDE DEF last
<1>8. DOMAIN f = 1 .. last /\ f \in [1 .. last -> {f[i] : i \in 1 .. last}]
  OBVIOUS
<1>9. IsSeq(f)
  BY <1>6, <1>8, SeqDef DEF IsSeq
<1>10. \A i \in 1 .. last : f[i][2] = types[((i - 1) % n) + 1]
  OBVIOUS
<1> HIDE DEF f
<1>11. \A i \in 1 .. last : f[i][2] \in DataTypes
  BY <1>2, <1>4, <1>7, <1>10 DEF ToSet
<1> QED
  BY <1>5, <1>8, <1>9, <1>11 DEF ToSet

-----------------------------------------------------------------------------
(* The requests that are answered give all their entities.                 *)
MergedBody(reply, all, c) == all \o Convert(reply[c], c[1])
MergedKept(d, i, all) == IsSeq(all) /\ Ids(all) = UNION {ToSet(d.reply[c]) : c \in First(d.calls, i)}
MergedLoop == INSTANCE LoopProofs WITH Body <- MergedBody, Kept <- MergedKept

(* The keys of one answered request more.                                  *)
LEMMA AnsweredGrow ==
  ASSUME NEW reply, NEW some, NEW c
  PROVE  UNION {ToSet(reply[x]) : x \in some \cup {c}}
           = (UNION {ToSet(reply[x]) : x \in some}) \cup ToSet(reply[c])
OBVIOUS

(* Merged has the keys of all requests of the data type that were          *)
(* answered.                                                               *)
LEMMA MergedHas ==
  ASSUME NEW reply, NEW failed, NEW dt, \A c \in ToSet(Calls) : IsSeq(reply[c])
  PROVE  /\ IsSeq(Merged(reply, failed, dt))
         /\ Ids(Merged(reply, failed, dt)) =
              UNION {ToSet(reply[c]) : c \in {x \in ToSet(Calls) : x[2] = dt /\ x \notin failed}}
<1> DEFINE wanted == {c \in ToSet(Calls) : c[2] = dt /\ c \notin failed}
           calls == Only(Calls, wanted)
           d == [reply |-> reply, calls |-> calls]
           m == MergedLoop!Loop(reply, calls, << >>)
<1>1. Merged(reply, failed, dt) = m
  BY DEF Merged, ForEach, Apply, MergedLoop!Loop, MergedLoop!ForEach, MergedLoop!Apply,
       MergedBody
<1>2. IsSeq(calls) /\ ToSet(calls) = ToSet(Calls) \cap wanted
  BY CallsAre, OnlyHas
<1>3. ToSet(calls) = wanted /\ wanted \subseteq ToSet(Calls)
  BY <1>2
<1>4. d.reply = reply /\ d.calls = calls
  OBVIOUS
<1> HIDE DEF calls, d, m
<1>5. Len(calls) \in Nat
  BY <1>2, Sequence
<1>6. MergedKept(d, 0, << >>)
  <2>1. IsSeq(<< >>) /\ Ids(<< >>) = {}
    BY NoElements DEF Ids
  <2>2. First(calls, 0) = {}
    BY <1>2, FirstGrows
  <2> QED
    BY <1>4, <2>1, <2>2 DEF MergedKept
<1>7. ASSUME NEW i \in 1 .. Len(calls), NEW v, MergedKept(d, i - 1, v)
      PROVE  MergedKept(d, i, MergedBody(reply, v, calls[i]))
  <2> DEFINE c == calls[i]
             new == Convert(reply[c], c[1])
  <2>1. c \in wanted
    BY <1>2, <1>3, Sequence DEF ToSet
  <2>2. First(calls, i) = First(calls, i - 1) \cup {c}
    BY <1>2, FirstGrows
  <2> HIDE DEF c
  <2>3. IsSeq(reply[c])
    BY <1>3, <2>1
  <2>4. IsSeq(new) /\ Ids(new) = ToSet(reply[c])
    BY <2>3, ConvertHas
  <2> HIDE DEF new
  <2>5. IsSeq(v) /\ Ids(v) = UNION {ToSet(reply[x]) : x \in First(calls, i - 1)}
    BY <1>4, <1>7 DEF MergedKept
  <2>6. IsSeq(v \o new) /\ ToSet(v \o new) = ToSet(v) \cup ToSet(new)
    BY <2>4, <2>5, JoinHas
  <2>7. Ids(v \o new) = Ids(v) \cup Ids(new)
    BY <2>6 DEF Ids
  <2>8. UNION {ToSet(reply[x]) : x \in First(calls, i)}
          = (UNION {ToSet(reply[x]) : x \in First(calls, i - 1)}) \cup ToSet(reply[c])
    BY <2>2, AnsweredGrow
  <2>9. Ids(v \o new) = UNION {ToSet(reply[x]) : x \in First(calls, i)}
    BY <2>4, <2>5, <2>7, <2>8, Zenon
  <2>10. MergedBody(reply, v, c) = v \o new
    BY DEF MergedBody, new
  <2> QED
    BY <1>4, <2>6, <2>9, <2>10 DEF MergedKept, c
<1>8. MergedKept(d, Len(calls), m)
  BY <1>5, <1>6, <1>7, MergedLoop!LoopKeeps DEF m
<1>9. First(calls, Len(calls)) = wanted
  BY <1>2, <1>3, FirstGrows
<1> QED
  BY <1>1, <1>4, <1>8, <1>9 DEF MergedKept

(* Deduplication takes away no key.                                        *)
LEMMA DedupHas ==
  ASSUME NEW s, IsSeq(s), Ids(s) \subseteq ToSet(IdsInOrder) \cup {Empty}
  PROVE  IsSeq(Dedup(s)) /\ Ids(Dedup(s)) = Ids(s)
<1> DEFINE keyed(id) == Only(s, {e \in ToSet(s) : e.id = id})
           named == Only(IdsInOrder, {e.id : e \in ToSet(s)})
           firsts == [i \in DOMAIN named |-> Head(keyed(named[i]))]
<1>1. Dedup(s) = keyed(Empty) \o firsts
  BY DEF Dedup
<1>2. \A id : IsSeq(keyed(id)) /\ ToSet(keyed(id)) = {e \in ToSet(s) : e.id = id}
  <2> TAKE id
  <2> DEFINE mine == {e \in ToSet(s) : e.id = id}
  <2>1. IsSeq(Only(s, mine)) /\ ToSet(Only(s, mine)) = ToSet(s) \cap mine
    BY OnlyHas
  <2>2. ToSet(s) \cap mine = mine
    OBVIOUS
  <2> QED
    BY <2>1, <2>2
<1>3. IsSeq(named) /\ ToSet(named) = ToSet(IdsInOrder) \cap Ids(s)
  <2>1. IsSeq(IdsInOrder)
    BY PipelineAssumption DEF IsSeq
  <2> QED
    BY <2>1, OnlyHas DEF Ids
<1> HIDE DEF keyed, named
<1>4. \A id \in Ids(s) : Head(keyed(id)) \in ToSet(s) /\ Head(keyed(id)).id = id
  <2> SUFFICES ASSUME NEW id \in Ids(s) PROVE Head(keyed(id)) \in ToSet(s) /\ Head(keyed(id)).id = id
    OBVIOUS
  <2> DEFINE t == keyed(id)
  <2>1. IsSeq(t) /\ ToSet(t) = {e \in ToSet(s) : e.id = id}
    BY <1>2
  <2>2. ToSet(t) # {}
    BY <2>1 DEF Ids
  <2> HIDE DEF t
  <2>3. Len(t) \in Nat /\ DOMAIN t = 1 .. Len(t)
    BY <2>1, Sequence
  <2>4. 1 \in DOMAIN t
    BY <2>2, <2>3 DEF ToSet
  <2>5. t[1] \in ToSet(t)
    BY <2>4 DEF ToSet
  <2>6. Head(t) = t[1]
    OBVIOUS
  <2> QED
    BY <2>1, <2>5, <2>6 DEF t
<1>5. IsSeq(firsts) /\ DOMAIN firsts = DOMAIN named
  BY <1>3, MapIs
<1>6. \A i \in DOMAIN named : named[i] \in Ids(s) /\ firsts[i] = Head(keyed(named[i]))
  BY <1>3 DEF ToSet
<1> HIDE DEF firsts
<1>7. Ids(firsts) = ToSet(named)
  <2>1. \A i \in DOMAIN named : firsts[i].id = named[i]
    BY <1>4, <1>6
  <2> QED
    BY <1>5, <2>1 DEF Ids, ToSet
<1>8. Ids(keyed(Empty)) = Ids(s) \cap {Empty}
  BY <1>2 DEF Ids
<1>9. /\ IsSeq(keyed(Empty) \o firsts)
      /\ ToSet(keyed(Empty) \o firsts) = ToSet(keyed(Empty)) \cup ToSet(firsts)
  BY <1>2, <1>5, JoinHas
<1>10. Ids(keyed(Empty) \o firsts) = Ids(keyed(Empty)) \cup Ids(firsts)
  BY <1>9 DEF Ids
<1> QED
  BY <1>1, <1>3, <1>7, <1>8, <1>9, <1>10

(* What the pull requests of an issue are after the enrichment, and when   *)
(* it tells of an error.                                                   *)
Pulls(data) == IF "pullrequest" \in DataTypes THEN data["pullrequest"] ELSE << >>

(* A reply of Jira is a sequence of keys.                                  *)
LEMMA ReplyIs ==
  ASSUME NEW k \in Keys
  PROVE  \A c \in ToSet(Calls) :
           IsSeq(DevReply[k][c]) /\ ToSet(DevReply[k][c]) \subseteq ToSet(IdsInOrder) \cup {Empty}
<1> SUFFICES ASSUME NEW c \in ToSet(Calls)
             PROVE  IsSeq(DevReply[k][c]) /\ ToSet(DevReply[k][c]) \subseteq ToSet(IdsInOrder) \cup {Empty}
  OBVIOUS
<1>1. DevReply[k][c] \in Seq(ToSet(IdsInOrder) \cup {Empty})
  BY PipelineAssumption
<1> QED
  BY <1>1, SeqHas

(* Enrich loses no pull request of an answered request, and returns an     *)
(* error exactly when a request failed.                                    *)
LEMMA EnrichHas ==
  ASSUME NEW k \in Keys, NEW failed
  PROVE  LET e == Enrich(Issue[k], DevReply[k], failed)
         IN  /\ IsSeq(Pulls(e.data))
             /\ Ids(Pulls(e.data)) \subseteq ToSet(IdsInOrder) \cup {Empty}
             /\ Wanted(Issue[k]) =>
                  \A c \in ToSet(Calls) \ failed :
                    c[2] = "pullrequest" => ToSet(DevReply[k][c]) \subseteq Ids(Pulls(e.data))
             /\ e.err <=> Wanted(Issue[k]) /\ failed # {}
<1> DEFINE reply == DevReply[k]
           kept(data) == IF HasAnyEntity(data) THEN data ELSE NoData
           e == Enrich(Issue[k], reply, failed)
           collected == Collected(reply, failed)
<1>1. IsSeq(<< >>) /\ Ids(<< >>) = {}
  BY NoElements DEF Ids
<1>2. \A dt \in DataTypes : NoData[dt] = << >>
  BY DEF NoData
<1>3. IsSeq(Pulls(NoData)) /\ Ids(Pulls(NoData)) = {}
  BY <1>1, <1>2 DEF Pulls
<1>4. CASE ~Wanted(Issue[k])
  <2>1. e.data = NoData /\ e.err = FALSE
    BY <1>4 DEF Enrich
  <2> QED
    BY <1>3, <1>4, <2>1
<1>5. CASE Wanted(Issue[k])
  <2>1. e = [data |-> Apply(kept, collected), err |-> failed # {}]
    BY <1>5 DEF Enrich
  <2> HIDE DEF e
  <2>2. e.data = Apply(kept, collected) /\ (e.err <=> failed # {})
    BY <2>1
  <2>3. Apply(kept, collected) = IF HasAnyEntity(collected) THEN collected ELSE NoData
    BY DEF Apply
  <2>4. \A dt \in DataTypes : collected[dt] = Dedup(Merged(reply, failed, dt))
    BY DEF Collected, Apply
  <2>5. DOMAIN collected = DataTypes
    BY DEF Collected
  <2> DEFINE answered == {c \in ToSet(Calls) : c[2] = "pullrequest" /\ c \notin failed}
             ids == UNION {ToSet(reply[c]) : c \in answered}
             merged == Merged(reply, failed, "pullrequest")
  <2>6. IsSeq(merged) /\ Ids(merged) = ids
    BY ReplyIs, MergedHas
  <2>7. ids \subseteq ToSet(IdsInOrder) \cup {Empty}
    BY ReplyIs
  <2> HIDE DEF merged, ids, collected
  <2>8. IsSeq(Dedup(merged)) /\ Ids(Dedup(merged)) = ids
    BY <2>6, <2>7, DedupHas
  <2>9. "pullrequest" \notin DataTypes => answered = {}
    BY CallsAre
  <2>10. "pullrequest" \notin DataTypes => ids = {}
    BY <2>9 DEF ids
  <2>11. IsSeq(Pulls(e.data)) /\ Ids(Pulls(e.data)) = ids
    <3>1. CASE "pullrequest" \notin DataTypes
      BY <1>1, <2>10, <3>1 DEF Pulls
    <3>2. CASE "pullrequest" \in DataTypes /\ HasAnyEntity(collected)
      <4>1. Pulls(e.data) = Dedup(merged)
        BY <2>2, <2>3, <2>4, <3>2 DEF Pulls, merged
      <4> QED
        BY <2>8, <4>1
    <3>3. CASE "pullrequest" \in DataTypes /\ ~HasAnyEntity(collected)
      <4>1. Dedup(merged) = << >>
        BY <2>4, <2>5, <3>3 DEF HasAnyEntity, merged
      <4>2. Pulls(e.data) = << >>
        BY <1>2, <2>2, <2>3, <3>3 DEF Pulls
      <4> QED
        BY <2>8, <4>1, <4>2
    <3> QED
      BY <3>1, <3>2, <3>3
  <2>12. \A c \in ToSet(Calls) \ failed : c[2] = "pullrequest" => ToSet(reply[c]) \subseteq ids
    BY DEF ids
  <2> QED
    BY <1>5, <2>2, <2>7, <2>11, <2>12 DEF e
<1> QED
  BY <1>4, <1>5

-----------------------------------------------------------------------------
(* What an issue consists of.                                              *)
IsIssue(issue) ==
  /\ issue.key \in Keys
  /\ IsSeq(issue.description) /\ IsSeq(issue.parent) /\ IsSeq(issue.subtasks)
  /\ IsSeq(issue.links) /\ IsSeq(issue.remotes)
  /\ \A i \in DOMAIN issue.parent : issue.parent[i].key \in Keys \cup {Empty}
  /\ \A i \in DOMAIN issue.subtasks : issue.subtasks[i].key \in Keys \cup {Empty}
  /\ \A i \in DOMAIN issue.links : issue.links[i].key \in Keys \cup {Empty}
  /\ \A i \in DOMAIN issue.remotes : issue.remotes[i].url \notin Keys

(* What Parse makes of an issue is well-formed.                            *)
LEMMA IssueIs ==
  ASSUME NEW k \in Keys
  PROVE  IsIssue(Issue[k]) /\ Issue[k].key = k
<1> DEFINE issue == Issue[k]
           Rel == [key : Keys \cup {Empty}, text : STRING]
           Typed == [key : Keys \cup {Empty}, text : STRING, type : STRING]
           Link == [url : STRING, text : STRING]
<1>1. /\ issue.description \in Seq(Link) /\ issue.parent \in Seq(Rel) /\ issue.subtasks \in Seq(Rel)
      /\ issue.links \in Seq(Typed) /\ issue.remotes \in Seq(Link)
  BY PipelineAssumption
<1>2. issue.key = k /\ \A i \in DOMAIN issue.remotes : issue.remotes[i].url \notin Keys
  BY PipelineAssumption
<1> HIDE DEF issue, Link
<1>3. /\ IsSeq(issue.description) /\ IsSeq(issue.parent) /\ IsSeq(issue.subtasks)
      /\ IsSeq(issue.links) /\ IsSeq(issue.remotes)
  BY <1>1 DEF IsSeq
<1>4. \A r \in Rel : r.key \in Keys \cup {Empty}
  OBVIOUS
<1>5. \A r \in Typed : r.key \in Keys \cup {Empty}
  OBVIOUS
<1> HIDE DEF Rel, Typed
<1>6. \A i \in DOMAIN issue.parent : issue.parent[i] \in Rel
  BY <1>1, SeqHas
<1>7. \A i \in DOMAIN issue.subtasks : issue.subtasks[i] \in Rel
  BY <1>1, SeqHas
<1>8. \A i \in DOMAIN issue.links : issue.links[i] \in Typed
  BY <1>1, SeqHas
<1> QED
  BY <1>2, <1>3, <1>4, <1>5, <1>6, <1>7, <1>8 DEF IsIssue, issue

(* What a reference refers to.                                             *)
IsRef(r) ==
  \/ r.kind = "jira" /\ r.key \in Keys \cup {Empty}
  \/ r.kind = "github_pr" /\ r.pr # Empty /\ r.pr \notin Keys
  \/ r.kind = "external" /\ r.url \in Urls \cup {Empty}

(* Every target is classified as one of the three kinds of reference.      *)
LEMMA ClassifyIs ==
  ASSUME NEW x, NEW text
  PROVE  IsRef(Ref(Classify(x), text))
<1>1. \A kind, key, url, pr : LET r == Ref(Result(kind, key, url, pr), text)
                              IN  r.kind = kind /\ r.key = key /\ r.url = url /\ r.pr = pr
  BY DEF Ref, Result
<1>2. x \in Urls => Form[x].key \in Keys \cup {Empty} /\ Form[x].pr \notin Keys
  BY FormAssumption, PipelineAssumption
<1>3. CASE x \in Keys
  <2>1. Classify(x) = Result("jira", x, Empty, Empty)
    BY <1>3 DEF Classify
  <2> QED
    BY <1>1, <1>3, <2>1 DEF IsRef
<1>4. CASE x \notin Keys /\ x \notin Urls
  <2>1. Classify(x) = Result("external", Empty, Empty, Empty)
    BY <1>4 DEF Classify
  <2> QED
    BY <1>1, <1>4, <2>1 DEF IsRef
<1>5. CASE x \notin Keys /\ x \in Urls /\ MatchesJiraURL(x)
  <2>1. Classify(x) = Result("jira", Form[x].key, x, Empty)
    BY <1>5 DEF Classify
  <2> QED
    BY <1>1, <1>2, <1>5, <2>1 DEF IsRef
<1>6. CASE x \notin Keys /\ x \in Urls /\ ~MatchesJiraURL(x) /\ MatchesGitHubPR(x)
  <2>1. Classify(x) = Result("github_pr", Empty, x, Form[x].pr)
    BY <1>6 DEF Classify
  <2> QED
    BY <1>1, <1>2, <1>6, <2>1 DEF IsRef, MatchesGitHubPR
<1>7. CASE x \notin Keys /\ x \in Urls /\ ~MatchesJiraURL(x) /\ ~MatchesGitHubPR(x)
  <2>1. Classify(x) = Result("external", Empty, x, Empty)
    BY <1>7 DEF Classify
  <2> QED
    BY <1>1, <1>7, <2>1 DEF IsRef
<1> QED
  BY <1>3, <1>4, <1>5, <1>6, <1>7

(* The references of a sequence of links are well-formed.                  *)
LEMMA LinkedAre ==
  ASSUME NEW s, IsSeq(s)
  PROVE  IsSeq(Linked(s)) /\ \A r \in ToSet(Linked(s)) : IsRef(r)
<1> DEFINE t == Linked(s)
<1>1. t = [i \in DOMAIN s |-> t[i]] /\ \A i \in DOMAIN s : t[i] = Ref(Classify(s[i].url), s[i].text)
  BY DEF Linked
<1> HIDE DEF t
<1>2. IsSeq(t) /\ DOMAIN t = DOMAIN s
  BY <1>1, MapIs
<1>3. \A r \in ToSet(t) : IsRef(r)
  BY <1>1, <1>2, ClassifyIs DEF ToSet
<1> QED
  BY <1>2, <1>3 DEF t

(* The references of a sequence of related issues are well-formed.         *)
LEMMA RelatedAre ==
  ASSUME NEW s, IsSeq(s), \A i \in DOMAIN s : s[i].key \in Keys \cup {Empty}
  PROVE  IsSeq(Related(s)) /\ \A r \in ToSet(Related(s)) : IsRef(r)
<1> DEFINE t == Related(s)
<1>1. \A key, text : IsRef(Ref(Result("jira", key, Empty, Empty), text)) <=> key \in Keys \cup {Empty}
  BY DEF IsRef, Ref, Result
<1>2. /\ t = [i \in DOMAIN s |-> t[i]]
      /\ \A i \in DOMAIN s : t[i] = Ref(Result("jira", s[i].key, Empty, Empty), s[i].text)
  BY DEF Related
<1> HIDE DEF t
<1>3. IsSeq(t) /\ DOMAIN t = DOMAIN s
  BY <1>2, MapIs
<1>4. \A r \in ToSet(t) : IsRef(r)
  BY <1>1, <1>2, <1>3 DEF ToSet
<1> QED
  BY <1>3, <1>4 DEF t

(* So are all references of an issue.                                      *)
LEMMA ExtractIs ==
  ASSUME NEW issue, IsIssue(issue)
  PROVE  IsSeq(Extract(issue)) /\ \A r \in ToSet(Extract(issue)) : IsRef(r)
<1> DEFINE a == Linked(issue.description)
           b == Related(issue.parent)
           c == Related(issue.subtasks)
           d == Related(issue.links)
           e == Linked(issue.remotes)
<1>1. Extract(issue) = (((a \o b) \o c) \o d) \o e
  BY DEF Extract
<1>2. /\ IsSeq(a) /\ IsSeq(b) /\ IsSeq(c) /\ IsSeq(d) /\ IsSeq(e)
      /\ \A r \in ToSet(a) \cup ToSet(b) \cup ToSet(c) \cup ToSet(d) \cup ToSet(e) : IsRef(r)
  BY LinkedAre, RelatedAre DEF IsIssue
<1> HIDE DEF a, b, c, d, e
<1>3. IsSeq(a \o b) /\ ToSet(a \o b) = ToSet(a) \cup ToSet(b)
  BY <1>2, JoinHas
<1>4. IsSeq((a \o b) \o c) /\ ToSet((a \o b) \o c) = ToSet(a \o b) \cup ToSet(c)
  BY <1>2, <1>3, JoinHas
<1>5. IsSeq(((a \o b) \o c) \o d) /\ ToSet(((a \o b) \o c) \o d) = ToSet((a \o b) \o c) \cup ToSet(d)
  BY <1>2, <1>4, JoinHas
<1>6. /\ IsSeq((((a \o b) \o c) \o d) \o e)
      /\ ToSet((((a \o b) \o c) \o d) \o e) = ToSet(((a \o b) \o c) \o d) \cup ToSet(e)
  BY <1>2, <1>5, JoinHas
<1> QED
  BY <1>1, <1>2, <1>3, <1>4, <1>5, <1>6

-----------------------------------------------------------------------------
(* A graph knows no nameless node, and an edge leads from a name to a name. *)
IsGraph(g) ==
  /\ g = [nodes |-> g.nodes, edges |-> g.edges]
  /\ g.nodes = [x \in DOMAIN g.nodes |-> g.nodes[x]]
  /\ g.edges = [e \in DOMAIN g.edges |-> g.edges[e]]
  /\ \A e \in DOMAIN g.edges : e[2] # Empty

(* Put changes a map at one place.                                         *)
LEMMA PutHas ==
  ASSUME NEW f, NEW x, NEW y
  PROVE  /\ Put(f, x, y) = [z \in DOMAIN Put(f, x, y) |-> Put(f, x, y)[z]]
         /\ DOMAIN Put(f, x, y) = DOMAIN f \cup {x}
         /\ Put(f, x, y)[x] = y
         /\ \A z \in DOMAIN f \ {x} : Put(f, x, y)[z] = f[z]
BY DEF Put

(* UpsertNode makes a node known, remembers that it was fetched, and loses *)
(* no meta.                                                                *)
LEMMA UpsertHas ==
  ASSUME NEW g, IsGraph(g), NEW id, id # Empty, NEW n
  PROVE  LET h == UpsertNode(g, id, n)
         IN  /\ IsGraph(h) /\ h.edges = g.edges /\ DOMAIN h.nodes = DOMAIN g.nodes \cup {id}
             /\ \A x \in DOMAIN g.nodes \ {id} : h.nodes[x] = g.nodes[x]
             /\ h.nodes[id].fetched <=> n.fetched \/ (id \in DOMAIN g.nodes /\ g.nodes[id].fetched)
             /\ h.nodes[id].meta = IF id \in DOMAIN g.nodes THEN PreferNonEmpty(n.meta, g.nodes[id].meta)
                                   ELSE n.meta
<1> DEFINE h == UpsertNode(g, id, n)
<1> DEFINE cur == g.nodes[id]
           merged == [kind |-> cur.kind, label |-> n.label,
                      meta |-> PreferNonEmpty(n.meta, cur.meta),
                      fetched |-> cur.fetched \/ n.fetched]
           known == IF id \in DOMAIN g.nodes THEN merged ELSE n
           new == Put(g.nodes, id, known)
<1>1. h = [g EXCEPT !.nodes = new]
  BY DEF UpsertNode
<1>2. merged.meta = PreferNonEmpty(n.meta, cur.meta) /\ (merged.fetched <=> cur.fetched \/ n.fetched)
  OBVIOUS
<1> HIDE DEF merged
<1>3. /\ known.fetched <=> n.fetched \/ (id \in DOMAIN g.nodes /\ g.nodes[id].fetched)
      /\ known.meta = IF id \in DOMAIN g.nodes THEN PreferNonEmpty(n.meta, g.nodes[id].meta) ELSE n.meta
  BY <1>2
<1> HIDE DEF known
<1>4. /\ new = [z \in DOMAIN new |-> new[z]] /\ DOMAIN new = DOMAIN g.nodes \cup {id}
      /\ new[id] = known /\ \A z \in DOMAIN g.nodes \ {id} : new[z] = g.nodes[z]
  BY DEF Put
<1> HIDE DEF new, h
<1>5. h = [nodes |-> new, edges |-> g.edges]
  BY <1>1 DEF IsGraph
<1>6. h.nodes = new /\ h.edges = g.edges /\ h = [nodes |-> h.nodes, edges |-> h.edges]
  BY <1>5
<1>7. IsGraph(h)
  BY <1>4, <1>6 DEF IsGraph
<1> QED
  BY <1>3, <1>4, <1>6, <1>7 DEF h

(* AddEdge adds an edge and nothing else.                                  *)
LEMMA AddEdgeHas ==
  ASSUME NEW g, IsGraph(g), NEW from, from # Empty, NEW to, to # Empty, NEW kind, NEW label
  PROVE  LET h == AddEdge(g, from, to, kind, label)
         IN  IsGraph(h) /\ h.nodes = g.nodes /\ DOMAIN h.edges = DOMAIN g.edges \cup {<<from, to, kind>>}
<1> DEFINE e == <<from, to, kind>>
           new == Put(g.edges, e, label)
           h == AddEdge(g, from, to, kind, label)
<1>1. e[2] = to
  OBVIOUS
<1>2. h = IF e \in DOMAIN g.edges THEN g ELSE [g EXCEPT !.edges = new]
  BY DEF AddEdge
<1> HIDE DEF e, h
<1>3. CASE e \in DOMAIN g.edges
  BY <1>2, <1>3 DEF e, h
<1>4. CASE e \notin DOMAIN g.edges
  <2>1. new = [z \in DOMAIN new |-> new[z]] /\ DOMAIN new = DOMAIN g.edges \cup {e}
    BY PutHas
  <2> HIDE DEF new
  <2>2. h = [nodes |-> g.nodes, edges |-> new]
    BY <1>2, <1>4 DEF IsGraph
  <2>3. h.nodes = g.nodes /\ h.edges = new /\ h = [nodes |-> h.nodes, edges |-> h.edges]
    BY <2>2
  <2>4. IsGraph(h)
    BY <1>1, <2>1, <2>3 DEF IsGraph
  <2> QED
    BY <2>1, <2>3, <2>4 DEF h, e
<1> QED
  BY <1>3, <1>4

-----------------------------------------------------------------------------
(* What the mentions of an issue add to a graph: their edges, the nodes    *)
(* these lead to, and nothing that is known only of an issue.              *)
Grown(old, edges, g) ==
  /\ IsGraph(g)
  /\ DOMAIN g.edges = DOMAIN old.edges \cup edges
  /\ DOMAIN g.nodes = DOMAIN old.nodes \cup {e[2] : e \in edges}
  /\ \A x \in DOMAIN g.nodes : g.nodes[x].fetched <=> x \in DOMAIN old.nodes /\ old.nodes[x].fetched
  /\ \A x \in DOMAIN g.nodes \cap Keys :
       g.nodes[x].meta = IF x \in DOMAIN old.nodes THEN old.nodes[x].meta ELSE Empty

EdgesOf(from, mentions) == {<<from, m.id, m.kind>> : m \in {x \in mentions : x.id # Empty}}

IsMention(m) == ~m.node.fetched /\ (m.id \in Keys => m.node.meta = Empty)

(* A mention adds its edge, and the node at its end, unless it is there.   *)
LEMMA ConnectGrows ==
  ASSUME NEW old, NEW edges, NEW g, Grown(old, edges, g), NEW from, from # Empty, NEW m, IsMention(m)
  PROVE  Grown(old, edges \cup EdgesOf(from, {m}), Connect(from, g, m))
<1>1. CASE m.id = Empty
  <2>1. EdgesOf(from, {m}) = {} /\ Connect(from, g, m) = g
    BY <1>1 DEF EdgesOf, Connect
  <2>2. edges \cup EdgesOf(from, {m}) = edges
    BY <2>1
  <2> QED
    BY <2>1, <2>2
<1>2. CASE m.id # Empty
  <2> DEFINE id == m.id
             e == <<from, id, m.kind>>
             up == UpsertNode(g, id, m.node)
             h == Connect(from, g, m)
             all == edges \cup {e}
  <2>1. EdgesOf(from, {m}) = {e}
    BY <1>2 DEF EdgesOf
  <2>2. h = AddEdge(up, from, id, m.kind, m.label)
    BY <1>2 DEF Connect
  <2>3. e[2] = id
    OBVIOUS
  <2>4. IsGraph(g)
    BY DEF Grown
  <2>5. /\ IsGraph(up) /\ up.edges = g.edges /\ DOMAIN up.nodes = DOMAIN g.nodes \cup {id}
        /\ \A x \in DOMAIN g.nodes \ {id} : up.nodes[x] = g.nodes[x]
        /\ up.nodes[id].fetched <=> m.node.fetched \/ (id \in DOMAIN g.nodes /\ g.nodes[id].fetched)
        /\ up.nodes[id].meta = IF id \in DOMAIN g.nodes THEN PreferNonEmpty(m.node.meta, g.nodes[id].meta)
                               ELSE m.node.meta
    BY <1>2, <2>4, UpsertHas
  <2> HIDE DEF up, h
  <2>6. IsGraph(h) /\ h.nodes = up.nodes /\ DOMAIN h.edges = DOMAIN up.edges \cup {e}
    <3> DEFINE k == m.kind
               l == m.label
    <3>1. IsGraph(up) /\ id # Empty
      BY <1>2, <2>5
    <3> HIDE DEF id, k, l
    <3>2. LET z == AddEdge(up, from, id, k, l)
          IN  IsGraph(z) /\ z.nodes = up.nodes /\ DOMAIN z.edges = DOMAIN up.edges \cup {<<from, id, k>>}
      BY <3>1, AddEdgeHas
    <3> QED
      BY <2>2, <3>2 DEF k, l
  <2> HIDE DEF e
  <2>7. DOMAIN h.edges = DOMAIN old.edges \cup all
    BY <2>5, <2>6 DEF Grown
  <2>8. DOMAIN h.nodes = DOMAIN old.nodes \cup {x[2] : x \in all}
    <3>1. {x[2] : x \in all} = {x[2] : x \in edges} \cup {id}
      BY <2>3
    <3> QED
      BY <2>5, <2>6, <3>1 DEF Grown
  <2>9. DOMAIN h.nodes = DOMAIN g.nodes \cup {id}
    BY <2>5, <2>6
  <2>10. \A x \in DOMAIN h.nodes : h.nodes[x].fetched <=> x \in DOMAIN old.nodes /\ old.nodes[x].fetched
    <3> SUFFICES ASSUME NEW x \in DOMAIN h.nodes
                 PROVE  h.nodes[x].fetched <=> x \in DOMAIN old.nodes /\ old.nodes[x].fetched
      OBVIOUS
    <3>1. CASE x # id
      BY <2>5, <2>6, <2>9, <3>1 DEF Grown
    <3>2. CASE x = id /\ id \in DOMAIN g.nodes
      BY <2>5, <2>6, <3>2 DEF Grown, IsMention
    <3>3. CASE x = id /\ id \notin DOMAIN g.nodes
      BY <2>5, <2>6, <3>3 DEF Grown, IsMention
    <3> QED
      BY <3>1, <3>2, <3>3
  <2>11. \A x \in DOMAIN h.nodes \cap Keys :
           h.nodes[x].meta = IF x \in DOMAIN old.nodes THEN old.nodes[x].meta ELSE Empty
    <3> SUFFICES ASSUME NEW x \in DOMAIN h.nodes \cap Keys
                 PROVE  h.nodes[x].meta = IF x \in DOMAIN old.nodes THEN old.nodes[x].meta ELSE Empty
      OBVIOUS
    <3>1. CASE x # id
      BY <2>5, <2>6, <2>9, <3>1 DEF Grown
    <3>2. CASE x = id /\ id \in DOMAIN g.nodes
      <4>1. h.nodes[x].meta = g.nodes[x].meta
        BY <2>5, <2>6, <3>2 DEF IsMention, PreferNonEmpty
      <4> QED
        BY <3>2, <4>1 DEF Grown
    <3>3. CASE x = id /\ id \notin DOMAIN g.nodes
      BY <2>5, <2>6, <3>3 DEF Grown, IsMention
    <3> QED
      BY <3>1, <3>2, <3>3
  <2>12. Grown(old, all, h)
    BY <2>6, <2>7, <2>8, <2>10, <2>11 DEF Grown
  <2> QED
    BY <2>1, <2>12 DEF h
<1> QED
  BY <1>1, <1>2

ConnectBody(from, g, m) == Connect(from, g, m)
ConnectKept(d, i, g) == Grown(d.old, EdgesOf(d.from, First(d.mentions, i)), g)
ConnectLoop == INSTANCE LoopProofs WITH Body <- ConnectBody, Kept <- ConnectKept

(* A graph has grown by nothing from itself.                               *)
LEMMA NothingGrown ==
  ASSUME NEW g, IsGraph(g)
  PROVE  Grown(g, {}, g)
BY DEF Grown

(* The edges of one mention more.                                          *)
LEMMA EdgesOfMore ==
  ASSUME NEW from, NEW some, NEW m
  PROVE  EdgesOf(from, some \cup {m}) = EdgesOf(from, some) \cup EdgesOf(from, {m})
BY DEF EdgesOf

(* All mentions of an issue add their edges, in whatever order they come.  *)
LEMMA ConnectedHas ==
  ASSUME NEW g, IsGraph(g), NEW from, from # Empty,
         NEW mentions, IsSeq(mentions), \A m \in ToSet(mentions) : IsMention(m)
  PROVE  Grown(g, EdgesOf(from, ToSet(mentions)), ConnectLoop!Loop(from, mentions, g))
<1> DEFINE d == [old |-> g, from |-> from, mentions |-> mentions]
<1>1. d.old = g /\ d.from = from /\ d.mentions = mentions
  OBVIOUS
<1> HIDE DEF d
<1>2. Len(mentions) \in Nat
  BY Sequence
<1>3. ConnectKept(d, 0, g)
  <2>1. EdgesOf(from, First(mentions, 0)) = {}
    BY FirstGrows DEF EdgesOf
  <2> QED
    BY <1>1, <2>1, NothingGrown DEF ConnectKept
<1>4. ASSUME NEW i \in 1 .. Len(mentions), NEW v, ConnectKept(d, i - 1, v)
      PROVE  ConnectKept(d, i, ConnectBody(from, v, mentions[i]))
  <2> DEFINE m == mentions[i]
             before == EdgesOf(from, First(mentions, i - 1))
  <2>1. IsMention(m)
    BY Sequence DEF ToSet
  <2>2. First(mentions, i) = First(mentions, i - 1) \cup {m}
    BY FirstGrows
  <2> HIDE DEF m
  <2>3. EdgesOf(from, First(mentions, i)) = before \cup EdgesOf(from, {m})
    <3>1. EdgesOf(from, First(mentions, i - 1) \cup {m}) = before \cup EdgesOf(from, {m})
      BY EdgesOfMore
    <3> QED
      BY <2>2, <3>1
  <2>4. Grown(g, before, v)
    BY <1>1, <1>4 DEF ConnectKept
  <2> HIDE DEF before
  <2>5. Grown(g, before \cup EdgesOf(from, {m}), Connect(from, v, m))
    BY <2>1, <2>4, ConnectGrows
  <2> QED
    BY <1>1, <2>3, <2>5 DEF ConnectKept, ConnectBody, m
<1>5. ConnectKept(d, Len(mentions), ConnectLoop!Loop(from, mentions, g))
  BY <1>2, <1>3, <1>4, ConnectLoop!LoopKeeps
<1> QED
  BY <1>1, <1>5, FirstGrows DEF ConnectKept

(* The edges that references make besides those of the fields.             *)
RefEdgesOf(from, fields, refs) ==
       {<<from, key, "description">> :
          key \in ({r.key : r \in {x \in refs : x.kind = "jira"}} \ {e[2] : e \in fields}) \ {Empty}}
  \cup {<<from, r.pr, "pull_request">> : r \in {x \in refs : x.kind = "github_pr"}}
  \cup {<<from, r.url, "external">> : r \in {x \in refs : x.kind = "external" /\ x.url # Empty}}

(* The edges of an issue's fields lead from it, and are structured.        *)
FromFields(from, fields) ==
  \A e \in fields : e = <<from, e[2], e[3]>> /\ e[2] # Empty /\ e[3] \in Structured

NoneFrom(from, g) == \A e \in DOMAIN g.edges : e[1] # from

(* The edges of more references.                                           *)
LEMMA RefEdgesOfMore ==
  ASSUME NEW from, NEW fields, NEW refs, NEW more
  PROVE  RefEdgesOf(from, fields, refs \cup more)
           = RefEdgesOf(from, fields, refs) \cup RefEdgesOf(from, fields, more)
<1> DEFINE ends == {e[2] : e \in fields}
<1> HIDE DEF ends
<1>1. \A some : RefEdgesOf(from, fields, some) =
             {<<from, key, "description">> :
                key \in ({x.key : x \in {y \in some : y.kind = "jira"}} \ ends) \ {Empty}}
        \cup {<<from, x.pr, "pull_request">> : x \in {y \in some : y.kind = "github_pr"}}
        \cup {<<from, x.url, "external">> : x \in {y \in some : y.kind = "external" /\ y.url # Empty}}
  BY DEF RefEdgesOf, ends
<1> DEFINE jira(some) == {<<from, key, "description">> :
                key \in ({x.key : x \in {y \in some : y.kind = "jira"}} \ ends) \ {Empty}}
           pr(some) == {<<from, x.pr, "pull_request">> : x \in {y \in some : y.kind = "github_pr"}}
           ext(some) == {<<from, x.url, "external">> : x \in {y \in some : y.kind = "external" /\ y.url # Empty}}
<1>2. jira(refs \cup more) = jira(refs) \cup jira(more)
  OBVIOUS
<1>3. pr(refs \cup more) = pr(refs) \cup pr(more)
  OBVIOUS
<1>4. ext(refs \cup more) = ext(refs) \cup ext(more)
  OBVIOUS
<1>5. \A some : RefEdgesOf(from, fields, some) = jira(some) \cup pr(some) \cup ext(some)
  BY <1>1
<1> HIDE DEF jira, pr, ext
<1> QED
  BY <1>2, <1>3, <1>4, <1>5

(* The two nodes are joined by a field exactly when a structured edge is   *)
(* there: what the references have added so far is not mistaken for one.   *)
LEMMA JoinedByField ==
  ASSUME NEW old, NEW from, NEW fields, NEW refs, NEW g,
         NoneFrom(from, old), FromFields(from, fields), \A r \in refs : IsRef(r),
         DOMAIN g.edges = DOMAIN old.edges \cup (fields \cup RefEdgesOf(from, fields, refs)),
         NEW key \in Keys
  PROVE  AnyEdgeBetween(g, from, key) <=> key \in {e[2] : e \in fields}
<1>1. ASSUME AnyEdgeBetween(g, from, key) PROVE key \in {e[2] : e \in fields}
  <2>1. PICK k \in Structured : <<from, key, k>> \in DOMAIN g.edges
    BY <1>1 DEF AnyEdgeBetween
  <2> DEFINE e == <<from, key, k>>
  <2>2. e[1] = from /\ e[2] = key /\ e[3] = k
    OBVIOUS
  <2>3. e \notin DOMAIN old.edges
    BY <2>2 DEF NoneFrom
  <2>4. e \notin RefEdgesOf(from, fields, refs)
    <3>1. \A x : e # <<from, x, "description">>
      BY <2>1, <2>2 DEF Structured
    <3>2. \A r \in refs : r.kind = "github_pr" => e # <<from, r.pr, "pull_request">>
      BY DEF IsRef
    <3>3. \A r \in refs : r.kind = "external" /\ r.url # Empty => e # <<from, r.url, "external">>
      BY FormAssumption DEF IsRef
    <3> HIDE DEF e
    <3> QED
      BY <3>1, <3>2, <3>3 DEF RefEdgesOf
  <2>5. e \in fields
    BY <2>1, <2>3, <2>4
  <2> QED
    BY <2>2, <2>5
<1>2. ASSUME key \in {e[2] : e \in fields} PROVE AnyEdgeBetween(g, from, key)
  <2>1. PICK e \in fields : e[2] = key
    BY <1>2
  <2>2. e = <<from, key, e[3]>> /\ e[3] \in Structured
    BY <2>1 DEF FromFields
  <2> QED
    BY <2>1, <2>2 DEF AnyEdgeBetween
<1> QED
  BY <1>1, <1>2

(* A reference without a key adds no edge.                                 *)
LEMMA NoEdgeToNothing ==
  ASSUME NEW g, IsGraph(g), NEW from
  PROVE  ~AnyEdgeBetween(g, from, Empty)
<1>1. \A k : <<from, Empty, k>>[2] = Empty
  OBVIOUS
<1> QED
  BY <1>1 DEF IsGraph, AnyEdgeBetween

(* What one reference adds.                                                *)
LEMMA RefConnects ==
  ASSUME NEW old, NEW from, from # Empty, NEW fields, NEW refs, NEW g, NEW r,
         NoneFrom(from, old), FromFields(from, fields), \A x \in refs : IsRef(x), IsRef(r),
         Grown(old, fields \cup RefEdgesOf(from, fields, refs), g)
  PROVE  Grown(old, fields \cup RefEdgesOf(from, fields, refs \cup {r}), ConnectRef(from, g, r))
<1> DEFINE before == fields \cup RefEdgesOf(from, fields, refs)
           new == RefEdgesOf(from, fields, {r})
           h == ConnectRef(from, g, r)
<1>1. fields \cup RefEdgesOf(from, fields, refs \cup {r}) = before \cup new
  <2>1. RefEdgesOf(from, fields, refs \cup {r})
          = RefEdgesOf(from, fields, refs) \cup RefEdgesOf(from, fields, {r})
    BY RefEdgesOfMore
  <2> QED
    BY <2>1
<1>2. IsGraph(g) /\ DOMAIN g.edges = DOMAIN old.edges \cup before
  BY DEF Grown
<1>3. Empty \notin Keys /\ Empty \notin Urls /\ Keys \cap Urls = {}
  BY FormAssumption
<1> HIDE DEF before, new, h
<1>4. CASE r.kind = "jira"
  <2> DEFINE m == Mention(r.key, ReferencedIssue(r.text), "description", Empty)
  <2>1. r.key \in Keys \cup {Empty}
    BY <1>4 DEF IsRef
  <2>2. m.id = r.key /\ m.kind = "description" /\ IsMention(m)
    BY DEF Mention, ReferencedIssue, Node, IsMention
  <2>3. h = IF AnyEdgeBetween(g, from, r.key) THEN g ELSE Connect(from, g, m)
    BY <1>4 DEF h, ConnectRef
  <2>4. new = IF r.key \in {e[2] : e \in fields} \cup {Empty} THEN {} ELSE {<<from, r.key, "description">>}
    <3> DEFINE ends == {e[2] : e \in fields}
    <3>1. new = {<<from, key, "description">> : key \in ({r.key} \ ends) \ {Empty}}
      <4>1. {x \in {r} : x.kind = "jira"} = {r} /\ {x \in {r} : x.kind = "github_pr"} = {}
            /\ {x \in {r} : x.kind = "external" /\ x.url # Empty} = {}
        BY <1>4
      <4> QED
        BY <4>1 DEF new, RefEdgesOf
    <3> HIDE DEF ends
    <3> QED
      BY <3>1 DEF ends
  <2> HIDE DEF m
  <2>5. EdgesOf(from, {m}) = IF r.key = Empty THEN {} ELSE {<<from, r.key, "description">>}
    BY <2>2 DEF EdgesOf
  <2>6. CASE r.key = Empty
    <3>1. h = Connect(from, g, m) /\ new = {} /\ EdgesOf(from, {m}) = {}
      BY <1>2, <2>3, <2>4, <2>5, <2>6, NoEdgeToNothing
    <3>2. Grown(old, before \cup EdgesOf(from, {m}), Connect(from, g, m))
      BY <2>2, ConnectGrows DEF before
    <3> QED
      BY <1>1, <3>1, <3>2 DEF h
  <2>7. CASE r.key \in Keys
    <3>1. AnyEdgeBetween(g, from, r.key) <=> r.key \in {e[2] : e \in fields}
      BY <1>2, <2>7, JoinedByField DEF before
    <3>2. CASE AnyEdgeBetween(g, from, r.key)
      <4>1. h = g /\ new = {}
        BY <2>3, <2>4, <3>1, <3>2
      <4>2. before \cup new = before
        BY <4>1
      <4>3. Grown(old, before, g)
        BY DEF before
      <4> QED
        BY <1>1, <4>1, <4>2, <4>3 DEF h
    <3>3. CASE ~AnyEdgeBetween(g, from, r.key)
      <4>1. h = Connect(from, g, m) /\ new = EdgesOf(from, {m})
        BY <1>3, <2>3, <2>4, <2>5, <2>7, <3>1, <3>3
      <4>2. Grown(old, before \cup EdgesOf(from, {m}), Connect(from, g, m))
        BY <2>2, ConnectGrows DEF before
      <4> QED
        BY <1>1, <4>1, <4>2 DEF h
    <3> QED
      BY <3>2, <3>3
  <2> QED
    BY <2>1, <2>6, <2>7
<1>5. CASE r.kind = "github_pr"
  <2> DEFINE m == MentionPR(r.url, r.pr)
  <2>1. r.pr # Empty /\ r.pr \notin Keys
    BY <1>5 DEF IsRef
  <2>2. m.id = r.pr /\ m.kind = "pull_request" /\ IsMention(m)
    BY <2>1 DEF MentionPR, Mention, PRId, PullRequest, Node, IsMention
  <2>3. h = Connect(from, g, m)
    BY <1>5 DEF h, ConnectRef
  <2>4. new = {<<from, r.pr, "pull_request">>}
    <3>1. {x \in {r} : x.kind = "jira"} = {} /\ {x \in {r} : x.kind = "github_pr"} = {r}
          /\ {x \in {r} : x.kind = "external" /\ x.url # Empty} = {}
      BY <1>5
    <3> QED
      BY <3>1 DEF new, RefEdgesOf
  <2> HIDE DEF m
  <2>5. EdgesOf(from, {m}) = {<<from, r.pr, "pull_request">>}
    BY <2>1, <2>2 DEF EdgesOf
  <2>6. Grown(old, before \cup EdgesOf(from, {m}), Connect(from, g, m))
    BY <2>2, ConnectGrows DEF before
  <2> QED
    BY <1>1, <2>3, <2>4, <2>5, <2>6 DEF h
<1>6. CASE r.kind = "external"
  <2> DEFINE m == Mention(r.url, ExternalNode(r.url, r.text), "external", r.text)
  <2>1. r.url \notin Keys
    BY <1>3, <1>6 DEF IsRef
  <2>2. m.id = r.url /\ m.kind = "external" /\ IsMention(m)
    BY <2>1 DEF Mention, ExternalNode, Node, IsMention
  <2>3. h = Connect(from, g, m)
    BY <1>6 DEF h, ConnectRef
  <2>4. new = IF r.url = Empty THEN {} ELSE {<<from, r.url, "external">>}
    <3>1. {x \in {r} : x.kind = "jira"} = {} /\ {x \in {r} : x.kind = "github_pr"} = {}
          /\ {x \in {r} : x.kind = "external" /\ x.url # Empty} = IF r.url = Empty THEN {} ELSE {r}
      BY <1>6
    <3> QED
      BY <3>1 DEF new, RefEdgesOf
  <2> HIDE DEF m
  <2>5. EdgesOf(from, {m}) = IF r.url = Empty THEN {} ELSE {<<from, r.url, "external">>}
    BY <2>2 DEF EdgesOf
  <2>6. Grown(old, before \cup EdgesOf(from, {m}), Connect(from, g, m))
    BY <2>2, ConnectGrows DEF before
  <2> QED
    BY <1>1, <2>3, <2>4, <2>5, <2>6 DEF h
<1> QED
  BY <1>4, <1>5, <1>6 DEF IsRef

RefBody(from, g, r) == ConnectRef(from, g, r)
RefKept(d, i, g) == Grown(d.old, d.fields \cup RefEdgesOf(d.from, d.fields, First(d.refs, i)), g)
RefLoop == INSTANCE LoopProofs WITH Body <- RefBody, Kept <- RefKept

(* All references of an issue add the edges that its fields do not cover.  *)
LEMMA RefsHave ==
  ASSUME NEW old, NEW from, from # Empty, NEW fields, NEW g,
         NoneFrom(from, old), FromFields(from, fields), Grown(old, fields, g),
         NEW refs, IsSeq(refs), \A r \in ToSet(refs) : IsRef(r)
  PROVE  Grown(old, fields \cup RefEdgesOf(from, fields, ToSet(refs)), RefLoop!Loop(from, refs, g))
<1> DEFINE d == [old |-> old, from |-> from, fields |-> fields, refs |-> refs]
<1>1. d.old = old /\ d.from = from /\ d.fields = fields /\ d.refs = refs
  OBVIOUS
<1> HIDE DEF d
<1>2. Len(refs) \in Nat /\ DOMAIN refs = 1 .. Len(refs)
  BY Sequence
<1>3. RefKept(d, 0, g)
  <2>1. RefEdgesOf(from, fields, First(refs, 0)) = {}
    BY FirstGrows DEF RefEdgesOf
  <2>2. fields \cup RefEdgesOf(from, fields, First(refs, 0)) = fields
    BY <2>1
  <2> QED
    BY <1>1, <2>2 DEF RefKept
<1>4. ASSUME NEW i \in 1 .. Len(refs), NEW v, RefKept(d, i - 1, v)
      PROVE  RefKept(d, i, RefBody(from, v, refs[i]))
  <2> DEFINE r == refs[i]
             some == First(refs, i - 1)
  <2>1. IsRef(r)
    BY <1>2 DEF ToSet
  <2>2. \A x \in some : IsRef(x)
    <3>1. 1 .. i - 1 \subseteq 1 .. Len(refs)
      BY <1>2
    <3> QED
      BY <1>2, <3>1 DEF First, ToSet
  <2>3. First(refs, i) = some \cup {r}
    BY FirstGrows
  <2>4. Grown(old, fields \cup RefEdgesOf(from, fields, some), v)
    BY <1>1, <1>4 DEF RefKept
  <2> HIDE DEF r, some
  <2>5. Grown(old, fields \cup RefEdgesOf(from, fields, some \cup {r}), ConnectRef(from, v, r))
    BY <2>1, <2>2, <2>4, RefConnects
  <2> QED
    BY <1>1, <2>3, <2>5 DEF RefKept, RefBody, r
<1>5. RefKept(d, Len(refs), RefLoop!Loop(from, refs, g))
  BY <1>2, <1>3, <1>4, RefLoop!LoopKeeps
<1> QED
  BY <1>1, <1>5, FirstGrows DEF RefKept

Pair(from, kind, ids) == {<<from, id, kind>> : id \in ids \ {Empty}}

KeysOf(s) == {s[j].key : j \in DOMAIN s}

(* The edges of an issue's fields, from the issue as it is handed over.    *)
FieldEdgesOf(issue) ==
       Pair(issue.key, "parent", KeysOf(issue.parent)) \cup Pair(issue.key, "subtask", KeysOf(issue.subtasks))
  \cup Pair(issue.key, "child", ToSet(issue.children)) \cup Pair(issue.key, "link", KeysOf(issue.links))
  \cup Pair(issue.key, "remote", {issue.remotes[j].url : j \in DOMAIN issue.remotes})
  \cup Pair(issue.key, "pull_request", {PRId(u, Empty) : u \in ToSet(issue.prs)})

IsEnriched(issue) ==
  /\ IsIssue(issue)
  /\ IsSeq(issue.children) /\ ToSet(issue.children) \subseteq Keys
  /\ IsSeq(issue.prs) /\ ToSet(issue.prs) \subseteq Urls \cup {Empty}

(* The edges of the fields of an issue lead from it, and are structured.   *)
LEMMA FieldsLead ==
  ASSUME NEW issue
  PROVE  FromFields(issue.key, FieldEdgesOf(issue)) /\ \A e \in FieldEdgesOf(issue) : e[1] = issue.key
<1>1. \A kind \in Structured : \A ids : \A e \in Pair(issue.key, kind, ids) :
        e = <<issue.key, e[2], e[3]>> /\ e[2] # Empty /\ e[3] \in Structured /\ e[1] = issue.key
  BY DEF Pair
<1>2. {"parent", "subtask", "child", "link", "remote", "pull_request"} \subseteq Structured
  BY DEF Structured
<1>3. ASSUME NEW e \in FieldEdgesOf(issue)
      PROVE  \E kind \in Structured : \E ids : e \in Pair(issue.key, kind, ids)
  BY <1>2 DEF FieldEdgesOf
<1> QED
  BY <1>1, <1>3 DEF FromFields

(* The parts of a mention.                                                 *)
LEMMA MentionHas ==
  ASSUME NEW id, NEW node, NEW kind, NEW label
  PROVE  LET m == Mention(id, node, kind, label)
         IN  m.id = id /\ m.node = node /\ m.kind = kind
BY DEF Mention

(* A node that is only mentioned is not fetched; that of an issue has no   *)
(* meta.                                                                   *)
LEMMA NodesAre ==
  /\ \A text : ~ReferencedIssue(text).fetched /\ ReferencedIssue(text).meta = Empty
  /\ \A url, text : ~ExternalNode(url, text).fetched
  /\ \A id, url : ~PullRequest(id, url).fetched
BY DEF ReferencedIssue, ExternalNode, PullRequest, Node

(* The mentions that one field makes.                                      *)
FieldMakes(s, t, kind, ids) ==
  /\ t = [i \in DOMAIN s |-> t[i]]
  /\ \A i \in DOMAIN s : t[i].kind = kind /\ IsMention(t[i]) /\ t[i].id \in ids
  /\ \A id \in ids : \E i \in DOMAIN s : t[i].id = id

(* A field whose elements are mentioned makes an edge to each of them.     *)
LEMMA MentionsOfField ==
  ASSUME NEW s, IsSeq(s), NEW t, NEW kind, NEW ids, FieldMakes(s, t, kind, ids), NEW from
  PROVE  /\ IsSeq(t) /\ \A m \in ToSet(t) : IsMention(m)
         /\ EdgesOf(from, ToSet(t)) = Pair(from, kind, ids)
<1>1. IsSeq(t) /\ DOMAIN t = DOMAIN s
  BY MapIs DEF FieldMakes
<1>2. \A m \in ToSet(t) : IsMention(m) /\ m.kind = kind
  BY <1>1 DEF ToSet, FieldMakes
<1>3. EdgesOf(from, ToSet(t)) = Pair(from, kind, {m.id : m \in ToSet(t)})
  BY <1>2 DEF EdgesOf, Pair
<1>4. {m.id : m \in ToSet(t)} = ids
  BY <1>1 DEF ToSet, FieldMakes
<1> QED
  BY <1>1, <1>2, <1>3, <1>4

(* The edges of the parent and of the subtasks.                            *)
LEMMA IssueMentions ==
  ASSUME NEW s, IsSeq(s), NEW kind, NEW from
  PROVE  /\ IsSeq(MentionIssues(s, kind)) /\ \A m \in ToSet(MentionIssues(s, kind)) : IsMention(m)
         /\ EdgesOf(from, ToSet(MentionIssues(s, kind))) = Pair(from, kind, KeysOf(s))
<1> DEFINE t == MentionIssues(s, kind)
<1>1. /\ t = [i \in DOMAIN s |-> t[i]]
      /\ \A i \in DOMAIN s : t[i] = Mention(s[i].key, ReferencedIssue(s[i].text), kind, Empty)
  BY DEF MentionIssues
<1> HIDE DEF t
<1>2. \A i \in DOMAIN s : t[i].kind = kind /\ IsMention(t[i]) /\ t[i].id = s[i].key
  BY <1>1, MentionHas, NodesAre DEF IsMention
<1> DEFINE ids == {t[i].id : i \in DOMAIN s}
<1>3. ids = KeysOf(s)
  BY <1>2 DEF KeysOf
<1>4. (\A i \in DOMAIN s : t[i].id \in ids) /\ \A id \in ids : \E i \in DOMAIN s : t[i].id = id
  OBVIOUS
<1> HIDE DEF ids
<1>5. FieldMakes(s, t, kind, ids)
  BY <1>1, <1>2, <1>4 DEF FieldMakes
<1>6. /\ IsSeq(t) /\ \A m \in ToSet(t) : IsMention(m)
      /\ EdgesOf(from, ToSet(t)) = Pair(from, kind, ids)
  BY <1>1, <1>5, MentionsOfField
<1> QED
  BY <1>3, <1>6 DEF t

(* The edges of the children.                                              *)
LEMMA ChildMentions ==
  ASSUME NEW issue, IsEnriched(issue), NEW from, NEW t,
         t = [i \in DOMAIN issue.children |->
                Mention(issue.children[i], ReferencedIssue(Empty), "child", Empty)]
  PROVE  /\ IsSeq(t) /\ \A m \in ToSet(t) : IsMention(m)
         /\ EdgesOf(from, ToSet(t)) = Pair(from, "child", ToSet(issue.children))
<1> DEFINE s == issue.children
<1>1. IsSeq(s)
  BY DEF IsEnriched
<1> HIDE DEF s
<1>2. \A i \in DOMAIN s : t[i] = Mention(s[i], ReferencedIssue(Empty), "child", Empty)
  BY DEF s
<1>3. t = [i \in DOMAIN s |-> t[i]]
  BY DEF s
<1>4. ASSUME NEW i \in DOMAIN s PROVE t[i].kind = "child" /\ IsMention(t[i]) /\ t[i].id = s[i]
  BY <1>2, MentionHas, NodesAre DEF IsMention
<1> DEFINE ids == {t[i].id : i \in DOMAIN s}
<1>5. ids = ToSet(s)
  BY <1>4 DEF ToSet
<1>6. (\A i \in DOMAIN s : t[i].id \in ids) /\ \A id \in ids : \E i \in DOMAIN s : t[i].id = id
  OBVIOUS
<1> HIDE DEF ids
<1>7. FieldMakes(s, t, "child", ids)
  BY <1>1, <1>3, <1>4, <1>6 DEF FieldMakes
<1>8. /\ IsSeq(t) /\ \A m \in ToSet(t) : IsMention(m)
      /\ EdgesOf(from, ToSet(t)) = Pair(from, "child", ids)
  BY <1>1, <1>7, MentionsOfField
<1> QED
  BY <1>5, <1>8 DEF s

(* The edges of the issue links.                                           *)
LEMMA LinkMentions ==
  ASSUME NEW issue, IsEnriched(issue), NEW from, NEW t,
         t = [i \in DOMAIN issue.links |->
                Mention(issue.links[i].key, ReferencedIssue(issue.links[i].text), "link",
                        issue.links[i].type)]
  PROVE  /\ IsSeq(t) /\ \A m \in ToSet(t) : IsMention(m)
         /\ EdgesOf(from, ToSet(t)) = Pair(from, "link", KeysOf(issue.links))
<1> DEFINE s == issue.links
<1>1. IsSeq(s)
  BY DEF IsEnriched, IsIssue
<1> HIDE DEF s
<1>2. \A i \in DOMAIN s : t[i] = Mention(s[i].key, ReferencedIssue(s[i].text), "link", s[i].type)
  BY DEF s
<1>3. t = [i \in DOMAIN s |-> t[i]]
  BY DEF s
<1>4. ASSUME NEW i \in DOMAIN s PROVE t[i].kind = "link" /\ IsMention(t[i]) /\ t[i].id = s[i].key
  <2> DEFINE node == ReferencedIssue(s[i].text)
             m == Mention(s[i].key, node, "link", s[i].type)
  <2>1. ~node.fetched /\ node.meta = Empty
    BY NodesAre
  <2> HIDE DEF node
  <2>2. m.id = s[i].key /\ m.node = node /\ m.kind = "link"
    BY MentionHas
  <2>3. t[i] = m
    BY <1>2 DEF node
  <2> HIDE DEF m
  <2> QED
    BY <2>1, <2>2, <2>3 DEF IsMention
<1> DEFINE ids == {t[i].id : i \in DOMAIN s}
<1>5. ids = KeysOf(s)
  BY <1>4 DEF KeysOf
<1>6. (\A i \in DOMAIN s : t[i].id \in ids) /\ \A id \in ids : \E i \in DOMAIN s : t[i].id = id
  OBVIOUS
<1> HIDE DEF ids
<1>7. FieldMakes(s, t, "link", ids)
  BY <1>1, <1>3, <1>4, <1>6 DEF FieldMakes
<1>8. /\ IsSeq(t) /\ \A m \in ToSet(t) : IsMention(m)
      /\ EdgesOf(from, ToSet(t)) = Pair(from, "link", ids)
  BY <1>1, <1>7, MentionsOfField
<1> QED
  BY <1>5, <1>8 DEF s

(* The edges of the remote links, which lead to no issue.                  *)
LEMMA RemoteMentions ==
  ASSUME NEW issue, IsEnriched(issue), NEW from, NEW t,
         t = [i \in DOMAIN issue.remotes |->
                Mention(issue.remotes[i].url, ExternalNode(issue.remotes[i].url, issue.remotes[i].text), "remote",
                        issue.remotes[i].text)]
  PROVE  /\ IsSeq(t) /\ \A m \in ToSet(t) : IsMention(m)
         /\ EdgesOf(from, ToSet(t)) = Pair(from, "remote", {issue.remotes[j].url : j \in DOMAIN issue.remotes})
<1> DEFINE s == issue.remotes
<1>1. IsSeq(s) /\ \A i \in DOMAIN s : s[i].url \notin Keys
  BY DEF IsEnriched, IsIssue
<1> HIDE DEF s
<1>2. \A i \in DOMAIN s : t[i] = Mention(s[i].url, ExternalNode(s[i].url, s[i].text), "remote", s[i].text)
  BY DEF s
<1>3. t = [i \in DOMAIN s |-> t[i]]
  BY DEF s
<1>4. ASSUME NEW i \in DOMAIN s PROVE t[i].kind = "remote" /\ IsMention(t[i]) /\ t[i].id = s[i].url
  BY <1>1, <1>2, MentionHas, NodesAre DEF IsMention
<1> DEFINE ids == {t[i].id : i \in DOMAIN s}
<1>5. ids = {s[i].url : i \in DOMAIN s}
  BY <1>4
<1>6. (\A i \in DOMAIN s : t[i].id \in ids) /\ \A id \in ids : \E i \in DOMAIN s : t[i].id = id
  OBVIOUS
<1> HIDE DEF ids
<1>7. FieldMakes(s, t, "remote", ids)
  BY <1>1, <1>3, <1>4, <1>6 DEF FieldMakes
<1>8. /\ IsSeq(t) /\ \A m \in ToSet(t) : IsMention(m)
      /\ EdgesOf(from, ToSet(t)) = Pair(from, "remote", ids)
  BY <1>1, <1>7, MentionsOfField
<1> QED
  BY <1>5, <1>8 DEF s

(* The edges of the pull requests.                                         *)
LEMMA PRMentions ==
  ASSUME NEW issue, IsEnriched(issue), NEW from, NEW t,
         t = [i \in DOMAIN issue.prs |-> MentionPR(issue.prs[i], Empty)]
  PROVE  /\ IsSeq(t) /\ \A m \in ToSet(t) : IsMention(m)
         /\ EdgesOf(from, ToSet(t)) = Pair(from, "pull_request", {PRId(u, Empty) : u \in ToSet(issue.prs)})
<1> DEFINE s == issue.prs
<1>1. IsSeq(s) /\ \A i \in DOMAIN s : s[i] \in Urls \cup {Empty}
  BY DEF IsEnriched, ToSet
<1> HIDE DEF s
<1>2. \A i \in DOMAIN s : t[i] = MentionPR(s[i], Empty)
  BY DEF s
<1>3. t = [i \in DOMAIN s |-> t[i]]
  BY DEF s
<1>4. \A u \in Urls \cup {Empty} : PRId(u, Empty) \notin Keys
  BY FormAssumption, PipelineAssumption DEF PRId
<1>5. \A i \in DOMAIN s : t[i].kind = "pull_request" /\ IsMention(t[i]) /\ t[i].id = PRId(s[i], Empty)
  <2> SUFFICES ASSUME NEW i \in DOMAIN s
               PROVE  t[i].kind = "pull_request" /\ IsMention(t[i]) /\ t[i].id = PRId(s[i], Empty)
    OBVIOUS
  <2> DEFINE id == PRId(s[i], Empty)
  <2>1. t[i] = Mention(id, PullRequest(id, s[i]), "pull_request", Empty)
    BY <1>2 DEF MentionPR
  <2>2. id \notin Keys
    BY <1>1, <1>4
  <2> HIDE DEF id
  <2>3. t[i].kind = "pull_request" /\ IsMention(t[i]) /\ t[i].id = id
    BY <2>1, <2>2, MentionHas, NodesAre DEF IsMention
  <2> QED
    BY <2>3 DEF id
<1> DEFINE ids == {t[i].id : i \in DOMAIN s}
<1>6. ids = {PRId(u, Empty) : u \in ToSet(s)}
  BY <1>5 DEF ToSet
<1>7. (\A i \in DOMAIN s : t[i].id \in ids) /\ \A id \in ids : \E i \in DOMAIN s : t[i].id = id
  OBVIOUS
<1> HIDE DEF ids
<1>8. FieldMakes(s, t, "pull_request", ids)
  BY <1>1, <1>3, <1>5, <1>7 DEF FieldMakes
<1>9. /\ IsSeq(t) /\ \A m \in ToSet(t) : IsMention(m)
      /\ EdgesOf(from, ToSet(t)) = Pair(from, "pull_request", ids)
  BY <1>1, <1>8, MentionsOfField
<1> QED
  BY <1>6, <1>9 DEF s

(* The mentions of two fields.                                             *)
LEMMA JoinedMentions ==
  ASSUME NEW from, NEW s, IsSeq(s), \A m \in ToSet(s) : IsMention(m), NEW t, IsSeq(t), \A m \in ToSet(t) : IsMention(m)
  PROVE  /\ IsSeq(s \o t) /\ \A m \in ToSet(s \o t) : IsMention(m)
         /\ EdgesOf(from, ToSet(s \o t)) = EdgesOf(from, ToSet(s)) \cup EdgesOf(from, ToSet(t))
<1>1. IsSeq(s \o t) /\ ToSet(s \o t) = ToSet(s) \cup ToSet(t)
  BY JoinHas
<1> DEFINE a == ToSet(s)
           b == ToSet(t)
<1> HIDE DEF a, b
<1>2. EdgesOf(from, a \cup b) = EdgesOf(from, a) \cup EdgesOf(from, b)
  BY DEF EdgesOf
<1> QED
  BY <1>1, <1>2 DEF a, b

(* What all fields of an issue mention.                                    *)
LEMMA FieldMentions ==
  ASSUME NEW issue, IsEnriched(issue)
  PROVE  LET s == StructuredMentions(issue)
         IN  /\ IsSeq(s) /\ \A m \in ToSet(s) : IsMention(m)
             /\ EdgesOf(issue.key, ToSet(s)) = FieldEdgesOf(issue)
<1> DEFINE from == issue.key
           a == MentionIssues(issue.parent, "parent")
           b == MentionIssues(issue.subtasks, "subtask")
           c == [i \in DOMAIN issue.children |->
                   Mention(issue.children[i], ReferencedIssue(Empty), "child", Empty)]
           d == [i \in DOMAIN issue.links |->
                   Mention(issue.links[i].key, ReferencedIssue(issue.links[i].text), "link",
                           issue.links[i].type)]
           e == [i \in DOMAIN issue.remotes |->
                   Mention(issue.remotes[i].url, ExternalNode(issue.remotes[i].url, issue.remotes[i].text), "remote",
                           issue.remotes[i].text)]
           f == [i \in DOMAIN issue.prs |-> MentionPR(issue.prs[i], Empty)]
           Fine(s) == IsSeq(s) /\ \A m \in ToSet(s) : IsMention(m)
           E(s) == EdgesOf(from, ToSet(s))
<1>1. StructuredMentions(issue) = ((((a \o b) \o c) \o d) \o e) \o f
  BY DEF StructuredMentions
<1>2. Fine(a) /\ E(a) = Pair(from, "parent", KeysOf(issue.parent))
  BY IssueMentions DEF IsEnriched, IsIssue
<1>3. Fine(b) /\ E(b) = Pair(from, "subtask", KeysOf(issue.subtasks))
  BY IssueMentions DEF IsEnriched, IsIssue
<1>4. Fine(c) /\ E(c) = Pair(from, "child", ToSet(issue.children))
  BY ChildMentions
<1>5. Fine(d) /\ E(d) = Pair(from, "link", KeysOf(issue.links))
  BY LinkMentions
<1>6. Fine(e) /\ E(e) = Pair(from, "remote", {issue.remotes[j].url : j \in DOMAIN issue.remotes})
  BY RemoteMentions
<1>7. Fine(f) /\ E(f) = Pair(from, "pull_request", {PRId(u, Empty) : u \in ToSet(issue.prs)})
  BY PRMentions
<1> HIDE DEF a, b, c, d, e, f
<1>8. \A s, t : Fine(s) /\ Fine(t) => Fine(s \o t) /\ E(s \o t) = E(s) \cup E(t)
  BY JoinedMentions
<1> HIDE DEF Fine, E
<1>9. Fine(a \o b) /\ E(a \o b) = E(a) \cup E(b)
  BY <1>2, <1>3, <1>8
<1>10. Fine((a \o b) \o c) /\ E((a \o b) \o c) = E(a \o b) \cup E(c)
  BY <1>4, <1>8, <1>9
<1>11. Fine(((a \o b) \o c) \o d) /\ E(((a \o b) \o c) \o d) = E((a \o b) \o c) \cup E(d)
  BY <1>5, <1>8, <1>10
<1>12. Fine((((a \o b) \o c) \o d) \o e) /\ E((((a \o b) \o c) \o d) \o e) = E(((a \o b) \o c) \o d) \cup E(e)
  BY <1>6, <1>8, <1>11
<1> DEFINE all == ((((a \o b) \o c) \o d) \o e) \o f
<1>13. Fine(all) /\ E(all) = E((((a \o b) \o c) \o d) \o e) \cup E(f)
  BY <1>7, <1>8, <1>12
<1> HIDE DEF all
<1>14. E(all) = FieldEdgesOf(issue)
  BY <1>2, <1>3, <1>4, <1>5, <1>6, <1>7, <1>9, <1>10, <1>11, <1>12, <1>13 DEF FieldEdgesOf
<1>15. StructuredMentions(issue) = all
  BY <1>1 DEF all
<1> QED
  BY <1>13, <1>14, <1>15 DEF Fine, E

-----------------------------------------------------------------------------
(* What adding an issue makes of the graph.                                *)
NewEdges(issue, refs) ==
  FieldEdgesOf(issue) \cup RefEdgesOf(issue.key, FieldEdgesOf(issue), ToSet(refs))

MetaIn(g, x) == IF x \in DOMAIN g.nodes THEN g.nodes[x].meta ELSE Empty

(* Add: the edges of the issue are added, the nodes at their ends are      *)
(* known, the issue is fetched and has its meta, and nothing else changes. *)
LEMMA AddHas ==
  ASSUME NEW g, IsGraph(g), NEW issue, IsEnriched(issue), NoneFrom(issue.key, g),
         NEW refs, IsSeq(refs), \A r \in ToSet(refs) : IsRef(r)
  PROVE  LET h == Add(g, issue, refs)
             k == issue.key
         IN  /\ IsGraph(h) /\ DOMAIN h.edges = DOMAIN g.edges \cup NewEdges(issue, refs)
             /\ DOMAIN h.nodes = DOMAIN g.nodes \cup {k} \cup {e[2] : e \in NewEdges(issue, refs)}
             /\ \A x \in DOMAIN h.nodes :
                  h.nodes[x].fetched <=> x = k \/ (x \in DOMAIN g.nodes /\ g.nodes[x].fetched)
             /\ \A x \in DOMAIN h.nodes \cap Keys :
                  h.nodes[x].meta = IF x = k THEN PreferNonEmpty(issue.meta, MetaIn(g, k)) ELSE MetaIn(g, x)
<1> DEFINE k == issue.key
           n == FetchedIssue(issue)
           own == UpsertNode(g, k, n)
           fields == ForEach(StructuredMentions(issue), own, LAMBDA acc, m : Connect(k, acc, m))
           F == FieldEdgesOf(issue)
           N == NewEdges(issue, refs)
           h == Add(g, issue, refs)
<1>1. k \in Keys /\ k # Empty
  BY FormAssumption DEF IsEnriched, IsIssue
<1>2. h = ForEach(refs, fields, LAMBDA acc, r : ConnectRef(k, acc, r))
  BY <1>1 DEF Add
<1> DEFINE loop == ConnectLoop!Loop(k, StructuredMentions(issue), own)
<1>3. fields = loop
  BY DEF ForEach, Apply, ConnectLoop!Loop, ConnectLoop!ForEach, ConnectLoop!Apply, ConnectBody
<1> DEFINE last == RefLoop!Loop(k, refs, fields)
<1>4. ForEach(refs, fields, LAMBDA acc, r : ConnectRef(k, acc, r)) = last
  BY DEF ForEach, Apply, RefLoop!Loop, RefLoop!ForEach, RefLoop!Apply, RefBody
<1>5. h = last
  BY <1>2, <1>4
<1> HIDE DEF h
<1>6. n.fetched /\ n.meta = issue.meta
  BY DEF FetchedIssue, Node
<1> HIDE DEF n
<1>7. /\ IsGraph(own) /\ own.edges = g.edges /\ DOMAIN own.nodes = DOMAIN g.nodes \cup {k}
      /\ \A x \in DOMAIN g.nodes \ {k} : own.nodes[x] = g.nodes[x]
      /\ own.nodes[k].fetched
      /\ own.nodes[k].meta = IF k \in DOMAIN g.nodes THEN PreferNonEmpty(issue.meta, g.nodes[k].meta) ELSE issue.meta
  BY <1>1, <1>6, UpsertHas
<1> HIDE DEF own
<1>8. Grown(own, F, fields)
  <2>1. /\ IsSeq(StructuredMentions(issue)) /\ \A m \in ToSet(StructuredMentions(issue)) : IsMention(m)
        /\ EdgesOf(k, ToSet(StructuredMentions(issue))) = F
    BY FieldMentions
  <2>2. Grown(own, EdgesOf(k, ToSet(StructuredMentions(issue))), loop)
    BY <1>1, <1>7, <2>1, ConnectedHas
  <2> QED
    BY <1>3, <2>1, <2>2
<1> HIDE DEF fields
<1>9. NoneFrom(k, own) /\ FromFields(k, F)
  BY <1>7, FieldsLead DEF NoneFrom
<1>10. Grown(own, N, h)
  <2>1. Grown(own, F \cup RefEdgesOf(k, F, ToSet(refs)), last)
    BY <1>1, <1>8, <1>9, RefsHave
  <2> QED
    BY <1>5, <2>1 DEF NewEdges
<1> HIDE DEF N, h
<1>11. IsGraph(h) /\ DOMAIN h.edges = DOMAIN g.edges \cup N
  BY <1>7, <1>10 DEF Grown
<1>12. DOMAIN h.nodes = DOMAIN g.nodes \cup {k} \cup {e[2] : e \in N}
  BY <1>7, <1>10 DEF Grown
<1>13. ASSUME NEW x \in DOMAIN h.nodes
       PROVE  h.nodes[x].fetched <=> x = k \/ (x \in DOMAIN g.nodes /\ g.nodes[x].fetched)
  BY <1>7, <1>10 DEF Grown
<1>14. own.nodes[k].meta = PreferNonEmpty(issue.meta, MetaIn(g, k))
  BY <1>7 DEF MetaIn, PreferNonEmpty
<1>15. ASSUME NEW x \in DOMAIN h.nodes \cap Keys
       PROVE  h.nodes[x].meta = IF x = k THEN PreferNonEmpty(issue.meta, MetaIn(g, k)) ELSE MetaIn(g, x)
  <2>1. h.nodes[x].meta = IF x \in DOMAIN own.nodes THEN own.nodes[x].meta ELSE Empty
    BY <1>10 DEF Grown
  <2>2. CASE x = k
    BY <1>7, <1>14, <2>1, <2>2
  <2>3. CASE x # k
    BY <1>7, <2>1, <2>3 DEF MetaIn
  <2> QED
    BY <2>2, <2>3
<1> QED
  BY <1>11, <1>12, <1>13, <1>15 DEF h, N

-----------------------------------------------------------------------------
Stages == {"parent", "resolve", "lookup", "epic", "done", "write", "report"}

IsCall(h) ==
  /\ h = [at |-> h.at, issue |-> h.issue, seen |-> h.seen, parentErr |-> h.parentErr, epicErr |-> h.epicErr]
  /\ h.at \in Stages /\ h.issue \in Keys /\ h.parentErr \in BOOLEAN /\ h.epicErr \in BOOLEAN

Held(w) == search[w].at # "idle"

(* What every state consists of.                                           *)
TypeInv ==
  /\ search = [w \in Workers |-> search[w]]
  /\ \A w \in Workers : Held(w) => IsCall(search[w])
  /\ field = [once |-> field.once, id |-> field.id, failed |-> field.failed]
  /\ field.failed \in BOOLEAN
  /\ log = [k \in Keys |-> log[k]] /\ \A k \in Keys : IsSeq(log[k])
  /\ work = [w \in Workers |-> work[w]]
  /\ todo \subseteq visited /\ visited \subseteq Keys

-----------------------------------------------------------------------------
(* The step of one worker leaves the others where they are.                *)
Moves(w, h) ==
  /\ search' = [v \in Workers |-> search'[v]]
  /\ search'[w] = h /\ \A v \in Workers \ {w} : search'[v] = search[v]

(* A worker whose call changes moves.                                      *)
LEMMA MovesHas ==
  ASSUME TypeInv, NEW w \in Workers, NEW h, search' = [search EXCEPT ![w] = h]
  PROVE  Moves(w, h)
BY DEF Moves, TypeInv

(* A worker takes an issue from the queue.                                 *)
LEMMA TakeIs ==
  ASSUME TypeInv, NEW w \in Workers, Take(w)
  PROVE  \E k \in todo : \E h :
           /\ todo' = todo \ {k} /\ Moves(w, h) /\ IsCall(h) /\ h.issue = k
           /\ h.at = (IF HierarchyCapable(Issue[k].type) THEN "parent" ELSE "done")
           /\ h.seen = {} /\ ~h.parentErr /\ ~h.epicErr
<1>1. PICK k \in todo :
        /\ todo' = todo \ {k}
        /\ search' = [search EXCEPT ![w] = Call(IF HierarchyCapable(Issue[k].type) THEN "parent" ELSE "done", k)]
  BY DEF Take
<1> DEFINE at == IF HierarchyCapable(Issue[k].type) THEN "parent" ELSE "done"
           h == Call(at, k)
<1>2. at \in Stages
  BY DEF Stages
<1> HIDE DEF at
<1>3. k \in Keys
  BY DEF TypeInv
<1>4. IsCall(h) /\ h.issue = k /\ h.at = at /\ h.seen = {} /\ ~h.parentErr /\ ~h.epicErr
  BY <1>2, <1>3 DEF Call, IsCall
<1> HIDE DEF h
<1>5. Moves(w, h)
  BY <1>1, MovesHas DEF h, at
<1> QED
  BY <1>1, <1>4, <1>5 DEF at

(* A worker goes on to the next stage of its issue.                        *)
LEMMA GoesOn ==
  ASSUME TypeInv, NEW w \in Workers, Held(w), NEW at \in Stages, search' = [search EXCEPT ![w].at = at]
  PROVE  \E h : /\ Moves(w, h) /\ IsCall(h) /\ h.issue = search[w].issue /\ h.at = at
                /\ h.seen = search[w].seen /\ h.parentErr = search[w].parentErr
                /\ h.epicErr = search[w].epicErr
<1> DEFINE c == search[w]
           h == [c EXCEPT !.at = at]
<1>1. IsCall(c)
  BY DEF TypeInv
<1>2. search' = [search EXCEPT ![w] = h]
  OBVIOUS
<1> HIDE DEF c
<1>3. /\ IsCall(h) /\ h.issue = c.issue /\ h.at = at
      /\ h.seen = c.seen /\ h.parentErr = c.parentErr /\ h.epicErr = c.epicErr
  BY <1>1 DEF IsCall
<1> HIDE DEF h
<1>4. Moves(w, h)
  BY <1>2, MovesHas
<1> QED
  BY <1>3, <1>4 DEF c

(* A search succeeds or fails.                                             *)
LEMMA SearchParentIs ==
  ASSUME TypeInv, NEW w \in Workers, SearchParent(w)
  PROVE  /\ search[w].at = "parent" /\ UNCHANGED field
         /\ \E h : /\ Moves(w, h) /\ IsCall(h) /\ h.issue = search[w].issue /\ h.at = "resolve"
                   /\ h.epicErr = search[w].epicErr
                   /\ \/ /\ h.parentErr = search[w].parentErr
                         /\ h.seen = AddKeys(search[w].seen, Found(ParentSearch[search[w].issue]))
                      \/ h.parentErr /\ h.seen = search[w].seen
<1> DEFINE c == search[w]
           more == AddKeys(c.seen, Found(ParentSearch[c.issue]))
           g == [c EXCEPT !.seen = more, !.at = "resolve"]
           b == [c EXCEPT !.parentErr = TRUE, !.at = "resolve"]
<1>1. c.at = "parent" /\ UNCHANGED field
  BY DEF SearchParent
<1>2. search' = [search EXCEPT ![w] = g] \/ search' = [search EXCEPT ![w] = b]
  BY DEF SearchParent, Query
<1>3. IsCall(c)
  BY <1>1 DEF TypeInv, Held
<1>4. "resolve" \in Stages
  BY DEF Stages
<1> HIDE DEF c, more
<1>5. IsCall(g) /\ g.issue = c.issue /\ g.at = "resolve" /\ g.epicErr = c.epicErr /\ g.parentErr = c.parentErr /\ g.seen = more
  <2>1. g = [at |-> "resolve", issue |-> c.issue, seen |-> more, parentErr |-> c.parentErr, epicErr |-> c.epicErr]
    <3> DEFINE m == [c EXCEPT !.seen = more]
    <3>1. m = [at |-> c.at, issue |-> c.issue, seen |-> more, parentErr |-> c.parentErr, epicErr |-> c.epicErr]
      BY <1>3 DEF IsCall
    <3>2. g = [m EXCEPT !.at = "resolve"]
      BY <1>3 DEF IsCall
    <3> HIDE DEF m, g
    <3> QED
      BY <3>1, <3>2
  <2> HIDE DEF g
  <2>2. g.issue = c.issue /\ g.at = "resolve" /\ g.epicErr = c.epicErr /\ g.parentErr = c.parentErr /\ g.seen = more
    BY <2>1
  <2> QED
    BY <1>3, <1>4, <2>1, <2>2 DEF IsCall
<1>6. IsCall(b) /\ b.issue = c.issue /\ b.at = "resolve" /\ b.epicErr = c.epicErr /\ b.parentErr /\ b.seen = c.seen
  <2>1. b = [at |-> "resolve", issue |-> c.issue, seen |-> c.seen, epicErr |-> c.epicErr, parentErr |-> TRUE]
    <3>1. PICK yes : yes = TRUE
      OBVIOUS
    <3> DEFINE m == [c EXCEPT !.parentErr = yes]
    <3>2. m = [at |-> c.at, issue |-> c.issue, seen |-> c.seen, epicErr |-> c.epicErr, parentErr |-> yes]
      BY <1>3 DEF IsCall
    <3>3. b = [m EXCEPT !.at = "resolve"]
      BY <1>3, <3>1 DEF IsCall
    <3> HIDE DEF m, b
    <3> QED
      BY <3>1, <3>2, <3>3
  <2> HIDE DEF b
  <2>2. b.issue = c.issue /\ b.at = "resolve" /\ b.epicErr = c.epicErr /\ b.parentErr = TRUE /\ b.seen = c.seen
    BY <2>1
  <2>3. b = [at |-> b.at, issue |-> b.issue, seen |-> b.seen, parentErr |-> b.parentErr, epicErr |-> b.epicErr]
    BY <2>1, <2>2
  <2> QED
    BY <1>3, <1>4, <2>2, <2>3 DEF IsCall
<1> HIDE DEF g, b
<1>7. Moves(w, g) \/ Moves(w, b)
  BY <1>2, MovesHas
<1> QED
  BY <1>1, <1>5, <1>6, <1>7 DEF c, more

(* So does the second search.                                              *)
LEMMA SearchEpicIs ==
  ASSUME TypeInv, NEW w \in Workers, SearchEpic(w)
  PROVE  /\ search[w].at = "epic" /\ UNCHANGED field
         /\ \E h : /\ Moves(w, h) /\ IsCall(h) /\ h.issue = search[w].issue /\ h.at = "done"
                   /\ h.parentErr = search[w].parentErr
                   /\ \/ /\ h.epicErr = search[w].epicErr
                         /\ h.seen = AddKeys(search[w].seen, Found(EpicSearch[search[w].issue]))
                      \/ h.epicErr /\ h.seen = search[w].seen
<1> DEFINE c == search[w]
           more == AddKeys(c.seen, Found(EpicSearch[c.issue]))
           g == [c EXCEPT !.seen = more, !.at = "done"]
           b == [c EXCEPT !.epicErr = TRUE, !.at = "done"]
<1>1. c.at = "epic" /\ UNCHANGED field
  BY DEF SearchEpic
<1>2. search' = [search EXCEPT ![w] = g] \/ search' = [search EXCEPT ![w] = b]
  BY DEF SearchEpic, Query
<1>3. IsCall(c)
  BY <1>1 DEF TypeInv, Held
<1>4. "done" \in Stages
  BY DEF Stages
<1> HIDE DEF c, more
<1>5. IsCall(g) /\ g.issue = c.issue /\ g.at = "done" /\ g.epicErr = c.epicErr /\ g.parentErr = c.parentErr /\ g.seen = more
  <2>1. g = [at |-> "done", issue |-> c.issue, seen |-> more, parentErr |-> c.parentErr, epicErr |-> c.epicErr]
    <3> DEFINE m == [c EXCEPT !.seen = more]
    <3>1. m = [at |-> c.at, issue |-> c.issue, seen |-> more, parentErr |-> c.parentErr, epicErr |-> c.epicErr]
      BY <1>3 DEF IsCall
    <3>2. g = [m EXCEPT !.at = "done"]
      BY <1>3 DEF IsCall
    <3> HIDE DEF m, g
    <3> QED
      BY <3>1, <3>2
  <2> HIDE DEF g
  <2>2. g.issue = c.issue /\ g.at = "done" /\ g.epicErr = c.epicErr /\ g.parentErr = c.parentErr /\ g.seen = more
    BY <2>1
  <2> QED
    BY <1>3, <1>4, <2>1, <2>2 DEF IsCall
<1>6. IsCall(b) /\ b.issue = c.issue /\ b.at = "done" /\ b.parentErr = c.parentErr /\ b.epicErr /\ b.seen = c.seen
  <2>1. b = [at |-> "done", issue |-> c.issue, seen |-> c.seen, parentErr |-> c.parentErr, epicErr |-> TRUE]
    <3>1. PICK yes : yes = TRUE
      OBVIOUS
    <3> DEFINE m == [c EXCEPT !.epicErr = yes]
    <3>2. m = [at |-> c.at, issue |-> c.issue, seen |-> c.seen, parentErr |-> c.parentErr, epicErr |-> yes]
      BY <1>3 DEF IsCall
    <3>3. b = [m EXCEPT !.at = "done"]
      BY <1>3, <3>1 DEF IsCall
    <3> HIDE DEF m, b
    <3> QED
      BY <3>1, <3>2, <3>3
  <2> HIDE DEF b
  <2>2. b.issue = c.issue /\ b.at = "done" /\ b.parentErr = c.parentErr /\ b.epicErr = TRUE /\ b.seen = c.seen
    BY <2>1
  <2>3. b = [at |-> b.at, issue |-> b.issue, seen |-> b.seen, parentErr |-> b.parentErr, epicErr |-> b.epicErr]
    BY <2>1, <2>2
  <2> QED
    BY <1>3, <1>4, <2>2, <2>3 DEF IsCall
<1> HIDE DEF g, b
<1>7. Moves(w, g) \/ Moves(w, b)
  BY <1>2, MovesHas
<1> QED
  BY <1>1, <1>5, <1>6, <1>7 DEF c, more

(* What a worker does between the searches: it gets by, waits for, starts  *)
(* or ends the lookup of the field.                                        *)
Stays(w, h) ==
  /\ Moves(w, h) /\ IsCall(h) /\ h.issue = search[w].issue
  /\ h.seen = search[w].seen /\ h.parentErr = search[w].parentErr /\ h.epicErr = search[w].epicErr

(* The worker finds the field configured, or looked up before.             *)
LEMMA ResolveKnownIs ==
  ASSUME TypeInv, NEW w \in Workers, ResolveKnown(w)
  PROVE  /\ search[w].at = "resolve" /\ UNCHANGED field
         /\ \E h : /\ Stays(w, h)
                   /\ \/ EpicLinkField # Empty /\ h.at = "epic"
                      \/ EpicLinkField = Empty /\ field.once = "done" /\ h.at = AfterResolve(field.id)
<1>1. search[w].at = "resolve" /\ Held(w) /\ UNCHANGED field
  BY DEF ResolveKnown, Held
<1>2. "epic" \in Stages /\ AfterResolve(field.id) \in Stages
  BY DEF Stages, AfterResolve
<1>3. CASE EpicLinkField # Empty /\ search' = [search EXCEPT ![w].at = "epic"]
  BY <1>1, <1>2, <1>3, GoesOn DEF Stays
<1>4. CASE /\ EpicLinkField = Empty /\ field.once = "done"
           /\ search' = [search EXCEPT ![w].at = AfterResolve(field.id)]
  <2> DEFINE at == AfterResolve(field.id)
  <2>1. at \in Stages /\ search' = [search EXCEPT ![w].at = at]
    BY <1>2, <1>4
  <2> HIDE DEF at
  <2>2. \E h : Stays(w, h) /\ h.at = at
    BY <1>1, <2>1, GoesOn DEF Stays
  <2> QED
    BY <1>1, <1>4, <2>2 DEF at
<1> QED
  BY <1>1, <1>3, <1>4 DEF ResolveKnown

(* The first worker to need the field begins the lookup.                   *)
LEMMA StartLookupIs ==
  ASSUME TypeInv, NEW w \in Workers, StartLookup(w)
  PROVE  /\ search[w].at = "resolve" /\ EpicLinkField = Empty /\ field.once = "new"
         /\ field' = [field EXCEPT !.once = "running"]
         /\ \E h : Stays(w, h) /\ h.at = "lookup"
<1>1. search[w].at = "resolve" /\ Held(w) /\ "lookup" \in Stages
  BY DEF StartLookup, Held, Stages
<1>2. search' = [search EXCEPT ![w].at = "lookup"]
  BY DEF StartLookup
<1>3. \E h : Stays(w, h) /\ h.at = "lookup"
  BY <1>1, <1>2, GoesOn DEF Stays
<1> QED
  BY <1>1, <1>3 DEF StartLookup

(* It ends the lookup, for all workers.                                    *)
LEMMA FinishLookupIs ==
  ASSUME TypeInv, NEW w \in Workers, FinishLookup(w)
  PROVE  /\ search[w].at = "lookup"
         /\ \/ field' = [once |-> "done", id |-> TenantField, failed |-> FALSE]
            \/ field' = [once |-> "done", id |-> Empty, failed |-> TRUE]
         /\ \E h : Stays(w, h) /\ h.at = AfterResolve(field'.id)
<1>1. search[w].at = "lookup" /\ Held(w)
  BY DEF FinishLookup, Held
<1>2. AfterResolve(field'.id) \in Stages
  BY DEF Stages, AfterResolve
<1>3. search' = [search EXCEPT ![w].at = AfterResolve(field'.id)]
  BY DEF FinishLookup
<1>4. \E h : Stays(w, h) /\ h.at = AfterResolve(field'.id)
  BY <1>1, <1>2, <1>3, GoesOn DEF Stays
<1> QED
  BY <1>1, <1>4 DEF FinishLookup

Searching == {"parent", "resolve", "lookup", "epic"}

(* What all steps of the discovery have in common.                         *)
LEMMA DiscoverIs ==
  ASSUME TypeInv, NEW w \in Workers, Discover(w)
  PROVE  /\ UNCHANGED <<todo, visited, graph, prs, log, work, result>>
         /\ search[w].at \in Searching
         /\ \E h : Moves(w, h) /\ IsCall(h) /\ h.issue = search[w].issue /\ h.at \in Searching \cup {"done"}
         /\ field' = [once |-> field'.once, id |-> field'.id, failed |-> field'.failed]
         /\ field'.failed \in BOOLEAN
<1>1. UNCHANGED <<todo, visited, graph, prs, log, work, result>>
  BY DEF Discover
<1>2. \A id : AfterResolve(id) \in Searching \cup {"done"}
  BY DEF AfterResolve, Searching
<1>3. CASE SearchParent(w)
  BY <1>1, <1>3, SearchParentIs DEF Searching, TypeInv
<1>4. CASE ResolveKnown(w)
  BY <1>1, <1>2, <1>4, ResolveKnownIs DEF Searching, Stays, TypeInv
<1>5. CASE StartLookup(w)
  <2> DEFINE new == [field EXCEPT !.once = "running"]
  <2>1. /\ search[w].at = "resolve" /\ field' = new
        /\ \E h : Stays(w, h) /\ h.at = "lookup"
    BY <1>5, StartLookupIs
  <2>2. new = [once |-> "running", id |-> field.id, failed |-> field.failed]
    BY DEF TypeInv
  <2> HIDE DEF new
  <2> QED
    BY <1>1, <2>1, <2>2 DEF Searching, Stays, TypeInv
<1>6. CASE FinishLookup(w)
  <2>1. /\ search[w].at = "lookup"
        /\ \/ field' = [once |-> "done", id |-> TenantField, failed |-> FALSE]
           \/ field' = [once |-> "done", id |-> Empty, failed |-> TRUE]
        /\ \E h : Stays(w, h) /\ h.at = AfterResolve(field'.id)
    BY <1>6, FinishLookupIs
  <2>2. /\ field' = [once |-> field'.once, id |-> field'.id, failed |-> field'.failed]
        /\ field'.failed \in BOOLEAN
    <3>1. PICK yes, no : yes = TRUE /\ no = FALSE
      OBVIOUS
    <3>2. \/ field' = [once |-> "done", id |-> TenantField, failed |-> no]
          \/ field' = [once |-> "done", id |-> Empty, failed |-> yes]
      BY <2>1, <3>1
    <3>3. \/ field'.once = "done" /\ field'.id = TenantField /\ field'.failed = no
          \/ field'.once = "done" /\ field'.id = Empty /\ field'.failed = yes
      BY <3>2
    <3> QED
      BY <3>1, <3>2, <3>3
  <2> QED
    BY <1>1, <1>2, <2>1, <2>2 DEF Searching, Stays
<1>7. CASE SearchEpic(w)
  BY <1>1, <1>7, SearchEpicIs DEF Searching, TypeInv
<1> QED
  BY <1>3, <1>4, <1>5, <1>6, <1>7 DEF Discover, Children

-----------------------------------------------------------------------------
(* What is told of an issue is added to what was told of it.               *)
Told(k, more) ==
  /\ log' = [j \in Keys |-> log'[j]] /\ IsSeq(more)
  /\ log'[k] = log[k] \o more /\ \A j \in Keys \ {k} : log'[j] = log[j]

SaysIn(events, kind) == \E i \in DOMAIN events : events[i].kind = kind

(* What the events of two sequences say.                                   *)
LEMMA SaysJoined ==
  ASSUME NEW s, IsSeq(s), NEW t, IsSeq(t), NEW kind
  PROVE  SaysIn(s \o t, kind) <=> SaysIn(s, kind) \/ SaysIn(t, kind)
<1>1. \A q : SaysIn(q, kind) <=> \E e \in ToSet(q) : e.kind = kind
  BY DEF SaysIn, ToSet
<1>2. ToSet(s \o t) = ToSet(s) \cup ToSet(t)
  BY JoinHas
<1> HIDE DEF SaysIn
<1> QED
  BY <1>1, <1>2

(* What one event says.                                                    *)
LEMMA OneEvent ==
  ASSUME NEW kind, NEW what
  PROVE  /\ IsSeq(<<Event(kind, what)>>) /\ DOMAIN <<Event(kind, what)>> = {1}
         /\ <<Event(kind, what)>>[1].kind = kind
         /\ \A other : SaysIn(<<Event(kind, what)>>, other) <=> other = kind
<1> DEFINE e == Event(kind, what)
<1>1. e.kind = kind
  BY DEF Event
<1> HIDE DEF e
<1>2. <<e>> \in Seq({e}) /\ DOMAIN <<e>> = {1} /\ <<e>>[1] = e
  OBVIOUS
<1> QED
  BY <1>1, <1>2 DEF IsSeq, SaysIn, e

(* What an event says that is told on a condition.                         *)
LEMMA MaybeEvent ==
  ASSUME NEW cond, NEW kind
  PROVE  /\ IsSeq(EventIf(cond, kind))
         /\ \A other : SaysIn(EventIf(cond, kind), other) <=> cond /\ other = kind
<1>1. CASE cond
  BY <1>1, OneEvent DEF EventIf
<1>2. CASE ~cond
  <2>1. EventIf(cond, kind) = << >>
    BY <1>2 DEF EventIf
  <2>2. IsSeq(<< >>) /\ DOMAIN << >> = {}
    BY NoElements, Sequence
  <2> QED
    BY <1>2, <2>1, <2>2 DEF SaysIn
<1> QED
  BY <1>1, <1>2

(* The enrichment leaves its data with the worker, and tells of both kinds *)
(* of error.                                                               *)
LEMMA EnrichIssueIs ==
  ASSUME TypeInv, NEW w \in Workers, EnrichIssue(w)
  PROVE  LET k == search[w].issue
         IN  /\ UNCHANGED <<field, todo, visited, graph, prs, result>> /\ search[w].at = "done" /\ k \in Keys
             /\ \E h : Stays(w, h) /\ h.at = "write"
             /\ work' = [v \in Workers |-> work'[v]] /\ \A v \in Workers \ {w} : work'[v] = work[v]
             /\ \E failed :
                  /\ failed # {} => Wanted(Issue[k])
                  /\ work'[w].failed = failed
                  /\ work'[w].data = Enrich(Issue[k], DevReply[k], failed).data
             /\ \E more :
                  /\ Told(k, more)
                  /\ \A i \in DOMAIN more : more[i].kind \in {"failed", "devstatus"}
                  /\ SaysIn(more, "failed") <=> search[w].parentErr \/ search[w].epicErr
                  /\ SaysIn(more, "devstatus") <=> work'[w].failed # {}
<1> DEFINE k == search[w].issue
<1>1. search[w].at = "done" /\ Held(w) /\ "write" \in Stages
  BY DEF EnrichIssue, Held, Stages
<1>2. UNCHANGED <<field, todo, visited, graph, prs, result>>
  BY DEF EnrichIssue
<1>3. search' = [search EXCEPT ![w].at = "write"]
  BY DEF EnrichIssue
<1>4. IsCall(search[w]) /\ k \in Keys
  BY <1>1 DEF TypeInv, IsCall
<1>5. \E h : Stays(w, h) /\ h.at = "write"
  BY <1>1, <1>3, GoesOn DEF Stays
<1>6. PICK failed \in IF "devstatus" \in PipelineFaults /\ Wanted(Issue[k]) THEN SUBSET ToSet(Calls) ELSE {{}} :
        \E e \in {Enrich(Issue[k], DevReply[k], failed)} :
          /\ work' = [work EXCEPT ![w] = [failed |-> failed, data |-> e.data]]
          /\ log' = [log EXCEPT ![k] = @ \o (EventIf(ChildrenError(w), "failed") \o EventIf(e.err, "devstatus"))]
  BY DEF EnrichIssue
<1> DEFINE e == Enrich(Issue[k], DevReply[k], failed)
<1>7. failed # {} => Wanted(Issue[k])
  BY <1>6
<1>8. e.err <=> failed # {}
  BY <1>4, <1>7, EnrichHas
<1> DEFINE a == EventIf(ChildrenError(w), "failed")
           b == EventIf(e.err, "devstatus")
<1>9. /\ work' = [work EXCEPT ![w] = [failed |-> failed, data |-> e.data]]
      /\ log' = [log EXCEPT ![k] = @ \o (a \o b)]
  BY <1>6
<1> DEFINE data == e.data
           err == e.err
<1>10. /\ IsSeq(a) /\ \A other : SaysIn(a, other) <=> ChildrenError(w) /\ other = "failed"
  BY MaybeEvent
<1>11. /\ IsSeq(b) /\ \A other : SaysIn(b, other) <=> failed # {} /\ other = "devstatus"
  BY <1>8, MaybeEvent
<1> HIDE DEF a, b, e
<1>12. /\ work' = [v \in Workers |-> work'[v]] /\ \A v \in Workers \ {w} : work'[v] = work[v]
       /\ work'[w].failed = failed /\ work'[w].data = e.data
  BY <1>9 DEF TypeInv
<1> DEFINE more == a \o b
<1>13. IsSeq(more)
  BY <1>10, <1>11, JoinHas
<1>14. \A other : SaysIn(more, other) <=> SaysIn(a, other) \/ SaysIn(b, other)
  BY <1>10, <1>11, SaysJoined
<1>15. log' = [log EXCEPT ![k] = @ \o more]
  BY <1>9
<1> HIDE DEF more
<1>16. Told(k, more)
  BY <1>4, <1>13, <1>15 DEF Told, TypeInv
<1>17. /\ SaysIn(more, "failed") <=> search[w].parentErr \/ search[w].epicErr
       /\ SaysIn(more, "devstatus") <=> failed # {}
  BY <1>10, <1>11, <1>14 DEF ChildrenError
<1>18. \A i \in DOMAIN more : more[i].kind \in {"failed", "devstatus"}
  BY <1>10, <1>11, <1>14 DEF SaysIn
<1> QED
  BY <1>1, <1>2, <1>4, <1>5, <1>7, <1>12, <1>16, <1>17, <1>18 DEF e

(* The worker lets go of its issue.                                        *)
Released(w) ==
  /\ search' = [v \in Workers |-> search'[v]] /\ work' = [v \in Workers |-> work'[v]]
  /\ search'[w].at = "idle"
  /\ \A v \in Workers \ {w} : search'[v] = search[v] /\ work'[v] = work[v]

(* A worker that releases its issue is idle.                               *)
LEMMA ReleaseIs ==
  ASSUME TypeInv, NEW w \in Workers, Release(w)
  PROVE  Released(w)
<1>1. /\ search' = [search EXCEPT ![w] = NoCall] /\ NoCall.at = "idle"
      /\ work' = [work EXCEPT ![w] = NoWork]
  BY DEF Release, NoCall
<1> HIDE DEF NoCall, NoWork
<1> QED
  BY <1>1 DEF Released, TypeInv

(* A write succeeds and is told, or fails and is told.                     *)
LEMMA WriteIs ==
  ASSUME TypeInv, NEW w \in Workers, Write(w)
  PROVE  LET k == search[w].issue
         IN  /\ UNCHANGED <<field, todo, visited, graph, prs, result>> /\ search[w].at = "write" /\ k \in Keys
             /\ \/ /\ UNCHANGED work /\ \E h : Stays(w, h) /\ h.at = "report"
                   /\ \E more : Told(k, more) /\ \A kind : SaysIn(more, kind) <=> kind = "fetched"
                \/ /\ Released(w)
                   /\ \E more : Told(k, more) /\ \A kind : SaysIn(more, kind) <=> kind = "failed"
<1> DEFINE k == search[w].issue
<1>1. search[w].at = "write" /\ Held(w) /\ "report" \in Stages
  BY DEF Write, Held, Stages
<1>2. UNCHANGED <<field, todo, visited, graph, prs, result>>
  BY DEF Write
<1>3. IsCall(search[w]) /\ k \in Keys
  BY <1>1 DEF TypeInv, IsCall
<1>4. ASSUME NEW kind, log' = [log EXCEPT ![k] = @ \o <<Event(kind, Empty)>>]
      PROVE  \E more : Told(k, more) /\ \A other : SaysIn(more, other) <=> other = kind
  <2> DEFINE more == <<Event(kind, Empty)>>
  <2>1. IsSeq(more) /\ \A other : SaysIn(more, other) <=> other = kind
    BY OneEvent
  <2>2. log' = [log EXCEPT ![k] = @ \o more]
    BY <1>4
  <2> HIDE DEF more
  <2>3. Told(k, more)
    BY <1>3, <2>1, <2>2 DEF Told, TypeInv
  <2> QED
    BY <2>1, <2>3
<1>5. CASE /\ search' = [search EXCEPT ![w].at = "report"] /\ UNCHANGED work
           /\ log' = [log EXCEPT ![k] = @ \o <<Event("fetched", Empty)>>]
  <2>1. \E h : Stays(w, h) /\ h.at = "report"
    BY <1>1, <1>5, GoesOn DEF Stays
  <2>2. \E more : Told(k, more) /\ \A other : SaysIn(more, other) <=> other = "fetched"
    BY <1>4, <1>5
  <2> QED
    BY <1>1, <1>2, <1>3, <1>5, <2>1, <2>2
<1>6. CASE Release(w) /\ log' = [log EXCEPT ![k] = @ \o <<Event("failed", Empty)>>]
  <2>1. \E more : Told(k, more) /\ \A other : SaysIn(more, other) <=> other = "failed"
    BY <1>4, <1>6
  <2> QED
    BY <1>1, <1>2, <1>3, <1>6, <2>1, ReleaseIs
<1> QED
  BY <1>5, <1>6 DEF Write

-----------------------------------------------------------------------------
(* The issue as it is handed over.                                         *)
Known(w) ==
  /\ search[w].issue \in Keys
  /\ IsFiniteSet(search[w].seen) /\ search[w].seen \subseteq Keys
  /\ IsSeq(Pulls(work[w].data)) /\ Ids(Pulls(work[w].data)) \subseteq Urls \cup {Empty}

SameFields(a, b) ==
  /\ a.key = b.key /\ a.meta = b.meta
  /\ a.description = b.description /\ a.parent = b.parent /\ a.subtasks = b.subtasks
  /\ a.links = b.links /\ a.remotes = b.remotes

(* The issue that is handed over has the fields of the parsed issue, the   *)
(* children the searches found and the pull requests of the enrichment.    *)
LEMMA EnrichedIs ==
  ASSUME NEW w \in Workers, Known(w)
  PROVE  LET issue == Enriched(w)
         IN  /\ IsEnriched(issue) /\ SameFields(issue, Issue[search[w].issue])
             /\ ToSet(issue.children) = search[w].seen
             /\ ToSet(issue.prs) = Ids(Pulls(work[w].data))
<1> DEFINE k == search[w].issue
           old == Issue[k]
           c == SetToSeq(search[w].seen)
           pulls == Pulls(work[w].data)
           p == [i \in DOMAIN pulls |-> pulls[i].id]
           issue == Enriched(w)
<1>1. issue = [old EXCEPT !.children = c, !.prs = p]
  BY DEF Enriched, Pulls
<1>2. IsSeq(c) /\ ToSet(c) = search[w].seen
  BY SetToSeqHas DEF Known
<1>3. IsSeq(pulls)
  BY DEF Known
<1>4. IsSeq(p) /\ DOMAIN p = DOMAIN pulls
  BY <1>3, MapIs
<1>5. ToSet(p) = Ids(pulls)
  BY <1>4 DEF ToSet, Ids
<1>6. k \in Keys
  BY DEF Known
<1>7. IsIssue(old) /\ old.key = k
  BY <1>6, IssueIs
<1>8. DOMAIN old = {"key", "summary", "meta", "type", "numeric", "description", "parent", "subtasks",
                    "links", "remotes", "children", "prs"}
  BY <1>6, PipelineAssumption
<1> HIDE DEF c, p, issue, pulls, old
<1> DEFINE m == [old EXCEPT !.children = c]
<1>9. m.children = c /\ DOMAIN m = DOMAIN old /\ \A f \in DOMAIN old \ {"children"} : m[f] = old[f]
  BY <1>8
<1>10. issue = [m EXCEPT !.prs = p]
  BY <1>1
<1> HIDE DEF m
<1>11. issue.prs = p /\ \A f \in DOMAIN old \ {"prs"} : issue[f] = m[f]
  BY <1>8, <1>9, <1>10
<1>12. issue.prs = p /\ issue.children = c /\ \A f \in DOMAIN old \ {"children", "prs"} : issue[f] = old[f]
  BY <1>8, <1>9, <1>11
<1>13. SameFields(issue, old)
  BY <1>8, <1>12 DEF SameFields
<1>14. IsIssue(issue)
  BY <1>7, <1>13 DEF IsIssue, SameFields
<1>15. IsEnriched(issue)
  BY <1>2, <1>4, <1>5, <1>12, <1>14 DEF IsEnriched, Known, pulls
<1> QED
  BY <1>2, <1>5, <1>12, <1>13, <1>15 DEF issue, pulls, old

PRsIn(events) == {i \in DOMAIN events : events[i].kind = "pr"}

(* What is told when an issue is reported.                                 *)
Announces(more) ==
  /\ \A i \in DOMAIN more : more[i].kind \in {"pr", "child"}
  /\ \A i \in PRsIn(more) : more[i].what \notin prs.seen
  /\ \A i, j \in PRsIn(more) : more[i].what = more[j].what => i = j
  /\ prs'.seen = prs.seen \cup {more[i].what : i \in PRsIn(more)}
  /\ IsFiniteSet(prs'.seen) /\ prs'.found = Cardinality(prs'.seen)

(* The events of a report are announcements of pull requests and of        *)
(* children.                                                               *)
LEMMA AnnouncesIs ==
  ASSUME NEW said, IsSeq(said.events),
         \A j \in DOMAIN said.events : said.events[j].kind = "pr" /\ said.events[j].what \notin prs.seen,
         \A j, m \in DOMAIN said.events : said.events[j].what = said.events[m].what => j = m,
         said.seen = prs.seen \cup {said.events[j].what : j \in DOMAIN said.events},
         IsFiniteSet(said.seen), said.found = Cardinality(said.seen),
         prs'.seen = said.seen, prs'.found = said.found,
         NEW children, IsSeq(children), \A i \in DOMAIN children : children[i].kind = "child"
  PROVE  IsSeq(said.events \o children) /\ Announces(said.events \o children)
<1> DEFINE s == said.events
           more == s \o children
<1>1. /\ DOMAIN s = 1 .. Len(s) /\ Len(s) \in Nat
       /\ DOMAIN children = 1 .. Len(children) /\ Len(children) \in Nat
  BY Sequence
<1> HIDE DEF s
<1>2. IsSeq(s)
  BY DEF s
<1>3. /\ IsSeq(more) /\ DOMAIN more = 1 .. Len(s) + Len(children)
      /\ \A i \in 1 .. Len(s) : more[i] = s[i]
      /\ \A i \in 1 .. Len(s) + Len(children) :
           i \notin 1 .. Len(s) => i - Len(s) \in 1 .. Len(children) /\ more[i] = children[i - Len(s)]
  BY <1>2, JoinHas
<1> HIDE DEF more
<1>4. DOMAIN s \subseteq DOMAIN more /\ \A i \in DOMAIN s : more[i] = s[i]
  BY <1>1, <1>3
<1>5. ASSUME NEW i \in DOMAIN more, i \notin DOMAIN s PROVE more[i].kind = "child"
  <2>1. i \in 1 .. Len(s) + Len(children) /\ i \notin 1 .. Len(s)
    BY <1>1, <1>3, <1>5
  <2>2. i - Len(s) \in DOMAIN children /\ more[i] = children[i - Len(s)]
    BY <1>1, <1>3, <2>1
  <2> DEFINE j == i - Len(s)
  <2> HIDE DEF j
  <2>3. j \in DOMAIN children /\ more[i] = children[j]
    BY <2>2 DEF j
  <2> QED
    BY <2>3
<1>6. \A j \in DOMAIN s : s[j].kind = "pr"
  BY DEF s
<1>7. PRsIn(more) = DOMAIN s
  BY <1>4, <1>5, <1>6 DEF PRsIn
<1>8. \A i \in DOMAIN more : more[i].kind \in {"pr", "child"}
  BY <1>4, <1>5, <1>6
<1> USE DEF s
<1>9. {more[i].what : i \in PRsIn(more)} = {s[j].what : j \in DOMAIN s}
  BY <1>4, <1>7
<1>10. \A i, j \in PRsIn(more) : more[i].what = more[j].what => i = j
  BY <1>4, <1>7
<1>11. \A i \in PRsIn(more) : more[i].what \notin prs.seen
  BY <1>4, <1>7
<1>12. /\ prs'.seen = prs.seen \cup {more[i].what : i \in PRsIn(more)}
      /\ IsFiniteSet(prs'.seen) /\ prs'.found = Cardinality(prs'.seen)
  BY <1>9
<1> QED
  BY <1>3, <1>8, <1>10, <1>11, <1>12 DEF Announces, more

(* The references of an issue lead to issues of the project.               *)
LEMMA ReferredAre ==
  ASSUME NEW refs, IsSeq(refs), \A r \in ToSet(refs) : IsRef(r)
  PROVE  Referred(refs) \subseteq Keys
<1>1. \A i \in DOMAIN refs : IsRef(refs[i])
  BY DEF ToSet
<1>2. \A i \in DOMAIN refs : refs[i].kind = "jira" => refs[i].key \in Keys \cup {Empty}
  BY <1>1 DEF IsRef
<1> QED
  BY <1>2 DEF Referred

(* Children and pull requests of an issue give no references.              *)
LEMMA SameReferences ==
  ASSUME NEW a, NEW b, SameFields(a, b)
  PROVE  Extract(a) = Extract(b)
BY DEF SameFields, Extract

(* What a report does to everything that is shared.                        *)
Hands(w, issue) ==
  LET k == search[w].issue
      refs == Extract(Issue[k])
  IN  /\ IsEnriched(issue) /\ SameFields(issue, Issue[k]) /\ issue.key = k
      /\ ToSet(issue.children) = search[w].seen
      /\ ToSet(issue.prs) = Ids(Pulls(work[w].data))
      /\ graph' = Add(graph, issue, refs)
      /\ \E more : Told(k, more) /\ Announces(more)
      /\ ToSet(issue.prs) \ {Empty} \subseteq prs'.seen
      /\ \E fresh : /\ fresh \cap visited = {} /\ fresh \subseteq Keys
                    /\ todo' = todo \cup fresh /\ visited' = visited \cup fresh
      /\ \E r : /\ result' = Put(result, k, r)
                /\ r.children = search[w].seen /\ r.prs = issue.prs /\ r.failed = work[w].failed
                /\ r.parentErr = search[w].parentErr /\ r.epicErr = search[w].epicErr

(* What the critical section does.                                         *)
LEMMA ReportIs ==
  ASSUME TypeInv, IsFiniteSet(prs.seen), prs.found = Cardinality(prs.seen),
         NEW w \in Workers, Known(w), Report(w)
  PROVE  /\ search[w].at = "report" /\ UNCHANGED field /\ Released(w)
         /\ \E issue : Hands(w, issue)
<1> DEFINE k == search[w].issue
           issue == Enriched(w)
           refs == Extract(issue)
           said == AnnouncePRs(issue, refs)
<1>1. search[w].at = "report" /\ UNCHANGED field /\ Release(w)
  BY DEF Report
<1>2. Released(w)
  BY <1>1, ReleaseIs
<1>3. ReportAs(w, issue, refs, said)
  BY DEF Report
<1>4. /\ IsEnriched(issue) /\ SameFields(issue, Issue[k])
      /\ ToSet(issue.children) = search[w].seen /\ ToSet(issue.prs) = Ids(Pulls(work[w].data))
  BY EnrichedIs
<1>5. k \in Keys /\ issue.key = k
  BY <1>4, IssueIs DEF Known, SameFields
<1>6. refs = Extract(Issue[k])
  BY <1>4, SameReferences
<1>7. IsSeq(refs) /\ \A r \in ToSet(refs) : IsRef(r)
  BY <1>5, <1>6, IssueIs, ExtractIs
<1> HIDE DEF issue, refs
<1>8. IsSeq(issue.prs) /\ IsSeq(issue.children)
  BY <1>4 DEF IsEnriched
<1>9. /\ IsSeq(said.events)
      /\ \A j \in DOMAIN said.events : said.events[j].kind = "pr" /\ said.events[j].what \notin prs.seen
      /\ \A j, m \in DOMAIN said.events : said.events[j].what = said.events[m].what => j = m
      /\ said.seen = prs.seen \cup {said.events[j].what : j \in DOMAIN said.events}
      /\ IsFiniteSet(said.seen) /\ said.found = Cardinality(said.seen)
      /\ ToSet(issue.prs) \ {Empty} \subseteq said.seen
  BY <1>7, <1>8, AnnounceHas
<1> HIDE DEF said
<1> DEFINE children == [i \in DOMAIN issue.children |-> Event("child", issue.children[i])]
           more == said.events \o children
           fresh == (Referred(refs) \cup search[w].seen) \ visited
           r == [children |-> search[w].seen, prs |-> issue.prs, failed |-> work[w].failed,
                 parentErr |-> search[w].parentErr, epicErr |-> search[w].epicErr]
<1>10. /\ graph' = Add(graph, issue, refs)
       /\ prs' = [seen |-> said.seen, found |-> said.found]
       /\ log' = [log EXCEPT ![issue.key] = @ \o more]
       /\ todo' = todo \cup fresh /\ visited' = visited \cup fresh
       /\ result' = Put(result, issue.key, r)
  BY <1>3 DEF ReportAs
<1>11. prs'.seen = said.seen /\ prs'.found = said.found
  BY <1>10
<1>12. /\ r.children = search[w].seen /\ r.prs = issue.prs /\ r.failed = work[w].failed
       /\ r.parentErr = search[w].parentErr /\ r.epicErr = search[w].epicErr
  OBVIOUS
<1>13. fresh \cap visited = {} /\ fresh \subseteq Keys
  BY <1>7, ReferredAre DEF Known
<1>14. IsSeq(children) /\ \A i \in DOMAIN children : children[i].kind = "child"
  <2>1. IsSeq(children) /\ DOMAIN children = DOMAIN issue.children
    BY <1>8, MapIs
  <2>2. \A i \in DOMAIN issue.children : children[i].kind = "child"
    BY DEF Event
  <2> QED
    BY <2>1, <2>2
<1> HIDE DEF children
<1>15. IsSeq(more) /\ Announces(more)
  BY <1>9, <1>11, <1>14, AnnouncesIs
<1> HIDE DEF more, fresh, r
<1>16. Told(k, more)
  BY <1>5, <1>10, <1>15 DEF Told, TypeInv
<1>17. Hands(w, issue)
  <2>1. ToSet(issue.prs) \ {Empty} \subseteq prs'.seen
    BY <1>9, <1>11
  <2>2. \E f : /\ f \cap visited = {} /\ f \subseteq Keys
               /\ todo' = todo \cup f /\ visited' = visited \cup f
    BY <1>10, <1>13
  <2>3. \E x : /\ result' = Put(result, k, x)
               /\ x.children = search[w].seen /\ x.prs = issue.prs /\ x.failed = work[w].failed
               /\ x.parentErr = search[w].parentErr /\ x.epicErr = search[w].epicErr
    BY <1>5, <1>10, <1>12
  <2>4. graph' = Add(graph, issue, Extract(Issue[k]))
    BY <1>6, <1>10
  <2> QED
    BY <1>4, <1>5, <1>15, <1>16, <2>1, <2>2, <2>3, <2>4 DEF Hands
<1> QED
  BY <1>1, <1>2, <1>17

-----------------------------------------------------------------------------
Capable(k) == HierarchyCapable(Issue[k].type)

(* An issue is with one worker at a time, and reported once.               *)
OwnedInv ==
  /\ \A w \in Workers : Held(w) => search[w].issue \in visited \ todo /\ search[w].issue \notin DOMAIN result
  /\ \A v, w \in Workers : Held(v) /\ Held(w) /\ search[v].issue = search[w].issue => v = w
  /\ DOMAIN result \subseteq visited \ todo

(* The field is looked up by one worker, and what came of it is kept.      *)
Settled == EpicLinkField = Empty => field.once = "done"

FieldInv ==
  /\ \A w \in Workers : search[w].at = "lookup" => field.once = "running" /\ EpicLinkField = Empty
  /\ \A v, w \in Workers : search[v].at = "lookup" /\ search[w].at = "lookup" => v = w
  /\ field.once = "done" => field.id = IF field.failed THEN Empty ELSE TenantField

(* What the searches of an issue have found so far.                        *)
FoundByParent(c) == (IF c.parentErr THEN {} ELSE ToSet(Found(ParentSearch[c.issue]))) \ {Empty}

SearchSound(c) ==
  /\ c.at = "parent" => Capable(c.issue) /\ c.seen = {} /\ ~c.parentErr /\ ~c.epicErr
  /\ c.at \in {"resolve", "lookup", "epic"} => Capable(c.issue) /\ ~c.epicErr /\ CutTo(c.seen, FoundByParent(c))
  /\ c.at = "epic" => Settled /\ HasEpicField
  /\ c.at \in {"done", "write", "report"} =>
       IF Capable(c.issue) THEN Settled /\ CutTo(c.seen, FoundFor(c.issue, c) \ {Empty})
       ELSE c.seen = {}

SearchInv == \A w \in Workers : Held(w) => SearchSound(search[w])

(* What a worker holds after the enrichment.                               *)
Answered(k, failed, ids) ==
  Wanted(Issue[k]) =>
    \A c \in ToSet(Calls) \ failed : c[2] = "pullrequest" => ToSet(DevReply[k][c]) \subseteq ids

WorkInv ==
  \A w \in Workers : search[w].at \in {"write", "report"} =>
    /\ IsSeq(Pulls(work[w].data)) /\ Ids(Pulls(work[w].data)) \subseteq ToSet(IdsInOrder) \cup {Empty}
    /\ Answered(search[w].issue, work[w].failed, Ids(Pulls(work[w].data)))

(* A pull request is announced once, and known from then on.               *)
PRInv ==
  /\ \A k, m \in Keys : \A i \in PRsIn(log[k]) : \A j \in PRsIn(log[m]) :
       log[k][i].what = log[m][j].what => k = m /\ i = j
  /\ \A k \in Keys : \A i \in PRsIn(log[k]) : log[k][i].what \in prs.seen
  /\ \A u \in prs.seen : \E k \in Keys : \E i \in PRsIn(log[k]) : log[k][i].what = u
  /\ IsFiniteSet(prs.seen) /\ prs.found = Cardinality(prs.seen)

(* An issue tells of an error exactly when there was one.                  *)
Tells(k, err, failed) ==
  (SaysIn(log[k], "failed") <=> err) /\ (SaysIn(log[k], "devstatus") <=> failed # {})

LogInv ==
  /\ \A k \in (Keys \ visited) \cup todo : Tells(k, FALSE, {})
  /\ \A w \in Workers : search[w].at \in Searching \cup {"done"} => Tells(search[w].issue, FALSE, {})
  /\ \A w \in Workers : search[w].at \in {"write", "report"} =>
       Tells(search[w].issue, ChildrenError(w), work[w].failed)

(* What became of the issues that are reported.                            *)
ResultSound(k, r) ==
  /\ Tells(k, r.parentErr \/ r.epicErr, r.failed)
  /\ Capable(k) => Settled /\ CutTo(r.children, FoundFor(k, r) \ {Empty})
  /\ ToSet(r.prs) \ {Empty} \subseteq prs.seen
  /\ Answered(k, r.failed, ToSet(r.prs))

ResultInv == \A k \in DOMAIN result : ResultSound(k, result[k])

(* The graph is that of the issues that are reported: FieldsOf and         *)
(* EdgesMade are FieldEdges and all edges of an issue with what became of  *)
(* it, so that old and new results can be compared.                        *)
FieldsOf(k, r) ==
       Pair(k, "parent", KeysOf(Issue[k].parent)) \cup Pair(k, "subtask", KeysOf(Issue[k].subtasks))
  \cup Pair(k, "child", r.children) \cup Pair(k, "link", KeysOf(Issue[k].links))
  \cup Pair(k, "remote", {Issue[k].remotes[j].url : j \in DOMAIN Issue[k].remotes})
  \cup Pair(k, "pull_request", {PRId(u, Empty) : u \in ToSet(r.prs)})

EdgesMade(k, r) == FieldsOf(k, r) \cup RefEdgesOf(k, FieldsOf(k, r), ToSet(Extract(Issue[k])))

GraphSound(g, reported) ==
  LET edges == UNION {EdgesMade(k, reported[k]) : k \in DOMAIN reported}
  IN  /\ IsGraph(g)
      /\ DOMAIN g.edges = edges
      /\ \A e \in edges : e[1] \in DOMAIN reported
      /\ DOMAIN g.nodes = DOMAIN reported \cup {e[2] : e \in edges}
      /\ \A x \in DOMAIN g.nodes : g.nodes[x].fetched <=> x \in DOMAIN reported
      /\ \A x \in DOMAIN g.nodes \cap Keys :
           g.nodes[x].meta = IF x \in DOMAIN reported THEN Issue[x].meta ELSE Empty

GraphInv == GraphSound(graph, result)

Inv == /\ TypeInv /\ OwnedInv /\ FieldInv /\ SearchInv /\ WorkInv
       /\ PRInv /\ LogInv /\ ResultInv /\ GraphInv

-----------------------------------------------------------------------------
(* A search gives at most as many keys as it was asked for.                *)
LEMMA FoundIs ==
  ASSUME NEW S, NEW s \in Seq(S)
  PROVE  Found(s) \in Seq(S)
<1> DEFINE n == Min({Len(s), Limit})
<1>1. Len(s) \in Nat /\ Limit \in Nat
  BY LimitIsPositive
<1>2. n \in 0 .. Len(s)
  BY <1>1, MinOfTwo
<1> HIDE DEF n
<1>3. SubSeq(s, 1, n) \in Seq(S)
  BY <1>2
<1> QED
  BY <1>3 DEF Found, n

(* A worker that writes or reports knows what it holds.                    *)
LEMMA HeldIsKnown ==
  ASSUME TypeInv, SearchInv, WorkInv, NEW w \in Workers, search[w].at = "report"
  PROVE  Known(w)
<1> DEFINE c == search[w]
           k == c.issue
<1>1. Held(w) /\ IsCall(c) /\ k \in Keys
  BY DEF Held, TypeInv, IsCall
<1>2. ToSet(IdsInOrder) \subseteq Urls
  <2>1. IdsInOrder \in Seq(Urls)
    BY PipelineAssumption
  <2> QED
    BY <2>1, SeqHas
<1>3. /\ IsSeq(Pulls(work[w].data)) /\ Ids(Pulls(work[w].data)) \subseteq Urls \cup {Empty}
  BY <1>2 DEF WorkInv
<1>4. IsFiniteSet(c.seen) /\ c.seen \subseteq Keys
  <2>1. CASE Capable(k)
    <3>1. CutTo(c.seen, FoundFor(k, c) \ {Empty})
      BY <1>1, <2>1 DEF SearchInv, SearchSound
    <3>2. FoundFor(k, c) \ {Empty} \subseteq Keys
      <4>1. \A s \in Seq(Keys \cup {Empty}) : ToSet(Found(s)) \subseteq Keys \cup {Empty}
        <5> SUFFICES ASSUME NEW s \in Seq(Keys \cup {Empty}) PROVE ToSet(Found(s)) \subseteq Keys \cup {Empty}
          OBVIOUS
        <5>1. Found(s) \in Seq(Keys \cup {Empty})
          BY FoundIs
        <5> QED
          BY <5>1, SeqHas
      <4>2. ParentSearch[k] \in Seq(Keys \cup {Empty}) /\ EpicSearch[k] \in Seq(Keys \cup {Empty})
        BY <1>1, PipelineAssumption
      <4>3. ToSet(Found(ParentSearch[k])) \subseteq Keys \cup {Empty} /\ ToSet(Found(EpicSearch[k])) \subseteq Keys \cup {Empty}
        BY <4>1, <4>2
      <4> DEFINE a == ToSet(Found(ParentSearch[k]))
                 b == ToSet(Found(EpicSearch[k]))
      <4>4. FoundFor(k, c) = (IF c.parentErr THEN {} ELSE a) \cup (IF c.epicErr \/ ~HasEpicField THEN {} ELSE b)
        BY DEF FoundFor
      <4> HIDE DEF a, b
      <4>5. FoundFor(k, c) \subseteq a \cup b
        BY <4>4
      <4> QED
        BY <4>3, <4>5 DEF a, b
    <3> QED
      BY <3>1, <3>2, FS_Subset DEF CutTo
  <2>2. CASE ~Capable(k)
    <3>1. c.seen = {}
      BY <1>1, <2>2 DEF SearchInv, SearchSound
    <3> QED
      BY <3>1, FS_EmptySet
  <2> QED
    BY <2>1, <2>2
<1> QED
  BY <1>1, <1>3, <1>4 DEF Known

-----------------------------------------------------------------------------
(* What the searches may ask of the field is decided once.                 *)
SameField == Settled => Settled' /\ (HasEpicField' <=> HasEpicField)

(* That is so when nobody touches the field.                               *)
LEMMA FieldUntouched ==
  ASSUME UNCHANGED field
  PROVE  SameField
BY DEF SameField, Settled, HasEpicField

(* The search of a worker that does not move stays sound.                  *)
LEMMA SoundStays ==
  ASSUME SearchInv, NEW v \in Workers, Held(v), SameField, search'[v] = search[v]
  PROVE  SearchSound(search[v])'
<1> DEFINE c == search[v]
<1>1. SearchSound(c)
  BY DEF SearchInv
<1>2. Settled => FoundFor(c.issue, c)' = FoundFor(c.issue, c)
  BY DEF SameField, FoundFor
<1>3. FoundByParent(c)' = FoundByParent(c)
  BY DEF FoundByParent
<1> QED
  BY <1>1, <1>2, <1>3 DEF SearchSound, SameField, Capable

(* What became of a reported issue stays as it was.                        *)
LEMMA ResultStays ==
  ASSUME ResultInv, NEW k \in DOMAIN result, SameField, result'[k] = result[k], log'[k] = log[k],
         prs.seen \subseteq prs'.seen
  PROVE  ResultSound(k, result[k])'
<1> DEFINE r == result[k]
<1>1. ResultSound(k, r)
  BY DEF ResultInv
<1>2. Settled => FoundFor(k, r)' = FoundFor(k, r)
  BY DEF SameField, FoundFor
<1>3. Tells(k, r.parentErr \/ r.epicErr, r.failed)'
  BY <1>1 DEF ResultSound, Tells, SaysIn
<1>4. (ToSet(r.prs) \ {Empty})' \subseteq prs'.seen
  BY <1>1 DEF ResultSound
<1>5. Answered(k, r.failed, ToSet(r.prs))'
  BY <1>1 DEF ResultSound, Answered
<1>6. Capable(k) => Settled' /\ CutTo(r.children, FoundFor(k, r) \ {Empty})'
  BY <1>1, <1>2 DEF ResultSound, SameField
<1> QED
  BY <1>3, <1>4, <1>5, <1>6 DEF ResultSound, Capable

(* The graph stays sound when nobody touches it.                           *)
LEMMA GraphStays ==
  ASSUME GraphInv, UNCHANGED <<graph, result>>
  PROVE  GraphInv'
BY DEF GraphInv

(* An announcement is where it was, and says what it said.                 *)
LEMMA ToldHas ==
  ASSUME TypeInv, NEW k \in Keys, NEW more, Told(k, more)
  PROVE  /\ IsSeq(log'[k]) /\ DOMAIN log[k] \subseteq DOMAIN log'[k]
         /\ \A i \in DOMAIN log[k] : log'[k][i] = log[k][i]
         /\ \A i \in DOMAIN log'[k] \ DOMAIN log[k] :
              i - Len(log[k]) \in DOMAIN more /\ log'[k][i] = more[i - Len(log[k])]
         /\ \A j \in DOMAIN more : Len(log[k]) + j \in DOMAIN log'[k] \ DOMAIN log[k]
                                   /\ log'[k][Len(log[k]) + j] = more[j]
         /\ \A kind : SaysIn(log'[k], kind) <=> SaysIn(log[k], kind) \/ SaysIn(more, kind)
<1> DEFINE s == log[k]
           t == log'[k]
<1>1. t = s \o more /\ IsSeq(s) /\ IsSeq(more)
  BY DEF Told, TypeInv
<1> HIDE DEF s, t
<1>2. /\ Len(s) \in Nat /\ DOMAIN s = 1 .. Len(s) /\ Len(more) \in Nat /\ DOMAIN more = 1 .. Len(more)
  BY <1>1, Sequence
<1>3. /\ IsSeq(t) /\ DOMAIN t = 1 .. Len(s) + Len(more)
      /\ \A i \in 1 .. Len(s) : t[i] = s[i]
      /\ \A i \in 1 .. Len(more) : t[Len(s) + i] = more[i]
      /\ \A i \in 1 .. Len(s) + Len(more) : i \notin 1 .. Len(s) => i - Len(s) \in 1 .. Len(more) /\ t[i] = more[i - Len(s)]
  BY <1>1, JoinHas
<1>4. \A kind : SaysIn(t, kind) <=> SaysIn(s, kind) \/ SaysIn(more, kind)
  BY <1>1, SaysJoined
<1>5. \A j \in DOMAIN more : Len(s) + j \in 1 .. Len(s) + Len(more) /\ Len(s) + j \notin 1 .. Len(s)
  BY <1>2
<1>6. DOMAIN s \subseteq DOMAIN t /\ \A i \in DOMAIN s : t[i] = s[i]
  BY <1>2, <1>3
<1>7. \A i \in DOMAIN t \ DOMAIN s : i - Len(s) \in DOMAIN more /\ t[i] = more[i - Len(s)]
  BY <1>2, <1>3
<1>8. \A j \in DOMAIN more : Len(s) + j \in DOMAIN t \ DOMAIN s /\ t[Len(s) + j] = more[j]
  BY <1>2, <1>3, <1>5
<1> QED
  BY <1>3, <1>4, <1>6, <1>7, <1>8 DEF s, t

(* The events of an issue stay a sequence.                                 *)
LEMMA LogTyped ==
  ASSUME TypeInv, NEW k \in Keys, NEW more, Told(k, more)
  PROVE  log' = [j \in Keys |-> log'[j]] /\ \A j \in Keys : IsSeq(log'[j])
<1>1. IsSeq(log'[k])
  BY ToldHas
<1> QED
  BY <1>1 DEF Told, TypeInv

(* What is no announcement of a pull request changes nothing.              *)
LEMMA PRsStay ==
  ASSUME TypeInv, PRInv, NEW k \in Keys, NEW more, Told(k, more), ~SaysIn(more, "pr"), UNCHANGED prs
  PROVE  PRInv'
<1>1. \A i \in DOMAIN more : more[i].kind # "pr"
  BY DEF SaysIn
<1>2. PRsIn(log'[k]) = PRsIn(log[k]) /\ \A i \in PRsIn(log[k]) : log'[k][i] = log[k][i]
  <2>1. /\ DOMAIN log[k] \subseteq DOMAIN log'[k]
        /\ \A i \in DOMAIN log[k] : log'[k][i] = log[k][i]
        /\ \A i \in DOMAIN log'[k] \ DOMAIN log[k] :
              i - Len(log[k]) \in DOMAIN more /\ log'[k][i] = more[i - Len(log[k])]
    BY ToldHas
  <2>2. ASSUME NEW i \in DOMAIN log'[k] \ DOMAIN log[k] PROVE log'[k][i].kind # "pr"
    <3> DEFINE at == i - Len(log[k])
    <3>1. at \in DOMAIN more /\ log'[k][i] = more[at]
      BY <2>1
    <3> HIDE DEF at
    <3> QED
      BY <1>1, <3>1
  <2> QED
    BY <2>1, <2>2 DEF PRsIn
<1>3. \A j \in Keys : PRsIn(log'[j]) = PRsIn(log[j]) /\ \A i \in PRsIn(log[j]) : log'[j][i] = log[j][i]
  BY <1>2 DEF Told
<1>4. \A j, m \in Keys : \A i \in PRsIn(log'[j]) : \A h \in PRsIn(log'[m]) :
        log'[j][i].what = log'[m][h].what => j = m /\ i = h
  BY <1>3 DEF PRInv
<1>5. \A j \in Keys : \A i \in PRsIn(log'[j]) : log'[j][i].what \in prs.seen
  BY <1>3 DEF PRInv
<1>6. \A u \in prs.seen : \E j \in Keys : \E i \in PRsIn(log'[j]) : log'[j][i].what = u
  <2> SUFFICES ASSUME NEW u \in prs.seen PROVE \E j \in Keys : \E i \in PRsIn(log'[j]) : log'[j][i].what = u
    OBVIOUS
  <2>1. PICK j \in Keys : \E i \in PRsIn(log[j]) : log[j][i].what = u
    BY DEF PRInv
  <2> QED
    BY <1>3, <2>1
<1> QED
  BY <1>4, <1>5, <1>6 DEF PRInv

-----------------------------------------------------------------------------
(* Taking an issue keeps the invariant.                                    *)
LEMMA TakeKeeps ==
  ASSUME Inv, NEW w \in Workers, Take(w)
  PROVE  Inv'
<1>1. PICK k, h :
         /\ k \in todo
         /\ todo' = todo \ {k} /\ Moves(w, h) /\ IsCall(h) /\ h.issue = k
         /\ h.at = (IF Capable(k) THEN "parent" ELSE "done")
         /\ h.seen = {} /\ ~h.parentErr /\ ~h.epicErr
  BY TakeIs DEF Inv, Capable
<1>2. search[w].at = "idle" /\ UNCHANGED <<field, visited, graph, prs, log, work, result>>
  BY DEF Take
<1>3. k \in Keys /\ k \in visited
  BY <1>1 DEF Inv, TypeInv
<1>4. /\ search' = [v \in Workers |-> search'[v]] /\ search'[w] = h
      /\ \A v \in Workers \ {w} : search'[v] = search[v]
  BY <1>1 DEF Moves
<1>5. h.at \in {"parent", "done"}
  BY <1>1
<1>6. TypeInv'
  BY <1>1, <1>2, <1>4 DEF Inv, TypeInv, Held
<1>7. OwnedInv'
  <2>1. \A v \in Workers \ {w} : Held(v) => search[v].issue \notin todo
    BY DEF Inv, OwnedInv
  <2>2. k \notin DOMAIN result
    BY <1>1 DEF Inv, OwnedInv
  <2>3. ASSUME NEW v \in Workers, Held(v)'
        PROVE  search'[v].issue \in visited' \ todo' /\ search'[v].issue \notin DOMAIN result'
    BY <1>1, <1>2, <1>3, <1>4, <2>2, <2>3 DEF Inv, OwnedInv, Held
  <2>4. ASSUME NEW u \in Workers, NEW v \in Workers, Held(u)', Held(v)', search'[u].issue = search'[v].issue
        PROVE  u = v
    BY <1>1, <1>4, <2>1, <2>4 DEF Inv, OwnedInv, Held
  <2>5. DOMAIN result' \subseteq visited' \ todo'
    BY <1>1, <1>2 DEF Inv, OwnedInv
  <2> QED
    BY <2>3, <2>4, <2>5 DEF OwnedInv
<1>8. FieldInv'
  <2>1. \A v \in Workers : search'[v].at = "lookup" => v # w /\ search[v].at = "lookup"
    BY <1>4, <1>5
  <2> QED
    BY <1>2, <2>1 DEF Inv, FieldInv
<1>9. SameField
  BY <1>2, FieldUntouched
<1>10. SearchInv'
  <2>1. SearchSound(search[w])'
    <3>1. SearchSound(h)
      BY <1>1 DEF SearchSound
    <3> QED
      BY <1>1, <1>4, <1>5 DEF SearchSound, Capable
  <2>2. ASSUME NEW v \in Workers \ {w}, Held(v)' PROVE SearchSound(search[v])'
    BY <1>4, <1>9, <2>2, SoundStays DEF Inv, Held
  <2> QED
    BY <2>1, <2>2 DEF SearchInv
<1>11. WorkInv'
  BY <1>1, <1>2, <1>4, <1>5 DEF Inv, WorkInv
<1>12. PRInv'
  BY <1>2 DEF Inv, PRInv
<1>13. LogInv'
  <2>1. \A j \in (Keys \ visited) \cup todo : Tells(j, FALSE, {})
    BY DEF Inv, LogInv
  <2>2. ASSUME NEW j \in (Keys \ visited') \cup todo' PROVE Tells(j, FALSE, {})'
    BY <1>1, <1>2, <2>1 DEF Tells
  <2>3. ASSUME NEW v \in Workers, search'[v].at \in Searching \cup {"done"}
        PROVE  Tells(search[v].issue, FALSE, {})'
    BY <1>1, <1>2, <1>4, <2>1, <2>3 DEF Inv, LogInv, Tells
  <2>4. ASSUME NEW v \in Workers, search'[v].at \in {"write", "report"}
        PROVE  Tells(search[v].issue, ChildrenError(v), work[v].failed)'
    BY <1>2, <1>4, <1>5, <2>4 DEF Inv, LogInv, Tells, ChildrenError
  <2> QED
    BY <2>2, <2>3, <2>4 DEF LogInv
<1>14. ResultInv'
  BY <1>2, <1>9, ResultStays DEF Inv, ResultInv
<1>15. GraphInv'
  BY <1>2, GraphStays DEF Inv
<1> QED
  BY <1>6, <1>7, <1>8, <1>10, <1>11, <1>12, <1>13, <1>14, <1>15 DEF Inv

(* Nothing found gives no children.                                        *)
LEMMA NothingFound == CutTo({}, {})
<1>1. IsFiniteSet({}) /\ Cardinality({}) = 0
  BY FS_EmptySet
<1>2. Min({Limit, 0}) = 0
  BY LimitIsPositive, MinOfTwo
<1> QED
  BY <1>1, <1>2 DEF CutTo

(* A search finds a sequence.                                              *)
LEMMA SearchesAre ==
  ASSUME NEW k \in Keys
  PROVE  IsSeq(Found(ParentSearch[k])) /\ IsSeq(Found(EpicSearch[k]))
<1>1. ParentSearch[k] \in Seq(Keys \cup {Empty}) /\ EpicSearch[k] \in Seq(Keys \cup {Empty})
  BY PipelineAssumption
<1>2. Found(ParentSearch[k]) \in Seq(Keys \cup {Empty}) /\ Found(EpicSearch[k]) \in Seq(Keys \cup {Empty})
  BY <1>1, FoundIs
<1> QED
  BY <1>2 DEF IsSeq

(* Without an Epic Link field only the first search counts.                *)
LEMMA FoundWithoutEpic ==
  ASSUME NEW c, ~c.epicErr, ~HasEpicField
  PROVE  FoundFor(c.issue, c) \ {Empty} = FoundByParent(c)
BY DEF FoundFor, FoundByParent

(* Where a worker goes from the field, and what it has found by then.      *)
LEMMA AfterResolveIs ==
  ASSUME NEW c, Capable(c.issue), ~c.epicErr, CutTo(c.seen, FoundByParent(c)),
         NEW id, c.at = AfterResolve(id), Settled, HasEpicField <=> id # Empty
  PROVE  SearchSound(c)
<1>1. CASE id = Empty
  <2>1. c.at = "done"
    BY <1>1 DEF AfterResolve
  <2>2. FoundFor(c.issue, c) \ {Empty} = FoundByParent(c)
    BY <1>1, FoundWithoutEpic
  <2> QED
    BY <2>1, <2>2 DEF SearchSound
<1>2. CASE id # Empty
  <2>1. c.at = "epic"
    BY <1>2 DEF AfterResolve
  <2> QED
    BY <1>2, <2>1 DEF SearchSound
<1> QED
  BY <1>1, <1>2

(* A step that does not concern the lookup keeps what holds of it.         *)
LEMMA LookupsStay ==
  ASSUME FieldInv, NEW w \in Workers, NEW h, Moves(w, h), h.at # "lookup", UNCHANGED field
  PROVE  FieldInv'
<1>1. \A v \in Workers : search'[v].at = "lookup" => search[v].at = "lookup"
  BY DEF Moves
<1> QED
  BY <1>1 DEF FieldInv

(* After the first search the children are those it found.                 *)
LEMMA SearchParentFinds ==
  ASSUME Inv, NEW w \in Workers, SearchParent(w)
  PROVE  FieldInv' /\ SameField /\ SearchSound(search[w])'
<1> DEFINE c == search[w]
           k == c.issue
           keys == Found(ParentSearch[k])
<1>1. c.at = "parent" /\ Held(w) /\ UNCHANGED field /\ IsCall(c) /\ k \in Keys
  BY SearchParentIs DEF Held, Inv, TypeInv, IsCall
<1>2. PICK h :
        /\ Moves(w, h) /\ IsCall(h) /\ h.issue = k /\ h.at = "resolve"
        /\ h.epicErr = c.epicErr
        /\ \/ h.parentErr = c.parentErr /\ h.seen = AddKeys(c.seen, keys)
           \/ h.parentErr /\ h.seen = c.seen
  BY SearchParentIs DEF Inv
<1>3. Capable(k) /\ c.seen = {} /\ ~c.parentErr /\ ~c.epicErr
  BY <1>1 DEF Inv, SearchInv, SearchSound
<1>4. CutTo(h.seen, FoundByParent(h))
  <2>1. CASE ~h.parentErr /\ h.seen = AddKeys({}, keys)
    <3>1. CutTo(AddKeys({}, keys), {} \cup (ToSet(keys) \ {Empty}))
      BY <1>1, NothingFound, SearchesAre, AddKeysHas
    <3>2. FoundByParent(h) = {} \cup (ToSet(keys) \ {Empty})
      BY <1>2, <2>1 DEF FoundByParent
    <3> QED
      BY <2>1, <3>1, <3>2
  <2>2. CASE h.parentErr /\ h.seen = {}
    <3>1. FoundByParent(h) = {}
      BY <2>2 DEF FoundByParent
    <3> QED
      BY <2>2, <3>1, NothingFound
  <2> QED
    BY <1>2, <1>3, <2>1, <2>2
<1>5. SearchSound(h)
  BY <1>2, <1>3, <1>4 DEF SearchSound
<1>6. search'[w] = h
  BY <1>2 DEF Moves
<1>7. SearchSound(search[w])'
  BY <1>2, <1>3, <1>4, <1>6 DEF SearchSound, Capable, FoundByParent
<1>8. FieldInv'
  BY <1>1, <1>2, LookupsStay DEF Inv
<1> QED
  BY <1>1, <1>7, <1>8, FieldUntouched

(* After the second search the children are those both found.              *)
LEMMA SearchEpicFinds ==
  ASSUME Inv, NEW w \in Workers, SearchEpic(w)
  PROVE  FieldInv' /\ SameField /\ SearchSound(search[w])'
<1> DEFINE c == search[w]
           k == c.issue
           keys == Found(EpicSearch[k])
<1>1. c.at = "epic" /\ Held(w) /\ UNCHANGED field /\ IsCall(c) /\ k \in Keys
  BY SearchEpicIs DEF Held, Inv, TypeInv, IsCall
<1>2. PICK h :
        /\ Moves(w, h) /\ IsCall(h) /\ h.issue = k /\ h.at = "done"
        /\ h.parentErr = c.parentErr
        /\ \/ h.epicErr = c.epicErr /\ h.seen = AddKeys(c.seen, keys)
           \/ h.epicErr /\ h.seen = c.seen
  BY SearchEpicIs DEF Inv
<1>3. Capable(k) /\ ~c.epicErr /\ CutTo(c.seen, FoundByParent(c)) /\ Settled /\ HasEpicField
  BY <1>1 DEF Inv, SearchInv, SearchSound
<1>4. CutTo(h.seen, FoundFor(k, h) \ {Empty})
  <2>1. FoundByParent(h) = FoundByParent(c)
    BY <1>2 DEF FoundByParent
  <2>2. CASE ~h.epicErr /\ h.seen = AddKeys(c.seen, keys)
    <3>1. CutTo(AddKeys(c.seen, keys), FoundByParent(c) \cup (ToSet(keys) \ {Empty}))
      BY <1>1, <1>3, SearchesAre, AddKeysHas
    <3>2. FoundFor(k, h) \ {Empty} = FoundByParent(h) \cup (ToSet(keys) \ {Empty})
      BY <1>2, <1>3, <2>2 DEF FoundByParent, FoundFor
    <3> QED
      BY <2>1, <2>2, <3>1, <3>2
  <2>3. CASE h.epicErr /\ h.seen = c.seen
    <3>1. FoundFor(k, h) \ {Empty} = FoundByParent(h)
      BY <1>2, <2>3 DEF FoundByParent, FoundFor
    <3> QED
      BY <1>3, <2>1, <2>3, <3>1
  <2> QED
    BY <1>2, <1>3, <2>2, <2>3
<1>5. search'[w] = h
  BY <1>2 DEF Moves
<1>6. Settled'
  BY <1>1, <1>3 DEF Settled
<1>7. SearchSound(search[w])'
  <2>1. (FoundFor(search[w].issue, search[w]) \ {Empty})' = FoundFor(k, h) \ {Empty}
    BY <1>1, <1>2, <1>5, <1>6 DEF FoundFor, HasEpicField
  <2> QED
    BY <1>2, <1>3, <1>4, <1>5, <1>6, <2>1 DEF SearchSound, Capable
<1>8. FieldInv'
  BY <1>1, <1>2, LookupsStay DEF Inv
<1> QED
  BY <1>1, <1>7, <1>8, FieldUntouched

(* A worker that finds the field looked up goes on with what was found.    *)
LEMMA ResolveKnownFinds ==
  ASSUME Inv, NEW w \in Workers, ResolveKnown(w)
  PROVE  FieldInv' /\ SameField /\ SearchSound(search[w])'
<1> DEFINE c == search[w]
<1>1. c.at = "resolve" /\ Held(w) /\ UNCHANGED field
  BY ResolveKnownIs DEF Held, Inv
<1>2. PICK h : /\ Stays(w, h)
               /\ \/ EpicLinkField # Empty /\ h.at = "epic"
                  \/ EpicLinkField = Empty /\ field.once = "done" /\ h.at = AfterResolve(field.id)
  BY ResolveKnownIs DEF Inv
<1>3. Capable(c.issue) /\ ~c.epicErr /\ CutTo(c.seen, FoundByParent(c))
  BY <1>1 DEF Inv, SearchInv, SearchSound
<1>4. h.issue = c.issue /\ h.seen = c.seen /\ h.parentErr = c.parentErr /\ h.epicErr = c.epicErr
  BY <1>2 DEF Stays
<1>5. Capable(h.issue) /\ ~h.epicErr /\ CutTo(h.seen, FoundByParent(h))
  BY <1>3, <1>4 DEF FoundByParent
<1>6. SearchSound(h)
  <2>1. CASE EpicLinkField # Empty /\ h.at = "epic"
    BY <1>5, <2>1 DEF SearchSound, Settled, HasEpicField
  <2>2. CASE EpicLinkField = Empty /\ field.once = "done" /\ h.at = AfterResolve(field.id)
    <3>1. Settled /\ (HasEpicField <=> field.id # Empty)
      BY <2>2 DEF Inv, FieldInv, Settled, HasEpicField
    <3> QED
      BY <1>5, <2>2, <3>1, AfterResolveIs
  <2> QED
    BY <1>2, <2>1, <2>2
<1>7. search'[w] = h /\ Moves(w, h)
  BY <1>2 DEF Moves, Stays
<1>8. SearchSound(search[w])'
  BY <1>1, <1>6, <1>7 DEF SearchSound, Capable, FoundByParent, FoundFor, HasEpicField, Settled
<1>9. h.at # "lookup"
  BY <1>2 DEF AfterResolve
<1>10. FieldInv'
  BY <1>1, <1>7, <1>9, LookupsStay DEF Inv
<1> QED
  BY <1>1, <1>8, <1>10, FieldUntouched

(* Only one worker looks the field up.                                     *)
LEMMA StartLookupFinds ==
  ASSUME Inv, NEW w \in Workers, StartLookup(w)
  PROVE  FieldInv' /\ SameField /\ SearchSound(search[w])'
<1> DEFINE c == search[w]
<1>1. c.at = "resolve" /\ Held(w) /\ EpicLinkField = Empty /\ field.once = "new"
  BY StartLookupIs DEF Held, Inv
<1>2. field'.once = "running" /\ field'.id = field.id /\ field'.failed = field.failed
  <2> DEFINE new == [field EXCEPT !.once = "running"]
  <2>1. new = [once |-> "running", id |-> field.id, failed |-> field.failed]
    BY DEF Inv, TypeInv
  <2> HIDE DEF new
  <2>2. field' = new
    BY StartLookupIs DEF Inv, new
  <2> QED
    BY <2>1, <2>2
<1>3. PICK h : Stays(w, h) /\ h.at = "lookup"
  BY StartLookupIs DEF Inv
<1>4. Capable(c.issue) /\ ~c.epicErr /\ CutTo(c.seen, FoundByParent(c))
  BY <1>1 DEF Inv, SearchInv, SearchSound
<1>5. h.issue = c.issue /\ h.seen = c.seen /\ h.parentErr = c.parentErr /\ h.epicErr = c.epicErr
  BY <1>3 DEF Stays
<1>6. search'[w] = h /\ \A v \in Workers \ {w} : search'[v] = search[v]
  BY <1>3 DEF Moves, Stays
<1>7. SearchSound(search[w])'
  BY <1>3, <1>4, <1>5, <1>6 DEF SearchSound, Capable, FoundByParent
<1>8. \A v \in Workers : search[v].at # "lookup"
  BY <1>1 DEF Inv, FieldInv
<1>9. FieldInv'
  BY <1>1, <1>2, <1>6, <1>8 DEF FieldInv
<1>10. SameField
  BY <1>1 DEF SameField, Settled
<1> QED
  BY <1>7, <1>9, <1>10

(* The lookup settles the field, and what it gives is what every later     *)
(* issue finds.                                                            *)
LEMMA FinishLookupFinds ==
  ASSUME Inv, NEW w \in Workers, FinishLookup(w)
  PROVE  FieldInv' /\ SameField /\ SearchSound(search[w])'
<1> DEFINE c == search[w]
<1>1. c.at = "lookup" /\ Held(w)
  BY FinishLookupIs DEF Held, Inv
<1>2. EpicLinkField = Empty /\ field.once = "running"
  BY <1>1 DEF Inv, FieldInv
<1>3. /\ field'.once = "done"
      /\ \/ field'.id = TenantField /\ ~field'.failed
         \/ field'.id = Empty /\ field'.failed
  <2>1. \/ field' = [once |-> "done", id |-> TenantField, failed |-> FALSE]
        \/ field' = [once |-> "done", id |-> Empty, failed |-> TRUE]
    BY FinishLookupIs DEF Inv
  <2>2. PICK yes, no : yes = TRUE /\ no = FALSE
    OBVIOUS
  <2>3. \/ field' = [once |-> "done", id |-> TenantField, failed |-> no]
        \/ field' = [once |-> "done", id |-> Empty, failed |-> yes]
    BY <2>1, <2>2
  <2>4. \/ field'.once = "done" /\ field'.id = TenantField /\ field'.failed = no
        \/ field'.once = "done" /\ field'.id = Empty /\ field'.failed = yes
    BY <2>3
  <2> QED
    BY <2>2, <2>4
<1>4. PICK h : Stays(w, h) /\ h.at = AfterResolve(field'.id)
  BY FinishLookupIs DEF Inv
<1>5. Capable(c.issue) /\ ~c.epicErr /\ CutTo(c.seen, FoundByParent(c))
  BY <1>1 DEF Inv, SearchInv, SearchSound
<1>6. h.issue = c.issue /\ h.seen = c.seen /\ h.parentErr = c.parentErr /\ h.epicErr = c.epicErr
  BY <1>4 DEF Stays
<1>7. search'[w] = h /\ \A v \in Workers \ {w} : search'[v] = search[v]
  BY <1>4 DEF Moves, Stays
<1>8. Settled' /\ (HasEpicField' <=> field'.id # Empty)
  BY <1>2, <1>3 DEF Settled, HasEpicField
<1>9. SearchSound(search[w])'
  <2>1. FoundByParent(search[w])' = FoundByParent(c)
    BY <1>6, <1>7 DEF FoundByParent
  <2>2. CASE field'.id = Empty
    <3>1. h.at = "done" /\ ~HasEpicField'
      BY <1>4, <1>8, <2>2 DEF AfterResolve
    <3>2. (FoundFor(search[w].issue, search[w]) \ {Empty})' = FoundByParent(search[w])'
      BY <1>5, <1>6, <1>7, <3>1 DEF FoundFor, FoundByParent
    <3> QED
      BY <1>5, <1>6, <1>7, <1>8, <2>1, <3>1, <3>2 DEF SearchSound, Capable
  <2>3. CASE field'.id # Empty
    <3>1. h.at = "epic" /\ HasEpicField'
      BY <1>4, <1>8, <2>3 DEF AfterResolve
    <3> QED
      BY <1>5, <1>6, <1>7, <1>8, <2>1, <3>1 DEF SearchSound, Capable
  <2> QED
    BY <2>2, <2>3
<1>10. \A v \in Workers : search'[v].at # "lookup"
  <2>1. h.at # "lookup"
    BY <1>4 DEF AfterResolve
  <2> QED
    BY <1>1, <1>7, <2>1 DEF Inv, FieldInv
<1>11. FieldInv'
  BY <1>3, <1>10 DEF FieldInv
<1>12. SameField
  BY <1>2 DEF SameField, Settled
<1> QED
  BY <1>9, <1>11, <1>12

(* A worker that only goes on keeps its issue.                             *)
LEMMA OwnerGoesOn ==
  ASSUME OwnedInv, NEW w \in Workers, Held(w), NEW h, Moves(w, h), h.issue = search[w].issue,
         UNCHANGED <<todo, visited, result>>
  PROVE  OwnedInv'
<1>1. \A v \in Workers : Held(v)' => Held(v) /\ search'[v].issue = search[v].issue
  BY DEF Moves, Held
<1> QED
  BY <1>1 DEF OwnedInv

(* The others' searches are what they were.                                *)
LEMMA OthersGoOn ==
  ASSUME SearchInv, SameField, NEW w \in Workers, NEW h, Moves(w, h), SearchSound(search[w])'
  PROVE  SearchInv'
<1>1. ASSUME NEW v \in Workers \ {w}, Held(v)' PROVE SearchSound(search[v])'
  BY <1>1, SoundStays DEF Moves, Held
<1> QED
  BY <1>1 DEF SearchInv

(* Every step of the discovery keeps what holds of the field and of the    *)
(* search.                                                                 *)
LEMMA DiscoverFinds ==
  ASSUME Inv, NEW w \in Workers, Discover(w)
  PROVE  FieldInv' /\ SameField /\ SearchSound(search[w])'
BY SearchParentFinds, SearchEpicFinds, ResolveKnownFinds, StartLookupFinds, FinishLookupFinds
   DEF Discover, Children

(* A step of the discovery keeps the invariant.                            *)
LEMMA DiscoverKeeps ==
  ASSUME Inv, NEW w \in Workers, Discover(w)
  PROVE  Inv'
<1>1. /\ UNCHANGED <<todo, visited, graph, prs, log, work, result>> /\ search[w].at \in Searching
      /\ field' = [once |-> field'.once, id |-> field'.id, failed |-> field'.failed]
      /\ field'.failed \in BOOLEAN
  BY DiscoverIs DEF Inv
<1>2. PICK h : Moves(w, h) /\ IsCall(h) /\ h.issue = search[w].issue /\ h.at \in Searching \cup {"done"}
  BY DiscoverIs DEF Inv
<1>3. Held(w)
  BY <1>1 DEF Held, Searching
<1>4. FieldInv' /\ SameField /\ SearchSound(search[w])'
  BY DiscoverFinds
<1>5. /\ search' = [v \in Workers |-> search'[v]] /\ search'[w] = h
      /\ \A v \in Workers \ {w} : search'[v] = search[v]
  BY <1>2 DEF Moves
<1>6. TypeInv'
  BY <1>1, <1>2, <1>5 DEF Inv, TypeInv, Held
<1>7. OwnedInv'
  BY <1>1, <1>2, <1>3, OwnerGoesOn DEF Inv
<1>8. SearchInv'
  BY <1>2, <1>4, OthersGoOn DEF Inv
<1>9. WorkInv'
  <2>1. \A v \in Workers : search'[v].at \in {"write", "report"} => search'[v] = search[v]
    BY <1>2, <1>5 DEF Searching
  <2> QED
    BY <1>1, <2>1 DEF Inv, WorkInv
<1>10. PRInv'
  BY <1>1 DEF Inv, PRInv
<1>11. LogInv'
  <2>1. ASSUME NEW k \in (Keys \ visited') \cup todo' PROVE Tells(k, FALSE, {})'
    BY <1>1, <2>1 DEF Inv, LogInv, Tells
  <2>2. ASSUME NEW v \in Workers, search'[v].at \in Searching \cup {"done"}
        PROVE  Tells(search[v].issue, FALSE, {})'
    BY <1>1, <1>2, <1>5, <2>2 DEF Inv, LogInv, Tells
  <2>3. ASSUME NEW v \in Workers, search'[v].at \in {"write", "report"}
        PROVE  Tells(search[v].issue, ChildrenError(v), work[v].failed)'
    <3>1. search'[v] = search[v]
      BY <1>2, <1>5, <2>3 DEF Searching
    <3> QED
      BY <1>1, <2>3, <3>1 DEF Inv, LogInv, Tells, ChildrenError
  <2> QED
    BY <2>1, <2>2, <2>3 DEF LogInv
<1>12. ResultInv'
  BY <1>1, <1>4, ResultStays DEF Inv, ResultInv
<1>13. GraphInv'
  BY <1>1, GraphStays DEF Inv
<1> QED
  BY <1>4, <1>6, <1>7, <1>8, <1>9, <1>10, <1>11, <1>12, <1>13 DEF Inv

-----------------------------------------------------------------------------
(* The issue a worker holds is nobody else's, and is not reported.         *)
LEMMA OnlyHolder ==
  ASSUME Inv, NEW w \in Workers, Held(w)
  PROVE  LET k == search[w].issue
         IN  /\ k \in Keys /\ k \notin DOMAIN result /\ k \notin (Keys \ visited) \cup todo
             /\ DOMAIN result \subseteq Keys
             /\ \A v \in Workers \ {w} : Held(v) => search[v].issue # k /\ search[v].issue \in Keys
BY DEF Inv, OwnedInv, TypeInv, IsCall

(* What is told of an issue tells nothing new of another one.              *)
LEMMA OthersTell ==
  ASSUME NEW k, NEW more, Told(k, more), NEW j \in Keys \ {k}, NEW err, NEW failed, Tells(j, err, failed)
  PROVE  Tells(j, err, failed)'
<1>1. log'[j] = log[j]
  BY DEF Told
<1> QED
  BY <1>1 DEF Tells

(* The reported issues do not change while another one is worked on.       *)
LEMMA ResultsStay ==
  ASSUME Inv, NEW w \in Workers, Held(w), NEW more, Told(search[w].issue, more),
         UNCHANGED <<field, prs, result>>
  PROVE  ResultInv'
<1>1. SameField
  BY FieldUntouched
<1>2. ASSUME NEW k \in DOMAIN result PROVE ResultSound(k, result[k])'
  <2>1. k \in Keys \ {search[w].issue}
    BY OnlyHolder
  <2>2. log'[k] = log[k]
    BY <2>1 DEF Told
  <2> QED
    BY <1>1, <2>2, ResultStays DEF Inv
<1> QED
  BY <1>2 DEF ResultInv

(* The enrichment keeps the invariant.                                     *)
LEMMA EnrichIssueKeeps ==
  ASSUME Inv, NEW w \in Workers, EnrichIssue(w)
  PROVE  Inv'
<1> DEFINE c == search[w]
           k == c.issue
<1>1. /\ UNCHANGED <<field, todo, visited, graph, prs, result>> /\ c.at = "done" /\ k \in Keys /\ Held(w)
      /\ work' = [v \in Workers |-> work'[v]] /\ \A v \in Workers \ {w} : work'[v] = work[v]
  BY EnrichIssueIs DEF Inv, Held
<1>2. PICK h : Stays(w, h) /\ h.at = "write"
  BY EnrichIssueIs DEF Inv
<1>3. PICK failed :
        /\ failed # {} => Wanted(Issue[k])
        /\ work'[w].failed = failed
        /\ work'[w].data = Enrich(Issue[k], DevReply[k], failed).data
  BY EnrichIssueIs DEF Inv
<1>4. PICK more :
        /\ Told(k, more)
        /\ \A i \in DOMAIN more : more[i].kind \in {"failed", "devstatus"}
        /\ SaysIn(more, "failed") <=> c.parentErr \/ c.epicErr
        /\ SaysIn(more, "devstatus") <=> work'[w].failed # {}
  BY EnrichIssueIs DEF Inv
<1>5. /\ h.issue = k /\ h.seen = c.seen /\ h.parentErr = c.parentErr /\ h.epicErr = c.epicErr
      /\ IsCall(h) /\ Moves(w, h)
  BY <1>2 DEF Stays
<1>6. /\ search' = [v \in Workers |-> search'[v]] /\ search'[w] = h
      /\ \A v \in Workers \ {w} : search'[v] = search[v]
  BY <1>5 DEF Moves
<1>7. SameField
  BY <1>1, FieldUntouched
<1>8. TypeInv'
  <2>1. log' = [j \in Keys |-> log'[j]] /\ \A j \in Keys : IsSeq(log'[j])
    BY <1>1, <1>4, LogTyped DEF Inv
  <2> QED
    BY <1>1, <1>5, <1>6, <2>1 DEF Inv, TypeInv, Held
<1>9. OwnedInv'
  BY <1>1, <1>5, OwnerGoesOn DEF Inv
<1>10. FieldInv'
  BY <1>1, <1>2, <1>5, LookupsStay DEF Inv
<1>11. SearchInv'
  <2>1. SearchSound(c)
    BY <1>1 DEF Inv, SearchInv
  <2>2. FoundFor(search[w].issue, search[w])' = FoundFor(k, c)
    BY <1>1, <1>5, <1>6 DEF FoundFor, HasEpicField
  <2>3. SearchSound(search[w])'
    BY <1>1, <1>2, <1>5, <1>6, <2>1, <2>2 DEF SearchSound, Capable, Settled
  <2> QED
    BY <1>5, <1>7, <2>3, OthersGoOn DEF Inv
<1>12. WorkInv'
  <2> DEFINE e == Enrich(Issue[k], DevReply[k], failed)
             data == e.data
  <2>1. /\ IsSeq(Pulls(data)) /\ Ids(Pulls(data)) \subseteq ToSet(IdsInOrder) \cup {Empty}
        /\ Answered(k, failed, Ids(Pulls(data)))
    BY <1>1, EnrichHas DEF Answered
  <2>2. work'[w].failed = failed /\ work'[w].data = data
    BY <1>3
  <2> HIDE DEF data
  <2>3. ASSUME NEW v \in Workers, search'[v].at \in {"write", "report"}
        PROVE  /\ IsSeq(Pulls(work[v].data))' /\ (Ids(Pulls(work[v].data)) \subseteq ToSet(IdsInOrder) \cup {Empty})'
               /\ Answered(search[v].issue, work[v].failed, Ids(Pulls(work[v].data)))'
    <3>1. CASE v = w
      BY <1>5, <1>6, <2>1, <2>2, <3>1
    <3>2. CASE v # w
      BY <1>1, <1>6, <2>3, <3>2 DEF Inv, WorkInv
    <3> QED
      BY <3>1, <3>2
  <2> QED
    BY <2>3 DEF WorkInv
<1>13. PRInv'
  BY <1>1, <1>4, PRsStay DEF Inv, SaysIn
<1>14. LogInv'
  <2>1. ASSUME NEW j \in (Keys \ visited') \cup todo' PROVE Tells(j, FALSE, {})'
    <3>1. j \in Keys \ {k} /\ Tells(j, FALSE, {})
      BY <1>1, OnlyHolder DEF Inv, LogInv, TypeInv
    <3> QED
      BY <1>4, <3>1, OthersTell
  <2>2. ASSUME NEW v \in Workers, search'[v].at \in Searching \cup {"done"}
        PROVE  Tells(search[v].issue, FALSE, {})'
    <3>1. v # w /\ search'[v] = search[v] /\ Held(v)
      BY <1>2, <1>6, <2>2 DEF Searching, Held
    <3>2. search[v].issue \in Keys \ {k} /\ Tells(search[v].issue, FALSE, {})
      BY <1>1, <2>2, <3>1, OnlyHolder DEF Inv, LogInv
    <3>3. log'[search[v].issue] = log[search[v].issue]
      BY <1>4, <3>2 DEF Told
    <3> QED
      BY <3>1, <3>2, <3>3 DEF Tells
  <2>3. ASSUME NEW v \in Workers \ {w}, search'[v].at \in {"write", "report"}
        PROVE  Tells(search[v].issue, ChildrenError(v), work[v].failed)'
    <3>1. search'[v] = search[v] /\ work'[v] = work[v] /\ Held(v)
      BY <1>1, <1>6, <2>3 DEF Held
    <3>2. search[v].issue \in Keys \ {k} /\ Tells(search[v].issue, ChildrenError(v), work[v].failed)
      BY <1>1, <2>3, <3>1, OnlyHolder DEF Inv, LogInv
    <3>3. log'[search[v].issue] = log[search[v].issue]
      BY <1>4, <3>2 DEF Told
    <3> QED
      BY <3>1, <3>2, <3>3 DEF Tells, ChildrenError
  <2>4. Tells(search[w].issue, ChildrenError(w), work[w].failed)'
    <3>1. Tells(k, FALSE, {})
      BY <1>1 DEF Inv, LogInv
    <3>2. \A kind : SaysIn(log'[k], kind) <=> SaysIn(log[k], kind) \/ SaysIn(more, kind)
      BY <1>1, <1>4, ToldHas DEF Inv
    <3>3. SaysIn(log'[k], "failed") <=> c.parentErr \/ c.epicErr
      BY <1>4, <3>1, <3>2 DEF Tells
    <3>4. SaysIn(log'[k], "devstatus") <=> work'[w].failed # {}
      BY <1>4, <3>1, <3>2 DEF Tells
    <3> QED
      BY <1>5, <1>6, <3>3, <3>4 DEF Tells, ChildrenError
  <2> QED
    BY <2>1, <2>2, <2>3, <2>4 DEF LogInv
<1>15. ResultInv'
  BY <1>1, <1>4, ResultsStay
<1>16. GraphInv'
  BY <1>1, GraphStays DEF Inv
<1> QED
  BY <1>8, <1>9, <1>10, <1>11, <1>12, <1>13, <1>14, <1>15, <1>16 DEF Inv

(* A write keeps the invariant, whether it succeeds or fails.              *)
LEMMA WriteKeeps ==
  ASSUME Inv, NEW w \in Workers, Write(w)
  PROVE  Inv'
<1> DEFINE c == search[w]
           k == c.issue
<1>1. UNCHANGED <<field, todo, visited, graph, prs, result>> /\ c.at = "write" /\ k \in Keys /\ Held(w)
  BY WriteIs DEF Inv, Held
<1>2. PICK more : Told(k, more) /\ ~SaysIn(more, "pr") /\ ~SaysIn(more, "devstatus")
                  /\ (SaysIn(more, "failed") => Released(w))
  BY WriteIs DEF Inv
<1>3. \/ UNCHANGED work /\ (\E h : Stays(w, h) /\ h.at = "report") /\ ~SaysIn(more, "failed")
      \/ Released(w)
  <2>1. \/ /\ UNCHANGED work /\ \E h : Stays(w, h) /\ h.at = "report"
           /\ \E m : Told(k, m) /\ \A kind : SaysIn(m, kind) <=> kind = "fetched"
        \/ Released(w)
    BY WriteIs DEF Inv
  <2>2. (\E h : Stays(w, h) /\ h.at = "report") => ~Released(w)
    BY DEF Stays, Moves, Released
  <2> QED
    BY <1>2, <2>1, <2>2
<1>4. SameField
  BY <1>1, FieldUntouched
<1>5. log' = [j \in Keys |-> log'[j]] /\ \A j \in Keys : IsSeq(log'[j])
  BY <1>1, <1>2, LogTyped DEF Inv
<1>6. /\ search' = [v \in Workers |-> search'[v]] /\ work' = [v \in Workers |-> work'[v]]
      /\ \A v \in Workers \ {w} : search'[v] = search[v] /\ work'[v] = work[v]
  BY <1>3 DEF Stays, Moves, Released, Inv, TypeInv
<1>7. \/ /\ Held(w)' /\ IsCall(search'[w]) /\ search'[w].issue = k /\ search'[w].seen = c.seen
         /\ search'[w].parentErr = c.parentErr /\ search'[w].epicErr = c.epicErr
         /\ search'[w].at = "report" /\ work'[w] = work[w] /\ ~SaysIn(more, "failed")
      \/ ~Held(w)' /\ search'[w].at = "idle"
  BY <1>3 DEF Stays, Moves, Released, Held
<1>8. TypeInv'
  BY <1>1, <1>5, <1>6, <1>7 DEF Inv, TypeInv, Held
<1>9. OwnedInv'
  <2>1. \A v \in Workers : Held(v)' => Held(v) /\ search'[v].issue = search[v].issue
    BY <1>1, <1>6, <1>7 DEF Held
  <2> QED
    BY <1>1, <2>1 DEF Inv, OwnedInv
<1>10. FieldInv'
  <2>1. \A v \in Workers : search'[v].at = "lookup" => search[v].at = "lookup"
    BY <1>6, <1>7
  <2> QED
    BY <1>1, <2>1 DEF Inv, FieldInv
<1>11. SearchInv'
  <2>1. ASSUME NEW v \in Workers \ {w}, Held(v)' PROVE SearchSound(search[v])'
    BY <1>4, <1>6, <2>1, SoundStays DEF Inv, Held
  <2>2. ASSUME Held(w)' PROVE SearchSound(search[w])'
    <3>1. SearchSound(c)
      BY <1>1 DEF Inv, SearchInv
    <3>2. FoundFor(search[w].issue, search[w])' = FoundFor(k, c)
      BY <1>1, <1>7, <2>2 DEF FoundFor, HasEpicField
    <3> QED
      BY <1>1, <1>7, <2>2, <3>1, <3>2 DEF SearchSound, Capable, Settled
  <2> QED
    BY <2>1, <2>2 DEF SearchInv
<1>12. WorkInv'
  <2>1. \A v \in Workers : search'[v].at \in {"write", "report"} =>
          /\ search[v].at \in {"write", "report"} /\ work'[v] = work[v]
          /\ search'[v].issue = search[v].issue
    BY <1>1, <1>6, <1>7
  <2> QED
    BY <2>1 DEF Inv, WorkInv
<1>13. PRInv'
  BY <1>1, <1>2, PRsStay DEF Inv
<1>14. LogInv'
  <2>1. ASSUME NEW j \in (Keys \ visited') \cup todo' PROVE Tells(j, FALSE, {})'
    <3>1. j \in Keys \ {k} /\ Tells(j, FALSE, {})
      BY <1>1, OnlyHolder DEF Inv, LogInv, TypeInv
    <3> QED
      BY <1>2, <3>1, OthersTell
  <2>2. ASSUME NEW v \in Workers, search'[v].at \in Searching \cup {"done"}
        PROVE  Tells(search[v].issue, FALSE, {})'
    <3>1. v # w /\ search'[v] = search[v] /\ Held(v)
      BY <1>6, <1>7, <2>2 DEF Searching, Held
    <3>2. search[v].issue \in Keys \ {k} /\ Tells(search[v].issue, FALSE, {})
      BY <1>1, <2>2, <3>1, OnlyHolder DEF Inv, LogInv
    <3>3. log'[search[v].issue] = log[search[v].issue]
      BY <1>2, <3>2 DEF Told
    <3> QED
      BY <3>1, <3>2, <3>3 DEF Tells
  <2>3. ASSUME NEW v \in Workers \ {w}, search'[v].at \in {"write", "report"}
        PROVE  Tells(search[v].issue, ChildrenError(v), work[v].failed)'
    <3>1. search'[v] = search[v] /\ work'[v] = work[v] /\ Held(v)
      BY <1>6, <2>3 DEF Held
    <3>2. search[v].issue \in Keys \ {k} /\ Tells(search[v].issue, ChildrenError(v), work[v].failed)
      BY <1>1, <2>3, <3>1, OnlyHolder DEF Inv, LogInv
    <3>3. log'[search[v].issue] = log[search[v].issue]
      BY <1>2, <3>2 DEF Told
    <3> QED
      BY <3>1, <3>2, <3>3 DEF Tells, ChildrenError
  <2>4. ASSUME search'[w].at \in {"write", "report"}
        PROVE  Tells(search[w].issue, ChildrenError(w), work[w].failed)'
    <3>1. Tells(k, ChildrenError(w), work[w].failed)
      BY <1>1 DEF Inv, LogInv
    <3>2. \A kind : SaysIn(log'[k], kind) <=> SaysIn(log[k], kind) \/ SaysIn(more, kind)
      BY <1>1, <1>2, ToldHas DEF Inv
    <3>3. ~SaysIn(more, "failed") /\ ~SaysIn(more, "devstatus")
      BY <1>2, <1>7, <2>4
    <3>4. /\ SaysIn(log'[k], "failed") <=> c.parentErr \/ c.epicErr
          /\ SaysIn(log'[k], "devstatus") <=> work[w].failed # {}
      BY <3>1, <3>2, <3>3 DEF Tells, ChildrenError
    <3> QED
      BY <1>7, <2>4, <3>4 DEF Tells, ChildrenError
  <2> QED
    BY <2>1, <2>2, <2>3, <2>4 DEF LogInv
<1>15. ResultInv'
  BY <1>1, <1>2, ResultsStay
<1>16. GraphInv'
  BY <1>1, GraphStays DEF Inv
<1> QED
  BY <1>8, <1>9, <1>10, <1>11, <1>12, <1>13, <1>14, <1>15, <1>16 DEF Inv

-----------------------------------------------------------------------------
(* The edges that Add makes of an issue are those of its fields and        *)
(* references.                                                             *)
LEMMA SameEdges ==
  ASSUME NEW k \in Keys, NEW issue, IsEnriched(issue), SameFields(issue, Issue[k]), issue.key = k,
         NEW r, ToSet(issue.children) = r.children, issue.prs = r.prs
  PROVE  NewEdges(issue, Extract(Issue[k])) = EdgesMade(k, r)
<1>1. FieldEdgesOf(issue) = FieldsOf(k, r)
  BY DEF FieldEdgesOf, FieldsOf, SameFields
<1> QED
  BY <1>1 DEF NewEdges, EdgesMade

(* The edges of an issue lead from it.                                     *)
LEMMA MadeLead ==
  ASSUME NEW k \in Keys, NEW r, NEW e \in EdgesMade(k, r)
  PROVE  e[1] = k
BY DEF EdgesMade, FieldsOf, RefEdgesOf, Pair

(* A graph to which an issue is added is the graph of one issue more.      *)
LEMMA GraphGrows ==
  ASSUME NEW g, NEW reported, GraphSound(g, reported), DOMAIN reported \subseteq Keys,
         NEW k \in Keys \ DOMAIN reported,
         NEW issue, IsEnriched(issue), SameFields(issue, Issue[k]), issue.key = k,
         NEW r, ToSet(issue.children) = r.children, issue.prs = r.prs
  PROVE  GraphSound(Add(g, issue, Extract(Issue[k])), Put(reported, k, r))
<1> DEFINE refs == Extract(Issue[k])
           h == Add(g, issue, refs)
           new == Put(reported, k, r)
           before == UNION {EdgesMade(j, reported[j]) : j \in DOMAIN reported}
           after == UNION {EdgesMade(j, new[j]) : j \in DOMAIN new}
           more == EdgesMade(k, r)
<1>1. IsSeq(refs) /\ \A x \in ToSet(refs) : IsRef(x)
  BY IssueIs, ExtractIs
<1>2. NewEdges(issue, refs) = more
  BY SameEdges
<1>3. /\ IsGraph(g) /\ DOMAIN g.edges = before /\ \A e \in before : e[1] \in DOMAIN reported
      /\ DOMAIN g.nodes = DOMAIN reported \cup {e[2] : e \in before}
      /\ \A x \in DOMAIN g.nodes : g.nodes[x].fetched <=> x \in DOMAIN reported
      /\ \A x \in DOMAIN g.nodes \cap Keys :
           g.nodes[x].meta = IF x \in DOMAIN reported THEN Issue[x].meta ELSE Empty
  BY DEF GraphSound
<1>4. NoneFrom(issue.key, g)
  BY <1>3 DEF NoneFrom
<1>5. DOMAIN new = DOMAIN reported \cup {k} /\ new[k] = r /\ \A j \in DOMAIN reported : new[j] = reported[j]
  BY DEF Put
<1> HIDE DEF refs, new
<1>6. after = before \cup more
  BY <1>5
<1>7. \A e \in after : e[1] \in DOMAIN new
  <2>1. \A e \in more : e[1] = k
    BY MadeLead
  <2> HIDE DEF before, after, more
  <2> QED
    BY <1>3, <1>5, <1>6, <2>1
<1> HIDE DEF before, after, more
<1>8. /\ IsGraph(h) /\ DOMAIN h.edges = DOMAIN g.edges \cup NewEdges(issue, refs)
      /\ DOMAIN h.nodes = DOMAIN g.nodes \cup {issue.key} \cup {e[2] : e \in NewEdges(issue, refs)}
      /\ \A x \in DOMAIN h.nodes :
           h.nodes[x].fetched <=> x = issue.key \/ (x \in DOMAIN g.nodes /\ g.nodes[x].fetched)
      /\ \A x \in DOMAIN h.nodes \cap Keys :
           h.nodes[x].meta = IF x = issue.key THEN PreferNonEmpty(issue.meta, MetaIn(g, issue.key)) ELSE MetaIn(g, x)
  BY <1>1, <1>3, <1>4, AddHas
<1> HIDE DEF h
<1>9. IsGraph(h) /\ DOMAIN h.edges = after
  BY <1>2, <1>3, <1>6, <1>8
<1>10. DOMAIN h.nodes = DOMAIN new \cup {e[2] : e \in after}
  BY <1>2, <1>3, <1>5, <1>6, <1>8
<1>11. \A x \in DOMAIN h.nodes : h.nodes[x].fetched <=> x \in DOMAIN new
  BY <1>3, <1>5, <1>8
<1>12. ASSUME NEW x \in DOMAIN h.nodes \cap Keys
       PROVE  h.nodes[x].meta = IF x \in DOMAIN new THEN Issue[x].meta ELSE Empty
  <2>1. issue.meta = Issue[k].meta
    BY DEF SameFields
  <2>2. MetaIn(g, k) = Empty
    BY <1>3 DEF MetaIn
  <2>3. x # k => MetaIn(g, x) = IF x \in DOMAIN reported THEN Issue[x].meta ELSE Empty
    BY <1>3 DEF MetaIn
  <2>4. CASE x = k
    BY <1>5, <1>8, <2>1, <2>2, <2>4 DEF PreferNonEmpty
  <2>5. CASE x # k
    BY <1>5, <1>8, <2>3, <2>5
  <2> QED
    BY <2>4, <2>5
<1> QED
  BY <1>7, <1>9, <1>10, <1>11, <1>12 DEF GraphSound, h, new, refs, after

(* What is announced was not announced before, and is known afterwards.    *)
LEMMA PRsGrow ==
  ASSUME TypeInv, PRInv, NEW k \in Keys, NEW more, Told(k, more), Announces(more)
  PROVE  PRInv' /\ prs.seen \subseteq prs'.seen
<1> DEFINE n == Len(log[k])
<1>1. /\ DOMAIN log[k] \subseteq DOMAIN log'[k]
      /\ \A i \in DOMAIN log[k] : log'[k][i] = log[k][i]
      /\ \A i \in DOMAIN log'[k] \ DOMAIN log[k] : i - n \in DOMAIN more /\ log'[k][i] = more[i - n]
      /\ \A j \in DOMAIN more : n + j \in DOMAIN log'[k] \ DOMAIN log[k] /\ log'[k][n + j] = more[j]
  BY ToldHas
<1>2. n \in Nat /\ \A i \in DOMAIN log'[k] : i \in Nat
  <2>1. IsSeq(log[k]) /\ IsSeq(log'[k])
    BY ToldHas DEF TypeInv
  <2>2. n \in Nat /\ DOMAIN log'[k] = 1 .. Len(log'[k]) /\ Len(log'[k]) \in Nat
    BY <2>1, Sequence
  <2> QED
    BY <2>2
<1>3. ASSUME NEW i \in DOMAIN log'[k] \ DOMAIN log[k], NEW j \in DOMAIN log'[k], i - n = j - n
      PROVE  i = j
  BY <1>2, <1>3
<1> HIDE DEF n
<1> DEFINE Old(i) == i \in PRsIn(log[k])
           New(i) == i \in DOMAIN log'[k] \ DOMAIN log[k] /\ i - n \in PRsIn(more) /\ log'[k][i] = more[i - n]
<1>4. \A i \in PRsIn(log'[k]) : Old(i) \/ New(i)
  BY <1>1 DEF PRsIn
<1>5. \A i : Old(i) => i \in PRsIn(log'[k]) /\ log'[k][i] = log[k][i]
  BY <1>1 DEF PRsIn
<1>6. \A j \in PRsIn(more) : n + j \in PRsIn(log'[k]) /\ log'[k][n + j] = more[j]
  BY <1>1 DEF PRsIn
<1>7. \A j \in Keys \ {k} : log'[j] = log[j]
  BY DEF Told
<1>8. \A j \in Keys : \A i \in PRsIn(log[j]) : log[j][i].what \in prs.seen
  BY DEF PRInv
<1>9. \A i : New(i) => log'[k][i].what \notin prs.seen
  BY DEF Announces
<1>10. \A i, j : New(i) /\ New(j) /\ log'[k][i].what = log'[k][j].what => i - n = j - n
  BY DEF Announces
<1>11. \A i, j : New(i) /\ New(j) /\ log'[k][i].what = log'[k][j].what => i = j
  BY <1>3, <1>10
<1> HIDE DEF Old, New
<1>12. \A i : Old(i) => log'[k][i].what \in prs.seen
  BY <1>5, <1>8 DEF Old
<1>13. ASSUME NEW j \in Keys, NEW m \in Keys, NEW i \in PRsIn(log'[j]), NEW h \in PRsIn(log'[m]),
              log'[j][i].what = log'[m][h].what
       PROVE  j = m /\ i = h
  <2>1. CASE j = k /\ m = k
    <3>1. CASE Old(i) /\ Old(h)
      BY <1>5, <1>13, <2>1, <3>1 DEF Old, PRInv
    <3>2. CASE New(i) /\ New(h)
      BY <1>11, <1>13, <2>1, <3>2
    <3>3. CASE (Old(i) /\ New(h)) \/ (New(i) /\ Old(h))
      BY <1>9, <1>12, <1>13, <2>1, <3>3
    <3> QED
      BY <1>4, <2>1, <3>1, <3>2, <3>3
  <2>2. CASE j = k /\ m # k
    <3>1. h \in PRsIn(log[m]) /\ log'[m][h] = log[m][h]
      BY <1>7, <2>2
    <3>2. log'[m][h].what \in prs.seen
      BY <1>8, <3>1
    <3>3. CASE Old(i)
      BY <1>5, <1>13, <2>2, <3>1, <3>3 DEF Old, PRInv
    <3>4. CASE New(i)
      BY <1>9, <1>13, <2>2, <3>2, <3>4
    <3> QED
      BY <1>4, <2>2, <3>3, <3>4
  <2>3. CASE j # k /\ m = k
    <3>1. i \in PRsIn(log[j]) /\ log'[j][i] = log[j][i]
      BY <1>7, <2>3
    <3>2. log'[j][i].what \in prs.seen
      BY <1>8, <3>1
    <3>3. CASE Old(h)
      BY <1>5, <1>13, <2>3, <3>1, <3>3 DEF Old, PRInv
    <3>4. CASE New(h)
      BY <1>9, <1>13, <2>3, <3>2, <3>4
    <3> QED
      BY <1>4, <2>3, <3>3, <3>4
  <2>4. CASE j # k /\ m # k
    <3>1. log'[j] = log[j] /\ log'[m] = log[m]
      BY <1>7, <2>4
    <3> QED
      BY <1>13, <3>1 DEF PRInv
  <2> QED
    BY <2>1, <2>2, <2>3, <2>4
<1>14. prs.seen \subseteq prs'.seen /\ \A i : New(i) => log'[k][i].what \in prs'.seen
  BY DEF Announces, New
<1>15. ASSUME NEW j \in Keys, NEW i \in PRsIn(log'[j]) PROVE log'[j][i].what \in prs'.seen
  BY <1>4, <1>7, <1>8, <1>12, <1>14
<1>16. ASSUME NEW u \in prs'.seen PROVE \E j \in Keys : \E i \in PRsIn(log'[j]) : log'[j][i].what = u
  <2>1. CASE u \in prs.seen
    <3>1. PICK j \in Keys : \E i \in PRsIn(log[j]) : log[j][i].what = u
      BY <2>1 DEF PRInv
    <3> QED
      BY <1>5, <1>7, <3>1 DEF Old
  <2>2. CASE u \in {more[i].what : i \in PRsIn(more)}
    BY <1>6, <2>2
  <2> QED
    BY <2>1, <2>2 DEF Announces
<1>17. IsFiniteSet(prs'.seen) /\ prs'.found = Cardinality(prs'.seen)
  BY DEF Announces
<1> QED
  BY <1>13, <1>14, <1>15, <1>16, <1>17 DEF PRInv

(* The critical section keeps the invariant.                               *)
LEMMA ReportKeeps ==
  ASSUME Inv, NEW w \in Workers, Report(w)
  PROVE  Inv'
<1> DEFINE c == search[w]
           k == c.issue
<1>1. c.at = "report" /\ Held(w)
  BY DEF Report, Held
<1>2. Known(w) /\ IsFiniteSet(prs.seen) /\ prs.found = Cardinality(prs.seen)
  BY <1>1, HeldIsKnown DEF Inv, PRInv
<1>3. UNCHANGED field /\ Released(w)
  BY <1>2, ReportIs DEF Inv
<1>4. PICK issue : Hands(w, issue)
  BY <1>2, ReportIs DEF Inv
<1>5. PICK more : Told(k, more) /\ Announces(more)
  BY <1>4 DEF Hands
<1>6. PICK fresh : /\ fresh \cap visited = {} /\ fresh \subseteq Keys
                   /\ todo' = todo \cup fresh /\ visited' = visited \cup fresh
  BY <1>4 DEF Hands
<1>7. PICK r : /\ result' = Put(result, k, r)
               /\ r.children = c.seen /\ r.prs = issue.prs /\ r.failed = work[w].failed
               /\ r.parentErr = c.parentErr /\ r.epicErr = c.epicErr
  BY <1>4 DEF Hands
<1>8. /\ IsEnriched(issue) /\ SameFields(issue, Issue[k]) /\ issue.key = k
      /\ ToSet(issue.children) = c.seen /\ ToSet(issue.prs) = Ids(Pulls(work[w].data))
      /\ graph' = Add(graph, issue, Extract(Issue[k]))
      /\ ToSet(issue.prs) \ {Empty} \subseteq prs'.seen
  BY <1>4 DEF Hands
<1>9. /\ k \in Keys /\ k \notin DOMAIN result /\ k \notin (Keys \ visited) \cup todo
      /\ DOMAIN result \subseteq Keys
      /\ \A v \in Workers \ {w} : Held(v) => search[v].issue # k /\ search[v].issue \in Keys
  BY <1>1, OnlyHolder
<1>10. /\ search' = [v \in Workers |-> search'[v]] /\ work' = [v \in Workers |-> work'[v]]
       /\ search'[w].at = "idle"
       /\ \A v \in Workers \ {w} : search'[v] = search[v] /\ work'[v] = work[v]
  BY <1>3 DEF Released
<1>11. \A v \in Workers : Held(v)' => v # w /\ Held(v) /\ search'[v] = search[v] /\ work'[v] = work[v]
  BY <1>10 DEF Held
<1>12. DOMAIN result' = DOMAIN result \cup {k} /\ result'[k] = r /\ \A j \in DOMAIN result : result'[j] = result[j]
  BY <1>7, <1>9 DEF Put
<1>13. SameField
  BY <1>3, FieldUntouched
<1>14. log' = [j \in Keys |-> log'[j]] /\ \A j \in Keys : IsSeq(log'[j])
  BY <1>5, <1>9, LogTyped DEF Inv
<1>15. PRInv' /\ prs.seen \subseteq prs'.seen
  BY <1>5, <1>9, PRsGrow DEF Inv
<1>16. TypeInv'
  BY <1>3, <1>6, <1>10, <1>11, <1>14 DEF Inv, TypeInv
<1>17. OwnedInv'
  <2>1. k \in visited \ todo
    BY <1>1 DEF Inv, OwnedInv
  <2>2. ASSUME NEW v \in Workers, Held(v)'
        PROVE  search'[v].issue \in visited' \ todo' /\ search'[v].issue \notin DOMAIN result'
    BY <1>6, <1>9, <1>11, <1>12, <2>2 DEF Inv, OwnedInv
  <2>3. ASSUME NEW u \in Workers, NEW v \in Workers, Held(u)', Held(v)', search'[u].issue = search'[v].issue
        PROVE  u = v
    BY <1>11, <2>3 DEF Inv, OwnedInv
  <2>4. DOMAIN result' \subseteq visited' \ todo'
    BY <1>6, <1>12, <2>1 DEF Inv, OwnedInv
  <2> QED
    BY <2>2, <2>3, <2>4 DEF OwnedInv
<1>18. FieldInv'
  <2>1. \A v \in Workers : search'[v].at = "lookup" => search[v].at = "lookup"
    BY <1>10
  <2> QED
    BY <1>3, <2>1 DEF Inv, FieldInv
<1>19. SearchInv'
  <2>1. ASSUME NEW v \in Workers, Held(v)' PROVE SearchSound(search[v])'
    BY <1>11, <1>13, <2>1, SoundStays DEF Inv
  <2> QED
    BY <2>1 DEF SearchInv
<1>20. WorkInv'
  BY <1>10 DEF Inv, WorkInv
<1>21. LogInv'
  <2>1. ASSUME NEW j \in (Keys \ visited') \cup todo' PROVE Tells(j, FALSE, {})'
    <3>1. j \in Keys \ {k} /\ Tells(j, FALSE, {})
      BY <1>6, <1>9 DEF Inv, LogInv, TypeInv
    <3> QED
      BY <1>5, <3>1, OthersTell
  <2>2. ASSUME NEW v \in Workers, search'[v].at \in Searching \cup {"done"}
        PROVE  Tells(search[v].issue, FALSE, {})'
    <3>1. Held(v) /\ v # w /\ search'[v] = search[v]
      BY <1>10, <1>11, <2>2 DEF Searching, Held
    <3>2. search[v].issue \in Keys \ {k} /\ Tells(search[v].issue, FALSE, {})
      BY <1>9, <2>2, <3>1 DEF Inv, LogInv
    <3>3. log'[search[v].issue] = log[search[v].issue]
      BY <1>5, <3>2 DEF Told
    <3> QED
      BY <3>1, <3>2, <3>3 DEF Tells
  <2>3. ASSUME NEW v \in Workers, search'[v].at \in {"write", "report"}
        PROVE  Tells(search[v].issue, ChildrenError(v), work[v].failed)'
    <3>1. Held(v) /\ v # w /\ search'[v] = search[v] /\ work'[v] = work[v]
      BY <1>10, <1>11, <2>3 DEF Held
    <3>2. search[v].issue \in Keys \ {k} /\ Tells(search[v].issue, ChildrenError(v), work[v].failed)
      BY <1>9, <2>3, <3>1 DEF Inv, LogInv
    <3>3. log'[search[v].issue] = log[search[v].issue]
      BY <1>5, <3>2 DEF Told
    <3> QED
      BY <3>1, <3>2, <3>3 DEF Tells, ChildrenError
  <2> QED
    BY <2>1, <2>2, <2>3 DEF LogInv
<1>22. ResultInv'
  <2>1. ASSUME NEW j \in DOMAIN result PROVE ResultSound(j, result[j])'
    <3>1. log'[j] = log[j] /\ result'[j] = result[j]
      BY <1>5, <1>9, <1>12 DEF Told
    <3> QED
      BY <1>13, <1>15, <3>1, ResultStays DEF Inv
  <2>2. PICK x : x = k
    OBVIOUS
  <2>3. Tells(x, r.parentErr \/ r.epicErr, r.failed)'
    <3>1. Tells(k, ChildrenError(w), work[w].failed)
      BY <1>1 DEF Inv, LogInv
    <3>2. \A kind : SaysIn(log'[k], kind) <=> SaysIn(log[k], kind) \/ SaysIn(more, kind)
      BY <1>5, <1>9, ToldHas DEF Inv
    <3>3. ~SaysIn(more, "failed") /\ ~SaysIn(more, "devstatus")
      BY <1>5 DEF Announces, SaysIn
    <3>4. SaysIn(log'[x], "failed") <=> r.parentErr \/ r.epicErr
      BY <1>7, <2>2, <3>1, <3>2, <3>3 DEF Tells, ChildrenError
    <3>5. SaysIn(log'[x], "devstatus") <=> r.failed # {}
      BY <1>7, <2>2, <3>1, <3>2, <3>3 DEF Tells
    <3> QED
      BY <3>4, <3>5 DEF Tells
  <2>4. Capable(x) => Settled' /\ CutTo(r.children, FoundFor(x, r)' \ {Empty})
    <3>1. SearchSound(c)
      BY <1>1 DEF Inv, SearchInv
    <3>2. FoundFor(x, r)' = FoundFor(k, c)
      BY <1>3, <1>7, <2>2 DEF FoundFor, HasEpicField
    <3> QED
      BY <1>1, <1>3, <1>7, <2>2, <3>1, <3>2 DEF SearchSound, Settled
  <2>5. ToSet(r.prs) \ {Empty} \subseteq prs'.seen
    BY <1>7, <1>8
  <2>6. Answered(x, r.failed, ToSet(r.prs))
    BY <1>1, <1>7, <1>8, <2>2 DEF Inv, WorkInv
  <2>7. ResultSound(x, r)'
    BY <2>3, <2>4, <2>5, <2>6 DEF ResultSound, Capable, Answered
  <2>8. ASSUME NEW j \in DOMAIN result' PROVE ResultSound(j, result[j])'
    <3>1. CASE j \in DOMAIN result
      BY <1>12, <2>1, <3>1
    <3>2. CASE j = x
      BY <1>12, <2>2, <2>7, <3>2
    <3> QED
      BY <1>12, <2>2, <3>1, <3>2
  <2> QED
    BY <2>8 DEF ResultInv
<1>23. GraphInv'
  <2>1. GraphSound(graph, result) /\ k \in Keys \ DOMAIN result /\ DOMAIN result \subseteq Keys
    BY <1>9 DEF Inv, GraphInv
  <2>2. GraphSound(Add(graph, issue, Extract(Issue[k])), Put(result, k, r))
    BY <1>7, <1>8, <2>1, GraphGrows
  <2> QED
    BY <1>7, <1>8, <2>2 DEF GraphInv
<1> QED
  BY <1>15, <1>16, <1>17, <1>18, <1>19, <1>20, <1>21, <1>22, <1>23 DEF Inv

-----------------------------------------------------------------------------
(* The empty graph is that of no issue.                                    *)
LEMMA NothingReported == GraphSound(NewCollector, << >>)
<1> DEFINE none == << >>
<1>1. DOMAIN none = {} /\ none = [x \in {} |-> none[x]]
  BY NoElements, Sequence
<1> HIDE DEF none
<1>2. NewCollector = [nodes |-> none, edges |-> none]
  BY DEF NewCollector, none
<1>3. NewCollector.nodes = none /\ NewCollector.edges = none
  BY <1>2
<1> HIDE DEF NewCollector
<1>4. UNION {EdgesMade(k, none[k]) : k \in DOMAIN none} = {}
  BY <1>1
<1>5. IsGraph(NewCollector)
  BY <1>1, <1>2, <1>3 DEF IsGraph
<1> QED
  BY <1>1, <1>3, <1>4, <1>5 DEF GraphSound, none

(* The invariant holds at first.                                           *)
LEMMA InitInv ==
  ASSUME Init
  PROVE  Inv
<1>1. /\ field.once = "new" /\ field.failed \in BOOLEAN
      /\ field = [once |-> field.once, id |-> field.id, failed |-> field.failed]
  <2>1. PICK no : no = FALSE
    OBVIOUS
  <2>2. field = [once |-> "new", id |-> Empty, failed |-> no]
    BY <2>1 DEF Init, HierarchyInit
  <2> QED
    BY <2>1, <2>2
<1>2. search = [w \in Workers |-> search[w]] /\ \A w \in Workers : search[w].at = "idle"
  BY DEF Init, HierarchyInit, NoCall
<1>3. todo = StartKeys /\ visited = StartKeys /\ StartKeys \subseteq Keys
  BY PipelineAssumption DEF Init
<1>4. log = [k \in Keys |-> log[k]] /\ \A k \in Keys : log[k] = << >>
  BY DEF Init
<1>5. IsSeq(<< >>) /\ DOMAIN << >> = {}
  BY NoElements, Sequence
<1>6. \A k \in Keys : IsSeq(log[k]) /\ DOMAIN log[k] = {}
  BY <1>4, <1>5
<1>7. work = [w \in Workers |-> work[w]]
  BY DEF Init
<1>8. prs.seen = {} /\ prs.found = 0
  BY DEF Init
<1>9. DOMAIN result = {}
  BY <1>5 DEF Init
<1>10. TypeInv
  <2>1. \A w \in Workers : ~Held(w)
    BY <1>2 DEF Held
  <2>2. todo \subseteq visited /\ visited \subseteq Keys
    BY <1>3
  <2> QED
    BY <1>1, <1>2, <1>4, <1>6, <1>7, <2>1, <2>2 DEF TypeInv
<1>11. OwnedInv /\ FieldInv /\ SearchInv /\ WorkInv
  BY <1>1, <1>2, <1>9 DEF OwnedInv, FieldInv, SearchInv, WorkInv, Held
<1>12. PRInv
  BY <1>6, <1>8, FS_EmptySet DEF PRInv, PRsIn
<1>13. LogInv
  <2>1. \A k \in Keys : \A kind : ~SaysIn(log[k], kind)
    BY <1>6 DEF SaysIn
  <2>2. (Keys \ visited) \cup todo \subseteq Keys
    BY <1>3
  <2> QED
    BY <1>2, <2>1, <2>2 DEF LogInv, Tells, Searching
<1>14. ResultInv
  BY <1>9 DEF ResultInv
<1>15. GraphInv
  BY NothingReported DEF GraphInv, Init
<1> QED
  BY <1>10, <1>11, <1>12, <1>13, <1>14, <1>15 DEF Inv

(* A step that changes nothing keeps the invariant.                        *)
LEMMA StutterKeeps ==
  ASSUME Inv, UNCHANGED vars
  PROVE  Inv'
<1>1. UNCHANGED <<field, search, todo, visited, graph, prs, log, work, result>>
  BY DEF vars, hierarchyVars
<1>2. SameField
  BY <1>1, FieldUntouched
<1>3. TypeInv' /\ OwnedInv' /\ FieldInv' /\ WorkInv' /\ PRInv'
  BY <1>1 DEF Inv, TypeInv, OwnedInv, FieldInv, WorkInv, PRInv, Held
<1>4. SearchInv'
  BY <1>1, <1>2, SoundStays DEF Inv, SearchInv, Held
<1>5. LogInv'
  BY <1>1 DEF Inv, LogInv, Tells, ChildrenError
<1>6. ResultInv'
  BY <1>1, <1>2, ResultStays DEF Inv, ResultInv
<1>7. GraphInv'
  BY <1>1, GraphStays DEF Inv
<1> QED
  BY <1>3, <1>4, <1>5, <1>6, <1>7 DEF Inv

(* The state of the workers, of the field lookup, of the graph, the        *)
(* announcements, the events and the results of a crawl stay consistent    *)
(* with each other, whatever the interleaving and whichever searches,      *)
(* lookups, requests and writes fail.                                      *)
THEOREM PipelineIsSound == Spec => []Inv
<1>1. Init => Inv
  BY InitInv
<1>2. Inv /\ [Next]_vars => Inv'
  <2> SUFFICES ASSUME Inv, [Next]_vars PROVE Inv'
    OBVIOUS
  <2>1. ASSUME NEW w \in Workers, Step(w) PROVE Inv'
    BY <2>1, TakeKeeps, DiscoverKeeps, EnrichIssueKeeps, WriteKeeps, ReportKeeps DEF Step
  <2>2. CASE UNCHANGED vars
    BY <2>2, StutterKeeps
  <2> QED
    BY <2>1, <2>2 DEF Next, Finished
<1> QED
  BY <1>1, <1>2, PTL DEF Spec

-----------------------------------------------------------------------------
(* hierarchy.Children loses no child in silence: a reported issue has what *)
(* its searches found, up to the limit, and tells of an error exactly when *)
(* a search failed.                                                        *)
THEOREM ChildrenAreAccountedFor == Spec => []ChildrenAccountedFor
<1>1. Inv => ChildrenAccountedFor
  <2> SUFFICES ASSUME Inv, NEW k \in DOMAIN result, Capable(k)
               PROVE  LET r == result[k]
                          found == FoundFor(k, r) \ {Empty}
                      IN  /\ r.children \subseteq found
                          /\ Cardinality(r.children) = Min({Limit, Cardinality(found)})
                          /\ Says(k, "failed") <=> r.parentErr \/ r.epicErr
    BY DEF ChildrenAccountedFor, Capable
  <2>1. ResultSound(k, result[k])
    BY DEF Inv, ResultInv
  <2> QED
    BY <2>1 DEF ResultSound, Tells, Says, SaysIn, CutTo
<1> QED
  BY <1>1, PipelineIsSound, PTL

(* The edges an issue makes, as the properties have them.                  *)
LEMMA EdgesAre ==
  ASSUME NEW k \in DOMAIN result
  PROVE  FieldEdges(k) \cup RefEdges(k) = EdgesMade(k, result[k])
<1>1. FieldEdges(k) = FieldsOf(k, result[k])
  BY DEF FieldEdges, FieldsOf, Pair, KeysOf
<1>2. RefEdges(k) = RefEdgesOf(k, FieldEdges(k), ToSet(Extract(Issue[k])))
  <2> DEFINE fields == FieldEdges(k)
             refs == ToSet(Extract(Issue[k]))
  <2> HIDE DEF fields, refs
  <2>1. RefEdges(k) =
              {<<k, key, "description">> : key \in ({r.key : r \in {x \in refs : x.kind = "jira"}} \ {e[2] : e \in fields}) \ {Empty}}
         \cup {<<k, r.pr, "pull_request">> : r \in {x \in refs : x.kind = "github_pr"}}
         \cup {<<k, r.url, "external">> : r \in {x \in {y \in refs : y.kind = "external"} : x.url # Empty}}
    BY DEF RefEdges, fields, refs
  <2>2. {<<k, r.url, "external">> : r \in {x \in {y \in refs : y.kind = "external"} : x.url # Empty}}
          = {<<k, r.url, "external">> : r \in {x \in refs : x.kind = "external" /\ x.url # Empty}}
    OBVIOUS
  <2>3. RefEdgesOf(k, fields, refs) =
              {<<k, key, "description">> : key \in ({r.key : r \in {x \in refs : x.kind = "jira"}} \ {e[2] : e \in fields}) \ {Empty}}
         \cup {<<k, r.pr, "pull_request">> : r \in {x \in refs : x.kind = "github_pr"}}
         \cup {<<k, r.url, "external">> : r \in {x \in refs : x.kind = "external" /\ x.url # Empty}}
    BY DEF RefEdgesOf
  <2>4. RefEdges(k) = RefEdgesOf(k, fields, refs)
    BY <2>1, <2>2, <2>3
  <2> QED
    BY <2>4 DEF fields, refs
<1> QED
  BY <1>1, <1>2 DEF EdgesMade

(* In whatever order the workers add issues, Collector.Add makes the union *)
(* of what the reported issues refer to, and keeps the status, type,       *)
(* assignee and URL of those it fetched; their labels it may lose.         *)
THEOREM GraphIsOfAllIssues == Spec => []GraphIsUnion
<1>1. Inv => GraphIsUnion
  <2> SUFFICES ASSUME Inv PROVE GraphIsUnion
    OBVIOUS
  <2> DEFINE edges == UNION {EdgesMade(k, result[k]) : k \in DOMAIN result}
             made == UNION {FieldEdges(k) \cup RefEdges(k) : k \in DOMAIN result}
  <2>1. /\ DOMAIN graph.edges = edges
        /\ DOMAIN graph.nodes = DOMAIN result \cup {e[2] : e \in edges}
        /\ \A x \in DOMAIN graph.nodes : graph.nodes[x].fetched <=> x \in DOMAIN result
        /\ \A x \in DOMAIN graph.nodes \cap Keys :
             graph.nodes[x].meta = IF x \in DOMAIN result THEN Issue[x].meta ELSE Empty
    BY DEF Inv, GraphInv, GraphSound
  <2>2. made = edges
    BY EdgesAre
  <2>3. DOMAIN result \subseteq Keys
    BY DEF Inv, OwnedInv, TypeInv
  <2> HIDE DEF edges, made
  <2>4. {id \in DOMAIN graph.nodes : graph.nodes[id].fetched} = DOMAIN result
    BY <2>1
  <2>5. \A k \in DOMAIN result : graph.nodes[k].meta = Issue[k].meta
    BY <2>1, <2>3
  <2> QED
    BY <2>1, <2>2, <2>4, <2>5 DEF GraphIsUnion, made
<1> QED
  BY <1>1, PipelineIsSound, PTL

(* A Dev Status request that fails takes nothing from the others: what     *)
(* they found is announced and in the graph, and the issue tells of the    *)
(* failure.                                                                *)
THEOREM FoundIsKept == Spec => []FoundSurvives
<1>1. Inv => FoundSurvives
  <2> SUFFICES ASSUME Inv, NEW k \in DOMAIN result
               PROVE  /\ Wanted(Issue[k]) =>
                           \A c \in {x \in ToSet(Calls) \ result[k].failed : x[2] = "pullrequest"} :
                             \A u \in ToSet(DevReply[k][c]) \ {Empty} :
                               u \in prs.seen /\ <<k, PRId(u, Empty), "pull_request">> \in DOMAIN graph.edges
                      /\ Says(k, "devstatus") <=> result[k].failed # {}
    BY DEF FoundSurvives
  <2>1. ResultSound(k, result[k])
    BY DEF Inv, ResultInv
  <2>2. Says(k, "devstatus") <=> result[k].failed # {}
    BY <2>1 DEF ResultSound, Tells, Says, SaysIn
  <2>3. ASSUME Wanted(Issue[k]), NEW c \in ToSet(Calls) \ result[k].failed, c[2] = "pullrequest",
               NEW u \in ToSet(DevReply[k][c]) \ {Empty}
        PROVE  u \in prs.seen /\ <<k, PRId(u, Empty), "pull_request">> \in DOMAIN graph.edges
    <3>1. u \in ToSet(result[k].prs) \ {Empty}
      BY <2>1, <2>3 DEF ResultSound, Answered
    <3>2. u \in prs.seen
      BY <2>1, <3>1 DEF ResultSound
    <3>3. PRId(u, Empty) # Empty
      BY <3>1 DEF PRId
    <3>4. <<k, PRId(u, Empty), "pull_request">> \in Pair(k, "pull_request", {PRId(x, Empty) : x \in ToSet(result[k].prs)})
      BY <3>1, <3>3 DEF Pair
    <3>5. <<k, PRId(u, Empty), "pull_request">> \in EdgesMade(k, result[k])
      BY <3>4 DEF EdgesMade, FieldsOf
    <3>6. EdgesMade(k, result[k]) \subseteq DOMAIN graph.edges
      BY DEF Inv, GraphInv, GraphSound
    <3> QED
      BY <3>2, <3>5, <3>6
  <2> QED
    BY <2>2, <2>3
<1> QED
  BY <1>1, PipelineIsSound, PTL

(* A pull request is announced by one issue of the crawl, once, and        *)
(* PRsFound counts the announcements.                                      *)
THEOREM PRsAreAnnouncedOnce == Spec => []PRsAnnouncedOnce
<1>1. Inv => PRsAnnouncedOnce
  <2> SUFFICES ASSUME Inv PROVE PRsAnnouncedOnce
    OBVIOUS
  <2> DEFINE said == UNION {{<<k, i>> : i \in {j \in DOMAIN log[k] : log[k][j].kind = "pr"}} : k \in Keys}
             what == [x \in said |-> log[x[1]][x[2]].what]
  <2>1. \A x \in said : x = <<x[1], x[2]>> /\ x[1] \in Keys /\ x[2] \in PRsIn(log[x[1]])
    BY DEF PRsIn
  <2>2. \A k \in Keys : \A i \in PRsIn(log[k]) : <<k, i>> \in said
    BY DEF PRsIn
  <2>3. \A x \in said : what[x] = log[x[1]][x[2]].what
    OBVIOUS
  <2>4. DOMAIN what = said /\ what \in [said -> {what[x] : x \in said}]
    OBVIOUS
  <2> HIDE DEF said, what
  <2>5. \A x, y \in said : what[x] = what[y] => x = y
    <3> SUFFICES ASSUME NEW x \in said, NEW y \in said, what[x] = what[y] PROVE x = y
      OBVIOUS
    <3>1. x[1] = y[1] /\ x[2] = y[2]
      BY <2>1, <2>3 DEF Inv, PRInv
    <3> QED
      BY <2>1, <3>1
  <2>6. \A x \in said : what[x] \in prs.seen
    BY <2>1, <2>3 DEF Inv, PRInv
  <2>7. ASSUME NEW u \in prs.seen PROVE \E x \in said : what[x] = u
    <3>1. PICK k \in Keys : \E i \in PRsIn(log[k]) : log[k][i].what = u
      BY DEF Inv, PRInv
    <3>2. PICK i \in PRsIn(log[k]) : log[k][i].what = u
      BY <3>1
    <3> DEFINE x == <<k, i>>
    <3>3. x \in said /\ x[1] = k /\ x[2] = i
      BY <2>2
    <3> HIDE DEF x
    <3> QED
      BY <2>3, <3>2, <3>3
  <2>8. prs.seen = {log[x[1]][x[2]].what : x \in said}
    BY <2>3, <2>6, <2>7
  <2>9. \A x, y \in said : x # y => log[x[1]][x[2]].what # log[y[1]][y[2]].what
    BY <2>3, <2>5
  <2>10. prs.found = Cardinality(said)
    <3>1. IsFiniteSet(prs.seen) /\ prs.found = Cardinality(prs.seen)
      BY DEF Inv, PRInv
    <3>2. what \in [said -> prs.seen]
      BY <2>4, <2>6
    <3>3. ExistsBijection(said, prs.seen)
      BY <2>5, <2>7, <3>2 DEF ExistsBijection, Bijection, Injection, Surjection, IsInjective
    <3>4. ExistsBijection(prs.seen, said)
      BY <3>3, Fun_ExistsBijSymmetric
    <3> QED
      BY <3>1, <3>4, FS_Bijection
  <2> QED
    BY <2>8, <2>9, <2>10 DEF PRsAnnouncedOnce, said
<1> QED
  BY <1>1, PipelineIsSound, PTL
=============================================================================
