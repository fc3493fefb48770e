----------------------------- MODULE LoopProofs -----------------------------
(***************************************************************************)
(* What a loop over a sequence keeps: the rule of invariants for ForEach   *)
(* of InOrder.  The provers cannot be handed an operator as a parameter of *)
(* a theorem; a module that is instantiated can.  The body of the loop and *)
(* the invariant may use values that stay the same throughout: c and d.    *)
(***************************************************************************)
EXTENDS Naturals, Sequences, InOrder, WellFoundedInduction, TLAPS

CONSTANTS Body(_, _, _),    \* Body(c, value, element): the value after an element
          Kept(_, _, _)     \* Kept(d, i, value): what holds after i elements

(* Induction over the naturals, for a set in place of a predicate.         *)
LEMMA InductionOverNat ==
  ASSUME NEW S, 0 \in S, \A n \in Nat : n \in S => n + 1 \in S
  PROVE  Nat \subseteq S
<1> DEFINE R == OpToRel(<, Nat)
           T == Nat \ S
<1> SUFFICES ASSUME T # {} PROVE FALSE
  OBVIOUS
<1>1. IsWellFoundedOn(R, Nat)
  BY NatLessThanWellFounded
<1>2. R = {p \in Nat \X Nat : p[1] < p[2]}
  BY DEF OpToRel
<1> HIDE DEF R, T
<1>3. T \subseteq Nat
  BY DEF T
<1>4. PICK x \in T : \A y \in T : ~(<<y, x>> \in R)
  BY <1>1, <1>3, WFMin
<1>5. x \in Nat /\ x \notin S /\ x # 0
  BY <1>4 DEF T
<1>6. x - 1 \in Nat /\ x - 1 < x /\ (x - 1) + 1 = x
  BY <1>5
<1>7. x - 1 \in T
  BY <1>5, <1>6 DEF T
<1>8. <<x - 1, x>> \in R
  BY <1>5, <1>6, <1>2
<1> QED
  BY <1>4, <1>7, <1>8

-----------------------------------------------------------------------------
(* The values of a loop, from before the first of n elements on.           *)
Values(c, s, init, n, v) == v = [i \in 0 .. n |-> IF i = 0 THEN init ELSE Body(c, v[i - 1], s[i])]

(* The values of the loop up to any of its steps, by induction over the    *)
(* steps.                                                                  *)
LEMMA ValuesExist ==
  ASSUME NEW c, NEW s, NEW init, NEW n \in Nat
  PROVE  \E v : Values(c, s, init, n, v)
<1> DEFINE S == {m \in Nat : \E v : Values(c, s, init, m, v)}
<1>1. 0 \in S
  <2> DEFINE v == [i \in 0 .. 0 |-> init]
  <2>1. Values(c, s, init, 0, v)
    BY DEF Values
  <2> QED
    BY <2>1
<1>2. ASSUME NEW m \in Nat, m \in S PROVE m + 1 \in S
  <2>1. PICK u : Values(c, s, init, m, u)
    BY <1>2
  <2> DEFINE v == [i \in 0 .. (m + 1) |-> IF i = m + 1 THEN Body(c, u[m], s[m + 1]) ELSE u[i]]
  <2>2. ASSUME NEW i \in 0 .. (m + 1) PROVE v[i] = IF i = 0 THEN init ELSE Body(c, v[i - 1], s[i])
    <3>1. CASE i = m + 1
      BY <3>1, <2>1
    <3>2. CASE i \in 0 .. m
      <4>1. v[i] = u[i]
        BY <3>2
      <4>2. i # 0 => v[i - 1] = u[i - 1]
        BY <3>2
      <4> QED
        BY <4>1, <4>2, <2>1, <3>2 DEF Values
    <3> QED
      BY <3>1, <3>2
  <2>3. Values(c, s, init, m + 1, v)
    BY <2>2 DEF Values
  <2> QED
    BY <2>3
<1> HIDE DEF S
<1>3. Nat \subseteq S
  BY <1>1, <1>2, InductionOverNat
<1> QED
  BY <1>3 DEF S

-----------------------------------------------------------------------------
(* The loop with this body.                                                *)
Loop(c, s, init) == ForEach(s, init, LAMBDA value, x : Body(c, value, x))

(* The loop is the last of its values.                                     *)
LEMMA LoopIsLast ==
  ASSUME NEW c, NEW s, NEW init, Len(s) \in Nat
  PROVE  \E v : Values(c, s, init, Len(s), v) /\ Loop(c, s, init) = v[Len(s)]
<1> DEFINE n == Len(s)
           step(i, x) == CHOOSE v \in {Body(c, acc, s[i]) : acc \in {x}} : TRUE
           F(after) == [i \in 0 .. n |-> IF i = 0 THEN init ELSE step(i, after[i - 1])]
           last == CHOOSE after : after = F(after)
<1>1. ASSUME NEW i, NEW x PROVE step(i, x) = Body(c, x, s[i])
  OBVIOUS
<1>2. \A after : F(after) = [i \in 0 .. n |-> IF i = 0 THEN init ELSE Body(c, after[i - 1], s[i])]
  BY <1>1
<1>3. Loop(c, s, init) = last[n]
  BY DEF Loop, ForEach, Apply
<1> HIDE DEF F
<1>4. \E after : after = F(after)
  <2>1. PICK v : Values(c, s, init, n, v)
    BY ValuesExist
  <2>2. v = F(v)
    BY <1>2, <2>1 DEF Values
  <2> QED
    BY <2>2
<1>5. last = F(last)
  BY <1>4, Zenon
<1> HIDE DEF last
<1> QED
  BY <1>2, <1>3, <1>5 DEF Values

(* What holds before the loop and is kept by its body holds after it.      *)
LEMMA LoopKeeps ==
  ASSUME NEW c, NEW d, NEW s, NEW init, Len(s) \in Nat, Kept(d, 0, init),
         \A i \in 1 .. Len(s) : \A value : Kept(d, i - 1, value) => Kept(d, i, Body(c, value, s[i]))
  PROVE  Kept(d, Len(s), Loop(c, s, init))
<1> DEFINE n == Len(s)
<1>1. PICK v : Values(c, s, init, n, v) /\ Loop(c, s, init) = v[n]
  BY LoopIsLast
<1> DEFINE S == {i \in Nat : i <= n => Kept(d, i, v[i])}
<1>2. 0 \in S
  BY <1>1 DEF Values
<1>3. ASSUME NEW i \in Nat, i \in S PROVE i + 1 \in S
  <2> SUFFICES ASSUME i + 1 <= n PROVE Kept(d, i + 1, v[i + 1])
    OBVIOUS
  <2>1. i + 1 \in 1 .. n /\ (i + 1) - 1 = i /\ i <= n
    OBVIOUS
  <2>2. v[i + 1] = Body(c, v[i], s[i + 1])
    BY <1>1, <2>1 DEF Values
  <2>3. Kept(d, i, v[i])
    BY <1>3, <2>1
  <2> QED
    BY <2>1, <2>2, <2>3
<1> HIDE DEF S
<1>4. Nat \subseteq S
  BY <1>2, <1>3, InductionOverNat
<1> QED
  BY <1>1, <1>4 DEF S

-----------------------------------------------------------------------------
(* Loops whose bodies do the same with each element have the same values.  *)
LEMMA ValuesAgree ==
  ASSUME NEW c, NEW e, NEW s, NEW t, NEW init, NEW n \in Nat,
         NEW u, NEW v, Values(c, s, init, n, u), Values(e, t, init, n, v),
         \A i \in 1 .. n : \A value : Body(c, value, s[i]) = Body(e, value, t[i])
  PROVE  u[n] = v[n]
<1> DEFINE S == {i \in Nat : i <= n => u[i] = v[i]}
<1>1. 0 \in S
  BY DEF Values
<1>2. ASSUME NEW i \in Nat, i \in S PROVE i + 1 \in S
  <2> SUFFICES ASSUME i + 1 <= n PROVE u[i + 1] = v[i + 1]
    OBVIOUS
  <2>1. i + 1 \in 1 .. n /\ i + 1 \in 0 .. n /\ (i + 1) - 1 = i /\ i <= n /\ i + 1 # 0
    OBVIOUS
  <2>2. u[i + 1] = Body(c, u[i], s[i + 1]) /\ v[i + 1] = Body(e, v[i], t[i + 1])
    BY <2>1 DEF Values
  <2>3. u[i] = v[i]
    BY <1>2, <2>1
  <2> QED
    BY <2>1, <2>2, <2>3
<1> HIDE DEF S
<1>3. Nat \subseteq S
  BY <1>1, <1>2, InductionOverNat
<1> QED
  BY <1>3 DEF S

(* Two bodies that agree on the elements make the same of them.            *)
LEMMA LoopsAgree ==
  ASSUME NEW c, NEW e, NEW s, NEW t, NEW init, Len(s) \in Nat, Len(t) = Len(s),
         \A i \in 1 .. Len(s) : \A value : Body(c, value, s[i]) = Body(e, value, t[i])
  PROVE  Loop(c, s, init) = Loop(e, t, init)
<1> DEFINE n == Len(s)
<1>1. PICK u : Values(c, s, init, n, u) /\ Loop(c, s, init) = u[n]
  BY LoopIsLast
<1>2. PICK v : Values(e, t, init, n, v) /\ Loop(e, t, init) = v[n]
  BY LoopIsLast
<1> HIDE DEF n
<1>3. n \in Nat /\ \A i \in 1 .. n : \A value : Body(c, value, s[i]) = Body(e, value, t[i])
  BY DEF n
<1>4. u[n] = v[n]
  <2>1. Values(c, s, init, n, u) /\ Values(e, t, init, n, v)
    BY <1>1, <1>2
  <2> QED
    BY <1>3, <2>1, ValuesAgree
<1> QED
  BY <1>1, <1>2, <1>3, <1>4

(* Two bodies that do the same with each element.                          *)
SameBody(c, e, s) == Len(s) \in Nat /\ \A i \in 1 .. Len(s) : \A value : Body(c, value, s[i]) = Body(e, value, s[i])

(* Of the same elements too.                                               *)
LEMMA SameLoop ==
  ASSUME NEW c, NEW e, NEW s, NEW init, SameBody(c, e, s)
  PROVE  Loop(c, s, init) = Loop(e, s, init)
<1>1. Len(s) \in Nat /\ \A i \in 1 .. Len(s) : \A value : Body(c, value, s[i]) = Body(e, value, s[i])
  BY DEF SameBody
<1> QED
  BY <1>1, LoopsAgree

(* A loop over nothing, and over one element more.                         *)
LEMMA LoopOfNothing ==
  ASSUME NEW c, NEW init
  PROVE  Loop(c, << >>, init) = init
<1>1. Len(<< >>) = 0
  OBVIOUS
<1>2. PICK v : Values(c, << >>, init, 0, v) /\ Loop(c, << >>, init) = v[0]
  BY <1>1, LoopIsLast
<1> QED
  BY <1>2 DEF Values

(* One more element is one more step of the body.                          *)
LEMMA LoopOfAppend ==
  ASSUME NEW c, NEW init, NEW T, NEW s \in Seq(T), NEW x
  PROVE  Loop(c, Append(s, x), init) = Body(c, Loop(c, s, init), x)
<1> DEFINE n == Len(s)
           t == Append(s, x)
<1>1. n \in Nat /\ Len(t) = n + 1 /\ t[n + 1] = x /\ \A i \in 1 .. n : t[i] = s[i]
  OBVIOUS
<1>2. PICK u : Values(c, s, init, n, u) /\ Loop(c, s, init) = u[n]
  BY <1>1, LoopIsLast
<1> HIDE DEF t, n
<1>3. Len(t) \in Nat
  BY <1>1
<1>4. PICK v : Values(c, t, init, n + 1, v) /\ Loop(c, t, init) = v[n + 1]
  BY <1>1, <1>3, LoopIsLast
<1> DEFINE w == [i \in 0 .. n |-> v[i]]
<1>5. Values(c, s, init, n, w)
  <2>1. ASSUME NEW i \in 0 .. n PROVE w[i] = IF i = 0 THEN init ELSE Body(c, w[i - 1], s[i])
    <3>1. CASE i = 0
      <4>1. v[0] = init
        BY <1>1, <1>4 DEF Values
      <4> QED
        BY <3>1, <4>1, <1>1
    <3>2. CASE i # 0
      <4>1. i \in 1 .. n /\ i \in 0 .. (n + 1) /\ i - 1 \in 0 .. n
        BY <3>2, <1>1
      <4>2. v[i] = Body(c, v[i - 1], t[i])
        BY <3>2, <4>1, <1>4 DEF Values
      <4> QED
        BY <3>2, <4>1, <4>2, <1>1
    <3> QED
      BY <3>1, <3>2
  <2> QED
    BY <2>1 DEF Values
<1>6. w[n] = v[n]
  BY <1>1
<1> HIDE DEF w
<1>7. u[n] = w[n]
  BY <1>1, <1>2, <1>5, ValuesAgree
<1>8. u[n] = v[n]
  BY <1>1, <1>6, <1>7
<1>9. v[n + 1] = Body(c, v[n], t[n + 1])
  <2>1. n + 1 \in 0 .. (n + 1) /\ n + 1 # 0 /\ (n + 1) - 1 = n
    BY <1>1
  <2> QED
    BY <2>1, <1>4 DEF Values
<1> QED
  BY <1>1, <1>2, <1>4, <1>8, <1>9 DEF t

(* Induction over sequences.                                               *)
LEMMA InductionOverSeq ==
  ASSUME NEW T, NEW S, << >> \in S,
         \A s \in Seq(T) : \A x \in T : s \in S => Append(s, x) \in S
  PROVE  Seq(T) \subseteq S
<1> DEFINE N == {n \in Nat : \A s \in Seq(T) : Len(s) = n => s \in S}
<1>1. 0 \in N
  <2>1. \A s \in Seq(T) : Len(s) = 0 => s = << >>
    OBVIOUS
  <2> QED
    BY <2>1
<1>2. ASSUME NEW n \in Nat, n \in N PROVE n + 1 \in N
  <2> SUFFICES ASSUME NEW s \in Seq(T), Len(s) = n + 1 PROVE s \in S
    OBVIOUS
  <2> DEFINE t == SubSeq(s, 1, n)
  <2>1. t \in Seq(T) /\ Len(t) = n /\ s[n + 1] \in T
    OBVIOUS
  <2>2. s = Append(t, s[n + 1])
    OBVIOUS
  <2>3. t \in S
    BY <2>1, <1>2
  <2> HIDE DEF t
  <2> QED
    BY <2>1, <2>2, <2>3
<1> HIDE DEF N
<1>3. Nat \subseteq N
  BY <1>1, <1>2, InductionOverNat
<1> QED
  BY <1>3 DEF N

(* A loop over two sequences is one loop after the other.                  *)
LEMMA LoopOverBoth ==
  ASSUME NEW c, NEW init, NEW T, NEW s \in Seq(T), NEW t \in Seq(T)
  PROVE  Loop(c, s \o t, init) = Loop(c, t, Loop(c, s, init))
<1> DEFINE S == {q \in Seq(T) : Loop(c, s \o q, init) = Loop(c, q, Loop(c, s, init))}
<1>1. << >> \in S
  <2>1. s \o << >> = s /\ << >> \in Seq(T)
    OBVIOUS
  <2> QED
    BY <2>1, LoopOfNothing
<1>2. ASSUME NEW q \in Seq(T), NEW x \in T, q \in S PROVE Append(q, x) \in S
  <2>1. s \o Append(q, x) = Append(s \o q, x) /\ s \o q \in Seq(T) /\ Append(q, x) \in Seq(T)
    OBVIOUS
  <2>2. Loop(c, Append(s \o q, x), init) = Body(c, Loop(c, s \o q, init), x)
    <3> DEFINE p == s \o q
    <3>1. p \in Seq(T)
      BY <2>1
    <3> HIDE DEF p
    <3>2. Loop(c, Append(p, x), init) = Body(c, Loop(c, p, init), x)
      BY <3>1, LoopOfAppend
    <3> QED
      BY <3>2 DEF p
  <2>3. \A w : Loop(c, Append(q, x), w) = Body(c, Loop(c, q, w), x)
    BY LoopOfAppend
  <2> QED
    BY <1>2, <2>1, <2>2, <2>3
<1> HIDE DEF S
<1>3. Seq(T) \subseteq S
  BY <1>1, <1>2, InductionOverSeq
<1> QED
  BY <1>3 DEF S

-----------------------------------------------------------------------------
(* A recursive function over S: Body(c, f, x) is the value for x, given    *)
(* those for what is lower.                                                *)
Founded(c, S, h) ==
  \A x \in S : \A f, g :
    (\A y \in S : h[y] < h[x] => f[y] = g[y]) => Body(c, f, x) = Body(c, g, x)
Lower(S, h, n) == {x \in S : h[x] < n}
UpTo(c, S, h, n, f) == f = [x \in Lower(S, h, n) |-> Body(c, f, x)]

(* What holds of an element when it holds of all lower ones, holds of all. *)
LEMMA InductionOverHeights ==
  ASSUME NEW S, NEW h \in [S -> Nat], NEW P,
         \A x \in S : (\A y \in S : h[y] < h[x] => y \in P) => x \in P
  PROVE  S \subseteq P
<1> DEFINE N == {n \in Nat : \A x \in S : h[x] < n => x \in P}
<1>1. 0 \in N
  OBVIOUS
<1>2. ASSUME NEW n \in Nat, n \in N PROVE n + 1 \in N
  <2> SUFFICES ASSUME NEW x \in S, h[x] < n + 1 PROVE x \in P
    OBVIOUS
  <2>1. \A y \in S : h[y] < h[x] => h[y] < n
    OBVIOUS
  <2> QED
    BY <1>2, <2>1
<1> HIDE DEF N
<1>3. Nat \subseteq N
  BY <1>1, <1>2, InductionOverNat
<1> SUFFICES ASSUME NEW x \in S PROVE x \in P
  OBVIOUS
<1>4. h[x] + 1 \in Nat /\ h[x] < h[x] + 1
  OBVIOUS
<1> QED
  BY <1>3, <1>4 DEF N

(* Two functions that are defined so up to some heights agree where both   *)
(* are.                                                                    *)
LEMMA ValuesBelowAgree ==
  ASSUME NEW c, NEW S, NEW h \in [S -> Nat], Founded(c, S, h), NEW m \in Nat, NEW n \in Nat,
         NEW f, NEW g, UpTo(c, S, h, m, f), UpTo(c, S, h, n, g), NEW x \in S, h[x] < m, h[x] < n
  PROVE  f[x] = g[x]
<1> DEFINE P == {y \in S : h[y] < m /\ h[y] < n => f[y] = g[y]}
<1>1. ASSUME NEW y \in S, \A z \in S : h[z] < h[y] => z \in P PROVE y \in P
  <2> SUFFICES ASSUME h[y] < m, h[y] < n PROVE f[y] = g[y]
    OBVIOUS
  <2>1. \A z \in S : h[z] < h[y] => h[z] < m /\ h[z] < n
    OBVIOUS
  <2>2. \A z \in S : h[z] < h[y] => f[z] = g[z]
    BY <1>1, <2>1
  <2>3. Body(c, f, y) = Body(c, g, y)
    BY <2>2 DEF Founded
  <2> QED
    BY <2>3 DEF UpTo, Lower
<1> HIDE DEF P
<1>2. S \subseteq P
  BY <1>1, InductionOverHeights
<1> QED
  BY <1>2 DEF P

(* There is such a function up to any height.                              *)
LEMMA ValuesUpToExist ==
  ASSUME NEW c, NEW S, NEW h \in [S -> Nat], Founded(c, S, h), NEW n \in Nat
  PROVE  \E f : UpTo(c, S, h, n, f)
<1> DEFINE N == {m \in Nat : \E f : UpTo(c, S, h, m, f)}
<1>1. 0 \in N
  <2> DEFINE f == [x \in {} |-> x]
  <2>1. Lower(S, h, 0) = {}
    BY DEF Lower
  <2>2. f = [x \in {} |-> Body(c, f, x)]
    OBVIOUS
  <2> QED
    BY <2>1, <2>2 DEF UpTo
<1>2. ASSUME NEW m \in Nat, m \in N PROVE m + 1 \in N
  <2>1. PICK f : UpTo(c, S, h, m, f)
    BY <1>2
  <2> DEFINE g == [x \in Lower(S, h, m + 1) |-> Body(c, f, x)]
  <2>2. ASSUME NEW y \in S, h[y] < m PROVE g[y] = f[y]
    <3>1. h[y] < m + 1
      BY <2>2
    <3> QED
      BY <2>1, <2>2, <3>1 DEF UpTo, Lower
  <2>3. ASSUME NEW x \in Lower(S, h, m + 1) PROVE g[x] = Body(c, g, x)
    <3>1. x \in S /\ \A y \in S : h[y] < h[x] => h[y] < m
      BY DEF Lower
    <3> HIDE DEF g
    <3>2. \A y \in S : h[y] < h[x] => f[y] = g[y]
      BY <2>2, <3>1
    <3>3. Body(c, f, x) = Body(c, g, x)
      BY <3>1, <3>2 DEF Founded
    <3> QED
      BY <3>3 DEF g
  <2>4. UpTo(c, S, h, m + 1, g)
    BY <2>3 DEF UpTo
  <2> HIDE DEF g
  <2> QED
    BY <2>4
<1> HIDE DEF N
<1>3. Nat \subseteq N
  BY <1>1, <1>2, InductionOverNat
<1> QED
  BY <1>3 DEF N

(* There is such a function: what a recursive definition defines.          *)
THEOREM RecursionDefines ==
  ASSUME NEW c, NEW S, NEW h \in [S -> Nat], Founded(c, S, h)
  PROVE  \E f : f = [x \in S |-> Body(c, f, x)]
<1> DEFINE F(n) == CHOOSE f : UpTo(c, S, h, n, f)
           g == [x \in S |-> F(h[x] + 1)[x]]
<1>1. \A n \in Nat : UpTo(c, S, h, n, F(n))
  BY ValuesUpToExist
<1> HIDE DEF F
<1>2. ASSUME NEW x \in S PROVE g[x] = Body(c, g, x)
  <2> DEFINE n == h[x] + 1
  <2>1. n \in Nat /\ h[x] < n
    OBVIOUS
  <2>2. ASSUME NEW y \in S, h[y] < h[x] PROVE F(n)[y] = g[y]
    <3>1. h[y] + 1 \in Nat /\ h[y] < h[y] + 1 /\ h[y] < n
      BY <2>2
    <3>2. UpTo(c, S, h, n, F(n)) /\ UpTo(c, S, h, h[y] + 1, F(h[y] + 1))
      BY <1>1, <2>1, <3>1
    <3> DEFINE m == h[y] + 1
               u == F(n)
               v == F(m)
    <3> HIDE DEF m, u, v, n
    <3>3. u[y] = v[y]
      BY <2>1, <3>1, <3>2, ValuesBelowAgree DEF m, u, v
    <3> QED
      BY <3>3 DEF m, u, v
  <2>3. g[x] = F(n)[x]
    OBVIOUS
  <2>4. F(n)[x] = Body(c, F(n), x)
    BY <1>1, <2>1 DEF UpTo, Lower
  <2> HIDE DEF g, n
  <2>5. Body(c, F(n), x) = Body(c, g, x)
    BY <2>2 DEF Founded
  <2> QED
    BY <2>3, <2>4, <2>5
<1>3. g = [x \in S |-> Body(c, g, x)]
  BY <1>2
<1> HIDE DEF g
<1> QED
  BY <1>3
=============================================================================
