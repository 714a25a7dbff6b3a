---------------------------- MODULE FilterProofs ----------------------------
(***************************************************************************)
(* What a list comprehension with a condition returns: the elements that    *)
(* satisfy it, each in its place among the others (Filters!Kept), for every *)
(* list.  Kept is a recursive function on the length of a prefix of the      *)
(* list, so this takes an induction, which is the other result of the        *)
(* module: the theorems of NaturalsInduction are about an operator, and for  *)
(* a set the same follows from a smallest number outside it.                *)
(***************************************************************************)
EXTENDS Filters, SequenceTheorems, NaturalsInduction, WellFoundedInduction, TLAPS

-----------------------------------------------------------------------------
(* Induction over the natural numbers, for a set. *)

Smaller == {p \in Nat \X Nat : p[1] < p[2]}

LEMMA SmallerWellFounded == IsWellFoundedOn(Smaller, Nat)
BY NatLessThanWellFounded DEF OpToRel, Smaller

LEMMA NatSetInduction ==
  ASSUME NEW S, 0 \in S, \A n \in Nat : n \in S => n + 1 \in S
  PROVE  Nat \subseteq S
<1> SUFFICES ASSUME Nat \ S # {} PROVE FALSE
  OBVIOUS
<1> DEFINE T == Nat \ S
<1>1. T \subseteq Nat /\ T # {}
  OBVIOUS
<1> HIDE DEF T
<1>2. PICK n \in T : \A m \in T : ~(<<m, n>> \in Smaller)
  BY <1>1, SmallerWellFounded, WFMin
<1>3. n \in Nat /\ n # 0 /\ n \notin S
  BY <1>2 DEF T
<1>4. n - 1 \in Nat /\ (n - 1) + 1 = n
  BY <1>3
<1>5. n - 1 \in T
  BY <1>3, <1>4 DEF T
<1>6. <<n - 1, n>> \in Smaller
  BY <1>3, <1>4 DEF Smaller
<1> QED BY <1>2, <1>5, <1>6

-----------------------------------------------------------------------------
(* The recursive function *)

\* f is the function by which Kept is defined, on the prefixes of up to n elements.
KeepsOver(f, s, T, n) ==
  f = [k \in 0..n |->
         IF k = 0 THEN <<>> ELSE IF s[k] \in T THEN Append(f[k - 1], s[k]) ELSE f[k - 1]]

\* There is such a function for every length.
LEMMA KeepsExist == ASSUME NEW s, NEW T PROVE \A n \in Nat : \E f : KeepsOver(f, s, T, n)
<1> DEFINE S == {n \in Nat : \E f : KeepsOver(f, s, T, n)}
<1>1. 0 \in S
  <2>1. PICK f : f = [k \in 0..0 |-> <<>>]
    OBVIOUS
  <2>2. KeepsOver(f, s, T, 0)
    <3>1. \A k \in 0..0 : k = 0
      OBVIOUS
    <3> QED BY <2>1, <3>1 DEF KeepsOver
  <2> QED BY <2>2
<1>2. ASSUME NEW n \in Nat, n \in S PROVE n + 1 \in S
  <2>1. PICK f : KeepsOver(f, s, T, n)
    BY <1>2
  <2>2. PICK g : g = [k \in 0..(n + 1) |->
                        IF k = n + 1
                        THEN IF s[n + 1] \in T THEN Append(f[n], s[n + 1]) ELSE f[n]
                        ELSE f[k]]
    OBVIOUS
  <2>3. ASSUME NEW k \in 0..(n + 1)
        PROVE  g[k] = IF k = 0 THEN <<>>
                      ELSE IF s[k] \in T THEN Append(g[k - 1], s[k]) ELSE g[k - 1]
    <3>1. CASE k = n + 1
      <4>1. k # 0 /\ k - 1 = n /\ n \in 0..(n + 1) /\ n # n + 1
        BY <3>1
      <4>2. g[k - 1] = f[n]
        BY <2>2, <4>1
      <4> QED BY <2>2, <3>1, <4>1, <4>2
    <3>2. CASE k # n + 1
      <4>1. k \in 0..n
        BY <3>2
      <4>2. g[k] = f[k]
        BY <2>2, <3>2
      <4>3. f[k] = IF k = 0 THEN <<>>
                   ELSE IF s[k] \in T THEN Append(f[k - 1], s[k]) ELSE f[k - 1]
        BY <2>1, <4>1 DEF KeepsOver
      <4>4. k # 0 => k - 1 \in 0..(n + 1) /\ k - 1 # n + 1
        BY <4>1
      <4>5. k # 0 => g[k - 1] = f[k - 1]
        BY <2>2, <4>4
      <4> QED BY <4>2, <4>3, <4>5
    <3> QED BY <3>1, <3>2
  <2>4. KeepsOver(g, s, T, n + 1)
    BY <2>2, <2>3 DEF KeepsOver
  <2> QED BY <2>4
<1> HIDE DEF S
<1>3. Nat \subseteq S
  BY <1>1, <1>2, NatSetInduction
<1> QED BY <1>3 DEF S

\* Kept is that function's value for the whole list.
LEMMA KeptIsLast ==
  ASSUME NEW s, NEW T, Len(s) \in Nat
  PROVE  \E f : KeepsOver(f, s, T, Len(s)) /\ Kept(s, T) = f[Len(s)]
<1> DEFINE F == CHOOSE f : KeepsOver(f, s, T, Len(s))
<1>1. \E f : KeepsOver(f, s, T, Len(s))
  BY KeepsExist
<1>2. KeepsOver(F, s, T, Len(s))
  BY <1>1
<1>3. Kept(s, T) = F[Len(s)]
  BY DEF Kept, KeepsOver
<1> HIDE DEF F
<1> QED BY <1>2, <1>3

-----------------------------------------------------------------------------
(* What is kept *)

\* The list t is what a prefix of n elements of s has in T: g says where in s each
\* element of t stands.
Places(g, t, s, T, n) ==
  /\ g \in [1..Len(t) -> 1..n]
  /\ \A i \in 1..Len(t) : t[i] = s[g[i]] /\ s[g[i]] \in T
  /\ \A i, j \in 1..Len(t) : i < j => g[i] < g[j]
  /\ \A m \in 1..n : s[m] \in T => \E i \in 1..Len(t) : g[i] = m

\* It is shorter, or the prefix itself.
ShorterOrSame(t, s, n) ==
  /\ Len(t) <= n
  /\ Len(t) = n => \A m \in 1..n : t[m] = s[m]

\* One more element, which is in T.
LEMMA PlacesAppend ==
  ASSUME NEW X, NEW s \in Seq(X), NEW T, NEW t \in Seq(X), NEW n \in Nat, NEW g,
         n + 1 \in 1..Len(s), s[n + 1] \in T, Places(g, t, s, T, n), ShorterOrSame(t, s, n)
  PROVE  LET u == Append(t, s[n + 1])
         IN  /\ u \in Seq(X)
             /\ ShorterOrSame(u, s, n + 1)
             /\ \E h : Places(h, u, s, T, n + 1)
<1> DEFINE x == s[n + 1]
           u == Append(t, x)
           l == Len(t)
<1>1. x \in X
  BY ElementOfSeq
<1>2. u \in Seq(X) /\ Len(u) = l + 1 /\ u[l + 1] = x /\ \A i \in 1..l : u[i] = t[i]
  BY <1>1, AppendProperties
<1>3. l \in Nat /\ l <= n
  BY LenProperties DEF ShorterOrSame
<1> HIDE DEF x, u, l
<1>4. ShorterOrSame(u, s, n + 1)
  <2>1. Len(u) <= n + 1
    BY <1>2, <1>3
  <2>2. ASSUME Len(u) = n + 1, NEW m \in 1..(n + 1) PROVE u[m] = s[m]
    <3>1. l = n
      BY <1>2, <1>3, <2>2
    <3>2. CASE m = n + 1
      BY <1>2, <3>1, <3>2 DEF x
    <3>3. CASE m # n + 1
      <4>1. m \in 1..l
        BY <3>1, <3>3
      <4>2. t[m] = s[m]
        BY <3>1, <4>1 DEF ShorterOrSame, l
      <4> QED BY <1>2, <4>1, <4>2
    <3> QED BY <3>2, <3>3
  <2> QED BY <2>1, <2>2 DEF ShorterOrSame
<1>5. PICK h : h = [i \in 1..(l + 1) |-> IF i = l + 1 THEN n + 1 ELSE g[i]]
  OBVIOUS
<1>6. Places(h, u, s, T, n + 1)
  <2>0. /\ g \in [1..l -> 1..n]
        /\ \A i \in 1..l : t[i] = s[g[i]] /\ s[g[i]] \in T
        /\ \A i, j \in 1..l : i < j => g[i] < g[j]
        /\ \A m \in 1..n : s[m] \in T => \E i \in 1..l : g[i] = m
    BY DEF Places, l
  <2>1. h \in [1..Len(u) -> 1..(n + 1)]
    BY <1>2, <1>3, <1>5, <2>0
  <2>2. ASSUME NEW i \in 1..Len(u) PROVE u[i] = s[h[i]] /\ s[h[i]] \in T
    <3>1. CASE i = l + 1
      BY <1>2, <1>5, <3>1 DEF x
    <3>2. CASE i # l + 1
      <4>1. i \in 1..l
        BY <1>2, <1>3, <3>2
      <4>2. h[i] = g[i]
        BY <1>2, <1>5, <3>2
      <4> QED BY <1>2, <2>0, <4>1, <4>2
    <3> QED BY <3>1, <3>2
  <2>3. ASSUME NEW i \in 1..Len(u), NEW j \in 1..Len(u), i < j PROVE h[i] < h[j]
    <3>0. i \in 1..l /\ i # l + 1 /\ i \in 1..(l + 1)
      BY <1>2, <1>3, <2>3
    <3>1. h[i] = g[i] /\ g[i] \in 1..n
      BY <1>5, <2>0, <3>0
    <3>2. CASE j = l + 1
      <4>1. h[j] = n + 1
        BY <1>2, <1>5, <3>2
      <4> QED BY <3>1, <4>1
    <3>3. CASE j # l + 1
      <4>1. j \in 1..l /\ h[j] = g[j]
        BY <1>2, <1>3, <1>5, <3>3
      <4> QED BY <2>0, <2>3, <3>0, <3>1, <4>1
    <3> QED BY <3>2, <3>3
  <2>4. ASSUME NEW m \in 1..(n + 1), s[m] \in T PROVE \E i \in 1..Len(u) : h[i] = m
    <3>1. CASE m = n + 1
      <4>1. l + 1 \in 1..Len(u) /\ h[l + 1] = m
        BY <1>2, <1>3, <1>5, <3>1
      <4> QED BY <4>1
    <3>2. CASE m # n + 1
      <4>1. m \in 1..n
        BY <3>2
      <4>2. PICK i \in 1..l : g[i] = m
        BY <2>0, <2>4, <4>1
      <4>3. i \in 1..Len(u) /\ h[i] = m
        BY <1>2, <1>3, <1>5, <4>2
      <4> QED BY <4>3
    <3> QED BY <3>1, <3>2
  <2> QED BY <2>1, <2>2, <2>3, <2>4 DEF Places
<1>7. /\ u \in Seq(X)
      /\ ShorterOrSame(u, s, n + 1)
      /\ \E h1 : Places(h1, u, s, T, n + 1)
  BY <1>2, <1>4, <1>6
<1> QED BY <1>7 DEF u, x

\* One more element, which is not.
LEMMA PlacesSkip ==
  ASSUME NEW X, NEW s \in Seq(X), NEW T, NEW t \in Seq(X), NEW n \in Nat, NEW g,
         s[n + 1] \notin T, Places(g, t, s, T, n), ShorterOrSame(t, s, n)
  PROVE  ShorterOrSame(t, s, n + 1) /\ Places(g, t, s, T, n + 1)
<1>1. Len(t) \in Nat /\ Len(t) <= n
  BY LenProperties DEF ShorterOrSame
<1>2. ShorterOrSame(t, s, n + 1)
  BY <1>1 DEF ShorterOrSame
<1>3. g \in [1..Len(t) -> 1..(n + 1)]
  BY DEF Places
<1>4. ASSUME NEW m \in 1..(n + 1), s[m] \in T PROVE \E i \in 1..Len(t) : g[i] = m
  <2>1. m \in 1..n
    BY <1>4
  <2> QED BY <1>4, <2>1 DEF Places
<1> QED BY <1>2, <1>3, <1>4 DEF Places

\* What is kept of a list: a list of the elements in T, in their order, and the list
\* itself when it is as long.
THEOREM KeptKeeps ==
  ASSUME NEW X, NEW s \in Seq(X), NEW T
  PROVE  /\ Kept(s, T) \in Seq(X)
         /\ ShorterOrSame(Kept(s, T), s, Len(s))
         /\ \E g : Places(g, Kept(s, T), s, T, Len(s))
<1>1. Len(s) \in Nat
  BY LenProperties
<1>2. PICK f : KeepsOver(f, s, T, Len(s)) /\ Kept(s, T) = f[Len(s)]
  BY <1>1, KeptIsLast
<1> DEFINE Good(n) == /\ f[n] \in Seq(X)
                      /\ ShorterOrSame(f[n], s, n)
                      /\ \E g : Places(g, f[n], s, T, n)
           S == {n \in Nat : n <= Len(s) => Good(n)}
<1>3. 0 \in S
  <2>1. 0 \in 0..Len(s)
    BY <1>1
  <2>2. f[0] = <<>>
    BY <1>2, <2>1 DEF KeepsOver
  <2>3. f[0] \in Seq(X) /\ Len(f[0]) = 0
    BY <2>2, EmptySeq
  <2>4. ShorterOrSame(f[0], s, 0)
    BY <2>3 DEF ShorterOrSame
  <2>5. PICK g : g = [i \in 1..0 |-> 1]
    OBVIOUS
  <2>6. Places(g, f[0], s, T, 0)
    BY <2>3, <2>5 DEF Places
  <2> QED BY <2>3, <2>4, <2>6
<1>4. ASSUME NEW n \in Nat, n \in S PROVE n + 1 \in S
  <2> SUFFICES ASSUME n + 1 <= Len(s) PROVE Good(n + 1)
    OBVIOUS
  <2>1. n + 1 \in 0..Len(s) /\ n + 1 \in 1..Len(s) /\ n + 1 # 0 /\ (n + 1) - 1 = n
    BY <1>1
  <2>2. Good(n)
    BY <1>1, <1>4
  <2>3. f[n + 1] = IF s[n + 1] \in T THEN Append(f[n], s[n + 1]) ELSE f[n]
    BY <1>2, <2>1 DEF KeepsOver
  <2>4. PICK g : Places(g, f[n], s, T, n)
    BY <2>2
  <2>5. CASE s[n + 1] \in T
    BY <2>1, <2>2, <2>3, <2>4, <2>5, PlacesAppend
  <2>6. CASE s[n + 1] \notin T
    BY <2>2, <2>3, <2>4, <2>6, PlacesSkip
  <2> QED BY <2>5, <2>6
<1>5. Len(s) \in S => Good(Len(s))
  BY <1>1
<1> HIDE DEF S
<1>6. Nat \subseteq S
  BY <1>3, <1>4, NatSetInduction
<1>7. Good(Len(s))
  BY <1>1, <1>5, <1>6
<1> QED BY <1>2, <1>7

\* As sets.
LEMMA KeptElements ==
  ASSUME NEW X, NEW s \in Seq(X), NEW T
  PROVE  /\ \A i \in 1..Len(Kept(s, T)) :
              Kept(s, T)[i] \in T /\ \E m \in 1..Len(s) : s[m] = Kept(s, T)[i]
         /\ \A m \in 1..Len(s) :
              s[m] \in T => \E i \in 1..Len(Kept(s, T)) : Kept(s, T)[i] = s[m]
<1>1. PICK g : Places(g, Kept(s, T), s, T, Len(s))
  BY KeptKeeps
<1> QED BY <1>1 DEF Places
=============================================================================
