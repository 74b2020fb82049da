-------------------------- MODULE DataLemmas --------------------------
(* Facts about extremes of sets of numbers, about recursions over 0 .. n   *)
(* and about Keep.  The induction is by the least counterexample.          *)
EXTENDS Subsequences, NaturalsInduction, WellFoundedInduction, SequenceTheorems, TLAPS

Less == {ss \in Nat \X Nat : ss[1] < ss[2]}

(* A set of numbers has a least element.                                   *)
LEMMA Least == ASSUME NEW S, S \subseteq Nat, S # {} PROVE \E m \in S : \A k \in S : m <= k
<1>1. IsWellFoundedOn(Less, Nat)
  <2>1. OpToRel(<, Nat) = Less
    BY Zenon DEF OpToRel, Less
  <2> QED BY <2>1, NatLessThanWellFounded, Zenon
<1>2. PICK x \in S : \A y \in S : ~(<<y, x>> \in Less)
  BY <1>1, WFMin
<1>3. ASSUME NEW y \in S, ~(x <= y) PROVE FALSE
  <2>1. x \in Nat /\ y \in Nat /\ y < x
    BY <1>3
  <2>2. <<y, x>> \in Nat \X Nat /\ <<y, x>>[1] = y /\ <<y, x>>[2] = x
    BY <2>1
  <2>3. <<y, x>> \in Less
    BY <2>1, <2>2, Zenon DEF Less
  <2> QED BY <1>2, <2>3
<1> QED BY <1>3

(* Induction up to a bound, for a property given as a set.                 *)
LEMMA Counted ==
    ASSUME NEW k \in Nat, NEW S, 0 \in S, \A n \in 1 .. k : n - 1 \in S => n \in S
    PROVE  \A n \in 0 .. k : n \in S
<1> DEFINE Bad == {n \in 0 .. k : n \notin S}
<1>1. ASSUME Bad # {} PROVE FALSE
  <2>1. Bad \subseteq Nat
    OBVIOUS
  <2>2. PICK m \in Bad : \A n \in Bad : m <= n
    <3> HIDE DEF Bad
    <3> QED BY <1>1, <2>1, Least
  <2>3. m \in 1 .. k /\ m \notin S
    BY <2>2
  <2>4. m - 1 \in 0 .. k /\ ~(m <= m - 1)
    BY <2>3
  <2>5. m - 1 \in S
    BY <2>2, <2>4
  <2> QED BY <2>3, <2>5
<1> QED BY <1>1

(* Each value of f, up to k, is F of the one before it.                    *)
Iterates(f, D, k, a, F) ==
    f \in [0 .. k -> D] /\ f[0] = a /\ \A n \in 1 .. k : f[n] = F[n][f[n - 1]]

(* A recursion over the numbers up to k has a solution.                    *)
LEMMA Recursion ==
    ASSUME NEW D, NEW k \in Nat, NEW a \in D, NEW F \in [1 .. k -> [D -> D]]
    PROVE  \E f : Iterates(f, D, k, a, F)
<1> DEFINE Solves(f, j) == /\ f \in [0 .. j -> D] /\ f[0] = a
                           /\ \A n \in 1 .. j : f[n] = F[n][f[n - 1]]
           S == {j \in 0 .. k : \E f : Solves(f, j)}
<1>1. 0 \in S
  <2> DEFINE f == [n \in {0} |-> a]
  <2>1. 0 .. 0 = {0} /\ 1 .. 0 = {} /\ f[0] = a
    OBVIOUS
  <2>2. Solves(f, 0)
    BY <2>1
  <2>3. 0 \in 0 .. k
    OBVIOUS
  <2> HIDE DEF f, Solves
  <2> QED BY <2>2, <2>3
<1>2. ASSUME NEW m \in 1 .. k, m - 1 \in S PROVE m \in S
  <2>0. m \in Nat /\ m - 1 \in Nat /\ m \in 0 .. k /\ m - 1 \in 0 .. (m - 1) /\ m # 0
    OBVIOUS
  <2>1. PICK f : Solves(f, m - 1)
    BY <1>2
  <2> DEFINE g == [n \in 0 .. m |-> IF n = m THEN F[m][f[m - 1]] ELSE f[n]]
  <2>2. f[m - 1] \in D
    BY <2>0, <2>1
  <2>3. F[m][f[m - 1]] \in D
    BY <2>2
  <2>4. \A n \in 0 .. m : n # m => n \in 0 .. (m - 1)
    BY <2>0
  <2>5. g \in [0 .. m -> D]
    BY <2>1, <2>3, <2>4
  <2>6. g[m] = F[m][f[m - 1]] /\ \A n \in 0 .. (m - 1) : g[n] = f[n]
    BY <2>0
  <2>7. g[0] = a
    <3>1. 0 \in 0 .. (m - 1)
      BY <2>0
    <3> QED BY <2>1, <2>6, <3>1
  <2> HIDE DEF g
  <2>8. ASSUME NEW n \in 1 .. m PROVE g[n] = F[n][g[n - 1]]
    <3>1. CASE n = m
      BY <2>0, <2>6, <3>1
    <3>2. CASE n # m
      <4>1. n \in 1 .. (m - 1) /\ n \in 0 .. (m - 1) /\ n - 1 \in 0 .. (m - 1)
        BY <2>0, <3>2
      <4>2. f[n] = F[n][f[n - 1]]
        BY <2>1, <4>1
      <4>3. g[n] = f[n] /\ g[n - 1] = f[n - 1]
        BY <2>6, <4>1
      <4> QED BY <4>2, <4>3
    <3> QED BY <3>1, <3>2
  <2>9. Solves(g, m)
    BY <2>5, <2>7, <2>8
  <2> QED BY <2>0, <2>9
<1>3. k \in S
  <2> HIDE DEF S
  <2>1. k \in 0 .. k
    OBVIOUS
  <2> QED BY <1>1, <1>2, <2>1, Counted
<1> QED BY <1>3 DEF Iterates

(* One more element is looked at.                                          *)
Taken(q, e, T) == IF e \in T THEN Append(q, e) ELSE q

(* f is what has been kept of each prefix of s.                            *)
Records(f, S, s, T) ==
    /\ f \in [0 .. Len(s) -> Seq(S)] /\ f[0] = <<>>
    /\ \A n \in 1 .. Len(s) : f[n] = Taken(f[n - 1], s[n], T)

(* The recursion has a solution.                                           *)
LEMMA KeptExists ==
    ASSUME NEW S, NEW s \in Seq(S), NEW T PROVE \E f : Records(f, S, s, T)
<1> DEFINE F == [n \in 1 .. Len(s) |-> [q \in Seq(S) |-> Taken(q, s[n], T)]]
<1>0. Len(s) \in Nat /\ <<>> \in Seq(S) /\ \A n \in 1 .. Len(s) : s[n] \in S
  OBVIOUS
<1>1. F \in [1 .. Len(s) -> [Seq(S) -> Seq(S)]]
  <2>1. ASSUME NEW q \in Seq(S), NEW n \in 1 .. Len(s) PROVE Taken(q, s[n], T) \in Seq(S)
    BY <1>0 DEF Taken
  <2> QED BY <2>1
<1>2. \A q \in Seq(S) : \A n \in 1 .. Len(s) : F[n][q] = Taken(q, s[n], T)
  OBVIOUS
<1> HIDE DEF F
<1>3. PICK f : Iterates(f, Seq(S), Len(s), <<>>, F)
  BY <1>0, <1>1, Recursion
<1>4. ASSUME NEW n \in 1 .. Len(s) PROVE f[n] = Taken(f[n - 1], s[n], T)
  <2>1. n - 1 \in 0 .. Len(s)
    BY <1>0
  <2> QED BY <1>2, <1>3, <2>1 DEF Iterates
<1> QED BY <1>3, <1>4 DEF Records, Iterates

(* So KeptOf is that solution.                                             *)
LEMMA KeptSolves ==
    ASSUME NEW S, NEW s \in Seq(S), NEW T
    PROVE  /\ DOMAIN KeptOf(s, T) = 0 .. Len(s)
           /\ KeptOf(s, T)[0] = <<>>
           /\ \A n \in 1 .. Len(s) : KeptOf(s, T)[n] = Taken(KeptOf(s, T)[n - 1], s[n], T)
<1> DEFINE Body(f) == [n \in 0 .. Len(s) |->
                          IF n = 0 THEN <<>>
                          ELSE IF s[n] \in T THEN Append(f[n - 1], s[n])
                          ELSE f[n - 1]]
<1>0. PICK f : Records(f, S, s, T)
  BY KeptExists
<1>1. /\ f \in [0 .. Len(s) -> Seq(S)] /\ f[0] = <<>>
      /\ \A n \in 1 .. Len(s) : f[n] = Taken(f[n - 1], s[n], T)
  BY <1>0 DEF Records
<1>2. \A n \in 0 .. Len(s) : n = 0 \/ n \in 1 .. Len(s)
  OBVIOUS
<1>3. f = Body(f)
  <2>1. \A n \in 0 .. Len(s) : f[n] = Body(f)[n]
    BY <1>1, <1>2 DEF Taken
  <2> QED BY <1>1, <2>1
<1>4. KeptOf(s, T) = CHOOSE g : g = Body(g)
  BY DEF KeptOf
<1>5. KeptOf(s, T) = Body(KeptOf(s, T))
  <2> HIDE DEF Body
  <2> QED BY <1>3, <1>4
<1>6. ASSUME NEW n \in 1 .. Len(s) PROVE KeptOf(s, T)[n] = Taken(KeptOf(s, T)[n - 1], s[n], T)
  <2>1. n \in 0 .. Len(s) /\ n # 0
    OBVIOUS
  <2> QED BY <1>5, <2>1 DEF Taken
<1>7. DOMAIN KeptOf(s, T) = 0 .. Len(s)
  BY <1>5
<1>8. KeptOf(s, T)[0] = <<>>
  <2>1. 0 \in 0 .. Len(s)
    OBVIOUS
  <2> QED BY <1>5, <2>1
<1> QED BY <1>6, <1>7, <1>8

(* What Keep keeps: an increasing selection h of the positions of s, of    *)
(* exactly those that hold an element of T.                                *)
Selects(h, q, s, k, T) ==
    /\ h \in [1 .. Len(q) -> 1 .. k]
    /\ \A i \in 1 .. Len(q) : q[i] = s[h[i]] /\ s[h[i]] \in T
    /\ \A i, j \in 1 .. Len(q) : i < j => h[i] < h[j]
    /\ \A n \in 1 .. k : s[n] \in T => \E i \in 1 .. Len(q) : h[i] = n

LEMMA KeepSelects ==
    ASSUME NEW S, NEW s \in Seq(S), NEW T
    PROVE  /\ Keep(s, T) \in Seq(S)
           /\ \E h : Selects(h, Keep(s, T), s, Len(s), T)
<1> DEFINE f == KeptOf(s, T)
           Good(n) == f[n] \in Seq(S) /\ \E h : Selects(h, f[n], s, n, T)
           Bad == {n \in 0 .. Len(s) : ~Good(n)}
<1>0. Len(s) \in Nat /\ \A n \in 1 .. Len(s) : s[n] \in S
  OBVIOUS
<1>1. f[0] = <<>> /\ \A n \in 1 .. Len(s) : f[n] = Taken(f[n - 1], s[n], T)
  BY KeptSolves
<1> HIDE DEF f
<1>2. Good(0)
  <2>1. <<>> \in Seq(S) /\ Len(<<>>) = 0 /\ 1 .. 0 = {}
    OBVIOUS
  <2>2. <<>> \in [1 .. 0 -> 1 .. 0]
    OBVIOUS
  <2>3. Selects(<<>>, <<>>, s, 0, T)
    BY <2>1, <2>2 DEF Selects
  <2> QED BY <1>1, <2>1, <2>3
<1>3. ASSUME NEW n \in 1 .. Len(s), Good(n - 1) PROVE Good(n)
  <2>0. n \in Nat /\ n - 1 \in Nat /\ n - 1 < n /\ s[n] \in S
    BY <1>0
  <2>1. PICK h : Selects(h, f[n - 1], s, n - 1, T)
    BY <1>3
  <2>2. PICK q \in Seq(S) : q = f[n - 1]
    BY <1>3
  <2>3. f[n] = Taken(q, s[n], T)
    BY <1>1, <2>2
  <2>4. /\ h \in [1 .. Len(q) -> 1 .. (n - 1)] /\ Len(q) \in Nat
        /\ \A i \in 1 .. Len(q) : q[i] = s[h[i]] /\ s[h[i]] \in T
        /\ \A i, j \in 1 .. Len(q) : i < j => h[i] < h[j]
        /\ \A m \in 1 .. (n - 1) : s[m] \in T => \E i \in 1 .. Len(q) : h[i] = m
    BY <2>1, <2>2 DEF Selects
  <2>5. CASE s[n] \notin T
    <3>1. f[n] = q
      BY <2>3, <2>5 DEF Taken
    <3>2. h \in [1 .. Len(q) -> 1 .. n]
      <4>1. \A i \in 1 .. (n - 1) : i \in 1 .. n
        BY <2>0
      <4> QED BY <2>4, <4>1
    <3>3. \A m \in 1 .. n : s[m] \in T => \E i \in 1 .. Len(q) : h[i] = m
      <4>1. \A m \in 1 .. n : m = n \/ m \in 1 .. (n - 1)
        BY <2>0
      <4> QED BY <2>4, <2>5, <4>1
    <3>4. Selects(h, q, s, n, T)
      BY <2>4, <3>2, <3>3 DEF Selects
    <3> QED BY <3>1, <3>4
  <2>6. CASE s[n] \in T
    <3> DEFINE q2 == Append(q, s[n])
               L == Len(q) + 1
               h2 == [i \in 1 .. L |-> IF i = L THEN n ELSE h[i]]
    <3>1. f[n] = q2
      BY <2>3, <2>6 DEF Taken
    <3>2. /\ q2 \in Seq(S) /\ Len(q2) = L /\ q2[L] = s[n] /\ L \in 1 .. L /\ L \in Nat
          /\ \A i \in 1 .. Len(q) : q2[i] = q[i]
      BY <2>0, <2>4
    <3>3. \A i \in 1 .. L : i = L \/ i \in 1 .. Len(q)
      BY <2>4
    <3>4. h2[L] = n /\ \A i \in 1 .. Len(q) : h2[i] = h[i] /\ h[i] \in 1 .. (n - 1)
      <4>1. L \in 1 .. L /\ \A i \in 1 .. Len(q) : i \in 1 .. L /\ i # L
        BY <2>4
      <4>2. \A i \in 1 .. L : h2[i] = IF i = L THEN n ELSE h[i]
        OBVIOUS
      <4> HIDE DEF h2, L
      <4> QED BY <2>4, <4>1, <4>2
    <3>5. h2 \in [1 .. L -> 1 .. n]
      <4>1. n \in 1 .. n /\ \A i \in 1 .. (n - 1) : i \in 1 .. n
        BY <2>0
      <4> QED BY <3>3, <3>4, <4>1
    <3> HIDE DEF q2, L, h2
    <3>6. \A i \in 1 .. L : q2[i] = s[h2[i]] /\ s[h2[i]] \in T
      <4> TAKE i \in 1 .. L
      <4>1. CASE i = L
        BY <2>6, <3>2, <3>4, <4>1
      <4>2. CASE i \in 1 .. Len(q)
        BY <2>4, <3>2, <3>4, <4>2
      <4> QED BY <3>3, <4>1, <4>2
    <3>7. \A i, j \in 1 .. L : i < j => h2[i] < h2[j]
      <4> SUFFICES ASSUME NEW i \in 1 .. L, NEW j \in 1 .. L, i < j PROVE h2[i] < h2[j]
        OBVIOUS
      <4>0. i \in 1 .. Len(q)
        BY <3>2, <3>3
      <4>1. CASE j = L
        BY <2>0, <3>4, <4>0, <4>1
      <4>2. CASE j \in 1 .. Len(q)
        BY <2>4, <3>4, <4>0, <4>2
      <4> QED BY <3>3, <4>1, <4>2
    <3>8. \A m \in 1 .. n : s[m] \in T => \E i \in 1 .. L : h2[i] = m
      <4> SUFFICES ASSUME NEW m \in 1 .. n, s[m] \in T PROVE \E i \in 1 .. L : h2[i] = m
        OBVIOUS
      <4>1. CASE m = n
        BY <3>2, <3>4, <4>1
      <4>2. CASE m \in 1 .. (n - 1)
        <5>1. PICK i \in 1 .. Len(q) : h[i] = m
          BY <2>4, <4>2
        <5>2. i \in 1 .. L
          BY <2>4 DEF L
        <5> QED BY <3>4, <5>1, <5>2
      <4> QED BY <2>0, <4>1, <4>2
    <3>9. Selects(h2, q2, s, n, T)
      BY <3>2, <3>5, <3>6, <3>7, <3>8 DEF Selects
    <3> QED BY <3>1, <3>2, <3>9
  <2> QED BY <2>5, <2>6
<1>4. ASSUME Bad # {} PROVE FALSE
  <2>1. Bad \subseteq Nat
    OBVIOUS
  <2>2. PICK m \in Bad : \A k \in Bad : m <= k
    <3> HIDE DEF Bad
    <3> QED BY <1>4, <2>1, Least
  <2>3. m \in 0 .. Len(s) /\ ~Good(m)
    OBVIOUS
  <2>4. m # 0
    BY <1>2, <2>3
  <2>5. m \in 1 .. Len(s) /\ m - 1 \in 0 .. Len(s) /\ ~(m <= m - 1)
    BY <1>0, <2>3, <2>4
  <2>6. m - 1 \notin Bad
    <3> HIDE DEF Bad
    <3> QED BY <2>2, <2>5
  <2>7. Good(m - 1)
    <3> HIDE DEF Good
    <3> QED BY <2>5, <2>6
  <2> HIDE DEF Good
  <2> QED BY <1>3, <2>3, <2>5, <2>7
<1>5. Good(Len(s))
  <2> HIDE DEF Good
  <2> QED BY <1>0, <1>4
<1> QED BY <1>5 DEF Keep, f
=============================================================================
