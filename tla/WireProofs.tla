----------------------------- MODULE WireProofs -----------------------------
(* Proofs about Wire, for any widths, messages, frames and stray bytes.    *)
EXTENDS Wire, DataLemmas

Bytes == 0 .. ByteBase - 1

-----------------------------------------------------------------------------
(* Integers.                                                               *)

(* A number is its last digit and the rest.                                *)
LEMMA DivMod ==
    ASSUME NEW x \in Nat
    PROVE  /\ x % ByteBase \in Bytes /\ x \div ByteBase \in Nat
           /\ x = (x % ByteBase) + ByteBase * (x \div ByteBase)
<1>1. ByteBase \in Nat \ {0, 1}
  BY WidthAssumption DEF WidthAssumption
<1> QED BY <1>1 DEF Bytes

(* Which are the only two that make it.                                    *)
LEMMA Digits ==
    ASSUME NEW d \in Bytes, NEW x \in Nat
    PROVE  /\ d + ByteBase * x \in Nat
           /\ (d + ByteBase * x) % ByteBase = d
           /\ (d + ByteBase * x) \div ByteBase = x
<1>1. ByteBase \in Nat \ {0, 1}
  BY WidthAssumption DEF WidthAssumption
<1> QED BY <1>1 DEF Bytes

(* Rest is the recursion it is written as.                                 *)
LEMMA RestSolves ==
    ASSUME NEW w \in Nat, NEW v \in Nat
    PROVE  /\ Rest(w, v)[0] = v
           /\ \A i \in 0 .. w : Rest(w, v)[i] \in Nat
           /\ \A i \in 1 .. w : Rest(w, v)[i] = Rest(w, v)[i - 1] \div ByteBase
<1> DEFINE F == [n \in 1 .. w |-> [x \in Nat |-> x \div ByteBase]]
           Body(f) == [i \in 0 .. w |-> IF i = 0 THEN v ELSE f[i - 1] \div ByteBase]
<1>1. F \in [1 .. w -> [Nat -> Nat]]
  BY DivMod
<1>2. \A n \in 1 .. w : \A x \in Nat : F[n][x] = x \div ByteBase
  OBVIOUS
<1> HIDE DEF F
<1>3. PICK f : Iterates(f, Nat, w, v, F)
  BY <1>1, Recursion
<1>4. /\ f \in [0 .. w -> Nat] /\ f[0] = v
      /\ \A i \in 1 .. w : f[i] = f[i - 1] \div ByteBase
  <2>1. \A i \in 1 .. w : i - 1 \in 0 .. w
    OBVIOUS
  <2> QED BY <1>2, <1>3, <2>1 DEF Iterates
<1>5. 0 \in 0 .. w /\ \A i \in 0 .. w : i = 0 \/ i \in 1 .. w
  OBVIOUS
<1>6. f = Body(f)
  <2>1. \A i \in 0 .. w : f[i] = Body(f)[i]
    BY <1>4, <1>5
  <2> QED BY <1>4, <2>1
<1>7. Rest(w, v) = CHOOSE g : g = Body(g)
  BY DEF Rest
<1>8. Rest(w, v) = Body(Rest(w, v))
  <2> HIDE DEF Body
  <2> QED BY <1>6, <1>7
<1> DEFINE r == Rest(w, v)
<1>9. r[0] = v /\ \A i \in 1 .. w : r[i] = r[i - 1] \div ByteBase
  <2>1. \A i \in 1 .. w : i \in 0 .. w /\ i # 0
    OBVIOUS
  <2> QED BY <1>5, <1>8, <2>1
<1>10. \A i \in 0 .. w : r[i] \in Nat
  <2> DEFINE S == {i \in 0 .. w : r[i] \in Nat}
  <2> HIDE DEF r
  <2>1. 0 \in S
    BY <1>9
  <2>2. ASSUME NEW n \in 1 .. w, n - 1 \in S PROVE n \in S
    BY <1>9, <2>2, DivMod
  <2>3. \A i \in 0 .. w : i \in S
    <3> HIDE DEF S
    <3> QED BY <2>1, <2>2, Counted
  <2> QED BY <2>3
<1> QED BY <1>9, <1>10

(* So is Value.                                                            *)
LEMMA ValueSolves ==
    ASSUME NEW b \in Seq(Bytes)
    PROVE  /\ Value(b)[0] = 0
           /\ \A i \in 0 .. Len(b) : Value(b)[i] \in Nat
           /\ \A i \in 1 .. Len(b) :
                  Value(b)[i] = b[Len(b) - i + 1] + ByteBase * Value(b)[i - 1]
<1> DEFINE w == Len(b)
           F == [n \in 1 .. w |-> [x \in Nat |-> b[w - n + 1] + ByteBase * x]]
           Body(f) == [i \in 0 .. w |->
                          IF i = 0 THEN 0 ELSE b[w - i + 1] + ByteBase * f[i - 1]]
<1>0. w \in Nat /\ \A i \in 1 .. w : w - i + 1 \in 1 .. w /\ b[w - i + 1] \in Bytes
  <2>1. w \in Nat /\ \A i \in 1 .. w : w - i + 1 \in 1 .. w
    OBVIOUS
  <2> QED BY <2>1
<1>d. \A i \in 1 .. w : \A x \in Nat : b[w - i + 1] + ByteBase * x \in Nat
  BY <1>0, Digits
<1>1. F \in [1 .. w -> [Nat -> Nat]]
  BY <1>d
<1>2. \A n \in 1 .. w : \A x \in Nat : F[n][x] = b[w - n + 1] + ByteBase * x
  OBVIOUS
<1> HIDE DEF F
<1>3. PICK f : Iterates(f, Nat, w, 0, F)
  BY <1>0, <1>1, Recursion
<1>4. /\ f \in [0 .. w -> Nat] /\ f[0] = 0
      /\ \A i \in 1 .. w : f[i] = b[w - i + 1] + ByteBase * f[i - 1]
  <2>1. \A i \in 1 .. w : i - 1 \in 0 .. w
    BY <1>0
  <2> HIDE DEF w
  <2> QED BY <1>2, <1>3, <2>1 DEF Iterates
<1>5. 0 \in 0 .. w /\ \A i \in 0 .. w : i = 0 \/ i \in 1 .. w
  BY <1>0
<1>6. f = Body(f)
  <2> HIDE DEF w
  <2>1. \A i \in 0 .. w : f[i] = Body(f)[i]
    BY <1>4, <1>5
  <2> QED BY <1>4, <2>1
<1>7. Value(b) = CHOOSE g : g = Body(g)
  BY DEF Value
<1>8. Value(b) = Body(Value(b))
  <2> HIDE DEF Body
  <2> QED BY <1>6, <1>7
<1> DEFINE r == Value(b)
<1>9. r[0] = 0 /\ \A i \in 1 .. w : r[i] = b[w - i + 1] + ByteBase * r[i - 1]
  <2>1. \A i \in 1 .. w : i \in 0 .. w /\ i # 0
    BY <1>0
  <2> HIDE DEF w
  <2> QED BY <1>5, <1>8, <2>1
<1>10. \A i \in 0 .. w : r[i] \in Nat
  <2> DEFINE S == {i \in 0 .. w : r[i] \in Nat}
  <2> HIDE DEF r, w
  <2>1. 0 \in S
    BY <1>5, <1>9
  <2>2. ASSUME NEW n \in 1 .. w, n - 1 \in S PROVE n \in S
    BY <1>0, <1>9, <1>d, <2>2, SMTT(40)
  <2>3. \A i \in 0 .. w : i \in S
    <3> HIDE DEF S
    <3> QED BY <1>0, <2>1, <2>2, Counted
  <2> QED BY <2>3
<1> QED BY <1>9, <1>10

(* to_le_bytes gives as many bytes as the integer is wide.                 *)
LEMMA PutIntType ==
    ASSUME NEW w \in Nat, NEW v \in Nat
    PROVE  PutInt(w, v) \in Seq(Bytes) /\ Len(PutInt(w, v)) = w
<1> DEFINE p == [i \in 1 .. w |-> Rest(w, v)[i - 1] % ByteBase]
<1>1. \A i \in 1 .. w : Rest(w, v)[i - 1] \in Nat
  <2>1. \A i \in 1 .. w : i - 1 \in 0 .. w
    OBVIOUS
  <2> QED BY <2>1, RestSolves
<1>2. p \in [1 .. w -> Bytes]
  BY <1>1, DivMod
<1>3. p \in Seq(Bytes) /\ Len(p) = w
  <2> HIDE DEF p
  <2> QED BY <1>2, LenProperties
<1> QED BY <1>3 DEF PutInt

LEMMA IntOfType ==
    ASSUME NEW b \in Seq(Bytes)
    PROVE  IntOf(b) \in Nat
<1>1. Len(b) \in 0 .. Len(b)
  OBVIOUS
<1> QED BY <1>1, ValueSolves DEF IntOf

(* from_le_bytes gives back what to_le_bytes was given, if it fits.        *)
LEMMA IntThere ==
    ASSUME NEW w \in Nat, NEW v \in Nat, Fits(w, v)
    PROVE  IntOf(PutInt(w, v)) = v
<1> DEFINE b == PutInt(w, v)
           S == {i \in 0 .. w : Value(b)[i] = Rest(w, v)[w - i]}
<1>1. b \in Seq(Bytes) /\ Len(b) = w
  BY PutIntType
<1>2. \A i \in 1 .. w : b[i] = Rest(w, v)[i - 1] % ByteBase
  BY DEF PutInt
<1> HIDE DEF b
<1>3. 0 \in S
  <2>1. 0 \in 0 .. w /\ w - 0 = w
    OBVIOUS
  <2>2. Rest(w, v)[w] = 0
    BY DEF Fits
  <2> QED BY <1>1, <2>1, <2>2, ValueSolves
<1>4. ASSUME NEW n \in 1 .. w, n - 1 \in S PROVE n \in S
  <2>1. /\ n \in 0 .. w /\ w - n \in 0 .. w /\ w - n + 1 \in 1 .. w
        /\ w - (n - 1) = w - n + 1 /\ w - n + 1 - 1 = w - n
    OBVIOUS
  <2>2. Value(b)[n] = b[w - n + 1] + ByteBase * Value(b)[n - 1]
    BY <1>1, ValueSolves
  <2>3. Value(b)[n - 1] = Rest(w, v)[w - n + 1]
    BY <1>4, <2>1
  <2>4. /\ Rest(w, v)[w - n + 1] = Rest(w, v)[w - n] \div ByteBase
        /\ Rest(w, v)[w - n] \in Nat
    BY <2>1, RestSolves
  <2>5. b[w - n + 1] = Rest(w, v)[w - n] % ByteBase
    BY <1>2, <2>1
  <2>6. Value(b)[n] = Rest(w, v)[w - n]
    BY <2>2, <2>3, <2>4, <2>5, DivMod
  <2> QED BY <2>1, <2>6
<1>5. \A n \in 0 .. w : n \in S
  <2> HIDE DEF S
  <2> QED BY <1>3, <1>4, Counted
<1>6. Value(b)[w] = Rest(w, v)[0]
  <2>1. w \in 0 .. w /\ w - w = 0
    OBVIOUS
  <2> QED BY <1>5, <2>1
<1> QED BY <1>1, <1>6, RestSolves DEF b, IntOf

(* And the other way round: any bytes are those of the number they make.   *)
LEMMA IntBack ==
    ASSUME NEW b \in Seq(Bytes)
    PROVE  PutInt(Len(b), IntOf(b)) = b
<1> DEFINE w == Len(b)
           v == IntOf(b)
           S == {i \in 0 .. w : Rest(w, v)[i] = Value(b)[w - i]}
<1>0. w \in Nat /\ v \in Nat /\ v = Value(b)[w]
  BY IntOfType DEF IntOf
<1>v. /\ \A i \in 0 .. w : Value(b)[i] \in Nat
      /\ \A i \in 1 .. w : Value(b)[i] = b[w - i + 1] + ByteBase * Value(b)[i - 1]
      /\ \A i \in 1 .. w : b[i] \in Bytes
  BY ValueSolves
<1> HIDE DEF v, w
<1>1. ASSUME NEW i \in 1 .. w
      PROVE  /\ Value(b)[w - (i - 1)] % ByteBase = b[i]
             /\ Value(b)[w - (i - 1)] \div ByteBase = Value(b)[w - i]
  <2>1. /\ w - (i - 1) \in 1 .. w /\ w - (w - (i - 1)) + 1 = i
        /\ w - (i - 1) - 1 = w - i /\ w - i \in 0 .. w
    BY <1>0
  <2>2. Value(b)[w - (i - 1)] = b[i] + ByteBase * Value(b)[w - i]
    BY <1>v, <2>1
  <2>3. b[i] \in Bytes /\ Value(b)[w - i] \in Nat
    BY <1>v, <2>1
  <2> QED BY <2>2, <2>3, Digits
<1>2. 0 \in S
  <2>1. 0 \in 0 .. w /\ w - 0 = w
    BY <1>0
  <2> QED BY <1>0, <2>1, RestSolves
<1>3. ASSUME NEW n \in 1 .. w, n - 1 \in S PROVE n \in S
  <2>1. n \in 0 .. w
    OBVIOUS
  <2>2. Rest(w, v)[n] = Rest(w, v)[n - 1] \div ByteBase
    BY <1>0, RestSolves
  <2> QED BY <1>1, <1>3, <2>1, <2>2
<1>4. \A n \in 0 .. w : n \in S
  <2> HIDE DEF S
  <2> QED BY <1>0, <1>2, <1>3, Counted
<1>5. ASSUME NEW i \in 1 .. w PROVE PutInt(w, v)[i] = b[i]
  <2>1. i - 1 \in 0 .. w
    BY <1>0
  <2>2. Rest(w, v)[i - 1] = Value(b)[w - (i - 1)]
    BY <1>4, <2>1
  <2>3. PutInt(w, v)[i] = Rest(w, v)[i - 1] % ByteBase
    BY DEF PutInt
  <2> QED BY <1>1, <2>2, <2>3
<1>6. PutInt(w, v) \in Seq(Bytes) /\ Len(PutInt(w, v)) = Len(b)
  BY <1>0, PutIntType DEF w
<1>7. PutInt(w, v) = b
  BY <1>5, <1>6, SeqEqual DEF w
<1> QED BY <1>7 DEF w, v

-----------------------------------------------------------------------------
(* Bytes within bytes.                                                     *)

(* s is what buf holds after its first p bytes.                            *)
At(buf, p, s) == p + Len(s) <= Len(buf) /\ \A i \in 1 .. Len(s) : buf[p + i] = s[i]

(* Cutting out what is there, and finding what was cut out.                *)
LEMMA AtSlice ==
    ASSUME NEW buf \in Seq(Bytes), NEW p \in Nat, NEW s \in Seq(Bytes), At(buf, p, s)
    PROVE  Slice(buf, p, Len(s)) = s
<1> DEFINE t == SubSeq(buf, p + 1, p + Len(s))
<1>1. Len(s) \in Nat /\ p + Len(s) <= Len(buf) /\ \A i \in 1 .. Len(s) : buf[p + i] = s[i]
  BY DEF At
<1>2. t \in Seq(Bytes) /\ Len(t) = Len(s)
  BY <1>1
<1>3. \A i \in 1 .. Len(s) : t[i] = s[i]
  BY <1>1
<1> HIDE DEF t
<1>4. t = s
  BY <1>2, <1>3, SeqEqual
<1> QED BY <1>4 DEF Slice, t

LEMMA SliceAt ==
    ASSUME NEW buf \in Seq(Bytes), NEW p \in Nat, NEW l \in Nat, p + l <= Len(buf)
    PROVE  /\ Slice(buf, p, l) \in Seq(Bytes) /\ Len(Slice(buf, p, l)) = l
           /\ \A i \in 1 .. l : Slice(buf, p, l)[i] = buf[p + i]
           /\ At(buf, p, Slice(buf, p, l))
<1>1. /\ Slice(buf, p, l) \in Seq(Bytes) /\ Len(Slice(buf, p, l)) = l
      /\ \A i \in 1 .. l : Slice(buf, p, l)[i] = buf[p + i]
  BY DEF Slice
<1> QED BY <1>1 DEF At

(* Two pieces are there when the second stands behind the first.           *)
LEMMA AtConcat ==
    ASSUME NEW buf \in Seq(Bytes), NEW p \in Nat, NEW s \in Seq(Bytes), NEW t \in Seq(Bytes)
    PROVE  At(buf, p, s \o t) <=> At(buf, p, s) /\ At(buf, p + Len(s), t)
<1> DEFINE u == s \o t
<1>1. /\ Len(s) \in Nat /\ Len(t) \in Nat /\ Len(u) = Len(s) + Len(t)
      /\ \A i \in 1 .. Len(s) : u[i] = s[i] /\ i \in 1 .. Len(u)
      /\ \A i \in 1 .. Len(t) : u[Len(s) + i] = t[i] /\ Len(s) + i \in 1 .. Len(u)
      /\ \A i \in 1 .. Len(u) : i \in 1 .. Len(s) \/ i - Len(s) \in 1 .. Len(t)
  BY ConcatProperties
<1> HIDE DEF u
<1>2. ASSUME At(buf, p, u) PROVE At(buf, p, s) /\ At(buf, p + Len(s), t)
  <2>1. p + Len(u) <= Len(buf) /\ \A i \in 1 .. Len(u) : buf[p + i] = u[i]
    BY <1>2 DEF At
  <2>2. p + Len(s) <= Len(buf) /\ p + Len(s) + Len(t) <= Len(buf)
    BY <1>1, <2>1
  <2>3. \A i \in 1 .. Len(s) : buf[p + i] = s[i]
    BY <1>1, <2>1
  <2>4. ASSUME NEW i \in 1 .. Len(t) PROVE buf[p + Len(s) + i] = t[i]
    <3>1. buf[p + (Len(s) + i)] = t[i] /\ p + (Len(s) + i) = p + Len(s) + i
      BY <1>1, <2>1
    <3> QED BY <3>1
  <2> QED BY <2>2, <2>3, <2>4 DEF At
<1>3. ASSUME At(buf, p, s), At(buf, p + Len(s), t) PROVE At(buf, p, u)
  <2>1. /\ \A i \in 1 .. Len(s) : buf[p + i] = s[i]
        /\ p + Len(s) + Len(t) <= Len(buf)
        /\ \A i \in 1 .. Len(t) : buf[p + Len(s) + i] = t[i]
    BY <1>3 DEF At
  <2>2. p + Len(u) <= Len(buf)
    BY <1>1, <2>1
  <2>3. ASSUME NEW i \in 1 .. Len(u) PROVE buf[p + i] = u[i]
    <3>1. CASE i \in 1 .. Len(s)
      BY <1>1, <2>1, <3>1
    <3>2. CASE i - Len(s) \in 1 .. Len(t)
      <4>1. p + Len(s) + (i - Len(s)) = p + i /\ Len(s) + (i - Len(s)) = i
        BY <1>1
      <4>2. u[Len(s) + (i - Len(s))] = t[i - Len(s)]
        BY <1>1, <3>2
      <4>3. buf[p + Len(s) + (i - Len(s))] = t[i - Len(s)]
        BY <2>1, <3>2
      <4> QED BY <4>1, <4>2, <4>3
    <3> QED BY <1>1, <3>1, <3>2
  <2> QED BY <2>2, <2>3 DEF At
<1> QED BY <1>2, <1>3 DEF u

(* The whole of a buffer.                                                  *)
LEMMA AtWhole ==
    ASSUME NEW s \in Seq(Bytes) PROVE At(s, 0, s)
BY DEF At

(* Nothing but s fits in as many bytes as s has.                           *)
LEMMA WholeAt ==
    ASSUME NEW buf \in Seq(Bytes), NEW s \in Seq(Bytes), At(buf, 0, s), Len(s) = Len(buf)
    PROVE  buf = s
<1>1. \A i \in 1 .. Len(s) : buf[i] = s[i]
  BY DEF At
<1> QED BY <1>1, SeqEqual

-----------------------------------------------------------------------------
(* Join.                                                                   *)

Parts == Seq(Seq(Bytes))

(* JoinOf is the recursion it is written as.                               *)
LEMMA JoinSolves ==
    ASSUME NEW ps \in Parts
    PROVE  /\ JoinOf(ps)[0] = <<>>
           /\ \A i \in 0 .. Len(ps) : JoinOf(ps)[i] \in Seq(Bytes)
           /\ \A i \in 1 .. Len(ps) : JoinOf(ps)[i] = JoinOf(ps)[i - 1] \o ps[i]
<1> DEFINE w == Len(ps)
           D == Seq(Bytes)
           F == [n \in 1 .. w |-> [x \in D |-> x \o ps[n]]]
           Body(f) == [i \in 0 .. w |-> IF i = 0 THEN <<>> ELSE f[i - 1] \o ps[i]]
<1>0. w \in Nat /\ <<>> \in D /\ \A i \in 1 .. w : ps[i] \in D
  BY DEF Parts
<1>d. \A i \in 1 .. w : \A x \in D : x \o ps[i] \in D
  BY <1>0
<1> HIDE DEF D, w
<1>1. F \in [1 .. w -> [D -> D]]
  BY <1>d
<1>2. \A n \in 1 .. w : \A x \in D : F[n][x] = x \o ps[n]
  OBVIOUS
<1> HIDE DEF F
<1>3. PICK f : Iterates(f, D, w, <<>>, F)
  BY <1>0, <1>1, Recursion
<1>5. 0 \in 0 .. w /\ \A i \in 0 .. w : i = 0 \/ i \in 1 .. w
  BY <1>0
<1>p. \A i \in 1 .. w : i - 1 \in 0 .. w /\ i \in 0 .. w /\ i # 0
  BY <1>0
<1>4. f \in [0 .. w -> D] /\ f[0] = <<>> /\ \A i \in 1 .. w : f[i] = f[i - 1] \o ps[i]
  BY <1>2, <1>3, <1>p DEF Iterates
<1>6. f = Body(f)
  <2>1. \A i \in 0 .. w : f[i] = Body(f)[i]
    BY <1>4, <1>5
  <2> QED BY <1>4, <2>1
<1>7. JoinOf(ps) = CHOOSE g : g = Body(g)
  BY DEF JoinOf, w
<1>8. JoinOf(ps) = Body(JoinOf(ps))
  <2> HIDE DEF Body
  <2> QED BY <1>6, <1>7
<1> DEFINE r == JoinOf(ps)
<1>9. r[0] = <<>> /\ \A i \in 1 .. w : r[i] = r[i - 1] \o ps[i]
  BY <1>5, <1>8, <1>p
<1>10. \A i \in 0 .. w : r[i] \in D
  <2> DEFINE S == {i \in 0 .. w : r[i] \in D}
  <2> HIDE DEF r
  <2>1. 0 \in S
    BY <1>0, <1>5, <1>9
  <2>2. ASSUME NEW n \in 1 .. w, n - 1 \in S PROVE n \in S
    BY <1>p, <1>9, <1>d, <2>2
  <2>3. \A i \in 0 .. w : i \in S
    <3> HIDE DEF S
    <3> QED BY <1>0, <2>1, <2>2, Counted
  <2> QED BY <2>3
<1> QED BY <1>9, <1>10 DEF w, D

(* Where two lists agree, so do their joins.                               *)
LEMMA JoinAgrees ==
    ASSUME NEW ps \in Parts, NEW qs \in Parts, NEW k \in Nat, k <= Len(ps), k <= Len(qs),
           \A i \in 1 .. k : ps[i] = qs[i]
    PROVE  \A i \in 0 .. k : JoinOf(ps)[i] = JoinOf(qs)[i]
<1> DEFINE S == {i \in 0 .. k : JoinOf(ps)[i] = JoinOf(qs)[i]}
<1>0. Len(ps) \in Nat /\ Len(qs) \in Nat
  BY DEF Parts
<1>1. 0 \in S
  <2>1. 0 \in 0 .. k
    OBVIOUS
  <2>2. JoinOf(ps)[0] = <<>> /\ JoinOf(qs)[0] = <<>>
    BY JoinSolves, Zenon
  <2> QED BY <2>1, <2>2
<1>2. ASSUME NEW n \in 1 .. k, n - 1 \in S PROVE n \in S
  <2>1. n \in 1 .. Len(ps) /\ n \in 1 .. Len(qs) /\ n \in 0 .. k
    BY <1>0
  <2>2. JoinOf(ps)[n] = JoinOf(ps)[n - 1] \o ps[n] /\ JoinOf(qs)[n] = JoinOf(qs)[n - 1] \o qs[n]
    BY <2>1, JoinSolves
  <2> QED BY <1>2, <2>1, <2>2
<1>3. \A i \in 0 .. k : i \in S
  <2> HIDE DEF S
  <2> QED BY <1>1, <1>2, Counted
<1> QED BY <1>3

LEMMA JoinEmpty == Join(<<>>) = <<>>
<1>1. <<>> \in Parts /\ Len(<<>>) = 0
  BY DEF Parts
<1> QED BY <1>1, JoinSolves DEF Join

LEMMA JoinType == ASSUME NEW ps \in Parts PROVE Join(ps) \in Seq(Bytes)
<1>1. Len(ps) \in 0 .. Len(ps)
  BY DEF Parts
<1> QED BY <1>1, JoinSolves DEF Join

(* One more part goes to the end.                                          *)
LEMMA JoinAppend ==
    ASSUME NEW ps \in Parts, NEW p \in Seq(Bytes)
    PROVE  Append(ps, p) \in Parts /\ Join(Append(ps, p)) = Join(ps) \o p
<1> DEFINE qs == Append(ps, p)
           n == Len(ps) + 1
<1>1. /\ qs \in Parts /\ Len(qs) = n /\ Len(ps) \in Nat /\ qs[n] = p
      /\ \A i \in 1 .. Len(ps) : qs[i] = ps[i]
  BY DEF Parts
<1> HIDE DEF qs
<1>2. JoinOf(qs)[n] = JoinOf(qs)[n - 1] \o qs[n]
  <2>1. n \in 1 .. Len(qs)
    BY <1>1
  <2> HIDE DEF n
  <2> QED BY <1>1, <2>1, JoinSolves
<1>3. JoinOf(qs)[Len(ps)] = JoinOf(ps)[Len(ps)]
  <2>1. Len(ps) <= Len(qs) /\ Len(ps) <= Len(ps) /\ Len(ps) \in 0 .. Len(ps)
    BY <1>1
  <2> QED BY <1>1, <2>1, JoinAgrees
<1>4. n - 1 = Len(ps)
  BY <1>1
<1> QED BY <1>1, <1>2, <1>3, <1>4 DEF Join, qs

(* What holds a join holds each of its parts, at the end of those before.  *)
LEMMA AtJoin ==
    ASSUME NEW buf \in Seq(Bytes), NEW p \in Nat, NEW ps \in Parts, At(buf, p, Join(ps))
    PROVE  \A i \in 1 .. Len(ps) : At(buf, p + Len(JoinOf(ps)[i - 1]), ps[i])
<1> DEFINE w == Len(ps)
           S == {j \in 0 .. w : At(buf, p, JoinOf(ps)[w - j])}
<1>0. w \in Nat /\ \A i \in 1 .. w : ps[i] \in Seq(Bytes)
  BY DEF Parts
<1>j. /\ \A i \in 0 .. w : JoinOf(ps)[i] \in Seq(Bytes)
      /\ \A i \in 1 .. w : JoinOf(ps)[i] = JoinOf(ps)[i - 1] \o ps[i]
  BY JoinSolves
<1>1. 0 \in S
  <2>1. 0 \in 0 .. w /\ w - 0 = w
    BY <1>0
  <2> QED BY <2>1 DEF Join
<1> HIDE DEF w
<1>2. ASSUME NEW n \in 1 .. w, At(buf, p, JoinOf(ps)[n])
      PROVE  At(buf, p, JoinOf(ps)[n - 1]) /\ At(buf, p + Len(JoinOf(ps)[n - 1]), ps[n])
  <2>1. n - 1 \in 0 .. w
    BY <1>0
  <2>2. JoinOf(ps)[n - 1] \in Seq(Bytes) /\ ps[n] \in Seq(Bytes)
    BY <1>0, <1>j, <2>1
  <2>3. At(buf, p, JoinOf(ps)[n - 1] \o ps[n])
    BY <1>2, <1>j
  <2> QED BY <2>2, <2>3, AtConcat
<1>3. ASSUME NEW n \in 1 .. w, n - 1 \in S PROVE n \in S
  <2>1. n \in 0 .. w /\ w - (n - 1) \in 1 .. w /\ w - (n - 1) - 1 = w - n
    BY <1>0
  <2>2. At(buf, p, JoinOf(ps)[w - (n - 1)])
    BY <1>3
  <2> QED BY <1>2, <2>1, <2>2
<1>4. \A j \in 0 .. w : j \in S
  <2> HIDE DEF S
  <2> QED BY <1>0, <1>1, <1>3, Counted
<1>5. ASSUME NEW i \in 1 .. w PROVE At(buf, p, JoinOf(ps)[i])
  <2>1. w - i \in 0 .. w /\ w - (w - i) = i
    BY <1>0
  <2> QED BY <1>4, <2>1
<1> QED BY <1>2, <1>5 DEF w

-----------------------------------------------------------------------------
(* Fields.                                                                 *)

Kinds == {"u16", "u32", "u64", "str"}
Vals == Nat \cup Seq(Bytes)
Cursors(buf, V) == [ok : BOOLEAN, pos : 0 .. Len(buf), out : Seq(V)]

LEMMA WidthType == W32 \in Nat /\ \A kind \in Kinds : Width(kind) \in Nat
BY WidthAssumption DEF WidthAssumption, Width, Kinds

LEMMA TextIsBytes == \A s \in Seq(TextBytes) : s \in Seq(Bytes) /\ Range(s) \subseteq TextBytes
<1>1. TextBytes \subseteq Bytes
  BY WidthAssumption DEF WidthAssumption, Bytes
<1> QED BY <1>1 DEF Range

(* A field becomes bytes.                                                  *)
LEMMA PutType ==
    ASSUME NEW kind \in Kinds, NEW v, FieldOK(kind, v)
    PROVE  v \in Vals /\ Put(kind, v) \in Seq(Bytes)
<1>1. CASE kind = "str"
  <2>1. v \in Seq(Bytes)
    BY <1>1, TextIsBytes DEF FieldOK
  <2>2. PutInt(W32, Len(v)) \in Seq(Bytes)
    BY <2>1, WidthType, PutIntType
  <2> QED BY <1>1, <2>1, <2>2 DEF Put, Vals
<1>2. CASE kind # "str"
  <2>1. v \in Nat
    BY <1>2 DEF FieldOK
  <2> QED BY <1>2, <2>1, WidthType, PutIntType DEF Put, Vals
<1> QED BY <1>1, <1>2

(* The cursor reads what was put, and stands behind it.                    *)
LEMMA ReadThere ==
    ASSUME NEW buf \in Seq(Bytes), NEW p \in Nat, NEW out, NEW kind \in Kinds, NEW v,
           FieldOK(kind, v), At(buf, p, Put(kind, v))
    PROVE  Read(buf, Cursor(p, out), kind) = Cursor(p + Len(Put(kind, v)), Append(out, v))
<1> DEFINE c == Cursor(p, out)
<1>0. c.ok = TRUE /\ c.pos = p /\ c.out = out
  BY DEF Cursor
<1> HIDE DEF c
<1>1. CASE kind = "str"
  <2> DEFINE h == PutInt(W32, Len(v))
  <2>1. v \in Seq(TextBytes) /\ v \in Seq(Bytes) /\ Len(v) \in Nat /\ Fits(W32, Len(v))
    BY <1>1, TextIsBytes DEF FieldOK
  <2>2. h \in Seq(Bytes) /\ Len(h) = W32 /\ W32 \in Nat
    BY <2>1, WidthType, PutIntType
  <2>3. Put(kind, v) = h \o v
    BY <1>1 DEF Put
  <2>i. IntOf(h) = Len(v)
    BY <2>1, <2>2, IntThere
  <2> HIDE DEF h
  <2>4. At(buf, p, h) /\ At(buf, p + W32, v)
    BY <2>1, <2>2, <2>3, AtConcat, ZenonT(40)
  <2>5. IntOf(Slice(buf, p, W32)) = Len(v)
    BY <2>i, <2>2, <2>4, AtSlice
  <2>6. Slice(buf, p + W32, Len(v)) = v
    <3>1. p + W32 \in Nat
      BY <2>2
    <3> QED BY <2>1, <2>4, <3>1, AtSlice
  <2>7. Has(buf, c, W32) /\ Has(buf, c, W32 + Len(v))
    BY <1>0, <2>1, <2>2, <2>4 DEF Has, At
  <2>8. Range(v) \subseteq TextBytes
    BY <2>1, TextIsBytes
  <2>9. ReadString(buf, c) = Take(c, W32 + Len(v), v)
    BY <1>0, <2>5, <2>6, <2>7, <2>8 DEF ReadString
  <2>10. Len(Put(kind, v)) = W32 + Len(v)
    BY <2>1, <2>2, <2>3, ConcatProperties
  <2> QED BY <1>0, <1>1, <2>9, <2>10 DEF Read, Take, c
<1>2. CASE kind # "str"
  <2> DEFINE w == Width(kind)
             h == PutInt(w, v)
  <2>1. v \in Nat /\ w \in Nat /\ Fits(w, v) /\ Put(kind, v) = h
    BY <1>2, WidthType DEF FieldOK, Put
  <2>2. h \in Seq(Bytes) /\ Len(h) = w /\ IntOf(h) = v
    BY <2>1, PutIntType, IntThere
  <2> HIDE DEF h, w
  <2>3. At(buf, p, h)
    BY <2>1
  <2>4. Slice(buf, p, w) = h
    BY <2>2, <2>3, AtSlice
  <2>5. Has(buf, c, w)
    BY <1>0, <2>1, <2>2, <2>3 DEF Has, At
  <2>6. ReadInt(buf, c, w) = Take(c, w, v)
    BY <1>0, <2>2, <2>4, <2>5 DEF ReadInt
  <2>7. Read(buf, c, kind) = Take(c, w, v)
    BY <1>2, <2>6 DEF Read, w
  <2> QED BY <1>0, <2>1, <2>2, <2>7 DEF Take, c
<1> QED BY <1>1, <1>2 DEF c

(* And what it reads is the value of the bytes it passed over.             *)
LEMMA ReadBack ==
    ASSUME NEW buf \in Seq(Bytes), NEW V, Vals \subseteq V,
           NEW c \in Cursors(buf, V), NEW kind \in Kinds
    PROVE  /\ Read(buf, c, kind) \in Cursors(buf, V)
           /\ Read(buf, c, kind).ok =>
                 /\ c.ok
                 /\ \E v \in Vals :
                      /\ Put(kind, v) \in Seq(Bytes) /\ At(buf, c.pos, Put(kind, v))
                      /\ Read(buf, c, kind).pos = c.pos + Len(Put(kind, v))
                      /\ Read(buf, c, kind).out = Append(c.out, v)
<1>0. c.ok \in BOOLEAN /\ c.pos \in 0 .. Len(buf) /\ c.pos \in Nat /\ c.out \in Seq(V)
      /\ Len(buf) \in Nat
  BY DEF Cursors
<1>f. Fail(c) \in Cursors(buf, V) /\ Fail(c).ok = FALSE
  BY <1>0 DEF Fail, Cursors
<1>t. ASSUME NEW l \in Nat, NEW v \in Vals, l <= Len(buf) - c.pos
      PROVE  /\ Take(c, l, v) \in Cursors(buf, V)
             /\ Take(c, l, v).pos = c.pos + l /\ Take(c, l, v).out = Append(c.out, v)
  <2>1. c.pos + l \in 0 .. Len(buf) /\ Append(c.out, v) \in Seq(V)
    BY <1>0, <1>t
  <2> QED BY <2>1 DEF Take, Cursor, Cursors
<1>i. ASSUME NEW w \in Nat, w <= Len(buf) - c.pos
      PROVE  /\ IntOf(Slice(buf, c.pos, w)) \in Nat
             /\ At(buf, c.pos, PutInt(w, IntOf(Slice(buf, c.pos, w))))
             /\ PutInt(w, IntOf(Slice(buf, c.pos, w))) \in Seq(Bytes)
             /\ Len(PutInt(w, IntOf(Slice(buf, c.pos, w)))) = w
  <2> DEFINE h == Slice(buf, c.pos, w)
  <2>1. c.pos + w <= Len(buf)
    BY <1>0, <1>i
  <2>2. h \in Seq(Bytes) /\ Len(h) = w /\ At(buf, c.pos, h)
    BY <1>0, <2>1, SliceAt
  <2> HIDE DEF h
  <2>3. IntOf(h) \in Nat /\ PutInt(w, IntOf(h)) = h
    BY <2>2, IntOfType, IntBack
  <2> QED BY <2>2, <2>3 DEF h
<1>1. CASE kind = "str"
  <2> DEFINE l == IntOf(Slice(buf, c.pos, W32))
             s == Slice(buf, c.pos + W32, l)
  <2>1. Read(buf, c, kind) = IF /\ Has(buf, c, W32) /\ Has(buf, c, W32 + l)
                                /\ Range(s) \subseteq TextBytes
                             THEN Take(c, W32 + l, s) ELSE Fail(c)
    BY <1>1 DEF Read, ReadString
  <2>2. CASE Has(buf, c, W32) /\ Has(buf, c, W32 + l) /\ Range(s) \subseteq TextBytes
    <3>1. W32 \in Nat /\ c.ok /\ W32 <= Len(buf) - c.pos /\ W32 + l <= Len(buf) - c.pos
      BY <2>2, WidthType DEF Has
    <3>2. l \in Nat /\ At(buf, c.pos, PutInt(W32, l)) /\ PutInt(W32, l) \in Seq(Bytes)
          /\ Len(PutInt(W32, l)) = W32
      BY <1>i, <3>1
    <3> HIDE DEF l
    <3>3. c.pos + W32 \in Nat /\ c.pos + W32 + l <= Len(buf)
      BY <1>0, <3>1, <3>2
    <3>4. s \in Seq(Bytes) /\ Len(s) = l /\ At(buf, c.pos + W32, s)
      BY <3>2, <3>3, SliceAt
    <3>5. Read(buf, c, kind) = Take(c, W32 + l, s)
      BY <2>1, <2>2
    <3> HIDE DEF s
    <3>6. PICK h \in Seq(Bytes) : h = PutInt(W32, l)
      BY <3>2
    <3>h. Len(h) = W32 /\ At(buf, c.pos, h) /\ Put(kind, s) = h \o s
      BY <1>1, <3>2, <3>4, <3>6 DEF Put
    <3>7. At(buf, c.pos, h \o s)
      BY <1>0, <3>h, <3>4, AtConcat
    <3>8. Put(kind, s) \in Seq(Bytes) /\ Len(Put(kind, s)) = W32 + l
      BY <3>h, <3>4, ConcatProperties
    <3>9. W32 + l \in Nat /\ s \in Vals
      BY <3>1, <3>2, <3>4 DEF Vals
    <3>10. /\ Take(c, W32 + l, s) \in Cursors(buf, V)
           /\ Take(c, W32 + l, s).pos = c.pos + (W32 + l)
           /\ Take(c, W32 + l, s).out = Append(c.out, s)
      BY <1>t, <3>1, <3>9
    <3> QED BY <3>1, <3>5, <3>h, <3>7, <3>8, <3>9, <3>10
  <2>3. CASE ~(Has(buf, c, W32) /\ Has(buf, c, W32 + l) /\ Range(s) \subseteq TextBytes)
    <3>1. Read(buf, c, kind) = Fail(c)
      BY <2>1, <2>3
    <3> QED BY <1>f, <3>1
  <2> QED BY <2>2, <2>3
<1>2. CASE kind # "str"
  <2> DEFINE w == Width(kind)
             v == IntOf(Slice(buf, c.pos, w))
  <2>1. w \in Nat /\ Read(buf, c, kind) = IF Has(buf, c, w) THEN Take(c, w, v) ELSE Fail(c)
    BY <1>2, WidthType DEF Read, ReadInt
  <2>2. Put(kind, v) = PutInt(w, v)
    BY <1>2 DEF Put
  <2> HIDE DEF w
  <2>3. CASE Has(buf, c, w)
    <3>1. c.ok /\ w <= Len(buf) - c.pos
      BY <2>3 DEF Has
    <3>2. /\ v \in Nat /\ At(buf, c.pos, Put(kind, v)) /\ Put(kind, v) \in Seq(Bytes)
          /\ Len(Put(kind, v)) = w
      BY <1>i, <2>1, <2>2, <3>1
    <3> HIDE DEF v
    <3>3. v \in Vals
      BY <3>2 DEF Vals
    <3>4. /\ Take(c, w, v) \in Cursors(buf, V)
          /\ Take(c, w, v).pos = c.pos + w /\ Take(c, w, v).out = Append(c.out, v)
      BY <1>t, <2>1, <3>1, <3>3
    <3>5. Read(buf, c, kind) = Take(c, w, v)
      BY <2>1, <2>3
    <3> QED BY <3>1, <3>2, <3>3, <3>4, <3>5
  <2>4. CASE ~Has(buf, c, w)
    <3>1. Read(buf, c, kind) = Fail(c)
      BY <2>1, <2>4
    <3> QED BY <1>f, <3>1
  <2> QED BY <2>3, <2>4
<1> QED BY <1>1, <1>2

-----------------------------------------------------------------------------
(* A cursor's way over parts that follow each other.                       *)

(* If each step reads its part whenever it stands before it, all are read. *)
LEMMA WalkThere ==
    ASSUME NEW buf \in Seq(Bytes), NEW pos \in Nat, NEW ps \in Parts, At(buf, pos, Join(ps)),
           NEW V, NEW vs \in Seq(V), Len(vs) = Len(ps), NEW r, r[0] = Cursor(pos, <<>>),
           \A i \in 1 .. Len(ps) : \A p \in Nat : \A out :
               At(buf, p, ps[i]) /\ r[i - 1] = Cursor(p, out) =>
                   r[i] = Cursor(p + Len(ps[i]), Append(out, vs[i]))
    PROVE  r[Len(ps)] = Cursor(pos + Len(Join(ps)), vs)
<1> DEFINE w == Len(ps)
           J(i) == JoinOf(ps)[i]
           S == {i \in 0 .. w :
                    r[i] = Cursor(pos + Len(J(i)), SubSeq(vs, 1, i))}
<1>0. w \in Nat /\ Len(vs) = w /\ \A i \in 1 .. w : ps[i] \in Seq(Bytes) /\ vs[i] \in V
  BY DEF Parts
<1>1. /\ J(0) = <<>>
      /\ \A i \in 0 .. w : J(i) \in Seq(Bytes)
      /\ \A i \in 1 .. w : J(i) = J(i - 1) \o ps[i]
  BY JoinSolves
<1>2. \A i \in 1 .. w : At(buf, pos + Len(J(i - 1)), ps[i])
  BY AtJoin
<1> HIDE DEF J
<1>3. 0 \in S
  <2>1. SubSeq(vs, 1, 0) = <<>> /\ 0 \in 0 .. w
    BY <1>0
  <2>2. pos + Len(J(0)) = pos
    BY <1>1
  <2> QED BY <2>1, <2>2
<1>4. ASSUME NEW n \in 1 .. w, n - 1 \in S PROVE n \in S
  <2>1. n - 1 \in 0 .. w /\ n \in 0 .. w
    BY <1>0
  <2>2. J(n - 1) \in Seq(Bytes) /\ ps[n] \in Seq(Bytes) /\ J(n) = J(n - 1) \o ps[n]
    BY <1>0, <1>1, <2>1
  <2>3. pos + Len(J(n - 1)) \in Nat
    BY <2>2
  <2>4. r[n - 1] = Cursor(pos + Len(J(n - 1)), SubSeq(vs, 1, n - 1))
    BY <1>4
  <2>5. r[n] = Cursor(pos + Len(J(n - 1)) + Len(ps[n]), Append(SubSeq(vs, 1, n - 1), vs[n]))
    BY <1>2, <2>3, <2>4
  <2>6. pos + Len(J(n)) = pos + Len(J(n - 1)) + Len(ps[n])
    <3>1. Len(J(n)) = Len(J(n - 1)) + Len(ps[n])
      BY <2>2, ConcatProperties
    <3>2. Len(J(n - 1)) \in Nat /\ Len(ps[n]) \in Nat
      BY <2>2, LenProperties
    <3>3. \A a, b \in Nat : pos + (a + b) = pos + a + b
      OBVIOUS
    <3> QED BY <3>1, <3>2, <3>3, ZenonT(30)
  <2>7. Append(SubSeq(vs, 1, n - 1), vs[n]) = SubSeq(vs, 1, n)
    <3> DEFINE a == Append(SubSeq(vs, 1, n - 1), vs[n])
               b == SubSeq(vs, 1, n)
    <3>1. n \in Nat /\ n - 1 \in Nat /\ n <= Len(vs) /\ n - 1 <= Len(vs)
      BY <1>0
    <3>2. /\ a \in Seq(V) /\ Len(a) = n /\ b \in Seq(V) /\ Len(b) = n
          /\ \A i \in 1 .. n : a[i] = vs[i] /\ b[i] = vs[i]
      BY <1>0, <3>1
    <3> HIDE DEF a, b
    <3>3. a = b
      BY <3>2, SeqEqual
    <3> QED BY <3>3 DEF a, b
  <2> QED BY <2>1, <2>5, <2>6, <2>7
<1>5. \A n \in 0 .. w : n \in S
  <2> HIDE DEF S
  <2> QED BY <1>0, <1>3, <1>4, Counted
<1>6. r[w] = Cursor(pos + Len(J(w)), SubSeq(vs, 1, w))
  <2>1. w \in 0 .. w
    BY <1>0
  <2> QED BY <1>5, <2>1
<1>7. SubSeq(vs, 1, w) = vs
  BY <1>0
<1> QED BY <1>6, <1>7 DEF J, Join

(* The i-th step, from c to d, passed over a part that goes with what it   *)
(* read.                                                                   *)
Passed(buf, c, d, i, V, Goes) ==
    /\ c.ok
    /\ \E v \in V, p \in Seq(Bytes) :
          /\ <<i, v, p>> \in Goes /\ At(buf, c.pos, p)
          /\ d.pos = c.pos + Len(p) /\ d.out = Append(c.out, v)

(* Parts that go with what c has read are all there is between pos and c.  *)
Covers(buf, pos, c, k, Goes) ==
    /\ Len(c.out) = k
    /\ \E ps \in Parts :
          /\ Len(ps) = k /\ \A j \in 1 .. k : <<j, c.out[j], ps[j]>> \in Goes
          /\ At(buf, pos, Join(ps)) /\ c.pos = pos + Len(Join(ps))

(* If each step that succeeds has done so, such parts are all there is up  *)
(* to where the last one stands.                                           *)
LEMMA WalkBack ==
    ASSUME NEW buf \in Seq(Bytes), NEW pos \in 0 .. Len(buf), NEW k \in Nat, NEW V, NEW Goes,
           NEW r, r[0] = Cursor(pos, <<>>), \A i \in 0 .. k : r[i] \in Cursors(buf, V),
           \A i \in 1 .. k : r[i].ok => Passed(buf, r[i - 1], r[i], i, V, Goes),
           r[k].ok
    PROVE  Covers(buf, pos, r[k], k, Goes)
<1> DEFINE Fit(ps, n) == /\ Len(ps) = n /\ \A j \in 1 .. n : <<j, r[n].out[j], ps[j]>> \in Goes
                         /\ At(buf, pos, Join(ps)) /\ r[n].pos = pos + Len(Join(ps))
           Good(n) == r[n].ok => Len(r[n].out) = n /\ \E ps \in Parts : Fit(ps, n)
           S == {n \in 0 .. k : Good(n)}
<1>0. Len(buf) \in Nat /\ pos \in Nat /\ pos <= Len(buf)
  OBVIOUS
<1>c. \A i \in 0 .. k : r[i].ok \in BOOLEAN /\ r[i].pos \in 0 .. Len(buf) /\ r[i].out \in Seq(V)
  BY DEF Cursors
<1>1. 0 \in S
  <2>1. <<>> \in Parts /\ Len(<<>>) = 0 /\ 1 .. 0 = {} /\ 0 \in 0 .. k
    BY DEF Parts
  <2>2. r[0].out = <<>> /\ r[0].pos = pos
    BY DEF Cursor
  <2>3. At(buf, pos, <<>>)
    BY <1>0, <2>1 DEF At
  <2>4. Fit(<<>>, 0)
    <3>1. At(buf, pos, Join(<<>>)) /\ pos + Len(Join(<<>>)) = pos
      BY <1>0, <2>1, <2>3, JoinEmpty
    <3>2. \A j \in 1 .. 0 : FALSE
      BY <2>1
    <3> QED BY <2>1, <2>2, <3>1, <3>2
  <2>5. Good(0)
    <3> HIDE DEF Fit
    <3> QED BY <2>1, <2>2, <2>4
  <2> HIDE DEF Good
  <2> QED BY <2>1, <2>5
<1>2. ASSUME NEW n \in 1 .. k, n - 1 \in S PROVE n \in S
  <2>0. n \in 0 .. k /\ n - 1 \in 0 .. k /\ n - 1 + 1 = n /\ n - 1 \in Nat
    OBVIOUS
  <2>1. SUFFICES ASSUME r[n].ok PROVE Len(r[n].out) = n /\ \E ps \in Parts : Fit(ps, n)
    <3> HIDE DEF Fit
    <3> QED BY <2>0
  <2>2. r[n - 1].ok
    BY <2>1 DEF Passed
  <2>3. PICK v \in V, p \in Seq(Bytes) :
           /\ <<n, v, p>> \in Goes /\ At(buf, r[n - 1].pos, p)
           /\ r[n].pos = r[n - 1].pos + Len(p) /\ r[n].out = Append(r[n - 1].out, v)
    BY <2>1 DEF Passed
  <2>4. Len(r[n - 1].out) = n - 1 /\ \E ps \in Parts : Fit(ps, n - 1)
    <3> HIDE DEF Fit
    <3> QED BY <1>2, <2>2
  <2>5. PICK ps \in Parts : Fit(ps, n - 1)
    BY <2>4
  <2> DEFINE qs == Append(ps, p)
             o == r[n - 1].out
             o2 == r[n].out
  <2>6. /\ Len(ps) = n - 1 /\ \A j \in 1 .. n - 1 : <<j, o[j], ps[j]>> \in Goes
        /\ At(buf, pos, Join(ps)) /\ r[n - 1].pos = pos + Len(Join(ps))
    BY <2>5
  <2>7. /\ o \in Seq(V) /\ Len(o) = n - 1 /\ o2 = Append(o, v)
    BY <1>c, <2>0, <2>3, <2>4
  <2>8. Join(ps) \in Seq(Bytes) /\ qs \in Parts /\ Join(qs) = Join(ps) \o p
    BY JoinType, JoinAppend
  <2> HIDE DEF o, o2
  <2>9. Len(o2) = n /\ o2[n] = v /\ \A j \in 1 .. n - 1 : o2[j] = o[j]
    BY <2>0, <2>7
  <2>10. Len(qs) = n /\ qs[n] = p /\ \A j \in 1 .. n - 1 : qs[j] = ps[j]
    BY <2>0, <2>6 DEF Parts
  <2> HIDE DEF qs
  <2>11. ASSUME NEW j \in 1 .. n PROVE <<j, o2[j], qs[j]>> \in Goes
    <3>1. CASE j = n
      BY <2>3, <2>9, <2>10, <3>1
    <3>2. CASE j # n
      <4>1. j \in 1 .. n - 1
        BY <2>0, <3>2
      <4> QED BY <2>6, <2>9, <2>10, <4>1
    <3> QED BY <3>1, <3>2
  <2>12. At(buf, pos, Join(qs))
    BY <1>0, <2>3, <2>6, <2>8, AtConcat
  <2>13. r[n].pos = pos + Len(Join(qs))
    <3>1. Len(Join(qs)) = Len(Join(ps)) + Len(p) /\ Len(p) \in Nat /\ Len(Join(ps)) \in Nat
      BY <2>8, ConcatProperties
    <3> QED BY <1>0, <2>3, <2>6, <3>1
  <2>14. Fit(qs, n)
    BY <2>10, <2>11, <2>12, <2>13 DEF o2
  <2> HIDE DEF Fit
  <2> QED BY <2>8, <2>9, <2>14 DEF o2
<1>3. k \in S
  <2>1. k \in 0 .. k
    OBVIOUS
  <2> HIDE DEF S
  <2> QED BY <1>1, <1>2, <2>1, Counted
<1> QED BY <1>3 DEF Covers

-----------------------------------------------------------------------------
(* Rows of fields.                                                         *)

(* ReadFields is the recursion it is written as.                           *)
LEMMA FieldsSolve ==
    ASSUME NEW buf \in Seq(Bytes), NEW pos \in 0 .. Len(buf), NEW kinds \in Seq(Kinds)
    PROVE  /\ ReadFields(buf, pos, kinds)[0] = Cursor(pos, <<>>)
           /\ \A i \in 0 .. Len(kinds) : ReadFields(buf, pos, kinds)[i] \in Cursors(buf, Vals)
           /\ \A i \in 1 .. Len(kinds) :
                 ReadFields(buf, pos, kinds)[i] =
                     Read(buf, ReadFields(buf, pos, kinds)[i - 1], kinds[i])
<1> DEFINE w == Len(kinds)
           D == Cursors(buf, Vals)
           F == [n \in 1 .. w |-> [c \in D |-> Read(buf, c, kinds[n])]]
           Body(f) == [i \in 0 .. w |->
                          IF i = 0 THEN Cursor(pos, <<>>) ELSE Read(buf, f[i - 1], kinds[i])]
<1>0. w \in Nat /\ Cursor(pos, <<>>) \in D /\ \A i \in 1 .. w : kinds[i] \in Kinds
  BY DEF Cursor, Cursors
<1>d. \A i \in 1 .. w : \A c \in D : Read(buf, c, kinds[i]) \in D
  BY <1>0, ReadBack
<1> HIDE DEF D, w
<1>1. F \in [1 .. w -> [D -> D]]
  BY <1>d
<1>2. \A n \in 1 .. w : \A c \in D : F[n][c] = Read(buf, c, kinds[n])
  OBVIOUS
<1> HIDE DEF F
<1>3. PICK f : Iterates(f, D, w, Cursor(pos, <<>>), F)
  BY <1>0, <1>1, Recursion
<1>5. 0 \in 0 .. w /\ \A i \in 0 .. w : i = 0 \/ i \in 1 .. w
  BY <1>0
<1>p. \A i \in 1 .. w : i - 1 \in 0 .. w /\ i \in 0 .. w /\ i # 0
  BY <1>0
<1>4. /\ f \in [0 .. w -> D] /\ f[0] = Cursor(pos, <<>>)
      /\ \A i \in 1 .. w : f[i] = Read(buf, f[i - 1], kinds[i])
  BY <1>2, <1>3, <1>p DEF Iterates
<1>6. f = Body(f)
  <2>1. \A i \in 0 .. w : f[i] = Body(f)[i]
    BY <1>4, <1>5
  <2> QED BY <1>4, <2>1
<1>7. ReadFields(buf, pos, kinds) = CHOOSE g : g = Body(g)
  BY DEF ReadFields, w
<1>8. ReadFields(buf, pos, kinds) = Body(ReadFields(buf, pos, kinds))
  <2> HIDE DEF Body
  <2> QED BY <1>6, <1>7
<1> DEFINE r == ReadFields(buf, pos, kinds)
<1>9. r[0] = Cursor(pos, <<>>) /\ \A i \in 1 .. w : r[i] = Read(buf, r[i - 1], kinds[i])
  BY <1>5, <1>8, <1>p
<1>10. \A i \in 0 .. w : r[i] \in D
  <2> DEFINE S == {i \in 0 .. w : r[i] \in D}
  <2> HIDE DEF r
  <2>1. 0 \in S
    BY <1>0, <1>5, <1>9
  <2>2. ASSUME NEW n \in 1 .. w, n - 1 \in S PROVE n \in S
    BY <1>p, <1>9, <1>d, <2>2
  <2>3. \A i \in 0 .. w : i \in S
    <3> HIDE DEF S
    <3> QED BY <1>0, <2>1, <2>2, Counted
  <2> QED BY <2>3
<1> QED BY <1>9, <1>10 DEF w, D

LEMMA RowParts ==
    ASSUME NEW kinds \in Seq(Kinds), NEW vs, RowOK(kinds, vs)
    PROVE  /\ vs \in Seq(Vals) /\ Len(vs) = Len(kinds)
           /\ [i \in 1 .. Len(kinds) |-> Put(kinds[i], vs[i])] \in Parts
           /\ Len([i \in 1 .. Len(kinds) |-> Put(kinds[i], vs[i])]) = Len(kinds)
           /\ PutAll(kinds, vs) \in Seq(Bytes)
<1> DEFINE w == Len(kinds)
           ps == [i \in 1 .. w |-> Put(kinds[i], vs[i])]
<1>0. w \in Nat /\ DOMAIN kinds = 1 .. w /\ \A i \in 1 .. w : kinds[i] \in Kinds
  OBVIOUS
<1>1. vs = [i \in 1 .. w |-> vs[i]] /\ \A i \in 1 .. w : FieldOK(kinds[i], vs[i])
  BY <1>0 DEF RowOK
<1>2. \A i \in 1 .. w : vs[i] \in Vals /\ Put(kinds[i], vs[i]) \in Seq(Bytes)
  BY <1>0, <1>1, PutType
<1> HIDE DEF w
<1>3. vs \in [1 .. w -> Vals] /\ ps \in [1 .. w -> Seq(Bytes)]
  BY <1>1, <1>2
<1>4. vs \in Seq(Vals) /\ Len(vs) = w
  BY <1>0, <1>3, LenProperties
<1>5. ps \in Parts /\ Len(ps) = w
  <2> HIDE DEF ps
  <2> QED BY <1>0, <1>3, LenProperties DEF Parts
<1>6. PutAll(kinds, vs) \in Seq(Bytes)
  <2>1. PutAll(kinds, vs) = Join(ps)
    BY DEF PutAll, w
  <2> QED BY <1>5, <2>1, JoinType
<1> QED BY <1>4, <1>5, <1>6 DEF w

(* decode of one row gives the fields encode put ...                       *)
LEMMA RowThere ==
    ASSUME NEW buf \in Seq(Bytes), NEW pos \in Nat, NEW kinds \in Seq(Kinds), NEW vs,
           RowOK(kinds, vs), At(buf, pos, PutAll(kinds, vs))
    PROVE  ReadAll(buf, pos, kinds) = Cursor(pos + Len(PutAll(kinds, vs)), vs)
<1> DEFINE w == Len(kinds)
           ps == [i \in 1 .. w |-> Put(kinds[i], vs[i])]
           r == ReadFields(buf, pos, kinds)
<1>0. w \in Nat /\ \A i \in 1 .. w : kinds[i] \in Kinds /\ FieldOK(kinds[i], vs[i])
  BY DEF RowOK
<1>1. vs \in Seq(Vals) /\ Len(vs) = w /\ ps \in Parts /\ Len(ps) = w
  BY RowParts
<1>2. PutAll(kinds, vs) = Join(ps) /\ \A i \in 1 .. w : ps[i] = Put(kinds[i], vs[i])
  BY DEF PutAll
<1>3. pos \in 0 .. Len(buf)
  <2>1. Join(ps) \in Seq(Bytes)
    BY <1>1, JoinType
  <2> QED BY <1>2, <2>1 DEF At
<1>4. r[0] = Cursor(pos, <<>>) /\ \A i \in 1 .. w : r[i] = Read(buf, r[i - 1], kinds[i])
  BY <1>3, FieldsSolve
<1> HIDE DEF r, ps, w
<1>5. ASSUME NEW i \in 1 .. w, NEW p \in Nat, NEW out, At(buf, p, ps[i]),
             r[i - 1] = Cursor(p, out)
      PROVE  r[i] = Cursor(p + Len(ps[i]), Append(out, vs[i]))
  <2>1. kinds[i] \in Kinds /\ FieldOK(kinds[i], vs[i]) /\ At(buf, p, Put(kinds[i], vs[i]))
    BY <1>0, <1>2, <1>5
  <2>2. r[i] = Read(buf, Cursor(p, out), kinds[i])
    BY <1>4, <1>5
  <2>3. PICK kind, v : kind \in Kinds /\ kind = kinds[i] /\ v = vs[i]
    BY <2>1
  <2>4. Read(buf, Cursor(p, out), kind) = Cursor(p + Len(Put(kind, v)), Append(out, v))
    <3>1. FieldOK(kind, v) /\ At(buf, p, Put(kind, v))
      BY <2>1, <2>3
    <3> QED BY <2>3, <3>1, ReadThere
  <2> QED BY <1>2, <2>2, <2>3, <2>4
<1>6. At(buf, pos, Join(ps))
  BY <1>2
<1>7. r[Len(ps)] = Cursor(pos + Len(Join(ps)), vs)
  BY <1>1, <1>4, <1>5, <1>6, WalkThere, SMTT(40)
<1> QED BY <1>1, <1>2, <1>7 DEF ReadAll, r, w

(* ... and encode of what it gives, the bytes it passed over.              *)
LEMMA RowBack ==
    ASSUME NEW buf \in Seq(Bytes), NEW pos \in 0 .. Len(buf), NEW kinds \in Seq(Kinds)
    PROVE  /\ ReadAll(buf, pos, kinds) \in Cursors(buf, Vals)
           /\ ReadAll(buf, pos, kinds).ok =>
                LET vs == ReadAll(buf, pos, kinds).out
                IN  /\ PutAll(kinds, vs) \in Seq(Bytes) /\ At(buf, pos, PutAll(kinds, vs))
                    /\ ReadAll(buf, pos, kinds).pos = pos + Len(PutAll(kinds, vs))
<1> DEFINE w == Len(kinds)
           r == ReadFields(buf, pos, kinds)
           Goes == {x \in Nat \X Vals \X Seq(Bytes) : x[3] = Put(kinds[x[1]], x[2])}
<1>0. w \in Nat /\ w \in 0 .. w /\ \A i \in 1 .. w : kinds[i] \in Kinds /\ i \in Nat
  OBVIOUS
<1>1. /\ r[0] = Cursor(pos, <<>>) /\ \A i \in 0 .. w : r[i] \in Cursors(buf, Vals)
      /\ \A i \in 1 .. w : r[i] = Read(buf, r[i - 1], kinds[i])
  BY FieldsSolve
<1>g. \A i \in Nat, v \in Vals, p \in Seq(Bytes) : p = Put(kinds[i], v) <=> <<i, v, p>> \in Goes
  OBVIOUS
<1>h. \A i, v, p : <<i, v, p>> \in Goes => p = Put(kinds[i], v)
  OBVIOUS
<1>2. r[w] = ReadAll(buf, pos, kinds)
  BY DEF ReadAll
<1> HIDE DEF r, w, Goes
<1>3. ASSUME NEW i \in 1 .. w, r[i].ok PROVE Passed(buf, r[i - 1], r[i], i, Vals, Goes)
  <2>1. i - 1 \in 0 .. w
    BY <1>0
  <2>2. r[i - 1] \in Cursors(buf, Vals) /\ kinds[i] \in Kinds /\ i \in Nat
    BY <1>0, <1>1, <2>1
  <2>3. PICK c \in Cursors(buf, Vals) : c = r[i - 1]
    BY <2>2
  <2>4. Read(buf, c, kinds[i]).ok /\ r[i] = Read(buf, c, kinds[i])
    BY <1>1, <1>3, <2>3
  <2>5. c.ok /\ \E v \in Vals :
                  /\ Put(kinds[i], v) \in Seq(Bytes) /\ At(buf, c.pos, Put(kinds[i], v))
                  /\ Read(buf, c, kinds[i]).pos = c.pos + Len(Put(kinds[i], v))
                  /\ Read(buf, c, kinds[i]).out = Append(c.out, v)
    BY <2>2, <2>4, ReadBack
  <2>6. PICK v \in Vals : /\ Put(kinds[i], v) \in Seq(Bytes) /\ At(buf, c.pos, Put(kinds[i], v))
                          /\ r[i].pos = c.pos + Len(Put(kinds[i], v))
                          /\ r[i].out = Append(c.out, v)
    BY <2>4, <2>5
  <2>7. PICK p \in Seq(Bytes) : p = Put(kinds[i], v)
    BY <2>6
  <2>8. <<i, v, p>> \in Goes
    BY <1>g, <2>2, <2>7
  <2> QED BY <2>3, <2>5, <2>6, <2>7, <2>8 DEF Passed
<1>4. ASSUME r[w].ok
      PROVE  /\ PutAll(kinds, r[w].out) \in Seq(Bytes) /\ At(buf, pos, PutAll(kinds, r[w].out))
             /\ r[w].pos = pos + Len(PutAll(kinds, r[w].out))
  <2>1. PICK ps \in Parts :
            /\ Len(ps) = w /\ \A j \in 1 .. w : <<j, r[w].out[j], ps[j]>> \in Goes
            /\ At(buf, pos, Join(ps)) /\ r[w].pos = pos + Len(Join(ps))
    <3>1. /\ w \in Nat /\ r[0] = Cursor(pos, <<>>) /\ \A i \in 0 .. w : r[i] \in Cursors(buf, Vals)
          /\ \A i \in 1 .. w : r[i].ok => Passed(buf, r[i - 1], r[i], i, Vals, Goes)
      BY <1>0, <1>1, <1>3
    <3>2. Covers(buf, pos, r[w], w, Goes)
      BY <1>4, <3>1, WalkBack
    <3> QED BY <3>2 DEF Covers
  <2>2. \A j \in 1 .. w : ps[j] = Put(kinds[j], r[w].out[j])
    BY <1>h, <2>1
  <2>3. ps = [j \in 1 .. w |-> Put(kinds[j], r[w].out[j])]
    <3>1. ps = [j \in 1 .. w |-> ps[j]]
      BY <2>1 DEF Parts
    <3> QED BY <2>2, <3>1
  <2>4. PutAll(kinds, r[w].out) = Join(ps)
    BY <2>3 DEF PutAll, w
  <2> QED BY <2>1, <2>4, JoinType
<1> QED BY <1>0, <1>1, <1>2, <1>4

-----------------------------------------------------------------------------
(* The rows of a message.                                                  *)

(* decode takes the fields in the order encode puts them.                  *)
LEMMA Layouts ==
    ASSUME NEW ty
    PROVE  /\ FixedFields(ty) \in Seq(Kinds) /\ PutRow(ty) \in Seq(Kinds)
           /\ ReadRow(ty) = PutRow(ty)
<1>1. FixedFields(ty) \in {<<"u16">>, <<"u32">>, <<>>}
  BY DEF FixedFields, Hello, Welcome, WantGroup, Tuples
<1>2. <<"u16">> \in Seq(Kinds) /\ <<"u32">> \in Seq(Kinds) /\ <<>> \in Seq(Kinds)
  BY DEF Kinds
<1>3. /\ <<"u32", "str", "u64", "u32", "u32", "str">> \in Seq(Kinds)
      /\ <<"u32", "u64", "u64", "u32">> \in Seq(Kinds)
  BY DEF Kinds
<1>4. FixedFields(ty) \in Seq(Kinds)
  BY <1>1, <1>2
<1> QED BY <1>3, <1>4 DEF PutRow, ReadRow

(* The same for one row of a list ...                                      *)
LEMMA NextThere ==
    ASSUME NEW buf \in Seq(Bytes), NEW p \in Nat, NEW out, NEW ty, NEW row,
           RowOK(PutRow(ty), row), At(buf, p, PutAll(PutRow(ty), row))
    PROVE  NextRow(buf, Cursor(p, out), ty) =
               Cursor(p + Len(PutAll(PutRow(ty), row)), Append(out, row))
<1> DEFINE c == Cursor(p, out)
           l == Len(PutAll(PutRow(ty), row))
           a == ReadAll(buf, c.pos, ReadRow(ty))
<1>0. c.ok = TRUE /\ c.pos = p /\ c.out = out
  BY DEF Cursor
<1>1. PICK kinds \in Seq(Kinds) : kinds = PutRow(ty) /\ kinds = ReadRow(ty)
  BY Layouts
<1>2. l \in Nat
  BY <1>1, RowParts
<1>3. ReadAll(buf, p, kinds) = Cursor(p + l, row)
  BY <1>1, RowThere
<1>4. a = Cursor(p + l, row)
  BY <1>0, <1>1, <1>3
<1>5. a.ok /\ a.pos = p + l /\ a.out = row
  BY <1>4 DEF Cursor
<1>6. NextRow(buf, c, ty) = IF c.ok /\ a.ok THEN Take(c, a.pos - c.pos, a.out) ELSE Fail(c)
  BY DEF NextRow
<1> HIDE DEF a, c, l
<1>7. p + ((p + l) - p) = p + l
  BY <1>2
<1>8. NextRow(buf, c, ty) = Cursor(p + l, Append(out, row))
  BY <1>0, <1>5, <1>6, <1>7 DEF Take
<1> QED BY <1>8 DEF c, l

(* ... in both directions ...                                              *)
LEMMA NextBack ==
    ASSUME NEW buf \in Seq(Bytes), NEW c \in Cursors(buf, Seq(Vals)), NEW ty
    PROVE  /\ NextRow(buf, c, ty) \in Cursors(buf, Seq(Vals))
           /\ NextRow(buf, c, ty).ok =>
                 /\ c.ok
                 /\ \E row \in Seq(Vals), p \in Seq(Bytes) :
                      /\ p = PutAll(PutRow(ty), row) /\ At(buf, c.pos, p)
                      /\ NextRow(buf, c, ty).pos = c.pos + Len(p)
                      /\ NextRow(buf, c, ty).out = Append(c.out, row)
<1> DEFINE a == ReadAll(buf, c.pos, ReadRow(ty))
           p == PutAll(PutRow(ty), a.out)
<1>0. /\ c.ok \in BOOLEAN /\ c.pos \in 0 .. Len(buf) /\ c.pos \in Nat
      /\ c.out \in Seq(Seq(Vals)) /\ Len(buf) \in Nat
  BY DEF Cursors
<1>1. PICK kinds \in Seq(Kinds) : kinds = PutRow(ty) /\ kinds = ReadRow(ty)
  BY Layouts
<1>2. /\ a \in Cursors(buf, Vals)
      /\ a.ok => p \in Seq(Bytes) /\ At(buf, c.pos, p) /\ a.pos = c.pos + Len(p)
  BY <1>0, <1>1, RowBack
<1>3. a.pos \in 0 .. Len(buf) /\ a.out \in Seq(Vals)
  BY <1>2 DEF Cursors
<1>4. NextRow(buf, c, ty) = IF c.ok /\ a.ok THEN Take(c, a.pos - c.pos, a.out) ELSE Fail(c)
  BY DEF NextRow
<1>f. Fail(c) \in Cursors(buf, Seq(Vals)) /\ Fail(c).ok = FALSE
  BY <1>0 DEF Fail, Cursors
<1>e. p = PutAll(PutRow(ty), a.out)
  OBVIOUS
<1> HIDE DEF a, p
<1>5. CASE c.ok /\ a.ok
  <2>1. c.pos + (a.pos - c.pos) = a.pos /\ Append(c.out, a.out) \in Seq(Seq(Vals))
    BY <1>0, <1>3
  <2>2. NextRow(buf, c, ty) = Cursor(a.pos, Append(c.out, a.out))
    BY <1>4, <1>5, <2>1 DEF Take
  <2>3. /\ NextRow(buf, c, ty).pos = a.pos /\ NextRow(buf, c, ty).out = Append(c.out, a.out)
        /\ NextRow(buf, c, ty) \in Cursors(buf, Seq(Vals))
    BY <1>3, <2>1, <2>2 DEF Cursor, Cursors
  <2> QED BY <1>2, <1>3, <1>5, <1>e, <2>3
<1>6. CASE ~(c.ok /\ a.ok)
  <2>1. NextRow(buf, c, ty) = Fail(c)
    BY <1>4, <1>6
  <2> QED BY <1>f, <2>1
<1> QED BY <1>5, <1>6

(* RowsFrom is the recursion it is written as.                             *)
LEMMA RowsSolve ==
    ASSUME NEW buf \in Seq(Bytes), NEW pos \in 0 .. Len(buf), NEW ty, NEW k \in Nat
    PROVE  /\ RowsFrom(buf, pos, ty, k)[0] = Cursor(pos, <<>>)
           /\ \A i \in 0 .. k : RowsFrom(buf, pos, ty, k)[i] \in Cursors(buf, Seq(Vals))
           /\ \A i \in 1 .. k :
                 RowsFrom(buf, pos, ty, k)[i] = NextRow(buf, RowsFrom(buf, pos, ty, k)[i - 1], ty)
<1> DEFINE D == Cursors(buf, Seq(Vals))
           F == [n \in 1 .. k |-> [c \in D |-> NextRow(buf, c, ty)]]
           Body(f) == [i \in 0 .. k |->
                          IF i = 0 THEN Cursor(pos, <<>>) ELSE NextRow(buf, f[i - 1], ty)]
<1>0. Cursor(pos, <<>>) \in D
  BY DEF Cursor, Cursors
<1>d. \A c \in D : NextRow(buf, c, ty) \in D
  BY NextBack
<1> HIDE DEF D
<1>1. F \in [1 .. k -> [D -> D]]
  BY <1>d
<1>2. \A n \in 1 .. k : \A c \in D : F[n][c] = NextRow(buf, c, ty)
  OBVIOUS
<1> HIDE DEF F
<1>3. PICK f : Iterates(f, D, k, Cursor(pos, <<>>), F)
  BY <1>0, <1>1, Recursion
<1>5. 0 \in 0 .. k /\ \A i \in 0 .. k : i = 0 \/ i \in 1 .. k
  OBVIOUS
<1>p. \A i \in 1 .. k : i - 1 \in 0 .. k /\ i \in 0 .. k /\ i # 0
  OBVIOUS
<1>4. /\ f \in [0 .. k -> D] /\ f[0] = Cursor(pos, <<>>)
      /\ \A i \in 1 .. k : f[i] = NextRow(buf, f[i - 1], ty)
  BY <1>2, <1>3, <1>p DEF Iterates
<1>6. f = Body(f)
  <2>1. \A i \in 0 .. k : f[i] = Body(f)[i]
    BY <1>4, <1>5
  <2> QED BY <1>4, <2>1
<1>7. RowsFrom(buf, pos, ty, k) = CHOOSE g : g = Body(g)
  BY DEF RowsFrom
<1>8. RowsFrom(buf, pos, ty, k) = Body(RowsFrom(buf, pos, ty, k))
  <2> HIDE DEF Body
  <2> QED BY <1>6, <1>7
<1> DEFINE r == RowsFrom(buf, pos, ty, k)
<1>9. r[0] = Cursor(pos, <<>>) /\ \A i \in 1 .. k : r[i] = NextRow(buf, r[i - 1], ty)
  BY <1>5, <1>8, <1>p
<1>10. \A i \in 0 .. k : r[i] \in D
  <2> DEFINE S == {i \in 0 .. k : r[i] \in D}
  <2> HIDE DEF r
  <2>1. 0 \in S
    BY <1>0, <1>5, <1>9
  <2>2. ASSUME NEW n \in 1 .. k, n - 1 \in S PROVE n \in S
    BY <1>p, <1>9, <1>d, <2>2
  <2>3. \A i \in 0 .. k : i \in S
    <3> HIDE DEF S
    <3> QED BY <2>1, <2>2, Counted
  <2> QED BY <2>3
<1> QED BY <1>9, <1>10 DEF D

LEMMA RowsParts ==
    ASSUME NEW ty, HasRows(ty), NEW rows, RowsOK(ty, rows)
    PROVE  /\ rows \in Seq(Seq(Vals)) /\ Len(rows) \in Nat /\ Fits(W32, Len(rows))
           /\ \A i \in 1 .. Len(rows) : RowOK(PutRow(ty), rows[i])
           /\ [i \in 1 .. Len(rows) |-> PutAll(PutRow(ty), rows[i])] \in Parts
           /\ Len([i \in 1 .. Len(rows) |-> PutAll(PutRow(ty), rows[i])]) = Len(rows)
           /\ PutRows(PutRow(ty), rows) \in Seq(Bytes)
<1> DEFINE w == Len(rows)
           ps == [i \in 1 .. w |-> PutAll(PutRow(ty), rows[i])]
<1>0. /\ w \in Nat /\ Fits(W32, w) /\ rows = [i \in 1 .. w |-> rows[i]]
      /\ \A i \in 1 .. w : RowOK(PutRow(ty), rows[i])
  BY DEF RowsOK
<1>1. \A i \in 1 .. w : rows[i] \in Seq(Vals) /\ PutAll(PutRow(ty), rows[i]) \in Seq(Bytes)
  BY <1>0, Layouts, RowParts
<1> HIDE DEF w
<1>2. rows \in [1 .. w -> Seq(Vals)] /\ ps \in [1 .. w -> Seq(Bytes)]
  BY <1>0, <1>1
<1>3. rows \in Seq(Seq(Vals))
  BY <1>0, <1>2, LenProperties
<1>4. ps \in Parts /\ Len(ps) = w
  <2> HIDE DEF ps
  <2> QED BY <1>0, <1>2, LenProperties DEF Parts
<1>5. PutRows(PutRow(ty), rows) \in Seq(Bytes)
  <2>1. PutRows(PutRow(ty), rows) = Join(ps)
    BY DEF PutRows, w
  <2> QED BY <1>4, <2>1, JoinType
<1> QED BY <1>0, <1>3, <1>4, <1>5 DEF w

(* ... and for all rows of a message ...                                   *)
LEMMA RowsThere ==
    ASSUME NEW buf \in Seq(Bytes), NEW pos \in Nat, NEW ty, HasRows(ty), NEW rows,
           RowsOK(ty, rows), At(buf, pos, PutRows(PutRow(ty), rows))
    PROVE  RowsFrom(buf, pos, ty, Len(rows))[Len(rows)] =
               Cursor(pos + Len(PutRows(PutRow(ty), rows)), rows)
<1> DEFINE w == Len(rows)
           ps == [i \in 1 .. w |-> PutAll(PutRow(ty), rows[i])]
           r == RowsFrom(buf, pos, ty, w)
<1>1. /\ rows \in Seq(Seq(Vals)) /\ w \in Nat /\ ps \in Parts /\ Len(ps) = w
      /\ \A i \in 1 .. w : RowOK(PutRow(ty), rows[i])
  BY RowsParts
<1>2. PutRows(PutRow(ty), rows) = Join(ps) /\ \A i \in 1 .. w : ps[i] = PutAll(PutRow(ty), rows[i])
  BY DEF PutRows
<1>3. pos \in 0 .. Len(buf)
  <2>1. Join(ps) \in Seq(Bytes)
    BY <1>1, JoinType
  <2> QED BY <1>2, <2>1 DEF At
<1>4. r[0] = Cursor(pos, <<>>) /\ \A i \in 1 .. w : r[i] = NextRow(buf, r[i - 1], ty)
  BY <1>1, <1>3, RowsSolve
<1>w. Len(rows) = w
  OBVIOUS
<1> HIDE DEF r, ps, w
<1>5. ASSUME NEW i \in 1 .. w, NEW p \in Nat, NEW out, At(buf, p, ps[i]), r[i - 1] = Cursor(p, out)
      PROVE  r[i] = Cursor(p + Len(ps[i]), Append(out, rows[i]))
  <2>1. PICK row : row = rows[i]
    OBVIOUS
  <2>2. RowOK(PutRow(ty), row) /\ At(buf, p, PutAll(PutRow(ty), row)) /\ ps[i] = PutAll(PutRow(ty), row)
    BY <1>1, <1>2, <1>5, <2>1
  <2>3. NextRow(buf, Cursor(p, out), ty) =
            Cursor(p + Len(PutAll(PutRow(ty), row)), Append(out, row))
    BY <2>2, NextThere
  <2> QED BY <1>4, <1>5, <2>1, <2>2, <2>3
<1>6. At(buf, pos, Join(ps))
  BY <1>2
<1>8. \A i \in 1 .. Len(ps) : \A p \in Nat : \A out :
          At(buf, p, ps[i]) /\ r[i - 1] = Cursor(p, out) =>
              r[i] = Cursor(p + Len(ps[i]), Append(out, rows[i]))
  BY <1>1, <1>5
<1>7. r[Len(ps)] = Cursor(pos + Len(Join(ps)), rows)
  <2>1. PICK V : V = Seq(Vals)
    OBVIOUS
  <2>2. rows \in Seq(V) /\ Len(rows) = Len(ps) /\ ps \in Parts
    BY <1>1, <1>w, <2>1
  <2> QED BY <1>4, <1>6, <1>8, <2>2, WalkThere, ZenonT(40)
<1> QED BY <1>1, <1>2, <1>7 DEF r, w

(* ... in both directions.                                                 *)
LEMMA RowsBack ==
    ASSUME NEW buf \in Seq(Bytes), NEW pos \in 0 .. Len(buf), NEW ty, NEW k \in Nat
    PROVE  /\ RowsFrom(buf, pos, ty, k)[k] \in Cursors(buf, Seq(Vals))
           /\ RowsFrom(buf, pos, ty, k)[k].ok =>
                LET rows == RowsFrom(buf, pos, ty, k)[k].out
                    p == PutRows(PutRow(ty), rows)
                IN  /\ Len(rows) = k /\ p \in Seq(Bytes) /\ At(buf, pos, p)
                    /\ RowsFrom(buf, pos, ty, k)[k].pos = pos + Len(p)
<1> DEFINE r == RowsFrom(buf, pos, ty, k)
           Goes == {x \in Nat \X Seq(Vals) \X Seq(Bytes) : x[3] = PutAll(PutRow(ty), x[2])}
<1>0. k \in 0 .. k /\ \A i \in 1 .. k : i \in Nat /\ i - 1 \in 0 .. k
  OBVIOUS
<1>1. /\ r[0] = Cursor(pos, <<>>) /\ \A i \in 0 .. k : r[i] \in Cursors(buf, Seq(Vals))
      /\ \A i \in 1 .. k : r[i] = NextRow(buf, r[i - 1], ty)
  BY RowsSolve
<1>g. \A i \in Nat, v \in Seq(Vals), p \in Seq(Bytes) :
          p = PutAll(PutRow(ty), v) <=> <<i, v, p>> \in Goes
  OBVIOUS
<1>h. \A i, v, p : <<i, v, p>> \in Goes => p = PutAll(PutRow(ty), v)
  OBVIOUS
<1> HIDE DEF r, Goes
<1>3. ASSUME NEW i \in 1 .. k, r[i].ok PROVE Passed(buf, r[i - 1], r[i], i, Seq(Vals), Goes)
  <2>1. PICK c \in Cursors(buf, Seq(Vals)) : c = r[i - 1]
    BY <1>0, <1>1
  <2>2. NextRow(buf, c, ty).ok /\ r[i] = NextRow(buf, c, ty)
    BY <1>1, <1>3, <2>1
  <2>3. c.ok /\ \E row \in Seq(Vals), p \in Seq(Bytes) :
                  /\ p = PutAll(PutRow(ty), row) /\ At(buf, c.pos, p)
                  /\ r[i].pos = c.pos + Len(p) /\ r[i].out = Append(c.out, row)
    BY <2>2, NextBack
  <2>4. PICK row \in Seq(Vals), p \in Seq(Bytes) :
           /\ p = PutAll(PutRow(ty), row) /\ At(buf, c.pos, p)
           /\ r[i].pos = c.pos + Len(p) /\ r[i].out = Append(c.out, row)
    BY <2>3
  <2>5. <<i, row, p>> \in Goes
    BY <1>0, <1>g, <2>4
  <2> QED BY <2>1, <2>3, <2>4, <2>5 DEF Passed
<1>4. ASSUME r[k].ok
      PROVE  /\ Len(r[k].out) = k
             /\ PutRows(PutRow(ty), r[k].out) \in Seq(Bytes)
             /\ At(buf, pos, PutRows(PutRow(ty), r[k].out))
             /\ r[k].pos = pos + Len(PutRows(PutRow(ty), r[k].out))
  <2>0. Covers(buf, pos, r[k], k, Goes)
    BY <1>1, <1>3, <1>4, WalkBack
  <2>1. Len(r[k].out) = k
    BY <2>0 DEF Covers
  <2>2. PICK ps \in Parts :
            /\ Len(ps) = k /\ \A j \in 1 .. k : <<j, r[k].out[j], ps[j]>> \in Goes
            /\ At(buf, pos, Join(ps)) /\ r[k].pos = pos + Len(Join(ps))
    BY <2>0 DEF Covers
  <2>3. \A j \in 1 .. k : ps[j] = PutAll(PutRow(ty), r[k].out[j])
    BY <1>h, <2>2
  <2>4. ps = [j \in 1 .. k |-> PutAll(PutRow(ty), r[k].out[j])]
    <3>1. ps = [j \in 1 .. k |-> ps[j]]
      BY <2>2 DEF Parts
    <3> QED BY <2>3, <3>1
  <2>5. PutRows(PutRow(ty), r[k].out) = Join(ps)
    BY <2>1, <2>4 DEF PutRows
  <2> QED BY <2>1, <2>2, <2>5, JoinType
<1> QED BY <1>0, <1>1, <1>4 DEF r

-----------------------------------------------------------------------------
(* Messages.                                                               *)

(* The count and the rows, in a message that has them.                     *)
Body(ty, rows) ==
    IF HasRows(ty) THEN PutInt(W32, Len(rows)) \o PutRows(PutRow(ty), rows) ELSE <<>>

Header(m) == PutInt(W32, 1 + Len(Payload(m))) \o <<m.ty>>

LEMMA PayloadParts ==
    ASSUME NEW m, MessageOK(m)
    PROVE  /\ PutAll(FixedFields(m.ty), m.fields) \in Seq(Bytes)
           /\ m.fields \in Seq(Vals)
           /\ HasRows(m.ty) => /\ PutInt(W32, Len(m.rows)) \in Seq(Bytes)
                               /\ Len(PutInt(W32, Len(m.rows))) = W32
                               /\ PutRows(PutRow(m.ty), m.rows) \in Seq(Bytes)
           /\ Body(m.ty, m.rows) \in Seq(Bytes)
           /\ Payload(m) = PutAll(FixedFields(m.ty), m.fields) \o Body(m.ty, m.rows)
           /\ Payload(m) \in Seq(Bytes)
<1>1. PutAll(FixedFields(m.ty), m.fields) \in Seq(Bytes) /\ m.fields \in Seq(Vals)
  <2>1. PICK kinds \in Seq(Kinds) : kinds = FixedFields(m.ty)
    BY Layouts
  <2>2. RowOK(kinds, m.fields)
    BY <2>1 DEF MessageOK
  <2> QED BY <2>1, <2>2, RowParts
<1>2. ASSUME HasRows(m.ty)
      PROVE  /\ PutInt(W32, Len(m.rows)) \in Seq(Bytes)
             /\ Len(PutInt(W32, Len(m.rows))) = W32
             /\ PutRows(PutRow(m.ty), m.rows) \in Seq(Bytes)
  <2>1. Len(m.rows) \in Nat /\ PutRows(PutRow(m.ty), m.rows) \in Seq(Bytes)
    BY <1>2, RowsParts DEF MessageOK
  <2> QED BY <2>1, WidthType, PutIntType
<1>3. Body(m.ty, m.rows) \in Seq(Bytes)
  <2>1. CASE HasRows(m.ty)
    BY <1>2, <2>1 DEF Body
  <2>2. CASE ~HasRows(m.ty)
    BY <2>2 DEF Body
  <2> QED BY <2>1, <2>2
<1>4. Payload(m) = PutAll(FixedFields(m.ty), m.fields) \o Body(m.ty, m.rows)
  BY DEF Payload, Body
<1>5. Payload(m) \in Seq(Bytes)
  BY <1>1, <1>3, <1>4
<1> QED BY <1>1, <1>2, <1>3, <1>4, <1>5

(* decode gives back what encode was given.                                *)
THEOREM DecodeInvertsEncode ==
    ASSUME NEW m, MessageOK(m)
    PROVE  Decode(m.ty, Payload(m)) = {m}
<1> DEFINE buf == Payload(m)
           A == PutAll(FixedFields(m.ty), m.fields)
           l == Len(A)
           h == ReadAll(buf, 0, FixedFields(m.ty))
           R == IF HasRows(m.ty) /\ h.ok THEN ReadRows(buf, h, m.ty)
                                         ELSE [h EXCEPT !.out = <<>>]
<1>1. /\ A \in Seq(Bytes) /\ Body(m.ty, m.rows) \in Seq(Bytes) /\ m.fields \in Seq(Vals)
      /\ buf \in Seq(Bytes) /\ buf = A \o Body(m.ty, m.rows)
  BY PayloadParts
<1>2. l \in Nat /\ Len(buf) = l + Len(Body(m.ty, m.rows))
  BY <1>1, ConcatProperties
<1>d. Decode(m.ty, buf) = IF m.ty \in Hello .. Tuples /\ Done(buf, R)
                          THEN {[ty |-> m.ty, fields |-> h.out, rows |-> R.out]} ELSE {}
  BY DEF Decode
<1>m. m = [ty |-> m.ty, fields |-> m.fields, rows |-> m.rows] /\ m.ty \in Hello .. Tuples
  BY DEF MessageOK
<1>A. A = PutAll(FixedFields(m.ty), m.fields)
  OBVIOUS
<1> HIDE DEF buf, A
<1>3. At(buf, 0, A) /\ At(buf, l, Body(m.ty, m.rows))
  <2>1. PICK b \in Seq(Bytes), B \in Seq(Bytes) :
            b = buf /\ B = Body(m.ty, m.rows) /\ buf = A \o B
    BY <1>1
  <2>2. At(b, 0, b)
    BY AtWhole
  <2>3. At(b, 0, A) /\ At(b, 0 + l, B)
    <3>1. At(b, 0, A \o B) /\ A \in Seq(Bytes)
      BY <1>1, <2>1, <2>2
    <3> QED BY <3>1, AtConcat
  <2>4. 0 + l = l
    BY <1>2
  <2> QED BY <2>1, <2>3, <2>4
<1>f. PICK fs : fs = m.fields
  OBVIOUS
<1>r. PICK rows : rows = m.rows
  OBVIOUS
<1>b. buf \in Seq(Bytes)
  BY <1>1
<1>4. h = Cursor(l, m.fields)
  <2>1. PICK kinds \in Seq(Kinds) : kinds = FixedFields(m.ty)
    BY Layouts
  <2>2. RowOK(kinds, fs) /\ At(buf, 0, PutAll(kinds, fs))
    BY <1>3, <1>A, <1>f, <2>1 DEF MessageOK
  <2>3. ReadAll(buf, 0, kinds) = Cursor(0 + Len(PutAll(kinds, fs)), fs)
    BY <1>b, <2>2, RowThere
  <2>4. 0 + Len(PutAll(kinds, fs)) = l
    BY <1>2, <1>A, <1>f, <2>1
  <2> QED BY <1>f, <2>1, <2>3, <2>4
<1>5. h.ok /\ h.out = m.fields /\ h.pos = l
  BY <1>4 DEF Cursor
<1> HIDE DEF h
<1>6. R = Cursor(Len(buf), m.rows)
  <2>1. CASE HasRows(m.ty)
    <3> DEFINE k == Len(m.rows)
               rs == PutRows(PutRow(m.ty), m.rows)
    <3>1. /\ k \in Nat /\ Fits(W32, k) /\ RowsOK(m.ty, m.rows)
      BY <2>1, RowsParts DEF MessageOK
    <3>2. /\ PutInt(W32, k) \in Seq(Bytes) /\ Len(PutInt(W32, k)) = W32 /\ rs \in Seq(Bytes)
          /\ Body(m.ty, m.rows) = PutInt(W32, k) \o rs
      BY <2>1, PayloadParts DEF Body
    <3>r. rs = PutRows(PutRow(m.ty), m.rows)
      OBVIOUS
    <3>k. k = Len(m.rows)
      OBVIOUS
    <3>w. W32 \in Nat /\ l + W32 \in Nat
      BY <1>2, WidthType
    <3> HIDE DEF rs, k, l
    <3>3. At(buf, l, PutInt(W32, k)) /\ At(buf, l + W32, rs)
      <4>1. PICK i \in Seq(Bytes) : i = PutInt(W32, k)
        BY <3>2
      <4>2. Len(i) = W32 /\ At(buf, l, i \o rs)
        BY <1>3, <3>2, <4>1
      <4>3. At(buf, l, i) /\ At(buf, l + Len(i), rs)
        BY <1>1, <1>2, <3>2, <4>2, AtConcat
      <4> QED BY <4>1, <4>2, <4>3
    <3>4. ReadInt(buf, h, W32) = Cursor(l + W32, Append(m.fields, k))
      <4>1. "u32" \in Kinds /\ "u32" # "str" /\ Width("u32") = W32
        BY DEF Kinds, Width
      <4>2. FieldOK("u32", k) /\ Put("u32", k) = PutInt(W32, k)
        BY <3>1, <4>1 DEF FieldOK, Put
      <4>3. Read(buf, Cursor(l, fs), "u32") = Cursor(l + Len(Put("u32", k)), Append(fs, k))
        <5>1. PICK kind \in Kinds : kind = "u32"
          BY <4>1
        <5>2. FieldOK(kind, k) /\ At(buf, l, Put(kind, k)) /\ l \in Nat
          BY <1>2, <3>3, <4>2, <5>1 DEF l
        <5>3. Read(buf, Cursor(l, fs), kind) = Cursor(l + Len(Put(kind, k)), Append(fs, k))
          BY <1>b, <5>2, ReadThere
        <5> QED BY <5>1, <5>3
      <4>4. Read(buf, h, "u32") = ReadInt(buf, h, W32)
        BY <4>1 DEF Read
      <4> QED BY <1>4, <1>f, <3>2, <4>2, <4>3, <4>4
    <3> DEFINE n == ReadInt(buf, h, W32)
    <3>5. n.ok /\ n.pos = l + W32 /\ n.out = Append(m.fields, k)
      BY <3>4 DEF Cursor
    <3>6. Last(n.out) = k
      <4>1. Append(m.fields, k)[Len(Append(m.fields, k))] = k
        BY <1>1
      <4> QED BY <3>5, <4>1 DEF Last
    <3>7. ReadRows(buf, h, m.ty) = RowsFrom(buf, l + W32, m.ty, k)[k]
      BY <3>5, <3>6 DEF ReadRows
    <3>8. RowsFrom(buf, l + W32, m.ty, k)[k] = Cursor(l + W32 + Len(rs), m.rows)
      <4>1. RowsOK(m.ty, rows) /\ At(buf, l + W32, PutRows(PutRow(m.ty), rows))
        BY <1>r, <3>1, <3>3, <3>r
      <4>2. PICK p \in Nat : p = l + W32
        BY <3>w
      <4>3. RowsFrom(buf, p, m.ty, Len(rows))[Len(rows)] =
                Cursor(p + Len(PutRows(PutRow(m.ty), rows)), rows)
        BY <1>b, <2>1, <4>1, <4>2, RowsThere
      <4> QED BY <1>r, <3>k, <3>r, <4>2, <4>3
    <3>9. l + W32 + Len(rs) = Len(buf)
      <4>1. Len(Body(m.ty, m.rows)) = W32 + Len(rs) /\ Len(rs) \in Nat
        <5>1. PICK i \in Seq(Bytes) : i = PutInt(W32, k)
          BY <3>2
        <5>2. Len(i \o rs) = Len(i) + Len(rs) /\ Len(rs) \in Nat
          BY <3>2, ConcatProperties
        <5> QED BY <3>2, <5>1, <5>2
      <4> QED BY <1>2, <3>w, <4>1 DEF l
    <3>10. R = ReadRows(buf, h, m.ty)
      BY <1>5, <2>1
    <3> QED BY <3>7, <3>8, <3>9, <3>10
  <2>2. CASE ~HasRows(m.ty)
    <3>1. m.rows = <<>>
      BY <2>2 DEF MessageOK, RowsOK
    <3>2. Len(buf) = l
      BY <1>2, <2>2 DEF Body
    <3>3. R = [Cursor(l, m.fields) EXCEPT !.out = <<>>]
      BY <1>4, <2>2
    <3> QED BY <3>1, <3>2, <3>3 DEF Cursor
  <2> QED BY <2>1, <2>2
<1>7. R.ok /\ R.pos = Len(buf) /\ R.out = m.rows
  BY <1>6 DEF Cursor
<1> HIDE DEF R
<1>8. Decode(m.ty, buf) = {[ty |-> m.ty, fields |-> h.out, rows |-> R.out]}
  BY <1>d, <1>m, <1>7 DEF Done
<1> QED BY <1>m, <1>5, <1>7, <1>8 DEF buf

(* And what it gives is what encode makes those bytes of, whatever bytes   *)
(* they are.                                                               *)
THEOREM EncodeInvertsDecode ==
    ASSUME NEW buf \in Seq(Bytes), NEW ty, NEW x \in Decode(ty, buf)
    PROVE  x.ty = ty /\ Payload(x) = buf /\ Decode(ty, buf) = {x}
<1> DEFINE h == ReadAll(buf, 0, FixedFields(ty))
           R == IF HasRows(ty) /\ h.ok THEN ReadRows(buf, h, ty) ELSE [h EXCEPT !.out = <<>>]
           A == PutAll(FixedFields(ty), h.out)
<1>d. Decode(ty, buf) = IF ty \in Hello .. Tuples /\ Done(buf, R)
                        THEN {[ty |-> ty, fields |-> h.out, rows |-> R.out]} ELSE {}
  BY DEF Decode
<1>0. 0 \in 0 .. Len(buf) /\ Len(buf) \in Nat
  OBVIOUS
<1>1. h \in Cursors(buf, Vals) /\ (h.ok => A \in Seq(Bytes) /\ At(buf, 0, A) /\ h.pos = 0 + Len(A))
  <2>1. PICK kinds \in Seq(Kinds) : kinds = FixedFields(ty)
    BY Layouts
  <2> QED BY <1>0, <2>1, RowBack
<1> HIDE DEF h, A
<1>2. /\ x = [ty |-> ty, fields |-> h.out, rows |-> R.out]
      /\ R.ok /\ R.pos = Len(buf) /\ Decode(ty, buf) = {x}
  <2> HIDE DEF R
  <2>1. Done(buf, R)
    BY <1>d
  <2> QED BY <1>d, <2>1 DEF Done
<1>3. x.ty = ty /\ x.fields = h.out /\ x.rows = R.out
  <2> HIDE DEF R
  <2> QED BY <1>2
<1>c. h.pos \in 0 .. Len(buf) /\ h.out \in Seq(Vals) /\ h.ok \in BOOLEAN /\ h = [h EXCEPT !.ok = h.ok]
  BY <1>1 DEF Cursors
<1>4. CASE HasRows(ty)
  <2>1. h.ok
    <3>1. CASE ~h.ok
      <4>1. R = [h EXCEPT !.out = <<>>]
        BY <3>1
      <4>2. ~R.ok
        BY <1>1, <3>1, <4>1 DEF Cursors
      <4> QED BY <1>2, <4>2
    <3> QED BY <3>1, <1>c
  <2>2. R = ReadRows(buf, h, ty)
    BY <1>4, <2>1
  <2> DEFINE n == ReadInt(buf, h, W32)
  <2>3. R = IF n.ok THEN RowsFrom(buf, n.pos, ty, Last(n.out))[Last(n.out)] ELSE n
    BY <2>2 DEF ReadRows
  <2> HIDE DEF R
  <2>4. n.ok
    BY <1>2, <2>3
  <2>5. PICK k \in Nat, i \in Seq(Bytes) :
            /\ i = PutInt(W32, k) /\ Len(i) = W32 /\ At(buf, h.pos, i)
            /\ n.pos = h.pos + W32 /\ n.out = Append(h.out, k)
            /\ n.pos \in 0 .. Len(buf)
    <3> DEFINE k == IntOf(Slice(buf, h.pos, W32))
    <3>1. Has(buf, h, W32)
      BY <1>1, <2>4 DEF ReadInt, Fail
    <3>2. W32 \in Nat /\ h.pos \in Nat /\ h.pos + W32 <= Len(buf)
      BY <1>0, <1>c, <3>1, WidthType DEF Has
    <3>3. n = Cursor(h.pos + W32, Append(h.out, k))
      BY <3>1 DEF ReadInt, Take
    <3>4. PICK s \in Seq(Bytes) : s = Slice(buf, h.pos, W32) /\ Len(s) = W32 /\ At(buf, h.pos, s)
      BY <3>2, SliceAt
    <3>5. k \in Nat /\ PutInt(W32, k) = s
      BY <3>4, IntOfType, IntBack
    <3> HIDE DEF k
    <3>6. n.pos = h.pos + W32 /\ n.out = Append(h.out, k) /\ n.pos \in 0 .. Len(buf)
      BY <1>0, <3>2, <3>3 DEF Cursor
    <3> QED BY <3>4, <3>5, <3>6
  <2>6. Last(n.out) = k
    <3>1. Append(h.out, k)[Len(Append(h.out, k))] = k
      BY <1>c
    <3> QED BY <2>5, <3>1 DEF Last
  <2>7. R = RowsFrom(buf, n.pos, ty, k)[k]
    BY <2>3, <2>4, <2>6
  <2> DEFINE rs == PutRows(PutRow(ty), R.out)
  <2> HIDE DEF n
  <2>8. Len(R.out) = k /\ rs \in Seq(Bytes) /\ At(buf, n.pos, rs) /\ R.pos = n.pos + Len(rs)
    BY <1>2, <2>5, <2>7, RowsBack, SMTT(40)
  <2>9. Body(ty, R.out) = i \o rs
    BY <1>4, <2>5, <2>8 DEF Body
  <2> HIDE DEF rs
  <2>10. At(buf, h.pos, i \o rs) /\ i \o rs \in Seq(Bytes)
    <3>1. h.pos \in Nat
      BY <1>0, <1>c
    <3> QED BY <2>5, <2>8, <3>1, AtConcat
  <2>11. Payload(x) = A \o (i \o rs)
    BY <1>3, <1>4, <2>9 DEF Payload, A, Body
  <2>12. A \in Seq(Bytes) /\ At(buf, 0, A) /\ h.pos = 0 + Len(A)
    BY <1>1, <2>1
  <2>13. At(buf, 0, A \o (i \o rs))
    BY <2>10, <2>12, AtConcat, ZenonT(40)
  <2>14. Len(A \o (i \o rs)) = Len(buf)
    <3>0. W32 \in Nat /\ Len(A) \in Nat
      BY <2>12, WidthType
    <3>1. Len(i \o rs) = W32 + Len(rs) /\ Len(rs) \in Nat
      BY <2>5, <2>8, ConcatProperties
    <3>2. Len(A \o (i \o rs)) = Len(A) + Len(i \o rs)
      BY <2>10, <2>12, ConcatProperties
    <3> QED BY <1>2, <2>5, <2>8, <2>12, <3>0, <3>1, <3>2
  <2>15. A \o (i \o rs) = buf
    <3>0. PICK t \in Seq(Bytes) : t = i \o rs
      BY <2>10
    <3>1. PICK s \in Seq(Bytes) : s = A \o (i \o rs)
      BY <2>12, <3>0, ConcatProperties
    <3> QED BY <2>13, <2>14, <3>1, WholeAt
  <2> QED BY <1>2, <1>3, <2>11, <2>15
<1>5. CASE ~HasRows(ty)
  <2>1. R = [h EXCEPT !.out = <<>>]
    BY <1>5
  <2>2. h.ok /\ h.pos = Len(buf)
    <3>1. R.ok = h.ok /\ R.pos = h.pos
      BY <1>1, <2>1 DEF Cursors
    <3> HIDE DEF R
    <3> QED BY <1>2, <3>1
  <2>3. A \in Seq(Bytes) /\ At(buf, 0, A) /\ Len(A) = Len(buf)
    BY <1>0, <1>1, <2>2
  <2>4. A = buf
    BY <2>3, WholeAt
  <2>5. Payload(x) = A \o <<>>
    <3> HIDE DEF R
    <3> QED BY <1>3, <1>5 DEF Payload, A
  <2>6. A \o <<>> = A
    BY <2>3
  <2> QED BY <1>2, <1>3, <2>4, <2>5, <2>6
<1> QED BY <1>4, <1>5

-----------------------------------------------------------------------------
(* Frames.                                                                 *)

(* What decode can return.                                                 *)
Decoded == UNION {Decode(x[1], x[2]) : x \in Bytes \X Seq(Bytes)}
Msgs == Messages \cup Decoded

LEMMA EncodeIs ==
    ASSUME NEW m PROVE Encode(m) = Header(m) \o Payload(m)
BY DEF Encode, Header

(* A frame is a header of W32 + 1 bytes and the payload.                   *)
LEMMA HeaderType ==
    ASSUME NEW m, Payload(m) \in Seq(Bytes), m.ty \in Bytes
    PROVE  /\ Header(m) \in Seq(Bytes) /\ Len(Header(m)) = W32 + 1 /\ Last(Header(m)) = m.ty
           /\ Slice(Header(m), 0, W32) = PutInt(W32, 1 + Len(Payload(m)))
           /\ Encode(m) \in Seq(Bytes) /\ Len(Encode(m)) = W32 + 1 + Len(Payload(m))
<1>0. Len(Payload(m)) \in Nat /\ 1 + Len(Payload(m)) \in Nat /\ W32 \in Nat
  BY WidthType
<1>1. PICK i \in Seq(Bytes) : i = PutInt(W32, 1 + Len(Payload(m))) /\ Len(i) = W32
  BY <1>0, PutIntType
<1>2. PICK t \in Bytes : t = m.ty
  OBVIOUS
<1>3. Header(m) = i \o <<t>> /\ <<t>> \in Seq(Bytes) /\ Len(<<t>>) = 1
  BY <1>1, <1>2 DEF Header
<1>4. i \o <<t>> = Append(i, t)
  BY <1>1, <1>2
<1> DEFINE h == Append(i, t)
<1>5. /\ h \in Seq(Bytes) /\ Len(h) = W32 + 1 /\ h[W32 + 1] = t
      /\ \A j \in 1 .. W32 : h[j] = i[j]
  BY <1>0, <1>1, <1>2
<1> HIDE DEF h
<1>6. Last(h) = t
  BY <1>5 DEF Last
<1>7. Slice(h, 0, W32) = i
  <2>1. At(h, 0, i)
    BY <1>0, <1>1, <1>5 DEF At
  <2> QED BY <1>1, <1>5, <2>1, AtSlice
<1>8. Encode(m) \in Seq(Bytes) /\ Len(Encode(m)) = W32 + 1 + Len(Payload(m))
  <2>1. PICK p \in Seq(Bytes) : p = Payload(m)
    OBVIOUS
  <2>2. h \o p \in Seq(Bytes) /\ Len(h \o p) = Len(h) + Len(p)
    BY <1>5, ConcatProperties
  <2>3. Encode(m) = h \o p
    BY <1>3, <1>4, <2>1, EncodeIs DEF h
  <2> QED BY <1>5, <2>1, <2>2, <2>3
<1> QED BY <1>1, <1>2, <1>3, <1>4, <1>5, <1>6, <1>7, <1>8 DEF h

(* The header of a message the sender has says how long its payload is.    *)
LEMMA HeaderThere ==
    ASSUME NEW m \in Messages
    PROVE  /\ m.ty \in Bytes /\ Payload(m) \in Seq(Bytes)
           /\ LengthOf(Header(m)) = 1 + Len(Payload(m))
<1>1. MessageOK(m) /\ ByteBase > Tuples /\ ByteBase \in Nat
  BY MessagesAssumption, WidthAssumption DEF MessagesAssumption, WidthAssumption
<1>2. m.ty \in Bytes
  BY <1>1 DEF MessageOK, Bytes, Hello, Tuples
<1>3. Payload(m) \in Seq(Bytes) /\ Fits(W32, 1 + Len(Payload(m)))
  BY <1>1, PayloadParts DEF MessageOK
<1>4. PICK n \in Nat : n = 1 + Len(Payload(m))
  BY <1>3
<1>5. IntOf(PutInt(W32, n)) = n
  BY <1>3, <1>4, WidthType, IntThere
<1>6. Slice(Header(m), 0, W32) = PutInt(W32, n)
  BY <1>2, <1>3, <1>4, HeaderType
<1> QED BY <1>2, <1>3, <1>4, <1>5, <1>6 DEF LengthOf

(* A frame that was decoded is the encoding of what it was decoded to.     *)
LEMMA FrameBack ==
    ASSUME NEW f \in Seq(Bytes), Len(f) = W32 + 1, NEW buf \in Seq(Bytes),
           LengthOf(f) = 1 + Len(buf), NEW x \in Decode(Last(f), buf)
    PROVE  x \in Decoded /\ Encode(x) = f \o buf
<1>0. W32 \in Nat /\ Len(buf) \in Nat
  BY WidthType
<1>1. PICK t \in Bytes : t = Last(f)
  <2>1. f[W32 + 1] \in Bytes
    BY <1>0
  <2> QED BY <2>1 DEF Last
<1>2. x.ty = t /\ Payload(x) = buf
  BY <1>1, EncodeInvertsDecode
<1>3. x \in Decoded
  <2>1. <<t, buf>> \in Bytes \X Seq(Bytes) /\ <<t, buf>>[1] = t /\ <<t, buf>>[2] = buf
    OBVIOUS
  <2>2. x \in Decode(<<t, buf>>[1], <<t, buf>>[2])
    BY <1>1, <2>1
  <2> QED BY <2>1, <2>2 DEF Decoded
<1>4. PICK i \in Seq(Bytes) : i = Slice(f, 0, W32) /\ Len(i) = W32 /\ \A j \in 1 .. W32 : i[j] = f[j]
  <2>1. 0 + W32 <= Len(f) /\ 0 \in Nat
    BY <1>0
  <2>2. /\ Slice(f, 0, W32) \in Seq(Bytes) /\ Len(Slice(f, 0, W32)) = W32
        /\ \A j \in 1 .. W32 : Slice(f, 0, W32)[j] = f[0 + j]
    BY <1>0, <2>1, SliceAt, ZenonT(40)
  <2>3. \A j \in 1 .. W32 : 0 + j = j
    BY <1>0
  <2> QED BY <2>2, <2>3
<1>5. PutInt(W32, 1 + Len(buf)) = i
  <2>1. IntOf(i) = 1 + Len(buf)
    BY <1>4 DEF LengthOf
  <2> QED BY <1>4, <2>1, IntBack
<1>6. Header(x) = i \o <<t>>
  BY <1>2, <1>5 DEF Header
<1>7. i \o <<t>> = f
  <2>1. i \o <<t>> = Append(i, t)
    BY <1>4
  <2> DEFINE h == Append(i, t)
  <2>2. h \in Seq(Bytes) /\ Len(h) = W32 + 1 /\ h[W32 + 1] = t /\ \A j \in 1 .. W32 : h[j] = i[j]
    BY <1>0, <1>4
  <2> HIDE DEF h
  <2>3. f[W32 + 1] = t
    BY <1>1 DEF Last
  <2>4. ASSUME NEW j \in 1 .. Len(h) PROVE h[j] = f[j]
    <3>1. j = W32 + 1 \/ j \in 1 .. W32
      BY <1>0, <2>2
    <3> QED BY <1>4, <2>2, <2>3, <3>1
  <2>5. h = f
    BY <2>2, <2>4, SeqEqual
  <2> QED BY <2>1, <2>5 DEF h
<1> QED BY <1>2, <1>3, <1>6, <1>7, EncodeIs

LEMMA EncodeType == \A m \in Msgs : Encode(m) \in Seq(Bytes)
<1> SUFFICES ASSUME NEW m \in Msgs PROVE Encode(m) \in Seq(Bytes)
  OBVIOUS
<1>1. CASE m \in Messages
  <2>1. m.ty \in Bytes /\ Payload(m) \in Seq(Bytes)
    BY <1>1, HeaderThere
  <2> QED BY <2>1, HeaderType
<1>2. CASE m \in Decoded
  <2>1. PICK x \in Bytes \X Seq(Bytes) : m \in Decode(x[1], x[2])
    BY <1>2 DEF Decoded
  <2>2. PICK t \in Bytes, b \in Seq(Bytes) : t = x[1] /\ b = x[2]
    OBVIOUS
  <2>3. m.ty = t /\ Payload(m) = b
    BY <2>1, <2>2, EncodeInvertsDecode
  <2> QED BY <2>3, HeaderType
<1> QED BY <1>1, <1>2 DEF Msgs

(* The frames of messages, one after the other.                            *)
Encs(ms) == [i \in 1 .. Len(ms) |-> Encode(ms[i])]

LEMMA FramesParts ==
    ASSUME NEW ms \in Seq(Msgs)
    PROVE  /\ Encs(ms) \in Parts /\ Len(Encs(ms)) = Len(ms)
           /\ \A i \in 1 .. Len(ms) : Encs(ms)[i] = Encode(ms[i])
           /\ Frames(ms) = Join(Encs(ms)) /\ Frames(ms) \in Seq(Bytes)
<1>1. Len(ms) \in Nat /\ \A i \in 1 .. Len(ms) : Encode(ms[i]) \in Seq(Bytes)
  BY EncodeType
<1>2. Encs(ms) \in [1 .. Len(ms) -> Seq(Bytes)] /\ \A i \in 1 .. Len(ms) : Encs(ms)[i] = Encode(ms[i])
  BY <1>1 DEF Encs
<1>3. Encs(ms) \in Parts /\ Len(Encs(ms)) = Len(ms)
  BY <1>1, <1>2, LenProperties DEF Parts
<1>4. Frames(ms) = Join(Encs(ms))
  BY DEF Frames, Encs
<1> QED BY <1>2, <1>3, <1>4, JoinType

(* One more message, one more frame.                                       *)
LEMMA FramesAppend ==
    ASSUME NEW ms \in Seq(Msgs), NEW m \in Msgs
    PROVE  Frames(Append(ms, m)) = Frames(ms) \o Encode(m)
<1> DEFINE es == Encs(ms)
           as == Append(ms, m)
           e == Encode(m)
           ps == Append(es, e)
<1>1. /\ as \in Seq(Msgs) /\ Len(as) = Len(ms) + 1 /\ Len(ms) \in Nat /\ as[Len(ms) + 1] = m
      /\ \A i \in 1 .. Len(ms) : as[i] = ms[i]
  OBVIOUS
<1>2. /\ es \in Parts /\ Len(es) = Len(ms) /\ \A i \in 1 .. Len(ms) : es[i] = Encode(ms[i])
      /\ Frames(ms) = Join(es)
  BY FramesParts
<1>3. e \in Seq(Bytes) /\ e = Encode(m)
  BY EncodeType
<1> HIDE DEF es, e, as
<1>4. /\ ps \in Parts /\ Len(ps) = Len(ms) + 1 /\ ps[Len(ms) + 1] = e
      /\ \A i \in 1 .. Len(ms) : ps[i] = es[i]
  BY <1>2, <1>3 DEF Parts
<1>5. Join(ps) = Join(es) \o e
  BY <1>2, <1>3, JoinAppend
<1> HIDE DEF ps
<1>6. /\ Encs(as) \in Parts /\ Len(Encs(as)) = Len(as) /\ Frames(as) = Join(Encs(as))
      /\ \A i \in 1 .. Len(as) : Encs(as)[i] = Encode(as[i])
  BY <1>1, FramesParts
<1>7. ASSUME NEW i \in 1 .. Len(ps) PROVE ps[i] = Encs(as)[i]
  <2>1. i \in 1 .. Len(as) /\ (i = Len(ms) + 1 \/ i \in 1 .. Len(ms))
    BY <1>1, <1>4
  <2> QED BY <1>1, <1>2, <1>3, <1>4, <1>6, <2>1
<1>8. ps = Encs(as)
  <2>1. ps \in Seq(Seq(Bytes)) /\ Encs(as) \in Seq(Seq(Bytes)) /\ Len(ps) = Len(Encs(as))
    BY <1>1, <1>4, <1>6 DEF Parts
  <2> QED BY <1>7, <2>1, SeqEqual
<1> QED BY <1>2, <1>3, <1>5, <1>6, <1>8 DEF as

-----------------------------------------------------------------------------
(* The stream.                                                             *)

(* What the receiver has taken is the frames of the messages it has        *)
(* returned and the header of the next; that header names a length it      *)
(* accepts.                                                                *)
InStep ==
    /\ At(wire, 0, Frames(got))
    /\ rx = "open" => used = Len(Frames(got)) + Len(frame)
    /\ frame # <<>> => /\ rx = "open" /\ Len(frame) = W32 + 1
                       /\ At(wire, Len(Frames(got)), frame)
                       /\ InRange(LengthOf(frame))

(* The library at the other end has written the frames of what it sent,    *)
(* the last one perhaps in part, and the receiver has the first of them.   *)
FromPeer ==
    peer = "rdmalib" =>
        /\ Len(got) <= Len(sent) /\ \A i \in 1 .. Len(got) : got[i] = sent[i]
        /\ At(Frames(sent), 0, wire)
        /\ ~closed => wire = Frames(sent)

Typed == sent \in Seq(Messages) /\ got \in Seq(Msgs) /\ frame \in Seq(Bytes)

IInv == TypeOK /\ Typed /\ InStep /\ FromPeer /\ OnlyOversizeRefused

(* A stream that grows keeps what it holds.                                *)
LEMMA AtGrows ==
    ASSUME NEW buf \in Seq(Bytes), NEW t \in Seq(Bytes), NEW p \in Nat, NEW s \in Seq(Bytes),
           At(buf, p, s)
    PROVE  At(buf \o t, p, s)
<1>1. /\ Len(buf \o t) = Len(buf) + Len(t) /\ Len(buf) \in Nat /\ Len(t) \in Nat
      /\ \A i \in 1 .. Len(buf) : (buf \o t)[i] = buf[i]
  BY ConcatProperties
<1>2. p + Len(s) <= Len(buf) /\ Len(s) \in Nat /\ \A i \in 1 .. Len(s) : buf[p + i] = s[i]
  BY DEF At
<1>3. p + Len(s) <= Len(buf \o t)
  BY <1>1, <1>2
<1>4. \A i \in 1 .. Len(s) : p + i \in 1 .. Len(buf)
  BY <1>1, <1>2
<1>5. \A i \in 1 .. Len(s) : (buf \o t)[p + i] = s[i]
  BY <1>1, <1>2, <1>4
<1> QED BY <1>3, <1>5 DEF At

(* And what holds s holds its beginning.                                   *)
LEMMA AtPrefix ==
    ASSUME NEW buf \in Seq(Bytes), NEW p \in Nat, NEW s \in Seq(Bytes), At(buf, p, s),
           NEW k \in Nat, k <= Len(s)
    PROVE  SubSeq(s, 1, k) \in Seq(Bytes) /\ At(buf, p, SubSeq(s, 1, k))
<1> DEFINE t == SubSeq(s, 1, k)
<1>1. t \in Seq(Bytes) /\ Len(t) = k /\ \A i \in 1 .. k : t[i] = s[i]
  OBVIOUS
<1>2. p + Len(s) <= Len(buf) /\ Len(s) \in Nat /\ \A i \in 1 .. Len(s) : buf[p + i] = s[i]
  BY DEF At
<1> HIDE DEF t
<1>3. p + Len(t) <= Len(buf) /\ \A i \in 1 .. Len(t) : i \in 1 .. Len(s)
  BY <1>1, <1>2
<1>4. At(buf, p, t)
  BY <1>1, <1>2, <1>3 DEF At
<1> QED BY <1>1, <1>4 DEF t

(* Bytes of the whole stream that have been written are on it.             *)
LEMMA AtThrough ==
    ASSUME NEW full \in Seq(Bytes), NEW buf \in Seq(Bytes), NEW p \in Nat, NEW s \in Seq(Bytes),
           At(full, 0, buf), At(full, p, s), p + Len(s) <= Len(buf)
    PROVE  At(buf, p, s)
<1>1. Len(s) \in Nat /\ Len(buf) \in Nat /\ \A i \in 1 .. Len(buf) : full[i] = buf[i]
  BY DEF At
<1>2. \A i \in 1 .. Len(s) : full[p + i] = s[i] /\ p + i \in 1 .. Len(buf)
  BY <1>1 DEF At
<1> QED BY <1>1, <1>2 DEF At

(* With the library at the other end, the receiver's next message is the   *)
(* next one sent, and its frame starts where the receiver stands.          *)
LEMMA NextFrame ==
    ASSUME IInv, peer = "rdmalib", Len(Frames(got)) + W32 + 1 <= Len(wire)
    PROVE  /\ Len(got) + 1 \in 1 .. Len(sent)
           /\ At(Frames(sent), Len(Frames(got)), Header(sent[Len(got) + 1]))
           /\ At(Frames(sent), Len(Frames(got)) + W32 + 1, Payload(sent[Len(got) + 1]))
<1> DEFINE n == Len(got)
           L == Len(Frames(got))
           full == Frames(sent)
<1>0. /\ sent \in Seq(Msgs) /\ sent \in Seq(Messages) /\ got \in Seq(Msgs) /\ n \in Nat
      /\ Len(sent) \in Nat /\ W32 \in Nat
      /\ n <= Len(sent) /\ (\A i \in 1 .. n : got[i] = sent[i]) /\ At(full, 0, wire)
      /\ wire \in Seq(Bytes)
  <2>1. sent \in Seq(Messages) /\ got \in Seq(Msgs) /\ wire \in Seq(Bytes)
    BY DEF IInv, Typed, TypeOK, Bytes
  <2>2. sent \in Seq(Msgs)
    BY <2>1 DEF Msgs
  <2> QED BY <2>1, <2>2, WidthType DEF IInv, FromPeer
<1>1. /\ Encs(sent) \in Parts /\ Len(Encs(sent)) = Len(sent) /\ full = Join(Encs(sent))
      /\ \A i \in 1 .. Len(sent) : Encs(sent)[i] = Encode(sent[i])
      /\ full \in Seq(Bytes)
  BY <1>0, FramesParts
<1>2. /\ Encs(got) \in Parts /\ Len(Encs(got)) = n /\ Frames(got) = Join(Encs(got))
      /\ \A i \in 1 .. n : Encs(got)[i] = Encode(got[i])
      /\ Frames(got) \in Seq(Bytes)
  BY <1>0, FramesParts
<1>3. JoinOf(Encs(sent))[n] = Frames(got)
  <2>1. \A i \in 1 .. n : Encs(sent)[i] = Encs(got)[i]
    BY <1>0, <1>1, <1>2
  <2>2. n \in 0 .. n /\ n <= Len(Encs(sent)) /\ n <= Len(Encs(got))
    BY <1>0, <1>1, <1>2
  <2>3. JoinOf(Encs(sent))[n] = JoinOf(Encs(got))[n]
    BY <1>0, <1>1, <1>2, <2>1, <2>2, JoinAgrees
  <2> QED BY <1>2, <2>3 DEF Join
<1> HIDE DEF full, L, n
<1>4. L \in Nat /\ L + W32 + 1 <= Len(wire) /\ L = Len(Frames(got))
  BY <1>2 DEF L
<1>5. n # Len(sent)
  <2> SUFFICES ASSUME n = Len(sent) PROVE FALSE
    OBVIOUS
  <2>1. full = Frames(got)
    BY <1>1, <1>3 DEF Join
  <2>2. Len(wire) <= Len(full)
    BY <1>0, <1>1 DEF At
  <2>3. Len(wire) \in Nat
    BY <1>0
  <2> QED BY <1>0, <1>4, <2>1, <2>2, <2>3
<1>6. n + 1 \in 1 .. Len(sent) /\ n + 1 - 1 = n
  BY <1>0, <1>5
<1>7. PICK x \in Messages : x = sent[n + 1]
  BY <1>0, <1>6
<1>8. At(full, L, Encode(x))
  <2>1. At(full, 0, Join(Encs(sent)))
    BY <1>1, AtWhole
  <2>2. PICK ps \in Parts, f \in Seq(Bytes) : ps = Encs(sent) /\ f = full
    BY <1>1
  <2>3. \A i \in 1 .. Len(ps) : At(f, 0 + Len(JoinOf(ps)[i - 1]), ps[i])
    BY <2>1, <2>2, AtJoin
  <2>4. PICK i \in 1 .. Len(ps) : i = n + 1
    BY <1>1, <1>6, <2>2
  <2>5. i - 1 = n
    BY <1>0, <2>4
  <2>6. JoinOf(ps)[i - 1] = Frames(got) /\ ps[i] = Encode(x)
    BY <1>1, <1>3, <1>6, <1>7, <2>2, <2>4, <2>5
  <2>7. 0 + L = L
    BY <1>4
  <2> QED BY <1>4, <2>2, <2>3, <2>6, <2>7
<1>9. At(full, L, Header(x)) /\ At(full, L + W32 + 1, Payload(x))
  <2>1. x.ty \in Bytes /\ Payload(x) \in Seq(Bytes)
    BY HeaderThere
  <2>2. Header(x) \in Seq(Bytes) /\ Len(Header(x)) = W32 + 1
    BY <2>1, HeaderType
  <2>3. PICK h \in Seq(Bytes), p \in Seq(Bytes) : h = Header(x) /\ p = Payload(x)
    BY <2>1, <2>2
  <2>4. At(full, L, h \o p)
    BY <1>8, <2>3, EncodeIs
  <2>5. At(full, L, h) /\ At(full, L + Len(h), p)
    BY <1>1, <1>4, <2>4, AtConcat
  <2>6. L + Len(h) = L + W32 + 1
    <3>1. Len(h) = W32 + 1
      BY <2>2, <2>3
    <3>2. \A a, b \in Nat : a + (b + 1) = a + b + 1
      OBVIOUS
    <3> QED BY <1>0, <1>4, <3>1, <3>2
  <2> QED BY <2>3, <2>5, <2>6
<1> QED BY <1>6, <1>7, <1>9 DEF full, L, n

-----------------------------------------------------------------------------
(* The invariant is kept.                                                  *)

(* What the invariant says of each variable.                               *)
LEMMA StateTypes ==
    ASSUME IInv
    PROVE  /\ wire \in Seq(Bytes) /\ Len(wire) \in Nat /\ arrived \in Nat /\ used \in Nat
           /\ used <= arrived /\ arrived <= Len(wire)
           /\ sent \in Seq(Messages) /\ sent \in Seq(Msgs) /\ got \in Seq(Msgs)
           /\ frame \in Seq(Bytes) /\ (frame = <<>> \/ Len(frame) = W32 + 1)
           /\ Frames(got) \in Seq(Bytes) /\ Len(Frames(got)) \in Nat
           /\ Frames(sent) \in Seq(Bytes) /\ W32 \in Nat
<1>1. /\ sent \in Seq(Messages) /\ got \in Seq(Msgs) /\ wire \in Seq(Bytes)
      /\ frame \in Seq(Bytes) /\ (frame = <<>> \/ Len(frame) = W32 + 1)
      /\ arrived \in Nat /\ used \in Nat /\ used <= arrived /\ arrived <= Len(wire)
  BY DEF IInv, Typed, TypeOK, Bytes
<1>2. sent \in Seq(Msgs)
  BY <1>1 DEF Msgs
<1>3. Frames(got) \in Seq(Bytes) /\ Frames(sent) \in Seq(Bytes)
  BY <1>1, <1>2, FramesParts
<1> QED BY <1>1, <1>2, <1>3, WidthType

(* Only the sending end changes, and it adds t to the stream.              *)
LEMMA WireGrows ==
    ASSUME IInv, NEW t \in Seq(Bytes), wire' = wire \o t, UNCHANGED <<got, frame, rx, used, arrived>>
    PROVE  InStep' /\ wire' \in Seq(Bytes) /\ Len(wire) <= Len(wire')
<1>1. wire \in Seq(Bytes) /\ Frames(got) \in Seq(Bytes) /\ frame \in Seq(Bytes)
      /\ Len(Frames(got)) \in Nat
  BY StateTypes
<1>2. wire' \in Seq(Bytes) /\ Len(wire') = Len(wire) + Len(t) /\ Len(t) \in Nat /\ Len(wire) \in Nat
  BY <1>1, ConcatProperties
<1>3. At(wire', 0, Frames(got))
  BY <1>1, AtGrows DEF IInv, InStep
<1>4. frame # <<>> => At(wire', Len(Frames(got)), frame)
  BY <1>1, AtGrows DEF IInv, InStep
<1>5. InStep'
  BY <1>3, <1>4 DEF IInv, InStep, InRange, LengthOf
<1> QED BY <1>2, <1>5

(* The message the receiver refused stays the next one.                    *)
LEMMA RefusedStays ==
    ASSUME IInv, NEW m \in Messages, sent' = Append(sent, m), UNCHANGED <<peer, rx, got>>
    PROVE  OnlyOversizeRefused'
<1>1. sent \in Seq(Messages) /\ Len(got) \in Nat
  BY StateTypes
<1>2. Len(got) < Len(sent) => /\ Len(got) < Len(sent') /\ sent'[Len(got) + 1] = sent[Len(got) + 1]
  BY <1>1
<1> QED BY <1>2 DEF IInv, OnlyOversizeRefused

(* One lemma per action.                                                   *)
LEMMA SendKeeps == ASSUME IInv, NEW m \in Messages, Send(m) PROVE IInv'
<1>0. /\ wire \in Seq(Bytes) /\ sent \in Seq(Msgs) /\ sent \in Seq(Messages) /\ m \in Msgs
      /\ Len(sent) \in Nat /\ got \in Seq(Msgs) /\ Frames(sent) \in Seq(Bytes)
  BY StateTypes DEF Msgs
<1>1. /\ peer = "rdmalib" /\ ~closed /\ wire' = wire \o Encode(m) /\ sent' = Append(sent, m)
      /\ UNCHANGED <<peer, closed, arrived, used, frame, rx, got>>
  BY DEF Send
<1>2. PICK e \in Seq(Bytes) : e = Encode(m)
  BY <1>0, EncodeType
<1>3. InStep' /\ wire' \in Seq(Bytes) /\ Len(wire) <= Len(wire')
  BY <1>1, <1>2, WireGrows
<1>4. wire' = Frames(sent') /\ At(Frames(sent'), 0, wire')
  <2>1. wire = Frames(sent)
    BY <1>1 DEF IInv, FromPeer
  <2>2. wire' = Frames(sent')
    BY <1>0, <1>1, <2>1, FramesAppend
  <2> QED BY <1>3, <2>2, AtWhole
<1>5. /\ sent' \in Seq(Messages) /\ Len(sent') = Len(sent) + 1
      /\ \A i \in 1 .. Len(sent) : sent'[i] = sent[i]
  BY <1>0, <1>1
<1>6. FromPeer'
  <2>1. Len(got) <= Len(sent) /\ \A i \in 1 .. Len(got) : got[i] = sent[i]
    BY <1>1 DEF IInv, FromPeer
  <2>2. Len(got) \in Nat
    BY <1>0
  <2>3. Len(got) <= Len(sent') /\ \A i \in 1 .. Len(got) : got[i] = sent'[i]
    BY <1>0, <1>5, <2>1, <2>2
  <2> QED BY <1>1, <1>4, <2>3 DEF FromPeer
<1>7. OnlyOversizeRefused'
  BY <1>1, RefusedStays
<1>8. TypeOK' /\ Typed'
  <2>1. arrived \in 0 .. Len(wire') /\ wire' \in Seq(0 .. ByteBase - 1)
    BY <1>0, <1>3, StateTypes DEF Bytes
  <2>2. \A i \in DOMAIN sent' : sent'[i] \in Messages
    BY <1>5
  <2> QED BY <1>1, <1>5, <2>1, <2>2 DEF IInv, TypeOK, Typed
<1> QED BY <1>3, <1>6, <1>7, <1>8 DEF IInv

LEMMA SendFailsKeeps == ASSUME IInv, NEW m \in Messages, SendFails(m) PROVE IInv'
<1>0. /\ wire \in Seq(Bytes) /\ sent \in Seq(Msgs) /\ sent \in Seq(Messages) /\ m \in Msgs
      /\ Len(sent) \in Nat /\ got \in Seq(Msgs) /\ Frames(sent) \in Seq(Bytes)
  BY StateTypes DEF Msgs
<1>1. /\ peer = "rdmalib" /\ ~closed /\ sent' = Append(sent, m) /\ closed' = TRUE
      /\ UNCHANGED <<peer, arrived, used, frame, rx, got>>
  BY DEF SendFails
<1>2. PICK e \in Seq(Bytes) : e = Encode(m)
  BY <1>0, EncodeType
<1>k. PICK k \in Nat : k <= Len(e) /\ wire' = wire \o SubSeq(e, 1, k)
  <2>1. PICK k \in 0 .. Len(e) - 1 : wire' = wire \o SubSeq(e, 1, k)
    BY <1>2 DEF SendFails
  <2>2. k \in Nat /\ k <= Len(e)
    OBVIOUS
  <2> QED BY <2>1, <2>2
<1>e. At(e, 0, e)
  BY AtWhole
<1>s. PICK s \in Seq(Bytes) : s = SubSeq(e, 1, k)
  BY <1>e, <1>k, AtPrefix
<1>3. InStep' /\ wire' \in Seq(Bytes) /\ Len(wire) <= Len(wire')
  BY <1>1, <1>k, <1>s, WireGrows
<1>4. At(Frames(sent'), 0, wire')
  <2>1. wire = Frames(sent)
    BY <1>1 DEF IInv, FromPeer
  <2>2. PICK full \in Seq(Bytes) : full = wire \o e
    BY <1>0, ConcatProperties
  <2>3. Frames(sent') = full
    BY <1>0, <1>1, <1>2, <2>1, <2>2, FramesAppend
  <2>4. At(full, 0, wire \o e)
    BY <2>2, AtWhole
  <2>5. At(full, 0, wire) /\ At(full, 0 + Len(wire), e) /\ 0 + Len(wire) \in Nat
    BY <1>0, <2>4, AtConcat
  <2>6. At(full, 0 + Len(wire), s)
    BY <1>k, <1>s, <2>5, AtPrefix
  <2>7. At(full, 0, wire \o s)
    BY <1>0, <2>5, <2>6, AtConcat
  <2> QED BY <1>k, <1>s, <2>3, <2>7
<1>5. /\ sent' \in Seq(Messages) /\ Len(sent') = Len(sent) + 1
      /\ \A i \in 1 .. Len(sent) : sent'[i] = sent[i]
  BY <1>0, <1>1
<1>6. FromPeer'
  <2>1. Len(got) <= Len(sent) /\ \A i \in 1 .. Len(got) : got[i] = sent[i]
    BY <1>1 DEF IInv, FromPeer
  <2>2. Len(got) \in Nat
    BY <1>0
  <2>3. Len(got) <= Len(sent') /\ \A i \in 1 .. Len(got) : got[i] = sent'[i]
    BY <1>0, <1>5, <2>1, <2>2
  <2> QED BY <1>1, <1>4, <2>3 DEF FromPeer
<1>7. OnlyOversizeRefused'
  BY <1>1, RefusedStays
<1>8. TypeOK' /\ Typed'
  <2>1. arrived \in 0 .. Len(wire') /\ wire' \in Seq(0 .. ByteBase - 1)
    BY <1>0, <1>3, StateTypes DEF Bytes
  <2>2. \A i \in DOMAIN sent' : sent'[i] \in Messages
    BY <1>5
  <2> QED BY <1>1, <1>5, <2>1, <2>2 DEF IInv, TypeOK, Typed
<1> QED BY <1>3, <1>6, <1>7, <1>8 DEF IInv

LEMMA StrayKeeps == ASSUME IInv, NEW b \in StrayBytes, Stray(b) PROVE IInv'
<1>1. /\ peer = "stray" /\ wire' = Append(wire, b)
      /\ UNCHANGED <<peer, closed, arrived, used, frame, rx, sent, got>>
  BY DEF Stray
<1>2. wire \in Seq(Bytes) /\ b \in Bytes
  BY StateTypes, WidthAssumption DEF WidthAssumption, Bytes
<1>3. PICK t \in Seq(Bytes) : wire' = wire \o t
  <2>1. <<b>> \in Seq(Bytes) /\ Append(wire, b) = wire \o <<b>>
    BY <1>2
  <2> QED BY <1>1, <2>1
<1>4. InStep' /\ wire' \in Seq(Bytes) /\ Len(wire) <= Len(wire')
  BY <1>1, <1>3, WireGrows
<1>5. TypeOK' /\ Typed'
  <2>1. arrived \in 0 .. Len(wire') /\ wire' \in Seq(0 .. ByteBase - 1)
    BY <1>2, <1>4, StateTypes DEF Bytes
  <2> QED BY <1>1, <2>1 DEF IInv, TypeOK, Typed
<1>6. FromPeer' /\ OnlyOversizeRefused'
  BY <1>1 DEF FromPeer, OnlyOversizeRefused
<1> QED BY <1>4, <1>5, <1>6 DEF IInv

LEMMA CloseKeeps == ASSUME IInv, Close PROVE IInv'
<1>1. closed' = TRUE /\ UNCHANGED <<peer, wire, arrived, used, frame, rx, sent, got>>
  BY DEF Close
<1>2. TypeOK' /\ Typed'
  BY <1>1 DEF IInv, TypeOK, Typed
<1>3. InStep'
  BY <1>1 DEF IInv, InStep, InRange, LengthOf
<1>4. FromPeer' /\ OnlyOversizeRefused'
  BY <1>1 DEF IInv, FromPeer, OnlyOversizeRefused
<1> QED BY <1>2, <1>3, <1>4 DEF IInv

LEMMA DeliverKeeps == ASSUME IInv, Deliver PROVE IInv'
<1>1. /\ arrived < Len(wire) /\ arrived' = arrived + 1
      /\ UNCHANGED <<peer, wire, closed, used, frame, rx, sent, got>>
  BY DEF Deliver
<1>2. TypeOK' /\ Typed'
  <2>1. used \in 0 .. arrived' /\ arrived' \in 0 .. Len(wire)
    BY <1>1, StateTypes
  <2> QED BY <1>1, <2>1 DEF IInv, TypeOK, Typed
<1>3. InStep'
  BY <1>1 DEF IInv, InStep, InRange, LengthOf
<1>4. FromPeer' /\ OnlyOversizeRefused'
  BY <1>1 DEF IInv, FromPeer, OnlyOversizeRefused
<1> QED BY <1>2, <1>3, <1>4 DEF IInv

LEMMA ReadFailsKeeps == ASSUME IInv, ReadFails PROVE IInv'
<1>1. /\ used' = arrived /\ rx' = "io" /\ frame' = <<>>
      /\ UNCHANGED <<peer, wire, closed, arrived, sent, got>>
  BY DEF ReadFails, DropChannel
<1>2. TypeOK' /\ Typed'
  <2>1. used' \in 0 .. arrived /\ <<>> \in Seq(Bytes)
    BY <1>1, StateTypes
  <2> QED BY <1>1, <2>1 DEF IInv, TypeOK, Typed
<1>3. InStep'
  BY <1>1 DEF IInv, InStep
<1>4. FromPeer' /\ OnlyOversizeRefused'
  BY <1>1 DEF IInv, FromPeer, OnlyOversizeRefused
<1> QED BY <1>2, <1>3, <1>4 DEF IInv

LEMMA ReadHeaderKeeps == ASSUME IInv, ReadHeader PROVE IInv'
<1> DEFINE L == Len(Frames(got))
           h == Slice(wire, used, W32 + 1)
<1>0. /\ wire \in Seq(Bytes) /\ Len(wire) \in Nat /\ arrived \in Nat /\ used \in Nat
      /\ arrived <= Len(wire) /\ W32 \in Nat /\ Frames(got) \in Seq(Bytes)
  BY StateTypes
<1>1. /\ rx = "open" /\ frame = <<>> /\ Wanted = W32 + 1 /\ Available = h
      /\ arrived - used >= W32 + 1 /\ used' = used + (W32 + 1)
      /\ UNCHANGED <<peer, wire, closed, arrived, sent, got>>
  BY DEF ReadHeader, Wanted, Available
<1>2. \/ InRange(LengthOf(h)) /\ frame' = h /\ rx' = rx
      \/ ~InRange(LengthOf(h)) /\ rx' = "bad" /\ frame' = frame
  BY <1>1 DEF ReadHeader
<1>3. used = L /\ L \in Nat /\ used + (W32 + 1) <= Len(wire)
  <2>1. used = L + Len(<<>>) /\ L \in Nat
    BY <1>1, StateTypes DEF IInv, InStep
  <2> QED BY <1>0, <1>1, <2>1
<1>4. h \in Seq(Bytes) /\ Len(h) = W32 + 1 /\ At(wire, L, h)
  <2>1. W32 + 1 \in Nat
    BY <1>0
  <2> HIDE DEF L
  <2>2. h \in Seq(Bytes) /\ Len(h) = W32 + 1 /\ At(wire, used, h)
    BY <1>0, <1>3, <2>1, SliceAt
  <2> QED BY <1>3, <2>2
<1> HIDE DEF L, h
<1>5. h # <<>>
  BY <1>0, <1>4
<1>6. TypeOK' /\ Typed'
  <2>1. used' \in 0 .. arrived
    BY <1>0, <1>1
  <2> QED BY <1>1, <1>2, <1>4, <2>1 DEF IInv, TypeOK, Typed
<1>7. InStep'
  <2>1. At(wire', 0, Frames(got)') /\ Len(Frames(got)') = L
    BY <1>1 DEF IInv, InStep, L
  <2>2. CASE InRange(LengthOf(h)) /\ frame' = h /\ rx' = rx
    <3>1. used' = L + Len(frame')
      BY <1>1, <1>3, <1>4, <2>2
    <3>2. At(wire', L, frame') /\ Len(frame') = W32 + 1 /\ rx' = "open"
      BY <1>1, <1>4, <2>2
    <3>3. InRange(LengthOf(frame'))
      BY <2>2
    <3> QED BY <2>1, <3>1, <3>2, <3>3 DEF InStep, InRange, LengthOf
  <2>3. CASE ~InRange(LengthOf(h)) /\ rx' = "bad" /\ frame' = frame
    BY <1>1, <2>1, <2>3 DEF InStep
  <2> QED BY <1>2, <2>2, <2>3
<1>8. FromPeer'
  BY <1>1 DEF IInv, FromPeer
<1>9. OnlyOversizeRefused'
  <2> SUFFICES ASSUME rx' = "bad", peer' = "rdmalib"
               PROVE  /\ Len(got') < Len(sent')
                      /\ 1 + Len(Payload(sent'[Len(got') + 1])) > MaxFrame
    BY DEF OnlyOversizeRefused
  <2>1. peer = "rdmalib" /\ ~InRange(LengthOf(h))
    BY <1>1, <1>2
  <2>2. L + W32 + 1 <= Len(wire)
    BY <1>0, <1>3
  <2>3. /\ Len(got) + 1 \in 1 .. Len(sent)
        /\ At(Frames(sent), L, Header(sent[Len(got) + 1]))
    BY <2>1, <2>2, NextFrame DEF L
  <2>4. PICK x \in Messages : x = sent[Len(got) + 1]
    BY <2>3, StateTypes
  <2>5. x.ty \in Bytes /\ Payload(x) \in Seq(Bytes) /\ LengthOf(Header(x)) = 1 + Len(Payload(x))
    BY HeaderThere
  <2>6. Header(x) \in Seq(Bytes) /\ Len(Header(x)) = W32 + 1
    BY <2>5, HeaderType
  <2>7. Header(x) = h
    <3>1. PICK hx \in Seq(Bytes), full \in Seq(Bytes) : hx = Header(x) /\ full = Frames(sent)
      BY <2>6, StateTypes
    <3>2. At(full, 0, wire) /\ At(full, L, hx) /\ L + Len(hx) <= Len(wire)
      BY <1>3, <2>1, <2>3, <2>4, <2>6, <3>1 DEF IInv, FromPeer
    <3>3. At(wire, L, hx)
      BY <1>0, <1>3, <3>2, AtThrough
    <3>4. Slice(wire, L, Len(hx)) = hx
      BY <1>0, <1>3, <3>3, AtSlice
    <3> QED BY <1>3, <2>6, <3>1, <3>4 DEF h
  <2>8. Len(Payload(x)) \in Nat /\ MaxFrame \in Nat
    BY <2>5, WidthAssumption DEF WidthAssumption
  <2>9. 1 + Len(Payload(x)) > MaxFrame
    BY <2>1, <2>5, <2>7, <2>8 DEF InRange
  <2>10. Len(got) < Len(sent)
    <3>1. Len(got) \in Nat /\ Len(sent) \in Nat
      BY StateTypes
    <3> QED BY <2>3, <3>1
  <2> QED BY <1>1, <2>4, <2>9, <2>10
<1> QED BY <1>6, <1>7, <1>8, <1>9 DEF IInv

(* What ReadPayload does: refuse, or take the next whole frame.            *)
LEMMA PayloadRead ==
    ASSUME IInv, ReadPayload
    PROVE  /\ peer = "rdmalib" => /\ Len(got) < Len(sent)
                                  /\ got' = Append(got, sent[Len(got) + 1]) /\ rx' = rx
           /\ \/ rx' = "bad" /\ got' = got
              \/ \E x \in Decoded :
                    /\ got' = Append(got, x) /\ rx' = rx
                    /\ At(wire, Len(Frames(got)), Encode(x))
                    /\ used' = Len(Frames(got)) + Len(Encode(x))
           /\ used' \in 0 .. arrived
<1> DEFINE L == Len(Frames(got))
           l == LengthOf(frame) - 1
           b == Slice(wire, used, l)
<1>0. /\ wire \in Seq(Bytes) /\ Len(wire) \in Nat /\ arrived \in Nat /\ used \in Nat
      /\ arrived <= Len(wire) /\ W32 \in Nat /\ Frames(got) \in Seq(Bytes) /\ L \in Nat
      /\ frame \in Seq(Bytes)
  BY StateTypes
<1>1. /\ rx = "open" /\ frame # <<>> /\ Wanted = l /\ Available = b
      /\ arrived - used >= l /\ used' = used + l /\ frame' = <<>>
      /\ UNCHANGED <<peer, wire, closed, arrived, sent>>
  BY DEF ReadPayload, Wanted, Available
<1>2. \/ Decode(Last(frame), b) = {} /\ rx' = "bad" /\ got' = got
      \/ \E x \in Decode(Last(frame), b) : got' = Append(got, x) /\ rx' = rx
  BY <1>1 DEF ReadPayload
<1>r. rx' = rx \/ Decode(Last(frame), b) = {}
  BY <1>1 DEF ReadPayload
<1>3. /\ used = L + (W32 + 1) /\ Len(frame) = W32 + 1 /\ At(wire, L, frame)
      /\ InRange(LengthOf(frame))
  BY <1>1 DEF IInv, InStep
<1>4. l \in Nat /\ LengthOf(frame) = 1 + l
  <2>1. LengthOf(frame) \in Nat
    <3>1. 0 + W32 <= Len(frame) /\ 0 \in Nat
      BY <1>0, <1>3
    <3>2. Slice(frame, 0, W32) \in Seq(Bytes)
      BY <1>0, <3>1, SliceAt
    <3> QED BY <3>2, IntOfType DEF LengthOf
  <2> QED BY <1>3, <2>1 DEF InRange
<1> HIDE DEF l
<1>5. used + l <= Len(wire) /\ used' \in 0 .. arrived
  BY <1>0, <1>1, <1>4
<1>6. b \in Seq(Bytes) /\ Len(b) = l /\ At(wire, used, b)
  BY <1>0, <1>4, <1>5, SliceAt
<1> HIDE DEF L, b
<1>7. ASSUME NEW x \in Decode(Last(frame), b)
      PROVE  /\ x \in Decoded /\ At(wire, L, Encode(x)) /\ used' = L + Len(Encode(x))
  <2>1. x \in Decoded /\ Encode(x) = frame \o b
    BY <1>0, <1>3, <1>4, <1>6, FrameBack
  <2>2. At(wire, L, frame \o b)
    BY <1>0, <1>3, <1>6, AtConcat
  <2>3. Len(frame \o b) = Len(frame) + Len(b)
    BY <1>0, <1>6, ConcatProperties
  <2>4. used' = L + Len(frame \o b)
    BY <1>0, <1>1, <1>3, <1>4, <1>6, <2>3
  <2> QED BY <2>1, <2>2, <2>4
<1>8. ASSUME peer = "rdmalib"
      PROVE  Len(got) < Len(sent) /\ Decode(Last(frame), b) = {sent[Len(got) + 1]}
  <2>2. L + W32 + 1 <= Len(wire)
    BY <1>0, <1>3, <1>4, <1>5
  <2>3. /\ Len(got) + 1 \in 1 .. Len(sent)
        /\ At(Frames(sent), L, Header(sent[Len(got) + 1]))
        /\ At(Frames(sent), L + W32 + 1, Payload(sent[Len(got) + 1]))
    BY <1>8, <2>2, NextFrame DEF L
  <2>4. PICK x \in Messages : x = sent[Len(got) + 1]
    BY <2>3, StateTypes
  <2>5. x.ty \in Bytes /\ Payload(x) \in Seq(Bytes) /\ LengthOf(Header(x)) = 1 + Len(Payload(x))
    BY HeaderThere
  <2>6. Header(x) \in Seq(Bytes) /\ Len(Header(x)) = W32 + 1 /\ Last(Header(x)) = x.ty
    BY <2>5, HeaderType
  <2>7. PICK hx \in Seq(Bytes), px \in Seq(Bytes), full \in Seq(Bytes) :
            hx = Header(x) /\ px = Payload(x) /\ full = Frames(sent)
    BY <2>5, <2>6, StateTypes
  <2>8. At(full, 0, wire)
    BY <1>8, <2>7 DEF IInv, FromPeer
  <2>9. hx = frame
    <3>1. At(full, L, hx) /\ L + Len(hx) <= Len(wire)
      BY <1>0, <2>2, <2>3, <2>4, <2>6, <2>7
    <3>2. At(wire, L, hx) /\ At(wire, L, frame)
      BY <1>0, <1>3, <2>8, <3>1, AtThrough
    <3>3. Slice(wire, L, Len(hx)) = hx /\ Slice(wire, L, Len(frame)) = frame
      BY <1>0, <3>2, AtSlice
    <3> QED BY <1>3, <2>6, <2>7, <3>3
  <2>10. Len(px) = l
    <3>1. 1 + Len(px) = 1 + l /\ Len(px) \in Nat
      BY <1>4, <2>5, <2>7, <2>9
    <3> QED BY <1>4, <3>1
  <2>11. px = b
    <3>1. L + W32 + 1 = used
      BY <1>0, <1>3
    <3>2. At(full, used, px) /\ used + Len(px) <= Len(wire)
      BY <1>5, <2>3, <2>4, <2>7, <2>10, <3>1
    <3>3. At(wire, used, px)
      BY <1>0, <2>8, <3>2, AtThrough
    <3>4. Slice(wire, used, Len(px)) = px
      BY <1>0, <3>3, AtSlice
    <3> QED BY <2>10, <3>4 DEF b
  <2>12. Decode(Last(frame), b) = {x}
    <3>1. MessageOK(x)
      BY MessagesAssumption DEF MessagesAssumption
    <3>2. Decode(x.ty, Payload(x)) = {x}
      BY <3>1, DecodeInvertsEncode
    <3> QED BY <2>6, <2>7, <2>9, <2>11, <3>2
  <2>13. Len(got) < Len(sent)
    <3>1. Len(got) \in Nat /\ Len(sent) \in Nat
      BY StateTypes
    <3> QED BY <2>3, <3>1
  <2> QED BY <2>4, <2>12, <2>13
<1>9. peer = "rdmalib" => /\ Len(got) < Len(sent)
                          /\ got' = Append(got, sent[Len(got) + 1]) /\ rx' = rx
  BY <1>2, <1>8
<1> QED BY <1>2, <1>5, <1>7, <1>9 DEF L

LEMMA ReadPayloadKeeps == ASSUME IInv, ReadPayload PROVE IInv'
<1>0. /\ wire \in Seq(Bytes) /\ got \in Seq(Msgs) /\ Len(got) \in Nat /\ Len(sent) \in Nat
      /\ Frames(got) \in Seq(Bytes) /\ sent \in Seq(Messages) /\ Len(Frames(got)) \in Nat
  BY StateTypes
<1>1. /\ rx = "open" /\ frame' = <<>> /\ UNCHANGED <<peer, wire, closed, arrived, sent>>
  BY DEF ReadPayload
<1>2. /\ peer = "rdmalib" => /\ Len(got) < Len(sent)
                             /\ got' = Append(got, sent[Len(got) + 1]) /\ rx' = rx
      /\ \/ rx' = "bad" /\ got' = got
         \/ \E x \in Decoded :
               /\ got' = Append(got, x) /\ rx' = rx
               /\ At(wire, Len(Frames(got)), Encode(x))
               /\ used' = Len(Frames(got)) + Len(Encode(x))
      /\ used' \in 0 .. arrived
  BY PayloadRead
<1>3. got' \in Seq(Msgs) /\ rx' \in {"open", "bad"}
  <2>1. CASE rx' = "bad" /\ got' = got
    BY <1>0, <2>1
  <2>2. CASE \E x \in Decoded : got' = Append(got, x) /\ rx' = rx
    BY <1>0, <1>1, <2>2 DEF Msgs
  <2> QED BY <1>2, <2>1, <2>2
<1>4. TypeOK' /\ Typed'
  <2>1. <<>> \in Seq(Bytes)
    OBVIOUS
  <2> QED BY <1>1, <1>2, <1>3, <2>1 DEF IInv, TypeOK, Typed
<1>5. InStep'
  <2>1. CASE rx' = "bad" /\ got' = got
    BY <1>1, <2>1 DEF IInv, InStep
  <2>2. CASE \E x \in Decoded :
               /\ got' = Append(got, x) /\ rx' = rx
               /\ At(wire, Len(Frames(got)), Encode(x))
               /\ used' = Len(Frames(got)) + Len(Encode(x))
    <3>1. PICK x \in Msgs : /\ got' = Append(got, x) /\ rx' = rx
                            /\ At(wire, Len(Frames(got)), Encode(x))
                            /\ used' = Len(Frames(got)) + Len(Encode(x))
      BY <2>2 DEF Msgs
    <3>2. PICK e \in Seq(Bytes), f \in Seq(Bytes) : e = Encode(x) /\ f = Frames(got)
      BY <1>0, EncodeType
    <3>3. Frames(got') = f \o e
      BY <1>0, <3>1, <3>2, FramesAppend
    <3>4. At(wire, 0, f) /\ At(wire, 0 + Len(f), e)
      <4>1. 0 + Len(f) = Len(f)
        BY <1>0, <3>2
      <4> QED BY <3>1, <3>2, <4>1 DEF IInv, InStep
    <3>5. At(wire, 0, f \o e)
      BY <1>0, <3>4, AtConcat
    <3>6. Len(f \o e) = Len(f) + Len(e) /\ Len(f) + Len(e) + 0 = Len(f) + Len(e)
      BY ConcatProperties
    <3>7. used' = Len(Frames(got')) + Len(frame')
      BY <1>1, <3>1, <3>2, <3>3, <3>6
    <3> QED BY <1>1, <3>3, <3>5, <3>7 DEF InStep
  <2> QED BY <1>2, <2>1, <2>2
<1>6. FromPeer'
  <2> SUFFICES ASSUME peer = "rdmalib" PROVE FromPeer'
    BY <1>1 DEF FromPeer
  <2>1. /\ Len(got) < Len(sent) /\ got' = Append(got, sent[Len(got) + 1])
        /\ \A i \in 1 .. Len(got) : got[i] = sent[i]
    BY <1>2 DEF IInv, FromPeer
  <2>2. Len(got') = Len(got) + 1 /\ got'[Len(got) + 1] = sent[Len(got) + 1]
        /\ \A i \in 1 .. Len(got) : got'[i] = got[i]
    BY <1>0, <2>1
  <2>3. Len(got') <= Len(sent)
    BY <1>0, <2>1, <2>2
  <2>4. ASSUME NEW i \in 1 .. Len(got') PROVE got'[i] = sent[i]
    <3>1. i = Len(got) + 1 \/ i \in 1 .. Len(got)
      BY <1>0, <2>2, SMTT(40)
    <3> QED BY <2>1, <2>2, <3>1
  <2> QED BY <1>1, <2>3, <2>4 DEF IInv, FromPeer
<1>7. OnlyOversizeRefused'
  <2>1. CASE peer = "rdmalib"
    <3>1. rx' = "open"
      BY <1>1, <1>2, <2>1
    <3> QED BY <3>1 DEF OnlyOversizeRefused
  <2>2. CASE peer # "rdmalib"
    BY <1>1, <2>2 DEF OnlyOversizeRefused
  <2> QED BY <2>1, <2>2
<1> QED BY <1>4, <1>5, <1>6, <1>7 DEF IInv

-----------------------------------------------------------------------------
(* The theorems.                                                           *)

LEMMA Starts == Init => IInv
<1> SUFFICES ASSUME Init PROVE IInv
  OBVIOUS
<1>1. /\ peer \in {"rdmalib", "stray"} /\ wire = <<>> /\ closed = FALSE /\ arrived = 0 /\ used = 0
      /\ frame = <<>> /\ rx = "open" /\ sent = <<>> /\ got = <<>>
  BY DEF Init
<1>2. \A S : <<>> \in Seq(S)
  OBVIOUS
<1>3. Frames(<<>>) = <<>>
  <2>1. [i \in 1 .. Len(<<>>) |-> Encode((<<>>)[i])] = <<>>
    OBVIOUS
  <2> QED BY <2>1, JoinEmpty DEF Frames
<1>4. TypeOK
  <2>1. arrived \in 0 .. Len(wire) /\ used \in 0 .. arrived
    BY <1>1
  <2>2. \A i \in DOMAIN sent : sent[i] \in Messages
    <3>1. DOMAIN sent = 1 .. 0
      BY <1>1
    <3> QED BY <3>1
  <2>3. wire \in Seq(0 .. ByteBase - 1) /\ closed \in BOOLEAN
    BY <1>1, <1>2
  <2> QED BY <1>1, <2>1, <2>2, <2>3 DEF TypeOK
<1>5. Typed
  BY <1>1, <1>2 DEF Typed
<1>6. At(<<>>, 0, <<>>)
  BY DEF At
<1>7. InStep /\ FromPeer
  BY <1>1, <1>3, <1>6 DEF InStep, FromPeer
<1> QED BY <1>1, <1>4, <1>5, <1>7 DEF IInv, OnlyOversizeRefused

LEMMA StutterKeeps == ASSUME IInv, UNCHANGED vars PROVE IInv'
<1>1. UNCHANGED <<peer, wire, closed, arrived, used, frame, rx, sent, got>>
  BY DEF vars
<1>2. TypeOK' /\ Typed'
  BY <1>1 DEF IInv, TypeOK, Typed
<1>3. InStep' /\ FromPeer'
  BY <1>1 DEF IInv, InStep, FromPeer
<1>4. OnlyOversizeRefused'
  BY <1>1 DEF IInv, OnlyOversizeRefused
<1> QED BY <1>2, <1>3, <1>4 DEF IInv

LEMMA Inductive == Spec => []IInv
<1>1. Init => IInv
  BY Starts
<1>2. IInv /\ [Next]_vars => IInv'
  <2> SUFFICES ASSUME IInv, [Next]_vars PROVE IInv'
    OBVIOUS
  <2>1. ASSUME NEW m \in Messages, Send(m) PROVE IInv'
    BY <2>1, SendKeeps
  <2>2. ASSUME NEW m \in Messages, SendFails(m) PROVE IInv'
    BY <2>2, SendFailsKeeps
  <2>3. ASSUME NEW b \in StrayBytes, Stray(b) PROVE IInv'
    BY <2>3, StrayKeeps
  <2>4. CASE Close \/ Deliver
    BY <2>4, CloseKeeps, DeliverKeeps
  <2>5. CASE ReadHeader \/ ReadPayload \/ ReadFails
    BY <2>5, ReadHeaderKeeps, ReadPayloadKeeps, ReadFailsKeeps
  <2>6. CASE UNCHANGED vars
    BY <2>6, StutterKeeps
  <2> QED BY <2>1, <2>2, <2>3, <2>4, <2>5, <2>6 DEF Next
<1> QED BY <1>1, <1>2, PTL DEF Spec

(* The stream holds bytes, a reader never takes more of it than arrived,   *)
(* and a header is held whole or not at all: Channel::receive.             *)
THEOREM TypesCorrect == Spec => []TypeOK
<1>1. IInv => TypeOK
  BY DEF IInv
<1> QED BY <1>1, Inductive, PTL

(* Whatever bytes reach read_frame, from this library or not, the messages *)
(* it returns are frame for frame the bytes it consumed: decode accepts    *)
(* nothing that encode would have written otherwise.                       *)
THEOREM ConsumesExactly == Spec => []Canonical
<1>1. IInv => Canonical
  <2> SUFFICES ASSUME IInv PROVE Canonical
    OBVIOUS
  <2>1. wire \in Seq(Bytes) /\ Frames(got) \in Seq(Bytes) /\ Len(Frames(got)) \in Nat
    BY StateTypes
  <2>2. At(wire, 0, Frames(got)) /\ (rx = "open" => used = Len(Frames(got)) + Len(frame))
    BY DEF IInv, InStep
  <2>3. ASSUME NEW s \in Seq(Bytes), At(wire, 0, s) PROVE IsPrefix(s, wire)
    <3>1. Len(s) <= Len(wire) /\ \A i \in 1 .. Len(s) : wire[i] = s[i]
      BY <2>1, <2>3 DEF At
    <3>2. SubSeq(s, 1, Len(s)) = SubSeq(wire, 1, Len(s))
      BY <2>1, <3>1
    <3> QED BY <3>1, <3>2 DEF IsPrefix
  <2> QED BY <2>1, <2>2, <2>3 DEF Canonical
<1> QED BY <1>1, Inductive, PTL

(* Between two ends of the library read_frame and decode report a protocol *)
(* violation only for a frame whose length field is beyond MAX_FRAME.      *)
THEOREM RefusesOnlyOversize == Spec => []OnlyOversizeRefused
<1>1. IInv => OnlyOversizeRefused
  BY DEF IInv
<1> QED BY <1>1, Inductive, PTL

(* Channel::send and Channel::receive over a byte stream implement a       *)
(* channel of messages, whatever is cut, delayed or timed out.             *)
THEOREM ImplementsChannel == Spec => WholeMessages
<1>1. Init => Channel!Init
  BY DEF Init, Channel!Init, Genuine
<1>2. IInv /\ [Next]_vars => [Channel!Next]_(Channel!vars)
  <2> SUFFICES ASSUME IInv, [Next]_vars PROVE [Channel!Next]_(Channel!vars)
    OBVIOUS
  <2>1. ASSUME NEW m \in Messages, Send(m) \/ SendFails(m) PROVE Channel!Next
    <3>1. peer = "rdmalib" /\ sent' = Append(sent, m) /\ UNCHANGED <<peer, got, rx>>
      BY <2>1 DEF Send, SendFails
    <3>2. Channel!Send(m)
      BY <3>1 DEF Channel!Send, Genuine
    <3> QED BY <3>2 DEF Channel!Next
  <2>2. CASE UNCHANGED <<peer, sent, got, rx>>
    BY <2>2 DEF Channel!vars, Genuine
  <2>3. CASE rx = "open" /\ rx' \in {"io", "bad"} /\ UNCHANGED <<peer, sent, got>>
    <3>1. Channel!GiveUp
      BY <2>3 DEF Channel!GiveUp, Genuine
    <3> QED BY <3>1 DEF Channel!Next
  <2>4. CASE ReadHeader
    BY <2>2, <2>3, <2>4 DEF ReadHeader
  <2>5. CASE ReadFails
    BY <2>3, <2>5 DEF ReadFails, DropChannel
  <2>6. CASE ReadPayload
    <3>1. rx = "open" /\ UNCHANGED <<peer, sent>>
      BY <2>6 DEF ReadPayload
    <3>2. CASE peer = "rdmalib"
      <4>1. Len(got) < Len(sent) /\ got' = Append(got, sent[Len(got) + 1]) /\ rx' = rx
        BY <2>6, <3>2, PayloadRead
      <4>2. Channel!Receive
        BY <3>1, <3>2, <4>1 DEF Channel!Receive, Genuine
      <4> QED BY <4>2 DEF Channel!Next
    <3>3. CASE peer # "rdmalib"
      <4>1. rx' = rx \/ (rx' = "bad" /\ got' = got)
        BY <2>6, PayloadRead
      <4>2. CASE rx' = rx
        BY <3>1, <3>3, <4>2 DEF Channel!vars, Genuine
      <4> QED BY <2>3, <3>1, <4>1, <4>2
    <3> QED BY <3>2, <3>3
  <2>7. CASE UNCHANGED vars
    BY <2>2, <2>7 DEF vars
  <2>8. CASE (\E b \in StrayBytes : Stray(b)) \/ Close \/ Deliver
    BY <2>2, <2>8 DEF Stray, Close, Deliver
  <2> QED BY <2>1, <2>4, <2>5, <2>6, <2>7, <2>8 DEF Next
<1> QED BY <1>1, <1>2, Inductive, PTL DEF Spec, WholeMessages, Channel!Spec

=============================================================================
