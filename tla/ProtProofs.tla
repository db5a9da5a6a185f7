----------------------------- MODULE ProtProofs ------------------------------
(***************************************************************************)
(* What the codec guarantees for any size of its buffers and of the        *)
(* socket, any characters and any records.  The inductions over strings    *)
(* and records are done on their least counterexample.                     *)
(***************************************************************************)
EXTENDS Prot, TLAPS, WellFoundedInduction, FiniteSetTheorems

-----------------------------------------------------------------------------
(* Naturals. *)

LEMMA LeastNat ==
    ASSUME NEW T \in SUBSET Nat, T # {}
    PROVE  \E m \in T : \A k \in T : m <= k
  <1> DEFINE R == {ss \in Nat \X Nat : ss[1] < ss[2]}
  <1>1. IsWellFoundedOn(R, Nat)
    BY NatLessThanWellFounded DEF OpToRel
  <1> HIDE DEF R
  <1>2. PICK m \in T : \A k \in T : ~(<<k, m>> \in R)
    BY <1>1, WFMin
  <1>3. \A k \in T : ~(k < m)
    BY <1>2 DEF R
  <1> QED
    BY <1>3

(* Induction over naturals, for a set of them: the good ones. *)
LEMMA NatSet ==
    ASSUME NEW G, 0 \in G, \A n \in Nat : n \in G => n + 1 \in G
    PROVE  Nat \subseteq G
  <1> DEFINE T == Nat \ G
  <1> SUFFICES ASSUME T # {} PROVE FALSE
    OBVIOUS
  <1>1. PICK m \in T : \A k \in T : m <= k
    BY LeastNat
  <1>2. m # 0 /\ m - 1 \in Nat
    BY <1>1
  <1>3. m - 1 \in G
    BY <1>1, <1>2
  <1>4. (m - 1) + 1 \in G /\ (m - 1) + 1 = m
    BY <1>2, <1>3
  <1> QED
    BY <1>1, <1>4

LEMMA MaxInterval ==
    ASSUME NEW k \in Nat
    PROVE  Max(1..k + 1) = k + 1 /\ (1..k + 1) \ {k + 1} = 1..k
  BY DEF Max

-----------------------------------------------------------------------------
(* Concatenation of the sequences of a sequence. *)

(* Concatenation, hidden from the provers where its content does not matter. *)
Cat(a, b) == a \o b

Flat(s, n, g) == g = [i \in 1..n |-> IF i = 1 THEN s[i] ELSE Cat(g[i - 1], s[i])]

LEMMA FlatAt ==
    ASSUME NEW s, NEW n \in Nat, NEW g, Flat(s, n, g)
    PROVE  /\ 1 <= n => g[1] = s[1]
           /\ \A i \in 1..n - 1 : g[i + 1] = Cat(g[i], s[i + 1])
  <1>1. ASSUME NEW i \in 1..n PROVE g[i] = IF i = 1 THEN s[i] ELSE Cat(g[i - 1], s[i])
    BY DEF Flat
  <1>2. ASSUME NEW i \in 1..n - 1 PROVE g[i + 1] = Cat(g[i], s[i + 1])
    <2>1. i + 1 \in 1..n /\ i + 1 # 1 /\ i + 1 - 1 = i
      OBVIOUS
    <2> QED
      BY <1>1, <2>1
  <1> QED
    BY <1>1, <1>2

LEMMA FlatExists ==
    ASSUME NEW s, NEW n \in Nat
    PROVE  \E g : Flat(s, n, g)
  <1> DEFINE G == {k \in Nat : \E g : Flat(s, k, g)}
  <1>1. 0 \in G
    <2> DEFINE g == [i \in 1..0 |-> s[i]]
    <2>1. Flat(s, 0, g)
      BY DEF Flat
    <2> QED
      BY <2>1
  <1>2. ASSUME NEW k \in Nat, k \in G PROVE k + 1 \in G
    <2>1. PICK g : Flat(s, k, g)
      BY <1>2
    <2> DEFINE last == IF k = 0 THEN s[k + 1] ELSE Cat(g[k], s[k + 1])
               h == [i \in 1..k + 1 |-> IF i = k + 1 THEN last ELSE g[i]]
    <2>2. ASSUME NEW i \in 1..k + 1
          PROVE  h[i] = IF i = 1 THEN s[i] ELSE Cat(h[i - 1], s[i])
      <3>1. CASE i = k + 1
        BY <3>1
      <3>2. CASE i # k + 1
        <4>1. i \in 1..k /\ h[i] = g[i] /\ (i # 1 => h[i - 1] = g[i - 1])
          BY <3>2
        <4>2. g[i] = IF i = 1 THEN s[i] ELSE Cat(g[i - 1], s[i])
          <5>1. i # 1 => i - 1 \in 1..k - 1 /\ (i - 1) + 1 = i
            BY <4>1
          <5>2. i = 1 => 1 <= k
            BY <4>1
          <5> QED
            BY <2>1, <5>1, <5>2, FlatAt
        <4> HIDE DEF h
        <4> QED
          BY <4>1, <4>2
      <3> QED
        BY <3>1, <3>2
    <2>3. h = [i \in 1..k + 1 |-> h[i]]
      OBVIOUS
    <2> HIDE DEF h
    <2>4. Flat(s, k + 1, h)
      BY <2>2, <2>3 DEF Flat
    <2> QED
      BY <2>4
  <1> HIDE DEF G
  <1>3. n \in G
    BY <1>1, <1>2, NatSet
  <1> QED
    BY <1>3 DEF G

(* Two that agree on a prefix. *)
Agree(s, t, n) == \A i \in 1..n : s[i] = t[i]

LEMMA FlatUnique ==
    ASSUME NEW s, NEW t, NEW n \in Nat, NEW g, NEW h,
           Flat(s, n, g), Flat(t, n + 1, h), Agree(s, t, n)
    PROVE  Agree(g, h, n)
  <1> DEFINE G == {j \in Nat : j \in 1..n => g[j] = h[j]}
  <1>1. 0 \in G
    OBVIOUS
  <1>2. ASSUME NEW j \in Nat, j \in G PROVE j + 1 \in G
    <2> SUFFICES ASSUME j + 1 \in 1..n PROVE g[j + 1] = h[j + 1]
      OBVIOUS
    <2>1. CASE j = 0
      <3>1. g[1] = s[1] /\ h[1] = t[1] /\ s[1] = t[1]
        BY <2>1, FlatAt DEF Agree
      <3> QED
        BY <2>1, <3>1
    <2>2. CASE j # 0
      <3>1. j \in 1..n - 1 /\ j \in 1..(n + 1) - 1 /\ j \in 1..n
        BY <2>2
      <3>2. g[j + 1] = Cat(g[j], s[j + 1]) /\ h[j + 1] = Cat(h[j], t[j + 1])
        BY <3>1, FlatAt
      <3> QED
        BY <1>2, <3>1, <3>2 DEF Agree
    <2> QED
      BY <2>1, <2>2
  <1> HIDE DEF G
  <1>3. Nat \subseteq G
    BY <1>1, <1>2, NatSet
  <1> QED
    BY <1>3 DEF G, Agree

LEMMA FlattenIs ==
    ASSUME NEW s, Len(s) \in Nat \ {0}
    PROVE  \E g : Flat(s, Len(s), g) /\ FlattenSeq(s) = g[Len(s)]
  <1> DEFINE g == CHOOSE f : Flat(s, Len(s), f)
  <1>1. Flat(s, Len(s), g)
    BY FlatExists
  <1>2. FlattenSeq(s) = g[Len(s)]
    BY DEF FlattenSeq, Flat, Cat
  <1> QED
    BY <1>1, <1>2

LEMMA FlattenEmpty == FlattenSeq(<<>>) = <<>>
  BY DEF FlattenSeq

LEMMA FlattenAppend ==
    ASSUME NEW T, NEW s \in Seq(Seq(T)), NEW x \in Seq(T)
    PROVE  FlattenSeq(Append(s, x)) = FlattenSeq(s) \o x
  <1> DEFINE t == Append(s, x)
             n == Len(s)
  <1>1. n \in Nat /\ Len(t) = n + 1 /\ t[n + 1] = x /\ \A i \in 1..n : t[i] = s[i]
    OBVIOUS
  <1> HIDE DEF t
  <1>2. PICK h : Flat(t, n + 1, h) /\ FlattenSeq(t) = h[n + 1]
    BY <1>1, FlattenIs
  <1>3. /\ n = 0 => h[n + 1] = x
        /\ n # 0 => h[n + 1] = Cat(h[n], x)
    <2> HIDE DEF n
    <2>1. n + 1 \in Nat /\ 1 <= n + 1 /\ n + 1 - 1 = n /\ (n # 0 => n \in 1..n)
      BY <1>1
    <2>2. h[1] = t[1] /\ \A i \in 1..n : h[i + 1] = Cat(h[i], t[i + 1])
      BY <1>2, <2>1, FlatAt
    <2> QED
      BY <1>1, <2>1, <2>2
  <1>4. CASE n = 0
    <2>1. s = <<>> /\ <<>> \o x = x
      BY <1>4
    <2> QED
      BY <1>2, <1>3, <1>4, <2>1, FlattenEmpty DEF t
  <1>5. CASE n # 0
    <2>1. PICK g : Flat(s, n, g) /\ FlattenSeq(s) = g[n]
      BY <1>1, <1>5, FlattenIs
    <2>2. g[n] = h[n]
      <3> HIDE DEF n
      <3>1. n \in Nat /\ Flat(t, n + 1, h) /\ Flat(s, n, g) /\ Agree(s, t, n)
        BY <1>1, <1>2, <2>1 DEF Agree
      <3>2. Agree(g, h, n)
        BY <3>1, FlatUnique
      <3> QED
        BY <1>1, <1>5, <3>2 DEF Agree
    <2>3. h[n + 1] = Cat(h[n], x)
      BY <1>1, <1>3, <1>5
    <2> QED
      BY <1>2, <2>1, <2>2, <2>3 DEF t, Cat
  <1> QED
    BY <1>4, <1>5

LEMMA SameSeq ==
    ASSUME NEW T, NEW a \in Seq(T), NEW b \in Seq(T), Len(a) = Len(b),
           \A i \in 1..Len(a) : a[i] = b[i]
    PROVE  a = b
  OBVIOUS

LEMMA Prefix ==
    ASSUME NEW T, NEW s \in Seq(T), NEW n \in 0..Len(s)
    PROVE  /\ SubSeq(s, 1, n) \in Seq(T) /\ Len(SubSeq(s, 1, n)) = n
           /\ \A i \in 1..n : SubSeq(s, 1, n)[i] = s[i]
  <1>1. CASE n = 0
    BY <1>1
  <1>2. CASE n # 0
    BY <1>2
  <1> QED
    BY <1>1, <1>2

LEMMA Suffix ==
    ASSUME NEW T, NEW s \in Seq(T), NEW k \in 0..Len(s)
    PROVE  LET t == SubSeq(s, k + 1, Len(s))
           IN  /\ t \in Seq(T) /\ Len(t) = Len(s) - k
               /\ \A i \in 1..Len(s) - k : t[i] = s[k + i]
  <1>1. CASE k = Len(s)
    BY <1>1
  <1>2. CASE k # Len(s)
    BY <1>2
  <1> QED
    BY <1>1, <1>2

LEMMA SeqFront ==
    ASSUME NEW T, NEW s \in Seq(T), s # <<>>
    PROVE  \E f \in Seq(T), x \in T :
              /\ Len(f) = Len(s) - 1 /\ s = Append(f, x)
              /\ x = s[Len(s)] /\ f = SubSeq(s, 1, Len(s) - 1)
  <1> DEFINE n == Len(s)
             f == SubSeq(s, 1, n - 1)
             t == Append(f, s[n])
  <1>1. n \in Nat \ {0}
    OBVIOUS
  <1>2. f \in Seq(T) /\ Len(f) = n - 1 /\ \A i \in 1..n - 1 : f[i] = s[i]
    <2>1. n - 1 \in 0..Len(s)
      BY <1>1
    <2> QED
      BY <2>1, Prefix
  <1>3. s[n] \in T
    BY <1>1
  <1>4. s = t
    <2> HIDE DEF f
    <2>1. t \in Seq(T) /\ Len(t) = n /\ t[n] = s[n] /\ \A i \in 1..n - 1 : t[i] = f[i]
      BY <1>1, <1>2, <1>3
    <2> HIDE DEF t
    <2>2. \A i \in 1..n : i \in 1..n - 1 \/ i = n
      BY <1>1
    <2>3. \A i \in 1..n : s[i] = t[i]
      BY <1>2, <2>1, <2>2
    <2> QED
      BY <2>1, <2>3, SameSeq
  <1> QED
    BY <1>2, <1>3, <1>4

LEMMA FlattenType ==
    ASSUME NEW T, NEW s \in Seq(Seq(T))
    PROVE  FlattenSeq(s) \in Seq(T)
  <1> DEFINE G == {n \in Nat : \A t \in Seq(Seq(T)) : Len(t) = n => FlattenSeq(t) \in Seq(T)}
  <1>1. 0 \in G
    <2>1. ASSUME NEW t \in Seq(Seq(T)), Len(t) = 0 PROVE FlattenSeq(t) \in Seq(T)
      <3>1. t = <<>> /\ <<>> \in Seq(T)
        BY <2>1
      <3> QED
        BY <3>1, FlattenEmpty
    <2> QED
      BY <2>1
  <1>2. ASSUME NEW n \in Nat, n \in G PROVE n + 1 \in G
    <2>1. ASSUME NEW t \in Seq(Seq(T)), Len(t) = n + 1 PROVE FlattenSeq(t) \in Seq(T)
      <3>1. t # <<>>
        BY <2>1
      <3>2. PICK f \in Seq(Seq(T)), x \in Seq(T) : Len(f) = n /\ t = Append(f, x)
        <4>1. Len(t) - 1 = n
          BY <2>1
        <4> QED
          BY <3>1, <4>1, SeqFront
      <3>3. FlattenSeq(f) \in Seq(T)
        BY <1>2, <3>2
      <3>4. FlattenSeq(t) = FlattenSeq(f) \o x
        BY <3>2, FlattenAppend
      <3> QED
        BY <3>2, <3>3, <3>4
    <2> QED
      BY <2>1
  <1> HIDE DEF G
  <1>3. Nat \subseteq G
    BY <1>1, <1>2, NatSet
  <1> QED
    BY <1>3 DEF G

LEMMA Concat ==
    ASSUME NEW T, NEW a \in Seq(T), NEW b \in Seq(T)
    PROVE  /\ a \o b \in Seq(T) /\ Len(a \o b) = Len(a) + Len(b)
           /\ \A i \in 1..Len(a) : (a \o b)[i] = a[i]
           /\ \A i \in 1..Len(b) : (a \o b)[Len(a) + i] = b[i]
  OBVIOUS

IsCat(s, a, b) == s = a \o b

LEMMA Joined ==
    ASSUME NEW T, NEW left \in Seq(T), NEW right \in Seq(T), NEW whole, IsCat(whole, left, right)
    PROVE  /\ whole \in Seq(T) /\ Len(whole) = Len(left) + Len(right)
           /\ Len(left) \in Nat /\ Len(right) \in Nat
           /\ \A i \in 1..Len(left) : whole[i] = left[i]
           /\ \A i \in 1..Len(right) : whole[Len(left) + i] = right[i]
  BY Concat DEF IsCat

LEMMA Split ==
    ASSUME NEW T, NEW s \in Seq(T), NEW k \in 0..Len(s)
    PROVE  LET a == SubSeq(s, 1, k)
               b == SubSeq(s, k + 1, Len(s))
           IN  /\ a \in Seq(T) /\ Len(a) = k /\ b \in Seq(T) /\ Len(b) = Len(s) - k
               /\ s = a \o b
  <1> DEFINE a == SubSeq(s, 1, k)
             b == SubSeq(s, k + 1, Len(s))
             c == a \o b
  <1>1. a \in Seq(T) /\ Len(a) = k /\ \A i \in 1..k : a[i] = s[i]
    BY Prefix
  <1>2. b \in Seq(T) /\ Len(b) = Len(s) - k /\ \A i \in 1..Len(s) - k : b[i] = s[k + i]
    BY Suffix
  <1>3. a \in Seq(T) /\ b \in Seq(T) /\ IsCat(c, a, b)
    BY <1>1, <1>2 DEF IsCat
  <1>4. k \in Nat /\ Len(s) \in Nat
    OBVIOUS
  <1> HIDE DEF a, b, c
  <1>5. /\ c \in Seq(T) /\ Len(c) = Len(a) + Len(b)
        /\ \A i \in 1..Len(a) : c[i] = a[i]
        /\ \A i \in 1..Len(b) : c[Len(a) + i] = b[i]
    BY <1>3, Joined
  <1>6. Len(c) = Len(s)
    BY <1>1, <1>2, <1>4, <1>5
  <1>7. ASSUME NEW i \in 1..Len(s) PROVE s[i] = c[i]
    <2>1. CASE i <= k
      <3>1. i \in 1..k
        BY <2>1
      <3> QED
        BY <1>1, <1>5, <3>1
    <2>2. CASE ~(i <= k)
      <3> DEFINE j == i - k
      <3>1. j \in 1..Len(s) - k /\ k + j = i
        BY <1>4, <2>2
      <3> HIDE DEF j
      <3>2. b[j] = s[k + j] /\ c[k + j] = b[j]
        BY <1>1, <1>2, <1>5, <3>1
      <3> QED
        BY <3>1, <3>2
    <2> QED
      BY <2>1, <2>2
  <1>8. s = c
    BY <1>5, <1>6, <1>7, SameSeq
  <1> QED
    BY <1>1, <1>2, <1>8 DEF a, b, c

LEMMA Associative ==
    ASSUME NEW T, NEW a \in Seq(T), NEW b \in Seq(T), NEW c \in Seq(T)
    PROVE  (a \o b) \o c = a \o (b \o c)
  OBVIOUS

(* From the other end. *)
LEMMA FlattenCons ==
    ASSUME NEW T, NEW s \in Seq(Seq(T)), NEW x \in Seq(T)
    PROVE  FlattenSeq(<<x>> \o s) = x \o FlattenSeq(s)
  <1> DEFINE P(t) == FlattenSeq(<<x>> \o t) = x \o FlattenSeq(t)
             G == {n \in Nat : \A t \in Seq(Seq(T)) : Len(t) = n => P(t)}
  <1>1. 0 \in G
    <2>1. ASSUME NEW t \in Seq(Seq(T)), Len(t) = 0
          PROVE  P(t)
      <3>1. t = <<>> /\ <<>> \in Seq(Seq(T))
        BY <2>1
      <3>2. <<x>> \o t = Append(<<>>, x)
        BY <3>1
      <3>3. FlattenSeq(Append(<<>>, x)) = FlattenSeq(<<>>) \o x
        BY <3>1, FlattenAppend
      <3>4. <<>> \o x = x /\ x \o <<>> = x
        OBVIOUS
      <3> QED
        BY <3>1, <3>2, <3>3, <3>4, FlattenEmpty
    <2> HIDE DEF P
    <2> QED
      BY <2>1
  <1>2. ASSUME NEW n \in Nat, n \in G PROVE n + 1 \in G
    <2>1. ASSUME NEW t \in Seq(Seq(T)), Len(t) = n + 1
          PROVE  P(t)
      <3>1. t # <<>>
        BY <2>1
      <3>2. PICK f \in Seq(Seq(T)), y \in Seq(T) : Len(f) = n /\ t = Append(f, y)
        <4>1. Len(t) - 1 = n
          BY <2>1
        <4> QED
          BY <3>1, <4>1, SeqFront
      <3>3. P(f)
        <4> HIDE DEF P
        <4> QED
          BY <1>2, <3>2
      <3>4. FlattenSeq(t) = FlattenSeq(f) \o y
        BY <3>2, FlattenAppend
      <3>5. <<x>> \o f \in Seq(Seq(T)) /\ <<x>> \o t = Append(<<x>> \o f, y)
        BY <3>2
      <3>6. FlattenSeq(<<x>> \o t) = FlattenSeq(<<x>> \o f) \o y
        BY <3>5, FlattenAppend
      <3>7. FlattenSeq(f) \in Seq(T)
        BY FlattenType
      <3>8. (x \o FlattenSeq(f)) \o y = x \o (FlattenSeq(f) \o y)
        BY <3>7, Associative
      <3> QED
        BY <3>3, <3>4, <3>6, <3>8
    <2> HIDE DEF P
    <2> QED
      BY <2>1
  <1> HIDE DEF G
  <1>3. Nat \subseteq G
    BY <1>1, <1>2, NatSet
  <1>4. P(s)
    <2> HIDE DEF P
    <2> QED
      BY <1>3 DEF G
  <1> QED
    BY <1>4

-----------------------------------------------------------------------------
(* Decoding, one byte after the other. *)

Start == [fields |-> <<>>, field |-> <<>>, escaping |-> FALSE]
Dec(u) == FoldLeft(DecodeByte, Start, u)

Iter(u, n, g) ==
    g = [s \in SUBSET (1..n) |->
            IF s = {} THEN Start ELSE DecodeByte(g[s \ {Max(s)}], u[Max(s)])]

LEMMA IterAt ==
    ASSUME NEW u, NEW n \in Nat, NEW g, Iter(u, n, g)
    PROVE  /\ g[{}] = Start
           /\ \A s \in SUBSET (1..n) : s # {} => g[s] = DecodeByte(g[s \ {Max(s)}], u[Max(s)])
           /\ \A k \in 0..n - 1 : g[1..k + 1] = DecodeByte(g[1..k], u[k + 1])
  <1>1. \A s \in SUBSET (1..n) :
           g[s] = IF s = {} THEN Start ELSE DecodeByte(g[s \ {Max(s)}], u[Max(s)])
    BY DEF Iter
  <1>2. ASSUME NEW k \in 0..n - 1 PROVE g[1..k + 1] = DecodeByte(g[1..k], u[k + 1])
    <2> DEFINE s == 1..k + 1
    <2>1. s \in SUBSET (1..n) /\ s # {}
      OBVIOUS
    <2>2. Max(s) = k + 1 /\ s \ {k + 1} = 1..k
      <3>1. k \in Nat
        OBVIOUS
      <3> QED
        BY <3>1, MaxInterval
    <2>3. g[s] = DecodeByte(g[s \ {Max(s)}], u[Max(s)])
      <3> HIDE DEF s
      <3> QED
        BY <1>1, <2>1
    <2>4. g[s] = DecodeByte(g[1..k], u[k + 1])
      <3> HIDE DEF s
      <3> QED
        BY <2>2, <2>3
    <2> QED
      BY <2>4
  <1> QED
    BY <1>1, <1>2

LEMMA MaxTop ==
    ASSUME NEW k \in Nat, NEW s \in SUBSET (1..k + 1), k + 1 \in s
    PROVE  Max(s) = k + 1
  <1>1. \A y \in s : y \in Nat /\ k + 1 >= y
    OBVIOUS
  <1> DEFINE m == Max(s)
  <1>2. m \in s /\ \A y \in s : m >= y
    BY <1>1 DEF Max
  <1>3. m = k + 1
    <2> HIDE DEF m
    <2>1. m \in Nat /\ k + 1 >= m /\ m >= k + 1
      BY <1>1, <1>2
    <2> QED
      BY <2>1
  <1> QED
    BY <1>3

LEMMA IterExists ==
    ASSUME NEW u, NEW n \in Nat
    PROVE  \E g : Iter(u, n, g)
  <1> DEFINE G == {k \in Nat : \E g : Iter(u, k, g)}
  <1>1. 0 \in G
    <2> DEFINE g == [s \in SUBSET (1..0) |-> Start]
    <2>1. \A s \in SUBSET (1..0) : s = {}
      OBVIOUS
    <2>2. Iter(u, 0, g)
      BY <2>1 DEF Iter
    <2> QED
      BY <2>2
  <1>2. ASSUME NEW k \in Nat, k \in G PROVE k + 1 \in G
    <2>1. PICK g : Iter(u, k, g)
      BY <1>2
    <2> DEFINE h == [s \in SUBSET (1..k + 1) |->
                        IF k + 1 \in s THEN DecodeByte(g[s \ {k + 1}], u[k + 1]) ELSE g[s]]
    <2>2. /\ \A s \in SUBSET (1..k + 1) :
                h[s] = IF k + 1 \in s THEN DecodeByte(g[s \ {k + 1}], u[k + 1]) ELSE g[s]
          /\ h = [s \in SUBSET (1..k + 1) |-> h[s]]
      OBVIOUS
    <2> HIDE DEF h
    <2>3. ASSUME NEW s \in SUBSET (1..k) PROVE h[s] = g[s]
      <3>1. s \in SUBSET (1..k + 1) /\ k + 1 \notin s
        OBVIOUS
      <3> QED
        BY <2>2, <3>1
    <2>4. ASSUME NEW s \in SUBSET (1..k + 1)
          PROVE  h[s] = IF s = {} THEN Start ELSE DecodeByte(h[s \ {Max(s)}], u[Max(s)])
      <3>1. CASE k + 1 \in s
        <4>1. Max(s) = k + 1 /\ s \ {k + 1} \in SUBSET (1..k)
          BY <3>1, MaxTop
        <4>2. h[s] = DecodeByte(g[s \ {k + 1}], u[k + 1])
          BY <2>2, <3>1
        <4>3. h[s \ {k + 1}] = g[s \ {k + 1}]
          BY <2>3, <4>1
        <4> QED
          BY <3>1, <4>1, <4>2, <4>3
      <3>2. CASE k + 1 \notin s
        <4>1. s \in SUBSET (1..k) /\ s \ {Max(s)} \in SUBSET (1..k)
          <5>1. \A x \in s : x \in 1..k
            BY <3>2
          <5> QED
            BY <5>1
        <4>2. h[s] = g[s] /\ h[s \ {Max(s)}] = g[s \ {Max(s)}]
          BY <2>3, <4>1
        <4>3. /\ g[{}] = Start
              /\ s # {} => g[s] = DecodeByte(g[s \ {Max(s)}], u[Max(s)])
          BY <2>1, <4>1, IterAt
        <4> QED
          BY <4>2, <4>3
      <3> QED
        BY <3>1, <3>2
    <2> DEFINE e(s) == IF s = {} THEN Start ELSE DecodeByte(h[s \ {Max(s)}], u[Max(s)])
    <2>5. [s \in SUBSET (1..k + 1) |-> h[s]] = [s \in SUBSET (1..k + 1) |-> e(s)]
      <3>1. \A s \in SUBSET (1..k + 1) : h[s] = e(s)
        BY <2>4
      <3> HIDE DEF e
      <3> QED
        BY <3>1
    <2>6. h = [s \in SUBSET (1..k + 1) |-> e(s)]
      <3> HIDE DEF e
      <3> QED
        BY <2>2, <2>5
    <2>7. Iter(u, k + 1, h)
      BY <2>6, Zenon DEF Iter
    <2>8. k + 1 \in Nat
      OBVIOUS
    <2> QED
      BY <2>7, <2>8
  <1> HIDE DEF G
  <1>3. n \in G
    BY <1>1, <1>2, NatSet
  <1> QED
    BY <1>3 DEF G

LEMMA DecIs ==
    ASSUME NEW T, NEW u \in Seq(T)
    PROVE  \E g : Iter(u, Len(u), g) /\ Dec(u) = g[1..Len(u)]
  <1> DEFINE g == CHOOSE f : Iter(u, Len(u), f)
  <1>1. Iter(u, Len(u), g)
    BY IterExists
  <1>2. DOMAIN u = 1..Len(u)
    OBVIOUS
  <1>3. Dec(u) = g[1..Len(u)]
    BY <1>2 DEF Dec, FoldLeft, MapThenFoldSet, Iter
  <1> QED
    BY <1>1, <1>3

LEMMA DecEmpty == Dec(<<>>) = Start
  <1>1. <<>> \in Seq({}) /\ Len(<<>>) = 0 /\ 1..0 = {}
    OBVIOUS
  <1>2. PICK g : Iter(<<>>, 0, g) /\ Dec(<<>>) = g[1..0]
    BY <1>1, DecIs
  <1> QED
    BY <1>1, <1>2, IterAt

LEMMA DecAppend ==
    ASSUME NEW T, NEW u \in Seq(T), NEW c \in T
    PROVE  Dec(Append(u, c)) = DecodeByte(Dec(u), c)
  <1> DEFINE v == Append(u, c)
             n == Len(u)
  <1>1. /\ n \in Nat /\ v \in Seq(T) /\ Len(v) = n + 1 /\ v[n + 1] = c
        /\ \A i \in 1..n : v[i] = u[i]
    OBVIOUS
  <1> HIDE DEF v
  <1>2. PICK h : Iter(v, n + 1, h) /\ Dec(v) = h[1..n + 1]
    BY <1>1, DecIs
  <1>3. PICK g : Iter(u, n, g) /\ Dec(u) = g[1..n]
    BY DecIs
  <1> HIDE DEF n
  <1>4. /\ n + 1 \in Nat /\ n + 1 - 1 = n
        /\ h[{}] = Start /\ \A k \in 0..n : h[1..k + 1] = DecodeByte(h[1..k], v[k + 1])
    <2>1. n + 1 \in Nat /\ n + 1 - 1 = n
      BY <1>1
    <2> DEFINE m == n + 1
    <2>2. h[{}] = Start /\ \A k \in 0..m - 1 : h[1..k + 1] = DecodeByte(h[1..k], v[k + 1])
      <3> HIDE DEF m
      <3> QED
        BY <1>2, <2>1, IterAt DEF m
    <2>3. 0..m - 1 = 0..n
      BY <1>1
    <2> HIDE DEF m
    <2> QED
      BY <2>1, <2>2, <2>3
  <1>5. g[{}] = Start /\ \A k \in 0..n - 1 : g[1..k + 1] = DecodeByte(g[1..k], u[k + 1])
    BY <1>1, <1>3, IterAt
  <1> DEFINE G == {k \in Nat : k <= n => h[1..k] = g[1..k]}
  <1>6. 0 \in G
    <2>1. 1..0 = {}
      OBVIOUS
    <2> QED
      BY <1>4, <1>5, <2>1
  <1>7. ASSUME NEW k \in Nat, k \in G PROVE k + 1 \in G
    <2> SUFFICES ASSUME k + 1 <= n PROVE h[1..k + 1] = g[1..k + 1]
      OBVIOUS
    <2>1. k \in 0..n /\ k \in 0..n - 1 /\ k + 1 \in 1..n /\ k <= n
      BY <1>1
    <2> QED
      BY <1>1, <1>4, <1>5, <1>7, <2>1
  <1> HIDE DEF G
  <1>8. n \in G
    BY <1>1, <1>6, <1>7, NatSet
  <1>9. h[1..n] = g[1..n]
    BY <1>1, <1>8 DEF G
  <1>10. h[1..n + 1] = DecodeByte(h[1..n], v[n + 1])
    BY <1>1, <1>4
  <1> QED
    BY <1>1, <1>2, <1>3, <1>9, <1>10 DEF v

-----------------------------------------------------------------------------
(* The special characters are three. *)

LEMMA Distinct == FS # RS /\ FS # ESC /\ RS # ESC
  <1>1. \A a, b : {a, b} = {a} \cup {b}
    OBVIOUS
  <1>2. ASSUME NEW a, NEW b, Special = {a, b} PROVE FALSE
    <2>1. IsFiniteSet({a}) /\ Cardinality({a}) = 1
      BY FS_Singleton
    <2>2. \/ Cardinality({a} \cup {b}) = Cardinality({a})
          \/ Cardinality({a} \cup {b}) = Cardinality({a}) + 1
      BY <2>1, FS_AddElement
    <2>3. Cardinality(Special) = 3
      BY ProtAssumption
    <2>4. Special = {a} \cup {b}
      BY <1>1, <1>2
    <2>5. 3 = 1 \/ 3 = 1 + 1
      BY <2>1, <2>2, <2>3, <2>4
    <2> QED
      BY <2>5
  <1>3. FS = RS => Special = {FS, ESC}
    BY DEF Special
  <1>4. FS = ESC => Special = {FS, RS}
    BY DEF Special
  <1>5. RS = ESC => Special = {FS, RS}
    BY DEF Special
  <1> QED
    BY <1>2, <1>3, <1>4, <1>5

(* The escapes before a byte. *)
EscIn(u, i) == {n \in 1..i - 1 : \A j \in i - n..i - 1 : u[j] = ESC}
Odd(u, i) == Cardinality(EscIn(u, i)) % 2 = 1
EndsIn(u, i) == u[i] = RS /\ Cardinality(EscIn(u, i)) % 2 = 0

LEMMA EscStep ==
    ASSUME NEW u, NEW i \in Nat \ {0}, NEW k \in Nat, EscIn(u, i) = 1..k
    PROVE  /\ u[i] = ESC => EscIn(u, i + 1) = 1..k + 1
           /\ u[i] # ESC => EscIn(u, i + 1) = 1..0
  <1>1. ASSUME u[i] # ESC PROVE EscIn(u, i + 1) = 1..0
    <2>1. SUFFICES ASSUME NEW n \in EscIn(u, i + 1) PROVE FALSE
      OBVIOUS
    <2>2. n \in 1..i /\ \A j \in (i + 1) - n..i : u[j] = ESC
      BY DEF EscIn
    <2>3. i \in (i + 1) - n..i
      BY <2>2
    <2> QED
      BY <1>1, <2>2, <2>3
  <1>2. ASSUME u[i] = ESC PROVE EscIn(u, i + 1) = 1..k + 1
    <2>1. k <= i - 1
      <3>1. CASE k = 0
        BY <3>1
      <3>2. CASE k # 0
        <4>1. k \in EscIn(u, i)
          BY <3>2
        <4> QED
          BY <4>1 DEF EscIn
      <3> QED
        BY <3>1, <3>2
    <2>2. ASSUME NEW n \in EscIn(u, i + 1) PROVE n \in 1..k + 1
      <3>1. n \in 1..i /\ \A j \in (i + 1) - n..i : u[j] = ESC
        BY <2>2 DEF EscIn
      <3>2. CASE n = 1
        BY <3>2
      <3>3. CASE n # 1
        <4>1. n - 1 \in 1..i - 1 /\ i - (n - 1) = (i + 1) - n
          BY <3>1, <3>3
        <4>2. ASSUME NEW j \in i - (n - 1)..i - 1 PROVE u[j] = ESC
          <5>1. j \in (i + 1) - n..i
            BY <4>1
          <5> QED
            BY <3>1, <5>1
        <4>3. n - 1 \in EscIn(u, i)
          BY <4>1, <4>2 DEF EscIn
        <4>4. n - 1 \in 1..k
          BY <4>3
        <4> QED
          BY <3>1, <4>4
      <3> QED
        BY <3>2, <3>3
    <2>3. ASSUME NEW n \in 1..k + 1 PROVE n \in EscIn(u, i + 1)
      <3>1. n \in 1..i /\ (i + 1) - 1 = i
        BY <2>1
      <3>2. ASSUME NEW j \in (i + 1) - n..i PROVE u[j] = ESC
        <4>1. CASE j = i
          BY <1>2, <4>1
        <4>2. CASE j # i
          <5>1. n - 1 \in 1..k /\ j \in i - (n - 1)..i - 1
            BY <3>1, <4>2
          <5>2. n - 1 \in EscIn(u, i)
            BY <5>1
          <5> QED
            BY <5>1, <5>2 DEF EscIn
        <4> QED
          BY <4>1, <4>2
      <3> QED
        BY <3>1, <3>2 DEF EscIn
    <2> QED
      BY <2>2, <2>3
  <1> QED
    BY <1>1, <1>2

LEMMA EscRun ==
    ASSUME NEW u, NEW i \in Nat
    PROVE  \E k \in Nat : EscIn(u, i + 1) = 1..k
  <1> DEFINE G == {n \in Nat : \E k \in Nat : EscIn(u, n + 1) = 1..k}
  <1>1. 0 \in G
    <2>1. EscIn(u, 0 + 1) = 1..0
      BY DEF EscIn
    <2> QED
      BY <2>1
  <1>2. ASSUME NEW n \in Nat, n \in G PROVE n + 1 \in G
    <2>1. PICK k \in Nat : EscIn(u, n + 1) = 1..k
      BY <1>2
    <2>2. EscIn(u, (n + 1) + 1) = 1..k + 1 \/ EscIn(u, (n + 1) + 1) = 1..0
      BY <2>1, EscStep
    <2>3. n + 1 \in Nat /\ k + 1 \in Nat /\ 0 \in Nat
      OBVIOUS
    <2> QED
      BY <2>2, <2>3
  <1> HIDE DEF G
  <1>3. i \in G
    BY <1>1, <1>2, NatSet
  <1> QED
    BY <1>3 DEF G

LEMMA OddStep ==
    ASSUME NEW u, NEW i \in Nat \ {0}
    PROVE  /\ Odd(u, i + 1) <=> u[i] = ESC /\ ~Odd(u, i)
           /\ EndsIn(u, i) <=> u[i] = RS /\ ~Odd(u, i)
  <1>1. PICK k \in Nat : EscIn(u, i) = 1..k
    <2>1. i - 1 \in Nat /\ (i - 1) + 1 = i
      OBVIOUS
    <2> QED
      BY <2>1, EscRun
  <1>2. \A n \in Nat : Cardinality(1..n) = n
    <2> TAKE n \in Nat
    <2>1. Cardinality(1..n) = IF 1 > n THEN 0 ELSE n - 1 + 1
      BY FS_Interval
    <2> QED
      BY <2>1
  <1>3. Cardinality(EscIn(u, i)) = k
    BY <1>1, <1>2
  <1>4. Cardinality(EscIn(u, i + 1)) = IF u[i] = ESC THEN k + 1 ELSE 0
    <2>1. k + 1 \in Nat /\ 0 \in Nat
      OBVIOUS
    <2>2. Cardinality(1..k + 1) = k + 1 /\ Cardinality(1..0) = 0
      BY <1>2, <2>1
    <2>3. /\ u[i] = ESC => EscIn(u, i + 1) = 1..k + 1
          /\ u[i] # ESC => EscIn(u, i + 1) = 1..0
      BY <1>1, EscStep
    <2> QED
      BY <2>2, <2>3
  <1>5. /\ 0 % 2 = 0 /\ (k % 2 = 0 \/ k % 2 = 1)
        /\ (k + 1) % 2 = 1 <=> k % 2 # 1
    OBVIOUS
  <1> QED
    BY <1>3, <1>4, <1>5 DEF Odd, EndsIn

LEMMA OddFirst == \A u : ~Odd(u, 1)
  <1> TAKE u
  <1>1. EscIn(u, 1) = {}
    BY DEF EscIn
  <1>2. Cardinality({}) = 0 /\ 0 % 2 = 0
    BY FS_EmptySet
  <1> QED
    BY <1>1, <1>2 DEF Odd

-----------------------------------------------------------------------------
(* The state of the decoder. *)

DecStates == [fields : Seq(Seq(Chars)), field : Seq(Chars), escaping : BOOLEAN]
State(f, field, escaping) == [fields |-> f, field |-> field, escaping |-> escaping]

(* What a byte does, by the parts of the state. *)
LEMMA ByteCases ==
    ASSUME NEW f, NEW s, NEW c \in Chars
    PROVE  /\ c \in Special => DecodeByte(State(f, s, TRUE), c) = State(f, s \o <<c>>, FALSE)
           /\ c \notin Special =>
                DecodeByte(State(f, s, TRUE), c) = State(f, s \o <<ESC, c>>, FALSE)
           /\ DecodeByte(State(f, s, FALSE), ESC) = State(f, s, TRUE)
           /\ DecodeByte(State(f, s, FALSE), FS) = State(Append(f, s), <<>>, FALSE)
           /\ c \notin {ESC, FS} =>
                DecodeByte(State(f, s, FALSE), c) = State(f, Append(s, c), FALSE)
  <1> DEFINE t == IF c \in Special THEN <<c>> ELSE <<ESC, c>>
             x == s \o t
             y == Append(f, s)
             z == Append(s, c)
             a == State(f, s, TRUE)
             b == State(f, s, FALSE)
  <1>1. /\ a.escaping = TRUE /\ b.escaping = FALSE /\ a.field = s /\ b.field = s
        /\ b.fields = f
    BY DEF State
  <1> HIDE DEF a, b
  <1>2. DecodeByte(a, c) = [a EXCEPT !.escaping = FALSE, !.field = x]
    <2>1. DecodeByte(a, c) = [a EXCEPT !.escaping = FALSE, !.field = a.field \o t]
      BY <1>1, Zenon DEF DecodeByte
    <2> QED
      BY <1>1, <2>1
  <1>3. DecodeByte(b, ESC) = [b EXCEPT !.escaping = TRUE]
    BY <1>1, Distinct DEF DecodeByte
  <1>4. DecodeByte(b, FS) = [b EXCEPT !.fields = y, !.field = <<>>]
    BY <1>1, Distinct DEF DecodeByte
  <1>5. c \notin {ESC, FS} => DecodeByte(b, c) = [b EXCEPT !.field = z]
    BY <1>1 DEF DecodeByte
  <1>6. /\ DecodeByte(a, c) = State(f, x, FALSE)
        /\ DecodeByte(b, ESC) = State(f, s, TRUE)
        /\ DecodeByte(b, FS) = State(y, <<>>, FALSE)
        /\ c \notin {ESC, FS} => DecodeByte(b, c) = State(f, z, FALSE)
    <2> HIDE DEF x, y, z
    <2>1. DecodeByte(a, c) = State(f, x, FALSE)
      BY <1>2 DEF a, State
    <2>2. DecodeByte(b, ESC) = State(f, s, TRUE)
      BY <1>3 DEF b, State
    <2>3. DecodeByte(b, FS) = State(y, <<>>, FALSE)
      BY <1>4 DEF b, State
    <2>4. c \notin {ESC, FS} => DecodeByte(b, c) = State(f, z, FALSE)
      BY <1>5 DEF b, State
    <2> QED
      BY <2>1, <2>2, <2>3, <2>4
  <1>7. /\ c \in Special => x = s \o <<c>>
        /\ c \notin Special => x = s \o <<ESC, c>>
    OBVIOUS
  <1> HIDE DEF x
  <1> QED
    BY <1>6, <1>7 DEF a, b

LEMMA ByteFacts ==
    ASSUME NEW a \in DecStates, NEW c \in Chars
    PROVE  /\ DecodeByte(a, c) \in DecStates
           /\ DecodeByte(a, c).escaping <=> c = ESC /\ ~a.escaping
  <1> DEFINE f == a.fields
             s == a.field
             e == a.escaping
  <1>1. e \in BOOLEAN /\ s \in Seq(Chars) /\ f \in Seq(Seq(Chars)) /\ ESC \in Chars
    BY DEF DecStates, Chars, Special
  <1>2. a = State(f, s, e)
    BY DEF DecStates, State
  <1>3. \A g \in Seq(Seq(Chars)), t \in Seq(Chars), b \in BOOLEAN :
           State(g, t, b) \in DecStates /\ State(g, t, b).escaping = b
    BY DEF State, DecStates
  <1> HIDE DEF f, s, e
  <1>4. CASE e = TRUE
    <2>1. s \o <<c>> \in Seq(Chars) /\ s \o <<ESC, c>> \in Seq(Chars)
      BY <1>1
    <2>2. PICK t \in Seq(Chars) : DecodeByte(a, c) = State(f, t, FALSE)
      BY <1>2, <1>4, <2>1, ByteCases
    <2> QED
      BY <1>1, <1>2, <1>3, <1>4, <2>2
  <1>5. CASE e = FALSE /\ c = ESC
    <2>1. DecodeByte(a, c) = State(f, s, TRUE)
      BY <1>2, <1>5, ByteCases
    <2> QED
      BY <1>1, <1>2, <1>3, <1>5, <2>1
  <1>6. CASE e = FALSE /\ c = FS
    <2>1. DecodeByte(a, c) = State(Append(f, s), <<>>, FALSE)
      BY <1>2, <1>6, ByteCases
    <2>2. Append(f, s) \in Seq(Seq(Chars)) /\ <<>> \in Seq(Chars)
      BY <1>1
    <2> QED
      BY <1>1, <1>2, <1>3, <1>6, <2>1, <2>2, Distinct
  <1>7. CASE e = FALSE /\ c \notin {ESC, FS}
    <2>1. DecodeByte(a, c) = State(f, Append(s, c), FALSE)
      BY <1>2, <1>7, ByteCases
    <2>2. Append(s, c) \in Seq(Chars)
      BY <1>1
    <2> QED
      BY <1>1, <1>2, <1>3, <1>7, <2>1, <2>2
  <1> QED
    BY <1>1, <1>4, <1>5, <1>6, <1>7

LEMMA DecType ==
    ASSUME NEW u \in Seq(Chars)
    PROVE  Dec(u) \in DecStates
  <1> DEFINE G == {n \in Nat : \A v \in Seq(Chars) : Len(v) = n => Dec(v) \in DecStates}
  <1>1. 0 \in G
    <2>1. ASSUME NEW v \in Seq(Chars), Len(v) = 0 PROVE Dec(v) \in DecStates
      <3>1. v = <<>> /\ Start \in DecStates
        BY <2>1 DEF Start, DecStates
      <3> QED
        BY <3>1, DecEmpty
    <2> QED
      BY <2>1
  <1>2. ASSUME NEW n \in Nat, n \in G PROVE n + 1 \in G
    <2>1. ASSUME NEW v \in Seq(Chars), Len(v) = n + 1 PROVE Dec(v) \in DecStates
      <3>1. v # <<>> /\ Len(v) - 1 = n
        BY <2>1
      <3>2. PICK w \in Seq(Chars), c \in Chars : Len(w) = n /\ v = Append(w, c)
        BY <3>1, SeqFront
      <3>3. Dec(w) \in DecStates
        BY <1>2, <3>2
      <3> QED
        BY <3>2, <3>3, DecAppend, ByteFacts
    <2> QED
      BY <2>1
  <1> HIDE DEF G
  <1>3. Nat \subseteq G
    BY <1>1, <1>2, NatSet
  <1> QED
    BY <1>3 DEF G

(* One more byte of a prefix. *)
LEMMA PrefixStep ==
    ASSUME NEW T, NEW u \in Seq(T), NEW n \in 0..Len(u) - 1
    PROVE  SubSeq(u, 1, n + 1) = Append(SubSeq(u, 1, n), u[n + 1]) /\ u[n + 1] \in T
  <1> DEFINE p == SubSeq(u, 1, n)
             q == SubSeq(u, 1, n + 1)
             t == Append(p, u[n + 1])
  <1>1. n \in 0..Len(u) /\ n + 1 \in 0..Len(u) /\ n \in Nat /\ u[n + 1] \in T
    OBVIOUS
  <1>2. p \in Seq(T) /\ Len(p) = n /\ \A i \in 1..n : p[i] = u[i]
    BY <1>1, Prefix
  <1>3. q \in Seq(T) /\ Len(q) = n + 1 /\ \A i \in 1..n + 1 : q[i] = u[i]
    BY <1>1, Prefix
  <1> HIDE DEF p, q
  <1>4. t \in Seq(T) /\ Len(t) = n + 1 /\ t[n + 1] = u[n + 1] /\ \A i \in 1..n : t[i] = p[i]
    BY <1>1, <1>2
  <1> HIDE DEF t
  <1>5. \A i \in 1..n + 1 : i \in 1..n \/ i = n + 1
    BY <1>1
  <1>6. \A i \in 1..n + 1 : q[i] = t[i]
    BY <1>2, <1>3, <1>4, <1>5
  <1>7. q = t
    BY <1>3, <1>4, <1>6, SameSeq
  <1> QED
    BY <1>1, <1>7 DEF p, q, t

(* The scan of prot_get and the decoder agree on what is escaped. *)
LEMMA OddIsEscaping ==
    ASSUME NEW u \in Seq(Chars), NEW n \in 0..Len(u)
    PROVE  Odd(u, n + 1) <=> Dec(SubSeq(u, 1, n)).escaping
  <1> DEFINE G == {k \in Nat : k <= Len(u) => (Odd(u, k + 1) <=> Dec(SubSeq(u, 1, k)).escaping)}
  <1>1. 0 \in G
    <2>1. SubSeq(u, 1, 0) = <<>> /\ 0 + 1 = 1
      OBVIOUS
    <2>2. Start.escaping = FALSE
      BY DEF Start
    <2> QED
      BY <2>1, <2>2, OddFirst, DecEmpty
  <1>2. ASSUME NEW k \in Nat, k \in G PROVE k + 1 \in G
    <2> SUFFICES ASSUME k + 1 <= Len(u)
                 PROVE  Odd(u, (k + 1) + 1) <=> Dec(SubSeq(u, 1, k + 1)).escaping
      OBVIOUS
    <2> DEFINE p == SubSeq(u, 1, k)
    <2>1. k \in 0..Len(u) - 1 /\ k \in 0..Len(u) /\ k <= Len(u)
      OBVIOUS
    <2>2. p \in Seq(Chars)
      BY <2>1, Prefix
    <2>3. SubSeq(u, 1, k + 1) = Append(p, u[k + 1]) /\ u[k + 1] \in Chars
      BY <2>1, PrefixStep
    <2>4. Odd(u, k + 1) <=> Dec(p).escaping
      BY <1>2, <2>1
    <2> HIDE DEF p
    <2>5. Dec(Append(p, u[k + 1])) = DecodeByte(Dec(p), u[k + 1]) /\ Dec(p) \in DecStates
      BY <2>2, <2>3, DecAppend, DecType
    <2>6. DecodeByte(Dec(p), u[k + 1]).escaping <=> u[k + 1] = ESC /\ ~Dec(p).escaping
      BY <2>3, <2>5, ByteFacts
    <2>7. Odd(u, (k + 1) + 1) <=> u[k + 1] = ESC /\ ~Odd(u, k + 1)
      BY OddStep
    <2> QED
      BY <2>3, <2>4, <2>5, <2>6, <2>7
  <1> HIDE DEF G
  <1>3. n \in G
    BY <1>1, <1>2, NatSet
  <1> QED
    BY <1>3 DEF G

-----------------------------------------------------------------------------
(* A stream up to which no record ends, and what the decoder has of it: the *)
(* fields before, the field it is at, and whether the last byte escapes.    *)

LEMMA EndsSame ==
    ASSUME NEW u, NEW v, NEW i \in Nat \ {0}, Agree(u, v, i)
    PROVE  EndsIn(u, i) <=> EndsIn(v, i)
  <1>1. \A n \in 1..i - 1 : \A j \in i - n..i - 1 : j \in 1..i
    OBVIOUS
  <1>2. i \in 1..i
    OBVIOUS
  <1>3. EscIn(u, i) = EscIn(v, i)
    BY <1>1 DEF EscIn, Agree
  <1> QED
    BY <1>2, <1>3 DEF EndsIn, Agree

Quiet(u) == \A i \in 1..Len(u) : ~EndsIn(u, i)
Clean(u, f, s) == u \in Seq(Chars) /\ Quiet(u) /\ Dec(u) = State(f, s, FALSE)
Escaping(u, f, s) == u \in Seq(Chars) /\ Quiet(u) /\ Dec(u) = State(f, s, TRUE)

(* Where a record separator ends the record. *)
LEMMA EndsAppend ==
    ASSUME NEW u \in Seq(Chars), NEW c \in Chars
    PROVE  /\ EndsIn(Append(u, c), Len(u) + 1) <=> c = RS /\ ~Dec(u).escaping
           /\ \A i \in 1..Len(u) : EndsIn(Append(u, c), i) <=> EndsIn(u, i)
  <1> DEFINE v == Append(u, c)
             n == Len(u)
  <1>1. /\ v \in Seq(Chars) /\ n \in Nat /\ n \in 0..Len(v) /\ v[n + 1] = c
        /\ n + 1 \in Nat \ {0} /\ \A i \in 1..n : v[i] = u[i]
    OBVIOUS
  <1>2. SubSeq(v, 1, n) = u
    <2>1. SubSeq(v, 1, n) \in Seq(Chars) /\ Len(SubSeq(v, 1, n)) = n
          /\ \A i \in 1..n : SubSeq(v, 1, n)[i] = v[i]
      <3> HIDE DEF v, n
      <3> QED
        BY <1>1, Prefix
    <2>2. \A i \in 1..n : SubSeq(v, 1, n)[i] = u[i]
      BY <1>1, <2>1
    <2> DEFINE p == SubSeq(v, 1, n)
    <2> HIDE DEF p, v
    <2>3. p \in Seq(Chars) /\ Len(p) = Len(u) /\ \A i \in 1..Len(p) : p[i] = u[i]
      BY <2>1, <2>2 DEF p
    <2>4. p = u
      BY <2>3, SameSeq
    <2> QED
      BY <2>4 DEF p
  <1> HIDE DEF v
  <1>3. Odd(v, n + 1) <=> Dec(u).escaping
    BY <1>1, <1>2, OddIsEscaping
  <1>4. EndsIn(v, n + 1) <=> c = RS /\ ~Dec(u).escaping
    BY <1>1, <1>3, OddStep
  <1>5. ASSUME NEW i \in 1..n PROVE EndsIn(v, i) <=> EndsIn(u, i)
    <2>1. Agree(v, u, i) /\ i \in Nat \ {0}
      BY <1>1 DEF Agree
    <2> QED
      BY <2>1, EndsSame
  <1> QED
    BY <1>4, <1>5 DEF v

LEMMA QuietAppend ==
    ASSUME NEW u \in Seq(Chars), NEW c \in Chars, Quiet(u), c = RS => Dec(u).escaping
    PROVE  Append(u, c) \in Seq(Chars) /\ Quiet(Append(u, c))
  <1>1. Append(u, c) \in Seq(Chars) /\ Len(Append(u, c)) = Len(u) + 1
    OBVIOUS
  <1>2. \A i \in 1..Len(u) + 1 : i \in 1..Len(u) \/ i = Len(u) + 1
    OBVIOUS
  <1> QED
    BY <1>1, <1>2, EndsAppend DEF Quiet

LEMMA StateEscapes ==
    \A f, s : State(f, s, TRUE).escaping /\ ~State(f, s, FALSE).escaping
  BY DEF State

(* One byte more. *)
LEMMA CleanByte ==
    ASSUME NEW u, NEW f, NEW s, Clean(u, f, s)
    PROVE  /\ Escaping(Append(u, ESC), f, s)
           /\ Clean(Append(u, FS), Append(f, s), <<>>)
           /\ \A c \in Letters : Clean(Append(u, c), f, Append(s, c))
  <1>1. u \in Seq(Chars) /\ Quiet(u) /\ Dec(u) = State(f, s, FALSE)
    BY DEF Clean
  <1>2. ESC \in Chars /\ FS \in Chars /\ ESC # RS /\ FS # RS
    BY Distinct DEF Chars, Special
  <1>3. Escaping(Append(u, ESC), f, s)
    <2>1. Append(u, ESC) \in Seq(Chars) /\ Quiet(Append(u, ESC))
      BY <1>1, <1>2, QuietAppend
    <2>2. Dec(Append(u, ESC)) = State(f, s, TRUE)
      <3>1. Dec(Append(u, ESC)) = DecodeByte(Dec(u), ESC)
        BY <1>1, <1>2, DecAppend
      <3>2. DecodeByte(State(f, s, FALSE), ESC) = State(f, s, TRUE)
        BY <1>2, ByteCases
      <3> QED
        BY <1>1, <3>1, <3>2
    <2> QED
      BY <2>1, <2>2 DEF Escaping
  <1>4. Clean(Append(u, FS), Append(f, s), <<>>)
    <2>1. Append(u, FS) \in Seq(Chars) /\ Quiet(Append(u, FS))
      BY <1>1, <1>2, QuietAppend
    <2>2. Dec(Append(u, FS)) = State(Append(f, s), <<>>, FALSE)
      <3>1. Dec(Append(u, FS)) = DecodeByte(Dec(u), FS)
        BY <1>1, <1>2, DecAppend
      <3>2. DecodeByte(State(f, s, FALSE), FS) = State(Append(f, s), <<>>, FALSE)
        BY <1>2, ByteCases
      <3> QED
        BY <1>1, <3>1, <3>2
    <2> QED
      BY <2>1, <2>2 DEF Clean
  <1>5. ASSUME NEW c \in Letters PROVE Clean(Append(u, c), f, Append(s, c))
    <2>1. c \in Chars /\ c \notin {ESC, FS} /\ c # RS
      BY ProtAssumption DEF Chars, Special
    <2>2. Append(u, c) \in Seq(Chars) /\ Quiet(Append(u, c))
      BY <1>1, <2>1, QuietAppend
    <2>3. Dec(Append(u, c)) = State(f, Append(s, c), FALSE)
      <3>1. Dec(Append(u, c)) = DecodeByte(Dec(u), c)
        BY <1>1, <2>1, DecAppend
      <3>2. DecodeByte(State(f, s, FALSE), c) = State(f, Append(s, c), FALSE)
        BY <2>1, ByteCases
      <3> QED
        BY <1>1, <3>1, <3>2
    <2> QED
      BY <2>2, <2>3 DEF Clean
  <1> QED
    BY <1>3, <1>4, <1>5

LEMMA EscapingByte ==
    ASSUME NEW u, NEW f, NEW s, Escaping(u, f, s)
    PROVE  /\ \A c \in Special : Clean(Append(u, c), f, s \o <<c>>)
           /\ \A c \in Letters : Clean(Append(u, c), f, s \o <<ESC, c>>)
  <1>1. u \in Seq(Chars) /\ Quiet(u) /\ Dec(u) = State(f, s, TRUE)
    BY DEF Escaping
  <1>2. Dec(u).escaping
    BY <1>1, StateEscapes
  <1>3. ASSUME NEW c \in Special PROVE Clean(Append(u, c), f, s \o <<c>>)
    <2>1. c \in Chars
      BY DEF Chars
    <2>2. Append(u, c) \in Seq(Chars) /\ Quiet(Append(u, c))
      BY <1>1, <1>2, <2>1, QuietAppend
    <2>3. Dec(Append(u, c)) = State(f, s \o <<c>>, FALSE)
      <3>1. Dec(Append(u, c)) = DecodeByte(Dec(u), c)
        BY <1>1, <2>1, DecAppend
      <3>2. DecodeByte(State(f, s, TRUE), c) = State(f, s \o <<c>>, FALSE)
        BY <2>1, ByteCases
      <3> QED
        BY <1>1, <3>1, <3>2
    <2> QED
      BY <2>2, <2>3 DEF Clean
  <1>4. ASSUME NEW c \in Letters PROVE Clean(Append(u, c), f, s \o <<ESC, c>>)
    <2>1. c \in Chars /\ c \notin Special
      BY ProtAssumption DEF Chars
    <2>2. Append(u, c) \in Seq(Chars) /\ Quiet(Append(u, c))
      BY <1>1, <1>2, <2>1, QuietAppend
    <2>3. Dec(Append(u, c)) = State(f, s \o <<ESC, c>>, FALSE)
      <3>1. Dec(Append(u, c)) = DecodeByte(Dec(u), c)
        BY <1>1, <2>1, DecAppend
      <3>2. DecodeByte(State(f, s, TRUE), c) = State(f, s \o <<ESC, c>>, FALSE)
        BY <2>1, ByteCases
      <3> QED
        BY <1>1, <3>1, <3>2
    <2> QED
      BY <2>2, <2>3 DEF Clean
  <1> QED
    BY <1>3, <1>4

-----------------------------------------------------------------------------
(* What buf_put_string puts is decoded as it was. *)

Chunk(s, i) == IF Escaped(s, i) THEN <<ESC, s[i]>> ELSE <<s[i]>>
Chunks(s, k) == [i \in 1..k |-> Chunk(s, i)]

(* An escape that was put alone: the next character is a letter. *)
Lone(s, k) == k # 0 /\ s[k] = ESC /\ ~Escaped(s, k)

LEMMA CharCases == \A c \in Chars : c \in Letters \/ c \in {FS, RS} \/ c = ESC
  BY DEF Chars, Special

LEMMA AppendTwo ==
    ASSUME NEW T, NEW u \in Seq(T), NEW a \in T, NEW b \in T
    PROVE  /\ u \o <<a>> = Append(u, a) /\ u \o <<a, b>> = Append(Append(u, a), b)
           /\ Append(u, a) \in Seq(T) /\ Append(Append(u, a), b) \in Seq(T)
  OBVIOUS

LEMMA ChunksStep ==
    ASSUME NEW s \in Seq(Chars), NEW k \in 0..Len(s) - 1
    PROVE  /\ Chunks(s, k) \in Seq(Seq(Chars)) /\ Chunk(s, k + 1) \in Seq(Chars)
           /\ Chunks(s, k + 1) = Append(Chunks(s, k), Chunk(s, k + 1))
  <1>1. ASSUME NEW i \in 1..Len(s) PROVE Chunk(s, i) \in Seq(Chars)
    <2>1. s[i] \in Chars /\ ESC \in Chars
      BY DEF Chars, Special
    <2> QED
      BY <2>1 DEF Chunk
  <1>2. k \in Nat /\ k + 1 \in 1..Len(s) /\ \A i \in 1..k : i \in 1..Len(s)
    OBVIOUS
  <1>3. Chunks(s, k) \in Seq(Seq(Chars)) /\ Len(Chunks(s, k)) = k
    BY <1>1, <1>2 DEF Chunks
  <1>4. Chunks(s, k + 1) = Append(Chunks(s, k), Chunk(s, k + 1))
    BY <1>2 DEF Chunks
  <1> QED
    BY <1>1, <1>2, <1>3, <1>4

LEMMA FieldStep ==
    ASSUME NEW s \in Seq(Chars), NEW k \in 0..Len(s) - 1, NEW v, NEW f,
           Lone(s, k) => Escaping(v, f, SubSeq(s, 1, k - 1)),
           ~Lone(s, k) => Clean(v, f, SubSeq(s, 1, k))
    PROVE  LET w == v \o Chunk(s, k + 1)
           IN  /\ Lone(s, k + 1) => Escaping(w, f, SubSeq(s, 1, k))
               /\ ~Lone(s, k + 1) => Clean(w, f, SubSeq(s, 1, k + 1))
  <1> DEFINE c == s[k + 1]
             p == SubSeq(s, 1, k)
             q == SubSeq(s, 1, k + 1)
             w == v \o Chunk(s, k + 1)
  <1>1. /\ k \in 0..Len(s) /\ k \in Nat /\ c \in Chars /\ k + 1 # 0 /\ ESC \in Chars
        /\ k # Len(s) /\ ESC \in Special /\ FS \in Special /\ RS \in Special
    BY DEF Special, Chars
  <1>2. p \in Seq(Chars) /\ q = Append(p, c)
    BY <1>1, Prefix, PrefixStep
  <1>3. v \in Seq(Chars)
    BY DEF Escaping, Clean
  <1> HIDE DEF p, q, c, w
  <1>4. CASE Lone(s, k)
    <2>1. c \in Letters /\ s[k] = ESC /\ k # 0
      <3>1. s[k] = ESC /\ ~(c \in Special) /\ k # 0
        BY <1>1, <1>4 DEF Lone, Escaped, c
      <3> QED
        BY <1>1, <3>1 DEF Chars
    <2>2. ~Escaped(s, k + 1) /\ ~Lone(s, k + 1)
      <3>1. c \notin {FS, RS} /\ c # ESC
        BY <2>1, ProtAssumption DEF Special
      <3> QED
        BY <3>1 DEF Escaped, Lone, c
    <2>3. w = Append(v, c)
      BY <1>1, <1>3, <2>2, AppendTwo DEF w, Chunk, c
    <2> DEFINE o == SubSeq(s, 1, k - 1)
    <2>4. o \in Seq(Chars) /\ p = Append(o, ESC)
      <3>1. k - 1 \in 0..Len(s) - 1 /\ k - 1 \in 0..Len(s) /\ (k - 1) + 1 = k
        BY <1>1, <2>1
      <3> QED
        BY <2>1, <3>1, Prefix, PrefixStep DEF p
    <2> HIDE DEF o
    <2>5. Clean(w, f, o \o <<ESC, c>>)
      BY <1>4, <2>1, <2>3, EscapingByte DEF o
    <2>6. o \o <<ESC, c>> = q
      BY <1>1, <1>2, <2>4, AppendTwo
    <2> QED
      BY <2>2, <2>5, <2>6 DEF w, q, p
  <1>5. CASE ~Lone(s, k) /\ Escaped(s, k + 1)
    <2>1. Clean(v, f, p)
      BY <1>5 DEF p
    <2>2. ~Lone(s, k + 1) /\ c \in Special
      BY <1>1, <1>5 DEF Lone, Escaped, c
    <2>3. w = Append(Append(v, ESC), c)
      BY <1>1, <1>3, <1>5, AppendTwo DEF w, Chunk, c
    <2>4. Escaping(Append(v, ESC), f, p)
      BY <2>1, CleanByte
    <2>5. Clean(w, f, p \o <<c>>)
      BY <2>2, <2>3, <2>4, EscapingByte
    <2>6. p \o <<c>> = q
      BY <1>1, <1>2, AppendTwo
    <2> QED
      BY <2>2, <2>5, <2>6 DEF w, q, p
  <1>6. CASE ~Lone(s, k) /\ ~Escaped(s, k + 1)
    <2>1. Clean(v, f, p)
      BY <1>6 DEF p
    <2>2. w = Append(v, c)
      BY <1>1, <1>3, <1>6, AppendTwo DEF w, Chunk, c
    <2>3. c \in Letters \/ c = ESC
      BY <1>1, <1>6, CharCases DEF Escaped, c
    <2>4. CASE c = ESC
      <3>1. Escaping(w, f, p)
        BY <2>1, <2>2, <2>4, CleanByte
      <3>2. Lone(s, k + 1)
        BY <1>1, <1>6, <2>4 DEF Lone, c
      <3> QED
        BY <3>1, <3>2 DEF w, p
    <2>5. CASE c \in Letters
      <3>1. Clean(w, f, q)
        BY <1>2, <2>1, <2>2, <2>5, CleanByte
      <3>2. ~Lone(s, k + 1)
        BY <2>5, ProtAssumption DEF Lone, Special, c
      <3> QED
        BY <3>1, <3>2 DEF w, q
    <2> QED
      BY <2>3, <2>4, <2>5
  <1> QED
    BY <1>4, <1>5, <1>6

LEMMA FieldDecoded ==
    ASSUME NEW s \in Seq(Chars), NEW u, NEW f, Clean(u, f, <<>>)
    PROVE  Clean(u \o buf_put_string(s), f, s) /\ buf_put_string(s) \in Seq(Chars)
  <1> DEFINE v(k) == u \o FlattenSeq(Chunks(s, k))
             P(k) == /\ Lone(s, k) => Escaping(v(k), f, SubSeq(s, 1, k - 1))
                     /\ ~Lone(s, k) => Clean(v(k), f, SubSeq(s, 1, k))
             G == {k \in Nat : k <= Len(s) => P(k)}
  <1>1. u \in Seq(Chars)
    BY DEF Clean
  <1>2. 0 \in G
    <2>1. Chunks(s, 0) = <<>> /\ u \o <<>> = u /\ SubSeq(s, 1, 0) = <<>>
      BY <1>1 DEF Chunks
    <2>2. v(0) = u
      BY <2>1, FlattenEmpty
    <2>3. ~Lone(s, 0)
      BY DEF Lone
    <2>4. P(0)
      <3> HIDE DEF v
      <3> QED
        BY <2>1, <2>2, <2>3
    <2> HIDE DEF P
    <2> QED
      BY <2>4
  <1>3. ASSUME NEW k \in Nat, k \in G PROVE k + 1 \in G
    <2> SUFFICES ASSUME k + 1 <= Len(s) PROVE P(k + 1)
      OBVIOUS
    <2>1. k \in 0..Len(s) - 1 /\ k <= Len(s) /\ (k + 1) - 1 = k
      OBVIOUS
    <2>2. P(k)
      BY <1>3, <2>1
    <2>3. v(k + 1) = v(k) \o Chunk(s, k + 1)
      <3>1. /\ Chunks(s, k) \in Seq(Seq(Chars)) /\ Chunk(s, k + 1) \in Seq(Chars)
            /\ Chunks(s, k + 1) = Append(Chunks(s, k), Chunk(s, k + 1))
        BY <2>1, ChunksStep
      <3>2. FlattenSeq(Chunks(s, k + 1)) = FlattenSeq(Chunks(s, k)) \o Chunk(s, k + 1)
        BY <3>1, FlattenAppend
      <3>3. FlattenSeq(Chunks(s, k)) \in Seq(Chars)
        BY <3>1, FlattenType
      <3> DEFINE x == FlattenSeq(Chunks(s, k))
                 y == Chunk(s, k + 1)
      <3>4. (u \o x) \o y = u \o (x \o y)
        <4>1. x \in Seq(Chars) /\ y \in Seq(Chars)
          BY <3>1, <3>3
        <4> HIDE DEF x, y
        <4> QED
          BY <1>1, <4>1, Associative
      <3> QED
        BY <3>2, <3>4
    <2> HIDE DEF v
    <2> QED
      BY <2>1, <2>2, <2>3, FieldStep
  <1>4. Len(s) \in G
    <2> HIDE DEF G
    <2> QED
      BY <1>2, <1>3, NatSet
  <1>5. P(Len(s))
    <2> HIDE DEF P
    <2> QED
      BY <1>4
  <1>6. ~Lone(s, Len(s)) /\ SubSeq(s, 1, Len(s)) = s
    BY DEF Lone, Escaped
  <1>7. buf_put_string(s) = FlattenSeq(Chunks(s, Len(s)))
    <2>1. DOMAIN s = 1..Len(s)
      OBVIOUS
    <2> QED
      BY <2>1 DEF buf_put_string, Chunks, Chunk
  <1>8. buf_put_string(s) \in Seq(Chars)
    <2>1. CASE Len(s) = 0
      <3>1. Chunks(s, Len(s)) = <<>> /\ <<>> \in Seq(Chars)
        BY <2>1 DEF Chunks
      <3> QED
        BY <1>7, <3>1, FlattenEmpty
    <2>2. CASE Len(s) # 0
      <3> DEFINE k == Len(s) - 1
      <3>1. k \in 0..Len(s) - 1 /\ k + 1 = Len(s)
        BY <2>2
      <3>2. /\ Chunks(s, k) \in Seq(Seq(Chars)) /\ Chunk(s, k + 1) \in Seq(Chars)
            /\ Chunks(s, k + 1) = Append(Chunks(s, k), Chunk(s, k + 1))
        <4> HIDE DEF k
        <4> QED
          BY <3>1, ChunksStep
      <3>3. Chunks(s, Len(s)) \in Seq(Seq(Chars))
        <4> HIDE DEF k
        <4>1. \A x \in Seq(Seq(Chars)), y \in Seq(Chars) : Append(x, y) \in Seq(Seq(Chars))
          OBVIOUS
        <4>2. Chunks(s, k + 1) \in Seq(Seq(Chars))
          BY <3>2, <4>1
        <4> QED
          BY <3>1, <4>2
      <3> QED
        BY <1>7, <3>3, FlattenType
    <2> QED
      BY <2>1, <2>2
  <1> QED
    BY <1>5, <1>6, <1>7, <1>8

-----------------------------------------------------------------------------
(* What is put for a record is decoded as the record, and ends once. *)

LEMMA CleanStart == Clean(<<>>, <<>>, <<>>)
  <1>1. <<>> \in Seq(Chars) /\ Len(<<>>) = 0
    OBVIOUS
  <1>2. Quiet(<<>>)
    BY <1>1 DEF Quiet
  <1>3. Dec(<<>>) = State(<<>>, <<>>, FALSE)
    BY DecEmpty DEF Start, State
  <1> QED
    BY <1>1, <1>2, <1>3 DEF Clean

PieceAt(r, i) == (IF i = 1 THEN <<>> ELSE <<FS>>) \o buf_put_string(r[i])
Put(r, n) == FlattenSeq(SubSeq(Pieces(r), 1, n))

LEMMA PieceFacts ==
    ASSUME NEW r \in Records
    PROVE  /\ r \in Seq(Seq(Chars)) /\ Len(r) \in Nat \ {0}
           /\ Pieces(r) \in Seq(Seq(Chars)) /\ Len(Pieces(r)) = Len(r) + 1
           /\ \A i \in 1..Len(r) : Pieces(r)[i] = PieceAt(r, i)
           /\ Pieces(r)[Len(r) + 1] = <<RS>>
  <1>1. r \in Seq(Seq(Chars)) /\ Len(r) \in Nat \ {0} /\ DOMAIN r = 1..Len(r)
    <2>1. r \in Seq(Seq(Chars)) /\ r # <<>>
      BY ProtAssumption
    <2> QED
      BY <2>1
  <1>2. FS \in Chars /\ RS \in Chars
    BY DEF Chars, Special
  <1>3. ASSUME NEW i \in 1..Len(r) PROVE PieceAt(r, i) \in Seq(Chars)
    <2>1. r[i] \in Seq(Chars)
      BY <1>1
    <2>2. buf_put_string(r[i]) \in Seq(Chars)
      BY <2>1, CleanStart, FieldDecoded
    <2>3. <<>> \in Seq(Chars) /\ <<FS>> \in Seq(Chars)
      BY <1>2
    <2> QED
      BY <2>2, <2>3 DEF PieceAt
  <1> DEFINE b == [i \in 1..Len(r) |-> PieceAt(r, i)]
             x == <<RS>>
             e == << x >>
  <1>4. Pieces(r) = b \o e
    BY <1>1 DEF Pieces, PieceAt
  <1>5. /\ b \in Seq(Seq(Chars)) /\ Len(b) = Len(r)
        /\ \A i \in 1..Len(r) : b[i] = PieceAt(r, i)
    BY <1>1, <1>3
  <1>6. x \in Seq(Chars)
    BY <1>2
  <1> HIDE DEF x
  <1>7. e \in Seq(Seq(Chars)) /\ Len(e) = 1 /\ e[1] = x
    BY <1>6
  <1> HIDE DEF b, e
  <1>8. /\ b \o e \in Seq(Seq(Chars)) /\ Len(b \o e) = Len(r) + 1
        /\ \A i \in 1..Len(r) : (b \o e)[i] = b[i]
        /\ (b \o e)[Len(r) + 1] = e[1]
    <2> DEFINE S == Seq(Chars)
    <2>1. b \in Seq(S) /\ e \in Seq(S) /\ 1 \in 1..Len(e)
      BY <1>5, <1>7
    <2> HIDE DEF S
    <2>2. /\ b \o e \in Seq(S) /\ Len(b \o e) = Len(b) + Len(e)
          /\ \A i \in 1..Len(b) : (b \o e)[i] = b[i]
          /\ (b \o e)[Len(b) + 1] = e[1]
      BY <2>1, Concat
    <2> QED
      BY <1>5, <1>7, <2>2 DEF S
  <1> QED
    BY <1>1, <1>4, <1>5, <1>7, <1>8 DEF x

LEMMA PutStep ==
    ASSUME NEW r \in Records, NEW n \in 0..Len(r)
    PROVE  /\ Put(r, n) \in Seq(Chars) /\ Pieces(r)[n + 1] \in Seq(Chars)
           /\ Put(r, n + 1) = Put(r, n) \o Pieces(r)[n + 1]
           /\ Put(r, 0) = <<>> /\ Put(r, Len(r) + 1) = Encode(r)
  <1> DEFINE p == Pieces(r)
             q == SubSeq(p, 1, n)
  <1>1. /\ p \in Seq(Seq(Chars)) /\ Len(p) = Len(r) + 1 /\ Len(r) \in Nat
        /\ n \in 0..Len(p) - 1 /\ n \in 0..Len(p)
    <2>1. p \in Seq(Seq(Chars)) /\ Len(p) = Len(r) + 1 /\ Len(r) \in Nat
      BY PieceFacts
    <2> HIDE DEF p
    <2> QED
      BY <2>1
  <1> HIDE DEF p
  <1>2. q \in Seq(Seq(Chars))
    BY <1>1, Prefix
  <1>3. SubSeq(p, 1, n + 1) = Append(q, p[n + 1]) /\ p[n + 1] \in Seq(Chars)
    BY <1>1, PrefixStep
  <1>4. SubSeq(p, 1, 0) = <<>> /\ SubSeq(p, 1, Len(r) + 1) = p
    BY <1>1
  <1> HIDE DEF q
  <1>5. FlattenSeq(q) \in Seq(Chars) /\ FlattenSeq(Append(q, p[n + 1])) = FlattenSeq(q) \o p[n + 1]
    BY <1>2, <1>3, FlattenType, FlattenAppend
  <1>6. FlattenSeq(SubSeq(p, 1, n + 1)) = FlattenSeq(SubSeq(p, 1, n)) \o p[n + 1]
    BY <1>3, <1>5 DEF q
  <1>7. FlattenSeq(SubSeq(p, 1, n)) \in Seq(Chars)
    BY <1>5 DEF q
  <1>8. FlattenSeq(SubSeq(p, 1, 0)) = <<>>
    BY <1>4, FlattenEmpty
  <1>9. FlattenSeq(SubSeq(p, 1, Len(r) + 1)) = FlattenSeq(p)
    BY <1>4
  <1> QED
    BY <1>3, <1>6, <1>7, <1>8, <1>9 DEF Put, Encode, p

LEMMA RecordDecoded ==
    ASSUME NEW r \in Records, NEW n \in 1..Len(r)
    PROVE  Clean(Put(r, n), SubSeq(r, 1, n - 1), r[n])
  <1> DEFINE P(k) == Clean(Put(r, k + 1), SubSeq(r, 1, k), r[k + 1])
             G == {k \in Nat : k + 1 <= Len(r) => P(k)}
  <1>1. r \in Seq(Seq(Chars)) /\ Len(r) \in Nat \ {0}
    BY PieceFacts
  <1>2. 0 \in G
    <2>1. 0 \in 0..Len(r) /\ 1 \in 1..Len(r) /\ 0 + 1 = 1 /\ r[1] \in Seq(Chars)
      BY <1>1
    <2>2. Put(r, 1) = Put(r, 0) \o Pieces(r)[1] /\ Put(r, 0) = <<>>
      BY <2>1, PutStep
    <2>3. Pieces(r)[1] = <<>> \o buf_put_string(r[1])
      BY <2>1, PieceFacts DEF PieceAt
    <2>4. /\ Clean(<<>> \o buf_put_string(r[1]), <<>>, r[1])
          /\ buf_put_string(r[1]) \in Seq(Chars)
      BY <2>1, CleanStart, FieldDecoded
    <2>5. Put(r, 1) = <<>> \o buf_put_string(r[1])
      BY <2>2, <2>3, <2>4
    <2>6. SubSeq(r, 1, 0) = <<>>
      OBVIOUS
    <2>7. P(0)
      BY <2>1, <2>4, <2>5, <2>6
    <2> HIDE DEF P
    <2> QED
      BY <2>7
  <1>3. ASSUME NEW k \in Nat, k \in G PROVE k + 1 \in G
    <2> SUFFICES ASSUME (k + 1) + 1 <= Len(r) PROVE P(k + 1)
      OBVIOUS
    <2> DEFINE i == k + 1
    <2>1. /\ i \in 0..Len(r) /\ i + 1 \in 1..Len(r) /\ i + 1 # 1 /\ k + 1 <= Len(r)
          /\ k \in 0..Len(r) - 1 /\ r[i + 1] \in Seq(Chars) /\ i \in 1..Len(r)
      BY <1>1
    <2>2. Clean(Put(r, i), SubSeq(r, 1, k), r[i])
      BY <1>3, <2>1
    <2>3. SubSeq(r, 1, i) = Append(SubSeq(r, 1, k), r[i])
      BY <1>1, <2>1, PrefixStep
    <2> HIDE DEF i
    <2>4. Put(r, i + 1) = Put(r, i) \o Pieces(r)[i + 1] /\ Put(r, i) \in Seq(Chars)
      BY <2>1, PutStep
    <2>5. Pieces(r)[i + 1] = <<FS>> \o buf_put_string(r[i + 1])
      BY <2>1, PieceFacts DEF PieceAt
    <2>6. Clean(Append(Put(r, i), FS), SubSeq(r, 1, i), <<>>)
      BY <2>2, <2>3, CleanByte
    <2>7. /\ Clean(Append(Put(r, i), FS) \o buf_put_string(r[i + 1]), SubSeq(r, 1, i), r[i + 1])
          /\ buf_put_string(r[i + 1]) \in Seq(Chars)
      BY <2>1, <2>6, FieldDecoded
    <2>8. Put(r, i + 1) = Append(Put(r, i), FS) \o buf_put_string(r[i + 1])
      <3> DEFINE a == Put(r, i)
                 b == buf_put_string(r[i + 1])
      <3>1. a \in Seq(Chars) /\ b \in Seq(Chars) /\ FS \in Chars
        BY <2>4, <2>7 DEF Chars, Special
      <3> HIDE DEF a, b
      <3>2. a \o (<<FS>> \o b) = Append(a, FS) \o b
        <4>1. <<FS>> \in Seq(Chars) /\ a \o <<FS>> = Append(a, FS)
          BY <3>1
        <4>2. (a \o <<FS>>) \o b = a \o (<<FS>> \o b)
          BY <3>1, <4>1, Associative
        <4> QED
          BY <4>1, <4>2
      <3> QED
        BY <2>4, <2>5, <3>2 DEF a, b
    <2> QED
      BY <2>7, <2>8 DEF i
  <1>4. n - 1 \in G
    <2>1. n - 1 \in Nat
      OBVIOUS
    <2> HIDE DEF G
    <2> QED
      BY <1>2, <1>3, <2>1, NatSet
  <1>5. (n - 1) + 1 <= Len(r) /\ (n - 1) + 1 = n
    BY <1>1
  <1>6. P(n - 1)
    <2> HIDE DEF P
    <2> QED
      BY <1>4, <1>5
  <1> QED
    BY <1>5, <1>6

(* For every record of any characters, the bytes that prot_put puts end    *)
(* the record once, at their last one, by the count of escapes of          *)
(* buf_scan_end_record, and buf_get_fields decodes those before it as the  *)
(* fields of the record, up to the number that can be held.                *)
THEOREM CodecRoundTrip ==
    ASSUME NEW r \in Records
    PROVE  LET n == Len(Encode(r))
           IN  /\ Encode(r) \in Seq(Chars) /\ n \in Nat \ {0}
               /\ EndsIn(Encode(r), n) /\ \A i \in 1..n - 1 : ~EndsIn(Encode(r), i)
               /\ buf_get_fields(SubSeq(Encode(r), 1, n - 1)) = FirstFields(r)
  <1> DEFINE k == Len(r)
             w == Put(r, k)
             f == SubSeq(r, 1, k - 1)
  <1>1. r \in Seq(Seq(Chars)) /\ k \in Nat \ {0} /\ k \in 1..Len(r) /\ k \in 0..Len(r)
    BY PieceFacts
  <1>2. Clean(w, f, r[k])
    BY <1>1, RecordDecoded
  <1>3. w \in Seq(Chars) /\ Quiet(w) /\ Dec(w) = State(f, r[k], FALSE) /\ RS \in Chars
    BY <1>2 DEF Clean, Chars, Special
  <1>4. Encode(r) = Append(w, RS)
    <2>1. Encode(r) = w \o <<RS>>
      BY <1>1, PutStep, PieceFacts
    <2> HIDE DEF w
    <2> QED
      BY <1>3, <2>1
  <1>5. r = Append(f, r[k])
    <2>1. k - 1 \in 0..Len(r) - 1 /\ (k - 1) + 1 = k /\ SubSeq(r, 1, k) = r
      BY <1>1
    <2>2. SubSeq(r, 1, (k - 1) + 1) = Append(SubSeq(r, 1, k - 1), r[(k - 1) + 1])
      BY <1>1, <2>1, PrefixStep
    <2> QED
      BY <2>1, <2>2
  <1>6. w # <<>>
    <2> SUFFICES ASSUME w = <<>> PROVE FALSE
      OBVIOUS
    <2>1. Dec(w).fields = f /\ Dec(w).field = r[k]
      <3> HIDE DEF w, f
      <3> QED
        BY <1>3 DEF State
    <2>2. f = <<>> /\ r[k] = <<>>
      BY <2>1, DecEmpty DEF Start
    <2>3. r = << <<>> >>
      BY <1>5, <2>2
    <2> QED
      BY <2>3, ProtAssumption
  <1> HIDE DEF w, f
  <1>7. buf_get_fields(w) = FirstFields(r)
    <2>1. Dec(w).fields = f /\ Dec(w).field = r[k]
      BY <1>3 DEF State
    <2>2. buf_get_fields(w) = FirstFields(Append(Dec(w).fields, Dec(w).field))
      BY <1>6 DEF buf_get_fields, Dec, Start
    <2> QED
      BY <1>5, <2>1, <2>2
  <1> DEFINE e == Append(w, RS)
             n == Len(w) + 1
  <1>8. e \in Seq(Chars) /\ Len(e) = n /\ n \in Nat \ {0} /\ SubSeq(e, 1, n - 1) = w
    BY <1>3
  <1>9. EndsIn(e, n) /\ \A i \in 1..n - 1 : ~EndsIn(e, i)
    <2>1. ~Dec(w).escaping
      BY <1>3, StateEscapes
    <2>2. n - 1 = Len(w)
      BY <1>3
    <2> QED
      BY <1>3, <2>1, <2>2, EndsAppend DEF Quiet
  <1> HIDE DEF e, n
  <1> QED
    BY <1>4, <1>7, <1>8, <1>9 DEF e

-----------------------------------------------------------------------------
(* The records of a queue as bytes. *)

Codes(q) == [i \in DOMAIN q |-> Encode(q[i])]
Stream(q) == FlattenSeq(Codes(q))

LEMMA CodesFacts ==
    ASSUME NEW q \in Seq(Records)
    PROVE  /\ Codes(q) \in Seq(Seq(Chars)) /\ Len(Codes(q)) = Len(q)
           /\ \A i \in 1..Len(q) : Codes(q)[i] = Encode(q[i])
           /\ Stream(q) \in Seq(Chars)
  <1>1. \A i \in 1..Len(q) : q[i] \in Records /\ Encode(q[i]) \in Seq(Chars)
    BY CodecRoundTrip
  <1>2. DOMAIN q = 1..Len(q) /\ Len(q) \in Nat
    OBVIOUS
  <1>3. Codes(q) = [i \in 1..Len(q) |-> Encode(q[i])]
    BY <1>2 DEF Codes
  <1>4. /\ Codes(q) \in Seq(Seq(Chars)) /\ Len(Codes(q)) = Len(q)
        /\ \A i \in 1..Len(q) : Codes(q)[i] = Encode(q[i])
    BY <1>1, <1>2, <1>3
  <1> QED
    BY <1>4, FlattenType DEF Stream

LEMMA StreamEmpty == Stream(<<>>) = <<>>
  <1>1. Codes(<<>>) = <<>>
    BY DEF Codes
  <1> QED
    BY <1>1, FlattenEmpty DEF Stream

LEMMA StreamAppend ==
    ASSUME NEW q \in Seq(Records), NEW r \in Records
    PROVE  Stream(Append(q, r)) = Stream(q) \o Encode(r)
  <1> DEFINE p == Append(q, r)
             a == Codes(p)
             b == Append(Codes(q), Encode(r))
             S == Seq(Chars)
  <1>1. /\ p \in Seq(Records) /\ Len(p) = Len(q) + 1 /\ p[Len(q) + 1] = r
        /\ \A i \in 1..Len(q) : p[i] = q[i]
    OBVIOUS
  <1>2. Encode(r) \in S
    BY CodecRoundTrip
  <1> HIDE DEF p, S
  <1>3. a \in Seq(S) /\ Len(a) = Len(q) + 1 /\ \A i \in 1..Len(q) + 1 : a[i] = Encode(p[i])
    BY <1>1, CodesFacts DEF S
  <1>4. Codes(q) \in Seq(S) /\ Len(Codes(q)) = Len(q) /\ Len(q) \in Nat
        /\ \A i \in 1..Len(q) : Codes(q)[i] = Encode(q[i])
    BY CodesFacts DEF S
  <1>5. /\ b \in Seq(S) /\ Len(b) = Len(q) + 1 /\ b[Len(q) + 1] = Encode(r)
        /\ \A i \in 1..Len(q) : b[i] = Codes(q)[i]
    BY <1>2, <1>4
  <1> HIDE DEF a, b
  <1>6. \A i \in 1..Len(q) + 1 : i \in 1..Len(q) \/ i = Len(q) + 1
    OBVIOUS
  <1>7. \A i \in 1..Len(q) + 1 : a[i] = b[i]
    BY <1>1, <1>3, <1>4, <1>5, <1>6
  <1>8. a = b
    BY <1>3, <1>5, <1>7, SameSeq
  <1>9. FlattenSeq(b) = FlattenSeq(Codes(q)) \o Encode(r)
    BY <1>2, <1>4, FlattenAppend DEF b, S
  <1> QED
    BY <1>8, <1>9 DEF Stream, a, p

LEMMA StreamHead ==
    ASSUME NEW q \in Seq(Records), q # <<>>
    PROVE  /\ Stream(q) = Encode(q[1]) \o Stream(Tail(q))
           /\ q[1] \in Records /\ Tail(q) \in Seq(Records)
           /\ Len(Tail(q)) = Len(q) - 1 /\ \A i \in 1..Len(q) - 1 : Tail(q)[i] = q[i + 1]
  <1> DEFINE p == Tail(q)
             x == Encode(q[1])
             e == << x >>
             a == Codes(q)
             b == e \o Codes(p)
             S == Seq(Chars)
  <1>1. /\ p \in Seq(Records) /\ Len(p) = Len(q) - 1 /\ Len(q) \in Nat \ {0}
        /\ q[1] \in Records /\ \A i \in 1..Len(q) - 1 : p[i] = q[i + 1]
    OBVIOUS
  <1>2. x \in S
    BY <1>1, CodecRoundTrip
  <1> HIDE DEF p, S, x
  <1>3. e \in Seq(S) /\ Len(e) = 1 /\ e[1] = x
    BY <1>2
  <1>4. a \in Seq(S) /\ Len(a) = Len(q) /\ \A i \in 1..Len(q) : a[i] = Encode(q[i])
    BY CodesFacts DEF S
  <1>5. /\ Codes(p) \in Seq(S) /\ Len(Codes(p)) = Len(q) - 1
        /\ \A i \in 1..Len(q) - 1 : Codes(p)[i] = Encode(p[i])
    BY <1>1, CodesFacts DEF S
  <1> HIDE DEF e
  <1>6. /\ b \in Seq(S) /\ Len(b) = 1 + (Len(q) - 1) /\ b[1] = x
        /\ \A i \in 1..Len(q) - 1 : b[1 + i] = Codes(p)[i]
    <2>1. 1 \in 1..Len(e)
      BY <1>3
    <2>2. /\ b \in Seq(S) /\ Len(b) = Len(e) + Len(Codes(p))
          /\ b[1] = e[1] /\ \A i \in 1..Len(Codes(p)) : b[Len(e) + i] = Codes(p)[i]
      <3> DEFINE d == Codes(p)
      <3>1. e \in Seq(S) /\ d \in Seq(S)
        BY <1>3, <1>5
      <3> HIDE DEF d
      <3>2. /\ e \o d \in Seq(S) /\ Len(e \o d) = Len(e) + Len(d)
            /\ \A i \in 1..Len(e) : (e \o d)[i] = e[i]
            /\ \A i \in 1..Len(d) : (e \o d)[Len(e) + i] = d[i]
        BY <3>1, Concat
      <3> QED
        BY <2>1, <3>2 DEF d
    <2> HIDE DEF b
    <2> QED
      BY <1>3, <1>5, <2>2
  <1> HIDE DEF a, b
  <1>7. ASSUME NEW i \in 1..Len(q) PROVE a[i] = b[i]
    <2>1. CASE i = 1
      BY <1>1, <1>4, <1>6, <2>1 DEF x
    <2>2. CASE i # 1
      <3>1. i - 1 \in 1..Len(q) - 1 /\ 1 + (i - 1) = i /\ (i - 1) + 1 = i
        BY <1>1, <2>2
      <3> QED
        BY <1>1, <1>4, <1>5, <1>6, <3>1
    <2> QED
      BY <2>1, <2>2
  <1>8. a = b
    <2>1. Len(b) = Len(a)
      BY <1>1, <1>4, <1>6
    <2> QED
      BY <1>4, <1>6, <1>7, <2>1, SameSeq
  <1>9. FlattenSeq(b) = x \o FlattenSeq(Codes(p))
    BY <1>2, <1>5, FlattenCons DEF b, e, S
  <1> QED
    BY <1>1, <1>8, <1>9 DEF Stream, a, p, x

-----------------------------------------------------------------------------
(* The circular buffer. *)

LEMMA Sizes == N \in Nat \ {0} /\ WireSize \in Nat \ {0}
  BY ProtAssumption DEF N

LEMMA Modulo ==
    ASSUME NEW n \in Nat \ {0}, NEW a \in Nat
    PROVE  /\ a % n \in 0..n - 1
           /\ a < n => a % n = a
           /\ n <= a /\ a < 2 * n => a % n = a - n
  OBVIOUS

LEMMA HeldAt ==
    ASSUME NEW n \in Nat \ {0}, NEW at \in 0..n - 1, NEW i \in 1..n
    PROVE  /\ (at + i - 1) % n \in 0..n - 1
           /\ (((at + i - 1) % n) + n - at) % n = i - 1
  <1> DEFINE k == at + i - 1
             j == k % n
  <1>1. k \in Nat /\ k < 2 * n
    OBVIOUS
  <1>2. /\ j \in 0..n - 1 /\ (k < n => j = k)
        /\ (n <= k => j = k - n)
    <2> HIDE DEF k
    <2> QED
      BY <1>1, Modulo
  <1> HIDE DEF j
  <1>3. CASE k < n
    <2> DEFINE m == n + (i - 1)
    <2>1. j + n - at = m /\ m \in Nat /\ n <= m /\ m < 2 * n /\ m - n = i - 1
      BY <1>2, <1>3
    <2>2. m % n = i - 1
      <3> HIDE DEF m
      <3> QED
        BY <2>1, Modulo
    <2> HIDE DEF m
    <2> QED
      BY <1>2, <2>1, <2>2 DEF j
  <1>4. CASE n <= k
    <2> DEFINE m == i - 1
    <2>1. j + n - at = m /\ m \in Nat /\ m < n
      BY <1>2, <1>4
    <2>2. m % n = m
      <3> HIDE DEF m
      <3> QED
        BY <2>1, Modulo
    <2> HIDE DEF m
    <2>3. (j + n - at) % n = m
      BY <2>1, <2>2
    <2> QED
      BY <1>2, <2>3 DEF j, m
  <1>5. k < n \/ n <= k
    BY <1>1
  <1> QED
    BY <1>3, <1>4, <1>5

(* The bytes are found again from where they were put. *)
LEMMA Held ==
    ASSUME NEW at \in 0..N - 1, NEW bytes \in Seq(Chars), Len(bytes) <= N
    PROVE  /\ Holding(at, bytes) \in [0..N - 1 -> Chars \cup {Dead}]
           /\ [i \in 1..Len(bytes) |-> Holding(at, bytes)[(at + i - 1) % N]] = bytes
  <1> DEFINE h == Holding(at, bytes)
             offset(i) == (i + N - at) % N
  <1>1. N \in Nat \ {0} /\ Len(bytes) \in Nat
    BY Sizes
  <1>2. h = [i \in 0..N - 1 |-> IF offset(i) < Len(bytes) THEN bytes[offset(i) + 1] ELSE Dead]
    BY DEF Holding
  <1>3. ASSUME NEW i \in 0..N - 1 PROVE offset(i) \in 0..N - 1
    <2>1. i + N - at \in Nat
      BY <1>1
    <2> QED
      BY <1>1, <2>1, Modulo
  <1> HIDE DEF offset
  <1>4. h \in [0..N - 1 -> Chars \cup {Dead}]
    <2>1. ASSUME NEW i \in 0..N - 1
          PROVE  (IF offset(i) < Len(bytes) THEN bytes[offset(i) + 1] ELSE Dead) \in Chars \cup {Dead}
      <3>1. CASE offset(i) < Len(bytes)
        <4>1. offset(i) + 1 \in 1..Len(bytes)
          BY <1>1, <1>3, <3>1
        <4> QED
          BY <3>1, <4>1
      <3>2. CASE ~(offset(i) < Len(bytes))
        BY <3>2
      <3> QED
        BY <3>1, <3>2
    <2> QED
      BY <1>2, <2>1
  <1>5. ASSUME NEW i \in 1..Len(bytes) PROVE h[(at + i - 1) % N] = bytes[i]
    <2> DEFINE j == (at + i - 1) % N
    <2>1. j \in 0..N - 1 /\ (j + N - at) % N = i - 1
      <3>1. i \in 1..N
        BY <1>1
      <3> HIDE DEF N
      <3> QED
        BY <1>1, <3>1, HeldAt
    <2> HIDE DEF j
    <2>2. offset(j) = i - 1
      BY <2>1 DEF offset
    <2>3. h[j] = IF offset(j) < Len(bytes) THEN bytes[offset(j) + 1] ELSE Dead
      BY <1>2, <2>1
    <2>4. i - 1 < Len(bytes) /\ (i - 1) + 1 = i
      OBVIOUS
    <2>5. h[j] = bytes[i]
      BY <2>2, <2>3, <2>4
    <2> QED
      BY <2>5 DEF j
  <1> DEFINE o(i) == h[(at + i - 1) % N]
  <1>6. [i \in 1..Len(bytes) |-> o(i)] = bytes
    <2>1. \A i \in 1..Len(bytes) : o(i) = bytes[i]
      BY <1>5
    <2>2. bytes = [i \in 1..Len(bytes) |-> bytes[i]]
      OBVIOUS
    <2> HIDE DEF o
    <2> QED
      BY <2>1, <2>2
  <1> QED
    BY <1>4, <1>6

-----------------------------------------------------------------------------
(* The inductive invariant.  All the bytes of the output buffer are of     *)
(* whole records: what a cancelled record put is taken back in the same    *)
(* step.                                                                   *)
Buffered ==
    /\ content \in [0..N - 1 -> Chars \cup {Dead}]
    /\ pos \in 0..N - 1 /\ count \in 0..N /\ wrokcnt = count
    /\ OutBytes \in Seq(Chars)

InTransit ==
    /\ wire \in Seq(Chars) /\ Len(wire) <= WireSize
    /\ inbuf \in Seq(Chars) /\ Len(inbuf) <= N /\ inpos \in 0..Len(inbuf)

(* A record is only accepted when its bytes fit the buffer. *)
Accepted ==
    /\ sent \in Seq(Records) /\ \A i \in 1..Len(sent) : Len(Encode(sent[i])) <= N
    /\ task.pc = "retry" => task.record \in Records

(* Before inpos no record ends, or the first one ends at it. *)
Scanned ==
    /\ fields = NoFields => \A i \in 1..inpos : ~EndsRecord(i)
    /\ fields # NoFields =>
          /\ sent # <<>> /\ inpos = Len(Encode(sent[1]))
          /\ fields = << FirstFields(sent[1]) >>

IInv == Buffered /\ InTransit /\ Accepted /\ StreamIntact /\ Scanned

LEMMA OutLength ==
    ASSUME Buffered
    PROVE  OutBytes \in Seq(Chars) /\ Len(OutBytes) = count /\ count \in Nat /\ count <= N
  <1>1. count \in Nat /\ count <= N /\ OutBytes \in Seq(Chars)
    BY Sizes DEF Buffered
  <1> QED
    BY <1>1 DEF OutBytes

LEMMA OutHeld ==
    ASSUME NEW at \in 0..N - 1, NEW bytes \in Seq(Chars), Len(bytes) <= N,
           pos' = at, content' = Holding(at, bytes), count' = Len(bytes), wrokcnt' = count'
    PROVE  Buffered' /\ OutBytes' = bytes
  <1>1. /\ Holding(at, bytes) \in [0..N - 1 -> Chars \cup {Dead}]
        /\ [i \in 1..Len(bytes) |-> Holding(at, bytes)[(at + i - 1) % N]] = bytes
    BY Held
  <1>2. OutBytes' = [i \in 1..Len(bytes) |-> Holding(at, bytes)[(at + i - 1) % N]]
    BY Zenon DEF OutBytes
  <1>3. OutBytes' = bytes
    BY <1>1, <1>2
  <1>4. Len(bytes) \in 0..N
    BY Sizes
  <1> QED
    BY <1>1, <1>3, <1>4 DEF Buffered

(* A record that is put is accepted whole, or leaves nothing. *)
PutWhole(record) ==
    \/ /\ sent' = Append(sent, record) /\ Len(Encode(record)) <= N
       /\ OutBytes' = OutBytes \o Encode(record)
    \/ sent' = sent /\ OutBytes' = OutBytes

LEMMA PutType ==
    ASSUME NEW r \in Records, NEW n \in 0..Len(r) + 1
    PROVE  Encoded[r][n] = Put(r, n) /\ Put(r, n) \in Seq(Chars)
  <1>1. Encoded[r][n] = Put(r, n)
    BY DEF Encoded, Put
  <1>2. Len(r) \in Nat
    BY PieceFacts
  <1>3. CASE n = Len(r) + 1
    <2>1. 0 \in 0..Len(r)
      BY <1>2
    <2>2. Put(r, Len(r) + 1) = Encode(r)
      BY <2>1, PutStep
    <2> QED
      BY <1>1, <1>3, <2>2, CodecRoundTrip
  <1>4. CASE n # Len(r) + 1
    <2>1. n \in 0..Len(r)
      BY <1>2, <1>4
    <2> QED
      BY <1>1, <2>1, PutStep
  <1> QED
    BY <1>3, <1>4

LEMMA PutEffect ==
    ASSUME Buffered, NEW record \in Records, NEW kept \in BOOLEAN, prot_put(record, kept)
    PROVE  Buffered' /\ PutWhole(record)
  <1> DEFINE pieces == Encoded[record]
  <1>1. DOMAIN pieces = 0..Len(record) + 1 /\ Len(record) \in Nat
    BY PieceFacts DEF Encoded
  <1>2. PICK put \in 0..Len(record) + 1 :
           /\ count + Len(pieces[put]) <= N
           /\ kept = (put = Len(record) + 1)
           /\ \/ /\ kept
                 /\ content' = Holding(pos, OutBytes \o pieces[put])
                 /\ count' = count + Len(pieces[put]) /\ wrokcnt' = count'
                 /\ sent' = Append(sent, record)
              \/ ~kept /\ prot_put_cancel(OutBytes \o pieces[put]) /\ sent' = sent
    <2> HIDE DEF pieces
    <2> QED
      BY <1>1 DEF prot_put, pieces
  <1>3. pos' = pos
    BY DEF prot_put
  <1> DEFINE p == pieces[put]
             bytes == OutBytes \o p
  <1>4. p = Put(record, put) /\ p \in Seq(Chars)
    BY PutType
  <1>5. OutBytes \in Seq(Chars) /\ Len(OutBytes) = count /\ count \in Nat /\ count <= N
    BY OutLength
  <1> HIDE DEF p
  <1>6. bytes \in Seq(Chars) /\ Len(bytes) = count + Len(p) /\ SubSeq(bytes, 1, count) = OutBytes
    <2> DEFINE o == OutBytes
               c == SubSeq(bytes, 1, count)
    <2>1. o \in Seq(Chars) /\ Len(o) = count
      BY <1>5
    <2> HIDE DEF o
    <2>2. /\ o \o p \in Seq(Chars) /\ Len(o \o p) = Len(o) + Len(p)
          /\ \A i \in 1..Len(o) : (o \o p)[i] = o[i]
      BY <1>4, <2>1, Concat
    <2>3. bytes \in Seq(Chars) /\ Len(bytes) = count + Len(p) /\ \A i \in 1..count : bytes[i] = o[i]
      BY <2>1, <2>2 DEF o
    <2>4. count \in 0..Len(bytes)
      BY <1>4, <1>5, <2>3
    <2> HIDE DEF bytes
    <2>5. c \in Seq(Chars) /\ Len(c) = count /\ \A i \in 1..count : c[i] = bytes[i]
      BY <2>3, <2>4, Prefix
    <2> HIDE DEF c
    <2>6. c = o
      BY <2>1, <2>3, <2>5, SameSeq
    <2> QED
      BY <2>3, <2>6 DEF c, o
  <1> HIDE DEF bytes
  <1>7. pos \in 0..N - 1 /\ wrokcnt = count
    BY DEF Buffered
  <1>8. CASE kept
    <2>1. /\ content' = Holding(pos, bytes) /\ count' = Len(bytes) /\ wrokcnt' = count'
          /\ sent' = Append(sent, record) /\ Len(bytes) <= N /\ put = Len(record) + 1
      BY <1>2, <1>6, <1>8 DEF bytes, p
    <2>2. Buffered' /\ OutBytes' = bytes
      BY <1>3, <1>6, <1>7, <2>1, OutHeld
    <2>3. p = Encode(record)
      <3>1. 0 \in 0..Len(record)
        BY <1>1
      <3> QED
        BY <1>4, <2>1, <3>1, PutStep
    <2>4. Len(Encode(record)) <= N
      <3>1. Len(p) \in Nat /\ N \in Nat
        BY <1>4, Sizes
      <3> QED
        BY <1>5, <1>6, <2>1, <2>3, <3>1
    <2> QED
      BY <2>1, <2>2, <2>3, <2>4 DEF PutWhole, bytes
  <1>9. CASE ~kept
    <2>1. prot_put_cancel(bytes) /\ sent' = sent
      BY <1>2, <1>9 DEF bytes, p
    <2>2. count' = Len(OutBytes) /\ content' = Holding(pos, OutBytes) /\ wrokcnt' = count'
      BY <1>5, <1>6, <1>7, <2>1 DEF prot_put_cancel
    <2> DEFINE o == OutBytes
    <2>3. o \in Seq(Chars) /\ Len(o) <= N
      BY <1>5
    <2>4. count' = Len(o) /\ content' = Holding(pos, o)
      BY <2>2
    <2> HIDE DEF o
    <2>5. Buffered' /\ OutBytes' = o
      BY <1>3, <1>7, <2>2, <2>3, <2>4, OutHeld
    <2> QED
      BY <2>1, <2>5 DEF PutWhole, o
  <1> QED
    BY <1>8, <1>9

(* Bytes that are written leave the buffer at its front. *)
LEMMA WriteEffect ==
    ASSUME Buffered, NEW k \in 1..wrokcnt, prot_write(k)
    PROVE  /\ Buffered' /\ SubSeq(OutBytes, 1, k) \in Seq(Chars)
           /\ Len(SubSeq(OutBytes, 1, k)) = k
           /\ OutBytes = SubSeq(OutBytes, 1, k) \o OutBytes'
           /\ wire' = wire \o SubSeq(OutBytes, 1, k)
  <1> DEFINE o == OutBytes
             a == SubSeq(o, 1, k)
             b == SubSeq(o, k + 1, count)
             at == (pos + k) % N
  <1>1. o \in Seq(Chars) /\ Len(o) = count /\ count \in Nat /\ count <= N
    BY OutLength
  <1>2. /\ wire' = wire \o a /\ count' = count - k /\ pos' = at
        /\ content' = Holding(at, b) /\ wrokcnt' = wrokcnt - k
    BY DEF prot_write, buf_write_length
  <1>3. k \in 0..Len(o) /\ wrokcnt = count /\ pos \in Nat /\ N \in Nat \ {0}
    BY <1>1, Sizes DEF Buffered
  <1>4. at \in 0..N - 1
    <2> DEFINE j == pos + k
    <2>1. j \in Nat
      BY <1>3
    <2> HIDE DEF j
    <2>2. j % N \in 0..N - 1
      BY <1>3, <2>1, Modulo
    <2> QED
      BY <2>2 DEF j
  <1> HIDE DEF o, at
  <1>5. a \in Seq(Chars) /\ Len(a) = k /\ b \in Seq(Chars) /\ Len(b) = count - k /\ o = a \o b
    BY <1>1, <1>3, Split
  <1>6. b \in Seq(Chars) /\ Len(b) = count - k
    BY <1>5
  <1> HIDE DEF a, b
  <1>7. Buffered' /\ OutBytes' = b
    <2>1. Len(b) <= N /\ count' = Len(b) /\ wrokcnt' = count'
      BY <1>1, <1>2, <1>3, <1>6
    <2> QED
      BY <1>2, <1>4, <1>6, <2>1, OutHeld
  <1> QED
    BY <1>2, <1>5, <1>7 DEF o, a

-----------------------------------------------------------------------------
(* The receiver finds the end of the first record in flight. *)

LEMMA EndsAre == \A i : EndsRecord(i) <=> EndsIn(inbuf, i)
  BY DEF EndsRecord, Escapes, EndsIn, EscIn

(* What is received of the stream, when the first record is all there. *)
LEMMA HeadReceived ==
    ASSUME NEW a \in Seq(Chars), NEW b \in Seq(Chars), NEW x \in Seq(Chars),
           NEW r \in Records, NEW s, IsCat(s, a, b), IsCat(s, Encode(r), x)
    PROVE  LET n == Len(Encode(r))
           IN  /\ \A i \in 1..Len(a) : i < n => ~EndsIn(a, i)
               /\ n <= Len(a) =>
                     /\ n \in 1..Len(a) /\ EndsIn(a, n)
                     /\ buf_get_fields(SubSeq(a, 1, n - 1)) = FirstFields(r)
                     /\ SubSeq(a, n + 1, Len(a)) \o b = x
  <1> DEFINE e == Encode(r)
             n == Len(e)
  <1>1. /\ e \in Seq(Chars) /\ n \in Nat \ {0}
        /\ EndsIn(e, n) /\ \A i \in 1..n - 1 : ~EndsIn(e, i)
        /\ buf_get_fields(SubSeq(e, 1, n - 1)) = FirstFields(r)
    BY CodecRoundTrip
  <1>2. IsCat(s, a, b) /\ IsCat(s, e, x)
    OBVIOUS
  <1> HIDE DEF e
  <1>3. /\ s \in Seq(Chars) /\ Len(s) = Len(a) + Len(b)
        /\ \A i \in 1..Len(a) : s[i] = a[i]
        /\ \A i \in 1..Len(b) : s[Len(a) + i] = b[i]
    BY <1>2, Joined
  <1>4. /\ Len(s) = Len(e) + Len(x)
        /\ \A i \in 1..Len(e) : s[i] = e[i]
        /\ \A i \in 1..Len(x) : s[Len(e) + i] = x[i]
    <2>1. e \in Seq(Chars)
      BY <1>1
    <2> QED
      BY <1>2, <2>1, Joined
  <1>5. Len(a) \in Nat /\ Len(b) \in Nat /\ Len(x) \in Nat
    OBVIOUS
  <1>6. ASSUME NEW i \in 1..Len(a), i <= n PROVE EndsIn(a, i) <=> EndsIn(e, i)
    <2>1. i \in Nat \ {0} /\ \A j \in 1..i : j \in 1..Len(a) /\ j \in 1..n
      BY <1>1, <1>5, <1>6
    <2>2. Agree(a, e, i)
      BY <1>3, <1>4, <2>1 DEF Agree
    <2> QED
      BY <2>1, <2>2, EndsSame
  <1>7. ASSUME NEW i \in 1..Len(a), i < n PROVE ~EndsIn(a, i)
    <2>1. i \in 1..n - 1 /\ i <= n
      BY <1>1, <1>7
    <2> QED
      BY <1>1, <1>6, <2>1
  <1>8. ASSUME n <= Len(a)
        PROVE  /\ n \in 1..Len(a) /\ EndsIn(a, n)
               /\ buf_get_fields(SubSeq(a, 1, n - 1)) = FirstFields(r)
               /\ SubSeq(a, n + 1, Len(a)) \o b = x
    <2>1. n \in 1..Len(a) /\ n <= n /\ n - 1 \in 0..Len(a) /\ n - 1 \in 0..n
      BY <1>1, <1>5, <1>8
    <2>2. EndsIn(a, n)
      BY <1>1, <1>6, <2>1
    <2>3. SubSeq(a, 1, n - 1) = SubSeq(e, 1, n - 1)
      <3> DEFINE m == n - 1
                 p == SubSeq(a, 1, m)
                 q == SubSeq(e, 1, m)
      <3>1. m \in 0..Len(a) /\ m \in 0..Len(e) /\ \A i \in 1..m : i \in 1..Len(a) /\ i \in 1..Len(e)
        BY <1>1, <1>5, <1>8, <2>1
      <3> HIDE DEF m
      <3>2. p \in Seq(Chars) /\ Len(p) = m /\ \A i \in 1..m : p[i] = a[i]
        BY <3>1, Prefix
      <3>3. q \in Seq(Chars) /\ Len(q) = m /\ \A i \in 1..m : q[i] = e[i]
        BY <1>1, <3>1, Prefix
      <3> HIDE DEF p, q
      <3>4. \A i \in 1..m : p[i] = q[i]
        BY <1>3, <1>4, <3>1, <3>2, <3>3
      <3>5. p = q
        BY <3>2, <3>3, <3>4, SameSeq
      <3> QED
        BY <3>5 DEF p, q, m
    <2>4. SubSeq(a, n + 1, Len(a)) \o b = x
      <3> DEFINE t == SubSeq(a, n + 1, Len(a))
                 c == t \o b
      <3>1. t \in Seq(Chars) /\ Len(t) = Len(a) - n /\ \A i \in 1..Len(a) - n : t[i] = a[n + i]
        <4>1. n \in 0..Len(a)
          BY <2>1
        <4> HIDE DEF n
        <4> QED
          BY <4>1, Suffix
      <3> HIDE DEF t
      <3>0. IsCat(c, t, b) /\ t \in Seq(Chars)
        BY <3>1 DEF IsCat
      <3> HIDE DEF c
      <3>2. /\ c \in Seq(Chars) /\ Len(c) = Len(t) + Len(b)
            /\ \A i \in 1..Len(t) : c[i] = t[i]
            /\ \A i \in 1..Len(b) : c[Len(t) + i] = b[i]
        BY <3>0, Joined
      <3>3. Len(c) = Len(x)
        <4>1. /\ Len(c) = (Len(a) - n) + Len(b) /\ Len(a) + Len(b) = n + Len(x)
              /\ n \in Nat
          BY <1>1, <1>3, <1>4, <3>1, <3>2
        <4> HIDE DEF n
        <4> QED
          BY <1>5, <4>1
      <3>4. ASSUME NEW i \in 1..Len(x) PROVE c[i] = x[i]
        <4>1. x[i] = s[n + i]
          BY <1>4
        <4>2. CASE i <= Len(t)
          <5>1. i \in 1..Len(t) /\ n + i \in 1..Len(a)
            BY <1>1, <1>5, <1>8, <3>1, <4>2
          <5> QED
            BY <1>3, <3>1, <3>2, <4>1, <5>1
        <4>3. CASE ~(i <= Len(t))
          <5>1. /\ i - Len(t) \in 1..Len(b) /\ Len(t) + (i - Len(t)) = i
                /\ Len(a) + (i - Len(t)) = n + i
            BY <1>1, <1>5, <1>8, <3>1, <3>2, <3>3, <4>3
          <5> QED
            BY <1>3, <3>2, <4>1, <5>1
        <4> QED
          BY <4>2, <4>3
      <3>5. c = x
        BY <3>2, <3>3, <3>4, SameSeq
      <3> QED
        BY <3>5 DEF c, t
    <2> QED
      BY <1>1, <2>1, <2>2, <2>3, <2>4
  <1> QED
    BY <1>7, <1>8 DEF e

LEMMA IntactIs == StreamIntact <=> (inbuf \o wire) \o OutBytes = Stream(sent)
  BY DEF StreamIntact, Stream, Codes

(* The first record in flight begins the input buffer. *)
LEMMA FirstInFlight ==
    ASSUME IInv, Len(inbuf) # 0
    PROVE  /\ sent # <<>>
           /\ LET n == Len(Encode(sent[1]))
              IN  /\ n \in Nat /\ n <= N /\ \A i \in 1..Len(inbuf) : i < n => ~EndsRecord(i)
                  /\ n <= Len(inbuf) =>
                        /\ n \in 1..Len(inbuf) /\ EndsRecord(n)
                        /\ buf_get_fields(SubSeq(inbuf, 1, n - 1)) = FirstFields(sent[1])
                        /\ SubSeq(inbuf, n + 1, Len(inbuf)) \o (wire \o OutBytes)
                              = Stream(Tail(sent))
  <1> DEFINE o == OutBytes
             b == wire \o o
             s == inbuf \o b
  <1>1. inbuf \in Seq(Chars) /\ wire \in Seq(Chars) /\ o \in Seq(Chars)
    BY OutLength DEF IInv, InTransit
  <1>2. sent \in Seq(Records) /\ \A i \in 1..Len(sent) : Len(Encode(sent[i])) <= N
    BY DEF IInv, Accepted
  <1>3. (inbuf \o wire) \o o = Stream(sent)
    BY IntactIs DEF IInv
  <1> HIDE DEF o
  <1>4. s = Stream(sent)
    <2>1. (inbuf \o wire) \o o = inbuf \o (wire \o o)
      BY <1>1, Associative
    <2> QED
      BY <1>3, <2>1
  <1>5. b \in Seq(Chars)
    BY <1>1
  <1> HIDE DEF b
  <1>6. IsCat(s, inbuf, b) /\ s \in Seq(Chars) /\ Len(s) # 0
    <2>1. Len(s) = Len(inbuf) + Len(b) /\ s \in Seq(Chars) /\ Len(inbuf) \in Nat /\ Len(b) \in Nat
      BY <1>1, <1>5
    <2> HIDE DEF s
    <2>2. Len(s) # 0
      BY <2>1
    <2> QED
      BY <2>1, <2>2 DEF IsCat, s
  <1> HIDE DEF s
  <1>7. sent # <<>>
    <2> SUFFICES ASSUME sent = <<>> PROVE FALSE
      OBVIOUS
    <2>1. s = <<>>
      BY <1>4, StreamEmpty
    <2> QED
      BY <1>6, <2>1
  <1> DEFINE r == sent[1]
             x == Stream(Tail(sent))
             n == Len(Encode(r))
  <1>8. r \in Records /\ Tail(sent) \in Seq(Records) /\ Stream(sent) = Encode(r) \o x
    BY <1>2, <1>7, StreamHead
  <1>9. x \in Seq(Chars) /\ IsCat(s, Encode(r), x)
    BY <1>4, <1>8, CodesFacts DEF IsCat
  <1>10. n \in Nat /\ n <= N
    <2>1. 1 \in 1..Len(sent)
      BY <1>2, <1>7
    <2>2. Encode(r) \in Seq(Chars)
      BY <1>8, CodecRoundTrip
    <2> QED
      BY <1>2, <2>1, <2>2
  <1> HIDE DEF r, x
  <1>11. /\ \A i \in 1..Len(inbuf) : i < n => ~EndsIn(inbuf, i)
         /\ n <= Len(inbuf) =>
               /\ n \in 1..Len(inbuf) /\ EndsIn(inbuf, n)
               /\ buf_get_fields(SubSeq(inbuf, 1, n - 1)) = FirstFields(r)
               /\ SubSeq(inbuf, n + 1, Len(inbuf)) \o b = x
    BY <1>1, <1>5, <1>6, <1>8, <1>9, HeadReceived
  <1>12. /\ \A i \in 1..Len(inbuf) : i < n => ~EndsRecord(i)
         /\ n <= Len(inbuf) =>
               /\ n \in 1..Len(inbuf) /\ EndsRecord(n)
               /\ buf_get_fields(SubSeq(inbuf, 1, n - 1)) = FirstFields(r)
               /\ SubSeq(inbuf, n + 1, Len(inbuf)) \o b = x
    BY <1>11, EndsAre
  <1> QED
    BY <1>7, <1>10, <1>12 DEF r, x, b, o

(* When no complete record is found there is no end of record at all. *)
LEMMA NoEnds ==
    ASSUME IInv, fields = NoFields, ~Complete
    PROVE  \A i \in 1..Len(inbuf) : ~EndsRecord(i)
  <1> SUFFICES ASSUME NEW e \in 1..Len(inbuf), EndsRecord(e) PROVE FALSE
    OBVIOUS
  <1> DEFINE T == {i \in 1..Len(inbuf) : EndsRecord(i)}
  <1>1. T \in SUBSET Nat /\ T # {}
    OBVIOUS
  <1>2. PICK m \in T : \A k \in T : m <= k
    BY <1>1, LeastNat
  <1>3. m \in 1..Len(inbuf) /\ EndsRecord(m)
    BY <1>2
  <1>4. inbuf \in Seq(Chars) /\ inpos \in 0..Len(inbuf) /\ \A i \in 1..inpos : ~EndsRecord(i)
    BY DEF IInv, InTransit, Scanned
  <1>5. m \in inpos + 1..Len(inbuf)
    <2>1. m \notin 1..inpos
      BY <1>3, <1>4
    <2> QED
      BY <1>3, <1>4, <2>1
  <1>6. ASSUME NEW j \in inpos + 1..m - 1 PROVE ~EndsRecord(j)
    <2>1. j \in 1..Len(inbuf) /\ ~(m <= j)
      BY <1>3, <1>4
    <2> QED
      BY <1>2, <2>1
  <1>7. buf_scan_end_record(m) /\ m \in DOMAIN inbuf
    <2>1. DOMAIN inbuf = 1..Len(inbuf)
      BY <1>4
    <2> QED
      BY <1>3, <1>5, <1>6, <2>1 DEF buf_scan_end_record
  <1> QED
    BY <1>7 DEF Complete

-----------------------------------------------------------------------------
(* The invariant is inductive. *)

LEMMA InvInit == Init => IInv
  <1> SUFFICES ASSUME Init PROVE IInv
    OBVIOUS
  <1> USE DEF Init
  <1>1. OutBytes = <<>>
    BY DEF OutBytes
  <1>2. Buffered
    BY <1>1, Sizes DEF Buffered
  <1>3. InTransit
    BY Sizes DEF InTransit
  <1>4. Accepted
    <2>1. task.pc = "ready"
      BY DEF Idle
    <2> QED
      BY <2>1 DEF Accepted
  <1>5. StreamIntact
    <2>1. (inbuf \o wire) \o OutBytes = <<>>
      BY <1>1
    <2> QED
      BY <2>1, StreamEmpty, IntactIs
  <1>6. Scanned
    BY DEF Scanned, NoFields
  <1> QED
    BY <1>2, <1>3, <1>4, <1>5, <1>6 DEF IInv


(* The receiver's part does not change. *)
LEMMA ScannedKept ==
    ASSUME Scanned, UNCHANGED invars, Accepted,
           sent' = sent \/ \E r \in Records : sent' = Append(sent, r)
    PROVE  Scanned'
  <1>1. sent \in Seq(Records)
    BY DEF Accepted
  <1>2. sent # <<>> => sent' # <<>> /\ sent'[1] = sent[1]
    <2>1. ASSUME NEW r \in Records, sent' = Append(sent, r), sent # <<>>
          PROVE  sent' # <<>> /\ sent'[1] = sent[1]
      BY <1>1, <2>1
    <2> QED
      BY <2>1
  <1>3. \A i : EndsRecord(i)' <=> EndsRecord(i)
    BY DEF invars, EndsRecord, Escapes
  <1> QED
    BY <1>2, <1>3 DEF Scanned, invars

LEMMA PutKeeps ==
    ASSUME IInv, NEW record \in Records, NEW kept \in BOOLEAN, prot_put(record, kept),
           UNCHANGED <<invars, wire>>, task'.pc = "retry" => task'.record \in Records
    PROVE  IInv'
  <1>1. Buffered' /\ PutWhole(record)
    BY PutEffect DEF IInv
  <1>2. /\ sent \in Seq(Records) /\ \A i \in 1..Len(sent) : Len(Encode(sent[i])) <= N
        /\ inbuf \in Seq(Chars) /\ wire \in Seq(Chars) /\ OutBytes \in Seq(Chars)
        /\ Encode(record) \in Seq(Chars)
        /\ inbuf' = inbuf /\ wire' = wire
        /\ (inbuf \o wire) \o OutBytes = Stream(sent)
    BY IntactIs, CodecRoundTrip DEF IInv, Accepted, InTransit, Buffered, invars
  <1>3. InTransit'
    BY DEF IInv, InTransit, invars
  <1>4. sent' = sent \/ \E r \in Records : sent' = Append(sent, r)
    BY <1>1 DEF PutWhole
  <1>5. Scanned'
    BY <1>4, ScannedKept DEF IInv
  <1>6. Accepted' /\ (inbuf' \o wire') \o OutBytes' = Stream(sent')
    <2>1. CASE sent' = sent /\ OutBytes' = OutBytes
      BY <1>2, <2>1 DEF Accepted
    <2>2. CASE /\ sent' = Append(sent, record) /\ Len(Encode(record)) <= N
               /\ OutBytes' = OutBytes \o Encode(record)
      <3>1. /\ sent' \in Seq(Records) /\ Len(sent') = Len(sent) + 1 /\ sent'[Len(sent) + 1] = record
            /\ \A i \in 1..Len(sent) : sent'[i] = sent[i]
        BY <1>2, <2>2
      <3>2. \A i \in 1..Len(sent) + 1 : i \in 1..Len(sent) \/ i = Len(sent) + 1
        BY <1>2
      <3>3. \A i \in 1..Len(sent') : Len(Encode(sent'[i])) <= N
        BY <1>2, <2>2, <3>1, <3>2
      <3>4. Accepted'
        BY <3>1, <3>3 DEF Accepted
      <3>5. Stream(sent') = Stream(sent) \o Encode(record)
        BY <1>2, <2>2, StreamAppend
      <3> DEFINE a == inbuf \o wire
                 o == OutBytes
                 e == Encode(record)
      <3>6. a \in Seq(Chars) /\ o \in Seq(Chars) /\ e \in Seq(Chars)
        BY <1>2
      <3>7. OutBytes' = o \o e /\ a \o o = Stream(sent)
        BY <1>2, <2>2
      <3> HIDE DEF a, o, e
      <3>8. a \o (o \o e) = (a \o o) \o e
        BY <3>6, Associative
      <3>9. a \o OutBytes' = Stream(sent')
        BY <3>5, <3>7, <3>8 DEF e
      <3> QED
        BY <1>2, <3>4, <3>9 DEF a
    <2> QED
      BY <1>1, <2>1, <2>2 DEF PutWhole
  <1>7. StreamIntact'
    BY <1>6 DEF StreamIntact, Stream, Codes
  <1> QED
    BY <1>1, <1>3, <1>5, <1>6, <1>7 DEF IInv

LEMMA FlushKeeps ==
    ASSUME IInv, flushw
    PROVE  IInv'
  <1>1. PICK k \in 1..wrokcnt : Len(wire) + k <= WireSize /\ prot_write(k)
    BY DEF flushw
  <1>2. UNCHANGED <<invars, task, sent>>
    BY DEF flushw
  <1> DEFINE a == SubSeq(OutBytes, 1, k)
             o == OutBytes
             d == OutBytes'
  <1>3. /\ Buffered' /\ a \in Seq(Chars) /\ Len(a) = k /\ o = a \o d /\ wire' = wire \o a
    BY <1>1, WriteEffect DEF IInv
  <1>0. /\ inbuf \in Seq(Chars) /\ wire \in Seq(Chars) /\ a \in Seq(Chars) /\ d \in Seq(Chars)
        /\ Len(a) = k
    BY <1>3 DEF IInv, InTransit, Buffered
  <1>4. /\ inbuf' = inbuf
        /\ (inbuf \o wire) \o o = Stream(sent) /\ sent' = sent /\ task' = task
    BY <1>2, <1>3, IntactIs DEF IInv, InTransit, Buffered, invars
  <1> HIDE DEF a, o, d
  <1>5. InTransit'
    <2>1. wire \o a \in Seq(Chars) /\ Len(wire \o a) = Len(wire) + k
      BY <1>0
    <2>2. wire' \in Seq(Chars) /\ Len(wire') = Len(wire) + k
      BY <1>3, <2>1
    <2> QED
      BY <1>1, <1>2, <2>2 DEF IInv, InTransit, invars
  <1>6. Accepted'
    BY <1>4 DEF IInv, Accepted
  <1>7. Scanned'
    BY <1>2, ScannedKept DEF IInv
  <1>8. (inbuf' \o wire') \o d = Stream(sent')
    <2> DEFINE b == inbuf \o wire
    <2>1. b \in Seq(Chars)
      BY <1>0
    <2>2. inbuf \o (wire \o a) = b \o a
      BY <1>0, Associative
    <2>3. b \o o = Stream(sent)
      BY <1>4
    <2> HIDE DEF b
    <2>4. (b \o a) \o d = b \o (a \o d)
      BY <1>0, <2>1, Associative
    <2> QED
      BY <1>3, <1>4, <2>2, <2>3, <2>4
  <1>9. StreamIntact'
    BY <1>8 DEF StreamIntact, Stream, Codes, d
  <1> QED
    BY <1>3, <1>5, <1>6, <1>7, <1>9 DEF IInv


(* The output buffer does not change. *)
LEMMA OutKept ==
    ASSUME Buffered, UNCHANGED outvars
    PROVE  Buffered' /\ OutBytes' = OutBytes
  <1>1. content' = content /\ pos' = pos /\ count' = count /\ wrokcnt' = wrokcnt
    BY DEF outvars
  <1>2. OutBytes' = OutBytes
    BY <1>1 DEF OutBytes
  <1> QED
    BY <1>1, <1>2 DEF Buffered

LEMMA GetKeeps ==
    ASSUME IInv, prot_get
    PROVE  IInv'
  <1>1. PICK i \in DOMAIN inbuf :
           /\ buf_scan_end_record(i) /\ inpos' = i
           /\ fields' = << buf_get_fields(SubSeq(inbuf, 1, i - 1)) >>
    BY DEF prot_get
  <1>2. UNCHANGED <<outvars, inbuf, task, wire, sent>> /\ fields = NoFields
    BY DEF prot_get
  <1>3. inbuf \in Seq(Chars) /\ inpos \in 0..Len(inbuf) /\ Len(inbuf) \in Nat
    BY DEF IInv, InTransit
  <1>4. /\ i \in inpos + 1..Len(inbuf) /\ EndsRecord(i) /\ i \in 1..Len(inbuf)
        /\ \A j \in inpos + 1..i - 1 : ~EndsRecord(j)
    BY <1>1, <1>3 DEF buf_scan_end_record
  <1> DEFINE n == Len(Encode(sent[1]))
  <1>5. Len(inbuf) # 0
    BY <1>3, <1>4
  <1>6. /\ sent # <<>> /\ n \in Nat /\ \A j \in 1..Len(inbuf) : j < n => ~EndsRecord(j)
        /\ n <= Len(inbuf) =>
              /\ n \in 1..Len(inbuf) /\ EndsRecord(n)
              /\ buf_get_fields(SubSeq(inbuf, 1, n - 1)) = FirstFields(sent[1])
    BY <1>5, FirstInFlight
  <1> HIDE DEF n
  <1>7. i = n
    <2>1. n <= i
      BY <1>4, <1>6
    <2>2. n \in 1..Len(inbuf) /\ EndsRecord(n)
      BY <1>3, <1>4, <1>6, <2>1
    <2>3. n \notin 1..inpos
      BY <1>2, <2>2 DEF IInv, Scanned
    <2>4. n \notin inpos + 1..i - 1
      BY <1>4, <2>2
    <2> QED
      BY <1>3, <1>4, <1>6, <2>1, <2>2, <2>3, <2>4
  <1>8. fields' = << FirstFields(sent[1]) >> /\ inpos' = n
    BY <1>1, <1>3, <1>4, <1>6, <1>7
  <1>9. fields' # NoFields
    BY <1>8 DEF NoFields
  <1>10. Scanned'
    BY <1>2, <1>6, <1>8, <1>9 DEF Scanned, n
  <1>11. InTransit'
    <2>1. inpos' \in 0..Len(inbuf)
      BY <1>1, <1>3, <1>4
    <2> QED
      BY <1>2, <2>1 DEF IInv, InTransit
  <1>12. Accepted'
    BY <1>2 DEF IInv, Accepted
  <1>13. Buffered' /\ OutBytes' = OutBytes
    BY <1>2, OutKept DEF IInv
  <1>14. StreamIntact'
    BY <1>2, <1>13 DEF IInv, StreamIntact
  <1> QED
    BY <1>10, <1>11, <1>12, <1>13, <1>14 DEF IInv

LEMMA NextKeeps ==
    ASSUME IInv, prot_next
    PROVE  IInv'
  <1>1. /\ fields # NoFields /\ fields' = NoFields /\ sent' = Tail(sent)
        /\ inbuf' = SubSeq(inbuf, inpos + 1, Len(inbuf)) /\ inpos' = 0
        /\ UNCHANGED <<outvars, task, wire>>
    BY DEF prot_next, buf_crop
  <1>2. /\ inbuf \in Seq(Chars) /\ inpos \in 0..Len(inbuf) /\ Len(inbuf) \in Nat
        /\ Len(inbuf) <= N
    BY DEF IInv, InTransit
  <1>3. wire \in Seq(Chars) /\ OutBytes \in Seq(Chars)
    BY DEF IInv, InTransit, Buffered
  <1> DEFINE n == Len(Encode(sent[1]))
  <1>4. sent # <<>> /\ inpos = n
    BY <1>1 DEF IInv, Scanned
  <1>5. sent \in Seq(Records) /\ \A i \in 1..Len(sent) : Len(Encode(sent[i])) <= N
    BY DEF IInv, Accepted
  <1>6. /\ sent[1] \in Records /\ Tail(sent) \in Seq(Records) /\ Len(Tail(sent)) = Len(sent) - 1
        /\ \A i \in 1..Len(sent) - 1 : Tail(sent)[i] = sent[i + 1]
    BY <1>4, <1>5, StreamHead
  <1>7. n \in Nat \ {0}
    BY <1>6, CodecRoundTrip
  <1>8. Len(inbuf) # 0 /\ n <= Len(inbuf)
    BY <1>2, <1>4, <1>7
  <1>9. SubSeq(inbuf, n + 1, Len(inbuf)) \o (wire \o OutBytes) = Stream(Tail(sent))
    BY <1>8, FirstInFlight
  <1> HIDE DEF n
  <1>10. Buffered' /\ OutBytes' = OutBytes
    BY <1>1, OutKept DEF IInv
  <1> DEFINE a == SubSeq(inbuf, n + 1, Len(inbuf))
             o == OutBytes
  <1>11. a \in Seq(Chars) /\ Len(a) = Len(inbuf) - n
    BY <1>2, <1>4, Suffix
  <1>12. inbuf' = a /\ a \o (wire \o o) = Stream(sent') /\ wire' = wire /\ OutBytes' = o
    BY <1>1, <1>4, <1>9, <1>10
  <1>13. o \in Seq(Chars)
    BY <1>3
  <1> HIDE DEF a, o
  <1>14. (a \o wire) \o o = a \o (wire \o o)
    BY <1>3, <1>11, <1>13, Associative
  <1>15. (inbuf' \o wire') \o OutBytes' = Stream(sent')
    BY <1>12, <1>14
  <1>16. StreamIntact'
    BY <1>15 DEF StreamIntact, Stream, Codes
  <1>17. Scanned'
    <2>1. \A i \in 1..inpos' : FALSE
      BY <1>1
    <2> QED
      BY <1>1, <2>1 DEF Scanned
  <1>18. InTransit'
    <2>1. inbuf' \in Seq(Chars) /\ Len(inbuf') = Len(inbuf) - n
      BY <1>11, <1>12
    <2>2. Len(inbuf') <= N /\ inpos' \in 0..Len(inbuf')
      BY <1>1, <1>2, <1>7, <1>8, <2>1, Sizes
    <2> QED
      BY <1>1, <2>1, <2>2 DEF IInv, InTransit
  <1>19. Accepted'
    <2>1. \A i \in 1..Len(sent) - 1 : i + 1 \in 1..Len(sent)
      BY <1>5
    <2>2. \A i \in 1..Len(Tail(sent)) : Len(Encode(Tail(sent)[i])) <= N
      BY <1>5, <1>6, <2>1
    <2> QED
      BY <1>1, <1>6, <2>2 DEF IInv, Accepted
  <1> QED
    BY <1>10, <1>16, <1>17, <1>18, <1>19 DEF IInv

(* Bytes that go from the front of a sequence to the end of another. *)
Moves(u, v, k, c, b) == c = u \o SubSeq(v, 1, k) /\ b = SubSeq(v, k + 1, Len(v))

LEMMA Moved ==
    ASSUME NEW u \in Seq(Chars), NEW v \in Seq(Chars), NEW k \in 0..Len(v),
           NEW c, NEW b, Moves(u, v, k, c, b)
    PROVE  /\ c \o b = u \o v
           /\ b \in Seq(Chars) /\ Len(b) = Len(v) - k
           /\ c \in Seq(Chars) /\ Len(c) = Len(u) + k
           /\ \A i \in 1..Len(u) : c[i] = u[i]
  <1> DEFINE a == SubSeq(v, 1, k)
  <1>1. a \in Seq(Chars) /\ Len(a) = k /\ b \in Seq(Chars) /\ Len(b) = Len(v) - k /\ v = a \o b
    BY Split DEF Moves
  <1>2. a \in Seq(Chars) /\ b \in Seq(Chars)
    BY <1>1
  <1>3. IsCat(c, u, a) /\ c = u \o a
    BY DEF Moves, IsCat
  <1> HIDE DEF a
  <1>4. (u \o a) \o b = u \o (a \o b)
    BY <1>2, Associative
  <1>5. /\ c \in Seq(Chars) /\ Len(c) = Len(u) + Len(a)
        /\ \A i \in 1..Len(u) : c[i] = u[i]
    BY <1>2, <1>3, Joined
  <1>6. c \o b = u \o v
    BY <1>1, <1>3, <1>4
  <1> QED
    BY <1>1, <1>5, <1>6

LEMMA ReadKeeps ==
    ASSUME IInv, prot_read
    PROVE  IInv'
  <1>1. PICK k \in 1..Len(wire) :
           Len(inbuf) + k <= N /\ Moves(inbuf, wire, k, inbuf', wire')
    BY DEF prot_read, Moves
  <1>2. /\ fields = NoFields /\ ~Complete /\ inpos' = Len(inbuf)
        /\ UNCHANGED <<outvars, task, fields, sent>>
    BY DEF prot_read
  <1>3. inbuf \in Seq(Chars) /\ wire \in Seq(Chars)
    BY DEF IInv, InTransit
  <1>4. k \in 0..Len(wire) /\ k \in Nat /\ Len(wire) \in Nat /\ Len(inbuf) \in Nat
    BY <1>3
  <1> DEFINE b == wire'
             c == inbuf'
  <1>5. /\ c \o b = inbuf \o wire
        /\ b \in Seq(Chars) /\ Len(b) = Len(wire) - k
        /\ c \in Seq(Chars) /\ Len(c) = Len(inbuf) + k
        /\ \A i \in 1..Len(inbuf) : c[i] = inbuf[i]
    <2>1. Moves(inbuf, wire, k, c, b)
      BY <1>1
    <2>2. k \in 0..Len(wire)
      BY <1>4
    <2> HIDE DEF b, c
    <2>3. c \o b = inbuf \o wire
      BY <1>3, <2>1, <2>2, Moved
    <2>4. b \in Seq(Chars) /\ Len(b) = Len(wire) - k
      BY <1>3, <2>1, <2>2, Moved
    <2>5. c \in Seq(Chars) /\ Len(c) = Len(inbuf) + k
      BY <1>3, <2>1, <2>2, Moved
    <2>6. \A i \in 1..Len(inbuf) : c[i] = inbuf[i]
      BY <1>3, <2>1, <2>2, Moved
    <2> QED
      BY <2>3, <2>4, <2>5, <2>6
  <1>6. Buffered' /\ OutBytes' = OutBytes
    BY <1>2, OutKept DEF IInv
  <1>7. StreamIntact'
    <2>1. (inbuf \o wire) \o OutBytes = Stream(sent)
      BY IntactIs DEF IInv
    <2>2. (inbuf' \o wire') \o OutBytes' = Stream(sent')
      BY <1>2, <1>5, <1>6, <2>1
    <2> QED
      BY <2>2 DEF StreamIntact, Stream, Codes
  <1>8. InTransit'
    <2>1. Len(wire') <= WireSize
      BY <1>4, <1>5, Sizes DEF IInv, InTransit
    <2>2. Len(inbuf') <= N /\ inpos' \in 0..Len(inbuf')
      BY <1>1, <1>2, <1>4, <1>5
    <2> QED
      BY <1>5, <2>1, <2>2 DEF InTransit
  <1>9. Scanned'
    <2>1. \A i \in 1..Len(inbuf) : ~EndsIn(inbuf, i)
      BY <1>2, NoEnds, EndsAre
    <2>2. ASSUME NEW i \in 1..Len(inbuf) PROVE ~EndsIn(inbuf', i)
      <3>1. i \in Nat \ {0} /\ \A j \in 1..i : j \in 1..Len(inbuf)
        BY <1>4
      <3>2. Agree(inbuf, inbuf', i)
        BY <1>5, <3>1 DEF Agree
      <3> QED
        BY <2>1, <3>1, <3>2, EndsSame
    <2>3. \A i : EndsRecord(i)' <=> EndsIn(inbuf', i)
      BY DEF EndsRecord, Escapes, EndsIn, EscIn
    <2>4. \A i \in 1..inpos' : ~EndsRecord(i)'
      BY <1>2, <2>2, <2>3
    <2>5. fields' = NoFields
      BY <1>2
    <2> QED
      BY <2>4, <2>5 DEF Scanned
  <1>10. Accepted'
    BY <1>2 DEF IInv, Accepted
  <1> QED
    BY <1>6, <1>7, <1>8, <1>9, <1>10 DEF IInv

-----------------------------------------------------------------------------
LEMMA InvStep == IInv /\ [Next]_vars => IInv'
  <1> SUFFICES ASSUME IInv, [Next]_vars PROVE IInv'
    OBVIOUS
  <1>1. ASSUME NEW record \in Records, NEW last \in BOOLEAN, putx(record, last) PROVE IInv'
    <2>1. PICK kept \in BOOLEAN :
             /\ prot_put(record, kept)
             /\ task' = CASE ~kept -> [pc |-> "retry", record |-> record, last |-> last]
                          [] kept /\ last -> [Idle EXCEPT !.pc = "flush"]
                          [] kept /\ ~last -> Idle
      BY <1>1 DEF putx
    <2>2. UNCHANGED <<invars, wire>>
      BY <1>1 DEF putx
    <2>3. task'.pc = "retry" => task'.record \in Records
      BY <2>1 DEF Idle
    <2> QED
      BY <2>1, <2>2, <2>3, PutKeeps
  <1>2. CASE flushw
    BY <1>2, FlushKeeps
  <1>3. CASE flushed
    <2>1. UNCHANGED <<outvars, invars, wire, sent>> /\ task' = Idle
      BY <1>3 DEF flushed
    <2>2. Buffered' /\ OutBytes' = OutBytes
      BY <2>1, OutKept DEF IInv
    <2>3. Scanned'
      BY <2>1, ScannedKept DEF IInv
    <2>4. task'.pc = "ready"
      BY <2>1 DEF Idle
    <2>5. Accepted'
      BY <2>1, <2>4 DEF IInv, Accepted
    <2>6. InTransit' /\ StreamIntact'
      BY <2>1, <2>2 DEF IInv, InTransit, StreamIntact, invars
    <2> QED
      BY <2>2, <2>3, <2>5, <2>6 DEF IInv
  <1>4. CASE putx_again
    <2>1. PICK kept \in BOOLEAN : prot_put(task.record, kept)
      BY <1>4 DEF putx_again
    <2>2. UNCHANGED <<invars, wire>> /\ task.record \in Records
      BY <1>4 DEF putx_again, IInv, Accepted
    <2>3. task'.pc # "retry"
      BY <1>4 DEF putx_again, Idle
    <2> QED
      BY <2>1, <2>2, <2>3, PutKeeps
  <1>5. CASE prot_get
    BY <1>5, GetKeeps
  <1>6. CASE prot_next
    BY <1>6, NextKeeps
  <1>7. CASE prot_read
    BY <1>7, ReadKeeps
  <1>8. CASE UNCHANGED vars
    <2>1. UNCHANGED <<outvars, invars, wire, sent>> /\ task' = task
      BY <1>8 DEF vars
    <2>2. Buffered' /\ OutBytes' = OutBytes
      BY <2>1, OutKept DEF IInv
    <2>3. Scanned'
      BY <2>1, ScannedKept DEF IInv
    <2>4. Accepted'
      BY <2>1 DEF IInv, Accepted
    <2>5. InTransit' /\ StreamIntact'
      BY <2>1, <2>2 DEF IInv, InTransit, StreamIntact, invars
    <2> QED
      BY <2>2, <2>3, <2>4, <2>5 DEF IInv
  <1> QED
    BY <1>1, <1>2, <1>3, <1>4, <1>5, <1>6, <1>7, <1>8 DEF Next, Sender, Receiver

LEMMA InvAlways == Spec => []IInv
  BY InvInit, InvStep, PTL DEF Spec

(* The circular buffer keeps its bounds whatever is written of it and      *)
(* cancelled in it, and no byte of its live part is one that was not put.  *)
THEOREM ProtTypeOK == Spec => []TypeOK
  <1>1. IInv => TypeOK
    <2> SUFFICES ASSUME IInv PROVE TypeOK
      OBVIOUS
    <2>1. OutBytes \in Seq(Chars) /\ Len(OutBytes) = count /\ count \in Nat /\ count <= N
      BY OutLength DEF IInv
    <2>2. \A i \in 1..count : OutBytes[i] \in Chars
      BY <2>1
    <2>3. \A i \in 1..count : OutBytes[i] # Dead
      BY <2>2, ProtAssumption
    <2>4. wrokcnt \in 0..count
      BY <2>1 DEF IInv, Buffered
    <2> QED
      BY <2>3, <2>4 DEF IInv, Buffered, InTransit, TypeOK
  <1> QED
    BY <1>1, InvAlways, PTL

(* Whatever the sizes of the buffers and of the reads and writes, the two  *)
(* buffers and the socket hold the accepted records whole and in order.    *)
THEOREM ProtStreamIntact == Spec => []StreamIntact
  <1>1. IInv => StreamIntact
    BY DEF IInv
  <1> QED
    BY <1>1, InvAlways, PTL

(* Every record of every character is received as it was put: the escapes  *)
(* of buf_put_string are those that the scan of prot_get and               *)
(* buf_get_fields take back, and neither mistakes one for another.         *)
THEOREM ProtTransparent == Spec => []Transparent
  <1>1. IInv => Transparent
    <2> SUFFICES ASSUME IInv, fields # NoFields
                 PROVE  sent # <<>> /\ fields[1] = FirstFields(sent[1])
      BY DEF Transparent
    <2>1. sent # <<>> /\ fields = << FirstFields(sent[1]) >>
      BY DEF IInv, Scanned
    <2> QED
      BY <2>1
  <1> QED
    BY <1>1, InvAlways, PTL

(* A record that prot_put accepts always fits the input buffer of the      *)
(* other end, so prot_get finds its end before the buffer is full.         *)
THEOREM ProtNeverOversize == Spec => []NeverOversize
  <1>1. IInv => NeverOversize
    <2> SUFFICES ASSUME IInv, fields = NoFields, ~Complete PROVE Len(inbuf) < N
      BY DEF NeverOversize
    <2>1. \A i \in 1..Len(inbuf) : ~EndsRecord(i)
      BY NoEnds
    <2>2. Len(inbuf) \in Nat /\ Len(inbuf) <= N /\ N \in Nat \ {0}
      BY Sizes DEF IInv, InTransit
    <2> SUFFICES ASSUME Len(inbuf) = N PROVE FALSE
      BY <2>2
    <2> DEFINE n == Len(Encode(sent[1]))
    <2>3. n <= N /\ (n <= Len(inbuf) => n \in 1..Len(inbuf) /\ EndsRecord(n))
      BY <2>2, FirstInFlight
    <2> HIDE DEF n
    <2> QED
      BY <2>1, <2>3
  <1> QED
    BY <1>1, InvAlways, PTL

=============================================================================
