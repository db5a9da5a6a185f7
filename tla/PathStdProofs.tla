---------------------------- MODULE PathStdProofs ----------------------------
(***************************************************************************)
(* What path_std guarantees for any characters, any path and any size of   *)
(* the buffer.  Sequences and the folds over them come first, then the     *)
(* reference, then the loop.  As in ProtProofs, the inductions over        *)
(* strings are done on their least counterexample.                         *)
(***************************************************************************)
EXTENDS PathStd, TLAPS, WellFoundedInduction

-----------------------------------------------------------------------------
(* Naturals. *)

LEMMA LeastNat ==
    ASSUME NEW T \in SUBSET Nat, T # {}
    PROVE  \E m \in T : \A k \in T : m <= k
  <1> DEFINE R == {ss \in Nat \X Nat : ss[1] < ss[2]}
  <1>1. IsWellFoundedOn(R, Nat)
    BY NatLessThanWellFounded DEF OpToRel
  <1> HIDE DEF R
  <1>2. PICK m \in T : \A k \in T : ~(<<k, m>> \in R)
    BY <1>1, WFMin
  <1>3. \A k \in T : ~(k < m)
    BY <1>2 DEF R
  <1> QED
    BY <1>3

(* Induction over naturals, for a set of them: the good ones. *)
LEMMA NatSet ==
    ASSUME NEW G, 0 \in G, \A n \in Nat : n \in G => n + 1 \in G
    PROVE  Nat \subseteq G
  <1> DEFINE T == Nat \ G
  <1> SUFFICES ASSUME T # {} PROVE FALSE
    OBVIOUS
  <1>1. PICK m \in T : \A k \in T : m <= k
    BY LeastNat
  <1>2. m # 0 /\ m - 1 \in Nat
    BY <1>1
  <1>3. m - 1 \in G
    BY <1>1, <1>2
  <1>4. (m - 1) + 1 \in G /\ (m - 1) + 1 = m
    BY <1>2, <1>3
  <1> QED
    BY <1>1, <1>4

LEMMA MaxInterval ==
    ASSUME NEW k \in Nat
    PROVE  Max(1..k + 1) = k + 1 /\ (1..k + 1) \ {k + 1} = 1..k
  BY DEF Max

-----------------------------------------------------------------------------
(* Concatenation of the sequences of a sequence. *)

(* Concatenation, hidden from the provers where its content does not matter. *)
Cat(a, b) == a \o b

Flat(s, n, g) == g = [i \in 1..n |-> IF i = 1 THEN s[i] ELSE Cat(g[i - 1], s[i])]

LEMMA FlatAt ==
    ASSUME NEW s, NEW n \in Nat, NEW g, Flat(s, n, g)
    PROVE  /\ 1 <= n => g[1] = s[1]
           /\ \A i \in 1..n - 1 : g[i + 1] = Cat(g[i], s[i + 1])
  <1>1. ASSUME NEW i \in 1..n PROVE g[i] = IF i = 1 THEN s[i] ELSE Cat(g[i - 1], s[i])
    BY DEF Flat
  <1>2. ASSUME NEW i \in 1..n - 1 PROVE g[i + 1] = Cat(g[i], s[i + 1])
    <2>1. i + 1 \in 1..n /\ i + 1 # 1 /\ i + 1 - 1 = i
      OBVIOUS
    <2> QED
      BY <1>1, <2>1
  <1> QED
    BY <1>1, <1>2

LEMMA FlatExists ==
    ASSUME NEW s, NEW n \in Nat
    PROVE  \E g : Flat(s, n, g)
  <1> DEFINE G == {k \in Nat : \E g : Flat(s, k, g)}
  <1>1. 0 \in G
    <2> DEFINE g == [i \in 1..0 |-> s[i]]
    <2>1. Flat(s, 0, g)
      BY DEF Flat
    <2> QED
      BY <2>1
  <1>2. ASSUME NEW k \in Nat, k \in G PROVE k + 1 \in G
    <2>1. PICK g : Flat(s, k, g)
      BY <1>2
    <2> DEFINE last == IF k = 0 THEN s[k + 1] ELSE Cat(g[k], s[k + 1])
               h == [i \in 1..k + 1 |-> IF i = k + 1 THEN last ELSE g[i]]
    <2>2. ASSUME NEW i \in 1..k + 1
          PROVE  h[i] = IF i = 1 THEN s[i] ELSE Cat(h[i - 1], s[i])
      <3>1. CASE i = k + 1
        BY <3>1
      <3>2. CASE i # k + 1
        <4>1. i \in 1..k /\ h[i] = g[i] /\ (i # 1 => h[i - 1] = g[i - 1])
          BY <3>2
        <4>2. g[i] = IF i = 1 THEN s[i] ELSE Cat(g[i - 1], s[i])
          <5>1. i # 1 => i - 1 \in 1..k - 1 /\ (i - 1) + 1 = i
            BY <4>1
          <5>2. i = 1 => 1 <= k
            BY <4>1
          <5> QED
            BY <2>1, <5>1, <5>2, FlatAt
        <4> HIDE DEF h
        <4> QED
          BY <4>1, <4>2
      <3> QED
        BY <3>1, <3>2
    <2>3. h = [i \in 1..k + 1 |-> h[i]]
      OBVIOUS
    <2> HIDE DEF h
    <2>4. Flat(s, k + 1, h)
      BY <2>2, <2>3 DEF Flat
    <2> QED
      BY <2>4
  <1> HIDE DEF G
  <1>3. n \in G
    BY <1>1, <1>2, NatSet
  <1> QED
    BY <1>3 DEF G

(* Two that agree on a prefix. *)
Agree(s, t, n) == \A i \in 1..n : s[i] = t[i]

LEMMA FlatUnique ==
    ASSUME NEW s, NEW t, NEW n \in Nat, NEW g, NEW h,
           Flat(s, n, g), Flat(t, n + 1, h), Agree(s, t, n)
    PROVE  Agree(g, h, n)
  <1> DEFINE G == {j \in Nat : j \in 1..n => g[j] = h[j]}
  <1>1. 0 \in G
    OBVIOUS
  <1>2. ASSUME NEW j \in Nat, j \in G PROVE j + 1 \in G
    <2> SUFFICES ASSUME j + 1 \in 1..n PROVE g[j + 1] = h[j + 1]
      OBVIOUS
    <2>1. CASE j = 0
      <3>1. g[1] = s[1] /\ h[1] = t[1] /\ s[1] = t[1]
        BY <2>1, FlatAt DEF Agree
      <3> QED
        BY <2>1, <3>1
    <2>2. CASE j # 0
      <3>1. j \in 1..n - 1 /\ j \in 1..(n + 1) - 1 /\ j \in 1..n
        BY <2>2
      <3>2. g[j + 1] = Cat(g[j], s[j + 1]) /\ h[j + 1] = Cat(h[j], t[j + 1])
        BY <3>1, FlatAt
      <3> QED
        BY <1>2, <3>1, <3>2 DEF Agree
    <2> QED
      BY <2>1, <2>2
  <1> HIDE DEF G
  <1>3. Nat \subseteq G
    BY <1>1, <1>2, NatSet
  <1> QED
    BY <1>3 DEF G, Agree

LEMMA FlattenIs ==
    ASSUME NEW s, Len(s) \in Nat \ {0}
    PROVE  \E g : Flat(s, Len(s), g) /\ FlattenSeq(s) = g[Len(s)]
  <1> DEFINE g == CHOOSE f : Flat(s, Len(s), f)
  <1>1. Flat(s, Len(s), g)
    BY FlatExists
  <1>2. FlattenSeq(s) = g[Len(s)]
    BY DEF FlattenSeq, Flat, Cat
  <1> QED
    BY <1>1, <1>2

LEMMA FlattenEmpty == FlattenSeq(<<>>) = <<>>
  BY DEF FlattenSeq

LEMMA FlattenAppend ==
    ASSUME NEW T, NEW s \in Seq(Seq(T)), NEW x \in Seq(T)
    PROVE  FlattenSeq(Append(s, x)) = FlattenSeq(s) \o x
  <1> DEFINE t == Append(s, x)
             n == Len(s)
  <1>1. n \in Nat /\ Len(t) = n + 1 /\ t[n + 1] = x /\ \A i \in 1..n : t[i] = s[i]
    OBVIOUS
  <1> HIDE DEF t
  <1>2. PICK h : Flat(t, n + 1, h) /\ FlattenSeq(t) = h[n + 1]
    BY <1>1, FlattenIs
  <1>3. /\ n = 0 => h[n + 1] = x
        /\ n # 0 => h[n + 1] = Cat(h[n], x)
    <2> HIDE DEF n
    <2>1. n + 1 \in Nat /\ 1 <= n + 1 /\ n + 1 - 1 = n /\ (n # 0 => n \in 1..n)
      BY <1>1
    <2>2. h[1] = t[1] /\ \A i \in 1..n : h[i + 1] = Cat(h[i], t[i + 1])
      BY <1>2, <2>1, FlatAt
    <2> QED
      BY <1>1, <2>1, <2>2
  <1>4. CASE n = 0
    <2>1. s = <<>> /\ <<>> \o x = x
      BY <1>4
    <2> QED
      BY <1>2, <1>3, <1>4, <2>1, FlattenEmpty DEF t
  <1>5. CASE n # 0
    <2>1. PICK g : Flat(s, n, g) /\ FlattenSeq(s) = g[n]
      BY <1>1, <1>5, FlattenIs
    <2>2. g[n] = h[n]
      <3> HIDE DEF n
      <3>1. n \in Nat /\ Flat(t, n + 1, h) /\ Flat(s, n, g) /\ Agree(s, t, n)
        BY <1>1, <1>2, <2>1 DEF Agree
      <3>2. Agree(g, h, n)
        BY <3>1, FlatUnique
      <3> QED
        BY <1>1, <1>5, <3>2 DEF Agree
    <2>3. h[n + 1] = Cat(h[n], x)
      BY <1>1, <1>3, <1>5
    <2> QED
      BY <1>2, <2>1, <2>2, <2>3 DEF t, Cat
  <1> QED
    BY <1>4, <1>5

LEMMA SameSeq ==
    ASSUME NEW T, NEW a \in Seq(T), NEW b \in Seq(T), Len(a) = Len(b),
           \A i \in 1..Len(a) : a[i] = b[i]
    PROVE  a = b
  OBVIOUS

LEMMA Prefix ==
    ASSUME NEW T, NEW s \in Seq(T), NEW n \in 0..Len(s)
    PROVE  /\ SubSeq(s, 1, n) \in Seq(T) /\ Len(SubSeq(s, 1, n)) = n
           /\ \A i \in 1..n : SubSeq(s, 1, n)[i] = s[i]
  <1>1. CASE n = 0
    BY <1>1
  <1>2. CASE n # 0
    BY <1>2
  <1> QED
    BY <1>1, <1>2

LEMMA Suffix ==
    ASSUME NEW T, NEW s \in Seq(T), NEW k \in 0..Len(s)
    PROVE  LET t == SubSeq(s, k + 1, Len(s))
           IN  /\ t \in Seq(T) /\ Len(t) = Len(s) - k
               /\ \A i \in 1..Len(s) - k : t[i] = s[k + i]
  <1>1. CASE k = Len(s)
    BY <1>1
  <1>2. CASE k # Len(s)
    BY <1>2
  <1> QED
    BY <1>1, <1>2

LEMMA SeqFront ==
    ASSUME NEW T, NEW s \in Seq(T), s # <<>>
    PROVE  \E f \in Seq(T), x \in T :
              /\ Len(f) = Len(s) - 1 /\ s = Append(f, x)
              /\ x = s[Len(s)] /\ f = SubSeq(s, 1, Len(s) - 1)
  <1> DEFINE n == Len(s)
             f == SubSeq(s, 1, n - 1)
             t == Append(f, s[n])
  <1>1. n \in Nat \ {0}
    OBVIOUS
  <1>2. f \in Seq(T) /\ Len(f) = n - 1 /\ \A i \in 1..n - 1 : f[i] = s[i]
    <2>1. n - 1 \in 0..Len(s)
      BY <1>1
    <2> QED
      BY <2>1, Prefix
  <1>3. s[n] \in T
    BY <1>1
  <1>4. s = t
    <2> HIDE DEF f
    <2>1. t \in Seq(T) /\ Len(t) = n /\ t[n] = s[n] /\ \A i \in 1..n - 1 : t[i] = f[i]
      BY <1>1, <1>2, <1>3
    <2> HIDE DEF t
    <2>2. \A i \in 1..n : i \in 1..n - 1 \/ i = n
      BY <1>1
    <2>3. \A i \in 1..n : s[i] = t[i]
      BY <1>2, <2>1, <2>2
    <2> QED
      BY <2>1, <2>3, SameSeq
  <1> QED
    BY <1>2, <1>3, <1>4

(* One more character of a prefix. *)
LEMMA PrefixStep ==
    ASSUME NEW T, NEW u \in Seq(T), NEW n \in 0..Len(u) - 1
    PROVE  SubSeq(u, 1, n + 1) = Append(SubSeq(u, 1, n), u[n + 1]) /\ u[n + 1] \in T
  <1> DEFINE p == SubSeq(u, 1, n)
             q == SubSeq(u, 1, n + 1)
             t == Append(p, u[n + 1])
  <1>1. n \in 0..Len(u) /\ n + 1 \in 0..Len(u) /\ n \in Nat /\ u[n + 1] \in T
    OBVIOUS
  <1>2. p \in Seq(T) /\ Len(p) = n /\ \A i \in 1..n : p[i] = u[i]
    BY <1>1, Prefix
  <1>3. q \in Seq(T) /\ Len(q) = n + 1 /\ \A i \in 1..n + 1 : q[i] = u[i]
    BY <1>1, Prefix
  <1> HIDE DEF p, q
  <1>4. t \in Seq(T) /\ Len(t) = n + 1 /\ t[n + 1] = u[n + 1] /\ \A i \in 1..n : t[i] = p[i]
    BY <1>1, <1>2
  <1> HIDE DEF t
  <1>5. \A i \in 1..n + 1 : i \in 1..n \/ i = n + 1
    BY <1>1
  <1>6. \A i \in 1..n + 1 : q[i] = t[i]
    BY <1>2, <1>3, <1>4, <1>5
  <1>7. q = t
    BY <1>3, <1>4, <1>6, SameSeq
  <1> QED
    BY <1>1, <1>7 DEF p, q, t

LEMMA FlattenType ==
    ASSUME NEW T, NEW s \in Seq(Seq(T))
    PROVE  FlattenSeq(s) \in Seq(T)
  <1> DEFINE G == {n \in Nat : \A t \in Seq(Seq(T)) : Len(t) = n => FlattenSeq(t) \in Seq(T)}
  <1>1. 0 \in G
    <2>1. ASSUME NEW t \in Seq(Seq(T)), Len(t) = 0 PROVE FlattenSeq(t) \in Seq(T)
      <3>1. t = <<>> /\ <<>> \in Seq(T)
        BY <2>1
      <3> QED
        BY <3>1, FlattenEmpty
    <2> QED
      BY <2>1
  <1>2. ASSUME NEW n \in Nat, n \in G PROVE n + 1 \in G
    <2>1. ASSUME NEW t \in Seq(Seq(T)), Len(t) = n + 1 PROVE FlattenSeq(t) \in Seq(T)
      <3>1. t # <<>>
        BY <2>1
      <3>2. PICK f \in Seq(Seq(T)), x \in Seq(T) : Len(f) = n /\ t = Append(f, x)
        <4>1. Len(t) - 1 = n
          BY <2>1
        <4> QED
          BY <3>1, <4>1, SeqFront
      <3>3. FlattenSeq(f) \in Seq(T)
        BY <1>2, <3>2
      <3>4. FlattenSeq(t) = FlattenSeq(f) \o x
        BY <3>2, FlattenAppend
      <3> QED
        BY <3>2, <3>3, <3>4
    <2> QED
      BY <2>1
  <1> HIDE DEF G
  <1>3. Nat \subseteq G
    BY <1>1, <1>2, NatSet
  <1> QED
    BY <1>3 DEF G

LEMMA Concat ==
    ASSUME NEW T, NEW a \in Seq(T), NEW b \in Seq(T)
    PROVE  /\ a \o b \in Seq(T) /\ Len(a \o b) = Len(a) + Len(b)
           /\ \A i \in 1..Len(a) : (a \o b)[i] = a[i]
           /\ \A i \in 1..Len(b) : (a \o b)[Len(a) + i] = b[i]
  OBVIOUS

IsCat(s, a, b) == s = a \o b

LEMMA Joined ==
    ASSUME NEW T, NEW left \in Seq(T), NEW right \in Seq(T), NEW whole, IsCat(whole, left, right)
    PROVE  /\ whole \in Seq(T) /\ Len(whole) = Len(left) + Len(right)
           /\ Len(left) \in Nat /\ Len(right) \in Nat
           /\ \A i \in 1..Len(left) : whole[i] = left[i]
           /\ \A i \in 1..Len(right) : whole[Len(left) + i] = right[i]
  BY Concat DEF IsCat

LEMMA Split ==
    ASSUME NEW T, NEW s \in Seq(T), NEW k \in 0..Len(s)
    PROVE  LET a == SubSeq(s, 1, k)
               b == SubSeq(s, k + 1, Len(s))
           IN  /\ a \in Seq(T) /\ Len(a) = k /\ b \in Seq(T) /\ Len(b) = Len(s) - k
               /\ s = a \o b
  <1> DEFINE a == SubSeq(s, 1, k)
             b == SubSeq(s, k + 1, Len(s))
             c == a \o b
  <1>1. a \in Seq(T) /\ Len(a) = k /\ \A i \in 1..k : a[i] = s[i]
    BY Prefix
  <1>2. b \in Seq(T) /\ Len(b) = Len(s) - k /\ \A i \in 1..Len(s) - k : b[i] = s[k + i]
    BY Suffix
  <1>3. a \in Seq(T) /\ b \in Seq(T) /\ IsCat(c, a, b)
    BY <1>1, <1>2 DEF IsCat
  <1>4. k \in Nat /\ Len(s) \in Nat
    OBVIOUS
  <1> HIDE DEF a, b, c
  <1>5. /\ c \in Seq(T) /\ Len(c) = Len(a) + Len(b)
        /\ \A i \in 1..Len(a) : c[i] = a[i]
        /\ \A i \in 1..Len(b) : c[Len(a) + i] = b[i]
    BY <1>3, Joined
  <1>6. Len(c) = Len(s)
    BY <1>1, <1>2, <1>4, <1>5
  <1>7. ASSUME NEW i \in 1..Len(s) PROVE s[i] = c[i]
    <2>1. CASE i <= k
      <3>1. i \in 1..k
        BY <2>1
      <3> QED
        BY <1>1, <1>5, <3>1
    <2>2. CASE ~(i <= k)
      <3> DEFINE j == i - k
      <3>1. j \in 1..Len(s) - k /\ k + j = i
        BY <1>4, <2>2
      <3> HIDE DEF j
      <3>2. b[j] = s[k + j] /\ c[k + j] = b[j]
        BY <1>1, <1>2, <1>5, <3>1
      <3> QED
        BY <3>1, <3>2
    <2> QED
      BY <2>1, <2>2
  <1>8. s = c
    BY <1>5, <1>6, <1>7, SameSeq
  <1> QED
    BY <1>1, <1>2, <1>8 DEF a, b, c

LEMMA Associative ==
    ASSUME NEW T, NEW a \in Seq(T), NEW b \in Seq(T), NEW c \in Seq(T)
    PROVE  (a \o b) \o c = a \o (b \o c)
  OBVIOUS

-----------------------------------------------------------------------------
(* The reference, one character after the other. *)

Nowhere == [dir |-> <<>>, name |-> <<>>]

Iter(u, n, g) ==
    g = [s \in SUBSET (1..n) |->
            IF s = {} THEN Nowhere ELSE Read(g[s \ {Max(s)}], u[Max(s)])]

LEMMA IterAt ==
    ASSUME NEW u, NEW n \in Nat, NEW g, Iter(u, n, g)
    PROVE  /\ g[{}] = Nowhere
           /\ \A s \in SUBSET (1..n) : s # {} => g[s] = Read(g[s \ {Max(s)}], u[Max(s)])
           /\ \A k \in 0..n - 1 : g[1..k + 1] = Read(g[1..k], u[k + 1])
  <1>1. \A s \in SUBSET (1..n) :
           g[s] = IF s = {} THEN Nowhere ELSE Read(g[s \ {Max(s)}], u[Max(s)])
    BY DEF Iter
  <1>2. ASSUME NEW k \in 0..n - 1 PROVE g[1..k + 1] = Read(g[1..k], u[k + 1])
    <2> DEFINE s == 1..k + 1
    <2>1. s \in SUBSET (1..n) /\ s # {}
      OBVIOUS
    <2>2. Max(s) = k + 1 /\ s \ {k + 1} = 1..k
      <3>1. k \in Nat
        OBVIOUS
      <3> QED
        BY <3>1, MaxInterval
    <2>3. g[s] = Read(g[s \ {Max(s)}], u[Max(s)])
      <3> HIDE DEF s
      <3> QED
        BY <1>1, <2>1
    <2>4. g[s] = Read(g[1..k], u[k + 1])
      <3> HIDE DEF s
      <3> QED
        BY <2>2, <2>3
    <2> QED
      BY <2>4
  <1> QED
    BY <1>1, <1>2

LEMMA MaxTop ==
    ASSUME NEW k \in Nat, NEW s \in SUBSET (1..k + 1), k + 1 \in s
    PROVE  Max(s) = k + 1
  <1>1. \A y \in s : y \in Nat /\ k + 1 >= y
    OBVIOUS
  <1> DEFINE m == Max(s)
  <1>2. m \in s /\ \A y \in s : m >= y
    BY <1>1 DEF Max
  <1>3. m = k + 1
    <2> HIDE DEF m
    <2>1. m \in Nat /\ k + 1 >= m /\ m >= k + 1
      BY <1>1, <1>2
    <2> QED
      BY <2>1
  <1> QED
    BY <1>3

LEMMA IterExists ==
    ASSUME NEW u, NEW n \in Nat
    PROVE  \E g : Iter(u, n, g)
  <1> DEFINE G == {k \in Nat : \E g : Iter(u, k, g)}
  <1>1. 0 \in G
    <2> DEFINE g == [s \in SUBSET (1..0) |-> Nowhere]
    <2>1. \A s \in SUBSET (1..0) : s = {}
      OBVIOUS
    <2>2. Iter(u, 0, g)
      BY <2>1 DEF Iter
    <2> QED
      BY <2>2
  <1>2. ASSUME NEW k \in Nat, k \in G PROVE k + 1 \in G
    <2>1. PICK g : Iter(u, k, g)
      BY <1>2
    <2> DEFINE h == [s \in SUBSET (1..k + 1) |->
                        IF k + 1 \in s THEN Read(g[s \ {k + 1}], u[k + 1]) ELSE g[s]]
    <2>2. /\ \A s \in SUBSET (1..k + 1) :
                h[s] = IF k + 1 \in s THEN Read(g[s \ {k + 1}], u[k + 1]) ELSE g[s]
          /\ h = [s \in SUBSET (1..k + 1) |-> h[s]]
      OBVIOUS
    <2> HIDE DEF h
    <2>3. ASSUME NEW s \in SUBSET (1..k) PROVE h[s] = g[s]
      <3>1. s \in SUBSET (1..k + 1) /\ k + 1 \notin s
        OBVIOUS
      <3> QED
        BY <2>2, <3>1
    <2>4. ASSUME NEW s \in SUBSET (1..k + 1)
          PROVE  h[s] = IF s = {} THEN Nowhere ELSE Read(h[s \ {Max(s)}], u[Max(s)])
      <3>1. CASE k + 1 \in s
        <4>1. Max(s) = k + 1 /\ s \ {k + 1} \in SUBSET (1..k)
          BY <3>1, MaxTop
        <4>2. h[s] = Read(g[s \ {k + 1}], u[k + 1])
          BY <2>2, <3>1
        <4>3. h[s \ {k + 1}] = g[s \ {k + 1}]
          BY <2>3, <4>1
        <4> QED
          BY <3>1, <4>1, <4>2, <4>3
      <3>2. CASE k + 1 \notin s
        <4>1. s \in SUBSET (1..k) /\ s \ {Max(s)} \in SUBSET (1..k)
          <5>1. \A x \in s : x \in 1..k
            BY <3>2
          <5> QED
            BY <5>1
        <4>2. h[s] = g[s] /\ h[s \ {Max(s)}] = g[s \ {Max(s)}]
          BY <2>3, <4>1
        <4>3. /\ g[{}] = Nowhere
              /\ s # {} => g[s] = Read(g[s \ {Max(s)}], u[Max(s)])
          BY <2>1, <4>1, IterAt
        <4> QED
          BY <4>2, <4>3
      <3> QED
        BY <3>1, <3>2
    <2> DEFINE e(s) == IF s = {} THEN Nowhere ELSE Read(h[s \ {Max(s)}], u[Max(s)])
    <2>5. [s \in SUBSET (1..k + 1) |-> h[s]] = [s \in SUBSET (1..k + 1) |-> e(s)]
      <3>1. \A s \in SUBSET (1..k + 1) : h[s] = e(s)
        BY <2>4
      <3> HIDE DEF e
      <3> QED
        BY <3>1
    <2>6. h = [s \in SUBSET (1..k + 1) |-> e(s)]
      <3> HIDE DEF e
      <3> QED
        BY <2>2, <2>5
    <2>7. Iter(u, k + 1, h)
      BY <2>6, Zenon DEF Iter
    <2>8. k + 1 \in Nat
      OBVIOUS
    <2> QED
      BY <2>7, <2>8
  <1> HIDE DEF G
  <1>3. n \in G
    BY <1>1, <1>2, NatSet
  <1> QED
    BY <1>3 DEF G

LEMMA WalkIs ==
    ASSUME NEW T, NEW u \in Seq(T)
    PROVE  \E g : Iter(u, Len(u), g) /\ Walk(u) = g[1..Len(u)]
  <1> DEFINE g == CHOOSE f : Iter(u, Len(u), f)
  <1>1. Iter(u, Len(u), g)
    BY IterExists
  <1>2. DOMAIN u = 1..Len(u)
    OBVIOUS
  <1>3. Walk(u) = g[1..Len(u)]
    BY <1>2 DEF Walk, Nowhere, FoldLeft, MapThenFoldSet, Iter
  <1> QED
    BY <1>1, <1>3

LEMMA WalkEmpty == Walk(<<>>) = Nowhere
  <1>1. <<>> \in Seq({}) /\ Len(<<>>) = 0 /\ 1..0 = {}
    OBVIOUS
  <1>2. PICK g : Iter(<<>>, 0, g) /\ Walk(<<>>) = g[1..0]
    BY <1>1, WalkIs
  <1> QED
    BY <1>1, <1>2, IterAt

LEMMA WalkAppend ==
    ASSUME NEW T, NEW u \in Seq(T), NEW c \in T
    PROVE  Walk(Append(u, c)) = Read(Walk(u), c)
  <1> DEFINE v == Append(u, c)
             n == Len(u)
  <1>1. /\ n \in Nat /\ v \in Seq(T) /\ Len(v) = n + 1 /\ v[n + 1] = c
        /\ \A i \in 1..n : v[i] = u[i]
    OBVIOUS
  <1> HIDE DEF v
  <1>2. PICK h : Iter(v, n + 1, h) /\ Walk(v) = h[1..n + 1]
    BY <1>1, WalkIs
  <1>3. PICK g : Iter(u, n, g) /\ Walk(u) = g[1..n]
    BY WalkIs
  <1> HIDE DEF n
  <1>4. /\ n + 1 \in Nat /\ n + 1 - 1 = n
        /\ h[{}] = Nowhere /\ \A k \in 0..n : h[1..k + 1] = Read(h[1..k], v[k + 1])
    <2>1. n + 1 \in Nat /\ n + 1 - 1 = n
      BY <1>1
    <2> DEFINE m == n + 1
    <2>2. h[{}] = Nowhere /\ \A k \in 0..m - 1 : h[1..k + 1] = Read(h[1..k], v[k + 1])
      <3> HIDE DEF m
      <3> QED
        BY <1>2, <2>1, IterAt DEF m
    <2>3. 0..m - 1 = 0..n
      BY <1>1
    <2> HIDE DEF m
    <2> QED
      BY <2>1, <2>2, <2>3
  <1>5. g[{}] = Nowhere /\ \A k \in 0..n - 1 : g[1..k + 1] = Read(g[1..k], u[k + 1])
    BY <1>1, <1>3, IterAt
  <1> DEFINE G == {k \in Nat : k <= n => h[1..k] = g[1..k]}
  <1>6. 0 \in G
    <2>1. 1..0 = {}
      OBVIOUS
    <2> QED
      BY <1>4, <1>5, <2>1
  <1>7. ASSUME NEW k \in Nat, k \in G PROVE k + 1 \in G
    <2> SUFFICES ASSUME k + 1 <= n PROVE h[1..k + 1] = g[1..k + 1]
      OBVIOUS
    <2>1. k \in 0..n /\ k \in 0..n - 1 /\ k + 1 \in 1..n /\ k <= n
      BY <1>1
    <2> QED
      BY <1>1, <1>4, <1>5, <1>7, <2>1
  <1> HIDE DEF G
  <1>8. n \in G
    BY <1>1, <1>6, <1>7, NatSet
  <1>9. h[1..n] = g[1..n]
    BY <1>1, <1>8 DEF G
  <1>10. h[1..n + 1] = Read(h[1..n], v[n + 1])
    BY <1>1, <1>4
  <1> QED
    BY <1>1, <1>2, <1>3, <1>9, <1>10 DEF v

(* Names have no slash. *)
Plain == Seq(Chars \ {"/"})
Places == [dir : Seq(Plain), name : Plain]

LEMMA PlainChars == Plain \subseteq Seq(Chars) /\ <<>> \in Plain
  BY DEF Plain

LEMMA FrontIs ==
    ASSUME NEW T, NEW s \in Seq(T), NEW x \in T
    PROVE  Front(Append(s, x)) = s
  <1> DEFINE t == Append(s, x)
             f == SubSeq(t, 1, Len(t) - 1)
  <1>1. t \in Seq(T) /\ Len(t) - 1 = Len(s) /\ Len(s) \in 0..Len(t) /\ \A i \in 1..Len(s) : t[i] = s[i]
    OBVIOUS
  <1> HIDE DEF t
  <1>2. f \in Seq(T) /\ Len(f) = Len(s) /\ \A i \in 1..Len(s) : f[i] = t[i]
    BY <1>1, Prefix
  <1>3. f = s
    <2> HIDE DEF f
    <2> QED
      BY <1>1, <1>2, SameSeq
  <1> QED
    BY <1>3 DEF Front, t

(* What entering a name does. *)
LEMMA EnterIs ==
    ASSUME NEW dir, NEW name
    PROVE  /\ Enter(dir, <<>>) = dir
           /\ Enter(dir, <<".">>) = dir
           /\ dir = <<>> => Enter(dir, <<".", ".">>) = dir
           /\ dir # <<>> => Enter(dir, <<".", ".">>) = Front(dir)
           /\ name \notin {<<>>, <<".">>, <<".", ".">>} => Enter(dir, name) = Append(dir, name)
  <1>1. Enter(dir, <<>>) = dir
    BY DEF Enter
  <1>2. Enter(dir, <<".">>) = dir
    BY DEF Enter
  <1>3. <<".", ".">> \notin {<<>>, <<".">>}
    OBVIOUS
  <1>4. dir = <<>> => Enter(dir, <<".", ".">>) = dir
    BY <1>3 DEF Enter
  <1>5. dir # <<>> => Enter(dir, <<".", ".">>) = Front(dir)
    BY <1>3 DEF Enter
  <1>6. name \notin {<<>>, <<".">>, <<".", ".">>} => Enter(dir, name) = Append(dir, name)
    BY DEF Enter
  <1> QED
    BY <1>1, <1>2, <1>4, <1>5, <1>6

LEMMA EnterType ==
    ASSUME NEW dir \in Seq(Plain), NEW name \in Plain
    PROVE  Enter(dir, name) \in Seq(Plain)
  <1>1. CASE name \in {<<>>, <<".">>}
    BY <1>1, EnterIs
  <1>2. CASE name = <<".", ".">> /\ dir = <<>>
    BY <1>2, EnterIs
  <1>3. CASE name = <<".", ".">> /\ dir # <<>>
    <2>1. PICK f \in Seq(Plain), x \in Plain : dir = Append(f, x)
      BY <1>3, SeqFront
    <2> QED
      BY <1>3, <2>1, EnterIs, FrontIs
  <1>4. CASE name \notin {<<>>, <<".">>, <<".", ".">>}
    <2>1. Append(dir, name) \in Seq(Plain)
      <3> HIDE DEF Plain
      <3> QED
        OBVIOUS
    <2> QED
      BY <1>4, <2>1, EnterIs
  <1> QED
    BY <1>1, <1>2, <1>3, <1>4

LEMMA ReadType ==
    ASSUME NEW at \in Places, NEW c \in Chars
    PROVE  Read(at, c) \in Places
  <1>1. at.dir \in Seq(Plain) /\ at.name \in Plain
    BY DEF Places
  <1>2. CASE c = "/"
    <2>1. Enter(at.dir, at.name) \in Seq(Plain) /\ <<>> \in Plain
      BY <1>1, EnterType, PlainChars
    <2> QED
      BY <1>2, <2>1 DEF Read, Places
  <1>3. CASE c # "/"
    <2>1. Append(at.name, c) \in Plain
      BY <1>1, <1>3 DEF Plain
    <2> QED
      BY <1>1, <1>3, <2>1 DEF Read, Places
  <1> QED
    BY <1>2, <1>3

LEMMA WalkType ==
    ASSUME NEW u \in Seq(Chars)
    PROVE  Walk(u) \in Places
  <1> DEFINE G == {n \in Nat : \A v \in Seq(Chars) : Len(v) = n => Walk(v) \in Places}
  <1>1. 0 \in G
    <2>1. ASSUME NEW v \in Seq(Chars), Len(v) = 0 PROVE Walk(v) \in Places
      <3>1. v = <<>> /\ Nowhere \in Places
        BY <2>1, PlainChars DEF Nowhere, Places
      <3> QED
        BY <3>1, WalkEmpty
    <2> QED
      BY <2>1
  <1>2. ASSUME NEW n \in Nat, n \in G PROVE n + 1 \in G
    <2>1. ASSUME NEW v \in Seq(Chars), Len(v) = n + 1 PROVE Walk(v) \in Places
      <3>1. v # <<>> /\ Len(v) - 1 = n
        BY <2>1
      <3>2. PICK w \in Seq(Chars), c \in Chars : Len(w) = n /\ v = Append(w, c)
        BY <3>1, SeqFront
      <3>3. Walk(w) \in Places
        BY <1>2, <3>2
      <3> QED
        BY <3>2, <3>3, WalkAppend, ReadType
    <2> QED
      BY <2>1
  <1> HIDE DEF G
  <1>3. Nat \subseteq G
    BY <1>1, <1>2, NatSet
  <1> QED
    BY <1>3 DEF G

-----------------------------------------------------------------------------
(* The spelling of a list of names. *)

LEMMA SpellingEmpty == Spelling(<<>>) = <<>>
  <1>1. [n \in DOMAIN <<>> |-> <<"/">> \o <<>>[n]] = <<>>
    OBVIOUS
  <1> QED
    BY <1>1, FlattenEmpty DEF Spelling

Slashed(names) == [n \in DOMAIN names |-> <<"/">> \o names[n]]

LEMMA SlashedType ==
    ASSUME NEW names \in Seq(Plain)
    PROVE  Slashed(names) \in Seq(Seq(Chars)) /\ Len(Slashed(names)) = Len(names)
  <1>1. ASSUME NEW x \in Plain PROVE <<"/">> \o x \in Seq(Chars)
    <2>1. <<"/">> \in Seq(Chars) /\ x \in Seq(Chars)
      BY PlainChars DEF Chars
    <2> QED
      BY <2>1
  <1> DEFINE e(x) == <<"/">> \o x
             S == Seq(Chars)
  <1>2. \A x \in Plain : e(x) \in S
    BY <1>1
  <1>3. Slashed(names) = [n \in DOMAIN names |-> e(names[n])]
    BY DEF Slashed
  <1> HIDE DEF e, S, Plain
  <1>4. \A n \in DOMAIN names : names[n] \in Plain
    OBVIOUS
  <1>5. [n \in DOMAIN names |-> e(names[n])] \in Seq(S)
    BY <1>2, <1>4
  <1>6. Len([n \in DOMAIN names |-> e(names[n])]) = Len(names)
    OBVIOUS
  <1> QED
    BY <1>3, <1>5, <1>6 DEF S

LEMMA SlashedAppend ==
    ASSUME NEW names \in Seq(Plain), NEW x \in Plain
    PROVE  Slashed(Append(names, x)) = Append(Slashed(names), <<"/">> \o x)
  <1> DEFINE e(y) == <<"/">> \o y
             m == Append(names, x)
             a == [n \in DOMAIN m |-> e(m[n])]
             b == Append([n \in DOMAIN names |-> e(names[n])], e(x))
  <1>1. Slashed(Append(names, x)) = a /\ Append(Slashed(names), <<"/">> \o x) = b
    BY DEF Slashed
  <1> HIDE DEF e, Plain
  <1>2. a = b
    OBVIOUS
  <1> QED
    BY <1>1, <1>2

LEMMA SpellingType ==
    ASSUME NEW names \in Seq(Plain)
    PROVE  Spelling(names) \in Seq(Chars)
  <1>1. Spelling(names) = FlattenSeq(Slashed(names))
    BY DEF Spelling, Slashed
  <1> QED
    BY <1>1, SlashedType, FlattenType

LEMMA SpellingAppend ==
    ASSUME NEW names \in Seq(Plain), NEW x \in Plain
    PROVE  Spelling(Append(names, x)) = Spelling(names) \o (<<"/">> \o x)
  <1>1. \A m : Spelling(m) = FlattenSeq(Slashed(m))
    BY DEF Spelling, Slashed
  <1>2. <<"/">> \o x \in Seq(Chars)
    <2>1. <<"/">> \in Seq(Chars) /\ x \in Seq(Chars)
      BY PlainChars DEF Chars
    <2> QED
      BY <2>1
  <1>3. Slashed(names) \in Seq(Seq(Chars))
    BY SlashedType
  <1>4. FlattenSeq(Append(Slashed(names), <<"/">> \o x)) = FlattenSeq(Slashed(names)) \o (<<"/">> \o x)
    BY <1>2, <1>3, FlattenAppend
  <1> QED
    BY <1>1, <1>4, SlashedAppend

(* Where its last name starts. *)
LEMMA SpellingLast ==
    ASSUME NEW names \in Seq(Plain), NEW x \in Plain
    PROVE  LET r == Spelling(Append(names, x))
               s == Spelling(names)
               k == Len(s)
           IN  /\ r \in Seq(Chars) /\ s \in Seq(Chars) /\ k \in Nat
               /\ Len(r) = k + 1 + Len(x) /\ r[k + 1] = "/"
               /\ \A i \in 1..k : r[i] = s[i]
               /\ \A i \in 1..Len(x) : r[k + 1 + i] = x[i]
               /\ \A i \in 1..Len(x) : r[k + 1 + i] # "/"
  <1> DEFINE r == Spelling(Append(names, x))
             s == Spelling(names)
             k == Len(s)
             e == <<"/">> \o x
  <1>1. x \in Seq(Chars) /\ \A i \in 1..Len(x) : x[i] # "/"
    BY DEF Plain
  <1>2. s \in Seq(Chars)
    BY SpellingType
  <1>3. e \in Seq(Chars) /\ Len(e) = 1 + Len(x) /\ e[1] = "/" /\ \A i \in 1..Len(x) : e[1 + i] = x[i]
    <2>1. <<"/">> \in Seq(Chars) /\ Len(<<"/">>) = 1 /\ <<"/">>[1] = "/"
      BY DEF Chars
    <2>2. /\ e \in Seq(Chars) /\ Len(e) = Len(<<"/">>) + Len(x)
          /\ \A i \in 1..Len(<<"/">>) : e[i] = <<"/">>[i]
          /\ \A i \in 1..Len(x) : e[Len(<<"/">>) + i] = x[i]
      BY <1>1, <2>1, Concat
    <2> HIDE DEF e
    <2> QED
      BY <2>1, <2>2
  <1>4. IsCat(r, s, e)
    BY SpellingAppend DEF IsCat
  <1> HIDE DEF r, s, e
  <1>5. /\ r \in Seq(Chars) /\ Len(r) = k + Len(e) /\ k \in Nat
        /\ \A i \in 1..k : r[i] = s[i]
        /\ \A i \in 1..Len(e) : r[k + i] = e[i]
    BY <1>2, <1>3, <1>4, Joined
  <1> HIDE DEF k
  <1>6. Len(x) \in Nat
    BY <1>1
  <1>7. Len(r) = k + 1 + Len(x) /\ r[k + 1] = "/"
    BY <1>3, <1>5, <1>6
  <1>8. ASSUME NEW i \in 1..Len(x) PROVE r[k + 1 + i] = x[i]
    <2>1. 1 + i \in 1..Len(e) /\ k + (1 + i) = k + 1 + i
      BY <1>3, <1>5, <1>6
    <2> QED
      BY <1>3, <1>5, <2>1
  <1>9. \A i \in 1..Len(x) : r[k + 1 + i] # "/"
    BY <1>1, <1>8
  <1> QED
    BY <1>2, <1>5, <1>7, <1>8, <1>9 DEF r, s, k

(* What the bytes of a buffer spell. *)
Holds(buf, n, r) == n = Len(r) /\ \A i \in 1..n : buf[i - 1] = r[i]

LEMMA CatAppend ==
    ASSUME NEW T, NEW a \in Seq(T), NEW b \in Seq(T), NEW c \in T
    PROVE  a \o Append(b, c) = Append(a \o b, c)
  OBVIOUS

(* One more character of the last name, and a first one. *)
LEMMA SpellingGrows ==
    ASSUME NEW names \in Seq(Plain), NEW x \in Plain, NEW c \in Chars \ {"/"}
    PROVE  /\ Append(x, c) \in Plain
           /\ Spelling(Append(names, Append(x, c))) = Append(Spelling(Append(names, x)), c)
  <1> DEFINE s == Spelling(names)
             e == <<"/">>
  <1>1. Append(x, c) \in Plain
    BY DEF Plain
  <1>2. s \in Seq(Chars) /\ e \in Seq(Chars) /\ x \in Seq(Chars) /\ c \in Chars
    BY SpellingType, PlainChars DEF Chars
  <1>3. Spelling(Append(names, x)) = s \o (e \o x)
    BY SpellingAppend
  <1>4. Spelling(Append(names, Append(x, c))) = s \o (e \o Append(x, c))
    BY <1>1, SpellingAppend
  <1> HIDE DEF s, e
  <1>5. e \o Append(x, c) = Append(e \o x, c) /\ e \o x \in Seq(Chars)
    BY <1>2, CatAppend
  <1>6. s \o Append(e \o x, c) = Append(s \o (e \o x), c)
    <2> DEFINE b == e \o x
    <2>1. b \in Seq(Chars)
      BY <1>5
    <2> HIDE DEF b
    <2>2. s \o Append(b, c) = Append(s \o b, c)
      BY <1>2, <2>1, CatAppend
    <2> QED
      BY <2>2 DEF b
  <1> QED
    BY <1>1, <1>3, <1>4, <1>5, <1>6

LEMMA SpellingStarts ==
    ASSUME NEW names \in Seq(Plain)
    PROVE  Spelling(Append(names, <<>>)) = Append(Spelling(names), "/")
  <1> DEFINE s == Spelling(names)
  <1>1. s \in Seq(Chars) /\ "/" \in Chars
    BY SpellingType DEF Chars
  <1>2. Spelling(Append(names, <<>>)) = s \o (<<"/">> \o <<>>)
    BY SpellingAppend, PlainChars
  <1> HIDE DEF s
  <1>3. <<"/">> \o <<>> = <<"/">>
    OBVIOUS
  <1>4. s \o <<"/">> = Append(s, "/")
    BY <1>1
  <1> QED
    BY <1>2, <1>3, <1>4 DEF s

Bytes == Chars \cup {NUL, Dead}
Buffers == [0..Size - 1 -> Bytes]

LEMMA PutIs ==
    ASSUME NEW buf \in Buffers, NEW at \in Nat, NEW c \in Bytes
    PROVE  /\ Put(buf, at, c) \in Buffers
           /\ at < Size => Put(buf, at, c)[at] = c
           /\ \A i \in 0..Size - 1 : i # at => Put(buf, at, c)[i] = buf[i]
           /\ ~(at < Size) => Put(buf, at, c) = buf
  <1>1. Size \in Nat \ {0}
    BY PathAssumption
  <1>2. CASE at < Size
    <2>1. at \in 0..Size - 1 /\ Put(buf, at, c) = [buf EXCEPT ![at] = c]
      BY <1>1, <1>2 DEF Put
    <2> QED
      BY <2>1, <1>2 DEF Buffers
  <1>3. CASE ~(at < Size)
    BY <1>3 DEF Put
  <1> QED
    BY <1>2, <1>3

LEMMA HoldsAppend ==
    ASSUME NEW buf \in Buffers, NEW n \in Nat, NEW r \in Seq(Chars), NEW c \in Chars,
           Holds(buf, n, r), n < Size
    PROVE  Holds(Put(buf, n, c), n + 1, Append(r, c))
  <1> DEFINE b == Put(buf, n, c)
             t == Append(r, c)
  <1>1. Size \in Nat \ {0} /\ c \in Bytes
    BY PathAssumption DEF Bytes
  <1>2. b[n] = c /\ \A i \in 0..Size - 1 : i # n => b[i] = buf[i]
    BY <1>1, PutIs
  <1>3. n = Len(r) /\ \A i \in 1..n : buf[i - 1] = r[i]
    BY DEF Holds
  <1>4. Len(t) = n + 1 /\ t[n + 1] = c /\ \A i \in 1..n : t[i] = r[i]
    BY <1>3
  <1> HIDE DEF b, t
  <1>5. ASSUME NEW i \in 1..n + 1 PROVE b[i - 1] = t[i]
    <2>1. CASE i = n + 1
      BY <1>2, <1>4, <2>1
    <2>2. CASE i # n + 1
      <3>1. i \in 1..n /\ i - 1 \in 0..Size - 1 /\ i - 1 # n
        BY <1>1, <2>2
      <3> QED
        BY <1>2, <1>3, <1>4, <3>1
    <2> QED
      BY <2>1, <2>2
  <1>6. Holds(b, n + 1, t)
    BY <1>4, <1>5 DEF Holds
  <1> QED
    BY <1>6 DEF b, t

-----------------------------------------------------------------------------
(* Back to the last separator. *)

LEMMA Greatest ==
    ASSUME NEW n \in Nat, NEW T \in SUBSET (0..n - 1), T # {}
    PROVE  \E m \in T : \A k \in T : k <= m
  <1> DEFINE U == {d \in Nat : \E k \in T : d = n - k}
  <1>1. U # {} /\ U \in SUBSET Nat
    <2>1. \A k \in T : n - k \in U
      OBVIOUS
    <2> QED
      BY <2>1
  <1>2. PICK d \in U : \A e \in U : d <= e
    BY <1>1, LeastNat
  <1>3. PICK m \in T : d = n - m
    BY <1>2
  <1>4. ASSUME NEW k \in T PROVE k <= m
    <2>1. n - k \in U
      OBVIOUS
    <2>2. d <= n - k
      BY <1>2, <2>1
    <2> QED
      BY <1>3, <2>2
  <1> QED
    BY <1>4

LEMMA ParentType ==
    ASSUME NEW n \in Nat
    PROVE  Parent(n) \in Nat /\ Parent(n) <= n
  <1> DEFINE T == {k \in 0..n - 1 : buffer[k] = "/"}
             m == CHOOSE k \in T : \A j \in T : j <= k
  <1>1. Parent(n) = IF T = {} THEN 0 ELSE m
    BY DEF Parent
  <1>2. CASE T # {}
    <2>1. \E k \in T : \A j \in T : j <= k
      <3>1. T \in SUBSET (0..n - 1)
        OBVIOUS
      <3> HIDE DEF T
      <3> QED
        BY <1>2, <3>1, Greatest
    <2>2. m \in T
      BY <2>1
    <2>3. m \in 0..n - 1
      <3> HIDE DEF m
      <3> QED
        BY <2>2
    <2> HIDE DEF m, T
    <2> QED
      BY <1>1, <1>2, <2>3
  <1> HIDE DEF m
  <1>3. CASE T = {}
    <2> HIDE DEF T
    <2> QED
      BY <1>1, <1>3
  <1> QED
    BY <1>2, <1>3

LEMMA ParentIs ==
    ASSUME NEW n \in Nat, NEW k \in 0..n - 1, buffer[k] = "/",
           \A j \in 0..n - 1 : j > k => buffer[j] # "/"
    PROVE  Parent(n) = k
  <1> DEFINE T == {j \in 0..n - 1 : buffer[j] = "/"}
             m == CHOOSE j \in T : \A i \in T : i <= j
  <1>1. k \in T /\ \A j \in T : j <= k
    OBVIOUS
  <1>2. T # {} /\ T \subseteq Nat
    BY <1>1
  <1>3. Parent(n) = m
    BY <1>2 DEF Parent
  <1> HIDE DEF T
  <1>4. m \in T /\ \A i \in T : i <= m
    BY <1>1
  <1>5. m = k
    <2> HIDE DEF m
    <2> QED
      BY <1>1, <1>2, <1>4
  <1> QED
    BY <1>3, <1>5

LEMMA ParentEmpty == Parent(0) = 0
  BY DEF Parent

-----------------------------------------------------------------------------
(* What the loop reads. *)

LEMMA AtIs ==
    ASSUME path \in Seq(Chars), NEW n \in Nat
    PROVE  /\ At(n) # NUL => n < Len(path) /\ At(n) = path[n + 1] /\ At(n) \in Chars
           /\ At(n) = NUL => Len(path) <= n
           /\ At(n) \in Chars \cup {NUL}
  <1>1. NUL \notin Chars
    BY PathAssumption
  <1>2. CASE n < Len(path)
    <2>1. At(n) = path[n + 1] /\ path[n + 1] \in Chars
      BY <1>2 DEF At
    <2> QED
      BY <1>1, <1>2, <2>1
  <1>3. CASE ~(n < Len(path))
    <2>1. At(n) = NUL /\ Len(path) <= n
      BY <1>3 DEF At
    <2> QED
      BY <2>1
  <1> QED
    BY <1>2, <1>3

LEMMA SkipIs ==
    ASSUME path \in Seq(Chars), NEW n \in 0..Len(path), Skip(n)
    PROVE  /\ path' \in Seq(Chars) /\ Len(path') = Len(path) - n
           /\ \A k \in Nat : At(k)' = At(n + k)
  <1>1. path' \in Seq(Chars) /\ Len(path') = Len(path) - n /\ \A i \in 1..Len(path) - n : path'[i] = path[n + i]
    BY Suffix DEF Skip
  <1>2. ASSUME NEW k \in Nat PROVE At(k)' = At(n + k)
    <2>1. Len(path) \in Nat /\ n \in Nat
      OBVIOUS
    <2>2. CASE k < Len(path) - n
      <3>1. n + k < Len(path) /\ k + 1 \in 1..Len(path) - n /\ n + (k + 1) = (n + k) + 1
        BY <2>1, <2>2
      <3>2. At(n + k) = path[(n + k) + 1]
        BY <3>1 DEF At
      <3>3. At(k)' = path'[k + 1]
        BY <1>1, <2>2 DEF At
      <3> QED
        BY <1>1, <3>1, <3>2, <3>3
    <2>3. CASE ~(k < Len(path) - n)
      <3>1. ~(n + k < Len(path))
        BY <2>1, <2>3
      <3>2. At(n + k) = NUL
        BY <3>1 DEF At
      <3>3. At(k)' = NUL
        BY <1>1, <2>3 DEF At
      <3> QED
        BY <3>2, <3>3
    <2> QED
      BY <2>2, <2>3
  <1> QED
    BY <1>1, <1>2

(* How many characters a step reads. *)
LEMMA Reads ==
    ASSUME path \in Seq(Chars)
    PROVE  /\ At(0) # NUL => 1 \in 0..Len(path)
           /\ IsDot => (IF At(1) = NUL THEN 1 ELSE 2) \in 0..Len(path)
           /\ IsDotDot => (IF At(2) = NUL THEN 2 ELSE 3) \in 0..Len(path)
  <1>1. Len(path) \in Nat
    OBVIOUS
  <1>2. "." \in Chars /\ "." # NUL
    BY PathAssumption DEF Chars
  <1>3. /\ At(0) # NUL => 0 < Len(path)
        /\ At(1) # NUL => 1 < Len(path)
        /\ At(2) # NUL => 2 < Len(path)
    BY AtIs
  <1>4. At(0) # NUL => 1 \in 0..Len(path)
    BY <1>1, <1>3
  <1>5. ASSUME IsDot PROVE (IF At(1) = NUL THEN 1 ELSE 2) \in 0..Len(path)
    <2>1. At(0) # NUL
      BY <1>2, <1>5 DEF IsDot
    <2> QED
      BY <1>1, <1>3, <2>1
  <1>6. ASSUME IsDotDot PROVE (IF At(2) = NUL THEN 2 ELSE 3) \in 0..Len(path)
    <2>1. At(1) # NUL
      BY <1>2, <1>6 DEF IsDotDot
    <2> QED
      BY <1>1, <1>3, <2>1
  <1> QED
    BY <1>4, <1>5, <1>6

-----------------------------------------------------------------------------
(* Types, and what fits. *)

Types ==
    /\ TypeOK
    /\ input \in Seq(Chars) /\ pc \in {"loop", "done"}
    /\ ps \in BOOLEAN /\ sd \in BOOLEAN

LEMMA InitTypes == Init => Types
  <1> SUFFICES ASSUME Init PROVE Types
    OBVIOUS
  <1>1. Size \in Nat \ {0} /\ MaxLength \in Nat
    BY PathAssumption
  <1>2. PICK n \in 0..MaxLength : input \in [1..n -> Chars]
    BY DEF Init, Strings
  <1>3. input \in Seq(Chars)
    BY <1>1, <1>2
  <1>4. buffer \in [0..Size - 1 -> Chars \cup {NUL, Dead}]
    BY DEF Init
  <1>5. \A i \in 0..Size - 1 : ~(i < len)
    BY <1>1 DEF Init
  <1> QED
    BY <1>3, <1>4, <1>5 DEF Init, Types, TypeOK

(* What a written byte is. *)
LEMMA Letters == /\ "/" \in Bytes /\ "." \in Bytes /\ NUL \in Bytes /\ Chars \subseteq Bytes
                 /\ Dead \notin Chars /\ Dead # NUL /\ "/" # Dead /\ "." # Dead
  BY PathAssumption DEF Bytes, Chars

LEMMA PutWritten ==
    ASSUME NEW buf \in Buffers, NEW at \in Nat, NEW c \in Bytes, c # Dead,
           \A i \in 0..Size - 1 : i < at => buf[i] # Dead
    PROVE  \A i \in 0..Size - 1 : i < at + 1 => Put(buf, at, c)[i] # Dead
  <1> SUFFICES ASSUME NEW i \in 0..Size - 1, i < at + 1 PROVE Put(buf, at, c)[i] # Dead
    OBVIOUS
  <1>1. Size \in Nat \ {0}
    BY PathAssumption
  <1>2. CASE i = at
    <2>1. at < Size
      BY <1>1, <1>2
    <2> QED
      BY <1>2, <2>1, PutIs
  <1>3. CASE i # at
    <2>1. i < at
      BY <1>3
    <2> QED
      BY <1>3, <2>1, PutIs
  <1> QED
    BY <1>2, <1>3

LEMMA NextTypes == Types /\ [Next]_vars => Types'
  <1> SUFFICES ASSUME Types, [Next]_vars PROVE Types'
    OBVIOUS
  <1>1. /\ path \in Seq(Chars) /\ len \in Nat /\ buffer \in Buffers
        /\ \A i \in 0..Size - 1 : i < len => buffer[i] # Dead
    BY DEF Types, TypeOK, Buffers, Bytes
  <1>2. CASE Slash
    <2>1. At(0) # NUL
      BY <1>2, PathAssumption DEF Slash, Chars
    <2>2. path' \in Seq(Chars)
      BY <1>1, <1>2, <2>1, Reads, SkipIs DEF Slash
    <2> QED
      BY <1>2, <2>2 DEF Slash, Types, TypeOK
  <1>3. CASE Dot
    <2>1. path' \in Seq(Chars)
      BY <1>1, <1>3, Reads, SkipIs DEF Dot
    <2> QED
      BY <1>3, <2>1 DEF Dot, Types, TypeOK
  <1>4. CASE DotDot
    <2>1. path' \in Seq(Chars)
      BY <1>1, <1>4, Reads, SkipIs DEF DotDot
    <2>2. len' \in Nat /\ len' <= len
      BY <1>1, <1>4, ParentType DEF DotDot
    <2>3. ps' \in BOOLEAN
      BY <1>4 DEF DotDot
    <2>4. \A i \in 0..Size - 1 : i < len' => buffer[i] # Dead
      <3>1. Size \in Nat
        BY PathAssumption
      <3> QED
        BY <1>1, <2>2, <3>1
    <2> QED
      BY <1>4, <2>1, <2>2, <2>3, <2>4 DEF DotDot, Types, TypeOK
  <1>5. CASE Character
    <2>1. At(0) # NUL
      BY <1>5 DEF Character
    <2>2. path' \in Seq(Chars)
      BY <1>1, <1>5, <2>1, Reads, SkipIs DEF Character
    <2>3. At(0) \in Chars /\ At(0) \in Bytes /\ At(0) # Dead
      BY <1>1, <2>1, AtIs, Letters
    <2> DEFINE b == Separator(buffer)
    <2>4. /\ b \in Buffers /\ Start \in Nat
          /\ \A i \in 0..Size - 1 : i < Start => b[i] # Dead
      <3>1. CASE ps
        <4>1. b = Put(buffer, len, "/") /\ Start = len + 1
          BY <3>1 DEF Separator, Start
        <4>2. Put(buffer, len, "/") \in Buffers
          BY <1>1, PutIs, Letters
        <4>3. \A i \in 0..Size - 1 : i < len + 1 => Put(buffer, len, "/")[i] # Dead
          BY <1>1, PutWritten, Letters
        <4>4. Start \in Nat
          BY <1>1, <4>1
        <4> QED
          BY <4>1, <4>2, <4>3, <4>4
      <3>2. CASE ~ps
        BY <1>1, <3>2 DEF Separator, Start
      <3> QED
        BY <3>1, <3>2
    <2> HIDE DEF b
    <2>5. buffer' = Put(b, Start, At(0)) /\ len' = Start + 1
      BY <1>5 DEF Character, b
    <2>6. buffer' \in Buffers
      BY <2>3, <2>4, <2>5, PutIs
    <2>7. \A i \in 0..Size - 1 : i < len' => buffer'[i] # Dead
      BY <2>3, <2>4, <2>5, PutWritten
    <2>8. len' \in Nat
      BY <2>4, <2>5
    <2> QED
      BY <1>5, <2>2, <2>6, <2>7, <2>8 DEF Character, Types, TypeOK, Buffers, Bytes
  <1>6. CASE Finish
    <2>1. CASE len > 0 /\ buffer' = Put(buffer, len, NUL) /\ UNCHANGED len
      <3>1. buffer' \in Buffers
        BY <1>1, <2>1, PutIs, Letters
      <3>2. \A i \in 0..Size - 1 : i < len => buffer'[i] # Dead
        <4>1. \A i \in 0..Size - 1 : i < len => i # len
          BY <1>1
        <4>2. \A i \in 0..Size - 1 : i # len => buffer'[i] = buffer[i]
          BY <1>1, <2>1, PutIs, Letters
        <4> QED
          BY <1>1, <4>1, <4>2
      <3> QED
        BY <1>6, <2>1, <3>1, <3>2 DEF Finish, Types, TypeOK, Buffers, Bytes
    <2>2. CASE len = 0 /\ buffer' = Put(Put(buffer, 0, IF ps THEN "/" ELSE "."), 1, NUL) /\ len' = 1
      <3> DEFINE c == IF ps THEN "/" ELSE "."
                 b == Put(buffer, 0, c)
      <3>1. c \in Bytes /\ c # Dead
        BY Letters
      <3> HIDE DEF c
      <3>2. b \in Buffers /\ \A i \in 0..Size - 1 : i < 1 => b[i] # Dead
        BY <1>1, <2>2, <3>1, PutIs, PutWritten
      <3>3. buffer' = Put(b, 1, NUL)
        BY <2>2 DEF c
      <3> HIDE DEF b
      <3>4. buffer' \in Buffers /\ \A i \in 0..Size - 1 : i < 1 => buffer'[i] # Dead
        <4>1. buffer' \in Buffers /\ \A i \in 0..Size - 1 : i # 1 => buffer'[i] = b[i]
          BY <3>2, <3>3, PutIs, Letters
        <4> QED
          BY <3>2, <4>1
      <3> QED
        BY <1>6, <2>2, <3>4 DEF Finish, Types, TypeOK, Buffers, Bytes
    <2> QED
      BY <1>6, <2>1, <2>2 DEF Finish
  <1>7. CASE UNCHANGED vars
    BY <1>7 DEF vars, Types, TypeOK
  <1> QED
    BY <1>2, <1>3, <1>4, <1>5, <1>6, <1>7 DEF Next, Done

(* What is written, with the separator that is due, is never longer than   *)
(* what was read.                                                          *)
Due == IF ps THEN 1 ELSE 0
Short ==
    /\ pc = "loop" => len + Due + Len(path) <= Len(input)
    /\ pc = "done" => len <= Len(input) \/ len = 1

LEMMA InitShort == Types /\ Init => Short
  <1> SUFFICES ASSUME Types, Init PROVE Short
    OBVIOUS
  <1>1. Len(input) \in Nat /\ path = input /\ len = 0 /\ Due = 0 /\ pc = "loop"
    BY DEF Types, Init, Due
  <1> QED
    BY <1>1 DEF Short

LEMMA NextShort == Types /\ Short /\ [Next]_vars => Short'
  <1> SUFFICES ASSUME Types, Short, [Next]_vars PROVE Short'
    OBVIOUS
  <1>1. /\ path \in Seq(Chars) /\ len \in Nat /\ input \in Seq(Chars) /\ ps \in BOOLEAN
        /\ Len(path) \in Nat /\ Len(input) \in Nat
    BY DEF Types, TypeOK
  <1>2. Due \in 0..1
    BY DEF Due
  <1>3. CASE Slash
    <2>1. At(0) # NUL
      BY <1>3, PathAssumption DEF Slash, Chars
    <2>2. Len(path') = Len(path) - 1
      BY <1>1, <1>3, <2>1, Reads, SkipIs DEF Slash
    <2>3. Due' <= 1 /\ Due' \in Nat
      BY DEF Due
    <2>4. pc = "loop" /\ UNCHANGED <<input, len, pc>>
      BY <1>3 DEF Slash
    <2> QED
      BY <1>1, <1>2, <2>2, <2>3, <2>4 DEF Short
  <1>4. CASE Dot
    <2> DEFINE n == IF At(1) = NUL THEN 1 ELSE 2
    <2>1. Len(path') = Len(path) - n
      BY <1>1, <1>4, Reads, SkipIs DEF Dot
    <2>2. Due' = Due /\ pc = "loop" /\ UNCHANGED <<input, len, pc>>
      BY <1>4 DEF Dot, Due
    <2>3. n \in Nat
      OBVIOUS
    <2> HIDE DEF n
    <2> QED
      BY <1>1, <1>2, <2>1, <2>2, <2>3 DEF Short
  <1>5. CASE DotDot
    <2> DEFINE n == IF At(2) = NUL THEN 2 ELSE 3
    <2>1. Len(path') = Len(path) - n
      BY <1>1, <1>5, Reads, SkipIs DEF DotDot
    <2>2. pc = "loop" /\ UNCHANGED <<input, pc>>
      BY <1>5 DEF DotDot
    <2>3. len' \in Nat /\ len' <= len
      BY <1>1, <1>5, ParentType DEF DotDot
    <2>4. n \in Nat /\ n >= 2
      OBVIOUS
    <2>5. Due' <= 1 /\ Due' \in Nat
      BY DEF Due
    <2> HIDE DEF n
    <2> QED
      BY <1>1, <1>2, <2>1, <2>2, <2>3, <2>4, <2>5 DEF Short
  <1>6. CASE Character
    <2>1. At(0) # NUL
      BY <1>6 DEF Character
    <2>2. Len(path') = Len(path) - 1
      BY <1>1, <1>6, <2>1, Reads, SkipIs DEF Character
    <2>3. Start = len + Due
      BY <1>1 DEF Start, Due
    <2>4. len' = len + Due + 1 /\ Due' = 0 /\ pc = "loop" /\ UNCHANGED <<input, pc>>
      BY <1>6, <2>3 DEF Character, Due
    <2> QED
      BY <1>1, <1>2, <2>2, <2>4 DEF Short
  <1>7. CASE Finish
    <2>1. pc = "loop" /\ pc' = "done" /\ input' = input /\ (len' = len \/ len' = 1)
      BY <1>7 DEF Finish
    <2> QED
      BY <1>1, <1>2, <2>1 DEF Short
  <1>8. CASE UNCHANGED vars
    BY <1>8 DEF vars, Short, Due
  <1> QED
    BY <1>3, <1>4, <1>5, <1>6, <1>7, <1>8 DEF Next, Done

LEMMA AlwaysShort == Spec => [](Types /\ Short)
  <1>1. Init => Types /\ Short
    BY InitTypes, InitShort
  <1>2. (Types /\ Short) /\ [Next]_vars => (Types /\ Short)'
    BY NextTypes, NextShort
  <1> QED
    BY <1>1, <1>2, PTL DEF Spec

(* For any path and any size of the buffer, path_std writes in its buffer  *)
(* only and, when it goes back over a component, reads there only what it  *)
(* wrote.                                                                  *)
THEOREM PathTypeOK == Spec => []TypeOK
  BY AlwaysShort, PTL DEF Types

(* A path that is shorter than the buffer is never refused as too long,    *)
(* whatever its dots and slashes: at each step what path_std has written   *)
(* is no longer than what it has read.                                     *)
THEOREM PathFitsWhenShort == Spec => []FitsWhenShort
  <1>1. Types /\ Short => FitsWhenShort
    <2> SUFFICES ASSUME Types, Short, pc = "done", Len(input) < Size, Size > 1 PROVE len < Size
      BY DEF FitsWhenShort
    <2>1. len \in Nat /\ Len(input) \in Nat /\ Size \in Nat
      BY PathAssumption DEF Types, TypeOK
    <2> QED
      BY <2>1 DEF Short
  <1> QED
    BY <1>1, AlwaysShort, PTL

-----------------------------------------------------------------------------
(* What was read, and where it leads. *)

Upto(a, q, n) == a \o SubSeq(q, 1, n)

LEMMA UptoIs ==
    ASSUME NEW T, NEW s, NEW a \in Seq(T), NEW q \in Seq(T), IsCat(s, a, q), NEW n \in 0..Len(q)
    PROVE  /\ Upto(a, q, n) \in Seq(T) /\ Len(Upto(a, q, n)) = Len(a) + n
           /\ IsCat(s, Upto(a, q, n), SubSeq(q, n + 1, Len(q)))
  <1> DEFINE b == SubSeq(q, 1, n)
             c == SubSeq(q, n + 1, Len(q))
  <1>0. b \in Seq(T) /\ Len(b) = n /\ c \in Seq(T)
    BY Split
  <1>1. b \in Seq(T) /\ Len(b) = n /\ c \in Seq(T) /\ q = b \o c
    BY Split
  <1> HIDE DEF b, c
  <1>2. /\ (a \o b) \o c = a \o (b \o c)
        /\ a \o b \in Seq(T) /\ Len(a \o b) = Len(a) + Len(b)
    <2>1. (a \o b) \o c = a \o (b \o c)
      BY <1>0, Associative
    <2>2. a \o b \in Seq(T) /\ Len(a \o b) = Len(a) + Len(b)
      BY <1>0, Concat
    <2> QED
      BY <2>1, <2>2
  <1>3. s = (a \o b) \o c
    BY <1>1, <1>2 DEF IsCat
  <1> QED
    BY <1>1, <1>2, <1>3 DEF Upto, IsCat, b, c

LEMMA UptoStep ==
    ASSUME NEW T, NEW a \in Seq(T), NEW q \in Seq(T), NEW n \in 0..Len(q) - 1
    PROVE  Upto(a, q, n + 1) = Append(Upto(a, q, n), q[n + 1])
  <1> DEFINE b == SubSeq(q, 1, n)
  <1>1. SubSeq(q, 1, n + 1) = Append(b, q[n + 1]) /\ q[n + 1] \in T
    BY PrefixStep
  <1>2. b \in Seq(T)
    BY Prefix
  <1> HIDE DEF b
  <1>3. a \o Append(b, q[n + 1]) = Append(a \o b, q[n + 1])
    BY <1>1, <1>2, CatAppend
  <1> QED
    BY <1>1, <1>3 DEF Upto, b

LEMMA UptoNone ==
    ASSUME NEW T, NEW a \in Seq(T), NEW q \in Seq(T)
    PROVE  Upto(a, q, 0) = a
  <1>1. SubSeq(q, 1, 0) = <<>> /\ a \o <<>> = a
    OBVIOUS
  <1> QED
    BY <1>1 DEF Upto

LeadsTo(p, d, n) == p \in Seq(Chars) /\ Walk(p) = [dir |-> d, name |-> n]

LEMMA LeadsNowhere == LeadsTo(<<>>, <<>>, <<>>)
  <1>1. <<>> \in Seq(Chars)
    OBVIOUS
  <1> QED
    BY <1>1, WalkEmpty DEF LeadsTo, Nowhere

LEMMA LeadsOn ==
    ASSUME NEW p, NEW d, NEW n, LeadsTo(p, d, n), NEW c \in Chars
    PROVE  /\ c = "/" => LeadsTo(Append(p, c), Enter(d, n), <<>>)
           /\ c # "/" => LeadsTo(Append(p, c), d, Append(n, c))
  <1>1. Append(p, c) \in Seq(Chars) /\ Walk(Append(p, c)) = Read(Walk(p), c)
    BY WalkAppend DEF LeadsTo
  <1>2. Walk(p).dir = d /\ Walk(p).name = n
    BY DEF LeadsTo
  <1>3. CASE c = "/"
    BY <1>1, <1>2, <1>3 DEF LeadsTo, Read
  <1>4. CASE c # "/"
    BY <1>1, <1>2, <1>4 DEF LeadsTo, Read
  <1> QED
    BY <1>3, <1>4

(* The state of the loop when p was read, which leads to name in dir. *)
Started(name) ==
    /\ name # <<>>
    /\ name = <<".">> => ~Ends(At(0)) /\ ~(At(0) = "." /\ Ends(At(1)))
    /\ name = <<".", ".">> => ~Ends(At(0))

Between(p, dir, name) ==
    /\ p # <<>> => ps
    /\ name = <<>> \/ path = <<>>
    /\ len <= Size => Holds(buffer, len, Spelling(Enter(dir, name)))

Within(dir, name) ==
    /\ ~ps /\ Started(name)
    /\ len <= Size => Holds(buffer, len, Spelling(Append(dir, name)))

Reading(p, dir, name) ==
    /\ LeadsTo(p, dir, name) /\ IsCat(input, p, path)
    /\ sd => Between(p, dir, name)
    /\ ~sd => Within(dir, name)

(* The inductive invariant for absolute paths. *)
Follows ==
    pc = "loop" /\ fps => \E p, dir, name : Reading(p, dir, name)

LEMMA LeadsType ==
    ASSUME NEW p, NEW d, NEW n, LeadsTo(p, d, n)
    PROVE  d \in Seq(Plain) /\ n \in Plain
  <1>1. Walk(p) \in Places
    BY WalkType DEF LeadsTo
  <1>2. Walk(p).dir = d /\ Walk(p).name = n
    BY DEF LeadsTo
  <1> QED
    BY <1>1, <1>2 DEF Places

LEMMA InitFollows == Types /\ Init => Follows
  <1> SUFFICES ASSUME Types, Init PROVE Follows
    OBVIOUS
  <1>1. LeadsTo(<<>>, <<>>, <<>>)
    BY LeadsNowhere
  <1>2. IsCat(input, <<>>, path)
    BY DEF IsCat, Init, Types
  <1>3. Holds(buffer, len, Spelling(Enter(<<>>, <<>>)))
    <2>1. Spelling(Enter(<<>>, <<>>)) = <<>> /\ len = 0
      BY EnterIs, SpellingEmpty DEF Init
    <2> QED
      BY <2>1 DEF Holds
  <1>4. Between(<<>>, <<>>, <<>>)
    BY <1>3 DEF Between
  <1>5. sd
    BY DEF Init
  <1>6. Reading(<<>>, <<>>, <<>>)
    BY <1>1, <1>2, <1>4, <1>5 DEF Reading
  <1> QED
    BY <1>6 DEF Follows

(* The bytes that the loop has read are those of the path. *)
LEMMA OneRead ==
    ASSUME path \in Seq(Chars), NEW p, NEW d, NEW n, LeadsTo(p, d, n), IsCat(input, p, path),
           At(0) # NUL, Skip(1), UNCHANGED input
    PROVE  \E q : /\ IsCat(input', q, path') /\ q # <<>>
                  /\ At(0) = "/" => LeadsTo(q, Enter(d, n), <<>>)
                  /\ At(0) # "/" => LeadsTo(q, d, Append(n, At(0)))
  <1> DEFINE q == Upto(p, path, 1)
  <1>1. p \in Seq(Chars) /\ 1 \in 0..Len(path) /\ 0 \in 0..Len(path) - 1
    BY Reads DEF LeadsTo
  <1>2. At(0) = path[1] /\ At(0) \in Chars
    BY AtIs
  <1>3. q = Append(p, At(0))
    <2>1. Upto(p, path, 0 + 1) = Append(Upto(p, path, 0), path[0 + 1])
      BY <1>1, UptoStep
    <2> QED
      BY <1>1, <1>2, <2>1, UptoNone
  <1>4. IsCat(input, q, SubSeq(path, 1 + 1, Len(path)))
    BY <1>1, UptoIs
  <1>5. IsCat(input', q, path')
    BY <1>4 DEF Skip
  <1>6. q # <<>>
    BY <1>1, <1>2, <1>3
  <1>7. /\ At(0) = "/" => LeadsTo(q, Enter(d, n), <<>>)
        /\ At(0) # "/" => LeadsTo(q, d, Append(n, At(0)))
    BY <1>2, <1>3, LeadsOn
  <1> HIDE DEF q
  <1> QED
    BY <1>5, <1>6, <1>7

LEMMA UptoFirst ==
    ASSUME NEW T, NEW a \in Seq(T), NEW q \in Seq(T)
    PROVE  /\ Len(q) >= 1 => Upto(a, q, 1) = Append(a, q[1])
           /\ Len(q) >= 2 => Upto(a, q, 2) = Append(Upto(a, q, 1), q[2])
           /\ Len(q) >= 3 => Upto(a, q, 3) = Append(Upto(a, q, 2), q[3])
  <1>1. Len(q) \in Nat
    OBVIOUS
  <1>2. ASSUME Len(q) >= 1 PROVE Upto(a, q, 1) = Append(a, q[1])
    <2>1. 0 \in 0..Len(q) - 1 /\ 0 + 1 = 1
      BY <1>1, <1>2
    <2>2. Upto(a, q, 0 + 1) = Append(Upto(a, q, 0), q[0 + 1])
      BY <2>1, UptoStep
    <2> QED
      BY <2>1, <2>2, UptoNone
  <1>3. ASSUME Len(q) >= 2 PROVE Upto(a, q, 2) = Append(Upto(a, q, 1), q[2])
    <2>1. 1 \in 0..Len(q) - 1 /\ 1 + 1 = 2
      BY <1>1, <1>3
    <2>2. Upto(a, q, 1 + 1) = Append(Upto(a, q, 1), q[1 + 1])
      BY <2>1, UptoStep
    <2> QED
      BY <2>1, <2>2
  <1>4. ASSUME Len(q) >= 3 PROVE Upto(a, q, 3) = Append(Upto(a, q, 2), q[3])
    <2>1. 2 \in 0..Len(q) - 1 /\ 2 + 1 = 3
      BY <1>1, <1>4
    <2>2. Upto(a, q, 2 + 1) = Append(Upto(a, q, 2), q[2 + 1])
      BY <2>1, UptoStep
    <2> QED
      BY <2>1, <2>2
  <1> QED
    BY <1>2, <1>3, <1>4

(* A move of the loop over n characters. *)
LEMMA ManyRead ==
    ASSUME path \in Seq(Chars), NEW p \in Seq(Chars), IsCat(input, p, path),
           NEW n \in 1..Len(path), Skip(n), UNCHANGED input
    PROVE  /\ Upto(p, path, n) # <<>>
           /\ \E q : q = Upto(p, path, n) /\ IsCat(input', q, path')
  <1> DEFINE q == Upto(p, path, n)
  <1>1. n \in 0..Len(path) /\ Len(p) \in Nat
    OBVIOUS
  <1>2. q \in Seq(Chars) /\ Len(q) = Len(p) + n /\ IsCat(input, q, SubSeq(path, n + 1, Len(path)))
    BY <1>1, UptoIs
  <1>3. IsCat(input', q, path')
    BY <1>2 DEF Skip
  <1> HIDE DEF q
  <1>4. q # <<>>
    BY <1>1, <1>2
  <1> QED
    BY <1>3, <1>4 DEF q

LEMMA Dotted == "." \in Chars /\ "." # "/" /\ "/" \in Chars /\ "/" # NUL /\ "." # NUL
  BY PathAssumption DEF Chars

LEMMA TwoDots == Append(<<>>, ".") = <<".">> /\ Append(<<".">>, ".") = <<".", ".">>
  <1> DEFINE a == Append(<<".">>, ".")
             b == <<".", ".">>
  <1>1. a \in Seq({"."}) /\ b \in Seq({"."}) /\ Len(a) = 2 /\ Len(b) = 2
    OBVIOUS
  <1>2. \A i \in 1..2 : a[i] = "." /\ b[i] = "."
    BY <1>1
  <1> HIDE DEF a, b
  <1>3. a = b
    BY <1>1, <1>2, SameSeq
  <1>4. Append(<<>>, ".") = <<".">>
    OBVIOUS
  <1> QED
    BY <1>3, <1>4 DEF a, b

(* "." leads nowhere else. *)
LEMMA DotRead ==
    ASSUME path \in Seq(Chars), NEW p, NEW d, LeadsTo(p, d, <<>>), IsCat(input, p, path), Dot
    PROVE  \E q, dir, name : /\ IsCat(input', q, path') /\ q # <<>> /\ LeadsTo(q, dir, name)
                             /\ name = <<>> \/ path' = <<>>
                             /\ Enter(dir, name) = d
  <1>1. p \in Seq(Chars) /\ UNCHANGED input
    BY DEF LeadsTo, Dot
  <1>2. IsDot /\ At(0) = "." /\ At(1) \in {"/", NUL}
    BY DEF Dot, IsDot, Ends
  <1>3. At(0) = path[1] /\ 0 < Len(path) /\ Len(path) \in Nat
    BY <1>2, AtIs, Dotted
  <1>4. Upto(p, path, 1) = Append(p, ".") /\ 1 \in 1..Len(path)
    BY <1>1, <1>2, <1>3, UptoFirst
  <1>5. LeadsTo(Append(p, "."), d, <<".">>)
    <2>1. Append(<<>>, ".") = <<".">>
      OBVIOUS
    <2> QED
      BY <2>1, Dotted, LeadsOn
  <1>6. CASE At(1) = NUL
    <2>1. Skip(1) /\ Len(path) <= 1
      BY <1>6, AtIs DEF Dot
    <2>2. PICK q : q = Upto(p, path, 1) /\ IsCat(input', q, path') /\ q # <<>>
      BY <1>1, <1>4, <2>1, ManyRead
    <2>3. path' = <<>>
      <3>1. path' \in Seq(Chars) /\ Len(path') = Len(path) - 1
        BY <1>3, <2>1, SkipIs
      <3> QED
        BY <1>3, <2>1, <3>1
    <2>4. Enter(d, <<".">>) = d
      BY EnterIs
    <2> QED
      BY <1>4, <1>5, <2>2, <2>3, <2>4
  <1>7. CASE At(1) = "/"
    <2>1. Skip(2) /\ path[2] = "/" /\ 1 < Len(path)
      BY <1>7, AtIs, Dotted DEF Dot
    <2>2. 2 \in 1..Len(path) /\ Upto(p, path, 2) = Append(Upto(p, path, 1), "/")
      BY <1>1, <1>3, <2>1, UptoFirst
    <2>3. PICK q : q = Upto(p, path, 2) /\ IsCat(input', q, path') /\ q # <<>>
      BY <1>1, <2>1, <2>2, ManyRead
    <2>4. LeadsTo(q, Enter(d, <<".">>), <<>>)
      BY <1>4, <1>5, <2>2, <2>3, Dotted, LeadsOn
    <2>5. Enter(d, <<".">>) = d /\ Enter(d, <<>>) = d
      BY EnterIs
    <2> QED
      BY <2>3, <2>4, <2>5
  <1> QED
    BY <1>2, <1>6, <1>7

(* ".." leads to the directory above. *)
LEMMA DotDotRead ==
    ASSUME path \in Seq(Chars), NEW p, NEW d, LeadsTo(p, d, <<>>), IsCat(input, p, path), DotDot
    PROVE  \E q, dir, name : /\ IsCat(input', q, path') /\ q # <<>> /\ LeadsTo(q, dir, name)
                             /\ name = <<>> \/ path' = <<>>
                             /\ Enter(dir, name) = Enter(d, <<".", ".">>)
  <1>1. p \in Seq(Chars) /\ UNCHANGED input
    BY DEF LeadsTo, DotDot
  <1>2. At(0) = "." /\ At(1) = "." /\ At(2) \in {"/", NUL}
    BY DEF DotDot, IsDotDot, Ends
  <1>3. At(0) = path[1] /\ At(1) = path[2] /\ 1 < Len(path) /\ Len(path) \in Nat
    BY <1>2, AtIs, Dotted
  <1>4. /\ Upto(p, path, 1) = Append(p, ".")
        /\ Upto(p, path, 2) = Append(Upto(p, path, 1), ".") /\ 2 \in 1..Len(path)
    BY <1>1, <1>2, <1>3, UptoFirst
  <1>5. LeadsTo(Upto(p, path, 2), d, <<".", ".">>)
    <2>1. Append(<<>>, ".") = <<".">> /\ Append(<<".">>, ".") = <<".", ".">>
      BY TwoDots
    <2>2. LeadsTo(Upto(p, path, 1), d, <<".">>)
      BY <1>4, <2>1, Dotted, LeadsOn
    <2> QED
      BY <1>4, <2>1, <2>2, Dotted, LeadsOn
  <1>6. CASE At(2) = NUL
    <2>1. Skip(2) /\ Len(path) <= 2
      BY <1>6, AtIs DEF DotDot
    <2>2. PICK q : q = Upto(p, path, 2) /\ IsCat(input', q, path') /\ q # <<>>
      BY <1>1, <1>4, <2>1, ManyRead
    <2>3. path' = <<>>
      <3>1. path' \in Seq(Chars) /\ Len(path') = Len(path) - 2
        BY <1>3, <2>1, SkipIs
      <3> QED
        BY <1>3, <2>1, <3>1
    <2> QED
      BY <1>5, <2>2, <2>3
  <1>7. CASE At(2) = "/"
    <2>1. Skip(3) /\ path[3] = "/" /\ 2 < Len(path)
      BY <1>7, AtIs, Dotted DEF DotDot
    <2>2. 3 \in 1..Len(path) /\ Upto(p, path, 3) = Append(Upto(p, path, 2), "/")
      BY <1>1, <1>3, <2>1, UptoFirst
    <2>3. PICK q : q = Upto(p, path, 3) /\ IsCat(input', q, path') /\ q # <<>>
      BY <1>1, <2>1, <2>2, ManyRead
    <2>4. LeadsTo(q, Enter(d, <<".", ".">>), <<>>)
      BY <1>5, <2>2, <2>3, Dotted, LeadsOn
    <2>5. Enter(Enter(d, <<".", ".">>), <<>>) = Enter(d, <<".", ".">>)
      BY EnterIs
    <2> QED
      BY <2>3, <2>4, <2>5
  <1> QED
    BY <1>2, <1>6, <1>7

-----------------------------------------------------------------------------
(* The steps of the loop, for an absolute path. *)

(* Going back to the last separator forgets the last name, as the names    *)
(* have no slash of their own.                                             *)
LEMMA Above ==
    ASSUME len \in Nat, NEW d \in Seq(Plain), Holds(buffer, len, Spelling(d))
    PROVE  Holds(buffer, Parent(len), Spelling(Enter(d, <<".", ".">>)))
  <1>1. CASE d = <<>>
    <2>1. Enter(d, <<".", ".">>) = <<>> /\ Spelling(d) = <<>>
      BY <1>1, EnterIs, SpellingEmpty
    <2>2. len = 0
      BY <2>1 DEF Holds
    <2> QED
      BY <1>1, <2>1, <2>2, ParentEmpty
  <1>2. CASE d # <<>>
    <2>1. PICK f \in Seq(Plain), x \in Plain : d = Append(f, x)
      BY <1>2, SeqFront
    <2>2. Enter(d, <<".", ".">>) = f
      BY <1>2, <2>1, EnterIs, FrontIs
    <2> DEFINE r == Spelling(d)
               s == Spelling(f)
               k == Len(s)
    <2>3. /\ k \in Nat /\ Len(r) = k + 1 + Len(x) /\ r[k + 1] = "/"
          /\ \A i \in 1..k : r[i] = s[i]
          /\ \A i \in 1..Len(x) : r[k + 1 + i] # "/"
      BY <2>1, SpellingLast
    <2>4. len = Len(r) /\ \A i \in 1..len : buffer[i - 1] = r[i]
      BY DEF Holds
    <2> HIDE DEF r, s
    <2>5. Len(x) \in Nat
      BY DEF Plain
    <2> HIDE DEF k
    <2>6. k \in 0..len - 1 /\ k + 1 \in 1..len /\ (k + 1) - 1 = k
      BY <2>3, <2>4, <2>5
    <2>7. buffer[k] = "/"
      BY <2>3, <2>4, <2>6
    <2>8. ASSUME NEW j \in 0..len - 1, j > k PROVE buffer[j] # "/"
      <3> DEFINE i == j - k
      <3>1. i \in 1..Len(x) /\ k + 1 + i = j + 1 /\ j + 1 \in 1..len /\ (j + 1) - 1 = j
        BY <2>3, <2>4, <2>5, <2>8
      <3> HIDE DEF i
      <3> QED
        BY <2>3, <2>4, <3>1
    <2>9. Parent(len) = k
      BY <2>6, <2>7, <2>8, ParentIs
    <2>10. Holds(buffer, k, s)
      <3>1. \A i \in 1..k : i \in 1..len
        BY <2>6
      <3>2. \A i \in 1..k : buffer[i - 1] = s[i]
        BY <2>3, <2>4, <3>1
      <3> QED
        BY <3>2 DEF Holds, k
    <2> QED
      BY <2>2, <2>9, <2>10 DEF s
  <1> QED
    BY <1>1, <1>2

(* At the end of a name the buffer spells the directory that it leads to. *)
LEMMA NameEnds ==
    ASSUME Types, NEW p, NEW d, NEW n, Reading(p, d, n), Ends(At(0)), len <= Size
    PROVE  Holds(buffer, len, Spelling(Enter(d, n)))
  <1>1. CASE sd
    BY <1>1 DEF Reading, Between
  <1>2. CASE ~sd
    <2>1. Started(n) /\ Holds(buffer, len, Spelling(Append(d, n)))
      BY <1>2 DEF Reading, Within
    <2>2. n \notin {<<>>, <<".">>, <<".", ".">>}
      BY <2>1 DEF Started
    <2>3. Enter(d, n) = Append(d, n)
      BY <2>2, EnterIs
    <2> QED
      BY <2>1, <2>3
  <1> QED
    BY <1>1, <1>2

(* An absolute path starts with a slash, which is read first. *)
LEMMA SlashFirst ==
    ASSUME Types, fps, NEW p, IsCat(input, p, path), At(0) # "/"
    PROVE  p # <<>>
  <1> SUFFICES ASSUME p = <<>> PROVE FALSE
    OBVIOUS
  <1>1. path \in Seq(Chars) /\ input = path
    BY DEF Types, TypeOK, IsCat
  <1>2. 0 < Len(path) /\ path[1] = "/"
    BY <1>1 DEF fps
  <1> QED
    BY <1>2 DEF At

LEMMA SlashFollows ==
    ASSUME Types, fps, NEW p, NEW d, NEW n, Reading(p, d, n), Slash
    PROVE  \E q, dir, name : Reading(q, dir, name)'
  <1>1. path \in Seq(Chars) /\ LeadsTo(p, d, n) /\ IsCat(input, p, path)
    BY DEF Types, TypeOK, Reading
  <1>2. At(0) = "/" /\ At(0) # NUL /\ Skip(1) /\ UNCHANGED <<input, buffer, len>> /\ ps' = TRUE /\ sd' = TRUE
    BY Dotted DEF Slash
  <1>3. PICK q : IsCat(input', q, path') /\ LeadsTo(q, Enter(d, n), <<>>)
    BY <1>1, <1>2, OneRead
  <1>4. len <= Size => Holds(buffer, len, Spelling(Enter(d, n)))
    BY <1>2, NameEnds DEF Ends
  <1>5. PICK e : e = Enter(d, n)
    OBVIOUS
  <1>6. Enter(e, <<>>) = e
    BY EnterIs
  <1>7. len' <= Size => Holds(buffer', len', Spelling(Enter(e, <<>>)))
    BY <1>2, <1>4, <1>5, <1>6
  <1>8. Between(q, e, <<>>)'
    BY <1>2, <1>7 DEF Between
  <1>9. LeadsTo(q, e, <<>>)
    BY <1>3, <1>5
  <1>10. Reading(q, e, <<>>)'
    BY <1>2, <1>3, <1>8, <1>9 DEF Reading
  <1> QED
    BY <1>10

(* "." and "..": the name in front of the dots is empty. *)
LEMMA DotsBetween ==
    ASSUME Types, fps, NEW p, NEW d, NEW n, Reading(p, d, n), sd, At(0) = "."
    PROVE  /\ path \in Seq(Chars) /\ LeadsTo(p, d, n) /\ IsCat(input, p, path)
           /\ n = <<>> /\ ps /\ d \in Seq(Plain)
           /\ len <= Size => Holds(buffer, len, Spelling(d))
  <1>1. path \in Seq(Chars) /\ LeadsTo(p, d, n) /\ IsCat(input, p, path) /\ Between(p, d, n)
    BY DEF Types, TypeOK, Reading
  <1>2. p # <<>>
    BY <1>1, Dotted, SlashFirst
  <1>3. path # <<>>
    <2>1. 0 < Len(path)
      BY <1>1, Dotted, AtIs
    <2> QED
      BY <2>1
  <1>4. n = <<>> /\ ps
    BY <1>1, <1>2, <1>3 DEF Between
  <1>5. d \in Seq(Plain)
    BY <1>1, LeadsType
  <1>6. Enter(d, n) = d
    BY <1>4, EnterIs
  <1>7. len <= Size => Holds(buffer, len, Spelling(d))
    BY <1>1, <1>6 DEF Between
  <1> QED
    BY <1>1, <1>4, <1>5, <1>7

LEMMA DotFollows ==
    ASSUME Types, fps, NEW p, NEW d, NEW n, Reading(p, d, n), Dot
    PROVE  \E q, dir, name : Reading(q, dir, name)'
  <1>1. sd /\ At(0) = "." /\ UNCHANGED <<input, buffer, len, ps, sd>>
    BY DEF Dot, IsDot
  <1>2. /\ path \in Seq(Chars) /\ LeadsTo(p, d, <<>>) /\ IsCat(input, p, path) /\ ps
        /\ len <= Size => Holds(buffer, len, Spelling(d))
    BY <1>1, DotsBetween
  <1>3. PICK q, dir, name : /\ IsCat(input', q, path') /\ q # <<>> /\ LeadsTo(q, dir, name)
                            /\ name = <<>> \/ path' = <<>>
                            /\ Enter(dir, name) = d
    BY <1>2, DotRead
  <1>4. len' <= Size => Holds(buffer', len', Spelling(Enter(dir, name)))
    BY <1>1, <1>2, <1>3
  <1>5. Between(q, dir, name)'
    BY <1>1, <1>2, <1>3, <1>4 DEF Between
  <1>6. Reading(q, dir, name)'
    BY <1>1, <1>3, <1>5 DEF Reading
  <1> QED
    BY <1>6

LEMMA DotDotFollows ==
    ASSUME Types, fps, NEW p, NEW d, NEW n, Reading(p, d, n), DotDot
    PROVE  \E q, dir, name : Reading(q, dir, name)'
  <1>1. /\ sd /\ At(0) = "." /\ UNCHANGED <<input, buffer, sd>>
        /\ len' = IF len <= Size THEN Parent(len) ELSE len
    BY DEF DotDot, IsDotDot
  <1>2. /\ path \in Seq(Chars) /\ LeadsTo(p, d, <<>>) /\ IsCat(input, p, path) /\ d \in Seq(Plain)
        /\ len <= Size => Holds(buffer, len, Spelling(d))
    BY <1>1, DotsBetween
  <1>3. PICK q, dir, name : /\ IsCat(input', q, path') /\ q # <<>> /\ LeadsTo(q, dir, name)
                            /\ name = <<>> \/ path' = <<>>
                            /\ Enter(dir, name) = Enter(d, <<".", ".">>)
    BY <1>2, DotDotRead
  <1>4. ps'
    BY DEF DotDot
  <1>5. len' <= Size => Holds(buffer', len', Spelling(Enter(dir, name)))
    <2> SUFFICES ASSUME len' <= Size PROVE Holds(buffer', len', Spelling(Enter(dir, name)))
      OBVIOUS
    <2>1. len \in Nat
      BY DEF Types, TypeOK
    <2>2. len <= Size
      BY <1>1
    <2>3. Holds(buffer, Parent(len), Spelling(Enter(d, <<".", ".">>)))
      BY <1>2, <2>1, <2>2, Above
    <2> QED
      BY <1>1, <1>3, <2>2, <2>3
  <1>6. Between(q, dir, name)'
    BY <1>3, <1>4, <1>5 DEF Between
  <1>7. Reading(q, dir, name)'
    BY <1>1, <1>3, <1>6 DEF Reading
  <1> QED
    BY <1>7

(* A name that is being written is not going to be "." nor "..". *)
LEMMA StaysStarted ==
    ASSUME Types, NEW n \in Plain, Character, sd => n = <<>>, ~sd => Started(n),
           NEW c, c = At(0)
    PROVE  Started(Append(n, c))'
  <1>1. path \in Seq(Chars) /\ c # NUL /\ Skip(1) /\ ~IsDot /\ ~IsDotDot
    BY DEF Types, TypeOK, Character
  <1>2. c \in Chars /\ 1 \in 0..Len(path)
    BY <1>1, AtIs, Reads
  <1>3. At(0)' = At(1) /\ At(1)' = At(2)
    <2>1. \A k \in Nat : At(k)' = At(1 + k)
      BY <1>1, <1>2, SkipIs
    <2>2. At(0)' = At(1 + 0) /\ At(1)' = At(1 + 1)
      BY <2>1
    <2>3. 1 + 0 = 1 /\ 1 + 1 = 2
      OBVIOUS
    <2> QED
      BY <2>2, <2>3
  <1>4. n \in Seq(Chars)
    BY PlainChars
  <1> DEFINE m == Append(n, c)
  <1>5. m # <<>> /\ m \in Seq(Chars) /\ Len(m) = Len(n) + 1 /\ m[Len(n) + 1] = c
    BY <1>2, <1>4
  <1>6. ASSUME m = <<".">> PROVE ~Ends(At(1)) /\ ~(At(1) = "." /\ Ends(At(2)))
    <2>1. n = <<>> /\ c = "."
      <3>1. Len(<<".">>) = 1 /\ <<".">>[1] = "."
        OBVIOUS
      <3> HIDE DEF m
      <3>2. Len(n) = 0
        BY <1>4, <1>5, <1>6, <3>1
      <3> QED
        BY <1>4, <1>5, <1>6, <3>1, <3>2
    <2>2. sd
      BY <2>1 DEF Started
    <2> QED
      BY <1>1, <2>1, <2>2 DEF IsDot, IsDotDot
  <1>7. ASSUME m = <<".", ".">> PROVE ~Ends(At(1))
    <2>1. n = <<".">> /\ c = "."
      <3>1. Len(<<".", ".">>) = 2 /\ <<".", ".">>[2] = "." /\ <<".">> \in Seq(Chars)
        BY Dotted
      <3>2. c = "."
        <4> HIDE DEF m
        <4>1. Len(n) + 1 = 2
          BY <1>4, <1>5, <1>7, <3>1
        <4> QED
          BY <1>5, <1>7, <3>1, <4>1
      <3>3. Front(Append(n, c)) = n
        BY <1>2, <1>4, FrontIs
      <3>4. Front(Append(<<".">>, ".")) = <<".">>
        BY <3>1, Dotted, FrontIs
      <3> QED
        BY <1>7, <3>2, <3>3, <3>4, TwoDots
    <2>2. ~sd
      BY <2>1
    <2> QED
      BY <2>1, <2>2 DEF Started
  <1> HIDE DEF m
  <1>8. PICK name : name = m
    OBVIOUS
  <1>9. Started(name)'
    BY <1>3, <1>5, <1>6, <1>7, <1>8 DEF Started, Ends
  <1>10. name = Append(n, c)
    BY <1>8 DEF m
  <1> QED
    BY <1>9, <1>10

LEMMA CharacterFollows ==
    ASSUME Types, fps, NEW p, NEW d, NEW n, Reading(p, d, n), Character
    PROVE  \E q, dir, name : Reading(q, dir, name)'
  <1>1. /\ path \in Seq(Chars) /\ buffer \in Buffers /\ len \in Nat /\ sd \in BOOLEAN
        /\ LeadsTo(p, d, n) /\ IsCat(input, p, path)
    BY DEF Types, TypeOK, Reading, Buffers, Bytes
  <1>2. /\ At(0) # NUL /\ At(0) # "/" /\ Skip(1) /\ UNCHANGED input /\ ps' = FALSE /\ sd' = FALSE
        /\ buffer' = Put(Separator(buffer), Start, At(0)) /\ len' = Start + 1
    BY DEF Character
  <1>3. PICK c : c = At(0)
    OBVIOUS
  <1>4. c \in Chars \ {"/"} /\ path # <<>>
    <2>1. c \in Chars /\ 0 < Len(path)
      BY <1>1, <1>2, <1>3, AtIs
    <2> QED
      BY <1>2, <1>3, <2>1
  <1>5. PICK q : IsCat(input', q, path') /\ LeadsTo(q, d, Append(n, c))
    BY <1>1, <1>2, <1>3, OneRead
  <1>6. d \in Seq(Plain) /\ n \in Plain
    BY <1>1, LeadsType
  <1>7. /\ sd => n = <<>> /\ ps
        /\ ~sd => Started(n) /\ ~ps
    <2>1. p # <<>>
      BY <1>1, <1>2, SlashFirst
    <2> QED
      BY <1>4, <2>1 DEF Reading, Between, Within
  <1>8. Started(Append(n, c))'
    BY <1>3, <1>6, <1>7, StaysStarted
  <1>9. Size \in Nat \ {0}
    BY PathAssumption
  <1> DEFINE b == Separator(buffer)
  <1>10. /\ Start \in Nat /\ b \in Buffers
         /\ Start < Size => Holds(b, Start, Spelling(Append(d, n)))
    <2>1. CASE sd
      <3>1. b = Put(buffer, len, "/") /\ Start = len + 1
        BY <1>7, <2>1 DEF Separator, Start
      <3>2. b \in Buffers
        BY <1>1, <3>1, PutIs, Letters
      <3>3. ASSUME Start < Size PROVE Holds(b, Start, Spelling(Append(d, n)))
        <4>1. len < Size /\ len <= Size
          BY <1>1, <1>9, <3>1, <3>3
        <4>2. Enter(d, n) = d
          BY <1>7, <2>1, EnterIs
        <4>3. Holds(buffer, len, Spelling(d))
          BY <2>1, <4>1, <4>2 DEF Reading, Between
        <4>4. Spelling(d) \in Seq(Chars)
          BY <1>6, SpellingType
        <4>5. Holds(b, Start, Append(Spelling(d), "/"))
          BY <1>1, <3>1, <4>1, <4>3, <4>4, Dotted, HoldsAppend
        <4> QED
          BY <1>6, <1>7, <2>1, <4>5, SpellingStarts
      <3> QED
        BY <1>1, <3>1, <3>2, <3>3
    <2>2. CASE ~sd
      <3>1. b = buffer /\ Start = len
        BY <1>7, <2>2 DEF Separator, Start
      <3>2. len < Size => len <= Size
        BY <1>1, <1>9
      <3> QED
        BY <1>1, <2>2, <3>1, <3>2 DEF Reading, Within
    <2> QED
      BY <2>1, <2>2
  <1> HIDE DEF b
  <1>11. len' <= Size => Holds(buffer', len', Spelling(Append(d, Append(n, c))))
    <2> SUFFICES ASSUME len' <= Size PROVE Holds(buffer', len', Spelling(Append(d, Append(n, c))))
      OBVIOUS
    <2> DEFINE r == Spelling(Append(d, n))
    <2>1. Start < Size
      BY <1>2, <1>9, <1>10
    <2>2. r \in Seq(Chars)
      BY <1>6, SpellingLast
    <2>3. Spelling(Append(d, Append(n, c))) = Append(r, c)
      BY <1>4, <1>6, SpellingGrows
    <2> HIDE DEF r
    <2>4. Holds(Put(b, Start, c), Start + 1, Append(r, c))
      <3>1. c \in Chars /\ Holds(b, Start, r)
        BY <1>4, <1>10, <2>1 DEF r
      <3> QED
        BY <1>10, <2>1, <2>2, <3>1, HoldsAppend
    <2> QED
      BY <1>2, <1>3, <2>3, <2>4 DEF b
  <1>12. PICK name : name = Append(n, c)
    OBVIOUS
  <1>13. Within(d, name)'
    BY <1>2, <1>8, <1>11, <1>12 DEF Within
  <1>14. Reading(q, d, name)'
    BY <1>2, <1>5, <1>12, <1>13 DEF Reading
  <1> QED
    BY <1>14

LEMMA NextFollows == Types /\ Follows /\ [Next]_vars => Follows'
  <1> SUFFICES ASSUME Types, Follows, [Next]_vars, pc' = "loop", fps'
               PROVE  \E p, dir, name : Reading(p, dir, name)'
    BY DEF Follows
  <1>1. CASE Slash \/ Dot \/ DotDot \/ Character
    <2>1. pc = "loop" /\ UNCHANGED input
      BY <1>1 DEF Slash, Dot, DotDot, Character
    <2>2. fps
      BY <2>1 DEF fps
    <2>3. PICK p, d, n : Reading(p, d, n)
      BY <2>1, <2>2 DEF Follows
    <2>4. CASE Slash
      BY <2>2, <2>3, <2>4, SlashFollows
    <2>5. CASE Dot
      BY <2>2, <2>3, <2>5, DotFollows
    <2>6. CASE DotDot
      BY <2>2, <2>3, <2>6, DotDotFollows
    <2>7. CASE Character
      BY <2>2, <2>3, <2>7, CharacterFollows
    <2> QED
      BY <1>1, <2>4, <2>5, <2>6, <2>7
  <1>2. CASE Finish
    BY <1>2 DEF Finish
  <1>3. CASE UNCHANGED vars
    <2>1. UNCHANGED <<input, path, buffer, len, ps, sd, pc>>
      BY <1>3 DEF vars
    <2>2. pc = "loop" /\ fps
      BY <2>1 DEF fps
    <2>3. PICK p, d, n : Reading(p, d, n)
      BY <2>2 DEF Follows
    <2>4. Reading(p, d, n)'
      BY <2>1, <2>3 DEF Reading, Between, Within, Started, At, Ends
    <2> QED
      BY <2>4
  <1> QED
    BY <1>1, <1>2, <1>3 DEF Next, Done

-----------------------------------------------------------------------------
(* The result. *)

LEMMA SpellingNone ==
    ASSUME NEW names \in Seq(Plain), Len(Spelling(names)) = 0
    PROVE  names = <<>>
  <1> SUFFICES ASSUME names # <<>> PROVE FALSE
    OBVIOUS
  <1>1. PICK f \in Seq(Plain), x \in Plain : names = Append(f, x)
    BY SeqFront
  <1> DEFINE k == Len(Spelling(f))
             l == Len(x)
  <1>2. k \in Nat /\ k + 1 + l = 0
    BY <1>1, SpellingLast
  <1>3. l \in Nat
    BY DEF Plain
  <1> HIDE DEF k, l
  <1> QED
    BY <1>2, <1>3

LEMMA StandardIs ==
    ASSUME NEW d, NEW n, NEW p, LeadsTo(p, d, n)
    PROVE  /\ Enter(d, n) = <<>> => Standard(p) = <<"/">>
           /\ Enter(d, n) # <<>> => Standard(p) = Spelling(Enter(d, n))
  <1>1. Walk(p).dir = d /\ Walk(p).name = n
    BY DEF LeadsTo
  <1> QED
    BY <1>1 DEF Standard

LEMMA FinishStandard ==
    ASSUME Types, Follows, Finish
    PROVE  AbsoluteIsStandard'
  <1> SUFFICES ASSUME fps', len' < Size PROVE (Result = Standard(input) /\ buffer[len] = NUL)'
    BY DEF AbsoluteIsStandard
  <1>1. /\ pc = "loop" /\ At(0) = NUL /\ UNCHANGED <<input, path, ps, sd>>
        /\ path \in Seq(Chars) /\ input \in Seq(Chars) /\ len \in Nat /\ buffer \in Buffers
        /\ sd \in BOOLEAN
    BY DEF Finish, Types, TypeOK, Buffers, Bytes
  <1>2. fps
    BY <1>1 DEF fps
  <1>3. PICK p, d, n : Reading(p, d, n)
    BY <1>1, <1>2 DEF Follows
  <1>4. path = <<>>
    <2>1. Len(path) <= 0
      BY <1>1, AtIs
    <2> QED
      BY <1>1, <2>1
  <1>5. p = input /\ LeadsTo(p, d, n)
    <2>1. p \in Seq(Chars) /\ input = p \o path /\ LeadsTo(p, d, n)
      BY <1>3 DEF Reading, LeadsTo, IsCat
    <2>2. p \o <<>> = p
      BY <2>1
    <2> QED
      BY <1>4, <2>1, <2>2
  <1> DEFINE names == Enter(d, n)
             r == Spelling(names)
  <1>6. names \in Seq(Plain) /\ r \in Seq(Chars)
    BY <1>5, LeadsType, EnterType, SpellingType
  <1>7. Size \in Nat \ {0}
    BY PathAssumption
  <1>8. len <= Size => Holds(buffer, len, r)
    BY <1>1, <1>3, NameEnds DEF Ends
  <1>9. CASE len > 0 /\ buffer' = Put(buffer, len, NUL) /\ UNCHANGED len
    <2>1. len < Size /\ len <= Size
      BY <1>1, <1>7, <1>9
    <2>2. len = Len(r) /\ \A i \in 1..len : buffer[i - 1] = r[i]
      BY <1>8, <2>1 DEF Holds
    <2>3. buffer'[len] = NUL /\ \A i \in 0..Size - 1 : i # len => buffer'[i] = buffer[i]
      BY <1>1, <1>9, <2>1, Letters, PutIs
    <2>4. names # <<>>
      <3>1. CASE names = <<>>
        <4>1. Len(r) = 0
          BY <3>1, SpellingEmpty
        <4> QED
          BY <1>9, <2>2, <4>1
      <3> QED
        BY <3>1
    <2>5. Standard(input) = r
      BY <1>5, <2>4, StandardIs
    <2> HIDE DEF r
    <2>6. ASSUME NEW i \in 1..len PROVE buffer'[i - 1] = r[i]
      <3>1. i - 1 \in 0..Size - 1 /\ i - 1 # len
        BY <1>1, <1>7, <2>1
      <3> QED
        BY <2>2, <2>3, <3>1
    <2>7. [i \in 1..len |-> buffer'[i - 1]] = r
      <3>1. r = [i \in 1..len |-> r[i]]
        BY <1>6, <2>2
      <3> QED
        BY <2>6, <3>1
    <2>8. Result' = r
      BY <1>9, <2>7 DEF Result
    <2> QED
      BY <1>1, <1>9, <2>3, <2>5, <2>8
  <1>10. CASE /\ len = 0 /\ len' = 1
              /\ buffer' = Put(Put(buffer, 0, IF ps THEN "/" ELSE "."), 1, NUL)
    <2>1. 0 < Size /\ 1 < Size /\ len <= Size
      BY <1>7, <1>10
    <2>2. Len(r) = 0
      BY <1>8, <1>10, <2>1 DEF Holds
    <2>3. names = <<>>
      BY <1>6, <2>2, SpellingNone
    <2>4. Standard(input) = <<"/">>
      BY <1>5, <2>3, StandardIs
    <2>5. sd
      <3> SUFFICES ASSUME ~sd PROVE FALSE
        OBVIOUS
      <3>1. Started(n)
        BY <1>3 DEF Reading, Within
      <3>2. n \notin {<<>>, <<".">>, <<".", ".">>}
        BY <1>1, <3>1 DEF Started, Ends
      <3>3. names = Append(d, n)
        BY <3>2, EnterIs
      <3>4. d \in Seq(Plain) /\ n \in Plain
        BY <1>5, LeadsType
      <3>5. Append(d, n) # <<>>
        <4> HIDE DEF Plain
        <4>1. Append(d, n) \in Seq(Plain) /\ Len(Append(d, n)) = Len(d) + 1 /\ Len(d) \in Nat
          BY <3>4
        <4> QED
          BY <4>1
      <3> QED
        BY <2>3, <3>3, <3>5
    <2>6. ps
      <3>1. p # <<>>
        BY <1>2, <1>5 DEF fps
      <3> QED
        BY <1>3, <2>5, <3>1 DEF Reading, Between
    <2> DEFINE b == Put(buffer, 0, "/")
    <2>7. b \in Buffers /\ b[0] = "/"
      BY <1>1, <2>1, Letters, PutIs
    <2>8. buffer' = Put(b, 1, NUL)
      BY <1>10, <2>6
    <2> HIDE DEF b
    <2>9. buffer'[1] = NUL /\ buffer'[0] = "/"
      <3>1. 0 \in 0..Size - 1 /\ 0 # 1
        BY <2>1, <1>7
      <3> QED
        BY <2>1, <2>7, <2>8, <3>1, Letters, PutIs
    <2>10. Result' = <<"/">>
      <3>1. Result' = [i \in 1..1 |-> buffer'[i - 1]]
        BY <1>10 DEF Result
      <3>2. \A i \in 1..1 : buffer'[i - 1] = "/"
        <4>1. \A i \in 1..1 : i - 1 = 0
          OBVIOUS
        <4> QED
          BY <2>9, <4>1
      <3>3. [i \in 1..1 |-> buffer'[i - 1]] = [i \in 1..1 |-> "/"]
        BY <3>2
      <3>4. [i \in 1..1 |-> "/"] = <<"/">>
        OBVIOUS
      <3> QED
        BY <3>1, <3>3, <3>4
    <2> QED
      BY <1>1, <1>10, <2>4, <2>9, <2>10
  <1> QED
    BY <1>9, <1>10 DEF Finish

IInv == Types /\ Follows /\ AbsoluteIsStandard

LEMMA NextStandard == IInv /\ [Next]_vars => AbsoluteIsStandard'
  <1> SUFFICES ASSUME IInv, [Next]_vars PROVE AbsoluteIsStandard'
    OBVIOUS
  <1>1. CASE Slash \/ Dot \/ DotDot \/ Character
    <2>1. pc' # "done"
      BY <1>1 DEF Slash, Dot, DotDot, Character
    <2> QED
      BY <2>1 DEF AbsoluteIsStandard
  <1>2. CASE Finish
    BY <1>2, FinishStandard DEF IInv
  <1>3. CASE UNCHANGED vars
    <2>1. UNCHANGED <<input, buffer, len, pc>>
      BY <1>3 DEF vars
    <2>2. fps' = fps /\ Result' = Result
      BY <2>1 DEF fps, Result
    <2> QED
      BY <2>1, <2>2 DEF IInv, AbsoluteIsStandard
  <1> QED
    BY <1>1, <1>2, <1>3 DEF Next, Done

(* Whatever the absolute path and the size of the buffer, when path_std    *)
(* says that its result fits it is, terminated, the one spelling of the    *)
(* file that entering the names of the path one after the other reaches:   *)
(* no empty name, no dot, and ".." only ever removes the whole name before *)
(* it, also when the buffer was full in between.                           *)
THEOREM PathAbsoluteIsStandard == Spec => []AbsoluteIsStandard
  <1>1. Init => IInv
    <2>1. Init => AbsoluteIsStandard
      BY DEF Init, AbsoluteIsStandard
    <2> QED
      BY <2>1, InitTypes, InitFollows DEF IInv
  <1>2. IInv /\ [Next]_vars => IInv'
    BY NextTypes, NextFollows, NextStandard DEF IInv
  <1>3. IInv => AbsoluteIsStandard
    BY DEF IInv
  <1> QED
    BY <1>1, <1>2, <1>3, PTL DEF Spec

-----------------------------------------------------------------------------
(* The reference names files, and gives one spelling to each. *)

(* The names, from the root, of the file that a path leads to. *)
Target(p) == Enter(Walk(p).dir, Walk(p).name)

(* Names that lead somewhere. *)
Proper == Plain \ {<<>>, <<".">>, <<".", ".">>}

LEMMA ProperPlain == Proper \subseteq Plain /\ Seq(Proper) \subseteq Seq(Plain)
  <1>1. Proper \subseteq Plain
    BY DEF Proper
  <1>2. ASSUME NEW s \in Seq(Proper) PROVE s \in Seq(Plain)
    <2> HIDE DEF Proper, Plain
    <2> QED
      BY <1>1
  <1> QED
    BY <1>1, <1>2

LEMMA EnterProper ==
    ASSUME NEW dir \in Seq(Proper), NEW name \in Plain
    PROVE  Enter(dir, name) \in Seq(Proper)
  <1>1. CASE name \in {<<>>, <<".">>}
    BY <1>1, EnterIs
  <1>2. CASE name = <<".", ".">> /\ dir = <<>>
    BY <1>2, EnterIs
  <1>3. CASE name = <<".", ".">> /\ dir # <<>>
    <2>1. PICK f \in Seq(Proper), x \in Proper : dir = Append(f, x)
      BY <1>3, SeqFront
    <2> QED
      BY <1>3, <2>1, EnterIs, FrontIs
  <1>4. CASE name \notin {<<>>, <<".">>, <<".", ".">>}
    <2>1. name \in Proper
      BY <1>4 DEF Proper
    <2>2. Append(dir, name) \in Seq(Proper)
      <3> HIDE DEF Proper
      <3> QED
        BY <2>1
    <2> QED
      BY <1>4, <2>2, EnterIs
  <1> QED
    BY <1>1, <1>2, <1>3, <1>4

LEMMA TargetProper ==
    ASSUME NEW u \in Seq(Chars)
    PROVE  Walk(u).dir \in Seq(Proper) /\ Target(u) \in Seq(Proper)
  <1> DEFINE P(v) == Walk(v).dir \in Seq(Proper)
             G == {n \in Nat : \A v \in Seq(Chars) : Len(v) = n => P(v)}
  <1>1. 0 \in G
    <2>1. ASSUME NEW v \in Seq(Chars), Len(v) = 0 PROVE P(v)
      <3>1. v = <<>> /\ Nowhere.dir \in Seq(Proper)
        BY <2>1 DEF Nowhere
      <3> QED
        BY <3>1, WalkEmpty
    <2> HIDE DEF P
    <2> QED
      BY <2>1
  <1>2. ASSUME NEW n \in Nat, n \in G PROVE n + 1 \in G
    <2>1. ASSUME NEW v \in Seq(Chars), Len(v) = n + 1 PROVE P(v)
      <3>1. v # <<>> /\ Len(v) - 1 = n
        BY <2>1
      <3>2. PICK w \in Seq(Chars), c \in Chars : Len(w) = n /\ v = Append(w, c)
        BY <3>1, SeqFront
      <3>3. P(w)
        <4> HIDE DEF P
        <4> QED
          BY <1>2, <3>2
      <3>4. Walk(w).name \in Plain
        BY WalkType DEF Places
      <3>5. Walk(v) = Read(Walk(w), c)
        BY <3>2, WalkAppend
      <3>6. Walk(v).dir \in {Walk(w).dir, Enter(Walk(w).dir, Walk(w).name)}
        BY <3>5 DEF Read
      <3> QED
        BY <3>3, <3>4, <3>6, EnterProper
    <2> HIDE DEF P
    <2> QED
      BY <2>1
  <1> HIDE DEF G
  <1>3. Nat \subseteq G
    BY <1>1, <1>2, NatSet
  <1>4. P(u)
    <2> HIDE DEF P
    <2> QED
      BY <1>3 DEF G
  <1>5. Walk(u).name \in Plain
    BY WalkType DEF Places
  <1> QED
    BY <1>4, <1>5, EnterProper DEF Target

(* Reading a name. *)
LEMMA NameRead ==
    ASSUME NEW p, NEW d, LeadsTo(p, d, <<>>), NEW x \in Plain
    PROVE  LeadsTo(p \o x, d, x)
  <1> DEFINE P(y) == LeadsTo(p \o y, d, y)
             G == {n \in Nat : \A y \in Plain : Len(y) = n => P(y)}
  <1>0. p \in Seq(Chars)
    BY DEF LeadsTo
  <1>1. 0 \in G
    <2>1. ASSUME NEW y \in Plain, Len(y) = 0 PROVE P(y)
      <3>1. y = <<>> /\ p \o <<>> = p
        BY <1>0, <2>1 DEF Plain
      <3> QED
        BY <3>1
    <2> HIDE DEF P
    <2> QED
      BY <2>1
  <1>2. ASSUME NEW n \in Nat, n \in G PROVE n + 1 \in G
    <2>1. ASSUME NEW y \in Plain, Len(y) = n + 1 PROVE P(y)
      <3>1. y \in Seq(Chars \ {"/"}) /\ y # <<>> /\ Len(y) - 1 = n
        BY <2>1 DEF Plain
      <3>2. PICK w \in Seq(Chars \ {"/"}), c \in Chars \ {"/"} : Len(w) = n /\ y = Append(w, c)
        BY <3>1, SeqFront
      <3>3. w \in Plain /\ w \in Seq(Chars) /\ c \in Chars /\ c # "/"
        BY <3>2 DEF Plain
      <3>4. P(w)
        <4> HIDE DEF P
        <4> QED
          BY <1>2, <3>2, <3>3
      <3>5. p \o y = Append(p \o w, c)
        <4>1. p \o Append(w, c) = Append(p \o w, c)
          BY <1>0, <3>3, CatAppend
        <4> QED
          BY <3>2, <4>1
      <3>6. LeadsTo(Append(p \o w, c), d, Append(w, c))
        BY <3>3, <3>4, LeadsOn
      <3> QED
        BY <3>2, <3>5, <3>6
    <2> HIDE DEF P
    <2> QED
      BY <2>1
  <1> HIDE DEF G
  <1>3. Nat \subseteq G
    BY <1>1, <1>2, NatSet
  <1>4. Len(x) \in Nat
    BY DEF Plain
  <1>5. P(x)
    <2> HIDE DEF P
    <2> QED
      BY <1>3, <1>4 DEF G
  <1> QED
    BY <1>5

(* A spelling leads to the names that it spells. *)
LEMMA SpellingLeads ==
    ASSUME NEW names \in Seq(Proper)
    PROVE  Spelling(names) \in Seq(Chars) /\ Target(Spelling(names)) = names
  <1> DEFINE P(m) == \E g, y : LeadsTo(Spelling(m), g, y) /\ Enter(g, y) = m
             G == {n \in Nat : \A m \in Seq(Proper) : Len(m) = n => P(m)}
  <1>1. 0 \in G
    <2>1. ASSUME NEW m \in Seq(Proper), Len(m) = 0 PROVE P(m)
      <3>1. m = <<>>
        BY <2>1
      <3>2. LeadsTo(Spelling(<<>>), <<>>, <<>>)
        BY SpellingEmpty, LeadsNowhere
      <3>3. Enter(<<>>, <<>>) = <<>>
        BY EnterIs
      <3> QED
        BY <3>1, <3>2, <3>3
    <2> HIDE DEF P
    <2> QED
      BY <2>1
  <1>2. ASSUME NEW n \in Nat, n \in G PROVE n + 1 \in G
    <2>1. ASSUME NEW m \in Seq(Proper), Len(m) = n + 1 PROVE P(m)
      <3>1. m # <<>> /\ Len(m) - 1 = n
        BY <2>1
      <3>2. PICK f \in Seq(Proper), x \in Proper : Len(f) = n /\ m = Append(f, x)
        BY <3>1, SeqFront
      <3>3. P(f)
        <4> HIDE DEF P
        <4> QED
          BY <1>2, <3>2
      <3>4. PICK g, y : LeadsTo(Spelling(f), g, y) /\ Enter(g, y) = f
        BY <3>3
      <3>5. LeadsTo(Append(Spelling(f), "/"), f, <<>>)
        BY <3>4, Dotted, LeadsOn
      <3>6. x \in Plain /\ f \in Seq(Plain)
        BY ProperPlain
      <3>7. LeadsTo(Append(Spelling(f), "/") \o x, f, x)
        BY <3>5, <3>6, NameRead
      <3>8. Spelling(m) = Append(Spelling(f), "/") \o x
        <4> DEFINE s == Spelling(f)
                   e == <<"/">>
        <4>1. s \in Seq(Chars) /\ e \in Seq(Chars) /\ x \in Seq(Chars) /\ "/" \in Chars
          BY <3>6, SpellingType, PlainChars, Dotted
        <4>2. Spelling(m) = s \o (e \o x)
          BY <3>2, <3>6, SpellingAppend
        <4>3. s \o e = Append(s, "/")
          <5> HIDE DEF s
          <5> QED
            BY <4>1
        <4> HIDE DEF s, e
        <4>4. (s \o e) \o x = s \o (e \o x)
          BY <4>1, Associative
        <4> QED
          BY <4>2, <4>3, <4>4 DEF s
      <3>9. Enter(f, x) = m
        <4>1. x \notin {<<>>, <<".">>, <<".", ".">>}
          BY DEF Proper
        <4> QED
          BY <3>2, <4>1, EnterIs
      <3> QED
        BY <3>7, <3>8, <3>9
    <2> HIDE DEF P
    <2> QED
      BY <2>1
  <1> HIDE DEF G
  <1>3. Nat \subseteq G
    BY <1>1, <1>2, NatSet
  <1>4. P(names)
    <2> HIDE DEF P
    <2>1. Len(names) \in Nat
      OBVIOUS
    <2> QED
      BY <1>3, <2>1 DEF G
  <1>5. PICK g, y : LeadsTo(Spelling(names), g, y) /\ Enter(g, y) = names
    BY <1>4
  <1> QED
    BY <1>5 DEF LeadsTo, Target

(* The spelling that path_std gives, Standard, still names the file that   *)
(* the path named, symbolic links aside.  So two absolute paths, which     *)
(* context_add_path compares by their spelling, are refused as duplicates  *)
(* exactly when they name the same file, and normalising once more changes *)
(* nothing.                                                                *)
THEOREM StandardIsCanonical ==
    ASSUME NEW p \in Seq(Chars)
    PROVE  /\ Target(Standard(p)) = Target(p)
           /\ Standard(Standard(p)) = Standard(p)
           /\ \A q \in Seq(Chars) : Standard(q) = Standard(p) <=> Target(q) = Target(p)
  <1>1. ASSUME NEW q
        PROVE  Standard(q) = IF Target(q) = <<>> THEN <<"/">> ELSE Spelling(Target(q))
    BY DEF Standard, Target
  <1>2. Target(<<"/">>) = <<>>
    <2>2. LeadsTo(Append(<<>>, "/"), Enter(<<>>, <<>>), <<>>)
      BY LeadsNowhere, Dotted, LeadsOn
    <2>3. Append(<<>>, "/") = <<"/">> /\ Enter(<<>>, <<>>) = <<>>
      BY EnterIs
    <2>4. LeadsTo(<<"/">>, <<>>, <<>>)
      BY <2>2, <2>3
    <2> QED
      BY <2>3, <2>4 DEF LeadsTo, Target
  <1>3. ASSUME NEW q \in Seq(Chars)
        PROVE  Target(Standard(q)) = Target(q)
    <2>1. CASE Target(q) = <<>>
      BY <1>1, <1>2, <2>1
    <2>2. CASE Target(q) # <<>>
      <3>1. Target(q) \in Seq(Proper)
        BY TargetProper
      <3> QED
        BY <1>1, <2>2, <3>1, SpellingLeads
    <2> QED
      BY <2>1, <2>2
  <1>4. Standard(Standard(p)) = Standard(p)
    BY <1>1, <1>3
  <1>5. ASSUME NEW q \in Seq(Chars)
        PROVE  Standard(q) = Standard(p) <=> Target(q) = Target(p)
    BY <1>1, <1>3
  <1> QED
    BY <1>3, <1>4, <1>5

=============================================================================
