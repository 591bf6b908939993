---------------------------- MODULE MsfsProgramProofs ----------------------------
(***************************************************************************)
(* MsfsProgramProofs: what holds of every run of the program for Microsoft *)
(* Flight Simulator, for any files that a user may leave.                  *)
(***************************************************************************)
EXTENDS MsfsProgram, TLAPS, FiniteSetTheorems, WellFoundedInduction

-----------------------------------------------------------------------------
(* Sequences                                                               *)

(* A set of numbers that is not empty has a least one.                     *)
LEMMA Least ==
    ASSUME NEW T \in SUBSET Nat, T # {}
    PROVE  \E x \in T : \A y \in T : x <= y
<1> DEFINE R == OpToRel(<, Nat)
<1>1. IsWellFoundedOn(R, Nat)
  BY NatLessThanWellFounded
<1>2. \A y \in Nat, x \in Nat : <<y, x>> \in R <=> y < x
  BY DEF OpToRel
<1> HIDE DEF R
<1>3. PICK x \in T : \A y \in T : ~ (<<y, x>> \in R)
  BY <1>1, WFMin
<1>4. ASSUME NEW y \in T PROVE x <= y
  <2>1. x \in Nat /\ y \in Nat
    OBVIOUS
  <2>2. ~ (<<y, x>> \in R)
    BY <1>3
  <2>3. ~ (y < x)
    BY <1>2, <2>1, <2>2
  <2> QED
    BY <2>1, <2>3
<1> QED
  BY <1>4

(* A sequence of whatever occurs in it, after it grew or was shortened.    *)
LEMMA Grown ==
    ASSUME NEW s, IsSeq(s), NEW x
    PROVE  /\ IsSeq(Append(s, x)) /\ Append(s, x) # <<>>
           /\ Append(s, x)[Len(Append(s, x))] = x
<1>1. s \in Seq(Elements(s) \cup {x})
  BY DEF IsSeq
<1>2. Append(s, x) \in Seq(Elements(s) \cup {x}) /\ Len(Append(s, x)) = Len(s) + 1
  BY <1>1
<1>3. Append(s, x)[Len(s) + 1] = x /\ Len(s) + 1 \in DOMAIN Append(s, x)
  BY <1>1
<1>4. \A i \in DOMAIN Append(s, x) : Append(s, x)[i] \in Elements(Append(s, x))
  BY DEF Elements
<1> QED
  BY <1>2, <1>3, <1>4 DEF IsSeq

LEMMA Shortened ==
    ASSUME NEW s, IsSeq(s), s # <<>>
    PROVE  /\ IsSeq(Tail(s))
           /\ Tail(s) # <<>> => Tail(s)[Len(Tail(s))] = s[Len(s)]
           /\ Tail(s) = <<>> => Head(s) = s[Len(s)]
<1>1. PICK t : t = Tail(s)
  OBVIOUS
<1>2. t \in Seq(Elements(s)) /\ Len(t) = Len(s) - 1 /\ Len(s) \in Nat \ {0}
  BY <1>1 DEF IsSeq
<1>3. \A i \in 1..Len(s) - 1 : t[i] = s[i + 1]
  BY <1>1 DEF IsSeq
<1>4. IsSeq(t)
  <2>1. \A i \in DOMAIN t : t[i] \in Elements(t)
    BY DEF Elements
  <2> QED
    BY <1>2, <2>1 DEF IsSeq
<1>5. t = <<>> => Len(s) = 1
  BY <1>2
<1>6. Head(s) = s[1]
  BY DEF IsSeq
<1> QED
  BY <1>1, <1>2, <1>3, <1>4, <1>5, <1>6

(* What is appended to, or follows, a sequence.  The results have names,   *)
(* so that the facts can be used of any of them.                           *)
IsConcat(c, a, b)   == c = a \o b
IsAppended(c, a, x) == c = Append(a, x)

Joined(E, c, a, b) == /\ c \in Seq(E) /\ Len(c) = Len(a) + Len(b)
                      /\ \A i \in 1..Len(a) : c[i] = a[i]
                      /\ \A i \in 1..Len(b) : c[Len(a) + i] = b[i]

LEMMA ConcatIs ==
    ASSUME NEW E, NEW a \in Seq(E), NEW b \in Seq(E), NEW c, IsConcat(c, a, b)
    PROVE  Joined(E, c, a, b)
BY DEF IsConcat, Joined

Longer(E, c, a, x) == /\ c \in Seq(E) /\ Len(c) = Len(a) + 1
                      /\ \A i \in 1..Len(a) : c[i] = a[i]
                      /\ c[Len(a) + 1] = x

LEMMA AppendIs ==
    ASSUME NEW E, NEW a \in Seq(E), NEW x \in E, NEW c, IsAppended(c, a, x)
    PROVE  Longer(E, c, a, x)
BY DEF IsAppended, Longer

LEMMA SameSeq ==
    ASSUME NEW E, NEW a \in Seq(E), NEW b \in Seq(E), Len(a) = Len(b),
           \A i \in 1..Len(a) : a[i] = b[i]
    PROVE  a = b
OBVIOUS

LEMMA AppendConcat ==
    ASSUME NEW E, NEW a \in Seq(E), NEW b \in Seq(E), NEW x \in E, NEW c, NEW d, NEW l, NEW r,
           IsConcat(c, a, b), IsAppended(d, b, x), IsAppended(l, c, x), IsConcat(r, a, d)
    PROVE  l = r
<1>1. /\ c \in Seq(E) /\ Len(c) = Len(a) + Len(b)
      /\ \A i \in 1..Len(a) : c[i] = a[i]
      /\ \A i \in 1..Len(b) : c[Len(a) + i] = b[i]
  BY ConcatIs DEF Joined
<1>2. /\ d \in Seq(E) /\ Len(d) = Len(b) + 1 /\ d[Len(b) + 1] = x
      /\ \A i \in 1..Len(b) : d[i] = b[i]
  BY AppendIs DEF Longer
<1>3. /\ l \in Seq(E) /\ Len(l) = Len(c) + 1 /\ l[Len(c) + 1] = x
      /\ \A i \in 1..Len(c) : l[i] = c[i]
  <2>1. c \in Seq(E)
    BY <1>1
  <2>2. Longer(E, l, c, x)
    BY <2>1, AppendIs, Zenon
  <2> QED
    BY <2>2 DEF Longer
<1>4. /\ r \in Seq(E) /\ Len(r) = Len(a) + Len(d)
      /\ \A i \in 1..Len(a) : r[i] = a[i]
      /\ \A i \in 1..Len(d) : r[Len(a) + i] = d[i]
  BY <1>2, ConcatIs DEF Joined
<1>5. Len(a) \in Nat /\ Len(b) \in Nat
  OBVIOUS
<1>6. ASSUME NEW i \in 1..Len(l)
      PROVE  l[i] = r[i]
  <2>1. CASE i \in 1..Len(a)
    BY <1>1, <1>3, <1>4, <1>5, <2>1
  <2>2. CASE i \notin 1..Len(a)
    <3>1. PICK j \in 1..Len(b) + 1 : i = Len(a) + j
      <4>1. i - Len(a) \in 1..Len(b) + 1 /\ i = Len(a) + (i - Len(a))
        BY <1>1, <1>3, <1>5, <2>2
      <4> QED
        BY <4>1
    <3>2. r[i] = d[j]
      BY <1>2, <1>4, <3>1
    <3>3. CASE j \in 1..Len(b)
      BY <1>1, <1>2, <1>3, <1>5, <3>1, <3>2, <3>3
    <3>4. CASE j = Len(b) + 1
      BY <1>1, <1>2, <1>3, <1>5, <3>1, <3>2, <3>4
    <3> QED
      BY <1>5, <3>1, <3>3, <3>4
  <2> QED
    BY <2>1, <2>2
<1>7. Len(l) = Len(r)
  BY <1>1, <1>2, <1>3, <1>4, <1>5
<1> QED
  BY <1>3, <1>4, <1>6, <1>7, SameSeq

LEMMA ConcatAssoc ==
    ASSUME NEW E, NEW a \in Seq(E), NEW b \in Seq(E), NEW c \in Seq(E), NEW ab, NEW bc,
           NEW l, NEW r,
           IsConcat(ab, a, b), IsConcat(bc, b, c), IsConcat(l, ab, c), IsConcat(r, a, bc)
    PROVE  l = r
<1>1. Joined(E, ab, a, b) /\ Joined(E, bc, b, c)
  BY ConcatIs, Zenon
<1>2. ab \in Seq(E) /\ bc \in Seq(E)
  BY <1>1 DEF Joined
<1>3. Joined(E, l, ab, c)
  BY <1>2, ConcatIs, Zenon
<1>4. Joined(E, r, a, bc)
  BY <1>2, ConcatIs, Zenon
<1>5. PICK k, m, n \in Nat : k = Len(a) /\ m = Len(b) /\ n = Len(c)
  OBVIOUS
<1>6. ASSUME NEW i \in 1..Len(l)
      PROVE  l[i] = r[i]
  <2>1. CASE i \in 1..k
    BY <1>1, <1>3, <1>4, <1>5, <2>1 DEF Joined
  <2>2. CASE i - k \in 1..m
    <3>1. PICK j \in 1..m : i = k + j
      <4>1. i = k + (i - k)
        BY <1>1, <1>3, <1>5 DEF Joined
      <4> QED
        BY <2>2, <4>1
    <3>2. l[i] = b[j]
      BY <1>1, <1>3, <1>5, <3>1 DEF Joined
    <3>3. r[i] = b[j]
      BY <1>1, <1>4, <1>5, <3>1 DEF Joined
    <3> QED
      BY <3>2, <3>3
  <2>3. CASE i - (k + m) \in 1..n
    <3>1. PICK j \in 1..n : i = k + m + j
      <4>1. i = k + m + (i - (k + m))
        BY <1>1, <1>3, <1>5 DEF Joined
      <4> QED
        BY <2>3, <4>1
    <3>2. l[i] = c[j]
      BY <1>1, <1>3, <1>5, <3>1 DEF Joined
    <3>3. m + j \in 1..m + n /\ i = k + (m + j)
      BY <1>5, <3>1
    <3>4. r[i] = c[j]
      BY <1>1, <1>4, <1>5, <3>1, <3>3 DEF Joined
    <3> QED
      BY <3>2, <3>4
  <2> QED
    BY <1>1, <1>3, <1>5, <2>1, <2>2, <2>3 DEF Joined
<1>7. Len(l) = Len(r)
  BY <1>1, <1>3, <1>4, <1>5 DEF Joined
<1> QED
  BY <1>3, <1>4, <1>6, <1>7, SameSeq DEF Joined

-----------------------------------------------------------------------------
(* Subsequences                                                            *)

(* f is what is kept of every beginning of s up to the length m.           *)
Sifts(f, s, S, m) ==
    f = [n \in 0..m |-> IF n = 0 THEN <<>>
                        ELSE IF s[n] \in S THEN Append(f[n - 1], s[n]) ELSE f[n - 1]]

LEMMA SiftsExist ==
    ASSUME NEW s, NEW S, NEW m \in Nat
    PROVE  \E f : Sifts(f, s, S, m)
<1> DEFINE T == {n \in Nat : ~ \E f : Sifts(f, s, S, n)}
<1>1. SUFFICES ASSUME T # {} PROVE FALSE
  OBVIOUS
<1>2. PICK n \in T : \A k \in T : n <= k
  <2>1. T \in SUBSET Nat
    OBVIOUS
  <2> QED
    BY <1>1, <2>1, Least
<1>3. n # 0
  <2>1. Sifts([i \in 0..0 |-> <<>>], s, S, 0)
    BY DEF Sifts
  <2> QED
    BY <1>2, <2>1
<1>4. n - 1 \in Nat /\ n - 1 \notin T
  BY <1>2, <1>3
<1>5. PICK g : Sifts(g, s, S, n - 1)
  BY <1>4
<1> DEFINE h == [i \in 0..n |-> IF i = n
                                THEN IF s[n] \in S THEN Append(g[n - 1], s[n]) ELSE g[n - 1]
                                ELSE g[i]]
<1>6. \A i \in 0..n - 1 : h[i] = g[i]
  BY <1>4
<1>7. h[n] = IF s[n] \in S THEN Append(g[n - 1], s[n]) ELSE g[n - 1]
  BY <1>4
<1>8. h = [i \in 0..n |-> h[i]]
  OBVIOUS
<1> HIDE DEF h
<1>9. ASSUME NEW i \in 0..n
      PROVE  h[i] = IF i = 0 THEN <<>>
                    ELSE IF s[i] \in S THEN Append(h[i - 1], s[i]) ELSE h[i - 1]
  <2>1. CASE i = n
    BY <1>3, <1>4, <1>6, <1>7, <2>1
  <2>2. CASE i # n
    <3>1. i \in 0..n - 1 /\ (i # 0 => i - 1 \in 0..n - 1)
      BY <1>4, <2>2
    <3>2. g[i] = IF i = 0 THEN <<>>
                 ELSE IF s[i] \in S THEN Append(g[i - 1], s[i]) ELSE g[i - 1]
      BY <1>5, <3>1 DEF Sifts
    <3> QED
      BY <1>6, <3>1, <3>2
  <2> QED
    BY <2>1, <2>2
<1>10. Sifts(h, s, S, n)
  BY <1>8, <1>9 DEF Sifts
<1> QED
  BY <1>2, <1>10

(* Only is the last of the function that it is defined with.               *)
LEMMA OnlySifts ==
    ASSUME NEW s, NEW S, Len(s) \in Nat
    PROVE  \E f : Sifts(f, s, S, Len(s)) /\ Only(s, S) = f[Len(s)]
<1> DEFINE f == CHOOSE f : Sifts(f, s, S, Len(s))
<1>1. Sifts(f, s, S, Len(s))
  BY SiftsExist
<1>2. Only(s, S) = f[Len(s)]
  BY Zenon DEF Only, Sifts
<1> QED
  BY <1>1, <1>2

LEMMA SiftsStep ==
    ASSUME NEW f, NEW s, NEW S, NEW m \in Nat, Sifts(f, s, S, m)
    PROVE  /\ f[0] = <<>>
           /\ \A i \in 1..m : f[i] = IF s[i] \in S THEN Append(f[i - 1], s[i]) ELSE f[i - 1]
<1>1. \A i \in 0..m : f[i] = IF i = 0 THEN <<>>
                             ELSE IF s[i] \in S THEN Append(f[i - 1], s[i]) ELSE f[i - 1]
  BY DEF Sifts
<1>2. 0 \in 0..m /\ \A i \in 1..m : i \in 0..m /\ i # 0
  OBVIOUS
<1> QED
  BY <1>1, <1>2

LEMMA AppendTyped ==
    ASSUME NEW E, NEW s \in Seq(E), NEW x \in E
    PROVE  Append(s, x) \in Seq(E)
OBVIOUS

(* What is kept occurs in the sequence, and is to be kept.                 *)
LEMMA OnlyElements ==
    ASSUME NEW E, NEW s \in Seq(E), NEW S
    PROVE  Only(s, S) \in Seq(E \cap S)
<1>1. PICK f : Sifts(f, s, S, Len(s)) /\ Only(s, S) = f[Len(s)]
  BY OnlySifts
<1>2. /\ f[0] = <<>>
      /\ \A i \in 1..Len(s) : f[i] = IF s[i] \in S THEN Append(f[i - 1], s[i]) ELSE f[i - 1]
  BY <1>1, SiftsStep
<1> DEFINE T == {n \in 0..Len(s) : f[n] \notin Seq(E \cap S)}
<1>3. T = {}
  <2>1. SUFFICES ASSUME T # {} PROVE FALSE
    OBVIOUS
  <2>2. PICK n \in T : \A k \in T : n <= k
    <3>1. T \in SUBSET Nat
      OBVIOUS
    <3> QED
      BY <2>1, <3>1, Least
  <2>3. n # 0
    <3>1. <<>> \in Seq(E \cap S)
      OBVIOUS
    <3> QED
      BY <1>2, <2>2, <3>1
  <2>4. n - 1 \in 0..Len(s) /\ n - 1 \notin T /\ n \in 1..Len(s)
    BY <2>2, <2>3
  <2>5. f[n - 1] \in Seq(E \cap S) /\ s[n] \in E
    BY <2>4
  <2>6. CASE s[n] \in S
    <3>1. s[n] \in E \cap S
      BY <2>5, <2>6
    <3>2. Append(f[n - 1], s[n]) \in Seq(E \cap S)
      BY <2>5, <3>1, AppendTyped
    <3> QED
      BY <1>2, <2>2, <2>4, <2>6, <3>2
  <2>7. CASE s[n] \notin S
    BY <1>2, <2>2, <2>4, <2>5, <2>7
  <2> QED
    BY <2>6, <2>7
<1> QED
  BY <1>1, <1>3

(* Two sequences of what is to be kept agree if they do on what there is.  *)
LEMMA OnlyAgree ==
    ASSUME NEW E, NEW s \in Seq(E), NEW S, NEW T, \A x \in Elements(s) : x \in S <=> x \in T
    PROVE  Only(s, S) = Only(s, T)
<1>1. PICK f : Sifts(f, s, S, Len(s)) /\ Only(s, S) = f[Len(s)]
  BY OnlySifts
<1>2. PICK g : Sifts(g, s, T, Len(s)) /\ Only(s, T) = g[Len(s)]
  BY OnlySifts
<1>3. /\ f[0] = <<>>
      /\ \A i \in 1..Len(s) : f[i] = IF s[i] \in S THEN Append(f[i - 1], s[i]) ELSE f[i - 1]
  BY <1>1, SiftsStep
<1>4. /\ g[0] = <<>>
      /\ \A i \in 1..Len(s) : g[i] = IF s[i] \in T THEN Append(g[i - 1], s[i]) ELSE g[i - 1]
  BY <1>2, SiftsStep
<1> DEFINE D == {n \in 0..Len(s) : f[n] # g[n]}
<1>5. D = {}
  <2>1. SUFFICES ASSUME D # {} PROVE FALSE
    OBVIOUS
  <2>2. PICK n \in D : \A k \in D : n <= k
    <3>1. D \in SUBSET Nat
      OBVIOUS
    <3> QED
      BY <2>1, <3>1, Least
  <2>3. n # 0
    BY <1>3, <1>4, <2>2
  <2>4. n - 1 \in 0..Len(s) /\ n - 1 \notin D /\ n \in 1..Len(s)
    BY <2>2, <2>3
  <2>5. f[n - 1] = g[n - 1] /\ (s[n] \in S <=> s[n] \in T)
    BY <2>4 DEF Elements
  <2> QED
    BY <1>3, <1>4, <2>2, <2>4, <2>5
<1> QED
  BY <1>1, <1>2, <1>5

(* What is kept of two sequences, one after the other.                     *)
LEMMA OnlyConcat ==
    ASSUME NEW E, NEW s \in Seq(E), NEW t \in Seq(E), NEW S, NEW st, IsConcat(st, s, t)
    PROVE  IsConcat(Only(st, S), Only(s, S), Only(t, S))
<1>1. st \in Seq(E) /\ Len(st) = Len(s) + Len(t) /\ Len(s) \in Nat /\ Len(t) \in Nat
  BY ConcatIs DEF Joined
<1>2. /\ \A i \in 1..Len(s) : st[i] = s[i]
      /\ \A i \in 1..Len(t) : st[Len(s) + i] = t[i]
  BY ConcatIs DEF Joined
<1>3. PICK f : Sifts(f, s, S, Len(s)) /\ Only(s, S) = f[Len(s)]
  BY OnlySifts
<1>4. PICK g : Sifts(g, t, S, Len(t)) /\ Only(t, S) = g[Len(t)]
  BY OnlySifts
<1>5. PICK h : Sifts(h, st, S, Len(st)) /\ Only(st, S) = h[Len(st)]
  BY <1>1, OnlySifts
<1>6. /\ f[0] = <<>>
      /\ \A i \in 1..Len(s) : f[i] = IF s[i] \in S THEN Append(f[i - 1], s[i]) ELSE f[i - 1]
  BY <1>3, SiftsStep
<1>7. /\ g[0] = <<>>
      /\ \A i \in 1..Len(t) : g[i] = IF t[i] \in S THEN Append(g[i - 1], t[i]) ELSE g[i - 1]
  BY <1>4, SiftsStep
<1>8. /\ h[0] = <<>>
      /\ \A i \in 1..Len(st) : h[i] = IF st[i] \in S THEN Append(h[i - 1], st[i]) ELSE h[i - 1]
  BY <1>1, <1>5, SiftsStep
<1> DEFINE D == {n \in 0..Len(s) : f[n] # h[n]}
<1>9. D = {}
  <2>1. SUFFICES ASSUME D # {} PROVE FALSE
    OBVIOUS
  <2>2. PICK n \in D : \A k \in D : n <= k
    <3>1. D \in SUBSET Nat
      OBVIOUS
    <3> QED
      BY <2>1, <3>1, Least
  <2>3. n # 0
    BY <1>6, <1>8, <2>2
  <2>4. n - 1 \in 0..Len(s) /\ n - 1 \notin D /\ n \in 1..Len(s) /\ n \in 1..Len(st)
    BY <1>1, <2>2, <2>3
  <2> QED
    BY <1>2, <1>6, <1>8, <2>2, <2>4
<1>10. f[Len(s)] \in Seq(E) /\ h[Len(s)] = f[Len(s)]
  <2>1. f[Len(s)] \in Seq(E \cap S)
    BY <1>3, OnlyElements
  <2> QED
    BY <1>1, <1>9, <2>1
<1>11. \A i \in 1..Len(t) : g[i - 1] \in Seq(E)
  <2> DEFINE U == {n \in 0..Len(t) : g[n] \notin Seq(E)}
  <2>1. SUFFICES ASSUME U # {} PROVE FALSE
    OBVIOUS
  <2>2. PICK n \in U : \A k \in U : n <= k
    <3>1. U \in SUBSET Nat
      OBVIOUS
    <3> QED
      BY <2>1, <3>1, Least
  <2>3. n # 0
    <3>1. <<>> \in Seq(E)
      OBVIOUS
    <3> QED
      BY <1>7, <2>2, <3>1
  <2>4. n - 1 \in 0..Len(t) /\ n - 1 \notin U /\ n \in 1..Len(t)
    BY <2>2, <2>3
  <2>5. g[n - 1] \in Seq(E) /\ t[n] \in E
    BY <2>4
  <2>6. Append(g[n - 1], t[n]) \in Seq(E)
    BY <2>5, AppendTyped
  <2> QED
    BY <1>7, <2>2, <2>4, <2>5, <2>6
<1>12. PICK a : a = f[Len(s)] /\ a \in Seq(E)
  BY <1>10
<1>13. ASSUME NEW n \in 1..Len(t), h[Len(s) + (n - 1)] = a \o g[n - 1]
       PROVE  h[Len(s) + n] = a \o g[n]
  <2>1. Len(s) + n \in 1..Len(st) /\ Len(s) + n - 1 = Len(s) + (n - 1)
    BY <1>1
  <2>2. PICK b, x : b = g[n - 1] /\ x = t[n] /\ b \in Seq(E) /\ x \in E
    BY <1>11
  <2>3. h[Len(s) + n] = IF x \in S THEN Append(a \o b, x) ELSE a \o b
    <3>1. PICK c : c = a \o b
      OBVIOUS
    <3>2. h[Len(s) + (n - 1)] = c
      BY <1>13, <2>2, <3>1, Zenon
    <3>3. h[Len(s) + n] = IF st[Len(s) + n] \in S
                          THEN Append(h[Len(s) + (n - 1)], st[Len(s) + n])
                          ELSE h[Len(s) + (n - 1)]
      BY <1>8, <2>1
    <3>4. h[Len(s) + n] = IF x \in S THEN Append(c, x) ELSE c
      BY <1>2, <2>2, <3>2, <3>3
    <3> QED
      BY <3>1, <3>4
  <2>4. g[n] = IF x \in S THEN Append(b, x) ELSE b
    BY <1>7, <2>2
  <2>5. Append(a \o b, x) = a \o Append(b, x)
    <3>1. a \in Seq(E) /\ b \in Seq(E) /\ x \in E
      BY <1>12, <2>2
    <3>2. PICK c, d, l, r : /\ IsConcat(c, a, b) /\ IsAppended(d, b, x)
                            /\ IsAppended(l, c, x) /\ IsConcat(r, a, d)
      BY DEF IsConcat, IsAppended
    <3>3. l = r
      BY <3>1, <3>2, AppendConcat
    <3> QED
      BY <3>2, <3>3, Zenon DEF IsConcat, IsAppended
  <2> QED
    BY <2>3, <2>4, <2>5
<1> DEFINE C == {n \in 0..Len(t) : h[Len(s) + n] # a \o g[n]}
<1>14. C = {}
  <2>1. SUFFICES ASSUME C # {} PROVE FALSE
    BY Zenon
  <2>2. PICK n \in C : \A k \in C : n <= k
    <3>1. C \in SUBSET Nat
      <4>1. 0..Len(t) \subseteq Nat
        OBVIOUS
      <4> QED
        BY <4>1, Zenon
    <3> HIDE DEF C
    <3> QED
      BY <2>1, <3>1, Least
  <2>3. n \in 0..Len(t) /\ h[Len(s) + n] # a \o g[n]
    BY <2>2, Zenon
  <2>4. CASE n = 0
    <3>1. a \o <<>> = a
      BY <1>12
    <3>2. Len(s) + 0 = Len(s)
      BY <1>1
    <3> QED
      BY <1>7, <1>10, <1>12, <2>3, <2>4, <3>1, <3>2
  <2>5. CASE n # 0
    <3>1. n - 1 \in 0..Len(t) /\ n \in 1..Len(t) /\ ~(n <= n - 1)
      BY <2>3, <2>5
    <3>2. n - 1 \notin C
      BY <2>2, <3>1, Zenon
    <3>3. h[Len(s) + (n - 1)] = a \o g[n - 1]
      BY <3>1, <3>2, Zenon
    <3> QED
      BY <1>13, <2>3, <3>1, <3>3, Zenon
  <2> QED
    BY <2>4, <2>5
<1>15. Len(t) \in 0..Len(t)
  BY <1>1
<1>16. h[Len(s) + Len(t)] = a \o g[Len(t)]
  BY <1>14, <1>15, Zenon
<1>17. Only(st, S) = a \o g[Len(t)]
  BY <1>1, <1>5, <1>16, Zenon
<1> QED
  BY <1>3, <1>4, <1>12, <1>17, Zenon DEF IsConcat

(* Nothing is kept, or all of one.                                         *)
LEMMA OnlyNone ==
    ASSUME NEW E, NEW s \in Seq(E), NEW S, \A x \in Elements(s) : x \notin S
    PROVE  Only(s, S) = <<>>
<1>1. s \in Seq(Elements(s))
  BY DEF Elements
<1>2. Only(s, S) \in Seq(Elements(s) \cap S)
  BY <1>1, OnlyElements
<1>3. Elements(s) \cap S = {}
  OBVIOUS
<1>4. PICK k : k = Only(s, S) /\ k \in Seq({})
  BY <1>2, <1>3
<1>5. k = <<>>
  BY <1>4
<1> QED
  BY <1>4, <1>5

LEMMA OnlyOne ==
    ASSUME NEW E, NEW x \in E, NEW S
    PROVE  Only(<<x>>, S) = IF x \in S THEN <<x>> ELSE <<>>
<1>1. PICK s : s = <<x>>
  OBVIOUS
<1>2. s \in Seq(E) /\ Len(s) = 1 /\ s[1] = x
  BY <1>1
<1>3. PICK f : Sifts(f, s, S, 1) /\ Only(s, S) = f[1]
  <2>1. Len(s) \in Nat
    BY <1>2
  <2>2. PICK f : Sifts(f, s, S, Len(s)) /\ Only(s, S) = f[Len(s)]
    BY <2>1, OnlySifts
  <2>3. Sifts(f, s, S, 1) /\ Only(s, S) = f[1]
    BY <1>2, <2>2, Zenon
  <2> QED
    BY <2>3
<1>4. f[0] = <<>> /\ f[1] = IF s[1] \in S THEN Append(f[0], s[1]) ELSE f[0]
  <2>1. /\ f[0] = <<>>
        /\ \A i \in 1..1 : f[i] = IF s[i] \in S THEN Append(f[i - 1], s[i]) ELSE f[i - 1]
    BY <1>3, SiftsStep
  <2>2. 1 \in 1..1 /\ 1 - 1 = 0
    OBVIOUS
  <2> QED
    BY <2>1, <2>2
<1>5. Append(<<>>, x) = <<x>>
  OBVIOUS
<1> QED
  BY <1>1, <1>2, <1>3, <1>4, <1>5

LEMMA ConcatNone ==
    ASSUME NEW E, NEW s \in Seq(E)
    PROVE  IsConcat(s, s, <<>>)
<1>1. PICK c : IsConcat(c, s, <<>>)
  BY DEF IsConcat
<1>2. <<>> \in Seq(E)
  OBVIOUS
<1>3. Joined(E, c, s, <<>>)
  BY <1>1, <1>2, ConcatIs
<1>4. c = s
  BY <1>3, SameSeq DEF Joined
<1> QED
  BY <1>1, <1>4

-----------------------------------------------------------------------------
(* Ghosts                                                                  *)

BeforeActive == {"Off", "Make", "Configure", "Early", "Start", "Abort", "Connect", "Activate"}

(* Without a connection neither buffer counts other planes, nor does what  *)
(* was posted last; and before main has activated the core nothing has     *)
(* been taken from what was posted.                                        *)
GhostInv ==
    /\ IsSeq(posted) /\ tikTok \in {0, 1}
    /\ activated => pc \in {"EventLoop", "Deactivate"}
    /\ pc \in BeforeActive => simState.n = 0
    /\ ~hSimConnect => /\ simData[0].n = 0 /\ simData[1].n = 0
                       /\ posted # <<>> => posted[Len(posted)].n = 0
                       /\ posted = <<>> /\ activated => simState.n = 0

LEMMA GhostInit == Init => GhostInv
<1> SUFFICES ASSUME Init PROVE GhostInv
  OBVIOUS
<1>1. posted = <<>> /\ IsSeq(posted)
  BY DEF IsSeq, Init, MsfsInit, Elements
<1>2. simState.n = 0 /\ simData[0].n = 0 /\ simData[1].n = 0
  BY DEF Init, MsfsInit, NoPlanes
<1> QED
  BY <1>1, <1>2 DEF Init, MsfsInit, GhostInv

LEMMA GhostGone ==
    ASSUME ProcessGone
    PROVE  GhostInv'
<1>1. posted' = <<>> /\ IsSeq(posted')
  BY DEF IsSeq, ProcessGone, MsfsGone, Elements
<1>2. simState'.n = 0 /\ simData'[0].n = 0 /\ simData'[1].n = 0
  BY DEF ProcessGone, MsfsGone, NoPlanes
<1> QED
  BY <1>1, <1>2 DEF ProcessGone, MsfsGone, GhostInv, Goto

(* The end of a flight resets both buffers.                                *)
LEMMA QuitResets ==
    /\ HandleMsfsDispatch.sim \in BOOLEAN
    /\ ~HandleMsfsDispatch.sim => /\ HandleMsfsDispatch.data[0].n = 0
                                  /\ HandleMsfsDispatch.data[1].n = 0
<1> DEFINE quit == \E i \in DOMAIN dispatched : dispatched[i].id = "QUIT"
           after == CHOOSE f : f = [n \in 0..Len(dispatched) |->
                        IF n = 0 THEN simData[tikTok]
                        ELSE UpdateAircraftLocation(f[n - 1], dispatched[n])]
           filled == [simData EXCEPT ![tikTok] = after[Len(dispatched)]]
<1>1. HandleMsfsDispatch = IF quit THEN [sim |-> FALSE, data |-> ResetSimAircraftData(filled)]
                           ELSE [sim |-> TRUE, data |-> filled]
  BY Zenon DEF HandleMsfsDispatch
<1> HIDE DEF filled, quit
<1>2. ResetSimAircraftData(filled)[0].n = 0 /\ ResetSimAircraftData(filled)[1].n = 0
  BY DEF ResetSimAircraftData
<1> QED
  BY <1>1, <1>2

LEMMA GhostPosted ==
    ASSUME GhostInv, NEW data, PostSimUpdates(data), UNCHANGED <<simState, mainVars>>,
           ~hSimConnect' => data[0].n = 0 /\ data[1].n = 0
    PROVE  GhostInv'
<1>1. /\ IsSeq(posted') /\ posted' # <<>>
      /\ posted'[Len(posted')] = data[tikTok]
  BY Grown DEF GhostInv, PostSimUpdates
<1>2. tikTok' \in {0, 1} /\ simData' = data
  BY DEF GhostInv, PostSimUpdates
<1>3. ~hSimConnect' => data[tikTok].n = 0
  BY DEF GhostInv
<1> QED
  BY <1>1, <1>2, <1>3 DEF GhostInv, mainVars

LEMMA GhostLink ==
    ASSUME GhostInv, Link \/ Beside
    PROVE  GhostInv'
<1>0. UNCHANGED mainVars /\ UNCHANGED <<pc, activated>>
  BY DEF Link, Beside, mainVars
<1>1. CASE SimNext
  BY <1>0, <1>1 DEF SimNext, Fly, Report, Quit, GhostInv
<1>2. CASE PollingEnds
  BY <1>0, <1>2 DEF PollingEnds, GhostInv
<1>3. CASE AsyncPollSimulator /\ RetrieveMsfsObjectData /\ dispatched = <<>>
  BY <1>0, <1>3 DEF AsyncPollSimulator, RetrieveMsfsObjectData, GhostInv
<1>4. CASE AsyncPollSimulator /\ RetrieveMsfsObjectData /\ dispatched # <<>>
  <2>1. hSimConnect' = HandleMsfsDispatch.sim /\ PostSimUpdates(HandleMsfsDispatch.data)
    BY <1>4 DEF RetrieveMsfsObjectData
  <2> QED
    BY <1>0, <1>4, <2>1, QuitResets, GhostPosted DEF AsyncPollSimulator
<1>5. CASE AsyncPollSimulator /\ TryConnectToMsfsSim
  BY <1>0, <1>5, GhostPosted DEF AsyncPollSimulator, TryConnectToMsfsSim, GhostInv
<1>6. CASE onSimFlightLoop(activated)
  <2>1. posted # <<>> /\ posted' = Tail(posted) /\ IsSeq(posted)
    BY <1>6 DEF onSimFlightLoop, GhostInv
  <2>2. /\ IsSeq(posted')
        /\ posted' # <<>> => posted'[Len(posted')] = posted[Len(posted)]
        /\ posted' = <<>> => Head(posted) = posted[Len(posted)]
    BY <2>1, Shortened
  <2> QED
    BY <1>0, <1>6, <2>1, <2>2 DEF onSimFlightLoop, GhostInv, BeforeActive
<1> QED
  BY <1>1, <1>2, <1>3, <1>4, <1>5, <1>6 DEF Link, Beside, LinkNext, AsyncPollSimulator

LEMMA GhostNext == GhostInv /\ [Next]_vars => GhostInv'
<1> SUFFICES ASSUME GhostInv, [Next]_vars PROVE GhostInv'
  OBVIOUS
<1>1. CASE Link \/ Beside
  BY <1>1, GhostLink
<1>2. CASE ProcessGone
  BY <1>2, GhostGone
<1>3. CASE UNCHANGED <<msfsVars, activated>> /\ (pc' \in BeforeActive => pc \in BeforeActive)
           /\ (activated => pc' \in {"EventLoop", "Deactivate"})
  BY <1>3 DEF GhostInv, msfsVars
<1>4. CASE Run \/ Edit \/ Make \/ ConfigureLog \/ Early \/ Start \/ Asserted \/ EventLoopEnds
           \/ Join \/ Stop \/ Saving \/ LinkLogged \/ UNCHANGED vars
  <2>1. UNCHANGED <<msfsVars, activated>>
    BY <1>4 DEF Run, Edit, Make, ConfigureLog, Early, Start, Asserted, EventLoopEnds, Join, Stop,
                Saving, LinkLogged, vars, mainVars
  <2>2. /\ pc' \in BeforeActive => pc \in BeforeActive
        /\ activated => pc' \in {"EventLoop", "Deactivate"}
    BY <1>4 DEF Run, Edit, Make, ConfigureLog, Early, Start, Asserted, EventLoopEnds, Join, Stop,
                Saving, LinkLogged, vars, mainVars, Goto, BeforeActive, GhostInv
  <2> QED
    BY <1>3, <2>1, <2>2
<1>5. CASE Connect
  BY <1>5 DEF Connect, ConnectSim, GhostInv, BeforeActive, Goto
<1>6. CASE Activate
  BY <1>6 DEF Activate, msfsVars, GhostInv, BeforeActive, Goto
<1>7. CASE Deactivate
  BY <1>7 DEF Deactivate, msfsVars, GhostInv, BeforeActive, Goto
<1>8. CASE Disconnect
  BY <1>8 DEF Disconnect, StopPolling, GhostInv, BeforeActive, Goto
<1>9. CASE Killed \/ Abort \/ Exit
  BY <1>2, <1>9 DEF Killed, Abort, Exit
<1> QED
  BY <1>1, <1>4, <1>5, <1>6, <1>7, <1>8, <1>9 DEF Next, Main

(* For any bounds, numbers of planes and orders of dispatches, attempts    *)
(* and updates, the end of a flight leaves no counted planes behind        *)
(* (msfssim.cpp:234).                                                      *)
THEOREM FlightsLeaveNoGhosts == Spec => []NoGhostPlanes
<1>1. GhostInv => NoGhostPlanes
  BY DEF GhostInv, NoGhostPlanes
<1> QED
  BY <1>1, GhostInit, GhostNext, PTL DEF Spec

-----------------------------------------------------------------------------
(* Settings                                                                *)

LEMMA FirstIsLeast ==
    ASSUME NEW S \in SUBSET Nat, S # {}
    PROVE  First(S) \in S /\ \A e \in S : First(S) <= e
<1>1. PICK d \in S : \A e \in S : d <= e
  BY Least
<1> QED
  BY <1>1 DEF First

LEMMA FirstOfOne ==
    ASSUME NEW d \in Nat
    PROVE  First({d}) = d
BY FirstIsLeast

(* Where there are settings in memory; and what is kept of one function in *)
(* another.                                                                *)
Loaded == Places \ {"Off", "Make", "Exit"}

Keeps(f, old) ==
    \A k \in DOMAIN old : old[k] \in {Hollow, Null} \/ (k \in DOMAIN f /\ f[k] = old[k])

(* The directory of a run is the first that is usable, and stays so.  What *)
(* is to be written over is no text of the user's, and what was saved last *)
(* is in the file, but between the two steps of saving, and after a kill   *)
(* there.                                                                  *)
CutOff == cut /\ files[First(Usable)] \in NoText

SettingsInv ==
    /\ dirs \in Seq(DirKinds) /\ DOMAIN files = DOMAIN dirs
    /\ pc \in Places /\ cut \in BOOLEAN
    /\ pc \in Loaded => /\ dir \in Usable /\ dir = First(Usable)
                        /\ saveAtExit => files[dir] # Corrupt
    /\ pc \notin Loaded => settings = <<>>
    /\ pc \in Loaded \ {"Configure"} => settings # <<>>
    /\ pc = "Saving" /\ saveAtExit => files[dir] = Absent
    /\ kept # <<>> =>
          /\ Usable # {}
          /\ \/ pc = "Saving" /\ saveAtExit
             \/ /\ files[First(Usable)].kind = "text"
                /\ Keeps(files[First(Usable)].values, kept)
             \/ CutOff
          /\ pc = "Configure" => Keeps(settings, kept) \/ CutOff

LEMMA SettingsInit == Init => SettingsInv
<1> SUFFICES ASSUME Init PROVE SettingsInv
  OBVIOUS
<1>1. dirs \in Seq(DirKinds)
  BY ProgramAssumption DEF Init, ProgramAssumption
<1> QED
  BY <1>1 DEF Init, SettingsInv, Loaded, Places

LEMMA SettingsMake ==
    ASSUME SettingsInv, Make
    PROVE  /\ SettingsInv'
           /\ files' = files
           /\ kept # <<>> /\ settings' # <<>> =>
                  Keeps(settings', kept) \/ (cut /\ files[dir'] \in NoText)
<1>1. CASE Throws
  BY <1>1 DEF Make, SettingsInv, settingsVars, Goto, Loaded, Places, Usable,
              CutOff
<1>2. CASE ~Throws
  <2>1. /\ dir' = FindDataFilesPath /\ dirs' = [dirs EXCEPT ![dir'] = "usable"]
        /\ settings' = IF files[dir'] \in NoText THEN Defaults
                       ELSE Override(Defaults, files[dir'].values)
        /\ saveAtExit' = (files[dir'] # Corrupt)
        /\ files' = files /\ kept' = kept /\ cut' = cut /\ pc = "Make" /\ pc' = "Configure"
    BY <1>2 DEF Make, LoadSettings, SavedAtExit, Goto
  <2>2. DOMAIN dirs \subseteq Nat /\ dirs \in Seq(DirKinds)
    BY DEF SettingsInv
  <2>3. CASE Usable # {}
    <3>1. dir' \in Usable /\ dir' = First(Usable)
      <4>1. Usable \in SUBSET Nat
        BY <2>2 DEF Usable
      <4> QED
        BY <2>1, <2>3, <4>1, FirstIsLeast DEF FindDataFilesPath
    <3>2. dirs' = dirs /\ Usable' = Usable
      <4>1. dirs' = [dirs EXCEPT ![dir'] = dirs[dir']]
        BY <2>1, <3>1 DEF Usable
      <4>2. dirs' = dirs
        BY <2>2, <4>1
      <4> QED
        BY <4>2 DEF Usable
    <3>3. ASSUME kept # <<>>, ~CutOff
          PROVE  Keeps(settings', kept)
      <4>1. files[dir'].kind = "text" /\ Keeps(files[dir'].values, kept)
        BY <2>1, <3>1, <3>3 DEF SettingsInv
      <4>2. settings' = Override(Defaults, files[dir'].values)
        BY <2>1, <4>1 DEF NoText, Absent, Corrupt
      <4>3. PICK v : v = files[dir'].values
        OBVIOUS
      <4> QED
        BY <4>1, <4>2, <4>3 DEF Keeps, Override
    <3>4. CutOff' = CutOff /\ (CutOff <=> cut /\ files[dir'] \in NoText)
      BY <2>1, <3>1, <3>2 DEF CutOff
    <3>5. kept' # <<>> => \/ files'[First(Usable')].kind = "text"
                             /\ Keeps(files'[First(Usable')].values, kept')
                          \/ CutOff'
      BY <2>1, <3>2, <3>4 DEF SettingsInv
    <3> QED
      BY <2>1, <3>1, <3>2, <3>3, <3>4, <3>5 DEF SettingsInv, Loaded, Places
  <2>4. CASE Usable = {}
    <3>1. dir' \in Gone /\ Gone \subseteq DOMAIN dirs
      <4>1. Gone \in SUBSET Nat /\ Gone # {}
        BY <1>2, <2>2, <2>4 DEF Gone, Throws
      <4> QED
        BY <2>1, <2>4, <4>1, FirstIsLeast DEF FindDataFilesPath, Gone
    <3>2. dirs' \in Seq(DirKinds) /\ DOMAIN dirs' = DOMAIN dirs
      BY <2>1, <2>2, <3>1 DEF DirKinds
    <3>3. Usable' = {dir'}
      BY <2>1, <2>2, <2>4, <3>1 DEF Usable
    <3>4. dir' = First(Usable')
      BY <2>2, <3>1, <3>3, FirstOfOne
    <3>5. kept = <<>>
      BY <2>4 DEF SettingsInv
    <3> QED
      BY <2>1, <3>2, <3>3, <3>4, <3>5 DEF SettingsInv, Loaded, Places
  <2> QED
    BY <2>3, <2>4
<1> QED
  BY <1>1, <1>2

(* Settings that are put, or asked for, are there.                         *)
LEMMA SettingsPut ==
    ASSUME NEW key, NEW value, NEW f
    PROVE  /\ Override(f, [k \in {key} |-> value]) # <<>>
           /\ Override([k \in {key} |-> Null], f) # <<>>
<1>1. key \in DOMAIN Override(f, [k \in {key} |-> value])
  BY DEF Override
<1>2. key \in DOMAIN Override([k \in {key} |-> Null], f)
  BY DEF Override
<1>3. DOMAIN <<>> = {}
  OBVIOUS
<1> QED
  BY <1>1, <1>2, <1>3

(* The end of a process that was not saving.                               *)
LEMMA SettingsDropped ==
    ASSUME SettingsInv, pc' \in {"Off"}, settings' = <<>>,
           UNCHANGED <<dirs, files, saveAtExit, kept, cut>>, ~(pc = "Saving" /\ saveAtExit)
    PROVE  SettingsInv'
BY DEF SettingsInv, Loaded, Places, Usable, CutOff

LEMMA SettingsKilled ==
    ASSUME SettingsInv, Killed
    PROVE  SettingsInv' /\ settings' = <<>>
           /\ \A d \in DOMAIN files : files[d] = Corrupt => files'[d] = Corrupt
<1>1. CASE pc = "Saving" /\ saveAtExit
  <2>1. PICK halfway \in BOOLEAN :
            files' = IF halfway THEN [files EXCEPT ![dir] = Corrupt] ELSE files
    BY <1>1 DEF Killed, SettingsGone
  <2>2. /\ kept' = kept /\ cut' = TRUE /\ settings' = <<>> /\ dirs' = dirs /\ pc' = "Off"
        /\ saveAtExit' = saveAtExit
    BY <1>1 DEF Killed, SettingsGone, ProcessGone, Goto
  <2>3. /\ DOMAIN files' = DOMAIN files /\ dir = First(Usable) /\ files[dir] = Absent
        /\ dir \in DOMAIN files /\ Usable # {}
    BY <1>1, <2>1 DEF SettingsInv, Loaded, Places, Usable
  <2>4. files'[dir] \in NoText
    BY <2>1, <2>3 DEF NoText
  <2>5. Usable' = Usable
    BY <2>2 DEF Usable
  <2>6. CutOff'
    BY <2>2, <2>3, <2>4, <2>5 DEF CutOff
  <2>7. \A d \in DOMAIN files : files[d] = Corrupt => files'[d] = Corrupt
    BY <2>1
  <2> QED
    BY <2>2, <2>3, <2>5, <2>6, <2>7 DEF SettingsInv, Loaded, Places
<1>2. CASE ~(pc = "Saving" /\ saveAtExit)
  <2>1. SettingsGone(FALSE) /\ kept' = kept /\ cut' = cut /\ pc' = "Off"
    <3>1. SettingsInv => cut' = (cut \/ FALSE)
      BY <1>2 DEF Killed
    <3>2. cut \in BOOLEAN
      BY DEF SettingsInv
    <3> QED
      BY <1>2, <3>1, <3>2 DEF Killed, ProcessGone, Goto
  <2>2. UNCHANGED <<dirs, files, saveAtExit>> /\ settings' = <<>>
    BY <2>1 DEF SettingsGone
  <2> QED
    BY <1>2, <2>1, <2>2, SettingsDropped
<1> QED
  BY <1>1, <1>2

(* A step of a run that neither reads nor writes files.                    *)
LEMMA SettingsInMemory ==
    ASSUME SettingsInv, UNCHANGED <<dirs, dir, files, saveAtExit, kept, cut>>,
           settings' # <<>>, pc \in Loaded \ {"Saving"},
           pc' \in Loaded \ {"Configure", "Saving"}
    PROVE  SettingsInv'
BY DEF SettingsInv, Loaded, Places, Usable, CutOff

LEMMA SettingsOpened ==
    ASSUME SettingsInv, Stop
    PROVE  /\ SettingsInv' /\ settings' = settings
           /\ \A d \in DOMAIN files : files[d] = Corrupt => files'[d] = Corrupt
<1>1. /\ files' = [files EXCEPT ![dir] = IF saveAtExit THEN Absent ELSE @]
      /\ UNCHANGED <<dirs, dir, settings, saveAtExit, kept, cut>>
      /\ pc = "Stop" /\ pc' = "Saving"
  BY DEF Stop, OpenToSave, Goto
<1>2. /\ DOMAIN files' = DOMAIN files /\ dir \in DOMAIN files
      /\ saveAtExit => files'[dir] = Absent /\ files[dir] # Corrupt
      /\ \A d \in DOMAIN files : d # dir => files'[d] = files[d]
      /\ ~saveAtExit => \A d \in DOMAIN files : files'[d] = files[d]
  BY <1>1 DEF SettingsInv, Loaded, Places, Usable
<1>3. Usable' = Usable
  BY <1>1 DEF Usable
<1>4. Absent # Corrupt
  BY DEF Absent, Corrupt
<1>5. kept' # <<>> => \/ pc' = "Saving" /\ saveAtExit'
                      \/ /\ files'[First(Usable)].kind = "text"
                         /\ Keeps(files'[First(Usable)].values, kept)
                      \/ CutOff'
  <2>1. CASE saveAtExit
    BY <1>1, <2>1
  <2>2. CASE ~saveAtExit
    <3>1. /\ files'[First(Usable)] = files[First(Usable)]
          /\ kept # <<>> => \/ /\ files[First(Usable)].kind = "text"
                               /\ Keeps(files[First(Usable)].values, kept)
                            \/ CutOff
      BY <1>1, <1>2, <2>2 DEF SettingsInv, Loaded, Places
    <3> QED
      BY <1>1, <1>3, <3>1 DEF CutOff
  <2> QED
    BY <2>1, <2>2
<1> QED
  BY <1>1, <1>2, <1>3, <1>4, <1>5 DEF SettingsInv, Loaded, Places

LEMMA SettingsSaved ==
    ASSUME SettingsInv, Saving
    PROVE  /\ SettingsInv' /\ settings' = <<>>
           /\ \A d \in DOMAIN files : files[d] = Corrupt => files'[d] = Corrupt
<1>1. /\ files' = [files EXCEPT ![dir] = IF saveAtExit THEN Saved ELSE @]
      /\ settings' = <<>> /\ UNCHANGED <<dirs, saveAtExit>>
      /\ kept' = IF saveAtExit THEN settings ELSE kept
      /\ cut' = IF saveAtExit THEN FALSE ELSE cut
      /\ pc = "Saving" /\ pc' = "Exit"
  BY DEF Saving, Save, Goto
<1>2. /\ DOMAIN files' = DOMAIN files /\ dir \in DOMAIN files
      /\ saveAtExit => files'[dir] = Saved /\ files[dir] # Corrupt
      /\ \A d \in DOMAIN files : d # dir => files'[d] = files[d]
      /\ ~saveAtExit => \A d \in DOMAIN files : files'[d] = files[d]
  BY <1>1 DEF SettingsInv, Loaded, Places, Usable
<1>3. Usable' = Usable /\ dir \in Usable /\ dir = First(Usable)
  BY <1>1 DEF Usable, SettingsInv, Loaded, Places
<1>4. Saved.kind = "text" /\ Keeps(Saved.values, settings)
  BY DEF Saved, Text, Keeps
<1>5. kept' # <<>> => \/ /\ files'[First(Usable)].kind = "text"
                         /\ Keeps(files'[First(Usable)].values, kept')
                      \/ CutOff'
  <2>1. CASE saveAtExit
    BY <1>1, <1>2, <1>3, <1>4, <2>1
  <2>2. CASE ~saveAtExit
    BY <1>1, <1>2, <1>3, <2>2 DEF SettingsInv, CutOff
  <2> QED
    BY <2>1, <2>2
<1> QED
  BY <1>1, <1>2, <1>3, <1>5 DEF SettingsInv, Loaded, Places

LEMMA SettingsEdited ==
    ASSUME SettingsInv, Edit
    PROVE  SettingsInv' /\ settings' = settings
<1>1. UNCHANGED <<dirs, dir, settings, saveAtExit, pc>> /\ pc = "Off"
  BY DEF Edit
<1>2. Usable' = Usable
  BY <1>1 DEF Usable
<1>3. ASSUME NEW d \in Usable, NEW f \in FileChoices, files' = [files EXCEPT ![d] = f],
             IF d = First(Usable) THEN kept' = f.values /\ cut' = FALSE
             ELSE UNCHANGED <<kept, cut>>
      PROVE  SettingsInv'
  <2>1. DOMAIN files' = DOMAIN files /\ d \in DOMAIN files /\ Usable # {}
    BY <1>3 DEF SettingsInv, Usable
  <2>2. CASE d = First(Usable)
    <3>1. f = Corrupt \/ f = Text(f.values)
      BY ProgramAssumption DEF ProgramAssumption
    <3>2. kept' = f.values /\ cut' = FALSE /\ files'[First(Usable)] = f
      BY <1>3, <2>1, <2>2
    <3>3. kept' # <<>> => f.kind = "text" /\ Keeps(f.values, kept')
      <4>1. CASE f = Corrupt
        BY <3>2, <4>1 DEF Corrupt
      <4>2. CASE f = Text(f.values)
        <5>1. f.kind = "text"
          <6>1. PICK v : f = [kind |-> "text", values |-> v]
            BY <4>2 DEF Text
          <6> QED
            BY <6>1
        <5> QED
          BY <3>2, <5>1 DEF Keeps
      <4> QED
        BY <3>1, <4>1, <4>2
    <3> QED
      BY <1>1, <1>2, <2>1, <3>2, <3>3 DEF SettingsInv, Loaded, Places
  <2>3. CASE d # First(Usable)
    <3>1. UNCHANGED <<kept, cut>> /\ files'[First(Usable)] = files[First(Usable)]
      BY <1>3, <2>3
    <3> QED
      BY <1>1, <1>2, <2>1, <3>1 DEF SettingsInv, Loaded, Places, CutOff
  <2> QED
    BY <2>2, <2>3
<1>4. CASE UNCHANGED <<files, kept, cut>>
  BY <1>1, <1>2, <1>4 DEF SettingsInv, Loaded, Places, CutOff
<1> QED
  BY <1>1, <1>3, <1>4 DEF Edit

LEMMA SettingsStep ==
    ASSUME SettingsInv, [Next]_vars
    PROVE  /\ SettingsInv'
           /\ \A d \in DOMAIN files :
                 pc # "Off" /\ files[d] = Corrupt => files'[d] = Corrupt
           /\ kept # <<>> /\ settings = <<>> /\ settings' # <<>> =>
                 Keeps(settings', kept) \/ (cut /\ files[dir'] \in NoText)
<1>1. CASE Link \/ LinkLogged \/ Beside \/ UNCHANGED vars
  <2>1. UNCHANGED <<dirs, dir, files, settings, saveAtExit, kept, cut, pc>>
    BY <1>1 DEF Link, LinkLogged, Beside, vars, mainVars, settingsVars
  <2> QED
    BY <2>1 DEF SettingsInv, Usable, CutOff
<1>2. CASE Run \/ Exit
  BY <1>2 DEF Run, Exit, ProcessGone, settingsVars, Goto, SettingsInv, Loaded, Places, Usable,
              CutOff
<1>3. CASE Make
  BY <1>3, SettingsMake
<1>4. CASE ConfigureLog
  <2>1. settings' # <<>>
    <3>1. \/ settings' = Override(settings, [k \in {"general"} |-> "plain"])
          \/ settings' = Override([k \in {"general"} |-> Null], settings)
      BY <1>4 DEF ConfigureLog, Put, GotFrom
    <3> QED
      BY <3>1, SettingsPut
  <2>2. SettingsInv'
    BY <1>4, <2>1, SettingsInMemory DEF ConfigureLog, Goto, Loaded, Places
  <2>3. kept # <<>> /\ settings = <<>> =>
            Keeps(settings', kept) \/ (cut /\ files[dir'] \in NoText)
    <3>1. dir = First(Usable) /\ dir' = dir /\ pc = "Configure"
      BY <1>4 DEF ConfigureLog, SettingsInv, Loaded, Places
    <3>2. kept # <<>> => Keeps(settings, kept) \/ CutOff
      BY <3>1 DEF SettingsInv
    <3> QED
      BY <3>1, <3>2 DEF CutOff, Keeps
  <2> QED
    BY <1>4, <2>2, <2>3 DEF ConfigureLog
<1>5. CASE Start
  <2>1. settings # <<>>
    BY <1>5 DEF Start, SettingsInv, Loaded, Places
  <2>2. settings' # <<>>
    BY <1>5, <2>1, SettingsPut DEF Start, Put
  <2>3. SettingsInv'
    BY <1>5, <2>2, SettingsInMemory DEF Start, Goto, Loaded, Places
  <2> QED
    BY <1>5, <2>1, <2>3 DEF Start
<1>6. CASE Abort
  BY <1>6, SettingsDropped DEF Abort, SettingsGone, ProcessGone, Goto
<1>7. CASE Early \/ Asserted \/ Connect \/ Activate \/ EventLoopEnds \/ Deactivate \/ Disconnect \/ Join
  <2>1. /\ UNCHANGED <<dirs, dir, files, settings, saveAtExit, kept, cut>>
        /\ pc \in Loaded \ {"Configure", "Saving"} /\ pc' \in Loaded \ {"Configure", "Saving"}
    BY <1>7 DEF Early, Asserted, Connect, Activate, EventLoopEnds, Deactivate, Disconnect, Join,
                settingsVars, Goto, Loaded, Places
  <2>2. settings # <<>>
    BY <2>1 DEF SettingsInv
  <2> QED
    BY <2>1, <2>2, SettingsInMemory
<1>8. CASE Stop
  BY <1>8, SettingsOpened
<1>9. CASE Saving
  BY <1>9, SettingsSaved
<1>10. CASE Edit
  BY <1>10, SettingsEdited DEF Edit
<1>11. CASE Killed
  BY <1>11, SettingsKilled
<1> QED
  BY <1>1, <1>2, <1>3, <1>4, <1>5, <1>6, <1>7, <1>8, <1>9, <1>10, <1>11 DEF Next, Main

(* Whatever files a user leaves, however often a run is killed, and        *)
(* whichever directories are there at first: what cannot be parsed is not  *)
(* written over, and what was saved last, or written by the user since, is *)
(* read (settingsmgr.cpp:94), unless a run was killed after it had emptied *)
(* the file to save (settingsmgr.cpp:131).                                 *)
THEOREM SettingsAreKept == Spec => SettingsKept
<1>1. ASSUME SettingsInv, [Next]_vars
      PROVE  [/\ \A d \in DOMAIN files : pc # "Off" /\ files[d] = Corrupt => files'[d] = Corrupt
              /\ kept # <<>> /\ settings = <<>> /\ settings' # <<>> =>
                    ComesBack(kept, settings') \/ (cut /\ files[dir'] \in NoText)]_vars
  BY <1>1, SettingsStep DEF Keeps, ComesBack
<1>2. SettingsInv /\ [Next]_vars => SettingsInv'
  BY SettingsStep
<1> QED
  BY <1>1, <1>2, SettingsInit, PTL DEF Spec, SettingsKept

-----------------------------------------------------------------------------
(* The tile servers                                                        *)

(* Every directory has one of the files, and a run its own.                *)
TilesInv == /\ DOMAIN tileFiles = DOMAIN dirs
            /\ \A d \in DOMAIN tileFiles : tileFiles[d] \in TileChoices

LEMMA TilesInit == Init => TilesInv
BY DEF Init, TilesInv

LEMMA TilesNext == SettingsInv /\ TilesInv /\ [Next]_vars => TilesInv'
<1> SUFFICES ASSUME SettingsInv, TilesInv, [Next]_vars PROVE TilesInv'
  OBVIOUS
<1>1. CASE Edit
  BY <1>1 DEF Edit, TilesInv
<1>2. CASE ~Edit
  <2>1. tileFiles' = tileFiles
    BY <1>2 DEF Next, Main, Run, Make, ConfigureLog, Early, Start, Asserted, Abort, Connect,
                Activate, EventLoopEnds, Deactivate, Disconnect, Join, Stop, Saving, Exit, Killed,
                Link, LinkLogged, Beside, ProcessGone, mainVars, vars
  <2>2. DOMAIN dirs' = DOMAIN dirs
    <3>1. SettingsInv' /\ DOMAIN files' = DOMAIN files
      <4>1. SettingsInv'
        BY SettingsStep
      <4>2. DOMAIN files' = DOMAIN files
        BY DEF Next, Main, Run, Make, ConfigureLog, Early, Start, Asserted, Abort, Connect,
               Activate, EventLoopEnds, Deactivate, Disconnect, Join, Stop, Saving, Exit, Edit,
               Killed, Link, LinkLogged, Beside, SettingsGone, LoadSettings, OpenToSave, Save, settingsVars, vars
      <4> QED
        BY <4>1, <4>2
    <3> QED
      BY <3>1 DEF SettingsInv
  <2> QED
    BY <2>1, <2>2 DEF TilesInv
<1> QED
  BY <1>1, <1>2

(* The errors of a file are reported one by one.                           *)
ErrorTexts == {"Invalid json format", "not an array", "configuration error",
               "No valid tile server"}

LEMMA OneError ==
    ASSUME NEW x \in ErrorTexts
    PROVE  <<x>> \in Seq(ErrorTexts) /\ \A k \in Nat : [i \in 1..k |-> x] \in Seq(ErrorTexts)
OBVIOUS

LEMMA ErrorsTyped ==
    ASSUME NEW file \in TileChoices, NEW n \in Nat
    PROVE  ErrorsUpTo(file, n) \in Seq(ErrorTexts)
<1> DEFINE bad(i) == ~Disabled(file.entries[i]) /\ ~ReadEntry(file.entries[i], i).config.valid
           B  == {i \in 1..n : bad(i)}
           e1 == IF file.parsed THEN <<>> ELSE <<"Invalid json format">>
           e2 == IF file.array THEN <<>> ELSE <<"not an array">>
           e3 == [i \in 1..Cardinality(B) |-> "configuration error"]
<1>1. ErrorsUpTo(file, n) = e1 \o e2 \o e3
  BY Zenon DEF ErrorsUpTo
<1>2. Cardinality(B) \in Nat
  <2>1. IsFiniteSet(1..n) /\ B \subseteq 1..n
    BY FS_Interval
  <2> HIDE DEF B
  <2> QED
    BY <2>1, FS_Subset, FS_CardinalityType
<1> HIDE DEF B
<1>3. e1 \in Seq(ErrorTexts) /\ e2 \in Seq(ErrorTexts)
  <2>1. "Invalid json format" \in ErrorTexts /\ "not an array" \in ErrorTexts
    BY DEF ErrorTexts
  <2>2. <<"Invalid json format">> \in Seq(ErrorTexts) /\ <<"not an array">> \in Seq(ErrorTexts)
    BY <2>1, OneError
  <2>3. <<>> \in Seq(ErrorTexts)
    OBVIOUS
  <2> QED
    BY <2>2, <2>3, Zenon
<1>4. e3 \in Seq(ErrorTexts)
  <2>1. "configuration error" \in ErrorTexts
    BY DEF ErrorTexts
  <2> QED
    BY <1>2, <2>1, OneError
<1> HIDE DEF e1, e2, e3
<1>5. e1 \o e2 \o e3 \in Seq(ErrorTexts)
  BY <1>3, <1>4
<1> QED
  BY <1>1, <1>5

LEMMA ErrorsInOrder ==
    ASSUME NEW file \in TileChoices
    PROVE  ReadErrors(file) \in Seq(ErrorTexts)
<1>1. Len(file.entries) \in Nat
  <2>1. IsSeq(file.entries)
    BY ProgramAssumption DEF ProgramAssumption
  <2> QED
    BY <2>1 DEF IsSeq
<1>2. PICK e : e = ErrorsUpTo(file, Len(file.entries)) /\ e \in Seq(ErrorTexts)
  BY <1>1, ErrorsTyped
<1>3. PICK f \in Seq(ErrorTexts) :
          f = IF Populate(file) = <<>> THEN <<"No valid tile server">> ELSE <<>>
  <2>1. "No valid tile server" \in ErrorTexts
    BY DEF ErrorTexts
  <2>2. <<"No valid tile server">> \in Seq(ErrorTexts)
    BY <2>1, OneError
  <2>3. <<>> \in Seq(ErrorTexts)
    OBVIOUS
  <2> QED
    BY <2>2, <2>3, Zenon
<1>4. ReadErrors(file) = e \o f
  BY <1>2, <1>3, Zenon DEF ReadErrors
<1>5. \A a, b \in Seq(ErrorTexts) : a \o b \in Seq(ErrorTexts)
  OBVIOUS
<1>6. e \o f \in Seq(ErrorTexts)
  BY <1>2, <1>5, Zenon
<1> QED
  BY <1>4, <1>6, Zenon

-----------------------------------------------------------------------------
(* The log                                                                 *)

Names    == {<<"prefs">>, <<"main">>, <<"tile", "cfg">>, <<"msfs", "sim">>}
Messages == [name : Names, severity : Severities, alone : BOOLEAN]
Alone    == {m \in Messages : m.alone}
Lines    == Messages \cup {"started", "ended"}

(* The filter with the longest pattern that a name begins with, and what   *)
(* it lets through to the file of what was logged alone.                   *)
UsedBy(fs, name) ==
    LET best == {f \in Elements(fs) : Begins(f.pattern, name)}
    IN  IF best = {} THEN fs[1]
        ELSE CHOOSE f \in best : \A g \in best : Len(g.pattern) <= Len(f.pattern)

Passes(fs) == {m \in Messages : m.alone /\ Written(fs, FilterOf(fs, m.name), m)}

UsedFound(fs) == \A name : IsSeq(name) => fs[FilterOf(fs, name)] = UsedBy(fs, name)

(* A filter for every pattern, each with a pattern of its own.             *)
LEMMA FiltersApart ==
    ASSUME NEW conf, FilterConf(conf), NEW console, NEW fs,
           fs = Filters(conf, console)
    PROVE  /\ Len(fs) \in Nat /\ DOMAIN fs = 1..Len(fs)
           /\ \A i \in DOMAIN fs : IsSeq(fs[i].pattern)
           /\ \A i, j \in DOMAIN fs : fs[i].pattern = fs[j].pattern => fs[i] = fs[j]
<1> DEFINE any   == {c \in conf : c.pattern = <<"*">>}
           first == [pattern |-> <<"*">>,
                     dests |-> IF any = {} THEN DefaultDests(console)
                               ELSE Configured(DefaultDests(console), (CHOOSE c \in any : TRUE).letters)]
           some  == conf \ any
           n     == Cardinality(some)
           order == CHOOSE f \in [1..n -> some] : \A c \in some : \E i \in DOMAIN f : f[i] = c
           Of(c) == [pattern |-> c.pattern, dests |-> Configured(first.dests, c.letters)]
           rest  == [i \in DOMAIN order |-> Of(order[i])]
<1>1. fs = <<first>> \o rest
  BY Zenon DEF Filters
<1>2. /\ IsFiniteSet(some) /\ \A c \in some : IsSeq(c.pattern) /\ c.pattern # <<"*">>
      /\ \A c, d \in some : c.pattern = d.pattern => c = d
  <2>1. IsFiniteSet(some)
    BY FS_Subset DEF FilterConf
  <2> QED
    BY <2>1 DEF FilterConf
<1>3. n \in Nat /\ order \in [1..n -> some]
  <2>1. n \in Nat /\ ExistsBijection(1..n, some)
    BY <1>2, FS_CardinalityType
  <2>2. PICK f : f \in Bijection(1..n, some)
    BY <2>1 DEF ExistsBijection
  <2>3. f \in [1..n -> some] /\ \A c \in some : \E i \in DOMAIN f : f[i] = c
    BY <2>2 DEF Bijection, Surjection, Injection
  <2> QED
    BY <2>1, <2>3
<1>4. first.pattern = <<"*">> /\ IsSeq(<<"*">>)
  <2>1. first.pattern = <<"*">>
    BY Zenon
  <2>2. Elements(<<"*">>) = {"*"}
    BY DEF Elements
  <2> QED
    BY <2>1, <2>2 DEF IsSeq
<1>5. \A c : Of(c).pattern = c.pattern
  OBVIOUS
<1> HIDE DEF first, some, n, order, Of
<1>6. PICK E : first \in E /\ rest \in Seq(E) /\ Len(rest) = n
               /\ \A i \in 1..n : rest[i] = Of(order[i])
  <2> DEFINE E == {first} \cup {Of(order[i]) : i \in 1..n}
  <2>1. rest \in [1..n -> E]
    BY <1>3
  <2>2. rest \in Seq(E) /\ Len(rest) = n
    BY <1>3, <2>1
  <2>3. \A i \in 1..n : rest[i] = Of(order[i])
    BY <1>3
  <2>4. first \in E
    OBVIOUS
  <2> QED
    BY <2>2, <2>3, <2>4
<1> HIDE DEF rest
<1>7. <<first>> \in Seq(E) /\ Len(<<first>>) = 1 /\ <<first>>[1] = first
  BY <1>6
<1>8. PICK one : one = <<first>>
  OBVIOUS
<1>9. /\ fs \in Seq(E) /\ Len(fs) = Len(one) + Len(rest)
      /\ \A i \in 1..Len(one) : fs[i] = one[i]
      /\ \A i \in 1..Len(rest) : fs[Len(one) + i] = rest[i]
  <2>1. IsConcat(fs, one, rest) /\ one \in Seq(E)
    BY <1>1, <1>7, <1>8 DEF IsConcat
  <2> QED
    BY <1>6, <2>1, ConcatIs DEF Joined
<1>10. Len(fs) = n + 1 /\ fs[1] = first /\ \A i \in 1..n : fs[i + 1] = Of(order[i])
  <2>1. Len(one) = 1 /\ one[1] = first
    BY <1>7, <1>8
  <2> QED
    BY <1>3, <1>6, <1>9, <2>1
<1>11. \A i \in 1..n + 1 : i = 1 \/ \E k \in 1..n : i = k + 1
  <2>1. \A i \in 1..n + 1 : i = 1 \/ (i - 1 \in 1..n /\ i = (i - 1) + 1)
    BY <1>3
  <2> QED
    BY <2>1
<1>12. \A i \in 1..n + 1 : i = 1 \/ \E c \in some : fs[i] = Of(c)
  BY <1>3, <1>10, <1>11
<1>13. DOMAIN fs = 1..n + 1
  BY <1>9, <1>10
<1>14. \A i \in DOMAIN fs : \/ i = 1 /\ fs[i] = first
                            \/ \E c \in some : fs[i] = Of(c) /\ fs[i].pattern = c.pattern
  BY <1>5, <1>10, <1>12, <1>13
<1>15. \A i \in DOMAIN fs : IsSeq(fs[i].pattern)
  BY <1>2, <1>4, <1>14
<1>16. ASSUME NEW i \in DOMAIN fs, NEW j \in DOMAIN fs, fs[i].pattern = fs[j].pattern
       PROVE  fs[i] = fs[j]
  BY <1>2, <1>4, <1>14, <1>16
<1> QED
  BY <1>3, <1>10, <1>13, <1>15, <1>16

LEMMA FiltersFound ==
    ASSUME NEW conf, FilterConf(conf), NEW console, NEW fs,
           fs = Filters(conf, console)
    PROVE  UsedFound(fs)
<1>1. /\ Len(fs) \in Nat /\ DOMAIN fs = 1..Len(fs)
      /\ \A i \in DOMAIN fs : IsSeq(fs[i].pattern)
      /\ \A i, j \in DOMAIN fs : fs[i].pattern = fs[j].pattern => fs[i] = fs[j]
  BY FiltersApart
<1> SUFFICES ASSUME NEW name, IsSeq(name)
             PROVE  fs[FilterOf(fs, name)] = UsedBy(fs, name)
  BY DEF UsedFound
<1> DEFINE match == {i \in DOMAIN fs : Begins(fs[i].pattern, name)}
           best  == {f \in Elements(fs) : Begins(f.pattern, name)}
           Longest(i) == i \in match /\ \A j \in match : Len(fs[j].pattern) <= Len(fs[i].pattern)
<1>2. best = {fs[i] : i \in match}
  BY DEF Elements
<1>3. CASE match = {}
  BY <1>2, <1>3 DEF FilterOf, UsedBy
<1>4. CASE match # {}
  <2>1. \A i \in match : Len(fs[i].pattern) \in Nat /\ Len(name) - Len(fs[i].pattern) \in Nat
    BY <1>1 DEF Begins, IsSeq
  <2>2. \E i \in match : Longest(i)
    <3> DEFINE T == {Len(name) - Len(fs[i].pattern) : i \in match}
    <3>1. T \in SUBSET Nat /\ T # {}
      BY <1>4, <2>1
    <3>2. PICK k \in T : \A l \in T : k <= l
      BY <3>1, Least
    <3>3. PICK i \in match : k = Len(name) - Len(fs[i].pattern)
      BY <3>2
    <3>4. ASSUME NEW j \in match
          PROVE  Len(fs[j].pattern) <= Len(fs[i].pattern)
      <4>1. Len(name) - Len(fs[i].pattern) <= Len(name) - Len(fs[j].pattern)
        BY <3>2, <3>3
      <4>2. Len(name) \in Nat /\ Len(fs[i].pattern) \in Nat /\ Len(fs[j].pattern) \in Nat
        BY <2>1
      <4> QED
        BY <4>1, <4>2
    <3> QED
      BY <3>4
  <2>3. PICK i : i = FilterOf(fs, name) /\ Longest(i)
    BY <1>4, <2>2 DEF FilterOf
  <2>4. PICK f : /\ f = UsedBy(fs, name) /\ f \in best
                 /\ \A g \in best : Len(g.pattern) <= Len(f.pattern)
    <3>1. fs[i] \in best /\ \A g \in best : Len(g.pattern) <= Len(fs[i].pattern)
      BY <1>2, <2>3
    <3> QED
      BY <3>1 DEF UsedBy
  <2>5. PICK j \in match : f = fs[j]
    BY <1>2, <2>4
  <2>6. Len(fs[j].pattern) = Len(fs[i].pattern)
    <3>1. Len(fs[j].pattern) <= Len(fs[i].pattern) /\ Len(fs[i].pattern) <= Len(fs[j].pattern)
      BY <1>2, <2>3, <2>4, <2>5
    <3> QED
      BY <2>1, <2>3, <3>1
  <2>7. fs[j].pattern = fs[i].pattern
    BY <2>3, <2>5, <2>6 DEF Begins
  <2> QED
    BY <1>1, <2>3, <2>4, <2>5, <2>7
<1> QED
  BY <1>3, <1>4

(* Every message is kept until there are filters; from then on the file    *)
(* holds what they let through, and a logger knows the filter that would   *)
(* be found for it, or none.  What the other thread is writing would be    *)
(* let through, as long as it is alone with it.                            *)
Writing == \E m \in Messages : writing = <<m>> /\ (m.alone => m \in Passes(filters))

LogInv ==
    /\ said \in Seq(Messages) /\ logFile \in Seq(Lines) /\ base \in Seq(Lines)
    /\ pc \in {"Off", "Make", "Configure"} => ~configured
    /\ ~configured => /\ cache = said /\ DOMAIN fids = {} /\ writing = <<>>
                      /\ said \in Seq(Alone)
    /\ configured =>
          /\ UsedFound(filters)
          /\ \A n \in DOMAIN fids : fids[n] \in {Unknown, FilterOf(filters, n)}
          /\ logFile = base \o Only(said, Passes(filters))
          /\ writing = <<>> \/ Writing

LEMMA NamesAreSeqs == \A n \in Names : IsSeq(n)
<1>1. IsSeq(<<"prefs">>) /\ IsSeq(<<"main">>)
  <2>1. Elements(<<"prefs">>) = {"prefs"} /\ Elements(<<"main">>) = {"main"}
    BY DEF Elements
  <2> QED
    BY <2>1 DEF IsSeq
<1>2. IsSeq(<<"tile", "cfg">>) /\ IsSeq(<<"msfs", "sim">>)
  <2>1. /\ "tile" \in Elements(<<"tile", "cfg">>) /\ "cfg" \in Elements(<<"tile", "cfg">>)
        /\ "msfs" \in Elements(<<"msfs", "sim">>) /\ "sim" \in Elements(<<"msfs", "sim">>)
    BY DEF Elements
  <2> QED
    BY <2>1 DEF IsSeq
<1> QED
  BY <1>1, <1>2 DEF Names

LEMMA LogHoldsProperty == LogInv => LoggedOnce
<1> SUFFICES ASSUME LogInv, configured
             PROVE  logFile = base \o Only(said, {m \in Elements(said) : m.alone /\ ForFile(m)})
  BY Zenon DEF LoggedOnce
<1> DEFINE S == {m \in Elements(said) : m.alone /\ ForFile(m)}
<1>1. ASSUME NEW m \in Elements(said)
      PROVE  m \in S <=> m \in Passes(filters)
  <2>1. m \in Messages /\ IsSeq(m.name)
    <3>1. m \in Messages
      BY DEF LogInv, Elements
    <3>2. m.name \in Names
      BY <3>1 DEF Messages
    <3> QED
      BY <3>1, <3>2, NamesAreSeqs
  <2>2. filters[FilterOf(filters, m.name)] = UsedBy(filters, m.name)
    BY <2>1 DEF LogInv, UsedFound
  <2>3. UsedFor(m.name) = UsedBy(filters, m.name)
    BY Zenon DEF UsedFor, UsedBy
  <2> QED
    BY <2>1, <2>2, <2>3 DEF Passes, Written, ForFile
<1>2. Only(said, S) = Only(said, Passes(filters))
  BY <1>1, OnlyAgree DEF LogInv
<1> QED
  BY <1>2 DEF LogInv

LEMMA LogInitHolds == Init => LogInv
<1>1. <<>> \in Seq(Alone) /\ <<>> \in Seq(Messages) /\ <<>> \in Seq(Lines)
  OBVIOUS
<1> QED
  BY <1>1 DEF Init, LogInit, LogInv

(* A step that neither logs nor configures.                                *)
LEMMA LogSame ==
    ASSUME LogInv, UNCHANGED logVars,
           pc' \in {"Off", "Make", "Configure"} => ~configured
    PROVE  LogInv'
BY DEF LogInv, logVars, Writing

LEMMA LogGoneHolds ==
    ASSUME LogInv, LogGone(<<>>) \/ LogGone(<<"ended">>)
    PROVE  LogInv'
<1>1. PICK closing \in {<<>>, <<"ended">>} : LogGone(closing)
  OBVIOUS
<1>2. logFile' \in Seq(Lines)
  <2>1. closing \in Seq(Lines)
    <3>1. "ended" \in Lines
      BY DEF Lines
    <3>2. <<>> \in Seq(Lines) /\ <<"ended">> \in Seq(Lines)
      BY <3>1
    <3> QED
      BY <3>2
  <2>2. IsConcat(logFile', logFile, closing) /\ logFile \in Seq(Lines)
    BY <1>1 DEF LogGone, LogInv, IsConcat
  <2>3. Joined(Lines, logFile', logFile, closing)
    BY <2>1, <2>2, ConcatIs, Zenon
  <2> QED
    BY <2>3 DEF Joined
<1>3. /\ ~configured' /\ cache' = <<>> /\ said' = <<>> /\ base' = base
      /\ DOMAIN fids' = {} /\ writing' = <<>>
  BY <1>1 DEF LogGone
<1>4. <<>> \in Seq(Alone) /\ <<>> \in Seq(Messages)
  OBVIOUS
<1> QED
  BY <1>2, <1>3, <1>4 DEF LogInv

(* With filters, what is said and what of it passes come at the end.       *)
LEMMA LogExtends ==
    ASSUME LogInv, configured, NEW messages \in Seq(Messages),
           said' = said \o messages, logFile' = logFile \o Only(messages, Passes(filters)),
           UNCHANGED <<configured, filters, base>>,
           \A n \in DOMAIN fids' : fids'[n] \in {Unknown, FilterOf(filters, n)},
           (writing = <<>> \/ Writing)',
           pc' \in {"Off", "Make", "Configure"} => ~configured
    PROVE  LogInv'
<1>1. PICK spoken : IsConcat(spoken, said, messages) /\ said' = spoken
  BY DEF IsConcat
<1>2. spoken \in Seq(Messages)
  BY <1>1, ConcatIs DEF LogInv, Joined
<1> DEFINE P == Passes(filters)
<1>3. logFile' = logFile \o Only(messages, P)
  OBVIOUS
<1>4. P' = P
  BY DEF Passes
<1>5. logFile = base \o Only(said, P)
  BY DEF LogInv
<1> HIDE DEF P
<1>6. PICK before, now, both : /\ before = Only(said, P) /\ now = Only(messages, P)
                               /\ IsConcat(both, before, now)
  BY DEF IsConcat
<1>7. before \in Seq(Lines) /\ now \in Seq(Lines)
  <2>1. before \in Seq(Messages \cap P) /\ now \in Seq(Messages \cap P)
    BY <1>6, OnlyElements DEF LogInv
  <2>2. Messages \cap P \subseteq Lines
    BY DEF Lines
  <2> QED
    BY <2>1, <2>2
<1>8. Only(spoken, P) = both
  <2>1. IsConcat(Only(spoken, P), Only(said, P), Only(messages, P))
    BY <1>1, OnlyConcat DEF LogInv
  <2> QED
    BY <1>6, <2>1, Zenon DEF IsConcat
<1>9. PICK left, right : IsConcat(left, logFile, now) /\ IsConcat(right, base, both)
  BY DEF IsConcat
<1>10. IsConcat(logFile, base, before)
  BY <1>5, <1>6 DEF IsConcat
<1>11. base \in Seq(Lines) /\ logFile \in Seq(Lines)
  BY DEF LogInv
<1>12. left = right
  BY <1>6, <1>7, <1>9, <1>10, <1>11, ConcatAssoc, Zenon
<1>13. left \in Seq(Lines)
  <2>1. Joined(Lines, left, logFile, now)
    BY <1>7, <1>9, <1>11, ConcatIs, Zenon
  <2> QED
    BY <2>1 DEF Joined
<1>14. logFile' = left
  BY <1>3, <1>6, <1>9 DEF IsConcat
<1>15. logFile' = base' \o Only(said', P')
  BY <1>1, <1>4, <1>8, <1>9, <1>12, <1>14 DEF IsConcat
<1>16. UsedFound(filters') /\ base' \in Seq(Lines)
  BY <1>11 DEF LogInv
<1> QED
  BY <1>1, <1>2, <1>13, <1>14, <1>15, <1>16 DEF LogInv, P

(* A logger without a filter finds the one that would be found anyway.     *)
LEMMA FilterFound ==
    ASSUME LogInv, configured
    PROVE  /\ \A n : IdOf(filters, n) = FilterOf(filters, n)
           /\ \A messages : Found(messages) =>
                 \A n \in DOMAIN fids' : fids'[n] \in {Unknown, FilterOf(filters, n)}
<1>1. \A n : IdOf(filters, n) = FilterOf(filters, n)
  BY DEF LogInv, IdOf
<1> QED
  BY <1>1 DEF Found

(* What goes to the file is what passes.                                   *)
LEMMA FilePasses ==
    ASSUME LogInv, configured, NEW messages \in Seq(Alone)
    PROVE  ToFile(messages) = Only(messages, Passes(filters))
<1> DEFINE S == {m \in Elements(messages) : Written(filters, IdOf(filters, m.name), m)}
<1>1. \A m \in Elements(messages) : m \in S <=> m \in Passes(filters)
  <2>1. Elements(messages) \subseteq Alone
    BY DEF Elements
  <2> QED
    BY <2>1, FilterFound DEF Passes, Alone
<1>2. ToFile(messages) = Only(messages, S)
  BY Zenon DEF ToFile
<1> HIDE DEF S
<1> QED
  BY <1>1, <1>2, OnlyAgree

(* What was not logged alone does not pass.                                *)
LEMMA CutOffTyped ==
    ASSUME NEW messages \in Seq(Messages), NEW fs
    PROVE  /\ NotAlone(messages) \in Seq(Messages)
           /\ Only(NotAlone(messages), Passes(fs)) = <<>>
<1>1. PICK t : t = NotAlone(messages)
  OBVIOUS
<1>2. /\ DOMAIN t = 1..Len(messages) /\ Len(messages) \in Nat
      /\ t = [i \in 1..Len(messages) |-> [messages[i] EXCEPT !.alone = FALSE]]
  BY <1>1 DEF NotAlone
<1>3. ASSUME NEW i \in 1..Len(messages)
      PROVE  t[i] \in Messages /\ ~t[i].alone
  <2>1. PICK m \in Messages : m = messages[i]
    OBVIOUS
  <2>2. t[i] = [m EXCEPT !.alone = FALSE]
    BY <1>2, <2>1
  <2> QED
    BY <2>2 DEF Messages
<1>4. t \in Seq(Messages)
  BY <1>2, <1>3
<1>5. \A x \in Elements(t) : x \notin Passes(fs)
  BY <1>2, <1>3 DEF Elements, Passes
<1>6. Only(t, Passes(fs)) = <<>>
  BY <1>4, <1>5, OnlyNone
<1> QED
  BY <1>1, <1>4, <1>6

LEMMA LogGrows ==
    ASSUME LogInv, NEW messages \in Seq(Alone), Log(messages),
           pc' \in {"Off", "Make", "Configure"} => ~configured
    PROVE  LogInv'
<1>1. messages \in Seq(Messages) /\ UNCHANGED <<configured, filters, base>>
  BY DEF Alone, Log
<1>2. CASE ~configured
  <2>1. /\ said' = said \o messages /\ cache' = cache \o messages
        /\ UNCHANGED <<fids, logFile, writing>>
    BY <1>2 DEF Log
  <2>2. said \in Seq(Alone) /\ said \in Seq(Messages)
    BY <1>2 DEF LogInv
  <2>3. PICK c : IsConcat(c, said, messages) /\ said' = c
    BY <2>1 DEF IsConcat
  <2>4. c \in Seq(Alone) /\ c \in Seq(Messages)
    BY <1>1, <2>2, <2>3, ConcatIs DEF Joined
  <2> QED
    BY <1>1, <1>2, <2>1, <2>3, <2>4 DEF LogInv
<1>3. CASE /\ configured /\ (writing = <<>> \/ ToFile(messages) = <<>>)
           /\ said' = said \o messages /\ logFile' = logFile \o ToFile(messages)
           /\ Found(messages) /\ UNCHANGED <<cache, writing>>
  <2>1. (writing = <<>> \/ Writing)'
    BY <1>1, <1>3 DEF LogInv, Writing, Passes
  <2>2. \A k \in DOMAIN fids' : fids'[k] \in {Unknown, FilterOf(filters, k)}
    <3>1. configured /\ Found(messages)
      BY <1>3
    <3> QED
      BY <3>1, FilterFound, Zenon
  <2>3. logFile' = logFile \o Only(messages, Passes(filters))
    <3>1. ToFile(messages) = Only(messages, Passes(filters))
      BY <1>3, FilePasses
    <3> QED
      BY <1>3, <3>1, Zenon
  <2> QED
    BY <1>1, <1>3, <2>1, <2>2, <2>3, LogExtends
<1>4. CASE /\ configured /\ writing # <<>>
           /\ said' = said \o NotAlone(messages) /\ writing' = NotAlone(writing)
           /\ Found(messages) /\ UNCHANGED <<cache, logFile>>
  <2>1. PICK cutOff : /\ cutOff = NotAlone(messages) /\ cutOff \in Seq(Messages)
                      /\ Only(cutOff, Passes(filters)) = <<>>
    BY <1>1, CutOffTyped
  <2>2. logFile' = logFile \o Only(cutOff, Passes(filters))
    BY <1>4, <2>1, ConcatNone DEF LogInv, IsConcat
  <2>3. Writing'
    <3>1. PICK m \in Messages : writing = <<m>>
      BY <1>4 DEF LogInv, Writing
    <3>2. PICK n : n = [m EXCEPT !.alone = FALSE]
      OBVIOUS
    <3>3. n \in Messages /\ ~n.alone
      BY <3>2 DEF Messages
    <3>4. writing' = <<n>>
      <4>1. PICK w : w = writing /\ DOMAIN w = 1..1 /\ w[1] = m
        BY <3>1
      <4>2. writing' = [i \in DOMAIN w |-> [w[i] EXCEPT !.alone = FALSE]]
        BY <1>4, <4>1, Zenon DEF NotAlone
      <4>3. writing' = [i \in 1..1 |-> n]
        <5>1. \A i \in DOMAIN w : [w[i] EXCEPT !.alone = FALSE] = n
          <6>1. \A i \in DOMAIN w : w[i] = m
            BY <4>1
          <6> QED
            BY <3>2, <6>1, Zenon
        <5>2. writing' = [i \in DOMAIN w |-> n]
          BY <4>2, <5>1
        <5> QED
          BY <4>1, <5>2, Zenon
      <4> QED
        BY <4>3
    <3> QED
      BY <3>3, <3>4 DEF Writing
  <2>4. \A k \in DOMAIN fids' : fids'[k] \in {Unknown, FilterOf(filters, k)}
    BY <1>4, FilterFound
  <2>5. said' = said \o cutOff
    BY <1>4, <2>1
  <2> QED
    BY <1>1, <1>4, <2>1, <2>2, <2>3, <2>4, <2>5, LogExtends
<1> QED
  BY <1>2, <1>3, <1>4 DEF Log

(* The other thread: what it says is there when it has said it.            *)
LEMMA LogBegun ==
    ASSUME LogInv, NEW m \in Alone, LogBegins(m), pc' = pc
    PROVE  LogInv'
<1>1. /\ configured /\ Found(<<m>>) /\ writing = <<>>
      /\ UNCHANGED <<configured, filters, cache, logFile, base>>
  BY DEF LogBegins
<1>2. m \in Messages /\ <<m>> \in Seq(Messages) /\ <<m>> \in Seq(Alone)
  BY DEF Alone
<1>3. \A n \in DOMAIN fids' : fids'[n] \in {Unknown, FilterOf(filters, n)}
  BY <1>1, FilterFound
<1>4. ToFile(<<m>>) = Only(<<m>>, Passes(filters))
  BY <1>1, <1>2, FilePasses
<1>5. CASE ToFile(<<m>>) = <<>>
  <2>1. said' = said \o <<m>> /\ writing' = <<>>
    <3>1. said' = Append(said, m) /\ said \in Seq(Messages)
      BY <1>5 DEF LogBegins, LogInv
    <3> QED
      BY <1>1, <1>2, <1>5, <3>1 DEF LogBegins
  <2>2. logFile' = logFile \o Only(<<m>>, Passes(filters))
    BY <1>1, <1>4, <1>5, ConcatNone DEF LogInv, IsConcat
  <2> QED
    BY <1>1, <1>2, <1>3, <2>1, <2>2, LogExtends DEF LogInv
<1>6. CASE ToFile(<<m>>) # <<>>
  <2>1. m \in Passes(filters)
    BY <1>2, <1>4, <1>6, OnlyOne
  <2>2. writing' = <<m>> /\ said' = said
    BY <1>6 DEF LogBegins
  <2>3. Writing'
    BY <1>1, <1>2, <2>1, <2>2 DEF Writing, Passes
  <2> QED
    BY <1>1, <1>3, <2>2, <2>3 DEF LogInv
<1> QED
  BY <1>5, <1>6

LEMMA LogEnded ==
    ASSUME LogInv, LogEnds, pc' = pc
    PROVE  LogInv'
<1>1. /\ writing # <<>> /\ writing' = <<>> /\ said' = said \o writing
      /\ logFile' = IF writing[1].alone THEN logFile \o writing ELSE logFile
      /\ UNCHANGED <<configured, filters, cache, fids, base>>
  BY DEF LogEnds
<1>2. configured
  BY <1>1 DEF LogInv
<1>3. PICK m \in Messages : writing = <<m>> /\ (m.alone => m \in Passes(filters))
  BY <1>1, <1>2 DEF LogInv, Writing
<1>4. Only(<<m>>, Passes(filters)) = IF m.alone THEN <<m>> ELSE <<>>
  BY <1>3, OnlyOne DEF Passes
<1>5. logFile' = logFile \o Only(<<m>>, Passes(filters))
  <2>1. writing[1] = m
    BY <1>3
  <2>2. CASE m.alone
    BY <1>1, <1>3, <1>4, <2>1, <2>2
  <2>3. CASE ~m.alone
    BY <1>1, <1>4, <2>1, <2>3, ConcatNone DEF LogInv, IsConcat
  <2> QED
    BY <2>2, <2>3
<1>6. <<m>> \in Seq(Messages) /\ said' = said \o <<m>>
  BY <1>1, <1>3
<1>7. \A n \in DOMAIN fids' : fids'[n] \in {Unknown, FilterOf(filters, n)}
  BY <1>1, <1>2 DEF LogInv
<1> QED
  BY <1>1, <1>2, <1>5, <1>6, <1>7, LogExtends DEF LogInv

(* What was kept is let through in order, after the line that opens the    *)
(* log.                                                                    *)
LEMMA LogConfigures ==
    ASSUME LogInv, ~configured, NEW append \in BOOLEAN, NEW conf, FilterConf(conf),
           Configure(append, conf, FALSE, "started"), pc' = "Early"
    PROVE  LogInv'
<1>1. PICK fs : fs = Filters(conf, FALSE)
  OBVIOUS
<1>2. UsedFound(fs)
  BY <1>1, FiltersFound
<1>3. /\ filters' = fs /\ configured' /\ said' = said /\ fids' = fids
      /\ base' = (IF append THEN logFile ELSE <<>>) \o <<"started">>
      /\ logFile' = base' \o FromCache(fs) /\ writing' = writing
  BY <1>1 DEF Configure
<1>4. cache = said /\ DOMAIN fids = {} /\ writing = <<>> /\ said \in Seq(Alone)
  BY DEF LogInv
<1>5. FromCache(fs) = Only(said, Passes(fs))
  <2> DEFINE S == {m \in Elements(said) : Written(fs, FilterOf(fs, m.name), m)}
  <2>1. \A m \in Elements(said) : m \in S <=> m \in Passes(fs)
    <3>1. Elements(said) \subseteq Alone
      BY <1>4 DEF Elements
    <3> QED
      BY <3>1 DEF Passes, Alone
  <2>2. FromCache(fs) = Only(said, S)
    BY <1>4 DEF FromCache
  <2> HIDE DEF S
  <2> QED
    BY <2>1, <2>2, OnlyAgree DEF LogInv
<1>6. base' \in Seq(Lines)
  BY <1>3 DEF LogInv, Lines
<1>7. logFile' \in Seq(Lines)
  <2>1. Only(said, Passes(fs)) \in Seq(Lines)
    <3>1. Only(said, Passes(fs)) \in Seq(Messages \cap Passes(fs))
      BY OnlyElements DEF LogInv
    <3>2. Messages \cap Passes(fs) \subseteq Lines
      BY DEF Lines
    <3> QED
      BY <3>1, <3>2
  <2>2. PICK p : p = Only(said, Passes(fs))
    OBVIOUS
  <2>3. Joined(Lines, logFile', base', p)
    <3>1. IsConcat(logFile', base', p) /\ p \in Seq(Lines)
      BY <1>3, <1>5, <2>1, <2>2 DEF IsConcat
    <3> QED
      BY <1>6, <3>1, ConcatIs, Zenon
  <2> QED
    BY <2>3 DEF Joined
<1> QED
  BY <1>2, <1>3, <1>4, <1>5, <1>6, <1>7 DEF LogInv

(* What configures the log is what "logging" may be set to.                *)
ConfInv ==
    /\ \A d \in DOMAIN files : "logging" \in DOMAIN files[d].values =>
                                   LogConf(files[d].values["logging"])
    /\ pc \in Loaded => "logging" \in DOMAIN settings /\ LogConf(settings["logging"])

LEMMA ConfInit == Init => ConfInv
BY DEF Init, ConfInv, Absent, Loaded, Places

LEMMA ConfMake ==
    ASSUME SettingsInv, ConfInv, Make
    PROVE  ConfInv'
<1>1. CASE Throws
  BY <1>1 DEF Make, ConfInv, settingsVars, Goto, Loaded, Places
<1>2. CASE ~Throws
  <2>1. /\ settings' = IF files[dir'] \in NoText THEN Defaults
                       ELSE Override(Defaults, files[dir'].values)
        /\ files' = files /\ pc' = "Configure"
    BY <1>2 DEF Make, LoadSettings, Goto
  <2>2. dir' \in DOMAIN files
    <3>1. SettingsInv'
      BY SettingsMake
    <3> QED
      BY <2>1, <3>1 DEF SettingsInv, Loaded, Places, Usable
  <2>3. PICK v : v = files[dir'].values
    OBVIOUS
  <2>4. "logging" \in DOMAIN v => LogConf(v["logging"])
    BY <2>2, <2>3 DEF ConfInv
  <2>5. "logging" \in DOMAIN Defaults /\ LogConf(Defaults["logging"])
    BY ProgramAssumption DEF ProgramAssumption
  <2>6. /\ "logging" \in DOMAIN Override(Defaults, v)
        /\ LogConf(Override(Defaults, v)["logging"])
    BY <2>4, <2>5 DEF Override
  <2>7. "logging" \in DOMAIN settings' /\ LogConf(settings'["logging"])
    BY <2>1, <2>3, <2>5, <2>6
  <2> QED
    BY <2>1, <2>7 DEF ConfInv
<1> QED
  BY <1>1, <1>2

(* What is put, or asked for, under another name changes nothing of that.  *)
LEMMA ConfPut ==
    ASSUME ConfInv, pc \in Loaded, NEW key, key # "logging", NEW value, UNCHANGED files,
           \/ settings' = settings
           \/ settings' = Override(settings, [k \in {key} |-> value])
           \/ settings' = Override([k \in {key} |-> Null], settings)
    PROVE  ConfInv'
<1>1. "logging" \in DOMAIN settings /\ LogConf(settings["logging"])
  BY DEF ConfInv
<1>2. "logging" \in DOMAIN settings' /\ settings'["logging"] = settings["logging"]
  BY <1>1 DEF Override
<1> QED
  BY <1>1, <1>2 DEF ConfInv

(* One file changes, and the settings do not, or are gone.                 *)
LEMMA ConfFile ==
    ASSUME ConfInv, NEW d, NEW f, files' = [files EXCEPT ![d] = f],
           "logging" \in DOMAIN f.values => LogConf(f.values["logging"]),
           pc' \notin Loaded \/ (pc \in Loaded /\ settings' = settings)
    PROVE  ConfInv'
BY DEF ConfInv

LEMMA ConfNext == SettingsInv /\ ConfInv /\ [Next]_vars => ConfInv'
<1> SUFFICES ASSUME SettingsInv, ConfInv, [Next]_vars PROVE ConfInv'
  OBVIOUS
<1>1. CASE Link \/ LinkLogged \/ Beside \/ UNCHANGED vars
  <2>1. UNCHANGED <<files, settings, pc>>
    BY <1>1 DEF Link, LinkLogged, Beside, vars, mainVars, settingsVars
  <2> QED
    BY <2>1 DEF ConfInv
<1>2. CASE Run \/ Exit \/ Abort
  <2>1. pc' \notin Loaded \ {"Make"} /\ pc' \in {"Make", "Off"} /\ files' = files
    BY <1>2 DEF Run, Exit, Abort, SettingsGone, ProcessGone, settingsVars, Goto, Loaded, Places
  <2> QED
    BY <2>1 DEF ConfInv, Loaded, Places
<1>3. CASE Make
  BY <1>3, ConfMake
<1>4. CASE ConfigureLog
  <2>1. \/ settings' = Override(settings, [k \in {"general"} |-> "plain"])
        \/ settings' = Override([k \in {"general"} |-> Null], settings)
    BY <1>4 DEF ConfigureLog, Put, GotFrom
  <2>2. pc \in Loaded /\ files' = files
    BY <1>4 DEF ConfigureLog, Loaded, Places
  <2> QED
    BY <2>1, <2>2, ConfPut
<1>5. CASE Start
  <2>1. PICK key, name : /\ key # "logging"
                         /\ \/ settings' = settings
                            \/ settings' = Override(settings, [k \in {key} |-> name])
    <3>1. "maps" # "logging"
      OBVIOUS
    <3> QED
      BY <1>5, <3>1, Zenon DEF Start, Put
  <2>2. pc \in Loaded /\ files' = files
    BY <1>5 DEF Start, Loaded, Places
  <2> QED
    BY <2>1, <2>2, ConfPut
<1>6. CASE Early \/ Asserted \/ Connect \/ Activate \/ EventLoopEnds \/ Deactivate \/ Disconnect
           \/ Join
  <2>1. UNCHANGED <<files, settings>> /\ pc \in Loaded
    BY <1>6 DEF Early, Asserted, Connect, Activate, EventLoopEnds, Deactivate, Disconnect, Join,
                settingsVars, Loaded, Places
  <2> QED
    BY <2>1 DEF ConfInv
<1>7. CASE Stop
  <2>1. PICK f \in {Absent, files[dir]} : files' = [files EXCEPT ![dir] = f]
    BY <1>7 DEF Stop, OpenToSave
  <2>2. pc \in Loaded /\ settings' = settings
    BY <1>7 DEF Stop, OpenToSave, Loaded, Places
  <2>3. dir \in DOMAIN files
    BY <2>2 DEF SettingsInv, Usable
  <2>4. "logging" \in DOMAIN f.values => LogConf(f.values["logging"])
    BY <2>1, <2>3 DEF ConfInv, Absent
  <2> QED
    BY <2>1, <2>2, <2>4, ConfFile
<1>8. CASE Saving
  <2>1. PICK f \in {Saved, files[dir]} : files' = [files EXCEPT ![dir] = f]
    BY <1>8 DEF Saving, Save
  <2>2. pc \in Loaded /\ pc' \notin Loaded
    BY <1>8 DEF Saving, Goto, Loaded, Places
  <2>3. dir \in DOMAIN files
    BY <2>2 DEF SettingsInv, Usable
  <2>4. "logging" \in DOMAIN Saved.values => LogConf(Saved.values["logging"])
    BY <2>2 DEF ConfInv, Saved, Text
  <2>5. "logging" \in DOMAIN f.values => LogConf(f.values["logging"])
    BY <2>1, <2>3, <2>4 DEF ConfInv
  <2> QED
    BY <2>1, <2>2, <2>5, ConfFile
<1>9. CASE Edit
  <2>1. pc' \notin Loaded
    BY <1>9 DEF Edit, Loaded, Places
  <2>2. CASE files' = files
    BY <2>1, <2>2 DEF ConfInv
  <2>3. ASSUME NEW d, NEW f \in FileChoices, files' = [files EXCEPT ![d] = f]
        PROVE  ConfInv'
    <3>1. \A g \in FileChoices :
              "logging" \in DOMAIN g.values => LogConf(g.values["logging"])
      BY ProgramAssumption, Zenon DEF ProgramAssumption
    <3>2. "logging" \in DOMAIN f.values => LogConf(f.values["logging"])
      BY <3>1, Zenon
    <3> QED
      BY <2>1, <2>3, <3>2, ConfFile
  <2> QED
    BY <1>9, <2>2, <2>3 DEF Edit
<1>10. CASE Killed
  <2>1. pc' \notin Loaded
    BY <1>10 DEF Killed, ProcessGone, Goto, Loaded, Places
  <2>2. CASE files' = files
    BY <2>1, <2>2 DEF ConfInv
  <2>3. CASE files' = [files EXCEPT ![dir] = Corrupt]
    <3>1. "logging" \notin DOMAIN Corrupt.values
      BY DEF Corrupt
    <3> QED
      BY <2>1, <2>3, <3>1, ConfFile
  <2> QED
    BY <1>10, <2>2, <2>3 DEF Killed, SettingsGone
<1> QED
  BY <1>1, <1>2, <1>3, <1>4, <1>5, <1>6, <1>7, <1>8, <1>9, <1>10 DEF Next, Main

LEMMA LogNext == SettingsInv /\ TilesInv /\ LogInv /\ ConfInv /\ [Next]_vars => LogInv'
<1> SUFFICES ASSUME SettingsInv, TilesInv, LogInv, ConfInv, [Next]_vars PROVE LogInv'
  OBVIOUS
<1> DEFINE Begun == {"Off", "Make", "Configure"}
<1>1. CASE UNCHANGED logVars /\ (pc' \in Begun => pc \in Begun)
  BY <1>1, LogSame DEF LogInv
<1>2. ASSUME NEW messages \in Seq(Alone), Log(messages), pc' \in Begun => pc \in Begun
      PROVE  LogInv'
  BY <1>2, LogGrows DEF LogInv
<1>3. ASSUME NEW name \in Names, NEW severity \in Severities
      PROVE  Message(name, severity) \in Alone
  BY DEF Message, Messages, Alone
<1>4. /\ Message(<<"prefs">>, "W") \in Alone /\ Message(<<"prefs">>, "S") \in Alone
      /\ Message(<<"main">>, "S") \in Alone /\ Message(<<"main">>, "F") \in Alone
      /\ Message(<<"tile", "cfg">>, "E") \in Alone
      /\ Message(<<"msfs", "sim">>, "S") \in Alone
  BY <1>3 DEF Names, Severities
<1>5. CASE Link
  <2>1. pc' = pc
    BY <1>5 DEF Link, mainVars
  <2> QED
    BY <1>1, <1>4, <1>5, <2>1, LogBegun DEF Link
<1>6. CASE Run \/ Connect \/ Deactivate \/ Disconnect \/ Join \/ Stop \/ Edit \/ Beside
           \/ UNCHANGED vars
  <2>1. UNCHANGED logVars /\ (pc' \in Begun => pc \in Begun)
    BY <1>6 DEF Run, Connect, Deactivate, Disconnect, Join, Stop, Edit, Beside, vars, mainVars,
                Goto
  <2> QED
    BY <1>1, <2>1
<1>7. CASE Make
  <2>1. pc' \in Begun => pc \in Begun
    BY <1>7 DEF Make
  <2>2. PICK messages : /\ messages \in {<<Message(<<"prefs">>, "W"), Message(<<"prefs">>, "W")>>,
                                         <<Message(<<"prefs">>, "S")>>}
                        /\ UNCHANGED logVars \/ Log(messages)
    BY <1>7 DEF Make
  <2>3. messages \in Seq(Alone)
    <3>1. PICK w, d : w = Message(<<"prefs">>, "W") /\ d = Message(<<"prefs">>, "S")
      OBVIOUS
    <3>2. w \in Alone /\ d \in Alone
      BY <1>4, <3>1
    <3>3. <<w, w>> \in Seq(Alone) /\ <<d>> \in Seq(Alone)
      BY <3>2
    <3>4. messages = <<w, w>> \/ messages = <<d>>
      BY <2>2, <3>1, Zenon
    <3> QED
      BY <3>3, <3>4, Zenon
  <2> QED
    BY <1>1, <1>2, <2>1, <2>2, <2>3
<1>8. CASE ConfigureLog
  <2>1. "logging" \in DOMAIN settings /\ LogConf(settings["logging"]) /\ ~configured
    BY <1>8 DEF ConfigureLog, ConfInv, LogInv, Loaded, Places
  <2>2. PICK conf : /\ conf = IF Value("logging") = Hollow THEN {} ELSE Value("logging")
                    /\ Configure(Value("general") = "reloading", conf, FALSE, "started")
    BY <1>8 DEF ConfigureLog
  <2>3. FilterConf(conf)
    <3>1. FilterConf({})
      BY FS_EmptySet DEF FilterConf
    <3> QED
      BY <2>1, <2>2, <3>1 DEF LogConf, Value
  <2>4. pc' = "Early"
    BY <1>8 DEF ConfigureLog, Goto
  <2>5. PICK append \in BOOLEAN : Configure(append, conf, FALSE, "started")
    BY <2>2
  <2> QED
    BY <2>1, <2>3, <2>4, <2>5, LogConfigures
<1>9. CASE Early \/ Activate \/ EventLoopEnds
  <2>1. <<Message(<<"main">>, "S")>> \in Seq(Alone)
    BY <1>4
  <2>2. Log(<<Message(<<"main">>, "S")>>) /\ pc' \notin Begun
    BY <1>9 DEF Early, Activate, EventLoopEnds, Goto
  <2> QED
    BY <1>2, <2>1, <2>2
<1>10. CASE Start \/ Asserted
  <2>1. pc' \in {"Abort", "Connect"}
    BY <1>10 DEF Start, Asserted, Goto
  <2>2. PICK file \in TileChoices : file = tileFiles[dir]
    BY <1>10 DEF Start, Asserted, TilesInv, SettingsInv, Usable, Loaded, Places
  <2>3. \A texts \in Seq(ErrorTexts) : Reported(texts) \in Seq(Alone)
    BY <1>4 DEF Reported
  <2>4. PICK errors \in Seq(Alone) : Log(errors) \/ Log(errors \o <<Message(<<"main">>, "F")>>)
    <3>1. CASE Start
      BY <2>2, <2>3, <3>1, ErrorsInOrder DEF Start
    <3>2. CASE Asserted
      <4> DEFINE ends == {i \in DOMAIN file.entries : Asserts(file.entries[i])}
                 First1(i) == \A j \in ends : i <= j
                 at   == CHOOSE i \in ends : First1(i)
      <4>1. ends # {} /\ Log(Reported(ErrorsUpTo(file, at - 1)))
        BY <2>2, <3>2, Zenon DEF Asserted
      <4>2. ends \in SUBSET (Nat \ {0})
        <5>1. IsSeq(file.entries)
          BY ProgramAssumption DEF ProgramAssumption
        <5> QED
          BY <5>1 DEF IsSeq
      <4> HIDE DEF ends
      <4>3. \E i \in ends : First1(i)
        BY <4>1, <4>2, Least
      <4>4. at \in ends
        <5> HIDE DEF First1
        <5> QED
          BY <4>3
      <4> HIDE DEF at
      <4>5. at - 1 \in Nat
        <5>1. at \in Nat \ {0}
          BY <4>2, <4>4, Zenon
        <5> QED
          BY <5>1
      <4>6. Reported(ErrorsUpTo(file, at - 1)) \in Seq(Alone)
        BY <2>3, <4>5, ErrorsTyped
      <4> QED
        BY <4>1, <4>6
    <3> QED
      BY <1>10, <3>1, <3>2
  <2>5. errors \o <<Message(<<"main">>, "F")>> \in Seq(Alone)
    BY <1>4
  <2> QED
    BY <1>2, <2>1, <2>4, <2>5
<1>11. CASE Saving
  <2>1. pc' = "Exit"
    BY <1>11 DEF Saving, Goto
  <2>2. /\ <<Message(<<"prefs">>, "S"), Message(<<"prefs">>, "S")>> \in Seq(Alone)
        /\ <<Message(<<"prefs">>, "S")>> \in Seq(Alone)
    BY <1>4
  <2> QED
    BY <1>2, <1>11, <2>1, <2>2 DEF Saving
<1>12. CASE Killed \/ Abort \/ Exit
  BY <1>12, LogGoneHolds DEF Killed, Abort, Exit
<1>13. CASE LinkLogged
  BY <1>13, LogEnded DEF LinkLogged, mainVars
<1> QED
  BY <1>5, <1>6, <1>7, <1>8, <1>9, <1>10, <1>11, <1>12, <1>13 DEF Next, Main

(* Whatever the settings configure, a message that was said before there   *)
(* were filters is in the file when, and only when, one that was said      *)
(* later would be, at its place, and none is there twice; but for messages *)
(* of two threads at a time, which no mutex keeps apart                    *)
(* (logmanager.cpp:120, 138, 165).                                         *)
THEOREM EachMessageIsLoggedOnce == Spec => []LoggedOnce
BY SettingsInit, TilesInit, ConfInit, LogInitHolds, SettingsStep, TilesNext, ConfNext,
   LogNext, LogHoldsProperty, PTL DEF Spec

-----------------------------------------------------------------------------
(* The addresses of tiles                                                  *)

(* A set of numbers up to some number that is not empty has a greatest.    *)
LEMMA Greatest ==
    ASSUME NEW n \in Nat, NEW T \in SUBSET (1..n), T # {}
    PROVE  \E x \in T : \A y \in T : y <= x
<1> DEFINE D == {n - x : x \in T}
<1>1. D \in SUBSET Nat /\ D # {}
  <2>1. ASSUME NEW x \in T PROVE n - x \in Nat
    <3>1. x \in 1..n
      OBVIOUS
    <3> QED
      BY <3>1
  <2> QED
    BY <2>1
<1>2. PICK k \in D : \A l \in D : k <= l
  BY <1>1, Least
<1>3. PICK x \in T : k = n - x
  BY <1>2
<1>4. ASSUME NEW y \in T PROVE y <= x
  <2>1. n - x <= n - y
    BY <1>2, <1>3
  <2>2. x \in Nat /\ y \in Nat
    OBVIOUS
  <2> QED
    BY <2>1, <2>2
<1> QED
  BY <1>4

(* Every tile server of a file is what was read of one of its entries.     *)
LEMMA PopulateReads ==
    ASSUME NEW file \in TileChoices, NEW name \in DOMAIN Populate(file)
    PROVE  \E i \in DOMAIN file.entries :
               /\ ~Disabled(file.entries[i])
               /\ Populate(file)[name] = ReadEntry(file.entries[i], i).config
<1> DEFINE read  == {i \in DOMAIN file.entries : ~Disabled(file.entries[i])}
           At(i) == ReadEntry(file.entries[i], i)
           L(i)  == /\ At(i).name = name /\ \A j \in read : At(j).name = name => j <= i
           T     == {i \in read : At(i).name = name}
<1>1. PICK n \in Nat : DOMAIN file.entries = 1..n
  <2>1. IsSeq(file.entries)
    BY ProgramAssumption DEF ProgramAssumption
  <2> QED
    BY <2>1 DEF IsSeq
<1>2. T # {}
  BY Zenon DEF Populate
<1>3. \E i \in read : L(i)
  <2>1. T \in SUBSET (1..n)
    BY <1>1
  <2>2. PICK i \in T : \A j \in T : j <= i
    BY <1>2, <2>1, Greatest
  <2> QED
    BY <2>2
<1>4. PICK l : l = CHOOSE i \in read : L(i)
  OBVIOUS
<1>5. l \in read
  BY <1>3, <1>4
<1>6. Populate(file)[name] = At(l).config
  BY <1>4, Zenon DEF Populate
<1> QED
  BY <1>5, <1>6

(* What the provider is given when nothing is thrown is what was read of   *)
(* an entry, or else the one that is made when there is none.              *)
LEMMA GetConfigReads ==
    ASSUME NEW file \in TileChoices, NEW name, NEW read,
           read = TileProviderConfigLoader(file), ~GetConfigThrows(read, name),
           GetConfig(read, name, SortedNames).valid
    PROVE  \E i \in DOMAIN file.entries :
               /\ ~Disabled(file.entries[i])
               /\ GetConfig(read, name, SortedNames) = ReadEntry(file.entries[i], i).config
<1>1. CASE Populate(file) = <<>>
  <2>1. read = [n \in {Blank} |-> Bogus]
    BY <1>1 DEF TileProviderConfigLoader
  <2>2. GetConfig(read, name, SortedNames) = Bogus
    BY <2>1 DEF GetConfig, GetConfigThrows, FirstName
  <2>3. ~Bogus.valid
    BY DEF Bogus
  <2> QED
    BY <2>2, <2>3
<1>2. CASE Populate(file) # <<>>
  <2>1. read = Populate(file)
    BY <1>2 DEF TileProviderConfigLoader
  <2>2. DOMAIN read # {}
    <3>1. ASSUME NEW f, DOMAIN f = {}, f = [x \in DOMAIN f |-> f[x]]
          PROVE  f = <<>>
      <4>1. f \in [1..0 -> {}] /\ <<>> \in Seq({})
        BY <3>1
      <4>2. f \in Seq({}) /\ Len(f) = 0
        BY <4>1
      <4> QED
        BY <4>1, <4>2, SameSeq
    <3>2. Populate(file) = [x \in DOMAIN Populate(file) |-> Populate(file)[x]]
      <4> DEFINE rd    == {i \in DOMAIN file.entries : ~Disabled(file.entries[i])}
                 At(i) == ReadEntry(file.entries[i], i)
                 S     == {At(i).name : i \in rd}
                 F(n)  == At(CHOOSE i \in rd : /\ At(i).name = n
                                               /\ \A j \in rd : At(j).name = n => j <= i).config
      <4>1. Populate(file) = [n \in S |-> F(n)]
        BY Zenon DEF Populate
      <4> HIDE DEF rd, At, S, F
      <4> QED
        BY <4>1
    <3> QED
      BY <1>2, <2>1, <3>1, <3>2
  <2>3. FirstName(read, SortedNames) \in DOMAIN read
    <3>1. CASE Blank \in DOMAIN read
      BY <3>1 DEF FirstName
    <3>2. CASE Blank \notin DOMAIN read
      <4> DEFINE there == {i \in DOMAIN SortedNames : SortedNames[i] \in DOMAIN read}
      <4>1. IsSeq(SortedNames) /\ DOMAIN read \subseteq Elements(SortedNames)
        BY <2>1, ProgramAssumption DEF ProgramAssumption
      <4>2. there # {}
        BY <2>2, <4>1 DEF Elements
      <4>3. there \in SUBSET Nat
        BY <4>1 DEF IsSeq
      <4>4. PICK i \in there : \A j \in there : i <= j
        BY <4>2, <4>3, Least
      <4>5. PICK l \in there : FirstName(read, SortedNames) = SortedNames[l]
        BY <3>2, <4>4 DEF FirstName
      <4> QED
        BY <4>5
    <3> QED
      BY <3>1, <3>2
  <2>4. PICK k \in DOMAIN read : GetConfig(read, name, SortedNames) = read[k]
    BY <2>3 DEF GetConfig, GetConfigThrows
  <2> QED
    BY <2>1, <2>4, PopulateReads
<1> QED
  BY <1>1, <1>2

(* The address of a server that is valid has every placeholder, and the    *)
(* parts around them.                                                      *)
ReadFrom(c, e) ==
    /\ c.protocol = Lower(e.protocol) /\ c.url = WithoutSlashes(e.url)
    /\ c.order = fmtOrder(c.url).order
    /\ c.parts = splitUrl(c.url, fmtOrder(c.url).at)
    /\ IsComplete(c.url)
    /\ \A si \in DOMAIN c.servers : c.servers[si] \in Elements(e.servers) \ {Blank}

LEMMA EntryReads ==
    ASSUME NEW e, NEW i, NEW c, c = ReadEntry(e, i).config, c.valid,
           IsSeq(e.servers), IsSeq(e.url)
    PROVE  ReadFrom(c, e)
<1> DEFINE T == Elements(e.servers) \ {<<"no", "text">>}
<1>1. PICK some : some = Only(e.servers, T)
  OBVIOUS
<1>2. PICK new : new = [NewConfig EXCEPT !.servers = some, !.protocol = e.protocol, !.url = e.url]
  OBVIOUS
<1>3. e.kind = "object" /\ e.name # Blank /\ c = Validate(new, e)
  <2>1. ~NewConfig.valid
    BY DEF NewConfig
  <2>2. new = Given(e)
    BY <1>1, <1>2, Zenon DEF Given
  <2> QED
    BY <2>1, <2>2 DEF ReadEntry
<1>4. PICK none, text :
        new = [servers |-> some, protocol |-> e.protocol, url |-> e.url, order |-> text,
               parts |-> none, valid |-> FALSE]
  <2>1. PICK none, text : NewConfig = [servers |-> none, protocol |-> text, url |-> none,
                                       order |-> text, parts |-> none, valid |-> FALSE]
    BY DEF NewConfig
  <2> QED
    BY <1>2, <2>1
<1>5. PICK hosts, url, order, parts, protocol, valid :
        /\ hosts = Hosts(new) /\ url = WithoutSlashes(new.url)
        /\ order = fmtOrder(url).order /\ parts = splitUrl(url, fmtOrder(url).at)
        /\ protocol = Lower(new.protocol) /\ valid = (protocol \in {"http", "https"} /\ e.sound)
  BY Zenon
<1>6. c = IF hosts = <<>> THEN [new EXCEPT !.servers = <<>>]
          ELSE IF ~IsComplete(url) THEN [new EXCEPT !.servers = hosts, !.url = url]
          ELSE [new EXCEPT !.servers = hosts, !.url = url, !.order = order, !.parts = parts,
                           !.protocol = protocol, !.valid = valid]
  <2>1. [new EXCEPT !.protocol = Lower(@)] = [new EXCEPT !.protocol = protocol]
    BY <1>4, <1>5
  <2> QED
    BY <1>3, <1>5, Zenon DEF Validate
<1>7. hosts # <<>> /\ IsComplete(url)
  BY <1>4, <1>6
<1>8. /\ c.servers = hosts /\ c.protocol = protocol /\ c.url = url /\ c.order = order
      /\ c.parts = parts
  BY <1>4, <1>6, <1>7
<1>9. \A si \in DOMAIN c.servers : c.servers[si] \in Elements(e.servers) \ {Blank}
  <2>1. some \in Seq(Elements(e.servers))
    <3>1. Only(e.servers, T) \in Seq(Elements(e.servers) \cap T)
      BY OnlyElements DEF IsSeq
    <3> QED
      BY <1>1, <3>1
  <2>2. hosts = Only(some, Elements(some) \ {Blank})
    BY <1>4, <1>5 DEF Hosts
  <2>3. hosts \in Seq(Elements(e.servers) \cap (Elements(some) \ {Blank}))
    BY <2>1, <2>2, OnlyElements
  <2> QED
    BY <1>8, <2>3
<1>10. url = WithoutSlashes(e.url) /\ protocol = Lower(e.protocol)
  BY <1>4, <1>5
<1> QED
  BY <1>5, <1>7, <1>8, <1>9, <1>10, Zenon DEF ReadFrom

LEMMA UrlTyped ==
    ASSUME NEW u, IsSeq(u)
    PROVE  IsSeq(WithoutSlashes(u))
<1> DEFINE there == {i \in DOMAIN u : u[i] # "/"} \cup {Len(u)}
<1>1. CASE u = <<>>
  BY <1>1 DEF WithoutSlashes
<1>2. CASE u # <<>>
  <2>1. u \in Seq(Elements(u)) /\ Len(u) \in Nat \ {0} /\ DOMAIN u = 1..Len(u)
    BY <1>2 DEF IsSeq
  <2>2. there \in SUBSET Nat /\ there # {} /\ there \subseteq 1..Len(u)
    BY <2>1
  <2>3. PICK i \in there : \A j \in there : i <= j
    BY <2>2, Least
  <2>4. PICK k \in there : WithoutSlashes(u) = SubSeq(u, k, Len(u))
    BY <1>2, <2>3 DEF WithoutSlashes
  <2>5. PICK w : w = SubSeq(u, k, Len(u))
    OBVIOUS
  <2>6. k \in 1..Len(u)
    BY <2>2
  <2>7. w \in Seq(Elements(u)) /\ Len(w) \in Nat
    BY <2>1, <2>5, <2>6
  <2>8. w \in Seq(Elements(w))
    BY <2>7 DEF Elements
  <2> QED
    BY <2>4, <2>5, <2>8 DEF IsSeq
<1> QED
  BY <1>1, <1>2

(* A placeholder is where it is first.                                     *)
LEMMA PositionIs ==
    ASSUME NEW u, IsSeq(u), NEW p, Position(u, p) # 0
    PROVE  Position(u, p) \in 1..Len(u) /\ u[Position(u, p)] = p
<1> DEFINE T == {i \in DOMAIN u : u[i] = p}
           There(i) == u[i] = p /\ \A j \in 1..i - 1 : u[j] # p
<1>1. T # {} /\ DOMAIN u = 1..Len(u) /\ Len(u) \in Nat
  BY DEF Position, IsSeq
<1>2. PICK i \in T : \A j \in T : i <= j
  <2>1. T \in SUBSET Nat
    BY <1>1
  <2> QED
    BY <1>1, <2>1, Least
<1>3. There(i)
  <2>1. ASSUME NEW j \in 1..i - 1 PROVE u[j] # p
    <3>1. i \in 1..Len(u)
      BY <1>1
    <3>2. j \in DOMAIN u /\ ~ (i <= j)
      BY <1>1, <3>1
    <3> QED
      BY <1>2, <3>2
  <2> QED
    BY <2>1
<1>4. PICK k : k = CHOOSE l \in DOMAIN u : There(l)
  OBVIOUS
<1>5. k \in DOMAIN u /\ There(k)
  <2>1. \E l \in DOMAIN u : There(l)
    BY <1>3
  <2> HIDE DEF There
  <2> QED
    BY <1>4, <2>1
<1>6. Position(u, p) = k
  BY <1>1, <1>4 DEF Position
<1> QED
  BY <1>1, <1>5, <1>6

(* The comparisons name the order that the placeholders are in.            *)
IsOrder(name, a, b, c) ==
    \/ name = "XYZ" /\ a = "{x}" /\ b = "{y}" /\ c = "{z}"
    \/ name = "XZY" /\ a = "{x}" /\ b = "{z}" /\ c = "{y}"
    \/ name = "YXZ" /\ a = "{y}" /\ b = "{x}" /\ c = "{z}"
    \/ name = "YZX" /\ a = "{y}" /\ b = "{z}" /\ c = "{x}"
    \/ name = "ZXY" /\ a = "{z}" /\ b = "{x}" /\ c = "{y}"
    \/ name = "ZYX" /\ a = "{z}" /\ b = "{y}" /\ c = "{x}"

InOrder(o, u, found) ==
    /\ IsOrder(found.order, o[1], o[2], o[3])
    /\ \A k \in 1..3 : found.at[k] = Position(u, o[k])
    /\ \A k, j \in 1..3 : k < j => Position(u, o[k]) < Position(u, o[j])

LEMMA OrderIs ==
    ASSUME NEW u, IsSeq(u), IsComplete(u)
    PROVE  \E o \in [1..3 -> Placeholders] : InOrder(o, u, fmtOrder(u))
<1>1. \A p \in Placeholders : Position(u, p) \in Nat /\ u[Position(u, p)] = p
  <2>1. Len(u) \in Nat
    BY DEF IsSeq
  <2> QED
    BY <2>1, PositionIs DEF IsComplete
<1>2. ASSUME NEW a \in Placeholders, NEW b \in Placeholders, NEW c \in Placeholders,
             NEW i, NEW j, NEW k, i = Position(u, a), j = Position(u, b), k = Position(u, c),
             i < j, j < k, NEW name, IsOrder(name, a, b, c),
             fmtOrder(u) = [order |-> name, at |-> <<i, j, k>>]
      PROVE  \E o \in [1..3 -> Placeholders] : InOrder(o, u, fmtOrder(u))
  <2>1. PICK o : o \in [1..3 -> Placeholders] /\ o[1] = a /\ o[2] = b /\ o[3] = c
    <3> DEFINE o == [n \in 1..3 |-> IF n = 1 THEN a ELSE IF n = 2 THEN b ELSE c]
    <3>1. o \in [1..3 -> Placeholders] /\ o[1] = a /\ o[2] = b /\ o[3] = c
      OBVIOUS
    <3> HIDE DEF o
    <3> QED
      BY <3>1
  <2>2. i < k
    BY <1>1, <1>2
  <2>3. \A l, m \in 1..3 : l < m => (l = 1 /\ m = 2) \/ (l = 1 /\ m = 3) \/ (l = 2 /\ m = 3)
    OBVIOUS
  <2>4. \A l, m \in 1..3 : l < m => Position(u, o[l]) < Position(u, o[m])
    BY <1>2, <2>1, <2>2, <2>3
  <2>5. PICK at : at = <<i, j, k>> /\ at[1] = i /\ at[2] = j /\ at[3] = k
    <3>1. /\ <<i, j, k>>[1] = i /\ <<i, j, k>>[2] = j /\ <<i, j, k>>[3] = k
      OBVIOUS
    <3> QED
      BY <3>1, Zenon
  <2>6. fmtOrder(u).order = name /\ fmtOrder(u).at = at
    BY <1>2, <2>5
  <2>7. \A l \in 1..3 : at[l] = Position(u, o[l])
    <3>1. \A l \in 1..3 : l = 1 \/ l = 2 \/ l = 3
      OBVIOUS
    <3> QED
      BY <1>2, <2>1, <2>5, <3>1
  <2>8. IsOrder(fmtOrder(u).order, o[1], o[2], o[3])
    BY <1>2, <2>1, <2>6
  <2> QED
    BY <2>1, <2>4, <2>6, <2>7, <2>8, Zenon DEF InOrder
<1>3. PICK x, y, z \in Nat : /\ x = Position(u, "{x}") /\ y = Position(u, "{y}")
                             /\ z = Position(u, "{z}")
  BY <1>1 DEF Placeholders
<1>4. x # y /\ y # z /\ x # z
  <2>1. "{x}" # "{y}" /\ "{y}" # "{z}" /\ "{x}" # "{z}"
    OBVIOUS
  <2> QED
    BY <1>1, <1>3, <2>1 DEF Placeholders
<1>5. fmtOrder(u) = IF x < y
        THEN IF z < x      THEN [order |-> "ZXY", at |-> <<z, x, y>>]
             ELSE IF z < y THEN [order |-> "XZY", at |-> <<x, z, y>>]
             ELSE               [order |-> "XYZ", at |-> <<x, y, z>>]
        ELSE IF z < y      THEN [order |-> "ZYX", at |-> <<z, y, x>>]
             ELSE IF z < x THEN [order |-> "YZX", at |-> <<y, z, x>>]
             ELSE               [order |-> "YXZ", at |-> <<y, x, z>>]
  BY <1>3, Zenon DEF fmtOrder
<1>6. "{x}" \in Placeholders /\ "{y}" \in Placeholders /\ "{z}" \in Placeholders
  BY DEF Placeholders
<1>7. CASE z < x /\ x < y
  <2>1. fmtOrder(u) = [order |-> "ZXY", at |-> <<z, x, y>>]
    BY <1>5, <1>7, Zenon
  <2>2. IsOrder("ZXY", "{z}", "{x}", "{y}")
    BY DEF IsOrder
  <2> QED
    BY <1>2, <1>3, <1>6, <1>7, <2>1, <2>2, Zenon
<1>8. CASE x < z /\ z < y
  <2>1. x < y /\ ~(z < x)
    BY <1>8
  <2>2. fmtOrder(u) = [order |-> "XZY", at |-> <<x, z, y>>]
    BY <1>5, <1>8, <2>1, Zenon
  <2>3. IsOrder("XZY", "{x}", "{z}", "{y}")
    BY DEF IsOrder
  <2> QED
    BY <1>2, <1>3, <1>6, <1>8, <2>2, <2>3, Zenon
<1>9. CASE x < y /\ y < z
  <2>1. ~(z < x) /\ ~(z < y)
    BY <1>9
  <2>2. fmtOrder(u) = [order |-> "XYZ", at |-> <<x, y, z>>]
    BY <1>5, <1>9, <2>1, Zenon
  <2>3. IsOrder("XYZ", "{x}", "{y}", "{z}")
    BY DEF IsOrder
  <2> QED
    BY <1>2, <1>3, <1>6, <1>9, <2>2, <2>3, Zenon
<1>10. CASE z < y /\ y < x
  <2>1. ~(x < y)
    BY <1>10
  <2>2. fmtOrder(u) = [order |-> "ZYX", at |-> <<z, y, x>>]
    BY <1>5, <1>10, <2>1, Zenon
  <2>3. IsOrder("ZYX", "{z}", "{y}", "{x}")
    BY DEF IsOrder
  <2> QED
    BY <1>2, <1>3, <1>6, <1>10, <2>2, <2>3, Zenon
<1>11. CASE y < z /\ z < x
  <2>1. ~(x < y) /\ ~(z < y)
    BY <1>11
  <2>2. fmtOrder(u) = [order |-> "YZX", at |-> <<y, z, x>>]
    BY <1>5, <1>11, <2>1, Zenon
  <2>3. IsOrder("YZX", "{y}", "{z}", "{x}")
    BY DEF IsOrder
  <2> QED
    BY <1>2, <1>3, <1>6, <1>11, <2>2, <2>3, Zenon
<1>12. CASE y < x /\ x < z
  <2>1. ~(x < y) /\ ~(z < y) /\ ~(z < x)
    BY <1>12
  <2>2. fmtOrder(u) = [order |-> "YXZ", at |-> <<y, x, z>>]
    BY <1>5, <2>1, Zenon
  <2>3. IsOrder("YXZ", "{y}", "{x}", "{z}")
    BY DEF IsOrder
  <2> QED
    BY <1>2, <1>3, <1>6, <1>12, <2>2, <2>3, Zenon
<1> QED
  BY <1>4, <1>7, <1>8, <1>9, <1>10, <1>11, <1>12

(* c is the first m elements of f after what comes before them.            *)
Begun(E, c, before, f, m) ==
    /\ c \in Seq(E) /\ Len(c) = Len(before) + m
    /\ \A i \in 1..Len(before) : c[i] = before[i]
    /\ \A i \in 1..m : c[Len(before) + i] = f[i]

(* A piece is what f is after the first m, up to k.                        *)
Continues(piece, f, m, k) ==
    m <= k /\ Len(piece) = k - m /\ \A i \in 1..k - m : piece[i] = f[m + i]

LEMMA BegunGrows ==
    ASSUME NEW E, NEW before \in Seq(E), NEW c, NEW f, NEW m \in Nat, NEW k \in Nat,
           Begun(E, c, before, f, m),
           NEW piece \in Seq(E), Continues(piece, f, m, k), NEW d, IsConcat(d, c, piece)
    PROVE  Begun(E, d, before, f, k)
<1>1. Joined(E, d, c, piece) /\ c \in Seq(E)
  <2>1. c \in Seq(E)
    BY DEF Begun
  <2> QED
    BY <2>1, ConcatIs, Zenon
<1>2. PICK b, n \in Nat : b = Len(before) /\ n = Len(piece) /\ k = m + n
  BY DEF Continues
<1>3. d \in Seq(E) /\ Len(d) = b + k
  BY <1>1, <1>2 DEF Begun, Joined
<1>4. ASSUME NEW i \in 1..b PROVE d[i] = before[i]
  BY <1>1, <1>2 DEF Begun, Joined
<1>5. ASSUME NEW i \in 1..k PROVE d[b + i] = f[i]
  <2>1. CASE i \in 1..m
    <3>1. b + i \in 1..Len(c)
      BY <1>2, <2>1 DEF Begun
    <3>2. d[b + i] = c[b + i]
      BY <1>1, <3>1 DEF Joined
    <3> QED
      BY <1>2, <2>1, <3>2 DEF Begun
  <2>2. CASE i \notin 1..m
    <3>1. PICK j \in 1..n : i = m + j
      <4>1. i - m \in 1..n /\ i = m + (i - m)
        BY <1>2, <2>2
      <4> QED
        BY <4>1
    <3>2. b + i = (b + m) + j
      BY <3>1
    <3>3. d[(b + m) + j] = piece[j]
      BY <1>1, <1>2, <3>1 DEF Begun, Joined
    <3>4. piece[j] = f[m + j]
      BY <1>2, <3>1 DEF Continues
    <3> QED
      BY <3>1, <3>2, <3>3, <3>4
  <2> QED
    BY <2>1, <2>2
<1> QED
  BY <1>2, <1>3, <1>4, <1>5 DEF Begun

LEMMA SliceIs ==
    ASSUME NEW E, NEW u \in Seq(E), NEW a \in Nat, NEW b \in Nat, a <= b, b <= Len(u)
    PROVE  /\ SubSeq(u, a + 1, b) \in Seq(E) /\ Len(SubSeq(u, a + 1, b)) = b - a
           /\ \A i \in 1..b - a : SubSeq(u, a + 1, b)[i] = u[a + i]
OBVIOUS

(* The parts around the placeholders with the values between them are      *)
(* the address that is filled in, after whatever comes first.              *)
IsSplit(parts, u, at) == parts = splitUrl(u, at)

WithParts(before, parts, order, value) ==
    before \o parts[1] \o <<value[order[1]]>> \o parts[2]
        \o <<value[order[2]]>> \o parts[3] \o <<value[order[3]]>> \o parts[4]

LEMMA PartsFillIn ==
    ASSUME NEW u, IsSeq(u), IsComplete(u),
           NEW order \in [1..3 -> Placeholders],
           \A i, j \in 1..3 : i < j => Position(u, order[i]) < Position(u, order[j]),
           NEW at, \A k \in 1..3 : at[k] = Position(u, order[k]),
           NEW parts, IsSplit(parts, u, at),
           NEW value, NEW E, NEW before \in Seq(E), Elements(u) \subseteq E,
           \A k \in 1..3 : value[order[k]] \in E
    PROVE  WithParts(before, parts, order, value) = before \o FilledIn(u, value)
<1>1. PICK n \in Nat : n = Len(u) /\ DOMAIN u = 1..n /\ u \in Seq(E)
  BY DEF IsSeq
<1>2. PICK q1, q2, q3 \in 1..n : /\ q1 = Position(u, order[1]) /\ q2 = Position(u, order[2])
                                 /\ q3 = Position(u, order[3])
                                 /\ u[q1] = order[1] /\ u[q2] = order[2] /\ u[q3] = order[3]
  <2>1. \A k \in 1..3 : Position(u, order[k]) # 0
    BY DEF IsComplete
  <2>2. \A k \in 1..3 : /\ Position(u, order[k]) \in 1..n
                         /\ u[Position(u, order[k])] = order[k]
    BY <1>1, <2>1, PositionIs
  <2>3. 1 \in 1..3 /\ 2 \in 1..3 /\ 3 \in 1..3
    OBVIOUS
  <2> QED
    BY <2>2, <2>3, Zenon
<1>3. q1 < q2 /\ q2 < q3
  BY <1>2
<1>4. \A p \in Placeholders : p = order[1] \/ p = order[2] \/ p = order[3]
  <2>1. order[1] # order[2] /\ order[2] # order[3] /\ order[1] # order[3]
    BY <1>2, <1>3
  <2>2. PICK x, y, z : Placeholders = {x, y, z}
    BY DEF Placeholders
  <2>3. PICK a, b, c \in {x, y, z} : a = order[1] /\ b = order[2] /\ c = order[3]
    BY <2>2
  <2>4. a # b /\ b # c /\ a # c
    BY <2>1, <2>3
  <2>5. \A p \in {x, y, z} : p = a \/ p = b \/ p = c
    BY <2>4
  <2> QED
    BY <2>2, <2>3, <2>5
<1>5. PICK v1, v2, v3 \in E : v1 = value[order[1]] /\ v2 = value[order[2]] /\ v3 = value[order[3]]
  OBVIOUS
<1>6. PICK f : f = FilledIn(u, value)
  OBVIOUS
<1>7. /\ f[q1] = v1 /\ f[q2] = v2 /\ f[q3] = v3
      /\ \A i \in 1..n : i \notin {q1, q2, q3} => f[i] = u[i]
  <2>1. \A i \in 1..n : f[i] = IF u[i] \in Placeholders /\ i = Position(u, u[i])
                               THEN value[u[i]] ELSE u[i]
    BY <1>1, <1>6 DEF FilledIn
  <2>2. f[q1] = v1 /\ f[q2] = v2 /\ f[q3] = v3
    BY <1>2, <1>5, <2>1
  <2>3. \A i \in 1..n : u[i] \in Placeholders /\ i = Position(u, u[i]) => i \in {q1, q2, q3}
    BY <1>2, <1>4
  <2> QED
    BY <2>1, <2>2, <2>3
<1>8. f \in Seq(E) /\ Len(f) = n
  <2>1. \A i \in 1..n : u[i] \in E
    BY <1>1
  <2>2. \A i \in 1..n : f[i] \in {v1, v2, v3, u[i]}
    BY <1>7
  <2>3. \A i \in 1..n : f[i] \in E
    BY <1>5, <2>1, <2>2
  <2>4. f \in [1..n -> E]
    <3>1. f = [i \in DOMAIN u |-> f[i]]
      BY <1>6, Zenon DEF FilledIn
    <3> QED
      BY <1>1, <2>3, <3>1
  <2> QED
    BY <2>4
<1>9. PICK p1, p2, p3 \in Nat : p1 = q1 - 1 /\ p2 = q2 - 1 /\ p3 = q3 - 1
  OBVIOUS
<1> DEFINE s1 == SubSeq(u, 1, p1)
           s2 == SubSeq(u, q1 + 1, p2)
           s3 == SubSeq(u, q2 + 1, p3)
           s4 == SubSeq(u, q3 + 1, n)
<1>10. parts[1] = s1 /\ parts[2] = s2 /\ parts[3] = s3 /\ parts[4] = s4
  <2>1. PICK q : q = at
    OBVIOUS
  <2>2. q[1] = q1 /\ q[2] = q2 /\ q[3] = q3
    BY <1>2, <2>1
  <2>3. parts = <<SubSeq(u, 1, q[1] - 1), SubSeq(u, q[1] + 1, q[2] - 1),
                  SubSeq(u, q[2] + 1, q[3] - 1), SubSeq(u, q[3] + 1, n)>>
    BY <1>1, <2>1, Zenon DEF IsSplit, splitUrl
  <2>4. parts = <<s1, s2, s3, s4>>
    BY <1>9, <2>2, <2>3
  <2> HIDE DEF s1, s2, s3, s4
  <2> QED
    BY <2>4
<1>11. \A i \in 1..n : i < q1 \/ (q1 < i /\ i < q2) \/ (q2 < i /\ i < q3) \/ q3 < i =>
           f[i] = u[i]
  BY <1>3, <1>7
<1>12. ASSUME NEW a \in Nat, NEW b \in Nat, a <= b, b <= n,
              \A i \in 1..n : a < i /\ i <= b => f[i] = u[i]
       PROVE  SubSeq(u, a + 1, b) \in Seq(E) /\ Continues(SubSeq(u, a + 1, b), f, a, b)
  <2>1. PICK w : w = SubSeq(u, a + 1, b)
    OBVIOUS
  <2>2. w \in Seq(E) /\ Len(w) = b - a /\ \A i \in 1..b - a : w[i] = u[a + i]
    BY <1>1, <1>12, <2>1, SliceIs
  <2>3. \A i \in 1..b - a : f[a + i] = u[a + i]
    BY <1>12
  <2> QED
    BY <1>12, <2>1, <2>2, <2>3 DEF Continues
<1>13. /\ s1 \in Seq(E) /\ Continues(s1, f, 0, p1)
       /\ s2 \in Seq(E) /\ Continues(s2, f, q1, p2)
       /\ s3 \in Seq(E) /\ Continues(s3, f, q2, p3)
       /\ s4 \in Seq(E) /\ Continues(s4, f, q3, n)
  <2>1. s1 \in Seq(E) /\ Continues(s1, f, 0, p1)
    <3>1. PICK o \in Nat : o = 0
      OBVIOUS
    <3>2. o <= p1 /\ p1 <= n /\ \A i \in 1..n : o < i /\ i <= p1 => f[i] = u[i]
      BY <1>9, <1>11, <3>1
    <3>3. SubSeq(u, o + 1, p1) \in Seq(E) /\ Continues(SubSeq(u, o + 1, p1), f, o, p1)
      BY <1>12, <3>2
    <3>4. o + 1 = 1
      BY <3>1
    <3> QED
      BY <3>1, <3>3, <3>4
  <2>2. s2 \in Seq(E) /\ Continues(s2, f, q1, p2)
    <3>1. q1 <= p2 /\ p2 <= n /\ \A i \in 1..n : q1 < i /\ i <= p2 => f[i] = u[i]
      BY <1>3, <1>9, <1>11
    <3> QED
      BY <1>12, <3>1
  <2>3. s3 \in Seq(E) /\ Continues(s3, f, q2, p3)
    <3>1. q2 <= p3 /\ p3 <= n /\ \A i \in 1..n : q2 < i /\ i <= p3 => f[i] = u[i]
      BY <1>3, <1>9, <1>11
    <3> QED
      BY <1>12, <3>1
  <2>4. s4 \in Seq(E) /\ Continues(s4, f, q3, n)
    <3>1. q3 <= n /\ n <= n /\ \A i \in 1..n : q3 < i /\ i <= n => f[i] = u[i]
      BY <1>11
    <3> QED
      BY <1>12, <3>1
  <2> QED
    BY <2>1, <2>2, <2>3, <2>4
<1> HIDE DEF s1, s2, s3, s4
<1>14. PICK t1, t2, t3 :
          /\ t1 = <<v1>> /\ t1 \in Seq(E) /\ Continues(t1, f, p1, q1)
          /\ t2 = <<v2>> /\ t2 \in Seq(E) /\ Continues(t2, f, p2, q2)
          /\ t3 = <<v3>> /\ t3 \in Seq(E) /\ Continues(t3, f, p3, q3)
  <2>1. ASSUME NEW v \in E, NEW p \in Nat, NEW q \in Nat, p = q - 1, f[q] = v
        PROVE  <<v>> \in Seq(E) /\ Continues(<<v>>, f, p, q)
    <3>1. PICK t : t = <<v>> /\ t \in Seq(E) /\ Len(t) = 1 /\ t[1] = v
      <4>1. <<v>> \in Seq(E) /\ Len(<<v>>) = 1 /\ <<v>>[1] = v
        OBVIOUS
      <4> QED
        BY <4>1, Zenon
    <3>2. q - p = 1 /\ p <= q /\ p + 1 = q
      BY <2>1
    <3>3. \A i \in 1..1 : t[i] = f[p + i]
      BY <2>1, <3>1, <3>2
    <3> QED
      BY <3>1, <3>2, <3>3 DEF Continues
  <2>2. \A v \in E, p \in Nat, q \in Nat : p = q - 1 /\ f[q] = v =>
            <<v>> \in Seq(E) /\ Continues(<<v>>, f, p, q)
    BY <2>1
  <2>3. q1 \in Nat /\ q2 \in Nat /\ q3 \in Nat
    OBVIOUS
  <2>4. <<v1>> \in Seq(E) /\ Continues(<<v1>>, f, p1, q1)
    BY <1>7, <1>9, <2>2, <2>3
  <2>5. <<v2>> \in Seq(E) /\ Continues(<<v2>>, f, p2, q2)
    BY <1>7, <1>9, <2>2, <2>3
  <2>6. <<v3>> \in Seq(E) /\ Continues(<<v3>>, f, p3, q3)
    BY <1>7, <1>9, <2>2, <2>3
  <2> QED
    BY <2>4, <2>5, <2>6, Zenon
<1>15. PICK c1, c2, c3, c4, c5, c6, c7 :
          /\ IsConcat(c1, before, s1) /\ IsConcat(c2, c1, t1) /\ IsConcat(c3, c2, s2)
          /\ IsConcat(c4, c3, t2) /\ IsConcat(c5, c4, s3) /\ IsConcat(c6, c5, t3)
          /\ IsConcat(c7, c6, s4)
  BY Zenon DEF IsConcat
<1>16. Begun(E, before, before, f, 0)
  BY DEF Begun
<1>17. q1 \in Nat /\ q2 \in Nat /\ q3 \in Nat /\ 0 \in Nat
  OBVIOUS
<1>18. Begun(E, c1, before, f, p1)
  BY <1>13, <1>15, <1>16, <1>17, BegunGrows, Zenon
<1>19. Begun(E, c2, before, f, q1)
  BY <1>14, <1>15, <1>18, <1>17, BegunGrows, Zenon
<1>20. Begun(E, c3, before, f, p2)
  BY <1>13, <1>15, <1>19, <1>17, BegunGrows, Zenon
<1>21. Begun(E, c4, before, f, q2)
  BY <1>14, <1>15, <1>20, <1>17, BegunGrows, Zenon
<1>22. Begun(E, c5, before, f, p3)
  BY <1>13, <1>15, <1>21, <1>17, BegunGrows, Zenon
<1>23. Begun(E, c6, before, f, q3)
  BY <1>14, <1>15, <1>22, <1>17, BegunGrows, Zenon
<1>24. Begun(E, c7, before, f, n)
  BY <1>13, <1>15, <1>23, <1>17, BegunGrows, Zenon
<1>25. PICK r : IsConcat(r, before, f)
  BY DEF IsConcat
<1>26. Joined(E, r, before, f)
  BY <1>8, <1>25, ConcatIs, Zenon
<1>27. c7 = r
  <2>1. PICK b \in Nat : b = Len(before)
    OBVIOUS
  <2>2. c7 \in Seq(E) /\ r \in Seq(E) /\ Len(c7) = b + n /\ Len(r) = b + n
    BY <1>8, <1>24, <1>26, <2>1 DEF Begun, Joined
  <2>3. ASSUME NEW i \in 1..b + n PROVE c7[i] = r[i]
    <3>1. CASE i \in 1..b
      BY <1>24, <1>26, <2>1, <3>1 DEF Begun, Joined
    <3>2. CASE i \notin 1..b
      <4>1. PICK j \in 1..n : i = b + j
        <5>1. i - b \in 1..n /\ i = b + (i - b)
          BY <3>2
        <5> QED
          BY <5>1
      <4> QED
        BY <1>8, <1>24, <1>26, <2>1, <4>1 DEF Begun, Joined
    <3> QED
      BY <3>1, <3>2
  <2> QED
    BY <2>2, <2>3, SameSeq
<1>28. c7 = WithParts(before, parts, order, value)
  BY <1>5, <1>10, <1>14, <1>15, Zenon DEF IsConcat, WithParts
<1>29. r = before \o FilledIn(u, value)
  BY <1>6, <1>25, Zenon DEF IsConcat
<1> QED
  BY <1>27, <1>28, <1>29, Zenon

(* Whatever the order, the address of a tile is its parts filled in.       *)
LEMMA FormatIs ==
    ASSUME NEW cfg, NEW si, NEW before, NEW order, NEW value,
           before = <<cfg.protocol, "://">> \o cfg.servers[si] \o <<"/">>,
           IsOrder(cfg.order, order[1], order[2], order[3])
    PROVE  FormatUrl(cfg, value, si) = WithParts(before, cfg.parts, order, value)
<1> DEFINE Filled(p, q, t) ==
               before \o cfg.parts[1] \o <<value[p]>> \o cfg.parts[2] \o <<value[q]>>
                      \o cfg.parts[3] \o <<value[t]>> \o cfg.parts[4]
<1>1. FormatUrl(cfg, value, si) =
          CASE cfg.order = "XYZ" -> Filled("{x}", "{y}", "{z}")
            [] cfg.order = "XZY" -> Filled("{x}", "{z}", "{y}")
            [] cfg.order = "YXZ" -> Filled("{y}", "{x}", "{z}")
            [] cfg.order = "YZX" -> Filled("{y}", "{z}", "{x}")
            [] cfg.order = "ZXY" -> Filled("{z}", "{x}", "{y}")
            [] cfg.order = "ZYX" -> Filled("{z}", "{y}", "{x}")
  BY Zenon DEF FormatUrl
<1>2. WithParts(before, cfg.parts, order, value) = Filled(order[1], order[2], order[3])
  BY Zenon DEF WithParts
<1> HIDE DEF Filled
<1>3. FormatUrl(cfg, value, si) = Filled(order[1], order[2], order[3])
  BY <1>1 DEF IsOrder
<1> QED
  BY <1>2, <1>3, Zenon

(* What was read of an entry and is valid makes the addresses that it says. *)
ReadOf(c, file) == \E i \in DOMAIN file.entries : /\ ~Disabled(file.entries[i])
                                                  /\ c = ReadEntry(file.entries[i], i).config

LEMMA ReadSays ==
    ASSUME NEW file \in TileChoices, NEW c, c.valid, ReadOf(c, file)
    PROVE  \E e \in Elements(file.entries) : AsEntrySays(c, e)
<1>1. PICK i \in DOMAIN file.entries : /\ ~Disabled(file.entries[i])
                                       /\ c = ReadEntry(file.entries[i], i).config
  BY DEF ReadOf
<1>2. PICK e \in Elements(file.entries) : e = file.entries[i]
  BY DEF Elements
<1>3. IsSeq(e.servers) /\ IsSeq(e.url) /\ \A host \in Elements(e.servers) : IsSeq(host)
  BY ProgramAssumption DEF ProgramAssumption
<1>4. /\ c.protocol = Lower(e.protocol) /\ c.url = WithoutSlashes(e.url)
      /\ c.order = fmtOrder(c.url).order
      /\ c.parts = splitUrl(c.url, fmtOrder(c.url).at)
      /\ IsComplete(c.url)
      /\ \A si \in DOMAIN c.servers : c.servers[si] \in Elements(e.servers) \ {Blank}
  <2>1. c = ReadEntry(e, i).config
    BY <1>1, <1>2
  <2>2. ReadFrom(c, e)
    BY <1>3, <2>1, EntryReads, Zenon
  <2> QED
    BY <2>2, Zenon DEF ReadFrom
<1>5. PICK u : u = c.url /\ IsSeq(u) /\ u = WithoutSlashes(e.url)
  BY <1>3, <1>4, UrlTyped
<1>6. PICK order \in [1..3 -> Placeholders] : InOrder(order, u, fmtOrder(u))
  BY <1>4, <1>5, OrderIs
<1>7. PICK at : at = fmtOrder(u).at /\ \A k \in 1..3 : at[k] = Position(u, order[k])
  BY <1>6 DEF InOrder
<1>8. PICK parts : parts = c.parts /\ IsSplit(parts, u, at)
  BY <1>4, <1>5, <1>7, Zenon DEF IsSplit
<1>9. PICK protocol : protocol = Lower(e.protocol) /\ protocol = c.protocol
  BY <1>4
<1>10. ASSUME NEW si \in DOMAIN c.servers
       PROVE  /\ c.servers[si] \in Elements(e.servers) \ {Blank}
              /\ FormatUrl(c, TileValue, si) =
                    <<protocol, "://">> \o c.servers[si] \o <<"/">>
                        \o FilledIn(WithoutSlashes(e.url), TileValue)
  <2>1. PICK host : /\ host = c.servers[si]
                    /\ host \in Elements(e.servers) \ {Blank} /\ IsSeq(host)
    BY <1>3, <1>4
  <2> DEFINE E == {protocol, "://", "/"} \cup Elements(host) \cup Elements(u)
                      \cup {TileValue[order[k]] : k \in 1..3}
  <2>2. /\ protocol \in E /\ "://" \in E /\ "/" \in E
        /\ Elements(host) \subseteq E /\ Elements(u) \subseteq E
        /\ \A k \in 1..3 : TileValue[order[k]] \in E
    OBVIOUS
  <2>3. \A x, y \in E : <<x, y>> \in Seq(E) /\ <<x>> \in Seq(E)
    <3> HIDE DEF E
    <3> QED
      OBVIOUS
  <2>4. host \in Seq(E)
    <3> HIDE DEF E
    <3> QED
      BY <2>1, <2>2 DEF IsSeq
  <2> HIDE DEF E
  <2>5. PICK scheme, slash : /\ scheme = <<protocol, "://">> /\ slash = <<"/">>
                             /\ scheme \in Seq(E) /\ slash \in Seq(E)
    BY <2>2, <2>3, Zenon
  <2>6. PICK before \in Seq(E) : before = scheme \o host \o slash
    <3>1. PICK half, all : IsConcat(half, scheme, host) /\ IsConcat(all, half, slash)
      BY DEF IsConcat
    <3>2. half \in Seq(E)
      <4>1. Joined(E, half, scheme, host)
        BY <2>4, <2>5, <3>1, ConcatIs, Zenon
      <4> QED
        BY <4>1 DEF Joined
    <3>3. all \in Seq(E)
      <4>1. Joined(E, all, half, slash)
        BY <2>5, <3>1, <3>2, ConcatIs, Zenon
      <4> QED
        BY <4>1 DEF Joined
    <3>4. all = scheme \o host \o slash
      BY <3>1, Zenon DEF IsConcat
    <3> QED
      BY <3>3, <3>4, Zenon
  <2>7. WithParts(before, parts, order, TileValue) = before \o FilledIn(u, TileValue)
    <3>1. \A k, j \in 1..3 : k < j => Position(u, order[k]) < Position(u, order[j])
      BY <1>6 DEF InOrder
    <3>2. IsSeq(u) /\ IsComplete(u) /\ Elements(u) \subseteq E /\ before \in Seq(E)
      BY <1>4, <1>5, <2>2, <2>6
    <3> QED
      BY <1>7, <1>8, <2>2, <3>1, <3>2, PartsFillIn
  <2>8. FormatUrl(c, TileValue, si) = WithParts(before, parts, order, TileValue)
    <3>1. IsOrder(c.order, order[1], order[2], order[3])
      BY <1>4, <1>5, <1>6, Zenon DEF InOrder
    <3>2. before = <<c.protocol, "://">> \o c.servers[si] \o <<"/">>
      BY <1>9, <2>1, <2>5, <2>6, Zenon
    <3> QED
      BY <1>8, <3>1, <3>2, FormatIs, Zenon
  <2>9. FormatUrl(c, TileValue, si) = <<protocol, "://">> \o c.servers[si] \o <<"/">>
                                  \o FilledIn(WithoutSlashes(e.url), TileValue)
    BY <1>5, <2>1, <2>5, <2>6, <2>7, <2>8, Zenon
  <2> QED
    BY <1>4, <2>9
<1>11. ~Disabled(e)
  BY <1>1, <1>2, Zenon
<1>12. AsEntrySays(c, e)
  BY <1>9, <1>10, <1>11, Zenon DEF AsEntrySays
<1> QED
  BY <1>12

(* A tile server that there was not before comes with Start, from the file *)
(* of the directory.                                                       *)
LEMMA ServersAreRead ==
    ASSUME SettingsInv, TilesInv, [Next]_vars,
           NEW cfg \in TileServers' \ TileServers, cfg.valid
    PROVE  tileFiles[dir] \in TileChoices /\ ReadOf(cfg, tileFiles[dir])
<1>1. CASE Killed \/ Abort \/ Exit
  <2>1. chosen' = NoConfig /\ configs' = <<>>
    BY <1>1 DEF Killed, Abort, Exit, ProcessGone
  <2>2. cfg = NoConfig
    BY <2>1 DEF TileServers
  <2> QED
    BY <2>2 DEF NoConfig, NewConfig
<1>2. CASE Start
  <2>1. PICK file \in TileChoices : file = tileFiles[dir] /\ dir \in DOMAIN tileFiles
    BY <1>2 DEF Start, TilesInv, SettingsInv, Usable, Loaded, Places
  <2>2. PICK read : read = TileProviderConfigLoader(file) /\ configs' = read
    BY <1>2, <2>1 DEF Start
  <2>3. \/ chosen' = chosen
        \/ \E name : /\ ~GetConfigThrows(read, name)
                     /\ chosen' = GetConfig(read, name, SortedNames)
    BY <1>2, <2>1, <2>2 DEF Start
  <2>4. CASE cfg = chosen'
    <3>1. PICK name : /\ ~GetConfigThrows(read, name)
                      /\ cfg = GetConfig(read, name, SortedNames)
      BY <2>3, <2>4 DEF TileServers
    <3> QED
      BY <2>1, <2>2, <3>1, GetConfigReads DEF ReadOf
  <2>5. ASSUME NEW name \in DOMAIN read, cfg = read[name] PROVE ReadOf(cfg, file)
    <3>1. CASE Populate(file) = <<>>
      <4>1. cfg = Bogus
        BY <2>2, <2>5, <3>1 DEF TileProviderConfigLoader
      <4> QED
        BY <4>1 DEF Bogus
    <3>2. CASE Populate(file) # <<>>
      <4>1. read = Populate(file)
        BY <2>2, <3>2 DEF TileProviderConfigLoader
      <4> QED
        BY <2>5, <4>1, PopulateReads DEF ReadOf
    <3> QED
      BY <3>1, <3>2
  <2> QED
    BY <2>1, <2>2, <2>4, <2>5 DEF TileServers
<1>3. CASE ~(Killed \/ Abort \/ Exit \/ Start)
  <2>1. chosen' = chosen /\ configs' = configs
    BY <1>3 DEF Next, Main, Run, Edit, Make, ConfigureLog, Early, Asserted, Connect, Activate,
                EventLoopEnds, Deactivate, Disconnect, Join, Stop, Saving, Link, LinkLogged,
                Beside, mainVars, vars
  <2> QED
    BY <2>1 DEF TileServers
<1> QED
  BY <1>1, <1>2, <1>3

LEMMA ServersSay ==
    SettingsInv /\ TilesInv /\ [Next]_vars =>
        \A cfg \in TileServers' \ TileServers :
            cfg.valid => \E e \in Elements(tileFiles[dir].entries) : AsEntrySays(cfg, e)
BY ServersAreRead, ReadSays

(* Whatever the tile server files say, and in whatever order the           *)
(* placeholders are, each tile server that a run accepts makes addresses   *)
(* of an entry of its file that is not disabled, at a host that this names *)
(* and with each value at its placeholder (tileprovidercfg.cpp:193, 243).  *)
THEOREM AddressesAreAsConfigured == Spec => UrlAsConfigured
BY SettingsInit, TilesInit, SettingsStep, TilesNext, ServersSay, PTL DEF Spec, UrlAsConfigured
=============================================================================
