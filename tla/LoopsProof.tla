-------------------------------- MODULE LoopsProof --------------------------------
(***************************************************************************)
(* What loops over lists do, for lists of any length.  The provers cannot  *)
(* instantiate a theorem about an operator, so induction is about sets: a  *)
(* set that has 0, or the empty list, and is closed under the step has all *)
(* numbers, or lists.                                                      *)
(***************************************************************************)
EXTENDS Loops, SequenceTheorems, WellFoundedInduction, TLAPS

(* A set with 0 that has with each number the next one has them all.       *)
LEMMA NatInSet ==
  ASSUME NEW T, 0 \in T, \A n \in Nat : n \in T => n + 1 \in T
  PROVE  Nat \subseteq T
<1> DEFINE U == Nat \ T
<1> SUFFICES ASSUME U # {} PROVE FALSE
  OBVIOUS
<1>1. IsWellFoundedOn(OpToRel(<, Nat), Nat)
  BY NatLessThanWellFounded
<1>2. U \subseteq Nat
  OBVIOUS
<1>3. PICK n \in U : \A m \in U : ~ (<<m, n>> \in OpToRel(<, Nat))
  <2> HIDE DEF U
  <2> QED BY <1>1, <1>2, WFMin
<1>4. \A m \in U : ~ (m < n)
  BY <1>3 DEF OpToRel
<1>5. n \in Nat /\ n # 0 /\ n - 1 \in Nat /\ n - 1 < n
  OBVIOUS
<1>6. n - 1 \in T
  BY <1>4, <1>5
<1>7. (n - 1) + 1 \in T
  BY <1>5, <1>6
<1> QED BY <1>5, <1>7

LEMMA SeqInSet ==
  ASSUME NEW V, NEW T, <<>> \in T,
         \A s \in Seq(V), x \in V : s \in T => Append(s, x) \in T
  PROVE  Seq(V) \subseteq T
<1> DEFINE N == {n \in Nat : \A s \in Seq(V) : Len(s) = n => s \in T}
<1>1. 0 \in N
  <2>1. \A s \in Seq(V) : Len(s) = 0 => s = <<>>
    BY EmptySeq
  <2> QED BY <2>1
<1>2. \A n \in Nat : n \in N => n + 1 \in N
  <2> SUFFICES ASSUME NEW n \in Nat, n \in N, NEW s \in Seq(V), Len(s) = n + 1
               PROVE  s \in T
    OBVIOUS
  <2>1. PICK r \in Seq(V), x \in V : s = Append(r, x)
    <3>1. s # <<>>
      BY EmptySeq
    <3> QED BY <3>1, SequenceEmptyOrAppend
  <2>2. Len(s) = Len(r) + 1 /\ Len(r) \in Nat
    BY <2>1, AppendProperties, LenProperties
  <2>3. r \in T
    BY <2>2
  <2> QED BY <2>1, <2>3
<1>3. Nat \subseteq N
  <2> HIDE DEF N
  <2> QED BY <1>1, <1>2, NatInSet
<1> QED BY <1>3, LenProperties

(* The function of Keep exists, and goes on as its definition says.        *)
KeptBy(text, S, N, f) ==
  f = [i \in 0 .. N |->
        IF i = 0 THEN <<>>
        ELSE IF text[i] \in S THEN Append(f[i - 1], text[i]) ELSE f[i - 1]]

LEMMA KeptExists ==
  ASSUME NEW text, NEW S, NEW N \in Nat
  PROVE  \E f : KeptBy(text, S, N, f)
<1> DEFINE T == {n \in Nat : \E f : KeptBy(text, S, n, f)}
<1>1. 0 \in T
  <2> DEFINE f == [i \in 0 .. 0 |-> <<>>]
  <2>1. KeptBy(text, S, 0, f)
    BY DEF KeptBy
  <2> QED BY <2>1
<1>2. \A n \in Nat : n \in T => n + 1 \in T
  <2> SUFFICES ASSUME NEW n \in Nat, NEW f, KeptBy(text, S, n, f)
               PROVE  \E g : KeptBy(text, S, n + 1, g)
    OBVIOUS
  <2> DEFINE last == IF text[n + 1] \in S THEN Append(f[n], text[n + 1]) ELSE f[n]
             g == [i \in 0 .. n + 1 |-> IF i = n + 1 THEN last ELSE f[i]]
  <2>1. \A i \in 0 .. n :
          f[i] = IF i = 0 THEN <<>>
                 ELSE IF text[i] \in S THEN Append(f[i - 1], text[i]) ELSE f[i - 1]
    BY DEF KeptBy
  <2>2. \A i \in 0 .. n + 1 :
          g[i] = IF i = 0 THEN <<>>
                 ELSE IF text[i] \in S THEN Append(g[i - 1], text[i]) ELSE g[i - 1]
    <3> SUFFICES ASSUME NEW i \in 0 .. n + 1
                 PROVE  g[i] = IF i = 0 THEN <<>>
                               ELSE IF text[i] \in S THEN Append(g[i - 1], text[i])
                               ELSE g[i - 1]
      OBVIOUS
    <3>1. CASE i = n + 1
      <4>1. g[i] = last /\ g[i - 1] = f[n] /\ i # 0
        BY <3>1
      <4> QED BY <3>1, <4>1
    <3>2. CASE i \in 0 .. n
      <4>1. g[i] = f[i] /\ (i # 0 => g[i - 1] = f[i - 1])
        BY <3>2
      <4> HIDE DEF g
      <4> QED BY <2>1, <3>2, <4>1
    <3> QED BY <3>1, <3>2
  <2>3. KeptBy(text, S, n + 1, g)
    <3>1. g = [i \in 0 .. n + 1 |-> g[i]]
      OBVIOUS
    <3> HIDE DEF g
    <3> QED BY <2>2, <3>1 DEF KeptBy
  <2> QED BY <2>3
<1>3. Nat \subseteq T
  <2> HIDE DEF T
  <2> QED BY <1>1, <1>2, NatInSet
<1> QED BY <1>3

LEMMA KeptUnfolds ==
  ASSUME NEW text, NEW S, Len(text) \in Nat
  PROVE  \E f : /\ Keep(text, S) = f[Len(text)]
                /\ f[0] = <<>>
                /\ \A i \in 1 .. Len(text) :
                     f[i] = IF text[i] \in S THEN Append(f[i - 1], text[i]) ELSE f[i - 1]
<1> DEFINE f == CHOOSE f : KeptBy(text, S, Len(text), f)
<1>1. KeptBy(text, S, Len(text), f)
  BY KeptExists
<1>2. Keep(text, S) = f[Len(text)]
  BY DEF Keep, KeptBy
<1> HIDE DEF f
<1>3. \A i \in 0 .. Len(text) :
        f[i] = IF i = 0 THEN <<>>
               ELSE IF text[i] \in S THEN Append(f[i - 1], text[i]) ELSE f[i - 1]
  BY <1>1 DEF KeptBy
<1>4. f[0] = <<>>
  BY <1>3
<1>5. \A i \in 1 .. Len(text) :
        f[i] = IF text[i] \in S THEN Append(f[i - 1], text[i]) ELSE f[i - 1]
  BY <1>3
<1> QED BY <1>2, <1>4, <1>5

(* Keep, element by element.                                               *)
LEMMA KeepEmpty == \A S : Keep(<<>>, S) = <<>>
<1> TAKE S
<1>1. Len(<<>>) = 0
  OBVIOUS
<1> QED BY <1>1, KeptUnfolds

LEMMA KeepAppend ==
  ASSUME NEW V, NEW s \in Seq(V), NEW x \in V, NEW S
  PROVE  Keep(Append(s, x), S) = IF x \in S THEN Append(Keep(s, S), x) ELSE Keep(s, S)
<1> DEFINE t == Append(s, x)
<1>1. /\ Len(s) \in Nat /\ Len(t) = Len(s) + 1 /\ t[Len(s) + 1] = x
      /\ \A i \in 1 .. Len(s) : t[i] = s[i]
  BY AppendProperties, LenProperties
<1>2. PICK f : /\ Keep(s, S) = f[Len(s)] /\ f[0] = <<>>
               /\ \A i \in 1 .. Len(s) :
                    f[i] = IF s[i] \in S THEN Append(f[i - 1], s[i]) ELSE f[i - 1]
  BY <1>1, KeptUnfolds
<1>3. PICK g : /\ Keep(t, S) = g[Len(t)] /\ g[0] = <<>>
               /\ \A i \in 1 .. Len(t) :
                    g[i] = IF t[i] \in S THEN Append(g[i - 1], t[i]) ELSE g[i - 1]
  <2>1. Len(t) \in Nat
    BY <1>1
  <2> HIDE DEF t
  <2> QED BY <2>1, KeptUnfolds
<1> HIDE DEF t
<1> DEFINE T == {n \in Nat : n <= Len(s) => f[n] = g[n]}
<1>4. 0 \in T
  BY <1>2, <1>3
<1>5. \A n \in Nat : n \in T => n + 1 \in T
  <2> SUFFICES ASSUME NEW n \in Nat, n + 1 <= Len(s), f[n] = g[n]
               PROVE  f[n + 1] = g[n + 1]
    OBVIOUS
  <2>1. n + 1 \in 1 .. Len(s) /\ n + 1 \in 1 .. Len(t) /\ (n + 1) - 1 = n
    BY <1>1
  <2> QED BY <1>1, <1>2, <1>3, <2>1
<1>6. Nat \subseteq T
  <2> HIDE DEF T
  <2> QED BY <1>4, <1>5, NatInSet
<1>7. f[Len(s)] = g[Len(s)]
  BY <1>1, <1>6
<1>8. Len(t) \in 1 .. Len(t) /\ Len(t) - 1 = Len(s)
  BY <1>1
<1>9. g[Len(t)] = IF x \in S THEN Append(g[Len(s)], x) ELSE g[Len(s)]
  BY <1>1, <1>3, <1>8
<1> QED BY <1>2, <1>3, <1>7, <1>9 DEF t

(* What is kept is a part of the sequence, in its order.                   *)
LEMMA KeepTyped ==
  ASSUME NEW V, NEW S, NEW s \in Seq(V)
  PROVE  /\ Keep(s, S) \in Seq(V) /\ Keep(s, S) \in Seq(S)
         /\ Len(Keep(s, S)) \in Nat /\ Len(Keep(s, S)) <= Len(s)
<1> DEFINE T == {t \in Seq(V) : Keep(t, S) \in Seq(V \cap S) /\ Len(Keep(t, S)) <= Len(t)}
<1>1. <<>> \in T
  <2>1. <<>> \in Seq(V) /\ <<>> \in Seq(V \cap S) /\ Len(<<>>) <= Len(<<>>)
    BY EmptySeq
  <2>2. Keep(<<>>, S) = <<>>
    BY KeepEmpty
  <2> QED BY <2>1, <2>2, Zenon
<1>2. ASSUME NEW t \in Seq(V), NEW x \in V, t \in T PROVE Append(t, x) \in T
  <2>1. Keep(Append(t, x), S) = IF x \in S THEN Append(Keep(t, S), x) ELSE Keep(t, S)
    BY KeepAppend
  <2>2. Append(t, x) \in Seq(V) /\ Len(Append(t, x)) = Len(t) + 1 /\ Len(t) \in Nat
    BY AppendProperties, LenProperties
  <2>3. CASE x \in S
    <3> DEFINE k == Keep(t, S)
    <3>1. k \in Seq(V \cap S) /\ x \in V \cap S /\ Len(k) <= Len(t)
      BY <1>2, <2>3
    <3> HIDE DEF k
    <3>2. Append(k, x) \in Seq(V \cap S) /\ Len(Append(k, x)) = Len(k) + 1 /\ Len(k) \in Nat
      BY <3>1, AppendProperties, LenProperties
    <3>3. Keep(Append(t, x), S) = Append(k, x)
      BY <2>1, <2>3 DEF k
    <3>4. Len(Append(k, x)) <= Len(Append(t, x))
      BY <2>2, <3>1, <3>2
    <3> QED BY <2>2, <3>2, <3>3, <3>4, Zenon
  <2>4. CASE x \notin S
    <3>1. Len(Keep(t, S)) \in Nat
      BY <1>2, LenProperties
    <3> QED BY <1>2, <2>1, <2>2, <2>4, <3>1
  <2> QED BY <2>3, <2>4
<1>3. s \in T
  <2> HIDE DEF T
  <2> QED BY <1>1, <1>2, SeqInSet
<1>4. Keep(s, S) \in Seq(V) /\ Keep(s, S) \in Seq(S)
  <2>1. V \cap S \subseteq V /\ V \cap S \subseteq S
    OBVIOUS
  <2> QED BY <1>3, <2>1, SeqMonotonic
<1> QED BY <1>3, <1>4, LenProperties

LEMMA KeepConcat ==
  ASSUME NEW V, NEW S, NEW s \in Seq(V), NEW t \in Seq(V)
  PROVE  Keep(s \o t, S) = Keep(s, S) \o Keep(t, S)
<1> DEFINE T == {u \in Seq(V) : Keep(s \o u, S) = Keep(s, S) \o Keep(u, S)}
<1>1. <<>> \in T
  <2>1. s \o <<>> = s /\ Keep(s, S) \o <<>> = Keep(s, S)
    BY KeepTyped, ConcatEmptySeq
  <2>2. <<>> \in Seq(V) /\ Keep(<<>>, S) = <<>>
    BY KeepEmpty, EmptySeq
  <2>3. Keep(s \o <<>>, S) = Keep(s, S) \o Keep(<<>>, S)
    BY ONLY <2>1, <2>2, Zenon
  <2> QED BY <2>2, <2>3, Zenon
<1>2. ASSUME NEW u \in Seq(V), NEW x \in V, u \in T PROVE Append(u, x) \in T
  <2>1. s \o u \in Seq(V) /\ <<x>> \in Seq(V) /\ Append(u, x) \in Seq(V)
    BY ConcatProperties, AppendProperties
  <2>2. s \o Append(u, x) = Append(s \o u, x)
    BY <2>1, AppendIsConcat, ConcatAssociative
  <2>3. Keep(Append(s \o u, x), S)
          = IF x \in S THEN Append(Keep(s \o u, S), x) ELSE Keep(s \o u, S)
    BY <2>1, KeepAppend
  <2>4. Keep(Append(u, x), S) = IF x \in S THEN Append(Keep(u, S), x) ELSE Keep(u, S)
    BY KeepAppend
  <2>5. Append(Keep(s, S) \o Keep(u, S), x) = Keep(s, S) \o Append(Keep(u, S), x)
    <3>1. Keep(s, S) \in Seq(V) /\ Keep(u, S) \in Seq(V)
      BY KeepTyped
    <3> DEFINE a == Keep(s, S)
               b == Keep(u, S)
    <3> HIDE DEF a, b
    <3>2. a \in Seq(V) /\ b \in Seq(V) /\ a \o b \in Seq(V)
      BY <3>1, ConcatProperties DEF a, b
    <3>4. Append(a \o b, x) = (a \o b) \o <<x>> /\ Append(b, x) = b \o <<x>>
      BY <3>2, AppendIsConcat
    <3>3. Append(a \o b, x) = a \o Append(b, x)
      BY <2>1, <3>2, <3>4, ConcatAssociative
    <3> QED BY <3>3 DEF a, b
  <2> QED BY <1>2, <2>1, <2>2, <2>3, <2>4, <2>5
<1>3. t \in T
  <2> HIDE DEF T
  <2> QED BY <1>1, <1>2, SeqInSet
<1> QED BY <1>3

LEMMA KeepHasAll ==
  ASSUME NEW V, NEW S, NEW s \in Seq(V), NEW i \in 1 .. Len(s), s[i] \in S
  PROVE  \E j \in 1 .. Len(Keep(s, S)) : Keep(s, S)[j] = s[i]
<1> DEFINE T == {t \in Seq(V) : \A k \in 1 .. Len(t) : t[k] \in S =>
                   \E j \in 1 .. Len(Keep(t, S)) : Keep(t, S)[j] = t[k]}
<1>1. <<>> \in T
  OBVIOUS
<1>2. ASSUME NEW t \in Seq(V), NEW x \in V, t \in T PROVE Append(t, x) \in T
  <2> DEFINE u == Append(t, x)
  <2>1. /\ u \in Seq(V) /\ Len(t) \in Nat /\ Len(u) = Len(t) + 1 /\ u[Len(t) + 1] = x
        /\ \A k \in 1 .. Len(t) : u[k] = t[k]
    BY AppendProperties, LenProperties
  <2>2. Keep(u, S) = IF x \in S THEN Append(Keep(t, S), x) ELSE Keep(t, S)
    BY KeepAppend
  <2> DEFINE b == Keep(t, S)
             c == Keep(u, S)
  <2>3. b \in Seq(V) /\ Len(b) \in Nat
    BY KeepTyped
  <2>4. \A k \in 1 .. Len(t) : t[k] \in S => \E j \in 1 .. Len(b) : b[j] = t[k]
    BY <1>2
  <2> HIDE DEF u, b, c
  <2>5. /\ \A j \in 1 .. Len(b) : j \in 1 .. Len(c) /\ c[j] = b[j]
        /\ x \in S => Len(c) = Len(b) + 1 /\ c[Len(b) + 1] = x
    <3>1. c = IF x \in S THEN Append(b, x) ELSE b
      BY <2>2 DEF b, c
    <3> QED BY <2>3, <3>1, AppendProperties
  <2>6. ASSUME NEW k \in 1 .. Len(u), u[k] \in S PROVE \E j \in 1 .. Len(c) : c[j] = u[k]
    <3>1. CASE k \in 1 .. Len(t)
      BY <2>1, <2>4, <2>5, <2>6, <3>1
    <3>2. CASE k = Len(t) + 1
      <4>1. Len(b) + 1 \in 1 .. Len(c)
        BY <2>1, <2>3, <2>5, <2>6, <3>2
      <4> QED BY <2>1, <2>5, <2>6, <3>2, <4>1
    <3> QED BY <2>1, <3>1, <3>2
  <2> QED BY <2>1, <2>6 DEF u, c
<1>3. s \in T
  <2> HIDE DEF T
  <2> QED BY <1>1, <1>2, SeqInSet
<1> QED BY <1>3

LEMMA KeepSame ==
  ASSUME NEW V, NEW A, NEW B, NEW s \in Seq(V), \A i \in 1 .. Len(s) : s[i] \in A <=> s[i] \in B
  PROVE  Keep(s, A) = Keep(s, B)
<1> DEFINE T == {t \in Seq(V) : (\A i \in 1 .. Len(t) : t[i] \in A <=> t[i] \in B)
                                  => Keep(t, A) = Keep(t, B)}
<1>1. <<>> \in T
  BY KeepEmpty, EmptySeq
<1>2. ASSUME NEW t \in Seq(V), NEW x \in V, t \in T PROVE Append(t, x) \in T
  <2> DEFINE u == Append(t, x)
  <2>1. /\ u \in Seq(V) /\ Len(t) \in Nat /\ Len(u) = Len(t) + 1 /\ u[Len(t) + 1] = x
        /\ \A k \in 1 .. Len(t) : u[k] = t[k]
    BY AppendProperties, LenProperties
  <2>2. /\ Keep(u, A) = IF x \in A THEN Append(Keep(t, A), x) ELSE Keep(t, A)
        /\ Keep(u, B) = IF x \in B THEN Append(Keep(t, B), x) ELSE Keep(t, B)
    BY KeepAppend
  <2> HIDE DEF u
  <2>3. ASSUME \A i \in 1 .. Len(u) : u[i] \in A <=> u[i] \in B
        PROVE  Keep(u, A) = Keep(u, B)
    <3>1. x \in A <=> x \in B
      BY <2>1, <2>3
    <3>2. \A i \in 1 .. Len(t) : t[i] \in A <=> t[i] \in B
      BY <2>1, <2>3
    <3>3. Keep(t, A) = Keep(t, B)
      BY <1>2, <3>2
    <3> QED BY <2>2, <3>1, <3>3
  <2> QED BY <2>1, <2>3 DEF u
<1>3. s \in T
  <2> HIDE DEF T
  <2> QED BY <1>1, <1>2, SeqInSet
<1> QED BY <1>3

LEMMA KeepNone ==
  ASSUME NEW V, NEW S, NEW s \in Seq(V), \A i \in 1 .. Len(s) : s[i] \notin S
  PROVE  Keep(s, S) = <<>>
<1>1. Keep(s, S) = Keep(s, {})
  BY KeepSame
<1>2. Keep(s, {}) \in Seq({})
  BY KeepTyped
<1>3. \A t \in Seq({}) : t = <<>>
  <2> SUFFICES ASSUME NEW t \in Seq({}), t # <<>> PROVE FALSE
    OBVIOUS
  <2>1. 1 \in 1 .. Len(t)
    BY EmptySeq
  <2> QED BY <2>1, ElementOfSeq
<1> QED BY <1>1, <1>2, <1>3

(* A list in which everything is kept stays as it is.                      *)
LEMMA KeepAll ==
  ASSUME NEW V, NEW S, NEW s \in Seq(V), \A i \in 1 .. Len(s) : s[i] \in S
  PROVE  Keep(s, S) = s
<1> DEFINE T == {t \in Seq(V) : (\A i \in 1 .. Len(t) : t[i] \in S) => Keep(t, S) = t}
<1>1. <<>> \in T
  BY KeepEmpty, EmptySeq
<1>2. ASSUME NEW t \in Seq(V), NEW x \in V, t \in T PROVE Append(t, x) \in T
  <2> DEFINE u == Append(t, x)
  <2>1. /\ u \in Seq(V) /\ Len(t) \in Nat /\ Len(u) = Len(t) + 1 /\ u[Len(t) + 1] = x
        /\ \A k \in 1 .. Len(t) : u[k] = t[k]
    BY AppendProperties, LenProperties
  <2>2. Keep(u, S) = IF x \in S THEN Append(Keep(t, S), x) ELSE Keep(t, S)
    BY KeepAppend
  <2>3. ASSUME \A i \in 1 .. Len(u) : u[i] \in S PROVE Keep(u, S) = u
    <3>1. x \in S /\ \A i \in 1 .. Len(t) : t[i] \in S
      <4> HIDE DEF u
      <4> QED BY <2>1, <2>3
    <3> QED BY <1>2, <2>2, <3>1
  <2> QED BY <2>1, <2>3
<1>3. s \in T
  <2> HIDE DEF T
  <2> QED BY <1>1, <1>2, SeqInSet
<1> QED BY <1>3

LEMMA KeepTwice ==
  ASSUME NEW V, NEW A, NEW B, NEW s \in Seq(V)
  PROVE  Keep(Keep(s, A), B) = Keep(s, A \cap B)
<1> DEFINE T == {t \in Seq(V) : Keep(Keep(t, A), B) = Keep(t, A \cap B)}
<1>1. <<>> \in T
  <2>1. <<>> \in Seq(V)
    BY EmptySeq
  <2>2. Keep(<<>>, A) = <<>> /\ Keep(<<>>, B) = <<>> /\ Keep(<<>>, A \cap B) = <<>>
    BY KeepEmpty
  <2> QED BY <2>1, <2>2, Zenon
<1>2. ASSUME NEW t \in Seq(V), NEW x \in V, t \in T PROVE Append(t, x) \in T
  <2> DEFINE u == Append(t, x)
             k == Keep(t, A)
  <2>1. u \in Seq(V) /\ k \in Seq(V) /\ Keep(k, B) = Keep(t, A \cap B)
    BY <1>2, AppendProperties, KeepTyped
  <2>2. Keep(u, A) = IF x \in A THEN Append(k, x) ELSE k
    BY KeepAppend
  <2>3. Keep(u, A \cap B) = IF x \in A \cap B THEN Append(Keep(t, A \cap B), x)
                           ELSE Keep(t, A \cap B)
    BY KeepAppend
  <2> HIDE DEF u, k
  <2>4. Keep(Append(k, x), B) = IF x \in B THEN Append(Keep(k, B), x) ELSE Keep(k, B)
    BY <2>1, KeepAppend
  <2>5. Keep(Keep(u, A), B) = Keep(u, A \cap B)
    <3>1. CASE x \in A
      <4>1. Keep(u, A) = Append(k, x)
        BY <2>2, <3>1
      <4>2. Keep(u, A \cap B) = IF x \in B THEN Append(Keep(k, B), x) ELSE Keep(k, B)
        BY <2>1, <2>3, <3>1
      <4> QED BY <2>4, <4>1, <4>2
    <3>2. CASE x \notin A
      BY <2>1, <2>2, <2>3, <3>2
    <3> QED BY <3>1, <3>2
  <2> QED BY <2>1, <2>5 DEF u
<1>3. s \in T
  <2> HIDE DEF T
  <2> QED BY <1>1, <1>2, SeqInSet
<1> QED BY <1>3

LEMMA KeepOrder ==
  ASSUME NEW V, NEW S, NEW s \in Seq(V)
  PROVE  /\ \A j \in 1 .. Len(Keep(s, S)) :
              \E a \in 1 .. Len(s) : s[a] = Keep(s, S)[j] /\ s[a] \in S
         /\ \A j, k \in 1 .. Len(Keep(s, S)) : j < k =>
              \E a, b \in 1 .. Len(s) :
                a < b /\ s[a] = Keep(s, S)[j] /\ s[b] = Keep(s, S)[k] /\ s[a] \in S /\ s[b] \in S
<1> DEFINE From(t, u) == \A j \in 1 .. Len(u) : \E a \in 1 .. Len(t) : t[a] = u[j] /\ t[a] \in S
           InOrder(t, u) ==
             \A j, k \in 1 .. Len(u) : j < k =>
               \E a, b \in 1 .. Len(t) :
                 a < b /\ t[a] = u[j] /\ t[b] = u[k] /\ t[a] \in S /\ t[b] \in S
           T == {t \in Seq(V) : From(t, Keep(t, S)) /\ InOrder(t, Keep(t, S))}
<1>1. <<>> \in T
  <2>1. <<>> \in Seq(V) /\ Keep(<<>>, S) = <<>>
    BY KeepEmpty, EmptySeq
  <2> DEFINE e == <<>>
  <2>2. Len(e) = 0
    OBVIOUS
  <2>3. From(e, e) /\ InOrder(e, e)
    BY <2>2
  <2> QED BY <2>1, <2>3
<1>2. ASSUME NEW t \in Seq(V), NEW x \in V, t \in T PROVE Append(t, x) \in T
  <2> DEFINE u == Append(t, x)
             b == Keep(t, S)
             c == Keep(u, S)
  <2>1. /\ u \in Seq(V) /\ Len(t) \in Nat /\ Len(u) = Len(t) + 1 /\ u[Len(t) + 1] = x
        /\ \A k \in 1 .. Len(t) : u[k] = t[k]
    BY AppendProperties, LenProperties
  <2>2. c = IF x \in S THEN Append(b, x) ELSE b
    BY KeepAppend
  <2>3. b \in Seq(V) /\ Len(b) \in Nat
    BY KeepTyped
  <2>4. From(t, b) /\ InOrder(t, b)
    BY <1>2
  <2> HIDE DEF u, b, c
  <2>5. \A a \in 1 .. Len(t) : a \in 1 .. Len(u) /\ a < Len(t) + 1
    BY <2>1
  <2>6. Len(t) + 1 \in 1 .. Len(u)
    BY <2>1
  <2>7. \/ Len(c) = Len(b) /\ \A j \in 1 .. Len(c) : c[j] = b[j]
        \/ /\ x \in S /\ Len(c) = Len(b) + 1 /\ c[Len(b) + 1] = x
           /\ \A j \in 1 .. Len(b) : c[j] = b[j]
    BY <2>2, <2>3, AppendProperties
  <2>8. ASSUME NEW j \in 1 .. Len(c)
        PROVE  \E a \in 1 .. Len(u) : u[a] = c[j] /\ u[a] \in S
    <3>1. CASE j \in 1 .. Len(b)
      <4>1. PICK a \in 1 .. Len(t) : t[a] = b[j] /\ t[a] \in S
        BY <2>4, <3>1
      <4> QED BY <2>1, <2>5, <2>7, <3>1, <4>1
    <3>2. CASE j = Len(b) + 1 /\ x \in S /\ c[j] = x
      BY <2>1, <2>6, <3>2
    <3> QED BY <2>3, <2>7, <3>1, <3>2
  <2>9. ASSUME NEW j \in 1 .. Len(c), NEW k \in 1 .. Len(c), j < k
        PROVE  \E a, d \in 1 .. Len(u) :
                 a < d /\ u[a] = c[j] /\ u[d] = c[k] /\ u[a] \in S /\ u[d] \in S
    <3>0. j \in 1 .. Len(b)
      BY <2>3, <2>7, <2>9
    <3>1. CASE k \in 1 .. Len(b)
      <4>2. \A l, m \in 1 .. Len(b) : l < m =>
              \E a, d \in 1 .. Len(t) :
                a < d /\ t[a] = b[l] /\ t[d] = b[m] /\ t[a] \in S /\ t[d] \in S
        BY <2>4, Zenon
      <4>1. PICK a \in 1 .. Len(t), d \in 1 .. Len(t) :
              a < d /\ t[a] = b[j] /\ t[d] = b[k] /\ t[a] \in S /\ t[d] \in S
        <5>1. j < k /\ j \in 1 .. Len(b) /\ k \in 1 .. Len(b)
          BY <2>9, <3>0, <3>1
        <5> HIDE DEF From, InOrder, T
        <5> QED BY ONLY <4>2, <5>1
      <4> QED BY <2>1, <2>5, <2>7, <3>0, <3>1, <4>1
    <3>2. CASE k = Len(b) + 1 /\ x \in S /\ c[k] = x
      <4>1. PICK a \in 1 .. Len(t) : t[a] = b[j] /\ t[a] \in S
        BY <2>4, <3>0
      <4>2. c[j] = b[j]
        BY <2>7, <3>0
      <4> QED BY <2>1, <2>5, <2>6, <3>2, <4>1, <4>2
    <3> QED BY <2>3, <2>7, <3>1, <3>2
  <2>10. From(u, c) /\ InOrder(u, c)
    BY <2>8, <2>9
  <2> QED BY <2>1, <2>10 DEF u, c
<1>3. s \in T
  <2> HIDE DEF T
  <2> QED BY <1>1, <1>2, SeqInSet
<1> QED BY <1>3

(* The first of what is kept of a list is the first of its kind in it.     *)
LEMMA KeepFirst ==
  ASSUME NEW V, NEW S, NEW s \in Seq(V)
  PROVE  \/ (\A i \in 1 .. Len(s) : s[i] \notin S) /\ Keep(s, S) = <<>>
         \/ \E i \in 1 .. Len(s) :
              /\ s[i] \in S /\ \A j \in 1 .. Len(s) : s[j] \in S => i <= j
              /\ Keep(s, S) # <<>> /\ Keep(s, S)[1] = s[i]
<1> DEFINE None(t) == \A i \in 1 .. Len(t) : t[i] \notin S
           At(t, i) == t[i] \in S /\ \A j \in 1 .. Len(t) : t[j] \in S => i <= j
           Good(t) == \/ None(t) /\ Keep(t, S) = <<>>
                      \/ \E i \in 1 .. Len(t) :
                           At(t, i) /\ Keep(t, S) # <<>> /\ Keep(t, S)[1] = t[i]
           T == {t \in Seq(V) : Good(t)}
<1>1. <<>> \in T
  <2>1. <<>> \in Seq(V) /\ None(<<>>) /\ Keep(<<>>, S) = <<>>
    BY KeepEmpty
  <2> QED BY <2>1
<1>2. ASSUME NEW t \in Seq(V), NEW x \in V, t \in T PROVE Append(t, x) \in T
  <2> DEFINE u == Append(t, x)
             b == Keep(t, S)
  <2>1. /\ u \in Seq(V) /\ Len(t) \in Nat /\ Len(u) = Len(t) + 1 /\ u[Len(t) + 1] = x
        /\ \A k \in 1 .. Len(t) : u[k] = t[k]
    BY AppendProperties, LenProperties
  <2>2. Keep(u, S) = IF x \in S THEN Append(b, x) ELSE b
    BY KeepAppend
  <2>3. b \in Seq(V) /\ Good(t)
    BY <1>2, KeepTyped
  <2> HIDE DEF u
  <2>4. CASE None(t) /\ b = <<>> /\ x \notin S
    <3>1. None(u)
      BY <2>1, <2>4
    <3> QED BY <2>1, <2>2, <2>4, <3>1 DEF u
  <2>5. CASE None(t) /\ b = <<>> /\ x \in S
    <3>1. Keep(u, S) # <<>> /\ Keep(u, S)[1] = x
      BY <2>2, <2>5
    <3>2. At(u, Len(t) + 1) /\ Len(t) + 1 \in 1 .. Len(u)
      BY <2>1, <2>5
    <3>3. Good(u)
      BY <2>1, <3>1, <3>2
    <3> QED BY <2>1, <3>3 DEF u
  <2>6. ASSUME NEW i \in 1 .. Len(t), At(t, i), b # <<>>, b[1] = t[i] PROVE Good(u)
    <3>1. At(u, i) /\ i \in 1 .. Len(u) /\ u[i] = t[i]
      BY <2>1, <2>6
    <3> HIDE DEF b
    <3>2. Append(b, x) # <<>> /\ Append(b, x)[1] = b[1]
      BY <2>3, <2>6, AppendProperties, EmptySeq
    <3>3. Keep(u, S) # <<>> /\ Keep(u, S)[1] = u[i]
      BY <2>2, <2>6, <3>1, <3>2
    <3> QED BY <3>1, <3>3
  <2> QED BY <2>1, <2>3, <2>4, <2>5, <2>6 DEF u
<1>3. s \in T
  <2> HIDE DEF T
  <2> QED BY <1>1, <1>2, SeqInSet
<1> QED BY <1>3

--------------------------------------------------------------------------------
(* A step, as a function, makes of `start` what each place of a loop has.  *)
MadeBy(by, start, list, n, M, made) ==
  /\ made = [i \in 0 .. n |-> made[i]]
  /\ \A i \in 0 .. n : made[i] \in M
  /\ made[0] = start
  /\ \A i \in 1 .. n : made[i] = by[<<made[i - 1], list[i]>>]

LEMMA LoopExists ==
  ASSUME NEW M, NEW X, NEW start \in M, NEW step \in [M \X X -> M], NEW list,
         NEW n \in Nat, \A i \in 1 .. n : list[i] \in X
  PROVE  \E made : MadeBy(step, start, list, n, M, made)
<1> DEFINE By(k, made) ==
             /\ made = [i \in 0 .. k |-> IF i = 0 THEN start ELSE step[<<made[i - 1], list[i]>>]]
             /\ \A i \in 0 .. k : made[i] \in M
           T == {k \in Nat : k <= n => \E made : By(k, made)}
<1>1. 0 \in T
  <2> DEFINE made == [i \in 0 .. 0 |-> start]
  <2>1. By(0, made)
    OBVIOUS
  <2> QED BY <2>1
<1>2. \A k \in Nat : k \in T => k + 1 \in T
  <2> SUFFICES ASSUME NEW k \in Nat, k + 1 <= n, NEW made, By(k, made)
               PROVE  \E more : By(k + 1, more)
    OBVIOUS
  <2> DEFINE last == step[<<made[k], list[k + 1]>>]
             more == [i \in 0 .. k + 1 |-> IF i = k + 1 THEN last ELSE made[i]]
  <2>1. last \in M
    <3>1. made[k] \in M /\ list[k + 1] \in X
      OBVIOUS
    <3> QED BY <3>1
  <2>2. \A i \in 0 .. k : made[i] = IF i = 0 THEN start ELSE step[<<made[i - 1], list[i]>>]
    OBVIOUS
  <2>3. \A i \in 0 .. k : more[i] = made[i] /\ more[i] \in M
    OBVIOUS
  <2>5. more = [i \in 0 .. k + 1 |-> more[i]]
    OBVIOUS
  <2> HIDE DEF last
  <2>4. more[k + 1] = last /\ more[k] = made[k]
    OBVIOUS
  <2> HIDE DEF more
  <2>6. \A i \in 0 .. k + 1 :
          more[i] = IF i = 0 THEN start ELSE step[<<more[i - 1], list[i]>>]
    <3> SUFFICES ASSUME NEW i \in 0 .. k + 1
                 PROVE  more[i] = IF i = 0 THEN start ELSE step[<<more[i - 1], list[i]>>]
      OBVIOUS
    <3>1. CASE i = k + 1
      <4>1. i # 0 /\ i - 1 = k
        BY <3>1
      <4> QED BY <2>4, <3>1, <4>1 DEF last
    <3>2. CASE i \in 0 .. k
      <4>1. more[i] = made[i] /\ (i # 0 => more[i - 1] = made[i - 1])
        BY <2>3, <3>2
      <4> QED BY <2>2, <3>2, <4>1
    <3> QED BY <3>1, <3>2
  <2>7. \A i \in 0 .. k + 1 : more[i] \in M
    <3>1. \A i \in 0 .. k + 1 : i = k + 1 \/ i \in 0 .. k
      OBVIOUS
    <3> QED BY <2>1, <2>3, <2>4, <3>1
  <2> QED BY <2>5, <2>6, <2>7
<1>3. n \in T
  <2> HIDE DEF T
  <2> QED BY <1>1, <1>2, NatInSet
<1>4. PICK made : By(n, made)
  BY <1>3
<1>5. \A i \in 0 .. n : made[i] = IF i = 0 THEN start ELSE step[<<made[i - 1], list[i]>>]
  BY <1>4
<1>6. made = [i \in 0 .. n |-> made[i]]
  BY <1>4
<1>7. made[0] = start
  <2>1. 0 \in 0 .. n
    OBVIOUS
  <2> QED BY <1>5, <2>1
<1>8. \A i \in 1 .. n : made[i] = step[<<made[i - 1], list[i]>>]
  <2>1. \A i \in 1 .. n : i \in 0 .. n /\ i # 0
    OBVIOUS
  <2> QED BY <1>5, <2>1
<1> QED BY <1>4, <1>6, <1>7, <1>8 DEF MadeBy

(* What every step keeps has held at every place.                          *)
LEMMA LoopStays ==
  ASSUME NEW M, NEW n \in Nat, NEW made, made[0] \in M,
         \A i \in 1 .. n : made[i - 1] \in M => made[i] \in M
  PROVE  \A i \in 0 .. n : made[i] \in M
<1> DEFINE T == {k \in Nat : k <= n => made[k] \in M}
<1>1. 0 \in T
  OBVIOUS
<1>2. \A k \in Nat : k \in T => k + 1 \in T
  <2> SUFFICES ASSUME NEW k \in Nat, k + 1 <= n, made[k] \in M PROVE made[k + 1] \in M
    OBVIOUS
  <2>1. k + 1 \in 1 .. n /\ (k + 1) - 1 = k
    OBVIOUS
  <2> QED BY <2>1
<1>3. Nat \subseteq T
  <2> HIDE DEF T
  <2> QED BY <1>1, <1>2, NatInSet
<1> QED BY <1>3

--------------------------------------------------------------------------------
(* Lists that are put together.                                            *)
LEMMA SeqOfItsRange ==
  ASSUME NEW S, NEW s \in Seq(S)
  PROVE  s \in Seq(Range(s)) /\ Len(s) \in Nat /\ DOMAIN s = 1 .. Len(s)
<1>1. Len(s) \in Nat /\ DOMAIN s = 1 .. Len(s) /\ s = [i \in 1 .. Len(s) |-> s[i]]
  BY LenProperties
<1>2. \A i \in 1 .. Len(s) : s[i] \in Range(s)
  BY <1>1 DEF Range
<1> DEFINE R == Range(s)
<1>3. s \in [1 .. Len(s) -> R]
  <2> HIDE DEF R
  <2>1. \A i \in 1 .. Len(s) : s[i] \in R
    BY <1>2 DEF R
  <2> QED BY <1>1, <2>1
<1> HIDE DEF R
<1>4. s \in Seq(R)
  BY <1>1, <1>3
<1> QED BY <1>1, <1>4 DEF R

LEMMA TwoLists ==
  ASSUME NEW a, a \in Seq(Range(a)), NEW b, b \in Seq(Range(b))
  PROVE  /\ a \o b \in Seq(Range(a \o b)) /\ Len(a) \in Nat /\ Len(b) \in Nat
         /\ DOMAIN a = 1 .. Len(a) /\ DOMAIN b = 1 .. Len(b)
         /\ DOMAIN (a \o b) = 1 .. Len(a) + Len(b)
         /\ \A i \in 1 .. Len(a) : (a \o b)[i] = a[i]
         /\ \A i \in 1 .. Len(a) + Len(b) : i > Len(a) =>
              (a \o b)[i] = b[i - Len(a)] /\ i - Len(a) \in 1 .. Len(b)
<1> DEFINE S == Range(a) \cup Range(b)
<1>1. a \in Seq(S) /\ b \in Seq(S)
  <2>1. Range(a) \subseteq S /\ Range(b) \subseteq S
    OBVIOUS
  <2> HIDE DEF S
  <2> QED BY <2>1, SeqMonotonic
<1> HIDE DEF S
<1>2. a \o b \in Seq(S) /\ Len(a \o b) = Len(a) + Len(b)
  BY <1>1, ConcatProperties
<1>3. Len(a) \in Nat /\ Len(b) \in Nat /\ DOMAIN a = 1 .. Len(a) /\ DOMAIN b = 1 .. Len(b)
  BY <1>1, LenProperties
<1>4. a \o b \in Seq(Range(a \o b)) /\ DOMAIN (a \o b) = 1 .. Len(a) + Len(b)
  BY <1>2, SeqOfItsRange
<1>5. \A i \in 1 .. Len(a) : (a \o b)[i] = a[i]
  BY <1>1, <1>3, ConcatProperties
<1>6. ASSUME NEW i \in 1 .. Len(a) + Len(b), i > Len(a)
      PROVE  (a \o b)[i] = b[i - Len(a)] /\ i - Len(a) \in 1 .. Len(b)
  BY <1>1, <1>3, <1>6, ConcatProperties
<1> QED BY <1>3, <1>4, <1>5, <1>6

LEMMA ThreeLists ==
  ASSUME NEW a, a \in Seq(Range(a)), NEW b, b \in Seq(Range(b)), NEW c, c \in Seq(Range(c))
  PROVE  (a \o b) \o c = a \o (b \o c)
<1> DEFINE S == Range(a) \cup Range(b) \cup Range(c)
<1>1. a \in Seq(S) /\ b \in Seq(S) /\ c \in Seq(S)
  <2>1. Range(a) \subseteq S /\ Range(b) \subseteq S /\ Range(c) \subseteq S
    OBVIOUS
  <2> HIDE DEF S
  <2> QED BY <2>1, SeqMonotonic
<1> HIDE DEF S
<1> QED BY <1>1, ConcatAssociative

LEMMA TwoInAList ==
  ASSUME NEW a, NEW b
  PROVE  <<a, b>> = <<a>> \o <<b>>
<1> DEFINE S == {a, b}
           one == <<a>>
           two == <<a, b>>
<1>1. one \in Seq(S) /\ a \in S /\ b \in S /\ Len(one) = 1 /\ one[1] = a
  OBVIOUS
<1>2. two \in Seq(S) /\ Len(two) = 2 /\ two[1] = a /\ two[2] = b
  OBVIOUS
<1> HIDE DEF S, one, two
<1> DEFINE both == Append(one, b)
<1>3. Append(one, b) = one \o <<b>>
  BY <1>1, AppendIsConcat
<1>4. /\ both \in Seq(S) /\ Len(both) = Len(one) + 1
      /\ \A i \in 1 .. Len(one) : both[i] = one[i]
      /\ both[Len(one) + 1] = b
  <2>1. one \in Seq(S) /\ b \in S
    BY <1>1
  <2> QED BY <2>1, AppendProperties
<1>5. Len(both) = 2 /\ both[1] = a /\ both[2] = b
  BY <1>1, <1>4
<1> HIDE DEF both
<1>6. \A i \in 1 .. 2 : both[i] = two[i]
  <2>1. \A i \in 1 .. 2 : i = 1 \/ i = 2
    OBVIOUS
  <2> QED BY <1>2, <1>5, <2>1
<1>7. both = two
  <2>1. /\ both \in Seq(S) /\ two \in Seq(S) /\ Len(both) = Len(two)
        /\ \A i \in 1 .. Len(both) : both[i] = two[i]
    BY <1>2, <1>4, <1>5, <1>6
  <2> QED BY <2>1, SeqEqual
<1> QED BY <1>3, <1>7 DEF both, one, two

LEMMA OneMore ==
  ASSUME NEW list, list \in Seq(Range(list)), NEW e
  PROVE  Append(list, e) = list \o <<e>>
<1> DEFINE S == Range(list) \cup {e}
<1>1. list \in Seq(S)
  <2>1. Range(list) \subseteq S
    OBVIOUS
  <2> HIDE DEF S
  <2> QED BY <2>1, SeqMonotonic
<1>2. e \in S
  OBVIOUS
<1> HIDE DEF S
<1> QED BY <1>1, <1>2, AppendIsConcat
==================================================================================
