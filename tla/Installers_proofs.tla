--------------------------- MODULE Installers_proofs ---------------------------
(***************************************************************************)
(* The installers leave nothing half done that they report as done, and    *)
(* keep what the user wrote, for any events, entries and edits.            *)
(***************************************************************************)
EXTENDS Installers, SequenceTheorems, WellFoundedInduction, TLAPS

-----------------------------------------------------------------------------
(* Induction, for sets in place of predicates.                             *)

\* A set of numbers has a least one.
LEMMA LeastNumber ==
  ASSUME NEW D \in SUBSET Nat, D # {}
  PROVE  \E d \in D : \A e \in D : d <= e
<1>1. PICK d \in D : \A e \in D : ~(<<e, d>> \in OpToRel(<, Nat))
  BY NatLessThanWellFounded, WFMin
<1>2. ASSUME NEW e \in D PROVE d <= e
  <2>1. <<e, d>> \in Nat \X Nat /\ ~(<<e, d>> \in OpToRel(<, Nat))  BY <1>1
  <2>2. ~(e < d)  BY <2>1 DEF OpToRel
  <2> QED BY <2>2
<1> QED BY <1>2

LEMMA NumberInduction ==
  ASSUME NEW N, 0 \in N, \A n \in Nat : n \in N => n + 1 \in N
  PROVE  Nat \subseteq N
<1> SUFFICES ASSUME Nat \ N # {} PROVE FALSE
  OBVIOUS
<1>1. PICK d \in Nat \ N : \A e \in Nat \ N : d <= e
  BY LeastNumber
<1>2. d - 1 \in Nat /\ d - 1 \in N /\ d = (d - 1) + 1
  BY <1>1
<1> QED BY <1>1, <1>2

LEMMA SequenceInduction ==
  ASSUME NEW T, NEW Q, <<>> \in Q,
         \A s \in Seq(T) : \A x \in T : s \in Q => Append(s, x) \in Q
  PROVE  \A s \in Seq(T) : s \in Q
<1> DEFINE D == {Len(s) : s \in Seq(T) \ Q}
<1> SUFFICES ASSUME Seq(T) \ Q # {} PROVE FALSE
  OBVIOUS
<1>1. D \in SUBSET Nat /\ D # {}
  BY LenProperties
<1>2. PICK n \in D : \A e \in D : n <= e
  <2> HIDE DEF D
  <2> QED BY <1>1, LeastNumber
<1>3. PICK s \in Seq(T) \ Q : Len(s) = n
  OBVIOUS
<1>4. PICK r \in Seq(T), x \in T : s = Append(r, x)
  BY <1>3, SequenceEmptyOrAppend
<1>5. Len(s) = Len(r) + 1 /\ Len(r) \in Nat
  BY <1>4, AppendProperties, LenProperties
<1>6. r \notin Q
  BY <1>3, <1>4
<1>7. Len(r) \in D
  BY <1>6
<1> QED BY <1>2, <1>3, <1>5, <1>7

-----------------------------------------------------------------------------
(* At and Only, one element at a time.                                     *)

\* f is the recursive function of At, up to n.
IsUpto(f, s, I, n) ==
    /\ f = [i \in 0..n |-> f[i]]
    /\ f[0] = <<>>
    /\ \A i \in 1..n : f[i] = IF i \in I THEN Append(f[i - 1], s[i]) ELSE f[i - 1]

LEMMA UptoExists ==
  ASSUME NEW s, NEW I, NEW m \in Nat
  PROVE  \E f : IsUpto(f, s, I, m)
<1> DEFINE N == {n \in Nat : \E f : IsUpto(f, s, I, n)}
<1>1. 0 \in N
  <2>1. IsUpto([i \in 0..0 |-> <<>>], s, I, 0)
    BY DEF IsUpto
  <2> QED BY <2>1
<1>2. ASSUME NEW n \in Nat, n \in N PROVE n + 1 \in N
  <2>1. PICK f : IsUpto(f, s, I, n)
    BY <1>2
  <2> DEFINE last == IF n + 1 \in I THEN Append(f[n], s[n + 1]) ELSE f[n]
             g == [i \in 0..(n + 1) |-> IF i = n + 1 THEN last ELSE f[i]]
  <2>2. g = [i \in 0..(n + 1) |-> g[i]] /\ g[0] = <<>> /\ g[n + 1] = last /\ g[n] = f[n]
    BY <2>1 DEF IsUpto
  <2>3. ASSUME NEW i \in 1..(n + 1)
        PROVE  g[i] = IF i \in I THEN Append(g[i - 1], s[i]) ELSE g[i - 1]
    <3>1. CASE i = n + 1
      BY <2>2, <3>1
    <3>2. CASE i # n + 1
      <4>1. i \in 1..n /\ g[i] = f[i] /\ g[i - 1] = f[i - 1]
        BY <3>2
      <4> QED BY <4>1, <2>1 DEF IsUpto
    <3> QED BY <3>1, <3>2
  <2>4. IsUpto(g, s, I, n + 1)
    <3> HIDE DEF g
    <3> QED BY <2>2, <2>3 DEF IsUpto
  <2> HIDE DEF g
  <2> QED BY <2>4
<1> HIDE DEF N
<1>3. m \in N
  BY <1>1, <1>2, NumberInduction
<1> QED BY <1>3 DEF N

\* It depends on the part of the sequence it has seen only.
LEMMA UptoUnique ==
  ASSUME NEW s, NEW t, NEW I, NEW n \in Nat, NEW m \in Nat, n <= m,
         \A i \in 1..n : s[i] = t[i],
         NEW f, IsUpto(f, s, I, n), NEW g, IsUpto(g, t, I, m)
  PROVE  \A i \in 0..n : f[i] = g[i]
<1> DEFINE N == {k \in Nat : k <= n => f[k] = g[k]}
<1>1. 0 \in N
  BY DEF IsUpto
<1>2. ASSUME NEW k \in Nat, k \in N PROVE k + 1 \in N
  <2> SUFFICES ASSUME k + 1 <= n PROVE f[k + 1] = g[k + 1]
    OBVIOUS
  <2>1. k + 1 \in 1..n /\ k + 1 \in 1..m /\ (k + 1) - 1 = k /\ f[k] = g[k]
    BY <1>2
  <2> QED BY <2>1 DEF IsUpto
<1> HIDE DEF N
<1>3. Nat \subseteq N
  BY <1>1, <1>2, NumberInduction
<1> QED BY <1>3 DEF N

LEMMA AtIsUpto ==
  ASSUME NEW T, NEW s \in Seq(T), NEW I, NEW f, IsUpto(f, s, I, Len(s))
  PROVE  At(s, I) = f[Len(s)]
<1> DEFINE Def(h) == [i \in 0..Len(s) |->
                        IF i = 0 THEN <<>>
                        ELSE IF i \in I THEN Append(h[i - 1], s[i]) ELSE h[i - 1]]
           g == CHOOSE h : h = Def(h)
<1>n. Len(s) \in Nat
  BY LenProperties
<1>1. f = Def(f)
  <2>1. \A i \in 0..Len(s) : f[i] = Def(f)[i]
    BY <1>n DEF IsUpto
  <2>2. f = [i \in 0..Len(s) |-> f[i]]
    BY DEF IsUpto
  <2>3. Def(f) = [i \in 0..Len(s) |-> Def(f)[i]]
    OBVIOUS
  <2> HIDE DEF Def
  <2> QED BY <2>1, <2>2, <2>3
<1>2. g = Def(g)
  <2> HIDE DEF Def
  <2> QED BY <1>1
<1>3. At(s, I) = g[Len(s)]
  BY DEF At
<1> HIDE DEF g
<1>4. IsUpto(g, s, I, Len(s))
  <2>1. g = [i \in 0..Len(s) |-> g[i]]
    BY <1>2
  <2>2. g[0] = <<>>
    BY <1>2, <1>n
  <2>3. ASSUME NEW i \in 1..Len(s)
        PROVE  g[i] = IF i \in I THEN Append(g[i - 1], s[i]) ELSE g[i - 1]
    <3>1. i \in 0..Len(s) /\ i # 0
      BY <1>n
    <3>2. g[i] = Def(g)[i]
      BY <1>2
    <3> QED BY <3>1, <3>2
  <2> QED BY <2>1, <2>2, <2>3 DEF IsUpto
<1>5. \A i \in 0..Len(s) : f[i] = g[i]
  BY <1>4, <1>n, UptoUnique
<1> QED BY <1>3, <1>5, <1>n

LEMMA AtEmpty ==
  ASSUME NEW I
  PROVE  At(<<>>, I) = <<>>
<1>1. <<>> \in Seq({}) /\ Len(<<>>) = 0
  OBVIOUS
<1>2. IsUpto([i \in 0..0 |-> <<>>], <<>>, I, 0)
  BY DEF IsUpto
<1>3. At(<<>>, I) = [i \in 0..0 |-> <<>>][0]
  BY <1>1, <1>2, AtIsUpto
<1> QED BY <1>3

LEMMA AtAppend ==
  ASSUME NEW T, NEW s \in Seq(T), NEW x \in T, NEW I
  PROVE  At(Append(s, x), I) = IF Len(s) + 1 \in I THEN Append(At(s, I), x) ELSE At(s, I)
<1> DEFINE n == Len(s)
           t == Append(s, x)
<1>1. n \in Nat /\ t \in Seq(T) /\ Len(t) = n + 1 /\ t[n + 1] = x /\ \A i \in 1..n : t[i] = s[i]
  BY AppendProperties, LenProperties
<1>2. PICK f : IsUpto(f, t, I, n + 1)
  <2>1. n + 1 \in Nat
    BY <1>1
  <2> HIDE DEF n
  <2> QED BY <2>1, UptoExists
<1>3. PICK g : IsUpto(g, s, I, n)
  BY <1>1, UptoExists
<1>4. At(t, I) = f[n + 1]
  <2> HIDE DEF t, n
  <2> QED BY <1>1, <1>2, AtIsUpto
<1>5. At(s, I) = g[n]
  BY <1>1, <1>3, AtIsUpto
<1>6. g[n] = f[n]
  <2>1. \A i \in 0..n : g[i] = f[i]
    <3> DEFINE m == n + 1
    <3>1. n \in Nat /\ m \in Nat /\ n <= m /\ \A i \in 1..n : s[i] = t[i]
      BY <1>1
    <3>2. IsUpto(g, s, I, n) /\ IsUpto(f, t, I, m)
      BY <1>2, <1>3
    <3> HIDE DEF t, n, m
    <3> QED BY <3>1, <3>2, UptoUnique
  <2> QED BY <2>1, <1>1
<1>7. f[n + 1] = IF n + 1 \in I THEN Append(f[n], x) ELSE f[n]
  <2>1. n + 1 \in 1..(n + 1) /\ (n + 1) - 1 = n
    BY <1>1
  <2> HIDE DEF t, n
  <2> QED BY <1>1, <1>2, <2>1 DEF IsUpto
<1> QED BY <1>4, <1>5, <1>6, <1>7

\* What At picks are elements at its places.
LEMMA AtElements ==
  ASSUME NEW T, NEW I
  PROVE  \A s \in Seq(T) :
           /\ At(s, I) \in Seq(T)
           /\ \A k \in 1..Len(At(s, I)) : \E i \in 1..Len(s) : i \in I /\ At(s, I)[k] = s[i]
<1> DEFINE Picked(s) == /\ At(s, I) \in Seq(T)
                        /\ \A k \in 1..Len(At(s, I)) :
                             \E i \in 1..Len(s) : i \in I /\ At(s, I)[k] = s[i]
           Q == {s \in Seq(T) : Picked(s)}
<1>1. <<>> \in Q
  <2>1. <<>> \in Seq(T) /\ At(<<>>, I) = <<>> /\ Len(<<>>) = 0
    BY AtEmpty
  <2>2. Picked(<<>>)
    <3>1. At(<<>>, I) \in Seq(T) /\ Len(At(<<>>, I)) = 0
      BY <2>1, Zenon
    <3>2. 1..0 = {}
      OBVIOUS
    <3> QED BY <3>1, <3>2
  <2> HIDE DEF Picked
  <2> QED BY <2>1, <2>2
<1>2. ASSUME NEW s \in Seq(T), NEW x \in T, s \in Q PROVE Append(s, x) \in Q
  <2> DEFINE t == Append(s, x)
             r == At(s, I)
  <2>1. /\ t \in Seq(T) /\ Len(t) = Len(s) + 1 /\ t[Len(s) + 1] = x /\ Len(s) \in Nat
        /\ \A i \in 1..Len(s) : t[i] = s[i]
    BY AppendProperties, LenProperties
  <2>2. r \in Seq(T) /\ \A k \in 1..Len(r) : \E i \in 1..Len(s) : i \in I /\ r[k] = s[i]
    BY <1>2
  <2>3. \A k \in 1..Len(r) : \E i \in 1..Len(t) : i \in I /\ r[k] = t[i]
    <3> HIDE DEF r, t
    <3>1. \A i \in 1..Len(s) : i \in 1..Len(t)
      BY <2>1
    <3> QED BY <2>1, <2>2, <3>1
  <2>4. CASE Len(s) + 1 \in I
    <3>1. At(t, I) = Append(r, x)
      BY <2>4, AtAppend
    <3>2. /\ Append(r, x) \in Seq(T) /\ Len(Append(r, x)) = Len(r) + 1 /\ Len(r) \in Nat
          /\ Append(r, x)[Len(r) + 1] = x /\ \A i \in 1..Len(r) : Append(r, x)[i] = r[i]
      BY <2>2, AppendProperties, LenProperties
    <3>3. ASSUME NEW k \in 1..Len(Append(r, x))
          PROVE  \E i \in 1..Len(t) : i \in I /\ Append(r, x)[k] = t[i]
      <4>1. CASE k = Len(r) + 1
        <5>1. Len(s) + 1 \in 1..Len(t)  BY <2>1
        <5> QED BY <4>1, <5>1, <3>2, <2>1, <2>4
      <4>2. CASE k # Len(r) + 1
        <5>1. k \in 1..Len(r)  BY <3>2, <4>2
        <5> HIDE DEF t, r
        <5> QED BY <5>1, <3>2, <2>3
      <4> QED BY <4>1, <4>2
    <3>4. Picked(t)
      <4> HIDE DEF t, r
      <4> QED BY <3>1, <3>2, <3>3
    <3> QED BY <2>1, <3>4
  <2>5. CASE Len(s) + 1 \notin I
    <3>1. At(t, I) = r
      BY <2>5, AtAppend
    <3>2. Picked(t)
      <4> HIDE DEF t, r
      <4> QED BY <3>1, <2>2, <2>3
    <3> QED BY <2>1, <3>2
  <2> QED BY <2>4, <2>5
<1> HIDE DEF Q
<1>3. \A s \in Seq(T) : s \in Q
  BY <1>1, <1>2, SequenceInduction
<1> QED BY <1>3 DEF Q

\* Places outside the sequence do not matter.
LEMMA AtPlaces ==
  ASSUME NEW T, NEW I, NEW J
  PROVE  \A s \in Seq(T) : (\A i \in 1..Len(s) : i \in I <=> i \in J) => At(s, I) = At(s, J)
<1> DEFINE Q == {s \in Seq(T) : (\A i \in 1..Len(s) : i \in I <=> i \in J) => At(s, I) = At(s, J)}
<1>1. <<>> \in Q
  BY AtEmpty
<1>2. ASSUME NEW s \in Seq(T), NEW x \in T, s \in Q PROVE Append(s, x) \in Q
  <2>1. Append(s, x) \in Seq(T) /\ Len(Append(s, x)) = Len(s) + 1 /\ Len(s) \in Nat
    BY AppendProperties, LenProperties
  <2>2. ASSUME \A i \in 1..(Len(s) + 1) : i \in I <=> i \in J
        PROVE  At(Append(s, x), I) = At(Append(s, x), J)
    <3>1. \A i \in 1..Len(s) : i \in I <=> i \in J
      BY <2>1, <2>2
    <3>2. Len(s) + 1 \in I <=> Len(s) + 1 \in J
      BY <2>1, <2>2
    <3>3. At(s, I) = At(s, J)
      BY <1>2, <3>1
    <3> QED BY <3>2, <3>3, AtAppend
  <2> QED BY <2>1, <2>2
<1> HIDE DEF Q
<1>3. \A s \in Seq(T) : s \in Q
  BY <1>1, <1>2, SequenceInduction
<1> QED BY <1>3 DEF Q

LEMMA OnlyAppend ==
  ASSUME NEW T, NEW s \in Seq(T), NEW x \in T, NEW S
  PROVE  Only(Append(s, x), S) = IF x \in S THEN Append(Only(s, S), x) ELSE Only(s, S)
<1> DEFINE t == Append(s, x)
<1>1. /\ t \in Seq(T) /\ Len(t) = Len(s) + 1 /\ t[Len(s) + 1] = x /\ Len(s) \in Nat
      /\ \A i \in 1..Len(s) : t[i] = s[i]
  BY AppendProperties, LenProperties
<1>2. \A i \in 1..Len(s) : i \in Where(t, S) <=> i \in Where(s, S)
  <2> HIDE DEF t
  <2> QED BY <1>1 DEF Where
<1>3. At(s, Where(t, S)) = At(s, Where(s, S))
  <2> HIDE DEF t
  <2> QED BY <1>2, AtPlaces
<1>4. Len(s) + 1 \in Where(t, S) <=> x \in S
  <2> HIDE DEF t
  <2> QED BY <1>1 DEF Where
<1>5. At(t, Where(t, S)) =
        IF Len(s) + 1 \in Where(t, S) THEN Append(At(s, Where(t, S)), x) ELSE At(s, Where(t, S))
  BY AtAppend
<1> QED BY <1>3, <1>4, <1>5 DEF Only

LEMMA OnlyEmpty ==
  ASSUME NEW S
  PROVE  Only(<<>>, S) = <<>>
BY AtEmpty DEF Only

\* To pick places and then the elements in S is to pick both at once.
LEMMA OnlyOfAt ==
  ASSUME NEW T, NEW I, NEW S
  PROVE  \A s \in Seq(T) : Only(At(s, I), S) = At(s, I \cap Where(s, S))
<1> DEFINE Q == {s \in Seq(T) : Only(At(s, I), S) = At(s, I \cap Where(s, S))}
<1>1. <<>> \in Q
  BY AtEmpty, OnlyEmpty
<1>2. ASSUME NEW s \in Seq(T), NEW x \in T, s \in Q PROVE Append(s, x) \in Q
  <2> DEFINE t == Append(s, x)
             J == I \cap Where(t, S)
  <2>1. /\ t \in Seq(T) /\ Len(t) = Len(s) + 1 /\ t[Len(s) + 1] = x /\ Len(s) \in Nat
        /\ \A i \in 1..Len(s) : t[i] = s[i]
    BY AppendProperties, LenProperties
  <2>2. At(s, I) \in Seq(T)
    BY AtElements
  <2>3. \A i \in 1..Len(s) : i \in J <=> i \in I \cap Where(s, S)
    <3> HIDE DEF t
    <3> QED BY <2>1 DEF Where
  <2>4. At(s, J) = At(s, I \cap Where(s, S))
    <3> HIDE DEF J
    <3> QED BY <2>3, AtPlaces
  <2>5. Len(s) + 1 \in J <=> Len(s) + 1 \in I /\ x \in S
    <3> HIDE DEF t
    <3> QED BY <2>1 DEF Where
  <2>6. At(t, J) = IF Len(s) + 1 \in J THEN Append(At(s, J), x) ELSE At(s, J)
    <3> HIDE DEF J
    <3> QED BY AtAppend
  <2>7. At(t, I) = IF Len(s) + 1 \in I THEN Append(At(s, I), x) ELSE At(s, I)
    BY AtAppend
  <2>8. Only(Append(At(s, I), x), S) =
          IF x \in S THEN Append(Only(At(s, I), S), x) ELSE Only(At(s, I), S)
    BY <2>2, OnlyAppend
  <2>9. Only(At(s, I), S) = At(s, I \cap Where(s, S))
    BY <1>2
  <2>10. Only(At(t, I), S) = At(t, J)
    <3> HIDE DEF t, J
    <3> QED BY <2>4, <2>5, <2>6, <2>7, <2>8, <2>9
  <2> QED BY <2>1, <2>10
<1> HIDE DEF Q
<1>3. \A s \in Seq(T) : s \in Q
  BY <1>1, <1>2, SequenceInduction
<1> QED BY <1>3 DEF Q

\* What follows the last element in S may go.
LEMMA OnlyOfPrefix ==
  ASSUME NEW T, NEW S
  PROVE  \A s \in Seq(T) : \A n \in 0..Len(s) :
           (\A i \in (n + 1)..Len(s) : s[i] \notin S) => Only(SubSeq(s, 1, n), S) = Only(s, S)
<1> DEFINE Kept(s) == \A n \in 0..Len(s) :
                        (\A i \in (n + 1)..Len(s) : s[i] \notin S) =>
                          Only(SubSeq(s, 1, n), S) = Only(s, S)
           Q == {s \in Seq(T) : Kept(s)}
<1>1. <<>> \in Q
  <2>1. <<>> \in Seq(T) /\ Len(<<>>) = 0
    OBVIOUS
  <2>2. SubSeq(<<>>, 1, 0) = <<>>
    BY SubSeqEmpty
  <2>3. Kept(<<>>)
    <3>1. \A n \in 0..Len(<<>>) : n = 0
      BY <2>1
    <3> QED BY <2>2, <3>1
  <2> HIDE DEF Kept
  <2> QED BY <2>1, <2>3
<1>2. ASSUME NEW s \in Seq(T), NEW x \in T, s \in Q PROVE Append(s, x) \in Q
  <2> DEFINE t == Append(s, x)
  <2>1. /\ t \in Seq(T) /\ Len(t) = Len(s) + 1 /\ t[Len(s) + 1] = x /\ Len(s) \in Nat
        /\ \A i \in 1..Len(s) : t[i] = s[i]
    BY AppendProperties, LenProperties
  <2>2. ASSUME NEW n \in 0..Len(t), \A i \in (n + 1)..Len(t) : t[i] \notin S
        PROVE  Only(SubSeq(t, 1, n), S) = Only(t, S)
    <3>1. CASE n = Len(t)
      BY <3>1, <2>1, SubSeqFull
    <3>2. CASE n # Len(t)
      <4>1. n \in 0..Len(s) /\ Len(s) + 1 \in (n + 1)..Len(t)
        BY <3>2, <2>1
      <4>2. x \notin S
        BY <4>1, <2>1, <2>2
      <4>3. \A i \in (n + 1)..Len(s) : s[i] \notin S
        BY <2>1, <2>2, <4>1
      <4>4. Only(SubSeq(s, 1, n), S) = Only(s, S)
        BY <1>2, <4>1, <4>3
      <4>5. SubSeq(t, 1, n) = SubSeq(s, 1, n)
        <5> HIDE DEF t
        <5>1. \A i \in 1..n : i \in 1..Len(s) /\ t[i] = s[i] /\ s[i] \in T
          BY <4>1, <2>1, ElementOfSeq
        <5>2. /\ SubSeq(t, 1, n) \in Seq(T) /\ Len(SubSeq(t, 1, n)) = n
              /\ \A i \in 1..n : SubSeq(t, 1, n)[i] = t[i]
          BY <5>1, <4>1, <2>1, SubSeqProperties
        <5>3. /\ SubSeq(s, 1, n) \in Seq(T) /\ Len(SubSeq(s, 1, n)) = n
              /\ \A i \in 1..n : SubSeq(s, 1, n)[i] = s[i]
          BY <5>1, <4>1, <2>1, SubSeqProperties
        <5> QED BY <5>1, <5>2, <5>3, SeqEqual
      <4>6. Only(t, S) = Only(s, S)
        BY <4>2, OnlyAppend
      <4> QED BY <4>4, <4>5, <4>6
    <3> QED BY <3>1, <3>2
  <2>3. Kept(t)
    <3> HIDE DEF t
    <3> QED BY <2>2
  <2> QED BY <2>1, <2>3
<1> HIDE DEF Q
<1>3. \A s \in Seq(T) : s \in Q
  BY <1>1, <1>2, SequenceInduction
<1> QED BY <1>3 DEF Q

-----------------------------------------------------------------------------
(* settings.json.                                                          *)

Entries == [Events -> Seq(SUBSET Commands)]

LEMMA LoadType ==
  ASSUME NEW s \in {Absent, Broken} \cup Entries
  PROVE  /\ Load(s) \in Entries
         /\ s \in Entries => Loads(s) /\ Load(s) = s
<1>1. NoEntries \in Entries
  BY DEF NoEntries, Entries
<1>2. s \in Entries => s \notin {Absent, Broken}
  BY InstallersAssumption DEF InstallersAssumption, Entries
<1> QED BY <1>1, <1>2 DEF Load, Loads

LEMMA OursAreLex == Ours \subseteq Lex
<1>1. ASSUME NEW entry \in Ours PROVE "lex" \in entry \cap {"lex", "mention"}
  BY DEF Ours
<1>2. ASSUME NEW entry \in Ours PROVE entry \in Lex
  BY <1>1 DEF Ours, Lex
<1> QED BY <1>2

\* A new entry of ours is where there was none, and is the only change.
LEMMA InstallHooksFacts ==
  ASSUME NEW d \in Entries
  PROVE  /\ InstallHooks(d) \in Entries
         /\ \A e \in Events :
              LET new == InstallHooks(d)[e]
              IN  /\ Lone(d[e], Ours) => Lone(new, Ours)
                  /\ Where(new, Lex) # {}
                  /\ (\E i \in 1..Len(new) : "mention" \in new[i]) \/ Where(new, Ours) # {}
                  /\ Only(new, NotLex) = Only(d[e], NotLex)
<1>t. d \in Entries
  OBVIOUS
<1>c. {"lex"} \in SUBSET Commands /\ {"lex"} \in Lex /\ {"lex"} \in Ours /\ {"lex"} \notin NotLex
  <2>1. {"lex"} \in SUBSET Commands
    BY DEF Commands
  <2>2. {"lex"} \in Ours
    BY <2>1 DEF Ours
  <2>3. {"lex"} \in Lex
    BY <2>2, OursAreLex
  <2>4. {"lex"} \notin NotLex
    BY <2>3, Zenon DEF NotLex
  <2> QED BY <2>1, <2>2, <2>3, <2>4
<1>1. ASSUME NEW e \in Events, AnyLex(d[e])
      PROVE  /\ InstallHooks(d)[e] = d[e]
             /\ Where(d[e], Lex) # {}
             /\ \/ \E i \in 1..Len(d[e]) : "mention" \in d[e][i]
                \/ Where(d[e], Ours) # {}
  BY <1>1 DEF InstallHooks, AnyLex, Where, Lex, Ours
<1>2. ASSUME NEW e \in Events, ~AnyLex(d[e])
      PROVE  LET old == d[e]
                 new == InstallHooks(d)[e]
             IN  /\ new \in Seq(SUBSET Commands)
                 /\ Lone(new, Ours)
                 /\ Where(new, Lex) # {}
                 /\ Where(new, Ours) # {}
                 /\ Only(new, NotLex) = Only(old, NotLex)
  <2> DEFINE old == d[e]
             new == InstallHooks(d)[e]
  <2>1. old \in Seq(SUBSET Commands) /\ new = Append(old, {"lex"}) /\ Where(old, Lex) = {}
    BY <1>2, <1>t DEF InstallHooks, Entries, AnyLex
  <2> HIDE DEF old, new
  <2>2. /\ new \in Seq(SUBSET Commands) /\ Len(new) = Len(old) + 1 /\ Len(old) \in Nat
        /\ new[Len(old) + 1] = {"lex"} /\ \A i \in 1..Len(old) : new[i] = old[i]
    BY <2>1, <1>c, AppendProperties, LenProperties
  <2>3. \A i \in 1..Len(new) : i = Len(old) + 1 \/ i \in 1..Len(old)
    BY <2>2
  <2>4. \A i \in 1..Len(old) : new[i] \notin Lex /\ new[i] \in SUBSET Commands
    BY <2>1, <2>2, ElementOfSeq DEF Where
  <2>5. \A i \in 1..Len(old) : new[i] \notin Ours
    BY <2>4 DEF Lex, Ours
  <2>6. Len(old) + 1 \in 1..Len(new)
    BY <2>2
  <2>7. Lone(new, Ours) /\ Where(new, Lex) # {} /\ Where(new, Ours) # {}
    BY <2>2, <2>3, <2>5, <2>6, <1>c DEF Lone, Where
  <2>8. Only(new, NotLex) = Only(old, NotLex)
    BY <2>1, <1>c, OnlyAppend
  <2> QED BY <2>2, <2>7, <2>8 DEF old, new
<1>3. InstallHooks(d) \in Entries
  <2>1. \A e \in Events : InstallHooks(d)[e] \in Seq(SUBSET Commands)
    BY <1>1, <1>2, <1>t DEF Entries
  <2>2. InstallHooks(d) = [e \in Events |-> InstallHooks(d)[e]]
    BY DEF InstallHooks
  <2> QED BY <2>1, <2>2 DEF Entries
<1> QED BY <1>1, <1>2, <1>3

LEMMA RemoveHooksFacts ==
  ASSUME NEW d \in Entries
  PROVE  /\ RemoveHooks(d) \in Entries
         /\ \A e \in Events :
              LET new == RemoveHooks(d)[e]
              IN  /\ Where(new, Lex) = {}
                  /\ Where(new, Ours) = {}
                  /\ Only(new, NotLex) = Only(d[e], NotLex)
<1>t. d \in Entries
  OBVIOUS
<1>1. ASSUME NEW e \in Events
      PROVE  LET old == d[e]
                 new == RemoveHooks(d)[e]
             IN  /\ new \in Seq(SUBSET Commands)
                 /\ Where(new, Lex) = {}
                 /\ Where(new, Ours) = {}
                 /\ Only(new, NotLex) = Only(old, NotLex)
  <2> DEFINE old == d[e]
             new == RemoveHooks(d)[e]
             I == Where(old, NotLex)
  <2>1. old \in Seq(SUBSET Commands) /\ new = At(old, I)
    BY <1>t DEF RemoveHooks, Entries, Only
  <2> HIDE DEF old, new
  <2>2. /\ new \in Seq(SUBSET Commands)
        /\ \A k \in 1..Len(new) : \E i \in 1..Len(old) : i \in I /\ new[k] = old[i]
    <3> HIDE DEF I
    <3> QED BY <2>1, AtElements
  <2>3. \A k \in 1..Len(new) : new[k] \in NotLex
    BY <2>2 DEF Where
  <2>4. Where(new, Lex) = {} /\ Where(new, Ours) = {}
    <3>1. ASSUME NEW k \in 1..Len(new) PROVE new[k] \notin Lex /\ new[k] \notin Ours
      <4>1. new[k] \notin Lex
        BY <2>3, Zenon DEF NotLex
      <4> QED BY <4>1, OursAreLex
    <3> QED BY <3>1 DEF Where
  <2>5. Only(new, NotLex) = Only(old, NotLex)
    <3>1. I \cap Where(old, NotLex) = I
      OBVIOUS
    <3>2. Only(At(old, I), NotLex) = At(old, I \cap Where(old, NotLex))
      <4> HIDE DEF I
      <4> QED BY <2>1, OnlyOfAt
    <3> QED BY <2>1, <3>1, <3>2 DEF Only
  <2> QED BY <2>2, <2>4, <2>5 DEF old, new
<1>2. RemoveHooks(d) = [e \in Events |-> RemoveHooks(d)[e]]
  BY DEF RemoveHooks
<1> QED BY <1>1, <1>2 DEF Entries

-----------------------------------------------------------------------------
(* The pre-commit hook.                                                    *)

\* The block of lex-align is its marker and its body, and is there once.
BlockIsWhole(h) ==
    /\ Lone(h, {"marker"})
    /\ \A i \in Where(h, {"marker"}) : i < Len(h) /\ h[i + 1] = "body"
    /\ \A i \in Where(h, {"body"}) : i > 1 /\ h[i - 1] = "marker"

BlockIsGone(h) == Where(h, {"marker", "body"}) = {}

LEMMA GoneIsWhole ==
  ASSUME NEW h, BlockIsGone(h)
  PROVE  BlockIsWhole(h)
BY DEF BlockIsGone, BlockIsWhole, Lone, Where

LEMMA NoMarkerIsGone ==
  ASSUME NEW h \in Seq(Lines), BlockIsWhole(h), Where(h, {"marker"}) = {}
  PROVE  BlockIsGone(h)
<1>1. ASSUME NEW i \in 1..Len(h), h[i] = "body" PROVE FALSE
  <2>1. i > 1 /\ h[i - 1] = "marker"
    BY <1>1 DEF BlockIsWhole, Where
  <2>2. i - 1 \in 1..Len(h)
    BY <2>1, LenProperties
  <2> QED BY <2>1, <2>2 DEF Where
<1> QED BY <1>1 DEF BlockIsGone, Where

\* What the user appends leaves the block as it is.
LEMMA BlockKept ==
  ASSUME NEW h \in Seq(Lines), NEW t \in Seq(Lines), Len(h) <= Len(t),
         \A i \in 1..Len(h) : t[i] = h[i],
         \A i \in (Len(h) + 1)..Len(t) : t[i] \notin {"marker", "body"}
  PROVE  /\ BlockIsWhole(h) => BlockIsWhole(t)
         /\ BlockIsGone(h) => BlockIsGone(t)
         /\ \A S : Where(h, S) # {} => Where(t, S) # {}
<1>1. Len(h) \in Nat /\ Len(t) \in Nat
  BY LenProperties
<1>2. \A i \in 1..Len(t) : i \in 1..Len(h) \/ i \in (Len(h) + 1)..Len(t)
  BY <1>1
<1>3. \A i \in 1..Len(h) : i \in 1..Len(t)
  BY <1>1
<1>4. /\ Where(t, {"marker"}) = Where(h, {"marker"})
      /\ Where(t, {"body"}) = Where(h, {"body"})
      /\ Where(t, {"marker", "body"}) = Where(h, {"marker", "body"})
  BY <1>2, <1>3 DEF Where
<1>6. ASSUME NEW S, Where(h, S) # {} PROVE Where(t, S) # {}
  BY <1>3, <1>6 DEF Where
<1>5. ASSUME BlockIsWhole(h) PROVE BlockIsWhole(t)
  <2>1. ASSUME NEW i \in Where(h, {"marker"}) PROVE i < Len(t) /\ t[i + 1] = "body"
    <3>1. i \in 1..Len(h) /\ i < Len(h) /\ h[i + 1] = "body"
      BY <1>5 DEF BlockIsWhole, Where
    <3> QED BY <3>1, <1>1
  <2>2. ASSUME NEW i \in Where(h, {"body"}) PROVE i > 1 /\ t[i - 1] = "marker"
    <3>1. i \in 1..Len(h) /\ i > 1 /\ h[i - 1] = "marker"
      BY <1>5 DEF BlockIsWhole, Where
    <3> QED BY <3>1, <1>1
  <2>3. Lone(t, {"marker"})
    BY <1>4, <1>5 DEF BlockIsWhole, Lone
  <2> QED BY <1>4, <2>1, <2>2, <2>3 DEF BlockIsWhole
<1> QED BY <1>4, <1>5, <1>6 DEF BlockIsGone

\* Stripped takes blank lines from the end.
LEMMA StrippedFacts ==
  ASSUME NEW h \in Seq(Lines)
  PROVE  \E n \in 0..Len(h) :
           /\ Stripped(h) = SubSeq(h, 1, n)
           /\ \A i \in (n + 1)..Len(h) : h[i] = "blank"
           /\ Stripped(h) \in Seq(Lines)
           /\ Len(Stripped(h)) = n
           /\ \A i \in 1..n : Stripped(h)[i] = h[i]
<1> DEFINE Ends == {i \in 0..Len(h) : i > 0 => h[i] # "blank"}
           D == {Len(h) - i : i \in Ends}
<1>n. Len(h) \in Nat
  BY LenProperties
<1>1. 0 \in Ends
  BY <1>n
<1>2. D \in SUBSET Nat /\ D # {}
  BY <1>1, <1>n
<1>3. PICK d \in D : \A e \in D : d <= e
  <2> HIDE DEF D
  <2> QED BY <1>2, LeastNumber
<1>4. PICK m \in Ends : d = Len(h) - m
  BY <1>3
<1>5. \A j \in Ends : j <= m
  <2> TAKE j \in Ends
  <2>1. Len(h) - j \in D
    OBVIOUS
  <2>2. d <= Len(h) - j
    BY <1>3, <2>1
  <2> HIDE DEF D
  <2> QED BY <1>4, <1>n, <2>2
<1> DEFINE n == CHOOSE i \in Ends : \A j \in Ends : j <= i
<1>6. n \in Ends /\ \A j \in Ends : j <= n
  <2> HIDE DEF Ends, D
  <2> QED BY <1>4, <1>5
<1>7. Stripped(h) = SubSeq(h, 1, n)
  BY DEF Stripped
<1> HIDE DEF n, D
<1>8. n \in 0..Len(h)
  BY <1>6
<1>9. ASSUME NEW i \in (n + 1)..Len(h) PROVE h[i] = "blank"
  <2>1. i \in 0..Len(h) /\ i > 0 /\ i > n
    BY <1>8, <1>n
  <2>2. i \notin Ends
    BY <1>6, <1>8, <2>1
  <2> QED BY <2>1, <2>2
<1>10. \A i \in 1..n : i \in 1..Len(h) /\ h[i] \in Lines
  BY <1>8, <1>n, ElementOfSeq
<1>11. /\ SubSeq(h, 1, n) \in Seq(Lines) /\ Len(SubSeq(h, 1, n)) = n
       /\ \A i \in 1..n : SubSeq(h, 1, n)[i] = h[i]
  BY <1>8, <1>10, <1>n, SubSeqProperties
<1> QED BY <1>7, <1>8, <1>9, <1>11

LEMMA MarkerIsMarked ==
  ASSUME NEW h, Where(h, {"marker"}) # {}
  PROVE  Where(h, Marked) # {}
BY DEF Where, Marked

LEMMA InstallPrecommitFacts ==
  ASSUME NEW h, h = Absent \/ h \in Seq(Lines), h # Absent => BlockIsWhole(h)
  PROVE  LET t == InstallPrecommit(h)
         IN  t \in Seq(Lines) /\ BlockIsWhole(t) /\ HasBlock(t) /\ UserLines(t) = UserLines(h)
<1> DEFINE t == InstallPrecommit(h)
<1>a. Absent \notin Seq(Lines)
  BY InstallersAssumption DEF InstallersAssumption
<1>1. CASE HasBlock(h)
  BY <1>1, <1>a DEF InstallPrecommit, HasBlock
<1>2. CASE ~HasBlock(h)
  <2> DEFINE old == IF h = Absent THEN <<>> ELSE Stripped(h)
             a == Append(old, "blank")
             b == Append(a, "marker")
  <2>1. /\ old \in Seq(Lines) /\ BlockIsGone(old)
        /\ Only(old, UsersLines) = UserLines(h)
    <3>1. CASE h = Absent
      <4>1. old = <<>> /\ Len(<<>>) = 0 /\ <<>> \in Seq(Lines) /\ 1..0 = {}
        BY <3>1
      <4> QED BY <3>1, <4>1, OnlyEmpty DEF BlockIsGone, Where, UserLines
    <3>2. CASE h # Absent
      <4>1. h \in Seq(Lines) /\ BlockIsGone(h) /\ old = Stripped(h)
        BY <1>2, <3>2, NoMarkerIsGone, MarkerIsMarked DEF HasBlock
      <4>2. PICK n \in 0..Len(h) :
              /\ Stripped(h) = SubSeq(h, 1, n)
              /\ \A i \in (n + 1)..Len(h) : h[i] = "blank"
              /\ Stripped(h) \in Seq(Lines)
              /\ Len(Stripped(h)) = n
              /\ \A i \in 1..n : Stripped(h)[i] = h[i]
        BY <4>1, StrippedFacts
      <4>3. \A i \in 1..n : i \in 1..Len(h)
        BY <4>1, LenProperties
      <4>4. BlockIsGone(old)
        BY <4>1, <4>2, <4>3 DEF BlockIsGone, Where
      <4>5. \A i \in (n + 1)..Len(h) : h[i] \notin UsersLines
        BY <4>2 DEF UsersLines
      <4>6. Only(SubSeq(h, 1, n), UsersLines) = Only(h, UsersLines)
        BY <4>1, <4>5, OnlyOfPrefix
      <4> QED BY <3>2, <4>1, <4>2, <4>4, <4>6 DEF UserLines
    <3> QED BY <3>1, <3>2
  <2>2. t = old \o <<"blank", "marker", "body">>
    BY <1>2 DEF InstallPrecommit
  <2> HIDE DEF old
  <2>3. /\ a \in Seq(Lines) /\ Len(a) = Len(old) + 1 /\ a[Len(old) + 1] = "blank"
        /\ \A i \in 1..Len(old) : a[i] = old[i]
    BY <2>1, AppendProperties DEF Lines, UsersLines
  <2>4. /\ b \in Seq(Lines) /\ Len(b) = Len(a) + 1 /\ b[Len(a) + 1] = "marker"
        /\ \A i \in 1..Len(a) : b[i] = a[i]
    <3> HIDE DEF a
    <3> QED BY <2>3, AppendProperties DEF Lines, UsersLines
  <2>5. /\ Append(b, "body") \in Seq(Lines) /\ Len(Append(b, "body")) = Len(b) + 1
        /\ Append(b, "body")[Len(b) + 1] = "body"
        /\ \A i \in 1..Len(b) : Append(b, "body")[i] = b[i]
    <3> HIDE DEF b
    <3> QED BY <2>4, AppendProperties DEF Lines, UsersLines
  <2>6. t = Append(b, "body")
    <3>1. <<"blank", "marker", "body">> \in Seq(Lines) /\ Len(<<"blank", "marker", "body">>) = 3
      BY DEF Lines, UsersLines
    <3>2. /\ t \in Seq(Lines) /\ Len(t) = Len(old) + 3
          /\ \A i \in 1..(Len(old) + 3) :
               t[i] = IF i <= Len(old) THEN old[i] ELSE <<"blank", "marker", "body">>[i - Len(old)]
      BY <2>1, <2>2, <3>1, ConcatProperties
    <3>n. Len(old) \in Nat
      BY <2>1, LenProperties
    <3>3. Len(Append(b, "body")) = Len(old) + 3
      <4> HIDE DEF a, b
      <4> QED BY <3>n, <2>3, <2>4, <2>5
    <3>4. ASSUME NEW i \in 1..(Len(old) + 3) PROVE t[i] = Append(b, "body")[i]
      <4>1. CASE i <= Len(old)
        <5>1. t[i] = old[i]
          BY <4>1, <3>2
        <5>2. i \in 1..Len(old) /\ i \in 1..Len(a) /\ i \in 1..Len(b)
          <6> HIDE DEF a, b
          <6> QED BY <4>1, <3>n, <2>3, <2>4
        <5> HIDE DEF t, a, b
        <5> QED BY <5>1, <5>2, <2>3, <2>4, <2>5
      <4>2. CASE i = Len(old) + 1
        <5>1. i - Len(old) = 1 /\ ~(i <= Len(old))
          BY <4>2, <3>n
        <5>2. t[i] = "blank"
          BY <5>1, <3>2
        <5>3. i \in 1..Len(a) /\ i \in 1..Len(b)
          <6> HIDE DEF a, b
          <6> QED BY <4>2, <3>n, <2>3, <2>4
        <5> HIDE DEF t, a, b
        <5> QED BY <4>2, <5>2, <5>3, <2>3, <2>4, <2>5
      <4>3. CASE i = Len(old) + 2
        <5>1. i - Len(old) = 2 /\ ~(i <= Len(old))
          BY <4>3, <3>n
        <5>2. t[i] = "marker"
          BY <5>1, <3>2
        <5>3. i = Len(a) + 1 /\ i \in 1..Len(b)
          <6> HIDE DEF a, b
          <6> QED BY <4>3, <3>n, <2>3, <2>4
        <5> HIDE DEF t, a, b
        <5> QED BY <5>2, <5>3, <2>4, <2>5
      <4>4. CASE i = Len(old) + 3
        <5>1. i - Len(old) = 3 /\ ~(i <= Len(old))
          BY <4>4, <3>n
        <5>2. t[i] = "body"
          BY <5>1, <3>2
        <5>3. i = Len(b) + 1
          <6> HIDE DEF a, b
          <6> QED BY <4>4, <3>n, <2>3, <2>4
        <5> HIDE DEF t, a, b
        <5> QED BY <5>2, <5>3, <2>5
      <4> QED BY <4>1, <4>2, <4>3, <4>4, <3>n
    <3> HIDE DEF t, b
    <3> QED BY <3>2, <3>3, <3>4, <2>5, SeqEqual
  <2>7. Only(t, UsersLines) = Only(old, UsersLines)
    <3>1. Only(a, UsersLines) = Only(old, UsersLines)
      BY <2>1, OnlyAppend DEF Lines, UsersLines
    <3>2. Only(b, UsersLines) = Only(a, UsersLines)
      <4> HIDE DEF a
      <4> QED BY <2>3, OnlyAppend DEF Lines, UsersLines
    <3>3. Only(Append(b, "body"), UsersLines) = Only(b, UsersLines)
      <4> HIDE DEF b
      <4>1. "body" \in Lines /\ "body" \notin UsersLines
        BY DEF Lines, UsersLines
      <4> QED BY <2>4, <4>1, OnlyAppend
    <3> QED BY <3>1, <3>2, <3>3, <2>6
  <2>8. BlockIsWhole(t) /\ Where(t, {"marker"}) # {} /\ t \in Seq(Lines)
    <3> DEFINE m == Len(old) + 2
    <3>n. Len(old) \in Nat
      BY <2>1, LenProperties
    <3>1. /\ t \in Seq(Lines) /\ Len(t) = m + 1 /\ t[m] = "marker" /\ t[m + 1] = "body"
          /\ t[m - 1] = "blank" /\ \A i \in 1..Len(old) : t[i] = old[i]
      <4>1. Len(a) + 1 = m /\ Len(b) = m /\ Len(old) + 1 = m - 1
        <5> HIDE DEF a, b
        <5> QED BY <3>n, <2>3, <2>4
      <4>2. m \in 1..Len(b) /\ m - 1 \in 1..Len(b) /\ m - 1 \in 1..Len(a)
        <5> HIDE DEF a, b
        <5> QED BY <3>n, <2>3, <2>4, <4>1
      <4>3. \A i \in 1..Len(old) : i \in 1..Len(a) /\ i \in 1..Len(b)
        <5> HIDE DEF a, b
        <5> QED BY <3>n, <2>3, <2>4
      <4> HIDE DEF t, a, b, m
      <4> QED BY <4>1, <4>2, <4>3, <2>3, <2>4, <2>5, <2>6
    <3>2. \A i \in 1..Len(old) : t[i] \notin {"marker", "body"}
      BY <2>1, <3>1 DEF BlockIsGone, Where
    <3>3. \A i \in 1..Len(t) : i \in 1..Len(old) \/ i = m - 1 \/ i = m \/ i = m + 1
      BY <3>n, <3>1
    <3>4. m \in 1..Len(t) /\ m \in Nat /\ m < m + 1 /\ m + 1 > 1 /\ (m + 1) - 1 = m
      BY <3>n, <3>1
    <3> HIDE DEF t, m
    <3>5. Where(t, {"marker"}) = {m}
      BY <3>1, <3>2, <3>3, <3>4 DEF Where
    <3>6. \A i \in Where(t, {"body"}) : i = m + 1
      BY <3>1, <3>2, <3>3 DEF Where
    <3> QED BY <3>1, <3>4, <3>5, <3>6 DEF BlockIsWhole, Lone
  <2> HIDE DEF t
  <2> QED BY <2>1, <2>7, <2>8, <1>a, MarkerIsMarked DEF HasBlock, UserLines, t
<1> QED BY <1>1, <1>2

\* Uninstall takes the block and, of the user's lines, those glued to it.
LEMMA RemovePrecommitFacts ==
  ASSUME NEW h \in Seq(Lines), BlockIsWhole(h)
  PROVE  LET t == RemovePrecommit(h)
         IN  /\ t \in Seq(Lines) /\ BlockIsGone(t)
             /\ ~Glued(h) => UserLines(t) = UserLines(h)
<1> DEFINE t == RemovePrecommit(h)
           I == {i \in 1..Len(h) : ~InBlock(h, i)}
           r == At(h, I)
<1>a. h # Absent /\ Absent \notin Seq(Lines)
  BY InstallersAssumption DEF InstallersAssumption
<1>n. Len(h) \in Nat
  BY LenProperties
<1>1. CASE ~HasBlock(h)
  <2>1. t = h
    BY <1>1 DEF RemovePrecommit
  <2> QED BY <1>1, <1>a, <2>1, NoMarkerIsGone, MarkerIsMarked DEF HasBlock
<1>2. CASE HasBlock(h)
  <2>1. t = Stripped(r)
    BY <1>2 DEF RemovePrecommit
  <2>2. /\ r \in Seq(Lines)
        /\ \A k \in 1..Len(r) : \E i \in 1..Len(h) : i \in I /\ r[k] = h[i]
    <3> HIDE DEF I
    <3> QED BY AtElements
  <2>3. ASSUME NEW i \in 1..Len(h), h[i] \in {"marker", "body"} PROVE InBlock(h, i)
    <3>1. CASE h[i] = "marker"
      <4>1. i \in 1..i /\ (i + 1)..(i - 1) = {}
        BY <1>n
      <4> QED BY <3>1, <4>1 DEF InBlock, Marked
    <3>2. CASE h[i] = "body"
      <4>1. i > 1 /\ h[i - 1] = "marker"
        BY <3>2 DEF BlockIsWhole, Where
      <4>2. i - 1 \in 1..i /\ ((i - 1) + 1)..(i - 1) = {}
        BY <4>1, <1>n
      <4> QED BY <4>1, <4>2 DEF InBlock, Marked
    <3> QED BY <2>3, <3>1, <3>2
  <2>4. BlockIsGone(r)
    <3>1. \A k \in 1..Len(r) : r[k] \notin {"marker", "body"}
      <4> HIDE DEF r
      <4> QED BY <2>2, <2>3
    <3> QED BY <3>1 DEF BlockIsGone, Where
  <2>5. PICK n \in 0..Len(r) :
          /\ Stripped(r) = SubSeq(r, 1, n)
          /\ \A i \in (n + 1)..Len(r) : r[i] = "blank"
          /\ Stripped(r) \in Seq(Lines)
          /\ Len(Stripped(r)) = n
          /\ \A i \in 1..n : Stripped(r)[i] = r[i]
    <3> HIDE DEF r
    <3> QED BY <2>2, StrippedFacts
  <2> HIDE DEF t
  <2>6. t \in Seq(Lines) /\ BlockIsGone(t)
    <3> HIDE DEF r
    <3>1. \A i \in 1..n : i \in 1..Len(r)
      BY <2>2, LenProperties
    <3> QED BY <2>1, <2>4, <2>5, <3>1 DEF BlockIsGone, Where
  <2>7. ASSUME ~Glued(h) PROVE UserLines(t) = UserLines(h)
    <3>1. Only(t, UsersLines) = Only(r, UsersLines)
      <4> HIDE DEF r
      <4>1. \A i \in (n + 1)..Len(r) : r[i] \notin UsersLines
        BY <2>5 DEF UsersLines
      <4> QED BY <2>1, <2>2, <2>5, <4>1, OnlyOfPrefix
    <3>2. Only(r, UsersLines) = At(h, I \cap Where(h, UsersLines))
      <4> HIDE DEF I
      <4> QED BY OnlyOfAt
    <3>3. I \cap Where(h, UsersLines) = Where(h, UsersLines)
      BY <2>7, <1>a DEF Glued, Where
    <3> QED BY <3>1, <3>2, <3>3, <2>6, <1>a DEF UserLines, Only
  <2> QED BY <2>6, <2>7 DEF t
<1> QED BY <1>1, <1>2

-----------------------------------------------------------------------------
(* The inductive invariant.                                                *)

Writes == {"write script", "install hooks", "install md", "install precommit", "end init",
           "remove hooks", "unlink script", "remove precommit", "end uninstall"}

\* The order of the writes; those of init come before 6.
Rank == [w \in Writes |->
           CASE w = "write script" -> 1 [] w = "install hooks" -> 2
             [] w = "install md" -> 3 [] w = "install precommit" -> 4
             [] w = "end init" -> 5 [] w = "remove hooks" -> 6
             [] w = "unlink script" -> 7 [] w = "remove precommit" -> 8
             [] w = "end uninstall" -> 9]

Elements(s) == {s[i] : i \in 1..Len(s)}
Left(w) == w \in Elements(todo)
Installing == Left("end init")
Uninstalling == Left("end uninstall")

Sorted(s) == \A i, j \in 1..Len(s) : i < j => Rank[s[i]] < Rank[s[j]]

\* A command has still to do, in order and each once, what ends with its end.
TodoInv ==
    /\ todo \in Seq(Writes)
    /\ Sorted(todo)
    /\ todo # <<>> => todo[Len(todo)] \in {"end init", "end uninstall"} /\ finished = "none"
    /\ Uninstalling => \A v \in Elements(todo) : Rank[v] > 5
    /\ Left("install hooks") => "hooks" \in parts
    /\ Left("install precommit") => repo # "none"

BlockInv == hook # Absent => BlockIsWhole(hook)

\* What the running command holds of a file is as good as the file was.
HeldInv ==
    /\ phase # "start" => todo # <<>>
    /\ \A e \in Events : Lone(loaded[e], Ours)
    /\ existing # Absent => repo = "directory" /\ BlockIsWhole(existing)
    /\ phase = "read" /\ (Doing("install precommit") \/ Doing("remove precommit")) =>
         repo = "directory"
    /\ phase = "written" => Doing("install precommit") /\ PrecommitStatus

\* A hook with our block is executable, but for the stated exceptions.
ModeInv ==
    hook # Absent /\ Where(hook, {"marker"}) # {} /\ ~executable =>
      skipped \/ phase = "written"

\* The entries and the section of ours are alone.
OursInv ==
    /\ \A e \in Events : Lone(Load(settings)[e], Ours)
    /\ \A e \in Events : Where(Load(settings)[e], Ours) # {} => script # "none"
    /\ md # Absent => Lone(md, {"section"})

\* What init and uninstall have done so far.
HooksInstalled ==
    settings # Broken =>
      \A e \in Events :
        IF UserMentions(e) THEN HooksStatus(e)
        ELSE script = "ours" /\ Where(Load(settings)[e], Ours) # {}

HooksRemoved ==
    \A e \in Events :
      /\ Where(Load(settings)[e], Ours) = {}
      /\ HooksStatus(e) => UserMentions(e)

PrecommitReady == PrecommitStatus /\ (MentionsMarker \/ executable \/ skipped)

InitProgress ==
    Installing =>
      /\ "hooks" \in parts /\ ~Left("write script") => script = "ours"
      /\ "hooks" \in parts /\ ~Left("install hooks") => HooksInstalled
      /\ "precommit" \in parts /\ repo # "none" /\ ~Left("install precommit") =>
           PrecommitReady

UninstallProgress ==
    Uninstalling =>
      /\ ~Left("remove hooks") => HooksRemoved
      /\ ~Left("unlink script") => script = "none"
      /\ ~Left("remove precommit") => (hook # Absent => BlockIsGone(hook))

InstallersInv ==
    /\ InstallersTypeOK
    /\ TodoInv
    /\ BlockInv
    /\ HeldInv
    /\ ModeInv
    /\ OursInv
    /\ InitProgress
    /\ UninstallProgress
    /\ CommandsTakeEffect

-----------------------------------------------------------------------------
(* The writes a command has still to do.                                   *)

LEMMA Ranks ==
  /\ Rank["write script"] = 1 /\ Rank["install hooks"] = 2 /\ Rank["install md"] = 3
  /\ Rank["install precommit"] = 4 /\ Rank["end init"] = 5 /\ Rank["remove hooks"] = 6
  /\ Rank["unlink script"] = 7 /\ Rank["remove precommit"] = 8 /\ Rank["end uninstall"] = 9
BY DEF Rank, Writes

LEMMA RankType ==
  ASSUME NEW w \in Writes
  PROVE  Rank[w] \in 1..9
<1>1. Rank[w] \in {1, 2, 3, 4, 5, 6, 7, 8, 9}
  BY Ranks, Zenon DEF Writes
<1> QED BY <1>1

LEMMA RankBounds ==
  ASSUME NEW w \in Writes
  PROVE  ~(9 < Rank[w]) /\ (Rank[w] > 5 \/ Rank[w] <= 5) /\ (Rank[w] <= 5 => ~(5 < Rank[w]))
<1>1. Rank[w] \in 1..9
  BY RankType
<1> QED BY <1>1

LEMMA InitOrder ==
  /\ Rank["write script"] < Rank["install hooks"]
  /\ \A w \in {"write script", "install hooks"} : Rank[w] < Rank["install md"]
  /\ \A w \in {"write script", "install hooks", "install md"} : Rank[w] < Rank["install precommit"]
  /\ \A w \in {"write script", "install hooks", "install md", "install precommit"} :
       Rank[w] < Rank["end init"]
<1>1. 1 < 2 /\ 1 < 3 /\ 1 < 4 /\ 1 < 5 /\ 2 < 3 /\ 2 < 4 /\ 2 < 5 /\ 3 < 4 /\ 3 < 5 /\ 4 < 5
  OBVIOUS
<1> QED BY <1>1, Ranks, Zenon

LEMMA RankSides ==
  /\ \A w \in {"write script", "install hooks", "install md", "install precommit", "end init"} :
       Rank[w] <= 5
  /\ \A w \in {"remove hooks", "unlink script", "remove precommit", "end uninstall"} :
       Rank[w] > 5
<1>1. /\ 1 <= 5 /\ 2 <= 5 /\ 3 <= 5 /\ 4 <= 5 /\ 5 <= 5
      /\ 6 > 5 /\ 7 > 5 /\ 8 > 5 /\ 9 > 5
  OBVIOUS
<1> QED BY <1>1, Ranks, Zenon

\* What is left belongs to one command.
LEMMA WhichCommand ==
  ASSUME TodoInv, NEW w, Left(w)
  PROVE  /\ w \in Writes /\ todo # <<>> /\ finished = "none"
         /\ Rank[w] <= 5 => Installing /\ ~Uninstalling
         /\ Rank[w] > 5 => Uninstalling /\ ~Installing
<1>1. PICK k \in 1..Len(todo) : w = todo[k]
  BY DEF Left, Elements
<1>2. todo \in Seq(Writes) /\ Len(todo) \in Nat /\ \A i \in 1..Len(todo) : todo[i] \in Writes
  BY LenProperties, ElementOfSeq DEF TodoInv
<1>3. todo # <<>>
  <2>1. Len(todo) # 0
    BY <1>1, <1>2
  <2> QED BY <2>1
<1> DEFINE last == todo[Len(todo)]
<1>4. last \in {"end init", "end uninstall"} /\ finished = "none" /\ Left(last)
  <2>1. Len(todo) \in 1..Len(todo)
    BY <1>1, <1>2
  <2> QED BY <1>3, <2>1 DEF TodoInv, Left, Elements
<1>5. Rank[w] <= Rank[last]
  <2>1. Len(todo) \in 1..Len(todo) /\ (k < Len(todo) \/ k = Len(todo))
    BY <1>1, <1>2
  <2>2. Rank[w] \in Nat /\ Rank[last] \in Nat
    <3>1. w \in Writes /\ last \in Writes
      BY <1>1, <1>2, <2>1
    <3>2. \A v \in Writes : Rank[v] \in Nat
      BY RankType
    <3> HIDE DEF last
    <3> QED BY <3>1, <3>2
  <2>3. k < Len(todo) => Rank[w] < Rank[last]
    BY <1>1, <2>1 DEF TodoInv, Sorted
  <2> QED BY <1>1, <2>1, <2>2, <2>3
<1>6. Uninstalling => \A v \in Elements(todo) : Rank[v] > 5
  BY DEF TodoInv
<1>7. Uninstalling => ~Installing
  <2> DEFINE r == Rank["end init"]
  <2>r. r = 5
    BY Ranks, Zenon
  <2> HIDE DEF r
  <2>1. ~(r > 5)
    BY <2>r
  <2> USE DEF r
  <2> QED BY <1>6, <2>1 DEF Installing, Left
<1>8. Rank[w] <= 5 => last = "end init"
  <2>1. Rank[w] \in Nat /\ w \in Elements(todo)
    BY <1>1, <1>2, RankType DEF Elements
  <2>2. Rank[w] <= 5 => ~Uninstalling
    BY <1>6, <2>1
  <2> QED BY <1>4, <2>2 DEF Uninstalling
<1>9. Rank[w] > 5 => last = "end uninstall"
  <2>1. Rank[w] \in Nat
    BY <1>1, <1>2, RankType
  <2>2. last = "end init" => Rank[last] = 5
    BY Ranks
  <2>3. Rank[w] > 5 => Rank[last] # 5
    BY <2>1, <1>5
  <2> QED BY <2>2, <2>3, <1>4, Zenon
<1> HIDE DEF last
<1> QED BY <1>1, <1>2, <1>3, <1>4, <1>7, <1>8, <1>9 DEF Installing, Uninstalling

\* A write is the first of those left, and leaves the others.
LEMMA WriteDone ==
  ASSUME TodoInv, NEW w, Doing(w), todo' = Tail(todo)
  PROVE  /\ w \in Writes /\ Left(w) /\ ~Left(w)'
         /\ \A v : v # w => (Left(v)' <=> Left(v))
         /\ \A v : Left(v) /\ v # w => Rank[w] < Rank[v]
         /\ todo' \in Seq(Writes) /\ Sorted(todo)'
         /\ todo' # <<>> => todo'[Len(todo')] = todo[Len(todo)]
         /\ todo' = <<>> => w = todo[Len(todo)]
<1>1. /\ todo \in Seq(Writes) /\ todo # <<>> /\ todo[1] = w
      /\ \A i, j \in 1..Len(todo) : i < j => Rank[todo[i]] < Rank[todo[j]]
  <2>1. todo \in Seq(Writes) /\ todo # <<>> /\ Head(todo) = w
    BY DEF TodoInv, Doing
  <2>2. Head(todo) = todo[1]
    BY <2>1
  <2>3. Sorted(todo)
    BY DEF TodoInv
  <2> QED BY <2>1, <2>2, <2>3 DEF Sorted
<1>2. /\ Len(todo) \in Nat /\ Len(todo) >= 1 /\ todo' \in Seq(Writes)
      /\ Len(todo') = Len(todo) - 1 /\ \A i \in 1..Len(todo') : todo'[i] = todo[i + 1]
  <2>1. Len(todo) \in Nat /\ Len(todo) # 0
    BY <1>1, LenProperties, EmptySeq
  <2> QED BY <2>1, <1>1, HeadTailProperties
<1>3. \A i \in 1..Len(todo) : todo[i] \in Writes
  BY <1>1, ElementOfSeq
<1>4. 1 \in 1..Len(todo) /\ \A i \in 1..Len(todo) : i # 1 => i > 1 /\ i - 1 \in 1..Len(todo')
                                                             /\ i = (i - 1) + 1
  BY <1>2
<1>5. \A i \in 1..Len(todo') : i + 1 \in 1..Len(todo) /\ i + 1 > 1
  BY <1>2
<1>6. ASSUME NEW v PROVE Left(v) => v = w \/ Left(v)'
  <2> SUFFICES ASSUME Left(v), v # w PROVE Left(v)'
    OBVIOUS
  <2>1. PICK i \in 1..Len(todo) : v = todo[i]
    BY DEF Left, Elements
  <2>2. i # 1
    BY <1>1, <2>1
  <2>3. i - 1 \in 1..Len(todo') /\ todo'[i - 1] = todo[i]
    BY <1>2, <1>4, <2>1, <2>2
  <2> QED BY <2>1, <2>3 DEF Left, Elements
<1>7. ASSUME NEW v, Left(v)' PROVE Left(v) /\ Rank[w] < Rank[v]
  <2>1. PICK i \in 1..Len(todo') : v = todo'[i]
    BY <1>7 DEF Left, Elements
  <2>2. v = todo[i + 1] /\ i + 1 \in 1..Len(todo) /\ 1 < i + 1
    BY <1>2, <1>5, <2>1
  <2> QED BY <1>1, <1>4, <2>2 DEF Left, Elements
<1>8. w \in Writes /\ Left(w) /\ ~Left(w)'
  <2>1. w \in Writes /\ Left(w)
    BY <1>1, <1>3, <1>4 DEF Left, Elements
  <2>2. Rank[w] \in 1..9
    BY <2>1, RankType
  <2>3. ~(Rank[w] < Rank[w])
    BY <2>2
  <2> QED BY <2>1, <2>3, <1>7
<1>9. Sorted(todo)'
  <2>1. ASSUME NEW i \in 1..Len(todo'), NEW j \in 1..Len(todo'), i < j
        PROVE  Rank[todo'[i]] < Rank[todo'[j]]
    <3>1. i + 1 < j + 1
      BY <2>1, <1>2
    <3> QED BY <3>1, <1>1, <1>2, <1>5
  <2> QED BY <2>1 DEF Sorted
<1>10. todo' # <<>> => todo'[Len(todo')] = todo[Len(todo)]
  <2> SUFFICES ASSUME todo' # <<>> PROVE todo'[Len(todo')] = todo[Len(todo)]
    OBVIOUS
  <2>1. Len(todo') # 0
    BY <1>2, EmptySeq
  <2>2. Len(todo') \in 1..Len(todo') /\ Len(todo') + 1 = Len(todo)
    BY <2>1, <1>2
  <2> QED BY <2>2, <1>2
<1>11. todo' = <<>> => w = todo[Len(todo)]
  <2>1. Len(<<>>) = 0
    OBVIOUS
  <2>2. todo' = <<>> => Len(todo') = 0
    BY <2>1, Zenon
  <2>3. Len(todo') = 0 => Len(todo) = 1
    BY <1>2
  <2> QED BY <2>2, <2>3, <1>1
<1> QED BY <1>2, <1>6, <1>7, <1>8, <1>9, <1>10, <1>11

\* A write that is not the last keeps the order of the rest.
LEMMA TodoAfterWrite ==
  ASSUME TodoInv, NEW w, w \notin {"end init", "end uninstall"},
         Doing(w), Done, finished' = finished
  PROVE  TodoInv'
<1>1. todo' = Tail(todo) /\ parts' = parts /\ repo' = repo
  BY DEF Done
<1>2. todo # <<>> /\ todo[Len(todo)] \in {"end init", "end uninstall"} /\ finished' = "none"
  BY DEF Doing, TodoInv
<1>3. todo' # <<>>
  BY <1>1, <1>2, WriteDone
<1>4. \A v : Left(v)' => Left(v)
  BY <1>1, WriteDone
<1>5. Uninstalling' => \A v \in Elements(todo') : Rank[v] > 5
  BY <1>4 DEF TodoInv, Left, Uninstalling
<1> QED BY <1>1, <1>2, <1>3, <1>4, <1>5, WriteDone DEF TodoInv

LEMMA TodoWhenIdle ==
  ASSUME todo = <<>>
  PROVE  TodoInv /\ \A v : ~Left(v)
<1>1. <<>> \in Seq(Writes) /\ Len(<<>>) = 0 /\ 1..0 = {}
  OBVIOUS
<1>2. \A v : ~Left(v)
  BY <1>1 DEF Left, Elements
<1>3. Sorted(todo)
  BY <1>1 DEF Sorted
<1> QED BY <1>1, <1>2, <1>3 DEF TodoInv, Installing, Uninstalling

\* What init and uninstall set out to do.
LEMMA Concatenated ==
  ASSUME NEW s \in Seq(Writes), NEW t \in Seq(Writes), Sorted(s), Sorted(t),
         \A v \in Elements(s), w \in Elements(t) : Rank[v] < Rank[w]
  PROVE  /\ s \o t \in Seq(Writes) /\ Sorted(s \o t)
         /\ Elements(s \o t) = Elements(s) \cup Elements(t)
<1> DEFINE c == s \o t
<1>n. Len(s) \in Nat /\ Len(t) \in Nat
  BY LenProperties
<1>1. /\ c \in Seq(Writes) /\ Len(c) = Len(s) + Len(t)
      /\ \A i \in 1..(Len(s) + Len(t)) : c[i] = IF i <= Len(s) THEN s[i] ELSE t[i - Len(s)]
  BY ConcatProperties
<1> HIDE DEF c
<1>2. \A i \in 1..Len(s) : i \in 1..Len(c) /\ c[i] = s[i] /\ i <= Len(s)
  BY <1>1, <1>n
<1>3. \A i \in 1..Len(t) : i + Len(s) \in 1..Len(c) /\ c[i + Len(s)] = t[i]
  <2> TAKE i \in 1..Len(t)
  <2>1. /\ i + Len(s) \in 1..(Len(s) + Len(t)) /\ ~(i + Len(s) <= Len(s))
        /\ (i + Len(s)) - Len(s) = i
    BY <1>n
  <2> QED BY <2>1, <1>1
<1>4. ASSUME NEW i \in 1..Len(c)
      PROVE  \/ i \in 1..Len(s) /\ c[i] = s[i]
             \/ i > Len(s) /\ i - Len(s) \in 1..Len(t) /\ c[i] = t[i - Len(s)]
  BY <1>1, <1>n
<1>5. Elements(c) = Elements(s) \cup Elements(t)
  <2>1. \A i \in 1..Len(c) : c[i] \in Elements(s) \cup Elements(t)
    BY <1>4 DEF Elements
  <2>2. \A i \in 1..Len(s) : s[i] \in Elements(c)
    <3> TAKE i \in 1..Len(s)
    <3>1. i \in 1..Len(c) /\ c[i] = s[i]
      BY <1>2
    <3> QED BY <3>1 DEF Elements
  <2>3. \A i \in 1..Len(t) : t[i] \in Elements(c)
    <3> TAKE i \in 1..Len(t)
    <3>1. i + Len(s) \in 1..Len(c) /\ c[i + Len(s)] = t[i]
      BY <1>3
    <3> QED BY <3>1 DEF Elements
  <2> QED BY <2>1, <2>2, <2>3 DEF Elements
<1>6. ASSUME NEW i \in 1..Len(c), NEW j \in 1..Len(c), i < j
      PROVE  Rank[c[i]] < Rank[c[j]]
  <2>1. CASE i \in 1..Len(s) /\ j \in 1..Len(s)
    BY <1>2, <1>6, <2>1 DEF Sorted
  <2>2. CASE i \in 1..Len(s) /\ j - Len(s) \in 1..Len(t) /\ c[j] = t[j - Len(s)]
    BY <1>2, <2>2 DEF Elements
  <2>3. CASE /\ i > Len(s) /\ i - Len(s) \in 1..Len(t) /\ c[i] = t[i - Len(s)]
             /\ j - Len(s) \in 1..Len(t) /\ c[j] = t[j - Len(s)]
    <3>1. i - Len(s) < j - Len(s)
      BY <1>6, <1>n
    <3> QED BY <2>3, <3>1 DEF Sorted
  <2>4. i > Len(s) => j \notin 1..Len(s)
    BY <1>6, <1>n
  <2> QED BY <1>4, <2>1, <2>2, <2>3, <2>4
<1> QED BY <1>1, <1>5, <1>6 DEF c, Sorted

LEMMA OneWrite ==
  ASSUME NEW w \in Writes
  PROVE  <<w>> \in Seq(Writes) /\ Sorted(<<w>>) /\ Elements(<<w>>) = {w}
<1>1. <<w>> \in Seq(Writes) /\ Len(<<w>>) = 1 /\ <<w>>[1] = w /\ 1..1 = {1}
  OBVIOUS
<1>2. Sorted(<<w>>)
  BY <1>1 DEF Sorted
<1> QED BY <1>1, <1>2 DEF Elements

LEMMA NoWrite == <<>> \in Seq(Writes) /\ Sorted(<<>>) /\ Elements(<<>>) = {}
<1>1. <<>> \in Seq(Writes) /\ Len(<<>>) = 0 /\ 1..0 = {}
  OBVIOUS
<1> QED BY <1>1 DEF Sorted, Elements

LEMMA NoElements ==
  ASSUME NEW s \in Seq(Writes), Elements(s) = {}
  PROVE  s = <<>>
<1>1. Len(s) \in Nat
  BY LenProperties
<1>2. Len(s) # 0 => 1 \in 1..Len(s)
  BY <1>1
<1> QED BY <1>2, EmptySeq DEF Elements

LEMMA NotEmptyHasFirst ==
  ASSUME NEW T, NEW s \in Seq(T), s # <<>>
  PROVE  1 \in 1..Len(s)
<1>1. Len(s) \in Nat /\ Len(s) # 0
  BY LenProperties, EmptySeq
<1> QED BY <1>1

LEMMA InitWritesFacts ==
  ASSUME NEW for
  PROVE  /\ InitWrites(for) \in Seq(Writes) /\ Sorted(InitWrites(for))
         /\ InitWrites(for) # <<>>
         /\ InitWrites(for)[Len(InitWrites(for))] = "end init"
         /\ Elements(InitWrites(for)) =
              (IF "hooks" \in for THEN {"write script", "install hooks"} ELSE {})
              \cup (IF "md" \in for THEN {"install md"} ELSE {})
              \cup (IF "precommit" \in for /\ repo # "none" THEN {"install precommit"} ELSE {})
              \cup {"end init"}
<1> DEFINE a == IF "hooks" \in for THEN <<"write script", "install hooks">> ELSE <<>>
           b == IF "md" \in for THEN <<"install md">> ELSE <<>>
           c == IF "precommit" \in for /\ repo # "none" THEN <<"install precommit">> ELSE <<>>
           A == IF "hooks" \in for THEN {"write script", "install hooks"} ELSE {}
           B == IF "md" \in for THEN {"install md"} ELSE {}
           C == IF "precommit" \in for /\ repo # "none" THEN {"install precommit"} ELSE {}
           W == <<"end init">>
<1>1. a \in Seq(Writes) /\ Sorted(a) /\ Elements(a) = A
  <2> DEFINE two == <<"write script", "install hooks">>
  <2>1. /\ two \in Seq(Writes) /\ Len(two) = 2 /\ two[1] = "write script"
        /\ two[2] = "install hooks"
    BY DEF Writes
  <2> HIDE DEF two
  <2>2. Elements(two) = {"write script", "install hooks"}
    <3>1. 1..2 = {1, 2}
      OBVIOUS
    <3> QED BY <2>1, <3>1 DEF Elements
  <2>3. Sorted(two)
    <3>1. Rank["write script"] < Rank["install hooks"]
      BY InitOrder
    <3>2. \A i, j \in 1..2 : i < j => i = 1 /\ j = 2
      OBVIOUS
    <3> QED BY <2>1, <3>1, <3>2 DEF Sorted
  <2> QED BY <2>1, <2>2, <2>3, NoWrite, Zenon DEF two
<1>2. b \in Seq(Writes) /\ Sorted(b) /\ Elements(b) = B
  BY OneWrite, NoWrite, Zenon DEF Writes
<1>3. c \in Seq(Writes) /\ Sorted(c) /\ Elements(c) = C
  BY OneWrite, NoWrite, Zenon DEF Writes
<1>4. W \in Seq(Writes) /\ Sorted(W) /\ Elements(W) = {"end init"}
  BY OneWrite, Zenon DEF Writes
<1>w. \A w \in A \cup B \cup C : w \in {"write script", "install hooks", "install md",
                                        "install precommit"}
  OBVIOUS
<1> HIDE DEF a, b, c, W
<1>5. a \o b \in Seq(Writes) /\ Sorted(a \o b) /\ Elements(a \o b) = A \cup B
  <2>1. \A v \in A, w \in B : Rank[v] < Rank[w]
    BY InitOrder, Zenon
  <2> QED BY <1>1, <1>2, <2>1, Concatenated
<1>6. a \o b \o c \in Seq(Writes) /\ Sorted(a \o b \o c)
      /\ Elements(a \o b \o c) = A \cup B \cup C
  <2>1. \A v \in A \cup B, w \in C : Rank[v] < Rank[w]
    BY InitOrder, Zenon
  <2> HIDE DEF A, B, C
  <2> QED BY <1>3, <1>5, <2>1, Concatenated
<1>7. a \o b \o c \o W \in Seq(Writes) /\ Sorted(a \o b \o c \o W)
      /\ Elements(a \o b \o c \o W) = A \cup B \cup C \cup {"end init"}
  <2>1. \A v \in A \cup B \cup C, w \in {"end init"} : Rank[v] < Rank[w]
    BY InitOrder, Zenon
  <2> HIDE DEF A, B, C
  <2> QED BY <1>4, <1>6, <2>1, Concatenated
<1>8. InitWrites(for) = a \o b \o c \o W
  BY DEF InitWrites, a, b, c, W
<1>9. InitWrites(for) # <<>> /\ InitWrites(for)[Len(InitWrites(for))] = "end init"
  <2> DEFINE s == a \o b \o c
  <2>1. s \in Seq(Writes) /\ InitWrites(for) = s \o W /\ W \in Seq(Writes) /\ Len(W) = 1
        /\ W[1] = "end init"
    BY <1>4, <1>6, <1>8 DEF W
  <2> HIDE DEF s
  <2>2. /\ Len(s) \in Nat /\ Len(s \o W) = Len(s) + 1
        /\ \A i \in 1..(Len(s) + 1) : (s \o W)[i] = IF i <= Len(s) THEN s[i] ELSE W[i - Len(s)]
    <3> HIDE DEF W
    <3>1. /\ Len(s \o W) = Len(s) + Len(W)
          /\ \A i \in 1..(Len(s) + Len(W)) :
               (s \o W)[i] = IF i <= Len(s) THEN s[i] ELSE W[i - Len(s)]
      BY <2>1, ConcatProperties
    <3>2. Len(s) \in Nat
      BY <2>1, LenProperties
    <3> QED BY <2>1, <3>1, <3>2, Zenon
  <2>3. Len(s) + 1 \in 1..(Len(s) + 1) /\ ~(Len(s) + 1 <= Len(s)) /\ (Len(s) + 1) - Len(s) = 1
        /\ Len(s) + 1 # 0
    BY <2>2
  <2>4. (s \o W)[Len(s) + 1] = "end init"
    BY <2>1, <2>2, <2>3
  <2>5. s \o W # <<>>
    <3>1. Len(<<>>) = 0
      OBVIOUS
    <3> QED BY <3>1, <2>2, <2>3, Zenon
  <2> QED BY <2>1, <2>2, <2>4, <2>5
<1> QED BY <1>7, <1>8, <1>9

LEMMA UninstallWritesFacts ==
  /\ UninstallWrites \in Seq(Writes) /\ Sorted(UninstallWrites)
  /\ UninstallWrites # <<>>
  /\ UninstallWrites[Len(UninstallWrites)] = "end uninstall"
  /\ Elements(UninstallWrites) =
       {"remove hooks", "unlink script", "remove precommit", "end uninstall"}
<1> DEFINE s == UninstallWrites
<1>1. /\ s \in Seq(Writes) /\ Len(s) = 4 /\ s[1] = "remove hooks" /\ s[2] = "unlink script"
      /\ s[3] = "remove precommit" /\ s[4] = "end uninstall" /\ s # <<>>
  BY DEF UninstallWrites, Writes
<1> HIDE DEF s
<1>2. Elements(s) = {"remove hooks", "unlink script", "remove precommit", "end uninstall"}
  <2>1. 1..4 = {1, 2, 3, 4}
    OBVIOUS
  <2> QED BY <1>1, <2>1 DEF Elements
<1>3. Sorted(s)
  <2>1. Rank[s[1]] = 6 /\ Rank[s[2]] = 7 /\ Rank[s[3]] = 8 /\ Rank[s[4]] = 9
    BY <1>1, Ranks, Zenon
  <2>2. \A i \in 1..4 : i = 1 \/ i = 2 \/ i = 3 \/ i = 4
    OBVIOUS
  <2>3. \A i \in 1..4 : Rank[s[i]] = i + 5
    BY <2>1, <2>2
  <2>4. \A i, j \in 1..4 : i < j => i + 5 < j + 5
    OBVIOUS
  <2>5. \A i, j \in 1..4 : i < j => Rank[s[i]] < Rank[s[j]]
    BY <2>3, <2>4, Zenon
  <2> QED BY <1>1, <2>5 DEF Sorted
<1> QED BY <1>1, <1>2, <1>3 DEF s

-----------------------------------------------------------------------------
(* What the user adds to an event.                                         *)

Mentions(entries) == \E i \in 1..Len(entries) : "mention" \in entries[i]

LEMMA MentionIsLex ==
  ASSUME NEW entries \in Seq(SUBSET Commands), Mentions(entries)
  PROVE  Where(entries, Lex) # {}
<1>1. PICK i \in 1..Len(entries) : "mention" \in entries[i]
  BY DEF Mentions
<1>2. entries[i] \in SUBSET Commands
  BY ElementOfSeq
<1>3. entries[i] \in Lex
  BY <1>1, <1>2 DEF Lex
<1> QED BY <1>3 DEF Where

\* Where ours is, and whether the user mentions it, in new as in old.
Grown(old, new) ==
    /\ Lone(old, Ours) => Lone(new, Ours)
    /\ Where(new, Ours) = {} <=> Where(old, Ours) = {}
    /\ Mentions(old) => Mentions(new)
    /\ Where(new, Lex) # {} => Where(old, Lex) # {} \/ Mentions(new)

LEMMA GrownByEntry ==
  ASSUME NEW old \in Seq(SUBSET Commands), NEW c \in {"user", "mention"}
  PROVE  Append(old, {c}) \in Seq(SUBSET Commands) /\ Grown(old, Append(old, {c}))
<1> DEFINE new == Append(old, {c})
<1>0. {c} \in SUBSET Commands
  BY DEF Commands
<1>1. /\ new \in Seq(SUBSET Commands) /\ Len(new) = Len(old) + 1 /\ Len(old) \in Nat
      /\ new[Len(old) + 1] = {c} /\ \A i \in 1..Len(old) : new[i] = old[i]
  BY <1>0, AppendProperties, LenProperties
<1>2. {c} \notin Ours /\ ({c} \in Lex => c = "mention")
  BY DEF Ours, Lex
<1> HIDE DEF new
<1>3. \A i \in 1..Len(new) : i = Len(old) + 1 \/ i \in 1..Len(old)
  BY <1>1
<1>4. (\A i \in 1..Len(old) : i \in 1..Len(new)) /\ Len(old) + 1 \in 1..Len(new)
  BY <1>1
<1>5. Where(new, Ours) = Where(old, Ours)
  BY <1>1, <1>2, <1>3, <1>4 DEF Where
<1>6. Mentions(old) => Mentions(new)
  BY <1>1, <1>4 DEF Mentions
<1>7. Where(new, Lex) # {} => Where(old, Lex) # {} \/ Mentions(new)
  <2> SUFFICES ASSUME NEW i \in 1..Len(new), new[i] \in Lex
               PROVE  Where(old, Lex) # {} \/ Mentions(new)
    BY DEF Where
  <2>1. CASE i = Len(old) + 1
    <3>1. "mention" \in new[i]
      BY <1>1, <1>2, <2>1
    <3> QED BY <3>1 DEF Mentions
  <2>2. CASE i \in 1..Len(old)
    BY <1>1, <2>2 DEF Where
  <2> QED BY <1>3, <2>1, <2>2
<1> QED BY <1>1, <1>5, <1>6, <1>7 DEF Grown, Lone, new

LEMMA GrownByCommand ==
  ASSUME NEW old \in Seq(SUBSET Commands), NEW k \in 1..Len(old), "lex" \in old[k]
  PROVE  /\ [old EXCEPT ![k] = @ \cup {"user"}] \in Seq(SUBSET Commands)
         /\ Grown(old, [old EXCEPT ![k] = @ \cup {"user"}])
<1> DEFINE new == [old EXCEPT ![k] = @ \cup {"user"}]
<1>1. old[k] \in SUBSET Commands /\ old[k] \cup {"user"} \in SUBSET Commands
  <2>1. old[k] \in SUBSET Commands
    BY ElementOfSeq
  <2> QED BY <2>1 DEF Commands
<1>2. /\ new \in Seq(SUBSET Commands) /\ Len(new) = Len(old)
      /\ new[k] = old[k] \cup {"user"}
      /\ \A i \in 1..Len(old) : i # k => new[i] = old[i]
  BY <1>1, ExceptSeq
<1>3. \A i \in 1..Len(old) : old[i] \subseteq new[i]
  BY <1>2
<1> HIDE DEF new
<1>4. Where(new, Ours) = Where(old, Ours)
  <2>1. old[k] \in Ours /\ new[k] \in Ours
    BY <1>1, <1>2 DEF Ours
  <2> QED BY <1>2, <2>1 DEF Where
<1>5. Mentions(old) => Mentions(new)
  BY <1>2, <1>3 DEF Mentions
<1>6. Where(old, Lex) # {}
  <2>1. old[k] \in Lex
    BY <1>1 DEF Lex
  <2> QED BY <2>1 DEF Where
<1> QED BY <1>2, <1>4, <1>5, <1>6 DEF Grown, Lone, new

LEMMA AddHookFacts ==
  ASSUME InstallersTypeOK, AddHook
  PROVE  /\ settings # Broken /\ settings' \in Entries
         /\ \A e \in Events : Grown(Load(settings)[e], Load(settings')[e])
<1>1. settings \in {Absent, Broken} \cup Entries
  BY DEF InstallersTypeOK, Entries
<1>2. Load(settings) \in Entries /\ settings # Broken
  BY <1>1, LoadType DEF AddHook
<1>3. \A e \in Events : Load(settings)[e] \in Seq(SUBSET Commands)
  BY <1>2 DEF Entries
<1>4. PICK e \in Events :
        LET old == Load(settings)[e]
        IN  \/ \E c \in {"user", "mention"} :
                 settings' = [Load(settings) EXCEPT ![e] = Append(old, {c})]
            \/ \E i \in 1..Len(old) :
                 /\ "lex" \in old[i]
                 /\ settings' = [settings EXCEPT ![e][i] = @ \cup {"user"}]
  BY DEF AddHook
<1> DEFINE old == Load(settings)[e]
<1>5. \E new \in Seq(SUBSET Commands) :
        settings' = [Load(settings) EXCEPT ![e] = new] /\ Grown(old, new)
  <2>1. CASE \E c \in {"user", "mention"} :
               settings' = [Load(settings) EXCEPT ![e] = Append(old, {c})]
    BY <1>3, <2>1, GrownByEntry
  <2>2. ASSUME NEW i \in 1..Len(old), "lex" \in old[i],
               settings' = [settings EXCEPT ![e][i] = @ \cup {"user"}]
        PROVE  \E new \in Seq(SUBSET Commands) :
                 settings' = [Load(settings) EXCEPT ![e] = new] /\ Grown(old, new)
    <3>1. Load(settings) = settings
      <4>1. settings = Absent => old = <<>> /\ Len(<<>>) = 0
        BY DEF Load, Loads, NoEntries
      <4>2. settings # Absent
        <5>1. 1..0 = {}
          OBVIOUS
        <5> HIDE DEF old
        <5> QED BY <4>1, <5>1, <2>2, Zenon
      <4> QED BY <1>2, <4>2 DEF Load, Loads
    <3>2. settings' = [Load(settings) EXCEPT ![e] = [old EXCEPT ![i] = @ \cup {"user"}]]
      BY <2>2, <3>1
    <3>3. old \in Seq(SUBSET Commands)
      BY <1>3
    <3> HIDE DEF old
    <3> QED BY <2>2, <3>2, <3>3, GrownByCommand
  <2> QED BY <1>4, <2>1, <2>2
<1>6. PICK new \in Seq(SUBSET Commands) :
        settings' = [Load(settings) EXCEPT ![e] = new] /\ Grown(old, new)
  BY <1>5
<1>7. settings' \in Entries
  BY <1>2, <1>6 DEF Entries
<1>8. Load(settings') = settings'
  BY <1>7, LoadType
<1>9. ASSUME NEW d \in Events PROVE Grown(Load(settings)[d], Load(settings')[d])
  <2>1. CASE d = e
    <3>1. Load(settings')[e] = new
      BY <1>2, <1>6, <1>8 DEF Entries
    <3> QED BY <2>1, <3>1, <1>6
  <2>2. CASE d # e
    <3>1. Load(settings')[d] = Load(settings)[d]
      BY <1>2, <1>6, <1>8, <2>2 DEF Entries
    <3> QED BY <3>1 DEF Grown
  <2> QED BY <2>1, <2>2
<1> QED BY <1>2, <1>7, <1>9

-----------------------------------------------------------------------------
(* The invariant is inductive: one lemma per action.                       *)

\* Who has let go of what it read holds nothing of ours.
LEMMA LetGoIsHeld ==
  /\ NoEntries \in Entries
  /\ \A e \in Events : Lone(NoEntries[e], Ours)
<1>1. Len(<<>>) = 0 /\ 1..0 = {}
  OBVIOUS
<1> QED BY <1>1 DEF NoEntries, Entries, Lone, Where

LEMMA LetGoFacts ==
  ASSUME LetGo
  PROVE  /\ HeldInv' /\ phase' = "start" /\ phase' \in {"start", "read", "written"}
         /\ loaded' \in [Events -> Seq(SUBSET Commands)] /\ existing' = Absent
<1>1. phase' = "start" /\ loaded' = NoEntries /\ existing' = Absent
  BY DEF LetGo
<1> QED BY <1>1, LetGoIsHeld DEF HeldInv, Entries

LEMMA InitInv == Init => InstallersInv
<1> SUFFICES ASSUME Init PROVE InstallersInv
  OBVIOUS
<1>1. Load(settings) = NoEntries /\ \A e \in Events : Load(settings)[e] = <<>>
  BY DEF Init, Load, Loads, NoEntries
<1>2. \A S : Where(<<>>, S) = {}
  <2>1. Len(<<>>) = 0 /\ 1..0 = {}
    OBVIOUS
  <2> QED BY <2>1 DEF Where
<1>3. InstallersTypeOK
  <2>0. NoEntries \in [Events -> Seq(SUBSET Commands)]
    BY DEF NoEntries
  <2>1. 0 \in 0..MaxEdits /\ <<"user">> \in Seq({"user", "section"})
    BY InstallersAssumption DEF InstallersAssumption
  <2> QED BY <2>0, <2>1 DEF Init, NothingHeld, InstallersTypeOK, Parts
<1>4. TodoInv /\ ~Installing /\ ~Uninstalling
  BY TodoWhenIdle DEF Init, Installing, Uninstalling
<1>5. OursInv
  <2>1. \A e \in Events : Where(Load(settings)[e], Ours) = {}
    BY <1>1, <1>2
  <2>2. md = Absent \/ md = <<"user">>
    BY DEF Init
  <2>3. Where(<<"user">>, {"section"}) = {}
    BY DEF Where
  <2> QED BY <2>1, <2>2, <2>3 DEF OursInv, Lone
<1>6. HeldInv
  BY LetGoIsHeld DEF Init, NothingHeld, HeldInv
<1> QED BY <1>3, <1>4, <1>5, <1>6 DEF InstallersInv, BlockInv, ModeInv, InitProgress,
          UninstallProgress, CommandsTakeEffect, InitInstalls, UninstallRemoves, Init

\* A command does one thing at a time.
LEMMA DoingOne ==
  ASSUME NEW v, NEW w, Doing(v), Doing(w)
  PROVE  v = w
BY DEF Doing

\* What the steps of a command have in common.
LEMMA CommandStep ==
  ASSUME InstallersInv, NEW w, w \notin {"end init", "end uninstall"},
         Doing(w), Done, finished' = finished
  PROVE  /\ TodoInv' /\ CommandsTakeEffect'
         /\ repo' = repo /\ parts' = parts /\ edits' = edits
         /\ HeldInv' /\ phase' = "start" /\ phase' \in {"start", "read", "written"}
         /\ loaded' \in [Events -> Seq(SUBSET Commands)] /\ existing' = Absent
         /\ w \in Writes /\ Left(w) /\ ~Left(w)' /\ \A v : v # w => (Left(v)' <=> Left(v))
         /\ Installing' <=> Installing
         /\ Uninstalling' <=> Uninstalling
         /\ \A v : Left(v) /\ v # w => Rank[w] < Rank[v]
         /\ Rank[w] <= 5 => ~Uninstalling
         /\ Rank[w] > 5 => ~Installing
<1>1. TodoInv /\ todo' = Tail(todo) /\ repo' = repo /\ parts' = parts /\ edits' = edits /\ LetGo
  BY DEF InstallersInv, Done
<1>2. /\ w \in Writes /\ Left(w) /\ ~Left(w)' /\ \A v : v # w => (Left(v)' <=> Left(v))
      /\ \A v : Left(v) /\ v # w => Rank[w] < Rank[v]
  BY <1>1, WriteDone
<1>3. TodoInv'
  BY <1>1, TodoAfterWrite
<1>4. /\ finished = "none"
      /\ Rank[w] <= 5 => ~Uninstalling
      /\ Rank[w] > 5 => ~Installing
  BY <1>1, <1>2, WhichCommand
<1>5. CommandsTakeEffect'
  BY <1>4 DEF CommandsTakeEffect, InitInstalls, UninstallRemoves
<1> QED BY <1>1, <1>2, <1>3, <1>4, <1>5, LetGoFacts DEF Installing, Uninstalling

LEMMA BeginInitInv ==
  ASSUME InstallersInv, BeginInit
  PROVE  InstallersInv'
<1>1. PICK for \in SUBSET Parts : Begin(for, InitWrites(for))
  BY DEF BeginInit
<1> DEFINE w == InitWrites(for)
<1>2. /\ todo' = w /\ parts' = for /\ finished' = "none" /\ repo' = repo /\ edits' = edits
      /\ settings' = settings /\ script' = script /\ md' = md /\ hook' = hook
      /\ executable' = executable /\ skipped' = skipped /\ todo = <<>>
      /\ phase' = phase /\ loaded' = loaded /\ existing' = existing
  BY <1>1 DEF Begin, fileVars, heldVars
<1>3. /\ w \in Seq(Writes) /\ Sorted(w) /\ w # <<>> /\ w[Len(w)] = "end init"
      /\ Elements(w) =
              (IF "hooks" \in for THEN {"write script", "install hooks"} ELSE {})
              \cup (IF "md" \in for THEN {"install md"} ELSE {})
              \cup (IF "precommit" \in for /\ repo # "none" THEN {"install precommit"} ELSE {})
              \cup {"end init"}
  BY InitWritesFacts
<1> HIDE DEF w
<1>4. /\ ~Uninstalling'
      /\ Left("install hooks")' => "hooks" \in for
      /\ Left("install precommit")' => repo # "none"
      /\ "hooks" \in for => Left("write script")' /\ Left("install hooks")'
      /\ "precommit" \in for /\ repo # "none" => Left("install precommit")'
  BY <1>2, <1>3 DEF Left, Uninstalling
<1>5. TodoInv'
  BY <1>2, <1>3, <1>4 DEF TodoInv
<1>6. InstallersTypeOK'
  BY <1>2 DEF InstallersInv, InstallersTypeOK
<1>7. BlockInv' /\ OursInv'
  BY <1>2 DEF InstallersInv, BlockInv, OursInv
<1>h. HeldInv' /\ ModeInv'
  <2>1. phase = "start"
    BY <1>2 DEF InstallersInv, HeldInv
  <2>2. HeldInv'
    BY <1>2, <2>1 DEF InstallersInv, HeldInv
  <2> QED BY <1>2, <2>2 DEF InstallersInv, ModeInv
<1>8. InitProgress' /\ UninstallProgress'
  BY <1>2, <1>4 DEF InitProgress, UninstallProgress
<1>9. CommandsTakeEffect'
  BY <1>2 DEF CommandsTakeEffect, InitInstalls, UninstallRemoves
<1> QED BY <1>h, <1>5, <1>6, <1>7, <1>8, <1>9 DEF InstallersInv

LEMMA BeginUninstallInv ==
  ASSUME InstallersInv, BeginUninstall
  PROVE  InstallersInv'
<1> DEFINE w == UninstallWrites
<1>2. /\ todo' = w /\ parts' = Parts /\ finished' = "none" /\ repo' = repo /\ edits' = edits
      /\ settings' = settings /\ script' = script /\ md' = md /\ hook' = hook
      /\ executable' = executable /\ skipped' = skipped /\ todo = <<>>
      /\ phase' = phase /\ loaded' = loaded /\ existing' = existing
  BY DEF BeginUninstall, Begin, fileVars, heldVars
<1>3. /\ w \in Seq(Writes) /\ Sorted(w) /\ w # <<>> /\ w[Len(w)] = "end uninstall"
      /\ Elements(w) = {"remove hooks", "unlink script", "remove precommit", "end uninstall"}
  BY UninstallWritesFacts
<1> HIDE DEF w
<1>4. /\ ~Installing'
      /\ ~Left("install hooks")' /\ ~Left("install precommit")'
      /\ Left("remove hooks")' /\ Left("unlink script")' /\ Left("remove precommit")'
  BY <1>2, <1>3 DEF Left, Installing
<1>5. \A v \in Elements(w) : Rank[v] > 5
  BY <1>3, RankSides, Zenon
<1>6. TodoInv'
  BY <1>2, <1>3, <1>4, <1>5 DEF TodoInv
<1>7. InstallersTypeOK'
  BY <1>2 DEF InstallersInv, InstallersTypeOK
<1>8. BlockInv' /\ OursInv'
  BY <1>2 DEF InstallersInv, BlockInv, OursInv
<1>h. HeldInv' /\ ModeInv'
  <2>1. phase = "start"
    BY <1>2 DEF InstallersInv, HeldInv
  <2>2. HeldInv'
    BY <1>2, <2>1 DEF InstallersInv, HeldInv
  <2> QED BY <1>2, <2>2 DEF InstallersInv, ModeInv
<1>9. InitProgress' /\ UninstallProgress'
  BY <1>2, <1>4 DEF InitProgress, UninstallProgress
<1>10. CommandsTakeEffect'
  BY <1>2 DEF CommandsTakeEffect, InitInstalls, UninstallRemoves
<1> QED BY <1>h, <1>6, <1>7, <1>8, <1>9, <1>10 DEF InstallersInv

LEMMA WriteScriptInv ==
  ASSUME InstallersInv, WriteScript
  PROVE  InstallersInv'
<1> DEFINE w == "write script"
<1>1. /\ script' = "ours" /\ settings' = settings /\ md' = md /\ hook' = hook
      /\ finished' = finished /\ Doing(w) /\ Done
      /\ executable' = executable /\ skipped' = skipped
  BY DEF WriteScript
<1>2. Rank[w] <= 5
  BY RankSides, Zenon
<1>3. /\ TodoInv' /\ CommandsTakeEffect'
      /\ repo' = repo /\ parts' = parts /\ edits' = edits
      /\ HeldInv' /\ phase' = "start" /\ phase' \in {"start", "read", "written"}
      /\ loaded' \in [Events -> Seq(SUBSET Commands)] /\ existing' = Absent
      /\ \A v : v # w => (Left(v)' <=> Left(v))
      /\ ~Uninstalling'
      /\ Installing' => Installing
  BY <1>1, <1>2, CommandStep
<1>4. InstallersTypeOK'
  BY <1>1, <1>3 DEF InstallersInv, InstallersTypeOK
<1>5. BlockInv' /\ OursInv'
  BY <1>1 DEF InstallersInv, BlockInv, OursInv
<1>6. InitProgress'
  <2> SUFFICES ASSUME Installing
               PROVE  /\ "hooks" \in parts /\ ~Left("install hooks")' => HooksInstalled'
                      /\ "precommit" \in parts /\ repo # "none" /\ ~Left("install precommit")' => PrecommitReady'
    BY <1>1, <1>3 DEF InitProgress
  <2>1. /\ Left("install hooks")' <=> Left("install hooks")
        /\ Left("install precommit")' <=> Left("install precommit")
    BY <1>3
  <2>2. "hooks" \in parts /\ ~Left("install hooks")' => HooksInstalled'
    BY <1>1, <2>1 DEF InstallersInv, InitProgress, HooksInstalled, UserMentions, HooksStatus
  <2>3. "precommit" \in parts /\ repo # "none" /\ ~Left("install precommit")' => PrecommitReady'
    BY <1>1, <2>1 DEF InstallersInv, InitProgress, PrecommitReady, PrecommitStatus, MentionsMarker
  <2> QED BY <2>2, <2>3
<1>7. UninstallProgress'
  BY <1>3 DEF UninstallProgress
<1>m. ModeInv'
  <2>1. phase # "written"
    BY <1>1, DoingOne DEF InstallersInv, HeldInv
  <2> QED BY <1>1, <2>1 DEF InstallersInv, ModeInv
<1> QED BY <1>m, <1>3, <1>4, <1>5, <1>6, <1>7 DEF InstallersInv

LEMMA SaveInstalledInv ==
  ASSUME InstallersInv, SaveInstalled
  PROVE  InstallersInv'
<1> DEFINE w == "install hooks"
<1>1. /\ settings' = InstallHooks(loaded) /\ script' = script /\ md' = md /\ hook' = hook
      /\ finished' = finished /\ Doing(w) /\ Done /\ phase = "read"
      /\ executable' = executable /\ skipped' = skipped
  BY DEF SaveInstalled
<1>2. Rank[w] <= 5
  BY RankSides, Zenon
<1>3. /\ TodoInv' /\ CommandsTakeEffect'
      /\ repo' = repo /\ parts' = parts /\ edits' = edits
      /\ HeldInv' /\ phase' = "start" /\ phase' \in {"start", "read", "written"}
      /\ loaded' \in [Events -> Seq(SUBSET Commands)] /\ existing' = Absent
      /\ Left(w) /\ \A v : v # w => (Left(v)' <=> Left(v))
      /\ \A v : Left(v) /\ v # w => Rank[w] < Rank[v]
      /\ ~Uninstalling'
      /\ Installing' => Installing
  BY <1>1, <1>2, CommandStep
<1>4. ~Left("write script") /\ Installing /\ "hooks" \in parts
  <2>1. ~(Rank[w] < Rank["write script"])
    <3>1. Rank[w] = 2 /\ Rank["write script"] = 1
      BY Ranks, Zenon
    <3>2. ~(2 < 1)
      OBVIOUS
    <3> QED BY <3>1, <3>2, Zenon
  <2>2. TodoInv
    BY DEF InstallersInv
  <2> QED BY <1>2, <1>3, <2>1, <2>2, WhichCommand DEF TodoInv
<1>5. script = "ours"
  BY <1>4 DEF InstallersInv, InitProgress
<1>s. loaded \in Entries
  BY DEF InstallersInv, InstallersTypeOK, Entries
<1>6. settings' \in Entries /\ Load(settings') = settings' /\ settings' # Broken
  BY <1>1, <1>s, InstallHooksFacts, LoadType DEF Loads
<1>7. InstallersTypeOK'
  BY <1>1, <1>3, <1>6 DEF InstallersInv, InstallersTypeOK, Entries
<1>8. BlockInv'
  BY <1>1 DEF InstallersInv, BlockInv
<1>9. OursInv'
  <2>1. \A e \in Events : Lone(Load(settings')[e], Ours)
    BY <1>1, <1>s, <1>6, InstallHooksFacts DEF InstallersInv, HeldInv
  <2> QED BY <1>1, <1>5, <2>1 DEF InstallersInv, OursInv
<1>10. HooksInstalled'
  <2>1. ASSUME NEW e \in Events
        PROVE  /\ Where(settings'[e], Lex) # {}
               /\ (\E i \in 1..Len(settings'[e]) : "mention" \in settings'[e][i])
                    \/ Where(settings'[e], Ours) # {}
    BY <1>1, <1>s, InstallHooksFacts
  <2> QED BY <1>1, <1>5, <1>6, <2>1 DEF HooksInstalled, UserMentions, HooksStatus, AnyLex
<1>11. InitProgress'
  <2>1. "precommit" \in parts /\ repo # "none" /\ ~Left("install precommit")' => PrecommitReady'
    BY <1>1, <1>3, <1>4 DEF InstallersInv, InitProgress, PrecommitReady, PrecommitStatus, MentionsMarker
  <2> QED BY <1>1, <1>3, <1>5, <1>10, <2>1 DEF InitProgress
<1>12. UninstallProgress'
  BY <1>3 DEF UninstallProgress
<1>m. ModeInv'
  <2>1. phase # "written"
    BY <1>1, DoingOne DEF InstallersInv, HeldInv
  <2> QED BY <1>1, <2>1 DEF InstallersInv, ModeInv
<1> QED BY <1>m, <1>3, <1>7, <1>8, <1>9, <1>11, <1>12 DEF InstallersInv

LEMMA SaveRemovedInv ==
  ASSUME InstallersInv, SaveRemoved
  PROVE  InstallersInv'
<1> DEFINE w == "remove hooks"
<1>1. /\ settings' = RemoveHooks(loaded) /\ script' = script /\ md' = md /\ hook' = hook
      /\ finished' = finished /\ Doing(w) /\ Done /\ phase = "read"
      /\ executable' = executable /\ skipped' = skipped
  BY DEF SaveRemoved
<1>2. Rank[w] > 5
  BY RankSides, Zenon
<1>3. /\ TodoInv' /\ CommandsTakeEffect'
      /\ repo' = repo /\ parts' = parts /\ edits' = edits
      /\ HeldInv' /\ phase' = "start" /\ phase' \in {"start", "read", "written"}
      /\ loaded' \in [Events -> Seq(SUBSET Commands)] /\ existing' = Absent
      /\ \A v : v # w => (Left(v)' <=> Left(v))
      /\ ~Installing'
      /\ Uninstalling' => Uninstalling
  BY <1>1, <1>2, CommandStep
<1>s. loaded \in Entries
  BY DEF InstallersInv, InstallersTypeOK, Entries
<1>6. settings' \in Entries /\ Load(settings') = settings'
  BY <1>1, <1>s, RemoveHooksFacts, LoadType
<1>7. InstallersTypeOK'
  BY <1>1, <1>3, <1>6 DEF InstallersInv, InstallersTypeOK, Entries
<1>8. BlockInv'
  BY <1>1 DEF InstallersInv, BlockInv
<1>9. \A e \in Events : Where(settings'[e], Lex) = {} /\ Where(settings'[e], Ours) = {}
  BY <1>1, <1>s, RemoveHooksFacts
<1>10. OursInv'
  <2>1. \A e \in Events : Lone(Load(settings')[e], Ours)
    BY <1>6, <1>9 DEF Lone
  <2> QED BY <1>1, <1>6, <1>9, <2>1 DEF InstallersInv, OursInv
<1>11. HooksRemoved'
  BY <1>6, <1>9 DEF HooksRemoved, HooksStatus, AnyLex
<1>12. UninstallProgress'
  BY <1>1, <1>3, <1>11 DEF InstallersInv, UninstallProgress
<1>13. InitProgress'
  BY <1>3 DEF InitProgress
<1>m. ModeInv'
  <2>1. phase # "written"
    BY <1>1, DoingOne DEF InstallersInv, HeldInv
  <2> QED BY <1>1, <2>1 DEF InstallersInv, ModeInv
<1> QED BY <1>m, <1>3, <1>7, <1>8, <1>10, <1>12, <1>13 DEF InstallersInv

LEMMA UnlinkScriptInv ==
  ASSUME InstallersInv, UnlinkScript
  PROVE  InstallersInv'
<1> DEFINE w == "unlink script"
<1>1. /\ script' = "none" /\ settings' = settings /\ md' = md /\ hook' = hook
      /\ finished' = finished /\ Doing(w) /\ Done
      /\ executable' = executable /\ skipped' = skipped
  BY DEF UnlinkScript
<1>2. Rank[w] > 5
  BY RankSides, Zenon
<1>3. /\ TodoInv' /\ CommandsTakeEffect'
      /\ repo' = repo /\ parts' = parts /\ edits' = edits
      /\ HeldInv' /\ phase' = "start" /\ phase' \in {"start", "read", "written"}
      /\ loaded' \in [Events -> Seq(SUBSET Commands)] /\ existing' = Absent
      /\ Left(w) /\ \A v : v # w => (Left(v)' <=> Left(v))
      /\ \A v : Left(v) /\ v # w => Rank[w] < Rank[v]
      /\ ~Installing'
      /\ Uninstalling' => Uninstalling
  BY <1>1, <1>2, CommandStep
<1>4. Uninstalling /\ ~Left("remove hooks")
  <2>1. ~(Rank[w] < Rank["remove hooks"])
    <3>1. Rank[w] = 7 /\ Rank["remove hooks"] = 6
      BY Ranks, Zenon
    <3>2. ~(7 < 6)
      OBVIOUS
    <3> QED BY <3>1, <3>2, Zenon
  <2>2. TodoInv
    BY DEF InstallersInv
  <2> QED BY <1>2, <1>3, <2>1, <2>2, WhichCommand
<1>5. HooksRemoved
  BY <1>4 DEF InstallersInv, UninstallProgress
<1>6. InstallersTypeOK'
  BY <1>1, <1>3 DEF InstallersInv, InstallersTypeOK
<1>7. BlockInv'
  BY <1>1 DEF InstallersInv, BlockInv
<1>8. OursInv'
  BY <1>1, <1>5 DEF InstallersInv, OursInv, HooksRemoved
<1>9. UninstallProgress'
  <2>1. HooksRemoved'
    BY <1>1, <1>5 DEF HooksRemoved, HooksStatus, UserMentions
  <2> QED BY <1>1, <1>3, <1>4, <2>1 DEF InstallersInv, UninstallProgress
<1>10. InitProgress'
  BY <1>3 DEF InitProgress
<1>m. ModeInv'
  <2>1. phase # "written"
    BY <1>1, DoingOne DEF InstallersInv, HeldInv
  <2> QED BY <1>1, <2>1 DEF InstallersInv, ModeInv
<1> QED BY <1>m, <1>3, <1>6, <1>7, <1>8, <1>9, <1>10 DEF InstallersInv

LEMMA OneIsLone ==
  ASSUME NEW x, NEW S
  PROVE  Lone(<<x>>, S)
<1>1. Len(<<x>>) = 1 /\ \A i, j \in 1..1 : i = j
  OBVIOUS
<1> QED BY <1>1 DEF Lone, Where

LEMMA InstallMdInv ==
  ASSUME InstallersInv, InstallMd
  PROVE  InstallersInv'
<1> DEFINE w == "install md"
           Parts2 == {"user", "section"}
<1>1. /\ settings' = settings /\ script' = script /\ hook' = hook
      /\ md' = CASE md = Absent -> <<"section">>
                 [] md # Absent /\ HasSection(md) -> md
                 [] md # Absent /\ ~HasSection(md) -> Append(md, "section")
      /\ finished' = finished /\ Doing(w) /\ Done
      /\ executable' = executable /\ skipped' = skipped
  BY DEF InstallMd
<1>2. Rank[w] <= 5
  BY RankSides, Zenon
<1>3. /\ TodoInv' /\ CommandsTakeEffect'
      /\ repo' = repo /\ parts' = parts /\ edits' = edits
      /\ HeldInv' /\ phase' = "start" /\ phase' \in {"start", "read", "written"}
      /\ loaded' \in [Events -> Seq(SUBSET Commands)] /\ existing' = Absent
      /\ \A v : v # w => (Left(v)' <=> Left(v))
      /\ ~Uninstalling'
      /\ Installing' => Installing
  BY <1>1, <1>2, CommandStep
<1>4. md' \in Seq(Parts2) /\ Lone(md', {"section"})
  <2>1. CASE md = Absent
    <3>1. md' = <<"section">>
      BY <1>1, <2>1
    <3> QED BY <3>1, OneIsLone
  <2>2. CASE md # Absent /\ HasSection(md)
    BY <1>1, <2>2 DEF InstallersInv, InstallersTypeOK, OursInv
  <2>3. CASE md # Absent /\ ~HasSection(md)
    <3>1. md' = Append(md, "section") /\ md \in Seq(Parts2) /\ Where(md, {"section"}) = {}
      BY <1>1, <2>3 DEF InstallersInv, InstallersTypeOK, HasSection
    <3>2. /\ md' \in Seq(Parts2) /\ Len(md') = Len(md) + 1 /\ Len(md) \in Nat
          /\ \A i \in 1..Len(md) : md'[i] = md[i]
      BY <3>1, AppendProperties, LenProperties
    <3>3. \A i \in 1..Len(md') : i \in 1..Len(md) \/ i = Len(md) + 1
      BY <3>2
    <3>4. \A i \in Where(md', {"section"}) : i = Len(md) + 1
      BY <3>1, <3>2, <3>3 DEF Where
    <3> QED BY <3>2, <3>4 DEF Lone
  <2> QED BY <2>1, <2>2, <2>3
<1>5. InstallersTypeOK'
  BY <1>1, <1>3, <1>4 DEF InstallersInv, InstallersTypeOK
<1>6. BlockInv' /\ OursInv'
  BY <1>1, <1>4 DEF InstallersInv, BlockInv, OursInv
<1>7. InitProgress'
  <2>1. HooksInstalled' <=> HooksInstalled
    BY <1>1 DEF HooksInstalled, UserMentions, HooksStatus
  <2>2. PrecommitReady' <=> PrecommitReady
    BY <1>1 DEF PrecommitReady, PrecommitStatus, MentionsMarker
  <2>3. /\ Left("write script")' <=> Left("write script")
        /\ Left("install hooks")' <=> Left("install hooks")
        /\ Left("install precommit")' <=> Left("install precommit")
    BY <1>3
  <2> QED BY <1>1, <1>3, <2>1, <2>2, <2>3 DEF InstallersInv, InitProgress
<1>8. UninstallProgress'
  BY <1>3 DEF UninstallProgress
<1>m. ModeInv'
  <2>1. phase # "written"
    BY <1>1, DoingOne DEF InstallersInv, HeldInv
  <2> QED BY <1>1, <2>1 DEF InstallersInv, ModeInv
<1> QED BY <1>m, <1>3, <1>5, <1>6, <1>7, <1>8 DEF InstallersInv

LEMMA DoingIsLeft ==
  ASSUME TodoInv, NEW w, Doing(w)
  PROVE  Left(w)
<1>1. todo \in Seq(Writes) /\ todo # <<>> /\ Head(todo) = w
  BY DEF TodoInv, Doing
<1>2. Head(todo) = todo[1]
  BY <1>1
<1>3. 1 \in 1..Len(todo)
  BY <1>1, NotEmptyHasFirst
<1> QED BY <1>1, <1>2, <1>3 DEF Left, Elements

\* A step that leaves what is to be done alone.
LEMMA SameTodo ==
  ASSUME TodoInv, UNCHANGED <<repo, todo, parts, finished>>
  PROVE  /\ TodoInv' /\ Installing' = Installing /\ Uninstalling' = Uninstalling
         /\ \A v : Left(v)' <=> Left(v)
         /\ \A v : Doing(v)' <=> Doing(v)
BY DEF TodoInv, Left, Installing, Uninstalling, Doing

\* A step that leaves the files alone, too, but what is held of them.
LEMMA SameFiles ==
  ASSUME InstallersInv, HeldInv', phase = phase' \/ phase # "written",
         UNCHANGED <<repo, fileVars, todo, parts, finished, skipped, edits>>,
         phase' \in {"start", "read", "written"},
         loaded' \in [Events -> Seq(SUBSET Commands)],
         existing' = Absent \/ existing' \in Seq(Lines)
  PROVE  InstallersInv'
<1>1. /\ repo' = repo /\ settings' = settings /\ script' = script /\ md' = md /\ hook' = hook
      /\ executable' = executable /\ skipped' = skipped
      /\ todo' = todo /\ parts' = parts /\ finished' = finished /\ edits' = edits
  BY DEF fileVars
<1>2. /\ TodoInv' /\ Installing' = Installing /\ Uninstalling' = Uninstalling
      /\ \A v : Left(v)' <=> Left(v)
  BY <1>1, SameTodo DEF InstallersInv
<1>3. InstallersTypeOK' /\ BlockInv' /\ OursInv'
  BY <1>1 DEF InstallersInv, InstallersTypeOK, BlockInv, OursInv
<1>4. ModeInv'
  BY <1>1 DEF InstallersInv, ModeInv
<1>s. /\ \A e \in Events : (HooksStatus(e)' <=> HooksStatus(e)) /\ (UserMentions(e)' <=> UserMentions(e))
      /\ PrecommitStatus' <=> PrecommitStatus
      /\ MentionsMarker' <=> MentionsMarker
  BY <1>1 DEF HooksStatus, UserMentions, PrecommitStatus, MentionsMarker
<1>b. (executable' <=> executable) /\ (skipped' <=> skipped)
  BY <1>1
<1>r. /\ HooksInstalled' <=> HooksInstalled
      /\ HooksRemoved' <=> HooksRemoved
      /\ PrecommitReady' <=> PrecommitReady
  <2>1. HooksInstalled' <=> HooksInstalled
    BY <1>1, <1>s DEF HooksInstalled
  <2>2. HooksRemoved' <=> HooksRemoved
    BY <1>1, <1>s DEF HooksRemoved
  <2>3. PrecommitReady' <=> PrecommitReady
    BY <1>b, <1>s, Zenon DEF PrecommitReady
  <2> QED BY <2>1, <2>2, <2>3
<1>5. CommandsTakeEffect'
  <2>1. InitInstalls'
    <3>1. InitInstalls
      BY DEF InstallersInv, CommandsTakeEffect
    <3>2. finished' = "init" => finished = "init"
      BY <1>1
    <3>3. "hooks" \in parts' /\ settings' # Broken => "hooks" \in parts /\ settings # Broken
      BY <1>1
    <3>4. "precommit" \in parts' /\ repo' # "none" => "precommit" \in parts /\ repo # "none"
      BY <1>1
    <3>5. \A e \in Events :
            (script = "ours" /\ Where(Load(settings)[e], Ours) # {}) =>
              (script = "ours" /\ Where(Load(settings)[e], Ours) # {})'
      BY <1>1
    <3> QED BY <1>b, <1>s, <3>1, <3>2, <3>3, <3>4, <3>5, Zenon DEF InitInstalls
  <2>2. UninstallRemoves'
    <3>1. UninstallRemoves
      BY DEF InstallersInv, CommandsTakeEffect
    <3> QED BY <1>1, <1>s, <3>1, Zenon DEF UninstallRemoves
  <2> QED BY <2>1, <2>2 DEF CommandsTakeEffect
<1>6. InitProgress'
  <2>1. InitProgress
    BY DEF InstallersInv
  <2> QED BY <1>1, <1>2, <1>r, <2>1, Zenon DEF InitProgress
<1>7. UninstallProgress'
  <2>1. UninstallProgress
    BY DEF InstallersInv
  <2> QED BY <1>1, <1>2, <1>r, <2>1, Zenon DEF UninstallProgress
<1> QED BY <1>2, <1>3, <1>4, <1>5, <1>6, <1>7 DEF InstallersInv

LEMMA ReadSettingsInv ==
  ASSUME InstallersInv, ReadSettings
  PROVE  InstallersInv'
<1>1. /\ phase = "start" /\ phase' = "read" /\ loaded' = Load(settings) /\ existing' = existing
      /\ Doing("install hooks") \/ Doing("remove hooks")
      /\ UNCHANGED <<repo, fileVars, todo, parts, finished, skipped, edits>>
  BY DEF ReadSettings
<1>2. loaded' \in [Events -> Seq(SUBSET Commands)]
  <2>1. settings \in {Absent, Broken} \cup Entries
    BY DEF InstallersInv, InstallersTypeOK, Entries
  <2> QED BY <1>1, <2>1, LoadType DEF Entries
<1>3. HeldInv'
  <2>1. todo # <<>> /\ todo' = todo /\ repo' = repo
    BY <1>1 DEF Doing
  <2>2. ~Doing("install precommit")' /\ ~Doing("remove precommit")'
    BY <1>1 DEF Doing
  <2>3. \A e \in Events : Lone(loaded'[e], Ours)
    BY <1>1 DEF InstallersInv, OursInv
  <2>4. existing' # Absent => repo' = "directory" /\ BlockIsWhole(existing')
    BY <1>1, <2>1 DEF InstallersInv, HeldInv
  <2> QED BY <1>1, <2>1, <2>2, <2>3, <2>4 DEF HeldInv
<1>4. existing' = Absent \/ existing' \in Seq(Lines)
  BY <1>1 DEF InstallersInv, InstallersTypeOK
<1> QED BY <1>1, <1>2, <1>3, <1>4, SameFiles

LEMMA ReadPrecommitInv ==
  ASSUME InstallersInv, ReadPrecommit
  PROVE  InstallersInv'
<1>1. /\ phase = "start" /\ phase' = "read" /\ loaded' = loaded /\ existing' = hook
      /\ \/ Doing("install precommit") /\ repo # "file"
         \/ Doing("remove precommit") /\ hook # Absent
      /\ UNCHANGED <<repo, fileVars, todo, parts, finished, skipped, edits>>
  BY DEF ReadPrecommit, HasBlock
<1>2. existing' = Absent \/ (repo = "directory" /\ existing' \in Seq(Lines))
  BY <1>1 DEF InstallersInv, InstallersTypeOK
<1>3. HeldInv'
  <2>1. todo # <<>> /\ todo' = todo /\ repo' = repo
    BY <1>1 DEF Doing
  <2>2. repo = "directory"
    <3>1. CASE Doing("install precommit") /\ repo # "file"
      <4>1. Left("install precommit")
        BY <3>1, DoingIsLeft DEF InstallersInv
      <4>2. repo # "none" /\ repo \in {"none", "directory", "file"}
        BY <4>1 DEF InstallersInv, TodoInv, InstallersTypeOK
      <4> QED BY <3>1, <4>2
    <3>2. CASE hook # Absent
      BY <3>2 DEF InstallersInv, InstallersTypeOK
    <3> QED BY <1>1, <3>1, <3>2
  <2>3. \A e \in Events : Lone(loaded'[e], Ours)
    BY <1>1 DEF InstallersInv, HeldInv
  <2>4. existing' # Absent => repo' = "directory" /\ BlockIsWhole(existing')
    BY <1>1, <1>2, <2>1 DEF InstallersInv, BlockInv
  <2> QED BY <1>1, <2>1, <2>2, <2>3, <2>4 DEF HeldInv
<1>4. loaded' \in [Events -> Seq(SUBSET Commands)]
  BY <1>1 DEF InstallersInv, InstallersTypeOK
<1> QED BY <1>1, <1>2, <1>3, <1>4, SameFiles

LEMMA WritePrecommitInv ==
  ASSUME InstallersInv, WritePrecommit
  PROVE  InstallersInv'
<1> DEFINE w == "install precommit"
<1>1. /\ hook' = InstallPrecommit(existing) /\ settings' = settings /\ script' = script /\ md' = md
      /\ executable' = executable /\ skipped' = skipped
      /\ finished' = finished /\ todo' = todo /\ repo' = repo /\ parts' = parts /\ edits' = edits
      /\ loaded' = loaded /\ existing' = Absent /\ phase = "read" /\ phase' = "written"
      /\ Doing(w)
  BY DEF WritePrecommit
<1>2. Left(w) /\ todo # <<>>
  BY <1>1, DoingIsLeft DEF InstallersInv, Doing
<1>3. /\ TodoInv' /\ Installing' = Installing /\ Uninstalling' = Uninstalling
      /\ \A v : Left(v)' <=> Left(v)
      /\ Doing(w)'
  BY <1>1, SameTodo DEF InstallersInv
<1>4. finished = "none" /\ ~Uninstalling'
  <2>1. Rank[w] <= 5
    BY RankSides, Zenon
  <2>2. finished = "none" /\ ~Uninstalling
    BY <1>2, <2>1, WhichCommand DEF InstallersInv
  <2>3. ~Uninstalling'
    BY <1>3, <2>2, Zenon
  <2> QED BY <2>2, <2>3
<1>5. repo = "directory" /\ hook' \in Seq(Lines) /\ BlockIsWhole(hook') /\ HasBlock(hook')
  <2>1. /\ existing = Absent \/ existing \in Seq(Lines)
        /\ existing # Absent => BlockIsWhole(existing)
        /\ repo = "directory"
    BY <1>1 DEF InstallersInv, InstallersTypeOK, HeldInv
  <2> QED BY <1>1, <2>1, InstallPrecommitFacts
<1>6. InstallersTypeOK'
  BY <1>1, <1>5 DEF InstallersInv, InstallersTypeOK
<1>7. BlockInv' /\ OursInv'
  BY <1>1, <1>5 DEF InstallersInv, BlockInv, OursInv
<1>8. HeldInv' /\ ModeInv'
  <2>1. PrecommitStatus'
    BY <1>5 DEF PrecommitStatus
  <2>2. \A e \in Events : Lone(loaded'[e], Ours)
    BY <1>1 DEF InstallersInv, HeldInv
  <2>3. todo' # <<>>
    BY <1>1, <1>2
  <2> QED BY <1>1, <1>3, <2>1, <2>2, <2>3 DEF HeldInv, ModeInv
<1>9. InitProgress'
  <2>1. HooksInstalled' <=> HooksInstalled
    BY <1>1 DEF HooksInstalled, UserMentions, HooksStatus
  <2> QED BY <1>1, <1>2, <1>3, <2>1 DEF InstallersInv, InitProgress
<1>10. UninstallProgress'
  BY <1>4 DEF UninstallProgress
<1>11. CommandsTakeEffect'
  BY <1>1, <1>4 DEF CommandsTakeEffect, InitInstalls, UninstallRemoves
<1> QED BY <1>3, <1>6, <1>7, <1>8, <1>9, <1>10, <1>11 DEF InstallersInv

\* The end of install_precommit, on either way.
LEMMA PrecommitInstalled ==
  ASSUME InstallersInv, Doing("install precommit"), Done,
         UNCHANGED <<settings, script, md, hook, finished>>,
         executable' \in BOOLEAN, skipped' \in BOOLEAN,
         PrecommitReady', ModeInv'
  PROVE  InstallersInv'
<1> DEFINE w == "install precommit"
<1>1. /\ settings' = settings /\ script' = script /\ md' = md /\ hook' = hook
      /\ finished' = finished
  OBVIOUS
<1>2. Rank[w] <= 5
  BY RankSides, Zenon
<1>3. /\ TodoInv' /\ CommandsTakeEffect'
      /\ repo' = repo /\ parts' = parts /\ edits' = edits
      /\ HeldInv' /\ phase' = "start" /\ phase' \in {"start", "read", "written"}
      /\ loaded' \in [Events -> Seq(SUBSET Commands)] /\ existing' = Absent
      /\ \A v : v # w => (Left(v)' <=> Left(v))
      /\ ~Uninstalling'
      /\ Installing' => Installing
  BY <1>1, <1>2, CommandStep
<1>4. InstallersTypeOK'
  BY <1>1, <1>3 DEF InstallersInv, InstallersTypeOK
<1>5. BlockInv' /\ OursInv'
  BY <1>1 DEF InstallersInv, BlockInv, OursInv
<1>6. InitProgress'
  <2>1. HooksInstalled' <=> HooksInstalled
    BY <1>1 DEF HooksInstalled, UserMentions, HooksStatus
  <2>2. /\ Left("write script")' <=> Left("write script")
        /\ Left("install hooks")' <=> Left("install hooks")
    BY <1>3
  <2> QED BY <1>1, <1>3, <2>1, <2>2 DEF InstallersInv, InitProgress
<1>7. UninstallProgress'
  BY <1>3 DEF UninstallProgress
<1> QED BY <1>3, <1>4, <1>5, <1>6, <1>7 DEF InstallersInv

LEMMA ChmodPrecommitInv ==
  ASSUME InstallersInv, ChmodPrecommit
  PROVE  InstallersInv'
<1>1. /\ Doing("install precommit") /\ Done /\ phase = "written"
      /\ UNCHANGED <<settings, script, md, hook, finished>>
      /\ \/ executable' = TRUE /\ skipped' = FALSE
         \/ executable' = executable /\ skipped' = TRUE
  BY DEF ChmodPrecommit
<1>2. executable' \in BOOLEAN /\ skipped' \in BOOLEAN /\ (executable' \/ skipped')
  BY <1>1 DEF InstallersInv, InstallersTypeOK
<1>3. PrecommitReady'
  <2>1. PrecommitStatus
    BY <1>1 DEF InstallersInv, HeldInv
  <2>2. PrecommitStatus'
    BY <1>1, <2>1 DEF PrecommitStatus
  <2> QED BY <1>2, <2>2 DEF PrecommitReady
<1>4. ModeInv'
  BY <1>2 DEF ModeInv
<1> QED BY <1>1, <1>2, <1>3, <1>4, PrecommitInstalled

\* Who has the marker of ours or of a mention has one of them.
LEMMA MarkedByWhom ==
  ASSUME NEW h, Where(h, Marked) # {}
  PROVE  Where(h, {"marker"}) # {} \/ Where(h, {"mention"}) # {}
BY DEF Where, Marked

LEMMA KeepPrecommitInv ==
  ASSUME InstallersInv, KeepPrecommit
  PROVE  InstallersInv'
<1>1. /\ settings' = settings /\ script' = script /\ md' = md /\ hook' = hook
      /\ executable' = executable /\ skipped' = skipped
      /\ finished' = finished /\ Done /\ phase = "start"
  BY DEF KeepPrecommit, fileVars
<1>2. phase' = "start" /\ ModeInv'
  <2>1. phase' = "start"
    BY <1>1 DEF Done, LetGo
  <2> QED BY <1>1, <2>1 DEF InstallersInv, ModeInv
<1>3. CASE Doing("install precommit") /\ HasBlock(hook)
  <2>1. PrecommitReady
    <3>1. hook # Absent /\ Where(hook, Marked) # {} /\ PrecommitStatus
      BY <1>3 DEF HasBlock, PrecommitStatus
    <3>2. Where(hook, {"marker"}) # {} => executable \/ skipped
      BY <1>1, <3>1 DEF InstallersInv, ModeInv
    <3> QED BY <3>1, <3>2, MarkedByWhom DEF PrecommitReady, MentionsMarker
  <2>2. PrecommitReady'
    BY <1>1, <2>1 DEF PrecommitReady, PrecommitStatus, MentionsMarker
  <2>3. executable' \in BOOLEAN /\ skipped' \in BOOLEAN
    BY <1>1 DEF InstallersInv, InstallersTypeOK
  <2> QED BY <1>1, <1>2, <1>3, <2>2, <2>3, PrecommitInstalled
<1>4. CASE Doing("remove precommit") /\ ~HasBlock(hook)
  <2> DEFINE w == "remove precommit"
  <2>2. Rank[w] > 5
    BY RankSides, Zenon
  <2>3. /\ TodoInv' /\ CommandsTakeEffect'
        /\ repo' = repo /\ parts' = parts /\ edits' = edits
        /\ HeldInv' /\ phase' \in {"start", "read", "written"}
        /\ loaded' \in [Events -> Seq(SUBSET Commands)] /\ existing' = Absent
        /\ \A v : v # w => (Left(v)' <=> Left(v))
        /\ ~Installing'
        /\ Uninstalling' => Uninstalling
    BY <1>1, <1>4, <2>2, CommandStep
  <2>4. hook' # Absent => BlockIsGone(hook')
    <3> SUFFICES ASSUME hook # Absent PROVE BlockIsGone(hook)
      BY <1>1
    <3>1. hook \in Seq(Lines) /\ BlockIsWhole(hook) /\ Where(hook, {"marker"}) = {}
      BY <1>4, MarkerIsMarked DEF InstallersInv, InstallersTypeOK, BlockInv, HasBlock
    <3> QED BY <3>1, NoMarkerIsGone
  <2>5. InstallersTypeOK'
    BY <1>1, <2>3 DEF InstallersInv, InstallersTypeOK
  <2>6. BlockInv' /\ OursInv'
    BY <1>1 DEF InstallersInv, BlockInv, OursInv
  <2>7. UninstallProgress'
    <3>1. HooksRemoved' <=> HooksRemoved
      BY <1>1 DEF HooksRemoved, UserMentions, HooksStatus
    <3>2. /\ Left("remove hooks")' <=> Left("remove hooks")
          /\ Left("unlink script")' <=> Left("unlink script")
      BY <2>3
    <3> QED BY <1>1, <2>3, <2>4, <3>1, <3>2 DEF InstallersInv, UninstallProgress
  <2>8. InitProgress'
    BY <2>3 DEF InitProgress
  <2> QED BY <1>2, <2>3, <2>5, <2>6, <2>7, <2>8 DEF InstallersInv
<1> QED BY <1>3, <1>4 DEF KeepPrecommit

LEMMA DropPrecommitInv ==
  ASSUME InstallersInv, DropPrecommit
  PROVE  InstallersInv'
<1> DEFINE w == "remove precommit"
<1>1. /\ hook' = RemovePrecommit(existing) /\ settings' = settings /\ script' = script /\ md' = md
      /\ finished' = finished /\ Doing(w) /\ Done /\ phase = "read"
      /\ executable' = executable /\ skipped' = skipped
  BY DEF DropPrecommit
<1>2. Rank[w] > 5
  BY RankSides, Zenon
<1>3. /\ TodoInv' /\ CommandsTakeEffect'
      /\ repo' = repo /\ parts' = parts /\ edits' = edits
      /\ HeldInv' /\ phase' = "start" /\ phase' \in {"start", "read", "written"}
      /\ loaded' \in [Events -> Seq(SUBSET Commands)] /\ existing' = Absent
      /\ \A v : v # w => (Left(v)' <=> Left(v))
      /\ ~Installing'
      /\ Uninstalling' => Uninstalling
  BY <1>1, <1>2, CommandStep
<1>4. \/ hook' = Absent
      \/ repo = "directory" /\ hook' \in Seq(Lines) /\ BlockIsGone(hook')
  <2>1. CASE existing = Absent
    BY <1>1, <2>1 DEF RemovePrecommit, HasBlock
  <2>2. CASE existing # Absent
    <3>1. repo = "directory" /\ existing \in Seq(Lines) /\ BlockIsWhole(existing)
      BY <2>2 DEF InstallersInv, InstallersTypeOK, HeldInv
    <3> QED BY <1>1, <2>2, <3>1, RemovePrecommitFacts
  <2> QED BY <2>1, <2>2
<1>5. InstallersTypeOK'
  BY <1>1, <1>3, <1>4 DEF InstallersInv, InstallersTypeOK
<1>6. BlockInv' /\ OursInv'
  BY <1>1, <1>4, GoneIsWhole DEF InstallersInv, BlockInv, OursInv
<1>7. UninstallProgress'
  <2>1. HooksRemoved' <=> HooksRemoved
    BY <1>1 DEF HooksRemoved, UserMentions, HooksStatus
  <2>2. hook' # Absent => BlockIsGone(hook')
    BY <1>4
  <2>3. /\ Left("remove hooks")' <=> Left("remove hooks")
        /\ Left("unlink script")' <=> Left("unlink script")
    BY <1>3
  <2> QED BY <1>1, <1>3, <2>1, <2>2, <2>3 DEF InstallersInv, UninstallProgress
<1>8. InitProgress'
  BY <1>3 DEF InitProgress
<1>m. ModeInv'
  <2>1. hook' # Absent => Where(hook', {"marker"}) = {}
    BY <1>4 DEF BlockIsGone, Where
  <2> QED BY <2>1 DEF ModeInv
<1> QED BY <1>m, <1>3, <1>5, <1>6, <1>7, <1>8 DEF InstallersInv

LEMMA FinishInv ==
  ASSUME InstallersInv, Finish
  PROVE  InstallersInv'
<1>1. /\ settings' = settings /\ script' = script /\ md' = md /\ hook' = hook
      /\ finished' = (IF Doing("end init") THEN "init" ELSE "uninstall")
      /\ Doing("end init") \/ Doing("end uninstall")
      /\ executable' = executable /\ skipped' = skipped /\ LetGo
      /\ todo' = Tail(todo) /\ repo' = repo /\ parts' = parts /\ edits' = edits
  BY DEF Finish, Done, fileVars
<1>i. TodoInv
  BY DEF InstallersInv
\* Nothing is left after an end.
<1>2. ASSUME NEW w \in {"end init", "end uninstall"}, Doing(w)
      PROVE  Left(w) /\ \A v : Left(v) => v = w
  <2>1. /\ Left(w) /\ w \in Writes
        /\ \A v : Left(v) /\ v # w => Rank[w] < Rank[v]
    BY <1>1, <1>2, <1>i, WriteDone
  <2>2. ASSUME NEW v, Left(v), v # w PROVE FALSE
    <3>1. v \in Writes /\ Rank[w] < Rank[v]
      BY <1>i, <2>1, <2>2, WhichCommand
    <3>2. ~(9 < Rank[v]) /\ (Rank[v] > 5 \/ Rank[v] <= 5) /\ (Rank[v] <= 5 => ~(5 < Rank[v]))
      BY <3>1, RankBounds
    <3>3. CASE w = "end uninstall"
      <4>1. ~(9 < Rank[v])
        BY <3>2, Zenon
      <4>2. Rank[w] = 9
        BY <3>3, Ranks, Zenon
      <4> QED BY <3>1, <4>1, <4>2, Zenon
    <3>4. CASE w = "end init"
      <4>1. ~Uninstalling
        BY <1>i, <2>1, <3>4, RankSides, WhichCommand
      <4>2. Rank[v] <= 5
        BY <1>i, <2>2, <3>2, <4>1, WhichCommand, Zenon
      <4>3. ~(5 < Rank[v])
        BY <4>2, <3>2, Zenon
      <4>4. Rank[w] = 5
        BY <3>4, Ranks, Zenon
      <4> QED BY <3>1, <4>3, <4>4, Zenon
    <3> QED BY <1>2, <3>3, <3>4
  <2> QED BY <2>1, <2>2
<1>3. PICK w \in {"end init", "end uninstall"} : Doing(w)
  BY <1>1
<1>4. todo' = <<>>
  <2>1. ~Left(w)' /\ \A v : v # w => (Left(v)' <=> Left(v))
    BY <1>1, <1>3, <1>i, WriteDone
  <2>2. \A v : ~Left(v)'
    BY <2>1, <1>2, <1>3
  <2>3. todo' \in Seq(Writes)
    BY <1>1, <1>3, <1>i, WriteDone
  <2> QED BY <2>2, <2>3, NoElements DEF Left
<1>5. TodoInv' /\ ~Installing' /\ ~Uninstalling'
  <2>1. \A v : ~Left(v)'
    BY <1>4, NoWrite DEF Left
  <2>2. Sorted(<<>>)
    BY NoWrite
  <2>3. TodoInv'
    BY <1>4, <2>1, <2>2, NoWrite DEF TodoInv, Uninstalling
  <2> QED BY <2>1, <2>3 DEF Installing, Uninstalling
<1>h. /\ HeldInv' /\ phase' = "start" /\ phase' \in {"start", "read", "written"}
      /\ loaded' \in [Events -> Seq(SUBSET Commands)] /\ existing' = Absent
  BY <1>1, LetGoFacts
<1>m. ModeInv'
  <2>1. phase # "written"
    BY <1>1, DoingOne DEF InstallersInv, HeldInv
  <2> QED BY <1>1, <2>1 DEF InstallersInv, ModeInv
<1>6. InstallersTypeOK'
  BY <1>1, <1>h DEF InstallersInv, InstallersTypeOK
<1>7. BlockInv' /\ OursInv'
  BY <1>1 DEF InstallersInv, BlockInv, OursInv
<1>8. InitProgress' /\ UninstallProgress'
  BY <1>5 DEF InitProgress, UninstallProgress
<1>9. CASE Doing("end init")
  <2>1. Left("end init") /\ \A v : Left(v) => v = "end init"
    BY <1>2, <1>9
  <2>2. /\ "hooks" \in parts => HooksInstalled
        /\ "precommit" \in parts /\ repo # "none" => PrecommitReady
    BY <2>1 DEF InstallersInv, InitProgress, Installing
  <2>3. InitInstalls'
    BY <1>1, <2>2 DEF InitInstalls, HooksInstalled, UserMentions, HooksStatus,
                       PrecommitReady, PrecommitStatus, MentionsMarker
  <2>4. UninstallRemoves'
    BY <1>1, <1>9 DEF UninstallRemoves
  <2> QED BY <1>h, <1>m, <1>5, <1>6, <1>7, <1>8, <2>3, <2>4 DEF InstallersInv, CommandsTakeEffect
<1>10. CASE ~Doing("end init")
  <2>1. Left("end uninstall") /\ \A v : Left(v) => v = "end uninstall"
    BY <1>1, <1>2, <1>10
  <2>2. HooksRemoved /\ script = "none" /\ (hook # Absent => BlockIsGone(hook))
    BY <2>1 DEF InstallersInv, UninstallProgress, Uninstalling
  <2>3. UninstallRemoves'
    BY <1>1, <2>2 DEF UninstallRemoves, HooksRemoved, UserMentions, HooksStatus, BlockIsGone
  <2>4. InitInstalls'
    BY <1>1, <1>10 DEF InitInstalls
  <2> QED BY <1>h, <1>m, <1>5, <1>6, <1>7, <1>8, <2>3, <2>4 DEF InstallersInv, CommandsTakeEffect
<1> QED BY <1>9, <1>10

\* An empty hook or document has nothing of ours; nor has a broken settings.json.
LEMMA EmptyFiles ==
  /\ <<>> \in Seq(Lines) /\ <<>> \in Seq({"user", "section"})
  /\ BlockIsGone(<<>>) /\ Lone(<<>>, {"section"})
  /\ \A S : Where(<<>>, S) = {}
  /\ \A e \in Events : Load(Broken)[e] = <<>>
<1>1. Len(<<>>) = 0 /\ 1..0 = {} /\ \A S : <<>> \in Seq(S)
  OBVIOUS
<1>2. \A S : Where(<<>>, S) = {}
  BY <1>1 DEF Where
<1> QED BY <1>1, <1>2 DEF BlockIsGone, Lone, Load, Loads, NoEntries

LEMMA DieInv ==
  ASSUME InstallersInv, Die
  PROVE  InstallersInv'
<1>1. /\ todo # <<>> /\ todo' = <<>> /\ repo' = repo /\ parts' = {} /\ LetGo
      /\ finished' = finished /\ edits' = edits /\ skipped' = (skipped \/ phase = "written")
  BY DEF Die, Stop
<1>h. /\ HeldInv' /\ phase' = "start" /\ phase' \in {"start", "read", "written"}
      /\ loaded' \in [Events -> Seq(SUBSET Commands)] /\ existing' = Absent
  BY <1>1, LetGoFacts
<1>2. finished = "none"
  BY <1>1 DEF InstallersInv, TodoInv
<1>3. /\ script' \in {script, "cut"} /\ settings' \in {settings, Broken}
      /\ md' = md \/ md' = <<>>
      /\ executable' = executable
      /\ \/ hook' = hook
         \/ /\ hook' = <<>> /\ phase = "read"
            /\ Doing("install precommit") \/ Doing("remove precommit")
  BY DEF Die, fileVars
<1>4. TodoInv' /\ ~Installing' /\ ~Uninstalling'
  <2>1. \A v : ~Left(v)'
    BY <1>1, NoWrite DEF Left
  <2>2. TodoInv'
    BY <1>1, <2>1, NoWrite DEF TodoInv, Uninstalling
  <2> QED BY <2>1, <2>2 DEF Installing, Uninstalling
<1>5. hook' = Absent \/ (repo = "directory" /\ hook' \in Seq(Lines))
  <2>1. CASE hook' = hook
    BY <2>1 DEF InstallersInv, InstallersTypeOK
  <2>2. CASE /\ hook' = <<>> /\ phase = "read"
             /\ Doing("install precommit") \/ Doing("remove precommit")
    <3>1. repo = "directory"
      BY <2>2 DEF InstallersInv, HeldInv
    <3> QED BY <2>2, <3>1, EmptyFiles
  <2> QED BY <1>3, <2>1, <2>2
<1>6. InstallersTypeOK'
  <2>1. md' = Absent \/ md' \in Seq({"user", "section"})
    BY <1>3, EmptyFiles DEF InstallersInv, InstallersTypeOK
  <2>2. parts' \subseteq Parts /\ skipped' \in BOOLEAN /\ executable' \in BOOLEAN
    BY <1>1, <1>3 DEF InstallersInv, InstallersTypeOK
  <2> QED BY <1>1, <1>h, <1>3, <1>5, <2>1, <2>2 DEF InstallersInv, InstallersTypeOK
<1>7. BlockInv'
  BY <1>3, EmptyFiles, GoneIsWhole DEF InstallersInv, BlockInv
<1>8. OursInv'
  <2>1. \A e \in Events : Lone(Load(settings')[e], Ours)
    BY <1>3, EmptyFiles DEF InstallersInv, OursInv, Lone
  <2>2. \A e \in Events : Where(Load(settings')[e], Ours) # {} => script' # "none"
    BY <1>3, EmptyFiles DEF InstallersInv, OursInv
  <2>3. md' # Absent => Lone(md', {"section"})
    BY <1>3, EmptyFiles DEF InstallersInv, OursInv
  <2> QED BY <2>1, <2>2, <2>3 DEF OursInv
<1>9. InitProgress' /\ UninstallProgress'
  BY <1>4 DEF InitProgress, UninstallProgress
<1>10. CommandsTakeEffect'
  BY <1>1, <1>2 DEF CommandsTakeEffect, InitInstalls, UninstallRemoves
<1>m. ModeInv'
  <2>1. \A S : Where(<<>>, S) = {}
    BY EmptyFiles
  <2> QED BY <1>1, <1>3, <2>1 DEF InstallersInv, ModeInv
<1> QED BY <1>h, <1>m, <1>4, <1>6, <1>7, <1>8, <1>9, <1>10 DEF InstallersInv

\* A .git that is a file ends init before the hook is touched.
LEMMA MkdirRaisesInv ==
  ASSUME InstallersInv, MkdirRaises
  PROVE  InstallersInv'
<1>1. /\ Doing("install precommit") /\ repo = "file" /\ LetGo
      /\ todo' = <<>> /\ repo' = repo /\ parts' = {} /\ finished' = finished /\ edits' = edits
      /\ settings' = settings /\ script' = script /\ md' = md /\ hook' = hook
      /\ executable' = executable /\ skipped' = skipped
  BY DEF MkdirRaises, Stop, fileVars
<1>2. todo # <<>> /\ finished = "none"
  BY <1>1 DEF Doing, InstallersInv, TodoInv
<1>3. /\ HeldInv' /\ phase' \in {"start", "read", "written"}
      /\ loaded' \in [Events -> Seq(SUBSET Commands)] /\ existing' = Absent
  BY <1>1, LetGoFacts
<1>4. TodoInv' /\ ~Installing' /\ ~Uninstalling'
  <2>1. \A v : ~Left(v)'
    BY <1>1, NoWrite DEF Left
  <2>2. TodoInv'
    BY <1>1, <2>1, NoWrite DEF TodoInv, Uninstalling
  <2> QED BY <2>1, <2>2 DEF Installing, Uninstalling
<1>5. InstallersTypeOK'
  BY <1>1, <1>3 DEF InstallersInv, InstallersTypeOK
<1>6. BlockInv' /\ OursInv'
  BY <1>1 DEF InstallersInv, BlockInv, OursInv
<1>7. hook = Absent
  BY <1>1 DEF InstallersInv, InstallersTypeOK
<1>8. ModeInv' /\ InitProgress' /\ UninstallProgress'
  BY <1>1, <1>4, <1>7 DEF ModeInv, InitProgress, UninstallProgress
<1>9. CommandsTakeEffect'
  BY <1>1, <1>2 DEF CommandsTakeEffect, InitInstalls, UninstallRemoves
<1> QED BY <1>3, <1>4, <1>5, <1>6, <1>8, <1>9 DEF InstallersInv

LEMMA AppendLineFacts ==
  ASSUME InstallersTypeOK, AppendLine
  PROVE  /\ repo = "directory" /\ hook' \in Seq(Lines) /\ hook' # Absent
         /\ LET old == IF hook = Absent THEN <<>> ELSE hook
            IN  /\ old \in Seq(Lines)
                /\ BlockIsWhole(old) => BlockIsWhole(hook')
                /\ BlockIsGone(old) => BlockIsGone(hook')
                /\ \A S : Where(old, S) # {} => Where(hook', S) # {}
<1> DEFINE old == IF hook = Absent THEN <<>> ELSE hook
<1>1. repo = "directory" /\ old \in Seq(Lines) /\ Absent \notin Seq(Lines)
  BY EmptyFiles, InstallersAssumption DEF InstallersTypeOK, AppendLine, InstallersAssumption
<1>2. PICK line \in UsersLines, gap \in {<<>>, <<"blank">>} : hook' = old \o gap \o <<line>>
  BY DEF AppendLine
<1> HIDE DEF old
<1> DEFINE Free(s) == s \in Seq(Lines) /\ \A i \in 1..Len(s) : s[i] \notin {"marker", "body"}
\* One more such piece at the end leaves the block as it is.
<1>3. ASSUME NEW s \in Seq(Lines), NEW t, Free(t)
      PROVE  /\ s \o t \in Seq(Lines)
             /\ BlockIsWhole(s) => BlockIsWhole(s \o t)
             /\ BlockIsGone(s) => BlockIsGone(s \o t)
             /\ \A S : Where(s, S) # {} => Where(s \o t, S) # {}
  <2> DEFINE c == s \o t
  <2>1. /\ t \in Seq(Lines) /\ c \in Seq(Lines) /\ Len(c) = Len(s) + Len(t)
        /\ \A i \in 1..(Len(s) + Len(t)) : c[i] = IF i <= Len(s) THEN s[i] ELSE t[i - Len(s)]
    BY <1>3, ConcatProperties
  <2>2. Len(s) \in Nat /\ Len(t) \in Nat
    BY <2>1, LenProperties
  <2> HIDE DEF c
  <2>3. Len(s) <= Len(c) /\ \A i \in 1..Len(s) : c[i] = s[i]
    BY <2>1, <2>2
  <2>4. ASSUME NEW i \in (Len(s) + 1)..Len(c) PROVE c[i] \notin {"marker", "body"}
    <3>1. i \in 1..(Len(s) + Len(t)) /\ ~(i <= Len(s)) /\ i - Len(s) \in 1..Len(t)
      BY <2>1, <2>2
    <3>2. c[i] = t[i - Len(s)]
      BY <2>1, <3>1
    <3> QED BY <1>3, <3>1, <3>2
  <2>5. /\ BlockIsWhole(s) => BlockIsWhole(c)
        /\ BlockIsGone(s) => BlockIsGone(c)
        /\ \A S : Where(s, S) # {} => Where(c, S) # {}
    BY <2>1, <2>3, <2>4, BlockKept
  <2> QED BY <2>1, <2>5 DEF c
<1>4. Free(gap) /\ Free(<<line>>)
  <2>1. Len(<<>>) = 0 /\ 1..0 = {} /\ <<>> \in Seq(Lines)
    OBVIOUS
  <2>2. ASSUME NEW x \in Lines, x \notin {"marker", "body"} PROVE Free(<<x>>)
    <3>1. <<x>> \in Seq(Lines) /\ Len(<<x>>) = 1 /\ <<x>>[1] = x /\ 1..1 = {1}
      OBVIOUS
    <3> QED BY <2>2, <3>1
  <2>3. line \in Lines /\ line \notin {"marker", "body"}
    BY DEF Lines, UsersLines
  <2>4. "blank" \in Lines /\ "blank" \notin {"marker", "body"}
    BY DEF Lines, UsersLines
  <2>5. Free(<<>>)
    BY <2>1
  <2> HIDE DEF Free
  <2> QED BY <2>2, <2>3, <2>4, <2>5
<1> HIDE DEF Free
<1>5. /\ old \o gap \in Seq(Lines)
      /\ BlockIsWhole(old) => BlockIsWhole(old \o gap)
      /\ BlockIsGone(old) => BlockIsGone(old \o gap)
      /\ \A S : Where(old, S) # {} => Where(old \o gap, S) # {}
  BY <1>1, <1>3, <1>4
<1>6. /\ hook' \in Seq(Lines)
      /\ BlockIsWhole(old \o gap) => BlockIsWhole(hook')
      /\ BlockIsGone(old \o gap) => BlockIsGone(hook')
      /\ \A S : Where(old \o gap, S) # {} => Where(hook', S) # {}
  BY <1>2, <1>3, <1>4, <1>5
<1> QED BY <1>1, <1>5, <1>6 DEF old

\* The user's edits leave what the command has still to do alone.
LEMMA UserStep ==
  ASSUME InstallersInv, Edit
  PROVE  /\ TodoInv' /\ Installing' = Installing /\ Uninstalling' = Uninstalling
         /\ \A v : Left(v)' <=> Left(v)
         /\ \A v : Doing(v)' <=> Doing(v)
         /\ repo' = repo /\ todo' = todo /\ parts' = parts /\ script' = script /\ md' = md
         /\ finished' = finished /\ skipped' = skipped
         /\ phase' = phase /\ loaded' = loaded /\ existing' = existing
         /\ edits' \in 0..MaxEdits
         /\ PrecommitStatus' \/ ~PrecommitStatus => HeldInv'
<1>1. /\ todo' = todo /\ parts' = parts /\ repo' = repo /\ script' = script /\ md' = md
      /\ finished' = finished /\ skipped' = skipped
      /\ phase' = phase /\ loaded' = loaded /\ existing' = existing
      /\ edits < MaxEdits /\ edits' = edits + 1
  BY DEF Edit, heldVars
<1>2. edits' \in 0..MaxEdits
  BY <1>1, InstallersAssumption DEF InstallersInv, InstallersTypeOK, InstallersAssumption
<1>3. /\ TodoInv' /\ Installing' = Installing /\ Uninstalling' = Uninstalling
      /\ \A v : Left(v)' <=> Left(v)
      /\ \A v : Doing(v)' <=> Doing(v)
  BY <1>1, SameTodo DEF InstallersInv
<1>4. ASSUME PrecommitStatus' \/ ~PrecommitStatus PROVE HeldInv'
  BY <1>1, <1>3, <1>4 DEF InstallersInv, HeldInv
<1> QED BY <1>1, <1>2, <1>3, <1>4

LEMMA AppendLineInv ==
  ASSUME InstallersInv, AppendLine
  PROVE  InstallersInv'
<1>1. settings' = settings /\ Edit
  BY DEF AppendLine
<1>2. /\ TodoInv' /\ Installing' = Installing /\ Uninstalling' = Uninstalling
      /\ \A v : Left(v)' <=> Left(v)
      /\ repo' = repo /\ parts' = parts /\ script' = script /\ md' = md
      /\ finished' = finished /\ skipped' = skipped
      /\ phase' = phase /\ loaded' = loaded /\ existing' = existing
      /\ edits' \in 0..MaxEdits
      /\ PrecommitStatus' \/ ~PrecommitStatus => HeldInv'
  BY <1>1, UserStep
<1> DEFINE old == IF hook = Absent THEN <<>> ELSE hook
<1>3. /\ repo = "directory" /\ hook' \in Seq(Lines) /\ hook' # Absent
      /\ old \in Seq(Lines)
      /\ BlockIsWhole(old) => BlockIsWhole(hook')
      /\ BlockIsGone(old) => BlockIsGone(hook')
      /\ \A S : Where(old, S) # {} => Where(hook', S) # {}
  BY AppendLineFacts DEF InstallersInv
<1>4. PrecommitStatus => PrecommitStatus'
  BY <1>3 DEF PrecommitStatus, HasBlock
<1>r. PrecommitReady => PrecommitReady'
  <2> SUFFICES ASSUME PrecommitReady PROVE PrecommitReady'
    OBVIOUS
  <2>1. hook # Absent /\ PrecommitStatus
    BY DEF PrecommitReady, PrecommitStatus, HasBlock
  <2>2. executable' = executable /\ (MentionsMarker => MentionsMarker')
    BY <1>3, <2>1 DEF AppendLine, MentionsMarker
  <2> QED BY <1>2, <1>4, <2>1, <2>2 DEF PrecommitReady
<1>x. executable' \in BOOLEAN /\ (hook # Absent => executable' = executable)
  BY DEF AppendLine, InstallersInv, InstallersTypeOK
<1>5. (hook # Absent => BlockIsGone(hook)) => BlockIsGone(hook')
  BY <1>3, EmptyFiles
<1>6. InstallersTypeOK'
  BY <1>1, <1>2, <1>3, <1>x DEF InstallersInv, InstallersTypeOK
<1>m. HeldInv' /\ ModeInv'
  <2>1. HeldInv'
    BY <1>2, <1>4
  <2>2. ASSUME hook = Absent \/ Where(hook, {"marker"}) = {}
        PROVE  Where(hook', {"marker"}) = {}
    <3>1. hook # Absent => BlockIsGone(hook)
      BY <2>2, NoMarkerIsGone DEF InstallersInv, InstallersTypeOK, BlockInv
    <3> QED BY <1>5, <3>1 DEF BlockIsGone, Where
  <2>3. ModeInv'
    BY <1>2, <1>x, <2>2 DEF InstallersInv, ModeInv
  <2> QED BY <2>1, <2>3
<1>7. BlockInv' /\ OursInv'
  <2>1. BlockIsWhole(old)
    BY EmptyFiles, GoneIsWhole DEF InstallersInv, BlockInv
  <2> HIDE DEF old
  <2> QED BY <1>1, <1>2, <1>3, <2>1 DEF InstallersInv, BlockInv, OursInv
<1>8. HooksInstalled' = HooksInstalled /\ HooksRemoved' = HooksRemoved
  BY <1>1, <1>2 DEF HooksInstalled, HooksRemoved, UserMentions, HooksStatus
<1>9. InitProgress'
  BY <1>1, <1>2, <1>r, <1>8 DEF InstallersInv, InitProgress
<1>10. UninstallProgress'
  BY <1>1, <1>2, <1>5, <1>8 DEF InstallersInv, UninstallProgress
<1>11. InitInstalls'
  BY <1>1, <1>2, <1>r DEF InstallersInv, CommandsTakeEffect, InitInstalls, UserMentions, HooksStatus,
                          PrecommitReady
<1>12. UninstallRemoves'
  BY <1>1, <1>2, <1>5 DEF InstallersInv, CommandsTakeEffect, UninstallRemoves, UserMentions,
                          HooksStatus, BlockIsGone
<1> QED BY <1>m, <1>2, <1>6, <1>7, <1>9, <1>10, <1>11, <1>12 DEF InstallersInv, CommandsTakeEffect

LEMMA AddHookInv ==
  ASSUME InstallersInv, AddHook
  PROVE  InstallersInv'
<1>1. hook' = hook /\ executable' = executable /\ Edit
  BY DEF AddHook
<1>2. /\ TodoInv' /\ Installing' = Installing /\ Uninstalling' = Uninstalling
      /\ \A v : Left(v)' <=> Left(v)
      /\ repo' = repo /\ parts' = parts /\ script' = script /\ md' = md
      /\ finished' = finished /\ skipped' = skipped
      /\ phase' = phase /\ loaded' = loaded /\ existing' = existing
      /\ edits' \in 0..MaxEdits
      /\ PrecommitStatus' \/ ~PrecommitStatus => HeldInv'
  BY <1>1, UserStep
<1>3. /\ settings # Broken /\ settings' \in Entries
      /\ \A e \in Events : Grown(Load(settings)[e], Load(settings')[e])
  BY AddHookFacts DEF InstallersInv
<1>4. settings' # Broken /\ \A e \in Events : Load(settings')[e] \in Seq(SUBSET Commands)
  BY <1>3, LoadType DEF Loads, Entries
<1>5. ASSUME NEW e \in Events
      PROVE  /\ Where(Load(settings')[e], Ours) = {} <=> Where(Load(settings)[e], Ours) = {}
             /\ Lone(Load(settings)[e], Ours) => Lone(Load(settings')[e], Ours)
             /\ UserMentions(e) => UserMentions(e)'
             /\ UserMentions(e)' => HooksStatus(e)'
             /\ HooksStatus(e)' => HooksStatus(e) \/ UserMentions(e)'
  <2>1. /\ UserMentions(e)' <=> Mentions(Load(settings')[e])
        /\ UserMentions(e) <=> Mentions(Load(settings)[e])
    BY DEF UserMentions, Mentions
  <2>2. /\ HooksStatus(e)' <=> Where(Load(settings')[e], Lex) # {}
        /\ HooksStatus(e) <=> Where(Load(settings)[e], Lex) # {}
    BY DEF HooksStatus, AnyLex
  <2>3. Grown(Load(settings)[e], Load(settings')[e])
    BY <1>3
  <2> QED BY <1>4, <2>1, <2>2, <2>3, MentionIsLex DEF Grown
<1>6. InstallersTypeOK'
  BY <1>1, <1>2, <1>3 DEF InstallersInv, InstallersTypeOK, Entries
<1>7. BlockInv' /\ OursInv'
  BY <1>1, <1>2, <1>5 DEF InstallersInv, BlockInv, OursInv
<1>8. HooksInstalled => HooksInstalled'
  BY <1>2, <1>3, <1>5 DEF HooksInstalled
<1>9. HooksRemoved => HooksRemoved'
  BY <1>5 DEF HooksRemoved
<1>10. PrecommitReady' = PrecommitReady
  BY <1>1, <1>2 DEF PrecommitReady, PrecommitStatus, MentionsMarker
<1>m. HeldInv' /\ ModeInv'
  <2>1. PrecommitStatus' = PrecommitStatus
    BY <1>1 DEF PrecommitStatus
  <2>2. HeldInv'
    BY <1>2, <2>1
  <2>3. ModeInv'
    BY <1>1, <1>2 DEF InstallersInv, ModeInv
  <2> QED BY <2>2, <2>3
<1>11. InitProgress'
  BY <1>2, <1>8, <1>10 DEF InstallersInv, InitProgress
<1>12. UninstallProgress'
  BY <1>1, <1>2, <1>9 DEF InstallersInv, UninstallProgress
<1>13. InitInstalls'
  BY <1>1, <1>2, <1>3, <1>5, <1>10 DEF InstallersInv, CommandsTakeEffect, InitInstalls,
                          PrecommitReady
<1>14. UninstallRemoves'
  BY <1>1, <1>2, <1>5 DEF InstallersInv, CommandsTakeEffect, UninstallRemoves
<1> QED BY <1>m, <1>2, <1>6, <1>7, <1>11, <1>12, <1>13, <1>14 DEF InstallersInv, CommandsTakeEffect

LEMMA BreakSettingsInv ==
  ASSUME InstallersInv, BreakSettings
  PROVE  InstallersInv'
<1>1. settings' = Broken /\ hook' = hook /\ executable' = executable /\ Edit
  BY DEF BreakSettings
<1>2. /\ TodoInv' /\ Installing' = Installing /\ Uninstalling' = Uninstalling
      /\ \A v : Left(v)' <=> Left(v)
      /\ repo' = repo /\ parts' = parts /\ script' = script /\ md' = md
      /\ finished' = finished /\ skipped' = skipped
      /\ phase' = phase /\ loaded' = loaded /\ existing' = existing
      /\ edits' \in 0..MaxEdits
      /\ PrecommitStatus' \/ ~PrecommitStatus => HeldInv'
  BY <1>1, UserStep
<1>3. \A e \in Events : Load(settings')[e] = <<>> /\ \A S : Where(<<>>, S) = {}
  BY <1>1, EmptyFiles
<1>4. InstallersTypeOK'
  BY <1>1, <1>2 DEF InstallersInv, InstallersTypeOK
<1>5. BlockInv' /\ OursInv'
  BY <1>1, <1>2, <1>3 DEF InstallersInv, BlockInv, OursInv, Lone
<1>6. HooksInstalled'
  BY <1>1 DEF HooksInstalled
<1>7. HooksRemoved'
  BY <1>3 DEF HooksRemoved, HooksStatus, AnyLex
<1>8. PrecommitReady' = PrecommitReady
  BY <1>1, <1>2 DEF PrecommitReady, PrecommitStatus, MentionsMarker
<1>m. HeldInv' /\ ModeInv'
  <2>1. PrecommitStatus' = PrecommitStatus
    BY <1>1 DEF PrecommitStatus
  <2>2. HeldInv'
    BY <1>2, <2>1
  <2>3. ModeInv'
    BY <1>1, <1>2 DEF InstallersInv, ModeInv
  <2> QED BY <2>2, <2>3
<1>9. InitProgress'
  BY <1>2, <1>6, <1>8 DEF InstallersInv, InitProgress
<1>10. UninstallProgress'
  BY <1>1, <1>2, <1>7 DEF InstallersInv, UninstallProgress
<1>11. InitInstalls'
  BY <1>1, <1>2, <1>8 DEF InstallersInv, CommandsTakeEffect, InitInstalls,
                          PrecommitReady
<1>12. UninstallRemoves'
  BY <1>1, <1>2, <1>7 DEF InstallersInv, CommandsTakeEffect, UninstallRemoves, HooksRemoved
<1> QED BY <1>m, <1>2, <1>4, <1>5, <1>9, <1>10, <1>11, <1>12 DEF InstallersInv, CommandsTakeEffect

LEMMA StutterInv ==
  ASSUME InstallersInv, UNCHANGED vars
  PROVE  InstallersInv'
<1>1. /\ UNCHANGED <<repo, fileVars, todo, parts, finished, skipped, edits>>
      /\ phase' = phase /\ loaded' = loaded /\ existing' = existing
  BY DEF vars, heldVars
<1>2. todo' = todo /\ repo' = repo /\ hook' = hook
  BY <1>1 DEF fileVars
<1>3. HeldInv'
  BY <1>1, <1>2 DEF InstallersInv, HeldInv, Doing, PrecommitStatus
<1> QED BY <1>1, <1>3, SameFiles DEF InstallersInv, InstallersTypeOK

-----------------------------------------------------------------------------
(* The theorems.                                                           *)

\* Whatever a command has done so far, however the last one ended and
\* whatever the user has added, the files are as the writes left say.
THEOREM InstallersInvariant == Spec => []InstallersInv
<1>1. ASSUME InstallersInv, [Next]_vars PROVE InstallersInv'
  BY <1>1, BeginInitInv, BeginUninstallInv, WriteScriptInv, ReadSettingsInv, SaveInstalledInv,
     SaveRemovedInv, UnlinkScriptInv, InstallMdInv, MkdirRaisesInv, KeepPrecommitInv,
     ReadPrecommitInv, WritePrecommitInv, ChmodPrecommitInv, DropPrecommitInv, FinishInv, DieInv,
     AppendLineInv, AddHookInv, BreakSettingsInv, StutterInv DEF Next
<1> QED BY <1>1, InitInv, PTL DEF Spec

\* The files hold what the installers and the user can put there.
THEOREM InstallersTypes == Spec => []InstallersTypeOK
<1>1. InstallersInv => InstallersTypeOK
  BY DEF InstallersInv
<1> QED BY <1>1, InstallersInvariant, PTL

\* Each event has one entry of ours and the pre-commit hook one block, and
\* neither is without what it runs, also after a command that died half-way:
\* the block is whole in every state, and the script goes after the entries.
THEOREM InstallsAreWhole == Spec => []InstalledWhole
<1>1. InstallersInv => InstalledOnce
  BY DEF InstallersInv, OursInv, BlockInv, BlockIsWhole, InstalledOnce
<1>2. InstallersInv => NothingDangles
  BY DEF InstallersInv, OursInv, BlockInv, BlockIsWhole, NothingDangles, PrecommitStatus, HasBlock
<1> QED BY <1>1, <1>2, InstallersInvariant, PTL DEF InstalledWhole

\* A command that ran to its end has installed or removed all it reports,
\* whatever the user has edited before, between and since, but for the stated
\* exceptions: what passes for ours, and a chmod that never came.
THEOREM CommandsDoTheirWork == Spec => []CommandsTakeEffect
<1>1. InstallersInv => CommandsTakeEffect
  BY DEF InstallersInv
<1> QED BY <1>1, InstallersInvariant, PTL

\* A command keeps the lines and the entries that are the user's alone; those
\* that pass for the block, and those saved while it held the file, excepted.
THEOREM EditsAreKept == Spec => UserEditsSurvive
<1> DEFINE LinesKept ==
      \/ UserLines(hook') = UserLines(hook)
      \/ /\ phase = "read" /\ hook # existing
         /\ UserLines(hook') = UserLines(existing)
      \/ phase = "read" /\ Doing("remove precommit") /\ Glued(existing)
           EntriesKept ==
      settings # Broken =>
        \A e \in Events :
          LET new == Only(Load(settings')[e], NotLex)
          IN  \/ new = Only(Load(settings)[e], NotLex)
              \/ /\ phase = "read" /\ Load(settings) # loaded
                 /\ new = Only(loaded[e], NotLex)
<1>1. ASSUME InstallersInv, [Next]_vars, edits' = edits, ~Die PROVE LinesKept /\ EntriesKept
  <2>1. CASE hook' = hook /\ settings' = settings
    BY <2>1
  <2>2. CASE SaveInstalled \/ SaveRemoved
    <3>1. loaded \in Entries
      BY <1>1 DEF InstallersInv, InstallersTypeOK, Entries
    <3>2. /\ hook' = hook /\ phase = "read"
          /\ settings' = InstallHooks(loaded) \/ settings' = RemoveHooks(loaded)
      BY <2>2 DEF SaveInstalled, SaveRemoved
    <3>3. settings' \in Entries
      BY <3>1, <3>2, InstallHooksFacts, RemoveHooksFacts
    <3>4. Load(settings') = settings'
      BY <3>3, LoadType
    <3>5. \A e \in Events : Only(settings'[e], NotLex) = Only(loaded[e], NotLex)
      BY <3>1, <3>2, InstallHooksFacts, RemoveHooksFacts
    <3>6. EntriesKept
      BY <3>2, <3>4, <3>5
    <3> QED BY <3>2, <3>6
  <2>3. CASE WritePrecommit
    <3>1. settings' = settings /\ hook' = InstallPrecommit(existing) /\ phase = "read"
      BY <2>3 DEF WritePrecommit
    <3>2. /\ existing = Absent \/ existing \in Seq(Lines)
          /\ existing # Absent => BlockIsWhole(existing)
      BY <1>1 DEF InstallersInv, InstallersTypeOK, HeldInv
    <3>3. UserLines(hook') = UserLines(existing)
      BY <3>1, <3>2, InstallPrecommitFacts
    <3> QED BY <3>1, <3>3
  <2>4. CASE DropPrecommit
    <3>1. /\ settings' = settings /\ hook' = RemovePrecommit(existing)
          /\ Doing("remove precommit") /\ phase = "read"
      BY <2>4 DEF DropPrecommit
    <3>2. ~Glued(existing) => UserLines(hook') = UserLines(existing)
      <4>1. CASE existing = Absent
        BY <3>1, <4>1 DEF RemovePrecommit, HasBlock
      <4>2. CASE existing # Absent
        <5>1. existing \in Seq(Lines) /\ BlockIsWhole(existing)
          BY <1>1, <4>2 DEF InstallersInv, InstallersTypeOK, HeldInv
        <5> QED BY <3>1, <5>1, RemovePrecommitFacts
      <4> QED BY <4>1, <4>2
    <3> QED BY <3>1, <3>2
  <2>5. ~Edit
    <3>1. edits \in Nat
      BY <1>1, InstallersAssumption DEF InstallersInv, InstallersTypeOK, InstallersAssumption
    <3>2. edits' # edits + 1
      BY <1>1, <3>1
    <3> QED BY <3>2 DEF Edit
  <2>6. BeginInit \/ BeginUninstall => hook' = hook /\ settings' = settings
    BY DEF BeginInit, BeginUninstall, Begin, fileVars
  <2>7. WriteScript \/ UnlinkScript \/ InstallMd \/ Finish => hook' = hook /\ settings' = settings
    BY DEF WriteScript, UnlinkScript, InstallMd, Finish, fileVars
  <2>8. UNCHANGED vars => hook' = hook /\ settings' = settings
    BY DEF vars, fileVars
  <2>9. ~AppendLine /\ ~AddHook /\ ~BreakSettings
    BY <2>5 DEF AppendLine, AddHook, BreakSettings
  <2>10. ReadSettings \/ MkdirRaises \/ KeepPrecommit \/ ReadPrecommit \/ ChmodPrecommit =>
           hook' = hook /\ settings' = settings
    BY DEF ReadSettings, MkdirRaises, KeepPrecommit, ReadPrecommit, ChmodPrecommit, fileVars
  <2> HIDE DEF LinesKept, EntriesKept
  <2> QED BY <1>1, <2>1, <2>2, <2>3, <2>4, <2>6, <2>7, <2>8, <2>9, <2>10 DEF Next
<1>2. InstallersInv /\ [Next]_vars => [edits' = edits /\ ~Die => LinesKept /\ EntriesKept]_vars
  BY <1>1
<1> QED BY <1>2, InstallersInvariant, PTL DEF Spec, UserEditsSurvive

=============================================================================
