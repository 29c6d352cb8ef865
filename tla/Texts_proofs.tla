---------------------------- MODULE Texts_proofs ----------------------------
(***************************************************************************)
(* Sequences that a loop puts together: concatenation, FlattenSeq, and the  *)
(* concatenation of what a function makes of each member (Mapped).         *)
(***************************************************************************)
EXTENDS Integers, SequencesExt, WellFoundedInduction, SequenceTheorems, TLAPS

-----------------------------------------------------------------------------
(* Induction. The theorems of the library that have a predicate for a        *)
(* parameter say of a set what follows from WFMin.                          *)

(* A set of natural numbers has a least one. *)
LEMMA LeastNat ==
  ASSUME NEW T \in SUBSET Nat, T # {}
  PROVE  \E x \in T : \A y \in T : x <= y
<1> DEFINE less == {ss \in Nat \X Nat : ss[1] < ss[2]}
<1>1. IsWellFoundedOn(less, Nat)
  BY NatLessThanWellFounded DEF OpToRel
<1>2. \A x, y \in Nat : <<x, y>> \in less <=> x < y
  OBVIOUS
<1> HIDE DEF less
<1>3. PICK x \in T : \A y \in T : ~(<<y, x>> \in less)
  BY <1>1, WFMin
<1>4. x \in Nat /\ \A y \in T : y \in Nat /\ ~(y < x)
  <2>1. x \in Nat /\ \A y \in T : y \in Nat
    OBVIOUS
  <2> QED BY <1>2, <1>3, <2>1
<1> QED BY <1>4

(* Induction, with a set for the predicate. *)
LEMMA SetInduction ==
  ASSUME NEW S, 0 \in S, \A n \in Nat : n \in S => n + 1 \in S
  PROVE  Nat \subseteq S
<1> SUFFICES ASSUME Nat \ S # {} PROVE FALSE
  OBVIOUS
<1>1. PICK x \in Nat \ S : \A y \in Nat \ S : x <= y
  BY LeastNat
<1>2. x # 0 /\ x - 1 \in Nat
  BY <1>1
<1>3. x - 1 \in S
  BY <1>1, <1>2
<1> QED BY <1>1, <1>2, <1>3

(* A function on 0..n defined by recursion. *)
Recursion(V, base, n, h, f) ==
  /\ f \in [0..n -> V]
  /\ f[0] = base
  /\ \A i \in 1..n : f[i] = h[i][f[i - 1]]

(* There is one. *)
LEMMA PrefixRecursion ==
  ASSUME NEW V, NEW base \in V, NEW n \in Nat, NEW h,
         \A i \in 1..n : \A v \in V : h[i][v] \in V
  PROVE  \E f : Recursion(V, base, n, h, f)
<1> DEFINE Goal(m) == \E f \in [0..m -> V] : f[0] = base /\ \A i \in 1..m : f[i] = h[i][f[i - 1]]
           S == {m \in Nat : m <= n => Goal(m)}
<1>1. Goal(0)
  <2> WITNESS [i \in 0..0 |-> base] \in [0..0 -> V]
  <2> QED OBVIOUS
<1>2. ASSUME NEW m \in Nat, m + 1 <= n, Goal(m) PROVE Goal(m + 1)
  <2>1. PICK f \in [0..m -> V] : f[0] = base /\ \A i \in 1..m : f[i] = h[i][f[i - 1]]
    BY <1>2
  <2> DEFINE g == [i \in 0..(m + 1) |-> IF i = m + 1 THEN h[m + 1][f[m]] ELSE f[i]]
  <2>2. h[m + 1][f[m]] \in V
    <3>1. m + 1 \in 1..n /\ f[m] \in V
      BY <1>2
    <3> QED BY <3>1
  <2>3. g \in [0..(m + 1) -> V]
    BY <2>2
  <2>4. g[0] = base /\ \A i \in 1..(m + 1) : g[i] = h[i][g[i - 1]]
    BY <2>1
  <2> QED BY <2>3, <2>4
<1> HIDE DEF Goal
<1>3. 0 \in S /\ \A m \in Nat : m \in S => m + 1 \in S
  BY <1>1, <1>2
<1> HIDE DEF S
<1>4. n \in S
  BY <1>3, SetInduction
<1>5. Goal(n)
  BY <1>4 DEF S
<1> QED BY <1>5 DEF Goal, Recursion

-----------------------------------------------------------------------------
(* Sequences. Concatenation has a name here, for the provers not to look     *)
(* into it.                                                                *)
Cat(s, t) == s \o t

(* The type of a concatenation ... *)
LEMMA CatType ==
  ASSUME NEW S, NEW s \in Seq(S), NEW t \in Seq(S)
  PROVE  Cat(s, t) \in Seq(S)
BY ConcatProperties, Zenon DEF Cat

(* ... its length ... *)
LEMMA CatLen ==
  ASSUME NEW S, NEW s \in Seq(S), NEW t \in Seq(S)
  PROVE  Len(Cat(s, t)) = Len(s) + Len(t)
BY ConcatProperties, Zenon DEF Cat

(* ... and its members: *)
LEMMA CatMembers ==
  ASSUME NEW S, NEW s \in Seq(S), NEW t \in Seq(S), NEW i \in 1..(Len(s) + Len(t))
  PROVE  Cat(s, t)[i] = IF i <= Len(s) THEN s[i] ELSE t[i - Len(s)]
BY ConcatProperties, Zenon DEF Cat

(* first those of the left sequence, *)
LEMMA CatLeft ==
  ASSUME NEW S, NEW s \in Seq(S), NEW t \in Seq(S), NEW i \in 1..Len(s)
  PROVE  Cat(s, t)[i] = s[i]
<1>1. Len(s) \in Nat /\ Len(t) \in Nat
  BY LenProperties
<1>2. i \in 1..(Len(s) + Len(t)) /\ i <= Len(s)
  BY <1>1
<1> QED BY <1>2, CatMembers, Zenon

(* then those of the right one. *)
LEMMA CatRight ==
  ASSUME NEW S, NEW s \in Seq(S), NEW t \in Seq(S), NEW i \in 1..Len(t)
  PROVE  Cat(s, t)[Len(s) + i] = t[i]
<1>1. PICK m \in Nat : m = Len(s)
  BY LenProperties, Zenon
<1>2. PICK n \in Nat : n = Len(t)
  BY LenProperties, Zenon
<1>3. i \in 1..n
  BY <1>2, Zenon
<1>4. m + i \in 1..(m + n) /\ ~(m + i <= m) /\ (m + i) - m = i
  BY <1>3
<1>5. Cat(s, t)[m + i] = t[(m + i) - m]
  BY <1>1, <1>2, <1>4, CatMembers, Zenon
<1> QED BY <1>1, <1>4, <1>5, Zenon

(* The same, of a right one that begins behind n. *)
LEMMA CatBehind ==
  ASSUME NEW S, NEW s \in Seq(S), NEW t \in Seq(S), NEW n, n = Len(s)
  PROVE  \A i \in 1..Len(t) : Cat(s, t)[n + i] = t[i]
<1>1. \A i \in 1..Len(t) : Cat(s, t)[Len(s) + i] = t[i]
  BY CatRight, Zenon
<1> QED BY <1>1, Zenon

(* The empty sequence is neutral. *)
LEMMA CatEmpty ==
  ASSUME NEW S, NEW s \in Seq(S)
  PROVE  Cat(s, <<>>) = s /\ Cat(<<>>, s) = s
BY ConcatEmptySeq, Zenon DEF Cat

(* Concatenation is associative. *)
LEMMA CatAssociative ==
  ASSUME NEW S, NEW s \in Seq(S), NEW t \in Seq(S), NEW u \in Seq(S)
  PROVE  Cat(Cat(s, t), u) = Cat(s, Cat(t, u))
BY DEF Cat

(* A sequence of one member. *)
LEMMA OneType ==
  ASSUME NEW S, NEW x \in S
  PROVE  <<x>> \in Seq(S) /\ Len(<<x>>) = 1 /\ <<x>>[1] = x
OBVIOUS

(* A sequence of two members ... *)
LEMMA TwoType ==
  ASSUME NEW S, NEW x \in S, NEW y \in S
  PROVE  <<x, y>> \in Seq(S) /\ Len(<<x, y>>) = 2 /\ <<x, y>>[1] = x /\ <<x, y>>[2] = y
OBVIOUS

(* ... is put together of two. *)
LEMMA CatOfTwo ==
  ASSUME NEW S, NEW x \in S, NEW y \in S
  PROVE  Cat(<<x>>, <<y>>) = <<x, y>>
<1>1. PICK a \in Seq(S) : a = <<x>> /\ Len(a) = 1 /\ a[1] = x
  BY OneType, Zenon
<1>2. PICK b \in Seq(S) : b = <<y>> /\ Len(b) = 1 /\ b[1] = y
  BY OneType, Zenon
<1>3. PICK p \in Seq(S) : p = <<x, y>>
  <2>1. <<x, y>> \in Seq(S)
    OBVIOUS
  <2> QED BY <2>1, Zenon
<1>4. Len(p) = 2 /\ p[1] = x /\ p[2] = y
  BY <1>3
<1>5. PICK u \in Seq(S) : u = Cat(a, b)
  BY CatType, Zenon
<1>6. Len(u) = Len(a) + Len(b)
  BY <1>5, CatLen
<1>7. \A i \in 1..Len(a) : u[i] = a[i]
  BY <1>5, CatLeft
<1>8. \A i \in 1..Len(b) : u[Len(a) + i] = b[i]
  BY <1>5, CatRight
<1>9. Len(u) = 2 /\ u[1] = x /\ u[2] = y
  <2>1. PICK i \in Nat : i = Len(a) /\ i = 1
    BY <1>1
  <2>2. PICK j \in Nat : j = Len(b) /\ j = 1
    BY <1>2
  <2>3. 1 \in 1..i /\ 1 \in 1..j /\ i + j = 2 /\ i + 1 = 2
    BY <2>1, <2>2
  <2>4. u[1] = a[1] /\ u[i + 1] = b[1]
    BY <1>7, <1>8, <2>1, <2>2, <2>3, Zenon
  <2> QED BY <1>1, <1>2, <1>6, <2>1, <2>2, <2>3, <2>4, Zenon
<1>10. u = p
  BY <1>4, <1>9, SeqEqual
<1> QED BY <1>1, <1>2, <1>3, <1>5, <1>10, Zenon

(* A member put at the end, told from the members. *)
LEMMA LastMember ==
  ASSUME NEW S, NEW s \in Seq(S), NEW t \in Seq(S), NEW x \in S,
         NEW n \in Nat, Len(s) = n, Len(t) = n + 1, t[n + 1] = x, \A i \in 1..n : t[i] = s[i]
  PROVE  t = Cat(s, <<x>>)
<1>1. PICK o \in Seq(S) : o = <<x>> /\ Len(o) = 1 /\ o[1] = x
  BY OneType, Zenon
<1>2. PICK u \in Seq(S) : u = Cat(s, o)
  BY CatType, Zenon
<1>3. Len(u) = Len(s) + Len(o)
  BY <1>2, CatLen
<1>4. \A i \in 1..Len(s) : u[i] = s[i]
  BY <1>2, CatLeft
<1>5. \A i \in 1..Len(o) : u[n + i] = o[i]
  BY <1>2, CatBehind
<1>6. Len(u) = n + 1 /\ \A i \in 1..n : u[i] = s[i]
  BY <1>1, <1>3, <1>4, Zenon
<1>7. u[n + 1] = x
  <2>1. 1 \in 1..Len(o)
    BY <1>1
  <2> QED BY <1>1, <1>5, <2>1, Zenon
<1>8. ASSUME NEW i \in 1..(n + 1) PROVE t[i] = u[i]
  <2>1. i \in 1..n \/ i = n + 1
    OBVIOUS
  <2> QED BY <1>6, <1>7, <2>1, Zenon
<1>9. t = u
  BY <1>6, <1>8, SeqEqual
<1> QED BY <1>1, <1>2, <1>9, Zenon

(* A function on 1..n is a sequence of n. *)
LEMMA FunctionIsSeq ==
  ASSUME NEW V, NEW n \in Nat, NEW f \in [1..n -> V]
  PROVE  f \in Seq(V) /\ Len(f) = n
<1>1. f \in Seq(V)
  BY SeqDef, Zenon
<1>2. f \in [1..Len(f) -> V] /\ Len(f) \in Nat
  BY <1>1, LenProperties, Zenon
<1>3. Len(f) = n
  BY <1>2
<1> QED BY <1>1, <1>3

(* A member put at the end. *)
LEMMA AppendCat ==
  ASSUME NEW S, NEW s \in Seq(S), NEW x \in S
  PROVE  Append(s, x) = Cat(s, <<x>>)
BY AppendIsConcat, Zenon DEF Cat

(* What is no empty sequence has a last member ... *)
LEMMA SplitLast ==
  ASSUME NEW S, NEW s \in Seq(S), s # <<>>
  PROVE  \E t \in Seq(S), x \in S : s = Cat(t, <<x>>) /\ Len(s) = Len(t) + 1
<1>1. PICK t \in Seq(S), x \in S : s = Append(t, x)
  BY SequenceEmptyOrAppend
<1>2. Len(Append(t, x)) = Len(t) + 1
  BY AppendProperties
<1>3. s = Cat(t, <<x>>)
  BY <1>1, AppendCat, Zenon
<1> QED BY <1>1, <1>2, <1>3, Zenon

(* ... and a first one. *)
LEMMA SplitFirst ==
  ASSUME NEW S, NEW s \in Seq(S), s # <<>>
  PROVE  \E x \in S, t \in Seq(S) : s = Cat(<<x>>, t) /\ Len(s) = Len(t) + 1
<1>1. /\ Head(s) \in S /\ Tail(s) \in Seq(S) /\ Len(Tail(s)) = Len(s) - 1
      /\ \A i \in 1 .. Len(Tail(s)) : Tail(s)[i] = s[i + 1]
  BY HeadTailProperties
<1>2. PICK x \in S : x = Head(s)
  BY <1>1, Zenon
<1>3. PICK t \in Seq(S) : t = Tail(s)
  BY <1>1, Zenon
<1>4. Len(s) \in Nat /\ Len(s) # 0
  BY EmptySeq, LenProperties
<1>5. Len(t) = Len(s) - 1 /\ \A i \in 1 .. Len(t) : t[i] = s[i + 1]
  BY <1>1, <1>3, Zenon
<1>6. x = s[1]
  BY <1>2
<1>7. PICK o \in Seq(S) : o = <<x>>
  BY OneType, Zenon
<1>8. Len(o) = 1 /\ o[1] = x
  BY <1>7
<1>9. PICK u \in Seq(S) : u = Cat(o, t)
  BY CatType, Zenon
<1>10. Len(u) = Len(o) + Len(t)
  BY <1>9, CatLen
<1>11. \A i \in 1..Len(o) : u[i] = o[i]
  BY <1>9, CatLeft
<1>12. \A i \in 1..Len(t) : u[Len(o) + i] = t[i]
  BY <1>9, CatRight
<1>13. Len(u) = Len(s)
  BY <1>4, <1>5, <1>8, <1>10
<1>14. ASSUME NEW i \in 1..Len(u) PROVE u[i] = s[i]
  <2>1. CASE i = 1
    BY <1>6, <1>8, <1>11, <2>1
  <2>2. CASE i # 1
    <3>1. i - 1 \in 1..Len(t) /\ i = 1 + (i - 1)
      BY <1>4, <1>5, <1>13, <2>2
    <3>2. u[1 + (i - 1)] = t[i - 1] /\ t[i - 1] = s[(i - 1) + 1]
      BY <1>5, <1>8, <1>12, <3>1
    <3> QED BY <3>1, <3>2
  <2> QED BY <2>1, <2>2
<1>15. u = s
  BY <1>13, <1>14, SeqEqual
<1>16. Len(s) = Len(t) + 1
  BY <1>4, <1>5
<1> QED BY <1>7, <1>9, <1>15, <1>16, Zenon

(* Induction over sequences, for a set of them: from the end ... *)
LEMMA InductionLast ==
  ASSUME NEW S, NEW P, <<>> \in P,
         \A s \in Seq(S) : \A x \in S : s \in P => Cat(s, <<x>>) \in P
  PROVE  Seq(S) \subseteq P
<1> DEFINE A == {n \in Nat : \A s \in Seq(S) : Len(s) = n => s \in P}
<1>1. 0 \in A
  <2>1. \A s \in Seq(S) : Len(s) = 0 => s = <<>>
    BY EmptySeq
  <2> QED BY <2>1
<1>2. ASSUME NEW n \in Nat, n \in A PROVE n + 1 \in A
  <2> SUFFICES ASSUME NEW s \in Seq(S), Len(s) = n + 1 PROVE s \in P
    OBVIOUS
  <2>1. s # <<>>
    BY EmptySeq
  <2>2. PICK t \in Seq(S), x \in S : s = Cat(t, <<x>>) /\ Len(s) = Len(t) + 1
    BY <2>1, SplitLast
  <2>3. Len(t) \in Nat
    BY LenProperties
  <2>4. Len(t) = n
    BY <2>2, <2>3
  <2>5. t \in P
    BY <1>2, <2>4
  <2> QED BY <2>2, <2>5, Zenon
<1> HIDE DEF A
<1>3. Nat \subseteq A
  BY <1>1, <1>2, SetInduction
<1>4. ASSUME NEW s \in Seq(S) PROVE s \in P
  <2>1. Len(s) \in A
    BY <1>3, LenProperties
  <2> QED BY <2>1 DEF A
<1> QED BY <1>4

(* ... and from the front. *)
LEMMA InductionFirst ==
  ASSUME NEW S, NEW P, <<>> \in P,
         \A s \in Seq(S) : \A x \in S : s \in P => Cat(<<x>>, s) \in P
  PROVE  Seq(S) \subseteq P
<1> DEFINE A == {n \in Nat : \A s \in Seq(S) : Len(s) = n => s \in P}
<1>1. 0 \in A
  <2>1. \A s \in Seq(S) : Len(s) = 0 => s = <<>>
    BY EmptySeq
  <2> QED BY <2>1
<1>2. ASSUME NEW n \in Nat, n \in A PROVE n + 1 \in A
  <2> SUFFICES ASSUME NEW s \in Seq(S), Len(s) = n + 1 PROVE s \in P
    OBVIOUS
  <2>1. s # <<>>
    BY EmptySeq
  <2>2. PICK x \in S, t \in Seq(S) : s = Cat(<<x>>, t) /\ Len(s) = Len(t) + 1
    BY <2>1, SplitFirst
  <2>3. Len(t) \in Nat
    BY LenProperties
  <2>4. Len(t) = n
    BY <2>2, <2>3
  <2>5. t \in P
    BY <1>2, <2>4
  <2> QED BY <2>2, <2>5, Zenon
<1> HIDE DEF A
<1>3. Nat \subseteq A
  BY <1>1, <1>2, SetInduction
<1>4. ASSUME NEW s \in Seq(S) PROVE s \in P
  <2>1. Len(s) \in A
    BY <1>3, LenProperties
  <2> QED BY <2>1 DEF A
<1> QED BY <1>4

-----------------------------------------------------------------------------
(* The recursion of FlattenSeq. *)
Flattening(n, seqs, f) ==
  /\ Len(seqs) = n
  /\ f[1] = seqs[1]
  /\ \A i \in 2..n : f[i] = Cat(f[i - 1], seqs[i])

(* It is solved by FlattenSeq only. *)
LEMMA FlattenSolves ==
  ASSUME NEW n \in Nat \ {0}, NEW seqs, NEW f, Flattening(n, seqs, f)
  PROVE  FlattenSeq(seqs) = f[n]
<1> USE DEF Flattening
<1> DEFINE F(g) == [i \in 1..n |-> IF i = 1 THEN seqs[i] ELSE Cat(g[i - 1], seqs[i])]
           flatten == CHOOSE g : g = F(g)
           e == [i \in 1..n |-> f[i]]
<1>1. e = F(e)
  OBVIOUS
<1>2. flatten = F(flatten)
  BY <1>1
<1>3. \A i \in 1..n : flatten[i] = IF i = 1 THEN seqs[i] ELSE Cat(flatten[i - 1], seqs[i])
  BY <1>2
<1>4. FlattenSeq(seqs) = flatten[n]
  <2>1. n # 0 /\ Len(seqs) = n
    OBVIOUS
  <2> QED BY <2>1, Zenon DEF FlattenSeq, Cat
<1> HIDE DEF flatten, F
<1> DEFINE A == {m \in Nat : m + 1 <= n => flatten[m + 1] = f[m + 1]}
<1>5. 0 \in A
  BY <1>3
<1>6. ASSUME NEW m \in Nat, m \in A PROVE m + 1 \in A
  <2> SUFFICES ASSUME m + 2 <= n PROVE flatten[m + 2] = f[m + 2]
    OBVIOUS
  <2>1. m + 2 \in 2..n /\ m + 2 \in 1..n /\ m + 2 # 1 /\ (m + 2) - 1 = m + 1
    OBVIOUS
  <2>2. flatten[m + 1] = f[m + 1]
    BY <1>6
  <2>3. flatten[m + 2] = Cat(flatten[m + 1], seqs[m + 2])
    BY <1>3, <2>1
  <2>4. f[m + 2] = Cat(f[m + 1], seqs[m + 2])
    BY <2>1
  <2> QED BY <2>2, <2>3, <2>4
<1> HIDE DEF A
<1>7. Nat \subseteq A
  BY <1>5, <1>6, SetInduction
<1>8. n - 1 \in A /\ (n - 1) + 1 = n
  BY <1>7
<1> QED BY <1>4, <1>8 DEF A

(* What flattening needs of the sequences it puts together. *)
Monoid(V) ==
  /\ <<>> \in V
  /\ \A s, t \in V : Cat(s, t) \in V
  /\ \A s \in V : Cat(<<>>, s) = s /\ Cat(s, <<>>) = s
  /\ \A s, t, u \in V : Cat(Cat(s, t), u) = Cat(s, Cat(t, u))

(* Sequences are like that. *)
LEMMA SeqMonoid ==
  ASSUME NEW S
  PROVE  Monoid(Seq(S))
<1>1. <<>> \in Seq(S)
  BY EmptySeq
<1>2. \A s, t \in Seq(S) : Cat(s, t) \in Seq(S)
  BY CatType
<1>3. \A s \in Seq(S) : Cat(<<>>, s) = s /\ Cat(s, <<>>) = s
  BY CatEmpty, Zenon
<1>4. \A s, t, u \in Seq(S) : Cat(Cat(s, t), u) = Cat(s, Cat(t, u))
  BY CatAssociative
<1> QED BY <1>1, <1>2, <1>3, <1>4, Zenon DEF Monoid

(* The partial results of flattening. *)
LEMMA FlattenSteps ==
  ASSUME NEW V, Monoid(V), NEW n \in Nat, NEW seqs \in [1..n -> V]
  PROVE  \E f \in [0..n -> V] :
           f[0] = <<>> /\ \A i \in 1..n : f[i] = Cat(f[i - 1], seqs[i])
<1>1. PICK e \in V : e = <<>>
  BY Zenon DEF Monoid
<1>2. \A s, t \in V : Cat(s, t) \in V
  BY Zenon DEF Monoid
<1> DEFINE h == [i \in 1..n |-> [v \in V |-> Cat(v, seqs[i])]]
<1>3. \A i \in 1..n : \A v \in V : h[i][v] = Cat(v, seqs[i])
  OBVIOUS
<1>4. \A i \in 1..n : \A v \in V : h[i][v] \in V
  BY <1>2
<1> HIDE DEF h
<1>5. PICK f : Recursion(V, e, n, h, f)
  BY <1>4, PrefixRecursion
<1>6. f \in [0..n -> V] /\ f[0] = e /\ \A i \in 1..n : f[i] = h[i][f[i - 1]]
  BY <1>5, Zenon DEF Recursion
<1>7. ASSUME NEW i \in 1..n PROVE f[i] = Cat(f[i - 1], seqs[i])
  <2>1. i - 1 \in 0..n
    OBVIOUS
  <2>2. f[i - 1] \in V
    BY <1>6, <2>1
  <2> QED BY <1>3, <1>6, <2>2, Zenon
<1> QED BY <1>1, <1>6, <1>7, Zenon

(* And the last of them is the whole. *)
LEMMA FlattenFunction ==
  ASSUME NEW V, Monoid(V), NEW n \in Nat, NEW seqs \in [1..n -> V], Len(seqs) = n,
         NEW f \in [0..n -> V],
         f[0] = <<>>, \A i \in 1..n : f[i] = Cat(f[i - 1], seqs[i])
  PROVE  FlattenSeq(seqs) = f[n]
<1>1. CASE n = 0
  <2>1. seqs = <<>>
    BY <1>1
  <2>2. FlattenSeq(<<>>) = <<>>
    BY DEF FlattenSeq
  <2> QED BY <1>1, <2>1, <2>2, Zenon
<1>2. CASE n # 0
  <2>1. 1 \in 1..n /\ 1 - 1 = 0 /\ n \in Nat \ {0}
    BY <1>2
  <2>2. seqs[1] \in V
    BY <2>1
  <2>3. f[1] = Cat(f[0], seqs[1])
    BY <2>1, Zenon
  <2>4. f[1] = seqs[1]
    BY <2>2, <2>3, Zenon DEF Monoid
  <2>5. \A i \in 2..n : i \in 1..n
    OBVIOUS
  <2>6. \A i \in 2..n : f[i] = Cat(f[i - 1], seqs[i])
    BY <2>5, Zenon
  <2>7. Flattening(n, seqs, f)
    BY <2>4, <2>6, Zenon DEF Flattening
  <2> QED BY <2>1, <2>7, FlattenSolves, Zenon
<1> QED BY <1>1, <1>2

(* Nothing is flattened to nothing. *)
LEMMA FlattenEmpty == FlattenSeq(<<>>) = <<>>
BY DEF FlattenSeq

(* What is flattened is a sequence again. *)
LEMMA FlattenType ==
  ASSUME NEW V, Monoid(V), NEW seqs \in Seq(V)
  PROVE  FlattenSeq(seqs) \in V
<1>1. PICK n \in Nat : n = Len(seqs) /\ seqs \in [1..n -> V]
  BY LenProperties, Zenon
<1>2. PICK f \in [0..n -> V] :
        f[0] = <<>> /\ \A i \in 1..n : f[i] = Cat(f[i - 1], seqs[i])
  BY <1>1, FlattenSteps
<1>3. FlattenSeq(seqs) = f[n]
  BY <1>1, <1>2, FlattenFunction, Zenon
<1>4. n \in 0..n
  OBVIOUS
<1> QED BY <1>3, <1>4

(* Flattening one sequence more. *)
LEMMA FlattenExtended ==
  ASSUME NEW V, Monoid(V), NEW n \in Nat, NEW seqs \in [1..n -> V], Len(seqs) = n,
         NEW t \in V, NEW more \in [1..(n + 1) -> V], Len(more) = n + 1,
         more[n + 1] = t, \A i \in 1..n : more[i] = seqs[i]
  PROVE  FlattenSeq(more) = Cat(FlattenSeq(seqs), t)
<1>1. PICK f \in [0..n -> V] :
        f[0] = <<>> /\ \A i \in 1..n : f[i] = Cat(f[i - 1], seqs[i])
  BY FlattenSteps
<1>2. FlattenSeq(seqs) = f[n]
  BY <1>1, FlattenFunction, Zenon
<1>3. Cat(f[n], t) \in V
  <2>1. f[n] \in V
    OBVIOUS
  <2> QED BY <2>1, Zenon DEF Monoid
<1> DEFINE g == [i \in 0..(n + 1) |-> IF i = n + 1 THEN Cat(f[n], t) ELSE f[i]]
<1>4. g \in [0..(n + 1) -> V]
  BY <1>3
<1>5. g[0] = f[0] /\ g[n + 1] = Cat(f[n], t) /\ \A i \in 0..n : g[i] = f[i]
  OBVIOUS
<1> HIDE DEF g
<1>6. ASSUME NEW i \in 1..(n + 1) PROVE g[i] = Cat(g[i - 1], more[i])
  <2>1. CASE i = n + 1
    BY <1>5, <2>1
  <2>2. CASE i # n + 1
    <3>1. i \in 1..n /\ i - 1 \in 0..n /\ i \in 0..n
      BY <2>2
    <3>2. f[i] = Cat(f[i - 1], seqs[i])
      BY <1>1, <3>1, Zenon
    <3> QED BY <1>5, <3>1, <3>2
  <2> QED BY <2>1, <2>2
<1>7. FlattenSeq(more) = g[n + 1]
  <2>1. n + 1 \in Nat
    OBVIOUS
  <2>2. g[0] = <<>>
    BY <1>1, <1>5, Zenon
  <2> QED BY <1>4, <1>6, <2>1, <2>2, FlattenFunction
<1> QED BY <1>2, <1>5, <1>7, Zenon

(* Flattening one sequence more at the end. *)
LEMMA FlattenLast ==
  ASSUME NEW V, Monoid(V), NEW seqs \in Seq(V), NEW t \in V
  PROVE  FlattenSeq(Cat(seqs, <<t>>)) = Cat(FlattenSeq(seqs), t)
<1>1. PICK n \in Nat : n = Len(seqs) /\ seqs \in [1..n -> V]
  BY LenProperties, Zenon
<1>2. PICK o : o = <<t>>
  BY Zenon
<1>3. o \in Seq(V) /\ Len(o) = 1 /\ o[1] = t
  BY <1>2, OneType, Zenon
<1>4. PICK more : more = Cat(seqs, o)
  BY Zenon
<1>5. more \in Seq(V)
  BY <1>3, <1>4, CatType, Zenon
<1>6. Len(more) = n + 1
  <2>1. Len(more) = Len(seqs) + Len(o)
    BY <1>3, <1>4, CatLen, Zenon
  <2> QED BY <1>1, <1>3, <2>1, Zenon
<1>7. more[n + 1] = t
  <2>1. 1 \in 1..Len(o)
    BY <1>3
  <2>2. more[Len(seqs) + 1] = o[1]
    BY <1>3, <1>4, <2>1, CatRight
  <2> QED BY <1>1, <1>3, <2>2, Zenon
<1>8. \A i \in 1..n : more[i] = seqs[i]
  BY <1>1, <1>3, <1>4, CatLeft, Zenon
<1>9. more \in [1..(n + 1) -> V]
  <2>1. more \in [1..Len(more) -> V]
    BY <1>5, LenProperties, Zenon
  <2> QED BY <1>6, <2>1, Zenon
<1>10. FlattenSeq(more) = Cat(FlattenSeq(seqs), t)
  BY <1>1, <1>6, <1>7, <1>8, <1>9, FlattenExtended
<1> QED BY <1>2, <1>4, <1>10, Zenon

(* Flattening distributes over concatenation. *)
LEMMA FlattenCat ==
  ASSUME NEW V, Monoid(V), NEW r \in Seq(V), NEW s \in Seq(V)
  PROVE  FlattenSeq(Cat(r, s)) = Cat(FlattenSeq(r), FlattenSeq(s))
<1> DEFINE P == {t \in Seq(V) : FlattenSeq(Cat(r, t)) = Cat(FlattenSeq(r), FlattenSeq(t))}
<1>1. FlattenSeq(r) \in V
  BY FlattenType, Zenon
<1>2. <<>> \in P
  <2>1. <<>> \in Seq(V) /\ Cat(r, <<>>) = r
    BY CatEmpty, EmptySeq, Zenon
  <2>2. Cat(FlattenSeq(r), <<>>) = FlattenSeq(r)
    BY <1>1, Zenon DEF Monoid
  <2> QED BY <2>1, <2>2, FlattenEmpty, Zenon
<1>3. ASSUME NEW t \in Seq(V), NEW x \in V, t \in P PROVE Cat(t, <<x>>) \in P
  <2>1. <<x>> \in Seq(V)
    BY OneType, Zenon
  <2>2. Cat(t, <<x>>) \in Seq(V) /\ Cat(r, t) \in Seq(V)
    BY <2>1, CatType, Zenon
  <2>3. Cat(r, Cat(t, <<x>>)) = Cat(Cat(r, t), <<x>>)
    <3>1. PICK o \in Seq(V) : o = <<x>>
      BY <2>1, Zenon
    <3>2. Cat(r, Cat(t, o)) = Cat(Cat(r, t), o)
      BY CatAssociative
    <3> QED BY <3>1, <3>2, Zenon
  <2>4. FlattenSeq(Cat(Cat(r, t), <<x>>)) = Cat(FlattenSeq(Cat(r, t)), x)
    BY <2>2, FlattenLast, Zenon
  <2>5. FlattenSeq(Cat(t, <<x>>)) = Cat(FlattenSeq(t), x)
    BY FlattenLast, Zenon
  <2>6. FlattenSeq(Cat(r, t)) = Cat(FlattenSeq(r), FlattenSeq(t))
    BY <1>3, Zenon
  <2>7. FlattenSeq(t) \in V
    BY FlattenType, Zenon
  <2>8. Cat(Cat(FlattenSeq(r), FlattenSeq(t)), x) = Cat(FlattenSeq(r), Cat(FlattenSeq(t), x))
    BY <1>1, <2>7, Zenon DEF Monoid
  <2> QED BY <2>2, <2>3, <2>4, <2>5, <2>6, <2>8, Zenon
<1> HIDE DEF P
<1>4. s \in P
  BY <1>2, <1>3, InductionLast, Zenon
<1> QED BY <1>4, Zenon DEF P

(* Flattening one sequence. *)
LEMMA FlattenOne ==
  ASSUME NEW V, Monoid(V), NEW t \in V
  PROVE  FlattenSeq(<<t>>) = t
<1>1. <<>> \in Seq(V) /\ <<t>> \in Seq(V)
  BY OneType, EmptySeq, Zenon
<1>2. Cat(<<>>, <<t>>) = <<t>>
  BY <1>1, CatEmpty, Zenon
<1>3. FlattenSeq(Cat(<<>>, <<t>>)) = Cat(<<>>, t)
  BY <1>1, FlattenLast, FlattenEmpty, Zenon
<1>4. Cat(<<>>, t) = t
  BY Zenon DEF Monoid
<1> QED BY <1>2, <1>3, <1>4, Zenon

-----------------------------------------------------------------------------
(* A sequence for each member of another, flattened. *)
Images(h, s) == [i \in DOMAIN s |-> h[s[i]]]
Mapped(h, s) == FlattenSeq(Images(h, s))

Mapping(h, S, V) == Monoid(V) /\ \A x \in S : h[x] \in V

(* The sequences that are flattened. *)
LEMMA MappedMembers ==
  ASSUME NEW S, NEW V, NEW h, Mapping(h, S, V), NEW s \in Seq(S), NEW n \in Nat, n = Len(s)
  PROVE  /\ Images(h, s) \in [1..n -> V]
         /\ Images(h, s) \in Seq(V)
         /\ Len(Images(h, s)) = n
<1>1. DOMAIN s = 1..n /\ \A i \in 1..n : s[i] \in S
  BY LenProperties
<1>2. PICK f : f = [i \in DOMAIN s |-> h[s[i]]] /\ f = Images(h, s)
  BY Zenon DEF Images
<1>3. \A i \in 1..n : h[s[i]] \in V
  BY <1>1, Zenon DEF Mapping
<1>4. f \in [1..n -> V]
  BY <1>1, <1>2, <1>3
<1>5. f \in Seq(V) /\ Len(f) = n
  BY <1>4, FunctionIsSeq
<1> QED BY <1>2, <1>4, <1>5, Zenon

(* The type of what is mapped. *)
LEMMA MappedType ==
  ASSUME NEW S, NEW V, NEW h, Mapping(h, S, V), NEW s \in Seq(S)
  PROVE  Mapped(h, s) \in V
<1>1. PICK n \in Nat : n = Len(s)
  BY LenProperties, Zenon
<1>2. Images(h, s) \in Seq(V)
  BY <1>1, MappedMembers
<1> QED BY <1>2, FlattenType, Zenon DEF Mapped, Mapping

(* Mapping nothing. *)
LEMMA MappedEmpty ==
  ASSUME NEW h
  PROVE  Mapped(h, <<>>) = <<>>
<1>1. Images(h, <<>>) = <<>>
  BY DEF Images
<1> QED BY <1>1, FlattenEmpty, Zenon DEF Mapped

(* Mapping one member more. *)
LEMMA MappedLast ==
  ASSUME NEW S, NEW V, NEW h, Mapping(h, S, V), NEW s \in Seq(S), NEW x \in S
  PROVE  Mapped(h, Cat(s, <<x>>)) = Cat(Mapped(h, s), h[x])
<1>1. PICK n \in Nat : n = Len(s)
  BY LenProperties, Zenon
<1>2. PICK o : o = <<x>>
  BY Zenon
<1>3. o \in Seq(S) /\ Len(o) = 1 /\ o[1] = x
  BY <1>2, OneType, Zenon
<1>4. PICK t : t = Cat(s, o)
  BY Zenon
<1>5. t \in Seq(S)
  BY <1>3, <1>4, CatType, Zenon
<1>6. Len(t) = n + 1
  <2>1. Len(t) = Len(s) + Len(o)
    BY <1>3, <1>4, CatLen, Zenon
  <2> QED BY <1>1, <1>3, <2>1, Zenon
<1>7. t[n + 1] = x
  <2>1. 1 \in 1..Len(o)
    BY <1>3
  <2>2. t[Len(s) + 1] = o[1]
    BY <1>3, <1>4, <2>1, CatRight
  <2> QED BY <1>1, <1>3, <2>2, Zenon
<1>8. \A i \in 1..n : t[i] = s[i]
  BY <1>1, <1>3, <1>4, CatLeft, Zenon
<1>9. PICK f : f = Images(h, s)
  BY Zenon
<1>10. PICK g : g = Images(h, t)
  BY Zenon
<1>11. f \in [1..n -> V] /\ Len(f) = n
  BY <1>1, <1>9, MappedMembers
<1>12. g \in [1..(n + 1) -> V] /\ Len(g) = n + 1
  <2>1. n + 1 \in Nat
    OBVIOUS
  <2> QED BY <1>5, <1>6, <1>10, <2>1, MappedMembers
<1>13. DOMAIN s = 1..n /\ DOMAIN t = 1..(n + 1)
  BY <1>1, <1>5, <1>6, LenProperties, Zenon
<1>14. g[n + 1] = h[x] /\ \A i \in 1..n : g[i] = f[i]
  BY <1>7, <1>8, <1>9, <1>10, <1>13 DEF Images
<1>15. Monoid(V) /\ h[x] \in V
  BY Zenon DEF Mapping
<1>16. FlattenSeq(g) = Cat(FlattenSeq(f), h[x])
  BY <1>11, <1>12, <1>14, <1>15, FlattenExtended
<1> QED BY <1>2, <1>4, <1>9, <1>10, <1>16, Zenon DEF Mapped

(* Mapping one member. *)
LEMMA MappedOne ==
  ASSUME NEW S, NEW V, NEW h, Mapping(h, S, V), NEW x \in S
  PROVE  Mapped(h, <<x>>) = h[x]
<1>1. <<>> \in Seq(S) /\ <<x>> \in Seq(S)
  BY EmptySeq, OneType, Zenon
<1>2. Mapped(h, Cat(<<>>, <<x>>)) = Cat(Mapped(h, <<>>), h[x])
  BY <1>1, MappedLast, Zenon
<1>3. Cat(<<>>, <<x>>) = <<x>>
  BY <1>1, CatEmpty, Zenon
<1>4. Cat(<<>>, h[x]) = h[x]
  BY Zenon DEF Mapping, Monoid
<1> QED BY <1>2, <1>3, <1>4, MappedEmpty, Zenon

(* Mapping distributes over concatenation. *)
LEMMA MappedCat ==
  ASSUME NEW S, NEW V, NEW h, Mapping(h, S, V), NEW r \in Seq(S), NEW s \in Seq(S)
  PROVE  Mapped(h, Cat(r, s)) = Cat(Mapped(h, r), Mapped(h, s))
<1> DEFINE P == {t \in Seq(S) : Mapped(h, Cat(r, t)) = Cat(Mapped(h, r), Mapped(h, t))}
<1>1. Monoid(V) /\ Mapped(h, r) \in V
  BY MappedType, Zenon DEF Mapping
<1>2. <<>> \in P
  <2>1. <<>> \in Seq(S) /\ Cat(r, <<>>) = r
    BY EmptySeq, CatEmpty, Zenon
  <2>2. Cat(Mapped(h, r), <<>>) = Mapped(h, r)
    BY <1>1, Zenon DEF Monoid
  <2> QED BY <2>1, <2>2, MappedEmpty, Zenon
<1>3. ASSUME NEW t \in Seq(S), NEW x \in S, t \in P PROVE Cat(t, <<x>>) \in P
  <2>1. PICK o \in Seq(S) : o = <<x>>
    BY OneType, Zenon
  <2>2. Cat(t, o) \in Seq(S) /\ Cat(r, t) \in Seq(S)
    BY CatType, Zenon
  <2>3. Cat(r, Cat(t, o)) = Cat(Cat(r, t), o)
    BY CatAssociative
  <2>4. Mapped(h, Cat(Cat(r, t), <<x>>)) = Cat(Mapped(h, Cat(r, t)), h[x])
    BY <2>2, MappedLast
  <2>5. Mapped(h, Cat(t, <<x>>)) = Cat(Mapped(h, t), h[x])
    BY MappedLast
  <2>6. Mapped(h, Cat(r, t)) = Cat(Mapped(h, r), Mapped(h, t))
    BY <1>3, Zenon
  <2>7. Mapped(h, t) \in V /\ h[x] \in V
    BY MappedType, Zenon DEF Mapping
  <2>8. Cat(Cat(Mapped(h, r), Mapped(h, t)), h[x]) = Cat(Mapped(h, r), Cat(Mapped(h, t), h[x]))
    BY <1>1, <2>7, Zenon DEF Monoid
  <2> QED BY <2>1, <2>2, <2>3, <2>4, <2>5, <2>6, <2>8, Zenon
<1> HIDE DEF P
<1>4. s \in P
  BY <1>2, <1>3, InductionLast, Zenon
<1> QED BY <1>4, Zenon DEF P

-----------------------------------------------------------------------------
(* Cutting a concatenation where it was put together: its beginning. *)
LEMMA CutLeft ==
  ASSUME NEW S, NEW s \in Seq(S), NEW t \in Seq(S)
  PROVE  SubSeq(Cat(s, t), 1, Len(s)) = s
<1>1. PICK m \in Nat : m = Len(s)
  BY LenProperties, Zenon
<1>2. PICK u : u = Cat(s, t)
  BY Zenon
<1>3. \A i \in 1..m : u[i] = s[i] /\ s[i] \in S
  <2>1. \A i \in 1..m : u[i] = s[i]
    BY <1>1, <1>2, CatLeft, Zenon
  <2>2. \A i \in 1..m : s[i] \in S
    BY <1>1, ElementOfSeq, Zenon
  <2> QED BY <2>1, <2>2, Zenon
<1>4. PICK v : v = SubSeq(u, 1, m)
  BY Zenon
<1>5. /\ v \in Seq(S)
      /\ Len(v) = IF 1 <= m THEN m - 1 + 1 ELSE 0
      /\ \A i \in 1..(m - 1 + 1) : v[i] = u[1 + i - 1]
  BY <1>3, <1>4, SubSeqProperties
<1>6. Len(v) = m /\ \A i \in 1..m : v[i] = s[i]
  BY <1>3, <1>5
<1>7. v = s
  BY <1>1, <1>5, <1>6, SeqEqual
<1> QED BY <1>1, <1>2, <1>4, <1>7, Zenon

(* A part in the middle of it. *)
LEMMA CutMiddle ==
  ASSUME NEW S, NEW s \in Seq(S), NEW t \in Seq(S), NEW u \in Seq(S)
  PROVE  SubSeq(Cat(s, Cat(t, u)), Len(s) + 1, Len(s) + Len(t)) = t
<1>1. PICK m \in Nat : m = Len(s)
  BY LenProperties, Zenon
<1>2. PICK n \in Nat : n = Len(t)
  BY LenProperties, Zenon
<1>3. PICK tu \in Seq(S) : tu = Cat(t, u)
  BY CatType, Zenon
<1>4. PICK w : w = Cat(s, tu)
  BY Zenon
<1>5. ASSUME NEW i \in 1..n PROVE w[m + i] = t[i] /\ t[i] \in S
  <2>1. tu[i] = t[i] /\ t[i] \in S
    BY <1>2, <1>3, CatLeft, ElementOfSeq, Zenon
  <2>2. i \in 1..Len(tu)
    <3>1. Len(tu) = Len(t) + Len(u) /\ Len(u) \in Nat
      BY <1>3, CatLen, LenProperties, Zenon
    <3> QED BY <1>2, <3>1
  <2>3. w[Len(s) + i] = tu[i]
    BY <1>4, <2>2, CatRight
  <2> QED BY <1>1, <2>1, <2>3, Zenon
<1>6. PICK v : v = SubSeq(w, m + 1, m + n)
  BY Zenon
<1>7. \A i \in (m + 1)..(m + n) : w[i] \in S
  <2>1. \A i \in (m + 1)..(m + n) : i - m \in 1..n /\ i = m + (i - m)
    OBVIOUS
  <2> QED BY <1>5, <2>1
<1>8. /\ v \in Seq(S)
      /\ Len(v) = IF m + 1 <= m + n THEN m + n - (m + 1) + 1 ELSE 0
      /\ \A i \in 1..(m + n - (m + 1) + 1) : v[i] = w[m + 1 + i - 1]
  <2>1. PICK p \in Int : p = m + 1
    OBVIOUS
  <2>2. PICK q \in Int : q = m + n
    OBVIOUS
  <2>3. \A i \in p..q : w[i] \in S
    BY <1>7, <2>1, <2>2
  <2>4. /\ SubSeq(w, p, q) \in Seq(S)
        /\ Len(SubSeq(w, p, q)) = IF p <= q THEN q - p + 1 ELSE 0
        /\ \A i \in 1..(q - p + 1) : SubSeq(w, p, q)[i] = w[p + i - 1]
    BY <2>3, SubSeqProperties
  <2>5. v = SubSeq(w, p, q)
    BY <1>6, <2>1, <2>2, Zenon
  <2>6. /\ v \in Seq(S)
        /\ Len(v) = IF p <= q THEN q - p + 1 ELSE 0
        /\ \A i \in 1..(q - p + 1) : v[i] = w[p + i - 1]
    BY <2>4, <2>5, Zenon
  <2> QED BY <2>1, <2>2, <2>6
<1>9. Len(v) = n
  BY <1>8
<1>10. ASSUME NEW i \in 1..n PROVE v[i] = t[i]
  <2>1. i \in 1..(m + n - (m + 1) + 1) /\ m + 1 + i - 1 = m + i
    OBVIOUS
  <2> QED BY <1>5, <1>8, <2>1
<1>11. v = t
  BY <1>2, <1>8, <1>9, <1>10, SeqEqual
<1> QED BY <1>1, <1>2, <1>3, <1>4, <1>6, <1>11, Zenon

(* And its end. *)
LEMMA CutRight ==
  ASSUME NEW S, NEW s \in Seq(S), NEW t \in Seq(S)
  PROVE  SubSeq(Cat(s, t), Len(s) + 1, Len(Cat(s, t))) = t
<1>1. <<>> \in Seq(S) /\ Cat(t, <<>>) = t
  BY EmptySeq, CatEmpty, Zenon
<1>2. Len(Cat(s, t)) = Len(s) + Len(t)
  BY CatLen
<1>3. SubSeq(Cat(s, Cat(t, <<>>)), Len(s) + 1, Len(s) + Len(t)) = t
  BY <1>1, CutMiddle
<1> QED BY <1>1, <1>2, <1>3, Zenon

-----------------------------------------------------------------------------
(* Mapping what was mapped. *)

(* A function that has members of T for those of S. *)
Sends(g, S, T) == \A x \in S : g[x] \in T

(* A member for each member. *)
LEMMA ImagesType ==
  ASSUME NEW S, NEW T, NEW g, Sends(g, S, T), NEW s \in Seq(S)
  PROVE  Images(g, s) \in Seq(T) /\ Len(Images(g, s)) = Len(s)
<1>1. PICK n \in Nat : n = Len(s) /\ DOMAIN s = 1..n /\ \A i \in 1..n : s[i] \in S
  BY LenProperties
<1>2. PICK f : f = [i \in DOMAIN s |-> g[s[i]]] /\ f = Images(g, s)
  BY Zenon DEF Images
<1>3. \A i \in 1..n : g[s[i]] \in T
  BY <1>1, Zenon DEF Sends
<1>4. f \in [1..n -> T]
  BY <1>1, <1>2, <1>3
<1>5. f \in Seq(T) /\ Len(f) = n
  BY <1>4, FunctionIsSeq
<1> QED BY <1>1, <1>2, <1>5, Zenon

(* A sequence for each of these members is one for each of the first.       *)
LEMMA MappedImages ==
  ASSUME NEW S, NEW T, NEW g, Sends(g, S, T), NEW s \in Seq(S),
         NEW h, NEW k, \A x \in S : k[x] = h[g[x]]
  PROVE  Mapped(h, Images(g, s)) = Mapped(k, s)
<1>1. PICK u : u = Images(g, s)
  BY Zenon
<1>2. DOMAIN u = DOMAIN s /\ \A i \in DOMAIN s : u[i] = g[s[i]]
  BY <1>1 DEF Images
<1>3. \A i \in DOMAIN s : s[i] \in S
  BY LenProperties
<1>4. \A i \in DOMAIN s : h[u[i]] = k[s[i]]
  BY <1>2, <1>3, Zenon
<1>5. Images(h, u) = Images(k, s)
  BY <1>2, <1>4 DEF Images
<1> QED BY <1>1, <1>5, Zenon DEF Mapped

(* So it is if there is any number of them for each. *)
LEMMA MappedTwice ==
  ASSUME NEW S, NEW T, NEW V, NEW f, NEW g, NEW k,
         Mapping(f, S, Seq(T)), Mapping(g, T, V), \A x \in S : k[x] = Mapped(g, f[x]),
         NEW s \in Seq(S)
  PROVE  Mapped(g, Mapped(f, s)) = Mapped(k, s)
<1> DEFINE P == {t \in Seq(S) : Mapped(g, Mapped(f, t)) = Mapped(k, t)}
<1>1. \A x \in S : f[x] \in Seq(T)
  BY Zenon DEF Mapping
<1>2. Mapping(k, S, V)
  BY <1>1, MappedType, Zenon DEF Mapping
<1>3. <<>> \in P
  <2>1. <<>> \in Seq(S)
    BY EmptySeq, Zenon
  <2>2. Mapped(f, <<>>) = <<>> /\ Mapped(g, <<>>) = <<>> /\ Mapped(k, <<>>) = <<>>
    BY MappedEmpty, Zenon
  <2> QED BY <2>1, <2>2, Zenon
<1>4. ASSUME NEW t \in Seq(S), NEW x \in S, t \in P PROVE Cat(t, <<x>>) \in P
  <2>1. PICK tx \in Seq(S) : tx = Cat(t, <<x>>)
    BY OneType, CatType, Zenon
  <2>2. Mapped(f, Cat(t, <<x>>)) = Cat(Mapped(f, t), f[x])
    BY MappedLast
  <2>3. Mapped(k, Cat(t, <<x>>)) = Cat(Mapped(k, t), k[x])
    BY <1>2, MappedLast
  <2>4. PICK a \in Seq(T) : a = Mapped(f, t)
    BY MappedType, Zenon
  <2>5. PICK b \in Seq(T) : b = f[x]
    BY <1>1, Zenon
  <2>6. Mapped(g, Cat(a, b)) = Cat(Mapped(g, a), Mapped(g, b))
    BY MappedCat
  <2>7. Mapped(g, a) = Mapped(k, t)
    BY <1>4, <2>4, Zenon
  <2>8. Mapped(g, b) = k[x]
    BY <2>5, Zenon
  <2>9. Mapped(g, Mapped(f, tx)) = Mapped(k, tx)
    BY <2>1, <2>2, <2>3, <2>4, <2>5, <2>6, <2>7, <2>8, Zenon
  <2> QED BY <2>1, <2>9, Zenon
<1> HIDE DEF P
<1>5. s \in P
  BY <1>3, <1>4, InductionLast, Zenon
<1> QED BY <1>5, Zenon DEF P

(* A member more. *)
LEMMA ImagesLast ==
  ASSUME NEW S, NEW T, NEW g, Sends(g, S, T), NEW t \in Seq(S), NEW x \in S
  PROVE  Images(g, Cat(t, <<x>>)) = Cat(Images(g, t), <<g[x]>>)
<1>1. \A r \in Seq(S) : Images(g, r) \in Seq(T) /\ Len(Images(g, r)) = Len(r)
  BY ImagesType
<1>2. PICK one \in Seq(S) : one = <<x>> /\ Len(one) = 1 /\ one[1] = x
  BY OneType, Zenon
<1>3. PICK tx \in Seq(S) : tx = Cat(t, one)
  BY CatType, Zenon
<1>4. PICK n \in Nat : n = Len(t)
  BY LenProperties, Zenon
<1>5. Len(tx) = n + 1
  BY <1>2, <1>3, <1>4, CatLen
<1>6. \A i \in 1..n : tx[i] = t[i]
  BY <1>3, <1>4, CatLeft
<1>7. tx[n + 1] = x
  <2>1. \A i \in 1..Len(one) : Cat(t, one)[Len(t) + i] = one[i]
    BY CatRight
  <2>2. 1 \in 1..Len(one)
    BY <1>2
  <2> QED BY <1>2, <1>3, <1>4, <2>1, <2>2, Zenon
<1>8. PICK u \in Seq(T) : u = Images(g, t) /\ Len(u) = n
  BY <1>1, <1>4, Zenon
<1>9. PICK v \in Seq(T) : v = Images(g, tx) /\ Len(v) = n + 1
  BY <1>1, <1>5, Zenon
<1>10. DOMAIN t = 1..n /\ DOMAIN tx = 1..(n + 1)
  BY <1>4, <1>5, LenProperties, Zenon
<1>11. \A i \in 1..n : u[i] = g[t[i]]
  BY <1>8, <1>10 DEF Images
<1>12. \A i \in 1..(n + 1) : v[i] = g[tx[i]]
  BY <1>9, <1>10 DEF Images
<1>13. \A i \in 1..n : v[i] = u[i]
  <2>1. \A i \in 1..n : i \in 1..(n + 1)
    OBVIOUS
  <2>2. \A i \in 1..n : v[i] = g[tx[i]]
    BY <1>12, <2>1, Zenon
  <2> QED BY <1>6, <1>11, <2>2
<1>14. v[n + 1] = g[x]
  <2>1. n + 1 \in 1..(n + 1)
    OBVIOUS
  <2> QED BY <1>7, <1>12, <2>1, Zenon
<1>15. PICK y \in T : y = g[x]
  BY Zenon DEF Sends
<1>16. v[n + 1] = y
  BY <1>14, <1>15, Zenon
<1>17. v = Cat(u, <<y>>)
  <2>1. Len(u) = n /\ Len(v) = n + 1
    BY <1>8, <1>9, Zenon
  <2> QED BY <1>13, <1>16, <2>1, LastMember
<1> QED BY <1>2, <1>3, <1>8, <1>9, <1>15, <1>17, Zenon

(* One member for each. *)
LEMMA Singles ==
  ASSUME NEW S, NEW g, NEW h, \A x \in S : h[x] = <<g[x]>>, NEW s \in Seq(S)
  PROVE  Mapped(h, s) = Images(g, s)
<1> DEFINE T == {g[x] : x \in S}
           P == {t \in Seq(S) : Mapped(h, t) = Images(g, t)}
<1>1. \A x \in S : g[x] \in T
  BY Zenon
<1> HIDE DEF T
<1>2. Mapping(h, S, Seq(T))
  <2>1. \A x \in S : h[x] \in Seq(T)
    BY <1>1, OneType, Zenon
  <2> QED BY <2>1, SeqMonoid, Zenon DEF Mapping
<1>3. <<>> \in P
  <2>1. <<>> \in Seq(S)
    BY EmptySeq, Zenon
  <2>2. Images(g, <<>>) = <<>>
    BY DEF Images
  <2> QED BY <2>1, <2>2, MappedEmpty, Zenon
<1>4. ASSUME NEW t \in Seq(S), NEW x \in S, t \in P PROVE Cat(t, <<x>>) \in P
  <2>1. Cat(t, <<x>>) \in Seq(S)
    BY OneType, CatType, Zenon
  <2>2. Mapped(h, Cat(t, <<x>>)) = Cat(Mapped(h, t), h[x])
    BY <1>2, MappedLast
  <2>3. Images(g, Cat(t, <<x>>)) = Cat(Images(g, t), <<g[x]>>)
    <3>1. Sends(g, S, T)
      BY <1>1, Zenon DEF Sends
    <3> QED BY <3>1, ImagesLast
  <2>4. Mapped(h, Cat(t, <<x>>)) = Images(g, Cat(t, <<x>>))
    BY <1>4, <2>2, <2>3, Zenon
  <2> QED BY <2>1, <2>4, Zenon
<1> HIDE DEF P
<1>5. s \in P
  BY <1>3, <1>4, InductionLast, Zenon
<1> QED BY <1>5, Zenon DEF P

=============================================================================
