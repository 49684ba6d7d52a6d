------------------------------ MODULE Flattening -------------------------------
(***************************************************************************)
(* Facts about flattening a sequence of sequences, which the proofs about   *)
(* the conversation of a run and about filtered listings share.  FlattenSeq *)
(* is a recursive function, so what it returns is found by induction on the *)
(* length; the induction rests on the well-foundedness of < on the natural  *)
(* numbers, applied to the set of numbers the claim holds for.              *)
(***************************************************************************)
EXTENDS Naturals, Sequences, SequencesExt, WellFoundedInduction, TLAPS

-----------------------------------------------------------------------------
(* Induction over the natural numbers.                                      *)

Below == {p \in Nat \X Nat : p[1] < p[2]}

LEMMA BelowIsWellFounded == IsWellFoundedOn(Below, Nat)
<1>1. IsWellFoundedOn(OpToRel(<, Nat), Nat)
  BY NatLessThanWellFounded
<1>2. QED BY <1>1 DEF OpToRel, Below

LEMMA SmallerIsBelow ==
  ASSUME NEW m \in Nat, NEW n \in Nat, m < n
  PROVE  <<m, n>> \in Below
<1> DEFINE p == <<m, n>>
<1>1. p \in Nat \X Nat /\ p[1] < p[2]
  OBVIOUS
<1> HIDE DEF p
<1>2. p \in Below
  BY <1>1 DEF Below
<1>3. QED BY <1>2 DEF p

\* A set that holds zero, and the successor of each number it holds, holds
\* every natural number: induction, the claim given as the set it is true of.
LEMMA Induction ==
  ASSUME NEW S, 0 \in S, \A n \in Nat : n \in S => n + 1 \in S
  PROVE  Nat \subseteq S
<1> SUFFICES ASSUME Nat \ S # {} PROVE FALSE
  OBVIOUS
<1>1. PICK n \in Nat \ S : \A m \in Nat \ S : ~(<<m, n>> \in Below)
  BY WFMin, BelowIsWellFounded
<1>2. n # 0
  OBVIOUS
<1>3. n - 1 \in Nat /\ n - 1 < n
  BY <1>2
<1>4. n - 1 \in S
  BY <1>1, <1>3, SmallerIsBelow
<1>5. QED BY <1>4, <1>3

\* A function on 1..n is a sequence of length n.
LEMMA FunctionIsSequence ==
  ASSUME NEW S, NEW n \in Nat, NEW f, f = [i \in 1..n |-> f[i]], \A i \in 1..n : f[i] \in S
  PROVE  f \in Seq(S) /\ Len(f) = n
  OBVIOUS

-----------------------------------------------------------------------------
(* The function FlattenSeq applies.                                         *)

\* The concatenation, under a name of its own: what it is matters to few proofs.
Join(s, t) == s \o t

\* h gives, for each i up to n, the first i sequences put end to end.
Growing(seqs, n, h) ==
  h = [i \in 1..n |-> IF i = 1 THEN seqs[i] ELSE Join(h[i - 1], seqs[i])]

\* There is such a function for every length.
LEMMA GrowingExist ==
  ASSUME NEW seqs, NEW n \in Nat
  PROVE  \E h : Growing(seqs, n, h)
<1> DEFINE S == {m \in Nat : \E h : Growing(seqs, m, h)}
<1>1. 0 \in S
  <2>1. Growing(seqs, 0, [i \in 1..0 |-> <<>>])
    BY DEF Growing
  <2>2. QED BY <2>1
<1>2. ASSUME NEW m \in Nat, m \in S PROVE m + 1 \in S
  <2>1. PICK h : Growing(seqs, m, h)
    BY <1>2
  <2> DEFINE g == [i \in 1..m + 1 |-> IF i = m + 1
                     THEN IF i = 1 THEN seqs[i] ELSE Join(h[m], seqs[i]) ELSE h[i]]
  <2>2. ASSUME NEW i \in 1..m + 1
        PROVE  g[i] = IF i = 1 THEN seqs[i] ELSE Join(g[i - 1], seqs[i])
    <3>1. CASE i = m + 1
      <4>1. i # 1 => i - 1 \in 1..m + 1 /\ i - 1 # m + 1 /\ i - 1 = m
        BY <3>1
      <4>2. i # 1 => g[i - 1] = h[m]
        BY <4>1
      <4>3. QED BY <3>1, <4>2
    <3>2. CASE i # m + 1
      <4>1. i \in 1..m /\ (i # 1 => i - 1 \in 1..m + 1 /\ i - 1 # m + 1)
        BY <3>2
      <4>2. g[i] = h[i] /\ (i # 1 => g[i - 1] = h[i - 1])
        BY <3>2, <4>1
      <4>3. h[i] = IF i = 1 THEN seqs[i] ELSE Join(h[i - 1], seqs[i])
        BY <2>1, <4>1 DEF Growing
      <4>4. QED BY <4>2, <4>3
    <3>3. QED BY <3>1, <3>2
  <2> HIDE DEF g
  <2>3. g = [i \in 1..m + 1 |-> g[i]]
    BY DEF g
  <2>4. Growing(seqs, m + 1, g)
    BY <2>2, <2>3 DEF Growing
  <2>5. QED BY <2>4
<1> HIDE DEF S
<1>3. Nat \subseteq S
  BY <1>1, <1>2, Induction
<1>4. QED BY <1>3 DEF S

LEMMA FlattenIs ==
  ASSUME NEW seqs, NEW n \in Nat \ {0}, Len(seqs) = n
  PROVE  \E h : Growing(seqs, n, h) /\ FlattenSeq(seqs) = h[n]
<1> DEFINE h == CHOOSE f : Growing(seqs, n, f)
<1>1. \E f : Growing(seqs, n, f)
  BY GrowingExist
<1>2. Growing(seqs, n, h)
  BY <1>1
<1>3. FlattenSeq(seqs) = h[n]
  BY DEF FlattenSeq, Growing, Join
<1>4. QED BY <1>2, <1>3

\* The prefixes of a longer sequence agree with those of a shorter one.
LEMMA GrowingAgree ==
  ASSUME NEW ss, NEW tt, NEW m \in Nat, NEW n \in Nat, m <= n,
         NEW g, NEW h, Growing(ss, m, g), Growing(tt, n, h),
         \A i \in 1..m : ss[i] = tt[i]
  PROVE  \A i \in 1..m : g[i] = h[i]
<1> DEFINE S == {i \in Nat : i \in 1..m => g[i] = h[i]}
<1>1. 0 \in S
  OBVIOUS
<1>2. ASSUME NEW i \in Nat, i \in S PROVE i + 1 \in S
  <2> SUFFICES ASSUME i + 1 \in 1..m PROVE g[i + 1] = h[i + 1]
    OBVIOUS
  <2>1. i + 1 \in 1..n
    OBVIOUS
  <2>2. g[i + 1] = IF i + 1 = 1 THEN ss[i + 1] ELSE Join(g[(i + 1) - 1], ss[i + 1])
    BY DEF Growing
  <2>3. h[i + 1] = IF i + 1 = 1 THEN tt[i + 1] ELSE Join(h[(i + 1) - 1], tt[i + 1])
    BY <2>1 DEF Growing
  <2>4. i + 1 # 1 => g[(i + 1) - 1] = h[(i + 1) - 1]
    <3>1. i + 1 # 1 => i \in 1..m
      OBVIOUS
    <3>2. (i + 1) - 1 = i
      OBVIOUS
    <3>3. QED BY <1>2, <3>1, <3>2
  <2>5. QED BY <2>2, <2>3, <2>4
<1> HIDE DEF S
<1>3. Nat \subseteq S
  BY <1>1, <1>2, Induction
<1>4. QED BY <1>3 DEF S

\* Every prefix is a sequence of elements of T.
LEMMA GrowingType ==
  ASSUME NEW T, NEW seqs, NEW n \in Nat, NEW h, Growing(seqs, n, h),
         \A i \in 1..n : seqs[i] \in Seq(T)
  PROVE  \A i \in 1..n : h[i] \in Seq(T)
<1> DEFINE S == {i \in Nat : i \in 1..n => h[i] \in Seq(T)}
<1>1. 0 \in S
  OBVIOUS
<1>2. ASSUME NEW i \in Nat, i \in S PROVE i + 1 \in S
  <2> SUFFICES ASSUME i + 1 \in 1..n PROVE h[i + 1] \in Seq(T)
    OBVIOUS
  <2>1. h[i + 1] = IF i + 1 = 1 THEN seqs[i + 1] ELSE Join(h[(i + 1) - 1], seqs[i + 1])
    BY DEF Growing
  <2>2. i + 1 # 1 => h[(i + 1) - 1] \in Seq(T)
    <3>1. i + 1 # 1 => i \in 1..n
      OBVIOUS
    <3>2. (i + 1) - 1 = i
      OBVIOUS
    <3>3. QED BY <1>2, <3>1, <3>2
  <2>3. seqs[i + 1] \in Seq(T)
    OBVIOUS
  <2>4. QED BY <2>1, <2>2, <2>3 DEF Join
<1> HIDE DEF S
<1>3. Nat \subseteq S
  BY <1>1, <1>2, Induction
<1>4. QED BY <1>3 DEF S

-----------------------------------------------------------------------------
(* What FlattenSeq returns.                                                 *)

LEMMA FlattenEmpty == FlattenSeq(<<>>) = <<>>
BY DEF FlattenSeq

LEMMA FlattenType ==
  ASSUME NEW T, NEW seqs \in Seq(Seq(T))
  PROVE  FlattenSeq(seqs) \in Seq(T)
<1>1. CASE Len(seqs) = 0
  <2>1. FlattenSeq(seqs) = seqs /\ seqs = <<>>
    BY <1>1 DEF FlattenSeq
  <2>2. QED BY <2>1
<1>2. CASE Len(seqs) # 0
  <2>1. Len(seqs) \in Nat \ {0}
    BY <1>2
  <2>2. PICK h : Growing(seqs, Len(seqs), h) /\ FlattenSeq(seqs) = h[Len(seqs)]
    BY <2>1, FlattenIs
  <2>3. \A i \in 1..Len(seqs) : seqs[i] \in Seq(T)
    OBVIOUS
  <2>4. \A i \in 1..Len(seqs) : h[i] \in Seq(T)
    BY <2>1, <2>2, <2>3, GrowingType
  <2>5. QED BY <2>1, <2>2, <2>4
<1>3. QED BY <1>1, <1>2

\* A sequence with one element more, whatever it is a prefix of.
LEMMA GrowingFurther ==
  ASSUME NEW ss, NEW tt, NEW m \in Nat \ {0}, NEW n \in Nat, n = m + 1, NEW g, NEW h,
         Growing(ss, m, g), Growing(tt, n, h),
         \A i \in 1..m : ss[i] = tt[i]
  PROVE  h[n] = Join(g[m], tt[n])
<1>1. m <= n /\ m \in Nat /\ m \in 1..m
  OBVIOUS
<1>2. \A i \in 1..m : g[i] = h[i]
  BY <1>1, GrowingAgree
<1>3. h[m] = g[m]
  BY <1>1, <1>2
<1>4. n \in 1..n /\ n # 1 /\ n - 1 = m
  OBVIOUS
<1>5. h[n] = IF n = 1 THEN tt[n] ELSE Join(h[n - 1], tt[n])
  BY <1>4 DEF Growing
<1>6. QED BY <1>3, <1>4, <1>5

LEMMA FlattenLonger ==
  ASSUME NEW ss, NEW tt, NEW m \in Nat \ {0}, NEW n \in Nat, n = m + 1,
         Len(ss) = m, Len(tt) = n, \A i \in 1..m : ss[i] = tt[i]
  PROVE  FlattenSeq(tt) = Join(FlattenSeq(ss), tt[n])
<1>1. PICK g : Growing(ss, m, g) /\ FlattenSeq(ss) = g[m]
  BY FlattenIs
<1>2. n \in Nat \ {0}
  OBVIOUS
<1>3. PICK h : Growing(tt, n, h) /\ FlattenSeq(tt) = h[n]
  BY <1>2, FlattenIs
<1>4. h[n] = Join(g[m], tt[n])
  BY <1>1, <1>3, GrowingFurther
<1>5. QED BY <1>1, <1>3, <1>4

\* One more sequence at the end goes to the end.
LEMMA FlattenAppend ==
  ASSUME NEW T, NEW seqs \in Seq(Seq(T)), NEW s \in Seq(T)
  PROVE  FlattenSeq(Append(seqs, s)) = FlattenSeq(seqs) \o s
<1>1. CASE Len(seqs) = 0
  <2>1. FlattenSeq(seqs) = seqs /\ seqs = <<>>
    BY <1>1 DEF FlattenSeq
  <2>2. PICK h : Growing(<<s>>, 1, h) /\ FlattenSeq(<<s>>) = h[1]
    <3>1. 1 \in Nat \ {0} /\ Len(<<s>>) = 1
      OBVIOUS
    <3>2. QED BY <3>1, FlattenIs
  <2>3. h[1] = s
    BY <2>2 DEF Growing
  <2>4. <<>> \o s = s /\ Append(<<>>, s) = <<s>>
    OBVIOUS
  <2>5. QED BY <2>1, <2>2, <2>3, <2>4
<1>2. CASE Len(seqs) # 0
  <2> DEFINE m == Len(seqs)
             n == Len(seqs) + 1
             longer == Append(seqs, s)
  <2>1. /\ m \in Nat \ {0} /\ n \in Nat /\ n = m + 1
        /\ Len(seqs) = m /\ Len(longer) = n /\ longer[n] = s
        /\ \A i \in 1..m : seqs[i] = longer[i]
    BY <1>2
  <2> HIDE DEF m, n, longer
  <2>2. FlattenSeq(longer) = Join(FlattenSeq(seqs), longer[n])
    BY <2>1, FlattenLonger
  <2>3. QED BY <2>1, <2>2 DEF longer, Join
<1>3. QED BY <1>1, <1>2

\* A sequence that is not empty has a last element.
LEMMA EndIsApart ==
  ASSUME NEW S, NEW n \in Nat, NEW s \in Seq(S), Len(s) = n + 1
  PROVE  \E front \in Seq(S), last \in S :
           /\ s = Append(front, last) /\ Len(front) = n
           /\ front = SubSeq(s, 1, n) /\ last = s[n + 1]
<1> DEFINE front == SubSeq(s, 1, n)
<1>1. front \in Seq(S) /\ Len(front) = n /\ \A i \in 1..n : front[i] = s[i]
  OBVIOUS
<1>2. s[n + 1] \in S
  OBVIOUS
<1>3. s = Append(front, s[n + 1])
  <2>1. /\ Append(front, s[n + 1]) \in Seq(S) /\ Len(Append(front, s[n + 1])) = n + 1
        /\ Append(front, s[n + 1])[n + 1] = s[n + 1]
        /\ \A i \in 1..n : Append(front, s[n + 1])[i] = s[i]
    BY <1>1, <1>2
  <2>2. QED
    BY <2>1
<1>4. QED
  BY <1>1, <1>2, <1>3

\* One more sequence at the front goes to the front.
LEMMA FlattenPrepend ==
  ASSUME NEW T, NEW s \in Seq(T), NEW seqs \in Seq(Seq(T))
  PROVE  FlattenSeq(<<s>> \o seqs) = s \o FlattenSeq(seqs)
<1> DEFINE S == {n \in Nat : \A ss \in Seq(Seq(T)) :
                   Len(ss) = n => FlattenSeq(<<s>> \o ss) = s \o FlattenSeq(ss)}
<1>1. 0 \in S
  <2> SUFFICES ASSUME NEW ss \in Seq(Seq(T)), Len(ss) = 0
               PROVE  FlattenSeq(<<s>> \o ss) = s \o FlattenSeq(ss)
    OBVIOUS
  <2>1. ss = <<>> /\ <<s>> \o ss = Append(<<>>, s)
    OBVIOUS
  <2>2. FlattenSeq(Append(<<>>, s)) = FlattenSeq(<<>>) \o s
    BY <2>1, FlattenAppend
  <2>3. <<>> \o s = s /\ s \o <<>> = s
    OBVIOUS
  <2>4. QED
    BY <2>1, <2>2, <2>3, FlattenEmpty
<1>2. ASSUME NEW n \in Nat, n \in S PROVE n + 1 \in S
  <2>1. ASSUME NEW ss \in Seq(Seq(T)), Len(ss) = n + 1
        PROVE  FlattenSeq(<<s>> \o ss) = s \o FlattenSeq(ss)
    <3>1. PICK front \in Seq(Seq(T)), last \in Seq(T) : ss = Append(front, last) /\ Len(front) = n
      <4>1. \E front \in Seq(Seq(T)), last \in Seq(T) :
              /\ ss = Append(front, last) /\ Len(front) = n
              /\ front = SubSeq(ss, 1, n) /\ last = ss[n + 1]
        BY <2>1, EndIsApart, ZenonT(60)
      <4>2. QED
        BY <4>1, Zenon
    <3>2. FlattenSeq(<<s>> \o front) = s \o FlattenSeq(front)
      BY <1>2, <3>1
    <3>3. <<s>> \o ss = Append(<<s>> \o front, last) /\ <<s>> \o front \in Seq(Seq(T))
      BY <3>1
    <3>4. FlattenSeq(<<s>> \o ss) = FlattenSeq(<<s>> \o front) \o last
      BY <3>3, FlattenAppend
    <3>5. FlattenSeq(ss) = FlattenSeq(front) \o last
      BY <3>1, FlattenAppend
    <3>6. FlattenSeq(front) \in Seq(T)
      BY FlattenType
    <3>7. (s \o FlattenSeq(front)) \o last = s \o (FlattenSeq(front) \o last)
      BY <3>6
    <3>8. QED
      BY <3>2, <3>4, <3>5, <3>7
  <2>2. n + 1 \in Nat
    OBVIOUS
  <2>3. QED
    BY <2>1, <2>2, Zenon
<1> HIDE DEF S
<1>3. Nat \subseteq S
  BY <1>1, <1>2, Induction
<1>4. Len(seqs) \in Nat
  OBVIOUS
<1>5. QED
  BY <1>3, <1>4 DEF S

LEMMA ConcatAssociates ==
  ASSUME NEW T, NEW a \in Seq(T), NEW b \in Seq(T), NEW c \in Seq(T)
  PROVE  (a \o b) \o c = a \o (b \o c)
OBVIOUS

\* Two sequences of sequences, one after the other.
LEMMA FlattenBoth ==
  ASSUME NEW T, NEW ss \in Seq(Seq(T)), NEW tt \in Seq(Seq(T))
  PROVE  FlattenSeq(ss \o tt) = FlattenSeq(ss) \o FlattenSeq(tt)
<1> DEFINE S == {n \in Nat : \A uu \in Seq(Seq(T)) :
                   Len(uu) = n => FlattenSeq(ss \o uu) = FlattenSeq(ss) \o FlattenSeq(uu)}
<1>1. FlattenSeq(ss) \in Seq(T)
  BY FlattenType
<1>2. 0 \in S
  <2> SUFFICES ASSUME NEW uu \in Seq(Seq(T)), Len(uu) = 0
               PROVE  FlattenSeq(ss \o uu) = FlattenSeq(ss) \o FlattenSeq(uu)
    OBVIOUS
  <2>1. uu = <<>> /\ ss \o uu = ss /\ FlattenSeq(ss) \o <<>> = FlattenSeq(ss)
    BY <1>1
  <2>2. QED
    BY <2>1, FlattenEmpty
<1>3. ASSUME NEW n \in Nat, n \in S PROVE n + 1 \in S
  <2>1. ASSUME NEW uu \in Seq(Seq(T)), Len(uu) = n + 1
        PROVE  FlattenSeq(ss \o uu) = FlattenSeq(ss) \o FlattenSeq(uu)
    <3>1. \E front \in Seq(Seq(T)), last \in Seq(T) :
            /\ uu = Append(front, last) /\ Len(front) = n
            /\ front = SubSeq(uu, 1, n) /\ last = uu[n + 1]
      BY <2>1, EndIsApart, ZenonT(60)
    <3>2. PICK front \in Seq(Seq(T)), last \in Seq(T) : uu = Append(front, last) /\ Len(front) = n
      BY <3>1, Zenon
    <3>3. FlattenSeq(ss \o front) = FlattenSeq(ss) \o FlattenSeq(front)
      BY <1>3, <3>2
    <3>4. ss \o uu = Append(ss \o front, last) /\ ss \o front \in Seq(Seq(T))
      BY <3>2
    <3>5. FlattenSeq(ss \o uu) = FlattenSeq(ss \o front) \o last
      BY <3>4, FlattenAppend
    <3>6. FlattenSeq(uu) = FlattenSeq(front) \o last /\ FlattenSeq(front) \in Seq(T)
      BY <3>2, FlattenAppend, FlattenType
    <3>7. (FlattenSeq(ss) \o FlattenSeq(front)) \o last = FlattenSeq(ss) \o (FlattenSeq(front) \o last)
      <4> DEFINE a == FlattenSeq(ss)
                 b == FlattenSeq(front)
      <4>1. a \in Seq(T) /\ b \in Seq(T)
        BY <1>1, <3>6
      <4> HIDE DEF a, b
      <4>2. (a \o b) \o last = a \o (b \o last)
        BY <4>1, ConcatAssociates, SMTT(30)
      <4>3. QED
        BY <4>2 DEF a, b
    <3>8. QED
      BY <3>3, <3>5, <3>6, <3>7
  <2>2. n + 1 \in Nat
    OBVIOUS
  <2>3. QED
    BY <2>1, <2>2, Zenon
<1> HIDE DEF S
<1>4. Nat \subseteq S
  BY <1>2, <1>3, Induction
<1>5. Len(tt) \in Nat
  OBVIOUS
<1>6. QED
  BY <1>4, <1>5 DEF S

-----------------------------------------------------------------------------
(* How far the first k sequences reach.                                     *)

Reach(ss, k) == FlattenSeq(SubSeq(ss, 1, k))

LEMMA ReachEnds ==
  ASSUME NEW T, NEW ss \in Seq(Seq(T))
  PROVE  Reach(ss, 0) = <<>> /\ Reach(ss, Len(ss)) = FlattenSeq(ss)
<1>1. SubSeq(ss, 1, 0) = <<>> /\ SubSeq(ss, 1, Len(ss)) = ss
  OBVIOUS
<1>2. QED
  BY <1>1, FlattenEmpty DEF Reach

LEMMA ReachType ==
  ASSUME NEW T, NEW ss \in Seq(Seq(T)), NEW k \in 0..Len(ss)
  PROVE  Reach(ss, k) \in Seq(T)
<1>1. SubSeq(ss, 1, k) \in Seq(Seq(T))
  OBVIOUS
<1>2. QED
  BY <1>1, FlattenType DEF Reach

LEMMA ReachNext ==
  ASSUME NEW T, NEW ss \in Seq(Seq(T)), NEW k \in Nat, k < Len(ss)
  PROVE  Reach(ss, k + 1) = Reach(ss, k) \o ss[k + 1]
<1>1. /\ SubSeq(ss, 1, k) \in Seq(Seq(T)) /\ ss[k + 1] \in Seq(T)
      /\ SubSeq(ss, 1, k + 1) = Append(SubSeq(ss, 1, k), ss[k + 1])
  <2>1. SubSeq(ss, 1, k) \in Seq(Seq(T)) /\ Len(SubSeq(ss, 1, k)) = k /\ ss[k + 1] \in Seq(T)
    OBVIOUS
  <2>2. /\ SubSeq(ss, 1, k + 1) \in Seq(Seq(T)) /\ Len(SubSeq(ss, 1, k + 1)) = k + 1
        /\ SubSeq(ss, 1, k + 1)[k + 1] = ss[k + 1]
        /\ \A i \in 1..k : SubSeq(ss, 1, k + 1)[i] = SubSeq(ss, 1, k)[i]
    OBVIOUS
  <2>3. /\ Append(SubSeq(ss, 1, k), ss[k + 1]) \in Seq(Seq(T))
        /\ Len(Append(SubSeq(ss, 1, k), ss[k + 1])) = k + 1
        /\ Append(SubSeq(ss, 1, k), ss[k + 1])[k + 1] = ss[k + 1]
        /\ \A i \in 1..k : Append(SubSeq(ss, 1, k), ss[k + 1])[i] = SubSeq(ss, 1, k)[i]
    BY <2>1
  <2>4. QED
    BY <2>1, <2>2, <2>3
<1>2. QED
  BY <1>1, FlattenAppend DEF Reach

Extends(T, ss, k, n) == \E rest \in Seq(T) : Reach(ss, n) = Reach(ss, k) \o rest

\* The first k are where they are whatever follows.
LEMMA ReachGrows ==
  ASSUME NEW T, NEW ss \in Seq(Seq(T)), NEW k \in Nat, NEW n \in Nat, k <= n, n <= Len(ss)
  PROVE  Extends(T, ss, k, n)
<1> DEFINE S == {d \in Nat : k + d <= Len(ss) => Extends(T, ss, k, k + d)}
<1>1. Reach(ss, k) \in Seq(T)
  BY ReachType
<1>2. 0 \in S
  <2>1. <<>> \in Seq(T) /\ Reach(ss, k) \o <<>> = Reach(ss, k) /\ k + 0 = k
    BY <1>1
  <2>2. Extends(T, ss, k, k + 0)
    BY <2>1 DEF Extends
  <2>3. QED
    BY <2>2
<1>3. ASSUME NEW d \in Nat, d \in S PROVE d + 1 \in S
  <2>1. ASSUME k + (d + 1) <= Len(ss) PROVE Extends(T, ss, k, k + (d + 1))
    <3>1. Extends(T, ss, k, k + d)
      BY <1>3, <2>1
    <3>2. PICK rest \in Seq(T) : Reach(ss, k + d) = Reach(ss, k) \o rest
      BY <3>1 DEF Extends
    <3>3. k + d \in Nat /\ k + d < Len(ss) /\ k + (d + 1) = (k + d) + 1 /\ (k + d) + 1 \in 1..Len(ss)
      BY <2>1
    <3>4. ss[(k + d) + 1] \in Seq(T)
      BY <3>3
    <3>5. Reach(ss, (k + d) + 1) = Reach(ss, k + d) \o ss[(k + d) + 1]
      BY <3>3, ReachNext
    <3>6. rest \o ss[(k + d) + 1] \in Seq(T)
      BY <3>4
    <3>7. Reach(ss, (k + d) + 1) = Reach(ss, k) \o (rest \o ss[(k + d) + 1])
      <4> DEFINE a == Reach(ss, k)
                 c == ss[(k + d) + 1]
      <4>1. a \in Seq(T) /\ c \in Seq(T)
        BY <1>1, <3>4
      <4> HIDE DEF a, c
      <4>2. (a \o rest) \o c = a \o (rest \o c)
        BY <4>1, ConcatAssociates, SMTT(30)
      <4>3. QED
        BY <3>2, <3>5, <4>2 DEF a, c
    <3>8. QED
      BY <3>3, <3>6, <3>7 DEF Extends
  <2>2. d + 1 \in Nat
    OBVIOUS
  <2>3. QED
    BY <2>1, <2>2
<1> HIDE DEF S
<1>4. Nat \subseteq S
  BY <1>2, <1>3, Induction
<1>5. n - k \in Nat /\ k + (n - k) = n
  OBVIOUS
<1>6. QED
  BY <1>4, <1>5 DEF S

\* What follows the first k sequences is the next one.
LEMMA AfterThese ==
  ASSUME NEW T, NEW ss \in Seq(Seq(T)), NEW k \in Nat, k < Len(ss)
  PROVE  /\ Len(Reach(ss, k)) + Len(ss[k + 1]) <= Len(FlattenSeq(ss))
         /\ \A q \in 1..Len(ss[k + 1]) : FlattenSeq(ss)[Len(Reach(ss, k)) + q] = ss[k + 1][q]
<1>1. k + 1 \in Nat /\ k + 1 <= Len(ss) /\ k \in 0..Len(ss) /\ Len(ss) \in Nat /\ ss[k + 1] \in Seq(T)
  OBVIOUS
<1>2. PICK rest \in Seq(T) : Reach(ss, Len(ss)) = Reach(ss, k + 1) \o rest
  <2>1. Extends(T, ss, k + 1, Len(ss))
    BY <1>1, ReachGrows
  <2>2. QED
    BY <2>1 DEF Extends
<1>3. Reach(ss, k + 1) = Reach(ss, k) \o ss[k + 1] /\ Reach(ss, k) \in Seq(T)
  BY <1>1, ReachNext, ReachType
<1>4. Reach(ss, Len(ss)) = FlattenSeq(ss)
  BY ReachEnds
<1> DEFINE a == Reach(ss, k)
           b == ss[k + 1]
<1>5. a \in Seq(T) /\ b \in Seq(T) /\ FlattenSeq(ss) = (a \o b) \o rest
  BY <1>1, <1>2, <1>3, <1>4
<1> HIDE DEF a, b
<1>6. Len(a) + Len(b) <= Len((a \o b) \o rest)
  BY <1>5
<1>7. ASSUME NEW q \in 1..Len(b) PROVE ((a \o b) \o rest)[Len(a) + q] = b[q]
  <2>1. Len(a) + q \in 1..Len(a \o b) /\ a \o b \in Seq(T)
    BY <1>5
  <2>2. ((a \o b) \o rest)[Len(a) + q] = (a \o b)[Len(a) + q]
    BY <2>1
  <2>3. (a \o b)[Len(a) + q] = b[q]
    BY <1>5
  <2>4. QED
    BY <2>2, <2>3
<1>8. QED
  BY <1>5, <1>6, <1>7 DEF a, b

\* Sequences of one element each.
LEMMA FlattenSingles ==
  ASSUME NEW T, NEW s \in Seq(T)
  PROVE  FlattenSeq([i \in DOMAIN s |-> <<s[i]>>]) = s
<1> DEFINE ss == [i \in 1..Len(s) |-> <<s[i]>>]
           S == {k \in Nat : k <= Len(s) => Reach(ss, k) = SubSeq(s, 1, k)}
<1>1. ss \in Seq(Seq(T)) /\ Len(ss) = Len(s) /\ \A i \in 1..Len(s) : ss[i] = <<s[i]>>
  OBVIOUS
<1> HIDE DEF ss
<1>2. 0 \in S
  <2>1. SubSeq(s, 1, 0) = <<>> /\ Reach(ss, 0) = <<>>
    BY <1>1, ReachEnds
  <2>2. QED
    BY <2>1
<1>3. ASSUME NEW k \in Nat, k \in S PROVE k + 1 \in S
  <2>1. ASSUME k + 1 <= Len(s) PROVE Reach(ss, k + 1) = SubSeq(s, 1, k + 1)
    <3>1. Reach(ss, k) = SubSeq(s, 1, k)
      BY <1>3, <2>1
    <3>2. Reach(ss, k + 1) = Reach(ss, k) \o ss[k + 1] /\ ss[k + 1] = <<s[k + 1]>>
      <4>1. k < Len(ss) /\ k + 1 \in 1..Len(s)
        BY <1>1, <2>1
      <4>2. Reach(ss, k + 1) = Reach(ss, k) \o ss[k + 1]
        BY <1>1, <4>1, ReachNext
      <4>3. QED
        BY <1>1, <4>1, <4>2
    <3>3. SubSeq(s, 1, k) \o <<s[k + 1]>> = SubSeq(s, 1, k + 1)
      BY <2>1
    <3>4. QED
      BY <3>1, <3>2, <3>3
  <2>2. QED
    BY <2>1
<1> HIDE DEF S
<1>4. Nat \subseteq S
  BY <1>2, <1>3, Induction
<1>5. Reach(ss, Len(s)) = SubSeq(s, 1, Len(s)) /\ SubSeq(s, 1, Len(s)) = s
  BY <1>4 DEF S
<1>6. Reach(ss, Len(s)) = FlattenSeq(ss)
  BY <1>1, ReachEnds
<1>7. ss = [i \in DOMAIN s |-> <<s[i]>>]
  BY DEF ss
<1>8. QED
  BY <1>5, <1>6, <1>7
=============================================================================
