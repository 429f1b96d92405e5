-------------------------- MODULE ApprovalTextProofs --------------------------
(***************************************************************************)
(* What is on the rows of a hint is the beginning of the hint, for every   *)
(* hint, size of buffer and size of screen (utf8WrapInto).                 *)
(***************************************************************************)
EXTENDS ApprovalText, TLAPS, FiniteSetTheorems, SequenceTheorems, WellFoundedInduction

--------------------------------------------------------------------------------
(* What holds of 0, and of n + 1 if of n, holds up to m.                   *)
LEMMA UpTo ==
  ASSUME NEW m \in Nat, NEW S, 0 \in S, \A n \in 0..(m - 1) : n \in S => n + 1 \in S
  PROVE  0..m \subseteq S
<1> DEFINE T == {n \in 0..m : n \notin S}
<1>1. SUFFICES ASSUME T # {}
               PROVE  FALSE
  OBVIOUS
<1>2. T \subseteq Nat
  OBVIOUS
<1>3. PICK x \in T : \A y \in T : ~(<<y, x>> \in OpToRel(<, Nat))
  <2> HIDE DEF T
  <2>1. QED
    BY ONLY <1>1, <1>2, NatLessThanWellFounded, WFMin
<1>4. \A y \in T : ~(y < x)
  BY <1>2, <1>3 DEF OpToRel
<1>5. x \in 0..m /\ x # 0 /\ x \notin S
  OBVIOUS
<1>6. x - 1 \in 0..(m - 1) /\ x - 1 \in 0..m /\ x - 1 < x /\ (x - 1) + 1 = x
  BY <1>5
<1>7. x - 1 \in S
  BY <1>4, <1>6
<1>8. QED
  BY <1>5, <1>6, <1>7

(* The characters of s at the places of P among the first m, one by one.   *)
Picked(s, P, g, m) ==
  /\ g \in [0..m -> Seq(Chars)]
  /\ g[0] = << >> /\ \A i \in 1..m : g[i] = IF i \in P THEN Append(g[i - 1], s[i]) ELSE g[i - 1]

LEMMA ToldExists ==
  ASSUME NEW s \in Seq(Chars), NEW P
  PROVE  \E g : Picked(s, P, g, Len(s))
<1> DEFINE N == Len(s)
           S == {n \in 0..N : \E g : Picked(s, P, g, n)}
<1>0. N \in Nat /\ \A i \in 1..N : s[i] \in Chars
  OBVIOUS
<1>1. 0 \in S
  <2> DEFINE g == [n \in 0..0 |-> << >>]
  <2>1. << >> \in Seq(Chars)
    BY EmptySeq
  <2>2. Picked(s, P, g, 0)
    BY <2>1 DEF Picked
  <2>3. QED
    BY <1>0, <2>2
<1>2. ASSUME NEW n \in 0..(N - 1), n \in S
      PROVE  n + 1 \in S
  <2>0. n \in Nat /\ n + 1 \in 1..N
    BY <1>0
  <2>1. PICK g : Picked(s, P, g, n)
    BY <1>2
  <2> DEFINE more == IF n + 1 \in P THEN Append(g[n], s[n + 1]) ELSE g[n]
             h == [i \in 0..(n + 1) |-> IF i = n + 1 THEN more ELSE g[i]]
  <2>2. h \in [0..(n + 1) -> Seq(Chars)]
    <3>1. \A i \in 0..(n + 1) : i # n + 1 => i \in 0..n
      BY <2>0
    <3>2. n \in 0..n
      BY <2>0
    <3>3. g[n] \in Seq(Chars) /\ s[n + 1] \in Chars
      BY <1>0, <2>0, <2>1, <3>2 DEF Picked
    <3>4. more \in Seq(Chars)
      BY <3>3, AppendProperties
    <3>5. \A i \in 0..n : g[i] \in Seq(Chars)
      BY <2>1 DEF Picked
    <3> HIDE DEF more
    <3>6. QED
      BY <3>1, <3>4, <3>5
  <2>3. h[0] = << >>
    <3>1. 0 \in 0..(n + 1) /\ 0 # n + 1 /\ g[0] = << >>
      BY <2>0, <2>1 DEF Picked
    <3>2. QED
      BY <3>1
  <2>4. ASSUME NEW i \in 1..(n + 1)
        PROVE  h[i] = IF i \in P THEN Append(h[i - 1], s[i]) ELSE h[i - 1]
    <3>1. i \in 0..(n + 1) /\ i - 1 \in 0..(n + 1) /\ i - 1 # n + 1
      BY <2>0
    <3>2. h[i - 1] = g[i - 1]
      BY <3>1
    <3>3. CASE i = n + 1
      <4>1. i - 1 = n
        BY <2>0, <3>3
      <4>2. QED
        BY <3>1, <3>2, <3>3, <4>1
    <3>4. CASE i # n + 1
      <4>1. i \in 1..n
        BY <2>0, <3>4
      <4>2. g[i] = IF i \in P THEN Append(g[i - 1], s[i]) ELSE g[i - 1]
        BY <2>1, <4>1 DEF Picked
      <4>3. h[i] = g[i]
        BY <3>1, <3>4
      <4> HIDE DEF h
      <4>4. QED
        BY <3>2, <4>2, <4>3
    <3>5. QED
      BY <3>3, <3>4
  <2> HIDE DEF h
  <2>5. Picked(s, P, h, n + 1)
    BY <2>2, <2>3, <2>4 DEF Picked
  <2>6. QED
    BY <2>0, <2>5
<1> HIDE DEF S, N
<1>3. 0..N \subseteq S
  BY <1>0, <1>1, <1>2, UpTo
<1>4. N \in S
  BY <1>0, <1>3
<1>5. QED
  BY <1>4 DEF S, N

Alike(s, t, P, Q, m) == \A i \in 1..m : s[i] = t[i] /\ (i \in P <=> i \in Q)

(* Two such records agree as far as their places do.                       *)
LEMMA ToldAgree ==
  ASSUME NEW s, NEW t, NEW P, NEW Q, NEW m \in Nat, NEW g, NEW h, NEW p \in Nat, NEW q \in Nat,
         Picked(s, P, g, p), Picked(t, Q, h, q), m <= p, m <= q, Alike(s, t, P, Q, m)
  PROVE  g[m] = h[m]
<1> DEFINE S == {i \in 0..m : g[i] = h[i]}
<1>1. 0 \in S
  BY DEF Picked
<1>2. ASSUME NEW n \in 0..(m - 1), n \in S
      PROVE  n + 1 \in S
  <2>1. n + 1 \in 1..m /\ n + 1 \in 0..m /\ n + 1 \in 1..p /\ n + 1 \in 1..q /\ (n + 1) - 1 = n
    OBVIOUS
  <2>2. g[n] = h[n]
    BY <1>2
  <2>3. s[n + 1] = t[n + 1] /\ (n + 1 \in P <=> n + 1 \in Q)
    BY <2>1 DEF Alike
  <2>4. g[n + 1] = IF n + 1 \in P THEN Append(g[n], s[n + 1]) ELSE g[n]
    BY <2>1 DEF Picked
  <2>5. h[n + 1] = IF n + 1 \in Q THEN Append(h[n], t[n + 1]) ELSE h[n]
    BY <2>1 DEF Picked
  <2>6. g[n + 1] = h[n + 1]
    BY <2>2, <2>3, <2>4, <2>5
  <2>7. QED
    BY <2>1, <2>6
<1> HIDE DEF S
<1>3. 0..m \subseteq S
  BY <1>1, <1>2, UpTo
<1>4. QED
  BY <1>3 DEF S

LEMMA ChosenByRecord ==
  ASSUME NEW s \in Seq(Chars), NEW P, NEW g, Picked(s, P, g, Len(s))
  PROVE  Chosen(s, P) = g[Len(s)] /\ Chosen(s, P) \in Seq(Chars)
<1> DEFINE m == Len(s)
           It(f) == [i \in 0..m |-> IF i = 0 THEN << >> ELSE IF i \in P THEN Append(f[i - 1], s[i]) ELSE f[i - 1]]
           told == CHOOSE f : f = It(f)
<1>0. m \in Nat /\ m \in 0..m
  OBVIOUS
<1>1. g = It(g)
  <2>1. \A i \in 0..m : i # 0 => i \in 1..m
    BY <1>0
  <2>2. QED
    BY <2>1 DEF Picked
<1>2. told = It(told)
  <2> HIDE DEF It
  <2>1. QED
    BY <1>1
<1>3. Chosen(s, P) = told[m]
  BY DEF Chosen
<1>4. \A i \in 0..m : told[i] = IF i = 0 THEN << >> ELSE IF i \in P THEN Append(told[i - 1], s[i]) ELSE told[i - 1]
  <2> HIDE DEF told
  <2>1. QED
    BY <1>2
<1>5. told[m] = g[m]
  <2> DEFINE S == {i \in 0..m : told[i] = g[i]}
  <2> HIDE DEF told
  <2>1. 0 \in S
    BY <1>0, <1>4 DEF Picked
  <2>2. ASSUME NEW n \in 0..(m - 1), n \in S
        PROVE  n + 1 \in S
    <3>1. n + 1 \in 1..m /\ n + 1 \in 0..m /\ (n + 1) - 1 = n /\ n + 1 # 0
      BY <1>0
    <3>2. told[n] = g[n]
      BY <2>2
    <3>3. told[n + 1] = IF n + 1 \in P THEN Append(told[n], s[n + 1]) ELSE told[n]
      BY <1>4, <3>1
    <3>4. g[n + 1] = IF n + 1 \in P THEN Append(g[n], s[n + 1]) ELSE g[n]
      BY <3>1 DEF Picked
    <3>5. told[n + 1] = g[n + 1]
      BY <3>2, <3>3, <3>4
    <3>6. QED
      BY <3>1, <3>5
  <2> HIDE DEF S, m
  <2>3. 0..m \subseteq S
    BY <1>0, <2>1, <2>2, UpTo
  <2>4. QED
    BY <1>0, <2>3 DEF S
<1>6. g[m] \in Seq(Chars)
  BY <1>0 DEF Picked
<1>7. QED
  BY <1>3, <1>5, <1>6

LEMMA ChosenTyped ==
  ASSUME NEW s \in Seq(Chars), NEW P
  PROVE  Chosen(s, P) \in Seq(Chars)
BY ToldExists, ChosenByRecord

LEMMA NoneChosen == \A P : Chosen(<< >>, P) = << >>
<1> SUFFICES ASSUME NEW P
             PROVE  Chosen(<< >>, P) = << >>
  OBVIOUS
<1>1. << >> \in Seq(Chars) /\ Len(<< >>) = 0
  BY EmptySeq
<1>2. PICK g : Picked(<< >>, P, g, Len(<< >>))
  BY <1>1, ToldExists
<1>3. g[0] = << >>
  BY <1>2 DEF Picked
<1>4. QED
  BY <1>1, <1>2, <1>3, ChosenByRecord

(* One more character.                                                     *)
LEMMA ChosenStep ==
  ASSUME NEW s \in Seq(Chars), NEW c \in Chars, NEW P, NEW Q,
         \A i \in 1..Len(s) : i \in P <=> i \in Q
  PROVE  Chosen(Append(s, c), P) =
           IF Len(s) + 1 \in P THEN Append(Chosen(s, Q), c) ELSE Chosen(s, Q)
<1> DEFINE n == Len(s)
           t == Append(s, c)
<1>1. /\ t \in Seq(Chars) /\ Len(t) = n + 1 /\ n \in Nat
      /\ \A i \in 1..n : t[i] = s[i]
      /\ t[n + 1] = c
  BY AppendProperties
<1> HIDE DEF t
<1>2. PICK g : Picked(t, P, g, n + 1)
  BY <1>1, ToldExists
<1>3. PICK h : Picked(s, Q, h, n)
  BY ToldExists
<1>4. Chosen(t, P) = g[n + 1]
  BY <1>1, <1>2, ChosenByRecord
<1>5. Chosen(s, Q) = h[n]
  BY <1>3, ChosenByRecord
<1>6. g[n] = h[n]
  <2> HIDE DEF n
  <2>1. n + 1 \in Nat /\ n <= n + 1 /\ n <= n
    BY <1>1
  <2>2. Alike(t, s, P, Q, n)
    BY <1>1 DEF n, Alike
  <2>3. QED
    BY ONLY <1>1, <1>2, <1>3, <2>1, <2>2, ToldAgree
<1>7. n + 1 \in 1..(n + 1) /\ (n + 1) - 1 = n
  BY <1>1
<1>8. g[n + 1] = IF n + 1 \in P THEN Append(g[n], t[n + 1]) ELSE g[n]
  BY <1>2, <1>7 DEF Picked
<1>9. QED
  BY <1>1, <1>4, <1>5, <1>6, <1>8 DEF t

LEMMA LettersStep ==
  ASSUME NEW s \in Seq(Chars), NEW c \in Chars
  PROVE  Letters(Append(s, c)) = IF c # " " THEN Append(Letters(s), c) ELSE Letters(s)
<1> DEFINE t == Append(s, c)
           n == Len(s)
           P == {i \in DOMAIN t : t[i] # " "}
           Q == {i \in DOMAIN s : s[i] # " "}
<1>1. /\ n \in Nat /\ DOMAIN t = 1..(n + 1) /\ DOMAIN s = 1..n
      /\ \A i \in 1..n : t[i] = s[i]
      /\ t[n + 1] = c
  BY AppendProperties, LenProperties
<1>2. Letters(t) = Chosen(t, P) /\ Letters(s) = Chosen(s, Q)
  BY DEF Letters
<1>3. \A i : i \in P <=> i \in 1..(n + 1) /\ t[i] # " "
  <2> HIDE DEF t
  <2>1. QED
    BY ONLY <1>1
<1>4. \A i : i \in Q <=> i \in 1..n /\ s[i] # " "
  BY ONLY <1>1
<1> HIDE DEF P, Q, n, t
<1>5. \A i \in 1..n : i \in 1..(n + 1)
  BY ONLY <1>1
<1>6. n + 1 \in 1..(n + 1)
  BY ONLY <1>1
<1>7. \A i \in 1..n : i \in P <=> i \in Q
  BY ONLY <1>1, <1>3, <1>4, <1>5
<1>8. n + 1 \in P <=> c # " "
  BY ONLY <1>1, <1>3, <1>6
<1>9. Chosen(t, P) = IF n + 1 \in P THEN Append(Chosen(s, Q), c) ELSE Chosen(s, Q)
  BY <1>7, ChosenStep DEF n, t
<1>10. QED
  BY <1>2, <1>8, <1>9 DEF n, t

LEMMA SpacedStep ==
  ASSUME NEW s \in Seq(Chars), NEW c \in Chars
  PROVE  Spaced(Append(s, c)) =
           IF c # " " \/ (Len(s) > 0 /\ s[Len(s)] # " ") THEN Append(Spaced(s), c) ELSE Spaced(s)
<1> DEFINE t == Append(s, c)
           n == Len(s)
           P == {i \in DOMAIN t : t[i] # " " \/ (i > 1 /\ t[i - 1] # " ")}
           Q == {i \in DOMAIN s : s[i] # " " \/ (i > 1 /\ s[i - 1] # " ")}
<1>1. /\ n \in Nat /\ DOMAIN t = 1..(n + 1) /\ DOMAIN s = 1..n
      /\ \A i \in 1..n : t[i] = s[i]
      /\ t[n + 1] = c
  BY AppendProperties, LenProperties
<1>2. Spaced(t) = Chosen(t, P) /\ Spaced(s) = Chosen(s, Q)
  BY DEF Spaced
<1>3. \A i : i \in P <=> i \in 1..(n + 1) /\ (t[i] # " " \/ (i > 1 /\ t[i - 1] # " "))
  <2> HIDE DEF t
  <2>1. QED
    BY ONLY <1>1
<1>4. \A i : i \in Q <=> i \in 1..n /\ (s[i] # " " \/ (i > 1 /\ s[i - 1] # " "))
  BY ONLY <1>1
<1> HIDE DEF P, Q, n, t
<1>5. \A i \in 1..n : i \in 1..(n + 1) /\ (i > 1 => i - 1 \in 1..n)
  BY ONLY <1>1
<1>6. n + 1 \in 1..(n + 1) /\ (n + 1) - 1 = n /\ (n + 1 > 1 <=> n > 0) /\ (n > 0 => n \in 1..n)
  BY ONLY <1>1
<1>7. \A i \in 1..n : i \in P <=> i \in Q
  BY ONLY <1>1, <1>3, <1>4, <1>5
<1>8. n + 1 \in P <=> c # " " \/ (n > 0 /\ s[n] # " ")
  BY ONLY <1>1, <1>3, <1>6
<1>9. Chosen(t, P) = IF n + 1 \in P THEN Append(Chosen(s, Q), c) ELSE Chosen(s, Q)
  BY <1>7, ChosenStep DEF n, t
<1>10. QED
  BY <1>2, <1>8, <1>9 DEF n, t

--------------------------------------------------------------------------------
(* Bytes and cells, character by character.                                *)
Wides(s) == {i \in DOMAIN s : s[i] = "w"}

LEMMA WidesAre ==
  ASSUME NEW s \in Seq(Chars)
  PROVE  IsFiniteSet(Wides(s)) /\ Cardinality(Wides(s)) \in Nat
<1>1. Len(s) \in Nat /\ Wides(s) \subseteq 1..Len(s)
  BY LenProperties DEF Wides
<1>2. IsFiniteSet(1..Len(s))
  BY <1>1, FS_Interval
<1>3. QED
  BY <1>1, <1>2, FS_Subset, FS_CardinalityType

LEMMA SizesTyped ==
  ASSUME NEW s \in Seq(Chars)
  PROVE  Bytes(s) \in Nat /\ Cells(s) \in Nat
<1>1. Len(s) \in Nat /\ Cardinality(Wides(s)) \in Nat
  BY WidesAre, LenProperties
<1>2. Bytes(s) = Len(s) + 2 * Cardinality(Wides(s)) /\ Cells(s) = Len(s) + Cardinality(Wides(s))
  BY DEF Bytes, Cells, Wides
<1>3. QED
  BY <1>1, <1>2

LEMMA NothingHasNoSize == Bytes(<< >>) = 0 /\ Cells(<< >>) = 0
<1>1. Len(<< >>) = 0
  BY EmptySeq
<1>2. {i \in DOMAIN << >> : << >>[i] = "w"} = {}
  OBVIOUS
<1>3. Cardinality({}) = 0
  BY FS_EmptySet
<1> HIDE DEF Bytes
<1>4. QED
  BY <1>1, <1>2, <1>3 DEF Bytes, Cells

LEMMA SizesStep ==
  ASSUME NEW s \in Seq(Chars), NEW c \in Chars
  PROVE  /\ Bytes(Append(s, c)) = Bytes(s) + IF c = "w" THEN 3 ELSE 1
         /\ Cells(Append(s, c)) = Cells(s) + IF c = "w" THEN 2 ELSE 1
<1> DEFINE t == Append(s, c)
           n == Len(s)
           C == Cardinality(Wides(s))
           D == Cardinality(Wides(t))
<1>1. /\ n \in Nat /\ DOMAIN t = 1..(n + 1) /\ DOMAIN s = 1..n
      /\ \A i \in 1..n : t[i] = s[i]
      /\ t[n + 1] = c /\ Len(t) = n + 1
  BY AppendProperties, LenProperties
<1>2. IsFiniteSet(Wides(s)) /\ C \in Nat
  BY WidesAre
<1>3. \A i : i \in Wides(t) <=> i \in 1..(n + 1) /\ t[i] = "w"
  <2> HIDE DEF t
  <2>1. QED
    BY ONLY <1>1 DEF Wides
<1>4. \A i : i \in Wides(s) <=> i \in 1..n /\ s[i] = "w"
  BY ONLY <1>1 DEF Wides
<1>5. D = IF c = "w" THEN C + 1 ELSE C
  <2> HIDE DEF t, n
  <2>1. n + 1 \in 1..(n + 1) /\ n + 1 \notin 1..n /\ \A i \in 1..(n + 1) : i \in 1..n \/ i = n + 1
    BY ONLY <1>1
  <2>2. \A i \in 1..n : i \in 1..(n + 1)
    BY ONLY <1>1
  <2>3. n + 1 \notin Wides(s)
    BY ONLY <2>1, <1>4
  <2>4. CASE c = "w"
    <3>1. Wides(t) = Wides(s) \cup {n + 1}
      BY ONLY <1>1, <1>3, <1>4, <2>1, <2>2, <2>4
    <3>2. QED
      BY <1>2, <2>3, <2>4, <3>1, FS_AddElement
  <2>5. CASE c # "w"
    <3>1. Wides(t) = Wides(s)
      BY ONLY <1>1, <1>3, <1>4, <2>1, <2>2, <2>5
    <3>2. QED
      BY <2>5, <3>1
  <2>6. QED
    BY <2>4, <2>5
<1>6. Bytes(t) = Len(t) + 2 * D /\ Cells(t) = Len(t) + D /\ Bytes(s) = n + 2 * C /\ Cells(s) = n + C
  BY DEF Bytes, Cells, Wides
<1> HIDE DEF t, n, C, D
<1>7. Bytes(t) = Bytes(s) + (IF c = "w" THEN 3 ELSE 1) /\ Cells(t) = Cells(s) + (IF c = "w" THEN 2 ELSE 1)
  BY <1>1, <1>2, <1>5, <1>6
<1>8. QED
  BY <1>7 DEF t

LEMMA PrefixStep ==
  ASSUME NEW S, NEW s \in Seq(S)
  PROVE  /\ Prefix(s, 0) = << >> /\ Prefix(s, Len(s)) = s
         /\ \A n \in 0..Len(s) : Prefix(s, n) \in Seq(S) /\ Len(Prefix(s, n)) = n
                                 /\ \A i \in 1..n : Prefix(s, n)[i] = s[i]
         /\ \A n \in 0..(Len(s) - 1) :
              s[n + 1] \in S /\ Prefix(s, n + 1) = Append(Prefix(s, n), s[n + 1])
<1>0. Len(s) \in Nat /\ \A i \in 1..Len(s) : s[i] \in S
  BY LenProperties
<1>1. Prefix(s, 0) = << >>
  BY SubSeqEmpty DEF Prefix
<1>2. Prefix(s, Len(s)) = s
  BY SubSeqFull DEF Prefix
<1>3. ASSUME NEW n \in 0..Len(s)
      PROVE  /\ Prefix(s, n) \in Seq(S) /\ Len(Prefix(s, n)) = n
             /\ \A i \in 1..n : Prefix(s, n)[i] = s[i]
  <2>1. n \in Int /\ 1 \in Int /\ \A i \in 1..n : s[i] \in S
    BY <1>0
  <2>2. /\ SubSeq(s, 1, n) \in Seq(S)
        /\ Len(SubSeq(s, 1, n)) = IF 1 <= n THEN n - 1 + 1 ELSE 0
        /\ \A i \in 1..(n - 1 + 1) : SubSeq(s, 1, n)[i] = s[1 + i - 1]
    BY <2>1, SubSeqProperties
  <2>3. n - 1 + 1 = n /\ \A i \in 1..n : 1 + i - 1 = i
    BY <2>1
  <2>4. (IF 1 <= n THEN n - 1 + 1 ELSE 0) = n
    BY <2>1
  <2>5. QED
    BY <2>2, <2>3, <2>4 DEF Prefix
<1>4. ASSUME NEW n \in 0..(Len(s) - 1)
      PROVE  s[n + 1] \in S /\ Prefix(s, n + 1) = Append(Prefix(s, n), s[n + 1])
  <2>1. /\ n + 1 \in 0..Len(s) /\ n \in 0..Len(s) /\ n + 1 \in 1..Len(s) /\ n \in Nat
    BY <1>0
  <2>2. s[n + 1] \in S
    BY <1>0, <2>1
  <2> DEFINE p == Prefix(s, n)
             q == Prefix(s, n + 1)
             a == Append(p, s[n + 1])
  <2>3. p \in Seq(S) /\ Len(p) = n /\ \A i \in 1..n : p[i] = s[i]
    BY <1>3, <2>1
  <2>4. q \in Seq(S) /\ Len(q) = n + 1 /\ \A i \in 1..(n + 1) : q[i] = s[i]
    BY <1>3, <2>1
  <2>5. /\ a \in Seq(S) /\ Len(a) = Len(p) + 1
        /\ \A i \in 1..Len(p) : a[i] = p[i]
        /\ a[Len(p) + 1] = s[n + 1]
    BY <2>2, <2>3, AppendProperties
  <2> HIDE DEF p, q, a
  <2>6. \A i \in 1..(n + 1) : a[i] = q[i]
    BY <2>1, <2>3, <2>4, <2>5
  <2>7. Len(a) = Len(q) /\ \A i \in 1..Len(q) : q[i] = a[i]
    BY <2>3, <2>4, <2>5, <2>6
  <2>8. q = a
    BY ONLY <2>4, <2>5, <2>7, SeqEqual
  <2>9. QED
    BY <2>2, <2>8 DEF p, q, a
<1>5. QED
  BY <1>1, <1>2, <1>3, <1>4

LEMMA ConcatStep ==
  ASSUME NEW S, NEW s \in Seq(S), NEW t \in Seq(S), NEW c \in S
  PROVE  s \o Append(t, c) = Append(s \o t, c)
<1>1. <<c>> \in Seq(S)
  OBVIOUS
<1>2. s \o Append(t, c) = s \o (t \o <<c>>)
  BY AppendIsConcat
<1>3. s \o (t \o <<c>>) = (s \o t) \o <<c>>
  BY <1>1, ConcatAssociative
<1>4. s \o t \in Seq(S)
  BY ConcatProperties
<1>5. (s \o t) \o <<c>> = Append(s \o t, c)
  BY <1>4, AppendIsConcat
<1>6. QED
  BY <1>2, <1>3, <1>5

GrowsTo(S, s, t) ==
  /\ s \o Prefix(t, 0) = s /\ Prefix(t, 0) = << >> /\ Prefix(t, Len(t)) = t
  /\ \A n \in 0..(Len(t) - 1) :
       /\ t[n + 1] \in S /\ Prefix(t, n) \in Seq(S) /\ s \o Prefix(t, n) \in Seq(S)
       /\ Prefix(t, n + 1) = Append(Prefix(t, n), t[n + 1])
       /\ s \o Prefix(t, n + 1) = Append(s \o Prefix(t, n), t[n + 1])

LEMMA ConcatPrefix ==
  ASSUME NEW S, NEW s \in Seq(S), NEW t \in Seq(S)
  PROVE  GrowsTo(S, s, t)
<1>0. Len(t) \in Nat
  BY LenProperties
<1>1. Prefix(t, 0) = << >> /\ Prefix(t, Len(t)) = t
  BY PrefixStep
<1>2. s \o << >> = s
  BY ConcatEmptySeq
<1>3. ASSUME NEW n \in 0..(Len(t) - 1)
      PROVE  /\ t[n + 1] \in S /\ Prefix(t, n) \in Seq(S) /\ s \o Prefix(t, n) \in Seq(S)
             /\ Prefix(t, n + 1) = Append(Prefix(t, n), t[n + 1])
             /\ s \o Prefix(t, n + 1) = Append(s \o Prefix(t, n), t[n + 1])
  <2> DEFINE c == t[n + 1]
             p == Prefix(t, n)
  <2>1. n \in 0..Len(t)
    BY <1>0
  <2>2. c \in S /\ Prefix(t, n + 1) = Append(p, c)
    BY PrefixStep
  <2>3. p \in Seq(S)
    BY <2>1, PrefixStep
  <2> HIDE DEF p, c
  <2>4. s \o Append(p, c) = Append(s \o p, c)
    BY <2>2, <2>3, ConcatStep
  <2>5. s \o p \in Seq(S)
    BY <2>3, ConcatProperties
  <2>6. QED
    BY <2>2, <2>3, <2>4, <2>5 DEF p, c
<1>4. QED
  BY <1>1, <1>2, <1>3 DEF GrowsTo

(* What grows with each character is the sum, or the concatenation, of the *)
(* parts.                                                                  *)
LEMMA SizesAdd ==
  ASSUME NEW s \in Seq(Chars), NEW t \in Seq(Chars)
  PROVE  Bytes(s \o t) = Bytes(s) + Bytes(t) /\ Cells(s \o t) = Cells(s) + Cells(t)
<1> DEFINE p(n) == Prefix(t, n)
           q(n) == s \o Prefix(t, n)
           S == {n \in 0..Len(t) : /\ Bytes(q(n)) = Bytes(s) + Bytes(p(n))
                                   /\ Cells(q(n)) = Cells(s) + Cells(p(n))}
<1>0. Len(t) \in Nat
  BY LenProperties
<1>1. /\ q(0) = s /\ p(0) = << >> /\ p(Len(t)) = t /\ q(Len(t)) = s \o t
      /\ \A n \in 0..(Len(t) - 1) :
           /\ t[n + 1] \in Chars /\ p(n) \in Seq(Chars) /\ q(n) \in Seq(Chars)
           /\ p(n + 1) = Append(p(n), t[n + 1])
           /\ q(n + 1) = Append(q(n), t[n + 1])
  <2>1. GrowsTo(Chars, s, t)
    BY ConcatPrefix
  <2>2. QED
    BY <2>1 DEF GrowsTo
<1> HIDE DEF p, q
<1>2. 0 \in S
  <2>1. Bytes(s) \in Nat /\ Cells(s) \in Nat
    BY SizesTyped
  <2>2. Bytes(q(0)) = Bytes(s) + Bytes(p(0)) /\ Cells(q(0)) = Cells(s) + Cells(p(0))
    BY <1>1, <2>1, NothingHasNoSize
  <2>3. QED
    BY <1>0, <2>2
<1>3. ASSUME NEW n \in 0..(Len(t) - 1), n \in S
      PROVE  n + 1 \in S
  <2>1. n + 1 \in 0..Len(t) /\ n \in 0..Len(t)
    BY <1>0
  <2> DEFINE c == t[n + 1]
             by == IF c = "w" THEN 3 ELSE 1
             cl == IF c = "w" THEN 2 ELSE 1
  <2>2. by \in Nat /\ cl \in Nat
    OBVIOUS
  <2>3. Bytes(q(n)) = Bytes(s) + Bytes(p(n)) /\ Cells(q(n)) = Cells(s) + Cells(p(n))
    BY <1>3
  <2>4. Bytes(q(n + 1)) = Bytes(q(n)) + by /\ Cells(q(n + 1)) = Cells(q(n)) + cl
    BY <1>1, SizesStep, ZenonT(60)
  <2>5. Bytes(p(n + 1)) = Bytes(p(n)) + by /\ Cells(p(n + 1)) = Cells(p(n)) + cl
    BY <1>1, SizesStep, ZenonT(60)
  <2>6. Bytes(s) \in Nat /\ Cells(s) \in Nat /\ Bytes(p(n)) \in Nat /\ Cells(p(n)) \in Nat
    BY <1>1, SizesTyped
  <2> HIDE DEF by, cl
  <2>7. Bytes(q(n + 1)) = Bytes(s) + Bytes(p(n + 1))
    BY ONLY <2>2, <2>3, <2>4, <2>5, <2>6
  <2>8. Cells(q(n + 1)) = Cells(s) + Cells(p(n + 1))
    BY ONLY <2>2, <2>3, <2>4, <2>5, <2>6
  <2>9. QED
    BY <2>1, <2>7, <2>8
<1> HIDE DEF S
<1>4. 0..Len(t) \subseteq S
  BY <1>0, <1>2, <1>3, UpTo
<1>5. Len(t) \in S
  BY <1>0, <1>4
<1>6. QED
  BY <1>1, <1>5 DEF S

LEMMA LettersTyped ==
  ASSUME NEW s \in Seq(Chars)
  PROVE  Letters(s) \in Seq(Chars) /\ Spaced(s) \in Seq(Chars)
BY ChosenTyped DEF Letters, Spaced

LEMMA NoLetters == Letters(<< >>) = << >> /\ Spaced(<< >>) = << >>
BY NoneChosen DEF Letters, Spaced

LEMMA LettersAdd ==
  ASSUME NEW s \in Seq(Chars), NEW t \in Seq(Chars)
  PROVE  Letters(s \o t) = Letters(s) \o Letters(t)
<1> DEFINE p(n) == Prefix(t, n)
           q(n) == s \o Prefix(t, n)
           S == {n \in 0..Len(t) : Letters(q(n)) = Letters(s) \o Letters(p(n))}
<1>0. Len(t) \in Nat
  BY LenProperties
<1>1. /\ q(0) = s /\ p(0) = << >> /\ p(Len(t)) = t /\ q(Len(t)) = s \o t
      /\ \A n \in 0..(Len(t) - 1) :
           /\ t[n + 1] \in Chars /\ p(n) \in Seq(Chars) /\ q(n) \in Seq(Chars)
           /\ p(n + 1) = Append(p(n), t[n + 1])
           /\ q(n + 1) = Append(q(n), t[n + 1])
  <2>1. GrowsTo(Chars, s, t)
    BY ConcatPrefix
  <2>2. QED
    BY <2>1 DEF GrowsTo
<1> HIDE DEF p, q
<1>2. 0 \in S
  <2>1. Letters(s) \o << >> = Letters(s)
    BY LettersTyped, ConcatEmptySeq
  <2>2. Letters(q(0)) = Letters(s) \o Letters(p(0))
    BY <1>1, <2>1, NoLetters
  <2>3. QED
    BY <1>0, <2>2
<1>3. ASSUME NEW n \in 0..(Len(t) - 1), n \in S
      PROVE  n + 1 \in S
  <2>1. n + 1 \in 0..Len(t) /\ n \in 0..Len(t)
    BY <1>0
  <2> DEFINE c == t[n + 1]
  <2>2. c \in Chars
    BY <1>1
  <2>3. Letters(q(n)) = Letters(s) \o Letters(p(n))
    BY <1>3
  <2>4. Letters(q(n + 1)) = IF c # " " THEN Append(Letters(q(n)), c) ELSE Letters(q(n))
    BY <1>1, LettersStep, ZenonT(60)
  <2>5. Letters(p(n + 1)) = IF c # " " THEN Append(Letters(p(n)), c) ELSE Letters(p(n))
    BY <1>1, LettersStep
  <2>6. Letters(s) \in Seq(Chars) /\ Letters(p(n)) \in Seq(Chars)
    BY <1>1, LettersTyped
  <2> HIDE DEF c
  <2>7. Letters(s) \o Append(Letters(p(n)), c) = Append(Letters(s) \o Letters(p(n)), c)
    BY <2>2, <2>6, ConcatStep
  <2>8. Letters(q(n + 1)) = Letters(s) \o Letters(p(n + 1))
    BY ONLY <2>3, <2>4, <2>5, <2>7
  <2>9. QED
    BY <2>1, <2>8
<1> HIDE DEF S
<1>4. 0..Len(t) \subseteq S
  BY <1>0, <1>2, <1>3, UpTo
<1>5. Len(t) \in S
  BY <1>0, <1>4
<1>6. QED
  BY <1>1, <1>5 DEF S

LEMMA MaxIs ==
  ASSUME NEW n \in Nat, NEW T, T \subseteq 0..n, T # {}
  PROVE  Max(T) \in T /\ \A y \in T : y <= Max(T)
<1> DEFINE D == {n - y : y \in T}
<1>0. \A y \in T : y \in 0..n
  OBVIOUS
<1>1. D \subseteq Nat /\ D # {}
  <2>1. \A y \in T : n - y \in Nat
    BY <1>0
  <2>2. QED
    BY <2>1, Zenon
<1>2. PICK x \in D : \A y \in D : ~(<<y, x>> \in OpToRel(<, Nat))
  <2> HIDE DEF D
  <2>1. QED
    BY ONLY <1>1, NatLessThanWellFounded, WFMin
<1>3. \A y \in D : ~(y < x)
  BY <1>1, <1>2 DEF OpToRel
<1>4. PICK t \in T : x = n - t
  BY <1>2
<1>5. \A y \in T : t >= y
  <2>1. SUFFICES ASSUME NEW y \in T
                 PROVE  t >= y
    OBVIOUS
  <2>2. ~(n - y < n - t)
    BY <1>3, <1>4
  <2>3. y \in 0..n /\ t \in 0..n
    OBVIOUS
  <2>4. QED
    BY <2>2, <2>3
<1>6. Max(T) \in T /\ \A y \in T : Max(T) >= y
  BY <1>5 DEF Max
<1>7. \A y \in T : y \in Int
  OBVIOUS
<1>8. QED
  BY <1>6, <1>7

LEMMA Split ==
  ASSUME NEW S, NEW s \in Seq(S), NEW n \in 0..Len(s)
  PROVE  /\ s = Prefix(s, n) \o Suffix(s, n)
         /\ Prefix(s, n) \in Seq(S) /\ Suffix(s, n) \in Seq(S)
         /\ Len(Prefix(s, n)) = n /\ Len(Suffix(s, n)) = Len(s) - n
         /\ \A i \in 1..n : Prefix(s, n)[i] = s[i]
         /\ \A i \in 1..(Len(s) - n) : Suffix(s, n)[i] = s[n + i]
<1>0. Len(s) \in Nat /\ n \in Nat /\ n <= Len(s) /\ \A i \in 1..Len(s) : s[i] \in S
  BY LenProperties
<1>1. Prefix(s, n) \in Seq(S) /\ Len(Prefix(s, n)) = n /\ \A i \in 1..n : Prefix(s, n)[i] = s[i]
  BY PrefixStep
<1>2. /\ Suffix(s, n) \in Seq(S) /\ Len(Suffix(s, n)) = Len(s) - n
      /\ \A i \in 1..(Len(s) - n) : Suffix(s, n)[i] = s[n + i]
  <2> DEFINE a == n + 1
             b == Len(s)
  <2>1. a \in Int /\ b \in Int /\ \A i \in a..b : s[i] \in S
    BY <1>0
  <2>2. (IF a <= b THEN b - a + 1 ELSE 0) = Len(s) - n /\ b - a + 1 = Len(s) - n
    BY <1>0
  <2>3. \A i \in 1..(Len(s) - n) : a + i - 1 = n + i
    BY <1>0
  <2>4. Suffix(s, n) = SubSeq(s, a, b)
    BY DEF Suffix
  <2> HIDE DEF a, b
  <2>5. /\ SubSeq(s, a, b) \in Seq(S)
        /\ Len(SubSeq(s, a, b)) = IF a <= b THEN b - a + 1 ELSE 0
        /\ \A i \in 1..(b - a + 1) : SubSeq(s, a, b)[i] = s[a + i - 1]
    BY <2>1, SubSeqProperties
  <2>6. QED
    BY <2>2, <2>3, <2>4, <2>5
<1>3. s = Prefix(s, n) \o Suffix(s, n)
  <2>1. 1 \in 1..(Len(s) + 1) /\ n \in (1 - 1)..Len(s) /\ Len(s) \in n..Len(s)
    BY <1>0
  <2>2. SubSeq(s, 1, n) \o SubSeq(s, n + 1, Len(s)) = SubSeq(s, 1, Len(s))
    BY <2>1, ConcatAdjacentSubSeq
  <2>3. SubSeq(s, 1, Len(s)) = s
    BY SubSeqFull
  <2>4. QED
    BY <2>2, <2>3 DEF Prefix, Suffix
<1>4. QED
  BY <1>1, <1>2, <1>3

(* What is clipped is whole characters that fit, and all of them if all fit. *)
LEMMA ClipIs ==
  ASSUME NEW s \in Seq(Chars), NEW cells \in Nat, NEW bytes \in Nat
  PROVE  /\ Clip(s, cells, bytes) \in 0..Len(s)
         /\ Cells(Prefix(s, Clip(s, cells, bytes))) <= cells
         /\ Bytes(Prefix(s, Clip(s, cells, bytes))) <= bytes
         /\ Cells(s) <= cells /\ Bytes(s) <= bytes => Clip(s, cells, bytes) = Len(s)
<1> DEFINE T == {n \in 0..Len(s) : Cells(Prefix(s, n)) <= cells /\ Bytes(Prefix(s, n)) <= bytes}
<1>0. Len(s) \in Nat
  BY LenProperties
<1>1. Clip(s, cells, bytes) = Max(T)
  BY DEF Clip
<1>2. 0 \in T
  <2>1. Prefix(s, 0) = << >>
    BY PrefixStep
  <2>2. QED
    BY <1>0, <2>1, NothingHasNoSize
<1>3. T \subseteq 0..Len(s)
  OBVIOUS
<1>4. Max(T) \in T /\ \A y \in T : y <= Max(T)
  <2> HIDE DEF T
  <2>1. QED
    BY <1>0, <1>2, <1>3, MaxIs
<1>5. Prefix(s, Len(s)) = s
  BY PrefixStep
<1>6. Cells(s) <= cells /\ Bytes(s) <= bytes => Len(s) \in T
  BY <1>0, <1>5
<1>7. Cells(s) <= cells /\ Bytes(s) <= bytes => Max(T) = Len(s)
  <2>1. Max(T) \in 0..Len(s)
    BY <1>3, <1>4
  <2> HIDE DEF T
  <2>2. QED
    BY <1>0, <1>4, <1>6, <2>1
<1>8. QED
  BY <1>1, <1>4, <1>7

AllSpaces(t) == \A i \in 1..Len(t) : t[i] = " "
NoSpaces(t) == \A i \in 1..Len(t) : t[i] # " "

(* The length of the longest beginning of a kind.                          *)
LongestOf(s, T, n) ==
  /\ n \in 0..Len(s) /\ \A i \in 1..n : i \in T
  /\ n < Len(s) => n + 1 \notin T

LEMMA Longest ==
  ASSUME NEW s \in Seq(Chars), NEW T
  PROVE  LongestOf(s, T, Max({n \in 0..Len(s) : \A i \in 1..n : i \in T}))
<1> DEFINE N == {n \in 0..Len(s) : \A i \in 1..n : i \in T}
<1>0. Len(s) \in Nat
  BY LenProperties
<1>1. N \subseteq 0..Len(s) /\ 0 \in N
  BY <1>0
<1>2. Max(N) \in N /\ \A y \in N : y <= Max(N)
  <2> HIDE DEF N
  <2>1. QED
    BY <1>0, <1>1, MaxIs
<1> DEFINE m == Max(N)
<1>3. m \in 0..Len(s) /\ \A i \in 1..m : i \in T
  BY <1>2
<1>4. ASSUME m < Len(s), m + 1 \in T
      PROVE  FALSE
  <2> HIDE DEF m
  <2>1. m + 1 \in 0..Len(s)
    BY <1>0, <1>3, <1>4
  <2>2. \A i \in 1..(m + 1) : i \in 1..m \/ i = m + 1
    BY <1>3
  <2>3. m + 1 \in N
    BY <1>3, <1>4, <2>1, <2>2
  <2>4. m + 1 <= m
    BY <1>2, <2>3 DEF m
  <2>5. QED
    BY <1>3, <2>4
<1>5. QED
  BY <1>3, <1>4 DEF LongestOf

LEMMA SpacesSkipped ==
  ASSUME NEW s \in Seq(Chars)
  PROVE  \E k \in 0..Len(s) : /\ SkipSpaces(s) = Suffix(s, k)
                              /\ \A i \in 1..k : s[i] = " "
                              /\ k < Len(s) => s[k + 1] # " "
<1> DEFINE T == {i \in 1..Len(s) : s[i] = " "}
           k == Max({n \in 0..Len(s) : \A i \in 1..n : i \in T})
<1>0. Len(s) \in Nat
  BY LenProperties
<1>1. LongestOf(s, T, k)
  <2> HIDE DEF T
  <2>1. QED
    BY Longest
<1>2. \A n \in 0..Len(s) : (\A i \in 1..n : i \in T) <=> (\A i \in 1..n : s[i] = " ")
  <2>1. \A n \in 0..Len(s) : \A i \in 1..n : i \in 1..Len(s)
    BY <1>0
  <2>2. \A i \in 1..Len(s) : i \in T <=> s[i] = " "
    BY Zenon
  <2> HIDE DEF T
  <2>3. QED
    BY <2>1, <2>2, Zenon
<1>3. {n \in 0..Len(s) : \A i \in 1..n : i \in T} = {n \in 0..Len(s) : \A i \in 1..n : s[i] = " "}
  <2> HIDE DEF T
  <2>1. QED
    BY <1>2
<1>4. SkipSpaces(s) = Suffix(s, k)
  BY <1>3 DEF SkipSpaces
<1> HIDE DEF k
<1>5. k \in 0..Len(s) /\ \A i \in 1..k : i \in T
  BY <1>1 DEF LongestOf
<1>6. k < Len(s) => k + 1 \in 1..Len(s) /\ k + 1 \notin T
  <2> HIDE DEF T
  <2>0. k \in 0..Len(s)
    BY <1>1 DEF LongestOf
  <2>1. k < Len(s) => k + 1 \in 1..Len(s)
    BY ONLY <1>0, <2>0
  <2>2. k < Len(s) => k + 1 \notin T
    BY <1>1 DEF LongestOf
  <2>3. QED
    BY <2>1, <2>2
<1>7. QED
  BY <1>4, <1>5, <1>6

LEMMA WordsAre ==
  ASSUME NEW s \in Seq(Chars)
  PROVE  /\ WordBytes(s) \in 0..Len(s)
         /\ \A i \in 1..WordBytes(s) : s[i] # " "
         /\ WordBytes(s) < Len(s) => s[WordBytes(s) + 1] = " "
<1> DEFINE T == {i \in 1..Len(s) : s[i] # " "}
           k == Max({n \in 0..Len(s) : \A i \in 1..n : i \in T})
<1>0. Len(s) \in Nat
  BY LenProperties
<1>1. LongestOf(s, T, k)
  <2> HIDE DEF T
  <2>1. QED
    BY Longest
<1>2. \A n \in 0..Len(s) : (\A i \in 1..n : i \in T) <=> (\A i \in 1..n : s[i] # " ")
  <2>1. \A n \in 0..Len(s) : \A i \in 1..n : i \in 1..Len(s)
    BY <1>0
  <2>2. \A i \in 1..Len(s) : i \in T <=> s[i] # " "
    BY Zenon
  <2> HIDE DEF T
  <2>3. QED
    BY <2>1, <2>2, Zenon
<1>3. {n \in 0..Len(s) : \A i \in 1..n : i \in T} = {n \in 0..Len(s) : \A i \in 1..n : s[i] # " "}
  <2> HIDE DEF T
  <2>1. QED
    BY <1>2
<1>4. WordBytes(s) = k
  BY <1>3 DEF WordBytes
<1> HIDE DEF k
<1>5. k \in 0..Len(s) /\ \A i \in 1..k : i \in T
  BY <1>1 DEF LongestOf
<1>6. k < Len(s) => k + 1 \in 1..Len(s) /\ k + 1 \notin T
  <2> HIDE DEF T
  <2>0. k \in 0..Len(s)
    BY <1>1 DEF LongestOf
  <2>1. k < Len(s) => k + 1 \in 1..Len(s)
    BY ONLY <1>0, <2>0
  <2>2. k < Len(s) => k + 1 \notin T
    BY <1>1 DEF LongestOf
  <2>3. QED
    BY <2>1, <2>2
<1>7. QED
  BY <1>4, <1>5, <1>6

(* Letters and single spaces, of a gap and of a word.                      *)
LEMMA LettersOfGap ==
  ASSUME NEW t \in Seq(Chars), AllSpaces(t)
  PROVE  Letters(t) = << >>
<1> DEFINE p(n) == Prefix(t, n)
           S == {n \in 0..Len(t) : Letters(p(n)) = << >>}
<1>0. Len(t) \in Nat
  BY LenProperties
<1>1. /\ p(0) = << >> /\ p(Len(t)) = t
      /\ \A n \in 0..(Len(t) - 1) : p(n) \in Seq(Chars) /\ p(n + 1) = Append(p(n), t[n + 1])
  <2>1. GrowsTo(Chars, t, t)
    BY ConcatPrefix
  <2>2. QED
    BY <2>1 DEF GrowsTo
<1> HIDE DEF p
<1>2. 0 \in S
  BY <1>0, <1>1, NoLetters
<1>3. ASSUME NEW n \in 0..(Len(t) - 1), n \in S
      PROVE  n + 1 \in S
  <2>1. n + 1 \in 0..Len(t) /\ n + 1 \in 1..Len(t)
    BY <1>0
  <2>2. t[n + 1] = " " /\ " " \in Chars
    BY <2>1 DEF AllSpaces, Chars
  <2>3. Letters(p(n)) = << >>
    BY <1>3
  <2>4. Letters(p(n + 1)) = << >>
    BY <1>1, <2>2, <2>3, LettersStep
  <2>5. QED
    BY <2>1, <2>4
<1> HIDE DEF S
<1>4. 0..Len(t) \subseteq S
  BY <1>0, <1>2, <1>3, UpTo
<1>5. Len(t) \in S
  BY <1>0, <1>4
<1>6. QED
  BY <1>1, <1>5 DEF S

LEMMA LettersOfWord ==
  ASSUME NEW t \in Seq(Chars), NoSpaces(t)
  PROVE  Letters(t) = t
<1> DEFINE p(n) == Prefix(t, n)
           S == {n \in 0..Len(t) : Letters(p(n)) = p(n)}
<1>0. Len(t) \in Nat
  BY LenProperties
<1>1. /\ p(0) = << >> /\ p(Len(t)) = t
      /\ \A n \in 0..(Len(t) - 1) : t[n + 1] \in Chars /\ p(n) \in Seq(Chars) /\ p(n + 1) = Append(p(n), t[n + 1])
  <2>1. GrowsTo(Chars, t, t)
    BY ConcatPrefix
  <2>2. QED
    BY <2>1 DEF GrowsTo
<1> HIDE DEF p
<1>2. 0 \in S
  BY <1>0, <1>1, NoLetters
<1>3. ASSUME NEW n \in 0..(Len(t) - 1), n \in S
      PROVE  n + 1 \in S
  <2>1. n + 1 \in 0..Len(t) /\ n + 1 \in 1..Len(t)
    BY <1>0
  <2>2. t[n + 1] # " "
    BY <2>1 DEF NoSpaces
  <2>3. Letters(p(n)) = p(n)
    BY <1>3
  <2>4. Letters(p(n + 1)) = Append(Letters(p(n)), t[n + 1])
    BY <1>1, <2>2, LettersStep, ZenonT(60)
  <2>5. Letters(p(n + 1)) = p(n + 1)
    BY <1>1, <2>3, <2>4
  <2>6. QED
    BY <2>1, <2>5
<1> HIDE DEF S
<1>4. 0..Len(t) \subseteq S
  BY <1>0, <1>2, <1>3, UpTo
<1>5. Len(t) \in S
  BY <1>0, <1>4
<1>6. QED
  BY <1>1, <1>5 DEF S

LEMMA SpacedWord ==
  ASSUME NEW s \in Seq(Chars), NEW t \in Seq(Chars), NoSpaces(t)
  PROVE  Spaced(s \o t) = Spaced(s) \o t
<1> DEFINE p(n) == Prefix(t, n)
           q(n) == s \o Prefix(t, n)
           S == {n \in 0..Len(t) : Spaced(q(n)) = Spaced(s) \o p(n)}
<1>0. Len(t) \in Nat
  BY LenProperties
<1>1. /\ q(0) = s /\ p(0) = << >> /\ p(Len(t)) = t /\ q(Len(t)) = s \o t
      /\ \A n \in 0..(Len(t) - 1) :
           /\ t[n + 1] \in Chars /\ p(n) \in Seq(Chars) /\ q(n) \in Seq(Chars)
           /\ p(n + 1) = Append(p(n), t[n + 1])
           /\ q(n + 1) = Append(q(n), t[n + 1])
  <2>1. GrowsTo(Chars, s, t)
    BY ConcatPrefix
  <2>2. QED
    BY <2>1 DEF GrowsTo
<1> HIDE DEF p, q
<1>2. 0 \in S
  <2>1. Spaced(s) \o << >> = Spaced(s)
    BY LettersTyped, ConcatEmptySeq
  <2>2. Spaced(q(0)) = Spaced(s) \o p(0)
    BY <1>1, <2>1
  <2>3. QED
    BY <1>0, <2>2
<1>3. ASSUME NEW n \in 0..(Len(t) - 1), n \in S
      PROVE  n + 1 \in S
  <2>1. n + 1 \in 0..Len(t) /\ n + 1 \in 1..Len(t)
    BY <1>0
  <2> DEFINE c == t[n + 1]
  <2>2. c \in Chars /\ c # " "
    BY <1>1, <2>1 DEF NoSpaces
  <2>3. Spaced(q(n)) = Spaced(s) \o p(n)
    BY <1>3
  <2>4. Spaced(q(n + 1)) = Append(Spaced(q(n)), c)
    BY <1>1, <2>2, SpacedStep, ZenonT(60)
  <2>5. Spaced(s) \in Seq(Chars) /\ p(n) \in Seq(Chars) /\ p(n + 1) = Append(p(n), c)
    BY <1>1, LettersTyped
  <2> HIDE DEF c
  <2> DEFINE a == Spaced(s)
             b == p(n)
  <2>6. Spaced(s) \o Append(p(n), c) = Append(Spaced(s) \o p(n), c)
    <3>1. a \in Seq(Chars) /\ b \in Seq(Chars)
      BY <2>5
    <3> HIDE DEF a, b
    <3>2. a \o Append(b, c) = Append(a \o b, c)
      <4>1. c \in Chars
        BY <2>2
      <4>2. QED
        BY ONLY <3>1, <4>1, ConcatStep
    <3>3. QED
      BY <3>2 DEF a, b
  <2> HIDE DEF a, b
  <2>7. Spaced(q(n + 1)) = Spaced(s) \o p(n + 1)
    BY ONLY <2>3, <2>4, <2>5, <2>6
  <2>8. QED
    BY <2>1, <2>7
<1> HIDE DEF S
<1>4. 0..Len(t) \subseteq S
  BY <1>0, <1>2, <1>3, UpTo
<1>5. Len(t) \in S
  BY <1>0, <1>4
<1>6. QED
  BY <1>1, <1>5 DEF S

(* Of a gap a space stays if it is after a word.                           *)
LEMMA SpacedGap ==
  ASSUME NEW s \in Seq(Chars), NEW t \in Seq(Chars), AllSpaces(t), Len(t) > 0
  PROVE  Spaced(s \o t) = IF Len(s) > 0 /\ s[Len(s)] # " " THEN Append(Spaced(s), " ") ELSE Spaced(s)
<1> DEFINE p(n) == Prefix(t, n)
           q(n) == s \o Prefix(t, n)
           R == IF Len(s) > 0 /\ s[Len(s)] # " " THEN Append(Spaced(s), " ") ELSE Spaced(s)
           S == {n \in 0..Len(t) : n > 0 => Spaced(q(n)) = R /\ Len(q(n)) > 0 /\ q(n)[Len(q(n))] = " "}
<1>0. Len(t) \in Nat
  BY LenProperties
<1>1. /\ q(0) = s /\ p(0) = << >> /\ p(Len(t)) = t /\ q(Len(t)) = s \o t
      /\ \A n \in 0..(Len(t) - 1) :
           /\ t[n + 1] \in Chars /\ p(n) \in Seq(Chars) /\ q(n) \in Seq(Chars)
           /\ p(n + 1) = Append(p(n), t[n + 1])
           /\ q(n + 1) = Append(q(n), t[n + 1])
  <2>1. GrowsTo(Chars, s, t)
    BY ConcatPrefix
  <2>2. QED
    BY <2>1 DEF GrowsTo
<1> HIDE DEF p, q, R
<1>2. 0 \in S
  BY <1>0
<1>3. ASSUME NEW n \in 0..(Len(t) - 1), n \in S
      PROVE  n + 1 \in S
  <2>1. n + 1 \in 0..Len(t) /\ n + 1 \in 1..Len(t) /\ n \in Nat
    BY <1>0
  <2>2. t[n + 1] = " " /\ " " \in Chars
    BY <2>1 DEF AllSpaces, Chars
  <2>3. n > 0 => Spaced(q(n)) = R /\ Len(q(n)) > 0 /\ q(n)[Len(q(n))] = " "
    BY <1>3
  <2> DEFINE u == q(n)
             v == q(n + 1)
  <2>4. u \in Seq(Chars) /\ v = Append(u, " ")
    BY <1>1, <2>2
  <2>5. Spaced(v) = IF Len(u) > 0 /\ u[Len(u)] # " " THEN Append(Spaced(u), " ") ELSE Spaced(u)
    <3> HIDE DEF u, v
    <3>1. QED
      BY <2>2, <2>4, SpacedStep
  <2>6. Len(v) > 0 /\ v[Len(v)] = " "
    <3> HIDE DEF u, v
    <3>1. Len(v) = Len(u) + 1 /\ v[Len(u) + 1] = " "
      BY <2>2, <2>4, AppendProperties
    <3>2. Len(u) \in Nat
      BY <2>4, LenProperties
    <3>3. Len(u) + 1 > 0
      BY <3>2
    <3>4. QED
      BY ONLY <3>1, <3>3
  <2>7. Spaced(v) = R
    <3>1. CASE n = 0
      <4>1. u = s
        BY <1>1, <3>1
      <4> HIDE DEF u, v
      <4>2. QED
        BY <2>5, <4>1 DEF R
    <3>2. CASE n > 0
      <4>1. Spaced(u) = R /\ u[Len(u)] = " "
        BY <2>3, <3>2
      <4> HIDE DEF u, v
      <4>2. QED
        BY <2>5, <4>1
    <3>3. QED
      BY <2>1, <3>1, <3>2
  <2>8. QED
    BY <2>1, <2>6, <2>7
<1>4. 0..Len(t) \subseteq S
  <2> HIDE DEF S
  <2>1. QED
    BY <1>0, <1>2, <1>3, UpTo
<1>5. Len(t) \in S
  <2> HIDE DEF S
  <2>1. QED
    BY <1>0, <1>4
<1>6. Spaced(q(Len(t))) = R
  BY <1>5
<1>7. QED
  BY <1>1, <1>6 DEF R

(* What comes after leaves what was said.                                  *)
LEMMA SpacedGrows ==
  ASSUME NEW s \in Seq(Chars), NEW t \in Seq(Chars)
  PROVE  \E u \in Seq(Chars) : Spaced(s \o t) = Spaced(s) \o u
<1> DEFINE q(n) == s \o Prefix(t, n)
           S == {n \in 0..Len(t) : \E u \in Seq(Chars) : Spaced(q(n)) = Spaced(s) \o u}
<1>0. Len(t) \in Nat
  BY LenProperties
<1>1. /\ q(0) = s /\ q(Len(t)) = s \o t
      /\ \A n \in 0..(Len(t) - 1) :
           /\ t[n + 1] \in Chars /\ q(n) \in Seq(Chars) /\ q(n + 1) = Append(q(n), t[n + 1])
  <2>1. GrowsTo(Chars, s, t)
    BY ConcatPrefix
  <2>2. QED
    BY <2>1 DEF GrowsTo
<1> HIDE DEF q
<1>2. 0 \in S
  <2>1. Spaced(s) \o << >> = Spaced(s)
    BY LettersTyped, ConcatEmptySeq
  <2>2. << >> \in Seq(Chars)
    BY EmptySeq
  <2>3. Spaced(q(0)) = Spaced(s) \o << >>
    BY <1>1, <2>1
  <2>4. \E u \in Seq(Chars) : Spaced(q(0)) = Spaced(s) \o u
    BY <2>2, <2>3
  <2>5. 0 \in 0..Len(t)
    BY <1>0
  <2>6. QED
    BY <2>4, <2>5
<1>3. ASSUME NEW n \in 0..(Len(t) - 1), n \in S
      PROVE  n + 1 \in S
  <2>1. n + 1 \in 0..Len(t)
    BY <1>0
  <2> DEFINE c == t[n + 1]
  <2>2. PICK u \in Seq(Chars) : Spaced(q(n)) = Spaced(s) \o u
    BY <1>3
  <2>3. c \in Chars
    BY <1>1
  <2>4. Spaced(q(n + 1)) = Append(Spaced(q(n)), c) \/ Spaced(q(n + 1)) = Spaced(q(n))
    BY <1>1, SpacedStep
  <2> HIDE DEF c
  <2>5. Spaced(s) \o Append(u, c) = Append(Spaced(s) \o u, c)
    BY <2>3, LettersTyped, ConcatStep
  <2>6. Append(u, c) \in Seq(Chars)
    BY <2>3, AppendProperties
  <2>7. \E v \in Seq(Chars) : Spaced(q(n + 1)) = Spaced(s) \o v
    BY <2>2, <2>4, <2>5, <2>6
  <2>8. QED
    BY <2>1, <2>7
<1> HIDE DEF S
<1>4. 0..Len(t) \subseteq S
  BY <1>0, <1>2, <1>3, UpTo
<1>5. Len(t) \in S
  BY <1>0, <1>4
<1>6. QED
  BY <1>1, <1>5 DEF S

--------------------------------------------------------------------------------
(* The rows one after the other.                                           *)
Lines == Seq(Seq(Chars))

Flowing(q, g, m) ==
  /\ g \in [0..m -> Seq(Chars)]
  /\ g[0] = << >> /\ \A i \in 1..m : g[i] = g[i - 1] \o q[i]

LEMMA FlowExists ==
  ASSUME NEW q \in Lines
  PROVE  \E g : Flowing(q, g, Len(q))
<1> DEFINE N == Len(q)
           S == {n \in 0..N : \E g : Flowing(q, g, n)}
<1>0. N \in Nat /\ \A i \in 1..N : q[i] \in Seq(Chars)
  BY LenProperties DEF Lines
<1>1. 0 \in S
  <2> DEFINE g == [n \in 0..0 |-> << >>]
  <2>1. << >> \in Seq(Chars)
    BY EmptySeq
  <2>2. Flowing(q, g, 0)
    BY <2>1 DEF Flowing
  <2>3. QED
    BY <1>0, <2>2
<1>2. ASSUME NEW n \in 0..(N - 1), n \in S
      PROVE  n + 1 \in S
  <2>0. n \in Nat /\ n + 1 \in 1..N
    BY <1>0
  <2>1. PICK g : Flowing(q, g, n)
    BY <1>2
  <2> DEFINE more == g[n] \o q[n + 1]
             h == [i \in 0..(n + 1) |-> IF i = n + 1 THEN more ELSE g[i]]
  <2>2. h \in [0..(n + 1) -> Seq(Chars)]
    <3>1. \A i \in 0..(n + 1) : i # n + 1 => i \in 0..n
      BY <2>0
    <3>2. n \in 0..n
      BY <2>0
    <3>3. g[n] \in Seq(Chars) /\ q[n + 1] \in Seq(Chars)
      BY <1>0, <2>0, <2>1, <3>2 DEF Flowing
    <3>4. more \in Seq(Chars)
      BY <3>3, ConcatProperties
    <3>5. \A i \in 0..n : g[i] \in Seq(Chars)
      BY <2>1 DEF Flowing
    <3> HIDE DEF more
    <3>6. QED
      BY <3>1, <3>4, <3>5
  <2>3. h[0] = << >>
    <3>1. 0 \in 0..(n + 1) /\ 0 # n + 1 /\ g[0] = << >>
      BY <2>0, <2>1 DEF Flowing
    <3>2. QED
      BY <3>1
  <2>4. ASSUME NEW i \in 1..(n + 1)
        PROVE  h[i] = h[i - 1] \o q[i]
    <3>1. i \in 0..(n + 1) /\ i - 1 \in 0..(n + 1) /\ i - 1 # n + 1
      BY <2>0
    <3>2. h[i - 1] = g[i - 1]
      BY <3>1
    <3>3. CASE i = n + 1
      <4>1. i - 1 = n
        BY <2>0, <3>3
      <4>2. QED
        BY <3>1, <3>2, <3>3, <4>1
    <3>4. CASE i # n + 1
      <4>1. i \in 1..n
        BY <2>0, <3>4
      <4>2. g[i] = g[i - 1] \o q[i]
        BY <2>1, <4>1 DEF Flowing
      <4>3. h[i] = g[i]
        BY <3>1, <3>4
      <4> HIDE DEF h
      <4>4. QED
        BY <3>2, <4>2, <4>3
    <3>5. QED
      BY <3>3, <3>4
  <2> HIDE DEF h
  <2>5. Flowing(q, h, n + 1)
    BY <2>2, <2>3, <2>4 DEF Flowing
  <2>6. QED
    BY <2>0, <2>5
<1> HIDE DEF S, N
<1>3. 0..N \subseteq S
  BY <1>0, <1>1, <1>2, UpTo
<1>4. N \in S
  BY <1>0, <1>3
<1>5. QED
  BY <1>4 DEF S, N

LEMMA FlatByRecord ==
  ASSUME NEW q \in Lines, NEW g, Flowing(q, g, Len(q))
  PROVE  FlattenSeq(q) = g[Len(q)] /\ FlattenSeq(q) \in Seq(Chars)
<1> DEFINE m == Len(q)
           It(f) == [i \in 1..m |-> IF i = 1 THEN q[i] ELSE f[i - 1] \o q[i]]
           flatten == CHOOSE f : f = It(f)
           r == [i \in 1..m |-> g[i]]
<1>0. m \in Nat /\ m \in 0..m /\ \A i \in 1..m : q[i] \in Seq(Chars)
  BY LenProperties DEF Lines
<1>1. r = It(r)
  <2>1. ASSUME NEW i \in 1..m
        PROVE  r[i] = IF i = 1 THEN q[i] ELSE r[i - 1] \o q[i]
    <3>1. g[i] = g[i - 1] \o q[i]
      BY DEF Flowing
    <3>2. CASE i = 1
      <4>1. g[i - 1] = << >>
        BY <3>2 DEF Flowing
      <4>2. << >> \o q[i] = q[i]
        BY <1>0, ConcatEmptySeq
      <4>3. QED
        BY <3>1, <3>2, <4>1, <4>2
    <3>3. CASE i # 1
      <4>1. i - 1 \in 1..m
        BY <1>0, <3>3
      <4>2. r[i - 1] = g[i - 1] /\ r[i] = g[i]
        BY <4>1
      <4> HIDE DEF r
      <4>3. QED
        BY <3>1, <3>3, <4>2
    <3>4. QED
      BY <3>2, <3>3
  <2>2. QED
    BY <2>1
<1>2. flatten = It(flatten)
  <2> HIDE DEF It, r
  <2>1. QED
    BY <1>1
<1>3. m # 0 => FlattenSeq(q) = flatten[m]
  BY DEF FlattenSeq
<1>4. \A i \in 1..m : flatten[i] = IF i = 1 THEN q[i] ELSE flatten[i - 1] \o q[i]
  <2> HIDE DEF flatten
  <2>1. QED
    BY <1>2
<1>5. g[m] \in Seq(Chars)
  BY <1>0 DEF Flowing
<1>6. CASE m = 0
  <2>1. q = << >>
    BY <1>6 DEF Lines
  <2>2. FlattenSeq(q) = << >>
    BY <1>6, <2>1 DEF FlattenSeq
  <2>3. g[m] = << >>
    BY <1>6 DEF Flowing
  <2>4. QED
    BY <1>5, <2>2, <2>3
<1>7. CASE m # 0
  <2> DEFINE S == {i \in 0..m : i = 0 \/ flatten[i] = g[i]}
  <2> HIDE DEF flatten
  <2>1. 0 \in S
    BY <1>0
  <2>2. ASSUME NEW n \in 0..(m - 1), n \in S
        PROVE  n + 1 \in S
    <3>1. n + 1 \in 1..m /\ n + 1 \in 0..m /\ (n + 1) - 1 = n /\ (n + 1 = 1 <=> n = 0)
      BY <1>0
    <3>2. n = 0 \/ flatten[n] = g[n]
      BY <2>2
    <3>3. flatten[n + 1] = IF n = 0 THEN q[n + 1] ELSE flatten[n] \o q[n + 1]
      BY <1>4, <3>1
    <3>4. g[n + 1] = g[n] \o q[n + 1]
      BY <3>1 DEF Flowing
    <3>5. CASE n = 0
      <4>1. g[n] = << >>
        BY <3>5 DEF Flowing
      <4>2. << >> \o q[n + 1] = q[n + 1]
        BY <1>0, <3>1, ConcatEmptySeq
      <4>3. flatten[n + 1] = g[n + 1]
        BY <3>3, <3>4, <3>5, <4>1, <4>2
      <4>4. QED
        BY <3>1, <4>3
    <3>6. CASE n # 0
      <4>1. flatten[n + 1] = g[n + 1]
        BY <3>2, <3>3, <3>4, <3>6
      <4>2. QED
        BY <3>1, <4>1
    <3>7. QED
      BY <3>5, <3>6
  <2> HIDE DEF S, m
  <2>3. 0..m \subseteq S
    BY <1>0, <2>1, <2>2, UpTo
  <2>4. flatten[m] = g[m]
    BY <1>0, <1>7, <2>3 DEF S
  <2>5. FlattenSeq(q) = g[m]
    BY <1>3, <1>7, <2>4
  <2>6. QED
    BY <1>5, <2>5 DEF m
<1>8. QED
  BY <1>6, <1>7

LEMMA FlowAgrees ==
  ASSUME NEW q \in Lines, NEW r \in Seq(Chars), NEW g, NEW h,
         Flowing(Append(q, r), g, Len(q) + 1), Flowing(q, h, Len(q))
  PROVE  g[Len(q)] = h[Len(q)] /\ g[Len(q) + 1] = h[Len(q)] \o r
<1> DEFINE m == Len(q)
           a == Append(q, r)
           S == {i \in 0..m : g[i] = h[i]}
<1>0. m \in Nat
  BY LenProperties DEF Lines
<1>1. (\A i \in 1..m : a[i] = q[i]) /\ a[m + 1] = r
  <2> DEFINE W == Seq(Chars)
  <2>1. q \in Seq(W) /\ r \in W
    BY DEF Lines
  <2> HIDE DEF W
  <2>2. QED
    BY <2>1, AppendProperties
<1> HIDE DEF a
<1>2. 0 \in S
  BY <1>0 DEF Flowing
<1>3. ASSUME NEW n \in 0..(m - 1), n \in S
      PROVE  n + 1 \in S
  <2>1. n + 1 \in 1..m /\ n + 1 \in 0..m /\ n + 1 \in 1..(m + 1) /\ (n + 1) - 1 = n
    BY <1>0
  <2>2. g[n] = h[n]
    BY <1>3
  <2>3. g[n + 1] = g[n] \o a[n + 1]
    BY <2>1 DEF Flowing, a
  <2>4. h[n + 1] = h[n] \o q[n + 1]
    BY <2>1 DEF Flowing
  <2>5. g[n + 1] = h[n + 1]
    BY <1>1, <2>1, <2>2, <2>3, <2>4
  <2>6. QED
    BY <2>1, <2>5
<1>4. 0..m \subseteq S
  <2> HIDE DEF S, m
  <2>1. QED
    BY <1>0, <1>2, <1>3, UpTo
<1>5. g[m] = h[m]
  <2>1. m \in 0..m
    BY <1>0
  <2>2. QED
    BY <1>4, <2>1
<1>6. g[m + 1] = g[m] \o a[m + 1]
  <2>1. m + 1 \in 1..(m + 1) /\ (m + 1) - 1 = m
    BY <1>0
  <2>2. \A i \in 1..(m + 1) : g[i] = g[i - 1] \o a[i]
    BY DEF Flowing, a
  <2>3. QED
    BY <2>1, <2>2
<1>7. QED
  BY <1>1, <1>5, <1>6

LEMMA FlatStep ==
  ASSUME NEW q \in Lines, NEW r \in Seq(Chars)
  PROVE  FlattenSeq(Append(q, r)) = FlattenSeq(q) \o r /\ FlattenSeq(q) \in Seq(Chars)
<1>1. Append(q, r) \in Lines /\ Len(Append(q, r)) = Len(q) + 1
  <2> DEFINE W == Seq(Chars)
  <2>1. q \in Seq(W) /\ r \in W
    BY DEF Lines
  <2> HIDE DEF W
  <2>2. Append(q, r) \in Seq(W) /\ Len(Append(q, r)) = Len(q) + 1
    BY <2>1, AppendProperties
  <2>3. QED
    BY <2>2 DEF Lines, W
<1>2. PICK g : Flowing(Append(q, r), g, Len(q) + 1)
  BY <1>1, FlowExists
<1>3. PICK h : Flowing(q, h, Len(q))
  BY FlowExists
<1>4. FlattenSeq(Append(q, r)) = g[Len(q) + 1]
  BY <1>1, <1>2, FlatByRecord
<1>5. FlattenSeq(q) = h[Len(q)] /\ FlattenSeq(q) \in Seq(Chars)
  BY <1>3, FlatByRecord
<1>6. g[Len(q) + 1] = h[Len(q)] \o r
  BY <1>2, <1>3, FlowAgrees
<1>7. QED
  BY <1>4, <1>5, <1>6

LEMMA FlatTyped ==
  ASSUME NEW q \in Lines
  PROVE  FlattenSeq(q) \in Seq(Chars)
BY FlowExists, FlatByRecord

LEMMA LettersOfRows ==
  ASSUME NEW q \in Lines, NEW r \in Seq(Chars)
  PROVE  /\ Letters(FlattenSeq(Append(q, r))) = Letters(FlattenSeq(q)) \o Letters(r)
         /\ Letters(FlattenSeq(q)) \in Seq(Chars)
<1>1. FlattenSeq(Append(q, r)) = FlattenSeq(q) \o r /\ FlattenSeq(q) \in Seq(Chars)
  BY FlatStep
<1>2. QED
  BY <1>1, LettersAdd, LettersTyped

(* The rows before the last one, and the last one.                         *)
LEMMA RowsAre ==
  ASSUME NEW q \in Lines, Len(q) > 0
  PROVE  /\ q = Append(Prefix(q, Len(q) - 1), q[Len(q)])
         /\ Prefix(q, Len(q) - 1) \in Lines /\ q[Len(q)] \in Seq(Chars)
         /\ Len(Prefix(q, Len(q) - 1)) = Len(q) - 1
         /\ \A s \in Seq(Chars) : [q EXCEPT ![Len(q)] = s] = Append(Prefix(q, Len(q) - 1), s)
<1> DEFINE W == Seq(Chars)
           n == Len(q)
           F == Prefix(q, n - 1)
<1>1. q \in Seq(W)
  BY DEF Lines
<1>2. n \in Nat /\ n - 1 \in 0..(n - 1) /\ n - 1 \in 0..n /\ (n - 1) + 1 = n /\ n \in 1..n
  BY <1>1, LenProperties
<1> HIDE DEF W
<1>3. q[n] \in W /\ q = Append(F, q[n])
  <2>1. q[(n - 1) + 1] \in W /\ Prefix(q, (n - 1) + 1) = Append(Prefix(q, n - 1), q[(n - 1) + 1])
    BY <1>1, <1>2, PrefixStep
  <2>2. Prefix(q, n) = q
    BY <1>1, PrefixStep
  <2>3. QED
    BY <1>2, <2>1, <2>2
<1>4. F \in Seq(W) /\ Len(F) = n - 1 /\ \A i \in 1..(n - 1) : F[i] = q[i]
  BY <1>1, <1>2, PrefixStep
<1>5. ASSUME NEW s \in W
      PROVE  [q EXCEPT ![n] = s] = Append(F, s)
  <2> DEFINE e == [q EXCEPT ![n] = s]
             a == Append(F, s)
  <2>1. e \in Seq(W) /\ Len(e) = n /\ \A i \in 1..n : e[i] = IF i = n THEN s ELSE q[i]
    BY <1>1, <1>2, ExceptSeq
  <2>2. a \in Seq(W) /\ Len(a) = (n - 1) + 1 /\ (\A i \in 1..(n - 1) : a[i] = F[i]) /\ a[(n - 1) + 1] = s
    <3> HIDE DEF F
    <3>1. /\ Append(F, s) \in Seq(W) /\ Len(Append(F, s)) = Len(F) + 1
          /\ \A i \in 1..Len(F) : Append(F, s)[i] = F[i]
          /\ Append(F, s)[Len(F) + 1] = s
      BY <1>4, AppendProperties
    <3>2. QED
      BY <1>4, <3>1
  <2> HIDE DEF e, a, F, n
  <2>3. \A i \in 1..n : i = n \/ i \in 1..(n - 1)
    BY <1>2
  <2>4. \A i \in 1..n : e[i] = a[i]
    BY <1>2, <1>4, <2>1, <2>2, <2>3
  <2>5. Len(e) = Len(a) /\ \A i \in 1..Len(e) : e[i] = a[i]
    BY <1>2, <2>1, <2>2, <2>4
  <2>6. e = a
    BY ONLY <2>1, <2>2, <2>5, SeqEqual
  <2>7. QED
    BY <2>6 DEF e, a
<1>6. QED
  BY <1>3, <1>4, <1>5 DEF W, Lines

LEMMA RowAdded ==
  ASSUME NEW q \in Lines, NEW s \in Seq(Chars)
  PROVE  /\ Append(q, s) \in Lines /\ Len(Append(q, s)) = Len(q) + 1 /\ Len(q) \in Nat
         /\ \A i \in 1..Len(q) : Append(q, s)[i] = q[i]
         /\ Append(q, s)[Len(Append(q, s))] = s
         /\ \A i \in 1..Len(Append(q, s)) : i \in 1..Len(q) \/ i = Len(Append(q, s))
<1> DEFINE W == Seq(Chars)
           a == Append(q, s)
<1>1. q \in Seq(W) /\ s \in W
  BY DEF Lines
<1> HIDE DEF W
<1>2. a \in Seq(W) /\ Len(a) = Len(q) + 1 /\ (\A i \in 1..Len(q) : a[i] = q[i]) /\ a[Len(q) + 1] = s
  BY <1>1, AppendProperties
<1>3. Len(q) \in Nat
  BY <1>1, LenProperties
<1> HIDE DEF a
<1>4. \A i \in 1..Len(a) : i \in 1..Len(q) \/ i = Len(a)
  BY <1>2, <1>3
<1>5. QED
  BY <1>2, <1>3, <1>4 DEF a, W, Lines

LEMMA Emptiness ==
  ASSUME NEW s \in Seq(Chars)
  PROVE  Len(s) \in Nat /\ (s = << >> <=> Len(s) = 0) /\ (s # << >> <=> Len(s) > 0)
<1>1. Len(s) \in Nat
  BY LenProperties
<1>2. Len(<< >>) = 0
  BY EmptySeq
<1>3. s # << >> => Len(s) \in Nat \ {0}
  BY EmptySeq, Zenon
<1>4. QED
  BY <1>1, <1>2, <1>3

LEMMA Joined ==
  ASSUME NEW s \in Seq(Chars), NEW t \in Seq(Chars)
  PROVE  /\ s \o t \in Seq(Chars) /\ Len(s \o t) = Len(s) + Len(t)
         /\ \A i \in 1..(Len(s) + Len(t)) : (s \o t)[i] = IF i <= Len(s) THEN s[i] ELSE t[i - Len(s)]
BY ConcatProperties

Regroups(s, t, u) == (s \o t) \o u = s \o (t \o u)

LEMMA Regroup ==
  ASSUME NEW s \in Seq(Chars), NEW t \in Seq(Chars), NEW u \in Seq(Chars)
  PROVE  Regroups(s, t, u)
BY ConcatAssociative DEF Regroups

LEMMA PieceOf ==
  ASSUME NEW a \in Seq(Chars), NEW t \in Seq(Chars), NEW c \in Seq(Chars)
  PROVE  IsPieceOf(t, (a \o t) \o c)
<1> DEFINE s == (a \o t) \o c
           n == Len(a)
           m == Len(t)
           p == SubSeq(s, n + 1, n + m)
<1>1. a \o t \in Seq(Chars) /\ Len(a \o t) = n + m /\ n \in Nat /\ m \in Nat
      /\ \A i \in 1..(n + m) : (a \o t)[i] = IF i <= n THEN a[i] ELSE t[i - n]
  BY ConcatProperties, LenProperties
<1>2. s \in Seq(Chars) /\ Len(s) = n + m + Len(c) /\ Len(c) \in Nat
      /\ \A i \in 1..(n + m + Len(c)) : s[i] = IF i <= n + m THEN (a \o t)[i] ELSE c[i - (n + m)]
  <2> DEFINE b == a \o t
  <2>1. b \in Seq(Chars) /\ Len(b) = n + m
    BY <1>1
  <2> HIDE DEF b
  <2>2. b \o c \in Seq(Chars) /\ Len(b \o c) = Len(b) + Len(c)
        /\ \A i \in 1..(Len(b) + Len(c)) : (b \o c)[i] = IF i <= Len(b) THEN b[i] ELSE c[i - Len(b)]
    <3>1. c \in Seq(Chars) /\ b \in Seq(Chars)
      BY <2>1
    <3>2. QED
      BY ONLY <3>1, Joined
  <2>3. Len(c) \in Nat
    BY LenProperties
  <2>4. QED
    BY <2>1, <2>2, <2>3 DEF b
<1> HIDE DEF s
<1>3. \A i \in 1..m : s[n + i] = t[i]
  <2>1. SUFFICES ASSUME NEW i \in 1..m
                 PROVE  s[n + i] = t[i]
    OBVIOUS
  <2> HIDE DEF n, m
  <2>2. n + i \in 1..(n + m + Len(c)) /\ n + i <= n + m /\ n + i \in 1..(n + m) /\ ~(n + i <= n) /\ (n + i) - n = i
    BY <1>1, <1>2
  <2>3. s[n + i] = (a \o t)[n + i]
    BY <1>2, <2>2
  <2>4. (a \o t)[n + i] = t[i]
    BY <1>1, <2>2
  <2>5. QED
    BY <2>3, <2>4
<1>4. p \in Seq(Chars) /\ Len(p) = m /\ \A i \in 1..m : p[i] = s[n + i]
  <2> HIDE DEF n, m
  <2>1. n + 1 \in Int /\ n + m \in Int /\ \A i \in (n + 1)..(n + m) : i \in 1..Len(s)
    BY <1>1, <1>2
  <2>2. \A i \in 1..Len(s) : s[i] \in Chars
    BY <1>2, LenProperties
  <2> DEFINE x == n + 1
             y == n + m
  <2>3. (IF x <= y THEN y - x + 1 ELSE 0) = m /\ y - x + 1 = m /\ \A i \in 1..m : x + i - 1 = n + i
    BY <1>1
  <2>4. x \in Int /\ y \in Int /\ \A i \in x..y : s[i] \in Chars
    BY <2>1, <2>2
  <2>5. p = SubSeq(s, x, y)
    OBVIOUS
  <2> HIDE DEF x, y, p
  <2>6. /\ SubSeq(s, x, y) \in Seq(Chars)
        /\ Len(SubSeq(s, x, y)) = IF x <= y THEN y - x + 1 ELSE 0
        /\ \A i \in 1..(y - x + 1) : SubSeq(s, x, y)[i] = s[x + i - 1]
    BY <2>4, SubSeqProperties
  <2>7. QED
    BY <2>3, <2>5, <2>6
<1>5. t = p
  <2>1. \A i \in 1..Len(p) : p[i] = t[i]
    BY <1>3, <1>4
  <2> HIDE DEF p
  <2>2. Len(p) = Len(t)
    BY <1>4
  <2>3. QED
    BY <1>4, <2>1, <2>2, SeqEqual
<1>6. n \in 0..(Len(s) - m)
  <2> HIDE DEF n, m
  <2>1. QED
    BY <1>1, <1>2
<1>7. QED
  BY <1>5, <1>6 DEF IsPieceOf, s

(* A read beginning b ends where a word does, or nothing was read yet.     *)
AtBreak(b, r) ==
  \/ b = << >>
  \/ b[Len(b)] # " " /\ (r # << >> => r[1] = " ")

LineOf(r) == SkipSpaces(r)
NextOf(r) == Prefix(LineOf(r), WordBytes(LineOf(r)))
AfterOf(r) == Suffix(LineOf(r), Len(NextOf(r)))

(* A gap, a word, and what comes after.                                    *)
GapBefore(r, g) ==
  /\ g \in Seq(Chars) /\ AllSpaces(g)
  /\ NextOf(r) \in Seq(Chars) /\ NoSpaces(NextOf(r)) /\ AfterOf(r) \in Seq(Chars)
  /\ r = (g \o NextOf(r)) \o AfterOf(r)
  /\ AfterOf(r) # << >> => AfterOf(r)[1] = " "
  /\ NextOf(r) = << >> => AfterOf(r) = << >>
  /\ g = << >> /\ NextOf(r) # << >> => r # << >> /\ r[1] # " "

LEMMA NextIs ==
  ASSUME NEW r \in Seq(Chars)
  PROVE  \E g : GapBefore(r, g)
<1> DEFINE l == LineOf(r)
           n == NextOf(r)
           a == AfterOf(r)
           w == WordBytes(l)
<1>1. PICK k \in 0..Len(r) : l = Suffix(r, k) /\ (\A i \in 1..k : r[i] = " ") /\ (k < Len(r) => r[k + 1] # " ")
  BY SpacesSkipped DEF LineOf
<1> DEFINE g == Prefix(r, k)
<1>2. /\ r = g \o l /\ g \in Seq(Chars) /\ l \in Seq(Chars)
      /\ Len(g) = k /\ Len(l) = Len(r) - k
      /\ \A i \in 1..k : g[i] = r[i]
      /\ \A i \in 1..(Len(r) - k) : l[i] = r[k + i]
  <2>1. l = Suffix(r, k)
    BY <1>1
  <2> HIDE DEF l
  <2>2. QED
    BY <2>1, Split, ZenonT(60)
<1>3. Len(r) \in Nat /\ Len(l) \in Nat
  BY <1>2, LenProperties
<1> HIDE DEF l
<1>4. w \in 0..Len(l) /\ (\A i \in 1..w : l[i] # " ") /\ (w < Len(l) => l[w + 1] = " ")
  BY <1>2, WordsAre
<1>5. n = Prefix(l, w)
  BY DEF NextOf, l
<1>6. /\ l = Prefix(l, w) \o Suffix(l, w)
      /\ Prefix(l, w) \in Seq(Chars) /\ Suffix(l, w) \in Seq(Chars)
      /\ Len(Prefix(l, w)) = w /\ Len(Suffix(l, w)) = Len(l) - w
      /\ \A i \in 1..w : Prefix(l, w)[i] = l[i]
      /\ \A i \in 1..(Len(l) - w) : Suffix(l, w)[i] = l[w + i]
  <2> HIDE DEF w
  <2>1. QED
    BY <1>2, <1>4, Split
<1>7. a = Suffix(l, w)
  <2>1. a = Suffix(l, Len(n))
    BY DEF AfterOf, l
  <2> HIDE DEF a, n, w
  <2>2. QED
    BY <1>5, <1>6, <2>1
<1> HIDE DEF n, a, w, g
<1>8. n \in Seq(Chars) /\ a \in Seq(Chars) /\ l = n \o a /\ Len(n) = w /\ Len(a) = Len(l) - w
  BY <1>5, <1>6, <1>7
<1> DEFINE R == Len(r)
           L == Len(l)
           N == Len(n)
           A == Len(a)
<1>18. R \in Nat /\ L \in Nat /\ N \in Nat /\ A \in Nat /\ k \in 0..R /\ w \in 0..L
  BY <1>3, <1>4, <1>8, LenProperties
<1>19. L = R - k /\ N = w /\ A = L - w
  BY <1>2, <1>8
<1>9. AllSpaces(g)
  BY <1>1, <1>2 DEF AllSpaces
<1>10. NoSpaces(n)
  BY <1>4, <1>5, <1>6, <1>8 DEF NoSpaces
<1>11. r = (g \o n) \o a
  <2>1. g \in Seq(Chars) /\ n \in Seq(Chars) /\ a \in Seq(Chars)
    BY <1>2, <1>8
  <2>2. (g \o n) \o a = g \o (n \o a)
    BY ONLY <2>1, ConcatAssociative
  <2>3. r = g \o l /\ l = n \o a
    BY <1>2, <1>8
  <2>4. QED
    BY <2>2, <2>3
<1>12. a # << >> => a[1] = " "
  <2>1. SUFFICES ASSUME a # << >>
                 PROVE  a[1] = " "
    OBVIOUS
  <2>2. A > 0
    BY <1>8, <2>1, Emptiness
  <2>3. w < Len(l) /\ 1 \in 1..(Len(l) - w) /\ w \in Nat
    BY ONLY <1>18, <1>19, <2>2
  <2>4. a[1] = l[w + 1]
    BY <1>6, <1>7, <2>3
  <2>5. l[w + 1] = " "
    BY <1>4, <2>3
  <2>6. QED
    BY <2>4, <2>5
<1>13. n # << >> => k < Len(r) /\ l[1] = r[k + 1]
  <2>1. SUFFICES ASSUME n # << >>
                 PROVE  k < Len(r) /\ l[1] = r[k + 1]
    OBVIOUS
  <2>2. N > 0
    BY <1>8, <2>1, Emptiness
  <2>3. k < Len(r) /\ 1 \in 1..(Len(r) - k)
    BY ONLY <1>18, <1>19, <2>2
  <2>4. QED
    BY <1>2, <2>3
<1>14. n = << >> => a = << >>
  <2>1. SUFFICES ASSUME n = << >>, a # << >>
                 PROVE  FALSE
    OBVIOUS
  <2>2. N = 0 /\ A > 0
    BY <1>8, <2>1, Emptiness
  <2>3. w = 0 /\ w < L /\ w + 1 = 1 /\ k < Len(r) /\ 1 \in 1..(Len(r) - k)
    BY ONLY <1>18, <1>19, <2>2
  <2>4. l[1] = r[k + 1] /\ r[k + 1] # " "
    BY <1>1, <1>2, <2>3
  <2>5. l[w + 1] = " "
    BY <1>4, <2>3
  <2>6. QED
    BY <2>3, <2>4, <2>5
<1>15. g = << >> /\ n # << >> => r # << >> /\ r[1] # " "
  <2>1. SUFFICES ASSUME g = << >>, n # << >>
                 PROVE  r # << >> /\ r[1] # " "
    OBVIOUS
  <2>2. k = 0 /\ k + 1 = 1
    BY <1>2, <2>1, Emptiness
  <2>3. k < Len(r)
    BY <1>13, <2>1
  <2>4. r[k + 1] # " "
    BY <1>1, <2>3
  <2>5. r # << >>
    BY <2>2, <2>3, Emptiness
  <2>6. QED
    BY <2>2, <2>4, <2>5
<1>16. GapBefore(r, g)
  BY <1>2, <1>8, <1>9, <1>10, <1>11, <1>12, <1>14, <1>15 DEF GapBefore, n, a
<1>17. QED
  BY <1>16

(* Nothing was said and is said, or a space is added.                      *)
LEMMA GapSaid ==
  ASSUME NEW b \in Seq(Chars), NEW r \in Seq(Chars), NEW g, GapBefore(r, g), AtBreak(b, r), NextOf(r) # << >>
  PROVE  \/ Spaced(b \o g) = << >> /\ Spaced(b) = << >>
         \/ Spaced(b \o g) = Append(Spaced(b), " ")
<1>0. g \in Seq(Chars) /\ Len(g) \in Nat /\ Len(b) \in Nat
  BY LenProperties DEF GapBefore
<1>1. CASE g = << >>
  <2>1. r # << >> /\ r[1] # " "
    BY <1>1 DEF GapBefore
  <2>2. b = << >>
    BY <2>1 DEF AtBreak
  <2>3. b \o g = << >>
    BY <1>1, <2>2, ConcatEmptySeq
  <2>4. QED
    BY <2>2, <2>3, NoLetters
<1>2. CASE g # << >>
  <2>1. Len(g) > 0
    BY <1>0, <1>2, Emptiness
  <2>2. Spaced(b \o g) = IF Len(b) > 0 /\ b[Len(b)] # " " THEN Append(Spaced(b), " ") ELSE Spaced(b)
    BY <1>0, <2>1, SpacedGap DEF GapBefore
  <2>3. CASE b = << >>
    <3>1. Len(b) = 0
      BY <2>3, EmptySeq
    <3>2. QED
      BY <2>2, <2>3, <3>1, NoLetters
  <2>4. CASE b # << >>
    <3>1. Len(b) > 0
      BY <2>4, Emptiness
    <3>2. b[Len(b)] # " "
      BY <2>4 DEF AtBreak
    <3>3. QED
      BY <2>2, <3>1, <3>2
  <2>5. QED
    BY <2>3, <2>4
<1>3. QED
  BY <1>1, <1>2

--------------------------------------------------------------------------------
(* The invariant of utf8WrapInto.  Every row is good by itself; the letters *)
(* of rows, word and rest are those of the hint; while words are placed,   *)
(* what was read ends with a word, and what was said of it ends with the   *)
(* row and the word.                                                       *)
ScreenSizes == [{"width", "bytes", "rows", "visible"} -> Nat \ {0}]

GoodRow(r, z, k) ==
  /\ Bytes(r) < z.bytes
  /\ Cells(r) <= z.width \/ Len(r) = 1
  /\ IsPieceOf(r, Spaced(k))

Reading(b, k, r, w, row) ==
  /\ k = b \o r /\ AtBreak(b, r)
  /\ \E u \in Seq(Chars) : Spaced(b) = (u \o row) \o w

Wrapped(q, w, r, d, z, k) ==
  /\ q \in Lines /\ Len(q) \in 1..z.rows /\ w \in Seq(Chars) /\ r \in Seq(Chars) /\ d \in BOOLEAN
  /\ \A i \in 1..Len(q) : GoodRow(q[i], z, k)
  /\ (Letters(FlattenSeq(q)) \o w) \o Letters(r) = Letters(k)
  /\ d => Len(q) = z.rows \/ w \o Letters(r) = << >>
  /\ NoSpaces(w)
  /\ ~d => \E b \in Seq(Chars) : Reading(b, k, r, w, q[Len(q)])
  /\ ~d /\ w # << >> => q[Len(q)] = << >> \/ Cells(q[Len(q)]) + Cells(w) <= z.width

(* The same of the rows F and the row s after them.                        *)
RowsWritten(F, s, w, r, d, z, k) ==
  /\ Len(F) + 1 \in 1..z.rows /\ w \in Seq(Chars) /\ r \in Seq(Chars) /\ d \in BOOLEAN
  /\ (\A i \in 1..Len(F) : GoodRow(F[i], z, k)) /\ GoodRow(s, z, k)
  /\ ((Letters(FlattenSeq(F)) \o Letters(s)) \o w) \o Letters(r) = Letters(k)
  /\ d => Len(F) + 1 = z.rows \/ w \o Letters(r) = << >>
  /\ NoSpaces(w)
  /\ ~d => \E b \in Seq(Chars) : Reading(b, k, r, w, s)
  /\ ~d /\ w # << >> => s = << >> \/ Cells(s) + Cells(w) <= z.width

LEMMA WrappedIsWritten ==
  ASSUME NEW F \in Lines, NEW s \in Seq(Chars), NEW w, NEW r, NEW d, NEW z, NEW k
  PROVE  Wrapped(Append(F, s), w, r, d, z, k) <=> RowsWritten(F, s, w, r, d, z, k)
<1> DEFINE q == Append(F, s)
<1>1. /\ q \in Lines /\ Len(q) = Len(F) + 1 /\ Len(F) \in Nat
      /\ \A i \in 1..Len(F) : q[i] = F[i]
      /\ q[Len(q)] = s
      /\ \A i \in 1..Len(q) : i \in 1..Len(F) \/ i = Len(q)
  BY RowAdded
<1>2. Letters(FlattenSeq(q)) = Letters(FlattenSeq(F)) \o Letters(s)
  BY LettersOfRows
<1> HIDE DEF q
<1>3. (\A i \in 1..Len(q) : GoodRow(q[i], z, k))
        <=> (\A i \in 1..Len(F) : GoodRow(F[i], z, k)) /\ GoodRow(s, z, k)
  <2>1. (\A i \in 1..Len(F) : i \in 1..Len(q)) /\ Len(q) \in 1..Len(q)
    BY <1>1
  <2>2. QED
    BY <1>1, <2>1, Zenon
<1>4. Wrapped(q, w, r, d, z, k) <=> RowsWritten(F, s, w, r, d, z, k)
  <2>1. q \in Lines /\ Len(q) = Len(F) + 1 /\ q[Len(q)] = s
    BY <1>1
  <2>2. QED
    BY <1>2, <1>3, <2>1, Zenon DEF Wrapped, RowsWritten
<1>5. QED
  BY <1>4 DEF q

LEMMA OneCharacter ==
  ASSUME NEW c \in Chars
  PROVE  <<c>> \in Seq(Chars)
OBVIOUS

LEMMA SizeIs ==
  ASSUME NEW z \in ScreenSizes
  PROVE  /\ z.width \in Nat \ {0} /\ z.bytes \in Nat \ {0}
         /\ z.rows \in Nat \ {0} /\ z.visible \in Nat \ {0}
BY DEF ScreenSizes

LEMMA PieceOfAll ==
  ASSUME NEW b \in Seq(Chars), NEW r \in Seq(Chars), NEW u \in Seq(Chars), NEW t \in Seq(Chars),
         NEW c \in Seq(Chars), Spaced(b) = (u \o t) \o c
  PROVE  IsPieceOf(t, Spaced(b \o r))
<1>1. PICK v \in Seq(Chars) : Spaced(b \o r) = Spaced(b) \o v
  BY SpacedGrows
<1>2. u \o t \in Seq(Chars)
  BY Joined
<1>3. ((u \o t) \o c) \o v = (u \o t) \o (c \o v)
  <2>1. Regroups(u \o t, c, v)
    BY <1>2, Regroup
  <2>2. QED
    BY <2>1 DEF Regroups
<1>4. c \o v \in Seq(Chars)
  BY Joined
<1>5. IsPieceOf(t, (u \o t) \o (c \o v))
  BY <1>4, PieceOf
<1>6. QED
  BY <1>1, <1>3, <1>5

LEMMA EmptyRow ==
  ASSUME NEW z \in ScreenSizes, NEW k \in Seq(Chars)
  PROVE  GoodRow(<< >>, z, k)
<1>1. Bytes(<< >>) < z.bytes /\ Cells(<< >>) <= z.width
  BY SizeIs, NothingHasNoSize
<1>2. Spaced(k) \in Seq(Chars) /\ << >> \in Seq(Chars)
  BY LettersTyped, EmptySeq
<1>3. << >> \o << >> = << >> /\ << >> \o Spaced(k) = Spaced(k)
  BY <1>2, ConcatEmptySeq
<1>4. IsPieceOf(<< >>, (<< >> \o << >>) \o Spaced(k))
  BY <1>2, PieceOf
<1>5. QED
  BY <1>1, <1>3, <1>4 DEF GoodRow

(* The next word is read.                                                  *)
LEMMA ReadsOn ==
  ASSUME NEW b \in Seq(Chars), NEW k \in Seq(Chars), NEW r \in Seq(Chars), NEW row \in Seq(Chars), NEW g,
         Reading(b, k, r, << >>, row), GapBefore(r, g), NextOf(r) # << >>
  PROVE  LET c == (b \o g) \o NextOf(r)
         IN  /\ c \in Seq(Chars)
             /\ Reading(c, k, AfterOf(r), NextOf(r), << >>)
             /\ row # << >> => Reading(c, k, AfterOf(r), NextOf(r), row \o << " " >>)
<1> DEFINE n == NextOf(r)
           a == AfterOf(r)
           c == (b \o g) \o n
           e == << >>
           sp == << " " >>
<1>1. g \in Seq(Chars) /\ n \in Seq(Chars) /\ a \in Seq(Chars) /\ r = (g \o n) \o a /\ NoSpaces(n) /\ n # e
  BY DEF GapBefore
<1>2. k = b \o r /\ AtBreak(b, r)
  BY DEF Reading
<1>3. PICK u \in Seq(Chars) : Spaced(b) = (u \o row) \o e
  BY DEF Reading
<1>4. (Spaced(b \o g) = << >> /\ Spaced(b) = << >>) \/ Spaced(b \o g) = Append(Spaced(b), " ")
  BY <1>1, <1>2, GapSaid
<1>5. e \in Seq(Chars) /\ sp \in Seq(Chars) /\ " " \in Chars
  <2>1. " " \in Chars
    BY DEF Chars
  <2>2. << >> \in Seq(Chars)
    BY EmptySeq
  <2>3. << " " >> \in Seq(Chars)
    BY <2>1, OneCharacter
  <2>4. QED
    BY <2>1, <2>2, <2>3
<1>6. a # << >> => a[1] = " "
  BY DEF GapBefore
<1> HIDE DEF n, a, e, sp
<1>7. b \o g \in Seq(Chars) /\ c \in Seq(Chars) /\ Spaced(b \o g) \in Seq(Chars)
  BY <1>1, Joined, LettersTyped
<1>8. Spaced(c) = Spaced(b \o g) \o n
  BY <1>1, <1>7, SpacedWord
<1>9. k = c \o a
  <2> DEFINE h == g \o n
  <2>1. h \in Seq(Chars)
    BY <1>1, Joined
  <2>2. b \o h = c
    <3>1. Regroups(b, g, n)
      BY <1>1, Regroup
    <3>2. QED
      BY <3>1 DEF Regroups
  <2>3. k = b \o (h \o a)
    BY <1>1, <1>2
  <2> HIDE DEF h, c
  <2>4. b \o (h \o a) = (b \o h) \o a
    <3>1. Regroups(b, h, a)
      BY <1>1, <2>1, Regroup
    <3>2. QED
      BY <3>1 DEF Regroups
  <2>5. QED
    BY <2>2, <2>3, <2>4
<1>10. AtBreak(c, a)
  <2> DEFINE p == b \o g
             N == Len(n)
             P == Len(p)
  <2>1. /\ p \o n \in Seq(Chars) /\ Len(p \o n) = P + N
        /\ \A i \in 1..(P + N) : (p \o n)[i] = IF i <= P THEN p[i] ELSE n[i - P]
    BY <1>1, <1>7, Joined
  <2>2. N > 0 /\ N \in Nat /\ P \in Nat
    BY <1>1, <1>7, Emptiness DEF e
  <2>3. n[N] # " "
    <3>1. N \in 1..N
      BY ONLY <2>2
    <3>2. QED
      BY <1>1, <3>1 DEF NoSpaces
  <2> HIDE DEF p, N, P
  <2>4. P + N \in 1..(P + N) /\ ~(P + N <= P) /\ (P + N) - P = N
    BY ONLY <2>2
  <2>5. (p \o n)[P + N] = n[N]
    BY ONLY <2>1, <2>4
  <2>6. c[Len(c)] # " "
    BY <2>1, <2>3, <2>5 DEF p
  <2>7. QED
    BY <1>6, <2>6 DEF AtBreak
<1>11. Reading(c, k, a, n, e)
  <2>1. Spaced(b \o g) \o e = Spaced(b \o g)
    BY <1>7, ConcatEmptySeq DEF e
  <2>2. Spaced(c) = (Spaced(b \o g) \o e) \o n
    BY <1>8, <2>1
  <2> HIDE DEF c
  <2>3. QED
    BY <1>7, <1>9, <1>10, <2>2 DEF Reading
<1>12. ASSUME row # << >>
       PROVE  Reading(c, k, a, n, row \o sp)
  <2>1. u \o row \in Seq(Chars)
    BY Joined
  <2>2. Spaced(b) = u \o row
    BY <1>3, <2>1, ConcatEmptySeq DEF e
  <2>3. Spaced(b) # << >>
    <3>1. Len(u \o row) = Len(u) + Len(row) /\ Len(row) > 0 /\ Len(row) \in Nat /\ Len(u) \in Nat
      BY <1>12, Joined, Emptiness
    <3>2. Len(u \o row) > 0
      BY ONLY <3>1
    <3>3. QED
      BY <2>1, <2>2, <3>2, Emptiness
  <2>4. Spaced(b \o g) = Append(u \o row, " ")
    BY <1>4, <2>2, <2>3
  <2>5. Append(u \o row, " ") = (u \o row) \o sp
    BY <1>5, <2>1, AppendIsConcat DEF sp
  <2>6. (u \o row) \o sp = u \o (row \o sp)
    <3>1. Regroups(u, row, sp)
      BY <1>5, Regroup
    <3>2. QED
      BY <3>1 DEF Regroups
  <2>7. Spaced(c) = (u \o (row \o sp)) \o n
    BY <1>8, <2>4, <2>5, <2>6
  <2> HIDE DEF c
  <2>8. QED
    BY <1>9, <1>10, <2>7 DEF Reading
<1>13. QED
  BY <1>7, <1>11, <1>12 DEF n, a, e, sp

LEMMA LettersRead ==
  ASSUME NEW r \in Seq(Chars), NEW g, GapBefore(r, g)
  PROVE  /\ Letters(r) = NextOf(r) \o Letters(AfterOf(r))
         /\ NextOf(r) = << >> => Letters(AfterOf(r)) = << >> /\ Letters(r) = << >>
<1> DEFINE n == NextOf(r)
           a == AfterOf(r)
           h == g \o n
<1>1. g \in Seq(Chars) /\ n \in Seq(Chars) /\ a \in Seq(Chars) /\ r = h \o a /\ NoSpaces(n) /\ AllSpaces(g)
      /\ (n = << >> => a = << >>)
  BY DEF GapBefore
<1> HIDE DEF n, a
<1>2. h \in Seq(Chars) /\ Letters(h) = Letters(g) \o Letters(n)
  BY <1>1, Joined, LettersAdd
<1>3. Letters(g) = << >> /\ Letters(n) = n
  BY <1>1, LettersOfGap, LettersOfWord
<1>4. << >> \o n = n
  BY <1>1, ConcatEmptySeq
<1> HIDE DEF h
<1>5. Letters(r) = Letters(h) \o Letters(a)
  BY <1>1, <1>2, LettersAdd
<1>6. Letters(r) = n \o Letters(a)
  BY <1>2, <1>3, <1>4, <1>5
<1>7. ASSUME n = << >>
      PROVE  Letters(a) = << >> /\ Letters(r) = << >>
  <2>1. Letters(a) = << >>
    BY <1>1, <1>7, NoLetters
  <2>2. << >> \in Seq(Chars)
    BY EmptySeq
  <2>3. << >> \o << >> = << >>
    BY <2>2, ConcatEmptySeq
  <2>4. QED
    BY <1>6, <1>7, <2>1, <2>3
<1>8. QED
  BY <1>6, <1>7 DEF n, a

(* The letters so far, with a word that is moved from the rest.            *)
WordMoved(x, n, l, m) == (x \o << >>) \o l = (x \o n) \o m

LEMMA WordMoves ==
  ASSUME NEW x \in Seq(Chars), NEW n \in Seq(Chars), NEW l \in Seq(Chars), NEW m \in Seq(Chars), l = n \o m
  PROVE  WordMoved(x, n, l, m)
<1>1. x \o << >> = x
  BY ConcatEmptySeq
<1>2. Regroups(x, n, m)
  BY Regroup
<1>3. QED
  BY <1>1, <1>2 DEF Regroups, WordMoved

LEMMA RowGrows ==
  ASSUME NEW F \in Lines, NEW s \in Seq(Chars), NEW z \in ScreenSizes, NEW k \in Seq(Chars),
         \A i \in 1..Len(F) : GoodRow(F[i], z, k), GoodRow(s, z, k)
  PROVE  /\ Append(F, s) \in Lines /\ Len(Append(F, s)) = Len(F) + 1 /\ Len(F) \in Nat
         /\ \A i \in 1..Len(Append(F, s)) : GoodRow(Append(F, s)[i], z, k)
         /\ Letters(FlattenSeq(Append(F, s))) \o Letters(<< >>) = Letters(FlattenSeq(F)) \o Letters(s)
<1> DEFINE q == Append(F, s)
<1>1. /\ q \in Lines /\ Len(q) = Len(F) + 1 /\ Len(F) \in Nat
      /\ \A i \in 1..Len(F) : q[i] = F[i]
      /\ q[Len(q)] = s
      /\ \A i \in 1..Len(q) : i \in 1..Len(F) \/ i = Len(q)
  BY RowAdded
<1>2. Letters(FlattenSeq(q)) = Letters(FlattenSeq(F)) \o Letters(s) /\ Letters(FlattenSeq(q)) \in Seq(Chars)
  <2>1. Letters(FlattenSeq(q)) \in Seq(Chars)
    BY <1>1, FlatTyped, LettersTyped
  <2>2. QED
    BY <2>1, LettersOfRows
<1> HIDE DEF q
<1>3. \A i \in 1..Len(q) : GoodRow(q[i], z, k)
  BY <1>1, Zenon
<1>4. Letters(FlattenSeq(q)) \o Letters(<< >>) = Letters(FlattenSeq(q))
  BY <1>2, NoLetters, ConcatEmptySeq
<1>5. QED
  BY <1>1, <1>2, <1>3, <1>4 DEF q

(* A word is read, in every way that NextWord may go on.                   *)
LEMMA WordRead ==
  ASSUME NEW F \in Lines, NEW s \in Seq(Chars), NEW r \in Seq(Chars), NEW z \in ScreenSizes, NEW k \in Seq(Chars),
         RowsWritten(F, s, << >>, r, FALSE, z, k)
  PROVE  /\ NextOf(r) = << >> => RowsWritten(F, s, NextOf(r), AfterOf(r), TRUE, z, k)
         /\ NextOf(r) # << >> /\ s = << >> => RowsWritten(F, s, NextOf(r), AfterOf(r), FALSE, z, k)
         /\ NextOf(r) # << >> /\ s # << >> /\ Len(F) + 1 < z.rows =>
              RowsWritten(Append(F, s), << >>, NextOf(r), AfterOf(r), FALSE, z, k)
         /\ NextOf(r) # << >> /\ ~(Len(F) + 1 < z.rows) => RowsWritten(F, s, NextOf(r), AfterOf(r), TRUE, z, k)
         /\ /\ NextOf(r) # << >> /\ s # << >>
            /\ Cells(s) + 1 + Cells(NextOf(r)) <= z.width /\ Bytes(s) + 1 < z.bytes
            => RowsWritten(F, s \o << " " >>, NextOf(r), AfterOf(r), FALSE, z, k)
<1> DEFINE n == NextOf(r)
           a == AfterOf(r)
           X == Letters(FlattenSeq(F)) \o Letters(s)
<1>1. PICK g : GapBefore(r, g)
  BY NextIs
<1>2. PICK b \in Seq(Chars) : Reading(b, k, r, << >>, s)
  BY DEF RowsWritten
<1>3. n \in Seq(Chars) /\ a \in Seq(Chars) /\ g \in Seq(Chars) /\ NoSpaces(n) /\ (n = << >> => a = << >>)
  BY <1>1 DEF GapBefore
<1>4. Letters(r) = n \o Letters(a) /\ (n = << >> => Letters(a) = << >> /\ Letters(r) = << >>)
  BY <1>1, LettersRead
<1>5. /\ Len(F) + 1 \in 1..z.rows
      /\ (\A i \in 1..Len(F) : GoodRow(F[i], z, k)) /\ GoodRow(s, z, k)
      /\ (X \o << >>) \o Letters(r) = Letters(k)
  BY DEF RowsWritten
<1>6. n # << >> => LET c == (b \o g) \o n
                   IN  /\ c \in Seq(Chars)
                       /\ Reading(c, k, a, n, << >>)
                       /\ s # << >> => Reading(c, k, a, n, s \o << " " >>)
  BY <1>1, <1>2, ReadsOn
<1> HIDE DEF n, a
<1>7. Letters(FlattenSeq(F)) \in Seq(Chars) /\ Letters(s) \in Seq(Chars) /\ Letters(a) \in Seq(Chars)
      /\ Letters(r) \in Seq(Chars)
  BY <1>3, LettersTyped, FlatTyped
<1>8. X \in Seq(Chars)
  BY <1>7, Joined
<1> HIDE DEF X
<1>9. (X \o n) \o Letters(a) = Letters(k)
  <2>1. WordMoved(X, n, Letters(r), Letters(a))
    BY <1>3, <1>4, <1>7, <1>8, WordMoves
  <2>2. QED
    BY <1>5, <2>1 DEF WordMoved
<1>10. ASSUME n = << >>
       PROVE  RowsWritten(F, s, n, a, TRUE, z, k)
  <2>1. n \o Letters(a) = << >>
    BY <1>4, <1>10
  <2>2. QED
    BY <1>3, <1>5, <1>9, <2>1 DEF RowsWritten, X
<1>11. ASSUME n # << >>
       PROVE  \E c \in Seq(Chars) : Reading(c, k, a, n, << >>) /\ (s # << >> => Reading(c, k, a, n, s \o << " " >>))
  BY <1>6, <1>11
<1>12. ASSUME n # << >>, s = << >>
       PROVE  RowsWritten(F, s, n, a, FALSE, z, k)
  BY <1>3, <1>5, <1>9, <1>11, <1>12 DEF RowsWritten, X
<1>13. ASSUME n # << >>, s # << >>, Len(F) + 1 < z.rows
       PROVE  RowsWritten(Append(F, s), << >>, n, a, FALSE, z, k)
  <2> DEFINE q == Append(F, s)
  <2>1. /\ q \in Lines /\ Len(q) = Len(F) + 1 /\ Len(F) \in Nat
        /\ \A i \in 1..Len(q) : GoodRow(q[i], z, k)
        /\ Letters(FlattenSeq(q)) \o Letters(<< >>) = X
    BY <1>5, RowGrows DEF X
  <2> HIDE DEF q
  <2>2. Len(q) + 1 \in 1..z.rows
    BY <1>13, <2>1, SizeIs
  <2>3. GoodRow(<< >>, z, k)
    BY EmptyRow
  <2>4. ((Letters(FlattenSeq(q)) \o Letters(<< >>)) \o n) \o Letters(a) = Letters(k)
    BY <1>9, <2>1
  <2>5. RowsWritten(q, << >>, n, a, FALSE, z, k)
    BY <1>3, <1>11, <1>13, <2>1, <2>2, <2>3, <2>4 DEF RowsWritten
  <2>6. QED
    BY <2>5 DEF q
<1>14. ASSUME n # << >>, ~(Len(F) + 1 < z.rows)
       PROVE  RowsWritten(F, s, n, a, TRUE, z, k)
  <2>1. Len(F) + 1 = z.rows
    BY <1>5, <1>14, SizeIs
  <2>2. QED
    BY <1>3, <1>5, <1>9, <2>1 DEF RowsWritten, X
<1>15. ASSUME n # << >>, s # << >>, Cells(s) + 1 + Cells(n) <= z.width, Bytes(s) + 1 < z.bytes
       PROVE  RowsWritten(F, s \o << " " >>, n, a, FALSE, z, k)
  <2> DEFINE sp == << " " >>
             t == s \o sp
  <2>1. sp \in Seq(Chars)
    BY OneCharacter DEF Chars
  <2>2. Bytes(sp) = 1 /\ Cells(sp) = 1 /\ Letters(sp) = << >>
    <3>1. << >> \in Seq(Chars) /\ " " \in Chars /\ Append(<< >>, " ") = sp
      <4>1. << >> \in Seq(Chars)
        BY EmptySeq
      <4>2. " " \in Chars
        BY DEF Chars
      <4>3. Append(<< >>, " ") = << " " >>
        OBVIOUS
      <4>4. QED
        BY <4>1, <4>2, <4>3
    <3>2. /\ Bytes(Append(<< >>, " ")) = Bytes(<< >>) + IF " " = "w" THEN 3 ELSE 1
          /\ Cells(Append(<< >>, " ")) = Cells(<< >>) + IF " " = "w" THEN 2 ELSE 1
      BY <3>1, SizesStep
    <3>3. Letters(Append(<< >>, " ")) = IF " " # " " THEN Append(Letters(<< >>), " ") ELSE Letters(<< >>)
      BY <3>1, LettersStep
    <3> HIDE DEF sp
    <3>4. Bytes(sp) = 0 + 1 /\ Cells(sp) = 0 + 1
      BY <3>1, <3>2, NothingHasNoSize
    <3>5. Letters(sp) = << >>
      BY <3>1, <3>3, NoLetters
    <3>6. QED
      BY <3>4, <3>5
  <2> HIDE DEF sp
  <2>3. t \in Seq(Chars) /\ Bytes(t) = Bytes(s) + 1 /\ Cells(t) = Cells(s) + 1 /\ Letters(t) = Letters(s) \o << >>
    <3>1. t \in Seq(Chars)
      BY <2>1, Joined
    <3>2. Bytes(t) = Bytes(s) + Bytes(sp) /\ Cells(t) = Cells(s) + Cells(sp)
      BY <2>1, SizesAdd
    <3>3. Letters(t) = Letters(s) \o Letters(sp)
      BY <2>1, LettersAdd
    <3>4. QED
      BY <2>2, <3>1, <3>2, <3>3
  <2>4. Letters(t) = Letters(s)
    BY <1>7, <2>3, ConcatEmptySeq
  <2>5. PICK c \in Seq(Chars) : Reading(c, k, a, n, t)
    BY <1>11, <1>15 DEF sp
  <2> HIDE DEF t
  <2>6. IsPieceOf(t, Spaced(k))
    <3>1. k = c \o a
      BY <2>5 DEF Reading
    <3>2. PICK u \in Seq(Chars) : Spaced(c) = (u \o t) \o n
      BY <2>5 DEF Reading
    <3>3. QED
      BY <1>3, <2>3, <3>1, <3>2, PieceOfAll
  <2>7. Cells(s) \in Nat /\ Cells(n) \in Nat /\ Bytes(s) \in Nat
    BY <1>3, SizesTyped
  <2>8. Cells(t) + Cells(n) <= z.width /\ Cells(t) <= z.width /\ Bytes(t) < z.bytes
    <3>1. z.width \in Nat /\ z.bytes \in Nat
      BY SizeIs
    <3>2. QED
      BY ONLY <1>15, <2>3, <2>7, <3>1
  <2>9. GoodRow(t, z, k)
    BY <2>6, <2>8 DEF GoodRow
  <2>10. ((Letters(FlattenSeq(F)) \o Letters(t)) \o n) \o Letters(a) = Letters(k)
    BY <1>9, <2>4 DEF X
  <2>11. RowsWritten(F, t, n, a, FALSE, z, k)
    BY <1>3, <1>5, <2>5, <2>8, <2>9, <2>10 DEF RowsWritten
  <2>12. QED
    BY <2>11 DEF t, sp
<1>16. QED
  BY <1>10, <1>12, <1>13, <1>14, <1>15 DEF n, a

(* A part of the word is written, in every way that PlaceWord may go on.   *)
LEMMA WordPlaced ==
  ASSUME NEW F \in Lines, NEW s \in Seq(Chars), NEW x \in Seq(Chars), NEW y \in Seq(Chars),
         NEW r \in Seq(Chars), NEW z \in ScreenSizes, NEW k \in Seq(Chars),
         RowsWritten(F, s, x \o y, r, FALSE, z, k),
         Bytes(s \o x) < z.bytes, Cells(s \o x) <= z.width \/ Len(s \o x) = 1
  PROVE  /\ y = << >> => RowsWritten(F, s \o x, y, r, FALSE, z, k)
         /\ Len(F) + 1 < z.rows => RowsWritten(Append(F, s \o x), << >>, y, r, FALSE, z, k)
         /\ ~(Len(F) + 1 < z.rows) => RowsWritten(F, s \o x, y, r, TRUE, z, k)
<1> DEFINE t == s \o x
           e == << >>
           G == Letters(FlattenSeq(F))
<1>1. PICK b \in Seq(Chars) : Reading(b, k, r, x \o y, s)
  BY DEF RowsWritten
<1>2. PICK u \in Seq(Chars) : Spaced(b) = (u \o s) \o (x \o y)
  BY <1>1 DEF Reading
<1>3. /\ Len(F) + 1 \in 1..z.rows
      /\ \A i \in 1..Len(F) : GoodRow(F[i], z, k)
      /\ ((G \o Letters(s)) \o (x \o y)) \o Letters(r) = Letters(k)
      /\ NoSpaces(x \o y)
  BY DEF RowsWritten
<1>4. k = b \o r /\ AtBreak(b, r)
  BY <1>1 DEF Reading
<1>5. t \in Seq(Chars) /\ e \in Seq(Chars)
  BY Joined, EmptySeq
<1>6. NoSpaces(x) /\ NoSpaces(y)
  <2> DEFINE M == Len(x)
             N == Len(y)
  <2>1. M \in Nat /\ N \in Nat
    BY LenProperties
  <2>2. Len(x \o y) = M + N /\ \A i \in 1..(M + N) : (x \o y)[i] = IF i <= M THEN x[i] ELSE y[i - M]
    BY Joined
  <2> HIDE DEF M, N
  <2>3. ASSUME NEW i \in 1..M
        PROVE  x[i] # " "
    <3>1. i \in 1..(M + N) /\ i <= M
      BY <2>1
    <3>2. QED
      BY <1>3, <2>2, <3>1 DEF NoSpaces
  <2>4. ASSUME NEW i \in 1..N
        PROVE  y[i] # " "
    <3>1. M + i \in 1..(M + N) /\ ~(M + i <= M) /\ (M + i) - M = i
      BY <2>1
    <3>2. (x \o y)[M + i] # " "
      BY <1>3, <2>2, <3>1 DEF NoSpaces
    <3>3. (x \o y)[M + i] = y[i]
      BY <2>2, <3>1
    <3>4. QED
      BY <3>2, <3>3
  <2>5. QED
    BY <2>3, <2>4 DEF NoSpaces, M, N
<1>7. Spaced(b) = (u \o t) \o y
  <2>1. Regroups(u \o s, x, y) /\ Regroups(u, s, x)
    <3>1. u \o s \in Seq(Chars)
      BY Joined
    <3>2. QED
      BY <3>1, Regroup
  <2>2. QED
    BY <1>2, <2>1 DEF Regroups
<1>8. Letters(t) = Letters(s) \o x /\ Letters(x) = x
  BY <1>6, LettersAdd, LettersOfWord, ZenonT(60)
<1>9. G \in Seq(Chars) /\ Letters(s) \in Seq(Chars) /\ Letters(r) \in Seq(Chars)
  BY FlatTyped, LettersTyped
<1> HIDE DEF t, e, G
<1>10. GoodRow(t, z, k)
  <2>1. IsPieceOf(t, Spaced(b \o r))
    BY <1>5, <1>7, PieceOfAll
  <2>2. QED
    BY <1>4, <2>1 DEF GoodRow, t
<1>11. ((G \o Letters(t)) \o y) \o Letters(r) = Letters(k)
  <2>1. Regroups(G \o Letters(s), x, y) /\ Regroups(G, Letters(s), x)
    <3>1. G \o Letters(s) \in Seq(Chars)
      BY <1>9, Joined
    <3>2. QED
      BY <1>9, <3>1, Regroup
  <2>2. QED
    BY <1>3, <1>8, <2>1 DEF Regroups
<1>12. ASSUME y = << >>
       PROVE  RowsWritten(F, t, y, r, FALSE, z, k)
  <2>1. Reading(b, k, r, y, t)
    BY <1>4, <1>7 DEF Reading
  <2>2. QED
    BY <1>3, <1>6, <1>10, <1>11, <1>12, <2>1 DEF RowsWritten, G
<1>13. ASSUME Len(F) + 1 < z.rows
       PROVE  RowsWritten(Append(F, t), e, y, r, FALSE, z, k)
  <2> DEFINE q == Append(F, t)
  <2>1. /\ q \in Lines /\ Len(q) = Len(F) + 1 /\ Len(F) \in Nat
        /\ \A i \in 1..Len(q) : GoodRow(q[i], z, k)
        /\ Letters(FlattenSeq(q)) \o Letters(<< >>) = G \o Letters(t)
    BY <1>3, <1>5, <1>10, RowGrows DEF G
  <2> HIDE DEF q
  <2>2. Len(q) + 1 \in 1..z.rows
    BY <1>13, <2>1, SizeIs
  <2>3. GoodRow(<< >>, z, k)
    BY EmptyRow
  <2>4. ((Letters(FlattenSeq(q)) \o Letters(<< >>)) \o y) \o Letters(r) = Letters(k)
    BY <1>11, <2>1
  <2>5. Reading(b, k, r, y, << >>)
    <3>1. u \o t \in Seq(Chars)
      BY <1>5, Joined
    <3>2. (u \o t) \o << >> = u \o t
      BY <3>1, ConcatEmptySeq
    <3>3. Spaced(b) = ((u \o t) \o << >>) \o y
      BY <1>7, <3>2
    <3>4. QED
      BY <1>4, <3>1, <3>3 DEF Reading
  <2>6. RowsWritten(q, << >>, y, r, FALSE, z, k)
    BY <1>6, <2>1, <2>2, <2>3, <2>4, <2>5 DEF RowsWritten
  <2>7. QED
    BY <2>6 DEF q, e
<1>14. ASSUME ~(Len(F) + 1 < z.rows)
       PROVE  RowsWritten(F, t, y, r, TRUE, z, k)
  <2>1. Len(F) + 1 = z.rows
    BY <1>3, <1>14, SizeIs
  <2>2. QED
    BY <1>3, <1>6, <1>10, <1>11, <2>1 DEF RowsWritten, G
<1>15. QED
  BY <1>12, <1>13, <1>14 DEF t, e

--------------------------------------------------------------------------------
(* The invariant of ApprovalText.                                          *)
ScrollTime == Hold + Step * (HintBack + 2)

TextInv ==
  /\ hint \in Seq(Chars) /\ size \in HintSizes
  /\ Wrapped(rows, word, rest, done, size, Kept)
  /\ elapsed \in 0..ScrollTime /\ (~done => elapsed = 0)
  /\ shownRows \subseteq 1..size.rows

LEMMA Product ==
  ASSUME NEW a \in Nat, NEW b \in Nat, NEW c \in Nat
  PROVE  c + a * b \in Nat /\ 0 \in 0..(c + a * b)
<1>1. a * b \in Nat
  OBVIOUS
<1> DEFINE p == a * b
<1>2. p \in Nat
  BY <1>1
<1> HIDE DEF p
<1>3. c + p \in Nat /\ 0 \in 0..(c + p)
  BY <1>2
<1>4. QED
  BY <1>3 DEF p

LEMMA SizesAreSizes == HintSizes \subseteq ScreenSizes
BY TextAssumption DEF ScreenSizes

LEMMA KeptTyped ==
  ASSUME hint \in Seq(Chars)
  PROVE  Kept \in Seq(Chars)
<1> DEFINE n == Clip(hint, 2 * MaxText, HintCap - 1)
<1>1. 2 * MaxText \in Nat /\ HintCap - 1 \in Nat
  BY TextAssumption
<1>2. n \in 0..Len(hint)
  <2> DEFINE x == 2 * MaxText
             y == HintCap - 1
  <2>1. x \in Nat /\ y \in Nat
    BY <1>1
  <2> HIDE DEF x, y
  <2>2. Clip(hint, x, y) \in 0..Len(hint)
    BY <2>1, ClipIs
  <2>3. QED
    BY <2>2 DEF x, y
<1>3. Kept = Prefix(hint, n)
  BY DEF Kept, CopyTruncate
<1> HIDE DEF n
<1>4. QED
  BY <1>2, <1>3, PrefixStep

(* The rows that scroll are some of those there are.                       *)
Scrolling == HintRows \in 0..size.rows /\ HintBack \in 0..size.rows

LEMMA ScrollTyped == rows \in Lines /\ Len(rows) \in 1..size.rows /\ size \in ScreenSizes => Scrolling
<1> SUFFICES ASSUME rows \in Lines, Len(rows) \in 1..size.rows, size \in ScreenSizes
             PROVE  Scrolling
  OBVIOUS
<1>1. size.rows \in Nat /\ size.visible \in Nat
  BY SizeIs
<1>2. HintRows = 0 \/ HintRows = Len(rows)
  BY DEF HintRows
<1>3. HintRows \in 0..size.rows
  BY <1>1, <1>2
<1>4. HintBack = 0 \/ (HintRows > size.visible /\ HintBack = HintRows - size.visible)
  BY DEF HintBack
<1>5. QED
  BY <1>1, <1>3, <1>4 DEF Scrolling

LEMMA ScrollTypedNext == (rows \in Lines /\ Len(rows) \in 1..size.rows /\ size \in ScreenSizes => Scrolling)'
BY ScrollTyped, PTL

(* A step of the wrapping, once the rows are right again.                  *)
LEMMA Settles ==
  ASSUME TextInv, ~done, Wrapped(rows', word', rest', done', size, Kept),
         UNCHANGED <<hint, size, elapsed, shownRows>>
  PROVE  TextInv'
<1>1. Kept' = Kept /\ size' = size /\ hint' = hint
  BY DEF Kept
<1>2. hint' \in Seq(Chars) /\ size' \in HintSizes /\ Wrapped(rows', word', rest', done', size', Kept')
  BY <1>1 DEF TextInv
<1>3. elapsed' = 0 /\ shownRows' \subseteq 1..size'.rows
  BY DEF TextInv
<1>4. Scrolling'
  <2>1. size' \in ScreenSizes
    BY <1>2, SizesAreSizes
  <2>2. rows' \in Lines /\ Len(rows') \in 1..size'.rows
    BY <1>2 DEF Wrapped
  <2>3. QED
    BY <2>1, <2>2, ScrollTypedNext
<1>5. 0 \in 0..ScrollTime'
  <2>1. size'.rows \in Nat
    BY <1>2, SizesAreSizes, SizeIs
  <2>2. HintBack' \in Nat
    BY <1>4, <2>1 DEF Scrolling
  <2>3. Step \in Nat /\ Hold \in Nat
    BY TextAssumption
  <2>4. ScrollTime' = Hold + Step * (HintBack' + 2)
    BY DEF ScrollTime
  <2>5. \A h \in Nat : 0 \in 0..(Hold + Step * (h + 2))
    <3>1. SUFFICES ASSUME NEW h \in Nat
                   PROVE  0 \in 0..(Hold + Step * (h + 2))
      OBVIOUS
    <3> DEFINE b == h + 2
    <3>2. b \in Nat
      OBVIOUS
    <3> HIDE DEF b
    <3>3. 0 \in 0..(Hold + Step * b)
      BY <2>3, <3>2, Product
    <3>4. QED
      BY <3>3 DEF b
  <2>6. QED
    BY <2>2, <2>4, <2>5, Zenon
<1>6. QED
  BY <1>2, <1>3, <1>5 DEF TextInv

(* The rows of a hint that is being wrapped, before the last one and it.   *)
LEMMA WrappingIs ==
  ASSUME TextInv
  PROVE  LET F == Prefix(rows, Len(rows) - 1) IN
         /\ size \in ScreenSizes /\ Kept \in Seq(Chars) /\ F \in Lines /\ Row \in Seq(Chars)
         /\ Len(rows) \in Nat /\ Len(F) + 1 = Len(rows) /\ rows = Append(F, Row)
         /\ rest \in Seq(Chars) /\ word \in Seq(Chars)
         /\ RowsWritten(F, Row, word, rest, done, size, Kept)
         /\ \A t \in Seq(Chars) : RowWith(t) <=> rows' = Append(F, Row \o t)
<1> DEFINE F == Prefix(rows, Len(rows) - 1)
<1>1. size \in ScreenSizes /\ Kept \in Seq(Chars)
  BY SizesAreSizes, KeptTyped DEF TextInv
<1>2. rows \in Lines /\ Len(rows) \in 1..size.rows /\ rest \in Seq(Chars) /\ word \in Seq(Chars)
      /\ Wrapped(rows, word, rest, done, size, Kept)
  BY DEF TextInv, Wrapped
<1>3. Len(rows) \in Nat /\ Len(rows) > 0
  BY <1>1, <1>2, SizeIs
<1>4. /\ rows = Append(F, Row) /\ F \in Lines /\ Row \in Seq(Chars)
      /\ Len(F) = Len(rows) - 1
      /\ \A s \in Seq(Chars) : [rows EXCEPT ![Len(rows)] = s] = Append(F, s)
  BY <1>2, <1>3, RowsAre DEF Row
<1> HIDE DEF F
<1>5. RowsWritten(F, Row, word, rest, done, size, Kept)
  <2>1. Wrapped(Append(F, Row), word, rest, done, size, Kept)
    BY <1>2, <1>4
  <2>2. QED
    BY <1>4, <2>1, WrappedIsWritten
<1>6. Len(F) + 1 = Len(rows)
  BY <1>3, <1>4
<1>7. ASSUME NEW t \in Seq(Chars)
      PROVE  RowWith(t) <=> rows' = Append(F, Row \o t)
  <2>1. Row \o t \in Seq(Chars)
    BY <1>4, Joined
  <2>2. RowWith(t) <=> rows' = [rows EXCEPT ![Len(rows)] = Row \o t]
    BY DEF RowWith, Row
  <2>3. [rows EXCEPT ![Len(rows)] = Row \o t] = Append(F, Row \o t)
    BY <1>4, <2>1
  <2>4. QED
    BY <2>2, <2>3
<1>8. QED
  BY <1>1, <1>2, <1>3, <1>4, <1>5, <1>6, <1>7 DEF F

LEMMA NextWordKeeps ==
  ASSUME TextInv, NextWord
  PROVE  TextInv'
<1> DEFINE F == Prefix(rows, Len(rows) - 1)
           n == NextOf(rest)
           a == AfterOf(rest)
           spills == \/ Cells(Row) + 1 + Cells(n) > size.width
                     \/ BytesLeft <= 1
                     \/ Clip(n, CellsLeft - 1, BytesLeft - 1) = 0
<1>1. ~done /\ word = << >> /\ word' = n /\ rest' = a /\ UNCHANGED <<hint, size, elapsed, shownRows>>
  BY DEF NextWord, NextOf, AfterOf, LineOf
<1>2. \/ n = << >> /\ done' = TRUE /\ UNCHANGED rows
      \/ n # << >> /\ Row = << >> /\ UNCHANGED <<rows, done>>
      \/ n # << >> /\ Row # << >> /\ NextRow(<< >>)
      \/ n # << >> /\ Row # << >> /\ ~spills /\ RowWith(<< " " >>) /\ UNCHANGED done
  BY DEF NextWord, NextOf, LineOf
<1>3. /\ size \in ScreenSizes /\ Kept \in Seq(Chars) /\ F \in Lines /\ Row \in Seq(Chars)
      /\ Len(rows) \in Nat /\ Len(F) + 1 = Len(rows) /\ rows = Append(F, Row)
      /\ rest \in Seq(Chars)
      /\ RowsWritten(F, Row, word, rest, done, size, Kept)
      /\ \A t \in Seq(Chars) : RowWith(t) <=> rows' = Append(F, Row \o t)
  BY WrappingIs
<1>4. done = FALSE /\ RowsWritten(F, Row, << >>, rest, FALSE, size, Kept)
  <2>1. done = FALSE
    BY <1>1 DEF TextInv, Wrapped
  <2>2. QED
    BY <1>1, <1>3, <2>1
<1> HIDE DEF F
<1>5. /\ n = << >> => RowsWritten(F, Row, n, a, TRUE, size, Kept)
      /\ n # << >> /\ Row = << >> => RowsWritten(F, Row, n, a, FALSE, size, Kept)
      /\ n # << >> /\ Row # << >> /\ Len(F) + 1 < size.rows =>
           RowsWritten(Append(F, Row), << >>, n, a, FALSE, size, Kept)
      /\ n # << >> /\ ~(Len(F) + 1 < size.rows) => RowsWritten(F, Row, n, a, TRUE, size, Kept)
      /\ /\ n # << >> /\ Row # << >>
         /\ Cells(Row) + 1 + Cells(n) <= size.width /\ Bytes(Row) + 1 < size.bytes
         => RowsWritten(F, Row \o << " " >>, n, a, FALSE, size, Kept)
  BY <1>3, <1>4, WordRead
<1>6. n \in Seq(Chars)
  BY <1>3, NextIs DEF GapBefore
<1> HIDE DEF n, a, spills
<1>7. Wrapped(rows', word', rest', done', size, Kept)
  <2>1. CASE n = << >> /\ done' = TRUE /\ UNCHANGED rows
    <3>1. Wrapped(Append(F, Row), n, a, TRUE, size, Kept)
      BY <1>3, <1>5, <2>1, WrappedIsWritten
    <3>2. rows' = Append(F, Row)
      BY <1>3, <2>1
    <3>3. QED
      BY <1>1, <2>1, <3>1, <3>2
  <2>2. CASE n # << >> /\ Row = << >> /\ UNCHANGED <<rows, done>>
    <3>1. Wrapped(Append(F, Row), n, a, FALSE, size, Kept)
      BY <1>3, <1>5, <2>2, WrappedIsWritten
    <3>2. rows' = Append(F, Row) /\ done' = FALSE
      BY <1>3, <1>4, <2>2
    <3>3. QED
      BY <1>1, <3>1, <3>2
  <2>3. CASE n # << >> /\ Row # << >> /\ NextRow(<< >>)
    <3>1. CASE Len(rows) < size.rows
      <4>1. rows' = Append(rows, << >>) /\ done' = FALSE
        BY <1>4, <2>3, <3>1 DEF NextRow
      <4>2. RowsWritten(rows, << >>, n, a, FALSE, size, Kept)
        BY <1>3, <1>5, <2>3, <3>1
      <4>3. rows \in Lines /\ << >> \in Seq(Chars)
        BY EmptySeq DEF TextInv, Wrapped
      <4>4. Wrapped(Append(rows, << >>), n, a, FALSE, size, Kept)
        BY <4>2, <4>3, WrappedIsWritten
      <4>5. QED
        BY <1>1, <4>1, <4>4
    <3>2. CASE ~(Len(rows) < size.rows)
      <4>1. rows' = Append(F, Row) /\ done' = TRUE
        BY <1>3, <2>3, <3>2 DEF NextRow
      <4>2. RowsWritten(F, Row, n, a, TRUE, size, Kept)
        BY <1>3, <1>5, <2>3, <3>2
      <4>3. Wrapped(Append(F, Row), n, a, TRUE, size, Kept)
        BY <1>3, <4>2, WrappedIsWritten
      <4>4. QED
        BY <1>1, <4>1, <4>3
    <3>3. QED
      BY <3>1, <3>2
  <2>4. CASE n # << >> /\ Row # << >> /\ ~spills /\ RowWith(<< " " >>) /\ UNCHANGED done
    <3>1. << " " >> \in Seq(Chars)
      BY OneCharacter DEF Chars
    <3>2. Row \o << " " >> \in Seq(Chars)
      BY <1>3, <3>1, Joined
    <3>3. rows' = Append(F, Row \o << " " >>) /\ done' = FALSE
      BY <1>3, <1>4, <2>4, <3>1
    <3>4. Cells(Row) + 1 + Cells(n) <= size.width /\ Bytes(Row) + 1 < size.bytes
      <4>1. size.width \in Nat /\ size.bytes \in Nat
        BY <1>3, SizeIs
      <4>2. Cells(Row) \in Nat /\ Cells(n) \in Nat /\ Bytes(Row) \in Nat
        BY <1>3, <1>6, SizesTyped
      <4>3. ~(Cells(Row) + 1 + Cells(n) > size.width) /\ ~(size.bytes - 1 - Bytes(Row) <= 1)
        BY <2>4 DEF spills, BytesLeft
      <4>4. QED
        BY ONLY <4>1, <4>2, <4>3
    <3>5. RowsWritten(F, Row \o << " " >>, n, a, FALSE, size, Kept)
      BY <1>5, <2>4, <3>4
    <3>6. Wrapped(Append(F, Row \o << " " >>), n, a, FALSE, size, Kept)
      BY <1>3, <3>2, <3>5, WrappedIsWritten
    <3>7. QED
      BY <1>1, <3>3, <3>6
  <2>5. QED
    BY <1>2, <2>1, <2>2, <2>3, <2>4
<1>8. QED
  BY <1>1, <1>7, Settles

(* How much PlaceWord takes fits, and is all of a word that fits.          *)
Taken ==
  LET clipped == Clip(word, CellsLeft, BytesLeft)
  IN  IF clipped = 0 /\ Row = << >> THEN Clip(Prefix(word, 1), 2, BytesLeft) ELSE clipped

Takes(t) ==
  /\ t \in 0..Len(word)
  /\ Bytes(Row \o Prefix(word, t)) < size.bytes
  /\ Cells(Row \o Prefix(word, t)) <= size.width \/ Len(Row \o Prefix(word, t)) = 1
  /\ Cells(word) <= size.width /\ Bytes(Row \o word) < size.bytes => t = Len(word)

LEMMA TakenIs ==
  ASSUME TextInv, ~done, word # << >>
  PROVE  Takes(Taken)
<1>1. /\ size \in ScreenSizes /\ Kept \in Seq(Chars) /\ Row \in Seq(Chars) /\ word \in Seq(Chars)
      /\ GoodRow(Row, size, Kept)
      /\ Row = << >> \/ Cells(Row) + Cells(word) <= size.width
  BY WrappingIs DEF RowsWritten
<1> DEFINE cl == Cells(Row)
           by == Bytes(Row)
           cw == Cells(word)
           bw == Bytes(word)
           wd == size.width
           bs == size.bytes
           cp == Clip(word, CellsLeft, BytesLeft)
<1>2. cl \in Nat /\ by \in Nat /\ cw \in Nat /\ bw \in Nat
  BY <1>1, SizesTyped
<1>3. wd \in Nat \ {0} /\ bs \in Nat \ {0}
  BY <1>1, SizeIs
<1>4. by < bs /\ (Row = << >> => cl = 0 /\ by = 0) /\ (Row = << >> \/ cl + cw <= wd)
  BY <1>1, NothingHasNoSize DEF GoodRow
<1>5. CellsLeft = wd - cl /\ BytesLeft = bs - 1 - by
  BY DEF CellsLeft, BytesLeft
<1>6. Cells(Row \o word) = cl + cw /\ Bytes(Row \o word) = by + bw
  BY <1>1, SizesAdd
<1>7. Len(word) \in Nat /\ Len(word) > 0
  BY <1>1, Emptiness
<1> HIDE DEF cl, by, cw, bw, wd, bs
<1>8. CellsLeft \in Nat /\ BytesLeft \in Nat
  BY ONLY <1>2, <1>3, <1>4, <1>5
<1>9. /\ cp \in 0..Len(word)
      /\ Cells(Prefix(word, cp)) <= CellsLeft /\ Bytes(Prefix(word, cp)) <= BytesLeft
      /\ cw <= CellsLeft /\ bw <= BytesLeft => cp = Len(word)
  <2> DEFINE x == CellsLeft
             y == BytesLeft
  <2>1. x \in Nat /\ y \in Nat
    BY <1>8
  <2> HIDE DEF x, y
  <2>2. /\ Clip(word, x, y) \in 0..Len(word)
        /\ Cells(Prefix(word, Clip(word, x, y))) <= x /\ Bytes(Prefix(word, Clip(word, x, y))) <= y
        /\ Cells(word) <= x /\ Bytes(word) <= y => Clip(word, x, y) = Len(word)
    BY <1>1, <2>1, ClipIs
  <2>3. QED
    BY <2>2 DEF x, y, cw, bw
<1> HIDE DEF cp
<1>10. cw <= wd /\ by + bw < bs => cp = Len(word)
  <2>1. cw <= wd /\ by + bw < bs => cw <= CellsLeft /\ bw <= BytesLeft
    BY ONLY <1>2, <1>3, <1>4, <1>5
  <2>2. QED
    BY <1>9, <2>1
<1>11. CASE cp = 0 /\ Row = << >>
  <2> DEFINE one == Prefix(word, 1)
             y == BytesLeft
             t == Clip(one, 2, y)
  <2>1. one \in Seq(Chars) /\ Len(one) = 1
    <3>1. 1 \in 0..Len(word)
      BY <1>7
    <3>2. QED
      BY <1>1, <3>1, PrefixStep
  <2>2. y \in Nat /\ 2 \in Nat
    BY <1>8
  <2>3. t \in 0..1 /\ Bytes(Prefix(one, t)) <= y
    <3> HIDE DEF one, y
    <3>1. /\ Clip(one, 2, y) \in 0..Len(one)
          /\ Bytes(Prefix(one, Clip(one, 2, y))) <= y
      BY <2>1, <2>2, ClipIs
    <3>2. QED
      BY <2>1, <3>1
  <2>4. Taken = t
    BY <1>11 DEF Taken, cp
  <2> HIDE DEF t
  <2>5. Prefix(one, t) = Prefix(word, t)
    <3>1. one = Prefix(word, 1)
      OBVIOUS
    <3> HIDE DEF one
    <3>2. Prefix(one, 0) = << >> /\ Prefix(word, 0) = << >> /\ Prefix(one, 1) = one
      BY <1>1, <2>1, PrefixStep
    <3>3. t = 0 \/ t = 1
      BY <2>3
    <3>4. QED
      BY <3>1, <3>2, <3>3
  <2>6. Prefix(word, t) \in Seq(Chars) /\ Len(Prefix(word, t)) = t /\ t \in 0..Len(word)
    <3>1. t \in 0..Len(word)
      BY <1>7, <2>3
    <3>2. QED
      BY <1>1, <3>1, PrefixStep
  <2>7. Row \o Prefix(word, t) = Prefix(word, t)
    BY <1>11, <2>6, ConcatEmptySeq
  <2>8. Bytes(Prefix(word, t)) < bs
    <3>1. Bytes(Prefix(word, t)) <= BytesLeft
      BY <2>3, <2>5
    <3>2. Bytes(Prefix(word, t)) \in Nat
      BY <2>6, SizesTyped
    <3>3. QED
      BY ONLY <1>2, <1>3, <1>5, <3>1, <3>2
  <2>9. Cells(Prefix(word, t)) <= wd \/ Len(Prefix(word, t)) = 1
    <3>1. CASE t = 0
      <4>1. Prefix(word, t) = << >>
        BY <1>1, <3>1, PrefixStep
      <4>2. Cells(Prefix(word, t)) = 0
        BY <4>1, NothingHasNoSize
      <4>3. QED
        BY <1>3, <4>2
    <3>2. CASE t = 1
      BY <2>6, <3>2
    <3>3. QED
      BY <2>3, <3>1, <3>2
  <2>10. ~(cw <= wd /\ by + bw < bs)
    BY <1>7, <1>10, <1>11
  <2>11. QED
    BY <1>6, <2>4, <2>6, <2>7, <2>8, <2>9, <2>10 DEF Takes, cw, wd, bs
<1>12. CASE ~(cp = 0 /\ Row = << >>)
  <2> DEFINE x == Prefix(word, cp)
             cx == Cells(x)
             bx == Bytes(x)
  <2>1. Taken = cp
    BY <1>12 DEF Taken, cp
  <2>2. x \in Seq(Chars)
    BY <1>1, <1>9, PrefixStep
  <2>3. cx <= CellsLeft /\ bx <= BytesLeft
    BY <1>9
  <2> HIDE DEF x
  <2>4. Cells(Row \o x) = cl + cx /\ Bytes(Row \o x) = by + bx /\ cx \in Nat /\ bx \in Nat
    BY <1>1, <2>2, SizesAdd, SizesTyped DEF cl, by
  <2> HIDE DEF cx, bx
  <2>5. cl + cx <= wd /\ by + bx < bs
    BY ONLY <1>2, <1>3, <1>5, <2>3, <2>4
  <2>6. Cells(Row \o x) <= wd /\ Bytes(Row \o x) < bs
    BY <2>4, <2>5
  <2>7. QED
    BY <1>6, <1>9, <1>10, <2>1, <2>6 DEF Takes, cw, wd, bs, x
<1>13. QED
  BY <1>11, <1>12

LEMMA PlaceWordKeeps ==
  ASSUME TextInv, PlaceWord
  PROVE  TextInv'
<1> DEFINE F == Prefix(rows, Len(rows) - 1)
           t == Taken
           x == Prefix(word, t)
           y == Suffix(word, t)
           written == Append(F, Row \o x)
<1>1. ~done /\ word # << >> /\ word' = y /\ UNCHANGED <<hint, size, rest, elapsed, shownRows>>
  BY DEF PlaceWord, Taken
<1>2. \/ y = << >> /\ rows' = written /\ UNCHANGED done
      \/ Len(rows) < size.rows /\ y # << >> /\ rows' = Append(written, << >>) /\ UNCHANGED done
      \/ ~(Len(rows) < size.rows) /\ rows' = written /\ done' = TRUE
  BY DEF PlaceWord, Taken
<1>3. /\ size \in ScreenSizes /\ Kept \in Seq(Chars) /\ F \in Lines /\ Row \in Seq(Chars)
      /\ Len(rows) \in Nat /\ Len(F) + 1 = Len(rows)
      /\ rest \in Seq(Chars) /\ word \in Seq(Chars)
      /\ RowsWritten(F, Row, word, rest, done, size, Kept)
  BY WrappingIs
<1>4. done = FALSE
  BY <1>1 DEF TextInv, Wrapped
<1>5. Takes(t)
  BY <1>1, TakenIs
<1> HIDE DEF t, F
<1>6. x \in Seq(Chars) /\ y \in Seq(Chars) /\ word = x \o y
  <2>1. word \in Seq(Chars)
    BY <1>3
  <2>2. t \in 0..Len(word)
    BY <1>5 DEF Takes
  <2> HIDE DEF written
  <2>3. QED
    BY <2>1, <2>2, Split
<1>7. Bytes(Row \o x) < size.bytes /\ (Cells(Row \o x) <= size.width \/ Len(Row \o x) = 1)
  BY <1>5 DEF Takes
<1> HIDE DEF x, y
<1>8. Row \o x \in Seq(Chars) /\ written \in Lines
  <2>1. Row \o x \in Seq(Chars)
    BY <1>3, <1>6, Joined
  <2>2. QED
    BY <1>3, <2>1, RowAdded
<1>9. /\ y = << >> => RowsWritten(F, Row \o x, y, rest, FALSE, size, Kept)
      /\ Len(F) + 1 < size.rows => RowsWritten(Append(F, Row \o x), << >>, y, rest, FALSE, size, Kept)
      /\ ~(Len(F) + 1 < size.rows) => RowsWritten(F, Row \o x, y, rest, TRUE, size, Kept)
  <2>1. RowsWritten(F, Row, x \o y, rest, FALSE, size, Kept)
    BY <1>3, <1>4, <1>6
  <2>2. QED
    BY <1>3, <1>6, <1>7, <2>1, WordPlaced
<1>10. Wrapped(rows', word', rest', done', size, Kept)
  <2>1. CASE y = << >> /\ rows' = written /\ UNCHANGED done
    <3>1. Wrapped(Append(F, Row \o x), y, rest, FALSE, size, Kept)
      BY <1>3, <1>8, <1>9, <2>1, WrappedIsWritten
    <3>2. QED
      BY <1>1, <1>4, <2>1, <3>1
  <2>2. CASE Len(rows) < size.rows /\ y # << >> /\ rows' = Append(written, << >>) /\ UNCHANGED done
    <3>1. RowsWritten(written, << >>, y, rest, FALSE, size, Kept)
      BY <1>3, <1>9, <2>2
    <3>2. << >> \in Seq(Chars)
      BY EmptySeq
    <3> HIDE DEF written
    <3>3. Wrapped(Append(written, << >>), y, rest, FALSE, size, Kept)
      BY <1>8, <3>1, <3>2, WrappedIsWritten
    <3>4. QED
      BY <1>1, <1>4, <2>2, <3>3
  <2>3. CASE ~(Len(rows) < size.rows) /\ rows' = written /\ done' = TRUE
    <3>1. RowsWritten(F, Row \o x, y, rest, TRUE, size, Kept)
      BY <1>3, <1>9, <2>3
    <3>2. Wrapped(Append(F, Row \o x), y, rest, TRUE, size, Kept)
      BY <1>3, <1>8, <3>1, WrappedIsWritten
    <3>3. QED
      BY <1>1, <2>3, <3>2
  <2>4. QED
    BY <1>2, <2>1, <2>2, <2>3
<1>11. QED
  BY <1>1, <1>10, Settles

LEMMA DrawHintKeeps ==
  ASSUME TextInv, DrawHint
  PROVE  TextInv'
<1>1. done /\ UNCHANGED <<hint, size, rest, word, rows, done>>
  BY DEF DrawHint
<1>2. /\ hint' \in Seq(Chars) /\ size' \in HintSizes /\ Wrapped(rows', word', rest', done', size', Kept')
      /\ HintBack' = HintBack /\ ScrollTime' = ScrollTime
  <2>1. Kept' = Kept
    BY <1>1 DEF Kept
  <2>2. HintBack' = HintBack
    BY <1>1 DEF HintBack, HintRows
  <2>3. ScrollTime' = ScrollTime
    BY <2>2 DEF ScrollTime
  <2>4. QED
    BY <1>1, <2>1, <2>2, <2>3 DEF TextInv
<1>3. Scrolling /\ size.rows \in Nat
  <2>1. size \in ScreenSizes
    BY SizesAreSizes DEF TextInv
  <2>2. rows \in Lines /\ Len(rows) \in 1..size.rows
    BY DEF TextInv, Wrapped
  <2>3. QED
    BY <2>1, <2>2, ScrollTyped, SizeIs
<1>4. shownRows' \subseteq 1..size'.rows
  <2>1. shownRows' = shownRows \cup {i \in 1..HintRows : i - Offset \in 1..size.visible}
    BY DEF DrawHint
  <2>2. 1..HintRows \subseteq 1..size.rows
    BY <1>3 DEF Scrolling
  <2>3. QED
    BY <1>1, <2>1, <2>2 DEF TextInv
<1>5. elapsed' \in 0..ScrollTime
  <2> DEFINE p == Step * (HintBack + 2)
  <2>1. HintBack \in Nat
    BY <1>3 DEF Scrolling
  <2>2. Step \in Nat \ {0} /\ Hold \in Nat
    BY TextAssumption
  <2>3. p \in Nat \ {0}
    <3> DEFINE b == HintBack + 2
    <3>1. b \in Nat /\ b >= 2
      BY <2>1
    <3> HIDE DEF b
    <3>2. Step * b \in Nat /\ Step * b # 0
      BY <2>2, <3>1
    <3>3. QED
      BY <3>2 DEF b
  <2>4. elapsed \in 0..(Hold + p)
    BY DEF TextInv, ScrollTime
  <2>5. elapsed' = IF elapsed < Hold + p THEN elapsed + 1 ELSE elapsed - p + 1
    BY DEF DrawHint
  <2> HIDE DEF p
  <2>6. elapsed' \in 0..(Hold + p)
    BY ONLY <2>2, <2>3, <2>4, <2>5
  <2>7. QED
    BY <2>6 DEF p, ScrollTime
<1>6. ~done' => elapsed' = 0
  BY <1>1
<1>7. QED
  BY <1>2, <1>4, <1>5, <1>6 DEF TextInv

LEMMA TextBegins ==
  ASSUME TextInit
  PROVE  TextInv
<1>1. hint \in Seq(Chars)
  <2>1. PICK n \in 0..MaxText : hint \in [1..n -> Chars]
    BY DEF TextInit
  <2>2. n \in Nat
    BY TextAssumption
  <2>3. QED
    BY <2>1, <2>2
<1>2. size \in HintSizes /\ size \in ScreenSizes
  BY SizesAreSizes DEF TextInit
<1>3. rest = Kept /\ word = << >> /\ rows = << << >> >> /\ done = FALSE /\ elapsed = 0 /\ shownRows = {}
  BY DEF TextInit, Kept
<1>4. Kept \in Seq(Chars)
  BY <1>1, KeptTyped
<1> DEFINE e == << >>
<1>5. e \in Seq(Chars) /\ e \in Lines /\ Len(e) = 0 /\ rows = Append(e, e)
  <2>1. << >> \in Seq(Chars) /\ Len(<< >>) = 0
    BY EmptySeq
  <2>2. << >> \in Seq(Seq(Chars))
    BY EmptySeq
  <2>3. << << >> >> = Append(<< >>, << >>)
    OBVIOUS
  <2>4. QED
    BY <1>3, <2>1, <2>2, <2>3 DEF Lines
<1>6. Letters(FlattenSeq(e)) = << >> /\ Letters(e) = << >>
  <2>1. FlattenSeq(<< >>) = << >>
    BY DEF FlattenSeq
  <2>2. QED
    BY <2>1, NoLetters
<1>7. Spaced(e) = << >> /\ e = << >>
  BY NoLetters
<1> HIDE DEF e
<1>8. e \o e = e /\ e \o Kept = Kept /\ e \o Letters(Kept) = Letters(Kept) /\ Letters(Kept) \in Seq(Chars)
  <2>1. Letters(Kept) \in Seq(Chars)
    BY <1>4, LettersTyped
  <2>2. QED
    BY <1>4, <1>5, <1>7, <2>1, ConcatEmptySeq
<1>9. Reading(e, Kept, rest, e, e)
  <2>1. Kept = e \o rest /\ AtBreak(e, rest)
    BY <1>3, <1>7, <1>8 DEF AtBreak
  <2>2. Spaced(e) = (e \o e) \o e
    BY <1>7, <1>8
  <2>3. QED
    BY <1>5, <2>1, <2>2 DEF Reading
<1>10. RowsWritten(e, e, word, rest, done, size, Kept)
  <2>1. Len(e) + 1 \in 1..size.rows
    BY <1>2, <1>5, SizeIs
  <2>2. (\A i \in 1..Len(e) : GoodRow(e[i], size, Kept)) /\ GoodRow(e, size, Kept)
    <3>1. GoodRow(e, size, Kept)
      BY <1>2, <1>4, <1>7, EmptyRow
    <3>2. 1..Len(e) = {}
      BY <1>5
    <3>3. QED
      BY <3>1, <3>2
  <2>3. ((Letters(FlattenSeq(e)) \o Letters(e)) \o word) \o Letters(rest) = Letters(Kept)
    BY <1>3, <1>6, <1>7, <1>8
  <2>4. NoSpaces(word)
    <3>1. Len(word) = 0
      BY <1>3, <1>5, <1>7
    <3>2. \A i \in 1..Len(word) : FALSE
      BY <3>1
    <3>3. QED
      BY <3>2 DEF NoSpaces
  <2>5. word = e /\ word \in Seq(Chars) /\ rest \in Seq(Chars) /\ done \in BOOLEAN
    BY <1>3, <1>4, <1>5, <1>7
  <2>6. \E b \in Seq(Chars) : Reading(b, Kept, rest, word, e)
    BY <1>5, <1>9, <2>5
  <2>7. QED
    BY <1>3, <1>7, <2>1, <2>2, <2>3, <2>4, <2>5, <2>6 DEF RowsWritten
<1>11. Wrapped(rows, word, rest, done, size, Kept)
  <2>1. Wrapped(Append(e, e), word, rest, done, size, Kept)
    BY <1>5, <1>10, WrappedIsWritten
  <2>2. QED
    BY <1>5, <2>1
<1>12. 0 \in 0..ScrollTime
  <2>1. HintBack \in Nat
    BY <1>2, <1>11, ScrollTyped, SizeIs DEF Wrapped, Scrolling
  <2>2. Step \in Nat /\ Hold \in Nat
    BY TextAssumption
  <2> DEFINE b == HintBack + 2
  <2>3. b \in Nat
    BY <2>1
  <2> HIDE DEF b
  <2>4. 0 \in 0..(Hold + Step * b)
    BY <2>2, <2>3, Product
  <2>5. QED
    BY <2>4 DEF b, ScrollTime
<1>13. QED
  BY <1>1, <1>2, <1>3, <1>11, <1>12 DEF TextInv

LEMMA TextStays ==
  ASSUME TextInv, UNCHANGED textVars
  PROVE  TextInv'
<1>1. UNCHANGED <<hint, size, rest, word, rows, done, elapsed, shownRows>>
  BY DEF textVars
<1>2. Kept' = Kept /\ ScrollTime' = ScrollTime
  BY <1>1 DEF Kept, ScrollTime, HintBack, HintRows
<1>3. QED
  BY <1>1, <1>2 DEF TextInv

LEMMA TextKeeps ==
  ASSUME TextInv, [TextNext]_textVars
  PROVE  TextInv'
BY NextWordKeeps, PlaceWordKeeps, DrawHintKeeps, TextStays DEF TextNext

(* The invariant says what it should.                                      *)
LEMMA TextTyped ==
  ASSUME TextInv
  PROVE  TextTypeOK
<1>1. size \in ScreenSizes /\ HintSizes \subseteq ScreenSizes
  BY SizesAreSizes DEF TextInv
<1>2. /\ hint \in Seq(Chars) /\ size \in HintSizes /\ {rest, word} \subseteq Seq(Chars)
      /\ rows \in Lines /\ Len(rows) \in 1..size.rows /\ done \in BOOLEAN /\ shownRows \subseteq 1..size.rows
  BY DEF TextInv, Wrapped
<1>3. Scrolling /\ size.rows \in Nat
  BY <1>1, <1>2, ScrollTyped, SizeIs
<1>4. elapsed \in 0..(Hold + Step * (size.rows + 2))
  <2> DEFINE b == HintBack + 2
             c == size.rows + 2
  <2>1. b \in Nat /\ c \in Nat /\ b <= c
    BY <1>3 DEF Scrolling
  <2>2. Step \in Nat /\ Hold \in Nat
    BY TextAssumption
  <2>3. elapsed \in 0..(Hold + Step * b)
    BY DEF TextInv, ScrollTime
  <2> HIDE DEF b, c
  <2> DEFINE p == Step * b
             q == Step * c
  <2>4. p \in Nat /\ q \in Nat /\ p <= q
    BY <2>1, <2>2
  <2>5. elapsed \in 0..(Hold + p)
    BY <2>3
  <2> HIDE DEF p, q
  <2>6. elapsed \in 0..(Hold + q)
    BY ONLY <2>2, <2>4, <2>5
  <2>7. QED
    BY <2>6 DEF q, c
<1>5. QED
  BY <1>2, <1>4 DEF TextTypeOK, Lines

LEMMA TextTells ==
  ASSUME TextInv
  PROVE  RowsTellTheHint
<1>1. Wrapped(rows, word, rest, done, size, Kept)
  BY DEF TextInv
<1>2. DOMAIN rows = 1..Len(rows)
  BY <1>1 DEF Wrapped, Lines
<1>3. QED
  BY <1>1, <1>2 DEF RowsTellTheHint, Wrapped, GoodRow

(* A word that fits is placed whole.                                       *)
LEMMA WordsStayWhole ==
  ASSUME TextInv, [TextNext]_textVars, word' # << >>, word' # word, word # << >>
  PROVE  Cells(word) > size.width \/ Bytes(Row \o word) >= size.bytes
<1>1. PlaceWord
  BY DEF TextNext, NextWord, DrawHint, textVars
<1>2. word' = Suffix(word, Taken) /\ ~done
  BY <1>1 DEF PlaceWord, Taken
<1>3. Takes(Taken)
  BY <1>2, TakenIs
<1>4. /\ size \in ScreenSizes /\ Row \in Seq(Chars) /\ word \in Seq(Chars)
  BY WrappingIs
<1>5. Taken # Len(word)
  <2>1. SUFFICES ASSUME Taken = Len(word)
                 PROVE  FALSE
    OBVIOUS
  <2>2. Len(word) \in 0..Len(word)
    BY <1>4, LenProperties
  <2>3. Suffix(word, Len(word)) \in Seq(Chars) /\ Len(Suffix(word, Len(word))) = Len(word) - Len(word)
    BY <1>4, <2>2, Split
  <2>4. Len(Suffix(word, Len(word))) = 0
    BY <2>2, <2>3
  <2>5. Suffix(word, Len(word)) = << >>
    BY <2>3, <2>4, Emptiness
  <2>6. QED
    BY <1>2, <2>1, <2>5
<1>6. ~(Cells(word) <= size.width /\ Bytes(Row \o word) < size.bytes)
  BY <1>3, <1>5 DEF Takes
<1>7. Cells(word) \in Nat /\ Bytes(Row \o word) \in Nat /\ size.width \in Nat /\ size.bytes \in Nat
  BY <1>4, Joined, SizesTyped, SizeIs
<1>8. QED
  BY <1>6, <1>7

(* Whatever somebody who approves gets to see is a piece of the hint, no    *)
(* letter is left out between two rows, and the rest is missing only when   *)
(* the rows are used up; a word that fits on a row is never broken          *)
(* (utf8WrapInto in utf8_text_logic.h).                                     *)
THEOREM TextTellsTheHint == TextSpec => []RowsTellTheHint /\ BreaksAreForced
<1> DEFINE Breaks ==
             word' # << >> /\ word' # word /\ word # << >> =>
               Cells(word) > size.width \/ Bytes(Row \o word) >= size.bytes
<1>1. TextInv /\ [TextNext]_textVars => TextInv'
  BY TextKeeps
<1>2. TextInv => RowsTellTheHint
  BY TextTells
<1>3. TextInv /\ [TextNext]_textVars => [Breaks]_textVars
  BY WordsStayWhole
<1>4. TextInit => TextInv
  BY TextBegins
<1>5. TextSpec => [][Breaks]_textVars
  BY <1>1, <1>3, <1>4, PTL DEF TextSpec
<1>6. TextSpec => []RowsTellTheHint
  BY <1>1, <1>2, <1>4, PTL DEF TextSpec
<1>7. QED
  BY <1>5, <1>6 DEF BreaksAreForced

(* The rows are no more than the screen has, the scrolling is no longer     *)
(* than its steps, and no row is shown that there is not.                   *)
THEOREM TextTypes == TextSpec => []TextTypeOK
<1>1. TextInv /\ [TextNext]_textVars => TextInv'
  BY TextKeeps
<1>2. TextInv => TextTypeOK
  BY TextTyped
<1>3. TextInit => TextInv
  BY TextBegins
<1>4. QED
  BY <1>1, <1>2, <1>3, PTL DEF TextSpec
================================================================================
