-------------------------- MODULE SequentialProofs --------------------------
(***************************************************************************)
(* Theorems about what runs in one process, one step after the other: the  *)
(* agents' tool loop, for every limit of iterations, every set of tools    *)
(* and every answer a model may give; the row the barrier writes and the   *)
(* orchestrator reads, for texts of any length and any number of agents;   *)
(* and what is taken from an answer of any length.                         *)
(***************************************************************************)
EXTENDS ToolLoop, Payload, Answer, Integers, SequenceTheorems, WellFoundedInduction, TLAPS

-------------------------------------------------------------------------------
(* Induction on the natural numbers, as a least counterexample, and what   *)
(* FlattenSeq does.                                                        *)

(* The order of the natural numbers as the relation of the library.        *)
LEMMA Before == \A x, y \in Nat : x < y => <<x, y>> \in OpToRel(<, Nat)
BY DEF OpToRel

(* A set of natural numbers that is not empty has a least element; a proof *)
(* by induction takes the least counterexample.                            *)
LEMMA Least == ASSUME NEW T \in SUBSET Nat, T # {} PROVE \E x \in T : \A y \in T : x <= y
<1> DEFINE R == OpToRel(<, Nat)
<1>1. IsWellFoundedOn(R, Nat)
  BY NatLessThanWellFounded
<1>2. \A x, y \in Nat : x < y => <<x, y>> \in R
  BY Before
<1> HIDE DEF R
<1>3. PICK x \in T : \A y \in T : ~(<<y, x>> \in R)
  BY <1>1, WFMin
<1>4. \A y \in T : ~(y < x)
  BY <1>2, <1>3
<1>5. \A y \in T : x <= y
  BY <1>4
<1> QED BY <1>5

(* f holds what joining the first n sequences of s, one after the other,   *)
(* gives.                                                                  *)
Joins(f, s, n) ==
  \A i \in 1..n : f[i] = IF i = 1 THEN s[i] ELSE f[i - 1] \o s[i]

(* There is such a function for every number of sequences: the recursive   *)
(* function of FlattenSeq is not an arbitrary value.                       *)
LEMMA JoinExists ==
  ASSUME NEW T, NEW s \in Seq(Seq(T))
  PROVE  \A n \in 0..Len(s) : \E f \in [1..n -> Seq(T)] : Joins(f, s, n)
<1> DEFINE P(n) == \E f \in [1..n -> Seq(T)] : Joins(f, s, n)
           Bad == {n \in Nat : n <= Len(s) /\ ~P(n)}
<1>1. P(0)
  <2> DEFINE f == [i \in 1..0 |-> <<>>]
  <2>1. 1..0 = {}
    OBVIOUS
  <2>2. f \in [1..0 -> Seq(T)]
    BY <2>1
  <2>3. Joins(f, s, 0)
    BY <2>1 DEF Joins
  <2> QED BY <2>2, <2>3
<1>2. ASSUME NEW n \in Nat, n + 1 <= Len(s), P(n) PROVE P(n + 1)
  <2>1. PICK f \in [1..n -> Seq(T)] : Joins(f, s, n)
    BY <1>2
  <2> DEFINE e == IF n = 0 THEN s[1] ELSE f[n] \o s[n + 1]
             g == [i \in 1..(n + 1) |-> IF i = n + 1 THEN e ELSE f[i]]
  <2>2. s[n + 1] \in Seq(T)
    BY <1>2, LenProperties, ElementOfSeq
  <2>3. e \in Seq(T)
    BY <2>2, n # 0 => n \in 1..n
  <2>4. g \in [1..(n + 1) -> Seq(T)]
    <3> HIDE DEF e
    <3> QED BY <2>3
  <2>5. Joins(g, s, n + 1)
    <3> SUFFICES ASSUME NEW i \in 1..(n + 1)
                 PROVE  g[i] = IF i = 1 THEN s[i] ELSE g[i - 1] \o s[i]
      BY DEF Joins
    <3>1. CASE i = n + 1
      <4>1. g[i] = e
        BY <3>1
      <4>2. n # 0 => g[n] = f[n]
        OBVIOUS
      <4> QED BY <3>1, <4>1, <4>2
    <3>2. CASE i <= n
      <4> HIDE DEF e
      <4>1. i \in 1..n
        BY <3>2
      <4>2. g[i] = f[i] /\ (i # 1 => g[i - 1] = f[i - 1])
        BY <4>1
      <4> HIDE DEF g
      <4>3. f[i] = IF i = 1 THEN s[i] ELSE f[i - 1] \o s[i]
        BY <2>1, <4>1 DEF Joins
      <4> QED BY <4>2, <4>3
    <3> QED BY <3>1, <3>2
  <2> HIDE DEF g
  <2> QED BY <2>4, <2>5
<1> HIDE DEF P
<1>3. Bad = {}
  <2> SUFFICES ASSUME Bad # {} PROVE FALSE
    OBVIOUS
  <2>1. PICK n \in Bad : \A m \in Bad : n <= m
    BY Least
  <2>2. n # 0 /\ n \in Nat /\ n <= Len(s)
    BY <1>1
  <2>3. P(n - 1)
    BY <2>1, <2>2, LenProperties
  <2>4. P((n - 1) + 1)
    BY <1>2, <2>2, <2>3, LenProperties
  <2> QED BY <2>2, <2>4, <2>1
<1>4. \A n \in 0..Len(s) : P(n)
  BY <1>3, LenProperties
<1> QED BY <1>4 DEF P

(* There is only one.                                                      *)
LEMMA JoinUnique ==
  ASSUME NEW f, NEW g, NEW s, NEW n \in Nat,
         Joins(f, s, n), Joins(g, s, n)
  PROVE  \A i \in 1..n : f[i] = g[i]
<1> DEFINE Bad == {i \in Nat : i \in 1..n /\ f[i] # g[i]}
<1> SUFFICES ASSUME Bad # {} PROVE FALSE
  OBVIOUS
<1>1. PICK i \in Bad : \A j \in Bad : i <= j
  BY Least
<1>2. CASE i = 1
  BY <1>2 DEF Joins
<1>3. CASE i # 1
  <2>1. i \in 1..n /\ i - 1 \in 1..n
    BY <1>3
  <2>2. f[i] = f[i - 1] \o s[i] /\ g[i] = g[i - 1] \o s[i]
    BY <1>3, <2>1 DEF Joins
  <2>3. f[i - 1] = g[i - 1]
    BY <1>1, <2>1
  <2> QED BY <2>1, <2>2, <2>3
<1> QED BY <1>2, <1>3

(* FlattenSeq is the last value of it.                                     *)
LEMMA FlattenIs ==
  ASSUME NEW T, NEW s \in Seq(Seq(T)), s # <<>>
  PROVE  \E f \in [1..Len(s) -> Seq(T)] : Joins(f, s, Len(s)) /\ FlattenSeq(s) = f[Len(s)]
<1>1. Len(s) \in Nat /\ Len(s) # 0
  BY LenProperties, EmptySeq
<1>2. PICK f \in [1..Len(s) -> Seq(T)] : Joins(f, s, Len(s))
  BY <1>1, JoinExists
<1> DEFINE g[i \in 1..Len(s)] == IF i = 1 THEN s[i] ELSE g[i - 1] \o s[i]
           h == [i \in 1..Len(s) |-> IF i = 1 THEN s[i] ELSE f[i - 1] \o s[i]]
<1>3. f = h
  BY <1>2 DEF Joins
<1>4. \E x : x = [i \in 1..Len(s) |-> IF i = 1 THEN s[i] ELSE x[i - 1] \o s[i]]
  BY <1>3
<1>5. g = [i \in 1..Len(s) |-> IF i = 1 THEN s[i] ELSE g[i - 1] \o s[i]]
  BY <1>4
<1>6. FlattenSeq(s) = g[Len(s)]
  BY <1>1 DEF FlattenSeq
<1> HIDE DEF g
<1>7. Joins(g, s, Len(s))
  BY <1>5 DEF Joins
<1>8. f[Len(s)] = g[Len(s)]
  BY <1>1, <1>2, <1>7, JoinUnique
<1> QED BY <1>2, <1>6, <1>8

(* Joining sequences over T gives a sequence over T.                       *)
LEMMA FlattenType ==
  ASSUME NEW T, NEW s \in Seq(Seq(T))
  PROVE  FlattenSeq(s) \in Seq(T)
<1>1. Len(s) \in Nat /\ (Len(s) = 0 <=> s = <<>>)
  BY LenProperties, EmptySeq
<1>2. CASE s = <<>>
  BY <1>1, <1>2 DEF FlattenSeq
<1>3. CASE s # <<>>
  <2>1. PICK f \in [1..Len(s) -> Seq(T)] : FlattenSeq(s) = f[Len(s)]
    BY <1>3, FlattenIs
  <2>2. Len(s) \in 1..Len(s)
    BY <1>1, <1>3
  <2> QED BY <2>1, <2>2
<1> QED BY <1>2, <1>3

(* One sequence more is joined at the end.                                 *)
LEMMA FlattenAppend ==
  ASSUME NEW T, NEW s \in Seq(Seq(T)), NEW e \in Seq(T)
  PROVE  FlattenSeq(Append(s, e)) = FlattenSeq(s) \o e
<1> DEFINE t == Append(s, e)
           n == Len(s)
<1>1. /\ n \in Nat /\ t \in Seq(Seq(T)) /\ Len(t) = n + 1 /\ t # <<>>
      /\ \A i \in 1..n : t[i] = s[i]
      /\ t[n + 1] = e
  BY LenProperties, AppendProperties
<1> HIDE DEF t
<1>2. PICK f \in [1..(n + 1) -> Seq(T)] : Joins(f, t, n + 1) /\ FlattenSeq(t) = f[n + 1]
  BY <1>1, FlattenIs
<1>3. CASE s = <<>>
  <2>1. n = 0 /\ FlattenSeq(s) = <<>>
    BY <1>3 DEF FlattenSeq
  <2>2. f[n + 1] = e
    BY <1>1, <1>2, <2>1 DEF Joins
  <2> QED BY <1>2, <2>1, <2>2 DEF t
<1>4. CASE s # <<>>
  <2>1. n # 0
    BY <1>4, EmptySeq
  <2>2. PICK g \in [1..n -> Seq(T)] : Joins(g, s, n) /\ FlattenSeq(s) = g[n]
    BY <1>4, FlattenIs
  <2>3. Joins(f, s, n)
    <3> HIDE DEF n
    <3>1. \A i \in 1..n : i \in 1..(n + 1) /\ t[i] = s[i]
      BY <1>1
    <3> QED BY <3>1, <1>2 DEF Joins
  <2>4. f[n] = g[n]
    <3> HIDE DEF n
    <3>1. \A i \in 1..n : f[i] = g[i]
      BY <1>1, <2>2, <2>3, JoinUnique
    <3> QED BY <3>1, <1>1, <2>1
  <2>5. f[n + 1] = f[n] \o t[n + 1]
    <3>1. n + 1 \in 1..(n + 1) /\ n + 1 # 1 /\ (n + 1) - 1 = n
      BY <1>1, <2>1
    <3> HIDE DEF n
    <3> QED BY <3>1, <1>2 DEF Joins
  <2> QED BY <1>1, <1>2, <2>2, <2>4, <2>5 DEF t
<1> QED BY <1>3, <1>4

(* The greatest element of a set of positions.                             *)
LEMMA MaxIs ==
  ASSUME NEW m \in Nat, NEW S \in SUBSET (1..m), S # {}
  PROVE  Max(S) \in S /\ \A y \in S : y <= Max(S)
<1> DEFINE T == {n \in Nat : \A y \in S : y <= n}
<1>1. m \in T
  OBVIOUS
<1>2. PICK n \in T : \A k \in T : n <= k
  BY <1>1, Least
<1>3. n \in S
  <2> SUFFICES ASSUME n \notin S PROVE FALSE
    OBVIOUS
  <2>1. n \in Nat /\ \A y \in S : y \in Nat /\ y >= 1 /\ y <= n /\ y # n
    BY <1>2
  <2>2. n - 1 \in Nat
    <3>1. PICK y \in S : TRUE
      OBVIOUS
    <3> QED BY <2>1, <3>1
  <2>3. \A y \in S : y <= n - 1
    BY <2>1
  <2>4. n - 1 \in T
    BY <2>2, <2>3
  <2> QED BY <1>2, <2>4
<1>4. \E x \in S : \A y \in S : x >= y
  BY <1>2, <1>3
<1> QED BY <1>4 DEF Max

(* ... and the least.                                                      *)
LEMMA MinIs ==
  ASSUME NEW m \in Nat, NEW S \in SUBSET (1..m), S # {}
  PROVE  Min(S) \in S /\ \A y \in S : Min(S) <= y
<1>1. S \in SUBSET Nat
  OBVIOUS
<1>2. \E x \in S : \A y \in S : x <= y
  BY <1>1, Least
<1> QED BY <1>2 DEF Min

(* A prefix of a sequence with one element more.                           *)
LEMMA Prefix ==
  ASSUME NEW T, NEW s \in Seq(T), NEW n \in Nat, n < Len(s)
  PROVE  /\ s[n + 1] \in T
         /\ SubSeq(s, 1, n) \in Seq(T) /\ Len(SubSeq(s, 1, n)) = n
         /\ \A i \in 1..n : SubSeq(s, 1, n)[i] = s[i]
         /\ SubSeq(s, 1, n + 1) = Append(SubSeq(s, 1, n), s[n + 1])
<1>1. Len(s) \in Nat /\ n + 1 \in 1..Len(s) /\ 1 \in 1..Len(s) + 1
  BY LenProperties
<1>2. s[n + 1] \in T
  BY <1>1, ElementOfSeq
<1>3. SubSeq(s, 1, n + 1) = Append(SubSeq(s, 1, n), s[n + 1])
  BY <1>1, <1>2
<1>4. SubSeq(s, 1, n) \in Seq(T) /\ Len(SubSeq(s, 1, n)) = n
         /\ \A i \in 1..n : SubSeq(s, 1, n)[i] = s[i]
  BY <1>1
<1> QED BY <1>2, <1>3, <1>4

(* The prefix as long as the sequence is the sequence, the empty one is    *)
(* empty.                                                                  *)
LEMMA WholePrefix ==
  ASSUME NEW T, NEW s \in Seq(T)
  PROVE  SubSeq(s, 1, Len(s)) = s /\ SubSeq(s, 1, 0) = <<>> /\ Len(s) \in Nat
BY LenProperties

-------------------------------------------------------------------------------
(* Induction on sequences: a set of them that holds the empty one and, with*)
(* each, that with any element more, holds them all.                       *)
LEMMA AllSequences ==
  ASSUME NEW T, NEW S \in SUBSET Seq(T), <<>> \in S,
         \A s \in S, c \in T : Append(s, c) \in S
  PROVE  \A s \in Seq(T) : s \in S
<1> SUFFICES ASSUME NEW s \in Seq(T) PROVE s \in S
  OBVIOUS
<1> DEFINE to(n) == SubSeq(s, 1, n)
           Bad == {n \in Nat : n <= Len(s) /\ to(n) \notin S}
<1>1. to(0) = <<>> /\ to(Len(s)) = s /\ Len(s) \in Nat
  BY WholePrefix
<1>2. ASSUME NEW n \in Nat, n < Len(s), to(n) \in S PROVE to(n + 1) \in S
  <2>1. to(n + 1) = Append(to(n), s[n + 1]) /\ s[n + 1] \in T
    BY <1>2, Prefix
  <2> HIDE DEF to
  <2> QED BY <1>2, <2>1
<1> HIDE DEF to
<1>3. Bad = {}
  <2> SUFFICES ASSUME Bad # {} PROVE FALSE
    OBVIOUS
  <2>1. PICK n \in Bad : \A m \in Bad : n <= m
    BY Least
  <2>2. n # 0
    BY <1>1
  <2>3. n - 1 \in Nat /\ n - 1 < Len(s) /\ (n - 1) + 1 = n
    BY <1>1, <2>2
  <2>4. to(n - 1) \in S
    <3>1. n - 1 \notin Bad
      BY <2>1, <2>3
    <3> QED BY <2>3, <3>1
  <2>5. to((n - 1) + 1) \in S
    BY <1>2, <2>3, <2>4
  <2> QED BY <2>3, <2>5
<1> QED BY <1>1, <1>3

(* s \o u under a name of its own, for the steps that take it as a whole.   *)
Cat(s, u) == s \o u

(* Concatenation: its type, the empty text on either side, one character   *)
(* more, associativity.                                                    *)
LEMMA CatFacts ==
  ASSUME NEW T, NEW s \in Seq(T), NEW u \in Seq(T)
  PROVE  /\ Cat(s, u) \in Seq(T) /\ Cat(s, <<>>) = s /\ Cat(<<>>, s) = s
         /\ \A c \in T : Cat(s, Append(u, c)) = Append(Cat(s, u), c)
         /\ \A c \in T : Cat(s, <<c>>) = Append(s, c)
         /\ \A v \in Seq(T) : Cat(Cat(s, u), v) = Cat(s, Cat(u, v))
<1>1. Cat(s, u) \in Seq(T)
  BY DEF Cat
<1>2. Cat(s, <<>>) = s
  BY DEF Cat
<1>3. Cat(<<>>, s) = s
  BY DEF Cat
<1>4. ASSUME NEW c \in T PROVE Cat(s, Append(u, c)) = Append(Cat(s, u), c)
  BY DEF Cat
<1>5. ASSUME NEW c \in T PROVE Cat(s, <<c>>) = Append(s, c)
  BY DEF Cat
<1>6. ASSUME NEW v \in Seq(T) PROVE Cat(Cat(s, u), v) = Cat(s, Cat(u, v))
  BY ConcatAssociative DEF Cat
<1> QED BY <1>1, <1>2, <1>3, <1>4, <1>5, <1>6

(* Replacing the last element of a sequence.                               *)
LEMMA ExceptLast ==
  ASSUME NEW T, NEW s \in Seq(T), NEW d \in T, NEW e \in T
  PROVE  [Append(s, d) EXCEPT ![Len(s) + 1] = e] = Append(s, e)
<1> DEFINE n == Len(s)
           a == Append(s, d)
           b == Append(s, e)
           x == [a EXCEPT ![n + 1] = e]
<1>1. n \in Nat /\ a \in Seq(T) /\ b \in Seq(T) /\ Len(a) = n + 1 /\ Len(b) = n + 1
      /\ (\A i \in 1..n : a[i] = s[i] /\ b[i] = s[i]) /\ b[n + 1] = e
  BY LenProperties, AppendProperties
<1> HIDE DEF a, b, n
<1>2. DOMAIN a = 1..(n + 1) /\ DOMAIN b = 1..(n + 1)
  BY <1>1, LenProperties
<1>3. x \in Seq(T) /\ Len(x) = n + 1
  <2>1. Len(a) \in Nat /\ a \in [1..Len(a) -> T]
    BY <1>1, LenProperties
  <2>2. x \in [1..(n + 1) -> T]
    BY <1>1, <2>1
  <2> HIDE DEF x
  <2>3. n + 1 \in Nat
    BY <1>1
  <2>4. x \in Seq(T)
    BY <2>2, <2>3, IsASeq
  <2> QED BY <2>2, <2>3, <2>4, LenProperties
<1>4. \A i \in 1..(n + 1) : x[i] = b[i]
  BY <1>1, <1>2
<1> HIDE DEF x
<1>5. x = b
  BY <1>1, <1>3, <1>4, SeqEqual
<1> QED BY <1>5 DEF x, b, a, n

(* Two texts of one character each, joined.                                *)
LEMMA CatTwo ==
  ASSUME NEW T, NEW c \in T, NEW d \in T
  PROVE  Cat(<<c>>, <<d>>) = <<c, d>>
<1> DEFINE x == <<c>>
<1>1. x \in Seq(T) /\ <<c, d>> = Append(x, d)
  OBVIOUS
<1> HIDE DEF x
<1>2. Cat(x, <<d>>) = Append(x, d)
  BY <1>1, CatFacts
<1> QED BY <1>1, <1>2 DEF x

(* What is joined to one character begins with it.                         *)
LEMMA CatHead ==
  ASSUME NEW T, NEW c \in T, NEW s \in Seq(T)
  PROVE  /\ Len(Cat(<<c>>, s)) \in Nat /\ 1 \in 1..Len(Cat(<<c>>, s))
         /\ Cat(<<c>>, s)[1] = c
<1> DEFINE x == <<c>>
<1>1. x \in Seq(T) /\ Len(x) = 1 /\ x[1] = c
  OBVIOUS
<1> HIDE DEF x
<1> DEFINE S == {u \in Seq(T) : Len(Cat(x, u)) \in Nat \ {0} /\ Cat(x, u)[1] = c}
<1>2. <<>> \in S
  <2>1. Cat(x, <<>>) = x
    BY <1>1, CatFacts
  <2>2. <<>> \in Seq(T)
    OBVIOUS
  <2> QED BY <1>1, <2>1, <2>2
<1>3. ASSUME NEW u \in S, NEW d \in T PROVE Append(u, d) \in S
  <2> DEFINE y == Cat(x, u)
  <2>1. /\ u \in Seq(T) /\ y \in Seq(T) /\ Cat(x, Append(u, d)) = Append(y, d)
        /\ Append(u, d) \in Seq(T)
    BY <1>1, CatFacts
  <2>2. Len(y) \in Nat \ {0} /\ y[1] = c
    OBVIOUS
  <2> HIDE DEF y
  <2>3. Len(Append(y, d)) \in Nat \ {0} /\ Append(y, d)[1] = c
    BY <2>1, <2>2, AppendProperties
  <2> QED BY <2>1, <2>3
<1> HIDE DEF S
<1>4. S \in SUBSET Seq(T)
  BY DEF S
<1>5. s \in S
  BY <1>2, <1>3, <1>4, AllSequences
<1> QED BY <1>5 DEF S, x

(* What g makes of each element of s, one after the other.                 *)
ByEach(g, s) == FlattenSeq([i \in 1..Len(s) |-> g[s[i]]])

(* g makes a sequence over U of every element of T.                        *)
Makes(g, T, U) == g \in [T -> Seq(U)]

(* Nothing is made of the empty sequence.                                  *)
LEMMA EachEmpty == ASSUME NEW g PROVE ByEach(g, <<>>) = <<>>
<1> DEFINE m == [i \in 1..Len(<<>>) |-> g[<<>>[i]]]
<1>1. m = <<>>
  OBVIOUS
<1>2. ByEach(g, <<>>) = FlattenSeq(m)
  BY DEF ByEach
<1> HIDE DEF m
<1>3. FlattenSeq(m) = <<>>
  <2>1. Len(m) = 0
    BY <1>1
  <2> QED BY <1>1, <2>1 DEF FlattenSeq
<1> QED BY <1>2, <1>3

(* The sequence ByEach joins.                                              *)
LEMMA EachIs ==
  ASSUME NEW T, NEW U, NEW g, Makes(g, T, U), NEW s \in Seq(T)
  PROVE  [i \in 1..Len(s) |-> g[s[i]]] \in Seq(Seq(U))
<1>1. Len(s) \in Nat /\ \A i \in 1..Len(s) : s[i] \in T
  BY LenProperties, ElementOfSeq
<1>2. \A i \in 1..Len(s) : g[s[i]] \in Seq(U)
  BY <1>1 DEF Makes
<1> QED BY <1>1, <1>2, IsASeq

(* What is made of a sequence over T is a sequence over U.                 *)
LEMMA EachType ==
  ASSUME NEW T, NEW U, NEW g, Makes(g, T, U), NEW s \in Seq(T)
  PROVE  ByEach(g, s) \in Seq(U)
BY EachIs, FlattenType DEF ByEach

(* An element more adds at the end what is made of it.                     *)
LEMMA EachAppend ==
  ASSUME NEW T, NEW U, NEW g, Makes(g, T, U), NEW s \in Seq(T), NEW c \in T
  PROVE  ByEach(g, Append(s, c)) = Cat(ByEach(g, s), g[c])
<1> DEFINE t == Append(s, c)
           m == [i \in 1..Len(s) |-> g[s[i]]]
           k == [i \in 1..Len(t) |-> g[t[i]]]
           l == Append(m, g[c])
<1>1. /\ t \in Seq(T) /\ Len(s) \in Nat /\ Len(t) = Len(s) + 1 /\ t[Len(s) + 1] = c
      /\ \A i \in 1..Len(s) : t[i] = s[i] /\ s[i] \in T
  BY LenProperties, AppendProperties, ElementOfSeq
<1>2. g[c] \in Seq(U)
  BY DEF Makes
<1> HIDE DEF t
<1>3. m \in Seq(Seq(U)) /\ k \in Seq(Seq(U))
  BY <1>1, EachIs
<1>4. Len(m) = Len(s) /\ Len(k) = Len(s) + 1
  BY <1>1, <1>3, LenProperties
<1>5. l \in Seq(Seq(U)) /\ Len(l) = Len(s) + 1 /\ l[Len(s) + 1] = g[c]
      /\ \A i \in 1..Len(s) : l[i] = m[i]
  <2> HIDE DEF m
  <2> QED BY <1>1, <1>2, <1>3, <1>4, AppendProperties
<1>6. k[Len(s) + 1] = g[c] /\ \A i \in 1..Len(s) : k[i] = m[i]
  BY <1>1
<1>7. k = l
  <2> HIDE DEF k, l, m
  <2>1. ASSUME NEW i \in 1..Len(k) PROVE k[i] = l[i]
    <3>1. i \in 1..Len(s) \/ i = Len(s) + 1
      BY <1>1, <1>4
    <3> QED BY <1>5, <1>6, <3>1
  <2> QED BY <1>3, <1>4, <1>5, <2>1, SeqEqual
<1> HIDE DEF m, k
<1>8. FlattenSeq(k) = FlattenSeq(m) \o g[c]
  BY <1>2, <1>3, <1>7, FlattenAppend
<1> QED BY <1>8 DEF ByEach, m, k, t, Cat

(* Of one element it makes what g makes of it.                             *)
LEMMA EachOne ==
  ASSUME NEW T, NEW U, NEW g, Makes(g, T, U), NEW c \in T
  PROVE  ByEach(g, <<c>>) = g[c]
<1> DEFINE none == <<>>
<1>1. none \in Seq(T) /\ Append(none, c) = <<c>> /\ ByEach(g, none) = <<>>
  BY EachEmpty
<1> HIDE DEF none
<1>2. ByEach(g, Append(none, c)) = Cat(ByEach(g, none), g[c])
  BY <1>1, EachAppend
<1>3. g[c] \in Seq(U)
  BY DEF Makes
<1>4. Cat(<<>>, g[c]) = g[c]
  BY <1>3, CatFacts
<1> QED BY <1>1, <1>2, <1>4

(* What is made of two sequences joined is what is made of each, joined.   *)
LEMMA EachConcat ==
  ASSUME NEW T, NEW U, NEW g, Makes(g, T, U), NEW s \in Seq(T), NEW u \in Seq(T)
  PROVE  ByEach(g, Cat(s, u)) = Cat(ByEach(g, s), ByEach(g, u))
<1> DEFINE S == {x \in Seq(T) : ByEach(g, Cat(s, x)) = Cat(ByEach(g, s), ByEach(g, x))}
<1>1. ByEach(g, s) \in Seq(U)
  BY EachType
<1>2. <<>> \in S
  <2>1. Cat(s, <<>>) = s /\ Cat(ByEach(g, s), <<>>) = ByEach(g, s)
    BY <1>1, CatFacts
  <2>2. <<>> \in Seq(T)
    OBVIOUS
  <2> QED BY <2>1, <2>2, EachEmpty
<1>3. ASSUME NEW x \in S, NEW c \in T PROVE Append(x, c) \in S
  <2> DEFINE y == Cat(s, x)
             es == ByEach(g, s)
             ex == ByEach(g, x)
             e == g[c]
  <2>1. x \in Seq(T) /\ Append(x, c) \in Seq(T) /\ ByEach(g, y) = Cat(es, ex)
    OBVIOUS
  <2>2. y \in Seq(T) /\ Cat(s, Append(x, c)) = Append(y, c)
    BY <2>1, CatFacts
  <2> HIDE DEF y, S
  <2>3. ByEach(g, Append(y, c)) = Cat(ByEach(g, y), e)
    BY <2>2, EachAppend
  <2>4. ByEach(g, Append(x, c)) = Cat(ex, e)
    BY <2>1, EachAppend
  <2>5. es \in Seq(U) /\ ex \in Seq(U) /\ e \in Seq(U)
    BY <2>1, EachType DEF Makes
  <2> HIDE DEF es, ex, e
  <2>6. Cat(Cat(es, ex), e) = Cat(es, Cat(ex, e))
    BY <2>5, CatFacts
  <2>7. ByEach(g, Cat(s, Append(x, c))) = Cat(es, ByEach(g, Append(x, c)))
    BY <2>1, <2>2, <2>3, <2>4, <2>6
  <2> QED BY <2>1, <2>7 DEF S, es
<1> HIDE DEF S
<1>4. S \in SUBSET Seq(T)
  BY DEF S
<1>5. u \in S
  BY <1>2, <1>3, <1>4, AllSequences
<1> QED BY <1>5 DEF S

(* Of two elements it makes what g makes of each, joined.                  *)
LEMMA EachTwo ==
  ASSUME NEW T, NEW U, NEW g, Makes(g, T, U), NEW c \in T, NEW d \in T
  PROVE  ByEach(g, <<c, d>>) = Cat(g[c], g[d])
<1> DEFINE x == <<c>>
<1>1. x \in Seq(T)
  OBVIOUS
<1>2. <<c, d>> = Append(x, d)
  OBVIOUS
<1> HIDE DEF x
<1>3. ByEach(g, Append(x, d)) = Cat(ByEach(g, x), g[d])
  BY <1>1, EachAppend
<1>4. ByEach(g, x) = g[c]
  BY EachOne DEF x
<1> QED BY <1>2, <1>3, <1>4

(* Doing it twice is doing it once.                                        *)
Composes(f, h, g, T) == \A c \in T : f[c] = ByEach(h, g[c])

(* One map by element after another is a single map by element.            *)
LEMMA EachTwice ==
  ASSUME NEW T, NEW U, NEW V, NEW g, Makes(g, T, U), NEW h, Makes(h, U, V),
         NEW f, Makes(f, T, V), Composes(f, h, g, T),
         NEW s \in Seq(T)
  PROVE  ByEach(h, ByEach(g, s)) = ByEach(f, s)
<1> DEFINE S == {x \in Seq(T) : ByEach(h, ByEach(g, x)) = ByEach(f, x)}
<1>1. <<>> \in S
  <2>1. <<>> \in Seq(T)
    OBVIOUS
  <2> QED BY <2>1, EachEmpty
<1>2. ASSUME NEW x \in S, NEW c \in T PROVE Append(x, c) \in S
  <2> DEFINE y == ByEach(g, x)
             e == g[c]
  <2>1. x \in Seq(T) /\ Append(x, c) \in Seq(T) /\ ByEach(h, y) = ByEach(f, x)
    OBVIOUS
  <2>2. y \in Seq(U) /\ e \in Seq(U)
    BY <2>1, EachType DEF Makes
  <2>3. f[c] = ByEach(h, e)
    BY DEF Composes
  <2> HIDE DEF S
  <2>4. ByEach(g, Append(x, c)) = Cat(y, e)
    BY <2>1, EachAppend
  <2>5. ByEach(f, Append(x, c)) = Cat(ByEach(f, x), f[c])
    BY <2>1, EachAppend
  <2> HIDE DEF y, e
  <2>6. ByEach(h, Cat(y, e)) = Cat(ByEach(h, y), ByEach(h, e))
    BY <2>2, EachConcat
  <2> QED BY <2>1, <2>3, <2>4, <2>5, <2>6 DEF S
<1> HIDE DEF S
<1>3. S \in SUBSET Seq(T)
  BY DEF S
<1>4. s \in S
  BY <1>1, <1>2, <1>3, AllSequences
<1> QED BY <1>4 DEF S

-------------------------------------------------------------------------------
(* The cost of a run.                                                      *)

(* While the run goes on, every iteration begun has cost one request, and  *)
(* no iteration is begun past the limit; the end costs at most one more.   *)
CostInv ==
  /\ step \in Nat /\ requests \in Nat
  /\ step <= MaxToolIters
  /\ pc \in {"ask", "call"} => requests = step
  /\ requests <= step + 1

(* The limit is a natural number, and what is bounded by it is.            *)
LEMMA CostImplies == CostInv => RequestsBounded
BY ToolLoopAssumption DEF ToolLoopAssumption, CostInv, RequestsBounded

(* A run begins with nothing asked.                                        *)
LEMMA CostInit == Init => CostInv
BY ToolLoopAssumption DEF ToolLoopAssumption, Init, CostInv

(* Only a request costs, and an iteration that goes on makes just one.     *)
LEMMA CostNext == CostInv /\ [Next]_vars => CostInv'
<1> SUFFICES ASSUME CostInv, [Next]_vars PROVE CostInv'
  OBVIOUS
<1>1. CASE Ask
  <2>1. /\ pc = "ask" /\ step < MaxToolIters
        /\ step' = step + 1 /\ requests' = requests + 1
    BY <1>1 DEF Ask, AskedWithin
  <2> QED
    BY <2>1, ToolLoopAssumption DEF ToolLoopAssumption, CostInv
<1>2. CASE Invoke
  <2>1. pc = "call" /\ UNCHANGED <<step, requests>>
    BY <1>2 DEF Invoke, Made
  <2> QED
    BY <2>1 DEF CostInv
<1>3. CASE InvokeRaises
  <2>1. UNCHANGED <<step, requests>> /\ pc' = "raise"
    BY <1>3 DEF InvokeRaises
  <2> QED
    BY <2>1 DEF CostInv
<1>4. CASE Wrap \/ RequestRaises
  <2>1. pc = "ask" /\ step' = step /\ requests' = requests + 1 /\ pc' \in {"return", "raise"}
    BY <1>4 DEF Wrap, RequestRaises
  <2> QED
    BY <2>1 DEF CostInv
<1>5. CASE UNCHANGED vars
  BY <1>5 DEF CostInv, vars
<1> QED
  BY <1>1, <1>2, <1>3, <1>4, <1>5 DEF Next

(* A run costs at most MaxToolIters + 1 requests, whatever the model says, *)
(* whether it ends with an answer, out of iterations or with an exception. *)
THEOREM CostBounded == Spec => []RequestsBounded
<1>1. Spec => []CostInv
  BY CostInit, CostNext, PTL DEF Spec
<1> QED
  BY <1>1, CostImplies, PTL

-------------------------------------------------------------------------------
(* The conversation.                                                       *)

(* The order in which ids are made up: by iteration, then by index.        *)
Earlier(a, b) == a[1] < b[1] \/ (a[1] = b[1] /\ a[2] < b[2])

(* The calls of all answers but the last.                                  *)
Rest == Len(Calls) - Len(calls)

(* All calls of the last answer are made before the model is asked again;  *)
(* while they are made there is a next one, in an iteration that has       *)
(* begun.                                                                  *)
PlaceOK ==
  /\ pc \in {"ask", "return"} => index = Len(calls)
  /\ pc = "call" => index < Len(calls) /\ step >= 1

(* The last answer's calls end the calls of the conversation.              *)
LastOK ==
  /\ Len(calls) <= Len(Calls)
  /\ \A k \in 1..Len(calls) : Calls[Rest + k] = calls[k]

(* The replies are those to the calls of the earlier answers and to the    *)
(* first index calls of the last one, under their ids.                     *)
AnsweredOK ==
  /\ Len(Replies) = Rest + index
  /\ \A i \in 1..Len(Replies) : Calls[i].id # NoId => Replies[i].id = Calls[i].id

(* The names noted are those of the calls replied to, unless serializing a *)
(* reply raised.                                                           *)
ReportedOK ==
  pc # "raise" =>
    /\ Len(used) = Len(Replies)
    /\ \A i \in 1..Len(used) : used[i] = Calls[i].tool

(* An id that was made up is earlier than the next one would be, and       *)
(* earlier than those made up after it.                                    *)
IdsOK ==
  /\ \A i \in 1..Len(Replies) :
       Replies[i].id \notin Ids => Earlier(Replies[i].id, <<step - 1, index>>)
  /\ \A i, j \in 1..Len(Replies) :
       i < j /\ Replies[i].id \notin Ids /\ Replies[j].id \notin Ids
         => Earlier(Replies[i].id, Replies[j].id)

(* The inductive invariant of the conversation.                            *)
ConvInv == TypeOK /\ PlaceOK /\ LastOK /\ AnsweredOK /\ ReportedOK /\ IdsOK

(* A bounded sequence of calls is a sequence of at most MaxCalls.          *)
LEMMA BoundedIsSeq ==
  ASSUME NEW cs \in BoundedSeq(Call, MaxCalls)
  PROVE  cs \in Seq(Call) /\ Len(cs) \in 0..MaxCalls
<1>1. PICK m \in 0..MaxCalls : cs \in [1..m -> Call]
  BY DEF BoundedSeq, SeqOf
<1> QED
  BY <1>1, ToolLoopAssumption DEF ToolLoopAssumption

(* The calls and the reply of a message are what they should be.           *)
LEMMA PartsOfMessage ==
  ASSUME NEW m \in Message
  PROVE  CallsOf(m) \in Seq(Call) /\ RepliesOf(m) \in Seq(ToolMessage)
<1>1. CASE m.role = "assistant"
  <2>1. m.calls \in BoundedSeq(Call, MaxCalls)
    BY <1>1 DEF Message, ToolMessage
  <2>2. CallsOf(m) = m.calls /\ RepliesOf(m) = <<>>
    BY <1>1 DEF CallsOf, RepliesOf
  <2> QED BY <2>1, <2>2, BoundedIsSeq
<1>2. CASE m.role = "tool"
  <2>1. m \in ToolMessage
    BY <1>2 DEF Message, ToolMessage
  <2>2. CallsOf(m) = <<>> /\ RepliesOf(m) = <<m>>
    BY <1>2 DEF CallsOf, RepliesOf
  <2> QED BY <2>1, <2>2
<1>3. m.role \in {"assistant", "tool"}
  BY DEF Message, ToolMessage
<1> QED BY <1>1, <1>2, <1>3

(* So are those of a conversation.                                         *)
LEMMA Types ==
  ASSUME messages \in Seq(Message)
  PROVE  Calls \in Seq(Call) /\ Replies \in Seq(ToolMessage)
<1> DEFINE cs == [i \in 1..Len(messages) |-> CallsOf(messages[i])]
           rs == [i \in 1..Len(messages) |-> RepliesOf(messages[i])]
<1>1. \A i \in 1..Len(messages) : messages[i] \in Message
  BY ElementOfSeq
<1>2. Len(messages) \in Nat
  BY LenProperties
<1>3. cs \in Seq(Seq(Call)) /\ rs \in Seq(Seq(ToolMessage))
  BY <1>1, <1>2, PartsOfMessage
<1> HIDE DEF cs, rs
<1>4. FlattenSeq(cs) \in Seq(Call) /\ FlattenSeq(rs) \in Seq(ToolMessage)
  BY <1>3, FlattenType
<1> QED BY <1>4 DEF Calls, Replies, cs, rs

(* A message appended brings its calls and its reply, at the end.          *)
LEMMA Grows ==
  ASSUME messages \in Seq(Message), NEW m \in Message, messages' = Append(messages, m)
  PROVE  Calls' = Calls \o CallsOf(m) /\ Replies' = Replies \o RepliesOf(m)
<1> DEFINE n == Len(messages)
           cs == [i \in 1..n |-> CallsOf(messages[i])]
           rs == [i \in 1..n |-> RepliesOf(messages[i])]
           ds == [i \in 1..Len(messages') |-> CallsOf(messages'[i])]
           ss == [i \in 1..Len(messages') |-> RepliesOf(messages'[i])]
<1>1. /\ n \in Nat /\ \A i \in 1..n : messages[i] \in Message
      /\ Len(messages') = n + 1 /\ messages'[n + 1] = m
      /\ \A i \in 1..n : messages'[i] = messages[i]
  BY LenProperties, ElementOfSeq, AppendProperties
<1>2. cs \in Seq(Seq(Call)) /\ rs \in Seq(Seq(ToolMessage)) /\ Len(cs) = n /\ Len(rs) = n
  <2> HIDE DEF n
  <2> QED BY <1>1, PartsOfMessage
<1>3. ds = Append(cs, CallsOf(m)) /\ ss = Append(rs, RepliesOf(m))
  <2> HIDE DEF n
  <2> QED BY <1>1
<1> HIDE DEF cs, rs
<1>4. /\ FlattenSeq(Append(cs, CallsOf(m))) = FlattenSeq(cs) \o CallsOf(m)
      /\ FlattenSeq(Append(rs, RepliesOf(m))) = FlattenSeq(rs) \o RepliesOf(m)
  BY <1>2, PartsOfMessage, FlattenAppend
<1>5. Calls' = FlattenSeq(ds) /\ Replies' = FlattenSeq(ss)
  BY DEF Calls, Replies
<1>6. Calls = FlattenSeq(cs) /\ Replies = FlattenSeq(rs)
  BY DEF Calls, Replies, cs, rs
<1> QED BY <1>3, <1>4, <1>5, <1>6

(* Nothing else changes the calls and replies of the conversation.         *)
LEMMA Stays ==
  ASSUME messages' = messages
  PROVE  Calls' = Calls /\ Replies' = Replies
BY DEF Calls, Replies

(* A run begins with an empty conversation.                                *)
LEMMA ConvInit == Init => ConvInv
<1> SUFFICES ASSUME Init PROVE ConvInv
  OBVIOUS
<1>1. /\ messages = <<>> /\ calls = <<>> /\ used = <<>>
      /\ index = 0 /\ pc = "ask" /\ step = 0 /\ requests = 0
  BY DEF Init
<1>2. Calls = <<>> /\ Replies = <<>>
  BY <1>1 DEF Calls, Replies, FlattenSeq
<1>3. TypeOK
  <2>1. <<>> \in BoundedSeq(Call, MaxCalls)
    BY ToolLoopAssumption DEF ToolLoopAssumption, BoundedSeq, SeqOf
  <2> QED BY <1>1, <2>1, ToolLoopAssumption DEF ToolLoopAssumption, TypeOK
<1>4. PlaceOK /\ LastOK /\ AnsweredOK /\ ReportedOK /\ IdsOK
  BY <1>1, <1>2 DEF PlaceOK, LastOK, AnsweredOK, ReportedOK, IdsOK, Rest
<1> QED BY <1>3, <1>4 DEF ConvInv

(* An iteration that begins makes its ids up later than all there are.     *)
LEMMA LaterStill ==
  ASSUME ConvInv, NEW i \in 1..Len(Replies), Replies[i].id \notin Ids, step' = step + 1
  PROVE  Earlier(Replies[i].id, <<step' - 1, index'>>)
<1>1. Replies \in Seq(ToolMessage) /\ step \in Nat
  BY Types DEF ConvInv, TypeOK
<1>2. Replies[i] \in ToolMessage
  BY <1>1, ElementOfSeq
<1>3. PICK a, b \in Nat : Replies[i].id = <<a, b>>
  BY <1>2 DEF ToolMessage
<1>4. Earlier(<<a, b>>, <<step - 1, index>>)
  BY <1>3 DEF ConvInv, IdsOK
<1>5. a < step' - 1
  BY <1>1, <1>4 DEF Earlier
<1> QED BY <1>3, <1>5 DEF Earlier

(* The model answers with calls: none of them is made yet, and all earlier *)
(* ones are.                                                               *)
LEMMA AskAnswered ==
  ASSUME ConvInv, NEW cs \in BoundedSeq(Call, MaxCalls), cs # <<>>,
         pc = "ask", step < MaxToolIters, step' = step + 1, requests' = requests + 1,
         messages' = Append(messages, Says(cs)), calls' = cs, index' = 0,
         pc' = "call", used' = used
  PROVE  ConvInv'
<1>1. /\ messages \in Seq(Message) /\ used \in Seq(Tools \cup Foreign)
      /\ step \in 0..MaxToolIters /\ requests \in Nat /\ index = Len(calls)
  BY DEF ConvInv, TypeOK, PlaceOK
<1>2. Says(cs) \in Message /\ CallsOf(Says(cs)) = cs /\ RepliesOf(Says(cs)) = <<>>
  BY DEF Says, Message, CallsOf, RepliesOf
<1>3. /\ Calls \in Seq(Call) /\ Replies \in Seq(ToolMessage) /\ cs \in Seq(Call)
      /\ Len(calls) \in Nat /\ Len(cs) \in 0..MaxCalls
  BY <1>1, Types, BoundedIsSeq DEF ConvInv, TypeOK
<1>4. Calls' = Calls \o cs /\ Replies' = Replies
  BY <1>1, <1>2, <1>3, Grows, ConcatEmptySeq
<1>5. /\ Len(Calls') = Len(Calls) + Len(cs) /\ Len(Calls) \in Nat /\ Len(cs) \in Nat \ {0}
      /\ \A i \in 1..Len(Calls') :
           Calls'[i] = IF i <= Len(Calls) THEN Calls[i] ELSE cs[i - Len(Calls)]
  BY <1>3, <1>4, ConcatProperties, LenProperties, EmptySeq
<1>6. TypeOK'
  <2>1. messages' \in Seq(Message)
    BY <1>1, <1>2, AppendProperties
  <2> QED
    BY <1>1, <1>5, <2>1, ToolLoopAssumption DEF ToolLoopAssumption, TypeOK
<1>7. PlaceOK'
  BY <1>1, <1>5 DEF PlaceOK
<1>8. Rest' = Len(Calls)
  BY <1>5 DEF Rest
<1>9. LastOK'
  <2>1. ASSUME NEW k \in 1..Len(cs) PROVE Calls'[Len(Calls) + k] = cs[k]
    BY <1>5
  <2> QED BY <1>5, <1>8, <2>1 DEF LastOK
<1>10. Len(Replies) = Len(Calls)
  BY <1>1, <1>3, <1>5 DEF ConvInv, AnsweredOK, Rest
<1>11. AnsweredOK'
  BY <1>4, <1>5, <1>8, <1>10 DEF ConvInv, AnsweredOK
<1>12. ReportedOK'
  BY <1>4, <1>5, <1>10 DEF ConvInv, ReportedOK
<1>13. IdsOK'
  <2>1. ASSUME NEW i \in 1..Len(Replies), Replies[i].id \notin Ids
        PROVE  Earlier(Replies[i].id, <<step' - 1, index'>>)
    BY <2>1, LaterStill
  <2> QED BY <1>4, <2>1 DEF ConvInv, IdsOK
<1> QED BY <1>6, <1>7, <1>9, <1>11, <1>12, <1>13 DEF ConvInv

(* The next call is made: its reply, its id and its name go to the end of  *)
(* the replies, the ids and the names.                                     *)
LEMMA InvokeStep ==
  ASSUME ConvInv, Invoke
  PROVE  ConvInv'
<1>1. PICK error \in BOOLEAN : Made(<<ReplyTo(Due, error)>>, <<Due.tool>>)
  BY DEF Invoke
<1> DEFINE r == ReplyTo(Due, error)
<1>2. /\ pc = "call" /\ messages' = messages \o <<r>> /\ used' = used \o <<Due.tool>>
      /\ index' = index + 1 /\ pc' = IF index' = Len(calls) THEN "ask" ELSE "call"
      /\ step' = step /\ calls' = calls /\ requests' = requests
  BY <1>1 DEF Made, Invoke
<1>3. /\ messages \in Seq(Message) /\ used \in Seq(Tools \cup Foreign)
      /\ step \in 0..MaxToolIters /\ step >= 1 /\ requests \in Nat
      /\ calls \in BoundedSeq(Call, MaxCalls) /\ index \in Nat /\ index < Len(calls)
  BY <1>2, BoundedIsSeq DEF ConvInv, TypeOK, PlaceOK
<1>4. /\ Calls \in Seq(Call) /\ Replies \in Seq(ToolMessage) /\ calls \in Seq(Call)
      /\ Len(calls) \in 0..MaxCalls /\ Len(Calls) \in Nat /\ Len(Replies) \in Nat
  BY <1>3, Types, BoundedIsSeq, LenProperties
<1>5. Due \in Call /\ index + 1 \in 1..Len(calls)
  BY <1>3, <1>4, ElementOfSeq DEF Due
<1>6. /\ r.role = "tool" /\ r.id = CallId(Due) /\ r \in ToolMessage
      /\ CallId(Due) = IF Due.id = NoId THEN <<step - 1, index>> ELSE Due.id
      /\ Due.id = NoId \/ Due.id \in Ids
  BY <1>3, <1>5 DEF ReplyTo, Reply, ToolMessage, CallId, Call
<1> HIDE DEF r
<1>7. r \in Message /\ CallsOf(r) = <<>> /\ RepliesOf(r) = <<r>>
  BY <1>6 DEF Message, CallsOf, RepliesOf
<1>8. messages' = Append(messages, r) /\ messages' \in Seq(Message)
  BY <1>2, <1>3, <1>7, AppendProperties
<1>9. Calls' = Calls /\ Replies' = Replies \o <<r>>
  BY <1>3, <1>4, <1>7, <1>8, Grows, ConcatEmptySeq
<1>10. /\ Len(Replies') = Len(Replies) + 1 /\ Replies'[Len(Replies) + 1] = r
      /\ \A i \in 1..Len(Replies) : Replies'[i] = Replies[i]
  BY <1>4, <1>6, <1>9
<1>11. used' = Append(used, Due.tool) /\ Due.tool \in Tools \cup Foreign
  BY <1>2, <1>3, <1>5 DEF Call
<1>12. TypeOK'
  BY <1>2, <1>3, <1>4, <1>8, <1>11 DEF ConvInv, TypeOK
<1>13. PlaceOK'
  BY <1>2, <1>3, <1>4 DEF PlaceOK
<1>14. Rest' = Rest /\ LastOK'
  BY <1>2, <1>9 DEF ConvInv, LastOK, Rest
<1>15. /\ Len(Replies) = Rest + index /\ Rest \in Nat
       /\ Calls[Len(Replies) + 1] = Due
  <2>1. Len(Replies) = Rest + index /\ Rest \in Nat
    BY <1>4 DEF ConvInv, AnsweredOK, LastOK, Rest
  <2>2. Calls[Rest + (index + 1)] = calls[index + 1]
    BY <1>5 DEF ConvInv, LastOK
  <2> QED BY <1>3, <2>1, <2>2 DEF Due
<1>16. AnsweredOK'
  <2>1. ASSUME NEW i \in 1..(Len(Replies) + 1), Calls[i].id # NoId
        PROVE  Replies'[i].id = Calls[i].id
    <3>1. CASE i = Len(Replies) + 1
      BY <1>6, <1>10, <1>15, <2>1, <3>1
    <3>2. CASE i \in 1..Len(Replies)
      BY <1>10, <2>1, <3>2 DEF ConvInv, AnsweredOK
    <3> QED BY <1>4, <3>1, <3>2
  <2>2. Len(Replies') = Rest' + index'
    BY <1>2, <1>3, <1>10, <1>14, <1>15
  <2> QED BY <1>9, <1>10, <2>1, <2>2 DEF AnsweredOK
<1>17. ReportedOK'
  <2>1. /\ Len(used) = Len(Replies) /\ \A i \in 1..Len(used) : used[i] = Calls[i].tool
    BY <1>2 DEF ConvInv, ReportedOK
  <2>2. /\ Len(used') = Len(Replies') /\ used'[Len(used) + 1] = Due.tool
        /\ \A i \in 1..Len(used) : used'[i] = used[i]
    BY <1>3, <1>10, <1>11, <2>1, AppendProperties
  <2>3. ASSUME NEW i \in 1..Len(used') PROVE used'[i] = Calls'[i].tool
    <3>1. CASE i = Len(Replies) + 1
      BY <1>9, <1>15, <2>1, <2>2, <3>1
    <3>2. CASE i \in 1..Len(Replies)
      BY <1>9, <2>1, <2>2, <3>2
    <3> QED
      BY <1>4, <1>10, <2>2, <3>1, <3>2
  <2> QED BY <2>2, <2>3 DEF ReportedOK
<1>18. IdsOK'
  <2> DEFINE now == <<step - 1, index>>
  <2>1. \A i \in 1..Len(Replies) : Replies[i].id \notin Ids => Replies[i].id \in Nat \X Nat
    <3>1. \A i \in 1..Len(Replies) : Replies[i] \in ToolMessage
      BY <1>4, ElementOfSeq
    <3> QED
      BY <3>1 DEF ToolMessage
  <2>2. r.id \notin Ids => r.id = now
    BY <1>6
  <2>3. \A i \in 1..Len(Replies) : Replies[i].id \notin Ids => Earlier(Replies[i].id, now)
    BY DEF ConvInv, IdsOK
  <2>4. Earlier(now, <<step' - 1, index'>>)
    BY <1>2, <1>3 DEF Earlier
  <2>5. ASSUME NEW i \in 1..Len(Replies), Replies[i].id \notin Ids
        PROVE  Earlier(Replies[i].id, <<step' - 1, index'>>)
    <3>1. PICK a, b \in Nat : Replies[i].id = <<a, b>>
      BY <2>1, <2>5
    <3>2. a < step - 1 \/ (a = step - 1 /\ b < index)
      BY <2>3, <2>5, <3>1 DEF Earlier
    <3>3. a < step' - 1 \/ (a = step' - 1 /\ b < index')
      BY <1>2, <1>3, <3>2
    <3> QED BY <3>1, <3>3 DEF Earlier
  <2> HIDE DEF now
  <2>6. ASSUME NEW i \in 1..Len(Replies'), Replies'[i].id \notin Ids
        PROVE  Earlier(Replies'[i].id, <<step' - 1, index'>>)
    <3>1. CASE i = Len(Replies) + 1
      BY <1>10, <2>2, <2>4, <2>6, <3>1
    <3>2. CASE i \in 1..Len(Replies)
      BY <1>10, <2>5, <2>6, <3>2
    <3> QED BY <1>4, <1>10, <3>1, <3>2
  <2>7. ASSUME NEW i \in 1..Len(Replies'), NEW j \in 1..Len(Replies'), i < j,
               Replies'[i].id \notin Ids, Replies'[j].id \notin Ids
        PROVE  Earlier(Replies'[i].id, Replies'[j].id)
    <3>1. i \in 1..Len(Replies) /\ Replies'[i] = Replies[i]
      BY <1>4, <1>10, <2>7
    <3>2. CASE j = Len(Replies) + 1
      BY <1>10, <2>2, <2>3, <2>7, <3>1, <3>2
    <3>3. CASE j \in 1..Len(Replies)
      BY <1>10, <2>7, <3>1, <3>3 DEF ConvInv, IdsOK
    <3> QED BY <1>4, <1>10, <3>2, <3>3
  <2> QED BY <2>6, <2>7 DEF IdsOK
<1> QED BY <1>12, <1>13, <1>14, <1>16, <1>17, <1>18 DEF ConvInv

(* A run that ends leaves the conversation as it is; only one that raises  *)
(* may have noted a name without a reply.                                  *)
LEMMA EndStep ==
  ASSUME ConvInv, UNCHANGED <<messages, calls, index, step>>,
         used' \in Seq(Tools \cup Foreign), requests' \in Nat,
         \/ pc' = pc /\ used' = used
         \/ pc' = "return" /\ pc = "ask" /\ used' = used
         \/ pc' = "raise"
  PROVE  ConvInv'
<1>1. Calls' = Calls /\ Replies' = Replies /\ Rest' = Rest
  BY Stays DEF Rest
<1>2. TypeOK'
  BY DEF ConvInv, TypeOK
<1>3. PlaceOK'
  BY DEF ConvInv, PlaceOK
<1>4. LastOK' /\ AnsweredOK' /\ IdsOK'
  BY <1>1 DEF ConvInv, LastOK, AnsweredOK, IdsOK
<1>5. ReportedOK'
  BY <1>1 DEF ConvInv, ReportedOK
<1> QED BY <1>2, <1>3, <1>4, <1>5 DEF ConvInv

(* Every step of a run.                                                    *)
LEMMA ConvNext == ConvInv /\ [Next]_vars => ConvInv'
<1> SUFFICES ASSUME ConvInv, [Next]_vars PROVE ConvInv'
  OBVIOUS
<1>1. used \in Seq(Tools \cup Foreign) /\ requests \in Nat
  BY DEF ConvInv, TypeOK
<1>2. CASE Ask
  <2>1. CASE pc' = "return" /\ UNCHANGED <<messages, calls, index>>
    <3>1. /\ pc = "ask" /\ step \in 0..MaxToolIters /\ step < MaxToolIters
          /\ step' = step + 1 /\ requests' = requests + 1 /\ used' = used
      BY <1>2 DEF Ask, AskedWithin, ConvInv, TypeOK
    <3>2. Calls' = Calls /\ Replies' = Replies /\ Rest' = Rest
      BY <2>1, Stays DEF Rest
    <3>3. TypeOK'
      BY <1>1, <2>1, <3>1, ToolLoopAssumption DEF ToolLoopAssumption, ConvInv, TypeOK
    <3>4. PlaceOK' /\ LastOK' /\ AnsweredOK' /\ ReportedOK'
      BY <2>1, <3>1, <3>2 DEF ConvInv, PlaceOK, LastOK, AnsweredOK, ReportedOK
    <3>5. IdsOK'
      <4>1. ASSUME NEW i \in 1..Len(Replies), Replies[i].id \notin Ids
            PROVE  Earlier(Replies[i].id, <<step' - 1, index'>>)
        BY <2>1, <3>1, <4>1, LaterStill
      <4> QED
        BY <3>2, <4>1 DEF ConvInv, IdsOK
    <3> QED BY <3>3, <3>4, <3>5 DEF ConvInv
  <2>2. CASE \E cs \in BoundedSeq(Call, MaxCalls) :
               /\ cs # <<>> /\ messages' = Append(messages, Says(cs))
               /\ calls' = cs /\ index' = 0 /\ pc' = "call"
    BY <1>2, <2>2, AskAnswered DEF Ask, AskedWithin
  <2> QED BY <1>2, <2>1, <2>2 DEF Ask, AskedWithin
<1>3. CASE Invoke
  BY <1>3, InvokeStep
<1>4. CASE InvokeRaises
  <2>1. Due.tool \in Tools /\ used' = Append(used, Due.tool)
    BY <1>4 DEF InvokeRaises
  <2>2. used' \in Seq(Tools \cup Foreign)
    BY <1>1, <2>1, AppendProperties
  <2>3. /\ UNCHANGED <<messages, calls, index, step>> /\ requests' \in Nat
        /\ pc' = "raise"
    BY <1>1, <1>4 DEF InvokeRaises
  <2> QED BY <2>2, <2>3, EndStep
<1>5. CASE Wrap \/ RequestRaises
  <2>1. /\ UNCHANGED <<messages, calls, index, step, used>> /\ requests' = requests + 1
        /\ pc = "ask" /\ pc' \in {"return", "raise"}
    BY <1>5 DEF Wrap, RequestRaises
  <2> QED BY <1>1, <2>1, EndStep
<1>6. CASE UNCHANGED vars
  BY <1>1, <1>6, EndStep DEF vars
<1> QED BY <1>2, <1>3, <1>4, <1>5, <1>6 DEF Next

(* Every reachable state.                                                  *)
LEMMA Conversation == Spec => []ConvInv
BY ConvInit, ConvNext, PTL DEF Spec

(* The conversation and the loop's variables keep their types.             *)
THEOREM LoopTypeCorrect == Spec => []TypeOK
<1>1. ConvInv => TypeOK
  BY DEF ConvInv
<1> QED BY <1>1, Conversation, PTL

(* Whatever the model answers, and whatever its tools raise, every call of *)
(* the conversation has one reply, in order and under its id, before the   *)
(* model is asked again.                                                   *)
THEOREM CallsAnswered == Spec => []AskedWithEveryCallAnswered
<1>1. ConvInv => AskedWithEveryCallAnswered
  <2> SUFFICES ASSUME ConvInv, pc = "ask" PROVE AskedWithEveryCallAnswered
    BY DEF AskedWithEveryCallAnswered
  <2>1. Len(Calls) \in Nat /\ Len(calls) \in Nat /\ index = Len(calls)
    BY Types, LenProperties, BoundedIsSeq DEF ConvInv, TypeOK, PlaceOK
  <2>2. Len(Replies) = Len(Calls)
    BY <2>1 DEF ConvInv, AnsweredOK, Rest
  <2> QED BY <2>2 DEF ConvInv, AnsweredOK, AskedWithEveryCallAnswered
<1> QED BY <1>1, Conversation, PTL

(* Ids made up for calls without one never collide, for any number of      *)
(* iterations and of calls.                                                *)
THEOREM InventedIdsUnique == Spec => []InventedIdsDiffer
<1>1. ConvInv => InventedIdsDiffer
  <2> SUFFICES ASSUME ConvInv, NEW i \in 1..Len(Replies), NEW j \in 1..Len(Replies),
                      i # j, Replies[i].id = Replies[j].id, Replies[i].id \notin Ids
               PROVE  FALSE
    BY DEF InventedIdsDiffer
  <2>1. Replies \in Seq(ToolMessage)
    BY Types DEF ConvInv, TypeOK
  <2>2. Replies[i] \in ToolMessage
    BY <2>1, ElementOfSeq
  <2>3. PICK a, b \in Nat : Replies[i].id = <<a, b>>
    BY <2>2 DEF ToolMessage
  <2>4. Earlier(Replies[i].id, Replies[i].id)
    <3>1. CASE i < j
      BY <3>1 DEF ConvInv, IdsOK
    <3>2. CASE j < i
      BY <3>2 DEF ConvInv, IdsOK
    <3> QED BY <3>1, <3>2
  <2> QED BY <2>3, <2>4 DEF Earlier
<1> QED BY <1>1, Conversation, PTL

(* A result lists the names of all calls of the run, in order.             *)
THEOREM CallsReported == Spec => []EveryCallIsReported
<1>1. ConvInv => EveryCallIsReported
  <2> SUFFICES ASSUME ConvInv, pc = "return"
               PROVE  used = [i \in 1..Len(Calls) |-> Calls[i].tool]
    BY DEF EveryCallIsReported
  <2>1. Len(Calls) \in Nat /\ Len(calls) \in Nat /\ index = Len(calls)
    BY Types, LenProperties, BoundedIsSeq DEF ConvInv, TypeOK, PlaceOK
  <2>2. Len(Replies) = Len(Calls)
    BY <2>1 DEF ConvInv, AnsweredOK, Rest
  <2>3. used \in Seq(Tools \cup Foreign)
    BY DEF ConvInv, TypeOK
  <2> QED BY <2>1, <2>2, <2>3, LenProperties DEF ConvInv, ReportedOK
<1> QED BY <1>1, Conversation, PTL

-------------------------------------------------------------------------------
(* Reading a row: what FoldLeft does with Reads.                           *)

(* ... and of the first m positions.                                       *)
LEMMA MaxOfFirst ==
  ASSUME NEW m \in Nat
  PROVE  Max(1..(m + 1)) = m + 1 /\ (1..(m + 1)) \ {m + 1} = 1..m
<1>1. m + 1 \in Nat /\ 1..(m + 1) \in SUBSET (1..(m + 1)) /\ 1..(m + 1) # {}
  BY m + 1 \in 1..(m + 1)
<1>2. Max(1..(m + 1)) \in 1..(m + 1) /\ \A y \in 1..(m + 1) : y <= Max(1..(m + 1))
  BY <1>1, MaxIs
<1> QED BY <1>2

(* it holds what reading the positions of any set gives, in their order.   *)
Iterates(it, b, d, D) ==
  it = [S \in SUBSET D |-> IF S = {} THEN b ELSE Reads(it[S \ {Max(S)}], d[Max(S)])]

(* There is an iteration over the first n positions, for every n.          *)
LEMMA IterationExists ==
  ASSUME NEW b, NEW d
  PROVE  \A n \in Nat : \E it : Iterates(it, b, d, 1..n)
<1> DEFINE P(n) == \E it : Iterates(it, b, d, 1..n)
           Bad == {n \in Nat : ~P(n)}
<1>1. P(0)
  <2> DEFINE it == [S \in SUBSET (1..0) |-> b]
  <2>1. \A S \in SUBSET (1..0) : S = {}
    OBVIOUS
  <2>2. Iterates(it, b, d, 1..0)
    BY <2>1 DEF Iterates
  <2> QED BY <2>2
<1>2. ASSUME NEW n \in Nat, P(n) PROVE P(n + 1)
  <2>1. PICK it : Iterates(it, b, d, 1..n)
    BY <1>2
  <2> DEFINE g == [S \in SUBSET (1..(n + 1)) |->
                     IF n + 1 \in S THEN Reads(it[S \ {n + 1}], d[n + 1]) ELSE it[S]]
             h == [S \in SUBSET (1..(n + 1)) |->
                     IF S = {} THEN b ELSE Reads(g[S \ {Max(S)}], d[Max(S)])]
  <2>2. ASSUME NEW S \in SUBSET (1..(n + 1)) PROVE g[S] = h[S]
    <3>1. CASE n + 1 \in S
      <4>1. Max(S) = n + 1
        <5>1. n + 1 \in Nat /\ S # {}
          BY <3>1
        <5>2. Max(S) \in S /\ \A y \in S : y <= Max(S)
          BY <5>1, MaxIs
        <5>3. Max(S) \in 1..(n + 1) /\ n + 1 <= Max(S)
          BY <3>1, <5>2
        <5> QED BY <5>1, <5>3
      <4>2. S \ {n + 1} \in SUBSET (1..(n + 1)) /\ n + 1 \notin S \ {n + 1}
        OBVIOUS
      <4>3. g[S \ {n + 1}] = it[S \ {n + 1}]
        BY <4>2
      <4>4. h[S] = Reads(g[S \ {n + 1}], d[n + 1])
        BY <3>1, <4>1
      <4>5. g[S] = Reads(it[S \ {n + 1}], d[n + 1])
        BY <3>1
      <4> QED BY <4>3, <4>4, <4>5
    <3>2. CASE n + 1 \notin S
      <4>1. S \in SUBSET (1..n) /\ g[S] = it[S]
        BY <3>2
      <4>2. it[S] = IF S = {} THEN b ELSE Reads(it[S \ {Max(S)}], d[Max(S)])
        BY <2>1, <4>1 DEF Iterates
      <4>3. S \ {Max(S)} \in SUBSET (1..(n + 1)) /\ n + 1 \notin S \ {Max(S)}
        BY <3>2
      <4>4. g[S \ {Max(S)}] = it[S \ {Max(S)}]
        BY <4>3
      <4>5. h[S] = IF S = {} THEN b ELSE Reads(g[S \ {Max(S)}], d[Max(S)])
        OBVIOUS
      <4> QED BY <4>1, <4>2, <4>4, <4>5
    <3> QED BY <3>1, <3>2
  <2>3. g = h
    <3> HIDE DEF h
    <3>1. DOMAIN g = DOMAIN h
      BY DEF h
    <3> QED BY <2>2, <3>1 DEF h
  <2>4. Iterates(g, b, d, 1..(n + 1))
    BY <2>3 DEF Iterates
  <2> HIDE DEF g
  <2> QED BY <2>4
<1> HIDE DEF P
<1>3. Bad = {}
  <2> SUFFICES ASSUME Bad # {} PROVE FALSE
    OBVIOUS
  <2>1. PICK n \in Bad : \A m \in Bad : n <= m
    BY Least
  <2>2. n # 0
    BY <1>1
  <2>3. n - 1 \in Nat /\ n - 1 \notin Bad /\ (n - 1) + 1 = n
    BY <2>1, <2>2
  <2>4. P((n - 1) + 1)
    BY <1>2, <2>3
  <2> QED BY <2>3, <2>4
<1> QED BY <1>3 DEF P

(* json.loads from state b on.                                             *)
Run(b, d) == FoldLeft(Reads, b, d)

(* The fold is the value of such an iteration for all positions.           *)
LEMMA FoldIs ==
  ASSUME NEW b, NEW d, NEW n \in Nat, DOMAIN d = 1..n
  PROVE  \E it : Iterates(it, b, d, 1..n) /\ Run(b, d) = it[1..n]
<1> DEFINE it[S \in SUBSET DOMAIN d] ==
             IF S = {} THEN b ELSE Reads(it[S \ {Max(S)}], d[Max(S)])
<1>1. \E x : Iterates(x, b, d, DOMAIN d)
  BY IterationExists
<1>2. it = [S \in SUBSET DOMAIN d |->
              IF S = {} THEN b ELSE Reads(it[S \ {Max(S)}], d[Max(S)])]
  BY <1>1 DEF Iterates
<1>3. Run(b, d) = it[DOMAIN d]
  BY DEF Run, FoldLeft, MapThenFoldSet
<1> HIDE DEF it
<1> QED BY <1>2, <1>3 DEF Iterates

(* Reading the first m positions.                                          *)
LEMMA IterationFirst ==
  ASSUME NEW it, NEW b, NEW d, NEW n \in Nat, Iterates(it, b, d, 1..n)
  PROVE  /\ it[1..0] = b
         /\ \A m \in Nat : m < n => it[1..(m + 1)] = Reads(it[1..m], d[m + 1])
<1>1. it[1..0] = b
  <2>1. 1..0 = {} /\ 1..0 \in SUBSET (1..n)
    OBVIOUS
  <2> QED BY <2>1 DEF Iterates
<1>2. ASSUME NEW m \in Nat, m < n PROVE it[1..(m + 1)] = Reads(it[1..m], d[m + 1])
  <2>1. 1..(m + 1) \in SUBSET (1..n) /\ 1..(m + 1) # {}
    BY <1>2, m + 1 \in 1..(m + 1)
  <2>2. it[1..(m + 1)] = Reads(it[(1..(m + 1)) \ {Max(1..(m + 1))}], d[Max(1..(m + 1))])
    BY <2>1 DEF Iterates
  <2> QED BY <2>2, MaxOfFirst
<1> QED BY <1>1, <1>2

(* Reading nothing, and one character more.                                *)
LEMMA FoldEmpty == ASSUME NEW b PROVE Run(b, <<>>) = b
<1>1. DOMAIN <<>> = 1..0
  OBVIOUS
<1>2. PICK it : Iterates(it, b, <<>>, 1..0) /\ Run(b, <<>>) = it[1..0]
  BY <1>1, FoldIs
<1> QED BY <1>2, IterationFirst

(* Reading a text and a character more is reading the text, then the       *)
(* character.                                                              *)
LEMMA FoldAppend ==
  ASSUME NEW T, NEW b, NEW d \in Seq(T), NEW c \in T
  PROVE  Run(b, Append(d, c)) = Reads(Run(b, d), c)
<1> DEFINE n == Len(d)
           e == Append(d, c)
<1>1. /\ n \in Nat /\ DOMAIN d = 1..n /\ DOMAIN e = 1..(n + 1) /\ e[n + 1] = c
      /\ \A i \in 1..n : e[i] = d[i]
  BY LenProperties, AppendProperties
<1> HIDE DEF n, e
<1>2. PICK it : Iterates(it, b, d, 1..n) /\ Run(b, d) = it[1..n]
  BY <1>1, FoldIs
<1>3. PICK jt : Iterates(jt, b, e, 1..(n + 1)) /\ Run(b, e) = jt[1..(n + 1)]
  BY <1>1, FoldIs
<1>4. jt[1..(n + 1)] = Reads(jt[1..n], c)
  <2>1. n < n + 1 /\ n + 1 \in Nat
    BY <1>1
  <2> QED BY <1>1, <1>3, <2>1, IterationFirst
<1>5. it[1..n] = jt[1..n]
  <2> DEFINE Bad == {m \in Nat : m <= n /\ it[1..m] # jt[1..m]}
  <2> SUFFICES ASSUME Bad # {} PROVE FALSE
    BY <1>1
  <2>1. PICK m \in Bad : \A k \in Bad : m <= k
    BY Least
  <2>2. it[1..0] = b /\ jt[1..0] = b
    BY <1>1, <1>2, <1>3, IterationFirst
  <2>3. m # 0
    BY <2>2
  <2>4. m - 1 \in Nat /\ m - 1 < n /\ (m - 1) + 1 = m /\ m \in 1..n
    BY <1>1, <2>3
  <2>5. it[1..m] = Reads(it[1..(m - 1)], d[m])
    BY <1>1, <1>2, <2>4, IterationFirst
  <2>6. jt[1..m] = Reads(jt[1..(m - 1)], e[m])
    <3>1. m - 1 < n + 1
      BY <1>1, <2>4
    <3> QED BY <1>1, <1>3, <2>4, <3>1, IterationFirst
  <2>7. it[1..(m - 1)] = jt[1..(m - 1)]
    BY <1>1, <2>1, <2>4
  <2> QED BY <1>1, <2>4, <2>5, <2>6, <2>7
<1> QED BY <1>2, <1>3, <1>4, <1>5 DEF e

(* Reading one text after another.                                         *)
LEMMA FoldConcat ==
  ASSUME NEW T, NEW b, NEW d \in Seq(T), NEW e \in Seq(T)
  PROVE  Run(b, Cat(d, e)) = Run(Run(b, d), e)
<1> DEFINE S == {x \in Seq(T) : Run(b, Cat(d, x)) = Run(Run(b, d), x)}
<1>1. <<>> \in S
  <2>1. Cat(d, <<>>) = d
    BY CatFacts
  <2>2. <<>> \in Seq(T)
    OBVIOUS
  <2> QED BY <2>1, <2>2, FoldEmpty
<1>2. ASSUME NEW x \in S, NEW c \in T PROVE Append(x, c) \in S
  <2> DEFINE y == Cat(d, x)
  <2>1. x \in Seq(T) /\ Append(x, c) \in Seq(T) /\ Run(b, y) = Run(Run(b, d), x)
    OBVIOUS
  <2>2. y \in Seq(T) /\ Cat(d, Append(x, c)) = Append(y, c)
    BY <2>1, CatFacts
  <2> HIDE DEF y, S
  <2>3. Run(b, Append(y, c)) = Reads(Run(b, y), c)
    BY <2>2, FoldAppend
  <2>4. Run(Run(b, d), Append(x, c)) = Reads(Run(Run(b, d), x), c)
    BY <2>1, FoldAppend
  <2> QED BY <2>1, <2>2, <2>3, <2>4 DEF S
<1> HIDE DEF S
<1>3. S \in SUBSET Seq(T)
  BY DEF S
<1>4. e \in S
  BY <1>1, <1>2, <1>3, AllSequences
<1> QED BY <1>4 DEF S

-------------------------------------------------------------------------------
(* What esc writes of a text, and what is plain of it: character by        *)
(* character.                                                              *)

(* The characters the two sides treat in a way of their own differ.        *)
LEMMA Distinct ==
  /\ {Quote, Backslash, Newline, Return, Tab, Control} \cap Letters = {}
  /\ {"n", " "} \subseteq Letters
  /\ Letters \cup {Quote, Backslash, Newline, Return, Tab, Control} = Char
  /\ Quote \notin {Backslash, Newline, Return, Tab, Control}
  /\ Backslash \notin {Newline, Return, Tab, Control}
  /\ Newline \notin {Return, Tab, Control}
  /\ Return \notin {Tab, Control} /\ Tab # Control
<1>1. /\ DOMAIN Special = 1..6
      /\ Special[1] = Quote /\ Special[2] = Backslash /\ Special[3] = Newline
      /\ Special[4] = Return /\ Special[5] = Tab /\ Special[6] = Control
  BY DEF Special
<1>2. ToSet(Special) = {Quote, Backslash, Newline, Return, Tab, Control}
  <2>1. \A i : i \in 1..6 <=> i \in {1, 2, 3, 4, 5, 6}
    OBVIOUS
  <2> QED BY <1>1, <2>1 DEF ToSet
<1>3. \A i, j \in 1..6 : i # j => Special[i] # Special[j]
  BY <1>1, PayloadAssumption DEF PayloadAssumption, IsInjective
<1>4. /\ \A i \in {2, 3, 4, 5, 6} : Special[1] # Special[i]
      /\ \A i \in {3, 4, 5, 6} : Special[2] # Special[i]
      /\ \A i \in {4, 5, 6} : Special[3] # Special[i]
      /\ \A i \in {5, 6} : Special[4] # Special[i]
      /\ Special[5] # Special[6]
  BY <1>3
<1> QED BY <1>1, <1>2, <1>4, PayloadAssumption DEF PayloadAssumption, Char

(* Texts of one and of two characters, under names of their own.           *)
Single(c) == <<c>>
Pair(c, d) == <<c, d>>

(* The texts that esc puts in place of a character are texts.              *)
LEMMA Replacements ==
  /\ \A c \in Char : Single(c) \in Seq(Char) /\ \A d \in Char : Pair(c, d) \in Seq(Char)
  /\ Backslash \in Char /\ Quote \in Char /\ "n" \in Char /\ " " \in Char
  /\ <<>> \in Seq(Char) /\ Single(" ") \in Seq(Char)
  /\ Pair(Backslash, Backslash) \in Seq(Char) /\ Pair(Backslash, Quote) \in Seq(Char)
  /\ Pair(Backslash, "n") \in Seq(Char)
<1>1. \A c \in Char : Single(c) \in Seq(Char)
  BY DEF Single
<1>2. \A c, d \in Char : Pair(c, d) \in Seq(Char)
  BY DEF Pair
<1>3. Backslash \in Char /\ Quote \in Char /\ "n" \in Char /\ " " \in Char
  BY Distinct
<1>4. <<>> \in Seq(Char)
  OBVIOUS
<1> QED BY <1>1, <1>2, <1>3, <1>4

(* String.replace of one character.                                        *)
Swap(ch, by) == [c \in Char |-> IF c = ch THEN by ELSE Single(c)]

(* What a replacement makes of one character.                              *)
LEMMA SwapType ==
  ASSUME NEW ch, NEW by \in Seq(Char)
  PROVE  /\ Makes(Swap(ch, by), Char, Char)
         /\ \A c \in Char : Swap(ch, by)[c] = IF c = ch THEN by ELSE Single(c)
<1>1. \A c \in Char : (IF c = ch THEN by ELSE Single(c)) \in Seq(Char)
  BY Replacements
<1> QED BY <1>1 DEF Swap, Makes

(* Replace is a map by character.                                          *)
LEMMA ReplaceIs ==
  ASSUME NEW ch, NEW by \in Seq(Char), NEW s \in Seq(Char)
  PROVE  Replace(s, ch, by) = ByEach(Swap(ch, by), s)
<1>1. \A i \in 1..Len(s) : s[i] \in Char
  BY LenProperties, ElementOfSeq
<1>2. [i \in 1..Len(s) |-> Swap(ch, by)[s[i]]]
        = [i \in 1..Len(s) |-> IF s[i] = ch THEN by ELSE <<s[i]>>]
  BY <1>1 DEF Swap, Single
<1> QED BY <1>2 DEF Replace, ByEach

(* A replacement in a text of one character ...                            *)
LEMMA SwapOne ==
  ASSUME NEW ch, NEW by \in Seq(Char), NEW c \in Char
  PROVE  ByEach(Swap(ch, by), Single(c)) = IF c = ch THEN by ELSE Single(c)
<1>1. Makes(Swap(ch, by), Char, Char)
  BY SwapType
<1>2. ByEach(Swap(ch, by), Single(c)) = Swap(ch, by)[c]
  BY <1>1, EachOne DEF Single
<1> QED BY <1>2, SwapType

(* ... and in one of two characters, neither of which it replaces.         *)
LEMMA SwapPair ==
  ASSUME NEW ch, NEW by \in Seq(Char), NEW c \in Char, NEW d \in Char, c # ch, d # ch
  PROVE  ByEach(Swap(ch, by), Pair(c, d)) = Pair(c, d)
<1>1. Makes(Swap(ch, by), Char, Char)
  BY SwapType
<1>2. ByEach(Swap(ch, by), Pair(c, d)) = Cat(Swap(ch, by)[c], Swap(ch, by)[d])
  BY <1>1, EachTwo DEF Pair
<1>3. Swap(ch, by)[c] = Single(c) /\ Swap(ch, by)[d] = Single(d)
  BY SwapType
<1>4. Cat(Single(c), Single(d)) = Pair(c, d)
  BY CatTwo DEF Single, Pair
<1> QED BY <1>2, <1>3, <1>4

(* What the five replacements of esc need to know of each.                 *)
LEMMA SwapFacts ==
  ASSUME NEW ch, NEW by, by \in Seq(Char)
  PROVE  /\ Makes(Swap(ch, by), Char, Char)
         /\ \A c \in Char : ByEach(Swap(ch, by), Single(c)) = IF c = ch THEN by ELSE Single(c)
         /\ \A c, d \in Char :
              c # ch /\ d # ch => ByEach(Swap(ch, by), Pair(c, d)) = Pair(c, d)
         /\ \A s \in Seq(Char) : Replace(s, ch, by) = ByEach(Swap(ch, by), s)
<1>1. Makes(Swap(ch, by), Char, Char)
  BY SwapType
<1>2. \A c \in Char : ByEach(Swap(ch, by), Single(c)) = IF c = ch THEN by ELSE Single(c)
  BY SwapOne
<1>3. \A c, d \in Char : c # ch /\ d # ch => ByEach(Swap(ch, by), Pair(c, d)) = Pair(c, d)
  BY SwapPair
<1>4. \A s \in Seq(Char) : Replace(s, ch, by) = ByEach(Swap(ch, by), s)
  BY ReplaceIs
<1> QED BY <1>1, <1>2, <1>3, <1>4

(* One character, escaped.                                                 *)
Escaped(c) ==
  CASE c \in {Backslash, Quote} -> Pair(Backslash, c)
    [] c = Newline -> Pair(Backslash, "n")
    [] c = Return -> <<>>
    [] c = Tab -> Single(" ")
    [] OTHER -> Single(c)

(* ... as a function on characters.                                        *)
EscapedOf == [c \in Char |-> Escaped(c)]

(* It makes a text of every character.                                     *)
LEMMA EscapedType == Makes(EscapedOf, Char, Char)
<1>1. ASSUME NEW c \in Char PROVE Escaped(c) \in Seq(Char)
  BY Replacements DEF Escaped
<1> QED BY <1>1 DEF EscapedOf, Makes

(* The five replacements of esc, in the order of the code, are one map by  *)
(* character: none touches what an earlier one has written.                *)
LEMMA EscIs == ASSUME NEW s \in Seq(Char) PROVE Esc(s) = ByEach(EscapedOf, s)
<1> DEFINE bb == Pair(Backslash, Backslash)
           bq == Pair(Backslash, Quote)
           bn == Pair(Backslash, "n")
           sp == Single(" ")
           none == <<>>
<1>1. /\ bb \in Seq(Char) /\ bq \in Seq(Char) /\ bn \in Seq(Char) /\ sp \in Seq(Char)
      /\ none \in Seq(Char)
  BY Replacements
<1>2. /\ Pair(Backslash, Backslash) = bb /\ Pair(Backslash, Quote) = bq
      /\ Pair(Backslash, "n") = bn /\ Single(" ") = sp /\ <<>> = none
  OBVIOUS
<1> HIDE DEF bb, bq, bn, sp, none
<1> DEFINE B == Swap(Backslash, bb)
           Q == Swap(Quote, bq)
           N == Swap(Newline, bn)
           R == Swap(Return, none)
           S == Swap(Tab, sp)
           qb(c) == IF c \in {Backslash, Quote} THEN Pair(Backslash, c) ELSE Single(c)
           nqb(c) == IF c = Newline THEN bn ELSE qb(c)
           rnqb(c) == IF c = Return THEN none ELSE nqb(c)
           QB == [c \in Char |-> qb(c)]
           NQB == [c \in Char |-> nqb(c)]
           RNQB == [c \in Char |-> rnqb(c)]
<1>3. /\ Makes(B, Char, Char) /\ Makes(Q, Char, Char) /\ Makes(N, Char, Char)
      /\ Makes(R, Char, Char) /\ Makes(S, Char, Char)
  BY <1>1, SwapFacts
<1>4. \A c \in Char : B[c] = IF c = Backslash THEN bb ELSE Single(c)
  BY <1>1, SwapType
<1>5. \A c \in Char :
        /\ ByEach(Q, Single(c)) = IF c = Quote THEN bq ELSE Single(c)
        /\ ByEach(N, Single(c)) = IF c = Newline THEN bn ELSE Single(c)
        /\ ByEach(R, Single(c)) = IF c = Return THEN none ELSE Single(c)
        /\ ByEach(S, Single(c)) = IF c = Tab THEN sp ELSE Single(c)
  BY <1>1, SwapFacts
<1>6. \A c, d \in Char :
        /\ c # Quote /\ d # Quote => ByEach(Q, Pair(c, d)) = Pair(c, d)
        /\ c # Newline /\ d # Newline => ByEach(N, Pair(c, d)) = Pair(c, d)
        /\ c # Return /\ d # Return => ByEach(R, Pair(c, d)) = Pair(c, d)
        /\ c # Tab /\ d # Tab => ByEach(S, Pair(c, d)) = Pair(c, d)
  BY <1>1, SwapFacts
<1>7. \A c \in Char : qb(c) \in Seq(Char) /\ nqb(c) \in Seq(Char) /\ rnqb(c) \in Seq(Char)
  BY <1>1, Replacements
<1> HIDE DEF B, Q, N, R, S
<1>8. \A c \in Char : qb(c) = IF c \in {Backslash, Quote} THEN Pair(Backslash, c) ELSE Single(c)
  OBVIOUS
<1> HIDE DEF qb
<1>9. \A c \in Char : nqb(c) = IF c = Newline THEN bn ELSE qb(c)
  OBVIOUS
<1> HIDE DEF nqb
<1>10. \A c \in Char : rnqb(c) = IF c = Return THEN none ELSE nqb(c)
  OBVIOUS
<1> HIDE DEF rnqb
<1>11. \A c \in Char : QB[c] = qb(c) /\ NQB[c] = nqb(c) /\ RNQB[c] = rnqb(c)
  OBVIOUS
<1>12. Makes(QB, Char, Char) /\ Makes(NQB, Char, Char) /\ Makes(RNQB, Char, Char)
  BY <1>7 DEF Makes
<1> HIDE DEF QB, NQB, RNQB
<1>13. /\ Backslash \notin {Quote, Newline, Return, Tab} /\ Quote \notin {Newline, Return, Tab}
       /\ Newline \notin {Return, Tab} /\ Return # Tab /\ "n" \notin {Return, Tab}
  BY Distinct
<1>14. Composes(QB, Q, B, Char)
  <2> SUFFICES ASSUME NEW c \in Char PROVE qb(c) = ByEach(Q, B[c])
    BY <1>11 DEF Composes
  <2>1. CASE c = Backslash
    BY <1>2, <1>4, <1>6, <1>8, <1>13, <2>1, Replacements
  <2>2. CASE c # Backslash
    BY <1>2, <1>4, <1>5, <1>8, <1>13, <2>2, Replacements
  <2> QED BY <2>1, <2>2
<1>15. Composes(NQB, N, QB, Char)
  <2> SUFFICES ASSUME NEW c \in Char PROVE nqb(c) = ByEach(N, qb(c))
    BY <1>11 DEF Composes
  <2>1. CASE c \in {Backslash, Quote}
    BY <1>2, <1>6, <1>8, <1>9, <1>13, <2>1, Replacements
  <2>2. CASE c \notin {Backslash, Quote}
    BY <1>5, <1>8, <1>9, <1>13, <2>2, Replacements
  <2> QED BY <2>1, <2>2
<1>16. Composes(RNQB, R, NQB, Char)
  <2> SUFFICES ASSUME NEW c \in Char PROVE rnqb(c) = ByEach(R, nqb(c))
    BY <1>11 DEF Composes
  <2>1. CASE c \in {Backslash, Quote}
    <3>1. nqb(c) = Pair(Backslash, c) /\ rnqb(c) = Pair(Backslash, c) /\ c # Return
      BY <1>8, <1>9, <1>10, <1>13, <2>1
    <3>2. ByEach(R, Pair(Backslash, c)) = Pair(Backslash, c)
      BY <1>6, <1>13, <3>1, Replacements
    <3> QED BY <3>1, <3>2
  <2>2. CASE c = Newline
    BY <1>2, <1>6, <1>9, <1>10, <1>13, <2>2, Replacements
  <2>3. CASE c \notin {Backslash, Quote, Newline}
    <3>1. nqb(c) = Single(c) /\ rnqb(c) = IF c = Return THEN none ELSE Single(c)
      BY <1>8, <1>9, <1>10, <2>3
    <3> QED BY <1>5, <3>1
  <2> QED BY <2>1, <2>2, <2>3
<1>17. Composes(EscapedOf, S, RNQB, Char)
  <2> SUFFICES ASSUME NEW c \in Char PROVE Escaped(c) = ByEach(S, rnqb(c))
    BY <1>11 DEF EscapedOf, Composes
  <2>1. CASE c \in {Backslash, Quote}
    <3>1. rnqb(c) = Pair(Backslash, c) /\ c # Tab
      BY <1>8, <1>9, <1>10, <1>13, <2>1
    <3>2. Escaped(c) = Pair(Backslash, c)
      BY <1>13, <2>1 DEF Escaped
    <3> QED BY <1>2, <1>6, <1>13, <3>1, <3>2, Replacements
  <2>2. CASE c = Newline
    <3>1. rnqb(c) = bn
      BY <1>9, <1>10, <1>13, <2>2
    <3>2. Escaped(c) = bn
      BY <1>2, <1>13, <2>2 DEF Escaped
    <3>3. ByEach(S, bn) = bn
      <4>1. ByEach(S, Pair(Backslash, "n")) = Pair(Backslash, "n")
        BY <1>6, <1>13, Replacements
      <4> QED BY <1>2, <4>1
    <3> QED BY <3>1, <3>2, <3>3
  <2>3. CASE c = Return
    <3>1. rnqb(c) = none
      BY <1>10, <2>3
    <3>2. Escaped(c) = none
      BY <1>2, <1>13, <2>3 DEF Escaped
    <3> QED BY <1>2, <3>1, <3>2, EachEmpty
  <2>4. CASE c \notin {Backslash, Quote, Newline, Return}
    <3>1. rnqb(c) = Single(c)
      BY <1>8, <1>9, <1>10, <2>4
    <3>2. Escaped(c) = IF c = Tab THEN sp ELSE Single(c)
      BY <1>2, <2>4 DEF Escaped
    <3> QED BY <1>5, <3>1, <3>2
  <2> QED BY <2>1, <2>2, <2>3, <2>4
<1>18. ByEach(Q, ByEach(B, s)) = ByEach(QB, s)
  BY <1>3, <1>12, <1>14, EachTwice
<1>19. ByEach(N, ByEach(QB, s)) = ByEach(NQB, s)
  BY <1>3, <1>12, <1>15, EachTwice
<1>20. ByEach(R, ByEach(NQB, s)) = ByEach(RNQB, s)
  BY <1>3, <1>12, <1>16, EachTwice
<1>21. ByEach(S, ByEach(RNQB, s)) = ByEach(EscapedOf, s)
  BY <1>3, <1>12, <1>17, EscapedType, EachTwice
<1>22. /\ ByEach(B, s) \in Seq(Char) /\ ByEach(QB, s) \in Seq(Char)
       /\ ByEach(NQB, s) \in Seq(Char) /\ ByEach(RNQB, s) \in Seq(Char)
  BY <1>3, <1>12, EachType
<1>23. \A x \in Seq(Char) :
         /\ Replace(x, Backslash, bb) = ByEach(B, x)
         /\ Replace(x, Quote, bq) = ByEach(Q, x)
         /\ Replace(x, Newline, bn) = ByEach(N, x)
         /\ Replace(x, Return, none) = ByEach(R, x)
         /\ Replace(x, Tab, sp) = ByEach(S, x)
  BY <1>1, SwapFacts DEF B, Q, N, R, S
<1>24. Esc(s) = Replace(Replace(Replace(Replace(Replace(s, Backslash, bb), Quote, bq),
                                          Newline, bn), Return, none), Tab, sp)
  BY DEF Esc, bb, bq, bn, sp, none, Pair, Single
<1> QED BY <1>18, <1>19, <1>20, <1>21, <1>22, <1>23, <1>24

(* Plain, character by character.                                          *)
PlainEach == [c \in Char |-> PlainOf(c)]

(* Plain is a map by character.                                            *)
LEMMA PlainIs ==
  /\ Makes(PlainEach, Char, Char)
  /\ \A s \in Seq(Char) : Plain(s) = ByEach(PlainEach, s)
<1>1. Makes(PlainEach, Char, Char)
  <2>1. ASSUME NEW c \in Char PROVE PlainOf(c) \in Seq(Char)
    BY Replacements DEF PlainOf, Single
  <2> QED BY <2>1 DEF PlainEach, Makes
<1>2. ASSUME NEW s \in Seq(Char) PROVE Plain(s) = ByEach(PlainEach, s)
  <2>1. \A i \in 1..Len(s) : s[i] \in Char
    BY LenProperties, ElementOfSeq
  <2>2. [i \in 1..Len(s) |-> PlainEach[s[i]]] = [i \in 1..Len(s) |-> PlainOf(s[i])]
    BY <2>1 DEF PlainEach
  <2> QED BY <2>2 DEF Plain, ByEach
<1> QED BY <1>1, <1>2

-------------------------------------------------------------------------------
(* What reading one character does.                                        *)

(* The literals read so far.                                               *)
Texts == Seq(Seq(Char))

(* The states of the reader: outside of a literal, ...                     *)
Out(T) == [mode |-> "out", texts |-> T]
(* ... in one of which t has been read, ...                                *)
Inside(T, t) == [mode |-> "in", texts |-> Append(T, t)]
(* ... behind a backslash in it, ...                                       *)
Behind(T, t) == [mode |-> "escape", texts |-> Append(T, t)]
(* ... and one that an error has ended.                                    *)
Failed(state) == state \in [mode : {"error"}, texts : Texts]

(* Reading a character into the last literal.                              *)
LEMMA LastText ==
  ASSUME NEW T \in Texts, NEW t \in Seq(Char), NEW c \in Char
  PROVE  LET all == Append(T, t) IN
         /\ all \in Texts
         /\ [all EXCEPT ![Len(all)] = Append(@, c)] = Append(T, Append(t, c))
<1> DEFINE all == Append(T, t)
<1>1. all \in Texts /\ Len(T) \in Nat /\ Len(all) = Len(T) + 1 /\ all[Len(T) + 1] = t
  BY LenProperties, AppendProperties DEF Texts
<1>2. [all EXCEPT ![Len(T) + 1] = Append(t, c)] = Append(T, Append(t, c))
  <2> DEFINE more == Append(t, c)
  <2>1. more \in Seq(Char)
    OBVIOUS
  <2> HIDE DEF more
  <2>2. [Append(T, t) EXCEPT ![Len(T) + 1] = more] = Append(T, more)
    BY <2>1, ExceptLast DEF Texts
  <2> QED BY <2>2 DEF more
<1> HIDE DEF all
<1>3. [all EXCEPT ![Len(all)] = Append(@, c)] = Append(T, Append(t, c))
  BY <1>1, <1>2
<1> QED BY <1>1, <1>3 DEF all

(* Outside, a quote opens a literal.                                       *)
LEMMA ReadsOutside ==
  ASSUME NEW T \in Texts
  PROVE  Reads(Out(T), Quote) = Inside(T, <<>>)
BY DEF Reads, Out, Inside

(* Inside, a quote closes it, a backslash escapes, a letter is taken, and  *)
(* anything else is an error.                                              *)
LEMMA ReadsInside ==
  ASSUME NEW T \in Texts, NEW t \in Seq(Char), NEW c \in Char
  PROVE  /\ c = Quote => Reads(Inside(T, t), c) = Out(Append(T, t))
         /\ c = Backslash => Reads(Inside(T, t), c) = Behind(T, t)
         /\ c \in Letters => Reads(Inside(T, t), c) = Inside(T, Append(t, c))
         /\ c \notin Letters \cup {Quote, Backslash} => Failed(Reads(Inside(T, t), c))
<1> DEFINE state == Inside(T, t)
           all == Append(T, t)
<1>1. state.mode = "in" /\ state.texts = all /\ state = [mode |-> "in", texts |-> all]
  BY DEF Inside
<1>2. all \in Texts
  BY LastText
<1>3. [all EXCEPT ![Len(all)] = Append(@, c)] = Append(T, Append(t, c))
  BY LastText
<1> HIDE DEF state, all
<1>4. ASSUME c = Quote PROVE Reads(state, c) = [mode |-> "out", texts |-> all]
  <2>1. c # Backslash /\ c \notin Letters
    BY <1>4, Distinct
  <2> QED BY <1>1, <1>4, <2>1 DEF Reads
<1>5. ASSUME c = Backslash PROVE Reads(state, c) = [mode |-> "escape", texts |-> all]
  <2>1. c # Quote /\ c \notin Letters
    BY <1>5, Distinct
  <2> QED BY <1>1, <1>5, <2>1 DEF Reads
<1>6. ASSUME c \in Letters PROVE Reads(state, c) = Inside(T, Append(t, c))
  <2>1. c # Quote /\ c # Backslash
    BY <1>6, Distinct
  <2>2. Reads(state, c) = [state EXCEPT !.texts[Len(state.texts)] = Append(@, c)]
    BY <1>1, <1>6, <2>1 DEF Reads
  <2>3. Reads(state, c) = [mode |-> "in", texts |-> [all EXCEPT ![Len(all)] = Append(@, c)]]
    BY <1>1, <2>2
  <2> QED BY <1>3, <2>3 DEF Inside
<1>7. ASSUME c \notin Letters \cup {Quote, Backslash} PROVE Failed(Reads(state, c))
  <2>1. c # Quote /\ c # Backslash /\ c \notin Letters
    BY <1>7
  <2>2. Reads(state, c) = [state EXCEPT !.mode = "error"]
    BY <1>1, <2>1 DEF Reads
  <2>3. Reads(state, c) = [mode |-> "error", texts |-> all]
    BY <1>1, <2>2
  <2> QED BY <1>2, <2>3 DEF Failed
<1> QED BY <1>4, <1>5, <1>6, <1>7 DEF state, all, Out, Behind

(* Behind a backslash, a quote, a backslash and an n are taken.            *)
LEMMA ReadsBehind ==
  ASSUME NEW T \in Texts, NEW t \in Seq(Char), NEW c \in Char
  PROVE  /\ c \in {Quote, Backslash} => Reads(Behind(T, t), c) = Inside(T, Append(t, c))
         /\ Reads(Behind(T, t), "n") = Inside(T, Append(t, Newline))
<1> DEFINE state == Behind(T, t)
           all == Append(T, t)
<1>1. state.mode = "escape" /\ state.texts = all
  BY DEF Behind
<1>2. \A d \in Char : [all EXCEPT ![Len(all)] = Append(@, d)] = Append(T, Append(t, d))
  BY LastText
<1> HIDE DEF state, all
<1>3. ASSUME c \in {Quote, Backslash} PROVE Reads(state, c) = Inside(T, Append(t, c))
  <2>1. Reads(state, c) = [mode |-> "in", texts |-> [all EXCEPT ![Len(all)] = Append(@, c)]]
    <3>1. c # "n"
      BY <1>3, Distinct
    <3> QED BY <1>1, <1>3, <3>1 DEF Reads
  <2> QED BY <1>2, <2>1 DEF Inside
<1>4. Reads(state, "n") = Inside(T, Append(t, Newline))
  <2>1. "n" \notin {Quote, Backslash}
    BY Distinct
  <2>2. Reads(state, "n")
          = [mode |-> "in", texts |-> [all EXCEPT ![Len(all)] = Append(@, Newline)]]
    BY <1>1, <2>1 DEF Reads
  <2>3. Newline \in Char
    BY Distinct
  <2> QED BY <1>2, <2>2, <2>3 DEF Inside
<1> QED BY <1>3, <1>4 DEF state

(* An error is for good.                                                   *)
LEMMA ReadsFailed ==
  ASSUME NEW state, Failed(state), NEW c PROVE Failed(Reads(state, c))
<1>1. state.mode = "error" /\ state \in [mode : {"error"}, texts : Texts]
  BY DEF Failed
<1>2. Reads(state, c) = [state EXCEPT !.mode = "error"]
  BY <1>1 DEF Reads
<1> QED BY <1>1, <1>2 DEF Failed

(* Nothing ends an error.                                                  *)
LEMMA RunFailed ==
  ASSUME NEW T, NEW state, Failed(state), NEW d \in Seq(T) PROVE Failed(Run(state, d))
<1> DEFINE S == {x \in Seq(T) : Failed(Run(state, x))}
<1>1. <<>> \in S
  <2>1. <<>> \in Seq(T)
    OBVIOUS
  <2> QED BY <2>1, FoldEmpty
<1>2. ASSUME NEW x \in S, NEW c \in T PROVE Append(x, c) \in S
  <2>1. x \in Seq(T) /\ Append(x, c) \in Seq(T) /\ Failed(Run(state, x))
    OBVIOUS
  <2>2. Run(state, Append(x, c)) = Reads(Run(state, x), c)
    BY <2>1, FoldAppend
  <2> QED BY <2>1, <2>2, ReadsFailed
<1> HIDE DEF S
<1>3. S \in SUBSET Seq(T)
  BY DEF S
<1>4. d \in S
  BY <1>1, <1>2, <1>3, AllSequences
<1> QED BY <1>4 DEF S

(* Reading one character, and two.                                         *)
LEMMA RunShort ==
  ASSUME NEW b, NEW c \in Char, NEW d \in Char
  PROVE  /\ Run(b, Single(c)) = Reads(b, c)
         /\ Run(b, Pair(c, d)) = Reads(Reads(b, c), d)
<1> DEFINE none == <<>>
           x == <<c>>
<1>1. none \in Seq(Char)
  OBVIOUS
<1>2. Append(none, c) = <<c>>
  OBVIOUS
<1>3. Run(b, none) = b
  BY FoldEmpty
<1> HIDE DEF none
<1>4. Run(b, Append(none, c)) = Reads(b, c)
  BY <1>1, <1>3, FoldAppend
<1>5. x \in Seq(Char) /\ <<c, d>> = Append(x, d)
  OBVIOUS
<1>6. Run(b, x) = Reads(b, c)
  BY <1>2, <1>4
<1> HIDE DEF x
<1>7. Run(b, Append(x, d)) = Reads(Run(b, x), d)
  BY <1>5, FoldAppend
<1> QED BY <1>5, <1>6, <1>7 DEF Single, Pair, x

-------------------------------------------------------------------------------
(* Reading what esc writes of one character ...                            *)
LEMMA RunChar ==
  ASSUME NEW T \in Texts, NEW t \in Seq(Char), NEW c \in Char
  PROVE  IF c = Control
         THEN Failed(Run(Inside(T, t), EscapedOf[c]))
         ELSE Run(Inside(T, t), EscapedOf[c]) = Inside(T, Cat(t, PlainEach[c]))
<1>1. EscapedOf[c] = Escaped(c) /\ PlainEach[c] = PlainOf(c)
  BY DEF EscapedOf, PlainEach
<1>2. /\ Backslash \notin {Newline, Return, Tab, Control}
      /\ Quote \notin {Newline, Return, Tab, Control}
      /\ Newline \notin {Return, Tab, Control} /\ Return \notin {Tab, Control} /\ Tab # Control
  BY Distinct
<1>3. \A d \in Char : Cat(t, Single(d)) = Append(t, d)
  BY CatFacts DEF Single
<1>4. CASE c \in {Backslash, Quote}
  <2>1. Escaped(c) = Pair(Backslash, c)
    BY <1>2, <1>4 DEF Escaped
  <2>2. PlainOf(c) = Single(c) /\ c # Control
    BY <1>2, <1>4 DEF PlainOf, Single
  <2>3. Run(Inside(T, t), Pair(Backslash, c)) = Reads(Reads(Inside(T, t), Backslash), c)
    BY Replacements, RunShort
  <2>4. Reads(Inside(T, t), Backslash) = Behind(T, t)
    BY Replacements, ReadsInside
  <2>5. Reads(Behind(T, t), c) = Inside(T, Append(t, c))
    BY <1>4, ReadsBehind
  <2> QED BY <1>1, <1>3, <2>1, <2>2, <2>3, <2>4, <2>5
<1>5. CASE c = Newline
  <2>1. Escaped(c) = Pair(Backslash, "n")
    BY <1>2, <1>5 DEF Escaped
  <2>2. PlainOf(c) = Single(Newline) /\ c # Control
    BY <1>2, <1>5 DEF PlainOf, Single
  <2>3. Run(Inside(T, t), Pair(Backslash, "n")) = Reads(Reads(Inside(T, t), Backslash), "n")
    BY Replacements, RunShort
  <2>4. Reads(Inside(T, t), Backslash) = Behind(T, t)
    BY Replacements, ReadsInside
  <2>5. Reads(Behind(T, t), "n") = Inside(T, Append(t, Newline))
    BY ReadsBehind
  <2> QED BY <1>1, <1>3, <1>5, <2>1, <2>2, <2>3, <2>4, <2>5
<1>6. CASE c = Return
  <2>1. Escaped(c) = <<>> /\ PlainOf(c) = <<>> /\ c # Control
    BY <1>2, <1>6 DEF Escaped, PlainOf
  <2>2. Cat(t, <<>>) = t
    BY CatFacts
  <2> QED BY <1>1, <2>1, <2>2, FoldEmpty
<1>7. CASE c = Tab
  <2>1. Escaped(c) = Single(" ") /\ c # Control
    BY <1>2, <1>7 DEF Escaped
  <2>2. PlainOf(c) = Single(" ")
    BY <1>2, <1>7 DEF PlainOf, Single
  <2>3. Run(Inside(T, t), Single(" ")) = Reads(Inside(T, t), " ")
    BY Replacements, RunShort
  <2>4. " " \in Char /\ " " \in Letters
    BY Distinct
  <2>5. Reads(Inside(T, t), " ") = Inside(T, Append(t, " "))
    BY <2>4, ReadsInside
  <2> QED BY <1>1, <1>3, <2>1, <2>2, <2>3, <2>4, <2>5
<1>8. CASE c \notin {Backslash, Quote, Newline, Return, Tab}
  <2>1. Escaped(c) = Single(c)
    BY <1>8 DEF Escaped
  <2>2. PlainOf(c) = Single(c)
    BY <1>8 DEF PlainOf, Single
  <2>3. Run(Inside(T, t), Single(c)) = Reads(Inside(T, t), c)
    BY RunShort
  <2>4. CASE c = Control
    <3>1. c \notin Letters \cup {Quote, Backslash}
      BY <2>4, Distinct
    <3>2. Failed(Reads(Inside(T, t), c))
      BY <3>1, ReadsInside
    <3> QED BY <1>1, <2>1, <2>3, <2>4, <3>2
  <2>5. CASE c # Control
    <3>1. c \in Letters
      BY <1>8, <2>5, Distinct
    <3>2. Reads(Inside(T, t), c) = Inside(T, Append(t, c))
      BY <3>1, ReadsInside
    <3> QED BY <1>1, <1>3, <2>1, <2>2, <2>3, <2>5, <3>2
  <2> QED BY <2>4, <2>5
<1> QED BY <1>4, <1>5, <1>6, <1>7, <1>8

(* ... of a text: what is plain of it, or an error if there is a control   *)
(* character in it ...                                                     *)
LEMMA RunText ==
  ASSUME NEW T \in Texts, NEW s \in Seq(Char)
  PROVE  IF HasControl(s) THEN Failed(Run(Inside(T, <<>>), Esc(s)))
                          ELSE Run(Inside(T, <<>>), Esc(s)) = Inside(T, Plain(s))
<1> DEFINE b == Inside(T, <<>>)
           esc(x) == ByEach(EscapedOf, x)
           plain(x) == ByEach(PlainEach, x)
           S == {x \in Seq(Char) : IF HasControl(x) THEN Failed(Run(b, esc(x)))
                                                    ELSE Run(b, esc(x)) = Inside(T, plain(x))}
<1>1. Makes(EscapedOf, Char, Char) /\ Makes(PlainEach, Char, Char)
  BY EscapedType, PlainIs
<1>2. <<>> \in S
  <2>1. <<>> \in Seq(Char)
    BY Replacements
  <2>2. ~HasControl(<<>>)
    BY DEF HasControl
  <2>3. esc(<<>>) = <<>> /\ plain(<<>>) = <<>>
    BY EachEmpty
  <2>4. Run(b, <<>>) = b
    BY FoldEmpty
  <2> QED BY <2>1, <2>2, <2>3, <2>4
<1>3. ASSUME NEW x \in S, NEW c \in Char PROVE Append(x, c) \in S
  <2> DEFINE y == Append(x, c)
  <2>1. x \in Seq(Char) /\ y \in Seq(Char)
    OBVIOUS
  <2>2. HasControl(y) <=> HasControl(x) \/ c = Control
    <3>1. /\ Len(x) \in Nat /\ Len(y) = Len(x) + 1 /\ y[Len(x) + 1] = c
          /\ \A i \in 1..Len(x) : y[i] = x[i]
      BY <2>1, LenProperties, AppendProperties
    <3> HIDE DEF y
    <3>2. Len(x) + 1 \in 1..Len(y) /\ \A i \in 1..Len(x) : i \in 1..Len(y)
      BY <3>1
    <3>3. \A i \in 1..Len(y) : i \in 1..Len(x) \/ i = Len(x) + 1
      BY <3>1
    <3> QED BY <3>1, <3>2, <3>3 DEF HasControl
  <2>3. /\ HasControl(x) => Failed(Run(b, esc(x)))
        /\ ~HasControl(x) => Run(b, esc(x)) = Inside(T, plain(x))
    OBVIOUS
  <2> HIDE DEF S, b
  <2>4. esc(y) = Cat(esc(x), EscapedOf[c]) /\ plain(y) = Cat(plain(x), PlainEach[c])
    BY <1>1, <2>1, EachAppend
  <2>5. esc(x) \in Seq(Char) /\ EscapedOf[c] \in Seq(Char) /\ plain(x) \in Seq(Char)
    BY <1>1, <2>1, EachType DEF Makes
  <2>6. Run(b, Cat(esc(x), EscapedOf[c])) = Run(Run(b, esc(x)), EscapedOf[c])
    BY <2>5, FoldConcat
  <2> HIDE DEF esc, plain, y
  <2>7. CASE HasControl(x)
    <3>1. Failed(Run(Run(b, esc(x)), EscapedOf[c]))
      BY <2>3, <2>5, <2>7, RunFailed
    <3> QED BY <2>1, <2>2, <2>4, <2>6, <2>7, <3>1 DEF S, y
  <2>8. CASE ~HasControl(x)
    <3>1. Run(b, esc(y)) = Run(Inside(T, plain(x)), EscapedOf[c])
      BY <2>3, <2>4, <2>6, <2>8
    <3>2. IF c = Control THEN Failed(Run(Inside(T, plain(x)), EscapedOf[c]))
          ELSE Run(Inside(T, plain(x)), EscapedOf[c]) = Inside(T, Cat(plain(x), PlainEach[c]))
      BY <2>5, RunChar
    <3> QED BY <2>1, <2>2, <2>4, <2>8, <3>1, <3>2 DEF S, y
  <2> QED BY <2>7, <2>8
<1> HIDE DEF S
<1>4. S \in SUBSET Seq(Char)
  BY DEF S
<1>5. s \in S
  BY <1>2, <1>3, <1>4, AllSequences
<1>6. Esc(s) = esc(s) /\ Plain(s) = plain(s)
  BY EscIs, PlainIs
<1> QED BY <1>5, <1>6 DEF S

(* A literal is what esc makes of a text, between quotes.                  *)
LEMMA LiteralIs ==
  ASSUME NEW s \in Seq(Char)
  PROVE  /\ Esc(s) \in Seq(Char) /\ Plain(s) \in Seq(Char) /\ Literal(s) \in Seq(Char)
         /\ Single(Quote) \in Seq(Char)
         /\ Literal(s) = Cat(Cat(Single(Quote), Esc(s)), Single(Quote))
<1>1. Esc(s) \in Seq(Char) /\ Plain(s) \in Seq(Char)
  BY EscIs, PlainIs, EscapedType, EachType
<1>2. Single(Quote) \in Seq(Char)
  BY Replacements
<1>3. Literal(s) = Cat(Cat(Single(Quote), Esc(s)), Single(Quote))
  BY DEF Literal, Cat, Single
<1>4. Literal(s) \in Seq(Char)
  BY <1>1, <1>2, <1>3, CatFacts
<1> QED BY <1>1, <1>2, <1>3, <1>4

(* ... of a literal ...                                                    *)
LEMMA RunLiteral ==
  ASSUME NEW T \in Texts, NEW s \in Seq(Char)
  PROVE  IF HasControl(s) THEN Failed(Run(Out(T), Literal(s)))
                          ELSE Run(Out(T), Literal(s)) = Out(Append(T, Plain(s)))
<1> DEFINE q == Single(Quote)
           e == Esc(s)
           p == Plain(s)
           qe == Cat(q, e)
<1>1. q \in Seq(Char) /\ e \in Seq(Char) /\ p \in Seq(Char) /\ Literal(s) = Cat(qe, q)
  BY LiteralIs
<1>2. qe \in Seq(Char)
  BY <1>1, CatFacts
<1>3. \A b : Run(b, q) = Reads(b, Quote)
  BY Replacements, RunShort
<1>4. IF HasControl(s) THEN Failed(Run(Inside(T, <<>>), e))
                       ELSE Run(Inside(T, <<>>), e) = Inside(T, p)
  BY RunText
<1>5. Reads(Inside(T, p), Quote) = Out(Append(T, p))
  BY <1>1, Replacements, ReadsInside
<1> HIDE DEF q, e, p
<1>6. Run(Out(T), qe) = Run(Run(Out(T), q), e)
  BY <1>1, FoldConcat
<1> HIDE DEF qe
<1>7. Run(Out(T), Cat(qe, q)) = Run(Run(Out(T), qe), q)
  BY <1>1, <1>2, FoldConcat
<1>8. Run(Out(T), q) = Inside(T, <<>>)
  BY <1>3, ReadsOutside
<1>9. CASE HasControl(s)
  <2>1. Failed(Run(Out(T), qe))
    BY <1>4, <1>6, <1>8, <1>9
  <2>2. Failed(Run(Run(Out(T), qe), q))
    BY <1>1, <2>1, RunFailed
  <2> QED BY <1>1, <1>7, <1>9, <2>2
<1>10. CASE ~HasControl(s)
  <2>1. Run(Out(T), qe) = Inside(T, p)
    BY <1>4, <1>6, <1>8, <1>10
  <2> QED BY <1>1, <1>3, <1>5, <1>7, <1>10, <2>1 DEF p
<1> QED BY <1>9, <1>10

(* ... and of one literal after the other.                                 *)
LiteralOf == [s \in Seq(Char) |-> Literal(s)]

(* The texts of w as they are read back.                                   *)
Plains(w) == [i \in 1..Len(w) |-> Plain(w[i])]
(* Some text of w holds a control character that esc leaves in.            *)
AnyControl(w) == \E i \in 1..Len(w) : HasControl(w[i])

(* Reading one literal after the other gives every text back, or an error  *)
(* if one has such a character.                                            *)
LEMMA RunFields ==
  ASSUME NEW w \in Texts
  PROVE  /\ Plains(w) \in Texts
         /\ IF AnyControl(w) THEN Failed(Run(Out(<<>>), ByEach(LiteralOf, w)))
            ELSE Run(Out(<<>>), ByEach(LiteralOf, w)) = Out(Plains(w))
<1> DEFINE b == Out(<<>>)
           all(x) == ByEach(LiteralOf, x)
           S == {x \in Texts : /\ Plains(x) \in Texts
                               /\ IF AnyControl(x) THEN Failed(Run(b, all(x)))
                                  ELSE Run(b, all(x)) = Out(Plains(x))}
<1>1. Makes(LiteralOf, Seq(Char), Char)
  <2>1. \A s \in Seq(Char) : Literal(s) \in Seq(Char)
    BY LiteralIs
  <2> QED BY <2>1 DEF Makes, LiteralOf
<1>2. <<>> \in S
  <2>1. <<>> \in Texts
    BY DEF Texts
  <2>2. ~AnyControl(<<>>) /\ Plains(<<>>) = <<>>
    BY DEF AnyControl, Plains
  <2>3. all(<<>>) = <<>> /\ Run(b, <<>>) = b
    BY EachEmpty, FoldEmpty
  <2> QED BY <2>1, <2>2, <2>3
<1>3. ASSUME NEW x \in S, NEW s \in Seq(Char) PROVE Append(x, s) \in S
  <2> DEFINE y == Append(x, s)
             px == Plains(x)
             ps == Plain(s)
             ls == Literal(s)
  <2>1. x \in Texts /\ px \in Texts
    OBVIOUS
  <2>2. /\ AnyControl(x) => Failed(Run(b, all(x)))
        /\ ~AnyControl(x) => Run(b, all(x)) = Out(px)
    OBVIOUS
  <2> HIDE DEF S, b
  <2>3. ps \in Seq(Char) /\ ls \in Seq(Char) /\ LiteralOf[s] = ls
    BY LiteralIs DEF LiteralOf
  <2>4. /\ y \in Texts /\ Len(x) \in Nat /\ Len(y) = Len(x) + 1 /\ y[Len(x) + 1] = s
        /\ \A i \in 1..Len(x) : y[i] = x[i]
    BY <2>1, LenProperties, AppendProperties DEF Texts
  <2>5. all(y) = Cat(all(x), ls)
    BY <1>1, <2>1, <2>3, EachAppend DEF Texts
  <2>6. all(x) \in Seq(Char)
    BY <1>1, <2>1, EachType DEF Texts
  <2> HIDE DEF y, all
  <2>7. AnyControl(y) <=> AnyControl(x) \/ HasControl(s)
    <3>1. Len(x) + 1 \in 1..Len(y) /\ \A i \in 1..Len(x) : i \in 1..Len(y)
      BY <2>4
    <3>2. \A i \in 1..Len(y) : i \in 1..Len(x) \/ i = Len(x) + 1
      BY <2>4
    <3> QED BY <2>4, <3>1, <3>2 DEF AnyControl
  <2>8. Plains(y) = Append(px, ps) /\ Plains(y) \in Texts
    <3> DEFINE py == Plains(y)
               z == Append(px, ps)
    <3>1. \A i \in 1..Len(y) : py[i] = Plain(y[i])
      BY DEF Plains
    <3>2. \A i \in 1..Len(x) : px[i] = Plain(x[i])
      BY DEF Plains
    <3>3. Len(px) = Len(x) /\ DOMAIN py = 1..Len(y) /\ py = [i \in 1..Len(y) |-> py[i]]
      BY <2>1, <2>4, LenProperties DEF Plains, Texts
    <3> HIDE DEF px, py, ps
    <3>4. /\ z \in Texts /\ Len(z) = Len(px) + 1 /\ z[Len(px) + 1] = ps
          /\ \A i \in 1..Len(px) : z[i] = px[i]
      BY <2>1, <2>3, LenProperties, AppendProperties DEF Texts
    <3> HIDE DEF z
    <3>5. \A i \in 1..Len(y) : py[i] = z[i]
      <4>1. \A i \in 1..Len(y) : i \in 1..Len(x) \/ i = Len(x) + 1
        BY <2>4
      <4> QED BY <2>4, <3>1, <3>2, <3>3, <3>4, <4>1 DEF ps
    <3>6. z = [i \in 1..Len(y) |-> z[i]]
      BY <2>4, <3>3, <3>4, LenProperties DEF Texts
    <3>7. py = z
      BY <3>3, <3>5, <3>6
    <3> QED BY <3>4, <3>7 DEF py, z
  <2>9. Run(b, Cat(all(x), ls)) = Run(Run(b, all(x)), ls)
    BY <2>3, <2>6, FoldConcat
  <2>10. CASE AnyControl(x)
    <3>1. Failed(Run(Run(b, all(x)), ls))
      BY <2>2, <2>3, <2>10, RunFailed
    <3> QED BY <2>4, <2>5, <2>7, <2>8, <2>9, <2>10, <3>1 DEF S, y
  <2>11. CASE ~AnyControl(x)
    <3>1. IF HasControl(s) THEN Failed(Run(Out(px), ls)) ELSE Run(Out(px), ls) = Out(Append(px, ps))
      BY <2>1, RunLiteral
    <3> QED BY <2>2, <2>4, <2>5, <2>7, <2>8, <2>9, <2>11, <3>1 DEF S, y
  <2> QED BY <2>10, <2>11
<1> HIDE DEF S
<1>4. S \in SUBSET Texts
  BY DEF S
<1>5. w \in S
  BY <1>2, <1>3, <1>4, AllSequences DEF Texts
<1> QED BY <1>5 DEF S

-------------------------------------------------------------------------------
(* The claim id and the findings are texts.                                *)
Entry == [agent : Seq(Char), text : Seq(Char)]

(* The inductive invariant of Payload: a claim id of characters, and       *)
(* entries of agents and texts.                                            *)
PayloadTypes == claimId \in Seq(Char) /\ findings \in Seq(Entry)

(* Every reachable state.                                                  *)
LEMMA PayloadTyped == PayloadSpec => []PayloadTypes
<1>1. PayloadInit => PayloadTypes
  BY DEF PayloadInit, PayloadTypes
<1>2. PayloadTypes /\ [PayloadNext]_<<claimId, findings>> => PayloadTypes'
  <2> SUFFICES ASSUME PayloadTypes, [PayloadNext]_<<claimId, findings>> PROVE PayloadTypes'
    OBVIOUS
  <2>1. CASE GrowClaim
    BY <2>1 DEF GrowClaim, PayloadTypes
  <2>2. CASE Report
    <3>1. PICK a \in AgentNames : findings' = Append(findings, [agent |-> a, text |-> <<>>])
      BY <2>2 DEF Report
    <3>2. [agent |-> a, text |-> <<>>] \in Entry
      BY PayloadAssumption, Replacements DEF PayloadAssumption, Entry
    <3>3. Append(findings, [agent |-> a, text |-> <<>>]) \in Seq(Entry)
      <4> DEFINE e == [agent |-> a, text |-> <<>>]
      <4>1. e \in Entry
        BY <3>2
      <4> HIDE DEF e
      <4>2. Append(findings, e) \in Seq(Entry)
        BY <4>1 DEF PayloadTypes
      <4> QED BY <4>2 DEF e
    <3> QED BY <2>2, <3>1, <3>3 DEF Report, PayloadTypes
  <2>3. CASE GrowResult
    <3> DEFINE n == Len(findings)
    <3>1. PICK ch \in Char :
            findings' = [findings EXCEPT ![n].text = Append(@, ch)]
      BY <2>3 DEF GrowResult
    <3>2. n \in Nat /\ n \in 1..n /\ findings \in [1..n -> Entry]
      BY <2>3, LenProperties, EmptySeq DEF GrowResult, PayloadTypes
    <3> DEFINE e == [findings[n] EXCEPT !.text = Append(@, ch)]
    <3>3. findings[n] \in Entry
      BY <3>2
    <3>4. e \in Entry
      <4> DEFINE last == findings[n]
      <4>1. last.text \in Seq(Char) /\ last \in Entry
        BY <3>3 DEF Entry
      <4> HIDE DEF last
      <4>2. Append(last.text, ch) \in Seq(Char)
        BY <4>1
      <4>3. [last EXCEPT !.text = Append(last.text, ch)] \in Entry
        BY <4>1, <4>2 DEF Entry
      <4> QED BY <4>3 DEF last
    <3>5. findings' = [findings EXCEPT ![n] = e]
      BY <3>1
    <3> HIDE DEF e, n
    <3>6. findings' \in [1..n -> Entry]
      BY <3>2, <3>4, <3>5
    <3>7. findings' \in Seq(Entry)
      BY <3>2, <3>6, IsASeq
    <3> QED BY <2>3, <3>7 DEF GrowResult, PayloadTypes
  <2>4. CASE UNCHANGED <<claimId, findings>>
    BY <2>4 DEF PayloadTypes
  <2> QED BY <2>1, <2>2, <2>3, <2>4 DEF PayloadNext
<1> QED BY <1>1, <1>2, PTL DEF PayloadSpec

(* So are the fields, the claim id first.                                  *)
LEMMA WrittenIs ==
  ASSUME PayloadTypes
  PROVE  /\ Written \in Texts /\ Len(Written) \in Nat /\ 1 \in 1..Len(Written)
         /\ Written[1] = claimId
         /\ Row = ByEach(LiteralOf, Written)
<1> DEFINE pairOf == [e \in Entry |-> <<e.agent, e.text>>]
           rest == ByEach(pairOf, findings)
<1>1. Makes(pairOf, Entry, Seq(Char))
  <2>1. ASSUME NEW e \in Entry PROVE <<e.agent, e.text>> \in Seq(Seq(Char))
    <3>1. e.agent \in Seq(Char) /\ e.text \in Seq(Char)
      BY DEF Entry
    <3> DEFINE a == e.agent
               t == e.text
               T == Seq(Char)
    <3>2. a \in T /\ t \in T
      BY <3>1
    <3> HIDE DEF a, t, T
    <3>3. <<a, t>> \in Seq(T)
      BY <3>2
    <3> QED BY <3>3 DEF a, t, T
  <2> QED BY <2>1 DEF Makes
<1>2. findings \in Seq(Entry) /\ claimId \in Seq(Char)
  BY DEF PayloadTypes
<1>3. FlattenSeq([i \in 1..Len(findings) |-> <<findings[i].agent, findings[i].text>>]) = rest
  <2>1. \A i \in 1..Len(findings) : findings[i] \in Entry
    BY <1>2, LenProperties, ElementOfSeq
  <2>2. [i \in 1..Len(findings) |-> <<findings[i].agent, findings[i].text>>]
          = [i \in 1..Len(findings) |-> pairOf[findings[i]]]
    BY <2>1
  <2> QED BY <2>2 DEF ByEach
<1> HIDE DEF pairOf
<1>4. rest \in Texts
  BY <1>1, <1>2, EachType DEF Texts
<1> HIDE DEF rest
<1>5. Written = <<claimId>> \o rest
  BY <1>3 DEF Written, Fields
<1>6. Written \in Texts /\ Len(Written) \in Nat /\ 1 \in 1..Len(Written) /\ Written[1] = claimId
  <2> DEFINE T == Seq(Char)
  <2>1. claimId \in T /\ rest \in Seq(T)
    BY <1>2, <1>4 DEF Texts
  <2> HIDE DEF T
  <2>2. <<claimId>> \in Seq(T)
    BY <2>1
  <2>3. Written = Cat(<<claimId>>, rest)
    BY <1>5 DEF Cat
  <2>4. Cat(<<claimId>>, rest) \in Seq(T)
    BY <2>1, <2>2 DEF Cat
  <2> QED BY <2>1, <2>3, <2>4, CatHead DEF T, Texts
<1>7. Row = ByEach(LiteralOf, Written)
  <2>1. Row = FlattenSeq([i \in 1..Len(Written) |-> Literal(Written[i])])
    BY DEF Row, PayloadOf, Written
  <2>2. \A i \in 1..Len(Written) : Written[i] \in Seq(Char)
    <3> DEFINE T == Seq(Char)
    <3> HIDE DEF T
    <3>1. Written \in Seq(T)
      BY <1>6 DEF T, Texts
    <3>2. \A i \in 1..Len(Written) : Written[i] \in T
      BY <3>1, LenProperties, ElementOfSeq
    <3> QED BY <3>2 DEF T
  <2> DEFINE w == Written
  <2>3. [i \in 1..Len(w) |-> Literal(w[i])] = [i \in 1..Len(w) |-> LiteralOf[w[i]]]
    <3> HIDE DEF w
    <3>1. \A i \in 1..Len(w) : w[i] \in Seq(Char)
      BY <2>2 DEF w
    <3>2. \A i \in 1..Len(w) : LiteralOf[w[i]] = Literal(w[i])
      BY <3>1 DEF LiteralOf
    <3> QED BY <3>2
  <2> QED BY <2>1, <2>3 DEF ByEach
<1> QED BY <1>6, <1>7

(* What json.loads makes of the row.                                       *)
LEMMA RowParsed ==
  ASSUME PayloadTypes
  PROVE  IF AnyControl(Written) THEN Parsed(Row).mode = "error"
         ELSE Parsed(Row) = [mode |-> "out", texts |-> Plains(Written)]
<1>1. Parsed(Row) = Run(Out(<<>>), ByEach(LiteralOf, Written))
  BY WrittenIs DEF Parsed, Run, Out
<1>2. IF AnyControl(Written) THEN Failed(Parsed(Row)) ELSE Parsed(Row) = Out(Plains(Written))
  BY <1>1, WrittenIs, RunFields
<1> QED BY <1>2 DEF Failed, Out

(* payload and json.loads: whatever the claim id, the agents' names and    *)
(* their results are, the orchestrator reads back every field the barrier  *)
(* wrote, as it wrote it but for carriage returns and tabs.                *)
THEOREM RowRoundTrips == PayloadSpec => []RoundTrip
<1>1. PayloadTypes => RoundTrip
  BY RowParsed DEF RoundTrip, AnyControl, Plains
<1> QED BY <1>1, PayloadTyped, PTL

(* ... and the claim id it takes from the row is the row's own, or         *)
(* "UNKNOWN" when json.loads fails (_claim_id_of).                         *)
THEOREM ClaimIdComesBack == PayloadSpec => []ClaimIdIsOwnOrUnknown
<1>1. ASSUME PayloadTypes PROVE ClaimIdIsOwnOrUnknown
  <2>1. CASE AnyControl(Written)
    <3>1. ~Parses(Row)
      BY <1>1, <2>1, RowParsed DEF Parses
    <3> QED BY <3>1 DEF ClaimIdIsOwnOrUnknown, ClaimIdOf
  <2>2. CASE ~AnyControl(Written)
    <3>1. Parsed(Row) = [mode |-> "out", texts |-> Plains(Written)]
      BY <1>1, <2>2, RowParsed
    <3>2. Plains(Written)[1] = Plain(claimId)
      <4>1. 1 \in 1..Len(Written) /\ Written[1] = claimId
        BY <1>1, WrittenIs
      <4> QED BY <4>1 DEF Plains
    <3>3. ClaimIdOf(Row) \in {Plain(claimId), NoClaim}
      BY <3>1, <3>2 DEF ClaimIdOf
    <3> QED BY <3>3 DEF ClaimIdIsOwnOrUnknown
  <2> QED BY <2>1, <2>2
<1> QED BY <1>1, PayloadTyped, PTL

(* A row parses exactly when none of its texts holds a control character   *)
(* that esc leaves in.                                                     *)
OnlyControlBreaks ==
  Parses(Row) <=> \A i \in 1..Len(Written) : ~HasControl(Written[i])

(* esc leaves every control character but newline, return and tab as it is,*)
(* and json.loads takes none: a row is lost to its claim ("UNKNOWN")       *)
(* exactly when one of its texts holds such a character.                   *)
THEOREM OnlyControlBreaksRows == PayloadSpec => []OnlyControlBreaks
<1>1. PayloadTypes => OnlyControlBreaks
  BY RowParsed DEF OnlyControlBreaks, Parses, AnyControl
<1> QED BY <1>1, PayloadTyped, PTL

-------------------------------------------------------------------------------
(* Where a token is first, and last.                                       *)
Places(s, t) == {i \in 1..Len(s) : s[i] = t}

(* They are places of it, and between them are all the others.             *)
LEMMA FirstAndLast ==
  ASSUME NEW s \in Seq(Token), NEW t, Contains(s, t)
  PROVE  /\ Min(Places(s, t)) \in 1..Len(s) /\ s[Min(Places(s, t))] = t
         /\ Max(Places(s, t)) \in 1..Len(s) /\ s[Max(Places(s, t))] = t
         /\ \A i \in 1..Len(s) : s[i] = t => Min(Places(s, t)) <= i /\ i <= Max(Places(s, t))
<1> DEFINE P == Places(s, t)
<1>1. Len(s) \in Nat /\ P \in SUBSET (1..Len(s)) /\ P # {}
  BY LenProperties DEF Places, Contains
<1>2. \A i : i \in P <=> i \in 1..Len(s) /\ s[i] = t
  BY DEF Places
<1> HIDE DEF P
<1>3. Min(P) \in P /\ \A y \in P : Min(P) <= y
  BY <1>1, MinIs
<1>4. Max(P) \in P /\ \A y \in P : y <= Max(P)
  BY <1>1, MaxIs
<1> QED BY <1>2, <1>3, <1>4 DEF P

(* text.index and text.rindex.                                             *)
LEMMA SliceIs ==
  ASSUME NEW s \in Seq(Token), Contains(s, "{"), Contains(s, "}")
  PROVE  Slice(s) = SubSeq(s, Min(Places(s, "{")), Max(Places(s, "}")))
<1>1. Places(s, "{") # {} /\ Places(s, "}") # {}
  BY DEF Contains, Places
<1> QED BY <1>1 DEF Slice, SelectInSeq, SelectLastInSeq, Places

(* A part of a sequence, and a part of that.                               *)
LEMMA Part ==
  ASSUME NEW T, NEW s \in Seq(T), NEW lo \in 1..Len(s), NEW hi \in 1..Len(s), lo <= hi
  PROVE  /\ SubSeq(s, lo, hi) \in Seq(T) /\ Len(SubSeq(s, lo, hi)) = hi - lo + 1
         /\ \A i \in 1..(hi - lo + 1) :
              lo + i - 1 \in 1..Len(s) /\ SubSeq(s, lo, hi)[i] = s[lo + i - 1]
<1>1. Len(s) \in Nat /\ lo \in Nat /\ hi \in Nat /\ lo \in 1..(Len(s) + 1)
  BY LenProperties
<1>2. SubSeq(s, lo, hi) \in Seq(T)
  BY <1>1
<1>3. Len(SubSeq(s, lo, hi)) = hi - lo + 1
  BY <1>1
<1>4. ASSUME NEW i \in 1..(hi - lo + 1)
      PROVE  lo + i - 1 \in 1..Len(s) /\ SubSeq(s, lo, hi)[i] = s[lo + i - 1]
  BY <1>1
<1> QED BY <1>2, <1>3, <1>4

(* A part of a part is a part of the whole.                                *)
LEMMA PartOfPart ==
  ASSUME NEW T, NEW s \in Seq(T), NEW lo \in 1..Len(s), NEW hi \in 1..Len(s), lo <= hi,
         NEW p \in 1..(hi - lo + 1), NEW q \in 1..(hi - lo + 1), p <= q
  PROVE  SubSeq(SubSeq(s, lo, hi), p, q) = SubSeq(s, lo + p - 1, lo + q - 1)
<1> DEFINE t == SubSeq(s, lo, hi)
           x == SubSeq(t, p, q)
           y == SubSeq(s, lo + p - 1, lo + q - 1)
<1>1. /\ t \in Seq(T) /\ Len(t) = hi - lo + 1
      /\ \A i \in 1..(hi - lo + 1) : t[i] = s[lo + i - 1]
  BY Part
<1>2. Len(s) \in Nat
  BY LenProperties
<1>3. lo + p - 1 \in 1..Len(s) /\ lo + q - 1 \in 1..Len(s) /\ lo + p - 1 <= lo + q - 1
  BY <1>2
<1>4. /\ y \in Seq(T) /\ Len(y) = (lo + q - 1) - (lo + p - 1) + 1
      /\ \A i \in 1..((lo + q - 1) - (lo + p - 1) + 1) : y[i] = s[(lo + p - 1) + i - 1]
  <2> DEFINE a == lo + p - 1
             b == lo + q - 1
  <2>1. a \in 1..Len(s) /\ b \in 1..Len(s) /\ a <= b
    BY <1>3
  <2> HIDE DEF a, b
  <2>2. /\ SubSeq(s, a, b) \in Seq(T) /\ Len(SubSeq(s, a, b)) = b - a + 1
        /\ \A i \in 1..(b - a + 1) : SubSeq(s, a, b)[i] = s[a + i - 1]
    BY <2>1, Part
  <2> QED BY <2>2 DEF a, b
<1> HIDE DEF t
<1>5. p \in 1..Len(t) /\ q \in 1..Len(t)
  BY <1>1
<1>6. /\ x \in Seq(T) /\ Len(x) = q - p + 1
      /\ \A i \in 1..(q - p + 1) : x[i] = t[p + i - 1]
  BY <1>1, <1>5, Part
<1> HIDE DEF x, y
<1>7. Len(x) = Len(y)
  BY <1>4, <1>6
<1>8. ASSUME NEW i \in 1..Len(x) PROVE x[i] = y[i]
  <2>1. i \in 1..(q - p + 1) /\ i \in 1..((lo + q - 1) - (lo + p - 1) + 1)
    BY <1>6
  <2>2. p + i - 1 \in 1..(hi - lo + 1)
    BY <1>2, <2>1
  <2>3. x[i] = s[lo + (p + i - 1) - 1]
    BY <1>1, <1>6, <2>1, <2>2
  <2>4. lo + (p + i - 1) - 1 = (lo + p - 1) + i - 1
    BY <1>2, <2>1
  <2> QED BY <1>4, <2>1, <2>3, <2>4
<1>9. x = y
  BY <1>4, <1>6, <1>7, <1>8, SeqEqual
<1> QED BY <1>9 DEF x, y, t

(* str.strip: what is between the first and the last token that is no line *)
(* end, those two included.                                                *)
LEMMA StripIs ==
  ASSUME NEW s \in Seq(Token)
  PROVE  \/ Strip(s) = <<>> /\ \A i \in 1..Len(s) : s[i] = "LF"
         \/ \E lo, hi \in 1..Len(s) :
              /\ lo <= hi /\ Strip(s) = SubSeq(s, lo, hi)
              /\ s[lo] # "LF"
              /\ \A i \in 1..Len(s) : s[i] # "LF" => lo <= i /\ i <= hi
<1> DEFINE solid == {i \in 1..Len(s) : s[i] # "LF"}
<1>1. CASE solid = {}
  BY <1>1 DEF Strip
<1>2. CASE solid # {}
  <2>1. Len(s) \in Nat /\ solid \in SUBSET (1..Len(s)) /\ solid \in SUBSET Nat
    BY LenProperties
  <2> DEFINE lo == CHOOSE i \in solid : \A j \in solid : i <= j
             hi == CHOOSE i \in solid : \A j \in solid : j <= i
  <2>2. Strip(s) = SubSeq(s, lo, hi)
    BY <1>2 DEF Strip
  <2>3. lo \in solid /\ \A j \in solid : lo <= j
    <3> HIDE DEF solid
    <3>1. \E i \in solid : \A j \in solid : i <= j
      BY <1>2, <2>1, Least
    <3> QED BY <3>1
  <2>4. hi \in solid /\ \A j \in solid : j <= hi
    <3> HIDE DEF solid
    <3>1. \E i \in solid : \A j \in solid : j <= i
      BY <1>2, <2>1, MaxIs
    <3> QED BY <3>1
  <2> HIDE DEF lo, hi
  <2>5. lo \in 1..Len(s) /\ hi \in 1..Len(s) /\ lo <= hi /\ s[lo] # "LF"
    BY <2>3, <2>4
  <2>6. \A i \in 1..Len(s) : s[i] # "LF" => lo <= i /\ i <= hi
    BY <2>3, <2>4
  <2> QED BY <2>2, <2>5, <2>6
<1> QED BY <1>1, <1>2

(* json.loads takes nothing for an object.                                 *)
LEMMA EmptyNoJson == ~IsJson(<<>>)
<1>1. Loads(<<>>) = <<>>
  <2> DEFINE m == [i \in 1..Len(<<>>) |-> IF <<>>[i] = "LF" THEN <<>> ELSE <<<<>>[i]>>]
  <2>1. m = <<>>
    OBVIOUS
  <2>2. Loads(<<>>) = FlattenSeq(m)
    BY DEF Loads
  <2> HIDE DEF m
  <2>3. Len(m) = 0
    BY <2>1
  <2> QED BY <2>1, <2>2, <2>3 DEF FlattenSeq
<1>2. <<>> \notin Object
  <2> SUFFICES ASSUME <<>> \in Object PROVE FALSE
    OBVIOUS
  <2>1. CASE <<>> = <<"{", "}">>
    BY <2>1
  <2>2. ASSUME NEW m, <<>> = <<"{", m, "}">> PROVE FALSE
    BY <2>2
  <2>3. ASSUME NEW k, <<>> = <<"{", k, "{", "}", "}">> PROVE FALSE
    BY <2>3
  <2>4. ASSUME NEW k, NEW m, <<>> = <<"{", k, "{", m, "}", "}">> PROVE FALSE
    BY <2>4
  <2> QED BY <2>1, <2>2, <2>3, <2>4 DEF Object
<1> QED BY <1>1, <1>2 DEF IsJson

(* The decision of an object is empty only when it says so.                *)
LEMMA OnlyBlankIsEmpty ==
  ASSUME NEW s, NEW r \in ObjectsIn(s), DecisionOf(s, r) = <<>>
  PROVE  IsBlank(s, r)
<1> DEFINE o == Loads(SubSeq(s, r[1], r[2]))
<1>1. o \in Object
  BY DEF ObjectsIn, IsJson
<1>2. Str(o[2]) = <<>>
  BY DEF DecisionOf, Get
<1> HIDE DEF o
<1>3. ASSUME NEW m, m # "decision=blank" PROVE Str(m) # <<>>
  <2>1. Len(Str(m)) = 1
    BY <1>3 DEF Str, Unknown
  <2> QED BY <2>1
<1>4. o[2] = "decision=blank"
  BY <1>2, <1>3
<1>5. o = <<"{", "decision=blank", "}">>
  <2>1. CASE o = <<"{", "}">>
    BY <1>4, <2>1
  <2>2. ASSUME NEW m \in Members, o = <<"{", m, "}">>
        PROVE  o = <<"{", "decision=blank", "}">>
    BY <1>4, <2>2
  <2>3. ASSUME NEW k \in Keys, o = <<"{", k, "{", "}", "}">> PROVE FALSE
    BY <1>4, <2>3 DEF Keys
  <2>4. ASSUME NEW k \in Keys, NEW m \in Members, o = <<"{", k, "{", m, "}", "}">>
        PROVE  FALSE
    BY <1>4, <2>4 DEF Keys
  <2> QED BY <1>1, <2>1, <2>2, <2>3, <2>4 DEF Object
<1> QED BY <1>5 DEF o, IsBlank

(* Without an object, the decision is the start of the first line.         *)
LEMMA FallbackIs ==
  ASSUME NEW s \in Seq(Token), Len(s) >= 1, s[1] # "LF"
  PROVE  /\ Fallback(s) # <<>>
         /\ IsPrefix(Fallback(s), s)
         /\ ~Contains(Fallback(s), "LF")
<1> DEFINE line == FirstLine(s)
<1>1. Len(s) \in Nat /\ 1 \in 1..Len(s) /\ s # <<>>
  BY LenProperties, EmptySeq
<1>2. \E m \in 1..Len(s) : line = SubSeq(s, 1, m) /\ \A i \in 1..m : s[i] # "LF"
  <2>1. CASE Contains(s, "LF")
    <3> DEFINE P == Places(s, "LF")
               k == Min(P)
    <3>1. P # {}
      BY <2>1 DEF Contains, Places
    <3>2. line = SubSeq(s, 1, k - 1)
      BY <2>1, <3>1 DEF FirstLine, SelectInSeq, Places
    <3>3. k \in 1..Len(s) /\ s[k] = "LF" /\ \A i \in 1..Len(s) : s[i] = "LF" => k <= i
      BY <2>1, FirstAndLast
    <3> HIDE DEF k, P
    <3>4. k # 1
      BY <3>3
    <3>5. k - 1 \in 1..Len(s)
      BY <1>1, <3>3, <3>4
    <3>6. \A i \in 1..(k - 1) : s[i] # "LF"
      BY <1>1, <3>3
    <3> QED BY <3>2, <3>5, <3>6
  <2>2. CASE ~Contains(s, "LF")
    <3>1. line = s /\ s = SubSeq(s, 1, Len(s))
      BY <2>2, WholePrefix DEF FirstLine
    <3>2. Len(s) \in 1..Len(s)
      BY <1>1
    <3> QED BY <2>2, <3>1, <3>2 DEF Contains
  <2> QED BY <2>1, <2>2
<1>3. PICK m \in 1..Len(s) : line = SubSeq(s, 1, m) /\ \A i \in 1..m : s[i] # "LF"
  BY <1>2
<1>4. m \in Nat /\ 1 <= m /\ m <= Len(s)
  BY <1>1
<1>5. line \in Seq(Token) /\ Len(line) = m
  <2>1. SubSeq(s, 1, m) \in Seq(Token) /\ Len(SubSeq(s, 1, m)) = m - 1 + 1
    BY <1>1, <1>4, Part
  <2> QED BY <1>3, <1>4, <2>1
<1> DEFINE d == IF m < MaxDecision THEN m ELSE MaxDecision
<1>6. d \in 1..m
  BY <1>4, AnswerAssumption DEF AnswerAssumption
<1>7. Fallback(s) = SubSeq(line, 1, d)
  <2> HIDE DEF line
  <2>1. Fallback(s) = SubSeq(FirstLine(s), 1, IF Len(FirstLine(s)) < MaxDecision
                                               THEN Len(FirstLine(s)) ELSE MaxDecision)
    BY <1>1 DEF Fallback
  <2> QED BY <1>5, <2>1 DEF line
<1> HIDE DEF line, d
<1>8. Fallback(s) = SubSeq(s, 1, d)
  <2>1. SubSeq(SubSeq(s, 1, m), 1, d) = SubSeq(s, 1 + 1 - 1, 1 + d - 1)
    <3>1. 1 \in 1..(m - 1 + 1) /\ d \in 1..(m - 1 + 1) /\ 1 <= d
      BY <1>4, <1>6
    <3> QED BY <1>1, <1>4, <3>1, PartOfPart
  <2>2. 1 + 1 - 1 = 1 /\ 1 + d - 1 = d
    BY <1>6
  <2> QED BY <1>3, <1>7, <2>1, <2>2
<1> DEFINE r == SubSeq(s, 1, d)
<1>9. /\ r \in Seq(Token) /\ Len(r) = d /\ \A i \in 1..d : r[i] = s[i]
  <2>1. d \in 1..Len(s) /\ d - 1 + 1 = d /\ 1 <= d
    BY <1>1, <1>4, <1>6
  <2>2. /\ r \in Seq(Token) /\ Len(r) = d - 1 + 1
        /\ \A i \in 1..(d - 1 + 1) : r[i] = s[1 + i - 1]
    BY <1>1, <2>1, Part
  <2>3. \A i \in 1..d : 1 + i - 1 = i
    BY <2>1
  <2> QED BY <2>1, <2>2, <2>3
<1>10. r # <<>>
  BY <1>6, <1>9, EmptySeq
<1>11. IsPrefix(r, s)
  <2>1. Len(r) <= Len(s)
    BY <1>4, <1>6, <1>9
  <2>2. SubSeq(r, 1, Len(r)) = r
    BY <1>9, WholePrefix
  <2>3. SubSeq(s, 1, Len(r)) = r
    BY <1>9
  <2> QED BY <2>1, <2>2, <2>3 DEF IsPrefix
<1>12. ~Contains(r, "LF")
  <2> HIDE DEF r
  <2>1. \A i \in 1..Len(r) : r[i] # "LF"
    BY <1>3, <1>4, <1>6, <1>9
  <2> QED BY <2>1 DEF Contains
<1> QED BY <1>8, <1>10, <1>11, <1>12

(* For every answer, the decision is that of an object in it, or a         *)
(* beginning of its text; it is empty only by a blank one.                 *)
LEMMA DecisionIs ==
  ASSUME answer \in Seq(Token)
  PROVE  DecisionIsAccountedFor
<1> DEFINE text == Strip(answer)
           decision == SplitDecision(answer)
<1>1. CASE text = <<>> /\ \A i \in 1..Len(answer) : answer[i] = "LF"
  <2>1. ObjectsIn(answer) = {}
    <3> SUFFICES ASSUME NEW r \in ObjectsIn(answer) PROVE FALSE
      OBVIOUS
    <3>1. r[1] \in 1..Len(answer) /\ answer[r[1]] = "{"
      BY DEF ObjectsIn
    <3> QED BY <1>1, <3>1
  <2>2. decision = Unknown
    <3>1. ~Contains(text, "{")
      BY <1>1 DEF Contains
    <3> HIDE DEF text
    <3>2. SplitDecision(answer) = Fallback(text)
      BY <3>1 DEF SplitDecision, text
    <3> QED BY <1>1, <3>2 DEF Fallback
  <2>3. decision # <<>>
    <3>1. Len(Unknown) = 1
      BY DEF Unknown
    <3> QED BY <2>2, <3>1
  <2> QED BY <1>1, <2>1, <2>2, <2>3 DEF DecisionIsAccountedFor
<1>2. ASSUME NEW lo \in 1..Len(answer), NEW hi \in 1..Len(answer), lo <= hi,
             text = SubSeq(answer, lo, hi), answer[lo] # "LF",
             \A i \in 1..Len(answer) : answer[i] # "LF" => lo <= i /\ i <= hi
      PROVE  DecisionIsAccountedFor
  <2> DEFINE n == hi - lo + 1
  <2>1. Len(answer) \in Nat /\ lo \in Nat /\ hi \in Nat
    BY LenProperties
  <2>2. /\ text \in Seq(Token) /\ Len(text) = n
        /\ \A i \in 1..n : lo + i - 1 \in 1..Len(answer) /\ text[i] = answer[lo + i - 1]
    BY <1>2, Part
  <2>3. n \in Nat /\ 1 \in 1..n /\ text[1] = answer[lo]
    <3>1. n \in Nat /\ 1 \in 1..n /\ lo + 1 - 1 = lo
      BY <1>2, <2>1
    <3> QED BY <2>2, <3>1
  <2> HIDE DEF text
  <2>4. ASSUME NEW r \in ObjectsIn(answer), AmidProse(answer, r)
        PROVE  decision = DecisionOf(answer, r)
    <3>1. /\ r[1] \in 1..Len(answer) /\ r[2] \in 1..Len(answer) /\ r[1] < r[2]
          /\ answer[r[1]] = "{" /\ answer[r[2]] = "}"
          /\ IsJson(SubSeq(answer, r[1], r[2]))
      BY DEF ObjectsIn
    <3> DEFINE a == r[1]
               b == r[2]
               p == a - lo + 1
               q == b - lo + 1
    <3>2. a \in 1..Len(answer) /\ b \in 1..Len(answer) /\ a < b
      BY <3>1
    <3>3. answer[a] = "{" /\ answer[b] = "}"
      BY <3>1
    <3>4. \A i \in 1..Len(answer) :
            answer[i] = "{" \/ answer[i] = "}" => a <= i /\ i <= b
      <4>1. \A i \in 1..Len(answer) : answer[i] = "{" \/ answer[i] = "}" => i \in a..b
        BY <2>4 DEF AmidProse
      <4> HIDE DEF a, b
      <4>2. \A i \in a..b : a <= i /\ i <= b
        BY <2>1, <3>2
      <4> QED BY <4>1, <4>2
    <3> HIDE DEF a, b
    <3>5. lo <= a /\ b <= hi /\ a \in Nat /\ b \in Nat /\ a < b
      <4>1. lo <= a /\ b <= hi
        BY <1>2, <3>2, <3>3
      <4>2. a \in 1..Len(answer) /\ b \in 1..Len(answer) /\ a < b
        BY <3>2
      <4> QED BY <2>1, <4>1, <4>2
    <3>6. p \in 1..n /\ q \in 1..n /\ p <= q /\ lo + p - 1 = a /\ lo + q - 1 = b
      BY <2>1, <3>5
    <3>7. text[p] = "{" /\ text[q] = "}"
      BY <2>2, <3>1, <3>6 DEF a, b
    <3>8. Contains(text, "{") /\ Contains(text, "}")
      BY <2>2, <3>6, <3>7 DEF Contains
    <3> DEFINE f == Min(Places(text, "{"))
               l == Max(Places(text, "}"))
    <3>9. f \in 1..n /\ text[f] = "{" /\ f <= p
      BY <2>2, <3>6, <3>7, <3>8, FirstAndLast
    <3>10. l \in 1..n /\ text[l] = "}" /\ q <= l
      BY <2>2, <3>6, <3>7, <3>8, FirstAndLast
    <3> HIDE DEF f, l, n, p, q
    <3>11. n \in Nat /\ f \in 1..n /\ l \in 1..n
      <4>1. n \in Nat
        BY <2>3
      <4>2. f \in 1..n /\ l \in 1..n
        BY <3>9, <3>10
      <4> QED BY <4>1, <4>2
    <3>12. f <= p /\ q <= l
      BY <3>9, <3>10
    <3>13. p \in 1..n /\ q \in 1..n /\ lo + p - 1 = a /\ lo + q - 1 = b
      BY <3>6
    <3>14. f = p
      <4>1. lo + f - 1 \in 1..Len(answer) /\ answer[lo + f - 1] = "{"
        BY <2>2, <3>9
      <4>2. a <= lo + f - 1
        BY <3>4, <4>1
      <4> QED BY <2>1, <3>5, <3>11, <3>12, <3>13, <4>2
    <3>15. l = q
      <4>1. lo + l - 1 \in 1..Len(answer) /\ answer[lo + l - 1] = "}"
        BY <2>2, <3>10
      <4>2. lo + l - 1 <= b
        BY <3>4, <4>1
      <4> QED BY <2>1, <3>5, <3>11, <3>12, <3>13, <4>2
    <3>16. Slice(text) = SubSeq(text, p, q)
      BY <2>2, <3>8, <3>14, <3>15, SliceIs DEF f, l
    <3>17. SubSeq(text, p, q) = SubSeq(answer, a, b)
      <4>1. SubSeq(SubSeq(answer, lo, hi), p, q) = SubSeq(answer, lo + p - 1, lo + q - 1)
        BY <1>2, <3>6, PartOfPart DEF n
      <4> QED BY <1>2, <3>6, <4>1
    <3>18. IsJson(Slice(text)) /\ Loads(Slice(text)) = Loads(SubSeq(answer, r[1], r[2]))
      BY <3>1, <3>16, <3>17 DEF a, b
    <3>19. SplitDecision(answer) = Get(Loads(Slice(text)))
      BY <3>8, <3>18 DEF SplitDecision, text
    <3> QED BY <3>18, <3>19 DEF DecisionOf
  <2>5. CASE Contains(text, "{") /\ Contains(text, "}") /\ IsJson(Slice(text))
    <3> DEFINE f == Min(Places(text, "{"))
               l == Max(Places(text, "}"))
               r == <<lo + f - 1, lo + l - 1>>
    <3>1. f \in 1..n /\ text[f] = "{" /\ l \in 1..n /\ text[l] = "}"
      BY <2>2, <2>5, FirstAndLast
    <3>2. Slice(text) = SubSeq(text, f, l)
      BY <2>2, <2>5, SliceIs
    <3> HIDE DEF f, l, n
    <3>3. n \in Nat /\ f \in 1..n /\ l \in 1..n /\ f \in Nat /\ l \in Nat
      <4>1. n \in Nat
        BY <2>3
      <4>2. f \in 1..n /\ l \in 1..n
        BY <3>1
      <4> QED BY <4>1, <4>2
    <3>4. f < l
      <4>1. f # l
        BY <3>1
      <4>2. ASSUME l < f PROVE FALSE
        <5>1. SubSeq(text, f, l) = <<>>
          <6>1. Len(SubSeq(text, f, l)) = 0 /\ SubSeq(text, f, l) \in Seq(Token)
            BY <2>2, <3>3, <4>2
          <6> QED BY <6>1, EmptySeq
        <5> QED BY <2>5, <3>2, <5>1, EmptyNoJson
      <4> QED BY <3>3, <4>1, <4>2
    <3>5. SubSeq(text, f, l) = SubSeq(answer, lo + f - 1, lo + l - 1)
      <4>1. f <= l
        BY <3>3, <3>4
      <4>2. SubSeq(SubSeq(answer, lo, hi), f, l) = SubSeq(answer, lo + f - 1, lo + l - 1)
        BY <1>2, <3>3, <4>1, PartOfPart DEF n
      <4> QED BY <1>2, <4>2
    <3>6. lo + f - 1 \in 1..Len(answer) /\ answer[lo + f - 1] = "{"
      BY <2>2, <3>1
    <3>7. lo + l - 1 \in 1..Len(answer) /\ answer[lo + l - 1] = "}"
      BY <2>2, <3>1
    <3>8. lo + f - 1 < lo + l - 1
      BY <2>1, <3>3, <3>4
    <3>9. r \in ObjectsIn(answer)
      BY <2>5, <3>2, <3>5, <3>6, <3>7, <3>8 DEF ObjectsIn
    <3>10. decision = DecisionOf(answer, r)
      <4>1. SplitDecision(answer) = Get(Loads(Slice(text)))
        BY <2>5 DEF SplitDecision, text
      <4>2. Slice(text) = SubSeq(answer, r[1], r[2])
        BY <3>2, <3>5
      <4> QED BY <4>1, <4>2 DEF DecisionOf
    <3> HIDE DEF r
    <3>11. decision = <<>> => IsBlank(answer, r)
      BY <3>9, <3>10, OnlyBlankIsEmpty
    <3> QED BY <2>4, <3>9, <3>10, <3>11 DEF DecisionIsAccountedFor
  <2>6. CASE ~(Contains(text, "{") /\ Contains(text, "}") /\ IsJson(Slice(text)))
    <3>1. decision = Fallback(text)
      BY <2>6 DEF SplitDecision, text
    <3>2. /\ Fallback(text) # <<>> /\ IsPrefix(Fallback(text), text)
          /\ ~Contains(Fallback(text), "LF")
      <4>1. Len(text) >= 1 /\ text[1] # "LF"
        BY <1>2, <2>2, <2>3
      <4> QED BY <2>2, <4>1, FallbackIs
    <3> QED BY <2>4, <3>1, <3>2 DEF DecisionIsAccountedFor, text
  <2> QED BY <2>5, <2>6
<1> QED BY <1>1, <1>2, StripIs

(* _split_decision: the decision of an object amid prose is found, however *)
(* long the prose, as Python prints it; no answer, of any length, yields a *)
(* decision that nothing in it accounts for, and an empty one only by an   *)
(* object whose decision is blank.                                         *)
THEOREM DecisionFound == AnswerSpec => []DecisionIsAccountedFor
<1> DEFINE Typed == answer \in Seq(Token)
<1>1. AnswerInit => Typed
  BY DEF AnswerInit
<1>2. Typed /\ [AnswerNext]_answer => Typed'
  BY DEF AnswerNext
<1>3. Typed => DecisionIsAccountedFor
  BY DecisionIs
<1> QED BY <1>1, <1>2, <1>3, PTL DEF AnswerSpec

===============================================================================
