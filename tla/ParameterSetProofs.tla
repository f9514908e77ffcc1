------------------------- MODULE ParameterSetProofs -------------------------
(***************************************************************************)
(* Proofs about SpsRewrite, for bytes, parameters and tables of any size:  *)
(* what is written of whatever is read are bytes, and what is read of a    *)
(* parameter set is written again as a player should find it (RoundTrip).  *)
(* First the lemmas on numbers and sequences that these need.  Then what   *)
(* is read back of the bits that H.264 has for a value, a row, a table and *)
(* a parameter set, and what is written of them.                           *)
(***************************************************************************)
EXTENDS SpsRewrite, FiniteSetTheorems, WellFoundedInduction, SequenceTheorems, TLAPS

-----------------------------------------------------------------------------
(* Numbers: induction, which the theorems of the library state of operators,   *)
(* stated here of sets and functions                                           *)

\* The numbers are well founded, by a relation that can be named.
LEMMA NatOrder ==
    \E R : IsWellFoundedOn(R, Nat) /\ \A m, n \in Nat : m < n => <<m, n>> \in R
  <1>1. \A m, n \in Nat : m < n => <<m, n>> \in OpToRel(<, Nat)
    BY Zenon DEF OpToRel
  <1> QED BY <1>1, NatLessThanWellFounded, Zenon

\* A set of numbers has a least one.
LEMMA LeastOf ==
    ASSUME NEW T, T \subseteq Nat, T # {}
    PROVE  \E n \in T : \A m \in T : n <= m
  <1>1. PICK R : IsWellFoundedOn(R, Nat) /\ \A m, n \in Nat : m < n => <<m, n>> \in R
    BY NatOrder
  <1>2. IsWellFoundedOn(R, Nat)
    BY <1>1
  <1>3. \E n \in T : \A m \in T : ~ (<<m, n>> \in R)
    BY <1>2, WFMin, Zenon
  <1>4. PICK n \in T : \A m \in T : ~ (<<m, n>> \in R)
    BY <1>3
  <1>5. \A m \in T : m \in Nat /\ n \in Nat
    BY <1>4
  <1>6. \A m \in T : ~(m < n)
    BY <1>1, <1>4, <1>5
  <1> QED BY <1>4, <1>5, <1>6

\* A set of numbers that holds 0 and with every number the next, up to n.
LEMMA UpTo ==
    ASSUME NEW n \in Nat, NEW T, 0 \in T, \A i \in 1 .. n : i - 1 \in T => i \in T
    PROVE  0 .. n \subseteq T
  <1>1. SUFFICES ASSUME NEW W, W = (0 .. n) \ T, W # {} PROVE FALSE
    OBVIOUS
  <1>2. W \subseteq Nat
    BY <1>1
  <1>3. PICK i \in W : \A k \in W : i <= k
    BY <1>1, <1>2, LeastOf
  <1>4. i \in 0 .. n /\ i \notin T /\ i # 0
    BY <1>1, <1>3
  <1>5. i \in 1 .. n /\ i - 1 \in 0 .. n /\ i - 1 \notin T
    BY <1>4
  <1>6. i - 1 \in W /\ ~(i <= i - 1)
    BY <1>1, <1>5
  <1> QED BY <1>3, <1>6

\* Two sequences of values that begin alike and go on alike are alike.
LEMMA SameValues ==
    ASSUME NEW n \in Nat, NEW f, NEW h, f[0] = h[0],
           \A i \in 1 .. n : f[i - 1] = h[i - 1] => f[i] = h[i]
    PROVE  \A i \in 0 .. n : f[i] = h[i]
  <1> DEFINE T == {i \in 0 .. n : f[i] = h[i]}
  <1>1. 0 \in T /\ \A i \in 1 .. n : i - 1 \in T => i \in T
    OBVIOUS
  <1> HIDE DEF T
  <1>2. 0 .. n \subseteq T
    BY <1>1, UpTo
  <1> QED BY <1>2 DEF T

\* A function that is given by its first value, and by the next for each.
Steps(f, n, a, g) == f[0] = a /\ \A i \in 1 .. n : f[i] = g[<<i, f[i - 1]>>]

\* A value can be made step by step, from a number to the next.
LEMMA StepByStep ==
    ASSUME NEW n \in Nat, NEW S, NEW a \in S, NEW g \in [(1 .. n) \X S -> S]
    PROVE  \E f \in [0 .. n -> S] : Steps(f, n, a, g)
  <1> DEFINE T == {m \in 0 .. n : \E f \in [0 .. m -> S] : Steps(f, m, a, g)}
  <1>1. 0 \in T
    <2>1. PICK f : f = [i \in 0 .. 0 |-> a]
      OBVIOUS
    <2>2. f \in [0 .. 0 -> S] /\ f[0] = a
      BY <2>1
    <2>3. Steps(f, 0, a, g)
      BY <2>2 DEF Steps
    <2> QED BY <2>2, <2>3
  <1>2. ASSUME NEW m \in 1 .. n, m - 1 \in T PROVE m \in T
    <2>1. PICK f \in [0 .. m - 1 -> S] : Steps(f, m - 1, a, g)
      BY <1>2
    <2>2. PICK h : h = [i \in 0 .. m |-> IF i = m THEN g[<<m, f[m - 1]>>] ELSE f[i]]
      OBVIOUS
    <2>3. f[m - 1] \in S /\ g[<<m, f[m - 1]>>] \in S
      BY <2>1
    <2>4. h \in [0 .. m -> S]
      BY <2>2, <2>3
    <2>5. h[0] = a
      BY <2>1, <2>2 DEF Steps
    <2>6. ASSUME NEW i \in 1 .. m PROVE h[i] = g[<<i, h[i - 1]>>]
      <3>1. CASE i = m
        <4>1. h[m] = g[<<m, f[m - 1]>>] /\ h[m - 1] = f[m - 1]
          BY <2>2
        <4> QED BY <3>1, <4>1
      <3>2. CASE i # m
        BY <2>1, <2>2, <3>2 DEF Steps
      <3> QED BY <3>1, <3>2
    <2> QED BY <2>4, <2>5, <2>6 DEF Steps
  <1> HIDE DEF T
  <1>3. 0 .. n \subseteq T
    BY <1>1, <1>2, UpTo
  <1>4. n \in T
    BY <1>3
  <1> QED BY <1>4 DEF T
-----------------------------------------------------------------------------
(* Sequences, one behind the other *)

\* The elements of two sequences, one behind the other.
LEMMA ConcatFacts ==
    ASSUME NEW E, NEW a \in Seq(E), NEW b \in Seq(E), NEW c, c = a \o b
    PROVE  /\ c \in Seq(E) /\ Len(c) = Len(a) + Len(b)
           /\ Len(a) \in Nat /\ Len(b) \in Nat
           /\ \A x \in 1 .. Len(a) : c[x] = a[x]
           /\ \A k \in 1 .. Len(b) : c[Len(a) + k] = b[k]
  OBVIOUS

\* SubSeq takes n elements, from the a-th on.
IsPart(u, E, s, a, n) ==
    u \in Seq(E) /\ Len(u) = n /\ \A k \in 1 .. n : u[k] = s[a + k - 1]

\* SubSeq takes what it is asked for, if it is there.
LEMMA PartOf ==
    ASSUME NEW E, NEW s, NEW a \in Int, NEW n \in Nat, NEW b, b = a + n - 1,
           \A i \in a .. b : s[i] \in E, NEW u, u = SubSeq(s, a, b)
    PROVE  IsPart(u, E, s, a, n)
  <1>1. b \in Int /\ b - a + 1 = n /\ (a <= b <=> n # 0)
    OBVIOUS
  <1>2. /\ SubSeq(s, a, b) \in Seq(E)
        /\ Len(SubSeq(s, a, b)) = IF a <= b THEN b - a + 1 ELSE 0
        /\ \A i \in 1 .. b - a + 1 : SubSeq(s, a, b)[i] = s[a + i - 1]
    BY <1>1, SubSeqProperties
  <1>3. Len(u) = IF n # 0 THEN n ELSE 0
    BY <1>1, <1>2, Zenon
  <1>4. Len(u) = n
    BY <1>3, Zenon
  <1>5. u \in Seq(E)
    BY <1>2, Zenon
  <1>6. \A k \in 1 .. n : u[k] = s[a + k - 1]
    BY <1>1, <1>2, Zenon
  <1> QED BY <1>4, <1>5, <1>6 DEF IsPart

\* at[i] elements of s come before the end of the i-th of the n parts that s is
\* made of.
Laid(s, at, n, parts) ==
    /\ at \in [0 .. n -> Nat] /\ at[0] = 0
    /\ Len(s) = at[n]
    /\ \A i \in 1 .. n :
          /\ at[i] = at[i - 1] + Len(parts[i])
          /\ \A k \in 1 .. Len(parts[i]) : s[at[i - 1] + k] = parts[i][k]

\* What FlattenSeq computes.
Joined(f, n, parts) ==
    f = [i \in 1 .. n |-> IF i = 1 THEN parts[i] ELSE f[i - 1] \o parts[i]]

\* FlattenSeq is the last value of the only function that joins the parts.
LEMMA FlattenIsJoined ==
    ASSUME NEW parts, NEW n, n = Len(parts), n # 0,
           NEW f, Joined(f, n, parts), \A g : Joined(g, n, parts) => g = f
    PROVE  FlattenSeq(parts) = f[n]
  <1>1. (CHOOSE g : Joined(g, n, parts)) = f
    BY Zenon
  <1>2. FlattenSeq(parts) = (CHOOSE g : Joined(g, n, parts))[n]
    BY Zenon DEF FlattenSeq, Joined
  <1> QED BY <1>1, <1>2, Zenon

\* The parts are joined step by step, from the empty sequence on.
Prefixed(f, n, parts) ==
    /\ f[0] = <<>>
    /\ \A i \in 1 .. n : f[i] = f[i - 1] \o parts[i]

\* The parts can be joined.
LEMMA PrefixesExist ==
    ASSUME NEW E, NEW n \in Nat, NEW parts \in [1 .. n -> Seq(E)]
    PROVE  \E f \in [0 .. n -> Seq(E)] : Prefixed(f, n, parts)
  <1> DEFINE S == Seq(E)
  <1>1. PICK g : g = [p \in (1 .. n) \X S |-> p[2] \o parts[p[1]]]
    OBVIOUS
  <1>2. ASSUME NEW i \in 1 .. n, NEW x \in S
        PROVE  g[<<i, x>>] = x \o parts[i] /\ x \o parts[i] \in S
    <2>1. g[<<i, x>>] = x \o parts[i]
      BY <1>1
    <2>2. parts[i] \in Seq(E) /\ x \in Seq(E)
      OBVIOUS
    <2> QED BY <2>1, <2>2, ConcatFacts, Zenon
  <1>3. <<>> \in S
    OBVIOUS
  <1> HIDE DEF S
  <1>4. g \in [(1 .. n) \X S -> S]
    BY <1>1, <1>2
  <1>5. PICK f \in [0 .. n -> S] : Steps(f, n, <<>>, g)
    BY <1>3, <1>4, StepByStep, Zenon
  <1>6. ASSUME NEW i \in 1 .. n PROVE f[i] = f[i - 1] \o parts[i]
    <2>1. i - 1 \in 0 .. n
      OBVIOUS
    <2>2. f[i - 1] \in S
      BY <2>1
    <2> QED BY <1>2, <1>5, <2>2 DEF Steps
  <1> QED BY <1>5, <1>6 DEF Prefixed, Steps, S

\* There is only one way to join them.
LEMMA OneJoined ==
    ASSUME NEW n \in Nat, NEW parts, NEW f, NEW h, Joined(f, n, parts), Joined(h, n, parts)
    PROVE  f = h
  <1> DEFINE T == {i \in 0 .. n : i = 0 \/ f[i] = h[i]}
  <1>1. /\ \A i \in 1 .. n : f[i] = IF i = 1 THEN parts[i] ELSE f[i - 1] \o parts[i]
        /\ \A i \in 1 .. n : h[i] = IF i = 1 THEN parts[i] ELSE h[i - 1] \o parts[i]
    BY Zenon DEF Joined
  <1>2. 0 \in T
    OBVIOUS
  <1>3. ASSUME NEW i \in 1 .. n, i - 1 \in T PROVE i \in T
    <2>1. i = 1 \/ f[i - 1] = h[i - 1]
      BY <1>3
    <2> QED BY <1>1, <2>1
  <1> HIDE DEF T
  <1>4. 0 .. n \subseteq T
    BY <1>2, <1>3, UpTo
  <1>5. \A i \in 1 .. n : i \in 0 .. n /\ i # 0
    OBVIOUS
  <1>6. \A i \in 1 .. n : f[i] = h[i]
    BY <1>4, <1>5 DEF T
  <1>7. DOMAIN f = 1 .. n /\ DOMAIN h = 1 .. n
    BY Zenon DEF Joined
  <1>8. f = [i \in 1 .. n |-> f[i]] /\ h = [i \in 1 .. n |-> h[i]]
    BY <1>7, Zenon DEF Joined
  <1> QED BY <1>6, <1>8, Zenon

\* FlattenSeq is the last of the prefixes.
LEMMA FlattenIsLast ==
    ASSUME NEW E, NEW n \in Nat, NEW parts \in [1 .. n -> Seq(E)], Len(parts) = n,
           NEW f \in [0 .. n -> Seq(E)], Prefixed(f, n, parts)
    PROVE  FlattenSeq(parts) = f[n]
  <1>1. CASE n = 0
    <2>1. FlattenSeq(parts) = parts
      BY <1>1, Zenon DEF FlattenSeq
    <2>2. parts = <<>>
      BY <1>1
    <2> QED BY <1>1, <2>1, <2>2 DEF Prefixed
  <1>2. CASE n # 0
    <2>1. PICK h : h = [i \in 1 .. n |-> f[i]]
      OBVIOUS
    <2>2. \A i \in 1 .. n : h[i] = IF i = 1 THEN parts[i] ELSE h[i - 1] \o parts[i]
      <3>1. TAKE i \in 1 .. n
      <3>2. CASE i = 1
        <4>1. 1 \in 1 .. n /\ 1 - 1 = 0
          BY <3>2
        <4>2. f[1] = f[1 - 1] \o parts[1]
          BY <4>1, Zenon DEF Prefixed
        <4>3. f[1 - 1] = <<>> /\ parts[1] \in Seq(E)
          BY <4>1 DEF Prefixed
        <4>4. f[1] = <<>> \o parts[1]
          BY <4>2, <4>3, Zenon
        <4>5. <<>> \o parts[1] = parts[1]
          BY <4>3
        <4> QED BY <2>1, <3>2, <4>1, <4>4, <4>5
      <3>3. CASE i # 1
        <4>1. i - 1 \in 1 .. n
          BY <3>3
        <4> QED BY <2>1, <3>3, <4>1 DEF Prefixed
      <3> QED BY <3>2, <3>3
    <2>3. Joined(h, n, parts)
      BY <2>1, <2>2 DEF Joined
    <2>4. \A g : Joined(g, n, parts) => g = h
      BY <2>3, OneJoined
    <2>5. FlattenSeq(parts) = h[n]
      BY <1>2, <2>3, <2>4, FlattenIsJoined, Zenon
    <2> QED BY <1>2, <2>1, <2>5
  <1> QED BY <1>1, <1>2

\* Each prefix goes on in the later ones.
GoesOn(a, b) == Len(a) <= Len(b) /\ \A x \in 1 .. Len(a) : b[x] = a[x]

\* What was joined stays as it is when more is joined to it.
LEMMA PrefixesGoOn ==
    ASSUME NEW E, NEW n \in Nat, NEW parts \in [1 .. n -> Seq(E)],
           NEW f \in [0 .. n -> Seq(E)], Prefixed(f, n, parts)
    PROVE  \A i \in 0 .. n : GoesOn(f[i], f[n])
  <1> DEFINE T == {m \in 0 .. n : \A i \in 0 .. m : GoesOn(f[i], f[m])}
  <1>0. ASSUME NEW i \in 0 .. n PROVE GoesOn(f[i], f[i])
    <2>1. f[i] \in Seq(E)
      OBVIOUS
    <2> QED BY <2>1 DEF GoesOn
  <1>1. 0 \in T
    BY <1>0
  <1>2. ASSUME NEW m \in 1 .. n, m - 1 \in T PROVE m \in T
    <2>1. m - 1 \in 0 .. n /\ m \in 0 .. n
      OBVIOUS
    <2>2. /\ f[m - 1] \in Seq(E) /\ parts[m] \in Seq(E) /\ f[m] = f[m - 1] \o parts[m]
      BY <2>1 DEF Prefixed
    <2>3. GoesOn(f[m - 1], f[m])
      BY <2>2, ConcatFacts DEF GoesOn
    <2>4. ASSUME NEW i \in 0 .. m PROVE GoesOn(f[i], f[m])
      <3>1. CASE i = m
        BY <1>0, <2>1, <3>1
      <3>2. CASE i # m
        <4>1. i \in 0 .. m - 1 /\ i \in 0 .. n
          BY <3>2
        <4>2. GoesOn(f[i], f[m - 1])
          BY <1>2, <4>1
        <4>3. Len(f[i]) \in Nat /\ Len(f[m - 1]) \in Nat /\ Len(f[m]) \in Nat
          BY <2>1, <4>1
        <4> QED BY <2>3, <4>2, <4>3, SMTT(40) DEF GoesOn
      <3> QED BY <3>1, <3>2
    <2> QED BY <2>1, <2>4
  <1> HIDE DEF T
  <1>3. 0 .. n \subseteq T
    BY <1>1, <1>2, UpTo
  <1>4. n \in T
    BY <1>3
  <1> QED BY <1>4 DEF T

\* FlattenSeq puts its sequences one behind the other.
LEMMA Flattened ==
    ASSUME NEW E, NEW n \in Nat, NEW parts \in [1 .. n -> Seq(E)], Len(parts) = n,
           NEW s, s = FlattenSeq(parts)
    PROVE  s \in Seq(E) /\ \E at : Laid(s, at, n, parts)
  <1>1. PICK f \in [0 .. n -> Seq(E)] : Prefixed(f, n, parts)
    BY PrefixesExist
  <1>2. s = f[n]
    BY <1>1, FlattenIsLast, Zenon
  <1>3. \A i \in 0 .. n : GoesOn(f[i], s)
    BY <1>1, <1>2, PrefixesGoOn, ZenonT(40)
  <1>4. PICK at : at = [i \in 0 .. n |-> Len(f[i])]
    OBVIOUS
  <1>5. ASSUME NEW i \in 1 .. n
        PROVE  /\ at[i] = at[i - 1] + Len(parts[i])
               /\ \A k \in 1 .. Len(parts[i]) : s[at[i - 1] + k] = parts[i][k]
    <2>1. i - 1 \in 0 .. n /\ i \in 0 .. n
      OBVIOUS
    <2>2. /\ f[i - 1] \in Seq(E) /\ parts[i] \in Seq(E) /\ f[i] = f[i - 1] \o parts[i]
          /\ at[i - 1] = Len(f[i - 1]) /\ at[i] = Len(f[i])
      BY <1>1, <1>4, <2>1 DEF Prefixed
    <2>3. /\ Len(f[i]) = Len(f[i - 1]) + Len(parts[i])
          /\ Len(f[i - 1]) \in Nat /\ Len(parts[i]) \in Nat
          /\ \A k \in 1 .. Len(parts[i]) : f[i][Len(f[i - 1]) + k] = parts[i][k]
      BY <2>2, ConcatFacts
    <2>4. \A x \in 1 .. Len(f[i]) : s[x] = f[i][x]
      BY <1>3, <2>1 DEF GoesOn
    <2>5. \A k \in 1 .. Len(parts[i]) : Len(f[i - 1]) + k \in 1 .. Len(f[i])
      BY <2>3
    <2> QED BY <2>2, <2>3, <2>4, <2>5
  <1>6. at \in [0 .. n -> Nat] /\ at[0] = 0 /\ Len(s) = at[n] /\ s \in Seq(E)
    <2>1. \A i \in 0 .. n : Len(f[i]) \in Nat
      OBVIOUS
    <2>2. 0 \in 0 .. n /\ n \in 0 .. n /\ Len(<<>>) = 0
      OBVIOUS
    <2> QED BY <1>1, <1>2, <1>4, <2>1, <2>2 DEF Prefixed
  <1>7. Laid(s, at, n, parts)
    BY <1>5, <1>6 DEF Laid
  <1> QED BY <1>6, <1>7
\* A length is known by its interval.
LEMMA SameLength ==
    ASSUME NEW n \in Nat, NEW m \in Nat, 1 .. n = 1 .. m
    PROVE  n = m
  <1>1. n > 0 => n \in 1 .. m
    OBVIOUS
  <1>2. m > 0 => m \in 1 .. n
    OBVIOUS
  <1> QED BY <1>1, <1>2

-----------------------------------------------------------------------------
(* Bits, and the numbers that they stand for *)

\* A bit is 0 or 1.
LEMMA BitTyped ==
    ASSUME NEW v \in Int, NEW k \in 0 .. 31
    PROVE  BitOf(v, k) \in Bits
  BY DEF BitOf, Bits

\* Bytes are integers.
LEMMA ByteIsNumber ==
    ASSUME NEW b \in Bytes
    PROVE  b \in Int
  BY DEF Bytes

\* The bits of bytes are bits.
LEMMA BitsTyped ==
    ASSUME NEW bytes \in Seq(Bytes)
    PROVE  BitsOf(bytes) \in Seq(Bits)
  <1>1. PICK n \in Nat : n = 8 * Len(bytes)
    OBVIOUS
  <1>2. ASSUME NEW i \in 1 .. n
        PROVE  BitOf(bytes[(i + 7) \div 8], 7 - ((i - 1) % 8)) \in Bits
    <2>1. (i + 7) \div 8 \in 1 .. Len(bytes)
      BY <1>1
    <2>2. bytes[(i + 7) \div 8] \in Int
      <3>1. PICK j \in 1 .. Len(bytes) : j = (i + 7) \div 8
        BY <2>1
      <3>2. bytes[j] \in Bytes
        BY <3>1, ElementOfSeq
      <3>3. bytes[j] \in Int
        BY <3>2, ByteIsNumber, Zenon
      <3> QED BY <3>1, <3>3, Zenon
    <2>3. 7 - ((i - 1) % 8) \in 0 .. 31
      OBVIOUS
    <2> QED BY <2>2, <2>3, BitTyped
  <1>3. BitsOf(bytes) = [i \in 1 .. n |-> BitOf(bytes[(i + 7) \div 8], 7 - ((i - 1) % 8))]
    BY <1>1 DEF BitsOf
  <1>4. PICK f : f = [i \in 1 .. n |-> BitOf(bytes[(i + 7) \div 8], 7 - ((i - 1) % 8))]
    OBVIOUS
  <1>5. f \in [1 .. n -> Bits]
    BY <1>2, <1>4
  <1> QED BY <1>3, <1>4, <1>5

\* Reading bits one by one: what they stand for so far.
Values(f, bits, n) ==
    f = [i \in 0 .. n |-> IF i = 0 THEN 0 ELSE 2 * f[i - 1] + bits[i]]

\* The values of the first bits, of the first two, ...
LEMMA ValuesExist ==
    ASSUME NEW n \in Nat, NEW bits \in [1 .. n -> Bits]
    PROVE  \E f \in [0 .. n -> Nat] : Values(f, bits, n)
  <1>1. PICK g : g = [p \in (1 .. n) \X Nat |-> 2 * p[2] + bits[p[1]]]
    OBVIOUS
  <1>2. ASSUME NEW i \in 1 .. n, NEW x \in Nat
        PROVE  g[<<i, x>>] = 2 * x + bits[i] /\ 2 * x + bits[i] \in Nat
    <2>1. bits[i] \in {0, 1}
      BY DEF Bits
    <2> QED BY <1>1, <2>1
  <1>3. g \in [(1 .. n) \X Nat -> Nat]
    BY <1>1, <1>2
  <1>4. PICK f \in [0 .. n -> Nat] : Steps(f, n, 0, g)
    BY <1>3, StepByStep
  <1>5. ASSUME NEW i \in 0 .. n
        PROVE  f[i] = IF i = 0 THEN 0 ELSE 2 * f[i - 1] + bits[i]
    <2>1. CASE i = 0
      BY <1>4, <2>1 DEF Steps
    <2>2. CASE i # 0
      <3>1. i \in 1 .. n /\ i - 1 \in 0 .. n
        BY <2>2
      <3>2. f[i - 1] \in Nat
        BY <3>1
      <3> QED BY <1>2, <1>4, <2>2, <3>1, <3>2 DEF Steps
    <2> QED BY <2>1, <2>2
  <1>6. f = [i \in 0 .. n |-> f[i]]
    OBVIOUS
  <1>7. Values(f, bits, n)
    BY <1>5, <1>6 DEF Values
  <1> QED BY <1>7

\* There is only one way to compute them.
LEMMA OneValue ==
    ASSUME NEW n \in Nat, NEW bits, NEW f, NEW h, Values(f, bits, n), Values(h, bits, n)
    PROVE  f = h
  <1>1. /\ \A i \in 0 .. n : f[i] = IF i = 0 THEN 0 ELSE 2 * f[i - 1] + bits[i]
        /\ \A i \in 0 .. n : h[i] = IF i = 0 THEN 0 ELSE 2 * h[i - 1] + bits[i]
    BY Zenon DEF Values
  <1>2. f[0] = h[0]
    BY <1>1
  <1>3. ASSUME NEW i \in 1 .. n, f[i - 1] = h[i - 1] PROVE f[i] = h[i]
    BY <1>1, <1>3
  <1>4. \A i \in 0 .. n : f[i] = h[i]
    BY <1>2, <1>3, SameValues
  <1>5. DOMAIN f = 0 .. n /\ DOMAIN h = 0 .. n
    BY Zenon DEF Values
  <1>6. f = [i \in 0 .. n |-> f[i]] /\ h = [i \in 0 .. n |-> h[i]]
    BY <1>5, Zenon DEF Values
  <1> QED BY <1>4, <1>6, Zenon

\* The number that bits stand for is the last of these values.
LEMMA ValueIsLast ==
    ASSUME NEW n \in Nat, NEW bits, Len(bits) = n,
           NEW f, Values(f, bits, n)
    PROVE  ValueOf(bits) = f[n]
  <1>1. \A g : Values(g, bits, n) => g = f
    BY OneValue
  <1>2. (CHOOSE g : Values(g, bits, n)) = f
    BY <1>1, Zenon
  <1>3. ValueOf(bits) = (CHOOSE g : Values(g, bits, n))[n]
    BY Zenon DEF ValueOf, Values
  <1> QED BY <1>2, <1>3, Zenon

\* A function on 1 .. n is a sequence of n elements.
LEMMA LenOfFunction ==
    ASSUME NEW n \in Nat, NEW E, NEW f \in [1 .. n -> E]
    PROVE  f \in Seq(E) /\ Len(f) = n
  <1>1. f \in Seq(E)
    OBVIOUS
  <1>2. DOMAIN f = 1 .. Len(f) /\ Len(f) \in Nat
    BY <1>1, LenProperties
  <1>3. 1 .. Len(f) = 1 .. n
    BY <1>2, Zenon
  <1> QED BY <1>1, <1>2, <1>3, SameLength, Zenon

\* Bits stand for a number, eight of them for a byte.
LEMMA ValueTyped ==
    ASSUME NEW n \in Nat, NEW bits \in [1 .. n -> Bits]
    PROVE  ValueOf(bits) \in Nat
  <1>1. PICK f \in [0 .. n -> Nat] : Values(f, bits, n)
    BY ValuesExist
  <1>2. Len(bits) = n
    BY LenOfFunction
  <1>3. ValueOf(bits) = f[n]
    BY <1>1, <1>2, ValueIsLast, Zenon
  <1> QED BY <1>3

\* Eight bits are a byte.
LEMMA EightBits ==
    ASSUME NEW bits \in [1 .. 8 -> Bits]
    PROVE  ValueOf(bits) \in Bytes
  <1>1. PICK f \in [0 .. 8 -> Nat] : Values(f, bits, 8)
    BY ValuesExist
  <1>2. Len(bits) = 8
    BY LenOfFunction
  <1>3. ValueOf(bits) = f[8]
    BY <1>1, <1>2, ValueIsLast, Zenon
  <1>4. \A i \in 0 .. 8 : f[i] = IF i = 0 THEN 0 ELSE 2 * f[i - 1] + bits[i]
    BY <1>1, Zenon DEF Values
  <1>5. \A i \in 1 .. 8 : bits[i] \in {0, 1}
    BY DEF Bits
  <1>6. f[0] = 0
    BY <1>4
  <1>7. ASSUME NEW i \in 1 .. 8, NEW k \in 0 .. 8, k = i - 1, NEW m \in Nat, f[k] \in 0 .. m
        PROVE  f[i] \in 0 .. 2 * m + 1
    <2>1. i \in 0 .. 8 /\ i # 0
      OBVIOUS
    <2>2. f[i] = 2 * f[i - 1] + bits[i]
      BY <1>4, <2>1
    <2>3. f[i] = 2 * f[k] + bits[i] /\ bits[i] \in {0, 1}
      BY <1>5, <1>7, <2>2
    <2> QED BY <1>7, <2>3
  <1>8. f[1] \in 0 .. 1
    <2>1. f[0] \in 0 .. 0
      BY <1>6
    <2>2. f[1] \in 0 .. 2 * 0 + 1
      BY <1>7, <2>1
    <2> QED BY <2>2
  <1>9. f[2] \in 0 .. 3
    <2>1. 1 \in 0 .. 8 /\ 2 \in 1 .. 8 /\ 1 = 2 - 1 /\ 1 \in Nat
      OBVIOUS
    <2>2. f[1] \in 0 .. 1
      BY <1>8
    <2>3. f[2] \in 0 .. 2 * 1 + 1
      BY <1>7, <2>1, <2>2, Zenon
    <2> QED BY <2>3
  <1>10. f[3] \in 0 .. 7
    <2>1. 2 \in 0 .. 8 /\ 3 \in 1 .. 8 /\ 2 = 3 - 1 /\ 3 \in Nat
      OBVIOUS
    <2>2. f[2] \in 0 .. 3
      BY <1>9
    <2>3. f[3] \in 0 .. 2 * 3 + 1
      BY <1>7, <2>1, <2>2, Zenon
    <2> QED BY <2>3
  <1>11. f[4] \in 0 .. 15
    <2>1. 3 \in 0 .. 8 /\ 4 \in 1 .. 8 /\ 3 = 4 - 1 /\ 7 \in Nat
      OBVIOUS
    <2>2. f[3] \in 0 .. 7
      BY <1>10
    <2>3. f[4] \in 0 .. 2 * 7 + 1
      BY <1>7, <2>1, <2>2, Zenon
    <2> QED BY <2>3
  <1>12. f[5] \in 0 .. 31
    <2>1. 4 \in 0 .. 8 /\ 5 \in 1 .. 8 /\ 4 = 5 - 1 /\ 15 \in Nat
      OBVIOUS
    <2>2. f[4] \in 0 .. 15
      BY <1>11
    <2>3. f[5] \in 0 .. 2 * 15 + 1
      BY <1>7, <2>1, <2>2, Zenon
    <2> QED BY <2>3
  <1>13. f[6] \in 0 .. 63
    <2>1. 5 \in 0 .. 8 /\ 6 \in 1 .. 8 /\ 5 = 6 - 1 /\ 31 \in Nat
      OBVIOUS
    <2>2. f[5] \in 0 .. 31
      BY <1>12
    <2>3. f[6] \in 0 .. 2 * 31 + 1
      BY <1>7, <2>1, <2>2, Zenon
    <2> QED BY <2>3
  <1>14. f[7] \in 0 .. 127
    <2>1. 6 \in 0 .. 8 /\ 7 \in 1 .. 8 /\ 6 = 7 - 1 /\ 63 \in Nat
      OBVIOUS
    <2>2. f[6] \in 0 .. 63
      BY <1>13
    <2>3. f[7] \in 0 .. 2 * 63 + 1
      BY <1>7, <2>1, <2>2, Zenon
    <2> QED BY <2>3
  <1>15. f[8] \in 0 .. 255
    <2>1. 7 \in 0 .. 8 /\ 8 \in 1 .. 8 /\ 7 = 8 - 1 /\ 127 \in Nat
      OBVIOUS
    <2>2. f[7] \in 0 .. 127
      BY <1>14
    <2>3. f[8] \in 0 .. 2 * 127 + 1
      BY <1>7, <2>1, <2>2, ZenonT(40)
    <2> QED BY <2>3
  <1> QED BY <1>3, <1>15 DEF Bytes

\* Bits make bytes.
LEMMA BytesTyped ==
    ASSUME NEW bits \in Seq(Bits)
    PROVE  BytesOf(bits) \in Seq(Bytes)
  <1>1. PICK n \in Nat : n = Len(bits) \div 8 /\ 8 * n <= Len(bits) /\ Len(bits) \in Nat
    OBVIOUS
  <1>2. ASSUME NEW i \in 1 .. n PROVE ValueOf(SubSeq(bits, 8 * i - 7, 8 * i)) \in Bytes
    <2>1. PICK b : b = SubSeq(bits, 8 * i - 7, 8 * i)
      OBVIOUS
    <2>2. 8 * i - 7 \in 1 .. Len(bits) /\ 8 * i \in 1 .. Len(bits) /\ 8 * i - (8 * i - 7) + 1 = 8
      BY <1>1
    <2>3. b \in Seq(Bits) /\ Len(b) = 8
      BY <1>1, <2>1, <2>2, SubSeqProperties
    <2>4. b \in [1 .. 8 -> Bits]
      BY <2>3, LenProperties
    <2> QED BY <2>1, <2>4, EightBits
  <1>3. PICK f : f = [i \in 1 .. n |-> ValueOf(SubSeq(bits, 8 * i - 7, 8 * i))]
    OBVIOUS
  <1>4. f \in [1 .. n -> Bytes]
    BY <1>2, <1>3
  <1>5. BytesOf(bits) = f
    BY <1>1, <1>3 DEF BytesOf
  <1> QED BY <1>4, <1>5, LenOfFunction
-----------------------------------------------------------------------------
(* The tables of the parameter sets *)

\* The codes of a row, whatever they are.
Codes == Nat \cup {UE, SE}

\* A sequence, whatever its elements.
IsSeq(s) == \E S : s \in Seq(S)

\* The rows with these names and these conditions.
Rows(N, W) == [names : Seq(N), code : Codes, when : SUBSET W]

\* A table: a sequence of rows.
IsTable(t) == \E N, W : t \in Seq(Rows(N, W))

\* Tuples are sequences.
LEMMA TuplesAreSeqs ==
    /\ \A a : IsSeq(<<a>>)
    /\ \A a, b : IsSeq(<<a, b>>)
    /\ \A a, b, c : IsSeq(<<a, b, c>>)
    /\ \A a, b, c, d : IsSeq(<<a, b, c, d>>)
    /\ \A a, b, c, d, e, f : IsSeq(<<a, b, c, d, e, f>>)
    /\ \A a, b, c, d, e, f, g, h : IsSeq(<<a, b, c, d, e, f, g, h>>)
  <1>1. \A a : <<a>> \in Seq({a})
    OBVIOUS
  <1>2. \A a, b : <<a, b>> \in Seq({a, b})
    OBVIOUS
  <1>3. \A a, b, c : <<a, b, c>> \in Seq({a, b, c})
    OBVIOUS
  <1>4. \A a, b, c, d : <<a, b, c, d>> \in Seq({a, b, c, d})
    OBVIOUS
  <1>5. \A a, b, c, d, e, f : <<a, b, c, d, e, f>> \in Seq({a, b, c, d, e, f})
    OBVIOUS
  <1>6. \A a, b, c, d, e, f, g, h : <<a, b, c, d, e, f, g, h>> \in Seq({a, b, c, d, e, f, g, h})
    OBVIOUS
  <1> QED BY <1>1, <1>2, <1>3, <1>4, <1>5, <1>6, Zenon DEF IsSeq

\* The codes that the tables use.
LEMMA CodesOfRows ==
    /\ UE \in Codes /\ SE \in Codes /\ 1 \in Codes /\ 2 \in Codes /\ 3 \in Codes
    /\ 4 \in Codes /\ 5 \in Codes /\ 8 \in Codes /\ 16 \in Codes
  BY DEF Codes

\* A row is a table.
LEMMA OneRow ==
    ASSUME NEW code \in Codes, NEW names, IsSeq(names)
    PROVE  IsTable(U(code, names))
  <1>1. PICK N : names \in Seq(N)
    BY DEF IsSeq
  <1>2. PICK r : r = [names |-> names, code |-> code, when |-> {}]
    OBVIOUS
  <1>3. r \in Rows(N, {})
    BY <1>1, <1>2 DEF Rows
  <1>4. <<r>> \in Seq(Rows(N, {}))
    BY <1>3
  <1> QED BY <1>2, <1>4, Zenon DEF U, IsTable

\* Rows with a condition are a table.
LEMMA RowsUnder ==
    ASSUME NEW name, NEW values, NEW rows, IsTable(rows)
    PROVE  IsTable(If(name, values, rows)) 
  <1>1. PICK N, W : rows \in Seq(Rows(N, W))
    BY DEF IsTable
  <1>2. PICK Z : Z = W \cup {<<name, values>>}
    OBVIOUS
  <1>3. PICK n \in Nat : n = Len(rows) /\ DOMAIN rows = 1 .. n
    BY <1>1, LenProperties
  <1>4. ASSUME NEW i \in 1 .. n
        PROVE  [rows[i] EXCEPT !.when = @ \cup {<<name, values>>}] \in Rows(N, Z)
    <2>1. rows[i] \in Rows(N, W)
      BY <1>1, <1>3, ElementOfSeq
    <2>2. rows[i].when \cup {<<name, values>>} \in SUBSET Z
      <3>1. rows[i].when \in SUBSET W
        BY <2>1 DEF Rows
      <3> QED BY <1>2, <3>1
    <2> QED BY <2>1, <2>2 DEF Rows
  <1>5. PICK f : f = [i \in 1 .. n |-> [rows[i] EXCEPT !.when = @ \cup {<<name, values>>}]]
    OBVIOUS
  <1>6. f = If(name, values, rows)
    BY <1>3, <1>5, Zenon DEF If
  <1>7. f \in Seq(Rows(N, Z))
    <2>1. PICK R : R = Rows(N, Z)
      OBVIOUS
    <2>2. f \in [1 .. n -> R]
      BY <1>4, <1>5, <2>1
    <2> QED BY <2>1, <2>2
  <1> QED BY <1>6, <1>7, Zenon DEF IsTable

\* Two tables, one behind the other, are a table.
LEMMA RowsBehind ==
    ASSUME NEW a, NEW b, IsTable(a), IsTable(b)
    PROVE  IsTable(a \o b)
  <1>1. PICK N, W : a \in Seq(Rows(N, W))
    BY DEF IsTable
  <1>2. PICK M, V : b \in Seq(Rows(M, V))
    BY DEF IsTable
  <1>3. PICK R : R = Rows(N \cup M, W \cup V)
    OBVIOUS
  <1>4. Rows(N, W) \subseteq R /\ Rows(M, V) \subseteq R
    <2>1. Seq(N) \subseteq Seq(N \cup M) /\ Seq(M) \subseteq Seq(N \cup M)
      BY SeqMonotonic
    <2> QED BY <1>3, <2>1 DEF Rows
  <1>5. a \in Seq(R) /\ b \in Seq(R)
    BY <1>1, <1>2, <1>4, SeqMonotonic
  <1>6. a \o b \in Seq(R)
    BY <1>5
  <1> QED BY <1>3, <1>6, Zenon DEF IsTable

\* The lists of flags are sequences.
LEMMA FlagTuples == IsSeq(Flags) /\ IsSeq(ListFlags)
  BY TuplesAreSeqs, Zenon DEF Flags, ListFlags
\* The rows of the tables.
LEMMA RowsAre ==
    /\ \A code \in Codes : \A a : IsTable(U(code, <<a>>))
    /\ \A code \in Codes : \A a, b : IsTable(U(code, <<a, b>>))
    /\ \A code \in Codes : \A a, b, c : IsTable(U(code, <<a, b, c>>))
    /\ \A code \in Codes : \A a, b, c, d : IsTable(U(code, <<a, b, c, d>>))
    /\ \A code \in Codes : \A a, b, c, d, e, f : IsTable(U(code, <<a, b, c, d, e, f>>))
    /\ \A code \in Codes : IsTable(U(code, Flags)) /\ IsTable(U(code, ListFlags))
  BY TuplesAreSeqs, FlagTuples, OneRow, Zenon
\* read_hrd_parameters (bitstream.cpp) is a table.
LEMMA HrdTable == IsTable(read_hrd_parameters)
  BY RowsAre, CodesOfRows, RowsUnder, RowsBehind, Zenon DEF read_hrd_parameters
\* read_vui_parameters (bitstream.cpp) is a table.
LEMMA VuiTable == IsTable(read_vui_parameters)
  <1>1. IsTable(If("aspect_ratio_info_present_flag", {1},
                   U(8, <<"aspect_ratio_idc">>)
                   \o If("aspect_ratio_idc", {SAR_Extended}, U(16, <<"sar_width", "sar_height">>))))
    BY RowsAre, CodesOfRows, RowsUnder, RowsBehind, Zenon
  <1>2. IsTable(If("video_signal_type_present_flag", {1},
                   U(3, <<"video_format">>)
                   \o U(1, <<"video_full_range_flag", "colour_description_present_flag">>)
                   \o If("colour_description_present_flag", {1},
                         U(8, <<"colour_primaries", "transfer_characteristics", "matrix_coefficients">>))))
    BY RowsAre, CodesOfRows, RowsUnder, RowsBehind, Zenon
  <1>3. IsTable(If("timing_info_present_flag", {1},
                   U(16, <<"num_units_in_tick_hi", "num_units_in_tick_lo",
                           "time_scale_hi", "time_scale_lo">>)
                   \o U(1, <<"fixed_frame_rate_flag">>)))
    BY RowsAre, CodesOfRows, RowsUnder, RowsBehind, Zenon
  <1>4. IsTable(If("nal_hrd_present_flag", {0},
                   If("vcl_hrd_present_flag", {1}, U(1, <<"low_delay_hrd_flag">>))))
    BY RowsAre, CodesOfRows, RowsUnder, Zenon
  <1>5. IsTable(If("bitstream_restriction_flag", {1},
                   U(1, <<"motion_vectors_over_pic_boundaries_flag">>)
                   \o U(UE, <<"max_bytes_per_pic_denom", "max_bits_per_mb_denom",
                              "log2_max_mv_length_horizontal", "log2_max_mv_length_vertical",
                              "num_reorder_frames", "max_dec_frame_buffering">>)))
    BY RowsAre, CodesOfRows, RowsUnder, RowsBehind, Zenon
  <1>6. IsTable(U(1, <<"aspect_ratio_info_present_flag">>)
                \o If("aspect_ratio_info_present_flag", {1},
                      U(8, <<"aspect_ratio_idc">>)
                      \o If("aspect_ratio_idc", {SAR_Extended}, U(16, <<"sar_width", "sar_height">>)))
                \o U(1, <<"overscan_info_present_flag">>)
                \o If("overscan_info_present_flag", {1}, U(1, <<"overscan_appropriate_flag">>))
                \o U(1, <<"video_signal_type_present_flag">>)
                \o If("video_signal_type_present_flag", {1},
                      U(3, <<"video_format">>)
                      \o U(1, <<"video_full_range_flag", "colour_description_present_flag">>)
                      \o If("colour_description_present_flag", {1},
                            U(8, <<"colour_primaries", "transfer_characteristics",
                                   "matrix_coefficients">>))))
    BY <1>1, <1>2, RowsAre, CodesOfRows, RowsUnder, RowsBehind, Zenon
  <1> QED BY <1>3, <1>4, <1>5, <1>6, RowsAre, CodesOfRows, RowsUnder, RowsBehind, HrdTable,
             ZenonT(150) DEF read_vui_parameters

\* read_seq_parameter_set (bitstream.cpp) is a table.
LEMMA SeqTable == IsTable(read_seq_parameter_set)
  <1>1. IsTable(If("profile_idc", HighProfiles,
                   U(UE, <<"chroma_format_idc">>)
                   \o If("chroma_format_idc", {3}, U(1, <<"residual_colour_transform_flag">>))
                   \o U(UE, <<"bit_depth_luma_minus8", "bit_depth_chroma_minus8">>)
                   \o U(1, <<"qpprime_y_zero_transform_bypass_flag",
                             "seq_scaling_matrix_present_flag">>)
                   \o If("seq_scaling_matrix_present_flag", {1}, U(1, ListFlags))))
    BY RowsAre, CodesOfRows, RowsUnder, RowsBehind, Zenon
  <1>2. IsTable(If("pic_order_cnt_type", {1},
                   U(1, <<"delta_pic_order_always_zero_flag">>)
                   \o U(SE, <<"offset_for_non_ref_pic", "offset_for_top_to_bottom_field">>)
                   \o U(UE, <<"num_ref_frames_in_pic_order_cnt_cycle">>)
                   \o If("num_ref_frames_in_pic_order_cnt_cycle", From(1),
                         U(SE, <<"offset_for_ref_frame_0">>))
                   \o If("num_ref_frames_in_pic_order_cnt_cycle", From(2),
                         U(SE, <<"offset_for_ref_frame_1">>))))
    BY RowsAre, CodesOfRows, RowsUnder, RowsBehind, Zenon
  <1>3. IsTable(If("frame_cropping_flag", {1},
                   U(UE, <<"frame_crop_left_offset", "frame_crop_right_offset",
                           "frame_crop_top_offset", "frame_crop_bottom_offset">>)))
    BY RowsAre, CodesOfRows, RowsUnder, Zenon
  <1> QED BY <1>1, <1>2, <1>3, RowsAre, CodesOfRows, RowsUnder, RowsBehind,
             ZenonT(150) DEF read_seq_parameter_set

\* The VUI is written as it is read.
LEMMA WriteVui == write_vui_parameters = read_vui_parameters
  BY Zenon DEF write_vui_parameters, read_vui_parameters, write_hrd_parameters, read_hrd_parameters

\* A table w writes what a table t reads, or zeros.
Writes(t, w) == IsTable(t) /\ IsTable(w) /\ MembersOf(w) \subseteq MembersOf(t) \cup {"zero"}

\* The rows of a table.
LEMMA TableRows ==
    ASSUME NEW t, IsTable(t)
    PROVE  /\ DOMAIN t = 1 .. Len(t) /\ Len(t) \in Nat
           /\ \A i \in 1 .. Len(t) : IsSeq(t[i].names) /\ t[i].code \in Codes
  <1>1. PICK N, W : t \in Seq(Rows(N, W))
    BY DEF IsTable
  <1>2. DOMAIN t = 1 .. Len(t) /\ Len(t) \in Nat
    BY <1>1, LenProperties
  <1>3. ASSUME NEW i \in 1 .. Len(t) PROVE IsSeq(t[i].names) /\ t[i].code \in Codes
    <2>1. t[i] \in Rows(N, W)
      BY <1>1, ElementOfSeq
    <2>2. t[i].names \in Seq(N) /\ t[i].code \in Codes
      BY <2>1 DEF Rows
    <2> QED BY <2>2 DEF IsSeq
  <1> QED BY <1>2, <1>3

\* The members of two tables, one behind the other.
LEMMA MembersBehind ==
    ASSUME NEW a, NEW b, IsTable(a), IsTable(b)
    PROVE  MembersOf(a \o b) = MembersOf(a) \cup MembersOf(b)
  <1>0. PICK c : c = a \o b
    OBVIOUS
  <1>1. PICK n \in Nat, m \in Nat :
            /\ n = Len(a) /\ m = Len(b) /\ DOMAIN a = 1 .. n /\ DOMAIN b = 1 .. m
            /\ DOMAIN c = 1 .. n + m
            /\ \A i \in 1 .. n : c[i] = a[i]
            /\ \A i \in 1 .. m : c[n + i] = b[i]
    <2>1. PICK N, W : a \in Seq(Rows(N, W))
      BY DEF IsTable
    <2>2. PICK M, V : b \in Seq(Rows(M, V))
      BY DEF IsTable
    <2>3. PICK R : R = Rows(N, W) \cup Rows(M, V)
      OBVIOUS
    <2>4. Rows(N, W) \subseteq R /\ Rows(M, V) \subseteq R
      BY <2>3
    <2>5. a \in Seq(R) /\ b \in Seq(R)
      BY <2>1, <2>2, <2>4, SeqMonotonic
    <2>6. /\ c \in Seq(R) /\ Len(c) = Len(a) + Len(b) /\ Len(a) \in Nat /\ Len(b) \in Nat
          /\ \A i \in 1 .. Len(a) : c[i] = a[i]
          /\ \A i \in 1 .. Len(b) : c[Len(a) + i] = b[i]
      BY <1>0, <2>5
    <2>7. DOMAIN a = 1 .. Len(a) /\ DOMAIN b = 1 .. Len(b) /\ DOMAIN c = 1 .. Len(c)
      BY <2>5, <2>6, LenProperties
    <2> QED BY <2>6, <2>7
  <1>2. ASSUME NEW i \in 1 .. n + m
        PROVE  \/ i \in 1 .. n /\ c[i] = a[i]
               \/ \E k \in 1 .. m : c[i] = b[k]
    <2>1. CASE i \in 1 .. n
      BY <1>1, <2>1
    <2>2. CASE i \notin 1 .. n
      <3>1. PICK k \in 1 .. m : i = n + k
        <4>1. i - n \in 1 .. m /\ i = n + (i - n)
          BY <1>1, <2>2
        <4> QED BY <4>1
      <3> QED BY <1>1, <3>1
    <2> QED BY <2>1, <2>2
  <1>3. \A i \in 1 .. n : i \in 1 .. n + m /\ c[i] = a[i]
    BY <1>1
  <1>4. \A k \in 1 .. m : \E i \in 1 .. n + m : c[i] = b[k]
    <2>1. TAKE k \in 1 .. m
    <2>2. n + k \in 1 .. n + m
      BY <1>1
    <2> QED BY <1>1, <2>2
  <1>5. ASSUME NEW x, x \in MembersOf(c) PROVE x \in MembersOf(a) \cup MembersOf(b)
    <2>1. PICK i \in 1 .. n + m : x \in ToSet(c[i].names)
      BY <1>1, <1>5, Zenon DEF MembersOf
    <2>2. CASE i \in 1 .. n /\ c[i] = a[i]
      BY <1>1, <2>1, <2>2, Zenon DEF MembersOf
    <2>3. CASE \E k \in 1 .. m : c[i] = b[k]
      BY <1>1, <2>1, <2>3, Zenon DEF MembersOf
    <2> QED BY <1>2, <2>2, <2>3
  <1>6. ASSUME NEW x, x \in MembersOf(a) PROVE x \in MembersOf(c)
    <2>1. PICK i \in 1 .. n : x \in ToSet(a[i].names)
      BY <1>1, <1>6, Zenon DEF MembersOf
    <2> QED BY <1>1, <1>3, <2>1, Zenon DEF MembersOf
  <1>7. ASSUME NEW x, x \in MembersOf(b) PROVE x \in MembersOf(c)
    <2>1. PICK k \in 1 .. m : x \in ToSet(b[k].names)
      BY <1>1, <1>7, Zenon DEF MembersOf
    <2>2. PICK i \in 1 .. n + m : c[i] = b[k]
      BY <1>4
    <2> QED BY <1>1, <2>1, <2>2, Zenon DEF MembersOf
  <1> QED BY <1>0, <1>5, <1>6, <1>7

\* What is written by two tables is read by two.
LEMMA WritesBehind ==
    ASSUME NEW a, NEW b, NEW v, NEW w, Writes(a, v), Writes(b, w)
    PROVE  Writes(a \o b, v \o w)
  BY MembersBehind, RowsBehind, ZenonT(40) DEF Writes

\* A table writes what it reads.
LEMMA WritesItself ==
    ASSUME NEW t, IsTable(t)
    PROVE  Writes(t, t)
  BY DEF Writes

\* A member may be written as zero.
LEMMA WritesZero ==
    ASSUME NEW a, NEW code \in Codes
    PROVE  Writes(U(code, <<a>>), U(code, <<"zero">>))
  <1>1. MembersOf(U(code, <<"zero">>)) = {"zero"}
    BY DEF U, MembersOf, ToSet
  <1> QED BY <1>1, RowsAre, Zenon DEF Writes

\* The rows that are written as they are read.
LEMMA RowsWriteThemselves ==
    /\ \A code \in Codes : \A a : Writes(U(code, <<a>>), U(code, <<a>>))
    /\ \A code \in Codes : \A a, b : Writes(U(code, <<a, b>>), U(code, <<a, b>>))
    /\ \A code \in Codes : Writes(U(code, Flags), U(code, Flags))
  BY RowsAre, WritesItself, Zenon

\* write_seq_parameter_set writes nothing that read_seq_parameter_set does not read.
LEMMA WriteSeq == Writes(read_seq_parameter_set, write_seq_parameter_set)
  <1> DEFINE high == If("profile_idc", HighProfiles,
                        U(UE, <<"chroma_format_idc">>)
                        \o If("chroma_format_idc", {3}, U(1, <<"residual_colour_transform_flag">>))
                        \o U(UE, <<"bit_depth_luma_minus8", "bit_depth_chroma_minus8">>)
                        \o U(1, <<"qpprime_y_zero_transform_bypass_flag", "seq_scaling_matrix_present_flag">>)
                        \o If("seq_scaling_matrix_present_flag", {1}, U(1, ListFlags)))
             counts == If("pic_order_cnt_type", {1},
                          U(1, <<"delta_pic_order_always_zero_flag">>)
                          \o U(SE, <<"offset_for_non_ref_pic", "offset_for_top_to_bottom_field">>)
                          \o U(UE, <<"num_ref_frames_in_pic_order_cnt_cycle">>)
                          \o If("num_ref_frames_in_pic_order_cnt_cycle", From(1),
                                U(SE, <<"offset_for_ref_frame_0">>))
                          \o If("num_ref_frames_in_pic_order_cnt_cycle", From(2),
                                U(SE, <<"offset_for_ref_frame_1">>)))
             crop == If("frame_cropping_flag", {1},
                        U(UE, <<"frame_crop_left_offset", "frame_crop_right_offset",
                                "frame_crop_top_offset", "frame_crop_bottom_offset">>))
             order == If("pic_order_cnt_type", {0}, U(UE, <<"log2_max_pic_order_cnt_lsb_minus4">>))
             field == If("frame_mbs_only_flag", {0}, U(1, <<"mb_adaptive_frame_field_flag">>))
  <1>1. Writes(high, high)
    BY RowsAre, CodesOfRows, RowsUnder, RowsBehind, WritesItself, Zenon
  <1>2. Writes(counts, counts)
    BY RowsAre, CodesOfRows, RowsUnder, RowsBehind, WritesItself, Zenon
  <1>3. Writes(crop, crop) /\ Writes(order, order) /\ Writes(field, field)
    BY RowsAre, CodesOfRows, RowsUnder, WritesItself, Zenon
  <1> DEFINE first(zero) == U(8, <<"profile_idc">>) \o U(1, Flags) \o U(2, <<zero>>)
             second(zero) == first(zero) \o U(8, <<"level_idc">>) \o U(UE, <<"seq_parameter_set_id">>)
                             \o high
                             \o U(UE, <<"log2_max_frame_num_minus4", "pic_order_cnt_type">>)
             third(zero) == second(zero) \o order \o counts
                            \o U(UE, <<"num_ref_frames">>) \o U(1, <<"gaps_in_frame_num_value_allowed_flag">>)
             all(zero) == third(zero)
                          \o U(UE, <<"pic_width_in_mbs_minus1", "pic_height_in_map_units_minus1">>)
                          \o U(1, <<"frame_mbs_only_flag">>) \o field
                          \o U(1, <<"direct_8x8_inference_flag", "frame_cropping_flag">>) \o crop
                          \o U(1, <<"vui_parameters_present_flag">>)
             Alike(t(_)) == Writes(t("reserved_zero_2bits"), t("zero"))
  <1>4. /\ read_seq_parameter_set = all("reserved_zero_2bits")
        /\ write_seq_parameter_set = all("zero")
    BY Zenon DEF read_seq_parameter_set, write_seq_parameter_set
  <1> HIDE DEF high, counts, crop, order, field
  <1>5. Alike(first)
    BY WritesBehind, WritesZero, RowsWriteThemselves, CodesOfRows, Zenon
  <1> HIDE DEF first
  <1>6. Alike(second)
    BY <1>1, <1>5, WritesBehind, RowsWriteThemselves, CodesOfRows, Zenon
  <1> HIDE DEF second
  <1>7. Alike(third)
    BY <1>2, <1>3, <1>6, WritesBehind, RowsWriteThemselves, CodesOfRows, Zenon
  <1> HIDE DEF third
  <1>8. Alike(all)
    BY <1>3, <1>7, WritesBehind, RowsWriteThemselves, CodesOfRows, Zenon
  <1> QED BY <1>4, <1>8, Zenon
-----------------------------------------------------------------------------
(* What is read *)

\* Every name of a row is a member of its table.
LEMMA MembersOfRows ==
    ASSUME NEW t, IsTable(t), NEW M, MembersOf(t) \subseteq M
    PROVE  \A i \in 1 .. Len(t) : \A k \in DOMAIN t[i].names : t[i].names[k] \in M
  <1>1. DOMAIN t = 1 .. Len(t)
    BY TableRows
  <1>2. ASSUME NEW i \in 1 .. Len(t), NEW k \in DOMAIN t[i].names
        PROVE  t[i].names[k] \in M
    <2>1. t[i].names[k] \in ToSet(t[i].names)
      BY Zenon DEF ToSet
    <2>2. t[i].names[k] \in MembersOf(t)
      BY <1>1, <2>1, Zenon DEF MembersOf
    <2> QED BY <2>2
  <1> QED BY <1>2

\* The lesser of two numbers.
LEMMA LeastTyped ==
    ASSUME NEW a \in Nat, NEW b \in Nat
    PROVE  Least(a, b) \in 0 .. b
  BY DEF Least

\* What a code is read as, and the position after it.
IsRead(r, s) == r.val \in Int /\ r.pos \in 0 .. Len(s)

\* bs_read stops at the end of the stream.
LEMMA ReadTyped ==
    ASSUME NEW s \in Seq(Bits), NEW pos \in 0 .. Len(s), NEW n \in Nat
    PROVE  IsRead(bs_read(s, pos, n), s)
  <1>1. ASSUME NEW i \in 1 .. n
        PROVE  (IF pos + i <= Len(s) THEN s[pos + i] ELSE 0) \in Bits
    <2>1. CASE pos + i <= Len(s)
      <3>1. pos + i \in 1 .. Len(s)
        BY <2>1
      <3> QED BY <2>1, <3>1, ElementOfSeq
    <2>2. CASE ~(pos + i <= Len(s))
      BY <2>2 DEF Bits
    <2> QED BY <2>1, <2>2
  <1>2. PICK b : b = [i \in 1 .. n |-> IF pos + i <= Len(s) THEN s[pos + i] ELSE 0]
    OBVIOUS
  <1>3. b \in [1 .. n -> Bits]
    BY <1>1, <1>2
  <1>4. ValueOf(b) \in Int
    BY <1>3, ValueTyped
  <1>5. Least(pos + n, Len(s)) \in 0 .. Len(s)
    <2>1. pos + n \in Nat /\ Len(s) \in Nat
      OBVIOUS
    <2> QED BY <2>1, LeastTyped
  <1>6. PICK v : v = ValueOf(b)
    OBVIOUS
  <1>7. bs_read(s, pos, n) = [val |-> v, pos |-> Least(pos + n, Len(s))]
    BY <1>2, <1>6, Zenon DEF bs_read
  <1> QED BY <1>4, <1>5, <1>6, <1>7 DEF IsRead

\* The number of leading zeros is a number.
LEMMA ZerosTyped ==
    ASSUME NEW s \in Seq(Bits), NEW pos \in 0 .. Len(s)
    PROVE  LeadingZeros(s, pos) \in Nat
  <1>1. PICK ones : ones = {i \in pos + 1 .. Len(s) : s[i] = 1}
    OBVIOUS
  <1>2. Len(s) \in Nat /\ pos \in Nat
    OBVIOUS
  <1>3. CASE ones = {}
    <2>1. LeadingZeros(s, pos) = IF pos < Len(s) THEN Len(s) - pos - 1 ELSE 0
      BY <1>1, <1>3, Zenon DEF LeadingZeros
    <2> QED BY <1>2, <2>1
  <1>4. CASE ones # {}
    <2>1. LeadingZeros(s, pos) = (CHOOSE i \in ones : \A j \in ones : i <= j) - pos - 1
      BY <1>1, <1>4, Zenon DEF LeadingZeros
    <2>2. ones \subseteq Nat
      BY <1>1, <1>2
    <2>3. \E i \in ones : \A j \in ones : i <= j
      BY <1>4, <2>2, LeastOf
    <2>4. (CHOOSE i \in ones : \A j \in ones : i <= j) \in ones
      BY <2>3, Zenon
    <2>5. PICK i \in ones : i = (CHOOSE k \in ones : \A j \in ones : k <= j)
      BY <2>4
    <2>6. i \in pos + 1 .. Len(s)
      BY <1>1
    <2> QED BY <1>2, <2>1, <2>5, <2>6
  <1> QED BY <1>3, <1>4

\* bs_read_ue stops at the end of the stream.
LEMMA ReadUeTyped ==
    ASSUME NEW s \in Seq(Bits), NEW pos \in 0 .. Len(s)
    PROVE  IsRead(bs_read_ue(s, pos), s)
  <1>1. PICK zeros \in Nat : zeros = LeadingZeros(s, pos)
    BY ZerosTyped
  <1>2. PICK at \in 0 .. Len(s) : at = Least(pos + zeros + 1, Len(s))
    <2>1. pos + zeros + 1 \in Nat /\ Len(s) \in Nat
      OBVIOUS
    <2> QED BY <2>1, LeastTyped
  <1>3. PICK rest : rest = bs_read(s, at, zeros)
    OBVIOUS
  <1>4. rest.val \in Int /\ rest.pos \in 0 .. Len(s)
    BY <1>3, ReadTyped DEF IsRead
  <1>5. bs_read_ue(s, pos) = [val |-> 2^zeros - 1 + rest.val, pos |-> rest.pos]
    BY <1>1, <1>2, <1>3, Zenon DEF bs_read_ue
  <1>6. 2^zeros \in Int
    OBVIOUS
  <1>7. 2^zeros - 1 + rest.val \in Int
    BY <1>4, <1>6
  <1> QED BY <1>4, <1>5, <1>7 DEF IsRead

\* bs_read_se stops at the end of the stream.
LEMMA ReadSeTyped ==
    ASSUME NEW s \in Seq(Bits), NEW pos \in 0 .. Len(s)
    PROVE  IsRead(bs_read_se(s, pos), s)
  <1>1. PICK zeros \in Nat : zeros = LeadingZeros(s, pos)
    BY ZerosTyped
  <1>2. PICK rest : rest = bs_read(s, Least(pos + zeros + 1, Len(s)), zeros)
    OBVIOUS
  <1>3. PICK ue : ue = [val |-> 2^zeros - 1 + rest.val, pos |-> rest.pos]
    OBVIOUS
  <1>4. bs_read_ue(s, pos) = ue
    BY <1>1, <1>2, <1>3, Zenon DEF bs_read_ue
  <1>5. ue.val \in Int /\ ue.pos \in 0 .. Len(s)
    BY <1>4, ReadUeTyped DEF IsRead
  <1>6. PICK v \in Int : v = IF ue.val % 2 = 1 THEN (ue.val + 1) \div 2 ELSE -(ue.val \div 2)
    BY <1>5
  <1>7. SignedOf(ue) = [ue EXCEPT !.val = v]
    BY <1>6, Zenon DEF SignedOf
  <1>8. SignedOf(ue) = [val |-> v, pos |-> ue.pos]
    BY <1>3, <1>7
  <1> QED BY <1>4, <1>5, <1>8 DEF bs_read_se, IsRead

\* So does every code of a table.
LEMMA ReadCodeTyped ==
    ASSUME NEW s \in Seq(Bits), NEW pos \in 0 .. Len(s), NEW code \in Codes
    PROVE  IsRead(ReadCode(s, pos, code), s)
  <1>1. code = UE \/ code = SE \/ code \in Nat
    BY DEF Codes
  <1>2. CASE code = UE
    BY <1>2, ReadUeTyped DEF ReadCode
  <1>3. CASE code # UE /\ code = SE
    BY <1>3, ReadSeTyped DEF ReadCode
  <1>4. CASE code # UE /\ code # SE
    BY <1>1, <1>4, ReadTyped DEF ReadCode
  <1> QED BY <1>2, <1>3, <1>4

\* The members that are read so far, and where.
States(s) == [sps : [Members -> Int], pos : 0 .. Len(s)]

\* One member more.
ReadInto(x, s, row, i) ==
    LET next == ReadCode(s, x.pos, row.code)
    IN  [sps |-> [x.sps EXCEPT ![row.names[i]] = next.val], pos |-> next.pos]

\* One member is read.
LEMMA ReadIntoTyped ==
    ASSUME NEW s \in Seq(Bits), NEW row, row.code \in Codes, NEW x \in States(s), NEW i
    PROVE  ReadInto(x, s, row, i) \in States(s)
  <1>1. x.sps \in [Members -> Int] /\ x.pos \in 0 .. Len(s)
    BY DEF States
  <1>2. PICK r : r = ReadCode(s, x.pos, row.code)
    OBVIOUS
  <1>3. r.val \in Int /\ r.pos \in 0 .. Len(s)
    BY <1>1, <1>2, ReadCodeTyped DEF IsRead
  <1>4. PICK f : f = [x.sps EXCEPT ![row.names[i]] = r.val]
    OBVIOUS
  <1>5. f \in [Members -> Int]
    BY <1>1, <1>3, <1>4
  <1>6. ReadInto(x, s, row, i) = [sps |-> f, pos |-> r.pos]
    BY <1>2, <1>4, Zenon DEF ReadInto
  <1> QED BY <1>3, <1>5, <1>6 DEF States

\* The states of reading a row.
RowStates(f, n, row, s, from) ==
    f = [i \in 0 .. n |-> IF i = 0 THEN from ELSE ReadInto(f[i - 1], s, row, i)]

\* The members of a row are read one after the other.
LEMMA RowStatesExist ==
    ASSUME NEW s \in Seq(Bits), NEW row, row.code \in Codes, NEW n \in Nat,
           NEW from \in States(s)
    PROVE  \E f \in [0 .. n -> States(s)] : RowStates(f, n, row, s, from)
  <1>1. PICK S : S = States(s)
    OBVIOUS
  <1>2. PICK g : g = [p \in (1 .. n) \X S |-> ReadInto(p[2], s, row, p[1])]
    OBVIOUS
  <1>3. ASSUME NEW i \in 1 .. n, NEW x \in S
        PROVE  g[<<i, x>>] = ReadInto(x, s, row, i) /\ ReadInto(x, s, row, i) \in S
    BY <1>1, <1>2, ReadIntoTyped
  <1>4. g \in [(1 .. n) \X S -> S]
    BY <1>2, <1>3
  <1>5. PICK f \in [0 .. n -> S] : Steps(f, n, from, g)
    BY <1>1, <1>4, StepByStep, Zenon
  <1>6. ASSUME NEW i \in 0 .. n
        PROVE  f[i] = IF i = 0 THEN from ELSE ReadInto(f[i - 1], s, row, i)
    <2>1. CASE i = 0
      BY <1>5, <2>1 DEF Steps
    <2>2. CASE i # 0
      <3>1. i \in 1 .. n /\ i - 1 \in 0 .. n
        BY <2>2
      <3>2. f[i - 1] \in S
        BY <3>1
      <3> QED BY <1>3, <1>5, <2>2, <3>1, <3>2 DEF Steps
    <2> QED BY <2>1, <2>2
  <1>7. f = [i \in 0 .. n |-> f[i]]
    OBVIOUS
  <1>8. f = [i \in 0 .. n |-> IF i = 0 THEN from ELSE ReadInto(f[i - 1], s, row, i)]
    BY <1>6, <1>7
  <1> QED BY <1>1, <1>8 DEF RowStates

\* There is only one way to read them.
LEMMA OneRowStates ==
    ASSUME NEW s, NEW row, NEW n \in Nat, NEW from,
           NEW f, NEW h, RowStates(f, n, row, s, from), RowStates(h, n, row, s, from)
    PROVE  f = h
  <1>1. /\ \A i \in 0 .. n : f[i] = IF i = 0 THEN from ELSE ReadInto(f[i - 1], s, row, i)
        /\ \A i \in 0 .. n : h[i] = IF i = 0 THEN from ELSE ReadInto(h[i - 1], s, row, i)
    BY Zenon DEF RowStates
  <1>2. f[0] = h[0]
    BY <1>1
  <1>3. ASSUME NEW i \in 1 .. n, f[i - 1] = h[i - 1] PROVE f[i] = h[i]
    BY <1>1, <1>3
  <1>4. \A i \in 0 .. n : f[i] = h[i]
    BY <1>2, <1>3, SameValues
  <1>5. DOMAIN f = 0 .. n /\ DOMAIN h = 0 .. n
    BY Zenon DEF RowStates
  <1>6. f = [i \in 0 .. n |-> f[i]] /\ h = [i \in 0 .. n |-> h[i]]
    BY <1>5, Zenon DEF RowStates
  <1> QED BY <1>4, <1>6, Zenon

\* A row is read.
LEMMA ReadRowTyped ==
    ASSUME NEW s \in Seq(Bits), NEW row, row.code \in Codes, IsSeq(row.names),
           NEW from \in States(s)
    PROVE  ReadRow(row, s, from) \in States(s)
  <1>1. PICK n \in Nat : n = Len(row.names)
    BY DEF IsSeq
  <1>2. PICK f \in [0 .. n -> States(s)] : RowStates(f, n, row, s, from)
    BY <1>1, RowStatesExist
  <1>3. \A h : RowStates(h, n, row, s, from) => h = f
    BY <1>1, <1>2, OneRowStates
  <1>4. (CHOOSE h : RowStates(h, n, row, s, from)) = f
    BY <1>2, <1>3, Zenon
  <1>5. ReadRow(row, s, from) = (CHOOSE h : RowStates(h, n, row, s, from))[n]
    BY <1>1, Zenon DEF ReadRow, RowStates, ReadInto
  <1> QED BY <1>2, <1>4, <1>5

\* The states of reading a table.
ReadIf(x, s, row) == IF IsPresent(row, x.sps) THEN ReadRow(row, s, x) ELSE x

\* The states in which the rows of a table are read, from the first to the last.
TableStates(f, n, table, s, from) ==
    f = [i \in 0 .. n |-> IF i = 0 THEN from ELSE ReadIf(f[i - 1], s, table[i])]

\* The rows of a table are read one after the other.
LEMMA TableStatesExist ==
    ASSUME NEW s \in Seq(Bits), NEW table, IsTable(table), NEW n \in Nat, n = Len(table),
           NEW from \in States(s)
    PROVE  \E f \in [0 .. n -> States(s)] : TableStates(f, n, table, s, from)
  <1>1. PICK S : S = States(s)
    OBVIOUS
  <1>2. PICK g : g = [p \in (1 .. n) \X S |-> ReadIf(p[2], s, table[p[1]])]
    OBVIOUS
  <1>3. ASSUME NEW i \in 1 .. n, NEW x \in S
        PROVE  g[<<i, x>>] = ReadIf(x, s, table[i]) /\ ReadIf(x, s, table[i]) \in S
    <2>1. IsSeq(table[i].names) /\ table[i].code \in Codes
      BY TableRows
    <2>2. ReadRow(table[i], s, x) \in S
      BY <1>1, <2>1, ReadRowTyped
    <2> QED BY <1>2, <2>2 DEF ReadIf
  <1>4. g \in [(1 .. n) \X S -> S]
    BY <1>2, <1>3
  <1>5. PICK f \in [0 .. n -> S] : Steps(f, n, from, g)
    BY <1>1, <1>4, StepByStep, Zenon
  <1>6. ASSUME NEW i \in 0 .. n
        PROVE  f[i] = IF i = 0 THEN from ELSE ReadIf(f[i - 1], s, table[i])
    <2>1. CASE i = 0
      BY <1>5, <2>1 DEF Steps
    <2>2. CASE i # 0
      <3>1. i \in 1 .. n /\ i - 1 \in 0 .. n
        BY <2>2
      <3>2. f[i - 1] \in S
        BY <3>1
      <3> QED BY <1>3, <1>5, <2>2, <3>1, <3>2 DEF Steps
    <2> QED BY <2>1, <2>2
  <1>7. f = [i \in 0 .. n |-> f[i]]
    OBVIOUS
  <1>8. f = [i \in 0 .. n |-> IF i = 0 THEN from ELSE ReadIf(f[i - 1], s, table[i])]
    BY <1>6, <1>7
  <1> QED BY <1>1, <1>8 DEF TableStates

\* There is only one way to read these.
LEMMA OneTableStates ==
    ASSUME NEW s, NEW table, NEW n \in Nat, NEW from,
           NEW f, NEW h, TableStates(f, n, table, s, from), TableStates(h, n, table, s, from)
    PROVE  f = h
  <1>1. /\ \A i \in 0 .. n : f[i] = IF i = 0 THEN from ELSE ReadIf(f[i - 1], s, table[i])
        /\ \A i \in 0 .. n : h[i] = IF i = 0 THEN from ELSE ReadIf(h[i - 1], s, table[i])
    BY Zenon DEF TableStates
  <1>2. f[0] = h[0]
    BY <1>1
  <1>3. ASSUME NEW i \in 1 .. n, f[i - 1] = h[i - 1] PROVE f[i] = h[i]
    BY <1>1, <1>3
  <1>4. \A i \in 0 .. n : f[i] = h[i]
    BY <1>2, <1>3, SameValues
  <1>5. DOMAIN f = 0 .. n /\ DOMAIN h = 0 .. n
    BY Zenon DEF TableStates
  <1>6. f = [i \in 0 .. n |-> f[i]] /\ h = [i \in 0 .. n |-> h[i]]
    BY <1>5, Zenon DEF TableStates
  <1> QED BY <1>4, <1>6, Zenon

\* A table is read.
LEMMA ReadTableTyped ==
    ASSUME NEW s \in Seq(Bits), NEW table, IsTable(table), NEW from \in States(s)
    PROVE  ReadTable(table, s, from) \in States(s)
  <1>1. PICK n \in Nat : n = Len(table)
    BY TableRows
  <1>2. PICK f \in [0 .. n -> States(s)] : TableStates(f, n, table, s, from)
    BY <1>1, TableStatesExist
  <1>3. \A h : TableStates(h, n, table, s, from) => h = f
    BY <1>1, <1>2, OneTableStates
  <1>4. (CHOOSE h : TableStates(h, n, table, s, from)) = f
    BY <1>2, <1>3, Zenon
  <1>5. ReadTable(table, s, from) = (CHOOSE h : TableStates(h, n, table, s, from))[n]
    BY <1>1, Zenon DEF ReadTable, TableStates, ReadIf
  <1> QED BY <1>2, <1>4, <1>5

\* Whatever the bytes are, they are read as numbers.
LEMMA ReadSpsTyped ==
    ASSUME NEW bytes \in Seq(Bytes)
    PROVE  ReadSps(bytes) \in [Members -> Int]
  <1>1. PICK s \in Seq(Bits) : s = BitsOf(bytes)
    BY BitsTyped
  <1>2. PICK none : none = [sps |-> NoSps, pos |-> 0]
    OBVIOUS
  <1>3. none \in States(s)
    <2>1. NoSps \in [Members -> Int]
      BY DEF NoSps
    <2>2. 0 \in 0 .. Len(s)
      OBVIOUS
    <2> QED BY <1>2, <2>1, <2>2 DEF States
  <1>4. PICK head : head = ReadTable(read_seq_parameter_set, s, none)
    OBVIOUS
  <1>5. head \in States(s)
    BY <1>3, <1>4, SeqTable, ReadTableTyped
  <1>6. PICK all : all = ReadTable(read_vui_parameters, s, head)
    OBVIOUS
  <1>7. all \in States(s)
    BY <1>5, <1>6, VuiTable, ReadTableTyped
  <1>8. head.sps \in [Members -> Int] /\ all.sps \in [Members -> Int]
    BY <1>5, <1>7 DEF States
  <1>9. ReadSps(bytes) = IF head.sps["vui_parameters_present_flag"] = 1 THEN all.sps ELSE head.sps
    BY <1>1, <1>2, <1>4, <1>6, Zenon DEF ReadSps
  <1> QED BY <1>8, <1>9
-----------------------------------------------------------------------------
(* What is written *)

\* bs_write writes bits.
LEMMA WriteTyped ==
    ASSUME NEW n \in Nat, NEW v \in Int
    PROVE  bs_write(n, v) \in Seq(Bits)
  <1>1. ASSUME NEW i \in 1 .. n PROVE BitOf(v, (n - i) % 32) \in Bits
    <2>1. (n - i) % 32 \in 0 .. 31
      OBVIOUS
    <2> QED BY <2>1, BitTyped
  <1>2. PICK f : f = [i \in 1 .. n |-> BitOf(v, (n - i) % 32)]
    OBVIOUS
  <1>3. f \in [1 .. n -> Bits]
    BY <1>1, <1>2
  <1>4. bs_write(n, v) = f
    BY <1>2, Zenon DEF bs_write
  <1> QED BY <1>3, <1>4

\* Every value has a width that bs_write_ue finds.
LEMMA WidthTyped ==
    ASSUME NEW v
    PROVE  Width(v) \in 1 .. 31
  <1>1. PICK T : T = {n \in 1 .. 31 : n = 31 \/ v < 2^n}
    OBVIOUS
  <1>2. 31 \in T /\ T \subseteq Nat
    BY <1>1
  <1>3. PICK n \in T : \A m \in T : n <= m
    BY <1>2, LeastOf
  <1>4. n \in 1 .. 31 /\ (n = 31 \/ v < 2^n)
    BY <1>1
  <1>5. n = 1 \/ ~(v < 2^(n - 1))
    <2>1. SUFFICES ASSUME n # 1, v < 2^(n - 1) PROVE FALSE
      OBVIOUS
    <2>2. n - 1 \in 1 .. 31
      BY <1>4, <2>1
    <2>3. n - 1 \in T
      BY <1>1, <2>1, <2>2
    <2> QED BY <1>3, <1>4, <2>3
  <1>6. \E k \in 1 .. 31 : (k = 31 \/ v < 2^k) /\ (k = 1 \/ ~(v < 2^(k - 1)))
    BY <1>4, <1>5, Zenon
  <1> QED BY <1>6, Zenon DEF Width

\* bs_write_ue writes bits.
LEMMA WriteUeTyped ==
    ASSUME NEW v \in Int
    PROVE  bs_write_ue(v) \in Seq(Bits)
  <1>1. PICK w \in 1 .. 31 : w = Width(v + 1)
    BY WidthTyped
  <1>2. 2 * w - 1 \in Nat /\ v + 1 \in Int
    OBVIOUS
  <1>3. bs_write_ue(v) = bs_write(2 * w - 1, v + 1)
    BY <1>1, Zenon DEF bs_write_ue
  <1> QED BY <1>2, <1>3, WriteTyped

\* bs_write_se writes bits.
LEMMA WriteSeTyped ==
    ASSUME NEW v \in Int
    PROVE  bs_write_se(v) \in Seq(Bits)
  <1>1. PICK u \in Int : u = IF v <= 0 THEN -2 * v ELSE 2 * v - 1
    OBVIOUS
  <1>2. bs_write_se(v) = bs_write_ue(u)
    BY <1>1, Zenon DEF bs_write_se
  <1> QED BY <1>2, WriteUeTyped

\* The bits of a member, of a row and of a table, by the codes of bs.h.
CodeBits(v, code) ==
    IF code = UE THEN bs_write_ue(v) ELSE IF code = SE THEN bs_write_se(v) ELSE bs_write(code, v)

\* The bits that are written of a row and of a table.
RowBits(row, sps) ==
    FlattenSeq([i \in DOMAIN row.names |-> CodeBits(sps[row.names[i]], row.code)])

TableBits(table, sps) ==
    FlattenSeq([i \in DOMAIN table |->
                   IF IsPresent(table[i], sps) THEN RowBits(table[i], sps) ELSE <<>>])

\* What Coded computes, row by row and code by code.
LEMMA CodedIsTableBits ==
    ASSUME NEW table, NEW sps
    PROVE  Coded(table, sps, bs_write_ue, bs_write_se) = TableBits(table, sps)
  BY Zenon DEF Coded, TableBits, RowBits, CodeBits

\* A member is written as bits.
LEMMA CodeBitsTyped ==
    ASSUME NEW v \in Int, NEW code \in Codes
    PROVE  CodeBits(v, code) \in Seq(Bits)
  <1>1. code = UE \/ code = SE \/ code \in Nat
    BY DEF Codes
  <1>2. CASE code = UE
    BY <1>2, WriteUeTyped DEF CodeBits
  <1>3. CASE code # UE /\ code = SE
    BY <1>3, WriteSeTyped DEF CodeBits
  <1>4. CASE code # UE /\ code # SE
    BY <1>1, <1>4, WriteTyped DEF CodeBits
  <1> QED BY <1>2, <1>3, <1>4

\* Sequences put one behind the other stay sequences of their elements.
LEMMA FlattenTyped ==
    ASSUME NEW E, NEW n \in Nat, NEW parts \in [1 .. n -> Seq(E)]
    PROVE  FlattenSeq(parts) \in Seq(E)
  <1>1. PICK Z : Z = Seq(E)
    OBVIOUS
  <1>2. parts \in [1 .. n -> Z]
    BY <1>1
  <1>3. Len(parts) = n
    BY <1>2, LenOfFunction
  <1> QED BY <1>3, Flattened, Zenon

\* A row is written as bits.
LEMMA RowBitsTyped ==
    ASSUME NEW row, row.code \in Codes, NEW sps \in [Members -> Int], NEW names, names = row.names,
           IsSeq(names), \A k \in DOMAIN names : names[k] \in Members
    PROVE  RowBits(row, sps) \in Seq(Bits)
  <1>1. PICK n \in Nat : DOMAIN names = 1 .. n
    <2>1. PICK S : names \in Seq(S)
      BY DEF IsSeq
    <2> QED BY <2>1, LenProperties
  <1>2. PICK parts : parts = [i \in 1 .. n |-> CodeBits(sps[names[i]], row.code)]
    OBVIOUS
  <1>3. ASSUME NEW i \in 1 .. n PROVE parts[i] \in Seq(Bits)
    <2>1. sps[names[i]] \in Int
      BY <1>1
    <2>2. parts[i] = CodeBits(sps[names[i]], row.code)
      BY <1>2
    <2> QED BY <2>1, <2>2, CodeBitsTyped
  <1>4. parts \in [1 .. n -> Seq(Bits)]
    BY <1>2, <1>3
  <1>5. RowBits(row, sps) = FlattenSeq(parts)
    BY <1>1, <1>2, Zenon DEF RowBits
  <1> QED BY <1>4, <1>5, FlattenTyped, Zenon

\* A table is written as bits.
LEMMA TableBitsTyped ==
    ASSUME NEW table, IsTable(table), MembersOf(table) \subseteq Members,
           NEW sps \in [Members -> Int]
    PROVE  TableBits(table, sps) \in Seq(Bits)
  <1>1. PICK n \in Nat : n = Len(table) /\ DOMAIN table = 1 .. n
    BY TableRows
  <1>2. PICK parts : parts = [i \in 1 .. n |-> IF IsPresent(table[i], sps)
                                                THEN RowBits(table[i], sps) ELSE <<>>]
    OBVIOUS
  <1>3. ASSUME NEW i \in 1 .. n PROVE parts[i] \in Seq(Bits)
    <2>1. PICK row, names : row = table[i] /\ names = row.names
      OBVIOUS
    <2>2. IsSeq(names) /\ row.code \in Codes
      BY <1>1, <2>1, TableRows
    <2>3. \A k \in DOMAIN names : names[k] \in Members
      BY <1>1, <2>1, MembersOfRows
    <2>4. RowBits(row, sps) \in Seq(Bits)
      BY <2>1, <2>2, <2>3, RowBitsTyped
    <2>5. <<>> \in Seq(Bits)
      OBVIOUS
    <2>6. parts[i] = RowBits(row, sps) \/ parts[i] = <<>>
      BY <1>2, <2>1
    <2> QED BY <2>4, <2>5, <2>6
  <1>4. parts \in [1 .. n -> Seq(Bits)]
    BY <1>2, <1>3
  <1>5. TableBits(table, sps) = FlattenSeq(parts)
    BY <1>1, <1>2, Zenon DEF TableBits
  <1> QED BY <1>4, <1>5, FlattenTyped, Zenon

\* The bits at the end are bits.
LEMMA TrailingTyped ==
    ASSUME NEW bits \in Seq(Bits)
    PROVE  write_rbsp_trailing_bits(bits) \in Seq(Bits)
  <1>1. PICK n \in Nat : n = 7 - (Len(bits) % 8)
    OBVIOUS
  <1>2. PICK zeros : zeros = [i \in 1 .. n |-> 0]
    OBVIOUS
  <1>3. zeros \in [1 .. n -> Bits]
    BY <1>2 DEF Bits
  <1>4. zeros \in Seq(Bits)
    BY <1>3
  <1>5. bits \o <<1>> \in Seq(Bits)
    BY DEF Bits
  <1>6. (bits \o <<1>>) \o zeros \in Seq(Bits)
    BY <1>4, <1>5, ConcatProperties
  <1>7. write_rbsp_trailing_bits(bits) = (bits \o <<1>>) \o zeros
    BY <1>1, <1>2, Zenon DEF write_rbsp_trailing_bits
  <1> QED BY <1>6, <1>7

\* A condition adds no member.
LEMMA MembersUnder ==
    ASSUME NEW name, NEW values, NEW rows, IsTable(rows)
    PROVE  MembersOf(If(name, values, rows)) \subseteq MembersOf(rows)
  <1>1. PICK n \in Nat : DOMAIN rows = 1 .. n
    BY TableRows
  <1>2. PICK f : f = If(name, values, rows)
    OBVIOUS
  <1>3. f = [i \in 1 .. n |-> [rows[i] EXCEPT !.when = @ \cup {<<name, values>>}]]
    BY <1>1, <1>2, Zenon DEF If
  <1>4. ASSUME NEW i \in 1 .. n PROVE f[i].names = rows[i].names
    <2>1. PICK N, W : rows \in Seq(Rows(N, W))
      BY DEF IsTable
    <2>2. DOMAIN rows = 1 .. Len(rows)
      BY <2>1, LenProperties
    <2>3. rows[i] \in Rows(N, W)
      BY <1>1, <2>1, <2>2, ElementOfSeq
    <2>4. f[i] = [rows[i] EXCEPT !.when = @ \cup {<<name, values>>}]
      BY <1>3
    <2> QED BY <2>3, <2>4 DEF Rows
  <1>5. DOMAIN f = 1 .. n
    BY <1>3
  <1>6. ASSUME NEW x, x \in MembersOf(f) PROVE x \in MembersOf(rows)
    <2>1. PICK i \in 1 .. n : x \in ToSet(f[i].names)
      BY <1>5, <1>6, Zenon DEF MembersOf
    <2> QED BY <1>1, <1>4, <2>1, Zenon DEF MembersOf
  <1> QED BY <1>2, <1>6

\* The bits of a parameter set that is written.
LEMMA WrittenTyped ==
    ASSUME NEW sps \in [Members -> Int]
    PROVE  TableBits(write_seq_parameter_set
                     \o If("vui_parameters_present_flag", {1}, write_vui_parameters), sps) \in Seq(Bits)
  <1>1. PICK vui : vui = If("vui_parameters_present_flag", {1}, write_vui_parameters)
    OBVIOUS
  <1>2. PICK table : table = write_seq_parameter_set \o vui
    OBVIOUS
  <1>3. /\ IsTable(write_seq_parameter_set)
        /\ MembersOf(write_seq_parameter_set) \subseteq Members
    BY WriteSeq DEF Writes, Members
  <1>4. IsTable(vui) /\ MembersOf(vui) \subseteq Members
    <2>1. IsTable(write_vui_parameters) /\ MembersOf(write_vui_parameters) \subseteq Members
      BY WriteVui, VuiTable DEF Members
    <2>2. IsTable(vui)
      BY <1>1, <2>1, RowsUnder, Zenon
    <2>3. MembersOf(vui) \subseteq MembersOf(write_vui_parameters)
      BY <1>1, <2>1, MembersUnder, Zenon
    <2> QED BY <2>1, <2>2, <2>3
  <1>5. IsTable(table)
    BY <1>2, <1>3, <1>4, RowsBehind, Zenon
  <1>6. MembersOf(table) = MembersOf(write_seq_parameter_set) \cup MembersOf(vui)
    BY <1>2, <1>3, <1>4, MembersBehind, Zenon
  <1>7. TableBits(table, sps) \in Seq(Bits)
    BY <1>3, <1>4, <1>5, <1>6, TableBitsTyped
  <1> QED BY <1>1, <1>2, <1>7

\* A parameter set is written as bytes.
LEMMA WriteSpsTyped ==
    ASSUME NEW sps \in [Members -> Int]
    PROVE  WriteSps(sps) \in Seq(Bytes)
  <1>1. PICK bits \in Seq(Bits) :
            bits = TableBits(write_seq_parameter_set
                             \o If("vui_parameters_present_flag", {1}, write_vui_parameters), sps)
    BY WrittenTyped
  <1>2. PICK trailed \in Seq(Bits) : trailed = write_rbsp_trailing_bits(bits)
    BY TrailingTyped
  <1>3. WriteSps(sps) = BytesOf(trailed)
    BY <1>1, <1>2, CodedIsTableBits, Zenon DEF WriteSps
  <1> QED BY <1>3, BytesTyped

\* A description of colours is of numbers.
LEMMA DescriptionTyped ==
    ASSUME NEW range \in Int, NEW primaries \in Int, NEW transfer \in Int, NEW matrix \in Int,
           NEW d, d = Description(range, primaries, transfer, matrix)
    PROVE  /\ \A m \in DOMAIN d : d[m] \in Int
           /\ \A m \in DOMAIN d : [d EXCEPT !.vui_parameters_present_flag = 0][m] \in Int
           /\ DOMAIN [d EXCEPT !.vui_parameters_present_flag = 0] = DOMAIN d
  BY DEF Description

\* The colours of a matrix are integers.
LEMMA ColourTyped ==
    ASSUME NEW matrix, NEW c, c = ColourOf(matrix)
    PROVE  \A m \in DOMAIN c : c[m] \in Int
  <1> DEFINE Numbers(d) == \A m \in DOMAIN d : d[m] \in Int
  <1>1. \A r, p, t, m \in Int : Numbers(Description(r, p, t, m))
    BY DescriptionTyped
  <1>2. Numbers([Description(1, 1, 1, 1) EXCEPT !.vui_parameters_present_flag = 0])
    BY DescriptionTyped
  <1> HIDE DEF Numbers
  <1>3. Numbers(ColourOf(matrix))
    <2>1. 0 \in Int /\ 1 \in Int /\ 5 \in Int /\ 6 \in Int /\ 8 \in Int
      OBVIOUS
    <2>2. /\ Numbers(Description(0, 5, 6, 5)) /\ Numbers(Description(1, 5, 6, 5))
          /\ Numbers(Description(1, 5, 8, 5)) /\ Numbers(Description(0, 1, 1, 1))
          /\ Numbers(Description(1, 1, 1, 1))
      BY <1>1, <2>1, Zenon
    <2> QED BY <1>2, <2>2 DEF ColourOf
  <1> QED BY <1>3 DEF Numbers

\* A parameter set with the colours of a matrix in it is one.
LEMMA TaggedTyped ==
    ASSUME NEW sps \in [Members -> Int], NEW matrix
    PROVE  Tagged(sps, matrix) \in [Members -> Int]
  <1>1. PICK c : c = ColourOf(matrix)
    OBVIOUS
  <1>2. \A m \in DOMAIN c : c[m] \in Int
    BY <1>1, ColourTyped
  <1>3. Tagged(sps, matrix) = [m \in Members |-> IF m \in DOMAIN c THEN c[m] ELSE sps[m]]
    BY <1>1 DEF Tagged
  <1>4. \A m \in Members : (IF m \in DOMAIN c THEN c[m] ELSE sps[m]) \in Int
    BY <1>2
  <1> QED BY <1>3, <1>4

\* add_vui makes bytes of bytes, no more than there is room for.
LEMMA AddVuiTyped ==
    ASSUME NEW src \in Seq(Bytes), NEW room \in Int, NEW matrix,
           NEW sps, sps = add_vui(src, room, matrix)
    PROVE  sps \in Seq(Bytes) /\ Len(sps) \in Nat
  <1>1. PICK coded \in Seq(Bytes) : coded = WriteSps(Tagged(ReadSps(src), matrix))
    BY ReadSpsTyped, TaggedTyped, WriteSpsTyped
  <1>2. PICK n \in Int : n = IF Len(coded) <= room THEN Len(coded) ELSE room
    OBVIOUS
  <1>3. sps = SubSeq(coded, 1, n)
    BY <1>1, <1>2, Zenon DEF add_vui
  <1>4. \A i \in 1 .. n : coded[i] \in Bytes
    <2>1. TAKE i \in 1 .. n
    <2>2. i \in 1 .. Len(coded)
      BY <1>2
    <2> QED BY <2>2, ElementOfSeq
  <1>5. sps \in Seq(Bytes)
    BY <1>3, <1>4, SubSeqProperties
  <1> QED BY <1>5

\* k is one of the numbers of a bit.
LEMMA Numbers32 ==
    ASSUME NEW k \in 0 .. 31
    PROVE  \/ k = 0 \/ k = 1 \/ k = 2 \/ k = 3 \/ k = 4 \/ k = 5 \/ k = 6 \/ k = 7
           \/ k = 8 \/ k = 9 \/ k = 10 \/ k = 11 \/ k = 12 \/ k = 13 \/ k = 14 \/ k = 15
           \/ k = 16 \/ k = 17 \/ k = 18 \/ k = 19 \/ k = 20 \/ k = 21 \/ k = 22 \/ k = 23
           \/ k = 24 \/ k = 25 \/ k = 26 \/ k = 27 \/ k = 28 \/ k = 29 \/ k = 30 \/ k = 31
  OBVIOUS

\* Powers of 2 double.
Doubles(k) == 2^(k + 1) = 2 * 2^k /\ 2^k \in Nat /\ 2^k >= 1

\* The powers of 2 that the code needs.
LEMMA Doubled ==
    ASSUME NEW k \in 0 .. 31
    PROVE  Doubles(k)
  <1>1.    Doubles(0) /\ Doubles(1) /\ Doubles(2) /\ Doubles(3) /\ Doubles(4) /\ Doubles(5)
        /\ Doubles(6) /\ Doubles(7) /\ Doubles(8) /\ Doubles(9) /\ Doubles(10) /\ Doubles(11)
        /\ Doubles(12) /\ Doubles(13) /\ Doubles(14) /\ Doubles(15) /\ Doubles(16) /\ Doubles(17)
        /\ Doubles(18) /\ Doubles(19) /\ Doubles(20) /\ Doubles(21) /\ Doubles(22) /\ Doubles(23)
        /\ Doubles(24) /\ Doubles(25) /\ Doubles(26) /\ Doubles(27) /\ Doubles(28) /\ Doubles(29)
        /\ Doubles(30) /\ Doubles(31)
    BY DEF Doubles
  <1> QED BY <1>1, Numbers32, ZenonT(40)

\* A number without its lowest k bits.
Half(v, k) == v \div 2^k

\* A number divided by a power of 2, one bit at a time.
Halved(v, k) ==
    /\ Half(v, k + 1) = Half(v, k) \div 2 /\ Half(v, k) \in Nat
    /\ v < 2^k => Half(v, k) = 0
    /\ v >= 2^k /\ v < 2^(k + 1) => Half(v, k) = 1

\* It is so for each of the 32 bits of a word.
LEMMA Halves ==
    ASSUME NEW v \in Nat, NEW k \in 0 .. 31
    PROVE  Halved(v, k)
  <1>1.    Halved(v, 0) /\ Halved(v, 1) /\ Halved(v, 2) /\ Halved(v, 3) /\ Halved(v, 4)
        /\ Halved(v, 5) /\ Halved(v, 6) /\ Halved(v, 7) /\ Halved(v, 8) /\ Halved(v, 9)
        /\ Halved(v, 10) /\ Halved(v, 11) /\ Halved(v, 12) /\ Halved(v, 13) /\ Halved(v, 14)
        /\ Halved(v, 15) /\ Halved(v, 16) /\ Halved(v, 17) /\ Halved(v, 18) /\ Halved(v, 19)
        /\ Halved(v, 20) /\ Halved(v, 21) /\ Halved(v, 22) /\ Halved(v, 23) /\ Halved(v, 24)
        /\ Halved(v, 25) /\ Halved(v, 26) /\ Halved(v, 27) /\ Halved(v, 28) /\ Halved(v, 29)
        /\ Halved(v, 30) /\ Halved(v, 31)
    BY DEF Halved, Half
  <1> QED BY <1>1, Numbers32, ZenonT(40)

\* The numbers that are taken apart into bits.
Words == {v \in Nat : v <= 2147483647}

\* A bit of a word is what it loses with that bit.
LEMMA BitOfHalf ==
    ASSUME NEW v \in Words, NEW k \in 0 .. 31
    PROVE  /\ Half(v, k) = 2 * Half(v, k + 1) + BitOf(v, k)
           /\ Half(v, k) \in Nat /\ Half(v, k + 1) \in Nat /\ BitOf(v, k) \in {0, 1}
  <1>1. v \in Nat
    BY DEF Words
  <1>2. Half(v, k + 1) = Half(v, k) \div 2 /\ Half(v, k) \in Nat
    BY <1>1, Halves DEF Halved
  <1>3. CASE k = 31
    <2>1. Half(v, 31) = 0
      BY DEF Half, Words
    <2>2. BitOf(v, 31) = 0
      BY DEF BitOf
    <2> QED BY <1>2, <1>3, <2>1, <2>2
  <1>4. CASE k # 31
    <2>1. BitOf(v, k) = Half(v, k) % 2
      BY <1>4 DEF BitOf, Half
    <2> QED BY <1>2, <2>1
  <1> QED BY <1>3, <1>4

\* A word by itself.
LEMMA HalfAtZero ==
    ASSUME NEW v \in Words
    PROVE  Half(v, 0) = v
  BY DEF Half, Words

\* 2^n, if there is something above the bits; else nothing.
Above(h, n) == IF h = 0 THEN 0 ELSE 2^n

\* The number that the n lowest bits of a word stand for, below a highest bit
\* that is not among them.
LEMMA ValueOfBits ==
    ASSUME NEW n \in 0 .. 31, NEW w \in Words, NEW bits \in [1 .. n -> Bits],
           \A i \in 1 .. n : bits[i] = BitOf(w, n - i), NEW h \in {0, 1}, Half(w, n) = h
    PROVE  ValueOf(bits) \in Nat /\ ValueOf(bits) + Above(h, n) = w
  <1>1. PICK f \in [0 .. n -> Nat] : Values(f, bits, n)
    BY ValuesExist
  <1>2. Len(bits) = n
    BY LenOfFunction
  <1>3. ValueOf(bits) = f[n]
    <2>1. n \in Nat
      OBVIOUS
    <2> QED BY <1>1, <1>2, <2>1, ValueIsLast, Zenon
  <1>4. \A i \in 0 .. n : f[i] = IF i = 0 THEN 0 ELSE 2 * f[i - 1] + bits[i]
    BY <1>1, Zenon DEF Values
  <1> DEFINE T == {i \in 0 .. n : f[i] + Above(h, i) = Half(w, n - i)}
  <1>5. 0 \in T
    <2>1. f[0] = 0
      BY <1>4
    <2>2. Above(h, 0) = h
      BY DEF Above
    <2> QED BY <2>1, <2>2
  <1>6. ASSUME NEW i \in 1 .. n, i - 1 \in T PROVE i \in T
    <2>1. f[i - 1] + Above(h, i - 1) = Half(w, n - (i - 1)) /\ i - 1 \in 0 .. 31
      BY <1>6, SMTT(40)
    <2>2. n - i \in 0 .. 31 /\ n - (i - 1) = (n - i) + 1
      OBVIOUS
    <2>3. Half(w, n - i) = 2 * Half(w, (n - i) + 1) + bits[i] /\ bits[i] \in {0, 1}
      BY <2>2, BitOfHalf
    <2>4. f[i] = 2 * f[i - 1] + bits[i] /\ f[i - 1] \in Nat
      BY <1>4, SMTT(40)
    <2>5. Above(h, i) = 2 * Above(h, i - 1) /\ Above(h, i - 1) \in Nat
      <3>1. Doubles(i - 1)
        BY <2>1, Doubled
      <3>2. (i - 1) + 1 = i
        OBVIOUS
      <3>3. 2^i = 2 * 2^(i - 1) /\ 2^(i - 1) \in Nat
        BY <3>1, <3>2 DEF Doubles
      <3> QED BY <3>3 DEF Above
    <2>6. Half(w, n - (i - 1)) = Half(w, (n - i) + 1)
      BY <2>2
    <2>7. f[i] + Above(h, i) = Half(w, n - i)
      <3>1. PICK a \in Nat, b \in Nat, c \in Nat :
                a = Above(h, i - 1) /\ b = f[i - 1] /\ c = Half(w, (n - i) + 1)
        <4>1. Half(w, (n - i) + 1) \in Nat
          BY <2>2, BitOfHalf
        <4> QED BY <2>4, <2>5, <4>1
      <3>2. b + a = c
        BY <2>1, <2>6, <3>1
      <3>3. bits[i] \in Int
        BY <2>3
      <3>4. f[i] = 2 * b + bits[i] /\ Above(h, i) = 2 * a /\ Half(w, n - i) = 2 * c + bits[i]
        BY <2>3, <2>4, <2>5, <3>1
      <3>5. PICK x \in Int : x = bits[i]
        BY <3>3
      <3>6. f[i] + Above(h, i) = (2 * b + x) + 2 * a /\ Half(w, n - i) = 2 * c + x
        BY <3>4, <3>5, Zenon
      <3>7. (2 * b + x) + 2 * a = 2 * c + x
        BY <3>2
      <3> QED BY <3>6, <3>7, Zenon
    <2> QED BY <2>7
  <1> HIDE DEF T
  <1>7. n \in T
    <2>1. n \in Nat
      OBVIOUS
    <2>2. 0 .. n \subseteq T
      BY <1>5, <1>6, <2>1, UpTo
    <2>3. n \in 0 .. n
      BY <2>1
    <2> QED BY <2>2, <2>3
  <1>8. f[n] + Above(h, n) = Half(w, n - n)
    BY <1>7 DEF T
  <1>9. Half(w, n - n) = w
    <2>1. n - n = 0
      OBVIOUS
    <2> QED BY <2>1, HalfAtZero
  <1> QED BY <1>3, <1>8, <1>9

\* A positive word and its width.
LEMMA WidthIs ==
    ASSUME NEW w \in Words, w # 0
    PROVE  \E n \in 1 .. 31 : n = Width(w) /\ w < 2^n /\ w >= 2^(n - 1)
                              /\ Half(w, n) = 0 /\ Half(w, n - 1) = 1
  <1> DEFINE IsWidth(n) == (n = 31 \/ w < 2^n) /\ (n = 1 \/ ~(w < 2^(n - 1)))
  <1>1. \E n \in 1 .. 31 : IsWidth(n)
    <2>1. PICK T : T = {n \in 1 .. 31 : n = 31 \/ w < 2^n}
      OBVIOUS
    <2>2. 31 \in T /\ T \subseteq Nat
      BY <2>1
    <2>3. PICK n \in T : \A m \in T : n <= m
      BY <2>2, LeastOf
    <2>4. n \in 1 .. 31 /\ (n = 31 \/ w < 2^n)
      BY <2>1
    <2>5. n = 1 \/ ~(w < 2^(n - 1))
      <3>1. SUFFICES ASSUME n # 1, w < 2^(n - 1) PROVE FALSE
        OBVIOUS
      <3>2. n - 1 \in 1 .. 31
        BY <2>4, <3>1
      <3>3. n - 1 \in T
        BY <2>1, <3>1, <3>2
      <3> QED BY <2>3, <2>4, <3>3
    <2> QED BY <2>4, <2>5
  <1>2. Width(w) \in 1 .. 31 /\ IsWidth(Width(w))
    BY <1>1, Zenon DEF Width
  <1>3. PICK n \in 1 .. 31 : n = Width(w) /\ IsWidth(n)
    BY <1>2
  <1>4. w < 2^n
    <2>1. w < 2^31
      BY DEF Words
    <2> QED BY <1>3, <2>1
  <1>5. w >= 2^(n - 1)
    <2>1. CASE n = 1
      <3>1. 2^(1 - 1) = 1
        OBVIOUS
      <3> QED BY <2>1, <3>1 DEF Words
    <2>2. CASE n # 1
      <3>1. n - 1 \in 0 .. 31
        OBVIOUS
      <3>2. Doubles(n - 1)
        BY <3>1, Doubled
      <3>3. 2^(n - 1) \in Nat /\ w \in Nat
        BY <3>2 DEF Words, Doubles
      <3> QED BY <1>3, <2>2, <3>3
    <2> QED BY <2>1, <2>2
  <1>6. w \in Nat /\ n - 1 \in 0 .. 31 /\ n \in 0 .. 31 /\ (n - 1) + 1 = n
    BY DEF Words
  <1>7. Halved(w, n) /\ Halved(w, n - 1)
    BY <1>6, Halves
  <1>8. Half(w, n) = 0 /\ Half(w, n - 1) = 1
    BY <1>4, <1>5, <1>6, <1>7 DEF Halved
  <1> QED BY <1>3, <1>4, <1>5, <1>8

\* Bits are found in a stream behind a position.
Carries(s, pos, bits) ==
    /\ pos \in Nat /\ pos + Len(bits) <= Len(s)
    /\ \A k \in 1 .. Len(bits) : s[pos + k] = bits[k]

\* A code is read as a value, and the position is the end of the code.
ReadsAs(r, v, pos, bits) == r = [val |-> v, pos |-> pos + Len(bits)]

\* The values of Exp-Golomb codes.
UeNumbers == {v \in Nat : v <= 2147483646}

\* An Exp-Golomb code: zeros, a one, and the bits of the number below its highest.
LEMMA GolombIs ==
    ASSUME NEW v \in UeNumbers, NEW bits, bits = ExpGolomb(v)
    PROVE  \E n \in 1 .. 31 :
              /\ n = Width(v + 1)
              /\ bits \in Seq(Bits) /\ Len(bits) = 2 * n - 1
              /\ \A i \in 1 .. n - 1 : bits[i] = 0
              /\ bits[n] = 1
              /\ \A i \in 1 .. n - 1 : bits[n + i] = BitOf(v + 1, n - 1 - i)
              /\ Half(v + 1, n - 1) = 1
  <1>1. v + 1 \in Words /\ v + 1 # 0 /\ v \in Nat
    BY DEF Words, UeNumbers
  <1>2. PICK n \in 1 .. 31 : /\ n = Width(v + 1) /\ v + 1 < 2^n /\ v + 1 >= 2^(n - 1)
                             /\ Half(v + 1, n) = 0 /\ Half(v + 1, n - 1) = 1
    BY <1>1, WidthIs
  <1>3. PICK m \in Nat : m = 2 * n - 1
    OBVIOUS
  <1>4. bits = [i \in 1 .. m |-> IF i < n THEN 0 ELSE BitOf(v + 1, m - i)]
    BY <1>2, <1>3, Zenon DEF ExpGolomb
  <1>5. ASSUME NEW i \in 1 .. m PROVE (IF i < n THEN 0 ELSE BitOf(v + 1, m - i)) \in Bits
    <2>1. CASE i < n
      BY <2>1 DEF Bits
    <2>2. CASE ~(i < n)
      <3>1. m - i \in 0 .. 31
        BY <1>3, <2>2
      <3>2. v + 1 \in Int
        BY <1>1
      <3> QED BY <2>2, <3>1, <3>2, BitTyped
    <2> QED BY <2>1, <2>2
  <1>6. bits \in [1 .. m -> Bits]
    BY <1>4, <1>5
  <1>7. bits \in Seq(Bits) /\ Len(bits) = m
    BY <1>6, LenOfFunction
  <1>8. \A i \in 1 .. n - 1 : bits[i] = 0
    BY <1>3, <1>4
  <1>9. bits[n] = 1
    <2>1. n \in 1 .. m /\ m - n = n - 1 /\ n - 1 \in 0 .. 31 /\ (n - 1) + 1 = n
      BY <1>3
    <2>2. bits[n] = BitOf(v + 1, m - n)
      BY <1>4, <2>1
    <2>3. Half(v + 1, n - 1) = 2 * Half(v + 1, (n - 1) + 1) + BitOf(v + 1, n - 1)
          /\ BitOf(v + 1, n - 1) \in {0, 1}
      BY <1>1, <2>1, BitOfHalf
    <2>4. Half(v + 1, (n - 1) + 1) = 0
      BY <1>2, <2>1
    <2>5. BitOf(v + 1, n - 1) = 1
      BY <1>2, <2>3, <2>4
    <2> QED BY <2>1, <2>2, <2>5
  <1>10. ASSUME NEW i \in 1 .. n - 1 PROVE bits[n + i] = BitOf(v + 1, n - 1 - i)
    <2>1. n + i \in 1 .. m /\ ~(n + i < n) /\ m - (n + i) = n - 1 - i
      BY <1>3
    <2>2. bits[n + i] = BitOf(v + 1, m - (n + i))
      BY <1>4, <2>1
    <2> QED BY <2>1, <2>2
  <1> QED BY <1>2, <1>3, <1>7, <1>8, <1>9, <1>10

\* Of the n bits that were read a number w is left, whose bit before them is h.
TakesBits(x, pos, n, w, h) ==
    \E v \in Nat : x = [val |-> v, pos |-> pos + n] /\ v + Above(h, n) = w

\* bs_read takes the bits of a number.
LEMMA ReadBits ==
    ASSUME NEW s \in Seq(Bits), NEW pos \in Nat, NEW n \in 0 .. 31, pos + n <= Len(s),
           NEW w \in Words, \A i \in 1 .. n : s[pos + i] = BitOf(w, n - i),
           NEW h \in {0, 1}, Half(w, n) = h
    PROVE  TakesBits(bs_read(s, pos, n), pos, n, w, h)
  <1>1. PICK b : b = [i \in 1 .. n |-> IF pos + i <= Len(s) THEN s[pos + i] ELSE 0]
    OBVIOUS
  <1>2. ASSUME NEW i \in 1 .. n PROVE b[i] = BitOf(w, n - i) /\ b[i] \in Bits
    <2>1. pos + i <= Len(s) /\ n - i \in 0 .. 31
      OBVIOUS
    <2>2. b[i] = s[pos + i]
      BY <1>1, <2>1
    <2>3. w \in Int
      BY DEF Words
    <2> QED BY <2>1, <2>2, <2>3, BitTyped
  <1>3. b \in [1 .. n -> Bits]
    BY <1>1, <1>2
  <1>4. ValueOf(b) \in Nat /\ ValueOf(b) + Above(h, n) = w
    BY <1>2, <1>3, ValueOfBits
  <1>5. Least(pos + n, Len(s)) = pos + n
    BY DEF Least
  <1>6. PICK v \in Nat : v = ValueOf(b) /\ v + Above(h, n) = w
    BY <1>4
  <1>7. bs_read(s, pos, n) = [val |-> v, pos |-> pos + n]
    BY <1>1, <1>5, <1>6, Zenon DEF bs_read
  <1> QED BY <1>6, <1>7 DEF TakesBits

\* The zeros of a code are counted.
LEMMA ZerosOfCode ==
    ASSUME NEW s \in Seq(Bits), NEW pos \in Nat, NEW n \in 1 .. 31, pos + n <= Len(s),
           \A i \in 1 .. n - 1 : s[pos + i] = 0, s[pos + n] = 1
    PROVE  LeadingZeros(s, pos) = n - 1
  <1>1. PICK ones : ones = {i \in pos + 1 .. Len(s) : s[i] = 1}
    OBVIOUS
  <1>2. pos + n \in ones
    BY <1>1
  <1>3. ASSUME NEW j \in ones PROVE pos + n <= j
    <2>1. j \in pos + 1 .. Len(s) /\ s[j] = 1
      BY <1>1
    <2>2. SUFFICES ASSUME ~(pos + n <= j) PROVE FALSE
      OBVIOUS
    <2>3. j - pos \in 1 .. n - 1 /\ pos + (j - pos) = j
      BY <2>1, <2>2
    <2>4. s[pos + (j - pos)] = 0
      BY <2>3
    <2> QED BY <2>1, <2>3, <2>4
  <1>4. \A i \in ones : (\A j \in ones : i <= j) => i = pos + n
    <2>1. TAKE i \in ones
    <2>2. HAVE \A j \in ones : i <= j
    <2>3. i <= pos + n /\ pos + n <= i
      BY <1>2, <1>3, <2>2
    <2>4. i \in Int
      BY <1>1
    <2> QED BY <2>3, <2>4
  <1>5. (CHOOSE i \in ones : \A j \in ones : i <= j) = pos + n
    BY <1>2, <1>3, <1>4, Zenon
  <1>6. ones # {}
    BY <1>2
  <1>7. LeadingZeros(s, pos) = (pos + n) - pos - 1
    BY <1>1, <1>5, <1>6, Zenon DEF LeadingZeros
  <1> QED BY <1>7

\* bs_read_ue reads an Exp-Golomb code.
LEMMA ReadUe ==
    ASSUME NEW s \in Seq(Bits), NEW pos, NEW v \in UeNumbers,
           NEW bits, bits = ExpGolomb(v), Carries(s, pos, bits)
    PROVE  ReadsAs(bs_read_ue(s, pos), v, pos, bits)
  <1>1. PICK n \in 1 .. 31 : /\ Len(bits) = 2 * n - 1
                             /\ \A i \in 1 .. n - 1 : bits[i] = 0
                             /\ bits[n] = 1
                             /\ \A i \in 1 .. n - 1 : bits[n + i] = BitOf(v + 1, n - 1 - i)
                             /\ Half(v + 1, n - 1) = 1
    BY GolombIs
  <1>2. pos \in Nat /\ pos + (2 * n - 1) <= Len(s)
        /\ \A k \in 1 .. 2 * n - 1 : s[pos + k] = bits[k]
    BY <1>1 DEF Carries
  <1>3. LeadingZeros(s, pos) = n - 1
    <2>0. n \in Nat /\ n >= 1 /\ Len(s) \in Nat
      OBVIOUS
    <2>1. ASSUME NEW i \in 1 .. n - 1 PROVE s[pos + i] = 0
      <3>1. i \in 1 .. 2 * n - 1
        BY <2>0
      <3> QED BY <1>1, <1>2, <3>1
    <2>2. s[pos + n] = 1
      <3>1. n \in 1 .. 2 * n - 1
        BY <2>0
      <3> QED BY <1>1, <1>2, <3>1
    <2>3. pos + n <= Len(s)
      BY <1>2, <2>0
    <2> QED BY <1>2, <2>1, <2>2, <2>3, ZerosOfCode
  <1>4. PICK at \in Nat : at = pos + n /\ at = Least(pos + (n - 1) + 1, Len(s))
    <2>1. pos + (n - 1) + 1 <= Len(s)
      BY <1>2
    <2> QED BY <1>2, <2>1 DEF Least
  <1>5. ASSUME NEW i \in 1 .. n - 1 PROVE s[at + i] = BitOf(v + 1, (n - 1) - i)
    <2>1. n + i \in 1 .. 2 * n - 1 /\ pos + (n + i) = at + i
      BY <1>2, <1>4
    <2>2. s[pos + (n + i)] = bits[n + i]
      BY <1>2, <2>1
    <2> QED BY <1>1, <2>1, <2>2
  <1>6. PICK r \in Nat : bs_read(s, at, n - 1) = [val |-> r, pos |-> at + (n - 1)]
                         /\ r + Above(1, n - 1) = v + 1
    <2>1. v + 1 \in Words /\ n - 1 \in 0 .. 31 /\ at + (n - 1) <= Len(s) /\ 1 \in {0, 1}
      BY <1>2, <1>4, SMTT(40) DEF Words, UeNumbers
    <2>2. TakesBits(bs_read(s, at, n - 1), at, n - 1, v + 1, 1)
      BY <1>1, <1>5, <2>1, ReadBits
    <2> QED BY <2>2 DEF TakesBits
  <1>7. 2^(n - 1) - 1 + r = v
    <2>0. n - 1 \in 0 .. 31
      OBVIOUS
    <2>1. Doubles(n - 1)
      BY <2>0, Doubled
    <2> QED BY <1>6, <2>0, <2>1 DEF Above, Doubles, UeNumbers
  <1>8. bs_read_ue(s, pos) = [val |-> 2^(n - 1) - 1 + r, pos |-> at + (n - 1)]
    <2>1. PICK rest : rest = [val |-> r, pos |-> at + (n - 1)]
      OBVIOUS
    <2>2. rest.val = r /\ rest.pos = at + (n - 1)
      BY <2>1
    <2>3. bs_read_ue(s, pos) = [val |-> 2^(n - 1) - 1 + rest.val, pos |-> rest.pos]
      BY <1>3, <1>4, <1>6, <2>1, Zenon DEF bs_read_ue
    <2> QED BY <2>2, <2>3
  <1>9. at + (n - 1) = pos + Len(bits)
    BY <1>1, <1>2, <1>4
  <1> QED BY <1>7, <1>8, <1>9 DEF ReadsAs

\* The values of signed Exp-Golomb codes.
SeNumbers == {v \in Int : -1073741823 <= v /\ v <= 1073741823}

\* The number that a signed value is coded as.
NumberOf(v) == IF v <= 0 THEN -2 * v ELSE 2 * v - 1

\* The numbers that a signed member can have are given a code that can be read.
LEMMA SignedNumbers ==
    ASSUME NEW v \in SeNumbers
    PROVE  /\ NumberOf(v) \in UeNumbers
           /\ v = IF NumberOf(v) % 2 = 1 THEN (NumberOf(v) + 1) \div 2 ELSE -(NumberOf(v) \div 2)
  <1>0. v \in Int /\ -1073741823 <= v /\ v <= 1073741823
    BY SMT DEF SeNumbers
  <1>1. CASE v <= 0
    <2>1. PICK k \in Nat : k = -v
      BY <1>0, <1>1, SMT
    <2>2. NumberOf(v) = 2 * k
      BY <1>0, <1>1, <2>1, SMT DEF NumberOf
    <2>3. (2 * k) % 2 = 0 /\ (2 * k) \div 2 = k /\ v = -k
      BY <1>0, <2>1, SMT
    <2>4. 2 * k \in UeNumbers
      BY <1>0, <2>1, SMT DEF UeNumbers
    <2> QED BY <2>2, <2>3, <2>4, SMT
  <1>2. CASE v > 0
    <2>1. NumberOf(v) = 2 * v - 1
      BY <1>0, <1>2, SMT DEF NumberOf
    <2>2. (2 * v - 1) % 2 = 1 /\ ((2 * v - 1) + 1) \div 2 = v
      BY <1>0, <1>2, SMT
    <2>3. 2 * v - 1 \in UeNumbers
      BY <1>0, <1>2, SMT DEF UeNumbers
    <2> QED BY <2>1, <2>2, <2>3, SMT
  <1> QED BY <1>0, <1>1, <1>2, SMT

\* bs_read_se reads a signed Exp-Golomb code.
LEMMA ReadSe ==
    ASSUME NEW s \in Seq(Bits), NEW pos, NEW v \in SeNumbers,
           NEW bits, bits = SignedExpGolomb(v), Carries(s, pos, bits)
    PROVE  ReadsAs(bs_read_se(s, pos), v, pos, bits)
  <1>1. PICK u \in UeNumbers : u = NumberOf(v)
    BY SignedNumbers
  <1>2. v = IF u % 2 = 1 THEN (u + 1) \div 2 ELSE -(u \div 2)
    BY <1>1, SignedNumbers
  <1>3. bits = ExpGolomb(u)
    BY <1>1, Zenon DEF SignedExpGolomb, NumberOf
  <1>4. bs_read_ue(s, pos) = [val |-> u, pos |-> pos + Len(bits)]
    BY <1>3, ReadUe DEF ReadsAs, UeNumbers
  <1>5. PICK ue : ue = [val |-> u, pos |-> pos + Len(bits)]
    OBVIOUS
  <1>6. ue.val = u /\ [ue EXCEPT !.val = v] = [val |-> v, pos |-> pos + Len(bits)]
    BY <1>5
  <1>7. bs_read_se(s, pos) = [ue EXCEPT !.val = v]
    BY <1>2, <1>4, <1>5, <1>6, Zenon DEF bs_read_se, SignedOf
  <1> QED BY <1>6, <1>7 DEF ReadsAs

\* The numbers of bits that the tables have.
Sizes == {1, 2, 3, 4, 5, 8, 16}

\* A width of bits, and the numbers it can hold.
Sized(n) == n \in 0 .. 31 /\ 2^n \in Nat /\ 0 .. 2^n - 1 \subseteq Words

\* The widths of the tables are so.
LEMMA SizesAre ==
    ASSUME NEW n \in Sizes
    PROVE  Sized(n)
  <1>1. Sized(1) /\ Sized(2) /\ Sized(3) /\ Sized(4) /\ Sized(5) /\ Sized(8) /\ Sized(16)
    BY DEF Sized, Words
  <1> QED BY <1>1, Zenon DEF Sizes

\* bs_read reads a number that bs_write has written.
LEMMA ReadNumber ==
    ASSUME NEW s \in Seq(Bits), NEW pos, NEW n \in Sizes, NEW v \in 0 .. 2^n - 1,
           NEW bits, bits = bs_write(n, v), Carries(s, pos, bits)
    PROVE  /\ bits \in Seq(Bits)
           /\ ReadsAs(bs_read(s, pos, n), v, pos, bits)
  <1>1. n \in 0 .. 31 /\ v \in Words /\ 2^n \in Nat
    BY SizesAre DEF Sized
  <1>2. bits = [i \in 1 .. n |-> BitOf(v, (n - i) % 32)]
    BY Zenon DEF bs_write
  <1>3. ASSUME NEW i \in 1 .. n PROVE bits[i] = BitOf(v, n - i)
    <2>1. (n - i) % 32 = n - i
      BY <1>1
    <2>2. bits[i] = BitOf(v, (n - i) % 32)
      BY <1>2
    <2> QED BY <2>1, <2>2
  <1>4. v \in Int /\ n \in Nat
    BY <1>1 DEF Words
  <1>5. bits \in Seq(Bits)
    BY <1>4, WriteTyped
  <1>6. Len(bits) = n
    BY <1>1, <1>2
  <1>7. pos \in Nat /\ pos + n <= Len(s)
    BY <1>6 DEF Carries
  <1>8. ASSUME NEW i \in 1 .. n PROVE s[pos + i] = BitOf(v, n - i)
    <2>1. s[pos + i] = bits[i]
      BY <1>6 DEF Carries
    <2> QED BY <1>3, <2>1
  <1>9. Half(v, n) = 0
    <2>1. v < 2^n /\ v \in Nat
      BY <1>1
    <2>2. Halved(v, n)
      BY <1>1, <2>1, Halves
    <2> QED BY <2>1, <2>2 DEF Halved
  <1>10. PICK r \in Nat : bs_read(s, pos, n) = [val |-> r, pos |-> pos + n] /\ r + Above(0, n) = v
    <2>1. 0 \in {0, 1}
      OBVIOUS
    <2>2. TakesBits(bs_read(s, pos, n), pos, n, v, 0)
      BY <1>1, <1>7, <1>8, <1>9, <2>1, ReadBits
    <2> QED BY <2>2 DEF TakesBits
  <1>11. r = v
    BY <1>10 DEF Above
  <1> QED BY <1>5, <1>6, <1>10, <1>11 DEF ReadsAs

-----------------------------------------------------------------------------
(* The bits of a parameter set as H.264 has them *)

\* The bits that H.264 has for a value, a row and a table.
SpecCode(v, code) ==
    IF code = UE THEN ExpGolomb(v) ELSE IF code = SE THEN SignedExpGolomb(v) ELSE bs_write(code, v)

SpecRow(row, sps) ==
    FlattenSeq([i \in DOMAIN row.names |-> SpecCode(sps[row.names[i]], row.code)])

SpecPart(row, sps) == IF IsPresent(row, sps) THEN SpecRow(row, sps) ELSE <<>>

SpecBits(table, sps) == FlattenSeq([i \in DOMAIN table |-> SpecPart(table[i], sps)])

\* Coded puts these bits one behind the other.
LEMMA CodedIsSpecBits ==
    ASSUME NEW table, NEW sps
    PROVE  Coded(table, sps, ExpGolomb, SignedExpGolomb) = SpecBits(table, sps)
  BY Zenon DEF Coded, SpecBits, SpecPart, SpecRow, SpecCode

\* The codes of the tables.
TableCodes == Sizes \cup {UE, SE}

\* A code is a width or one of the two codes of variable length.
LEMMA TableCodesAre ==
    ASSUME NEW code \in TableCodes
    PROVE  code \in Codes /\ ((code \in Sizes /\ code # UE /\ code # SE) \/ code = UE \/ code = SE)
  BY DEF TableCodes, Codes, Sizes, UE, SE

\* A value that has a code is an integer, and its code is of bits.
LEMMA SpecCodeTyped ==
    ASSUME NEW code \in TableCodes, NEW v \in ValuesOf(code)
    PROVE  v \in Int /\ SpecCode(v, code) \in Seq(Bits)
  <1>0. (code \in Sizes /\ code # UE /\ code # SE) \/ code = UE \/ (code = SE /\ code # UE)
    BY DEF TableCodes, Sizes, UE, SE
  <1>1. CASE code = UE
    <2>1. v \in UeNumbers
      BY <1>1 DEF ValuesOf, UeNumbers
    <2>2. ExpGolomb(v) \in Seq(Bits)
      BY <2>1, GolombIs DEF UeNumbers
    <2> QED BY <1>1, <2>1, <2>2 DEF SpecCode, UeNumbers
  <1>2. CASE code = SE /\ code # UE
    <2>1. v \in SeNumbers
      BY <1>2 DEF ValuesOf, SeNumbers, UE, SE
    <2>2. NumberOf(v) \in UeNumbers
      BY <2>1, SignedNumbers
    <2>3. ExpGolomb(NumberOf(v)) \in Seq(Bits)
      BY <2>2, GolombIs DEF UeNumbers
    <2>4. SignedExpGolomb(v) = ExpGolomb(NumberOf(v))
      BY Zenon DEF SignedExpGolomb, NumberOf
    <2> QED BY <1>2, <2>1, <2>3, <2>4 DEF SpecCode, SeNumbers
  <1>3. CASE code \in Sizes /\ code # UE /\ code # SE
    <2>1. v \in 0 .. 2^code - 1
      BY <1>3 DEF ValuesOf
    <2>2. v \in Int /\ code \in Nat
      BY <1>3, <2>1, SizesAre DEF Sized, Words
    <2>3. bs_write(code, v) \in Seq(Bits)
      BY <2>2, WriteTyped
    <2> QED BY <1>3, <2>2, <2>3 DEF SpecCode
  <1> QED BY <1>0, <1>1, <1>2, <1>3

\* What was coded is read again.
LEMMA ReadCodeBack ==
    ASSUME NEW s \in Seq(Bits), NEW pos, NEW code \in TableCodes, NEW v \in ValuesOf(code),
           NEW bits, bits = SpecCode(v, code), Carries(s, pos, bits)
    PROVE  ReadCode(s, pos, code) = [val |-> v, pos |-> pos + Len(bits)]
  <1>0. (code \in Sizes /\ code # UE /\ code # SE) \/ code = UE \/ (code = SE /\ code # UE)
    BY DEF TableCodes, Sizes, UE, SE
  <1>1. CASE code = UE
    <2>1. v \in UeNumbers
      BY <1>1 DEF ValuesOf, UeNumbers
    <2>2. bits = ExpGolomb(v)
      BY <1>1 DEF SpecCode
    <2>3. ReadsAs(bs_read_ue(s, pos), v, pos, bits)
      BY <2>1, <2>2, ReadUe DEF UeNumbers
    <2> QED BY <1>1, <2>3 DEF ReadCode, ReadsAs
  <1>2. CASE code = SE /\ code # UE
    <2>1. v \in SeNumbers
      BY <1>2 DEF ValuesOf, SeNumbers, UE, SE
    <2>2. bits = SignedExpGolomb(v)
      BY <1>2 DEF SpecCode
    <2>3. ReadsAs(bs_read_se(s, pos), v, pos, bits)
      BY <2>1, <2>2, ReadSe
    <2> QED BY <1>2, <2>3 DEF ReadCode, ReadsAs
  <1>3. CASE code \in Sizes /\ code # UE /\ code # SE
    <2>1. v \in 0 .. 2^code - 1
      BY <1>3 DEF ValuesOf
    <2>2. bits = bs_write(code, v)
      BY <1>3 DEF SpecCode
    <2>3. ReadsAs(bs_read(s, pos, code), v, pos, bits)
      BY <1>3, <2>1, <2>2, ReadNumber
    <2> QED BY <1>3, <2>3 DEF ReadCode, ReadsAs
  <1> QED BY <1>0, <1>1, <1>2, <1>3

-----------------------------------------------------------------------------
(* bs_write_ue, whose shifts are taken modulo 32 *)

\* Powers of 2 grow.
LEMMA PowersGrow ==
    ASSUME NEW n \in 0 .. 31, NEW k \in n .. 31
    PROVE  2^n <= 2^k
  <1> DEFINE T == {d \in 0 .. k - n : 2^n <= 2^(n + d)}
  <1>1. 0 \in T
    <2>1. n + 0 = n /\ Doubles(n)
      BY Doubled
    <2>2. 2^n <= 2^(n + 0)
      BY <2>1 DEF Doubles
    <2> QED BY <2>2
  <1>2. ASSUME NEW d \in 1 .. k - n, d - 1 \in T PROVE d \in T
    <2>1. n + (d - 1) \in 0 .. 31 /\ (n + (d - 1)) + 1 = n + d
      OBVIOUS
    <2>2. Doubles(n + (d - 1)) /\ Doubles(n)
      BY <2>1, Doubled
    <2>3. 2^(n + d) = 2 * 2^(n + (d - 1)) /\ 2^(n + (d - 1)) \in Nat /\ 2^n \in Nat
      BY <2>1, <2>2 DEF Doubles
    <2>4. 2^n <= 2^(n + (d - 1))
      BY <1>2
    <2>5. 2^n <= 2^(n + d)
      BY <2>3, <2>4
    <2> QED BY <2>5
  <1> HIDE DEF T
  <1>3. 0 .. k - n \subseteq T
    BY <1>1, <1>2, UpTo
  <1>4. k - n \in T
    BY <1>3
  <1>5. n + (k - n) = k
    OBVIOUS
  <1> QED BY <1>4, <1>5 DEF T

\* The numbers whose codes it writes: those of at most 16 bits, and the odd ones of 17.
WrittenWell(u) == u \in Nat /\ u <= 131067 /\ (u <= 65534 \/ u % 2 = 1)

\* bs_write_ue writes them as H.264 has them.
LEMMA WriteUeIs ==
    ASSUME NEW u, WrittenWell(u)
    PROVE  bs_write_ue(u) = ExpGolomb(u)
  <1>1. u \in Nat /\ u <= 131067 /\ u + 1 \in Words /\ u + 1 # 0 /\ u + 1 \in Nat
    BY DEF WrittenWell, Words
  <1>2. PICK n \in 1 .. 31 : n = Width(u + 1) /\ u + 1 < 2^n /\ u + 1 >= 2^(n - 1)
    BY <1>1, WidthIs
  <1>3. n <= 17 /\ (n = 17 => (u + 1) % 2 = 0)
    <2>1. PICK e \in 0 .. 30, w \in Nat : e = n - 1 /\ w = u + 1
      BY <1>1
    <2>2. PICK power \in Nat : power = 2^e /\ power <= w
      <3>1. 2^e \in Nat
        <4>1. Doubles(e)
          BY Doubled
        <4> QED BY <4>1 DEF Doubles
      <3>2. 2^e <= w
        BY <1>2, <2>1
      <3> QED BY <3>1, <3>2
    <2>3. e < 17
      <3>1. SUFFICES ASSUME e >= 17 PROVE FALSE
        BY <2>1
      <3>2. 17 \in 0 .. 31 /\ e \in 17 .. 31
        BY <3>1
      <3>3. 2^17 <= power
        BY <2>2, <3>2, PowersGrow
      <3>4. 2^17 = 131072
        OBVIOUS
      <3> QED BY <1>1, <2>1, <2>2, <3>3, <3>4
    <2>4. ASSUME e = 16 PROVE (u + 1) % 2 = 0
      <3>1. 2^16 = 65536
        OBVIOUS
      <3>2. 65536 <= w
        BY <2>2, <2>4, <3>1
      <3>3. u % 2 = 1
        BY <1>1, <2>1, <3>2 DEF WrittenWell
      <3> QED BY <1>1, <3>3
    <2> QED BY <2>1, <2>3, <2>4
  <1>4. PICK m \in Nat : m = 2 * n - 1
    OBVIOUS
  <1>5. bs_write_ue(u) = [i \in 1 .. m |-> BitOf(u + 1, (m - i) % 32)]
    BY <1>2, <1>4, Zenon DEF bs_write_ue, bs_write
  <1>6. ExpGolomb(u) = [i \in 1 .. m |-> IF i < n THEN 0 ELSE BitOf(u + 1, m - i)]
    BY <1>2, <1>4, Zenon DEF ExpGolomb
  <1>7. ASSUME NEW i \in 1 .. m
        PROVE  BitOf(u + 1, (m - i) % 32) = IF i < n THEN 0 ELSE BitOf(u + 1, m - i)
    <2>1. CASE m - i >= 32
      <3>1. n = 17 /\ i = 1 /\ (m - i) % 32 = 0
        BY <1>3, <1>4, <2>1
      <3>2. BitOf(u + 1, 0) = 0
        <4>1. (u + 1) \div 1 = u + 1
          BY <1>1
        <4>2. BitOf(u + 1, 0) = ((u + 1) \div 2^0) % 2
          BY DEF BitOf
        <4> QED BY <1>3, <3>1, <4>1, <4>2
      <3> QED BY <3>1, <3>2
    <2>2. CASE m - i < 32
      <3>1. (m - i) % 32 = m - i /\ m - i \in 0 .. 31
        BY <1>4, <2>2
      <3>2. CASE i < n
        <4>1. m - i \in n .. 31
          BY <1>4, <3>1, <3>2
        <4>2. BitOf(u + 1, m - i) = 0
          <5>1. PICK k \in n .. 31 : k = m - i
            BY <4>1
          <5>2. CASE k = 31
            <6>1. BitOf(u + 1, k) = 0
              BY <5>2, Zenon DEF BitOf
            <6> QED BY <5>1, <6>1, Zenon
          <5>3. CASE k # 31
            <6>1. u + 1 < 2^k
              <7>1. 2^n <= 2^k
                <8>1. n \in 0 .. 31 /\ k \in n .. 31
                  OBVIOUS
                <8> QED BY <8>1, PowersGrow, Zenon
              <7>2. 2^n \in Nat /\ 2^k \in Nat
                <8>1. Doubles(n) /\ Doubles(k)
                  BY Doubled
                <8> QED BY <8>1 DEF Doubles
              <7> QED BY <1>1, <1>2, <7>1, <7>2
            <6>2. Half(u + 1, k) = 0
              <7>1. u + 1 \in Nat /\ k \in 0 .. 31
                BY <1>1
              <7>2. Halved(u + 1, k)
                BY <7>1, Halves
              <7> QED BY <6>1, <7>2 DEF Halved
            <6>3. BitOf(u + 1, k) = Half(u + 1, k) % 2
              BY <5>3 DEF BitOf, Half
            <6> QED BY <5>1, <6>2, <6>3
          <5> QED BY <5>2, <5>3
        <4> QED BY <3>1, <3>2, <4>2
      <3>3. CASE ~(i < n)
        BY <3>1, <3>3
      <3> QED BY <3>2, <3>3
    <2>3. m - i \in Int
      OBVIOUS
    <2> QED BY <2>1, <2>2, <2>3
  <1> QED BY <1>5, <1>6, <1>7, Zenon

\* A value is written as H.264 has it, if its Exp-Golomb code is narrow.
LEMMA CodeBitsAreSpec ==
    ASSUME NEW code \in TableCodes, NEW v \in ValuesOf(code), code \in {UE, SE} => v \in Narrow
    PROVE  CodeBits(v, code) = SpecCode(v, code)
  <1>0. (code \in Sizes /\ code # UE /\ code # SE) \/ code = UE \/ (code = SE /\ code # UE)
    BY DEF TableCodes, Sizes, UE, SE
  <1>1. CASE code = UE
    <2>1. WrittenWell(v)
      <3>1. v \in Nat /\ v <= 65534
        BY <1>1 DEF ValuesOf, Narrow
      <3> QED BY <3>1 DEF WrittenWell
    <2>2. bs_write_ue(v) = ExpGolomb(v)
      BY <2>1, WriteUeIs
    <2> QED BY <1>1, <2>2 DEF CodeBits, SpecCode
  <1>2. CASE code = SE /\ code # UE
    <2>1. v \in Int /\ -32767 <= v /\ v <= 65534
      BY <1>2 DEF Narrow
    <2>2. PICK u : u = NumberOf(v)
      OBVIOUS
    <2>3. WrittenWell(u)
      <3>1. CASE v <= 32767
        <4>1. u \in Nat /\ u <= 65534
          BY <2>1, <2>2, <3>1 DEF NumberOf
        <4> QED BY <4>1 DEF WrittenWell
      <3>2. CASE ~(v <= 32767)
        <4>1. u = 2 * v - 1 /\ u \in Nat /\ u <= 131067
          BY <2>1, <2>2, <3>2 DEF NumberOf
        <4>2. u % 2 = 1
          BY <2>1, <4>1
        <4> QED BY <4>1, <4>2 DEF WrittenWell
      <3> QED BY <3>1, <3>2
    <2>4. bs_write_ue(u) = ExpGolomb(u)
      BY <2>3, WriteUeIs
    <2>5. bs_write_se(v) = bs_write_ue(u) /\ SignedExpGolomb(v) = ExpGolomb(u)
      BY <2>2, Zenon DEF bs_write_se, SignedExpGolomb, NumberOf
    <2> QED BY <1>2, <2>4, <2>5 DEF CodeBits, SpecCode
  <1>3. CASE code \in Sizes /\ code # UE /\ code # SE
    BY <1>3 DEF CodeBits, SpecCode
  <1> QED BY <1>0, <1>1, <1>2, <1>3

-----------------------------------------------------------------------------
(* What is read of the bits that H.264 has for a table *)

\* What grows from step to step grows.
LEMMA Grows ==
    ASSUME NEW n \in Nat, NEW f \in [0 .. n -> Nat], \A i \in 1 .. n : f[i - 1] <= f[i]
    PROVE  \A m \in 0 .. n : \A k \in 0 .. m : f[k] <= f[m]
  <1> DEFINE T == {m \in 0 .. n : \A k \in 0 .. m : f[k] <= f[m]}
  <1>1. 0 \in T
    OBVIOUS
  <1>2. ASSUME NEW m \in 1 .. n, m - 1 \in T PROVE m \in T
    <2>1. SUFFICES ASSUME NEW k \in 0 .. m PROVE f[k] <= f[m]
      OBVIOUS
    <2>2. CASE k = m
      BY <2>2
    <2>3. CASE k # m
      <3>1. k \in 0 .. m - 1 /\ m - 1 \in 0 .. n /\ k \in 0 .. n
        BY <2>3
      <3>2. f[k] <= f[m - 1] /\ f[m - 1] <= f[m]
        BY <1>2, <3>1
      <3> QED BY <3>1, <3>2
    <2> QED BY <2>2, <2>3
  <1> HIDE DEF T
  <1>3. 0 .. n \subseteq T
    BY <1>1, <1>2, UpTo
  <1> QED BY <1>3 DEF T

\* Where the parts of what a stream carries are.
Placed(s, pos, at, parts, i) ==
    /\ Carries(s, pos + at[i - 1], parts[i])
    /\ pos + at[i - 1] \in Nat /\ at[i - 1] \in Nat /\ at[i] = at[i - 1] + Len(parts[i])

\* A part of what a stream carries.
LEMMA CarriesPart ==
    ASSUME NEW s \in Seq(Bits), NEW pos, NEW bits, Carries(s, pos, bits), NEW at, NEW n \in Nat, NEW parts,
           parts \in [1 .. n -> Seq(Bits)], Laid(bits, at, n, parts), NEW i \in 1 .. n
    PROVE  Placed(s, pos, at, parts, i)
  <1>1. at \in [0 .. n -> Nat] /\ at[0] = 0 /\ Len(bits) = at[n]
        /\ \A j \in 1 .. n : at[j] = at[j - 1] + Len(parts[j])
        /\ \A k \in 1 .. Len(parts[i]) : bits[at[i - 1] + k] = parts[i][k]
    BY DEF Laid
  <1>2. \A j \in 1 .. n : Len(parts[j]) \in Nat
    OBVIOUS
  <1>3. ASSUME NEW j \in 1 .. n PROVE at[j - 1] <= at[j]
    <2>1. j - 1 \in 0 .. n /\ j \in 0 .. n
      OBVIOUS
    <2>2. at[j - 1] \in Nat /\ at[j] \in Nat
      BY <1>1, <2>1
    <2> QED BY <1>1, <1>2, <2>2
  <1>4. \A m \in 0 .. n : \A k \in 0 .. m : at[k] <= at[m]
    BY <1>1, <1>3, Grows
  <1>5. i \in 0 .. n /\ i - 1 \in 0 .. n /\ n \in 0 .. n
    OBVIOUS
  <1>6. at[i] <= at[n] /\ at[i] \in Nat /\ at[i - 1] \in Nat /\ at[n] \in Nat
    BY <1>1, <1>4, <1>5
  <1>7. PICK a \in Nat, l \in Nat, z \in Nat :
            a = at[i - 1] /\ l = Len(parts[i]) /\ a + l = at[i] /\ z = at[n] /\ a + l <= z
    BY <1>1, <1>2, <1>6
  <1>8. pos \in Nat /\ pos + z <= Len(s) /\ \A k \in 1 .. z : s[pos + k] = bits[k]
    BY <1>1, <1>7 DEF Carries
  <1>9. ASSUME NEW k \in 1 .. l PROVE s[(pos + a) + k] = parts[i][k]
    <2>0. pos \in Nat /\ a + l <= z
      BY <1>7, <1>8
    <2>1. a + k \in 1 .. z /\ (pos + a) + k = pos + (a + k)
      BY <2>0
    <2>2. bits[a + k] = parts[i][k]
      BY <1>1, <1>7
    <2> QED BY <1>8, <2>1, <2>2
  <1>10. Len(s) \in Nat
    OBVIOUS
  <1>11. (pos + a) + l <= Len(s)
    <2>1. (pos + a) + l <= pos + z
      <3>1. pos \in Nat /\ a + l <= z
        BY <1>7, <1>8
      <3> QED BY <3>1
    <2>2. pos + z \in Nat /\ (pos + a) + l \in Nat
      BY <1>8
    <2> QED BY <1>8, <1>10, <2>1, <2>2
  <1>12. pos + a \in Nat
    BY <1>8
  <1>13. Carries(s, pos + a, parts[i])
    BY <1>7, <1>9, <1>11, <1>12 DEF Carries
  <1> QED BY <1>6, <1>7, <1>12, <1>13 DEF Placed

\* The values of the members fit their codes.
FitsRow(row, p) == \A k \in DOMAIN row.names : p[row.names[k]] \in ValuesOf(row.code)

\* All rows of a table fit.
Fits(t, p) == \A i \in 1 .. Len(t) : FitsRow(t[i], p)

\* The codes of a row.
SpecCodes(row, p) == [k \in DOMAIN row.names |-> SpecCode(p[row.names[k]], row.code)]

\* They are put one behind the other.
LEMMA SpecRowLaid ==
    ASSUME NEW row, NEW names, names = row.names, IsSeq(names), row.code \in TableCodes,
           NEW p, FitsRow(row, p), NEW n, n = Len(names), NEW parts, parts = SpecCodes(row, p)
    PROVE  /\ n \in Nat /\ parts \in [1 .. n -> Seq(Bits)] /\ DOMAIN names = 1 .. n
           /\ SpecRow(row, p) \in Seq(Bits)
           /\ \E at : Laid(SpecRow(row, p), at, n, parts)
           /\ \A k \in 1 .. n : parts[k] = SpecCode(p[names[k]], row.code)
  <1>1. n \in Nat /\ DOMAIN names = 1 .. n
    <2>1. PICK S : names \in Seq(S)
      BY DEF IsSeq
    <2> QED BY <2>1, LenProperties
  <1>0. parts = [k \in 1 .. n |-> SpecCode(p[names[k]], row.code)]
    BY <1>1, Zenon DEF SpecCodes
  <1>2. ASSUME NEW k \in 1 .. n PROVE parts[k] \in Seq(Bits)
    <2>1. p[names[k]] \in ValuesOf(row.code)
      BY <1>1 DEF FitsRow
    <2>2. parts[k] = SpecCode(p[names[k]], row.code)
      BY <1>0
    <2> QED BY <2>1, <2>2, SpecCodeTyped
  <1>3. parts \in [1 .. n -> Seq(Bits)]
    BY <1>0, <1>2
  <1>4. SpecRow(row, p) = FlattenSeq(parts)
    BY <1>0, <1>1, Zenon DEF SpecRow
  <1>5. Len(parts) = n
    <2>1. PICK Z : Z = Seq(Bits)
      OBVIOUS
    <2>2. parts \in [1 .. n -> Z]
      BY <1>3, <2>1
    <2> QED BY <1>1, <2>2, LenOfFunction
  <1>6. PICK b : b = SpecRow(row, p)
    OBVIOUS
  <1>7. b \in Seq(Bits) /\ \E at : Laid(b, at, n, parts)
    BY <1>1, <1>3, <1>4, <1>5, <1>6, Flattened, Zenon
  <1>8. \A k \in 1 .. n : parts[k] = SpecCode(p[names[k]], row.code)
    BY <1>0
  <1> QED BY <1>1, <1>3, <1>6, <1>7, <1>8

\* Members are told by parameters.
Told(sps, p, P) == [m \in Members |-> IF m \in P THEN p[m] ELSE sps[m]]

\* Nothing is told by no member.
LEMMA TellingNone ==
    ASSUME NEW sps \in [Members -> Int], NEW p, NEW P, \A m \in Members : m \notin P
    PROVE  Told(sps, p, P) = sps
  BY DEF Told

\* What is told at once or one after the other is the same.
LEMMA TellingMore ==
    ASSUME NEW sps, NEW p, NEW P, NEW Q, NEW R, \A m \in Members : m \in R <=> m \in P \/ m \in Q
    PROVE  Told(Told(sps, p, P), p, Q) = Told(sps, p, R)
  BY DEF Told

\* A row is read as it was coded.
LEMMA ReadRowBack ==
    ASSUME NEW s \in Seq(Bits), NEW row, NEW names, names = row.names, IsSeq(names),
           row.code \in TableCodes, NEW p, FitsRow(row, p), NEW x \in States(s),
           Carries(s, x.pos, SpecRow(row, p))
    PROVE  ReadRow(row, s, x) = [sps |-> Told(x.sps, p, ToSet(names)),
                                 pos |-> x.pos + Len(SpecRow(row, p))]
  <1>1. PICK n : n = Len(names)
    OBVIOUS
  <1>2. PICK parts : parts = SpecCodes(row, p)
    OBVIOUS
  <1>3. PICK bits : bits = SpecRow(row, p)
    OBVIOUS
  <1>4. /\ n \in Nat /\ parts \in [1 .. n -> Seq(Bits)] /\ DOMAIN names = 1 .. n
        /\ bits \in Seq(Bits) /\ \E at : Laid(bits, at, n, parts)
        /\ \A k \in 1 .. n : parts[k] = SpecCode(p[names[k]], row.code)
    <2>1. /\ n \in Nat /\ parts \in [1 .. n -> Seq(Bits)] /\ DOMAIN names = 1 .. n
          /\ SpecRow(row, p) \in Seq(Bits) /\ \E at : Laid(SpecRow(row, p), at, n, parts)
          /\ \A k \in 1 .. n : parts[k] = SpecCode(p[names[k]], row.code)
      BY <1>1, <1>2, SpecRowLaid
    <2> QED BY <1>3, <2>1, Zenon
  <1>5. PICK at : Laid(bits, at, n, parts)
    BY <1>4
  <1>6. row.code \in Codes
    BY TableCodesAre
  <1>7. PICK f \in [0 .. n -> States(s)] : RowStates(f, n, row, s, x)
    BY <1>4, <1>6, RowStatesExist
  <1>8. ReadRow(row, s, x) = f[n]
    <2>1. \A h : RowStates(h, n, row, s, x) => h = f
      BY <1>4, <1>7, OneRowStates
    <2>2. (CHOOSE h : RowStates(h, n, row, s, x)) = f
      BY <1>7, <2>1, Zenon
    <2>3. ReadRow(row, s, x) = (CHOOSE h : RowStates(h, n, row, s, x))[n]
      BY <1>1, Zenon DEF ReadRow, RowStates, ReadInto
    <2> QED BY <2>2, <2>3
  <1>9. x.sps \in [Members -> Int] /\ x.pos \in Nat
    BY DEF States
  <1>15. ASSUME NEW i \in 1 .. n PROVE Placed(s, x.pos, at, parts, i)
    <2>1. PICK pos : pos = x.pos
      OBVIOUS
    <2>2. Carries(s, pos, bits)
      BY <1>3, <2>1
    <2>3. n \in Nat /\ parts \in [1 .. n -> Seq(Bits)]
      BY <1>4
    <2>4. Placed(s, pos, at, parts, i)
      BY <1>5, <2>2, <2>3, CarriesPart
    <2> QED BY <2>1, <2>4, Zenon
  <1> DEFINE Upto(i) == {names[k] : k \in 1 .. i}
             T == {i \in 0 .. n : f[i] = [sps |-> Told(x.sps, p, Upto(i)), pos |-> x.pos + at[i]]}
  <1>10. 0 \in T
    <2>1. Upto(0) = {}
      OBVIOUS
    <2>2. Told(x.sps, p, Upto(0)) = x.sps
      BY <1>9, <2>1, TellingNone
    <2>3. x.pos + at[0] = x.pos
      BY <1>5, <1>9 DEF Laid
    <2>4. f[0] = x
      <3>1. 0 \in 0 .. n
        BY <1>4
      <3> QED BY <1>7, <3>1, Zenon DEF RowStates
    <2>5. x = [sps |-> x.sps, pos |-> x.pos]
      BY DEF States
    <2>6. 0 \in 0 .. n
      BY <1>4
    <2> QED BY <2>2, <2>3, <2>4, <2>5, <2>6
  <1>11. ASSUME NEW i \in 1 .. n, i - 1 \in T PROVE i \in T
    <2>1. /\ Carries(s, x.pos + at[i - 1], parts[i]) /\ x.pos + at[i - 1] \in Nat
          /\ at[i - 1] \in Nat /\ at[i] = at[i - 1] + Len(parts[i])
      BY <1>15, Zenon DEF Placed
    <2>2. PICK y : y = f[i - 1]
      OBVIOUS
    <2>3. y = [sps |-> Told(x.sps, p, Upto(i - 1)), pos |-> x.pos + at[i - 1]]
      BY <1>11, <2>2
    <2>4. y.sps = Told(x.sps, p, Upto(i - 1)) /\ y.pos = x.pos + at[i - 1]
      BY <2>3
    <2>5. parts[i] = SpecCode(p[names[i]], row.code) /\ p[names[i]] \in ValuesOf(row.code)
      BY <1>4 DEF FitsRow
    <2>6. ReadCode(s, y.pos, row.code) = [val |-> p[names[i]], pos |-> y.pos + Len(parts[i])]
      BY <2>1, <2>4, <2>5, ReadCodeBack
    <2>7. f[i] = ReadInto(y, s, row, i)
      <3>1. i \in 0 .. n /\ i # 0
        BY <1>4
      <3>2. f[i] = IF i = 0 THEN x ELSE ReadInto(f[i - 1], s, row, i)
        BY <1>7, <3>1, Zenon DEF RowStates
      <3> QED BY <2>2, <3>1, <3>2
    <2>8. PICK next : next = [val |-> p[names[i]], pos |-> y.pos + Len(parts[i])]
      OBVIOUS
    <2>9. next.val = p[names[i]] /\ next.pos = y.pos + Len(parts[i])
      BY <2>8
    <2>10. ReadInto(y, s, row, i) = [sps |-> [y.sps EXCEPT ![names[i]] = next.val], pos |-> next.pos]
      BY <2>6, <2>8, Zenon DEF ReadInto
    <2>11. [y.sps EXCEPT ![names[i]] = p[names[i]]] = Told(x.sps, p, Upto(i))
      <3>1. \A m \in Members : m \in Upto(i) <=> m \in Upto(i - 1) \/ m = names[i]
        <4>1. \A k : k \in 1 .. i <=> k \in 1 .. i - 1 \/ k = i
          BY <1>4
        <4> QED BY <4>1, Zenon
      <3>2. PICK P, R : P = Upto(i - 1) /\ R = Upto(i) /\ \A m \in Members : m \in R <=> m \in P \/ m = names[i]
        BY <3>1
      <3>4. \A m \in Members : m \in R <=> m \in P \/ m = names[i]
        BY <3>2
      <3>3. [Told(x.sps, p, P) EXCEPT ![names[i]] = p[names[i]]] = Told(x.sps, p, R)
        BY <3>4 DEF Told
      <3> QED BY <2>4, <3>2, <3>3, Zenon
    <2>12. next.pos = x.pos + at[i]
      <3>1. Len(parts[i]) \in Nat
        BY <1>4
      <3> QED BY <1>9, <2>1, <2>4, <2>9, <3>1
    <2>13. f[i] = [sps |-> Told(x.sps, p, Upto(i)), pos |-> x.pos + at[i]]
      BY <2>7, <2>9, <2>10, <2>11, <2>12
    <2>14. i \in 0 .. n
      BY <1>4
    <2> QED BY <2>13, <2>14
  <1>12. ToSet(names) = Upto(n)
    BY <1>4, Zenon DEF ToSet
  <1>13. n \in T
    <2> HIDE DEF T
    <2>1. 0 .. n \subseteq T
      BY <1>4, <1>10, <1>11, UpTo
    <2>2. n \in 0 .. n
      BY <1>4
    <2> QED BY <2>1, <2>2
  <1>14. Len(bits) = at[n]
    BY <1>5 DEF Laid
  <1> QED BY <1>3, <1>8, <1>12, <1>13, <1>14

\* The members that tell the colours.
ColourNames == {"video_format", "video_full_range_flag", "colour_primaries",
                "transfer_characteristics", "matrix_coefficients",
                "video_signal_type_present_flag", "colour_description_present_flag",
                "vui_parameters_present_flag"}

\* Members of which colours are told, all of which fit their code.
TellsColours(code, names) ==
    /\ ToSet(names) \subseteq ColourNames /\ code \notin {UE, SE}
    /\ \A m \in ToSet(names) : \A matrix \in Nat : ColourOf(matrix)[m] \in ValuesOf(code)

\* A row tells colours, or it has nothing to do with them.
Apart(row) ==
    \/ TellsColours(row.code, row.names)
    \/ /\ \A m \in ToSet(row.names) : m \notin ColourNames
       /\ \A c \in row.when : c[1] \notin ColourNames

\* A member of a condition was read before, under no more conditions.
ReadBefore(t, i, K, m) ==
    m \in K \/ \E j \in 1 .. i - 1 : m \in ToSet(t[j].names) /\ t[j].when \subseteq t[i].when

\* A row that can be read: what it is conditional on was read before it.
GoodRow(t, i, K, N) ==
    /\ t[i].code \in TableCodes /\ ToSet(t[i].names) # {}
    /\ \A m \in ToSet(t[i].names) : m \notin N
    /\ Apart(t[i])
    /\ \A c \in t[i].when : ReadBefore(t, i, K, c[1])

\* The members that are read under no condition.
Always(t, m) == \E j \in 1 .. Len(t) : m \in ToSet(t[j].names) /\ t[j].when = {}

\* A table that can be read when the members K are known: of members not in N, and
\* it makes the members L known.
Grammar(t, K, L, N) ==
    /\ IsTable(t)
    /\ \A i \in 1 .. Len(t) : GoodRow(t, i, K, N)
    /\ \A m \in L : m \in K \/ Always(t, m)

\* The same with less to be known after, and more before.
LEMMA GrammarWeakens ==
    ASSUME NEW t, NEW K, NEW L, NEW N, Grammar(t, K, L, N), NEW J, K \subseteq J,
           NEW M, \A m \in M : m \in L \/ m \in J, NEW O, O \subseteq N
    PROVE  Grammar(t, J, M, O)
  <1>1. ASSUME NEW i \in 1 .. Len(t) PROVE GoodRow(t, i, J, O)
    <2>1. GoodRow(t, i, K, N)
      BY DEF Grammar
    <2>2. ASSUME NEW c \in t[i].when PROVE ReadBefore(t, i, J, c[1])
      BY <2>1, Zenon DEF GoodRow, ReadBefore
    <2>3. (\A m \in ToSet(t[i].names) : m \notin O) /\ ToSet(t[i].names) # {}
      BY <2>1, Zenon DEF GoodRow
    <2> QED BY <2>1, <2>2, <2>3, Zenon DEF GoodRow
  <1>2. \A m \in M : m \in J \/ Always(t, m)
    BY Zenon DEF Grammar
  <1> QED BY <1>1, <1>2, Zenon DEF Grammar

\* One row.
LEMMA GrammarOfRow ==
    ASSUME NEW code \in TableCodes, NEW names, IsSeq(names), NEW N, \A m \in ToSet(names) : m \notin N,
           TellsColours(code, names) \/ (\A m \in ToSet(names) : m \notin ColourNames),
           ToSet(names) # {}, NEW K
    PROVE  Grammar(U(code, names), K, ToSet(names), N)
  <1>1. PICK r : r = [names |-> names, code |-> code, when |-> {}]
    OBVIOUS
  <1>2. PICK t : t = <<r>>
    OBVIOUS
  <1>3. U(code, names) = t
    BY <1>1, <1>2, Zenon DEF U
  <1>4. code \in Codes
    BY TableCodesAre
  <1>5. IsTable(t)
    BY <1>3, <1>4, OneRow
  <1>6. Len(t) = 1 /\ t[1] = r /\ r.names = names /\ r.code = code /\ r.when = {}
    BY <1>1, <1>2
  <1>7. GoodRow(t, 1, K, N)
    BY <1>6 DEF GoodRow, Apart
  <1>8. \A m \in ToSet(names) : Always(t, m)
    BY <1>6 DEF Always
  <1>9. \A i \in 1 .. Len(t) : i = 1
    BY <1>6
  <1> QED BY <1>3, <1>5, <1>7, <1>8, <1>9, Zenon DEF Grammar

\* The rows of u are the n rows of t under a condition.
AreUnder(u, t, n, name, values) ==
    /\ IsTable(u) /\ Len(u) = n /\ DOMAIN u = 1 .. n /\ DOMAIN t = 1 .. n
    /\ \A i \in 1 .. n : /\ u[i].names = t[i].names /\ u[i].code = t[i].code
                         /\ u[i].when = t[i].when \cup {<<name, values>>}

\* The rows of a table under a condition.
LEMMA RowsOfIf ==
    ASSUME NEW name, NEW values, NEW t, IsTable(t), NEW u, u = If(name, values, t),
           NEW n, n = Len(t)
    PROVE  n \in Nat /\ AreUnder(u, t, n, name, values)
  <1>1. IsTable(u)
    BY RowsUnder, Zenon
  <1>2. n \in Nat /\ DOMAIN t = 1 .. n
    BY TableRows
  <1>3. u = [i \in 1 .. n |-> [t[i] EXCEPT !.when = @ \cup {<<name, values>>}]]
    BY <1>2, Zenon DEF If
  <1>4. DOMAIN u = 1 .. n
    BY <1>3, Zenon
  <1>5. Len(u) = n
    <2>1. Len(u) \in Nat /\ DOMAIN u = 1 .. Len(u)
      BY <1>1, TableRows
    <2> QED BY <1>4, <2>1, SameLength
  <1>6. ASSUME NEW i \in 1 .. n
        PROVE  /\ u[i].names = t[i].names /\ u[i].code = t[i].code
               /\ u[i].when = t[i].when \cup {<<name, values>>}
    <2>1. PICK N, W : t \in Seq(Rows(N, W))
      BY DEF IsTable
    <2>2. t[i] \in Rows(N, W)
      BY <1>2, <2>1, ElementOfSeq
    <2>3. u[i] = [t[i] EXCEPT !.when = @ \cup {<<name, values>>}]
      BY <1>3
    <2> QED BY <2>2, <2>3 DEF Rows
  <1> QED BY <1>1, <1>2, <1>4, <1>5, <1>6 DEF AreUnder

\* The names of a row are members of the table.
LEMMA RowsInMembers ==
    ASSUME NEW t, IsTable(t), NEW i \in 1 .. Len(t)
    PROVE  ToSet(t[i].names) \subseteq MembersOf(t)
  <1>1. DOMAIN t = 1 .. Len(t)
    BY TableRows
  <1>2. ASSUME NEW m \in ToSet(t[i].names) PROVE m \in MembersOf(t)
    BY <1>1, Zenon DEF MembersOf
  <1> QED BY <1>2

\* Rows under a condition.
LEMMA GrammarOfIf ==
    ASSUME NEW t, NEW K, NEW L, NEW N, Grammar(t, K, L, N), NEW name, name \in K, NEW values,
           name \notin ColourNames \/ MembersOf(t) \subseteq ColourNames
    PROVE  Grammar(If(name, values, t), K, K, N)
  <1>1. IsTable(t)
    BY DEF Grammar
  <1>2. PICK u : u = If(name, values, t)
    OBVIOUS
  <1>3. PICK n \in Nat : n = Len(t)
    BY <1>1, TableRows
  <1>4. /\ IsTable(u) /\ Len(u) = n
        /\ \A i \in 1 .. n : /\ u[i].names = t[i].names /\ u[i].code = t[i].code
                             /\ u[i].when = t[i].when \cup {<<name, values>>}
    BY <1>1, <1>2, <1>3, RowsOfIf DEF AreUnder
  <1>5. ASSUME NEW i \in 1 .. n PROVE GoodRow(u, i, K, N)
    <2>1. GoodRow(t, i, K, N)
      BY <1>3, Zenon DEF Grammar
    <2>2. u[i].code \in TableCodes /\ (\A m \in ToSet(u[i].names) : m \notin N) /\ ToSet(u[i].names) # {}
      BY <1>4, <2>1, Zenon DEF GoodRow
    <2>3. Apart(u[i])
      <3>1. CASE MembersOf(t) \subseteq ColourNames
        <4>3. ToSet(t[i].names) \subseteq MembersOf(t)
          BY <1>1, <1>3, RowsInMembers
        <4>1. Apart(t[i]) /\ ToSet(t[i].names) # {} /\ ToSet(t[i].names) \subseteq ColourNames
          BY <2>1, <3>1, <4>3 DEF GoodRow
        <4>2. TellsColours(t[i].code, t[i].names)
          BY <3>1, <4>1 DEF Apart
        <4> QED BY <1>4, <4>2 DEF Apart
      <3>2. CASE name \notin ColourNames
        <4>1. Apart(t[i])
          BY <2>1 DEF GoodRow
        <4>2. ASSUME NEW c \in u[i].when, \A d \in t[i].when : d[1] \notin ColourNames
              PROVE  c[1] \notin ColourNames
          <5>1. c \in t[i].when \/ c = <<name, values>>
            BY <1>4
          <5> QED BY <3>2, <4>2, <5>1
        <4> QED BY <1>4, <4>1, <4>2, Zenon DEF Apart
      <3> QED BY <3>1, <3>2
    <2>4. ASSUME NEW c \in u[i].when PROVE ReadBefore(u, i, K, c[1])
      <3>1. c \in t[i].when \/ c = <<name, values>>
        BY <1>4
      <3>2. CASE c = <<name, values>>
        BY <3>2 DEF ReadBefore
      <3>3. CASE c \in t[i].when
        <4>1. ReadBefore(t, i, K, c[1])
          BY <2>1, <3>3, Zenon DEF GoodRow
        <4>2. ASSUME NEW j \in 1 .. i - 1, c[1] \in ToSet(t[j].names), t[j].when \subseteq t[i].when
              PROVE  c[1] \in ToSet(u[j].names) /\ u[j].when \subseteq u[i].when
          <5>1. j \in 1 .. n
            BY <1>3
          <5> QED BY <1>4, <4>2, <5>1
        <4> QED BY <4>1, <4>2, Zenon DEF ReadBefore
      <3> QED BY <3>1, <3>2, <3>3
    <2> QED BY <2>2, <2>3, <2>4, Zenon DEF GoodRow
  <1> QED BY <1>2, <1>4, <1>5, Zenon DEF Grammar

\* The rows of two tables.
AreBoth(c, a, n, b, m) ==
    /\ IsTable(c) /\ Len(c) = n + m
    /\ DOMAIN a = 1 .. n /\ DOMAIN b = 1 .. m /\ DOMAIN c = 1 .. n + m
    /\ \A i \in 1 .. n : c[i] = a[i]
    /\ \A i \in 1 .. m : c[n + i] = b[i]

\* The rows of two tables, one behind the other.
LEMMA RowsOfBoth ==
    ASSUME NEW a, NEW b, IsTable(a), IsTable(b), NEW c, c = a \o b,
           NEW n, n = Len(a), NEW m, m = Len(b)
    PROVE  n \in Nat /\ m \in Nat /\ AreBoth(c, a, n, b, m)
  <1>1. PICK N, W : a \in Seq(Rows(N, W))
    BY DEF IsTable
  <1>2. PICK M, V : b \in Seq(Rows(M, V))
    BY DEF IsTable
  <1>3. PICK R : R = Rows(N, W) \cup Rows(M, V)
    OBVIOUS
  <1>4. Rows(N, W) \subseteq R /\ Rows(M, V) \subseteq R
    BY <1>3
  <1>5. a \in Seq(R) /\ b \in Seq(R)
    BY <1>1, <1>2, <1>4, SeqMonotonic
  <1>6. /\ c \in Seq(R) /\ Len(c) = Len(a) + Len(b) /\ Len(a) \in Nat /\ Len(b) \in Nat
        /\ \A i \in 1 .. Len(a) : c[i] = a[i]
        /\ \A i \in 1 .. Len(b) : c[Len(a) + i] = b[i]
    BY <1>5
  <1>7. DOMAIN a = 1 .. Len(a) /\ DOMAIN b = 1 .. Len(b) /\ DOMAIN c = 1 .. Len(c)
    BY <1>5, <1>6, LenProperties
  <1>8. IsTable(c)
    BY RowsBehind, Zenon
  <1> QED BY <1>6, <1>7, <1>8 DEF AreBoth

\* Two tables, one behind the other.
LEMMA GrammarOfBoth ==
    ASSUME NEW a, NEW b, NEW K, NEW L, NEW M, NEW N, Grammar(a, K, L, N), Grammar(b, L, M, N)
    PROVE  Grammar(a \o b, K, M, N)
  <1>1. IsTable(a) /\ IsTable(b)
    BY DEF Grammar
  <1>2. PICK c : c = a \o b
    OBVIOUS
  <1>3. PICK n \in Nat, m \in Nat : n = Len(a) /\ m = Len(b)
    BY <1>1, TableRows
  <1>14. AreBoth(c, a, n, b, m)
    BY <1>1, <1>2, <1>3, RowsOfBoth
  <1>4. /\ IsTable(c) /\ Len(c) = n + m
        /\ \A i \in 1 .. n : c[i] = a[i]
        /\ \A i \in 1 .. m : c[n + i] = b[i]
    BY <1>14 DEF AreBoth
  <1>5. ASSUME NEW i \in 1 .. n PROVE GoodRow(c, i, K, N)
    <2>1. GoodRow(a, i, K, N)
      BY <1>3, Zenon DEF Grammar
    <2>2. \A j \in 1 .. i - 1 : c[j] = a[j]
      BY <1>4
    <2> QED BY <1>4, <2>1, <2>2, Zenon DEF GoodRow, ReadBefore
  <1>6. ASSUME NEW i \in 1 .. m PROVE GoodRow(c, n + i, K, N)
    <2>1. GoodRow(b, i, L, N) /\ c[n + i] = b[i]
      BY <1>3, <1>4, Zenon DEF Grammar
    <2>2. ASSUME NEW d \in b[i].when PROVE ReadBefore(c, n + i, K, d[1])
      <3>1. ReadBefore(b, i, L, d[1])
        BY <2>1, Zenon DEF GoodRow
      <3>2. CASE d[1] \in L
        <4>1. d[1] \in K \/ Always(a, d[1])
          BY <3>2, Zenon DEF Grammar
        <4>2. CASE Always(a, d[1])
          <5>1. PICK j \in 1 .. n : d[1] \in ToSet(a[j].names) /\ a[j].when = {}
            BY <1>3, <4>2 DEF Always
          <5>2. j \in 1 .. (n + i) - 1 /\ c[j] = a[j]
            BY <1>4
          <5>3. d[1] \in ToSet(c[j].names) /\ c[j].when \subseteq c[n + i].when
            BY <5>1, <5>2
          <5> QED BY <5>2, <5>3, Zenon DEF ReadBefore
        <4> QED BY <4>1, <4>2 DEF ReadBefore
      <3>3. CASE \E j \in 1 .. i - 1 : d[1] \in ToSet(b[j].names) /\ b[j].when \subseteq b[i].when
        <4>1. PICK j \in 1 .. i - 1 : d[1] \in ToSet(b[j].names) /\ b[j].when \subseteq b[i].when
          BY <3>3
        <4>2. j \in 1 .. m /\ n + j \in 1 .. (n + i) - 1
          OBVIOUS
        <4>3. c[n + j] = b[j]
          BY <1>4, <4>2
        <4>4. d[1] \in ToSet(c[n + j].names) /\ c[n + j].when \subseteq c[n + i].when
          BY <2>1, <4>1, <4>3, Zenon
        <4> QED BY <4>2, <4>4, Zenon DEF ReadBefore
      <3> QED BY <3>1, <3>2, <3>3 DEF ReadBefore
    <2> QED BY <2>1, <2>2, Zenon DEF GoodRow
  <1>7. ASSUME NEW i \in 1 .. Len(c) PROVE GoodRow(c, i, K, N)
    <2>1. CASE i <= n
      BY <1>4, <1>5, <2>1
    <2>2. CASE i > n
      <3>1. PICK k \in 1 .. m : i = n + k
        <4>1. i - n \in 1 .. m /\ i = n + (i - n)
          BY <1>4, <2>2
        <4> QED BY <4>1
      <3> QED BY <1>6, <3>1
    <2> QED BY <1>4, <2>1, <2>2
  <1>8. ASSUME NEW x \in M PROVE x \in K \/ Always(c, x)
    <2>1. x \in L \/ Always(b, x)
      BY Zenon DEF Grammar
    <2>2. CASE Always(b, x)
      <3>1. PICK j \in 1 .. m : x \in ToSet(b[j].names) /\ b[j].when = {}
        BY <1>3, <2>2 DEF Always
      <3>2. n + j \in 1 .. Len(c) /\ c[n + j] = b[j]
        BY <1>4
      <3> QED BY <3>1, <3>2, Zenon DEF Always
    <2>3. CASE x \in L
      <3>1. x \in K \/ Always(a, x)
        BY <2>3, Zenon DEF Grammar
      <3>2. CASE Always(a, x)
        <4>1. PICK j \in 1 .. n : x \in ToSet(a[j].names) /\ a[j].when = {}
          BY <1>3, <3>2 DEF Always
        <4>2. j \in 1 .. Len(c) /\ c[j] = a[j]
          BY <1>4
        <4> QED BY <4>1, <4>2, Zenon DEF Always
      <3> QED BY <3>1, <3>2
    <2> QED BY <2>1, <2>2, <2>3
  <1> QED BY <1>2, <1>4, <1>7, <1>8, Zenon DEF Grammar

\* The members of row i are the same in p and q, when it is there.
Same(t, i, p, q) == IsPresent(t[i], p) => \A m \in ToSet(t[i].names) : q[m] = p[m]

\* Two agree on what is known and on what is read before the n-th row, and on which
\* of the first n rows are there.
KnownAlike(t, n, K, p, q) == /\ \A m \in K : q[m] = p[m]
                             /\ \A j \in 1 .. n - 1 : Same(t, j, p, q)
PresentAlike(t, n, p, q) == \A i \in 1 .. n : IsPresent(t[i], q) <=> IsPresent(t[i], p)

\* What was the same before a row decides whether it is there.
LEMMA SamePresence ==
    ASSUME NEW t, NEW K, NEW L, NEW N, Grammar(t, K, L, N), NEW n \in 0 .. Len(t), NEW p, NEW q,
           KnownAlike(t, n, K, p, q)
    PROVE  PresentAlike(t, n, p, q)
  <1> USE DEF KnownAlike, PresentAlike
  <1> DEFINE T == {i \in 0 .. n : \A j \in 1 .. i : IsPresent(t[j], q) <=> IsPresent(t[j], p)}
  <1>0. n \in Nat /\ Len(t) \in Nat
    <2>1. Len(t) \in Nat
      BY TableRows DEF Grammar
    <2> QED BY <2>1
  <1>1. 0 \in T
    BY <1>0
  <1>2. ASSUME NEW i \in 1 .. n, i - 1 \in T PROVE i \in T
    <2>1. \A j \in 1 .. i - 1 : IsPresent(t[j], q) <=> IsPresent(t[j], p)
      BY <1>2
    <2>2. \A c \in t[i].when : ReadBefore(t, i, K, c[1])
      <3>1. i \in 1 .. Len(t)
        BY <1>0
      <3> QED BY <3>1, Zenon DEF Grammar, GoodRow
    <2>3. ASSUME NEW c \in t[i].when, NEW r, r = p \/ r = q, IsPresent(t[i], r)
          PROVE  q[c[1]] = p[c[1]]
      <3>1. CASE c[1] \in K
        BY <3>1
      <3>2. CASE c[1] \notin K
        <4>1. PICK j \in 1 .. i - 1 : c[1] \in ToSet(t[j].names) /\ t[j].when \subseteq t[i].when
          BY <2>2, <3>2 DEF ReadBefore
        <4>2. IsPresent(t[j], r)
          BY <2>3, <4>1 DEF IsPresent
        <4>3. IsPresent(t[j], p)
          BY <2>1, <2>3, <4>2, Zenon
        <4>4. j \in 1 .. n - 1
          BY <1>0
        <4> QED BY <4>1, <4>3, <4>4, Zenon DEF Same
      <3> QED BY <3>1, <3>2
    <2>4. IsPresent(t[i], q) <=> IsPresent(t[i], p)
      <3>1. ASSUME IsPresent(t[i], p) PROVE IsPresent(t[i], q)
        BY <2>3, <3>1, Zenon DEF IsPresent
      <3>2. ASSUME IsPresent(t[i], q) PROVE IsPresent(t[i], p)
        BY <2>3, <3>2, Zenon DEF IsPresent
      <3> QED BY <3>1, <3>2
    <2>5. \A j \in 1 .. i : j \in 1 .. i - 1 \/ j = i
      OBVIOUS
    <2>6. i \in 0 .. n
      OBVIOUS
    <2> QED BY <2>1, <2>4, <2>5, <2>6, Zenon
  <1>3. n \in T
    <2> HIDE DEF T
    <2>1. 0 .. n \subseteq T
      BY <1>0, <1>1, <1>2, UpTo
    <2> QED BY <1>0, <2>1
  <1> QED BY <1>3

\* The members of the first n rows that are there.
PresentUpTo(t, p, n) ==
    {m \in Members : \E i \in 1 .. n : IsPresent(t[i], p) /\ m \in ToSet(t[i].names)}

\* The members that the whole table has for these parameters.
Present(t, p) == PresentUpTo(t, p, Len(t))

\* The bits of the rows.
SpecParts(t, p) == [i \in DOMAIN t |-> SpecPart(t[i], p)]

\* A table of the codes of H.264, for values that fit them.
Coding(t, p) == IsTable(t) /\ (\A i \in 1 .. Len(t) : t[i].code \in TableCodes) /\ Fits(t, p)

\* Tables that can be read are such tables.
LEMMA GrammarCodes ==
    ASSUME NEW t, NEW K, NEW L, NEW N, Grammar(t, K, L, N), NEW p, Fits(t, p)
    PROVE  Coding(t, p)
  BY Zenon DEF Grammar, GoodRow, Coding

\* They are put one behind the other.
LEMMA SpecBitsLaid ==
    ASSUME NEW t, NEW p, Coding(t, p), NEW n, n = Len(t), NEW parts, parts = SpecParts(t, p), NEW bits, bits = SpecBits(t, p)
    PROVE  /\ n \in Nat /\ parts \in [1 .. n -> Seq(Bits)] /\ bits \in Seq(Bits)
           /\ \E at : Laid(bits, at, n, parts)
           /\ \A i \in 1 .. n : parts[i] = SpecPart(t[i], p)
  <1>1. n \in Nat /\ DOMAIN t = 1 .. n /\ \A i \in 1 .. n : IsSeq(t[i].names) /\ t[i].code \in Codes
    BY TableRows, Zenon DEF Coding
  <1>2. parts = [i \in 1 .. n |-> SpecPart(t[i], p)]
    BY <1>1, Zenon DEF SpecParts
  <1>3. ASSUME NEW i \in 1 .. n PROVE parts[i] \in Seq(Bits)
    <2>1. parts[i] = SpecPart(t[i], p)
      BY <1>2
    <2>2. CASE IsPresent(t[i], p)
      <3>1. PICK names : names = t[i].names /\ IsSeq(names)
        BY <1>1
      <3>2. t[i].code \in TableCodes
        BY Zenon DEF Coding
      <3>3. FitsRow(t[i], p)
        BY Zenon DEF Coding, Fits
      <3>4. SpecRow(t[i], p) \in Seq(Bits)
        BY <3>1, <3>2, <3>3, SpecRowLaid
      <3> QED BY <2>1, <2>2, <3>4 DEF SpecPart
    <2>3. CASE ~IsPresent(t[i], p)
      <3>1. SpecPart(t[i], p) = <<>>
        BY <2>3, Zenon DEF SpecPart
      <3> QED BY <2>1, <3>1
    <2> QED BY <2>2, <2>3
  <1>4. parts \in [1 .. n -> Seq(Bits)]
    BY <1>2, <1>3
  <1>5. bits = FlattenSeq(parts)
    BY <1>1, <1>2, Zenon DEF SpecBits
  <1>6. Len(parts) = n
    <2>1. PICK Z : Z = Seq(Bits)
      OBVIOUS
    <2>2. parts \in [1 .. n -> Z]
      BY <1>4, <2>1
    <2> QED BY <1>1, <2>2, LenOfFunction
  <1>7. bits \in Seq(Bits) /\ \E at : Laid(bits, at, n, parts)
    BY <1>1, <1>4, <1>5, <1>6, Flattened, Zenon
  <1>8. \A i \in 1 .. n : parts[i] = SpecPart(t[i], p)
    BY <1>2
  <1> QED BY <1>1, <1>4, <1>7, <1>8

\* The table t is read at x as the parameters p were coded.
ReadsBack(t, s, x, p) ==
    ReadTable(t, s, x) = [sps |-> Told(x.sps, p, Present(t, p)), pos |-> x.pos + Len(SpecBits(t, p))]

\* A table is read as it was coded.
LEMMA ReadTableBack ==
    ASSUME NEW s \in Seq(Bits), NEW t, NEW K, NEW L, NEW N, Grammar(t, K, L, N),
           K \subseteq Members, MembersOf(t) \subseteq Members, NEW p, Fits(t, p),
           NEW x \in States(s), \A m \in K : x.sps[m] = p[m], Carries(s, x.pos, SpecBits(t, p))
    PROVE  ReadsBack(t, s, x, p)
  <1>1. PICK n : n = Len(t)
    OBVIOUS
  <1>2. PICK parts : parts = SpecParts(t, p)
    OBVIOUS
  <1>3. PICK bits : bits = SpecBits(t, p)
    OBVIOUS
  <1>4. /\ n \in Nat /\ parts \in [1 .. n -> Seq(Bits)] /\ bits \in Seq(Bits)
        /\ \E at : Laid(bits, at, n, parts)
        /\ \A i \in 1 .. n : parts[i] = SpecPart(t[i], p)
    <2>1. Coding(t, p)
      BY GrammarCodes
    <2> QED BY <1>1, <1>2, <1>3, <2>1, SpecBitsLaid
  <1>5. PICK at : Laid(bits, at, n, parts)
    BY <1>4
  <1>6. IsTable(t)
    BY DEF Grammar
  <1>7. PICK f \in [0 .. n -> States(s)] : TableStates(f, n, t, s, x)
    BY <1>1, <1>4, <1>6, TableStatesExist
  <1>8. ReadTable(t, s, x) = f[n]
    <2>1. \A h : TableStates(h, n, t, s, x) => h = f
      BY <1>4, <1>7, OneTableStates
    <2>2. (CHOOSE h : TableStates(h, n, t, s, x)) = f
      BY <1>7, <2>1, Zenon
    <2>3. ReadTable(t, s, x) = (CHOOSE h : TableStates(h, n, t, s, x))[n]
      BY <1>1, Zenon DEF ReadTable, TableStates, ReadIf
    <2> QED BY <2>2, <2>3
  <1>9. x.sps \in [Members -> Int] /\ x.pos \in Nat
    BY DEF States
  <1>10. ASSUME NEW i \in 1 .. n PROVE Placed(s, x.pos, at, parts, i)
    <2>1. PICK pos : pos = x.pos
      OBVIOUS
    <2>2. Carries(s, pos, bits)
      BY <1>3, <2>1
    <2>3. n \in Nat /\ parts \in [1 .. n -> Seq(Bits)]
      BY <1>4
    <2>4. Placed(s, pos, at, parts, i)
      BY <1>5, <2>2, <2>3, CarriesPart
    <2> QED BY <2>1, <2>4, Zenon
  <1> DEFINE T == {i \in 0 .. n : f[i] = [sps |-> Told(x.sps, p, PresentUpTo(t, p, i)),
                                          pos |-> x.pos + at[i]]}
  <1>11. 0 \in T
    <2>1. \A m \in Members : m \notin PresentUpTo(t, p, 0)
      BY DEF PresentUpTo
    <2>2. Told(x.sps, p, PresentUpTo(t, p, 0)) = x.sps
      BY <1>9, <2>1, TellingNone
    <2>3. x.pos + at[0] = x.pos
      BY <1>5, <1>9 DEF Laid
    <2>4. f[0] = x
      <3>1. 0 \in 0 .. n
        BY <1>4
      <3> QED BY <1>7, <3>1, Zenon DEF TableStates
    <2>5. x = [sps |-> x.sps, pos |-> x.pos]
      BY DEF States
    <2>6. 0 \in 0 .. n
      BY <1>4
    <2> QED BY <2>2, <2>3, <2>4, <2>5, <2>6
  <1>12. ASSUME NEW i \in 1 .. n, i - 1 \in T PROVE i \in T
    <2>1. /\ Carries(s, x.pos + at[i - 1], parts[i]) /\ x.pos + at[i - 1] \in Nat
          /\ at[i - 1] \in Nat /\ at[i] = at[i - 1] + Len(parts[i])
      BY <1>10, Zenon DEF Placed
    <2>2. PICK y : y = f[i - 1]
      OBVIOUS
    <2>3. i \in 0 .. n /\ i - 1 \in 0 .. n /\ i # 0
      BY <1>4
    <2>4. y = [sps |-> Told(x.sps, p, PresentUpTo(t, p, i - 1)), pos |-> x.pos + at[i - 1]]
      BY <1>12, <2>2
    <2>5. y \in States(s)
      BY <2>2, <2>3
    <2>6. PICK P, R : P = PresentUpTo(t, p, i - 1) /\ R = PresentUpTo(t, p, i)
      OBVIOUS
    <2>7. y.sps = Told(x.sps, p, P) /\ y.pos = x.pos + at[i - 1]
      BY <2>4, <2>6
    <2>8. \A m \in Members : m \in R <=> m \in P \/ (IsPresent(t[i], p) /\ m \in ToSet(t[i].names))
      <3>1. \A k : k \in 1 .. i <=> k \in 1 .. i - 1 \/ k = i
        BY <1>4
      <3> QED BY <2>6, <3>1, Zenon DEF PresentUpTo
    <2>9. GoodRow(t, i, K, N)
      BY <1>1, Zenon DEF Grammar
    <2>10. IsPresent(t[i], y.sps) <=> IsPresent(t[i], p)
      <3>1. ASSUME NEW m \in K PROVE y.sps[m] = p[m]
        BY <2>7 DEF Told
      <3>2. ASSUME NEW j \in 1 .. i - 1 PROVE Same(t, j, p, y.sps)
        <4>1. SUFFICES ASSUME IsPresent(t[j], p), NEW m \in ToSet(t[j].names)
                       PROVE  y.sps[m] = p[m]
          BY DEF Same
        <4>2. m \in Members
          <5>1. j \in 1 .. Len(t)
            BY <1>1, <1>4
          <5>2. ToSet(t[j].names) \subseteq MembersOf(t)
            BY <1>6, <5>1, RowsInMembers
          <5> QED BY <5>2
        <4>3. m \in P
          BY <2>6, <4>1, <4>2, Zenon DEF PresentUpTo
        <4>4. Told(x.sps, p, P)[m] = p[m]
          BY <4>2, <4>3 DEF Told
        <4> QED BY <2>7, <4>4, Zenon
      <3>3. i \in 0 .. Len(t) /\ i \in 1 .. i
        BY <1>1, <1>4
      <3>4. PICK q : q = y.sps
        OBVIOUS
      <3>5. \A m \in K : q[m] = p[m]
        BY <3>1, <3>4
      <3>6. \A j \in 1 .. i - 1 : Same(t, j, p, q)
        BY <3>2, <3>4
      <3>7. KnownAlike(t, i, K, p, q)
        BY <3>5, <3>6, Zenon DEF KnownAlike
      <3>8. PresentAlike(t, i, p, q)
        BY <1>1, <3>3, <3>7, SamePresence, ZenonT(40)
      <3> QED BY <3>3, <3>4, <3>8, Zenon DEF PresentAlike
    <2>11. f[i] = ReadIf(y, s, t[i])
      <3>1. f[i] = IF i = 0 THEN x ELSE ReadIf(f[i - 1], s, t[i])
        BY <1>7, <2>3, Zenon DEF TableStates
      <3> QED BY <2>2, <2>3, <3>1
    <2>12. parts[i] = SpecPart(t[i], p)
      BY <1>4
    <2>13. CASE IsPresent(t[i], p)
      <3>1. parts[i] = SpecRow(t[i], p)
        BY <2>12, <2>13, Zenon DEF SpecPart
      <3>2. f[i] = ReadRow(t[i], s, y)
        BY <2>10, <2>11, <2>13, Zenon DEF ReadIf
      <3>3. PICK row, names : row = t[i] /\ names = row.names
        OBVIOUS
      <3>4. IsSeq(names) /\ row.code \in TableCodes /\ FitsRow(row, p)
        <4>1. IsSeq(t[i].names)
          BY <1>1, <1>6, TableRows
        <4>2. t[i].code \in TableCodes
          BY <2>9, Zenon DEF GoodRow
        <4>3. FitsRow(t[i], p)
          BY <1>1, Zenon DEF Fits
        <4> QED BY <3>3, <4>1, <4>2, <4>3
      <3>5. Carries(s, y.pos, SpecRow(row, p))
        BY <2>1, <2>7, <3>1, <3>3
      <3>6. ReadRow(row, s, y) = [sps |-> Told(y.sps, p, ToSet(names)), pos |-> y.pos + Len(SpecRow(row, p))]
        BY <2>5, <3>3, <3>4, <3>5, ReadRowBack
      <3>7. Told(Told(x.sps, p, P), p, ToSet(names)) = Told(x.sps, p, R)
        <4>1. \A m \in Members : m \in R <=> m \in P \/ m \in ToSet(names)
          BY <2>8, <2>13, <3>3
        <4> QED BY <4>1, TellingMore
      <3>8. y.pos + Len(SpecRow(row, p)) = x.pos + at[i]
        <4>1. Len(parts[i]) \in Nat
          BY <1>4
        <4> QED BY <1>9, <2>1, <2>7, <3>1, <3>3, <4>1
      <3>9. f[i] = [sps |-> Told(x.sps, p, R), pos |-> x.pos + at[i]]
        BY <2>7, <3>2, <3>3, <3>6, <3>7, <3>8, Zenon
      <3> QED BY <2>3, <2>6, <3>9
    <2>14. CASE ~IsPresent(t[i], p)
      <3>1. parts[i] = <<>>
        BY <2>12, <2>14, Zenon DEF SpecPart
      <3>2. f[i] = y
        BY <2>10, <2>11, <2>14, Zenon DEF ReadIf
      <3>3. P = R
        <4>1. P \subseteq Members /\ R \subseteq Members
          BY <2>6, Zenon DEF PresentUpTo
        <4> QED BY <2>8, <2>14, <4>1
      <3>4. at[i] = at[i - 1]
        BY <2>1, <3>1
      <3> QED BY <2>3, <2>4, <2>6, <3>2, <3>3, <3>4
    <2> QED BY <2>13, <2>14
  <1>13. n \in T
    <2> HIDE DEF T
    <2>1. 0 .. n \subseteq T
      BY <1>4, <1>11, <1>12, UpTo
    <2>2. n \in 0 .. n
      BY <1>4
    <2> QED BY <2>1, <2>2
  <1>14. Len(bits) = at[n]
    BY <1>5 DEF Laid
  <1>15. f[n] = [sps |-> Told(x.sps, p, Present(t, p)), pos |-> x.pos + Len(bits)]
    BY <1>1, <1>13, <1>14, Zenon DEF Present
  <1> QED BY <1>3, <1>8, <1>15, Zenon DEF ReadsBack

-----------------------------------------------------------------------------
(* What is written of a table *)

\* The numbers of variable length that the writer has the width for.
NarrowRow(row, p) ==
    row.code \in {UE, SE} => \A k \in DOMAIN row.names : p[row.names[k]] \in Narrow

NarrowTable(t, p) == \A i \in 1 .. Len(t) : NarrowRow(t[i], p)

\* Row a with the members of p is row b with the members of q.
MirrorRow(a, p, b, q) ==
    /\ a.code = b.code /\ (IsPresent(a, p) <=> IsPresent(b, q))
    /\ DOMAIN a.names = DOMAIN b.names
    /\ \A k \in DOMAIN a.names : p[a.names[k]] = q[b.names[k]]

\* A table with the members of p is a table with the members of q, row by row.
Mirrors(t, p, u, q) ==
    /\ IsTable(t) /\ IsTable(u) /\ Len(u) = Len(t)
    /\ \A i \in 1 .. Len(t) : MirrorRow(t[i], p, u[i], q)

\* What is written of a row.
Part(row, sps) == IF IsPresent(row, sps) THEN RowBits(row, sps) ELSE <<>>

\* Rows that mirror each other have the same bits.
LEMMA MirroredRow ==
    ASSUME NEW a, NEW p, NEW b, NEW q, MirrorRow(a, p, b, q)
    PROVE  /\ SpecPart(a, p) = SpecPart(b, q) /\ Part(a, p) = Part(b, q)
           /\ FitsRow(a, p) => FitsRow(b, q)
           /\ NarrowRow(a, p) => NarrowRow(b, q)
  <1>1. PICK D, c : D = DOMAIN a.names /\ D = DOMAIN b.names /\ c = a.code /\ c = b.code
    BY DEF MirrorRow
  <1>2. \A k \in D : p[a.names[k]] = q[b.names[k]]
    BY <1>1 DEF MirrorRow
  <1>3. [k \in D |-> SpecCode(p[a.names[k]], c)] = [k \in D |-> SpecCode(q[b.names[k]], c)]
    BY <1>2, Zenon
  <1>4. SpecRow(a, p) = SpecRow(b, q)
    BY <1>1, <1>3, Zenon DEF SpecRow
  <1>5. [k \in D |-> CodeBits(p[a.names[k]], c)] = [k \in D |-> CodeBits(q[b.names[k]], c)]
    BY <1>2, Zenon
  <1>6. RowBits(a, p) = RowBits(b, q)
    BY <1>1, <1>5, Zenon DEF RowBits
  <1>7. IsPresent(a, p) <=> IsPresent(b, q)
    BY DEF MirrorRow
  <1>8. SpecPart(a, p) = SpecPart(b, q) /\ Part(a, p) = Part(b, q)
    BY <1>4, <1>6, <1>7, Zenon DEF SpecPart, Part
  <1>9. FitsRow(a, p) => FitsRow(b, q)
    BY <1>1, <1>2, Zenon DEF FitsRow
  <1>10. NarrowRow(a, p) => NarrowRow(b, q)
    BY <1>1, <1>2, Zenon DEF NarrowRow
  <1> QED BY <1>8, <1>9, <1>10

\* Tables that mirror each other have the same bits.
LEMMA MirroredTable ==
    ASSUME NEW t, NEW p, NEW u, NEW q, Mirrors(t, p, u, q)
    PROVE  /\ SpecBits(t, p) = SpecBits(u, q)
           /\ Fits(t, p) => Fits(u, q)
           /\ NarrowTable(t, p) => NarrowTable(u, q)
  <1>1. PICK D : D = 1 .. Len(t) /\ D = DOMAIN t /\ D = DOMAIN u /\ D = 1 .. Len(u)
    <2>1. DOMAIN t = 1 .. Len(t) /\ DOMAIN u = 1 .. Len(u) /\ Len(u) = Len(t)
      BY TableRows DEF Mirrors
    <2> QED BY <2>1
  <1>2. \A i \in D : MirrorRow(t[i], p, u[i], q)
    BY <1>1 DEF Mirrors
  <1>3. \A i \in D : SpecPart(t[i], p) = SpecPart(u[i], q)
    BY <1>2, MirroredRow
  <1>4. [i \in D |-> SpecPart(t[i], p)] = [i \in D |-> SpecPart(u[i], q)]
    BY <1>3, Zenon
  <1>5. SpecBits(t, p) = SpecBits(u, q)
    BY <1>1, <1>4, Zenon DEF SpecBits
  <1>6. \A i \in D : FitsRow(t[i], p) => FitsRow(u[i], q)
    BY <1>2, MirroredRow
  <1>7. \A i \in D : NarrowRow(t[i], p) => NarrowRow(u[i], q)
    BY <1>2, MirroredRow
  <1>8. Fits(t, p) => Fits(u, q)
    BY <1>1, <1>6, Zenon DEF Fits
  <1>9. NarrowTable(t, p) => NarrowTable(u, q)
    BY <1>1, <1>7, Zenon DEF NarrowTable
  <1> QED BY <1>5, <1>8, <1>9

\* A row mirrors a row.
LEMMA MirrorsOfRow ==
    ASSUME NEW code \in Codes, NEW a, NEW b, IsSeq(a), IsSeq(b), NEW p, NEW q,
           DOMAIN a = DOMAIN b, \A k \in DOMAIN a : p[a[k]] = q[b[k]]
    PROVE  Mirrors(U(code, a), p, U(code, b), q)
  <1>1. PICK r : r = [names |-> a, code |-> code, when |-> {}]
    OBVIOUS
  <1>2. PICK t : t = <<r>>
    OBVIOUS
  <1>3. U(code, a) = t
    BY <1>1, <1>2, Zenon DEF U
  <1>4. PICK o : o = [names |-> b, code |-> code, when |-> {}]
    OBVIOUS
  <1>5. PICK u : u = <<o>>
    OBVIOUS
  <1>6. U(code, b) = u
    BY <1>4, <1>5, Zenon DEF U
  <1>7. IsTable(t) /\ IsTable(u)
    BY <1>3, <1>6, OneRow
  <1>8. Len(t) = 1 /\ t[1] = r /\ Len(u) = 1 /\ u[1] = o
    BY <1>2, <1>5
  <1>9. MirrorRow(r, p, o, q)
    <2>1. r.names = a /\ r.code = code /\ r.when = {} /\ o.names = b /\ o.code = code /\ o.when = {}
      BY <1>1, <1>4
    <2> QED BY <2>1, Zenon DEF MirrorRow, IsPresent
  <1>10. \A i \in 1 .. Len(t) : i = 1
    BY <1>8
  <1> QED BY <1>3, <1>6, <1>7, <1>8, <1>9, <1>10, Zenon DEF Mirrors

\* One condition more.
LEMMA PresentUnder ==
    ASSUME NEW r, NEW o, NEW a, NEW values, NEW p, o.when = r.when \cup {<<a, values>>}
    PROVE  IsPresent(o, p) <=> IsPresent(r, p) /\ p[a] \in values
  <1>1. PICK x : x = <<a, values>>
    OBVIOUS
  <1>2. x[1] = a /\ x[2] = values
    BY <1>1
  <1>3. o.when = r.when \cup {x}
    BY <1>1
  <1>4. IsPresent(o, p) <=> IsPresent(r, p) /\ p[x[1]] \in x[2]
    BY <1>3, Zenon DEF IsPresent
  <1> QED BY <1>2, <1>4

\* Under conditions that mirror each other.
LEMMA MirrorsOfIf ==
    ASSUME NEW t, NEW p, NEW u, NEW q, Mirrors(t, p, u, q), NEW a, NEW b, NEW values,
           p[a] \in values <=> q[b] \in values
    PROVE  Mirrors(If(a, values, t), p, If(b, values, u), q)
  <1>1. PICK n \in Nat : n = Len(t) /\ n = Len(u)
    BY TableRows DEF Mirrors
  <1>2. PICK v : v = If(a, values, t)
    OBVIOUS
  <1>3. PICK w : w = If(b, values, u)
    OBVIOUS
  <1>4. IsTable(t) /\ IsTable(u)
    BY DEF Mirrors
  <1>5. AreUnder(v, t, n, a, values) /\ AreUnder(w, u, n, b, values)
    BY <1>1, <1>2, <1>3, <1>4, RowsOfIf
  <1>6. ASSUME NEW i \in 1 .. n PROVE MirrorRow(v[i], p, w[i], q)
    <2>1. MirrorRow(t[i], p, u[i], q)
      BY <1>1 DEF Mirrors
    <2>2. /\ v[i].names = t[i].names /\ v[i].code = t[i].code /\ v[i].when = t[i].when \cup {<<a, values>>}
          /\ w[i].names = u[i].names /\ w[i].code = u[i].code /\ w[i].when = u[i].when \cup {<<b, values>>}
      BY <1>5 DEF AreUnder
    <2>3. IsPresent(v[i], p) <=> IsPresent(t[i], p) /\ p[a] \in values
      <3>1. v[i].when = t[i].when \cup {<<a, values>>}
        BY <2>2
      <3> QED BY <3>1, PresentUnder, ZenonT(40)
    <2>4. IsPresent(w[i], q) <=> IsPresent(u[i], q) /\ q[b] \in values
      <3>1. w[i].when = u[i].when \cup {<<b, values>>}
        BY <2>2
      <3> QED BY <3>1, PresentUnder, ZenonT(40)
    <2>5. IsPresent(v[i], p) <=> IsPresent(w[i], q)
      BY <2>1, <2>3, <2>4 DEF MirrorRow
    <2> QED BY <2>1, <2>2, <2>5, Zenon DEF MirrorRow
  <1>7. IsTable(v) /\ IsTable(w) /\ Len(v) = n /\ Len(w) = n
    BY <1>5 DEF AreUnder
  <1>8. \A i \in 1 .. Len(v) : MirrorRow(v[i], p, w[i], q)
    BY <1>6, <1>7
  <1> QED BY <1>2, <1>3, <1>7, <1>8, Zenon DEF Mirrors

\* A condition that holds.
LEMMA MirrorsWithout ==
    ASSUME NEW t, IsTable(t), NEW p, NEW a, NEW values, p[a] \in values
    PROVE  Mirrors(If(a, values, t), p, t, p)
  <1>1. PICK n \in Nat : n = Len(t)
    BY TableRows
  <1>2. PICK v : v = If(a, values, t)
    OBVIOUS
  <1>3. AreUnder(v, t, n, a, values)
    BY <1>1, <1>2, RowsOfIf
  <1>4. ASSUME NEW i \in 1 .. n PROVE MirrorRow(v[i], p, t[i], p)
    <2>1. /\ v[i].names = t[i].names /\ v[i].code = t[i].code /\ v[i].when = t[i].when \cup {<<a, values>>}
      BY <1>3 DEF AreUnder
    <2>2. IsPresent(v[i], p) <=> IsPresent(t[i], p)
      BY <2>1, PresentUnder
    <2> QED BY <2>1, <2>2, Zenon DEF MirrorRow
  <1>5. IsTable(v) /\ Len(v) = n
    BY <1>3 DEF AreUnder
  <1>6. \A i \in 1 .. Len(v) : MirrorRow(v[i], p, t[i], p)
    BY <1>4, <1>5
  <1> QED BY <1>1, <1>2, <1>5, <1>6, Zenon DEF Mirrors

\* Two tables, one behind the other.
LEMMA MirrorsOfBoth ==
    ASSUME NEW a, NEW b, NEW v, NEW w, NEW p, NEW q, Mirrors(a, p, v, q), Mirrors(b, p, w, q)
    PROVE  Mirrors(a \o b, p, v \o w, q)
  <1>1. PICK n \in Nat : n = Len(a) /\ n = Len(v)
    BY TableRows DEF Mirrors
  <1>2. PICK m \in Nat : m = Len(b) /\ m = Len(w)
    BY TableRows DEF Mirrors
  <1>3. PICK c : c = a \o b
    OBVIOUS
  <1>4. PICK d : d = v \o w
    OBVIOUS
  <1>5. IsTable(a) /\ IsTable(b) /\ IsTable(v) /\ IsTable(w)
    BY DEF Mirrors
  <1>6. AreBoth(c, a, n, b, m)
    BY <1>1, <1>2, <1>3, <1>5, RowsOfBoth
  <1>7. AreBoth(d, v, n, w, m)
    BY <1>1, <1>2, <1>4, <1>5, RowsOfBoth
  <1>8. IsTable(c) /\ IsTable(d) /\ Len(c) = n + m /\ Len(d) = n + m
    BY <1>6, <1>7 DEF AreBoth
  <1>9. ASSUME NEW i \in 1 .. n + m PROVE MirrorRow(c[i], p, d[i], q)
    <2>1. CASE i <= n
      <3>1. i \in 1 .. n
        BY <2>1
      <3>2. c[i] = a[i] /\ d[i] = v[i]
        BY <1>6, <1>7, <3>1 DEF AreBoth
      <3>3. MirrorRow(a[i], p, v[i], q)
        BY <1>1, <3>1 DEF Mirrors
      <3> QED BY <3>2, <3>3
    <2>2. CASE i > n
      <3>1. PICK k \in 1 .. m : i = n + k
        <4>1. i - n \in 1 .. m /\ i = n + (i - n)
          BY <2>2
        <4> QED BY <4>1
      <3>2. c[n + k] = b[k] /\ d[n + k] = w[k]
        BY <1>6, <1>7 DEF AreBoth
      <3>3. MirrorRow(b[k], p, w[k], q)
        BY <1>2 DEF Mirrors
      <3> QED BY <3>1, <3>2, <3>3
    <2> QED BY <2>1, <2>2
  <1>10. \A i \in 1 .. Len(c) : MirrorRow(c[i], p, d[i], q)
    BY <1>8, <1>9
  <1> QED BY <1>3, <1>4, <1>8, <1>10, Zenon DEF Mirrors

\* A table mirrors itself.
LEMMA MirrorsItself ==
    ASSUME NEW t, IsTable(t), NEW p
    PROVE  Mirrors(t, p, t, p)
  BY Zenon DEF Mirrors, MirrorRow

\* Written along t with the members of q, u has the bits of the parameters e.
WritesAs(t, q, u, e) ==
    /\ IsTable(t) /\ IsTable(u) /\ Len(u) = Len(t)
    /\ \A i \in 1 .. Len(t) : Part(t[i], q) = SpecPart(u[i], e)

\* The bits of a row are written as H.264 has them.
LEMMA RowWritten ==
    ASSUME NEW row, row.code \in TableCodes, NEW p, FitsRow(row, p), NarrowRow(row, p),
           NEW q, \A k \in DOMAIN row.names : q[row.names[k]] = p[row.names[k]]
    PROVE  RowBits(row, q) = SpecRow(row, p)
  <1>1. PICK D, c : D = DOMAIN row.names /\ c = row.code
    OBVIOUS
  <1>2. ASSUME NEW k \in D PROVE CodeBits(q[row.names[k]], c) = SpecCode(p[row.names[k]], c)
    <2>1. p[row.names[k]] \in ValuesOf(c)
      BY <1>1, Zenon DEF FitsRow
    <2>2. c \in {UE, SE} => p[row.names[k]] \in Narrow
      BY <1>1, Zenon DEF NarrowRow
    <2>3. CodeBits(p[row.names[k]], c) = SpecCode(p[row.names[k]], c)
      BY <1>1, <2>1, <2>2, CodeBitsAreSpec
    <2> QED BY <1>1, <2>3
  <1>3. [k \in D |-> CodeBits(q[row.names[k]], c)] = [k \in D |-> SpecCode(p[row.names[k]], c)]
    BY <1>2, Zenon
  <1> QED BY <1>1, <1>3, Zenon DEF RowBits, SpecRow

\* A table is written as H.264 has it when the members are those of the parameters.
LEMMA TableWritten ==
    ASSUME NEW t, NEW K, NEW L, NEW N, Grammar(t, K, L, N), NEW p, Fits(t, p), NarrowTable(t, p),
           NEW q, \A m \in K : q[m] = p[m], \A i \in 1 .. Len(t) : Same(t, i, p, q)
    PROVE  WritesAs(t, q, t, p)
  <1>1. PICK n \in Nat : n = Len(t)
    BY TableRows DEF Grammar
  <1>2. \A i \in 1 .. n : IsPresent(t[i], q) <=> IsPresent(t[i], p)
    <2>1. n \in 0 .. Len(t) /\ \A i \in 1 .. n - 1 : i \in 1 .. Len(t)
      BY <1>1
    <2>2. \A i \in 1 .. n - 1 : Same(t, i, p, q)
      BY <2>1
    <2>3. KnownAlike(t, n, K, p, q)
      BY <2>2, Zenon DEF KnownAlike
    <2>4. PresentAlike(t, n, p, q)
      BY <2>1, <2>3, SamePresence, ZenonT(40)
    <2> QED BY <2>4, Zenon DEF PresentAlike
  <1>3. ASSUME NEW i \in 1 .. n PROVE Part(t[i], q) = SpecPart(t[i], p)
    <2>1. CASE IsPresent(t[i], p)
      <3>1. \A m \in ToSet(t[i].names) : q[m] = p[m]
        BY <1>1, <2>1 DEF Same
      <3>2. \A k \in DOMAIN t[i].names : q[t[i].names[k]] = p[t[i].names[k]]
        BY <3>1, Zenon DEF ToSet
      <3>3. t[i].code \in TableCodes
        BY <1>1, Zenon DEF Grammar, GoodRow
      <3>4. FitsRow(t[i], p) /\ NarrowRow(t[i], p)
        BY <1>1, Zenon DEF Fits, NarrowTable
      <3>5. PICK row : row = t[i]
        OBVIOUS
      <3>6. RowBits(row, q) = SpecRow(row, p)
        BY <3>2, <3>3, <3>4, <3>5, RowWritten
      <3> QED BY <1>2, <2>1, <3>5, <3>6 DEF Part, SpecPart
    <2>2. CASE ~IsPresent(t[i], p)
      BY <1>2, <2>2, Zenon DEF Part, SpecPart
    <2> QED BY <2>1, <2>2
  <1> QED BY <1>1, <1>3, Zenon DEF WritesAs, Grammar

\* What is written may be mirrored.
LEMMA WritesMirrored ==
    ASSUME NEW w, NEW r, NEW t, NEW q, Mirrors(w, r, t, q), NEW u, NEW p, WritesAs(t, q, u, p),
           NEW v, NEW e, Mirrors(u, p, v, e)
    PROVE  WritesAs(w, r, v, e)
  <1>1. /\ IsTable(w) /\ IsTable(v) /\ Len(v) = Len(w)
        /\ Len(t) = Len(w) /\ Len(u) = Len(w)
    BY DEF Mirrors, WritesAs
  <1>2. ASSUME NEW i \in 1 .. Len(w) PROVE Part(w[i], r) = SpecPart(v[i], e)
    <2>1. Part(w[i], r) = Part(t[i], q)
      <3>1. MirrorRow(w[i], r, t[i], q)
        BY DEF Mirrors
      <3> QED BY <3>1, MirroredRow
    <2>2. SpecPart(u[i], p) = SpecPart(v[i], e)
      <3>1. MirrorRow(u[i], p, v[i], e)
        BY <1>1 DEF Mirrors
      <3> QED BY <3>1, MirroredRow
    <2>3. Part(t[i], q) = SpecPart(u[i], p)
      BY <1>1 DEF WritesAs
    <2> QED BY <2>1, <2>2, <2>3
  <1> QED BY <1>1, <1>2, Zenon DEF WritesAs

\* Two tables, one behind the other.
LEMMA WritesBoth ==
    ASSUME NEW a, NEW b, NEW v, NEW w, NEW q, NEW e, WritesAs(a, q, v, e), WritesAs(b, q, w, e)
    PROVE  WritesAs(a \o b, q, v \o w, e)
  <1>1. PICK n \in Nat : n = Len(a) /\ n = Len(v)
    BY TableRows DEF WritesAs
  <1>2. PICK m \in Nat : m = Len(b) /\ m = Len(w)
    BY TableRows DEF WritesAs
  <1>3. PICK c : c = a \o b
    OBVIOUS
  <1>4. PICK d : d = v \o w
    OBVIOUS
  <1>5. IsTable(a) /\ IsTable(b) /\ IsTable(v) /\ IsTable(w)
    BY DEF WritesAs
  <1>6. AreBoth(c, a, n, b, m)
    BY <1>1, <1>2, <1>3, <1>5, RowsOfBoth
  <1>7. AreBoth(d, v, n, w, m)
    BY <1>1, <1>2, <1>4, <1>5, RowsOfBoth
  <1>8. IsTable(c) /\ IsTable(d) /\ Len(c) = n + m /\ Len(d) = n + m
    BY <1>6, <1>7 DEF AreBoth
  <1>9. ASSUME NEW i \in 1 .. n + m PROVE Part(c[i], q) = SpecPart(d[i], e)
    <2>1. CASE i <= n
      <3>1. i \in 1 .. n
        BY <2>1
      <3>2. c[i] = a[i] /\ d[i] = v[i]
        BY <1>6, <1>7, <3>1 DEF AreBoth
      <3>3. Part(a[i], q) = SpecPart(v[i], e)
        BY <1>1, <3>1 DEF WritesAs
      <3> QED BY <3>2, <3>3
    <2>2. CASE i > n
      <3>1. PICK k \in 1 .. m : i = n + k
        <4>1. i - n \in 1 .. m /\ i = n + (i - n)
          BY <2>2
        <4> QED BY <4>1
      <3>2. c[n + k] = b[k] /\ d[n + k] = w[k]
        BY <1>6, <1>7 DEF AreBoth
      <3>3. Part(b[k], q) = SpecPart(w[k], e)
        BY <1>2 DEF WritesAs
      <3> QED BY <3>1, <3>2, <3>3
    <2> QED BY <2>1, <2>2
  <1>10. \A i \in 1 .. Len(c) : Part(c[i], q) = SpecPart(d[i], e)
    BY <1>8, <1>9
  <1> QED BY <1>3, <1>4, <1>8, <1>10, Zenon DEF WritesAs

\* Under a condition, of which it may be known that it does not hold.
LEMMA WritesIf ==
    ASSUME NEW t, NEW u, IsTable(t), IsTable(u), Len(u) = Len(t), NEW q, NEW e, NEW a, NEW values,
           q[a] = e[a], e[a] \in values => WritesAs(t, q, u, e)
    PROVE  WritesAs(If(a, values, t), q, If(a, values, u), e)
  <1>1. PICK n \in Nat : n = Len(t) /\ n = Len(u)
    BY TableRows
  <1>2. PICK v : v = If(a, values, t)
    OBVIOUS
  <1>3. PICK w : w = If(a, values, u)
    OBVIOUS
  <1>4. AreUnder(v, t, n, a, values) /\ AreUnder(w, u, n, a, values)
    BY <1>1, <1>2, <1>3, RowsOfIf
  <1>5. ASSUME NEW i \in 1 .. n PROVE Part(v[i], q) = SpecPart(w[i], e)
    <2>1. /\ v[i].names = t[i].names /\ v[i].code = t[i].code /\ v[i].when = t[i].when \cup {<<a, values>>}
          /\ w[i].names = u[i].names /\ w[i].code = u[i].code /\ w[i].when = u[i].when \cup {<<a, values>>}
      BY <1>4 DEF AreUnder
    <2>2. IsPresent(v[i], q) <=> IsPresent(t[i], q) /\ q[a] \in values
      <3>1. v[i].when = t[i].when \cup {<<a, values>>}
        BY <2>1
      <3> QED BY <3>1, PresentUnder, ZenonT(40)
    <2>3. IsPresent(w[i], e) <=> IsPresent(u[i], e) /\ e[a] \in values
      <3>1. w[i].when = u[i].when \cup {<<a, values>>}
        BY <2>1
      <3> QED BY <3>1, PresentUnder, ZenonT(40)
    <2>4. RowBits(v[i], q) = RowBits(t[i], q) /\ SpecRow(w[i], e) = SpecRow(u[i], e)
      BY <2>1, Zenon DEF RowBits, SpecRow
    <2>5. CASE e[a] \in values
      <3>1. Part(t[i], q) = SpecPart(u[i], e)
        BY <1>1, <2>5 DEF WritesAs
      <3>2. Part(v[i], q) = Part(t[i], q)
        BY <2>2, <2>4, <2>5, Zenon DEF Part
      <3>3. SpecPart(w[i], e) = SpecPart(u[i], e)
        BY <2>3, <2>4, <2>5, Zenon DEF SpecPart
      <3> QED BY <3>1, <3>2, <3>3
    <2>6. CASE e[a] \notin values
      BY <2>2, <2>3, <2>6, Zenon DEF Part, SpecPart
    <2> QED BY <2>5, <2>6
  <1>6. IsTable(v) /\ IsTable(w) /\ Len(v) = n /\ Len(w) = n
    BY <1>4 DEF AreUnder
  <1>7. \A i \in 1 .. Len(v) : Part(v[i], q) = SpecPart(w[i], e)
    BY <1>5, <1>6
  <1> QED BY <1>2, <1>3, <1>6, <1>7, Zenon DEF WritesAs

\* The bits that are written.
LEMMA WrittenBits ==
    ASSUME NEW t, NEW q, NEW u, NEW e, WritesAs(t, q, u, e)
    PROVE  TableBits(t, q) = SpecBits(u, e)
  <1>1. PICK D : D = 1 .. Len(t) /\ D = DOMAIN t /\ D = DOMAIN u
    <2>1. DOMAIN t = 1 .. Len(t) /\ DOMAIN u = 1 .. Len(u) /\ Len(u) = Len(t)
      BY TableRows DEF WritesAs
    <2> QED BY <2>1
  <1>2. \A i \in D : Part(t[i], q) = SpecPart(u[i], e)
    BY <1>1 DEF WritesAs
  <1>3. [i \in D |-> Part(t[i], q)] = [i \in D |-> SpecPart(u[i], e)]
    BY <1>2, Zenon
  <1> QED BY <1>1, <1>3, Zenon DEF TableBits, SpecBits, Part

\* The parts of c are those of x, and those of y behind them.
PartsOfBoth(E, c, k, x, n, y, m) ==
    /\ n \in Nat /\ m \in Nat /\ k = n + m
    /\ x \in [1 .. n -> Seq(E)] /\ y \in [1 .. m -> Seq(E)] /\ c \in [1 .. k -> Seq(E)]
    /\ \A i \in 1 .. n : c[i] = x[i]
    /\ \A i \in 1 .. m : c[n + i] = y[i]

-----------------------------------------------------------------------------
(* Tables, one behind the other *)

\* Parts behind parts.
LEMMA Associative ==
    ASSUME NEW E, NEW u \in Seq(E), NEW v \in Seq(E), NEW w \in Seq(E)
    PROVE  (u \o v) \o w = u \o (v \o w)
  BY ConcatAssociative, SMTT(40)

\* Three parts, put together from the left or from the right.
Joins(u, v, w, b, a, d, E) ==
    /\ u \in Seq(E) /\ v \in Seq(E) /\ w \in Seq(E)
    /\ b = u \o v /\ a = b \o w /\ d = v \o w

\* Both ways give the same sequence.
LEMMA OneMore ==
    ASSUME NEW E, NEW u, NEW v, NEW w, NEW b, NEW a, NEW d, Joins(u, v, w, b, a, d, E)
    PROVE  a = u \o d
  BY ConcatAssociative, SMTT(40) DEF Joins

\* One row of parts behind another.
LEMMA FlattenBoth ==
    ASSUME NEW E, NEW n, NEW m, NEW x, NEW y, NEW k, NEW c, PartsOfBoth(E, c, k, x, n, y, m)
    PROVE  FlattenSeq(c) = FlattenSeq(x) \o FlattenSeq(y)
  <1>20. /\ n \in Nat /\ m \in Nat /\ k = n + m
         /\ x \in [1 .. n -> Seq(E)] /\ y \in [1 .. m -> Seq(E)] /\ c \in [1 .. k -> Seq(E)]
    BY Zenon DEF PartsOfBoth
  <1>21. k \in Nat
    BY <1>20
  <1> USE <1>20, <1>21
  <1>1. PICK S : S = Seq(E)
    OBVIOUS
  <1>30. Len(x) = n /\ Len(y) = m /\ Len(c) = k
    <2>1. x \in [1 .. n -> S] /\ y \in [1 .. m -> S] /\ c \in [1 .. k -> S]
      BY <1>1
    <2> QED BY <2>1, LenOfFunction
  <1>31. Len(x) = n
    BY <1>30
  <1>32. Len(y) = m
    BY <1>30
  <1>33. Len(c) = k
    BY <1>30
  <1>4. PICK h \in [0 .. k -> Seq(E)] : Prefixed(h, k, c)
    BY PrefixesExist
  <1>5. PICK g \in [0 .. m -> Seq(E)] : Prefixed(g, m, y)
    BY PrefixesExist
  <1>6. FlattenSeq(c) = h[k]
    BY <1>33, <1>4, FlattenIsLast, Zenon
  <1>7. FlattenSeq(y) = g[m]
    BY <1>32, <1>5, FlattenIsLast, Zenon
  <1>8. PICK f : f = [i \in 0 .. n |-> h[i]]
    OBVIOUS
  <1>9. ASSUME NEW i \in 0 .. n PROVE i \in 0 .. k /\ f[i] = h[i]
    BY <1>8
  <1>10. f \in [0 .. n -> Seq(E)]
    BY <1>8, <1>9
  <1>11. Prefixed(f, n, x)
    <2>1. f[0] = <<>>
      BY <1>4, <1>9, SMTT(40) DEF Prefixed
    <2>2. ASSUME NEW i \in 1 .. n PROVE f[i] = f[i - 1] \o x[i]
      <3>1. i \in 0 .. n /\ i - 1 \in 0 .. n /\ i \in 1 .. k
        OBVIOUS
      <3>2. f[i] = h[i] /\ f[i - 1] = h[i - 1]
        BY <1>9, <3>1
      <3>3. h[i] = h[i - 1] \o c[i]
        BY <1>4, <3>1, Zenon DEF Prefixed
      <3>4. c[i] = x[i]
        BY DEF PartsOfBoth
      <3> QED BY <3>2, <3>3, <3>4
    <2> QED BY <2>1, <2>2, Zenon DEF Prefixed
  <1>12. FlattenSeq(x) = f[n]
    BY <1>31, <1>10, <1>11, FlattenIsLast, Zenon
  <1>13. f[n] = h[n] /\ h[n] \in Seq(E)
    <2>1. n \in 0 .. n
      OBVIOUS
    <2> QED BY <1>9, <2>1
  <1> DEFINE T == {j \in 0 .. m : h[n + j] = h[n] \o g[j]}
  <1>14. 0 \in T
    <2>1. g[0] = <<>> /\ n + 0 = n
      BY <1>5 DEF Prefixed
    <2>2. h[n] \o <<>> = h[n]
      BY <1>13, ConcatEmptySeq
    <2> QED BY <2>1, <2>2, SMTT(40)
  <1>15. ASSUME NEW j \in 1 .. m, j - 1 \in T PROVE j \in T
    <2>1. j - 1 \in 0 .. m /\ j \in 0 .. m /\ n + j \in 1 .. k /\ n + (j - 1) = (n + j) - 1
      OBVIOUS
    <2>2. h[n + j] = h[(n + j) - 1] \o c[n + j]
      BY <1>4, <2>1, Zenon DEF Prefixed
    <2>3. h[(n + j) - 1] = h[n] \o g[j - 1]
      BY <1>15, <2>1
    <2>4. c[n + j] = y[j]
      BY DEF PartsOfBoth
    <2>5. g[j] = g[j - 1] \o y[j]
      BY <1>5, Zenon DEF Prefixed
    <2>6. PICK u, v, w : u = h[n] /\ v = g[j - 1] /\ w = y[j]
      OBVIOUS
    <2>7. u \in Seq(E) /\ v \in Seq(E) /\ w \in Seq(E)
      BY <1>13, <2>1, <2>6
    <2>8. PICK a, b, d : a = h[n + j] /\ b = h[(n + j) - 1] /\ d = g[j]
      OBVIOUS
    <2>10. b = u \o v /\ a = b \o w /\ d = v \o w
      BY <2>2, <2>3, <2>4, <2>5, <2>6, <2>8
    <2>11. a = u \o d
      <3>1. Joins(u, v, w, b, a, d, E)
        BY <2>7, <2>10, Zenon DEF Joins
      <3> QED BY <3>1, OneMore, Zenon
    <2>9. h[n + j] = h[n] \o g[j]
      BY <2>6, <2>8, <2>11
    <2> QED BY <2>1, <2>9
  <1>16. m \in T
    <2> HIDE DEF T
    <2>1. 0 .. m \subseteq T
      BY <1>14, <1>15, UpTo
    <2>2. m \in 0 .. m
      OBVIOUS
    <2> QED BY <2>1, <2>2
  <1> QED BY <1>6, <1>7, <1>12, <1>13, <1>16

\* Two streams of bits, one behind the other.
LEMMA CarriesBoth ==
    ASSUME NEW s \in Seq(Bits), NEW pos, NEW a \in Seq(Bits), NEW b \in Seq(Bits), NEW c, c = a \o b,
           Carries(s, pos, c)
    PROVE  Carries(s, pos, a) /\ Carries(s, pos + Len(a), b)
  <1>1. PICK n \in Nat, m \in Nat : n = Len(a) /\ m = Len(b)
    OBVIOUS
  <1>2. Len(c) = n + m /\ (\A k \in 1 .. n : c[k] = a[k]) /\ (\A k \in 1 .. m : c[n + k] = b[k])
    BY <1>1, ConcatFacts
  <1>3. pos \in Nat /\ pos + (n + m) <= Len(s) /\ \A k \in 1 .. n + m : s[pos + k] = c[k]
    BY <1>2 DEF Carries
  <1>4. Len(s) \in Nat
    OBVIOUS
  <1>5. pos + n <= Len(s) /\ pos + n \in Nat /\ (pos + n) + m <= Len(s)
    BY <1>3, <1>4
  <1>6. ASSUME NEW k \in 1 .. n PROVE s[pos + k] = a[k]
    <2>1. k \in 1 .. n + m
      OBVIOUS
    <2> QED BY <1>2, <1>3, <2>1
  <1>7. ASSUME NEW k \in 1 .. m PROVE s[(pos + n) + k] = b[k]
    <2>1. n + k \in 1 .. n + m /\ (pos + n) + k = pos + (n + k)
      BY <1>3, SMTT(40)
    <2> QED BY <1>2, <1>3, <2>1
  <1> QED BY <1>1, <1>3, <1>5, <1>6, <1>7 DEF Carries

\* The bits of two tables, one behind the other.
BitsOfBoth(c, a, b) == c = a \o b /\ a \in Seq(Bits) /\ b \in Seq(Bits)

\* The bits of two tables are the bits of one behind those of the other.
LEMMA SpecBitsBoth ==
    ASSUME NEW a, NEW b, NEW p, Coding(a, p), Coding(b, p)
    PROVE  BitsOfBoth(SpecBits(a \o b, p), SpecBits(a, p), SpecBits(b, p))
  <1>1. PICK n, m, c : n = Len(a) /\ m = Len(b) /\ c = a \o b
    OBVIOUS
  <1>2. IsTable(a) /\ IsTable(b)
    BY DEF Coding
  <1>3. n \in Nat /\ m \in Nat
    BY <1>1, <1>2, TableRows
  <1>4. AreBoth(c, a, n, b, m)
    BY <1>1, <1>2, RowsOfBoth
  <1>5. PICK x, y, z : x = SpecParts(a, p) /\ y = SpecParts(b, p) /\ z = SpecParts(c, p)
    OBVIOUS
  <1>6. /\ x \in [1 .. n -> Seq(Bits)] /\ SpecBits(a, p) \in Seq(Bits)
        /\ \A i \in 1 .. n : x[i] = SpecPart(a[i], p)
    BY <1>1, <1>5, SpecBitsLaid
  <1>7. /\ y \in [1 .. m -> Seq(Bits)] /\ SpecBits(b, p) \in Seq(Bits)
        /\ \A i \in 1 .. m : y[i] = SpecPart(b[i], p)
    BY <1>1, <1>5, SpecBitsLaid
  <1>8. DOMAIN c = 1 .. n + m /\ DOMAIN a = 1 .. n /\ DOMAIN b = 1 .. m
    BY <1>4 DEF AreBoth
  <1>9. z = [i \in 1 .. n + m |-> SpecPart(c[i], p)]
    BY <1>5, <1>8, Zenon DEF SpecParts
  <1>10. (\A i \in 1 .. n : z[i] = x[i]) /\ (\A i \in 1 .. m : z[n + i] = y[i])
    <2>1. ASSUME NEW i \in 1 .. n PROVE z[i] = x[i]
      <3>1. i \in 1 .. n + m
        BY <1>3
      <3>2. z[i] = SpecPart(c[i], p)
        BY <1>9, <3>1
      <3>3. c[i] = a[i]
        BY <1>4 DEF AreBoth
      <3> QED BY <1>6, <3>2, <3>3
    <2>2. ASSUME NEW i \in 1 .. m PROVE z[n + i] = y[i]
      <3>1. n + i \in 1 .. n + m
        BY <1>3
      <3>2. z[n + i] = SpecPart(c[n + i], p)
        BY <1>9, <3>1
      <3>3. c[n + i] = b[i]
        BY <1>4 DEF AreBoth
      <3> QED BY <1>7, <3>2, <3>3
    <2> QED BY <2>1, <2>2
  <1>14. PICK k \in Nat : k = n + m
    BY <1>3
  <1>11. z \in [1 .. k -> Seq(Bits)]
    <2>1. ASSUME NEW i \in 1 .. k PROVE z[i] \in Seq(Bits)
      <3>1. CASE i <= n
        <4>1. i \in 1 .. n
          BY <1>3, <3>1
        <4> QED BY <1>6, <1>10, <4>1
      <3>2. CASE i > n
        <4>1. PICK j \in 1 .. m : i = n + j
          <5>1. i - n \in 1 .. m /\ i = n + (i - n)
            BY <1>3, <1>14, <3>2
          <5> QED BY <5>1
        <4> QED BY <1>7, <1>10, <4>1
      <3> QED BY <1>3, <1>14, <3>1, <3>2
    <2> QED BY <1>9, <1>14, <2>1
  <1>12. FlattenSeq(z) = FlattenSeq(x) \o FlattenSeq(y)
    <2>1. PartsOfBoth(Bits, z, k, x, n, y, m)
      BY <1>3, <1>6, <1>7, <1>10, <1>11, <1>14, Zenon DEF PartsOfBoth
    <2> QED BY <2>1, FlattenBoth
  <1>13. SpecBits(a, p) = FlattenSeq(x) /\ SpecBits(b, p) = FlattenSeq(y) /\ SpecBits(c, p) = FlattenSeq(z)
    BY <1>5, Zenon DEF SpecBits, SpecParts
  <1>15. SpecBits(c, p) = SpecBits(a, p) \o SpecBits(b, p)
    BY <1>12, <1>13, Zenon
  <1>16. SpecBits(a, p) \in Seq(Bits) /\ SpecBits(b, p) \in Seq(Bits)
    BY <1>6, <1>7, <1>13
  <1> QED BY <1>1, <1>15, <1>16, Zenon DEF BitsOfBoth

\* Two tables code parameters when each of them does.
LEMMA CodingBoth ==
    ASSUME NEW a, NEW b, IsTable(a), IsTable(b), NEW p
    PROVE  Coding(a \o b, p) <=> Coding(a, p) /\ Coding(b, p)
  <1>1. PICK n, m, c : n = Len(a) /\ m = Len(b) /\ c = a \o b
    OBVIOUS
  <1>2. n \in Nat /\ m \in Nat
    BY <1>1, TableRows
  <1>3. AreBoth(c, a, n, b, m)
    BY <1>1, RowsOfBoth
  <1>4. IsTable(c) /\ Len(c) = n + m
    BY <1>3 DEF AreBoth
  <1> DEFINE Codes1(r) == r.code \in TableCodes /\ FitsRow(r, p)
  <1>5. \A t : IsTable(t) => (Coding(t, p) <=> \A i \in 1 .. Len(t) : Codes1(t[i]))
    BY Zenon DEF Coding, Fits
  <1> HIDE DEF Codes1
  <1>6. ASSUME NEW i \in 1 .. n PROVE i \in 1 .. n + m /\ c[i] = a[i]
    <2>1. i \in 1 .. n + m
      BY <1>2
    <2> QED BY <1>3, <2>1 DEF AreBoth
  <1>7. ASSUME NEW i \in 1 .. m PROVE n + i \in 1 .. n + m /\ c[n + i] = b[i]
    <2>1. n + i \in 1 .. n + m
      BY <1>2
    <2> QED BY <1>3, <2>1 DEF AreBoth
  <1>8. ASSUME NEW i \in 1 .. n + m
        PROVE  (i \in 1 .. n) \/ \E k \in 1 .. m : i = n + k
    <2>1. CASE i <= n
      BY <1>2, <2>1
    <2>2. CASE i > n
      <3>1. i - n \in 1 .. m /\ i = n + (i - n)
        BY <1>2, <2>2
      <3> QED BY <3>1
    <2> QED BY <1>2, <2>1, <2>2
  <1>9. ASSUME \A i \in 1 .. n + m : Codes1(c[i])
        PROVE  (\A i \in 1 .. n : Codes1(a[i])) /\ (\A i \in 1 .. m : Codes1(b[i]))
    <2>1. ASSUME NEW i \in 1 .. n PROVE Codes1(a[i])
      <3>1. Codes1(c[i])
        BY <1>6, <1>9
      <3> QED BY <1>6, <3>1
    <2>2. ASSUME NEW i \in 1 .. m PROVE Codes1(b[i])
      <3>1. Codes1(c[n + i])
        BY <1>7, <1>9
      <3> QED BY <1>7, <3>1
    <2> QED BY <2>1, <2>2
  <1>10. ASSUME \A i \in 1 .. n : Codes1(a[i]), \A i \in 1 .. m : Codes1(b[i]), NEW i \in 1 .. n + m
         PROVE  Codes1(c[i])
    <2>1. CASE i \in 1 .. n
      BY <1>6, <1>10, <2>1
    <2>2. CASE \E k \in 1 .. m : i = n + k
      BY <1>7, <1>10, <2>2
    <2> QED BY <1>8, <2>1, <2>2
  <1>11. Coding(c, p) <=> \A i \in 1 .. n + m : Codes1(c[i])
    BY <1>4, <1>5
  <1>12. Coding(a, p) <=> \A i \in 1 .. n : Codes1(a[i])
    BY <1>1, <1>5
  <1>13. Coding(b, p) <=> \A i \in 1 .. m : Codes1(b[i])
    BY <1>1, <1>5
  <1> QED BY <1>1, <1>9, <1>10, <1>11, <1>12, <1>13

\* The states of reading a table, one by one.
ReadsOn(f, n, t, s, x) == f[0] = x /\ \A i \in 1 .. n : f[i] = ReadIf(f[i - 1], s, t[i])

\* The last of them is what the table is read as.
LEMMA ReadTableIs ==
    ASSUME NEW s, NEW t, NEW n \in Nat, n = Len(t), NEW x, NEW f, ReadsOn(f, n, t, s, x)
    PROVE  ReadTable(t, s, x) = f[n]
  <1>1. PICK g : g = [i \in 0 .. n |-> f[i]]
    OBVIOUS
  <1>2. \A i \in 0 .. n : g[i] = f[i]
    BY <1>1
  <1>3. ASSUME NEW i \in 0 .. n PROVE g[i] = IF i = 0 THEN x ELSE ReadIf(g[i - 1], s, t[i])
    <2>1. CASE i = 0
      BY <1>2, <2>1 DEF ReadsOn
    <2>2. CASE i # 0
      <3>1. i \in 1 .. n /\ i - 1 \in 0 .. n
        BY <2>2
      <3>2. g[i - 1] = f[i - 1] /\ g[i] = f[i]
        BY <1>2, <3>1
      <3>3. f[i] = ReadIf(f[i - 1], s, t[i])
        BY <3>1 DEF ReadsOn
      <3> QED BY <2>2, <3>2, <3>3
    <2> QED BY <2>1, <2>2
  <1>4. g = [i \in 0 .. n |-> g[i]]
    BY <1>1
  <1>5. g = [i \in 0 .. n |-> IF i = 0 THEN x ELSE ReadIf(g[i - 1], s, t[i])]
    BY <1>3, <1>4
  <1>6. TableStates(g, n, t, s, x)
    BY <1>5, Zenon DEF TableStates
  <1>7. \A h : TableStates(h, n, t, s, x) => h = g
    BY <1>6, OneTableStates
  <1>8. (CHOOSE h : TableStates(h, n, t, s, x)) = g
    BY <1>6, <1>7, Zenon
  <1>9. ReadTable(t, s, x) = (CHOOSE h : TableStates(h, n, t, s, x))[n]
    BY Zenon DEF ReadTable, TableStates, ReadIf
  <1>10. n \in 0 .. n
    OBVIOUS
  <1> QED BY <1>2, <1>8, <1>9, <1>10

\* Two tables are read one after the other.
LEMMA ReadTableBoth ==
    ASSUME NEW s \in Seq(Bits), NEW a, NEW b, IsTable(a), IsTable(b), NEW x \in States(s)
    PROVE  ReadTable(a \o b, s, x) = ReadTable(b, s, ReadTable(a, s, x))
  <1>1. PICK n, m, c : n = Len(a) /\ m = Len(b) /\ c = a \o b
    OBVIOUS
  <1>2. n \in Nat /\ m \in Nat
    BY <1>1, TableRows
  <1>3. AreBoth(c, a, n, b, m)
    BY <1>1, RowsOfBoth
  <1>4. PICK k \in Nat : k = n + m
    BY <1>2
  <1>5. IsTable(c) /\ Len(c) = k
    BY <1>3, <1>4 DEF AreBoth
  <1>6. PICK f \in [0 .. k -> States(s)] : TableStates(f, k, c, s, x)
    BY <1>5, TableStatesExist
  <1>7. \A i \in 0 .. k : f[i] = IF i = 0 THEN x ELSE ReadIf(f[i - 1], s, c[i])
    BY <1>6, Zenon DEF TableStates
  <1>8. f[0] = x
    <2>1. 0 \in 0 .. k
      OBVIOUS
    <2> QED BY <1>7, <2>1
  <1>9. ASSUME NEW i \in 1 .. k PROVE f[i] = ReadIf(f[i - 1], s, c[i])
    <2>1. i \in 0 .. k /\ i # 0
      OBVIOUS
    <2> QED BY <1>7, <2>1
  <1>10. ReadsOn(f, k, c, s, x)
    BY <1>8, <1>9 DEF ReadsOn
  <1>11. ReadsOn(f, n, a, s, x)
    <2>1. ASSUME NEW i \in 1 .. n PROVE f[i] = ReadIf(f[i - 1], s, a[i])
      <3>1. i \in 1 .. k
        BY <1>2, <1>4
      <3>2. c[i] = a[i]
        BY <1>3 DEF AreBoth
      <3> QED BY <1>9, <3>1, <3>2
    <2> QED BY <1>8, <2>1 DEF ReadsOn
  <1>12. PICK g : g = [i \in 0 .. m |-> f[n + i]]
    OBVIOUS
  <1>13. \A i \in 0 .. m : g[i] = f[n + i]
    BY <1>12
  <1>14. ReadsOn(g, m, b, s, f[n])
    <2>1. g[0] = f[n]
      <3>1. 0 \in 0 .. m /\ n + 0 = n
        BY <1>2
      <3> QED BY <1>13, <3>1
    <2>2. ASSUME NEW i \in 1 .. m PROVE g[i] = ReadIf(g[i - 1], s, b[i])
      <3>1. n + i \in 1 .. k /\ i - 1 \in 0 .. m /\ i \in 0 .. m /\ n + (i - 1) = (n + i) - 1
        BY <1>2, <1>4
      <3>2. c[n + i] = b[i]
        BY <1>3 DEF AreBoth
      <3>3. f[n + i] = ReadIf(f[(n + i) - 1], s, c[n + i])
        BY <1>9, <3>1
      <3>4. g[i] = f[n + i] /\ g[i - 1] = f[(n + i) - 1]
        BY <1>13, <3>1
      <3> QED BY <3>2, <3>3, <3>4
    <2> QED BY <2>1, <2>2 DEF ReadsOn
  <1>15. ReadTable(c, s, x) = f[k]
    BY <1>5, <1>10, ReadTableIs
  <1>16. ReadTable(a, s, x) = f[n]
    BY <1>1, <1>2, <1>11, ReadTableIs
  <1>17. ReadTable(b, s, f[n]) = g[m]
    BY <1>1, <1>2, <1>14, ReadTableIs
  <1>18. g[m] = f[k]
    <2>1. m \in 0 .. m
      BY <1>2
    <2> QED BY <1>4, <1>13, <2>1
  <1> QED BY <1>1, <1>15, <1>16, <1>17, <1>18

\* The members of the HRDs, by their names in the code and in H.264, and the zero
\* that is written.
HrdNames == {"cpb_cnt_minus1", "bit_rate_scale", "cpb_size_scale", "bit_rate_value_0",
             "cpb_size_value_0", "cbr_flag_0", "bit_rate_value_1", "cpb_size_value_1", "cbr_flag_1",
             "initial_cpb_removal_delay_length", "cpb_removal_delay_length",
             "dpb_output_delay_length", "time_offset_length",
             "nal_cpb_cnt_minus1", "nal_bit_rate_scale", "nal_cpb_size_scale", "nal_bit_rate_value_0",
             "nal_cpb_size_value_0", "nal_cbr_flag_0", "nal_bit_rate_value_1", "nal_cpb_size_value_1",
             "nal_cbr_flag_1", "nal_initial_cpb_removal_delay_length", "nal_cpb_removal_delay_length",
             "nal_dpb_output_delay_length", "nal_time_offset_length",
             "vcl_cpb_cnt_minus1", "vcl_bit_rate_scale", "vcl_cpb_size_scale", "vcl_bit_rate_value_0",
             "vcl_cpb_size_value_0", "vcl_cbr_flag_0", "vcl_bit_rate_value_1", "vcl_cpb_size_value_1",
             "vcl_cbr_flag_1", "vcl_initial_cpb_removal_delay_length", "vcl_cpb_removal_delay_length",
             "vcl_dpb_output_delay_length", "vcl_time_offset_length", "zero"}

\* A VUI has none of these, nor the member that does not start as zero.
VuiApart == HrdNames \cup {"chroma_format_idc"}

\* Names that have nothing to do with colours, nor with N.
PlainNames(S, N) == \A m \in S : m \notin N /\ m \notin ColourNames

-----------------------------------------------------------------------------
(* The tables can be read: whatever a row depends on comes before it *)

\* The members of tuples.
LEMMA NamesOf ==
    /\ \A a : ToSet(<<a>>) = {a}
    /\ \A a, b : ToSet(<<a, b>>) = {a, b}
    /\ \A a, b, c : ToSet(<<a, b, c>>) = {a, b, c}
    /\ \A a, b, c, d : ToSet(<<a, b, c, d>>) = {a, b, c, d}
    /\ \A a, b, c, d, e, f : ToSet(<<a, b, c, d, e, f>>) = {a, b, c, d, e, f}
    /\ \A a, b, c, d, e, f, g, h : ToSet(<<a, b, c, d, e, f, g, h>>) = {a, b, c, d, e, f, g, h}
  BY DEF ToSet

\* A row of members that have nothing to do with colours.
LEMMA PlainRow ==
    ASSUME NEW code \in TableCodes, NEW names, IsSeq(names), NEW S, S = ToSet(names), S # {},
           NEW N, PlainNames(S, N), NEW K, NEW L, L \subseteq S \cup K
    PROVE  Grammar(U(code, names), K, L, N)
  <1>1. Grammar(U(code, names), K, S, N)
    BY GrammarOfRow, Zenon DEF PlainNames
  <1> QED BY <1>1, GrammarWeakens

\* A row of colours.
LEMMA ColourRow ==
    ASSUME NEW code \in TableCodes, NEW names, IsSeq(names), NEW S, S = ToSet(names), S # {},
           NEW N, \A m \in S : m \notin N, TellsColours(code, names), NEW K, NEW L, L \subseteq S \cup K
    PROVE  Grammar(U(code, names), K, L, N)
  <1>1. Grammar(U(code, names), K, S, N)
    BY GrammarOfRow, Zenon
  <1> QED BY <1>1, GrammarWeakens

\* PlainNames rows of one name, and more.
LEMMA Row1 ==
    ASSUME NEW code \in TableCodes, NEW N, NEW a, PlainNames({a}, N), NEW K, NEW L, L \subseteq {a} \cup K
    PROVE  Grammar(U(code, <<a>>), K, L, N)
  <1>1. PICK S : S = {a} /\ S # {}
    OBVIOUS
  <1>2. IsSeq(<<a>>) /\ ToSet(<<a>>) = S
    BY <1>1, TuplesAreSeqs, NamesOf
  <1> QED BY <1>1, <1>2, PlainRow

\* Rows of two, four, six and eight members can be read.
LEMMA Row2 ==
    ASSUME NEW code \in TableCodes, NEW N, NEW a, NEW b, PlainNames({a, b}, N),
           NEW K, NEW L, L \subseteq {a, b} \cup K
    PROVE  Grammar(U(code, <<a, b>>), K, L, N)
  <1>1. PICK S : S = {a, b} /\ S # {}
    OBVIOUS
  <1>2. IsSeq(<<a, b>>) /\ ToSet(<<a, b>>) = S
    BY <1>1, TuplesAreSeqs, NamesOf
  <1> QED BY <1>1, <1>2, PlainRow

LEMMA Row4 ==
    ASSUME NEW code \in TableCodes, NEW N, NEW a, NEW b, NEW c, NEW d, PlainNames({a, b, c, d}, N),
           NEW K, NEW L, L \subseteq K
    PROVE  Grammar(U(code, <<a, b, c, d>>), K, L, N)
  <1>1. PICK S : S = {a, b, c, d} /\ S # {}
    OBVIOUS
  <1>2. IsSeq(<<a, b, c, d>>) /\ ToSet(<<a, b, c, d>>) = S
    BY <1>1, TuplesAreSeqs, NamesOf
  <1> QED BY <1>1, <1>2, PlainRow

LEMMA Row6 ==
    ASSUME NEW code \in TableCodes, NEW N, NEW a, NEW b, NEW c, NEW d, NEW e, NEW f,
           PlainNames({a, b, c, d, e, f}, N), NEW K, NEW L, L \subseteq K
    PROVE  Grammar(U(code, <<a, b, c, d, e, f>>), K, L, N)
  <1>1. PICK S : S = {a, b, c, d, e, f} /\ S # {}
    OBVIOUS
  <1>2. IsSeq(<<a, b, c, d, e, f>>) /\ ToSet(<<a, b, c, d, e, f>>) = S
    BY <1>1, TuplesAreSeqs, NamesOf
  <1> QED BY <1>1, <1>2, PlainRow

LEMMA Row8 ==
    ASSUME NEW code \in TableCodes, NEW N, NEW a, NEW b, NEW c, NEW d, NEW e, NEW f, NEW g, NEW h,
           PlainNames({a, b, c, d, e, f, g, h}, N), NEW K, NEW L, L \subseteq K
    PROVE  Grammar(U(code, <<a, b, c, d, e, f, g, h>>), K, L, N)
  <1>1. PICK S : S = {a, b, c, d, e, f, g, h} /\ S # {}
    OBVIOUS
  <1>2. IsSeq(<<a, b, c, d, e, f, g, h>>) /\ ToSet(<<a, b, c, d, e, f, g, h>>) = S
    BY <1>1, TuplesAreSeqs, NamesOf
  <1> QED BY <1>1, <1>2, PlainRow

\* Rows under a condition, behind a table.
LEMMA ThenIf ==
    ASSUME NEW a, NEW K, NEW L, NEW N, Grammar(a, K, L, N), NEW t, NEW M, Grammar(t, L, M, N),
           NEW name, name \in L, name \notin ColourNames \/ MembersOf(t) \subseteq ColourNames, NEW values
    PROVE  Grammar(a \o If(name, values, t), K, L, N)
  <1>1. Grammar(If(name, values, t), L, L, N)
    BY GrammarOfIf
  <1> QED BY <1>1, GrammarOfBoth

\* The codes of the rows.
LEMMA CodesAre ==
    /\ UE \in TableCodes /\ SE \in TableCodes /\ 1 \in TableCodes /\ 2 \in TableCodes
    /\ 3 \in TableCodes /\ 4 \in TableCodes /\ 5 \in TableCodes /\ 8 \in TableCodes /\ 16 \in TableCodes
  BY DEF TableCodes, Sizes, UE, SE

\* read_hrd_parameters can be read.
LEMMA HrdGrammar == Grammar(read_hrd_parameters, {}, {}, {})
  <1> DEFINE C  == {"cpb_cnt_minus1"}
             r1 == U(UE, <<"cpb_cnt_minus1">>)
             r2 == U(4, <<"bit_rate_scale", "cpb_size_scale">>)
             r3 == U(UE, <<"bit_rate_value_0", "cpb_size_value_0">>)
             r4 == U(1, <<"cbr_flag_0">>)
             r5 == U(UE, <<"bit_rate_value_1", "cpb_size_value_1">>)
             r6 == U(1, <<"cbr_flag_1">>)
             r7 == U(5, <<"initial_cpb_removal_delay_length", "cpb_removal_delay_length",
                          "dpb_output_delay_length", "time_offset_length">>)
  <1>1. /\ PlainNames({"cpb_cnt_minus1"}, {}) /\ PlainNames({"bit_rate_scale", "cpb_size_scale"}, {})
        /\ PlainNames({"bit_rate_value_0", "cpb_size_value_0"}, {}) /\ PlainNames({"cbr_flag_0"}, {})
        /\ PlainNames({"bit_rate_value_1", "cpb_size_value_1"}, {}) /\ PlainNames({"cbr_flag_1"}, {})
        /\ PlainNames({"initial_cpb_removal_delay_length", "cpb_removal_delay_length",
                  "dpb_output_delay_length", "time_offset_length"}, {})
        /\ "cpb_cnt_minus1" \notin ColourNames
    BY DEF PlainNames, ColourNames
  <1>2. Grammar(r1, {}, C, {})
    BY <1>1, CodesAre, Row1
  <1>3. Grammar(r2, C, C, {})
    BY <1>1, CodesAre, Row2
  <1>4. Grammar(r3, C, C, {})
    BY <1>1, CodesAre, Row2
  <1>5. Grammar(r4, C, C, {})
    BY <1>1, CodesAre, Row1
  <1>6. Grammar(r5, C, C, {})
    BY <1>1, CodesAre, Row2
  <1>7. Grammar(r6, C, C, {})
    BY <1>1, CodesAre, Row1
  <1>8. Grammar(r7, C, {}, {})
    BY <1>1, CodesAre, Row4
  <1>9. "cpb_cnt_minus1" \in C
    OBVIOUS
  <1>10. read_hrd_parameters = r1 \o r2 \o r3 \o r4 \o If("cpb_cnt_minus1", From(1), r5 \o r6) \o r7
    BY Zenon DEF read_hrd_parameters
  <1> HIDE DEF C, r1, r2, r3, r4, r5, r6, r7
  <1>11. Grammar(r1 \o r2 \o r3 \o r4, {}, C, {})
    BY <1>2, <1>3, <1>4, <1>5, GrammarOfBoth
  <1>12. Grammar(r5 \o r6, C, C, {})
    BY <1>6, <1>7, GrammarOfBoth
  <1>13. Grammar(r1 \o r2 \o r3 \o r4 \o If("cpb_cnt_minus1", From(1), r5 \o r6), {}, C, {})
    BY <1>1, <1>9, <1>11, <1>12, ThenIf
  <1> QED BY <1>8, <1>10, <1>13, GrammarOfBoth

\* The VUI up to the HRDs, and from there on.
BeforeHrds ==
    U(1, <<"aspect_ratio_info_present_flag">>)
    \o If("aspect_ratio_info_present_flag", {1},
          U(8, <<"aspect_ratio_idc">>)
          \o If("aspect_ratio_idc", {SAR_Extended}, U(16, <<"sar_width", "sar_height">>)))
    \o U(1, <<"overscan_info_present_flag">>)
    \o If("overscan_info_present_flag", {1}, U(1, <<"overscan_appropriate_flag">>))
    \o U(1, <<"video_signal_type_present_flag">>)
    \o If("video_signal_type_present_flag", {1},
          U(3, <<"video_format">>)
          \o U(1, <<"video_full_range_flag", "colour_description_present_flag">>)
          \o If("colour_description_present_flag", {1},
                U(8, <<"colour_primaries", "transfer_characteristics", "matrix_coefficients">>)))
    \o U(1, <<"chroma_loc_info_present_flag">>)
    \o If("chroma_loc_info_present_flag", {1},
          U(UE, <<"chroma_sample_loc_top", "chroma_sample_loc_bottom">>))
    \o U(1, <<"timing_info_present_flag">>)
    \o If("timing_info_present_flag", {1},
          U(16, <<"num_units_in_tick_hi", "num_units_in_tick_lo",
                  "time_scale_hi", "time_scale_lo">>)
          \o U(1, <<"fixed_frame_rate_flag">>))
    \o U(1, <<"nal_hrd_present_flag">>)

\* What follows the HRDs in the VUI: the flag of the low delay, which is there when
\* either HRD is, the structure and the restriction.
LowDelay1 == If("nal_hrd_present_flag", {1}, U(1, <<"low_delay_hrd_flag">>))
LowDelay2 == If("nal_hrd_present_flag", {0},
                If("vcl_hrd_present_flag", {1}, U(1, <<"low_delay_hrd_flag">>)))
Structure == U(1, <<"pic_struct_present_flag", "bitstream_restriction_flag">>)
Restriction ==
    If("bitstream_restriction_flag", {1},
       U(1, <<"motion_vectors_over_pic_boundaries_flag">>)
       \o U(UE, <<"max_bytes_per_pic_denom", "max_bits_per_mb_denom",
                  "log2_max_mv_length_horizontal", "log2_max_mv_length_vertical",
                  "num_reorder_frames", "max_dec_frame_buffering">>))

AfterHrds == LowDelay1 \o LowDelay2 \o Structure \o Restriction

\* The flags that tell whether there are HRDs.
NalFlag == {"nal_hrd_present_flag"}
VclFlag == {"vcl_hrd_present_flag"}

\* The colours fit their codes.
LEMMA ColoursFit ==
    /\ TellsColours(1, <<"video_signal_type_present_flag">>)
    /\ TellsColours(1, <<"vui_parameters_present_flag">>)
    /\ TellsColours(3, <<"video_format">>)
    /\ TellsColours(1, <<"video_full_range_flag", "colour_description_present_flag">>)
    /\ TellsColours(8, <<"colour_primaries", "transfer_characteristics", "matrix_coefficients">>)
  <1>1. /\ 0 \in ValuesOf(1) /\ 1 \in ValuesOf(1) /\ 5 \in ValuesOf(3)
        /\ \A v \in 0 .. 8 : v \in ValuesOf(8)
        /\ 1 \notin {UE, SE} /\ 3 \notin {UE, SE} /\ 8 \notin {UE, SE}
    BY DEF ValuesOf, UE, SE
  <1> DEFINE Fit(c) ==
               /\ c["video_signal_type_present_flag"] = 1 /\ c["vui_parameters_present_flag"] \in {0, 1}
               /\ c["video_format"] = 5 /\ c["video_full_range_flag"] \in {0, 1}
               /\ c["colour_description_present_flag"] = 1 /\ c["colour_primaries"] \in 0 .. 8
               /\ c["transfer_characteristics"] \in 0 .. 8 /\ c["matrix_coefficients"] \in 0 .. 8
  <1>2. ASSUME NEW matrix \in Nat
        PROVE  Fit(ColourOf(matrix))
    <2>1. ASSUME NEW range \in {0, 1}, NEW primaries \in 0 .. 8, NEW transfer \in 0 .. 8, NEW m \in 0 .. 8
          PROVE  Fit(Description(range, primaries, transfer, m))
      BY DEF Description
    <2>2. Fit([Description(1, 1, 1, 1) EXCEPT !.vui_parameters_present_flag = 0])
      BY DEF Description
    <2> HIDE DEF Fit
    <2>3. /\ Fit(Description(0, 5, 6, 5)) /\ Fit(Description(1, 5, 6, 5)) /\ Fit(Description(1, 5, 8, 5))
          /\ Fit(Description(0, 1, 1, 1)) /\ Fit(Description(1, 1, 1, 1))
      <3>1. /\ 0 \in {0, 1} /\ 1 \in {0, 1} /\ 5 \in 0 .. 8 /\ 6 \in 0 .. 8 /\ 1 \in 0 .. 8 /\ 8 \in 0 .. 8
        OBVIOUS
      <3> QED BY <2>1, <3>1, Zenon
    <2>4. \/ ColourOf(matrix) = Description(0, 5, 6, 5) \/ ColourOf(matrix) = Description(1, 5, 6, 5)
          \/ ColourOf(matrix) = Description(1, 5, 8, 5) \/ ColourOf(matrix) = Description(0, 1, 1, 1)
          \/ ColourOf(matrix) = Description(1, 1, 1, 1)
          \/ ColourOf(matrix) = [Description(1, 1, 1, 1) EXCEPT !.vui_parameters_present_flag = 0]
      <3>1. CASE matrix \in ColourMatrices
        BY <3>1 DEF ColourOf, ColourMatrices, BT601_FULL, BT601_LIMITED, BT601_FULL_YCbCr, BT709_FULL,
                    BT709_LIMITED, BT709_ALT1_LIMITED
      <3>2. CASE matrix \notin ColourMatrices
        <4>1. /\ matrix # BT601_LIMITED /\ matrix # BT601_FULL /\ matrix # BT601_FULL_YCbCr
              /\ matrix # BT709_LIMITED /\ matrix # BT709_FULL /\ matrix # BT709_ALT1_LIMITED
          BY <3>2 DEF ColourMatrices, BT601_LIMITED, BT601_FULL, BT601_FULL_YCbCr, BT709_LIMITED,
                 BT709_FULL, BT709_ALT1_LIMITED
        <4> QED BY <4>1, Zenon DEF ColourOf
      <3> QED BY <3>1, <3>2
    <2> QED BY <2>2, <2>3, <2>4
  <1>3. TellsColours(1, <<"video_signal_type_present_flag">>)
    BY <1>1, <1>2, NamesOf DEF TellsColours, ColourNames
  <1>4. TellsColours(1, <<"vui_parameters_present_flag">>)
    BY <1>1, <1>2, NamesOf DEF TellsColours, ColourNames
  <1>5. TellsColours(3, <<"video_format">>)
    BY <1>1, <1>2, NamesOf DEF TellsColours, ColourNames
  <1>6. TellsColours(1, <<"video_full_range_flag", "colour_description_present_flag">>)
    BY <1>1, <1>2, NamesOf DEF TellsColours, ColourNames
  <1>7. TellsColours(8, <<"colour_primaries", "transfer_characteristics", "matrix_coefficients">>)
    BY <1>1, <1>2, NamesOf DEF TellsColours, ColourNames
  <1> QED BY <1>3, <1>4, <1>5, <1>6, <1>7

\* What the VUI says of colours can be read.
LEMMA ColoursGrammar ==
    ASSUME NEW K
    PROVE  LET t == U(3, <<"video_format">>)
                    \o U(1, <<"video_full_range_flag", "colour_description_present_flag">>)
                    \o If("colour_description_present_flag", {1},
                          U(8, <<"colour_primaries", "transfer_characteristics", "matrix_coefficients">>))
           IN  Grammar(t, K, K, VuiApart) /\ MembersOf(t) \subseteq ColourNames
  <1> DEFINE r1 == U(3, <<"video_format">>)
             r2 == U(1, <<"video_full_range_flag", "colour_description_present_flag">>)
             r3 == U(8, <<"colour_primaries", "transfer_characteristics", "matrix_coefficients">>)
             F  == K \cup {"colour_description_present_flag"}
             i3 == If("colour_description_present_flag", {1}, r3)
  <1>1. \A m \in ColourNames : m \notin VuiApart
    BY DEF ColourNames, VuiApart, HrdNames
  <1>2. /\ \A m \in {"video_format"} : m \in ColourNames
        /\ \A m \in {"video_full_range_flag", "colour_description_present_flag"} : m \in ColourNames
        /\ \A m \in {"colour_primaries", "transfer_characteristics", "matrix_coefficients"} : m \in ColourNames
    BY DEF ColourNames
  <1>3. /\ ToSet(<<"video_format">>) = {"video_format"}
        /\ ToSet(<<"video_full_range_flag", "colour_description_present_flag">>)
              = {"video_full_range_flag", "colour_description_present_flag"}
        /\ ToSet(<<"colour_primaries", "transfer_characteristics", "matrix_coefficients">>)
              = {"colour_primaries", "transfer_characteristics", "matrix_coefficients"}
        /\ IsSeq(<<"video_format">>) /\ IsSeq(<<"video_full_range_flag", "colour_description_present_flag">>)
        /\ IsSeq(<<"colour_primaries", "transfer_characteristics", "matrix_coefficients">>)
    BY NamesOf, TuplesAreSeqs
  <1>4. Grammar(r1, K, K, VuiApart)
    BY <1>1, <1>2, <1>3, CodesAre, ColoursFit, ColourRow
  <1>5. Grammar(r2, K, F, VuiApart)
    BY <1>1, <1>2, <1>3, CodesAre, ColoursFit, ColourRow
  <1>6. Grammar(r3, F, F, VuiApart)
    BY <1>1, <1>2, <1>3, CodesAre, ColoursFit, ColourRow
  <1>7. MembersOf(r1) \subseteq ColourNames /\ MembersOf(r2) \subseteq ColourNames
        /\ MembersOf(r3) \subseteq ColourNames
    <2>1. \A code, names : MembersOf(U(code, names)) = ToSet(names)
      BY DEF MembersOf, U
    <2> QED BY <1>2, <1>3, <2>1
  <1>8. "colour_description_present_flag" \in F
    OBVIOUS
  <1>9. K \subseteq F
    OBVIOUS
  <1> HIDE DEF r1, r2, r3, F
  <1>10. IsTable(r1) /\ IsTable(r2) /\ IsTable(r3)
    BY <1>4, <1>5, <1>6, Zenon DEF Grammar
  <1>11. Grammar(r1 \o r2, K, F, VuiApart)
    BY <1>4, <1>5, GrammarOfBoth
  <1>12. Grammar(r1 \o r2 \o i3, K, F, VuiApart)
    BY <1>6, <1>7, <1>8, <1>11, ThenIf
  <1>13. Grammar(r1 \o r2 \o i3, K, K, VuiApart)
    BY <1>9, <1>12, GrammarWeakens
  <1>14. IsTable(i3) /\ MembersOf(i3) \subseteq ColourNames
    BY <1>7, <1>10, RowsUnder, MembersUnder
  <1>15. IsTable(r1 \o r2) /\ MembersOf(r1 \o r2) \subseteq ColourNames
    BY <1>7, <1>10, RowsBehind, MembersBehind
  <1>16. MembersOf(r1 \o r2 \o i3) \subseteq ColourNames
    BY <1>14, <1>15, MembersBehind
  <1> QED BY <1>13, <1>16 DEF r1, r2, r3

\* A flag and what it is there for.
LEMMA ThenFlag ==
    ASSUME NEW a, NEW K, NEW L, NEW N, Grammar(a, K, L, N),
           NEW name, PlainNames({name}, N), NEW t, NEW M, Grammar(t, {name}, M, N), NEW values
    PROVE  Grammar(a \o U(1, <<name>>) \o If(name, values, t), K, {name}, N)
  <1>1. Grammar(U(1, <<name>>), L, {name}, N)
    BY CodesAre, Row1
  <1>2. Grammar(a \o U(1, <<name>>), K, {name}, N)
    BY <1>1, GrammarOfBoth
  <1>3. name \in {name} /\ name \notin ColourNames
    BY DEF PlainNames
  <1> QED BY <1>2, <1>3, ThenIf

\* The names of the VUI that are plain.
LEMMA PlainVui ==
    /\ PlainNames({"aspect_ratio_info_present_flag"}, VuiApart) /\ PlainNames({"aspect_ratio_idc"}, VuiApart)
    /\ PlainNames({"sar_width", "sar_height"}, VuiApart) /\ PlainNames({"overscan_info_present_flag"}, VuiApart)
    /\ PlainNames({"overscan_appropriate_flag"}, VuiApart) /\ PlainNames({"chroma_loc_info_present_flag"}, VuiApart)
    /\ PlainNames({"chroma_sample_loc_top", "chroma_sample_loc_bottom"}, VuiApart)
    /\ PlainNames({"timing_info_present_flag"}, VuiApart)
    /\ PlainNames({"num_units_in_tick_hi", "num_units_in_tick_lo", "time_scale_hi", "time_scale_lo"}, VuiApart)
    /\ PlainNames({"fixed_frame_rate_flag"}, VuiApart) /\ PlainNames({"nal_hrd_present_flag"}, VuiApart)
    /\ PlainNames({"vcl_hrd_present_flag"}, VuiApart) /\ PlainNames({"low_delay_hrd_flag"}, VuiApart)
    /\ PlainNames({"pic_struct_present_flag", "bitstream_restriction_flag"}, VuiApart)
    /\ PlainNames({"motion_vectors_over_pic_boundaries_flag"}, VuiApart)
    /\ PlainNames({"max_bytes_per_pic_denom", "max_bits_per_mb_denom",
              "log2_max_mv_length_horizontal", "log2_max_mv_length_vertical",
              "num_reorder_frames", "max_dec_frame_buffering"}, VuiApart)
  BY DEF PlainNames, VuiApart, HrdNames, ColourNames

\* The VUI up to the HRDs can be read.
LEMMA BeforeGrammar == Grammar(BeforeHrds, {}, NalFlag, VuiApart)
  <1> DEFINE ratio == U(8, <<"aspect_ratio_idc">>)
                      \o If("aspect_ratio_idc", {SAR_Extended}, U(16, <<"sar_width", "sar_height">>))
             colours == U(3, <<"video_format">>)
                        \o U(1, <<"video_full_range_flag", "colour_description_present_flag">>)
                        \o If("colour_description_present_flag", {1},
                              U(8, <<"colour_primaries", "transfer_characteristics", "matrix_coefficients">>))
             chroma == U(UE, <<"chroma_sample_loc_top", "chroma_sample_loc_bottom">>)
             timing == U(16, <<"num_units_in_tick_hi", "num_units_in_tick_lo",
                               "time_scale_hi", "time_scale_lo">>)
                       \o U(1, <<"fixed_frame_rate_flag">>)
             A == {"aspect_ratio_info_present_flag"}
             O == {"overscan_info_present_flag"}
             V == {"video_signal_type_present_flag"}
             C == {"chroma_loc_info_present_flag"}
             T == {"timing_info_present_flag"}
             b1 == U(1, <<"aspect_ratio_info_present_flag">>) \o If("aspect_ratio_info_present_flag", {1}, ratio)
             b2 == b1 \o U(1, <<"overscan_info_present_flag">>)
                      \o If("overscan_info_present_flag", {1}, U(1, <<"overscan_appropriate_flag">>))
             b3 == b2 \o U(1, <<"video_signal_type_present_flag">>)
                      \o If("video_signal_type_present_flag", {1}, colours)
             b4 == b3 \o U(1, <<"chroma_loc_info_present_flag">>)
                      \o If("chroma_loc_info_present_flag", {1}, chroma)
             b5 == b4 \o U(1, <<"timing_info_present_flag">>)
                      \o If("timing_info_present_flag", {1}, timing)
  <1>1. Grammar(ratio, A, {"aspect_ratio_idc"}, VuiApart)
    <2>1. Grammar(U(8, <<"aspect_ratio_idc">>), A, {"aspect_ratio_idc"}, VuiApart)
      BY PlainVui, CodesAre, Row1
    <2>2. Grammar(U(16, <<"sar_width", "sar_height">>), {"aspect_ratio_idc"}, {}, VuiApart)
      BY PlainVui, CodesAre, Row2
    <2>3. "aspect_ratio_idc" \in {"aspect_ratio_idc"} /\ "aspect_ratio_idc" \notin ColourNames
      BY DEF ColourNames
    <2> QED BY <2>1, <2>2, <2>3, ThenIf
  <1>2. Grammar(colours, V, V, VuiApart) /\ MembersOf(colours) \subseteq ColourNames
    BY ColoursGrammar
  <1>3. Grammar(chroma, C, {}, VuiApart)
    BY PlainVui, CodesAre, Row2
  <1>4. Grammar(timing, T, {}, VuiApart)
    <2>1. Grammar(U(16, <<"num_units_in_tick_hi", "num_units_in_tick_lo",
                          "time_scale_hi", "time_scale_lo">>), T, {}, VuiApart)
      BY PlainVui, CodesAre, Row4
    <2>2. Grammar(U(1, <<"fixed_frame_rate_flag">>), {}, {}, VuiApart)
      BY PlainVui, CodesAre, Row1
    <2> QED BY <2>1, <2>2, GrammarOfBoth
  <1>5. Grammar(U(1, <<"overscan_appropriate_flag">>), O, {}, VuiApart)
    BY PlainVui, CodesAre, Row1
  <1>6. BeforeHrds = b5 \o U(1, <<"nal_hrd_present_flag">>)
    BY Zenon DEF BeforeHrds
  <1>7. Grammar(b1, {}, A, VuiApart)
    <2>1. Grammar(U(1, <<"aspect_ratio_info_present_flag">>), {}, A, VuiApart)
      BY PlainVui, CodesAre, Row1
    <2>2. "aspect_ratio_info_present_flag" \in A /\ "aspect_ratio_info_present_flag" \notin ColourNames
      BY DEF ColourNames
    <2> HIDE DEF ratio, A
    <2> QED BY <1>1, <2>1, <2>2, ThenIf
  <1> HIDE DEF ratio, colours, chroma, timing, b1
  <1>8. Grammar(b2, {}, O, VuiApart)
    BY <1>5, <1>7, PlainVui, ThenFlag
  <1> HIDE DEF b2
  <1>9. Grammar(b3, {}, V, VuiApart)
    <2>1. ToSet(<<"video_signal_type_present_flag">>) = V /\ IsSeq(<<"video_signal_type_present_flag">>)
      BY NamesOf, TuplesAreSeqs
    <2>2. \A m \in V : m \notin VuiApart
      BY DEF VuiApart, HrdNames
    <2>3. Grammar(U(1, <<"video_signal_type_present_flag">>), O, V, VuiApart)
      BY <2>1, <2>2, CodesAre, ColoursFit, ColourRow
    <2>4. Grammar(b2 \o U(1, <<"video_signal_type_present_flag">>), {}, V, VuiApart)
      BY <1>8, <2>3, GrammarOfBoth
    <2>5. "video_signal_type_present_flag" \in V
      OBVIOUS
    <2> HIDE DEF V
    <2> QED BY <1>2, <2>4, <2>5, ThenIf
  <1> HIDE DEF b3
  <1>10. Grammar(b4, {}, C, VuiApart)
    BY <1>3, <1>9, PlainVui, ThenFlag
  <1> HIDE DEF b4
  <1>11. Grammar(b5, {}, T, VuiApart)
    BY <1>4, <1>10, PlainVui, ThenFlag
  <1> HIDE DEF b5
  <1>12. Grammar(U(1, <<"nal_hrd_present_flag">>), T, NalFlag, VuiApart)
    BY PlainVui, CodesAre, Row1 DEF NalFlag
  <1> QED BY <1>6, <1>11, <1>12, GrammarOfBoth

\* The flag of the second HRD.
LEMMA VclGrammar == Grammar(U(1, <<"vcl_hrd_present_flag">>), {}, VclFlag, VuiApart)
  BY PlainVui, CodesAre, Row1 DEF VclFlag

\* The VUI behind the HRDs can be read.
LEMMA AfterGrammar == Grammar(AfterHrds, NalFlag \cup VclFlag, {}, VuiApart)
  <1> DEFINE F == NalFlag \cup VclFlag
             low == U(1, <<"low_delay_hrd_flag">>)
             lowIf == If("vcl_hrd_present_flag", {1}, low)
             R == {"bitstream_restriction_flag"}
             moves == U(1, <<"motion_vectors_over_pic_boundaries_flag">>)
             sizes == U(UE, <<"max_bytes_per_pic_denom", "max_bits_per_mb_denom",
                              "log2_max_mv_length_horizontal", "log2_max_mv_length_vertical",
                              "num_reorder_frames", "max_dec_frame_buffering">>)
  <1>1. /\ "nal_hrd_present_flag" \in F /\ "vcl_hrd_present_flag" \in F
        /\ "nal_hrd_present_flag" \notin ColourNames /\ "vcl_hrd_present_flag" \notin ColourNames
        /\ "bitstream_restriction_flag" \in R /\ "bitstream_restriction_flag" \notin ColourNames
    BY DEF NalFlag, VclFlag, ColourNames
  <1>2. Grammar(low, F, F, VuiApart)
    BY PlainVui, CodesAre, Row1
  <1>3. Grammar(moves, R, R, VuiApart)
    BY PlainVui, CodesAre, Row1
  <1>4. Grammar(sizes, R, {}, VuiApart)
    BY PlainVui, CodesAre, Row6
  <1>5. Grammar(Structure, F, R, VuiApart)
    BY PlainVui, CodesAre, Row2 DEF Structure
  <1>6. /\ LowDelay1 = If("nal_hrd_present_flag", {1}, low)
        /\ LowDelay2 = If("nal_hrd_present_flag", {0}, lowIf)
        /\ Restriction = If("bitstream_restriction_flag", {1}, moves \o sizes)
    BY Zenon DEF LowDelay1, LowDelay2, Restriction
  <1>7. R \cup {} = R
    OBVIOUS
  <1> HIDE DEF F, low, R, moves, sizes
  <1>8. Grammar(lowIf, F, F, VuiApart)
    BY <1>1, <1>2, GrammarOfIf
  <1> HIDE DEF lowIf
  <1>9. Grammar(LowDelay1, F, F, VuiApart) /\ Grammar(LowDelay2, F, F, VuiApart)
    BY <1>1, <1>2, <1>6, <1>8, GrammarOfIf
  <1>10. Grammar(LowDelay1 \o LowDelay2 \o Structure, F, R, VuiApart)
    BY <1>5, <1>9, GrammarOfBoth
  <1>11. Grammar(moves \o sizes, R, {}, VuiApart)
    BY <1>3, <1>4, GrammarOfBoth
  <1>12. Grammar(AfterHrds, F, R, VuiApart)
    BY <1>1, <1>6, <1>10, <1>11, ThenIf DEF AfterHrds
  <1>13. Grammar(AfterHrds, F, {}, VuiApart)
    <2>1. F \subseteq F /\ VuiApart \subseteq VuiApart /\ \A m \in {} : m \in R \/ m \in F
      OBVIOUS
    <2> QED BY <1>12, <2>1, GrammarWeakens
  <1> QED BY <1>13 DEF F

\* The names of the sequence parameter set that are plain.
LEMMA PlainSeq ==
    /\ PlainNames({"profile_idc"}, HrdNames)
    /\ PlainNames({"constraint_set0_flag", "constraint_set1_flag", "constraint_set2_flag",
              "constraint_set3_flag", "constraint_set4_flag", "constraint_set5_flag"}, HrdNames)
    /\ PlainNames({"reserved_zero_2bits"}, HrdNames) /\ PlainNames({"level_idc"}, HrdNames)
    /\ PlainNames({"seq_parameter_set_id"}, HrdNames) /\ PlainNames({"chroma_format_idc"}, HrdNames)
    /\ PlainNames({"residual_colour_transform_flag"}, HrdNames)
    /\ PlainNames({"bit_depth_luma_minus8", "bit_depth_chroma_minus8"}, HrdNames)
    /\ PlainNames({"qpprime_y_zero_transform_bypass_flag", "seq_scaling_matrix_present_flag"}, HrdNames)
    /\ PlainNames({"scaling_list_0", "scaling_list_1", "scaling_list_2", "scaling_list_3",
              "scaling_list_4", "scaling_list_5", "scaling_list_6", "scaling_list_7"}, HrdNames)
    /\ PlainNames({"log2_max_frame_num_minus4", "pic_order_cnt_type"}, HrdNames)
    /\ PlainNames({"log2_max_pic_order_cnt_lsb_minus4"}, HrdNames)
    /\ PlainNames({"delta_pic_order_always_zero_flag"}, HrdNames)
    /\ PlainNames({"offset_for_non_ref_pic", "offset_for_top_to_bottom_field"}, HrdNames)
    /\ PlainNames({"num_ref_frames_in_pic_order_cnt_cycle"}, HrdNames)
    /\ PlainNames({"offset_for_ref_frame_0"}, HrdNames) /\ PlainNames({"offset_for_ref_frame_1"}, HrdNames)
    /\ PlainNames({"num_ref_frames"}, HrdNames) /\ PlainNames({"gaps_in_frame_num_value_allowed_flag"}, HrdNames)
    /\ PlainNames({"pic_width_in_mbs_minus1", "pic_height_in_map_units_minus1"}, HrdNames)
    /\ PlainNames({"frame_mbs_only_flag"}, HrdNames) /\ PlainNames({"mb_adaptive_frame_field_flag"}, HrdNames)
    /\ PlainNames({"direct_8x8_inference_flag", "frame_cropping_flag"}, HrdNames)
    /\ PlainNames({"frame_crop_left_offset", "frame_crop_right_offset",
              "frame_crop_top_offset", "frame_crop_bottom_offset"}, HrdNames)
  BY DEF PlainNames, HrdNames, ColourNames

\* A flag that stays known.
LEMMA Keeps ==
    ASSUME NEW code \in TableCodes, NEW a, PlainNames({a}, HrdNames), NEW K
    PROVE  Grammar(U(code, <<a>>), K, K, HrdNames)
  BY Row1

\* What the high profiles have.
LEMMA HighGrammar ==
    ASSUME NEW K
    PROVE  Grammar(U(UE, <<"chroma_format_idc">>)
                   \o If("chroma_format_idc", {3}, U(1, <<"residual_colour_transform_flag">>))
                   \o U(UE, <<"bit_depth_luma_minus8", "bit_depth_chroma_minus8">>)
                   \o U(1, <<"qpprime_y_zero_transform_bypass_flag", "seq_scaling_matrix_present_flag">>)
                   \o If("seq_scaling_matrix_present_flag", {1}, U(1, ListFlags)),
                   K, {}, HrdNames)
  <1> DEFINE C == {"chroma_format_idc"}
             M == {"seq_scaling_matrix_present_flag"}
             r1 == U(UE, <<"chroma_format_idc">>)
             r2 == U(1, <<"residual_colour_transform_flag">>)
             r3 == U(UE, <<"bit_depth_luma_minus8", "bit_depth_chroma_minus8">>)
             r4 == U(1, <<"qpprime_y_zero_transform_bypass_flag", "seq_scaling_matrix_present_flag">>)
             r5 == U(1, ListFlags)
  <1>1. Grammar(r1, K, C, HrdNames)
    BY PlainSeq, CodesAre, Row1
  <1>2. Grammar(r2, C, C, HrdNames)
    BY PlainSeq, CodesAre, Keeps
  <1>3. Grammar(r3, C, {}, HrdNames)
    BY PlainSeq, CodesAre, Row2
  <1>4. Grammar(r4, {}, M, HrdNames)
    BY PlainSeq, CodesAre, Row2
  <1>5. Grammar(r5, M, {}, HrdNames)
    BY PlainSeq, CodesAre, Row8 DEF ListFlags
  <1>6. /\ "chroma_format_idc" \in C /\ "chroma_format_idc" \notin ColourNames
        /\ "seq_scaling_matrix_present_flag" \in M /\ "seq_scaling_matrix_present_flag" \notin ColourNames
    BY DEF ColourNames
  <1> HIDE DEF C, M, r1, r2, r3, r4, r5
  <1>7. Grammar(r1 \o If("chroma_format_idc", {3}, r2), K, C, HrdNames)
    BY <1>1, <1>2, <1>6, ThenIf
  <1>8. Grammar(r1 \o If("chroma_format_idc", {3}, r2) \o r3 \o r4, K, M, HrdNames)
    BY <1>3, <1>4, <1>7, GrammarOfBoth
  <1>9. Grammar(r1 \o If("chroma_format_idc", {3}, r2) \o r3 \o r4
                \o If("seq_scaling_matrix_present_flag", {1}, r5), K, M, HrdNames)
    BY <1>5, <1>6, <1>8, ThenIf
  <1>10. K \subseteq K /\ HrdNames \subseteq HrdNames /\ \A m \in {} : m \in M \/ m \in K
    OBVIOUS
  <1>11. Grammar(r1 \o If("chroma_format_idc", {3}, r2) \o r3 \o r4
                 \o If("seq_scaling_matrix_present_flag", {1}, r5), K, {}, HrdNames)
    BY <1>9, <1>10, GrammarWeakens
  <1> QED BY <1>11, Zenon DEF r1, r2, r3, r4, r5

\* What the second type of a picture order count has.
LEMMA CountGrammar ==
    ASSUME NEW K
    PROVE  Grammar(U(1, <<"delta_pic_order_always_zero_flag">>)
                   \o U(SE, <<"offset_for_non_ref_pic", "offset_for_top_to_bottom_field">>)
                   \o U(UE, <<"num_ref_frames_in_pic_order_cnt_cycle">>)
                   \o If("num_ref_frames_in_pic_order_cnt_cycle", From(1), U(SE, <<"offset_for_ref_frame_0">>))
                   \o If("num_ref_frames_in_pic_order_cnt_cycle", From(2), U(SE, <<"offset_for_ref_frame_1">>)),
                   K, {}, HrdNames)
  <1> DEFINE C == {"num_ref_frames_in_pic_order_cnt_cycle"}
             r1 == U(1, <<"delta_pic_order_always_zero_flag">>)
             r2 == U(SE, <<"offset_for_non_ref_pic", "offset_for_top_to_bottom_field">>)
             r3 == U(UE, <<"num_ref_frames_in_pic_order_cnt_cycle">>)
             r4 == U(SE, <<"offset_for_ref_frame_0">>)
             r5 == U(SE, <<"offset_for_ref_frame_1">>)
  <1>1. Grammar(r1, K, {}, HrdNames)
    BY PlainSeq, CodesAre, Row1
  <1>2. Grammar(r2, {}, {}, HrdNames)
    BY PlainSeq, CodesAre, Row2
  <1>3. Grammar(r3, {}, C, HrdNames)
    BY PlainSeq, CodesAre, Row1
  <1>4. Grammar(r4, C, C, HrdNames) /\ Grammar(r5, C, C, HrdNames)
    BY PlainSeq, CodesAre, Keeps
  <1>5. "num_ref_frames_in_pic_order_cnt_cycle" \in C /\ "num_ref_frames_in_pic_order_cnt_cycle" \notin ColourNames
    BY DEF ColourNames
  <1> HIDE DEF C, r1, r2, r3, r4, r5
  <1>6. Grammar(r1 \o r2 \o r3, K, C, HrdNames)
    BY <1>1, <1>2, <1>3, GrammarOfBoth
  <1>7. Grammar(r1 \o r2 \o r3 \o If("num_ref_frames_in_pic_order_cnt_cycle", From(1), r4), K, C, HrdNames)
    BY <1>4, <1>5, <1>6, ThenIf
  <1>8. Grammar(r1 \o r2 \o r3 \o If("num_ref_frames_in_pic_order_cnt_cycle", From(1), r4)
                \o If("num_ref_frames_in_pic_order_cnt_cycle", From(2), r5), K, C, HrdNames)
    BY <1>4, <1>5, <1>7, ThenIf
  <1>9. K \subseteq K /\ HrdNames \subseteq HrdNames /\ \A m \in {} : m \in C \/ m \in K
    OBVIOUS
  <1>10. Grammar(r1 \o r2 \o r3 \o If("num_ref_frames_in_pic_order_cnt_cycle", From(1), r4)
                 \o If("num_ref_frames_in_pic_order_cnt_cycle", From(2), r5), K, {}, HrdNames)
    BY <1>8, <1>9, GrammarWeakens
  <1> QED BY <1>10, Zenon DEF r1, r2, r3, r4, r5

\* The flag that tells whether there is a VUI.
VuiFlag == {"vui_parameters_present_flag"}

\* The members of a parameter set that are always there and that its use turns on.
SeqFlags == VuiFlag \cup {"reserved_zero_2bits"}

\* The sequence parameter set can be read.
LEMMA SeqGrammarWhole == Grammar(read_seq_parameter_set, {}, SeqFlags, HrdNames)
  <1> DEFINE P == {"profile_idc"}
             O == {"pic_order_cnt_type", "reserved_zero_2bits"}
             F == {"frame_mbs_only_flag", "reserved_zero_2bits"}
             C == {"frame_cropping_flag", "reserved_zero_2bits"}
             Q == {"profile_idc", "reserved_zero_2bits"}
             high == U(UE, <<"chroma_format_idc">>)
                     \o If("chroma_format_idc", {3}, U(1, <<"residual_colour_transform_flag">>))
                     \o U(UE, <<"bit_depth_luma_minus8", "bit_depth_chroma_minus8">>)
                     \o U(1, <<"qpprime_y_zero_transform_bypass_flag", "seq_scaling_matrix_present_flag">>)
                     \o If("seq_scaling_matrix_present_flag", {1}, U(1, ListFlags))
             count == U(1, <<"delta_pic_order_always_zero_flag">>)
                      \o U(SE, <<"offset_for_non_ref_pic", "offset_for_top_to_bottom_field">>)
                      \o U(UE, <<"num_ref_frames_in_pic_order_cnt_cycle">>)
                      \o If("num_ref_frames_in_pic_order_cnt_cycle", From(1), U(SE, <<"offset_for_ref_frame_0">>))
                      \o If("num_ref_frames_in_pic_order_cnt_cycle", From(2), U(SE, <<"offset_for_ref_frame_1">>))
             r1 == U(8, <<"profile_idc">>)
             r2 == U(1, Flags)
             r3 == U(2, <<"reserved_zero_2bits">>)
             r4 == U(8, <<"level_idc">>)
             r5 == U(UE, <<"seq_parameter_set_id">>)
             r6 == U(UE, <<"log2_max_frame_num_minus4", "pic_order_cnt_type">>)
             r7 == U(UE, <<"log2_max_pic_order_cnt_lsb_minus4">>)
             r8 == U(UE, <<"num_ref_frames">>)
             r9 == U(1, <<"gaps_in_frame_num_value_allowed_flag">>)
             r10 == U(UE, <<"pic_width_in_mbs_minus1", "pic_height_in_map_units_minus1">>)
             r11 == U(1, <<"frame_mbs_only_flag">>)
             r12 == U(1, <<"mb_adaptive_frame_field_flag">>)
             r13 == U(1, <<"direct_8x8_inference_flag", "frame_cropping_flag">>)
             r14 == U(UE, <<"frame_crop_left_offset", "frame_crop_right_offset",
                            "frame_crop_top_offset", "frame_crop_bottom_offset">>)
             r15 == U(1, <<"vui_parameters_present_flag">>)
             s1 == r1 \o r2 \o r3 \o r4 \o r5
             s2 == s1 \o If("profile_idc", HighProfiles, high)
             s3 == s2 \o r6
             s4 == s3 \o If("pic_order_cnt_type", {0}, r7)
             s5 == s4 \o If("pic_order_cnt_type", {1}, count)
             s6 == s5 \o r8 \o r9 \o r10 \o r11
             s7 == s6 \o If("frame_mbs_only_flag", {0}, r12)
             s8 == s7 \o r13
             s9 == s8 \o If("frame_cropping_flag", {1}, r14)
  <1>1. Grammar(r1, {}, P, HrdNames)
    BY PlainSeq, CodesAre, Row1
  <1>2. Grammar(r2, P, P, HrdNames)
    BY PlainSeq, CodesAre, Row6 DEF Flags
  <1>3. Grammar(r3, P, Q, HrdNames) /\ Grammar(r4, Q, Q, HrdNames) /\ Grammar(r5, Q, Q, HrdNames)
    <2>1. Q \subseteq {"reserved_zero_2bits"} \cup P
      OBVIOUS
    <2>2. Grammar(r3, P, Q, HrdNames)
      BY <2>1, PlainSeq, CodesAre, Row1
    <2> QED BY <2>2, PlainSeq, CodesAre, Keeps
  <1>4. Grammar(high, Q, {}, HrdNames)
    BY HighGrammar
  <1>5. Grammar(r6, Q, O, HrdNames)
    BY PlainSeq, CodesAre, Row2
  <1>6. Grammar(r7, O, O, HrdNames)
    BY PlainSeq, CodesAre, Keeps
  <1>7. Grammar(count, O, {}, HrdNames)
    BY CountGrammar
  <1>8. Grammar(r8, O, O, HrdNames) /\ Grammar(r9, O, O, HrdNames)
    BY PlainSeq, CodesAre, Keeps
  <1>9. Grammar(r10, O, O, HrdNames)
    BY PlainSeq, CodesAre, Row2
  <1>10. Grammar(r11, O, F, HrdNames)
    BY PlainSeq, CodesAre, Row1
  <1>11. Grammar(r12, F, F, HrdNames)
    BY PlainSeq, CodesAre, Keeps
  <1>12. Grammar(r13, F, C, HrdNames)
    BY PlainSeq, CodesAre, Row2
  <1>13. Grammar(r14, C, {}, HrdNames)
    BY PlainSeq, CodesAre, Row4
  <1>14. Grammar(r15, C, SeqFlags, HrdNames)
    <2>1. ToSet(<<"vui_parameters_present_flag">>) = VuiFlag /\ IsSeq(<<"vui_parameters_present_flag">>)
          /\ VuiFlag # {} /\ SeqFlags \subseteq VuiFlag \cup C
      BY NamesOf, TuplesAreSeqs DEF VuiFlag, SeqFlags
    <2>2. \A m \in VuiFlag : m \notin HrdNames
      BY DEF HrdNames, VuiFlag
    <2> QED BY <2>1, <2>2, CodesAre, ColoursFit, ColourRow
  <1>15. /\ "profile_idc" \in Q /\ "profile_idc" \notin ColourNames
         /\ "pic_order_cnt_type" \in O /\ "pic_order_cnt_type" \notin ColourNames
         /\ "frame_mbs_only_flag" \in F /\ "frame_mbs_only_flag" \notin ColourNames
         /\ "frame_cropping_flag" \in C /\ "frame_cropping_flag" \notin ColourNames
    BY DEF ColourNames
  <1>16. read_seq_parameter_set = s9 \o r15
    BY Zenon DEF read_seq_parameter_set
  <1> HIDE DEF P, Q, O, F, C, high, count, r1, r2, r3, r4, r5, r6, r7, r8, r9, r10, r11, r12, r13, r14, r15
  <1>17. Grammar(s1, {}, Q, HrdNames)
    <2>1. Grammar(r1 \o r2, {}, P, HrdNames)
      BY <1>1, <1>2, GrammarOfBoth
    <2>2. Grammar(r1 \o r2 \o r3, {}, Q, HrdNames)
      BY <1>3, <2>1, GrammarOfBoth
    <2> QED BY <1>3, <2>2, GrammarOfBoth
  <1> HIDE DEF s1
  <1>18. Grammar(s2, {}, Q, HrdNames)
    BY <1>4, <1>15, <1>17, ThenIf
  <1> HIDE DEF s2
  <1>19. Grammar(s3, {}, O, HrdNames)
    BY <1>5, <1>18, GrammarOfBoth
  <1> HIDE DEF s3
  <1>20. Grammar(s4, {}, O, HrdNames)
    BY <1>6, <1>15, <1>19, ThenIf
  <1> HIDE DEF s4
  <1>21. Grammar(s5, {}, O, HrdNames)
    BY <1>7, <1>15, <1>20, ThenIf
  <1> HIDE DEF s5
  <1>22. Grammar(s6, {}, F, HrdNames)
    <2>1. Grammar(s5 \o r8 \o r9, {}, O, HrdNames)
      BY <1>8, <1>21, GrammarOfBoth
    <2> QED BY <1>9, <1>10, <2>1, GrammarOfBoth
  <1> HIDE DEF s6
  <1>23. Grammar(s7, {}, F, HrdNames)
    BY <1>11, <1>15, <1>22, ThenIf
  <1> HIDE DEF s7
  <1>24. Grammar(s8, {}, C, HrdNames)
    BY <1>12, <1>23, GrammarOfBoth
  <1> HIDE DEF s8
  <1>25. Grammar(s9, {}, C, HrdNames)
    BY <1>13, <1>15, <1>24, ThenIf
  <1> HIDE DEF s9
  <1> QED BY <1>14, <1>16, <1>25, GrammarOfBoth

\* Its flag of a VUI is known then.
LEMMA SeqGrammar == Grammar(read_seq_parameter_set, {}, VuiFlag, HrdNames)
  <1>1. \A m \in VuiFlag : m \in SeqFlags \/ m \in {}
    BY DEF SeqFlags
  <1>2. {} \subseteq {} /\ HrdNames \subseteq HrdNames
    OBVIOUS
  <1> QED BY <1>1, <1>2, SeqGrammarWhole, GrammarWeakens

\* Both flags are in every parameter set.
LEMMA SeqAlways ==
    /\ Always(read_seq_parameter_set, "vui_parameters_present_flag")
    /\ Always(read_seq_parameter_set, "reserved_zero_2bits")
  BY SeqGrammarWhole, Zenon DEF Grammar, SeqFlags, VuiFlag

\* Tables, one behind the other, in whatever order they are put together.
Regroups(a, b, c) == (a \o b) \o c = a \o (b \o c)

\* Tables regroup.
LEMMA Regrouped ==
    ASSUME NEW a, NEW b, NEW c, IsTable(a), IsTable(b), IsTable(c)
    PROVE  Regroups(a, b, c)
  <1>1. PICK N, W : a \in Seq(Rows(N, W))
    BY DEF IsTable
  <1>2. PICK M, V : b \in Seq(Rows(M, V))
    BY DEF IsTable
  <1>3. PICK O, X : c \in Seq(Rows(O, X))
    BY DEF IsTable
  <1>4. PICK R : R = Rows(N, W) \cup Rows(M, V) \cup Rows(O, X)
    OBVIOUS
  <1>5. a \in Seq(R)
    <2>1. Rows(N, W) \subseteq R
      BY <1>4
    <2> QED BY <1>1, <2>1, SeqMonotonic
  <1>6. b \in Seq(R)
    <2>1. Rows(M, V) \subseteq R
      BY <1>4
    <2> QED BY <1>2, <2>1, SeqMonotonic
  <1>7. c \in Seq(R)
    <2>1. Rows(O, X) \subseteq R
      BY <1>4
    <2> QED BY <1>3, <2>1, SeqMonotonic
  <1> QED BY <1>5, <1>6, <1>7, Associative, SMTT(40) DEF Regroups

\* A VUI with the HRDs n and v.
ToVcl(n) == BeforeHrds \o If("nal_hrd_present_flag", {1}, n) \o U(1, <<"vcl_hrd_present_flag">>)
ToHrds(n, v) == ToVcl(n) \o If("vcl_hrd_present_flag", {1}, v)
VuiWith(n, v) == ToHrds(n, v) \o AfterHrds

\* HrdSyntax is a table.
LEMMA HrdSyntaxTable ==
    ASSUME NEW hrd
    PROVE  IsTable(HrdSyntax(hrd))
  BY RowsAre, CodesOfRows, RowsUnder, RowsBehind, Zenon DEF HrdSyntax

\* The parts of a VUI are tables.
LEMMA VuiParts ==
    /\ IsTable(BeforeHrds) /\ IsTable(AfterHrds) /\ IsTable(U(1, <<"vcl_hrd_present_flag">>))
    /\ IsTable(LowDelay1) /\ IsTable(LowDelay2) /\ IsTable(Structure) /\ IsTable(Restriction)
  <1>1. IsTable(BeforeHrds) /\ IsTable(AfterHrds)
    BY BeforeGrammar, AfterGrammar DEF Grammar
  <1>2. IsTable(LowDelay1) /\ IsTable(LowDelay2)
    BY RowsAre, CodesOfRows, RowsUnder, Zenon DEF LowDelay1, LowDelay2
  <1>3. IsTable(Structure) /\ IsTable(Restriction)
    BY RowsAre, CodesOfRows, RowsUnder, RowsBehind, Zenon DEF Structure, Restriction
  <1>4. IsTable(U(1, <<"vcl_hrd_present_flag">>))
    BY RowsAre, CodesOfRows, Zenon
  <1> QED BY <1>1, <1>2, <1>3, <1>4

\* The VUI up to its second HRD is a table.
LEMMA VuiHalf ==
    ASSUME NEW n, NEW v, IsTable(n), IsTable(v)
    PROVE  /\ IsTable(If("nal_hrd_present_flag", {1}, n)) /\ IsTable(If("vcl_hrd_present_flag", {1}, v))
           /\ IsTable(ToVcl(n)) /\ IsTable(ToHrds(n, v)) /\ IsTable(VuiWith(n, v))
  <1>1. IsTable(If("nal_hrd_present_flag", {1}, n)) /\ IsTable(If("vcl_hrd_present_flag", {1}, v))
    BY RowsUnder
  <1>2. IsTable(ToVcl(n))
    BY <1>1, VuiParts, RowsBehind, Zenon DEF ToVcl
  <1>3. IsTable(ToHrds(n, v))
    BY <1>1, <1>2, RowsBehind, Zenon DEF ToHrds
  <1>4. IsTable(VuiWith(n, v))
    BY <1>3, VuiParts, RowsBehind, Zenon DEF VuiWith
  <1> QED BY <1>1, <1>2, <1>3, <1>4

\* What comes behind the HRDs may be put together before.
LEMMA EndOfVui ==
    ASSUME NEW d, IsTable(d)
    PROVE  d \o LowDelay1 \o LowDelay2 \o Structure \o Restriction = d \o AfterHrds
  <1>1. Regroups(d, LowDelay1, LowDelay2)
    BY VuiParts, Regrouped
  <1>2. IsTable(LowDelay1 \o LowDelay2)
    BY VuiParts, RowsBehind
  <1>3. Regroups(d, LowDelay1 \o LowDelay2, Structure)
    BY <1>2, VuiParts, Regrouped
  <1>4. IsTable(LowDelay1 \o LowDelay2 \o Structure)
    BY <1>2, VuiParts, RowsBehind
  <1>5. Regroups(d, LowDelay1 \o LowDelay2 \o Structure, Restriction)
    BY <1>4, VuiParts, Regrouped
  <1> QED BY <1>1, <1>3, <1>5, Zenon DEF Regroups, AfterHrds

\* read_vui_parameters is such a VUI, and so is that of H.264.
LEMMA VuisAre ==
    /\ read_vui_parameters = VuiWith(read_hrd_parameters, read_hrd_parameters)
    /\ VuiSyntax = VuiWith(HrdSyntax(Nal), HrdSyntax(Vcl))
  <1>1. read_vui_parameters = ToHrds(read_hrd_parameters, read_hrd_parameters)
                              \o LowDelay1 \o LowDelay2 \o Structure \o Restriction
    BY ZenonT(150) DEF read_vui_parameters, ToHrds, ToVcl, BeforeHrds, LowDelay1, LowDelay2, Structure, Restriction
  <1>2. VuiSyntax = ToHrds(HrdSyntax(Nal), HrdSyntax(Vcl))
                    \o LowDelay1 \o LowDelay2 \o Structure \o Restriction
    BY ZenonT(150) DEF VuiSyntax, ToHrds, ToVcl, BeforeHrds, LowDelay1, LowDelay2, Structure, Restriction
  <1>3. /\ IsTable(ToHrds(read_hrd_parameters, read_hrd_parameters))
        /\ IsTable(ToHrds(HrdSyntax(Nal), HrdSyntax(Vcl)))
    BY HrdTable, HrdSyntaxTable, VuiHalf
  <1>4. /\ read_vui_parameters = ToHrds(read_hrd_parameters, read_hrd_parameters) \o AfterHrds
        /\ VuiSyntax = ToHrds(HrdSyntax(Nal), HrdSyntax(Vcl)) \o AfterHrds
    BY <1>1, <1>2, <1>3, EndOfVui
  <1> QED BY <1>4, Zenon DEF VuiWith

\* Rows that differ in nothing but a condition on the profile, which makes no
\* difference to a profile that the code knows.
AkinRow(a, b) ==
    /\ a.names = b.names /\ a.code = b.code
    /\ \A p : SameProfile(p) => (IsPresent(a, p) <=> IsPresent(b, p))

Akin(t, u) ==
    /\ IsTable(t) /\ IsTable(u) /\ Len(u) = Len(t)
    /\ \A i \in 1 .. Len(t) : AkinRow(t[i], u[i])

\* A table is like itself.
LEMMA AkinItself == ASSUME NEW t, IsTable(t) PROVE Akin(t, t)
  BY Zenon DEF Akin, AkinRow

\* Two tables, one behind the other, are like two.
LEMMA AkinBoth ==
    ASSUME NEW a, NEW b, NEW v, NEW w, Akin(a, v), Akin(b, w)
    PROVE  Akin(a \o b, v \o w)
  <1>1. PICK n \in Nat : n = Len(a) /\ n = Len(v)
    BY TableRows DEF Akin
  <1>2. PICK m \in Nat : m = Len(b) /\ m = Len(w)
    BY TableRows DEF Akin
  <1>3. PICK c : c = a \o b
    OBVIOUS
  <1>4. PICK d : d = v \o w
    OBVIOUS
  <1>5. IsTable(a) /\ IsTable(b) /\ IsTable(v) /\ IsTable(w)
    BY DEF Akin
  <1>6. AreBoth(c, a, n, b, m) /\ AreBoth(d, v, n, w, m)
    BY <1>1, <1>2, <1>3, <1>4, <1>5, RowsOfBoth
  <1>7. IsTable(c) /\ IsTable(d) /\ Len(c) = n + m /\ Len(d) = n + m
    BY <1>6 DEF AreBoth
  <1>8. ASSUME NEW i \in 1 .. n + m PROVE AkinRow(c[i], d[i])
    <2>1. CASE i <= n
      <3>1. i \in 1 .. n
        BY <2>1
      <3>2. c[i] = a[i] /\ d[i] = v[i]
        BY <1>6, <3>1 DEF AreBoth
      <3>3. AkinRow(a[i], v[i])
        BY <1>1, <3>1 DEF Akin
      <3> QED BY <3>2, <3>3
    <2>2. CASE i > n
      <3>1. PICK k \in 1 .. m : i = n + k
        <4>1. i - n \in 1 .. m /\ i = n + (i - n)
          BY <2>2
        <4> QED BY <4>1
      <3>2. c[n + k] = b[k] /\ d[n + k] = w[k]
        BY <1>6 DEF AreBoth
      <3>3. AkinRow(b[k], w[k])
        BY <1>2 DEF Akin
      <3> QED BY <3>1, <3>2, <3>3
    <2> QED BY <2>1, <2>2
  <1>9. \A i \in 1 .. Len(c) : AkinRow(c[i], d[i])
    BY <1>7, <1>8
  <1> QED BY <1>3, <1>4, <1>7, <1>9, Zenon DEF Akin

\* The members of the profiles: H.264 has other profiles than the code
\* (bitstream.cpp:514, 714).
LEMMA AkinProfiles ==
    ASSUME NEW t, IsTable(t)
    PROVE  Akin(If("profile_idc", ChromaProfiles, t), If("profile_idc", HighProfiles, t))
  <1>1. PICK n \in Nat : n = Len(t)
    BY TableRows
  <1>2. PICK v : v = If("profile_idc", ChromaProfiles, t)
    OBVIOUS
  <1>3. PICK w : w = If("profile_idc", HighProfiles, t)
    OBVIOUS
  <1>4. AreUnder(v, t, n, "profile_idc", ChromaProfiles)
        /\ AreUnder(w, t, n, "profile_idc", HighProfiles)
    BY <1>1, <1>2, <1>3, RowsOfIf
  <1>5. IsTable(v) /\ IsTable(w) /\ Len(v) = n /\ Len(w) = n
    BY <1>4 DEF AreUnder
  <1>6. ASSUME NEW i \in 1 .. n PROVE AkinRow(v[i], w[i])
    <2>1. /\ v[i].names = t[i].names /\ v[i].code = t[i].code
          /\ v[i].when = t[i].when \cup {<<"profile_idc", ChromaProfiles>>}
          /\ w[i].names = t[i].names /\ w[i].code = t[i].code
          /\ w[i].when = t[i].when \cup {<<"profile_idc", HighProfiles>>}
      BY <1>4 DEF AreUnder
    <2>2. ASSUME NEW p, SameProfile(p) PROVE IsPresent(v[i], p) <=> IsPresent(w[i], p)
      <3>1. IsPresent(v[i], p) <=> IsPresent(t[i], p) /\ p["profile_idc"] \in ChromaProfiles
        <4>1. v[i].when = t[i].when \cup {<<"profile_idc", ChromaProfiles>>}
          BY <2>1
        <4> QED BY <4>1, PresentUnder, ZenonT(40)
      <3>2. IsPresent(w[i], p) <=> IsPresent(t[i], p) /\ p["profile_idc"] \in HighProfiles
        <4>1. w[i].when = t[i].when \cup {<<"profile_idc", HighProfiles>>}
          BY <2>1
        <4> QED BY <4>1, PresentUnder, ZenonT(40)
      <3>3. p["profile_idc"] \in HighProfiles <=> p["profile_idc"] \in ChromaProfiles
        BY <2>2 DEF SameProfile
      <3> QED BY <3>1, <3>2, <3>3, Zenon
    <2> QED BY <2>1, <2>2, Zenon DEF AkinRow
  <1>7. \A i \in 1 .. Len(v) : AkinRow(v[i], w[i])
    BY <1>5, <1>6
  <1> QED BY <1>2, <1>3, <1>5, <1>7, Zenon DEF Akin

\* The rows that are the same.
LEMMA RowsAkin ==
    /\ \A code \in Codes : \A a : Akin(U(code, <<a>>), U(code, <<a>>))
    /\ \A code \in Codes : \A a, b : Akin(U(code, <<a, b>>), U(code, <<a, b>>))
    /\ \A code \in Codes : Akin(U(code, Flags), U(code, Flags))
  BY RowsAre, AkinItself, Zenon

\* The code reads the syntax of H.264, but for the profiles.
LEMMA AkinSyntax == Akin(SpsSyntax, read_seq_parameter_set)
  <1> DEFINE high == U(UE, <<"chroma_format_idc">>)
                     \o If("chroma_format_idc", {3}, U(1, <<"residual_colour_transform_flag">>))
                     \o U(UE, <<"bit_depth_luma_minus8", "bit_depth_chroma_minus8">>)
                     \o U(1, <<"qpprime_y_zero_transform_bypass_flag", "seq_scaling_matrix_present_flag">>)
                     \o If("seq_scaling_matrix_present_flag", {1}, U(1, ListFlags))
             counts == If("pic_order_cnt_type", {1},
                          U(1, <<"delta_pic_order_always_zero_flag">>)
                          \o U(SE, <<"offset_for_non_ref_pic", "offset_for_top_to_bottom_field">>)
                          \o U(UE, <<"num_ref_frames_in_pic_order_cnt_cycle">>)
                          \o If("num_ref_frames_in_pic_order_cnt_cycle", From(1),
                                U(SE, <<"offset_for_ref_frame_0">>))
                          \o If("num_ref_frames_in_pic_order_cnt_cycle", From(2),
                                U(SE, <<"offset_for_ref_frame_1">>)))
             crop == If("frame_cropping_flag", {1},
                        U(UE, <<"frame_crop_left_offset", "frame_crop_right_offset",
                                "frame_crop_top_offset", "frame_crop_bottom_offset">>))
             order == If("pic_order_cnt_type", {0}, U(UE, <<"log2_max_pic_order_cnt_lsb_minus4">>))
             field == If("frame_mbs_only_flag", {0}, U(1, <<"mb_adaptive_frame_field_flag">>))
  <1>1. IsTable(high)
    BY RowsAre, CodesOfRows, RowsUnder, RowsBehind, Zenon
  <1>2. Akin(counts, counts)
    BY RowsAre, CodesOfRows, RowsUnder, RowsBehind, AkinItself, Zenon
  <1>3. Akin(crop, crop) /\ Akin(order, order) /\ Akin(field, field)
    BY RowsAre, CodesOfRows, RowsUnder, AkinItself, Zenon
  <1> DEFINE first == U(8, <<"profile_idc">>) \o U(1, Flags) \o U(2, <<"reserved_zero_2bits">>)
                      \o U(8, <<"level_idc">>) \o U(UE, <<"seq_parameter_set_id">>)
             profile(values) == If("profile_idc", values, high)
             second(values) == first \o profile(values)
                               \o U(UE, <<"log2_max_frame_num_minus4", "pic_order_cnt_type">>)
             third(values) == second(values) \o order \o counts
                              \o U(UE, <<"num_ref_frames">>) \o U(1, <<"gaps_in_frame_num_value_allowed_flag">>)
             all(values) == third(values)
                            \o U(UE, <<"pic_width_in_mbs_minus1", "pic_height_in_map_units_minus1">>)
                            \o U(1, <<"frame_mbs_only_flag">>) \o field
                            \o U(1, <<"direct_8x8_inference_flag", "frame_cropping_flag">>) \o crop
                            \o U(1, <<"vui_parameters_present_flag">>)
             Both(t(_)) == Akin(t(ChromaProfiles), t(HighProfiles))
  <1>4. SpsSyntax = all(ChromaProfiles) /\ read_seq_parameter_set = all(HighProfiles)
    BY Zenon DEF SpsSyntax, read_seq_parameter_set
  <1>5. Both(profile)
    BY <1>1, AkinProfiles, Zenon
  <1> HIDE DEF high, counts, crop, order, field
  <1>6. Akin(first, first)
    BY AkinBoth, RowsAkin, CodesOfRows, Zenon
  <1> HIDE DEF first, profile
  <1>7. Both(second)
    BY <1>5, <1>6, AkinBoth, RowsAkin, CodesOfRows, Zenon
  <1> HIDE DEF second
  <1>8. Both(third)
    BY <1>2, <1>3, <1>7, AkinBoth, RowsAkin, CodesOfRows, Zenon
  <1> HIDE DEF third
  <1>9. Both(all)
    BY <1>3, <1>8, AkinBoth, RowsAkin, CodesOfRows, Zenon
  <1> QED BY <1>4, <1>9, Zenon

\* It has the same members, by the same codes.
LEMMA SameRows ==
    /\ DOMAIN read_seq_parameter_set = DOMAIN SpsSyntax
    /\ \A i \in DOMAIN SpsSyntax : /\ read_seq_parameter_set[i].names = SpsSyntax[i].names
                                   /\ read_seq_parameter_set[i].code = SpsSyntax[i].code
    /\ MembersOf(read_seq_parameter_set) = MembersOf(SpsSyntax)
  <1>1. PICK D : D = 1 .. Len(SpsSyntax) /\ D = DOMAIN SpsSyntax
                 /\ D = DOMAIN read_seq_parameter_set
    <2>1. DOMAIN SpsSyntax = 1 .. Len(SpsSyntax)
          /\ DOMAIN read_seq_parameter_set = 1 .. Len(read_seq_parameter_set)
          /\ Len(read_seq_parameter_set) = Len(SpsSyntax)
      BY AkinSyntax, TableRows DEF Akin
    <2> QED BY <2>1
  <1>2. \A i \in D : read_seq_parameter_set[i].names = SpsSyntax[i].names
                     /\ read_seq_parameter_set[i].code = SpsSyntax[i].code
    BY <1>1, AkinSyntax DEF Akin, AkinRow
  <1>3. \A i \in D : ToSet(read_seq_parameter_set[i].names) = ToSet(SpsSyntax[i].names)
    BY <1>2, Zenon
  <1>4. MembersOf(read_seq_parameter_set) = MembersOf(SpsSyntax)
    <2>1. \A x : x \in MembersOf(read_seq_parameter_set)
                    <=> \E i \in D : x \in ToSet(read_seq_parameter_set[i].names)
      BY <1>1, Zenon DEF MembersOf
    <2>2. \A x : x \in MembersOf(SpsSyntax) <=> \E i \in D : x \in ToSet(SpsSyntax[i].names)
      BY <1>1, Zenon DEF MembersOf
    <2>3. \A x : x \in MembersOf(read_seq_parameter_set) <=> x \in MembersOf(SpsSyntax)
      BY <1>3, <2>1, <2>2, Zenon
    <2> QED BY <2>3
  <1> QED BY <1>1, <1>2, <1>4, Zenon

\* To parameters of a profile that the code knows, it is the same table.
LEMMA KnownProfile ==
    ASSUME NEW p, SameProfile(p)
    PROVE  Mirrors(SpsSyntax, p, read_seq_parameter_set, p)
  <1>1. /\ IsTable(SpsSyntax) /\ IsTable(read_seq_parameter_set)
        /\ Len(read_seq_parameter_set) = Len(SpsSyntax)
    BY AkinSyntax DEF Akin
  <1>2. ASSUME NEW i \in 1 .. Len(SpsSyntax)
        PROVE  MirrorRow(SpsSyntax[i], p, read_seq_parameter_set[i], p)
    <2>1. AkinRow(SpsSyntax[i], read_seq_parameter_set[i])
      BY AkinSyntax DEF Akin
    <2> QED BY <2>1, Zenon DEF AkinRow, MirrorRow
  <1> QED BY <1>1, <1>2, Zenon DEF Mirrors

-----------------------------------------------------------------------------
(* The HRDs *)

\* The members of an HRD.
HrdMembers == {"cpb_cnt_minus1", "bit_rate_scale", "cpb_size_scale", "bit_rate_value_0",
               "cpb_size_value_0", "cbr_flag_0", "bit_rate_value_1", "cpb_size_value_1", "cbr_flag_1",
               "initial_cpb_removal_delay_length", "cpb_removal_delay_length",
               "dpb_output_delay_length", "time_offset_length"}

\* Rows of one, two and four members.
LEMMA MirrorsOf1 ==
    ASSUME NEW code \in Codes, NEW p, NEW q, NEW a, NEW b, p[a] = q[b]
    PROVE  Mirrors(U(code, <<a>>), p, U(code, <<b>>), q)
  <1>1. DOMAIN <<a>> = DOMAIN <<b>> /\ \A k \in DOMAIN <<a>> : p[<<a>>[k]] = q[<<b>>[k]]
    OBVIOUS
  <1> QED BY <1>1, TuplesAreSeqs, MirrorsOfRow

\* Rows of two and of four members.
LEMMA MirrorsOf2 ==
    ASSUME NEW code \in Codes, NEW p, NEW q, NEW a, NEW b, p[a] = q[b], NEW c, NEW d, p[c] = q[d]
    PROVE  Mirrors(U(code, <<a, c>>), p, U(code, <<b, d>>), q)
  <1>1. DOMAIN <<a, c>> = DOMAIN <<b, d>> /\ \A k \in DOMAIN <<a, c>> : p[<<a, c>>[k]] = q[<<b, d>>[k]]
    OBVIOUS
  <1> QED BY <1>1, TuplesAreSeqs, MirrorsOfRow

LEMMA MirrorsOf4 ==
    ASSUME NEW code \in Codes, NEW p, NEW q, NEW a, NEW b, p[a] = q[b], NEW c, NEW d, p[c] = q[d],
           NEW e, NEW f, p[e] = q[f], NEW g, NEW h, p[g] = q[h]
    PROVE  Mirrors(U(code, <<a, c, e, g>>), p, U(code, <<b, d, f, h>>), q)
  <1>1. /\ DOMAIN <<a, c, e, g>> = DOMAIN <<b, d, f, h>>
        /\ \A k \in DOMAIN <<a, c, e, g>> : p[<<a, c, e, g>>[k]] = q[<<b, d, f, h>>[k]]
    OBVIOUS
  <1> QED BY <1>1, TuplesAreSeqs, MirrorsOfRow

\* The HRD of H.264 mirrors that of the code, when its members are those.
LEMMA HrdMirrors ==
    ASSUME NEW hrd, NEW p, NEW q, \A x \in HrdMembers : p[hrd[x]] = q[x]
    PROVE  Mirrors(HrdSyntax(hrd), p, read_hrd_parameters, q)
  <1>1. /\ p[hrd.cpb_cnt_minus1] = q["cpb_cnt_minus1"]
        /\ p[hrd.bit_rate_scale] = q["bit_rate_scale"] /\ p[hrd.cpb_size_scale] = q["cpb_size_scale"]
        /\ p[hrd.bit_rate_value_0] = q["bit_rate_value_0"] /\ p[hrd.cpb_size_value_0] = q["cpb_size_value_0"]
        /\ p[hrd.cbr_flag_0] = q["cbr_flag_0"]
        /\ p[hrd.bit_rate_value_1] = q["bit_rate_value_1"] /\ p[hrd.cpb_size_value_1] = q["cpb_size_value_1"]
        /\ p[hrd.cbr_flag_1] = q["cbr_flag_1"]
        /\ p[hrd.initial_cpb_removal_delay_length] = q["initial_cpb_removal_delay_length"]
        /\ p[hrd.cpb_removal_delay_length] = q["cpb_removal_delay_length"]
        /\ p[hrd.dpb_output_delay_length] = q["dpb_output_delay_length"]
        /\ p[hrd.time_offset_length] = q["time_offset_length"]
    BY DEF HrdMembers
  <1> DEFINE a1 == U(UE, <<hrd.cpb_cnt_minus1>>)
             a2 == U(4, <<hrd.bit_rate_scale, hrd.cpb_size_scale>>)
             a3 == U(UE, <<hrd.bit_rate_value_0, hrd.cpb_size_value_0>>)
             a4 == U(1, <<hrd.cbr_flag_0>>)
             a5 == U(UE, <<hrd.bit_rate_value_1, hrd.cpb_size_value_1>>)
             a6 == U(1, <<hrd.cbr_flag_1>>)
             a7 == U(5, <<hrd.initial_cpb_removal_delay_length, hrd.cpb_removal_delay_length,
                          hrd.dpb_output_delay_length, hrd.time_offset_length>>)
             b1 == U(UE, <<"cpb_cnt_minus1">>)
             b2 == U(4, <<"bit_rate_scale", "cpb_size_scale">>)
             b3 == U(UE, <<"bit_rate_value_0", "cpb_size_value_0">>)
             b4 == U(1, <<"cbr_flag_0">>)
             b5 == U(UE, <<"bit_rate_value_1", "cpb_size_value_1">>)
             b6 == U(1, <<"cbr_flag_1">>)
             b7 == U(5, <<"initial_cpb_removal_delay_length", "cpb_removal_delay_length",
                          "dpb_output_delay_length", "time_offset_length">>)
  <1>2. Mirrors(a1, p, b1, q)
    BY <1>1, CodesOfRows, MirrorsOf1
  <1>3. Mirrors(a2, p, b2, q)
    BY <1>1, CodesOfRows, MirrorsOf2
  <1>4. Mirrors(a3, p, b3, q)
    BY <1>1, CodesOfRows, MirrorsOf2
  <1>5. Mirrors(a4, p, b4, q)
    BY <1>1, CodesOfRows, MirrorsOf1
  <1>6. Mirrors(a5, p, b5, q)
    BY <1>1, CodesOfRows, MirrorsOf2
  <1>7. Mirrors(a6, p, b6, q)
    BY <1>1, CodesOfRows, MirrorsOf1
  <1>8. Mirrors(a7, p, b7, q)
    BY <1>1, CodesOfRows, MirrorsOf4
  <1>9. /\ HrdSyntax(hrd) = a1 \o a2 \o a3 \o a4 \o If(hrd.cpb_cnt_minus1, From(1), a5 \o a6) \o a7
        /\ read_hrd_parameters = b1 \o b2 \o b3 \o b4 \o If("cpb_cnt_minus1", From(1), b5 \o b6) \o b7
    BY Zenon DEF HrdSyntax, read_hrd_parameters
  <1> HIDE DEF a1, a2, a3, a4, a5, a6, a7, b1, b2, b3, b4, b5, b6, b7
  <1>10. Mirrors(a5 \o a6, p, b5 \o b6, q)
    BY <1>6, <1>7, MirrorsOfBoth
  <1>11. Mirrors(If(hrd.cpb_cnt_minus1, From(1), a5 \o a6), p, If("cpb_cnt_minus1", From(1), b5 \o b6), q)
    BY <1>1, <1>10, MirrorsOfIf
  <1>12. Mirrors(a1 \o a2, p, b1 \o b2, q)
    BY <1>2, <1>3, MirrorsOfBoth
  <1>13. Mirrors(a1 \o a2 \o a3, p, b1 \o b2 \o b3, q)
    BY <1>4, <1>12, MirrorsOfBoth
  <1>14. Mirrors(a1 \o a2 \o a3 \o a4, p, b1 \o b2 \o b3 \o b4, q)
    BY <1>5, <1>13, MirrorsOfBoth
  <1>15. Mirrors(a1 \o a2 \o a3 \o a4 \o If(hrd.cpb_cnt_minus1, From(1), a5 \o a6), p,
                 b1 \o b2 \o b3 \o b4 \o If("cpb_cnt_minus1", From(1), b5 \o b6), q)
    BY <1>11, <1>14, MirrorsOfBoth
  <1>16. Mirrors(a1 \o a2 \o a3 \o a4 \o If(hrd.cpb_cnt_minus1, From(1), a5 \o a6) \o a7, p,
                 b1 \o b2 \o b3 \o b4 \o If("cpb_cnt_minus1", From(1), b5 \o b6) \o b7, q)
    BY <1>8, <1>15, MirrorsOfBoth
  <1> QED BY <1>9, <1>16

\* Tables that mirror themselves, row by row.
LEMMA RowsMirrorThemselves ==
    ASSUME NEW q
    PROVE  /\ \A code \in Codes : \A a : Mirrors(U(code, <<a>>), q, U(code, <<a>>), q)
           /\ \A code \in Codes : \A a, b : Mirrors(U(code, <<a, b>>), q, U(code, <<a, b>>), q)
           /\ \A code \in Codes : Mirrors(U(code, Flags), q, U(code, Flags), q)
  BY RowsAre, MirrorsItself, Zenon

\* write_seq_parameter_set writes zeros where read_seq_parameter_set reads reserved bits.
LEMMA SeqMirrors ==
    ASSUME NEW q, q["zero"] = q["reserved_zero_2bits"]
    PROVE  Mirrors(write_seq_parameter_set, q, read_seq_parameter_set, q)
  <1> DEFINE high == If("profile_idc", HighProfiles,
                        U(UE, <<"chroma_format_idc">>)
                        \o If("chroma_format_idc", {3}, U(1, <<"residual_colour_transform_flag">>))
                        \o U(UE, <<"bit_depth_luma_minus8", "bit_depth_chroma_minus8">>)
                        \o U(1, <<"qpprime_y_zero_transform_bypass_flag", "seq_scaling_matrix_present_flag">>)
                        \o If("seq_scaling_matrix_present_flag", {1}, U(1, ListFlags)))
             counts == If("pic_order_cnt_type", {1},
                          U(1, <<"delta_pic_order_always_zero_flag">>)
                          \o U(SE, <<"offset_for_non_ref_pic", "offset_for_top_to_bottom_field">>)
                          \o U(UE, <<"num_ref_frames_in_pic_order_cnt_cycle">>)
                          \o If("num_ref_frames_in_pic_order_cnt_cycle", From(1),
                                U(SE, <<"offset_for_ref_frame_0">>))
                          \o If("num_ref_frames_in_pic_order_cnt_cycle", From(2),
                                U(SE, <<"offset_for_ref_frame_1">>)))
             crop == If("frame_cropping_flag", {1},
                        U(UE, <<"frame_crop_left_offset", "frame_crop_right_offset",
                                "frame_crop_top_offset", "frame_crop_bottom_offset">>))
             order == If("pic_order_cnt_type", {0}, U(UE, <<"log2_max_pic_order_cnt_lsb_minus4">>))
             field == If("frame_mbs_only_flag", {0}, U(1, <<"mb_adaptive_frame_field_flag">>))
  <1>1. Mirrors(high, q, high, q)
    BY RowsAre, CodesOfRows, RowsUnder, RowsBehind, MirrorsItself, Zenon
  <1>2. Mirrors(counts, q, counts, q)
    BY RowsAre, CodesOfRows, RowsUnder, RowsBehind, MirrorsItself, Zenon
  <1>3. Mirrors(crop, q, crop, q) /\ Mirrors(order, q, order, q) /\ Mirrors(field, q, field, q)
    BY RowsAre, CodesOfRows, RowsUnder, MirrorsItself, Zenon
  <1>4. Mirrors(U(2, <<"zero">>), q, U(2, <<"reserved_zero_2bits">>), q)
    BY CodesOfRows, MirrorsOf1
  <1> DEFINE first(zero) == U(8, <<"profile_idc">>) \o U(1, Flags) \o U(2, <<zero>>)
             second(zero) == first(zero) \o U(8, <<"level_idc">>) \o U(UE, <<"seq_parameter_set_id">>)
                             \o high
                             \o U(UE, <<"log2_max_frame_num_minus4", "pic_order_cnt_type">>)
             third(zero) == second(zero) \o order \o counts
                            \o U(UE, <<"num_ref_frames">>) \o U(1, <<"gaps_in_frame_num_value_allowed_flag">>)
             all(zero) == third(zero)
                          \o U(UE, <<"pic_width_in_mbs_minus1", "pic_height_in_map_units_minus1">>)
                          \o U(1, <<"frame_mbs_only_flag">>) \o field
                          \o U(1, <<"direct_8x8_inference_flag", "frame_cropping_flag">>) \o crop
                          \o U(1, <<"vui_parameters_present_flag">>)
             Alike(t(_)) == Mirrors(t("zero"), q, t("reserved_zero_2bits"), q)
  <1>5. /\ read_seq_parameter_set = all("reserved_zero_2bits")
        /\ write_seq_parameter_set = all("zero")
    BY Zenon DEF read_seq_parameter_set, write_seq_parameter_set
  <1> HIDE DEF high, counts, crop, order, field
  <1>6. Alike(first)
    BY <1>4, MirrorsOfBoth, RowsMirrorThemselves, CodesOfRows, Zenon
  <1> HIDE DEF first
  <1>7. Alike(second)
    BY <1>1, <1>6, MirrorsOfBoth, RowsMirrorThemselves, CodesOfRows, Zenon
  <1> HIDE DEF second
  <1>8. Alike(third)
    BY <1>2, <1>3, <1>7, MirrorsOfBoth, RowsMirrorThemselves, CodesOfRows, Zenon
  <1> HIDE DEF third
  <1>9. Alike(all)
    BY <1>3, <1>8, MirrorsOfBoth, RowsMirrorThemselves, CodesOfRows, ZenonT(40)
  <1> QED BY <1>5, <1>9, Zenon

\* Values fit two tables, one behind the other, when they fit each of them.
LEMMA FitsBoth ==
    ASSUME NEW a, NEW b, IsTable(a), IsTable(b), NEW p
    PROVE  /\ Fits(a \o b, p) <=> Fits(a, p) /\ Fits(b, p)
           /\ NarrowTable(a \o b, p) <=> NarrowTable(a, p) /\ NarrowTable(b, p)
  <1>1. PICK c : c = a \o b
    OBVIOUS
  <1>2. PICK n \in Nat : n = Len(a)
    BY TableRows
  <1>3. PICK m \in Nat : m = Len(b)
    BY TableRows
  <1>4. AreBoth(c, a, n, b, m)
    BY <1>1, <1>2, <1>3, RowsOfBoth
  <1>5. /\ Len(c) = n + m
        /\ \A i \in 1 .. n : c[i] = a[i]
        /\ \A i \in 1 .. m : c[n + i] = b[i]
    BY <1>4 DEF AreBoth
  <1>6. ASSUME NEW i \in 1 .. n + m
        PROVE  (i \in 1 .. n) \/ \E k \in 1 .. m : i = n + k
    <2>1. CASE i <= n
      BY <2>1
    <2>2. CASE i > n
      <3>1. i - n \in 1 .. m /\ i = n + (i - n)
        BY <2>2
      <3> QED BY <3>1
    <2> QED BY <2>1, <2>2
  <1>7. (\A i \in 1 .. n : i \in 1 .. n + m) /\ (\A i \in 1 .. m : n + i \in 1 .. n + m)
    OBVIOUS
  <1>8. \A i \in 1 .. n + m : (\E k \in 1 .. n : c[i] = a[k]) \/ \E k \in 1 .. m : c[i] = b[k]
    BY <1>5, <1>6
  <1>9. /\ \A k \in 1 .. n : \E i \in 1 .. n + m : c[i] = a[k]
        /\ \A k \in 1 .. m : \E i \in 1 .. n + m : c[i] = b[k]
    BY <1>5, <1>7
  <1>10. Fits(c, p) <=> Fits(a, p) /\ Fits(b, p)
    <2>1. Fits(c, p) <=> \A i \in 1 .. n + m : FitsRow(c[i], p)
      BY <1>5, Zenon DEF Fits
    <2>2. Fits(a, p) <=> \A i \in 1 .. n : FitsRow(a[i], p)
      BY <1>2, Zenon DEF Fits
    <2>3. Fits(b, p) <=> \A i \in 1 .. m : FitsRow(b[i], p)
      BY <1>3, Zenon DEF Fits
    <2>4. (\A i \in 1 .. n + m : FitsRow(c[i], p))
             <=> (\A i \in 1 .. n : FitsRow(a[i], p)) /\ \A i \in 1 .. m : FitsRow(b[i], p)
      BY <1>8, <1>9
    <2> QED BY <2>1, <2>2, <2>3, <2>4
  <1>11. NarrowTable(c, p) <=> NarrowTable(a, p) /\ NarrowTable(b, p)
    <2>1. NarrowTable(c, p) <=> \A i \in 1 .. n + m : NarrowRow(c[i], p)
      BY <1>5, Zenon DEF NarrowTable
    <2>2. NarrowTable(a, p) <=> \A i \in 1 .. n : NarrowRow(a[i], p)
      BY <1>2, Zenon DEF NarrowTable
    <2>3. NarrowTable(b, p) <=> \A i \in 1 .. m : NarrowRow(b[i], p)
      BY <1>3, Zenon DEF NarrowTable
    <2>4. (\A i \in 1 .. n + m : NarrowRow(c[i], p))
             <=> (\A i \in 1 .. n : NarrowRow(a[i], p)) /\ \A i \in 1 .. m : NarrowRow(b[i], p)
      BY <1>8, <1>9
    <2> QED BY <2>1, <2>2, <2>3, <2>4
  <1> QED BY <1>1, <1>10, <1>11

\* A condition is nothing to the values, nor to the names of the members.
LEMMA FitsIf ==
    ASSUME NEW t, IsTable(t), NEW name, NEW values
    PROVE  /\ \A p : Fits(If(name, values, t), p) <=> Fits(t, p)
           /\ \A p : NarrowTable(If(name, values, t), p) <=> NarrowTable(t, p)
           /\ MembersOf(If(name, values, t)) = MembersOf(t)
  <1>1. PICK n \in Nat : n = Len(t)
    BY TableRows
  <1>2. PICK u : u = If(name, values, t)
    OBVIOUS
  <1>3. AreUnder(u, t, n, name, values)
    BY <1>1, <1>2, RowsOfIf
  <1>4. /\ Len(u) = n /\ DOMAIN u = 1 .. n /\ DOMAIN t = 1 .. n
        /\ \A i \in 1 .. n : u[i].names = t[i].names /\ u[i].code = t[i].code
    BY <1>3 DEF AreUnder
  <1>5. \A p : \A i \in 1 .. n : FitsRow(u[i], p) <=> FitsRow(t[i], p)
    BY <1>4, Zenon DEF FitsRow
  <1>6. \A p : \A i \in 1 .. n : NarrowRow(u[i], p) <=> NarrowRow(t[i], p)
    BY <1>4, Zenon DEF NarrowRow
  <1>7. \A p : Fits(u, p) <=> Fits(t, p)
    BY <1>1, <1>4, <1>5, Zenon DEF Fits
  <1>8. \A p : NarrowTable(u, p) <=> NarrowTable(t, p)
    BY <1>1, <1>4, <1>6, Zenon DEF NarrowTable
  <1>9. MembersOf(u) = MembersOf(t)
    <2>1. MembersOf(u) = UNION {ToSet(u[i].names) : i \in 1 .. n}
      BY <1>4, Zenon DEF MembersOf
    <2>2. MembersOf(t) = UNION {ToSet(t[i].names) : i \in 1 .. n}
      BY <1>4, Zenon DEF MembersOf
    <2>3. \A i \in 1 .. n : ToSet(u[i].names) = ToSet(t[i].names)
      BY <1>4, Zenon
    <2> QED BY <2>1, <2>2, <2>3
  <1> QED BY <1>2, <1>7, <1>8, <1>9

\* What is always read is a member, and it is there.
LEMMA AlwaysThere ==
    ASSUME NEW t, IsTable(t), NEW m, Always(t, m)
    PROVE  /\ m \in MembersOf(t)
           /\ \A p : m \in Members => m \in Present(t, p)
  <1>1. PICK j \in 1 .. Len(t) : m \in ToSet(t[j].names) /\ t[j].when = {}
    BY DEF Always
  <1>2. \A p : IsPresent(t[j], p)
    BY <1>1 DEF IsPresent
  <1>3. m \in MembersOf(t)
    BY <1>1, RowsInMembers
  <1> QED BY <1>1, <1>2, <1>3, Zenon DEF Present, PresentUpTo

\* What is there is a member of the table.
LEMMA PresentIsMember ==
    ASSUME NEW t, IsTable(t), NEW p, NEW m \in Present(t, p)
    PROVE  m \in MembersOf(t) /\ m \in Members
  <1>1. PICK i \in 1 .. Len(t) : m \in ToSet(t[i].names)
    BY Zenon DEF Present, PresentUpTo
  <1>2. m \in MembersOf(t)
    BY <1>1, RowsInMembers
  <1> QED BY <1>2, Zenon DEF Present, PresentUpTo

\* The members of an HRD, whatever their names are.
LEMMA HrdSyntaxMembers ==
    ASSUME NEW hrd
    PROVE  MembersOf(HrdSyntax(hrd)) = {hrd[x] : x \in HrdMembers}
  <1> DEFINE b1 == U(UE, <<hrd.cpb_cnt_minus1>>)
             b2 == U(4, <<hrd.bit_rate_scale, hrd.cpb_size_scale>>)
             b3 == U(UE, <<hrd.bit_rate_value_0, hrd.cpb_size_value_0>>)
             b4 == U(1, <<hrd.cbr_flag_0>>)
             b5 == U(UE, <<hrd.bit_rate_value_1, hrd.cpb_size_value_1>>)
             b6 == U(1, <<hrd.cbr_flag_1>>)
             b7 == U(5, <<hrd.initial_cpb_removal_delay_length, hrd.cpb_removal_delay_length,
                          hrd.dpb_output_delay_length, hrd.time_offset_length>>)
  <1>1. \A code, names : MembersOf(U(code, names)) = ToSet(names)
    BY DEF MembersOf, U
  <1>2. /\ IsTable(b1) /\ IsTable(b2) /\ IsTable(b3) /\ IsTable(b4)
        /\ IsTable(b5) /\ IsTable(b6) /\ IsTable(b7)
    BY RowsAre, CodesOfRows, Zenon
  <1>3. /\ MembersOf(b1) = {hrd.cpb_cnt_minus1} /\ MembersOf(b2) = {hrd.bit_rate_scale, hrd.cpb_size_scale}
        /\ MembersOf(b3) = {hrd.bit_rate_value_0, hrd.cpb_size_value_0} /\ MembersOf(b4) = {hrd.cbr_flag_0}
        /\ MembersOf(b5) = {hrd.bit_rate_value_1, hrd.cpb_size_value_1} /\ MembersOf(b6) = {hrd.cbr_flag_1}
        /\ MembersOf(b7) = {hrd.initial_cpb_removal_delay_length, hrd.cpb_removal_delay_length,
                            hrd.dpb_output_delay_length, hrd.time_offset_length}
    <2>1. \A code, a : MembersOf(U(code, <<a>>)) = {a}
      BY <1>1, NamesOf
    <2>2. \A code, a, b : MembersOf(U(code, <<a, b>>)) = {a, b}
      BY <1>1, NamesOf
    <2>3. \A code, a, b, c, d : MembersOf(U(code, <<a, b, c, d>>)) = {a, b, c, d}
      BY <1>1, NamesOf
    <2>4. MembersOf(b1) = {hrd.cpb_cnt_minus1}
      BY <2>1
    <2>5. MembersOf(b2) = {hrd.bit_rate_scale, hrd.cpb_size_scale}
      BY <2>2
    <2>6. MembersOf(b3) = {hrd.bit_rate_value_0, hrd.cpb_size_value_0}
      BY <2>2
    <2>7. MembersOf(b4) = {hrd.cbr_flag_0}
      BY <2>1
    <2>8. MembersOf(b5) = {hrd.bit_rate_value_1, hrd.cpb_size_value_1}
      BY <2>2
    <2>9. MembersOf(b6) = {hrd.cbr_flag_1}
      BY <2>1
    <2>10. MembersOf(b7) = {hrd.initial_cpb_removal_delay_length, hrd.cpb_removal_delay_length,
                            hrd.dpb_output_delay_length, hrd.time_offset_length}
      BY <2>3
    <2> HIDE DEF b1, b2, b3, b4, b5, b6, b7
    <2> QED BY <2>4, <2>5, <2>6, <2>7, <2>8, <2>9, <2>10
  <1>4. HrdSyntax(hrd) = b1 \o b2 \o b3 \o b4 \o If(hrd.cpb_cnt_minus1, From(1), b5 \o b6) \o b7
    BY Zenon DEF HrdSyntax
  <1> HIDE DEF b1, b2, b3, b4, b5, b6, b7
  <1> DEFINE Has(t, M) == IsTable(t) /\ MembersOf(t) = M
             M5 == MembersOf(b5) \cup MembersOf(b6)
             M2 == MembersOf(b1) \cup MembersOf(b2)
  <1>5. ASSUME NEW a, NEW b, NEW A, NEW B, Has(a, A), Has(b, B)
        PROVE  Has(a \o b, A \cup B)
    BY <1>5, RowsBehind, MembersBehind
  <1>6. /\ Has(b1, MembersOf(b1)) /\ Has(b2, MembersOf(b2)) /\ Has(b3, MembersOf(b3))
        /\ Has(b4, MembersOf(b4)) /\ Has(b5, MembersOf(b5)) /\ Has(b6, MembersOf(b6))
        /\ Has(b7, MembersOf(b7))
    BY <1>2
  <1> HIDE DEF Has
  <1>7. Has(b5 \o b6, M5)
    BY <1>5, <1>6
  <1>8. Has(If(hrd.cpb_cnt_minus1, From(1), b5 \o b6), M5)
    BY <1>7, RowsUnder, FitsIf DEF Has
  <1>9. Has(b1 \o b2, M2)
    BY <1>5, <1>6
  <1>10. Has(b1 \o b2 \o b3, M2 \cup MembersOf(b3))
    BY <1>5, <1>6, <1>9
  <1>11. Has(b1 \o b2 \o b3 \o b4, M2 \cup MembersOf(b3) \cup MembersOf(b4))
    BY <1>5, <1>6, <1>10
  <1>12. Has(b1 \o b2 \o b3 \o b4 \o If(hrd.cpb_cnt_minus1, From(1), b5 \o b6),
             M2 \cup MembersOf(b3) \cup MembersOf(b4) \cup M5)
    BY <1>5, <1>8, <1>11
  <1>13. Has(b1 \o b2 \o b3 \o b4 \o If(hrd.cpb_cnt_minus1, From(1), b5 \o b6) \o b7,
             M2 \cup MembersOf(b3) \cup MembersOf(b4) \cup M5 \cup MembersOf(b7))
    BY <1>5, <1>6, <1>12
  <1>14. M2 \cup MembersOf(b3) \cup MembersOf(b4) \cup M5 \cup MembersOf(b7)
            = {hrd[x] : x \in HrdMembers}
    BY <1>3 DEF HrdMembers
  <1> QED BY <1>4, <1>13, <1>14 DEF Has

\* The members of read_hrd_parameters.
LEMMA HrdMembersAre == MembersOf(read_hrd_parameters) = HrdMembers
  <1>1. PICK hrd : hrd = [x \in HrdMembers |-> x]
    OBVIOUS
  <1>2. \A x \in HrdMembers : hrd[x] = x
    BY <1>1
  <1>3. /\ hrd.cpb_cnt_minus1 = "cpb_cnt_minus1"
        /\ hrd.bit_rate_scale = "bit_rate_scale" /\ hrd.cpb_size_scale = "cpb_size_scale"
        /\ hrd.bit_rate_value_0 = "bit_rate_value_0" /\ hrd.cpb_size_value_0 = "cpb_size_value_0"
        /\ hrd.cbr_flag_0 = "cbr_flag_0"
        /\ hrd.bit_rate_value_1 = "bit_rate_value_1" /\ hrd.cpb_size_value_1 = "cpb_size_value_1"
        /\ hrd.cbr_flag_1 = "cbr_flag_1"
        /\ hrd.initial_cpb_removal_delay_length = "initial_cpb_removal_delay_length"
        /\ hrd.cpb_removal_delay_length = "cpb_removal_delay_length"
        /\ hrd.dpb_output_delay_length = "dpb_output_delay_length"
        /\ hrd.time_offset_length = "time_offset_length"
    BY <1>2 DEF HrdMembers
  <1>4. HrdSyntax(hrd) = read_hrd_parameters
    BY <1>3, Zenon DEF HrdSyntax, read_hrd_parameters
  <1>5. {hrd[x] : x \in HrdMembers} = HrdMembers
    BY <1>2
  <1> QED BY <1>4, <1>5, HrdSyntaxMembers

\* The parts of a VUI: what fits them, what is narrow in them, and their members.
VuiFits(n, v, p) ==
    /\ Fits(BeforeHrds, p) /\ Fits(n, p) /\ Fits(U(1, <<"vcl_hrd_present_flag">>), p)
    /\ Fits(v, p) /\ Fits(AfterHrds, p)

\* The parts of a VUI, narrow and with their members among these.
VuiNarrow(n, v, p) ==
    /\ NarrowTable(BeforeHrds, p) /\ NarrowTable(n, p) /\ NarrowTable(U(1, <<"vcl_hrd_present_flag">>), p)
    /\ NarrowTable(v, p) /\ NarrowTable(AfterHrds, p)

VuiMembers(n, v, M) ==
    /\ MembersOf(BeforeHrds) \subseteq M /\ MembersOf(n) \subseteq M
    /\ MembersOf(U(1, <<"vcl_hrd_present_flag">>)) \subseteq M
    /\ MembersOf(v) \subseteq M /\ MembersOf(AfterHrds) \subseteq M

\* A VUI fits, and is narrow, when its parts are.
LEMMA VuiOfParts ==
    ASSUME NEW n, NEW v, IsTable(n), IsTable(v)
    PROVE  /\ \A p : Fits(VuiWith(n, v), p) <=> VuiFits(n, v, p)
           /\ \A p : NarrowTable(VuiWith(n, v), p) <=> VuiNarrow(n, v, p)
           /\ VuiMembers(n, v, MembersOf(VuiWith(n, v)))
  <1> DEFINE ifN == If("nal_hrd_present_flag", {1}, n)
             ifV == If("vcl_hrd_present_flag", {1}, v)
             flag == U(1, <<"vcl_hrd_present_flag">>)
  <1>1. /\ ToVcl(n) = BeforeHrds \o ifN \o flag /\ ToHrds(n, v) = ToVcl(n) \o ifV
        /\ VuiWith(n, v) = ToHrds(n, v) \o AfterHrds
    BY Zenon DEF ToVcl, ToHrds, VuiWith
  <1>2. /\ \A p : Fits(ifN, p) <=> Fits(n, p)
        /\ \A p : NarrowTable(ifN, p) <=> NarrowTable(n, p)
        /\ MembersOf(ifN) = MembersOf(n) /\ IsTable(ifN)
    BY FitsIf, RowsUnder
  <1>3. /\ \A p : Fits(ifV, p) <=> Fits(v, p)
        /\ \A p : NarrowTable(ifV, p) <=> NarrowTable(v, p)
        /\ MembersOf(ifV) = MembersOf(v) /\ IsTable(ifV)
    BY FitsIf, RowsUnder
  <1>4. IsTable(BeforeHrds) /\ IsTable(AfterHrds) /\ IsTable(flag)
    BY VuiParts
  <1> HIDE DEF ifN, ifV, flag
  <1>5. IsTable(BeforeHrds \o ifN)
    BY <1>2, <1>4, RowsBehind
  <1>6. IsTable(ToVcl(n))
    BY <1>1, <1>4, <1>5, RowsBehind
  <1>7. IsTable(ToHrds(n, v))
    BY <1>1, <1>3, <1>6, RowsBehind
  <1> DEFINE two == BeforeHrds \o ifN
  <1>8. ASSUME NEW p
        PROVE  /\ Fits(VuiWith(n, v), p) <=> Fits(ToHrds(n, v), p) /\ Fits(AfterHrds, p)
               /\ NarrowTable(VuiWith(n, v), p) <=> NarrowTable(ToHrds(n, v), p) /\ NarrowTable(AfterHrds, p)
    BY <1>1, <1>4, <1>7, FitsBoth
  <1>9. ASSUME NEW p
        PROVE  /\ Fits(ToHrds(n, v), p) <=> Fits(ToVcl(n), p) /\ Fits(v, p)
               /\ NarrowTable(ToHrds(n, v), p) <=> NarrowTable(ToVcl(n), p) /\ NarrowTable(v, p)
    BY <1>1, <1>3, <1>6, FitsBoth
  <1>10. ASSUME NEW p
         PROVE  /\ Fits(ToVcl(n), p) <=> Fits(two, p) /\ Fits(flag, p)
                /\ NarrowTable(ToVcl(n), p) <=> NarrowTable(two, p) /\ NarrowTable(flag, p)
    BY <1>1, <1>4, <1>5, FitsBoth
  <1>11. ASSUME NEW p
         PROVE  /\ Fits(two, p) <=> Fits(BeforeHrds, p) /\ Fits(n, p)
                /\ NarrowTable(two, p) <=> NarrowTable(BeforeHrds, p) /\ NarrowTable(n, p)
    BY <1>2, <1>4, FitsBoth
  <1>12. MembersOf(VuiWith(n, v)) = MembersOf(ToHrds(n, v)) \cup MembersOf(AfterHrds)
    BY <1>1, <1>4, <1>7, MembersBehind
  <1>13. MembersOf(ToHrds(n, v)) = MembersOf(ToVcl(n)) \cup MembersOf(v)
    BY <1>1, <1>3, <1>6, MembersBehind
  <1>14. MembersOf(ToVcl(n)) = MembersOf(two) \cup MembersOf(flag)
    BY <1>1, <1>4, <1>5, MembersBehind
  <1>15. MembersOf(two) = MembersOf(BeforeHrds) \cup MembersOf(n)
    BY <1>2, <1>4, MembersBehind
  <1>16. VuiMembers(n, v, MembersOf(VuiWith(n, v)))
    BY <1>12, <1>13, <1>14, <1>15 DEF VuiMembers, flag
  <1>17. \A p : Fits(VuiWith(n, v), p) <=> VuiFits(n, v, p)
    BY <1>8, <1>9, <1>10, <1>11, Zenon DEF VuiFits, flag
  <1>18. \A p : NarrowTable(VuiWith(n, v), p) <=> VuiNarrow(n, v, p)
    BY <1>8, <1>9, <1>10, <1>11, Zenon DEF VuiNarrow, flag
  <1> QED BY <1>16, <1>17, <1>18

\* The tables that are read have members of sps_t only.
LEMMA TablesInMembers ==
    /\ MembersOf(read_seq_parameter_set) \subseteq Members
    /\ VuiMembers(read_hrd_parameters, read_hrd_parameters, Members)
  <1>1. VuiMembers(read_hrd_parameters, read_hrd_parameters, MembersOf(read_vui_parameters))
    BY HrdTable, VuiOfParts, VuisAre
  <1>2. MembersOf(read_vui_parameters) \subseteq Members
    BY DEF Members
  <1>3. VuiMembers(read_hrd_parameters, read_hrd_parameters, Members)
    BY <1>1, <1>2 DEF VuiMembers
  <1> QED BY <1>3 DEF Members

\* Along t the code reads, from x to y, what H.264 codes along u of parameters p.
Reads(t, s, x, y, u, p) ==
    /\ IsTable(t) /\ IsTable(u) /\ Coding(u, p) /\ x \in States(s) /\ y \in States(s)
    /\ ReadTable(t, s, x) = y /\ y.pos = x.pos + Len(SpecBits(u, p))

\* What two tables code follows each other.
LEMMA CarriesTables ==
    ASSUME NEW s \in Seq(Bits), NEW u, NEW v, NEW p, Coding(u, p), Coding(v, p),
           NEW pos, Carries(s, pos, SpecBits(u \o v, p))
    PROVE  Carries(s, pos, SpecBits(u, p)) /\ Carries(s, pos + Len(SpecBits(u, p)), SpecBits(v, p))
  <1>1. PICK a : a = SpecBits(u, p)
    OBVIOUS
  <1>2. PICK b : b = SpecBits(v, p)
    OBVIOUS
  <1>3. SpecBits(u \o v, p) = a \o b /\ a \in Seq(Bits) /\ b \in Seq(Bits)
    <2>1. BitsOfBoth(SpecBits(u \o v, p), a, b)
      BY <1>1, <1>2, SpecBitsBoth
    <2> QED BY <2>1 DEF BitsOfBoth
  <1>4. Carries(s, pos, a) /\ Carries(s, pos + Len(a), b)
    BY <1>3, CarriesBoth
  <1> QED BY <1>1, <1>2, <1>4

\* Two tables are read one after the other.
LEMMA ReadsBoth ==
    ASSUME NEW s \in Seq(Bits), NEW a, NEW b, NEW u, NEW v, NEW p, NEW x, NEW y, NEW z,
           Reads(a, s, x, y, u, p), Reads(b, s, y, z, v, p)
    PROVE  Reads(a \o b, s, x, z, u \o v, p)
  <1>1. /\ IsTable(a) /\ IsTable(b) /\ IsTable(u) /\ IsTable(v) /\ Coding(u, p) /\ Coding(v, p)
        /\ x \in States(s) /\ y \in States(s) /\ z \in States(s)
    BY DEF Reads
  <1>2. ReadTable(a \o b, s, x) = z
    <2>1. ReadTable(a \o b, s, x) = ReadTable(b, s, ReadTable(a, s, x))
      BY <1>1, ReadTableBoth
    <2> QED BY <2>1, Zenon DEF Reads
  <1>3. Coding(u \o v, p) /\ IsTable(a \o b) /\ IsTable(u \o v)
    BY <1>1, CodingBoth, RowsBehind
  <1>4. PICK f : f = SpecBits(u, p)
    OBVIOUS
  <1>5. PICK g : g = SpecBits(v, p)
    OBVIOUS
  <1>6. PICK h : h = SpecBits(u \o v, p)
    OBVIOUS
  <1>7. h = f \o g /\ f \in Seq(Bits) /\ g \in Seq(Bits)
    <2>1. BitsOfBoth(h, f, g)
      BY <1>1, <1>4, <1>5, <1>6, SpecBitsBoth
    <2> QED BY <2>1 DEF BitsOfBoth
  <1>8. Len(h) = Len(f) + Len(g) /\ Len(f) \in Nat /\ Len(g) \in Nat
    BY <1>7, ConcatFacts
  <1>9. y.pos = x.pos + Len(f) /\ z.pos = y.pos + Len(g)
    BY <1>4, <1>5 DEF Reads
  <1>10. x.pos \in Nat
    <2>1. Len(s) \in Nat
      OBVIOUS
    <2> QED BY <1>1, <2>1 DEF States
  <1>11. z.pos = x.pos + Len(h)
    BY <1>8, <1>9, <1>10
  <1> QED BY <1>1, <1>2, <1>3, <1>6, <1>11, Zenon DEF Reads

\* A table that is read, and what its members are then.
ReadsTo(t, s, x, y, u, p, q) ==
    Reads(t, s, x, y, u, p) /\ y.sps = Told(x.sps, q, Present(t, q))

\* A table that is mirrored by one that can be read is of the codes of H.264.
LEMMA MirrorCoding ==
    ASSUME NEW t, NEW K, NEW L, NEW N, Grammar(t, K, L, N),
           NEW u, NEW p, NEW q, Mirrors(u, p, t, q), Fits(u, p)
    PROVE  Coding(u, p)
  <1>1. ASSUME NEW i \in 1 .. Len(u)
        PROVE  u[i].code \in TableCodes
    <2>1. u[i].code = t[i].code /\ i \in 1 .. Len(t)
      BY DEF Mirrors, MirrorRow
    <2> QED BY <2>1, Zenon DEF Grammar, GoodRow
  <1>2. IsTable(u)
    BY DEF Mirrors
  <1> QED BY <1>1, <1>2, Zenon DEF Coding

\* A table is read as one that it mirrors was coded.
LEMMA PieceRead ==
    ASSUME NEW s \in Seq(Bits), NEW t, NEW K, NEW L, NEW N, Grammar(t, K, L, N),
           K \subseteq Members, MembersOf(t) \subseteq Members,
           NEW u, NEW p, NEW q, Mirrors(u, p, t, q), Fits(u, p),
           NEW x \in States(s), \A m \in K : x.sps[m] = q[m], Carries(s, x.pos, SpecBits(u, p))
    PROVE  \E y : ReadsTo(t, s, x, y, u, p, q)
  <1>1. PICK y : y = ReadTable(t, s, x)
    OBVIOUS
  <1>2. Fits(t, q) /\ SpecBits(u, p) = SpecBits(t, q)
    BY MirroredTable
  <1>3. IsTable(t) /\ IsTable(u)
    BY DEF Mirrors
  <1>4. ReadsBack(t, s, x, q)
    BY <1>2, ReadTableBack
  <1>5. y = [sps |-> Told(x.sps, q, Present(t, q)), pos |-> x.pos + Len(SpecBits(t, q))]
    BY <1>1, <1>4, Zenon DEF ReadsBack
  <1>6. y \in States(s)
    BY <1>1, <1>3, ReadTableTyped
  <1>7. Coding(u, p)
    BY MirrorCoding
  <1>8. y.sps = Told(x.sps, q, Present(t, q)) /\ y.pos = x.pos + Len(SpecBits(u, p))
    BY <1>2, <1>5
  <1> QED BY <1>1, <1>3, <1>6, <1>7, <1>8, Zenon DEF Reads, ReadsTo

-----------------------------------------------------------------------------
(* What is read of a parameter set *)

\* Parameters with the members of one HRD where the code has them.
HrdOf(p, hrd) == [m \in Members |-> IF m \in HrdMembers THEN p[hrd[m]] ELSE p[m]]

\* The HRDs of the VUI as they are read, and the flag between them.
NalIf == If("nal_hrd_present_flag", {1}, read_hrd_parameters)
VclIf == If("vcl_hrd_present_flag", {1}, read_hrd_parameters)
VclRow == U(1, <<"vcl_hrd_present_flag">>)

\* The members after each part of the VUI.
Before(sps, p) == Told(sps, p, Present(BeforeHrds, p))
WithNal(sps, p) == Told(Before(sps, p), HrdOf(p, Nal), Present(NalIf, HrdOf(p, Nal)))
WithFlag(sps, p) == Told(WithNal(sps, p), p, Present(VclRow, p))
WithVcl(sps, p) == Told(WithFlag(sps, p), HrdOf(p, Vcl), Present(VclIf, HrdOf(p, Vcl)))
AfterVui(sps, p) == Told(WithVcl(sps, p), p, Present(AfterHrds, p))

\* The flags of the HRDs are read before their HRDs.
LEMMA FlagsThere ==
    /\ "nal_hrd_present_flag" \in Members /\ \A p : "nal_hrd_present_flag" \in Present(BeforeHrds, p)
    /\ "vcl_hrd_present_flag" \in Members /\ \A p : "vcl_hrd_present_flag" \in Present(VclRow, p)
    /\ "vui_parameters_present_flag" \in Members
    /\ \A p : "vui_parameters_present_flag" \in Present(read_seq_parameter_set, p)
  <1>1. /\ Always(BeforeHrds, "nal_hrd_present_flag") /\ IsTable(BeforeHrds)
        /\ Always(VclRow, "vcl_hrd_present_flag") /\ IsTable(VclRow)
        /\ Always(read_seq_parameter_set, "vui_parameters_present_flag") /\ IsTable(read_seq_parameter_set)
    BY BeforeGrammar, VclGrammar, SeqGrammar DEF Grammar, NalFlag, VclFlag, VuiFlag, VclRow
  <1>2. /\ MembersOf(read_seq_parameter_set) \subseteq Members /\ MembersOf(BeforeHrds) \subseteq Members
        /\ MembersOf(VclRow) \subseteq Members
    BY TablesInMembers DEF VuiMembers, VclRow
  <1>3. /\ "nal_hrd_present_flag" \in Members /\ "vcl_hrd_present_flag" \in Members
        /\ "vui_parameters_present_flag" \in Members
    BY <1>1, <1>2, AlwaysThere
  <1> QED BY <1>1, <1>3, AlwaysThere, Zenon

\* The HRD of H.264 under its flag mirrors that of the code.
LEMMA HrdIfMirrors ==
    ASSUME NEW hrd, NEW p, NEW flag \in Members, flag \notin HrdMembers
    PROVE  Mirrors(If(flag, {1}, HrdSyntax(hrd)), p, If(flag, {1}, read_hrd_parameters), HrdOf(p, hrd))
  <1>1. \A x \in HrdMembers : p[hrd[x]] = HrdOf(p, hrd)[x]
    <2>1. HrdMembers \subseteq Members
      BY HrdMembersAre, TablesInMembers DEF VuiMembers
    <2> QED BY <2>1 DEF HrdOf
  <1>2. Mirrors(HrdSyntax(hrd), p, read_hrd_parameters, HrdOf(p, hrd))
    BY <1>1, HrdMirrors
  <1>3. HrdOf(p, hrd)[flag] = p[flag]
    BY DEF HrdOf
  <1> QED BY <1>2, <1>3, MirrorsOfIf

\* The rows of an HRD under its flag can be read.
LEMMA HrdIfGrammar ==
    /\ Grammar(NalIf, NalFlag, NalFlag, {}) /\ Grammar(VclIf, VclFlag, VclFlag, {})
    /\ NalFlag \subseteq Members /\ VclFlag \subseteq Members
    /\ MembersOf(NalIf) = HrdMembers /\ MembersOf(VclIf) = HrdMembers
    /\ "nal_hrd_present_flag" \notin HrdMembers /\ "vcl_hrd_present_flag" \notin HrdMembers
  <1>1. /\ "nal_hrd_present_flag" \notin HrdMembers /\ "vcl_hrd_present_flag" \notin HrdMembers
        /\ "nal_hrd_present_flag" \notin ColourNames /\ "vcl_hrd_present_flag" \notin ColourNames
    BY DEF HrdMembers, ColourNames
  <1>2. \A K : Grammar(read_hrd_parameters, K, K, {})
    <2>1. ASSUME NEW K
          PROVE  Grammar(read_hrd_parameters, K, K, {})
      <3>1. {} \subseteq K /\ (\A m \in K : m \in {} \/ m \in K) /\ {} \subseteq {}
        OBVIOUS
      <3> QED BY <3>1, HrdGrammar, GrammarWeakens
    <2> QED BY <2>1
  <1>3. "nal_hrd_present_flag" \in NalFlag /\ "vcl_hrd_present_flag" \in VclFlag
    BY DEF NalFlag, VclFlag
  <1>4. Grammar(NalIf, NalFlag, NalFlag, {})
    BY <1>1, <1>2, <1>3, GrammarOfIf DEF NalIf
  <1>5. Grammar(VclIf, VclFlag, VclFlag, {})
    BY <1>1, <1>2, <1>3, GrammarOfIf DEF VclIf
  <1>6. MembersOf(NalIf) = HrdMembers /\ MembersOf(VclIf) = HrdMembers
    BY HrdTable, FitsIf, HrdMembersAre DEF NalIf, VclIf
  <1>7. NalFlag \subseteq Members /\ VclFlag \subseteq Members
    BY FlagsThere DEF NalFlag, VclFlag
  <1> QED BY <1>1, <1>4, <1>5, <1>6, <1>7

\* A VUI is read as it was coded, both HRDs into the same members.
LEMMA VuiRead ==
    ASSUME NEW s \in Seq(Bits), NEW p, Fits(VuiSyntax, p), NEW x \in States(s),
           Carries(s, x.pos, SpecBits(VuiSyntax, p))
    PROVE  \E y : Reads(read_vui_parameters, s, x, y, VuiSyntax, p) /\ y.sps = AfterVui(x.sps, p)
  <1> DEFINE nalIf == If("nal_hrd_present_flag", {1}, HrdSyntax(Nal))
             vclIf == If("vcl_hrd_present_flag", {1}, HrdSyntax(Vcl))
             pn == HrdOf(p, Nal)
             pv == HrdOf(p, Vcl)
  <1>1. IsTable(HrdSyntax(Nal)) /\ IsTable(HrdSyntax(Vcl)) /\ IsTable(read_hrd_parameters)
    BY HrdSyntaxTable, HrdTable
  <1>2. Fits(BeforeHrds, p) /\ Fits(nalIf, p) /\ Fits(VclRow, p) /\ Fits(vclIf, p) /\ Fits(AfterHrds, p)
    <2>1. VuiFits(HrdSyntax(Nal), HrdSyntax(Vcl), p)
      BY <1>1, VuiOfParts, VuisAre
    <2> QED BY <1>1, <2>1, FitsIf DEF VuiFits, VclRow
  <1>3. /\ Grammar(BeforeHrds, {}, NalFlag, VuiApart) /\ Grammar(VclRow, {}, VclFlag, VuiApart)
        /\ Grammar(AfterHrds, NalFlag \cup VclFlag, {}, VuiApart)
        /\ Grammar(NalIf, NalFlag, NalFlag, {}) /\ Grammar(VclIf, VclFlag, VclFlag, {})
    BY BeforeGrammar, VclGrammar, AfterGrammar, HrdIfGrammar DEF VclRow
  <1>4. /\ MembersOf(BeforeHrds) \subseteq Members /\ MembersOf(VclRow) \subseteq Members
        /\ MembersOf(AfterHrds) \subseteq Members /\ MembersOf(NalIf) \subseteq Members
        /\ MembersOf(VclIf) \subseteq Members
    BY TablesInMembers, HrdIfGrammar, HrdMembersAre DEF VuiMembers, VclRow
  <1>5. Mirrors(nalIf, p, NalIf, pn) /\ Mirrors(vclIf, p, VclIf, pv)
    BY FlagsThere, HrdIfGrammar, HrdIfMirrors DEF NalIf, VclIf
  <1>6. /\ Mirrors(BeforeHrds, p, BeforeHrds, p) /\ Mirrors(VclRow, p, VclRow, p)
        /\ Mirrors(AfterHrds, p, AfterHrds, p)
    BY <1>3, MirrorsItself DEF Grammar
  <1>7. /\ pn["nal_hrd_present_flag"] = p["nal_hrd_present_flag"]
        /\ pv["vcl_hrd_present_flag"] = p["vcl_hrd_present_flag"]
    BY FlagsThere, HrdIfGrammar DEF HrdOf
  <1>8. /\ VuiSyntax = BeforeHrds \o nalIf \o VclRow \o vclIf \o AfterHrds
        /\ read_vui_parameters = BeforeHrds \o NalIf \o VclRow \o VclIf \o AfterHrds
    BY VuisAre, Zenon DEF VuiWith, ToHrds, ToVcl, NalIf, VclIf, VclRow
  <1> HIDE DEF nalIf, vclIf, pn, pv
  <1> DEFINE c2 == BeforeHrds \o nalIf
             c3 == c2 \o VclRow
             c4 == c3 \o vclIf
             l1 == Len(SpecBits(BeforeHrds, p))
             l2 == Len(SpecBits(c2, p))
             l3 == Len(SpecBits(c3, p))
             l4 == Len(SpecBits(c4, p))
  <1>9. /\ Coding(BeforeHrds, p) /\ Coding(nalIf, p) /\ Coding(VclRow, p) /\ Coding(vclIf, p)
        /\ Coding(AfterHrds, p)
    BY <1>2, <1>3, <1>5, <1>6, MirrorCoding
  <1>10. /\ IsTable(BeforeHrds) /\ IsTable(nalIf) /\ IsTable(VclRow) /\ IsTable(vclIf)
         /\ IsTable(AfterHrds)
    BY <1>9, Zenon DEF Coding
  <1>11. IsTable(c2) /\ Coding(c2, p)
    BY <1>9, <1>10, CodingBoth, RowsBehind
  <1>12. IsTable(c3) /\ Coding(c3, p)
    BY <1>9, <1>10, <1>11, CodingBoth, RowsBehind
  <1>13. IsTable(c4) /\ Coding(c4, p)
    BY <1>9, <1>10, <1>12, CodingBoth, RowsBehind
  <1>14. Carries(s, x.pos, SpecBits(c4, p)) /\ Carries(s, x.pos + l4, SpecBits(AfterHrds, p))
    BY <1>8, <1>9, <1>13, CarriesTables
  <1>15. Carries(s, x.pos, SpecBits(c3, p)) /\ Carries(s, x.pos + l3, SpecBits(vclIf, p))
    BY <1>9, <1>12, <1>14, CarriesTables
  <1>16. Carries(s, x.pos, SpecBits(c2, p)) /\ Carries(s, x.pos + l2, SpecBits(VclRow, p))
    BY <1>9, <1>11, <1>15, CarriesTables
  <1>17. Carries(s, x.pos, SpecBits(BeforeHrds, p)) /\ Carries(s, x.pos + l1, SpecBits(nalIf, p))
    BY <1>9, <1>16, CarriesTables
  <1>18. PICK x1 : ReadsTo(BeforeHrds, s, x, x1, BeforeHrds, p, p)
    <2>1. {} \subseteq Members /\ \A m \in {} : x.sps[m] = p[m]
      OBVIOUS
    <2> QED BY <1>2, <1>3, <1>4, <1>6, <1>17, <2>1, PieceRead
  <1>19. x1.sps = Before(x.sps, p) /\ Reads(BeforeHrds, s, x, x1, BeforeHrds, p)
    BY <1>18, Zenon DEF ReadsTo, Before
  <1>20. x1 \in States(s) /\ x1.pos = x.pos + l1
    BY <1>19, Zenon DEF Reads
  <1>21. \A m \in NalFlag : x1.sps[m] = pn[m]
    BY <1>7, <1>19, FlagsThere DEF NalFlag, Before, Told
  <1>22. PICK x2 : ReadsTo(NalIf, s, x1, x2, nalIf, p, pn)
    BY <1>2, <1>3, <1>4, <1>5, <1>17, <1>20, <1>21, HrdIfGrammar, PieceRead
  <1>23. x2.sps = WithNal(x.sps, p) /\ Reads(NalIf, s, x1, x2, nalIf, p)
    BY <1>19, <1>22, Zenon DEF ReadsTo, WithNal, pn
  <1>24. Reads(BeforeHrds \o NalIf, s, x, x2, c2, p)
    BY <1>19, <1>23, ReadsBoth
  <1>25. x2 \in States(s) /\ x2.pos = x.pos + l2
    BY <1>24, Zenon DEF Reads
  <1>26. PICK x3 : ReadsTo(VclRow, s, x2, x3, VclRow, p, p)
    <2>1. {} \subseteq Members /\ \A m \in {} : x2.sps[m] = p[m]
      OBVIOUS
    <2> QED BY <1>2, <1>3, <1>4, <1>6, <1>16, <1>25, <2>1, PieceRead
  <1>27. x3.sps = WithFlag(x.sps, p) /\ Reads(VclRow, s, x2, x3, VclRow, p)
    BY <1>23, <1>26, Zenon DEF ReadsTo, WithFlag
  <1>28. Reads(BeforeHrds \o NalIf \o VclRow, s, x, x3, c3, p)
    BY <1>24, <1>27, ReadsBoth
  <1>29. x3 \in States(s) /\ x3.pos = x.pos + l3
    BY <1>28, Zenon DEF Reads
  <1>30. \A m \in VclFlag : x3.sps[m] = pv[m]
    BY <1>7, <1>27, FlagsThere DEF VclFlag, WithFlag, Told
  <1>31. PICK x4 : ReadsTo(VclIf, s, x3, x4, vclIf, p, pv)
    BY <1>2, <1>3, <1>4, <1>5, <1>15, <1>29, <1>30, HrdIfGrammar, PieceRead
  <1>32. x4.sps = WithVcl(x.sps, p) /\ Reads(VclIf, s, x3, x4, vclIf, p)
    BY <1>27, <1>31, Zenon DEF ReadsTo, WithVcl, pv
  <1>33. Reads(BeforeHrds \o NalIf \o VclRow \o VclIf, s, x, x4, c4, p)
    BY <1>28, <1>32, ReadsBoth
  <1>34. x4 \in States(s) /\ x4.pos = x.pos + l4
    BY <1>33, Zenon DEF Reads
  <1>35. \A m \in NalFlag \cup VclFlag : x4.sps[m] = p[m]
    <2>1. \A m \in NalFlag \cup VclFlag : m \in Members /\ m \notin HrdMembers
      BY FlagsThere, HrdIfGrammar DEF NalFlag, VclFlag
    <2>2. \A m \in NalFlag \cup VclFlag : x4.sps[m] = x3.sps[m]
      <3>1. \A m \in Present(VclIf, HrdOf(p, Vcl)) : m \in HrdMembers
        BY <1>3, HrdIfGrammar, PresentIsMember DEF Grammar
      <3> QED BY <1>27, <1>32, <2>1, <3>1 DEF WithVcl, Told
    <2>3. \A m \in VclFlag : x3.sps[m] = p[m]
      BY <1>27, FlagsThere DEF VclFlag, WithFlag, Told
    <2>4. \A m \in NalFlag : x3.sps[m] = p[m]
      <3>1. \A m \in NalFlag : x1.sps[m] = p[m]
        BY <1>19, FlagsThere DEF NalFlag, Before, Told
      <3>2. \A m \in NalFlag : x2.sps[m] = x1.sps[m]
        <4>1. \A m \in Present(NalIf, HrdOf(p, Nal)) : m \in HrdMembers
          BY <1>3, HrdIfGrammar, PresentIsMember DEF Grammar
        <4> QED BY <1>19, <1>23, <2>1, <4>1 DEF WithNal, Told
      <3> QED BY <1>23, <1>27, <2>1, <3>1, <3>2 DEF WithFlag, Told
    <2> QED BY <2>2, <2>3, <2>4
  <1>36. PICK y : ReadsTo(AfterHrds, s, x4, y, AfterHrds, p, p)
    <2>1. NalFlag \cup VclFlag \subseteq Members
      BY HrdIfGrammar
    <2> QED BY <1>2, <1>3, <1>4, <1>6, <1>14, <1>34, <1>35, <2>1, PieceRead
  <1>37. y.sps = AfterVui(x.sps, p) /\ Reads(AfterHrds, s, x4, y, AfterHrds, p)
    BY <1>32, <1>36, Zenon DEF ReadsTo, AfterVui
  <1>38. Reads(BeforeHrds \o NalIf \o VclRow \o VclIf \o AfterHrds, s, x, y, c4 \o AfterHrds, p)
    BY <1>33, <1>37, ReadsBoth
  <1> QED BY <1>8, <1>37, <1>38, Zenon

\* The bits of a parameter set, with its VUI, by the code's syntax of the
\* profiles, and the bytes.
SpsBits(p) == SpecBits(read_seq_parameter_set \o If("vui_parameters_present_flag", {1}, VuiSyntax), p)

CodedSps(p) ==
    BytesOf(write_rbsp_trailing_bits(
        Coded(read_seq_parameter_set \o If("vui_parameters_present_flag", {1}, VuiSyntax),
              p, ExpGolomb, SignedExpGolomb)))

\* What is told by values that are in a set.
LEMMA FitsOfMembers ==
    ASSUME NEW t, IsTable(t), NEW p,
           \A i \in DOMAIN t : \A m \in ToSet(t[i].names) : p[m] \in ValuesOf(t[i].code)
    PROVE  Fits(t, p)
  <1>1. DOMAIN t = 1 .. Len(t)
    BY TableRows
  <1>2. ASSUME NEW i \in 1 .. Len(t)
        PROVE  FitsRow(t[i], p)
    <2>1. ASSUME NEW k \in DOMAIN t[i].names
          PROVE  t[i].names[k] \in ToSet(t[i].names)
      BY DEF ToSet
    <2> QED BY <1>1, <2>1 DEF FitsRow
  <1> QED BY <1>2 DEF Fits

\* The same of narrow values.
LEMMA NarrowOfMembers ==
    ASSUME NEW t, IsTable(t), NEW p,
           \A i \in DOMAIN t : t[i].code \in {UE, SE} => \A m \in ToSet(t[i].names) : p[m] \in Narrow
    PROVE  NarrowTable(t, p)
  <1>1. DOMAIN t = 1 .. Len(t)
    BY TableRows
  <1>2. ASSUME NEW i \in 1 .. Len(t)
        PROVE  NarrowRow(t[i], p)
    <2>1. ASSUME NEW k \in DOMAIN t[i].names
          PROVE  t[i].names[k] \in ToSet(t[i].names)
      BY DEF ToSet
    <2> QED BY <1>1, <2>1 DEF NarrowRow
  <1> QED BY <1>2 DEF NarrowTable

\* The tables of H.264 are tables.
LEMMA SyntaxTables == IsTable(read_seq_parameter_set) /\ IsTable(VuiSyntax)
  BY SeqTable, VuisAre, HrdSyntaxTable, VuiHalf

\* Parameters fit their codes.
LEMMA ParametersFit ==
    ASSUME NEW p, IsParameters(p)
    PROVE  /\ Fits(read_seq_parameter_set, p) /\ Fits(VuiSyntax, p)
           /\ DOMAIN p = MembersOf(read_seq_parameter_set) \cup MembersOf(VuiSyntax)
           /\ p["reserved_zero_2bits"] = 0
           /\ IsNarrow(p) => NarrowTable(read_seq_parameter_set, p) /\ NarrowTable(VuiSyntax, p)
  <1>1. \A t \in {read_seq_parameter_set, VuiSyntax} : \A i \in DOMAIN t :
           \A m \in ToSet(t[i].names) : p[m] \in ValuesOf(t[i].code)
    <2>1. \A t \in {SpsSyntax, VuiSyntax} : \A i \in DOMAIN t :
             \A m \in ToSet(t[i].names) : p[m] \in ValuesOf(t[i].code)
      BY Zenon DEF IsParameters
    <2>2. \A i \in DOMAIN SpsSyntax : \A m \in ToSet(SpsSyntax[i].names) :
             p[m] \in ValuesOf(SpsSyntax[i].code)
      BY <2>1, Zenon
    <2>3. \A i \in DOMAIN read_seq_parameter_set :
             \A m \in ToSet(read_seq_parameter_set[i].names) :
                p[m] \in ValuesOf(read_seq_parameter_set[i].code)
      BY <2>2, SameRows, Zenon
    <2> QED BY <2>1, <2>3, Zenon
  <1>2. Fits(read_seq_parameter_set, p)
    <2>1. \A i \in DOMAIN read_seq_parameter_set : \A m \in ToSet(read_seq_parameter_set[i].names) :
             p[m] \in ValuesOf(read_seq_parameter_set[i].code)
      BY <1>1, Zenon
    <2> QED BY <2>1, SyntaxTables, FitsOfMembers
  <1>3. Fits(VuiSyntax, p)
    <2>1. \A i \in DOMAIN VuiSyntax : \A m \in ToSet(VuiSyntax[i].names) :
             p[m] \in ValuesOf(VuiSyntax[i].code)
      BY <1>1, Zenon
    <2> QED BY <2>1, SyntaxTables, FitsOfMembers
  <1>4. ASSUME IsNarrow(p)
        PROVE  NarrowTable(read_seq_parameter_set, p) /\ NarrowTable(VuiSyntax, p)
    <2>1. \A t \in {SpsSyntax, VuiSyntax} : \A i \in DOMAIN t :
             t[i].code \in {UE, SE} => \A m \in ToSet(t[i].names) : p[m] \in Narrow
      BY <1>4, Zenon DEF IsNarrow
    <2>2. \A i \in DOMAIN read_seq_parameter_set : read_seq_parameter_set[i].code \in {UE, SE} =>
             \A m \in ToSet(read_seq_parameter_set[i].names) : p[m] \in Narrow
      <3>1. \A i \in DOMAIN SpsSyntax : SpsSyntax[i].code \in {UE, SE} =>
               \A m \in ToSet(SpsSyntax[i].names) : p[m] \in Narrow
        BY <2>1, Zenon
      <3> QED BY <3>1, SameRows, Zenon
    <2>3. \A i \in DOMAIN VuiSyntax : VuiSyntax[i].code \in {UE, SE} =>
             \A m \in ToSet(VuiSyntax[i].names) : p[m] \in Narrow
      BY <2>1, Zenon
    <2> QED BY <2>2, <2>3, SyntaxTables, NarrowOfMembers
  <1>5. DOMAIN p = MembersOf(read_seq_parameter_set) \cup MembersOf(VuiSyntax) /\ p["reserved_zero_2bits"] = 0
    <2>1. DOMAIN p = MembersOf(SpsSyntax) \cup MembersOf(VuiSyntax) /\ p["reserved_zero_2bits"] = 0
      BY Zenon DEF IsParameters
    <2> QED BY <2>1, SameRows, Zenon
  <1> QED BY <1>2, <1>3, <1>4, <1>5

\* Every value fits its code.
AllFit(p) == Fits(read_seq_parameter_set, p) /\ Fits(VuiSyntax, p)

\* Those of parameters do.
LEMMA ParametersAllFit == ASSUME NEW p, IsParameters(p) PROVE AllFit(p)
  BY ParametersFit DEF AllFit

\* Under a condition a table has the same codes.
LEMMA CodingIf ==
    ASSUME NEW t, NEW p, Coding(t, p), NEW name, NEW values
    PROVE  Coding(If(name, values, t), p)
  <1>1. IsTable(t)
    BY DEF Coding
  <1>2. PICK n \in Nat : n = Len(t)
    BY <1>1, TableRows
  <1>3. PICK u : u = If(name, values, t)
    OBVIOUS
  <1>4. AreUnder(u, t, n, name, values)
    BY <1>1, <1>2, <1>3, RowsOfIf
  <1>5. \A i \in 1 .. Len(u) : u[i].code \in TableCodes
    BY <1>2, <1>4 DEF AreUnder, Coding
  <1>6. IsTable(u)
    BY <1>4 DEF AreUnder
  <1>7. Fits(u, p)
    BY <1>1, <1>3, FitsIf DEF Coding
  <1> QED BY <1>3, <1>5, <1>6, <1>7, Zenon DEF Coding

\* A VUI has the codes of H.264.
LEMMA VuiCoding ==
    ASSUME NEW p, Fits(VuiSyntax, p)
    PROVE  Coding(VuiSyntax, p)
  <1> DEFINE nalIf == If("nal_hrd_present_flag", {1}, HrdSyntax(Nal))
             vclIf == If("vcl_hrd_present_flag", {1}, HrdSyntax(Vcl))
             flag == U(1, <<"vcl_hrd_present_flag">>)
  <1>1. IsTable(HrdSyntax(Nal)) /\ IsTable(HrdSyntax(Vcl))
    BY HrdSyntaxTable
  <1>2. VuiFits(HrdSyntax(Nal), HrdSyntax(Vcl), p)
    BY <1>1, VuiOfParts, VuisAre
  <1>3. Coding(BeforeHrds, p) /\ Coding(flag, p) /\ Coding(AfterHrds, p)
    BY <1>2, BeforeGrammar, VclGrammar, AfterGrammar, GrammarCodes DEF VuiFits
  <1>4. ASSUME NEW hrd, Fits(HrdSyntax(hrd), p)
        PROVE  Coding(HrdSyntax(hrd), p)
    <2>1. PICK q : q = [x \in HrdMembers |-> p[hrd[x]]]
      OBVIOUS
    <2>2. Mirrors(HrdSyntax(hrd), p, read_hrd_parameters, q)
      BY <2>1, HrdMirrors
    <2> QED BY <1>4, <2>2, HrdGrammar, MirrorCoding
  <1>5. Coding(nalIf, p) /\ Coding(vclIf, p)
    BY <1>2, <1>4, CodingIf DEF VuiFits
  <1>6. VuiSyntax = BeforeHrds \o nalIf \o flag \o vclIf \o AfterHrds
    BY VuisAre, Zenon DEF VuiWith, ToHrds, ToVcl
  <1> HIDE DEF nalIf, vclIf, flag
  <1>7. /\ IsTable(BeforeHrds) /\ IsTable(nalIf) /\ IsTable(flag) /\ IsTable(vclIf)
        /\ IsTable(AfterHrds)
    BY <1>3, <1>5, Zenon DEF Coding
  <1>8. IsTable(BeforeHrds \o nalIf) /\ Coding(BeforeHrds \o nalIf, p)
    BY <1>3, <1>5, <1>7, CodingBoth, RowsBehind
  <1>9. IsTable(BeforeHrds \o nalIf \o flag) /\ Coding(BeforeHrds \o nalIf \o flag, p)
    BY <1>3, <1>7, <1>8, CodingBoth, RowsBehind
  <1>10. IsTable(BeforeHrds \o nalIf \o flag \o vclIf) /\ Coding(BeforeHrds \o nalIf \o flag \o vclIf, p)
    BY <1>5, <1>7, <1>9, CodingBoth, RowsBehind
  <1> QED BY <1>3, <1>6, <1>7, <1>10, CodingBoth

\* The bits of a parameter set, by whether there is a VUI.
LEMMA SpsBitsAre ==
    ASSUME NEW p, AllFit(p), NEW s \in Seq(Bits), NEW pos, Carries(s, pos, SpsBits(p))
    PROVE  /\ Carries(s, pos, SpecBits(read_seq_parameter_set, p))
           /\ p["vui_parameters_present_flag"] = 1 =>
                 Carries(s, pos + Len(SpecBits(read_seq_parameter_set, p)), SpecBits(VuiSyntax, p))
  <1> DEFINE vui == If("vui_parameters_present_flag", {1}, VuiSyntax)
  <1>1. IsTable(VuiSyntax)
    BY SyntaxTables
  <1>2. Coding(read_seq_parameter_set, p)
    BY SeqGrammar, GrammarCodes DEF AllFit
  <1>3. Coding(vui, p)
    BY VuiCoding, CodingIf DEF AllFit
  <1> HIDE DEF vui
  <1>4. Carries(s, pos, SpecBits(read_seq_parameter_set \o vui, p))
    BY Zenon DEF SpsBits, vui
  <1>5. /\ Carries(s, pos, SpecBits(read_seq_parameter_set, p))
        /\ Carries(s, pos + Len(SpecBits(read_seq_parameter_set, p)), SpecBits(vui, p))
    BY <1>2, <1>3, <1>4, CarriesTables
  <1>6. ASSUME p["vui_parameters_present_flag"] = 1
        PROVE  SpecBits(vui, p) = SpecBits(VuiSyntax, p)
    <2>1. Mirrors(vui, p, VuiSyntax, p)
      <3>1. p["vui_parameters_present_flag"] \in {1}
        BY <1>6
      <3> QED BY <1>1, <3>1, MirrorsWithout DEF vui
    <2> QED BY <2>1, MirroredTable
  <1> QED BY <1>5, <1>6

\* A parameter set is read as its parameters, and no HRD of it is lost but the first
\* of two.
ToldBy(r, p) ==
    /\ r \in [Members -> Int] /\ r["zero"] = 0
    /\ \A t \in {read_seq_parameter_set, BeforeHrds, VclRow, AfterHrds} :
          \A m \in Present(t, p) : r[m] = p[m]
    /\ p["vcl_hrd_present_flag"] = 1 =>
          \A m \in Present(read_hrd_parameters, HrdOf(p, Vcl)) : r[m] = HrdOf(p, Vcl)[m]
    /\ p["nal_hrd_present_flag"] = 1 /\ p["vcl_hrd_present_flag"] # 1 =>
          \A m \in Present(read_hrd_parameters, HrdOf(p, Nal)) : r[m] = HrdOf(p, Nal)[m]

\* What is read of a parameter set before its VUI, and with it.
BeforeVui(p) == Told(NoSps, p, Present(read_seq_parameter_set, p))

\* ReadSps reads the parameters of a parameter set.
LEMMA ReadSpsIs ==
    ASSUME NEW p, AllFit(p), NEW bytes \in Seq(Bytes), Carries(BitsOf(bytes), 0, SpsBits(p))
    PROVE  ReadSps(bytes) = IF p["vui_parameters_present_flag"] = 1 THEN AfterVui(BeforeVui(p), p)
                            ELSE BeforeVui(p)
  <1>1. PICK s \in Seq(Bits) : s = BitsOf(bytes)
    BY BitsTyped
  <1>2. PICK x : x = [sps |-> NoSps, pos |-> 0]
    OBVIOUS
  <1>3. x \in States(s) /\ x.pos = 0 /\ x.sps = NoSps
    <2>1. NoSps \in [Members -> Int]
      BY DEF NoSps
    <2>2. 0 \in 0 .. Len(s)
      OBVIOUS
    <2> QED BY <1>2, <2>1, <2>2 DEF States
  <1>4. Carries(s, x.pos, SpecBits(read_seq_parameter_set, p))
    BY <1>1, <1>3, SpsBitsAre
  <1>5. PICK y : ReadsTo(read_seq_parameter_set, s, x, y, read_seq_parameter_set, p, p)
    <2>1. Mirrors(read_seq_parameter_set, p, read_seq_parameter_set, p)
      BY SyntaxTables, MirrorsItself
    <2>2. {} \subseteq Members /\ \A m \in {} : x.sps[m] = p[m]
      OBVIOUS
    <2>3. Fits(read_seq_parameter_set, p)
      BY DEF AllFit
    <2>4. MembersOf(read_seq_parameter_set) \subseteq Members
      BY TablesInMembers
    <2> QED BY <1>3, <1>4, <2>1, <2>2, <2>3, <2>4, SeqGrammar, PieceRead
  <1>6. y.sps = BeforeVui(p) /\ Reads(read_seq_parameter_set, s, x, y, read_seq_parameter_set, p)
    BY <1>3, <1>5, Zenon DEF ReadsTo, BeforeVui
  <1>7. y \in States(s) /\ ReadTable(read_seq_parameter_set, s, x) = y
    BY <1>6, Zenon DEF Reads
  <1>8. y.pos = 0 + Len(SpecBits(read_seq_parameter_set, p))
    BY <1>3, <1>6, Zenon DEF Reads
  <1>9. y.sps["vui_parameters_present_flag"] = p["vui_parameters_present_flag"]
    BY <1>6, FlagsThere DEF BeforeVui, Told
  <1>10. ReadSps(bytes) = IF p["vui_parameters_present_flag"] = 1
                          THEN ReadTable(read_vui_parameters, s, y).sps ELSE y.sps
    BY <1>1, <1>2, <1>7, <1>9, Zenon DEF ReadSps
  <1>11. CASE p["vui_parameters_present_flag"] = 1
    <2>1. Carries(s, y.pos, SpecBits(VuiSyntax, p))
      BY <1>1, <1>8, <1>11, SpsBitsAre
    <2>2. Fits(VuiSyntax, p)
      BY DEF AllFit
    <2>3. PICK z : Reads(read_vui_parameters, s, y, z, VuiSyntax, p) /\ z.sps = AfterVui(y.sps, p)
      BY <1>7, <2>1, <2>2, VuiRead
    <2>4. ReadTable(read_vui_parameters, s, y) = z
      BY <2>3, Zenon DEF Reads
    <2> QED BY <1>6, <1>10, <1>11, <2>3, <2>4
  <1>12. CASE p["vui_parameters_present_flag"] # 1
    BY <1>6, <1>10, <1>12
  <1> QED BY <1>11, <1>12

\* What is there under a condition.
LEMMA PresentOfIf ==
    ASSUME NEW t, IsTable(t), NEW name, NEW values, NEW p, p[name] \in values
    PROVE  Present(If(name, values, t), p) = Present(t, p)
  <1>1. PICK n \in Nat : n = Len(t)
    BY TableRows
  <1>2. PICK u : u = If(name, values, t)
    OBVIOUS
  <1>3. AreUnder(u, t, n, name, values)
    BY <1>1, <1>2, RowsOfIf
  <1>4. /\ Len(u) = n /\ \A i \in 1 .. n : u[i].names = t[i].names
        /\ \A i \in 1 .. n : u[i].when = t[i].when \cup {<<name, values>>}
    BY <1>3 DEF AreUnder
  <1>5. \A i \in 1 .. n : IsPresent(u[i], p) <=> IsPresent(t[i], p)
    BY <1>4, PresentUnder, ZenonT(40)
  <1>6. \A m : m \in Present(u, p) <=> m \in Present(t, p)
    <2>1. \A m : m \in Present(u, p)
             <=> m \in Members /\ \E i \in 1 .. n : IsPresent(u[i], p) /\ m \in ToSet(u[i].names)
      BY <1>4, Zenon DEF Present, PresentUpTo
    <2>2. \A m : m \in Present(t, p)
             <=> m \in Members /\ \E i \in 1 .. n : IsPresent(t[i], p) /\ m \in ToSet(t[i].names)
      BY <1>1, Zenon DEF Present, PresentUpTo
    <2>3. \A m : \A i \in 1 .. n : IsPresent(u[i], p) /\ m \in ToSet(u[i].names)
                                      <=> IsPresent(t[i], p) /\ m \in ToSet(t[i].names)
      BY <1>4, <1>5, Zenon
    <2> QED BY <2>1, <2>2, <2>3, Zenon
  <1> QED BY <1>2, <1>6

\* What is there is not of the names that a table avoids.
LEMMA PresentAvoids ==
    ASSUME NEW t, NEW K, NEW L, NEW N, Grammar(t, K, L, N), NEW p, NEW m \in Present(t, p)
    PROVE  m \notin N /\ m \in Members /\ m \in MembersOf(t)
  <1>1. PICK i \in 1 .. Len(t) : m \in ToSet(t[i].names)
    BY Zenon DEF Present, PresentUpTo
  <1>2. m \notin N
    BY <1>1, Zenon DEF Grammar, GoodRow
  <1>3. IsTable(t)
    BY DEF Grammar
  <1> QED BY <1>2, <1>3, PresentIsMember

\* The members that are told one after the other.
LEMMA ToldLast ==
    ASSUME NEW sps, NEW p, NEW P, NEW m \in Members
    PROVE  /\ m \in P => Told(sps, p, P)[m] = p[m]
           /\ m \notin P => Told(sps, p, P)[m] = sps[m]
  BY DEF Told

\* What is read of the tables without HRDs.
LEMMA PlainTold ==
    ASSUME NEW p, NEW r, r = AfterVui(BeforeVui(p), p), NEW m,
           m \in Present(read_seq_parameter_set, p) \/ m \in Present(BeforeHrds, p)
           \/ m \in Present(VclRow, p) \/ m \in Present(AfterHrds, p)
    PROVE  r[m] = p[m]
  <1> DEFINE pn == HrdOf(p, Nal)
             pv == HrdOf(p, Vcl)
  <1>1. /\ Grammar(read_seq_parameter_set, {}, VuiFlag, HrdNames)
        /\ Grammar(BeforeHrds, {}, NalFlag, VuiApart) /\ Grammar(VclRow, {}, VclFlag, VuiApart)
        /\ Grammar(AfterHrds, NalFlag \cup VclFlag, {}, VuiApart)
    BY SeqGrammar, BeforeGrammar, VclGrammar, AfterGrammar DEF VclRow
  <1>2. m \notin HrdNames /\ m \in Members
    <2>1. \A x : x \notin VuiApart => x \notin HrdNames
      BY DEF VuiApart
    <2> QED BY <1>1, <2>1, PresentAvoids
  <1>3. m \notin HrdMembers
    BY <1>2 DEF HrdNames, HrdMembers
  <1>4. m \notin Present(NalIf, pn) /\ m \notin Present(VclIf, pv)
    <2>1. IsTable(NalIf) /\ IsTable(VclIf)
      BY HrdIfGrammar DEF Grammar
    <2> QED BY <1>3, <2>1, HrdIfGrammar, PresentIsMember
  <1>5. PICK x0 : x0 = BeforeVui(p)
    OBVIOUS
  <1>6. PICK x1 : x1 = Before(x0, p)
    OBVIOUS
  <1>7. PICK x2 : x2 = WithNal(x0, p)
    OBVIOUS
  <1>8. PICK x3 : x3 = WithFlag(x0, p)
    OBVIOUS
  <1>9. PICK x4 : x4 = WithVcl(x0, p)
    OBVIOUS
  <1>10. /\ x0 = Told(NoSps, p, Present(read_seq_parameter_set, p))
         /\ x1 = Told(x0, p, Present(BeforeHrds, p))
         /\ x2 = Told(x1, pn, Present(NalIf, pn))
         /\ x3 = Told(x2, p, Present(VclRow, p))
         /\ x4 = Told(x3, pv, Present(VclIf, pv))
         /\ r = Told(x4, p, Present(AfterHrds, p))
    BY <1>5, <1>6, <1>7, <1>8, <1>9, Zenon DEF BeforeVui, Before, WithNal, WithFlag, WithVcl, AfterVui
  <1>11. m \in Present(read_seq_parameter_set, p) => x0[m] = p[m]
    BY <1>2, <1>10, ToldLast
  <1>12. m \in Present(BeforeHrds, p) \/ x0[m] = p[m] => x1[m] = p[m]
    BY <1>2, <1>10, ToldLast
  <1>13. x2[m] = x1[m] /\ x4[m] = x3[m]
    BY <1>2, <1>4, <1>10, ToldLast
  <1>14. m \in Present(VclRow, p) \/ x2[m] = p[m] => x3[m] = p[m]
    BY <1>2, <1>10, ToldLast
  <1>15. m \in Present(AfterHrds, p) \/ x4[m] = p[m] => r[m] = p[m]
    BY <1>2, <1>10, ToldLast
  <1> QED BY <1>11, <1>12, <1>13, <1>14, <1>15

\* What is read of the HRDs: the second of them, when both are there.
LEMMA HrdTold ==
    ASSUME NEW p, NEW r, r = AfterVui(BeforeVui(p), p)
    PROVE  /\ p["vcl_hrd_present_flag"] = 1 =>
                 \A m \in Present(read_hrd_parameters, HrdOf(p, Vcl)) : r[m] = HrdOf(p, Vcl)[m]
           /\ p["nal_hrd_present_flag"] = 1 /\ p["vcl_hrd_present_flag"] # 1 =>
                 \A m \in Present(read_hrd_parameters, HrdOf(p, Nal)) : r[m] = HrdOf(p, Nal)[m]
  <1> DEFINE pn == HrdOf(p, Nal)
             pv == HrdOf(p, Vcl)
             x3 == WithFlag(BeforeVui(p), p)
             x4 == WithVcl(BeforeVui(p), p)
             x2 == WithNal(BeforeVui(p), p)
  <1>1. /\ pn["nal_hrd_present_flag"] = p["nal_hrd_present_flag"]
        /\ pv["vcl_hrd_present_flag"] = p["vcl_hrd_present_flag"]
    BY FlagsThere, HrdIfGrammar DEF HrdOf
  <1>2. ASSUME NEW m \in HrdMembers
        PROVE  m \in Members /\ m \notin Present(AfterHrds, p) /\ m \notin Present(VclRow, p)
    <2>1. m \in VuiApart
      BY <1>2 DEF HrdMembers, HrdNames, VuiApart
    <2>2. m \in Members
      BY <1>2, HrdMembersAre, TablesInMembers DEF VuiMembers
    <2> QED BY <2>1, <2>2, VclGrammar, AfterGrammar, PresentAvoids DEF VclRow
  <1>3. ASSUME NEW q, NEW m \in Present(read_hrd_parameters, q)
        PROVE  m \in HrdMembers
    BY <1>3, HrdTable, PresentIsMember, HrdMembersAre
  <1>4. ASSUME NEW m \in HrdMembers
        PROVE  r[m] = x4[m] /\ x3[m] = x2[m]
    <2>1. r = Told(x4, p, Present(AfterHrds, p)) /\ x3 = Told(x2, p, Present(VclRow, p))
      BY Zenon DEF AfterVui, WithFlag
    <2> QED BY <1>2, <2>1, ToldLast
  <1>5. ASSUME p["vcl_hrd_present_flag"] = 1, NEW m \in Present(read_hrd_parameters, pv)
        PROVE  r[m] = pv[m]
    <2>1. m \in HrdMembers /\ m \in Members
      BY <1>2, <1>3
    <2>2. Present(VclIf, pv) = Present(read_hrd_parameters, pv)
      <3>1. pv["vcl_hrd_present_flag"] \in {1}
        BY <1>1, <1>5
      <3> QED BY <3>1, HrdTable, PresentOfIf DEF VclIf
    <2>3. x4 = Told(x3, pv, Present(VclIf, pv))
      BY Zenon DEF WithVcl
    <2>4. x4[m] = pv[m]
      BY <1>5, <2>1, <2>2, <2>3, ToldLast
    <2> QED BY <1>4, <2>1, <2>4
  <1>6. ASSUME p["nal_hrd_present_flag"] = 1, p["vcl_hrd_present_flag"] # 1,
               NEW m \in Present(read_hrd_parameters, pn)
        PROVE  r[m] = pn[m]
    <2>1. m \in HrdMembers /\ m \in Members
      BY <1>2, <1>3
    <2>2. Present(NalIf, pn) = Present(read_hrd_parameters, pn)
      <3>1. pn["nal_hrd_present_flag"] \in {1}
        BY <1>1, <1>6
      <3> QED BY <3>1, HrdTable, PresentOfIf DEF NalIf
    <2>3. x2 = Told(Before(BeforeVui(p), p), pn, Present(NalIf, pn))
      BY Zenon DEF WithNal
    <2>4. x2[m] = pn[m]
      BY <1>6, <2>1, <2>2, <2>3, ToldLast
    <2>5. m \notin Present(VclIf, pv)
      <3>1. PICK n \in Nat : n = Len(read_hrd_parameters)
        BY HrdTable, TableRows
      <3>2. AreUnder(VclIf, read_hrd_parameters, n, "vcl_hrd_present_flag", {1})
        BY <3>1, HrdTable, RowsOfIf DEF VclIf
      <3>3. pv["vcl_hrd_present_flag"] \notin {1}
        BY <1>1, <1>6
      <3>4. \A i \in 1 .. n : VclIf[i].when
               = read_hrd_parameters[i].when \cup {<<"vcl_hrd_present_flag", {1}>>}
        BY <3>2 DEF AreUnder
      <3>5. ASSUME NEW i \in 1 .. n
            PROVE  ~ IsPresent(VclIf[i], pv)
        <4>1. VclIf[i].when = read_hrd_parameters[i].when \cup {<<"vcl_hrd_present_flag", {1}>>}
          BY <3>4
        <4> HIDE DEF pv
        <4> QED BY <3>3, <4>1, PresentUnder, ZenonT(60)
      <3>6. Len(VclIf) = n
        BY <3>2 DEF AreUnder
      <3> QED BY <3>5, <3>6, Zenon DEF Present, PresentUpTo
    <2>6. x4 = Told(x3, pv, Present(VclIf, pv))
      BY Zenon DEF WithVcl
    <2>7. x4[m] = x3[m]
      BY <2>1, <2>5, <2>6, ToldLast
    <2> QED BY <1>4, <2>1, <2>4, <2>7
  <1> QED BY <1>5, <1>6

\* What a parameter set without a VUI leaves of the members of a VUI is zero, as H.264
\* has it.
LEMMA NoVuiTold ==
    ASSUME NEW p, IsParameters(p), p["vui_parameters_present_flag"] # 1,
           NEW m, m \in Members, m \in MembersOf(VuiSyntax), m \notin VuiApart
    PROVE  BeforeVui(p)[m] = p[m] /\ p[m] = 0
  <1>1. p[m] = 0
    BY Zenon DEF IsParameters
  <1>2. m # "chroma_format_idc"
    BY DEF VuiApart
  <1>3. NoSps[m] = 0
    BY <1>2 DEF NoSps
  <1>4. \/ BeforeVui(p)[m] = p[m]
        \/ BeforeVui(p)[m] = NoSps[m]
    BY ToldLast DEF BeforeVui
  <1> QED BY <1>1, <1>3, <1>4

\* The members of a VUI, by its parts.
LEMMA VuiMembersAre ==
    /\ MembersOf(BeforeHrds) \subseteq MembersOf(VuiSyntax)
    /\ MembersOf(VclRow) \subseteq MembersOf(VuiSyntax)
    /\ MembersOf(AfterHrds) \subseteq MembersOf(VuiSyntax)
    /\ "nal_hrd_present_flag" \in MembersOf(VuiSyntax) /\ "vcl_hrd_present_flag" \in MembersOf(VuiSyntax)
  <1>1. VuiMembers(HrdSyntax(Nal), HrdSyntax(Vcl), MembersOf(VuiSyntax))
    BY VuisAre, HrdSyntaxTable, VuiOfParts
  <1>2. Always(BeforeHrds, "nal_hrd_present_flag") /\ Always(VclRow, "vcl_hrd_present_flag")
    BY BeforeGrammar, VclGrammar DEF Grammar, NalFlag, VclFlag, VclRow
  <1>3. "nal_hrd_present_flag" \in MembersOf(BeforeHrds) /\ "vcl_hrd_present_flag" \in MembersOf(VclRow)
    BY <1>2, BeforeGrammar, VclGrammar, AlwaysThere DEF Grammar, VclRow
  <1> QED BY <1>1, <1>3 DEF VuiMembers, VclRow

\* ReadSps reads what a parameter set tells.
LEMMA ReadSpsTold ==
    ASSUME NEW p, IsParameters(p), NEW bytes \in Seq(Bytes), Carries(BitsOf(bytes), 0, SpsBits(p))
    PROVE  ToldBy(ReadSps(bytes), p)
  <1>1. PICK r : r = ReadSps(bytes)
    OBVIOUS
  <1>2. r \in [Members -> Int]
    BY <1>1, ReadSpsTyped
  <1>3. /\ Grammar(read_seq_parameter_set, {}, VuiFlag, HrdNames)
        /\ Grammar(BeforeHrds, {}, NalFlag, VuiApart) /\ Grammar(VclRow, {}, VclFlag, VuiApart)
        /\ Grammar(AfterHrds, NalFlag \cup VclFlag, {}, VuiApart)
    BY SeqGrammar, BeforeGrammar, VclGrammar, AfterGrammar DEF VclRow
  <1>4. "zero" \in Members /\ NoSps["zero"] = 0
    <2>1. "zero" \in Members
      BY DEF Members
    <2> QED BY <2>1 DEF NoSps
  <1>5. /\ "zero" \notin Present(read_seq_parameter_set, p) /\ "zero" \notin Present(BeforeHrds, p)
        /\ "zero" \notin Present(VclRow, p) /\ "zero" \notin Present(AfterHrds, p)
    <2>1. "zero" \in HrdNames /\ "zero" \in VuiApart
      BY DEF HrdNames, VuiApart
    <2> QED BY <1>3, <2>1, PresentAvoids
  <1>6. CASE p["vui_parameters_present_flag"] = 1
    <2>1. r = AfterVui(BeforeVui(p), p)
      BY <1>1, <1>6, ParametersAllFit, ReadSpsIs
    <2>2. \A t \in {read_seq_parameter_set, BeforeHrds, VclRow, AfterHrds} :
             \A m \in Present(t, p) : r[m] = p[m]
      BY <2>1, PlainTold
    <2>3. r["zero"] = 0
      <3> DEFINE x0 == BeforeVui(p)
                 pn == HrdOf(p, Nal)
                 pv == HrdOf(p, Vcl)
      <3>1. "zero" \notin HrdMembers
        BY DEF HrdMembers
      <3>2. "zero" \notin Present(NalIf, pn) /\ "zero" \notin Present(VclIf, pv)
        <4>1. IsTable(NalIf) /\ IsTable(VclIf)
          BY HrdIfGrammar DEF Grammar
        <4> QED BY <3>1, <4>1, HrdIfGrammar, PresentIsMember
      <3>3. /\ x0 = Told(NoSps, p, Present(read_seq_parameter_set, p))
            /\ Before(x0, p) = Told(x0, p, Present(BeforeHrds, p))
            /\ WithNal(x0, p) = Told(Before(x0, p), pn, Present(NalIf, pn))
            /\ WithFlag(x0, p) = Told(WithNal(x0, p), p, Present(VclRow, p))
            /\ WithVcl(x0, p) = Told(WithFlag(x0, p), pv, Present(VclIf, pv))
            /\ r = Told(WithVcl(x0, p), p, Present(AfterHrds, p))
        BY <2>1, Zenon DEF BeforeVui, Before, WithNal, WithFlag, WithVcl, AfterVui
      <3> HIDE DEF x0, pn, pv
      <3> QED BY <1>4, <1>5, <3>2, <3>3, ToldLast
    <2>4. /\ p["vcl_hrd_present_flag"] = 1 =>
                \A m \in Present(read_hrd_parameters, HrdOf(p, Vcl)) : r[m] = HrdOf(p, Vcl)[m]
          /\ p["nal_hrd_present_flag"] = 1 /\ p["vcl_hrd_present_flag"] # 1 =>
                \A m \in Present(read_hrd_parameters, HrdOf(p, Nal)) : r[m] = HrdOf(p, Nal)[m]
      BY <2>1, HrdTold
    <2> QED BY <1>1, <1>2, <2>2, <2>3, <2>4, Zenon DEF ToldBy
  <1>7. CASE p["vui_parameters_present_flag"] # 1
    <2>1. r = BeforeVui(p)
      BY <1>1, <1>7, ParametersAllFit, ReadSpsIs
    <2>2. \A m \in Present(read_seq_parameter_set, p) : r[m] = p[m]
      BY <1>3, <2>1, PresentAvoids, ToldLast DEF BeforeVui
    <2>3. ASSUME NEW t \in {BeforeHrds, VclRow, AfterHrds}, NEW m \in Present(t, p)
          PROVE  r[m] = p[m]
      <3>1. m \notin VuiApart /\ m \in Members /\ m \in MembersOf(t)
        BY <1>3, <2>3, PresentAvoids
      <3>2. m \in MembersOf(VuiSyntax)
        BY <3>1, VuiMembersAre
      <3> QED BY <1>7, <2>1, <3>1, <3>2, NoVuiTold
    <2>4. p["nal_hrd_present_flag"] = 0 /\ p["vcl_hrd_present_flag"] = 0
      <3>1. \A m \in MembersOf(VuiSyntax) : p[m] = 0
        BY <1>7, Zenon DEF IsParameters
      <3> QED BY <3>1, VuiMembersAre
    <2>5. r["zero"] = 0
      BY <1>4, <1>5, <2>1, ToldLast DEF BeforeVui
    <2>6. p["nal_hrd_present_flag"] # 1 /\ p["vcl_hrd_present_flag"] # 1
      BY <2>4
    <2>7. \A t \in {read_seq_parameter_set, BeforeHrds, VclRow, AfterHrds} :
             \A m \in Present(t, p) : r[m] = p[m]
      BY <2>2, <2>3
    <2> QED BY <1>1, <1>2, <2>5, <2>6, <2>7, Zenon DEF ToldBy
  <1> QED BY <1>6, <1>7

-----------------------------------------------------------------------------
(* What is written of a parameter set *)

\* The colours of a matrix are told by these members, and a VUI is there then if
\* the matrix is one of the six.
LEMMA ColoursTold ==
    ASSUME NEW matrix \in Nat
    PROVE  /\ DOMAIN ColourOf(matrix) = ColourNames
           /\ matrix \in ColourMatrices => ColourOf(matrix)["vui_parameters_present_flag"] = 1
           /\ matrix \notin ColourMatrices => ColourOf(matrix)["vui_parameters_present_flag"] = 0
  <1>1. \A range, primaries, transfer, m :
           /\ DOMAIN Description(range, primaries, transfer, m) = ColourNames
           /\ Description(range, primaries, transfer, m)["vui_parameters_present_flag"] = 1
    BY DEF Description, ColourNames
  <1>2. CASE matrix \in ColourMatrices
    <2>1. \/ ColourOf(matrix) = Description(0, 5, 6, 5) \/ ColourOf(matrix) = Description(1, 5, 6, 5)
          \/ ColourOf(matrix) = Description(1, 5, 8, 5) \/ ColourOf(matrix) = Description(0, 1, 1, 1)
          \/ ColourOf(matrix) = Description(1, 1, 1, 1)
      BY <1>2 DEF ColourOf, ColourMatrices, BT601_LIMITED, BT601_FULL, BT601_FULL_YCbCr, BT709_LIMITED,
             BT709_FULL, BT709_ALT1_LIMITED
    <2> QED BY <1>1, <1>2, <2>1
  <1>3. CASE matrix \notin ColourMatrices
    <2>1. /\ matrix # BT601_LIMITED /\ matrix # BT601_FULL /\ matrix # BT601_FULL_YCbCr
          /\ matrix # BT709_LIMITED /\ matrix # BT709_FULL /\ matrix # BT709_ALT1_LIMITED
      BY <1>3 DEF ColourMatrices, BT601_LIMITED, BT601_FULL, BT601_FULL_YCbCr, BT709_LIMITED,
             BT709_FULL, BT709_ALT1_LIMITED
    <2>2. ColourOf(matrix) = [Description(1, 1, 1, 1) EXCEPT !.vui_parameters_present_flag = 0]
      BY <2>1, Zenon DEF ColourOf
    <2>3. /\ DOMAIN [Description(1, 1, 1, 1) EXCEPT !.vui_parameters_present_flag = 0] = ColourNames
          /\ [Description(1, 1, 1, 1) EXCEPT !.vui_parameters_present_flag = 0]["vui_parameters_present_flag"] = 0
      BY DEF Description, ColourNames
    <2> QED BY <1>3, <2>2, <2>3
  <1> QED BY <1>2, <1>3

\* The names of the HRDs.
LEMMA HrdNamesAre ==
    /\ DOMAIN Nal = HrdMembers /\ DOMAIN Vcl = HrdMembers
    /\ \A x \in HrdMembers : Nal[x] \in HrdNames /\ Vcl[x] \in HrdNames /\ x \in HrdNames
    /\ \A x \in HrdMembers : \A y \in HrdMembers : Nal[x] = Nal[y] => x = y
    /\ \A x \in HrdMembers : \A y \in HrdMembers : Nal[x] # Vcl[y]
    /\ \A x \in HrdNames : x \notin ColourNames
  <1>1. DOMAIN Nal = HrdMembers /\ DOMAIN Vcl = HrdMembers
    BY DEF Nal, Vcl, HrdMembers
  <1>2. \A x \in HrdMembers : Nal[x] \in HrdNames
    BY DEF Nal, HrdMembers, HrdNames
  <1>3. \A x \in HrdMembers : Vcl[x] \in HrdNames
    BY DEF Vcl, HrdMembers, HrdNames
  <1>4. \A x \in HrdMembers : x \in HrdNames
    BY DEF HrdMembers, HrdNames
  <1>5. \A x \in HrdMembers : \A y \in HrdMembers : Nal[x] = Nal[y] => x = y
    BY DEF Nal, HrdMembers
  <1>6. \A x \in HrdMembers : \A y \in HrdMembers : Nal[x] # Vcl[y]
    BY DEF Nal, Vcl, HrdMembers
  <1>7. \A x \in HrdNames : x \notin ColourNames
    BY DEF HrdNames, ColourNames
  <1> QED BY <1>1, <1>2, <1>3, <1>4, <1>5, <1>6, <1>7

\* Both HRDs are there.
OneHrd(p) == p["nal_hrd_present_flag"] = 1 /\ p["vcl_hrd_present_flag"] = 1

\* What is carried over: the colours of the setting, and one HRD for both.
LEMMA CarriedIs ==
    ASSUME NEW p, IsParameters(p), NEW matrix \in Nat, NEW e, e = Carried(p, matrix)
    PROVE  /\ DOMAIN e = DOMAIN p
           /\ \A m \in DOMAIN p : m \in ColourNames => e[m] = ColourOf(matrix)[m]
           /\ \A m \in DOMAIN p : m \notin ColourNames /\ m \notin HrdNames => e[m] = p[m]
           /\ \A x \in HrdMembers : e[Vcl[x]] = p[Vcl[x]]
           /\ \A x \in HrdMembers : e[Nal[x]] = IF OneHrd(p) THEN p[Vcl[x]] ELSE p[Nal[x]]
  <1>1. DOMAIN ColourOf(matrix) = ColourNames
    BY ColoursTold
  <1>2. PICK shared : shared = Shared(p)
    OBVIOUS
  <1>3. e = [m \in DOMAIN shared |-> IF m \in ColourNames THEN ColourOf(matrix)[m] ELSE shared[m]]
    BY <1>1, <1>2 DEF Carried, WithColours
  <1>4. \A x \in HrdMembers : Nal[x] \in DOMAIN p /\ Vcl[x] \in DOMAIN p
    <2>1. /\ MembersOf(HrdSyntax(Nal)) \subseteq MembersOf(VuiSyntax)
          /\ MembersOf(HrdSyntax(Vcl)) \subseteq MembersOf(VuiSyntax)
      BY VuisAre, HrdSyntaxTable, VuiOfParts DEF VuiMembers
    <2>2. \A hrd : \A x \in HrdMembers : hrd[x] \in MembersOf(HrdSyntax(hrd))
      BY HrdSyntaxMembers
    <2>3. MembersOf(VuiSyntax) \subseteq DOMAIN p
      BY ParametersFit
    <2> QED BY <2>1, <2>2, <2>3
  <1>5. /\ DOMAIN shared = DOMAIN p
        /\ \A m \in DOMAIN p : m \notin HrdNames => shared[m] = p[m]
        /\ \A x \in HrdMembers : shared[Vcl[x]] = p[Vcl[x]]
        /\ \A x \in HrdMembers : shared[Nal[x]] = IF OneHrd(p) THEN p[Vcl[x]] ELSE p[Nal[x]]
    <2>1. CASE ~ OneHrd(p)
      <3>1. shared = p
        BY <1>2, <2>1, Zenon DEF Shared, OneHrd
      <3> QED BY <2>1, <3>1
    <2>2. CASE OneHrd(p)
      <3>1. shared = [m \in DOMAIN p |->
                         IF \E h \in DOMAIN Nal : m = Nal[h]
                         THEN p[Vcl[CHOOSE h \in DOMAIN Nal : m = Nal[h]]]
                         ELSE p[m]]
        BY <1>2, <2>2, Zenon DEF Shared, OneHrd
      <3>2. ASSUME NEW m \in DOMAIN p, ~ \E h \in DOMAIN Nal : m = Nal[h]
            PROVE  shared[m] = p[m]
        BY <3>1, <3>2
      <3>3. \A m \in DOMAIN p : m \notin HrdNames => shared[m] = p[m]
        BY <3>2, HrdNamesAre
      <3>4. \A x \in HrdMembers : shared[Vcl[x]] = p[Vcl[x]]
        BY <1>4, <3>2, HrdNamesAre
      <3>5. ASSUME NEW x \in HrdMembers
            PROVE  shared[Nal[x]] = p[Vcl[x]]
        <4>1. (CHOOSE h \in DOMAIN Nal : Nal[x] = Nal[h]) = x
          <5>1. PICK y : y = CHOOSE h \in DOMAIN Nal : Nal[x] = Nal[h]
            OBVIOUS
          <5>2. x \in DOMAIN Nal
            BY HrdNamesAre
          <5>3. y \in DOMAIN Nal /\ Nal[x] = Nal[y]
            BY <5>1, <5>2
          <5>4. y = x
            BY <5>2, <5>3, HrdNamesAre
          <5> QED BY <5>1, <5>4
        <4>2. Nal[x] \in DOMAIN p /\ \E h \in DOMAIN Nal : Nal[x] = Nal[h]
          BY <1>4, HrdNamesAre
        <4> QED BY <3>1, <4>1, <4>2
      <3>6. DOMAIN shared = DOMAIN p
        BY <3>1
      <3> QED BY <2>2, <3>3, <3>4, <3>5, <3>6
    <2> QED BY <2>1, <2>2
  <1>6. DOMAIN e = DOMAIN p
    BY <1>3, <1>5
  <1>7. \A m \in DOMAIN p : m \in ColourNames => e[m] = ColourOf(matrix)[m]
    BY <1>3, <1>5
  <1>8. \A m \in DOMAIN p : m \notin ColourNames => e[m] = shared[m]
    BY <1>3, <1>5
  <1>9. \A x \in HrdMembers : e[Vcl[x]] = shared[Vcl[x]] /\ e[Nal[x]] = shared[Nal[x]]
    BY <1>4, <1>8, HrdNamesAre
  <1> QED BY <1>5, <1>6, <1>7, <1>8, <1>9

\* What is written of what is read, with the colours of the setting.
LEMMA TaggedIs ==
    ASSUME NEW r, r \in [Members -> Int], NEW matrix \in Nat, NEW q, q = Tagged(r, matrix)
    PROVE  /\ \A m \in Members : m \in ColourNames => q[m] = ColourOf(matrix)[m]
           /\ \A m \in Members : m \notin ColourNames => q[m] = r[m]
           /\ q["zero"] = r["zero"]
  <1>1. DOMAIN r = Members /\ DOMAIN ColourOf(matrix) = ColourNames
    BY ColoursTold
  <1>2. q = [m \in Members |-> IF m \in ColourNames THEN ColourOf(matrix)[m] ELSE r[m]]
    BY <1>1 DEF Tagged
  <1>3. "zero" \in Members /\ "zero" \notin ColourNames
    BY DEF Members, ColourNames
  <1> QED BY <1>2, <1>3

\* Members K that are known before a table, and are not changed.
Known(K, p, q) ==
    \A m \in K : m \in DOMAIN p /\ m \notin ColourNames /\ m \notin HrdNames /\ q[m] = p[m]

\* The values of a table without HRDs are written as they are carried over.
LEMMA PlainWritten ==
    ASSUME NEW p, IsParameters(p), NEW matrix \in Nat, NEW e, e = Carried(p, matrix),
           NEW r, r \in [Members -> Int], NEW q, q = Tagged(r, matrix),
           NEW t, NEW K, NEW L, Grammar(t, K, L, HrdNames), Known(K, p, q),
           MembersOf(t) \subseteq Members, MembersOf(t) \subseteq DOMAIN p,
           Fits(t, p), NarrowTable(t, p), \A m \in Present(t, p) : r[m] = p[m]
    PROVE  WritesAs(t, q, t, e)
  <1>1. /\ \A m \in DOMAIN p : m \in ColourNames => e[m] = ColourOf(matrix)[m]
        /\ \A m \in DOMAIN p : m \notin ColourNames /\ m \notin HrdNames => e[m] = p[m]
    BY CarriedIs
  <1>2. /\ \A m \in Members : m \in ColourNames => q[m] = ColourOf(matrix)[m]
        /\ \A m \in Members : m \notin ColourNames => q[m] = r[m]
    BY TaggedIs
  <1>3. IsTable(t)
    BY DEF Grammar
  <1>4. ASSUME NEW i \in 1 .. Len(t), NEW m \in ToSet(t[i].names)
        PROVE  m \in Members /\ m \in DOMAIN p /\ m \notin HrdNames
    <2>1. m \in MembersOf(t)
      BY <1>3, <1>4, RowsInMembers
    <2>2. m \notin HrdNames
      BY <1>4, Zenon DEF Grammar, GoodRow
    <2> QED BY <2>1, <2>2
  <1>5. ASSUME NEW i \in 1 .. Len(t), NEW k \in DOMAIN t[i].names
        PROVE  t[i].names[k] \in ToSet(t[i].names)
    BY DEF ToSet
  <1>6. ASSUME NEW i \in 1 .. Len(t)
        PROVE  Apart(t[i])
    BY Zenon DEF Grammar, GoodRow
  <1>7. ASSUME NEW i \in 1 .. Len(t), ~ TellsColours(t[i].code, t[i].names)
        PROVE  /\ \A m \in ToSet(t[i].names) : m \notin ColourNames
               /\ \A c \in t[i].when : c[1] \notin ColourNames
    BY <1>6, <1>7 DEF Apart
  <1>8. ASSUME NEW i \in 1 .. Len(t)
        PROVE  FitsRow(t[i], e)
    <2>1. ASSUME NEW k \in DOMAIN t[i].names
          PROVE  e[t[i].names[k]] \in ValuesOf(t[i].code)
      <3>1. PICK m : m = t[i].names[k]
        OBVIOUS
      <3>2. m \in ToSet(t[i].names) /\ m \in DOMAIN p /\ m \notin HrdNames
        BY <1>4, <1>5, <3>1
      <3>3. CASE TellsColours(t[i].code, t[i].names)
        <4>1. m \in ColourNames /\ ColourOf(matrix)[m] \in ValuesOf(t[i].code)
          BY <3>2, <3>3 DEF TellsColours
        <4> QED BY <1>1, <3>1, <3>2, <4>1
      <3>4. CASE ~ TellsColours(t[i].code, t[i].names)
        <4>1. e[m] = p[m]
          BY <1>1, <1>7, <3>2, <3>4
        <4>2. p[m] \in ValuesOf(t[i].code)
          BY <3>1 DEF Fits, FitsRow
        <4> QED BY <3>1, <4>1, <4>2
      <3> QED BY <3>3, <3>4
    <2> QED BY <2>1, Zenon DEF FitsRow
  <1>9. ASSUME NEW i \in 1 .. Len(t)
        PROVE  NarrowRow(t[i], e)
    <2>1. ASSUME t[i].code \in {UE, SE}, NEW k \in DOMAIN t[i].names
          PROVE  e[t[i].names[k]] \in Narrow
      <3>1. PICK m : m = t[i].names[k]
        OBVIOUS
      <3>2. m \in ToSet(t[i].names) /\ m \in DOMAIN p /\ m \notin HrdNames
        BY <1>4, <1>5, <3>1
      <3>3. ~ TellsColours(t[i].code, t[i].names)
        BY <2>1, Zenon DEF TellsColours
      <3>4. e[m] = p[m]
        BY <1>1, <1>7, <3>2, <3>3
      <3>5. p[m] \in Narrow
        BY <2>1, <3>1, Zenon DEF NarrowTable, NarrowRow
      <3> QED BY <3>1, <3>4, <3>5
    <2> QED BY <2>1, Zenon DEF NarrowRow
  <1>10. ASSUME NEW i \in 1 .. Len(t), IsPresent(t[i], e), NEW m \in ToSet(t[i].names)
         PROVE  q[m] = e[m]
    <2>1. m \in Members /\ m \in DOMAIN p /\ m \notin HrdNames
      BY <1>4
    <2>2. CASE m \in ColourNames
      BY <1>1, <1>2, <2>1, <2>2
    <2>3. CASE m \notin ColourNames
      <3>1. ~ TellsColours(t[i].code, t[i].names)
        BY <2>3 DEF TellsColours
      <3>2. ASSUME NEW c \in t[i].when
            PROVE  e[c[1]] = p[c[1]]
        <4>1. c[1] \notin ColourNames
          BY <1>7, <3>1
        <4>2. ReadBefore(t, i, K, c[1])
          BY Zenon DEF Grammar, GoodRow
        <4>3. CASE c[1] \in K
          BY <1>1, <4>3 DEF Known
        <4>4. CASE \E j \in 1 .. i - 1 : c[1] \in ToSet(t[j].names)
          <5>1. PICK j \in 1 .. i - 1 : c[1] \in ToSet(t[j].names)
            BY <4>4
          <5>2. j \in 1 .. Len(t)
            OBVIOUS
          <5>3. c[1] \in DOMAIN p /\ c[1] \notin HrdNames
            BY <1>4, <5>1, <5>2
          <5> QED BY <1>1, <4>1, <5>3
        <4> QED BY <4>2, <4>3, <4>4, Zenon DEF ReadBefore
      <3>3. IsPresent(t[i], p)
        BY <1>10, <3>2, Zenon DEF IsPresent
      <3>4. m \in Present(t, p)
        BY <2>1, <3>3, Zenon DEF Present, PresentUpTo
      <3> QED BY <1>1, <1>2, <2>1, <2>3, <3>4
    <2> QED BY <2>2, <2>3
  <1>11. Fits(t, e) /\ NarrowTable(t, e)
    BY <1>8, <1>9, Zenon DEF Fits, NarrowTable
  <1>12. \A m \in K : q[m] = e[m]
    BY <1>1 DEF Known
  <1>13. \A i \in 1 .. Len(t) : Same(t, i, e, q)
    BY <1>10, Zenon DEF Same
  <1> QED BY <1>11, <1>12, <1>13, TableWritten

\* An HRD is written as it is carried over.
LEMMA HrdWritten ==
    ASSUME NEW p, IsParameters(p), NEW matrix \in Nat, NEW e, NEW r, r \in [Members -> Int],
           NEW q, q = Tagged(r, matrix), NEW told, NEW written, NEW h, h = HrdOf(p, told),
           Fits(HrdSyntax(told), p), NarrowTable(HrdSyntax(told), p),
           \A m \in Present(read_hrd_parameters, h) : r[m] = h[m],
           \A x \in HrdMembers : e[written[x]] = p[told[x]]
    PROVE  WritesAs(read_hrd_parameters, q, HrdSyntax(written), e)
  <1>1. HrdMembers \subseteq Members
    BY HrdMembersAre, TablesInMembers DEF VuiMembers
  <1>2. \A x \in HrdMembers : h[x] = p[told[x]]
    BY <1>1 DEF HrdOf
  <1>3. Mirrors(HrdSyntax(told), p, read_hrd_parameters, h)
    BY <1>2, HrdMirrors
  <1>4. Fits(read_hrd_parameters, h) /\ NarrowTable(read_hrd_parameters, h)
    BY <1>3, MirroredTable
  <1>5. ASSUME NEW i \in 1 .. Len(read_hrd_parameters), IsPresent(read_hrd_parameters[i], h),
               NEW m \in ToSet(read_hrd_parameters[i].names)
        PROVE  q[m] = h[m]
    <2>1. m \in HrdMembers
      BY HrdTable, RowsInMembers, HrdMembersAre
    <2>2. m \in Present(read_hrd_parameters, h)
      BY <1>1, <1>5, <2>1, Zenon DEF Present, PresentUpTo
    <2>3. m \notin ColourNames
      BY <2>1, HrdNamesAre
    <2> QED BY <1>1, <2>1, <2>2, <2>3, TaggedIs
  <1>6. \A i \in 1 .. Len(read_hrd_parameters) : Same(read_hrd_parameters, i, h, q)
    BY <1>5, Zenon DEF Same
  <1>7. WritesAs(read_hrd_parameters, q, read_hrd_parameters, h)
    <2>1. \A m \in {} : q[m] = h[m]
      OBVIOUS
    <2> QED BY <1>4, <1>6, <2>1, HrdGrammar, TableWritten
  <1>8. Mirrors(HrdSyntax(written), e, read_hrd_parameters, h)
    <2>1. \A x \in HrdMembers : e[written[x]] = h[x]
      BY <1>2
    <2> QED BY <2>1, HrdMirrors
  <1>9. Mirrors(read_hrd_parameters, h, HrdSyntax(written), e)
    BY <1>8 DEF Mirrors, MirrorRow
  <1>10. Mirrors(read_hrd_parameters, q, read_hrd_parameters, q)
    BY HrdTable, MirrorsItself
  <1> QED BY <1>7, <1>9, <1>10, WritesMirrored

\* The VUI is written as it is carried over.
LEMMA VuiWritten ==
    ASSUME NEW p, IsParameters(p), IsNarrow(p), NEW matrix \in Nat,
           NEW e, e = Carried(p, matrix), NEW r, ToldBy(r, p), NEW q, q = Tagged(r, matrix)
    PROVE  WritesAs(read_vui_parameters, q, VuiSyntax, e)
  <1>1. /\ r \in [Members -> Int]
        /\ \A t \in {read_seq_parameter_set, BeforeHrds, VclRow, AfterHrds} :
              \A m \in Present(t, p) : r[m] = p[m]
        /\ p["vcl_hrd_present_flag"] = 1 =>
              \A m \in Present(read_hrd_parameters, HrdOf(p, Vcl)) : r[m] = HrdOf(p, Vcl)[m]
        /\ p["nal_hrd_present_flag"] = 1 /\ p["vcl_hrd_present_flag"] # 1 =>
              \A m \in Present(read_hrd_parameters, HrdOf(p, Nal)) : r[m] = HrdOf(p, Nal)[m]
    BY Zenon DEF ToldBy
  <1>2. /\ Grammar(BeforeHrds, {}, NalFlag, HrdNames) /\ Grammar(VclRow, {}, VclFlag, HrdNames)
        /\ Grammar(AfterHrds, NalFlag \cup VclFlag, {}, HrdNames)
    <2>1. HrdNames \subseteq VuiApart
      BY DEF VuiApart
    <2>2. \A K : \A m \in K : m \in K
      OBVIOUS
    <2>3. /\ Grammar(BeforeHrds, {}, NalFlag, VuiApart) /\ Grammar(VclRow, {}, VclFlag, VuiApart)
          /\ Grammar(AfterHrds, NalFlag \cup VclFlag, {}, VuiApart)
      BY BeforeGrammar, VclGrammar, AfterGrammar DEF VclRow
    <2> QED BY <2>1, <2>2, <2>3, GrammarWeakens
  <1>3. VuiFits(HrdSyntax(Nal), HrdSyntax(Vcl), p) /\ VuiNarrow(HrdSyntax(Nal), HrdSyntax(Vcl), p)
    BY ParametersFit, HrdSyntaxTable, VuisAre, VuiOfParts
  <1>4. /\ Fits(BeforeHrds, p) /\ Fits(VclRow, p) /\ Fits(AfterHrds, p)
        /\ Fits(HrdSyntax(Nal), p) /\ Fits(HrdSyntax(Vcl), p)
        /\ NarrowTable(BeforeHrds, p) /\ NarrowTable(VclRow, p) /\ NarrowTable(AfterHrds, p)
        /\ NarrowTable(HrdSyntax(Nal), p) /\ NarrowTable(HrdSyntax(Vcl), p)
    BY <1>3 DEF VuiFits, VuiNarrow, VclRow
  <1>5. /\ MembersOf(BeforeHrds) \subseteq Members /\ MembersOf(BeforeHrds) \subseteq DOMAIN p
        /\ MembersOf(VclRow) \subseteq Members /\ MembersOf(VclRow) \subseteq DOMAIN p
        /\ MembersOf(AfterHrds) \subseteq Members /\ MembersOf(AfterHrds) \subseteq DOMAIN p
    BY TablesInMembers, VuiMembersAre, ParametersFit DEF VuiMembers, VclRow
  <1>6. /\ "nal_hrd_present_flag" \in DOMAIN p /\ "vcl_hrd_present_flag" \in DOMAIN p
        /\ "nal_hrd_present_flag" \in Members /\ "vcl_hrd_present_flag" \in Members
    BY VuiMembersAre, ParametersFit, FlagsThere
  <1>7. /\ "nal_hrd_present_flag" \notin ColourNames /\ "vcl_hrd_present_flag" \notin ColourNames
        /\ "nal_hrd_present_flag" \notin HrdNames /\ "vcl_hrd_present_flag" \notin HrdNames
    BY DEF ColourNames, HrdNames
  <1>8. /\ q["nal_hrd_present_flag"] = p["nal_hrd_present_flag"]
        /\ q["vcl_hrd_present_flag"] = p["vcl_hrd_present_flag"]
    <2>1. /\ r["nal_hrd_present_flag"] = p["nal_hrd_present_flag"]
          /\ r["vcl_hrd_present_flag"] = p["vcl_hrd_present_flag"]
      BY <1>1, FlagsThere
    <2> QED BY <1>1, <1>6, <1>7, <2>1, TaggedIs
  <1>9. /\ e["nal_hrd_present_flag"] = p["nal_hrd_present_flag"]
        /\ e["vcl_hrd_present_flag"] = p["vcl_hrd_present_flag"]
    BY <1>6, <1>7, CarriedIs
  <1>10. Known({}, p, q) /\ Known(NalFlag \cup VclFlag, p, q)
    BY <1>6, <1>7, <1>8 DEF Known, NalFlag, VclFlag
  <1>11. WritesAs(BeforeHrds, q, BeforeHrds, e)
    <2>1. \A m \in Present(BeforeHrds, p) : r[m] = p[m]
      BY <1>1
    <2> QED BY <1>1, <1>2, <1>4, <1>5, <1>10, <2>1, PlainWritten
  <1>12. WritesAs(VclRow, q, VclRow, e)
    <2>1. \A m \in Present(VclRow, p) : r[m] = p[m]
      BY <1>1
    <2> QED BY <1>1, <1>2, <1>4, <1>5, <1>10, <2>1, PlainWritten
  <1>13. WritesAs(AfterHrds, q, AfterHrds, e)
    <2>1. \A m \in Present(AfterHrds, p) : r[m] = p[m]
      BY <1>1
    <2> QED BY <1>1, <1>2, <1>4, <1>5, <1>10, <2>1, PlainWritten
  <1>14. /\ \A x \in HrdMembers : e[Vcl[x]] = p[Vcl[x]]
         /\ \A x \in HrdMembers : e[Nal[x]] = IF OneHrd(p) THEN p[Vcl[x]] ELSE p[Nal[x]]
    BY CarriedIs
  <1>15. ASSUME p["vcl_hrd_present_flag"] = 1
         PROVE  WritesAs(read_hrd_parameters, q, HrdSyntax(Vcl), e)
    <2>1. \A m \in Present(read_hrd_parameters, HrdOf(p, Vcl)) : r[m] = HrdOf(p, Vcl)[m]
      BY <1>1, <1>15
    <2>2. \A x \in HrdMembers : e[Vcl[x]] = p[Vcl[x]]
      BY <1>14
    <2> QED BY <1>1, <1>4, <2>1, <2>2, HrdWritten
  <1>16. ASSUME p["nal_hrd_present_flag"] = 1
         PROVE  WritesAs(read_hrd_parameters, q, HrdSyntax(Nal), e)
    <2>1. CASE p["vcl_hrd_present_flag"] = 1
      <3>1. \A m \in Present(read_hrd_parameters, HrdOf(p, Vcl)) : r[m] = HrdOf(p, Vcl)[m]
        BY <1>1, <2>1
      <3>2. \A x \in HrdMembers : e[Nal[x]] = p[Vcl[x]]
        BY <1>14, <1>16, <2>1 DEF OneHrd
      <3> QED BY <1>1, <1>4, <3>1, <3>2, HrdWritten
    <2>2. CASE p["vcl_hrd_present_flag"] # 1
      <3>1. \A m \in Present(read_hrd_parameters, HrdOf(p, Nal)) : r[m] = HrdOf(p, Nal)[m]
        BY <1>1, <1>16, <2>2
      <3>2. \A x \in HrdMembers : e[Nal[x]] = p[Nal[x]]
        BY <1>14, <2>2 DEF OneHrd
      <3> QED BY <1>1, <1>4, <3>1, <3>2, HrdWritten
    <2> QED BY <2>1, <2>2
  <1> DEFINE nalIf == If("nal_hrd_present_flag", {1}, HrdSyntax(Nal))
             vclIf == If("vcl_hrd_present_flag", {1}, HrdSyntax(Vcl))
  <1>17. ASSUME NEW hrd
         PROVE  IsTable(HrdSyntax(hrd)) /\ Len(HrdSyntax(hrd)) = Len(read_hrd_parameters)
    <2>1. PICK h : h = [x \in HrdMembers |-> p[hrd[x]]]
      OBVIOUS
    <2>2. Mirrors(HrdSyntax(hrd), p, read_hrd_parameters, h)
      BY <2>1, HrdMirrors
    <2> QED BY <2>2 DEF Mirrors
  <1>18. WritesAs(NalIf, q, nalIf, e)
    <2>1. e["nal_hrd_present_flag"] \in {1} => WritesAs(read_hrd_parameters, q, HrdSyntax(Nal), e)
      BY <1>9, <1>16
    <2>2. q["nal_hrd_present_flag"] = e["nal_hrd_present_flag"]
      BY <1>8, <1>9
    <2> QED BY <1>17, <2>1, <2>2, HrdTable, WritesIf DEF NalIf
  <1>19. WritesAs(VclIf, q, vclIf, e)
    <2>1. e["vcl_hrd_present_flag"] \in {1} => WritesAs(read_hrd_parameters, q, HrdSyntax(Vcl), e)
      BY <1>9, <1>15
    <2>2. q["vcl_hrd_present_flag"] = e["vcl_hrd_present_flag"]
      BY <1>8, <1>9
    <2> QED BY <1>17, <2>1, <2>2, HrdTable, WritesIf DEF VclIf
  <1>20. /\ VuiSyntax = BeforeHrds \o nalIf \o VclRow \o vclIf \o AfterHrds
         /\ read_vui_parameters = BeforeHrds \o NalIf \o VclRow \o VclIf \o AfterHrds
    BY VuisAre, Zenon DEF VuiWith, ToHrds, ToVcl, NalIf, VclIf, VclRow
  <1> HIDE DEF nalIf, vclIf
  <1>21. WritesAs(BeforeHrds \o NalIf, q, BeforeHrds \o nalIf, e)
    BY <1>11, <1>18, WritesBoth
  <1>22. WritesAs(BeforeHrds \o NalIf \o VclRow, q, BeforeHrds \o nalIf \o VclRow, e)
    BY <1>12, <1>21, WritesBoth
  <1>23. WritesAs(BeforeHrds \o NalIf \o VclRow \o VclIf, q, BeforeHrds \o nalIf \o VclRow \o vclIf, e)
    BY <1>19, <1>22, WritesBoth
  <1> QED BY <1>13, <1>20, <1>23, WritesBoth

\* A parameter set is written as it is carried over: bit by bit.
LEMMA SpsWritten ==
    ASSUME NEW p, IsParameters(p), IsNarrow(p), NEW matrix \in Nat,
           NEW e, e = Carried(p, matrix), NEW r, ToldBy(r, p), NEW q, q = Tagged(r, matrix)
    PROVE  TableBits(write_seq_parameter_set
                     \o If("vui_parameters_present_flag", {1}, write_vui_parameters), q) = SpsBits(e)
  <1>1. /\ r \in [Members -> Int] /\ r["zero"] = 0
        /\ \A m \in Present(read_seq_parameter_set, p) : r[m] = p[m]
    BY Zenon DEF ToldBy
  <1>2. WritesAs(read_seq_parameter_set, q, read_seq_parameter_set, e)
    <2>1. Known({}, p, q)
      BY DEF Known
    <2>2. MembersOf(read_seq_parameter_set) \subseteq DOMAIN p
      BY ParametersFit
    <2>3. Fits(read_seq_parameter_set, p) /\ NarrowTable(read_seq_parameter_set, p)
      BY ParametersFit
    <2>4. MembersOf(read_seq_parameter_set) \subseteq Members
      BY TablesInMembers
    <2> QED BY <1>1, <2>1, <2>2, <2>3, <2>4, SeqGrammar, PlainWritten
  <1>3. WritesAs(write_seq_parameter_set, q, read_seq_parameter_set, e)
    <2>1. q["zero"] = 0
      BY <1>1, TaggedIs
    <2>2. q["reserved_zero_2bits"] = 0
      <3>1. "reserved_zero_2bits" \notin ColourNames
        BY DEF ColourNames
      <3>2. Always(read_seq_parameter_set, "reserved_zero_2bits")
        BY SeqAlways
      <3>3. "reserved_zero_2bits" \in Members /\ "reserved_zero_2bits" \in Present(read_seq_parameter_set, p)
        BY <3>2, SeqTable, AlwaysThere, TablesInMembers
      <3>4. p["reserved_zero_2bits"] = 0
        BY ParametersFit
      <3> QED BY <1>1, <3>1, <3>3, <3>4, TaggedIs
    <2>3. Mirrors(write_seq_parameter_set, q, read_seq_parameter_set, q)
      BY <2>1, <2>2, SeqMirrors
    <2>4. Mirrors(read_seq_parameter_set, e, read_seq_parameter_set, e)
      BY SyntaxTables, MirrorsItself
    <2> QED BY <1>2, <2>3, <2>4, WritesMirrored
  <1>4. WritesAs(If("vui_parameters_present_flag", {1}, write_vui_parameters), q,
                 If("vui_parameters_present_flag", {1}, VuiSyntax), e)
    <2>1. WritesAs(write_vui_parameters, q, VuiSyntax, e)
      BY VuiWritten, WriteVui
    <2>2. q["vui_parameters_present_flag"] = e["vui_parameters_present_flag"]
      <3>1. "vui_parameters_present_flag" \in ColourNames
        BY DEF ColourNames
      <3>2. "vui_parameters_present_flag" \in Members
        BY FlagsThere
      <3>3. "vui_parameters_present_flag" \in DOMAIN p
        <4>1. "vui_parameters_present_flag" \in MembersOf(read_seq_parameter_set)
          BY FlagsThere, SeqTable, SeqAlways, AlwaysThere
        <4> QED BY <4>1, ParametersFit
      <3> QED BY <1>1, <3>1, <3>2, <3>3, TaggedIs, CarriedIs
    <2>3. IsTable(write_vui_parameters) /\ IsTable(VuiSyntax) /\ Len(VuiSyntax) = Len(write_vui_parameters)
      BY <2>1 DEF WritesAs
    <2> QED BY <2>1, <2>2, <2>3, WritesIf
  <1>5. WritesAs(write_seq_parameter_set \o If("vui_parameters_present_flag", {1}, write_vui_parameters), q,
                 read_seq_parameter_set \o If("vui_parameters_present_flag", {1}, VuiSyntax), e)
    BY <1>3, <1>4, WritesBoth
  <1> QED BY <1>5, WrittenBits DEF SpsBits

-----------------------------------------------------------------------------
(* Bits and bytes *)

\* The bits that a byte is made of are the bits of the byte.
LEMMA ByteBack ==
    ASSUME NEW bits \in [1 .. 8 -> Bits], NEW k \in 1 .. 8
    PROVE  BitOf(ValueOf(bits), 8 - k) = bits[k]
  <1>1. PICK f \in [0 .. 8 -> Nat] : Values(f, bits, 8)
    BY ValuesExist
  <1>2. Len(bits) = 8
    BY LenOfFunction
  <1>3. ValueOf(bits) = f[8]
    BY <1>1, <1>2, ValueIsLast, Zenon
  <1>4. \A i \in 0 .. 8 : f[i] = IF i = 0 THEN 0 ELSE 2 * f[i - 1] + bits[i]
    BY <1>1, Zenon DEF Values
  <1>5. f[0] = 0
    BY <1>4
  <1>6. ASSUME NEW i \in 1 .. 8 PROVE f[i] = 2 * f[i - 1] + bits[i] /\ bits[i] \in {0, 1}
    <2>1. i \in 0 .. 8 /\ i # 0
      OBVIOUS
    <2>2. f[i] = 2 * f[i - 1] + bits[i]
      BY <1>4, <2>1
    <2> QED BY <2>2 DEF Bits
  <1>7. /\ f[1] = 2 * f[0] + bits[1] /\ f[2] = 2 * f[1] + bits[2] /\ f[3] = 2 * f[2] + bits[3]
        /\ f[4] = 2 * f[3] + bits[4] /\ f[5] = 2 * f[4] + bits[5] /\ f[6] = 2 * f[5] + bits[6]
        /\ f[7] = 2 * f[6] + bits[7] /\ f[8] = 2 * f[7] + bits[8]
    BY <1>6
  <1>8. PICK a \in {0, 1}, b \in {0, 1}, c \in {0, 1}, d \in {0, 1},
             e \in {0, 1}, g \in {0, 1}, h \in {0, 1}, i \in {0, 1} :
            /\ a = bits[1] /\ b = bits[2] /\ c = bits[3] /\ d = bits[4]
            /\ e = bits[5] /\ g = bits[6] /\ h = bits[7] /\ i = bits[8]
    BY <1>6
  <1>9. PICK v \in Nat : v = ValueOf(bits) /\ v = 128*a + 64*b + 32*c + 16*d + 8*e + 4*g + 2*h + i
    <2>1. ValueOf(bits) = 128*a + 64*b + 32*c + 16*d + 8*e + 4*g + 2*h + i
      BY <1>3, <1>5, <1>7, <1>8
    <2>2. 128*a + 64*b + 32*c + 16*d + 8*e + 4*g + 2*h + i \in Nat
      OBVIOUS
    <2> QED BY <2>1, <2>2
  <1>10. /\ BitOf(v, 7) = a /\ BitOf(v, 6) = b /\ BitOf(v, 5) = c /\ BitOf(v, 4) = d
         /\ BitOf(v, 3) = e /\ BitOf(v, 2) = g /\ BitOf(v, 1) = h /\ BitOf(v, 0) = i
    <2>1. /\ 2^7 = 128 /\ 2^6 = 64 /\ 2^5 = 32 /\ 2^4 = 16 /\ 2^3 = 8 /\ 2^2 = 4 /\ 2^1 = 2 /\ 2^0 = 1
      OBVIOUS
    <2>2. /\ v \div 128 = a
          /\ v \div 64 = 2*a + b
          /\ v \div 32 = 4*a + 2*b + c
          /\ v \div 16 = 8*a + 4*b + 2*c + d
      BY <1>9
    <2>3. /\ v \div 8 = 16*a + 8*b + 4*c + 2*d + e
          /\ v \div 4 = 32*a + 16*b + 8*c + 4*d + 2*e + g
          /\ v \div 2 = 64*a + 32*b + 16*c + 8*d + 4*e + 2*g + h
          /\ v \div 1 = v
      BY <1>9
    <2>4. /\ a % 2 = a /\ (2*a + b) % 2 = b /\ (4*a + 2*b + c) % 2 = c
          /\ (8*a + 4*b + 2*c + d) % 2 = d
          /\ (16*a + 8*b + 4*c + 2*d + e) % 2 = e
      OBVIOUS
    <2>5. /\ (32*a + 16*b + 8*c + 4*d + 2*e + g) % 2 = g
          /\ (64*a + 32*b + 16*c + 8*d + 4*e + 2*g + h) % 2 = h
          /\ v % 2 = i
      BY <1>9
    <2> QED BY <2>1, <2>2, <2>3, <2>4, <2>5 DEF BitOf
  <1>11. k = 1 \/ k = 2 \/ k = 3 \/ k = 4 \/ k = 5 \/ k = 6 \/ k = 7 \/ k = 8
    OBVIOUS
  <1>12. CASE k = 1
    <2>1. 8 - k = 7
      BY <1>12
    <2> QED BY <1>8, <1>9, <1>10, <1>12, <2>1
  <1>13. CASE k = 2
    <2>1. 8 - k = 6
      BY <1>13
    <2> QED BY <1>8, <1>9, <1>10, <1>13, <2>1
  <1>14. CASE k = 3
    <2>1. 8 - k = 5
      BY <1>14
    <2> QED BY <1>8, <1>9, <1>10, <1>14, <2>1
  <1>15. CASE k = 4
    <2>1. 8 - k = 4
      BY <1>15
    <2> QED BY <1>8, <1>9, <1>10, <1>15, <2>1
  <1>16. CASE k = 5
    <2>1. 8 - k = 3
      BY <1>16
    <2> QED BY <1>8, <1>9, <1>10, <1>16, <2>1
  <1>17. CASE k = 6
    <2>1. 8 - k = 2
      BY <1>17
    <2> QED BY <1>8, <1>9, <1>10, <1>17, <2>1
  <1>18. CASE k = 7
    <2>1. 8 - k = 1
      BY <1>18
    <2> QED BY <1>8, <1>9, <1>10, <1>18, <2>1
  <1>19. CASE k = 8
    <2>1. 8 - k = 0
      BY <1>19
    <2> QED BY <1>8, <1>9, <1>10, <1>19, <2>1
  <1> QED BY <1>11, <1>12, <1>13, <1>14, <1>15, <1>16, <1>17, <1>18, <1>19

\* A sequence that begins with another.
StartsWith(w, a) == Len(a) <= Len(w) /\ \A i \in 1 .. Len(a) : w[i] = a[i]

\* Bits that were made bytes are the bits of these bytes.
LEMMA BitsBack ==
    ASSUME NEW t \in Seq(Bits), NEW m \in Nat, Len(t) = 8 * m,
           NEW w \in Seq(Bytes), StartsWith(w, BytesOf(t))
    PROVE  Len(BytesOf(t)) = m /\ Carries(BitsOf(w), 0, t)
  <1>1. Len(t) \div 8 = m
    OBVIOUS
  <1>2. BytesOf(t) = [i \in 1 .. m |-> ValueOf(SubSeq(t, 8 * i - 7, 8 * i))]
    BY <1>1, Zenon DEF BytesOf
  <1>3. Len(BytesOf(t)) = m
    BY <1>2
  <1>4. PICK l \in Nat : l = Len(w) /\ m <= l
    BY <1>3 DEF StartsWith
  <1>5. PICK f : f = [i \in 1 .. 8 * l |-> BitOf(w[(i + 7) \div 8], 7 - ((i - 1) % 8))]
    OBVIOUS
  <1>6. BitsOf(w) = f
    BY <1>4, <1>5, Zenon DEF BitsOf
  <1>7. Len(f) = 8 * l
    BY <1>5
  <1>8. ASSUME NEW i \in 1 .. 8 * m
        PROVE  f[0 + i] = t[i]
    <2>1. PICK j \in 1 .. m, k \in 1 .. 8 : i = 8 * (j - 1) + k
      <3>1. (i - 1) \div 8 + 1 \in 1 .. m /\ ((i - 1) % 8) + 1 \in 1 .. 8
        OBVIOUS
      <3>2. i = 8 * (((i - 1) \div 8 + 1) - 1) + (((i - 1) % 8) + 1)
        OBVIOUS
      <3> QED BY <3>1, <3>2
    <2>2. (i + 7) \div 8 = j /\ 7 - ((i - 1) % 8) = 8 - k /\ 0 + i = i /\ i \in 1 .. 8 * l
      BY <1>4, <2>1
    <2>3. f[i] = BitOf(w[j], 8 - k)
      BY <1>5, <2>2
    <2>4. PICK b : b = SubSeq(t, 8 * j - 7, 8 * j)
      OBVIOUS
    <2>5. w[j] = ValueOf(b)
      <3>1. w[j] = BytesOf(t)[j]
        BY <1>3 DEF StartsWith
      <3> QED BY <1>2, <2>4, <3>1
    <2>6. IsPart(b, Bits, t, 8 * j - 7, 8)
      <3>1. 8 * j - 7 \in Int /\ 8 \in Nat /\ 8 * j = (8 * j - 7) + 8 - 1
        OBVIOUS
      <3>2. \A x \in 8 * j - 7 .. 8 * j : t[x] \in Bits
        <4>1. TAKE x \in 8 * j - 7 .. 8 * j
        <4>2. x \in 1 .. Len(t)
          OBVIOUS
        <4> QED BY <4>2, ElementOfSeq
      <3> QED BY <2>4, <3>1, <3>2, PartOf
    <2>7. b \in [1 .. 8 -> Bits]
      BY <2>6, LenProperties DEF IsPart
    <2>8. b[k] = t[i]
      <3>1. b[k] = t[8 * j - 7 + k - 1]
        BY <2>6 DEF IsPart
      <3>2. 8 * j - 7 + k - 1 = i
        BY <2>1
      <3> QED BY <3>1, <3>2
    <2>9. BitOf(ValueOf(b), 8 - k) = b[k]
      BY <2>7, ByteBack
    <2> QED BY <2>2, <2>3, <2>5, <2>8, <2>9
  <1>9. Carries(f, 0, t)
    <2>1. 0 \in Nat /\ 0 + Len(t) <= Len(f)
      BY <1>4, <1>7
    <2>2. \A i \in 1 .. Len(t) : f[0 + i] = t[i]
      BY <1>8
    <2> QED BY <2>1, <2>2, Zenon DEF Carries
  <1> QED BY <1>3, <1>6, <1>9

\* The trailing bits fill a byte, which has a 1 in it.
LEMMA TrailedIs ==
    ASSUME NEW bits \in Seq(Bits), NEW t, t = write_rbsp_trailing_bits(bits)
    PROVE  /\ t \in Seq(Bits) /\ StartsWith(t, bits)
           /\ \E m \in Nat \ {0} : /\ Len(t) = 8 * m
                                   /\ \E k \in 1 .. 8 : t[8 * (m - 1) + k] = 1
  <1>1. PICK n \in 0 .. 7, l \in Nat : l = Len(bits) /\ n = 7 - (l % 8)
    OBVIOUS
  <1>2. PICK zeros : zeros = [i \in 1 .. n |-> 0]
    OBVIOUS
  <1>3. zeros \in Seq(Bits) /\ Len(zeros) = n
    <2>1. zeros \in [1 .. n -> Bits]
      BY <1>2 DEF Bits
    <2> QED BY <2>1, LenOfFunction
  <1>4. PICK one : one = bits \o <<1>>
    OBVIOUS
  <1>5. <<1>> \in Seq(Bits) /\ Len(<<1>>) = 1 /\ <<1>>[1] = 1
    BY DEF Bits
  <1>6. /\ one \in Seq(Bits) /\ Len(one) = l + 1 /\ one[l + 1] = 1
        /\ \A i \in 1 .. l : one[i] = bits[i]
    <2>1. /\ one \in Seq(Bits) /\ Len(one) = Len(bits) + Len(<<1>>)
          /\ \A i \in 1 .. Len(bits) : one[i] = bits[i]
          /\ \A k \in 1 .. Len(<<1>>) : one[Len(bits) + k] = <<1>>[k]
      BY <1>4, <1>5, ConcatFacts
    <2> QED BY <1>1, <1>5, <2>1
  <1>7. t = one \o zeros
    BY <1>1, <1>2, <1>4, Zenon DEF write_rbsp_trailing_bits
  <1>8. t \in Seq(Bits) /\ Len(t) = l + 1 + n /\ \A i \in 1 .. l + 1 : t[i] = one[i]
    <2>1. /\ t \in Seq(Bits) /\ Len(t) = Len(one) + Len(zeros)
          /\ \A i \in 1 .. Len(one) : t[i] = one[i]
      BY <1>3, <1>6, <1>7, ConcatFacts
    <2> QED BY <1>3, <1>6, <2>1
  <1>9. StartsWith(t, bits)
    BY <1>1, <1>6, <1>8 DEF StartsWith
  <1>10. PICK m \in Nat \ {0} : m = l \div 8 + 1 /\ l = 8 * (m - 1) + (l % 8)
    <2>1. l \div 8 + 1 \in Nat \ {0} /\ l = 8 * ((l \div 8 + 1) - 1) + (l % 8)
      BY <1>1
    <2> QED BY <2>1
  <1>11. Len(t) = 8 * m
    <2>1. PICK r \in 0 .. 7 : r = l % 8
      BY <1>1, SMTT(40)
    <2>2. Len(t) = l + 1 + (7 - r) /\ l = 8 * (m - 1) + r
      BY <1>1, <1>8, <1>10, <2>1
    <2> QED BY <2>2
  <1>12. PICK k \in 1 .. 8 : k = (l % 8) + 1
    BY <1>1
  <1>13. 8 * (m - 1) + k = l + 1
    BY <1>1, <1>10, <1>12
  <1>14. t[8 * (m - 1) + k] = 1
    BY <1>1, <1>6, <1>8, <1>13
  <1> QED BY <1>8, <1>9, <1>11, <1>14

\* A byte of zeros has no 1 in it.
LEMMA ZeroByte ==
    ASSUME NEW bits \in [1 .. 8 -> Bits], NEW k \in 1 .. 8, bits[k] = 1
    PROVE  ValueOf(bits) # 0
  <1>1. BitOf(ValueOf(bits), 8 - k) = 1
    BY ByteBack
  <1>2. PICK n \in 0 .. 7 : n = 8 - k
    OBVIOUS
  <1>3. BitOf(0, n) = 0
    <2>1. n = 0 \/ n = 1 \/ n = 2 \/ n = 3 \/ n = 4 \/ n = 5 \/ n = 6 \/ n = 7
      OBVIOUS
    <2>2. /\ BitOf(0, 0) = 0 /\ BitOf(0, 1) = 0 /\ BitOf(0, 2) = 0 /\ BitOf(0, 3) = 0
          /\ BitOf(0, 4) = 0 /\ BitOf(0, 5) = 0 /\ BitOf(0, 6) = 0 /\ BitOf(0, 7) = 0
      BY DEF BitOf
    <2> QED BY <2>1, <2>2
  <1> QED BY <1>1, <1>2, <1>3

\* A coded parameter set: bytes of which the last is not 0, and whose bits begin with
\* those that were coded.
LEMMA CodedBytes ==
    ASSUME NEW bits \in Seq(Bits), NEW c, c = BytesOf(write_rbsp_trailing_bits(bits))
    PROVE  /\ c \in Seq(Bytes) /\ Len(c) \in Nat \ {0} /\ c[Len(c)] # 0
           /\ \A w \in Seq(Bytes) : StartsWith(w, c) => Carries(BitsOf(w), 0, bits)
  <1>1. PICK t : t = write_rbsp_trailing_bits(bits)
    OBVIOUS
  <1>2. PICK m \in Nat \ {0} : /\ Len(t) = 8 * m
                               /\ \E k \in 1 .. 8 : t[8 * (m - 1) + k] = 1
    BY <1>1, TrailedIs
  <1>3. t \in Seq(Bits) /\ StartsWith(t, bits)
    BY <1>1, TrailedIs
  <1>4. c \in Seq(Bytes)
    BY <1>1, <1>3, BytesTyped
  <1>5. c = BytesOf(t)
    BY <1>1
  <1>6. Len(c) = m
    <2>1. StartsWith(c, BytesOf(t))
      BY <1>4, <1>5 DEF StartsWith
    <2> QED BY <1>2, <1>3, <1>4, <1>5, <2>1, BitsBack
  <1>7. c[m] # 0
    <2>1. PICK k \in 1 .. 8 : t[8 * (m - 1) + k] = 1
      BY <1>2
    <2>2. PICK b : b = SubSeq(t, 8 * m - 7, 8 * m)
      OBVIOUS
    <2>3. IsPart(b, Bits, t, 8 * m - 7, 8)
      <3>1. 8 * m - 7 \in Int /\ 8 \in Nat /\ 8 * m = (8 * m - 7) + 8 - 1
        OBVIOUS
      <3>2. \A x \in 8 * m - 7 .. 8 * m : t[x] \in Bits
        <4>1. TAKE x \in 8 * m - 7 .. 8 * m
        <4>2. x \in 1 .. Len(t)
          BY <1>2
        <4> QED BY <1>3, <4>2, ElementOfSeq
      <3> QED BY <2>2, <3>1, <3>2, PartOf
    <2>4. b \in [1 .. 8 -> Bits]
      BY <2>3, LenProperties DEF IsPart
    <2>5. b[k] = 1
      <3>1. b[k] = t[8 * m - 7 + k - 1]
        BY <2>3 DEF IsPart
      <3>2. 8 * m - 7 + k - 1 = 8 * (m - 1) + k
        BY <1>2
      <3> QED BY <2>1, <3>1, <3>2
    <2>6. c[m] = ValueOf(b)
      <3>1. Len(t) \div 8 = m /\ m \in 1 .. m
        BY <1>2
      <3> QED BY <1>5, <2>2, <3>1 DEF BytesOf
    <2> QED BY <2>4, <2>5, <2>6, ZeroByte
  <1>8. ASSUME NEW w \in Seq(Bytes), StartsWith(w, c)
        PROVE  Carries(BitsOf(w), 0, bits)
    <2>1. Carries(BitsOf(w), 0, t)
      BY <1>2, <1>3, <1>5, <1>8, BitsBack
    <2>2. PICK s \in Seq(Bits) : s = BitsOf(w)
      BY BitsTyped
    <2>3. Len(bits) \in Nat /\ Len(t) \in Nat /\ Len(s) \in Nat
      BY <1>3
    <2>4. Carries(s, 0, bits)
      BY <1>3, <2>1, <2>2, <2>3 DEF Carries, StartsWith
    <2> QED BY <2>2, <2>4
  <1> QED BY <1>4, <1>6, <1>7, <1>8

\* The bits of a parameter set are bits.
LEMMA SpsBitsTyped ==
    ASSUME NEW p, AllFit(p)
    PROVE  SpsBits(p) \in Seq(Bits)
  <1> DEFINE vui == If("vui_parameters_present_flag", {1}, VuiSyntax)
  <1>1. Coding(read_seq_parameter_set, p)
    BY SeqGrammar, GrammarCodes DEF AllFit
  <1>2. Coding(vui, p)
    BY VuiCoding, CodingIf DEF AllFit
  <1> HIDE DEF vui
  <1>3. PICK a, b, c : a = SpecBits(read_seq_parameter_set, p) /\ b = SpecBits(vui, p) /\ c = SpecBits(read_seq_parameter_set \o vui, p)
    OBVIOUS
  <1>4. BitsOfBoth(c, a, b)
    BY <1>1, <1>2, <1>3, SpecBitsBoth
  <1>5. c \in Seq(Bits)
    BY <1>4 DEF BitsOfBoth
  <1> QED BY <1>3, <1>5, Zenon DEF SpsBits, vui

\* What is coded of parameters: bytes that do not end with a 0, and that carry
\* the bits of H.264.
LEMMA CodedIs ==
    ASSUME NEW p, AllFit(p), NEW c, c = CodedSps(p)
    PROVE  /\ c \in Seq(Bytes) /\ Len(c) \in Nat \ {0} /\ c[Len(c)] # 0
           /\ \A w \in Seq(Bytes) : StartsWith(w, c) => Carries(BitsOf(w), 0, SpsBits(p))
  <1>1. PICK bits \in Seq(Bits) : bits = SpsBits(p)
    BY SpsBitsTyped
  <1>2. c = BytesOf(write_rbsp_trailing_bits(bits))
    BY <1>1, CodedIsSpecBits, Zenon DEF CodedSps, SpsBits
  <1> QED BY <1>1, <1>2, CodedBytes

\* What the encoder sends for a profile that the code knows, is coded by the
\* code's syntax.
LEMMA EncodedIsCoded ==
    ASSUME NEW p, SameProfile(p)
    PROVE  EncodedSps(p) = CodedSps(p)
  <1> DEFINE vui == If("vui_parameters_present_flag", {1}, VuiSyntax)
  <1>1. IsTable(vui)
    BY SyntaxTables, RowsUnder
  <1>2. EncodedSps(p) = BytesOf(write_rbsp_trailing_bits(SpecBits(SpsSyntax \o vui, p)))
    BY CodedIsSpecBits, Zenon DEF EncodedSps
  <1>3. CodedSps(p) = BytesOf(write_rbsp_trailing_bits(SpecBits(read_seq_parameter_set \o vui, p)))
    BY CodedIsSpecBits, Zenon DEF CodedSps
  <1> HIDE DEF vui
  <1>4. Mirrors(vui, p, vui, p)
    BY <1>1, MirrorsItself
  <1>5. Mirrors(SpsSyntax \o vui, p, read_seq_parameter_set \o vui, p)
    BY <1>4, KnownProfile, MirrorsOfBoth
  <1>6. SpecBits(SpsSyntax \o vui, p) = SpecBits(read_seq_parameter_set \o vui, p)
    BY <1>5, MirroredTable
  <1> QED BY <1>2, <1>3, <1>6, Zenon

\* What the code writes for a parameter set it has read, by its own syntax.
LEMMA CarriedOver ==
    ASSUME NEW p, IsParameters(p), IsNarrow(p), NEW matrix \in Nat,
           NEW src \in Seq(Bytes), StartsWith(src, CodedSps(p))
    PROVE  WriteSps(Tagged(ReadSps(src), matrix)) = CodedSps(Carried(p, matrix))
  <1>1. PICK r, e, q : r = ReadSps(src) /\ e = Carried(p, matrix) /\ q = Tagged(r, matrix)
    OBVIOUS
  <1>2. Carries(BitsOf(src), 0, SpsBits(p))
    BY ParametersAllFit, CodedIs
  <1>3. ToldBy(r, p)
    BY <1>1, <1>2, ReadSpsTold
  <1>4. PICK b : b = SpsBits(e)
    OBVIOUS
  <1>5. TableBits(write_seq_parameter_set
                  \o If("vui_parameters_present_flag", {1}, write_vui_parameters), q) = b
    BY <1>1, <1>3, <1>4, SpsWritten
  <1>6. WriteSps(q) = BytesOf(write_rbsp_trailing_bits(b))
    BY <1>5, CodedIsTableBits, Zenon DEF WriteSps
  <1>7. CodedSps(e) = BytesOf(write_rbsp_trailing_bits(b))
    BY <1>4, CodedIsSpecBits, Zenon DEF CodedSps, SpsBits
  <1> QED BY <1>1, <1>6, <1>7

-----------------------------------------------------------------------------
(* Members, by the conditions of their rows *)

\* A member has a row with these conditions, and no more.
IsUnder(t, m, W) ==
    IsTable(t) /\ \E i \in 1 .. Len(t) : m \in ToSet(t[i].names) /\ t[i].when = W

\* It has it in a row of its own.
LEMMA UnderNone ==
    ASSUME NEW code \in Codes, NEW names, IsSeq(names), NEW m \in ToSet(names)
    PROVE  IsUnder(U(code, names), m, {})
  <1>1. PICK r : r = [names |-> names, code |-> code, when |-> {}]
    OBVIOUS
  <1>2. PICK t : t = <<r>>
    OBVIOUS
  <1>3. U(code, names) = t
    BY <1>1, <1>2, Zenon DEF U
  <1>4. IsTable(t)
    BY <1>3, OneRow
  <1>5. Len(t) = 1 /\ t[1].names = names /\ t[1].when = {} /\ 1 \in 1 .. Len(t)
    BY <1>1, <1>2
  <1> QED BY <1>3, <1>4, <1>5, Zenon DEF IsUnder

\* It has one more condition in a part of a table that has it.
LEMMA UnderOneMore ==
    ASSUME NEW t, NEW m, NEW W, IsUnder(t, m, W), NEW name, NEW values,
           NEW V, V = W \cup {<<name, values>>}
    PROVE  IsUnder(If(name, values, t), m, V)
  <1>1. IsTable(t)
    BY DEF IsUnder
  <1>2. PICK n, u : n = Len(t) /\ u = If(name, values, t)
    OBVIOUS
  <1>3. AreUnder(u, t, n, name, values)
    BY <1>1, <1>2, RowsOfIf
  <1>4. PICK i \in 1 .. n : m \in ToSet(t[i].names) /\ t[i].when = W
    BY <1>2 DEF IsUnder
  <1>5. IsTable(u) /\ Len(u) = n /\ u[i].names = t[i].names /\ u[i].when = V
    BY <1>3, <1>4, Zenon DEF AreUnder
  <1> QED BY <1>2, <1>4, <1>5, Zenon DEF IsUnder

\* It stays when other rows come behind, or before.
LEMMA UnderInFront ==
    ASSUME NEW a, NEW m, NEW W, IsUnder(a, m, W), NEW b, IsTable(b)
    PROVE  IsUnder(a \o b, m, W)
  <1>1. IsTable(a)
    BY DEF IsUnder
  <1>2. PICK c, n, k : c = a \o b /\ n = Len(a) /\ k = Len(b)
    OBVIOUS
  <1>3. n \in Nat /\ k \in Nat /\ AreBoth(c, a, n, b, k)
    BY <1>1, <1>2, RowsOfBoth
  <1>4. PICK i \in 1 .. n : m \in ToSet(a[i].names) /\ a[i].when = W
    BY <1>2 DEF IsUnder
  <1>5. i \in 1 .. n + k
    BY <1>3
  <1>6. IsTable(c) /\ Len(c) = n + k /\ c[i] = a[i]
    BY <1>3, <1>4, Zenon DEF AreBoth
  <1> QED BY <1>2, <1>4, <1>5, <1>6, Zenon DEF IsUnder

\* A member has the same conditions when another table comes before.
LEMMA UnderBehind ==
    ASSUME NEW a, IsTable(a), NEW b, NEW m, NEW W, IsUnder(b, m, W)
    PROVE  IsUnder(a \o b, m, W)
  <1>1. IsTable(b)
    BY DEF IsUnder
  <1>2. PICK c, n, k : c = a \o b /\ n = Len(a) /\ k = Len(b)
    OBVIOUS
  <1>3. n \in Nat /\ k \in Nat /\ AreBoth(c, a, n, b, k)
    BY <1>1, <1>2, RowsOfBoth
  <1>4. PICK i \in 1 .. k : m \in ToSet(b[i].names) /\ b[i].when = W
    BY <1>2 DEF IsUnder
  <1>5. n + i \in 1 .. n + k
    BY <1>3
  <1>6. IsTable(c) /\ Len(c) = n + k /\ c[n + i] = b[i]
    BY <1>3, <1>4, Zenon DEF AreBoth
  <1> QED BY <1>2, <1>4, <1>5, <1>6, Zenon DEF IsUnder

\* A member whose conditions are met is there.
LEMMA UnderIsPresent ==
    ASSUME NEW t, NEW m \in Members, NEW W, IsUnder(t, m, W), NEW p, \A c \in W : p[c[1]] \in c[2]
    PROVE  m \in Present(t, p)
  <1>1. PICK i \in 1 .. Len(t) : m \in ToSet(t[i].names) /\ t[i].when = W
    BY DEF IsUnder
  <1>2. IsPresent(t[i], p)
    BY <1>1, Zenon DEF IsPresent
  <1> QED BY <1>1, <1>2, Zenon DEF Present, PresentUpTo

\* It is a member of the table.
LEMMA UnderIsMember ==
    ASSUME NEW t, NEW m, NEW W, IsUnder(t, m, W)
    PROVE  m \in MembersOf(t)
  <1>1. IsTable(t)
    BY DEF IsUnder
  <1>2. PICK i \in 1 .. Len(t) : m \in ToSet(t[i].names)
    BY DEF IsUnder
  <1> QED BY <1>1, <1>2, RowsInMembers

\* The conditions of the scaling lists.
ListsUnder ==
    {<<"profile_idc", HighProfiles>>, <<"seq_scaling_matrix_present_flag", {1}>>}

\* What is asked of a parameter set for its scaling lists, and where it has it.
LEMMA ScalingLists ==
    /\ IsUnder(read_seq_parameter_set, "profile_idc", {})
    /\ IsUnder(read_seq_parameter_set, "seq_scaling_matrix_present_flag",
               {<<"profile_idc", HighProfiles>>})
    /\ \A m \in ToSet(ListFlags) : IsUnder(read_seq_parameter_set, m, ListsUnder)
  <1> DEFINE high4 == U(UE, <<"chroma_format_idc">>)
                      \o If("chroma_format_idc", {3}, U(1, <<"residual_colour_transform_flag">>))
                      \o U(UE, <<"bit_depth_luma_minus8", "bit_depth_chroma_minus8">>)
             matrix == U(1, <<"qpprime_y_zero_transform_bypass_flag", "seq_scaling_matrix_present_flag">>)
             lists == If("seq_scaling_matrix_present_flag", {1}, U(1, ListFlags))
             high == high4 \o matrix \o lists
             count == U(1, <<"delta_pic_order_always_zero_flag">>)
                      \o U(SE, <<"offset_for_non_ref_pic", "offset_for_top_to_bottom_field">>)
                      \o U(UE, <<"num_ref_frames_in_pic_order_cnt_cycle">>)
                      \o If("num_ref_frames_in_pic_order_cnt_cycle", From(1), U(SE, <<"offset_for_ref_frame_0">>))
                      \o If("num_ref_frames_in_pic_order_cnt_cycle", From(2), U(SE, <<"offset_for_ref_frame_1">>))
             r1 == U(8, <<"profile_idc">>)
             r2 == U(1, Flags)
             r3 == U(2, <<"reserved_zero_2bits">>)
             r4 == U(8, <<"level_idc">>)
             r5 == U(UE, <<"seq_parameter_set_id">>)
             r6 == U(UE, <<"log2_max_frame_num_minus4", "pic_order_cnt_type">>)
             r7 == If("pic_order_cnt_type", {0}, U(UE, <<"log2_max_pic_order_cnt_lsb_minus4">>))
             r7c == If("pic_order_cnt_type", {1}, count)
             r8 == U(UE, <<"num_ref_frames">>)
             r9 == U(1, <<"gaps_in_frame_num_value_allowed_flag">>)
             r10 == U(UE, <<"pic_width_in_mbs_minus1", "pic_height_in_map_units_minus1">>)
             r11 == U(1, <<"frame_mbs_only_flag">>)
             r12 == If("frame_mbs_only_flag", {0}, U(1, <<"mb_adaptive_frame_field_flag">>))
             r13 == U(1, <<"direct_8x8_inference_flag", "frame_cropping_flag">>)
             r14 == If("frame_cropping_flag", {1},
                       U(UE, <<"frame_crop_left_offset", "frame_crop_right_offset",
                               "frame_crop_top_offset", "frame_crop_bottom_offset">>))
             r15 == U(1, <<"vui_parameters_present_flag">>)
             s1 == r1 \o r2 \o r3 \o r4 \o r5
             s2 == s1 \o If("profile_idc", HighProfiles, high)
             P == {<<"profile_idc", HighProfiles>>}
  <1>1. read_seq_parameter_set
           = s2 \o r6 \o r7 \o r7c \o r8 \o r9 \o r10 \o r11 \o r12 \o r13 \o r14 \o r15
    BY Zenon DEF read_seq_parameter_set
  <1>2. /\ IsTable(r1) /\ IsTable(r2) /\ IsTable(r3) /\ IsTable(r4) /\ IsTable(r5) /\ IsTable(r6)
        /\ IsTable(r8) /\ IsTable(r9) /\ IsTable(r10) /\ IsTable(r11) /\ IsTable(r13) /\ IsTable(r15)
    BY RowsAre, CodesOfRows, Zenon
  <1>3. IsTable(r7) /\ IsTable(r12) /\ IsTable(r14)
    BY RowsAre, CodesOfRows, RowsUnder, Zenon
  <1>4. IsTable(r7c) /\ IsTable(high4) /\ IsTable(matrix) /\ IsTable(lists)
    BY RowsAre, CodesOfRows, RowsUnder, RowsBehind, Zenon
  <1>5. IsUnder(r1, "profile_idc", {})
    BY CodesOfRows, TuplesAreSeqs, NamesOf, UnderNone
  <1>6. IsUnder(matrix, "seq_scaling_matrix_present_flag", {})
    BY CodesOfRows, TuplesAreSeqs, NamesOf, UnderNone
  <1>7. ASSUME NEW m \in ToSet(ListFlags)
        PROVE  IsUnder(lists, m, {<<"seq_scaling_matrix_present_flag", {1}>>})
    <2>1. IsUnder(U(1, ListFlags), m, {})
      BY CodesOfRows, FlagTuples, UnderNone
    <2>2. {<<"seq_scaling_matrix_present_flag", {1}>>} = {} \cup {<<"seq_scaling_matrix_present_flag", {1}>>}
      OBVIOUS
    <2> QED BY <2>1, <2>2, UnderOneMore
  <1> HIDE DEF high4, matrix, lists, r1, r2, r3, r4, r5, r6, r7, r7c, r8, r9, r10, r11, r12, r13, r14, r15
  <1>8. IsTable(s1) /\ IsUnder(s1, "profile_idc", {})
    BY <1>2, <1>5, UnderInFront, RowsBehind, Zenon
  <1>9. IsTable(high) /\ IsUnder(high, "seq_scaling_matrix_present_flag", {})
    BY <1>4, <1>6, UnderInFront, UnderBehind, RowsBehind, Zenon
  <1>10. ASSUME NEW m \in ToSet(ListFlags)
         PROVE  IsUnder(high, m, {<<"seq_scaling_matrix_present_flag", {1}>>})
    BY <1>4, <1>7, UnderBehind, RowsBehind, Zenon
  <1> HIDE DEF s1, high
  <1>11. P = {} \cup P /\ ListsUnder = {<<"seq_scaling_matrix_present_flag", {1}>>} \cup P
    BY DEF ListsUnder
  <1>12. IsTable(s2) /\ IsUnder(s2, "profile_idc", {})
    BY <1>8, <1>9, RowsUnder, RowsBehind, UnderInFront, Zenon
  <1>13. IsUnder(s2, "seq_scaling_matrix_present_flag", P)
    BY <1>8, <1>9, <1>11, UnderOneMore, UnderBehind, Zenon
  <1>14. ASSUME NEW m \in ToSet(ListFlags)
         PROVE  IsUnder(s2, m, ListsUnder)
    BY <1>8, <1>10, <1>11, UnderOneMore, UnderBehind, Zenon
  <1> HIDE DEF s2
  <1>15. ASSUME NEW m, NEW W, IsUnder(s2, m, W)
         PROVE  IsUnder(read_seq_parameter_set, m, W)
    BY <1>1, <1>2, <1>3, <1>4, <1>15, UnderInFront, ZenonT(40)
  <1> QED BY <1>12, <1>13, <1>14, <1>15

\* ReadSps tells of the scaling lists what the parameters do.
LEMMA ListsTold ==
    ASSUME NEW p, NEW r, ToldBy(r, p)
    PROVE  NeedsScalingList(r) <=> NeedsScalingList(p)
  <1>1. \A m \in Present(read_seq_parameter_set, p) : r[m] = p[m]
    BY DEF ToldBy
  <1>2. MembersOf(read_seq_parameter_set) \subseteq Members
    BY TablesInMembers
  <1>3. r["profile_idc"] = p["profile_idc"]
    <2>1. "profile_idc" \in Members /\ \A c \in {} : p[c[1]] \in c[2]
      BY <1>2, ScalingLists, UnderIsMember
    <2> QED BY <1>1, <2>1, ScalingLists, UnderIsPresent
  <1>4. ASSUME p["profile_idc"] \in HighProfiles
        PROVE  r["seq_scaling_matrix_present_flag"] = p["seq_scaling_matrix_present_flag"]
    <2>1. "seq_scaling_matrix_present_flag" \in Members
      BY <1>2, ScalingLists, UnderIsMember
    <2>2. \A c \in {<<"profile_idc", HighProfiles>>} : p[c[1]] \in c[2]
      BY <1>4
    <2> QED BY <1>1, <2>1, <2>2, ScalingLists, UnderIsPresent
  <1>5. ASSUME p["profile_idc"] \in HighProfiles, p["seq_scaling_matrix_present_flag"] = 1,
               NEW i \in DOMAIN ListFlags
        PROVE  r[ListFlags[i]] = p[ListFlags[i]]
    <2>1. ListFlags[i] \in ToSet(ListFlags)
      BY DEF ToSet
    <2>2. PICK m : m = ListFlags[i] /\ m \in ToSet(ListFlags)
      BY <2>1
    <2>3. m \in Members
      BY <1>2, <2>2, ScalingLists, UnderIsMember
    <2>4. \A c \in ListsUnder : p[c[1]] \in c[2]
      BY <1>5 DEF ListsUnder
    <2>5. r[m] = p[m]
      BY <1>1, <2>2, <2>3, <2>4, ScalingLists, UnderIsPresent
    <2> QED BY <2>2, <2>5
  <1> QED BY <1>3, <1>4, <1>5, Zenon DEF NeedsScalingList

\* What is carried over in the members of a table without HRDs fits its codes.
LEMMA PlainFits ==
    ASSUME NEW p, IsParameters(p), NEW matrix \in Nat, NEW e, e = Carried(p, matrix),
           NEW t, NEW K, NEW L, Grammar(t, K, L, HrdNames), MembersOf(t) \subseteq DOMAIN p,
           Fits(t, p)
    PROVE  Fits(t, e)
  <1>1. /\ \A m \in DOMAIN p : m \in ColourNames => e[m] = ColourOf(matrix)[m]
        /\ \A m \in DOMAIN p : m \notin ColourNames /\ m \notin HrdNames => e[m] = p[m]
    BY CarriedIs
  <1>2. IsTable(t)
    BY DEF Grammar
  <1>3. ASSUME NEW i \in 1 .. Len(t), NEW k \in DOMAIN t[i].names
        PROVE  e[t[i].names[k]] \in ValuesOf(t[i].code)
    <2>1. PICK m : m = t[i].names[k]
      OBVIOUS
    <2>2. m \in ToSet(t[i].names)
      BY <2>1 DEF ToSet
    <2>3. m \in DOMAIN p /\ m \notin HrdNames
      <3>1. m \in MembersOf(t)
        BY <1>2, <2>2, RowsInMembers
      <3>2. m \notin HrdNames
        BY <2>2, Zenon DEF Grammar, GoodRow
      <3> QED BY <3>1, <3>2
    <2>4. Apart(t[i])
      BY Zenon DEF Grammar, GoodRow
    <2>5. CASE TellsColours(t[i].code, t[i].names)
      <3>1. m \in ColourNames /\ ColourOf(matrix)[m] \in ValuesOf(t[i].code)
        BY <2>2, <2>5 DEF TellsColours
      <3> QED BY <1>1, <2>1, <2>3, <3>1
    <2>6. CASE ~ TellsColours(t[i].code, t[i].names)
      <3>1. m \notin ColourNames
        BY <2>2, <2>4, <2>6 DEF Apart
      <3>2. e[m] = p[m]
        BY <1>1, <2>3, <3>1
      <3>3. p[m] \in ValuesOf(t[i].code)
        BY <2>1 DEF Fits, FitsRow
      <3> QED BY <2>1, <3>2, <3>3
    <2> QED BY <2>5, <2>6
  <1>4. ASSUME NEW i \in 1 .. Len(t)
        PROVE  FitsRow(t[i], e)
    BY <1>3, Zenon DEF FitsRow
  <1> QED BY <1>4, Zenon DEF Fits

\* And so does what it expects in an HRD.
LEMMA HrdFits ==
    ASSUME NEW p, NEW e, NEW told, NEW written, Fits(HrdSyntax(told), p),
           \A x \in HrdMembers : e[written[x]] = p[told[x]]
    PROVE  Fits(HrdSyntax(written), e)
  <1>1. PICK h : h = [x \in HrdMembers |-> p[told[x]]]
    OBVIOUS
  <1>2. Mirrors(HrdSyntax(told), p, read_hrd_parameters, h)
    BY <1>1, HrdMirrors
  <1>3. Fits(read_hrd_parameters, h)
    BY <1>2, MirroredTable
  <1>4. Mirrors(HrdSyntax(written), e, read_hrd_parameters, h)
    <2>1. \A x \in HrdMembers : e[written[x]] = h[x]
      BY <1>1
    <2> QED BY <2>1, HrdMirrors
  <1>5. Mirrors(read_hrd_parameters, h, HrdSyntax(written), e)
    BY <1>4 DEF Mirrors, MirrorRow
  <1> QED BY <1>3, <1>5, MirroredTable

\* What is carried over fits the codes of H.264, whatever the matrix.
LEMMA CarriedFits ==
    ASSUME NEW p, IsParameters(p), NEW matrix \in Nat, NEW e, e = Carried(p, matrix)
    PROVE  AllFit(e)
  <1>1. Fits(read_seq_parameter_set, p) /\ Fits(VuiSyntax, p) /\ DOMAIN p = MembersOf(read_seq_parameter_set) \cup MembersOf(VuiSyntax)
    BY ParametersFit
  <1>2. /\ Grammar(read_seq_parameter_set, {}, VuiFlag, HrdNames)
        /\ Grammar(BeforeHrds, {}, NalFlag, HrdNames) /\ Grammar(VclRow, {}, VclFlag, HrdNames)
        /\ Grammar(AfterHrds, NalFlag \cup VclFlag, {}, HrdNames)
    <2>1. HrdNames \subseteq VuiApart
      BY DEF VuiApart
    <2>2. \A K : \A m \in K : m \in K
      OBVIOUS
    <2>3. /\ Grammar(BeforeHrds, {}, NalFlag, VuiApart) /\ Grammar(VclRow, {}, VclFlag, VuiApart)
          /\ Grammar(AfterHrds, NalFlag \cup VclFlag, {}, VuiApart)
      BY BeforeGrammar, VclGrammar, AfterGrammar DEF VclRow
    <2> QED BY <2>1, <2>2, <2>3, SeqGrammar, GrammarWeakens
  <1>3. Fits(read_seq_parameter_set, e)
    <2>1. Fits(read_seq_parameter_set, p) /\ MembersOf(read_seq_parameter_set) \subseteq DOMAIN p
      BY <1>1
    <2>2. Fits(read_seq_parameter_set, e)
      BY <1>2, <2>1, PlainFits
    <2> QED BY <2>2
  <1>4. VuiFits(HrdSyntax(Nal), HrdSyntax(Vcl), p)
    BY <1>1, HrdSyntaxTable, VuisAre, VuiOfParts
  <1>5. /\ Fits(BeforeHrds, p) /\ Fits(VclRow, p) /\ Fits(AfterHrds, p)
        /\ Fits(HrdSyntax(Nal), p) /\ Fits(HrdSyntax(Vcl), p)
    BY <1>4 DEF VuiFits, VclRow
  <1>6. /\ MembersOf(BeforeHrds) \subseteq DOMAIN p /\ MembersOf(VclRow) \subseteq DOMAIN p
        /\ MembersOf(AfterHrds) \subseteq DOMAIN p
    BY <1>1, VuiMembersAre
  <1>7. Fits(BeforeHrds, e)
    BY <1>2, <1>5, <1>6, PlainFits
  <1>8. Fits(VclRow, e)
    BY <1>2, <1>5, <1>6, PlainFits
  <1>9. Fits(AfterHrds, e)
    BY <1>2, <1>5, <1>6, PlainFits
  <1>10. /\ \A x \in HrdMembers : e[Vcl[x]] = p[Vcl[x]]
         /\ \A x \in HrdMembers : e[Nal[x]] = IF OneHrd(p) THEN p[Vcl[x]] ELSE p[Nal[x]]
    BY CarriedIs
  <1>11. Fits(HrdSyntax(Vcl), e)
    BY <1>5, <1>10, HrdFits
  <1>12. Fits(HrdSyntax(Nal), e)
    <2>1. CASE OneHrd(p)
      <3>1. \A x \in HrdMembers : e[Nal[x]] = p[Vcl[x]]
        BY <1>10, <2>1
      <3> QED BY <1>5, <3>1, HrdFits
    <2>2. CASE ~ OneHrd(p)
      <3>1. \A x \in HrdMembers : e[Nal[x]] = p[Nal[x]]
        BY <1>10, <2>2
      <3> QED BY <1>5, <3>1, HrdFits
    <2> QED BY <2>1, <2>2
  <1>13. VuiFits(HrdSyntax(Nal), HrdSyntax(Vcl), e)
    BY <1>7, <1>8, <1>9, <1>11, <1>12 DEF VuiFits, VclRow
  <1>14. Fits(VuiSyntax, e)
    BY <1>13, HrdSyntaxTable, VuisAre, VuiOfParts
  <1> QED BY <1>3, <1>14, Zenon DEF AllFit

\* Whatever the matrix, its range is told where there is a VUI.
LEMMA SignalTold ==
    ASSUME NEW matrix \in Nat
    PROVE  ColourOf(matrix)["video_signal_type_present_flag"] = 1
  <1>1. \A range, primaries, transfer, m :
           Description(range, primaries, transfer, m)["video_signal_type_present_flag"] = 1
    BY DEF Description
  <1>2. CASE matrix \in ColourMatrices
    <2>1. \/ ColourOf(matrix) = Description(0, 5, 6, 5) \/ ColourOf(matrix) = Description(1, 5, 6, 5)
          \/ ColourOf(matrix) = Description(1, 5, 8, 5) \/ ColourOf(matrix) = Description(0, 1, 1, 1)
          \/ ColourOf(matrix) = Description(1, 1, 1, 1)
      BY <1>2 DEF ColourOf, ColourMatrices, BT601_LIMITED, BT601_FULL, BT601_FULL_YCbCr, BT709_LIMITED,
             BT709_FULL, BT709_ALT1_LIMITED
    <2> QED BY <1>1, <2>1
  <1>3. CASE matrix \notin ColourMatrices
    <2>1. /\ matrix # BT601_LIMITED /\ matrix # BT601_FULL /\ matrix # BT601_FULL_YCbCr
          /\ matrix # BT709_LIMITED /\ matrix # BT709_FULL /\ matrix # BT709_ALT1_LIMITED
      BY <1>3 DEF ColourMatrices, BT601_LIMITED, BT601_FULL, BT601_FULL_YCbCr, BT709_LIMITED,
             BT709_FULL, BT709_ALT1_LIMITED
    <2>2. ColourOf(matrix) = [Description(1, 1, 1, 1) EXCEPT !.vui_parameters_present_flag = 0]
      BY <2>1, Zenon DEF ColourOf
    <2>3. [Description(1, 1, 1, 1) EXCEPT !.vui_parameters_present_flag = 0]["video_signal_type_present_flag"] = 1
      BY DEF Description
    <2> QED BY <2>2, <2>3
  <1> QED BY <1>2, <1>3

\* The range of the luma has its place in a VUI behind a flag.
LEMMA RangeUnder ==
    /\ IsUnder(BeforeHrds, "video_signal_type_present_flag", {})
    /\ IsUnder(BeforeHrds, "video_full_range_flag", {<<"video_signal_type_present_flag", {1}>>})
  <1> DEFINE ratio == If("aspect_ratio_info_present_flag", {1},
                         U(8, <<"aspect_ratio_idc">>)
                         \o If("aspect_ratio_idc", {SAR_Extended}, U(16, <<"sar_width", "sar_height">>)))
             format == U(3, <<"video_format">>)
             range == U(1, <<"video_full_range_flag", "colour_description_present_flag">>)
             colours == If("colour_description_present_flag", {1},
                           U(8, <<"colour_primaries", "transfer_characteristics", "matrix_coefficients">>))
             signal == format \o range \o colours
             r1 == U(1, <<"aspect_ratio_info_present_flag">>)
             r2 == U(1, <<"overscan_info_present_flag">>)
             r3 == If("overscan_info_present_flag", {1}, U(1, <<"overscan_appropriate_flag">>))
             r4 == U(1, <<"video_signal_type_present_flag">>)
             r5 == U(1, <<"chroma_loc_info_present_flag">>)
             r6 == If("chroma_loc_info_present_flag", {1},
                      U(UE, <<"chroma_sample_loc_top", "chroma_sample_loc_bottom">>))
             r7 == U(1, <<"timing_info_present_flag">>)
             r8 == If("timing_info_present_flag", {1},
                      U(16, <<"num_units_in_tick_hi", "num_units_in_tick_lo",
                              "time_scale_hi", "time_scale_lo">>)
                      \o U(1, <<"fixed_frame_rate_flag">>))
             r9 == U(1, <<"nal_hrd_present_flag">>)
             front == r1 \o ratio \o r2 \o r3 \o r4
             named == If("video_signal_type_present_flag", {1}, signal)
             W == {<<"video_signal_type_present_flag", {1}>>}
  <1>1. BeforeHrds = front \o named \o r5 \o r6 \o r7 \o r8 \o r9
    BY Zenon DEF BeforeHrds
  <1>2. /\ IsTable(r1) /\ IsTable(r2) /\ IsTable(r4) /\ IsTable(r5) /\ IsTable(r7) /\ IsTable(r9)
        /\ IsTable(format)
    BY RowsAre, CodesOfRows, Zenon
  <1>3. IsTable(r3) /\ IsTable(r6) /\ IsTable(colours)
    BY RowsAre, CodesOfRows, RowsUnder, Zenon
  <1>4. IsTable(ratio) /\ IsTable(r8)
    BY RowsAre, CodesOfRows, RowsUnder, RowsBehind, Zenon
  <1>5. IsUnder(range, "video_full_range_flag", {})
    BY CodesOfRows, TuplesAreSeqs, NamesOf, UnderNone
  <1>6. IsUnder(r4, "video_signal_type_present_flag", {})
    BY CodesOfRows, TuplesAreSeqs, NamesOf, UnderNone
  <1> HIDE DEF ratio, format, range, colours, r1, r2, r3, r4, r5, r6, r7, r8, r9
  <1>7. IsTable(front) /\ IsUnder(front, "video_signal_type_present_flag", {})
    BY <1>2, <1>3, <1>4, <1>6, UnderBehind, RowsBehind, Zenon
  <1>8. IsUnder(signal, "video_full_range_flag", {})
    BY <1>2, <1>3, <1>5, UnderInFront, UnderBehind, Zenon
  <1> HIDE DEF front, signal
  <1>9. W = {} \cup W
    OBVIOUS
  <1>10. IsUnder(named, "video_full_range_flag", W)
    BY <1>8, <1>9, UnderOneMore, Zenon
  <1> HIDE DEF named
  <1>11. IsTable(named)
    BY <1>10 DEF IsUnder
  <1>12. IsUnder(front \o named, "video_full_range_flag", W)
    BY <1>7, <1>10, UnderBehind, Zenon
  <1>13. IsUnder(front \o named \o r5 \o r6 \o r7 \o r8 \o r9, "video_full_range_flag", W)
    BY <1>2, <1>3, <1>4, <1>12, UnderInFront, ZenonT(40)
  <1>14. IsUnder(front \o named \o r5 \o r6 \o r7 \o r8 \o r9, "video_signal_type_present_flag", {})
    BY <1>2, <1>3, <1>4, <1>7, <1>11, UnderInFront, ZenonT(40)
  <1> QED BY <1>1, <1>13, <1>14

\* What is read of the range in a parameter set that is carried over.
LEMMA RangeRead ==
    ASSUME NEW p, IsParameters(p), NEW matrix \in Nat, NEW c, c = CodedSps(Carried(p, matrix)),
           NEW r, r = ReadSps(c)
    PROVE  /\ r["vui_parameters_present_flag"] = ColourOf(matrix)["vui_parameters_present_flag"]
           /\ r["vui_parameters_present_flag"] = 1 =>
                 r["video_full_range_flag"] = ColourOf(matrix)["video_full_range_flag"]
  <1>1. PICK e : e = Carried(p, matrix)
    OBVIOUS
  <1>2. AllFit(e)
    BY <1>1, CarriedFits
  <1>3. c \in Seq(Bytes) /\ Carries(BitsOf(c), 0, SpsBits(e))
    <2>1. c = CodedSps(e)
      BY <1>1
    <2>2. c \in Seq(Bytes)
      BY <1>2, <2>1, CodedIs
    <2>3. StartsWith(c, c)
      BY <2>2 DEF StartsWith
    <2> QED BY <1>2, <2>1, <2>2, <2>3, CodedIs
  <1>4. r = IF e["vui_parameters_present_flag"] = 1 THEN AfterVui(BeforeVui(e), e) ELSE BeforeVui(e)
    BY <1>2, <1>3, ReadSpsIs
  <1>5. DOMAIN e = DOMAIN p /\ \A m \in DOMAIN p : m \in ColourNames => e[m] = ColourOf(matrix)[m]
    BY <1>1, CarriedIs
  <1>6. /\ "vui_parameters_present_flag" \in ColourNames /\ "video_full_range_flag" \in ColourNames
        /\ "video_signal_type_present_flag" \in ColourNames
    BY DEF ColourNames
  <1>7. ASSUME NEW m, m \in MembersOf(read_seq_parameter_set) \/ m \in MembersOf(VuiSyntax), m \in ColourNames
        PROVE  e[m] = ColourOf(matrix)[m]
    <2>1. m \in DOMAIN p
      BY <1>7, ParametersFit
    <2> QED BY <1>5, <1>7, <2>1
  <1>8. e["vui_parameters_present_flag"] = ColourOf(matrix)["vui_parameters_present_flag"]
    <2>1. "vui_parameters_present_flag" \in Present(read_seq_parameter_set, p)
      BY FlagsThere
    <2>2. "vui_parameters_present_flag" \in MembersOf(read_seq_parameter_set)
      BY <2>1, SeqGrammar, PresentAvoids
    <2> QED BY <1>6, <1>7, <2>2
  <1>9. r["vui_parameters_present_flag"] = e["vui_parameters_present_flag"]
    <2>1. "vui_parameters_present_flag" \in Present(read_seq_parameter_set, e)
      BY FlagsThere
    <2>2. AfterVui(BeforeVui(e), e)["vui_parameters_present_flag"] = e["vui_parameters_present_flag"]
      BY <2>1, PlainTold
    <2>3. BeforeVui(e)["vui_parameters_present_flag"] = e["vui_parameters_present_flag"]
      BY <2>1, FlagsThere, ToldLast DEF BeforeVui
    <2> QED BY <1>4, <2>2, <2>3
  <1>10. ASSUME r["vui_parameters_present_flag"] = 1
         PROVE  r["video_full_range_flag"] = ColourOf(matrix)["video_full_range_flag"]
    <2>1. r = AfterVui(BeforeVui(e), e)
      BY <1>4, <1>9, <1>10
    <2>2. "video_full_range_flag" \in MembersOf(BeforeHrds)
      BY RangeUnder, UnderIsMember
    <2>3. "video_full_range_flag" \in Members /\ "video_full_range_flag" \in MembersOf(VuiSyntax)
      BY <2>2, TablesInMembers, VuiMembersAre DEF VuiMembers
    <2>4. e["video_signal_type_present_flag"] = 1
      <3>1. "video_signal_type_present_flag" \in MembersOf(VuiSyntax)
        BY RangeUnder, UnderIsMember, VuiMembersAre
      <3>2. ColourOf(matrix)["video_signal_type_present_flag"] = 1
        BY SignalTold
      <3> QED BY <1>6, <1>7, <3>1, <3>2
    <2>5. \A x \in {<<"video_signal_type_present_flag", {1}>>} : e[x[1]] \in x[2]
      BY <2>4
    <2>6. "video_full_range_flag" \in Present(BeforeHrds, e)
      BY <2>3, <2>5, RangeUnder, UnderIsPresent
    <2>7. r["video_full_range_flag"] = e["video_full_range_flag"]
      BY <2>1, <2>6, PlainTold
    <2>8. e["video_full_range_flag"] = ColourOf(matrix)["video_full_range_flag"]
      BY <1>6, <1>7, <2>3
    <2> QED BY <2>7, <2>8
  <1> QED BY <1>8, <1>9, <1>10

-----------------------------------------------------------------------------
(* A player's view *)

\* What is carried over has the profile of the parameters.
LEMMA CarriedProfile ==
    ASSUME NEW p, IsParameters(p), NEW matrix \in Nat
    PROVE  SameProfile(Carried(p, matrix)) <=> SameProfile(p)
  <1>1. PICK e : e = Carried(p, matrix)
    OBVIOUS
  <1>2. "profile_idc" \in MembersOf(read_seq_parameter_set)
    BY ScalingLists, UnderIsMember
  <1>3. "profile_idc" \in DOMAIN p
    BY <1>2, ParametersFit
  <1>4. "profile_idc" \notin ColourNames /\ "profile_idc" \notin HrdNames
    BY DEF ColourNames, HrdNames
  <1>5. e["profile_idc"] = p["profile_idc"]
    BY <1>1, <1>3, <1>4, CarriedIs
  <1> QED BY <1>1, <1>5, Zenon DEF SameProfile

\* It is coded as the encoder would.
LEMMA CarriedIsCoded ==
    ASSUME NEW p, IsParameters(p), SameProfile(p), NEW matrix \in Nat
    PROVE  EncodedSps(Carried(p, matrix)) = CodedSps(Carried(p, matrix))
  BY CarriedProfile, EncodedIsCoded

\* What is carried over of one HRD, and of one of the six matrices, is what a
\* player should find.
LEMMA CarriedIsExpected ==
    ASSUME NEW p, SameHrds(p), NEW matrix \in ColourMatrices
    PROVE  Carried(p, matrix) = Expected(p, matrix)
  <1>1. PICK shared, colours : shared = Shared(p) /\ colours = ColourOf(matrix)
    OBVIOUS
  <1>2. DOMAIN shared = DOMAIN p /\ \A m \in DOMAIN p : shared[m] = p[m]
    <2>1. CASE ~ OneHrd(p)
      <3>1. shared = p
        BY <1>1, <2>1, Zenon DEF Shared, OneHrd
      <3> QED BY <3>1
    <2>2. CASE OneHrd(p)
      <3>1. shared = [m \in DOMAIN p |->
                         IF \E h \in DOMAIN Nal : m = Nal[h]
                         THEN p[Vcl[CHOOSE h \in DOMAIN Nal : m = Nal[h]]] ELSE p[m]]
        BY <1>1, <2>2, Zenon DEF Shared, OneHrd
      <3>2. ASSUME NEW m \in DOMAIN p, \E h \in DOMAIN Nal : m = Nal[h]
            PROVE  p[Vcl[CHOOSE h \in DOMAIN Nal : m = Nal[h]]] = p[m]
        <4>1. PICK h : h = CHOOSE x \in DOMAIN Nal : m = Nal[x]
          OBVIOUS
        <4>2. h \in DOMAIN Nal /\ m = Nal[h]
          BY <3>2, <4>1, Zenon
        <4>3. p[Nal[h]] = p[Vcl[h]]
          BY <2>2, <4>2, Zenon DEF SameHrds, OneHrd
        <4> QED BY <4>1, <4>2, <4>3, Zenon
      <3>3. ASSUME NEW m \in DOMAIN p PROVE shared[m] = p[m]
        BY <3>1, <3>2, Zenon
      <3>4. DOMAIN shared = DOMAIN p
        BY <3>1, Zenon
      <3> QED BY <3>3, <3>4
    <2> QED BY <2>1, <2>2
  <1>3. Carried(p, matrix) =
            [m \in DOMAIN shared |-> IF m \in DOMAIN colours THEN colours[m] ELSE shared[m]]
    BY <1>1, Zenon DEF Carried, WithColours
  <1>4. Expected(p, matrix) =
            [m \in DOMAIN p |-> IF m \in DOMAIN colours THEN colours[m] ELSE p[m]]
    BY <1>1, Zenon DEF Expected, WithColours
  <1> QED BY <1>2, <1>3, <1>4

\* A parameter set that is read and written again keeps its members, by H.264,
\* but for an HRD that differs from another, and the VUI for a seventh matrix.
LEMMA SetIsCarried ==
    ASSUME NEW p, IsParameters(p), IsNarrow(p), SameProfile(p), NEW matrix \in Nat,
           NEW src \in Seq(Bytes), StartsWith(src, EncodedSps(p))
    PROVE  WriteSps(Tagged(ReadSps(src), matrix)) = EncodedSps(Carried(p, matrix))
  <1>1. StartsWith(src, CodedSps(p))
    BY EncodedIsCoded
  <1>2. WriteSps(Tagged(ReadSps(src), matrix)) = CodedSps(Carried(p, matrix))
    BY <1>1, CarriedOver
  <1> QED BY <1>2, CarriedIsCoded

\* A parameter set of the encoder that is read, told the colours of the setting and
\* written again is, byte by byte, the set that the encoder would have sent with these
\* colours (read_seq_parameter_set_rbsp, add_vui and write_seq_parameter_set_rbsp of
\* bitstream.cpp): for all parameters, as long as their values are narrow, the code
\* knows the syntax of the profile (bitstream.cpp:714), there are no two HRDs that
\* differ (bitstream.cpp:655-663) and the matrix is one of the six (bitstream.cpp:842).
THEOREM RoundTrip ==
    ASSUME NEW p, IsParameters(p), IsNarrow(p), SameProfile(p), SameHrds(p),
           NEW matrix \in ColourMatrices,
           NEW src \in Seq(Bytes), StartsWith(src, EncodedSps(p))
    PROVE  WriteSps(Tagged(ReadSps(src), matrix)) = EncodedSps(WithColours(p, ColourOf(matrix)))
  <1>1. matrix \in Nat
    BY DEF ColourMatrices
  <1>2. Expected(p, matrix) = WithColours(p, ColourOf(matrix))
    BY Zenon DEF Expected
  <1> QED BY <1>1, <1>2, SetIsCarried, CarriedIsExpected

=============================================================================
