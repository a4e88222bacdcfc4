--------------------------- MODULE FormParserProofs ---------------------------
(* Proofs about the form parser: what the page encodes is what the portal's     *)
(* handlers read, for every form, room and number of fields, also of a body cut *)
(* after any of them. What the recursive functions compute is proved by         *)
(* induction over the places of a string.                                       *)
EXTENDS FormParser, SequenceTheorems, WellFoundedInduction, TLAPS

\* Induction over the numbers, for a set instead of a predicate.
LEMMA Induction ==
  ASSUME NEW S, 0 \in S, \A n \in Nat : n \in S => n + 1 \in S
  PROVE  Nat \subseteq S
<1> DEFINE T == {n \in Nat : n \notin S}
           R == OpToRel(<, Nat)
<1>1. \A x, y \in Nat : x < y => <<x, y>> \in R
  BY DEF OpToRel
<1>2. IsWellFoundedOn(R, Nat)
  BY NatLessThanWellFounded
<1> HIDE DEF R
<1>3. SUFFICES ASSUME T # {} PROVE FALSE
  OBVIOUS
<1>4. PICK n \in T : \A m \in T : ~(<<m, n>> \in R)
  BY <1>2, <1>3, WFMin
<1>5. n \in Nat /\ n # 0 /\ n - 1 \in Nat /\ n - 1 < n
  OBVIOUS
<1>6. n - 1 \in T
  BY <1>5
<1> QED BY <1>1, <1>4, <1>5, <1>6

LEMMA MinOfTwo ==
  ASSUME NEW a \in Int, NEW b \in Int
  PROVE  Min({a, b}) = IF a <= b THEN a ELSE b
<1> DEFINE m == IF a <= b THEN a ELSE b
<1>1. m \in {a, b} /\ \A y \in {a, b} : m <= y
  OBVIOUS
<1>2. \A x \in {a, b} : (\A y \in {a, b} : x <= y) => x = m
  OBVIOUS
<1> HIDE DEF m
<1>3. Min({a, b}) = m
  BY <1>1, <1>2 DEF Min
<1> QED BY <1>3 DEF m

\* The least of a set.
LEMMA MinIs ==
  ASSUME NEW S, S \subseteq Int, NEW x \in S, \A y \in S : x <= y
  PROVE  Min(S) = x
<1>1. \A z \in S : (\A y \in S : z <= y) => z = x
  OBVIOUS
<1> QED BY <1>1 DEF Min

\* Induction over the places of a sequence, from its end or its beginning.
LEMMA Downwards ==
  ASSUME NEW n \in Nat, NEW S, n + 1 \in S, \A i \in 1..n : i + 1 \in S => i \in S
  PROVE  1..n + 1 \subseteq S
<1> DEFINE T == {k \in Nat : k <= n => n + 1 - k \in S}
<1>1. 0 \in T
  OBVIOUS
<1>2. ASSUME NEW k \in Nat, k \in T PROVE k + 1 \in T
  <2>1. SUFFICES ASSUME k + 1 <= n PROVE n + 1 - (k + 1) \in S
    OBVIOUS
  <2>2. n - k \in 1..n /\ n - k + 1 = n + 1 - k /\ n + 1 - (k + 1) = n - k
    BY <2>1
  <2> QED BY <1>2, <2>1, <2>2
<1>3. Nat \subseteq T
  <2> HIDE DEF T
  <2> QED BY <1>1, <1>2, Induction
<1>4. ASSUME NEW i \in 1..n + 1 PROVE i \in S
  <2>1. n + 1 - i \in Nat /\ n + 1 - (n + 1 - i) = i /\ n + 1 - i <= n
    OBVIOUS
  <2> QED BY <1>3, <2>1
<1> QED BY <1>4

LEMMA Upwards ==
  ASSUME NEW n \in Nat, NEW S, 1 \in S, \A i \in 1..n : i < n /\ i \in S => i + 1 \in S
  PROVE  1..n \subseteq S
<1> DEFINE T == {k \in Nat : k < n => k + 1 \in S}
<1>1. 0 \in T
  OBVIOUS
<1>2. ASSUME NEW k \in Nat, k \in T PROVE k + 1 \in T
  <2>1. SUFFICES ASSUME k + 1 < n PROVE k + 1 + 1 \in S
    OBVIOUS
  <2>2. k + 1 \in 1..n /\ k < n
    BY <2>1
  <2> QED BY <1>2, <2>1, <2>2
<1>3. Nat \subseteq T
  <2> HIDE DEF T
  <2> QED BY <1>1, <1>2, Induction
<1>4. ASSUME NEW i \in 1..n PROVE i \in S
  <2>1. i - 1 \in Nat /\ i - 1 < n /\ i - 1 + 1 = i
    OBVIOUS
  <2> QED BY <1>3, <2>1
<1> QED BY <1>4

\* A string put together from its end, or read from there: a piece for each place, and
\* the place that comes after it.
Chained(f, n, last, piece, next) ==
  /\ DOMAIN f = 1..last
  /\ \A i \in 1..n : f[i] = piece[i] \o f[next[i]]
  /\ \A i \in n + 1..last : f[i] = <<>>

LEMMA ChainTyped ==
  ASSUME NEW V, NEW n \in Nat, NEW last \in Nat, n <= last,
         NEW piece \in [1..n -> Seq(V)], NEW next \in [1..n -> 1..last],
         \A i \in 1..n : next[i] > i,
         NEW f, Chained(f, n, last, piece, next)
  PROVE  \A i \in 1..last : f[i] \in Seq(V)
<1> DEFINE S == {i \in 1..n + 1 : \A j \in i..last : f[j] \in Seq(V)}
<1>1. n + 1 \in S
  <2>1. \A j \in n + 1..last : f[j] = <<>>
    BY DEF Chained
  <2>2. <<>> \in Seq(V)
    BY EmptySeq
  <2>3. \A j \in n + 1..last : f[j] \in Seq(V)
    BY <2>1, <2>2, Zenon
  <2>4. n + 1 \in 1..n + 1
    OBVIOUS
  <2> QED BY <2>3, <2>4, Zenon
<1>2. ASSUME NEW i \in 1..n, i + 1 \in S PROVE i \in S
  <2>1. f[next[i]] \in Seq(V)
    BY <1>2
  <2>2. f[i] \in Seq(V)
    <3>1. f[i] = piece[i] \o f[next[i]] /\ piece[i] \in Seq(V)
      BY DEF Chained
    <3> QED BY <2>1, <3>1, ConcatProperties
  <2> QED BY <1>2, <2>2
<1>3. 1 \in S
  <2> HIDE DEF S
  <2>1. 1..n + 1 \subseteq S
    BY <1>1, <1>2, Downwards
  <2> QED BY <2>1
<1> QED BY <1>3

LEMMA ChainExists ==
  ASSUME NEW V, NEW n \in Nat, NEW last \in Nat, n <= last,
         NEW piece \in [1..n -> Seq(V)], NEW next \in [1..n -> 1..last],
         \A i \in 1..n : next[i] > i
  PROVE  \E f : Chained(f, n, last, piece, next)
<1> DEFINE Good(f, i) == /\ \A j \in i..n : f[j] = piece[j] \o f[next[j]]
                         /\ \A j \in n + 1..last : f[j] = <<>>
           S == {i \in 1..n + 1 : \E f \in [1..last -> Seq(V)] : Good(f, i)}
<1>1. n + 1 \in S
  <2> DEFINE f == [j \in 1..last |-> <<>>]
  <2>1. <<>> \in Seq(V)
    BY EmptySeq
  <2>2. f \in [1..last -> Seq(V)] /\ \A j \in n + 1..last : f[j] = <<>>
    BY <2>1
  <2> HIDE DEF f
  <2>3. Good(f, n + 1)
    <3>1. \A j \in n + 1..n : FALSE
      OBVIOUS
    <3> QED BY <2>2, <3>1, Zenon
  <2> HIDE DEF Good
  <2> QED BY <2>2, <2>3
<1>2. ASSUME NEW i \in 1..n, i + 1 \in S PROVE i \in S
  <2>1. PICK f \in [1..last -> Seq(V)] : Good(f, i + 1)
    BY <1>2
  <2> DEFINE p == piece[i] \o f[next[i]]
             g == [j \in 1..last |-> IF j = i THEN p ELSE f[j]]
  <2>2. p \in Seq(V)
    <3>1. piece[i] \in Seq(V) /\ f[next[i]] \in Seq(V)
      OBVIOUS
    <3> QED BY <3>1, ConcatProperties
  <2>3. p = piece[i] \o f[next[i]]
    OBVIOUS
  <2> HIDE DEF p
  <2>4. g \in [1..last -> Seq(V)] /\ g[i] = p /\ \A j \in 1..last : j # i => g[j] = f[j]
    BY <2>2
  <2> HIDE DEF g
  <2>5. ASSUME NEW j \in i..n PROVE g[j] = piece[j] \o g[next[j]]
    <3>1. next[j] \in 1..last /\ next[j] # i /\ g[next[j]] = f[next[j]]
      BY <2>4
    <3>2. j # i => j \in i + 1..n /\ g[j] = f[j]
      BY <2>4
    <3> QED BY <2>1, <2>3, <2>4, <3>1, <3>2
  <2>6. ASSUME NEW j \in n + 1..last PROVE g[j] = <<>>
    BY <2>1, <2>4
  <2>7. Good(g, i)
    BY <2>5, <2>6
  <2> HIDE DEF Good
  <2> QED BY <2>4, <2>7
<1>3. 1 \in S
  <2> HIDE DEF S
  <2>1. 1..n + 1 \subseteq S
    BY <1>1, <1>2, Downwards
  <2> QED BY <2>1
<1>4. PICK f \in [1..last -> Seq(V)] : Good(f, 1)
  BY <1>3
<1>5. DOMAIN f = 1..last
  OBVIOUS
<1>6. Chained(f, n, last, piece, next)
  BY <1>4, <1>5 DEF Chained
<1> QED BY <1>6

\* The recursive functions of module FormParser are such chains.
Chain(n, last, piece, next) ==
  CHOOSE f : f = [i \in 1..last |-> IF i > n THEN <<>> ELSE piece[i] \o f[next[i]]]

LEMMA ChainIs ==
  ASSUME NEW V, NEW n \in Nat, NEW last \in Nat, n <= last,
         NEW piece \in [1..n -> Seq(V)], NEW next \in [1..n -> 1..last],
         \A i \in 1..n : next[i] > i
  PROVE  /\ Chained(Chain(n, last, piece, next), n, last, piece, next)
         /\ \A i \in 1..last : Chain(n, last, piece, next)[i] \in Seq(V)
<1> DEFINE Rest(f, i) == IF i > n THEN <<>> ELSE piece[i] \o f[next[i]]
           Unfolds(f) == f = [i \in 1..last |-> Rest(f, i)]
           f == CHOOSE g : Unfolds(g)
<1>1. PICK g : Chained(g, n, last, piece, next)
  BY ChainExists
<1> DEFINE h == [i \in 1..last |-> g[i]]
<1>2. \A i \in 1..last : Rest(h, i) = Rest(g, i)
  <2>1. ASSUME NEW i \in 1..last, ~(i > n) PROVE h[next[i]] = g[next[i]]
    <3>1. i \in 1..n
      BY <2>1
    <3>2. next[i] \in 1..last
      BY <3>1
    <3> QED BY <3>2
  <2> HIDE DEF h
  <2> QED BY <2>1
<1>3. \A i \in 1..last : g[i] = Rest(g, i)
  <2>1. ASSUME NEW i \in 1..last PROVE g[i] = Rest(g, i)
    <3>1. CASE i > n
      <4>1. i \in n + 1..last
        BY <3>1
      <4> QED BY <1>1, <3>1, <4>1 DEF Chained
    <3>2. CASE ~(i > n)
      <4>1. i \in 1..n
        BY <3>2
      <4> QED BY <1>1, <3>2, <4>1 DEF Chained
    <3> QED BY <3>1, <3>2
  <2> QED BY <2>1
<1>4. Unfolds(h)
  <2> HIDE DEF Rest
  <2> QED BY <1>2, <1>3
<1>5. Unfolds(f)
  <2> HIDE DEF Unfolds
  <2> QED BY <1>4
<1>6. DOMAIN f = 1..last /\ \A i \in 1..last : f[i] = Rest(f, i)
  <2> HIDE DEF f, Rest
  <2> QED BY <1>5
<1>7. f = Chain(n, last, piece, next)
  BY DEF Chain
<1> HIDE DEF f
<1>8. ASSUME NEW i \in 1..n PROVE f[i] = piece[i] \o f[next[i]]
  <2>1. i \in 1..last /\ ~(i > n)
    OBVIOUS
  <2> QED BY <1>6, <2>1, Zenon
<1>9. ASSUME NEW i \in n + 1..last PROVE f[i] = <<>>
  <2>1. i \in 1..last /\ i > n
    OBVIOUS
  <2> QED BY <1>6, <2>1, Zenon
<1>10. Chained(f, n, last, piece, next)
  BY <1>6, <1>8, <1>9 DEF Chained
<1>11. \A i \in 1..last : f[i] \in Seq(V)
  BY <1>10, ChainTyped
<1> QED BY <1>7, <1>10, <1>11

-----------------------------------------------------------------------------
\* The page's encoding

\* The bytes of an encoded value: none means something in a body.
Safe == Unreserved \cup {Percent}

LEMMA HexDigitIs ==
  ASSUME NEW n \in 0..15
  PROVE  HexDigit(n) \in Digits \cup 65..70 /\ DigitValue(HexDigit(n)) = n
<1>1. CASE n < 10
  <2>1. HexDigit(n) = 48 + n /\ 48 + n \in Digits
    BY <1>1 DEF HexDigit, Digits
  <2>2. DigitValue(48 + n) = n
    BY <2>1 DEF DigitValue, Digits
  <2> QED BY <2>1, <2>2
<1>2. CASE ~(n < 10)
  <2>1. HexDigit(n) = 55 + n /\ 55 + n \in 65..70 /\ 55 + n \notin Digits
    BY <1>2 DEF HexDigit, Digits
  <2>2. DigitValue(55 + n) = n
    BY <2>1 DEF DigitValue, Digits
  <2> QED BY <2>1, <2>2
<1> QED BY <1>1, <1>2

LEMMA DigitValueIs == \A c \in Nat : DigitValue(c) \in Nat
BY DEF DigitValue, Digits

\* What url_decode makes of the encoding of a byte.
LEMMA EncodeByteIs ==
  ASSUME NEW b \in Chars
  PROVE  \/ EncodeByte(b) = <<b>> /\ b \in Unreserved
         \/ \E h \in Unreserved, l \in Unreserved :
              EncodeByte(b) = <<Percent, h, l>> /\ hex_decode(h, l) = b
<1>1. CASE b \in Unreserved
  BY <1>1 DEF EncodeByte
<1>2. CASE b \notin Unreserved
  <2> DEFINE h == HexDigit(b \div 16)
             l == HexDigit(b % 16)
  <2>1. b \div 16 \in 0..15 /\ b % 16 \in 0..15 /\ 16 * (b \div 16) + (b % 16) = b
    BY DEF Chars
  <2>2. h \in Unreserved /\ l \in Unreserved
    BY <2>1, HexDigitIs DEF Unreserved, Upper
  <2>3. DigitValue(h) = b \div 16 /\ DigitValue(l) = b % 16
    BY <2>1, HexDigitIs
  <2>4. hex_decode(h, l) = b
    <3>1. b % 256 = b
      BY DEF Chars
    <3> HIDE DEF h, l
    <3> QED BY <2>1, <2>3, <3>1 DEF hex_decode
  <2>5. EncodeByte(b) = <<Percent, h, l>>
    BY <1>2 DEF EncodeByte
  <2> HIDE DEF h, l
  <2> QED BY <2>2, <2>4, <2>5
<1> QED BY <1>1, <1>2

LEMMA EncodedByte ==
  ASSUME NEW b \in Chars
  PROVE  EncodeByte(b) \in Seq(Safe) /\ Len(EncodeByte(b)) \in Nat \ {0}
<1>1. CASE EncodeByte(b) = <<b>> /\ b \in Unreserved
  BY <1>1 DEF Safe
<1>2. ASSUME NEW h \in Unreserved, NEW l \in Unreserved, EncodeByte(b) = <<Percent, h, l>>
      PROVE  EncodeByte(b) \in Seq(Safe) /\ Len(EncodeByte(b)) \in Nat \ {0}
  <2>1. h \in Safe /\ l \in Safe /\ Percent \in Safe
    BY DEF Safe
  <2> QED BY <1>2, <2>1
<1> QED BY <1>1, <1>2, EncodeByteIs

\* Pieces one after the other, each with a place of its own.
LEMMA PiecesIs ==
  ASSUME NEW V, NEW n \in Nat, NEW piece \in [1..n -> Seq(V)]
  PROVE  \E f : /\ f = CHOOSE g : g = [i \in 1..n + 1 |-> IF i > n THEN <<>> ELSE piece[i] \o g[i + 1]]
                /\ \A i \in 1..n : f[i] = piece[i] \o f[i + 1]
                /\ f[n + 1] = <<>>
                /\ \A i \in 1..n + 1 : f[i] \in Seq(V)
<1> DEFINE last == n + 1
           next == [i \in 1..n |-> i + 1]
           f == Chain(n, last, piece, next)
           P(g) == g = [i \in 1..last |-> IF i > n THEN <<>> ELSE piece[i] \o g[i + 1]]
           Q(g) == g = [i \in 1..last |-> IF i > n THEN <<>> ELSE piece[i] \o g[next[i]]]
<1>1. /\ last \in Nat /\ n <= last /\ next \in [1..n -> 1..last]
      /\ \A i \in 1..n : next[i] > i /\ next[i] = i + 1
  OBVIOUS
<1>2. Chained(f, n, last, piece, next) /\ \A i \in 1..last : f[i] \in Seq(V)
  <2> HIDE DEF last, next
  <2> QED BY <1>1, ChainIs
<1>3. ASSUME NEW g PROVE P(g) <=> Q(g)
  <2>1. \A i \in 1..last : (IF i > n THEN <<>> ELSE piece[i] \o g[i + 1])
                             = (IF i > n THEN <<>> ELSE piece[i] \o g[next[i]])
    <3>1. \A i \in 1..last : ~(i > n) => i \in 1..n
      OBVIOUS
    <3> HIDE DEF last, next
    <3> QED BY <1>1, <3>1
  <2> HIDE DEF last, next
  <2> QED BY <2>1, Zenon
<1>4. f = CHOOSE g : P(g)
  <2>1. f = CHOOSE g : Q(g)
    BY DEF Chain
  <2> HIDE DEF P, Q, f
  <2> QED BY <1>3, <2>1
<1>5. n + 1 \in n + 1..last
  OBVIOUS
<1> HIDE DEF next, f
<1>6. (\A i \in 1..n : f[i] = piece[i] \o f[i + 1]) /\ f[n + 1] = <<>>
  BY <1>1, <1>2, <1>5 DEF Chained
<1> QED BY <1>2, <1>4, <1>6

\* EncodeURIComponent, byte by byte.
LEMMA EncodeIs ==
  ASSUME NEW s \in Seq(Chars)
  PROVE  \E f : /\ EncodeURIComponent(s) = f[1]
                /\ \A i \in 1..Len(s) : f[i] = EncodeByte(s[i]) \o f[i + 1]
                /\ f[Len(s) + 1] = <<>>
                /\ \A i \in 1..Len(s) + 1 : f[i] \in Seq(Safe)
<1> DEFINE n == Len(s)
           piece == [i \in 1..n |-> EncodeByte(s[i])]
           P(g) == g = [i \in 1..n + 1 |-> IF i > n THEN <<>> ELSE EncodeByte(s[i]) \o g[i + 1]]
           Q(g) == g = [i \in 1..n + 1 |-> IF i > n THEN <<>> ELSE piece[i] \o g[i + 1]]
<1>1. n \in Nat /\ \A i \in 1..n : s[i] \in Chars
  BY LenProperties, ElementOfSeq
<1>2. piece \in [1..n -> Seq(Safe)] /\ \A i \in 1..n : piece[i] = EncodeByte(s[i])
  BY <1>1, EncodedByte
<1>3. ASSUME NEW g PROVE P(g) <=> Q(g)
  <2> HIDE DEF piece, n
  <2>1. \A i \in 1..n + 1 : (IF i > n THEN <<>> ELSE EncodeByte(s[i]) \o g[i + 1])
                              = (IF i > n THEN <<>> ELSE piece[i] \o g[i + 1])
    BY <1>1, <1>2
  <2> QED BY <2>1, Zenon
<1>4. EncodeURIComponent(s) = (CHOOSE g : P(g))[1]
  BY DEF EncodeURIComponent
<1>5. (CHOOSE g : P(g)) = (CHOOSE g : Q(g))
  <2> HIDE DEF P, Q
  <2> QED BY <1>3
<1> HIDE DEF piece, n
<1>6. PICK f : /\ f = (CHOOSE g : Q(g))
               /\ \A i \in 1..n : f[i] = piece[i] \o f[i + 1]
               /\ f[n + 1] = <<>>
               /\ \A i \in 1..n + 1 : f[i] \in Seq(Safe)
  BY <1>1, <1>2, PiecesIs
<1> HIDE DEF P, Q
<1> QED BY <1>2, <1>4, <1>5, <1>6 DEF n

\* u is s followed by t.
Joins(u, s, t) ==
  /\ Len(s) \in Nat /\ Len(t) \in Nat /\ Len(u) = Len(s) + Len(t)
  /\ \A j \in 1..Len(s) : u[j] = s[j]
  /\ \A j \in 1..Len(t) : u[Len(s) + j] = t[j]

LEMMA Joined ==
  ASSUME NEW V, NEW s \in Seq(V), NEW t \in Seq(V)
  PROVE  s \o t \in Seq(V) /\ Joins(s \o t, s, t)
<1> DEFINE p == Len(s)
           m == Len(t)
           u == s \o t
<1>1. p \in Nat /\ m \in Nat /\ u \in Seq(V) /\ Len(u) = p + m
  BY LenProperties, ConcatProperties
<1>2. \A i \in 1..p + m : u[i] = IF i <= p THEN s[i] ELSE t[i - p]
  BY ConcatProperties
<1> HIDE DEF p, m, u
<1>3. ASSUME NEW j \in 1..p PROVE u[j] = s[j]
  <2>1. j \in 1..p + m /\ j <= p
    BY <1>1
  <2> QED BY <1>2, <2>1
<1>4. ASSUME NEW j \in 1..m PROVE u[p + j] = t[j]
  <2> DEFINE k == p + j
  <2>1. k \in 1..p + m /\ ~(k <= p) /\ k - p = j
    BY <1>1
  <2> HIDE DEF k
  <2>2. u[k] = t[j]
    BY <1>2, <2>1
  <2> QED BY <2>2 DEF k
<1>5. Joins(u, s, t)
  BY <1>1, <1>3, <1>4 DEF Joins, p, m
<1> QED BY <1>1, <1>5 DEF u

\* s is the end of u.
EndsIn(u, s) ==
  /\ Len(u) - Len(s) \in Nat
  /\ \A j \in 1..Len(s) : u[Len(u) - Len(s) + j] = s[j]

\* Where the rest of a chain is in all of it.
LEMMA Suffixes ==
  ASSUME NEW V, NEW n \in Nat, NEW piece, NEW f,
         \A i \in 1..n : piece[i] \in Seq(V) /\ f[i] = piece[i] \o f[i + 1],
         \A i \in 1..n + 1 : f[i] \in Seq(V)
  PROVE  \A i \in 1..n + 1 : EndsIn(f[1], f[i])
<1> DEFINE S == {i \in 1..n + 1 : EndsIn(f[1], f[i])}
<1>1. 1 \in S
  <2>1. 1 \in 1..n + 1 /\ Len(f[1]) \in Nat
    BY LenProperties
  <2>2. EndsIn(f[1], f[1])
    BY <2>1 DEF EndsIn
  <2> QED BY <2>1, <2>2
<1>2. ASSUME NEW i \in 1..n + 1, i < n + 1, i \in S PROVE i + 1 \in S
  <2> DEFINE a == Len(f[1])
             l == Len(f[i])
             m == Len(f[i + 1])
             p == Len(piece[i])
  <2>1. i \in 1..n /\ i + 1 \in 1..n + 1
    BY <1>2
  <2>2. a \in Nat /\ l \in Nat /\ m \in Nat /\ p \in Nat
    BY <2>1, LenProperties
  <2>3. l = p + m /\ \A j \in 1..m : f[i][p + j] = f[i + 1][j]
    <3>1. f[i] = piece[i] \o f[i + 1] /\ piece[i] \in Seq(V) /\ f[i + 1] \in Seq(V)
      BY <2>1
    <3>2. Joins(f[i], piece[i], f[i + 1])
      BY <3>1, Joined
    <3> QED BY <3>2 DEF Joins
  <2>4. a - l \in Nat /\ \A j \in 1..l : f[1][a - l + j] = f[i][j]
    BY <1>2 DEF EndsIn
  <2> HIDE DEF a, l, m, p
  <2>5. a - m \in Nat
    BY <2>2, <2>3, <2>4
  <2>6. ASSUME NEW j \in 1..m PROVE f[1][a - m + j] = f[i + 1][j]
    <3>1. p + j \in 1..l /\ a - l + (p + j) = a - m + j
      BY <2>2, <2>3
    <3>2. f[1][a - l + (p + j)] = f[i][p + j]
      BY <2>4, <3>1
    <3> QED BY <2>3, <3>1, <3>2
  <2>7. EndsIn(f[1], f[i + 1])
    BY <2>5, <2>6 DEF EndsIn, a, m
  <2> QED BY <2>1, <2>7
<1>3. 1..n + 1 \subseteq S
  <2>1. n + 1 \in Nat
    OBVIOUS
  <2> HIDE DEF S
  <2> QED BY <1>1, <1>2, <2>1, Upwards
<1> QED BY <1>3

\* src has t after x bytes.
HasAt(src, x, t) == \A j \in 1..Len(t) : src[x + j] = t[j]

\* Where src has the encoding of s: byte i of s comes after pos[i] bytes of src.
Encodes(src, s, pos) ==
  /\ pos \in [1..Len(s) + 1 -> Nat] /\ pos[1] = 0
  /\ \A i \in 1..Len(s) :
       pos[i + 1] = pos[i] + Len(EncodeByte(s[i])) /\ HasAt(src, pos[i], EncodeByte(s[i]))

\* Pieces that follow each other, and how many bytes are before each.
Laid(t, n, piece, pos) ==
  /\ pos \in [1..n + 1 -> Nat] /\ pos[1] = 0 /\ pos[n + 1] = Len(t)
  /\ \A i \in 1..n : pos[i + 1] = pos[i] + Len(piece[i]) /\ HasAt(t, pos[i], piece[i])

LEMMA LaidOut ==
  ASSUME NEW V, NEW n \in Nat, NEW piece \in [1..n -> Seq(V)], NEW f,
         \A i \in 1..n : f[i] = piece[i] \o f[i + 1], f[n + 1] = <<>>,
         \A i \in 1..n + 1 : f[i] \in Seq(V)
  PROVE  f[1] \in Seq(V) /\ \E pos : Laid(f[1], n, piece, pos)
<1> DEFINE all == Len(f[1])
           pos == [i \in 1..n + 1 |-> all - Len(f[i])]
<1>1. \A i \in 1..n : piece[i] \in Seq(V)
  OBVIOUS
<1>2. \A i \in 1..n + 1 : EndsIn(f[1], f[i])
  BY <1>1, Suffixes
<1>3. 1 \in 1..n + 1 /\ n + 1 \in 1..n + 1 /\ \A i \in 1..n + 1 : Len(f[i]) \in Nat
  BY LenProperties
<1>4. pos \in [1..n + 1 -> Nat] /\ pos[1] = 0 /\ pos[n + 1] = all
  <2>1. Len(f[n + 1]) = 0
    BY EmptySeq
  <2>2. pos[1] = all - Len(f[1]) /\ pos[n + 1] = all - Len(f[n + 1]) /\ all \in Nat
    BY <1>3
  <2>3. pos \in [1..n + 1 -> Nat]
    BY <1>2 DEF EndsIn
  <2>4. all - all = 0 /\ all - 0 = all
    BY <2>2
  <2> HIDE DEF pos
  <2> QED BY <2>1, <2>2, <2>3, <2>4
<1>5. ASSUME NEW i \in 1..n
      PROVE  pos[i + 1] = pos[i] + Len(piece[i]) /\ HasAt(f[1], pos[i], piece[i])
  <2> DEFINE b == piece[i]
  <2>1. i \in 1..n + 1 /\ i + 1 \in 1..n + 1 /\ b \in Seq(V)
    OBVIOUS
  <2>2. f[i] = b \o f[i + 1] /\ f[i + 1] \in Seq(V)
    BY <2>1
  <2>3. /\ Len(b) \in Nat /\ Len(f[i]) = Len(b) + Len(f[i + 1]) /\ Len(f[i + 1]) \in Nat
        /\ \A j \in 1..Len(b) : f[i][j] = b[j]
    <3> HIDE DEF b
    <3>1. Joins(f[i], b, f[i + 1])
      BY <2>1, <2>2, Joined
    <3> QED BY <3>1 DEF Joins
  <2>4. pos[i] = all - Len(f[i]) /\ pos[i + 1] = all - Len(f[i + 1])
    BY <2>1
  <2> HIDE DEF b, pos
  <2>5. ASSUME NEW j \in 1..Len(b) PROVE f[1][pos[i] + j] = b[j]
    <3>1. f[i][j] = b[j] /\ j \in 1..Len(f[i])
      BY <2>3
    <3> QED BY <1>2, <2>1, <2>4, <3>1 DEF EndsIn
  <2>6. pos[i + 1] = pos[i] + Len(b)
    BY <1>2, <1>3, <2>1, <2>3, <2>4 DEF EndsIn
  <2> QED BY <2>5, <2>6 DEF b, HasAt
<1> HIDE DEF pos
<1>6. Laid(f[1], n, piece, pos)
  BY <1>4, <1>5 DEF Laid
<1> QED BY <1>3, <1>6

\* A piece comes after those before it.
LEMMA InOrder ==
  ASSUME NEW t, NEW n \in Nat, NEW V, NEW piece \in [1..n -> Seq(V)], NEW pos, Laid(t, n, piece, pos),
         NEW k \in 0..n
  PROVE  \A i \in 1..k + 1 : pos[i] <= pos[k + 1]
<1> DEFINE e == pos[k + 1]
           S == {i \in 1..k + 1 : pos[i] <= e}
<1>1. pos \in [1..n + 1 -> Nat] /\ k \in Nat /\ e \in Nat
  BY DEF Laid
<1>2. k + 1 \in S
  BY <1>1
<1> HIDE DEF e
<1>3. ASSUME NEW i \in 1..k, i + 1 \in S PROVE i \in S
  <2>1. pos[i + 1] = pos[i] + Len(piece[i]) /\ pos[i] \in Nat /\ Len(piece[i]) \in Nat
    BY LenProperties DEF Laid
  <2> QED BY <1>1, <1>3, <2>1
<1>4. 1..k + 1 \subseteq S
  <2> HIDE DEF S
  <2> QED BY <1>1, <1>2, <1>3, Downwards
<1> QED BY <1>4 DEF e

LEMMA ValueEncodes ==
  ASSUME NEW s \in Seq(Chars), NEW src,
         HasAt(src, 0, EncodeURIComponent(s))
  PROVE  /\ EncodeURIComponent(s) \in Seq(Safe)
         /\ \E pos : Encodes(src, s, pos) /\ pos[Len(s) + 1] = Len(EncodeURIComponent(s))
<1> DEFINE n == Len(s)
           piece == [i \in 1..n |-> EncodeByte(s[i])]
           t == EncodeURIComponent(s)
<1>1. n \in Nat /\ \A i \in 1..n : s[i] \in Chars
  BY LenProperties, ElementOfSeq
<1>2. piece \in [1..n -> Seq(Safe)] /\ \A i \in 1..n : piece[i] = EncodeByte(s[i])
  BY <1>1, EncodedByte
<1>3. PICK f : /\ t = f[1]
               /\ \A i \in 1..n : f[i] = EncodeByte(s[i]) \o f[i + 1]
               /\ f[n + 1] = <<>>
               /\ \A i \in 1..n + 1 : f[i] \in Seq(Safe)
  BY EncodeIs
<1> HIDE DEF piece, n
<1>4. t \in Seq(Safe) /\ \E pos : Laid(t, n, piece, pos)
  <2> HIDE DEF t
  <2>1. \A i \in 1..n : f[i] = piece[i] \o f[i + 1]
    BY <1>2, <1>3
  <2> QED BY <1>1, <1>2, <1>3, <2>1, LaidOut
<1>5. PICK pos : Laid(t, n, piece, pos)
  BY <1>4
<1> HIDE DEF t
<1>6. Len(t) \in Nat /\ \A i \in 1..n + 1 : pos[i] <= Len(t)
  <2>1. Len(t) \in Nat
    BY <1>4, LenProperties
  <2>2. n \in 0..n /\ pos[n + 1] = Len(t)
    BY <1>1, <1>5 DEF Laid
  <2>3. \A i \in 1..n + 1 : pos[i] <= pos[n + 1]
    BY <1>1, <1>2, <1>5, <2>2, InOrder
  <2> QED BY <2>1, <2>2, <2>3
<1>7. ASSUME NEW i \in 1..n
      PROVE  pos[i + 1] = pos[i] + Len(EncodeByte(s[i])) /\ HasAt(src, pos[i], EncodeByte(s[i]))
  <2>1. /\ pos[i] \in Nat /\ pos[i + 1] = pos[i] + Len(piece[i]) /\ pos[i + 1] <= Len(t)
        /\ piece[i] = EncodeByte(s[i]) /\ Len(piece[i]) \in Nat
    BY <1>1, <1>2, <1>5, <1>6, LenProperties DEF Laid
  <2>2. ASSUME NEW j \in 1..Len(piece[i]) PROVE src[pos[i] + j] = piece[i][j]
    <3> DEFINE k == pos[i] + j
    <3>1. k \in 1..Len(t) /\ 0 + k = k
      BY <1>6, <2>1
    <3>2. t[k] = piece[i][j]
      BY <1>5 DEF Laid, HasAt
    <3> HIDE DEF k
    <3>3. src[k] = t[k]
      BY <3>1 DEF HasAt, t
    <3> QED BY <3>2, <3>3 DEF k
  <2> QED BY <2>1, <2>2 DEF HasAt
<1>8. Encodes(src, s, pos) /\ pos[n + 1] = Len(t)
  BY <1>5, <1>7 DEF Encodes, Laid, n
<1> QED BY <1>4, <1>8 DEF t, n

\* A key is its own encoding.
LEMMA KeyEncodes ==
  ASSUME NEW s \in Seq(Unreserved)
  PROVE  \E pos : Encodes(s, s, pos) /\ pos[Len(s) + 1] = Len(s)
<1> DEFINE n == Len(s)
           pos == [i \in 1..n + 1 |-> i - 1]
<1>1. n \in Nat /\ \A i \in 1..n : s[i] \in Unreserved
  BY LenProperties, ElementOfSeq
<1>2. pos \in [1..n + 1 -> Nat] /\ pos[1] = 0 /\ pos[n + 1] = n
  BY <1>1
<1>3. ASSUME NEW i \in 1..n
      PROVE  pos[i + 1] = pos[i] + Len(EncodeByte(s[i])) /\ HasAt(s, pos[i], EncodeByte(s[i]))
  <2>1. EncodeByte(s[i]) = <<s[i]>>
    BY <1>1 DEF EncodeByte
  <2>2. pos[i] = i - 1 /\ pos[i + 1] = i /\ i \in Nat
    BY <1>1
  <2>3. Len(<<s[i]>>) = 1 /\ <<s[i]>>[1] = s[i] /\ \A j \in 1..1 : j = 1
    OBVIOUS
  <2> HIDE DEF pos
  <2> QED BY <2>1, <2>2, <2>3 DEF HasAt
<1> HIDE DEF pos
<1>4. Encodes(s, s, pos)
  BY <1>2, <1>3 DEF Encodes
<1> QED BY <1>2, <1>4

-----------------------------------------------------------------------------
\* url_decode

LEMMA Part ==
  ASSUME NEW V, NEW s \in Seq(V), NEW m \in Nat, NEW n \in Nat, 1 <= m, m <= n + 1, n <= Len(s)
  PROVE  /\ SubSeq(s, m, n) \in Seq(V) /\ Len(SubSeq(s, m, n)) = n + 1 - m
         /\ \A i \in 1..n + 1 - m : SubSeq(s, m, n)[i] = s[m - 1 + i]
<1>1. \A i \in m..n : s[i] \in V
  BY ElementOfSeq, LenProperties
<1>2. /\ SubSeq(s, m, n) \in Seq(V)
      /\ Len(SubSeq(s, m, n)) = IF m <= n THEN n - m + 1 ELSE 0
      /\ \A i \in 1..n - m + 1 : SubSeq(s, m, n)[i] = s[m + i - 1]
  BY <1>1, SubSeqProperties
<1> DEFINE t == SubSeq(s, m, n)
<1> HIDE DEF t
<1>3. Len(t) = n + 1 - m
  BY <1>2 DEF t
<1>4. ASSUME NEW i \in 1..n + 1 - m PROVE t[i] = s[m - 1 + i]
  <2>1. i \in 1..n - m + 1 /\ m + i - 1 = m - 1 + i
    OBVIOUS
  <2>2. t[i] = s[m + i - 1]
    BY <1>2, <2>1 DEF t
  <2> QED BY <2>1, <2>2
<1> QED BY <1>2, <1>3, <1>4 DEF t

LEMMA Prefix ==
  ASSUME NEW V, NEW s \in Seq(V), NEW m \in 0..Len(s)
  PROVE  /\ SubSeq(s, 1, m) \in Seq(V) /\ Len(SubSeq(s, 1, m)) = m
         /\ \A i \in 1..m : SubSeq(s, 1, m)[i] = s[i]
<1>1. Len(s) \in Nat
  BY LenProperties
<1>2. m \in Nat /\ m <= Len(s) /\ m + 1 - 1 = m
  BY <1>1
<1> DEFINE t == SubSeq(s, 1, m)
<1>3. t \in Seq(V) /\ Len(t) = m + 1 - 1 /\ \A i \in 1..m + 1 - 1 : t[i] = s[1 - 1 + i]
  BY <1>2, Part
<1> HIDE DEF t
<1>4. ASSUME NEW i \in 1..m PROVE t[i] = s[i]
  <2>1. i \in 1..m + 1 - 1 /\ 1 - 1 + i = i
    BY <1>2
  <2>2. t[i] = s[1 - 1 + i]
    BY <1>3, <2>1
  <2> QED BY <2>1, <2>2
<1> QED BY <1>2, <1>3, <1>4 DEF t

\* A string ends where its buffer does, or with its first NUL.
LEMMA CStringIs ==
  ASSUME NEW buffer \in Seq(Nat), NEW m \in 0..Len(buffer),
         \A i \in 1..m : buffer[i] # NUL,
         m = Len(buffer) \/ buffer[m + 1] = NUL
  PROVE  CString(buffer) = SubSeq(buffer, 1, m)
<1> DEFINE S == {i \in 1..Len(buffer) : buffer[i] = NUL} \cup {Len(buffer) + 1}
<1>1. Len(buffer) \in Nat
  BY LenProperties
<1>2. S \subseteq Int /\ m + 1 \in S
  BY <1>1
<1>3. \A y \in S : m + 1 <= y
  BY <1>1
<1>4. Min(S) = m + 1
  <2> HIDE DEF S
  <2> QED BY <1>2, <1>3, MinIs
<1>5. m + 1 - 1 = m
  BY <1>1
<1> HIDE DEF S
<1>6. CString(buffer) = SubSeq(buffer, 1, Min(S) - 1)
  BY DEF CString, S
<1> QED BY <1>4, <1>5, <1>6

\* What url_decode has put together from place i on, before it is cut.
Decodes(f, src) ==
  /\ \A i \in 1..Len(src) :
       f[i] = IF src[i] = Percent /\ i + 2 <= Len(src)
              THEN <<hex_decode(src[i + 1], src[i + 2])>> \o f[i + 3]
              ELSE <<IF src[i] = Plus THEN Space ELSE src[i]>> \o f[i + 1]
  /\ f[Len(src) + 1] = <<>>
  /\ \A i \in 1..Len(src) + 1 : f[i] \in Seq(Nat)

LEMMA DecodeIs ==
  ASSUME NEW src \in Seq(Nat), NEW dst_len
  PROVE  \E f : /\ Decodes(f, src)
                /\ url_decode(src, dst_len) =
                     CString(SubSeq(f[1], 1, Min({dst_len - 1, Len(f[1])})))
<1> DEFINE n == Len(src)
           Escape(i) == src[i] = Percent /\ i + 2 <= n
           byte == [i \in 1..n |-> IF Escape(i) THEN hex_decode(src[i + 1], src[i + 2])
                                   ELSE IF src[i] = Plus THEN Space ELSE src[i]]
           piece == [i \in 1..n |-> <<byte[i]>>]
           next == [i \in 1..n |-> IF Escape(i) THEN i + 3 ELSE i + 1]
           Body1(g, i) == IF i > n THEN <<>>
                          ELSE IF Escape(i)
                               THEN <<hex_decode(src[i + 1], src[i + 2])>> \o g[i + 3]
                               ELSE <<IF src[i] = Plus THEN Space ELSE src[i]>> \o g[i + 1]
           Unfolds(g) == g = [i \in 1..n + 1 |-> Body1(g, i)]
           Q(g) == g = [i \in 1..n + 1 |-> IF i > n THEN <<>> ELSE piece[i] \o g[next[i]]]
           f == CHOOSE g : Unfolds(g)
<1>1. n \in Nat /\ n + 1 \in Nat /\ n <= n + 1 /\ \A i \in 1..n : src[i] \in Nat
  BY LenProperties, ElementOfSeq
<1>2. ASSUME NEW i \in 1..n PROVE byte[i] \in Nat
  <2>1. CASE Escape(i)
    <3>1. i + 1 \in 1..n /\ i + 2 \in 1..n
      BY <1>1, <2>1
    <3>2. DigitValue(src[i + 1]) \in Nat /\ DigitValue(src[i + 2]) \in Nat
      BY <1>1, <3>1, DigitValueIs
    <3>3. \A x, y \in Nat : (16 * x + y) % 256 \in Nat
      OBVIOUS
    <3>4. hex_decode(src[i + 1], src[i + 2]) \in Nat
      BY <3>2, <3>3 DEF hex_decode
    <3> QED BY <2>1, <3>4
  <2>2. CASE ~Escape(i)
    <3>1. src[i] \in Nat /\ Space \in Nat
      BY <1>1 DEF Space
    <3> QED BY <2>2, <3>1
  <2> QED BY <2>1, <2>2
<1>3. piece \in [1..n -> Seq(Nat)] /\ \A i \in 1..n : piece[i] = <<byte[i]>>
  <2> HIDE DEF byte
  <2>1. \A i \in 1..n : <<byte[i]>> \in Seq(Nat)
    BY <1>2
  <2> QED BY <2>1
<1>4. next \in [1..n -> 1..n + 1] /\ \A i \in 1..n : next[i] > i
  <2>1. ASSUME NEW i \in 1..n PROVE next[i] \in 1..n + 1 /\ next[i] > i
    <3>1. CASE Escape(i)
      <4>1. i + 2 <= n /\ next[i] = i + 3
        BY <3>1
      <4> HIDE DEF n, next, Escape
      <4> QED BY <1>1, <4>1
    <3>2. CASE ~Escape(i)
      <4>1. next[i] = i + 1
        BY <3>2
      <4> HIDE DEF n, next, Escape
      <4> QED BY <1>1, <4>1
    <3> QED BY <3>1, <3>2
  <2>2. next = [i \in 1..n |-> next[i]]
    OBVIOUS
  <2> HIDE DEF n, next
  <2> QED BY <2>1, <2>2
<1>5. ASSUME NEW i \in 1..n, NEW g
      PROVE  Body1(g, i) = piece[i] \o g[next[i]]
  <2>1. ~(i > n) /\ piece[i] = <<byte[i]>>
    BY <1>1, <1>3
  <2>2. CASE Escape(i)
    <3>1. byte[i] = hex_decode(src[i + 1], src[i + 2]) /\ next[i] = i + 3
      BY <2>2
    <3> HIDE DEF byte, piece, next, n, Escape
    <3> QED BY <2>1, <2>2, <3>1, Zenon
  <2>3. CASE ~Escape(i)
    <3>1. byte[i] = (IF src[i] = Plus THEN Space ELSE src[i]) /\ next[i] = i + 1
      BY <2>3
    <3> HIDE DEF byte, piece, next, n, Escape
    <3> QED BY <2>1, <2>3, <3>1, Zenon
  <2> QED BY <2>2, <2>3
<1> HIDE DEF Body1, byte, piece, next, Escape, n
<1>6. ASSUME NEW g PROVE Unfolds(g) <=> Q(g)
  <2>1. \A i \in 1..n + 1 : Body1(g, i) = IF i > n THEN <<>> ELSE piece[i] \o g[next[i]]
    <3>1. ASSUME NEW i \in 1..n + 1 PROVE Body1(g, i) = IF i > n THEN <<>> ELSE piece[i] \o g[next[i]]
      <4>1. CASE i > n
        BY <4>1, Zenon DEF Body1
      <4>2. CASE ~(i > n)
        <5>1. i \in 1..n
          BY <1>1, <4>2
        <5> QED BY <1>5, <4>2, <5>1
      <4> QED BY <4>1, <4>2
    <3> QED BY <3>1
  <2> QED BY <2>1, Zenon
<1>7. f = Chain(n, n + 1, piece, next)
  <2>1. f = CHOOSE g : Q(g)
    <3> HIDE DEF Unfolds, Q
    <3> QED BY <1>6
  <2> QED BY <2>1 DEF Chain
<1> HIDE DEF f
<1>8. Chained(f, n, n + 1, piece, next) /\ \A i \in 1..n + 1 : f[i] \in Seq(Nat)
  BY <1>1, <1>3, <1>4, <1>7, ChainIs
<1>9. f[n + 1] = <<>>
  <2>1. n + 1 \in n + 1..n + 1
    BY <1>1
  <2> QED BY <1>8, <2>1 DEF Chained
<1>10. ASSUME NEW i \in 1..n
       PROVE  f[i] = IF Escape(i) THEN <<hex_decode(src[i + 1], src[i + 2])>> \o f[i + 3]
                     ELSE <<IF src[i] = Plus THEN Space ELSE src[i]>> \o f[i + 1]
  <2>1. ~(i > n)
    BY <1>1
  <2>2. f[i] = Body1(f, i)
    BY <1>5, <1>8 DEF Chained
  <2> QED BY <2>1, <2>2, Zenon DEF Body1
<1>11. url_decode(src, dst_len) = CString(SubSeq(f[1], 1, Min({dst_len - 1, Len(f[1])})))
  BY DEF url_decode, Body1, Escape, f, n
<1>12. Decodes(f, src)
  BY <1>8, <1>9, <1>10 DEF Decodes, Escape, n
<1> QED BY <1>11, <1>12

\* A byte in front of what follows it.
LEMMA InFront ==
  ASSUME NEW V, NEW b \in V, NEW t \in Seq(V)
  PROVE  /\ Len(<<b>> \o t) = 1 + Len(t) /\ Len(t) \in Nat
         /\ (<<b>> \o t)[1] = b
         /\ \A j \in 1..Len(t) : (<<b>> \o t)[1 + j] = t[j]
<1>1. <<b>> \in Seq(V) /\ Len(<<b>>) = 1 /\ <<b>>[1] = b
  OBVIOUS
<1>2. Joins(<<b>> \o t, <<b>>, t)
  BY <1>1, Joined
<1>3. 1 \in 1..1
  OBVIOUS
<1> QED BY <1>1, <1>2, <1>3 DEF Joins

\* One encoded byte decoded: after x bytes of the source it is b that comes, and then
\* what comes after y.
Gives(f, x, b, y) == f[x + 1] = <<b>> \o f[y + 1]

LEMMA DecodeByte ==
  ASSUME NEW src \in Seq(Nat), NEW f, Decodes(f, src), NEW b \in Chars, NEW x \in Nat, NEW y \in Nat,
         y = x + Len(EncodeByte(b)), y <= Len(src),
         HasAt(src, x, EncodeByte(b))
  PROVE  Gives(f, x, b, y)
<1>1. Len(src) \in Nat
  BY LenProperties
<1>2. CASE EncodeByte(b) = <<b>> /\ b \in Unreserved
  <2>1. Len(EncodeByte(b)) = 1 /\ EncodeByte(b)[1] = b
    BY <1>2
  <2>2. src[x + 1] = b /\ x + 1 \in 1..Len(src)
    BY <1>1, <2>1 DEF HasAt
  <2>3. b # Percent /\ b # Plus
    BY <1>2, SMTT(30) DEF Unreserved, Digits, Upper, Lower, Percent, Plus
  <2>4. f[x + 1] = <<b>> \o f[x + 1 + 1]
    BY <2>2, <2>3 DEF Decodes
  <2>5. y = x + 1
    BY <2>1
  <2> QED BY <2>4, <2>5 DEF Gives
<1>3. ASSUME NEW h \in Unreserved, NEW l \in Unreserved,
             EncodeByte(b) = <<Percent, h, l>>, hex_decode(h, l) = b
      PROVE  Gives(f, x, b, y)
  <2>1. /\ Len(EncodeByte(b)) = 3 /\ EncodeByte(b)[1] = Percent
        /\ EncodeByte(b)[2] = h /\ EncodeByte(b)[3] = l
    BY <1>3
  <2>2. 1 \in 1..3 /\ 2 \in 1..3 /\ 3 \in 1..3
    OBVIOUS
  <2>3. src[x + 1] = Percent /\ src[x + 2] = h /\ src[x + 3] = l
    BY <2>1, <2>2 DEF HasAt
  <2> DEFINE i == x + 1
  <2>4. i \in 1..Len(src) /\ i + 2 <= Len(src) /\ i + 1 = x + 2 /\ i + 2 = x + 3 /\ i + 3 = x + 3 + 1
    BY <1>1, <2>1
  <2> HIDE DEF i
  <2>5. src[i] = Percent /\ src[i + 1] = h /\ src[i + 2] = l
    BY <2>3, <2>4 DEF i
  <2>6. f[i] = <<hex_decode(src[i + 1], src[i + 2])>> \o f[i + 3]
    BY <2>4, <2>5 DEF Decodes
  <2>7. f[i] = <<b>> \o f[x + 3 + 1]
    BY <1>3, <2>4, <2>5, <2>6
  <2>8. y = x + 3
    BY <2>1
  <2> QED BY <2>7, <2>8 DEF Gives, i
<1> QED BY <1>2, <1>3, EncodeByteIs

\* The rest of an encoded string is decoded to the rest of the string.
LEMMA DecodeEncoded ==
  ASSUME NEW src \in Seq(Nat), NEW f, Decodes(f, src), NEW s \in Seq(Chars), NEW pos,
         Encodes(src, s, pos), pos[Len(s) + 1] <= Len(src)
  PROVE  Joins(f[1], s, f[pos[Len(s) + 1] + 1])
<1> DEFINE n == Len(s)
           e == pos[n + 1]
           rest == f[e + 1]
           Rest(i) == /\ pos[i] <= e
                      /\ Len(f[pos[i] + 1]) = n + 1 - i + Len(rest)
                      /\ \A k \in i..n : f[pos[i] + 1][k + 1 - i] = s[k]
                      /\ \A k \in 1..Len(rest) : f[pos[i] + 1][n + 1 - i + k] = rest[k]
           S == {i \in 1..n + 1 : Rest(i)}
<1>1. n \in Nat /\ Len(src) \in Nat /\ \A i \in 1..n : s[i] \in Chars
  BY LenProperties, ElementOfSeq
<1>2. pos \in [1..n + 1 -> Nat] /\ pos[1] = 0
  BY DEF Encodes
<1>3. e \in Nat /\ rest \in Seq(Nat) /\ Len(rest) \in Nat
  <2>1. e \in Nat /\ e + 1 \in 1..Len(src) + 1
    BY <1>1, <1>2, SMTT(30)
  <2>2. rest \in Seq(Nat)
    <3> HIDE DEF n, e
    <3> QED BY <2>1 DEF Decodes
  <2> QED BY <2>1, <2>2, LenProperties
<1> HIDE DEF rest
<1>4. n + 1 \in S
  <2>1. /\ n + 1 \in 1..n + 1 /\ n + 1 - (n + 1) = 0 /\ ~\E k \in n + 1..n : TRUE
        /\ e <= e
    BY <1>1, <1>3
  <2>2. Len(f[pos[n + 1] + 1]) = n + 1 - (n + 1) + Len(rest)
    <3> HIDE DEF n
    <3> QED BY <1>3, <2>1 DEF rest
  <2>3. ASSUME NEW k \in 1..Len(rest) PROVE f[pos[n + 1] + 1][n + 1 - (n + 1) + k] = rest[k]
    <3>1. n + 1 - (n + 1) + k = k
      BY <1>1
    <3> HIDE DEF n
    <3> QED BY <3>1 DEF rest
  <2>4. Rest(n + 1)
    <3> HIDE DEF n
    <3> QED BY <2>1, <2>2, <2>3
  <2> HIDE DEF Rest, n
  <2> QED BY <2>1, <2>4
<1>5. ASSUME NEW i \in 1..n, i + 1 \in S PROVE i \in S
  <2> DEFINE x == pos[i]
             w == Len(EncodeByte(s[i]))
             g == f[pos[i + 1] + 1]
  <2>1. Rest(i + 1)
    BY <1>5
  <2>2. /\ i \in 1..n + 1 /\ i + 1 \in 1..n + 1 /\ s[i] \in Chars /\ x \in Nat /\ w \in Nat
        /\ pos[i + 1] = x + w /\ pos[i + 1] \in Nat
    <3>1. s[i] \in Chars /\ w \in Nat
      BY <1>1, EncodedByte
    <3>2. i \in 1..n + 1 /\ i + 1 \in 1..n + 1
      BY <1>1
    <3>3. x \in Nat /\ pos[i + 1] \in Nat
      <4> HIDE DEF n
      <4> QED BY <1>2, <3>2
    <3>4. pos[i + 1] = x + w
      BY DEF Encodes
    <3> QED BY <3>1, <3>2, <3>3, <3>4
  <2>3. x + w <= e /\ x <= e /\ x + w <= Len(src)
    <3>1. pos[i + 1] <= e
      BY <2>1
    <3>2. e <= Len(src)
      BY <1>3
    <3> HIDE DEF x, w, e, n, Rest
    <3> QED BY <1>1, <1>3, <2>2, <3>1, <3>2
  <2>4. f[x + 1] = <<s[i]>> \o g
    <3>1. HasAt(src, x, EncodeByte(s[i]))
      BY DEF Encodes
    <3>2. pos[i + 1] <= Len(src)
      BY <2>2, <2>3
    <3>3. Gives(f, x, s[i], pos[i + 1])
      <4> HIDE DEF x
      <4> QED BY <2>2, <3>1, <3>2, DecodeByte
    <3> QED BY <3>3 DEF Gives
  <2>5. g \in Seq(Nat) /\ s[i] \in Nat
    <3>1. pos[i + 1] + 1 \in 1..Len(src) + 1
      <4> HIDE DEF x, w
      <4> QED BY <1>1, <2>2, <2>3
    <3>2. s[i] \in Nat
      <4>1. \A b \in Chars : b \in Nat
        BY DEF Chars
      <4> QED BY <2>2, <4>1
    <3> QED BY <3>1, <3>2 DEF Decodes
  <2>6. /\ Len(f[x + 1]) = 1 + Len(g) /\ Len(g) \in Nat
        /\ f[x + 1][1] = s[i]
        /\ \A j \in 1..Len(g) : f[x + 1][1 + j] = g[j]
    <3> DEFINE b == s[i]
               h == f[x + 1]
    <3>1. h = <<b>> \o g /\ b \in Nat /\ g \in Seq(Nat)
      BY <2>4, <2>5
    <3> HIDE DEF b, h, g
    <3>2. Len(h) = 1 + Len(g) /\ Len(g) \in Nat /\ h[1] = b /\ \A j \in 1..Len(g) : h[1 + j] = g[j]
      BY <3>1, InFront
    <3> QED BY <3>2 DEF b, h
  <2>7. /\ Len(g) = n + 1 - (i + 1) + Len(rest)
        /\ \A k \in i + 1..n : g[k + 1 - (i + 1)] = s[k]
        /\ \A k \in 1..Len(rest) : g[n + 1 - (i + 1) + k] = rest[k]
    BY <2>1
  <2> HIDE DEF g, x, w, n
  <2>8. Len(f[x + 1]) = n + 1 - i + Len(rest)
    BY <1>1, <1>3, <2>6, <2>7
  <2>9. ASSUME NEW k \in i..n PROVE f[x + 1][k + 1 - i] = s[k]
    <3>1. CASE k = i
      <4>1. k + 1 - i = 1
        BY <1>1, <3>1
      <4> QED BY <2>6, <3>1, <4>1
    <3>2. CASE k # i
      <4> DEFINE j == k + 1 - (i + 1)
      <4>1. k \in i + 1..n /\ j \in 1..Len(g) /\ k + 1 - i = 1 + j
        BY <1>1, <1>3, <2>7, <3>2
      <4>2. g[j] = s[k]
        BY <2>7, <4>1
      <4> HIDE DEF j
      <4> QED BY <2>6, <4>1, <4>2
    <3> QED BY <3>1, <3>2
  <2>10. ASSUME NEW k \in 1..Len(rest) PROVE f[x + 1][n + 1 - i + k] = rest[k]
    <3> DEFINE j == n + 1 - (i + 1) + k
    <3>1. j \in 1..Len(g) /\ n + 1 - i + k = 1 + j
      BY <1>1, <1>3, <2>7
    <3>2. g[j] = rest[k]
      BY <2>7
    <3> HIDE DEF j
    <3> QED BY <2>6, <3>1, <3>2
  <2>11. Rest(i)
    BY <2>3, <2>8, <2>9, <2>10 DEF x
  <2> HIDE DEF Rest
  <2> QED BY <2>2, <2>11
<1>6. Rest(1)
  <2>1. 1 \in 1..n + 1
    BY <1>1
  <2> HIDE DEF S, n
  <2>2. 1..n + 1 \subseteq S
    BY <1>1, <1>4, <1>5, Downwards
  <2> HIDE DEF Rest
  <2> QED BY <2>1, <2>2 DEF S
<1>7. pos[1] + 1 = 1 /\ n + 1 - 1 = n /\ \A k \in 1..n : k + 1 - 1 = k
  BY <1>1, <1>2
<1>8. Len(f[1]) = n + Len(rest)
  <2> HIDE DEF n
  <2> QED BY <1>6, <1>7
<1>9. \A k \in 1..n : f[1][k] = s[k]
  <2> HIDE DEF n
  <2> QED BY <1>6, <1>7
<1>10. \A k \in 1..Len(rest) : f[1][n + k] = rest[k]
  <2> HIDE DEF n
  <2> QED BY <1>6, <1>7
<1> QED BY <1>1, <1>3, <1>8, <1>9, <1>10 DEF Joins, rest

\* A string that came whole is stored as far as there is room, whatever comes after
\* its end or its NUL.
LEMMA DecodedStored ==
  ASSUME NEW src \in Seq(Nat), NEW s \in Seq(Chars), NEW pos, Encodes(src, s, pos),
         pos[Len(s) + 1] <= Len(src),
         pos[Len(s) + 1] = Len(src) \/ src[pos[Len(s) + 1] + 1] = NUL,
         NEW dst_len \in Nat \ {0}
  PROVE  url_decode(src, dst_len) = SubSeq(s, 1, Min({dst_len - 1, Len(s)}))
<1> DEFINE n == Len(s)
           e == pos[n + 1]
<1>1. PICK f : /\ Decodes(f, src)
               /\ url_decode(src, dst_len) =
                    CString(SubSeq(f[1], 1, Min({dst_len - 1, Len(f[1])})))
  BY DecodeIs
<1> DEFINE all == f[1]
           a == Len(all)
           m == Min({dst_len - 1, a})
           k == Min({dst_len - 1, n})
           buffer == SubSeq(all, 1, m)
<1>2. /\ n \in Nat /\ Len(src) \in Nat /\ e \in Nat /\ e <= Len(src)
      /\ \A i \in 1..n : s[i] \in Nat /\ s[i] # NUL
  <2>1. n \in Nat /\ \A i \in 1..n : s[i] \in Chars
    BY LenProperties, ElementOfSeq
  <2>2. \A b \in Chars : b \in Nat /\ b # NUL
    BY DEF Chars, NUL
  <2>3. Len(src) \in Nat
    BY LenProperties
  <2>4. pos \in [1..n + 1 -> Nat] /\ n + 1 \in 1..n + 1
    BY <2>1 DEF Encodes
  <2>5. e \in Nat
    BY <2>4
  <2> QED BY <2>1, <2>2, <2>3, <2>5
<1>3. all \in Seq(Nat) /\ a \in Nat
  <2>1. 1 \in 1..Len(src) + 1
    BY <1>2
  <2>2. all \in Seq(Nat)
    BY <1>1, <2>1 DEF Decodes
  <2> QED BY <2>2, LenProperties
<1>4. Joins(all, s, f[e + 1])
  BY <1>1, DecodeEncoded
<1>5. \A i \in 1..n : all[i] = s[i]
  BY <1>4 DEF Joins
<1>6. a = n \/ (a > n /\ all[n + 1] = NUL)
  <2>1. CASE e = Len(src)
    <3>1. f[e + 1] = <<>>
      BY <1>1, <2>1 DEF Decodes
    <3>2. Len(f[e + 1]) = 0
      BY <3>1
    <3>3. a = n + Len(f[e + 1])
      BY <1>4 DEF Joins
    <3> HIDE DEF a, n, e
    <3> QED BY <1>2, <3>2, <3>3
  <2>2. CASE e # Len(src)
    <3> DEFINE x == e + 1
    <3>1. x \in 1..Len(src) /\ x + 1 \in 1..Len(src) + 1 /\ src[x] = NUL
      <4>1. e \in Nat /\ e <= Len(src) /\ Len(src) \in Nat /\ src[e + 1] = NUL
        BY <1>2, <2>2
      <4> HIDE DEF e
      <4> QED BY <2>2, <4>1
    <3> HIDE DEF x
    <3>2. NUL # Percent /\ NUL # Plus /\ NUL \in Nat
      BY DEF NUL, Percent, Plus
    <3>3. f[x] = <<NUL>> \o f[x + 1] /\ f[x + 1] \in Seq(Nat)
      BY <1>1, <3>1, <3>2 DEF Decodes
    <3>4. Len(f[x]) = 1 + Len(f[x + 1]) /\ Len(f[x + 1]) \in Nat /\ f[x][1] = NUL
      BY <3>2, <3>3, InFront
    <3>5. a = n + Len(f[x]) /\ \A j \in 1..Len(f[x]) : all[n + j] = f[x][j]
      BY <1>4 DEF Joins, x
    <3>6. 1 \in 1..Len(f[x])
      BY <3>4
    <3> HIDE DEF all, a, n
    <3>7. all[n + 1] = NUL
      BY <3>4, <3>5, <3>6
    <3> QED BY <1>2, <3>4, <3>5, <3>7
  <2> QED BY <2>1, <2>2
<1>7. dst_len - 1 \in Nat
  OBVIOUS
<1>8. m = (IF dst_len - 1 <= a THEN dst_len - 1 ELSE a) /\ k = (IF dst_len - 1 <= n THEN dst_len - 1 ELSE n)
  <2>1. dst_len - 1 \in Int /\ a \in Int /\ n \in Int
    BY <1>2, <1>3, <1>7
  <2> HIDE DEF a, n
  <2>2. m = IF dst_len - 1 <= a THEN dst_len - 1 ELSE a
    BY <2>1, MinOfTwo
  <2>3. k = IF dst_len - 1 <= n THEN dst_len - 1 ELSE n
    BY <2>1, MinOfTwo
  <2> QED BY <2>2, <2>3
<1>9. url_decode(src, dst_len) = CString(buffer)
  BY <1>1
<1> HIDE DEF m, k, a, all, n, e
<1>10. k \in Nat /\ m \in Nat /\ k <= n /\ k <= m /\ m <= a /\ (k = m \/ (k = n /\ m > n))
  BY <1>2, <1>3, <1>6, <1>7, <1>8
<1>11. buffer \in Seq(Nat) /\ Len(buffer) = m /\ \A i \in 1..m : buffer[i] = all[i]
  <2>1. m \in 0..Len(all)
    BY <1>3, <1>10 DEF a
  <2> QED BY <1>3, <2>1, Prefix
<1> HIDE DEF buffer
<1>12. \A i \in 1..k : buffer[i] = s[i] /\ buffer[i] # NUL
  <2>1. \A i \in 1..k : i \in 1..m /\ i \in 1..n
    BY <1>2, <1>10
  <2> QED BY <1>2, <1>5, <1>11, <2>1
<1>13. k = Len(buffer) \/ buffer[k + 1] = NUL
  <2>1. CASE k = n /\ m > n
    <3>1. k + 1 \in 1..m /\ a > n
      BY <1>2, <1>3, <1>10, <2>1
    <3>2. buffer[k + 1] = all[k + 1]
      BY <1>11, <3>1
    <3> QED BY <1>2, <1>3, <1>6, <2>1, <3>1, <3>2
  <2> QED BY <1>10, <1>11, <2>1
<1>14. CString(buffer) = SubSeq(buffer, 1, k)
  <2>1. k \in 0..Len(buffer)
    BY <1>10, <1>11
  <2> QED BY <1>11, <1>12, <1>13, <2>1, CStringIs
<1>15. SubSeq(buffer, 1, k) = SubSeq(s, 1, k)
  <2>1. k \in 0..Len(buffer) /\ k \in 0..n
    BY <1>2, <1>10, <1>11
  <2>2. s \in Seq(Nat)
    <3>1. \A i \in 1..n : s[i] \in Nat
      BY <1>2
    <3>2. Chars \subseteq Nat
      BY DEF Chars
    <3> QED BY <3>2, SeqMonotonic
  <2>3. /\ SubSeq(buffer, 1, k) \in Seq(Nat) /\ Len(SubSeq(buffer, 1, k)) = k
        /\ \A i \in 1..k : SubSeq(buffer, 1, k)[i] = buffer[i]
    BY <1>11, <2>1, Prefix
  <2>4. /\ SubSeq(s, 1, k) \in Seq(Nat) /\ Len(SubSeq(s, 1, k)) = k
        /\ \A i \in 1..k : SubSeq(s, 1, k)[i] = s[i]
    BY <2>1, <2>2, Prefix DEF n
  <2> DEFINE t == SubSeq(buffer, 1, k)
             u == SubSeq(s, 1, k)
  <2>5. t \in Seq(Nat) /\ u \in Seq(Nat) /\ Len(t) = Len(u) /\ \A i \in 1..Len(t) : t[i] = u[i]
    BY <1>12, <2>3, <2>4
  <2> HIDE DEF t, u
  <2>6. t = u
    BY <2>5, SeqEqual
  <2> QED BY <2>6 DEF t, u
<1> QED BY <1>9, <1>14, <1>15 DEF k, n

\* What Find finds.
LEMMA FindIs ==
  ASSUME NEW data, NEW c, NEW pos \in Nat, NEW end \in Nat, pos <= end
  PROVE  /\ Find(data, c, pos, end) \in pos..end
         /\ Find(data, c, pos, end) = end \/ data[Find(data, c, pos, end)] = c
         /\ \A i \in pos..Find(data, c, pos, end) - 1 : data[i] # c
<1> DEFINE S == {i \in pos..end - 1 : data[i] = c} \cup {end}
           R == OpToRel(<, Nat)
<1>1. \A x, y \in Nat : x < y => <<x, y>> \in R
  BY DEF OpToRel
<1>2. IsWellFoundedOn(R, Nat)
  BY NatLessThanWellFounded
<1> HIDE DEF R
<1>3. S \subseteq Nat /\ S # {}
  OBVIOUS
<1>4. PICK x \in S : \A y \in S : ~(<<y, x>> \in R)
  <2> HIDE DEF S
  <2> QED BY <1>2, <1>3, WFMin
<1>5. ASSUME NEW y \in S PROVE x <= y
  <2> HIDE DEF S
  <2>1. x \in Nat /\ y \in Nat /\ ~(<<y, x>> \in R)
    BY <1>3, <1>4
  <2>2. ~(y < x)
    BY <1>1, <2>1
  <2> QED BY <2>1, <2>2
<1>6. Min(S) = x
  <2>1. S \subseteq Int
    OBVIOUS
  <2> HIDE DEF S
  <2> QED BY <1>5, <2>1, MinIs
<1>7. Find(data, c, pos, end) = x
  BY <1>6 DEF Find
<1>8. x \in pos..end /\ (x = end \/ data[x] = c)
  OBVIOUS
<1>9. \A i \in pos..x - 1 : data[i] # c
  BY <1>5
<1> QED BY <1>7, <1>8, <1>9

-----------------------------------------------------------------------------
\* A field

\* The parts of an encoded field.
LEMMA FieldParts ==
  ASSUME NEW field \in Fields
  PROVE  /\ field.key \in Seq(Unreserved) /\ field.value \in Seq(Chars)
         /\ EncodeURIComponent(field.value) \in Seq(Safe)
         /\ Len(field.key) \in Nat /\ Len(EncodeURIComponent(field.value)) \in Nat
         /\ EncodeField(field) \in Seq(Safe \cup {Equals})
         /\ Len(EncodeField(field)) = Len(field.key) + 1 + Len(EncodeURIComponent(field.value))
         /\ HasAt(EncodeField(field), 0, field.key)
         /\ EncodeField(field)[Len(field.key) + 1] = Equals
         /\ HasAt(EncodeField(field), Len(field.key) + 1, EncodeURIComponent(field.value))
<1> DEFINE V == Safe \cup {Equals}
           key == field.key
           value == field.value
           enc == EncodeURIComponent(value)
           head == key \o <<Equals>>
           p == Len(key)
<1>1. key \in Seq(Unreserved) /\ value \in Seq(Chars)
  BY DEF Fields
<1>2. enc \in Seq(Safe)
  <2> HIDE DEF value
  <2>1. PICK f : /\ EncodeURIComponent(value) = f[1]
                 /\ \A i \in 1..Len(value) + 1 : f[i] \in Seq(Safe)
    BY <1>1, EncodeIs
  <2>2. 1 \in 1..Len(value) + 1
    BY <1>1, LenProperties
  <2> QED BY <2>1, <2>2
<1>3. Unreserved \subseteq V /\ Safe \subseteq V /\ Equals \in V
  BY DEF Safe
<1>4. key \in Seq(V) /\ enc \in Seq(V)
  <2> HIDE DEF key, enc, V
  <2> QED BY <1>1, <1>2, <1>3, SeqMonotonic
<1>5. <<Equals>> \in Seq(V) /\ Len(<<Equals>>) = 1 /\ <<Equals>>[1] = Equals
  BY <1>3
<1>6. EncodeField(field) = head \o enc
  BY DEF EncodeField
<1>7. p \in Nat /\ Len(enc) \in Nat
  BY <1>1, <1>2, LenProperties
<1> HIDE DEF V, key, value, enc
<1>8. head \in Seq(V) /\ Joins(head, key, <<Equals>>)
  BY <1>4, <1>5, Joined
<1> HIDE DEF head
<1>9. EncodeField(field) \in Seq(V) /\ Joins(EncodeField(field), head, enc)
  BY <1>4, <1>6, <1>8, Joined
<1>10. Len(head) = p + 1 /\ (\A j \in 1..p : head[j] = key[j]) /\ head[p + 1] = Equals
  <2>1. 1 \in 1..Len(<<Equals>>)
    BY <1>5
  <2> QED BY <1>5, <1>8, <2>1 DEF Joins
<1>11. /\ Len(EncodeField(field)) = p + 1 + Len(enc)
       /\ \A j \in 1..p + 1 : EncodeField(field)[j] = head[j]
       /\ \A j \in 1..Len(enc) : EncodeField(field)[p + 1 + j] = enc[j]
  <2> HIDE DEF p
  <2> QED BY <1>9, <1>10 DEF Joins
<1>12. HasAt(EncodeField(field), 0, key)
  <2>1. ASSUME NEW j \in 1..p PROVE EncodeField(field)[0 + j] = key[j]
    <3>1. j \in 1..p + 1 /\ 0 + j = j
      BY <1>7
    <3> QED BY <1>10, <1>11, <3>1
  <2> QED BY <2>1 DEF HasAt, p
<1>13. EncodeField(field)[p + 1] = Equals
  <2>1. p + 1 \in 1..p + 1
    BY <1>7
  <2> QED BY <1>10, <1>11, <2>1
<1>14. HasAt(EncodeField(field), p + 1, enc)
  BY <1>11 DEF HasAt
<1> QED BY <1>1, <1>2, <1>7, <1>9, <1>11, <1>12, <1>13, <1>14 DEF V, key, value, enc, p

\* Its bytes are none that ends a field, and only one is an equals sign.
LEMMA FieldBytes ==
  ASSUME NEW field \in Fields
  PROVE  /\ \A j \in 1..Len(EncodeField(field)) : EncodeField(field)[j] \in Nat \ {NUL, Ampersand}
         /\ \A j \in 1..Len(field.key) : EncodeField(field)[j] # Equals
<1> DEFINE t == EncodeField(field)
           p == Len(field.key)
<1>1. \A b \in Safe \cup {Equals} : b \in Nat \ {NUL, Ampersand}
  BY DEF Safe, Unreserved, Digits, Upper, Lower, Percent, Equals, NUL, Ampersand
<1>2. \A b \in Unreserved : b # Equals
  BY DEF Unreserved, Digits, Upper, Lower, Equals
<1>3. \A j \in 1..Len(t) : t[j] \in Safe \cup {Equals}
  <2>1. t \in Seq(Safe \cup {Equals})
    BY FieldParts
  <2> HIDE DEF t
  <2> QED BY <2>1, ElementOfSeq
<1>4. ASSUME NEW j \in 1..p PROVE t[j] # Equals
  <2>1. HasAt(t, 0, field.key) /\ field.key \in Seq(Unreserved)
    BY FieldParts
  <2>2. 0 + j = j
    OBVIOUS
  <2> HIDE DEF t
  <2>3. t[j] = field.key[j]
    BY <2>1, <2>2 DEF HasAt
  <2>4. field.key[j] \in Unreserved
    BY <2>1, ElementOfSeq
  <2> QED BY <1>2, <2>3, <2>4
<1> QED BY <1>1, <1>3, <1>4

\* Where a field that came whole ends.
LEMMA EndIs ==
  ASSUME NEW data \in Seq(Nat), NEW field \in Fields, NEW x \in Nat, NEW z \in Nat,
         z = x + Len(EncodeField(field)), z <= Len(data), HasAt(data, x, EncodeField(field)),
         z = Len(data) \/ data[z + 1] \in {NUL, Ampersand}
  PROVE  LET end == Find(data, Ampersand, x + 1, Len(data) + 1)
         IN  /\ end \in z + 1..Len(data) + 1
             /\ end = z + 1 \/ data[z + 1] = NUL
<1> DEFINE n == Len(data)
           l == Len(EncodeField(field))
           end == Find(data, Ampersand, x + 1, n + 1)
<1>1. n \in Nat /\ l \in Nat
  BY FieldParts, LenProperties
<1>2. /\ end \in x + 1..n + 1
      /\ end = n + 1 \/ data[end] = Ampersand
      /\ \A i \in x + 1..end - 1 : data[i] # Ampersand
  <2>1. x + 1 \in Nat /\ n + 1 \in Nat /\ x + 1 <= n + 1
    BY <1>1
  <2> HIDE DEF n
  <2> QED BY <2>1, FindIs
<1>3. ASSUME NEW i \in x + 1..z PROVE data[i] # Ampersand
  <2> DEFINE j == i - x
  <2>1. j \in 1..l /\ x + j = i
    BY <1>1
  <2> HIDE DEF j
  <2>2. data[i] = EncodeField(field)[j]
    BY <2>1 DEF HasAt
  <2> QED BY <2>1, <2>2, FieldBytes
<1> HIDE DEF end, l, n
<1>4. end >= z + 1
  <2>1. SUFFICES ASSUME end < z + 1 PROVE FALSE
    BY <1>1, <1>2
  <2>2. end \in x + 1..z /\ end # n + 1
    BY <1>1, <1>2, <2>1 DEF n
  <2> QED BY <1>2, <1>3, <2>2
<1>5. end = z + 1 \/ data[z + 1] = NUL
  <2>1. SUFFICES ASSUME end # z + 1 PROVE data[z + 1] = NUL
    OBVIOUS
  <2>2. z + 1 \in x + 1..end - 1 /\ z # n
    BY <1>1, <1>2, <1>4, <2>1 DEF l
  <2> QED BY <1>2, <2>2 DEF n
<1> QED BY <1>1, <1>2, <1>4, <1>5 DEF end, n

\* The bytes from k to e.
LEMMA Slice ==
  ASSUME NEW s \in Seq(Nat), NEW k \in Nat, NEW e \in Nat, k <= e, e <= Len(s)
  PROVE  /\ SubSeq(s, k + 1, e) \in Seq(Nat) /\ Len(SubSeq(s, k + 1, e)) = e - k
         /\ \A i \in 1..e - k : SubSeq(s, k + 1, e)[i] = s[k + i]
<1> DEFINE m == k + 1
           t == SubSeq(s, m, e)
<1>1. m \in Nat /\ 1 <= m /\ m <= e + 1 /\ e + 1 - m = e - k /\ m - 1 = k
  OBVIOUS
<1> HIDE DEF m
<1>2. t \in Seq(Nat) /\ Len(t) = e + 1 - m /\ \A i \in 1..e + 1 - m : t[i] = s[m - 1 + i]
  BY <1>1, Part
<1> HIDE DEF t
<1>3. t \in Seq(Nat) /\ Len(t) = e - k /\ \A i \in 1..e - k : t[i] = s[k + i]
  BY <1>1, <1>2
<1> QED BY <1>3 DEF t, m

\* A key is shorter than its room.
LEMMA KeyStored ==
  ASSUME NEW key \in Seq(Unreserved), Len(key) < KeyLen
  PROVE  url_decode(key, KeyLen) = key
<1> DEFINE n == Len(key)
<1>1. n \in Nat /\ KeyLen \in Nat \ {0}
  BY LenProperties, FormAssumption
<1>2. PICK pos : Encodes(key, key, pos) /\ pos[n + 1] = n
  BY KeyEncodes
<1>3. Unreserved \subseteq Chars /\ Unreserved \subseteq Nat
  BY DEF Unreserved, Digits, Upper, Lower, Chars
<1>4. key \in Seq(Chars) /\ key \in Seq(Nat)
  BY <1>3, SeqMonotonic
<1>5. url_decode(key, KeyLen) = SubSeq(key, 1, Min({KeyLen - 1, n}))
  <2>1. n <= Len(key)
    BY <1>1
  <2> QED BY <1>1, <1>2, <1>4, <2>1, DecodedStored
<1>6. Min({KeyLen - 1, n}) = n
  <2>1. KeyLen - 1 \in Int /\ n \in Int /\ n <= KeyLen - 1
    BY <1>1
  <2> HIDE DEF n
  <2>2. Min({KeyLen - 1, n}) = IF KeyLen - 1 <= n THEN KeyLen - 1 ELSE n
    BY <2>1, MinOfTwo
  <2> QED BY <2>1, <2>2
<1>7. SubSeq(key, 1, n) = key
  <2>1. n \in 0..Len(key)
    BY <1>1
  <2> DEFINE t == SubSeq(key, 1, n)
  <2>2. t \in Seq(Nat) /\ Len(t) = n /\ \A i \in 1..n : t[i] = key[i]
    BY <1>4, <2>1, Prefix
  <2> HIDE DEF t
  <2>3. t = key
    BY <1>4, <2>2, SeqEqual
  <2> QED BY <2>3 DEF t
<1> QED BY <1>5, <1>6, <1>7

\* A value that came whole is stored as far as there is room, whatever follows it.
LEMMA ValueStored ==
  ASSUME NEW src \in Seq(Nat), NEW field \in Fields,
         HasAt(src, 0, EncodeURIComponent(field.value)),
         Len(EncodeURIComponent(field.value)) <= Len(src),
         \/ Len(EncodeURIComponent(field.value)) = Len(src)
         \/ src[Len(EncodeURIComponent(field.value)) + 1] = NUL
  PROVE  url_decode(src, ValLen) = Stored(field)
<1> DEFINE s == field.value
<1>1. s \in Seq(Chars)
  BY FieldParts
<1>2. PICK pos : Encodes(src, s, pos) /\ pos[Len(s) + 1] = Len(EncodeURIComponent(s))
  <2> HIDE DEF s
  <2> QED BY <1>1, ValueEncodes DEF s
<1>3. ValLen \in Nat \ {0}
  BY FormAssumption
<1>4. url_decode(src, ValLen) = SubSeq(s, 1, Min({ValLen - 1, Len(s)}))
  <2> HIDE DEF s
  <2> QED BY <1>1, <1>2, <1>3, DecodedStored DEF s
<1> QED BY <1>4 DEF Stored

\* What is read of a field that came whole.
LEMMA FieldRead ==
  ASSUME NEW data \in Seq(Nat), NEW field \in Fields, Len(field.key) < KeyLen,
         NEW x \in Nat, NEW z \in Nat,
         z = x + Len(EncodeField(field)), HasAt(data, x, EncodeField(field)),
         NEW end \in z + 1..Len(data) + 1, end = z + 1 \/ data[z + 1] = NUL
  PROVE  ParseField(data, x + 1, end) = [key |-> field.key, value |-> Stored(field)]
<1> DEFINE key == field.key
           enc == EncodeURIComponent(field.value)
           t == EncodeField(field)
           p == Len(key)
           l == Len(enc)
           n == Len(data)
           sep == x + p + 1
           src == SubSeq(data, sep + 1, end - 1)
<1>1. /\ p \in Nat /\ l \in Nat /\ n \in Nat /\ Len(t) = p + 1 + l
      /\ key \in Seq(Unreserved)
      /\ HasAt(t, 0, key) /\ t[p + 1] = Equals /\ HasAt(t, p + 1, enc)
  BY FieldParts, LenProperties
<1>2. \A j \in 1..p + 1 + l : data[x + j] = t[j]
  BY <1>1 DEF HasAt
<1>3. \A j \in 1..p : t[j] # Equals /\ t[j] = key[j]
  <2>1. \A j \in 1..p : 0 + j = j
    BY <1>1
  <2> HIDE DEF t, key
  <2> QED BY <1>1, <2>1, FieldBytes DEF HasAt, t, key
<1> HIDE DEF key, enc, t, p, l, n
<1>4. /\ sep \in Nat /\ z = sep + l /\ z \in Nat /\ end \in Nat /\ sep < end /\ sep + l < end /\ end <= n + 1
      /\ x + 1 <= end /\ z = x + p + 1 + l /\ z + 1 <= end
  BY <1>1 DEF n, t
<1>5. data[sep] = Equals
  <2>1. p + 1 \in 1..p + 1 + l /\ x + (p + 1) = sep
    BY <1>1
  <2>2. data[x + (p + 1)] = t[p + 1]
    BY <1>2, <2>1
  <2> QED BY <1>1, <2>1, <2>2
<1>6. Find(data, Equals, x + 1, end) = sep
  <2> DEFINE found == Find(data, Equals, x + 1, end)
  <2>1. /\ found \in x + 1..end
        /\ found = end \/ data[found] = Equals
        /\ \A i \in x + 1..found - 1 : data[i] # Equals
    <3>1. x + 1 \in Nat
      OBVIOUS
    <3> QED BY <1>4, <3>1, FindIs
  <2> HIDE DEF found
  <2>2. found <= sep
    <3>1. SUFFICES ASSUME sep < found PROVE FALSE
      BY <1>4, <2>1
    <3>2. sep \in x + 1..found - 1
      BY <1>1, <1>4, <2>1, <3>1
    <3> QED BY <1>5, <2>1, <3>2
  <2>3. sep <= found
    <3>1. SUFFICES ASSUME found < sep PROVE FALSE
      BY <1>4, <2>1
    <3> DEFINE j == found - x
    <3>2. j \in 1..p /\ x + j = found /\ j \in 1..p + 1 + l /\ found # end
      BY <1>1, <1>4, <2>1, <3>1
    <3> HIDE DEF j
    <3> QED BY <1>2, <1>3, <2>1, <3>2
  <2>4. found \in Int
    BY <2>1
  <2> HIDE DEF sep
  <2>5. found = sep
    BY <1>4, <2>2, <2>3, <2>4
  <2> QED BY <2>5 DEF found
<1>7. url_decode(SubSeq(data, x + 1, sep - 1), KeyLen) = key
  <2> DEFINE e == sep - 1
             u == SubSeq(data, x + 1, e)
  <2>1. e \in Nat /\ x <= e /\ e <= n /\ e - x = p
    BY <1>1, <1>4
  <2> HIDE DEF e
  <2>2. u \in Seq(Nat) /\ Len(u) = e - x /\ \A i \in 1..e - x : u[i] = data[x + i]
    <3>1. e <= Len(data) /\ e \in Nat /\ x <= e
      BY <2>1 DEF n
    <3> HIDE DEF sep, src
    <3>2. /\ SubSeq(data, x + 1, e) \in Seq(Nat) /\ Len(SubSeq(data, x + 1, e)) = e - x
          /\ \A i \in 1..e - x : SubSeq(data, x + 1, e)[i] = data[x + i]
      <4> HIDE DEF u
      <4> QED BY <3>1, Slice
    <3> QED BY <3>2
  <2> HIDE DEF u
  <2>3. u \in Seq(Nat) /\ Len(u) = p /\ \A i \in 1..p : u[i] = data[x + i]
    BY <2>1, <2>2
  <2>4. ASSUME NEW i \in 1..p PROVE u[i] = key[i]
    <3>1. i \in 1..p + 1 + l
      BY <1>1
    <3> QED BY <1>2, <1>3, <2>3, <3>1
  <2>5. u = key
    <3>1. Unreserved \subseteq Nat
      BY DEF Unreserved, Digits, Upper, Lower
    <3>2. key \in Seq(Nat)
      BY <1>1, <3>1, SeqMonotonic
    <3> QED BY <2>3, <2>4, <3>2, SeqEqual DEF p
  <2>6. url_decode(key, KeyLen) = key
    BY <1>1, KeyStored DEF key
  <2> QED BY <2>5, <2>6 DEF u, e
<1>8. url_decode(src, ValLen) = Stored(field)
  <2> DEFINE e == end - 1
             m == e - sep
  <2>1. e \in Nat /\ sep <= e /\ e <= n /\ m \in Nat /\ l <= m /\ e - sep = m
    BY <1>1, <1>4
  <2>2. src = SubSeq(data, sep + 1, e)
    OBVIOUS
  <2>3. sep \in Nat /\ (end = z + 1 => l = m) /\ (end # z + 1 => l + 1 <= m)
    <3> HIDE DEF sep
    <3>1. sep \in Nat /\ l \in Nat /\ z = sep + l /\ end \in Nat /\ z + 1 <= end
      BY <1>1, <1>4
    <3>2. end = z + 1 => l = m
      BY <3>1
    <3>3. end # z + 1 => l + 1 <= m
      BY <3>1
    <3> QED BY <3>1, <3>2, <3>3
  <2> HIDE DEF e, m, sep, src
  <2>4. src \in Seq(Nat) /\ Len(src) = m /\ \A i \in 1..m : src[i] = data[sep + i]
    <3>1. e <= Len(data) /\ e - sep = m
      BY <2>1 DEF n
    <3>2. /\ SubSeq(data, sep + 1, e) \in Seq(Nat) /\ Len(SubSeq(data, sep + 1, e)) = e - sep
          /\ \A i \in 1..e - sep : SubSeq(data, sep + 1, e)[i] = data[sep + i]
      BY <2>1, <2>3, <3>1, Slice
    <3> QED BY <2>2, <3>1, <3>2
  <2>5. ASSUME NEW i \in 1..l PROVE src[0 + i] = enc[i]
    <3> DEFINE j == p + 1 + i
    <3>1. i \in 1..m /\ 0 + i = i
      BY <1>1, <2>1
    <3>2. j \in 1..p + 1 + l /\ x + j = sep + i
      BY <1>1 DEF sep
    <3>3. t[j] = enc[i]
      BY <1>1 DEF HasAt, l
    <3> HIDE DEF j
    <3> QED BY <1>2, <2>4, <3>1, <3>2, <3>3
  <2>6. HasAt(src, 0, enc)
    BY <2>5 DEF HasAt, l
  <2>7. l = Len(src) \/ src[l + 1] = NUL
    <3>1. CASE end = z + 1
      BY <2>3, <2>4, <3>1
    <3>2. CASE end # z + 1
      <4>1. l + 1 \in 1..m /\ sep + (l + 1) = z + 1
        <5>1. l + 1 \in 1..m
          <6>1. l \in Nat /\ m \in Nat /\ l + 1 <= m
            BY <1>1, <2>1, <2>3, <3>2
          <6> QED BY <6>1
        <5>2. sep + (l + 1) = z + 1
          <6>1. l \in Nat /\ sep \in Nat /\ z = sep + l
            BY <1>1, <1>4
          <6>2. \A a, b \in Nat : a + (b + 1) = (a + b) + 1
            OBVIOUS
          <6> QED BY <6>1, <6>2, Zenon
        <5> QED BY <5>1, <5>2
      <4>2. src[l + 1] = data[sep + (l + 1)]
        BY <2>4, <4>1
      <4> QED BY <3>2, <4>1, <4>2
    <3> QED BY <3>1, <3>2
  <2> QED BY <2>1, <2>4, <2>6, <2>7, ValueStored DEF enc, l
<1>9. ParseField(data, x + 1, end) =
        [key   |-> url_decode(SubSeq(data, x + 1, sep - 1), KeyLen),
         value |-> url_decode(SubSeq(data, sep + 1, end - 1), ValLen)]
  <2> HIDE DEF sep
  <2> QED BY <1>6 DEF ParseField
<1> QED BY <1>7, <1>8, <1>9 DEF key

-----------------------------------------------------------------------------
\* A body

Marks == Safe \cup {Equals, Ampersand}

\* What a body has of each field, ...
Before(i) == IF i = 1 THEN <<>> ELSE <<Ampersand>>
Pieces(form) == [i \in 1..Len(form) |-> Before(i) \o EncodeField(form[i])]

LEMMA PieceIs ==
  ASSUME NEW form \in Seq(Fields), NEW i \in 1..Len(form)
  PROVE  LET piece == Before(i) \o EncodeField(form[i])
             w == IF i = 1 THEN 0 ELSE 1
         IN  /\ piece \in Seq(Marks) /\ Len(piece) = w + Len(EncodeField(form[i]))
             /\ Len(EncodeField(form[i])) \in Nat
             /\ i # 1 => piece[1] = Ampersand
             /\ HasAt(piece, w, EncodeField(form[i]))
<1> DEFINE t == EncodeField(form[i])
           piece == Before(i) \o t
           w == IF i = 1 THEN 0 ELSE 1
<1>1. form[i] \in Fields
  BY ElementOfSeq
<1>2. t \in Seq(Marks) /\ Len(t) \in Nat
  <2>1. t \in Seq(Safe \cup {Equals})
    BY <1>1, FieldParts
  <2>2. Safe \cup {Equals} \subseteq Marks
    BY DEF Marks
  <2> HIDE DEF t
  <2>3. t \in Seq(Marks)
    BY <2>1, <2>2, SeqMonotonic
  <2> QED BY <2>3, LenProperties
<1> HIDE DEF t
<1>3. Before(i) \in Seq(Marks) /\ Len(Before(i)) = w /\ (i # 1 => Before(i)[1] = Ampersand)
  <2>1. <<>> \in Seq(Marks) /\ Len(<<>>) = 0
    BY EmptySeq
  <2>2. <<Ampersand>> \in Seq(Marks) /\ Len(<<Ampersand>>) = 1 /\ <<Ampersand>>[1] = Ampersand
    BY DEF Marks
  <2> QED BY <2>1, <2>2 DEF Before
<1>4. piece \in Seq(Marks) /\ Joins(piece, Before(i), t)
  BY <1>2, <1>3, Joined
<1> HIDE DEF piece
<1>5. Len(piece) = w + Len(t) /\ HasAt(piece, w, t)
  BY <1>3, <1>4 DEF Joins, HasAt
<1>6. i # 1 => piece[1] = Ampersand
  <2>1. i # 1 => 1 \in 1..Len(Before(i))
    BY <1>3
  <2> QED BY <1>3, <1>4, <2>1 DEF Joins
<1> QED BY <1>2, <1>4, <1>5, <1>6 DEF piece, t

\* ... and where.
LEMMA BodyIs ==
  ASSUME NEW form \in Seq(Fields)
  PROVE  Body(form) \in Seq(Marks) /\ \E pos : Laid(Body(form), Len(form), Pieces(form), pos)
<1> DEFINE n == Len(form)
           piece == Pieces(form)
           P(g) == g = [i \in 1..n + 1 |->
                          IF i > n THEN <<>>
                          ELSE (IF i = 1 THEN <<>> ELSE <<Ampersand>>) \o EncodeField(form[i]) \o g[i + 1]]
           Q(g) == g = [i \in 1..n + 1 |-> IF i > n THEN <<>> ELSE piece[i] \o g[i + 1]]
<1>1. n \in Nat
  BY LenProperties
<1>2. /\ piece \in [1..n -> Seq(Marks)]
      /\ \A i \in 1..n : piece[i] = (IF i = 1 THEN <<>> ELSE <<Ampersand>>) \o EncodeField(form[i])
  <2>1. \A i \in 1..n : Before(i) \o EncodeField(form[i]) \in Seq(Marks)
    BY PieceIs
  <2> QED BY <2>1 DEF Pieces, Before
<1>3. ASSUME NEW g PROVE P(g) <=> Q(g)
  <2> HIDE DEF piece, n
  <2>1. \A i \in 1..n + 1 :
          (IF i > n THEN <<>>
           ELSE (IF i = 1 THEN <<>> ELSE <<Ampersand>>) \o EncodeField(form[i]) \o g[i + 1])
          = (IF i > n THEN <<>> ELSE piece[i] \o g[i + 1])
    <3>1. \A i \in 1..n + 1 : ~(i > n) => i \in 1..n
      BY <1>1
    <3> QED BY <1>2, <3>1, Zenon
  <2> QED BY <2>1, Zenon
<1>4. Body(form) = (CHOOSE g : P(g))[1]
  BY DEF Body
<1>5. (CHOOSE g : P(g)) = (CHOOSE g : Q(g))
  <2> HIDE DEF P, Q
  <2> QED BY <1>3
<1> HIDE DEF piece, n
<1>6. PICK f : /\ f = (CHOOSE g : Q(g))
               /\ \A i \in 1..n : f[i] = piece[i] \o f[i + 1]
               /\ f[n + 1] = <<>>
               /\ \A i \in 1..n + 1 : f[i] \in Seq(Marks)
  BY <1>1, <1>2, PiecesIs
<1> HIDE DEF P, Q
<1>7. Body(form) = f[1]
  BY <1>4, <1>5, <1>6
<1>8. f[1] \in Seq(Marks) /\ \E pos : Laid(f[1], n, piece, pos)
  <2>1. /\ n \in Nat /\ piece \in [1..n -> Seq(Marks)] /\ f[n + 1] = <<>>
        /\ \A i \in 1..n : f[i] = piece[i] \o f[i + 1]
        /\ \A i \in 1..n + 1 : f[i] \in Seq(Marks)
    BY <1>1, <1>2, <1>6
  <2> QED BY <2>1, LaidOut
<1> QED BY <1>7, <1>8 DEF n, piece

\* The first fields of a form are where they are in its whole body.
LEMMA PrefixLaid ==
  ASSUME NEW form \in Seq(Fields), NEW pos, Laid(Body(form), Len(form), Pieces(form), pos),
         NEW k \in 0..Len(form)
  PROVE  Len(Body(SubSeq(form, 1, k))) = pos[k + 1]
<1> DEFINE n == Len(form)
           part == SubSeq(form, 1, k)
<1>1. n \in Nat /\ k \in Nat /\ k <= n
  BY LenProperties
<1>2. part \in Seq(Fields) /\ Len(part) = k /\ \A i \in 1..k : part[i] = form[i]
  BY Prefix
<1> HIDE DEF part
<1>3. PICK at : Laid(Body(part), k, Pieces(part), at)
  BY <1>2, BodyIs
<1>4. \A i \in 1..k : Pieces(part)[i] = Pieces(form)[i]
  <2>1. \A i \in 1..k : i \in 1..Len(part) /\ i \in 1..Len(form)
    BY <1>1, <1>2
  <2> QED BY <1>2, <2>1 DEF Pieces
<1> DEFINE S == {i \in 1..k + 1 : at[i] = pos[i]}
<1>5. 1 \in S
  BY <1>1, <1>3 DEF Laid
<1>6. ASSUME NEW i \in 1..k + 1, i < k + 1, i \in S PROVE i + 1 \in S
  <2>1. i \in 1..k /\ i \in 1..n /\ i + 1 \in 1..k + 1
    BY <1>1, <1>6
  <2>2. at[i + 1] = at[i] + Len(Pieces(part)[i]) /\ pos[i + 1] = pos[i] + Len(Pieces(form)[i])
    BY <1>3, <2>1 DEF Laid
  <2> QED BY <1>4, <1>6, <2>1, <2>2
<1>7. k + 1 \in S
  <2>1. k + 1 \in Nat /\ k + 1 \in 1..k + 1
    BY <1>1
  <2> HIDE DEF S
  <2>2. 1..k + 1 \subseteq S
    BY <1>5, <1>6, <2>1, Upwards
  <2> QED BY <2>1, <2>2
<1>8. at[k + 1] = Len(Body(part))
  BY <1>3 DEF Laid
<1> QED BY <1>7, <1>8 DEF part

FieldEnd(data, i) == Find(data, Ampersand, i, Len(data) + 1)
FieldAt(data, i) == ParseField(data, i, FieldEnd(data, i))

\* What form_parser_parse has read from place i on, before it is cut.
Parses(f, data) ==
  /\ \A i \in 1..Len(data) : f[i] = <<FieldAt(data, i)>> \o f[FieldEnd(data, i) + 1]
  /\ \A i \in 1..Len(data) + 2 : f[i] \in Seq({FieldAt(data, j) : j \in 1..Len(data)})

LEMMA ParseIs ==
  ASSUME NEW data \in Seq(Nat)
  PROVE  \E f : /\ Parses(f, data)
                /\ form_parser_parse(data) = SubSeq(f[1], 1, Min({MaxFields, Len(f[1])}))
<1> DEFINE n == Len(data)
           V == {FieldAt(data, j) : j \in 1..n}
           piece == [i \in 1..n |-> <<FieldAt(data, i)>>]
           next == [i \in 1..n |-> FieldEnd(data, i) + 1]
           P(g) == g = [pos \in 1..n + 2 |->
                          IF pos > n THEN <<>>
                          ELSE <<ParseField(data, pos, Find(data, Ampersand, pos, n + 1))>>
                                 \o g[Find(data, Ampersand, pos, n + 1) + 1]]
           Q(g) == g = [pos \in 1..n + 2 |-> IF pos > n THEN <<>> ELSE piece[pos] \o g[next[pos]]]
           f == CHOOSE g : P(g)
<1>1. n \in Nat /\ n + 2 \in Nat /\ n <= n + 2
  BY LenProperties
<1>2. /\ piece \in [1..n -> Seq(V)]
      /\ \A i \in 1..n : piece[i] = <<FieldAt(data, i)>> /\ next[i] = FieldEnd(data, i) + 1
  <2>1. ASSUME NEW i \in 1..n PROVE <<FieldAt(data, i)>> \in Seq(V)
    <3>1. FieldAt(data, i) \in V
      OBVIOUS
    <3> HIDE DEF V
    <3> QED BY <3>1
  <2> HIDE DEF V
  <2> QED BY <2>1
<1>3. next \in [1..n -> 1..n + 2] /\ \A i \in 1..n : next[i] > i
  <2>1. ASSUME NEW i \in 1..n PROVE FieldEnd(data, i) + 1 \in 1..n + 2 /\ FieldEnd(data, i) + 1 > i
    <3>1. i \in Nat /\ n + 1 \in Nat /\ i <= n + 1
      BY <1>1
    <3> HIDE DEF n
    <3>2. FieldEnd(data, i) \in i..n + 1
      BY <3>1, FindIs DEF FieldEnd, n
    <3> QED BY <1>1, <3>1, <3>2
  <2> QED BY <2>1
<1>4. form_parser_parse(data) = SubSeq(f[1], 1, Min({MaxFields, Len(f[1])}))
  BY DEF form_parser_parse
<1> HIDE DEF n, V, piece, next
<1>5. ASSUME NEW g PROVE P(g) <=> Q(g)
  <2>1. \A pos \in 1..n + 2 :
          (IF pos > n THEN <<>>
           ELSE <<ParseField(data, pos, Find(data, Ampersand, pos, n + 1))>>
                  \o g[Find(data, Ampersand, pos, n + 1) + 1])
          = (IF pos > n THEN <<>> ELSE piece[pos] \o g[next[pos]])
    <3>1. \A i \in 1..n + 2 : ~(i > n) => i \in 1..n
      BY <1>1
    <3> QED BY <1>2, <3>1, Zenon DEF FieldAt, FieldEnd, n
  <2> QED BY <2>1, Zenon
<1>6. f = Chain(n, n + 2, piece, next)
  <2>1. f = CHOOSE g : Q(g)
    <3> HIDE DEF P, Q
    <3> QED BY <1>5
  <2> QED BY <2>1 DEF Chain
<1> HIDE DEF f
<1>7. Chained(f, n, n + 2, piece, next) /\ \A i \in 1..n + 2 : f[i] \in Seq(V)
  BY <1>1, <1>2, <1>3, <1>6, ChainIs
<1>8. \A i \in 1..n : f[i] = <<FieldAt(data, i)>> \o f[FieldEnd(data, i) + 1]
  BY <1>2, <1>7 DEF Chained
<1>9. Parses(f, data)
  BY <1>7, <1>8 DEF Parses, n, V
<1> QED BY <1>4, <1>9

\* Fields that came whole, one after the other: x[i] bytes are before field i, and
\* what comes after the last is the end, a NUL or a separator.
Came(data, form, k, x) ==
  /\ x \in [1..k -> Nat] /\ x[1] = 0
  /\ \A i \in 1..k :
       LET z == x[i] + Len(EncodeField(form[i]))
       IN  /\ HasAt(data, x[i], EncodeField(form[i])) /\ z <= Len(data)
           /\ IF i < k THEN data[z + 1] = Ampersand /\ x[i + 1] = z + 1 /\ z < Len(data)
              ELSE z = Len(data) \/ data[z + 1] \in {NUL, Ampersand}

\* They are read one by one.
LEMMA CameIsRead ==
  ASSUME NEW data \in Seq(Nat), NEW form \in Seq(Fields), NEW k \in 1..Len(form), NEW x,
         Came(data, form, k, x),
         \A i \in 1..k : Len(form[i].key) < KeyLen,
         NEW f, Parses(f, data)
  PROVE  /\ k <= Len(f[1])
         /\ \A i \in 1..k : f[1][i] = [key |-> form[i].key, value |-> Stored(form[i])]
<1> DEFINE Record(i) == [key |-> form[i].key, value |-> Stored(form[i])]
           V == {FieldAt(data, j) : j \in 1..Len(data)}
           At(i) == /\ Len(f[1]) = i - 1 + Len(f[x[i] + 1])
                    /\ \A j \in 1..Len(f[x[i] + 1]) : f[1][i - 1 + j] = f[x[i] + 1][j]
           S == {i \in 1..k : At(i)}
<1>1. k \in Nat /\ Len(data) \in Nat /\ Len(form) \in Nat
  BY LenProperties
<1>2. ASSUME NEW i \in 1..k
      PROVE  \E next \in Nat, g \in Seq(V) :
                /\ f[x[i] + 1] = <<Record(i)>> \o g /\ Record(i) \in V
                /\ i < k => g = f[x[i + 1] + 1]
  <2> DEFINE field == form[i]
             t == EncodeField(field)
             y == x[i]
             z == y + Len(t)
             p == y + 1
             end == FieldEnd(data, p)
  <2>1. field \in Fields /\ Len(field.key) < KeyLen /\ y \in Nat
    <3>1. i \in 1..Len(form)
      BY <1>1
    <3> QED BY <3>1, ElementOfSeq DEF Came
  <2>2. /\ HasAt(data, y, t) /\ z <= Len(data)
        /\ z = Len(data) \/ data[z + 1] \in {NUL, Ampersand}
        /\ i < k => data[z + 1] = Ampersand /\ x[i + 1] = z + 1
    BY DEF Came
  <2> HIDE DEF field, y
  <2>3. Len(t) \in Nat \ {0}
    <3> DEFINE a == Len(field.key)
               b == Len(EncodeURIComponent(field.value))
    <3>1. Len(t) = a + 1 + b /\ a \in Nat /\ b \in Nat
      BY <2>1, FieldParts
    <3> HIDE DEF a, b, t
    <3> QED BY <3>1
  <2> HIDE DEF t
  <2>4. z \in Nat /\ z = y + Len(t) /\ p \in 1..Len(data) /\ p = y + 1 /\ y \in Nat
    BY <1>1, <2>1, <2>2, <2>3, SMTT(30)
  <2> HIDE DEF z, p
  <2>5. end \in z + 1..Len(data) + 1 /\ (end = z + 1 \/ data[z + 1] = NUL)
    BY <2>1, <2>2, <2>4, EndIs DEF FieldEnd, t
  <2> HIDE DEF end
  <2>6. ParseField(data, p, end) = Record(i)
    <3>1. ParseField(data, y + 1, end) = [key |-> field.key, value |-> Stored(field)]
      <4>1. z = y + Len(EncodeField(field)) /\ HasAt(data, y, EncodeField(field))
        BY <2>2, <2>4 DEF t
      <4>2. /\ field \in Fields /\ Len(field.key) < KeyLen /\ y \in Nat /\ z \in Nat
            /\ end \in z + 1..Len(data) + 1
            /\ end = z + 1 \/ data[z + 1] = NUL
        BY <2>1, <2>4, <2>5
      <4>3. data \in Seq(Nat)
        OBVIOUS
      <4> HIDE DEF Record, V
      <4> QED BY <4>1, <4>2, <4>3, FieldRead, SMTT(30)
    <3> QED BY <2>4, <3>1 DEF field
  <2>7. FieldAt(data, p) = Record(i)
    BY <2>6 DEF FieldAt, end
  <2>8. f[p] = <<Record(i)>> \o f[end + 1]
    BY <2>4, <2>7 DEF Parses, end
  <2>9. Record(i) \in V
    <3> HIDE DEF Record
    <3> QED BY <2>4, <2>7
  <2>10. f[end + 1] \in Seq(V)
    <3>1. end + 1 \in 1..Len(data) + 2
      BY <1>1, <2>4, <2>5
    <3> QED BY <3>1 DEF Parses
  <2>11. i < k => end = x[i + 1]
    <3>1. Ampersand # NUL
      BY DEF Ampersand, NUL
    <3> QED BY <2>2, <2>5, <3>1
  <2> HIDE DEF Record, V
  <2> QED BY <2>4, <2>8, <2>9, <2>10, <2>11 DEF y
<1> HIDE DEF Record, V
<1>3. ASSUME NEW i \in 1..k, NEW g \in Seq(V), f[x[i] + 1] = <<Record(i)>> \o g, Record(i) \in V, At(i)
      PROVE  /\ f[1][i] = Record(i) /\ Len(g) \in Nat /\ Len(f[1]) = i + Len(g)
             /\ \A j \in 1..Len(g) : f[1][i + j] = g[j]
  <2> DEFINE h == f[x[i] + 1]
             m == Len(g)
  <2>1. Len(h) = 1 + m /\ m \in Nat /\ h[1] = Record(i) /\ \A j \in 1..m : h[1 + j] = g[j]
    BY <1>3, InFront
  <2>2. Len(f[1]) = i - 1 + Len(h) /\ \A j \in 1..Len(h) : f[1][i - 1 + j] = h[j]
    BY <1>3
  <2> HIDE DEF h, m
  <2>3. f[1][i] = Record(i)
    <3>1. 1 \in 1..Len(h) /\ i - 1 + 1 = i
      BY <2>1
    <3> QED BY <2>1, <2>2, <3>1
  <2>4. Len(f[1]) = i + m
    BY <2>1, <2>2
  <2>5. ASSUME NEW j \in 1..m PROVE f[1][i + j] = g[j]
    <3>1. 1 + j \in 1..Len(h) /\ i - 1 + (1 + j) = i + j
      BY <2>1
    <3> QED BY <2>1, <2>2, <3>1
  <2> QED BY <2>1, <2>3, <2>4, <2>5 DEF m
<1>4. 1 \in S
  <2>1. x[1] + 1 = 1 /\ 1 \in 1..k /\ 1 - 1 = 0
    BY <1>1 DEF Came
  <2>2. f[1] \in Seq(V)
    <3>1. 1 \in 1..Len(data) + 2
      BY <1>1
    <3> QED BY <3>1 DEF Parses, V
  <2>3. Len(f[1]) \in Nat
    BY <2>2, LenProperties
  <2>4. At(1)
    BY <2>1, <2>3
  <2> QED BY <2>1, <2>4
<1>5. ASSUME NEW i \in 1..k, i < k, i \in S PROVE i + 1 \in S
  <2>1. At(i) /\ i + 1 \in 1..k /\ i + 1 - 1 = i
    BY <1>5
  <2>2. PICK g \in Seq(V) : f[x[i] + 1] = <<Record(i)>> \o g /\ Record(i) \in V /\ g = f[x[i + 1] + 1]
    BY <1>2, <1>5
  <2> HIDE DEF At
  <2>3. Len(f[1]) = i + Len(g) /\ \A j \in 1..Len(g) : f[1][i + j] = g[j]
    BY <1>3, <2>1, <2>2
  <2>4. At(i + 1)
    <3>1. (i + 1) - 1 = i
      OBVIOUS
    <3>2. Len(f[1]) = (i + 1) - 1 + Len(f[x[i + 1] + 1])
      BY <2>2, <2>3, <3>1, Zenon
    <3>3. \A j \in 1..Len(f[x[i + 1] + 1]) : f[1][(i + 1) - 1 + j] = f[x[i + 1] + 1][j]
      BY <2>2, <2>3, <3>1, Zenon
    <3> QED BY <3>2, <3>3, Zenon DEF At
  <2> QED BY <2>1, <2>4
<1>6. \A i \in 1..k : At(i)
  <2> HIDE DEF S, At
  <2>1. 1..k \subseteq S
    BY <1>1, <1>4, <1>5, Upwards
  <2> QED BY <2>1 DEF S
<1> HIDE DEF At
<1>7. ASSUME NEW i \in 1..k PROVE f[1][i] = Record(i) /\ i <= Len(f[1])
  <2>1. PICK g \in Seq(V) : f[x[i] + 1] = <<Record(i)>> \o g /\ Record(i) \in V
    BY <1>2
  <2>2. f[1][i] = Record(i) /\ Len(g) \in Nat /\ Len(f[1]) = i + Len(g)
    BY <1>3, <1>6, <2>1
  <2> QED BY <2>2
<1>8. k \in 1..k
  BY <1>1
<1> QED BY <1>7, <1>8 DEF Record

\* The handler's look-up of a field that came whole, and fits the table.
LEMMA FoundIsStored ==
  ASSUME NEW data \in Seq(Nat), NEW form \in Seq(Fields), NEW k \in 1..Len(form), NEW x,
         Came(data, form, k, x), k <= MaxFields,
         \A i \in 1..k : Len(form[i].key) < KeyLen,
         \A i \in 1..k : form[i].key = form[k].key => i = k
  PROVE  form_parser_get_value(form_parser_parse(data), form[k].key) = Stored(form[k])
<1>1. PICK f : /\ Parses(f, data)
               /\ form_parser_parse(data) = SubSeq(f[1], 1, Min({MaxFields, Len(f[1])}))
  BY ParseIs
<1> DEFINE V == {FieldAt(data, j) : j \in 1..Len(data)}
           a == Len(f[1])
           m == Min({MaxFields, a})
           fields == SubSeq(f[1], 1, m)
           key == form[k].key
           with == {i \in DOMAIN fields : fields[i].key = key}
<1>2. k <= a /\ \A i \in 1..k : f[1][i] = [key |-> form[i].key, value |-> Stored(form[i])]
  BY <1>1, CameIsRead
<1>3. f[1] \in Seq(V) /\ a \in Nat /\ k \in Nat /\ MaxFields \in Nat
  <2>1. 1 \in 1..Len(data) + 2 /\ k \in Nat
    BY LenProperties
  <2>2. f[1] \in Seq(V)
    BY <1>1, <2>1 DEF Parses
  <2> HIDE DEF V
  <2> QED BY <2>1, <2>2, LenProperties, FormAssumption
<1>4. m \in 0..a /\ k <= m
  <2>1. MaxFields \in Int /\ a \in Int
    BY <1>3
  <2> HIDE DEF a
  <2>2. m = IF MaxFields <= a THEN MaxFields ELSE a
    BY <2>1, MinOfTwo
  <2> HIDE DEF m
  <2> QED BY <1>2, <1>3, <2>2
<1>5. fields \in Seq(V) /\ Len(fields) = m /\ \A i \in 1..m : fields[i] = f[1][i]
  <2> HIDE DEF V, m
  <2> QED BY <1>3, <1>4, Prefix
<1> HIDE DEF V, m, a, fields
<1>6. DOMAIN fields = 1..m /\ k \in 1..m /\ m \in Nat
  BY <1>3, <1>4, <1>5, LenProperties
<1>7. ASSUME NEW i \in 1..k
      PROVE  fields[i].key = form[i].key /\ fields[i].value = Stored(form[i])
  <2>1. i \in 1..m
    BY <1>6
  <2>2. fields[i] = [key |-> form[i].key, value |-> Stored(form[i])]
    BY <1>2, <1>5, <2>1
  <2> QED BY <2>2
<1>8. k \in with /\ fields[k].value = Stored(form[k])
  <2>1. k \in 1..k
    BY <1>6
  <2>2. fields[k].key = key /\ fields[k].value = Stored(form[k])
    BY <1>7, <2>1
  <2> QED BY <1>6, <2>2
<1>9. ASSUME NEW i \in with PROVE k <= i
  <2>1. i \in 1..m /\ fields[i].key = key
    BY <1>6
  <2>2. SUFFICES ASSUME i < k PROVE FALSE
    BY <1>6, <2>1
  <2>3. i \in 1..k
    BY <1>6, <2>1, <2>2
  <2>4. form[i].key = key
    BY <1>7, <2>1, <2>3
  <2>5. i = k
    BY <2>3, <2>4
  <2> QED BY <1>6, <2>2, <2>5
<1>10. Min(with) = k /\ with # {}
  <2>1. with \subseteq Int
    BY <1>6
  <2> HIDE DEF with
  <2> QED BY <1>8, <1>9, <2>1, MinIs
<1>11. form_parser_get_value(fields, key) = fields[Min(with)].value
  <2>1. form_parser_get_value(fields, key) = IF with = {} THEN Absent ELSE fields[Min(with)].value
    BY DEF form_parser_get_value
  <2> HIDE DEF with
  <2> QED BY <1>10, <2>1
<1> QED BY <1>1, <1>8, <1>10, <1>11 DEF fields, m, a

\* Bytes that are a body's as far as they came, and then a NUL.
Got(data, body, r) ==
  /\ r <= Len(body)
  /\ \A i \in 1..Len(data) : i <= r => data[i] = body[i]
  /\ r < Len(data) => data[r + 1] = NUL

LEMMA WholeFieldsCame ==
  ASSUME NEW form \in Seq(Fields), NEW data \in Seq(Nat), NEW r \in Nat,
         Got(data, Body(form), r), NEW k \in 1..Len(form), NEW size,
         size = Len(Body(SubSeq(form, 1, k))), size <= r, size <= Len(data)
  PROVE  \E x : Came(data, form, k, x)
<1> DEFINE n == Len(form)
           m == Len(data)
           body == Body(form)
           piece == Pieces(form)
           b == Len(body)
<1>1. n \in Nat /\ m \in Nat /\ b \in Nat /\ k \in 1..n /\ k \in Nat
  <2>1. body \in Seq(Marks)
    BY BodyIs
  <2> QED BY <2>1, LenProperties
<1>2. PICK pos : Laid(body, n, piece, pos)
  BY BodyIs
<1>3. /\ pos \in [1..n + 1 -> Nat] /\ pos[1] = 0 /\ pos[n + 1] = b
      /\ \A i \in 1..n : pos[i + 1] = pos[i] + Len(piece[i]) /\ HasAt(body, pos[i], piece[i])
  BY <1>2 DEF Laid
<1>4. pos[k + 1] <= r /\ pos[k + 1] <= m
  <2>1. k \in 0..Len(form)
    BY <1>1
  <2>2. size = pos[k + 1]
    BY <1>2, <2>1, PrefixLaid
  <2> QED BY <2>2
<1> DEFINE w == [i \in 1..n |-> IF i = 1 THEN 0 ELSE 1]
           t == [i \in 1..n |-> EncodeField(form[i])]
<1>5. \A i \in 1..n : /\ piece[i] \in Seq(Marks) /\ Len(piece[i]) = w[i] + Len(t[i])
                      /\ Len(t[i]) \in Nat /\ w[i] \in Nat /\ Len(piece[i]) \in Nat
                      /\ (i # 1 => piece[i][1] = Ampersand /\ w[i] = 1)
                      /\ HasAt(piece[i], w[i], t[i])
  <2>1. ASSUME NEW i \in 1..n
        PROVE  /\ piece[i] \in Seq(Marks) /\ Len(piece[i]) = w[i] + Len(t[i])
               /\ Len(t[i]) \in Nat
               /\ (i # 1 => piece[i][1] = Ampersand /\ w[i] = 1)
               /\ HasAt(piece[i], w[i], t[i])
    BY PieceIs DEF Pieces
  <2>2. \A i \in 1..n : w[i] \in Nat
    OBVIOUS
  <2> HIDE DEF piece, w, t
  <2> QED BY <2>1, <2>2, LenProperties
<1>6. \A i \in 1..n : t[i] = EncodeField(form[i])
  OBVIOUS
<1>7. w[1] = 0
  BY <1>1
<1>8. piece \in [1..n -> Seq(Marks)]
  <2>1. DOMAIN piece = 1..n /\ piece = [i \in DOMAIN piece |-> piece[i]]
    BY DEF Pieces
  <2> HIDE DEF piece
  <2> QED BY <1>5, <2>1
<1>9. \A i \in 1..k + 1 : pos[i] <= pos[k + 1]
  <2>1. k \in 0..n
    BY <1>1
  <2> HIDE DEF n, piece, body
  <2> QED BY <1>1, <1>2, <1>8, <2>1, InOrder
<1> HIDE DEF n, m, body, piece, b, w, t
<1> DEFINE x == [i \in 1..k |-> pos[i] + w[i]]
<1>10. x \in [1..k -> Nat] /\ x[1] = 0
  <2>1. \A i \in 1..k : i \in 1..n /\ i \in 1..n + 1
    BY <1>1
  <2>2. \A i \in 1..k : pos[i] \in Nat /\ w[i] \in Nat
    BY <1>3, <1>5, <2>1
  <2>3. 1 \in 1..k
    BY <1>1
  <2>4. x[1] = 0
    BY <1>3, <1>7, <2>3
  <2>5. \A i \in 1..k : pos[i] + w[i] \in Nat
    BY <2>2
  <2> QED BY <2>4, <2>5
<1>11. ASSUME NEW i \in 1..m, i <= r PROVE data[i] = body[i]
  BY <1>11 DEF m, body, Got
<1>12. ASSUME NEW i \in 1..n, i # 1, pos[i] < m, pos[i] < r PROVE data[pos[i] + 1] = Ampersand
  <2>1. pos[i] \in Nat /\ Len(piece[i]) \in Nat /\ i \in 1..n + 1
    BY <1>1, <1>3, <1>5
  <2>2. 1 \in 1..Len(piece[i])
    <3>1. Len(piece[i]) = 1 + Len(t[i]) /\ Len(t[i]) \in Nat
      BY <1>5, <1>12
    <3> QED BY <2>1, <3>1
  <2>3. body[pos[i] + 1] = Ampersand
    BY <1>3, <1>5, <1>12, <2>2 DEF HasAt
  <2>4. pos[i] + 1 \in 1..m /\ pos[i] + 1 <= r
    BY <1>1, <1>12, <2>1
  <2> QED BY <1>11, <2>3, <2>4
<1>13. ASSUME NEW i \in 1..k
       PROVE  LET z == x[i] + Len(EncodeField(form[i]))
              IN  /\ HasAt(data, x[i], EncodeField(form[i])) /\ z <= m
                  /\ IF i < k THEN data[z + 1] = Ampersand /\ x[i + 1] = z + 1 /\ z < m
                     ELSE z = m \/ data[z + 1] \in {NUL, Ampersand}
  <2> DEFINE u == t[i]
             l == Len(u)
             v == w[i]
             s == Len(piece[i])
             p == pos[i]
             y == x[i]
             z == y + l
             e == pos[k + 1]
             after == pos[i + 1]
  <2>1. i \in 1..n /\ i + 1 \in 1..k + 1 /\ i \in 1..n + 1 /\ i + 1 \in 1..n + 1 /\ k + 1 \in 1..n + 1
    BY <1>1
  <2>2. l \in Nat /\ v \in Nat /\ s \in Nat /\ s = v + l
    BY <1>5, <2>1
  <2>3. p \in Nat /\ e \in Nat /\ after = p + s /\ e <= r /\ e <= m /\ after <= e
    BY <1>3, <1>4, <1>9, <2>1
  <2>4. y = p + v /\ z = y + l
    OBVIOUS
  <2> HIDE DEF x, u, l, v, s, p, y, z, e, after
  <2>5. y \in Nat /\ z \in Nat /\ z = after /\ z <= e /\ z <= r /\ z <= m
    BY <1>1, <2>2, <2>3, <2>4
  <2>6. ASSUME NEW j \in 1..l PROVE data[y + j] = u[j]
    <3> DEFINE h == v + j
               q == y + j
    <3>1. h \in 1..s /\ p + h = q /\ q \in 1..m /\ q <= r
      BY <1>1, <2>2, <2>3, <2>4, <2>5
    <3>2. piece[i][h] = u[j]
      BY <1>5, <2>1 DEF HasAt, u, v, l
    <3> HIDE DEF h, q
    <3>3. body[p + h] = piece[i][h]
      BY <1>3, <2>1, <3>1 DEF HasAt, s, p
    <3>4. data[q] = u[j]
      BY <1>11, <3>1, <3>2, <3>3
    <3> QED BY <3>4 DEF q
  <2>7. HasAt(data, y, u)
    BY <2>6 DEF HasAt, l
  <2>8. ASSUME i < k PROVE data[z + 1] = Ampersand /\ x[i + 1] = z + 1 /\ z < m
    <3> DEFINE s2 == Len(piece[i + 1])
               l2 == Len(t[i + 1])
               after2 == pos[i + 1 + 1]
    <3>1. i + 1 \in 1..n /\ i + 1 # 1 /\ i + 1 \in 1..k /\ i + 1 + 1 \in 1..k + 1
      BY <1>1, <2>1, <2>8
    <3>2. s2 = w[i + 1] + l2 /\ l2 \in Nat /\ w[i + 1] = 1
      BY <1>5, <3>1
    <3>3. after2 = after + s2 /\ after2 <= e
      BY <1>3, <1>9, <3>1 DEF after, e
    <3>4. x[i + 1] = after + w[i + 1]
      BY <3>1 DEF x, after
    <3> HIDE DEF s2, l2, after2
    <3>5. s2 = 1 + l2 /\ x[i + 1] = after + 1
      BY <3>2, <3>4
    <3>6. z < m /\ z < r /\ after < m /\ after < r
      <4>1. after \in Nat /\ l2 \in Nat /\ s2 = 1 + l2 /\ after2 = after + s2 /\ after2 <= e /\ e \in Nat
        BY <2>3, <2>5, <3>2, <3>3, <3>5
      <4>2. after < e
        BY <4>1
      <4>3. z = after /\ e <= m /\ e <= r /\ m \in Nat
        BY <1>1, <2>3, <2>5
      <4> QED BY <4>1, <4>2, <4>3
    <3>7. data[after + 1] = Ampersand
      BY <1>12, <3>1, <3>6 DEF after
    <3> QED BY <2>5, <3>5, <3>6, <3>7
  <2>9. ASSUME ~(i < k) PROVE z = m \/ data[z + 1] \in {NUL, Ampersand}
    <3>1. i = k /\ after = e
      BY <1>1, <2>9 DEF after, e
    <3>2. SUFFICES ASSUME z # m PROVE data[z + 1] \in {NUL, Ampersand}
      OBVIOUS
    <3>3. z < m
      BY <1>1, <2>5, <3>2
    <3>4. CASE z < r
      <4>1. k # n
        <5>1. r <= b
          BY DEF b, body, Got
        <5>2. k = n => e = b
          BY <1>3 DEF e
        <5> QED BY <1>1, <2>5, <3>1, <3>4, <5>1, <5>2
      <4>2. k + 1 \in 1..n /\ k + 1 # 1
        BY <1>1, <4>1
      <4>3. e < m /\ e < r
        BY <2>5, <3>1, <3>3, <3>4
      <4>4. data[e + 1] = Ampersand
        BY <1>12, <4>2, <4>3 DEF e
      <4> QED BY <2>5, <3>1, <4>4
    <3>5. CASE ~(z < r)
      <4>1. z = r
        BY <2>5, <3>5
      <4> QED BY <3>3, <4>1 DEF m, Got
    <3> QED BY <3>4, <3>5
  <2>10. x[i] = y /\ x[i] + Len(EncodeField(form[i])) = z /\ EncodeField(form[i]) = u
    BY <1>6, <2>1, <2>4 DEF y, l, u
  <2> QED BY <2>5, <2>7, <2>8, <2>9, <2>10
<1> HIDE DEF x
<1>14. Came(data, form, k, x)
  BY <1>10, <1>13 DEF Came, m
<1> QED BY <1>14

\* What the page's user typed is what a handler finds: of a body of which some bytes
\* came, a NUL after them, each field that is whole among them has the value that was
\* encoded, up to the room it has, whatever the bytes behind that NUL are
\* (form_parser_parse, url_decode, form_parser_get_value).
THEOREM WholeFieldIsFound ==
  ASSUME NEW form \in Seq(Fields), NEW data \in Seq(Nat), NEW r \in Nat,
         Got(data, Body(form), r), NEW k \in 1..Len(form), k <= MaxFields,
         Len(Body(SubSeq(form, 1, k))) <= r, Len(Body(SubSeq(form, 1, k))) <= Len(data),
         \A i \in 1..Len(form) : Len(form[i].key) < KeyLen,
         \A i, j \in 1..Len(form) : form[i].key = form[j].key => i = j
  PROVE  form_parser_get_value(form_parser_parse(data), form[k].key) = Stored(form[k])
<1>1. PICK x : Came(data, form, k, x)
  BY WholeFieldsCame
<1>2. \A i \in 1..k : i \in 1..Len(form)
  BY LenProperties
<1> QED BY <1>1, <1>2, FoundIsStored

=============================================================================
