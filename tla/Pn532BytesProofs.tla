-------------------------- MODULE Pn532BytesProofs --------------------------
(***************************************************************************)
(* What is written is what was meant, and the frames of Pn532Frame stand   *)
(* for the bytes that are read: for every set of cards and blocks and      *)
(* wherever a read may break off.                                          *)
(***************************************************************************)
EXTENDS Pn532Bytes, SequenceTheorems, WellFoundedInduction, TLAPS

-----------------------------------------------------------------------------
(* Sums.                                                                   *)

\* Induction over the numbers, for a set in the place of a predicate.
LEMMA SetInduction ==
    ASSUME NEW T, 0 \in T, \A n \in Nat : n \in T => n + 1 \in T
    PROVE  Nat \subseteq T
<1> DEFINE R == OpToRel(<, Nat)
           U == Nat \ T
<1>1. \A x \in Nat, y \in Nat : <<x, y>> \in R <=> x < y
    BY DEF OpToRel
<1>2. SUFFICES ASSUME U # {} PROVE FALSE
    OBVIOUS
<1>3. IsWellFoundedOn(R, Nat)
    BY NatLessThanWellFounded
<1>4. U \subseteq Nat
    OBVIOUS
<1> HIDE DEF R, U
<1>5. \E x \in U : \A y \in U : ~ (<<y, x>> \in R)
    BY <1>2, <1>3, <1>4, WFMin, Zenon
<1> USE DEF U
<1>6. PICK x \in U : \A y \in U : ~ (y < x)
    BY <1>1, <1>4, <1>5
<1>7. x # 0 /\ x \in Nat
    OBVIOUS
<1>8. x - 1 \in Nat /\ x - 1 < x /\ (x - 1) + 1 = x
    BY <1>7
<1>9. x - 1 \in T
    BY <1>6, <1>8
<1> QED BY <1>6, <1>8, <1>9

\* f holds the sums of the first n bytes of s.
Sums(f, s, n) ==
    /\ f[0] = 0
    /\ \A i \in 1..n : f[i] = f[i - 1] + s[i]

\* There are such sums,
LEMMA SumsExist ==
    ASSUME NEW s \in Seq(Nat)
    PROVE  \A n \in 0..Len(s) : \E f \in [0..n -> Nat] : Sums(f, s, n)
<1> DEFINE T == {n \in Nat : n <= Len(s) => \E f \in [0..n -> Nat] : Sums(f, s, n)}
<1>1. Len(s) \in Nat /\ \A i \in 1..Len(s) : s[i] \in Nat
    OBVIOUS
<1>2. 0 \in T
    <2> DEFINE f == [i \in 0..0 |-> 0]
    <2>1. f \in [0..0 -> Nat] /\ Sums(f, s, 0)
        BY DEF Sums
    <2> QED BY <2>1
<1>3. ASSUME NEW n \in Nat, n \in T PROVE n + 1 \in T
    <2>1. SUFFICES ASSUME n + 1 <= Len(s)
                   PROVE  \E f \in [0..n + 1 -> Nat] : Sums(f, s, n + 1)
        OBVIOUS
    <2>2. PICK g \in [0..n -> Nat] : Sums(g, s, n)
        BY <1>1, <1>3, <2>1
    <2> DEFINE f == [i \in 0..n + 1 |-> IF i = n + 1 THEN g[n] + s[n + 1] ELSE g[i]]
    <2>3. f \in [0..n + 1 -> Nat]
        BY <1>1, <2>1
    <2>4. f[0] = 0
        BY <2>2 DEF Sums
    <2>5. ASSUME NEW i \in 1..n + 1 PROVE f[i] = f[i - 1] + s[i]
        BY <2>2 DEF Sums
    <2>6. Sums(f, s, n + 1)
        BY <2>4, <2>5 DEF Sums
    <2> QED BY <2>3, <2>6
<1>4. Nat \subseteq T
    BY <1>2, <1>3, SetInduction
<1>5. \A n \in 0..Len(s) : n \in Nat /\ n <= Len(s)
    BY <1>1
<1> QED BY <1>4, <1>5, Zenon

\* and only one of each.
LEMMA SumsUnique ==
    ASSUME NEW s, NEW n \in Nat, NEW f, NEW g, Sums(f, s, n), Sums(g, s, n)
    PROVE  \A i \in 0..n : f[i] = g[i]
<1> DEFINE T == {i \in Nat : i <= n => f[i] = g[i]}
<1>1. 0 \in T
    BY DEF Sums
<1>2. ASSUME NEW i \in Nat, i \in T PROVE i + 1 \in T
    BY <1>2 DEF Sums
<1>3. Nat \subseteq T
    BY <1>1, <1>2, SetInduction
<1> QED BY <1>3

\* The last of them is SumOf.
LEMMA SumIsLast ==
    ASSUME NEW s \in Seq(Nat), NEW f, Sums(f, s, Len(s))
    PROVE  SumOf(s) = f[Len(s)]
<1> DEFINE n == Len(s)
           Def(h) == [i \in 0..n |-> IF i = 0 THEN 0 ELSE h[i - 1] + s[i]]
           sum == CHOOSE h : h = Def(h)
<1>1. n \in Nat
    OBVIOUS
<1>2. PICK g \in [0..n -> Nat] : Sums(g, s, n)
    BY <1>1, SumsExist
<1>3. g = Def(g)
    BY <1>2 DEF Sums
<1>4. sum = Def(sum)
    BY <1>3
<1>5. SumOf(s) = sum[n]
    BY DEF SumOf
<1> HIDE DEF sum, n
<1>6. Sums(sum, s, n)
    BY <1>1, <1>4 DEF Sums
<1>7. sum[n] = f[n]
    BY <1>1, <1>6, SumsUnique DEF n
<1> QED BY <1>5, <1>7 DEF n

LEMMA SumType ==
    ASSUME NEW s \in Seq(Nat)
    PROVE  SumOf(s) \in Nat
<1>1. Len(s) \in Nat
    OBVIOUS
<1>2. PICK f \in [0..Len(s) -> Nat] : Sums(f, s, Len(s))
    BY <1>1, SumsExist
<1> QED BY <1>1, <1>2, SumIsLast

\* t is s with x before it and y behind it.
Surrounds(t, x, s, y) ==
    /\ Len(t) = Len(s) + 2
    /\ t[1] = x /\ t[Len(s) + 2] = y
    /\ \A i \in 1..Len(s) : t[i + 1] = s[i]

LEMMA SumFrame ==
    ASSUME NEW s \in Seq(Nat), NEW x \in Nat, NEW y \in Nat, NEW t \in Seq(Nat),
           Surrounds(t, x, s, y)
    PROVE  SumOf(t) = x + SumOf(s) + y
<1> USE DEF Surrounds
<1> DEFINE n == Len(s)
<1>1. n \in Nat /\ n \in 0..Len(s) /\ \A i \in 1..n : s[i] \in Nat
    OBVIOUS
<1>2. PICK f \in [0..n -> Nat] : Sums(f, s, n)
    BY <1>1, SumsExist
<1> DEFINE g == [i \in 0..n + 2 |->
                    IF i = 0 THEN 0 ELSE IF i = n + 2 THEN x + f[n] + y ELSE x + f[i - 1]]
<1>3. g[0] = 0
    BY <1>1
<1>4. ASSUME NEW i \in 1..n + 2 PROVE g[i] = g[i - 1] + t[i]
    <2>1. CASE i = 1
        BY <1>1, <1>2, <2>1 DEF Sums
    <2>2. CASE i \in 2..n + 1
        <3> DEFINE k == i - 1
        <3>1. k \in 1..n /\ i = k + 1 /\ k - 1 \in 0..n
            BY <1>1, <2>2
        <3>2. f[k] = f[k - 1] + s[k] /\ t[k + 1] = s[k]
            BY <1>1, <1>2, <3>1 DEF Sums
        <3>3. f[k] \in Nat /\ f[k - 1] \in Nat /\ s[k] \in Nat
            <4>1. k \in 0..n
                BY <1>1, <3>1
            <4> HIDE DEF k, n
            <4> QED BY <1>1, <1>2, <3>1, <4>1
        <3>4. g[k + 1] = x + f[k] /\ g[k] = x + f[k - 1]
            BY <1>1, <3>1
        <3> HIDE DEF g, k
        <3>5. g[k + 1] = g[k] + t[k + 1]
            BY <3>2, <3>3, <3>4
        <3> QED BY <3>1, <3>5 DEF k
    <2>3. CASE i = n + 2
        <3>1. g[i] = x + f[n] + y /\ g[i - 1] = x + f[n] /\ t[i] = y /\ f[n] \in Nat
            BY <1>1, <1>2, <2>3 DEF Sums
        <3> QED BY <3>1
    <2> QED BY <1>1, <2>1, <2>2, <2>3
<1>5. Sums(g, t, n + 2)
    BY <1>3, <1>4 DEF Sums
<1>6. g[n + 2] = x + f[n] + y
    BY <1>1
<1> HIDE DEF g
<1>7. SumOf(t) = g[n + 2]
    BY <1>5, SumIsLast
<1>8. SumOf(s) = f[n]
    BY <1>2, SumIsLast
<1> QED BY <1>6, <1>7, <1>8

-----------------------------------------------------------------------------
(* Bytes.                                                                  *)

LEMMA BytesAreNumbers ==
    ASSUME NEW s \in Seq(uint8_t)
    PROVE  s \in Seq(Nat)
<1>1. uint8_t \subseteq Nat
    BY DEF uint8_t
<1> QED BY <1>1, SeqMonotonic, Zenon

LEMMA SumOfBytes ==
    ASSUME NEW s \in Seq(uint8_t)
    PROVE  SumOf(s) \in Nat
BY BytesAreNumbers, SumType

LEMMA ModBound ==
    ASSUME NEW x \in Nat
    PROVE  x % 256 \in uint8_t /\ 255 - (x % 256) \in uint8_t
BY DEF uint8_t

\* A sum and the complement of its last byte make whole bytes.
LEMMA ModBack ==
    ASSUME NEW x \in Nat
    PROVE  (x + (255 - ((255 + x) % 256))) % 256 = 0
OBVIOUS

LEMMA ModComplement ==
    ASSUME NEW x \in Nat
    PROVE  (256 - (x % 256)) % 256 \in uint8_t
BY DEF uint8_t

LEMMA SixBytes ==
    ASSUME NEW S, NEW a \in S, NEW b \in S, NEW c \in S, NEW d \in S, NEW e \in S,
           NEW f \in S
    PROVE  <<a, b, c, d, e, f>> \in Seq(S) /\ Len(<<a, b, c, d, e, f>>) = 6
OBVIOUS

\* Three pieces one behind the other.
Joins(s, a, b, c) ==
    /\ Len(s) = Len(a) + Len(b) + Len(c)
    /\ \A i \in 1..Len(a) : s[i] = a[i]
    /\ \A i \in 1..Len(b) : s[Len(a) + i] = b[i]
    /\ \A i \in 1..Len(c) : s[Len(a) + Len(b) + i] = c[i]

LEMMA Joined ==
    ASSUME NEW S, NEW a \in Seq(S), NEW b \in Seq(S), NEW c \in Seq(S)
    PROVE  a \o b \o c \in Seq(S) /\ Joins(a \o b \o c, a, b, c)
<1>1. a \o b \o c \in Seq(S)
    OBVIOUS
<1>2. Len(a \o b \o c) = Len(a) + Len(b) + Len(c)
    OBVIOUS
<1>3. \A i \in 1..Len(a) : (a \o b \o c)[i] = a[i]
    OBVIOUS
<1>4. \A i \in 1..Len(b) : (a \o b \o c)[Len(a) + i] = b[i]
    OBVIOUS
<1>5. \A i \in 1..Len(c) : (a \o b \o c)[Len(a) + Len(b) + i] = c[i]
    OBVIOUS
<1> QED BY <1>1, <1>2, <1>3, <1>4, <1>5, Zenon DEF Joins

\* Two pieces of n and m places one behind the other.
Follows(s, a, b, n, m) ==
    /\ Len(s) = n + m
    /\ \A i \in 1..n : s[i] = a[i]
    /\ \A i \in 1..m : s[n + i] = b[i]

LEMMA Followed ==
    ASSUME NEW S, NEW a \in Seq(S), NEW b \in Seq(S), NEW n \in Nat, NEW m \in Nat,
           Len(a) = n, Len(b) = m
    PROVE  a \o b \in Seq(S) /\ Follows(a \o b, a, b, n, m)
<1>1. a \o b \in Seq(S)
    OBVIOUS
<1>2. Len(a \o b) = n + m
    OBVIOUS
<1>3. \A i \in 1..n : (a \o b)[i] = a[i]
    OBVIOUS
<1>4. \A i \in 1..m : (a \o b)[n + i] = b[i]
    OBVIOUS
<1> QED BY <1>1, <1>2, <1>3, <1>4, Zenon DEF Follows

\* The k places of b from m on.
LEMMA Slice ==
    ASSUME NEW S, NEW b \in Seq(S), NEW m \in Nat \ {0}, NEW k \in Nat, NEW n \in Nat,
           Len(b) = n, m + k - 1 <= n, NEW t \in Seq(S), Len(t) = k,
           \A i \in 1..k : t[i] = b[m + i - 1]
    PROVE  SubSeq(b, m, m + k - 1) = t
<1> DEFINE s == SubSeq(b, m, m + k - 1)
<1>1. s \in Seq(S) /\ Len(s) = k
    OBVIOUS
<1>2. \A i \in 1..k : s[i] = b[m + i - 1]
    OBVIOUS
<1> HIDE DEF s
<1>3. Len(s) = Len(t) /\ \A i \in 1..Len(s) : s[i] = t[i]
    BY <1>1, <1>2
<1>4. s = t
    BY <1>1, <1>3, SeqEqual, Zenon
<1> QED BY <1>4 DEF s

-----------------------------------------------------------------------------
(* Writing.                                                                *)

\* The byte that makes the sum a whole one.
Complement(cmd) == 255 - ((467 + SumOf(cmd)) % 256)

\* A frame with a command of n bytes in it.
FrameOf(b, cmd, n) ==
    /\ b \in Seq(uint8_t) /\ Len(b) = n + 8
    /\ b[1] = 0 /\ b[2] = 0 /\ b[3] = 255
    /\ b[4] = n + 1 /\ b[5] = 255 - n
    /\ b[6] = 212
    /\ \A i \in 1..n : b[6 + i] = cmd[i]
    /\ b[n + 7] = Complement(cmd)
    /\ b[n + 8] = 0

LEMMA ComplementType ==
    ASSUME NEW cmd \in Seq(uint8_t)
    PROVE  SumOf(cmd) \in Nat /\ Complement(cmd) \in uint8_t
<1>1. SumOf(cmd) \in Nat
    BY SumOfBytes
<1>2. 467 + SumOf(cmd) \in Nat
    BY <1>1
<1>3. Complement(cmd) \in uint8_t
    BY <1>2, ModBound, ZenonT(30) DEF Complement
<1> QED BY <1>1, <1>3

\* Its head and its tail.
IsHead(head, n) ==
    /\ Len(head) = 6
    /\ head[1] = 0 /\ head[2] = 0 /\ head[3] = 255
    /\ head[4] = n + 1 /\ head[5] = 255 - n
    /\ head[6] = 212

IsTail(tail, c) == Len(tail) = 2 /\ tail[1] = c /\ tail[2] = 0

LEMMA Assembled ==
    ASSUME NEW n \in 1..100, NEW cmd, Len(cmd) = n,
           NEW head, IsHead(head, n), NEW tail, IsTail(tail, Complement(cmd)),
           NEW s \in Seq(uint8_t), Joins(s, head, cmd, tail)
    PROVE  FrameOf(s, cmd, n)
<1> USE DEF IsHead, IsTail
<1>1. Len(s) = n + 8
    BY DEF Joins
<1>2. \A i \in 1..6 : s[i] = head[i]
    BY DEF Joins
<1>3. \A i \in 1..n : s[6 + i] = cmd[i]
    BY DEF Joins
<1>4. \A i \in 1..2 : s[6 + n + i] = tail[i]
    BY DEF Joins
<1>5. s[1] = 0 /\ s[2] = 0 /\ s[3] = 255 /\ s[4] = n + 1 /\ s[5] = 255 - n /\ s[6] = 212
    BY <1>2
<1>6. s[n + 7] = Complement(cmd) /\ s[n + 8] = 0
    <2>1. 6 + n + 1 = n + 7 /\ 6 + n + 2 = n + 8
        OBVIOUS
    <2> QED BY <1>4, <2>1
<1> QED BY <1>1, <1>3, <1>5, <1>6 DEF FrameOf

LEMMA CommandBytes ==
    ASSUME NEW n \in 1..100, NEW cmd \in Seq(uint8_t), Len(cmd) = n
    PROVE  FrameOf(CommandBuffer(cmd), cmd, n)
<1> DEFINE c == Complement(cmd)
           head == <<0, 0, 255, n + 1, 255 - n, 212>>
           tail == <<c, 0>>
<1>1. SumOf(cmd) \in Nat /\ c \in uint8_t
    BY ComplementType
<1>2. CommandBuffer(cmd) = head \o cmd \o tail
    <2>1. (256 - (n + 1)) % 256 = 255 - n
        OBVIOUS
    <2>2. 255 - ((0 + 0 + 255 + 212 + SumOf(cmd)) % 256) = c
        BY <1>1 DEF Complement
    <2> QED BY <2>1, <2>2, ZenonT(30) DEF CommandBuffer
<1> HIDE DEF c
<1>3. head \in Seq(uint8_t) /\ Len(head) = 6
    <2>1. /\ 0 \in uint8_t /\ 255 \in uint8_t /\ 212 \in uint8_t
          /\ n + 1 \in uint8_t /\ 255 - n \in uint8_t
        BY DEF uint8_t
    <2> QED BY <2>1, SixBytes
<1>4. tail \in Seq(uint8_t) /\ Len(tail) = 2
    BY <1>1 DEF uint8_t
<1>5. IsHead(head, n) /\ IsTail(tail, c)
    BY <1>3, <1>4 DEF IsHead, IsTail
<1> HIDE DEF head, tail
<1>6. /\ head \o cmd \o tail \in Seq(uint8_t)
      /\ Joins(head \o cmd \o tail, head, cmd, tail)
    BY <1>3, <1>4, Joined, Zenon
<1>7. FrameOf(head \o cmd \o tail, cmd, n)
    BY <1>5, <1>6, Assembled, Zenon DEF c
<1> QED BY <1>2, <1>7

\* Its bytes from the direction on make a whole sum.
LEMMA WholeSum ==
    ASSUME NEW cmd \in Seq(uint8_t), NEW d, d = 212,
           NEW t \in Seq(uint8_t), Surrounds(t, d, cmd, Complement(cmd))
    PROVE  SumOf(t) % 256 = 0
<1>1. SumOf(cmd) \in Nat /\ Complement(cmd) \in Nat /\ d \in Nat
    <2>1. uint8_t \subseteq Nat /\ d \in Nat
        BY DEF uint8_t
    <2> QED BY <2>1, ComplementType, Zenon
<1>2. t \in Seq(Nat) /\ cmd \in Seq(Nat)
    BY BytesAreNumbers
<1>3. Surrounds(t, d, cmd, Complement(cmd))
    OBVIOUS
<1>4. SumOf(t) = d + SumOf(cmd) + Complement(cmd)
    BY ONLY <1>1, <1>2, <1>3, SumFrame
<1> DEFINE x == 212 + SumOf(cmd)
<1>5. x \in Nat /\ SumOf(t) = x + Complement(cmd)
    BY <1>1, <1>4
<1>6. Complement(cmd) = 255 - ((255 + x) % 256)
    <2>1. 467 + SumOf(cmd) = 255 + x
        BY <1>1
    <2> QED BY <2>1 DEF Complement
<1> HIDE DEF x
<1> QED BY <1>5, <1>6, ModBack

\* The chip reads from such bytes what was meant.
LEMMA FrameRead ==
    ASSUME NEW n \in 1..100, NEW cmd \in Seq(uint8_t), Len(cmd) = n, NEW b,
           FrameOf(b, cmd, n)
    PROVE  IsFrameOf(b, cmd)
<1>1. b \in Seq(uint8_t) /\ Len(b) = n + 8
    BY DEF FrameOf
<1>2. /\ b[1] = 0 /\ b[2] = 0 /\ b[3] = 255 /\ b[4] = n + 1 /\ b[5] = 255 - n
      /\ b[6] = 212 /\ b[n + 7] = Complement(cmd) /\ b[n + 8] = 0
      /\ \A i \in 1..n : b[6 + i] = cmd[i]
    BY DEF FrameOf
<1>3. SubSeq(b, 1, 3) = <<0, 0, 255>>
    <2> DEFINE t == <<0, 0, 255>>
    <2>1. t \in Seq(uint8_t) /\ Len(t) = 3 /\ t[1] = 0 /\ t[2] = 0 /\ t[3] = 255
        BY DEF uint8_t
    <2> HIDE DEF t
    <2>2. \A i \in 1..3 : t[i] = b[1 + i - 1]
        BY <1>2, <2>1
    <2>3. SubSeq(b, 1, 1 + 3 - 1) = t
        BY <1>1, <2>1, <2>2, Slice
    <2> QED BY <2>3 DEF t
<1>4. (b[4] + b[5]) % 256 = 0
    <2>1. b[4] + b[5] = 256
        BY <1>2
    <2> QED BY <2>1
<1>5. SumOf(SubSeq(b, 6, 6 + b[4])) % 256 = 0
    <2> DEFINE t == [i \in 1..n + 2 |-> b[i + 5]]
    <2>1. t \in Seq(uint8_t) /\ Len(t) = n + 2
        <3>1. ASSUME NEW i \in 1..n + 2 PROVE b[i + 5] \in uint8_t
            <4>1. i + 5 \in 1..Len(b)
                BY <1>1
            <4> QED BY <1>1, <4>1, ElementOfSeq
        <3>2. t \in [1..n + 2 -> uint8_t] /\ n + 2 \in Nat
            BY <3>1
        <3> HIDE DEF t
        <3> QED BY <3>2
    <2>2. t[1] = 212 /\ t[n + 2] = Complement(cmd)
        BY <1>2
    <2>3. \A i \in 1..n : t[i + 1] = cmd[i]
        BY <1>2
    <2>4. SubSeq(b, 6, 6 + (n + 2) - 1) = t
        <3>1. \A i \in 1..n + 2 : t[i] = b[6 + i - 1]
            OBVIOUS
        <3> HIDE DEF t
        <3> QED BY <1>1, <2>1, <3>1, Slice
    <2> HIDE DEF t
    <2>5. SumOf(t) % 256 = 0
        <3>1. Surrounds(t, 212, cmd, Complement(cmd))
            BY <2>1, <2>2, <2>3 DEF Surrounds
        <3> DEFINE d == 212
        <3>2. d = 212 /\ Surrounds(t, d, cmd, Complement(cmd))
            BY <3>1
        <3> HIDE DEF d
        <3> QED BY <2>1, <3>2, WholeSum, Zenon
    <2>6. 6 + b[4] = 6 + (n + 2) - 1
        BY <1>2
    <2> QED BY <2>4, <2>5, <2>6
<1>6. SubSeq(b, 7, 5 + b[4]) = cmd
    <2>1. SubSeq(b, 7, 7 + n - 1) = cmd
        BY <1>1, <1>2, Slice
    <2> QED BY <1>2, <2>1
<1> QED BY <1>1, <1>2, <1>3, <1>4, <1>5, <1>6 DEF IsFrameOf

\* What Sends writes is the whole of such a frame.
LEMMA SendsFrame ==
    ASSUME NEW n \in 1..20, NEW cmd \in Seq(uint8_t), Len(cmd) = n, NEW room,
           Sends(cmd, room)
    PROVE  /\ event'.type = "write" /\ event'.cmd = cmd /\ event'.room = room
           /\ IsFrameOf(event'.bytes, cmd) /\ Len(event'.bytes) <= 28
<1> DEFINE b == CommandBuffer(cmd)
<1>1. n \in 1..100
    OBVIOUS
<1>2. FrameOf(b, cmd, n)
    BY <1>1, CommandBytes
<1> HIDE DEF b
<1>3. b \in Seq(uint8_t) /\ Len(b) = n + 8
    BY <1>2 DEF FrameOf
<1>4. IsFrameOf(b, cmd)
    BY <1>1, <1>2, FrameRead
<1>5. SubSeq(b, 1, 1 + (n + 8) - 1) = b
    <2>1. \A i \in 1..n + 8 : b[i] = b[1 + i - 1]
        OBVIOUS
    <2> QED BY <1>3, <2>1, Slice
<1>6. SubSeq(b, 1, Len(cmd) + 8) = b
    BY <1>5
<1>7. event' = [type |-> "write", cmd |-> cmd, bytes |-> b, room |-> room]
    BY <1>6 DEF Sends, Writes, b
<1> QED BY <1>3, <1>4, <1>7

\* The frame that is written byte by byte is one of them too.
LEMMA RfConfigurationFrame ==
    IsFrameOf(<<0, 0, 255, 6, 250, 212, 50, 5, 255, 1, 255, 246, 0>>,
              <<50, 5, 255, 1, 255>>)
<1> DEFINE cmd == <<50, 5, 255, 1, 255>>
           b == <<0, 0, 255, 6, 250, 212, 50, 5, 255, 1, 255, 246, 0>>
           f == [i \in 0..5 |-> CASE i = 0 -> 0 [] i = 1 -> 50 [] i = 2 -> 55
                                  [] i = 3 -> 310 [] i = 4 -> 311 [] i = 5 -> 566]
<1>1. /\ cmd \in Seq(uint8_t) /\ Len(cmd) = 5
      /\ cmd[1] = 50 /\ cmd[2] = 5 /\ cmd[3] = 255 /\ cmd[4] = 1 /\ cmd[5] = 255
    BY DEF uint8_t
<1>2. b \in Seq(uint8_t) /\ Len(b) = 13
    BY DEF uint8_t
<1>3. b[1] = 0 /\ b[2] = 0 /\ b[3] = 255 /\ b[4] = 6 /\ b[5] = 250 /\ b[6] = 212
    OBVIOUS
<1>4. b[7] = 50 /\ b[8] = 5 /\ b[9] = 255 /\ b[10] = 1 /\ b[11] = 255
    OBVIOUS
<1>5. b[12] = 246 /\ b[13] = 0
    OBVIOUS
<1>6. /\ f[0] = 0 /\ f[1] = 50 /\ f[2] = 55 /\ f[3] = 310 /\ f[4] = 311
      /\ f[5] = 566
    OBVIOUS
<1> HIDE DEF cmd, b, f
<1>7. Sums(f, cmd, 5)
    <2>1. \A i \in 1..5 : i = 1 \/ i = 2 \/ i = 3 \/ i = 4 \/ i = 5
        OBVIOUS
    <2> QED BY <1>1, <1>6, <2>1 DEF Sums
<1>8. SumOf(cmd) = 566
    <2>1. cmd \in Seq(Nat)
        BY <1>1, BytesAreNumbers
    <2>2. Len(cmd) = 5 /\ Sums(f, cmd, Len(cmd))
        BY <1>1, <1>7
    <2>3. SumOf(cmd) = f[Len(cmd)]
        BY <2>1, <2>2, SumIsLast, Zenon
    <2> QED BY <1>6, <2>2, <2>3
<1>9. Complement(cmd) = 246
    BY <1>8 DEF Complement
<1>10. \A i \in 1..5 : b[6 + i] = cmd[i]
    <2>1. \A i \in 1..5 : i = 1 \/ i = 2 \/ i = 3 \/ i = 4 \/ i = 5
        OBVIOUS
    <2> QED BY <1>1, <1>4, <2>1
<1>11. FrameOf(b, cmd, 5)
    BY <1>2, <1>3, <1>5, <1>9, <1>10 DEF FrameOf
<1>12. IsFrameOf(b, cmd)
    BY <1>1, <1>11, FrameRead
<1> QED BY <1>12 DEF b, cmd

-----------------------------------------------------------------------------
(* What the chip sends.                                                    *)

LEMMA Tuple ==
    ASSUME NEW S, NEW n \in Nat, NEW f \in [1..n -> S]
    PROVE  f \in Seq(S) /\ Len(f) = n
OBVIOUS

\* The n places of o are those of b with a laid over them.
Covers(o, a, b, n) ==
    \A i \in 1..n : o[i] = IF i <= Len(a) THEN a[i] ELSE b[i]

LEMMA OverBytes ==
    ASSUME NEW S, NEW a \in Seq(S), NEW b \in Seq(S), NEW n \in Nat, Len(b) = n
    PROVE  Over(a, b) \in [1..n -> S] /\ Covers(Over(a, b), a, b, n)
<1>1. Over(a, b) = [i \in 1..n |-> IF i <= Len(a) THEN a[i] ELSE b[i]]
    BY DEF Over
<1>2. \A i \in 1..n : (IF i <= Len(a) THEN a[i] ELSE b[i]) \in S
    OBVIOUS
<1> QED BY <1>1, <1>2 DEF Covers

LEMMA Whole ==
    ASSUME NEW b \in [1..28 -> uint8_t]
    PROVE  b \in Seq(uint8_t) /\ Len(b) = 28
<1> DEFINE n == 28
<1>1. n \in Nat /\ b \in [1..n -> uint8_t]
    OBVIOUS
<1> HIDE DEF n
<1>2. b \in Seq(uint8_t) /\ Len(b) = n
    BY <1>1, Tuple, Zenon
<1> QED BY <1>2 DEF n

LEMMA OverWhole ==
    ASSUME NEW a \in Seq(uint8_t), NEW b \in [1..28 -> uint8_t]
    PROVE  Over(a, b) \in [1..28 -> uint8_t] /\ Covers(Over(a, b), a, b, 28)
<1> DEFINE n == 28
<1>1. n \in Nat /\ b \in Seq(uint8_t) /\ Len(b) = n
    BY Whole
<1> HIDE DEF n
<1>2. Over(a, b) \in [1..n -> uint8_t] /\ Covers(Over(a, b), a, b, n)
    BY <1>1, OverBytes, Zenon
<1> QED BY <1>2 DEF n

\* 28 bytes with a frame of n bytes behind the first.
Pads(p, frame, n, filler) ==
    /\ p \in [1..28 -> uint8_t]
    /\ \A i \in 1..n : p[i + 1] = frame[i]
    /\ \A i \in n + 2..28 : p[i] = filler

LEMMA PaddedBytes ==
    ASSUME NEW n \in 0..27, NEW frame \in Seq(uint8_t), Len(frame) = n,
           NEW filler \in uint8_t
    PROVE  Pads(Padded(frame, filler), frame, n, filler)
<1> DEFINE a == <<1>> \o frame
           b == [i \in 1..28 |-> filler]
           p == Over(a, b)
<1>1. a \in Seq(uint8_t) /\ Len(a) = n + 1
    BY DEF uint8_t
<1>2. \A i \in 1..n : a[i + 1] = frame[i]
    BY DEF uint8_t
<1>3. b \in [1..28 -> uint8_t] /\ \A i \in 1..28 : b[i] = filler
    OBVIOUS
<1>4. Padded(frame, filler) = p
    BY DEF Padded
<1> HIDE DEF a, b
<1>5. /\ p \in [1..28 -> uint8_t]
      /\ \A i \in 1..28 : p[i] = IF i <= Len(a) THEN a[i] ELSE b[i]
    BY <1>1, <1>3, OverWhole DEF Covers
<1> HIDE DEF p
<1>6. ASSUME NEW i \in 1..n PROVE p[i + 1] = frame[i]
    <2>1. i + 1 \in 1..28 /\ i + 1 <= n + 1
        OBVIOUS
    <2>2. p[i + 1] = a[i + 1]
        BY ONLY <1>1, <1>5, <2>1
    <2> QED BY <1>2, <2>2
<1>7. ASSUME NEW i \in n + 2..28 PROVE p[i] = filler
    <2>1. i \in 1..28 /\ ~ (i <= n + 1)
        OBVIOUS
    <2>2. p[i] = b[i]
        BY ONLY <1>1, <1>5, <2>1
    <2> QED BY <1>3, <2>1, <2>2
<1> QED BY <1>4, <1>5, <1>6, <1>7 DEF Pads

\* A frame of the chip with n bytes in it, that make up a given sum.
InformationOf(b, data, n, sum) ==
    /\ b \in Seq(uint8_t) /\ Len(b) = n + 7
    /\ b[1] = 0 /\ b[4] = n
    /\ \A i \in 1..n : b[5 + i] = data[i]
    /\ b[n + 6] = (256 - (sum % 256)) % 256
    /\ b[n + 7] = 0

LEMMA InformationBytes ==
    ASSUME NEW n \in 1..20, NEW data \in Seq(uint8_t), Len(data) = n
    PROVE  InformationOf(Information(data), data, n, SumOf(data))
<1> DEFINE c == (256 - (SumOf(data) % 256)) % 256
           head == <<0, 0, 255, n, (256 - n) % 256>>
           tail == <<c, 0>>
           s == head \o data \o tail
<1>1. SumOf(data) \in Nat
    BY SumOfBytes
<1>2. c \in uint8_t
    BY <1>1, ModComplement
<1> HIDE DEF c
<1>3. head \in Seq(uint8_t) /\ Len(head) = 5 /\ head[1] = 0 /\ head[4] = n
    <2>1. 0 \in uint8_t /\ 255 \in uint8_t /\ n \in uint8_t /\ (256 - n) % 256 \in uint8_t
        BY DEF uint8_t
    <2> QED BY <2>1
<1>4. tail \in Seq(uint8_t) /\ Len(tail) = 2 /\ tail[1] = c /\ tail[2] = 0
    BY <1>2 DEF uint8_t
<1>5. Information(data) = s
    BY DEF Information, c
<1> HIDE DEF head, tail
<1>6. s \in Seq(uint8_t) /\ Joins(s, head, data, tail)
    BY <1>3, <1>4, Joined, Zenon
<1> HIDE DEF s
<1>7. Len(s) = n + 7
    BY <1>3, <1>4, <1>6 DEF Joins
<1>8. s[1] = 0 /\ s[4] = n
    BY <1>3, <1>6 DEF Joins
<1>9. \A i \in 1..n : s[5 + i] = data[i]
    BY <1>3, <1>6 DEF Joins
<1>10. \A i \in 1..2 : s[5 + n + i] = tail[i]
    BY <1>3, <1>4, <1>6 DEF Joins
<1>11. s[n + 6] = c /\ s[n + 7] = 0
    <2>1. 5 + n + 1 = n + 6 /\ 5 + n + 2 = n + 7
        OBVIOUS
    <2> QED BY <1>4, <1>10, <2>1
<1> QED BY <1>5, <1>6, <1>7, <1>8, <1>9, <1>11 DEF InformationOf, c

\* It arrives in 28 bytes, behind the status byte.
InfoBytes(b, data, n, sum) ==
    /\ b \in [1..28 -> uint8_t]
    /\ b[2] = 0 /\ b[5] = n
    /\ \A i \in 1..n : b[6 + i] = data[i]
    /\ b[n + 7] = (256 - (sum % 256)) % 256
    /\ b[n + 8] = 0
    /\ \A i \in n + 9..28 : b[i] = 128

LEMMA InfoPadded ==
    ASSUME NEW n \in 1..20, NEW data \in Seq(uint8_t), Len(data) = n
    PROVE  InfoBytes(Padded(Information(data), 128), data, n, SumOf(data))
<1> DEFINE f == Information(data)
           v == 128
           p == Padded(f, v)
           c == (256 - (SumOf(data) % 256)) % 256
<1>1. InformationOf(f, data, n, SumOf(data))
    BY InformationBytes
<1>2. v \in uint8_t
    BY DEF uint8_t
<1> HIDE DEF f, v
<1>3. /\ f \in Seq(uint8_t) /\ Len(f) = n + 7
      /\ f[1] = 0 /\ f[4] = n /\ f[n + 6] = c /\ f[n + 7] = 0
      /\ \A i \in 1..n : f[5 + i] = data[i]
    BY <1>1 DEF InformationOf
<1>4. /\ p \in [1..28 -> uint8_t]
      /\ \A i \in 1..n + 7 : p[i + 1] = f[i]
      /\ \A i \in n + 9..28 : p[i] = v
    <2> DEFINE k == n + 7
    <2>1. k \in 0..27 /\ k + 2 = n + 9 /\ Len(f) = k
        BY <1>3
    <2> HIDE DEF k
    <2>2. Pads(p, f, k, v)
        BY <1>2, <1>3, <2>1, PaddedBytes, Zenon
    <2> QED BY <2>1, <2>2 DEF k, Pads
<1> HIDE DEF p, c
<1>5. p[2] = 0 /\ p[5] = n
    <2>1. 1 \in 1..n + 7 /\ 4 \in 1..n + 7
        OBVIOUS
    <2>2. p[1 + 1] = f[1] /\ p[4 + 1] = f[4]
        BY ONLY <1>4, <2>1, Zenon
    <2> QED BY <1>3, <2>2
<1>6. ASSUME NEW i \in 1..n PROVE p[6 + i] = data[i]
    <2> DEFINE k == 5 + i
    <2>1. k \in 1..n + 7 /\ k + 1 = 6 + i /\ f[k] = data[i]
        BY <1>3
    <2> HIDE DEF k
    <2> QED BY <1>4, <2>1
<1>7. p[n + 7] = c /\ p[n + 8] = 0
    <2>1. /\ n + 6 \in 1..n + 7 /\ n + 7 \in 1..n + 7
          /\ (n + 6) + 1 = n + 7 /\ (n + 7) + 1 = n + 8
        OBVIOUS
    <2> QED BY <1>3, <1>4, <2>1
<1> QED BY <1>4, <1>5, <1>6, <1>7 DEF InfoBytes, p, c, f, v

\* Only an ACK frame has no length, and the ninth byte is the status.
AckOffer(o) ==
    /\ o.frames = {Plain("ack")}
    /\ o.bytes[2] = 0 /\ o.bytes[3] = 0 /\ o.bytes[4] = 255 /\ o.bytes[5] = 0
    /\ o.bytes[6] = 255 /\ o.bytes[7] = 0
    /\ o.bytes[14] \in {0, 128}

PlainOf(o, kind) ==
    /\ o.frames = {Plain(kind)}
    /\ o.bytes[5] # 0
    /\ o.bytes[9] = 0 <=> kind = "success"
    /\ o.bytes[9] = 0 => o.bytes[2] = 0
    /\ o.bytes[14] \in {0, 128}

PlainOffer(o) ==
    \E kind \in {"junk", "firmware", "done", "success", "failure"} : PlainOf(o, kind)

DataOffer(o) ==
    /\ o.frames = {[kind |-> "success", uid |-> u] : u \in {NoCard, CutUid}}
    /\ o.bytes[2] = 0 /\ o.bytes[5] # 0 /\ o.bytes[9] = 0

TargetOf(o, card) ==
    /\ o.frames = {[kind |-> "target", uid |-> card]}
    /\ o.bytes[5] # 0 /\ o.bytes[9] # 0
    /\ o.bytes[14] = Len(card)
    /\ \A i \in 1..Len(card) : o.bytes[14 + i] = card[i]

TargetOffer(o) == \E card \in Card : TargetOf(o, card)

LEMMA AckOffered ==
    ASSUME NEW filler \in {0, 128}, NEW o, o.frames = {Plain("ack")},
           o.bytes = Padded(<<0, 0, 255, 0, 255, 0>>, filler)
    PROVE  o.bytes \in [1..28 -> uint8_t] /\ AckOffer(o)
<1> DEFINE f == <<0, 0, 255, 0, 255, 0>>
           b == Padded(f, filler)
           n == 6
<1>1. f \in Seq(uint8_t) /\ Len(f) = n
    BY SixBytes DEF uint8_t
<1>2. f[1] = 0 /\ f[2] = 0 /\ f[3] = 255 /\ f[4] = 0 /\ f[5] = 255 /\ f[6] = 0
    OBVIOUS
<1>3. filler \in uint8_t /\ n \in 0..27
    BY DEF uint8_t
<1> HIDE DEF f, n
<1>4. Pads(b, f, n, filler)
    BY <1>1, <1>3, PaddedBytes, ZenonT(30)
<1> HIDE DEF b
<1>5. /\ b \in [1..28 -> uint8_t] /\ \A i \in 1..6 : b[i + 1] = f[i]
      /\ \A i \in 8..28 : b[i] = filler
    BY <1>4 DEF Pads, n
<1>6. /\ b[1 + 1] = 0 /\ b[2 + 1] = 0 /\ b[3 + 1] = 255 /\ b[4 + 1] = 0
      /\ b[5 + 1] = 255 /\ b[6 + 1] = 0
    BY <1>2, <1>5
<1>7. b[14] = filler
    BY <1>5
<1>8. o.bytes = b
    BY DEF b, f
<1> QED BY <1>5, <1>6, <1>7, <1>8 DEF AckOffer

LEMMA JunkOffered ==
    ASSUME NEW o, o.frames = {Plain("junk")}, o.bytes = [i \in 1..28 |-> 128]
    PROVE  o.bytes \in [1..28 -> uint8_t] /\ PlainOf(o, "junk")
<1> DEFINE b == [i \in 1..28 |-> 128]
<1>1. b \in [1..28 -> uint8_t]
    BY DEF uint8_t
<1>2. b[5] = 128 /\ b[9] = 128 /\ b[14] = 128
    OBVIOUS
<1>3. o.bytes = b
    OBVIOUS
<1> HIDE DEF b
<1> QED BY <1>1, <1>2, <1>3 DEF PlainOf

LEMMA FirmwareOffered ==
    ASSUME NEW o, o.frames = {Plain("firmware")},
           o.bytes = Padded(Information(<<213, 3, 50, 1, 6, 7>>), 128)
    PROVE  o.bytes \in [1..28 -> uint8_t] /\ PlainOf(o, "firmware")
<1> DEFINE data == <<213, 3, 50, 1, 6, 7>>
           b == Padded(Information(data), 128)
           n == 6
<1>1. data \in Seq(uint8_t) /\ Len(data) = n /\ n \in 1..20
    BY SixBytes DEF uint8_t
<1>2. data[3] = 50
    OBVIOUS
<1> HIDE DEF data, n
<1>3. InfoBytes(b, data, n, SumOf(data))
    BY <1>1, InfoPadded
<1> HIDE DEF b
<1>4. /\ b \in [1..28 -> uint8_t] /\ b[5] = 6 /\ b[6 + 8] = 0
      /\ \A i \in 1..6 : b[6 + i] = data[i]
    BY <1>3 DEF InfoBytes, n
<1>5. b[6 + 3] = 50
    BY <1>2, <1>4
<1>6. o.bytes = b
    BY DEF b, data
<1> QED BY <1>4, <1>5, <1>6 DEF PlainOf

LEMMA DoneOffered ==
    ASSUME NEW o, o.frames = {Plain("done")},
           o.bytes = Padded(Information(<<213, 15>>), 128)
    PROVE  o.bytes \in [1..28 -> uint8_t] /\ PlainOf(o, "done")
<1> DEFINE data == <<213, 15>>
           b == Padded(Information(data), 128)
           n == 2
           f == [i \in 0..2 |-> CASE i = 0 -> 0 [] i = 1 -> 213 [] i = 2 -> 228]
<1>1. data \in Seq(uint8_t) /\ Len(data) = n /\ n \in 1..20
    BY DEF uint8_t
<1>2. data[1] = 213 /\ data[2] = 15
    OBVIOUS
<1>3. f[0] = 0 /\ f[1] = 213 /\ f[2] = 228
    OBVIOUS
<1> HIDE DEF data, f
<1>4. SumOf(data) = 228
    <2>1. \A i \in 1..2 : i = 1 \/ i = 2
        OBVIOUS
    <2>2. data \in Seq(Nat)
        BY <1>1, BytesAreNumbers
    <2>3. Sums(f, data, 2)
        BY <1>2, <1>3, <2>1 DEF Sums
    <2>4. Len(data) = 2 /\ Sums(f, data, Len(data))
        BY <1>1, <2>3
    <2>5. SumOf(data) = f[Len(data)]
        BY <2>2, <2>4, SumIsLast, Zenon
    <2> QED BY <1>3, <2>4, <2>5
<1> HIDE DEF n
<1>5. InfoBytes(b, data, n, SumOf(data))
    BY <1>1, InfoPadded
<1> HIDE DEF b
<1>6. /\ b \in [1..28 -> uint8_t] /\ b[5] = 2
      /\ b[2 + 7] = (256 - (228 % 256)) % 256
      /\ \A i \in 11..28 : b[i] = 128
    BY <1>4, <1>5 DEF InfoBytes, n
<1>7. b[9] = 28 /\ b[14] = 128
    BY <1>6
<1>8. o.bytes = b
    BY DEF b, data
<1> QED BY <1>6, <1>7, <1>8 DEF PlainOf

LEMMA StatusOffered ==
    ASSUME NEW status \in {0, 20}, NEW kind, status = 0 <=> kind = "success",
           NEW o, o.frames = {Plain(kind)},
           o.bytes = Padded(Information(<<213, 65, status>>), 128)
    PROVE  o.bytes \in [1..28 -> uint8_t] /\ PlainOf(o, kind)
<1> DEFINE data == <<213, 65, status>>
           b == Padded(Information(data), 128)
           n == 3
<1>1. data \in Seq(uint8_t) /\ Len(data) = n /\ n \in 1..20
    <2>1. 213 \in uint8_t /\ 65 \in uint8_t /\ status \in uint8_t
        BY DEF uint8_t
    <2> QED BY <2>1
<1>2. data[3] = status
    OBVIOUS
<1> HIDE DEF data, n
<1>3. InfoBytes(b, data, n, SumOf(data))
    BY <1>1, InfoPadded
<1> HIDE DEF b
<1>4. /\ b \in [1..28 -> uint8_t] /\ b[2] = 0 /\ b[5] = 3
      /\ \A i \in 1..3 : b[6 + i] = data[i]
      /\ \A i \in 12..28 : b[i] = 128
    BY <1>3 DEF InfoBytes, n
<1>5. b[6 + 3] = status /\ b[14] = 128
    BY <1>2, <1>4
<1>6. o.bytes = b
    BY DEF b, data
<1> QED BY <1>4, <1>5, <1>6 DEF PlainOf

LEMMA DataOffered ==
    ASSUME NEW data \in Data, NEW o,
           o.frames = {[kind |-> "success", uid |-> u] : u \in {NoCard, CutUid}},
           o.bytes = Padded(Information(<<213, 65, 0>> \o data), 128)
    PROVE  o.bytes \in [1..28 -> uint8_t] /\ DataOffer(o)
<1> DEFINE head == <<213, 65, 0>>
           s == head \o data
           b == Padded(Information(s), 128)
           h == 3
           m == 16
           n == 19
<1>1. data \in [1..m -> uint8_t] /\ m \in Nat
    BY BytesAssumption
<1>2. h \in Nat /\ h + m = n /\ n \in 1..20
    OBVIOUS
<1>3. head \in Seq(uint8_t) /\ Len(head) = h /\ h \in Nat
    BY DEF uint8_t
<1>4. head[3] = 0
    OBVIOUS
<1> HIDE DEF head, m, h
<1>5. data \in Seq(uint8_t) /\ Len(data) = m
    BY ONLY <1>1, Tuple, Zenon
<1>6. Follows(s, head, data, h, m) /\ s \in Seq(uint8_t)
    BY ONLY <1>1, <1>3, <1>5, Followed, Zenon
<1> HIDE DEF s, n
<1>7. Len(s) = n /\ s[3] = 0
    BY <1>2, <1>4, <1>6 DEF Follows, h
<1>8. InfoBytes(b, s, n, SumOf(s))
    BY <1>2, <1>6, <1>7, InfoPadded
<1> HIDE DEF b
<1>9. /\ b \in [1..28 -> uint8_t] /\ b[2] = 0 /\ b[5] = 19
      /\ \A i \in 1..19 : b[6 + i] = s[i]
    BY <1>8 DEF InfoBytes, n
<1>10. b[6 + 3] = 0
    BY <1>7, <1>9, SMTT(30) DEF uint8_t
<1>11. o.bytes = b
    BY DEF b, s, head
<1> QED BY <1>9, <1>10, <1>11 DEF DataOffer

LEMMA TargetOffered ==
    ASSUME NEW card \in Card, NEW o, o.frames = {[kind |-> "target", uid |-> card]},
           o.bytes
             = Padded(Information(<<213, 75, 1, 1, 0, 4, 8, Len(card)>> \o card), 128)
    PROVE  o.bytes \in [1..28 -> uint8_t] /\ TargetOf(o, card)
<1> DEFINE l == Len(card)
           head == <<213, 75, 1, 1, 0, 4, 8, l>>
           s == head \o card
           b == Padded(Information(s), 128)
           h == 8
           n == h + l
<1>1. card \in Seq(uint8_t) /\ l \in {4, 7, 10} /\ Len(card) = l
    BY BytesAssumption
<1> HIDE DEF l
<1>2. head \in Seq(uint8_t) /\ Len(head) = h /\ head[3] = 1 /\ head[8] = l
    <2>1. /\ 213 \in uint8_t /\ 75 \in uint8_t /\ 1 \in uint8_t /\ 0 \in uint8_t
          /\ 4 \in uint8_t /\ 8 \in uint8_t /\ l \in uint8_t
        BY <1>1 DEF uint8_t
    <2> QED BY <2>1
<1>3. l \in Nat /\ l >= 4 /\ h \in Nat /\ n \in 1..20 /\ n >= 12
    BY <1>1
<1> HIDE DEF head
<1>4. Follows(s, head, card, h, l) /\ s \in Seq(uint8_t)
    BY <1>1, <1>2, <1>3, Followed, ZenonT(30)
<1> HIDE DEF s
<1>5. Len(s) = n
    BY <1>4 DEF Follows
<1>6. s[3] = 1 /\ s[8] = l
    BY <1>2, <1>4 DEF Follows
<1>7. \A i \in 1..l : s[8 + i] = card[i]
    BY <1>4 DEF Follows
<1> HIDE DEF n
<1>8. InfoBytes(b, s, n, SumOf(s))
    BY <1>3, <1>4, <1>5, InfoPadded
<1> HIDE DEF b
<1>9. /\ b \in [1..28 -> uint8_t] /\ b[5] = n
      /\ \A i \in 1..n : b[6 + i] = s[i]
    BY <1>8 DEF InfoBytes
<1>10. b[6 + 3] = 1 /\ b[6 + 8] = l /\ n # 0
    <2>1. 3 \in 1..n /\ 8 \in 1..n /\ n # 0
        BY <1>3
    <2> QED BY <1>6, <1>9, <2>1
<1>11. ASSUME NEW i \in 1..l PROVE b[14 + i] = card[i]
    <2> DEFINE k == 8 + i
    <2>1. k \in 1..n /\ 6 + k = 14 + i /\ s[k] = card[i]
        BY <1>3, <1>7 DEF n
    <2> HIDE DEF k
    <2> QED BY <1>9, <2>1
<1>12. o.bytes = b
    BY DEF b, s, head, l
<1>13. o.bytes[5] # 0 /\ o.bytes[9] # 0 /\ o.bytes[14] = l
    BY ONLY <1>9, <1>10, <1>12
<1>14. \A i \in 1..Len(card) : o.bytes[14 + i] = card[i]
    BY ONLY <1>1, <1>11, <1>12
<1> QED BY <1>1, <1>9, <1>12, <1>13, <1>14, Zenon DEF TargetOf

LEMMA OfferKinds ==
    ASSUME NEW offer \in Offers
    PROVE  /\ offer.bytes \in [1..28 -> uint8_t]
           /\ AckOffer(offer) \/ PlainOffer(offer) \/ DataOffer(offer) \/ TargetOffer(offer)
<1>1. CASE \E filler \in {0, 128} :
            offer = Offer({Plain("ack")}, Padded(<<0, 0, 255, 0, 255, 0>>, filler))
    <2>1. PICK filler \in {0, 128} :
            offer = Offer({Plain("ack")}, Padded(<<0, 0, 255, 0, 255, 0>>, filler))
        BY <1>1
    <2>2. /\ offer.frames = {Plain("ack")}
          /\ offer.bytes = Padded(<<0, 0, 255, 0, 255, 0>>, filler)
        BY ONLY <2>1 DEF Offer
    <2> QED BY <2>2, AckOffered
<1>2. CASE offer = Offer({Plain("junk")}, [i \in 1..28 |-> 128])
    <2>1. offer.frames = {Plain("junk")} /\ offer.bytes = [i \in 1..28 |-> 128]
        BY ONLY <1>2 DEF Offer
    <2>2. offer.bytes \in [1..28 -> uint8_t] /\ PlainOf(offer, "junk")
        BY <2>1, JunkOffered
    <2> QED BY <2>2, Zenon DEF PlainOffer
<1>3. CASE offer = Offer({Plain("firmware")},
                         Padded(Information(<<213, 3, 50, 1, 6, 7>>), 128))
    <2>1. /\ offer.frames = {Plain("firmware")}
          /\ offer.bytes = Padded(Information(<<213, 3, 50, 1, 6, 7>>), 128)
        BY ONLY <1>3 DEF Offer
    <2>2. offer.bytes \in [1..28 -> uint8_t] /\ PlainOf(offer, "firmware")
        BY <2>1, FirmwareOffered
    <2> QED BY <2>2, Zenon DEF PlainOffer
<1>4. CASE offer = Offer({Plain("done")}, Padded(Information(<<213, 15>>), 128))
    <2>1. /\ offer.frames = {Plain("done")}
          /\ offer.bytes = Padded(Information(<<213, 15>>), 128)
        BY ONLY <1>4 DEF Offer
    <2>2. offer.bytes \in [1..28 -> uint8_t] /\ PlainOf(offer, "done")
        BY <2>1, DoneOffered
    <2> QED BY <2>2, Zenon DEF PlainOffer
<1>5. CASE offer = Offer({Plain("success")}, Padded(Information(<<213, 65, 0>>), 128))
    <2>1. /\ offer.frames = {Plain("success")}
          /\ offer.bytes = Padded(Information(<<213, 65, 0>>), 128)
        BY ONLY <1>5 DEF Offer
    <2>2. offer.bytes \in [1..28 -> uint8_t] /\ PlainOf(offer, "success")
        BY <2>1, StatusOffered
    <2> QED BY <2>2, Zenon DEF PlainOffer
<1>6. CASE offer = Offer({Plain("failure")}, Padded(Information(<<213, 65, 20>>), 128))
    <2>1. /\ offer.frames = {Plain("failure")}
          /\ offer.bytes = Padded(Information(<<213, 65, 20>>), 128)
        BY ONLY <1>6 DEF Offer
    <2>2. offer.bytes \in [1..28 -> uint8_t] /\ PlainOf(offer, "failure")
        <3> DEFINE status == 20
        <3>1. status \in {0, 20} /\ (status = 0 <=> "failure" = "success")
            OBVIOUS
        <3> QED BY ONLY <2>1, <3>1, StatusOffered
    <2> QED BY <2>2, Zenon DEF PlainOffer
<1>7. CASE \E data \in Data :
            offer = Offer({[kind |-> "success", uid |-> u] : u \in {NoCard, CutUid}},
                          Padded(Information(<<213, 65, 0>> \o data), 128))
    <2> DEFINE F == {[kind |-> "success", uid |-> u] : u \in {NoCard, CutUid}}
    <2>1. PICK data \in Data :
            offer = Offer(F, Padded(Information(<<213, 65, 0>> \o data), 128))
        BY <1>7
    <2>2. offer.frames = F /\ offer.bytes = Padded(Information(<<213, 65, 0>> \o data), 128)
        BY ONLY <2>1 DEF Offer
    <2> QED BY <2>2, DataOffered
<1>8. CASE \E card \in Card :
            offer = Offer({[kind |-> "target", uid |-> card]},
                Padded(Information(<<213, 75, 1, 1, 0, 4, 8, Len(card)>> \o card), 128))
    <2>1. PICK card \in Card :
            offer = Offer({[kind |-> "target", uid |-> card]},
                Padded(Information(<<213, 75, 1, 1, 0, 4, 8, Len(card)>> \o card), 128))
        BY <1>8
    <2>2. /\ offer.frames = {[kind |-> "target", uid |-> card]}
          /\ offer.bytes
                = Padded(Information(<<213, 75, 1, 1, 0, 4, 8, Len(card)>> \o card), 128)
        BY ONLY <2>1 DEF Offer
    <2>3. offer.bytes \in [1..28 -> uint8_t] /\ TargetOf(offer, card)
        BY <2>2, TargetOffered
    <2> QED BY <2>3, Zenon DEF TargetOffer
<1> QED BY <1>1, <1>2, <1>3, <1>4, <1>5, <1>6, <1>7, <1>8, ZenonT(30) DEF Offers

-----------------------------------------------------------------------------
(* What the driver makes of it.                                            *)

\* The first count bytes of b, and zeros.
Arrived(r, b, count) ==
    /\ r \in [1..28 -> uint8_t]
    /\ \A i \in 1..28 : r[i] = IF i <= count THEN b[i] ELSE 0

LEMMA Beginning ==
    \A S : \A s \in Seq(S), m, k \in Nat :
        Len(s) = m /\ k <= m =>
            SubSeq(s, 1, k) \in Seq(S) /\ Len(SubSeq(s, 1, k)) = k
<1>1. ASSUME NEW S, NEW s \in Seq(S), NEW m \in Nat, NEW k \in Nat, Len(s) = m, k <= m
      PROVE  SubSeq(s, 1, k) \in Seq(S) /\ Len(SubSeq(s, 1, k)) = k
    BY <1>1
<1> QED BY <1>1, Zenon

LEMMA ReceivedBytes ==
    ASSUME NEW b \in [1..28 -> uint8_t], NEW count \in 0..28
    PROVE  Arrived(Received(b, count), b, count)
<1> DEFINE n == 28
           t == SubSeq(b, 1, count)
           z == Zeros(28)
<1>1. n \in Nat /\ count \in Nat /\ count <= n
    OBVIOUS
<1>2. b \in Seq(uint8_t) /\ Len(b) = n
    BY Whole
<1> HIDE DEF n
<1>3. t \in Seq(uint8_t) /\ Len(t) = count
    BY ONLY <1>1, <1>2, Beginning, Zenon DEF t
<1>4. \A i \in 1..count : t[i] = b[i]
    BY ONLY <1>1, <1>2, SMT DEF t
<1>5. z \in [1..28 -> uint8_t] /\ \A i \in 1..28 : z[i] = 0
    BY DEF Zeros, uint8_t
<1> HIDE DEF t, z
<1>6. Over(t, z) \in [1..28 -> uint8_t] /\ Covers(Over(t, z), t, z, 28)
    BY <1>3, <1>5, OverWhole
<1>7. ASSUME NEW i \in 1..28 PROVE Over(t, z)[i] = IF i <= count THEN b[i] ELSE 0
    <2>1. Over(t, z)[i] = IF i <= count THEN t[i] ELSE z[i]
        BY <1>3, <1>6 DEF Covers
    <2>2. z[i] = 0 /\ (i <= count => t[i] = b[i])
        BY <1>4, <1>5
    <2> QED BY <2>1, <2>2
<1> QED BY <1>6, <1>7 DEF Arrived, Received, t, z

\* A read of eight or of all the bytes, whole or in part.
LEMMA ReadsBytes ==
    ASSUME NEW length \in {8, 28}, NEW handler, Reads(length, handler)
    PROVE  \E offer \in Offers, count \in 0..length :
            /\ Arrived(recvBuffer', offer.bytes, count)
            /\ event' = [type |-> "read", handler |-> handler, offer |-> offer,
                         count |-> count, length |-> length]
<1>1. PICK offer \in Offers, count \in {c \in Cuts : c < length} \cup {length} :
        /\ recvBuffer' = Received(offer.bytes, count)
        /\ event' = [type |-> "read", handler |-> handler, offer |-> offer,
                     count |-> count, length |-> length]
    BY Zenon DEF Reads
<1>2. count \in 0..length /\ count \in 0..28
    BY BytesAssumption
<1>3. offer.bytes \in [1..28 -> uint8_t]
    BY OfferKinds
<1>4. Arrived(Received(offer.bytes, count), offer.bytes, count)
    BY <1>2, <1>3, ReceivedBytes
<1> QED BY <1>1, <1>2, <1>4, Zenon

\* What pn532ReadCardUid finds in r.
UidRight(r, u, length) ==
    /\ u \in [1..14 -> uint8_t] /\ length \in 0..7
    /\ length # 0 => length = r[14] /\ \A i \in 1..length : u[i] = r[14 + i]
    /\ r[14] \in 4..7 => (length # 0 <=> \E i \in 1..4 : r[14 + i] # 128)

LEMMA UidBytes ==
    ASSUME NEW u \in [1..14 -> uint8_t]
    PROVE  u \in Seq(uint8_t) /\ Len(u) = 14
<1> DEFINE n == 14
<1>1. n \in Nat /\ u \in [1..n -> uint8_t]
    OBVIOUS
<1> HIDE DEF n
<1>2. u \in Seq(uint8_t) /\ Len(u) = n
    BY <1>1, Tuple, Zenon
<1> QED BY <1>2 DEF n

LEMMA CopiedUid ==
    ASSUME NEW r \in [1..28 -> uint8_t], NEW u \in [1..14 -> uint8_t], NEW length \in 0..7
    PROVE  Over(SubSeq(r, 15, 14 + length), u)
            = [i \in 1..14 |-> IF i <= length THEN r[14 + i] ELSE u[i]]
<1> DEFINE s == SubSeq(r, 15, 14 + length)
<1>1. r \in Seq(uint8_t) /\ Len(r) = 28
    BY Whole
<1>2. Len(u) = 14
    BY UidBytes, Zenon
<1>3. Len(s) = length /\ \A i \in 1..length : s[i] = r[14 + i]
    BY <1>1
<1> HIDE DEF s
<1>4. Over(s, u) = [i \in 1..14 |-> IF i <= Len(s) THEN s[i] ELSE u[i]]
    BY <1>2 DEF Over
<1> QED BY <1>3, <1>4 DEF s

LEMMA ClearedUid ==
    ASSUME NEW u \in [1..14 -> uint8_t], NEW length \in uint8_t
    PROVE  Over(Zeros(length), u) \in [1..14 -> uint8_t]
<1> DEFINE z == Zeros(length)
<1>1. Len(u) = 14
    BY UidBytes, Zenon
<1>2. Len(z) = length /\ \A i \in 1..length : z[i] = 0
    BY DEF Zeros, uint8_t
<1> HIDE DEF z
<1>3. Over(z, u) = [i \in 1..14 |-> IF i <= Len(z) THEN z[i] ELSE u[i]]
    BY <1>1 DEF Over
<1>4. ASSUME NEW i \in 1..14 PROVE (IF i <= Len(z) THEN z[i] ELSE u[i]) \in uint8_t
    <2>1. u[i] \in uint8_t /\ 0 \in uint8_t
        BY DEF uint8_t
    <2>2. i <= length => z[i] = 0
        BY <1>2
    <2> QED BY <1>2, <2>1, <2>2
<1> QED BY <1>3, <1>4 DEF z

\* What is noted of a UID: the one that was accepted last, and how far the
\* clearing of a refused one went.
UidNoted(r) ==
    /\ printed' \in Seq(uint8_t)
    /\ IF uidLength' = 0 THEN printed' = printed
       ELSE printed' = SubSeq(uid', 1, uidLength')
    /\ beyond' \in 0..241
    /\ beyond' # beyond => r[14] > 14

LEMMA ClearedFar ==
    ASSUME NEW length \in uint8_t, NEW far \in 0..241, NEW next,
           next = IF length > 14 + far THEN length - 14 ELSE far
    PROVE  next \in 0..241 /\ (next # far => length > 14)
BY DEF uint8_t

LEMMA UidBeginning ==
    ASSUME NEW u \in [1..14 -> uint8_t], NEW length \in 0..7
    PROVE  SubSeq(u, 1, length) \in Seq(uint8_t) /\ Len(SubSeq(u, 1, length)) = length
<1> DEFINE m == 14
<1>1. m \in Nat /\ length \in Nat /\ length <= m
    OBVIOUS
<1>2. u \in Seq(uint8_t) /\ Len(u) = m
    BY UidBytes
<1> HIDE DEF m
<1> QED BY ONLY <1>1, <1>2, Beginning, Zenon

LEMMA UidRead ==
    ASSUME TypeOK, recvBuffer' \in [1..28 -> uint8_t], ReadCardUid
    PROVE  UidRight(recvBuffer', uid', uidLength') /\ UidNoted(recvBuffer')
<1> DEFINE r == recvBuffer'
           length == r[14]
           copied == Over(SubSeq(r, 15, 14 + length), uid)
           old == IF length > 7 THEN uid ELSE copied
<1>1. r \in [1..28 -> uint8_t] /\ uid \in [1..14 -> uint8_t]
    BY DEF TypeOK
<1>2. length \in uint8_t
    BY <1>1
<1>3. /\ IF length <= 7 /\ CheckUID(copied, length)
           THEN uid' = copied /\ uidLength' = length
           ELSE uid' = Over(Zeros(length), old) /\ uidLength' = 0
      /\ IF length <= 7 /\ CheckUID(copied, length)
           THEN printed' = SubSeq(copied, 1, length) /\ beyond' = beyond
           ELSE /\ printed' = printed
                /\ beyond' = IF length > 14 + beyond THEN length - 14 ELSE beyond
    <2>1. CASE length > 7
        <3>1. Refuses(uid, length) /\ ~ (length <= 7)
            BY <1>2, <2>1 DEF ReadCardUid, uint8_t
        <3> QED BY <2>1, <3>1 DEF Refuses, Clears
    <2>2. CASE ~ (length > 7) /\ CheckUID(copied, length)
        <3>1. Accepts(copied, length) /\ length <= 7
            BY <1>2, <2>2 DEF ReadCardUid, uint8_t
        <3> QED BY <2>2, <3>1 DEF Accepts
    <2>3. CASE ~ (length > 7) /\ ~ CheckUID(copied, length)
        <3>1. Refuses(copied, length)
            BY <2>3 DEF ReadCardUid
        <3> QED BY <2>3, <3>1 DEF Refuses, Clears
    <2> QED BY <2>1, <2>2, <2>3
<1> HIDE DEF r
<1>4. ASSUME length \in 0..7
      PROVE  copied = [i \in 1..14 |-> IF i <= length THEN r[14 + i] ELSE uid[i]]
    BY <1>1, <1>4, CopiedUid, ZenonT(30)
<1>5. ASSUME length \in 0..7
      PROVE  copied \in [1..14 -> uint8_t]
    <2>1. \A i \in 1..14 : (IF i <= length THEN r[14 + i] ELSE uid[i]) \in uint8_t
        BY <1>1, <1>5
    <2> QED BY <1>4, <1>5, <2>1
<1> HIDE DEF copied
<1>6. CASE length <= 7 /\ CheckUID(copied, length)
    <2>1. uid' = copied /\ uidLength' = length
        BY <1>3, <1>6
    <2>2. length \in 1..7 /\ \E i \in 1..4 : copied[i] # 128
        BY <1>2, <1>6 DEF CheckUID, uint8_t
    <2>3. copied \in [1..14 -> uint8_t]
        BY <1>5, <2>2
    <2>4. \A i \in 1..length : copied[i] = r[14 + i]
        BY <1>4, <2>2
    <2>5. length \in 4..7 => \E i \in 1..4 : r[14 + i] # 128
        BY <2>2, <2>4
    <2>6. UidRight(recvBuffer', uid', uidLength')
        BY <2>1, <2>2, <2>3, <2>4, <2>5 DEF UidRight, r
    <2>7. length \in 0..7 /\ length # 0
        BY <2>2
    <2>8. SubSeq(copied, 1, length) \in Seq(uint8_t)
        BY <2>3, <2>7, UidBeginning, Zenon
    <2>9. printed' = SubSeq(copied, 1, length) /\ beyond' = beyond
        BY <1>3, <1>6
    <2>10. beyond \in 0..241
        BY DEF TypeOK
    <2>11. UidNoted(recvBuffer')
        BY <2>1, <2>7, <2>8, <2>9, <2>10, Zenon DEF UidNoted
    <2> QED BY <2>6, <2>11
<1>7. CASE ~ (length <= 7 /\ CheckUID(copied, length))
    <2>1. uid' = Over(Zeros(length), old) /\ uidLength' = 0
        BY <1>3, <1>7
    <2>2. old \in [1..14 -> uint8_t]
        BY <1>1, <1>2, <1>5, SMTT(30) DEF uint8_t
    <2>3. uid' \in [1..14 -> uint8_t]
        BY <1>2, <2>1, <2>2, ClearedUid
    <2>4. ASSUME length \in 4..7 PROVE \A i \in 1..4 : r[14 + i] = 128
        <3>1. \A i \in 1..4 : copied[i] = 128
            BY <1>7, <2>4 DEF CheckUID
        <3> QED BY <1>4, <2>4, <3>1
    <2>5. length \in 4..7 => ~ \E i \in 1..4 : r[14 + i] # 128
        BY <2>4
    <2>6. uidLength' \in 0..7 /\ ~ (uidLength' # 0)
        BY <2>1
    <2>7. UidRight(recvBuffer', uid', uidLength')
        BY <2>3, <2>5, <2>6, Zenon DEF UidRight, r
    <2>8. beyond \in 0..241 /\ printed \in Seq(uint8_t)
        BY DEF TypeOK
    <2>9. /\ printed' = printed
          /\ beyond' = IF length > 14 + beyond THEN length - 14 ELSE beyond
        BY <1>3, <1>7
    <2>10. beyond' \in 0..241 /\ (beyond' # beyond => length > 14)
        BY <1>2, <2>8, <2>9, ClearedFar, Zenon
    <2>11. UidNoted(recvBuffer')
        BY <2>6, <2>8, <2>9, <2>10, Zenon DEF UidNoted, r
    <2> QED BY <2>7, <2>11
<1> QED BY <1>6, <1>7

\* Where a frame came from decides what the tests find in what has arrived.
LEMMA NoAckFrame ==
    ASSUME NEW r, NEW b, NEW count \in 0..28, Arrived(r, b, count), b[5] # 0
    PROVE  ~ ReadAckFrame(r)
<1> DEFINE ack == <<0, 0, 255, 0, 255, 0>>
<1>1. ack[4] = 0 /\ ack[5] = 255
    OBVIOUS
<1>2. ReadAckFrame(r) => r[4 + 1] = ack[4] /\ r[5 + 1] = ack[5]
    BY DEF ReadAckFrame
<1> HIDE DEF ack
<1>3. r[5] = (IF 5 <= count THEN b[5] ELSE 0) /\ r[6] = IF 6 <= count THEN b[6] ELSE 0
    BY DEF Arrived
<1> QED BY <1>1, <1>2, <1>3

LEMMA AckFrame ==
    ASSUME NEW r, NEW o, NEW count \in 0..28, Arrived(r, o.bytes, count), AckOffer(o)
    PROVE  ReadAckFrame(r) <=> count >= 6
<1> DEFINE ack == <<0, 0, 255, 0, 255, 0>>
           b == o.bytes
<1>1. /\ ack[1] = 0 /\ ack[2] = 0 /\ ack[3] = 255 /\ ack[4] = 0 /\ ack[5] = 255
      /\ ack[6] = 0
    OBVIOUS
<1>2. /\ b[2] = 0 /\ b[3] = 0 /\ b[4] = 255 /\ b[5] = 0 /\ b[6] = 255 /\ b[7] = 0
    BY DEF AckOffer
<1>3. ReadAckFrame(r) <=> \A i \in 1..6 : r[i + 1] = ack[i]
    BY DEF ReadAckFrame
<1>4. \A i \in 1..28 : r[i] = IF i <= count THEN b[i] ELSE 0
    BY DEF Arrived
<1> HIDE DEF ack, b
<1>5. CASE count >= 6
    <2>1. r[2] = 0 /\ r[3] = 0 /\ r[4] = 255 /\ r[5] = 0 /\ r[6] = 255 /\ r[7] = 0
        BY <1>2, <1>4, <1>5
    <2>2. \A i \in 1..6 : i = 1 \/ i = 2 \/ i = 3 \/ i = 4 \/ i = 5 \/ i = 6
        OBVIOUS
    <2>3. \A i \in 1..6 : r[i + 1] = ack[i]
        BY <1>1, <2>1, <2>2
    <2> QED BY <1>3, <1>5, <2>3
<1>6. CASE ~ (count >= 6)
    <2>1. r[5 + 1] = 0
        BY <1>4, <1>6
    <2> QED BY <1>1, <1>3, <1>6, <2>1
<1> QED BY <1>5, <1>6

LEMMA StatusAndLength ==
    ASSUME NEW r, NEW b, NEW count \in 0..28, Arrived(r, b, count)
    PROVE  /\ r[9] = IF count < 9 THEN 0 ELSE b[9]
           /\ r[14] = IF count < 14 THEN 0 ELSE b[14]
BY DEF Arrived

\* Agrees, for a buffer r, the length of the read, and a UID.
Fits(f, r, length, handler, u, n) ==
    /\ IsAckFrame(f) = ReadAckFrame(r)
    /\ length = 28 => (r[9] = 0) \in StatusIsZero(f)
    /\ handler = "uid" =>
        /\ UidAccepted(f.uid) = (n > 0)
        /\ UidAccepted(f.uid) /\ f.uid # CutUid => SubSeq(u, 1, n) = f.uid

\* The head of a frame fits if no UID is found,
LEMMA HeadFits ==
    ASSUME NEW kind, NEW r, NEW length, NEW handler, NEW u, NEW n,
           ReadAckFrame(r) <=> kind = "ack",
           length = 28 => (r[9] = 0) \in StatusIsZero(Plain(kind)),
           handler = "uid" => n = 0
    PROVE  Fits(Plain(kind), r, length, handler, u, n)
<1>1. Plain(kind).kind = kind /\ Plain(kind).uid = NoCard
    BY DEF Plain
<1>2. IsAckFrame(Plain(kind)) = ReadAckFrame(r)
    BY <1>1 DEF IsAckFrame, ReadAckFrame
<1>3. ~ UidAccepted(Plain(kind).uid)
    BY <1>1 DEF UidAccepted
<1>4. handler = "uid" => UidAccepted(Plain(kind).uid) = (n > 0)
    BY <1>3 DEF UidAccepted
<1> QED BY <1>2, <1>3, <1>4, Zenon DEF Fits

\* a flushed buffer before the status has come,
LEMMA ZeroFits ==
    ASSUME NEW r, NEW length, NEW handler, NEW u, NEW n,
           ~ ReadAckFrame(r), r[9] = 0, handler = "uid" => n = 0
    PROVE  Fits(Plain("zero"), r, length, handler, u, n)
<1>1. (r[9] = 0) \in StatusIsZero(Plain("zero"))
    BY DEF StatusIsZero, Plain
<1> QED BY <1>1, HeadFits

\* and bytes that pass for a UID if one is found.
LEMMA CutFits ==
    ASSUME NEW kind, kind # "ack", NEW r, NEW length, NEW handler, NEW u,
           NEW n \in Nat \ {0},
           ~ ReadAckFrame(r),
           (r[9] = 0) \in StatusIsZero([kind |-> kind, uid |-> CutUid])
    PROVE  Fits([kind |-> kind, uid |-> CutUid], r, length, handler, u, n)
<1> DEFINE f == [kind |-> kind, uid |-> CutUid]
<1>1. f.kind = kind /\ f.uid = CutUid
    OBVIOUS
<1>2. (r[9] = 0) \in StatusIsZero(f)
    OBVIOUS
<1> HIDE DEF f
<1>3. IsAckFrame(f) = ReadAckFrame(r)
    BY <1>1 DEF IsAckFrame, ReadAckFrame
<1>4. UidAccepted(f.uid) /\ n > 0
    BY <1>1, CardAssumption DEF UidAccepted
<1>5. UidAccepted(f.uid) = (n > 0)
    BY <1>4 DEF UidAccepted
<1>6. Fits(f, r, length, handler, u, n)
    BY <1>1, <1>2, <1>3, <1>5, Zenon DEF Fits
<1> QED BY <1>6 DEF f

\* What Pn532Frame has a read leave of a frame.
LEMMA PartsOfFrame ==
    ASSUME NEW frame
    PROVE  /\ ReadInto(Plain("zero"), frame, TRUE) = frame
           /\ ReadInto(Plain("zero"), frame, FALSE) = Plain(frame.kind)
           /\ \A full \in BOOLEAN :
                /\ Plain("zero") \in PartsInto(Plain("zero"), frame, full)
                /\ Plain(frame.kind) \in PartsInto(Plain("zero"), frame, full)
           /\ frame \in PartsInto(Plain("zero"), frame, TRUE)
           /\ frame.uid \in Card =>
                [frame EXCEPT !.uid = CutUid] \in PartsInto(Plain("zero"), frame, TRUE)
<1>1. ReadInto(Plain("zero"), frame, TRUE) = frame
    BY DEF ReadInto
<1>2. ReadInto(Plain("zero"), frame, FALSE) = Plain(frame.kind)
    BY DEF ReadInto, Plain
<1> QED BY <1>1, <1>2, Zenon DEF PartsInto

\* A frame of Pn532Frame that fits what has arrived of an offer.
Stands(o, r, count, length, handler, u, n) ==
    \E frame \in o.frames :
        \E f \in IF count = length
                    THEN {ReadInto(Plain("zero"), frame, length = 28)}
                    ELSE PartsInto(Plain("zero"), frame, length = 28) :
            Fits(f, r, length, handler, u, n)

\* A read of the buffer r, of which count bytes have come.
IsRead(o, r, count, length, handler, u, n) ==
    /\ length \in {8, 28} /\ count \in 0..length
    /\ Arrived(r, o.bytes, count)
    /\ handler = "uid" => length = 28 /\ UidRight(r, u, n)

LEMMA PlainStands ==
    ASSUME NEW o, NEW r, NEW count, NEW length, NEW handler, NEW u, NEW n,
           IsRead(o, r, count, length, handler, u, n), NEW kind, o.frames = {Plain(kind)},
           kind = "ack" => AckOffer(o),
           kind # "ack" =>
             kind \in {"junk", "firmware", "done", "success", "failure"} /\ PlainOf(o, kind)
    PROVE  Stands(o, r, count, length, handler, u, n)
<1> DEFINE frame == Plain(kind)
<1>1. /\ length \in {8, 28} /\ count \in 0..length /\ count \in 0..28
      /\ Arrived(r, o.bytes, count)
    BY DEF IsRead
<1>2. /\ r[9] = IF count < 9 THEN 0 ELSE o.bytes[9]
      /\ r[14] = IF count < 14 THEN 0 ELSE o.bytes[14]
    BY <1>1, StatusAndLength
<1>3. ASSUME handler = "uid" PROVE n = 0
    <2>1. o.bytes[14] \in {0, 128}
        BY DEF AckOffer, PlainOf
    <2>2. r[14] \in {0, 128}
        BY <1>2, <2>1
    <2>3. n \in 0..7 /\ (n # 0 => n = r[14])
        BY <1>3 DEF IsRead, UidRight
    <2> QED BY <2>2, <2>3
<1>4. ReadAckFrame(r) <=> kind = "ack" /\ count >= 6
    <2>1. CASE kind = "ack"
        BY <1>1, <2>1, AckFrame
    <2>2. CASE kind # "ack"
        BY <1>1, <2>2, NoAckFrame DEF PlainOf
    <2> QED BY <2>1, <2>2
<1>5. frame.kind = kind /\ frame.uid = NoCard
    BY DEF Plain
<1>6. CASE count = length \/ (kind = "ack" /\ count >= 6) \/ (kind # "ack" /\ count >= 9)
    <2>1. ReadAckFrame(r) <=> kind = "ack"
        BY <1>1, <1>4, <1>6
    <2>2. length = 28 => (r[9] = 0) \in StatusIsZero(Plain(kind))
        <3>1. CASE kind = "ack"
            BY <1>5, <3>1 DEF StatusIsZero
        <3>2. CASE kind # "ack" /\ length = 28
            <4>1. r[9] = o.bytes[9]
                BY <1>1, <1>2, <1>6, <3>2
            <4>2. (r[9] = 0) <=> kind = "success"
                BY <3>2, <4>1 DEF PlainOf
            <4>3. kind \in {"junk", "firmware", "done", "success", "failure"}
                BY <3>2
            <4>4. kind = "success" => StatusIsZero(Plain(kind)) = {TRUE}
                BY <1>5 DEF StatusIsZero
            <4>5. kind # "success" => StatusIsZero(Plain(kind)) = {FALSE}
                BY <1>5, <4>3, <3>2 DEF StatusIsZero
            <4> QED BY <4>2, <4>4, <4>5, Zenon
        <3> QED BY <3>1, <3>2
    <2>3. Fits(Plain(kind), r, length, handler, u, n)
        BY <1>3, <2>1, <2>2, HeadFits
    <2>4. ReadInto(Plain("zero"), frame, length = 28) = Plain(kind)
        <3>1. ReadInto(Plain("zero"), frame, TRUE) = frame
            BY PartsOfFrame, Zenon
        <3>2. ReadInto(Plain("zero"), frame, FALSE) = Plain(frame.kind)
            BY PartsOfFrame, Zenon
        <3> QED BY <1>5, <3>1, <3>2
    <2>5. Plain(frame.kind) \in PartsInto(Plain("zero"), frame, length = 28)
        BY PartsOfFrame
    <2> QED BY <1>5, <2>3, <2>4, <2>5, Zenon DEF Stands
<1>7. CASE ~ (\/ count = length
              \/ kind = "ack" /\ count >= 6
              \/ kind # "ack" /\ count >= 9)
    <2>1. ~ ReadAckFrame(r) /\ count < 9
        BY <1>1, <1>4, <1>7
    <2>2. r[9] = 0
        BY <1>2, <2>1
    <2>3. Fits(Plain("zero"), r, length, handler, u, n)
        BY <1>3, <2>1, <2>2, ZeroFits
    <2>4. Plain("zero") \in PartsInto(Plain("zero"), frame, length = 28)
        BY PartsOfFrame
    <2> QED BY <1>7, <2>3, <2>4, Zenon DEF Stands
<1> QED BY <1>6, <1>7

LEMMA DataStands ==
    ASSUME NEW o, NEW r, NEW count, NEW length, NEW handler, NEW u, NEW n,
           IsRead(o, r, count, length, handler, u, n), DataOffer(o)
    PROVE  Stands(o, r, count, length, handler, u, n)
<1> DEFINE frame(x) == [kind |-> "success", uid |-> x]
<1>1. /\ length \in {8, 28} /\ count \in 0..length /\ count \in 0..28
      /\ Arrived(r, o.bytes, count)
    BY DEF IsRead
<1>2. /\ r[9] = 0
      /\ r[14] = IF count < 14 THEN 0 ELSE o.bytes[14]
    BY <1>1, StatusAndLength DEF DataOffer
<1>3. ~ ReadAckFrame(r)
    BY <1>1, NoAckFrame DEF DataOffer
<1>4. handler = "uid" => n \in 0..7 /\ (n # 0 => n = r[14])
    BY DEF IsRead, UidRight
<1>5. frame(NoCard) \in o.frames /\ frame(CutUid) \in o.frames
    BY Zenon DEF DataOffer
<1>6. frame(NoCard) = Plain("success")
    BY DEF Plain
<1>7. \A x : (r[9] = 0) \in StatusIsZero(frame(x))
    BY <1>2 DEF StatusIsZero
<1>8. CASE length = 8
    <2>1. Fits(Plain("success"), r, length, handler, u, n)
        BY <1>3, <1>8, HeadFits DEF IsRead
    <2>2. ReadInto(Plain("zero"), frame(NoCard), FALSE) = Plain("success")
        <3>1. frame(NoCard).kind = "success"
            OBVIOUS
        <3> HIDE DEF frame
        <3>2. ReadInto(Plain("zero"), frame(NoCard), FALSE) = Plain(frame(NoCard).kind)
            BY PartsOfFrame, Zenon
        <3> QED BY <3>1, <3>2
    <2>3. Plain("success") \in PartsInto(Plain("zero"), frame(NoCard), FALSE)
        BY PartsOfFrame
    <2>4. (length = 28) = FALSE
        BY <1>8
    <2> QED BY <1>5, <2>1, <2>2, <2>3, <2>4, Zenon DEF Stands
<1>9. CASE length = 28
    <2>1. \E x \in {NoCard, CutUid} : Fits(frame(x), r, length, handler, u, n)
        <3>1. CASE handler = "uid" => n = 0
            BY <1>3, <1>6, <1>7, <3>1, HeadFits, Zenon
        <3>2. CASE handler = "uid" /\ n # 0
            <4>1. n \in Nat \ {0}
                BY <1>4, <3>2
            <4> QED BY <1>3, <1>7, <4>1, CutFits
        <3> QED BY <3>1, <3>2
    <2>2. \A x : ReadInto(Plain("zero"), frame(x), TRUE) = frame(x)
        BY PartsOfFrame, Zenon
    <2>3. \A x : frame(x) \in PartsInto(Plain("zero"), frame(x), TRUE)
        BY PartsOfFrame, Zenon
    <2>4. (length = 28) = TRUE
        BY <1>9
    <2> HIDE DEF frame
    <2> QED BY <1>5, <2>1, <2>2, <2>3, <2>4, Zenon DEF Stands
<1> QED BY <1>1, <1>8, <1>9

LEMMA TargetStands ==
    ASSUME NEW o, NEW r, NEW count, NEW length, NEW handler, NEW u, NEW n,
           IsRead(o, r, count, length, handler, u, n),
           NEW card \in Card, TargetOf(o, card)
    PROVE  Stands(o, r, count, length, handler, u, n)
<1> DEFINE frame == [kind |-> "target", uid |-> card]
           cut == [kind |-> "target", uid |-> CutUid]
<1>1. /\ length \in {8, 28} /\ count \in 0..length /\ count \in 0..28
      /\ Arrived(r, o.bytes, count)
    BY DEF IsRead
<1>2. /\ r[9] = IF count < 9 THEN 0 ELSE o.bytes[9]
      /\ r[14] = IF count < 14 THEN 0 ELSE o.bytes[14]
    BY <1>1, StatusAndLength
<1>3. ~ ReadAckFrame(r)
    BY <1>1, NoAckFrame DEF TargetOf
<1>4. handler = "uid" => n \in 0..7 /\ (n # 0 => n = r[14])
    BY DEF IsRead, UidRight
<1>5. o.frames = {frame}
    BY Zenon DEF TargetOf
<1>6. frame.kind = "target" /\ frame.uid = card /\ [frame EXCEPT !.uid = CutUid] = cut
    OBVIOUS
<1> HIDE DEF frame
<1>7. \A f : f.kind = "target" => StatusIsZero(f) = {FALSE}
    BY DEF StatusIsZero
<1>8. CASE count < 9 /\ count # length
    <2>1. r[9] = 0 /\ (handler = "uid" => n = 0)
        BY <1>1, <1>2, <1>4, <1>8
    <2>2. Fits(Plain("zero"), r, length, handler, u, n)
        BY <1>3, <2>1, ZeroFits
    <2>3. Plain("zero") \in PartsInto(Plain("zero"), frame, length = 28)
        BY PartsOfFrame
    <2> QED BY <1>5, <1>8, <2>2, <2>3, Zenon DEF Stands
<1>9. CASE length = 8 /\ count = length
    <2>1. Fits(Plain("target"), r, length, handler, u, n)
        BY <1>3, <1>9, HeadFits DEF IsRead
    <2>2. ReadInto(Plain("zero"), frame, FALSE) = Plain("target")
        BY <1>6, PartsOfFrame
    <2>3. (length = 28) = FALSE
        BY <1>9
    <2> QED BY <1>5, <1>9, <2>1, <2>2, <2>3, Zenon DEF Stands
<1>10. CASE length = 28 /\ count >= 9 /\ count # length
    <2>1. (r[9] = 0) = FALSE
        BY <1>1, <1>2, <1>10 DEF TargetOf
    <2>2. \E f \in {Plain("target"), cut} : Fits(f, r, length, handler, u, n)
        <3>1. CASE handler = "uid" => n = 0
            <4>1. Plain("target").kind = "target"
                BY DEF Plain
            <4>2. (r[9] = 0) \in StatusIsZero(Plain("target"))
                BY <1>7, <2>1, <4>1, Zenon
            <4>3. Fits(Plain("target"), r, length, handler, u, n)
                BY <1>3, <3>1, <4>2, HeadFits
            <4> QED BY <4>3
        <3>2. CASE handler = "uid" /\ n # 0
            <4>1. n \in Nat \ {0}
                BY <1>4, <3>2
            <4>2. (r[9] = 0) \in StatusIsZero(cut)
                <5>1. cut.kind = "target"
                    OBVIOUS
                <5> HIDE DEF cut
                <5> QED BY <1>7, <2>1, <5>1, Zenon
            <4>3. Fits(cut, r, length, handler, u, n)
                BY <1>3, <4>1, <4>2, CutFits
            <4> QED BY <4>3
        <3> QED BY <3>1, <3>2
    <2>3. \A f \in {Plain("target"), cut} : f \in PartsInto(Plain("zero"), frame, TRUE)
        BY <1>6, PartsOfFrame
    <2>4. (length = 28) = TRUE
        BY <1>10
    <2> QED BY <1>5, <1>10, <2>2, <2>3, <2>4, Zenon DEF Stands
<1>11. CASE length = 28 /\ count = length
    <2>1. (r[9] = 0) = FALSE
        BY <1>2, <1>11 DEF TargetOf
    <2>2. Fits(frame, r, length, handler, u, n)
        <3>1. IsAckFrame(frame) = ReadAckFrame(r)
            BY <1>3, <1>6 DEF IsAckFrame, ReadAckFrame
        <3>2. (r[9] = 0) \in StatusIsZero(frame)
            BY <1>6, <1>7, <2>1, Zenon
        <3>3. card \in Seq(uint8_t) /\ Len(card) \in {4, 7, 10}
            BY BytesAssumption
        <3>4. r[14] = Len(card) /\ \A i \in 1..Len(card) : r[14 + i] = card[i]
            <4>1. \A i \in 1..28 : r[i] = o.bytes[i]
                BY <1>1, <1>11 DEF Arrived
            <4>2. \A i \in 1..Len(card) : 14 + i \in 1..28
                <5> DEFINE l == Len(card)
                <5>1. l \in {4, 7, 10}
                    BY <3>3
                <5> HIDE DEF l
                <5>2. \A i \in 1..l : 14 + i \in 1..28
                    BY ONLY <5>1
                <5> QED BY <5>2 DEF l
            <4>3. /\ o.bytes[14] = Len(card)
                  /\ \A i \in 1..Len(card) : o.bytes[14 + i] = card[i]
                BY DEF TargetOf
            <4>4. 14 \in 1..28
                OBVIOUS
            <4> QED BY ONLY <4>1, <4>2, <4>3, <4>4, Zenon
        <3>5. ASSUME handler = "uid" PROVE UidRight(r, u, n)
            BY <3>5 DEF IsRead
        <3>6. ASSUME handler = "uid" PROVE card \notin BadCard <=> n > 0
            <4>1. card \in BadCard <=> Len(card) = 10 \/ \A i \in 1..4 : card[i] = 128
                BY BytesAssumption, Zenon
            <4>2. CASE Len(card) = 10
                BY <1>4, <3>4, <3>6, <4>1, <4>2
            <4>3. CASE Len(card) # 10
                <5>1. r[14] \in 4..7
                    BY <3>3, <3>4, <4>3
                <5>2. n # 0 <=> \E i \in 1..4 : r[14 + i] # 128
                    BY <3>5, <3>6, <5>1 DEF UidRight
                <5>3. \A i \in 1..4 : r[14 + i] = card[i]
                    BY <3>3, <3>4
                <5> QED BY <1>4, <3>6, <4>1, <4>3, <5>2, <5>3
            <4> QED BY <4>2, <4>3
        <3>7. ASSUME handler = "uid" PROVE UidAccepted(frame.uid) = (n > 0)
            BY <1>6, <3>6, <3>7, CardAssumption DEF UidAccepted
        <3>8. ASSUME handler = "uid", n > 0 PROVE SubSeq(u, 1, n) = card
            <4> DEFINE m == 14
            <4>1. n = Len(card) /\ n \in 1..7 /\ u \in [1..m -> uint8_t] /\ m \in Nat
                BY <1>4, <3>5, <3>4, <3>8 DEF UidRight
            <4>2. \A i \in 1..n : card[i] = u[1 + i - 1]
                BY <1>4, <3>5, <3>4, <3>8 DEF UidRight
            <4>3. n \in 1..7
                BY <4>1
            <4>4. 1 + n - 1 <= m /\ n \in Nat /\ 1 \in Nat \ {0}
                BY ONLY <4>3 DEF m
            <4>5. 1 + n - 1 = n
                BY ONLY <4>3
            <4> HIDE DEF m
            <4>6. u \in Seq(uint8_t) /\ Len(u) = m
                BY <4>1, Tuple, Zenon
            <4>7. SubSeq(u, 1, 1 + n - 1) = card
                BY <3>3, <4>1, <4>2, <4>4, <4>6, Slice
            <4> QED BY <4>5, <4>7
        <3> QED BY <1>6, <3>1, <3>2, <3>7, <3>8, Zenon DEF Fits
    <2>3. ReadInto(Plain("zero"), frame, TRUE) = frame
        BY PartsOfFrame, Zenon
    <2>4. (length = 28) = TRUE
        BY <1>11
    <2> QED BY <1>5, <1>11, <2>2, <2>3, <2>4, Zenon DEF Stands
<1> QED BY <1>1, <1>8, <1>9, <1>10, <1>11

-----------------------------------------------------------------------------
(* The steps.                                                              *)

LEMMA SentCommand ==
    ASSUME NEW n \in 1..20, NEW cmd \in Seq(uint8_t), Len(cmd) = n, NEW room \in Nat,
           Sends(cmd, room),
           n <= room \/ (cmd[1] = 64 /\ cmd[3] = 97 /\ uidLength = 7)
    PROVE  event'.type = "write" /\ SentAsMeant' /\ CommandFits'
<1>1. /\ event'.type = "write" /\ event'.cmd = cmd /\ event'.room = room
      /\ IsFrameOf(event'.bytes, cmd) /\ Len(event'.bytes) <= 28
    BY SendsFrame
<1>2. uidLength' = uidLength
    BY DEF Sends, Writes, uidVars
<1>3. SentAsMeant'
    BY <1>1, Zenon DEF SentAsMeant, IsFrameOf
<1>4. CommandFits'
    <2>1. Len(event'.cmd) > event'.room =>
            event'.cmd[1] = 64 /\ event'.cmd[3] = 97 /\ uidLength' = 7
        BY <1>1, <1>2
    <2> QED BY <2>1, Zenon DEF CommandFits
<1> QED BY <1>1, <1>3, <1>4

LEMMA SentRfConfiguration ==
    ASSUME SendRfConfiguration
    PROVE  event'.type = "write" /\ SentAsMeant' /\ CommandFits'
<1> DEFINE cmd == <<50, 5, 255, 1, 255>>
           b == <<0, 0, 255, 6, 250, 212, 50, 5, 255, 1, 255, 246, 0>>
<1>1. event'.type = "write" /\ event'.cmd = cmd /\ event'.bytes = b /\ event'.room = 28
    BY DEF SendRfConfiguration, Writes
<1>2. Len(cmd) = 5 /\ Len(b) = 13
    OBVIOUS
<1>3. IsFrameOf(b, cmd)
    BY RfConfigurationFrame
<1> HIDE DEF cmd, b
<1>4. IsFrameOf(event'.bytes, event'.cmd) /\ Len(event'.bytes) <= 28
    BY <1>1, <1>2, <1>3
<1>5. ~ (Len(event'.cmd) > event'.room)
    BY <1>1, <1>2
<1> QED BY <1>1, <1>4, <1>5, Zenon DEF SentAsMeant, CommandFits, IsFrameOf

LEMMA SentAuthenticate ==
    ASSUME TypeOK, SendAuthenticate(0)
    PROVE  event'.type = "write" /\ SentAsMeant' /\ CommandFits'
<1> DEFINE head == <<64, 1, 97, 0 + 3>>
           tail == SubSeq(uid, 1, uidLength)
           cmd == head \o keyUniversal \o tail
           n == 10 + uidLength
           room == 16
<1>1. uidLength \in 0..7 /\ uidLength \in Nat /\ uidLength <= 14
    BY DEF TypeOK
<1>2. head \in Seq(uint8_t) /\ Len(head) = 4 /\ head[1] = 64 /\ head[3] = 97
    BY DEF uint8_t
<1>3. keyUniversal \in Seq(uint8_t) /\ Len(keyUniversal) = 6
    <2> DEFINE m == 6
    <2>1. m \in Nat /\ keyUniversal \in [1..m -> uint8_t]
        BY DEF keyUniversal, uint8_t
    <2> HIDE DEF m
    <2>2. keyUniversal \in Seq(uint8_t) /\ Len(keyUniversal) = m
        BY <2>1, Tuple, Zenon
    <2> QED BY <2>2 DEF m
<1>4. tail \in Seq(uint8_t) /\ Len(tail) = uidLength
    <2> DEFINE m == 14
    <2>1. m \in Nat /\ uid \in [1..m -> uint8_t]
        BY DEF TypeOK
    <2>2. m \in Nat /\ uidLength \in Nat /\ uidLength <= m
        BY <1>1
    <2> HIDE DEF m
    <2>3. uid \in Seq(uint8_t) /\ Len(uid) = m
        BY <2>1, Tuple, Zenon
    <2>4. /\ SubSeq(uid, 1, uidLength) \in Seq(uint8_t)
          /\ Len(SubSeq(uid, 1, uidLength)) = uidLength
        BY ONLY <2>2, <2>3, Beginning, Zenon
    <2> QED BY <2>4
<1> HIDE DEF head, tail
<1>5. cmd \in Seq(uint8_t) /\ Joins(cmd, head, keyUniversal, tail)
    BY ONLY <1>2, <1>3, <1>4, Joined, Zenon DEF cmd
<1>6. Sends(cmd, room)
    BY DEF SendAuthenticate, head, tail
<1> HIDE DEF cmd
<1>7. Len(cmd) = n /\ cmd[1] = 64 /\ cmd[3] = 97
    BY <1>2, <1>3, <1>4, <1>5 DEF Joins
<1>8. n \in 1..20 /\ room \in Nat /\ (n <= room \/ uidLength = 7)
    BY <1>1
<1> HIDE DEF n, room
<1> QED BY <1>5, <1>6, <1>7, <1>8, SentCommand, ZenonT(30) DEF uint8_t

LEMMA SentWriteBlock ==
    ASSUME NEW data \in Data, SendWriteBlock(data)
    PROVE  event'.type = "write" /\ SentAsMeant' /\ CommandFits'
<1> DEFINE head == <<64, 1, 160, 1>>
           cmd == head \o data
           h == 4
           m == 16
           n == 20
<1>1. data \in [1..m -> uint8_t] /\ m \in Nat
    BY BytesAssumption
<1>2. head \in Seq(uint8_t) /\ Len(head) = h /\ h \in Nat
    BY DEF uint8_t
<1>3. h + m = n /\ n \in 1..20 /\ n \in Nat /\ n <= n
    OBVIOUS
<1>4. Sends(cmd, n)
    BY DEF SendWriteBlock
<1> HIDE DEF head, h, m, n
<1>5. data \in Seq(uint8_t) /\ Len(data) = m
    BY ONLY <1>1, Tuple, Zenon
<1>6. cmd \in Seq(uint8_t) /\ Follows(cmd, head, data, h, m)
    BY ONLY <1>1, <1>2, <1>5, Followed, Zenon DEF cmd
<1> HIDE DEF cmd
<1>7. Len(cmd) = n
    BY <1>3, <1>6 DEF Follows
<1> QED BY <1>3, <1>4, <1>6, <1>7, SentCommand

LEMMA SentShort ==
    /\ SendFirmwareVersion => event'.type = "write" /\ SentAsMeant' /\ CommandFits'
    /\ SendSamConfiguration => event'.type = "write" /\ SentAsMeant' /\ CommandFits'
    /\ SendListPassiveTarget => event'.type = "write" /\ SentAsMeant' /\ CommandFits'
    /\ \A block \in {1, 3} :
         SendReadBlock(block) => event'.type = "write" /\ SentAsMeant' /\ CommandFits'
    /\ \A color \in {"NONE", "ORANGE"} :
         SendWriteGpio(color) => event'.type = "write" /\ SentAsMeant' /\ CommandFits'
<1>1. ASSUME SendFirmwareVersion
      PROVE  event'.type = "write" /\ SentAsMeant' /\ CommandFits'
    <2> DEFINE cmd == <<2>>
    <2>1. cmd \in Seq(uint8_t) /\ Len(cmd) = 1
        BY DEF uint8_t
    <2>2. Sends(cmd, 3)
        BY <1>1 DEF SendFirmwareVersion
    <2> HIDE DEF cmd
    <2> QED BY <2>1, <2>2, SentCommand
<1>2. ASSUME SendSamConfiguration
      PROVE  event'.type = "write" /\ SentAsMeant' /\ CommandFits'
    <2> DEFINE cmd == <<20, 1, 20, 1>>
    <2>1. cmd \in Seq(uint8_t) /\ Len(cmd) = 4
        BY DEF uint8_t
    <2>2. Sends(cmd, 4)
        BY <1>2 DEF SendSamConfiguration
    <2> HIDE DEF cmd
    <2> QED BY <2>1, <2>2, SentCommand
<1>3. ASSUME SendListPassiveTarget
      PROVE  event'.type = "write" /\ SentAsMeant' /\ CommandFits'
    <2> DEFINE cmd == <<74, 1, 0>>
    <2>1. cmd \in Seq(uint8_t) /\ Len(cmd) = 3
        BY DEF uint8_t
    <2>2. Sends(cmd, 3)
        BY <1>3 DEF SendListPassiveTarget
    <2> HIDE DEF cmd
    <2> QED BY <2>1, <2>2, SentCommand
<1>4. ASSUME NEW block \in {1, 3}, SendReadBlock(block)
      PROVE  event'.type = "write" /\ SentAsMeant' /\ CommandFits'
    <2> DEFINE cmd == <<64, 1, 48, block>>
    <2>1. cmd \in Seq(uint8_t) /\ Len(cmd) = 4
        BY DEF uint8_t
    <2>2. Sends(cmd, 4)
        BY <1>4 DEF SendReadBlock
    <2> HIDE DEF cmd
    <2> QED BY <2>1, <2>2, SentCommand
<1>5. ASSUME NEW color \in {"NONE", "ORANGE"}, SendWriteGpio(color)
      PROVE  event'.type = "write" /\ SentAsMeant' /\ CommandFits'
    <2> DEFINE pins == PinsOf(color)
               cmd == <<14, pins, 0>>
    <2>1. pins \in uint8_t
        BY DEF PinsOf, uint8_t
    <2>2. Sends(cmd, 3)
        BY <1>5 DEF SendWriteGpio
    <2> HIDE DEF pins
    <2>3. cmd \in Seq(uint8_t) /\ Len(cmd) = 3
        BY <2>1 DEF uint8_t
    <2> HIDE DEF cmd
    <2> QED BY <2>2, <2>3, SentCommand
<1> QED BY <1>1, <1>2, <1>3, <1>4, <1>5, Zenon

\* The driver writes and its buffers are left alone,
LEMMA SendStep ==
    ASSUME TypeOK, Send
    PROVE  /\ event'.type = "write" /\ SentAsMeant' /\ CommandFits'
           /\ UNCHANGED <<uidVars, recvBuffer>>
<1>1. UNCHANGED <<uidVars, recvBuffer>>
    BY Zenon DEF Send, SendRfConfiguration, SendFirmwareVersion, SendSamConfiguration,
                 SendListPassiveTarget, SendAuthenticate, SendReadBlock, SendWriteBlock,
                 SendWriteGpio, Sends, Writes
<1>2. event'.type = "write" /\ SentAsMeant' /\ CommandFits'
    BY SentRfConfiguration, SentShort, SentAuthenticate, SentWriteBlock, Zenon DEF Send
<1> QED BY <1>1, <1>2

\* or it reads.
LEMMA ReadStep ==
    ASSUME TypeOK, Read
    PROVE  \E offer \in Offers, length \in {8, 28}, count \in 0..28,
              handler \in {"ack", "uid", "authenticate", "data"} :
            /\ event' = [type |-> "read", handler |-> handler, offer |-> offer,
                         count |-> count, length |-> length]
            /\ count \in 0..length
            /\ Arrived(recvBuffer', offer.bytes, count)
            /\ handler = "uid" => /\ length = 28 /\ UidRight(recvBuffer', uid', uidLength')
                                  /\ UidNoted(recvBuffer')
            /\ handler # "uid" => UNCHANGED uidVars
<1> DEFINE Shape(offer, length, count, handler) ==
            /\ event' = [type |-> "read", handler |-> handler, offer |-> offer,
                         count |-> count, length |-> length]
            /\ count \in 0..length
            /\ Arrived(recvBuffer', offer.bytes, count)
            /\ handler = "uid" => /\ length = 28 /\ UidRight(recvBuffer', uid', uidLength')
                                  /\ UidNoted(recvBuffer')
            /\ handler # "uid" => UNCHANGED uidVars
<1>1. ASSUME NEW length \in {8, 28}, NEW handler, Reads(length, handler)
      PROVE  \E offer \in Offers, count \in 0..28 :
                /\ event' = [type |-> "read", handler |-> handler, offer |-> offer,
                             count |-> count, length |-> length]
                /\ count \in 0..length
                /\ Arrived(recvBuffer', offer.bytes, count)
    <2>1. \A count \in 0..length : count \in 0..28
        OBVIOUS
    <2> QED BY <1>1, <2>1, ReadsBytes, Zenon
<1>2. CASE MifareReadAckFrame
    <2>1. Reads(8, "ack") /\ UNCHANGED uidVars
        BY <1>2 DEF MifareReadAckFrame
    <2>2. PICK offer \in Offers, count \in 0..28 :
            /\ event' = [type |-> "read", handler |-> "ack", offer |-> offer,
                         count |-> count, length |-> 8]
            /\ count \in 0..8
            /\ Arrived(recvBuffer', offer.bytes, count)
        BY <1>1, <2>1
    <2>3. Shape(offer, 8, count, "ack")
        BY <2>1, <2>2
    <2> QED BY <2>3
<1>3. CASE ReadCardUid
    <2>1. Reads(28, "uid")
        BY <1>3 DEF ReadCardUid
    <2>2. PICK offer \in Offers, count \in 0..28 :
            /\ event' = [type |-> "read", handler |-> "uid", offer |-> offer,
                         count |-> count, length |-> 28]
            /\ Arrived(recvBuffer', offer.bytes, count)
        BY <1>1, <2>1
    <2>3. UidRight(recvBuffer', uid', uidLength') /\ UidNoted(recvBuffer')
        BY <1>3, <2>2, UidRead DEF Arrived
    <2>4. Shape(offer, 28, count, "uid")
        BY <2>2, <2>3
    <2> QED BY <2>4
<1>4. CASE ReadAuthenticateResponse
    <2>1. Reads(28, "authenticate") /\ UNCHANGED uidVars
        BY <1>4 DEF ReadAuthenticateResponse
    <2>2. PICK offer \in Offers, count \in 0..28 :
            /\ event' = [type |-> "read", handler |-> "authenticate", offer |-> offer,
                         count |-> count, length |-> 28]
            /\ Arrived(recvBuffer', offer.bytes, count)
        BY <1>1, <2>1
    <2>3. Shape(offer, 28, count, "authenticate")
        BY <2>1, <2>2
    <2> QED BY <2>3
<1>5. CASE MifareReadDataBlock
    <2>1. Reads(28, "data") /\ UNCHANGED uidVars
        BY <1>5 DEF MifareReadDataBlock
    <2>2. PICK offer \in Offers, count \in 0..28 :
            /\ event' = [type |-> "read", handler |-> "data", offer |-> offer,
                         count |-> count, length |-> 28]
            /\ Arrived(recvBuffer', offer.bytes, count)
        BY <1>1, <2>1
    <2>3. Shape(offer, 28, count, "data")
        BY <2>1, <2>2
    <2> QED BY <2>3
<1> QED BY <1>2, <1>3, <1>4, <1>5 DEF Read

\* Whatever is offered, a frame of Pn532Frame stands for what is read.
LEMMA OfferStands ==
    ASSUME NEW o \in Offers, NEW r, NEW count, NEW length, NEW handler, NEW u, NEW n,
           IsRead(o, r, count, length, handler, u, n)
    PROVE  Stands(o, r, count, length, handler, u, n)
<1>1. CASE AckOffer(o)
    <2>1. o.frames = {Plain("ack")}
        BY <1>1 DEF AckOffer
    <2> QED BY <1>1, <2>1, PlainStands
<1>2. CASE PlainOffer(o)
    <2>1. PICK kind \in {"junk", "firmware", "done", "success", "failure"} :
            PlainOf(o, kind)
        BY <1>2 DEF PlainOffer
    <2>2. o.frames = {Plain(kind)} /\ kind # "ack"
        BY <2>1 DEF PlainOf
    <2> QED BY <2>1, <2>2, PlainStands
<1>3. CASE DataOffer(o)
    BY <1>3, DataStands
<1>4. CASE TargetOffer(o)
    BY <1>4, TargetStands DEF TargetOffer
<1> QED BY <1>1, <1>2, <1>3, <1>4, OfferKinds

\* A UID that comes with a listing has at most ten bytes.
LEMMA ShortUids ==
    ASSUME NEW o \in Offers, \E frame \in o.frames : frame.kind = "target",
           NEW count \in 0..28, NEW r, Arrived(r, o.bytes, count)
    PROVE  r[14] \in 0..10
<1>1. ~ AckOffer(o)
    BY DEF AckOffer, Plain
<1>2. ~ PlainOffer(o)
    BY DEF PlainOffer, PlainOf, Plain
<1>3. ~ DataOffer(o)
    BY DEF DataOffer
<1>4. PICK card \in Card : TargetOf(o, card)
    BY <1>1, <1>2, <1>3, OfferKinds DEF TargetOffer
<1>5. o.bytes[14] \in {4, 7, 10}
    BY <1>4, BytesAssumption DEF TargetOf
<1>6. r[14] = IF count < 14 THEN 0 ELSE o.bytes[14]
    BY StatusAndLength
<1> QED BY <1>5, <1>6

LEMMA InitStep ==
    ASSUME Init
    PROVE  TypeOK /\ event.type = "none"
<1>1. uid \in [1..14 -> uint8_t] /\ recvBuffer \in [1..28 -> uint8_t]
    BY DEF Init, Zeros, uint8_t
<1>2. /\ uidLength \in 0..7 /\ event.type = "none"
      /\ beyond \in 0..241 /\ printed \in Seq(uint8_t)
    BY DEF Init
<1> QED BY <1>1, <1>2 DEF TypeOK

LEMMA TypeStep ==
    ASSUME TypeOK, [Next]_vars
    PROVE  TypeOK'
<1>1. CASE Send
    BY <1>1, SendStep DEF TypeOK, uidVars
<1>2. CASE Read
    <2>1. PICK handler \in {"ack", "uid", "authenticate", "data"} :
            /\ recvBuffer' \in [1..28 -> uint8_t]
            /\ handler = "uid" =>
                UidRight(recvBuffer', uid', uidLength') /\ UidNoted(recvBuffer')
            /\ handler # "uid" => UNCHANGED uidVars
        BY <1>2, ReadStep, Zenon DEF Arrived
    <2>2. CASE handler = "uid"
        BY <2>1, <2>2 DEF UidRight, UidNoted, TypeOK
    <2>3. CASE handler # "uid"
        BY <2>1, <2>3 DEF TypeOK, uidVars
    <2> QED BY <2>2, <2>3
<1>3. CASE UNCHANGED vars
    BY <1>3 DEF vars, uidVars, TypeOK
<1> QED BY <1>1, <1>2, <1>3 DEF Next

\* Type correctness: with UIDs of every length a card has, and a read that may
\* break off anywhere, the buffers keep their lengths, the length of the UID is
\* at most seven.
THEOREM TypeCorrect == Spec => []TypeOK
<1>1. Init => TypeOK
    BY InitStep
<1>2. TypeOK /\ [Next]_vars => TypeOK'
    BY TypeStep
<1> QED BY <1>1, <1>2, PTL DEF Spec

\* Whatever the driver writes, the chip finds the right lengths and checksums
\* in it and the command that was meant.
THEOREM SentRight == Spec => []SentAsMeant
<1>1. Init => SentAsMeant
    BY InitStep DEF SentAsMeant
<1>2. TypeOK /\ SentAsMeant /\ [Next]_vars => SentAsMeant'
    <2> SUFFICES ASSUME TypeOK, SentAsMeant, [Next]_vars PROVE SentAsMeant'
        OBVIOUS
    <2>1. CASE Send
        BY <2>1, SendStep
    <2>2. CASE Read
        <3>1. event'.type = "read"
            BY <2>2, ReadStep
        <3> QED BY <3>1 DEF SentAsMeant
    <2>3. CASE UNCHANGED vars
        <3>1. event' = event
            BY <2>3 DEF vars
        <3> QED BY <3>1, ZenonT(30) DEF SentAsMeant, IsFrameOf
    <2> QED BY <2>1, <2>2, <2>3 DEF Next
<1> QED BY <1>1, <1>2, TypeCorrect, PTL DEF Spec

\* No command but the authentication for a UID of seven bytes is longer than
\* the array it is put together in.
THEOREM Fit == Spec => []CommandFits
<1>1. Init => CommandFits
    BY InitStep DEF CommandFits
<1>2. TypeOK /\ CommandFits /\ [Next]_vars => CommandFits'
    <2> SUFFICES ASSUME TypeOK, CommandFits, [Next]_vars PROVE CommandFits'
        OBVIOUS
    <2>1. CASE Send
        BY <2>1, SendStep
    <2>2. CASE Read
        <3>1. event'.type = "read"
            BY <2>2, ReadStep
        <3> QED BY <3>1 DEF CommandFits
    <2>3. CASE UNCHANGED vars
        <3>1. event' = event /\ uidLength' = uidLength
            BY <2>3 DEF vars, uidVars
        <3> QED BY <3>1, Zenon DEF CommandFits
    <2> QED BY <2>1, <2>2, <2>3 DEF Next
<1> QED BY <1>1, <1>2, TypeCorrect, PTL DEF Spec

\* The frames that the models of the handlers exchange are a true abstraction
\* of the bytes: whatever the chip sends and wherever the read breaks off, one
\* of them agrees with all the driver's tests on what has arrived.
THEOREM FramesTrue == Spec => []FramesStandForBytes
<1>1. Init => FramesStandForBytes
    BY InitStep DEF FramesStandForBytes
<1>2. TypeOK /\ FramesStandForBytes /\ [Next]_vars => FramesStandForBytes'
    <2> SUFFICES ASSUME TypeOK, FramesStandForBytes, [Next]_vars
                 PROVE  FramesStandForBytes'
        OBVIOUS
    <2>1. CASE Send
        <3>1. event'.type = "write"
            BY <2>1, SendStep
        <3> QED BY <3>1 DEF FramesStandForBytes
    <2>2. CASE Read
        <3>1. PICK offer \in Offers, length \in {8, 28}, count \in 0..28,
                   handler \in {"ack", "uid", "authenticate", "data"} :
                /\ event' = [type |-> "read", handler |-> handler, offer |-> offer,
                             count |-> count, length |-> length]
                /\ count \in 0..length
                /\ Arrived(recvBuffer', offer.bytes, count)
                /\ handler = "uid" => length = 28 /\ UidRight(recvBuffer', uid', uidLength')
            BY <2>2, ReadStep, Zenon
        <3>2. IsRead(offer, recvBuffer', count, length, handler, uid', uidLength')
            BY <3>1 DEF IsRead
        <3>3. Stands(offer, recvBuffer', count, length, handler, uid', uidLength')
            BY <3>2, OfferStands
        <3>4. /\ event'.type = "read" /\ event'.handler = handler /\ event'.offer = offer
              /\ event'.count = count /\ event'.length = length
            BY <3>1
        <3>5. \A f : Fits(f, recvBuffer', length, handler, uid', uidLength') => Agrees(f)'
            BY <3>4 DEF Fits, Agrees, Byte
        <3> QED BY <3>3, <3>4, <3>5, Zenon DEF Stands, FramesStandForBytes
    <2>3. CASE UNCHANGED vars
        <3>1. /\ uid' = uid /\ uidLength' = uidLength
              /\ recvBuffer' = recvBuffer /\ event' = event
            BY <2>3 DEF vars, uidVars
        <3>2. \A f : Agrees(f) => Agrees(f)'
            BY <3>1, ZenonT(30) DEF Agrees, Byte, ReadAckFrame
        <3> QED BY <3>1, <3>2, Zenon DEF FramesStandForBytes
    <2> QED BY <2>1, <2>2, <2>3 DEF Next
<1> QED BY <1>1, <1>2, TypeCorrect, PTL DEF Spec

\* No answer to a listing makes pn532ReadCardUid clear memory behind the struct,
\* wherever the answer is cut short and whatever UID has been there before.
THEOREM ListingsStayInside == Spec => OnlyStraysReachBeyond
<1> DEFINE Inside == \A frame \in event'.offer.frames : frame.kind # "target"
           Step == beyond' # beyond => Inside
<1>1. TypeOK /\ [Next]_vars => [Step]_vars
    <2> SUFFICES ASSUME TypeOK, [Next]_vars PROVE [Step]_vars
        OBVIOUS
    <2>1. CASE Send
        <3>1. beyond' = beyond
            BY <2>1, SendStep DEF uidVars
        <3> QED BY <3>1
    <2>2. CASE Read
        <3>1. PICK offer \in Offers, length \in {8, 28}, count \in 0..28,
                   handler \in {"ack", "uid", "authenticate", "data"} :
                /\ event' = [type |-> "read", handler |-> handler, offer |-> offer,
                             count |-> count, length |-> length]
                /\ Arrived(recvBuffer', offer.bytes, count)
                /\ handler = "uid" => UidNoted(recvBuffer')
                /\ handler # "uid" => UNCHANGED uidVars
            BY <2>2, ReadStep, Zenon
        <3>2. beyond' # beyond => recvBuffer'[14] > 14
            BY <3>1 DEF uidVars, UidNoted
        <3>3. (\E frame \in offer.frames : frame.kind = "target")
                => recvBuffer'[14] \in 0..10
            BY <3>1, ShortUids
        <3>4. beyond' # beyond => ~ \E frame \in offer.frames : frame.kind = "target"
            BY <3>2, <3>3
        <3>5. event'.offer = offer
            BY <3>1
        <3> QED BY <3>4, <3>5
    <2>3. CASE UNCHANGED vars
        BY <2>3
    <2> QED BY <2>1, <2>2, <2>3 DEF Next
<1> QED BY <1>1, TypeCorrect, PTL DEF Spec, OnlyStraysReachBeyond

\* What is known of the UID between two functions: if there is one, it is the
\* one that was printed last.
UidIsPrinted == uidLength # 0 => printed = SubSeq(uid, 1, uidLength)

\* Whatever else is written is no authentication, and the UID is at the end of
\* one.
LEMMA AuthenticateNames ==
    ASSUME TypeOK, UidIsPrinted, Send
    PROVE  PrintedIsAuthenticated'
<1> DEFINE Other == event'.cmd[1] # 64 \/ event'.cmd[3] # 97
<1>1. Other => PrintedIsAuthenticated'
    BY Zenon DEF PrintedIsAuthenticated
<1> HIDE DEF Other
<1>2. CASE SendRfConfiguration
    <2>1. event'.cmd = <<50, 5, 255, 1, 255>>
        BY <1>2 DEF SendRfConfiguration, Writes
    <2> QED BY <1>1, <2>1 DEF Other
<1>3. CASE SendFirmwareVersion
    <2>1. event'.cmd = <<2>>
        BY <1>3 DEF SendFirmwareVersion, Sends, Writes
    <2> QED BY <1>1, <2>1 DEF Other
<1>4. CASE SendSamConfiguration
    <2>1. event'.cmd = <<20, 1, 20, 1>>
        BY <1>4 DEF SendSamConfiguration, Sends, Writes
    <2> QED BY <1>1, <2>1 DEF Other
<1>5. CASE SendListPassiveTarget
    <2>1. event'.cmd = <<74, 1, 0>>
        BY <1>5 DEF SendListPassiveTarget, Sends, Writes
    <2> QED BY <1>1, <2>1 DEF Other
<1>6. CASE \E block \in {1, 3} : SendReadBlock(block)
    <2>1. PICK block \in {1, 3} : event'.cmd = <<64, 1, 48, block>>
        BY <1>6 DEF SendReadBlock, Sends, Writes
    <2> QED BY <1>1, <2>1 DEF Other
<1>7. CASE \E data \in Data : SendWriteBlock(data)
    <2>1. PICK data \in Data : event'.cmd = <<64, 1, 160, 1>> \o data
        BY <1>7 DEF SendWriteBlock, Sends, Writes
    <2>2. data \in Seq(uint8_t)
        <3> DEFINE m == 16
        <3>1. m \in Nat /\ data \in [1..m -> uint8_t]
            BY BytesAssumption
        <3> HIDE DEF m
        <3> QED BY <3>1, Tuple, Zenon
    <2>3. event'.cmd[3] = 160
        BY <2>1, <2>2 DEF uint8_t
    <2> QED BY <1>1, <2>3 DEF Other
<1>8. CASE \E color \in {"NONE", "ORANGE"} : SendWriteGpio(color)
    <2>1. PICK pins : event'.cmd = <<14, pins, 0>>
        BY <1>8 DEF SendWriteGpio, Sends, Writes
    <2> QED BY <1>1, <2>1 DEF Other
<1>9. CASE SendAuthenticate(0)
    <2> DEFINE head == <<64, 1, 97, 0 + 3>>
               tail == SubSeq(uid, 1, uidLength)
               cmd == head \o keyUniversal \o tail
    <2>1. uidLength \in 1..7 /\ uidLength \in Nat
        BY <1>9 DEF TypeOK, SendAuthenticate
    <2>2. event'.cmd = cmd
        BY <1>9 DEF SendAuthenticate, Sends, Writes
    <2>3. head \in Seq(uint8_t) /\ Len(head) = 4
        BY DEF uint8_t
    <2>4. keyUniversal \in Seq(uint8_t) /\ Len(keyUniversal) = 6
        <3> DEFINE m == 6
        <3>1. m \in Nat /\ keyUniversal \in [1..m -> uint8_t]
            BY DEF keyUniversal, uint8_t
        <3> HIDE DEF m
        <3>2. keyUniversal \in Seq(uint8_t) /\ Len(keyUniversal) = m
            BY <3>1, Tuple, Zenon
        <3> QED BY <3>2 DEF m
    <2>5. tail \in Seq(uint8_t) /\ Len(tail) = uidLength
        <3>1. uid \in [1..14 -> uint8_t] /\ uidLength \in 0..7
            BY DEF TypeOK
        <3> QED BY <3>1, UidBeginning, Zenon
    <2>6. printed' = tail
        BY <1>9, <2>1, SendStep DEF uidVars, UidIsPrinted
    <2> HIDE DEF head, tail
    <2>7. cmd \in Seq(uint8_t) /\ Joins(cmd, head, keyUniversal, tail)
        BY ONLY <2>3, <2>4, <2>5, Joined, Zenon DEF cmd
    <2> HIDE DEF cmd
    <2>8. /\ Len(cmd) = 10 + uidLength
          /\ \A i \in 1..uidLength : cmd[10 + i] = tail[i]
        BY <2>3, <2>4, <2>5, <2>7 DEF Joins
    <2>9. SubSeq(cmd, 11, 11 + uidLength - 1) = tail
        <3> DEFINE n == 10 + uidLength
                   m == 11
        <3>1. /\ n \in Nat /\ m \in Nat \ {0} /\ m + uidLength - 1 <= n
              /\ \A i \in 1..uidLength : tail[i] = cmd[m + i - 1]
            BY <2>1, <2>8
        <3>2. Len(cmd) = n
            BY <2>8
        <3> HIDE DEF n, m
        <3>3. SubSeq(cmd, m, m + uidLength - 1) = tail
            BY ONLY <2>1, <2>5, <2>7, <3>1, <3>2, Slice, Zenon
        <3> QED BY <3>3 DEF m
    <2>10. 11 + uidLength - 1 = Len(cmd)
        BY <2>1, <2>8
    <2>11. SubSeq(event'.cmd, 11, Len(event'.cmd)) = printed'
        BY <2>2, <2>6, <2>9, <2>10
    <2> QED BY <2>11, Zenon DEF PrintedIsAuthenticated
<1> QED BY <1>2, <1>3, <1>4, <1>5, <1>6, <1>7, <1>8, <1>9 DEF Send

\* An authentication names the card whose UID was printed last, whole, whatever
\* has been read, refused or broken off since.
THEOREM AuthenticatesPrinted == Spec => []PrintedIsAuthenticated
<1>1. Init => UidIsPrinted /\ PrintedIsAuthenticated
    BY DEF Init, UidIsPrinted, PrintedIsAuthenticated
<1>2. TypeOK /\ UidIsPrinted /\ PrintedIsAuthenticated /\ [Next]_vars
        => UidIsPrinted' /\ PrintedIsAuthenticated'
    <2> SUFFICES ASSUME TypeOK, UidIsPrinted, PrintedIsAuthenticated, [Next]_vars
                 PROVE  UidIsPrinted' /\ PrintedIsAuthenticated'
        OBVIOUS
    <2>1. CASE Send
        <3>1. uid' = uid /\ uidLength' = uidLength /\ printed' = printed
            BY <2>1, SendStep DEF uidVars
        <3>2. UidIsPrinted'
            BY <3>1 DEF UidIsPrinted
        <3> QED BY <2>1, <3>2, AuthenticateNames
    <2>2. CASE Read
        <3>1. PICK handler \in {"ack", "uid", "authenticate", "data"} :
                /\ event'.type = "read"
                /\ handler = "uid" => UidNoted(recvBuffer')
                /\ handler # "uid" => UNCHANGED uidVars
            BY <2>2, ReadStep
        <3>2. PrintedIsAuthenticated'
            BY <3>1 DEF PrintedIsAuthenticated
        <3>3. UidIsPrinted'
            BY <3>1 DEF UidIsPrinted, UidNoted, uidVars
        <3> QED BY <3>2, <3>3
    <2>3. CASE UNCHANGED vars
        <3>1. /\ uid' = uid /\ uidLength' = uidLength /\ printed' = printed
              /\ event' = event
            BY <2>3 DEF vars, uidVars
        <3> QED BY <3>1, Zenon DEF UidIsPrinted, PrintedIsAuthenticated
    <2> QED BY <2>1, <2>2, <2>3 DEF Next
<1> QED BY <1>1, <1>2, TypeCorrect, PTL DEF Spec

\* Of what may be offered only an ACK and a success have a zero where the status
\* is, and both begin with a zero behind the status byte of the chip.
LEMMA PreambleIsThere ==
    ASSUME NEW o \in Offers, o.bytes[9] = 0
    PROVE  o.bytes[2] = 0
<1>1. CASE AckOffer(o)
    BY <1>1 DEF AckOffer
<1>2. CASE PlainOffer(o)
    BY <1>2 DEF PlainOffer, PlainOf
<1>3. CASE DataOffer(o)
    BY <1>3 DEF DataOffer
<1>4. CASE TargetOffer(o)
    BY <1>4 DEF TargetOffer, TargetOf
<1> QED BY <1>1, <1>2, <1>3, <1>4, OfferKinds

\* The text that is printed for a block ends, with the second byte of the
\* receive buffer at the latest: wherever the read was cut short, and for any
\* sixteen bytes on the card.
THEOREM TextStops == Spec => []TextEnds
<1>1. Init => TextEnds
    BY InitStep DEF TextEnds
<1>2. TypeOK /\ TextEnds /\ [Next]_vars => TextEnds'
    <2> SUFFICES ASSUME TypeOK, TextEnds, [Next]_vars PROVE TextEnds'
        OBVIOUS
    <2>1. CASE Send
        <3>1. event'.type = "write"
            BY <2>1, SendStep
        <3> QED BY <3>1 DEF TextEnds
    <2>2. CASE Read
        <3> SUFFICES ASSUME BlockAccepted(recvBuffer')
                     PROVE  \E i \in 10..25 \cup 1..2 : recvBuffer'[i] = 0
            BY DEF TextEnds
        <3>1. PICK offer \in Offers, count \in 0..28 :
                Arrived(recvBuffer', offer.bytes, count)
            BY <2>2, ReadStep, Zenon
        <3>2. \A i \in 1..28 : recvBuffer'[i] = IF i <= count THEN offer.bytes[i] ELSE 0
            BY <3>1 DEF Arrived
        <3>3. CASE count < 10
            \* the bytes of the block have not come
            <4>1. recvBuffer'[10] = 0
                BY <3>2, <3>3
            <4> QED BY <4>1
        <3>4. CASE count >= 10
            <4>1. offer.bytes[9] = 0
                BY <3>2, <3>4 DEF BlockAccepted
            <4>2. recvBuffer'[2] = 0
                BY <3>2, <3>4, <4>1, PreambleIsThere
            <4> QED BY <4>2
        <3> QED BY <3>3, <3>4
    <2>3. CASE UNCHANGED vars
        BY <2>3, Zenon DEF vars, TextEnds
    <2> QED BY <2>1, <2>2, <2>3 DEF Next
<1> QED BY <1>1, <1>2, TypeCorrect, PTL DEF Spec
=============================================================================
