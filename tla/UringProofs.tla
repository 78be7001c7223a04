----------------------------- MODULE UringProofs -----------------------------
(***************************************************************************)
(* Proofs about Uring, for any number of owners, any sizes of the rings,   *)
(* any width of the counters the sizes divide, and any number of stores    *)
(* held back: the set-up gives back what it acquired, and the rings are    *)
(* the queues of RingQueue until an entry is handed out that was not taken.*)
(***************************************************************************)
EXTENDS Uring, SequenceTheorems, WellFoundedInduction, TLAPS

USE DEF sqeVars

-----------------------------------------------------------------------------
(* Counters and the entries they name.                                      *)
Counters == 0 .. (CounterMod - 1)

(* Counters go round: the distance from one to another is how often it must *)
(* be increased.                                                            *)
LEMMA Counting ==
    ASSUME NEW a \in Counters, NEW b \in Counters
    PROVE  /\ Inc(a) \in Counters
           /\ Dist(a, b) \in Counters
           /\ Dist(a, b) = 0 <=> a = b
           /\ Dist(a, b) + 1 < CounterMod => Dist(a, Inc(b)) = Dist(a, b) + 1
           /\ Dist(a, b) > 0 => Dist(Inc(a), b) = Dist(a, b) - 1
<1>1. CounterMod \in Nat \ {0} /\ CounterMod > 1
    BY UringAssumption
<1>2. \A x \in Counters : Inc(x) = IF x + 1 = CounterMod THEN 0 ELSE x + 1
    BY <1>1 DEF Inc, Counters
<1>3. \A x, y \in Counters : Dist(x, y) = IF y >= x THEN y - x ELSE y - x + CounterMod
    BY <1>1 DEF Dist, Counters
<1>4. Inc(a) \in Counters /\ Dist(a, b) \in Counters /\ (Dist(a, b) = 0 <=> a = b)
  <2>1. Inc(a) \in Counters
      BY <1>1, <1>2 DEF Counters
  <2>2. Dist(a, b) \in Counters
      BY <1>1, <1>3 DEF Counters
  <2>3. Dist(a, b) = 0 <=> a = b
      BY <1>1, <1>3 DEF Counters
  <2> QED BY <2>1, <2>2, <2>3
<1>5. Dist(a, b) + 1 < CounterMod => Dist(a, Inc(b)) = Dist(a, b) + 1
  <2>1. Inc(b) \in Counters
      BY <1>1, <1>2 DEF Counters
  <2>2. Dist(a, Inc(b)) = IF Inc(b) >= a THEN Inc(b) - a ELSE Inc(b) - a + CounterMod
      BY <1>3, <2>1
  <2> QED BY <1>1, <1>2, <1>3, <2>2 DEF Counters
<1>6. Dist(a, b) > 0 => Dist(Inc(a), b) = Dist(a, b) - 1
  <2>1. Inc(a) \in Counters
      BY <1>4
  <2>2. Dist(Inc(a), b) = IF b >= Inc(a) THEN b - Inc(a) ELSE b - Inc(a) + CounterMod
      BY <1>3, <2>1
  <2> QED BY <1>1, <1>2, <1>3, <2>2 DEF Counters
<1> QED BY <1>4, <1>5, <1>6

(* Division with remainder, and that there is only one.                     *)
LEMMA Division ==
    ASSUME NEW a \in Int, NEW b \in Nat \ {0}
    PROVE  /\ a \div b \in Int /\ (a % b) \in 0 .. (b - 1)
           /\ a = b * (a \div b) + (a % b)
OBVIOUS

(* The remainder of a number so divided.                                    *)
LEMMA Remainder ==
    ASSUME NEW b \in Nat \ {0}, NEW q \in Int, NEW r \in 0 .. (b - 1)
    PROVE  (b * q + r) % b = r
OBVIOUS

(* Numbers that differ by a multiple have one remainder, and different ones *)
(* with one remainder are apart.                                            *)
LEMMA Congruent ==
    ASSUME NEW b \in Nat \ {0}, NEW x \in Int, NEW y \in Int
    PROVE  /\ \A k \in Int : y = x + b * k => y % b = x % b
           /\ x % b = y % b /\ x < y => x + b <= y
<1> DEFINE p == x \div b
           q == y \div b
           r == x % b
           s == y % b
<1>1. /\ p \in Int /\ r \in 0 .. (b - 1) /\ x = b * p + r
      /\ q \in Int /\ s \in 0 .. (b - 1) /\ y = b * q + s
    BY Division
<1>2. (b * p + r) % b = r
    BY <1>1, Remainder
<1> HIDE DEF p, q, r, s
<1>3. ASSUME NEW k \in Int, y = x + b * k
      PROVE  s = r
  <2>1. y = b * (p + k) + r
      BY <1>1, <1>3
  <2>2. (b * (p + k) + r) % b = r
      BY <1>1, Remainder
  <2> QED BY <2>1, <2>2 DEF s
<1>4. ASSUME r = s, x < y
      PROVE  x + b <= y
  <2>1. y - x = b * (q - p) /\ y - x > 0
      BY <1>1, <1>4
  <2>2. q - p >= 1
      BY <1>1, <2>1
  <2>3. b * (q - p) >= b
      BY <1>1, <2>2
  <2> QED BY <1>1, <2>1, <2>3
<1> QED BY <1>3, <1>4 DEF r, s

(* The entry i places after a counter, in a ring of b entries.              *)
LEMMA Places ==
    ASSUME NEW b \in Nat \ {0}, CounterMod % b = 0, NEW a \in Counters
    PROVE  /\ \A i \in Nat : (a + i) % b \in 0 .. (b - 1)
           /\ \A i \in Nat : (Inc(a) + i) % b = (a + i + 1) % b
           /\ \A i, j \in 0 .. (b - 1) : (a + i) % b = (a + j) % b => i = j
           /\ \A c \in Counters : (a + Dist(a, c)) % b = c % b
           /\ \A i \in Nat : (a + (i % b)) % b = (a + i) % b
<1> DEFINE m == CounterMod \div b
<1>1. CounterMod \in Nat /\ CounterMod > 1 /\ a \in Nat /\ a < CounterMod
    BY UringAssumption DEF Counters
<1>2. m \in Int /\ CounterMod = b * m
    BY <1>1, Division
<1> HIDE DEF m
<1>3. ASSUME NEW x \in Int PROVE (x + CounterMod) % b = x % b
  <2>1. x + CounterMod \in Int /\ x + CounterMod = x + b * m
      BY <1>1, <1>2
  <2> QED BY <1>2, <2>1, Congruent
<1>4. ASSUME NEW i \in Nat PROVE (a + i) % b \in 0 .. (b - 1)
    BY <1>1, Division
<1>5. ASSUME NEW i \in Nat PROVE (Inc(a) + i) % b = (a + i + 1) % b
  <2>1. CASE a + 1 < CounterMod
    <3>1. Inc(a) = a + 1
        BY <1>1, <2>1 DEF Inc
    <3>2. Inc(a) + i = a + i + 1
        BY <1>1, <3>1
    <3> QED BY <3>2
  <2>2. CASE a + 1 = CounterMod
    <3>1. Inc(a) = 0
        BY <1>1, <2>2 DEF Inc
    <3>2. a + i + 1 = i + CounterMod /\ Inc(a) + i = i
        BY <1>1, <2>2, <3>1
    <3> QED BY <1>3, <3>2
  <2> QED BY <1>1, <2>1, <2>2
<1>6. ASSUME NEW i \in 0 .. (b - 1), NEW j \in 0 .. (b - 1), (a + i) % b = (a + j) % b
      PROVE  i = j
  <2> DEFINE x == a + i
             y == a + j
  <2>1. x \in Int /\ y \in Int /\ x < y + b /\ y < x + b
      BY <1>1
  <2>2. ~(x < y) /\ ~(y < x)
    <3>1. x % b = y % b
        BY <1>6
    <3> HIDE DEF x, y
    <3>2. x < y => x + b <= y
        BY <2>1, <3>1, Congruent
    <3>3. y < x => y + b <= x
        BY <2>1, <3>1, Congruent
    <3> QED BY <2>1, <3>2, <3>3
  <2> QED BY <1>1, <2>2
<1>7. ASSUME NEW c \in Counters PROVE (a + Dist(a, c)) % b = c % b
  <2>1. c \in Nat /\ Dist(a, c) = IF c >= a THEN c - a ELSE c - a + CounterMod
      BY <1>1 DEF Dist, Counters
  <2>2. a + Dist(a, c) = c \/ a + Dist(a, c) = c + CounterMod
      BY <1>1, <2>1
  <2>3. (c + CounterMod) % b = c % b
      BY <1>3, <2>1
  <2> QED BY <2>2, <2>3
<1>8. ASSUME NEW i \in Nat PROVE (a + (i % b)) % b = (a + i) % b
  <2> DEFINE x == a + (i % b)
             y == a + i
             q == i \div b
  <2>1. q \in Int /\ (i % b) \in Nat /\ i = b * q + (i % b)
      BY Division
  <2> HIDE DEF q
  <2>2. x \in Int /\ y \in Int /\ y = x + b * q
      BY <1>1, <2>1
  <2> HIDE DEF x, y
  <2>3. y % b = x % b
      BY <2>1, <2>2, Congruent
  <2> QED BY <2>3 DEF x, y
<1> QED BY <1>4, <1>5, <1>6, <1>7, <1>8

-----------------------------------------------------------------------------
(* The store buffer.  The memory as it is after the first k stores of the   *)
(* buffer; all of them together: the first is what the kernel sees, the     *)
(* last what the loop sees.                                                 *)
After(m, b, k, w) ==
    LET own == {i \in 1 .. k : b[i][1] = w}
    IN  IF own = {} THEN m[w] ELSE b[Max(own)][2]

Image(m, b, k) == [w \in Words |-> After(m, b, k, w)]

Images(m, b) == [k \in 1 .. (Len(b) + 1) |-> Image(m, b, k - 1)]

(* The images after a store.                                                *)
Stored(H, w, v) == Append(H, [Last(H) EXCEPT ![w] = v])

Memory == [Words -> Nat]
Stores == Seq(Words \X Nat)

(* A set of naturals that is not empty has a least element.                 *)
LEMMA LeastNatural ==
    ASSUME NEW T, T \subseteq Nat, T # {}
    PROVE  \E x \in T : \A y \in T : x <= y
<1> DEFINE R == OpToRel(<, Nat)
<1>1. IsWellFoundedOn(R, Nat)
    BY NatLessThanWellFounded
<1>2. \A x, y \in Nat : <<x, y>> \in R <=> x < y
    BY DEF OpToRel
<1> HIDE DEF R
<1>3. PICK x \in T : \A y \in T : ~(<<y, x>> \in R)
    BY <1>1, WFMin
<1>4. x \in Nat /\ \A y \in T : y \in Nat /\ ~(y < x)
    BY <1>2, <1>3
<1>5. \A y \in T : x <= y
    BY <1>4
<1> QED BY <1>5

(* None of the first k stores is to word w; store i is the latest of those. *)
Untouched(b, k, w) == \A i \in 1 .. k : b[i][1] # w
Latest(b, k, w, i) ==
    /\ i \in 1 .. k /\ b[i][1] = w
    /\ \A j \in 1 .. k : b[j][1] = w => j <= i

(* A word that was stored to has a latest store.                            *)
LEMMA LatestStore ==
    ASSUME NEW b, NEW k \in Nat, NEW w, ~Untouched(b, k, w)
    PROVE  \E i \in 1 .. k : Latest(b, k, w, i)
<1> DEFINE own == {i \in 1 .. k : b[i][1] = w}
           T == {n \in 0 .. k : k - n \in own}
<1>1. T \subseteq Nat /\ T # {}
  <2>1. PICK i \in own : TRUE
      BY DEF Untouched
  <2>2. k - i \in 0 .. k /\ k - (k - i) = i
      BY <2>1
  <2> HIDE DEF own
  <2>3. k - i \in T
      BY <2>1, <2>2
  <2> QED BY <2>3
<1>2. PICK n \in T : \A l \in T : n <= l
  <2> HIDE DEF T
  <2> QED BY <1>1, LeastNatural
<1>3. k - n \in own /\ \A j \in own : j <= k - n
  <2>1. \A j \in own : k - j \in T
    <3>1. \A j \in own : j \in 1 .. k /\ k - j \in 0 .. k /\ k - (k - j) = j
        OBVIOUS
    <3> HIDE DEF own
    <3> QED BY <3>1
  <2>2. \A j \in own : n <= k - j /\ j \in 1 .. k
      BY <1>2, <2>1
  <2> HIDE DEF own
  <2> QED BY <1>2, <2>2
<1> HIDE DEF T
<1> QED BY <1>3 DEF Latest

(* A word holds what the latest store to it put there,                      *)
LEMMA AfterLatest ==
    ASSUME NEW m, NEW b, NEW k \in Nat, NEW w, NEW i, Latest(b, k, w, i)
    PROVE  After(m, b, k, w) = b[i][2]
<1> DEFINE own == {j \in 1 .. k : b[j][1] = w}
<1>1. i \in own /\ \A j \in own : i >= j
    BY DEF Latest
<1>2. \A j \in own : j \in Nat
    OBVIOUS
<1>3. own # {} /\ Max(own) = i
  <2> HIDE DEF own
  <2>1. Max(own) \in own /\ \A j \in own : Max(own) >= j
      BY <1>1 DEF Max
  <2> QED BY <1>1, <1>2, <2>1
<1> QED BY <1>3 DEF After

(* or what it held before.                                                  *)
LEMMA AfterUntouched ==
    ASSUME NEW m, NEW b, NEW k, NEW w, Untouched(b, k, w)
    PROVE  After(m, b, k, w) = m[w]
<1>1. {j \in 1 .. k : b[j][1] = w} = {}
    BY DEF Untouched
<1> QED BY <1>1 DEF After

(* The images of memory, and the two that have a reader.                    *)
LEMMA ImagesAre ==
    ASSUME NEW m \in Memory, NEW b \in Stores
    PROVE  /\ Images(m, b) \in Seq(Memory) /\ Len(Images(m, b)) = Len(b) + 1
           /\ Images(m, b)[1] = m
           /\ \A w \in Words : Last(Images(m, b))[w] = After(m, b, Len(b), w)
<1> DEFINE I == Images(m, b)
<1>1. Len(b) \in Nat /\ \A i \in 1 .. Len(b) : b[i] \in Words \X Nat
    BY DEF Stores
<1>2. ASSUME NEW k \in 0 .. Len(b), NEW w \in Words
      PROVE  After(m, b, k, w) \in Nat
  <2>1. m[w] \in Nat
      BY DEF Memory
  <2>2. \A i \in 1 .. k : b[i][2] \in Nat
      BY <1>1
  <2>3. k \in Nat
      BY <1>1
  <2>4. CASE Untouched(b, k, w)
      BY <2>1, <2>4, AfterUntouched
  <2>5. CASE ~Untouched(b, k, w)
    <3>1. PICK i \in 1 .. k : Latest(b, k, w, i)
        BY <2>3, <2>5, LatestStore
    <3>2. After(m, b, k, w) = b[i][2]
        BY <2>3, <3>1, AfterLatest
    <3> QED BY <2>2, <3>2
  <2> QED BY <2>4, <2>5
<1>3. I \in Seq(Memory) /\ Len(I) = Len(b) + 1
  <2>1. ASSUME NEW k \in 1 .. (Len(b) + 1)
        PROVE  Image(m, b, k - 1) \in Memory
    <3>1. k - 1 \in 0 .. Len(b)
        BY <1>1
    <3> QED BY <1>1, <1>2, <3>1 DEF Image, Memory
  <2>2. I \in [1 .. (Len(b) + 1) -> Memory]
      BY <2>1 DEF Images
  <2>3. Len(b) + 1 \in Nat
      BY <1>1
  <2> QED BY <2>2, <2>3
<1>4. I[1] = m
  <2>1. \A w \in Words : After(m, b, 0, w) = m[w]
      BY AfterUntouched DEF Untouched
  <2>2. I[1] = Image(m, b, 1 - 1)
      BY <1>1 DEF Images
  <2> QED BY <2>1, <2>2 DEF Image, Memory
<1>5. Last(I) = Image(m, b, Len(b))
  <2>1. Last(I) = I[Len(b) + 1] /\ (Len(b) + 1) - 1 = Len(b)
      BY <1>1, <1>3 DEF Last
  <2>2. I[Len(b) + 1] = Image(m, b, (Len(b) + 1) - 1)
      BY <1>1 DEF Images
  <2> QED BY <2>1, <2>2
<1> QED BY <1>3, <1>4, <1>5 DEF Image

(* A store adds an image,                                                   *)
LEMMA ImagesStore ==
    ASSUME NEW m \in Memory, NEW b \in Stores, NEW w \in Words, NEW v \in Nat
    PROVE  LET I == Images(m, b)
           IN  /\ Append(b, <<w, v>>) \in Stores
               /\ Images(m, Append(b, <<w, v>>)) = Stored(I, w, v)
<1> DEFINE c == Append(b, <<w, v>>)
           n == Len(b)
           I == Images(m, b)
           J == Images(m, c)
           K == Append(I, [Last(I) EXCEPT ![w] = v])
<1>1. /\ n \in Nat /\ c \in Stores /\ Len(c) = n + 1
      /\ c[n + 1] = <<w, v>> /\ \A i \in 1 .. n : c[i] = b[i]
  <2>1. b \in Seq(Words \X Nat) /\ <<w, v>> \in Words \X Nat
      BY DEF Stores
  <2> QED BY <2>1 DEF Stores
<1>2. /\ I \in Seq(Memory) /\ Len(I) = n + 1
      /\ J \in Seq(Memory) /\ Len(J) = n + 2
      /\ \A x \in Words : Last(I)[x] = After(m, b, n, x)
      /\ Last(I) \in Memory
  <2>1. J \in Seq(Memory) /\ Len(J) = Len(c) + 1
      BY <1>1, ImagesAre
  <2>2. /\ I \in Seq(Memory) /\ Len(I) = n + 1
        /\ \A x \in Words : Last(I)[x] = After(m, b, n, x)
      BY ImagesAre
  <2>3. Last(I) \in Memory
      BY <1>1, <2>2 DEF Last
  <2> HIDE DEF I, J, c
  <2> QED BY <1>1, <2>1, <2>2, <2>3
<1> HIDE DEF c
<1>3. ASSUME NEW k \in 0 .. n, NEW x \in Words
      PROVE  After(m, c, k, x) = After(m, b, k, x)
  <2>1. k \in Nat /\ \A i \in 1 .. k : c[i] = b[i]
      BY <1>1
  <2>2. CASE Untouched(b, k, x)
    <3>1. Untouched(c, k, x)
        BY <2>1, <2>2 DEF Untouched
    <3> QED BY <2>2, <3>1, AfterUntouched
  <2>3. CASE ~Untouched(b, k, x)
    <3>1. PICK i \in 1 .. k : Latest(b, k, x, i)
        BY <2>1, <2>3, LatestStore
    <3>2. Latest(c, k, x, i)
        BY <2>1, <3>1 DEF Latest
    <3>3. After(m, b, k, x) = b[i][2] /\ After(m, c, k, x) = c[i][2]
        BY <2>1, <3>1, <3>2, AfterLatest
    <3> QED BY <2>1, <3>3
  <2> QED BY <2>2, <2>3
<1>4. ASSUME NEW x \in Words
      PROVE  After(m, c, n + 1, x) = IF x = w THEN v ELSE After(m, b, n, x)
  <2>1. n + 1 \in Nat
      BY <1>1
  <2>2. CASE x = w
    <3>1. Latest(c, n + 1, x, n + 1)
        BY <1>1, <2>2 DEF Latest
    <3>2. After(m, c, n + 1, x) = c[n + 1][2]
        BY <2>1, <3>1, AfterLatest
    <3> QED BY <1>1, <2>2, <3>2
  <2>3. CASE x # w /\ Untouched(b, n, x)
    <3>1. Untouched(c, n + 1, x)
        BY <1>1, <2>3 DEF Untouched
    <3> QED BY <1>1, <2>3, <3>1, AfterUntouched
  <2>4. CASE x # w /\ ~Untouched(b, n, x)
    <3>1. PICK i \in 1 .. n : Latest(b, n, x, i)
        BY <1>1, <2>4, LatestStore
    <3>2. Latest(c, n + 1, x, i) /\ c[i] = b[i]
        BY <1>1, <2>4, <3>1 DEF Latest
    <3>3. After(m, b, n, x) = b[i][2] /\ After(m, c, n + 1, x) = c[i][2]
        BY <1>1, <2>1, <3>1, <3>2, AfterLatest
    <3> QED BY <2>4, <3>2, <3>3
  <2> QED BY <2>2, <2>3, <2>4
<1>5. ASSUME NEW k \in 1 .. (n + 2)
      PROVE  J[k] = K[k]
  <2>1. J[k] = Image(m, c, k - 1)
      BY <1>1 DEF Images
  <2>2. CASE k <= n + 1
    <3>1. k - 1 \in 0 .. n
        BY <1>1, <2>2
    <3>2. K[k] = I[k]
        BY <1>1, <1>2, <2>2
    <3>3. I[k] = Image(m, b, k - 1)
        BY <1>1, <2>2 DEF Images
    <3>4. Image(m, c, k - 1) = Image(m, b, k - 1)
        BY <1>3, <3>1 DEF Image
    <3> HIDE DEF I, J, K
    <3> QED BY <1>1, <2>1, <3>2, <3>3, <3>4
  <2>3. CASE k = n + 2
    <3> DEFINE L == Last(I)
               E == [L EXCEPT ![w] = v]
    <3>1. K[k] = E
        BY <1>1, <1>2, <2>3
    <3>2. L \in Memory /\ J[k] \in Memory
        BY <1>2
    <3>3. J[k] = Image(m, c, n + 1)
      <4>1. k - 1 = n + 1
          BY <1>1, <2>3
      <4> HIDE DEF J
      <4> QED BY <1>1, <2>1, <4>1
    <3> HIDE DEF I, J, K, L, E
    <3>4. \A x \in Words : J[k][x] = E[x]
      <4>1. \A x \in Words : L[x] = After(m, b, n, x)
          BY <1>2 DEF L
      <4> QED BY <1>4, <3>2, <3>3, <4>1 DEF E, Image, Memory
    <3>5. J[k] = E
        BY <3>2, <3>4 DEF E, Memory
    <3> QED BY <3>1, <3>5
  <2>4. k <= n + 1 \/ k = n + 2
      BY <1>1
  <2> QED BY <2>2, <2>3, <2>4
<1>6. J = K
  <2>1. [Last(I) EXCEPT ![w] = v] \in Memory
      BY <1>2 DEF Memory
  <2> HIDE DEF I, J
  <2>2. K \in Seq(Memory) /\ Len(K) = n + 2
      BY <1>1, <1>2, <2>1
  <2> HIDE DEF K
  <2> QED BY <1>1, <1>2, <1>5, <2>2, SeqEqual
<1> QED BY <1>1, <1>6 DEF c, Stored

(* and the first store that becomes visible takes one away.                 *)
LEMMA ImagesDrain ==
    ASSUME NEW m \in Memory, NEW b \in Stores, b # <<>>
    PROVE  LET d == [m EXCEPT ![Head(b)[1]] = Head(b)[2]]
           IN  /\ d \in Memory /\ Tail(b) \in Stores /\ Len(Tail(b)) = Len(b) - 1
               /\ Images(d, Tail(b)) = Tail(Images(m, b))
<1> DEFINE d == [m EXCEPT ![Head(b)[1]] = Head(b)[2]]
           c == Tail(b)
           n == Len(b)
           I == Images(m, b)
           J == Images(d, c)
<1>1. /\ n \in Nat /\ n > 0 /\ c \in Stores /\ Len(c) = n - 1
      /\ \A i \in 1 .. (n - 1) : c[i] = b[i + 1]
      /\ Head(b) = b[1] /\ b[1] \in Words \X Nat
  <2>1. b \in Seq(Words \X Nat)
      BY DEF Stores
  <2> QED BY <2>1 DEF Stores
<1>2. d \in Memory /\ \A x \in Words : d[x] = IF x = b[1][1] THEN b[1][2] ELSE m[x]
    BY <1>1 DEF Memory
<1> HIDE DEF c, d
<1>3. /\ I \in Seq(Memory) /\ Len(I) = n + 1
      /\ J \in Seq(Memory) /\ Len(J) = n
  <2>1. J \in Seq(Memory) /\ Len(J) = Len(c) + 1
      BY <1>1, <1>2, ImagesAre
  <2>2. I \in Seq(Memory) /\ Len(I) = n + 1
      BY ImagesAre
  <2> HIDE DEF I, J
  <2> QED BY <1>1, <2>1, <2>2
<1>4. ASSUME NEW k \in 0 .. (n - 1), NEW x \in Words
      PROVE  After(d, c, k, x) = After(m, b, k + 1, x)
  <2>1. k \in Nat /\ k + 1 \in Nat /\ \A i \in 1 .. k : c[i] = b[i + 1]
      BY <1>1
  <2>2. ASSUME NEW j \in 1 .. (k + 1), j # 1
        PROVE  j - 1 \in 1 .. k /\ c[j - 1] = b[j] /\ (j - 1) + 1 = j
    <3>1. j - 1 \in 1 .. k /\ (j - 1) + 1 = j
        BY <2>1, <2>2
    <3>2. c[j - 1] = b[(j - 1) + 1]
        BY <2>1, <3>1
    <3> QED BY <3>1, <3>2
  <2>3. CASE ~Untouched(c, k, x)
    <3>1. PICK i \in 1 .. k : Latest(c, k, x, i)
        BY <2>1, <2>3, LatestStore
    <3>2. ASSUME NEW j \in 1 .. (k + 1), b[j][1] = x
          PROVE  j <= i + 1
      <4>1. CASE j = 1
          BY <4>1
      <4>2. CASE j # 1
        <5>1. j - 1 <= i
            BY <2>2, <3>1, <3>2, <4>2 DEF Latest
        <5> QED BY <5>1
      <4> QED BY <4>1, <4>2
    <3>3. i + 1 \in 1 .. (k + 1) /\ b[i + 1] = c[i] /\ c[i][1] = x
        BY <2>1, <3>1 DEF Latest
    <3>4. Latest(b, k + 1, x, i + 1)
        BY <3>2, <3>3 DEF Latest
    <3>5. After(m, b, k + 1, x) = b[i + 1][2] /\ After(d, c, k, x) = c[i][2]
        BY <2>1, <3>1, <3>4, AfterLatest, SMTT(30)
    <3> QED BY <3>3, <3>5
  <2>4. CASE Untouched(c, k, x)
    <3>1. After(d, c, k, x) = d[x]
        BY <2>4, AfterUntouched
    <3>2. \A j \in 1 .. (k + 1) : b[j][1] = x => j = 1
        BY <2>2, <2>4 DEF Untouched
    <3>3. CASE b[1][1] = x
      <4>1. Latest(b, k + 1, x, 1)
          BY <2>1, <3>2, <3>3 DEF Latest
      <4>2. After(m, b, k + 1, x) = b[1][2]
          BY <2>1, <4>1, AfterLatest
      <4> QED BY <1>2, <3>1, <3>3, <4>2
    <3>4. CASE b[1][1] # x
      <4>1. Untouched(b, k + 1, x)
          BY <3>2, <3>4 DEF Untouched
      <4>2. After(m, b, k + 1, x) = m[x]
          BY <4>1, AfterUntouched
      <4> QED BY <1>2, <3>1, <3>4, <4>2
    <3> QED BY <3>3, <3>4
  <2> QED BY <2>3, <2>4
<1>5. ASSUME NEW k \in 1 .. n
      PROVE  J[k] = Tail(I)[k]
  <2>1. k - 1 \in 0 .. (n - 1) /\ (k - 1) + 1 = k /\ (k + 1) - 1 = k
      BY <1>1
  <2>2. J[k] = Image(d, c, k - 1)
      BY <1>1 DEF Images
  <2>3. I[k + 1] = Image(m, b, (k + 1) - 1)
      BY <1>1 DEF Images
  <2>4. Tail(I)[k] = I[k + 1]
    <3> HIDE DEF I
    <3> QED BY <1>1, <1>3
  <2>5. Image(d, c, k - 1) = Image(m, b, k)
    <3>1. \A x \in Words : After(d, c, k - 1, x) = After(m, b, k, x)
        BY <1>4, <2>1
    <3> QED BY <3>1 DEF Image
  <2> HIDE DEF I, J
  <2> QED BY <2>1, <2>2, <2>3, <2>4, <2>5
<1>6. J = Tail(I)
  <2> HIDE DEF I, J
  <2>1. Tail(I) \in Seq(Memory) /\ Len(Tail(I)) = n
      BY <1>1, <1>3
  <2> DEFINE T == Tail(I)
  <2>2. T \in Seq(Memory) /\ Len(T) = n /\ \A k \in 1 .. n : J[k] = T[k]
      BY <1>5, <2>1
  <2> HIDE DEF T
  <2>3. J = T
      BY <1>1, <1>3, <2>2, SeqEqual
  <2> QED BY <2>3 DEF T
<1> QED BY <1>1, <1>2, <1>6 DEF c, d

-----------------------------------------------------------------------------
(* The submission ring, over images H of the memory and the kernel's head h *)
SqPlaces == 0 .. (SqEntries - 1)

ImagesOK(H) ==
    /\ H \in Seq(Memory) /\ Len(H) > 0
    /\ \A k \in 1 .. Len(H) : H[k][SqTail] \in Counters /\ H[k][CqHead] \in Counters

(* How many entries an image holds, and where the one after i others is.    *)
Waiting(M, h) == Dist(h, M[SqTail])
Slot(h, i)    == (h + i) % SqEntries

(* A later image holds no less,                                             *)
TailsInOrder(H, h) ==
    \A j, k \in 1 .. Len(H) : j <= k => Waiting(H[j], h) <= Waiting(H[k], h)

(* and where an image has an entry it has its index, and what the loop      *)
(* filled in.                                                               *)
EntriesFilled(H, h) ==
    \A k \in 1 .. Len(H) : \A i \in Nat :
      i < Waiting(H[k], h) =>
        /\ H[k][Index(Slot(h, i))] = Slot(h, i)
        /\ H[k][Sqe(Slot(h, i))] = Last(H)[Sqe(Slot(h, i))]

Queued(H, h) ==
    [i \in 1 .. Waiting(Last(H), h) |-> Last(H)[Sqe(Slot(h, i - 1))]]

(* The words of the rings are different ones.                               *)
LEMMA DifferentWords ==
    /\ SqTail \in Words /\ CqHead \in Words /\ SqTail # CqHead
    /\ \A i \in SqPlaces : /\ Index(i) \in Words /\ Sqe(i) \in Words
                          /\ Index(i) \notin {SqTail, CqHead}
                          /\ Sqe(i) \notin {SqTail, CqHead}
    /\ \A i, j : Index(i) # Sqe(j) /\ (Index(i) = Index(j) => i = j)
                 /\ (Sqe(i) = Sqe(j) => i = j)
<1>1. SqTail # CqHead
    BY DEF SqTail, CqHead
<1>2. \A i : Index(i) \notin {SqTail, CqHead} /\ Sqe(i) \notin {SqTail, CqHead}
    BY DEF Index, Sqe, SqTail, CqHead
<1>3. \A i, j : Index(i) # Sqe(j)
    BY DEF Index, Sqe
<1>4. \A i, j : (Index(i) = Index(j) => i = j) /\ (Sqe(i) = Sqe(j) => i = j)
    BY DEF Index, Sqe
<1>5. /\ SqTail \in Words /\ CqHead \in Words
      /\ \A i \in SqPlaces : Index(i) \in Words /\ Sqe(i) \in Words
    BY DEF Words, SqPlaces
<1> QED BY <1>1, <1>2, <1>3, <1>4, <1>5

(* Slots of one ring's length are different places of it.                   *)
LEMMA Slots ==
    ASSUME NEW h \in Counters
    PROVE  /\ \A i \in Nat : Slot(h, i) \in SqPlaces /\ Slot(Inc(h), i) = Slot(h, i + 1)
           /\ \A i, j \in Nat : i < SqEntries /\ j < SqEntries /\ Slot(h, i) = Slot(h, j)
                                  => i = j
           /\ \A c \in Counters : Slot(h, Dist(h, c)) = c % SqEntries
<1>1. SqEntries \in Nat \ {0} /\ CounterMod % SqEntries = 0
    BY UringAssumption
<1>2. \A i \in Nat : (h + i) % SqEntries \in 0 .. (SqEntries - 1)
    BY <1>1, Places
<1>3. \A i \in Nat : (Inc(h) + i) % SqEntries = (h + i + 1) % SqEntries
    BY <1>1, Places
<1>4. \A i, j \in 0 .. (SqEntries - 1) :
        (h + i) % SqEntries = (h + j) % SqEntries => i = j
    BY <1>1, Places
<1>5. \A c \in Counters : (h + Dist(h, c)) % SqEntries = c % SqEntries
    BY <1>1, Places
<1>6. \A i \in Nat : h + i + 1 = h + (i + 1)
    BY UringAssumption DEF Counters
<1>7. \A i \in Nat : i < SqEntries => i \in 0 .. (SqEntries - 1)
    BY <1>1
<1> QED BY <1>2, <1>3, <1>4, <1>5, <1>6, <1>7 DEF Slot, SqPlaces

(* What a store makes of the images.                                        *)
LEMMA AddedImage ==
    ASSUME NEW H, ImagesOK(H), NEW w \in Words, NEW v \in Nat,
           w \in {SqTail, CqHead} => v \in Counters
    PROVE  LET G == Stored(H, w, v)
           IN  /\ ImagesOK(G) /\ Len(G) = Len(H) + 1 /\ Len(H) \in Nat \ {0}
               /\ \A k \in 1 .. Len(H) : G[k] = H[k]
               /\ Last(G) = G[Len(H) + 1] /\ Last(H) = H[Len(H)]
               /\ Last(G)[w] = v /\ \A x \in Words : x # w => Last(G)[x] = Last(H)[x]
<1> DEFINE N == [Last(H) EXCEPT ![w] = v]
           G == Append(H, N)
           n == Len(H)
<1>1. /\ H \in Seq(Memory) /\ n \in Nat \ {0} /\ Last(H) = H[n] /\ Last(H) \in Memory
      /\ \A k \in 1 .. n : H[k][SqTail] \in Counters /\ H[k][CqHead] \in Counters
    BY DEF ImagesOK, Last
<1>2. N \in Memory /\ N[w] = v /\ \A x \in Words : x # w => N[x] = Last(H)[x]
    BY <1>1 DEF Memory
<1>3. N[SqTail] \in Counters /\ N[CqHead] \in Counters
    BY <1>1, <1>2, DifferentWords
<1> HIDE DEF N
<1>4. /\ G \in Seq(Memory) /\ Len(G) = n + 1 /\ G[n + 1] = N
      /\ \A k \in 1 .. n : G[k] = H[k]
    BY <1>1, <1>2
<1> HIDE DEF G
<1>5. Last(G) = N
    BY <1>4 DEF Last
<1>6. ImagesOK(G)
  <2>1. ASSUME NEW k \in 1 .. Len(G)
        PROVE  G[k][SqTail] \in Counters /\ G[k][CqHead] \in Counters
    <3>1. CASE k \in 1 .. n
        BY <1>1, <1>4, <3>1
    <3>2. CASE k = n + 1
        BY <1>3, <1>4, <3>2
    <3> QED BY <1>1, <1>4, <3>1, <3>2
  <2> QED BY <1>1, <1>4, <2>1 DEF ImagesOK
<1> QED BY <1>1, <1>2, <1>4, <1>5, <1>6 DEF G, N, Stored

(* A later image holds no less than an earlier one, the last one most.      *)
LEMMA LastHoldsMost ==
    ASSUME NEW H, ImagesOK(H), NEW h \in Counters, TailsInOrder(H, h)
    PROVE  /\ Len(H) \in Nat \ {0} /\ Last(H) = H[Len(H)]
           /\ Waiting(Last(H), h) \in Counters /\ Counters \subseteq Nat
           /\ \A k \in 1 .. Len(H) : /\ Waiting(H[k], h) \in Counters
                                     /\ Waiting(H[k], h) <= Waiting(Last(H), h)
<1>1. Len(H) \in Nat \ {0} /\ Last(H) = H[Len(H)]
    BY DEF ImagesOK, Last
<1>2. \A k \in 1 .. Len(H) : Waiting(H[k], h) \in Counters
    BY Counting DEF ImagesOK, Waiting
<1>3. \A k \in 1 .. Len(H) : Waiting(H[k], h) <= Waiting(H[Len(H)], h)
    BY <1>1 DEF TailsInOrder
<1>4. Counters \subseteq Nat
    BY DEF Counters
<1> QED BY <1>1, <1>2, <1>3, <1>4

(* A store that meets neither the tail nor an entry enqueued changes        *)
(* nothing of the queue.                                                    *)
LEMMA StoreAside ==
    ASSUME NEW H, ImagesOK(H), NEW h \in Counters, TailsInOrder(H, h), EntriesFilled(H, h),
           NEW w \in Words, NEW v \in Nat, w = CqHead => v \in Counters, w # SqTail,
           \A i \in Nat : i < Waiting(Last(H), h) =>
             w # Index(Slot(h, i)) /\ w # Sqe(Slot(h, i))
    PROVE  LET G == Stored(H, w, v)
           IN  /\ TailsInOrder(G, h) /\ EntriesFilled(G, h)
               /\ Queued(G, h) = Queued(H, h) /\ Waiting(Last(G), h) = Waiting(Last(H), h)
<1> DEFINE G == Stored(H, w, v)
           n == Len(H)
<1>1. /\ Len(G) = n + 1 /\ n \in Nat \ {0}
      /\ \A k \in 1 .. n : G[k] = H[k]
      /\ Last(G) = G[n + 1] /\ Last(H) = H[n]
      /\ \A x \in Words : x # w => Last(G)[x] = Last(H)[x]
    BY AddedImage
<1> HIDE DEF G
<1>2. Last(G)[SqTail] = Last(H)[SqTail]
    BY <1>1, DifferentWords
<1>3. Waiting(Last(G), h) = Waiting(Last(H), h)
    BY <1>2 DEF Waiting
<1>4. ASSUME NEW i \in Nat, i < Waiting(Last(H), h)
      PROVE  /\ Last(G)[Index(Slot(h, i))] = Last(H)[Index(Slot(h, i))]
             /\ Last(G)[Sqe(Slot(h, i))] = Last(H)[Sqe(Slot(h, i))]
  <2>1. Index(Slot(h, i)) \in Words /\ Sqe(Slot(h, i)) \in Words
      BY Slots, DifferentWords
  <2> QED BY <1>1, <1>4, <2>1
<1>5. \A k \in 1 .. (n + 1) :
        \E j \in 1 .. n : /\ Waiting(G[k], h) = Waiting(H[j], h)
                          /\ k <= n => j = k
                          /\ k = n + 1 => j = n
  <2>1. Waiting(G[n + 1], h) = Waiting(H[n], h)
      BY <1>1, <1>3
  <2> QED BY <1>1, <2>1
<1>6. TailsInOrder(G, h)
  <2> SUFFICES ASSUME NEW j \in 1 .. (n + 1), NEW k \in 1 .. (n + 1), j <= k
               PROVE  Waiting(G[j], h) <= Waiting(G[k], h)
      BY <1>1 DEF TailsInOrder
  <2>1. PICK a \in 1 .. n : /\ Waiting(G[j], h) = Waiting(H[a], h)
                            /\ j <= n => a = j
                            /\ j = n + 1 => a = n
      BY <1>5
  <2>2. PICK b \in 1 .. n : /\ Waiting(G[k], h) = Waiting(H[b], h)
                            /\ k <= n => b = k
                            /\ k = n + 1 => b = n
      BY <1>5
  <2>3. a <= b
      BY <1>1, <2>1, <2>2
  <2> QED BY <2>1, <2>2, <2>3 DEF TailsInOrder
<1>7. EntriesFilled(G, h)
  <2> SUFFICES ASSUME NEW k \in 1 .. (n + 1), NEW i \in Nat, i < Waiting(G[k], h)
               PROVE  /\ G[k][Index(Slot(h, i))] = Slot(h, i)
                      /\ G[k][Sqe(Slot(h, i))] = Last(G)[Sqe(Slot(h, i))]
      BY <1>1 DEF EntriesFilled
  <2>1. CASE k \in 1 .. n
    <3>1. G[k] = H[k] /\ Waiting(H[k], h) <= Waiting(Last(H), h)
        BY <1>1, <2>1, LastHoldsMost
    <3>2. i < Waiting(Last(H), h)
        BY <2>1, <3>1, LastHoldsMost
    <3>3. /\ H[k][Index(Slot(h, i))] = Slot(h, i)
          /\ H[k][Sqe(Slot(h, i))] = Last(H)[Sqe(Slot(h, i))]
        BY <2>1, <3>1 DEF EntriesFilled
    <3> QED BY <1>4, <3>1, <3>2, <3>3
  <2>2. CASE k = n + 1
    <3>1. G[k] = Last(G) /\ i < Waiting(H[n], h) /\ n \in 1 .. n
        BY <1>1, <1>3, <2>2
    <3>2. H[n][Index(Slot(h, i))] = Slot(h, i)
        BY <3>1 DEF EntriesFilled
    <3> QED BY <1>1, <1>4, <3>1, <3>2
  <2> QED BY <1>1, <2>1, <2>2
<1>8. Queued(G, h) = Queued(H, h)
  <2>1. ASSUME NEW i \in 1 .. Waiting(Last(H), h)
        PROVE  Last(G)[Sqe(Slot(h, i - 1))] = Last(H)[Sqe(Slot(h, i - 1))]
    <3>1. i - 1 \in Nat /\ i - 1 < Waiting(Last(H), h)
        BY LastHoldsMost
    <3> QED BY <1>4, <3>1
  <2> QED BY <1>3, <2>1 DEF Queued
<1> QED BY <1>3, <1>6, <1>7, <1>8 DEF G

(* Storing the tail enqueues the entry that was filled.                     *)
LEMMA StoreTheTail ==
    ASSUME NEW H, ImagesOK(H), NEW h \in Counters, TailsInOrder(H, h), EntriesFilled(H, h),
           NEW o, LET t == Last(H)[SqTail]
                  IN  /\ Waiting(Last(H), h) < SqEntries
                      /\ Last(H)[Index(t % SqEntries)] = t % SqEntries
                      /\ Last(H)[Sqe(t % SqEntries)] = o
    PROVE  LET G == Stored(H, SqTail, Inc(Last(H)[SqTail]))
           IN  /\ TailsInOrder(G, h) /\ EntriesFilled(G, h)
               /\ Queued(G, h) = Append(Queued(H, h), o)
<1> DEFINE t == Last(H)[SqTail]
           G == Stored(H, SqTail, Inc(t))
           n == Len(H)
           m == Waiting(Last(H), h)
<1>1. t \in Counters /\ Inc(t) \in Counters /\ Inc(t) \in Nat
  <2>1. t \in Counters
      BY LastHoldsMost DEF ImagesOK
  <2> QED BY <2>1, Counting, LastHoldsMost
<1>2. /\ Len(G) = n + 1 /\ n \in Nat \ {0}
      /\ \A k \in 1 .. n : G[k] = H[k]
      /\ Last(G) = G[n + 1] /\ Last(H) = H[n]
      /\ Last(G)[SqTail] = Inc(t)
      /\ \A x \in Words : x # SqTail => Last(G)[x] = Last(H)[x]
    BY <1>1, DifferentWords, AddedImage
<1> HIDE DEF G
<1>3. m \in Nat /\ m < SqEntries /\ Waiting(Last(G), h) = m + 1 /\ Slot(h, m) = t % SqEntries
  <2>1. m = Dist(h, t) /\ m \in Nat /\ m < SqEntries
      BY LastHoldsMost DEF Waiting
  <2>2. Dist(h, t) + 1 < CounterMod
      BY <2>1, UringAssumption
  <2>3. Dist(h, Inc(t)) = Dist(h, t) + 1
      BY <1>1, <2>2, Counting
  <2>4. Slot(h, Dist(h, t)) = t % SqEntries
      BY <1>1, Slots
  <2> HIDE DEF t
  <2> QED BY <1>2, <2>1, <2>3, <2>4 DEF Waiting
<1>4. ASSUME NEW i \in Nat
      PROVE  /\ Last(G)[Index(Slot(h, i))] = Last(H)[Index(Slot(h, i))]
             /\ Last(G)[Sqe(Slot(h, i))] = Last(H)[Sqe(Slot(h, i))]
  <2>1. /\ Index(Slot(h, i)) \in Words /\ Sqe(Slot(h, i)) \in Words
        /\ Index(Slot(h, i)) # SqTail /\ Sqe(Slot(h, i)) # SqTail
      BY Slots, DifferentWords
  <2> QED BY <1>2, <2>1
<1> HIDE DEF t
<1>5. TailsInOrder(G, h)
  <2> SUFFICES ASSUME NEW j \in 1 .. (n + 1), NEW k \in 1 .. (n + 1), j <= k
               PROVE  Waiting(G[j], h) <= Waiting(G[k], h)
      BY <1>2 DEF TailsInOrder
  <2>1. CASE k \in 1 .. n
    <3>1. j \in 1 .. n
        BY <1>2, <2>1
    <3> QED BY <1>2, <2>1, <3>1 DEF TailsInOrder
  <2>2. CASE k = n + 1 /\ j \in 1 .. n
    <3>1. Waiting(H[j], h) <= m /\ Waiting(H[j], h) \in Nat
        BY <2>2, LastHoldsMost
    <3> HIDE DEF m
    <3> QED BY <1>2, <1>3, <2>2, <3>1
  <2>3. CASE k = n + 1 /\ j = n + 1
      BY <1>2, <1>3, <2>3
  <2> QED BY <1>2, <2>1, <2>2, <2>3
<1>6. EntriesFilled(G, h)
  <2> SUFFICES ASSUME NEW k \in 1 .. (n + 1), NEW i \in Nat, i < Waiting(G[k], h)
               PROVE  /\ G[k][Index(Slot(h, i))] = Slot(h, i)
                      /\ G[k][Sqe(Slot(h, i))] = Last(G)[Sqe(Slot(h, i))]
      BY <1>2 DEF EntriesFilled
  <2>1. CASE k \in 1 .. n
    <3>1. G[k] = H[k]
        BY <1>2, <2>1
    <3>2. /\ H[k][Index(Slot(h, i))] = Slot(h, i)
          /\ H[k][Sqe(Slot(h, i))] = Last(H)[Sqe(Slot(h, i))]
        BY <2>1, <3>1 DEF EntriesFilled
    <3> QED BY <1>4, <3>1, <3>2
  <2>2. CASE k = n + 1 /\ i < m
    <3>1. n \in 1 .. n /\ i < Waiting(H[n], h)
        BY <1>2, <2>2
    <3>2. H[n][Index(Slot(h, i))] = Slot(h, i)
        BY <3>1 DEF EntriesFilled
    <3> QED BY <1>2, <1>4, <2>2, <3>2
  <2>3. CASE k = n + 1 /\ i = m
    <3>1. Last(H)[Index(Slot(h, i))] = Slot(h, i)
        BY <1>3, <2>3 DEF t
    <3> QED BY <1>2, <1>4, <2>3, <3>1
  <2>4. k = n + 1 => i < m + 1
      BY <1>2, <1>3
  <2> HIDE DEF m
  <2> QED BY <1>2, <1>3, <2>1, <2>2, <2>3, <2>4
<1>7. Queued(G, h) = Append(Queued(H, h), o)
  <2> DEFINE f(i) == Last(H)[Sqe(Slot(h, i - 1))]
             q == [i \in 1 .. m |-> f(i)]
  <2>1. Queued(H, h) = q
      BY DEF Queued
  <2>2. \A i \in 1 .. (m + 1) : Last(G)[Sqe(Slot(h, i - 1))] = f(i)
    <3>1. \A i \in 1 .. (m + 1) : i - 1 \in Nat
        BY <1>3
    <3> QED BY <1>4, <3>1
  <2>3. Queued(G, h) = [i \in 1 .. (m + 1) |-> f(i)]
      BY <1>3, <2>2 DEF Queued
  <2>4. f(m + 1) = o
    <3>1. (m + 1) - 1 = m
        BY <1>3
    <3> QED BY <1>3, <3>1 DEF t
  <2> HIDE DEF f, m
  <2>5. Append(q, o) = [i \in 1 .. (m + 1) |-> f(i)]
    <3> DEFINE S == {f(i) : i \in 1 .. (m + 1)}
               r == [i \in 1 .. (m + 1) |-> f(i)]
    <3>1. q \in [1 .. m -> S] /\ r \in [1 .. (m + 1) -> S] /\ o \in S /\ m + 1 \in Nat
        BY <1>3, <2>4
    <3>2. \A i \in 1 .. m : q[i] = f(i)
        OBVIOUS
    <3>3. \A i \in 1 .. (m + 1) : r[i] = f(i)
        OBVIOUS
    <3> HIDE DEF S, q, r
    <3>4. q \in Seq(S) /\ Len(q) = m /\ r \in Seq(S) /\ Len(r) = m + 1
        BY <1>3, <3>1
    <3>5. /\ Append(q, o) \in Seq(S) /\ Len(Append(q, o)) = m + 1
          /\ \A i \in 1 .. m : Append(q, o)[i] = q[i]
          /\ Append(q, o)[m + 1] = o
        BY <3>1, <3>4
    <3>6. \A i \in 1 .. (m + 1) : Append(q, o)[i] = r[i]
        BY <1>3, <2>4, <3>2, <3>3, <3>5
    <3>7. Append(q, o) = r
        BY <3>4, <3>5, <3>6, SeqEqual
    <3> QED BY <3>7 DEF r
  <2> QED BY <2>1, <2>3, <2>5
<1> QED BY <1>5, <1>6, <1>7 DEF G, t

(* That a store becomes visible changes nothing of the queue.               *)
LEMMA DropImage ==
    ASSUME NEW H, ImagesOK(H), Len(H) > 1, NEW h \in Counters,
           TailsInOrder(H, h), EntriesFilled(H, h)
    PROVE  LET G == Tail(H)
           IN  /\ ImagesOK(G) /\ Last(G) = Last(H)
               /\ Len(G) = Len(H) - 1 /\ \A k \in 1 .. Len(G) : G[k] = H[k + 1]
               /\ TailsInOrder(G, h) /\ EntriesFilled(G, h)
               /\ Queued(G, h) = Queued(H, h)
<1> DEFINE G == Tail(H)
           n == Len(G)
<1>1. /\ H \in Seq(Memory) /\ G \in Seq(Memory) /\ Len(H) \in Nat
      /\ n = Len(H) - 1 /\ n \in Nat \ {0}
      /\ \A k \in 1 .. n : k + 1 \in 1 .. Len(H) /\ G[k] = H[k + 1]
    BY DEF ImagesOK
<1> HIDE DEF G
<1>2. Last(G) = Last(H)
    BY <1>1 DEF Last
<1>3. ImagesOK(G)
    BY <1>1 DEF ImagesOK
<1>4. TailsInOrder(G, h)
  <2> SUFFICES ASSUME NEW j \in 1 .. n, NEW k \in 1 .. n, j <= k
               PROVE  Waiting(G[j], h) <= Waiting(G[k], h)
      BY DEF TailsInOrder
  <2>1. j + 1 <= k + 1
      BY <1>1
  <2> QED BY <1>1, <2>1 DEF TailsInOrder
<1>5. EntriesFilled(G, h)
  <2> SUFFICES ASSUME NEW k \in 1 .. n, NEW i \in Nat, i < Waiting(G[k], h)
               PROVE  /\ G[k][Index(Slot(h, i))] = Slot(h, i)
                      /\ G[k][Sqe(Slot(h, i))] = Last(G)[Sqe(Slot(h, i))]
      BY DEF EntriesFilled
  <2>1. k + 1 \in 1 .. Len(H) /\ G[k] = H[k + 1]
      BY <1>1
  <2> QED BY <1>2, <2>1 DEF EntriesFilled
<1>6. Queued(G, h) = Queued(H, h)
    BY <1>2 DEF Queued
<1> QED BY <1>1, <1>2, <1>3, <1>4, <1>5, <1>6 DEF G

(* What the kernel finds at its head is the oldest entry enqueued.          *)
LEMMA TakeOldest ==
    ASSUME NEW H, ImagesOK(H), NEW h \in Counters, TailsInOrder(H, h), EntriesFilled(H, h),
           h # H[1][SqTail]
    PROVE  /\ Queued(H, h) # <<>>
           /\ H[1][Sqe(H[1][Index(h % SqEntries)])] = Head(Queued(H, h))
           /\ TailsInOrder(H, Inc(h)) /\ EntriesFilled(H, Inc(h))
           /\ Queued(H, Inc(h)) = Tail(Queued(H, h))
           /\ Waiting(Last(H), h) \in Nat
           /\ Waiting(Last(H), Inc(h)) = Waiting(Last(H), h) - 1
<1> DEFINE n == Len(H)
           m == Waiting(Last(H), h)
<1>1. n \in Nat \ {0} /\ m \in Nat /\ Inc(h) \in Counters /\ Last(H) = H[n]
    BY LastHoldsMost, Counting
<1>2. \A k \in 1 .. n : /\ Waiting(H[k], h) \in Nat /\ Waiting(H[k], h) > 0
                        /\ Waiting(H[k], Inc(h)) = Waiting(H[k], h) - 1
  <2> TAKE k \in 1 .. n
  <2>1. H[1][SqTail] \in Counters /\ H[k][SqTail] \in Counters
      BY <1>1 DEF ImagesOK
  <2>2. Waiting(H[1], h) # 0
      BY <2>1, Counting DEF Waiting
  <2>3. Waiting(H[1], h) <= Waiting(H[k], h)
      BY <1>1 DEF TailsInOrder
  <2>4. Waiting(H[1], h) \in Nat /\ Waiting(H[k], h) \in Nat
      BY <1>1, LastHoldsMost
  <2>5. Waiting(H[k], h) > 0
      BY <2>2, <2>3, <2>4
  <2>6. Waiting(H[k], Inc(h)) = Waiting(H[k], h) - 1
      BY <2>1, <2>5, Counting DEF Waiting
  <2> QED BY <2>4, <2>5, <2>6
<1>3. m > 0 /\ Waiting(Last(H), Inc(h)) = m - 1
    BY <1>1, <1>2
<1> HIDE DEF m
<1>4. H[1][Sqe(H[1][Index(h % SqEntries)])] = Last(H)[Sqe(Slot(h, 0))]
  <2>1. Slot(h, 0) = h % SqEntries
    <3>1. h + 0 = h
        BY LastHoldsMost
    <3> QED BY <3>1 DEF Slot
  <2>2. /\ H[1][Index(Slot(h, 0))] = Slot(h, 0)
        /\ H[1][Sqe(Slot(h, 0))] = Last(H)[Sqe(Slot(h, 0))]
      BY <1>1, <1>2 DEF EntriesFilled
  <2> QED BY <2>1, <2>2
<1>5. TailsInOrder(H, Inc(h))
  <2> SUFFICES ASSUME NEW j \in 1 .. n, NEW k \in 1 .. n, j <= k
               PROVE  Waiting(H[j], Inc(h)) <= Waiting(H[k], Inc(h))
      BY DEF TailsInOrder
  <2>1. Waiting(H[j], h) <= Waiting(H[k], h)
      BY DEF TailsInOrder
  <2> QED BY <1>2, <2>1
<1>6. EntriesFilled(H, Inc(h))
  <2> SUFFICES ASSUME NEW k \in 1 .. n, NEW i \in Nat, i < Waiting(H[k], Inc(h))
               PROVE  /\ H[k][Index(Slot(Inc(h), i))] = Slot(Inc(h), i)
                      /\ H[k][Sqe(Slot(Inc(h), i))] = Last(H)[Sqe(Slot(Inc(h), i))]
      BY DEF EntriesFilled
  <2>1. i + 1 \in Nat /\ i + 1 < Waiting(H[k], h)
      BY <1>2
  <2>2. Slot(Inc(h), i) = Slot(h, i + 1)
      BY Slots
  <2> QED BY <2>1, <2>2 DEF EntriesFilled
<1>7. Queued(H, h) # <<>> /\ Head(Queued(H, h)) = Last(H)[Sqe(Slot(h, 0))]
      /\ Queued(H, Inc(h)) = Tail(Queued(H, h))
  <2> DEFINE f(i) == Last(H)[Sqe(Slot(h, i))]
             S == {f(i) : i \in Nat}
             q == Queued(H, h)
             r == Queued(H, Inc(h))
  <2>1. q \in [1 .. m -> S] /\ \A i \in 1 .. m : q[i] = f(i - 1)
      BY <1>1 DEF Queued, m
  <2>2. r \in [1 .. (m - 1) -> S] /\ \A i \in 1 .. (m - 1) : r[i] = f(i)
    <3>1. \A i \in 1 .. (m - 1) : i - 1 \in Nat /\ (i - 1) + 1 = i
        BY <1>1
    <3>2. \A i \in 1 .. (m - 1) : Slot(Inc(h), i - 1) = Slot(h, i)
        BY <3>1, Slots
    <3>3. r = [i \in 1 .. (m - 1) |-> Last(H)[Sqe(Slot(Inc(h), i - 1))]]
        BY <1>3 DEF Queued
    <3>4. \A i \in 1 .. (m - 1) : i \in Nat
        BY <1>1
    <3> QED BY <3>2, <3>3, <3>4
  <2> HIDE DEF f, S, q, r
  <2>3. q \in Seq(S) /\ Len(q) = m /\ r \in Seq(S) /\ Len(r) = m - 1
      BY <1>1, <1>3, <2>1, <2>2
  <2>4. q # <<>> /\ Head(q) = f(0)
      BY <1>1, <1>3, <2>1, <2>3
  <2>5. /\ Tail(q) \in Seq(S) /\ Len(Tail(q)) = m - 1
        /\ \A i \in 1 .. (m - 1) : Tail(q)[i] = q[i + 1]
      BY <1>1, <1>3, <2>3
  <2>6. \A i \in 1 .. (m - 1) : q[i + 1] = f(i)
    <3>1. \A i \in 1 .. (m - 1) : i + 1 \in 1 .. m /\ (i + 1) - 1 = i
        BY <1>1
    <3> QED BY <2>1, <3>1
  <2>7. r = Tail(q)
    <3> DEFINE T == Tail(q)
    <3>1. T \in Seq(S) /\ Len(T) = m - 1 /\ \A i \in 1 .. (m - 1) : T[i] = r[i]
        BY <2>2, <2>5, <2>6
    <3> HIDE DEF T
    <3>2. T = r
        BY <2>3, <3>1, SeqEqual
    <3> QED BY <3>2 DEF T
  <2> QED BY <2>4, <2>7 DEF f, q, r
<1> QED BY <1>1, <1>3, <1>4, <1>5, <1>6, <1>7 DEF m

-----------------------------------------------------------------------------
(* The completion ring c, from head h to tail t.                            *)
Completion == Entries \X BOOLEAN
CqPlaces   == 0 .. (CqEntries - 1)
CqSlot(h, i) == (h + i) % CqEntries

Posted(h, t, c) == [i \in 1 .. Dist(h, t) |-> c[CqSlot(h, i - 1)]]

(* Slots of one ring's length are different places of it.                   *)
LEMMA CqSlots ==
    ASSUME NEW h \in Counters
    PROVE  /\ \A i \in Nat : CqSlot(h, i) \in CqPlaces /\ CqSlot(Inc(h), i) = CqSlot(h, i + 1)
           /\ \A i, j \in Nat :
                i < CqEntries /\ j < CqEntries /\ CqSlot(h, i) = CqSlot(h, j) => i = j
           /\ \A c \in Counters : CqSlot(h, Dist(h, c)) = c % CqEntries
           /\ \A i \in Nat : CqSlot(h, i % CqEntries) = CqSlot(h, i)
<1>1. CqEntries \in Nat \ {0} /\ CounterMod % CqEntries = 0
    BY UringAssumption
<1>2. \A i \in Nat : (h + i) % CqEntries \in 0 .. (CqEntries - 1)
    BY <1>1, Places
<1>3. \A i \in Nat : (Inc(h) + i) % CqEntries = (h + i + 1) % CqEntries
    BY <1>1, Places
<1>4. \A i, j \in 0 .. (CqEntries - 1) :
        (h + i) % CqEntries = (h + j) % CqEntries => i = j
    BY <1>1, Places
<1>5. \A c \in Counters : (h + Dist(h, c)) % CqEntries = c % CqEntries
    BY <1>1, Places
<1>6. \A i \in Nat : (h + (i % CqEntries)) % CqEntries = (h + i) % CqEntries
    BY <1>1, Places
<1>7. \A i \in Nat : h + i + 1 = h + (i + 1)
    BY UringAssumption DEF Counters
<1>8. \A i \in Nat : i < CqEntries => i \in 0 .. (CqEntries - 1)
    BY <1>1
<1>9. \A i \in Nat : CqSlot(h, i) \in CqPlaces /\ CqSlot(Inc(h), i) = CqSlot(h, i + 1)
    BY <1>2, <1>3, <1>7 DEF CqSlot, CqPlaces
<1>10. \A i, j \in Nat :
         i < CqEntries /\ j < CqEntries /\ CqSlot(h, i) = CqSlot(h, j) => i = j
    BY <1>4, <1>8 DEF CqSlot
<1>11. \A c \in Counters : CqSlot(h, Dist(h, c)) = c % CqEntries
    BY <1>5 DEF CqSlot
<1>12. \A i \in Nat : CqSlot(h, i % CqEntries) = CqSlot(h, i)
    BY <1>6 DEF CqSlot
<1> QED BY <1>9, <1>10, <1>11, <1>12

(* What has been posted is a sequence of completions.                       *)
LEMMA PostedType ==
    ASSUME NEW h \in Counters, NEW t \in Counters, NEW c \in [CqPlaces -> Completion]
    PROVE  /\ Posted(h, t, c) \in Seq(Completion)
           /\ Dist(h, t) \in Nat /\ Len(Posted(h, t, c)) = Dist(h, t)
           /\ \A i \in 1 .. Dist(h, t) : Posted(h, t, c)[i] = c[CqSlot(h, i - 1)]
<1>1. Dist(h, t) \in Nat
    BY Counting DEF Counters
<1>2. \A i \in 1 .. Dist(h, t) : i - 1 \in Nat
    BY <1>1
<1>3. \A i \in 1 .. Dist(h, t) : c[CqSlot(h, i - 1)] \in Completion
    BY <1>2, CqSlots
<1>4. /\ Posted(h, t, c) \in [1 .. Dist(h, t) -> Completion]
      /\ \A i \in 1 .. Dist(h, t) : Posted(h, t, c)[i] = c[CqSlot(h, i - 1)]
    BY <1>3 DEF Posted
<1>5. Posted(h, t, c) \in Seq(Completion) /\ Len(Posted(h, t, c)) = Dist(h, t)
    BY <1>1, <1>4
<1> QED BY <1>1, <1>4, <1>5

(* The ring with a completion posted at its tail.                           *)
Placed(t, c, e) == [c EXCEPT ![t % CqEntries] = e]

(* A completion posted where there is room is the last one,                 *)
LEMMA PostOne ==
    ASSUME NEW h \in Counters, NEW t \in Counters, NEW c \in [CqPlaces -> Completion],
           NEW e \in Completion, Dist(h, t) < CqEntries
    PROVE  /\ Placed(t, c, e) \in [CqPlaces -> Completion] /\ Inc(t) \in Counters
           /\ Dist(h, Inc(t)) = Dist(h, t) + 1
           /\ Posted(h, Inc(t), Placed(t, c, e)) = Append(Posted(h, t, c), e)
<1> DEFINE d == Placed(t, c, e)
           n == Dist(h, t)
           p == Posted(h, t, c)
           q == Posted(h, Inc(t), d)
<1>1. Inc(t) \in Counters /\ n \in Nat /\ n < CqEntries /\ Dist(h, Inc(t)) = n + 1
  <2>1. n \in Nat /\ n < CqEntries /\ CqEntries < CounterMod
      BY UringAssumption, Counting DEF Counters
  <2>2. n + 1 < CounterMod
      BY <2>1, UringAssumption
  <2>3. Inc(t) \in Counters /\ Dist(h, Inc(t)) = n + 1
      BY <2>2, Counting
  <2> QED BY <2>1, <2>3
<1>2. t % CqEntries = CqSlot(h, n) /\ t % CqEntries \in CqPlaces
    BY <1>1, CqSlots
<1>3. /\ d \in [CqPlaces -> Completion] /\ d[t % CqEntries] = e
      /\ \A s \in CqPlaces : s # t % CqEntries => d[s] = c[s]
    BY <1>2 DEF Placed
<1> HIDE DEF d
<1>4. /\ p \in Seq(Completion) /\ Len(p) = n
      /\ \A i \in 1 .. n : p[i] = c[CqSlot(h, i - 1)]
    BY PostedType
<1>5. /\ q \in Seq(Completion) /\ Len(q) = n + 1
      /\ \A i \in 1 .. (n + 1) : q[i] = d[CqSlot(h, i - 1)]
    BY <1>1, <1>3, PostedType, SMTT(30)
<1> HIDE DEF n, p, q
<1>6. \A i \in 1 .. n : q[i] = p[i]
  <2> TAKE i \in 1 .. n
  <2>1. i - 1 \in Nat /\ i - 1 < CqEntries /\ i - 1 # n /\ i \in 1 .. (n + 1)
      BY <1>1, UringAssumption
  <2>2. CqSlot(h, i - 1) \in CqPlaces /\ CqSlot(h, i - 1) # CqSlot(h, n)
      BY <1>1, <2>1, CqSlots
  <2> QED BY <1>2, <1>3, <1>4, <1>5, <2>1, <2>2
<1>7. q[n + 1] = e
  <2>1. (n + 1) - 1 = n /\ n + 1 \in 1 .. (n + 1)
      BY <1>1
  <2> QED BY <1>2, <1>3, <1>5, <2>1
<1>8. q = Append(p, e)
  <2> DEFINE r == Append(p, e)
  <2>1. /\ r \in Seq(Completion) /\ Len(r) = n + 1 /\ r[n + 1] = e
        /\ \A i \in 1 .. n : r[i] = p[i]
      BY <1>4
  <2> HIDE DEF r
  <2>2. \A i \in 1 .. (n + 1) : q[i] = r[i]
      BY <1>1, <1>6, <1>7, <2>1
  <2>3. q = r
      BY <1>5, <2>1, <2>2, SeqEqual
  <2> QED BY <2>3 DEF r
<1> QED BY <1>1, <1>3, <1>8 DEF d, n, p, q

(* and the one at the head the first.                                       *)
LEMMA HandleOne ==
    ASSUME NEW h \in Counters, NEW t \in Counters, NEW c \in [CqPlaces -> Completion], h # t
    PROVE  /\ Posted(h, t, c) # <<>> /\ Head(Posted(h, t, c)) = c[h % CqEntries]
           /\ Posted(Inc(h), t, c) = Tail(Posted(h, t, c))
           /\ Dist(h, t) > 0 /\ Dist(Inc(h), t) = Dist(h, t) - 1
<1> DEFINE n == Dist(h, t)
           p == Posted(h, t, c)
           q == Posted(Inc(h), t, c)
<1>1. n \in Nat /\ n > 0 /\ Inc(h) \in Counters /\ Dist(Inc(h), t) = n - 1
  <2>1. n \in Nat /\ n # 0
      BY Counting DEF Counters
  <2>2. n > 0
      BY <2>1
  <2> QED BY <2>1, <2>2, Counting
<1>2. /\ p \in Seq(Completion) /\ Len(p) = n
      /\ \A i \in 1 .. n : p[i] = c[CqSlot(h, i - 1)]
    BY PostedType
<1>3. /\ q \in Seq(Completion) /\ Len(q) = n - 1
      /\ \A i \in 1 .. (n - 1) : q[i] = c[CqSlot(Inc(h), i - 1)]
    BY <1>1, PostedType, SMTT(30)
<1> HIDE DEF n, p, q
<1>4. p # <<>> /\ Head(p) = c[h % CqEntries]
  <2>1. h + 0 = h /\ 1 - 1 = 0 /\ 1 \in 1 .. n
      BY <1>1 DEF Counters
  <2>2. CqSlot(h, 0) = h % CqEntries
      BY <2>1 DEF CqSlot
  <2>3. p[1] = c[CqSlot(h, 0)]
      BY <1>2, <2>1
  <2> QED BY <1>1, <1>2, <2>2, <2>3
<1>5. \A i \in 1 .. (n - 1) : q[i] = p[i + 1]
  <2> TAKE i \in 1 .. (n - 1)
  <2>1. i - 1 \in Nat /\ (i - 1) + 1 = i /\ i + 1 \in 1 .. n /\ (i + 1) - 1 = i
      BY <1>1
  <2>2. CqSlot(Inc(h), i - 1) = CqSlot(h, i)
      BY <2>1, CqSlots
  <2>3. p[i + 1] = c[CqSlot(h, i)]
      BY <1>2, <2>1
  <2> QED BY <1>3, <2>2, <2>3
<1>6. q = Tail(p)
  <2> DEFINE r == Tail(p)
  <2>1. /\ r \in Seq(Completion) /\ Len(r) = n - 1
        /\ \A i \in 1 .. (n - 1) : r[i] = p[i + 1]
      BY <1>1, <1>2
  <2> HIDE DEF r
  <2>2. q = r
      BY <1>3, <1>5, <2>1, SeqEqual
  <2> QED BY <2>2 DEF r
<1> QED BY <1>1, <1>4, <1>6 DEF n, p, q

(* The tail behind n more completions, and the ring with the first n of     *)
(* those that found no room.                                                *)
Behind(t, n) == (t + n) % CounterMod
Flushed(t, n, c, w) ==
    [i \in CqPlaces |-> LET s == Dist(t, i) % CqEntries
                        IN  IF s < n THEN w[s + 1] ELSE c[i]]

(* Completions that found no room go into the empty ring as the first ones, *)
(* in their order.                                                          *)
LEMMA FlushBacklog ==
    ASSUME NEW t \in Counters, NEW c \in [CqPlaces -> Completion],
           NEW w \in Seq(Completion), NEW n \in Nat, n <= CqEntries, n <= Len(w)
    PROVE  /\ Behind(t, n) \in Counters /\ Dist(t, Behind(t, n)) = n
           /\ Flushed(t, n, c, w) \in [CqPlaces -> Completion]
           /\ SubSeq(w, n + 1, Len(w)) \in Seq(Completion)
           /\ Posted(t, Behind(t, n), Flushed(t, n, c, w))
              \o SubSeq(w, n + 1, Len(w)) = w
<1> DEFINE u == Behind(t, n)
           place(i) == Dist(t, i) % CqEntries
           d == Flushed(t, n, c, w)
           r == SubSeq(w, n + 1, Len(w))
           p == Posted(t, u, d)
<1>1. /\ CounterMod \in Nat /\ CqEntries \in Nat \ {0} /\ CqEntries < CounterMod
      /\ t \in Nat /\ t < CounterMod /\ n < CounterMod
    BY UringAssumption DEF Counters
<1>2. u \in Counters /\ Dist(t, u) = n
  <2>1. u = IF t + n < CounterMod THEN t + n ELSE t + n - CounterMod
      BY <1>1 DEF Behind
  <2>2. u \in Counters
      BY <1>1, <2>1 DEF Counters
  <2>3. u - t = n \/ (u - t = n - CounterMod /\ u < t)
      BY <1>1, <2>1
  <2> HIDE DEF u
  <2>4. Dist(t, u) = n
      BY <1>1, <2>2, <2>3 DEF Dist, Counters
  <2> QED BY <2>2, <2>4
<1> HIDE DEF u
<1>3. ASSUME NEW i \in CqPlaces
      PROVE  place(i) \in Nat /\ place(i) < CqEntries /\ CqSlot(t, place(i)) = i
  <2>1. i \in Counters /\ i % CqEntries = i
      BY <1>1 DEF CqPlaces, Counters
  <2>2. Dist(t, i) \in Nat
      BY <2>1, Counting DEF Counters
  <2>3. place(i) \in 0 .. (CqEntries - 1)
    <3> DEFINE x == Dist(t, i)
    <3>1. x \in Int
        BY <2>2
    <3> HIDE DEF x
    <3>2. x % CqEntries \in 0 .. (CqEntries - 1)
        BY <1>1, <3>1, Division
    <3> QED BY <3>2 DEF x
  <2>4. CqSlot(t, Dist(t, i)) = i % CqEntries
      BY <2>1, CqSlots
  <2>5. CqSlot(t, place(i)) = CqSlot(t, Dist(t, i))
      BY <2>2, CqSlots
  <2>6. place(i) \in Nat /\ place(i) < CqEntries
      BY <1>1, <2>3
  <2> HIDE DEF place
  <2> QED BY <2>1, <2>4, <2>5, <2>6
<1>4. \A i \in CqPlaces : d[i] = IF place(i) < n THEN w[place(i) + 1] ELSE c[i]
    BY DEF Flushed
<1>5. d \in [CqPlaces -> Completion]
  <2>1. \A i \in CqPlaces : place(i) < n => place(i) + 1 \in 1 .. Len(w)
      BY <1>1, <1>3
  <2> HIDE DEF place
  <2>2. \A i \in CqPlaces : d[i] \in Completion
      BY <1>4, <2>1
  <2> QED BY <2>2 DEF Flushed
<1> HIDE DEF d, place
<1>6. /\ p \in Seq(Completion) /\ Len(p) = n
      /\ \A i \in 1 .. n : p[i] = d[CqSlot(t, i - 1)]
    BY <1>2, <1>5, PostedType
<1> HIDE DEF p
<1>7. \A i \in 1 .. n : p[i] = w[i]
  <2> TAKE i \in 1 .. n
  <2> DEFINE s == CqSlot(t, i - 1)
  <2>1. i - 1 \in Nat /\ i - 1 < CqEntries /\ i - 1 < n /\ (i - 1) + 1 = i
      BY <1>1
  <2>2. s \in CqPlaces
      BY <2>1, CqSlots
  <2>3. place(s) \in Nat /\ place(s) < CqEntries /\ CqSlot(t, place(s)) = CqSlot(t, i - 1)
      BY <1>3, <2>2
  <2> HIDE DEF s
  <2>4. place(s) = i - 1
      BY <2>1, <2>3, CqSlots
  <2>5. p[i] = d[s]
      BY <1>6 DEF s
  <2> QED BY <1>4, <2>1, <2>2, <2>4, <2>5
<1>8. /\ r \in Seq(Completion) /\ Len(r) = Len(w) - n /\ Len(w) \in Nat
      /\ \A i \in 1 .. (Len(w) - n) : r[i] = w[n + i]
  <2>1. n + 1 \in 1 .. (Len(w) + 1) /\ Len(w) \in n .. Len(w) /\ Len(w) \in Nat
      OBVIOUS
  <2>2. /\ r \in Seq(Completion)
        /\ Len(r) = IF n + 1 <= Len(w) THEN Len(w) - (n + 1) + 1 ELSE 0
        /\ \A i \in 1 .. Len(w) - (n + 1) + 1 : r[i] = w[n + 1 + i - 1]
      BY <2>1, SubSeqProperties
  <2> HIDE DEF r
  <2>3. Len(r) = Len(w) - n
      BY <2>1, <2>2
  <2>4. ASSUME NEW i \in 1 .. (Len(w) - n)
        PROVE  r[i] = w[n + i]
    <3>1. i \in 1 .. Len(w) - (n + 1) + 1 /\ n + 1 + i - 1 = n + i
        BY <2>1
    <3> QED BY <2>2, <3>1
  <2> QED BY <2>1, <2>2, <2>3, <2>4
<1> HIDE DEF r
<1>9. p \o r = w
  <2> DEFINE q == p \o r
  <2>1. /\ q \in Seq(Completion) /\ Len(q) = Len(w)
        /\ \A i \in 1 .. Len(w) : q[i] = IF i <= n THEN p[i] ELSE r[i - n]
      BY <1>6, <1>8
  <2>2. \A i \in 1 .. Len(w) : ~(i <= n) => i - n \in 1 .. (Len(w) - n) /\ n + (i - n) = i
      BY <1>8
  <2>3. \A i \in 1 .. Len(w) : i <= n => i \in 1 .. n
      BY <1>8
  <2> HIDE DEF q
  <2>4. \A i \in 1 .. Len(w) : q[i] = w[i]
    <3> TAKE i \in 1 .. Len(w)
    <3>1. CASE i <= n
        BY <1>7, <2>1, <2>3, <3>1
    <3>2. CASE ~(i <= n)
      <4>1. r[i - n] = w[n + (i - n)]
          BY <1>8, <2>2, <3>2
      <4> QED BY <2>1, <2>2, <3>2, <4>1
    <3> QED BY <3>1, <3>2
  <2>5. q = w
      BY <2>1, <2>4, SeqEqual
  <2> QED BY <2>5 DEF q
<1> QED BY <1>2, <1>5, <1>8, <1>9 DEF u, d, r, p

-----------------------------------------------------------------------------
(* The queues.  An owner is idle, or has one operation enqueued, or one the *)
(* kernel works on, or one last completion to be handled, never two of      *)
(* these.                                                                   *)
Apart(q, taken, c, free) ==
    /\ q \in Seq(Owners) /\ c \in Seq(Owners \X BOOLEAN)
    /\ taken \subseteq Owners /\ free \subseteq Owners /\ taken \cap free = {}
    /\ \A i \in 1 .. Len(q) : q[i] \notin taken \cup free
    /\ \A i, j \in 1 .. Len(q) : q[i] = q[j] => i = j
    /\ \A i \in 1 .. Len(c) : ~c[i][2] =>
         /\ c[i][1] \notin taken \cup free
         /\ \A j \in 1 .. Len(q) : q[j] # c[i][1]
    /\ \A i, j \in 1 .. Len(c) : ~c[i][2] /\ ~c[j][2] /\ c[i][1] = c[j][1] => i = j

(* Each step of the queues keeps the owners apart: an operation enqueued,   *)
LEMMA ApartEnqueue ==
    ASSUME NEW q, NEW taken, NEW c, NEW free, Apart(q, taken, c, free), NEW o \in free
    PROVE  Apart(Append(q, o), taken, c, free \ {o})
<1> DEFINE r == Append(q, o)
           n == Len(q)
<1>1. q \in Seq(Owners) /\ o \in Owners /\ o \notin taken
    BY DEF Apart
<1>2. /\ r \in Seq(Owners) /\ Len(r) = n + 1 /\ n \in Nat
      /\ r[n + 1] = o /\ \A i \in 1 .. n : r[i] = q[i]
    BY <1>1
<1> HIDE DEF r
<1>3. \A i \in 1 .. (n + 1) : (i \in 1 .. n /\ r[i] = q[i]) \/ (i = n + 1 /\ r[i] = o)
    BY <1>2
<1>4. \A i \in 1 .. n : q[i] \notin taken \cup free
    BY DEF Apart
<1>5. \A i \in 1 .. (n + 1) : r[i] \notin taken \cup (free \ {o})
    BY <1>1, <1>3, <1>4
<1>6. \A i, j \in 1 .. (n + 1) : r[i] = r[j] => i = j
  <2>1. \A i, j \in 1 .. n : q[i] = q[j] => i = j
      BY DEF Apart
  <2> QED BY <1>3, <1>4, <2>1
<1>7. \A i \in 1 .. Len(c) : ~c[i][2] =>
        /\ c[i][1] \notin taken \cup (free \ {o})
        /\ \A j \in 1 .. (n + 1) : r[j] # c[i][1]
  <2>1. \A i \in 1 .. Len(c) : ~c[i][2] =>
          /\ c[i][1] \notin taken \cup free
          /\ \A j \in 1 .. n : q[j] # c[i][1]
      BY DEF Apart
  <2> QED BY <1>3, <2>1
<1>8. Apart(r, taken, c, free \ {o})
    BY <1>2, <1>5, <1>6, <1>7 DEF Apart
<1> QED BY <1>8 DEF r

(* taken,                                                                   *)
LEMMA ApartTake ==
    ASSUME NEW q, NEW taken, NEW c, NEW free, Apart(q, taken, c, free), q # <<>>
    PROVE  Head(q) \in Owners /\ Apart(Tail(q), taken \cup {Head(q)}, c, free)
<1> DEFINE r == Tail(q)
           n == Len(r)
           o == Head(q)
<1>1. q \in Seq(Owners)
    BY DEF Apart
<1>2. /\ r \in Seq(Owners) /\ Len(q) = n + 1 /\ n \in Nat /\ o = q[1] /\ o \in Owners
      /\ \A i \in 1 .. n : r[i] = q[i + 1]
    BY <1>1
<1> HIDE DEF r, o
<1>3. 1 \in 1 .. Len(q) /\ \A i \in 1 .. n : i + 1 \in 1 .. Len(q) /\ i + 1 # 1
    BY <1>2
<1>4. \A i \in 1 .. Len(q) : q[i] \notin taken \cup free
    BY DEF Apart
<1>5. \A i, j \in 1 .. Len(q) : q[i] = q[j] => i = j
    BY DEF Apart
<1>6. \A i \in 1 .. n : r[i] \notin (taken \cup {o}) \cup free
    BY <1>2, <1>3, <1>4, <1>5
<1>7. \A i, j \in 1 .. n : r[i] = r[j] => i = j
  <2>1. \A i, j \in 1 .. n : r[i] = r[j] => i + 1 = j + 1
      BY <1>2, <1>3, <1>5
  <2> QED BY <1>2, <2>1
<1>8. \A i \in 1 .. Len(c) : ~c[i][2] =>
        /\ c[i][1] \notin (taken \cup {o}) \cup free
        /\ \A j \in 1 .. n : r[j] # c[i][1]
  <2>1. \A i \in 1 .. Len(c) : ~c[i][2] =>
          /\ c[i][1] \notin taken \cup free
          /\ \A j \in 1 .. Len(q) : q[j] # c[i][1]
      BY DEF Apart
  <2> QED BY <1>2, <1>3, <2>1
<1>9. taken \cup {o} \subseteq Owners /\ (taken \cup {o}) \cap free = {}
    BY <1>2, <1>3, <1>4 DEF Apart
<1>10. Apart(r, taken \cup {o}, c, free)
    BY <1>2, <1>6, <1>7, <1>8, <1>9 DEF Apart
<1> QED BY <1>2, <1>10 DEF r, o

(* completed,                                                               *)
LEMMA ApartComplete ==
    ASSUME NEW q, NEW taken, NEW c, NEW free, Apart(q, taken, c, free),
           NEW o \in taken, NEW more \in BOOLEAN
    PROVE  Apart(q, IF more THEN taken ELSE taken \ {o}, Append(c, <<o, more>>), free)
<1> DEFINE r == Append(c, <<o, more>>)
           n == Len(c)
           now == IF more THEN taken ELSE taken \ {o}
<1>1. c \in Seq(Owners \X BOOLEAN) /\ o \in Owners /\ o \notin free /\ now \subseteq taken
    BY DEF Apart
<1>2. /\ r \in Seq(Owners \X BOOLEAN) /\ Len(r) = n + 1 /\ n \in Nat
      /\ r[n + 1] = <<o, more>> /\ \A i \in 1 .. n : r[i] = c[i]
    BY <1>1
<1>3. more \/ o \notin now
    OBVIOUS
<1> HIDE DEF r, now
<1>4. \A i \in 1 .. (n + 1) :
        \/ i \in 1 .. n /\ r[i] = c[i]
        \/ i = n + 1 /\ r[i][1] = o /\ (~r[i][2] => o \notin now)
    BY <1>2, <1>3
<1>5. \A i \in 1 .. Len(q) : q[i] \notin taken \cup free
    BY DEF Apart
<1>6. \A i \in 1 .. n : ~c[i][2] =>
        /\ c[i][1] \notin taken \cup free
        /\ \A j \in 1 .. Len(q) : q[j] # c[i][1]
    BY DEF Apart
<1>7. \A i \in 1 .. (n + 1) : ~r[i][2] =>
        /\ r[i][1] \notin now \cup free
        /\ \A j \in 1 .. Len(q) : q[j] # r[i][1]
    BY <1>1, <1>4, <1>5, <1>6
<1>8. \A i, j \in 1 .. (n + 1) : ~r[i][2] /\ ~r[j][2] /\ r[i][1] = r[j][1] => i = j
  <2>1. \A i, j \in 1 .. n : ~c[i][2] /\ ~c[j][2] /\ c[i][1] = c[j][1] => i = j
      BY DEF Apart
  <2>2. \A i \in 1 .. n : ~c[i][2] => c[i][1] # o
      BY <1>6
  <2> QED BY <1>4, <2>1, <2>2
<1>9. Apart(q, now, r, free)
    BY <1>1, <1>2, <1>5, <1>7, <1>8 DEF Apart
<1> QED BY <1>9 DEF r, now

(* and handled.                                                             *)
LEMMA ApartHandle ==
    ASSUME NEW q, NEW taken, NEW c, NEW free, Apart(q, taken, c, free), c # <<>>
    PROVE  /\ Head(c) \in Owners \X BOOLEAN
           /\ Apart(q, taken, Tail(c), IF Head(c)[2] THEN free ELSE free \cup {Head(c)[1]})
<1> DEFINE r == Tail(c)
           n == Len(r)
           e == Head(c)
           now == IF e[2] THEN free ELSE free \cup {e[1]}
<1>1. c \in Seq(Owners \X BOOLEAN)
    BY DEF Apart
<1>2. /\ r \in Seq(Owners \X BOOLEAN) /\ Len(c) = n + 1 /\ n \in Nat
      /\ e = c[1] /\ e \in Owners \X BOOLEAN
      /\ \A i \in 1 .. n : r[i] = c[i + 1]
    BY <1>1
<1>3. \A x : x \in now <=> x \in free \/ (~e[2] /\ x = e[1])
    OBVIOUS
<1> HIDE DEF r, e, now
<1>4. 1 \in 1 .. Len(c) /\ \A i \in 1 .. n : i + 1 \in 1 .. Len(c) /\ i + 1 # 1
    BY <1>2
<1>5. \A i \in 1 .. Len(c) : ~c[i][2] =>
        /\ c[i][1] \notin taken \cup free
        /\ \A j \in 1 .. Len(q) : q[j] # c[i][1]
    BY DEF Apart
<1>6. \A i, j \in 1 .. Len(c) : ~c[i][2] /\ ~c[j][2] /\ c[i][1] = c[j][1] => i = j
    BY DEF Apart
<1>7. now \subseteq Owners /\ taken \cap now = {}
  <2>1. free \subseteq Owners /\ taken \cap free = {}
      BY DEF Apart
  <2> QED BY <1>2, <1>3, <1>4, <1>5, <2>1
<1>8. \A i \in 1 .. Len(q) : q[i] \notin taken \cup now
  <2>1. \A i \in 1 .. Len(q) : q[i] \notin taken \cup free
      BY DEF Apart
  <2> QED BY <1>2, <1>3, <1>4, <1>5, <2>1
<1>9. \A i \in 1 .. n : ~r[i][2] =>
        /\ r[i][1] \notin taken \cup now
        /\ \A j \in 1 .. Len(q) : q[j] # r[i][1]
    BY <1>2, <1>3, <1>4, <1>5, <1>6
<1>10. \A i, j \in 1 .. n : ~r[i][2] /\ ~r[j][2] /\ r[i][1] = r[j][1] => i = j
  <2>1. \A i, j \in 1 .. n : ~r[i][2] /\ ~r[j][2] /\ r[i][1] = r[j][1] => i + 1 = j + 1
      BY <1>2, <1>4, <1>6
  <2> QED BY <1>2, <2>1
<1>11. Apart(q, taken, r, now)
  <2>1. q \in Seq(Owners) /\ taken \subseteq Owners
        /\ \A i, j \in 1 .. Len(q) : q[i] = q[j] => i = j
      BY DEF Apart
  <2> QED BY <1>2, <1>7, <1>8, <1>9, <1>10, <2>1 DEF Apart
<1> QED BY <1>2, <1>11 DEF r, e, now

-----------------------------------------------------------------------------
(* The head of the completion ring, over images H and the tail t: a later   *)
(* image leaves no more to be handled.                                      *)
Left(M, t) == Dist(M[CqHead], t)

HeadsInOrder(H, t) ==
    \A j, k \in 1 .. Len(H) : j <= k => Left(H[k], t) <= Left(H[j], t)

(* An earlier image leaves no less than a later one, the first one most.    *)
LEMMA FirstLeavesMost ==
    ASSUME NEW H, ImagesOK(H), NEW t \in Counters, HeadsInOrder(H, t)
    PROVE  /\ Len(H) \in Nat \ {0} /\ Last(H) = H[Len(H)] /\ Counters \subseteq Nat
           /\ \A k \in 1 .. Len(H) : /\ Left(H[k], t) \in Counters
                                     /\ Left(H[k], t) <= Left(H[1], t)
                                     /\ Left(Last(H), t) <= Left(H[k], t)
<1>1. Len(H) \in Nat \ {0} /\ Last(H) = H[Len(H)]
    BY DEF ImagesOK, Last
<1>2. \A k \in 1 .. Len(H) : Left(H[k], t) \in Counters
    BY Counting DEF ImagesOK, Left
<1>3. \A k \in 1 .. Len(H) : /\ Left(H[k], t) <= Left(H[1], t)
                             /\ Left(H[Len(H)], t) <= Left(H[k], t)
    BY <1>1 DEF HeadsInOrder
<1>4. Counters \subseteq Nat
    BY DEF Counters
<1> QED BY <1>1, <1>2, <1>3, <1>4

(* A store keeps that when it leaves no more,                               *)
LEMMA StoreHead ==
    ASSUME NEW H, ImagesOK(H), NEW t \in Counters, HeadsInOrder(H, t),
           NEW w \in Words, NEW v \in Nat, w \in {SqTail, CqHead} => v \in Counters,
           w = CqHead => Dist(v, t) <= Left(Last(H), t)
    PROVE  HeadsInOrder(Stored(H, w, v), t)
<1> DEFINE G == Stored(H, w, v)
           n == Len(H)
<1>1. /\ ImagesOK(G) /\ Len(G) = n + 1 /\ n \in Nat \ {0}
      /\ \A k \in 1 .. n : G[k] = H[k]
      /\ Last(G) = G[n + 1] /\ Last(H) = H[n]
      /\ Last(G)[w] = v /\ \A x \in Words : x # w => Last(G)[x] = Last(H)[x]
    BY AddedImage
<1> HIDE DEF G
<1>2. \A k \in 1 .. n : Left(H[k], t) \in Nat /\ Left(Last(H), t) <= Left(H[k], t)
    BY FirstLeavesMost
<1>3. Left(Last(G), t) \in Nat /\ Left(Last(G), t) <= Left(Last(H), t)
  <2>1. Left(Last(H), t) \in Nat
      BY <1>1, <1>2
  <2>2. CASE w = CqHead
    <3>1. v \in Counters /\ Left(Last(G), t) = Dist(v, t)
        BY <1>1, <2>2 DEF Left
    <3>2. Dist(v, t) \in Nat
        BY <3>1, Counting, FirstLeavesMost
    <3> QED BY <2>2, <3>1, <3>2
  <2>3. CASE w # CqHead
    <3>1. Last(G)[CqHead] = Last(H)[CqHead]
        BY <1>1, <2>3, DifferentWords
    <3> QED BY <2>1, <3>1 DEF Left
  <2> QED BY <2>2, <2>3
<1>4. ASSUME NEW j \in 1 .. (n + 1), NEW k \in 1 .. (n + 1), j <= k
      PROVE  Left(G[k], t) <= Left(G[j], t)
  <2>1. CASE k \in 1 .. n
    <3>1. j \in 1 .. n
        BY <1>1, <1>4, <2>1
    <3> QED BY <1>1, <1>4, <2>1, <3>1 DEF HeadsInOrder
  <2>2. CASE k = n + 1 /\ j \in 1 .. n
    <3>1. G[k] = Last(G) /\ G[j] = H[j]
        BY <1>1, <2>2
    <3>2. Left(Last(H), t) <= Left(H[j], t) /\ Left(H[j], t) \in Nat
        BY <1>2, <2>2
    <3>3. Left(Last(H), t) \in Nat
        BY <1>1, <1>2
    <3> QED BY <1>3, <3>1, <3>2, <3>3
  <2>3. CASE k = n + 1 /\ j = n + 1
      BY <1>1, <1>3, <2>3
  <2> QED BY <1>1, <2>1, <2>2, <2>3
<1> QED BY <1>1, <1>4 DEF G, HeadsInOrder

(* the loss of an image always,                                             *)
LEMMA DropHead ==
    ASSUME NEW H, ImagesOK(H), Len(H) > 1, NEW t \in Counters, HeadsInOrder(H, t)
    PROVE  HeadsInOrder(Tail(H), t) /\ Left(Tail(H)[1], t) <= Left(H[1], t)
<1> DEFINE G == Tail(H)
<1>1. Len(G) = Len(H) - 1 /\ Len(H) \in Nat /\ \A k \in 1 .. Len(G) : G[k] = H[k + 1]
    BY DEF ImagesOK
<1> HIDE DEF G
<1>2. \A k \in 1 .. Len(G) : k + 1 \in 1 .. Len(H)
    BY <1>1
<1>3. ASSUME NEW j \in 1 .. Len(G), NEW k \in 1 .. Len(G), j <= k
      PROVE  Left(G[k], t) <= Left(G[j], t)
  <2>1. j + 1 <= k + 1
      BY <1>1, <1>3
  <2> QED BY <1>1, <1>2, <2>1 DEF HeadsInOrder
<1>4. Left(G[1], t) <= Left(H[1], t)
  <2>1. 1 \in 1 .. Len(G) /\ 1 + 1 \in 1 .. Len(H) /\ 1 \in 1 .. Len(H)
      BY <1>1
  <2>2. Left(H[1 + 1], t) <= Left(H[1], t)
      BY <2>1 DEF HeadsInOrder
  <2> QED BY <1>1, <2>1, <2>2
<1> QED BY <1>3, <1>4 DEF G, HeadsInOrder

(* and a completion posted where there is room.                             *)
LEMMA PostHeads ==
    ASSUME NEW H, ImagesOK(H), NEW t \in Counters, HeadsInOrder(H, t),
           Left(H[1], t) < CqEntries
    PROVE  /\ HeadsInOrder(H, Inc(t)) /\ Left(H[1], Inc(t)) <= CqEntries
           /\ Left(Last(H), t) < CqEntries
<1>1. /\ Len(H) \in Nat \ {0} /\ Last(H) = H[Len(H)]
      /\ \A k \in 1 .. Len(H) : Left(H[k], t) \in Nat /\ Left(H[k], t) <= Left(H[1], t)
    BY FirstLeavesMost
<1>2. CqEntries \in Nat /\ CounterMod \in Nat /\ CqEntries < CounterMod
    BY UringAssumption
<1>3. \A k \in 1 .. Len(H) : /\ Left(H[k], t) < CqEntries
                             /\ Left(H[k], Inc(t)) = Left(H[k], t) + 1
  <2> TAKE k \in 1 .. Len(H)
  <2>1. H[k][CqHead] \in Counters
      BY DEF ImagesOK
  <2>2. Left(H[k], t) < CqEntries /\ Left(H[k], t) + 1 < CounterMod
      BY <1>1, <1>2
  <2>3. Dist(H[k][CqHead], Inc(t)) = Dist(H[k][CqHead], t) + 1
      BY <2>1, <2>2, Counting DEF Left
  <2> QED BY <2>2, <2>3 DEF Left
<1>4. HeadsInOrder(H, Inc(t))
  <2> SUFFICES ASSUME NEW j \in 1 .. Len(H), NEW k \in 1 .. Len(H), j <= k
               PROVE  Left(H[k], Inc(t)) <= Left(H[j], Inc(t))
      BY DEF HeadsInOrder
  <2>1. Left(H[k], t) <= Left(H[j], t)
      BY DEF HeadsInOrder
  <2> QED BY <1>1, <1>3, <2>1
<1>5. 1 \in 1 .. Len(H) /\ Len(H) \in 1 .. Len(H)
    BY <1>1
<1> QED BY <1>1, <1>2, <1>3, <1>4, <1>5

-----------------------------------------------------------------------------
(* The invariant.  The images of the memory, and the queues they stand for. *)
Seen    == Images(mem, buf)
Looped  == Last(Seen)   \* the memory as the loop sees it
Filling == pc \in {"fill", "index", "tail"}

InOrder == Queued(Seen, khead)
HandledUpTo(p, M) == IF p THEN Inc(M[CqHead]) ELSE M[CqHead]
ToHandle == Posted(HandledUpTo(handled, Looped), cqTail, cqes) \o backlog
Free == idle \cup (IF pc \in {"fill", "index", "tail"} THEN {cur} ELSE {})

Rings == INSTANCE RingQueue WITH sq <- InOrder, cq <- ToHandle, idle <- Free

(* The loop fills the entry behind the last one enqueued, before it stores  *)
(* the tail; the kernel has taken what that entry held before.              *)
EntryBehindTail ==
    /\ Filling => /\ cur \in Owners /\ cur \notin idle
                  /\ Waiting(Looped, khead) < SqEntries
                  /\ idx = Looped[SqTail] % SqEntries /\ sqeTail = Inc(Looped[SqTail])
    /\ ~Filling => sqeTail = Looped[SqTail]
    /\ pc \in {"index", "tail"} => Looped[Sqe(idx)] = cur
    /\ pc = "tail" => Looped[Index(idx)] = idx

(* The ring never holds more than its entries, for the kernel's view of the *)
(* head, and the loop handles a completion that is there.                   *)
RoomKept ==
    /\ Left(mem, cqTail) <= CqEntries
    /\ pc = "handle" \/ handled => Looped[CqHead] # cqTail

(* A handler may enqueue before its completion is discarded, but the loop   *)
(* does not look for the next one.                                          *)
Handling ==
    /\ pc = "discard" => handled
    /\ handled => pc \in {"discard", "fill", "index", "tail", "flags", "wake"}

RingsOK ==
    /\ ImagesOK(Seen)
    /\ TailsInOrder(Seen, khead) /\ EntriesFilled(Seen, khead)
    /\ HeadsInOrder(Seen, cqTail)
    /\ EntryBehindTail
    /\ RoomKept /\ Handling

OwnersApart == Apart(InOrder, inflight, ToHandle, Free)

(* cg_uring_init holds the descriptor and what its pointers lead to, and    *)
(* gives both back on its way out; in the loop a pointer leads to what it   *)
(* holds or to what failed unnoticed.                                       *)
Looping == {"turn", "fill", "index", "tail", "flags", "wake", "wait", "blocked",
            "handle", "discard"}

SetUpOK ==
    LET mapped == held \ {"fd"}
    IN  /\ pc = "setup" => held = {}
        /\ pc = "map sq" => mapped = {}
        /\ pc = "map cq" => /\ ptr["sq"] \in held \cup {Garbage}
                            /\ mapped \subseteq {ptr["sq"]}
        /\ pc \in {"map sqe", "unmap cq"} =>
             /\ {ptr["cq"], ptr["sq"]} \subseteq held \cup {Garbage}
             /\ mapped \subseteq {ptr["cq"], ptr["sq"]}
        /\ pc = "unmap sq" => /\ ptr["sq"] \in held \cup {Garbage}
                              /\ mapped \subseteq {ptr["sq"]}
        /\ pc = "close" => mapped = {}
        /\ pc = "returned" => held = {}
        /\ pc \in Looping =>
             {ptr["sq"], ptr["cq"], ptr["sqe"]} \subseteq held \cup {Garbage}

(* The counters of the loop and of the kernel are counters.                 *)
LEMMA CountersAre ==
    ASSUME TypeOK, ImagesOK(Seen)
    PROVE  /\ mem \in Memory /\ buf \in Stores /\ Len(buf) \in Nat
           /\ khead \in Counters /\ cqTail \in Counters /\ sqeTail \in Counters
           /\ Seen[1] = mem /\ Len(Seen) = Len(buf) + 1
           /\ Looped \in Memory /\ Looped[SqTail] \in Counters /\ Looped[CqHead] \in Counters
           /\ cqes \in [CqPlaces -> Completion] /\ backlog \in Seq(Completion)
           /\ \A w \in Words : View(w) = Looped[w]
<1>1. mem \in Memory /\ buf \in Stores /\ Len(buf) \in Nat
  <2>1. mem \in Memory
      BY DEF TypeOK, Memory
  <2>2. buf \in Seq(Words \X Nat)
      BY DEF TypeOK
  <2> QED BY <2>1, <2>2 DEF Stores
<1>2. khead \in Counters /\ cqTail \in Counters /\ sqeTail \in Counters
    BY DEF TypeOK, Counters
<1>3. Seen[1] = mem /\ Len(Seen) = Len(buf) + 1
    BY <1>1, ImagesAre DEF Seen
<1>4. Looped \in Memory /\ Looped[SqTail] \in Counters /\ Looped[CqHead] \in Counters
    BY <1>1, <1>3 DEF Looped, ImagesOK, Last
<1>5. cqes \in [CqPlaces -> Completion] /\ backlog \in Seq(Completion)
    BY DEF TypeOK, CqPlaces, Completion
<1>6. \A w \in Words : View(w) = Looped[w]
  <2>1. DOMAIN buf = 1 .. Len(buf)
      BY <1>1 DEF Stores
  <2>2. \A w : View(w) = After(mem, buf, Len(buf), w)
      BY <2>1 DEF View, After
  <2> QED BY <1>1, <2>2, ImagesAre DEF Looped, Seen
<1> QED BY <1>1, <1>2, <1>3, <1>4, <1>5, <1>6

(* The queues of Uring, over the words themselves.                          *)
ViewOf(m, b, w) ==
    LET own == {i \in DOMAIN b : b[i][1] = w}
    IN  IF own = {} THEN m[w] ELSE b[Max(own)][2]

EnqueuedOf(m, b, h) ==
    [i \in 1 .. Dist(h, ViewOf(m, b, SqTail)) |->
       ViewOf(m, b, Sqe(ViewOf(m, b, Index((h + i - 1) % SqEntries))))]

PostedOf(p, m, b, t, c) ==
    LET head == IF p THEN Inc(ViewOf(m, b, CqHead)) ELSE ViewOf(m, b, CqHead)
    IN  [i \in 1 .. Dist(head, t) |-> c[(head + i - 1) % CqEntries]]

(* The index array leads to the entries in order, so the entries the loop   *)
(* enqueued are the entries after the head.                                 *)
LEMMA EnqueuedIs ==
    ASSUME NEW m \in Memory, NEW b \in Stores, NEW h \in Counters, ImagesOK(Images(m, b)),
           TailsInOrder(Images(m, b), h), EntriesFilled(Images(m, b), h)
    PROVE  EnqueuedOf(m, b, h) = Queued(Images(m, b), h)
<1> DEFINE H == Images(m, b)
           L == Last(H)
           n == Waiting(L, h)
<1>1. \A w \in Words : ViewOf(m, b, w) = L[w]
  <2>1. DOMAIN b = 1 .. Len(b)
      BY DEF Stores
  <2>2. \A w : ViewOf(m, b, w) = After(m, b, Len(b), w)
      BY <2>1 DEF ViewOf, After
  <2> QED BY <2>2, ImagesAre
<1>2. Len(H) \in Nat \ {0} /\ L = H[Len(H)] /\ n \in Nat
    BY LastHoldsMost
<1> HIDE DEF H
<1>3. Dist(h, ViewOf(m, b, SqTail)) = n
    BY <1>1, DifferentWords DEF Waiting
<1> HIDE DEF n
<1>4. ASSUME NEW i \in 1 .. n
      PROVE  ViewOf(m, b, Sqe(ViewOf(m, b, Index((h + i - 1) % SqEntries))))
                = L[Sqe(Slot(h, i - 1))]
  <2> DEFINE s == Slot(h, i - 1)
  <2>1. i - 1 \in Nat /\ i - 1 < n
      BY <1>2
  <2>2. s = (h + i - 1) % SqEntries
    <3>1. h + (i - 1) = h + i - 1
        BY <1>2 DEF Counters
    <3> QED BY <3>1 DEF Slot
  <2>3. s \in SqPlaces /\ Index(s) \in Words /\ Sqe(s) \in Words
      BY <2>1, Slots, DifferentWords
  <2>4. L[Index(s)] = s
      BY <1>2, <2>1 DEF EntriesFilled, n, H
  <2> HIDE DEF s, L
  <2> QED BY <1>1, <2>2, <2>3, <2>4 DEF s
<1> QED BY <1>3, <1>4 DEF EnqueuedOf, Queued, n, H

(* So are the completions posted the entries after the loop's head.         *)
LEMMA PostedIs ==
    ASSUME NEW p, NEW m \in Memory, NEW b \in Stores, NEW t \in Counters, NEW c,
           ImagesOK(Images(m, b))
    PROVE  PostedOf(p, m, b, t, c) = Posted(HandledUpTo(p, Last(Images(m, b))), t, c)
<1> DEFINE L == Last(Images(m, b))
           h == IF p THEN Inc(L[CqHead]) ELSE L[CqHead]
<1>1. ViewOf(m, b, CqHead) = L[CqHead]
  <2>1. DOMAIN b = 1 .. Len(b)
      BY DEF Stores
  <2>2. \A x : ViewOf(m, b, x) = After(m, b, Len(b), x)
      BY <2>1 DEF ViewOf, After
  <2> QED BY <2>2, ImagesAre, DifferentWords
<1>2. h \in Counters
  <2>1. L[CqHead] \in Counters
      BY DEF ImagesOK, Last
  <2> QED BY <2>1, Counting
<1> HIDE DEF L
<1>3. PostedOf(p, m, b, t, c) = [i \in 1 .. Dist(h, t) |-> c[(h + i - 1) % CqEntries]]
    BY <1>1 DEF PostedOf
<1> HIDE DEF h
<1>4. \A i \in 1 .. Dist(h, t) : h + i - 1 = h + (i - 1)
    BY <1>2, Counting DEF Counters
<1>5. \A i \in 1 .. Dist(h, t) : c[(h + i - 1) % CqEntries] = c[CqSlot(h, i - 1)]
    BY <1>4 DEF CqSlot
<1>6. [i \in 1 .. Dist(h, t) |-> c[(h + i - 1) % CqEntries]] = Posted(h, t, c)
    BY <1>5 DEF Posted
<1> QED BY <1>3, <1>6 DEF h, L, HandledUpTo

(* They are the queues over the images.                                     *)
LEMMA QueuesAgree ==
    ASSUME TypeOK, RingsOK
    PROVE  Enqueued = InOrder /\ Unhandled = ToHandle
<1>1. /\ mem \in Memory /\ buf \in Stores /\ khead \in Counters /\ cqTail \in Counters
      /\ ImagesOK(Images(mem, buf)) /\ TailsInOrder(Images(mem, buf), khead)
      /\ EntriesFilled(Images(mem, buf), khead)
    BY CountersAre DEF RingsOK, Seen
<1>2. Enqueued = EnqueuedOf(mem, buf, khead)
    BY DEF Enqueued, EnqueuedOf, View, ViewOf
<1>3. Unhandled = PostedOf(handled, mem, buf, cqTail, cqes) \o backlog
    BY DEF Unhandled, PostedOf, View, ViewOf
<1>4. Enqueued = InOrder
    BY <1>1, <1>2, EnqueuedIs DEF InOrder, Seen
<1>5. PostedOf(handled, mem, buf, cqTail, cqes)
        = Posted(HandledUpTo(handled, Last(Images(mem, buf))), cqTail, cqes)
    BY <1>1, PostedIs
<1>6. Unhandled = ToHandle
    BY <1>3, <1>5 DEF ToHandle, Seen, Looped
<1> QED BY <1>4, <1>6

(* A step of the queues over images is one of the queues of Uring.          *)
LEMMA SameQueues ==
    ASSUME TypeOK, RingsOK, TypeOK', RingsOK', [Rings!Next]_(Rings!queueVars)
    PROVE  [Queue!Next]_(Queue!queueVars)
<1>1. Enqueued = InOrder /\ Unhandled = ToHandle
    BY QueuesAgree
<1>2. Enqueued' = InOrder' /\ Unhandled' = ToHandle'
  <2>1. /\ mem' \in Memory /\ buf' \in Stores /\ khead' \in Counters /\ cqTail' \in Counters
        /\ ImagesOK(Images(mem', buf')) /\ TailsInOrder(Images(mem', buf'), khead')
        /\ EntriesFilled(Images(mem', buf'), khead')
      BY DEF RingsOK, Seen, TypeOK, Memory, Stores, Counters
  <2>2. Enqueued' = EnqueuedOf(mem', buf', khead')
      BY DEF Enqueued, EnqueuedOf, View, ViewOf
  <2>3. Unhandled' = PostedOf(handled', mem', buf', cqTail', cqes') \o backlog'
      BY DEF Unhandled, PostedOf, View, ViewOf
  <2>4. Enqueued' = InOrder'
      BY <2>1, <2>2, EnqueuedIs DEF InOrder, Seen
  <2>5. PostedOf(handled', mem', buf', cqTail', cqes')
          = Posted(HandledUpTo(handled', Last(Images(mem', buf'))), cqTail', cqes')
      BY <2>1, PostedIs
  <2>6. Unhandled' = ToHandle'
      BY <2>3, <2>5 DEF ToHandle, Seen, Looped
  <2> QED BY <2>4, <2>6
<1>3. CASE UNCHANGED Rings!queueVars
    BY <1>1, <1>2, <1>3 DEF Rings!queueVars, Queue!queueVars, Free
<1>4. CASE Rings!Next
    BY <1>1, <1>2, <1>4 DEF Rings!Next, Rings!Enqueue, Rings!Take, Rings!Complete,
       Rings!Handle, Queue!Next, Queue!Enqueue, Queue!Take, Queue!Complete, Queue!Handle, Free
<1> QED BY <1>3, <1>4

-----------------------------------------------------------------------------
(* Types, whether or not an entry was overrun: each word of the rings holds *)
(* only what is stored there.                                               *)
Values(w) ==
    IF w \in {SqTail, CqHead} THEN Counters
    ELSE IF \E i \in SqPlaces : w = Index(i) THEN SqPlaces ELSE Entries

WordsTyped ==
    /\ \A w \in Words : mem[w] \in Values(w)
    /\ \A i \in 1 .. Len(buf) : buf[i][2] \in Values(buf[i][1])

(* The kinds are kinds of numbers, and each word is of its own.             *)
LEMMA ValuesAre ==
    /\ Values(SqTail) = Counters /\ Values(CqHead) = Counters
    /\ \A i \in SqPlaces : Values(Index(i)) = SqPlaces /\ Values(Sqe(i)) = Entries
    /\ \A w : Values(w) \subseteq Nat
<1>1. Counters \subseteq Nat /\ SqPlaces \subseteq Nat /\ Entries \subseteq Nat
    BY UringAssumption DEF Counters, SqPlaces, Entries, Zeroed
<1>2. \A i \in SqPlaces : Values(Index(i)) = SqPlaces /\ Values(Sqe(i)) = Entries
    BY DifferentWords DEF Values
<1> QED BY <1>1, <1>2 DEF Values

(* The memory and the buffer by themselves.                                 *)
LEMMA BufferTyped ==
    ASSUME TypeOK
    PROVE  /\ mem \in [Words -> Nat] /\ buf \in Seq(Words \X Nat) /\ Len(buf) <= BufferSize
           /\ Len(buf) \in Nat /\ DOMAIN buf = 1 .. Len(buf)
<1>1. /\ mem \in [Words -> Nat] /\ buf \in Seq(Words \X Nat)
      /\ Len(buf) <= BufferSize
    BY DEF TypeOK
<1> QED BY <1>1

(* So what the loop sees of a word is of its kind,                          *)
LEMMA ViewTyped ==
    ASSUME TypeOK, WordsTyped, NEW w \in Words
    PROVE  View(w) \in Values(w)
<1>1. Len(buf) \in Nat /\ DOMAIN buf = 1 .. Len(buf)
    BY BufferTyped
<1>2. View(w) = After(mem, buf, Len(buf), w)
    BY <1>1 DEF View, After
<1>3. CASE Untouched(buf, Len(buf), w)
    BY <1>2, <1>3, AfterUntouched DEF WordsTyped
<1>4. ASSUME NEW i \in 1 .. Len(buf), Latest(buf, Len(buf), w, i)
      PROVE  View(w) \in Values(w)
  <2>1. buf[i][1] = w
      BY <1>4 DEF Latest
  <2>2. After(mem, buf, Len(buf), w) = buf[i][2]
      BY <1>1, <1>4, AfterLatest
  <2>3. buf[i][2] \in Values(buf[i][1])
      BY DEF WordsTyped
  <2> QED BY <1>2, <2>1, <2>2, <2>3
<1> QED BY <1>1, <1>3, <1>4, LatestStore

(* and a store of that kind keeps it so.                                    *)
LEMMA StoreTyped ==
    ASSUME TypeOK, WordsTyped, NEW w \in Words, NEW v \in Values(w), Store(w, v)
    PROVE  /\ mem' = mem /\ buf' \in Seq(Words \X Nat) /\ Len(buf') <= BufferSize
           /\ WordsTyped'
<1>1. /\ buf \in Seq(Words \X Nat) /\ Len(buf) \in Nat /\ mem' = mem
      /\ buf' = Append(buf, <<w, v>>) /\ Len(buf) < BufferSize /\ v \in Nat
    BY BufferTyped, ValuesAre DEF Store
<1>2. /\ buf' \in Seq(Words \X Nat) /\ Len(buf') = Len(buf) + 1
      /\ buf'[Len(buf) + 1] = <<w, v>> /\ \A i \in 1 .. Len(buf) : buf'[i] = buf[i]
    BY <1>1
<1>3. Len(buf') <= BufferSize
    BY <1>1, <1>2, UringAssumption
<1>4. \A i \in 1 .. Len(buf') : buf'[i][2] \in Values(buf'[i][1])
  <2> TAKE i \in 1 .. Len(buf')
  <2>1. CASE i \in 1 .. Len(buf)
      BY <1>2, <2>1 DEF WordsTyped
  <2>2. CASE i = Len(buf) + 1
      BY <1>2, <2>2
  <2> QED BY <1>1, <1>2, <2>1, <2>2
<1> QED BY <1>1, <1>2, <1>3, <1>4 DEF WordsTyped

(* The set-up: what it holds and where its pointers lead.                   *)
LEMMA SetUpTyped ==
    ASSUME TypeOK, SetUpOK, UringInit
    PROVE  TypeOK' /\ SetUpOK' /\ UNCHANGED <<mem, buf>>
<1>1. UNCHANGED ringVars
    BY DEF UringInit, SetupFails, Setup, MapSq, MapCq, MapSqe, Map, UnmapCq, UnmapSq,
       CloseRing, UsesUnmapped
<1>2. pc' \in {"map sq", "map cq", "map sqe", "unmap cq", "unmap sq",
               "close", "returned", "turn", "dead"}
    BY DEF UringInit, SetupFails, Setup, MapSq, MapCq, MapSqe, Map, UnmapCq, UnmapSq,
       CloseRing, UsesUnmapped
<1>4. ptr \in [Regions -> Regions \cup {Unset, Failed, Garbage}] /\ held \subseteq Regions \cup {"fd"}
    BY DEF TypeOK
<1>5. /\ held' \subseteq Regions \cup {"fd"}
      /\ ptr' \in [Regions -> Regions \cup {Unset, Failed, Garbage}]
      /\ SetUpOK'
  <2>1. CASE SetupFails
      BY <1>4, <2>1 DEF SetupFails, SetUpOK, Looping, initVars
  <2>2. CASE Setup
      BY <1>4, <2>2 DEF Setup, SetUpOK, Looping
  <2>3. CASE MapSq
      BY <1>4, <2>3 DEF MapSq, Map, SetUpOK, Looping, Regions, Garbage, Failed, Unset
  <2>4. CASE MapCq
    <3>1. /\ pc = "map cq" /\ ptr["sq"] \in held \cup {Garbage}
          /\ held \ {"fd"} \subseteq {ptr["sq"]}
        BY <2>4 DEF MapCq, SetUpOK
    <3>2. /\ \/ pc' = "map sqe" /\ ptr' = [ptr EXCEPT !["cq"] = ptr["sq"]] /\ held' = held
             \/ pc' = "map sqe" /\ ptr' = [ptr EXCEPT !["cq"] = "cq"] /\ held' = held \cup {"cq"}
             \/ pc' = "map sqe" /\ ptr' = [ptr EXCEPT !["cq"] = Garbage] /\ held' = held
             \/ pc' = "unmap sq" /\ ptr' = [ptr EXCEPT !["cq"] = Failed] /\ held' = held
        BY <2>4 DEF MapCq, Map
    <3>3. /\ held' \subseteq Regions \cup {"fd"}
          /\ ptr' \in [Regions -> Regions \cup {Unset, Failed, Garbage}]
        BY <1>4, <3>2 DEF Regions
    <3>4. /\ ptr'["sq"] = ptr["sq"] /\ held \subseteq held'
          /\ pc' = "map sqe" => /\ {ptr'["cq"], ptr'["sq"]} \subseteq held' \cup {Garbage}
                                /\ held' \ {"fd"} \subseteq {ptr'["cq"], ptr'["sq"]}
          /\ pc' = "unmap sq" => held' = held
        BY <1>4, <3>1, <3>2 DEF Regions
    <3>5. SetUpOK'
        BY <3>1, <3>2, <3>4 DEF SetUpOK, Looping
    <3> QED BY <3>3, <3>5
  <2>5. CASE MapSqe
    <3>1. /\ pc = "map sqe" /\ {ptr["cq"], ptr["sq"]} \subseteq held \cup {Garbage}
          /\ held \ {"fd"} \subseteq {ptr["cq"], ptr["sq"]}
        BY <2>5 DEF MapSqe, SetUpOK
    <3>2. /\ pc' \in {"turn", "unmap cq"}
          /\ pc' = "unmap cq" => held' = held
          /\ \/ ptr' = [ptr EXCEPT !["sqe"] = "sqe"] /\ held' = held \cup {"sqe"}
             \/ ptr' = [ptr EXCEPT !["sqe"] = Garbage] /\ held' = held
             \/ ptr' = [ptr EXCEPT !["sqe"] = Failed] /\ held' = held
        BY <2>5 DEF MapSqe, Map
    <3>3. /\ held' \subseteq Regions \cup {"fd"}
          /\ ptr' \in [Regions -> Regions \cup {Unset, Failed, Garbage}]
        BY <1>4, <3>2 DEF Regions
    <3>4. /\ ptr'["sq"] = ptr["sq"] /\ ptr'["cq"] = ptr["cq"] /\ held \subseteq held'
          /\ pc' = "turn" => ptr'["sqe"] \in held' \cup {Garbage}
        BY <1>4, <2>5, <3>2 DEF MapSqe, Map, Regions
    <3>5. SetUpOK'
        BY <3>1, <3>2, <3>4 DEF SetUpOK, Looping
    <3> QED BY <3>3, <3>5
  <2>6. CASE UnmapCq
      BY <1>4, <2>6 DEF UnmapCq, SetUpOK, Looping, Regions, Garbage, Failed, Unset
  <2>7. CASE UnmapSq
      BY <1>4, <2>7 DEF UnmapSq, SetUpOK, Looping
  <2>8. CASE CloseRing
      BY <1>4, <2>8 DEF CloseRing, SetUpOK, Looping
  <2>9. CASE UsesUnmapped
      BY <1>4, <2>9 DEF UsesUnmapped, SetUpOK, Looping
  <2> QED BY <2>1, <2>2, <2>3, <2>4, <2>5, <2>6, <2>7, <2>8, <2>9 DEF UringInit
<1>6. TypeOK'
    BY <1>1, <1>2, <1>5 DEF TypeOK, ringVars, pollVars, cqVars
<1> QED BY <1>1, <1>5, <1>6 DEF ringVars

(* What cg_uring_init holds stays as it is once it has returned.            *)
LEMMA SetUpKept ==
    ASSUME SetUpOK, UNCHANGED initVars,
           pc' = pc \/ (pc \in Looping /\ pc' \in Looping)
    PROVE  SetUpOK'
BY DEF SetUpOK, Looping, initVars

(* Only the loop's own steps move it, and it is in its loop where they start. *)
LEMMA LoopLoops ==
    ASSUME \/ LoopStep \/ CqeWaitFails \/ Drain \/ Poll \/ PollFlags
           \/ \E o \in Entries, more \in BOOLEAN : Complete(o, more)
    PROVE  pc' = pc \/ pc \in Looping
<1>1. CASE LoopStep \/ CqeWaitFails
  <2>1. CASE \E o \in Owners : SqeGet(o)
      BY <2>1 DEF SqeGet, Looping
  <2>2. CASE Fill \/ StoreIndex \/ StoreTail \/ LoadFlags \/ EnterWakeup
      BY <2>2 DEF Fill, StoreIndex, StoreTail, LoadFlags, EnterWakeup, Looping
  <2>3. CASE CqPeek \/ CqeWaitFinds \/ CqeWaitEnters \/ CqeWaitFails
             \/ HandleCqe \/ CqDiscard
      BY <2>3 DEF CqPeek, CqeWaitFinds, CqeWaitEnters, CqeWaitFails, HandleCqe,
         CqDiscard, Discard, LoopAt, Looping
  <2> QED BY <1>1, <2>1, <2>2, <2>3 DEF LoopStep, Enqueue
<1>2. CASE Drain \/ Poll \/ PollFlags
    BY <1>2 DEF Drain, Poll, PollTakes, PollRechecks, PollFlags, loopVars
<1>3. CASE \E o \in Entries, more \in BOOLEAN : Complete(o, more)
    BY <1>3 DEF Complete, loopVars
<1> QED BY <1>1, <1>2, <1>3

(* The steps of the loop that store a word,                                 *)
LEMMA LoopStoresTyped ==
    ASSUME TypeOK, WordsTyped,
           (\E o \in Owners : SqeGet(o)) \/ Fill \/ StoreIndex \/ StoreTail \/ CqDiscard
    PROVE  /\ TypeOK' /\ WordsTyped' /\ UNCHANGED initVars
           /\ pc' \in {"fill", "index", "tail", "flags", "turn"}
<1>0. /\ SqEntries \in Nat \ {0} /\ idx \in SqPlaces /\ cur \in Entries /\ Zeroed \in Entries
      /\ SqTail \in Words /\ CqHead \in Words
      /\ \A i \in SqPlaces : Index(i) \in Words /\ Sqe(i) \in Words
      /\ \A n \in Counters : Inc(n) \in Counters /\ n % SqEntries \in SqPlaces
      /\ sqeTail \in Counters /\ View(SqTail) \in Counters /\ View(CqHead) \in Counters
  <2>1. SqTail \in Words /\ CqHead \in Words
      BY DifferentWords
  <2>2. \A n \in Counters : Inc(n) \in Counters /\ n % SqEntries \in SqPlaces
    <3>1. SqEntries \in Nat \ {0} /\ Counters \subseteq Nat
        BY UringAssumption DEF Counters
    <3>2. \A n \in Nat : n % SqEntries \in SqPlaces
        BY <3>1, Division DEF SqPlaces
    <3> QED BY <3>1, <3>2, Counting
  <2>3. View(SqTail) \in Counters /\ View(CqHead) \in Counters
      BY <2>1, ViewTyped, ValuesAre
  <2>4. idx \in SqPlaces /\ cur \in Entries /\ Zeroed \in Entries /\ sqeTail \in Counters
      BY DEF TypeOK, SqPlaces, Counters, Entries
  <2>5. SqEntries \in Nat \ {0} /\ \A i \in SqPlaces : Index(i) \in Words /\ Sqe(i) \in Words
      BY UringAssumption, DifferentWords
  <2> QED BY <2>1, <2>2, <2>3, <2>4, <2>5
<1>1. ASSUME NEW w \in Words, NEW v \in Values(w), Store(w, v),
             UNCHANGED <<initVars, pollVars, inflight, cqVars>>,
             pc' \in {"fill", "index", "tail", "flags", "turn"},
             handled' \in BOOLEAN, sqeTail' \in Counters, overrun' \in BOOLEAN,
             cur' \in Entries, idx' \in SqPlaces, idle' \subseteq Owners
      PROVE  /\ TypeOK' /\ WordsTyped' /\ UNCHANGED initVars
             /\ pc' \in {"fill", "index", "tail", "flags", "turn"}
  <2>1. /\ mem' = mem /\ buf' \in Seq(Words \X Nat) /\ Len(buf') <= BufferSize
        /\ WordsTyped'
      BY <1>1, StoreTyped
  <2>2. TypeOK'
      BY <1>1, <2>1 DEF TypeOK, initVars, pollVars, cqVars, Counters, SqPlaces
  <2> QED BY <1>1, <2>1, <2>2
<1>2. handled \in BOOLEAN /\ overrun \in BOOLEAN /\ idle \subseteq Owners
    BY DEF TypeOK
<1>3. ASSUME NEW o \in Owners, SqeGet(o)
      PROVE  /\ TypeOK' /\ WordsTyped' /\ UNCHANGED initVars
             /\ pc' \in {"fill", "index", "tail", "flags", "turn"}
  <2>1. /\ Store(Sqe(sqeTail % SqEntries), Zeroed) /\ pc' = "fill" /\ cur' = o
        /\ idle' = idle \ {o} /\ idx' = sqeTail % SqEntries /\ sqeTail' = Inc(sqeTail)
        /\ overrun' = (overrun \/ Dist(khead, sqeTail) >= SqEntries)
        /\ UNCHANGED <<initVars, handled, pollVars, inflight, cqVars>>
      BY <1>3 DEF SqeGet
  <2>2. o \in Entries /\ overrun' \in BOOLEAN /\ idle' \subseteq Owners
      BY <1>2, <2>1 DEF Entries
  <2>3. /\ Sqe(sqeTail % SqEntries) \in Words /\ Zeroed \in Values(Sqe(sqeTail % SqEntries))
        /\ sqeTail % SqEntries \in SqPlaces /\ Inc(sqeTail) \in Counters
      BY <1>0, ValuesAre
  <2> QED BY <1>1, <1>2, <2>1, <2>2, <2>3
<1>4. CASE Fill
  <2>1. Sqe(idx) \in Words /\ cur \in Values(Sqe(idx))
      BY <1>0, ValuesAre
  <2> QED BY <1>0, <1>1, <1>2, <1>4, <2>1 DEF Fill
<1>5. CASE StoreIndex
  <2> DEFINE w == Index(View(SqTail) % SqEntries)
  <2>1. w \in Words /\ idx \in Values(w)
      BY <1>0, ValuesAre
  <2> QED BY <1>0, <1>1, <1>2, <1>5, <2>1 DEF StoreIndex
<1>6. CASE StoreTail
  <2>1. Inc(View(SqTail)) \in Values(SqTail)
      BY <1>0, ValuesAre
  <2> QED BY <1>0, <1>1, <1>2, <1>6, <2>1 DEF StoreTail
<1>7. CASE CqDiscard
  <2>1. Inc(View(CqHead)) \in Values(CqHead)
      BY <1>0, ValuesAre
  <2> QED BY <1>0, <1>1, <1>2, <1>7, <2>1 DEF CqDiscard, Discard
<1> QED BY <1>3, <1>4, <1>5, <1>6, <1>7

(* its other steps, and the polling thread's that take nothing,             *)
LEMMA LookingTyped ==
    ASSUME TypeOK, WordsTyped,
           LoadFlags \/ EnterWakeup \/ CqPeek \/ CqeWaitFinds \/ CqeWaitFails
           \/ HandleCqe \/ PollRechecks \/ PollFlags \/ UNCHANGED vars
    PROVE  /\ TypeOK' /\ UNCHANGED <<initVars, mem, buf>>
           /\ pc' = pc \/ pc' \in {"turn", "wait", "handle", "wake", "discard"}
<1>1. TypeOK
    OBVIOUS
<1>2. CASE HandleCqe
  <2> DEFINE e == cqes[View(CqHead) % CqEntries]
  <2>1. /\ pc' = "discard" /\ handled' = TRUE
        /\ idle' = (IF e[2] THEN idle ELSE idle \cup ({e[1]} \ {Zeroed}))
        /\ UNCHANGED <<initVars, sqeVars, cur, idx, mem, buf, pollVars, inflight, cqVars>>
      BY <1>2 DEF HandleCqe
  <2>2. e[1] \in Entries
    <3>1. View(CqHead) % CqEntries \in 0 .. (CqEntries - 1)
      <4>1. View(CqHead) \in Counters /\ CqEntries \in Nat \ {0}
          BY ViewTyped, ValuesAre, DifferentWords, UringAssumption
      <4>2. View(CqHead) \in Nat
          BY <4>1, UringAssumption DEF Counters
      <4> QED BY <4>1, <4>2, Division
    <3> QED BY <3>1 DEF TypeOK
  <2> HIDE DEF e
  <2>3. idle' \subseteq Owners
      BY <2>1, <2>2 DEF TypeOK, Entries
  <2> QED BY <2>1, <2>3 DEF TypeOK, initVars, pollVars, cqVars
<1>3. CASE LoadFlags
    BY <1>3 DEF LoadFlags, Onward, TypeOK, initVars, pollVars, cqVars
<1>4. CASE EnterWakeup
    BY <1>4 DEF EnterWakeup, Onward, TypeOK, initVars, cqVars
<1>5. CASE CqPeek \/ CqeWaitFinds \/ CqeWaitFails
    BY <1>5 DEF CqPeek, CqeWaitFinds, CqeWaitFails, LoopAt, TypeOK, initVars, pollVars, cqVars
<1>6. CASE PollRechecks \/ PollFlags
    BY <1>6 DEF PollRechecks, PollFlags, TypeOK, initVars, loopVars, cqVars
<1>7. CASE UNCHANGED vars
    BY <1>7 DEF TypeOK, vars, initVars, loopVars, pollVars, cqVars
<1> QED BY <1>2, <1>3, <1>4, <1>5, <1>6, <1>7

(* and the kernel's: it takes an entry, posts a completion, or moves those  *)
(* that found no room.                                                      *)
LEMMA KernelTyped ==
    ASSUME TypeOK, WordsTyped,
           \/ Drain \/ PollTakes \/ CqeWaitEnters
           \/ \E o \in Entries, more \in BOOLEAN : Complete(o, more)
    PROVE  /\ TypeOK' /\ WordsTyped' /\ UNCHANGED initVars
           /\ pc' = pc \/ pc' = "blocked"
<1>1. CASE Drain
  <2>1. /\ buf # <<>> /\ mem' = [mem EXCEPT ![Head(buf)[1]] = Head(buf)[2]]
        /\ buf' = Tail(buf)
        /\ UNCHANGED <<initVars, loopVars, pollVars, inflight, cqVars>>
      BY <1>1 DEF Drain
  <2>2. /\ buf \in Seq(Words \X Nat) /\ Len(buf) \in Nat \ {0} /\ Len(buf) <= BufferSize
        /\ mem \in [Words -> Nat]
      BY <2>1, BufferTyped
  <2>3. /\ Head(buf) = buf[1] /\ Head(buf) \in Words \X Nat
        /\ buf' \in Seq(Words \X Nat) /\ Len(buf') = Len(buf) - 1
        /\ \A i \in 1 .. Len(buf') : buf'[i] = buf[i + 1] /\ i + 1 \in 1 .. Len(buf)
      BY <2>1, <2>2
  <2>4. Head(buf)[2] \in Values(Head(buf)[1])
    <3>1. 1 \in 1 .. Len(buf)
        BY <2>2
    <3> QED BY <2>3, <3>1 DEF WordsTyped
  <2>5. WordsTyped'
    <3>1. \A w \in Words : mem'[w] \in Values(w)
        BY <2>1, <2>2, <2>4 DEF WordsTyped
    <3>2. \A i \in 1 .. Len(buf') : buf'[i][2] \in Values(buf'[i][1])
        BY <2>3 DEF WordsTyped
    <3> QED BY <3>1, <3>2 DEF WordsTyped
  <2>6. mem' \in [Words -> Nat] /\ Len(buf') <= BufferSize
      BY <2>1, <2>2, <2>3, UringAssumption
  <2>7. mem'[SqTail] < CounterMod /\ mem'[CqHead] < CounterMod
    <3>1. mem'[SqTail] \in Counters /\ mem'[CqHead] \in Counters
        BY <2>5, ValuesAre, DifferentWords DEF WordsTyped
    <3> QED BY <3>1, UringAssumption DEF Counters
  <2> QED BY <2>1, <2>3, <2>5, <2>6, <2>7
          DEF TypeOK, initVars, loopVars, pollVars, cqVars
<1>2. CASE PollTakes
  <2> DEFINE o == mem[Sqe(mem[Index(khead % SqEntries)])]
  <2>1. /\ inflight' = inflight \cup {o} /\ khead' = Inc(khead)
        /\ UNCHANGED <<initVars, loopVars, mem, buf, kpc, needWakeup, cqVars>>
      BY <1>2 DEF PollTakes
  <2>2. o \in Entries
    <3>1. khead \in Nat /\ SqEntries \in Nat \ {0}
      <4>1. khead \in 0 .. (CounterMod - 1)
          BY DEF TypeOK
      <4> QED BY <4>1, UringAssumption
    <3>2. khead % SqEntries \in SqPlaces
        BY <3>1, Division DEF SqPlaces
    <3>3. mem[Index(khead % SqEntries)] \in SqPlaces
        BY <3>2, ValuesAre, DifferentWords DEF WordsTyped
    <3> QED BY <3>3, ValuesAre, DifferentWords DEF WordsTyped
  <2>3. Inc(khead) \in Counters
    <3>1. khead \in Counters
        BY DEF TypeOK, Counters
    <3> QED BY <3>1, Counting
  <2> HIDE DEF o
  <2>4. WordsTyped'
      BY <2>1 DEF WordsTyped
  <2> QED BY <2>1, <2>2, <2>3, <2>4 DEF TypeOK, Counters, initVars, loopVars, cqVars
<1>3. CASE CqeWaitEnters
  <2> DEFINE n == Min({Len(backlog), CqEntries})
  <2>1. /\ pc' = "blocked" /\ cqTail' = Behind(cqTail, n)
        /\ backlog' = SubSeq(backlog, n + 1, Len(backlog))
        /\ UNCHANGED <<initVars, handled, sqeVars, cur, idx, idle, pollVars, inflight,
                       mem, buf>>
      BY <1>3 DEF CqeWaitEnters, LoopAt, Behind
  <2>2. /\ cqTail \in Counters /\ cqes \in [CqPlaces -> Completion]
        /\ backlog \in Seq(Completion)
      BY DEF TypeOK, Counters, CqPlaces, Completion
  <2>3. cqes' = Flushed(cqTail, n, cqes, backlog)
      BY <1>3, <2>2 DEF CqeWaitEnters, Flushed
  <2>4. n \in Nat /\ n <= CqEntries /\ n <= Len(backlog)
    <3> DEFINE S == {Len(backlog), CqEntries}
    <3>1. Len(backlog) \in Nat /\ CqEntries \in Nat
        BY <2>2, UringAssumption
    <3>2. \E x \in S : \A y \in S : x <= y
        BY <3>1
    <3> HIDE DEF S
    <3>3. Min(S) \in S /\ \A y \in S : Min(S) <= y
        BY <3>2 DEF Min
    <3> QED BY <3>1, <3>3 DEF S
  <2> HIDE DEF n
  <2>5. cqTail' \in Counters /\ cqes' \in [CqPlaces -> Completion] /\ backlog' \in Seq(Completion)
    <3>1. /\ Behind(cqTail, n) \in Counters
          /\ Flushed(cqTail, n, cqes, backlog) \in [CqPlaces -> Completion]
          /\ SubSeq(backlog, n + 1, Len(backlog)) \in Seq(Completion)
        BY ONLY <2>2, <2>4, FlushBacklog, SMTT(30)
    <3> QED BY <2>1, <2>3, <3>1
  <2>6. WordsTyped'
      BY <2>1 DEF WordsTyped
  <2> QED BY <2>1, <2>5, <2>6
          DEF TypeOK, Counters, CqPlaces, Completion, initVars, pollVars
<1>4. ASSUME NEW o \in Entries, NEW more \in BOOLEAN, Complete(o, more)
      PROVE  /\ TypeOK' /\ WordsTyped' /\ UNCHANGED initVars
             /\ pc' = pc
  <2>1. /\ inflight' = (IF more THEN inflight ELSE inflight \ {o})
        /\ \/ /\ cqes' = [cqes EXCEPT ![cqTail % CqEntries] = <<o, more>>]
              /\ cqTail' = Inc(cqTail) /\ backlog' = backlog
           \/ backlog' = Append(backlog, <<o, more>>) /\ cqTail' = cqTail /\ cqes' = cqes
        /\ UNCHANGED <<initVars, loopVars, mem, buf, pollVars>>
      BY <1>4 DEF Complete
  <2>2. /\ cqTail \in Counters /\ cqes \in [CqPlaces -> Completion]
        /\ backlog \in Seq(Completion) /\ <<o, more>> \in Completion
      BY DEF TypeOK, Counters, CqPlaces, Completion
  <2>3. cqTail' \in Counters /\ cqes' \in [CqPlaces -> Completion] /\ backlog' \in Seq(Completion)
    <3>1. Inc(cqTail) \in Counters
        BY <2>2, Counting
    <3>2. cqTail % CqEntries \in CqPlaces
        BY <2>2, UringAssumption DEF Counters, CqPlaces
    <3>3. \A e \in Completion :
            /\ [cqes EXCEPT ![cqTail % CqEntries] = e] \in [CqPlaces -> Completion]
            /\ Append(backlog, e) \in Seq(Completion)
        BY <2>2, <3>2
    <3> QED BY <2>1, <2>2, <3>1, <3>3
  <2>4. WordsTyped'
      BY <2>1 DEF WordsTyped
  <2> QED BY <2>1, <2>3, <2>4
          DEF TypeOK, Counters, CqPlaces, Completion, initVars, loopVars, pollVars
<1> QED BY <1>1, <1>2, <1>3, <1>4

(* Types and set-up together.                                               *)
Typed == TypeOK /\ WordsTyped /\ SetUpOK

(* Every step keeps them.                                                   *)
LEMMA TypedKept == Typed /\ [Next]_vars => Typed'
<1> SUFFICES ASSUME Typed, [Next]_vars
             PROVE  Typed'
    OBVIOUS
<1>0. TypeOK /\ WordsTyped /\ SetUpOK
    BY DEF Typed
<1>1. CASE UringInit
    BY <1>0, <1>1, SetUpTyped DEF Typed, WordsTyped
<1>2. CASE (\E o \in Owners : SqeGet(o)) \/ Fill \/ StoreIndex \/ StoreTail \/ CqDiscard
    BY <1>0, <1>2, LoopStoresTyped, LoopLoops, SetUpKept
       DEF Typed, LoopStep, Enqueue, Looping
<1>3. CASE LoadFlags \/ EnterWakeup \/ CqPeek \/ CqeWaitFinds \/ CqeWaitFails
           \/ HandleCqe \/ PollRechecks \/ PollFlags \/ UNCHANGED vars
  <2>1. /\ TypeOK' /\ UNCHANGED <<initVars, mem, buf>>
        /\ pc' = pc \/ pc' \in {"turn", "wait", "handle", "wake", "discard"}
      BY <1>0, <1>3, LookingTyped
  <2>2. pc' = pc \/ pc \in Looping
      BY <1>3, LoopLoops DEF LoopStep, Enqueue, Poll, vars, loopVars
  <2> QED BY <1>0, <2>1, <2>2, SetUpKept DEF Typed, WordsTyped, Looping
<1>4. CASE \/ Drain \/ PollTakes \/ CqeWaitEnters
           \/ \E o \in Entries, more \in BOOLEAN : Complete(o, more)
    BY <1>0, <1>4, KernelTyped, LoopLoops, SetUpKept
       DEF Typed, LoopStep, Poll, Looping
<1> QED BY <1>1, <1>2, <1>3, <1>4 DEF Next, LoopStep, Enqueue, Poll

-----------------------------------------------------------------------------
(* What steps have in common.                                               *)

(* Whatever the queues do keeps the owners apart.                           *)
LEMMA ApartStep ==
    ASSUME OwnersApart, [Rings!Next]_(Rings!queueVars)
    PROVE  OwnersApart'
<1>1. CASE UNCHANGED Rings!queueVars
    BY <1>1 DEF Rings!queueVars, OwnersApart
<1>2. ASSUME NEW o \in Owners, Rings!Enqueue(o)
      PROVE  OwnersApart'
  <2>1. /\ o \in Free /\ Free' = Free \ {o} /\ InOrder' = Append(InOrder, o)
        /\ inflight' = inflight /\ ToHandle' = ToHandle
      BY <1>2 DEF Rings!Enqueue
  <2>2. Apart(Append(InOrder, o), inflight, ToHandle, Free \ {o})
      BY <2>1, ApartEnqueue DEF OwnersApart
  <2> QED BY <2>1, <2>2 DEF OwnersApart
<1>3. ASSUME Rings!Take
      PROVE  OwnersApart'
  <2>1. /\ InOrder # <<>> /\ inflight' = inflight \cup {Head(InOrder)}
        /\ InOrder' = Tail(InOrder) /\ ToHandle' = ToHandle /\ Free' = Free
      BY <1>3 DEF Rings!Take
  <2>2. Apart(Tail(InOrder), inflight \cup {Head(InOrder)}, ToHandle, Free)
      BY <2>1, ApartTake DEF OwnersApart
  <2> QED BY <2>1, <2>2 DEF OwnersApart
<1>4. ASSUME NEW o \in Owners, NEW more \in BOOLEAN, Rings!Complete(o, more)
      PROVE  OwnersApart'
  <2>1. /\ o \in inflight /\ ToHandle' = Append(ToHandle, <<o, more>>)
        /\ inflight' = (IF more THEN inflight ELSE inflight \ {o})
        /\ InOrder' = InOrder /\ Free' = Free
      BY <1>4 DEF Rings!Complete
  <2>2. Apart(InOrder, IF more THEN inflight ELSE inflight \ {o},
              Append(ToHandle, <<o, more>>), Free)
      BY <2>1, ApartComplete DEF OwnersApart
  <2> QED BY <2>1, <2>2 DEF OwnersApart
<1>5. ASSUME Rings!Handle
      PROVE  OwnersApart'
  <2>1. /\ ToHandle # <<>> /\ ToHandle' = Tail(ToHandle)
        /\ Free' = (IF Head(ToHandle)[2] THEN Free ELSE Free \cup {Head(ToHandle)[1]})
        /\ InOrder' = InOrder /\ inflight' = inflight
      BY <1>5 DEF Rings!Handle
  <2>2. Apart(InOrder, inflight, Tail(ToHandle),
              IF Head(ToHandle)[2] THEN Free ELSE Free \cup {Head(ToHandle)[1]})
      BY <2>1, ApartHandle DEF OwnersApart
  <2> QED BY <2>1, <2>2 DEF OwnersApart
<1> QED BY <1>1, <1>2, <1>3, <1>4, <1>5 DEF Rings!Next

(* The rings do not change where the loop only goes on, to handle only a    *)
(* completion that is there.                                                *)
LEMMA GoesOn ==
    ASSUME TypeOK, RingsOK,
           UNCHANGED <<handled, sqeTail, cur, idx, idle, mem, buf, khead, inflight, cqVars>>,
           \/ pc' = pc
           \/ /\ {pc, pc'} \cap {"fill", "index", "tail"} = {}
              /\ pc' = "handle" => Looped[CqHead] # cqTail
              /\ pc' = "discard" => handled
              /\ handled => pc' \in {"discard", "wake"}
    PROVE  RingsOK' /\ UNCHANGED Rings!queueVars
<1>1. Seen' = Seen /\ Looped' = Looped /\ cqTail' = cqTail /\ khead' = khead
    BY DEF Seen, Looped, cqVars
<1>2. InOrder' = InOrder
    BY <1>1 DEF InOrder
<1>3. ToHandle' = ToHandle
  <2>1. HandledUpTo(handled', Looped') = HandledUpTo(handled, Looped)
      BY <1>1 DEF HandledUpTo
  <2> QED BY <1>1, <2>1 DEF ToHandle, cqVars
<1>4. Free' = Free
    BY DEF Free
<1>5. EntryBehindTail'
    BY <1>1 DEF EntryBehindTail, RingsOK, Filling
<1>6. RoomKept' /\ Handling'
    BY <1>1 DEF RoomKept, Handling, RingsOK
<1> QED BY <1>1, <1>2, <1>3, <1>4, <1>5, <1>6 DEF RingsOK, Rings!queueVars

(* A store of the loop.                                                     *)
LEMMA LoopStores ==
    ASSUME TypeOK, RingsOK, NEW w \in Words, NEW v \in Nat, Store(w, v),
           w \in {SqTail, CqHead} => v \in Counters
    PROVE  /\ mem' = mem /\ buf' \in Stores /\ Len(buf') <= BufferSize
           /\ Seen' = Stored(Seen, w, v) /\ ImagesOK(Seen')
           /\ Looped'[w] = v /\ \A x \in Words : x # w => Looped'[x] = Looped[x]
<1>1. mem \in Memory /\ buf \in Stores /\ Len(buf) \in Nat
    BY CountersAre DEF RingsOK
<1>2. mem' = mem /\ buf' = Append(buf, <<w, v>>) /\ Len(buf) < BufferSize
    BY DEF Store
<1>3. buf' \in Stores /\ Seen' = Stored(Seen, w, v)
    BY <1>1, <1>2, ImagesStore DEF Seen
<1>4. Len(buf') <= BufferSize
  <2>1. Len(buf') = Len(buf) + 1
      BY <1>1, <1>2 DEF Stores
  <2> QED BY <1>1, <1>2, <2>1, UringAssumption
<1>5. /\ ImagesOK(Stored(Seen, w, v)) /\ Last(Stored(Seen, w, v))[w] = v
      /\ \A x \in Words : x # w => Last(Stored(Seen, w, v))[x] = Last(Seen)[x]
    BY AddedImage DEF RingsOK
<1> QED BY <1>2, <1>3, <1>4, <1>5 DEF Looped

(* As long as the ring is not full, the entry behind the last one enqueued  *)
(* is none of those enqueued.                                               *)
LEMMA EntryIsFree ==
    ASSUME TypeOK, RingsOK, Waiting(Looped, khead) < SqEntries
    PROVE  LET s == Looped[SqTail] % SqEntries
           IN  /\ s \in SqPlaces
               /\ Index(s) \in Words /\ Sqe(s) \in Words
               /\ \A i \in Nat : i < Waiting(Looped, khead) =>
                    /\ Index(s) # Index(Slot(khead, i)) /\ Index(s) # Sqe(Slot(khead, i))
                    /\ Sqe(s) # Index(Slot(khead, i)) /\ Sqe(s) # Sqe(Slot(khead, i))
<1> DEFINE s == Looped[SqTail] % SqEntries
           n == Waiting(Looped, khead)
<1>1. khead \in Counters /\ Looped[SqTail] \in Counters
    BY CountersAre DEF RingsOK
<1>2. n = Dist(khead, Looped[SqTail]) /\ n \in Nat
  <2>1. n = Dist(khead, Looped[SqTail])
      BY DEF Waiting
  <2>2. Dist(khead, Looped[SqTail]) \in Counters
      BY <1>1, Counting
  <2> QED BY <2>1, <2>2 DEF Counters
<1>3. n < SqEntries
    OBVIOUS
<1>4. s = Slot(khead, n)
    BY <1>1, <1>2, Slots
<1> HIDE DEF s, n
<1>5. s \in SqPlaces
    BY <1>1, <1>2, <1>4, Slots
<1>6. \A i \in Nat : i < n => Slot(khead, i) # s
  <2> TAKE i \in Nat
  <2>1. CASE i < n
    <3>1. i < SqEntries /\ i # n
        BY <1>2, <1>3, <2>1, UringAssumption
    <3> QED BY <1>1, <1>2, <1>3, <1>4, <3>1, Slots
  <2> QED BY <2>1
<1> QED BY <1>3, <1>5, <1>6, DifferentWords DEF s, n

-----------------------------------------------------------------------------
(* The steps.  Each keeps the images in order, and is a step of the queues  *)
(* or none.                                                                 *)
Orderly == TypeOK /\ RingsOK /\ OwnersApart
Follows == RingsOK' /\ [Rings!Next]_(Rings!queueVars)

(* The set-up does not touch the rings.                                     *)
LEMMA SetUpSteps ==
    ASSUME Orderly, UringInit
    PROVE  Follows
<1>1. UNCHANGED ringVars
    BY DEF UringInit, SetupFails, Setup, MapSq, MapCq, MapSqe, Map, UnmapCq, UnmapSq,
       CloseRing, UsesUnmapped
<1>2. /\ pc \in {"setup", "map sq", "map cq", "map sqe", "unmap cq", "unmap sq",
                 "close", "returned", "turn"}
      /\ pc' \in {"map sq", "map cq", "map sqe", "unmap cq", "unmap sq",
                  "close", "returned", "turn", "dead"}
    BY DEF UringInit, SetupFails, Setup, MapSq, MapCq, MapSqe, Map, UnmapCq, UnmapSq,
       CloseRing, UsesUnmapped
<1>3. RingsOK' /\ UNCHANGED Rings!queueVars
  <2>1. /\ UNCHANGED <<handled, sqeTail, cur, idx, idle, mem, buf, khead, inflight, cqVars>>
        /\ {pc, pc'} \cap {"fill", "index", "tail"} = {} /\ pc' \notin {"handle", "discard"}
      BY <1>1, <1>2 DEF ringVars, pollVars
  <2>2. ~handled
      BY <1>2 DEF Orderly, RingsOK, Handling
  <2> QED BY <2>1, <2>2, GoesOn DEF Orderly
<1> QED BY <1>3 DEF Follows

(* Looking at a flag, at the tails or going to sleep changes no queue.      *)
LEMMA LookingSteps ==
    ASSUME Orderly, LoadFlags \/ EnterWakeup \/ CqPeek \/ CqeWaitFinds \/ CqeWaitFails
                 \/ PollRechecks \/ PollFlags \/ UNCHANGED vars
    PROVE  Follows
<1>1. CqEmpty <=> Looped[CqHead] = cqTail
    BY CountersAre, DifferentWords DEF Orderly, RingsOK, CqEmpty
<1>2. /\ UNCHANGED <<initVars, handled, sqeTail, cur, idx, idle, mem, buf, khead,
                      inflight, cqVars>>
      /\ \/ pc' = pc
         \/ /\ pc \in {"turn", "wait", "blocked"}
            /\ pc' \in {"turn", "wait", "handle"}
            /\ pc' = "handle" => ~CqEmpty
         \/ pc \in {"flags", "wake"} /\ pc' \in {"wake", Onward}
      /\ kpc' \in {"poll", "recheck", "asleep"} /\ needWakeup' \in BOOLEAN
  <2>0. kpc \in {"poll", "recheck", "asleep"} /\ needWakeup \in BOOLEAN
      BY DEF Orderly, TypeOK
  <2>1. CASE LoadFlags
      BY <2>0, <2>1 DEF LoadFlags, pollVars
  <2>2. CASE EnterWakeup
      BY <2>2 DEF EnterWakeup
  <2>3. CASE CqPeek
      BY <2>0, <2>3 DEF CqPeek, LoopAt, pollVars
  <2>4. CASE CqeWaitFinds
      BY <2>0, <2>4 DEF CqeWaitFinds, LoopAt, pollVars
  <2>5. CASE CqeWaitFails
      BY <2>0, <2>5 DEF CqeWaitFails, LoopAt, pollVars
  <2>6. CASE PollRechecks
      BY <2>0, <2>6 DEF PollRechecks, loopVars
  <2>7. CASE PollFlags
      BY <2>7 DEF PollFlags, loopVars
  <2>8. CASE UNCHANGED vars
      BY <2>0, <2>8 DEF vars, loopVars, pollVars
  <2> QED BY <2>1, <2>2, <2>3, <2>4, <2>5, <2>6, <2>7, <2>8
<1>3. RingsOK' /\ UNCHANGED Rings!queueVars
  <2>1. pc \in {"turn", "wait", "blocked"} => ~handled
      BY DEF Orderly, RingsOK, Handling
  <2>2. /\ pc' \in {"wake", Onward} => pc' = "wake" \/ pc' = IF handled THEN "discard" ELSE "turn"
        /\ handled \in BOOLEAN
      BY DEF Onward, Orderly, TypeOK
  <2>3. \/ pc' = pc
        \/ /\ {pc, pc'} \cap {"fill", "index", "tail"} = {}
           /\ pc' = "handle" => Looped[CqHead] # cqTail
           /\ pc' = "discard" => handled
           /\ handled => pc' \in {"discard", "wake"}
      BY <1>1, <1>2, <2>1, <2>2
  <2> QED BY <1>2, <2>3, GoesOn DEF Orderly
<1>4. pc' = pc \/ pc' \in {"turn", "wait", "handle", "wake", "discard"}
    BY <1>2 DEF Onward
<1> QED BY <1>3 DEF Follows

(* A store elsewhere than at the tail, and in no entry enqueued, leaves the *)
(* submission queue as it was.                                              *)
LEMMA StoreAsideStep ==
    ASSUME TypeOK, RingsOK, NEW w \in Words, NEW v \in Nat, Store(w, v), w # SqTail,
           w = CqHead => v \in Counters /\ Dist(v, cqTail) <= Left(Looped, cqTail),
           \A i \in Nat : i < Waiting(Looped, khead) =>
             w # Index(Slot(khead, i)) /\ w # Sqe(Slot(khead, i)),
           khead' = khead, cqTail' = cqTail
    PROVE  /\ InOrder' = InOrder /\ Looped'[SqTail] = Looped[SqTail]
           /\ ImagesOK(Seen') /\ TailsInOrder(Seen', khead') /\ EntriesFilled(Seen', khead')
           /\ HeadsInOrder(Seen', cqTail') /\ Left(mem', cqTail') <= CqEntries
<1>1. khead \in Counters /\ cqTail \in Counters
    BY CountersAre DEF RingsOK
<1>2. /\ ImagesOK(Seen) /\ TailsInOrder(Seen, khead) /\ EntriesFilled(Seen, khead)
      /\ HeadsInOrder(Seen, cqTail) /\ Left(mem, cqTail) <= CqEntries
    BY DEF RingsOK, RoomKept
<1>3. /\ mem' = mem /\ Seen' = Stored(Seen, w, v) /\ ImagesOK(Seen')
      /\ \A x \in Words : x # w => Looped'[x] = Looped[x]
    BY LoopStores
<1>4. TailsInOrder(Seen', khead) /\ EntriesFilled(Seen', khead)
      /\ Queued(Seen', khead) = Queued(Seen, khead)
    BY <1>1, <1>2, <1>3, StoreAside DEF Looped
<1>5. HeadsInOrder(Seen', cqTail)
    BY <1>1, <1>2, <1>3, StoreHead DEF Looped
<1>6. Looped'[SqTail] = Looped[SqTail]
    BY <1>3, DifferentWords
<1> QED BY <1>2, <1>3, <1>4, <1>5, <1>6 DEF InOrder

(* How much is enqueued depends on the tail the loop sees,                  *)
LEMMA WaitingKept ==
    ASSUME Looped'[SqTail] = Looped[SqTail], khead' = khead
    PROVE  Waiting(Looped', khead') = Waiting(Looped, khead)
BY DEF Waiting

(* and what is to be handled on the head it sees.                           *)
LEMMA ToHandleKept ==
    ASSUME Looped'[CqHead] = Looped[CqHead], UNCHANGED <<handled, cqVars>>
    PROVE  ToHandle' = ToHandle
BY DEF ToHandle, HandledUpTo, cqVars

(* cg_uring_sqe_get clears the entry behind the tail.                       *)
LEMMA SqeGetStep ==
    ASSUME Orderly, NEW o \in Owners, SqeGet(o), ~overrun'
    PROVE  Follows
<1> DEFINE s == sqeTail % SqEntries
<1>1. /\ pc \in {"turn", "discard"} /\ o \in idle /\ pc' = "fill" /\ cur' = o /\ idle' = idle \ {o}
      /\ idx' = s /\ Store(Sqe(s), Zeroed) /\ sqeTail' = Inc(sqeTail)
      /\ UNCHANGED <<initVars, handled, pollVars, inflight, cqVars>>
    BY DEF SqeGet
<1>2. TypeOK /\ RingsOK /\ OwnersApart
    BY DEF Orderly
<1>3. sqeTail = Looped[SqTail] /\ sqeTail \in Counters
    BY <1>1, <1>2, CountersAre DEF RingsOK, EntryBehindTail, Filling
<1>4. o \in Free /\ Free' = Free
    BY <1>1 DEF Free
<1>5. /\ s \in SqPlaces /\ Sqe(s) \in Words
      /\ \A i \in Nat : i < Waiting(Looped, khead) =>
           Sqe(s) # Index(Slot(khead, i)) /\ Sqe(s) # Sqe(Slot(khead, i))
      /\ Waiting(Looped, khead) < SqEntries
  <2>1. ~(Dist(khead, sqeTail) >= SqEntries)
      BY DEF SqeGet
  <2>2. khead \in Counters /\ Dist(khead, sqeTail) \in Counters
      BY <1>2, <1>3, CountersAre, Counting DEF RingsOK
  <2>3. Dist(khead, sqeTail) < SqEntries
      BY <2>1, <2>2, UringAssumption DEF Counters
  <2>4. Waiting(Looped, khead) < SqEntries
      BY <1>3, <2>3 DEF Waiting
  <2> QED BY <1>2, <1>3, <2>4, EntryIsFree
<1>6. Sqe(s) # SqTail /\ Sqe(s) # CqHead /\ Zeroed \in Nat
    BY <1>5, DifferentWords DEF Zeroed
<1> HIDE DEF s
<1>7. khead' = khead /\ cqTail' = cqTail
    BY <1>1 DEF pollVars, cqVars
<1>8. /\ InOrder' = InOrder /\ Looped'[SqTail] = Looped[SqTail]
      /\ ImagesOK(Seen') /\ TailsInOrder(Seen', khead') /\ EntriesFilled(Seen', khead')
      /\ HeadsInOrder(Seen', cqTail') /\ Left(mem', cqTail') <= CqEntries
    BY <1>1, <1>2, <1>5, <1>6, <1>7, StoreAsideStep
<1>9. /\ mem' = mem /\ buf' \in Stores /\ Len(buf') <= BufferSize
      /\ \A x \in Words : x # Sqe(s) => Looped'[x] = Looped[x]
    BY <1>1, <1>2, <1>5, <1>6, LoopStores
<1>10. ToHandle' = ToHandle
    BY <1>1, <1>6, <1>9, DifferentWords, ToHandleKept
<1>11. EntryBehindTail'
    BY <1>1, <1>3, <1>5, <1>7, <1>8, WaitingKept DEF EntryBehindTail, Filling, s
<1>12. RingsOK'
  <2>1. Looped'[CqHead] = Looped[CqHead]
      BY <1>6, <1>9, DifferentWords
  <2>2. RoomKept' /\ Handling'
      BY <1>1, <1>2, <1>7, <1>8, <2>1 DEF RingsOK, RoomKept, Handling
  <2> QED BY <1>8, <1>11, <2>2 DEF RingsOK
<1>13. UNCHANGED Rings!queueVars
    BY <1>1, <1>4, <1>8, <1>10 DEF Rings!queueVars
<1> QED BY <1>12, <1>13 DEF Follows

(* The caller fills the entry.                                              *)
LEMMA FillStep ==
    ASSUME Orderly, Fill
    PROVE  Follows
<1>1. /\ pc = "fill" /\ pc' = "index" /\ Store(Sqe(idx), cur)
      /\ UNCHANGED <<initVars, handled, sqeTail, cur, idx, idle, pollVars, inflight, cqVars>>
    BY DEF Fill
<1>2. TypeOK /\ RingsOK /\ OwnersApart
    BY DEF Orderly
<1>3. /\ cur \in Owners /\ cur \notin idle /\ idx = Looped[SqTail] % SqEntries
      /\ sqeTail = Inc(Looped[SqTail]) /\ cur \in Nat
      /\ Waiting(Looped, khead) < SqEntries
    BY <1>1, <1>2, UringAssumption DEF RingsOK, EntryBehindTail, Filling
<1>4. cur \in Free /\ Free' = Free
    BY <1>1 DEF Free
<1>5. /\ idx \in SqPlaces /\ Sqe(idx) \in Words
      /\ \A i \in Nat : i < Waiting(Looped, khead) =>
           Sqe(idx) # Index(Slot(khead, i)) /\ Sqe(idx) # Sqe(Slot(khead, i))
    BY <1>2, <1>3, EntryIsFree
<1>6. Sqe(idx) # SqTail /\ Sqe(idx) # CqHead
    BY <1>5, DifferentWords
<1>7. khead' = khead /\ cqTail' = cqTail
    BY <1>1 DEF pollVars, cqVars
<1>8. /\ InOrder' = InOrder /\ Looped'[SqTail] = Looped[SqTail]
      /\ ImagesOK(Seen') /\ TailsInOrder(Seen', khead') /\ EntriesFilled(Seen', khead')
      /\ HeadsInOrder(Seen', cqTail') /\ Left(mem', cqTail') <= CqEntries
    BY <1>1, <1>2, <1>3, <1>5, <1>6, <1>7, StoreAsideStep
<1>9. /\ mem' = mem /\ buf' \in Stores /\ Len(buf') <= BufferSize
      /\ Looped'[Sqe(idx)] = cur
      /\ \A x \in Words : x # Sqe(idx) => Looped'[x] = Looped[x]
    BY <1>1, <1>2, <1>3, <1>5, <1>6, LoopStores
<1>10. ToHandle' = ToHandle
    BY <1>1, <1>6, <1>9, DifferentWords, ToHandleKept
<1>11. EntryBehindTail'
    BY <1>1, <1>3, <1>7, <1>8, <1>9, WaitingKept DEF EntryBehindTail, Filling
<1>12. RingsOK'
  <2>1. Looped'[CqHead] = Looped[CqHead]
      BY <1>6, <1>9, DifferentWords
  <2>2. RoomKept' /\ Handling'
      BY <1>1, <1>2, <1>7, <1>8, <2>1 DEF RingsOK, RoomKept, Handling
  <2> QED BY <1>8, <1>11, <2>2 DEF RingsOK
<1>13. UNCHANGED Rings!queueVars
    BY <1>1, <1>4, <1>8, <1>10 DEF Rings!queueVars
<1> QED BY <1>12, <1>13 DEF Follows

(* cg_uring_sq_enqueue stores its index,                                    *)
LEMMA StoreIndexStep ==
    ASSUME Orderly, StoreIndex
    PROVE  Follows
<1>1. TypeOK /\ RingsOK /\ OwnersApart
    BY DEF Orderly
<1>2. View(SqTail) = Looped[SqTail]
    BY <1>1, CountersAre, DifferentWords DEF RingsOK
<1>3. /\ pc = "index" /\ pc' = "tail" /\ Store(Index(Looped[SqTail] % SqEntries), idx)
      /\ UNCHANGED <<initVars, handled, sqeTail, cur, idx, idle, pollVars, inflight, cqVars>>
    BY <1>2 DEF StoreIndex
<1>4. /\ cur \in Owners /\ cur \notin idle /\ idx = Looped[SqTail] % SqEntries
      /\ sqeTail = Inc(Looped[SqTail]) /\ Looped[Sqe(idx)] = cur
      /\ Waiting(Looped, khead) < SqEntries
    BY <1>1, <1>3 DEF RingsOK, EntryBehindTail, Filling
<1>5. cur \in Free /\ Free' = Free
    BY <1>3 DEF Free
<1>6. /\ idx \in SqPlaces /\ Index(idx) \in Words /\ Sqe(idx) \in Words
      /\ \A i \in Nat : i < Waiting(Looped, khead) =>
           Index(idx) # Index(Slot(khead, i)) /\ Index(idx) # Sqe(Slot(khead, i))
    BY <1>1, <1>4, EntryIsFree
<1>7. Index(idx) # SqTail /\ Index(idx) # CqHead /\ Index(idx) # Sqe(idx) /\ idx \in Nat
    BY <1>6, DifferentWords DEF SqPlaces
<1>8. khead' = khead /\ cqTail' = cqTail /\ Store(Index(idx), idx)
    BY <1>3, <1>4 DEF pollVars, cqVars
<1>9. /\ InOrder' = InOrder /\ Looped'[SqTail] = Looped[SqTail]
      /\ ImagesOK(Seen') /\ TailsInOrder(Seen', khead') /\ EntriesFilled(Seen', khead')
      /\ HeadsInOrder(Seen', cqTail') /\ Left(mem', cqTail') <= CqEntries
    BY <1>1, <1>6, <1>7, <1>8, StoreAsideStep
<1>10. /\ mem' = mem /\ buf' \in Stores /\ Len(buf') <= BufferSize
       /\ Looped'[Index(idx)] = idx
       /\ \A x \in Words : x # Index(idx) => Looped'[x] = Looped[x]
    BY <1>1, <1>6, <1>7, <1>8, LoopStores
<1>11. ToHandle' = ToHandle
    BY <1>3, <1>7, <1>10, DifferentWords, ToHandleKept
<1>12. EntryBehindTail'
  <2>1. Looped'[Sqe(idx)] = cur
      BY <1>4, <1>6, <1>7, <1>10
  <2> QED BY <1>3, <1>4, <1>8, <1>9, <1>10, <2>1, WaitingKept DEF EntryBehindTail, Filling
<1>13. RingsOK'
  <2>1. Looped'[CqHead] = Looped[CqHead]
      BY <1>7, <1>10, DifferentWords
  <2>2. RoomKept' /\ Handling'
      BY <1>1, <1>3, <1>8, <1>9, <2>1 DEF RingsOK, RoomKept, Handling
  <2> QED BY <1>9, <1>12, <2>2 DEF RingsOK
<1>14. UNCHANGED Rings!queueVars
    BY <1>3, <1>5, <1>9, <1>11 DEF Rings!queueVars
<1> QED BY <1>13, <1>14 DEF Follows

(* and the tail: the entry is enqueued.                                     *)
LEMMA StoreTailStep ==
    ASSUME Orderly, StoreTail
    PROVE  Follows
<1>1. TypeOK /\ RingsOK /\ OwnersApart
    BY DEF Orderly
<1>2. /\ View(SqTail) = Looped[SqTail] /\ khead \in Counters /\ cqTail \in Counters
      /\ Looped[SqTail] \in Counters
    BY <1>1, CountersAre, DifferentWords DEF RingsOK
<1>3. /\ pc = "tail" /\ pc' = "flags" /\ Store(SqTail, Inc(Looped[SqTail]))
      /\ UNCHANGED <<initVars, handled, sqeTail, cur, idx, idle, pollVars, inflight, cqVars>>
    BY <1>2 DEF StoreTail
<1>4. /\ cur \in Owners /\ cur \notin idle /\ idx = Looped[SqTail] % SqEntries
      /\ sqeTail = Inc(Looped[SqTail]) /\ Looped[Sqe(idx)] = cur /\ Looped[Index(idx)] = idx
    BY <1>1, <1>3 DEF RingsOK, EntryBehindTail, Filling
<1>5. cur \in Free /\ Free' = Free \ {cur}
    BY <1>3, <1>4 DEF Free
<1>6. Waiting(Looped, khead) < SqEntries
    BY <1>1, <1>3 DEF RingsOK, EntryBehindTail, Filling
<1>7. Inc(Looped[SqTail]) \in Counters /\ Inc(Looped[SqTail]) \in Nat
  <2>1. Inc(Looped[SqTail]) \in Counters
      BY <1>2, Counting
  <2> QED BY <2>1 DEF Counters
<1>8. SqTail \in Words /\ CqHead \in Words /\ SqTail # CqHead
    BY DifferentWords
<1>9. /\ mem' = mem /\ buf' \in Stores /\ Len(buf') <= BufferSize
      /\ Seen' = Stored(Seen, SqTail, Inc(Looped[SqTail])) /\ ImagesOK(Seen')
      /\ Looped'[SqTail] = Inc(Looped[SqTail])
      /\ \A x \in Words : x # SqTail => Looped'[x] = Looped[x]
    BY <1>1, <1>3, <1>7, <1>8, LoopStores
<1>10. /\ ImagesOK(Seen) /\ TailsInOrder(Seen, khead) /\ EntriesFilled(Seen, khead)
       /\ HeadsInOrder(Seen, cqTail) /\ Left(mem, cqTail) <= CqEntries
    BY <1>1 DEF RingsOK, RoomKept
<1>11. khead' = khead /\ cqTail' = cqTail
    BY <1>3 DEF pollVars, cqVars
<1>12. /\ TailsInOrder(Seen', khead') /\ EntriesFilled(Seen', khead')
       /\ InOrder' = Append(InOrder, cur)
    BY <1>2, <1>4, <1>6, <1>9, <1>10, <1>11, StoreTheTail DEF Looped, InOrder
<1>13. HeadsInOrder(Seen', cqTail')
    BY <1>2, <1>7, <1>8, <1>9, <1>10, <1>11, StoreHead
<1>14. ToHandle' = ToHandle
    BY <1>3, <1>8, <1>9, ToHandleKept
<1>15. EntryBehindTail'
    BY <1>3, <1>4, <1>9 DEF EntryBehindTail, Filling
<1>16. RingsOK'
  <2>1. Looped'[CqHead] = Looped[CqHead]
      BY <1>8, <1>9
  <2>2. RoomKept' /\ Handling'
      BY <1>1, <1>3, <1>9, <1>10, <1>11, <2>1 DEF RingsOK, RoomKept, Handling
  <2> QED BY <1>9, <1>12, <1>13, <1>15, <2>2 DEF RingsOK
<1>17. Rings!Enqueue(cur)
    BY <1>3, <1>5, <1>12, <1>14 DEF Rings!Enqueue
<1> QED BY <1>4, <1>16, <1>17 DEF Follows, Rings!Next

(* A store becomes visible.                                                 *)
LEMMA DrainStep ==
    ASSUME Orderly, Drain
    PROVE  Follows
<1>1. TypeOK /\ RingsOK /\ OwnersApart
    BY DEF Orderly
<1>2. /\ buf # <<>> /\ mem' = [mem EXCEPT ![Head(buf)[1]] = Head(buf)[2]]
      /\ buf' = Tail(buf)
      /\ UNCHANGED <<initVars, loopVars, pollVars, inflight, cqVars>>
    BY DEF Drain
<1>3. /\ mem \in Memory /\ buf \in Stores /\ Len(buf) \in Nat
      /\ khead \in Counters /\ cqTail \in Counters
      /\ Seen[1] = mem /\ Len(Seen) = Len(buf) + 1
    BY <1>1, CountersAre DEF RingsOK
<1>4. /\ mem' \in Memory /\ buf' \in Stores /\ Len(buf') = Len(buf) - 1
      /\ Seen' = Tail(Seen)
    BY <1>2, <1>3, ImagesDrain DEF Seen
<1>5. Len(Seen) > 1
  <2>1. Len(buf) # 0
      BY <1>2, <1>3 DEF Stores
  <2> QED BY <1>3, <2>1
<1>6. Seen'[1] = mem'
    BY <1>4, ImagesAre DEF Seen
<1>7. khead' = khead /\ cqTail' = cqTail
    BY <1>2 DEF pollVars, cqVars
<1>8. /\ ImagesOK(Seen) /\ TailsInOrder(Seen, khead) /\ EntriesFilled(Seen, khead)
      /\ HeadsInOrder(Seen, cqTail) /\ Left(mem, cqTail) <= CqEntries
    BY <1>1 DEF RingsOK, RoomKept
<1>9. /\ ImagesOK(Seen') /\ Looped' = Looped
      /\ TailsInOrder(Seen', khead') /\ EntriesFilled(Seen', khead')
      /\ InOrder' = InOrder
    BY <1>3, <1>4, <1>5, <1>7, <1>8, DropImage DEF Looped, InOrder
<1>10. HeadsInOrder(Seen', cqTail') /\ Left(mem', cqTail') <= Left(mem, cqTail)
    BY <1>3, <1>4, <1>5, <1>6, <1>7, <1>8, DropHead
<1>11. Left(mem', cqTail') <= CqEntries
  <2>1. Left(mem, cqTail) \in Nat
      BY <1>3, <1>8, FirstLeavesMost
  <2>2. mem'[CqHead] \in Counters
      BY <1>6, <1>9 DEF ImagesOK
  <2>3. Left(mem', cqTail') \in Nat
    <3>1. Dist(mem'[CqHead], cqTail') \in Counters
        BY <1>3, <1>7, <2>2, Counting
    <3> QED BY <3>1 DEF Left, Counters
  <2> QED BY <1>8, <1>10, <2>1, <2>3, UringAssumption
<1>12. EntryBehindTail'
    BY <1>1, <1>2, <1>7, <1>9 DEF RingsOK, EntryBehindTail, Filling, loopVars
<1>13. RingsOK'
    BY <1>1, <1>2, <1>9, <1>10, <1>11, <1>12 DEF RingsOK, RoomKept, Handling, loopVars, cqVars
<1>14. UNCHANGED Rings!queueVars
    BY <1>2, <1>9 DEF Rings!queueVars, ToHandle, Free, loopVars, cqVars
<1> QED BY <1>13, <1>14 DEF Follows

(* The polling thread takes the oldest entry.                               *)
LEMMA PollTakesStep ==
    ASSUME Orderly, PollTakes
    PROVE  Follows
<1>1. TypeOK /\ RingsOK /\ OwnersApart
    BY DEF Orderly
<1>2. /\ khead # mem[SqTail] /\ khead' = Inc(khead)
      /\ inflight' = inflight \cup {mem[Sqe(mem[Index(khead % SqEntries)])]}
      /\ UNCHANGED <<initVars, loopVars, mem, buf, kpc, needWakeup, cqVars>>
    BY DEF PollTakes
<1>3. khead \in Counters /\ cqTail \in Counters /\ Seen[1] = mem
    BY <1>1, CountersAre DEF RingsOK
<1>4. ImagesOK(Seen) /\ TailsInOrder(Seen, khead) /\ EntriesFilled(Seen, khead)
    BY <1>1 DEF RingsOK
<1>5. Seen' = Seen /\ Looped' = Looped
    BY <1>2 DEF Seen, Looped
<1>6. /\ InOrder # <<>>
      /\ mem[Sqe(mem[Index(khead % SqEntries)])] = Head(InOrder)
      /\ TailsInOrder(Seen, Inc(khead)) /\ EntriesFilled(Seen, Inc(khead))
      /\ Queued(Seen, Inc(khead)) = Tail(InOrder)
      /\ Waiting(Looped, khead) \in Nat
      /\ Waiting(Looped, Inc(khead)) = Waiting(Looped, khead) - 1
    BY <1>2, <1>3, <1>4, TakeOldest DEF InOrder, Looped
<1>7. InOrder' = Tail(InOrder) /\ inflight' = inflight \cup {Head(InOrder)}
    BY <1>2, <1>5, <1>6 DEF InOrder
<1>8. Rings!Take
    BY <1>2, <1>5, <1>6, <1>7 DEF Rings!Take, ToHandle, Free, loopVars, cqVars
<1>9. EntryBehindTail' /\ RoomKept' /\ Handling'
  <2>1. Waiting(Looped, khead) < SqEntries => Waiting(Looped', khead') < SqEntries
      BY <1>2, <1>5, <1>6, UringAssumption
  <2> QED BY <1>1, <1>2, <1>5, <2>1
          DEF RingsOK, EntryBehindTail, RoomKept, Handling, Filling, loopVars, cqVars
<1>10. RingsOK'
    BY <1>1, <1>2, <1>5, <1>6, <1>9 DEF RingsOK, cqVars
<1> QED BY <1>8, <1>10 DEF Follows, Rings!Next

(* The head and the rest of two sequences one after the other.              *)
LEMMA FrontOfTwo ==
    ASSUME NEW S, NEW p \in Seq(S), NEW r \in Seq(S), p # <<>>
    PROVE  p \o r # <<>> /\ Head(p \o r) = Head(p) /\ Tail(p \o r) = Tail(p) \o r
<1> DEFINE q == p \o r
           x == Tail(q)
           y == Tail(p) \o r
           n == Len(p)
           m == Len(r)
<1>1. n \in Nat /\ n > 0 /\ m \in Nat
    OBVIOUS
<1>2. q \in Seq(S) /\ Len(q) = n + m /\ \A i \in 1 .. (n + m) : q[i] = IF i <= n THEN p[i] ELSE r[i - n]
    OBVIOUS
<1>3. Tail(p) \in Seq(S) /\ Len(Tail(p)) = n - 1 /\ \A i \in 1 .. (n - 1) : Tail(p)[i] = p[i + 1]
    BY <1>1
<1> HIDE DEF q
<1>4. q # <<>> /\ Head(q) = p[1] /\ Head(p) = p[1]
    BY <1>1, <1>2
<1>5. x \in Seq(S) /\ Len(x) = n + m - 1 /\ \A i \in 1 .. (n + m - 1) : x[i] = q[i + 1]
  <2>1. Len(q) \in Nat /\ Len(q) > 0 /\ q # <<>>
      BY <1>1, <1>2
  <2>2. x \in Seq(S) /\ Len(x) = Len(q) - 1 /\ \A i \in 1 .. (Len(q) - 1) : x[i] = q[i + 1]
      BY <1>2, <2>1
  <2> HIDE DEF x
  <2> QED BY <1>2, <2>2
<1>6. /\ y \in Seq(S) /\ Len(y) = n + m - 1
      /\ \A i \in 1 .. (n + m - 1) : y[i] = IF i <= n - 1 THEN Tail(p)[i] ELSE r[i - (n - 1)]
    BY <1>1, <1>3
<1> HIDE DEF x, y, n, m
<1>7. \A i \in 1 .. (n + m - 1) : x[i] = y[i]
  <2> TAKE i \in 1 .. (n + m - 1)
  <2>1. i + 1 \in 1 .. (n + m) /\ (i + 1) - n = i - (n - 1)
      BY <1>1
  <2>2. CASE i <= n - 1
    <3>1. i \in 1 .. (n - 1) /\ i + 1 <= n
        BY <1>1, <2>2
    <3> QED BY <1>2, <1>3, <1>5, <1>6, <2>1, <2>2, <3>1
  <2>3. CASE ~(i <= n - 1)
    <3>1. ~(i + 1 <= n)
        BY <1>1, <2>3
    <3> QED BY <1>2, <1>5, <1>6, <2>1, <2>3, <3>1
  <2> QED BY <2>2, <2>3
<1>8. x = y
    BY <1>5, <1>6, <1>7, SeqEqual
<1> QED BY <1>4, <1>8 DEF q, x, y

(* What is to be handled, in the ring and in the backlog.                   *)
LEMMA ToHandleIs ==
    ASSUME TypeOK, RingsOK
    PROVE  LET h == HandledUpTo(handled, Looped)
           IN  /\ h \in Counters /\ cqTail \in Counters
               /\ Posted(h, cqTail, cqes) \in Seq(Completion) /\ backlog \in Seq(Completion)
               /\ Dist(h, cqTail) \in Nat
               /\ Dist(h, cqTail) <= Left(Looped, cqTail)
<1> DEFINE h == HandledUpTo(handled, Looped)
<1>1. /\ cqTail \in Counters /\ Looped[CqHead] \in Counters
      /\ cqes \in [CqPlaces -> Completion] /\ backlog \in Seq(Completion)
    BY CountersAre DEF RingsOK
<1>2. h \in Counters
    BY <1>1, Counting DEF HandledUpTo
<1>3. Dist(h, cqTail) <= Left(Looped, cqTail)
  <2>1. Dist(Looped[CqHead], cqTail) \in Nat
    <3>1. Dist(Looped[CqHead], cqTail) \in Counters
        BY <1>1, Counting
    <3> QED BY <3>1 DEF Counters
  <2>2. CASE handled
    <3>1. Looped[CqHead] # cqTail
        BY <2>2 DEF RingsOK, RoomKept
    <3>2. Dist(Inc(Looped[CqHead]), cqTail) = Dist(Looped[CqHead], cqTail) - 1
        BY <1>1, <3>1, HandleOne
    <3> QED BY <2>1, <2>2, <3>2 DEF HandledUpTo, Left
  <2>3. CASE ~handled
      BY <2>1, <2>3 DEF HandledUpTo, Left
  <2> QED BY <2>2, <2>3
<1> HIDE DEF h
<1>4. Posted(h, cqTail, cqes) \in Seq(Completion) /\ Dist(h, cqTail) \in Nat
    BY <1>1, <1>2, PostedType
<1> QED BY <1>1, <1>2, <1>3, <1>4 DEF h

(* The handler reads the oldest completion.                                 *)
LEMMA HandleStep ==
    ASSUME Orderly, HandleCqe
    PROVE  Follows
<1> DEFINE h == Looped[CqHead]
           e == cqes[h % CqEntries]
           p == Posted(h, cqTail, cqes)
<1>1. TypeOK /\ RingsOK /\ OwnersApart
    BY DEF Orderly
<1>2. /\ View(CqHead) = h /\ h \in Counters /\ cqTail \in Counters
      /\ cqes \in [CqPlaces -> Completion] /\ backlog \in Seq(Completion)
    BY <1>1, CountersAre, DifferentWords DEF RingsOK
<1>3. /\ pc = "handle" /\ pc' = "discard" /\ handled = FALSE /\ handled' = TRUE
      /\ idle' = (IF e[2] THEN idle ELSE idle \cup ({e[1]} \ {Zeroed}))
      /\ UNCHANGED <<initVars, sqeTail, cur, idx, mem, buf, pollVars, inflight, cqVars>>
    BY <1>1, <1>2 DEF HandleCqe, RingsOK, Handling, TypeOK
<1>4. h # cqTail
    BY <1>1, <1>3 DEF RingsOK, RoomKept
<1>5. /\ p # <<>> /\ Head(p) = e /\ Posted(Inc(h), cqTail, cqes) = Tail(p)
      /\ p \in Seq(Completion)
    BY <1>2, <1>4, HandleOne, PostedType
<1>6. Seen' = Seen /\ Looped' = Looped
    BY <1>3 DEF Seen, Looped
<1>7. ToHandle = p \o backlog /\ ToHandle' = Tail(p) \o backlog
  <2>1. HandledUpTo(handled, Looped) = h /\ HandledUpTo(handled', Looped') = Inc(h)
      BY <1>3, <1>6 DEF HandledUpTo
  <2> QED BY <1>3, <1>5, <2>1 DEF ToHandle, cqVars
<1> HIDE DEF e, p, h
<1>8. ToHandle # <<>> /\ Head(ToHandle) = e /\ ToHandle' = Tail(ToHandle)
    BY <1>2, <1>5, <1>7, FrontOfTwo
<1>9. /\ Free = idle /\ Free' = idle'
      /\ idle' = (IF e[2] THEN idle ELSE idle \cup {e[1]})
  <2>1. e \in Owners \X BOOLEAN
      BY <1>1, <1>8, ApartHandle DEF OwnersApart
  <2>2. {e[1]} \ {Zeroed} = {e[1]}
      BY <2>1, UringAssumption DEF Zeroed
  <2> QED BY <1>3, <2>2 DEF Free
<1>10. InOrder' = InOrder
    BY <1>3, <1>6 DEF InOrder, pollVars
<1>11. Rings!Handle
    BY <1>3, <1>8, <1>9, <1>10 DEF Rings!Handle
<1>12. EntryBehindTail' /\ RoomKept' /\ Handling'
    BY <1>1, <1>3, <1>6 DEF RingsOK, EntryBehindTail, RoomKept, Handling, Filling, cqVars
<1>13. RingsOK'
    BY <1>1, <1>3, <1>6, <1>12 DEF RingsOK, pollVars, cqVars
<1> QED BY <1>11, <1>13 DEF Follows, Rings!Next

(* cg_uring_cq_discard gives its entry back.                                *)
LEMMA DiscardStep ==
    ASSUME Orderly, CqDiscard
    PROVE  Follows
<1> DEFINE h == Looped[CqHead]
<1>1. TypeOK /\ RingsOK /\ OwnersApart
    BY DEF Orderly
<1>2. /\ View(CqHead) = h /\ h \in Counters /\ cqTail \in Counters /\ khead \in Counters
      /\ cqes \in [CqPlaces -> Completion]
    BY <1>1, CountersAre, DifferentWords DEF RingsOK
<1>3. /\ pc = "discard" /\ pc' = "turn" /\ handled = TRUE /\ handled' = FALSE
      /\ Store(CqHead, Inc(h))
      /\ UNCHANGED <<initVars, sqeTail, cur, idx, idle, pollVars, inflight, cqVars>>
    BY <1>1, <1>2 DEF CqDiscard, Discard, RingsOK, Handling, TypeOK
<1>4. Inc(h) \in Counters /\ Inc(h) \in Nat
  <2>1. Inc(h) \in Counters
      BY <1>2, Counting
  <2> QED BY <2>1 DEF Counters
<1>5. /\ CqHead \in Words /\ CqHead # SqTail
      /\ \A i \in Nat : CqHead # Index(Slot(khead, i)) /\ CqHead # Sqe(Slot(khead, i))
    BY <1>2, Slots, DifferentWords
<1>6. Dist(Inc(h), cqTail) <= Left(Looped, cqTail)
  <2>1. HandledUpTo(handled, Looped) = Inc(h)
      BY <1>3 DEF HandledUpTo
  <2> QED BY <1>1, <2>1, ToHandleIs
<1>7. khead' = khead /\ cqTail' = cqTail
    BY <1>3 DEF pollVars, cqVars
<1>8. /\ InOrder' = InOrder /\ Looped'[SqTail] = Looped[SqTail]
      /\ ImagesOK(Seen') /\ TailsInOrder(Seen', khead') /\ EntriesFilled(Seen', khead')
      /\ HeadsInOrder(Seen', cqTail') /\ Left(mem', cqTail') <= CqEntries
    BY <1>1, <1>3, <1>4, <1>5, <1>6, <1>7, StoreAsideStep
<1>9. /\ mem' = mem /\ buf' \in Stores /\ Len(buf') <= BufferSize
      /\ Looped'[CqHead] = Inc(h)
    BY <1>1, <1>3, <1>4, <1>5, LoopStores
<1>10. ToHandle' = ToHandle
  <2>1. HandledUpTo(handled, Looped) = Inc(h) /\ HandledUpTo(handled', Looped') = Inc(h)
      BY <1>3, <1>9 DEF HandledUpTo
  <2> QED BY <1>3, <2>1 DEF ToHandle, cqVars
<1>11. Free' = Free
    BY <1>3 DEF Free
<1>12. EntryBehindTail'
    BY <1>1, <1>3, <1>8 DEF RingsOK, EntryBehindTail, Filling
<1>13. RingsOK'
    BY <1>3, <1>8, <1>12 DEF RingsOK, RoomKept, Handling
<1>14. UNCHANGED Rings!queueVars
    BY <1>3, <1>8, <1>10, <1>11 DEF Rings!queueVars
<1> QED BY <1>13, <1>14 DEF Follows

(* The kernel posts a completion: in the ring where there is room, behind   *)
(* those that found none otherwise.                                         *)
LEMMA CompleteStep ==
    ASSUME Orderly, NEW o \in Owners, NEW more \in BOOLEAN, Complete(o, more)
    PROVE  Follows
<1> DEFINE h == HandledUpTo(handled, Looped)
           e == <<o, more>>
           p == Posted(h, cqTail, cqes)
<1>1. TypeOK /\ RingsOK /\ OwnersApart
    BY DEF Orderly
<1>2. /\ o \in inflight /\ inflight' = (IF more THEN inflight ELSE inflight \ {o})
      /\ UNCHANGED <<initVars, loopVars, mem, buf, pollVars>>
      /\ \/ /\ backlog = <<>> /\ Left(mem, cqTail) < CqEntries
            /\ cqes' = [cqes EXCEPT ![cqTail % CqEntries] = e]
            /\ cqTail' = Inc(cqTail) /\ backlog' = backlog
         \/ backlog' = Append(backlog, e) /\ cqTail' = cqTail /\ cqes' = cqes
    BY DEF Complete, CqRoom, Left
<1>3. /\ mem \in Memory /\ cqTail \in Counters /\ Looped[CqHead] \in Counters
      /\ cqes \in [CqPlaces -> Completion] /\ backlog \in Seq(Completion) /\ Seen[1] = mem
    BY <1>1, CountersAre DEF RingsOK
<1>4. h \in Counters /\ p \in Seq(Completion)
      /\ Dist(h, cqTail) \in Nat /\ Dist(h, cqTail) <= Left(Looped, cqTail)
    BY <1>1, ToHandleIs
<1>5. Seen' = Seen /\ Looped' = Looped /\ HandledUpTo(handled', Looped') = h
    BY <1>2 DEF Seen, Looped, loopVars
<1>6. e \in Completion
    BY DEF Completion, Entries
<1> HIDE DEF h, e, p
<1>7. ImagesOK(Seen) /\ HeadsInOrder(Seen, cqTail) /\ Left(mem, cqTail) <= CqEntries
    BY <1>1 DEF RingsOK, RoomKept
<1>8. /\ ToHandle' = Append(ToHandle, e)
      /\ HeadsInOrder(Seen, cqTail') /\ RoomKept'
      /\ cqTail' \in Counters /\ cqes' \in [CqPlaces -> Completion]
      /\ backlog' \in Seq(Completion)
  <2>1. CASE /\ backlog = <<>> /\ Left(mem, cqTail) < CqEntries
             /\ cqes' = [cqes EXCEPT ![cqTail % CqEntries] = e]
             /\ cqTail' = Inc(cqTail) /\ backlog' = backlog
    <3>1. /\ HeadsInOrder(Seen, Inc(cqTail)) /\ Left(mem, Inc(cqTail)) <= CqEntries
          /\ Left(Looped, cqTail) < CqEntries
        BY <1>3, <1>7, <2>1, PostHeads DEF Looped
    <3>2. Left(Looped, cqTail) \in Nat /\ Dist(h, cqTail) < CqEntries
      <4>1. Dist(Looped[CqHead], cqTail) \in Counters
          BY <1>3, Counting
      <4>2. Left(Looped, cqTail) \in Nat
          BY <4>1 DEF Left, Counters
      <4> QED BY <1>4, <3>1, <4>2, UringAssumption
    <3>3. /\ cqes' \in [CqPlaces -> Completion] /\ Inc(cqTail) \in Counters
          /\ Posted(h, Inc(cqTail), cqes') = Append(p, e)
      <4>1. cqes' = Placed(cqTail, cqes, e)
          BY <2>1 DEF Placed
      <4> QED BY <1>3, <1>4, <1>6, <3>2, <4>1, PostOne DEF p
    <3>4. ToHandle' = Append(ToHandle, e)
      <4>1. p \o <<>> = p /\ Append(p, e) \in Seq(Completion)
          BY <1>4, <1>6
      <4>2. Append(p, e) \o <<>> = Append(p, e)
          BY <4>1, ConcatEmptySeq
      <4>3. ToHandle = p
          BY <2>1, <4>1 DEF ToHandle, p, h
      <4>4. ToHandle' = Append(p, e) \o <<>>
          BY <1>5, <2>1, <3>3 DEF ToHandle
      <4> QED BY <4>2, <4>3, <4>4
    <3>5. Looped[CqHead] # Inc(cqTail)
      <4>1. Dist(Looped[CqHead], Inc(cqTail)) = Dist(Looped[CqHead], cqTail) + 1
        <5>1. Dist(Looped[CqHead], cqTail) + 1 < CounterMod
            BY <3>1, <3>2, UringAssumption DEF Left
        <5> QED BY <1>3, <5>1, Counting
      <4>2. Dist(Looped[CqHead], Inc(cqTail)) # 0
          BY <3>2, <4>1 DEF Left
      <4> QED BY <1>3, <3>3, <4>2, Counting
    <3>6. RoomKept'
        BY <1>2, <1>5, <2>1, <3>1, <3>5 DEF RoomKept
    <3> QED BY <1>3, <2>1, <3>1, <3>3, <3>4, <3>6
  <2>2. CASE backlog' = Append(backlog, e) /\ cqTail' = cqTail /\ cqes' = cqes
    <3>1. Append(backlog, e) \in Seq(Completion)
        BY <1>3, <1>6
    <3>2. p \o Append(backlog, e) = Append(p \o backlog, e)
      <4>1. Append(backlog, e) = backlog \o <<e>> /\ <<e>> \in Seq(Completion)
          BY <1>3, <1>6, AppendIsConcat
      <4>2. p \o backlog \in Seq(Completion)
          BY <1>3, <1>4
      <4>3. Append(p \o backlog, e) = (p \o backlog) \o <<e>>
          BY <1>6, <4>2, AppendIsConcat
      <4> QED BY <1>3, <1>4, <4>1, <4>3, ConcatAssociative
    <3>3. ToHandle' = Append(ToHandle, e)
        BY <1>5, <2>2, <3>2 DEF ToHandle, p, h
    <3>4. RoomKept'
        BY <1>1, <1>2, <1>5, <2>2 DEF RingsOK, RoomKept, loopVars
    <3> QED BY <1>3, <1>7, <2>2, <3>1, <3>3, <3>4
  <2> QED BY <1>2, <2>1, <2>2
<1>9. InOrder' = InOrder /\ Free' = Free
    BY <1>2, <1>5 DEF InOrder, Free, loopVars, pollVars
<1>10. Rings!Complete(o, more)
    BY <1>2, <1>8, <1>9 DEF Rings!Complete, e
<1>11. EntryBehindTail'
    BY <1>1, <1>2, <1>5 DEF RingsOK, EntryBehindTail, Filling, loopVars, pollVars
<1>12. RingsOK'
    BY <1>1, <1>2, <1>5, <1>8, <1>11 DEF RingsOK, Handling, pollVars, loopVars
<1> QED BY <1>10, <1>12 DEF Follows, Rings!Next

(* The loop enters the kernel to wait: the completions that found no room   *)
(* go into the ring, which is empty.                                        *)
LEMMA EntersStep ==
    ASSUME Orderly, CqeWaitEnters
    PROVE  Follows
<1> DEFINE t == cqTail
           n == Min({Len(backlog), CqEntries})
           u == Behind(t, n)
           d == Flushed(t, n, cqes, backlog)
           r == SubSeq(backlog, n + 1, Len(backlog))
<1>1. TypeOK /\ RingsOK /\ OwnersApart
    BY DEF Orderly
<1>2. /\ View(CqHead) = Looped[CqHead] /\ t \in Counters /\ Looped[CqHead] \in Counters
      /\ mem \in Memory /\ Seen[1] = mem /\ Len(Seen) = Len(buf) + 1
      /\ cqes \in [CqPlaces -> Completion] /\ backlog \in Seq(Completion)
    BY <1>1, CountersAre, DifferentWords DEF RingsOK
<1>3. /\ Looped[CqHead] = t /\ buf = <<>> /\ pc = "wait" /\ pc' = "blocked"
      /\ handled = FALSE /\ handled' = FALSE
      /\ cqTail' = u /\ backlog' = r
      /\ UNCHANGED <<initVars, sqeTail, cur, idx, idle, pollVars, inflight, mem, buf>>
    BY <1>1, <1>2 DEF CqeWaitEnters, CqEmpty, LoopAt, Behind, RingsOK, Handling, TypeOK
<1>4. cqes' = d
  <2>1. DOMAIN cqes = CqPlaces
      BY <1>2
  <2> QED BY <2>1 DEF CqeWaitEnters, Flushed
<1>5. n \in Nat /\ n <= CqEntries /\ n <= Len(backlog)
  <2> DEFINE S == {Len(backlog), CqEntries}
  <2>1. Len(backlog) \in Nat /\ CqEntries \in Nat
      BY <1>2, UringAssumption
  <2>2. \E x \in S : \A y \in S : x <= y
      BY <2>1
  <2>3. n \in S /\ \A y \in S : n <= y
    <3> HIDE DEF S
    <3>1. Min(S) \in S /\ \A y \in S : Min(S) <= y
        BY <2>2 DEF Min
    <3> QED BY <3>1 DEF S
  <2> HIDE DEF n
  <2> QED BY <2>1, <2>3
<1> HIDE DEF n
<1>6. /\ u \in Counters /\ Dist(t, u) = n
      /\ d \in [CqPlaces -> Completion] /\ r \in Seq(Completion)
      /\ Posted(t, u, d) \o r = backlog
  <2>1. ASSUME NEW k \in Nat, k <= CqEntries, k <= Len(backlog)
        PROVE  /\ Behind(cqTail, k) \in Counters /\ Dist(cqTail, Behind(cqTail, k)) = k
               /\ Flushed(cqTail, k, cqes, backlog) \in [CqPlaces -> Completion]
               /\ SubSeq(backlog, k + 1, Len(backlog)) \in Seq(Completion)
               /\ Posted(cqTail, Behind(cqTail, k), Flushed(cqTail, k, cqes, backlog))
                  \o SubSeq(backlog, k + 1, Len(backlog)) = backlog
    <3>1. /\ cqTail \in Counters /\ cqes \in [CqPlaces -> Completion]
          /\ backlog \in Seq(Completion)
        BY <1>2
    <3> QED BY ONLY <2>1, <3>1, FlushBacklog, SMTT(30)
  <2> HIDE DEF u, d, r
  <2>2. /\ Behind(t, n) \in Counters /\ Dist(t, Behind(t, n)) = n
        /\ Flushed(t, n, cqes, backlog) \in [CqPlaces -> Completion]
        /\ SubSeq(backlog, n + 1, Len(backlog)) \in Seq(Completion)
        /\ Posted(t, Behind(t, n), Flushed(t, n, cqes, backlog))
           \o SubSeq(backlog, n + 1, Len(backlog)) = backlog
      BY <1>5, <2>1
  <2> QED BY <2>2 DEF u, d, r
<1> HIDE DEF u, d, r, t
<1>7. Seen' = Seen /\ Looped' = Looped /\ Len(Seen) = 1 /\ Looped = mem
  <2>1. Len(Seen) = 1
      BY <1>2, <1>3
  <2> QED BY <1>2, <1>3, <2>1 DEF Seen, Looped, Last
<1>8. ToHandle' = ToHandle
  <2>1. HandledUpTo(handled, Looped) = t /\ HandledUpTo(handled', Looped') = t
      BY <1>3, <1>7 DEF HandledUpTo
  <2>2. ToHandle' = backlog
      BY <1>3, <1>4, <1>6, <2>1 DEF ToHandle
  <2>3. Posted(t, t, cqes) = <<>>
    <3>1. Dist(t, t) = 0
        BY <1>2, Counting
    <3> QED BY <3>1 DEF Posted
  <2>4. ToHandle = <<>> \o backlog
      BY <2>1, <2>3 DEF ToHandle, t
  <2>5. <<>> \o backlog = backlog
      BY <1>2, ConcatEmptySeq
  <2> QED BY <2>2, <2>4, <2>5
<1>9. InOrder' = InOrder /\ Free' = Free
    BY <1>3, <1>7 DEF InOrder, Free, pollVars
<1>10. UNCHANGED Rings!queueVars
    BY <1>3, <1>8, <1>9 DEF Rings!queueVars
<1>11. EntryBehindTail'
    BY <1>1, <1>3, <1>7 DEF RingsOK, EntryBehindTail, Filling
<1>12. HeadsInOrder(Seen, u) /\ RoomKept'
  <2>1. Left(mem, u) = n
      BY <1>3, <1>6, <1>7 DEF Left
  <2>2. RoomKept'
      BY <1>3, <1>5, <2>1 DEF RoomKept
  <2>3. HeadsInOrder(Seen, u)
    <3> SUFFICES ASSUME NEW j \in 1 .. Len(Seen), NEW k \in 1 .. Len(Seen), j <= k
                 PROVE  Left(Seen[k], u) <= Left(Seen[j], u)
        BY DEF HeadsInOrder
    <3>1. j = 1 /\ k = 1
        BY <1>7
    <3> QED BY <1>2, <1>5, <2>1, <3>1
  <2> QED BY <2>2, <2>3
<1>13. RingsOK'
    BY <1>1, <1>3, <1>7, <1>11, <1>12 DEF RingsOK, Handling, pollVars
<1> QED BY <1>10, <1>13 DEF Follows

-----------------------------------------------------------------------------
(* The theorems.                                                            *)

(* Until an entry is handed out that was not taken, every step keeps the    *)
(* images in order, and is a step of the queues or leaves them alone.       *)
LEMMA EveryStep ==
    ASSUME Orderly, [Next]_vars, ~overrun'
    PROVE  Follows
<1>1. CASE UringInit
    BY <1>1, SetUpSteps
<1>2. CASE LoopStep
  <2>1. ASSUME NEW o \in Owners, SqeGet(o)
        PROVE  Follows
      BY <2>1, SqeGetStep
  <2>2. CASE Enqueue
      BY <2>2, FillStep, StoreIndexStep, StoreTailStep, LookingSteps DEF Enqueue
  <2> QED BY <1>2, <2>1, <2>2, LookingSteps, EntersStep, HandleStep, DiscardStep DEF LoopStep
<1>3. CASE Drain
    BY <1>3, DrainStep
<1>4. CASE Poll \/ PollFlags \/ CqeWaitFails
    BY <1>4, PollTakesStep, LookingSteps DEF Poll
<1>5. ASSUME NEW o \in Entries, NEW more \in BOOLEAN, Complete(o, more)
      PROVE  Follows
  <2>1. o \in inflight /\ inflight \subseteq Owners
      BY <1>5 DEF Complete, Orderly, OwnersApart, Apart
  <2> QED BY <1>5, <2>1, CompleteStep
<1>6. CASE UNCHANGED vars
    BY <1>6, LookingSteps
<1> QED BY <1>1, <1>2, <1>3, <1>4, <1>5, <1>6 DEF Next

(* Once handed out, an entry stays overrun.                                 *)
LEMMA OverrunStays == overrun /\ [Next]_vars => overrun'
<1> SUFFICES ASSUME overrun, [Next]_vars
             PROVE  overrun'
    OBVIOUS
<1>1. CASE UringInit
    BY <1>1 DEF UringInit, SetupFails, Setup, MapSq, MapCq, MapSqe, Map, UnmapCq, UnmapSq,
       CloseRing, UsesUnmapped, ringVars
<1>2. CASE LoopStep \/ CqeWaitFails
    BY <1>2 DEF LoopStep, Enqueue, SqeGet, Fill, StoreIndex, StoreTail, LoadFlags, EnterWakeup,
       CqPeek, CqeWaitFinds, CqeWaitEnters, CqeWaitFails, LoopAt, HandleCqe, CqDiscard, Discard
<1>3. CASE Drain \/ Poll \/ PollFlags
    BY <1>3 DEF Drain, Poll, PollTakes, PollRechecks, PollFlags, loopVars
<1>4. CASE \E o \in Entries, more \in BOOLEAN : Complete(o, more)
    BY <1>4 DEF Complete, loopVars
<1>5. CASE UNCHANGED vars
    BY <1>5 DEF vars, loopVars
<1> QED BY <1>1, <1>2, <1>3, <1>4, <1>5 DEF Next

(* The inductive invariant.                                                 *)
IInv == Typed /\ (overrun \/ (RingsOK /\ OwnersApart))

(* It is kept.                                                              *)
LEMMA InvariantKept == IInv /\ [Next]_vars => IInv'
<1> SUFFICES ASSUME IInv, [Next]_vars
             PROVE  IInv'
    OBVIOUS
<1>1. Typed'
    BY TypedKept DEF IInv
<1>2. CASE overrun'
    BY <1>1, <1>2 DEF IInv
<1>3. CASE ~overrun'
  <2>1. Orderly
      BY <1>3, OverrunStays DEF IInv, Orderly, Typed
  <2>2. Follows
      BY <1>3, <2>1, EveryStep
  <2>3. OwnersApart'
      BY <2>1, <2>2, ApartStep DEF Orderly, Follows
  <2> QED BY <1>1, <2>2, <2>3 DEF IInv, Follows
<1> QED BY <1>2, <1>3

(* The kernel hands the rings out filled with zeros, nothing is stored yet. *)
LEMMA RingsStart ==
    ASSUME Init
    PROVE  /\ pc = "setup" /\ handled = FALSE /\ held = {} /\ sqeTail = 0 /\ cur = 0 /\ idx = 0 /\ idle = Owners
           /\ mem = [w \in Words |-> 0] /\ buf = <<>> /\ khead = 0 /\ inflight = {}
           /\ cqTail = 0 /\ backlog = <<>>
           /\ CounterMod \in Nat \ {0} /\ CqEntries \in Nat \ {0} /\ SqEntries \in Nat \ {0}
           /\ BufferSize \in Nat /\ 0 \in Counters /\ Dist(0, 0) = 0
           /\ mem \in Memory /\ buf \in Stores /\ Len(buf) = 0
           /\ Seen \in Seq(Memory) /\ Len(Seen) = 1 /\ Seen[1] = mem /\ Looped = mem
           /\ mem[SqTail] = 0 /\ mem[CqHead] = 0
<1>1. /\ pc = "setup" /\ handled = FALSE /\ held = {} /\ sqeTail = 0 /\ cur = 0 /\ idx = 0 /\ idle = Owners
      /\ mem = [w \in Words |-> 0] /\ buf = <<>> /\ khead = 0 /\ inflight = {}
      /\ cqTail = 0 /\ backlog = <<>>
    BY DEF Init, Zeroed
<1>2. /\ CounterMod \in Nat \ {0} /\ CqEntries \in Nat \ {0} /\ SqEntries \in Nat \ {0}
      /\ BufferSize \in Nat /\ 0 \in Counters /\ Dist(0, 0) = 0
  <2>1. /\ CounterMod \in Nat \ {0} /\ CqEntries \in Nat \ {0} /\ SqEntries \in Nat \ {0}
        /\ BufferSize \in Nat
      BY UringAssumption
  <2>2. 0 \in Counters
      BY <2>1 DEF Counters
  <2> QED BY <2>1, <2>2, Counting
<1>3. mem \in Memory /\ buf \in Stores /\ Len(buf) = 0
    BY <1>1 DEF Memory, Stores
<1>4. Seen \in Seq(Memory) /\ Len(Seen) = 1 /\ Seen[1] = mem /\ Looped = mem
  <2>1. Seen \in Seq(Memory) /\ Len(Seen) = 1 /\ Seen[1] = mem
    <3>1. /\ Images(mem, buf) \in Seq(Memory) /\ Images(mem, buf)[1] = mem
          /\ Len(Images(mem, buf)) = Len(buf) + 1
        BY <1>3, ImagesAre
    <3> QED BY <1>3, <3>1 DEF Seen
  <2> QED BY <2>1 DEF Looped, Last
<1>5. \A w \in Words : mem[w] = 0
    BY <1>1
<1>6. mem[SqTail] = 0 /\ mem[CqHead] = 0
    BY <1>5, DifferentWords
<1> QED BY <1>1, <1>2, <1>3, <1>4, <1>5, <1>6

(* Both queues are empty then, and every owner is idle.                     *)
LEMMA QueuesStart ==
    ASSUME Init
    PROVE  InOrder = <<>> /\ ToHandle = <<>> /\ Free = Owners
<1>1. InOrder = <<>>
    BY RingsStart DEF InOrder, Queued, Waiting, Looped
<1>2. Posted(HandledUpTo(handled, Looped), cqTail, cqes) = <<>>
    BY RingsStart DEF Posted, HandledUpTo
<1>3. ToHandle = <<>>
    BY <1>2, RingsStart DEF ToHandle
<1>4. Free = Owners
    BY RingsStart DEF Free
<1> QED BY <1>1, <1>3, <1>4

(* So the invariant holds.                                                  *)
LEMMA InvariantStarts == Init => IInv
<1> SUFFICES ASSUME Init
             PROVE  IInv
    OBVIOUS
<1>1. TypeOK
  <2>1. /\ mem \in [Words -> Nat] /\ mem[SqTail] < CounterMod /\ mem[CqHead] < CounterMod
        /\ buf \in Seq(Words \X Nat) /\ Len(buf) <= BufferSize
      BY RingsStart, DifferentWords DEF Memory, Stores
  <2>2. /\ sqeTail \in 0 .. (CounterMod - 1) /\ idx \in 0 .. (SqEntries - 1)
        /\ khead \in 0 .. (CounterMod - 1) /\ cqTail \in 0 .. (CounterMod - 1)
      BY RingsStart DEF Counters
  <2>3. /\ cqes \in [0 .. (CqEntries - 1) -> Entries \X BOOLEAN]
        /\ backlog \in Seq(Entries \X BOOLEAN) /\ cur \in Entries
    <3>1. <<Zeroed, FALSE>> \in Entries \X BOOLEAN /\ cur \in Entries
        BY DEF Init, Entries
    <3>2. cqes = [i \in 0 .. (CqEntries - 1) |-> <<Zeroed, FALSE>>] /\ backlog = <<>>
        BY DEF Init
    <3> QED BY ONLY <3>1, <3>2
  <2>4. ptr \in [Regions -> Regions \cup {Unset, Failed, Garbage}]
      BY DEF Init
  <2> QED BY RingsStart, <2>1, <2>2, <2>3, <2>4 DEF Init, TypeOK
<1>2. \A k \in 1 .. Len(Seen) : Seen[k] = mem
  <2>1. Len(Seen) = 1 /\ Seen[1] = mem
      BY RingsStart
  <2> QED BY <2>1
<1>3. ImagesOK(Seen)
  <2>1. Seen \in Seq(Memory) /\ Len(Seen) = 1 /\ mem[SqTail] \in Counters
        /\ mem[CqHead] \in Counters
      BY RingsStart
  <2> QED BY <1>2, <2>1 DEF ImagesOK
<1>4. /\ TailsInOrder(Seen, khead) /\ EntriesFilled(Seen, khead)
       /\ HeadsInOrder(Seen, cqTail)
  <2>1. Waiting(mem, khead) = 0 /\ Left(mem, cqTail) = 0
      BY RingsStart DEF Waiting, Left
  <2> QED BY <1>2, <2>1 DEF TailsInOrder, EntriesFilled, HeadsInOrder
<1>5. EntryBehindTail /\ RoomKept /\ Handling
    BY RingsStart DEF EntryBehindTail, Filling, RoomKept, Handling, Left
<1>6. OwnersApart
    BY RingsStart, QueuesStart DEF OwnersApart, Apart
<1>7. SetUpOK
    BY RingsStart DEF SetUpOK, Looping
<1>8. WordsTyped
  <2>1. \A w \in Words : 0 \in Values(w)
      BY UringAssumption DEF Values, Counters, SqPlaces, Entries, Zeroed
  <2> QED BY <2>1, RingsStart DEF WordsTyped
<1> QED BY <1>1, <1>3, <1>4, <1>5, <1>6, <1>7, <1>8 DEF IInv, Typed, RingsOK

(* The type invariant: counters stay in their width, and what the kernel    *)
(* takes is an entry the loop wrote, although it reads the index array and  *)
(* the entries while the loop's stores are still under way, and whether or  *)
(* not the loop has handed out entries the kernel had not taken.            *)
THEOREM RingsTyped == Spec => []TypeOK
<1>1. IInv => TypeOK
    BY DEF IInv, Typed
<1> QED BY <1>1, InvariantStarts, InvariantKept, PTL DEF Spec

(* When cg_uring_init notices that a step failed, it leaves nothing behind, *)
(* and unmaps only what it has mapped (cg_uring.c:87-96).                   *)
THEOREM SetUpGivesBack == Spec => []InitCleansUp
<1>1. IInv => InitCleansUp
    BY DEF IInv, Typed, SetUpOK, InitCleansUp, Looping, Regions
<1> QED BY <1>1, InvariantStarts, InvariantKept, PTL DEF Spec

(* For any number of owners and of entries, any width of the counters that  *)
(* the entries divide and any number of stores held back, the rings are     *)
(* queues until an entry is handed out that was not taken: entries are      *)
(* taken in order and as they were filled, and no completion is lost,       *)
(* handled twice or overwritten while its handler reads it.                 *)
THEOREM RingsAreQueues == Spec => ImplementsQueue
<1>1. Init => Queue!Init
  <2> SUFFICES ASSUME Init
               PROVE  Queue!Init
      OBVIOUS
  <2>1. TypeOK /\ RingsOK
      BY InvariantStarts DEF IInv, Typed, Init
  <2>2. Enqueued = InOrder /\ Unhandled = ToHandle
      BY <2>1, QueuesAgree
  <2>3. InOrder = <<>> /\ ToHandle = <<>> /\ Free = Owners /\ inflight = {}
      BY QueuesStart, RingsStart
  <2> QED BY <2>2, <2>3 DEF Queue!Init, Free
<1>2. IInv /\ IInv' /\ [Next]_vars => [overrun' \/ Queue!Next]_(Queue!queueVars)
  <2> SUFFICES ASSUME IInv, IInv', [Next]_vars, ~overrun'
               PROVE  [Queue!Next]_(Queue!queueVars)
      OBVIOUS
  <2>1. Orderly /\ TypeOK' /\ RingsOK'
      BY OverrunStays DEF IInv, Orderly, Typed
  <2>2. Follows
      BY <2>1, EveryStep
  <2> QED BY <2>1, <2>2, SameQueues DEF Orderly, Follows
<1> QED BY <1>1, <1>2, InvariantStarts, InvariantKept, PTL
    DEF Spec, ImplementsQueue
=============================================================================
