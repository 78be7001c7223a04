---------------------------- MODULE FastCGIProofs ----------------------------
(***************************************************************************)
(* Proofs about the receive buffer and the record parser: no read is issued*)
(* without room, and, as long as no rest is moved over itself and no       *)
(* connection ends inside a payload, the router is handed exactly what was *)
(* asked, a request that was read completely is answered and nothing is    *)
(* thrown away.  And about the vector routines of Memory, on which the move*)
(* of the buffer rests.                                                    *)
(***************************************************************************)
EXTENDS FastCGI, SequenceTheorems, FiniteSetTheorems, WellFoundedInduction, TLAPS

(* A set of naturals that is not empty has a least element.                 *)
LEMMA LeastNatural ==
    ASSUME NEW T, T \subseteq Nat, T # {}
    PROVE  \E x \in T : \A y \in T : x <= y
<1> DEFINE R == OpToRel(<, Nat)
<1>1. IsWellFoundedOn(R, Nat)
    BY NatLessThanWellFounded
<1>2. \A x, y \in Nat : <<x, y>> \in R <=> x < y
    BY DEF OpToRel
<1> HIDE DEF R
<1>3. PICK x \in T : \A y \in T : ~(<<y, x>> \in R)
    BY <1>1, WFMin
<1>4. x \in Nat /\ \A y \in T : y \in Nat /\ ~(y < x)
    BY <1>2, <1>3
<1>5. \A y \in T : x <= y
    BY <1>4
<1> QED BY <1>5

-----------------------------------------------------------------------------
(* Recursion over 0 .. n: a step function taken n times from m0 has a       *)
(* course of values.                                                        *)
IsStep(G, M, n) == G \in [M \X (1 .. n) -> M]
IsRun(f, G, M, m0, n) == /\ f \in [0 .. n -> M] /\ f[0] = m0
                         /\ \A i \in 1 .. n : f[i] = G[<<f[i - 1], i>>]

(* Such a course of values exists.                                          *)
LEMMA CourseExists ==
    ASSUME NEW M, NEW m0 \in M, NEW n \in Nat, NEW G, IsStep(G, M, n)
    PROVE  \E f : IsRun(f, G, M, m0, n)
<1> DEFINE Good(k, f) == f[0] = m0 /\ \A i \in 1 .. k : f[i] = G[<<f[i - 1], i>>]
           Bad == {k \in 0 .. n : \A f \in [0 .. k -> M] : ~Good(k, f)}
<1>1. SUFFICES Bad = {}
  <2>1. n \in 0 .. n /\ n \notin Bad
    <3>1. n \in 0 .. n
        OBVIOUS
    <3> HIDE DEF Bad
    <3> QED BY <1>1, <3>1
  <2>2. PICK f \in [0 .. n -> M] : Good(n, f)
      BY <2>1
  <2> QED BY <2>2 DEF IsRun
<1>2. SUFFICES ASSUME Bad # {} PROVE FALSE
    OBVIOUS
<1>3. PICK k \in Bad : \A j \in Bad : k <= j
  <2>1. Bad \subseteq Nat
      OBVIOUS
  <2> HIDE DEF Bad
  <2> QED BY <1>2, <2>1, LeastNatural
<1>4. k # 0
  <2> DEFINE f == [i \in 0 .. 0 |-> m0]
  <2>1. f \in [0 .. 0 -> M] /\ Good(0, f)
      OBVIOUS
  <2> QED BY <2>1
<1>5. PICK f \in [0 .. (k - 1) -> M] : Good(k - 1, f)
  <2>1. k - 1 \in 0 .. n /\ ~(k <= k - 1)
      BY <1>4
  <2>2. k - 1 \notin Bad
    <3> HIDE DEF Bad
    <3> QED BY <1>3, <2>1
  <2> HIDE DEF Good
  <2> QED BY <2>1, <2>2
<1> DEFINE g == [i \in 0 .. k |-> IF i = k THEN G[<<f[k - 1], k>>] ELSE f[i]]
<1>6. G[<<f[k - 1], k>>] \in M
    BY <1>4 DEF IsStep
<1>7. g \in [0 .. k -> M]
    BY <1>4, <1>6
<1>8. Good(k, g)
  <2>1. k \in Nat /\ 0 \in 0 .. k /\ g[0] = f[0]
      BY <1>4
  <2>2. ASSUME NEW i \in 1 .. k PROVE g[i] = G[<<g[i - 1], i>>]
    <3>1. i - 1 \in 0 .. k /\ i - 1 # k /\ i \in 0 .. k
        BY <2>1
    <3>2. g[i - 1] = f[i - 1]
        BY <3>1
    <3>3. CASE i = k
        BY <3>1, <3>2, <3>3
    <3>4. CASE i # k
      <4>1. i \in 1 .. (k - 1) /\ g[i] = f[i]
          BY <2>1, <3>1, <3>4
      <4> QED BY <1>5, <3>2, <4>1
    <3> QED BY <3>3, <3>4
  <2> QED BY <1>5, <2>1, <2>2
<1> QED BY <1>7, <1>8

-----------------------------------------------------------------------------
(* The copy routine.  Moved is what copying forward without disturbing the  *)
(* source must give.                                                        *)
Moved(m, dst, src, n) ==
    [a \in DOMAIN m |-> IF a \in Span(dst, n) THEN m[a - dst + src] ELSE m[a]]

(* Both ends lie in the memory, the destination not behind the source.      *)
Forward(D, S, m, dst, src, n) ==
    /\ m \in [D -> S] /\ D \subseteq Nat
    /\ dst \in Nat /\ src \in Nat /\ n \in Nat /\ dst <= src
    /\ \A i \in 0 .. (n - 1) : dst + i \in D /\ src + i \in D

(* Taking one more byte or vector along.                                    *)
LEMMA MovedTyped ==
    ASSUME NEW D, NEW S, NEW m, NEW dst, NEW src, NEW n,
           Forward(D, S, m, dst, src, n)
    PROVE  Moved(m, dst, src, n) \in [D -> S]
<1>1. ASSUME NEW a \in D, a \in Span(dst, n) PROVE a - dst + src \in D
  <2>1. a - dst \in 0 .. (n - 1)
      BY <1>1 DEF Forward, Span
  <2> QED BY <2>1 DEF Forward
<1>2. m \in [D -> S]
    BY DEF Forward
<1> QED BY <1>1, <1>2 DEF Moved

(* The byte loop moves forward.                                             *)
LEMMA BytesMove ==
    ASSUME NEW D, NEW S, NEW m, NEW dst, NEW src, NEW n,
           Forward(D, S, m, dst, src, n)
    PROVE  Bytes(m, dst, src, n) = Moved(m, dst, src, n)
<1> DEFINE after == [i \in 0 .. n |-> Moved(m, dst, src, i)]
           Step(f) == [i \in 0 .. n |->
                         IF i = 0 THEN m
                         ELSE [f[i - 1] EXCEPT ![dst + i - 1] = f[i - 1][src + i - 1]]]
<1>1. /\ n \in Nat /\ dst \in Nat /\ src \in Nat /\ dst <= src
      /\ m \in [D -> S] /\ D \subseteq Nat
    BY DEF Forward
<1>2. \A i \in 0 .. n : Forward(D, S, m, dst, src, i)
    BY DEF Forward
<1>3. \A i \in 0 .. n : Moved(m, dst, src, i) \in [D -> S]
    BY <1>2, MovedTyped
<1>4. Moved(m, dst, src, 0) = m
    BY <1>1 DEF Moved, Span
<1>5. ASSUME NEW i \in 1 .. n
      PROVE  Moved(m, dst, src, i)
               = [Moved(m, dst, src, i - 1) EXCEPT
                    ![dst + i - 1] = Moved(m, dst, src, i - 1)[src + i - 1]]
  <2>1. dst + i - 1 \in D /\ src + i - 1 \in D
      BY <1>1 DEF Forward
  <2>2. Moved(m, dst, src, i - 1)[src + i - 1] = m[src + i - 1]
      BY <1>1, <2>1 DEF Moved, Span
  <2>3. ASSUME NEW a \in D
        PROVE  Moved(m, dst, src, i)[a]
                 = [Moved(m, dst, src, i - 1) EXCEPT ![dst + i - 1] = m[src + i - 1]][a]
    <3>1. CASE a = dst + i - 1
        BY <1>1, <2>1, <3>1 DEF Moved, Span
    <3>2. CASE a # dst + i - 1
      <4>1. a \in Span(dst, i) <=> a \in Span(dst, i - 1)
          BY <1>1, <3>2 DEF Span
      <4> QED BY <1>1, <2>1, <3>2, <4>1 DEF Moved
    <3> QED BY <3>1, <3>2
  <2>4. Moved(m, dst, src, i) \in [D -> S] /\ Moved(m, dst, src, i - 1) \in [D -> S]
    <3>1. i \in 0 .. n /\ i - 1 \in 0 .. n
        BY <1>1
    <3> QED BY <1>3, <3>1
  <2> HIDE DEF Moved
  <2> QED BY <2>2, <2>3, <2>4
<1>6. after = Step(after)
    BY <1>1, <1>4, <1>5
<1>7. ASSUME NEW f, f = Step(f) PROVE f[n] = Moved(m, dst, src, n)
  <2> DEFINE Bad == {i \in 0 .. n : f[i] # Moved(m, dst, src, i)}
  <2>1. SUFFICES ASSUME Bad # {} PROVE FALSE
      BY <1>1
  <2>2. PICK i \in Bad : \A j \in Bad : i <= j
    <3>1. Bad \subseteq Nat
        BY <1>1
    <3> HIDE DEF Bad
    <3> QED BY <2>1, <3>1, LeastNatural
  <2>3. i # 0
      BY <1>1, <1>4, <1>7
  <2>4. i \in 1 .. n /\ i - 1 \in 0 .. n /\ i - 1 \notin Bad
      BY <1>1, <2>2, <2>3
  <2>5. f[i] = [f[i - 1] EXCEPT ![dst + i - 1] = f[i - 1][src + i - 1]]
    <3>1. i \in 0 .. n
        BY <2>2
    <3>2. f[i] = Step(f)[i]
        BY <1>7
    <3> QED BY <2>3, <3>1, <3>2
  <2>6. f[i - 1] = Moved(m, dst, src, i - 1)
      BY <2>4
  <2> QED BY <1>5, <2>2, <2>4, <2>5, <2>6
<1> HIDE DEF after
<1>8. Bytes(m, dst, src, n) = (CHOOSE f : f = Step(f))[n]
    BY DEF Bytes
<1> HIDE DEF Step
<1> QED BY <1>6, <1>7, <1>8

(* Division with remainder.                                                 *)
LEMMA Division ==
    ASSUME NEW a \in Int, NEW b \in Nat \ {0}
    PROVE  /\ a \div b \in Int /\ (a % b) \in 0 .. (b - 1)
           /\ a = b * (a \div b) + (a % b)
           /\ a \in Nat => a \div b \in Nat
OBVIOUS

(* k vectors before K of them.                                              *)
LEMMA Product ==
    ASSUME NEW b \in Nat, NEW k \in Nat, NEW l \in Nat, k <= l
    PROVE  b * k \in Nat /\ b * l \in Nat /\ b * k <= b * l
OBVIOUS

(* One vector more.                                                         *)
LEMMA ProductNext ==
    ASSUME NEW b \in Nat, NEW k \in Nat \ {0}
    PROVE  b * k = b * (k - 1) + b /\ k * b = b * k /\ (k - 1) * b = b * (k - 1)
OBVIOUS

(* A vector more moves a vector's bytes more.                               *)
LEMMA VectorMoves ==
    ASSUME NEW D, NEW S, NEW m, NEW dst, NEW src, NEW q \in Nat,
           Forward(D, S, m, dst, src, q + Block)
    PROVE  Vector(Moved(m, dst, src, q), dst + q, src + q)
             = Moved(m, dst, src, q + Block)
<1>1. /\ dst \in Nat /\ src \in Nat /\ dst <= src /\ Block \in Nat \ {0}
      /\ m \in [D -> S] /\ D \subseteq Nat
    BY MemoryAssumption DEF Forward
<1>2. Forward(D, S, m, dst, src, q)
    BY <1>1 DEF Forward
<1> DEFINE M == Moved(m, dst, src, q)
           N == Moved(m, dst, src, q + Block)
<1>3. M \in [D -> S] /\ N \in [D -> S]
    BY <1>1, <1>2, MovedTyped
<1>4. ASSUME NEW a \in D
      PROVE  N[a] = IF a \in Span(dst + q, Block)
                      THEN M[a - (dst + q) + (src + q)] ELSE M[a]
  <2>1. CASE a \in Span(dst + q, Block)
    <3>1. a - dst \in 0 .. (q + Block - 1) /\ a - dst >= q
        BY <1>1, <2>1 DEF Span
    <3>2. a - (dst + q) + (src + q) = src + (a - dst) /\ a - dst + src = src + (a - dst)
        BY <1>1
    <3>3. src + (a - dst) \in D
      <4>1. PICK i \in 0 .. (q + Block - 1) : i = a - dst
          BY <3>1
      <4>2. src + i \in D
          BY <1>1 DEF Forward
      <4> QED BY <4>1, <4>2
    <3>4. src + (a - dst) \notin Span(dst, q)
        BY <1>1, <3>1 DEF Span
    <3>5. M[src + (a - dst)] = m[src + (a - dst)]
        BY <1>1, <3>3, <3>4 DEF Moved
    <3>6. a \in Span(dst, q + Block)
        BY <1>1, <2>1 DEF Span
    <3>7. N[a] = m[a - dst + src]
        BY <1>1, <3>6 DEF Moved
    <3> QED BY <2>1, <3>2, <3>5, <3>7
  <2>2. CASE a \notin Span(dst + q, Block)
    <3>1. a \in Span(dst, q + Block) <=> a \in Span(dst, q)
        BY <1>1, <2>2 DEF Span
    <3> QED BY <1>1, <2>2, <3>1 DEF Moved
  <2> QED BY <2>1, <2>2
<1> HIDE DEF M, N
<1>5. DOMAIN M = D
    BY <1>3
<1>6. Vector(M, dst + q, src + q)
        = [a \in D |-> IF a \in Span(dst + q, Block)
                         THEN M[a - (dst + q) + (src + q)] ELSE M[a]]
    BY <1>5 DEF Vector
<1>7. N = [a \in D |-> IF a \in Span(dst + q, Block)
                         THEN M[a - (dst + q) + (src + q)] ELSE M[a]]
    BY <1>3, <1>4
<1> QED BY <1>6, <1>7 DEF M, N

(* The split of a length into prologue, vectors and what is left over.      *)
LEMMA Split ==
    ASSUME NEW dst \in Nat, NEW n \in Nat, n >= Block
    PROVE  /\ Prologue(dst) \in 0 .. (Block - 1)
           /\ (n - Prologue(dst)) \div Block \in Nat
           /\ Leftover(dst, n) \in 0 .. (Block - 1)
           /\ n = Prologue(dst) + Block * ((n - Prologue(dst)) \div Block)
                    + Leftover(dst, n)
<1>1. Block \in Nat \ {0}
    BY MemoryAssumption
<1>2. Prologue(dst) \in 0 .. (Block - 1)
    BY <1>1, Division DEF Prologue
<1> DEFINE d == n - Prologue(dst)
<1>3. d \in Nat
    BY <1>1, <1>2
<1>4. Leftover(dst, n) = d % Block
    BY DEF Leftover
<1> HIDE DEF d
<1>5. /\ (d % Block) \in 0 .. (Block - 1) /\ d \div Block \in Nat
      /\ d = Block * (d \div Block) + (d % Block)
  <2>1. d \in Int
      BY <1>3
  <2> QED BY <1>1, <1>3, <2>1, Division
<1>6. Block * (d \div Block) \in Nat
    BY <1>1, <1>5
<1>7. n = Prologue(dst) + Block * (d \div Block) + (d % Block)
  <2> DEFINE v == Block * (d \div Block)
             l == d % Block
             g == Prologue(dst)
  <2>1. d = n - g /\ d = v + l /\ v \in Nat /\ l \in Nat /\ g \in Nat
      BY <1>1, <1>2, <1>5, <1>6 DEF d
  <2> HIDE DEF v, l, g
  <2>2. n = g + v + l
      BY <2>1
  <2> QED BY <2>2 DEF v, l, g
<1> QED BY <1>2, <1>4, <1>5, <1>7 DEF d

(* The walk over whole vectors moves all but what is left over.             *)
LEMMA VectorsMove ==
    ASSUME NEW D, NEW S, NEW m, NEW dst, NEW src, NEW n,
           Forward(D, S, m, dst, src, n), n >= Block
    PROVE  Vectors(m, dst, src, n) = Moved(m, dst, src, n - Leftover(dst, n))
<1> DEFINE p == Prologue(dst)
           K == (n - p) \div Block
           Upto(k) == Moved(m, dst, src, p + k * Block)
           after == [k \in 0 .. K |-> Upto(k)]
           Step(f) == [k \in 0 .. K |->
                         IF k = 0 THEN Bytes(m, dst, src, p)
                         ELSE Vector(f[k - 1], dst + p + (k - 1) * Block,
                                                   src + p + (k - 1) * Block)]
<1>1. dst \in Nat /\ src \in Nat /\ n \in Nat /\ dst <= src /\ Block \in Nat \ {0}
    BY MemoryAssumption DEF Forward
<1>2. p \in Nat /\ K \in Nat /\ Leftover(dst, n) \in Nat
    BY <1>1, Split
<1>3. n = p + Block * K + Leftover(dst, n)
    BY <1>1, Split
<1> HIDE DEF p, K
<1>4. ASSUME NEW k \in 0 .. K
      PROVE  k * Block \in Nat /\ p + k * Block <= n
  <2>1. Block * k \in Nat /\ Block * K \in Nat /\ Block * k <= Block * K
      BY <1>1, <1>2, Product
  <2>2. k * Block = Block * k
      BY <1>1, <1>2
  <2> DEFINE u == Block * k
             v == Block * K
             l == Leftover(dst, n)
  <2>3. u \in Nat /\ v \in Nat /\ u <= v /\ l \in Nat /\ n = p + v + l
      BY <1>2, <1>3, <2>1
  <2> HIDE DEF u, v, l
  <2>4. p + u <= n
      BY <1>2, <2>3
  <2> QED BY <2>1, <2>2, <2>4 DEF u
<1>5. \A j \in Nat : j <= n => Forward(D, S, m, dst, src, j)
    BY <1>1 DEF Forward
<1>6. Upto(0) = Bytes(m, dst, src, p)
  <2>1. 0 * Block = 0 /\ p + 0 = p
      BY <1>1, <1>2
  <2>2. p <= n
      BY <1>2, <1>4, <2>1
  <2>3. Bytes(m, dst, src, p) = Moved(m, dst, src, p)
    <3>1. Forward(D, S, m, dst, src, p)
        BY <1>2, <1>5, <2>2
    <3> QED BY <3>1, BytesMove
  <2> QED BY <2>1, <2>3
<1>7. ASSUME NEW k \in 1 .. K
      PROVE  Upto(k) = Vector(Upto(k - 1), dst + p + (k - 1) * Block,
                                               src + p + (k - 1) * Block)
  <2> DEFINE q == p + (k - 1) * Block
  <2>1. k \in 0 .. K /\ k - 1 \in 0 .. K /\ k \in Nat \ {0}
      BY <1>2
  <2>2. k * Block = (k - 1) * Block + Block
      BY <1>1, <2>1, ProductNext
  <2>3. (k - 1) * Block \in Nat
      BY <1>4, <2>1
  <2>4. q \in Nat /\ q + Block = p + k * Block /\ q + Block <= n
    <3>1. p + k * Block <= n
        BY <1>4, <2>1
    <3> DEFINE w == (k - 1) * Block
    <3>2. w \in Nat /\ p + (w + Block) <= n /\ k * Block = w + Block
        BY <2>2, <2>3, <3>1
    <3> HIDE DEF w
    <3>3. p + w \in Nat /\ (p + w) + Block = p + (w + Block)
        BY <1>1, <1>2, <3>2
    <3> QED BY <3>2, <3>3 DEF w
  <2>5. dst + p + (k - 1) * Block = dst + q /\ src + p + (k - 1) * Block = src + q
      BY <1>1, <1>2, <2>3
  <2> HIDE DEF q
  <2>6. Forward(D, S, m, dst, src, q + Block)
    <3>1. q + Block \in Nat
        BY <1>1, <2>4
    <3> QED BY <1>5, <2>4, <3>1
  <2>7. Vector(Moved(m, dst, src, q), dst + q, src + q) = Moved(m, dst, src, q + Block)
      BY <2>4, <2>6, VectorMoves
  <2> QED BY <2>4, <2>5, <2>7 DEF q
<1>8. after = Step(after)
  <2>1. ASSUME NEW k \in 0 .. K PROVE after[k] = Step(after)[k]
    <3>1. CASE k = 0
        BY <1>6, <3>1
    <3>2. CASE k # 0
      <4>1. k \in 1 .. K /\ k - 1 \in 0 .. K
          BY <1>2, <3>2
      <4>2. after[k - 1] = Upto(k - 1)
          BY <4>1
      <4> HIDE DEF Upto
      <4> QED BY <1>7, <3>2, <4>1, <4>2
    <3> QED BY <3>1, <3>2
  <2> HIDE DEF Upto
  <2> QED BY <2>1
<1>9. ASSUME NEW f, f = Step(f) PROVE f[K] = Upto(K)
  <2> HIDE DEF Upto
  <2> DEFINE Bad == {k \in 0 .. K : f[k] # Upto(k)}
  <2>1. SUFFICES ASSUME Bad # {} PROVE FALSE
      BY <1>2
  <2>2. PICK k \in Bad : \A j \in Bad : k <= j
    <3>1. Bad \subseteq Nat
        BY <1>2
    <3> HIDE DEF Bad
    <3> QED BY <2>1, <3>1, LeastNatural
  <2>3. k \in 0 .. K /\ f[k] = Step(f)[k]
      BY <1>9, <2>2
  <2>4. k # 0
      BY <1>6, <2>2, <2>3
  <2>5. k \in 1 .. K /\ k - 1 \in 0 .. K /\ k - 1 \notin Bad
      BY <1>2, <2>2, <2>4
  <2>6. f[k] = Vector(f[k - 1], dst + p + (k - 1) * Block, src + p + (k - 1) * Block)
      BY <2>3, <2>4
  <2>7. f[k - 1] = Upto(k - 1)
      BY <2>5
  <2> QED BY <1>7, <2>2, <2>5, <2>6, <2>7
<1>10. Vectors(m, dst, src, n) = (CHOOSE f : f = Step(f))[K]
    BY DEF Vectors, p, K
<1>11. Vectors(m, dst, src, n) = Upto(K)
  <2> HIDE DEF after, Step, Upto
  <2> QED BY <1>8, <1>9, <1>10
<1>12. p + K * Block = n - Leftover(dst, n)
  <2> DEFINE v == Block * K
             l == Leftover(dst, n)
  <2>1. v \in Nat /\ l \in Nat /\ n = p + v + l /\ K * Block = v
      BY <1>1, <1>2, <1>3, Product
  <2> HIDE DEF v, l
  <2>2. p + v = n - l
      BY <1>2, <2>1
  <2> QED BY <2>1, <2>2 DEF l
<1> QED BY <1>11, <1>12

(* Whatever it copies, a copy makes no new values.                          *)
LEMMA MemcpyTyped ==
    ASSUME NEW D, NEW S, NEW m, NEW dst, NEW src, NEW n,
           Forward(D, S, m, dst, src, n)
    PROVE  Memcpy(m, dst, src, n) \in [D -> S]
<1>1. /\ dst \in Nat /\ src \in Nat /\ n \in Nat /\ dst <= src /\ Block \in Nat \ {0}
      /\ m \in [D -> S] /\ D \subseteq Nat
    BY MemoryAssumption DEF Forward
<1>2. CASE n < Block
  <2>1. Bytes(m, dst, src, n) \in [D -> S]
      BY BytesMove, MovedTyped
  <2> QED BY <1>2, <2>1 DEF Memcpy
<1>3. CASE n >= Block
  <2> DEFINE q == n - Leftover(dst, n)
             done == Moved(m, dst, src, q)
  <2>1. Leftover(dst, n) \in 0 .. (Block - 1) /\ Leftover(dst, n) <= n
      BY <1>1, <1>3, Split
  <2>2. q \in Nat /\ q <= n
      BY <1>1, <2>1
  <2>3. Forward(D, S, m, dst, src, q)
      BY <1>1, <2>2 DEF Forward
  <2>4. done \in [D -> S]
      BY <2>3, MovedTyped
  <2>5. Vectors(m, dst, src, n) = done
      BY <1>3, VectorsMove
  <2>6. Memcpy(m, dst, src, n)
          = IF Leftover(dst, n) = 0 THEN done
            ELSE Vector(done, dst + n - Block, src + n - Block)
      BY <1>1, <1>3, <2>5 DEF Memcpy
  <2> HIDE DEF done, q
  <2>7. Vector(done, dst + n - Block, src + n - Block) \in [D -> S]
    <3>1. ASSUME NEW a \in D, a \in Span(dst + n - Block, Block)
          PROVE  a - (dst + n - Block) + (src + n - Block) \in D
      <4>1. PICK i \in 0 .. (n - 1) : a = dst + i
        <5>1. a \in Nat /\ a >= dst + n - Block /\ a < dst + n
            BY <1>1, <3>1 DEF Span
        <5>2. a - dst \in 0 .. (n - 1) /\ a = dst + (a - dst)
            BY <1>1, <1>3, <5>1
        <5> QED BY <5>2
      <4>2. src + i \in D
          BY DEF Forward
      <4>3. a - (dst + n - Block) + (src + n - Block) = src + i
          BY <1>1, <4>1
      <4> QED BY <4>2, <4>3
    <3> QED BY <2>4, <3>1 DEF Vector
  <2> QED BY <2>4, <2>6, <2>7
<1> QED BY <1>1, <1>2, <1>3

(* The vector copy to a lower address in the same memory does what the byte *)
(* loop would do, when it is safe (cg_util.asm, cg_memcpy_avx2).            *)
THEOREM MemcpyMoves ==
    ASSUME NEW D, NEW S, NEW m, NEW dst, NEW src, NEW n,
           Forward(D, S, m, dst, src, n), Safe(dst, src, n)
    PROVE  Memcpy(m, dst, src, n) = Moved(m, dst, src, n)
<1>1. /\ dst \in Nat /\ src \in Nat /\ n \in Nat /\ dst <= src /\ Block \in Nat \ {0}
      /\ m \in [D -> S] /\ D \subseteq Nat
    BY MemoryAssumption DEF Forward
<1>2. CASE n < Block
    BY <1>2, BytesMove DEF Memcpy
<1>3. CASE n >= Block
  <2> DEFINE l == Leftover(dst, n)
             q == n - l
             done == Moved(m, dst, src, q)
             whole == Moved(m, dst, src, n)
  <2>1. l \in 0 .. (Block - 1)
      BY <1>1, <1>3, Split
  <2>2. q \in Nat /\ q <= n /\ l \in Nat
      BY <1>1, <1>3, <2>1
  <2>3. Forward(D, S, m, dst, src, q)
      BY <1>1, <2>2 DEF Forward
  <2>4. done \in [D -> S] /\ whole \in [D -> S]
      BY <2>3, MovedTyped
  <2>5. Vectors(m, dst, src, n) = done
      BY <1>3, VectorsMove
  <2>6. Memcpy(m, dst, src, n)
          = IF l = 0 THEN done ELSE Vector(done, dst + n - Block, src + n - Block)
      BY <1>1, <1>3, <2>5 DEF Memcpy
  <2>7. Safe(dst, src, n) => src = dst \/ l = 0 \/ (src - dst) + l >= Block
      BY <1>1, <1>3 DEF Safe
  <2>8. \A a \in D : /\ done[a] = IF a \in Span(dst, q) THEN m[a - dst + src] ELSE m[a]
                     /\ whole[a] = IF a \in Span(dst, n) THEN m[a - dst + src] ELSE m[a]
      BY <1>1 DEF Moved
  <2>9. q = n - l
      OBVIOUS
  <2> HIDE DEF done, whole, q, l
  <2>10. CASE l = 0
      BY <1>1, <2>2, <2>6, <2>9, <2>10 DEF done, whole
  <2>11. CASE l # 0
    <3>1. ASSUME NEW a \in D
          PROVE  whole[a] = IF a \in Span(dst + n - Block, Block)
                            THEN done[a - (dst + n - Block) + (src + n - Block)] ELSE done[a]
      <4>1. CASE a \in Span(dst + n - Block, Block)
        <5>1. a \in Nat /\ a >= dst + n - Block /\ a < dst + n
            BY <1>1, <4>1 DEF Span
        <5>2. a - dst \in 0 .. (n - 1) /\ a = dst + (a - dst) /\ a - dst >= n - Block
            BY <1>1, <1>3, <5>1
        <5>3. PICK i \in 0 .. (n - 1) : a = dst + i /\ i >= n - Block
            BY <5>2
        <5>4. src + i \in D
            BY DEF Forward
        <5>5. a - (dst + n - Block) + (src + n - Block) = src + i /\ a - dst + src = src + i
            BY <1>1, <5>3
        <5>6. a \in Span(dst, n)
            BY <1>1, <5>3 DEF Span
        <5>7. whole[a] = m[src + i]
            BY <2>8, <5>5, <5>6
        <5>8. done[src + i] = m[src + i]
          <6>1. CASE src = dst
            <7>1. PICK b \in D : b = src + i
                BY <5>4
            <7>2. b - dst + src = b
                BY <1>1, <6>1
            <7>3. done[b] = IF b \in Span(dst, q) THEN m[b - dst + src] ELSE m[b]
                BY <2>8
            <7> QED BY <7>1, <7>2, <7>3
          <6>2. CASE (src - dst) + l >= Block
            <7>1. src + i \notin Span(dst, q)
                BY <1>1, <2>2, <2>9, <5>3, <6>2 DEF Span
            <7> QED BY <2>8, <5>4, <7>1
          <6> QED BY <2>7, <2>11, <6>1, <6>2
        <5> QED BY <4>1, <5>5, <5>7, <5>8
      <4>2. CASE a \notin Span(dst + n - Block, Block)
        <5>1. a \in Span(dst, n) <=> a \in Span(dst, q)
            BY <1>1, <1>3, <2>1, <2>2, <2>9, <4>2 DEF Span
        <5> QED BY <2>8, <4>2, <5>1
      <4> QED BY <4>1, <4>2
    <3>2. whole = Vector(done, dst + n - Block, src + n - Block)
        BY <2>4, <3>1 DEF Vector
    <3> QED BY <2>6, <2>11, <3>2 DEF whole
  <2> QED BY <2>10, <2>11
<1> QED BY <1>1, <1>2, <1>3

(* Where it is not safe the last vector takes bytes that are moved already: *)
(* it then spoils every memory whose bytes are all different.  So Safe is   *)
(* no more than the copy needs.                                             *)
THEOREM MemcpySpoils ==
    ASSUME NEW D, NEW S, NEW m, NEW dst, NEW src, NEW n,
           Forward(D, S, m, dst, src, n), ~Safe(dst, src, n),
           \A a, b \in D : m[a] = m[b] => a = b
    PROVE  Memcpy(m, dst, src, n) # Moved(m, dst, src, n)
<1>1. /\ dst \in Nat /\ src \in Nat /\ n \in Nat /\ dst <= src /\ Block \in Nat \ {0}
      /\ m \in [D -> S] /\ D \subseteq Nat
    BY MemoryAssumption DEF Forward
<1> DEFINE l == Leftover(dst, n)
           q == n - l
           a == dst + n - Block
           b == src + n - Block
           done == Moved(m, dst, src, q)
<1>2. n >= Block /\ src # dst /\ l # 0 /\ ~((src - dst) + l >= Block)
    BY <1>1 DEF Safe
<1>3. l \in 0 .. (Block - 1)
    BY <1>1, <1>2, Split
<1>4. Vectors(m, dst, src, n) = done
    BY <1>2, VectorsMove
<1>5. Memcpy(m, dst, src, n) = Vector(done, a, b)
    BY <1>1, <1>2, <1>4 DEF Memcpy
<1>6. DOMAIN done = D /\ DOMAIN m = D
    BY <1>1 DEF Moved
<1>7. q = n - l
    OBVIOUS
<1>8. a = dst + n - Block /\ b = src + n - Block
    OBVIOUS
<1> HIDE DEF l, q, a, b
<1>9. /\ a \in D /\ a \in Span(a, Block) /\ a \in Span(dst, n) /\ a - dst + src = b
      /\ a - a + b = b
  <2>1. n - Block \in 0 .. (n - 1) /\ dst + (n - Block) = a
      BY <1>1, <1>2, <1>8
  <2>2. dst + (n - Block) \in D
      BY <2>1 DEF Forward
  <2> QED BY <1>1, <1>2, <1>8, <2>1, <2>2 DEF Span
<1>10. b \in D /\ b \in Span(dst, q)
  <2>1. n - Block \in 0 .. (n - 1) /\ src + (n - Block) = b
      BY <1>1, <1>2, <1>8
  <2>2. src + (n - Block) \in D
      BY <2>1 DEF Forward
  <2>3. b \in Int /\ q \in Int /\ b >= dst /\ b <= dst + q - 1
      BY <1>1, <1>2, <1>3, <1>7, <1>8
  <2>4. b \in Span(dst, q)
    <3>1. dst \in Int /\ dst + q - 1 \in Int
        BY <1>1, <2>3
    <3> QED BY <2>3, <3>1 DEF Span
  <2> QED BY <2>1, <2>2, <2>4
<1>11. b - dst + src \in D /\ b - dst + src # b
  <2> DEFINE i == src - dst + (n - Block)
  <2>1. i \in 0 .. (n - 1) /\ src + i = b - dst + src
      BY <1>1, <1>2, <1>3, <1>8
  <2> HIDE DEF i
  <2>2. src + i \in D
      BY <2>1 DEF Forward
  <2> QED BY <1>1, <1>2, <1>8, <2>1, <2>2
<1>12. Vector(done, a, b)[a] = m[b - dst + src]
  <2>1. done[b] = m[b - dst + src]
      BY <1>6, <1>10 DEF Moved
  <2> HIDE DEF done
  <2> QED BY <1>6, <1>9, <2>1 DEF Vector
<1>13. Moved(m, dst, src, n)[a] = m[b]
    BY <1>6, <1>9 DEF Moved
<1> HIDE DEF done
<1> QED BY <1>5, <1>10, <1>11, <1>12, <1>13

(* Filling a place and one that continues it, or overlaps its end.          *)
LEMMA FillTwice ==
    ASSUME NEW m, DOMAIN m \subseteq Nat, NEW v, NEW dst \in Nat,
           NEW p \in Nat, NEW q \in Nat, NEW r \in Nat, q <= p, p <= q + r,
           NEW d, d = dst + q, NEW n, n = q + r
    PROVE  Fill(Fill(m, dst, v, p), d, v, r) = Fill(m, dst, v, n)
<1>1. \A x \in DOMAIN m :
        x \in Span(dst, n) <=> x \in Span(dst, p) \/ x \in Span(d, r)
    BY DEF Span
<1> DEFINE F == Fill(m, dst, v, p)
<1>2. DOMAIN F = DOMAIN m /\ \A x \in DOMAIN m : F[x] = IF x \in Span(dst, p) THEN v ELSE m[x]
    BY DEF Fill
<1>3. Fill(F, d, v, r) = [x \in DOMAIN F |-> IF x \in Span(d, r) THEN v ELSE F[x]]
    BY DEF Fill
<1>4. Fill(m, dst, v, n) = [x \in DOMAIN m |-> IF x \in Span(dst, n) THEN v ELSE m[x]]
    BY DEF Fill
<1> HIDE DEF F
<1>5. Fill(F, d, v, r) = Fill(m, dst, v, n)
    BY <1>1, <1>2, <1>3, <1>4
<1> QED BY <1>5 DEF F

(* The vector fill sets the bytes asked for and no others, at any alignment *)
(* (cg_util.asm, cg_memset_avx2).                                           *)
THEOREM MemsetFills ==
    ASSUME NEW m, DOMAIN m \subseteq Nat, NEW v, NEW dst \in Nat, NEW n \in Nat
    PROVE  Memset(m, dst, v, n) = Fill(m, dst, v, n)
<1>1. Block \in Nat \ {0}
    BY MemoryAssumption
<1>2. CASE n < Block
    BY <1>2 DEF Memset
<1>3. CASE n >= Block
  <2> DEFINE p == Prologue(dst)
             k == (n - p) \div Block
             w == Block * k
             l == Leftover(dst, n)
             done == Fill(Fill(m, dst, v, p), dst + p, v, k * Block)
  <2>1. p \in Nat /\ k \in Nat /\ l \in 0 .. (Block - 1) /\ n = p + Block * k + l
      BY <1>1, <1>3, Split
  <2>2. Memset(m, dst, v, n)
          = IF l = 0 THEN done ELSE Fill(done, dst + n - Block, v, Block)
      BY <1>1, <1>3 DEF Memset
  <2>3. Block * k \in Nat /\ k * Block = Block * k
    <3> HIDE DEF k
    <3> QED BY <1>1, <2>1
  <2>4. w \in Nat /\ n = p + w + l /\ w = k * Block
      BY <2>1, <2>3
  <2> HIDE DEF w, p, k, l, done
  <2>5. done = Fill(m, dst, v, p + w)
    <3> DEFINE x == dst + p
               y == p + w
    <3>1. p \in Nat /\ w \in Nat /\ p <= p /\ p <= p + w /\ x = dst + p /\ y = p + w
        BY <2>1, <2>4
    <3> HIDE DEF x, y
    <3>2. Fill(Fill(m, dst, v, p), x, v, w) = Fill(m, dst, v, y)
        BY <3>1, FillTwice
    <3> QED BY <2>4, <3>1, <3>2 DEF done
  <2>6. CASE l = 0
    <3>1. p + w = n
        BY <2>1, <2>4, <2>6
    <3> QED BY <2>2, <2>5, <2>6, <3>1
  <2>7. CASE l # 0
    <3> DEFINE g == n - Block
    <3>1. g \in Nat /\ g <= p + w /\ p + w <= g + Block /\ g + Block = n
          /\ p + w \in Nat /\ dst + n - Block = dst + g /\ n = g + Block
        BY <1>1, <1>3, <2>1, <2>4
    <3> HIDE DEF g
    <3>2. Fill(Fill(m, dst, v, p + w), dst + n - Block, v, Block) = Fill(m, dst, v, n)
        BY <1>1, <3>1, FillTwice
    <3> QED BY <2>2, <2>5, <2>7, <3>1, <3>2
  <2> QED BY <2>6, <2>7
<1> QED BY <1>1, <1>2, <1>3

(* The least of a set.                                                      *)
LEMMA MinIs ==
    ASSUME NEW T, T \subseteq Nat, NEW x \in T, \A y \in T : x <= y
    PROVE  Min(T) = x
<1>1. Min(T) \in T /\ \A y \in T : Min(T) <= y
  <2>1. \E z \in T : \A y \in T : z =< y
      OBVIOUS
  <2> QED BY <2>1 DEF Min
<1>2. Min(T) \in Nat /\ x \in Nat /\ Min(T) <= x /\ x <= Min(T)
    BY <1>1
<1> QED BY <1>2

(* The comparison by vectors and then bytes finds the first difference of   *)
(* all, and gives what the bytes differ by (cg_util.c, cg_memcmp_avx2).     *)
THEOREM MemcmpFindsFirst ==
    ASSUME NEW m, NEW p \in Nat, NEW q \in Nat, NEW n \in Nat
    PROVE  Memcmp(m, p, q, n) =
             LET D == Differ(m, p, q, n)
             IN  IF D = {} THEN 0 ELSE m[p + Min(D)] - m[q + Min(D)]
<1> DEFINE r == n % Block
           w == n - r
           D == Differ(m, p, q, n)
           V == Differ(m, p, q, w)
           T == Differ(m, p + w, q + w, r)
<1>1. Memcmp(m, p, q, n) =
        IF V # {} THEN m[p + Min(V)] - m[q + Min(V)]
        ELSE IF T # {} THEN m[p + w + Min(T)] - m[q + w + Min(T)]
        ELSE 0
    BY DEF Memcmp
<1>2. r \in Nat /\ w \in Nat /\ n = w + r
  <2>1. Block \in Nat \ {0}
      BY MemoryAssumption
  <2> DEFINE d == n \div Block
  <2>2. r \in Nat /\ d \in Nat /\ n = Block * d + r
      BY <2>1, Division
  <2> HIDE DEF d, r
  <2>3. Block * d \in Nat
      BY <2>1, <2>2
  <2> DEFINE u == Block * d
  <2>4. u \in Nat /\ n = u + r
      BY <2>2, <2>3
  <2> HIDE DEF u
  <2> QED BY <2>2, <2>4
<1> HIDE DEF r, w
<1>3. /\ D = {i \in 0 .. (n - 1) : m[p + i] # m[q + i]}
      /\ V = {i \in 0 .. (w - 1) : m[p + i] # m[q + i]}
      /\ T = {i \in 0 .. (r - 1) : m[p + w + i] # m[q + w + i]}
    BY DEF Differ
<1> HIDE DEF D, V, T
<1>4. D \subseteq Nat /\ V \subseteq Nat /\ T \subseteq Nat
    BY <1>2, <1>3
<1>5. \A i \in D : i < w => i \in V
    BY <1>2, <1>3
<1>6. \A i \in V : i \in D /\ i < w
    BY <1>2, <1>3
<1>7. ASSUME NEW i \in Nat PROVE i \in T <=> w + i \in D
  <2>1. p + w + i = p + (w + i) /\ q + w + i = q + (w + i)
      BY <1>2
  <2>2. i \in 0 .. (r - 1) <=> w + i \in 0 .. (n - 1)
      BY <1>2
  <2> QED BY <1>3, <2>1, <2>2
<1>8. CASE V # {}
  <2>1. PICK x \in V : \A y \in V : x <= y
      BY <1>4, <1>8, LeastNatural
  <2>2. Min(V) = x
      BY <1>4, <2>1, MinIs
  <2>3. x \in D /\ \A y \in D : x <= y
    <3>1. x \in Nat /\ x < w /\ x \in D
        BY <1>4, <1>6
    <3>2. ASSUME NEW y \in D PROVE x <= y
      <4>1. y \in Nat
          BY <1>4
      <4> QED BY <1>2, <1>5, <2>1, <3>1, <4>1
    <3> QED BY <3>1, <3>2
  <2>4. Min(D) = x
      BY <1>4, <2>3, MinIs
  <2> QED BY <1>1, <1>8, <2>2, <2>3, <2>4 DEF D
<1>9. CASE V = {} /\ T # {}
  <2>1. PICK x \in T : \A y \in T : x <= y
      BY <1>4, <1>9, LeastNatural
  <2>2. Min(T) = x /\ x \in Nat
      BY <1>4, <2>1, MinIs
  <2>3. w + x \in D
      BY <1>7, <2>2
  <2>4. ASSUME NEW y \in D PROVE w + x <= y
    <3>1. y \in Nat /\ y >= w
        BY <1>2, <1>4, <1>5, <1>9
    <3>2. y - w \in Nat /\ w + (y - w) = y
        BY <1>2, <3>1
    <3>3. y - w \in T
        BY <1>7, <3>2
    <3>4. x <= y - w
        BY <2>1, <3>3
    <3> QED BY <1>2, <2>2, <3>1, <3>4
  <2>5. Min(D) = w + x
      BY <1>4, <2>3, <2>4, MinIs
  <2>6. p + w + x = p + (w + x) /\ q + w + x = q + (w + x)
      BY <1>2, <2>2
  <2> QED BY <1>1, <1>9, <2>2, <2>3, <2>5, <2>6 DEF D
<1>10. CASE V = {} /\ T = {}
  <2>1. ASSUME NEW y \in D PROVE FALSE
    <3>1. y \in Nat /\ y >= w
        BY <1>2, <1>4, <1>5, <1>10
    <3>2. y - w \in Nat /\ w + (y - w) = y
        BY <1>2, <3>1
    <3> QED BY <1>7, <1>10, <3>2
  <2>2. D = {}
      BY <2>1
  <2> QED BY <1>1, <1>10, <2>2 DEF D
<1> QED BY <1>8, <1>9, <1>10

(* The remainder of a number written as multiple and rest.                  *)
LEMMA Remainder ==
    ASSUME NEW b \in Nat \ {0}, NEW q \in Int, NEW r \in 0 .. (b - 1)
    PROVE  (b * q + r) % b = r
OBVIOUS

(* The aligned vectors that hold the string at s of length e, its zero with *)
(* it: the routine reads these whole and nothing else, so it stays on the   *)
(* pages the string is on.                                                  *)
Around(s, e) == (s - (s % Block)) .. ((s + e) - ((s + e) % Block) + Block - 1)

(* The search by aligned vectors finds the zero that ends the string, what- *)
(* ever stands before the string in its first vector and behind it in its   *)
(* last (cg_util.asm, cg_strlen_avx2).                                      *)
THEOREM StrlenFindsEnd ==
    ASSUME NEW D, NEW m, DOMAIN m = D, D \subseteq Nat, IsFiniteSet(D),
           NEW s \in Nat, NEW e \in Nat, Around(s, e) \subseteq D,
           m[s + e] = 0, \A i \in 0 .. (e - 1) : m[s + i] # 0
    PROVE  Strlen(m, s) = e
<1> DEFINE B == Block
           r == s % B
           base == s - r
           t == r + e
           K == t \div B
           j == t % B
           u == B * K
           Z(l) == Zeros(m, base + l * B)
           first == {i \in Zeros(m, base) : i >= r}
           Stops(k) == /\ Z(k) # {}
                       /\ \A l \in 1 .. (k - 1) : Z(l) = {}
           k == CHOOSE x \in 1 .. Cardinality(D) : Stops(x)
<1>1. B \in Nat \ {0}
    BY MemoryAssumption
<1>2. /\ r \in 0 .. (B - 1) /\ base \in Nat /\ s = base + r
      /\ base = B * (s \div B) /\ s \div B \in Int
  <2> DEFINE d == s \div B
             x == B * d
  <2>1. d \in Nat /\ r \in 0 .. (B - 1) /\ s = x + r
    <3>1. s \in Int
        OBVIOUS
    <3> QED BY ONLY <1>1, <3>1, s \in Nat, Division
  <2>2. x \in Nat
    <3> HIDE DEF d
    <3> QED BY <1>1, <2>1
  <2> HIDE DEF d, r
  <2>3. base = B * d
    <3> HIDE DEF x
    <3>1. base = x
        BY <1>1, <2>1, <2>2
    <3> QED BY <3>1 DEF x
  <2> QED BY <1>1, <2>1, <2>2, <2>3 DEF d
<1> HIDE DEF r, base
<1>3. K \in Nat /\ j \in 0 .. (B - 1) /\ t = u + j /\ t \in Nat /\ u \in Nat
  <2>1. t \in Nat
      BY <1>1, <1>2
  <2> HIDE DEF t
  <2>2. K \in Nat /\ j \in 0 .. (B - 1) /\ t = u + j
    <3>1. t \in Int
        BY <2>1
    <3> QED BY ONLY <1>1, <2>1, <3>1, Division
  <2> HIDE DEF K
  <2>3. u \in Nat
      BY <1>1, <2>2
  <2> QED BY <2>1, <2>2, <2>3
<1>4. t = r + e /\ u = B * K /\ base + u + j = s + e
    BY <1>1, <1>2, <1>3
<1>5. Strlen(m, s) =
        IF first # {} THEN Min(first) - r
        ELSE base + k * B + Min(Z(k)) - s
    BY DEF Strlen, r, base
<1> HIDE DEF t, j, K, u
<1>6. Around(s, e) = base .. (base + u + B - 1)
  <2> DEFINE c == s \div B
  <2>1. s + e = B * (c + K) + j
    <3>1. c \in Int /\ base = B * c
        BY <1>2
    <3> HIDE DEF c
    <3>2. B * (c + K) = B * c + B * K
        BY <1>1, <1>3, <3>1
    <3>3. B * (c + K) = base + u
        BY <1>4, <3>1, <3>2
    <3> QED BY <1>4, <3>3
  <2>2. c + K \in Int
      BY <1>2, <1>3
  <2> HIDE DEF c
  <2>3. (B * (c + K) + j) % B = j
      BY <1>1, <1>3, <2>2, Remainder
  <2>4. (s + e) % B = j
      BY <2>1, <2>3
  <2>5. (s + e) - ((s + e) % Block) + Block - 1 = base + u + B - 1
      BY <1>1, <1>2, <1>3, <1>4, <2>4
  <2>6. s - (s % Block) = base
      BY DEF base, r
  <2> QED BY <2>5, <2>6 DEF Around
<1>7. ASSUME NEW i \in Nat, i < t, i >= r PROVE m[base + i] # 0
  <2>1. i - r \in 0 .. (e - 1) /\ s + (i - r) = base + i
      BY <1>1, <1>2, <1>3, <1>4, <1>7
  <2> QED BY <2>1
<1>8. m[base + t] = 0
  <2>1. base + t = s + e
      BY <1>2, <1>4
  <2> QED BY <2>1
<1>9. ASSUME NEW a \in Nat
      PROVE  Zeros(m, a) = {i \in 0 .. (B - 1) : m[a + i] = 0} /\ Zeros(m, a) \subseteq Nat
    BY <1>1 DEF Zeros
<1>10. CASE K = 0
  <2>1. u = 0 /\ t = j
      BY <1>1, <1>3, <1>4, <1>10
  <2>2. j \in first
    <3>1. j >= r /\ m[base + j] = 0
        BY <1>2, <1>3, <1>4, <1>8, <2>1
    <3> QED BY <1>2, <1>3, <1>9, <3>1
  <2>3. first \subseteq Nat /\ \A i \in first : j <= i
    <3>1. ASSUME NEW i \in first PROVE i \in Nat /\ j <= i
      <4>1. i \in Nat /\ i >= r /\ m[base + i] = 0
          BY <1>1, <1>2, <1>9
      <4> QED BY <1>3, <1>7, <2>1, <4>1
    <3> QED BY <3>1
  <2>4. Min(first) = j
    <3> HIDE DEF first
    <3> QED BY <2>2, <2>3, MinIs
  <2>5. Strlen(m, s) = j - r
    <3> HIDE DEF first, k
    <3> QED BY <1>5, <2>2, <2>4
  <2> QED BY <1>2, <1>3, <1>4, <2>1, <2>5
<1>11. CASE K # 0
  <2>1. u >= B
    <3>1. B * 1 <= B * K
        BY <1>1, <1>3, <1>11, Product
    <3> QED BY <1>1, <1>4, <3>1
  <2>2. first = {}
    <3>1. ASSUME NEW i \in first PROVE FALSE
      <4>1. i \in 0 .. (B - 1) /\ i >= r /\ m[base + i] = 0
          BY <1>2, <1>9
      <4>2. i \in Nat /\ i < t
          BY <1>1, <1>3, <2>1, <4>1
      <4> QED BY <1>7, <4>1, <4>2
    <3> QED BY <3>1
  <2>3. ASSUME NEW l \in 1 .. (K - 1) PROVE Z(l) = {}
    <3> DEFINE v == B * l
    <3>1. v \in Nat /\ v >= B /\ v + B <= u /\ l * B = v
      <4>1. l \in Nat /\ l + 1 \in Nat /\ 1 <= l /\ l + 1 <= K
          BY <1>3
      <4>2. B * 1 <= B * l /\ B * l \in Nat /\ B * (l + 1) <= B * K
          BY <1>1, <1>3, <4>1, Product
      <4>3. B * (l + 1) = B * l + B /\ B * 1 = B /\ l * B = B * l
          BY <1>1, <4>1
      <4> QED BY <1>4, <4>2, <4>3
    <3> HIDE DEF v
    <3>2. ASSUME NEW i \in Z(l) PROVE FALSE
      <4>1. base + v \in Nat /\ base + l * B = base + v
          BY <1>2, <3>1
      <4>2. i \in 0 .. (B - 1) /\ m[base + v + i] = 0
          BY <1>9, <4>1
      <4>3. v + i \in Nat /\ v + i < t /\ v + i >= r /\ base + (v + i) = base + v + i
          BY <1>1, <1>2, <1>3, <3>1, <4>2
      <4> QED BY <1>7, <4>2, <4>3
    <3> QED BY <3>2
  <2>4. K * B = u /\ base + u \in Nat
      BY <1>1, <1>2, <1>3, <1>4
  <2>5. Z(K) \subseteq Nat /\ j \in Z(K) /\ \A i \in Z(K) : j <= i
    <3>1. Z(K) = {i \in 0 .. (B - 1) : m[base + u + i] = 0}
        BY <1>9, <2>4
    <3>2. base + u + j = base + t
        BY <1>2, <1>3
    <3>3. j \in Z(K)
        BY <1>3, <1>8, <3>1, <3>2
    <3>4. ASSUME NEW i \in Z(K) PROVE i \in Nat /\ j <= i
      <4>1. i \in 0 .. (B - 1) /\ m[base + u + i] = 0
          BY <3>1
      <4>2. i \in Nat /\ u + i \in Nat /\ u + i >= r /\ base + (u + i) = base + u + i
          BY <1>1, <1>2, <1>3, <2>1, <4>1
      <4>3. ~(u + i < t)
          BY <1>7, <4>1, <4>2
      <4> QED BY <1>3, <4>2, <4>3
    <3> QED BY <3>3, <3>4
  <2>6. K \in 1 .. Cardinality(D)
    <3> DEFINE I == base .. (base + u + B - 1)
    <3>1. I \in SUBSET D
        BY <1>6
    <3>2. base \in Int /\ base + u + B - 1 \in Int
        BY <1>1, <1>2, <1>3
    <3>3. Cardinality(I) = u + B
      <4>1. ~(base > base + u + B - 1)
            /\ (base + u + B - 1) - base + 1 = u + B
          BY <1>1, <1>2, <1>3
      <4> QED BY <3>2, <4>1, FS_Interval
    <3> HIDE DEF I
    <3>4. u + B <= Cardinality(D) /\ Cardinality(D) \in Nat
      <4>1. Cardinality(I) <= Cardinality(D)
          BY <3>1, FS_Subset
      <4> QED BY <3>3, <4>1, FS_CardinalityType
    <3>5. K <= u
      <4>1. K * 1 <= K * B
          BY <1>1, <1>3, Product
      <4> QED BY <1>3, <2>4, <4>1
    <3> QED BY <1>1, <1>3, <1>11, <3>4, <3>5
  <2>7. Stops(K)
      BY <2>3, <2>5
  <2> HIDE DEF Z
  <2>8. ASSUME NEW x \in 1 .. Cardinality(D), Stops(x) PROVE x = K
    <3>1. x \in Nat /\ x >= 1
        BY <2>6
    <3>2. ~(x < K)
        BY <1>3, <2>3, <2>8, <3>1
    <3>3. ~(K < x)
        BY <1>3, <1>11, <2>5, <2>8, <3>1
    <3> QED BY <1>3, <3>1, <3>2, <3>3
  <2>9. k = K
    <3> HIDE DEF Stops
    <3> QED BY <2>6, <2>7, <2>8
  <2>10. Min(Z(K)) = j
      BY <2>5, MinIs
  <2>11. Strlen(m, s) = base + u + j - s
    <3> HIDE DEF first, k
    <3> QED BY <1>5, <2>2, <2>4, <2>9, <2>10
  <2> QED BY <1>2, <1>3, <1>4, <2>11
<1> QED BY <1>10, <1>11

-----------------------------------------------------------------------------
(* The rest of the buffer, as it is left by the move to the front.          *)
(* A safe move to the front leaves the rest, any move as many units.        *)
LEMMA RestIs ==
    ASSUME NEW S, rx \in Seq(S), NEW p \in 0 .. Len(rx)
    PROVE  /\ RestAt(p) \in Seq(S) /\ Len(RestAt(p)) = Len(rx) - p
           /\ RestIsSafe(p) => \A i \in 1 .. (Len(rx) - p) : RestAt(p)[i] = rx[p + i]
<1> DEFINE n == Len(rx) - p
           A == RxAddress
           D == A .. (A + Len(rx) - 1)
           bytes == [a \in D |-> rx[a - A + 1]]
           moved == Memcpy(bytes, A, A + p, n)
<1>1. Len(rx) \in Nat /\ A \in Nat /\ n \in Nat /\ p \in Nat
    BY FastCGIAssumption, MemoryAssumption
<1>2. bytes \in [D -> S]
  <2>1. ASSUME NEW a \in D PROVE rx[a - A + 1] \in S
    <3>1. a - A + 1 \in 1 .. Len(rx)
        BY <1>1
    <3> QED BY <3>1, ElementOfSeq
  <2> QED BY <2>1
<1>3. Forward(D, S, bytes, A, A + p, n)
    BY <1>1, <1>2 DEF Forward
<1>4. moved \in [D -> S]
    BY <1>3, MemcpyTyped
<1>5. RestAt(p) = [i \in 1 .. n |-> moved[A + i - 1]]
    BY DEF RestAt
<1>6. ASSUME NEW i \in 1 .. n PROVE A + i - 1 \in D
    BY <1>1
<1>7. ASSUME RestIsSafe(p), NEW i \in 1 .. n PROVE moved[A + i - 1] = rx[p + i]
  <2>1. Safe(A, A + p, n)
      BY <1>7 DEF RestIsSafe
  <2>2. moved = Moved(bytes, A, A + p, n)
      BY <1>3, <2>1, MemcpyMoves
  <2> HIDE DEF moved
  <2>3. A + i - 1 \in D /\ A + i - 1 \in Span(A, n)
      BY <1>1 DEF Span
  <2>4. moved[A + i - 1] = bytes[A + i - 1 - A + (A + p)]
    <3>1. DOMAIN bytes = D
        OBVIOUS
    <3> HIDE DEF bytes, D, n
    <3>2. PICK a \in D : a = A + i - 1 /\ a \in Span(A, n)
        BY <2>3
    <3>3. moved[a] = bytes[a - A + (A + p)]
        BY <2>2, <3>1, <3>2 DEF Moved
    <3> QED BY <1>1, <3>2, <3>3
  <2>5. A + i - 1 - A + (A + p) = A + (p + i) - 1 /\ A + (p + i) - 1 \in D
      BY <1>1
  <2>6. (A + (p + i) - 1) - A + 1 = p + i
      BY <1>1
  <2>7. bytes[A + (p + i) - 1] = rx[p + i]
      BY <2>5, <2>6
  <2> QED BY <2>4, <2>5, <2>7
<1> HIDE DEF moved, D
<1>8. RestAt(p) \in Seq(S) /\ Len(RestAt(p)) = n
  <2>1. \A i \in 1 .. n : moved[A + i - 1] \in S
      BY <1>4, <1>6
  <2>2. RestAt(p) \in [1 .. n -> S]
      BY <1>5, <2>1
  <2> QED BY <1>1, <2>2
<1> QED BY <1>5, <1>7, <1>8

(* One sequence after another.                                              *)
LEMMA ConcatIs ==
    ASSUME NEW S, NEW a \in Seq(S), NEW b \in Seq(S)
    PROVE  /\ a \o b \in Seq(S) /\ Len(a \o b) = Len(a) + Len(b)
           /\ Len(a) \in Nat /\ Len(b) \in Nat
           /\ \A j \in 1 .. Len(a) : (a \o b)[j] = a[j]
           /\ \A j \in 1 .. Len(b) : (a \o b)[Len(a) + j] = b[j]
<1> DEFINE c == a \o b
           m == Len(a)
           n == Len(b)
<1>1. m \in Nat /\ n \in Nat
    BY LenProperties
<1>2. /\ Len(a \o b) = Len(a) + Len(b) /\ a \o b \in Seq(S)
      /\ \A j \in 1 .. Len(a) + Len(b) :
           (a \o b)[j] = IF j <= Len(a) THEN a[j] ELSE b[j - Len(a)]
    BY ConcatProperties
<1>3. \A j \in 1 .. m + n : c[j] = IF j <= m THEN a[j] ELSE b[j - m]
    BY <1>2
<1> HIDE DEF c, m, n
<1>4. \A j \in 1 .. m : c[j] = a[j]
    BY <1>1, <1>3
<1>5. ASSUME NEW j \in 1 .. n PROVE c[m + j] = b[j]
  <2>1. m + j \in 1 .. m + n /\ ~(m + j <= m)
      BY <1>1
  <2>2. m + j - m = j
      BY <1>1
  <2> QED BY <1>1, <1>3, <2>1, <2>2
<1> QED BY <1>1, <1>2, <1>4, <1>5 DEF c, m, n

(* Flattening.  F[k] is what the first k of the sequences make together.    *)
Sequences(s, S)   == s \in Seq(Seq(S)) /\ s # <<>>
IsCourse(F, s, S) == /\ Sequences(s, S)
                     /\ F \in [0 .. Len(s) -> Seq(S)] /\ F[0] = <<>>
                     /\ \A k \in 1 .. Len(s) : F[k] = F[k - 1] \o s[k]

(* What FlattenSeq computes is the last of the course.                      *)
LEMMA FlattenCourse ==
    ASSUME NEW S, NEW s, Sequences(s, S)
    PROVE  \E F : IsCourse(F, s, S) /\ F[Len(s)] = FlattenSeq(s)
<1> DEFINE n == Len(s)
           G == [z \in Seq(S) \X (1 .. n) |-> z[1] \o s[z[2]]]
           Step(f) == [i \in 1 .. n |-> IF i = 1 THEN s[i] ELSE f[i - 1] \o s[i]]
<1>1. /\ n \in Nat \ {0} /\ \A i \in 1 .. n : s[i] \in Seq(S)
      /\ s \in Seq(Seq(S)) /\ s # <<>>
    BY EmptySeq, ElementOfSeq DEF Sequences
<1>2. \A x, y \in Seq(S) : x \o y \in Seq(S)
    BY ConcatProperties
<1>3. G \in [Seq(S) \X (1 .. n) -> Seq(S)]
    BY <1>1, <1>2
<1>4. <<>> \in Seq(S) /\ n \in Nat
    BY <1>1
<1> HIDE DEF n
<1>5. PICK F \in [0 .. n -> Seq(S)] :
             F[0] = <<>> /\ \A i \in 1 .. n : F[i] = G[<<F[i - 1], i>>]
  <2> DEFINE M == Seq(S)
             e == <<>>
  <2>1. IsStep(G, M, n) /\ e \in M
      BY <1>3, <1>4 DEF IsStep
  <2> HIDE DEF G, M, e
  <2>2. PICK F : IsRun(F, G, M, e, n)
      BY <1>4, <2>1, CourseExists
  <2> QED BY <2>2 DEF M, e, IsRun
<1>6. \A i \in 1 .. n : F[i] = F[i - 1] \o s[i]
  <2>1. ASSUME NEW i \in 1 .. n PROVE F[i] = F[i - 1] \o s[i]
    <3>1. F[i - 1] \in Seq(S)
        BY <1>4
    <3>2. G[<<F[i - 1], i>>] = F[i - 1] \o s[i]
        BY <3>1
    <3> QED BY <1>5, <3>2
  <2> QED BY <2>1
<1>7. F[1] = s[1]
  <2>1. 1 \in 1 .. n /\ s[1] \in Seq(S)
      BY <1>1 DEF n
  <2>2. F[1] = F[0] \o s[1]
    <3>1. F[1] = F[1 - 1] \o s[1]
        BY <1>6, <2>1
    <3> QED BY <3>1
  <2> QED BY <1>5, <2>1, <2>2, ConcatEmptySeq
<1> DEFINE H == [i \in 1 .. n |-> F[i]]
<1>8. H = Step(H)
  <2>1. ASSUME NEW i \in 1 .. n PROVE H[i] = Step(H)[i]
    <3>1. CASE i = 1
        BY <1>7, <3>1
    <3>2. CASE i # 1
      <4>1. i - 1 \in 1 .. n
          BY <1>4, <3>2
      <4> QED BY <1>6, <3>2, <4>1
    <3> QED BY <3>1, <3>2
  <2> QED BY <2>1
<1>9. ASSUME NEW f, f = Step(f) PROVE f[n] = F[n]
  <2> DEFINE Bad == {i \in 1 .. n : f[i] # F[i]}
  <2>1. SUFFICES ASSUME Bad # {} PROVE FALSE
    <3>1. n \in 1 .. n
        BY <1>1 DEF n
    <3> QED BY <3>1
  <2>2. PICK i \in Bad : \A j \in Bad : i <= j
    <3>1. Bad \subseteq Nat
        OBVIOUS
    <3> HIDE DEF Bad
    <3> QED BY <2>1, <3>1, LeastNatural
  <2>3. i \in 1 .. n /\ f[i] = Step(f)[i]
      BY <1>9
  <2>4. i # 1
      BY <1>7, <2>2, <2>3
  <2>5. i - 1 \in 1 .. n /\ i - 1 \notin Bad
      BY <1>4, <2>2, <2>3, <2>4
  <2>6. f[i] = f[i - 1] \o s[i]
      BY <2>3, <2>4
  <2>7. f[i - 1] = F[i - 1]
      BY <2>5
  <2> QED BY <1>6, <2>2, <2>3, <2>6, <2>7
<1>10. FlattenSeq(s) = (CHOOSE f : f = Step(f))[n]
    BY <1>1 DEF FlattenSeq, n
<1>11. FlattenSeq(s) = F[n]
  <2> HIDE DEF Step, H
  <2> QED BY <1>8, <1>9, <1>10
<1> QED BY <1>5, <1>6, <1>11 DEF IsCourse, n

(* Each of the sequences is found where those before it end.                *)
Placed(F, s, k) ==
    /\ Len(F[k]) = Len(F[k - 1]) + Len(s[k])
    /\ \A l \in k .. Len(s) :
         /\ Len(F[k]) <= Len(F[l])
         /\ \A j \in 1 .. Len(s[k]) : F[l][Len(F[k - 1]) + j] = s[k][j]

(* Each is at its place in all that follow.                                 *)
LEMMA FlattenPlaces ==
    ASSUME NEW S, NEW s, NEW F, IsCourse(F, s, S), NEW k \in 1 .. Len(s)
    PROVE  Placed(F, s, k)
<1>1. Len(s) \in Nat /\ s \in Seq(Seq(S)) /\ \A i \in 1 .. Len(s) : s[i] \in Seq(S)
    BY LenProperties, ElementOfSeq DEF IsCourse, Sequences
<1> DEFINE n == Len(s)
<1>2. \A i \in 0 .. n : F[i] \in Seq(S) /\ Len(F[i]) \in Nat
    BY LenProperties DEF IsCourse
<1>3. ASSUME NEW i \in 1 .. n
      PROVE  /\ i - 1 \in 0 .. n /\ i \in 0 .. n
             /\ F[i - 1] \in Seq(S) /\ s[i] \in Seq(S) /\ F[i] = F[i - 1] \o s[i]
             /\ Len(s[i]) \in Nat
             /\ Len(F[i]) = Len(F[i - 1]) + Len(s[i])
             /\ \A j \in 1 .. Len(F[i - 1]) : F[i][j] = F[i - 1][j]
             /\ \A j \in 1 .. Len(s[i]) : F[i][Len(F[i - 1]) + j] = s[i][j]
  <2>1. i - 1 \in 0 .. n /\ i \in 0 .. n
      BY <1>1
  <2>2. F[i - 1] \in Seq(S) /\ s[i] \in Seq(S) /\ F[i] = F[i - 1] \o s[i]
      BY <1>1, <1>2, <2>1 DEF IsCourse
  <2>3. Len(s[i]) \in Nat /\ Len(F[i - 1]) \in Nat
      BY <2>2, LenProperties
  <2> DEFINE a == F[i - 1]
             b == s[i]
  <2>4. /\ Len(a \o b) = Len(a) + Len(b)
        /\ \A j \in 1 .. Len(a) : (a \o b)[j] = a[j]
        /\ \A j \in 1 .. Len(b) : (a \o b)[Len(a) + j] = b[j]
    <3> HIDE DEF a, b
    <3>1. a \in Seq(S) /\ b \in Seq(S)
        BY <2>2 DEF a, b
    <3> QED BY <3>1, ConcatIs
  <2> QED BY <2>1, <2>2, <2>3, <2>4
<1> DEFINE Fine(l) == /\ Len(F[k]) <= Len(F[l])
                      /\ \A j \in 1 .. Len(s[k]) : F[l][Len(F[k - 1]) + j] = s[k][j]
           Bad == {l \in k .. n : ~Fine(l)}
<1>4. SUFFICES Bad = {}
    BY <1>3 DEF Placed
<1>5. SUFFICES ASSUME Bad # {} PROVE FALSE
    OBVIOUS
<1>6. PICK l \in Bad : \A x \in Bad : l <= x
  <2>1. Bad \subseteq Nat
      BY <1>1
  <2> HIDE DEF Bad
  <2> QED BY <1>5, <2>1, LeastNatural
<1>7. k \in 0 .. n /\ k - 1 \in 0 .. n
    BY <1>1
<1>8. Len(F[k]) \in Nat /\ Len(F[k - 1]) \in Nat
    BY <1>2, <1>7
<1>9. Fine(k)
  <2>1. Len(F[k]) <= Len(F[k])
      BY <1>8
  <2> QED BY <1>3, <2>1
<1>10. l \in (k + 1) .. n /\ l - 1 \in k .. n /\ l \in 1 .. n /\ ~(l <= l - 1)
  <2>1. l \in k .. n /\ l # k
      BY <1>6, <1>9
  <2> QED BY <1>1, <2>1
<1>11. Fine(l - 1)
  <2>1. l - 1 \notin Bad
    <3> HIDE DEF Bad
    <3> QED BY <1>6, <1>10
  <2> QED BY <1>10, <2>1
<1>12. Len(F[l - 1]) \in Nat /\ Len(F[l]) = Len(F[l - 1]) + Len(s[l]) /\ Len(s[l]) \in Nat
    BY <1>2, <1>3, <1>10
<1>13. Len(F[k]) <= Len(F[l]) /\ Len(F[k]) \in Nat /\ Len(F[k - 1]) \in Nat
  <2>1. Len(F[k]) <= Len(F[l - 1])
      BY <1>11
  <2> DEFINE x == Len(F[k])
             y == Len(F[l - 1])
             z == Len(F[l])
             w == Len(s[l])
  <2>2. x \in Nat /\ y \in Nat /\ w \in Nat /\ x <= y /\ z = y + w
      BY <1>12, <1>8, <2>1
  <2> HIDE DEF x, y, z, w
  <2>3. x <= z
      BY <2>2
  <2> QED BY <1>8, <2>3 DEF x, z
<1>14. ASSUME NEW j \in 1 .. Len(s[k]) PROVE F[l][Len(F[k - 1]) + j] = s[k][j]
  <2>1. Len(s[k]) \in Nat /\ Len(F[k]) = Len(F[k - 1]) + Len(s[k])
      BY <1>3
  <2>2. PICK i \in 1 .. Len(F[l - 1]) : i = Len(F[k - 1]) + j
    <3>1. Len(F[k]) <= Len(F[l - 1])
        BY <1>11
    <3> DEFINE x == Len(F[k - 1])
               y == Len(F[l - 1])
               z == Len(F[k])
               w == Len(s[k])
    <3>2. x \in Nat /\ y \in Nat /\ w \in Nat /\ z <= y /\ z = x + w /\ j \in 1 .. w
        BY <1>12, <1>8, <2>1, <3>1
    <3> HIDE DEF x, y, z, w
    <3>3. x + j \in 1 .. y
        BY <3>2
    <3> QED BY <3>3 DEF x, y
  <2>3. F[l][i] = F[l - 1][i]
      BY <1>3, <1>10
  <2>4. F[l - 1][Len(F[k - 1]) + j] = s[k][j]
      BY <1>11
  <2> QED BY <2>2, <2>3, <2>4
<1>15. Fine(l) /\ ~Fine(l)
    BY <1>6, <1>13, <1>14
<1> QED BY <1>15

-----------------------------------------------------------------------------
(* What the web server may send.                                            *)
Records == {rec \in [hdr : Headers, of : Requests, no : Nat] : Size(rec.hdr) <= MaxPayload}
Units   == [rec : Records, at : Nat \ {0}]

(* A record of a request, by its place: the first opens it, the second has  *)
(* its parameters, the last is the only empty STDIN.                        *)
LEMMA RecordsAre ==
    ASSUME NEW r \in Requests
    PROVE  /\ RecordsOf(r) \in Seq(Records) /\ Len(RecordsOf(r)) \in Nat
           /\ Len(RecordsOf(r)) > 3
           /\ \A k \in 1 .. Len(RecordsOf(r)) :
                LET rec == RecordsOf(r)[k] IN
                /\ rec \in Records /\ rec.of = r /\ rec.hdr.id = r.id
                /\ k = 1 => rec.hdr.type = "BEGIN" /\ rec.hdr.len = 1
                /\ k = 2 => rec.hdr.type = "PARAMS" /\ rec.hdr.len = 2
                /\ k > 2 /\ k < Len(RecordsOf(r)) =>
                     rec.hdr.type \in {"OTHER", "STDIN"}
                       /\ (rec.hdr.type = "STDIN" => rec.hdr.len > 0)
                /\ k = Len(RecordsOf(r)) => rec.hdr.type = "STDIN" /\ rec.hdr.len = 0
<1> DEFINE C == r.chunks
           n == Len(C)
           a == << Record("BEGIN", r.id, 1, 0, r, 0), Record("PARAMS", r.id, 2, 1, r, 0),
                   Record("OTHER", r.id, r.other, 0, r, 0) >>
           b == [k \in DOMAIN C |-> Record("STDIN", r.id, C[k], 0, r, k)]
           z == Record("STDIN", r.id, 0, 1, r, 0)
           all == (a \o b) \o <<z>>
<1>1. /\ C \in Seq(1 .. MaxPayload) /\ r.id \in (0 .. 255) \X (0 .. 255)
      /\ r.other \in 0 .. MaxPayload /\ MaxPayload \in Nat /\ MaxPayload >= 3
    BY FastCGIAssumption
<1>2. n \in Nat /\ DOMAIN C = 1 .. n /\ \A k \in 1 .. n : C[k] \in 1 .. MaxPayload
    BY <1>1, LenProperties, ElementOfSeq
<1>3. ASSUME NEW t \in {"BEGIN", "PARAMS", "STDIN", "OTHER"}, NEW l \in 0 .. MaxPayload,
             NEW d \in 0 .. MaxPayload, NEW no \in Nat, l + d <= MaxPayload
      PROVE  Record(t, r.id, l, d, r, no) \in Records
    BY <1>1, <1>3 DEF Record, Records, Headers, Size
<1>4. a \in Seq(Records) /\ Len(a) = 3
  <2>1. Record("BEGIN", r.id, 1, 0, r, 0) \in Records
    <3>1. 1 \in 0 .. MaxPayload /\ 0 \in 0 .. MaxPayload /\ 1 + 0 <= MaxPayload
        BY <1>1
    <3> QED BY ONLY <1>3, <3>1
  <2>2. Record("PARAMS", r.id, 2, 1, r, 0) \in Records
    <3>1. 2 \in 0 .. MaxPayload /\ 1 \in 0 .. MaxPayload /\ 2 + 1 <= MaxPayload
        BY <1>1
    <3> QED BY ONLY <1>3, <3>1
  <2>3. Record("OTHER", r.id, r.other, 0, r, 0) \in Records
    <3>1. 0 \in 0 .. MaxPayload /\ r.other + 0 <= MaxPayload
        BY <1>1
    <3> QED BY ONLY <1>1, <1>3, <3>1
  <2> QED BY <2>1, <2>2, <2>3
<1>5. b \in Seq(Records) /\ Len(b) = n
  <2>1. ASSUME NEW k \in 1 .. n PROVE Record("STDIN", r.id, C[k], 0, r, k) \in Records
    <3>1. C[k] \in 0 .. MaxPayload /\ 0 \in 0 .. MaxPayload /\ C[k] + 0 <= MaxPayload
          /\ k \in Nat
        BY <1>1, <1>2
    <3> HIDE DEF C
    <3> QED BY ONLY <1>3, <3>1
  <2>2. b \in [1 .. n -> Records]
      BY <1>2, <2>1
  <2> QED BY <1>2, <2>2
<1>6. z \in Records /\ <<z>> \in Seq(Records) /\ Len(<<z>>) = 1
    BY <1>1, <1>3
<1>7. RecordsOf(r) = all
    BY DEF RecordsOf
<1>8. /\ a \o b \in Seq(Records) /\ Len(a \o b) = 3 + n
      /\ \A j \in 1 .. 3 : (a \o b)[j] = a[j]
      /\ \A j \in 1 .. n : (a \o b)[3 + j] = b[j]
  <2> HIDE DEF a, b, n
  <2>1. /\ a \o b \in Seq(Records) /\ Len(a \o b) = Len(a) + Len(b)
        /\ \A j \in 1 .. Len(a) : (a \o b)[j] = a[j]
        /\ \A j \in 1 .. Len(b) : (a \o b)[Len(a) + j] = b[j]
    <3>1. a \in Seq(Records) /\ b \in Seq(Records)
        BY <1>4, <1>5
    <3> QED BY <3>1, ConcatIs
  <2> QED BY <1>4, <1>5, <2>1
<1>9. /\ all \in Seq(Records) /\ Len(all) = 4 + n
      /\ \A j \in 1 .. (3 + n) : all[j] = (a \o b)[j]
      /\ all[4 + n] = z
  <2> DEFINE ab == a \o b
             e == <<z>>
             l == 3 + n
  <2>1. e \in Seq(Records) /\ Len(e) = 1 /\ e[1] = z
      BY <1>6
  <2>2. ab \in Seq(Records) /\ Len(ab) = l /\ 1 \in 1 .. 1
      BY <1>8
  <2> HIDE DEF ab, e, z, l
  <2>3. /\ ab \o e \in Seq(Records) /\ Len(ab \o e) = l + 1
        /\ \A j \in 1 .. l : (ab \o e)[j] = ab[j]
        /\ (ab \o e)[l + 1] = e[1]
    <3>1. /\ ab \o e \in Seq(Records) /\ Len(ab \o e) = Len(ab) + Len(e)
          /\ \A j \in 1 .. Len(ab) : (ab \o e)[j] = ab[j]
          /\ \A j \in 1 .. Len(e) : (ab \o e)[Len(ab) + j] = e[j]
        BY <2>1, <2>2, ConcatIs
    <3> QED BY <2>1, <2>2, <3>1
  <2>4. l + 1 = 4 + n
      BY <1>2 DEF l
  <2> QED BY <2>1, <2>3, <2>4 DEF ab, e, l
<1>10. ASSUME NEW k \in 1 .. (4 + n)
       PROVE  LET rec == all[k] IN
                /\ rec \in Records /\ rec.of = r /\ rec.hdr.id = r.id
                /\ k = 1 => rec.hdr.type = "BEGIN" /\ rec.hdr.len = 1
                /\ k = 2 => rec.hdr.type = "PARAMS" /\ rec.hdr.len = 2
                /\ k > 2 /\ k < 4 + n =>
                     rec.hdr.type \in {"OTHER", "STDIN"}
                       /\ (rec.hdr.type = "STDIN" => rec.hdr.len > 0)
                /\ k = 4 + n => rec.hdr.type = "STDIN" /\ rec.hdr.len = 0
  <2>1. all[k] \in Records
      BY <1>9, ElementOfSeq
  <2> HIDE DEF all
  <2>2. CASE k \in 1 .. 3
    <3>1. all[k] = a[k] /\ k < 4 + n
      <4>1. k \in 1 .. (3 + n)
          BY <1>2, <2>2
      <4> HIDE DEF a, b, n
      <4>2. all[k] = (a \o b)[k]
          BY <1>9, <4>1
      <4>3. (a \o b)[k] = a[k]
          BY <1>8, <2>2
      <4> QED BY <1>2, <2>2, <4>2, <4>3
    <3>2. CASE k = 1
        BY <2>1, <3>1, <3>2 DEF Record
    <3>3. CASE k = 2
        BY <2>1, <3>1, <3>3 DEF Record
    <3>4. CASE k = 3
        BY <2>1, <3>1, <3>4 DEF Record
    <3> QED BY <2>2, <3>2, <3>3, <3>4
  <2>3. CASE k \in 4 .. (3 + n)
    <3>1. all[k] = b[k - 3] /\ k - 3 \in 1 .. n
      <4>1. PICK j \in 1 .. n : k = 3 + j
        <5>1. k - 3 \in 1 .. n /\ k = 3 + (k - 3)
            BY <1>2, <2>3
        <5> QED BY <5>1
      <4>2. all[k] = (a \o b)[k]
          BY <1>2, <1>9, <2>3
      <4>3. (a \o b)[3 + j] = b[j] /\ k - 3 = j
          BY <1>2, <1>8, <4>1
      <4> QED BY <4>1, <4>2, <4>3
    <3>2. all[k] = Record("STDIN", r.id, C[k - 3], 0, r, k - 3) /\ C[k - 3] > 0
        BY <1>2, <3>1
    <3> QED BY <1>2, <2>1, <2>3, <3>2 DEF Record
  <2>4. CASE k = 4 + n
    <3>1. all[k] = z
        BY <1>2, <1>9, <2>4
    <3> QED BY <1>2, <2>1, <2>4, <3>1 DEF Record
  <2> QED BY <1>2, <2>2, <2>3, <2>4
<1> HIDE DEF all
<1> QED BY <1>2, <1>7, <1>9, <1>10

(* The units of a record: header, content and padding in order.             *)
LEMMA UnitsAre ==
    ASSUME NEW rec \in Records
    PROVE  /\ UnitsOf(rec) \in Seq(Units) /\ Len(UnitsOf(rec)) = HeaderSize + Size(rec.hdr)
           /\ \A j \in 1 .. (HeaderSize + Size(rec.hdr)) :
                UnitsOf(rec)[j] = [rec |-> rec, at |-> j]
           /\ rec.hdr \in Headers /\ rec.hdr.len \in Nat /\ rec.hdr.pad \in Nat
           /\ Size(rec.hdr) \in Nat /\ Size(rec.hdr) = rec.hdr.len + rec.hdr.pad
           /\ Size(rec.hdr) <= MaxPayload /\ HeaderSize \in Nat \ {0}
<1>1. /\ rec.hdr \in Headers /\ HeaderSize \in Nat \ {0} /\ MaxPayload \in Nat
      /\ Size(rec.hdr) <= MaxPayload
    BY FastCGIAssumption DEF Records
<1>2. rec.hdr.len \in Nat /\ rec.hdr.pad \in Nat
    BY <1>1 DEF Headers
<1>3. Size(rec.hdr) \in Nat /\ Size(rec.hdr) = rec.hdr.len + rec.hdr.pad
    BY <1>2 DEF Size
<1> DEFINE n == HeaderSize + Size(rec.hdr)
<1>4. n \in Nat
    BY <1>1, <1>3
<1>5. UnitsOf(rec) = [j \in 1 .. n |-> [rec |-> rec, at |-> j]]
    BY DEF UnitsOf
<1> HIDE DEF n
<1>6. \A j \in 1 .. n : [rec |-> rec, at |-> j] \in Units
    BY <1>4 DEF Units
<1>7. UnitsOf(rec) \in [1 .. n -> Units]
    BY <1>5, <1>6
<1>8. UnitsOf(rec) \in Seq(Units) /\ Len(UnitsOf(rec)) = n
    BY <1>4, <1>7
<1> QED BY <1>1, <1>2, <1>3, <1>5, <1>8 DEF n

(* What a record adds to the body.                                          *)
LEMMA BodyInIs ==
    ASSUME NEW rec \in Records
    PROVE  /\ BodyIn(rec) \in Seq(Units)
           /\ rec.hdr.type # "STDIN" => BodyIn(rec) = <<>>
           /\ rec.hdr.type = "STDIN" =>
                /\ Len(BodyIn(rec)) = rec.hdr.len
                /\ \A j \in 1 .. rec.hdr.len :
                     BodyIn(rec)[j] = [rec |-> rec, at |-> HeaderSize + j]
<1>1. CASE rec.hdr.type # "STDIN"
    BY <1>1 DEF BodyIn
<1>2. CASE rec.hdr.type = "STDIN"
  <2> DEFINE h == HeaderSize
             l == rec.hdr.len
             n == HeaderSize + Size(rec.hdr)
             u == UnitsOf(rec)
  <2>1. /\ h \in Nat /\ l \in Nat /\ n \in Nat /\ h + l <= n
        /\ u \in Seq(Units) /\ Len(u) = n
        /\ \A j \in 1 .. n : u[j] = [rec |-> rec, at |-> j]
      BY UnitsAre
  <2>2. BodyIn(rec) = SubSeq(u, h + 1, h + l)
      BY <1>2 DEF BodyIn
  <2> HIDE DEF h, l, n, u
  <2>3. \A j \in h + 1 .. h + l : u[j] \in Units /\ j \in 1 .. n
      BY <2>1, ElementOfSeq
  <2>4. /\ SubSeq(u, h + 1, h + l) \in Seq(Units)
        /\ Len(SubSeq(u, h + 1, h + l)) = l
        /\ \A j \in 1 .. l : SubSeq(u, h + 1, h + l)[j] = u[h + j]
      BY <2>1, <2>3
  <2>5. \A j \in 1 .. l : h + j \in 1 .. n
      BY <2>1
  <2>6. \A j \in 1 .. l : SubSeq(u, h + 1, h + l)[j] = [rec |-> rec, at |-> h + j]
      BY <2>1, <2>4, <2>5
  <2> QED BY <1>2, <2>2, <2>4, <2>6 DEF h, l
<1> QED BY <1>1, <1>2

(* The bytes of a request and its body, record after record.                *)
Count(r)    == Len(RecordsOf(r))
UnitSeqs(r) == [k \in DOMAIN RecordsOf(r) |-> UnitsOf(RecordsOf(r)[k])]
BodySeqs(r) == [k \in DOMAIN RecordsOf(r) |-> BodyIn(RecordsOf(r)[k])]
SentBy(r)   == CHOOSE F : IsCourse(F, UnitSeqs(r), Units) /\ F[Count(r)] = BytesOf(r)
TakenBy(r)  == CHOOSE F : IsCourse(F, BodySeqs(r), Units) /\ F[Count(r)] = BodyOf(r)
StartOf(r, k) == Len(SentBy(r)[k - 1])

(* Where the records lie in the bytes.                                      *)
LEMMA Layout ==
    ASSUME NEW r \in Requests
    PROVE  /\ BytesOf(r) \in Seq(Units) /\ Len(BytesOf(r)) \in Nat
           /\ StartOf(r, 1) = 0 /\ StartOf(r, Count(r) + 1) = Len(BytesOf(r))
           /\ \A k \in 1 .. Count(r) :
                LET rec == RecordsOf(r)[k] IN
                /\ StartOf(r, k) \in Nat
                /\ StartOf(r, k + 1) = StartOf(r, k) + HeaderSize + Size(rec.hdr)
                /\ StartOf(r, k + 1) <= Len(BytesOf(r))
                /\ \A j \in 1 .. (HeaderSize + Size(rec.hdr)) :
                     BytesOf(r)[StartOf(r, k) + j] = [rec |-> rec, at |-> j]
<1> DEFINE n == Count(r)
           u == UnitSeqs(r)
           F == SentBy(r)
           B == BytesOf(r)
<1>1. /\ RecordsOf(r) \in Seq(Records) /\ n \in Nat /\ n > 3
      /\ DOMAIN RecordsOf(r) = 1 .. n
      /\ \A k \in 1 .. n : RecordsOf(r)[k] \in Records
    BY RecordsAre, LenProperties DEF Count
<1>2. u = [k \in 1 .. n |-> UnitsOf(RecordsOf(r)[k])]
    BY <1>1 DEF UnitSeqs
<1>3. \A k \in 1 .. n : UnitsOf(RecordsOf(r)[k]) \in Seq(Units)
    BY <1>1, UnitsAre
<1>4. Sequences(u, Units) /\ Len(u) = n
  <2> HIDE DEF u, n
  <2>1. u \in [1 .. n -> Seq(Units)]
      BY <1>2, <1>3
  <2>2. u \in Seq(Seq(Units)) /\ Len(u) = n
      BY <1>1, <2>1
  <2>3. u # <<>>
      BY <1>1, <2>2
  <2> QED BY <2>2, <2>3 DEF Sequences
<1>5. B = FlattenSeq(u)
    BY DEF BytesOf, UnitSeqs
<1>6. IsCourse(F, u, Units) /\ F[n] = B
  <2>1. \E G : IsCourse(G, u, Units) /\ G[n] = B
    <3> HIDE DEF u, n, B
    <3> QED BY <1>4, <1>5, FlattenCourse
  <2> QED BY <2>1 DEF SentBy
<1>7. \A k \in 0 .. n : F[k] \in Seq(Units) /\ Len(F[k]) \in Nat
  <2> HIDE DEF F, u, n
  <2>1. \A k \in 0 .. n : F[k] \in Seq(Units)
      BY <1>4, <1>6 DEF IsCourse
  <2> QED BY <2>1, LenProperties
<1>8. B \in Seq(Units) /\ Len(B) \in Nat /\ Len(F[n]) = Len(B)
  <2>1. n \in 0 .. n
      BY <1>1
  <2> QED BY <1>6, <1>7, <2>1
<1>9. StartOf(r, 1) = 0
  <2>1. F[0] = <<>> /\ 1 - 1 = 0
      BY <1>6 DEF IsCourse
  <2> QED BY <2>1 DEF StartOf
<1>10. StartOf(r, n + 1) = Len(B)
  <2>1. n + 1 - 1 = n
      BY <1>1
  <2>2. StartOf(r, n + 1) = Len(F[n + 1 - 1])
      BY <1>1 DEF StartOf
  <2> HIDE DEF n, F, B
  <2> QED BY <1>8, <2>1, <2>2
<1>11. ASSUME NEW k \in 1 .. n
       PROVE  LET rec == RecordsOf(r)[k] IN
                /\ StartOf(r, k) \in Nat
                /\ StartOf(r, k + 1) = StartOf(r, k) + HeaderSize + Size(rec.hdr)
                /\ StartOf(r, k + 1) <= Len(BytesOf(r))
                /\ \A j \in 1 .. (HeaderSize + Size(rec.hdr)) :
                     BytesOf(r)[StartOf(r, k) + j] = [rec |-> rec, at |-> j]
  <2> DEFINE rec == RecordsOf(r)[k]
             l == HeaderSize + Size(rec.hdr)
  <2>1. rec \in Records
      BY <1>1
  <2>2. /\ u[k] = UnitsOf(rec) /\ Len(u[k]) = l /\ l \in Nat
        /\ \A j \in 1 .. l : u[k][j] = [rec |-> rec, at |-> j]
      BY <1>2, <2>1, UnitsAre
  <2>3. k + 1 - 1 = k /\ k - 1 \in 0 .. n /\ n \in k .. n /\ k \in 1 .. Len(u)
      BY <1>1, <1>4
  <2>4. /\ Len(F[k]) = Len(F[k - 1]) + Len(u[k])
        /\ Len(F[k]) <= Len(F[n])
        /\ \A j \in 1 .. Len(u[k]) : F[n][Len(F[k - 1]) + j] = u[k][j]
    <3> HIDE DEF F, u, n, l, rec
    <3>1. n \in k .. Len(u) /\ k \in 1 .. Len(u)
        BY <1>4, <2>3
    <3>2. Placed(F, u, k)
        BY <1>6, <3>1, FlattenPlaces
    <3> QED BY <3>1, <3>2 DEF Placed
  <2>5. StartOf(r, k) = Len(F[k - 1]) /\ StartOf(r, k + 1) = Len(F[k])
      BY <2>3 DEF StartOf
  <2>6. StartOf(r, k) \in Nat
      BY <1>7, <2>3, <2>5
  <2>7. StartOf(r, k + 1) = StartOf(r, k) + l
      BY <2>2, <2>4, <2>5
  <2>8. \A j \in 1 .. l : B[StartOf(r, k) + j] = [rec |-> rec, at |-> j]
    <3> HIDE DEF l, u, F, B, n
    <3> QED BY <1>6, <2>2, <2>4, <2>5
  <2>9. HeaderSize \in Nat /\ Size(rec.hdr) \in Nat
      BY <2>1, UnitsAre
  <2>10. StartOf(r, k + 1) = StartOf(r, k) + HeaderSize + Size(rec.hdr)
      BY <2>6, <2>7, <2>9
  <2>11. StartOf(r, k + 1) <= Len(B)
      BY <1>6, <2>4, <2>5
  <2> QED BY <2>6, <2>8, <2>10, <2>11
<1> HIDE DEF B
<1> QED BY <1>8, <1>9, <1>10, <1>11 DEF B

(* The body after each record.                                              *)
LEMMA BodyLayout ==
    ASSUME NEW r \in Requests
    PROVE  /\ BodyOf(r) \in Seq(Units) /\ TakenBy(r)[0] = <<>>
           /\ TakenBy(r)[Count(r)] = BodyOf(r)
           /\ \A k \in 1 .. Count(r) :
                /\ TakenBy(r)[k - 1] \in Seq(Units)
                /\ TakenBy(r)[k] = TakenBy(r)[k - 1] \o BodyIn(RecordsOf(r)[k])
                /\ Len(TakenBy(r)[k]) = Len(TakenBy(r)[k - 1]) + Len(BodyIn(RecordsOf(r)[k]))
                /\ Len(TakenBy(r)[k]) <= Len(BodyOf(r))
<1> DEFINE n == Count(r)
           u == BodySeqs(r)
           F == TakenBy(r)
           B == BodyOf(r)
<1>1. /\ RecordsOf(r) \in Seq(Records) /\ n \in Nat /\ n > 3
      /\ DOMAIN RecordsOf(r) = 1 .. n
      /\ \A k \in 1 .. n : RecordsOf(r)[k] \in Records
    BY RecordsAre, LenProperties DEF Count
<1>2. u = [k \in 1 .. n |-> BodyIn(RecordsOf(r)[k])]
    BY <1>1 DEF BodySeqs
<1>3. \A k \in 1 .. n : BodyIn(RecordsOf(r)[k]) \in Seq(Units)
    BY <1>1, BodyInIs
<1>4. Sequences(u, Units) /\ Len(u) = n
  <2> HIDE DEF u, n
  <2>1. u \in [1 .. n -> Seq(Units)]
      BY <1>2, <1>3
  <2>2. u \in Seq(Seq(Units)) /\ Len(u) = n
      BY <1>1, <2>1
  <2>3. u # <<>>
      BY <1>1, <2>2
  <2> QED BY <2>2, <2>3 DEF Sequences
<1>5. B = FlattenSeq(u)
    BY DEF BodyOf, BodySeqs
<1>6. IsCourse(F, u, Units) /\ F[n] = B
  <2>1. \E G : IsCourse(G, u, Units) /\ G[n] = B
    <3> HIDE DEF u, n, B
    <3> QED BY <1>4, <1>5, FlattenCourse
  <2> QED BY <2>1 DEF TakenBy
<1>7. \A k \in 0 .. n : F[k] \in Seq(Units)
  <2> HIDE DEF F, u, n
  <2> QED BY <1>4, <1>6 DEF IsCourse
<1>8. B \in Seq(Units)
  <2>1. n \in 0 .. n
      BY <1>1
  <2> QED BY <1>6, <1>7, <2>1
<1>9. ASSUME NEW k \in 1 .. n
      PROVE  /\ F[k - 1] \in Seq(Units) /\ F[k] = F[k - 1] \o u[k]
             /\ u[k] = BodyIn(RecordsOf(r)[k])
             /\ Len(F[k]) = Len(F[k - 1]) + Len(u[k]) /\ Len(F[k]) <= Len(B)
  <2> HIDE DEF F, u, n
  <2>1. k \in 1 .. Len(u) /\ n \in k .. Len(u) /\ k - 1 \in 0 .. n
      BY <1>1, <1>4
  <2>2. Placed(F, u, k)
      BY <1>6, <2>1, FlattenPlaces
  <2>3. Len(F[k]) <= Len(F[n])
      BY <2>1, <2>2 DEF Placed
  <2> QED BY <1>2, <1>6, <1>7, <2>1, <2>2, <2>3 DEF Placed, IsCourse
<1>10. F[0] = <<>>
    BY <1>6 DEF IsCourse
<1> HIDE DEF F, B, u
<1> QED BY <1>6, <1>8, <1>9, <1>10 DEF F, B

(* What the assumption says of sizes.                                       *)
LEMMA Sizes ==
    /\ HeaderSize \in Nat \ {0} /\ MaxPayload \in Nat /\ HeaderSize <= MaxPayload
    /\ MaxStdin \in Nat \ {0} /\ RxSize = MaxPayload /\ MaxConns \in Nat
    /\ NoHeader \notin Headers /\ NoRequest \notin Requests
    /\ \A h \in Headers : Size(h) \in Nat /\ h.len \in Nat /\ h.len <= Size(h)
<1>1. NoHeader \notin Headers
    BY DEF NoHeader, Headers
<1>2. ASSUME NEW h \in Headers PROVE Size(h) \in Nat /\ h.len \in Nat /\ h.len <= Size(h)
  <2>1. h.len \in Nat /\ h.pad \in Nat
      BY FastCGIAssumption DEF Headers
  <2> QED BY <2>1 DEF Size
<1> QED BY <1>1, <1>2, FastCGIAssumption DEF RxSize

(* What is kept of the body after each record.                              *)
LEMMA KeptLayout ==
    ASSUME NEW r \in Requests
    PROVE  /\ KeptBy(r)[0] = <<>>
           /\ \A k \in 0 .. Count(r) : KeptBy(r)[k] \in Seq(Units)
           /\ \A k \in 1 .. Count(r) :
                LET K == KeptBy(r)  b == BodyIn(RecordsOf(r)[k]) IN
                /\ K[k] = IF Len(K[k - 1]) + Len(b) < MaxStdin THEN K[k - 1] \o b ELSE K[k - 1]
                /\ b = <<>> => K[k] = K[k - 1]
<1> DEFINE n == Count(r)
           recs == RecordsOf(r)
           Grown(b, c) == IF Len(b) + Len(c) < MaxStdin THEN b \o c ELSE b
           Step(f) == [k \in 0 .. n |-> IF k = 0 THEN <<>> ELSE Grown(f[k - 1], BodyIn(recs[k]))]
           G == [z \in Seq(Units) \X (1 .. n) |-> Grown(z[1], BodyIn(recs[z[2]]))]
<1>1. n \in Nat /\ \A k \in 1 .. n : BodyIn(recs[k]) \in Seq(Units)
  <2>1. n \in Nat /\ recs \in Seq(Records) /\ Len(recs) = n
      BY RecordsAre, LenProperties DEF Count
  <2> HIDE DEF recs, n
  <2>2. \A k \in 1 .. n : recs[k] \in Records
      BY <2>1, ElementOfSeq
  <2> QED BY <2>1, <2>2, BodyInIs
<1>2. KeptBy(r) = CHOOSE f : f = Step(f)
    BY DEF KeptBy, Count
<1>3. \A b, c \in Seq(Units) : Grown(b, c) \in Seq(Units)
    BY ConcatProperties
<1> HIDE DEF n, recs, Grown
<1>4. PICK F \in [0 .. n -> Seq(Units)] :
             F[0] = <<>> /\ \A k \in 1 .. n : F[k] = Grown(F[k - 1], BodyIn(recs[k]))
  <2> DEFINE M == Seq(Units)
             e == <<>>
  <2>1. G \in [M \X (1 .. n) -> M] /\ e \in M
    <3>1. ASSUME NEW z \in M \X (1 .. n) PROVE Grown(z[1], BodyIn(recs[z[2]])) \in M
      <4>1. z[1] \in Seq(Units) /\ BodyIn(recs[z[2]]) \in Seq(Units)
          BY <1>1
      <4> QED BY <1>3, <4>1
    <3>2. e \in M
        BY EmptySeq
    <3>3. G = [z \in M \X (1 .. n) |-> Grown(z[1], BodyIn(recs[z[2]]))]
        OBVIOUS
    <3> HIDE DEF G, M
    <3> QED BY <3>1, <3>2, <3>3
  <2>2. IsStep(G, M, n)
      BY <2>1 DEF IsStep
  <2> HIDE DEF G, M, e
  <2>3. PICK F : IsRun(F, G, M, e, n)
      BY <1>1, <2>1, <2>2, CourseExists
  <2>4. F \in [0 .. n -> M] /\ F[0] = e /\ \A k \in 1 .. n : F[k] = G[<<F[k - 1], k>>]
      BY <2>3 DEF IsRun
  <2>5. ASSUME NEW k \in 1 .. n PROVE F[k] = Grown(F[k - 1], BodyIn(recs[k]))
    <3>1. F[k - 1] \in M
        BY <1>1, <2>4
    <3>2. G[<<F[k - 1], k>>] = Grown(F[k - 1], BodyIn(recs[k]))
        BY <3>1 DEF G, M
    <3> QED BY <2>4, <3>2
  <2> QED BY <2>4, <2>5 DEF M, e
<1>5. F = Step(F)
  <2>1. ASSUME NEW k \in 0 .. n PROVE F[k] = Step(F)[k]
    <3>1. CASE k = 0
        BY <1>4, <3>1
    <3>2. CASE k # 0
      <4>1. k \in 1 .. n
          BY <1>1, <3>2
      <4> QED BY <1>4, <3>2, <4>1
    <3> QED BY <3>1, <3>2
  <2> QED BY <1>4, <2>1
<1>6. KeptBy(r) = Step(KeptBy(r))
  <2> HIDE DEF Step
  <2> QED BY <1>2, <1>5
<1> DEFINE K == KeptBy(r)
<1>7. K[0] = <<>> /\ \A k \in 1 .. n : K[k] = Grown(K[k - 1], BodyIn(recs[k]))
  <2> HIDE DEF K
  <2>1. K = Step(K)
      BY <1>6 DEF K
  <2>2. 0 \in 0 .. n /\ \A k \in 1 .. n : k \in 0 .. n /\ k # 0
      BY <1>1
  <2>3. \A k \in 0 .. n : Step(K)[k] = IF k = 0 THEN <<>> ELSE Grown(K[k - 1], BodyIn(recs[k]))
      OBVIOUS
  <2> HIDE DEF Step
  <2>4. \A k \in 0 .. n : K[k] = IF k = 0 THEN <<>> ELSE Grown(K[k - 1], BodyIn(recs[k]))
      BY <2>1, <2>3
  <2> QED BY <2>2, <2>4
<1> HIDE DEF K
<1>8. \A k \in 0 .. n : K[k] \in Seq(Units)
  <2> DEFINE Bad == {k \in 0 .. n : K[k] \notin Seq(Units)}
  <2> SUFFICES ASSUME Bad # {} PROVE FALSE
      OBVIOUS
  <2>1. PICK k \in Bad : \A j \in Bad : k <= j
    <3>1. Bad \subseteq Nat
        BY <1>1
    <3> HIDE DEF Bad
    <3> QED BY <3>1, LeastNatural
  <2>2. k # 0
      BY <1>7, <2>1, EmptySeq
  <2>3. k \in 1 .. n /\ k - 1 \in 0 .. n /\ ~(k <= k - 1)
      BY <1>1, <2>1, <2>2
  <2>4. K[k - 1] \in Seq(Units)
      BY <2>1, <2>3
  <2> QED BY <1>1, <1>3, <1>7, <2>1, <2>3, <2>4
<1>9. ASSUME NEW k \in 1 .. n, BodyIn(recs[k]) = <<>> PROVE K[k] = K[k - 1]
  <2>1. K[k - 1] \in Seq(Units)
      BY <1>1, <1>8
  <2>2. K[k - 1] \o <<>> = K[k - 1]
      BY <2>1, ConcatEmptySeq
  <2> QED BY <1>7, <1>9, <2>2 DEF Grown
<1> QED BY <1>7, <1>8, <1>9 DEF K, n, recs, Grown

(* A body that fits into its array is kept whole: what cg_fastcgi.c:216     *)
(* promises, up to the size of the array.                                   *)
THEOREM FittingIsWhole ==
    ASSUME NEW r \in Requests, Len(BodyOf(r)) < MaxStdin
    PROVE  KeptBy(r)[Len(RecordsOf(r))] = BodyOf(r)
<1> DEFINE n == Count(r)
           K == KeptBy(r)
           T == TakenBy(r)
           B == BodyOf(r)
           b(k) == BodyIn(RecordsOf(r)[k])
           Bad == {k \in 0 .. n : K[k] # T[k]}
<1>1. n \in Nat /\ T[0] = <<>> /\ T[n] = B /\ K[0] = <<>>
  <2>1. n \in Nat
      BY RecordsAre DEF Count
  <2>2. T[0] = <<>> /\ T[n] = B
      BY BodyLayout
  <2>3. K[0] = <<>>
      BY KeptLayout
  <2> QED BY <2>1, <2>2, <2>3
<1>2. ASSUME NEW k \in 1 .. n, K[k - 1] = T[k - 1] PROVE K[k] = T[k]
  <2>1. /\ T[k - 1] \in Seq(Units) /\ T[k] = T[k - 1] \o b(k)
        /\ Len(T[k]) = Len(T[k - 1]) + Len(b(k)) /\ Len(T[k]) <= Len(B)
        /\ B \in Seq(Units)
      BY BodyLayout
  <2>2. K[k] = IF Len(K[k - 1]) + Len(b(k)) < MaxStdin THEN K[k - 1] \o b(k) ELSE K[k - 1]
      BY KeptLayout
  <2> HIDE DEF K, T, B, b
  <2>3. Len(B) \in Nat /\ Len(B) < MaxStdin
      BY <2>1, LenProperties DEF B
  <2>4. b(k) \in Seq(Units)
    <3>1. RecordsOf(r)[k] \in Records
      <4>1. RecordsOf(r) \in Seq(Records)
          BY RecordsAre
      <4> QED BY <4>1, ElementOfSeq DEF Count
    <3> QED BY <3>1, BodyInIs DEF b
  <2>5. Len(T[k]) \in Nat
      BY <2>1, <2>4, ConcatProperties, LenProperties
  <2>6. Len(K[k - 1]) + Len(b(k)) < MaxStdin
      BY <1>2, <2>1, <2>3, <2>5, Sizes
  <2> QED BY <1>2, <2>1, <2>2, <2>6
<1> HIDE DEF n, K, T, B
<1>3. Bad = {}
  <2> SUFFICES ASSUME Bad # {} PROVE FALSE
      OBVIOUS
  <2>1. PICK k \in Bad : \A j \in Bad : k <= j
    <3>1. Bad \subseteq Nat
        BY <1>1
    <3> HIDE DEF Bad
    <3> QED BY <3>1, LeastNatural
  <2>2. k # 0
      BY <1>1, <2>1
  <2>3. k \in 1 .. n /\ k - 1 \in 0 .. n /\ ~(k <= k - 1)
      BY <1>1, <2>1, <2>2
  <2>4. K[k - 1] = T[k - 1]
      BY <2>1, <2>3
  <2> QED BY <1>2, <2>1, <2>3, <2>4
<1>4. n \in 0 .. n /\ n \notin Bad
    BY <1>1, <1>3
<1>5. K[n] = T[n]
    BY <1>4
<1> QED BY <1>1, <1>5 DEF K, n, B, Count

-----------------------------------------------------------------------------
(* The invariant of the buffer.  What waits for the next read is less than  *)
(* a header, or less than the payload that is waited for: this is why there *)
(* is always room.                                                          *)
Waiting ==
    /\ state = "read" => /\ pos = 0
                         /\ saved = NoHeader => Len(rx) < HeaderSize
                         /\ saved # NoHeader => Len(rx) < Size(saved)
    /\ state = "free" /\ saved # NoHeader => Size(saved) > 0
    /\ state = "record" => saved # NoHeader
    /\ state = "parse" /\ saved # NoHeader => pos < Len(rx)
    /\ state \in {"reply", "write"} => saved = NoHeader

Typed ==
    /\ conns \in 0 .. MaxConns
    /\ state \in {"free", "read", "parse", "record", "reply", "write"}
    /\ asked \in Requests \cup {NoRequest}
    /\ hungUp \in BOOLEAN /\ cut \in BOOLEAN
    /\ stream \in Seq(Units)
    /\ rx \in Seq(Units) /\ Len(rx) <= RxSize /\ pos \in 0 .. Len(rx)
    /\ saved \in Headers \cup {NoHeader}
    /\ saved # NoHeader => Size(saved) <= MaxPayload
    /\ req \in [id : Nat, keep : BOOLEAN, uri : Uris \cup {Absent},
                session : Sessions \cup {Absent}, body : Seq(Units)]
    /\ Len(req.body) < MaxStdin

BufferInv == Typed /\ Waiting

-----------------------------------------------------------------------------
(* The buffer, step by step.                                                *)
(* A slot that was never used holds nothing.                                *)
LEMMA BufferInit == Init => BufferInv
<1> SUFFICES ASSUME Init PROVE BufferInv
    OBVIOUS
<1>1. req \in [id : Nat, keep : BOOLEAN, uri : Uris \cup {Absent},
               session : Sessions \cup {Absent}, body : Seq(Units)] /\ Len(req.body) = 0
    BY DEF Init
<1>2. Typed
  <2>1. rx \in Seq(Units) /\ Len(rx) = 0 /\ stream \in Seq(Units)
      BY DEF Init
  <2>2. pos \in 0 .. Len(rx) /\ Len(rx) <= RxSize /\ conns \in 0 .. MaxConns
      BY <2>1, Sizes DEF Init
  <2>3. Len(req.body) < MaxStdin
      BY <1>1, Sizes
  <2> QED BY <1>1, <2>1, <2>2, <2>3 DEF Init, Typed
<1>3. Waiting
    BY Sizes DEF Init, Waiting
<1> QED BY <1>2, <1>3 DEF BufferInv

(* The web server and the connection.                                       *)
LEMMA ServerSteps ==
    BufferInv /\ (Connect \/ (\E r \in Requests : Ask(r)) \/ HangUp) => BufferInv'
<1> SUFFICES ASSUME BufferInv PROVE Connect \/ (\E r \in Requests : Ask(r)) \/ HangUp => BufferInv'
    OBVIOUS
<1> USE DEF serverVars
<1>1. Typed /\ Waiting
    BY DEF BufferInv
<1>2. ASSUME Connect PROVE BufferInv'
  <2>1. Typed'
    <3>1. rx' \in Seq(Units) /\ Len(rx') = 0 /\ stream' \in Seq(Units)
        BY <1>2 DEF Connect
    <3>2. pos' \in 0 .. Len(rx') /\ Len(rx') <= RxSize /\ conns' \in 0 .. MaxConns
        BY <1>1, <1>2, <3>1, Sizes DEF Connect, Typed
    <3> QED BY <1>1, <1>2, <3>1, <3>2 DEF Connect, Typed
  <2>2. Waiting'
    <3>1. Size(saved) \in Nat \/ saved = NoHeader
        BY <1>1, Sizes DEF Typed
    <3> QED BY <1>1, <1>2, <3>1, Sizes DEF Connect, Waiting, Typed
  <2> QED BY <2>1, <2>2 DEF BufferInv
<1>3. ASSUME NEW r \in Requests, Ask(r) PROVE BufferInv'
  <2>1. BytesOf(r) \in Seq(Units)
      BY Layout
  <2>2. Typed'
      BY <1>1, <1>3, <2>1 DEF Ask, Typed
  <2>3. Waiting'
      BY <1>1, <1>3 DEF Ask, Waiting
  <2> QED BY <2>2, <2>3 DEF BufferInv
<1>4. ASSUME HangUp PROVE BufferInv'
  <2>1. PICK n \in 0 .. Len(stream) : stream' = SubSeq(stream, 1, n)
      BY <1>4 DEF HangUp
  <2>2. stream' \in Seq(Units)
    <3>1. stream \in Seq(Units)
        BY <1>1 DEF Typed
    <3> QED BY <2>1, <3>1
  <2>3. Typed'
      BY <1>1, <1>4, <2>2 DEF HangUp, Typed
  <2>4. Waiting'
      BY <1>1, <1>4 DEF HangUp, Waiting
  <2> QED BY <2>3, <2>4 DEF BufferInv
<1> QED BY <1>2, <1>3, <1>4

(* Reading and answering.                                                   *)
LEMMA ReadSteps ==
    BufferInv /\ (ReadData \/ ReadEnds \/ Reply \/ WriteEnds \/ WriteFails) => BufferInv'
<1> SUFFICES ASSUME BufferInv
             PROVE  ReadData \/ ReadEnds \/ Reply \/ WriteEnds \/ WriteFails => BufferInv'
    OBVIOUS
<1> USE DEF serverVars
<1>1. Typed /\ Waiting
    BY DEF BufferInv
<1>2. ASSUME ReadData PROVE BufferInv'
  <2>1. PICK n \in 1 .. Len(stream) :
               /\ n <= Room
               /\ rx' = rx \o SubSeq(stream, 1, n)
               /\ stream' = SubSeq(stream, n + 1, Len(stream))
      BY <1>2 DEF ReadData
  <2>2. rx \in Seq(Units) /\ stream \in Seq(Units) /\ Len(rx) \in Nat /\ Len(stream) \in Nat
      BY <1>1 DEF Typed
  <2>3. SubSeq(stream, 1, n) \in Seq(Units) /\ Len(SubSeq(stream, 1, n)) = n
      BY <2>2
  <2>4. rx' \in Seq(Units) /\ Len(rx') = Len(rx) + n
      BY <2>1, <2>2, <2>3
  <2>5. stream' \in Seq(Units)
      BY <2>1, <2>2
  <2>6. Len(rx') <= RxSize /\ 0 < Len(rx')
      BY <2>1, <2>2, <2>4, Sizes DEF Room
  <2>7. Typed'
    <3>1. pos' \in 0 .. Len(rx')
        BY <1>2, <2>2, <2>4 DEF ReadData
    <3> QED BY <1>1, <1>2, <2>4, <2>5, <2>6, <3>1, Sizes DEF ReadData, Typed
  <2>8. Waiting'
      BY <1>2, <2>6 DEF ReadData, Waiting
  <2> QED BY <2>7, <2>8 DEF BufferInv
<1>3. ASSUME ReadEnds PROVE BufferInv'
  <2>1. Typed'
      BY <1>1, <1>3, Sizes DEF ReadEnds, Typed
  <2>2. Waiting'
    <3>1. saved # NoHeader => Size(saved) \in Nat /\ Len(rx) \in Nat
        BY <1>1, Sizes DEF Typed
    <3> QED BY <1>1, <1>3, <3>1, Sizes DEF ReadEnds, Waiting
  <2> QED BY <2>1, <2>2 DEF BufferInv
<1>4. ASSUME Reply PROVE BufferInv'
    BY <1>1, <1>4, Sizes DEF Reply, BufferInv, Typed, Waiting
<1>5. ASSUME WriteEnds PROVE BufferInv'
  <2>1. saved = NoHeader
      BY <1>1, <1>5 DEF WriteEnds, Waiting
  <2>2. Typed'
    <3>1. CASE req.keep
        BY <1>1, <1>5, <3>1, Sizes DEF WriteEnds, Typed
    <3>2. CASE ~req.keep
        BY <1>1, <1>5, <3>2, Sizes DEF WriteEnds, Typed
    <3> QED BY <3>1, <3>2
  <2>3. Waiting'
      BY <1>1, <1>5, <2>1, Sizes DEF WriteEnds, Waiting
  <2> QED BY <2>2, <2>3 DEF BufferInv
<1>6. ASSUME WriteFails PROVE BufferInv'
    BY <1>1, <1>6, Sizes DEF WriteFails, BufferInv, Typed, Waiting
<1> QED BY <1>2, <1>3, <1>4, <1>5, <1>6

(* The parser waits.                                                        *)
LEMMA SlideTyped ==
    ASSUME Typed, NEW p \in 0 .. Len(rx), SlideFrom(p)
    PROVE  rx' \in Seq(Units) /\ Len(rx') = Len(rx) - p /\ Len(rx') <= RxSize /\ pos' = 0
<1>1. rx \in Seq(Units) /\ Len(rx) \in Nat /\ Len(rx) <= RxSize
    BY DEF Typed
<1>2. RestAt(p) \in Seq(Units) /\ Len(RestAt(p)) = Len(rx) - p
    BY <1>1, RestIs
<1> QED BY <1>1, <1>2, Sizes DEF SlideFrom

(* What is kept for the next read is less than what is waited for.          *)
LEMMA WaitStep ==
    ASSUME BufferInv, WaitForMore,
           saved = NoHeader => Len(rx) - pos < HeaderSize,
           saved # NoHeader => Len(rx) - pos < Size(saved)
    PROVE  BufferInv'
<1> USE DEF serverVars
<1>1. Typed /\ Waiting
    BY DEF BufferInv
<1>2. pos \in 0 .. Len(rx) /\ SlideFrom(pos)
    BY <1>1 DEF Typed, WaitForMore
<1>3. rx' \in Seq(Units) /\ Len(rx') = Len(rx) - pos /\ Len(rx') <= RxSize /\ pos' = 0
    BY <1>1, <1>2, SlideTyped
<1>4. Typed'
  <2>1. pos' \in 0 .. Len(rx')
      BY <1>3
  <2> QED BY <1>1, <1>3, <2>1 DEF WaitForMore, Typed
<1>5. Waiting'
    BY <1>3 DEF WaitForMore, Waiting
<1> QED BY <1>4, <1>5 DEF BufferInv

(* The parser waits only for want of a header or of a payload.              *)
LEMMA WaitSteps ==
    BufferInv /\ (ParseEnds \/ HeaderIncomplete \/ PayloadIncomplete) => BufferInv'
<1> SUFFICES ASSUME BufferInv, ParseEnds \/ HeaderIncomplete \/ PayloadIncomplete
             PROVE  BufferInv'
    OBVIOUS
<1>1. Typed /\ Waiting
    BY DEF BufferInv
<1>2. WaitForMore
    BY DEF ParseEnds, HeaderIncomplete, PayloadIncomplete
<1>3. saved = NoHeader => Len(rx) - pos < HeaderSize
  <2>1. Len(rx) \in Nat
      BY <1>1 DEF Typed
  <2> QED BY <1>1, <2>1, Sizes
          DEF ParseEnds, HeaderIncomplete, PayloadIncomplete, InRecord, Waiting
<1>4. saved # NoHeader => Len(rx) - pos < Size(saved)
  <2>1. pos \in 0 .. Len(rx) /\ Len(rx) \in Nat
      BY <1>1 DEF Typed
  <2> QED BY <1>1, <2>1 DEF ParseEnds, HeaderIncomplete, PayloadIncomplete, Waiting
<1> QED BY <1>2, <1>3, <1>4, WaitStep

(* It reads a header.                                                       *)
LEMMA HeaderStep == BufferInv /\ ParseHeader => BufferInv'
<1> SUFFICES ASSUME BufferInv, ParseHeader PROVE BufferInv'
    OBVIOUS
<1> USE DEF serverVars
<1>1. Typed /\ Waiting
    BY DEF BufferInv
<1>2. rx \in Seq(Units) /\ Len(rx) \in Nat /\ pos \in 0 .. Len(rx) /\ pos + 1 \in 1 .. Len(rx)
    BY <1>1 DEF Typed, ParseHeader
<1>3. rx[pos + 1] \in Units
    BY <1>2, ElementOfSeq
<1>4. saved' \in Headers /\ Size(saved') <= MaxPayload
  <2>1. saved' \in HeaderAt(rx[pos + 1])
      BY DEF ParseHeader
  <2>2. \A h \in Garbage : h \in Headers /\ Size(h) <= MaxPayload
      BY FastCGIAssumption
  <2>3. rx[pos + 1].rec.hdr \in Headers /\ Size(rx[pos + 1].rec.hdr) <= MaxPayload
      BY <1>3 DEF Units, Records
  <2> QED BY <2>1, <2>2, <2>3 DEF HeaderAt
<1>5. pos' \in 0 .. Len(rx)
    BY <1>2, Sizes DEF ParseHeader
<1>6. Typed'
    BY <1>1, <1>2, <1>4, <1>5 DEF Typed, ParseHeader
<1>7. Waiting'
    BY <1>4, Sizes DEF Waiting, ParseHeader
<1> QED BY <1>6, <1>7 DEF BufferInv

(* It takes a record whose payload is there.                                *)
LEMMA TakeIs ==
    ASSUME Typed, Waiting, NEW type, TakeRecord(type)
    PROVE  /\ saved \in Headers /\ saved.type = type /\ Size(saved) \in Nat
           /\ saved.len \in Nat /\ saved.len <= Size(saved)
           /\ rx \in Seq(Units) /\ Len(rx) \in Nat /\ pos \in Nat
           /\ pos + Size(saved) \in 0 .. Len(rx)
           /\ Content \in Seq(Units) /\ Len(Content) = saved.len
           /\ \A j \in 1 .. saved.len : Content[j] = rx[pos + j] /\ pos + j \in 1 .. Len(rx)
           /\ Genuine => Head(Content).rec.of \in Requests
           /\ saved' = NoHeader
<1>1. saved # NoHeader
    BY DEF TakeRecord, InRecord, Waiting
<1>2. /\ saved \in Headers /\ Size(saved) \in Nat /\ saved.len \in Nat /\ saved.len <= Size(saved)
      /\ rx \in Seq(Units) /\ Len(rx) \in Nat /\ pos \in 0 .. Len(rx)
    BY <1>1, Sizes DEF Typed
<1>3. pos \in Nat /\ pos + Size(saved) \in 0 .. Len(rx)
    BY <1>2 DEF TakeRecord
<1> DEFINE l == saved.len
<1>4. \A j \in (pos + 1) .. (pos + l) : j \in 1 .. Len(rx)
    BY <1>2, <1>3
<1>5. Content = SubSeq(rx, pos + 1, pos + l)
    BY DEF Content
<1>6. l \in Nat /\ \A j \in (pos + 1) .. (pos + l) : rx[j] \in Units
    BY <1>2, <1>4, ElementOfSeq
<1> HIDE DEF l
<1>7. /\ Content \in Seq(Units) /\ Len(Content) = l
      /\ \A j \in 1 .. l : Content[j] = rx[pos + j]
  <2> DEFINE c == SubSeq(rx, pos + 1, pos + l)
  <2>1. c \in Seq(Units) /\ Len(c) = l
      BY <1>3, <1>6
  <2>2. \A j \in 1 .. l : c[j] = rx[pos + j]
      BY <1>3, <1>6
  <2> HIDE DEF c
  <2>3. Content = c
      BY <1>5 DEF c
  <2> QED BY <2>1, <2>2, <2>3
<1>8. \A j \in 1 .. l : pos + j \in 1 .. Len(rx)
    BY <1>3, <1>4, <1>6
<1>9. Genuine => Head(Content).rec.of \in Requests
  <2>1. Content # <<>> => Head(Content) \in Units
      BY <1>7
  <2> QED BY <2>1 DEF Genuine, Units, Records
<1> QED BY <1>2, <1>3, <1>7, <1>8, <1>9 DEF TakeRecord, l

(* A request id is two bytes.                                               *)
LEMMA IdTyped ==
    ASSUME NEW b \in (0 .. 255) \X (0 .. 255)
    PROVE  Load16(b) \in Nat
<1>1. PICK x \in 0 .. 255, y \in 0 .. 255 : b[1] = x /\ b[2] = y
  <2>1. b[1] \in 0 .. 255 /\ b[2] \in 0 .. 255
      OBVIOUS
  <2> QED BY <2>1
<1>2. Load16(b) = x + 256 * y
    BY <1>1 DEF Load16
<1> QED BY <1>2

(* A record is passed over, and what the slot keeps of it has its type.     *)
LEMMA RecordSteps ==
    BufferInv /\ (ParseBegin \/ ParseParams \/ ParseStdin \/ ParseOther \/ ParseLast)
      => BufferInv'
<1> SUFFICES ASSUME BufferInv
             PROVE  ParseBegin \/ ParseParams \/ ParseStdin \/ ParseOther \/ ParseLast
                      => BufferInv'
    OBVIOUS
<1> USE DEF serverVars
<1>1. Typed /\ Waiting
    BY DEF BufferInv
<1> DEFINE Reqs == [id : Nat, keep : BOOLEAN, uri : Uris \cup {Absent},
                    session : Sessions \cup {Absent}, body : Seq(Units)]
<1>2. req \in Reqs /\ Len(req.body) < MaxStdin
    BY <1>1 DEF Typed
<1>3. ASSUME NEW type, TakeRecord(type), NextRecord, req' \in Reqs, Len(req'.body) < MaxStdin
      PROVE  BufferInv'
  <2>1. pos + Size(saved) \in 0 .. Len(rx) /\ saved' = NoHeader
      BY <1>1, <1>3, TakeIs
  <2>2. Typed'
      BY <1>1, <1>3, <2>1 DEF TakeRecord, NextRecord, Typed
  <2>3. Waiting'
      BY <1>3, <2>1 DEF NextRecord, Waiting
  <2> QED BY <2>2, <2>3 DEF BufferInv
<1>4. ASSUME ParseBegin PROVE BufferInv'
  <2>1. TakeRecord("BEGIN") /\ NextRecord
      BY <1>4 DEF ParseBegin
  <2>2. Load16(saved.id) \in Nat
    <3>1. saved \in Headers
        BY <1>1, <2>1, TakeIs
    <3>2. saved.id \in (0 .. 255) \X (0 .. 255)
        BY <3>1 DEF Headers
    <3> QED BY <3>2, IdTyped
  <2>3. req' \in Reqs /\ Len(req'.body) = 0
    <3> DEFINE n == Load16(saved.id)
    <3> DEFINE e == <<>>
    <3>1. PICK keep \in BOOLEAN :
                 req' = [req EXCEPT !.keep = keep, !.id = n, !.body = e, !.session = Absent]
        BY <1>4 DEF ParseBegin
    <3>2. n \in Nat /\ e \in Seq(Units) /\ Len(e) = 0
        BY <2>2
    <3> HIDE DEF n, e
    <3>3. /\ DOMAIN req' = DOMAIN req /\ req'.id = n /\ req'.keep = keep
          /\ req'.uri = req.uri /\ req'.session = Absent /\ req'.body = e
        BY <1>2, <3>1
    <3> QED BY <1>2, <3>1, <3>2, <3>3
  <2> QED BY <1>3, <2>1, <2>3, Sizes
<1>5. ASSUME ParseParams PROVE BufferInv'
  <2>1. TakeRecord("PARAMS") /\ NextRecord
      BY <1>5 DEF ParseParams
  <2>2. req' \in Reqs /\ req'.body = req.body
    <3>1. CASE Genuine
      <4> DEFINE r == Head(Content).rec.of
      <4>1. r \in Requests
          BY <1>1, <2>1, <3>1, TakeIs
      <4>2. r.uri \in Uris /\ r.session \in Sessions \cup {Absent}
          BY <4>1, FastCGIAssumption
      <4> HIDE DEF r
      <4>3. req' = [req EXCEPT !.uri = r.uri,
                       !.session = IF r.session = Absent THEN @ ELSE r.session]
          BY <1>5, <3>1 DEF ParseParams, r
      <4> QED BY <1>2, <4>2, <4>3
    <3>2. CASE ~Genuine
      <4>1. PICK u \in Uris \cup {req.uri}, x \in Sessions \cup {req.session} :
                   req' = [req EXCEPT !.uri = u, !.session = x]
          BY <1>5, <3>2 DEF ParseParams
      <4>2. u \in Uris \cup {Absent} /\ x \in Sessions \cup {Absent}
          BY <1>2
      <4> QED BY <1>2, <4>1, <4>2
    <3> QED BY <3>1, <3>2
  <2> QED BY <1>2, <1>3, <2>1, <2>2
<1>6. ASSUME ParseStdin PROVE BufferInv'
  <2>1. TakeRecord("STDIN") /\ NextRecord
      BY <1>6 DEF ParseStdin
  <2>2. Content \in Seq(Units) /\ Len(Content) = saved.len
      BY <1>1, <2>1, TakeIs
  <2>3. req' \in Reqs /\ Len(req'.body) < MaxStdin
    <3>1. CASE Len(req.body) + saved.len < MaxStdin
      <4>1. req' = [req EXCEPT !.body = @ \o Content]
          BY <1>6, <3>1 DEF ParseStdin
      <4>2. req.body \o Content \in Seq(Units)
            /\ Len(req.body \o Content) = Len(req.body) + saved.len
          BY <1>2, <2>2
      <4> QED BY <1>2, <3>1, <4>1, <4>2
    <3>2. CASE ~(Len(req.body) + saved.len < MaxStdin)
        BY <1>2, <1>6, <3>2 DEF ParseStdin
    <3> QED BY <3>1, <3>2
  <2> QED BY <1>3, <2>1, <2>3
<1>7. ASSUME ParseOther PROVE BufferInv'
    BY <1>2, <1>3, <1>7 DEF ParseOther
<1>8. ASSUME ParseLast PROVE BufferInv'
  <2>1. pos + Size(saved) \in 0 .. Len(rx) /\ saved' = NoHeader
      BY <1>1, <1>8, TakeIs DEF ParseLast
  <2>2. rx' \in Seq(Units) /\ Len(rx') \in Nat /\ Len(rx') <= RxSize /\ pos' = 0
      BY <1>1, <1>8, <2>1, SlideTyped DEF ParseLast
  <2>3. Typed'
      BY <1>1, <1>8, <2>1, <2>2 DEF ParseLast, TakeRecord, Typed
  <2>4. Waiting'
      BY <1>8, <2>1 DEF ParseLast, Waiting
  <2> QED BY <2>3, <2>4 DEF BufferInv
<1> QED BY <1>4, <1>5, <1>6, <1>7, <1>8

(* Every step of the slot keeps the invariant of the buffer.                *)
LEMMA BufferStep == BufferInv /\ [Next]_vars => BufferInv'
<1> SUFFICES ASSUME BufferInv, [Next]_vars PROVE BufferInv'
    OBVIOUS
<1>1. CASE UNCHANGED vars
    BY <1>1 DEF vars, serverVars, BufferInv, Typed, Waiting
<1>2. CASE Next
    BY <1>2, ServerSteps, ReadSteps, WaitSteps, HeaderStep, RecordSteps DEF Next
<1> QED BY <1>1, <1>2

(* It holds for ever.                                                       *)
LEMMA BufferHolds == Spec => []BufferInv
BY BufferInit, BufferStep, PTL DEF Spec

(* Type correctness, whatever a parser that lost its place makes of the     *)
(* bytes: no position outside the buffer, no body longer than its array     *)
(* (cg_fastcgi.c:234, 274).                                                 *)
THEOREM FastCGITyped == Spec => []TypeOK
<1>1. BufferInv => TypeOK
    BY DEF BufferInv, Typed, TypeOK
<1> QED BY <1>1, BufferHolds, PTL

(* No read is issued without room, whose empty result would be taken for    *)
(* the end of the stream (cg_app.c:283).                                    *)
THEOREM ReadsHaveRoom == Spec => []ReadHasRoom
<1>1. BufferInv => ReadHasRoom
  <2> SUFFICES ASSUME BufferInv, state = "read" PROVE Room > 0
      BY DEF ReadHasRoom
  <2>1. Typed /\ Waiting
      BY DEF BufferInv
  <2>2. Len(rx) \in Nat /\ saved \in Headers \cup {NoHeader}
      BY <2>1 DEF Typed
  <2>3. Len(rx) < MaxPayload
    <3>1. CASE saved = NoHeader
        BY <2>1, <2>2, <3>1, Sizes DEF Waiting
    <3>2. CASE saved # NoHeader
      <4>1. Size(saved) \in Nat /\ Size(saved) <= MaxPayload /\ Len(rx) < Size(saved)
          BY <2>1, <2>2, <3>2, Sizes DEF Waiting, Typed
      <4> QED BY <2>2, <4>1, Sizes
    <3> QED BY <3>1, <3>2
  <2> QED BY <2>2, <2>3, Sizes DEF Room
<1> QED BY <1>1, BufferHolds, PTL

-----------------------------------------------------------------------------
(* The parser is in its place: the k-th record of the request is the next   *)
(* to be taken, the units still to come are the request's from there on     *)
(* (all of them, unless the web server hung up), and the slot has what the  *)
(* records before it said.                                                  *)
Buffered == Len(rx) - pos

Remain(r, o) ==
    LET B == BytesOf(r) IN
    /\ \A i \in 1 .. Buffered : rx[pos + i] = B[o + i]
    /\ \A i \in 1 .. Len(stream) : stream[i] = B[o + Buffered + i]
    /\ o + Buffered + Len(stream) <= Len(B)
    /\ ~hungUp => o + Buffered + Len(stream) = Len(B)

ComesNext(r, k) ==
    \/ saved = NoHeader /\ Remain(r, StartOf(r, k))
    \/ saved = RecordsOf(r)[k].hdr /\ Remain(r, StartOf(r, k) + HeaderSize)

Heard(r, k) ==
    /\ k > 1 => req.id = Load16(r.id) /\ req.keep = r.keep
    /\ k = 2 => req.session = Absent
    /\ k > 2 => req.uri = r.uri /\ req.session = r.session
    /\ k > 1 => req.body = KeptBy(r)[k - 1]

Idle ==
    asked = NoRequest => /\ state \in {"free", "read"} /\ stream = <<>>
                         /\ state = "read" => rx = <<>> /\ saved = NoHeader

Parsing ==
    \A r \in Requests : asked = r /\ state \in {"read", "parse", "record"} =>
      \E k \in 1 .. Count(r) : ComesNext(r, k) /\ Heard(r, k)

Answering ==
    /\ state \in {"reply", "write"} => asked # NoRequest /\ rx = <<>> /\ stream = <<>>
    /\ \A r \in Requests : asked = r /\ state = "reply" => Heard(r, Count(r) + 1)

InPlace == Undisturbed => Idle /\ Parsing /\ Answering

(* A slot whose connections all ended between two records has no header     *)
(* left: the next connection begins in its place, also after one whose rest *)
(* was spoiled.                                                             *)
Clean == ~cut /\ state = "free" => saved = NoHeader

(* The units that remain, whatever moves them: the parser passes over some, *)
(* a read takes some into the buffer, the web server keeps some back, and   *)
(* the rest of the buffer goes to its front.                                *)
Passes(d) == pos' = pos + d /\ UNCHANGED <<rx, stream, hungUp>>

(* Passing over buffered units leaves those after them.                     *)
LEMMA PassingKeeps ==
    ASSUME Typed, NEW r \in Requests, NEW o \in Nat, NEW d \in 0 .. Buffered,
           Remain(r, o), Passes(d)
    PROVE  Remain(r, o + d)'
<1> DEFINE B == BytesOf(r)
           n == Len(B)
           m == Len(rx)
           t == Len(stream)
<1>1. m \in Nat /\ t \in Nat /\ pos \in 0 .. m /\ Buffered = m - pos
    BY DEF Typed, Buffered
<1>2. n \in Nat
    BY Layout
<1>3. /\ \A i \in 1 .. (m - pos) : rx[pos + i] = B[o + i]
      /\ \A i \in 1 .. t : stream[i] = B[o + (m - pos) + i]
      /\ o + (m - pos) + t <= n
      /\ ~hungUp => o + (m - pos) + t = n
    BY <1>1 DEF Remain
<1>4. pos' = pos + d /\ rx' = rx /\ stream' = stream /\ hungUp' = hungUp
    BY DEF Passes
<1>5. Buffered' = m - (pos + d)
    BY <1>4 DEF Buffered
<1> HIDE DEF B, n, m, t
<1>6. ASSUME NEW i \in 1 .. (m - (pos + d)) PROVE rx[(pos + d) + i] = B[(o + d) + i]
  <2>1. PICK j \in 1 .. (m - pos) : j = d + i
      BY <1>1
  <2>2. (pos + d) + i = pos + j /\ (o + d) + i = o + j
      BY <1>1, <2>1
  <2> QED BY <1>3, <2>2
<1>7. o + (m - pos) = (o + d) + (m - (pos + d))
    BY <1>1
<1>8. /\ \A i \in 1 .. t : stream[i] = B[(o + d) + (m - (pos + d)) + i]
      /\ (o + d) + (m - (pos + d)) + t <= n
      /\ ~hungUp => (o + d) + (m - (pos + d)) + t = n
    BY <1>3, <1>7
<1>9. /\ \A i \in 1 .. Buffered' : rx'[pos' + i] = B[(o + d) + i]
      /\ \A i \in 1 .. Len(stream') : stream'[i] = B[(o + d) + Buffered' + i]
      /\ (o + d) + Buffered' + Len(stream') <= n
      /\ ~hungUp' => (o + d) + Buffered' + Len(stream') = n
    BY <1>4, <1>5, <1>6, <1>8 DEF t
<1> QED BY <1>9 DEF Remain, B, n

(* A read moves them from the stream to the buffer.                         *)
LEMMA ReadingKeeps ==
    ASSUME BufferInv, NEW r \in Requests, NEW o \in Nat, Remain(r, o), ReadData
    PROVE  Remain(r, o)'
<1> DEFINE B == BytesOf(r)
           n == Len(B)
           m == Len(rx)
           t == Len(stream)
<1>1. /\ rx \in Seq(Units) /\ stream \in Seq(Units) /\ m \in Nat /\ t \in Nat
      /\ pos = 0 /\ Buffered = m
    BY DEF BufferInv, Typed, Waiting, ReadData, Buffered
<1>2. n \in Nat
    BY Layout
<1>3. /\ \A i \in 1 .. m : rx[i] = B[o + i]
      /\ \A i \in 1 .. t : stream[i] = B[o + m + i]
      /\ o + m + t <= n
      /\ ~hungUp => o + m + t = n
    BY <1>1 DEF Remain
<1>4. PICK l \in 1 .. t : rx' = rx \o SubSeq(stream, 1, l) /\ stream' = SubSeq(stream, l + 1, t)
    BY DEF ReadData
<1> DEFINE a == SubSeq(stream, 1, l)
           z == SubSeq(stream, l + 1, t)
<1>5. /\ a \in Seq(Units) /\ Len(a) = l /\ \A i \in 1 .. l : a[i] = stream[i]
      /\ Len(z) = t - l /\ \A i \in 1 .. (t - l) : z[i] = stream[l + i]
    BY <1>1
<1>6. pos' = 0 /\ hungUp' = hungUp
    BY DEF ReadData
<1> HIDE DEF a, z, B, n
<1>7. /\ rx \o a \in Seq(Units) /\ Len(rx \o a) = m + l
      /\ \A i \in 1 .. m : (rx \o a)[i] = rx[i]
      /\ \A i \in 1 .. l : (rx \o a)[m + i] = a[i]
  <2>1. /\ rx \o a \in Seq(Units) /\ Len(rx \o a) = Len(rx) + Len(a)
        /\ \A i \in 1 .. Len(rx) : (rx \o a)[i] = rx[i]
        /\ \A i \in 1 .. Len(a) : (rx \o a)[Len(rx) + i] = a[i]
    <3>1. rx \in Seq(Units) /\ a \in Seq(Units)
        BY <1>1, <1>5
    <3> QED BY <3>1, ConcatIs
  <2> QED BY <1>5, <2>1
<1> HIDE DEF m, t
<1>8. ASSUME NEW i \in 1 .. (m + l) PROVE (rx \o a)[i] = B[o + i]
  <2>1. CASE i \in 1 .. m
      BY <1>3, <1>7, <2>1
  <2>2. CASE i \notin 1 .. m
    <3>1. PICK j \in 1 .. l : i = m + j
      <4>1. i - m \in 1 .. l /\ i = m + (i - m)
          BY <1>1, <2>2
      <4> QED BY <4>1
    <3>2. j \in 1 .. t /\ o + i = o + m + j
        BY <1>1, <3>1
    <3> QED BY <1>3, <1>5, <1>7, <3>1, <3>2
  <2> QED BY <2>1, <2>2
<1>9. ASSUME NEW i \in 1 .. (t - l) PROVE z[i] = B[o + (m + l) + i]
  <2>1. PICK j \in 1 .. t : j = l + i
      BY <1>1
  <2>2. o + (m + l) + i = o + m + j
      BY <1>1, <2>1
  <2> QED BY <1>3, <1>5, <2>1, <2>2
<1>10. o + (m + l) + (t - l) = o + m + t
    BY <1>1
<1>11. rx' = rx \o a /\ stream' = z /\ Buffered' = m + l /\ Len(stream') = t - l
  <2>1. rx' = rx \o a /\ stream' = z
      BY <1>4 DEF a, z, t
  <2> QED BY <1>1, <1>5, <1>6, <1>7, <2>1 DEF Buffered
<1>12. /\ \A i \in 1 .. Buffered' : rx'[pos' + i] = B[o + i]
       /\ \A i \in 1 .. Len(stream') : stream'[i] = B[o + Buffered' + i]
       /\ o + Buffered' + Len(stream') <= n
       /\ ~hungUp' => o + Buffered' + Len(stream') = n
  <2>1. \A i \in 1 .. Buffered' : pos' + i = i
      BY <1>1, <1>6, <1>11
  <2> QED BY <1>3, <1>6, <1>8, <1>9, <1>10, <1>11, <2>1
<1> QED BY <1>12 DEF Remain, B, n

(* A web server that hangs up keeps back the last of them.                  *)
LEMMA HangingUpKeeps ==
    ASSUME Typed, NEW r \in Requests, NEW o \in Nat, Remain(r, o), HangUp
    PROVE  Remain(r, o)'
<1> DEFINE B == BytesOf(r)
           n == Len(B)
           m == Buffered
           t == Len(stream)
<1>1. stream \in Seq(Units) /\ t \in Nat /\ m \in Nat /\ n \in Nat
    BY Layout DEF Typed, Buffered
<1>2. /\ \A i \in 1 .. m : rx[pos + i] = B[o + i]
      /\ \A i \in 1 .. t : stream[i] = B[o + m + i]
      /\ o + m + t <= n
    BY DEF Remain
<1>3. PICK l \in 0 .. t : stream' = SubSeq(stream, 1, l)
    BY DEF HangUp
<1>4. Len(stream') = l /\ \A i \in 1 .. l : stream'[i] = stream[i]
    BY <1>1, <1>3
<1>5. rx' = rx /\ pos' = pos /\ hungUp' = TRUE /\ Buffered' = m
    BY DEF HangUp, Buffered
<1> HIDE DEF B, n, m, t
<1>6. /\ \A i \in 1 .. Buffered' : rx'[pos' + i] = B[o + i]
      /\ \A i \in 1 .. Len(stream') : stream'[i] = B[o + Buffered' + i]
      /\ o + Buffered' + Len(stream') <= n
    BY <1>1, <1>2, <1>4, <1>5
<1> QED BY <1>5, <1>6 DEF Remain, B, n

(* Moved to the front of the buffer they are the same, when no vector is    *)
(* loaded where one was stored.                                             *)
LEMMA SlidingKeeps ==
    ASSUME Typed, NEW r \in Requests, NEW o \in Nat, Remain(r, o), WaitForMore,
           RestIsSafe(pos)
    PROVE  Remain(r, o)'
<1> USE DEF serverVars
<1> DEFINE B == BytesOf(r)
           n == Len(B)
           m == Buffered
           t == Len(stream)
<1>1. rx \in Seq(Units) /\ pos \in 0 .. Len(rx) /\ t \in Nat /\ m \in Nat /\ n \in Nat
    BY Layout DEF Typed, Buffered
<1>2. /\ \A i \in 1 .. m : rx[pos + i] = B[o + i]
      /\ \A i \in 1 .. t : stream[i] = B[o + m + i]
      /\ o + m + t <= n
      /\ ~hungUp => o + m + t = n
    BY DEF Remain
<1>3. Len(RestAt(pos)) = m /\ \A i \in 1 .. m : RestAt(pos)[i] = rx[pos + i]
    BY <1>1, RestIs DEF Buffered
<1>4. rx' = RestAt(pos) /\ pos' = 0 /\ stream' = stream /\ hungUp' = hungUp
    BY DEF WaitForMore, SlideFrom
<1>5. Buffered' = m
    BY <1>1, <1>3, <1>4 DEF Buffered
<1> HIDE DEF B, n, m, t
<1>6. /\ \A i \in 1 .. Buffered' : rx'[pos' + i] = B[o + i]
      /\ \A i \in 1 .. Len(stream') : stream'[i] = B[o + Buffered' + i]
      /\ o + Buffered' + Len(stream') <= n
      /\ ~hungUp' => o + Buffered' + Len(stream') = n
  <2>1. Len(stream') = t
      BY <1>4 DEF t
  <2>2. \A i \in 1 .. m : rx'[pos' + i] = B[o + i]
    <3>1. \A i \in 1 .. m : pos' + i = i
        BY <1>1, <1>4
    <3>2. \A i \in 1 .. m : rx'[i] = rx[pos + i]
        BY <1>3, <1>4
    <3> QED BY <1>2, <3>1, <3>2
  <2> QED BY <1>2, <1>4, <1>5, <2>1, <2>2
<1> QED BY <1>6 DEF Remain, B, n

-----------------------------------------------------------------------------
(* The place, step by step.                                                 *)

(* Where a record of a request ends, and that not one is left after the     *)
(* last.                                                                    *)
LEMMA Bounds ==
    ASSUME NEW r \in Requests, NEW k \in 1 .. Count(r)
    PROVE  LET rec == RecordsOf(r)[k]
               s   == StartOf(r, k)
               e   == StartOf(r, k + 1)
           IN  /\ rec \in Records /\ rec.of = r /\ rec.hdr.id = r.id
               /\ rec.hdr \in Headers /\ rec.hdr # NoHeader /\ Size(rec.hdr) \in Nat
               /\ s \in Nat /\ e \in Nat /\ HeaderSize \in Nat \ {0}
               /\ e = s + HeaderSize + Size(rec.hdr)
               /\ Len(BytesOf(r)) \in Nat /\ e <= Len(BytesOf(r))
               /\ k = Count(r) => e = Len(BytesOf(r))
               /\ Count(r) \in Nat /\ Count(r) > 3 /\ k < Count(r) => k + 1 \in 1 .. Count(r)
<1> DEFINE rec == RecordsOf(r)[k]
           s   == StartOf(r, k)
           e   == StartOf(r, k + 1)
           n   == Len(BytesOf(r))
<1>1. rec \in Records /\ rec.of = r /\ rec.hdr.id = r.id /\ Count(r) \in Nat /\ Count(r) > 3
    BY RecordsAre DEF Count
<1>2. rec.hdr \in Headers /\ Size(rec.hdr) \in Nat /\ HeaderSize \in Nat \ {0}
    BY <1>1, UnitsAre
<1>3. rec.hdr # NoHeader
    BY <1>2, Sizes
<1>4. /\ n \in Nat /\ s \in Nat /\ e = s + HeaderSize + Size(rec.hdr) /\ e <= n
      /\ StartOf(r, Count(r) + 1) = n
    BY Layout
<1>5. e \in Nat
    BY <1>2, <1>4
<1>6. k = Count(r) => e = n
    BY <1>4
<1>7. k < Count(r) => k + 1 \in 1 .. Count(r)
    BY <1>1
<1> HIDE DEF rec, s, e, n
<1> QED BY <1>1, <1>2, <1>3, <1>4, <1>5, <1>6, <1>7 DEF rec, s, e, n

(* Reads, waits and a web server that hangs up leave the parser at the same *)
(* record.                                                                  *)
LEMMA PlaceKept ==
    ASSUME BufferInv, NEW r \in Requests, NEW k \in 1 .. Count(r),
           ComesNext(r, k), Heard(r, k),
           HangUp \/ ReadData \/ (WaitForMore /\ RestIsSafe(pos))
    PROVE  ComesNext(r, k)' /\ Heard(r, k)'
<1> USE DEF serverVars
<1>1. saved' = saved /\ req' = req
    BY DEF HangUp, ReadData, WaitForMore
<1>2. Heard(r, k)'
    BY <1>1 DEF Heard
<1>3. ASSUME NEW o \in Nat, Remain(r, o) PROVE Remain(r, o)'
  <2>1. Typed
      BY DEF BufferInv
  <2>2. CASE HangUp
      BY <1>3, <2>1, <2>2, HangingUpKeeps
  <2>3. CASE ReadData
      BY <1>3, <2>3, ReadingKeeps
  <2>4. CASE WaitForMore /\ RestIsSafe(pos)
      BY <1>3, <2>1, <2>4, SlidingKeeps
  <2> QED BY <2>2, <2>3, <2>4
<1>4. PICK s \in Nat, h \in Nat : s = StartOf(r, k) /\ h = StartOf(r, k) + HeaderSize
    BY Bounds
<1>5. ComesNext(r, k)'
    BY <1>1, <1>3, <1>4 DEF ComesNext
<1> QED BY <1>2, <1>5

(* A connection begins with nothing asked, a request with its first record. *)
LEMMA PlaceAtFirst == Init => InPlace
BY DEF Init, InPlace, Idle, Parsing, Answering, NoRequest, Sizes

(* The web server asks only when nothing is left of what it asked before.   *)
LEMMA PlaceServer ==
    BufferInv /\ Clean /\ InPlace /\ (Connect \/ (\E r \in Requests : Ask(r)) \/ HangUp)
      => InPlace'
<1> SUFFICES ASSUME BufferInv, Clean, InPlace, ~cut', ~spoiled'
             PROVE  Connect \/ (\E r \in Requests : Ask(r)) \/ HangUp
                      => Idle' /\ Parsing' /\ Answering'
    BY DEF InPlace, Undisturbed
<1> USE DEF serverVars
<1>1. ASSUME Connect PROVE Idle' /\ Parsing' /\ Answering'
  <2>1. saved = NoHeader
      BY <1>1 DEF Connect, Clean
  <2>2. \A r \in Requests : asked' # r
      BY <1>1, Sizes DEF Connect
  <2> QED BY <1>1, <2>1, <2>2 DEF Connect, Idle, Parsing, Answering
<1>2. ASSUME NEW r \in Requests, Ask(r) PROVE Idle' /\ Parsing' /\ Answering'
  <2>1. rx = <<>> /\ saved = NoHeader /\ pos = 0
      BY <1>2 DEF Ask, InPlace, Undisturbed, Idle, BufferInv, Waiting
  <2>2. Len(BytesOf(r)) \in Nat /\ StartOf(r, 1) = 0
      BY Layout
  <2>3. 1 \in 1 .. Count(r)
      BY RecordsAre DEF Count
  <2>4. Remain(r, 0)'
    <3> DEFINE B == BytesOf(r)
               n == Len(B)
    <3>1. Buffered' = 0 /\ stream' = B /\ hungUp' = hungUp
        BY <1>2, <2>1 DEF Ask, Buffered
    <3>2. Len(stream') = n
        BY <3>1
    <3> HIDE DEF B, n
    <3>3. /\ \A i \in 1 .. Buffered' : rx'[pos' + i] = B[0 + i]
          /\ \A i \in 1 .. n : stream'[i] = B[0 + Buffered' + i]
          /\ 0 + Buffered' + n <= n
          /\ 0 + Buffered' + n = n
        BY <2>2, <3>1 DEF n, B
    <3> QED BY <3>2, <3>3 DEF Remain, B, n
  <2>5. ComesNext(r, 1)' /\ Heard(r, 1)'
    <3>1. saved' = NoHeader
        BY <1>2, <2>1 DEF Ask
    <3> QED BY <2>2, <2>4, <3>1 DEF ComesNext, Heard
  <2>6. Parsing'
      BY <1>2, <2>3, <2>5 DEF Ask, Parsing
  <2>7. Idle' /\ Answering'
    <3>1. asked' # NoRequest
        BY <1>2, Sizes DEF Ask
    <3> QED BY <1>2, <3>1 DEF Ask, Idle, Answering
  <2> QED BY <2>6, <2>7
<1>3. ASSUME HangUp PROVE Idle' /\ Parsing' /\ Answering'
  <2>1. Idle /\ Parsing /\ Answering
      BY <1>3 DEF HangUp, InPlace, Undisturbed
  <2>2. UNCHANGED <<asked, state, rx, saved, req>>
      BY <1>3 DEF HangUp
  <2>3. stream = <<>> => stream' = <<>>
      BY <1>3 DEF HangUp
  <2>4. Parsing'
      BY <1>3, <2>1, <2>2, PlaceKept DEF Parsing
  <2>5. Answering'
    <3>1. \A r \in Requests : asked' = r /\ state' = "reply" => Heard(r, Count(r) + 1)'
        BY <2>1, <2>2 DEF Answering, Heard
    <3> QED BY <2>1, <2>2, <2>3, <3>1 DEF Answering
  <2> QED BY <2>1, <2>2, <2>3, <2>4, <2>5 DEF Idle
<1> QED BY <1>1, <1>2, <1>3

(* Reading and answering.                                                   *)
LEMMA PlaceReads ==
    BufferInv /\ InPlace /\ (ReadData \/ ReadEnds \/ Reply \/ WriteEnds \/ WriteFails) => InPlace'
<1> SUFFICES ASSUME BufferInv, InPlace, ~cut', ~spoiled'
             PROVE  ReadData \/ ReadEnds \/ Reply \/ WriteEnds \/ WriteFails
                      => Idle' /\ Parsing' /\ Answering'
    BY DEF InPlace, Undisturbed
<1> USE DEF serverVars
<1>1. ASSUME ReadData PROVE Idle' /\ Parsing' /\ Answering'
  <2>1. Idle /\ Parsing
      BY <1>1 DEF ReadData, InPlace, Undisturbed
  <2>2. asked' = asked /\ state = "read" /\ state' = "parse" /\ asked' # NoRequest
      BY <1>1, <2>1 DEF ReadData, Idle
  <2>3. Parsing'
      BY <1>1, <2>1, <2>2, PlaceKept DEF Parsing
  <2> QED BY <2>2, <2>3 DEF Idle, Answering
<1>2. ASSUME ReadEnds PROVE Idle' /\ Parsing' /\ Answering'
  <2>1. Idle /\ saved = NoHeader
      BY <1>2 DEF ReadEnds, InPlace, Undisturbed
  <2> QED BY <1>2, <2>1 DEF ReadEnds, Idle, Parsing, Answering
<1>3. ASSUME Reply PROVE Idle' /\ Parsing' /\ Answering'
  <2>1. Answering
      BY <1>3 DEF Reply, InPlace, Undisturbed
  <2> QED BY <1>3, <2>1 DEF Reply, Idle, Parsing, Answering
<1>4. ASSUME WriteEnds PROVE Idle' /\ Parsing' /\ Answering'
  <2>1. stream = <<>> /\ saved = NoHeader
      BY <1>4 DEF WriteEnds, InPlace, Undisturbed, Answering, BufferInv, Waiting
  <2>2. asked' = NoRequest /\ \A r \in Requests : asked' # r
      BY <1>4, Sizes DEF WriteEnds
  <2>3. stream' = <<>> /\ saved' = NoHeader /\ state' \in {"read", "free"}
      BY <1>4, <2>1 DEF WriteEnds
  <2>4. state' = "read" => rx' = <<>>
      BY <1>4 DEF WriteEnds
  <2> QED BY <2>2, <2>3, <2>4 DEF Idle, Parsing, Answering
<1>5. ASSUME WriteFails PROVE Idle' /\ Parsing' /\ Answering'
  <2>1. Answering /\ saved = NoHeader
      BY <1>5 DEF WriteFails, InPlace, Undisturbed, BufferInv, Waiting
  <2> QED BY <1>5, <2>1 DEF WriteFails, Idle, Parsing, Answering
<1> QED BY <1>1, <1>2, <1>3, <1>4, <1>5

(* A parser that waits.                                                     *)
LEMMA PlaceWaits ==
    ASSUME BufferInv, InPlace, ParseEnds \/ HeaderIncomplete \/ PayloadIncomplete
    PROVE  InPlace'
<1> SUFFICES ASSUME ~cut', ~spoiled' PROVE Idle' /\ Parsing' /\ Answering'
    BY DEF InPlace, Undisturbed
<1> USE DEF serverVars
<1>1. WaitForMore /\ RestIsSafe(pos) /\ ~spoiled /\ state \in {"parse", "record"}
  <2>1. WaitForMore /\ state \in {"parse", "record"}
      BY DEF ParseEnds, HeaderIncomplete, PayloadIncomplete, InRecord
  <2>2. Watched(pos)
      BY <2>1 DEF WaitForMore, SlideFrom
  <2> QED BY <2>1, <2>2 DEF Watched
<1>2. Idle /\ Parsing /\ asked' = asked /\ state' = "read"
    BY <1>1 DEF WaitForMore, InPlace, Undisturbed
<1>3. asked' # NoRequest
    BY <1>1, <1>2 DEF Idle
<1>4. Parsing'
    BY <1>1, <1>2, PlaceKept DEF Parsing
<1> QED BY <1>2, <1>3, <1>4 DEF Idle, Answering

(* A parser in its place reads no header but that of the record.            *)
LEMMA PlaceHeader == BufferInv /\ InPlace /\ ParseHeader => InPlace'
<1> SUFFICES ASSUME BufferInv, InPlace, ParseHeader, ~cut', ~spoiled'
             PROVE  Idle' /\ Parsing' /\ Answering'
    BY DEF InPlace, Undisturbed
<1> USE DEF serverVars
<1>1. Idle /\ Parsing /\ Typed
    BY DEF InPlace, Undisturbed, ParseHeader, BufferInv
<1>2. asked' = asked /\ state = "parse" /\ state' = "record" /\ saved = NoHeader /\ req' = req
    BY DEF ParseHeader
<1>3. asked' # NoRequest
    BY <1>1, <1>2 DEF Idle
<1>4. ASSUME NEW r \in Requests, asked = r
      PROVE  \E k \in 1 .. Count(r) : ComesNext(r, k)' /\ Heard(r, k)'
  <2>1. PICK k \in 1 .. Count(r) : ComesNext(r, k) /\ Heard(r, k)
      BY <1>1, <1>2, <1>4 DEF Parsing
  <2>2. PICK s \in Nat, h \in Nat \ {0} : s = StartOf(r, k) /\ h = HeaderSize
      BY Bounds
  <2>3. Remain(r, s)
    <3>1. RecordsOf(r)[k].hdr # NoHeader
        BY Bounds
    <3> QED BY <1>2, <2>1, <2>2, <3>1 DEF ComesNext
  <2>4. h \in 0 .. Buffered /\ 1 \in 1 .. Buffered
    <3>1. Len(rx) \in Nat /\ pos \in 0 .. Len(rx) /\ Len(rx) - pos >= h
        BY <1>1, <2>2 DEF Typed, ParseHeader
    <3> QED BY <3>1 DEF Buffered
  <2>5. Passes(h)
      BY <2>2 DEF ParseHeader, Passes
  <2>6. Remain(r, s + h)'
      BY <1>1, <2>2, <2>3, <2>4, <2>5, PassingKeeps
  <2>7. rx[pos + 1] = [rec |-> RecordsOf(r)[k], at |-> 1]
    <3>1. rx[pos + 1] = BytesOf(r)[s + 1]
        BY <2>3, <2>4 DEF Remain
    <3>2. 1 \in 1 .. (HeaderSize + Size(RecordsOf(r)[k].hdr))
        BY Bounds
    <3>3. BytesOf(r)[StartOf(r, k) + 1] = [rec |-> RecordsOf(r)[k], at |-> 1]
        BY <3>2, Layout
    <3> QED BY <2>2, <3>1, <3>3
  <2>8. saved' = RecordsOf(r)[k].hdr
      BY <2>7 DEF ParseHeader, HeaderAt
  <2>9. ComesNext(r, k)'
      BY <2>2, <2>6, <2>8 DEF ComesNext
  <2>10. Heard(r, k)'
      BY <1>2, <2>1 DEF Heard
  <2> QED BY <2>9, <2>10
<1>5. Parsing'
    BY <1>2, <1>4 DEF Parsing
<1> QED BY <1>2, <1>3, <1>5 DEF Idle, Answering

(* The payload of a record that is taken in its place is the record's own.  *)
LEMMA TakenIs ==
    ASSUME BufferInv, NEW r \in Requests, NEW k \in 1 .. Count(r), ComesNext(r, k),
           NEW type, TakeRecord(type)
    PROVE  LET rec == RecordsOf(r)[k] IN
           /\ saved = rec.hdr /\ rec.hdr.type = type /\ saved' = NoHeader
           /\ Remain(r, StartOf(r, k) + HeaderSize)
           /\ saved.len > 0 => Genuine /\ Head(Content).rec.of = r
           /\ type = "STDIN" => Content = BodyIn(rec)
<1> DEFINE rec == RecordsOf(r)[k]
<1>1. Typed /\ Waiting
    BY DEF BufferInv
<1>2. /\ saved \in Headers /\ saved.type = type /\ saved' = NoHeader
      /\ saved.len \in Nat /\ saved.len <= Size(saved) /\ Size(saved) \in Nat
      /\ rx \in Seq(Units) /\ Len(rx) \in Nat /\ pos \in Nat /\ pos + Size(saved) \in 0 .. Len(rx)
      /\ Content \in Seq(Units) /\ Len(Content) = saved.len
      /\ \A j \in 1 .. saved.len : Content[j] = rx[pos + j]
    BY <1>1, TakeIs
<1>3. PICK s \in Nat, h \in Nat \ {0}, l \in Nat :
             s = StartOf(r, k) /\ h = HeaderSize /\ l = saved.len
    BY <1>2, Bounds
<1>4. saved = rec.hdr /\ Remain(r, s + h)
  <2>1. saved # NoHeader
      BY <1>2, Sizes
  <2> QED BY <1>3, <2>1 DEF ComesNext
<1>5. ASSUME NEW j \in 1 .. l PROVE Content[j] = [rec |-> rec, at |-> h + j]
  <2>1. Content[j] = rx[pos + j]
      BY <1>2, <1>3
  <2>2. j \in 1 .. Buffered
      BY <1>2, <1>3 DEF Buffered
  <2>3. rx[pos + j] = BytesOf(r)[s + h + j]
      BY <1>4, <2>2 DEF Remain
  <2>4. PICK i \in 1 .. (HeaderSize + Size(rec.hdr)) : i = h + j
    <3>1. h + j \in 1 .. (HeaderSize + Size(rec.hdr))
      <4>1. Size(rec.hdr) \in Nat /\ l <= Size(rec.hdr)
          BY <1>2, <1>3, <1>4
      <4> QED BY <1>3, <4>1
    <3> QED BY <3>1
  <2>5. BytesOf(r)[StartOf(r, k) + i] = [rec |-> rec, at |-> i]
      BY Layout
  <2>6. s + h + j = s + i
      BY <2>4
  <2> HIDE DEF rec
  <2> QED BY <1>3, <2>1, <2>3, <2>4, <2>5, <2>6
<1>6. l > 0 => Genuine /\ Head(Content).rec.of = r
  <2> SUFFICES ASSUME l > 0 PROVE Genuine /\ Head(Content).rec.of = r
      OBVIOUS
  <2>1. Content # <<>> /\ Head(Content) = Content[1]
      BY <1>2, <1>3
  <2>2. Content[1] = [rec |-> rec, at |-> h + 1]
      BY <1>5
  <2>3. rec.of = r
      BY Bounds
  <2> HIDE DEF rec
  <2> QED BY <1>3, <1>4, <2>1, <2>2, <2>3 DEF Genuine
<1>7. type = "STDIN" => Content = BodyIn(rec)
  <2> SUFFICES ASSUME type = "STDIN" PROVE Content = BodyIn(rec)
      OBVIOUS
  <2>1. rec \in Records /\ rec.hdr.type = "STDIN" /\ rec.hdr.len = l
      BY <1>2, <1>3, <1>4, Bounds
  <2> HIDE DEF rec
  <2> DEFINE c == Content
             b == BodyIn(rec)
  <2>2. /\ b \in Seq(Units) /\ Len(b) = l
        /\ \A j \in 1 .. l : b[j] = [rec |-> rec, at |-> h + j]
      BY <1>3, <2>1, BodyInIs
  <2>3. c \in Seq(Units) /\ Len(c) = l /\ \A j \in 1 .. l : c[j] = b[j]
      BY <1>2, <1>3, <1>5, <2>2
  <2> HIDE DEF c, b
  <2>4. c = b
      BY <2>2, <2>3, SeqEqual
  <2> QED BY <2>4 DEF c, b
<1>8. rec.hdr.type = type
    BY <1>2, <1>4
<1> HIDE DEF rec
<1> QED BY <1>2, <1>3, <1>4, <1>6, <1>7, <1>8 DEF rec

(* A record that is passed over with its payload is followed by the next.   *)
LEMMA NextComes ==
    ASSUME BufferInv, NEW r \in Requests, NEW k \in 1 .. Count(r), ComesNext(r, k),
           NEW type, TakeRecord(type), NextRecord
    PROVE  ComesNext(r, k + 1)'
<1> USE DEF serverVars
<1>1. Typed /\ Waiting
    BY DEF BufferInv
<1>2. saved = RecordsOf(r)[k].hdr /\ saved' = NoHeader /\ Remain(r, StartOf(r, k) + HeaderSize)
    BY TakenIs
<1>3. PICK s \in Nat, h \in Nat, n \in Nat, e \in Nat :
             /\ s = StartOf(r, k) /\ h = HeaderSize /\ n = Size(saved)
             /\ e = StartOf(r, k + 1) /\ e = s + h + n
    BY <1>2, Bounds
<1>4. PICK o \in Nat : o = s + h
    OBVIOUS
<1>5. n \in 0 .. Buffered
  <2>1. Len(rx) \in Nat /\ pos \in 0 .. Len(rx) /\ Len(rx) - pos >= n
      BY <1>1, <1>3 DEF Typed, TakeRecord
  <2> QED BY <2>1 DEF Buffered
<1>6. Remain(r, o) /\ Passes(n)
    BY <1>2, <1>3, <1>4 DEF TakeRecord, NextRecord, Passes
<1>7. Remain(r, o + n)'
    BY <1>1, <1>5, <1>6, PassingKeeps
<1>8. o + n = e
    BY <1>3, <1>4
<1> QED BY <1>2, <1>3, <1>7, <1>8 DEF ComesNext

(* What the slot has heard after each kind of record.                       *)
LEMMA BeginHeard ==
    ASSUME BufferInv, NEW r \in Requests, NEW k \in 1 .. Count(r), ComesNext(r, k), ParseBegin
    PROVE  k = 1 /\ Heard(r, k + 1)'
<1> DEFINE rec == RecordsOf(r)[k]
<1>1. TakeRecord("BEGIN")
    BY DEF ParseBegin
<1>2. saved = rec.hdr /\ rec.hdr.type = "BEGIN"
      /\ (saved.len > 0 => Genuine /\ Head(Content).rec.of = r)
    BY <1>1, TakenIs
<1>3. k = 1 /\ rec.hdr.len = 1 /\ rec.hdr.id = r.id /\ rec \in Records
  <2>1. Count(r) \in Nat /\ Count(r) > 3
      BY RecordsAre DEF Count
  <2> HIDE DEF rec
  <2>2. /\ rec \in Records /\ rec.hdr.id = r.id
        /\ k = 1 => rec.hdr.len = 1
        /\ k = 2 => rec.hdr.type = "PARAMS"
        /\ k > 2 /\ k < Count(r) => rec.hdr.type \in {"OTHER", "STDIN"}
        /\ k = Count(r) => rec.hdr.type = "STDIN"
      BY RecordsAre DEF Count, rec
  <2> QED BY <1>2, <2>1, <2>2
<1>4. req \in [id : Nat, keep : BOOLEAN, uri : Uris \cup {Absent},
               session : Sessions \cup {Absent}, body : Seq(Units)]
    BY DEF BufferInv, Typed
<1> DEFINE n == Load16(saved.id)
           e == <<>>
<1>5. PICK keep \in BOOLEAN :
             /\ Genuine => keep = Head(Content).rec.of.keep
             /\ req' = [req EXCEPT !.keep = keep, !.id = n, !.body = e, !.session = Absent]
    BY DEF ParseBegin
<1>6. n = Load16(r.id) /\ keep = r.keep
  <2> HIDE DEF rec
  <2>1. keep = Head(Content).rec.of.keep /\ Head(Content).rec.of = r
      BY <1>2, <1>3, <1>5
  <2> QED BY <1>2, <1>3, <2>1
<1>7. e = KeptBy(r)[1]
  <2>1. BodyIn(rec) = <<>>
      BY <1>2, <1>3, BodyInIs
  <2> HIDE DEF rec
  <2>2. KeptBy(r)[k] = KeptBy(r)[k - 1]
      BY <2>1, KeptLayout DEF rec
  <2>3. k - 1 = 0 /\ k = 1
      BY <1>3
  <2>4. KeptBy(r)[0] = <<>>
      BY KeptLayout
  <2> QED BY <2>2, <2>3, <2>4
<1> HIDE DEF n, e
<1>8. req'.id = n /\ req'.keep = keep /\ req'.session = Absent /\ req'.body = e
    BY <1>4, <1>5
<1>9. k + 1 = 2 /\ (k + 1) - 1 = 1
    BY <1>3
<1> QED BY <1>3, <1>6, <1>7, <1>8, <1>9 DEF Heard

(* The parameters: with no cookie in them there is no session.              *)
LEMMA ParamsHeard ==
    ASSUME BufferInv, NEW r \in Requests, NEW k \in 1 .. Count(r),
           ComesNext(r, k), Heard(r, k), ParseParams
    PROVE  k = 2 /\ Heard(r, k + 1)'
<1> DEFINE rec == RecordsOf(r)[k]
<1>1. TakeRecord("PARAMS")
    BY DEF ParseParams
<1>2. saved = rec.hdr /\ rec.hdr.type = "PARAMS"
      /\ (saved.len > 0 => Genuine /\ Head(Content).rec.of = r)
    BY <1>1, TakenIs
<1>3. k = 2 /\ rec.hdr.len = 2 /\ rec \in Records
  <2>1. Count(r) \in Nat /\ Count(r) > 3
      BY RecordsAre DEF Count
  <2> HIDE DEF rec
  <2>2. /\ rec \in Records
        /\ k = 1 => rec.hdr.type = "BEGIN"
        /\ k = 2 => rec.hdr.len = 2
        /\ k > 2 /\ k < Count(r) => rec.hdr.type \in {"OTHER", "STDIN"}
        /\ k = Count(r) => rec.hdr.type = "STDIN"
      BY RecordsAre DEF Count, rec
  <2> QED BY <1>2, <2>1, <2>2
<1>4. req \in [id : Nat, keep : BOOLEAN, uri : Uris \cup {Absent},
               session : Sessions \cup {Absent}, body : Seq(Units)]
    BY DEF BufferInv, Typed
<1>5. req' = [req EXCEPT !.uri = r.uri,
                         !.session = IF r.session = Absent THEN @ ELSE r.session]
  <2> HIDE DEF rec
  <2>1. Genuine /\ Head(Content).rec.of = r
      BY <1>2, <1>3
  <2> QED BY <2>1 DEF ParseParams
<1>6. /\ req'.id = req.id /\ req'.keep = req.keep /\ req'.uri = r.uri /\ req'.body = req.body
      /\ req'.session = IF r.session = Absent THEN req.session ELSE r.session
    BY <1>4, <1>5
<1>7. KeptBy(r)[2] = KeptBy(r)[1]
  <2>1. BodyIn(rec) = <<>>
      BY <1>2, <1>3, BodyInIs
  <2> HIDE DEF rec
  <2>2. KeptBy(r)[k] = KeptBy(r)[k - 1]
      BY <2>1, KeptLayout DEF rec
  <2>3. k - 1 = 1 /\ k = 2
      BY <1>3
  <2> QED BY <2>2, <2>3
<1>8. k + 1 = 3 /\ (k + 1) - 1 = 2 /\ k - 1 = 1
    BY <1>3
<1>9. /\ req.id = Load16(r.id) /\ req.keep = r.keep /\ req.session = Absent
      /\ req.body = KeptBy(r)[1]
    BY <1>3, <1>8 DEF Heard
<1> QED BY <1>3, <1>6, <1>7, <1>8, <1>9 DEF Heard

(* A piece of the body, or the end of it, or a record that is not looked at.*)
LEMMA BodyHeard ==
    ASSUME BufferInv, NEW r \in Requests, NEW k \in 1 .. Count(r),
           ComesNext(r, k), Heard(r, k), ParseStdin \/ ParseLast \/ ParseOther
    PROVE  k > 2 /\ (k = Count(r) <=> ParseLast) /\ Heard(r, k + 1)'
<1> DEFINE rec == RecordsOf(r)[k]
           T == KeptBy(r)
<1>1. /\ TakeRecord("STDIN") \/ TakeRecord("OTHER")
      /\ ParseOther => TakeRecord("OTHER")
      /\ ~ParseOther => TakeRecord("STDIN")
    BY DEF ParseStdin, ParseLast, ParseOther
<1>2. /\ saved = rec.hdr /\ rec.hdr.type \in {"STDIN", "OTHER"} /\ saved \in Headers
      /\ saved.len \in Nat
      /\ rec.hdr.type = "STDIN" => Content = BodyIn(rec)
      /\ TakeRecord("OTHER") => rec.hdr.type = "OTHER"
      /\ TakeRecord("STDIN") => rec.hdr.type = "STDIN"
  <2>1. CASE TakeRecord("STDIN")
    <3>1. saved = rec.hdr /\ rec.hdr.type = "STDIN" /\ Content = BodyIn(rec)
        BY <2>1, TakenIs
    <3>2. saved \in Headers /\ saved.len \in Nat /\ saved.type = "STDIN"
        BY <2>1, TakeIs DEF BufferInv
    <3>3. ~TakeRecord("OTHER")
        BY <3>2 DEF TakeRecord
    <3> QED BY <3>1, <3>2, <3>3
  <2>2. CASE TakeRecord("OTHER")
    <3>1. saved = rec.hdr /\ rec.hdr.type = "OTHER"
        BY <2>2, TakenIs
    <3>2. saved \in Headers /\ saved.len \in Nat /\ saved.type = "OTHER"
        BY <2>2, TakeIs DEF BufferInv
    <3>3. ~TakeRecord("STDIN")
        BY <3>2 DEF TakeRecord
    <3> QED BY <3>1, <3>2, <3>3
  <2> QED BY <1>1, <2>1, <2>2
<1>3. /\ rec \in Records /\ Count(r) \in Nat /\ k > 2
      /\ k < Count(r) /\ rec.hdr.type = "STDIN" => rec.hdr.len > 0
      /\ k = Count(r) => rec.hdr.type = "STDIN" /\ rec.hdr.len = 0
  <2>1. Count(r) \in Nat /\ Count(r) > 3
      BY RecordsAre DEF Count
  <2> HIDE DEF rec
  <2>2. /\ rec \in Records
        /\ k = 1 => rec.hdr.type = "BEGIN"
        /\ k = 2 => rec.hdr.type = "PARAMS"
        /\ k > 2 /\ k < Count(r) => (rec.hdr.type = "STDIN" => rec.hdr.len > 0)
        /\ k = Count(r) => rec.hdr.type = "STDIN" /\ rec.hdr.len = 0
      BY RecordsAre DEF Count, rec
  <2> QED BY <1>2, <2>1, <2>2
<1> HIDE DEF rec
<1>4. k = Count(r) <=> ParseLast
  <2>1. CASE ParseLast
    <3>1. rec.hdr.type = "STDIN" /\ rec.hdr.len = 0
        BY <1>2, <2>1 DEF ParseLast
    <3> QED BY <1>3, <2>1, <3>1
  <2>2. CASE ~ParseLast
    <3>1. ~(rec.hdr.type = "STDIN" /\ rec.hdr.len = 0)
        BY <1>1, <1>2, <2>2 DEF ParseStdin
    <3> QED BY <1>3, <2>2, <3>1
  <2> QED BY <2>1, <2>2
<1>5. /\ T[k] = IF Len(T[k - 1]) + Len(BodyIn(rec)) < MaxStdin
                  THEN T[k - 1] \o BodyIn(rec) ELSE T[k - 1]
      /\ BodyIn(rec) = <<>> => T[k] = T[k - 1]
    BY KeptLayout DEF rec
<1>6. /\ BodyIn(rec) \in Seq(Units)
      /\ rec.hdr.type # "STDIN" => BodyIn(rec) = <<>>
      /\ rec.hdr.type = "STDIN" => Len(BodyIn(rec)) = rec.hdr.len
    BY <1>3, BodyInIs
<1>7. /\ req.id = Load16(r.id) /\ req.keep = r.keep
      /\ req.uri = r.uri /\ req.session = r.session
      /\ req.body = T[k - 1]
  <2>1. k > 1
      BY <1>3
  <2> QED BY <1>3, <2>1 DEF Heard
<1>8. req \in [id : Nat, keep : BOOLEAN, uri : Uris \cup {Absent},
               session : Sessions \cup {Absent}, body : Seq(Units)]
    BY DEF BufferInv, Typed
<1>9. /\ req'.id = req.id /\ req'.keep = req.keep
      /\ req'.uri = req.uri /\ req'.session = req.session
      /\ req'.body = T[k]
  <2>1. CASE ParseStdin
    <3> DEFINE x == Content
    <3>1. saved.len = rec.hdr.len /\ x = BodyIn(rec) /\ Len(BodyIn(rec)) = saved.len
        BY <1>2, <1>6, <2>1 DEF ParseStdin
    <3>2. req' = IF Len(req.body) + saved.len < MaxStdin
                   THEN [req EXCEPT !.body = @ \o x] ELSE req
        BY <2>1 DEF ParseStdin
    <3> HIDE DEF x, T
    <3>3. T[k] = IF Len(req.body) + saved.len < MaxStdin THEN req.body \o x ELSE req.body
        BY <1>5, <1>7, <3>1
    <3>4. CASE Len(req.body) + saved.len < MaxStdin
      <4> DEFINE y == req.body \o x
      <4>1. req' = [req EXCEPT !.body = y]
          BY <3>2, <3>4
      <4>2. y = T[k]
          BY <3>3, <3>4
      <4> HIDE DEF y
      <4> QED BY <1>8, <4>1, <4>2
    <3>5. CASE ~(Len(req.body) + saved.len < MaxStdin)
        BY <1>7, <3>2, <3>3, <3>5
    <3> QED BY <3>4, <3>5
  <2>2. CASE ParseLast \/ ParseOther
    <3>1. req' = req
        BY <2>2 DEF ParseLast, ParseOther
    <3>2. BodyIn(rec) = <<>>
      <4>1. CASE ParseLast
        <5>1. Len(BodyIn(rec)) = 0
            BY <1>3, <1>4, <1>6, <4>1
        <5> QED BY <1>6, <5>1
      <4>2. CASE ParseOther
          BY <1>1, <1>2, <1>6, <4>2
      <4> QED BY <2>2, <4>1, <4>2
    <3>3. T[k] = T[k - 1]
        BY <1>5, <3>2
    <3> QED BY <1>7, <3>1, <3>3
  <2> QED BY <2>1, <2>2
<1>10. Heard(r, k + 1)'
  <2>1. k + 1 > 2 /\ k + 1 > 1 /\ k + 1 # 2 /\ (k + 1) - 1 = k
      BY <1>3
  <2> QED BY <1>7, <1>9, <2>1 DEF Heard
<1> QED BY <1>3, <1>4, <1>10

(* After a record the next one is due; the last leaves nothing behind.      *)
LEMMA PlaceRecords ==
    BufferInv /\ InPlace /\ (ParseBegin \/ ParseParams \/ ParseStdin \/ ParseOther \/ ParseLast)
      => InPlace'
<1> SUFFICES ASSUME BufferInv, InPlace, ~cut', ~spoiled',
                    ParseBegin \/ ParseParams \/ ParseStdin \/ ParseOther \/ ParseLast
             PROVE  Idle' /\ Parsing' /\ Answering'
    BY DEF InPlace, Undisturbed
<1> USE DEF serverVars
<1>1. PICK type : TakeRecord(type) /\ (ParseLast => type = "STDIN") /\ (~ParseLast => NextRecord)
    BY DEF ParseBegin, ParseParams, ParseStdin, ParseOther, ParseLast
<1>2. Idle /\ Parsing /\ Typed /\ state \in {"parse", "record"} /\ asked' = asked
  <2>1. ~spoiled
    <3>1. ParseLast => \E p \in Int : Watched(p)
      <4>1. pos + Size(saved) \in Int
          BY <1>1, TakeIs DEF BufferInv
      <4> QED BY <4>1 DEF ParseLast, SlideFrom
    <3>2. ~ParseLast => spoiled' = spoiled
        BY <1>1 DEF NextRecord
    <3> QED BY <3>1, <3>2 DEF Watched
  <2> QED BY <1>1, <2>1 DEF InPlace, Undisturbed, BufferInv, TakeRecord, InRecord
<1>3. PICK r \in Requests : asked = r
    BY <1>2 DEF Idle, Typed
<1>4. PICK k \in 1 .. Count(r) : ComesNext(r, k) /\ Heard(r, k)
    BY <1>2, <1>3 DEF Parsing
<1>5. asked' = r /\ r # NoRequest /\ Count(r) \in Nat /\ Count(r) > 3
  <2>1. Count(r) \in Nat /\ Count(r) > 3
      BY RecordsAre DEF Count
  <2> QED BY <1>2, <1>3, <2>1, Sizes
<1>6. Heard(r, k + 1)'
    BY <1>4, BeginHeard, ParamsHeard, BodyHeard
<1>7. CASE ~ParseLast
  <2>1. k < Count(r)
    <3>1. k # Count(r)
        BY <1>4, <1>5, <1>7, BeginHeard, ParamsHeard, BodyHeard
    <3> QED BY <1>5, <3>1
  <2>2. k + 1 \in 1 .. Count(r)
      BY <1>5, <2>1
  <2>3. ComesNext(r, k + 1)' /\ state' = "parse"
      BY <1>1, <1>4, <1>7, NextComes DEF NextRecord
  <2>4. Parsing'
    <3>1. \E l \in 1 .. Count(r) : ComesNext(r, l)' /\ Heard(r, l)'
        BY <1>6, <2>2, <2>3
    <3> QED BY <1>5, <3>1 DEF Parsing
  <2> QED BY <1>5, <2>3, <2>4 DEF Idle, Answering
<1>8. CASE ParseLast
  <2>1. k = Count(r) /\ state' = "reply"
      BY <1>4, <1>8, BodyHeard DEF ParseLast
  <2>2. saved = RecordsOf(r)[k].hdr /\ Remain(r, StartOf(r, k) + HeaderSize)
      BY <1>1, <1>4, TakenIs
  <2>3. PICK s \in Nat, h \in Nat, n \in Nat, e \in Nat :
               /\ s = StartOf(r, k) /\ h = HeaderSize /\ n = Size(saved)
               /\ e = Len(BytesOf(r)) /\ e = s + h + n
      BY <2>1, <2>2, Bounds, SMTT(30)
  <2>4. Len(rx) \in Nat /\ pos \in 0 .. Len(rx) /\ Len(stream) \in Nat /\ stream \in Seq(Units)
      BY <1>2 DEF Typed
  <2>5. Len(rx) = pos + n /\ Len(stream) = 0
    <3>1. s + h + (Len(rx) - pos) + Len(stream) <= e
        BY <2>2, <2>3 DEF Remain, Buffered
    <3>2. Len(rx) - pos >= n
        BY <1>1, <2>3 DEF TakeRecord
    <3> QED BY <2>3, <2>4, <3>1, <3>2, SMTT(30)
  <2>6. rx' = <<>>
    <3>1. SlideFrom(pos + n) /\ pos + n \in 0 .. Len(rx)
        BY <1>8, <2>3, <2>4, <2>5 DEF ParseLast
    <3>2. rx' \in Seq(Units) /\ Len(rx') = Len(rx) - (pos + n)
        BY <1>2, <3>1, SlideTyped
    <3>3. Len(rx') = 0
        BY <2>3, <2>4, <2>5, <3>2
    <3> QED BY <3>2, <3>3
  <2>7. stream' = <<>>
      BY <1>1, <2>4, <2>5 DEF TakeRecord
  <2>8. Answering'
      BY <1>5, <1>6, <2>1, <2>6, <2>7 DEF Answering
  <2> QED BY <1>5, <2>1, <2>8 DEF Idle, Parsing
<1> QED BY <1>7, <1>8

(* Every step keeps the place.                                              *)
LEMMA PlaceStep ==
    BufferInv /\ Clean /\ InPlace /\ [Next]_vars => InPlace'
<1> SUFFICES ASSUME BufferInv, Clean, InPlace, [Next]_vars PROVE InPlace'
    OBVIOUS
<1>1. CASE UNCHANGED vars
  <2>1. Idle => Idle'
      BY <1>1 DEF vars, serverVars, Idle
  <2>2. Parsing => Parsing'
      BY <1>1 DEF vars, serverVars, Parsing, ComesNext, Remain, Buffered, Heard
  <2>3. Answering => Answering'
      BY <1>1 DEF vars, serverVars, Answering, Heard
  <2>4. cut' = cut /\ spoiled' = spoiled
      BY <1>1 DEF vars, serverVars
  <2> QED BY <2>1, <2>2, <2>3, <2>4 DEF InPlace, Undisturbed
<1>2. CASE Next
  <2>1. CASE Connect \/ (\E r \in Requests : Ask(r)) \/ HangUp
      BY <2>1, PlaceServer
  <2>2. CASE ReadData \/ ReadEnds \/ Reply \/ WriteEnds \/ WriteFails
      BY <2>2, PlaceReads
  <2>3. CASE ParseEnds \/ HeaderIncomplete \/ PayloadIncomplete
      BY <2>3, PlaceWaits
  <2>4. CASE ParseHeader
      BY <2>4, PlaceHeader
  <2>5. CASE ParseBegin \/ ParseParams \/ ParseStdin \/ ParseOther \/ ParseLast
      BY <2>5, PlaceRecords
  <2> QED BY <1>2, <2>1, <2>2, <2>3, <2>4, <2>5 DEF Next
<1> QED BY <1>1, <1>2

(* A connection that ends inside a record is noticed.                       *)
LEMMA CleanStep == BufferInv /\ Clean /\ [Next]_vars => Clean'
<1> SUFFICES ASSUME BufferInv, Clean, [Next]_vars, ~cut', state' = "free"
             PROVE  saved' = NoHeader
    BY DEF Clean
<1> USE DEF serverVars
<1>1. Waiting
    BY DEF BufferInv
<1>2. CASE UNCHANGED vars
    BY <1>2 DEF vars, Clean
<1>3. CASE Connect \/ (\E r \in Requests : Ask(r)) \/ HangUp
    BY <1>3 DEF Connect, Ask, HangUp, Clean
<1>4. CASE ReadData \/ ReadEnds \/ Reply \/ WriteEnds \/ WriteFails
    BY <1>1, <1>4 DEF ReadData, ReadEnds, Reply, WriteEnds, WriteFails, Waiting
<1>5. CASE ParseEnds \/ HeaderIncomplete \/ PayloadIncomplete \/ ParseHeader
    BY <1>5 DEF ParseEnds, HeaderIncomplete, PayloadIncomplete, WaitForMore, ParseHeader
<1>6. CASE ParseBegin \/ ParseParams \/ ParseStdin \/ ParseOther \/ ParseLast
  <2>1. saved' = NoHeader
      BY <1>6 DEF ParseBegin, ParseParams, ParseStdin, ParseOther, ParseLast, TakeRecord
  <2> QED BY <2>1
<1> QED BY <1>2, <1>3, <1>4, <1>5, <1>6 DEF Next

(* The place is kept for ever.                                              *)
LEMMA PlaceHolds == Spec => []InPlace
<1>1. Init => InPlace /\ Clean
  <2>1. Init => Clean
      BY DEF Init, Clean
  <2> QED BY <2>1, PlaceAtFirst
<1>2. BufferInv /\ Clean /\ InPlace /\ [Next]_vars => InPlace' /\ Clean'
    BY PlaceStep, CleanStep
<1> QED BY <1>1, <1>2, BufferHolds, PTL DEF Spec

(* Emptying the buffer of a kept connection throws nothing away, of a peer  *)
(* that asks after its answer (cg_app.c:331-343).                           *)
THEOREM NothingIsLost == Spec => []NothingDiscarded
<1>1. InPlace => NothingDiscarded
    BY DEF InPlace, Answering, NothingDiscarded
<1> QED BY <1>1, PlaceHolds, PTL

(* A request that has been read completely is answered: the parser asks for *)
(* more only while the web server owes it something (cg_fastcgi.c:130-205). *)
THEOREM CompleteIsAnswered == Spec => []CompleteRequestIsAnswered
<1>1. BufferInv /\ InPlace => CompleteRequestIsAnswered
  <2> SUFFICES ASSUME BufferInv, InPlace, asked # NoRequest, stream = <<>>, ~hungUp, Undisturbed,
                      state = "read"
               PROVE  FALSE
      BY DEF CompleteRequestIsAnswered, AllRead
  <2>1. Typed /\ Waiting /\ Parsing
      BY DEF BufferInv, InPlace
  <2>2. PICK r \in Requests : asked = r
      BY <2>1 DEF Typed
  <2>3. PICK k \in 1 .. Count(r) : ComesNext(r, k)
      BY <2>1, <2>2 DEF Parsing
  <2>4. PICK s \in Nat, h \in Nat, n \in Nat, e \in Nat, m \in Nat :
               /\ s = StartOf(r, k) /\ h = HeaderSize /\ n = Size(RecordsOf(r)[k].hdr)
               /\ e = Len(BytesOf(r)) /\ s + h + n <= e /\ m = Len(rx)
    <3>1. /\ StartOf(r, k) \in Nat /\ HeaderSize \in Nat /\ Size(RecordsOf(r)[k].hdr) \in Nat
          /\ Len(BytesOf(r)) \in Nat /\ Len(rx) \in Nat
        BY <2>1, Bounds DEF Typed
    <3>2. StartOf(r, k) + HeaderSize + Size(RecordsOf(r)[k].hdr) <= Len(BytesOf(r))
        BY Bounds
    <3> QED BY <3>1, <3>2
  <2>5. Buffered = m /\ Len(stream) = 0
      BY <2>1, <2>4 DEF Waiting, Buffered
  <2>6. CASE saved = NoHeader
    <3>1. Remain(r, s)
        BY <2>3, <2>4, <2>6, Bounds DEF ComesNext
    <3>2. s + m + 0 = e
        BY <2>4, <2>5, <3>1 DEF Remain
    <3>3. m < h
        BY <2>1, <2>4, <2>6 DEF Waiting
    <3> QED BY <2>4, <3>2, <3>3
  <2>7. CASE saved # NoHeader
    <3>1. saved = RecordsOf(r)[k].hdr /\ Remain(r, s + h)
        BY <2>3, <2>4, <2>7 DEF ComesNext
    <3>2. s + h + m + 0 = e
        BY <2>4, <2>5, <3>1 DEF Remain
    <3>3. m < n
        BY <2>1, <2>4, <2>7, <3>1 DEF Waiting
    <3> QED BY <2>4, <3>2, <3>3
  <2> QED BY <2>6, <2>7
<1> QED BY <1>1, PlaceHolds, BufferHolds, PTL

(* The router is handed the request that was asked, and of its body what    *)
(* fits into the array, however the reads cut it and whatever earlier       *)
(* requests left in the slot (cg_fastcgi.c:210-249).                        *)
THEOREM DeliversWhatWasAsked == Spec => []DeliveredIsAsked
<1>1. BufferInv /\ InPlace => DeliveredIsAsked
  <2> SUFFICES ASSUME BufferInv, InPlace, state = "reply", Undisturbed
               PROVE  /\ req.id = Load16(asked.id) /\ req.keep = asked.keep
                      /\ req.uri = asked.uri /\ req.session = asked.session
                      /\ req.body = KeptBy(asked)[Count(asked)]
      BY DEF DeliveredIsAsked, Count
  <2>1. Answering /\ asked # NoRequest
      BY DEF InPlace, Answering
  <2>2. PICK r \in Requests : asked = r
      BY <2>1 DEF BufferInv, Typed
  <2>3. Heard(r, Count(r) + 1)
      BY <2>1, <2>2 DEF Answering
  <2>4. Count(r) \in Nat /\ Count(r) > 3
      BY RecordsAre DEF Count
  <2>5. (Count(r) + 1) - 1 = Count(r) /\ Count(r) + 1 > 2 /\ Count(r) + 1 > 1
      BY <2>4
  <2> QED BY <2>2, <2>3, <2>5 DEF Heard
<1> QED BY <1>1, PlaceHolds, BufferHolds, PTL
=============================================================================
