------------------------------- MODULE Memory -------------------------------
(***************************************************************************)
(* The routines of src/src/arch/x86_64/cg_util.asm and                     *)
(* src/src/util/cg_util.c that work on memory a vector at a time.          *)
(*                                                                         *)
(* A memory is a function from addresses to bytes.  A load of a vector     *)
(* happens before the store that follows it.                               *)
(***************************************************************************)
EXTENDS Integers, FiniteSets, FiniteSetsExt

CONSTANT Block    \* bytes of a vector, 32

ASSUME MemoryAssumption == Block \in Nat \ {0}

Span(a, n) == a .. (a + n - 1)

(* The byte loop: each byte is stored before the next is loaded.            *)
Bytes(m, dst, src, n) ==
    LET after[i \in 0 .. n] ==
          IF i = 0 THEN m
          ELSE [after[i - 1] EXCEPT ![dst + i - 1] = after[i - 1][src + i - 1]]
    IN  after[n]

Vector(m, dst, src) ==
    [a \in DOMAIN m |-> IF a \in Span(dst, Block) THEN m[a - dst + src] ELSE m[a]]

(* Up to the first aligned address of the destination bytes are copied, then*)
(* whole vectors; what is left over is the end of one more vector, taken    *)
(* back over bytes that are copied already.                                 *)
Prologue(dst)    == (-dst) % Block
Leftover(dst, n) == (n - Prologue(dst)) % Block

Vectors(m, dst, src, n) ==
    LET p == Prologue(dst)
        after[k \in 0 .. ((n - p) \div Block)] ==
          IF k = 0 THEN Bytes(m, dst, src, p)
          ELSE Vector(after[k - 1], dst + p + (k - 1) * Block, src + p + (k - 1) * Block)
    IN  after[(n - p) \div Block]

(* Slip: the tail is not taken back.                                        *)
MemcpySlip(m, dst, src, n) ==
    IF n < Block THEN Bytes(m, dst, src, n) ELSE Vectors(m, dst, src, n)

Memcpy(m, dst, src, n) ==
    IF n < Block THEN Bytes(m, dst, src, n)
    ELSE LET done == Vectors(m, dst, src, n) IN
         IF Leftover(dst, n) = 0 THEN done
         ELSE Vector(done, dst + n - Block, src + n - Block)

(* A copy to a lower address is right if it is shorter than a vector, goes  *)
(* over no distance, has no tail, or goes so far that the tail, taken back, *)
(* reads nothing that was stored before.                                    *)
Safe(dst, src, n) ==
    \/ n < Block \/ src = dst \/ Leftover(dst, n) = 0
    \/ (src - dst) + Leftover(dst, n) >= Block

(* cg_memslide: the n bytes at s1 lose those before s2.                     *)
Memslide(m, s1, s2, n) ==
    [mem |-> Memcpy(m, s1, s2, s1 + n - s2), end |-> s1 + (s1 + n - s2)]

(* cg_memset_avx2: the same walk, with one vector to store.                 *)
Fill(m, dst, v, n) == [a \in DOMAIN m |-> IF a \in Span(dst, n) THEN v ELSE m[a]]

Memset(m, dst, v, n) ==
    IF n < Block THEN Fill(m, dst, v, n)
    ELSE LET p    == Prologue(dst)
             k    == (n - p) \div Block
             done == Fill(Fill(m, dst, v, p), dst + p, v, k * Block)
         IN  IF Leftover(dst, n) = 0 THEN done ELSE Fill(done, dst + n - Block, v, Block)

-----------------------------------------------------------------------------
(* cg_strlen_avx2 looks at aligned vectors; of the first it drops what lies *)
(* before the string.                                                       *)
Zeros(m, a) == {i \in 0 .. (Block - 1) : m[a + i] = 0}

Strlen(m, s) ==
    LET base  == s - (s % Block)
        first == {i \in Zeros(m, base) : i >= s % Block}
        k     == CHOOSE j \in 1 .. Cardinality(DOMAIN m) :
                   /\ Zeros(m, base + j * Block) # {}
                   /\ \A l \in 1 .. (j - 1) : Zeros(m, base + l * Block) = {}
    IN  IF first # {} THEN Min(first) - (s % Block)
        ELSE base + k * Block + Min(Zeros(m, base + k * Block)) - s

(* cg_memcmp_avx2: vectors while there are n of them, then bytes; the first *)
(* difference is the result.                                                *)
Differ(m, p, q, n) == {i \in 0 .. (n - 1) : m[p + i] # m[q + i]}

Memcmp(m, p, q, n) ==
    LET whole == n - (n % Block)
        D     == Differ(m, p, q, whole)
        T     == Differ(m, p + whole, q + whole, n % Block)
    IN  IF D # {} THEN m[p + Min(D)] - m[q + Min(D)]
        ELSE IF T # {} THEN m[p + whole + Min(T)] - m[q + whole + Min(T)]
        ELSE 0
=============================================================================
