-------------------------------- MODULE Rand --------------------------------
(***************************************************************************)
(* xv6_rand() of kernel/rand.c: Marsaglia's xorshift on the 32-bit word   *)
(* rand_seed.  The shifts are on an unsigned int, so a left shift drops    *)
(* the bits above bit 31.  TLC's integers are signed 32-bit values, so a   *)
(* word is a pair <<hi, lo>> of 16-bit halves, each kept modulo 2^16.      *)
(*                                                                         *)
(* RefXorShift32 is an independent reference: the word as a vector of 32   *)
(* bits, shifts as moves of bit positions and xor per bit, as the          *)
(* algorithm is stated in the paper.                                       *)
(*                                                                         *)
(* rand.h, which defines XV6_RAND_MAX, is not part of the repository; it   *)
(* is taken to be INT_MAX = 2^31 - 1, so that the int xv6_rand() returns   *)
(* is never negative.                                                      *)
(***************************************************************************)
EXTENDS Naturals, Bitwise, Functions

Half == 2^16
Words == (0..(Half - 1)) \X (0..(Half - 1))
RandMax == 2147483647     \* 2^31 - 1, which TLC cannot compute as a power

(* x << k for 0 < k < 16: the bits shifted out of lo enter hi, and those   *)
(* shifted out of hi are lost.                                             *)
Shl(w, k) == << ((w[1] * 2^k) % Half) + (w[2] \div 2^(16 - k)), (w[2] * 2^k) % Half >>

(* x >> k for 16 <= k < 32.                                                *)
Shr(w, k) == << 0, w[1] \div 2^(k - 16) >>

XorW(v, w) == << v[1] ^^ w[1], v[2] ^^ w[2] >>

(* Mutant: the middle shift off by one, x ^= x >> 16.                      *)
XorShift32Shift16(w) ==
    LET a == XorW(w, Shl(w, 13))
        b == XorW(a, Shr(a, 16))
    IN XorW(b, Shl(b, 5))

(* x ^= x << 13; x ^= x >> 17; x ^= x << 5.                                *)
XorShift32(w) ==
    LET a == XorW(w, Shl(w, 13))
        b == XorW(a, Shr(a, 17))
    IN XorW(b, Shl(b, 5))

(* x % XV6_RAND_MAX with x = hi * 2^16 + lo, where 2^31 = 1 mod 2^31 - 1.  *)
ModRandMax(w) ==
    IF w[1] < 2^15 THEN (w[1] * Half + w[2]) % RandMax
    ELSE LET v == (w[1] - 2^15) * Half + w[2]
         IN IF v = RandMax THEN 1 ELSE IF v = RandMax - 1 THEN 0 ELSE v + 1

(* xv6_rand(): the new seed, and the value it returns.                     *)
XV6Rand(seed) == ModRandMax(XorShift32(seed))

(* The seed after n calls of xv6_rand() from s.                            *)
RECURSIVE SeedAfter(_, _)
SeedAfter(s, n) == IF n = 0 THEN s ELSE SeedAfter(XorShift32(s), n - 1)

-----------------------------------------------------------------------------
(* The reference: 32-bit vectors.                                          *)
BitPos == 0..31
Bits(w) == [i \in BitPos |-> IF i < 16 THEN (w[2] \div 2^i) % 2
                                       ELSE (w[1] \div 2^(i - 16)) % 2]
HalfValue(b, from) == SumFunction([i \in 0..15 |-> b[from + i] * 2^i])
ShlBits(b, k) == [i \in BitPos |-> IF i >= k THEN b[i - k] ELSE 0]
ShrBits(b, k) == [i \in BitPos |-> IF i + k <= 31 THEN b[i + k] ELSE 0]
XorBits(b, c) == [i \in BitPos |-> (b[i] + c[i]) % 2]

RefXorShift32(w) ==
    LET a == XorBits(Bits(w), ShlBits(Bits(w), 13))
        b == XorBits(a, ShrBits(a, 17))
        c == XorBits(b, ShlBits(b, 5))
    IN << HalfValue(c, 16), HalfValue(c, 0) >>
=============================================================================
