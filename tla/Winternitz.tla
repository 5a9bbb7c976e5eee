------------------------------ MODULE Winternitz ------------------------------
(***************************************************************************)
(* The Winternitz arithmetic of src/lms_params.c and src/lm_ots.c, with    *)
(* the real sizes: a 32-byte digest, a 16-bit checksum, chains of 2^w      *)
(* values.                                                                 *)
(*                                                                         *)
(* Abstraction.  The value of a chain is its position on it, 0 for the     *)
(* private value and 2^w - 1 for the end; Junk stands for every value that *)
(* is on no position of the chain.                                         *)
(***************************************************************************)
EXTENDS Integers

N == 32
Byte == 0 .. 255
Digest == [0 .. N - 1 -> Byte]
Junk == -1

LsZero(w) == 0

\* lms_get_lmots_param: the checksum's left shift and the number of chains.
Ls(w) == CASE w = 1 -> 7 [] w = 2 -> 6 [] w = 4 -> 4 [] w = 8 -> 0
P(w) == CASE w = 1 -> 265 [] w = 2 -> 133 [] w = 4 -> 67 [] w = 8 -> 34

MaxDigit(w) == 2^w - 1
Chain(w) == 0 .. P(w) - 1

\* lms_lmots_coef: digits are taken from the high end of each byte.
Coef(S, i, w) ==
  LET perByte == 8 \div w
      shift == w * ((perByte - 1) - (i % perByte))
  IN  (S[(i * w) \div 8] \div 2^shift) % 2^w

\* The sum of f over lo .. hi - 1, by halves.
RECURSIVE Sum(_, _, _)
Sum(f, lo, hi) ==
  IF hi = lo + 1 THEN f[lo]
  ELSE LET mid == (lo + hi) \div 2 IN Sum(f, lo, mid) + Sum(f, mid, hi)

\* lms_lmots_checksum.
Checksum(D, w) ==
  LET digits == (8 * N) \div w
  IN  Sum([i \in 0 .. digits - 1 |-> MaxDigit(w) - Coef(D, i, w)], 0, digits) * 2^Ls(w)

\* The digest with its checksum behind it; lms_store_u16 keeps 16 bits.
WithChecksum(D, w) ==
  LET c == Checksum(D, w)
  IN  [k \in 0 .. N + 1 |-> IF k < N THEN D[k]
                            ELSE IF k = N THEN (c \div 256) % 256
                            ELSE c % 256]

Coefficients(D, w) ==
  LET Q == WithChecksum(D, w) IN [i \in Chain(w) |-> Coef(Q, i, w)]

\* lmots_chain_compute, from position start for a number of steps.
ChainCompute(start, steps, value) ==
  IF steps = 0 THEN value
  ELSE IF value = start /\ start + steps <= 255 THEN start + steps ELSE Junk

\* lmots_sign: every chain as far as its coefficient says.
LmotsSign(D, w) ==
  LET a == Coefficients(D, w) IN [i \in Chain(w) |-> ChainCompute(0, a[i], 0)]

\* lmots_public_from_signature: the rest of every chain.
PublicFromSignature(D, w, y) ==
  LET a == Coefficients(D, w)
  IN  [i \in Chain(w) |-> ChainCompute(a[i], MaxDigit(w) - a[i], y[i])]

\* lmots_public_from_private: every chain to its end.
PublicFromPrivate(w) == [i \in Chain(w) |-> ChainCompute(0, MaxDigit(w), 0)]
=============================================================================
