---------------------------- MODULE OneTimeSigner ----------------------------
(***************************************************************************)
(* What a stateful hash-based signer promises: it releases signatures of   *)
(* numbered leaves, and under one key the leaf numbers only go up, so no   *)
(* one-time key ever signs twice.  Leaves may be skipped.                  *)
(***************************************************************************)
EXTENDS Naturals, Sequences

CONSTANTS
  Keys,      \* the keys ever generated
  Leaves     \* the leaf numbers a counter can hold

VARIABLE log        \* the one-time keys released so far, in order

Unused(k, leaf) ==
  \A i \in DOMAIN log : log[i].key = k => log[i].q < leaf

Init == log = << >>

Release ==
  \E k \in Keys, leaf \in Leaves :
    /\ Unused(k, leaf)
    /\ log' = Append(log, [key |-> k, q |-> leaf])

Spec == Init /\ [][Release]_log
===============================================================================
