------------------------------ MODULE MCLmsTree ------------------------------
EXTENDS LmsTree

MCHeights == {5, 10, 15, 20, 25}
\* Below everything; the cuts of height 5 at 2, 3 and 5 levels; the sizes the
\* firmware and the tests configure; above everything.
MCTargets == {0, 45, 48, 69, 4096, 131072, 2^28}
MCLeaves == {0, 3, 13, 16, 31}
MCBuilt == {5} \X {45, 48, 69}
\* No failure; the first, second, fourth or sixth allocation fails; leaf 13,
\* an inner node above it or one next to the root fails.
MCFailures == {<<0, 99>>, <<0, 0>>, <<0, 1>>, <<0, 3>>, <<0, 5>>,
               <<45, 99>>, <<11, 99>>, <<2, 99>>}
MCWidths == {1, 2, 4, 8}

Bytes(b) == [k \in 0 .. N - 1 |-> b]
MCDigests == {Bytes(0), [Bytes(0) EXCEPT ![N - 1] = 1], Bytes(255),
              [Bytes(255) EXCEPT ![0] = 127], Bytes(90)}
MCCachedOts == {<<4, Bytes(90)>>}
=============================================================================
