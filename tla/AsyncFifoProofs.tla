--------------------------- MODULE AsyncFifoProofs ---------------------------
(***************************************************************************)
(* The dual-clock FIFO is correct for every depth and any two clocks.      *)
(*                                                                         *)
(* The invariant orders the six pointers on the circle of 2 * DEPTH        *)
(* values: copies of the read pointer, the read pointer, copies of the     *)
(* write pointer, the write pointer; and the whole way is at most DEPTH.   *)
(* What is said of the queue follows from that.                            *)
(***************************************************************************)
EXTENDS AsyncFifo, TLAPS

Plus(p, i) == IF p + i < 2 * DEPTH THEN p + i ELSE p + i - 2 * DEPTH

IsCode(g) == gray2bin[g] \in Ptr /\ Gray[gray2bin[g]] = g

\* The queue q is what memory m holds from pointer p up to pointer e.
Holds(q, m, p, e) ==
  /\ Len(q) = Minus(e, p)
  /\ \A i \in 1 .. Len(q) : q[i] = m[Slot(Plus(p, i - 1))]

\* The way round the pointers, from the oldest copy of the read pointer to the
\* write pointer.
Way(r2, r1, rd, w2, w1, wr) ==
  Minus(r1, r2) + Minus(rd, r1) + Minus(w2, rd) + Minus(w1, w2) + Minus(wr, w1)

\* Copies lag, and nobody is more than DEPTH ahead of the oldest copy.
Lags ==
  Way(gray2bin[rd_g_sync2], gray2bin[rd_g_sync1], rd_ptr_b,
      gray2bin[wr_g_sync2], gray2bin[wr_g_sync1], wr_ptr_b) <= DEPTH

Types ==
  /\ mem \in [0 .. DEPTH - 1 -> Data]
  /\ wr_ptr_b \in Ptr /\ rd_ptr_b \in Ptr
  /\ IsCode(wr_g_sync1) /\ IsCode(wr_g_sync2)
  /\ IsCode(rd_g_sync1) /\ IsCode(rd_g_sync2)
  /\ queue \in Seq(Data)

FifoInv == Types /\ Lags /\ Holds(queue, mem, rd_ptr_b, wr_ptr_b)

-------------------------------------------------------------------------------
(* Pointers on the circle.                                                 *)

\* DEPTH is positive.
LEMMA DepthType == DEPTH \in Nat /\ DEPTH > 0
  BY FifoAssumption

\* Distances and successors stay on the circle.
LEMMA MinusType ==
  ASSUME NEW p \in Ptr, NEW s \in Ptr
  PROVE  /\ Minus(p, s) \in Ptr
         /\ Minus(p, s) = 0 <=> p = s
         /\ Succ(p) \in Ptr
         /\ Slot(p) \in 0 .. DEPTH - 1
  BY DepthType DEF Ptr, Minus, Succ, Slot

\* Moving the front of a distance on by one.
LEMMA MinusFront ==
  ASSUME NEW p \in Ptr, NEW s \in Ptr, Minus(p, s) < 2 * DEPTH - 1
  PROVE  Minus(Succ(p), s) = Minus(p, s) + 1
  BY DepthType DEF Ptr, Minus, Succ

\* Moving its back on by one.
LEMMA MinusBack ==
  ASSUME NEW p \in Ptr, NEW s \in Ptr, p # s
  PROVE  Minus(p, Succ(s)) = Minus(p, s) - 1
  BY DepthType DEF Ptr, Minus, Succ

\* Short distances add up.
LEMMA MinusAdds ==
  ASSUME NEW a \in Ptr, NEW b \in Ptr, NEW c \in Ptr,
         Minus(a, b) + Minus(b, c) <= DEPTH
  PROVE  Minus(a, c) = Minus(a, b) + Minus(b, c)
  BY DepthType DEF Ptr, Minus

\* Distances are natural numbers.
LEMMA MinusNat ==
  ASSUME NEW p \in Ptr, NEW s \in Ptr
  PROVE  Minus(p, s) \in Nat
  BY DepthType DEF Ptr, Minus

\* A short way is the sum of its parts.
LEMMA WayAdds ==
  ASSUME NEW r2 \in Ptr, NEW r1 \in Ptr, NEW rd \in Ptr,
         NEW w2 \in Ptr, NEW w1 \in Ptr, NEW wr \in Ptr,
         Way(r2, r1, rd, w2, w1, wr) <= DEPTH
  PROVE  /\ Minus(w1, rd) = Minus(w1, w2) + Minus(w2, rd)
         /\ Minus(wr, w2) = Minus(wr, w1) + Minus(w1, w2)
         /\ Minus(rd, r2) = Minus(rd, r1) + Minus(r1, r2)
         /\ Minus(wr, rd) = Minus(wr, w2) + Minus(w2, rd)
         /\ Minus(wr, r2) = Way(r2, r1, rd, w2, w1, wr)
<1>1. /\ Minus(r1, r2) \in Nat /\ Minus(rd, r1) \in Nat /\ Minus(w2, rd) \in Nat
      /\ Minus(w1, w2) \in Nat /\ Minus(wr, w1) \in Nat
  BY MinusNat
<1>2. Minus(w1, rd) = Minus(w1, w2) + Minus(w2, rd)
  BY <1>1, MinusAdds, DepthType DEF Way
<1>3. Minus(wr, w2) = Minus(wr, w1) + Minus(w1, w2)
  BY <1>1, MinusAdds, DepthType DEF Way
<1>4. Minus(rd, r2) = Minus(rd, r1) + Minus(r1, r2)
  BY <1>1, MinusAdds, DepthType DEF Way
<1>5. Minus(wr, rd) = Minus(wr, w2) + Minus(w2, rd)
  BY <1>1, <1>3, MinusAdds, DepthType DEF Way
<1>6. Minus(wr, r2) = Minus(wr, rd) + Minus(rd, r2)
  BY <1>1, <1>3, <1>4, <1>5, MinusAdds, DepthType DEF Way
<1> QED
  BY <1>1, <1>2, <1>3, <1>4, <1>5, <1>6 DEF Way

\* An edge of the write clock renews the copies of the read pointer.
LEMMA WayWriteClock ==
  ASSUME NEW r2 \in Ptr, NEW r1 \in Ptr, NEW rd \in Ptr,
         NEW w2 \in Ptr, NEW w1 \in Ptr, NEW wr \in Ptr
  PROVE  /\ Way(r1, rd, rd, w2, w1, wr) <= Way(r2, r1, rd, w2, w1, wr)
         /\ Way(r2, r1, rd, w2, w1, wr) \in Nat
<1>1. /\ Minus(r1, r2) \in Nat /\ Minus(rd, r1) \in Nat /\ Minus(w2, rd) \in Nat
      /\ Minus(w1, w2) \in Nat /\ Minus(wr, w1) \in Nat
  BY MinusNat
<1>2. Minus(rd, rd) = 0
  BY MinusType
<1> QED
  BY <1>1, <1>2 DEF Way

\* An edge of the read clock renews the copies of the write pointer.
LEMMA WayReadClock ==
  ASSUME NEW r2 \in Ptr, NEW r1 \in Ptr, NEW rd \in Ptr,
         NEW w2 \in Ptr, NEW w1 \in Ptr, NEW wr \in Ptr,
         Way(r2, r1, rd, w2, w1, wr) <= DEPTH
  PROVE  /\ Way(r2, r1, rd, w1, wr, wr) = Way(r2, r1, rd, w2, w1, wr)
         /\ w2 # rd => w1 # rd
<1>1. /\ Minus(r1, r2) \in Nat /\ Minus(rd, r1) \in Nat /\ Minus(w2, rd) \in Nat
      /\ Minus(w1, w2) \in Nat /\ Minus(wr, w1) \in Nat
  BY MinusNat
<1>2. Minus(wr, wr) = 0
  BY MinusType
<1>3. Minus(w1, rd) = Minus(w1, w2) + Minus(w2, rd)
  BY WayAdds
<1>4. w2 # rd => Minus(w2, rd) # 0
  BY MinusType
<1>5. w1 = rd => Minus(w1, rd) = 0
  BY MinusType
<1> QED
  BY <1>1, <1>2, <1>3, <1>4, <1>5 DEF Way

\* A read moves the read pointer towards the copy of the write pointer.
LEMMA WayGet ==
  ASSUME NEW r2 \in Ptr, NEW r1 \in Ptr, NEW rd \in Ptr,
         NEW w2 \in Ptr, NEW w1 \in Ptr, NEW wr \in Ptr,
         Way(r2, r1, rd, w2, w1, wr) <= DEPTH, w2 # rd
  PROVE  Way(r2, r1, Succ(rd), w2, w1, wr) = Way(r2, r1, rd, w2, w1, wr)
<1>1. /\ Minus(r1, r2) \in Nat /\ Minus(rd, r1) \in Nat /\ Minus(w2, rd) \in Nat
      /\ Minus(w1, w2) \in Nat /\ Minus(wr, w1) \in Nat
  BY MinusNat
<1>2. Minus(w2, rd) # 0
  BY MinusType
<1>3. Minus(w2, Succ(rd)) = Minus(w2, rd) - 1
  BY MinusBack
<1>4. Minus(Succ(rd), r1) = Minus(rd, r1) + 1
  BY <1>1, <1>2, MinusFront, DepthType DEF Way
<1> QED
  BY <1>1, <1>3, <1>4 DEF Way

\* A write makes the way longer by one.
LEMMA WayPut ==
  ASSUME NEW r2 \in Ptr, NEW r1 \in Ptr, NEW rd \in Ptr,
         NEW w2 \in Ptr, NEW w1 \in Ptr, NEW wr \in Ptr,
         Way(r2, r1, rd, w2, w1, wr) < DEPTH
  PROVE  Way(r2, r1, rd, w2, w1, Succ(wr)) = Way(r2, r1, rd, w2, w1, wr) + 1
<1>1. /\ Minus(r1, r2) \in Nat /\ Minus(rd, r1) \in Nat /\ Minus(w2, rd) \in Nat
      /\ Minus(w1, w2) \in Nat /\ Minus(wr, w1) \in Nat
  BY MinusNat
<1>2. Minus(Succ(wr), w1) = Minus(wr, w1) + 1
  BY <1>1, MinusFront, DepthType DEF Way
<1> QED
  BY <1>1, <1>2 DEF Way

\* Newer copies are nearer to the other side's pointer.
LEMMA WayBack ==
  ASSUME NEW r2 \in Ptr, NEW r1 \in Ptr, NEW rd \in Ptr,
         NEW w2 \in Ptr, NEW w1 \in Ptr, NEW wr \in Ptr,
         Way(r2, r1, rd, w2, w1, wr) <= DEPTH
  PROVE  /\ Minus(wr, r1) <= Minus(wr, r2) /\ Minus(wr, r2) \in Nat
         /\ Minus(w2, rd) <= Minus(w1, rd)
         /\ Minus(w1, rd) \in Nat /\ Minus(w2, rd) \in Nat
<1>1. /\ Minus(r1, r2) \in Nat /\ Minus(rd, r1) \in Nat /\ Minus(w2, rd) \in Nat
      /\ Minus(w1, w2) \in Nat /\ Minus(wr, w1) \in Nat /\ Minus(wr, rd) \in Nat
      /\ Minus(wr, r2) \in Nat /\ Minus(w1, rd) \in Nat
  BY MinusNat
<1>2. /\ Minus(w1, rd) = Minus(w1, w2) + Minus(w2, rd)
      /\ Minus(wr, w2) = Minus(wr, w1) + Minus(w1, w2)
      /\ Minus(wr, rd) = Minus(wr, w2) + Minus(w2, rd)
      /\ Minus(wr, r2) = Way(r2, r1, rd, w2, w1, wr)
  BY WayAdds
<1>3. Minus(wr, rd) + Minus(rd, r1) <= DEPTH
  BY <1>1, <1>2, DepthType DEF Way
<1>4. Minus(wr, r1) = Minus(wr, rd) + Minus(rd, r1)
  BY <1>3, MinusAdds
<1> QED
  BY <1>1, <1>2, <1>4 DEF Way

\* gray2bin inverts the code.
LEMMA CodeOf ==
  ASSUME NEW p \in Ptr
  PROVE  IsCode(Gray[p]) /\ gray2bin[Gray[p]] = p
  BY GrayAssumption DEF GrayCodes, IsCode

\* The test of full finds the pointers one turn apart.
LEMMA FullTest ==
  ASSUME NEW p \in Ptr, NEW g, IsCode(g)
  PROVE  Gray[p] = TurnedOnce(g) <=> Minus(p, gray2bin[g]) = DEPTH
<1> DEFINE s == gray2bin[g]
           t == IF s < DEPTH THEN s + DEPTH ELSE s - DEPTH
<1>1. s \in Ptr /\ g = Gray[s]
  BY DEF IsCode
<1>2. t \in Ptr
  BY <1>1, DepthType DEF Ptr
<1>3. TurnedOnce(g) = Gray[t]
  BY <1>1, GrayAssumption DEF GrayCodes
<1>4. Gray[p] = Gray[t] <=> p = t
  BY <1>2, CodeOf
<1>5. p = t <=> Minus(p, s) = DEPTH
  BY <1>1, DepthType DEF Ptr, Minus
<1> QED
  BY <1>3, <1>4, <1>5

\* The test of empty finds equal pointers.
LEMMA EmptyTest ==
  ASSUME NEW p \in Ptr, NEW g, IsCode(g)
  PROVE  Gray[p] = g <=> Minus(gray2bin[g], p) = 0
<1>1. gray2bin[g] \in Ptr /\ Gray[gray2bin[g]] = g
  BY DEF IsCode
<1>2. Gray[p] = g <=> p = gray2bin[g]
  BY <1>1, CodeOf
<1> QED
  BY <1>1, <1>2, MinusType

-------------------------------------------------------------------------------
(* The memory between two pointers.                                        *)

\* Reading the head.
LEMMA HoldsTail ==
  ASSUME NEW q \in Seq(Data), NEW m, NEW p \in Ptr, NEW e \in Ptr,
         Holds(q, m, p, e), p # e, Minus(e, p) <= DEPTH
  PROVE  /\ Tail(q) \in Seq(Data)
         /\ q # <<>> /\ Head(q) = m[Slot(p)]
         /\ Holds(Tail(q), m, Succ(p), e)
<1>1. Len(q) = Minus(e, p) /\ Len(q) > 0
  BY MinusType, DepthType DEF Holds, Ptr
<1>2. q # <<>> /\ Tail(q) \in Seq(Data) /\ Len(Tail(q)) = Len(q) - 1
  BY <1>1
<1>3. Minus(e, Succ(p)) = Len(q) - 1
  BY <1>1, MinusBack
<1>4. ASSUME NEW i \in 1 .. Len(Tail(q))
      PROVE  Tail(q)[i] = m[Slot(Plus(Succ(p), i - 1))]
  <2>1. Tail(q)[i] = q[i + 1] /\ i + 1 \in 1 .. Len(q)
    BY <1>1, <1>2
  <2>2. q[i + 1] = m[Slot(Plus(p, (i + 1) - 1))]
    BY <2>1 DEF Holds
  <2>3. Plus(p, (i + 1) - 1) = Plus(Succ(p), i - 1)
    BY <1>1, <1>2, DepthType DEF Plus, Succ, Ptr
  <2> QED
    BY <2>1, <2>2, <2>3
<1>5. Head(q) = m[Slot(p)]
  <2>1. q[1] = m[Slot(Plus(p, 1 - 1))]
    BY <1>1 DEF Holds
  <2>2. Plus(p, 1 - 1) = p
    BY DepthType DEF Plus, Ptr
  <2> QED
    BY <2>1, <2>2, <1>2
<1> QED
  BY <1>2, <1>3, <1>4, <1>5 DEF Holds

\* Writing behind the last one.
LEMMA HoldsAppend ==
  ASSUME NEW q \in Seq(Data), NEW m \in [0 .. DEPTH - 1 -> Data], NEW v \in Data,
         NEW p \in Ptr, NEW e \in Ptr, Holds(q, m, p, e), Minus(e, p) < DEPTH
  PROVE  Holds(Append(q, v), [m EXCEPT ![Slot(e)] = v], p, Succ(e))
<1> DEFINE r == Append(q, v)
           n == [m EXCEPT ![Slot(e)] = v]
<1>1. Len(q) = Minus(e, p) /\ Len(q) \in Nat
  BY DEF Holds
<1>2. Len(r) = Len(q) + 1
  OBVIOUS
<1>3. Minus(Succ(e), p) = Len(q) + 1
  BY <1>1, MinusFront, DepthType DEF Ptr
<1>4. ASSUME NEW i \in 1 .. Len(r)
      PROVE  r[i] = n[Slot(Plus(p, i - 1))]
  <2>1. CASE i = Len(r)
    <3>1. r[i] = v
      BY <2>1, <1>2
    <3>2. Plus(p, i - 1) = e
      BY <2>1, <1>1, <1>2, DepthType DEF Plus, Minus, Ptr
    <3>3. n[Slot(e)] = v
      BY MinusType
    <3> QED
      BY <3>1, <3>2, <3>3
  <2>2. CASE i # Len(r)
    <3>1. i \in 1 .. Len(q) /\ r[i] = q[i]
      BY <2>2, <1>1, <1>2
    <3>2. q[i] = m[Slot(Plus(p, i - 1))]
      BY <3>1 DEF Holds
    <3>3. Slot(Plus(p, i - 1)) # Slot(e)
      BY <3>1, <1>1, DepthType DEF Plus, Minus, Slot, Ptr
    <3> QED
      BY <3>1, <3>2, <3>3
  <2> QED
    BY <2>1, <2>2
<1> QED
  BY <1>2, <1>3, <1>4 DEF Holds

-------------------------------------------------------------------------------
(* The invariant.                                                          *)

\* What the order of the pointers says of full, empty and the counts.
LEMMA Counts ==
  ASSUME FifoInv
  PROVE  /\ count_wr \in Nat /\ count_rd \in Nat
         /\ full <=> count_wr = DEPTH
         /\ empty <=> count_rd = 0
         /\ empty <=> gray2bin[wr_g_sync2] = rd_ptr_b
         /\ count_wr <= DEPTH
         /\ count_rd <= Minus(wr_ptr_b, rd_ptr_b)
         /\ Minus(wr_ptr_b, rd_ptr_b) <= count_wr
         /\ Len(queue) = Minus(wr_ptr_b, rd_ptr_b)
         /\ count_wr = Way(gray2bin[rd_g_sync2], gray2bin[rd_g_sync1], rd_ptr_b,
                           gray2bin[wr_g_sync2], gray2bin[wr_g_sync1], wr_ptr_b)
<1> DEFINE r1 == gray2bin[rd_g_sync1]  r2 == gray2bin[rd_g_sync2]
           w1 == gray2bin[wr_g_sync1]  w2 == gray2bin[wr_g_sync2]
           W == wr_ptr_b  R == rd_ptr_b
<1>1. /\ r1 \in Ptr /\ r2 \in Ptr /\ w1 \in Ptr /\ w2 \in Ptr /\ W \in Ptr /\ R \in Ptr
      /\ IsCode(rd_g_sync2) /\ IsCode(wr_g_sync2)
  BY DEF FifoInv, Types, IsCode
<1>2. full <=> Minus(W, r2) = DEPTH
  BY <1>1, FullTest DEF full
<1>3. empty <=> Minus(w2, R) = 0
  BY <1>1, EmptyTest DEF empty
<1>4. count_wr = Minus(W, r2) /\ count_rd = Minus(w2, R)
  BY DEF count_wr, count_rd
<1>5. Len(queue) = Minus(W, R)
  BY DEF FifoInv, Holds
<1>6. Way(r2, r1, R, w2, w1, W) <= DEPTH
  BY DEF FifoInv, Lags
<1> HIDE DEF r1, r2, w1, w2, W, R
<1>7. /\ Minus(r1, r2) \in Nat /\ Minus(R, r1) \in Nat /\ Minus(w2, R) \in Nat
      /\ Minus(w1, w2) \in Nat /\ Minus(W, w1) \in Nat /\ Minus(W, r2) \in Nat
  BY <1>1, MinusNat
<1>8. /\ Minus(W, R) = Minus(W, w1) + Minus(w1, w2) + Minus(w2, R)
      /\ Minus(W, r2) = Way(r2, r1, R, w2, w1, W)
  BY <1>1, <1>6, <1>7, WayAdds
<1>9. Minus(W, R) <= Minus(W, r2) /\ Minus(w2, R) <= Minus(W, R)
  BY <1>7, <1>8 DEF Way
<1>10. Minus(w2, R) = 0 <=> w2 = R
  BY <1>1, MinusType
<1> QED
  BY <1>2, <1>3, <1>4, <1>5, <1>6, <1>7, <1>8, <1>9, <1>10 DEF W, R, r1, r2, w1, w2

\* The reset state satisfies the invariant.
LEMMA FifoInitInv == FifoInit => FifoInv
<1> SUFFICES ASSUME FifoInit PROVE FifoInv
  OBVIOUS
<1>1. 0 \in Ptr /\ Minus(0, 0) = 0
  BY DepthType DEF Ptr, Minus
<1>2. Gray[0] = 0
  BY GrayAssumption DEF GrayCodes
<1>3. IsCode(0) /\ gray2bin[0] = 0
  BY <1>1, <1>2, CodeOf
<1>4. Types
  BY <1>1, <1>3 DEF FifoInit, Types
<1>5. Lags
  BY <1>1, <1>3, DepthType DEF FifoInit, Lags, Way
<1>6. Holds(queue, mem, rd_ptr_b, wr_ptr_b)
  BY <1>1 DEF FifoInit, Holds
<1> QED
  BY <1>4, <1>5, <1>6 DEF FifoInv

\* An edge of either clock or of both keeps the invariant: the copies are
\* renewed, then the read pointer moves, then the write pointer.  Without a
\* write the writer's count does not grow, and only a read lowers the reader's.
LEMMA EdgeStep ==
  ASSUME FifoInv, NEW w \in BOOLEAN, NEW wren \in BOOLEAN, NEW r \in BOOLEAN,
         NEW rden \in BOOLEAN, NEW wdata \in Data, Edge(w, wren, wdata, r, rden)
  PROVE  /\ FifoInv'
         /\ ~(w /\ wren) => count_wr' <= count_wr
         /\ count_rd' >= count_rd - 1
         /\ ~(r /\ rden) => count_rd' >= count_rd
<1> DEFINE put == w /\ wren /\ ~full
           get == r /\ rden /\ ~empty
           r1 == gray2bin[rd_g_sync1]  r2 == gray2bin[rd_g_sync2]
           w1 == gray2bin[wr_g_sync1]  w2 == gray2bin[wr_g_sync2]
           W == wr_ptr_b  R == rd_ptr_b
           s2 == IF w THEN r1 ELSE r2  s1 == IF w THEN R ELSE r1
           v2 == IF r THEN w1 ELSE w2  v1 == IF r THEN W ELSE w1
           S == IF get THEN Succ(R) ELSE R
           V == IF put THEN Succ(W) ELSE W
           rest == IF get THEN Tail(queue) ELSE queue
<1>1. /\ r1 \in Ptr /\ r2 \in Ptr /\ w1 \in Ptr /\ w2 \in Ptr /\ W \in Ptr /\ R \in Ptr
  BY DEF FifoInv, Types, IsCode
<1>2. Way(r2, r1, R, w2, w1, W) <= DEPTH /\ Way(r2, r1, R, w2, w1, W) \in Nat
  BY <1>1, WayWriteClock DEF FifoInv, Lags
<1>3. /\ put => Way(r2, r1, R, w2, w1, W) < DEPTH
      /\ get => w2 # R
  <2>1. /\ full <=> count_wr = DEPTH
        /\ empty <=> w2 = R
        /\ count_wr = Way(r2, r1, R, w2, w1, W)
    BY Counts
  <2>2. put => count_wr # DEPTH
    BY <2>1
  <2>3. get => w2 # R
    BY <2>1
  <2> HIDE DEF put, get, r1, r2, w1, w2, W, R
  <2> QED
    BY <1>2, <2>1, <2>2, <2>3, DepthType
<1>4. /\ rd_ptr_b' = S /\ wr_ptr_b' = V
      /\ rd_g_sync1' = (IF w THEN Gray[R] ELSE rd_g_sync1)
      /\ rd_g_sync2' = (IF w THEN rd_g_sync1 ELSE rd_g_sync2)
      /\ wr_g_sync1' = (IF r THEN Gray[W] ELSE wr_g_sync1)
      /\ wr_g_sync2' = (IF r THEN wr_g_sync1 ELSE wr_g_sync2)
  BY DEF Edge, WriteSide, ReadSide
<1>5. /\ mem' = (IF put THEN [mem EXCEPT ![Slot(W)] = wdata] ELSE mem)
      /\ queue' = (IF put THEN Append(rest, wdata) ELSE rest)
  BY DEF Edge, WriteSide
<1>6. /\ gray2bin[rd_g_sync1'] = s1 /\ gray2bin[rd_g_sync2'] = s2
      /\ gray2bin[wr_g_sync1'] = v1 /\ gray2bin[wr_g_sync2'] = v2
      /\ IsCode(rd_g_sync1') /\ IsCode(rd_g_sync2')
      /\ IsCode(wr_g_sync1') /\ IsCode(wr_g_sync2')
  <2>1. IsCode(Gray[R]) /\ gray2bin[Gray[R]] = R
    BY <1>1, CodeOf
  <2>2. IsCode(Gray[W]) /\ gray2bin[Gray[W]] = W
    BY <1>1, CodeOf
  <2>3. /\ IsCode(rd_g_sync1) /\ IsCode(rd_g_sync2)
        /\ IsCode(wr_g_sync1) /\ IsCode(wr_g_sync2)
    BY DEF FifoInv, Types
  <2> HIDE DEF IsCode
  <2>4. /\ gray2bin[rd_g_sync1'] = s1 /\ gray2bin[rd_g_sync2'] = s2
        /\ IsCode(rd_g_sync1') /\ IsCode(rd_g_sync2')
    <3>1. CASE w
      BY <3>1, <1>4, <2>1, <2>3
    <3>2. CASE ~w
      BY <3>2, <1>4, <2>3
    <3> QED BY <3>1, <3>2
  <2>5. /\ gray2bin[wr_g_sync1'] = v1 /\ gray2bin[wr_g_sync2'] = v2
        /\ IsCode(wr_g_sync1') /\ IsCode(wr_g_sync2')
    <3>1. CASE r
      BY <3>1, <1>4, <2>2, <2>3
    <3>2. CASE ~r
      BY <3>2, <1>4, <2>3
    <3> QED BY <3>1, <3>2
  <2> QED BY <2>4, <2>5
<1>7. /\ s1 \in Ptr /\ s2 \in Ptr /\ v1 \in Ptr /\ v2 \in Ptr
      /\ S \in Ptr /\ V \in Ptr
  <2>1. Succ(R) \in Ptr /\ Succ(W) \in Ptr
    BY <1>1, MinusType
  <2> QED
    BY <1>1, <2>1
<1>8. Way(s2, s1, S, v2, v1, V) <= DEPTH
  <2>1. Way(s2, s1, R, w2, w1, W) <= Way(r2, r1, R, w2, w1, W)
    <3>1. CASE w
      BY <3>1, <1>1, WayWriteClock
    <3>2. CASE ~w
      BY <3>2, <1>2
    <3> QED BY <3>1, <3>2
  <2>2. Way(s2, s1, R, w2, w1, W) \in Nat
    BY <1>1, <1>7, WayWriteClock
  <2>3. /\ Way(s2, s1, R, v2, v1, W) = Way(s2, s1, R, w2, w1, W)
        /\ w2 # R => v2 # R
    <3>1. CASE r
      <4>1. v2 = w1 /\ v1 = W
        BY <3>1
      <4>2. Way(s2, s1, R, w2, w1, W) <= DEPTH
        BY <1>2, <2>1, <2>2, DepthType
      <4>3. /\ s2 \in Ptr /\ s1 \in Ptr /\ R \in Ptr /\ W \in Ptr
            /\ w2 \in Ptr /\ w1 \in Ptr
        BY <1>1, <1>7
      <4> HIDE DEF s2, s1, v2, v1, S, V, get, put, r1, r2, w1, w2, W, R
      <4> QED
        BY ONLY <4>1, <4>2, <4>3, WayReadClock
    <3>2. CASE ~r
      BY <3>2
    <3> QED BY <3>1, <3>2
  <2>4. Way(s2, s1, S, v2, v1, W) = Way(s2, s1, R, v2, v1, W)
    <3>1. CASE get
      <4>1. S = Succ(R) /\ v2 # R
        BY <3>1, <1>3, <2>3
      <4>2. Way(s2, s1, R, v2, v1, W) <= DEPTH
        BY <1>2, <2>1, <2>2, <2>3, DepthType
      <4>3. /\ s2 \in Ptr /\ s1 \in Ptr /\ R \in Ptr /\ W \in Ptr
            /\ v2 \in Ptr /\ v1 \in Ptr
        BY <1>1, <1>7
      <4> HIDE DEF s2, s1, v2, v1, S, V, get, put, r1, r2, w1, w2, W, R
      <4> QED
        BY ONLY <4>1, <4>2, <4>3, WayGet
    <3>2. CASE ~get
      BY <3>2
    <3> QED BY <3>1, <3>2
  <2>5. CASE put
    <3>1. Way(s2, s1, S, v2, v1, W) < DEPTH /\ Way(s2, s1, S, v2, v1, W) \in Nat
      BY <2>5, <1>2, <1>3, <2>1, <2>2, <2>3, <2>4, DepthType
    <3>2. Way(s2, s1, S, v2, v1, Succ(W)) = Way(s2, s1, S, v2, v1, W) + 1
      <4> HIDE DEF s2, s1, v2, v1, S, V, get, put, r1, r2, w1, w2, W, R
      <4>1. /\ s2 \in Ptr /\ s1 \in Ptr /\ S \in Ptr /\ v2 \in Ptr /\ v1 \in Ptr
            /\ W \in Ptr
        BY <1>1, <1>7
      <4>2. Way(s2, s1, S, v2, v1, W) < DEPTH
        BY <3>1
      <4> QED
        BY ONLY <4>1, <4>2, WayPut
    <3> QED
      BY <3>1, <3>2, <2>5, DepthType
  <2>6. CASE ~put
    BY <2>6, <1>2, <2>1, <2>2, <2>3, <2>4, DepthType
  <2> QED BY <2>5, <2>6
<1>9. rest \in Seq(Data) /\ Holds(rest, mem, S, W) /\ Minus(W, S) <= Minus(W, R)
  <2>1. Holds(queue, mem, R, W) /\ queue \in Seq(Data) /\ Minus(W, R) \in Nat
    BY <1>1, MinusNat DEF FifoInv, Types
  <2>2. CASE get
    <3>1. Minus(W, R) <= DEPTH /\ R # W
      <4>1. count_rd # 0 /\ count_rd <= Minus(W, R) /\ Minus(W, R) <= DEPTH
        BY <2>1, <2>2, Counts, DepthType
      <4>2. W = R => Minus(W, R) = 0
        BY <1>1, MinusType
      <4> QED
        BY <4>1, <4>2, Counts
    <3>2. Tail(queue) \in Seq(Data) /\ Holds(Tail(queue), mem, Succ(R), W)
      BY <1>1, <2>1, <3>1, HoldsTail
    <3>3. Minus(W, Succ(R)) = Minus(W, R) - 1
      BY <1>1, <3>1, MinusBack
    <3> QED
      BY <2>1, <2>2, <3>2, <3>3
  <2>3. CASE ~get
    BY <2>1, <2>3
  <2> QED BY <2>2, <2>3
<1>10. /\ mem' \in [0 .. DEPTH - 1 -> Data] /\ queue' \in Seq(Data)
       /\ Holds(queue', mem', S, V)
  <2>1. mem \in [0 .. DEPTH - 1 -> Data]
    BY DEF FifoInv, Types
  <2>2. CASE put
    <3>1. Minus(W, S) < DEPTH
      <4>1. count_wr \in Nat /\ count_wr < DEPTH /\ Minus(W, R) <= count_wr
        BY <2>2, <1>3, Counts
      <4>2. Minus(W, S) \in Nat /\ Minus(W, R) \in Nat
        BY <1>1, <1>7, MinusNat
      <4> QED
        BY <4>1, <4>2, <1>9, DepthType
    <3>2. Holds(Append(rest, wdata), [mem EXCEPT ![Slot(W)] = wdata], S, Succ(W))
      BY <1>1, <1>7, <1>9, <2>1, <3>1, HoldsAppend
    <3>3. Append(rest, wdata) \in Seq(Data)
      BY <1>9
    <3>4. [mem EXCEPT ![Slot(W)] = wdata] \in [0 .. DEPTH - 1 -> Data]
      BY <2>1
    <3> QED
      BY <2>2, <1>5, <3>2, <3>3, <3>4
  <2>3. CASE ~put
    BY <2>1, <2>3, <1>5, <1>9
  <2> QED BY <2>2, <2>3
<1>11. Types'
  BY <1>4, <1>6, <1>7, <1>10 DEF Types, IsCode
<1>12. Lags'
  BY <1>4, <1>6, <1>8 DEF Lags
<1>13. Holds(queue, mem, rd_ptr_b, wr_ptr_b)'
  BY <1>4, <1>10
<1>14. FifoInv'
  BY <1>11, <1>12, <1>13 DEF FifoInv
<1>15. ASSUME ~(w /\ wren) PROVE count_wr' <= count_wr
  <2>1. /\ count_wr = Minus(W, r2)
        /\ count_wr' = IF w THEN Minus(W, r1) ELSE Minus(W, r2)
    BY <1>4, <1>6, <1>15 DEF count_wr
  <2>2. Minus(W, r1) <= Minus(W, r2) /\ Minus(W, r2) \in Nat
    <3> HIDE DEF r1, r2, w1, w2, W, R
    <3> QED BY <1>1, <1>2, WayBack
  <2> QED BY <2>1, <2>2
<1>16. count_rd' >= count_rd - 1 /\ (~(r /\ rden) => count_rd' >= count_rd)
  <2>1. count_rd = Minus(w2, R) /\ count_rd' = Minus(v2, S)
    BY <1>4, <1>6 DEF count_rd
  <2>2. Minus(w1, R) >= Minus(w2, R) /\ Minus(w1, R) \in Nat /\ Minus(w2, R) \in Nat
    <3> HIDE DEF r1, r2, w1, w2, W, R
    <3> QED BY <1>1, <1>2, WayBack
  <2>3. Minus(v2, R) >= Minus(w2, R) /\ Minus(v2, R) \in Nat /\ (w2 # R => v2 # R)
    <3>1. w2 # R => w1 # R
      <4> HIDE DEF r1, r2, w1, w2, W, R
      <4> QED BY <1>1, <1>2, WayReadClock
    <3> QED BY <2>2, <3>1
  <2>4. CASE get
    <3>1. Minus(v2, Succ(R)) = Minus(v2, R) - 1
      <4>1. v2 \in Ptr /\ R \in Ptr /\ v2 # R
        BY <1>1, <1>3, <1>7, <2>3, <2>4
      <4> HIDE DEF v2, R
      <4> QED BY <4>1, MinusBack
    <3>2. S = Succ(R) /\ r /\ rden
      BY <2>4
    <3> HIDE DEF v2, R, S, w2
    <3> QED BY <2>1, <2>2, <2>3, <3>1, <3>2
  <2>5. CASE ~get
    <3>1. S = R
      BY <2>5
    <3> HIDE DEF v2, R, S, w2
    <3> QED BY <2>1, <2>2, <2>3, <3>1
  <2> QED BY <2>4, <2>5
<1> QED
  BY <1>14, <1>15, <1>16

\* Every step of the FIFO on its own preserves the invariant.
LEMMA FifoStep == FifoInv /\ [FifoNext]_fifoVars => FifoInv'
<1> SUFFICES ASSUME FifoInv, [FifoNext]_fifoVars PROVE FifoInv'
  OBVIOUS
<1>1. CASE UNCHANGED fifoVars
  BY <1>1 DEF fifoVars, FifoInv, Types, Lags, Holds
<1>2. CASE FifoNext
  BY <1>2, EdgeStep DEF FifoNext
<1> QED
  BY <1>1, <1>2

\* FifoInv is an invariant of the FIFO.
LEMMA FifoAlways == FifoSpec => []FifoInv
  BY FifoInitInv, FifoStep, PTL DEF FifoSpec

\* A byte the read side shows is the oldest that was not read.
LEMMA OldestShown ==
  ASSUME FifoInv, ~empty
  PROVE  queue # <<>> /\ rdata = Head(queue)
<1>1. /\ queue \in Seq(Data) /\ rd_ptr_b \in Ptr /\ wr_ptr_b \in Ptr
      /\ Holds(queue, mem, rd_ptr_b, wr_ptr_b)
  BY DEF FifoInv, Types
<1>2. /\ Minus(wr_ptr_b, rd_ptr_b) \in Nat /\ Minus(wr_ptr_b, rd_ptr_b) # 0
      /\ Minus(wr_ptr_b, rd_ptr_b) <= DEPTH
  <2>1. Minus(wr_ptr_b, rd_ptr_b) \in Nat
    BY <1>1, MinusNat
  <2> QED
    BY <2>1, Counts, DepthType
<1>3. rd_ptr_b # wr_ptr_b
  BY <1>1, <1>2, MinusType
<1> QED
  BY <1>1, <1>2, <1>3, HoldsTail DEF rdata

-------------------------------------------------------------------------------

\* For every depth and any two clocks, the late counts are on the safe side, so
\* no byte is overwritten and none is read twice.
THEOREM FifoConservative == FifoSpec => []Conservative
<1>1. FifoInv => Conservative
  BY Counts DEF Conservative
<1> QED
  BY <1>1, FifoAlways, PTL

\* What the read side shows is the oldest byte that was not read.
THEOREM FifoHead == FifoSpec => []HeadIsOldest
<1>1. FifoInv => HeadIsOldest
  BY OldestShown DEF HeadIsOldest
<1> QED
  BY <1>1, FifoAlways, PTL
===============================================================================
