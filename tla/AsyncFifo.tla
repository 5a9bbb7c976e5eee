------------------------------ MODULE AsyncFifo ------------------------------
(***************************************************************************)
(* The dual-clock FIFO of the CW305 mailbox (rtl/lms_cw305_afifo.v).       *)
(*                                                                         *)
(* Each side owns a binary pointer of PTRW = ADDRW + 1 bits and sees the   *)
(* other one's Gray code through two flip-flops of its own clock.  full,   *)
(* empty and the two counts are computed from these late copies.  A step   *)
(* is an edge of the write clock, of the read clock, or of both at once,   *)
(* in any order and ratio.  As a Gray code changes in one bit (ASSUME      *)
(* GrayOneBit), a flip-flop that samples it while it changes takes the old *)
(* or the new code, which the two orders of the edges give.                *)
(***************************************************************************)
EXTENDS Integers, Sequences, FiniteSetsExt

CONSTANTS
  ADDRW,  \* address bits
  DEPTH,  \* 2^ADDRW entries
  Data    \* what an entry holds

ASSUME FifoAssumption ==
  /\ ADDRW \in Nat /\ ADDRW >= 2
  /\ DEPTH \in Nat \ {0} /\ DEPTH = 2^ADDRW
  /\ Data # {}

Ptr == 0 .. 2 * DEPTH - 1

VARIABLES
  mem,
  wr_ptr_b, rd_ptr_b,
  wr_g_sync1, wr_g_sync2,   \* the write pointer's code in the read domain
  rd_g_sync1, rd_g_sync2,   \* the read pointer's code in the write domain
  queue                     \* history: what was written and not yet read

fifoVars == <<mem, wr_ptr_b, rd_ptr_b, wr_g_sync1, wr_g_sync2,
              rd_g_sync1, rd_g_sync2, queue>>

-------------------------------------------------------------------------------
(* Pointers.                                                               *)

Bit(n, i) == (n \div 2^i) % 2

\* b ^ (b >> 1)
Gray == [b \in Ptr |->
  MapThenSumSet(LAMBDA i : 2^i * ((Bit(b, i) + Bit(b, i + 1)) % 2), 0 .. ADDRW)]

\* g ^ (g >> 1) ^ ... ^ (g >> (PTRW - 1))
gray2bin == [g \in Ptr |->
  MapThenSumSet(LAMBDA i : 2^i * (MapThenSumSet(LAMBDA j : Bit(g, j), i .. ADDRW) % 2),
                0 .. ADDRW)]

\* {~g[PTRW-1:PTRW-2], g[PTRW-3:0]}
TurnedOnce(g) ==
  LET low == DEPTH \div 2 IN ((3 - (g \div low)) * low) + (g % low)

Succ(p) == IF p = 2 * DEPTH - 1 THEN 0 ELSE p + 1
Minus(p, s) == IF p >= s THEN p - s ELSE p - s + 2 * DEPTH
Slot(p) == IF p < DEPTH THEN p ELSE p - DEPTH

\* Facts of the code of this width: it starts at 0, gray2bin inverts it, and
\* inverting the two top bits turns a pointer by DEPTH.
GrayCodes ==
  /\ Gray[0] = 0
  /\ \A p \in Ptr :
       /\ Gray[p] \in Ptr /\ gray2bin[Gray[p]] = p
       /\ TurnedOnce(Gray[p]) = Gray[IF p < DEPTH THEN p + DEPTH ELSE p - DEPTH]

\* Successive codes differ in one bit.
OneBitChanges ==
  \A p \in Ptr :
    \E i \in 0 .. ADDRW : \A j \in 0 .. ADDRW :
      (Bit(Gray[p], j) # Bit(Gray[Succ(p)], j)) <=> (i = j)

ASSUME GrayAssumption == GrayCodes
ASSUME GrayOneBit == OneBitChanges

\* Mutant: only the top bit is inverted.
fullTopBit == Gray[wr_ptr_b] = (rd_g_sync2 + DEPTH) % (2 * DEPTH)

full == Gray[wr_ptr_b] = TurnedOnce(rd_g_sync2)

\* Mutant: the binary pointer is compared with the code.
emptyBinary == rd_ptr_b = wr_g_sync2

empty == Gray[rd_ptr_b] = wr_g_sync2
rdata == mem[Slot(rd_ptr_b)]
count_rd == Minus(gray2bin[wr_g_sync2], rd_ptr_b)
count_wr == Minus(wr_ptr_b, gray2bin[rd_g_sync2])

-------------------------------------------------------------------------------

FifoInit ==
  /\ mem \in [0 .. DEPTH - 1 -> Data]
  /\ wr_ptr_b = 0 /\ rd_ptr_b = 0
  /\ wr_g_sync1 = 0 /\ wr_g_sync2 = 0
  /\ rd_g_sync1 = 0 /\ rd_g_sync2 = 0
  /\ queue = <<>>

\* The edge of the write clock.
WriteSide(w, wren, wdata) ==
  LET put == w /\ wren /\ ~full
  IN  /\ mem' = IF put THEN [mem EXCEPT ![Slot(wr_ptr_b)] = wdata] ELSE mem
      /\ wr_ptr_b' = IF put THEN Succ(wr_ptr_b) ELSE wr_ptr_b
      /\ rd_g_sync1' = IF w THEN Gray[rd_ptr_b] ELSE rd_g_sync1
      /\ rd_g_sync2' = IF w THEN rd_g_sync1 ELSE rd_g_sync2

\* The edge of the read clock.
ReadSide(r, rden) ==
  /\ rd_ptr_b' = IF r /\ rden /\ ~empty THEN Succ(rd_ptr_b) ELSE rd_ptr_b
  /\ wr_g_sync1' = IF r THEN Gray[wr_ptr_b] ELSE wr_g_sync1
  /\ wr_g_sync2' = IF r THEN wr_g_sync1 ELSE wr_g_sync2

\* w, r: which clocks have an edge.
Edge(w, wren, wdata, r, rden) ==
  /\ WriteSide(w, wren, wdata)
  /\ ReadSide(r, rden)
  /\ LET rest == IF r /\ rden /\ ~empty THEN Tail(queue) ELSE queue
     IN  queue' = IF w /\ wren /\ ~full THEN Append(rest, wdata) ELSE rest

FifoNext ==
  \E w, wren, r, rden \in BOOLEAN : \E wdata \in Data :
    Edge(w, wren, wdata, r, rden)

FifoSpec == FifoInit /\ [][FifoNext]_fifoVars

-------------------------------------------------------------------------------
(* Properties.                                                             *)

\* Whatever the clocks' ratio, late pointers are late on the safe side: the
\* reader's count is never above, the writer's never below the real number of
\* bytes, a byte is refused only by a FIFO that seems full, and none is
\* overwritten or read twice.
Conservative ==
  /\ count_rd <= Len(queue)
  /\ Len(queue) <= count_wr
  /\ count_wr <= DEPTH
  /\ full <=> (count_wr = DEPTH)
  /\ empty <=> (count_rd = 0)

\* The reader's output is the oldest byte not yet read.
HeadIsOldest == ~empty => queue # <<>> /\ rdata = Head(queue)
===============================================================================
