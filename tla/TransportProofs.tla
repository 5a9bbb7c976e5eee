---------------------------- MODULE TransportProofs ----------------------------
(*****************************************************************************)
(* The transport is correct for every number of words, every header, every   *)
(* FIFO depth and any two clocks.                                            *)
(*                                                                           *)
(* On its way a byte is in one of a few places: the mailbox queue, the       *)
(* receiver, the transmitter, the wire, a register of the bridge or of the   *)
(* mailbox.  The invariant cuts the numbers of all bytes of the transfer at  *)
(* the borders of these places, so that each holds one interval in order     *)
(* (Part).  Control invariants of firmware, bridge and mailbox say which     *)
(* register holds a byte that is still to be handed on.                      *)
(*****************************************************************************)
EXTENDS Transport, AsyncFifoProofs

-------------------------------------------------------------------------------
(* Types.                                                                  *)

Stored == [addr : Nat, word : Seq(Nat)]

CpuRegs ==
  [pc : {"byte", "start", "wait", "copy", "done"}, ready : BOOLEAN,
   pause : BOOLEAN, moved : Nat, got : Seq(Nat), ack : BOOLEAN,
   send : BOOLEAN, data : Nat]

CpuType == cpu \in CpuRegs

BridgeRegs ==
  [state : {"IDLE", "RX_BYTE", "RX_WR", "TX_RD", "TX_LOAD", "TX_PUT", "DONE"},
   busy : BOOLEAN, error : BOOLEAN, addr : Nat, left : Int, buf : Seq(Nat),
   sent : BOOLEAN, hold : BOOLEAN, valid : BOOLEAN, send : BOOLEAN,
   data : Nat, wr : Seq(Stored)]

BridgeType == br \in BridgeRegs

LineType ==
  /\ ut \in [fin : BOOLEAN, data : Nat, pending : Seq(Nat), tmr : Nat]
  /\ ur \in [fifo : Seq(Nat), new : Seq(Nat)]
  /\ ut.pending = <<>>

BoxRegs ==
  [ack : BOOLEAN, cond_d : BOOLEAN, send : BOOLEAN, byte : Nat, rden : BOOLEAN]

BoxType == box \in BoxRegs

UsbRegs ==
  [phase : {"idle", "strobe", "valid"}, reg : {"none", "TX_IDX", "TX_BYTE", "RX_BYTE"},
   rden : BOOLEAN, pop : Nat, read : Nat, wren : BOOLEAN, write : Nat]

HostState == [count : Nat, got : Seq(Nat), next : Nat]

UsbType == usb \in UsbRegs /\ host \in HostState

TypeInv ==
  /\ transfer \in Transfers /\ stream_busy \in BOOLEAN /\ bridge_owner \in BOOLEAN
  /\ CpuType /\ BridgeType /\ LineType /\ BoxType /\ UsbType
  /\ ram \in [0 .. Words - 1 -> Seq(Nat)]

-------------------------------------------------------------------------------
(* The stages of a byte's way.                                             *)

\* The sequence s holds bytes of the transfer behind byte a and up to byte b in
\* their order, and all of them if none was lost (l is the set of losses).
Part(s, a, b, l) ==
  /\ s \in Seq(Nat) /\ a <= b
  /\ \A i \in 1 .. Len(s) : a < s[i] /\ s[i] <= b
  /\ \A i, j \in 1 .. Len(s) : i < j => s[i] < s[j]
  /\ l = {} => Len(s) = b - a /\ \A i \in 1 .. Len(s) : s[i] = a + i

\* The line: the receiver's FIFO f, the byte n that is complete, and the byte u
\* in the transmitter.
Carries(f, n, u, a, b, l) ==
  \E c, d \in a .. b : Part(f, a, c, l) /\ Part(n, c, d, l) /\ Part(u, d, b, l)

\* The byte in the transmitter, until the receiver has it.
InUt == IF ~ut.fin /\ ut.tmr <= Frame THEN <<ut.data>> ELSE <<>>

\* toHost: the byte a register of processor or bridge hands to the line.
OnWire == IF SocSend THEN <<SocData>> ELSE <<>>

\* The bytes of k words, and those before the bridge's word.
Bytes(k) == WordBytes * k
Base == Header + Bytes(br.addr)

\* toHost: how many bytes firmware and bridge have handed over.

Sent ==
  IF cpu.pc \in {"byte", "start"} THEN cpu.moved
  ELSE IF br.state \in {"TX_RD", "TX_LOAD"} THEN Base
  ELSE IF br.state = "TX_PUT" THEN IF br.sent THEN Base + WordBytes + 1 - Len(br.buf) ELSE Base
  ELSE IF stream_busy THEN Header ELSE Total

ToHostFlow ==
  \E g, c, d \in 0 .. Total :
    /\ Part(host.got, 0, g, lost) /\ Part(queue, g, c, lost)
    /\ Carries(ur.fifo, ur.new, InUt, c, d, lost) /\ Part(OnWire, d, Sent, lost)

\* toDevice: how many bytes firmware and bridge have taken, and the receiver's
\* FIFO without the byte that the processor has read and not yet acknowledged.
Taken ==
  IF cpu.pc \in {"byte", "start"} \/ stream_busy THEN cpu.moved ELSE Total - br.left

Unread == IF cpu.ack THEN Tail(ur.fifo) ELSE ur.fifo

ToDeviceFlow ==
  \E g, c, d \in 0 .. Total :
    /\ Part(cpu.got, 0, g, lost) /\ g <= c
    /\ stream_busy \/ cpu.pc \in {"byte", "start"} => g = c
    /\ lost = {} => c = Taken
    /\ Carries(Unread, ur.new, InUt, c, d, lost) /\ Part(queue, d, host.next - 1, lost)

-------------------------------------------------------------------------------
(* Control.                                                                *)

RxState == {"RX_BYTE", "RX_WR"}
TxState == {"TX_RD", "TX_LOAD", "TX_PUT"}

\* Firmware and bridge: who has the UART, and what a flag of either vouches for.
CpuInv ==
  /\ cpu.pc # "wait" => br.state = "IDLE" /\ ~bridge_owner
  /\ cpu.pc = "wait" => ~cpu.ack /\ ~cpu.send /\ ~cpu.ready /\ br.state # "IDLE"
  /\ cpu.pc = "byte" => cpu.moved < Header
  /\ cpu.pc \in {"start", "wait"} => cpu.moved = Header
  /\ cpu.pc = "copy" =>
       /\ dir = "toDevice" /\ stream_busy
       /\ Header <= cpu.moved /\ cpu.moved < Total
  /\ cpu.ack => dir = "toDevice" /\ cpu.pause
  /\ cpu.send => dir = "toHost" /\ cpu.pause /\ cpu.data = cpu.moved /\ cpu.moved > 0
  /\ cpu.ready => cpu.pc \in {"byte", "copy"} /\ ~cpu.ack /\ ~cpu.send
  /\ dir = "toHost" /\ (cpu.ready \/ cpu.send) => ut.fin
  /\ dir = "toDevice" /\ (cpu.ready \/ cpu.ack) => ur.fifo # <<>>

\* The bridge on its own.
BridgeInv ==
  /\ br.busy <=> br.state \in RxState \cup TxState
  /\ br.busy => ~stream_busy /\ ~br.error /\ br.addr < Words
  /\ ~br.busy => br.left = 0
  /\ br.state \in TxState =>
       dir = "toHost" /\ br.left = Bytes(Words) - Bytes(br.addr)
  /\ br.state \in RxState =>
       /\ dir = "toDevice" /\ Len(br.buf) <= WordBytes
       /\ br.left = Bytes(Words) - Bytes(br.addr) - Len(br.buf)
       /\ br.state = "RX_WR" <=> Len(br.buf) = WordBytes
  /\ br.state = "TX_PUT" =>
       /\ 0 < Len(br.buf) /\ Len(br.buf) <= WordBytes
       /\ ~br.sent => Len(br.buf) = WordBytes /\ ~br.hold
       /\ \A i \in 1 .. Len(br.buf) : br.buf[i] = Base + WordBytes - Len(br.buf) + i
  /\ br.send => /\ br.state = "TX_PUT" /\ br.sent /\ br.hold
                /\ br.data = Base + WordBytes + 1 - Len(br.buf)
  /\ br.state = "DONE" => (br.error <=> stream_busy \/ Words = 0)
  /\ br.wr # <<>> =>
       br.state \in {"RX_BYTE", "DONE"} /\ Len(br.wr) = 1 /\ br.wr[1].addr < Words

\* The bridge in its place.
OwnerInv ==
  /\ br.busy => bridge_owner
  /\ cpu.pc \in {"byte", "start"} => br.addr = 0
  /\ br.send => ut.fin

\* The words already in the task RAM or on their way there.
Filled ==
  IF br.state \in RxState THEN br.addr
  ELSE IF cpu.pc \in {"wait", "done"} /\ ~stream_busy THEN Words ELSE 0

RamInv ==
  dir = "toDevice" /\ lost = {} =>
    /\ br.state \in RxState => \A i \in 1 .. Len(br.buf) : br.buf[i] = Base + i
    /\ \A k \in 0 .. Words - 1 :
         k < Filled => Word(k) = IF br.wr # <<>> /\ br.wr[1].addr = k THEN br.wr[1].word ELSE ram[k]

\* The mailbox's registers: what they say of the FIFO between the clocks.
BoxInv ==
  /\ dir = "toHost" => ~box.send /\ ~box.rden
  /\ dir = "toDevice" =>
       /\ box.rden = box.send
       /\ box.send => box.cond_d /\ ut.fin /\ ~empty /\ box.byte = Head(queue)

ToHostUsb ==
  /\ usb.reg # "RX_BYTE" /\ ~usb.wren
  /\ host.count <= count_rd
  /\ usb.rden <=> usb.phase = "valid" /\ usb.reg = "TX_BYTE"
  /\ usb.phase # "idle" => usb.reg # "none"
  /\ usb.phase # "idle" /\ usb.reg = "TX_BYTE" => host.count > 0
  /\ usb.phase = "valid" /\ usb.reg = "TX_BYTE" => usb.read = Head(queue)
  /\ usb.phase = "valid" /\ usb.reg = "TX_IDX" => usb.read <= count_rd

ToDeviceUsb ==
  /\ usb.reg \in {"none", "RX_BYTE"} /\ ~usb.rden /\ usb.write <= Total
  /\ host.next \in 1 .. Total + 1
  /\ usb.phase # "idle" => usb.reg = "RX_BYTE" /\ usb.write = host.next /\ host.next <= Total
  /\ usb.wren => usb.phase = "valid" /\ ~full
  /\ usb.phase = "valid" /\ ~usb.wren => lost # {}

UsbInv == (dir = "toHost" => ToHostUsb) /\ (dir = "toDevice" => ToDeviceUsb)

FlowInv == (dir = "toHost" => ToHostFlow) /\ (dir = "toDevice" => ToDeviceFlow)

TransportInv ==
  /\ FifoInv /\ TypeInv /\ CpuInv /\ BridgeInv /\ OwnerInv /\ RamInv /\ BoxInv
  /\ UsbInv /\ FlowInv

-------------------------------------------------------------------------------
(* Loss.                                                                   *)

\* toHost: a byte on its way has a place in the mailbox, and is alone.
ToHostRoom ==
  /\ ut.fin \/ ut.tmr <= Frame + Gap
  /\ SocSend \/ cpu.ready \/ InUt # <<>> \/ ur.new # <<>> \/ ur.fifo # <<>> => ~full
  /\ ur.new # <<>> => Len(ur.new) = 1 /\ ~ut.fin /\ ut.tmr = Frame + 1 /\ ur.fifo = <<>>
  /\ ur.fifo # <<>> =>
       /\ Len(ur.fifo) = 1 /\ ~ut.fin
       /\ ut.tmr = Frame + 2 \/ (ut.tmr = Frame + 3 /\ box.ack)

\* toDevice: once the bridge has taken its first byte, it keeps the receiver
\* from filling.
ToDeviceRoom ==
  /\ Len(ur.fifo) <= RX_DEPTH
  /\ ur.new # <<>> =>
       Len(ur.new) = 1 /\ ((ut.fin /\ ~box.send) \/ (~ut.fin /\ ut.tmr = Frame + 1))
  /\ br.busy /\ br.left < Bytes(Words) =>
       \/ Len(ur.fifo) < RX_DEPTH
       \/ /\ Len(ur.fifo) = RX_DEPTH /\ ur.new = <<>> /\ br.state = "RX_BYTE"
          /\ ut.fin \/ ut.tmr > Frame

RoomInv == (dir = "toHost" => ToHostRoom) /\ (dir = "toDevice" => ToDeviceRoom)
-------------------------------------------------------------------------------
(* Parts of a transfer.                                                    *)

\* Nothing lies between a byte and itself, or, after a loss, before a later one.
LEMMA PartEmpty ==
  ASSUME NEW a \in Nat, NEW b \in Nat, NEW l, a <= b, l = {} => a = b
  PROVE  Part(<<>>, a, b, l)
  BY DEF Part

\* A single byte.
LEMMA PartOne ==
  ASSUME NEW a \in Nat, NEW x \in Nat, NEW l, a < x, l = {} => x = a + 1
  PROVE  Part(<<x>>, a, x, l)
  BY DEF Part

\* Taking the first byte.
LEMMA PartHead ==
  ASSUME NEW a \in Nat, NEW b \in Nat, NEW l, NEW s, Part(s, a, b, l), s # <<>>
  PROVE  /\ Head(s) \in Nat /\ a < Head(s) /\ Head(s) <= b
         /\ l = {} => Head(s) = a + 1
         /\ Part(Tail(s), Head(s), b, l)
<1>1. s \in Seq(Nat) /\ Len(s) \in Nat /\ Len(s) > 0 /\ Head(s) = s[1] /\ 1 \in 1 .. Len(s)
  BY DEF Part
<1>2. Head(s) \in Nat /\ a < Head(s) /\ Head(s) <= b /\ (l = {} => Head(s) = a + 1)
  BY <1>1 DEF Part
<1>3. Tail(s) \in Seq(Nat) /\ Len(Tail(s)) = Len(s) - 1
  BY <1>1
<1>4. ASSUME NEW i \in 1 .. Len(Tail(s))
      PROVE  Tail(s)[i] = s[i + 1] /\ i + 1 \in 1 .. Len(s)
  BY <1>1, <1>3
<1>5. \A i \in 1 .. Len(Tail(s)) : Head(s) < Tail(s)[i] /\ Tail(s)[i] <= b
  BY <1>1, <1>4 DEF Part
<1>6. ASSUME NEW i \in 1 .. Len(Tail(s)), NEW j \in 1 .. Len(Tail(s)), i < j
      PROVE  Tail(s)[i] < Tail(s)[j]
  <2>1. i + 1 \in 1 .. Len(s) /\ j + 1 \in 1 .. Len(s) /\ i + 1 < j + 1
    BY <1>4, <1>6
  <2>2. s[i + 1] < s[j + 1]
    BY <2>1 DEF Part
  <2> QED BY <1>4, <2>2
<1>7. ASSUME l = {}
      PROVE  Len(Tail(s)) = b - Head(s) /\ \A i \in 1 .. Len(Tail(s)) : Tail(s)[i] = Head(s) + i
  <2>1. Len(s) = b - a /\ \A i \in 1 .. Len(s) : s[i] = a + i
    BY <1>7 DEF Part
  <2> QED BY <1>2, <1>3, <1>4, <1>7, <2>1
<1> QED
  BY <1>2, <1>3, <1>5, <1>6, <1>7 DEF Part

\* Parts that meet make one part.
LEMMA PartJoin ==
  ASSUME NEW a \in Nat, NEW b \in Nat, NEW c \in Nat, NEW l, NEW s, NEW t,
         Part(s, a, b, l), Part(t, b, c, l)
  PROVE  Part(s \o t, a, c, l)
<1>1. s \in Seq(Nat) /\ t \in Seq(Nat) /\ a <= b /\ b <= c
  BY DEF Part
<1>2. s \o t \in Seq(Nat) /\ Len(s \o t) = Len(s) + Len(t) /\ Len(s) \in Nat /\ Len(t) \in Nat
  BY <1>1
<1>3. ASSUME NEW i \in 1 .. Len(s \o t)
      PROVE  /\ i <= Len(s) => i \in 1 .. Len(s) /\ (s \o t)[i] = s[i]
             /\ i > Len(s) => i - Len(s) \in 1 .. Len(t) /\ (s \o t)[i] = t[i - Len(s)]
  BY <1>1, <1>2
<1>4. \A i \in 1 .. Len(s) : s[i] \in Nat /\ a < s[i] /\ s[i] <= b
  BY <1>1 DEF Part
<1>5. \A i \in 1 .. Len(t) : t[i] \in Nat /\ b < t[i] /\ t[i] <= c
  BY <1>1 DEF Part
<1>6. \A i \in 1 .. Len(s \o t) : a < (s \o t)[i] /\ (s \o t)[i] <= c
  BY <1>1, <1>2, <1>3, <1>4, <1>5
<1>7. ASSUME NEW i \in 1 .. Len(s \o t), NEW j \in 1 .. Len(s \o t), i < j
      PROVE  (s \o t)[i] < (s \o t)[j]
  <2>1. CASE j <= Len(s)
    <3>1. i \in 1 .. Len(s) /\ j \in 1 .. Len(s)
      BY <1>2, <1>7, <2>1
    <3>2. s[i] < s[j]
      BY <1>7, <3>1 DEF Part
    <3> QED BY <1>2, <1>3, <1>7, <2>1, <3>2
  <2>2. CASE i <= Len(s) /\ j > Len(s)
    <3>1. (s \o t)[i] \in Nat /\ (s \o t)[i] <= b
      BY <1>3, <1>4, <2>2
    <3>2. (s \o t)[j] \in Nat /\ b < (s \o t)[j]
      BY <1>3, <1>5, <2>2
    <3> QED BY <3>1, <3>2
  <2>3. CASE i > Len(s)
    <3>1. /\ i - Len(s) \in 1 .. Len(t) /\ j - Len(s) \in 1 .. Len(t)
          /\ i - Len(s) < j - Len(s)
      BY <1>2, <1>7, <2>3
    <3>2. t[i - Len(s)] < t[j - Len(s)]
      BY <3>1 DEF Part
    <3> QED BY <1>2, <1>3, <1>7, <2>3, <3>2
  <2> QED BY <1>2, <1>7, <2>1, <2>2, <2>3, SMTT(30)
<1>8. ASSUME l = {}
      PROVE  Len(s \o t) = c - a /\ \A i \in 1 .. Len(s \o t) : (s \o t)[i] = a + i
  <2>1. /\ Len(s) = b - a /\ Len(t) = c - b
        /\ \A i \in 1 .. Len(s) : s[i] = a + i
        /\ \A i \in 1 .. Len(t) : t[i] = b + i
    BY <1>8 DEF Part
  <2>2. ASSUME NEW i \in 1 .. Len(s \o t) PROVE (s \o t)[i] = a + i
    BY <1>2, <1>3, <2>1
  <2> QED BY <1>1, <1>2, <2>1, <2>2
<1> QED
  BY <1>1, <1>2, <1>6, <1>7, <1>8, SMTT(30) DEF Part

\* After a loss a part may be said to reach further.
LEMMA PartWiden ==
  ASSUME NEW a \in Nat, NEW b \in Nat, NEW c \in Nat, NEW l, NEW m, NEW s,
         Part(s, a, b, l), b <= c, m = {} => l = {} /\ b = c
  PROVE  Part(s, a, c, m)
  BY DEF Part

\* Bounds of what a part holds.
LEMMA PartBounds ==
  ASSUME NEW a \in Nat, NEW b \in Nat, NEW l, NEW s, Part(s, a, b, l)
  PROVE  s \in Seq(Nat) /\ a <= b /\ \A i \in 1 .. Len(s) : s[i] \in a + 1 .. b
  BY DEF Part

\* On an edge the byte n that arrived enters the FIFO or is dropped, and the
\* byte u in the transmitter arrives or does not.
LEMMA LineMoves ==
  ASSUME NEW a \in Nat, NEW b \in Nat, NEW l, NEW m, NEW f, NEW n, NEW u, NEW k,
         Carries(f, n, u, a, b, l), k = n \/ k = <<>>, m = {} => l = {} /\ k = n
  PROVE  /\ Carries(f \o k, u, <<>>, a, b, m)
         /\ Carries(f \o k, <<>>, u, a, b, m)
<1>1. PICK c \in a .. b, d \in a .. b : Part(f, a, c, l) /\ Part(n, c, d, l) /\ Part(u, d, b, l)
  BY DEF Carries
<1>2. c \in Nat /\ d \in Nat /\ c <= d /\ d <= b /\ a <= c
  BY <1>1 DEF Part
<1>3. Part(f \o k, a, d, m)
  <2>1. CASE k = n
    <3>1. Part(f \o n, a, d, l)
      BY <1>1, <1>2, PartJoin
    <3> QED BY <1>2, <2>1, <3>1, PartWiden
  <2>2. CASE k = <<>> /\ k # n
    <3>1. f \in Seq(Nat) /\ f \o <<>> = f
      BY <1>1 DEF Part
    <3>2. Part(f, a, d, m)
      BY <1>1, <1>2, <2>2, PartWiden
    <3> QED BY <2>2, <3>1, <3>2
  <2> QED BY <2>1, <2>2
<1>4. Part(u, d, b, m)
  BY <1>1, <1>2, PartWiden
<1>5. Part(<<>>, b, b, m) /\ Part(<<>>, d, d, m)
  BY <1>2, PartEmpty
<1>6. d \in a .. b /\ b \in a .. b
  BY <1>1, <1>2
<1> QED
  BY <1>3, <1>4, <1>5, <1>6 DEF Carries

\* A free transmitter takes the next byte.
LEMMA LineTakes ==
  ASSUME NEW a \in Nat, NEW b \in Nat, NEW x \in Nat, NEW l, NEW f, NEW n,
         Carries(f, n, <<>>, a, b, l), b < x, l = {} => x = b + 1
  PROVE  Carries(f, n, <<x>>, a, x, l)
<1>1. PICK c \in a .. b, d \in a .. b : Part(f, a, c, l) /\ Part(n, c, d, l) /\ Part(<<>>, d, b, l)
  BY DEF Carries
<1>2. c \in Nat /\ d \in Nat /\ c <= d /\ d <= b /\ a <= c /\ (l = {} => d = b)
  BY <1>1 DEF Part
<1>3. Part(<<x>>, d, x, l)
  BY <1>2, PartOne
<1>4. c \in a .. x /\ d \in a .. x
  BY <1>2
<1> QED
  BY <1>1, <1>3, <1>4 DEF Carries

\* The consumer takes the first byte of the receiver's FIFO.
LEMMA LineGives ==
  ASSUME NEW a \in Nat, NEW b \in Nat, NEW l, NEW f, NEW n, NEW u,
         Carries(f, n, u, a, b, l), f # <<>>
  PROVE  /\ Head(f) \in Nat /\ a < Head(f) /\ Head(f) <= b
         /\ l = {} => Head(f) = a + 1
         /\ Carries(Tail(f), n, u, Head(f), b, l)
<1>1. PICK c \in a .. b, d \in a .. b : Part(f, a, c, l) /\ Part(n, c, d, l) /\ Part(u, d, b, l)
  BY DEF Carries
<1>2. c \in Nat /\ d \in Nat /\ c <= d /\ d <= b
  BY <1>1 DEF Part
<1>3. /\ Head(f) \in Nat /\ a < Head(f) /\ Head(f) <= c
      /\ l = {} => Head(f) = a + 1
      /\ Part(Tail(f), Head(f), c, l)
  BY <1>1, <1>2, PartHead
<1>4. c \in Head(f) .. b /\ d \in Head(f) .. b
  BY <1>2, <1>3
<1> QED
  BY <1>1, <1>2, <1>3, <1>4 DEF Carries

\* One byte more.
LEMMA PartAppend ==
  ASSUME NEW a \in Nat, NEW b \in Nat, NEW x \in Nat, NEW l, NEW m, NEW s, NEW t,
         Part(s, a, b, l), b < x, m = {} => l = {} /\ x = b + 1, t = Append(s, x)
  PROVE  Part(t, a, x, m)
<1>1. Part(s, a, b, m)
  BY PartWiden
<1>2. Part(<<x>>, b, x, m)
  BY PartOne
<1>3. Part(s \o <<x>>, a, x, m)
  BY <1>1, <1>2, PartJoin
<1>4. s \in Seq(Nat) /\ s \o <<x>> = Append(s, x)
  BY DEF Part
<1> QED
  BY <1>3, <1>4

\* After a loss less is said of the line.
LEMMA CarriesWiden ==
  ASSUME NEW a \in Nat, NEW b \in Nat, NEW l, NEW m, NEW f, NEW n, NEW u,
         Carries(f, n, u, a, b, l), m = {} => l = {}
  PROVE  Carries(f, n, u, a, b, m)
<1>1. PICK c \in a .. b, d \in a .. b : Part(f, a, c, l) /\ Part(n, c, d, l) /\ Part(u, d, b, l)
  BY DEF Carries
<1>2. c \in Nat /\ d \in Nat
  BY <1>1
<1>3. Part(f, a, c, m) /\ Part(n, c, d, m) /\ Part(u, d, b, m)
  BY <1>1, <1>2, PartWiden
<1> QED
  BY <1>1, <1>3 DEF Carries

\* Bounds of what the line carries.
LEMMA CarriesBounds ==
  ASSUME NEW a \in Nat, NEW b \in Nat, NEW l, NEW f, NEW n, NEW u, Carries(f, n, u, a, b, l)
  PROVE  a <= b /\ f \in Seq(Nat) /\ n \in Seq(Nat) /\ u \in Seq(Nat)
<1>1. PICK c \in a .. b, d \in a .. b : Part(f, a, c, l) /\ Part(n, c, d, l) /\ Part(u, d, b, l)
  BY DEF Carries
<1> QED
  BY <1>1 DEF Part

\* A part of one byte.
LEMMA PartSingle ==
  ASSUME NEW a \in Nat, NEW b \in Nat, NEW l, NEW x, Part(<<x>>, a, b, l)
  PROVE  x \in Nat /\ a < x /\ x <= b /\ (l = {} => x = a + 1 /\ x = b)
<1>1. <<x>> \in Seq(Nat) /\ 1 \in 1 .. Len(<<x>>) /\ <<x>>[1] = x /\ Len(<<x>>) = 1
  BY DEF Part
<1>2. x \in Nat /\ a < x /\ x <= b
  BY <1>1 DEF Part
<1>3. ASSUME l = {} PROVE x = a + 1 /\ 1 = b - a
  BY <1>1, <1>3 DEF Part
<1> QED
  BY <1>2, <1>3

\* The sizes of a transfer.
LEMMA Sizes ==
  ASSUME TypeInv
  PROVE  /\ Header \in Nat /\ Words \in Nat /\ WordBytes \in Nat /\ WordBytes > 0
         /\ Bytes(Words) \in Nat /\ Total \in Nat /\ Total = Header + Bytes(Words)
         /\ 0 .. Total \subseteq Data
         /\ dir \in {"toHost", "toDevice"}
<1>1. transfer \in [dir : {"toHost", "toDevice"}, header : Nat, words : Nat]
  BY TransportAssumption DEF TypeInv
<1>2. Header \in Nat /\ Words \in Nat /\ dir \in {"toHost", "toDevice"}
  BY <1>1 DEF Header, Words, dir
<1>3. WordBytes \in Nat /\ WordBytes > 0
  BY TransportAssumption
<1>4. WordBytes * Words \in Nat
  BY <1>2, <1>3
<1>5. 0 .. Total \subseteq Data
  BY TransportAssumption DEF TypeInv, Total, Header, Words
<1> QED
  BY <1>2, <1>3, <1>4, <1>5 DEF Total, Bytes

\* Counting in words: a word that is not the last, and the last one.
LEMMA WordSteps ==
  ASSUME NEW k \in Nat, NEW a \in Nat
  PROVE  /\ Bytes(a) \in Nat /\ Bytes(0) = 0
         /\ a < k => /\ Bytes(a + 1) = Bytes(a) + WordBytes
                     /\ Bytes(a) + WordBytes <= Bytes(k)
                     /\ Bytes(k) - Bytes(a) = WordBytes <=> a + 1 = k
<1> DEFINE w == WordBytes
<1>1. w \in Nat /\ w > 0
  BY TransportAssumption
<1> HIDE DEF w
<1>2. w * a \in Nat /\ w * k \in Nat /\ w * (a + 1) = w * a + w /\ w * 0 = 0
  BY <1>1
<1>3. ASSUME a < k
      PROVE  w * a + w <= w * k /\ (w * k - w * a = w <=> a + 1 = k)
  <2>1. PICK n \in Nat : k = a + 1 + n
    <3>1. k - a - 1 \in Nat /\ k = a + 1 + (k - a - 1)
      BY <1>3
    <3> QED BY <3>1
  <2>2. w * k = w * a + w + w * n
    BY <1>1, <2>1
  <2>3. w * n \in Nat /\ (w * n = 0 <=> n = 0)
    BY <1>1
  <2> QED BY <1>1, <1>2, <2>1, <2>2, <2>3
<1> QED
  BY <1>2, <1>3 DEF Bytes, w

\* The bytes of a word.
LEMMA WordBytesOf ==
  ASSUME TypeInv, NEW k \in Nat
  PROVE  /\ Word(k) \in Seq(Nat) /\ Len(Word(k)) = WordBytes
         /\ \A i \in 1 .. WordBytes : Word(k)[i] = Header + Bytes(k) + i
<1>1. Header \in Nat /\ WordBytes \in Nat /\ WordBytes * k \in Nat
  BY Sizes
<1>2. \A i \in 1 .. WordBytes : Header + WordBytes * k + i \in Nat
  BY <1>1
<1> QED
  BY <1>1, <1>2 DEF Word, Bytes

\* Successive numbers behind b, without the first.
LEMMA RestCounts ==
  ASSUME NEW s \in Seq(Nat), NEW b \in Int, Len(s) > 1, \A i \in 1 .. Len(s) : s[i] = b + i,
         NEW t, t = Tail(s)
  PROVE  /\ t \in Seq(Nat) /\ Len(t) = Len(s) - 1 /\ s[2] = b + 2
         /\ \A i \in 1 .. Len(t) : t[i] = b + 1 + i
<1>1. t \in Seq(Nat) /\ Len(t) = Len(s) - 1 /\ 2 \in 1 .. Len(s)
  OBVIOUS
<1>2. ASSUME NEW i \in 1 .. Len(t) PROVE t[i] = b + 1 + i
  <2>1. t[i] = s[i + 1] /\ i + 1 \in 1 .. Len(s)
    BY <1>1
  <2> QED BY <2>1
<1> QED BY <1>1, <1>2

\* A sequence of numbers and one more.
LEMMA MoreCounts ==
  ASSUME NEW s \in Seq(Nat), NEW x \in Nat, NEW t, t = Append(s, x)
  PROVE  t \in Seq(Nat) /\ Len(t) = Len(s) + 1
  OBVIOUS

\* It still counts up from b.
LEMMA CountsOn ==
  ASSUME NEW s \in Seq(Nat), NEW b \in Nat, \A i \in 1 .. Len(s) : s[i] = b + i,
         NEW x \in Nat, x = b + Len(s) + 1, NEW t, t = Append(s, x)
  PROVE  \A i \in 1 .. Len(t) : t[i] = b + i
<1>1. t \in Seq(Nat) /\ Len(t) = Len(s) + 1 /\ Len(s) \in Nat
  OBVIOUS
<1>2. ASSUME NEW i \in 1 .. Len(t) PROVE t[i] = b + i
  <2>1. CASE i = Len(s) + 1
    <3>1. t[i] = x
      BY <2>1
    <3> QED BY <1>1, <2>1, <3>1
  <2>2. CASE i \in 1 .. Len(s)
    <3>1. t[i] = s[i]
      BY <2>2
    <3> QED BY <2>2, <3>1
  <2> QED BY <1>1, <2>1, <2>2
<1> QED BY <1>2

-------------------------------------------------------------------------------
(* What the bridge's registers are after a step.                           *)

\* The pulses have fallen.
LEMMA PulseType ==
  ASSUME BridgeType
  PROVE  Pulse \in BridgeRegs
<1>1. <<>> \in Seq(Stored)
  OBVIOUS
<1> QED
  BY <1>1, Zenon DEF BridgeType, BridgeRegs, Pulse

\* The bridge refuses to start.
LEMMA StartRefused ==
  ASSUME BridgeType, BridgeStart, stream_busy \/ Words = 0
  PROVE  /\ BridgeType'
         /\ br'.state = "DONE" /\ br'.error /\ ~br'.send /\ br'.wr = <<>>
         /\ (br'.busy <=> br.busy) /\ br'.addr = br.addr /\ br'.left = br.left
         /\ br'.buf = br.buf /\ (br'.sent <=> br.sent) /\ (br'.hold <=> br.hold)
         /\ (br'.valid <=> br.valid) /\ br'.data = br.data
<1>1. Pulse \in BridgeRegs
  BY PulseType
<1> QED
  BY <1>1, Zenon DEF BridgeType, BridgeRegs, BridgeStart, Pulse

\* The bridge starts.
LEMMA Starts ==
  ASSUME BridgeType, TypeInv, BridgeStart, ~(stream_busy \/ Words = 0)
  PROVE  /\ BridgeType'
         /\ br'.state = (IF dir = "toHost" THEN "TX_RD" ELSE "RX_BYTE")
         /\ br'.busy /\ ~br'.error /\ br'.left = Bytes(Words) /\ br'.buf = <<>>
         /\ ~br'.sent /\ ~br'.hold /\ ~br'.send /\ br'.wr = <<>>
         /\ br'.addr = br.addr /\ (br'.valid <=> br.valid) /\ br'.data = br.data
<1>1. Pulse \in BridgeRegs
  BY PulseType
<1>2. WordBytes * Words \in Int /\ <<>> \in Seq(Nat)
  BY Sizes DEF Bytes
<1> QED
  BY <1>1, <1>2, Zenon DEF Bytes, BridgeType, BridgeRegs, BridgeStart, Pulse

\* RX_BYTE: a byte is there.
LEMMA Takes ==
  ASSUME BridgeType, LineType, RxByte, rx_rdy
  PROVE  /\ BridgeType'
         /\ br'.state = (IF Len(br.buf) = WordBytes - 1 THEN "RX_WR" ELSE "RX_BYTE")
         /\ br'.left = br.left - 1 /\ br'.buf = Append(br.buf, Head(ur.fifo))
         /\ ~br'.send /\ br'.wr = <<>>
         /\ (br'.busy <=> br.busy) /\ (br'.error <=> br.error)
         /\ br'.addr = br.addr /\ (br'.sent <=> br.sent) /\ (br'.hold <=> br.hold)
         /\ (br'.valid <=> br.valid) /\ br'.data = br.data
<1>1. Pulse \in BridgeRegs
  BY PulseType
<1>2. br.left \in Int /\ br.buf \in Seq(Nat)
  BY Zenon DEF BridgeType, BridgeRegs
<1>3. ur.fifo \in Seq(Nat)
  BY Zenon DEF LineType
<1>4. Append(br.buf, Head(ur.fifo)) \in Seq(Nat) /\ br.left - 1 \in Int
  BY <1>2, <1>3 DEF rx_rdy
<1> QED
  BY <1>1, <1>4, ZenonT(40) DEF BridgeType, BridgeRegs, RxByte, rx_data, Pulse

\* The bridge waits.
LEMMA Stays ==
  ASSUME BridgeType, br' = Pulse
  PROVE  /\ BridgeType'
         /\ ~br'.send /\ br'.wr = <<>>
         /\ br'.state = br.state /\ (br'.busy <=> br.busy)
         /\ (br'.error <=> br.error) /\ br'.addr = br.addr /\ br'.left = br.left
         /\ br'.buf = br.buf /\ (br'.sent <=> br.sent) /\ (br'.hold <=> br.hold)
         /\ (br'.valid <=> br.valid) /\ br'.data = br.data
<1>1. Pulse \in BridgeRegs
  BY PulseType
<1> QED
  BY <1>1, Zenon DEF BridgeType, BridgeRegs, Pulse

\* RX_WR.
LEMMA Writes ==
  ASSUME BridgeType, RxWr
  PROVE  /\ BridgeType'
         /\ br'.state = (IF br.left = 0 THEN "DONE" ELSE "RX_BYTE")
         /\ (br'.busy <=> br.left # 0)
         /\ br'.addr = (IF br.left = 0 THEN br.addr ELSE br.addr + 1)
         /\ br'.buf = <<>> /\ ~br'.send
         /\ br'.wr = <<[addr |-> br.addr, word |-> br.buf]>>
         /\ (br'.error <=> br.error) /\ br'.left = br.left
         /\ (br'.sent <=> br.sent) /\ (br'.hold <=> br.hold)
         /\ (br'.valid <=> br.valid) /\ br'.data = br.data
<1>1. Pulse \in BridgeRegs
  BY PulseType
<1>2. br.addr \in Nat /\ br.buf \in Seq(Nat)
  BY Zenon DEF BridgeType, BridgeRegs
<1>3. br.addr + 1 \in Nat /\ <<>> \in Seq(Nat)
  BY <1>2
<1>4. [addr |-> br.addr, word |-> br.buf] \in Stored
  BY <1>2 DEF Stored
<1>5. <<[addr |-> br.addr, word |-> br.buf]>> \in Seq(Stored)
  BY <1>4
<1>6. (br.left # 0) \in BOOLEAN
  OBVIOUS
<1> QED
  BY <1>1, <1>2, <1>3, <1>5, <1>6, ZenonT(40) DEF BridgeType, BridgeRegs, RxWr, Pulse

\* TX_RD.
LEMMA Asks ==
  ASSUME BridgeType, TxRd
  PROVE  /\ BridgeType'
         /\ br'.state = "TX_LOAD" /\ ~br'.valid /\ ~br'.send /\ br'.wr = <<>>
         /\ (br'.busy <=> br.busy) /\ (br'.error <=> br.error)
         /\ br'.addr = br.addr /\ br'.left = br.left /\ br'.buf = br.buf
         /\ (br'.sent <=> br.sent) /\ (br'.hold <=> br.hold) /\ br'.data = br.data
<1>1. Pulse \in BridgeRegs
  BY PulseType
<1> QED
  BY <1>1, Zenon DEF BridgeType, BridgeRegs, TxRd, Pulse

\* TX_LOAD: the word is there.
LEMMA Loads ==
  ASSUME BridgeType, TypeInv, TxLoad, br.valid
  PROVE  /\ BridgeType'
         /\ br'.state = "TX_PUT" /\ br'.buf = Word(br.addr) /\ ~br'.sent
         /\ ~br'.hold /\ ~br'.valid /\ ~br'.send /\ br'.wr = <<>>
         /\ (br'.busy <=> br.busy) /\ (br'.error <=> br.error)
         /\ br'.addr = br.addr /\ br'.left = br.left /\ br'.data = br.data
<1>1. Pulse \in BridgeRegs
  BY PulseType
<1>2. Word(br.addr) \in Seq(Nat)
  <2>1. br.addr \in Nat
    BY Zenon DEF BridgeType, BridgeRegs
  <2> QED BY <2>1, WordBytesOf
<1> QED
  BY <1>1, <1>2, Zenon DEF BridgeType, BridgeRegs, TxLoad, Pulse

\* TX_LOAD: the RAM answers on the next edge.
LEMMA Awaits ==
  ASSUME BridgeType, TxLoad, ~br.valid
  PROVE  /\ BridgeType'
         /\ br'.valid /\ ~br'.send /\ br'.wr = <<>>
         /\ br'.state = br.state /\ (br'.busy <=> br.busy)
         /\ (br'.error <=> br.error) /\ br'.addr = br.addr /\ br'.left = br.left
         /\ br'.buf = br.buf /\ (br'.sent <=> br.sent) /\ (br'.hold <=> br.hold)
         /\ br'.data = br.data
<1>1. Pulse \in BridgeRegs
  BY PulseType
<1> QED
  BY <1>1, Zenon DEF BridgeType, BridgeRegs, TxLoad, Pulse

\* TX_PUT: the first byte of a word.
LEMMA SendsFirst ==
  ASSUME BridgeType, TxPut, ~br.sent, tx_ready, Len(br.buf) > 0
  PROVE  /\ BridgeType'
         /\ br'.sent /\ br'.hold /\ br'.send /\ br'.data = br.buf[1]
         /\ br'.wr = <<>>
         /\ br'.state = br.state /\ (br'.busy <=> br.busy)
         /\ (br'.error <=> br.error) /\ br'.addr = br.addr /\ br'.left = br.left
         /\ br'.buf = br.buf /\ (br'.valid <=> br.valid)
<1>1. Pulse \in BridgeRegs
  BY PulseType
<1>2. br.buf \in Seq(Nat)
  BY Zenon DEF BridgeType, BridgeRegs
<1>3. br.buf[1] \in Nat
  BY <1>2
<1> QED
  BY <1>1, <1>3, Zenon DEF BridgeType, BridgeRegs, TxPut, Pulse

\* TX_PUT: the transmitter is not ready.
LEMMA KeepsOff ==
  ASSUME BridgeType, TxPut, br.sent \/ ~tx_ready, br.hold \/ ~tx_ready
  PROVE  /\ BridgeType'
         /\ ~br'.hold /\ ~br'.send /\ br'.wr = <<>>
         /\ br'.state = br.state /\ (br'.busy <=> br.busy)
         /\ (br'.error <=> br.error) /\ br'.addr = br.addr /\ br'.left = br.left
         /\ br'.buf = br.buf /\ (br'.sent <=> br.sent) /\ (br'.valid <=> br.valid)
         /\ br'.data = br.data
<1>1. Pulse \in BridgeRegs
  BY PulseType
<1> QED
  BY <1>1, ZenonT(40) DEF BridgeType, BridgeRegs, TxPut, Pulse

\* TX_PUT: the next byte of a word.
LEMMA SendsNext ==
  ASSUME BridgeType, TxPut, br.sent, ~br.hold, tx_ready, Len(br.buf) > 1
  PROVE  /\ BridgeType'
         /\ br'.buf = Tail(br.buf) /\ br'.hold /\ br'.send /\ br'.data = br.buf[2]
         /\ br'.wr = <<>>
         /\ br'.state = br.state /\ (br'.busy <=> br.busy)
         /\ (br'.error <=> br.error) /\ br'.addr = br.addr /\ br'.left = br.left
         /\ (br'.sent <=> br.sent) /\ (br'.valid <=> br.valid)
<1>1. Pulse \in BridgeRegs
  BY PulseType
<1>2. br.buf \in Seq(Nat)
  BY Zenon DEF BridgeType, BridgeRegs
<1>3. br.buf[2] \in Nat /\ Tail(br.buf) \in Seq(Nat)
  BY <1>2
<1> QED
  BY <1>1, <1>3, Zenon DEF BridgeType, BridgeRegs, TxPut, Pulse

\* TX_PUT: the last byte of a word was sent.
LEMMA EndsWord ==
  ASSUME BridgeType, TypeInv, TxPut, br.sent, ~br.hold, tx_ready, ~(Len(br.buf) > 1)
  PROVE  /\ BridgeType'
         /\ br'.state = (IF br.left = WordBytes THEN "DONE" ELSE "TX_RD")
         /\ (br'.busy <=> br.left # WordBytes)
         /\ br'.addr = (IF br.left = WordBytes THEN br.addr ELSE br.addr + 1)
         /\ br'.left = br.left - WordBytes /\ br'.buf = <<>> /\ ~br'.send
         /\ br'.wr = <<>>
         /\ (br'.error <=> br.error) /\ (br'.sent <=> br.sent)
         /\ (br'.hold <=> br.hold) /\ (br'.valid <=> br.valid)
         /\ br'.data = br.data
<1>1. Pulse \in BridgeRegs
  BY PulseType
<1>2. br.addr \in Nat /\ br.left \in Int
  BY Zenon DEF BridgeType, BridgeRegs
<1>3. br.addr + 1 \in Nat /\ br.left - WordBytes \in Int /\ <<>> \in Seq(Nat)
  BY <1>2, Sizes
<1>4. (br.left # WordBytes) \in BOOLEAN
  OBVIOUS
<1> QED
  BY <1>1, <1>2, <1>3, <1>4, Zenon DEF BridgeType, BridgeRegs, TxPut, Pulse

\* The bridge is cleared.
LEMMA Clears ==
  ASSUME BridgeType, BridgeClear
  PROVE  /\ BridgeType'
         /\ br'.state = "IDLE" /\ ~br'.error /\ ~br'.send /\ br'.wr = <<>>
         /\ (br'.busy <=> br.busy) /\ br'.addr = br.addr /\ br'.left = br.left
         /\ br'.buf = br.buf /\ (br'.sent <=> br.sent) /\ (br'.hold <=> br.hold)
         /\ (br'.valid <=> br.valid) /\ br'.data = br.data
<1>1. Pulse \in BridgeRegs
  BY PulseType
<1> QED
  BY <1>1, Zenon DEF BridgeType, BridgeRegs, BridgeClear, Pulse


\* No step of the bridge breaks what holds of it.
LEMMA BridgeKeeps ==
  ASSUME TypeInv, BridgeInv, (BridgeStart /\ br.addr = 0) \/ BridgeClear \/ BridgeRuns,
         UNCHANGED <<transfer, stream_busy>>
  PROVE  BridgeType' /\ BridgeInv'
<1>1. BridgeType /\ LineType
  BY DEF TypeInv
<1>2. br.addr \in Nat /\ br.left \in Int /\ br.buf \in Seq(Nat) /\ Len(br.buf) \in Nat
  BY <1>1 DEF BridgeType, BridgeRegs
<1>3. /\ Header' = Header /\ Words' = Words /\ dir' = dir /\ (stream_busy' <=> stream_busy)
      /\ Header \in Nat /\ Words \in Nat /\ WordBytes \in Nat /\ WordBytes > 0
      /\ Bytes(Words) \in Nat
      /\ dir \in {"toHost", "toDevice"}
  BY Sizes DEF Header, Words, dir
<1>4. /\ Bytes(br.addr) \in Nat /\ Bytes(0) = 0
      /\ br.addr < Words =>
           /\ Bytes(br.addr + 1) = Bytes(br.addr) + WordBytes
           /\ Bytes(br.addr) + WordBytes <= Bytes(Words)
           /\ Bytes(Words) - Bytes(br.addr) = WordBytes <=> br.addr + 1 = Words
  BY <1>2, <1>3, WordSteps
<1>0. Base \in Nat
  BY <1>2, <1>3, <1>4 DEF Base
<1>5. CASE BridgeStart /\ (stream_busy \/ Words = 0)
  BY <1>1, <1>2, <1>3, <1>5, StartRefused DEF BridgeInv, RxState, TxState, BridgeStart
<1>6. CASE BridgeStart /\ br.addr = 0 /\ ~(stream_busy \/ Words = 0)
  BY <1>1, <1>2, <1>3, <1>4, <1>6, Starts DEF BridgeInv, RxState, TxState, BridgeStart
<1>7. CASE RxByte /\ rx_rdy
  <2>1. /\ br.state = "RX_BYTE" /\ br.busy /\ ~br.error /\ br.addr < Words /\ dir = "toDevice"
        /\ ~stream_busy /\ Len(br.buf) < WordBytes
        /\ br.left = Bytes(Words) - Bytes(br.addr) - Len(br.buf)
    BY <1>2, <1>3, <1>7 DEF BridgeInv, RxState, RxByte
  <2>2. Len(br'.buf) = Len(br.buf) + 1
    <3>1. br'.buf = Append(br.buf, Head(ur.fifo))
      BY <1>1, <1>7, Takes
    <3>2. Head(ur.fifo) \in Nat
      BY <1>1, <1>7 DEF LineType, rx_rdy
    <3> QED BY <1>2, <3>1, <3>2, MoreCounts
  <2>3. /\ BridgeType' /\ br'.busy /\ ~br'.error /\ br'.addr = br.addr /\ ~br'.send
        /\ br'.left = br.left - 1 /\ br'.wr = <<>>
        /\ br'.state = "RX_WR" \/ br'.state = "RX_BYTE"
        /\ br'.state = "RX_WR" <=> Len(br.buf) = WordBytes - 1
    BY <1>1, <1>7, <2>1, Takes
  <2>4. /\ br'.left = Bytes(Words) - Bytes(br'.addr) - Len(br'.buf)
        /\ Len(br'.buf) <= WordBytes
        /\ br'.state = "RX_WR" <=> Len(br'.buf) = WordBytes
    <3>1. Len(br'.buf) = WordBytes <=> Len(br.buf) = WordBytes - 1
      BY <1>2, <1>3, <2>1, <2>2
    <3>2. br'.left = Bytes(Words) - Bytes(br'.addr) - Len(br'.buf) /\ Len(br'.buf) <= WordBytes
      <4>1. Bytes(br'.addr) = Bytes(br.addr) /\ br'.left = br.left - 1
        BY <2>3
      <4>2. /\ Bytes(Words) \in Nat /\ Bytes(br.addr) \in Nat /\ br.left \in Int
            /\ Len(br.buf) \in Nat /\ WordBytes \in Nat /\ Len(br.buf) < WordBytes
            /\ br.left = Bytes(Words) - Bytes(br.addr) - Len(br.buf)
        BY <1>2, <1>3, <1>4, <2>1
      <4> QED BY <2>2, <4>1, <4>2
    <3> QED BY <2>3, <3>1, <3>2
  <2> QED
    BY <1>3, <2>1, <2>3, <2>4 DEF BridgeInv, RxState, TxState
<1>8. CASE (RxByte /\ ~rx_rdy) \/ BridgeWaits
  BY <1>1, <1>2, <1>3, <1>8, Stays DEF BridgeInv, Base, RxState, TxState, RxByte, BridgeWaits
<1>9. CASE RxWr
  <2>1. Len(br'.wr) = 1 /\ br'.wr[1].addr = br.addr /\ Len(br'.buf) = 0
    <3>1. br'.wr = <<[addr |-> br.addr, word |-> br.buf]>> /\ br'.buf = <<>>
      BY <1>1, <1>9, Writes
    <3> QED BY <3>1
  <2>2. /\ br.busy /\ ~br.error /\ br.addr < Words /\ dir = "toDevice" /\ ~stream_busy
        /\ br.left = Bytes(Words) - Bytes(br.addr) - WordBytes
    BY <1>9 DEF BridgeInv, RxState, RxWr
  <2>3. BridgeType'
    BY <1>1, <1>9, Writes
  <2>4. CASE br.left = 0
    BY <1>1, <1>2, <1>3, <1>9, <2>1, <2>2, <2>3, <2>4, Writes DEF BridgeInv, RxState, TxState
  <2>5. CASE br.left # 0
    <3>1. br.addr + 1 < Words
      BY <1>2, <1>3, <1>4, <2>2, <2>5
    <3>2. /\ br'.state = "RX_BYTE" /\ br'.busy /\ ~br'.error /\ br'.addr = br.addr + 1
          /\ ~br'.send /\ br'.left = br.left
      BY <1>1, <1>9, <2>2, <2>5, Writes
    <3>3. br'.left = Bytes(Words) - Bytes(br'.addr) - Len(br'.buf)
      BY <1>2, <1>3, <1>4, <2>1, <2>2, <3>2
    <3> QED
      BY <1>2, <1>3, <2>1, <2>2, <2>3, <3>1, <3>2, <3>3 DEF BridgeInv, RxState, TxState
  <2> QED BY <2>4, <2>5
<1>10. CASE TxRd
  BY <1>1, <1>2, <1>3, <1>10, Asks DEF BridgeInv, RxState, TxState, TxRd
<1>11. CASE TxLoad /\ br.valid
  <2>1. Len(Word(br.addr)) = WordBytes
    BY <1>2, WordBytesOf
  <2>2. ASSUME NEW i \in 1 .. WordBytes
        PROVE  Word(br.addr)[i] = Base + WordBytes - WordBytes + i
    <3>1. Word(br.addr)[i] = Header + Bytes(br.addr) + i
      BY <1>2, WordBytesOf
    <3> QED BY <1>2, <1>3, <1>4, <3>1 DEF Base
  <2> QED
    BY <1>1, <1>2, <1>3, <1>4, <1>11, <2>1, <2>2, Loads
    DEF BridgeInv, Base, RxState, TxState, TxLoad
<1>12. CASE TxLoad /\ ~br.valid
  BY <1>1, <1>2, <1>3, <1>12, Awaits DEF BridgeInv, RxState, TxState, TxLoad
<1>13. CASE TxPut
  <2>1. /\ br.state = "TX_PUT" /\ br.busy /\ ~br.error /\ br.addr < Words
        /\ ~stream_busy /\ dir = "toHost"
        /\ 0 < Len(br.buf) /\ Len(br.buf) <= WordBytes
        /\ br.left = Bytes(Words) - Bytes(br.addr)
        /\ ~br.sent => Len(br.buf) = WordBytes /\ ~br.hold
        /\ \A i \in 1 .. Len(br.buf) : br.buf[i] = Base + WordBytes - Len(br.buf) + i
    BY <1>13 DEF BridgeInv, TxState, TxPut
  <2>2. CASE ~br.sent /\ tx_ready
    <3>1. br.buf[1] = Base + WordBytes + 1 - Len(br.buf)
      <4>1. 1 \in 1 .. Len(br.buf)
        BY <1>2, <2>1
      <4>2. br.buf[1] = Base + WordBytes - Len(br.buf) + 1
        BY <2>1, <4>1
      <4> QED BY <1>0, <1>2, <1>3, <4>2
    <3> QED
      BY <1>1, <1>2, <1>3, <1>4, <1>13, <2>1, <2>2, <3>1, SendsFirst
      DEF BridgeInv, Base, RxState, TxState
  <2>3. CASE (br.sent \/ ~tx_ready) /\ (br.hold \/ ~tx_ready)
    BY <1>1, <1>2, <1>3, <1>4, <1>13, <2>1, <2>3, KeepsOff
    DEF BridgeInv, Base, RxState, TxState
  <2>4. CASE br.sent /\ ~br.hold /\ tx_ready /\ Len(br.buf) > 1
    <3> DEFINE b == Base + WordBytes - Len(br.buf)
    <3>1. b \in Int
      BY <1>0, <1>2, <1>3
    <3>2. \A i \in 1 .. Len(br.buf) : br.buf[i] = b + i
      BY <2>1
    <3>3. br'.buf = Tail(br.buf) /\ br'.data = br.buf[2]
      BY <1>1, <1>13, <2>4, SendsNext
    <3>7. /\ BridgeType' /\ br'.state = "TX_PUT" /\ br'.busy /\ ~br'.error
          /\ br'.addr = br.addr /\ br'.left = br.left /\ br'.sent /\ br'.hold /\ br'.wr = <<>>
      BY <1>1, <1>13, <2>1, <2>4, SendsNext
    <3>8. Base' = Base
      BY <1>3, <3>7 DEF Base
    <3>4. /\ Len(br'.buf) = Len(br.buf) - 1 /\ br'.data = b + 2
          /\ \A i \in 1 .. Len(br'.buf) : br'.buf[i] = b + 1 + i
      <4> HIDE DEF b
      <4> QED BY <1>2, <2>4, <3>1, <3>2, <3>3, RestCounts
    <3>5. b + 1 = Base' + WordBytes - Len(br'.buf) /\ b + 2 = Base' + WordBytes + 1 - Len(br'.buf)
      BY <1>0, <1>2, <1>3, <3>4, <3>8
    <3>6. \A i \in 1 .. Len(br'.buf) : br'.buf[i] = Base' + WordBytes - Len(br'.buf) + i
      <4> HIDE DEF b
      <4> QED BY <3>4, <3>5
    <3> HIDE DEF b
    <3> QED
      <4>1. 0 < Len(br'.buf) /\ Len(br'.buf) <= WordBytes
        BY <1>2, <1>3, <2>1, <2>4, <3>4
      <4>2. br'.data = Base' + WordBytes + 1 - Len(br'.buf)
        BY <3>4, <3>5
      <4> QED
        BY <1>3, <2>1, <3>6, <3>7, <4>1, <4>2 DEF BridgeInv, RxState, TxState
  <2>5. CASE br.sent /\ ~br.hold /\ tx_ready /\ ~(Len(br.buf) > 1)
    <3>1. CASE br.left = WordBytes
      <4>1. /\ BridgeType' /\ br'.state = "DONE" /\ ~br'.busy /\ ~br'.error
            /\ ~br'.send /\ br'.left = br.left - WordBytes /\ br'.wr = <<>>
        BY <1>1, <1>13, <2>1, <2>5, <3>1, EndsWord
      <4>2. Words # 0 /\ br'.left = 0
        BY <1>2, <1>3, <2>1, <3>1, <4>1
      <4> QED
        BY <1>3, <2>1, <4>1, <4>2 DEF BridgeInv, RxState, TxState
    <3>2. CASE br.left # WordBytes
      <4>1. br.addr + 1 < Words
        BY <1>2, <1>3, <1>4, <2>1, <3>2
      <4> QED
        BY <1>1, <1>2, <1>3, <1>4, <1>13, <2>1, <2>5, <3>2, <4>1, EndsWord, SMTT(30)
        DEF BridgeInv, RxState, TxState
    <3> QED BY <3>1, <3>2
  <2> QED BY <1>2, <2>2, <2>3, <2>4, <2>5
<1>14. CASE BridgeClear
  BY <1>1, <1>2, <1>3, <1>14, Clears DEF BridgeInv, RxState, TxState, BridgeClear
<1> QED
  BY <1>5, <1>6, <1>7, <1>8, <1>9, <1>10, <1>11, <1>12, <1>13, <1>14 DEF BridgeRuns

-------------------------------------------------------------------------------
(* What the processor's registers are after a step.                        *)

\* The pulses have fallen.
LEMMA QuietType ==
  ASSUME CpuType
  PROVE  Quiet \in CpuRegs
  BY Zenon DEF CpuType, CpuRegs, Quiet

\* bridge_run is called.
LEMMA StartFields ==
  ASSUME CpuType, CpuStart
  PROVE  /\ CpuType'
         /\ cpu'.pc = "wait" /\ cpu'.pause /\ ~cpu'.ack /\ ~cpu'.send
         /\ (cpu'.ready <=> cpu.ready) /\ cpu'.moved = cpu.moved
         /\ cpu'.got = cpu.got /\ cpu'.data = cpu.data
<1>1. Quiet \in CpuRegs
  BY QuietType
<1> QED
  BY <1>1, Zenon DEF CpuStart, Access, CpuType, CpuRegs, Quiet

\* The poll succeeds.
LEMMA ReadyFields ==
  ASSUME CpuType, CpuReady
  PROVE  /\ CpuType'
         /\ cpu'.ready /\ cpu'.pause /\ ~cpu'.ack /\ ~cpu'.send
         /\ cpu'.pc = cpu.pc /\ cpu'.moved = cpu.moved /\ cpu'.got = cpu.got
         /\ cpu'.data = cpu.data
<1>1. Quiet \in CpuRegs
  BY QuietType
<1> QED
  BY <1>1, Zenon DEF CpuReady, Access, CpuType, CpuRegs, Quiet

\* uart_putc.
LEMMA PutFields ==
  ASSUME CpuType, CpuByte, dir = "toHost"
  PROVE  /\ CpuType'
         /\ cpu'.pc = (IF cpu.moved + 1 = Header THEN "start"
                       ELSE IF cpu.moved + 1 = Total THEN "done" ELSE cpu.pc)
         /\ ~cpu'.ready /\ cpu'.pause /\ cpu'.moved = cpu.moved + 1 /\ ~cpu'.ack
         /\ cpu'.send /\ cpu'.data = cpu.moved + 1
         /\ cpu'.got = cpu.got
<1>1. Quiet \in CpuRegs
  BY QuietType
<1>2. cpu.moved \in Nat /\ cpu.pc \in {"byte", "copy"} /\ cpu.got \in Seq(Nat)
  BY Zenon DEF CpuType, CpuRegs, CpuByte
<1>3. cpu.moved + 1 \in Nat
  BY <1>2
<1> DEFINE p == IF cpu.moved + 1 = Header THEN "start"
                ELSE IF cpu.moved + 1 = Total THEN "done" ELSE cpu.pc
           c == [Quiet EXCEPT !.ready = FALSE, !.pause = TRUE, !.moved = cpu.moved + 1, !.pc = p]
<1>4. p \in {"byte", "start", "wait", "copy", "done"}
  BY <1>2, Zenon
<1>5. cpu' = [c EXCEPT !.send = TRUE, !.data = cpu.moved + 1]
  BY Zenon DEF CpuByte, Access
<1> HIDE DEF p
<1>6. c \in CpuRegs
  BY <1>1, <1>3, <1>4, Zenon DEF CpuRegs
<1>7. cpu' \in CpuRegs
  <2> HIDE DEF c
  <2> QED BY <1>3, <1>5, <1>6, Zenon DEF CpuRegs
<1>8. /\ cpu'.pc = p /\ ~cpu'.ready /\ cpu'.pause /\ cpu'.moved = cpu.moved + 1 /\ ~cpu'.ack
      /\ cpu'.send /\ cpu'.data = cpu.moved + 1 /\ cpu'.got = cpu.got
  BY <1>1, <1>5, Zenon DEF CpuType, CpuRegs, Quiet
<1> QED
  BY <1>7, <1>8, Zenon DEF p, CpuType

\* uart_getc.
LEMMA GetFields ==
  ASSUME CpuType, LineType, CpuByte, dir = "toDevice", rx_rdy
  PROVE  /\ CpuType'
         /\ cpu'.pc = (IF cpu.moved + 1 = Header THEN "start"
                       ELSE IF cpu.moved + 1 = Total THEN "done" ELSE cpu.pc)
         /\ ~cpu'.ready /\ cpu'.pause /\ cpu'.moved = cpu.moved + 1
         /\ cpu'.got = Append(cpu.got, Head(ur.fifo)) /\ cpu'.ack /\ ~cpu'.send
         /\ cpu'.data = cpu.data
<1>1. Quiet \in CpuRegs
  BY QuietType
<1>2. cpu.moved \in Nat /\ cpu.pc \in {"byte", "copy"} /\ cpu.got \in Seq(Nat)
  BY Zenon DEF CpuType, CpuRegs, CpuByte
<1>3. cpu.moved + 1 \in Nat
  BY <1>2
<1> DEFINE p == IF cpu.moved + 1 = Header THEN "start"
                ELSE IF cpu.moved + 1 = Total THEN "done" ELSE cpu.pc
           c == [Quiet EXCEPT !.ready = FALSE, !.pause = TRUE, !.moved = cpu.moved + 1, !.pc = p]
           g == Append(cpu.got, Head(ur.fifo))
<1>4. p \in {"byte", "start", "wait", "copy", "done"}
  BY <1>2, Zenon
<1>5. cpu' = [c EXCEPT !.ack = TRUE, !.got = g]
  BY Zenon DEF CpuByte, Access, rx_data
<1>9. g \in Seq(Nat)
  <2>1. ur.fifo \in Seq(Nat)
    BY Zenon DEF LineType
  <2> QED BY <1>2, <2>1 DEF rx_rdy
<1> HIDE DEF p, g
<1>6. c \in CpuRegs
  BY <1>1, <1>3, <1>4, Zenon DEF CpuRegs
<1>7. cpu' \in CpuRegs
  <2> HIDE DEF c
  <2> QED BY <1>3, <1>5, <1>6, <1>9, Zenon DEF CpuRegs
<1>8. /\ cpu'.pc = p /\ ~cpu'.ready /\ cpu'.pause /\ cpu'.moved = cpu.moved + 1 /\ cpu'.ack
      /\ ~cpu'.send /\ cpu'.data = cpu.data /\ cpu'.got = g
  BY <1>1, <1>5, Zenon DEF CpuType, CpuRegs, Quiet
<1> QED
  BY <1>7, <1>8, Zenon DEF p, g, CpuType

\* bridge_run returns.
LEMMA EndFields ==
  ASSUME CpuType, CpuEnd
  PROVE  /\ CpuType'
         /\ cpu'.pc = (IF br.error /\ dir = "toDevice" /\ Words > 0 THEN "copy" ELSE "done")
         /\ cpu'.pause /\ ~cpu'.ack /\ ~cpu'.send
         /\ (cpu'.ready <=> cpu.ready) /\ cpu'.moved = cpu.moved
         /\ cpu'.got = cpu.got /\ cpu'.data = cpu.data
<1>1. Quiet \in CpuRegs
  BY QuietType
<1> QED
  BY <1>1, Zenon DEF CpuEnd, Access, CpuType, CpuRegs, Quiet

\* The processor does not touch the UART.
LEMMA WaitFields ==
  ASSUME CpuType, CpuWaits
  PROVE  /\ CpuType'
         /\ ~cpu'.pause /\ ~cpu'.ack /\ ~cpu'.send
         /\ cpu'.pc = cpu.pc /\ (cpu'.ready <=> cpu.ready)
         /\ cpu'.moved = cpu.moved /\ cpu'.got = cpu.got /\ cpu'.data = cpu.data
<1>1. Quiet \in CpuRegs
  BY QuietType
<1> QED
  BY <1>1, Zenon DEF CpuWaits, CpuType, CpuRegs, Quiet


-------------------------------------------------------------------------------
(* The line after an edge.                                                 *)

\* What is handed to the line's transmitter, and taken from its receiver.
Send == IF dir = "toHost" THEN SocSend ELSE box.send
Byte == IF dir = "toHost" THEN SocData ELSE box.byte
Ack == IF dir = "toHost" THEN box.ack ELSE SocAck
Added == IF Overrun THEN <<>> ELSE ur.new
Kept == IF Ack /\ rx_rdy THEN Tail(ur.fifo) ELSE ur.fifo

\* Nothing waits in tdata_pending: a byte is handed over only to a transmitter
\* that is ready.
LEMMA LineStep ==
  ASSUME TypeInv, Line, Send => ut.fin
  PROVE  /\ LineType'
         /\ ut.fin /\ ~Send => ut'.fin /\ ut'.tmr = 0
         /\ Send => ~ut'.fin /\ ut'.tmr = 0 /\ ut'.data = Byte
         /\ ~ut.fin => /\ ut'.fin <=> ut.tmr = Frame + Gap
                       /\ ut'.tmr = ut.tmr + 1 /\ ut'.data = ut.data
         /\ ur'.new = IF ~ut.fin /\ ut.tmr = Frame THEN <<ut.data>> ELSE <<>>
         /\ ur'.fifo = Kept \o Added
<1>1. /\ ut.fin \in BOOLEAN /\ ut.data \in Nat /\ ut.tmr \in Nat /\ ut.pending = <<>>
      /\ ur.fifo \in Seq(Nat) /\ ur.new \in Seq(Nat)
  BY Zenon DEF TypeInv, LineType
<1>2. Byte \in Nat
  <2>1. cpu.data \in Nat /\ br.data \in Nat /\ box.byte \in Nat
    BY Zenon DEF TypeInv, CpuType, CpuRegs, BridgeType, BridgeRegs, BoxType, BoxRegs
  <2> QED BY <2>1 DEF Byte, SocData
<1> DEFINE loaded == ut.fin /\ (Send \/ ut.pending # <<>>)
           fin == IF ut.fin THEN ~loaded ELSE ut.tmr = Frame + Gap
           tmr == IF ut.fin THEN 0 ELSE ut.tmr + 1
           data == IF ~loaded THEN ut.data ELSE IF ut.pending # <<>> THEN ut.pending[1] ELSE Byte
           pending == IF ut.fin THEN <<>> ELSE IF Send THEN <<Byte>> ELSE ut.pending
<1>3. ut' = [fin |-> fin, tmr |-> tmr, data |-> data, pending |-> pending]
  BY Zenon DEF Line, UartTx, Send, Byte
<1>4. fin \in BOOLEAN /\ tmr \in Nat /\ data \in Nat /\ pending = <<>>
  <2>1. tmr \in Nat
    BY <1>1
  <2> QED BY <1>1, <1>2, <2>1, Zenon
<1>5. /\ ut.fin /\ ~Send => fin /\ tmr = 0
      /\ Send => ~fin /\ tmr = 0 /\ data = Byte
      /\ ~ut.fin => /\ fin <=> ut.tmr = Frame + Gap
                    /\ tmr = ut.tmr + 1 /\ data = ut.data
  BY <1>1, Zenon
<1> HIDE DEF loaded, fin, tmr, data, pending
<1>6. (ut'.fin <=> fin) /\ ut'.tmr = tmr /\ ut'.data = data /\ ut'.pending = <<>>
  BY <1>3, <1>4, Zenon
<1>7. <<>> \in Seq(Nat)
  OBVIOUS
<1>8. ut' \in [fin : BOOLEAN, data : Nat, pending : Seq(Nat), tmr : Nat]
  BY <1>3, <1>4, <1>7, Zenon
<1>9. /\ ur' = [new |-> IF ~ut.fin /\ ut.tmr = Frame THEN <<ut.data>> ELSE <<>>,
                fifo |-> Kept \o Added]
  BY Zenon DEF Line, UartRx, Ack, Kept, Added
<1>10. /\ ur'.new = (IF ~ut.fin /\ ut.tmr = Frame THEN <<ut.data>> ELSE <<>>)
       /\ ur'.fifo = Kept \o Added
  BY <1>9, Zenon
<1>11. ur' \in [fifo : Seq(Nat), new : Seq(Nat)]
  <2>1. Kept \o Added \in Seq(Nat)
    BY <1>1 DEF Kept, Added, rx_rdy
  <2>2. (IF ~ut.fin /\ ut.tmr = Frame THEN <<ut.data>> ELSE <<>>) \in Seq(Nat)
    BY <1>1
  <2> QED BY <1>9, <2>1, <2>2, Zenon
<1> QED
  BY <1>5, <1>6, <1>8, <1>10, <1>11, Zenon DEF LineType

-------------------------------------------------------------------------------
(* Firmware, bridge and line together.                                     *)

\* The processor acts while the bridge rests, starts it, clears it, or waits.
LEMMA SocCases ==
  ASSUME TypeInv, CpuInv, BridgeInv, NEW acts \in BOOLEAN, IutEdge(acts)
  PROVE  /\ \/ CpuStart /\ BridgeStart /\ bridge_owner'
            \/ (CpuReady \/ CpuByte) /\ BridgeWaits /\ ~bridge_owner'
            \/ CpuEnd /\ BridgeClear /\ ~bridge_owner'
            \/ CpuWaits /\ BridgeRuns /\ (bridge_owner' <=> bridge_owner /\ br.busy)
         /\ bridge_owner' \in BOOLEAN
<1>1. /\ br.busy <=> br.state \in RxState \cup TxState
      /\ br.busy \in BOOLEAN /\ bridge_owner \in BOOLEAN
  BY Zenon DEF BridgeInv, TypeInv, BridgeType, BridgeRegs
<1>2. CASE CpuStart
  BY <1>2, Zenon DEF CpuStart
<1>3. CASE (CpuReady \/ CpuByte) /\ BridgeRuns /\ OwnerReleased
  <2>1. br.state = "IDLE" /\ ~bridge_owner
    <3>1. cpu.pc # "wait"
      BY <1>3 DEF CpuReady, CpuByte
    <3> QED BY <3>1, Zenon DEF CpuInv
  <2>2. BridgeWaits
    BY <1>3, <2>1 DEF BridgeRuns, RxByte, RxWr, TxRd, TxLoad, TxPut, BridgeWaits
  <2> QED BY <1>1, <1>3, <2>1, <2>2, Zenon DEF OwnerReleased
<1>4. CASE CpuEnd /\ OwnerReleased
  BY <1>1, <1>4, Zenon DEF CpuEnd, OwnerReleased
<1>5. CASE CpuWaits /\ BridgeRuns /\ OwnerReleased
  BY <1>1, <1>5, Zenon DEF OwnerReleased
<1> QED
  BY <1>2, <1>3, <1>4, <1>5, Zenon DEF IutEdge

\* A byte is handed only to a transmitter that is ready.
LEMMA SendsReady ==
  ASSUME TypeInv, CpuInv, OwnerInv, BoxInv
  PROVE  Send => ut.fin
  BY Sizes, Zenon DEF CpuInv, OwnerInv, BoxInv, Send, SocSend

\* The bridge's own invariant.
LEMMA SocBridge ==
  ASSUME TypeInv, CpuInv, BridgeInv, OwnerInv, NEW acts \in BOOLEAN, IutEdge(acts),
         UNCHANGED <<transfer, stream_busy>>
  PROVE  BridgeType' /\ BridgeInv'
<1>1. CpuStart => br.addr = 0
  BY Zenon DEF OwnerInv, CpuStart
<1>2. (BridgeStart /\ br.addr = 0) \/ BridgeClear \/ BridgeRuns
  BY <1>1, SocCases, Zenon DEF BridgeRuns
<1> QED
  BY <1>2, BridgeKeeps

\* What a running bridge leaves alone, and when it sends.
LEMMA Runs ==
  ASSUME TypeInv, BridgeInv, BridgeRuns
  PROVE  /\ br.state = "IDLE" => br'.state = "IDLE" /\ br'.addr = br.addr
         /\ br.state # "IDLE" => br'.state # "IDLE"
         /\ br'.busy => br.busy
         /\ br'.send => tx_ready /\ ~br.send /\ br.state = "TX_PUT"
<1>1. BridgeType /\ LineType /\ TypeInv
  BY DEF TypeInv
<1>2. /\ br.busy <=> br.state \in RxState \cup TxState
      /\ br.send => br.sent /\ br.hold
      /\ br.state = "TX_PUT" => Len(br.buf) > 0
  BY Zenon DEF BridgeInv
<1>3. CASE RxByte /\ rx_rdy
  <2>1. br.state = "RX_BYTE" /\ br'.state \in {"RX_BYTE", "RX_WR"} /\ ~br'.send
    BY <1>1, <1>3, Takes, Zenon DEF RxByte
  <2> QED BY <1>2, <2>1 DEF RxState
<1>4. CASE (RxByte /\ ~rx_rdy) \/ BridgeWaits
  BY <1>1, <1>4, Stays, Zenon DEF RxByte, BridgeWaits
<1>5. CASE RxWr
  <2>1. br.state = "RX_WR" /\ br'.state \in {"RX_BYTE", "DONE"} /\ ~br'.send
    BY <1>1, <1>5, Writes, Zenon DEF RxWr
  <2> QED BY <1>2, <2>1 DEF RxState
<1>6. CASE TxRd
  <2>1. br.state = "TX_RD" /\ br'.state = "TX_LOAD" /\ ~br'.send
    BY <1>1, <1>6, Asks, Zenon DEF TxRd
  <2> QED BY <1>2, <2>1 DEF TxState
<1>7. CASE TxLoad
  <2>1. br.state = "TX_LOAD"
    BY <1>7 DEF TxLoad
  <2>2. br'.state \in {"TX_LOAD", "TX_PUT"} /\ ~br'.send
    BY <1>1, <1>7, <2>1, Loads, Awaits, Zenon
  <2> QED BY <1>2, <2>1, <2>2 DEF TxState
<1>8. CASE TxPut
  <2>1. br.state = "TX_PUT" /\ br.busy /\ Len(br.buf) > 0
    BY <1>2, <1>8 DEF TxState, TxPut
  <2>2. CASE ~br.sent /\ tx_ready
    BY <1>1, <1>2, <1>8, <2>1, <2>2, SendsFirst, Zenon
  <2>3. CASE (br.sent \/ ~tx_ready) /\ (br.hold \/ ~tx_ready)
    BY <1>1, <1>2, <1>8, <2>1, <2>3, KeepsOff, Zenon
  <2>4. CASE br.sent /\ ~br.hold /\ tx_ready /\ Len(br.buf) > 1
    BY <1>1, <1>2, <1>8, <2>1, <2>4, SendsNext, Zenon
  <2>5. CASE br.sent /\ ~br.hold /\ tx_ready /\ ~(Len(br.buf) > 1)
    <3>1. br'.state \in {"DONE", "TX_RD"} /\ ~br'.send
      BY <1>1, <1>8, <2>5, EndsWord, Zenon
    <3> QED BY <2>1, <3>1
  <2> QED BY <2>2, <2>3, <2>4, <2>5, Zenon
<1> QED
  BY <1>3, <1>4, <1>5, <1>6, <1>7, <1>8 DEF BridgeRuns

\* What holds between firmware and bridge is kept on an edge of the SoC's clock.
LEMMA SocKeeps ==
  ASSUME TypeInv, CpuInv, BridgeInv, OwnerInv, BoxInv, NEW acts \in BOOLEAN, IutEdge(acts),
         UNCHANGED <<transfer, stream_busy>>
  PROVE  CpuType' /\ CpuInv' /\ OwnerInv'
<1>1. CpuType /\ BridgeType /\ LineType /\ BridgeType' /\ BridgeInv' /\ cpu.moved \in Nat
  BY SocBridge, Zenon DEF TypeInv, CpuType, CpuRegs
<1>2. /\ Header' = Header /\ Words' = Words /\ dir' = dir /\ Total' = Total
      /\ (stream_busy' <=> stream_busy)
      /\ Header \in Nat /\ Words \in Nat /\ Total \in Nat /\ Header <= Total
      /\ Words > 0 => Header < Total
      /\ dir \in {"toHost", "toDevice"}
  <2>1. Words > 0 => Bytes(Words) > 0
    <3>1. Words \in Nat /\ WordBytes \in Nat /\ WordBytes > 0
      BY Sizes
    <3>2. ASSUME Words > 0 PROVE Bytes(Words) > 0
      BY <3>1, <3>2 DEF Bytes
    <3> QED BY <3>2
  <2> QED BY <2>1, Sizes DEF Header, Words, dir, Total
<1>3. /\ ut.fin /\ ~Send => ut'.fin
      /\ ~(Ack /\ rx_rdy) /\ ur.fifo # <<>> => ur'.fifo # <<>>
  <2>1. Line
    BY Zenon DEF IutEdge
  <2>2. ur'.fifo = Kept \o Added /\ (ut.fin /\ ~Send => ut'.fin)
    BY <2>1, LineStep, SendsReady
  <2>3. ur.fifo \in Seq(Nat) /\ ur.new \in Seq(Nat)
    BY <1>1, Zenon DEF LineType
  <2>4. ASSUME ~(Ack /\ rx_rdy), ur.fifo # <<>> PROVE ur'.fifo # <<>>
    <3>1. Kept = ur.fifo /\ Added \in Seq(Nat)
      BY <2>3, <2>4 DEF Kept, Added
    <3> QED BY <2>2, <2>3, <2>4, <3>1
  <2> QED BY <2>2, <2>4
<1>4. CASE CpuStart /\ BridgeStart /\ bridge_owner'
  <2>1. /\ CpuType' /\ cpu'.pc = "wait" /\ ~cpu'.ack /\ ~cpu'.send /\ ~cpu'.ready
        /\ cpu'.moved = cpu.moved /\ cpu.moved = Header
    BY <1>1, <1>4, StartFields, Zenon DEF CpuInv, CpuStart
  <2>2. br'.state # "IDLE" /\ ~br'.send
    <3>1. CASE stream_busy \/ Words = 0
      BY <1>1, <1>4, <3>1, StartRefused
    <3>2. CASE ~(stream_busy \/ Words = 0)
      BY <1>1, <1>4, <3>2, Starts
    <3> QED BY <3>1, <3>2
  <2> QED BY <1>2, <1>4, <2>1, <2>2, Zenon DEF CpuInv, OwnerInv
<1>5. CASE CpuReady /\ BridgeWaits /\ ~bridge_owner'
  <2>1. /\ CpuType' /\ cpu'.pc = cpu.pc /\ ~cpu'.ack /\ ~cpu'.send /\ cpu'.ready
        /\ cpu'.moved = cpu.moved /\ cpu.pc \in {"byte", "copy"} /\ ~cpu.pause
    BY <1>1, <1>5, ReadyFields, Zenon DEF CpuReady, Access
  <2>2. /\ br.state = "IDLE" /\ ~bridge_owner /\ ~cpu.send /\ ~cpu.ack
        /\ br'.state = "IDLE" /\ br'.addr = br.addr /\ ~br'.send /\ ~br'.busy
    <3>1. br.state = "IDLE" /\ ~bridge_owner /\ ~cpu.send /\ ~cpu.ack
      <4>1. cpu.pc # "wait"
        BY <2>1
      <4> QED BY <2>1, <4>1, Zenon DEF CpuInv
    <3>2. br'.state = br.state /\ br'.addr = br.addr /\ ~br'.send
      BY <1>1, <1>5, Stays, Zenon DEF BridgeWaits
    <3>3. br'.busy <=> br'.state \in RxState \cup TxState
      BY <1>1, Zenon DEF BridgeInv
    <3> QED BY <3>1, <3>2, <3>3 DEF RxState, TxState
  <2>3. (dir = "toHost" => ut'.fin) /\ (dir = "toDevice" => ur'.fifo # <<>>)
    BY <1>2, <1>3, <1>5, <2>2 DEF CpuReady, tx_ready, rx_rdy, Send, Ack, SocSend, SocAck
  <2>4. /\ cpu'.pc = "byte" => cpu'.moved < Header
        /\ cpu'.pc = "copy" => /\ dir = "toDevice" /\ stream_busy
                               /\ Header <= cpu'.moved /\ cpu'.moved < Total
        /\ cpu'.pc \in {"byte", "copy"}
        /\ cpu'.pc = "byte" => br'.addr = 0
    BY <2>1, <2>2, Zenon DEF CpuInv, OwnerInv
  <2>5. cpu'.pc # "wait" /\ cpu'.pc # "start"
    BY <2>4
  <2> QED BY <1>2, <1>5, <2>1, <2>2, <2>3, <2>4, <2>5, Zenon DEF CpuInv, OwnerInv
<1>6. CASE CpuByte /\ BridgeWaits /\ ~bridge_owner'
  <2>1. /\ cpu.pc \in {"byte", "copy"} /\ cpu.ready /\ ~cpu.pause
        /\ dir = "toHost" => ut.fin
        /\ dir = "toDevice" => ur.fifo # <<>>
    BY <1>6, Zenon DEF CpuByte, Access, CpuInv
  <2>2. /\ br.state = "IDLE" /\ ~bridge_owner /\ ~cpu.send /\ ~cpu.ack
        /\ br'.state = "IDLE" /\ br'.addr = br.addr /\ ~br'.send /\ ~br'.busy
    <3>1. br.state = "IDLE" /\ ~bridge_owner /\ ~cpu.send /\ ~cpu.ack
      <4>1. cpu.pc # "wait"
        BY <2>1
      <4> QED BY <2>1, <4>1, Zenon DEF CpuInv
    <3>2. br'.state = br.state /\ br'.addr = br.addr /\ ~br'.send
      BY <1>1, <1>6, Stays, Zenon DEF BridgeWaits
    <3>3. br'.busy <=> br'.state \in RxState \cup TxState
      BY <1>1, Zenon DEF BridgeInv
    <3> QED BY <3>1, <3>2, <3>3 DEF RxState, TxState
  <2>3. (dir = "toHost" => ut'.fin) /\ (dir = "toDevice" => ur'.fifo # <<>>)
    BY <1>2, <1>3, <2>1, <2>2 DEF Send, Ack, SocSend, SocAck
  <2>4. /\ CpuType' /\ ~cpu'.ready /\ cpu'.pause /\ cpu'.moved = cpu.moved + 1
        /\ cpu'.pc = IF cpu.moved + 1 = Header THEN "start"
                     ELSE IF cpu.moved + 1 = Total THEN "done" ELSE cpu.pc
        /\ cpu'.send => dir = "toHost" /\ cpu'.data = cpu'.moved
        /\ cpu'.ack => dir = "toDevice"
    <3>1. CASE dir = "toHost"
      BY <1>1, <1>6, <3>1, PutFields, Zenon
    <3>2. CASE dir = "toDevice"
      <4>1. rx_rdy
        BY <2>1, <3>2 DEF rx_rdy
      <4> QED BY <1>1, <1>6, <3>2, <4>1, GetFields, Zenon
    <3> QED BY <1>2, <3>1, <3>2
  <2>5. /\ cpu'.moved > 0
        /\ cpu'.pc = "byte" => cpu'.moved < Header /\ cpu.pc = "byte"
        /\ cpu'.pc = "start" => cpu'.moved = Header /\ cpu.pc = "byte"
        /\ cpu'.pc = "copy" => /\ dir = "toDevice" /\ stream_busy
                               /\ Header <= cpu'.moved /\ cpu'.moved < Total
        /\ cpu'.pc # "wait"
    <3>1. /\ cpu.pc = "byte" => cpu.moved < Header
          /\ cpu.pc = "copy" => /\ dir = "toDevice" /\ stream_busy
                                /\ Header <= cpu.moved /\ cpu.moved < Total
      BY Zenon DEF CpuInv
    <3>2. CASE cpu.pc = "byte"
      BY <1>1, <1>2, <2>4, <3>1, <3>2
    <3>3. CASE cpu.pc = "copy"
      BY <1>1, <1>2, <2>4, <3>1, <3>3
    <3> QED BY <2>1, <3>2, <3>3
  <2>6. cpu.pc = "byte" => br'.addr = 0
    BY <2>2, Zenon DEF OwnerInv
  <2>7. cpu'.pc \in {"start", "wait"} => cpu'.pc = "start"
    BY <2>5
  <2>8. cpu'.pc \in {"byte", "start"} => cpu.pc = "byte"
    BY <2>5
  <2> QED
    BY <1>2, <1>6, <2>2, <2>3, <2>4, <2>5, <2>6, <2>7, <2>8, Zenon DEF CpuInv, OwnerInv
<1>7. CASE CpuEnd /\ BridgeClear /\ ~bridge_owner'
  <2>1. /\ CpuType' /\ ~cpu'.ack /\ ~cpu'.send /\ (cpu'.ready <=> cpu.ready)
        /\ cpu'.moved = cpu.moved
        /\ cpu'.pc = (IF br.error /\ dir = "toDevice" /\ Words > 0 THEN "copy" ELSE "done")
    BY <1>1, <1>7, EndFields, Zenon
  <2>2. br'.state = "IDLE" /\ ~br'.send /\ br.state = "DONE"
    BY <1>1, <1>7, Clears, Zenon DEF BridgeClear
  <2>3. /\ cpu.pc = "wait" /\ ~cpu.ready /\ cpu.moved = Header
        /\ br.error <=> stream_busy \/ Words = 0
    <3>1. cpu.pc = "wait"
      BY <1>7 DEF CpuEnd
    <3> QED BY <2>2, <3>1, Zenon DEF CpuInv, BridgeInv
  <2>4. ~br'.busy
    <3>1. br'.busy <=> br'.state \in RxState \cup TxState
      BY <1>1, Zenon DEF BridgeInv
    <3> QED BY <2>2, <3>1 DEF RxState, TxState
  <2>5. cpu'.pc = "copy" => /\ dir = "toDevice" /\ stream_busy
                            /\ Header <= cpu'.moved /\ cpu'.moved < Total
    BY <1>2, <2>1, <2>3
  <2>6. cpu'.pc = "copy" \/ cpu'.pc = "done"
    BY <2>1
  <2>7. /\ cpu'.pc # "wait" /\ cpu'.pc # "byte" /\ cpu'.pc # "start"
        /\ cpu'.pc \notin {"start", "wait"} /\ cpu'.pc \notin {"byte", "start"}
    BY <2>6
  <2> QED
    BY <1>2, <1>7, <2>1, <2>2, <2>3, <2>4, <2>5, <2>7, Zenon DEF CpuInv, OwnerInv
<1>8. CASE CpuWaits /\ BridgeRuns /\ (bridge_owner' <=> bridge_owner /\ br.busy)
  <2>1. /\ CpuType' /\ cpu'.pc = cpu.pc /\ (cpu'.ready <=> cpu.ready) /\ ~cpu'.ack
        /\ ~cpu'.send /\ cpu'.moved = cpu.moved
    BY <1>1, <1>8, WaitFields, Zenon
  <2>2. /\ br.state = "IDLE" => br'.state = "IDLE" /\ br'.addr = br.addr
        /\ br.state # "IDLE" => br'.state # "IDLE"
        /\ br'.busy => br.busy
        /\ br'.send => tx_ready /\ ~br.send /\ br.state = "TX_PUT"
    BY <1>8, Runs
  <2>3. cpu'.ready => (dir = "toHost" => ut'.fin) /\ (dir = "toDevice" => ur'.fifo # <<>>)
    <3>1. ASSUME cpu.ready PROVE ~cpu.ack /\ ~cpu.send /\ ~bridge_owner
      <4>1. cpu.pc # "wait" /\ ~cpu.ack /\ ~cpu.send
        <5>1. cpu.pc \in {"byte", "copy"} /\ ~cpu.ack /\ ~cpu.send
          BY <3>1, Zenon DEF CpuInv
        <5> QED BY <5>1
      <4> QED BY <4>1, Zenon DEF CpuInv
    <3>2. ASSUME cpu.ready PROVE (dir = "toHost" => ut.fin) /\ (dir = "toDevice" => ur.fifo # <<>>)
      BY <3>2, Zenon DEF CpuInv
    <3> QED
      BY <1>2, <1>3, <2>1, <3>1, <3>2 DEF Send, Ack, SocSend, SocAck
  <2>4. br'.send => ut'.fin
    <3>1. ASSUME br'.send PROVE ut'.fin
      <4>1. dir = "toHost" /\ bridge_owner /\ ~br.send /\ ut.fin
        <5>1. br.state \in TxState /\ br.state \in RxState \cup TxState
          BY <2>2, <3>1 DEF TxState
        <5>2. br.busy /\ dir = "toHost"
          BY <5>1, Zenon DEF BridgeInv
        <5> QED BY <2>2, <3>1, <5>2, Zenon DEF OwnerInv, tx_ready
      <4> QED BY <1>3, <4>1, Zenon DEF Send, SocSend
    <3> QED BY <3>1
  <2>5. br'.busy => bridge_owner'
    BY <1>8, <2>2, Zenon DEF OwnerInv
  <2>6. /\ cpu.pc # "wait" => br.state = "IDLE" /\ ~bridge_owner
        /\ cpu.pc \in {"byte", "start"} => cpu.pc # "wait"
        /\ cpu.pc = "wait" => br.state # "IDLE"
    <3>1. cpu.pc \in {"byte", "start"} => cpu.pc # "wait"
      OBVIOUS
    <3> QED BY <3>1, Zenon DEF CpuInv
  <2>7. CpuInv'
    BY <1>2, <1>8, <2>1, <2>2, <2>3, <2>6, Zenon DEF CpuInv
  <2>8. OwnerInv'
    BY <2>1, <2>2, <2>4, <2>5, <2>6, Zenon DEF OwnerInv
  <2> QED BY <2>1, <2>7, <2>8
<1> QED
  BY <1>4, <1>5, <1>6, <1>7, <1>8, SocCases

-------------------------------------------------------------------------------
(* The FIFO between the clocks.                                            *)

\* A side that does nothing finds full, empty and the oldest byte no worse.
LEMMA EdgeKeeps ==
  ASSUME FifoInv, NEW w \in BOOLEAN, NEW wren \in BOOLEAN, NEW r \in BOOLEAN,
         NEW rden \in BOOLEAN, NEW wdata \in Data, Edge(w, wren, wdata, r, rden)
  PROVE  /\ FifoInv' /\ count_rd \in Nat /\ count_rd' \in Nat
         /\ count_rd' >= count_rd - 1
         /\ ~(r /\ rden) => count_rd' >= count_rd
         /\ ~(w /\ wren) /\ ~full => ~full'
         /\ ~(r /\ rden) /\ ~empty =>
              ~empty' /\ queue # <<>> /\ queue' # <<>> /\ Head(queue') = Head(queue)
<1>1. /\ FifoInv'
      /\ ~(w /\ wren) => count_wr' <= count_wr
      /\ count_rd' >= count_rd - 1
      /\ ~(r /\ rden) => count_rd' >= count_rd
  BY EdgeStep
<1>2. /\ wr_ptr_b' \in Ptr /\ rd_ptr_b' \in Ptr /\ IsCode(wr_g_sync2') /\ IsCode(rd_g_sync2')
      /\ gray2bin[wr_g_sync2'] \in Ptr /\ gray2bin[rd_g_sync2'] \in Ptr
  BY <1>1 DEF FifoInv, Types, IsCode
<1>3. (full' <=> count_wr' = DEPTH) /\ (empty' <=> count_rd' = 0)
  BY <1>2, FullTest, EmptyTest DEF full, empty, count_wr, count_rd
<1>4. count_wr' \in Nat /\ count_rd' \in Nat
  BY <1>2, MinusNat DEF count_wr, count_rd
<1>5. /\ count_wr \in Nat /\ count_rd \in Nat /\ count_wr <= DEPTH
      /\ full <=> count_wr = DEPTH
      /\ empty <=> count_rd = 0
  BY Counts
<1>6. ASSUME ~(w /\ wren), ~full PROVE ~full'
  <2>1. count_wr # DEPTH /\ count_wr' <= count_wr
    BY <1>1, <1>5, <1>6
  <2>2. count_wr' # DEPTH
    BY <1>4, <1>5, <2>1, DepthType
  <2> QED BY <1>3, <2>2
<1>7. ASSUME ~(r /\ rden), ~empty
      PROVE  ~empty' /\ queue # <<>> /\ queue' # <<>> /\ Head(queue') = Head(queue)
  <2>1. count_rd # 0 /\ count_rd' >= count_rd
    BY <1>1, <1>5, <1>7
  <2>2. count_rd' # 0
    BY <1>4, <1>5, <2>1
  <2>3. queue # <<>> /\ queue \in Seq(Data)
    BY <1>7, OldestShown DEF FifoInv, Types
  <2>4. queue' = queue \/ queue' = Append(queue, wdata)
    BY <1>7, Zenon DEF Edge
  <2>5. Append(queue, wdata) # <<>> /\ Head(Append(queue, wdata)) = Head(queue)
    BY <2>3
  <2> QED BY <1>3, <2>2, <2>3, <2>4, <2>5
<1> QED
  BY <1>1, <1>4, <1>5, <1>6, <1>7

\* What the mailbox puts is a byte of the FIFO.
LEMMA PutIsData ==
  ASSUME TransportInv
  PROVE  /\ dir = "toHost" => rx_data \in Data
         /\ dir = "toDevice" => usb.write \in Data
<1>1. ASSUME dir = "toHost" PROVE rx_data \in Data
  <2>1. PICK g \in 0 .. Total, c \in 0 .. Total, d \in 0 .. Total :
             Carries(ur.fifo, ur.new, InUt, c, d, lost)
    BY <1>1, Zenon DEF TransportInv, FlowInv, ToHostFlow
  <2>2. Total \in Nat /\ 0 .. Total \subseteq Data
    BY Sizes DEF TransportInv
  <2>3. c \in Nat /\ d \in Nat /\ d <= Total
    BY <2>1, <2>2
  <2>4. CASE ur.fifo # <<>>
    <3>1. Head(ur.fifo) \in Nat /\ Head(ur.fifo) <= d
      BY <2>1, <2>3, <2>4, LineGives
    <3> QED BY <2>2, <2>3, <2>4, <3>1 DEF rx_data, rx_rdy
  <2>5. CASE ur.fifo = <<>>
    BY <2>2, <2>5 DEF rx_data, rx_rdy
  <2> QED BY <2>4, <2>5
<1>2. ASSUME dir = "toDevice" PROVE usb.write \in Data
  <2>1. usb.write \in Nat /\ usb.write <= Total
    BY <1>2, Zenon DEF TransportInv, UsbInv, ToDeviceUsb, TypeInv, UsbType, UsbRegs
  <2>2. Total \in Nat /\ 0 .. Total \subseteq Data
    BY Sizes DEF TransportInv
  <2> QED BY <2>1, <2>2
<1> QED
  BY <1>1, <1>2

\* An edge on the way to the host: the mailbox puts, the host gets.
LEMMA ToHostEdge ==
  ASSUME TransportInv, dir = "toHost", NEW iut \in BOOLEAN, NEW u \in BOOLEAN,
         Edge(iut, txf_wren, rx_data, u, usb.rden)
  PROVE  /\ FifoInv' /\ count_rd \in Nat /\ count_rd' \in Nat
         /\ count_rd' >= count_rd - 1
         /\ ~(u /\ usb.rden) => count_rd' >= count_rd
         /\ ~(iut /\ txf_wren) /\ ~full => ~full'
         /\ ~(u /\ usb.rden) /\ ~empty =>
              ~empty' /\ queue # <<>> /\ queue' # <<>> /\ Head(queue') = Head(queue)
<1>1. rx_data \in Data
  BY PutIsData
<1>2. FifoInv /\ usb.rden \in BOOLEAN
  BY Zenon DEF TransportInv, TypeInv, UsbType, UsbRegs
<1>3. txf_wren \in BOOLEAN
  BY DEF txf_wren
<1> QED
  BY <1>1, <1>2, <1>3, EdgeKeeps

\* An edge on the way to the device: the host puts, the mailbox gets.
LEMMA ToDeviceEdge ==
  ASSUME TransportInv, dir = "toDevice", NEW iut \in BOOLEAN, NEW u \in BOOLEAN,
         Edge(u, usb.wren, usb.write, iut, box.rden)
  PROVE  /\ FifoInv' /\ count_rd \in Nat /\ count_rd' \in Nat
         /\ ~(u /\ usb.wren) /\ ~full => ~full'
         /\ ~(iut /\ box.rden) /\ ~empty =>
              ~empty' /\ queue # <<>> /\ queue' # <<>> /\ Head(queue') = Head(queue)
<1>1. usb.write \in Data
  BY PutIsData
<1>2. FifoInv /\ usb.wren \in BOOLEAN /\ box.rden \in BOOLEAN
  BY Zenon DEF TransportInv, TypeInv, UsbType, UsbRegs, BoxType, BoxRegs
<1> QED
  BY <1>1, <1>2, EdgeKeeps

\* The mailbox's registers of the SoC clock.
LEMMA BoxKeeps ==
  ASSUME TransportInv, NEW acts \in BOOLEAN, IutEdge(acts), NEW u \in BOOLEAN,
         IF dir = "toHost" THEN Edge(TRUE, txf_wren, rx_data, u, usb.rden)
                           ELSE Edge(u, usb.wren, usb.write, TRUE, box.rden),
         UNCHANGED <<transfer, stream_busy>>
  PROVE  BoxType' /\ BoxInv'
<1>1. /\ TypeInv /\ CpuInv /\ BridgeInv /\ OwnerInv /\ BoxInv /\ BoxType /\ FifoInv
      /\ box.byte \in Nat
  BY Zenon DEF TransportInv, TypeInv, BoxType, BoxRegs
<1>2. dir' = dir /\ dir \in {"toHost", "toDevice"}
  BY <1>1, Sizes DEF dir
<1>3. ut.fin /\ ~Send => ut'.fin
  BY <1>1, LineStep, SendsReady, Zenon DEF IutEdge
<1>4. CASE dir = "toHost"
  <2>1. box' = [box EXCEPT !.ack = rx_rdy /\ ~full]
    BY <1>4, Zenon DEF IutEdge, Mailbox
  <2>2. (rx_rdy /\ ~full) \in BOOLEAN
    OBVIOUS
  <2>3. BoxType' /\ (box'.send <=> box.send) /\ (box'.rden <=> box.rden)
    BY <1>1, <2>1, <2>2, Zenon DEF BoxType, BoxRegs
  <2>4. dir # "toDevice"
    BY <1>4
  <2> QED BY <1>1, <1>2, <1>4, <2>3, <2>4, Zenon DEF BoxInv
<1>5. CASE dir = "toDevice"
  <2>1. box' = [box EXCEPT !.cond_d = stx_cond, !.send = stx_rises, !.rden = stx_rises,
                           !.byte = IF stx_rises THEN rdata ELSE box.byte]
    BY <1>5, Zenon DEF IutEdge, Mailbox
  <2>2. stx_cond \in BOOLEAN /\ stx_rises \in BOOLEAN
    BY DEF stx_cond, stx_rises
  <2>3. stx_rises => ~box.send /\ ~box.rden /\ stx_cond /\ ut.fin /\ ~empty
    BY <1>1, <1>5, Zenon DEF BoxInv, stx_rises, stx_cond
  <2>4. stx_rises => queue # <<>> /\ rdata = Head(queue) /\ rdata \in Nat
    <3>1. ASSUME stx_rises PROVE queue # <<>> /\ rdata = Head(queue)
      BY <1>1, <2>3, <3>1, OldestShown
    <3>2. queue \in Seq(Nat)
      BY <1>5, Zenon DEF TransportInv, FlowInv, ToDeviceFlow, Part
    <3> QED BY <3>1, <3>2
  <2>5. /\ BoxType' /\ (box'.send <=> stx_rises) /\ (box'.rden <=> stx_rises)
        /\ (box'.cond_d <=> stx_cond) /\ (stx_rises => box'.byte = rdata)
        /\ box'.rden = box'.send
    <3> DEFINE x == IF stx_rises THEN rdata ELSE box.byte
    <3>1. x \in Nat /\ (stx_rises => x = rdata)
      BY <1>1, <2>4, Zenon
    <3> HIDE DEF x
    <3>2. box' = [box EXCEPT !.cond_d = stx_cond, !.send = stx_rises, !.rden = stx_rises,
                           !.byte = x]
      BY <2>1, Zenon DEF x
    <3> QED BY <1>1, <2>2, <3>1, <3>2, Zenon DEF BoxType, BoxRegs
  <2>6. stx_rises => ~empty' /\ Head(queue') = Head(queue) /\ ut'.fin
    <3>1. ASSUME stx_rises PROVE ~empty' /\ Head(queue') = Head(queue)
      <4>1. Edge(u, usb.wren, usb.write, TRUE, box.rden)
        BY <1>5
      <4> QED BY <1>5, <2>3, <3>1, <4>1, ToDeviceEdge
    <3>2. ASSUME stx_rises PROVE ut'.fin
      BY <1>3, <1>5, <2>3, <3>2 DEF Send
    <3> QED BY <3>1, <3>2
  <2>7. dir # "toHost"
    BY <1>5
  <2> QED BY <1>2, <1>5, <2>3, <2>4, <2>5, <2>6, <2>7, Zenon DEF BoxInv
<1> QED
  BY <1>2, <1>4, <1>5

\* Without an edge of the SoC clock they stay, and so does what they vouch for.
LEMMA BoxRests ==
  ASSUME TransportInv, NEW u \in BOOLEAN, UNCHANGED iutVars,
         IF dir = "toHost" THEN Edge(FALSE, txf_wren, rx_data, u, usb.rden)
                           ELSE Edge(u, usb.wren, usb.write, FALSE, box.rden),
         UNCHANGED <<transfer, stream_busy>>
  PROVE  BoxInv'
<1>1. BoxInv /\ dir' = dir /\ box' = box /\ ut' = ut
  BY DEF TransportInv, iutVars, dir
<1>2. CASE dir = "toHost"
  <2>1. dir # "toDevice"
    BY <1>2
  <2> QED BY <1>1, <1>2, <2>1, Zenon DEF BoxInv
<1>3. CASE dir # "toHost"
  <2>1. ASSUME dir = "toDevice", ~empty
        PROVE  ~empty' /\ Head(queue') = Head(queue)
    <3>1. Edge(u, usb.wren, usb.write, FALSE, box.rden)
      BY <1>3
    <3> QED BY <2>1, <3>1, ToDeviceEdge
  <2> QED BY <1>1, <1>3, <2>1, Zenon DEF BoxInv
<1> QED
  BY <1>2, <1>3

-------------------------------------------------------------------------------
(* The mailbox on the USB clock, and the host.                             *)

\* The host begins an access.
LEMMA BeginFields ==
  ASSUME UsbType, HostBegins, dir \in {"toHost", "toDevice"}
  PROVE  /\ UsbType' /\ host' = host
         /\ usb.phase = "idle" /\ usb'.phase = "strobe" /\ ~usb'.rden /\ ~usb'.wren
         /\ dir = "toHost" => usb'.reg = IF host.count = 0 THEN "TX_IDX" ELSE "TX_BYTE"
         /\ dir = "toDevice" => /\ usb'.reg = "RX_BYTE" /\ host.next <= Total
                                /\ usb'.write = host.next
<1>1. PICK reg \in IF dir = "toHost" THEN {IF host.count = 0 THEN "TX_IDX" ELSE "TX_BYTE"}
                                     ELSE {"RX_BYTE"} :
        /\ usb.phase = "idle"
        /\ reg = "RX_BYTE" => host.next <= Total
        /\ usb' = [usb EXCEPT !.phase = "strobe", !.reg = reg, !.rden = FALSE, !.wren = FALSE,
                              !.write = IF reg = "RX_BYTE" THEN host.next ELSE usb.write]
        /\ UNCHANGED host
  BY DEF HostBegins
<1>2. /\ dir = "toHost" => reg = IF host.count = 0 THEN "TX_IDX" ELSE "TX_BYTE"
      /\ dir = "toDevice" => reg = "RX_BYTE"
      /\ reg \in {"none", "TX_IDX", "TX_BYTE", "RX_BYTE"}
  BY <1>1
<1> DEFINE x == IF reg = "RX_BYTE" THEN host.next ELSE usb.write
<1>3. usb \in UsbRegs /\ host \in HostState /\ x \in Nat /\ (reg = "RX_BYTE" => x = host.next)
  <2>1. host.next \in Nat /\ usb.write \in Nat
    BY Zenon DEF UsbType, UsbRegs, HostState
  <2> QED BY <2>1 DEF UsbType
<1>4. usb' = [usb EXCEPT !.phase = "strobe", !.reg = reg, !.rden = FALSE,
                       !.wren = FALSE, !.write = x]
  BY <1>1
<1> HIDE DEF x
<1>5. /\ usb' \in UsbRegs /\ usb'.phase = "strobe" /\ ~usb'.rden /\ ~usb'.wren
      /\ usb'.reg = reg /\ usb'.write = x
  BY <1>2, <1>3, <1>4, Zenon DEF UsbRegs
<1> QED
  BY <1>1, <1>2, <1>3, <1>5, Zenon DEF UsbType

\* The strobe rises.
LEMMA StrobeFields ==
  ASSUME UsbType, Strobe, count_rd \in Nat, ~empty => rdata \in Nat
  PROVE  /\ UsbType' /\ host' = host
         /\ usb.phase = "strobe" /\ usb'.phase = "valid" /\ usb'.reg = usb.reg
         /\ usb'.rden <=> usb.reg = "TX_BYTE" /\ ~empty
         /\ usb'.wren <=> usb.reg = "RX_BYTE" /\ ~full
         /\ usb.reg = "TX_IDX" => usb'.read <= count_rd
         /\ usb.reg = "TX_BYTE" /\ ~empty => usb'.read = rdata
         /\ usb'.write = usb.write
<1> DEFINE r == usb.reg = "TX_BYTE" /\ ~empty
           w == usb.reg = "RX_BYTE" /\ ~full
           p == IF usb.reg = "TX_BYTE" /\ ~empty THEN rdata ELSE usb.pop
           x == IF usb.reg = "TX_IDX" THEN IF count_rd = DEPTH THEN DEPTH - 1 ELSE count_rd
                ELSE IF empty THEN usb.pop ELSE rdata
<1>1. usb' = [usb EXCEPT !.phase = "valid", !.rden = r, !.wren = w, !.pop = p, !.read = x]
  BY Zenon DEF Strobe
<1>2. usb.pop \in Nat /\ usb \in UsbRegs /\ host \in HostState
  BY Zenon DEF UsbType, UsbRegs
<1>3. r \in BOOLEAN /\ w \in BOOLEAN
  OBVIOUS
<1>4. p \in Nat
  BY <1>2
<1>5. x \in Nat /\ (usb.reg = "TX_IDX" => x <= count_rd)
      /\ (usb.reg = "TX_BYTE" /\ ~empty => x = rdata)
  BY <1>2, DepthType
<1> HIDE DEF p, x
<1>6. /\ usb' \in UsbRegs /\ usb'.phase = "valid" /\ usb'.reg = usb.reg /\ (usb'.rden <=> r)
      /\ (usb'.wren <=> w) /\ usb'.read = x /\ usb'.write = usb.write
  BY <1>1, <1>2, <1>3, <1>4, <1>5, Zenon DEF UsbRegs
<1>7. host' = host /\ usb.phase = "strobe"
  BY DEF Strobe
<1> QED
  BY <1>2, <1>5, <1>6, <1>7, Zenon DEF UsbType

\* The host ends an access.
LEMMA EndsFields ==
  ASSUME UsbType, HostEnds, usb.reg = "TX_BYTE" => host.count > 0
  PROVE  /\ UsbType' /\ usb.phase = "valid" /\ usb'.phase = "idle" /\ usb'.reg = usb.reg
         /\ ~usb'.rden /\ ~usb'.wren /\ usb'.write = usb.write
         /\ usb.reg = "TX_IDX" => /\ host'.count = usb.read /\ host'.got = host.got
                                  /\ host'.next = host.next
         /\ usb.reg = "TX_BYTE" => /\ host'.count = host.count - 1
                                   /\ host'.got = Append(host.got, usb.read)
                                   /\ host'.next = host.next
         /\ usb.reg \in {"none", "RX_BYTE"} => /\ host'.count = host.count
                                               /\ host'.got = host.got
                                               /\ host'.next = host.next + 1
<1>1. /\ usb.read \in Nat /\ usb \in UsbRegs /\ host \in HostState /\ host.got \in Seq(Nat)
      /\ usb.reg \in {"none", "TX_IDX", "TX_BYTE", "RX_BYTE"}
      /\ host.count \in Nat /\ host.next \in Nat
  BY Zenon DEF UsbType, UsbRegs, HostState
<1>2. /\ usb.phase = "valid"
      /\ usb' = [usb EXCEPT !.phase = "idle", !.rden = FALSE, !.wren = FALSE]
  BY DEF HostEnds
<1>3. /\ usb' \in UsbRegs /\ usb'.phase = "idle" /\ usb'.reg = usb.reg
      /\ ~usb'.rden /\ ~usb'.wren /\ usb'.write = usb.write
  BY <1>1, <1>2, Zenon DEF UsbRegs
<1>4. CASE usb.reg = "TX_IDX"
  <2>1. host' = [host EXCEPT !.count = usb.read]
    BY <1>4 DEF HostEnds
  <2>2. /\ host' \in HostState /\ host'.count = usb.read /\ host'.got = host.got
        /\ host'.next = host.next
    BY <1>1, <2>1, Zenon DEF HostState
  <2>3. usb.reg # "TX_BYTE" /\ usb.reg \notin {"none", "RX_BYTE"}
    BY <1>4
  <2> QED BY <1>2, <1>3, <1>4, <2>2, <2>3, Zenon DEF UsbType
<1>5. CASE usb.reg = "TX_BYTE"
  <2> DEFINE g == Append(host.got, usb.read)  n == host.count - 1
  <2>1. host' = [host EXCEPT !.count = n, !.got = g]
    BY <1>5 DEF HostEnds
  <2>2. g \in Seq(Nat) /\ n \in Nat
    BY <1>1, <1>5
  <2> HIDE DEF g, n
  <2>3. /\ host' \in HostState /\ host'.count = n /\ host'.got = g
        /\ host'.next = host.next
    BY <1>1, <2>1, <2>2, Zenon DEF HostState
  <2>4. usb.reg # "TX_IDX" /\ usb.reg \notin {"none", "RX_BYTE"}
    BY <1>5
  <2> QED BY <1>2, <1>3, <1>5, <2>3, <2>4, Zenon DEF UsbType, g, n
<1>6. CASE usb.reg \in {"none", "RX_BYTE"}
  <2> DEFINE n == host.next + 1
  <2>1. host' = [host EXCEPT !.next = n]
    BY <1>6 DEF HostEnds
  <2>2. n \in Nat
    BY <1>1
  <2> HIDE DEF n
  <2>3. /\ host' \in HostState /\ host'.count = host.count /\ host'.got = host.got
        /\ host'.next = n
    BY <1>1, <2>1, <2>2, Zenon DEF HostState
  <2>4. usb.reg # "TX_IDX" /\ usb.reg # "TX_BYTE"
    BY <1>6
  <2> QED BY <1>2, <1>3, <1>6, <2>3, <2>4, Zenon DEF UsbType, n
<1> QED
  BY <1>1, <1>4, <1>5, <1>6

\* What is read from the mailbox stays true until the host has it.
LEMMA ToHostUsbKeeps ==
  ASSUME TransportInv, dir = "toHost", NEW iut \in BOOLEAN, NEW u \in BOOLEAN,
         NEW acts \in BOOLEAN, IF u THEN UsbEdge(acts) ELSE UNCHANGED usbVars,
         Edge(iut, txf_wren, rx_data, u, usb.rden)
  PROVE  UsbType' /\ ToHostUsb'
<1>1. UsbType /\ ToHostUsb /\ FifoInv
  BY Zenon DEF TransportInv, TypeInv, UsbInv
<1>2. /\ count_rd \in Nat /\ count_rd' \in Nat
      /\ count_rd' >= count_rd - 1
      /\ ~(u /\ usb.rden) => count_rd' >= count_rd
      /\ ~(u /\ usb.rden) /\ ~empty =>
           ~empty' /\ queue # <<>> /\ queue' # <<>> /\ Head(queue') = Head(queue)
  BY ToHostEdge
<1>3. (empty <=> count_rd = 0) /\ host.count \in Nat /\ usb.read \in Nat
  <2>1. empty <=> count_rd = 0
    BY <1>1, Counts
  <2> QED BY <1>1, <2>1, Zenon DEF UsbType, UsbRegs, HostState
<1>4. host.count > 0 => ~empty
  <2>1. host.count <= count_rd
    BY <1>1, Zenon DEF ToHostUsb
  <2> QED BY <1>2, <1>3, <2>1
<1>5. CASE ~u
  <2>1. usb' = usb /\ host' = host
    BY <1>5 DEF usbVars
  <2>2. count_rd' >= count_rd /\ (~empty => Head(queue') = Head(queue))
    BY <1>2, <1>5
  <2>3. host'.count <= count_rd'
    <3>1. host.count <= count_rd
      BY <1>1, Zenon DEF ToHostUsb
    <3> QED BY <1>2, <1>3, <2>1, <2>2, <3>1
  <2>4. usb.phase = "valid" /\ usb.reg = "TX_IDX" => usb'.read <= count_rd'
    <3>1. usb.phase = "valid" /\ usb.reg = "TX_IDX" => usb.read <= count_rd
      BY <1>1, Zenon DEF ToHostUsb
    <3> QED BY <1>2, <1>3, <2>1, <2>2, <3>1
  <2>5. usb.phase = "valid" /\ usb.reg = "TX_BYTE" => usb'.read = Head(queue')
    <3>1. usb.phase = "valid" => usb.phase # "idle"
      OBVIOUS
    <3> QED BY <1>1, <1>4, <2>1, <2>2, <3>1, Zenon DEF ToHostUsb
  <2> QED BY <1>1, <2>1, <2>3, <2>4, <2>5, Zenon DEF ToHostUsb, UsbType
<1>6. CASE u /\ HostBegins
  <2>1. /\ UsbType' /\ host' = host /\ usb.phase = "idle" /\ usb'.phase = "strobe"
        /\ ~usb'.rden /\ ~usb'.wren
        /\ usb'.reg = IF host.count = 0 THEN "TX_IDX" ELSE "TX_BYTE"
    BY <1>1, <1>6, BeginFields
  <2>2. ~usb.rden
    BY <1>1, <2>1 DEF ToHostUsb
  <2>3. host'.count <= count_rd'
    <3>1. host.count <= count_rd /\ count_rd' >= count_rd
      BY <1>1, <1>2, <2>2, Zenon DEF ToHostUsb
    <3> QED BY <1>2, <1>3, <2>1, <3>1
  <2>4. /\ usb'.reg # "RX_BYTE" /\ usb'.reg # "none"
        /\ usb'.reg = "TX_BYTE" => host'.count > 0
        /\ usb'.phase # "valid"
    BY <1>3, <2>1
  <2> QED BY <2>1, <2>3, <2>4, Zenon DEF ToHostUsb
<1>7. CASE u /\ Strobe
  <2>1. ~empty => queue # <<>> /\ rdata = Head(queue) /\ rdata \in Nat
    <3>1. ~empty => queue # <<>> /\ rdata = Head(queue)
      BY <1>1, OldestShown
    <3>2. queue \in Seq(Nat)
      BY Zenon DEF TransportInv, FlowInv, ToHostFlow, Part
    <3> QED BY <3>1, <3>2
  <2>2. /\ UsbType' /\ host' = host
        /\ usb.phase = "strobe" /\ usb'.phase = "valid" /\ usb'.reg = usb.reg
        /\ usb'.rden <=> usb.reg = "TX_BYTE" /\ ~empty
        /\ usb'.wren <=> usb.reg = "RX_BYTE" /\ ~full
        /\ usb.reg = "TX_IDX" => usb'.read <= count_rd
        /\ usb.reg = "TX_BYTE" /\ ~empty => usb'.read = rdata
    BY <1>1, <1>2, <1>7, <2>1, StrobeFields
  <2>3. ~usb.rden /\ usb.phase # "idle"
    BY <1>1, <2>2 DEF ToHostUsb
  <2>4. usb.reg = "TX_BYTE" => ~empty /\ host.count > 0
    BY <1>1, <1>4, <2>3, Zenon DEF ToHostUsb
  <2>5. count_rd' >= count_rd /\ (~empty => Head(queue') = Head(queue))
    BY <1>2, <2>3
  <2>6. host'.count <= count_rd'
    <3>1. host.count <= count_rd
      BY <1>1, Zenon DEF ToHostUsb
    <3> QED BY <1>2, <1>3, <2>2, <2>5, <3>1
  <2>7. usb'.reg = "TX_IDX" => usb'.read <= count_rd'
    <3>1. usb'.read \in Nat
      BY <2>2, Zenon DEF UsbType, UsbRegs
    <3> QED BY <1>2, <2>2, <2>5, <3>1
  <2>8. usb'.reg = "TX_BYTE" => usb'.read = Head(queue') /\ usb'.rden /\ host'.count > 0
    BY <2>1, <2>2, <2>4, <2>5, Zenon
  <2>9. usb.reg # "RX_BYTE" /\ usb.reg # "none" /\ ~usb'.wren
    BY <1>1, <2>2, <2>3, Zenon DEF ToHostUsb
  <2> QED BY <2>2, <2>6, <2>7, <2>8, <2>9, Zenon DEF ToHostUsb
<1>8. CASE u /\ HostEnds
  <2>1. usb.phase = "valid" /\ usb.phase # "idle"
    BY <1>8 DEF HostEnds
  <2>2. /\ usb.reg = "TX_BYTE" => host.count > 0
        /\ usb.reg # "RX_BYTE" /\ usb.reg # "none"
        /\ usb.rden <=> usb.reg = "TX_BYTE"
        /\ usb.reg = "TX_IDX" => usb.read <= count_rd
        /\ host.count <= count_rd
    BY <1>1, <2>1, Zenon DEF ToHostUsb
  <2>3. /\ UsbType' /\ usb'.phase = "idle" /\ usb'.reg = usb.reg /\ ~usb'.rden /\ ~usb'.wren
        /\ usb.reg = "TX_IDX" => host'.count = usb.read
        /\ usb.reg = "TX_BYTE" => host'.count = host.count - 1
    BY <1>1, <1>8, <2>2, EndsFields
  <2>4. usb.reg = "TX_IDX" \/ usb.reg = "TX_BYTE"
    <3>1. usb.reg \in {"none", "TX_IDX", "TX_BYTE", "RX_BYTE"}
      BY <1>1, Zenon DEF UsbType, UsbRegs
    <3> QED BY <2>2, <3>1
  <2>5. host'.count <= count_rd'
    <3>1. CASE usb.reg = "TX_IDX"
      <4>1. ~usb.rden
        BY <2>2, <3>1
      <4>2. count_rd' >= count_rd
        BY <1>2, <4>1
      <4> QED BY <1>2, <1>3, <2>2, <2>3, <3>1, <4>2
    <3>2. CASE usb.reg = "TX_BYTE"
      BY <1>2, <1>3, <2>2, <2>3, <3>2
    <3> QED BY <2>4, <3>1, <3>2
  <2>6. usb'.phase # "valid"
    BY <2>3
  <2> QED BY <2>2, <2>3, <2>5, <2>6, Zenon DEF ToHostUsb
<1>9. CASE u /\ UsbWaits
  <2>1. usb' = usb /\ host' = host /\ usb.phase = "idle" /\ usb.phase # "valid"
    BY <1>9 DEF UsbWaits
  <2>2. ~usb.rden
    BY <1>1, <2>1, Zenon DEF ToHostUsb
  <2>3. host'.count <= count_rd'
    <3>1. host.count <= count_rd /\ count_rd' >= count_rd
      BY <1>1, <1>2, <2>2, Zenon DEF ToHostUsb
    <3> QED BY <1>2, <1>3, <2>1, <3>1
  <2> QED BY <1>1, <2>1, <2>3, Zenon DEF ToHostUsb, UsbType
<1> QED
  BY <1>5, <1>6, <1>7, <1>8, <1>9, Zenon DEF UsbEdge

\* A byte the host writes is put into the FIFO or noted as lost.
LEMMA ToDeviceUsbKeeps ==
  ASSUME TransportInv, dir = "toDevice", NEW iut \in BOOLEAN, NEW u \in BOOLEAN,
         NEW acts \in BOOLEAN, IF u THEN UsbEdge(acts) ELSE UNCHANGED usbVars,
         Edge(u, usb.wren, usb.write, iut, box.rden), lost' = lost \cup Dropped(iut, u),
         UNCHANGED <<transfer, stream_busy>>
  PROVE  UsbType' /\ ToDeviceUsb'
<1>1. UsbType /\ ToDeviceUsb /\ FifoInv /\ TypeInv
  BY Zenon DEF TransportInv, TypeInv, UsbInv
<1>2. /\ count_rd \in Nat
      /\ ~(u /\ usb.wren) /\ ~full => ~full'
  BY ToDeviceEdge
<1>3. Total' = Total /\ Total \in Nat /\ host.next \in Nat /\ (lost # {} => lost' # {})
  <2>1. Total' = Total /\ Total \in Nat
    BY <1>1, Sizes DEF Total, Header, Words
  <2>2. lost # {} => lost' # {}
    OBVIOUS
  <2> QED BY <1>1, <2>1, <2>2, Zenon DEF UsbType, HostState
<1>4. CASE ~u \/ (u /\ UsbWaits)
  <2>1. usb' = usb /\ host' = host
    BY <1>4 DEF usbVars, UsbWaits
  <2>2. usb.wren => ~u
    <3>1. usb.wren => usb.phase = "valid"
      BY <1>1, Zenon DEF ToDeviceUsb
    <3> QED BY <1>4, <3>1 DEF UsbWaits
  <2>3. usb.wren => ~full'
    BY <1>1, <1>2, <2>2, Zenon DEF ToDeviceUsb
  <2> QED BY <1>1, <1>3, <2>1, <2>3, Zenon DEF ToDeviceUsb, UsbType
<1>5. CASE u /\ HostBegins
  <2>1. /\ UsbType' /\ host' = host /\ usb'.phase = "strobe"
        /\ ~usb'.rden /\ ~usb'.wren
        /\ usb'.reg = "RX_BYTE" /\ host.next <= Total /\ usb'.write = host.next
    BY <1>1, <1>5, BeginFields
  <2>2. usb'.phase # "valid" /\ usb'.reg \in {"none", "RX_BYTE"}
    BY <2>1
  <2> QED BY <1>1, <1>3, <2>1, <2>2, Zenon DEF ToDeviceUsb
<1>6. CASE u /\ Strobe
  <2>1. ~empty => rdata \in Nat
    <3>1. ~empty => queue # <<>> /\ rdata = Head(queue)
      BY <1>1, OldestShown
    <3>2. queue \in Seq(Nat)
      BY Zenon DEF TransportInv, FlowInv, ToDeviceFlow, Part
    <3> QED BY <3>1, <3>2
  <2>2. /\ UsbType' /\ host' = host /\ usb'.write = usb.write
        /\ usb.phase = "strobe" /\ usb'.phase = "valid" /\ usb'.reg = usb.reg
        /\ usb'.rden <=> usb.reg = "TX_BYTE" /\ ~empty
        /\ usb'.wren <=> usb.reg = "RX_BYTE" /\ ~full
    BY <1>1, <1>2, <1>6, <2>1, StrobeFields
  <2>3. usb.phase # "idle" /\ usb.phase # "valid"
    BY <2>2
  <2>4. /\ ~usb.wren /\ usb.reg = "RX_BYTE" /\ usb.write = host.next /\ host.next <= Total
    BY <1>1, <2>3, Zenon DEF ToDeviceUsb
  <2>5. ~full => ~full'
    BY <1>2, <2>4
  <2>6. full => lost' # {}
    BY <1>6, <2>2, <2>4 DEF Dropped
  <2>7. ~usb'.rden
    BY <2>2, <2>4
  <2> QED BY <1>1, <1>3, <2>2, <2>4, <2>5, <2>6, <2>7, Zenon DEF ToDeviceUsb
<1>7. CASE u /\ HostEnds
  <2>1. usb.phase = "valid" /\ usb.phase # "idle"
    BY <1>7 DEF HostEnds
  <2>2. usb.reg = "RX_BYTE" /\ usb.write = host.next /\ host.next <= Total
    BY <1>1, <2>1, Zenon DEF ToDeviceUsb
  <2>3. usb.reg # "TX_BYTE" /\ usb.reg \in {"none", "RX_BYTE"}
    BY <2>2
  <2>4. /\ UsbType' /\ usb'.phase = "idle" /\ usb'.reg = usb.reg /\ ~usb'.rden /\ ~usb'.wren
        /\ host'.next = host.next + 1 /\ usb'.write = usb.write
    BY <1>1, <1>7, <2>3, EndsFields
  <2>5. host'.next \in 1 .. Total' + 1
    BY <1>3, <2>2, <2>4
  <2>6. usb'.phase # "valid"
    BY <2>4
  <2> QED BY <1>1, <1>3, <2>3, <2>4, <2>5, <2>6, Zenon DEF ToDeviceUsb
<1> QED
  BY <1>4, <1>5, <1>6, <1>7, Zenon DEF UsbEdge

\* The transmitter's byte arrives, stays, or there is none and one is taken.
LEMMA LineOut ==
  ASSUME TypeInv, Line, Send => ut.fin
  PROVE  \/ ~Send /\ InUt' = <<>> /\ ur'.new = InUt
         \/ ~Send /\ InUt' = InUt /\ ur'.new = <<>>
         \/ Send /\ InUt = <<>> /\ InUt' = <<Byte>> /\ ur'.new = <<>>
<1>1. ut.tmr \in Nat /\ Frame \in Nat /\ Gap \in Nat
  BY TransportAssumption, Zenon DEF TypeInv, LineType
<1>2. /\ ut.fin /\ ~Send => ut'.fin /\ ut'.tmr = 0
      /\ Send => ~ut'.fin /\ ut'.tmr = 0 /\ ut'.data = Byte
      /\ ~ut.fin => /\ ut'.fin <=> ut.tmr = Frame + Gap
                    /\ ut'.tmr = ut.tmr + 1 /\ ut'.data = ut.data
      /\ ur'.new = IF ~ut.fin /\ ut.tmr = Frame THEN <<ut.data>> ELSE <<>>
  BY LineStep
<1>3. CASE Send
  <2>1. ~ut'.fin /\ ut'.tmr <= Frame /\ ut'.data = Byte /\ ut.fin
    BY <1>1, <1>2, <1>3
  <2> QED BY <1>2, <1>3, <2>1, Zenon DEF InUt
<1>4. CASE ~Send /\ ut.fin
  BY <1>2, <1>4, Zenon DEF InUt
<1>5. CASE ~Send /\ ~ut.fin /\ ut.tmr < Frame
  <2>1. /\ ut.tmr <= Frame /\ ut.tmr # Frame /\ ut'.tmr <= Frame /\ ~ut'.fin
        /\ ut'.data = ut.data
    <3>1. ut.tmr # Frame + Gap
      BY <1>1, <1>5
    <3> QED BY <1>1, <1>2, <1>5, <3>1
  <2> QED BY <1>2, <1>5, <2>1, Zenon DEF InUt
<1>6. CASE ~Send /\ ~ut.fin /\ ut.tmr = Frame
  <2>1. ut.tmr <= Frame /\ ~(ut'.tmr <= Frame)
    BY <1>1, <1>2, <1>6
  <2> QED BY <1>2, <1>6, <2>1, Zenon DEF InUt
<1>7. CASE ~Send /\ ~ut.fin /\ ut.tmr > Frame
  <2>1. ~(ut.tmr <= Frame) /\ ut.tmr # Frame /\ ~(ut'.tmr <= Frame)
    BY <1>1, <1>2, <1>7
  <2> QED BY <1>2, <1>7, <2>1, Zenon DEF InUt
<1> QED
  BY <1>1, <1>3, <1>4, <1>5, <1>6, <1>7

\* Along the line bytes keep their order; f is the FIFO after what was taken
\* off it.
LEMMA LineFlow ==
  ASSUME TypeInv, Line, Send => ut.fin, NEW a \in Nat, NEW b \in Nat, NEW l, NEW m, NEW f,
         Carries(f, ur.new, InUt, a, b, l), m = {} => l = {} /\ ~Overrun
  PROVE  /\ ~Send => Carries(f \o Added, ur'.new, InUt', a, b, m)
         /\ Send /\ Byte \in Nat /\ b < Byte /\ (m = {} => Byte = b + 1)
              => Carries(f \o Added, ur'.new, InUt', a, Byte, m)
<1>1. /\ Carries(f \o Added, InUt, <<>>, a, b, m)
      /\ Carries(f \o Added, <<>>, InUt, a, b, m)
  <2>1. (Added = ur.new \/ Added = <<>>) /\ (m = {} => l = {} /\ Added = ur.new)
    BY DEF Added
  <2> QED BY <2>1, LineMoves
<1>2. CASE ~Send
  BY <1>1, <1>2, LineOut, Zenon
<1>3. CASE Send
  <2>1. InUt = <<>> /\ InUt' = <<Byte>> /\ ur'.new = <<>>
    BY <1>3, LineOut, Zenon
  <2>2. Carries(f \o Added, <<>>, <<>>, a, b, m)
    BY <1>1, <2>1
  <2>3. Byte \in Nat /\ b < Byte /\ (m = {} => Byte = b + 1)
          => Carries(f \o Added, <<>>, <<Byte>>, a, Byte, m)
    BY <2>2, LineTakes
  <2> QED BY <1>3, <2>1, <2>3, Zenon
<1> QED
  BY <1>2, <1>3

-------------------------------------------------------------------------------
(* On the way to the host.                                                 *)

\* The bytes handed over are bytes of the transfer.
LEMMA SentBound ==
  ASSUME TypeInv, CpuInv, BridgeInv, dir = "toHost"
  PROVE  Sent \in Nat /\ Sent <= Total
<1>1. /\ Header \in Nat /\ Words \in Nat /\ WordBytes \in Nat /\ WordBytes > 0
      /\ Bytes(Words) \in Nat /\ Total \in Nat /\ Total = Header + Bytes(Words)
  BY Sizes
<1>2. cpu.moved \in Nat /\ br.addr \in Nat /\ br.buf \in Seq(Nat)
  BY Zenon DEF TypeInv, CpuType, CpuRegs, BridgeType, BridgeRegs
<1>3. /\ Bytes(br.addr) \in Nat
      /\ br.addr < Words => Bytes(br.addr) + WordBytes <= Bytes(Words)
  BY <1>1, <1>2, WordSteps
<1>4. CASE cpu.pc \in {"byte", "start"}
  <2>1. cpu.moved <= Header
    BY <1>1, <1>2, <1>4 DEF CpuInv
  <2> QED BY <1>1, <1>2, <1>4, <2>1 DEF Sent
<1>5. CASE cpu.pc \notin {"byte", "start"} /\ br.state \in {"TX_RD", "TX_LOAD", "TX_PUT"}
  <2>1. br.addr < Words
    <3>1. br.state \in RxState \cup TxState
      BY <1>5 DEF TxState
    <3> QED BY <3>1, Zenon DEF BridgeInv
  <2>2. Base \in Nat /\ Base + WordBytes <= Total
    BY <1>1, <1>3, <2>1 DEF Base
  <2>3. br.state = "TX_PUT" => 0 < Len(br.buf) /\ Len(br.buf) <= WordBytes
    BY Zenon DEF BridgeInv
  <2>4. Len(br.buf) \in Nat
    BY <1>2
  <2>5. CASE br.state = "TX_PUT" /\ br.sent
    <3>1. Sent = Base + WordBytes + 1 - Len(br.buf)
      BY <1>5, <2>5 DEF Sent
    <3>2. 0 < Len(br.buf) /\ Len(br.buf) <= WordBytes
      BY <2>3, <2>5
    <3>3. WordBytes \in Nat /\ Total \in Nat
      BY <1>1
    <3> DEFINE n == Len(br.buf)
    <3>4. n \in Nat /\ 0 < n /\ n <= WordBytes /\ Sent = Base + WordBytes + 1 - n
      BY <2>4, <3>1, <3>2
    <3> HIDE DEF n
    <3> QED BY <2>2, <3>3, <3>4
  <2>6. CASE ~(br.state = "TX_PUT" /\ br.sent)
    <3>1. Sent = Base
      BY <1>5, <2>6 DEF Sent
    <3> QED BY <1>1, <2>2, <3>1
  <2> QED BY <2>5, <2>6
<1>6. CASE cpu.pc \notin {"byte", "start"} /\ br.state \notin {"TX_RD", "TX_LOAD", "TX_PUT"}
  BY <1>1, <1>6 DEF Sent
<1> QED
  BY <1>4, <1>5, <1>6

\* On an edge of the SoC's clock nothing new is handed over, or the next byte.
LEMMA Source ==
  ASSUME TypeInv, CpuInv, BridgeInv, OwnerInv, dir = "toHost",
         NEW acts \in BOOLEAN, IutEdge(acts), UNCHANGED <<transfer, stream_busy>>
  PROVE  \/ OnWire' = <<>> /\ Sent' = Sent
         \/ OnWire' = <<Sent + 1>> /\ Sent' = Sent + 1
<1>1. /\ Header \in Nat /\ Words \in Nat /\ WordBytes \in Nat /\ WordBytes > 0
      /\ Bytes(Words) \in Nat /\ Total \in Nat /\ Total = Header + Bytes(Words)
      /\ Header' = Header /\ Words' = Words /\ dir' = dir /\ Total' = Total
      /\ (stream_busy' <=> stream_busy)
  BY Sizes DEF Header, Words, dir, Total
<1>2. /\ CpuType /\ BridgeType /\ LineType
      /\ cpu.moved \in Nat /\ br.addr \in Nat /\ br.buf \in Seq(Nat)
  BY Zenon DEF TypeInv, CpuType, CpuRegs, BridgeType, BridgeRegs
<1>3. /\ Bytes(br.addr) \in Nat /\ Bytes(0) = 0
      /\ br.addr < Words =>
           /\ Bytes(br.addr + 1) = Bytes(br.addr) + WordBytes
           /\ Bytes(br.addr) + WordBytes <= Bytes(Words)
           /\ Bytes(Words) - Bytes(br.addr) = WordBytes <=> br.addr + 1 = Words
  BY <1>1, <1>2, WordSteps
<1>4. CASE CpuStart /\ BridgeStart /\ bridge_owner'
  <2>1. /\ cpu.pc = "start" /\ cpu'.pc = "wait" /\ cpu.moved = Header /\ br.addr = 0
    BY <1>2, <1>4, StartFields DEF CpuStart, CpuInv, OwnerInv
  <2>2. Sent = Header
    BY <2>1 DEF Sent
  <2>3. CASE stream_busy \/ Words = 0
    <3>1. br'.state = "DONE" /\ ~br'.send
      BY <1>2, <1>4, <2>3, StartRefused, Zenon
    <3>2. Words = 0 => Total = Header
      BY <1>1, <1>3
    <3>3. Sent' = IF stream_busy THEN Header ELSE Total
      BY <1>1, <2>1, <3>1 DEF Sent
    <3> QED BY <1>4, <2>2, <2>3, <3>1, <3>2, <3>3 DEF OnWire, SocSend
  <2>4. CASE ~(stream_busy \/ Words = 0)
    <3>1. br'.state = "TX_RD" /\ ~br'.send /\ br'.addr = br.addr
      BY <1>2, <1>4, <2>4, Starts, Zenon
    <3>2. Sent' = Header + Bytes(0)
      BY <1>1, <2>1, <3>1 DEF Sent, Base
    <3>3. Sent' = Sent
      BY <1>1, <1>3, <2>2, <3>2
    <3> QED BY <1>4, <3>1, <3>3 DEF OnWire, SocSend
  <2> QED BY <2>3, <2>4
<1>5. CASE CpuReady /\ BridgeWaits /\ ~bridge_owner'
  <2>1. cpu'.pc = cpu.pc /\ ~cpu'.send /\ cpu'.moved = cpu.moved /\ cpu.pc \in {"byte", "copy"}
    BY <1>2, <1>5, ReadyFields, Zenon DEF CpuReady
  <2>2. cpu.pc # "copy"
    BY <2>1 DEF CpuInv
  <2>3. Sent' = Sent
    BY <2>1, <2>2 DEF Sent
  <2> QED BY <1>5, <2>1, <2>3 DEF OnWire, SocSend
<1>6. CASE CpuByte /\ BridgeWaits /\ ~bridge_owner'
  <2>1. /\ cpu'.send /\ cpu'.data = cpu.moved + 1 /\ cpu'.moved = cpu.moved + 1
        /\ cpu.pc \in {"byte", "copy"}
        /\ cpu'.pc = IF cpu.moved + 1 = Header THEN "start"
                     ELSE IF cpu.moved + 1 = Total THEN "done" ELSE cpu.pc
    BY <1>2, <1>6, PutFields, Zenon DEF CpuByte
  <2>2. cpu.pc = "byte" /\ cpu.moved < Header
    BY <2>1 DEF CpuInv
  <2>3. cpu'.pc \in {"byte", "start"}
    BY <1>1, <1>2, <2>1, <2>2
  <2>4. Sent = cpu.moved /\ Sent' = cpu.moved + 1
    BY <2>1, <2>2, <2>3 DEF Sent
  <2> QED BY <1>6, <2>1, <2>4 DEF OnWire, SocSend, SocData
<1>7. CASE CpuEnd /\ BridgeClear /\ ~bridge_owner'
  <2>1. cpu'.pc = "done" /\ ~cpu'.send /\ cpu.pc = "wait" /\ br.state = "DONE" /\ br'.state = "IDLE"
    BY <1>2, <1>7, EndFields, Clears DEF CpuEnd, BridgeClear
  <2>2. Sent' = Sent
    BY <1>1, <2>1 DEF Sent
  <2> QED BY <1>7, <2>1, <2>2 DEF OnWire, SocSend
<1>8. CASE CpuWaits /\ BridgeRuns /\ (bridge_owner' <=> bridge_owner /\ br.busy)
  <2>1. cpu'.pc = cpu.pc /\ ~cpu'.send /\ cpu'.moved = cpu.moved
    BY <1>2, <1>8, WaitFields, Zenon
  <2>2. ~br'.send => OnWire' = <<>>
    BY <2>1, Zenon DEF OnWire, SocSend
  <2>3. CASE cpu.pc # "wait"
    <3>1. br.state = "IDLE"
      BY <2>3, Zenon DEF CpuInv
    <3>2. br'.state = "IDLE" /\ ~br'.send
      <4>1. br.state # "TX_PUT"
        BY <3>1
      <4> QED BY <1>8, <3>1, <4>1, Runs, Zenon
    <3>3. Sent' = Sent
      BY <1>1, <2>1, <3>1, <3>2 DEF Sent
    <3> QED BY <2>2, <3>2, <3>3
  <2>4. CASE cpu.pc = "wait" /\ BridgeWaits
    <3>1. br'.state = br.state /\ ~br'.send /\ br.state \in {"IDLE", "DONE"}
      BY <1>2, <2>4, Stays, Zenon DEF BridgeWaits
    <3>2. Sent' = Sent
      BY <1>1, <2>1, <2>4, <3>1 DEF Sent
    <3> QED BY <2>2, <3>1, <3>2
  <2>5. CASE cpu.pc = "wait" /\ (RxByte \/ RxWr)
    <3>1. br.state \in RxState
      BY <2>5 DEF RxByte, RxWr, RxState
    <3>2. dir = "toDevice"
      BY <3>1, Zenon DEF BridgeInv
    <3> QED BY <3>2
  <2>6. CASE cpu.pc = "wait" /\ TxRd
    <3>1. br.state = "TX_RD" /\ br'.state = "TX_LOAD" /\ ~br'.send /\ br'.addr = br.addr
      BY <1>2, <2>6, Asks, Zenon DEF TxRd
    <3>2. Sent' = Sent
      BY <1>1, <2>1, <2>6, <3>1 DEF Sent, Base
    <3> QED BY <2>2, <3>1, <3>2
  <2>7. CASE cpu.pc = "wait" /\ TxLoad
    <3>1. br.state = "TX_LOAD"
      BY <2>7 DEF TxLoad
    <3>2. /\ br'.state = "TX_LOAD" \/ (br'.state = "TX_PUT" /\ ~br'.sent)
          /\ ~br'.send /\ br'.addr = br.addr
      BY <1>2, <2>7, <3>1, Loads, Awaits, Zenon
    <3>3. Sent' = Sent
      BY <1>1, <2>1, <2>7, <3>1, <3>2 DEF Sent, Base
    <3> QED BY <2>2, <3>2, <3>3
  <2>8. CASE cpu.pc = "wait" /\ TxPut
    <3> DEFINE n == Len(br.buf)
    <3>1. br.state = "TX_PUT" /\ br.state \in TxState /\ br.state \in RxState \cup TxState
      BY <2>8 DEF TxPut, TxState
    <3>2. /\ br.busy /\ br.addr < Words /\ ~stream_busy /\ 0 < n /\ n <= WordBytes
          /\ ~br.sent => n = WordBytes
          /\ br.left = Bytes(Words) - Bytes(br.addr) /\ bridge_owner
      BY <3>1, Zenon DEF BridgeInv, OwnerInv
    <3>3. n \in Nat /\ Base \in Nat /\ Base = Header + Bytes(br.addr)
      BY <1>1, <1>2, <1>3 DEF Base
    <3>4. Sent = IF br.sent THEN Base + WordBytes + 1 - n ELSE Base
      BY <2>8, <3>1 DEF Sent
    <3>5. /\ br'.send => OnWire' = <<br'.data>>
          /\ br'.addr = br.addr => Base' = Base
          /\ br'.state = "TX_PUT" =>
               Sent' = IF br'.sent THEN Base' + WordBytes + 1 - Len(br'.buf) ELSE Base'
          /\ br'.state = "TX_RD" => Sent' = Base'
          /\ br'.state = "DONE" => Sent' = Total
      <4>1. br'.send => OnWire' = <<br'.data>>
        BY <1>8, <3>2, Zenon DEF OnWire, SocSend, SocData
      <4>2. br'.addr = br.addr => Base' = Base
        BY <1>1 DEF Base
      <4> QED BY <1>1, <2>1, <2>8, <3>2, <4>1, <4>2 DEF Sent
    <3> HIDE DEF n
    <3>6. CASE ~br.sent /\ tx_ready
      <4>1. /\ br'.state = "TX_PUT" /\ br'.sent /\ br'.send /\ br'.data = br.buf[1]
            /\ br'.addr = br.addr /\ br'.buf = br.buf
        BY <1>2, <2>8, <3>1, <3>2, <3>6, SendsFirst, Zenon DEF n
      <4>2. br.buf[1] = Base + WordBytes - Len(br.buf) + 1
        <5>1. 1 \in 1 .. Len(br.buf)
          BY <1>2, <3>2 DEF n
        <5>2. \A i \in 1 .. Len(br.buf) : br.buf[i] = Base + WordBytes - Len(br.buf) + i
          BY <3>1, Zenon DEF BridgeInv
        <5> QED BY <5>1, <5>2
      <4>3. n = WordBytes /\ Len(br'.buf) = n /\ br'.data = Base + WordBytes - n + 1
        BY <3>2, <3>6, <4>1, <4>2 DEF n
      <4>4. Sent = Base /\ Base' = Base /\ Sent' = Base' + WordBytes + 1 - Len(br'.buf)
        BY <3>4, <3>5, <3>6, <4>1
      <4>5. br'.data = Sent + 1 /\ Sent' = Sent + 1
        BY <1>1, <3>3, <4>3, <4>4
      <4> QED BY <3>5, <4>1, <4>5
    <3>7. CASE (br.sent \/ ~tx_ready) /\ (br.hold \/ ~tx_ready)
      <4>1. /\ br'.state = "TX_PUT" /\ (br'.sent <=> br.sent) /\ ~br'.send
            /\ br'.addr = br.addr /\ br'.buf = br.buf
        BY <1>2, <2>8, <3>1, <3>7, KeepsOff, Zenon
      <4>2. Sent' = Sent
        BY <3>4, <3>5, <4>1 DEF n
      <4> QED BY <2>2, <4>1, <4>2
    <3>8. CASE br.sent /\ ~br.hold /\ tx_ready /\ Len(br.buf) > 1
      <4>1. /\ br'.state = "TX_PUT" /\ br'.sent /\ br'.send /\ br'.addr = br.addr
            /\ br'.data = br.buf[2]
        BY <1>2, <2>8, <3>1, <3>8, SendsNext, Zenon
      <4>2. Len(br'.buf) = n - 1
        <5>1. br'.buf = Tail(br.buf)
          BY <1>2, <2>8, <3>1, <3>8, SendsNext, Zenon
        <5> QED BY <1>2, <3>8, <5>1 DEF n
      <4>3. br.buf[2] = Base + WordBytes - n + 2
        <5>1. 2 \in 1 .. Len(br.buf)
          BY <1>2, <3>8
        <5>2. \A i \in 1 .. Len(br.buf) : br.buf[i] = Base + WordBytes - Len(br.buf) + i
          BY <3>1, Zenon DEF BridgeInv
        <5> QED BY <5>1, <5>2 DEF n
      <4>4. Sent = Base + WordBytes + 1 - n /\ Sent' = Base + WordBytes + 1 - Len(br'.buf)
        BY <3>4, <3>5, <3>8, <4>1
      <4>6. br'.data = Base + WordBytes - n + 2
        BY <4>1, <4>3
      <4>5. br'.data = Sent + 1 /\ Sent' = Sent + 1
        <5>1. WordBytes \in Nat /\ n \in Nat /\ Base \in Nat
          BY <1>1, <3>3
        <5>2. Sent' = Base + WordBytes + 1 - (n - 1)
          BY <4>2, <4>4
        <5>3. Sent = Base + WordBytes + 1 - n
          BY <4>4
        <5> QED BY <4>6, <5>1, <5>2, <5>3
      <4> QED BY <3>5, <4>1, <4>5
    <3>9. CASE br.sent /\ ~br.hold /\ tx_ready /\ ~(Len(br.buf) > 1)
      <4>1. /\ ~br'.send
            /\ br'.state = (IF br.left = WordBytes THEN "DONE" ELSE "TX_RD")
            /\ br'.addr = (IF br.left = WordBytes THEN br.addr ELSE br.addr + 1)
        BY <1>2, <2>8, <3>1, <3>9, EndsWord, Zenon
      <4>2. n = 1
        <5>1. ~(n > 1) /\ 0 < n
          BY <3>2, <3>9 DEF n
        <5> QED BY <3>3, <5>1
      <4>3. Sent = Base + WordBytes
        BY <1>1, <3>3, <3>4, <3>9, <4>2
      <4>4. CASE br.left = WordBytes
        <5>1. Sent' = Total
          BY <3>5, <4>1, <4>4
        <5>2. Bytes(br.addr) + WordBytes = Bytes(Words)
          BY <1>1, <1>3, <3>2, <4>4
        <5>3. Sent' = Sent
          BY <1>1, <1>3, <3>3, <4>3, <5>1, <5>2
        <5> QED BY <2>2, <4>1, <5>3
      <4>5. CASE br.left # WordBytes
        <5>1. Sent' = Base' /\ br'.addr = br.addr + 1
          BY <3>5, <4>1, <4>5
        <5>2. Base' = Header + Bytes(br.addr + 1)
          BY <1>1, <5>1 DEF Base
        <5>3. Sent' = Sent
          BY <1>1, <1>3, <3>2, <3>3, <4>3, <5>1, <5>2
        <5> QED BY <2>2, <4>1, <5>3
      <4> QED BY <4>4, <4>5
    <3> QED BY <3>6, <3>7, <3>8, <3>9, Zenon
  <2> QED BY <1>8, <2>3, <2>4, <2>5, <2>6, <2>7, <2>8 DEF BridgeRuns
<1> QED
  BY <1>4, <1>5, <1>6, <1>7, <1>8, SocCases

\* The host takes what it pops, and nothing else.
LEMMA HostGets ==
  ASSUME TransportInv, dir = "toHost", NEW u \in BOOLEAN, NEW acts \in BOOLEAN,
         IF u THEN UsbEdge(acts) ELSE UNCHANGED usbVars
  PROVE  \/ u /\ usb.rden /\ ~empty /\ host'.got = Append(host.got, Head(queue))
         \/ ~(u /\ usb.rden) /\ host'.got = host.got
<1>1. UsbType /\ ToHostUsb /\ FifoInv
  BY Zenon DEF TransportInv, TypeInv, UsbInv
<1>2. CASE ~u \/ (u /\ (HostBegins \/ Strobe \/ UsbWaits))
  <2>1. host' = host
    BY <1>2 DEF usbVars, HostBegins, Strobe, UsbWaits
  <2>2. u => usb.phase # "valid"
    BY <1>2 DEF HostBegins, Strobe, UsbWaits
  <2> QED BY <1>1, <2>1, <2>2, Zenon DEF ToHostUsb
<1>3. CASE u /\ HostEnds
  <2>1. usb.phase = "valid" /\ usb.phase # "idle"
    BY <1>3 DEF HostEnds
  <2>2. /\ usb.reg # "RX_BYTE" /\ usb.reg # "none"
        /\ usb.reg = "TX_BYTE" => host.count > 0 /\ usb.read = Head(queue)
        /\ usb.rden <=> usb.reg = "TX_BYTE"
        /\ host.count <= count_rd
    BY <1>1, <2>1, Zenon DEF ToHostUsb
  <2>3. /\ usb.reg = "TX_IDX" => host'.got = host.got
        /\ usb.reg = "TX_BYTE" => host'.got = Append(host.got, usb.read)
    BY <1>1, <1>3, <2>2, EndsFields
  <2>4. usb.reg = "TX_IDX" \/ usb.reg = "TX_BYTE"
    <3>1. usb.reg \in {"none", "TX_IDX", "TX_BYTE", "RX_BYTE"}
      BY <1>1, Zenon DEF UsbType, UsbRegs
    <3> QED BY <2>2, <3>1
  <2>5. CASE usb.reg = "TX_BYTE"
    <3>1. ~empty
      <4>1. count_rd \in Nat /\ (empty <=> count_rd = 0) /\ host.count \in Nat
        <5>1. count_rd \in Nat /\ (empty <=> count_rd = 0)
          BY <1>1, Counts
        <5> QED BY <1>1, <5>1, Zenon DEF UsbType, HostState
      <4>2. host.count > 0 /\ host.count <= count_rd
        BY <2>2, <2>5
      <4>3. count_rd # 0
        BY <4>1, <4>2
      <4> QED BY <4>1, <4>3
    <3> QED BY <1>3, <2>2, <2>3, <2>5, <3>1, Zenon
  <2>6. CASE usb.reg = "TX_IDX"
    <3>1. usb.reg # "TX_BYTE"
      BY <2>6
    <3> QED BY <2>2, <2>3, <2>6, <3>1, Zenon
  <2> QED BY <2>4, <2>5, <2>6
<1> QED
  BY <1>2, <1>3, Zenon DEF UsbEdge

\* The cuts between the stages on the way to the host move with the bytes.
LEMMA ToHostFlowKeeps ==
  ASSUME TransportInv, dir = "toHost", NEW iut \in BOOLEAN, NEW u \in BOOLEAN,
         NEW cpuActs \in BOOLEAN, NEW hostActs \in BOOLEAN, Clock(iut, u, cpuActs, hostActs)
  PROVE  ToHostFlow'
<1>1. /\ TypeInv /\ CpuInv /\ BridgeInv /\ OwnerInv /\ BoxInv /\ FifoInv /\ ToHostFlow
      /\ Send => ut.fin
  BY SendsReady, Zenon DEF TransportInv, FlowInv
<1>2. /\ Total \in Nat /\ Total' = Total
  BY <1>1, Sizes DEF Clock, Total, Header, Words
<1>3. PICK g \in 0 .. Total, c \in 0 .. Total, d \in 0 .. Total :
        /\ Part(host.got, 0, g, lost) /\ Part(queue, g, c, lost)
        /\ Carries(ur.fifo, ur.new, InUt, c, d, lost) /\ Part(OnWire, d, Sent, lost)
  BY <1>1 DEF ToHostFlow
<1>4. g \in Nat /\ c \in Nat /\ d \in Nat /\ c <= d /\ g <= c
  <2>1. g \in Nat /\ c \in Nat /\ d \in Nat
    BY <1>2, <1>3
  <2> QED BY <1>3, <2>1, CarriesBounds, PartBounds
<1>5. lost' = {} => lost = {}
  BY DEF Clock
<1> DEFINE rest == IF u /\ usb.rden /\ ~empty THEN Tail(queue) ELSE queue
<1>6. PICK g1 \in 0 .. Total : Part(host'.got, 0, g1, lost') /\ Part(rest, g1, c, lost')
  <2>1. IF u THEN UsbEdge(hostActs) ELSE UNCHANGED usbVars
    BY Zenon DEF Clock
  <2>2. CASE u /\ usb.rden /\ ~empty /\ host'.got = Append(host.got, Head(queue))
    <3>1. queue # <<>>
      BY <1>1, <2>2, OldestShown
    <3>2. /\ Head(queue) \in Nat /\ g < Head(queue) /\ Head(queue) <= c
          /\ lost = {} => Head(queue) = g + 1
          /\ Part(Tail(queue), Head(queue), c, lost)
      BY <1>3, <1>4, <3>1, PartHead
    <3>3. Part(host'.got, 0, Head(queue), lost')
      BY <1>3, <1>4, <1>5, <2>2, <3>2, PartAppend
    <3>4. rest = Tail(queue)
      BY <2>2
    <3>5. Part(rest, Head(queue), c, lost')
      <4> DEFINE h == Head(queue)
      <4>1. h \in Nat /\ Part(rest, h, c, lost)
        BY <3>2, <3>4
      <4> HIDE DEF h, rest
      <4>2. Part(rest, h, c, lost')
        BY <1>4, <1>5, <4>1, PartWiden
      <4> QED BY <4>2 DEF h
    <3>6. Head(queue) \in 0 .. Total
      BY <1>2, <1>3, <1>4, <3>2
    <3> QED BY <3>3, <3>5, <3>6
  <2>3. CASE ~(u /\ usb.rden) /\ host'.got = host.got
    <3>1. rest = queue
      BY <2>3
    <3> HIDE DEF rest
    <3>2. Part(host'.got, 0, g, lost') /\ Part(rest, g, c, lost')
      BY <1>3, <1>4, <1>5, <2>3, <3>1, PartWiden
    <3> QED BY <1>3, <3>2
  <2> QED BY <2>1, <2>2, <2>3, HostGets
<1>7. g1 \in Nat
  BY <1>2, <1>6
<1>8. CASE ~iut
  <2>1. /\ ur' = ur /\ ut' = ut /\ cpu' = cpu /\ br' = br /\ bridge_owner' = bridge_owner
        /\ transfer' = transfer /\ stream_busy' = stream_busy
    BY <1>8 DEF Clock, iutVars
  <2>2. InUt' = InUt /\ OnWire' = OnWire /\ Sent' = Sent
    BY <2>1 DEF InUt, OnWire, SocSend, SocData, Sent, Base, Total, Header, Words
  <2>3. queue' = rest
    BY <1>8, Zenon DEF Clock, Edge
  <2>4. Carries(ur'.fifo, ur'.new, InUt', c, d, lost')
    BY <1>3, <1>4, <1>5, <2>1, <2>2, CarriesWiden
  <2>5. Part(OnWire', d, Sent', lost')
    <3>1. Sent \in Nat
      BY <1>1, SentBound
    <3> QED BY <1>3, <1>4, <1>5, <2>2, <3>1, PartWiden
  <2>6. Part(queue', g1, c, lost')
    BY <1>6, <2>3
  <2> HIDE DEF rest
  <2> QED BY <1>2, <1>3, <1>6, <2>4, <2>5, <2>6 DEF ToHostFlow
<1>9. CASE iut
  <2>1. /\ IutEdge(cpuActs) /\ Line /\ UNCHANGED <<transfer, stream_busy>>
        /\ Edge(iut, txf_wren, rx_data, u, usb.rden)
        /\ lost' = lost \cup Dropped(iut, u)
    BY <1>9, Zenon DEF Clock, IutEdge
  <2>2. lost' = {} => ~Overrun /\ ~(txf_wren /\ full)
    BY <1>9, <2>1 DEF Dropped
  <2>3. (Ack <=> box.ack) /\ (Send <=> SocSend) /\ Byte = SocData
    BY DEF Ack, Send, Byte
  \* The mailbox pops.
  <2>4. PICK c1 \in 0 .. Total :
          Part(queue', g1, c1, lost') /\ Carries(Kept, ur.new, InUt, c1, d, lost)
    <3>1. CASE txf_wren
      <4>1. ur.fifo # <<>> /\ rx_data = Head(ur.fifo) /\ Kept = Tail(ur.fifo)
        BY <2>3, <3>1 DEF txf_wren, rx_rdy, rx_data, Kept
      <4>2. /\ Head(ur.fifo) \in Nat /\ c < Head(ur.fifo) /\ Head(ur.fifo) <= d
            /\ lost = {} => Head(ur.fifo) = c + 1
            /\ Carries(Tail(ur.fifo), ur.new, InUt, Head(ur.fifo), d, lost)
        BY <1>3, <1>4, <4>1, LineGives
      <4>3. Head(ur.fifo) \in 0 .. Total
        BY <1>2, <1>3, <4>2
      <4>4. Part(queue', g1, Head(ur.fifo), lost')
        <5>1. CASE ~full
          <6>1. queue' = Append(rest, Head(ur.fifo))
            BY <1>9, <2>1, <3>1, <4>1, <5>1, Zenon DEF Edge
          <6> DEFINE h == Head(ur.fifo)
          <6>2. h \in Nat /\ c < h /\ (lost = {} => h = c + 1) /\ queue' = Append(rest, h)
            BY <4>2, <6>1
          <6> HIDE DEF rest, h
          <6>3. Part(queue', g1, h, lost')
            <7>1. lost' = {} => lost' = {} /\ h = c + 1
              BY <1>5, <6>2
            <7> QED BY <1>4, <1>6, <1>7, <6>2, <7>1, PartAppend
          <6> QED BY <6>3 DEF h
        <5>2. CASE full
          <6>1. queue' = rest
            BY <2>1, <5>2, Zenon DEF Edge
          <6>2. lost' # {}
            BY <2>2, <3>1, <5>2
          <6> HIDE DEF rest
          <6> QED BY <1>4, <1>6, <1>7, <4>2, <6>1, <6>2, PartWiden
        <5> QED BY <5>1, <5>2
      <4>5. Carries(Kept, ur.new, InUt, Head(ur.fifo), d, lost)
        BY <4>1, <4>2
      <4> QED BY <4>3, <4>4, <4>5
    <3>2. CASE ~txf_wren
      <4>1. Kept = ur.fifo
        BY <2>3, <3>2 DEF txf_wren, Kept
      <4>2. queue' = rest
        BY <2>1, <3>2, Zenon DEF Edge
      <4> HIDE DEF rest
      <4> QED BY <1>3, <1>6, <4>1, <4>2
    <3> QED BY <3>1, <3>2
  <2>5. c1 \in Nat /\ c1 <= d /\ Sent \in Nat /\ Sent <= Total
    <3>1. c1 \in Nat /\ Sent \in Nat /\ Sent <= Total
      BY <1>1, <1>2, <2>4, SentBound
    <3> QED BY <1>4, <2>4, <3>1, CarriesBounds
  <2>6. ur'.fifo = Kept \o Added
    BY <1>1, <2>1, LineStep
  \* The transmitter takes the byte it is handed.
  <2>7. PICK d1 \in 0 .. Total :
          /\ Carries(ur'.fifo, ur'.new, InUt', c1, d1, lost')
          /\ d1 <= Sent /\ (lost' = {} => d1 = Sent)
    <3>1. CASE SocSend
      <4>1. Part(<<SocData>>, d, Sent, lost)
        BY <1>3, <3>1 DEF OnWire
      <4>2. /\ SocData \in Nat /\ d < SocData /\ SocData <= Sent
            /\ lost = {} => SocData = d + 1 /\ SocData = Sent
        BY <1>4, <2>5, <4>1, PartSingle
      <4>4. Carries(ur'.fifo, ur'.new, InUt', c1, SocData, lost')
        <5>1. Send /\ Byte \in Nat /\ d < Byte /\ (lost' = {} => Byte = d + 1)
          BY <1>5, <2>3, <3>1, <4>2
        <5>2. lost' = {} => lost = {} /\ ~Overrun
          BY <1>5, <2>2
        <5>3. Carries(Kept \o Added, ur'.new, InUt', c1, Byte, lost')
          BY <1>1, <1>4, <2>1, <2>4, <2>5, <5>1, <5>2, LineFlow
        <5> QED BY <2>3, <2>6, <5>3
      <4>5. SocData \in 0 .. Total
        BY <1>2, <2>5, <4>2
      <4> QED BY <1>5, <4>2, <4>4, <4>5
    <3>2. CASE ~SocSend
      <4>1. OnWire = <<>>
        BY <3>2 DEF OnWire
      <4>2. d <= Sent /\ (lost = {} => d = Sent)
        BY <1>3, <1>4, <2>5, <4>1 DEF Part
      <4>3. Carries(ur'.fifo, ur'.new, InUt', c1, d, lost')
        BY <1>1, <1>4, <1>5, <2>1, <2>2, <2>3, <2>4, <2>5, <2>6, <3>2, LineFlow
      <4> QED BY <1>3, <1>5, <4>2, <4>3
    <3> QED BY <3>1, <3>2
  \* Processor or bridge hands over the next one.
  <2>8. Part(OnWire', d1, Sent', lost')
    <3>1. d1 \in Nat
      BY <1>2, <2>7
    <3>2. CASE OnWire' = <<>> /\ Sent' = Sent
      BY <2>5, <2>7, <3>1, <3>2, PartEmpty
    <3>3. CASE OnWire' = <<Sent + 1>> /\ Sent' = Sent + 1
      <4>1. Sent + 1 \in Nat /\ d1 < Sent + 1 /\ (lost' = {} => Sent + 1 = d1 + 1)
        BY <2>5, <2>7, <3>1
      <4> QED BY <3>1, <3>3, <4>1, PartOne
    <3> QED BY <1>1, <2>1, <3>2, <3>3, Source
  <2> HIDE DEF rest
  <2> QED BY <1>2, <1>6, <2>4, <2>7, <2>8 DEF ToHostFlow
<1> QED
  BY <1>8, <1>9

-------------------------------------------------------------------------------
(* On the way to the device.                                               *)

\* The processor reads the bytes, all that are taken.
Reads == stream_busy \/ cpu.pc \in {"byte", "start"}

\* On an edge of the SoC's clock the bridge takes a byte, the processor takes
\* one, it acknowledges one, or nothing is taken.
LEMMA Sink ==
  ASSUME TypeInv, CpuInv, BridgeInv, OwnerInv, dir = "toDevice",
         NEW acts \in BOOLEAN, IutEdge(acts), UNCHANGED <<transfer, stream_busy>>
  PROVE  \/ /\ ~cpu.ack /\ ~cpu'.ack /\ Ack /\ rx_rdy /\ cpu'.got = cpu.got
            /\ Taken' = Taken + 1 /\ ~Reads'
         \/ /\ ~cpu.ack /\ cpu'.ack /\ ~Ack /\ rx_rdy
            /\ cpu'.got = Append(cpu.got, Head(ur.fifo))
            /\ Taken' = Taken + 1 /\ Reads
         \/ /\ cpu.ack /\ ~cpu'.ack /\ Ack /\ rx_rdy /\ cpu'.got = cpu.got
            /\ Taken' = Taken /\ (Reads' => Reads)
         \/ /\ ~cpu.ack /\ ~cpu'.ack /\ ~(Ack /\ rx_rdy) /\ cpu'.got = cpu.got
            /\ Taken' = Taken /\ (Reads' => Reads)
<1>1. /\ Header \in Nat /\ Words \in Nat /\ Bytes(Words) \in Nat /\ Total \in Nat
      /\ Total = Header + Bytes(Words) /\ Header' = Header /\ Total' = Total
      /\ (stream_busy' <=> stream_busy) /\ Bytes(0) = 0 /\ dir # "toHost"
  BY Sizes, WordSteps DEF Header, Words, Total
<1>2. /\ CpuType /\ BridgeType /\ LineType /\ cpu.moved \in Nat /\ br.left \in Int
  BY Zenon DEF TypeInv, CpuType, CpuRegs, BridgeType, BridgeRegs
<1>3. Ack <=> IF bridge_owner THEN rx_ack ELSE cpu.ack
  BY <1>1, Zenon DEF Ack, SocAck
<1>4. /\ cpu.pc # "wait" => br.state = "IDLE" /\ ~bridge_owner
      /\ cpu.ack => cpu.pause /\ ur.fifo # <<>>
      /\ cpu.pc = "wait" => ~cpu.ack
  BY Zenon DEF CpuInv
<1>5. CASE CpuStart /\ BridgeStart /\ bridge_owner'
  <2>1. /\ cpu.pc = "start" /\ cpu'.pc = "wait" /\ ~cpu.pause /\ ~cpu'.ack
        /\ cpu'.moved = cpu.moved /\ cpu'.got = cpu.got
    BY <1>2, <1>5, StartFields, Zenon DEF CpuStart, Access
  <2>2. cpu.moved = Header /\ br.state = "IDLE" /\ ~bridge_owner /\ ~cpu.ack
    BY <1>4, <2>1 DEF CpuInv
  <2>3. br.left = 0
    <3>1. br.state \notin RxState \cup TxState
      BY <2>2 DEF RxState, TxState
    <3> QED BY <3>1, Zenon DEF BridgeInv
  <2>4. Taken' = Taken
    <3>1. Taken = Header /\ Taken' = IF stream_busy THEN Header ELSE Total - br'.left
      BY <1>1, <2>1, <2>2 DEF Taken
    <3>2. CASE stream_busy \/ Words = 0
      <4>1. br'.left = 0
        BY <1>2, <1>5, <2>3, <3>2, StartRefused, Zenon
      <4> QED BY <1>1, <3>1, <3>2, <4>1
    <3>3. CASE ~(stream_busy \/ Words = 0)
      <4>1. br'.left = Bytes(Words)
        BY <1>2, <1>5, <3>3, Starts, Zenon
      <4> QED BY <1>1, <3>1, <3>3, <4>1
    <3> QED BY <3>2, <3>3
  <2> QED BY <1>3, <2>1, <2>2, <2>4 DEF Reads
<1>6. CASE CpuReady /\ BridgeWaits /\ ~bridge_owner'
  <2>1. /\ cpu'.pc = cpu.pc /\ ~cpu.pause /\ ~cpu'.ack /\ cpu.pc \in {"byte", "copy"}
        /\ cpu'.moved = cpu.moved /\ cpu'.got = cpu.got
    BY <1>2, <1>6, ReadyFields, Zenon DEF CpuReady, Access
  <2>2. br'.left = br.left
    BY <1>2, <1>6, Stays, Zenon DEF BridgeWaits
  <2>3. Taken' = Taken /\ (Reads' <=> Reads)
    BY <1>1, <2>1, <2>2 DEF Taken, Reads
  <2> QED BY <1>3, <1>4, <2>1, <2>3
<1>7. CASE CpuByte /\ BridgeWaits /\ ~bridge_owner'
  <2>1. cpu.pc \in {"byte", "copy"} /\ ~cpu.pause /\ rx_rdy
    <3>1. cpu.pc \in {"byte", "copy"} /\ cpu.ready /\ ~cpu.pause
      BY <1>7, Zenon DEF CpuByte, Access
    <3>2. ur.fifo # <<>>
      BY <3>1, Zenon DEF CpuInv
    <3> QED BY <3>1, <3>2 DEF rx_rdy
  <2>2. /\ cpu'.ack /\ cpu'.got = Append(cpu.got, Head(ur.fifo)) /\ cpu'.moved = cpu.moved + 1
        /\ cpu'.pc = IF cpu.moved + 1 = Header THEN "start"
                     ELSE IF cpu.moved + 1 = Total THEN "done" ELSE cpu.pc
    BY <1>2, <1>7, <2>1, GetFields, Zenon
  <2>3. Taken = cpu.moved /\ Taken' = cpu.moved + 1 /\ Reads
    <3>1. CASE cpu.pc = "byte"
      <4>1. cpu.moved < Header
        BY <3>1, Zenon DEF CpuInv
      <4>2. cpu'.pc \in {"byte", "start"}
        BY <1>1, <1>2, <2>2, <3>1, <4>1
      <4> QED BY <2>2, <3>1, <4>2 DEF Taken, Reads
    <3>2. CASE cpu.pc = "copy"
      <4>1. stream_busy
        BY <3>2, Zenon DEF CpuInv
      <4> QED BY <1>1, <2>2, <4>1 DEF Taken, Reads
    <3> QED BY <2>1, <3>1, <3>2
  <2> QED BY <1>3, <1>4, <2>1, <2>2, <2>3
<1>8. CASE CpuEnd /\ BridgeClear /\ ~bridge_owner'
  <2>1. /\ ~cpu'.ack /\ cpu'.moved = cpu.moved /\ cpu'.got = cpu.got /\ cpu.pc = "wait"
        /\ cpu'.pc = (IF br.error /\ dir = "toDevice" /\ Words > 0 THEN "copy" ELSE "done")
    BY <1>2, <1>8, EndFields, Zenon DEF CpuEnd
  <2>2. br'.left = br.left /\ br.state = "DONE"
    BY <1>2, <1>8, Clears, Zenon DEF BridgeClear
  <2>3. cpu'.pc \notin {"byte", "start"} /\ ~rx_ack
    BY <2>1, <2>2 DEF rx_ack
  <2>4. Taken' = Taken /\ (Reads' => Reads)
    BY <1>1, <2>1, <2>2, <2>3 DEF Taken, Reads
  <2> QED BY <1>3, <1>4, <2>1, <2>3, <2>4
<1>9. CASE CpuWaits /\ BridgeRuns /\ (bridge_owner' <=> bridge_owner /\ br.busy)
  <2>1. cpu'.pc = cpu.pc /\ ~cpu'.ack /\ cpu'.moved = cpu.moved /\ cpu'.got = cpu.got
    BY <1>2, <1>9, WaitFields, Zenon
  <2>2. Reads' <=> Reads
    BY <1>1, <2>1 DEF Reads
  <2>3. br'.left = br.left => Taken' = Taken
    BY <1>1, <2>1 DEF Taken
  <2>4. CASE RxByte /\ rx_rdy
    <3>1. br.state = "RX_BYTE" /\ br'.left = br.left - 1
      BY <1>2, <2>4, Takes, Zenon DEF RxByte
    <3>2. br.state \in RxState \cup TxState
      BY <3>1 DEF RxState
    <3>3. ~stream_busy /\ bridge_owner
      BY <3>2, Zenon DEF BridgeInv, OwnerInv
    <3>4. cpu.pc = "wait" /\ ~cpu.ack /\ rx_ack
      BY <1>4, <2>4, <3>1, <3>3 DEF rx_ack
    <3>5. Taken' = Taken + 1 /\ ~Reads
      <4>1. Taken = Total - br.left /\ Taken' = Total - br'.left /\ ~Reads
        BY <1>1, <2>1, <3>3, <3>4 DEF Taken, Reads
      <4> QED BY <1>1, <1>2, <3>1, <4>1
    <3> QED BY <1>3, <2>1, <2>2, <2>4, <3>3, <3>4, <3>5, Zenon
  <2>5. CASE ~(RxByte /\ rx_rdy)
    <3>1. br'.left = br.left /\ ~rx_ack
      <4>1. CASE RxByte /\ ~rx_rdy
        BY <1>2, <4>1, Stays, Zenon DEF RxByte, rx_ack
      <4>2. CASE BridgeWaits
        <5>1. ~rx_ack
          BY <4>2 DEF BridgeWaits, rx_ack
        <5> QED BY <1>2, <4>2, <5>1, Stays, Zenon DEF BridgeWaits
      <4>3. CASE RxWr
        <5>1. ~rx_ack
          BY <4>3 DEF RxWr, rx_ack
        <5> QED BY <1>2, <4>3, <5>1, Writes, Zenon
      <4>4. CASE TxRd \/ TxLoad \/ TxPut
        <5>1. br.state \in TxState
          BY <4>4 DEF TxRd, TxLoad, TxPut, TxState
        <5>2. dir = "toHost"
          BY <5>1, Zenon DEF BridgeInv
        <5> QED BY <1>1, <5>2
      <4> QED BY <1>9, <2>5, <4>1, <4>2, <4>3, <4>4, Zenon DEF BridgeRuns
    <3>2. cpu.ack => rx_rdy /\ ~bridge_owner
      BY <1>4 DEF rx_rdy
    <3> QED BY <1>3, <2>1, <2>2, <2>3, <3>1, <3>2, Zenon
  <2> QED BY <2>4, <2>5
<1> QED
  BY <1>5, <1>6, <1>7, <1>8, <1>9, SocCases

\* The rest of two sequences is the rest of the first and the second.
LEMMA TailJoin ==
  ASSUME NEW s \in Seq(Nat), NEW t \in Seq(Nat), s # <<>>
  PROVE  Tail(s \o t) = Tail(s) \o t
<1>1. /\ Len(s) \in Nat /\ Len(s) > 0 /\ Len(t) \in Nat
      /\ s \o t \in Seq(Nat) /\ Len(s \o t) = Len(s) + Len(t) /\ s \o t # <<>>
      /\ Tail(s) \in Seq(Nat) /\ Len(Tail(s)) = Len(s) - 1
  OBVIOUS
<1>2. /\ Tail(s \o t) \in Seq(Nat) /\ Len(Tail(s \o t)) = Len(s) + Len(t) - 1
      /\ Tail(s) \o t \in Seq(Nat) /\ Len(Tail(s) \o t) = Len(s) + Len(t) - 1
  BY <1>1
<1>3. ASSUME NEW i \in 1 .. Len(s) + Len(t) - 1 PROVE Tail(s \o t)[i] = (Tail(s) \o t)[i]
  <2>1. Tail(s \o t)[i] = (s \o t)[i + 1]
    BY <1>1, <1>3
  <2>2. CASE i < Len(s)
    <3>1. (s \o t)[i + 1] = s[i + 1]
      BY <1>1, <2>2
    <3>2. (Tail(s) \o t)[i] = Tail(s)[i] /\ Tail(s)[i] = s[i + 1]
      BY <1>1, <2>2
    <3> QED BY <2>1, <3>1, <3>2
  <2>3. CASE ~(i < Len(s))
    <3>1. (s \o t)[i + 1] = t[i + 1 - Len(s)]
      BY <1>1, <2>3, SMTT(30)
    <3>2. (Tail(s) \o t)[i] = t[i - (Len(s) - 1)]
      BY <1>1, <2>3, SMTT(30)
    <3>3. i + 1 - Len(s) = i - (Len(s) - 1)
      BY <1>1
    <3> QED BY <2>1, <3>1, <3>2, <3>3
  <2> QED BY <2>2, <2>3
<1> DEFINE x == Tail(s \o t)
           y == Tail(s) \o t
           n == Len(s) + Len(t) - 1
<1>4. x \in Seq(Nat) /\ y \in Seq(Nat) /\ Len(x) = n /\ Len(y) = n /\ \A i \in 1 .. n : x[i] = y[i]
  BY <1>2, <1>3
<1> HIDE DEF x, y, n
<1>5. x = y
  BY <1>4
<1> QED
  BY <1>5 DEF x, y

\* The host's byte goes into the FIFO or was lost.
LEMMA HostPuts ==
  ASSUME TransportInv, dir = "toDevice", NEW u \in BOOLEAN, NEW acts \in BOOLEAN,
         IF u THEN UsbEdge(acts) ELSE UNCHANGED usbVars
  PROVE  \/ u /\ usb.wren /\ ~full /\ usb.write = host.next /\ host'.next = host.next + 1
         \/ ~(u /\ usb.wren) /\ lost # {} /\ host'.next = host.next + 1
         \/ ~(u /\ usb.wren) /\ host'.next = host.next
<1>1. UsbType /\ ToDeviceUsb
  BY Zenon DEF TransportInv, TypeInv, UsbInv
<1>2. CASE ~u \/ (u /\ (HostBegins \/ Strobe \/ UsbWaits))
  <2>1. host' = host
    BY <1>2 DEF usbVars, HostBegins, Strobe, UsbWaits
  <2>2. u => usb.phase # "valid"
    BY <1>2 DEF HostBegins, Strobe, UsbWaits
  <2> QED BY <1>1, <2>1, <2>2, Zenon DEF ToDeviceUsb
<1>3. CASE u /\ HostEnds
  <2>1. usb.phase = "valid" /\ usb.phase # "idle"
    BY <1>3 DEF HostEnds
  <2>2. /\ usb.reg = "RX_BYTE" /\ usb.write = host.next
        /\ usb.wren => ~full
        /\ ~usb.wren => lost # {}
    BY <1>1, <2>1, Zenon DEF ToDeviceUsb
  <2>3. usb.reg # "TX_BYTE" /\ usb.reg \in {"none", "RX_BYTE"}
    BY <2>2
  <2>4. host'.next = host.next + 1
    BY <1>1, <1>3, <2>3, EndsFields
  <2> QED BY <1>3, <2>2, <2>4, Zenon
<1> QED
  BY <1>2, <1>3, Zenon DEF UsbEdge

\* The cuts between the stages on the way to the device move with the bytes.
LEMMA ToDeviceFlowKeeps ==
  ASSUME TransportInv, dir = "toDevice", NEW iut \in BOOLEAN, NEW u \in BOOLEAN,
         NEW cpuActs \in BOOLEAN, NEW hostActs \in BOOLEAN, Clock(iut, u, cpuActs, hostActs)
  PROVE  ToDeviceFlow'
<1>1. /\ TypeInv /\ CpuInv /\ BridgeInv /\ OwnerInv /\ BoxInv /\ FifoInv /\ ToDeviceFlow
      /\ ToDeviceUsb
      /\ Send => ut.fin
  BY SendsReady, Zenon DEF TransportInv, FlowInv, UsbInv
<1>2. Total \in Nat /\ Total' = Total
  BY <1>1, Sizes DEF Clock, Total, Header, Words
<1>3. PICK g \in 0 .. Total, c \in 0 .. Total, d \in 0 .. Total :
        /\ Part(cpu.got, 0, g, lost) /\ g <= c
        /\ stream_busy \/ cpu.pc \in {"byte", "start"} => g = c
        /\ lost = {} => c = Taken
        /\ Carries(Unread, ur.new, InUt, c, d, lost) /\ Part(queue, d, host.next - 1, lost)
  BY <1>1, Zenon DEF ToDeviceFlow
<1> DEFINE e == host.next - 1
           e1 == host'.next - 1
<1>4. /\ g \in Nat /\ c \in Nat /\ d \in Nat /\ c <= d /\ d <= e /\ e <= Total /\ e \in Nat
      /\ host.next = e + 1
  <2>1. g \in Nat /\ c \in Nat /\ d \in Nat
    BY <1>2, <1>3
  <2>2. host.next \in 1 .. Total + 1
    BY <1>1, Zenon DEF ToDeviceUsb
  <2>3. e \in Nat /\ e <= Total /\ host.next = e + 1
    BY <1>2, <2>2
  <2> QED BY <1>3, <2>1, <2>3, CarriesBounds, PartBounds
<1>5. lost' = {} => lost = {}
  BY DEF Clock
<1>6. /\ Edge(u, usb.wren, usb.write, iut, box.rden)
      /\ IF u THEN UsbEdge(hostActs) ELSE UNCHANGED usbVars
      /\ UNCHANGED <<transfer, stream_busy>>
      /\ lost' = lost \cup Dropped(iut, u)
  <2>1. dir # "toHost"
    OBVIOUS
  <2> QED BY <2>1, Zenon DEF Clock
<1> DEFINE rest == IF iut /\ box.rden /\ ~empty THEN Tail(queue) ELSE queue
\* The host puts.
<1>7. ASSUME NEW b \in Nat, Part(rest, b, e, lost') PROVE Part(queue', b, e1, lost')
  <2>1. CASE u /\ usb.wren /\ ~full /\ usb.write = host.next /\ host'.next = host.next + 1
    <3>1. queue' = Append(rest, host.next)
      BY <1>6, <2>1, Zenon DEF Edge
    <3>2. e1 = e + 1 /\ host.next = e + 1
      BY <1>4, <2>1
    <3> HIDE DEF rest, e, e1
    <3>3. /\ queue' = Append(rest, e1) /\ e1 \in Nat /\ e < e1
          /\ (lost' = {} => lost' = {} /\ e1 = e + 1)
      BY <1>4, <3>1, <3>2
    <3> QED BY <1>4, <1>7, <3>3, PartAppend
  <2>2. CASE ~(u /\ usb.wren) /\ lost # {} /\ host'.next = host.next + 1
    <3>1. queue' = rest
      BY <1>6, <2>2, Zenon DEF Edge
    <3>2. e1 = e + 1 /\ lost' # {}
      BY <1>4, <1>5, <2>2
    <3> HIDE DEF rest, e, e1
    <3>3. e1 \in Nat /\ e <= e1
      BY <1>4, <3>2
    <3> QED BY <1>4, <1>7, <3>1, <3>2, <3>3, PartWiden
  <2>3. CASE ~(u /\ usb.wren) /\ host'.next = host.next
    <3>1. queue' = rest
      BY <1>6, <2>3, Zenon DEF Edge
    <3> QED BY <1>7, <2>3, <3>1
  <2> QED BY <1>6, <2>1, <2>2, <2>3, HostPuts
<1>8. CASE ~iut
  <2>1. /\ ur' = ur /\ ut' = ut /\ cpu' = cpu /\ br' = br
        /\ transfer' = transfer /\ stream_busy' = stream_busy
    BY <1>8 DEF Clock, iutVars
  <2>2. InUt' = InUt /\ Unread' = Unread /\ Taken' = Taken
    BY <2>1 DEF InUt, Unread, Taken, Total, Header, Words
  <2>3. Part(rest, d, e, lost')
    <3>1. rest = queue
      BY <1>8
    <3> HIDE DEF rest
    <3> QED BY <1>3, <1>4, <1>5, <3>1, PartWiden
  <2>4. Part(queue', d, e1, lost')
    BY <1>4, <1>7, <2>3
  <2>5. Carries(Unread', ur'.new, InUt', c, d, lost')
    BY <1>3, <1>4, <1>5, <2>1, <2>2, CarriesWiden
  <2>6. Part(cpu'.got, 0, g, lost')
    BY <1>3, <1>4, <1>5, <2>1, PartWiden
  <2> HIDE DEF rest
  <2>7. /\ stream_busy' \/ cpu'.pc \in {"byte", "start"} => g = c
        /\ lost' = {} => c = Taken'
    BY <1>3, <1>5, <2>1, <2>2
  <2> QED BY <1>2, <1>3, <2>4, <2>5, <2>6, <2>7 DEF ToDeviceFlow
<1>9. CASE iut
  <2>1. IutEdge(cpuActs) /\ Line
    BY <1>9, Zenon DEF Clock, IutEdge
  <2>2. lost' = {} => ~Overrun
    BY <1>6, <1>9 DEF Dropped
  <2>3. ur'.fifo = Kept \o Added
    BY <1>1, <2>1, LineStep
  <2>4. ur.fifo \in Seq(Nat) /\ ur.new \in Seq(Nat) /\ Added \in Seq(Nat)
    <3>1. ur.fifo \in Seq(Nat) /\ ur.new \in Seq(Nat)
      BY <1>1, Zenon DEF TypeInv, LineType
    <3> QED BY <3>1 DEF Added
  \* Bridge or processor takes.
  <2>5. PICK g1 \in 0 .. Total, c1 \in 0 .. Total, f \in {ur.fifo, Tail(ur.fifo)} :
          /\ Part(cpu'.got, 0, g1, lost') /\ g1 <= c1 /\ (Reads' => g1 = c1)
          /\ lost' = {} => c1 = Taken'
          /\ Carries(f, ur.new, InUt, c1, d, lost) /\ Unread' = f \o Added
    <3>1. /\ Reads => g = c
          /\ Part(cpu.got, 0, g, lost')
      BY <1>3, <1>4, <1>5, PartWiden DEF Reads
    <3> DEFINE h == Head(ur.fifo)
    <3>2. ASSUME ~cpu.ack, rx_rdy
          PROVE  /\ h \in Nat /\ c < h /\ h \in 0 .. Total /\ (lost = {} => h = c + 1)
                 /\ Carries(Tail(ur.fifo), ur.new, InUt, h, d, lost)
      <4>1. Unread = ur.fifo /\ ur.fifo # <<>>
        BY <3>2 DEF Unread, rx_rdy
      <4>2. Carries(ur.fifo, ur.new, InUt, c, d, lost)
        BY <1>3, <4>1
      <4>3. /\ h \in Nat /\ c < h /\ h <= d /\ (lost = {} => h = c + 1)
            /\ Carries(Tail(ur.fifo), ur.new, InUt, h, d, lost)
        BY <1>4, <4>1, <4>2, LineGives
      <4>4. h \in 0 .. Total
        BY <1>2, <1>3, <4>3
      <4> QED BY <4>3, <4>4
    <3>3. CASE /\ ~cpu.ack /\ ~cpu'.ack /\ Ack /\ rx_rdy /\ cpu'.got = cpu.got
               /\ Taken' = Taken + 1 /\ ~Reads'
      <4>1. Unread' = Tail(ur.fifo) \o Added
        BY <2>3, <3>3 DEF Unread, Kept
      <4>2. h \in 0 .. Total /\ Carries(Tail(ur.fifo), ur.new, InUt, h, d, lost)
        BY <3>2, <3>3
      <4>3. g <= h /\ (lost' = {} => h = Taken')
        <5>1. h \in Nat /\ c < h /\ (lost = {} => h = c + 1)
          BY <3>2, <3>3
        <5> HIDE DEF h
        <5> QED BY <1>3, <1>4, <1>5, <3>3, <5>1
      <4>4. Part(cpu'.got, 0, g, lost')
        BY <3>1, <3>3
      <4> HIDE DEF h
      <4> QED BY <1>3, <3>3, <4>1, <4>2, <4>3, <4>4, Zenon
    <3>4. CASE /\ ~cpu.ack /\ cpu'.ack /\ ~Ack /\ rx_rdy
               /\ cpu'.got = Append(cpu.got, Head(ur.fifo))
               /\ Taken' = Taken + 1 /\ Reads
      <4>1. Unread' = Tail(ur.fifo) \o Added
        <5>1. ur'.fifo = ur.fifo \o Added /\ ur.fifo # <<>>
          BY <2>3, <3>4 DEF Kept, rx_rdy
        <5>2. Unread' = Tail(ur.fifo \o Added)
          BY <3>4, <5>1 DEF Unread
        <5>3. Tail(ur.fifo \o Added) = Tail(ur.fifo) \o Added
          BY <2>4, <5>1, TailJoin
        <5> QED BY <5>2, <5>3
      <4>2. h \in 0 .. Total /\ Carries(Tail(ur.fifo), ur.new, InUt, h, d, lost)
        BY <3>2, <3>4
      <4>3. h \in Nat /\ c < h /\ (lost = {} => h = c + 1) /\ cpu'.got = Append(cpu.got, h)
        BY <3>2, <3>4
      <4> HIDE DEF h
      <4>4. h <= h /\ (lost' = {} => h = Taken')
        BY <1>3, <1>4, <1>5, <3>4, <4>3
      <4>5. Part(cpu'.got, 0, h, lost')
        <5>1. Part(cpu.got, 0, c, lost)
          BY <1>3, <3>1, <3>4
        <5> QED BY <1>4, <1>5, <4>3, <5>1, PartAppend
      <4> QED BY <4>1, <4>2, <4>4, <4>5, Zenon
    <3>5. CASE /\ cpu.ack /\ ~cpu'.ack /\ Ack /\ rx_rdy /\ cpu'.got = cpu.got
               /\ Taken' = Taken /\ (Reads' => Reads)
      <4>1. Unread' = Tail(ur.fifo) \o Added /\ Unread = Tail(ur.fifo)
        BY <2>3, <3>5 DEF Unread, Kept
      <4> QED BY <1>3, <1>5, <3>1, <3>5, <4>1, Zenon
    <3>6. CASE /\ ~cpu.ack /\ ~cpu'.ack /\ ~(Ack /\ rx_rdy) /\ cpu'.got = cpu.got
               /\ Taken' = Taken /\ (Reads' => Reads)
      <4>1. Unread' = ur.fifo \o Added /\ Unread = ur.fifo
        BY <2>3, <3>6 DEF Unread, Kept
      <4> QED BY <1>3, <1>5, <3>1, <3>6, <4>1, Zenon
    <3> QED BY <1>1, <1>6, <2>1, <3>3, <3>4, <3>5, <3>6, Sink
  <2>6. c1 \in Nat /\ (Send <=> box.send) /\ Byte = box.byte /\ (box.rden <=> box.send)
    <3>1. dir # "toHost"
      OBVIOUS
    <3>2. c1 \in Nat
      BY <1>2, <2>5
    <3> QED BY <1>1, <3>1, <3>2, Zenon DEF Send, Byte, BoxInv
  \* The mailbox's transmitter takes the byte it is handed.
  <2>7. PICK d1 \in 0 .. Total :
          Carries(f \o Added, ur'.new, InUt', c1, d1, lost') /\ Part(rest, d1, e, lost')
    <3>1. CASE box.send
      <4>1. ~empty /\ box.byte = Head(queue) /\ queue # <<>> /\ rest = Tail(queue)
        <5>1. ~empty /\ box.byte = Head(queue)
          BY <1>1, <3>1, Zenon DEF BoxInv
        <5> QED BY <1>1, <1>9, <2>6, <3>1, <5>1, OldestShown
      <4>2. /\ Head(queue) \in Nat /\ d < Head(queue) /\ Head(queue) <= e
            /\ lost = {} => Head(queue) = d + 1
            /\ Part(Tail(queue), Head(queue), e, lost)
        BY <1>3, <1>4, <4>1, PartHead
      <4> HIDE DEF rest, e
      <4>3. /\ Byte \in Nat /\ d < Byte /\ Byte <= e /\ (lost = {} => Byte = d + 1)
            /\ Part(rest, Byte, e, lost)
        BY <2>6, <4>1, <4>2
      <4>4. Carries(f \o Added, ur'.new, InUt', c1, Byte, lost')
        <5>1. Send /\ (lost' = {} => lost = {} /\ ~Overrun)
          BY <1>5, <2>2, <2>6, <3>1
        <5> QED BY <1>1, <1>4, <1>5, <2>1, <2>5, <2>6, <4>3, <5>1, LineFlow
      <4>5. Part(rest, Byte, e, lost')
        BY <1>4, <1>5, <4>3, PartWiden
      <4>6. Byte \in 0 .. Total
        BY <1>2, <1>4, <4>3
      <4> QED BY <4>4, <4>5, <4>6
    <3>2. CASE ~box.send
      <4>1. rest = queue
        BY <2>6, <3>2
      <4>2. Carries(f \o Added, ur'.new, InUt', c1, d, lost')
        <5>1. ~Send /\ (lost' = {} => lost = {} /\ ~Overrun)
          BY <1>5, <2>2, <2>6, <3>2
        <5> QED BY <1>1, <1>4, <1>5, <2>1, <2>5, <2>6, <5>1, LineFlow
      <4> HIDE DEF rest, e
      <4>3. Part(rest, d, e, lost')
        <5>1. Part(rest, d, e, lost)
          BY <1>3, <4>1 DEF e
        <5> QED BY <1>4, <1>5, <5>1, PartWiden
      <4> QED BY <1>3, <4>2, <4>3
    <3> QED BY <3>1, <3>2
  <2>8. Part(queue', d1, host'.next - 1, lost')
    <3>1. d1 \in Nat
      BY <1>2, <2>7
    <3> QED BY <1>7, <2>7, <3>1
  <2>9. Carries(Unread', ur'.new, InUt', c1, d1, lost')
    BY <2>5, <2>7
  <2>10. stream_busy' \/ cpu'.pc \in {"byte", "start"} => g1 = c1
    BY <2>5 DEF Reads
  <2> HIDE DEF rest
  <2> QED BY <1>2, <2>5, <2>7, <2>8, <2>9, <2>10 DEF ToDeviceFlow
<1> QED
  BY <1>8, <1>9

-------------------------------------------------------------------------------
(* The task RAM.                                                           *)

\* The bridge's word holds the bytes that belong there.
Buffered == br.state \in RxState => \A i \in 1 .. Len(br.buf) : br.buf[i] = Base + i

\* The byte it takes is the next of its word.
NextFits ==
  br.state = "RX_BYTE" /\ rx_rdy =>
    Head(ur.fifo) \in Nat /\ Head(ur.fifo) = Base + Len(br.buf) + 1

\* If nothing was lost, the byte the bridge finds is the next of its word.
LEMMA NextByte ==
  ASSUME TransportInv, dir = "toDevice", lost = {}, br.state = "RX_BYTE", rx_rdy
  PROVE  Head(ur.fifo) \in Nat /\ Head(ur.fifo) = Base + Len(br.buf) + 1
<1>1. TypeInv /\ CpuInv /\ BridgeInv /\ OwnerInv /\ ToDeviceFlow
  BY Zenon DEF TransportInv, FlowInv
<1>2. /\ Header \in Nat /\ Words \in Nat /\ Bytes(Words) \in Nat /\ Total \in Nat
      /\ Total = Header + Bytes(Words)
  BY <1>1, Sizes
<1>3. br.addr \in Nat /\ br.buf \in Seq(Nat) /\ br.left \in Int
  BY <1>1, Zenon DEF TypeInv, BridgeType, BridgeRegs
<1>4. br.state \in RxState /\ br.state \in RxState \cup TxState
  BY DEF RxState
<1>5. ~stream_busy /\ bridge_owner /\ br.left = Bytes(Words) - Bytes(br.addr) - Len(br.buf)
  BY <1>1, <1>4, Zenon DEF BridgeInv, OwnerInv
<1>6. cpu.pc = "wait" /\ ~cpu.ack
  BY <1>1, <1>5, Zenon DEF CpuInv
<1>7. Taken = Total - br.left
  BY <1>5, <1>6 DEF Taken
<1>8. PICK g \in 0 .. Total, c \in 0 .. Total, d \in 0 .. Total :
        c = Taken /\ Carries(Unread, ur.new, InUt, c, d, lost)
  BY <1>1, Zenon DEF ToDeviceFlow
<1>9. c \in Nat /\ d \in Nat /\ Unread = ur.fifo /\ ur.fifo # <<>>
  BY <1>2, <1>6, <1>8 DEF Unread, rx_rdy
<1>10. Head(ur.fifo) \in Nat /\ Head(ur.fifo) = c + 1
  <2>1. Carries(ur.fifo, ur.new, InUt, c, d, lost)
    BY <1>8, <1>9
  <2> QED BY <1>9, <2>1, LineGives
<1> DEFINE n == Len(br.buf)
           b == Bytes(br.addr)
           w == Bytes(Words)
<1>11. n \in Nat /\ b \in Nat /\ w \in Nat /\ Header \in Nat
  <2>1. Len(br.buf) \in Nat
    BY <1>3
  <2>2. Bytes(br.addr) \in Nat
    BY <1>2, <1>3, WordSteps
  <2> QED BY <1>2, <2>1, <2>2
<1>12. c = (Header + w) - (w - b - n) /\ Base = Header + b
  <2>1. c = Total - br.left
    BY <1>7, <1>8
  <2>2. Total = Header + w /\ br.left = w - b - n
    BY <1>2, <1>5
  <2>3. Base = Header + b
    BY DEF Base
  <2> QED BY <2>1, <2>2, <2>3, Zenon
<1> HIDE DEF n, b, w
<1>13. c + 1 = Base + n + 1
  BY <1>11, <1>12
<1> QED
  BY <1>10, <1>13 DEF n

\* What an edge of the SoC's clock does to the bridge's word, and which words
\* count as filled then.
LEMMA Fills ==
  ASSUME TypeInv, CpuInv, BridgeInv, OwnerInv, dir = "toDevice", Buffered,
         NextFits, NEW acts \in BOOLEAN, IutEdge(acts), UNCHANGED <<transfer, stream_busy>>
  PROVE  /\ Buffered'
         /\ \/ br'.wr = <<>> /\ \A k \in Nat : k < Filled' => k < Filled
            \/ /\ br'.wr = <<[addr |-> br.addr, word |-> Word(br.addr)]>>
               /\ \A k \in Nat : k < Filled' => k < Filled \/ k = br.addr
<1>1. /\ Header \in Nat /\ Words \in Nat /\ Bytes(Words) \in Nat /\ WordBytes \in Nat
      /\ Header' = Header /\ Words' = Words /\ (stream_busy' <=> stream_busy)
      /\ Total \in Nat /\ Total = Header + Bytes(Words) /\ dir # "toHost"
  BY Sizes DEF Header, Words
<1>2. /\ CpuType /\ BridgeType /\ LineType /\ cpu.moved \in Nat /\ br.addr \in Nat
      /\ br.buf \in Seq(Nat) /\ br.left \in Int
  BY Zenon DEF TypeInv, CpuType, CpuRegs, BridgeType, BridgeRegs
<1>3. br'.addr = br.addr => Base' = Base
  BY <1>1 DEF Base
<1>4. br'.buf = <<>> => Buffered'
  BY DEF Buffered
<1>5. CASE CpuStart /\ BridgeStart /\ bridge_owner'
  <2>1. cpu.pc = "start" /\ cpu'.pc = "wait" /\ br.addr = 0
    BY <1>2, <1>5, StartFields DEF CpuStart, OwnerInv
  <2>2. CASE stream_busy \/ Words = 0
    <3>1. br'.state = "DONE" /\ br'.wr = <<>>
      BY <1>2, <1>5, <2>2, StartRefused, Zenon
    <3>2. Filled' = 0
      BY <1>1, <2>1, <2>2, <3>1 DEF Filled, RxState
    <3>3. Buffered'
      BY <3>1 DEF Buffered, RxState
    <3> QED BY <3>1, <3>2, <3>3
  <2>3. CASE ~(stream_busy \/ Words = 0)
    <3>1. br'.state = "RX_BYTE" /\ br'.wr = <<>> /\ br'.buf = <<>> /\ br'.addr = br.addr
      BY <1>1, <1>2, <1>5, <2>3, Starts, Zenon
    <3>2. Filled' = 0
      BY <2>1, <3>1 DEF Filled, RxState
    <3> QED BY <1>4, <3>1, <3>2
  <2> QED BY <2>2, <2>3
<1>6. CASE (CpuReady \/ CpuByte) /\ BridgeWaits /\ ~bridge_owner'
  <2>1. br'.state = br.state /\ br'.wr = <<>>
    BY <1>2, <1>6, Stays, Zenon DEF BridgeWaits
  <2>2. cpu.pc \in {"byte", "copy"} /\ br.state = "IDLE"
    <3>1. cpu.pc \in {"byte", "copy"} /\ cpu.pc # "wait"
      BY <1>6 DEF CpuReady, CpuByte
    <3> QED BY <3>1, Zenon DEF CpuInv
  <2>3. cpu'.pc \in {"wait", "done"} => stream_busy
    <3>1. CASE CpuReady
      <4>1. cpu'.pc = cpu.pc
        BY <1>2, <3>1, ReadyFields, Zenon
      <4> QED BY <2>2, <4>1
    <3>2. CASE CpuByte
      <4>1. rx_rdy
        <5>1. cpu.ready
          BY <3>2, Zenon DEF CpuByte
        <5>2. ur.fifo # <<>>
          BY <5>1, Zenon DEF CpuInv
        <5> QED BY <5>2 DEF rx_rdy
      <4>2. cpu'.pc = IF cpu.moved + 1 = Header THEN "start"
                      ELSE IF cpu.moved + 1 = Total THEN "done" ELSE cpu.pc
        BY <1>2, <3>2, <4>1, GetFields, Zenon
      <4>3. (cpu.pc = "byte" => cpu.moved < Header) /\ (cpu.pc = "copy" => stream_busy)
        BY Zenon DEF CpuInv
      <4> QED BY <1>1, <1>2, <2>2, <4>2, <4>3
    <3> QED BY <1>6, <3>1, <3>2
  <2>4. Filled' = 0
    BY <1>1, <2>1, <2>2, <2>3 DEF Filled, RxState
  <2>5. Buffered'
    BY <2>1, <2>2 DEF Buffered, RxState
  <2> QED BY <2>1, <2>4, <2>5
<1>7. CASE CpuEnd /\ BridgeClear /\ ~bridge_owner'
  <2>1. cpu.pc = "wait" /\ br.state = "DONE" /\ br'.state = "IDLE" /\ br'.wr = <<>>
    BY <1>2, <1>7, Clears DEF CpuEnd, BridgeClear
  <2>2. Filled' = Filled \/ Filled' = 0
    BY <1>1, <2>1 DEF Filled, RxState
  <2>3. Buffered'
    BY <2>1 DEF Buffered, RxState
  <2>4. \A k \in Nat : k < Filled' => k < Filled
    BY <2>2
  <2> QED BY <2>1, <2>3, <2>4
<1>8. CASE CpuWaits /\ BridgeRuns /\ (bridge_owner' <=> bridge_owner /\ br.busy)
  <2>1. cpu'.pc = cpu.pc
    BY <1>2, <1>8, WaitFields, Zenon
  <2>2. CASE (RxByte /\ ~rx_rdy) \/ BridgeWaits
    <3>1. br'.state = br.state /\ br'.wr = <<>> /\ br'.buf = br.buf /\ br'.addr = br.addr
      BY <1>2, <2>2, Stays, Zenon DEF RxByte, BridgeWaits
    <3>2. Filled' = Filled
      BY <1>1, <2>1, <3>1 DEF Filled
    <3>3. Buffered'
      BY <1>3, <3>1 DEF Buffered
    <3> QED BY <3>1, <3>2, <3>3
  <2>3. CASE RxByte /\ rx_rdy
    <3>1. /\ br.state = "RX_BYTE" /\ br'.state \in RxState /\ br'.wr = <<>> /\ br'.addr = br.addr
          /\ br'.buf = Append(br.buf, Head(ur.fifo))
      <4>1. br.state = "RX_BYTE"
        BY <2>3 DEF RxByte
      <4>2. /\ br'.state = (IF Len(br.buf) = WordBytes - 1 THEN "RX_WR" ELSE "RX_BYTE")
            /\ br'.wr = <<>> /\ br'.addr = br.addr /\ br'.buf = Append(br.buf, Head(ur.fifo))
        BY <1>2, <2>3, Takes, Zenon
      <4> QED BY <4>1, <4>2 DEF RxState
    <3>2. Filled' = Filled
      BY <3>1 DEF Filled, RxState
    <3>3. Buffered'
      <4> DEFINE h == Head(ur.fifo)
                 t == br'.buf
      <4>1. h \in Nat /\ h = Base + Len(br.buf) + 1 /\ t = Append(br.buf, h)
        BY <2>3, <3>1 DEF NextFits
      <4>2. \A i \in 1 .. Len(br.buf) : br.buf[i] = Base + i
        BY <3>1 DEF Buffered, RxState
      <4>3. Base \in Nat
        <5>1. Bytes(br.addr) \in Nat
          BY <1>1, <1>2, WordSteps
        <5> QED BY <1>1, <5>1 DEF Base
      <4>5. br.buf \in Seq(Nat)
        BY <1>2
      <4> HIDE DEF h, t
      <4>4. \A i \in 1 .. Len(t) : t[i] = Base + i
        <5> DEFINE s == br.buf
                   b == Base
        <5>1. s \in Seq(Nat) /\ b \in Nat
          BY <4>3, <4>5
        <5>2. \A i \in 1 .. Len(s) : s[i] = b + i
          BY <4>2
        <5>3. h \in Nat /\ h = b + Len(s) + 1 /\ t = Append(s, h)
          BY <4>1
        <5> HIDE DEF s, b
        <5>4. \A i \in 1 .. Len(t) : t[i] = b + i
          BY <5>1, <5>2, <5>3, CountsOn, SMTT(30)
        <5> QED BY <5>4 DEF b
      <4> QED BY <1>3, <3>1, <4>4 DEF Buffered, t
    <3> QED BY <3>1, <3>2, <3>3
  <2>4. CASE RxWr
    <3>1. /\ br.state = "RX_WR"
          /\ br'.state = (IF br.left = 0 THEN "DONE" ELSE "RX_BYTE")
          /\ br'.addr = (IF br.left = 0 THEN br.addr ELSE br.addr + 1)
          /\ br'.buf = <<>> /\ br'.wr = <<[addr |-> br.addr, word |-> br.buf]>>
      BY <1>2, <2>4, Writes, Zenon DEF RxWr
    <3>2. br.state \in RxState /\ br.state \in RxState \cup TxState
      BY <3>1 DEF RxState
    <3>3. /\ br.addr < Words /\ ~stream_busy /\ Len(br.buf) = WordBytes /\ bridge_owner
          /\ br.left = Bytes(Words) - Bytes(br.addr) - Len(br.buf)
      BY <3>1, <3>2, Zenon DEF BridgeInv, OwnerInv
    <3>4. cpu.pc = "wait"
      BY <3>3, Zenon DEF CpuInv
    <3>5. br.buf = Word(br.addr)
      <4>1. \A i \in 1 .. WordBytes : br.buf[i] = Header + Bytes(br.addr) + i
        BY <3>2, <3>3 DEF Buffered, Base
      <4>2. /\ Word(br.addr) \in Seq(Nat) /\ Len(Word(br.addr)) = WordBytes
            /\ \A i \in 1 .. WordBytes : Word(br.addr)[i] = Header + Bytes(br.addr) + i
        BY <1>2, WordBytesOf
      <4> DEFINE w == Word(br.addr)
                 b == br.buf
      <4>3. /\ w \in Seq(Nat) /\ b \in Seq(Nat) /\ Len(w) = WordBytes /\ Len(b) = WordBytes
            /\ \A i \in 1 .. WordBytes : b[i] = w[i]
        BY <1>2, <3>3, <4>1, <4>2
      <4> HIDE DEF w, b
      <4>4. b = w
        BY <4>3
      <4> QED BY <4>4 DEF b, w
    <3>6. Filled = br.addr
      BY <3>2 DEF Filled
    <3>7. \A k \in Nat : k < Filled' => k < Filled \/ k = br.addr
      <4>1. CASE br.left = 0
        <5>1. Filled' = Words
          BY <1>1, <2>1, <3>1, <3>3, <3>4, <4>1 DEF Filled, RxState
        <5>2. br.addr + 1 = Words
          <6>1. Bytes(Words) - Bytes(br.addr) = WordBytes
            <7>1. Bytes(br.addr) \in Nat /\ Bytes(Words) - Bytes(br.addr) - WordBytes = 0
              BY <1>1, <1>2, <3>3, <4>1, WordSteps
            <7> QED BY <1>1, <7>1
          <6> QED BY <1>1, <1>2, <3>3, <6>1, WordSteps
        <5> QED BY <1>1, <1>2, <3>6, <5>1, <5>2
      <4>2. CASE br.left # 0
        <5>1. Filled' = br.addr + 1
          BY <3>1, <4>2 DEF Filled, RxState
        <5> QED BY <1>2, <3>6, <5>1
      <4> QED BY <4>1, <4>2
    <3> QED BY <1>4, <3>1, <3>5, <3>7
  <2>5. CASE TxRd \/ TxLoad \/ TxPut
    <3>1. br.state \in TxState
      BY <2>5 DEF TxRd, TxLoad, TxPut, TxState
    <3>2. dir = "toHost"
      BY <3>1, Zenon DEF BridgeInv
    <3> QED BY <1>1, <3>2
  <2> QED BY <1>8, <2>2, <2>3, <2>4, <2>5, Zenon DEF BridgeRuns
<1> QED
  BY <1>5, <1>6, <1>7, <1>8, SocCases

\* The task RAM holds the words of the transfer, also after an edge.
LEMMA RamKeeps ==
  ASSUME TransportInv, NEW acts \in BOOLEAN, IutEdge(acts),
         UNCHANGED <<transfer, stream_busy>>, lost' = {} => lost = {}
  PROVE  RamInv' /\ ram' \in [0 .. Words - 1 -> Seq(Nat)]
<1>1. TypeInv /\ CpuInv /\ BridgeInv /\ OwnerInv /\ RamInv
  BY Zenon DEF TransportInv
<1>2. /\ ram \in [0 .. Words - 1 -> Seq(Nat)] /\ br.wr \in Seq(Stored) /\ br.addr \in Nat
      /\ br.wr # <<>> => Len(br.wr) = 1 /\ br.wr[1].addr < Words
  BY <1>1, Zenon DEF TypeInv, BridgeInv, BridgeType, BridgeRegs
<1>3. br.wr # <<>> => br.wr[1].addr \in 0 .. Words - 1 /\ br.wr[1].word \in Seq(Nat)
  <2>1. ASSUME br.wr # <<>> PROVE br.wr[1] \in Stored
    BY <1>2, <2>1
  <2>2. Words \in Nat
    BY <1>1, Sizes
  <2> QED BY <1>2, <2>1, <2>2 DEF Stored
<1>4. /\ Words' = Words /\ dir' = dir /\ \A k \in Nat : Word(k)' = Word(k)
  BY DEF Words, dir, Word, Header
<1>5. Stores
  BY Zenon DEF IutEdge
<1> DEFINE eff(k) == IF br.wr # <<>> /\ br.wr[1].addr = k THEN br.wr[1].word ELSE ram[k]
<1>6. ram' \in [0 .. Words - 1 -> Seq(Nat)]
  BY <1>2, <1>3, <1>5 DEF Stores
<1>7. \A k \in 0 .. Words - 1 : ram'[k] = eff(k)
  BY <1>2, <1>3, <1>5 DEF Stores
<1> HIDE DEF eff
<1>8. ASSUME dir = "toDevice", lost' = {} PROVE RamInv'
  <2>1. lost = {} /\ Buffered /\ \A k \in 0 .. Words - 1 : k < Filled => Word(k) = eff(k)
    BY <1>1, <1>8 DEF RamInv, Buffered, eff
  <2>2. NextFits
    BY <1>8, <2>1, NextByte DEF NextFits
  <2>3. /\ Buffered'
        /\ \/ br'.wr = <<>> /\ \A k \in Nat : k < Filled' => k < Filled
           \/ /\ br'.wr = <<[addr |-> br.addr, word |-> Word(br.addr)]>>
              /\ \A k \in Nat : k < Filled' => k < Filled \/ k = br.addr
    BY <1>1, <1>8, <2>1, <2>2, Fills
  <2>4. ASSUME NEW k \in 0 .. Words - 1, k < Filled'
        PROVE  Word(k) = IF br'.wr # <<>> /\ br'.wr[1].addr = k THEN br'.wr[1].word ELSE ram'[k]
    <3>1. k \in Nat /\ ram'[k] = eff(k) /\ (k < Filled => Word(k) = eff(k))
      BY <1>7, <2>1, <2>4
    <3>2. CASE br'.wr = <<>> /\ \A j \in Nat : j < Filled' => j < Filled
      BY <2>4, <3>1, <3>2
    <3>3. CASE /\ br'.wr = <<[addr |-> br.addr, word |-> Word(br.addr)]>>
               /\ \A j \in Nat : j < Filled' => j < Filled \/ j = br.addr
      <4>1. br'.wr # <<>> /\ br'.wr[1].addr = br.addr /\ br'.wr[1].word = Word(br.addr)
        BY <3>3
      <4>2. k < Filled \/ k = br.addr
        BY <2>4, <3>1, <3>3
      <4> QED BY <3>1, <4>1, <4>2
    <3> QED BY <2>3, <3>2, <3>3
  <2>5. ASSUME NEW k \in 0 .. Words' - 1, k < Filled'
        PROVE  Word(k)' = IF br'.wr # <<>> /\ br'.wr[1].addr = k THEN br'.wr[1].word ELSE ram'[k]
    <3>1. k \in 0 .. Words - 1 /\ k \in Nat
      BY <1>4, <2>5
    <3> QED BY <1>4, <2>4, <2>5, <3>1, Zenon
  <2> QED BY <2>3, <2>5 DEF RamInv, Buffered
<1> QED
  BY <1>4, <1>6, <1>8 DEF RamInv

-------------------------------------------------------------------------------
(* The invariant.                                                          *)

\* It holds when the transfer begins.
LEMMA TransportInit == Init => TransportInv
<1> SUFFICES ASSUME Init PROVE TransportInv
  OBVIOUS
<1>1. /\ transfer \in Transfers /\ stream_busy \in BOOLEAN /\ ~bridge_owner /\ lost = {}
      /\ bridge_owner \in BOOLEAN
  BY Zenon DEF Init
<1>2. /\ dir \in {"toHost", "toDevice"} /\ Header \in Nat /\ Words \in Nat
  BY <1>1, TransportAssumption DEF dir, Header, Words
<1>3. FifoInv
  BY FifoInitInv DEF Init
<1>4. <<>> \in Seq(Nat) /\ <<>> \in Seq(Stored) /\ 0 \in Nat /\ 1 \in Nat /\ 0 \in Int
  OBVIOUS
<1>5. /\ cpu \in CpuRegs /\ cpu.pc = (IF Header = 0 THEN "start" ELSE "byte") /\ ~cpu.ready
      /\ cpu.moved = 0 /\ cpu.got = <<>> /\ ~cpu.ack /\ ~cpu.send
  BY <1>4, Zenon DEF Init, CpuRegs
<1>6. /\ br \in BridgeRegs /\ br.state = "IDLE" /\ ~br.busy /\ br.addr = 0 /\ br.left = 0
      /\ ~br.send /\ br.wr = <<>>
  BY <1>4, Zenon DEF Init, BridgeRegs
<1>7. ram \in [0 .. Words - 1 -> Seq(Nat)]
  BY <1>4 DEF Init
<1>8. LineType /\ ut.fin /\ ur.fifo = <<>> /\ ur.new = <<>>
  BY <1>4, Zenon DEF Init, LineType
<1>9. box \in BoxRegs /\ box.send = FALSE /\ box.rden = FALSE
  BY <1>4, Zenon DEF Init, BoxRegs
<1>10. /\ usb \in UsbRegs /\ usb.phase = "idle" /\ usb.reg = "none" /\ ~usb.rden /\ ~usb.wren
       /\ usb.write = 0
  BY <1>4, Zenon DEF Init, UsbRegs
<1>11. host \in HostState /\ host.count = 0 /\ host.got = <<>> /\ host.next = 1
  BY <1>4, Zenon DEF Init, HostState
<1>12. TypeInv
  BY <1>1, <1>5, <1>6, <1>7, <1>8, <1>9, <1>10, <1>11, Zenon
     DEF TypeInv, CpuType, BridgeType, BoxType, UsbType
<1>13. Total \in Nat
  BY <1>12, Sizes
<1>14. /\ cpu.pc \in {"byte", "start"} /\ cpu.pc # "wait" /\ cpu.pc # "copy"
       /\ (cpu.pc = "byte" => Header # 0)
  BY <1>5
<1>15. CpuInv
  <2>1. cpu.pc = "byte" => cpu.moved < Header
    BY <1>2, <1>5, <1>14
  <2>2. cpu.pc \in {"start", "wait"} => cpu.moved = Header
    BY <1>5
  <2> QED BY <1>1, <1>5, <1>6, <1>14, <2>1, <2>2, Zenon DEF CpuInv
<1>16. BridgeInv
  <2>1. /\ br.state \notin RxState \cup TxState /\ br.state \notin RxState
        /\ br.state \notin TxState /\ br.state # "TX_PUT" /\ br.state # "DONE"
    BY <1>6 DEF RxState, TxState
  <2> QED BY <1>6, <2>1, Zenon DEF BridgeInv
<1>17. OwnerInv
  BY <1>6, Zenon DEF OwnerInv
<1>18. RamInv
  <2>1. Filled = 0
    BY <1>5, <1>6 DEF Filled, RxState
  <2>2. br.state \notin RxState
    BY <1>6 DEF RxState
  <2> QED BY <2>1, <2>2 DEF RamInv
<1>19. BoxInv
  BY <1>9, Zenon DEF BoxInv
<1>20. UsbInv
  <2>1. usb.reg # "RX_BYTE" /\ usb.reg \in {"none", "RX_BYTE"} /\ usb.phase # "valid"
    BY <1>10
  <2>2. host.count <= count_rd
    <3>1. count_rd \in Nat
      BY <1>3, Counts
    <3> QED BY <1>11, <3>1
  <2>3. usb.write <= Total /\ host.next \in 1 .. Total + 1
    BY <1>10, <1>11, <1>13
  <2> QED BY <1>10, <2>1, <2>2, <2>3, Zenon DEF UsbInv, ToHostUsb, ToDeviceUsb
<1>21. FlowInv
  <2>1. queue = <<>>
    BY DEF Init, FifoInit
  <2>2. InUt = <<>> /\ OnWire = <<>> /\ Unread = <<>>
    BY <1>1, <1>5, <1>8, Zenon DEF InUt, OnWire, SocSend, Unread
  <2>3. Sent = 0 /\ Taken = 0 /\ host.next - 1 = 0
    BY <1>5, <1>11, <1>14 DEF Sent, Taken
  <2>4. Part(<<>>, 0, 0, lost)
    BY PartEmpty
  <2>5. Carries(<<>>, <<>>, <<>>, 0, 0, lost)
    BY <2>4 DEF Carries
  <2>6. 0 \in 0 .. Total /\ 0 <= 0
    BY <1>13
  <2> QED
    BY <1>5, <1>8, <1>11, <2>1, <2>2, <2>3, <2>4, <2>5, <2>6, Zenon
       DEF FlowInv, ToHostFlow, ToDeviceFlow
<1> QED
  BY <1>3, <1>12, <1>15, <1>16, <1>17, <1>18, <1>19, <1>20, <1>21 DEF TransportInv

\* Edges of the clocks keep it.
LEMMA TransportStep == TransportInv /\ [Next]_vars => TransportInv'
<1> SUFFICES ASSUME TransportInv, [Next]_vars PROVE TransportInv'
  OBVIOUS
<1>1. /\ FifoInv /\ TypeInv /\ CpuInv /\ BridgeInv /\ OwnerInv /\ RamInv /\ BoxInv
      /\ UsbInv /\ FlowInv
  BY DEF TransportInv
<1>2. CASE UNCHANGED vars
  <2>1. /\ UNCHANGED fifoVars /\ UNCHANGED <<queue, count_rd, empty, full>>
        /\ UNCHANGED <<transfer, stream_busy, cpu, bridge_owner, br, ram, ut, ur, box, usb,
                       host, lost>>
    BY <1>2 DEF vars, fifoVars, iutVars, usbVars, count_rd, empty, full
  <2>2. FifoInv'
    BY <1>1, <2>1, FifoStep
  <2>3. TypeInv'
    BY <1>1, <2>1 DEF TypeInv, CpuType, BridgeType, LineType, BoxType, UsbType, Words
  <2>4. CpuInv' /\ OwnerInv'
    BY <1>1, <2>1 DEF CpuInv, OwnerInv, dir, Header, Words, Total
  <2>5. BridgeInv'
    BY <1>1, <2>1 DEF BridgeInv, dir, Header, Words, Base
  <2>6. RamInv'
    BY <1>1, <2>1 DEF RamInv, dir, Header, Words, Base, Filled, Word
  <2>7. BoxInv' /\ UsbInv'
    BY <1>1, <2>1 DEF BoxInv, UsbInv, ToHostUsb, ToDeviceUsb, dir, Header, Words, Total
  <2>8. FlowInv'
    BY <1>1, <2>1 DEF FlowInv, ToHostFlow, ToDeviceFlow, InUt, OnWire, SocSend, SocData, Sent,
       Taken, Unread, Base, dir, Header, Words, Total
  <2> QED BY <2>2, <2>3, <2>4, <2>5, <2>6, <2>7, <2>8 DEF TransportInv
<1>3. CASE Next
  <2>1. PICK iut \in BOOLEAN, u \in BOOLEAN, cpuActs \in BOOLEAN, hostActs \in BOOLEAN :
          Clock(iut, u, cpuActs, hostActs)
    BY <1>3, Zenon DEF Next
  <2>2. /\ IF iut THEN IutEdge(cpuActs) ELSE UNCHANGED iutVars
        /\ IF u THEN UsbEdge(hostActs) ELSE UNCHANGED usbVars
        /\ IF dir = "toHost" THEN Edge(iut, txf_wren, rx_data, u, usb.rden)
                             ELSE Edge(u, usb.wren, usb.write, iut, box.rden)
        /\ lost' = lost \cup Dropped(iut, u)
        /\ UNCHANGED <<transfer, stream_busy>>
    BY <2>1, Zenon DEF Clock
  <2>3. /\ dir \in {"toHost", "toDevice"} /\ dir' = dir /\ Words' = Words /\ Header' = Header
        /\ transfer' \in Transfers /\ stream_busy' \in BOOLEAN
        /\ lost' = {} => lost = {}
    BY <1>1, <2>2, Sizes DEF TypeInv, dir, Words, Header
  \* The FIFO, the host, and what is on its way.
  <2>4. FifoInv' /\ UsbType' /\ UsbInv' /\ FlowInv'
    <3>1. CASE dir = "toHost"
      <4>1. Edge(iut, txf_wren, rx_data, u, usb.rden)
        BY <2>2, <3>1, Zenon
      <4>2. FifoInv' /\ UsbType' /\ ToHostUsb'
        BY <2>2, <3>1, <4>1, ToHostEdge, ToHostUsbKeeps
      <4>3. ToHostFlow'
        BY <2>1, <3>1, ToHostFlowKeeps
      <4>4. dir' # "toDevice"
        BY <2>3, <3>1
      <4> QED BY <4>2, <4>3, <4>4, Zenon DEF UsbInv, FlowInv
    <3>2. CASE dir = "toDevice"
      <4>1. Edge(u, usb.wren, usb.write, iut, box.rden)
        BY <2>2, <3>2
      <4>2. FifoInv' /\ UsbType' /\ ToDeviceUsb'
        BY <2>2, <3>2, <4>1, ToDeviceEdge, ToDeviceUsbKeeps
      <4>3. ToDeviceFlow'
        BY <2>1, <3>2, ToDeviceFlowKeeps
      <4>4. dir' # "toHost"
        BY <2>3, <3>2
      <4> QED BY <4>2, <4>3, <4>4, Zenon DEF UsbInv, FlowInv
    <3> QED BY <2>3, <3>1, <3>2
  \* The SoC's clock.
  <2>5. CASE iut
    <3>1. iut = TRUE /\ IutEdge(cpuActs) /\ Line
      BY <2>2, <2>5, Zenon DEF IutEdge
    <3>2. BridgeType' /\ BridgeInv' /\ CpuType' /\ CpuInv' /\ OwnerInv' /\ bridge_owner' \in BOOLEAN
      BY <1>1, <2>2, <3>1, SocBridge, SocKeeps, SocCases
    <3>3. BoxType' /\ BoxInv'
      <4>1. IF dir = "toHost" THEN Edge(TRUE, txf_wren, rx_data, u, usb.rden)
                              ELSE Edge(u, usb.wren, usb.write, TRUE, box.rden)
        BY <2>2, <3>1
      <4> QED BY <2>2, <3>1, <4>1, BoxKeeps
    <3>4. LineType'
      BY <1>1, <3>1, LineStep, SendsReady
    <3>5. RamInv' /\ ram' \in [0 .. Words - 1 -> Seq(Nat)]
      BY <2>2, <2>3, <3>1, RamKeeps
    <3>6. TypeInv'
      BY <2>3, <2>4, <3>2, <3>3, <3>4, <3>5, Zenon DEF TypeInv
    <3> QED BY <2>4, <3>2, <3>3, <3>5, <3>6 DEF TransportInv
  <2>6. CASE ~iut
    <3>1. /\ iut = FALSE /\ UNCHANGED iutVars
          /\ UNCHANGED <<transfer, stream_busy, cpu, bridge_owner, br, ram, ut, ur, box>>
      BY <2>2, <2>6 DEF iutVars
    <3>2. CpuInv' /\ OwnerInv'
      BY <1>1, <3>1 DEF CpuInv, OwnerInv, dir, Header, Words, Total
    <3>3. BridgeInv'
      BY <1>1, <3>1 DEF BridgeInv, dir, Header, Words, Base
    <3>4. RamInv'
      BY <1>1, <2>3, <3>1 DEF RamInv, dir, Header, Words, Base, Filled, Word
    <3>5. BoxInv'
      <4>1. IF dir = "toHost" THEN Edge(FALSE, txf_wren, rx_data, u, usb.rden)
                              ELSE Edge(u, usb.wren, usb.write, FALSE, box.rden)
        BY <2>2, <3>1
      <4> QED BY <2>2, <3>1, <4>1, BoxRests
    <3>6. TypeInv'
      BY <1>1, <2>3, <2>4, <3>1 DEF TypeInv, CpuType, BridgeType, LineType, BoxType
    <3> QED BY <2>4, <3>2, <3>3, <3>4, <3>5, <3>6 DEF TransportInv
  <2> QED BY <2>5, <2>6
<1> QED
  BY <1>2, <1>3

\* TransportInv is an invariant of the transfer.
LEMMA TransportAlways == Spec => []TransportInv
  BY TransportInit, TransportStep, PTL DEF Spec

-------------------------------------------------------------------------------
(* Order and contents.                                                     *)

\* A part that begins with the first byte is in order, and complete if nothing
\* was lost.
LEMMA PartInOrder ==
  ASSUME NEW s, NEW g \in Nat, NEW l, Part(s, 0, g, l)
  PROVE  /\ \A i, j \in 1 .. Len(s) : i < j => s[i] < s[j]
         /\ \A i \in 1 .. Len(s) : s[i] # 0
         /\ l = {} => s = FirstBytes(Len(s))
<1>1. s \in Seq(Nat) /\ Len(s) \in Nat
  BY DEF Part
<1>2. ASSUME NEW i \in 1 .. Len(s) PROVE s[i] # 0
  <2>1. s[i] \in Nat /\ 0 < s[i]
    BY <1>1 DEF Part
  <2> QED BY <2>1
<1>3. ASSUME l = {} PROVE s = FirstBytes(Len(s))
  <2>1. ASSUME NEW i \in 1 .. Len(s) PROVE s[i] = i
    BY <1>3 DEF Part
  <2>2. FirstBytes(Len(s)) \in Seq(Nat) /\ Len(FirstBytes(Len(s))) = Len(s)
    BY <1>1 DEF FirstBytes
  <2>3. ASSUME NEW i \in 1 .. Len(s) PROVE FirstBytes(Len(s))[i] = i
    BY <1>1 DEF FirstBytes
  <2> DEFINE f == FirstBytes(Len(s))
             n == Len(s)
  <2>4. /\ f \in Seq(Nat) /\ s \in Seq(Nat) /\ Len(f) = n /\ Len(s) = n
        /\ \A i \in 1 .. n : f[i] = s[i]
    BY <1>1, <2>1, <2>2, <2>3
  <2> HIDE DEF f, n
  <2>5. f = s
    BY <2>4
  <2> QED BY <2>5 DEF f
<1> QED
  BY <1>2, <1>3 DEF Part

\* Through two clock domains, three FIFOs and a serial line, and whether
\* processor or bridge moves a byte: the program at the other end gets the
\* bytes in order, none twice, and none is skipped unless it was dropped at one
\* of the places where the hardware drops bytes.
THEOREM TransportInOrder == Spec => []InOrder
<1>1. TransportInv => InOrder
  <2> SUFFICES ASSUME TransportInv PROVE InOrder
    OBVIOUS
  <2>1. TypeInv /\ FlowInv
    BY Zenon DEF TransportInv
  <2>2. Total \in Nat /\ dir \in {"toHost", "toDevice"}
    BY <2>1, Sizes
  <2>3. PICK g \in 0 .. Total : Part(Received, 0, g, lost)
    <3>1. CASE dir = "toHost"
      BY <2>1, <3>1, Zenon DEF FlowInv, ToHostFlow, Received
    <3>2. CASE dir = "toDevice"
      <4>1. dir # "toHost"
        BY <3>2
      <4> QED BY <2>1, <3>2, <4>1, Zenon DEF FlowInv, ToDeviceFlow, Received
    <3> QED BY <2>2, <3>1, <3>2
  <2>4. g \in Nat
    BY <2>2
  <2> QED BY <2>3, <2>4, PartInOrder DEF InOrder
<1> QED
  BY <1>1, TransportAlways, PTL

\* bridge_run returns without error only when the last word has been written:
\* the task RAM then holds the bytes of every word in their order, although the
\* write of the last word is a pulse that the RAM sees one edge later.
THEOREM TransportStored == Spec => []StoredWhenDone
<1>1. TransportInv => StoredWhenDone
  <2> SUFFICES ASSUME TransportInv, dir = "toDevice", cpu.pc = "done", ~stream_busy, lost = {},
                      NEW k \in 0 .. Words - 1
               PROVE  ram[k] = Word(k)
    BY DEF StoredWhenDone
  <2>1. TypeInv /\ CpuInv /\ BridgeInv /\ RamInv
    BY Zenon DEF TransportInv
  <2>2. br.state = "IDLE"
    BY <2>1 DEF CpuInv
  <2>3. br.wr = <<>>
    <3>1. br.state \notin {"RX_BYTE", "DONE"}
      BY <2>2
    <3> QED BY <2>1, <3>1, Zenon DEF BridgeInv
  <2>4. Filled = Words
    BY <2>2 DEF Filled, RxState
  <2>5. k < Filled
    BY <2>1, <2>4, Sizes
  <2> QED BY <2>1, <2>3, <2>5 DEF RamInv
<1> QED
  BY <1>1, TransportAlways, PTL

-------------------------------------------------------------------------------
(* Room for the bytes on their way.                                        *)

\* Behind the only byte there is nothing.
LEMMA TailSingle ==
  ASSUME NEW s \in Seq(Nat), Len(s) = 1
  PROVE  Tail(s) = <<>>
<1>1. s # <<>>
  <2>1. Len(<<>>) = 0 /\ 0 # 1
    OBVIOUS
  <2> QED BY <2>1, Zenon
<1>2. Tail(s) \in Seq(Nat) /\ Len(Tail(s)) = 0
  BY <1>1
<1> DEFINE t == Tail(s)
<1>3. t \in Seq(Nat) /\ Len(t) = 0
  BY <1>2
<1> HIDE DEF t
<1>4. t = <<>>
  BY <1>3
<1> QED
  BY <1>4 DEF t

\* A byte arrives with nothing behind it.
LEMMA Arrives ==
  ASSUME TypeInv, Line, Send => ut.fin
  PROVE  /\ ur'.new # <<>> => Len(ur'.new) = 1 /\ ~ut.fin /\ ut.tmr = Frame /\ ut'.tmr = Frame + 1
         /\ ur'.new = <<>> \/ (~ut.fin /\ ut.tmr = Frame)
<1>1. /\ ur'.new = IF ~ut.fin /\ ut.tmr = Frame THEN <<ut.data>> ELSE <<>>
      /\ ~ut.fin => ut'.tmr = ut.tmr + 1
  BY LineStep
<1> QED
  BY <1>1

\* toHost: on an edge of the SoC's clock a byte enters the way only if the
\* mailbox has a place, and none is on its way when one enters the mailbox.
LEMMA Enters ==
  ASSUME TransportInv, ToHostRoom, dir = "toHost", NEW acts \in BOOLEAN, IutEdge(acts),
         UNCHANGED <<transfer, stream_busy>>, SocSend' \/ cpu'.ready
  PROVE  ut.fin /\ ~full
<1>1. TypeInv /\ CpuInv /\ BridgeInv /\ OwnerInv /\ CpuType /\ CpuInv
  BY Zenon DEF TransportInv, TypeInv
<1>2. tx_ready => ut.fin /\ ~full
  BY Zenon DEF tx_ready, cts
<1>3. cpu.ready => ut.fin /\ ~full
  BY <1>1, Zenon DEF CpuInv, ToHostRoom
<1>4. CASE CpuStart /\ BridgeStart /\ bridge_owner'
  <2>1. cpu.pc = "start" /\ (cpu'.ready <=> cpu.ready) /\ ~cpu'.send
    BY <1>1, <1>4, StartFields, Zenon DEF CpuStart
  <2>2. ~br'.send
    <3>1. BridgeType
      BY <1>1, Zenon DEF TypeInv
    <3>2. CASE stream_busy \/ Words = 0
      BY <1>4, <3>1, <3>2, StartRefused
    <3>3. CASE ~(stream_busy \/ Words = 0)
      BY <1>1, <1>4, <3>1, <3>3, Starts
    <3> QED BY <3>2, <3>3
  <2>3. cpu.ready
    BY <2>1, <2>2, Zenon DEF SocSend
  <2> QED BY <1>3, <2>3
<1>5. CASE (CpuReady \/ CpuByte) /\ BridgeWaits /\ ~bridge_owner'
  BY <1>2, <1>3, <1>5, Zenon DEF CpuReady, CpuByte
<1>6. CASE CpuEnd /\ BridgeClear /\ ~bridge_owner'
  <2>1. (cpu'.ready <=> cpu.ready) /\ ~cpu'.send
    BY <1>1, <1>6, EndFields, Zenon
  <2> QED BY <1>3, <1>6, <2>1, Zenon DEF SocSend
<1>7. CASE CpuWaits /\ BridgeRuns /\ (bridge_owner' <=> bridge_owner /\ br.busy)
  <2>1. (cpu'.ready <=> cpu.ready) /\ ~cpu'.send
    BY <1>1, <1>7, WaitFields, Zenon
  <2>2. br'.send => tx_ready
    BY <1>1, <1>7, Runs
  <2> QED BY <1>2, <1>3, <2>1, <2>2, Zenon DEF SocSend
<1> QED
  BY <1>1, <1>4, <1>5, <1>6, <1>7, SocCases

\* toHost: a place stays reserved for the byte on its way, and the next one is
\* not sent before it is in the mailbox.
LEMMA ToHostRoomKeeps ==
  ASSUME Gap >= 3, TransportInv, ToHostRoom, dir = "toHost",
         NEW iut \in BOOLEAN, NEW u \in BOOLEAN, NEW cpuActs \in BOOLEAN,
         NEW hostActs \in BOOLEAN, Clock(iut, u, cpuActs, hostActs)
  PROVE  ToHostRoom'
<1>1. /\ TypeInv /\ CpuInv /\ BridgeInv /\ OwnerInv /\ BoxInv /\ BoxType
      /\ Send => ut.fin
  BY SendsReady, Zenon DEF TransportInv, TypeInv
<1>2. /\ UNCHANGED <<transfer, stream_busy>> /\ Edge(iut, txf_wren, rx_data, u, usb.rden)
      /\ IF iut THEN IutEdge(cpuActs) ELSE UNCHANGED iutVars
  BY Zenon DEF Clock
<1>3. ~(iut /\ txf_wren) /\ ~full => ~full'
  BY <1>2, ToHostEdge
<1>4. CASE ~iut
  <2>1. UNCHANGED <<transfer, stream_busy, cpu, bridge_owner, br, ut, ur, box>>
    BY <1>2, <1>4 DEF iutVars
  <2>2. ~full => ~full'
    BY <1>3, <1>4
  <2> QED BY <2>1, <2>2 DEF ToHostRoom, SocSend, InUt
<1>5. CASE iut
  <2>1. IutEdge(cpuActs) /\ Line /\ Mailbox
    BY <1>2, <1>5, Zenon DEF IutEdge
  <2>2. /\ ut.tmr \in Nat /\ Frame \in Nat /\ Gap \in Nat
        /\ ur.fifo \in Seq(Nat) /\ ur.new \in Seq(Nat)
    BY <1>1, TransportAssumption, Zenon DEF TypeInv, LineType
  <2>3. /\ ut.fin /\ ~Send => ut'.fin /\ ut'.tmr = 0
        /\ Send => ~ut'.fin /\ ut'.tmr = 0
        /\ ~ut.fin => (ut'.fin <=> ut.tmr = Frame + Gap) /\ ut'.tmr = ut.tmr + 1
        /\ ur'.fifo = Kept \o Added
    BY <1>1, <2>1, LineStep
  <2>4. /\ ut.fin \/ ut.tmr <= Frame + Gap
        /\ SocSend \/ cpu.ready \/ InUt # <<>> \/ ur.new # <<>> \/ ur.fifo # <<>> => ~full
        /\ ur.new # <<>> => Len(ur.new) = 1 /\ ~ut.fin /\ ut.tmr = Frame + 1 /\ ur.fifo = <<>>
        /\ ur.fifo # <<>> =>
             /\ Len(ur.fifo) = 1 /\ ~ut.fin
             /\ ut.tmr = Frame + 2 \/ (ut.tmr = Frame + 3 /\ box.ack)
    BY Zenon DEF ToHostRoom
  <2>5. Ack <=> box.ack
    BY DEF Ack
  <2>6. (box'.ack <=> rx_rdy /\ ~full)
    <3>1. box' = [box EXCEPT !.ack = rx_rdy /\ ~full]
      BY <2>1, Zenon DEF Mailbox
    <3>2. (rx_rdy /\ ~full) \in BOOLEAN
      OBVIOUS
    <3> QED BY <1>1, <3>1, <3>2, Zenon DEF BoxType, BoxRegs
  <2>7. ut'.fin \/ ut'.tmr <= Frame + Gap
    BY <2>2, <2>3, <2>4
  \* What leaves the line.
  <2>8. Kept # <<>> => Kept = ur.fifo /\ ur.fifo # <<>> /\ ~box.ack
    <3>1. CASE rx_rdy /\ box.ack
      <4>1. Len(ur.fifo) = 1 /\ Kept = Tail(ur.fifo)
        BY <2>4, <2>5, <3>1 DEF rx_rdy, Kept
      <4>2. Kept = <<>>
        BY <2>2, <4>1, TailSingle
      <4> QED BY <4>2
    <3>2. CASE ~(rx_rdy /\ box.ack)
      BY <2>5, <3>2 DEF rx_rdy, Kept
    <3> QED BY <3>1, <3>2
  <2>9. Added = <<>> \/ (Added = ur.new /\ ur.new # <<>>)
    BY DEF Added
  <2>10. Kept \in Seq(Nat) /\ Added \in Seq(Nat)
    BY <2>2 DEF Kept, Added, rx_rdy
  <2>11. ur'.fifo # <<>> => /\ Len(ur'.fifo) = 1 /\ ~ut'.fin
                            /\ ut'.tmr = Frame + 2 \/ (ut'.tmr = Frame + 3 /\ box'.ack)
    <3>1. CASE ur'.fifo # <<>>
      <4>1. Kept # <<>> \/ (Kept = <<>> /\ Added # <<>>)
        BY <2>3, <2>10, <3>1
      <4>2. CASE Kept # <<>>
        <5>1. ur.fifo # <<>> /\ ~box.ack /\ Kept = ur.fifo
          BY <2>8, <4>2
        <5>2. Len(ur.fifo) = 1 /\ ~ut.fin /\ ut.tmr = Frame + 2
          BY <2>4, <5>1
        <5>3. ur.new = <<>> /\ ~full
          BY <2>4, <5>1
        <5>4. ur'.fifo = ur.fifo
          BY <2>2, <2>3, <2>9, <5>1, <5>3
        <5>5. ~ut'.fin /\ ut'.tmr = Frame + 3 /\ box'.ack
          BY <2>2, <2>3, <2>6, <5>1, <5>2, <5>3 DEF rx_rdy
        <5> QED BY <5>2, <5>4, <5>5
      <4>3. CASE Kept = <<>> /\ Added # <<>>
        <5>1. Added = ur.new /\ ur.new # <<>>
          BY <2>9, <4>3
        <5>2. Len(ur.new) = 1 /\ ~ut.fin /\ ut.tmr = Frame + 1
          BY <2>4, <5>1
        <5>3. ur'.fifo = ur.new
          BY <2>2, <2>3, <4>3, <5>1
        <5>4. ~ut'.fin /\ ut'.tmr = Frame + 2
          BY <2>2, <2>3, <5>2
        <5> QED BY <5>2, <5>3, <5>4
      <4> QED BY <4>1, <4>2, <4>3
    <3> QED BY <3>1
  <2>12. ur'.new # <<>> => /\ Len(ur'.new) = 1 /\ ~ut'.fin /\ ut'.tmr = Frame + 1
                           /\ ur'.fifo = <<>>
    <3>1. ASSUME ur'.new # <<>>
          PROVE  Len(ur'.new) = 1 /\ ~ut'.fin /\ ut'.tmr = Frame + 1 /\ ur'.fifo = <<>>
      <4>1. Len(ur'.new) = 1 /\ ~ut.fin /\ ut.tmr = Frame /\ ut'.tmr = Frame + 1
        BY <1>1, <2>1, <3>1, Arrives
      <4>2. ~ut'.fin /\ ur.new = <<>> /\ ur.fifo = <<>>
        BY <2>2, <2>3, <2>4, <4>1
      <4>3. Kept = <<>> /\ Added = <<>>
        BY <2>8, <2>9, <4>2
      <4> QED BY <2>3, <4>1, <4>2, <4>3
    <3> QED BY <3>1
  <2> DEFINE way == SocSend \/ cpu.ready \/ InUt # <<>> \/ ur.new # <<>> \/ ur.fifo # <<>>
  <2>13. way' => ~full' /\ ~full
    <3>1. CASE SocSend' \/ cpu'.ready
      <4>1. ut.fin /\ ~full
        BY <1>2, <2>1, <3>1, Enters
      <4>2. ur.fifo = <<>>
        BY <2>4, <4>1
      <4> QED BY <1>3, <4>1, <4>2 DEF txf_wren, rx_rdy
    <3>2. CASE InUt' # <<>> \/ ur'.new # <<>> \/ ur'.fifo # <<>>
      <4>1. Send <=> SocSend
        BY DEF Send
      <4>2. ~txf_wren /\ way
        <5>1. CASE ur'.fifo # <<>>
          <6>1. Kept # <<>> \/ (Kept = <<>> /\ Added # <<>>)
            BY <2>3, <2>10, <5>1
          <6>2. CASE Kept # <<>>
            BY <2>8, <6>2 DEF txf_wren
          <6>3. CASE Kept = <<>> /\ Added # <<>>
            <7>1. ur.new # <<>>
              BY <2>9, <6>3
            <7>2. ur.fifo = <<>>
              BY <2>4, <7>1
            <7> QED BY <7>1, <7>2 DEF txf_wren, rx_rdy
          <6> QED BY <6>1, <6>2, <6>3
        <5>2. CASE InUt' # <<>> \/ ur'.new # <<>>
          <6>1. InUt # <<>> \/ Send
            BY <1>1, <2>1, <5>2, LineOut
          <6>2. CASE InUt # <<>>
            <7>1. ~ut.fin /\ ut.tmr <= Frame
              BY <6>2 DEF InUt
            <7>2. ur.fifo = <<>>
              BY <2>2, <2>4, <7>1
            <7> QED BY <6>2, <7>2 DEF txf_wren, rx_rdy
          <6>3. CASE Send
            <7>1. ur.fifo = <<>>
              BY <1>1, <2>4, <6>3
            <7> QED BY <4>1, <6>3, <7>1 DEF txf_wren, rx_rdy
          <6> QED BY <6>1, <6>2, <6>3
        <5> QED BY <3>2, <5>1, <5>2
      <4>3. ~full
        BY <2>4, <4>2
      <4> QED BY <1>3, <4>2, <4>3
    <3> QED BY <3>1, <3>2
  <2> QED BY <2>7, <2>11, <2>12, <2>13, Zenon DEF ToHostRoom
<1> QED
  BY <1>4, <1>5

\* toDevice: when a bridge is at work after its first byte, that byte left now,
\* or the bridge was at work before and took nothing: it waits for a byte or
\* writes its word.
LEMMA Bridging ==
  ASSUME TransportInv, dir = "toDevice", NEW acts \in BOOLEAN, IutEdge(acts),
         UNCHANGED <<transfer, stream_busy>>, br'.busy, br'.left < Bytes(Words)
  PROVE  \/ rx_rdy /\ Ack
         \/ /\ br.busy /\ br.left < Bytes(Words) /\ ~(Ack /\ rx_rdy) /\ br'.state = "RX_BYTE"
            /\ (br.state = "RX_BYTE" /\ ~rx_rdy) \/ br.state = "RX_WR"
<1>1. /\ TypeInv /\ CpuInv /\ BridgeInv /\ OwnerInv /\ CpuType /\ BridgeType /\ LineType
  BY Zenon DEF TransportInv, TypeInv
<1>2. /\ br.busy <=> br.state \in RxState \cup TxState
      /\ br.state \in TxState => dir = "toHost"
      /\ br.busy => bridge_owner
  BY <1>1, Zenon DEF BridgeInv, OwnerInv
<1>3. dir # "toHost" /\ Bytes(Words) \in Nat
  BY <1>1, Sizes
<1>4. Ack <=> IF bridge_owner THEN rx_ack ELSE cpu.ack
  BY <1>3, Zenon DEF Ack, SocAck
<1>5. CASE CpuStart /\ BridgeStart /\ bridge_owner'
  <2>1. br.state = "IDLE"
    BY <1>5 DEF BridgeStart
  <2>2. ~br.busy
    BY <1>2, <2>1 DEF RxState, TxState
  <2>3. CASE stream_busy \/ Words = 0
    BY <1>1, <1>5, <2>2, <2>3, StartRefused, Zenon
  <2>4. CASE ~(stream_busy \/ Words = 0)
    <3>1. br'.left = Bytes(Words)
      BY <1>1, <1>5, <2>4, Starts, Zenon
    <3> QED BY <1>3, <3>1
  <2> QED BY <2>3, <2>4
<1>6. CASE BridgeWaits
  <2>1. br.busy /\ br.state \in {"IDLE", "DONE"}
    BY <1>1, <1>6, Stays, Zenon DEF BridgeWaits
  <2> QED BY <1>2, <2>1 DEF RxState, TxState
<1>7. CASE CpuEnd /\ BridgeClear
  <2>1. br.busy /\ br.state = "DONE"
    BY <1>1, <1>7, Clears, Zenon DEF BridgeClear
  <2> QED BY <1>2, <2>1 DEF RxState, TxState
<1>8. CASE TxRd \/ TxLoad \/ TxPut
  <2>1. br.state \in TxState
    BY <1>8 DEF TxRd, TxLoad, TxPut, TxState
  <2> QED BY <1>2, <1>3, <2>1
<1>9. CASE RxByte
  <2>1. br.state = "RX_BYTE"
    BY <1>9 DEF RxByte
  <2>2. br.busy /\ bridge_owner
    BY <1>2, <2>1 DEF RxState
  <2>3. CASE rx_rdy
    BY <1>4, <2>1, <2>2, <2>3 DEF rx_ack
  <2>4. CASE ~rx_rdy
    <3>1. br'.state = br.state /\ br'.left = br.left
      BY <1>1, <1>9, <2>4, Stays, Zenon DEF RxByte
    <3> QED BY <2>1, <2>2, <2>4, <3>1
  <2> QED BY <2>3, <2>4
<1>10. CASE RxWr
  <2>1. /\ br.state = "RX_WR" /\ br'.left = br.left /\ (br'.busy <=> br.left # 0)
        /\ br'.state = (IF br.left = 0 THEN "DONE" ELSE "RX_BYTE")
    BY <1>1, <1>10, Writes, Zenon DEF RxWr
  <2>2. br.busy /\ bridge_owner /\ ~rx_ack
    BY <1>2, <2>1 DEF RxState, rx_ack
  <2>3. br'.state = "RX_BYTE" /\ ~Ack
    BY <1>4, <2>1, <2>2
  <2> QED BY <2>1, <2>2, <2>3
<1> QED
  BY <1>1, <1>5, <1>6, <1>7, <1>8, <1>9, <1>10, SocCases, Zenon DEF BridgeRuns

\* toDevice: from its first byte on the bridge takes bytes faster than the line
\* brings them.
LEMMA ToDeviceRoomKeeps ==
  ASSUME TransportInv, ToDeviceRoom, dir = "toDevice",
         NEW iut \in BOOLEAN, NEW u \in BOOLEAN, NEW cpuActs \in BOOLEAN,
         NEW hostActs \in BOOLEAN, Clock(iut, u, cpuActs, hostActs)
  PROVE  ToDeviceRoom'
<1>1. /\ TypeInv /\ CpuInv /\ BridgeInv /\ OwnerInv /\ BoxInv /\ BoxType
      /\ Send => ut.fin
  BY SendsReady, Zenon DEF TransportInv, TypeInv
<1>2. /\ UNCHANGED <<transfer, stream_busy>>
      /\ IF iut THEN IutEdge(cpuActs) ELSE UNCHANGED iutVars
  BY Zenon DEF Clock
<1>3. CASE ~iut
  <2>1. UNCHANGED <<transfer, br, ut, ur, box>>
    BY <1>2, <1>3 DEF iutVars
  <2> QED BY <2>1 DEF ToDeviceRoom, Words
<1>4. CASE iut
  <2>1. IutEdge(cpuActs) /\ Line /\ Mailbox /\ Words' = Words
    BY <1>2, <1>4, Zenon DEF IutEdge, Words
  <2>2. /\ ut.tmr \in Nat /\ Frame \in Nat /\ Gap \in Nat /\ RX_DEPTH \in Nat /\ RX_DEPTH # 0
        /\ ur.fifo \in Seq(Nat) /\ ur.new \in Seq(Nat)
    <3>1. RX_DEPTH \in Nat /\ RX_DEPTH # 0 /\ Frame \in Nat /\ Gap \in Nat
      BY TransportAssumption
    <3> QED BY <1>1, <3>1, Zenon DEF TypeInv, LineType
  <2>3. /\ ut.fin /\ ~Send => ut'.fin
        /\ ~ut.fin => ut'.tmr = ut.tmr + 1
        /\ ur'.fifo = Kept \o Added
    BY <1>1, <2>1, LineStep
  <2>4. /\ Len(ur.fifo) <= RX_DEPTH
        /\ ur.new # <<>> =>
             Len(ur.new) = 1 /\ ((ut.fin /\ ~box.send) \/ (~ut.fin /\ ut.tmr = Frame + 1))
        /\ br.busy /\ br.left < Bytes(Words) =>
             \/ Len(ur.fifo) < RX_DEPTH
             \/ /\ Len(ur.fifo) = RX_DEPTH /\ ur.new = <<>> /\ br.state = "RX_BYTE"
                /\ ut.fin \/ ut.tmr > Frame
    BY Zenon DEF ToDeviceRoom
  <2>5. Send <=> box.send
    <3>1. dir # "toHost"
      OBVIOUS
    <3> QED BY <3>1, Zenon DEF Send
  \* A byte is followed by none on the next edges.
  <2>6. ur.new # <<>> => ur'.new = <<>> /\ (ut'.fin \/ ut'.tmr > Frame)
    <3>1. ASSUME ur.new # <<>> PROVE ur'.new = <<>> /\ (ut'.fin \/ ut'.tmr > Frame)
      <4>1. (ut.fin /\ ~box.send) \/ (~ut.fin /\ ut.tmr = Frame + 1)
        BY <2>4, <3>1
      <4>2. ur'.new = <<>>
        <5>1. ur'.new = <<>> \/ (~ut.fin /\ ut.tmr = Frame)
          BY <1>1, <2>1, Arrives
        <5> QED BY <2>2, <4>1, <5>1
      <4> QED BY <2>2, <2>3, <2>5, <4>1, <4>2
    <3> QED BY <3>1
  <2>7. ur'.new # <<>> =>
          Len(ur'.new) = 1 /\ ((ut'.fin /\ ~box'.send) \/ (~ut'.fin /\ ut'.tmr = Frame + 1))
    <3>1. ASSUME ur'.new # <<>>
          PROVE  Len(ur'.new) = 1 /\ ~ut.fin /\ ut'.tmr = Frame + 1 /\ ~box'.send
      <4>1. Len(ur'.new) = 1 /\ ~ut.fin /\ ut'.tmr = Frame + 1
        BY <1>1, <2>1, <3>1, Arrives
      <4>2. ~stx_rises
        BY <4>1 DEF stx_rises, stx_cond
      <4>3. box' = [box EXCEPT !.cond_d = stx_cond, !.send = stx_rises, !.rden = stx_rises,
                               !.byte = IF stx_rises THEN rdata ELSE box.byte]
        <5>1. dir # "toHost"
          OBVIOUS
        <5> QED BY <2>1, <5>1, Zenon DEF Mailbox
      <4>4. ~box'.send
        BY <1>1, <4>2, <4>3, Zenon DEF BoxType, BoxRegs
      <4> QED BY <4>1, <4>4
    <3> QED BY <3>1, Zenon
  \* The receiver's FIFO.
  <2> DEFINE n == Len(ur.fifo)
             k == Len(Kept)
             a == Len(Added)
             m == Len(ur'.fifo)
  <2>8. /\ n \in Nat /\ a \in Nat /\ k \in Nat /\ m = k + a
        /\ k = IF Ack /\ rx_rdy THEN n - 1 ELSE n
        /\ rx_rdy <=> n # 0
        /\ a # 0 => a = 1 /\ n < RX_DEPTH /\ ur.new # <<>>
    <3>1. Kept \in Seq(Nat) /\ Added \in Seq(Nat)
      BY <2>2 DEF Kept, Added, rx_rdy
    <3>2. n \in Nat /\ a \in Nat /\ k \in Nat
      BY <2>2, <3>1
    <3>3. m = k + a
      BY <2>3, <3>1
    <3>4. rx_rdy <=> n # 0
      BY <2>2 DEF rx_rdy
    <3>5. k = IF Ack /\ rx_rdy THEN n - 1 ELSE n
      <4>1. CASE Ack /\ rx_rdy
        <5>1. Kept = Tail(ur.fifo) /\ ur.fifo # <<>>
          BY <4>1 DEF Kept, rx_rdy
        <5>2. Len(Tail(ur.fifo)) = Len(ur.fifo) - 1
          BY <2>2, <5>1
        <5> QED BY <4>1, <5>1, <5>2
      <4>2. CASE ~(Ack /\ rx_rdy)
        <5>1. Kept = ur.fifo
          BY <4>2, Zenon DEF Kept
        <5> QED BY <4>2, <5>1
      <4> QED BY <4>1, <4>2
    <3>6. ASSUME a # 0 PROVE a = 1 /\ n < RX_DEPTH /\ ur.new # <<>>
      <4>1. Added # <<>>
        BY <3>6
      <4>2. ur.new # <<>> /\ Added = ur.new /\ ~Overrun
        BY <4>1 DEF Added
      <4>3. n # RX_DEPTH /\ a = 1
        BY <2>4, <4>2 DEF Overrun
      <4>4. n <= RX_DEPTH
        BY <2>4
      <4> HIDE DEF n, a
      <4> QED BY <2>2, <3>2, <4>2, <4>3, <4>4
    <3> QED BY <3>2, <3>3, <3>4, <3>5, <3>6
  <2>9. n <= RX_DEPTH
    BY <2>4
  <2>10. br.busy /\ br.left < Bytes(Words) =>
           n < RX_DEPTH \/ (n = RX_DEPTH /\ ur.new = <<>> /\ br.state = "RX_BYTE")
    BY <2>4
  <2> HIDE DEF n, k, a, m
  <2>11. m <= RX_DEPTH
    BY <2>2, <2>8, <2>9
  <2>12. ASSUME br'.busy, br'.left < Bytes(Words)
         PROVE  \/ m < RX_DEPTH
                \/ /\ m = RX_DEPTH /\ ur'.new = <<>> /\ br'.state = "RX_BYTE"
                   /\ ut'.fin \/ ut'.tmr > Frame
    <3>1. CASE rx_rdy /\ Ack
      BY <2>2, <2>8, <2>9, <3>1
    <3>2. CASE /\ br.busy /\ br.left < Bytes(Words) /\ ~(Ack /\ rx_rdy) /\ br'.state = "RX_BYTE"
               /\ (br.state = "RX_BYTE" /\ ~rx_rdy) \/ br.state = "RX_WR"
      <4>1. n < RX_DEPTH
        <5>1. CASE br.state = "RX_BYTE" /\ ~rx_rdy
          BY <2>2, <2>8, <5>1
        <5>2. CASE br.state = "RX_WR"
          BY <2>10, <3>2, <5>2
        <5> QED BY <3>2, <5>1, <5>2
      <4>2. CASE ur.new = <<>>
        BY <2>2, <2>8, <3>2, <4>1, <4>2
      <4>3. CASE ur.new # <<>>
        <5>1. ur'.new = <<>> /\ (ut'.fin \/ ut'.tmr > Frame)
          BY <2>6, <4>3
        <5>2. m < RX_DEPTH \/ m = RX_DEPTH
          BY <2>2, <2>8, <2>11
        <5> QED BY <3>2, <5>1, <5>2, Zenon
      <4> QED BY <4>2, <4>3
    <3> QED BY <1>2, <2>1, <2>12, <3>1, <3>2, Bridging
  <2>13. /\ Len(ur'.fifo) <= RX_DEPTH
         /\ br'.busy /\ br'.left < Bytes(Words') =>
              \/ Len(ur'.fifo) < RX_DEPTH
              \/ /\ Len(ur'.fifo) = RX_DEPTH /\ ur'.new = <<>> /\ br'.state = "RX_BYTE"
                 /\ ut'.fin \/ ut'.tmr > Frame
    BY <2>1, <2>11, <2>12 DEF m
  <2> QED BY <2>7, <2>13, Zenon DEF ToDeviceRoom
<1> QED
  BY <1>3, <1>4

\* Nothing is lost where there is room.
LEMMA RoomStep ==
  ASSUME Gap >= 3, TransportInv, RoomInv, NoLoss, [Next]_vars
  PROVE  RoomInv' /\ NoLoss'
<1>1. CASE UNCHANGED vars
  <2>1. UNCHANGED <<transfer, cpu, bridge_owner, br, ut, ur, box, lost, full>>
    BY <1>1 DEF vars, fifoVars, iutVars, full
  <2> QED BY <2>1 DEF RoomInv, ToHostRoom, ToDeviceRoom, NoLoss, SocSend, InUt, dir, Words
<1>2. CASE Next
  <2>1. PICK iut \in BOOLEAN, u \in BOOLEAN, cpuActs \in BOOLEAN, hostActs \in BOOLEAN :
          Clock(iut, u, cpuActs, hostActs)
    BY <1>2, Zenon DEF Next
  <2>2. TypeInv /\ UsbInv
    BY Zenon DEF TransportInv
  <2>3. dir \in {"toHost", "toDevice"} /\ dir' = dir /\ lost' = lost \cup Dropped(iut, u)
    BY <2>1, <2>2, Sizes DEF Clock, dir
  <2>4. CASE dir = "toHost"
    <3>1. ToHostRoom /\ ToHostUsb /\ dir' # "toDevice"
      BY <2>2, <2>3, <2>4 DEF RoomInv, UsbInv
    <3>2. ToHostRoom'
      BY <2>1, <2>4, <3>1, ToHostRoomKeeps
    <3>3. ~(txf_wren /\ full)
      BY <3>1, Zenon DEF ToHostRoom, txf_wren, rx_rdy
    <3>4. usb.reg # "RX_BYTE"
      BY <3>1, Zenon DEF ToHostUsb
    <3>5. ~Overrun
      <4>1. ur.new # <<>> => ur.fifo = <<>>
        BY <3>1, Zenon DEF ToHostRoom
      <4>2. RX_DEPTH # 0
        BY TransportAssumption
      <4> QED BY <4>1, <4>2 DEF Overrun
    <3>6. Dropped(iut, u) = {}
      BY <3>3, <3>4, <3>5 DEF Dropped
    <3>7. lost' = {}
      BY <2>3, <2>4, <3>6 DEF NoLoss
    <3> QED BY <2>3, <2>4, <3>1, <3>2, <3>7 DEF RoomInv, NoLoss
  <2>5. CASE dir = "toDevice"
    <3>1. ToDeviceRoom /\ dir # "toHost" /\ dir' # "toHost"
      BY <2>3, <2>5 DEF RoomInv
    <3>2. ToDeviceRoom'
      BY <2>1, <2>5, <3>1, ToDeviceRoomKeeps
    <3>3. ~(Overrun /\ br.busy /\ br.left < Bytes(Words))
      <4> SUFFICES ASSUME ur.new # <<>>, Len(ur.fifo) = RX_DEPTH, br.busy, br.left < Bytes(Words)
                   PROVE  FALSE
        BY DEF Overrun
      <4>1. Len(ur.fifo) < RX_DEPTH
        BY <3>1, Zenon DEF ToDeviceRoom
      <4>2. RX_DEPTH \in Nat
        BY TransportAssumption
      <4> QED BY <4>1, <4>2
    <3>4. Dropped(iut, u) \subseteq {"mailbox", "receiver"}
      BY <3>1, <3>3 DEF Dropped, Bytes
    <3> QED BY <2>3, <3>1, <3>2, <3>4 DEF RoomInv, NoLoss
  <2> QED BY <2>3, <2>4, <2>5
<1> QED
  BY <1>1, <1>2

\* In the beginning nothing is on its way.
LEMMA RoomInit == Init => RoomInv /\ NoLoss
<1> SUFFICES ASSUME Init PROVE RoomInv /\ NoLoss
  OBVIOUS
<1>1. /\ ~bridge_owner /\ ~cpu.ready /\ ~cpu.send /\ ut.fin /\ ur.fifo = <<>> /\ ur.new = <<>>
      /\ ~br.busy /\ lost = {}
  BY Zenon DEF Init
<1>2. ~SocSend /\ InUt = <<>>
  BY <1>1, Zenon DEF SocSend, InUt
<1>3. Len(ur.fifo) <= RX_DEPTH
  BY <1>1, TransportAssumption
<1>4. ToHostRoom /\ ToDeviceRoom
  BY <1>1, <1>2, <1>3, Zenon DEF ToHostRoom, ToDeviceRoom
<1> QED
  BY <1>1, <1>4 DEF RoomInv, NoLoss

\* RTS and CTS lose no byte on the way to the host, and on the way to the
\* device the bridge lets the receiver's FIFO overflow only before it has taken
\* its first byte, if the receiver has the byte at least three edges before the
\* transmitter is ready for the next one.  The line gives it half a stop bit.
THEOREM TransportNoLoss ==
  ASSUME Gap >= 3
  PROVE  Spec => []NoLoss
<1>1. TransportInv /\ RoomInv /\ NoLoss /\ [Next]_vars => RoomInv' /\ NoLoss'
  BY RoomStep
<1> QED
  BY <1>1, RoomInit, TransportAlways, PTL DEF Spec

-------------------------------------------------------------------------------
(* The FIFO in its place.                                                  *)

\* What is proved of the FIFO for itself holds in the mailbox: whatever host,
\* line and mailbox do, each edge is one that AsyncFifo allows.
THEOREM TransportUsesFifo == Spec => FifoSpec
<1>1. Init => FifoInit
  BY DEF Init
<1>2. TransportInv /\ [Next]_vars => [FifoNext]_fifoVars
  <2> SUFFICES ASSUME TransportInv, [Next]_vars PROVE [FifoNext]_fifoVars
    OBVIOUS
  <2>1. CASE UNCHANGED vars
    BY <2>1 DEF vars
  <2>2. CASE Next
    <3>1. PICK iut \in BOOLEAN, u \in BOOLEAN, cpuActs \in BOOLEAN, hostActs \in BOOLEAN :
            Clock(iut, u, cpuActs, hostActs)
      BY <2>2, Zenon DEF Next
    <3>2. TypeInv
      BY DEF TransportInv
    <3>3. dir \in {"toHost", "toDevice"}
      BY <3>2, Sizes
    <3>4. usb.rden \in BOOLEAN /\ usb.wren \in BOOLEAN /\ box.rden \in BOOLEAN
      BY <3>2, Zenon DEF TypeInv, UsbType, UsbRegs, BoxType, BoxRegs
    <3>5. CASE dir = "toHost"
      <4>1. Edge(iut, txf_wren, rx_data, u, usb.rden)
        BY <3>1, <3>5, Zenon DEF Clock
      <4>2. txf_wren \in BOOLEAN /\ rx_data \in Data
        BY <3>5, PutIsData DEF txf_wren
      <4> QED BY <3>4, <4>1, <4>2, Zenon DEF FifoNext
    <3>6. CASE dir = "toDevice"
      <4>1. dir # "toHost"
        BY <3>6
      <4>2. Edge(u, usb.wren, usb.write, iut, box.rden)
        BY <3>1, <4>1, Zenon DEF Clock
      <4>3. usb.write \in Data
        BY <3>6, PutIsData
      <4> QED BY <3>4, <4>2, <4>3, Zenon DEF FifoNext
    <3> QED BY <3>3, <3>5, <3>6
  <2> QED BY <2>1, <2>2
<1> QED
  BY <1>1, <1>2, TransportAlways, PTL DEF Spec, FifoSpec
===============================================================================
