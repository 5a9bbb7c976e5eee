------------------------------ MODULE Transport ------------------------------
(***************************************************************************)
(* A transfer between the task RAM and the host of the CW305 board, clock  *)
(* edge by clock edge: firmware (uart_putc, uart_getc, bridge_run), UART   *)
(* bridge (lms_uart_bridge.v), the two UART units of a serial line         *)
(* (uart_tx.v, uart_rx.v), the mailbox (lms_cw305_usb_uart.v) with its     *)
(* FIFO, and the host (scripts/cw305_serial.py).                           *)
(*                                                                         *)
(* The processor moves some bytes itself and then words through the        *)
(* bridge.  A behaviour is one transfer in one direction, and the FIFO of  *)
(* AsyncFifo is that direction's: the protocol is half duplex.  The line   *)
(* is abstracted to what its ends tell: a byte reaches the receiver Frame  *)
(* edges after the transmitter took it, and the transmitter is ready again *)
(* Gap edges later (the receiver samples the middle of the stop bit).      *)
(***************************************************************************)
EXTENDS AsyncFifo

CONSTANTS
  Transfers, \* direction, bytes the processor and words the bridge moves
  WordBytes, \* bytes of a word (4 in the hardware)
  RX_DEPTH,  \* entries of uart_rx
  Frame, Gap

ASSUME TransportAssumption ==
  /\ Transfers \subseteq [dir : {"toHost", "toDevice"}, header : Nat, words : Nat]
  /\ WordBytes \in Nat \ {0} /\ RX_DEPTH \in Nat \ {0}
  /\ Frame \in Nat /\ Gap \in Nat
  /\ \A t \in Transfers : 0 .. t.header + WordBytes * t.words \subseteq Data

VARIABLES
  transfer,
  stream_busy,  \* the accelerator is still busy
  cpu,          \* firmware, with the SoC's UART registers
  bridge_owner, \* the bridge has the UART
  br,           \* lms_uart_bridge
  ram,          \* words received
  ut, ur,       \* the line's uart_tx and uart_rx
  box,          \* the mailbox's registers of the SoC clock
  usb,          \* the mailbox's registers of the USB clock
  host,
  lost          \* history: where bytes were dropped

iutVars == <<cpu, bridge_owner, br, ram, ut, ur, box>>
usbVars == <<usb, host>>
vars == <<fifoVars, transfer, stream_busy, iutVars, usbVars, lost>>

dir == transfer.dir
Header == transfer.header
Words == transfer.words

\* The bytes of a transfer are 1, 2, ...; 0 is none of them.
Total == Header + WordBytes * Words
Word(k) == [i \in 1..WordBytes |-> Header + WordBytes * k + i]
FirstBytes(n) == [i \in 1..n |-> i]

Init ==
  /\ mem = [i \in 0 .. DEPTH - 1 |-> 0]
  /\ FifoInit
  /\ transfer \in Transfers /\ stream_busy \in BOOLEAN
  /\ cpu = [pc |-> IF Header = 0 THEN "start" ELSE "byte", ready |-> FALSE, pause |-> FALSE, moved |-> 0,
            got |-> <<>>, ack |-> FALSE, send |-> FALSE, data |-> 0]
  /\ bridge_owner = FALSE
  /\ br = [state |-> "IDLE", busy |-> FALSE, error |-> FALSE, addr |-> 0, left |-> 0,
           buf |-> <<>>, sent |-> FALSE, hold |-> FALSE, valid |-> FALSE,
           send |-> FALSE, data |-> 0, wr |-> <<>>]
  /\ ram = [k \in 0 .. Words - 1 |-> <<>>]
  /\ ut = [fin |-> TRUE, data |-> 0, pending |-> <<>>, tmr |-> 0]
  /\ ur = [fifo |-> <<>>, new |-> <<>>]
  /\ box = [ack |-> FALSE, cond_d |-> FALSE, send |-> FALSE, byte |-> 0, rden |-> FALSE]
  /\ usb = [phase |-> "idle", reg |-> "none", rden |-> FALSE, pop |-> 0, read |-> 0,
            wren |-> FALSE, write |-> 0]
  /\ host = [count |-> 0, got |-> <<>>, next |-> 1]
  /\ lost = {}

-------------------------------------------------------------------------------
(* The serial line.  toHost: SoC to mailbox; toDevice: mailbox to SoC.     *)

\* Mutant: the SoC's cts is tied high.
ctsHigh == TRUE

\* RTS of the mailbox's FIFO; the mailbox's own transmitter has none.
cts == dir = "toHost" => ~full
tx_ready == ut.fin /\ cts
rx_rdy == ur.fifo # <<>>
rx_data == IF rx_rdy THEN Head(ur.fifo) ELSE 0

\* uart_tx: a byte sent while busy waits in tdata_pending.
UartTx(send, data) ==
  LET loaded == ut.fin /\ (send \/ ut.pending # <<>>)
  IN  ut' = [fin |-> IF ut.fin THEN ~loaded ELSE ut.tmr = Frame + Gap,
             tmr |-> IF ut.fin THEN 0 ELSE ut.tmr + 1,
             data |-> IF ~loaded THEN ut.data
                      ELSE IF ut.pending # <<>> THEN ut.pending[1] ELSE data,
             pending |-> IF ut.fin THEN <<>> ELSE IF send THEN <<data>> ELSE ut.pending]

Overrun == ur.new # <<>> /\ Len(ur.fifo) = RX_DEPTH

\* uart_rx: a byte that is complete enters the FIFO one edge later, unless it
\* is full.
UartRx(ack) ==
  ur' = [new |-> IF ~ut.fin /\ ut.tmr = Frame THEN <<ut.data>> ELSE <<>>,
         fifo |-> (IF ack /\ rx_rdy THEN Tail(ur.fifo) ELSE ur.fifo)
                  \o (IF Overrun THEN <<>> ELSE ur.new)]

-------------------------------------------------------------------------------
(* lms_uart_bridge, one action per state.                                  *)

\* The registers that are pulses fall.
Pulse == [br EXCEPT !.send = FALSE, !.wr = <<>>]

BridgeStart ==
  /\ br.state = "IDLE"
  /\ br' = IF stream_busy \/ Words = 0
             THEN [Pulse EXCEPT !.state = "DONE", !.error = TRUE]
             ELSE [Pulse EXCEPT !.state = IF dir = "toHost" THEN "TX_RD" ELSE "RX_BYTE",
                                !.busy = TRUE, !.error = FALSE, !.left = WordBytes * Words,
                                !.buf = <<>>, !.sent = FALSE, !.hold = FALSE]

RxByte ==
  /\ br.state = "RX_BYTE"
  /\ br' = IF rx_rdy
             THEN [Pulse EXCEPT !.buf = Append(br.buf, rx_data), !.left = br.left - 1,
                                !.state = IF Len(br.buf) = WordBytes - 1 THEN "RX_WR" ELSE "RX_BYTE"]
             ELSE Pulse

\* Mutant: the address is incremented before the write.
RxWrNextAddr ==
  /\ br.state = "RX_WR"
  /\ LET last == br.left = 0
     IN  br' = [Pulse EXCEPT !.wr = <<[addr |-> br.addr + 1, word |-> br.buf]>>, !.buf = <<>>,
                             !.state = IF last THEN "DONE" ELSE "RX_BYTE", !.busy = ~last,
                             !.addr = br.addr + 1]

\* Mutant: one byte is still expected after the last word.
RxWrOffByOne ==
  /\ br.state = "RX_WR"
  /\ br' = [Pulse EXCEPT !.wr = <<[addr |-> br.addr, word |-> br.buf]>>, !.buf = <<>>,
                         !.state = "RX_BYTE", !.addr = br.addr + 1]

RxWr ==
  /\ br.state = "RX_WR"
  /\ LET last == br.left = 0
     IN  br' = [Pulse EXCEPT !.wr = <<[addr |-> br.addr, word |-> br.buf]>>, !.buf = <<>>,
                             !.state = IF last THEN "DONE" ELSE "RX_BYTE", !.busy = ~last,
                             !.addr = IF last THEN br.addr ELSE br.addr + 1]

TxRd ==
  /\ br.state = "TX_RD"
  /\ br' = [Pulse EXCEPT !.state = "TX_LOAD", !.valid = FALSE]

\* The task RAM answers one edge after it saw the request.
TxLoad ==
  /\ br.state = "TX_LOAD"
  /\ br' = IF br.valid
             THEN [Pulse EXCEPT !.buf = Word(br.addr), !.sent = FALSE, !.hold = FALSE,
                                !.state = "TX_PUT", !.valid = FALSE]
             ELSE [Pulse EXCEPT !.valid = TRUE]

\* The byte sent is taken off the word when the transmitter is ready again.
TxPut ==
  /\ br.state = "TX_PUT"
  /\ br' = IF ~br.sent /\ tx_ready
             THEN [Pulse EXCEPT !.sent = TRUE, !.hold = TRUE, !.send = TRUE, !.data = br.buf[1]]
           ELSE IF br.hold \/ ~tx_ready THEN [Pulse EXCEPT !.hold = FALSE]
           ELSE IF Len(br.buf) > 1
             THEN [Pulse EXCEPT !.buf = Tail(br.buf), !.hold = TRUE, !.send = TRUE,
                                !.data = br.buf[2]]
           ELSE LET last == br.left = WordBytes
                IN  [Pulse EXCEPT !.buf = <<>>, !.left = br.left - WordBytes, !.busy = ~last,
                                  !.state = IF last THEN "DONE" ELSE "TX_RD",
                                  !.addr = IF last THEN br.addr ELSE br.addr + 1]

BridgeWaits == br.state \in {"IDLE", "DONE"} /\ br' = Pulse

BridgeClear == br.state = "DONE" /\ br' = [Pulse EXCEPT !.state = "IDLE", !.error = FALSE]

BridgeRuns == RxByte \/ RxWr \/ TxRd \/ TxLoad \/ TxPut \/ BridgeWaits

\* The receiver is popped on the edge the byte is taken.
rx_ack == br.state = "RX_BYTE" /\ rx_rdy

-------------------------------------------------------------------------------
(* Firmware.  An access takes an edge, and the next one comes after a      *)
(* pause or later.                                                         *)

Quiet == [cpu EXCEPT !.ack = FALSE, !.send = FALSE, !.pause = FALSE]
Access(c) == ~cpu.pause /\ cpu' = c

\* bridge_run with ADDR and LEN written; the bridge takes the UART.
CpuStart ==
  /\ cpu.pc = "start"
  /\ Access([Quiet EXCEPT !.pc = "wait", !.pause = TRUE])
  /\ BridgeStart
  /\ bridge_owner' = TRUE

\* The poll of uart_putc or uart_getc succeeds.
CpuReady ==
  /\ cpu.pc \in {"byte", "copy"} /\ ~cpu.ready
  /\ IF dir = "toHost" THEN tx_ready ELSE rx_rdy
  /\ Access([Quiet EXCEPT !.ready = TRUE, !.pause = TRUE])

\* uart_putc writes, uart_getc reads; the UART sees it on the next edge.
CpuByte ==
  /\ cpu.pc \in {"byte", "copy"} /\ cpu.ready
  /\ LET n == cpu.moved + 1
         c == [Quiet EXCEPT !.ready = FALSE, !.pause = TRUE, !.moved = n,
                            !.pc = IF n = Header THEN "start"
                                   ELSE IF n = Total THEN "done" ELSE cpu.pc]
     IN  Access(IF dir = "toHost" THEN [c EXCEPT !.send = TRUE, !.data = n]
                                  ELSE [c EXCEPT !.ack = TRUE, !.got = Append(cpu.got, rx_data)])

\* bridge_run returns.  After an error a message is read by the processor; a
\* signature goes on without y.
CpuEnd ==
  /\ cpu.pc = "wait" /\ ~br.busy
  /\ Access([Quiet EXCEPT !.pause = TRUE,
               !.pc = IF br.error /\ dir = "toDevice" /\ Words > 0 THEN "copy" ELSE "done"])
  /\ BridgeClear

CpuWaits == cpu' = Quiet

-------------------------------------------------------------------------------
(* The mailbox on the SoC's clock.                                         *)

\* Mutant: the write enable follows the acknowledge alone.
WrenUngated == box.ack

txf_wren == box.ack /\ rx_rdy
stx_cond == ut.fin /\ ~empty
stx_rises == stx_cond /\ ~box.cond_d

\* Bytes from the SoC are popped into the FIFO; bytes from the FIFO are sent.
Mailbox ==
  box' = IF dir = "toHost"
           THEN [box EXCEPT !.ack = rx_rdy /\ ~full]
           ELSE [box EXCEPT !.cond_d = stx_cond, !.send = stx_rises, !.rden = stx_rises,
                            !.byte = IF stx_rises THEN rdata ELSE box.byte]

Stores == ram' = IF br.wr = <<>> THEN ram ELSE [ram EXCEPT ![br.wr[1].addr] = br.wr[1].word]

\* What hangs on the SoC's line: bridge or processor, and the mailbox.
SocSend == IF bridge_owner THEN br.send ELSE cpu.send
SocData == IF bridge_owner THEN br.data ELSE cpu.data
SocAck == IF bridge_owner THEN rx_ack ELSE cpu.ack

Line ==
  /\ UartTx(IF dir = "toHost" THEN SocSend ELSE box.send,
            IF dir = "toHost" THEN SocData ELSE box.byte)
  /\ UartRx(IF dir = "toHost" THEN box.ack ELSE SocAck)

OwnerReleased == bridge_owner' = (bridge_owner /\ br.busy)

IutEdge(acts) ==
  /\ IF acts THEN \/ CpuStart
                  \/ (CpuReady \/ CpuByte) /\ BridgeRuns /\ OwnerReleased
                  \/ CpuEnd /\ OwnerReleased
             ELSE CpuWaits /\ BridgeRuns /\ OwnerReleased
  /\ Line /\ Mailbox /\ Stores

-------------------------------------------------------------------------------
(* The mailbox on the USB clock, and the host.                             *)

\* The host reads the depth, then that many bytes, or pushes the next byte.
HostBegins ==
  \E reg \in IF dir = "toHost" THEN {IF host.count = 0 THEN "TX_IDX" ELSE "TX_BYTE"}
                               ELSE {"RX_BYTE"} :
    /\ usb.phase = "idle"
    /\ reg = "RX_BYTE" => host.next <= Total
    /\ usb' = [usb EXCEPT !.phase = "strobe", !.reg = reg, !.rden = FALSE, !.wren = FALSE,
                          !.write = IF reg = "RX_BYTE" THEN host.next ELSE usb.write]
    /\ UNCHANGED host

\* The strobe's rising edge: a byte is latched and popped, or pushed; a count
\* of DEPTH does not fit the register.
Strobe ==
  /\ usb.phase = "strobe"
  /\ usb' = [usb EXCEPT !.phase = "valid",
               !.rden = usb.reg = "TX_BYTE" /\ ~empty,
               !.wren = usb.reg = "RX_BYTE" /\ ~full,
               !.pop = IF usb.reg = "TX_BYTE" /\ ~empty THEN rdata ELSE usb.pop,
               !.read = IF usb.reg = "TX_IDX"
                          THEN IF count_rd = DEPTH THEN DEPTH - 1 ELSE count_rd
                          ELSE IF empty THEN usb.pop ELSE rdata]
  /\ UNCHANGED host

\* The host samples, and ends the strobe.
HostEnds ==
  /\ usb.phase = "valid"
  /\ usb' = [usb EXCEPT !.phase = "idle", !.rden = FALSE, !.wren = FALSE]
  /\ host' = CASE usb.reg = "TX_IDX" -> [host EXCEPT !.count = usb.read]
               [] usb.reg = "TX_BYTE" -> [host EXCEPT !.count = host.count - 1,
                                                      !.got = Append(host.got, usb.read)]
               [] OTHER -> [host EXCEPT !.next = host.next + 1]

UsbWaits ==
  /\ usb.phase = "idle"
  /\ UNCHANGED <<usb, host>>

UsbEdge(acts) == IF acts THEN HostBegins ELSE Strobe \/ HostEnds \/ UsbWaits

-------------------------------------------------------------------------------

\* Bytes that are dropped on these edges.
Dropped(iut, u) ==
     (IF iut /\ dir = "toHost" /\ txf_wren /\ full THEN {"mailbox"} ELSE {})
  \cup (IF u /\ usb.phase = "strobe" /\ usb.reg = "RX_BYTE" /\ full THEN {"mailbox"} ELSE {})
  \cup (IF iut /\ Overrun THEN {IF br.busy /\ br.left < WordBytes * Words THEN "bridging" ELSE "receiver"} ELSE {})

\* Edges of the two clocks, alone or together.
Clock(iut, u, cpuActs, hostActs) ==
  /\ iut \/ u
  /\ IF iut THEN IutEdge(cpuActs) ELSE UNCHANGED iutVars
  /\ IF u THEN UsbEdge(hostActs) ELSE UNCHANGED usbVars
  /\ IF dir = "toHost" THEN Edge(iut, txf_wren, rx_data, u, usb.rden)
                       ELSE Edge(u, usb.wren, usb.write, iut, box.rden)
  /\ lost' = lost \cup Dropped(iut, u)
  /\ UNCHANGED <<transfer, stream_busy>>

Next == \E iut, u, cpuActs, hostActs \in BOOLEAN : Clock(iut, u, cpuActs, hostActs)

Fairness ==
  /\ WF_vars(\E u, h \in BOOLEAN : Clock(TRUE, u, FALSE, h))
  /\ WF_vars(\E u, h \in BOOLEAN : Clock(TRUE, u, TRUE, h))
  /\ WF_vars(\E i, c \in BOOLEAN : Clock(i, TRUE, c, FALSE))
  /\ WF_vars(\E i, c \in BOOLEAN : Clock(i, TRUE, c, TRUE))

Spec == Init /\ [][Next]_vars /\ Fairness

-------------------------------------------------------------------------------
(* Properties.                                                             *)

\* Nothing on its way to the host is ever dropped, however slowly the host
\* reads: RTS and CTS stop the SoC in time.  On the way to the device, which
\* has no flow control, bytes are dropped only by a full mailbox, or before the
\* bridge has taken its first byte.
NoLoss == lost \subseteq IF dir = "toHost" THEN {} ELSE {"mailbox", "receiver"}

Received == IF dir = "toHost" THEN host.got ELSE cpu.got

\* The receiving program gets the bytes once and in order, and all of them
\* unless one was dropped: no FIFO, register or handover repeats or skips one.
InOrder ==
  /\ \A i, j \in 1 .. Len(Received) : i < j => Received[i] < Received[j]
  /\ \A i \in 1 .. Len(Received) : Received[i] # 0
  /\ lost = {} => Received = FirstBytes(Len(Received))

\* When bridge_run has returned without error, every word is in the task RAM.
StoredWhenDone ==
  /\ dir = "toDevice" /\ cpu.pc = "done" /\ ~stream_busy /\ lost = {}
  => \A k \in 0 .. Words - 1 : ram[k] = Word(k)

\* A transfer ends: firmware is never left waiting for the bridge, and the
\* host gets every byte, unless one was dropped on the way to the device or
\* the bridge was started while the accelerator was busy.
Completes ==
  <>(\/ lost # {}
     \/ /\ cpu.pc = "done"
        /\ dir = "toHost" => Len(host.got) = IF stream_busy THEN Header ELSE Total)
===============================================================================
