----------------------------- MODULE MCTransport -----------------------------
(* Transport with a FIFO of four entries.  The transfer to the host is long *)
(* enough to fill it and to wrap its pointers, the one to the device to     *)
(* overrun it and the receiver.                                             *)
EXTENDS Transport

MCTransfers == {[dir |-> "toHost", header |-> 2, words |-> 4],
                [dir |-> "toDevice", header |-> 1, words |-> 2]}
===============================================================================
