----------------------------- MODULE OtsRequests -----------------------------
(***************************************************************************)
(* How a request of the firmware gets message, coefficients and chain      *)
(* values y to the accelerator (fw/lms_soc_smoke.c, the LM-OTS layer       *)
(* lm_ots.c and its calls of lms_mmio.c).                                  *)
(*                                                                         *)
(* Long messages and y travel past the processor: the UART bridge moves    *)
(* them into and out of the task RAM, where the message hash, MSG_Q_COEF,  *)
(* the leaves of a tree and the authentication path also have their        *)
(* places.  Flags say who holds what: s_msg_in_ram, coef_ready,            *)
(* sign_y_in_taskram and the registered variants of the backends.  They    *)
(* outlive the request that set them.                                      *)
(*                                                                         *)
(* The task RAM is the set of intact objects with their real word          *)
(* addresses: a write removes every object it touches.  Coefficients and y *)
(* are the message they belong to.  All w of the parameter tables are      *)
(* supported by the hardware, so set_hw_lmots never disables it.           *)
(***************************************************************************)
EXTENDS Integers

CONSTANTS
  Messages,   \* messages
  Lengths,    \* their lengths in bytes
  Widths,     \* Winternitz parameters w
  Platforms,  \* builds: "shake256", "sha256"
  Faults,     \* TRUE: a hardware or bridge call may fail
  None        \* no message: uninitialised or overwritten

ASSUME OtsRequestsAssumption ==
  /\ None \notin Messages
  /\ "not_ready" \notin Messages \cup {None}
  /\ \A len \in Lengths : len \in Nat /\ len <= 65535
  /\ Widths \subseteq {1, 2, 4, 8}
  /\ Platforms \subseteq {"shake256", "sha256"}
  /\ Faults \in BOOLEAN

Verifies == {"verify", "lmots_verify"}
Signs == {"sign", "lmots_sign", "sec_sign", "sec_lms_sign"}

\* What is wrong with a request: nothing, the LM-OTS type, the LMS type, the
\* key, the key's leaves are used up, the other platform's hash.
Forms(op) == {"ok", "foreign"} \cup
  CASE op = "verify" -> {"ots_type", "lms_type", "key"}
    [] op = "lmots_verify" -> {"ots_type"}
    [] op = "lmots_sign" -> {"key"}
    [] OTHER -> {"key", "spent"}

VARIABLES
  platform,           \* the build this is
  pc,                 \* step of the request in progress
  job,                \* the request and the handler's local state
  ram,                \* task RAM
  kept,               \* coefficients kept in the hardware, NotReady while
                      \* client->coef_ready is 0
  s_msg_in_ram,
  sign_y_in_taskram,
  leaf_backend,       \* verify_leaf_backend: "mmio" or "taskram"
  sign_backend,       \* sign_backend: "mmio" (also hw_sign) or "taskram"
  refused             \* history: the last request was refused

flags == <<kept, s_msg_in_ram, sign_y_in_taskram>>
backends == <<leaf_backend, sign_backend>>
vars == <<platform, pc, job, ram, flags, backends, refused>>

NoJob == [op |-> "none"]
NotReady == "not_ready"

Init ==
  /\ platform \in Platforms
  /\ pc = "idle" /\ job = NoJob
  /\ ram = {}
  /\ kept = NotReady /\ s_msg_in_ram = FALSE /\ sign_y_in_taskram = FALSE
  /\ leaf_backend = "mmio" /\ sign_backend = "mmio"
  /\ refused = FALSE

-------------------------------------------------------------------------------
(* The task RAM.                                                           *)

VERIFY_MESSAGE_MAX == 2048
HASH_ONCE_RAM_MAX == 2048
TASK_WORDS == 2152

\* Mutant: y starts one block further up.
BridgeYAddrUp == 40

BRIDGE_Y_ADDR == 32
MSG_ADDR == 582
PATH_WORDS == 8 + 8 * 25

Words(bytes) == (bytes + 3) \div 4
Chains(w) == IF w = 1 THEN 265 ELSE IF w = 2 THEN 133 ELSE IF w = 4 THEN 67 ELSE 34
YWords(w) == 8 * Chains(w)

mqc_msg_base(w) ==
  LET base == BRIDGE_Y_ADDR + YWords(w) IN IF base >= TASK_WORDS THEN 568 ELSE base

\* The window MSG_Q_COEF reads: header, and 14 words on the message.
MqcBase(w, len) ==
  IF 54 + len > 128 THEN 568 ELSE IF w = 1 THEN 568 ELSE BRIDGE_Y_ADDR + YWords(w)

\* An object somebody may read: y of parameter w, or a message of more than 74
\* bytes.
Y(of, w) == [what |-> "y", of |-> of, size |-> w,
             lo |-> BRIDGE_Y_ADDR, hi |-> BRIDGE_Y_ADDR + YWords(w) - 1]
Message(of, len, lo) == [what |-> "message", of |-> of, size |-> len,
                         lo |-> lo, hi |-> lo + Words(len) - 1]

Untouched(lo, n, r) == {o \in r : o.hi < lo \/ o.lo > lo + n - 1}
Stored(o, r) ==
  Untouched(o.lo, o.hi - o.lo + 1, r) \cup (IF o.of = None THEN {} ELSE {o})

\* What reading an object of this kind and size from there yields.
Read(what, lo, size) ==
  LET here == {o \in ram : o.what = what /\ o.lo = lo /\ o.size = size}
  IN  IF here = {} THEN None ELSE (CHOOSE o \in here : TRUE).of

ReadMessage(len) == Read("message", MSG_ADDR, len)
ReadY(w) == Read("y", BRIDGE_Y_ADDR, w)

\* Mutant: the bound for short messages is used for all.
YFitsAnyLength(w, len) == BRIDGE_Y_ADDR + YWords(w) <= mqc_msg_base(w)

\* Does y fit below the window MSG_Q_COEF will use?
YFits(w, len) ==
  BRIDGE_Y_ADDR + YWords(w) <= (IF len <= 74 THEN mqc_msg_base(w) ELSE 568)

-------------------------------------------------------------------------------
(* Receiving a request.                                                    *)

New(op, m, y, len, w, form) ==
  [op |-> op, m |-> m, y |-> y, len |-> len, w |-> w, form |-> form,
   buf |-> None, ybuf |-> None, yram |-> FALSE, coef |-> None, used |-> None,
   match |-> FALSE, left |-> s_msg_in_ram, fault |-> FALSE, rebuilt |-> FALSE,
   done |-> FALSE]

Inputs(op) == {New(op, m, y, len, w, form) :
                 m \in Messages, y \in IF op \in Verifies THEN Messages ELSE {None},
                 len \in Lengths, w \in Widths, form \in Forms(op)}

\* The handler returns; the response follows.
Respond(j) == pc' = "reply" /\ job' = j

\* verify_from_uart and sign_from_uart: a long message is bridged to MSG_ADDR,
\* or read by software when the bridge reports an error.
ReceiveLms ==
  \E op \in {"verify", "sign"} : \E j \in Inputs(op) :
    /\ pc = "idle"
    /\ IF j.len > VERIFY_MESSAGE_MAX
         THEN Respond(j) /\ UNCHANGED <<ram, s_msg_in_ram>>
         ELSE \E bridged \in IF j.len <= 74 THEN {FALSE} ELSE
                          IF Faults THEN BOOLEAN ELSE {TRUE} :
                /\ s_msg_in_ram' = bridged
                /\ ram' = IF bridged THEN Stored(Message(j.m, j.len, MSG_ADDR), ram) ELSE ram
                /\ job' = [j EXCEPT !.buf = IF bridged THEN None ELSE j.m]
                /\ pc' = op
    /\ UNCHANGED <<kept, sign_y_in_taskram, backends, refused, platform>>

\* verify_from_uart, the signature: types, y and tail.  A key that does not
\* parse or does not match is found by lms_verify before any hashing.
ReceiveSignature ==
  /\ pc = "verify"
  /\ LET bridged == YFits(job.w, job.len) /\ (platform = "shake256" \/ job.len <= 74)
         got == [job EXCEPT !.yram = bridged, !.ybuf = IF bridged THEN None ELSE job.y]
     IN  \/ /\ job.form = "ots_type"
            /\ Respond(job)
            /\ UNCHANGED ram
         \/ /\ job.form # "ots_type" /\ bridged /\ Faults
            /\ Respond([job EXCEPT !.fault = TRUE])
            /\ UNCHANGED ram
         \/ /\ job.form # "ots_type"
            /\ ram' = IF bridged THEN Stored(Y(job.y, job.w), ram) ELSE ram
            /\ IF job.form \in {"lms_type", "key"}
                 THEN Respond(got)
                 ELSE pc' = "coef" /\ job' = got
  /\ leaf_backend' = IF pc' = "coef" /\ job'.yram THEN "taskram" ELSE leaf_backend
  /\ UNCHANGED <<flags, sign_backend, refused, platform>>

\* Mutant: the tree is built over the message.
ReadsBackNever(hit) == FALSE

\* Unless the cache holds the tree, it is built in the task RAM.
ReadsBack(hit) == s_msg_in_ram /\ ~hit

\* sign_from_uart, the key: a bridged message is read back when the tree has
\* to be built, which uses the task RAM; lms_sign refuses a used-up key.
SignKey ==
  /\ pc = "sign"
  /\ IF job.form = "key"
       THEN Respond(job) /\ UNCHANGED <<ram, s_msg_in_ram, sign_y_in_taskram, sign_backend>>
       ELSE \E hit \in BOOLEAN :
              LET j == [job EXCEPT !.buf = IF ReadsBack(hit) THEN ReadMessage(job.len) ELSE job.buf]
              IN  /\ s_msg_in_ram' = (s_msg_in_ram /\ ~ReadsBack(hit))
                  /\ ram' = IF hit THEN ram ELSE Untouched(BRIDGE_Y_ADDR, YWords(job.w), ram)
                  /\ sign_y_in_taskram' = FALSE
                  /\ IF job.form \in {"spent", "foreign"}
                       THEN Respond(j) /\ sign_backend' = "mmio"
                       ELSE pc' = "coef" /\ job' = j /\ sign_backend' = "taskram"
  /\ UNCHANGED <<kept, leaf_backend, refused, platform>>

\* lmots_sign_from_uart and lmots_verify_from_uart: the message is read by
\* software, y is bridged where it fits.
ReceiveLmots ==
  \E op \in {"lmots_sign", "lmots_verify"} : \E j \in Inputs(op) :
    /\ pc = "idle"
    /\ LET bridged == op = "lmots_verify" /\ YFits(j.w, j.len)
           got == [j EXCEPT !.buf = j.m, !.yram = bridged,
                            !.ybuf = IF bridged THEN None ELSE j.y]
       IN  IF j.len > VERIFY_MESSAGE_MAX \/ j.form \in {"ots_type", "key"}
             THEN Respond(j) /\ UNCHANGED ram
             ELSE \/ /\ bridged /\ Faults
                     /\ Respond([j EXCEPT !.fault = TRUE])
                     /\ UNCHANGED ram
                  \/ /\ ram' = IF bridged THEN Stored(Y(j.y, j.w), ram) ELSE ram
                     /\ IF j.form = "foreign" THEN Respond(got)
                                              ELSE pc' = "coef" /\ job' = got
    /\ sign_y_in_taskram' = (sign_y_in_taskram /\ op # "lmots_sign")
    /\ UNCHANGED <<kept, s_msg_in_ram, backends, refused, platform>>

\* sec_sign_from_uart and sec_lms_sign_from_uart: the message is read by
\* software; 0x66 builds the tree if it must and leaves y in the task RAM.
ReceiveSec ==
  \E op \in {"sec_sign", "sec_lms_sign"} : \E j \in Inputs(op), hit \in BOOLEAN :
    /\ pc = "idle"
    /\ LET got == [j EXCEPT !.buf = j.m]
           lms == op = "sec_lms_sign"
       IN  IF j.len > VERIFY_MESSAGE_MAX \/ j.form = "key"
             THEN Respond(j) /\ UNCHANGED <<ram, sign_backend, sign_y_in_taskram>>
             ELSE /\ ram' = IF lms /\ ~hit
                              THEN Untouched(BRIDGE_Y_ADDR, YWords(j.w), ram) ELSE ram
                  /\ IF j.form \in {"spent", "foreign"}
                       THEN Respond(got) /\ sign_backend' = "mmio" /\ UNCHANGED sign_y_in_taskram
                       ELSE /\ pc' = "coef" /\ job' = got
                            /\ sign_backend' = IF lms THEN "taskram" ELSE "mmio"
                            /\ sign_y_in_taskram' = (sign_y_in_taskram \/ lms)
    /\ UNCHANGED <<kept, s_msg_in_ram, leaf_backend, refused, platform>>

-------------------------------------------------------------------------------
(* Coefficients: the LM-OTS layer asks hw_coef_backend, then hashes.       *)

FromRam == s_msg_in_ram /\ job.len > 74
MqcFits == 54 + job.len <= HASH_ONCE_RAM_MAX

\* Header and, unless it is there already, message are written.
MqcWritten ==
  LET base == MqcBase(job.w, job.len)
      head == Untouched(base, Words(54), ram)
  IN  IF FromRam THEN head
      ELSE IF job.len > 74 THEN Stored(Message(job.buf, job.len, base + 14), head)
      ELSE Untouched(base + 14, Words(job.len), head)

\* Mutant: the message stays claimed.
CoefKeptClaimed ==
  /\ pc = "coef"
  /\ MqcFits
  /\ kept' = IF FromRam THEN ReadMessage(job.len) ELSE job.buf
  /\ ram' = MqcWritten
  /\ pc' = "ots"
  /\ UNCHANGED <<job, s_msg_in_ram, sign_y_in_taskram, backends, refused, platform>>

\* MSG_Q_COEF succeeds: the coefficients stay in the hardware.
CoefKept ==
  /\ pc = "coef"
  /\ MqcFits
  /\ kept' = IF FromRam THEN ReadMessage(job.len) ELSE job.buf
  /\ ram' = MqcWritten
  /\ s_msg_in_ram' = FALSE
  /\ pc' = "ots"
  /\ UNCHANGED <<job, sign_y_in_taskram, backends, refused, platform>>

\* It is too long or fails: a bridged message is read back to the buffer.
CoefFallsBack ==
  /\ pc = "coef"
  /\ ~MqcFits \/ Faults
  /\ \E written \in IF MqcFits THEN BOOLEAN ELSE {FALSE} :
       ram' = IF written THEN MqcWritten ELSE ram
  /\ kept' = NotReady
  /\ s_msg_in_ram' = FALSE
  /\ job' = [job EXCEPT !.buf = IF FromRam THEN ReadMessage(job.len) ELSE job.buf,
                         !.fault = job.fault \/ MqcFits]
  /\ pc' = "hash"
  /\ UNCHANGED <<sign_y_in_taskram, backends, refused, platform>>

\* hw_message_hash_backend takes HASH_ONCE_RAM for these without any failure.
HASH_RAM_MESSAGE_MAX == 1994
HashInRam(len) == len > 74 /\ len <= HASH_RAM_MESSAGE_MAX

\* hw_message_hash_backend: HASH_ONCE, HASH_ONCE_RAM from BRIDGE_Y_ADDR on, or
\* software; each one falls back to the next.
MessageHash ==
  /\ pc = "hash"
  /\ \E inRam \in {HashInRam(job.len)} \cup (IF Faults THEN BOOLEAN ELSE {}) :
       /\ inRam => job.len <= HASH_RAM_MESSAGE_MAX
       /\ ram' = IF inRam THEN Untouched(BRIDGE_Y_ADDR, Words(54 + job.len), ram) ELSE ram
       /\ job' = [job EXCEPT !.coef = job.buf,
                              !.fault = job.fault \/ inRam # HashInRam(job.len)]
  /\ pc' = "ots"
  /\ UNCHANGED <<flags, backends, refused, platform>>

-------------------------------------------------------------------------------
(* Chains, leaf and path.                                                  *)

\* Coefficients the batch command works on: the kept ones, or the caller's.
Used == IF kept # NotReady THEN kept ELSE job.coef

\* A call fails: the request is refused.
Failed == Faults /\ Respond([job EXCEPT !.fault = TRUE])

\* hw_verify_leaf writes y from the buffer, hw_verify_leaf_taskram takes what
\* is in the task RAM.  The other platform's hash is refused here.
VerifyLeaf ==
  /\ pc = "ots" /\ job.op = "verify"
  /\ IF job.form = "foreign"
       THEN Respond(job) /\ UNCHANGED <<ram, kept>>
       ELSE LET taskram == leaf_backend = "taskram"
                y == IF taskram THEN ReadY(job.w) ELSE job.ybuf
            IN  /\ kept' = NotReady
                /\ ram' = IF taskram THEN ram ELSE Stored(Y(job.ybuf, job.w), ram)
                /\ \/ /\ pc' = "path"
                      /\ job' = [job EXCEPT !.used = Used, !.match = Used # None /\ y = Used]
                   \/ Failed
  /\ leaf_backend' = IF pc' = "reply" THEN "mmio" ELSE leaf_backend
  /\ UNCHANGED <<s_msg_in_ram, sign_y_in_taskram, sign_backend, refused, platform>>

\* hw_dintr_authpath: leaf and path go where y was; the handler restores the
\* backend that reads y from the buffer.
VerifyPath ==
  /\ pc = "path" /\ job.op = "verify"
  /\ ram' = Untouched(BRIDGE_Y_ADDR, PATH_WORDS, ram)
  /\ \/ Respond([job EXCEPT !.done = job.match])
     \/ Failed
  /\ leaf_backend' = "mmio"
  /\ UNCHANGED <<flags, sign_backend, refused, platform>>

\* lmots_verify_from_uart: y is written now unless it was bridged.
LmotsVerify ==
  /\ pc = "ots" /\ job.op = "lmots_verify"
  /\ LET y == IF job.yram THEN ReadY(job.w) ELSE job.ybuf
     IN  \/ Respond([job EXCEPT !.used = Used, !.done = Used # None /\ y = Used])
         \/ Failed
  /\ ram' = IF job.yram THEN ram ELSE Stored(Y(job.ybuf, job.w), ram)
  /\ kept' = NotReady
  /\ UNCHANGED <<s_msg_in_ram, sign_y_in_taskram, backends, refused, platform>>

\* LMOTS_SIGN leaves y in the task RAM; the variant that is not "taskram"
\* copies it to the signature.  0x54 and the LM-OTS request end here.
SignChains ==
  /\ pc = "ots" /\ job.op \in Signs
  /\ kept' = NotReady
  /\ \/ /\ ram' = Stored(Y(Used, job.w), ram)
        /\ LET j == [job EXCEPT !.used = Used,
                        !.ybuf = IF sign_backend = "mmio" /\ job.op # "lmots_sign"
                                   THEN Used ELSE None]
           IN  IF job.op \in {"sign", "sec_lms_sign"}
                 THEN pc' = "path" /\ job' = j /\ UNCHANGED sign_y_in_taskram
                 ELSE /\ Respond([j EXCEPT !.done = TRUE])
                      /\ sign_y_in_taskram' = (job.op = "lmots_sign")
     \/ /\ Failed
        /\ ram' = Untouched(BRIDGE_Y_ADDR, YWords(job.w), ram)
        /\ UNCHANGED sign_y_in_taskram
  /\ sign_backend' = IF pc' = "reply" THEN "mmio" ELSE sign_backend
  /\ UNCHANGED <<s_msg_in_ram, leaf_backend, refused, platform>>

\* The path comes from the cache, or leaves are computed for it in the task RAM.
SignPath ==
  /\ pc = "path" /\ job.op \in Signs
  /\ \E rebuilt \in BOOLEAN :
       /\ ram' = IF rebuilt THEN Untouched(BRIDGE_Y_ADDR, YWords(job.w), ram) ELSE ram
       /\ \/ /\ Respond([job EXCEPT !.done = TRUE, !.rebuilt = rebuilt])
             /\ sign_y_in_taskram' = TRUE
          \/ /\ rebuilt /\ Failed
             /\ UNCHANGED sign_y_in_taskram
  /\ sign_backend' = "mmio"
  /\ UNCHANGED <<kept, s_msg_in_ram, leaf_backend, refused, platform>>

\* Requests whose y may be sent from the task RAM.
Bridges == {"sign", "lmots_sign", "sec_lms_sign"}

\* The y a signature is sent with: bridged from the task RAM, or the buffer's.
SentY == IF sign_y_in_taskram /\ job.op \in Bridges THEN ReadY(job.w) ELSE job.ybuf

\* serve_uart: response and signature are sent; the flag is cleared after a
\* signature and after any 0x66.
Reply ==
  /\ pc = "reply"
  /\ pc' = "idle" /\ job' = NoJob
  /\ refused' = ~job.done
  /\ sign_y_in_taskram' = (/\ sign_y_in_taskram
                           /\ job.op # "sec_lms_sign"
                           /\ ~(job.op \in Bridges /\ job.done))
  /\ UNCHANGED <<ram, kept, s_msg_in_ram, backends, platform>>

Next ==
  \/ ReceiveLms \/ ReceiveSignature \/ SignKey \/ ReceiveLmots \/ ReceiveSec
  \/ CoefKept \/ CoefFallsBack \/ MessageHash
  \/ VerifyLeaf \/ VerifyPath \/ LmotsVerify \/ SignChains \/ SignPath
  \/ Reply

Spec == Init /\ [][Next]_vars

-------------------------------------------------------------------------------
(* Properties.                                                             *)

\* Types: the flags, the registered variants, and a task RAM in
\* which no two objects overlap and none exceeds it.
TypeOK ==
  /\ platform \in Platforms
  /\ pc \in {"idle", "verify", "sign", "coef", "hash", "ots", "path", "reply"}
  /\ kept \in Messages \cup {None, NotReady}
  /\ s_msg_in_ram \in BOOLEAN /\ sign_y_in_taskram \in BOOLEAN
  /\ leaf_backend \in {"mmio", "taskram"} /\ sign_backend \in {"mmio", "taskram"}
  /\ \A o \in ram : o.of \in Messages /\ o.lo >= BRIDGE_Y_ADDR /\ o.hi < TASK_WORDS
  /\ \A o, p \in ram : o = p \/ o.hi < p.lo \/ p.hi < o.lo

Answered(ops) == pc = "reply" /\ job.op \in ops

\* The request found s_msg_in_ram set by an earlier one and does not reset it.
Misled == job.left /\ job.op \notin {"verify", "sign"} /\ job.len > 74

\* A verification accepts only the message that was signed, and rejects a
\* genuine, well-formed signature only after a hardware or bridge call failed,
\* wherever message, coefficients and y travelled and whatever was left there.
Verdict ==
  Answered(Verifies) /\ ~Misled =>
    /\ job.done => job.y = job.m
    /\ /\ job.form = "ok" /\ job.len <= VERIFY_MESSAGE_MAX
       /\ job.y = job.m /\ ~job.fault
       => job.done

\* A signature is made over the request's message and sent with the y that
\* belongs to it, unless leaves were computed after y.
OwnSignature ==
  Answered(Signs) /\ job.done /\ ~Misled =>
    /\ job.used = job.m
    /\ ~job.rebuilt => SentY = job.m

\* A message stays claimed in the task RAM only after a refused request.
ClaimIsRefused == pc = "idle" /\ s_msg_in_ram => refused

\* The same without exception: every signature is over its request's message.
OwnMessage == Answered(Signs) /\ job.done => job.used = job.m
===============================================================================
