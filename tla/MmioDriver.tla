------------------------------ MODULE MmioDriver ------------------------------
(***************************************************************************)
(* The register-level driver of the hash accelerator (src/lms_mmio.c) and  *)
(* the bus side of the accelerator itself (rtl/lms_shake256_mmio.v and     *)
(* rtl/lms_sha256_mmio.v), with the firmware's "keep" protocol that leaves *)
(* the Winternitz coefficients of a message in the hardware between        *)
(* MSG_Q_COEF and LMOTS_SIGN / LMOTS_VERIFY.                               *)
(*                                                                         *)
(* Driver and accelerator run side by side: between any two bus accesses   *)
(* of the driver the accelerator may finish, and the driver may give up    *)
(* polling a command that goes on running.  A register write that meets a  *)
(* busy accelerator is dropped by the hardware without notice.             *)
(*                                                                         *)
(* A call is identified by a number that wraps at CallMod; the content of  *)
(* a register window is the number of the call that wrote it, coefficients *)
(* are identified by the request (message) they were computed for.         *)
(***************************************************************************)
EXTENDS Integers

CONSTANTS
  Shake,      \* TRUE: SHAKE256 platform; FALSE: SHA-256 platform
  Caps,       \* command kinds the CAPABILITY register announces
  Polls,      \* timeout_polls of the client
  Fallback,   \* allow_fallback of the client
  CallMod     \* call and request numbers wrap here

\* Command kinds: hash = one run of the engine (HASH_ONCE, CHAIN, DERIVE_*),
\* coef = MSG_Q_COEF, batch = LMOTS_SIGN and LMOTS_VERIFY, sec = HMAC, WRAP,
\* UNWRAP and STATE_COMMIT, imm = SEED_LOAD and MC commands, done at once.
Kind == {"hash", "coef", "batch", "sec", "imm"}

ASSUME MmioDriverAssumption ==
  /\ Shake \in BOOLEAN
  /\ Caps \subseteq Kind
  /\ Polls \in Nat \ {0}
  /\ Fallback \in BOOLEAN
  /\ CallMod \in Nat \ {0, 1}

Id == 0..(CallMod - 1)
Unset == -1
NextId(i) == (i + 1) % CallMod

VARIABLES
  pc,          \* next bus access of the driver
  call,        \* number of the call in progress or last made
  kind,        \* its command
  source,      \* where a batch call takes its coefficients from
  polls,       \* polls left
  ret,         \* how the last call returned, and the result it read
  phase,       \* where the firmware stands in a request
  msg,         \* number of the request
  mem,         \* request whose coefficients are in the caller's buffer
  coef_ready,  \* client->coef_ready
  engine,      \* idle, start (engine_start_r), run
  job,         \* what the accelerator executes
  args,        \* COMMAND, ARG_* and IDENTIFIER registers
  input,       \* INPUT window / task RAM
  coefs,       \* coefficient_words
  output,      \* OUTPUT window: the job it is the result of
  done,        \* done_r
  err,         \* error_status_r
  pend,        \* busy_error_pending_r
  late         \* history: a call gave up on a command still in hardware

drv == <<pc, call, kind, source, polls, ret>>
req == <<phase, msg, mem, coef_ready>>
regs == <<args, input, coefs>>
flags == <<done, err, pend>>
hw == <<engine, job, regs, output, flags>>
vars == <<drv, req, hw, late>>

Job == [kind : Kind, args : Id \cup {Unset}, input : Id \cup {Unset},
        coefs : Id \cup {Unset}]
NoJob == [kind |-> "imm", args |-> Unset, input |-> Unset, coefs |-> Unset]

\* wrapper_busy_w; only the SHA-256 wrapper counts the cycle of engine_start_r.
Busy == engine = "run" \/ (~Shake /\ engine = "start")

-------------------------------------------------------------------------------
Init ==
  /\ pc = "idle" /\ call = 0 /\ kind = "imm" /\ source = "kept" /\ polls = 0
  /\ ret = [status |-> "INVALID", job |-> NoJob]
  /\ phase = "free" /\ msg = 0 /\ mem = Unset /\ coef_ready = FALSE
  /\ engine = "idle" /\ job = NoJob
  /\ args = Unset /\ input = Unset /\ coefs = Unset /\ output = NoJob
  /\ done = FALSE /\ err = FALSE /\ pend = FALSE
  /\ late = FALSE

-------------------------------------------------------------------------------
(* The driver: prepare_command, register writes, START, polling.           *)

\* A call is made: without the capability it returns before any access.
Begin(k, w) ==
  /\ call' = NextId(call)
  /\ kind' = k
  /\ source' = w
  /\ polls' = Polls
  /\ IF k \in Caps
       THEN pc' = "clear" /\ UNCHANGED ret
       ELSE pc' = "idle" /\ ret' = [status |-> "PROTOCOL", job |-> NoJob]

\* A failed hash or chain call is recomputed in software when allowed.
Fail(status) ==
  /\ pc' = "idle"
  /\ ret' = [status |-> IF Fallback /\ kind = "hash" THEN "SOFT" ELSE status,
             job |-> NoJob]

\* Mutant: DONE survives the CLEAR.
ClearKeepsDone ==
  /\ pc = "clear"
  /\ pc' = "status"
  /\ IF Busy THEN UNCHANGED <<done, err, pend, late>>
             ELSE done' = done /\ err' = FALSE /\ pend' = FALSE /\ late' = FALSE
  /\ UNCHANGED <<call, kind, source, polls, ret, req, engine, job, regs, output>>

\* CONTROL = CLEAR; dropped when busy.
Clear ==
  /\ pc = "clear"
  /\ pc' = "status"
  /\ IF Busy THEN UNCHANGED <<done, err, pend, late>>
             ELSE done' = FALSE /\ err' = FALSE /\ pend' = FALSE /\ late' = FALSE
  /\ UNCHANGED <<call, kind, source, polls, ret, req, engine, job, regs, output>>

\* Mutant: only the error flag is looked at before the registers are written.
PrepareStatusErrorOnly ==
  /\ pc = "status"
  /\ IF err
       THEN Fail("HARDWARE")
       ELSE pc' = "args" /\ UNCHANGED ret
  /\ UNCHANGED <<call, kind, source, polls, req, hw, late>>

\* STATUS must read zero; the length check of the hash calls comes after it.
PrepareStatus ==
  /\ pc = "status"
  /\ IF Busy \/ done \/ err
       THEN Fail("HARDWARE")
       ELSE \/ pc' = "args" /\ UNCHANGED ret
            \/ kind = "hash" /\ Fail("INVALID")
  /\ UNCHANGED <<call, kind, source, polls, req, hw, late>>

WriteArgs ==
  /\ pc = "args"
  /\ pc' = "input"
  /\ args' = IF Busy THEN args ELSE call
  /\ UNCHANGED <<call, kind, source, polls, ret, req, engine, job, input, coefs,
                 output, flags, late>>

\* INPUT window or task RAM, and the coefficient words of a batch call.
WriteInput ==
  /\ pc = "input"
  /\ pc' = "start"
  /\ input' = IF Busy THEN input ELSE call
  /\ coefs' = IF Busy \/ source = "kept" THEN coefs ELSE mem
  /\ UNCHANGED <<call, kind, source, polls, ret, req, engine, job, args,
                 output, flags, late>>

-------------------------------------------------------------------------------
(* CONTROL = START as the wrapper sees it.                                 *)

\* While busy: SHA-256 remembers it, SHAKE256 drops it.
StartBusy ==
  /\ Busy
  /\ pend' = IF Shake THEN pend ELSE TRUE
  /\ UNCHANGED <<engine, job, regs, output, done, err>>

\* lms_hash_cmd_check refuses: an unloaded slot, a length, a closed gate.
StartRejected ==
  /\ ~Busy
  /\ done' = FALSE
  /\ err' = TRUE
  /\ pend' = IF Shake THEN pend ELSE FALSE
  /\ UNCHANGED <<engine, job, regs, output>>

StartAccepted ==
  /\ ~Busy
  /\ job' = [kind |-> kind, args |-> args, input |-> input, coefs |-> coefs]
  /\ engine' = IF kind = "imm" THEN "idle"
               ELSE IF kind = "hash" THEN "start" ELSE "run"
  /\ done' = IF kind = "imm" THEN TRUE ELSE FALSE
  /\ output' = IF kind = "imm" THEN job' ELSE output
  /\ err' = IF Shake THEN err ELSE FALSE
  /\ pend' = IF Shake THEN pend ELSE FALSE
  /\ UNCHANGED regs

Start ==
  /\ pc = "start"
  /\ pc' = "poll"
  /\ StartBusy \/ StartRejected \/ StartAccepted
  /\ UNCHANGED <<call, kind, source, polls, ret, req, late>>

-------------------------------------------------------------------------------
(* wait_for_result_n.                                                      *)

\* The cycle of engine_start_r is over after one bus access at the latest.
Tick == IF engine = "start" THEN "run" ELSE engine

\* Mutant: the poll counter runs past zero.
PollOnceMore ==
  /\ pc = "poll"
  /\ \/ /\ Busy \/ ~(done \/ err)
        /\ polls' = polls - 1
        /\ IF polls = 0 THEN Fail("TIMEOUT") /\ late' = TRUE
                        ELSE UNCHANGED <<pc, ret, late>>
     \/ /\ ~Busy /\ err
        /\ Fail("HARDWARE")
        /\ UNCHANGED <<polls, late>>
     \/ /\ ~Busy /\ ~err /\ done
        /\ pc' = "read"
        /\ UNCHANGED <<polls, ret, late>>
  /\ engine' = Tick
  /\ UNCHANGED <<call, kind, source, req, job, regs, output, flags>>

\* Mutant: the poll counter is not advanced while BUSY.
PollForever ==
  /\ pc = "poll"
  /\ \/ /\ Busy \/ ~(done \/ err)
        /\ UNCHANGED <<pc, polls, ret, late>>
     \/ /\ ~Busy /\ err
        /\ Fail("HARDWARE")
        /\ UNCHANGED <<polls, late>>
     \/ /\ ~Busy /\ ~err /\ done
        /\ pc' = "read"
        /\ UNCHANGED <<polls, ret, late>>
  /\ engine' = Tick
  /\ UNCHANGED <<call, kind, source, req, job, regs, output, flags>>

Poll ==
  /\ pc = "poll"
  /\ \/ /\ Busy \/ ~(done \/ err)
        /\ polls' = polls - 1
        /\ IF polls = 1 THEN Fail("TIMEOUT") /\ late' = TRUE
                        ELSE UNCHANGED <<pc, ret, late>>
     \/ /\ ~Busy /\ err
        /\ Fail("HARDWARE")
        /\ UNCHANGED <<polls, late>>
     \/ /\ ~Busy /\ ~err /\ done
        /\ pc' = "read"
        /\ UNCHANGED <<polls, ret, late>>
  /\ engine' = Tick
  /\ UNCHANGED <<call, kind, source, req, job, regs, output, flags>>

\* OUTPUT, WRAPPED or task RAM is read and the call returns OK.
ReadResult ==
  /\ pc = "read"
  /\ pc' = "idle"
  /\ ret' = [status |-> "OK", job |-> output]
  /\ UNCHANGED <<call, kind, source, polls, req, hw, late>>

-------------------------------------------------------------------------------
(* The accelerator.                                                        *)

EngineGo ==
  /\ engine = "start"
  /\ engine' = "run"
  /\ UNCHANGED <<drv, req, job, regs, output, flags, late>>

\* Completion paths that report a START that came while busy.
ReportsBusy == pend /\ job.kind \in {"hash", "sec"}

\* The command completes; a security command may end with its own error.
Finish ==
  /\ engine = "run"
  /\ engine' = "idle"
  /\ output' = job
  /\ coefs' = IF job.kind = "coef" THEN job.input ELSE coefs
  /\ \/ ReportsBusy /\ done' = FALSE /\ err' = TRUE
     \/ ~ReportsBusy /\ done' = TRUE /\ err' = IF Shake /\ job.kind # "sec" THEN err ELSE FALSE
     \/ ~ReportsBusy /\ job.kind = "sec" /\ done' = Shake /\ err' = TRUE
  /\ UNCHANGED <<drv, req, job, args, input, pend, late>>

-------------------------------------------------------------------------------
(* Requests of the firmware.  A call's input stands for the request it was *)
(* made in; msg is the call number of the request's first call.            *)

Free == pc = "idle" /\ phase \in {"free", "batch", "single"}

\* A request that needs one command.
Single ==
  /\ Free
  /\ phase' = "single"
  /\ \E k \in Kind \ {"coef", "batch"} : Begin(k, "kept")
  /\ UNCHANGED <<msg, mem, coef_ready, hw, late>>

\* lmots_sign / lmots_verify_leaf: hw_coef_backend clears coef_ready first;
\* in keep mode the caller's coefficient buffer is not filled.
CoefCall ==
  /\ Free
  /\ phase' = "coef"
  /\ coef_ready' = FALSE
  /\ mem' = Unset
  /\ Begin("coef", "kept")
  /\ msg' = call'
  /\ UNCHANGED <<hw, late>>

CoefKept ==
  /\ pc = "idle"
  /\ phase = "coef"
  /\ ret.status = "OK"
  /\ coef_ready' = TRUE
  /\ phase' = "ready"
  /\ UNCHANGED <<drv, msg, mem, hw, late>>

\* Fallback: hash the message with HASH_ONCE ...
HashCall ==
  /\ pc = "idle"
  /\ phase = "coef"
  /\ ret.status # "OK"
  /\ phase' = "mhash"
  /\ Begin("hash", "kept")
  /\ UNCHANGED <<msg, mem, coef_ready, hw, late>>

\* ... or, if that fails too, in software; then checksum and coefficients.
\* The digest of the call's own input is the digest of the request's message.
HashDone ==
  /\ pc = "idle"
  /\ phase = "mhash"
  /\ phase' = "ready"
  /\ mem' = IF ret.status # "OK" \/ ret.job.input = call THEN msg ELSE Unset
  /\ UNCHANGED <<drv, msg, coef_ready, hw, late>>

\* Mutant: the backend ignores coef_ready and packs the caller's buffer.
BatchCallPacks ==
  /\ pc = "idle"
  /\ phase = "ready"
  /\ phase' = "batch"
  /\ coef_ready' = FALSE
  /\ Begin("batch", "buffer")
  /\ UNCHANGED <<msg, mem, hw, late>>

\* The sign or verify backend: kept coefficients are used once.
BatchCall ==
  /\ pc = "idle"
  /\ phase = "ready"
  /\ phase' = "batch"
  /\ coef_ready' = FALSE
  /\ Begin("batch", IF coef_ready THEN "kept" ELSE "buffer")
  /\ UNCHANGED <<msg, mem, hw, late>>

-------------------------------------------------------------------------------
Driver == Clear \/ PrepareStatus \/ WriteArgs \/ WriteInput \/ Start \/ Poll
          \/ ReadResult

Request == Single \/ CoefCall \/ CoefKept \/ HashCall \/ HashDone \/ BatchCall

Accelerator == EngineGo \/ Finish

Next == Driver \/ Request \/ Accelerator

Spec == Init /\ [][Next]_vars

\* The driver's loops run; the accelerator need not answer.
FairSpec == Spec /\ WF_vars(Driver)

-------------------------------------------------------------------------------
(* Properties.                                                             *)

Status == {"OK", "SOFT", "PROTOCOL", "HARDWARE", "INVALID", "TIMEOUT"}

FlagOK ==
  /\ coef_ready \in BOOLEAN
  /\ done \in BOOLEAN
  /\ err \in BOOLEAN
  /\ pend \in BOOLEAN
  /\ late \in BOOLEAN

ValueOK ==
  /\ pc \in {"idle", "clear", "status", "args", "input", "start", "poll", "read"}
  /\ call \in Id
  /\ kind \in Kind
  /\ source \in {"kept", "buffer"}
  /\ polls \in 0..Polls
  /\ pc # "idle" => polls > 0
  /\ ret \in [status : Status, job : Job]
  /\ phase \in {"free", "single", "coef", "mhash", "ready", "batch"}
  /\ msg \in Id
  /\ mem \in Id \cup {Unset}
  /\ engine \in {"idle", "start", "run"}
  /\ job \in Job
  /\ args \in Id \cup {Unset}
  /\ input \in Id \cup {Unset}
  /\ coefs \in Id \cup {Unset}
  /\ output \in Job

\* Types of the driver's and the accelerator's variables; the poll counter of
\* wait_for_result_n never passes zero.
TypeOK == FlagOK /\ ValueOK

Own(j) == j.kind = kind /\ j.args = call /\ j.input = call

\* A call that returns OK returns the result of the command it started, run
\* on the registers it wrote: neither the answer of an earlier command that
\* had timed out, nor a command made of two calls' registers.
OwnResult == pc = "idle" /\ ret.status = "OK" => Own(ret.job)

\* A signature (or verification) that is returned was made with the
\* coefficients of its own request, whether they were kept in hardware or
\* packed by the driver after a fallback.
OwnCoefficients ==
  pc = "idle" /\ phase = "batch" /\ ret.status = "OK" => ret.job.coefs = msg

\* prepare_command reports ERR_HARDWARE only while a command that a call gave
\* up on was still in the accelerator; an ordinary error or result of the
\* previous call never makes the next one fail.
RefusalNeedsTimeout ==
  [][pc = "status" /\ pc' = "idle" /\ ret'.status = "HARDWARE" => late]_vars

\* No register window is written, and no START given, while a command runs:
\* the driver never relies on a write that the hardware drops.
NoDroppedWrite ==
  pc \in {"args", "input", "start"} => ~Busy

\* Every call returns, even if the accelerator never answers.
CallReturns == pc # "idle" ~> pc = "idle"

-------------------------------------------------------------------------------
(* The inductive invariants: MmioInv for the results, with LateInv for the *)
(* refusals.                                                               *)

\* The command the call in progress started has completed without error.
Answered == (pc = "poll" /\ engine = "idle" /\ ~err) \/ pc = "read"

\* Between STATUS = 0 and START the accelerator is the driver's alone; after
\* START it works for this call until it has answered.
DriverInv ==
  /\ engine = "start" => pc = "poll"
  /\ pc \in {"args", "input", "start"} => engine = "idle" /\ ~done /\ ~err
  /\ pc \in {"input", "start"} => args = call
  /\ pc = "start" => input = call
  /\ pc = "poll" /\ engine # "idle" => Own(job) /\ ~done
  /\ pc = "read" => engine = "idle"
  /\ Answered => Own(output)

\* Where the coefficients of the request are while it is served.
CoefInv ==
  /\ coef_ready => phase = "ready"
  /\ phase = "coef" => kind = "coef" /\ msg = call
  /\ phase = "coef" /\ (Answered \/ (pc = "idle" /\ ret.status = "OK")) =>
       engine = "idle" /\ coefs = msg
  /\ phase = "ready" =>
       /\ pc = "idle"
       /\ IF coef_ready THEN engine = "idle" /\ coefs = msg ELSE mem = msg
  /\ phase = "batch" => kind = "batch"
  /\ phase = "batch" /\ pc \in {"clear", "status", "args", "input"} =>
       IF source = "buffer" THEN mem = msg ELSE engine = "idle" /\ coefs = msg
  /\ phase = "batch" /\ pc = "start" => coefs = msg
  /\ phase = "batch" /\ pc = "poll" /\ engine # "idle" => job.coefs = msg
  /\ phase = "batch" /\ Answered => output.coefs = msg

MmioInv == TypeOK /\ DriverInv /\ CoefInv /\ OwnResult /\ OwnCoefficients

\* The accelerator outlives a call only after a timeout, and the CLEAR of a
\* call that inherits no running command leaves STATUS zero.
LateInv ==
  /\ engine = "start" => ~err
  /\ pc # "poll" /\ ~late => engine = "idle"
  /\ pc = "status" /\ ~late => ~done /\ ~err
===============================================================================
