------------------------------- MODULE SecState -------------------------------
(***************************************************************************)
(* The security state domain of the SecLMS firmware (fw/lms_sec_state.c)   *)
(* together with the registers of the hardware security engine it drives   *)
(* (rtl/lms_sha256_sec.v): the monotonic counter sim_mc, the key slots     *)
(* K_WRAP and K_STATE and the SEED slot.                                   *)
(*                                                                         *)
(* The firmware is one thread without interrupts, so every handler runs to *)
(* completion before the next request.  A handler is one action, except    *)
(* sec_sign and the conservative burn of sec_boot, which take one step per *)
(* STATE_COMMIT.  Any MMIO command may fail: the accelerator may refuse    *)
(* it, or execute it although the polling client gave up (time-out).       *)
(*                                                                         *)
(* Left out because nothing but a response frame reads it: sec_slot_valid, *)
(* sec_boot_valid, sec_rec_diag, sec_keygen_pending, sec_helper and        *)
(* sec_key_index.  K_WRAP is always loaded right before it is used, so it  *)
(* needs no variable of its own.                                           *)
(***************************************************************************)
EXTENDS Integers, Sequences

CONSTANTS
  Deploy,     \* TRUE: deploy build; FALSE: LMS_FW_SEC_TEST_MODE build
  Fused,      \* TRUE: CAP_STATE_COMMIT platform; FALSE: two-step fallback
  HmacFaults, \* TRUE: a record check of BOOT may fail on a good record
  MaxCtrs,    \* the values 2^h a caller may pass to sec_sign as max_ctr
  UartCtrs,   \* the ctr arguments the host may put in a UART COMMIT
  CtrMod,     \* 2^32 in the code: width of the leaf counter
  McMod,      \* 2^32 in the code: width of sim_mc
  MaxRnd      \* bound on the keys the TRNG (or, in test, the host) supplies

ASSUME SecStateAssumption ==
  /\ Deploy \in BOOLEAN
  /\ Fused \in BOOLEAN
  /\ HmacFaults \in BOOLEAN
  /\ CtrMod \in Nat \ {0}
  /\ McMod \in Nat \ {0}
  /\ MaxRnd \in Nat \ {0}
  /\ MaxCtrs \subseteq 0..(CtrMod - 1)     \* 2^h, h <= 25, in a 32-bit word
  /\ UartCtrs \subseteq 0..(CtrMod - 1)

VARIABLES
  slots,           \* sec_slots: the two STATE_RECs, A = 0 and B = 1
  active,          \* sec_active_slot
  state,           \* sec_state
  ctr,             \* sec_ctr, the next leaf to use
  last_tx,         \* sec_last_tx
  factory_locked,  \* sec_factory_locked
  key_loaded,      \* sec_key_loaded
  key_I,           \* sec_key_I; 0 is the all-zero identifier
  wrapped,         \* sec_wrapped_blob and sec_wrapped_valid
  sim_mc,          \* hardware monotonic counter
  kstate,          \* the I the K_STATE slot was derived from, or NoKey
  seed,            \* SEED slot; 0: not loaded
  rnd,             \* identifiers drawn so far; rnd + 1 was never used before
  pc,              \* where the handler in progress stands
  q,               \* the leaf sec_sign works on; 0 outside it
  log              \* history: the one-time keys whose signature was released

recVars == <<slots, active, last_tx>>
ramVars == <<factory_locked, key_loaded, key_I, wrapped>>
hwKeys  == <<kstate, seed>>
vars == <<recVars, state, ctr, ramVars, sim_mc, hwKeys, rnd, pc, q, log>>

Slot == 0..1
NoKey == -1
HwState == {"ERROR_LOCKED", "IDLE", "RESERVED", "KEYGEN_PENDING",
            "EXHAUSTED", "BOOTING"}

-------------------------------------------------------------------------------
(* Records.  A tag is the pair (K_STATE, slot) it was computed with; flip  *)
(* says that its first byte was inverted by the fault-injection command.   *)

STATE_REC(st, c, tx, key, s) ==
  [magic |-> TRUE, state |-> st, ctr |-> c, tx |-> tx,
   key |-> key, aad |-> s, flip |-> FALSE]

\* An erased slot.  The code of ERROR_LOCKED is 0.
ZeroRec ==
  [magic |-> FALSE, state |-> "ERROR_LOCKED", ctr |-> 0, tx |-> 0,
   key |-> 0, aad |-> 0, flip |-> FALSE]

Body(r) == <<r.magic, r.state, r.ctr, r.tx>>

\* rec_valid under the K_STATE derived from I, when the HMAC command works.
rec_valid(s, I) ==
  /\ slots[s].magic
  /\ slots[s].key = I
  /\ slots[s].aad = s
  /\ ~slots[s].flip

slots_all_zero == \A s \in Slot : slots[s] = ZeroRec

\* Mutant: a RESERVED record is resumed at its own leaf.
RecoveredUnburned(r) == r.ctr

\* The leaf counter BOOT recovers from a record: RESERVED burns its leaf.
Recovered(r) == IF r.state = "RESERVED" THEN (r.ctr + 1) % CtrMod ELSE r.ctr

-------------------------------------------------------------------------------
(* STATE_COMMIT.                                                           *)

\* The value sim_mc takes: the fused command wraps, MC_STEP saturates.
NextTx ==
  IF Fused THEN (sim_mc + 1) % McMod
           ELSE IF sim_mc = McMod - 1 THEN sim_mc ELSE sim_mc + 1

\* Mutant: an index that runs off the pair.
inactiveOffByOne == active + 1

inactive == 1 - active

\* Mutants: no check of tx against last_tx, a check that lets an equal tx
\* through, and no switch of the active slot.
CommitOkAnyTx(st, c) ==
  /\ kstate # NoKey
  /\ sim_mc' = NextTx
  /\ slots' = [slots EXCEPT ![inactive] = STATE_REC(st, c, NextTx, kstate, inactive)]
  /\ active' = inactive /\ last_tx' = NextTx /\ state' = st /\ ctr' = c

CommitOkEqualTx(st, c) ==
  /\ kstate # NoKey
  /\ NextTx >= last_tx
  /\ sim_mc' = NextTx
  /\ slots' = [slots EXCEPT ![inactive] = STATE_REC(st, c, NextTx, kstate, inactive)]
  /\ active' = inactive /\ last_tx' = NextTx /\ state' = st /\ ctr' = c

CommitOkNoSwitch(st, c) ==
  /\ kstate # NoKey
  /\ NextTx > last_tx
  /\ sim_mc' = NextTx
  /\ slots' = [slots EXCEPT ![inactive] = STATE_REC(st, c, NextTx, kstate, inactive)]
  /\ active' = active /\ last_tx' = NextTx /\ state' = st /\ ctr' = c

\* state_commit returns 1: the inactive slot is written and becomes active.
CommitOk(st, c) ==
  /\ kstate # NoKey
  /\ NextTx > last_tx
  /\ sim_mc' = NextTx
  /\ slots' = [slots EXCEPT ![inactive] = STATE_REC(st, c, NextTx, kstate, inactive)]
  /\ active' = inactive
  /\ last_tx' = NextTx
  /\ state' = st
  /\ ctr' = c

\* Mutant: the two-step commit takes over the new tx before the HMAC command.
CommitFailKeepsTx ==
  /\ sim_mc' = NextTx
  /\ last_tx' = NextTx
  /\ UNCHANGED <<slots, active, ctr>>

\* state_commit returns 0: the command is refused or times out (before or
\* after the counter moved), tx does not exceed last_tx, or, on the two-step
\* platform, the counter moved and the HMAC command failed.
CommitFail ==
  /\ sim_mc' \in {sim_mc, NextTx}
  /\ UNCHANGED <<slots, active, last_tx, ctr>>

-------------------------------------------------------------------------------
(* Key slots.                                                              *)

\* sec_load_hw_keys_i: K_WRAP first, then K_STATE.
LoadKeysOk(I) == kstate' = I

\* One of the loads failed; K_STATE may hold the new key all the same, when
\* the command was executed and the poll timed out.
LoadKeysFail(I) == kstate' \in {kstate, I}

Wrapped(I, sd) == [valid |-> TRUE, I |-> I, seed |-> sd]
NoBlob == [valid |-> FALSE, I |-> 0, seed |-> 0]

-------------------------------------------------------------------------------
(* What makes a one-time key: in deploy every key has a fresh SEED; in the *)
(* test build there is one SEED, and a key is as new as the I of the host. *)

SignKey == IF Deploy THEN seed ELSE key_I

OneTimeKey == [key : Nat, q : 0..(CtrMod - 1)]

\* The keys a later signature can still be made with: a deploy BOOT unwraps
\* the SEED of the blob.
LiveKeys ==
  IF Deploy THEN {seed} \cup (IF wrapped.valid THEN {wrapped.seed} ELSE {})
            ELSE {key_I}

-------------------------------------------------------------------------------
\* sec_init at power-up; the test firmware then preloads a SEED (main).
Init ==
  /\ slots = [s \in Slot |-> ZeroRec]
  /\ active = 0
  /\ state = "BOOTING"
  /\ ctr = 0
  /\ last_tx = 0
  /\ factory_locked = FALSE
  /\ key_loaded = FALSE
  /\ key_I = 0
  /\ wrapped = NoBlob
  /\ sim_mc = 0
  /\ kstate = NoKey
  /\ seed = IF Deploy THEN 0 ELSE 1
  /\ rnd = 1
  /\ pc = "idle"
  /\ q = 0
  /\ log = << >>

-------------------------------------------------------------------------------
(* sec_sign.                                                               *)

\* Entry gates passed, ctr at the cap: the state becomes EXHAUSTED, in RAM only.
SignExhausted ==
  /\ pc = "idle"
  /\ state = "IDLE"
  /\ key_loaded
  /\ \E max_ctr \in MaxCtrs : max_ctr = 0 \/ ctr >= max_ctr
  /\ state' = "EXHAUSTED"
  /\ UNCHANGED <<recVars, ctr, ramVars, sim_mc, hwKeys, rnd, pc, q, log>>

\* Reserve: commit RESERVED(q) before signing; on failure burn q.
SignReserve ==
  /\ pc = "idle"
  /\ state = "IDLE"
  /\ key_loaded
  /\ \E max_ctr \in MaxCtrs : ctr < max_ctr
  /\ q' = ctr
  /\ \/ CommitOk("RESERVED", ctr) /\ pc' = "dosign"
     \/ CommitFail /\ UNCHANGED state /\ pc' = "burn"
  /\ UNCHANGED <<ramVars, hwKeys, rnd, log>>

\* do_sign: the LM-OTS task on the SEED slot.
SignDo ==
  /\ pc = "dosign"
  /\ \/ seed # 0 /\ pc' = "commit"
     \/ pc' = "burn"
  /\ UNCHANGED <<recVars, state, ctr, ramVars, sim_mc, hwKeys, rnd, q, log>>

\* Mutant: the signature is released although the commit keeps leaf q.
SignReleaseSameLeaf ==
  /\ pc = "commit"
  /\ CommitOk("IDLE", q)
  /\ log' = Append(log, [key |-> SignKey, q |-> q])
  /\ pc' = "idle"
  /\ q' = 0
  /\ UNCHANGED <<ramVars, hwKeys, rnd>>

\* Commit IDLE(q+1), then release the signature of leaf q.
SignRelease ==
  /\ pc = "commit"
  /\ CommitOk("IDLE", (q + 1) % CtrMod)
  /\ log' = Append(log, [key |-> SignKey, q |-> q])
  /\ pc' = "idle"
  /\ q' = 0
  /\ UNCHANGED <<ramVars, hwKeys, rnd>>

SignCommitFail ==
  /\ pc = "commit"
  /\ CommitFail
  /\ pc' = "burn"
  /\ UNCHANGED <<state, ramVars, hwKeys, rnd, q, log>>

\* The conservative burn of a failed signature; its own failure is ignored.
SignBurn ==
  /\ pc = "burn"
  /\ \/ CommitOk("IDLE", (q + 1) % CtrMod)
     \/ CommitFail /\ UNCHANGED state
  /\ pc' = "idle"
  /\ q' = 0
  /\ UNCHANGED <<ramVars, hwKeys, rnd, log>>

-------------------------------------------------------------------------------
(* UART commands of sec_handle_uart_cmd that change state.                 *)

\* The transition whitelist, with the ctr it demands.
sec_uart_commit_allowed(st, c) ==
  \/ /\ state = "IDLE"
     /\ st \in {"RESERVED", "KEYGEN_PENDING", "IDLE", "EXHAUSTED"}
     /\ c >= ctr
  \/ state = "RESERVED" /\ st = "IDLE" /\ c > ctr
  \/ state = "KEYGEN_PENDING" /\ st = "IDLE" /\ c >= ctr

UartCommit ==
  /\ pc = "idle"
  /\ state \notin {"ERROR_LOCKED", "BOOTING"}
  /\ \E st \in HwState, c \in UartCtrs :
       /\ c >= ctr
       /\ sec_uart_commit_allowed(st, c)
       /\ \/ CommitOk(st, c)
          \/ CommitFail /\ UNCHANGED state
  /\ UNCHANGED <<ramVars, hwKeys, rnd, pc, q, log>>

\* INJECT_TAG, test build only.
UartInjectTag ==
  /\ pc = "idle"
  /\ ~Deploy
  /\ slots' = [slots EXCEPT ![active].flip = ~slots[active].flip]
  /\ UNCHANGED <<active, last_tx, state, ctr, ramVars, sim_mc,
                 hwKeys, rnd, pc, q, log>>

\* FACTORY_INIT, test build only, once: keys of a host-supplied I, the fixed
\* test SEED, the wrapped blob.  It leaves sec_state and the slots alone.
FactoryInit ==
  /\ pc = "idle"
  /\ ~Deploy
  /\ ~factory_locked
  /\ rnd < MaxRnd
  /\ rnd' = rnd + 1
  /\ key_I' = rnd + 1
  /\ \/ /\ LoadKeysFail(key_I')         \* a key load, the SEED load or the wrap failed
        /\ seed' \in {seed, 1}
        /\ UNCHANGED <<wrapped, factory_locked>>
     \/ /\ LoadKeysOk(key_I')
        /\ seed' = 1
        /\ wrapped' = Wrapped(key_I', 1)
        /\ factory_locked' = TRUE
  /\ UNCHANGED <<recVars, state, ctr, key_loaded, sim_mc, pc, q, log>>

-------------------------------------------------------------------------------
(* sec_boot.                                                               *)

\* The I a host hands to BOOT, compared with nothing: anything it has seen.
BootIds == 0..rnd

\* K_WRAP or K_STATE could not be loaded.
BootKeysFail ==
  /\ pc = "idle"
  /\ \E I \in BootIds : key_I' = I /\ LoadKeysFail(I)
  /\ state' = "ERROR_LOCKED"
  /\ UNCHANGED <<recVars, ctr, factory_locked, key_loaded,
                 wrapped, sim_mc, seed, rnd, pc, q, log>>

\* Deploy: the blob fails its tag, or the command fails.
BootUnwrapFail ==
  /\ pc = "idle"
  /\ Deploy
  /\ wrapped.valid
  /\ \E I \in BootIds :
       /\ key_I' = I
       /\ LoadKeysOk(I)
       /\ seed' \in {seed} \cup (IF wrapped.I = I THEN {wrapped.seed} ELSE {})
  /\ key_loaded' = TRUE
  /\ factory_locked' = TRUE
  /\ state' = "ERROR_LOCKED"
  /\ UNCHANGED <<recVars, ctr, wrapped, sim_mc, rnd, pc, q, log>>

\* Deploy builds unwrap the SEED; without a blob there is nothing to unwrap.
UnwrapOk(I) ==
  IF Deploy /\ wrapped.valid
    THEN wrapped.I = I /\ seed' = wrapped.seed
    ELSE UNCHANGED seed

\* Before slot selection: is the device known to be provisioned?
Provisioned == factory_locked \/ (Deploy /\ wrapped.valid)

\* Keys loaded and SEED restored.
BootKeys(I) ==
  /\ pc = "idle"
  /\ LoadKeysOk(I)
  /\ UnwrapOk(I)
  /\ key_I' = I
  /\ key_loaded' = TRUE

\* The slots BOOT takes as valid: a failing HMAC command loses a good one.
BootViews(I) ==
  LET good == {s \in Slot : rec_valid(s, I)}
  IN IF HmacFaults THEN SUBSET good ELSE {good}

Conflict(V) ==
  V = Slot /\ slots[0].tx = slots[1].tx /\ Body(slots[0]) # Body(slots[1])

\* Mutant: the record with the smaller tx is adopted.
ChosenOlder(V) == IF V = Slot THEN IF slots[0].tx >= slots[1].tx THEN 1 ELSE 0
                              ELSE IF 0 \in V THEN 0 ELSE 1

Chosen(V) == IF V = Slot THEN IF slots[0].tx >= slots[1].tx THEN 0 ELSE 1
                         ELSE IF 0 \in V THEN 0 ELSE 1

\* No valid slot, erased slots, provisioned device: start at leaf 0.
BootFresh ==
  /\ \E I \in BootIds : BootKeys(I)
  /\ Provisioned
  /\ slots_all_zero
  /\ state' = "IDLE"
  /\ ctr' = 0
  /\ factory_locked' = TRUE
  /\ UNCHANGED <<recVars, wrapped, sim_mc, rnd, pc, q, log>>

\* No valid slot on an unprovisioned device: wait for FACTORY_INIT.
BootWait ==
  /\ \E I \in BootIds : BootKeys(I) /\ {} \in BootViews(I)
  /\ ~Provisioned
  /\ state' = "BOOTING"
  /\ UNCHANGED <<recVars, ctr, factory_locked, wrapped,
                 sim_mc, rnd, pc, q, log>>

\* Written slots none of which validates, or two valid records of one tx
\* that differ: refuse service.
BootRefuse ==
  /\ \E I \in BootIds : \E V \in BootViews(I) :
       /\ BootKeys(I)
       /\ \/ V = {} /\ Provisioned /\ ~slots_all_zero
          \/ Conflict(V)
  /\ state' = "ERROR_LOCKED"
  /\ factory_locked' = Provisioned
  /\ UNCHANGED <<recVars, ctr, wrapped, sim_mc, rnd, pc, q, log>>

\* Adopt the valid record with the larger tx.  (The code also locks on an
\* authentic record of a fifth state; no commit writes one.)
Adopt(I, V) ==
  LET s == Chosen(V)
      rec == slots[s]
  IN /\ BootKeys(I)
     /\ ~Conflict(V)
     /\ active' = s
     /\ last_tx' = rec.tx
     /\ \/ /\ rec.state = "RESERVED"
           /\ state' = "BOOTING"
           /\ pc' = "bootburn"
           /\ factory_locked' = Provisioned
           /\ UNCHANGED ctr
        \/ /\ rec.state \in {"IDLE", "EXHAUSTED", "KEYGEN_PENDING"}
           /\ state' = rec.state
           /\ ctr' = rec.ctr
           /\ factory_locked' = TRUE
           /\ UNCHANGED pc
     /\ UNCHANGED <<slots, wrapped, sim_mc, rnd, q, log>>

BootAdopt == \E I \in BootIds : \E V \in BootViews(I) \ {{}} : Adopt(I, V)

\* Conservative burn of a RESERVED record.
BootBurn ==
  /\ pc = "bootburn"
  /\ pc' = "idle"
  /\ \/ /\ CommitOk("IDLE", Recovered(slots[active]))
        /\ factory_locked' = TRUE
     \/ /\ CommitFail
        /\ state' = "ERROR_LOCKED"
        /\ UNCHANGED factory_locked
  /\ UNCHANGED <<key_loaded, key_I, wrapped, hwKeys, rnd, q, log>>

-------------------------------------------------------------------------------
(* Key generation, reached through the UART only when a key is loaded.     *)

\* sec_keygen_key (0x67): deploy draws a new I for the SEED already in the
\* slot (all-zero when the TRNG failed); test keeps I.  Slots and ctr stay.
KeygenKey ==
  /\ pc = "idle"
  /\ key_loaded
  /\ \/ Deploy /\ rnd < MaxRnd /\ rnd' = rnd + 1 /\ key_I' = rnd'
     \/ Deploy /\ rnd' = rnd /\ key_I' = 0
     \/ ~Deploy /\ UNCHANGED <<rnd, key_I>>
  /\ \/ LoadKeysFail(key_I') /\ UNCHANGED wrapped     \* a load or the wrap failed
     \/ /\ LoadKeysOk(key_I')
        /\ seed # 0
        /\ wrapped' = Wrapped(key_I', seed)
  /\ UNCHANGED <<recVars, state, ctr, factory_locked, key_loaded,
                 sim_mc, seed, pc, q, log>>

\* sec_keygen_new (0x68) up to the point where the new SEED is in the slot:
\* TRNG failure or a failed SEED load zeroes sec_key_I and returns.
KeygenNewNoSeed ==
  /\ pc = "idle"
  /\ key_loaded
  /\ Deploy
  /\ rnd < MaxRnd
  /\ rnd' = rnd + 1
  /\ key_I' = 0
  /\ seed' \in {seed, rnd'}
  /\ UNCHANGED <<recVars, state, ctr, factory_locked, key_loaded,
                 wrapped, sim_mc, kstate, pc, q, log>>

\* The new I and, in deploy, the new SEED are in place.
NewKey ==
  /\ pc = "idle"
  /\ key_loaded
  /\ rnd < MaxRnd
  /\ rnd' = rnd + 1
  /\ key_I' = rnd'
  /\ seed' = IF Deploy THEN rnd' ELSE seed

\* Loading the key slots or wrapping fails: the old slots and ctr stay.
KeygenNewHalf ==
  /\ NewKey
  /\ LoadKeysFail(key_I')
  /\ UNCHANGED <<recVars, state, ctr, factory_locked, key_loaded,
                 wrapped, sim_mc, pc, q, log>>

\* Success: slots erased, counters reset.
KeygenNew ==
  /\ NewKey
  /\ LoadKeysOk(key_I')
  /\ seed' # 0
  /\ wrapped' = Wrapped(key_I', seed')
  /\ slots' = [s \in Slot |-> ZeroRec]
  /\ active' = 0
  /\ state' = "IDLE"
  /\ ctr' = 0
  /\ last_tx' = 0
  /\ key_loaded' = TRUE
  /\ factory_locked' = TRUE
  /\ UNCHANGED <<sim_mc, pc, q, log>>

-------------------------------------------------------------------------------
(* Reload of the persistent domain by the host, used by SecSystem.         *)

\* NVM_LOAD: the slot is copied unchecked; BOOT validates it later.
NvmLoad(s, rec) ==
  /\ pc = "idle"
  /\ slots' = [slots EXCEPT ![s] = rec]
  /\ UNCHANGED <<active, last_tx, state, ctr, ramVars, sim_mc, hwKeys, rnd,
                 pc, q, log>>

\* MC_LOAD: the hardware takes the maximum.
McLoad(v) ==
  /\ pc = "idle"
  /\ sim_mc' = IF v > sim_mc THEN v ELSE sim_mc
  /\ UNCHANGED <<recVars, state, ctr, ramVars, hwKeys, rnd, pc, q, log>>

\* WRAP_LOAD: the blob is trusted until BOOT unwraps it.
WrapLoad(blob) ==
  /\ pc = "idle"
  /\ wrapped' = blob
  /\ UNCHANGED <<recVars, state, ctr, factory_locked, key_loaded, key_I, sim_mc,
                 hwKeys, rnd, pc, q, log>>

-------------------------------------------------------------------------------
Sign == SignExhausted \/ SignReserve \/ SignDo \/ SignRelease \/ SignCommitFail
        \/ SignBurn

Boot == BootKeysFail \/ BootUnwrapFail \/ BootFresh \/ BootWait \/ BootRefuse
        \/ BootAdopt \/ BootBurn

Keygen == KeygenKey \/ KeygenNewNoSeed \/ KeygenNewHalf \/ KeygenNew

Next == Sign \/ Boot \/ Keygen \/ UartCommit \/ UartInjectTag \/ FactoryInit

Spec == Init /\ [][Next]_vars

-------------------------------------------------------------------------------
(* Properties.                                                             *)

Rec == [magic : BOOLEAN, state : HwState, ctr : 0..(CtrMod - 1), tx : Nat,
        key : Nat, aad : Slot, flip : BOOLEAN]

Blob == [valid : BOOLEAN, I : Nat, seed : Nat]

\* Types of the variables of lms_sec_state.c and of the hardware registers.
TypeOK ==
  /\ slots \in [Slot -> Rec]
  /\ active \in Slot
  /\ state \in HwState
  /\ ctr \in 0..(CtrMod - 1)
  /\ last_tx \in Nat
  /\ factory_locked \in BOOLEAN
  /\ key_loaded \in BOOLEAN
  /\ key_I \in Nat
  /\ wrapped \in Blob
  /\ sim_mc \in Nat
  /\ kstate \in Nat \cup {NoKey}
  /\ seed \in Nat
  /\ rnd \in Nat
  /\ pc \in {"idle", "dosign", "commit", "burn", "bootburn"}
  /\ q \in 0..(CtrMod - 1)
  /\ log \in Seq(OneTimeKey)

\* The host never asks COMMIT for the largest 32-bit counter value.
HostBelowTop == UartCtrs \subseteq 0..(CtrMod - 2)

\* sec_sign, whatever fails and however often BOOT, COMMIT and KEYGEN run in
\* between, releases the leaves of a key in strictly increasing order: no
\* one-time key is used twice.
LeavesIncrease ==
  \A i, j \in DOMAIN log :
    i < j /\ log[i].key = log[j].key => log[i].q < log[j].q

\* "Release(sigma_q) => Committed(CTR >= q+1)", for each slot alone: whichever
\* of the two records BOOT adopts, the counter it recovers is past every leaf
\* released with a key that can still sign.  One slot may be lost.
SlotsCoverReleases ==
  \A i \in DOMAIN log : log[i].key \in LiveKeys =>
    \A s \in Slot : slots[s].magic /\ log[i].q < Recovered(slots[s])

\* "Larger tx wins" never loses progress: of two written slots the one with
\* the larger tx has the larger counter, and no two slots share a tx.
TxOrdersCounters ==
  \A s, t \in Slot : s # t /\ slots[s].magic /\ slots[t].magic =>
    /\ slots[s].tx # slots[t].tx
    /\ slots[s].tx < slots[t].tx => slots[s].ctr <= slots[t].ctr

\* While the device serves requests its RAM snapshot is the active record:
\* a BOOT that reads that slot resumes at the same counter, or past it.
SnapshotIsActiveRecord ==
  pc = "idle" /\ state \in {"IDLE", "RESERVED", "KEYGEN_PENDING"} /\ slots[active].magic =>
    /\ slots[active].tx = last_tx
    /\ slots[active].ctr = ctr
    /\ slots[active].state = state

-------------------------------------------------------------------------------
(* The inductive invariant behind LeavesIncrease and SlotsCoverReleases.   *)

\* Leaves released with a live key are below the counter of the snapshot.
LiveBelowCtr ==
  \A i \in DOMAIN log : log[i].key \in LiveKeys => log[i].q < ctr

\* What holds between the steps of sec_sign and of the burn in sec_boot.
HandlerSteps ==
  /\ pc \in {"dosign", "commit", "burn"} => ctr = q /\ q < CtrMod - 1
  /\ pc \in {"dosign", "commit"} =>
       /\ slots[active].magic
       /\ slots[active].state = "RESERVED"
       /\ slots[active].ctr = q
  /\ pc = "bootburn" => slots[active].magic

\* Every key in use was drawn before, so the next one drawn is new.
KeysKnown ==
  /\ rnd \in 1..MaxRnd
  /\ key_I <= rnd
  /\ seed <= rnd
  /\ wrapped.seed <= rnd
  /\ \A i \in DOMAIN log : log[i].key <= rnd

SafetyInv ==
  /\ TypeOK
  /\ KeysKnown
  /\ HandlerSteps
  /\ LiveBelowCtr
  /\ SlotsCoverReleases
  /\ LeavesIncrease

-------------------------------------------------------------------------------
\* The signer refines the abstract one-time signer.
OTS == INSTANCE OneTimeSigner WITH Keys <- 0..MaxRnd, Leaves <- 0..(CtrMod - 1)
OneTimeSignerSpec == OTS!Spec
===============================================================================
