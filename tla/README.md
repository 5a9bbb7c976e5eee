# SecLMS in TLA+

SecLMS is a hardware/software implementation of the stateful signature scheme
LMS: RV32 firmware (`fw/`), a portable LMS library (`src/`), a hash accelerator
and a security engine (`rtl/`). An LMS key is a numbered set of one-time keys.
The one thing that must never happen is that the same leaf `q` of the same key
signs two messages; the second is that a signature is composed of parts that do
not belong together. Both are questions about what is kept between requests,
about failing hardware commands and about restarts, so they are what this
project models.

Contents: [inventory](#inventory), [modules](#modules-and-how-they-follow-the-code),
[runs](#runs-and-bounds), [fairness](#fairness), [proofs](#proofs),
[disagreements between code and documentation](#disagreements-between-code-and-documentation),
[not modelled](#not-modelled), [plan](#plan).

## Inventory

| Component | State it keeps | Operations | Interacts with |
|---|---|---|---|
| Security state domain, `fw/lms_sec_state.c` | two authenticated records (slots A, B), active slot, RAM snapshot (state, counter, tx), provisioning flags, key identifier I, wrapped SEED | `sec_sign`, `sec_boot`, `sec_keygen_key`, `sec_keygen_new`, UART COMMIT, FACTORY_INIT, INJECT_TAG, NVM_LOAD, MC_LOAD, WRAP_LOAD | driver (HMAC, wrap, counter), host over UART |
| Security engine, `rtl/lms_sha256_sec.v` | counter `sim_mc`, key slots K_WRAP and K_STATE, SEED slot | MC_STEP, MC_LOAD, STATE_COMMIT, HMAC, WRAP, UNWRAP, slot loads | driver |
| Persistence, `fw/lms_soc_smoke.c` (NVM_SYNC) and the host files | mirror of the active record; the host's copy | export, fetch, reload after power-up | security state domain |
| Accelerator driver, `src/lms_mmio.c` | `coef_ready`, poll budget | one call per hardware command: clear, check, write, start, poll, read | accelerator |
| Accelerator wrappers, `rtl/lms_shake256_mmio.v`, `rtl/lms_sha256_mmio.v` | registers, windows, task RAM, coefficients, status flags | START, CLEAR, completion | driver, engine |
| Request handlers, `fw/lms_soc_smoke.c` | `s_seed_slot`, two tree caches, task RAM contents, `s_msg_in_ram`, `sign_y_in_taskram`, registered back ends | sign, verify, key generation, SEED load, secure requests | all of the above |
| Merkle subtrees, `src/lms_subtree.c` | per level an active and an upcoming subtree with its nodes, stack and segment | configure, build, stream, rebuild (advance), path, root | LM-OTS key generation in hardware |
| LMS, LM-OTS, `src/lms*.c`, `src/lm_ots.c` | leaf number q | sign, verify, key generation | hash back ends |
| HSS, `src/hss.c` | per level generation, LMS key and certificate | key generation, sign with refresh of exhausted levels, verify | LMS |
| Coprocessor helper, `src/lms_coprocess.c` | a full tree | build, root, path, verify | LMS |
| Transport: UART bridge, UART, USB mailbox with two dual-clock FIFOs, host script | byte counters, FIFO pointers and their synchronised copies | receive to task RAM, send from task RAM, push and pop by the host | handlers |
| Random sources | health flags, conditioning buffer | draw a word | key generation |

What is hard here:

* **Failure between steps.** One signature needs two record commits and a
  hardware signature. Every hardware command can be refused, can end in an
  error, or can be executed although the polling driver has given up.
* **Restart.** All device state is volatile. After power-up the device knows
  what the host has fetched before, and the host only fetches at the end of a
  command.
* **Two records, one winner.** BOOT adopts the valid record with the larger
  `tx`; either record may be unreadable.
* **Late answers.** A command that timed out goes on running while the next
  call clears, checks, writes and starts.
* **Caches.** A tree costs thousands of hash chains and is kept between
  requests under a short fingerprint; the SEED in the hardware slot is tracked by
  a copy; the task RAM is used by message, signature and tree building in turn.
* **Flags that outlive their request.** Message, coefficients and chain values
  stay in the accelerator and its task RAM; flags of the firmware say whose they are.
* **Copies that are dropped.** `hss_sign` works on a copy of the key; a failure
  drops a copy whose leaves have signed already.
* **Two clocks.** A byte to or from the host crosses from the SoC clock to the USB
  clock, and both sides decide on pointers that are two edges old.
* **Widths.** Counter and `tx` are 32-bit and wrap or saturate; task RAM regions
  touch at lengths 74, 1994 and 2048 and at places that depend on w.

The firmware is one thread without interrupts and serves one request at a time.
Concurrency is between firmware and accelerator, between firmware and UART
bridge, between the two clocks of the mailbox, between device and host, and
between any of them and loss of power.

`PROJECT.json` lists the hazards line by line with the property that covers each.

## Modules and how they follow the code

| Module | Models | Extends / uses |
|---|---|---|
| `OneTimeSigner` | abstract: releases leaves of a key in increasing order | |
| `SecState` | security state domain with the engine registers it drives | instance of `OneTimeSigner` |
| `SecSystem` | the above with host store, mirror and power loss | extends `SecState` |
| `MmioDriver` | driver and bus side of the accelerator, kept coefficients | |
| `TreeCache` (`MCTree`) | request handlers: SEED slot and tree caches | |
| `OtsRequests` (`MCRequests`) | request handlers: where message, coefficients and y travel | |
| `Hss` (`MCHss`) | `hss.c` | |
| `Winternitz` | digits, checksum and chains of LM-OTS | |
| `LmsTree` (`MCLmsTree`) | subtrees, recursion, coprocessor helper, signing and verification | extends `Winternitz` |
| `AsyncFifo` | the dual-clock FIFO | |
| `Transport` (`MCTransport`) | firmware, bridge, UART line, mailbox, host | extends `AsyncFifo` |
| `SecStateProofs`, `MmioDriverProofs`, `TreeCacheProofs`, `OtsRequestsProofs`, `HssProofs`, `AsyncFifoProofs` | theorems | extend their module |
| `SecSystemProofs` | theorems | extends `SecSystem` and `SecStateProofs` |
| `TransportProofs` | theorems | extends `Transport` and `AsyncFifoProofs` |

### SecState

Variables have the names of the static variables in `lms_sec_state.c` without
the prefix `sec_`; `sim_mc`, `kstate` and `seed` are registers of
the engine. A record's tag is abstracted to what it was computed with: the
K_STATE (named by the I it was derived from) and the slot, which is part of the
authenticated data; `rec_valid` compares exactly these. Handlers are atomic,
except that `sec_sign` is split at its two commits and the hardware signature, and
`sec_boot` at the burn of a RESERVED record: these are the points where a
restart of the device would see something different.

`state_commit` is `CommitOk` or `CommitFail`. `CommitFail` includes the case in
which the counter moved and the caller never learned of it. `BootViews` lets a
record check fail on a good record, because the HMAC command behind it can fail.
`log` is a history of the released one-time keys; no action reads it. In a
deploy build the one-time key is the SEED; in a test build the host supplies I,
so the key is I. BOOT takes any I the host has seen, in either build; in a test
build the host may name the same key again after a rotation erased its records, so
`LeavesIncrease` and `SlotsCoverReleases` are properties of the deploy build.

`sec_slot_valid`, `sec_boot_valid`, `sec_rec_diag`, `sec_keygen_pending`,
`sec_helper` and `sec_key_index` only feed response frames and are left out.

### SecSystem

Adds the NVM_SYNC mirror, the files of the host and `PowerLoss`, which resets
everything but the host. A fetch is four requests, GET_STATE for the slot and
three parts of the mirror (`HostFetch`), and then the host stores the record
(`HostStore`); power may fail between any two, in which case the host stores nothing.
The host reloads in the order of the power loss tests in
`tests/rtl/test_lms_soc.cpp` (counter, slots, then the blob) and sends BOOT.
`unfetched` says that a signature was released and its record not stored since.
`WindowLoss = FALSE` is the assumption of the passing run: power does not fail
in that window. With `TRUE` the released leaf is not in any persistent copy and is
signed again, since the device keeps nothing across a restart; nothing in the code
could prevent it. `LmsSign` selects the command the host signs with.

### MmioDriver

One action per bus access of a call: CLEAR, STATUS, argument registers, input
window, START, each poll, the read. Between any two the accelerator may take
a step. A window's content is the number of the call that wrote it; a result is
the job it was computed from, so "my result" is the equality of
numbers. Call numbers wrap at `CallMod`; three are enough to tell the current
call, the one before it that may still run, and a third. `Shake` selects the
platform: the wrappers differ in whether the start cycle counts as busy, in
clearing flags at START and in remembering a START that came while busy.
The firmware's requests are `Single` (one command) and the LM-OTS sequence in
which MSG_Q_COEF leaves the coefficients in hardware for the batch command, with
its two fallbacks.

### TreeCache

A request is a few steps because the handlers differ in the order of load, build
and sign. A tree node is abstracted to the I, SEED and parameter set it was
computed from; a tall tree has a top and one bottom subtree that covers one of
two segments. The two caches of the firmware share one arena, so there is one
`arena` and two fingerprints. Both builds serve both kinds of requests in any
order, and every hardware call may fail; a load that failed may have been carried
out. `FactoryInit` and `SecKeygenNewReq` have the paths that return after the SEED
was switched. A 0x66 takes its I from the frame, as the firmware does. `blobs` are
the wrapped SEEDs the host keeps and may give to BOOT.

The code is written for one SEED and one key in a session and does not enforce it.
Three histories record where a session leaves that ground:
`seedsOf` (the SEEDs an I was used with; only the draw of a new I reads it), `taint` (why a cache or the copy
`s_seed_slot` may be wrong) and `doubt` (why the response of this request may be).
The reasons are

| Reason | Where it arises |
|---|---|
| `load` | a SEED_LOAD fails or times out and the request goes on (`fw_seed_load`'s result is ignored) |
| `factory` | FACTORY_INIT writes the slot beneath `s_seed_slot` |
| `seed` | a tree is built while another SEED is in the slot: 0x53 builds before it loads, or the load was in doubt |
| `crossed` | the other cache was built, or its bottom subtree rebuilt, in the shared arena |
| `advance` | a rebuild of this cache failed half way, after `subtree_reset_to` moved the segment |
| `id` | a secure request hits a cache under an I that was used with two SEEDs |

A property excuses a response only for such a reason; that the list is complete
is what the runs and the proofs show. It does not matter to `SeedOfKey`
what the caches did, so its exceptions are `load` and `factory` alone. The
message of a signature is `OtsRequests`' subject.

### OtsRequests

The six requests that sign or verify, each from its frame to its reply, in any
order. `TreeCache` asks whose *tree* is used; this module asks whose *message*,
*coefficients* and *y*. The task RAM is the set of objects that are intact in it,
at their real word addresses; a write removes what it touches, so an overlap
shows as a read that finds nothing. `kept` are the coefficients MSG_Q_COEF left
in the hardware (`coef_ready`). `Forms` lists what is wrong with a request;
each form returns where the handler returns, with the flags as they are then.
Bridge and hardware calls may fail (`Faults`); a bridge error is raised before a
byte is consumed, as the hardware does. Every type in the parameter table has a
w the hardware supports, so `set_hw_lmots(0)` is unreachable and left out;
so is the pure-software build (`LMS_FW_NO_HW_ACCEL`), which uses no task RAM.

### Hss

A key is the pair of level and generation it is derived from. The caller's key
(`gen`, `q`, `cert`) and the copy (`wgen`, `wq`, `wcert`) are separate; a call is
one step per level it rebuilds, so that a failure may drop the copy after any
certificate. `refresh_level_if_exhausted` is recursive and, because every
outer call rebuilds its level once more after the recursion returned, visits
levels repeatedly: `NextRebuild` is that order. `signed` collects every
one-time signature that was computed: those in dropped copies, and those of the
message that a failed `lms_sign` left in the caller's buffer (`ReturnNothing`; the
one-time signature is written before the path, `lms_sign.c:51-63`). `returned` are
the message signatures of calls that succeeded. `OneTimeLeaves` is about all of
`signed`: two contents on one leaf happen only on the bottom level, where a call
failed after it had signed, and never with both returned. A caller that sends
the buffer of a failed call gives that up.

### Winternitz and LmsTree

`Winternitz` has the real sizes: 32-byte digests, the table's p and ls, digits
from the high end of a byte, a checksum cut to 16 bits. The value of a chain is
its position. `LmsTree` follows `lms_subtree.c` node by node: `Climb` is the
stack of `lms_tree_add_next_node`, `LocalToGlobal` the index arithmetic,
`BuildAt`/`BuildRoots` the recursion through the levels, `Stream` the key
generation that carries roots upwards. A hash value is the number of the node it
is the genuine value of, so comparing a root with 1 compares the whole
computation with the definition of a Merkle tree. A call may fail at a named
hash or a counted allocation.

### AsyncFifo and Transport

`AsyncFifo` is `lms_cw305_afifo.v`: a step is an edge of either clock or
of both. Codes are computed as in the source (`Gray`, `gray2bin`,
`TurnedOnce`); `GrayCodes` and `OneBitChanges` state what the FIFO needs of
them and are evaluated by TLC as assumptions, for ADDRW = 2 in every run of
`MCTransport` and once for the 256 entries of the board (ADDRW = 8).
`Transport` puts the FIFO between the mailbox's registers of both clocks and
adds the line, the bridge's states one per clock edge, the firmware's loops and
the host's register accesses. A transfer starts with bytes the processor moves
itself, so the handover of the UART to the bridge and back is part of it. The
processor and the host may pause at any edge. Resets, the bit timing of the line
(a byte takes `Frame` edges and the transmitter is ready `Gap` edges after
the receiver) and skew between the bits of a code are left out.

## Runs and bounds

| Run | Module / cfg | Distinct states | Shows |
|---|---|---|---|
| `secstate_deploy` | SecState, MCSecStateDeploy | 2.4 M | deploy build, fused commit: `LeavesIncrease`, `SlotsCoverReleases`, `TxOrdersCounters`, `SnapshotIsActiveRecord` |
| `secstate_test` | SecState, MCSecStateTest | 2.2 M | test build, two-step commit: `TxOrdersCounters`, `SnapshotIsActiveRecord` with a counter that saturates |
| `secsystem` | SecSystem, MCSecSystem | 824 k | two power losses: `HostCoversReleases`, and the refinement `OneTimeSignerSpec` |
| `mmio` | MmioDriver, MCMmio | 350 k | `OwnResult`, `OwnCoefficients`, `NoDroppedWrite`, `RefusalNeedsTimeout`, `CallReturns` |
| `tree` | MCTree | 1.8 M | `SeedOfKey`, `PathOfKey`, `RootOfKey`: both builds, both kinds of requests, key rotation, BOOT, FACTORY_INIT and every failure |
| `requests` | MCRequests | 157 k | `Verdict`, `OwnSignature`, `ClaimIsRefused`: all signing and verifying requests in any order, both builds |
| `hss` | MCHss | 524 k | `OneTimeLeaves`, `ReturnedVerifies`, `CertificateIsNoMessage`, `ExhaustedForReal`, `NeverBack` |
| `lms` | MCLmsTree | 10 k | `RootsAgree`, `CacheMatchesSegment`, `OwnSignatureAccepted`, `NoOtherMessage`, `MemoryAccounted`, `ConfigurationBest` |
| `transport` | MCTransport | 206 k | `Conservative`, `HeadIsOldest`, `NoLoss`, `InOrder`, `StoredWhenDone`, `Completes` |
| `lms_sign_not_exported`, `stale_message`, `shared_arena` | SecSystem, OtsRequests, TreeCache | | disagreements, see below |

Bounds and why the interesting cases fit:

* `CtrMod = 4`, `MaxCtrs = {2}`: a key has two leaves, and the counter has room
  for the exhausted value and for the top value that wraps. `UartCtrs` are the
  arguments of a COMMIT; 1 skips leaf 0 or repeats the counter, 2 exhausts the
  key, and the burn of a RESERVED record with 2 reaches the top value 3 without
  wrapping. 3 itself is excluded, see below.
* `McMod = 5` or `6`: four or five commits reach the top of `sim_mc`, so saturation and
  wrap-around both occur after every shorter history.
* `MaxRnd = 3`: two identifiers are drawn, so that three keys meet: one whose
  records are in the slots, one in the blob and one in the SEED slot.
* `Polls = 2`: a poll that fails and one that ends in a time-out.
* `MaxLoss = 2`: a restart from the host's files, and one from files written
  after a restart.
* `tree`: two identifiers and two SEEDs, one short and one tall parameter
  set: every pair of keys that agree in one part and differ in another. The
  constraint `FewCauses` follows a session while at most `MaxCauses = 1` cache, copy or
  identifier is in doubt, as later steps add exceptions and no new use; the
  proofs have no such bound. Identifiers are symmetric; SEEDs are not, as one is the fixed
  one of FACTORY_INIT. `shared_arena` needs one SEED and no tall set.
* `Lengths = {74, 1994, 1995, 2049}`: both sides of the limits between HASH_ONCE,
  task RAM hashing and software, and one that is refused. `Widths = {1, 2, 4}`:
  y fills the task RAM, overlaps the message window, or ends below it; w = 8
  behaves as 4 with a shorter y.
* Two messages: one of the request and one of an earlier one.
* HSS with four levels of two or three leaves: a refresh passes up to three
  exhausted levels, and `GenMod = 7` lets the generation counters run out. How a
  key ends is fixed by the constants: with `GenMod = 12` (819 k states
  with `MaxLost = 1`, no violation) all leaves are used up first. `HssExhaustedForReal`
  covers both. The two messages are symmetric; `FewLost` bounds the message
  signatures that failed calls leave behind to `MaxLost = 2` at a time.
* A tree of height 5 (the smallest of the table) cut in one, two and three levels;
  leaves at the first, last and both sides of subtree borders; digests at the
  extremes of the checksum; one failing hash at each kind of node and one failing
  allocation at each stage. `ConfigurationBest` is checked for all heights of
  the table.
* A FIFO of four entries and words of two bytes: ten bytes to the host fill the
  FIFO and turn both pointers more than once. `RX_DEPTH = 2` (8 in the hardware)
  makes the receiver's limit reachable. `Gap = 3` is needed: with less, the
  transmitter is ready before `full` has settled; the board's half stop bit is
  about 217 clocks.

Model values are used for identifiers, SEEDs and parameter sets. Deadlock
checking is on in every passing run.

## Fairness

Two properties are about liveness. `CallReturns` holds under `WF_vars(Driver)`: the
firmware loop executes its next instruction. Nothing is assumed of the
accelerator; a call must return when the hardware never answers, because
`wait_for_result_n` counts its polls. Requests need not arrive.

`Completes` assumes that both clocks go on ticking and that processor and
host each do something again and again: the firmware is a loop of polls, and the
host's `read` polls the count until it has its bytes. Nothing is assumed of
the clocks' ratio. A byte lost towards the device is exempt: the bridge then waits
for ever, as `bridge_run` has no time-out.

## Proofs

All proofs hold for every value of the constants that satisfies the named
assumption of the module (`SecStateAssumption`, `MmioDriverAssumption`,
`SecSystemAssumption`, `TreeCacheAssumption`, `OtsRequestsAssumption`, those of
`Hss`, `TransportAssumption`, and `FifoAssumption` with the facts of the Gray
code), in particular for 32-bit widths, any number of keys, leaves, polls and
capabilities, any FIFO depth and any length of a transfer.

| Theorem | Statement | Inductive invariant |
|---|---|---|
| `TypeCorrect` | `Spec => []TypeOK` | itself |
| `NoLeafTwice` | `HostBelowTop`, deploy: `Spec => []LeavesIncrease` | `SafetyInv` |
| `EachSlotCovers` | `HostBelowTop`, deploy: `Spec => []SlotsCoverReleases` | `SafetyInv` |
| `TxOrder`, `SnapshotIsRecord` | `HostBelowTop`: `Spec =>` `[]TxOrdersCounters`, `[]SnapshotIsActiveRecord` | `RecordInv` |
| `ImplementsOneTimeSigner` | `HostBelowTop`, deploy: `Spec => OneTimeSignerSpec` | `SafetyInv` |
| `FilesCoverReleases`, `SystemIsOneTimeSigner` | `Careful`: `SysSpec =>` `[]HostCoversReleases`, `OneTimeSignerSpec` | `SysInv` |
| `CallsGetOwnResult`, `SignsOwnMessage`, `WritesReachHardware`, `MmioTypes` | `Spec =>` `[]OwnResult`, `[]OwnCoefficients`, `[]NoDroppedWrite`, `[]TypeOK` | `MmioInv` |
| `RefusalMeansTimeout` | `Spec => RefusalNeedsTimeout` | `MmioInv`, `LateInv` |
| `TrackedSlotIsSound` | `Spec => []SeedOfKey` | `TreeInv` |
| `PathsAreOwn`, `RootsAreOwn` | `Spec =>` `[]PathOfKey`, `[]RootOfKey` | `TreeInv` |
| `RequestTypes`, `VerdictIsRight`, `SignatureIsOwn`, `ClaimOutlivesRefusalsOnly` | `Spec =>` `[]TypeOK`, `[]Verdict`, `[]OwnSignature`, `[]ClaimIsRefused` | `ReqInv` |
| `HssOneTime`, `HssTypes`, `HssNeverBack`, `HssExhaustedForReal`, `HssReturnedVerifies` | `Spec =>` `[]OneTimeLeaves`, `[]TypeOK`, `NeverBack`, `[]ExhaustedForReal`, `[]ReturnedVerifies` | `HssInv`, for the last also `Chained` |
| `HssCertificateIsNoMessage` | `Spec => []CertificateIsNoMessage` | `Chained`, `OutLevels` |
| `FifoConservative`, `FifoHead` | `FifoSpec =>` `[]Conservative`, `[]HeadIsOldest` | `FifoInv` |
| `TransportInOrder`, `TransportStored` | `Spec =>` `[]InOrder`, `[]StoredWhenDone` | `TransportInv` |
| `TransportNoLoss` | `Gap >= 3`: `Spec => []NoLoss` | `TransportInv`, `RoomInv` |
| `TransportUsesFifo` | `Spec => FifoSpec` | `TransportInv` |

**No leaf twice.** `LeavesIncrease` says nothing about the counter, so it is
not inductive. What makes it true is that every leaf released with a key that can
still sign is below the counter of the snapshot (`LiveBelowCtr`) *and* below
the counter either record would recover to (`SlotsCoverReleases`), so that no
BOOT can move the counter back. A key can still sign if its SEED is in the slot
or in the wrapped blob (`LiveKeys`); a rotated key drops out, and
`KeysKnown` says that a drawn key is new, so that erasing the records in
`sec_keygen_new` is safe. `HandlerSteps` is needed because between reserve
and commit the counter equals the leaf in hand and its increment does not wrap.
`KeepRecords` and `CommitKeeps` are the two lemmas every handler reduces to: a
step either leaves records and counter alone, or commits a counter that is not
smaller. The premise `HostBelowTop` excludes a COMMIT of the largest 32-bit
value; with `UartCtrs = {3}` TLC shows that it is needed (`TxOrdersCounters` fails
at once, `LeavesIncrease` with `McMod = 7`).

**The refinement** follows: only `SignRelease` changes `log`, and at that point
`LiveBelowCtr` gives the guard of the abstract `Release`.

**The two records.** `TxOrdersCounters` does not say which record is the active one,
nor what the snapshot holds. `RecordPair` adds that: the active record, if there is
one, has the last tx and the counter and state of the snapshot, and there is no
record at all unless the active slot has one. `CommitRecords` is the lemma for
every handler that commits; the failing commits keep the pair because
`state_commit` writes the slot last.

**The system.** `SystemIsOneTimeSigner` is the result the repository is about: over
any number of power losses and reloads from the host's files, the leaves that leave
the device increase. `SafetyInv` does not survive a power loss, since a restarted
device knows nothing; what does is `Covers` of the host's pair of records: whenever
nothing is unfetched, the record that BOOT would adopt from the *files* recovers to a
counter above every released leaf. `HostInv` follows the reload step by step,
`SlotsInv` relates files and slots afterwards (per slot, the files are never ahead),
`MirrorInv` says that between commands the mirror is the active record, so that a fetch
brings the newest record into the files, and `ServingInv` that the device only serves when its
snapshot is the newest record. `Careful` collects what this rests on, and with any
part dropped TLC refutes `HostCoversReleases` on the constants of `MCSecSystem`:
without `HostBelowTop` the burn of BOOT wraps the counter; with `HmacFaults` a BOOT
may take the older record; with `LmsSign` the record is not exported
(`lms_sign_not_exported`); with `WindowLoss` power may fail between the release and
the moment the host has stored the record. The device alone could only prevent the
first and the third.

**The driver.** `DriverInv` describes the handover: between STATUS = 0 and START
the accelerator is idle, from START to the answer it works on this call's
registers, and a call that has its answer left nothing running. `CoefInv` follows
the coefficients from MSG_Q_COEF through the fallbacks to the batch command.
For the refusals, `LateInv` adds the history: outside a poll loop something runs only
if a call gave up, so a CLEAR that is not dropped leaves STATUS zero until it is read.

**The caches.** The theorems have no premise: any build, any mix of requests, any
failure; the exceptions are in the properties. `TreeInv` has a part per thing that
is kept. `SlotInv`: unless the slot was written beneath it, the copy `s_seed_slot`, if
valid, is the SEED in the slot, and a request past its load without doubt has its
own SEED there. `CacheInv`: the arena holds the tree of every valid cache without
taint; for the secure one, whose fingerprint has no SEED, the tree of one of the SEEDs
its I was used with. `LookupInv`: a request past its lookup uses its own cache, and
without doubt the arena holds its key's tree. `RequestInv` ties the SEED of a secure
request to the slot and to `seedsOf`, which is why a fingerprint without the SEED is
enough while an I has one SEED. A build, a rebuild or a failed build keeps this
because it taints the other cache whenever it writes the arena.

**The requests.** `ReqInv` says for every step of a request where its message
(`MessagePlace`), its coefficients and its y (`YPlace`, `SignedPlace`) are, and which
registered back end will read them (`BackendPlace`). The proof is about addresses:
the lemmas on `YFits`, `MqcFits` and the windows show that y, kept in the task RAM,
ends below everything MSG_Q_COEF writes, and that the hash of a message overwrites y
only after a call has failed. A request that finds `s_msg_in_ram` set (`Misled`) is
exempt, as in the run; `ClaimOutlivesRefusalsOnly` says that only a request that was
refused can have left it set.

**The hierarchy.** A dropped copy leaves certificates whose leaves lie ahead of
the caller's key, so "every used leaf is behind the counter" is false. `HssInv` says
which ones they are: a signature in `signed` is either `Behind` the caller's key,
or it is exactly the certificate that the refresh of the unchanged key will
compute at that place again (`PathCertificate`), so a leaf used twice signs the
same content twice. That works because the refresh is determined by the caller's
key, and because a tree has at least two leaves: the repeated rebuild of a level
takes leaf 1 of its new parent after leaf 0 (`CapAssumption`; with a single leaf
`ExhaustedForReal` fails). `OutLevels` fixes the level of every part of a
returned signature; a chain cut after a certificate then has the wrong level or too
few parts, whichever way it is read.

**The FIFO.** `FifoInv` puts the six pointers in order on the circle of twice
DEPTH values, from the oldest copy of the read pointer over the read pointer and
the copies of the write pointer to the write pointer, and says that the way round
them is at most DEPTH (`Lags`). An edge of the write clock shortens the way, an
edge of the read clock and a read leave it as it is, a write makes it longer by
one and is only possible while the oldest copy is less than DEPTH away. Counts, full
and empty are parts of that way, and `Holds` says that the memory between read and
write pointer is the queue.

**The transport.** `InOrder` speaks of the two ends of a transfer only. `FlowInv`
says where every byte in between is: the numbers of the bytes are cut at a few
borders, and each place (what the program has got, the mailbox's queue, the
receiver's FIFO, the byte entering it, the byte in the transmitter, the byte in
a register on its way to the transmitter) holds the bytes between two borders, in
order, and all of them if nothing was lost (`Part`, `Carries`). The last border is
what firmware and bridge have sent (`Sent`), or the host; a step only moves a byte
over one border. Whether a register holds a byte that is still to be handed on, or
one that was, is control: `CpuInv` and `OwnerInv` say who has the UART and that a
byte is offered only to a transmitter that is ready, `BridgeInv` ties the
bridge's counter, address and buffer to its state, `BoxInv` and `UsbInv` tie the
mailbox's registers of either clock to the FIFO's head and flags; for these
`FifoInv` is needed, and the edges of `Transport` are edges of the FIFO
(`TransportUsesFifo`). `RamInv`: a word below `Filled` is in the task RAM or is
the write pulse that the RAM sees at this edge; when `bridge_run` returns there is
no pulse left. `RoomInv` gives `NoLoss`. Towards the host at most one byte is on its way,
and the place it will take in the mailbox is free from the moment it is offered:
CTS is looked at before, and nobody else writes. That needs the transmitter to be
busy until the byte is popped and RTS has followed, at most three edges after
the receiver has it; the line gives half a stop bit (about 217 clocks), and TLC
refutes `NoLoss` with `Gap = 2`. Towards the device the bridge, once it has taken a byte,
skips an edge only to write a word, and two bytes never arrive on successive
edges, so the receiver does not fill up any further.

Model-checked only: `CallReturns` and `Completes` (liveness, outside what the
prover handles), and everything of `Winternitz` and `LmsTree` (recursive
computations, outside as well). Every other property of a passing run is stated by a
theorem.

## Disagreements between code and documentation

Runs marked `violation` in `PROJECT.json`, each with the quoted line:

* `lms_sign_not_exported`: command 0x66 signs without copying the record to the
  mirror that the host fetches; 0x54 does copy it.
* `stale_message`: a verification that is refused for its LM-OTS type leaves
  `s_msg_in_ram` set, and the next LM-OTS or secure signature of more than 74
  bytes is made over the message in the task RAM instead of its own.
  The properties of `requests` exempt requests that find the flag set (`Misled`).
* `shared_arena`: the two tree caches share one arena and a build for one does not
  invalidate the other. After BOOT and a 0x68, a 0x53 builds over the secure
  tree and the next 0x66 hits its cache and sends a path of the wrong tree; the comment
  calls the caches isolated because sessions do not mix, which nothing enforces.

The models show more of them with other constants or a stronger property:

* The fused STATE_COMMIT wraps `sim_mc` at its top (`rtl/lms_sha256_sec.v:367`),
  while the comments beside MC_STEP rule this out. The firmware's `tx` check then
  refuses commits, so no leaf is reused (`secstate_deploy` covers the wrap).
* `MCSecStateDeploy` with `UartCtrs = {3}` and `McMod = 7` violates `LeavesIncrease`: COMMIT accepts
  RESERVED with counter 0xFFFFFFFF, and the burn of the next BOOT makes it 0
  (`fw/lms_sec_state.c:770`).
* With a tree taller than one subtree, the bottom subtree may be rebuilt after y
  was left in the task RAM for the UART bridge (`src/lms_sign.c:61`).
  `OwnSignature` of `requests` exempts such a rebuild.
* `lms_tree_build_active` after `lms_tree_keygen_root` returns LMS_OK with another
  root than the key's, since the streaming moved the subtree (`RootsAgree`
  without its premise `tree = "whole"`); `lms_subtree.h` promises agreement with
  `lms_tree_node`.
* After an `lms_tree_sign_advance` that failed, the segment is already moved, so
  the next call takes the half-built subtree for current and returns a path that
  does not verify (`OwnSignatureAccepted` is about caches that are `"whole"`).
* `scripts/cw305_serial.py` says of the mailbox towards the device that "request
  frames are far smaller, so it won't fill". Verification requests of W1 and W2 are
  longer than 256 bytes; there is no flow control in that direction, so what
  keeps the FIFO from filling is that the host is slower than the line.
  `NoLoss` allows a full mailbox to drop bytes only there.
* A comment in `lms_cw305_usb_uart.v` says that the SoC has no cts; it has, and
  without it `NoLoss` fails (that is its mutant).
* The comment on the path backend in `main` says that a failure falls back to one
  HASH_ONCE per level; `lms_root_from_signature` returns LMS_ERR_VERIFY, so a failing
  command rejects a good signature. `Verdict` exempts requests with a fault.

Limits of the same properties:

* Each exception of `SeedOfKey`, `PathOfKey` and `RootOfKey` is needed: without
  it TLC finds a wrong response (for `advance` and `RootOfKey` only because `taint`
  keeps the first reason, and the arena was overwritten later). The comment on
  `s_seed_slot` (`fw/lms_soc_smoke.c:296-303`) relies on one fixed SEED for `load`,
  `factory` and `seed`, and the comment on `s_sec_tree_ctx` on one fixed key for `id`.
* `OneTimeLeaves` allows a bottom leaf to meet two messages after a call that
  failed; `hss_sign` could exclude it by wiping the buffer.
* In `SecSystem`, the RESERVED record reaches the host only with the next
  export, so what protects an interrupted signature is that it was not released.

## Not modelled

* Hash cores, permutations, block generators and padding: fixed functions of
  hundreds of bits; test vectors cover them.
* The state machines inside the accelerator (chain batches, MSG_Q_COEF, HMAC and
  wrap of the security engine): one command each in the models, with its reads and
  writes of task RAM, coefficients and registers, and with failure and late
  completion.
* The table of command checks (`lms_hash_cmd_check.v`): a START may be rejected.
* Random sources beyond a draw that succeeds or fails: health tests are
  statistics, and progress depends on ring oscillators.
* The SPI flash peripheral, baud rate, TRNG read-out, fault injection and
  characterization commands: no signing path uses what they change.
* Address decoding, boards, start-up code, C runtime, vendored code (Ibex, XKCP,
  FIPS202, Haraka), benchmarks and scripts other than the serial port.
* Resets of the two clock domains, metastability beyond "old or new code".

What a recursive computation yields for every input (a Merkle root, a Winternitz
chain) cannot be proved with the installed provers and is checked over
bounded inputs. `PROJECT.json` gives the reason for each component.

## Plan

Done: all modules above. Open, in this order:

1. Key generation across a power loss in `SecSystem`.
2. The security engine's state machine, shown to implement the atomic commands
   used in `SecState`.
