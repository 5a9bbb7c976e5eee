---------------------------- MODULE SecSystemProofs ----------------------------
(***************************************************************************)
(* Proofs about the security state domain with the host as its persistent  *)
(* store: power may fail any number of times, at any step but between a    *)
(* release and the moment the host has stored the record, and no leaf is   *)
(* ever signed twice.                                                      *)
(***************************************************************************)
EXTENDS SecSystem, SecStateProofs

USE SecStateAssumption

\* The host signs with 0x54, fetches the mirror before the power may fail and
\* keeps COMMIT below the top; a record check fails on bad records only.
Careful == HostBelowTop /\ ~HmacFaults /\ ~LmsSign /\ ~WindowLoss

-------------------------------------------------------------------------------
(* The inductive invariant.                                                *)

\* A record this device wrote: under its K_STATE, for its slot, tx counted
\* from 1; anything else is an erased slot.
GoodRec(r, s) ==
  /\ r \in Rec
  /\ r.magic => /\ r.key = 1 /\ r.aad = s /\ ~r.flip /\ r.tx > 0
                /\ r.state = "RESERVED" => r.ctr < CtrMod - 1
  /\ ~r.magic => r = ZeroRec

\* A pair of slots, in the device or in the host's files.
GoodPair(f) ==
  /\ f = [s \in Slot |-> f[s]]
  /\ \A s \in Slot : GoodRec(f[s], s)
  /\ f[0].magic /\ f[1].magic => f[0].tx # f[1].tx

\* The record BOOT adopts from a pair.
Newest(f) == IF f[0].tx >= f[1].tx THEN f[0] ELSE f[1]

\* Every released leaf is below what BOOT recovers from the pair.
Covers(f) == \A i \in DOMAIN log : log[i].q < Recovered(Newest(f))

\* The active slot is the newest one, or nothing was ever written.
ActiveNewest == slots[inactive].tx < slots[active].tx \/ slots_all_zero

\* The host's files, and how far the reload procedure has got.
HostInv ==
  /\ host.mc \in Nat
  /\ GoodPair(host.rec)
  /\ ~unfetched => Covers(host.rec)
  /\ hostpc \in {"mc", "slot0", "slot1", "wrap", "boot", "run"}
  /\ hostpc # "run" => ~unfetched /\ state = "BOOTING" /\ pc = "idle"
  /\ hostpc = "slot1" => slots[0] = host.rec[0]
  /\ hostpc \in {"wrap", "boot"} => slots = host.rec
  /\ hostpc \in {"boot", "run"} => wrapped = HostBlob
  /\ seed \in {0, 1}

\* During a fetch the device stands still.
FetchInv == fetch # 0 => hostpc = "run" /\ pc = "idle" /\ slot = active

\* Once the reload is complete the files are never ahead of the device, and
\* the active record is the newest unless the host has every record.  After
\* BOOT the mirror is the active record.
SlotsInv ==
  /\ GoodPair(slots)
  /\ Covers(slots)
  /\ \A s \in Slot : host.rec[s].tx <= slots[s].tx
  /\ ActiveNewest \/ slots = host.rec

MirrorInv == pc = "idle" => nvm.rec = slots[active]

\* The device serves requests, or is about to once BOOT has burned a leaf.
Serving == state \in {"IDLE", "RESERVED", "KEYGEN_PENDING"} \/ pc = "bootburn"

\* The snapshot is the newest record, under the key of the device.
ServingInv ==
  /\ kstate = 1
  /\ ActiveNewest
  /\ slots[active].magic =>
       /\ last_tx = slots[active].tx
       /\ pc # "bootburn" => slots[active].ctr = ctr /\ slots[active].state = state
  /\ ~slots[active].magic => ctr = 0
  /\ pc = "bootburn" => slots[active].magic /\ state = "BOOTING"

\* Between the steps of sec_sign.
SigningInv ==
  /\ state \in {"IDLE", "RESERVED"}
  /\ ctr = q
  /\ q < CtrMod - 1
  /\ \A i \in DOMAIN log : log[i].q < q

SysInv ==
  /\ TypeOK
  /\ HostInv
  /\ FetchInv
  /\ hostpc = "run" => SlotsInv /\ MirrorInv
  /\ Serving => hostpc = "run" /\ ServingInv
  /\ pc \in {"dosign", "commit", "burn"} => SigningInv

-------------------------------------------------------------------------------
(* Types.                                                                  *)

\* The steps of the device are steps of SecState; a reload and a power loss
\* keep the types.
LEMMA SysStepType ==
  ASSUME SysInv, [SysNext]_sysVars
  PROVE  TypeOK'
<1> USE DEF recVars, ramVars, hwKeys
<1>t. TypeOK /\ HostInv
  BY DEF SysInv
<1>1. CASE SysSign \/ SysBoot \/ SysCommit
  <2>1. Next
    BY <1>1 DEF SysSign, SysBoot, SysCommit, Next
  <2> QED BY <1>t, <2>1, StepType
<1>2. CASE HostFetch \/ HostStore \/ UNCHANGED sysVars
  <2>1. UNCHANGED vars
    BY <1>2 DEF HostFetch, HostStore, sysVars
  <2> QED BY <1>t, <2>1, StepType
<1>r. \A s \in Slot : host.rec[s] \in Rec
  BY <1>t DEF HostInv, GoodPair, GoodRec
<1>3. CASE HostReload
  <2>1. CASE McLoad(host.mc)
    BY <1>t, <2>1 DEF HostInv, McLoad, TypeOK
  <2>2. CASE NvmLoad(0, host.rec[0])
    <3>1. slots' \in [Slot -> Rec]
      BY <1>t, <1>r, <2>2 DEF NvmLoad, TypeOK, Slot
    <3> QED BY <1>t, <2>2, <3>1 DEF NvmLoad, TypeOK
  <2>3. CASE NvmLoad(1, host.rec[1])
    <3>1. slots' \in [Slot -> Rec]
      BY <1>t, <1>r, <2>3 DEF NvmLoad, TypeOK, Slot
    <3> QED BY <1>t, <2>3, <3>1 DEF NvmLoad, TypeOK
  <2>4. CASE WrapLoad(HostBlob)
    <3>1. HostBlob \in Blob
      BY WrappedType DEF HostBlob
    <3> QED BY <1>t, <2>4, <3>1 DEF WrapLoad, TypeOK
  <2> QED BY <1>3, <2>1, <2>2, <2>3, <2>4 DEF HostReload
<1>4. CASE PowerLoss
  <2>b. NoBlob \in Blob
    BY DEF NoBlob, Blob
  <2>1. /\ slots' \in [Slot -> Rec] /\ active' \in Slot /\ wrapped' \in Blob
    BY <1>4, <2>b, ZeroRecType DEF PowerLoss, Slot
  <2>k. factory_locked' \in BOOLEAN /\ key_loaded' \in BOOLEAN
    BY <1>4 DEF PowerLoss
  <2>2. rnd' = rnd /\ log' = log
    BY <1>4 DEF PowerLoss
  <2> QED BY <1>4, <1>t, <2>1, <2>k, <2>2 DEF PowerLoss, TypeOK, HwState, NoKey
<1> QED BY <1>1, <1>2, <1>3, <1>4 DEF SysNext

-------------------------------------------------------------------------------
(* Records.                                                                *)

\* The newest of a good pair whose slot a is strictly newer.
LEMMA NewestIs ==
  ASSUME NEW f, GoodPair(f), NEW a \in Slot, f[1 - a].tx < f[a].tx
  PROVE  Newest(f) = f[a]
<1>1. f[0].tx \in Nat /\ f[1].tx \in Nat
  BY DEF GoodPair, GoodRec, Rec, Slot
<1>2. CASE a = 0
  BY <1>1, <1>2 DEF Newest
<1>3. CASE a = 1
  BY <1>1, <1>3 DEF Newest
<1> QED BY <1>2, <1>3 DEF Slot

\* The newest of an erased pair recovers leaf 0.
LEMMA NewestZero ==
  ASSUME NEW f, \A s \in Slot : f[s] = ZeroRec
  PROVE  Newest(f) = ZeroRec /\ Recovered(Newest(f)) = 0
  BY DEF Newest, ZeroRec, Recovered, Slot

\* BOOT's choice from a good pair under the key of the device: the newest of
\* the written records, strictly newer than the other slot.
LEMMA ChosenIsNewest ==
  ASSUME TypeOK, GoodPair(slots), ~HmacFaults,
         NEW V \in BootViews(1) \ {{}}
  PROVE  /\ Chosen(V) \in Slot
         /\ slots[Chosen(V)].magic
         /\ slots[1 - Chosen(V)].tx < slots[Chosen(V)].tx
<1>1. V = {s \in Slot : rec_valid(s, 1)}
  BY DEF BootViews
<1>2. \A s \in Slot : s \in V <=> slots[s].magic
  BY <1>1 DEF rec_valid, GoodPair, GoodRec
<1>3. \A s \in Slot : /\ slots[s].tx \in Nat
                      /\ slots[s].magic => slots[s].tx > 0
                      /\ ~slots[s].magic => slots[s].tx = 0
  BY DEF GoodPair, GoodRec, Rec, ZeroRec
<1>4. V \subseteq Slot /\ V # {} /\ 0 \in Slot /\ 1 \in Slot
  BY <1>1 DEF Slot
<1>5. CASE V = Slot
  <2>1. slots[0].magic /\ slots[1].magic /\ slots[0].tx # slots[1].tx
    <3>1. slots[0].magic /\ slots[1].magic
      BY <1>2, <1>4, <1>5
    <3> QED BY <3>1 DEF GoodPair
  <2>2. CASE slots[0].tx >= slots[1].tx
    BY <1>3, <1>4, <1>5, <2>1, <2>2 DEF Chosen
  <2>3. CASE ~(slots[0].tx >= slots[1].tx)
    BY <1>3, <1>4, <1>5, <2>1, <2>3 DEF Chosen
  <2> QED BY <2>2, <2>3
<1>6. CASE V # Slot /\ 0 \in V
  <2>1. 1 \notin V
    <3>1. 1 \in V => Slot \subseteq V
      BY <1>6 DEF Slot
    <3> QED BY <1>4, <1>6, <3>1, Zenon
  <2>2. Chosen(V) = 0 /\ slots[0].magic /\ ~slots[1].magic
    BY <1>2, <1>4, <1>6, <2>1 DEF Chosen
  <2> QED BY <1>3, <1>4, <2>2
<1>7. CASE V # Slot /\ 0 \notin V
  <2>1. 1 \in V
    BY <1>4, <1>7 DEF Slot
  <2>2. Chosen(V) = 1 /\ slots[1].magic /\ ~slots[0].magic
    BY <1>2, <1>4, <1>7, <2>1 DEF Chosen
  <2> QED BY <1>3, <1>4, <2>2
<1> QED BY <1>5, <1>6, <1>7

\* A commit of the serving device writes a good record over the older one.
LEMMA SysCommitOk ==
  ASSUME TypeOK, GoodPair(slots), ServingInv,
         NEW st \in HwState, NEW c \in 0..(CtrMod - 1), CommitOk(st, c),
         st = "RESERVED" => c < CtrMod - 1
  PROVE  /\ GoodPair(slots)'
         /\ ActiveNewest'
         /\ Newest(slots') = slots'[active']
         /\ slots'[active'].magic /\ slots'[active'].tx = last_tx'
         /\ slots'[active'].ctr = c /\ slots'[active'].state = st
         /\ ctr' = c /\ state' = st
         /\ Recovered(slots'[active']) = IF st = "RESERVED" THEN c + 1 ELSE c
         /\ \A s \in Slot : slots[s].tx <= slots'[s].tx
<1> DEFINE new == STATE_REC(st, c, NextTx, kstate, inactive)
<1>1. /\ active \in Slot /\ inactive \in Slot /\ active # inactive
      /\ 1 - inactive = active
      /\ \A s \in Slot : s = active \/ s = inactive
      /\ slots \in [Slot -> Rec]
      /\ \A s \in Slot : slots[s].tx \in Nat
  BY DEF TypeOK, inactive, Slot, Rec
<1>2. NextTx \in Nat /\ NextTx > last_tx /\ last_tx \in Nat
  BY NextTxType DEF CommitOk, TypeOK
<1>3. /\ active' = inactive /\ inactive' = active /\ last_tx' = NextTx
      /\ state' = st /\ ctr' = c
      /\ slots' = [slots EXCEPT ![inactive] = new]
      /\ slots'[inactive] = new
      /\ slots'[active] = slots[active]
  BY <1>1 DEF CommitOk, inactive
<1>4. /\ new.magic /\ new.tx = NextTx /\ new.ctr = c /\ new.state = st
      /\ new.key = 1 /\ new.aad = inactive /\ ~new.flip
  BY DEF STATE_REC, ServingInv
<1>5. new \in Rec
  BY <1>1, <1>2 DEF STATE_REC, Rec, ServingInv
<1> HIDE DEF new
<1>6. slots[active].tx <= last_tx
  <2>1. ~slots[active].magic => slots[active].tx = 0
    BY <1>1 DEF GoodPair, GoodRec, ZeroRec
  <2> QED BY <1>1, <1>2, <2>1 DEF ServingInv
<1>7. slots'[active].tx < slots'[inactive].tx
  BY <1>1, <1>2, <1>3, <1>4, <1>6
<1>8. ActiveNewest'
  BY <1>3, <1>7 DEF ActiveNewest
<1>9. GoodPair(slots)'
  <2>1. slots' = [s \in Slot |-> slots'[s]]
    BY <1>1, <1>3
  <2>2. GoodRec(slots'[inactive], inactive)
    BY <1>2, <1>3, <1>4, <1>5 DEF GoodRec
  <2>3. GoodRec(slots'[active], active)
    BY <1>1, <1>3 DEF GoodPair
  <2>4. \A s \in Slot : GoodRec(slots'[s], s)
    BY <1>1, <2>2, <2>3
  <2>5. slots'[0].tx # slots'[1].tx
    BY <1>1, <1>2, <1>3, <1>4, <1>7 DEF Slot
  <2> QED BY <2>1, <2>4, <2>5 DEF GoodPair, GoodRec
<1>10. Newest(slots') = slots'[inactive]
  <2>1. GoodPair(slots')
    BY <1>9 DEF GoodPair, GoodRec
  <2> QED BY <1>1, <1>7, <2>1, NewestIs
<1>11. Recovered(new) = IF st = "RESERVED" THEN c + 1 ELSE c
  BY <1>4, NoWrap DEF Recovered
<1>12. slots[inactive].tx <= slots'[inactive].tx
  <2>1. CASE slots[inactive].tx < slots[active].tx
    BY <1>1, <1>3, <1>7, <1>2, <1>4, <2>1
  <2>2. CASE slots_all_zero
    BY <1>1, <1>2, <1>3, <1>4, <2>2 DEF slots_all_zero, ZeroRec
  <2> QED BY <2>1, <2>2 DEF ServingInv, ActiveNewest
<1>13. \A s \in Slot : slots[s].tx <= slots'[s].tx
  BY <1>1, <1>3, <1>12
<1> QED BY <1>3, <1>4, <1>8, <1>9, <1>10, <1>11, <1>13

\* What the serving device has released is below its snapshot.
LEMMA ServingCovers ==
  ASSUME TypeOK, SlotsInv, ServingInv
  PROVE  /\ \A i \in DOMAIN log : log[i].q < Recovered(slots[active])
         /\ pc # "bootburn" =>
              \A i \in DOMAIN log : log[i].q < IF state = "RESERVED" THEN ctr + 1 ELSE ctr
<1>1. /\ active \in Slot /\ inactive = 1 - active /\ slots[active] \in Rec
      /\ ctr \in 0..(CtrMod - 1)
      /\ slots[active].ctr \in 0..(CtrMod - 1)
      /\ \A i \in DOMAIN log : log[i].q \in 0..(CtrMod - 1)
  BY LogType DEF TypeOK, inactive, Rec
<1>2. Newest(slots) = slots[active]
  <2>1. CASE slots[inactive].tx < slots[active].tx
    BY <1>1, <2>1, NewestIs DEF SlotsInv
  <2>2. CASE slots_all_zero
    BY <1>1, <2>2, NewestZero DEF slots_all_zero
  <2> QED BY <2>1, <2>2 DEF ServingInv, ActiveNewest
<1>3. \A i \in DOMAIN log : log[i].q < Recovered(slots[active])
  BY <1>2 DEF SlotsInv, Covers
<1>4. GoodRec(slots[active], active)
  BY <1>1 DEF SlotsInv, GoodPair
<1>5. CASE ~slots[active].magic
  <2>1. Recovered(slots[active]) = 0
    BY <1>4, <1>5 DEF GoodRec, ZeroRec, Recovered
  <2>2. ASSUME NEW i \in DOMAIN log PROVE FALSE
    <3>1. log[i].q \in 0..(CtrMod - 1) /\ log[i].q < 0
      BY <1>1, <1>3, <2>1
    <3> QED BY <3>1
  <2> QED BY <1>3, <2>2
<1>6. CASE slots[active].magic /\ pc # "bootburn"
  <2>1. slots[active].ctr = ctr /\ slots[active].state = state
    BY <1>6 DEF ServingInv
  <2>2. Recovered(slots[active]) = IF state = "RESERVED" THEN ctr + 1 ELSE ctr
    BY <1>1, <1>4, <1>6, <2>1, NoWrap DEF GoodRec, Recovered
  <2> QED BY <1>3, <2>2
<1> QED BY <1>3, <1>5, <1>6

-------------------------------------------------------------------------------
(* What a step of the device leaves alone.                                 *)

\* The files stay; a new release is not yet fetched.
LEMMA HostKept ==
  ASSUME HostInv, hostpc' = "run", host' = host, wrapped' = wrapped,
         wrapped = HostBlob, seed' \in {0, 1},
         ~unfetched' => log' = log /\ ~unfetched
  PROVE  HostInv'
<1>1. ~unfetched' => Covers(host.rec)'
  BY DEF HostInv, Covers, Newest, Recovered
<1> QED BY <1>1 DEF HostInv, GoodPair, GoodRec

\* The slots stay, and the active one stays or becomes the newest.
LEMMA SlotsKept ==
  ASSUME SlotsInv, slots' = slots, host' = host, log' = log,
         active' = active \/ ActiveNewest'
  PROVE  SlotsInv'
<1>1. Covers(slots)'
  BY DEF SlotsInv, Covers, Newest, Recovered
<1>2. ActiveNewest' \/ slots' = host'.rec
  BY DEF SlotsInv, ActiveNewest, inactive, slots_all_zero
<1> QED BY <1>1, <1>2 DEF SlotsInv, GoodPair, GoodRec

\* A commit that reaches past every release keeps the slots ahead.
LEMMA SlotsAdvance ==
  ASSUME TypeOK, SlotsInv, HostInv, ServingInv, host' = host,
         NEW st \in HwState, NEW c \in 0..(CtrMod - 1), CommitOk(st, c),
         st = "RESERVED" => c < CtrMod - 1,
         \A i \in DOMAIN log' : log'[i].q < IF st = "RESERVED" THEN c + 1 ELSE c
  PROVE  SlotsInv'
<1>1. /\ GoodPair(slots)' /\ ActiveNewest'
      /\ Newest(slots') = slots'[active']
      /\ Recovered(slots'[active']) = IF st = "RESERVED" THEN c + 1 ELSE c
      /\ \A s \in Slot : slots[s].tx <= slots'[s].tx
  BY SysCommitOk DEF SlotsInv
<1>2. Covers(slots)'
  BY <1>1 DEF Covers, Newest, Recovered
<1>3. \A s \in Slot : host.rec[s].tx \in Nat /\ slots[s].tx \in Nat /\ slots'[s].tx \in Nat
  BY <1>1 DEF HostInv, SlotsInv, GoodPair, GoodRec, Rec
<1>4. \A s \in Slot : host'.rec[s].tx <= slots'[s].tx
  BY <1>1, <1>3 DEF SlotsInv
<1> QED BY <1>1, <1>2, <1>4 DEF SlotsInv

\* A served snapshot that nothing touches.
LEMMA ServingKept ==
  ASSUME ServingInv, slots' = slots, active' = active, last_tx' = last_tx,
         ctr' = ctr, state' = state, kstate' = kstate,
         pc # "bootburn", pc' # "bootburn"
  PROVE  ServingInv'
  BY DEF ServingInv, ActiveNewest, inactive, slots_all_zero

\* A commit serves the record it writes.
LEMMA ServingAdvance ==
  ASSUME TypeOK, GoodPair(slots), ServingInv, kstate' = kstate, pc' # "bootburn",
         NEW st \in HwState, NEW c \in 0..(CtrMod - 1), CommitOk(st, c),
         st = "RESERVED" => c < CtrMod - 1
  PROVE  ServingInv'
<1>1. /\ ActiveNewest'
      /\ slots'[active'].magic /\ slots'[active'].tx = last_tx'
      /\ slots'[active'].ctr = ctr' /\ slots'[active'].state = state'
  BY SysCommitOk
<1> QED BY <1>1 DEF ServingInv

-------------------------------------------------------------------------------
(* The steps of the system.                                                *)

\* SysInv without the types and the fetch: what each kind of step has to establish.
After ==
  /\ HostInv
  /\ hostpc = "run" => SlotsInv /\ MirrorInv
  /\ Serving => hostpc = "run" /\ ServingInv
  /\ pc \in {"dosign", "commit", "burn"} => SigningInv

\* sec_sign: what it commits, releases and burns.
LEMMA SysSignStep ==
  ASSUME Careful, SysInv, SysSign
  PROVE  After'
<1> USE DEF recVars, ramVars, hwKeys
<1>t. /\ TypeOK /\ HostInv /\ SlotsInv /\ hostpc = "run"
      /\ Serving => ServingInv
      /\ pc \in {"dosign", "commit", "burn"} => SigningInv
  BY DEF SysInv, SysSign
<1>n. /\ ctr \in 0..(CtrMod - 1) /\ q \in 0..(CtrMod - 1)
      /\ \A i \in DOMAIN log : log[i].q \in 0..(CtrMod - 1)
  BY <1>t, LogType DEF TypeOK
<1>h. "IDLE" \in HwState /\ "RESERVED" \in HwState
  BY DEF HwState
<1>f. /\ hostpc' = "run" /\ host' = host
      /\ unfetched' = (unfetched \/ log' # log)
      /\ Sign
  BY <1>t DEF SysSign
<1>m. MirrorInv'
  <2>1. Export
    BY DEF SysSign, Careful
  <2> QED BY <2>1 DEF Export, MirrorInv
<1>w. wrapped' = wrapped /\ wrapped = HostBlob /\ seed' = seed /\ seed \in {0, 1}
      /\ kstate' = kstate
  BY <1>t, <1>f DEF HostInv, Sign, SignExhausted, SignReserve, SignDo, SignRelease,
     SignCommitFail, SignBurn
<1>u. ~unfetched' => log' = log /\ ~unfetched
  BY <1>f, Zenon
<1>o. HostInv'
  BY <1>t, <1>f, <1>w, <1>u, HostKept
<1>s. pc \in {"dosign", "commit", "burn"} =>
        /\ SigningInv /\ ServingInv
        /\ (q + 1) % CtrMod = q + 1 /\ q + 1 \in 0..(CtrMod - 1)
        /\ \A i \in DOMAIN log : log[i].q < q + 1
  BY <1>t, <1>n, NoWrap DEF SigningInv, Serving
<1>1. CASE SignExhausted
  <2>1. /\ slots' = slots /\ active' = active /\ log' = log
        /\ pc' = "idle" /\ state' = "EXHAUSTED"
    BY <1>1 DEF SignExhausted
  <2>2. SlotsInv'
    BY <1>t, <1>f, <2>1, SlotsKept
  <2>3. ~Serving'
    BY <2>1 DEF Serving
  <2> QED BY <1>m, <1>o, <2>1, <2>2, <2>3 DEF After
<1>2. CASE SignReserve
  <2>1. /\ ctr < CtrMod - 1 /\ state = "IDLE" /\ pc = "idle"
        /\ q' = ctr /\ log' = log
    BY <1>2, <1>n DEF SignReserve
  <2>2. ServingInv
    BY <1>t, <2>1 DEF Serving
  <2>3. \A i \in DOMAIN log : log[i].q < ctr
    BY <1>t, <2>1, <2>2, ServingCovers
  <2>4. CASE CommitOk("RESERVED", ctr) /\ pc' = "dosign"
    <3>1. \A i \in DOMAIN log' : log'[i].q < ctr + 1
      BY <1>n, <2>1, <2>3
    <3>2. SlotsInv'
      BY <1>t, <1>f, <1>n, <1>h, <2>1, <2>2, <2>4, <3>1, SlotsAdvance
    <3>3. ServingInv'
      BY <1>t, <1>w, <1>n, <1>h, <2>1, <2>2, <2>4, ServingAdvance DEF SlotsInv
    <3>4. SigningInv'
      BY <2>1, <2>3, <2>4 DEF CommitOk, SigningInv
    <3> QED BY <1>f, <1>m, <1>o, <3>2, <3>3, <3>4 DEF After
  <2>5. CASE CommitFail /\ UNCHANGED state /\ pc' = "burn"
    <3>1. /\ slots' = slots /\ active' = active /\ last_tx' = last_tx
          /\ ctr' = ctr /\ state' = state
      BY <2>5 DEF CommitFail
    <3>2. SlotsInv'
      BY <1>t, <1>f, <2>1, <3>1, SlotsKept
    <3>3. ServingInv'
      BY <1>w, <2>1, <2>2, <2>5, <3>1, ServingKept
    <3>4. SigningInv'
      BY <2>1, <2>3, <3>1 DEF SigningInv
    <3> QED BY <1>f, <1>m, <1>o, <3>2, <3>3, <3>4 DEF After
  <2> QED BY <1>2, <2>4, <2>5 DEF SignReserve
<1>3. CASE SignDo \/ SignCommitFail
  <2>1. /\ slots' = slots /\ active' = active /\ last_tx' = last_tx
        /\ ctr' = ctr /\ state' = state /\ q' = q /\ log' = log
        /\ pc \in {"dosign", "commit"} /\ pc' \in {"commit", "burn"}
    BY <1>3 DEF SignDo, SignCommitFail, CommitFail
  <2>2. SlotsInv'
    BY <1>t, <1>f, <2>1, SlotsKept
  <2>3. ServingInv'
    BY <1>w, <1>s, <2>1, ServingKept
  <2>4. SigningInv'
    BY <1>s, <2>1 DEF SigningInv
  <2> QED BY <1>f, <1>m, <1>o, <2>2, <2>3, <2>4 DEF After
<1>4. CASE SignRelease
  <2>1. /\ log' = Append(log, [key |-> SignKey, q |-> q])
        /\ CommitOk("IDLE", q + 1)
        /\ pc = "commit" /\ pc' = "idle"
    BY <1>4, <1>s DEF SignRelease
  <2>2. \A i \in DOMAIN log' : log'[i].q < q + 1
    <3>1. /\ DOMAIN log' = DOMAIN log \cup {Len(log) + 1}
          /\ \A i \in DOMAIN log : log'[i] = log[i]
          /\ log'[Len(log) + 1] = [key |-> SignKey, q |-> q]
      BY <1>t, <2>1 DEF TypeOK
    <3> QED BY <1>s, <1>n, <2>1, <3>1
  <2>3. SlotsInv'
    BY <1>t, <1>f, <1>s, <1>h, <2>1, <2>2, SlotsAdvance
  <2>4. ServingInv'
    BY <1>t, <1>w, <1>s, <1>h, <2>1, ServingAdvance DEF SlotsInv
  <2> QED BY <1>f, <1>m, <1>o, <2>1, <2>3, <2>4 DEF After
<1>5. CASE SignBurn
  <2>1. pc = "burn" /\ pc' = "idle" /\ log' = log
    BY <1>5 DEF SignBurn
  <2>2. CASE CommitOk("IDLE", q + 1)
    <3>1. SlotsInv'
      BY <1>t, <1>f, <1>s, <1>h, <2>1, <2>2, SlotsAdvance
    <3>2. ServingInv'
      BY <1>t, <1>w, <1>s, <1>h, <2>1, <2>2, ServingAdvance DEF SlotsInv
    <3> QED BY <1>f, <1>m, <1>o, <2>1, <3>1, <3>2 DEF After
  <2>3. CASE CommitFail /\ UNCHANGED state
    <3>1. /\ slots' = slots /\ active' = active /\ last_tx' = last_tx
          /\ ctr' = ctr /\ state' = state
      BY <2>3 DEF CommitFail
    <3>2. SlotsInv'
      BY <1>t, <1>f, <2>1, <3>1, SlotsKept
    <3>3. ServingInv'
      BY <1>w, <1>s, <2>1, <3>1, ServingKept
    <3> QED BY <1>f, <1>m, <1>o, <2>1, <3>2, <3>3 DEF After
  <2> QED BY <1>5, <1>s, <2>1, <2>2, <2>3 DEF SignBurn
<1> QED BY <1>f, <1>1, <1>2, <1>3, <1>4, <1>5 DEF Sign

\* UART COMMIT of the host.
LEMMA SysCommitStep ==
  ASSUME Careful, SysInv, SysCommit
  PROVE  After'
<1> USE DEF recVars, ramVars, hwKeys
<1>t. /\ TypeOK /\ HostInv /\ SlotsInv /\ MirrorInv /\ hostpc = "run"
      /\ Serving => ServingInv
  BY DEF SysInv, SysCommit
<1>n. /\ ctr \in 0..(CtrMod - 1)
      /\ \A i \in DOMAIN log : log[i].q \in 0..(CtrMod - 1)
  BY <1>t, LogType DEF TypeOK
<1>f. /\ hostpc' = "run" /\ host' = host /\ unfetched' = unfetched /\ log' = log
      /\ wrapped' = wrapped /\ wrapped = HostBlob /\ seed' = seed /\ seed \in {0, 1}
      /\ kstate' = kstate /\ pc = "idle" /\ pc' = "idle"
  BY <1>t DEF SysCommit, UartCommit, HostInv
<1>o. HostInv'
  BY <1>t, <1>f, HostKept
<1>1. PICK st \in HwState, c \in UartCtrs :
        /\ c >= ctr
        /\ sec_uart_commit_allowed(st, c)
        /\ CommitOk(st, c) \/ (CommitFail /\ UNCHANGED state)
  BY DEF SysCommit, UartCommit
<1>2. c \in 0..(CtrMod - 1) /\ c < CtrMod - 1
  BY DEF Careful, HostBelowTop
<1>3. Serving /\ ServingInv
  BY <1>1, <1>t DEF Serving, sec_uart_commit_allowed
<1>4. CASE CommitOk(st, c)
  <2>1. \A i \in DOMAIN log : log[i].q < c
    <3>1. \A i \in DOMAIN log : log[i].q < IF state = "RESERVED" THEN ctr + 1 ELSE ctr
      BY <1>t, <1>f, <1>3, ServingCovers
    <3>2. state = "RESERVED" => c > ctr
      BY <1>1 DEF sec_uart_commit_allowed
    <3> QED BY <1>1, <1>2, <1>n, <3>1, <3>2
  <2>2. \A i \in DOMAIN log' : log'[i].q < IF st = "RESERVED" THEN c + 1 ELSE c
    BY <1>2, <1>f, <1>n, <2>1
  <2>3. SlotsInv'
    BY <1>t, <1>f, <1>2, <1>3, <1>4, <2>2, SlotsAdvance
  <2>4. ServingInv'
    BY <1>t, <1>f, <1>2, <1>3, <1>4, ServingAdvance DEF SlotsInv
  <2>5. last_tx' # last_tx
    BY <1>t, <1>4, NextTxType DEF CommitOk, TypeOK
  <2>6. MirrorInv'
    BY <1>f, <2>5 DEF SysCommit, Export, MirrorInv
  <2> QED BY <1>f, <1>o, <2>3, <2>4, <2>6 DEF After
<1>5. CASE CommitFail /\ UNCHANGED state
  <2>1. /\ slots' = slots /\ active' = active /\ last_tx' = last_tx
        /\ ctr' = ctr /\ state' = state
    BY <1>5 DEF CommitFail
  <2>2. SlotsInv'
    BY <1>t, <1>f, <2>1, SlotsKept
  <2>3. ServingInv'
    BY <1>f, <1>3, <2>1, ServingKept
  <2>4. MirrorInv'
    BY <1>t, <1>f, <2>1 DEF SysCommit, MirrorInv
  <2> QED BY <1>f, <1>o, <2>2, <2>3, <2>4 DEF After
<1> QED BY <1>1, <1>4, <1>5

\* BOOT, after a reload or in service: it adopts the newest record or nothing.
LEMMA SysBootStep ==
  ASSUME Careful, SysInv, SysBoot
  PROVE  After'
<1> USE DEF recVars, ramVars, hwKeys
<1>t. /\ TypeOK /\ HostInv
      /\ Serving => hostpc = "run" /\ ServingInv
  BY DEF SysInv
<1>p. Deploy /\ wrapped = HostBlob /\ hostpc \in {"boot", "run"}
  BY <1>t, SecSystemAssumption DEF SysBoot, HostInv
<1>s. SlotsInv
  <2>1. CASE hostpc = "run"
    BY <2>1 DEF SysInv
  <2>2. CASE hostpc = "boot"
    <3>1. slots = host.rec /\ Covers(host.rec) /\ GoodPair(host.rec)
      BY <1>t, <2>2 DEF HostInv
    <3>2. \A s \in Slot : slots[s].tx \in Nat
      BY <1>t DEF TypeOK, Rec
    <3> QED BY <3>1, <3>2 DEF SlotsInv
  <2> QED BY <1>p, <2>1, <2>2
<1>f. hostpc' = "run" /\ host' = host /\ unfetched' = unfetched /\ Boot
  BY DEF SysBoot
<1>m. MirrorInv'
  BY DEF SysBoot, Export, MirrorInv
<1>b. wrapped.valid /\ wrapped.I = 1 /\ wrapped.seed = 1
  BY <1>p DEF HostBlob, Wrapped
<1>k. ASSUME NEW I \in BootIds, BootKeys(I)
      PROVE  I = 1 /\ kstate' = 1 /\ seed' = 1 /\ pc = "idle"
  BY <1>k, <1>p, <1>b DEF BootKeys, UnwrapOk, LoadKeysOk
<1>l. log' = log /\ wrapped' = wrapped /\ seed' \in {0, 1}
  <2>1. seed \in {0, 1}
    BY <1>t DEF HostInv
  <2>2. CASE BootKeysFail
    BY <2>1, <2>2 DEF BootKeysFail
  <2>3. CASE BootUnwrapFail
    BY <2>1, <2>3, <1>b DEF BootUnwrapFail
  <2>4. CASE BootFresh \/ BootWait \/ BootRefuse \/ BootAdopt
    BY <2>4, <1>k DEF BootFresh, BootWait, BootRefuse, BootAdopt, Adopt
  <2>5. CASE BootBurn
    BY <2>1, <2>5 DEF BootBurn
  <2> QED BY <1>f, <2>2, <2>3, <2>4, <2>5 DEF Boot
<1>o. HostInv'
  BY <1>t, <1>p, <1>f, <1>l, HostKept
<1>1. ASSUME slots' = slots, active' = active, pc' = "idle",
             state' \in {"ERROR_LOCKED", "BOOTING"}
      PROVE  After'
  <2>1. SlotsInv'
    BY <1>1, <1>s, <1>f, <1>l, SlotsKept
  <2>2. ~Serving'
    BY <1>1 DEF Serving
  <2> QED BY <1>1, <1>m, <1>o, <2>1, <2>2 DEF After
<1>2. CASE BootKeysFail \/ BootUnwrapFail
  BY <1>1, <1>2 DEF BootKeysFail, BootUnwrapFail
<1>3. CASE BootWait \/ BootRefuse
  BY <1>1, <1>3, <1>k DEF BootWait, BootRefuse
<1>4. CASE BootFresh
  <2>1. /\ slots' = slots /\ active' = active /\ ctr' = 0
        /\ kstate' = 1 /\ slots_all_zero /\ pc' = "idle"
    BY <1>4, <1>k DEF BootFresh
  <2>2. SlotsInv'
    BY <1>s, <1>f, <1>l, <2>1, SlotsKept
  <2>3. ActiveNewest' /\ ~slots'[active'].magic
    BY <1>t, <2>1 DEF ActiveNewest, slots_all_zero, ZeroRec, TypeOK
  <2>4. ServingInv'
    BY <2>1, <2>3 DEF ServingInv
  <2> QED BY <1>f, <1>m, <1>o, <2>1, <2>2, <2>4 DEF After
<1>5. CASE BootAdopt
  <2>1. PICK I \in BootIds : \E V \in BootViews(I) \ {{}} : Adopt(I, V)
    BY <1>5 DEF BootAdopt
  <2>2. I = 1 /\ kstate' = 1 /\ pc = "idle"
    BY <1>k, <2>1 DEF Adopt
  <2>3. PICK V \in BootViews(1) \ {{}} : Adopt(1, V)
    BY <2>1, <2>2
  <2>4. /\ Chosen(V) \in Slot /\ slots[Chosen(V)].magic
        /\ slots[1 - Chosen(V)].tx < slots[Chosen(V)].tx
    BY <1>t, <1>s, ChosenIsNewest DEF Careful, SlotsInv
  <2>5. /\ slots' = slots /\ active' = Chosen(V) /\ last_tx' = slots[Chosen(V)].tx
        /\ \/ state' = "BOOTING" /\ pc' = "bootburn"
           \/ state' = slots[Chosen(V)].state /\ ctr' = slots[Chosen(V)].ctr /\ pc' = "idle"
    BY <2>2, <2>3 DEF Adopt
  <2>6. ActiveNewest'
    BY <2>4, <2>5 DEF ActiveNewest, inactive
  <2>7. SlotsInv'
    BY <1>s, <1>f, <1>l, <2>5, <2>6, SlotsKept
  <2>8. ServingInv'
    BY <2>2, <2>4, <2>5, <2>6 DEF ServingInv
  <2> QED BY <1>f, <1>m, <1>o, <2>5, <2>7, <2>8 DEF After
<1>6. CASE BootBurn
  <2>1. pc = "bootburn" /\ pc' = "idle" /\ kstate' = kstate
    BY <1>6 DEF BootBurn
  <2>2. ServingInv
    BY <1>t, <2>1 DEF Serving
  <2>3. CASE CommitOk("IDLE", Recovered(slots[active]))
    <3>1. Recovered(slots[active]) \in 0..(CtrMod - 1) /\ "IDLE" \in HwState
      BY <1>t, RecoveredType DEF TypeOK, HwState
    <3>2. \A i \in DOMAIN log' : log'[i].q < Recovered(slots[active])
      BY <1>t, <1>s, <1>l, <2>2, ServingCovers
    <3>3. SlotsInv'
      BY <1>t, <1>s, <1>f, <2>2, <2>3, <3>1, <3>2, SlotsAdvance
    <3>4. ServingInv'
      BY <1>t, <1>s, <2>1, <2>2, <2>3, <3>1, ServingAdvance DEF SlotsInv
    <3> QED BY <1>f, <1>m, <1>o, <2>1, <3>3, <3>4 DEF After
  <2>4. CASE CommitFail /\ state' = "ERROR_LOCKED"
    BY <1>1, <2>1, <2>4 DEF CommitFail
  <2> QED BY <1>6, <2>3, <2>4 DEF BootBurn
<1> QED BY <1>f, <1>2, <1>3, <1>4, <1>5, <1>6 DEF Boot

\* The device takes no step during a fetch.
LEMMA FetchStep ==
  ASSUME SysInv, [SysNext]_sysVars
  PROVE  FetchInv'
<1>1. CASE SysSign \/ SysBoot \/ SysCommit \/ HostStore \/ PowerLoss
  BY <1>1 DEF SysSign, SysBoot, SysCommit, HostStore, PowerLoss, FetchInv
<1>2. CASE HostFetch
  BY <1>2 DEF HostFetch, SysInv, FetchInv, vars, recVars
<1>3. CASE HostReload
  <2>1. hostpc # "run" /\ fetch' = fetch
    BY <1>3 DEF HostReload
  <2> QED BY <2>1 DEF SysInv, FetchInv
<1>4. CASE UNCHANGED sysVars
  BY <1>4 DEF sysVars, vars, recVars, SysInv, FetchInv
<1> QED BY <1>1, <1>2, <1>3, <1>4 DEF SysNext

\* The host stores the mirror: its newest record is then the device's.
LEMMA HostStoreStep ==
  ASSUME SysInv, HostStore
  PROVE  After'
<1> USE DEF recVars, ramVars, hwKeys, vars
<1>t. /\ TypeOK /\ HostInv /\ SlotsInv /\ MirrorInv /\ hostpc = "run"
      /\ Serving => ServingInv
      /\ pc \in {"dosign", "commit", "burn"} => SigningInv
  BY DEF SysInv, HostStore, FetchInv
<1>f. /\ hostpc' = "run" /\ pc = "idle" /\ ~unfetched'
      /\ host' = [rec |-> [host.rec EXCEPT ![active] = slots[active]], mc |-> nvm.rec.tx]
      /\ nvm.rec = slots[active]
      /\ slots' = slots /\ active' = active /\ nvm' = nvm /\ pc' = pc /\ log' = log
      /\ wrapped' = wrapped /\ seed' = seed /\ state' = state /\ ctr' = ctr
      /\ last_tx' = last_tx /\ kstate' = kstate /\ q' = q
  BY <1>t DEF HostStore, MirrorInv, SysInv, FetchInv
<1>a. /\ active \in Slot /\ inactive \in Slot /\ active # inactive
      /\ inactive = 1 - active /\ \A s \in Slot : s = active \/ s = inactive
      /\ \A s \in Slot : slots[s].tx \in Nat /\ host.rec[s].tx \in Nat
  BY <1>t DEF TypeOK, inactive, Slot, HostInv, GoodPair, GoodRec, Rec
<1>g. GoodPair(slots) /\ GoodPair(host.rec) /\ Covers(slots)
  BY <1>t DEF SlotsInv, HostInv
<1>d. /\ host'.rec = [s \in Slot |-> host'.rec[s]]
      /\ host'.rec[active] = slots[active]
      /\ host'.rec[inactive] = host.rec[inactive]
      /\ host'.mc \in Nat
  BY <1>f, <1>a, <1>g DEF GoodPair
<1>1. host.rec[inactive].tx <= slots[inactive].tx
  BY <1>t, <1>a DEF SlotsInv
<1>2. \A s \in Slot : host'.rec[s].tx <= slots[s].tx
  BY <1>a, <1>d, <1>1
<1>3. GoodPair(host'.rec) /\ Newest(host'.rec) = Newest(slots)
  <2>1. CASE slots = host.rec
    <3>1. host'.rec = slots
      BY <1>a, <1>d, <1>g, <2>1 DEF GoodPair
    <3> QED BY <1>g, <3>1
  <2>2. CASE slots[inactive].tx < slots[active].tx
    <3>1. host'.rec[inactive].tx < host'.rec[active].tx
      BY <1>a, <1>d, <1>1, <2>2
    <3>2. \A s \in Slot : GoodRec(host'.rec[s], s)
      BY <1>a, <1>d, <1>g DEF GoodPair
    <3>3. host'.rec[0].tx # host'.rec[1].tx
      BY <1>a, <1>d, <3>1 DEF Slot
    <3>4. GoodPair(host'.rec)
      BY <1>d, <3>2, <3>3 DEF GoodPair
    <3>5. Newest(host'.rec) = slots[active] /\ Newest(slots) = slots[active]
      BY <1>a, <1>d, <1>g, <2>2, <3>1, <3>4, NewestIs
    <3> QED BY <3>4, <3>5
  <2>3. CASE slots_all_zero
    <3>1. slots[active] = ZeroRec /\ slots[inactive] = ZeroRec
      BY <1>a, <2>3 DEF slots_all_zero
    <3>2. host.rec[inactive].tx = 0
      BY <1>a, <1>1, <3>1 DEF ZeroRec
    <3>3. host.rec[inactive] = ZeroRec
      BY <1>a, <1>g, <3>2 DEF GoodPair, GoodRec
    <3>4. host'.rec = slots
      BY <1>a, <1>d, <1>g, <3>1, <3>3 DEF GoodPair
    <3> QED BY <1>g, <3>4
  <2> QED BY <1>t, <2>1, <2>2, <2>3 DEF SlotsInv, ActiveNewest
<1>4. Covers(host.rec)'
  BY <1>f, <1>g, <1>3 DEF Covers, Newest, Recovered
<1>5. HostInv'
  BY <1>t, <1>f, <1>d, <1>3, <1>4 DEF HostInv, GoodPair, GoodRec
<1>6. SlotsInv'
  <2>1. ActiveNewest' \/ slots' = host'.rec
    <3>1. CASE slots = host.rec
      BY <1>a, <1>d, <1>f, <1>g, <3>1 DEF GoodPair
    <3>2. CASE ActiveNewest
      BY <1>f, <3>2 DEF ActiveNewest, inactive, slots_all_zero
    <3> QED BY <1>t, <3>1, <3>2 DEF SlotsInv
  <2>2. Covers(slots)' /\ GoodPair(slots)'
    BY <1>f, <1>g DEF Covers, Newest, Recovered, GoodPair, GoodRec
  <2> QED BY <1>2, <1>f, <2>1, <2>2 DEF SlotsInv
<1>7. MirrorInv'
  BY <1>t, <1>f DEF MirrorInv
<1>8. Serving' => ServingInv'
  BY <1>t, <1>f, ServingKept DEF Serving
<1> QED BY <1>f, <1>5, <1>6, <1>7, <1>8 DEF After

\* The reload procedure and a power loss.
LEMMA ReloadStep ==
  ASSUME Careful, SysInv, HostReload \/ PowerLoss
  PROVE  After'
<1> USE DEF recVars, ramVars, hwKeys
<1>t. TypeOK /\ HostInv
  BY DEF SysInv
<1>g. GoodPair(host.rec) /\ host.mc \in Nat
  BY <1>t DEF HostInv
<1>f. host' = host /\ log' = log
  BY DEF HostReload, PowerLoss, McLoad, NvmLoad, WrapLoad
<1>c. ~unfetched /\ Covers(host.rec) /\ ~unfetched'
  <2>1. CASE HostReload
    BY <2>1, <1>t DEF HostReload, HostInv
  <2>2. CASE PowerLoss
    BY <2>2, <1>t DEF PowerLoss, HostInv, Careful
  <2> QED BY <2>1, <2>2
<1>k. Covers(host.rec)'
  BY <1>c, <1>f DEF Covers, Newest, Recovered
<1>1. ASSUME hostpc' \in {"mc", "slot0", "slot1", "wrap", "boot"},
             state' = "BOOTING", pc' = "idle", seed' \in {0, 1},
             hostpc' = "slot1" => slots'[0] = host.rec[0],
             hostpc' \in {"wrap", "boot"} => slots' = host.rec,
             hostpc' = "boot" => wrapped' = HostBlob
      PROVE  After'
  <2>1. HostInv'
    BY <1>1, <1>g, <1>f, <1>c, <1>k DEF HostInv, GoodPair, GoodRec
  <2>2. ~Serving'
    BY <1>1 DEF Serving
  <2> QED BY <1>1, <2>1, <2>2 DEF After
<1>2. CASE PowerLoss
  BY <1>1, <1>2 DEF PowerLoss
<1>3. CASE HostReload
  <2>1. hostpc # "run" => state = "BOOTING" /\ pc = "idle" /\ seed \in {0, 1}
    BY <1>t DEF HostInv
  <2>2. CASE hostpc = "mc" /\ McLoad(host.mc) /\ hostpc' = "slot0"
    BY <1>1, <2>1, <2>2 DEF McLoad
  <2>s. slots \in [Slot -> Rec] /\ 0 \in Slot /\ 1 \in Slot
    BY <1>t DEF TypeOK, Slot
  <2>3. CASE hostpc = "slot0" /\ NvmLoad(0, host.rec[0]) /\ hostpc' = "slot1"
    BY <1>1, <2>1, <2>3, <2>s DEF NvmLoad
  <2>4. CASE hostpc = "slot1" /\ NvmLoad(1, host.rec[1]) /\ hostpc' = "wrap"
    <3>1. slots' = [slots EXCEPT ![1] = host.rec[1]] /\ slots[0] = host.rec[0]
      BY <1>t, <2>4 DEF NvmLoad, HostInv
    <3>2. slots' = host.rec
      <4>1. \A s \in Slot : slots'[s] = host.rec[s]
        BY <2>s, <3>1 DEF Slot
      <4>2. slots' = [s \in Slot |-> slots'[s]] /\ host.rec = [s \in Slot |-> host.rec[s]]
        BY <1>g, <2>s, <3>1 DEF GoodPair
      <4> QED BY <4>1, <4>2
    <3> QED BY <1>1, <2>1, <2>4, <3>2 DEF NvmLoad
  <2>5. CASE hostpc = "wrap" /\ WrapLoad(HostBlob) /\ hostpc' = "boot"
    BY <1>1, <1>t, <2>1, <2>5 DEF WrapLoad, HostInv
  <2> QED BY <1>3, <2>2, <2>3, <2>4, <2>5 DEF HostReload
<1> QED BY <1>2, <1>3

\* No power and no file at the start.
LEMMA SysInitInv == SysInit => SysInv
<1> SUFFICES ASSUME SysInit PROVE SysInv
  OBVIOUS
<1>1. TypeOK
  BY InitType DEF SysInit
<1>2. DOMAIN log = {}
  BY DEF SysInit, Init
<1>3. GoodRec(ZeroRec, 0) /\ GoodRec(ZeroRec, 1) /\ ~ZeroRec.magic
  BY ZeroRecType DEF GoodRec, ZeroRec
<1>4. GoodPair(host.rec)
  BY <1>3 DEF SysInit, GoodPair, Slot
<1>5. seed = 0
  BY SecSystemAssumption DEF SysInit, Init
<1>6. HostInv
  BY <1>2, <1>4, <1>5 DEF SysInit, Init, HostInv, Covers
<1> QED BY <1>1, <1>6 DEF SysInit, Init, SysInv, Serving, FetchInv

\* The invariant of the system is inductive.
LEMMA SysInductive ==
  ASSUME Careful
  PROVE  SysSpec => []SysInv
<1>1. SysInit => SysInv
  BY SysInitInv
<1>2. SysInv /\ [SysNext]_sysVars => SysInv'
  <2> SUFFICES ASSUME SysInv, [SysNext]_sysVars PROVE SysInv'
    OBVIOUS
  <2>1. TypeOK'
    BY SysStepType
  <2>f. FetchInv'
    BY FetchStep
  <2>2. CASE SysNext /\ ~HostFetch
    <3>1. After'
      BY <2>2, SysSignStep, SysBootStep, SysCommitStep, HostStoreStep, ReloadStep DEF SysNext
    <3> QED BY <2>1, <2>f, <3>1 DEF After, SysInv
  <2>3. CASE HostFetch \/ UNCHANGED sysVars
    <3>u. UNCHANGED <<vars, nvm, host, hostpc, unfetched>>
      BY <2>3 DEF HostFetch, sysVars
    <3> USE <3>u DEF vars, recVars, ramVars, hwKeys
    <3>1. HostInv'
      <4>1. Covers(host.rec)' <=> Covers(host.rec)
        BY DEF Covers, Newest, Recovered
      <4>2. GoodPair(host.rec)' <=> GoodPair(host.rec)
        BY DEF GoodPair, GoodRec
      <4> QED BY <4>1, <4>2 DEF SysInv, HostInv
    <3>2. hostpc' = "run" => SlotsInv' /\ MirrorInv'
      <4>1. hostpc' = "run" => SlotsInv'
        BY SlotsKept DEF SysInv
      <4> QED BY <4>1 DEF SysInv, MirrorInv
    <3>3. Serving' => hostpc' = "run" /\ ServingInv'
      BY DEF SysInv, Serving, ServingInv, ActiveNewest, inactive, slots_all_zero
    <3>4. pc' \in {"dosign", "commit", "burn"} => SigningInv'
      BY DEF SysInv, SigningInv
    <3> QED BY <2>1, <2>f, <3>1, <3>2, <3>3, <3>4 DEF SysInv
  <2> QED BY <2>2, <2>3
<1> QED BY <1>1, <1>2, PTL DEF SysSpec

-------------------------------------------------------------------------------
(* Results.                                                                *)

\* Once the host has fetched the mirror, the record BOOT would adopt from its
\* files recovers past every released leaf, after any number of power losses,
\* interrupted reloads, refused boots and failed commits.
THEOREM FilesCoverReleases ==
  ASSUME Careful
  PROVE  SysSpec => []HostCoversReleases
<1>1. SysInv => HostCoversReleases
  BY DEF SysInv, HostInv, Covers, Newest, HostCoversReleases, HostNewest
<1> QED BY <1>1, SysInductive, PTL

\* The device with its host is a one-time signer: the leaves go up across
\* power losses although everything the device keeps is volatile.
THEOREM SystemIsOneTimeSigner ==
  ASSUME Careful
  PROVE  SysSpec => OneTimeSignerSpec
<1>1. SysInit => OTS!Init
  BY DEF SysInit, Init, OTS!Init
<1>2. SysInv /\ [SysNext]_sysVars => [OTS!Release]_log
  <2> SUFFICES ASSUME SysInv, [SysNext]_sysVars PROVE [OTS!Release]_log
    OBVIOUS
  <2>1. CASE SysNext /\ SignRelease
    <3>1. pc = "commit" /\ log' = Append(log, [key |-> SignKey, q |-> q])
      BY <2>1 DEF SignRelease
    <3>2. SigningInv
      BY <3>1 DEF SysInv
    <3>3. SignKey \in 0..MaxRnd /\ q \in 0..(CtrMod - 1)
      BY SecSystemAssumption DEF SysInv, HostInv, TypeOK, SignKey
    <3>4. OTS!Unused(SignKey, q)
      BY <3>2 DEF SigningInv, OTS!Unused
    <3> QED BY <3>1, <3>3, <3>4 DEF OTS!Release
  <2>2. CASE SysNext /\ ~SignRelease
    <3>1. CASE SysSign \/ SysBoot \/ SysCommit
      <4>1. Next
        BY <3>1 DEF SysSign, SysBoot, SysCommit, Next
      <4> QED BY <2>2, <4>1, OnlyRelease
    <3>2. CASE HostFetch \/ HostStore \/ HostReload \/ PowerLoss
      BY <3>2 DEF HostFetch, HostStore, HostReload, PowerLoss, McLoad, NvmLoad, WrapLoad, vars
    <3> QED BY <2>2, <3>1, <3>2 DEF SysNext
  <2>3. CASE UNCHANGED sysVars
    BY <2>3 DEF sysVars, vars
  <2> QED BY <2>1, <2>2, <2>3
<1> QED BY <1>1, <1>2, SysInductive, PTL DEF SysSpec, OneTimeSignerSpec, OTS!Spec
===============================================================================
