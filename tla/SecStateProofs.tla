---------------------------- MODULE SecStateProofs ----------------------------
(***************************************************************************)
(* Proofs about the security state domain, for every build, every width of *)
(* the counters and every set of arguments a host may use.                 *)
(***************************************************************************)
EXTENDS SecState, TLAPS

USE SecStateAssumption

-------------------------------------------------------------------------------
(* Types.                                                                  *)

\* A remainder is below the modulus (the 32-bit additions of the code).
LEMMA ModRange ==
  ASSUME NEW a \in Nat, NEW b \in Nat \ {0}
  PROVE  a % b \in 0..(b - 1)
  BY Z3

\* An erased record is a record.
LEMMA ZeroRecType == ZeroRec \in Rec
  BY DEF ZeroRec, Rec, HwState, Slot

\* The tx a commit obtains from the hardware is a natural number.
LEMMA NextTxType ==
  ASSUME TypeOK
  PROVE  NextTx \in Nat
<1>1. (sim_mc + 1) % McMod \in 0..(McMod - 1)
  BY ModRange DEF TypeOK
<1> QED BY <1>1 DEF TypeOK, NextTx

\* state_commit, when it succeeds, keeps the records and registers typed.
LEMMA CommitOkType ==
  ASSUME TypeOK, NEW st \in HwState, NEW c \in 0..(CtrMod - 1), CommitOk(st, c)
  PROVE  /\ slots' \in [Slot -> Rec]
         /\ active' \in Slot
         /\ state' \in HwState
         /\ ctr' \in 0..(CtrMod - 1)
         /\ last_tx' \in Nat
         /\ sim_mc' \in Nat
<1>1. NextTx \in Nat
  BY NextTxType
<1>2. inactive \in Slot
  BY DEF inactive, TypeOK, Slot
<1>3. STATE_REC(st, c, NextTx, kstate, inactive) \in Rec
  BY <1>1, <1>2 DEF CommitOk, STATE_REC, Rec, TypeOK, NoKey
<1>4. slots' \in [Slot -> Rec]
  BY <1>2, <1>3 DEF CommitOk, TypeOK
<1> QED BY <1>1, <1>2, <1>4 DEF CommitOk

\* A failed commit moves at most the hardware counter.
LEMMA CommitFailType ==
  ASSUME TypeOK, CommitFail
  PROVE  /\ slots' \in [Slot -> Rec]
         /\ active' \in Slot
         /\ ctr' \in 0..(CtrMod - 1)
         /\ last_tx' \in Nat
         /\ sim_mc' \in Nat
  BY NextTxType DEF CommitFail, TypeOK

\* The counter BOOT recovers from a record fits its 32 bits.
LEMMA RecoveredType ==
  ASSUME NEW r \in Rec
  PROVE  Recovered(r) \in 0..(CtrMod - 1)
<1>1. r.ctr \in 0..(CtrMod - 1)
  BY DEF Rec
<1>2. (r.ctr + 1) % CtrMod \in 0..(CtrMod - 1)
  BY <1>1, ModRange
<1> QED BY <1>1, <1>2 DEF Recovered

\* A wrapped blob is a blob.
LEMMA WrappedType ==
  ASSUME NEW I \in Nat, NEW sd \in Nat
  PROVE  Wrapped(I, sd) \in Blob
  BY DEF Wrapped, Blob

\* sec_init establishes the types.
LEMMA InitType == Init => TypeOK
  BY ZeroRecType DEF Init, TypeOK, HwState, Slot, NoKey, NoBlob, Blob

\* Every handler of lms_sec_state.c keeps the variables typed.
LEMMA StepType == TypeOK /\ [Next]_vars => TypeOK'
<1> SUFFICES ASSUME TypeOK, [Next]_vars PROVE TypeOK'
  OBVIOUS
<1> USE DEF recVars, ramVars, hwKeys
<1>q. (q + 1) % CtrMod \in 0..(CtrMod - 1) /\ 0 \in 0..(CtrMod - 1)
  BY ModRange DEF TypeOK
<1>h. {"IDLE", "RESERVED", "ERROR_LOCKED", "BOOTING", "EXHAUSTED"} \subseteq HwState
  BY DEF HwState
<1>1. CASE SignExhausted
  BY <1>1 DEF SignExhausted, TypeOK, HwState
<1>2. CASE SignReserve
  <2>1. CASE CommitOk("RESERVED", ctr)
    BY <1>2, <2>1, <1>h, CommitOkType DEF SignReserve, TypeOK
  <2>2. CASE CommitFail /\ UNCHANGED state /\ pc' = "burn"
    BY <1>2, <2>2, <1>h, CommitFailType DEF SignReserve, TypeOK
  <2> QED BY <1>2, <2>1, <2>2 DEF SignReserve
<1>3. CASE SignDo
  BY <1>3 DEF SignDo, TypeOK
<1>4. CASE SignRelease
  <2>1. [key |-> SignKey, q |-> q] \in OneTimeKey
    BY DEF SignKey, OneTimeKey, TypeOK
  <2>2. log' \in Seq(OneTimeKey)
    BY <1>4, <2>1 DEF SignRelease, TypeOK
  <2> QED BY <1>4, <1>q, <1>h, <2>2, CommitOkType DEF SignRelease, TypeOK
<1>5. CASE SignCommitFail
  BY <1>5, CommitFailType DEF SignCommitFail, TypeOK
<1>6. CASE SignBurn
  <2>1. CASE CommitOk("IDLE", (q + 1) % CtrMod)
    BY <1>6, <2>1, <1>q, <1>h, CommitOkType DEF SignBurn, TypeOK
  <2>2. CASE CommitFail /\ UNCHANGED state
    BY <1>6, <2>2, <1>q, CommitFailType DEF SignBurn, TypeOK
  <2> QED BY <1>6, <2>1, <2>2 DEF SignBurn
<1>7. CASE UartCommit
  <2>1. PICK st \in HwState, c \in UartCtrs :
          CommitOk(st, c) \/ (CommitFail /\ UNCHANGED state)
    BY <1>7 DEF UartCommit
  <2>2. CASE CommitOk(st, c)
    BY <1>7, <2>2, CommitOkType DEF UartCommit, TypeOK
  <2>3. CASE CommitFail /\ UNCHANGED state
    BY <1>7, <2>3, CommitFailType DEF UartCommit, TypeOK
  <2> QED BY <2>1, <2>2, <2>3
<1>8. CASE UartInjectTag
  <2>1. slots' \in [Slot -> Rec]
    <3>1. slots[active] \in Rec
      BY DEF TypeOK
    <3>2. [slots[active] EXCEPT !.flip = ~slots[active].flip] \in Rec
      BY <3>1, Zenon DEF Rec
    <3>3. slots' = [slots EXCEPT ![active] = [slots[active] EXCEPT !.flip = ~slots[active].flip]]
      BY <1>8 DEF UartInjectTag, TypeOK
    <3> QED BY <3>2, <3>3 DEF TypeOK
  <2> QED BY <1>8, <2>1 DEF UartInjectTag, TypeOK
<1>9. CASE FactoryInit
  <2>1. key_I' \in Nat /\ rnd' \in Nat /\ kstate' \in Nat \cup {NoKey}
    BY <1>9 DEF FactoryInit, TypeOK, LoadKeysFail, LoadKeysOk
  <2>2. /\ wrapped' = wrapped \/ wrapped' = Wrapped(key_I', 1)
        /\ factory_locked' = factory_locked \/ factory_locked' = TRUE
        /\ seed' = seed \/ seed' = 1
    BY <1>9, Zenon DEF FactoryInit
  <2>w. Wrapped(key_I', 1) \in Blob
    BY <2>1, WrappedType
  <2>3. wrapped' \in Blob /\ seed' \in Nat
    BY <2>w, <2>2 DEF TypeOK
  <2>4. factory_locked' \in BOOLEAN
    BY <2>2, Zenon DEF TypeOK
  <2> QED BY <1>9, <2>1, <2>3, <2>4 DEF FactoryInit, TypeOK
<1>i. BootIds \subseteq Nat
  BY DEF BootIds, TypeOK
<1>10. CASE BootKeysFail
  BY <1>10, <1>i, <1>h DEF BootKeysFail, LoadKeysFail, TypeOK
<1>11. CASE BootUnwrapFail
  BY <1>11, <1>i, <1>h DEF BootUnwrapFail, LoadKeysOk, TypeOK, Blob
<1>12. CASE BootFresh
  BY <1>12, <1>i, <1>h, <1>q DEF BootFresh, BootKeys, UnwrapOk, LoadKeysOk, TypeOK, Blob
<1>13. CASE BootWait
  BY <1>13, <1>i, <1>h DEF BootWait, BootKeys, UnwrapOk, LoadKeysOk, TypeOK, Blob
<1>14. CASE BootRefuse
  BY <1>14, <1>i, <1>h DEF BootRefuse, BootKeys, UnwrapOk, LoadKeysOk, TypeOK, Blob,
     Provisioned
<1>15. CASE BootAdopt
  <2>1. PICK I \in BootIds : \E V \in BootViews(I) \ {{}} : Adopt(I, V)
    BY <1>15 DEF BootAdopt
  <2>a. PICK V \in BootViews(I) \ {{}} : Adopt(I, V)
    BY <2>1
  <2>2. Chosen(V) \in Slot
    BY DEF Chosen, Slot
  <2>3. slots[Chosen(V)] \in Rec
    BY <2>2 DEF TypeOK
  <2>4. active' \in Slot /\ last_tx' \in Nat
    BY <2>a, <2>2, <2>3 DEF Adopt, Rec
  <2>5. state' \in HwState /\ ctr' \in 0..(CtrMod - 1)
        /\ pc' \in {"idle", "dosign", "commit", "burn", "bootburn"}
        /\ factory_locked' \in BOOLEAN
    BY <2>a, <2>3, <1>h DEF Adopt, Rec, TypeOK, Provisioned
  <2>6. key_I' \in Nat /\ kstate' \in Nat \cup {NoKey} /\ seed' \in Nat /\ key_loaded' \in BOOLEAN
    BY <2>a, <1>i DEF Adopt, BootKeys, UnwrapOk, LoadKeysOk, TypeOK, Blob
  <2> QED BY <2>a, <2>4, <2>5, <2>6 DEF Adopt, TypeOK
<1>16. CASE BootBurn
  <2>1. Recovered(slots[active]) \in 0..(CtrMod - 1)
    BY RecoveredType DEF TypeOK
  <2>2. CASE CommitOk("IDLE", Recovered(slots[active]))
    BY <1>16, <2>1, <2>2, <1>h, CommitOkType DEF BootBurn, TypeOK
  <2>3. CASE CommitFail /\ state' = "ERROR_LOCKED" /\ UNCHANGED factory_locked
    BY <1>16, <2>3, <1>h, CommitFailType DEF BootBurn, TypeOK
  <2> QED BY <1>16, <2>2, <2>3 DEF BootBurn
<1>17. CASE KeygenKey
  <2>1. key_I' \in Nat /\ rnd' \in Nat
    BY <1>17 DEF KeygenKey, TypeOK
  <2>2. kstate' \in Nat \cup {NoKey}
    BY <1>17, <2>1 DEF KeygenKey, LoadKeysFail, LoadKeysOk, TypeOK
  <2>3. wrapped' \in Blob
    <3>1. wrapped' = wrapped \/ wrapped' = Wrapped(key_I', seed)
      BY <1>17, Zenon DEF KeygenKey
    <3> QED BY <2>1, <3>1, WrappedType DEF TypeOK
  <2> QED BY <1>17, <2>1, <2>2, <2>3 DEF KeygenKey, TypeOK
<1>18. CASE KeygenNewNoSeed
  BY <1>18 DEF KeygenNewNoSeed, TypeOK
<1>19. CASE KeygenNewHalf
  BY <1>19 DEF KeygenNewHalf, NewKey, LoadKeysFail, TypeOK
<1>20. CASE KeygenNew
  BY <1>20, <1>h, <1>q, ZeroRecType DEF KeygenNew, NewKey, LoadKeysOk, Wrapped, Blob,
     TypeOK, Slot
<1>21. CASE UNCHANGED vars
  BY <1>21 DEF vars, TypeOK
<1> QED
  BY <1>1, <1>2, <1>3, <1>4, <1>5, <1>6, <1>7, <1>8, <1>9, <1>10, <1>11, <1>12,
     <1>13, <1>14, <1>15, <1>16, <1>17, <1>18, <1>19, <1>20, <1>21
     DEF Next, Sign, Boot, Keygen

\* The variables of lms_sec_state.c and the hardware registers stay in range
\* in every reachable state.
THEOREM TypeCorrect == Spec => []TypeOK
  BY InitType, StepType, PTL DEF Spec
-------------------------------------------------------------------------------
(* Safety: no one-time key is released twice.                              *)

\* Below the top the increment of a counter does not wrap.
LEMMA NoWrap ==
  ASSUME NEW c \in 0..(CtrMod - 1), c < CtrMod - 1
  PROVE  (c + 1) % CtrMod = c + 1
  BY Z3

\* The entries of a typed log are one-time keys.
LEMMA LogType ==
  ASSUME TypeOK
  PROVE  \A i \in DOMAIN log : log[i].key \in Nat /\ log[i].q \in 0..(CtrMod - 1)
<1>1. \A i \in DOMAIN log : log[i] \in OneTimeKey
  BY DEF TypeOK
<1> QED BY <1>1 DEF OneTimeKey

\* A step that keeps log, records and counter, and makes no key live that was
\* used before, keeps the safety part of the invariant.
LEMMA KeepRecords ==
  ASSUME SafetyInv, log' = log, slots' = slots, ctr' = ctr,
         LiveKeys' \subseteq LiveKeys \cup {rnd + 1}
  PROVE  LiveBelowCtr' /\ SlotsCoverReleases' /\ LeavesIncrease'
<1>1. \A i \in DOMAIN log : log[i].key # rnd + 1
  BY DEF SafetyInv, KeysKnown, TypeOK, OneTimeKey
<1>2. \A i \in DOMAIN log' : log'[i].key \in LiveKeys' => log[i].key \in LiveKeys
  BY <1>1
<1>3. LiveBelowCtr'
  BY <1>2 DEF SafetyInv, LiveBelowCtr
<1>4. SlotsCoverReleases'
  BY <1>2 DEF SafetyInv, SlotsCoverReleases, Recovered
<1>5. LeavesIncrease'
  BY DEF SafetyInv, LeavesIncrease
<1> QED BY <1>3, <1>4, <1>5

\* A successful state_commit that no live release reaches, with the same keys
\* live, keeps the safety part of the invariant.
LEMMA CommitKeeps ==
  ASSUME SafetyInv, NEW st \in HwState, NEW c \in 0..(CtrMod - 1), CommitOk(st, c),
         log' = log, LiveKeys' = LiveKeys,
         st = "RESERVED" => c < CtrMod - 1,
         \A i \in DOMAIN log : log[i].key \in LiveKeys => log[i].q < c
  PROVE  LiveBelowCtr' /\ SlotsCoverReleases' /\ LeavesIncrease'
<1> DEFINE new == STATE_REC(st, c, NextTx, kstate, inactive)
<1>1. inactive \in Slot /\ active \in Slot /\ slots \in [Slot -> Rec]
  BY DEF SafetyInv, TypeOK, inactive, Slot
<1>2. slots' = [slots EXCEPT ![inactive] = new] /\ ctr' = c
  BY DEF CommitOk
<1>3. new.magic /\ c <= Recovered(new)
  <2>1. st = "RESERVED" => (c + 1) % CtrMod = c + 1
    BY NoWrap
  <2> QED BY <2>1 DEF STATE_REC, Recovered
<1>4. Recovered(new) \in Nat
  <2>1. (c + 1) % CtrMod \in 0..(CtrMod - 1)
    BY ModRange
  <2> QED BY <2>1 DEF STATE_REC, Recovered
<1> HIDE DEF new
<1>5. SlotsCoverReleases'
  <2> SUFFICES ASSUME NEW i \in DOMAIN log, log[i].key \in LiveKeys, NEW s \in Slot
               PROVE  slots'[s].magic /\ log[i].q < Recovered(slots'[s])
    BY DEF SlotsCoverReleases, Recovered
  <2>1. log[i].q < c /\ log[i].q \in Nat
    <3>1. log[i].q \in 0..(CtrMod - 1)
      BY LogType DEF SafetyInv
    <3> QED BY <3>1
  <2>2. CASE s = inactive
    BY <1>1, <1>2, <1>3, <1>4, <2>1, <2>2
  <2>3. CASE s # inactive
    BY <1>1, <1>2, <2>3 DEF SafetyInv, SlotsCoverReleases
  <2> QED BY <2>2, <2>3
<1>6. LiveBelowCtr'
  BY <1>2 DEF LiveBelowCtr
<1>7. LeavesIncrease'
  BY DEF SafetyInv, LeavesIncrease
<1> QED BY <1>5, <1>6, <1>7

\* Nothing is released at power-up and no leaf is past the counter.
LEMMA InitSafety == Init => SafetyInv
<1> SUFFICES ASSUME Init PROVE SafetyInv
  OBVIOUS
<1>1. TypeOK
  BY InitType
<1>2. DOMAIN log = {}
  BY DEF Init
<1> QED
  BY <1>1, <1>2 DEF Init, SafetyInv, KeysKnown, HandlerSteps, LiveBelowCtr,
     SlotsCoverReleases, LeavesIncrease, NoBlob

\* The keys in use after a step were in use before it or are the next one drawn.
LEMMA StepKeys == SafetyInv /\ Next => KeysKnown'
<1> SUFFICES ASSUME SafetyInv, Next PROVE KeysKnown'
  OBVIOUS
<1> USE DEF recVars, ramVars, hwKeys
<1>t. TypeOK /\ KeysKnown
  BY DEF SafetyInv
<1>b. rnd \in Nat /\ key_I \in Nat /\ seed \in Nat /\ wrapped.seed \in Nat
  BY <1>t DEF TypeOK, Blob
<1>1. CASE SignRelease
  <2>1. SignKey <= rnd
    BY <1>t DEF SignKey, KeysKnown
  <2>2. \A i \in DOMAIN log' : log'[i].key <= rnd
    BY <1>1, <1>t, <2>1 DEF SignRelease, TypeOK, KeysKnown
  <2> QED BY <1>1, <1>t, <2>2 DEF SignRelease, KeysKnown
<1>2. CASE SignExhausted \/ SignReserve \/ SignDo \/ SignCommitFail \/ SignBurn
           \/ UartCommit \/ UartInjectTag
  BY <1>2, <1>t DEF SignExhausted, SignReserve, SignDo, SignCommitFail, SignBurn,
     UartCommit, UartInjectTag, KeysKnown
<1>l. log' = log => \A i \in DOMAIN log' : log'[i].key <= rnd /\ log'[i].key <= rnd + 1
  BY <1>t, <1>b, LogType DEF KeysKnown
<1>3. CASE FactoryInit
  <2>1. /\ wrapped' = wrapped \/ wrapped' = Wrapped(key_I', 1)
        /\ seed' = seed \/ seed' = 1
        /\ rnd' = rnd + 1 /\ key_I' = rnd + 1 /\ rnd < MaxRnd /\ log' = log
    BY <1>3, Zenon DEF FactoryInit
  <2>2. wrapped'.seed <= rnd + 1
    BY <2>1, <1>t, <1>b DEF Wrapped, KeysKnown
  <2> QED BY <2>1, <2>2, <1>t, <1>b, <1>l DEF KeysKnown
<1>i. BootIds \subseteq 0..rnd
  BY <1>t, <1>b DEF BootIds, KeysKnown
<1>4. CASE BootKeysFail
  BY <1>4, <1>t, <1>i DEF BootKeysFail, KeysKnown
<1>5. CASE BootUnwrapFail
  BY <1>5, <1>t, <1>i DEF BootUnwrapFail, KeysKnown
<1>6. ASSUME NEW I \in BootIds, BootKeys(I), wrapped' = wrapped, rnd' = rnd, log' = log
      PROVE  KeysKnown'
  BY <1>6, <1>t, <1>i DEF BootKeys, UnwrapOk, KeysKnown
<1>7. CASE BootFresh \/ BootWait \/ BootRefuse \/ BootAdopt
  BY <1>6, <1>7 DEF BootFresh, BootWait, BootRefuse, BootAdopt, Adopt
<1>8. CASE BootBurn
  BY <1>8, <1>t DEF BootBurn, KeysKnown
<1>9. CASE KeygenKey
  <2>1. /\ wrapped' = wrapped \/ wrapped' = Wrapped(key_I', seed)
        /\ seed' = seed /\ log' = log
    BY <1>9, Zenon DEF KeygenKey
  <2>2. /\ rnd' = rnd \/ (rnd < MaxRnd /\ rnd' = rnd + 1)
        /\ key_I' <= rnd'
    BY <1>9, <1>t, <1>b DEF KeygenKey, KeysKnown
  <2>3. wrapped'.seed <= rnd
    BY <2>1, <1>t DEF Wrapped, KeysKnown
  <2>4. rnd' \in 1..MaxRnd /\ rnd <= rnd'
    BY <2>2, <1>t, <1>b DEF KeysKnown
  <2>5. seed' <= rnd' /\ wrapped'.seed <= rnd'
    BY <2>1, <2>3, <2>4, <1>t, <1>b, WrappedType DEF KeysKnown, Wrapped
  <2>6. \A i \in DOMAIN log' : log'[i].key <= rnd'
    BY <2>1, <2>2, <1>l
  <2> QED BY <2>2, <2>4, <2>5, <2>6 DEF KeysKnown
<1>10. CASE KeygenNewNoSeed
  BY <1>10, <1>t, <1>b, <1>l DEF KeygenNewNoSeed, KeysKnown
<1>11. CASE KeygenNewHalf
  BY <1>11, <1>t, <1>b, <1>l DEF KeygenNewHalf, NewKey, KeysKnown
<1>12. CASE KeygenNew
  <2>1. /\ rnd' = rnd + 1 /\ rnd < MaxRnd /\ key_I' = rnd + 1 /\ log' = log
        /\ seed' <= rnd + 1
    BY <1>12, <1>t, <1>b DEF KeygenNew, NewKey, KeysKnown
  <2>2. wrapped'.seed <= rnd + 1
    BY <1>12, <2>1 DEF KeygenNew, Wrapped
  <2> QED BY <2>1, <2>2, <1>t, <1>b, <1>l DEF KeysKnown
<1> QED
  BY <1>1, <1>2, <1>3, <1>4, <1>5, <1>7, <1>8, <1>9, <1>10, <1>11, <1>12
     DEF Next, Sign, Boot, Keygen
\* sec_sign stays on the leaf it reserved until it answers.
LEMMA StepHandler == TypeOK /\ HandlerSteps /\ Next => HandlerSteps'
<1> SUFFICES ASSUME TypeOK, HandlerSteps, Next PROVE HandlerSteps'
  OBVIOUS
<1> USE DEF recVars, ramVars, hwKeys
<1>t. TypeOK /\ HandlerSteps
  OBVIOUS
<1>i. inactive \in Slot /\ slots \in [Slot -> Rec]
  BY <1>t DEF TypeOK, inactive, Slot
<1>1. CASE SignReserve
  <2>1. ctr < CtrMod - 1 /\ q' = ctr
    BY <1>1, <1>t DEF SignReserve, TypeOK
  <2>2. CASE CommitOk("RESERVED", ctr) /\ pc' = "dosign"
    <3>1. slots'[active'] = STATE_REC("RESERVED", ctr, NextTx, kstate,
    inactive) /\ ctr' = ctr
      BY <2>2, <1>i DEF CommitOk
    <3> QED BY <2>1, <2>2, <3>1 DEF HandlerSteps, STATE_REC
  <2>3. CASE CommitFail /\ pc' = "burn"
    BY <2>1, <2>3 DEF CommitFail, HandlerSteps
  <2> QED BY <1>1, <2>2, <2>3 DEF SignReserve
<1>2. CASE SignDo
  BY <1>2, <1>t DEF SignDo, HandlerSteps
<1>3. CASE SignCommitFail
  BY <1>3, <1>t DEF SignCommitFail, CommitFail, HandlerSteps
<1>4. CASE BootAdopt
  <2>1. PICK I \in BootIds : \E V \in BootViews(I) \ {{}} : Adopt(I, V)
    BY <1>4 DEF BootAdopt
  <2>2. PICK V \in BootViews(I) \ {{}} : Adopt(I, V)
    BY <2>1
  <2>3. slots[Chosen(V)].magic
    <3>1. V \subseteq {s \in Slot : rec_valid(s, I)} /\ V # {}
      BY DEF BootViews
    <3>2. Chosen(V) \in V
      BY <3>1 DEF Chosen, Slot
    <3> QED BY <3>1, <3>2 DEF rec_valid
  <2>4. slots'[active'].magic /\ pc' \in {"bootburn", pc} /\ pc = "idle"
    BY <2>2, <2>3 DEF Adopt, BootKeys
  <2> QED BY <2>4 DEF HandlerSteps
<1>5. CASE pc' = "idle"
  BY <1>5 DEF HandlerSteps
<1> QED
  BY <1>1, <1>2, <1>3, <1>4, <1>5 DEF Next, Sign, Boot, Keygen, SignExhausted,
     SignRelease, SignBurn, BootKeysFail, BootUnwrapFail, BootFresh, BootWait,
     BootRefuse, BootKeys, BootBurn, KeygenKey, KeygenNewNoSeed, KeygenNewHalf,
     KeygenNew, NewKey, UartCommit, UartInjectTag, FactoryInit

\* Every handler keeps the counter and both records past the live releases.
LEMMA StepSafety ==
  ASSUME HostBelowTop, Deploy, SafetyInv, Next
  PROVE  LiveBelowCtr' /\ SlotsCoverReleases' /\ LeavesIncrease'
<1> DEFINE Goal == LiveBelowCtr' /\ SlotsCoverReleases' /\ LeavesIncrease'
<1> USE DEF recVars, ramVars, hwKeys
<1>t. /\ TypeOK /\ KeysKnown /\ HandlerSteps
      /\ LiveBelowCtr /\ SlotsCoverReleases /\ LeavesIncrease
  BY DEF SafetyInv
<1>n. ctr \in 0..(CtrMod - 1) /\ q \in 0..(CtrMod - 1)
      /\ \A i \in DOMAIN log : log[i].q \in 0..(CtrMod - 1)
  BY <1>t, LogType DEF TypeOK
<1>h. "IDLE" \in HwState /\ "RESERVED" \in HwState
  BY DEF HwState
<1>l. ramVars' = ramVars /\ hwKeys' = hwKeys => LiveKeys' = LiveKeys
  BY DEF LiveKeys
<1>1. CASE SignExhausted \/ SignDo
  BY <1>1, <1>l, KeepRecords DEF SignExhausted, SignDo
<1>2. CASE SignReserve
  <2>1. ctr < CtrMod - 1
    BY <1>2, <1>n DEF SignReserve
  <2>2. CASE CommitOk("RESERVED", ctr)
    BY <1>2, <1>t, <1>n, <1>h, <1>l, <2>1, <2>2, CommitKeeps DEF SignReserve, LiveBelowCtr
  <2>3. CASE CommitFail
    BY <1>2, <1>l, <2>3, KeepRecords DEF SignReserve, CommitFail
  <2> QED BY <1>2, <2>2, <2>3 DEF SignReserve
<1>3. CASE SignCommitFail
  BY <1>3, <1>l, KeepRecords DEF SignCommitFail, CommitFail
<1>q. pc \in {"commit", "burn"} =>
        /\ (q + 1) % CtrMod = q + 1
        /\ q + 1 \in 0..(CtrMod - 1)
        /\ \A i \in DOMAIN log : log[i].key \in LiveKeys => log[i].q < q + 1
  BY <1>t, <1>n, NoWrap DEF HandlerSteps, LiveBelowCtr
<1>4. CASE SignBurn
  <2>1. CASE CommitOk("IDLE", (q + 1) % CtrMod)
    BY <1>4, <1>q, <1>h, <1>l, <2>1, CommitKeeps DEF SignBurn
  <2>2. CASE CommitFail
    BY <1>4, <1>l, <2>2, KeepRecords DEF SignBurn, CommitFail
  <2> QED BY <1>4, <2>1, <2>2 DEF SignBurn
<1>5. CASE UartCommit
  <2>1. PICK st \in HwState, c \in UartCtrs :
          /\ c >= ctr
          /\ CommitOk(st, c) \/ (CommitFail /\ UNCHANGED state)
    BY <1>5 DEF UartCommit
  <2>2. c \in 0..(CtrMod - 1) /\ c < CtrMod - 1
    BY DEF HostBelowTop
  <2>3. \A i \in DOMAIN log : log[i].key \in LiveKeys => log[i].q < c
    BY <1>t, <1>n, <2>1, <2>2 DEF LiveBelowCtr
  <2>4. CASE CommitOk(st, c)
    BY <1>5, <1>l, <2>2, <2>3, <2>4, CommitKeeps DEF UartCommit
  <2>5. CASE CommitFail
    BY <1>5, <1>l, <2>5, KeepRecords DEF UartCommit, CommitFail
  <2> QED BY <2>1, <2>4, <2>5
<1>6. CASE UartInjectTag
  <2>1. \A s \in Slot : /\ slots'[s].magic = slots[s].magic
                        /\ slots'[s].state = slots[s].state
                        /\ slots'[s].ctr = slots[s].ctr
    BY <1>6, <1>t DEF UartInjectTag, TypeOK, Rec
  <2>2. SlotsCoverReleases'
    BY <1>6, <1>l, <1>t, <2>1 DEF UartInjectTag, SlotsCoverReleases, Recovered
  <2> QED BY <1>6, <1>l, <1>t, <2>2 DEF UartInjectTag, LiveBelowCtr, LeavesIncrease
<1>7. CASE FactoryInit
  <2>1. LiveKeys' = {rnd + 1}
    BY <1>7 DEF FactoryInit, LiveKeys
  <2> QED BY <1>7, <2>1, KeepRecords DEF FactoryInit
<1>8. CASE BootKeysFail
  <2>1. LiveKeys' \subseteq LiveKeys
    BY <1>8 DEF BootKeysFail, LiveKeys, BootIds
  <2> QED BY <1>8, <2>1, KeepRecords DEF BootKeysFail
<1>9. CASE BootUnwrapFail
  <2>1. LiveKeys' \subseteq LiveKeys
    BY <1>9 DEF BootUnwrapFail, LiveKeys, BootIds
  <2> QED BY <1>9, <2>1, KeepRecords DEF BootUnwrapFail
<1>k. ASSUME NEW I \in BootIds, BootKeys(I), wrapped' = wrapped
      PROVE  LiveKeys' \subseteq LiveKeys
  BY <1>k DEF BootKeys, UnwrapOk, LiveKeys, BootIds
<1>10. CASE BootFresh
  <2>1. LiveKeys' \subseteq LiveKeys /\ log' = log /\ slots' = slots
    BY <1>10, <1>k DEF BootFresh
  <2>2. \A i \in DOMAIN log : log[i].key \notin LiveKeys
    <3>1. ~slots[0].magic
      BY <1>10 DEF BootFresh, slots_all_zero, ZeroRec, Slot
    <3> QED BY <3>1, <1>t DEF SlotsCoverReleases, Slot
  <2> QED BY <1>t, <2>1, <2>2 DEF LiveBelowCtr, SlotsCoverReleases, LeavesIncrease,
             Recovered
<1>11. CASE BootWait \/ BootRefuse
  <2>1. LiveKeys' \subseteq LiveKeys
    BY <1>11, <1>k DEF BootWait, BootRefuse
  <2> QED BY <1>11, <2>1, KeepRecords DEF BootWait, BootRefuse
<1>12. CASE BootAdopt
  <2>1. PICK I \in BootIds : \E V \in BootViews(I) \ {{}} : Adopt(I, V)
    BY <1>12 DEF BootAdopt
  <2>2. PICK V \in BootViews(I) \ {{}} : Adopt(I, V)
    BY <2>1
  <2>3. LiveKeys' \subseteq LiveKeys /\ log' = log /\ slots' = slots
    BY <1>k, <2>2 DEF Adopt
  <2>4. CASE ctr' = ctr
    BY <2>3, <2>4, KeepRecords
  <2>5. CASE ctr' = slots[Chosen(V)].ctr /\ slots[Chosen(V)].state # "RESERVED"
    <3>1. Chosen(V) \in Slot
      BY DEF Chosen, Slot
    <3>2. \A i \in DOMAIN log : log[i].key \in LiveKeys => log[i].q < ctr'
      BY <1>t, <2>5, <3>1 DEF SlotsCoverReleases, Recovered
    <3> QED BY <1>t, <2>3, <3>2 DEF LiveBelowCtr, SlotsCoverReleases, LeavesIncrease,
               Recovered
  <2> QED BY <2>2, <2>4, <2>5 DEF Adopt
<1>13. CASE BootBurn
  <2>1. active \in Slot /\ slots[active] \in Rec
    BY <1>t DEF TypeOK
  <2>2. CASE CommitOk("IDLE", Recovered(slots[active]))
    <3>1. Recovered(slots[active]) \in 0..(CtrMod - 1)
      BY <2>1, RecoveredType
    <3>2. \A i \in DOMAIN log : log[i].key \in LiveKeys => log[i].q < Recovered(slots[active])
      BY <1>t, <2>1 DEF SlotsCoverReleases
    <3>3. LiveKeys' = LiveKeys
      BY <1>13 DEF BootBurn, LiveKeys
    <3> QED BY <1>13, <1>h, <2>2, <3>1, <3>2, <3>3, CommitKeeps DEF BootBurn
  <2>3. CASE CommitFail
    <3>1. LiveKeys' = LiveKeys
      BY <1>13 DEF BootBurn, LiveKeys
    <3> QED BY <1>13, <2>3, <3>1, KeepRecords DEF BootBurn, CommitFail
  <2> QED BY <1>13, <2>2, <2>3 DEF BootBurn
<1>14. CASE KeygenKey
  <2>1. /\ wrapped' = wrapped \/ wrapped' = Wrapped(key_I', seed)
        /\ ~Deploy => key_I' = key_I
        /\ seed' = seed
    BY <1>14, Zenon DEF KeygenKey
  <2>2. LiveKeys' \subseteq LiveKeys
    BY <2>1 DEF LiveKeys, Wrapped
  <2> QED BY <1>14, <2>2, KeepRecords DEF KeygenKey
<1>15. CASE KeygenNewNoSeed
  <2>1. LiveKeys' \subseteq LiveKeys \cup {rnd + 1}
    BY <1>15 DEF KeygenNewNoSeed, LiveKeys
  <2> QED BY <1>15, <2>1, KeepRecords DEF KeygenNewNoSeed
<1>16. CASE KeygenNewHalf
  <2>1. LiveKeys' \subseteq LiveKeys \cup {rnd + 1}
    BY <1>16 DEF KeygenNewHalf, NewKey, LiveKeys
  <2> QED BY <1>16, <2>1, KeepRecords DEF KeygenNewHalf
<1>17. CASE KeygenNew
  <2>1. LiveKeys' = {rnd + 1} /\ log' = log
    BY <1>17 DEF KeygenNew, NewKey, LiveKeys, Wrapped
  <2>2. \A i \in DOMAIN log : log[i].key # rnd + 1
    BY <1>t, LogType DEF KeysKnown, TypeOK
  <2> QED BY <1>t, <2>1, <2>2 DEF LiveBelowCtr, SlotsCoverReleases, LeavesIncrease
<1>18. CASE SignRelease
  <2> DEFINE new == [key |-> SignKey, q |-> q]
  <2>1. /\ log' = Append(log, new)
        /\ CommitOk("IDLE", q + 1)
        /\ pc = "commit"
        /\ LiveKeys' = LiveKeys
    BY <1>18, <1>q, <1>l DEF SignRelease
  <2>2. /\ DOMAIN log' = DOMAIN log \cup {Len(log) + 1}
        /\ \A i \in DOMAIN log : log'[i] = log[i] /\ i < Len(log) + 1
        /\ log'[Len(log) + 1] = new
    BY <1>t, <2>1 DEF TypeOK
  <2>3. SignKey \in LiveKeys /\ ctr = q /\ q < CtrMod - 1
    BY <1>t, <2>1 DEF SignKey, LiveKeys, HandlerSteps
  <2>4. \A i \in DOMAIN log : log[i].key = SignKey => log[i].q < q
    BY <1>t, <2>3 DEF LiveBelowCtr
  <2>5. LeavesIncrease'
    <3> SUFFICES ASSUME NEW i \in DOMAIN log', NEW j \in DOMAIN log',
                        i < j, log'[i].key = log'[j].key
                 PROVE  log'[i].q < log'[j].q
      BY DEF LeavesIncrease
    <3>1. i \in DOMAIN log
      BY <1>t, <2>2 DEF TypeOK
    <3>2. CASE j \in DOMAIN log
      BY <1>t, <2>2, <3>1, <3>2 DEF LeavesIncrease
    <3>3. CASE j = Len(log) + 1
      BY <2>2, <2>4, <3>1, <3>3
    <3> QED BY <2>2, <3>2, <3>3
  <2>6. LiveBelowCtr'
    <3>1. ctr' = q + 1 /\ q < ctr' /\ ctr < ctr'
      BY <1>n, <1>q, <2>1, <2>3 DEF CommitOk
    <3>2. \A i \in DOMAIN log : log[i].key \in LiveKeys => log[i].q < ctr'
      BY <1>t, <3>1, LogType DEF LiveBelowCtr, TypeOK
    <3>3. new.q < ctr'
      BY <3>1
    <3> QED BY <2>1, <2>2, <3>2, <3>3 DEF LiveBelowCtr
  <2>7. SlotsCoverReleases'
    <3>1. active \in Slot /\ inactive \in Slot /\ slots \in [Slot -> Rec]
          /\ \A s \in Slot : s = active \/ s = inactive
      BY <1>t DEF TypeOK, inactive, Slot
    <3>2. /\ slots'[inactive].magic
          /\ Recovered(slots'[inactive]) = q + 1
      BY <2>1, <3>1 DEF CommitOk, STATE_REC, Recovered
    <3>3. /\ slots'[active] = slots[active]
          /\ slots[active].magic
          /\ Recovered(slots[active]) = q + 1
      <4>1. active # inactive
        BY <3>1 DEF inactive, Slot
      <4>2. slots'[active] = slots[active]
        BY <2>1, <3>1, <4>1 DEF CommitOk
      <4> QED BY <1>t, <1>q, <2>1, <4>2 DEF HandlerSteps, Recovered
    <3>4. \A i \in DOMAIN log' : log'[i].key \in LiveKeys' => log'[i].q < q + 1
      BY <1>n, <1>q, <2>1, <2>2
    <3> QED BY <3>1, <3>2, <3>3, <3>4 DEF SlotsCoverReleases, Recovered
  <2> QED BY <2>5, <2>6, <2>7
<1> QED
  BY <1>1, <1>2, <1>3, <1>4, <1>5, <1>6, <1>7, <1>8, <1>9, <1>10, <1>11, <1>12,
     <1>13, <1>14, <1>15, <1>16, <1>17, <1>18
     DEF Next, Sign, Boot, Keygen
\* The inductive invariant holds in a deploy build, as long as the host keeps
\* COMMIT below the top of the counter.
LEMMA SafetyInductive ==
  ASSUME HostBelowTop, Deploy
  PROVE  Spec => []SafetyInv
<1>1. Init => SafetyInv
  BY InitSafety
<1>2. SafetyInv /\ [Next]_vars => SafetyInv'
  <2> SUFFICES ASSUME SafetyInv, [Next]_vars PROVE SafetyInv'
    OBVIOUS
  <2>1. TypeOK'
    BY StepType DEF SafetyInv
  <2>2. CASE Next
    BY <2>1, <2>2, StepKeys, StepHandler, StepSafety DEF SafetyInv
  <2>3. CASE UNCHANGED vars
    <3>1. /\ log' = log /\ slots' = slots /\ ctr' = ctr /\ active' = active
          /\ pc' = pc /\ q' = q /\ rnd' = rnd
          /\ key_I' = key_I /\ seed' = seed /\ wrapped' = wrapped
      BY <2>3 DEF vars, recVars, ramVars, hwKeys
    <3>2. LiveKeys' = LiveKeys
      BY <3>1 DEF LiveKeys
    <3>3. LiveBelowCtr' /\ SlotsCoverReleases' /\ LeavesIncrease'
      BY <3>1, <3>2, KeepRecords
    <3> QED BY <2>1, <3>1, <3>3 DEF SafetyInv, KeysKnown, HandlerSteps
  <2> QED BY <2>2, <2>3
<1> QED BY <1>1, <1>2, PTL DEF Spec

\* sec_sign of a deploy build releases the leaves of a key in strictly
\* increasing order, through any sequence of commands and any failures of the
\* hardware.  (In a test build a BOOT with the I of an earlier key brings that
\* key back, with the one SEED there is.)
THEOREM NoLeafTwice ==
  ASSUME HostBelowTop, Deploy
  PROVE  Spec => []LeavesIncrease
<1>1. SafetyInv => LeavesIncrease
  BY DEF SafetyInv
<1> QED BY <1>1, SafetyInductive, PTL

\* Release(sigma_q) => Committed(CTR >= q+1) holds of each slot alone, so one
\* of the two records may be lost at any time.
THEOREM EachSlotCovers ==
  ASSUME HostBelowTop, Deploy
  PROVE  Spec => []SlotsCoverReleases
<1>1. SafetyInv => SlotsCoverReleases
  BY DEF SafetyInv
<1> QED BY <1>1, SafetyInductive, PTL

-------------------------------------------------------------------------------
(* The record pair: larger tx, larger counter; the snapshot is the active  *)
(* record.                                                                 *)

\* What sec_slots, sec_active_slot, sec_last_tx and the RAM snapshot keep to
\* each other at every step of every handler, a lost commit or a lost record
\* check included.
RecordPair ==
  /\ slots[active].magic => slots[active].tx = last_tx
  /\ \A s \in Slot : slots[s].magic => slots[active].magic
  /\ \A s \in Slot : slots[s].state = "RESERVED" => slots[s].ctr < CtrMod - 1
  /\ state \in {"IDLE", "RESERVED", "KEYGEN_PENDING"} /\ slots[active].magic =>
       slots[active].ctr = ctr /\ slots[active].state = state

\* The steps of sec_sign run on a served snapshot, the burn of BOOT on none.
StepState ==
  /\ pc \in {"dosign", "commit", "burn"} => state \in {"IDLE", "RESERVED"}
  /\ pc = "bootburn" => state = "BOOTING"

RecordInv == TypeOK /\ HandlerSteps /\ RecordPair /\ StepState /\ TxOrdersCounters

\* The two slots are the active one and the other.
LEMMA TwoSlots ==
  ASSUME TypeOK
  PROVE  /\ active \in Slot /\ inactive \in Slot /\ active # inactive
         /\ \A s \in Slot : s = active \/ s = inactive
         /\ slots \in [Slot -> Rec]
         /\ \A s \in Slot : slots[s].ctr \in 0..(CtrMod - 1) /\ slots[s].tx \in Nat
  BY DEF TypeOK, inactive, Slot, Rec

\* A successful state_commit that does not step back from the active record
\* leaves the pair ordered, and its record is the snapshot.
LEMMA CommitRecords ==
  ASSUME TypeOK, RecordPair, TxOrdersCounters,
         NEW st \in HwState, NEW c \in 0..(CtrMod - 1), CommitOk(st, c),
         slots[active].magic => slots[active].ctr <= c,
         st = "RESERVED" => c < CtrMod - 1
  PROVE  RecordPair' /\ TxOrdersCounters'
<1>1. /\ active \in Slot /\ inactive \in Slot /\ active # inactive
      /\ \A s \in Slot : s = active \/ s = inactive
      /\ slots \in [Slot -> Rec]
      /\ \A s \in Slot : slots[s].ctr \in 0..(CtrMod - 1) /\ slots[s].tx \in Nat
  BY TwoSlots
<1>2. NextTx \in Nat /\ NextTx > last_tx /\ last_tx \in Nat
  BY NextTxType DEF CommitOk, TypeOK
<1>3. /\ active' = inactive /\ last_tx' = NextTx /\ state' = st /\ ctr' = c
      /\ slots'[inactive] = STATE_REC(st, c, NextTx, kstate, inactive)
      /\ slots'[active] = slots[active]
  BY <1>1 DEF CommitOk
<1>4. /\ slots'[inactive].magic /\ slots'[inactive].tx = NextTx
      /\ slots'[inactive].ctr = c /\ slots'[inactive].state = st
  BY <1>3 DEF STATE_REC
<1>5. RecordPair'
  BY <1>1, <1>3, <1>4 DEF RecordPair
<1>6. slots'[active].magic => slots'[active].tx < NextTx /\ slots'[active].ctr <= c
  BY <1>1, <1>2, <1>3 DEF RecordPair
<1>7. TxOrdersCounters'
  <2> SUFFICES ASSUME NEW s \in Slot, NEW t \in Slot, s # t,
                      slots'[s].magic, slots'[t].magic
               PROVE  /\ slots'[s].tx # slots'[t].tx
                      /\ slots'[s].tx < slots'[t].tx => slots'[s].ctr <= slots'[t].ctr
    BY DEF TxOrdersCounters
  <2>1. CASE s = inactive /\ t = active
    BY <1>1, <1>2, <1>3, <1>4, <1>6, <2>1
  <2>2. CASE s = active /\ t = inactive
    BY <1>1, <1>2, <1>3, <1>4, <1>6, <2>2
  <2> QED BY <1>1, <2>1, <2>2
<1> QED BY <1>5, <1>7

\* A step that keeps the records and leaves the snapshot alone or stops
\* serving it keeps the pair.
LEMMA KeepPair ==
  ASSUME RecordPair, TxOrdersCounters,
         slots' = slots, active' = active, last_tx' = last_tx,
         \/ state' = state /\ ctr' = ctr
         \/ state' \notin {"IDLE", "RESERVED", "KEYGEN_PENDING"}
  PROVE  RecordPair' /\ TxOrdersCounters'
  BY DEF RecordPair, TxOrdersCounters

\* Every handler keeps the pair of records.
LEMMA StepRecords ==
  ASSUME HostBelowTop, RecordInv, Next
  PROVE  RecordPair' /\ TxOrdersCounters'
<1> USE DEF recVars, ramVars, hwKeys
<1>t. /\ TypeOK /\ HandlerSteps /\ RecordPair /\ StepState /\ TxOrdersCounters
  BY DEF RecordInv
<1>s. /\ active \in Slot /\ inactive \in Slot
      /\ slots \in [Slot -> Rec]
      /\ \A s \in Slot : slots[s].ctr \in 0..(CtrMod - 1) /\ slots[s].tx \in Nat
      /\ ctr \in 0..(CtrMod - 1) /\ q \in 0..(CtrMod - 1)
  BY <1>t, TwoSlots DEF TypeOK
<1>h. "IDLE" \in HwState /\ "RESERVED" \in HwState
  BY DEF HwState
<1>c. state \in {"IDLE", "RESERVED", "KEYGEN_PENDING"} /\ slots[active].magic =>
        slots[active].ctr = ctr
  BY <1>t DEF RecordPair
<1>1. CASE SignExhausted \/ SignDo
  BY <1>1, <1>t, KeepPair DEF SignExhausted, SignDo
<1>2. CASE SignReserve
  <2>1. ctr < CtrMod - 1 /\ state = "IDLE"
    BY <1>2, <1>s DEF SignReserve
  <2>2. CASE CommitOk("RESERVED", ctr)
    BY <1>t, <1>s, <1>h, <1>c, <2>1, <2>2, CommitRecords
  <2>3. CASE CommitFail /\ UNCHANGED state
    BY <1>t, <2>3, KeepPair DEF CommitFail
  <2> QED BY <1>2, <2>2, <2>3 DEF SignReserve
<1>3. CASE SignCommitFail
  BY <1>3, <1>t, KeepPair DEF SignCommitFail, CommitFail
<1>q. pc \in {"commit", "burn"} =>
        /\ (q + 1) % CtrMod = q + 1
        /\ q + 1 \in 0..(CtrMod - 1)
        /\ slots[active].magic => slots[active].ctr <= q + 1
  BY <1>t, <1>s, <1>c, NoWrap DEF HandlerSteps, StepState
<1>4. CASE SignRelease
  BY <1>4, <1>t, <1>h, <1>q, CommitRecords DEF SignRelease
<1>5. CASE SignBurn
  <2>1. CASE CommitOk("IDLE", (q + 1) % CtrMod)
    BY <1>5, <1>t, <1>h, <1>q, <2>1, CommitRecords DEF SignBurn
  <2>2. CASE CommitFail /\ UNCHANGED state
    BY <1>t, <2>2, KeepPair DEF CommitFail
  <2> QED BY <1>5, <2>1, <2>2 DEF SignBurn
<1>6. CASE UartCommit
  <2>1. PICK st \in HwState, c \in UartCtrs :
          /\ c >= ctr
          /\ sec_uart_commit_allowed(st, c)
          /\ CommitOk(st, c) \/ (CommitFail /\ UNCHANGED state)
    BY <1>6 DEF UartCommit
  <2>2. c \in 0..(CtrMod - 1) /\ c < CtrMod - 1
    BY DEF HostBelowTop
  <2>3. slots[active].magic => slots[active].ctr <= c
    BY <1>c, <2>1 DEF sec_uart_commit_allowed
  <2>4. CASE CommitOk(st, c)
    BY <1>t, <2>2, <2>3, <2>4, CommitRecords
  <2>5. CASE CommitFail /\ UNCHANGED state
    BY <1>t, <2>5, KeepPair DEF CommitFail
  <2> QED BY <2>1, <2>4, <2>5
<1>7. CASE UartInjectTag
  <2>1. \A s \in Slot : /\ slots'[s].magic = slots[s].magic
                        /\ slots'[s].state = slots[s].state
                        /\ slots'[s].ctr = slots[s].ctr
                        /\ slots'[s].tx = slots[s].tx
    BY <1>7, <1>t DEF UartInjectTag, TypeOK, Rec
  <2>2. active' = active /\ last_tx' = last_tx /\ state' = state /\ ctr' = ctr
    BY <1>7 DEF UartInjectTag
  <2> QED BY <1>t, <1>s, <2>1, <2>2 DEF RecordPair, TxOrdersCounters
<1>8. CASE FactoryInit \/ KeygenKey \/ KeygenNewNoSeed \/ KeygenNewHalf
  BY <1>8, <1>t, KeepPair DEF FactoryInit, KeygenKey, KeygenNewNoSeed, KeygenNewHalf
<1>9. CASE BootKeysFail \/ BootUnwrapFail \/ BootWait \/ BootRefuse
  BY <1>9, <1>t, KeepPair DEF BootKeysFail, BootUnwrapFail, BootWait, BootRefuse
<1>10. CASE BootFresh \/ KeygenNew
  <2>1. active' \in Slot /\ \A s \in Slot : slots'[s] = ZeroRec
    BY <1>10, <1>s DEF BootFresh, KeygenNew, slots_all_zero, Slot
  <2> QED BY <2>1 DEF RecordPair, TxOrdersCounters, ZeroRec
<1>11. CASE BootAdopt
  <2>1. PICK I \in BootIds : \E V \in BootViews(I) \ {{}} : Adopt(I, V)
    BY <1>11 DEF BootAdopt
  <2>2. PICK V \in BootViews(I) \ {{}} : Adopt(I, V)
    BY <2>1
  <2>3. Chosen(V) \in Slot /\ slots[Chosen(V)].magic
    <3>1. V \subseteq {s \in Slot : rec_valid(s, I)} /\ V # {}
      BY DEF BootViews
    <3>2. Chosen(V) \in V
      BY <3>1 DEF Chosen, Slot
    <3> QED BY <3>1, <3>2 DEF rec_valid
  <2>4. /\ slots' = slots /\ active' = Chosen(V) /\ last_tx' = slots[Chosen(V)].tx
        /\ \/ state' = "BOOTING"
           \/ state' = slots[Chosen(V)].state /\ ctr' = slots[Chosen(V)].ctr
    BY <2>2 DEF Adopt
  <2> QED BY <1>t, <2>3, <2>4 DEF RecordPair, TxOrdersCounters
<1>12. CASE BootBurn
  <2>1. CASE CommitOk("IDLE", Recovered(slots[active]))
    <3>1. Recovered(slots[active]) \in 0..(CtrMod - 1)
      BY <1>s, RecoveredType
    <3>2. slots[active].ctr <= Recovered(slots[active])
      <4>1. CASE slots[active].state = "RESERVED"
        <5>1. (slots[active].ctr + 1) % CtrMod = slots[active].ctr + 1
          BY <1>t, <1>s, <4>1, NoWrap DEF RecordPair
        <5> QED BY <1>s, <4>1, <5>1 DEF Recovered
      <4>2. CASE slots[active].state # "RESERVED"
        BY <1>s, <4>2 DEF Recovered
      <4> QED BY <4>1, <4>2
    <3> QED BY <1>t, <1>h, <2>1, <3>1, <3>2, CommitRecords
  <2>2. CASE CommitFail /\ state' = "ERROR_LOCKED"
    BY <1>t, <2>2, KeepPair DEF CommitFail
  <2> QED BY <1>12, <2>1, <2>2 DEF BootBurn
<1> QED
  BY <1>1, <1>2, <1>3, <1>4, <1>5, <1>6, <1>7, <1>8, <1>9, <1>10, <1>11, <1>12
     DEF Next, Sign, Boot, Keygen

\* A handler that has not returned works on the state it started from.
LEMMA StepStateKept ==
  ASSUME StepState, Next
  PROVE  StepState'
<1> USE DEF recVars, ramVars, hwKeys
<1>1. CASE pc' = "idle"
  BY <1>1 DEF StepState
<1>2. CASE SignReserve
  BY <1>2 DEF SignReserve, CommitOk, StepState
<1>3. CASE SignDo \/ SignCommitFail
  BY <1>3 DEF SignDo, SignCommitFail, StepState
<1>4. CASE BootAdopt
  BY <1>4 DEF BootAdopt, Adopt, BootKeys, StepState
<1> QED
  BY <1>1, <1>2, <1>3, <1>4 DEF Next, Sign, Boot, Keygen, SignExhausted,
     SignRelease, SignBurn, BootKeysFail, BootUnwrapFail, BootFresh, BootWait,
     BootRefuse, BootKeys, BootBurn, KeygenKey, KeygenNewNoSeed, KeygenNewHalf,
     KeygenNew, NewKey, UartCommit, UartInjectTag, FactoryInit

\* What holds between the steps of a handler, in every build.
LEMMA HandlerInductive == Spec => [](TypeOK /\ HandlerSteps)
<1> DEFINE Part == TypeOK /\ HandlerSteps
<1>1. Init => Part
  BY InitType DEF Init, HandlerSteps
<1>2. Part /\ [Next]_vars => Part'
  <2> SUFFICES ASSUME Part, [Next]_vars PROVE Part'
    OBVIOUS
  <2>1. TypeOK'
    BY StepType
  <2>2. CASE UNCHANGED vars
    BY <2>1, <2>2 DEF vars, recVars, HandlerSteps
  <2> QED BY <2>1, <2>2, StepHandler
<1> HIDE DEF Part
<1>3. Spec => []Part
  BY <1>1, <1>2, PTL DEF Spec
<1> QED BY <1>3 DEF Part

\* The order of the pair is inductive.
LEMMA RecordInductive ==
  ASSUME HostBelowTop
  PROVE  Spec => [](RecordPair /\ StepState /\ TxOrdersCounters)
<1> DEFINE Part == RecordPair /\ StepState /\ TxOrdersCounters
<1>1. Init => Part
  BY DEF Init, RecordPair, StepState, TxOrdersCounters, ZeroRec, Slot
<1>2. TypeOK /\ HandlerSteps /\ Part /\ [Next]_vars => Part'
  <2>1. CASE Next
    BY <2>1, StepRecords, StepStateKept DEF RecordInv
  <2>2. CASE UNCHANGED vars
    BY <2>2 DEF vars, recVars, RecordPair, StepState, TxOrdersCounters
  <2> QED BY <2>1, <2>2
<1> HIDE DEF Part
<1>3. Spec => []Part
  BY <1>1, <1>2, HandlerInductive, PTL DEF Spec
<1> QED BY <1>3 DEF Part

\* "Larger tx wins" never loses progress: of two written slots the one with
\* the larger tx has the larger counter, and no two slots share a tx.
THEOREM TxOrder ==
  ASSUME HostBelowTop
  PROVE  Spec => []TxOrdersCounters
  BY RecordInductive, PTL

\* While the device serves requests its RAM snapshot is the active record.
THEOREM SnapshotIsRecord ==
  ASSUME HostBelowTop
  PROVE  Spec => []SnapshotIsActiveRecord
<1>1. RecordPair => SnapshotIsActiveRecord
  BY DEF RecordPair, SnapshotIsActiveRecord
<1> QED BY <1>1, RecordInductive, PTL

-------------------------------------------------------------------------------
(* Refinement.                                                             *)

\* Only the last step of sec_sign extends the log.
LEMMA OnlyRelease ==
  ASSUME Next, ~SignRelease
  PROVE  log' = log
  BY DEF Next, Sign, Boot, Keygen, SignExhausted, SignReserve, SignDo,
     SignCommitFail, SignBurn, BootKeysFail, BootUnwrapFail, BootFresh, BootWait,
     BootRefuse, BootAdopt, Adopt, BootBurn, KeygenKey, KeygenNewNoSeed,
     KeygenNewHalf, KeygenNew, UartCommit, UartInjectTag, FactoryInit

\* The security state domain implements the abstract one-time signer.
THEOREM ImplementsOneTimeSigner ==
  ASSUME HostBelowTop, Deploy
  PROVE  Spec => OneTimeSignerSpec
<1>1. Init => OTS!Init
  BY DEF Init, OTS!Init
<1>2. SafetyInv /\ [Next]_vars => [OTS!Release]_log
  <2> SUFFICES ASSUME SafetyInv, [Next]_vars PROVE [OTS!Release]_log
    OBVIOUS
  <2>1. CASE SignRelease
    <3>1. SignKey \in 0..MaxRnd /\ q \in 0..(CtrMod - 1)
      BY DEF SafetyInv, KeysKnown, TypeOK, SignKey
    <3>2. pc = "commit" /\ log' = Append(log, [key |-> SignKey, q |-> q])
      BY <2>1 DEF SignRelease
    <3>3. ctr = q /\ SignKey \in LiveKeys
      BY <3>2 DEF SafetyInv, HandlerSteps, SignKey, LiveKeys
    <3>4. OTS!Unused(SignKey, q)
      BY <3>3 DEF SafetyInv, LiveBelowCtr, OTS!Unused
    <3> QED BY <3>1, <3>2, <3>4 DEF OTS!Release
  <2>2. CASE ~SignRelease
    BY <2>2, OnlyRelease DEF vars
  <2> QED BY <2>1, <2>2
<1> QED BY <1>1, <1>2, SafetyInductive, PTL DEF Spec, OneTimeSignerSpec, OTS!Spec
===============================================================================
