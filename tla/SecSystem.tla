------------------------------ MODULE SecSystem ------------------------------
(***************************************************************************)
(* The security state domain in its environment.  Everything the device    *)
(* keeps is volatile: the slots are RAM, sim_mc a register.  The host is   *)
(* the persistent store.  After a command it may fetch the active record   *)
(* from the NVM_SYNC mirror of fw/lms_soc_smoke.c; after a power loss it    *)
(* reloads counter, slots and wrapped SEED, and sends BOOT.                *)
(*                                                                         *)
(* One provisioned key of a deploy device; key generation is in SecState.  *)
(***************************************************************************)
EXTENDS SecState

CONSTANTS
  LmsSign,     \* TRUE: the host signs with 0x66, FALSE: with 0x54
  WindowLoss,  \* TRUE: power may fail after a release, before the host has
               \* fetched and stored the record
  MaxLoss      \* bound on the number of power losses

ASSUME SecSystemAssumption ==
  /\ Deploy
  /\ LmsSign \in BOOLEAN /\ WindowLoss \in BOOLEAN
  /\ MaxLoss \in Nat

VARIABLES
  nvm,        \* the NVM_SYNC mirror: nvm_state and nvm_valid
  host,       \* the host's files: a record per slot and the tx to reload
  hostpc,     \* where the host's reload procedure stands
  fetch,      \* answers the host has for the fetch it is making, 0: none
  slot,       \* the slot the first of them named
  unfetched,  \* a signature was released and the mirror not fetched since
  losses      \* power losses so far

sysVars == <<vars, nvm, host, hostpc, fetch, slot, unfetched, losses>>

HostBlob == Wrapped(1, 1)
NoRec == [valid |-> FALSE, rec |-> ZeroRec]

SysInit ==
  /\ Init
  /\ nvm = NoRec
  /\ host = [rec |-> [s \in Slot |-> ZeroRec], mc |-> 0]
  /\ hostpc = "mc"
  /\ fetch = 0 /\ slot = 0
  /\ unfetched = FALSE
  /\ losses = 0

\* Mutant: the other slot is exported.
ExportInactive ==
  nvm' = IF pc' = "idle" THEN [valid |-> TRUE, rec |-> slots'[1 - active']] ELSE nvm

\* sec_export_active into the mirror, when a handler returns.
Export == nvm' = IF pc' = "idle" THEN [valid |-> TRUE, rec |-> slots'[active']]
                                 ELSE nvm

\* 0x54 copies the active slot to the mirror; 0x66 does not.
SysSign ==
  /\ hostpc = "run" /\ fetch = 0
  /\ Sign
  /\ IF LmsSign THEN UNCHANGED nvm ELSE Export
  /\ unfetched' = (unfetched \/ log' # log)
  /\ UNCHANGED <<host, hostpc, fetch, slot, losses>>

\* sec_state_from_uart: BOOT always exports, COMMIT when it succeeded.
SysBoot ==
  /\ hostpc \in {"boot", "run"} /\ fetch = 0
  /\ Boot
  /\ Export
  /\ hostpc' = "run"
  /\ UNCHANGED <<host, fetch, slot, unfetched, losses>>

SysCommit ==
  /\ hostpc = "run" /\ fetch = 0
  /\ UartCommit
  /\ IF last_tx' # last_tx THEN Export ELSE UNCHANGED nvm
  /\ UNCHANGED <<host, hostpc, fetch, slot, unfetched, losses>>

-------------------------------------------------------------------------------
(* The host.                                                               *)

\* The four requests of a fetch, one after the other: GET_STATE names the
\* active slot, NVM_SYNC READ, READ_MID and READ_HI return the mirror in
\* parts.  The host sends nothing else meanwhile; power may fail.
HostFetch ==
  /\ hostpc = "run" /\ pc = "idle" /\ nvm.valid
  /\ fetch < 4
  /\ fetch' = fetch + 1
  /\ slot' = IF fetch = 0 THEN active ELSE slot
  /\ UNCHANGED <<vars, nvm, host, hostpc, unfetched, losses>>

\* The record is complete: the host stores it under its slot.
HostStore ==
  /\ fetch = 4
  /\ fetch' = 0
  /\ host' = [rec |-> [host.rec EXCEPT ![slot] = nvm.rec], mc |-> nvm.rec.tx]
  /\ unfetched' = FALSE
  /\ UNCHANGED <<vars, nvm, hostpc, slot, losses>>

\* Reload after power-up, in the order of the power loss tests
\* (tests/rtl/test_lms_soc.cpp): counter, slots; then the blob.
HostReload ==
  /\ \/ hostpc = "mc" /\ McLoad(host.mc) /\ hostpc' = "slot0"
     \/ hostpc = "slot0" /\ NvmLoad(0, host.rec[0]) /\ hostpc' = "slot1"
     \/ hostpc = "slot1" /\ NvmLoad(1, host.rec[1]) /\ hostpc' = "wrap"
     \/ hostpc = "wrap" /\ WrapLoad(HostBlob) /\ hostpc' = "boot"
  /\ UNCHANGED <<nvm, host, fetch, slot, unfetched, losses>>

\* Power fails: RAM and registers return to sec_init, the mirror is lost.
PowerLoss ==
  /\ losses < MaxLoss
  /\ losses' = losses + 1
  /\ WindowLoss \/ ~unfetched
  /\ slots' = [s \in Slot |-> ZeroRec] /\ active' = 0 /\ last_tx' = 0
  /\ state' = "BOOTING" /\ ctr' = 0
  /\ factory_locked' = FALSE /\ key_loaded' = FALSE /\ key_I' = 0
  /\ wrapped' = NoBlob
  /\ sim_mc' = 0 /\ kstate' = NoKey /\ seed' = 0
  /\ pc' = "idle" /\ q' = 0
  /\ nvm' = NoRec
  /\ hostpc' = "mc" /\ fetch' = 0
  /\ unfetched' = FALSE
  /\ UNCHANGED <<host, slot, rnd, log>>

SysNext == SysSign \/ SysBoot \/ SysCommit \/ HostFetch \/ HostStore \/ HostReload
           \/ PowerLoss

SysSpec == SysInit /\ [][SysNext]_sysVars

-------------------------------------------------------------------------------
(* Properties.                                                             *)

\* The record BOOT would adopt from the host's files, were power lost now.
HostNewest == IF host.rec[0].tx >= host.rec[1].tx THEN host.rec[0] ELSE host.rec[1]

\* Once the host has stored what it fetched, the record BOOT would adopt from its
\* files recovers past every released leaf, whatever happened before.
HostCoversReleases ==
  ~unfetched => \A i \in DOMAIN log : log[i].q < Recovered(HostNewest)
===============================================================================
