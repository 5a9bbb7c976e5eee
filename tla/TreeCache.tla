------------------------------- MODULE TreeCache -------------------------------
(***************************************************************************)
(* The firmware's requests that sign or produce a public key               *)
(* (fw/lms_soc_smoke.c) and what they keep between requests: the SEED in    *)
(* slot 0 of the accelerator and the copy s_seed_slot that tracks it, and   *)
(* the two Merkle tree caches s_tree_ctx and s_sec_tree_ctx in their shared *)
(* arena (src/lms_subtree.c).  Messages and the task RAM are the subject of *)
(* OtsRequests, leaf counters of SecState.                                  *)
(*                                                                         *)
(* Requests are served one after the other; a request is a few steps        *)
(* because the order in which it loads, builds and signs matters, and every *)
(* hardware call may fail.  A node of a tree is what it was computed from:  *)
(* identifier I, SEED and parameter set.                                    *)
(*                                                                         *)
(* The code relies on one SEED and one key in a session.  The histories     *)
(* taint, doubt and seedsOf record where a session leaves that ground, so   *)
(* that the properties can say exactly when a response may be wrong.        *)
(***************************************************************************)
EXTENDS Integers

CONSTANTS
  Ids,        \* key identifiers I
  Seeds,      \* SEED values
  Vector,     \* the fixed SEED 0..31 of main and FACTORY_INIT
  Short,      \* parameter sets whose tree is one subtree (H5)
  Tall,       \* parameter sets with several sublevels (H10, H15)
  None,       \* no value
  Builds      \* TRUE: LMS_FW_SEC_TEST_MODE and INSECURE_TEST_MODE; FALSE: deploy

ASSUME TreeCacheAssumption ==
  /\ Vector \in Seeds
  /\ None \notin Ids \cup Seeds \cup Short \cup Tall
  /\ Builds \subseteq BOOLEAN

Type == Short \cup Tall
Key == [I : Ids, seed : Seeds, type : Type]
NoKey == [I |-> None, seed |-> None, type |-> None]
Mixed == [I |-> None, seed |-> None, type |-> "mixed"]
Of(I, seed, type) == [I |-> I, seed |-> seed, type |-> type]

\* Two bottom subtrees stand for all of a tall tree.
Segs(type) == IF type \in Tall THEN {0, 1} ELSE {0}

VARIABLES
  test,     \* which build runs; never changes
  slot,     \* SEED in the accelerator's slot 0
  tracked,  \* s_seed_slot, None while s_seed_slot_valid is 0
  cache,    \* fingerprint of a valid cache, NoKey while invalid
  arena,    \* the nodes: top level, bottom ACTIVE subtree and its segment
  pc,       \* step of the request
  req,      \* the request
  sig,      \* SEED the LM-OTS part was made with
  out,      \* last response
  ready,    \* sec_key_loaded
  locked,   \* sec_factory_locked
  key_I,    \* sec_key_I
  blobs,    \* the wrapped SEEDs the host keeps, with their identifiers
  seedsOf,  \* history: the SEEDs an I was used with by secure requests
  taint,    \* history: the first reason why a cache, or the copy, may be wrong
  doubt     \* history: why the response of this request may be wrong

sec == <<ready, locked, key_I, blobs, seedsOf>>
vars == <<test, slot, tracked, cache, arena, pc, req, sig, out, sec, taint, doubt>>

NoReq == [op |-> "none", via |-> "ins", key |-> NoKey, seg |-> 0]
Silent == [op |-> "none", key |-> NoKey, seed |-> None, top |-> NoKey, low |-> NoKey]

\* The SEEDs the host has a blob of under identifier I.
Wrapped(I) == {s \in Seeds : <<I, s>> \in blobs}

\* main: a test build presets the SEED and tracks it.  The host of a deploy
\* build may keep a key of an earlier session.
Init ==
  /\ test \in Builds
  /\ slot = IF test THEN Vector ELSE None
  /\ tracked = slot
  /\ cache = [via \in {"ins", "sec"} |-> NoKey]
  /\ arena = [top |-> NoKey, low |-> NoKey, seg |-> 0]
  /\ pc = "idle"
  /\ req = NoReq
  /\ sig = None
  /\ out = Silent
  /\ ready = FALSE
  /\ locked = FALSE
  /\ key_I = None
  /\ \/ blobs = {}
     \/ ~test /\ \E I \in Ids, s \in Seeds : blobs = {<<I, s>>}
  /\ seedsOf = [I \in Ids |-> Wrapped(I)]
  /\ taint = [x \in {"ins", "sec", "slot"} |-> {}]
  /\ doubt = {}

-------------------------------------------------------------------------------
(* Fingerprints and hits.                                                  *)

\* The secure fingerprint has no SEED.
Fingerprint(via, k) == IF via = "ins" THEN k ELSE Of(k.I, None, k.type)

\* Mutant: a valid cache of the parameter set is enough.
HitAnyId(via, k) == cache[via] # NoKey /\ cache[via].type = k.type

Hit(via, k) == cache[via] = Fingerprint(via, k)

-------------------------------------------------------------------------------
(* Requests.                                                               *)

Request(r, first) ==
  /\ pc = "idle"
  /\ req' = r
  /\ pc' = first
  /\ sig' = None
  /\ out' = Silent
  /\ doubt' = {}
  /\ UNCHANGED <<test, tracked, cache, arena, taint>>

\* 0x53 LMS sign: builds or finds the tree, then loads the SEED.
SignReq ==
  \E k \in Key : \E g \in Segs(k.type) :
    /\ Request([op |-> "sign", via |-> "ins", key |-> k, seg |-> g], "ensure")
    /\ UNCHANGED <<slot, sec>>

\* 0x4B LMS key generation: loads the SEED, then builds the tree.
KeygenReq ==
  \E k \in Key :
    /\ Request([op |-> "pub", via |-> "ins", key |-> k, seg |-> 0], "load")
    /\ UNCHANGED <<slot, sec>>

\* LM-OTS sign and key generation: no tree.
LmotsReq ==
  \E k \in Key, op \in {"lmots", "otspub"} :
    /\ Request([op |-> op, via |-> "ins", key |-> k, seg |-> 0], "load")
    /\ UNCHANGED <<slot, sec>>

\* A secure request uses I with the SEED s that is in the slot.
Use(I, s) == seedsOf' = [seedsOf EXCEPT ![I] = @ \cup ({s} \ {None})]

\* 0x66: the host names I, which is compared with nothing.
SecSignReq ==
  \E I \in Ids, type \in Type : \E g \in Segs(type) :
    /\ ready
    /\ Request([op |-> "sign", via |-> "sec", key |-> Of(I, slot, type), seg |-> g], "ensure")
    /\ Use(I, slot)
    /\ UNCHANGED <<slot, ready, locked, key_I, blobs>>

\* sec_key_I and sec_factory_locked are read by test builds only.
TakeId(I) == key_I' = IF test THEN I ELSE None
Lock == locked' = test

\* The drawn identifier was never used before.
Fresh(I) == seedsOf[I] = {}

\* Only a deploy build unwraps what it wrapped.
Wrap(I, s) == blobs' = IF test THEN blobs ELSE blobs \cup {<<I, s>>}

\* 0x67: sec_keygen_key wraps the SEED in the slot; a deploy build draws I.
SecKeygenReq ==
  \E I \in Ids, type \in Type, first \in {"ensure", "idle"} :
    /\ ready
    /\ IF test THEN I = key_I ELSE Fresh(I)
    /\ Request([op |-> "pub", via |-> "sec", key |-> Of(I, slot, type), seg |-> 0], first)
    /\ TakeId(I)
    /\ Use(I, slot)
    /\ IF first = "ensure" THEN slot # None /\ Wrap(I, slot) ELSE UNCHANGED blobs
    /\ UNCHANGED <<slot, ready, locked>>

\* 0x68: sec_keygen_new.  Test: I from the host and the SEED in the slot;
\* deploy: both drawn.  The new SEED stays when a later call fails.
SecKeygenNewReq ==
  \E I \in Ids, s \in Seeds, type \in Type, first \in {"ensure", "idle"} :
    /\ ready
    /\ IF test THEN s = slot ELSE Fresh(I)
    /\ Request([op |-> "pub", via |-> "sec", key |-> Of(I, s, type), seg |-> 0], first)
    /\ slot' = s
    /\ TakeId(I)
    /\ Use(I, s)
    /\ IF first = "ensure" THEN Lock /\ Wrap(I, s)
                           ELSE UNCHANGED <<locked, blobs>>
    /\ UNCHANGED ready

-------------------------------------------------------------------------------
(* Commands that only move the SEED.                                       *)

Quiet ==
  /\ pc = "idle"
  /\ out' = Silent
  /\ doubt' = {}
  /\ UNCHANGED <<test, cache, arena, pc, req, sig>>

\* The first reason is kept.
Because(reasons, reason) == IF reasons = {} THEN {reason} ELSE reasons

\* The slot is written and the copy is not.
Beneath(reason) ==
  taint' = IF slot' = slot THEN taint
                           ELSE [taint EXCEPT !["slot"] = Because(@, reason)]

\* The slot is written and the copy with it.
Tracked(s) ==
  /\ slot' = s
  /\ tracked' = s
  /\ taint' = [taint EXCEPT !["slot"] = {}]

\* SEED_LOAD is refused by a deploy build, or fails or times out, in which
\* case the command may still be carried out.
LoadFails(s) ==
  /\ slot' = slot \/ (test /\ slot' = s)
  /\ Beneath("load")
  /\ UNCHANGED tracked

\* Mutant: 0x63 does not update the tracked copy.
SeedLoadUntracked ==
  /\ Quiet
  /\ test
  /\ \E s \in Seeds : slot' = s
  /\ UNCHANGED <<tracked, taint, sec>>

\* 0x63, accepted in test builds only.
SeedLoad ==
  /\ Quiet
  /\ test
  /\ \E s \in Seeds : Tracked(s) \/ LoadFails(s)
  /\ UNCHANGED sec

\* FACTORY_INIT loads the fixed SEED without the tracked copy.  It takes I
\* first and locks last; any call in between may fail.
FactoryInit ==
  /\ Quiet
  /\ test
  /\ ~locked
  /\ \E I \in Ids : TakeId(I)
  /\ \/ slot' = Vector /\ Lock
     \/ slot' \in {slot, Vector} /\ UNCHANGED locked
  /\ Beneath("factory")
  /\ UNCHANGED <<tracked, ready, blobs, seedsOf>>

\* The random source of 0x68 fails before there is a new SEED.
KeygenNewFails ==
  /\ Quiet
  /\ ready
  /\ ~test
  /\ UNCHANGED <<slot, tracked, ready, locked, key_I, blobs, seedsOf, taint>>

\* BOOT takes the host's I in every build, also when it cannot load the keys;
\* deploy builds unwrap the blob the host gave, if it is one of this I.
Boot ==
  \E I \in Ids :
    /\ Quiet
    /\ TakeId(I)
    /\ \/ UNCHANGED <<slot, ready, locked>>
       \/ ready' = TRUE /\ (Lock \/ UNCHANGED locked) /\ UNCHANGED slot
       \/ ready' = TRUE /\ Lock /\ ~test /\ slot' \in Wrapped(I)
    /\ UNCHANGED <<tracked, blobs, seedsOf, taint>>

-------------------------------------------------------------------------------
(* Steps of a request.                                                     *)

Reply(r) ==
  /\ pc' = "idle"
  /\ req' = NoReq
  /\ sig' = None
  /\ out' = r

\* The request failed: nothing but an error frame is sent.
Refuse == Reply(Silent)

Other(via) == IF via = "ins" THEN "sec" ELSE "ins"

\* This request's cache becomes own; the other one, if valid, is not told
\* that its nodes in the arena were overwritten.
Overwrite(own) ==
  taint' = [taint EXCEPT
              ![req.via] = own,
              ![Other(req.via)] = IF cache[Other(req.via)] = NoKey THEN @
                                                                   ELSE Because(@, "crossed")]

AfterEnsure == IF req.op = "pub" THEN "root" ELSE IF req.via = "ins" THEN "load" ELSE "ots"

\* The identifier was used with a second SEED, which the secure fingerprint
\* does not tell apart.
TwoSeeds == req.via = "sec" /\ seedsOf[req.key.I] # {req.key.seed}

EnsureHit ==
  /\ pc = "ensure"
  /\ Hit(req.via, req.key)
  /\ pc' = AfterEnsure
  /\ doubt' = doubt \cup taint[req.via] \cup (IF TwoSeeds THEN {"id"} ELSE {})
  /\ UNCHANGED <<test, slot, tracked, cache, arena, req, sig, out, sec, taint>>

\* A tree is built for a SEED that the slot does not hold: 0x53 builds before
\* it loads; for the other requests the load was already in doubt.
EarlyOrDoubted == IF req.op = "sign" THEN slot # req.key.seed ELSE doubt # {}

\* KEYGEN_LEAF derives every leaf from the SEED in the slot.
EnsureBuild ==
  /\ pc = "ensure"
  /\ ~Hit(req.via, req.key)
  /\ slot # None
  /\ LET tree == Of(req.key.I, slot, req.key.type)
         own == IF EarlyOrDoubted THEN {"seed"} ELSE {}
     IN /\ arena' = [top |-> tree, low |-> tree, seg |-> 0]
        /\ Overwrite(own)
        /\ doubt' = doubt \cup own
  /\ cache' = [cache EXCEPT ![req.via] = Fingerprint(req.via, req.key)]
  /\ pc' = AfterEnsure
  /\ UNCHANGED <<test, slot, tracked, req, sig, out, sec>>

\* Mutant: a failed build leaves the old fingerprint valid.
EnsureFailKeeps ==
  /\ pc = "ensure"
  /\ ~Hit(req.via, req.key)
  /\ arena' = [top |-> Mixed, low |-> Mixed, seg |-> 0]
  /\ Overwrite({})
  /\ \/ req.via = "ins" /\ pc' = AfterEnsure /\ UNCHANGED <<req, sig, out>>
     \/ req.via = "sec" /\ Refuse
  /\ UNCHANGED <<test, slot, tracked, cache, sec, doubt>>

\* A leaf fails, or the slot is empty: the arena is already overwritten.  The
\* insecure requests go on without the cache, the secure ones fail.
EnsureFail ==
  /\ pc = "ensure"
  /\ ~Hit(req.via, req.key)
  /\ arena' = [top |-> Mixed, low |-> Mixed, seg |-> 0]
  /\ cache' = [cache EXCEPT ![req.via] = NoKey]
  /\ Overwrite({})
  /\ \/ req.via = "ins" /\ pc' = AfterEnsure /\ UNCHANGED <<req, sig, out>>
     \/ req.via = "sec" /\ Refuse
  /\ UNCHANGED <<test, slot, tracked, sec, doubt>>

AfterLoad == IF req.op = "pub" THEN "ensure" ELSE "ots"

\* fw_seed_load: skipped on the word of the copy, and its result is ignored by
\* every request.
Load ==
  /\ pc = "load"
  /\ \/ /\ tracked = req.key.seed
        /\ doubt' = doubt \cup taint["slot"]
        /\ UNCHANGED <<slot, tracked, taint>>
     \/ /\ tracked # req.key.seed
        /\ test
        /\ Tracked(req.key.seed)
        /\ UNCHANGED doubt
     \/ /\ tracked # req.key.seed
        /\ LoadFails(req.key.seed)
        /\ doubt' = doubt \cup {"load"}
  /\ pc' = AfterLoad
  /\ UNCHANGED <<test, cache, arena, req, sig, out, sec>>

\* lms_auth_path_backend_set: registered exactly while the cache is valid.
Backend == req.via = "sec" \/ cache["ins"] # NoKey

\* The hardware command that uses the SEED is refused or fails.
OtsFail ==
  /\ pc = "ots" \/ (pc \in {"path", "root"} /\ ~Backend)
  /\ Refuse
  /\ UNCHANGED <<test, slot, tracked, cache, arena, sec, taint, doubt>>

\* The LM-OTS part: signature or public key.
Ots ==
  /\ pc = "ots"
  /\ slot # None
  /\ \/ req.op = "sign" /\ pc' = "path" /\ sig' = slot /\ UNCHANGED <<req, out>>
     \/ /\ req.op # "sign"
        /\ Reply([Silent EXCEPT !.op = req.op, !.key = req.key, !.seed = slot])
  /\ UNCHANGED <<test, slot, tracked, cache, arena, sec, taint, doubt>>

Signature(top, low) ==
  [op |-> "sign", key |-> req.key, seed |-> sig, top |-> top, low |-> low]

\* Default recursion: every node is computed by LMOTS_KEYGEN.
PathRecursive ==
  /\ pc = "path"
  /\ ~Backend
  /\ LET tree == Of(req.key.I, slot, req.key.type) IN Reply(Signature(tree, tree))
  /\ UNCHANGED <<test, slot, tracked, cache, arena, sec, taint, doubt>>

Covered == req.key.type \in Tall => arena.seg = req.seg

PathCached ==
  /\ pc = "path"
  /\ Backend
  /\ Covered
  /\ Reply(Signature(arena.top, arena.low))
  /\ UNCHANGED <<test, slot, tracked, cache, arena, sec, taint, doubt>>

\* lms_tree_sign_advance rebuilds the bottom subtree with KEYGEN_LEAF.
PathAdvance ==
  /\ pc = "path"
  /\ Backend
  /\ ~Covered
  /\ LET tree == Of(req.key.I, slot, req.key.type)
     IN /\ arena' = [arena EXCEPT !.low = tree, !.seg = req.seg]
        /\ Reply(Signature(arena.top, tree))
  /\ Overwrite(IF doubt = {} THEN {} ELSE Because(taint[req.via], "seed"))
  /\ UNCHANGED <<test, slot, tracked, cache, sec, doubt>>

\* A leaf of the rebuild fails after subtree_reset_to moved the segment.
PathAdvanceFail ==
  /\ pc = "path"
  /\ Backend
  /\ ~Covered
  /\ arena' = [arena EXCEPT !.low = Mixed, !.seg = req.seg]
  /\ Overwrite(Because(taint[req.via], "advance"))
  /\ Refuse
  /\ UNCHANGED <<test, slot, tracked, cache, sec, doubt>>

\* Public key: the root of the cached tree, or recomputed.
Root ==
  /\ pc = "root"
  /\ Backend \/ slot # None
  /\ LET tree == IF Backend THEN arena.top ELSE Of(req.key.I, slot, req.key.type)
     IN Reply([Silent EXCEPT !.op = "pub", !.key = req.key, !.top = tree])
  /\ UNCHANGED <<test, slot, tracked, cache, arena, sec, taint, doubt>>

-------------------------------------------------------------------------------
Next ==
  \/ SignReq \/ KeygenReq \/ LmotsReq
  \/ SecSignReq \/ SecKeygenReq \/ SecKeygenNewReq
  \/ SeedLoad \/ FactoryInit \/ KeygenNewFails \/ Boot
  \/ EnsureHit \/ EnsureBuild \/ EnsureFail
  \/ Load \/ Ots \/ OtsFail
  \/ PathRecursive \/ PathCached \/ PathAdvance \/ PathAdvanceFail \/ Root

Spec == Init /\ [][Next]_vars

-------------------------------------------------------------------------------
(* Properties.                                                             *)

\* A signature or LM-OTS public key that is sent was made with the SEED of the
\* key the request names, although SEED_LOAD is skipped when s_seed_slot
\* matches: unless this request's load failed and was ignored, or the slot was
\* written beneath s_seed_slot, by FACTORY_INIT or a load that timed out.
SeedOfKey ==
  out.op \in {"sign", "lmots", "otspub"} /\ doubt \cap {"load", "factory"} = {} =>
    out.seed = out.key.seed

\* Every node of the authentication path that is sent belongs to the tree of
\* the key the request names, for cache hits, rebuilt subtrees and the
\* recursion used after a failed build, whatever was built, rotated, booted or
\* failed before: unless the load was in doubt, the other cache overwrote the
\* arena, a rebuild of this cache failed, 0x53 built it before its SEED was
\* loaded, or the host used one I with two SEEDs.
PathOfKey ==
  out.op = "sign" /\ doubt = {} => out.top = out.key /\ out.low = out.key

\* The public key that is sent is the root of the tree of the key named, with
\* the same exceptions; 0x4B loads its SEED before it builds.
RootOfKey == out.op = "pub" /\ doubt = {} => out.top = out.key

\* The comment on s_sec_tree_ctx calls the secure cache isolated from the
\* insecure one although they share the arena: a path is right whatever the
\* other cache did.
CachesIsolated ==
  out.op = "sign" /\ doubt \subseteq {"crossed"} => out.top = out.key /\ out.low = out.key
===============================================================================
