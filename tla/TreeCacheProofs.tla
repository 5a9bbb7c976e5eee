---------------------------- MODULE TreeCacheProofs ----------------------------
(***************************************************************************)
(* Proofs about TreeCache, for both builds, any mix of requests and any     *)
(* failing call: the copy of the SEED slot is sound and the responses       *)
(* belong to the key named, with no other exceptions than those that the    *)
(* properties name.                                                         *)
(***************************************************************************)
EXTENDS TreeCache, TLAPS

-------------------------------------------------------------------------------
(* The inductive invariant.                                                *)

SlotDoubt == {"load", "factory"}

\* The request is past its SEED load and past its cache lookup.
Loaded == pc \in {"ots", "path"} \/ (pc \in {"ensure", "root"} /\ req.op = "pub")
LookedUp ==
  /\ req.op \in {"sign", "pub"}
  /\ pc \in {"ots", "path", "root"} \/ (pc = "load" /\ req.op = "sign")

\* What a request in progress is.
RequestInv ==
  pc # "idle" =>
    /\ out = Silent
    /\ pc \in {"ensure", "load", "ots", "path", "root"}
    /\ pc = "ensure" => req.op \in {"sign", "pub"}
    /\ pc = "ots" => req.op # "pub"
    /\ pc = "path" => req.op = "sign"
    /\ pc = "root" => req.op = "pub"
    /\ pc = "path" => slot # None
    /\ req.via \in {"ins", "sec"}
    /\ req.key = Of(req.key.I, req.key.seed, req.key.type)
    /\ req.key.I \in Ids
    /\ req.via = "ins" => req.key.seed \in Seeds
    /\ req.via = "sec" =>
         /\ pc # "load"
         /\ req.op \in {"sign", "pub"}
         /\ req.key.seed = slot
         /\ slot # None => slot \in seedsOf[req.key.I]

\* The copy is the slot unless the slot was written beneath it; a request
\* past its load has its SEED in the slot unless the load is in doubt.
SlotInv ==
  /\ test \/ tracked = None
  /\ taint["slot"] \subseteq SlotDoubt
  /\ taint["slot"] = {} => tracked \in {None, slot}
  /\ Loaded /\ doubt \cap SlotDoubt = {} => slot = req.key.seed
  /\ pc = "path" /\ doubt \cap SlotDoubt = {} => sig = req.key.seed

\* An untainted cache has its own tree in the arena: the secure one, whose
\* fingerprint has no SEED, for one of the SEEDs its I was used with.
Holds(tree) == arena.top = tree /\ arena.low = tree

CacheInv ==
  /\ cache["ins"] # NoKey /\ taint["ins"] = {} => Holds(cache["ins"])
  /\ cache["sec"] # NoKey /\ taint["sec"] = {} =>
       /\ cache["sec"].I \in Ids
       /\ \E s \in seedsOf[cache["sec"].I] : Holds(Of(cache["sec"].I, s, cache["sec"].type))

\* A request past its lookup uses its own cache, and without doubt its tree.
LookupInv ==
  LookedUp /\ Backend =>
    /\ cache[req.via] = Fingerprint(req.via, req.key)
    /\ doubt = {} => Holds(req.key)

ShapeInv ==
  /\ seedsOf \in [Ids -> SUBSET Seeds]
  /\ DOMAIN cache = {"ins", "sec"}
  /\ DOMAIN taint = {"ins", "sec", "slot"}
  /\ arena = [top |-> arena.top, low |-> arena.low, seg |-> arena.seg]
  /\ slot \in Seeds \cup {None}

TreeInv == ShapeInv /\ RequestInv /\ SlotInv /\ CacheInv /\ LookupInv

-------------------------------------------------------------------------------
(* Lemmas.                                                                 *)

\* A fingerprint of a request is never the invalid one.
LEMMA NotNone ==
  /\ \A I \in Ids : \A s, type : Of(I, s, type) # NoKey
  /\ \A s \in Seeds : s # None
  BY TreeCacheAssumption DEF Of, NoKey

\* Fields of a key.
LEMMA OfFields ==
  \A I, s, type : Of(I, s, type).I = I /\ Of(I, s, type).seed = s /\ Of(I, s, type).type = type
  BY DEF Of

\* Nothing was built, loaded or asked when the firmware starts.
LEMMA InitTree == Init => TreeInv
  <1>. SUFFICES ASSUME Init PROVE TreeInv
    OBVIOUS
  <1>1. ShapeInv
    BY TreeCacheAssumption DEF Init, ShapeInv, Wrapped
  <1>2. RequestInv /\ SlotInv
    BY DEF Init, RequestInv, SlotInv, SlotDoubt, Loaded
  <1>3. CacheInv /\ LookupInv
    BY DEF Init, CacheInv, LookupInv, LookedUp
  <1>. QED BY <1>1, <1>2, <1>3 DEF TreeInv
-------------------------------------------------------------------------------
(* The shape of the state, and the histories.                              *)

\* Histories of the caches stay sets of reasons per cache.
LEMMA TaintShape ==
  ASSUME NEW own, DOMAIN taint = {"ins", "sec", "slot"}, Overwrite(own)
  PROVE  DOMAIN taint' = {"ins", "sec", "slot"}
  BY DEF Overwrite

\* The SEEDs an identifier was used with only grow.
LEMMA UseGrows ==
  ASSUME ShapeInv, NEW I \in Ids, NEW s \in Seeds \cup {None}, Use(I, s)
  PROVE  /\ seedsOf' \in [Ids -> SUBSET Seeds]
         /\ \A J \in Ids : seedsOf[J] \subseteq seedsOf'[J]
         /\ s # None => s \in seedsOf'[I]
  BY DEF Use, ShapeInv

\* Every step keeps the shape, and the history of identifiers grows.
LEMMA StepShape ==
  ASSUME TreeInv, [Next]_vars
  PROVE  ShapeInv' /\ \A J \in Ids : seedsOf[J] \subseteq seedsOf'[J]
  <1>. USE DEF TreeInv, ShapeInv, sec
  <1>1. CASE UNCHANGED vars
    BY <1>1 DEF vars
  <1>2. CASE SignReq \/ KeygenReq \/ LmotsReq
    BY <1>2 DEF SignReq, KeygenReq, LmotsReq, Request
  <1>3. CASE SecSignReq
    <2>1. PICK I \in Ids : Use(I, slot)
      BY <1>3 DEF SecSignReq
    <2>. QED BY <1>3, <2>1, UseGrows DEF SecSignReq, Request
  <1>4. CASE SecKeygenReq
    <2>1. PICK I \in Ids : Use(I, slot)
      BY <1>4 DEF SecKeygenReq
    <2>. QED BY <1>4, <2>1, UseGrows DEF SecKeygenReq, Request
  <1>5. CASE SecKeygenNewReq
    <2>1. PICK I \in Ids, s \in Seeds : Use(I, s) /\ slot' = s
      BY <1>5 DEF SecKeygenNewReq
    <2>. QED BY <1>5, <2>1, UseGrows DEF SecKeygenNewReq, Request
  <1>6. CASE SeedLoad
    BY <1>6 DEF SeedLoad, Quiet, Tracked, LoadFails, Beneath
  <1>7. CASE FactoryInit
    BY <1>7, TreeCacheAssumption DEF FactoryInit, Quiet, Beneath
  <1>8. CASE KeygenNewFails
    BY <1>8 DEF KeygenNewFails, Quiet
  <1>9. CASE Boot
    BY <1>9 DEF Boot, Quiet, Wrapped
  <1>10. CASE EnsureHit \/ Ots \/ OtsFail \/ PathRecursive \/ PathCached \/ Root
    BY <1>10 DEF EnsureHit, Ots, OtsFail, PathRecursive, PathCached, Root
  <1>11. CASE EnsureBuild
    BY <1>11, TaintShape DEF EnsureBuild
  <1>12. CASE EnsureFail
    BY <1>12, TaintShape DEF EnsureFail
  <1>13. CASE PathAdvance
    BY <1>13, TaintShape DEF PathAdvance
  <1>14. CASE PathAdvanceFail
    BY <1>14, TaintShape DEF PathAdvanceFail
  <1>15. CASE Load
    <2>1. slot' \in {slot, req.key.seed}
      BY <1>15 DEF Load, Tracked, LoadFails
    <2>2. slot' \in Seeds \cup {None}
      BY <2>1, <1>15 DEF Load, RequestInv
    <2>. QED BY <1>15, <2>2 DEF Load, Tracked, LoadFails, Beneath
  <1>. QED
    BY <1>1, <1>2, <1>3, <1>4, <1>5, <1>6, <1>7, <1>8, <1>9, <1>10, <1>11,
       <1>12, <1>13, <1>14, <1>15 DEF Next
-------------------------------------------------------------------------------
(* The request.                                                            *)

\* A new request names its key and has no response yet.
LEMMA NewRequest ==
  ASSUME NEW r, NEW first \in {"ensure", "load", "idle"}, Request(r, first),
         first = "ensure" => r.op \in {"sign", "pub"},
         r.via \in {"ins", "sec"},
         r.key = Of(r.key.I, r.key.seed, r.key.type), r.key.I \in Ids,
         r.via = "ins" => r.key.seed \in Seeds,
         r.via = "sec" => /\ first # "load"
                          /\ r.op \in {"sign", "pub"}
                          /\ r.key.seed = slot'
                          /\ slot' # None => slot' \in seedsOf'[r.key.I]
  PROVE  RequestInv'
  BY DEF Request, RequestInv

LEMMA StepRequest ==
  ASSUME TreeInv, [Next]_vars
  PROVE  RequestInv'
  <1>. USE DEF TreeInv, RequestInv, sec
  <1>1. CASE UNCHANGED vars
    BY <1>1 DEF vars
  <1>2. CASE SignReq \/ KeygenReq \/ LmotsReq
    <2>1. \A k \in Key : k = Of(k.I, k.seed, k.type) /\ k.I \in Ids /\ k.seed \in Seeds
      BY DEF Key, Of
    <2>2. CASE SignReq
      BY <2>1, <2>2, NewRequest DEF SignReq
    <2>3. CASE KeygenReq
      BY <2>1, <2>3, NewRequest DEF KeygenReq
    <2>4. CASE LmotsReq
      BY <2>1, <2>4, NewRequest DEF LmotsReq
    <2>. QED BY <1>2, <2>2, <2>3, <2>4
  <1>3. CASE SecSignReq
    <2>1. PICK I \in Ids, type \in Type, g \in {0, 1} :
            /\ Request([op |-> "sign", via |-> "sec", key |-> Of(I, slot, type), seg |-> g], "ensure")
            /\ Use(I, slot)
            /\ slot' = slot
      BY <1>3 DEF SecSignReq, Segs
    <2>2. slot # None => slot \in seedsOf'[I]
      BY <2>1, UseGrows DEF ShapeInv
    <2>. QED BY <2>1, <2>2, OfFields, NewRequest
  <1>4. CASE SecKeygenReq
    <2>1. PICK I \in Ids, type \in Type, first \in {"ensure", "idle"} :
            /\ Request([op |-> "pub", via |-> "sec", key |-> Of(I, slot, type), seg |-> 0], first)
            /\ Use(I, slot)
            /\ slot' = slot
      BY <1>4, Zenon DEF SecKeygenReq
    <2>2. slot # None => slot \in seedsOf'[I]
      BY <2>1, UseGrows DEF ShapeInv
    <2>. QED BY <2>1, <2>2, OfFields, NewRequest
  <1>5. CASE SecKeygenNewReq
    <2>1. PICK I \in Ids, s \in Seeds, type \in Type, first \in {"ensure", "idle"} :
            /\ Request([op |-> "pub", via |-> "sec", key |-> Of(I, s, type), seg |-> 0], first)
            /\ Use(I, s)
            /\ slot' = s
      BY <1>5, Zenon DEF SecKeygenNewReq
    <2>2. s # None => s \in seedsOf'[I]
      BY <2>1, UseGrows DEF ShapeInv
    <2>. QED BY <2>1, <2>2, OfFields, NewRequest
  <1>6. CASE SeedLoad \/ FactoryInit \/ KeygenNewFails \/ Boot
    BY <1>6 DEF SeedLoad, FactoryInit, KeygenNewFails, Boot, Quiet
  <1>7. CASE EnsureHit
    BY <1>7 DEF EnsureHit, AfterEnsure
  <1>8. CASE EnsureBuild
    BY <1>8 DEF EnsureBuild, AfterEnsure
  <1>9. CASE EnsureFail
    BY <1>9 DEF EnsureFail, AfterEnsure, Refuse, Reply
  <1>10. CASE Load
    BY <1>10 DEF Load, AfterLoad
  <1>11. CASE Ots
    BY <1>11 DEF Ots, Reply
  <1>12. CASE OtsFail \/ PathRecursive \/ PathCached \/ PathAdvance \/ PathAdvanceFail \/ Root
    BY <1>12 DEF OtsFail, PathRecursive, PathCached, PathAdvance, PathAdvanceFail,
       Root, Refuse, Reply
  <1>. QED
    BY <1>1, <1>2, <1>3, <1>4, <1>5, <1>6, <1>7, <1>8, <1>9, <1>10, <1>11,
       <1>12 DEF Next
-------------------------------------------------------------------------------
(* The copy of the slot.                                                   *)

\* Overwriting the arena says nothing about the slot.
LEMMA SlotTaintKept ==
  ASSUME NEW own, ShapeInv, RequestInv, pc # "idle", Overwrite(own)
  PROVE  taint'["slot"] = taint["slot"]
  BY DEF Overwrite, Other, ShapeInv, RequestInv

\* Writing the slot beneath the copy is recorded.
LEMMA BeneathRecorded ==
  ASSUME NEW reason \in SlotDoubt, ShapeInv, Beneath(reason), tracked' = tracked,
         taint["slot"] \subseteq SlotDoubt,
         taint["slot"] = {} => tracked \in {None, slot}
  PROVE  /\ taint'["slot"] \subseteq SlotDoubt
         /\ taint'["slot"] = {} => tracked' \in {None, slot'}
         /\ taint'["ins"] = taint["ins"] /\ taint'["sec"] = taint["sec"]
  BY DEF Beneath, Because, ShapeInv

\* A new request is not past its load.
LEMMA NewRequestSlot ==
  ASSUME SlotInv, NEW r, NEW first \in {"ensure", "load", "idle"}, Request(r, first),
         slot' = slot \/ ~test,
         first = "ensure" /\ r.op = "pub" => r.key.seed = slot'
  PROVE  SlotInv'
  BY DEF SlotInv, Request, Loaded

LEMMA StepSlot ==
  ASSUME TreeInv, [Next]_vars
  PROVE  SlotInv'
  <1>. USE DEF TreeInv, sec
  <1>1. CASE UNCHANGED vars
    BY <1>1 DEF vars, SlotInv, Loaded
  <1>2. CASE SignReq \/ KeygenReq \/ LmotsReq
    BY <1>2, NewRequestSlot DEF SignReq, KeygenReq, LmotsReq
  <1>3. CASE SecSignReq
    BY <1>3, NewRequestSlot DEF SecSignReq
  <1>4. CASE SecKeygenReq
    BY <1>4, NewRequestSlot, OfFields DEF SecKeygenReq
  <1>5. CASE SecKeygenNewReq
    BY <1>5, NewRequestSlot, OfFields DEF SecKeygenNewReq
  <1>6. CASE SeedLoad
    <2>1. CASE \E s \in Seeds : Tracked(s)
      BY <1>6, <2>1 DEF SeedLoad, Quiet, Tracked, SlotInv, ShapeInv, Loaded
    <2>2. CASE \E s \in Seeds : LoadFails(s)
      BY <1>6, <2>2, BeneathRecorded DEF SeedLoad, Quiet, LoadFails, SlotInv, SlotDoubt, Loaded
    <2>. QED BY <1>6, <2>1, <2>2 DEF SeedLoad
  <1>7. CASE FactoryInit
    BY <1>7, BeneathRecorded DEF FactoryInit, Quiet, SlotInv, SlotDoubt, Loaded
  <1>8. CASE KeygenNewFails \/ Boot
    BY <1>8 DEF KeygenNewFails, Boot, Quiet, SlotInv, Loaded
  <1>9. CASE EnsureHit
    BY <1>9 DEF EnsureHit, AfterEnsure, SlotInv, RequestInv, Loaded
  <1>10. CASE EnsureBuild
    BY <1>10, SlotTaintKept DEF EnsureBuild, AfterEnsure, SlotInv, RequestInv, Loaded
  <1>11. CASE EnsureFail
    BY <1>11, SlotTaintKept DEF EnsureFail, AfterEnsure, Refuse, Reply, SlotInv, RequestInv, Loaded
  <1>12. CASE Load
    <2>. USE <1>12 DEF SlotInv, RequestInv
    <2>1. /\ req' = req /\ sig' = sig /\ test' = test
          /\ req.via = "ins" /\ req.key.seed \in Seeds
          /\ pc' # "path"
      BY DEF Load, AfterLoad
    <2>2. CASE tracked = req.key.seed /\ doubt' = doubt \cup taint["slot"]
               /\ UNCHANGED <<slot, tracked, taint>>
      <3>1. taint["slot"] = {} => slot = req.key.seed
        BY <2>1, <2>2, NotNone
      <3>2. taint["slot"] # {} => doubt' \cap SlotDoubt # {}
        BY <2>2
      <3>. QED BY <2>1, <2>2, <3>1, <3>2
    <2>3. CASE test /\ Tracked(req.key.seed)
      BY <2>1, <2>3 DEF Tracked, ShapeInv
    <2>4. CASE LoadFails(req.key.seed) /\ doubt' = doubt \cup {"load"}
      <3>1. "load" \in SlotDoubt
        BY DEF SlotDoubt
      <3>2. doubt' \cap SlotDoubt # {}
        BY <2>4, <3>1
      <3>. QED BY <2>1, <2>4, <3>1, <3>2, BeneathRecorded DEF LoadFails
    <2>. QED BY <2>2, <2>3, <2>4 DEF Load
  <1>13. CASE Ots
    BY <1>13 DEF Ots, Reply, SlotInv, Loaded
  <1>14. CASE OtsFail \/ PathRecursive \/ PathCached \/ Root
    BY <1>14 DEF OtsFail, PathRecursive, PathCached, Root, Refuse, Reply, SlotInv, Loaded
  <1>15. CASE PathAdvance \/ PathAdvanceFail
    BY <1>15, SlotTaintKept DEF PathAdvance, PathAdvanceFail, Refuse, Reply, SlotInv, Loaded
  <1>. QED
    BY <1>1, <1>2, <1>3, <1>4, <1>5, <1>6, <1>7, <1>8, <1>9, <1>10, <1>11,
       <1>12, <1>13, <1>14, <1>15 DEF Next
-------------------------------------------------------------------------------
(* The caches.                                                             *)

\* A step that leaves the arena alone keeps the caches' trees.
LEMMA CacheKept ==
  ASSUME ShapeInv, CacheInv, cache' = cache, arena' = arena,
         taint'["ins"] = taint["ins"], taint'["sec"] = taint["sec"],
         \A J \in Ids : seedsOf[J] \subseteq seedsOf'[J]
  PROVE  CacheInv'
  <1>1. cache["ins"] # NoKey /\ taint["ins"] = {} => Holds(cache["ins"])'
    BY DEF CacheInv, Holds
  <1>2. ASSUME cache["sec"] # NoKey, taint["sec"] = {}
        PROVE  /\ cache["sec"].I \in Ids
               /\ \E s \in seedsOf'[cache["sec"].I] :
                    arena.top = Of(cache["sec"].I, s, cache["sec"].type) /\ arena.low = arena.top
    BY <1>2 DEF CacheInv, Holds
  <1>. QED BY <1>1, <1>2 DEF CacheInv, Holds

\* A step of a request that writes the arena: its own cache is tainted or has
\* its tree, the other one is invalid or tainted.
LEMMA CacheWritten ==
  ASSUME ShapeInv, RequestInv, pc # "idle", seedsOf' = seedsOf, NEW own, Overwrite(own),
         cache'[Other(req.via)] = cache[Other(req.via)],
         \/ own # {}
         \/ cache'[req.via] = NoKey
         \/ /\ cache'[req.via] = Fingerprint(req.via, req.key)
            /\ slot # None
            /\ arena'.top = req.key /\ arena'.low = req.key
  PROVE  CacheInv'
  <1>1. req.via \in {"ins", "sec"} /\ Other(req.via) \in {"ins", "sec"} /\ Other(req.via) # req.via
    BY DEF RequestInv, Other
  <1>2. /\ taint'[req.via] = own
        /\ cache'[Other(req.via)] # NoKey => taint'[Other(req.via)] # {}
    BY <1>1 DEF Overwrite, Because, ShapeInv
  <1>3. CASE cache'[req.via] = NoKey \/ own # {}
    BY <1>1, <1>2, <1>3 DEF CacheInv
  <1>4. CASE /\ cache'[req.via] = Fingerprint(req.via, req.key)
             /\ slot # None
             /\ arena'.top = req.key /\ arena'.low = req.key
    <2>1. CASE req.via = "ins"
      BY <1>2, <1>4, <2>1 DEF CacheInv, Holds, Fingerprint, Other
    <2>2. CASE req.via = "sec"
      <3>1. cache'["sec"].I = req.key.I /\ cache'["sec"].type = req.key.type
        BY <1>4, <2>2 DEF Fingerprint, Of
      <3>2. slot \in seedsOf'[req.key.I] /\ req.key = Of(req.key.I, slot, req.key.type)
        BY <1>4, <2>2 DEF RequestInv
      <3>3. cache'["ins"] # NoKey => taint'["ins"] # {}
        BY <1>2, <2>2 DEF Other
      <3>4. req.key.I \in Ids
        BY DEF RequestInv
      <3>. QED BY <1>4, <3>1, <3>2, <3>3, <3>4 DEF CacheInv, Holds
    <2>. QED BY <1>1, <2>1, <2>2
  <1>. QED BY <1>3, <1>4

\* A request whose load is not in doubt has its SEED in the slot when it
\* computes nodes.
LEMMA NodesAreOwn ==
  ASSUME TreeInv, Loaded \/ (pc = "ensure" /\ ~EarlyOrDoubted), doubt = {}
  PROVE  Of(req.key.I, slot, req.key.type) = req.key
  <1>1. slot = req.key.seed
    BY DEF TreeInv, SlotInv, RequestInv, Loaded, EarlyOrDoubted
  <1>2. pc # "idle"
    BY DEF Loaded
  <1>. QED BY <1>1, <1>2 DEF TreeInv, RequestInv

LEMMA StepCache ==
  ASSUME TreeInv, [Next]_vars
  PROVE  CacheInv'
  <1>. USE DEF TreeInv, sec
  <1>. DEFINE Kept == /\ cache' = cache /\ arena' = arena
                      /\ taint'["ins"] = taint["ins"] /\ taint'["sec"] = taint["sec"]
  <1>1. Kept => CacheInv'
    BY StepShape, CacheKept
  <1>2. CASE UNCHANGED vars
    BY <1>1, <1>2 DEF vars
  <1>3. CASE SignReq \/ KeygenReq \/ LmotsReq \/ SecSignReq \/ SecKeygenReq \/ SecKeygenNewReq
    BY <1>1, <1>3 DEF SignReq, KeygenReq, LmotsReq, SecSignReq, SecKeygenReq,
       SecKeygenNewReq, Request
  <1>4. CASE SeedLoad \/ FactoryInit \/ KeygenNewFails \/ Boot
    BY <1>1, <1>4 DEF SeedLoad, FactoryInit, KeygenNewFails, Boot, Quiet, Tracked,
       LoadFails, Beneath, ShapeInv
  <1>5. CASE EnsureHit \/ Ots \/ OtsFail \/ PathRecursive \/ PathCached \/ Root
    BY <1>1, <1>5 DEF EnsureHit, Ots, OtsFail, PathRecursive, PathCached, Root
  <1>6. CASE Load
    BY <1>1, <1>6 DEF Load, Tracked, LoadFails, Beneath, ShapeInv
  <1>7. pc # "idle" => /\ req.via \in {"ins", "sec"}
                       /\ Other(req.via) \in {"ins", "sec"} \ {req.via}
    BY DEF RequestInv, Other
  <1>8. CASE EnsureBuild
    <2>. DEFINE tree == Of(req.key.I, slot, req.key.type)
                own == IF EarlyOrDoubted THEN {"seed"} ELSE {}
    <2>1. /\ pc = "ensure" /\ slot # None /\ seedsOf' = seedsOf
          /\ arena' = [top |-> tree, low |-> tree, seg |-> 0]
          /\ Overwrite(own)
          /\ cache' = [cache EXCEPT ![req.via] = Fingerprint(req.via, req.key)]
      BY <1>8 DEF EnsureBuild
    <2>2. own # {} \/ tree = req.key
      BY <2>1, <1>8, NodesAreOwn DEF EnsureBuild, EarlyOrDoubted, RequestInv
    <2>3. /\ cache'[Other(req.via)] = cache[Other(req.via)]
          /\ cache'[req.via] = Fingerprint(req.via, req.key)
      BY <2>1, <1>7 DEF ShapeInv
    <2>4. arena'.top = tree /\ arena'.low = tree
      BY <2>1
    <2>. HIDE DEF own, tree
    <2>. QED BY <2>1, <2>2, <2>3, <2>4, CacheWritten
  <1>9. CASE EnsureFail
    <2>1. /\ cache'[Other(req.via)] = cache[Other(req.via)]
          /\ cache'[req.via] = NoKey
          /\ pc # "idle" /\ seedsOf' = seedsOf /\ Overwrite({})
      BY <1>7, <1>9 DEF EnsureFail, ShapeInv
    <2>. QED BY <2>1, CacheWritten
  <1>10. CASE PathAdvance
    <2>. DEFINE tree == Of(req.key.I, slot, req.key.type)
                own == IF doubt = {} THEN {} ELSE Because(taint[req.via], "seed")
    <2>1. /\ pc = "path" /\ Backend /\ seedsOf' = seedsOf /\ Overwrite(own) /\ cache' = cache
          /\ arena' = [arena EXCEPT !.low = tree, !.seg = req.seg]
      BY <1>10 DEF PathAdvance
    <2>2. arena'.top = arena.top /\ arena'.low = tree
      BY <2>1 DEF ShapeInv
    <2>3. LookedUp
      BY <2>1 DEF LookedUp, RequestInv
    <2>4. CASE doubt # {}
      <3>1. own # {}
        BY <2>4 DEF Because
      <3>. HIDE DEF own
      <3>. QED BY <2>1, <3>1, CacheWritten
    <2>5. CASE doubt = {}
      <3>1. tree = req.key
        BY <2>1, <2>5, NodesAreOwn DEF Loaded
      <3>2. arena.top = req.key /\ cache'[req.via] = Fingerprint(req.via, req.key)
        BY <2>1, <2>3, <2>5 DEF LookupInv, Holds
      <3>3. slot # None
        BY <2>1 DEF RequestInv
      <3>. HIDE DEF own, tree
      <3>. QED BY <2>1, <2>2, <3>1, <3>2, <3>3, CacheWritten
    <2>. QED BY <2>4, <2>5
  <1>11. CASE PathAdvanceFail
    <2>1. Because(taint[req.via], "advance") # {}
      BY DEF Because
    <2>2. /\ pc # "idle" /\ seedsOf' = seedsOf /\ cache' = cache
          /\ Overwrite(Because(taint[req.via], "advance"))
      BY <1>11 DEF PathAdvanceFail
    <2>. QED BY <2>1, <2>2, CacheWritten
  <1>. QED
    BY <1>2, <1>3, <1>4, <1>5, <1>6, <1>8, <1>9, <1>10, <1>11 DEF Next
-------------------------------------------------------------------------------
(* The request's tree and the responses.                                   *)

LEMMA StepLookup ==
  ASSUME TreeInv, [Next]_vars
  PROVE  LookupInv'
  <1>. USE DEF TreeInv, sec
  <1>1. CASE UNCHANGED vars
    BY <1>1 DEF vars, LookupInv, LookedUp, Backend, Holds
  <1>2. CASE SignReq \/ KeygenReq \/ LmotsReq
    BY <1>2 DEF SignReq, KeygenReq, LmotsReq, Request, LookupInv, LookedUp
  <1>3. CASE SecSignReq \/ SecKeygenReq \/ SecKeygenNewReq
    BY <1>3 DEF SecSignReq, SecKeygenReq, SecKeygenNewReq, Request, LookupInv, LookedUp
  <1>4. CASE SeedLoad \/ FactoryInit \/ KeygenNewFails \/ Boot
    BY <1>4 DEF SeedLoad, FactoryInit, KeygenNewFails, Boot, Quiet, LookupInv, LookedUp
  <1>5. CASE EnsureHit
    <2>1. cache[req.via] = Fingerprint(req.via, req.key) /\ pc = "ensure"
      BY <1>5 DEF EnsureHit, Hit
    <2>2. /\ cache' = cache /\ arena' = arena /\ req' = req
          /\ doubt' = {} => taint[req.via] = {} /\ ~TwoSeeds
      BY <1>5 DEF EnsureHit
    <2>3. doubt' = {} => Holds(req.key)
      <3>1. CASE req.via = "ins"
        <4>1. cache["ins"] = req.key /\ req.key # NoKey
          BY <2>1, <3>1, NotNone DEF Fingerprint, RequestInv
        <4>. QED BY <2>2, <3>1, <4>1 DEF CacheInv
      <3>2. CASE req.via = "sec"
        <4>1. cache["sec"] = Of(req.key.I, None, req.key.type) /\ cache["sec"] # NoKey
          BY <2>1, <3>2, NotNone DEF Fingerprint, RequestInv
        <4>2. ASSUME doubt' = {}
              PROVE  \E s \in seedsOf[req.key.I] : Holds(Of(req.key.I, s, req.key.type))
          BY <2>2, <3>2, <4>1, <4>2, OfFields DEF CacheInv
        <4>3. doubt' = {} => seedsOf[req.key.I] = {req.key.seed}
          BY <2>2, <3>2 DEF TwoSeeds
        <4>4. req.key = Of(req.key.I, req.key.seed, req.key.type)
          BY <2>1 DEF RequestInv
        <4>. QED BY <4>2, <4>3, <4>4
      <3>. QED BY <2>1, <3>1, <3>2 DEF RequestInv
    <2>. QED BY <2>1, <2>2, <2>3 DEF LookupInv, Holds
  <1>6. CASE EnsureBuild
    <2>. DEFINE tree == Of(req.key.I, slot, req.key.type)
    <2>1. /\ pc = "ensure" /\ req' = req
          /\ arena' = [top |-> tree, low |-> tree, seg |-> 0]
          /\ cache' = [cache EXCEPT ![req.via] = Fingerprint(req.via, req.key)]
          /\ doubt' = {} => doubt = {} /\ ~EarlyOrDoubted
      BY <1>6 DEF EnsureBuild
    <2>2. doubt' = {} => tree = req.key
      BY <2>1, NodesAreOwn
    <2>3. cache'[req.via] = Fingerprint(req.via, req.key)
      BY <2>1 DEF ShapeInv, RequestInv
    <2>. QED BY <2>1, <2>2, <2>3 DEF LookupInv, Holds
  <1>7. CASE EnsureFail
    <2>1. CASE req.via = "ins"
      <3>1. cache'["ins"] = NoKey /\ req' = req
        BY <1>7, <2>1 DEF EnsureFail, ShapeInv
      <3>. QED BY <2>1, <3>1 DEF LookupInv, Backend
    <2>2. CASE req.via = "sec"
      BY <1>7, <2>2 DEF EnsureFail, Refuse, Reply, LookupInv, LookedUp
    <2>. QED BY <1>7, <2>1, <2>2 DEF EnsureFail
  <1>8. CASE Load
    BY <1>8 DEF Load, AfterLoad, LookupInv, LookedUp, Backend, Holds
  <1>9. CASE Ots
    BY <1>9 DEF Ots, Reply, LookupInv, LookedUp, Backend, Holds
  <1>10. CASE OtsFail \/ PathRecursive \/ PathCached \/ PathAdvance \/ PathAdvanceFail \/ Root
    BY <1>10 DEF OtsFail, PathRecursive, PathCached, PathAdvance, PathAdvanceFail,
       Root, Refuse, Reply, LookupInv, LookedUp
  <1>. QED
    BY <1>1, <1>2, <1>3, <1>4, <1>5, <1>6, <1>7, <1>8, <1>9, <1>10 DEF Next

\* A reply to a request without doubt belongs to its key.
Answers == SeedOfKey /\ PathOfKey /\ RootOfKey

LEMMA SilentAnswers == out = Silent => Answers
  BY DEF Answers, SeedOfKey, PathOfKey, RootOfKey, Silent

LEMMA StepAnswers ==
  ASSUME TreeInv, Answers, [Next]_vars
  PROVE  Answers'
  <1>. USE DEF TreeInv
  <1>1. CASE UNCHANGED vars
    BY <1>1 DEF vars, Answers, SeedOfKey, PathOfKey, RootOfKey
  <1>2. (out' = Silent) => Answers'
    BY DEF Answers, SeedOfKey, PathOfKey, RootOfKey, Silent
  <1>3. CASE SignReq \/ KeygenReq \/ LmotsReq \/ SecSignReq \/ SecKeygenReq \/ SecKeygenNewReq
    BY <1>2, <1>3 DEF SignReq, KeygenReq, LmotsReq, SecSignReq, SecKeygenReq,
       SecKeygenNewReq, Request
  <1>4. CASE SeedLoad \/ FactoryInit \/ KeygenNewFails \/ Boot
    BY <1>2, <1>4 DEF SeedLoad, FactoryInit, KeygenNewFails, Boot, Quiet
  <1>5. CASE EnsureHit \/ EnsureBuild \/ EnsureFail \/ Load
    BY <1>2, <1>5 DEF EnsureHit, EnsureBuild, EnsureFail, Load, Refuse, Reply, RequestInv
  <1>6. CASE OtsFail \/ PathAdvanceFail
    BY <1>2, <1>6 DEF OtsFail, PathAdvanceFail, Refuse, Reply
  <1>7. CASE Ots
    <2>1. CASE req.op = "sign"
      BY <1>2, <1>7, <2>1 DEF Ots, RequestInv
    <2>2. CASE req.op # "sign"
      <3>1. out' = [Silent EXCEPT !.op = req.op, !.key = req.key, !.seed = slot] /\ doubt' = doubt
        BY <1>7, <2>2 DEF Ots, Reply
      <3>2. out'.op = req.op /\ out'.key = req.key /\ out'.seed = slot
        BY <3>1 DEF Silent
      <3>3. doubt \cap SlotDoubt = {} => slot = req.key.seed
        BY <1>7 DEF Ots, SlotInv, Loaded
      <3>4. req.op # "pub"
        BY <1>7 DEF Ots, RequestInv
      <3>. QED BY <2>2, <3>1, <3>2, <3>3, <3>4
               DEF Answers, SeedOfKey, PathOfKey, RootOfKey, SlotDoubt
    <2>. QED BY <2>1, <2>2
  <1>8. CASE PathRecursive \/ PathCached \/ PathAdvance
    <2>1. PICK top, low :
            /\ out' = Signature(top, low) /\ doubt' = doubt /\ pc = "path"
            /\ doubt = {} => top = req.key /\ low = req.key
      <3>1. pc = "path"
        BY <1>8 DEF PathRecursive, PathCached, PathAdvance
      <3>2. doubt = {} => Of(req.key.I, slot, req.key.type) = req.key
        BY <3>1, NodesAreOwn DEF Loaded
      <3>3. Backend /\ doubt = {} => arena.top = req.key /\ arena.low = req.key
        BY <3>1 DEF LookupInv, LookedUp, RequestInv, Holds
      <3>. QED BY <1>8, <3>1, <3>2, <3>3 DEF PathRecursive, PathCached, PathAdvance, Reply
    <2>2. doubt \cap SlotDoubt = {} => sig = req.key.seed
      BY <2>1 DEF SlotInv
    <2>. QED BY <2>1, <2>2 DEF Signature, Answers, SeedOfKey, PathOfKey, RootOfKey, SlotDoubt
  <1>9. CASE Root
    <2>. DEFINE tree == IF Backend THEN arena.top ELSE Of(req.key.I, slot, req.key.type)
    <2>1. /\ out' = [Silent EXCEPT !.op = "pub", !.key = req.key, !.top = tree]
          /\ doubt' = doubt /\ pc = "root"
      BY <1>9 DEF Root, Reply
    <2>2. out'.op = "pub" /\ out'.key = req.key /\ out'.top = tree
      BY <2>1 DEF Silent
    <2>3. doubt = {} => tree = req.key
      <3>1. CASE Backend
        BY <2>1, <3>1 DEF LookupInv, LookedUp, RequestInv, Holds
      <3>2. CASE ~Backend
        <4>1. req.op = "pub"
          BY <2>1 DEF RequestInv
        <4>. QED BY <2>1, <3>2, <4>1, NodesAreOwn DEF Loaded
      <3>. QED BY <3>1, <3>2
    <2>. HIDE DEF tree
    <2>. QED BY <2>1, <2>2, <2>3 DEF Answers, SeedOfKey, PathOfKey, RootOfKey
  <1>. QED
    BY <1>1, <1>3, <1>4, <1>5, <1>6, <1>7, <1>8, <1>9 DEF Next
-------------------------------------------------------------------------------
(* The theorems.                                                           *)

LEMMA TreeInductive == Spec => [](TreeInv /\ Answers)
  <1>1. Init => TreeInv /\ Answers
    BY InitTree, SilentAnswers DEF Init
  <1>2. TreeInv /\ Answers /\ [Next]_vars => (TreeInv /\ Answers)'
    BY StepShape, StepRequest, StepSlot, StepCache, StepLookup, StepAnswers DEF TreeInv
  <1>. QED BY <1>1, <1>2, PTL DEF Spec

\* In every build, skipping the load when s_seed_slot matches (fw_seed_load)
\* never makes a signature with another SEED than the request's, whatever
\* requests of both kinds are mixed and whatever calls fail, except for a
\* request whose own load failed and a slot written beneath the copy.
THEOREM TrackedSlotIsSound == Spec => []SeedOfKey
  BY TreeInductive, PTL DEF Answers

\* In every build, with every mix of requests, key rotation, BOOT of older
\* keys and failing calls, the authentication paths sent belong to the key
\* named, except for the causes that PathOfKey lists.
THEOREM PathsAreOwn == Spec => []PathOfKey
  BY TreeInductive, PTL DEF Answers

\* Likewise the public keys: a key generation that builds its tree has loaded
\* or drawn its SEED before.
THEOREM RootsAreOwn == Spec => []RootOfKey
  BY TreeInductive, PTL DEF Answers
===============================================================================
