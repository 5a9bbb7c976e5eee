------------------------------- MODULE LmsTree -------------------------------
(***************************************************************************)
(* The Merkle tree of one LMS key and the signatures made with it:         *)
(* src/lms_subtree.c (the tree cut into levels of subtrees, of which one   *)
(* per level is cached), src/lms_tree.c (plain recursion), the full tree   *)
(* of src/lms_coprocess.c, and lms_root_from_signature of                  *)
(* src/lms_verify.c.                                                       *)
(*                                                                         *)
(* Abstractions.  A hash value is the number of the tree node whose        *)
(* genuine value it is (1 the root, 2^h + q leaf q), Wrong if it is the    *)
(* value of no node: hashing two values with the number of a node gives    *)
(* that node exactly when they are its children, which is what a hash      *)
(* without collisions does.  Memory is counted in hash values (n bytes).   *)
(* A computation that the accelerator may fail is failed by naming the     *)
(* node whose hash returns an error; memory runs out by bounding the       *)
(* allocations of a call that succeed.                                     *)
(***************************************************************************)
EXTENDS Winternitz, SequencesExt

CONSTANTS
  Heights,     \* heights of the parameter table that are configured
  Targets,     \* memory targets, in hash values
  Built,       \* bound: contexts are built for these <<height, target>> only
  Leaves,      \* leaf numbers to sign with
  Failures,    \* bound: what may fail in a call, as pairs of the node whose
               \* hash fails and the number of allocations that succeed
  Widths,      \* Winternitz parameters
  Digests,     \* message digests
  CachedOts    \* bound: parameter and digest signed with a cached path

MinJ == 2
Wrong == 0
NoFault == 0
SublevelSize == 3     \* the size of an lms_sublevel_t, 88 bytes, rounded up

\* lms_get_lms_param: the heights of every hash's parameter sets.
TableHeights == {5, 10, 15, 20, 25}

ASSUME HeightsAssumption == Heights \subseteq TableHeights
ASSUME DigestsAssumption == Digests \subseteq Digest
ASSUME WidthsAssumption == Widths \subseteq {1, 2, 4, 8}

VARIABLES
  config,   \* lms_tree_config_t, NoConfig before lms_tree_configure
  levels,   \* ctx->levels, from the bottom level 0 up; << >> when NULL
  memory,   \* hash values' worth of memory the context's allocator gave out
  tree,     \* "none": not built yet; "whole": built, and no build failed
            \* since; "faulted": built, then a rebuild of a level failed
  sig,      \* the signature made last, NoSig if none
  out       \* what the last call returned

vars == <<config, levels, memory, tree, sig, out>>

NoConfig == [height |-> 0]
NoSig == [q |-> -1]
NoResult == [op |-> "none", ok |-> TRUE]
Level == DOMAIN levels
H == config.height
Buildable == config # NoConfig /\ <<H, config.target>> \in Built
Faults == {f[1] : f \in Failures}
Budgets == {f[2] : f \in Failures}
----------------------------------------------------------------------------
(* Configuration *)

\* Top subtree and lower subtrees of a tree cut at every j levels.
Sublevels(h, j) == (h + j - 1) \div j
SubHeight(h, j, s) == IF s + 1 < Sublevels(h, j) THEN j
                      ELSE h - (Sublevels(h, j) - 1) * j

\* subtree_nodes_bytes and the stack.
SubtreeMemory(sh) == 2^(sh + 1) + sh

\* lms_tree_estimate_memory: two buffers for every level but the top one.
EstimateMemory(h, j) ==
  LET L == Sublevels(h, j)
  IN  (L - 1) * 2 * SubtreeMemory(j) + SubtreeMemory(SubHeight(h, j, L - 1))

ConsiderAnyFit(best, h, target, j) ==
  LET mem == EstimateMemory(h, j)
      L == Sublevels(h, j)
  IN  IF best.j # 0 /\ mem > best.mem THEN best
      ELSE [j |-> j, mem |-> mem, levels |-> L, within |-> mem <= target]

\* One round of the selection loop of lms_tree_configure.
Consider(best, h, target, j) ==
  LET mem == EstimateMemory(h, j)
      L == Sublevels(h, j)
  IN  IF mem > target
      THEN IF best.j # 0 /\ mem > best.mem THEN best
           ELSE [j |-> j, mem |-> mem, levels |-> L, within |-> best.within]
      ELSE IF best.within /\ (L > best.levels \/ (L = best.levels /\ mem > best.mem))
           THEN best
           ELSE [j |-> j, mem |-> mem, levels |-> L, within |-> TRUE]

\* lms_tree_configure.
ConfigureResult(h, target) ==
  LET none == [j |-> 0, mem |-> 0, levels |-> 0, within |-> FALSE]
      scan[j \in MinJ - 1 .. h] ==
        IF j < MinJ THEN none ELSE Consider(scan[j - 1], h, target, j)
      best == scan[h]
  IN  [height |-> h, target |-> target, j |-> best.j, levels |-> best.levels,
       est |-> best.mem, within |-> best.within]
----------------------------------------------------------------------------
(* Nodes and subtrees *)

\* lms_internal_node; [ok |-> FALSE] when the hash fails.
InternalNode(num, left, right, bad) ==
  [ok |-> num # bad,
   val |-> IF left = 2 * num /\ right = 2 * num + 1 THEN num ELSE Wrong]

\* The leaf of q: lmots_public_from_private gives the ends of all chains,
\* D_LEAF hashes them under the leaf's node number.  subtree_compute_leaf and
\* lms_leaf; a registered leaf_fn returns the same value.
Leaf(q, bad) == [ok |-> 2^H + q # bad,
                 val |-> IF q < 2^H THEN 2^H + q ELSE Wrong]

Log2(n) == CHOOSE d \in 0 .. 25 : 2^d <= n /\ n < 2^(d + 1)

LocalToGlobalNoSegment(sub, local) ==
  LET d == Log2(local)
  IN  2^(H - (sub.level - d)) + (local - 2^d)

\* subtree_local_to_global.
LocalToGlobal(sub, local) ==
  LET d == Log2(local)
      k0 == sub.left \div 2^sub.height
  IN  2^(H - (sub.level - d)) + k0 * 2^d + (local - 2^d)

\* subtree_init_buffers: buffers are cleared.
NewSubtree(s, sh, left) ==
  [height |-> sh, level |-> s * config.j + sh, left |-> left, index |-> 0,
   nodes |-> [x \in 1 .. 2^(sh + 1) - 1 |-> Wrong],
   stack |-> [i \in 0 .. sh - 1 |-> Wrong]]

\* subtree_reset_to keeps the nodes.
ResetTo(sub, left) == [sub EXCEPT !.left = left, !.index = 0]

\* The climb of lms_tree_add_next_node: a right node is merged with the left
\* one on the stack, a left node waits there.
RECURSIVE Climb(_, _, _, _, _)
Climb(sub, cur, seq, i, bad) ==
  LET local == 2^(sub.height - i) + seq
      parent == local \div 2
      node == InternalNode(LocalToGlobal(sub, parent), sub.stack[i], cur, bad)
  IN  IF local = 1 THEN [ok |-> TRUE, sub |-> sub]
      ELSE IF seq % 2 = 0 THEN [ok |-> TRUE, sub |-> [sub EXCEPT !.stack[i] = cur]]
      ELSE IF ~ node.ok THEN [ok |-> FALSE, sub |-> sub]
      ELSE Climb([sub EXCEPT !.nodes[parent] = node.val], node.val,
                 seq \div 2, i + 1, bad)

\* lms_tree_add_next_node.
AddNextNode(sub, value, bad) ==
  LET ci == sub.index
      r == Climb([sub EXCEPT !.nodes[2^sub.height + ci] = value], value, ci, 0, bad)
  IN  IF ci >= 2^sub.height THEN [ok |-> FALSE, sub |-> sub]
      ELSE IF ~ r.ok THEN r
      ELSE [ok |-> TRUE, sub |-> [r.sub EXCEPT !.index = ci + 1]]

Complete(sub) == sub.index >= 2^sub.height
Root(sub) == sub.nodes[1]

\* subtree_build_bottom and subtree_build_upper: feed[i] is the i-th leaf,
\* a leaf of the tree or the root of a subtree below.
RECURSIVE Fill(_, _, _, _)
Fill(sub, feed, i, bad) ==
  IF i = 2^sub.height THEN [ok |-> Complete(sub), sub |-> sub]
  ELSE LET leaf == feed[i]
           r == AddNextNode(sub, leaf.val, bad)
       IN  IF ~ leaf.ok THEN [ok |-> FALSE, sub |-> sub]
           ELSE IF ~ r.ok THEN r
           ELSE Fill(r.sub, feed, i + 1, bad)

\* What a build works on: the levels, the memory given out, the allocations
\* that still succeed.
Work(lv, budget) == [ok |-> TRUE, lv |-> lv, mem |-> memory, left |-> budget]

UpperLeftUnscaled(lo, s) == lo

UpperLeft(lo, s) == lo \div 2^(s * config.j)

\* subtree_build_at: the subtree of level s over the leaves from lo, into the
\* active or the upcoming buffer of that level.  The roots below are built one
\* after the other in the upcoming buffer of level s - 1 and collected in a
\* buffer that is released in any case.
RECURSIVE BuildAt(_, _, _, _, _), BuildRoots(_, _, _, _, _, _)
BuildAt(w, s, which, lo, bad) ==
  LET sub == w.lv[s][which]
      cnt == 2^sub.height
      taken == [w EXCEPT !.mem = @ + cnt, !.left = @ - 1]
      below == BuildRoots(taken, s, lo, cnt, << >>, bad)
      bottom == Fill(ResetTo(sub, lo), [i \in 0 .. cnt - 1 |-> Leaf(lo + i, bad)], 0, bad)
      upper == Fill(ResetTo(below.w.lv[s][which], UpperLeft(lo, s)),
                    [i \in 0 .. cnt - 1 |-> [ok |-> TRUE, val |-> below.roots[i + 1]]], 0, bad)
  IN  IF s = 0
      THEN [w EXCEPT !.ok = bottom.ok, !.lv[s][which] = bottom.sub]
      ELSE IF w.left = 0 THEN [w EXCEPT !.ok = FALSE]
      ELSE IF ~ below.w.ok THEN [below.w EXCEPT !.mem = @ - cnt]
      ELSE [below.w EXCEPT !.mem = @ - cnt, !.ok = upper.ok, !.lv[s][which] = upper.sub]

BuildRoots(w, s, lo, cnt, roots, bad) ==
  LET span == 2^w.lv[s - 1].upcoming.level
      next == BuildAt(w, s - 1, "upcoming", lo + Len(roots) * span, bad)
  IN  IF Len(roots) = cnt \/ ~ w.ok THEN [w |-> w, roots |-> roots]
      ELSE BuildRoots(next, s, lo, cnt, Append(roots, Root(next.lv[s - 1].upcoming)), bad)
----------------------------------------------------------------------------
(* Calls *)

Init ==
  /\ config = NoConfig /\ levels = << >> /\ memory = 0 /\ tree = "none"
  /\ sig = NoSig /\ out = NoResult

Configure(h, target) ==
  /\ levels = << >>
  /\ config' = ConfigureResult(h, target)
  /\ out' = [op |-> "configure", ok |-> TRUE]
  /\ UNCHANGED <<levels, memory, tree, sig>>

\* The blocks lms_tree_ctx_init allocates, in its order.
Blocks ==
  LET L == config.levels
      SubBlocks(s, b) ==
        LET sh == SubHeight(H, config.j, s)
        IN  << [s |-> s, b |-> b, size |-> 2^(sh + 1)], [s |-> s, b |-> b, size |-> sh] >>
      OfLevel(s) == SubBlocks(s, "active")
                      \o (IF s + 1 < L THEN SubBlocks(s, "upcoming") ELSE << >>)
  IN  << [s |-> -1, b |-> "levels", size |-> L * SublevelSize] >>
        \o FlattenSeq([i \in 1 .. L |-> OfLevel(i - 1)])

Size(blocks) == FoldLeft(LAMBDA sum, blk : sum + blk.size, 0, blocks)

ReachedNoUpcoming(blocks, upcoming) == SelectSeq(blocks, LAMBDA blk : blk.b # "upcoming")

\* What lms_tree_ctx_free reaches: the upcoming buffers by has_upcoming.
Reached(blocks, upcoming) ==
  SelectSeq(blocks, LAMBDA blk : blk.b = "upcoming" => blk.s \in upcoming)

\* lms_tree_ctx_init; the first budget allocations succeed.  has_upcoming is
\* set once both buffers of the active subtree are there.
CtxInit(budget) ==
  /\ levels = << >> /\ Buildable
  /\ LET L == config.levels
         done == budget >= Len(Blocks)
         made == IF done THEN Blocks ELSE SubSeq(Blocks, 1, budget)
         upcoming == {s \in 0 .. L - 2 :
                        Len(SelectSeq(made, LAMBDA blk : blk.s = s /\ blk.b = "active")) = 2}
     IN  /\ levels' = IF ~ done THEN << >>
                      ELSE [s \in 0 .. L - 1 |->
                             LET sh == SubHeight(H, config.j, s)
                             IN  [active |-> NewSubtree(s, sh, 0),
                                  upcoming |-> NewSubtree(s, sh, 2^sh),
                                  has_upcoming |-> s \in upcoming]]
         /\ memory' = memory + Size(made)
                        - (IF done THEN 0 ELSE Size(Reached(made, upcoming)))
         /\ out' = [op |-> "ctx_init", ok |-> done]
  /\ UNCHANGED <<config, tree, sig>>

CtxFree ==
  /\ levels # << >>
  /\ memory' = memory - Size(Reached(Blocks, {s \in Level : levels[s].has_upcoming}))
  /\ levels' = << >> /\ tree' = "none"
  /\ out' = [op |-> "ctx_free", ok |-> TRUE]
  /\ UNCHANGED <<config, sig>>

Top(lv) == lv[config.levels - 1].active

\* lms_tree_build_active: only for a tree in one piece.  Leaves are filled in
\* from left_leaf on, then the internal nodes from the bottom up.
BuildActive(bad) ==
  /\ levels # << >>
  /\ LET sub == levels[0].active
         n == 2^sub.height
         Num(x) == LocalToGlobal(sub, x)
         LeafAt(x) == Leaf(sub.left + x - n, bad)
         LeavesOk == \A x \in n .. 2 * n - 1 : LeafAt(x).ok
         Stored(x) == IF x >= n THEN \A y \in n .. x : LeafAt(y).ok
                      ELSE LeavesOk /\ \A y \in x .. n - 1 : Num(y) # bad
         nodes[x \in 1 .. 2 * n - 1] ==
           IF ~ Stored(x) THEN sub.nodes[x]
           ELSE IF x >= n THEN LeafAt(x).val
           ELSE InternalNode(Num(x), nodes[2 * x], nodes[2 * x + 1], bad).val
         ok == Stored(1)
     IN  IF config.levels # 1
         THEN /\ out' = [op |-> "build_active", ok |-> FALSE]
              /\ UNCHANGED <<levels, tree>>
         ELSE /\ levels' = [levels EXCEPT ![0].active.nodes = nodes]
              /\ tree' = IF ok /\ sub.left = 0 THEN "whole" ELSE "none"
              /\ out' = [op |-> "build_active", ok |-> ok, root |-> nodes[1]]
  /\ UNCHANGED <<config, memory, sig>>

\* lms_tree_keygen_root: a leaf goes into the bottom subtree; the root of a
\* subtree that is complete goes one level up, and the subtree moves on.
MoveOn(sub) == ResetTo(sub, sub.left + 2^sub.height)

RECURSIVE Carry(_, _, _, _)
Carry(lv, s, value, bad) ==
  LET r == AddNextNode(lv[s].active, value, bad)
      stored == [lv EXCEPT ![s].active = r.sub]
      moved == [lv EXCEPT ![s].active = MoveOn(r.sub)]
  IN  IF ~ r.ok THEN [ok |-> FALSE, lv |-> stored]
      ELSE IF ~ Complete(r.sub) THEN [ok |-> TRUE, lv |-> stored]
      ELSE IF s + 1 = config.levels THEN [ok |-> TRUE, lv |-> moved]
      ELSE Carry(moved, s + 1, Root(r.sub), bad)

RECURSIVE Stream(_, _, _)
Stream(lv, q, bad) ==
  LET r == Carry(lv, 0, Leaf(q, bad).val, bad)
  IN  IF q = 2^H THEN [ok |-> TRUE, lv |-> lv]
      ELSE IF ~ Leaf(q, bad).ok THEN [ok |-> FALSE, lv |-> lv]
      ELSE IF ~ r.ok THEN r
      ELSE Stream(r.lv, q + 1, bad)

KeygenRoot(bad) ==
  /\ levels # << >>
  /\ LET empty == [s \in Level |-> [levels[s] EXCEPT !.active = ResetTo(@, 0),
                                                     !.upcoming.index = 0]]
         r == Stream(empty, 0, bad)
     IN  /\ levels' = r.lv
         /\ tree' = IF r.ok THEN "whole" ELSE "none"
         /\ out' = [op |-> "keygen_root", ok |-> r.ok, root |-> Root(Top(r.lv))]
  /\ UNCHANGED <<config, memory, sig>>

\* lms_tree_sign_init: every level's subtree at leaf 0, from the bottom up.
RECURSIVE InitLevels(_, _, _)
InitLevels(w, s, bad) ==
  IF s = config.levels \/ ~ w.ok THEN w
  ELSE InitLevels(BuildAt(w, s, "active", 0, bad), s + 1, bad)

SignInit(budget, bad) ==
  /\ levels # << >>
  /\ LET w == InitLevels(Work(levels, budget), 0, bad)
     IN  /\ levels' = w.lv /\ memory' = w.mem
         /\ tree' = IF w.ok THEN "whole" ELSE "none"
         /\ out' = [op |-> "sign_init", ok |-> w.ok, root |-> Root(Top(w.lv))]
  /\ UNCHANGED <<config, sig>>

\* subtree_leaf_lo.
LeafLo(sub) == (sub.left \div 2^sub.height) * 2^sub.level

CoversLoose(sub, q) == q - LeafLo(sub) < 2^sub.level

\* subtree_leaf_span and the unsigned test of lms_tree_sign_advance.
Covers(sub, q) == 0 <= q - LeafLo(sub) /\ q - LeafLo(sub) < 2^sub.level

\* lms_tree_sign_advance: rebuild every level below the top that does not
\* cover q.
RECURSIVE Advance(_, _, _, _)
Advance(w, s, q, bad) ==
  LET sub == w.lv[s].active
      span == 2^sub.level
  IN  IF s + 1 >= config.levels \/ ~ w.ok THEN w
      ELSE IF Covers(sub, q) THEN Advance(w, s + 1, q, bad)
      ELSE Advance(BuildAt(w, s, "active", (q \div span) * span, bad), s + 1, q, bad)

Sibling(x) == IF x % 2 = 0 THEN x + 1 ELSE x - 1

\* lms_tree_auth_path: the sibling at each height, from the leaf up.
AuthPath(lv, q) ==
  [t \in 0 .. H - 1 |->
    LET s == t \div config.j
        sub == lv[s].active
        pos == (q \div 2^(s * config.j)) % 2^sub.height
        local == (2^sub.height + pos) \div 2^(t % config.j)
    IN  sub.nodes[Sibling(local)]]

\* lms_tree_node: the plain recursion.
RECURSIVE TreeNode(_, _)
TreeNode(num, bad) ==
  LET l == TreeNode(2 * num, bad)
      r == TreeNode(2 * num + 1, bad)
      n == InternalNode(num, l.val, r.val, bad)
  IN  IF num >= 2^H THEN Leaf(num - 2^H, bad)
      ELSE [ok |-> l.ok /\ r.ok /\ n.ok, val |-> n.val]

\* lms_public_key_generate.
PublicKeyGenerate(bad) ==
  /\ Buildable
  /\ LET r == TreeNode(1, bad)
     IN  out' = [op |-> "public_key_generate", ok |-> r.ok, root |-> r.val]
  /\ UNCHANGED <<config, levels, memory, tree, sig>>

Signature(q, w, d, path, state) ==
  [q |-> q, w |-> w, d |-> d, y |-> LmotsSign(d, w), path |-> path, tree |-> state]

\* lms_do_sign at leaf q with the cached path, lms_subtree_auth_path_backend.
SignCached(q, w, d, budget, bad) ==
  /\ levels # << >> /\ tree # "none"
  /\ LET a == Advance(Work(levels, budget), 0, q, bad)
     IN  /\ levels' = a.lv /\ memory' = a.mem
         /\ tree' = IF a.ok THEN tree ELSE "faulted"
         /\ sig' = IF a.ok THEN Signature(q, w, d, AuthPath(a.lv, q), tree) ELSE NoSig
         /\ out' = [op |-> "sign", ok |-> a.ok]
  /\ UNCHANGED config

\* lms_do_sign without a backend: the siblings by recursion.
SignRecursive(q, w, d, bad) ==
  /\ levels = << >> /\ Buildable
  /\ LET node[t \in 0 .. H] == IF t = 0 THEN 2^H + q ELSE node[t - 1] \div 2
         path == [t \in 0 .. H - 1 |-> TreeNode(Sibling(node[t]), bad)]
         ok == \A t \in 0 .. H - 1 : path[t].ok
     IN  /\ sig' = IF ok THEN Signature(q, w, d, [t \in 0 .. H - 1 |-> path[t].val], "whole")
                   ELSE NoSig
         /\ out' = [op |-> "sign", ok |-> ok]
  /\ UNCHANGED <<config, levels, memory, tree>>

\* The climb of lms_root_from_signature and lms_coprocess_root_from_kv.
StepUp(num, node, sibling) ==
  IF num % 2 = 0 THEN InternalNode(num \div 2, node, sibling, NoFault).val
                 ELSE InternalNode(num \div 2, sibling, node, NoFault).val

RootFromPath(q, leaf, path) ==
  LET node[t \in 0 .. H] ==
        IF t = 0 THEN leaf
        ELSE StepUp((2^H + q) \div 2^(t - 1), node[t - 1], path[t - 1])
  IN  node[H]

\* lmots_verify_leaf: the leaf of q if the chains end where the key's do.
VerifyLeaf(q, w, d, y) ==
  IF PublicFromSignature(d, w, y) = PublicFromPrivate(w) THEN 2^H + q ELSE Wrong

\* lms_verify of the last signature, for the message d.
Verify(d) ==
  /\ sig # NoSig
  /\ LET root == RootFromPath(sig.q, VerifyLeaf(sig.q, sig.w, d, sig.y), sig.path)
     IN  out' = [op |-> "verify", ok |-> root = 1, d |-> d]
  /\ UNCHANGED <<config, levels, memory, tree, sig>>

\* lms_coprocess_tree_init and lms_coprocess_build: the full tree.
CoprocessTree(bad) ==
  LET nodes[x \in 1 .. 2^(H + 1) - 1] ==
        IF x >= 2^H THEN Leaf(x - 2^H, bad).val
        ELSE InternalNode(x, nodes[2 * x], nodes[2 * x + 1], bad).val
  IN  [ok |-> bad \notin 1 .. 2^(H + 1) - 1, nodes |-> nodes]

\* lms_coprocess_auth_path of q, checked with lms_coprocess_root_from_kv and
\* lms_coprocess_verify against lms_coprocess_root.
Coprocess(q, bad) ==
  /\ Buildable
  /\ LET t == CoprocessTree(bad)
         path == [i \in 0 .. H - 1 |-> t.nodes[Sibling((2^H + q) \div 2^i)]]
         root == RootFromPath(q, t.nodes[2^H + q], path)
     IN  out' = [op |-> "coprocess", ok |-> t.ok,
                 root |-> IF root = t.nodes[1] THEN root ELSE Wrong]
  /\ UNCHANGED <<config, levels, memory, tree, sig>>

\* A new call; calls on one context do not overlap.
Call ==
  /\ out = NoResult
  /\ \/ \E h \in Heights, t \in Targets : Configure(h, t)
     \/ \E k \in Budgets : CtxInit(k)
     \/ CtxFree
     \/ \E bad \in Faults : BuildActive(bad)
     \/ \E bad \in Faults : KeygenRoot(bad)
     \/ \E f \in Failures : SignInit(f[2], f[1])
     \/ \E bad \in Faults : PublicKeyGenerate(bad)
     \/ \E q \in Leaves, o \in CachedOts, f \in Failures :
          SignCached(q, o[1], o[2], f[2], f[1])
     \/ \E q \in Leaves, w \in Widths, d \in Digests, bad \in Faults :
          SignRecursive(q, w, d, bad)
     \/ \E q \in Leaves, bad \in Faults : Coprocess(q, bad)

\* The caller is done with what the last call returned.
Done ==
  /\ out # NoResult
  /\ out' = NoResult /\ sig' = NoSig
  /\ UNCHANGED <<config, levels, memory, tree>>

Next == Call \/ (\E d \in Digests : Verify(d)) \/ Done

Spec == Init /\ [][Next]_vars
----------------------------------------------------------------------------
(* Properties *)

\* Every root a call returns with LMS_OK is the root of the tree, whichever
\* way it was built: streamed, by levels, in one piece, by recursion, or by
\* the coprocessor helper.  lms_tree_build_active counts while no
\* lms_tree_keygen_root has moved the context's subtree: after one it returns
\* LMS_OK with another root.
RootsAgree ==
  /\ out.op \in {"keygen_root", "sign_init", "public_key_generate", "coprocess"} /\ out.ok
       => out.root = 1
  /\ out.op = "build_active" /\ out.ok /\ tree = "whole" => out.root = 1

\* After a build, and until a rebuild fails, a cached subtree holds exactly
\* the nodes of the segment that left_leaf says it covers; a segment behind
\* the tree (as lms_tree_keygen_root leaves it) covers no leaf.  The top
\* subtree is always complete.
CacheMatchesSegment ==
  tree = "whole" =>
    \A s \in Level :
      LET sub == levels[s].active
          top == s + 1 = config.levels
          At(x) == LocalToGlobal(IF top THEN [sub EXCEPT !.left = 0] ELSE sub, x)
      IN  top \/ LeafLo(sub) < 2^H =>
            \A x \in DOMAIN sub.nodes : sub.nodes[x] = At(x)

\* A signature whose path came from such a cache, or from the recursion, is
\* accepted by lms_verify for its own message.
OwnSignatureAccepted ==
  sig # NoSig /\ out.op = "verify" /\ sig.tree = "whole" /\ out.d = sig.d => out.ok

\* lms_verify accepts no other message, and no chain of the signature can be
\* continued to a signature of the other message: at least one would have to
\* be walked backwards.  This is what the checksum is for.
NoOtherMessage ==
  sig # NoSig /\ out.op = "verify" /\ out.d # sig.d =>
    /\ ~ out.ok
    /\ \E i \in Chain(sig.w) : Coefficients(out.d, sig.w)[i] < sig.y[i]

\* The allocator has given out what lms_tree_estimate_memory says plus the
\* array of levels, and nothing once the context is freed, also after a call
\* that ran out of memory half way.
MemoryAccounted ==
  memory = IF levels = << >> THEN 0
           ELSE config.est + config.levels * SublevelSize

\* lms_tree_configure finds the cut with the fewest levels that fits, the
\* smallest of those; the smallest of all if none fits.
ConfigurationBest ==
  config # NoConfig =>
    LET J == MinJ .. H
        Mem(j) == EstimateMemory(H, j)
        Fit == {j \in J : Mem(j) <= config.target}
    IN  /\ config.est = Mem(config.j) /\ config.levels = Sublevels(H, config.j)
        /\ config.within <=> Fit # {}
        /\ Fit # {} => /\ config.j \in Fit
                       /\ \A j \in Fit : \/ Sublevels(H, j) > config.levels
                                         \/ (Sublevels(H, j) = config.levels /\ Mem(j) >= config.est)
        /\ Fit = {} => \A j \in J : Mem(j) >= config.est
=============================================================================
