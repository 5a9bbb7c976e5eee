--------------------------------- MODULE Hss ---------------------------------
(***************************************************************************)
(* The hierarchical signer of src/hss.c.  Every level of the hierarchy is  *)
(* an LMS key derived from the master seed, the level and a generation     *)
(* counter; a level's public key is certified by a leaf of the level       *)
(* above, and the bottom level signs the messages.                         *)
(*                                                                         *)
(* hss_sign works on a heap copy of the private key.  It rebuilds the      *)
(* levels that are used up, signs, and only then copies the result back:   *)
(* a hash, a tree build or a one-time signature that fails in between (all *)
(* of them may run on the accelerator) drops the copy, although leaves of  *)
(* it have signed already.                                                 *)
(*                                                                         *)
(* Abstractions.  A key is the pair (level, generation) its identifier and *)
(* its SEED are derived from; the derivation does not collide.  An LMS     *)
(* signature records the key, the leaf and the content it was made with.   *)
(* All levels use one hash: hss_private_key_init refuses other parameter   *)
(* sets before it builds anything.                                         *)
(***************************************************************************)
EXTENDS Integers

CONSTANTS
  Levels,     \* levels of the hierarchy, at most HSS_MAX_LEVELS
  Cap,        \* leaves of a tree, per level (2^height)
  GenMod,     \* values of a generation counter (2^256 in the code)
  Messages    \* messages to sign

MaxLevels == 8
Level == 0 .. Levels - 1
Bottom == Levels - 1
Parents == 0 .. Levels - 2

ASSUME LevelsAssumption == Levels \in 1 .. MaxLevels
\* The smallest tree of the parameter table has 32 leaves; two are enough.
ASSUME CapAssumption == Cap \in [Level -> Nat] /\ \A l \in Level : Cap[l] >= 2
ASSUME GenModAssumption == GenMod \in Nat /\ GenMod > 0

VARIABLES
  gen, q, cert,       \* the caller's private key: generation, next leaf and
                      \* certificate of every level
  wgen, wq, wcert,    \* the copy hss_sign works on
  pc,                 \* "new": no key yet; "idle"; "refresh"; "final"
  top, lv, j,         \* the refresh: the level with a leaf left, the level
                      \* whose call runs, the level it rebuilds next
  msg,                \* the message of the running hss_sign
  signed,             \* every one-time signature computed: also those of
                      \* dropped copies and of calls that failed afterwards
  returned,           \* the message signatures of calls that succeeded
  out,                \* the signature returned last
  status              \* why the last call returned; the code has one error,
                      \* LMS_ERR_EXHAUSTED, for "exhausted" and "fault"

priv == <<gen, q, cert>>
work == <<wgen, wq, wcert>>
vars == <<gen, q, cert, wgen, wq, wcert, pc, top, lv, j, msg, signed,
          returned, out, status>>

----------------------------------------------------------------------------
\* derive_level_material and build_level: the key pair of a generation.
Key(l, g) == [level |-> l, gen |-> g]

\* lms_sign at leaf n.
Sig(l, g, n, body) == [key |-> Key(l, g), q |-> n, body |-> body]

Certificate(l, g, n, childgen) == Sig(l, g, n, Key(l + 1, childgen))

\* Memory that holds no certificate, no signature yet.
NoSig == Sig(Levels, 0, 0, Key(Levels, 0))
NoOut == [levels |-> 0, certs |-> << >>, pubs |-> << >>, last |-> NoSig]

ExhaustedOffByOne(l) == q[l] > Cap[l]

\* lms_capacity: no leaf left in the tree of level l.
Exhausted(l) == q[l] >= Cap[l]
WithLeaf == {l \in Level : ~ Exhausted(l)}

CanIncrementAlways(g) == TRUE

\* increment_generation: the carry out of the counter is an error.
CanIncrement(g) == g + 1 < GenMod
Increment(g) == IF g + 1 = GenMod THEN 0 ELSE g + 1

RebuiltNoReset(leaf, l) == [leaf EXCEPT ![l - 1] = @ + 1]

\* The leaf counters once level l is rebuilt and certified.
Rebuilt(leaf, l) == [leaf EXCEPT ![l - 1] = @ + 1, ![l] = 0]

\* lms_verify, for a leaf number the tree has.
LmsVerify(pub, body, s) == s.key = pub /\ s.body = body

\* The public key hss_public_key_generate exports.
PublicKey == [levels |-> Levels, root |-> Key(0, gen[0])]

HssVerifyAnyDepth(pub, body, s) ==
  LET Signer(i) == IF i = 0 THEN pub.root ELSE s.pubs[i - 1]
  IN  /\ \A i \in 0 .. s.levels - 2 : LmsVerify(Signer(i), s.pubs[i], s.certs[i])
      /\ LmsVerify(Signer(s.levels - 1), body, s.last)

\* hss_verify: the claimed number of levels, the certificates from the root
\* down, the message under the last certified key.
HssVerify(pub, body, s) ==
  LET Signer(i) == IF i = 0 THEN pub.root ELSE s.pubs[i - 1]
  IN  /\ s.levels = pub.levels /\ s.levels \in 1 .. MaxLevels
      /\ \A i \in 0 .. s.levels - 2 : LmsVerify(Signer(i), s.pubs[i], s.certs[i])
      /\ LmsVerify(Signer(s.levels - 1), body, s.last)
----------------------------------------------------------------------------
Init ==
  /\ gen = [l \in Level |-> 0] /\ q = [l \in Level |-> 0]
  /\ cert = [l \in Parents |-> NoSig]
  /\ wgen = gen /\ wq = q /\ wcert = cert
  /\ pc = "new" /\ top = 0 /\ lv = 0 /\ j = 0
  /\ msg \in Messages
  /\ signed = {} /\ returned = {} /\ out = NoOut /\ status = "none"

FirstCertificates(n) == {Certificate(l, 0, 0, 0) : l \in 0 .. n - 1}

\* hss_private_key_init: all levels at generation 0, then a certificate for
\* each level but the first.
HssPrivateKeyInit ==
  /\ pc = "new"
  /\ pc' = "idle"
  /\ q' = [l \in Level |-> IF l < Bottom THEN 1 ELSE 0]
  /\ cert' = [l \in Parents |-> Certificate(l, 0, 0, 0)]
  /\ signed' = signed \cup FirstCertificates(Bottom)
  /\ status' = "ok"
  /\ UNCHANGED <<gen, work, top, lv, j, msg, returned, out>>

\* ... or a build or the certificate after the first n fails; the caller has
\* no key and may try again with the same master seed.
HssPrivateKeyInitFail ==
  /\ pc = "new"
  /\ \E n \in 0 .. Bottom : signed' = signed \cup FirstCertificates(n)
  /\ status' = "fault"
  /\ UNCHANGED <<priv, work, pc, top, lv, j, msg, returned, out>>
----------------------------------------------------------------------------
\* A call returns without copying back.
Return(s) ==
  /\ pc' = "idle" /\ status' = s
  /\ UNCHANGED <<priv, work, top, lv, j, msg, returned, out>>

\* hss_sign up to the refresh: the copy, and the recursion of
\* refresh_level_if_exhausted up to the first level that has a leaf.  It
\* rebuilds the levels below that one when it unwinds.
HssSign ==
  /\ pc = "idle" /\ WithLeaf # {}
  /\ msg' \in Messages
  /\ wgen' = gen /\ wq' = q /\ wcert' = cert
  /\ top' \in WithLeaf /\ \A l \in WithLeaf : l <= top'
  /\ lv' = top' + 1 /\ j' = top' + 1
  /\ pc' = IF top' = Bottom THEN "final" ELSE "refresh"
  /\ status' = "none"
  /\ UNCHANGED <<priv, signed, returned, out>>

\* No memory for the copy.
HssSignNoMemory ==
  /\ pc = "idle"
  /\ Return("invalid") /\ UNCHANGED signed

\* The call for level lv rebuilds it and every level below it; then the call
\* for lv + 1, whose level is already new, returns from its recursion and
\* does the same once more.
NextRebuild ==
  /\ lv' = IF j < Bottom THEN lv ELSE lv + 1
  /\ j' = IF j < Bottom THEN j + 1 ELSE lv + 1
  /\ pc' = IF lv' > Bottom THEN "final" ELSE "refresh"

\* sign_child_certificate for the new generation of level j.
ChildCertificate ==
  Certificate(j - 1, wgen[j - 1], wq[j - 1], Increment(wgen[j]))

\* One round of refresh_level_if_exhausted: increment_generation,
\* build_level and sign_child_certificate for level j.
RefreshLevel ==
  /\ pc = "refresh"
  /\ CanIncrement(wgen[j]) /\ wq[j - 1] < Cap[j - 1]
  /\ wgen' = [wgen EXCEPT ![j] = Increment(wgen[j])]
  /\ wq' = Rebuilt(wq, j)
  /\ wcert' = [wcert EXCEPT ![j - 1] = ChildCertificate]
  /\ signed' = signed \cup {ChildCertificate}
  /\ NextRebuild
  /\ UNCHANGED <<priv, top, msg, returned, out, status>>

\* Every level is used up, the first one too.
RootUsedUp == pc = "idle" /\ WithLeaf = {}

\* The generation counter or the leaves of the parent have run out.
CannotRebuild ==
  /\ pc = "refresh"
  /\ ~ CanIncrement(wgen[j]) \/ wq[j - 1] >= Cap[j - 1]

\* refresh_level_if_exhausted gives up; the copy is dropped.
RefreshExhausted ==
  /\ RootUsedUp \/ CannotRebuild
  /\ Return("exhausted") /\ UNCHANGED signed

\* A hash, the build, or the certificate fails, the last possibly after its
\* one-time signature was computed.
RefreshLevelFail ==
  /\ pc = "refresh"
  /\ CanIncrement(wgen[j]) /\ wq[j - 1] < Cap[j - 1]
  /\ signed' = signed \/ signed' = signed \cup {ChildCertificate}
  /\ Return("fault")

SignatureStaleCopy ==
  [levels |-> Levels, certs |-> cert,
   pubs |-> [l \in Parents |-> Key(l + 1, wgen[l + 1])],
   last |-> Sig(Bottom, wgen[Bottom], wq[Bottom], msg)]

\* What hss_sign writes: the certificates and public keys of the copy, and
\* the signature of the message.
Signature ==
  [levels |-> Levels, certs |-> wcert,
   pubs |-> [l \in Parents |-> Key(l + 1, wgen[l + 1])],
   last |-> Sig(Bottom, wgen[Bottom], wq[Bottom], msg)]

\* The message is signed and the copy becomes the key.
ReturnSignature ==
  /\ pc = "final"
  /\ out' = Signature
  /\ signed' = signed \cup {Signature.last}
  /\ returned' = returned \cup {Signature.last}
  /\ gen' = wgen /\ q' = [wq EXCEPT ![Bottom] = @ + 1] /\ cert' = wcert
  /\ pc' = "idle" /\ status' = "ok"
  /\ UNCHANGED <<work, top, lv, j, msg>>

\* lms_sign fails and the key stays as it was.  When it is the path that
\* fails, the one-time signature of the message is already in the buffer of
\* the caller.
ReturnNothing ==
  /\ pc = "final"
  /\ signed' = signed \/ signed' = signed \cup {Signature.last}
  /\ Return("fault")

Next ==
  \/ HssPrivateKeyInit \/ HssPrivateKeyInitFail
  \/ HssSign \/ HssSignNoMemory
  \/ RefreshLevel \/ RefreshExhausted \/ RefreshLevelFail
  \/ ReturnSignature \/ ReturnNothing

Spec == Init /\ [][Next]_vars
----------------------------------------------------------------------------
\* Types: generations below the wrap, at most Cap leaves used per tree.
TypeOK ==
  /\ gen \in [Level -> 0 .. GenMod - 1] /\ wgen \in [Level -> 0 .. GenMod - 1]
  /\ q \in [Level -> Nat] /\ wq \in [Level -> Nat]
  /\ \A l \in Level : q[l] <= Cap[l] /\ wq[l] <= Cap[l]
  /\ pc \in {"new", "idle", "refresh", "final"}
  /\ top \in Level /\ lv \in 0 .. Levels /\ j \in 0 .. Levels
  /\ msg \in Messages
  /\ status \in {"none", "ok", "exhausted", "fault", "invalid"}

\* Of all the one-time signatures that are computed, also in copies that a
\* failed hss_sign dropped and in the buffers of calls that failed, two use a
\* leaf for different contents only if the leaf is one of the bottom level
\* and one of the two calls failed after it had signed: certificates never
\* do, nor do the messages of two calls that succeeded (src/hss.c:119-160,
\* 311-338; src/lms_sign.c:51-63).
OneTimeLeaves ==
  \A s, t \in signed :
    s.key = t.key /\ s.q = t.q /\ s.body # t.body =>
      s.key.level = Bottom /\ ~ {s, t} \subseteq returned

\* What hss_sign returns is accepted by hss_verify under the exported public
\* key, whatever was rebuilt, dropped and rebuilt again before.
ReturnedVerifies ==
  out # NoOut => HssVerify(PublicKey, out.last.body, out)

\* A signature that presents the certificate of level n as the signature of a
\* message: in the place of the last part, or at the end of a shorter chain.
Presented(s, n) ==
  {[s EXCEPT !.last = s.certs[n]], [s EXCEPT !.last = s.certs[n], !.levels = n + 1]}

\* A certificate on the way down is not accepted as the signature of a
\* message: no level has the key of another one, and hss_verify insists on the
\* number of levels of the public key.
CertificateIsNoMessage ==
  out # NoOut =>
    \A n \in Parents : \A s \in Presented(out, n) : ~ HssVerify(PublicKey, out.pubs[n], s)

\* Without a failure hss_sign reports exhaustion only when every level is
\* used up, or a generation counter is within Levels of its end: the leaves
\* that the repeated rebuilds consume never use up a fresh parent.
ExhaustedForReal ==
  status = "exhausted" =>
    (\A l \in Level : Exhausted(l)) \/ (\E l \in Level : gen[l] + Levels > GenMod)

\* A level never goes back to an earlier generation, nor to an earlier leaf
\* of the same one: not when a call fails, not when it succeeds.
NeverBack ==
  [][\A l \in Level :
       gen'[l] > gen[l] \/ (gen'[l] = gen[l] /\ q'[l] >= q[l])]_vars
===============================================================================
