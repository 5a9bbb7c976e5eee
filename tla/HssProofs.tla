------------------------------ MODULE HssProofs ------------------------------
(***************************************************************************)
(* Proofs about the hierarchical signer of Hss, for every number of        *)
(* levels, every tree size of at least two leaves and every generation     *)
(* counter.                                                                *)
(*                                                                         *)
(* The difficulty is the dropped copies.  A certificate computed in a copy *)
(* that a failed hss_sign dropped lies ahead of the caller's key: its leaf *)
(* is used again by the next call.  The invariant says which certificate   *)
(* that was: the one that the refresh of the same key computes at the same *)
(* place, so the leaf signs the same content again.  A message signature   *)
(* that a failed call left in the caller's buffer uses the leaf that the   *)
(* next successful call uses, and no other.                                *)
(***************************************************************************)
EXTENDS Hss, TLAPS

\* Level t is where the refresh of the caller's key starts from.
IsTop(t) == t \in Level /\ q[t] < Cap[t] /\ \A l \in Level : l > t => q[l] >= Cap[l]

\* The certificate the refresh from level t computes when the call for level
\* k rebuilds level i.
PathCertificate(t, k, i) ==
  Certificate(i - 1,
              gen[i - 1] + (IF i > k THEN k - t ELSE i - 1 - t),
              IF i - 1 = t THEN q[t] ELSE IF i > k THEN 0 ELSE 1,
              gen[i] + (k - t))

\* The leaf of s is used up in the caller's key.
Behind(s) ==
  /\ s.key.level \in Level /\ s.key.gen \in Nat /\ s.q \in Nat
  /\ \/ s.key.gen < gen[s.key.level]
     \/ s.key.gen = gen[s.key.level] /\ s.q < q[s.key.level]

\* s is a certificate of the next refresh.
Ahead(s) ==
  \E t \in Level, k \in Level, i \in Level :
    /\ IsTop(t) /\ t < k /\ k <= i
    /\ s = PathCertificate(t, k, i)

\* s is a message signature with the leaf that the next call uses: what a
\* call that fails in the path leaves behind.
Left(s) ==
  \E t \in Level, m \in Messages :
    /\ IsTop(t)
    /\ s = Sig(Bottom, gen[Bottom] + (Bottom - t), IF t = Bottom THEN q[t] ELSE 0, m)

\* How often the refresh has rebuilt level l.
Rebuilds(l) ==
  IF l <= top THEN 0
  ELSE IF l < lv THEN l - top
  ELSE IF l < j THEN lv - top
  ELSE lv - 1 - top

\* Where the refresh stands: the generations and the leaves of the copy.
RefreshPlace ==
  pc = "refresh" =>
    /\ lv \in Level /\ j \in Level /\ top < lv /\ lv <= j
    /\ IsTop(top)
    /\ \A l \in Level : wgen[l] = gen[l] + Rebuilds(l)
    /\ \A l \in Level : l < top => wq[l] = q[l]
    /\ wq[top] = IF lv = top + 1 /\ j = lv THEN q[top] ELSE q[top] + 1
    /\ \A l \in Level : top < l /\ l < lv - 1 => wq[l] = 2
    /\ lv > top + 1 => wq[lv - 1] = IF j = lv THEN 1 ELSE 2
    /\ j > lv => wq[j - 1] = 0
    /\ j > lv + 1 => wq[lv] = 1

FinalPlace ==
  pc = "final" =>
    /\ IsTop(top)
    /\ \A l \in Level : wgen[l] = gen[l] + (IF l <= top THEN 0 ELSE l - top)
    /\ \A l \in Level : l < top => wq[l] = q[l]
    /\ wq[top] = IF top = Bottom THEN q[top] ELSE q[top] + 1
    /\ \A l \in Level : top < l /\ l < Bottom => wq[l] = 2
    /\ wq[Bottom] < Cap[Bottom]
    /\ wq[Bottom] = IF top = Bottom THEN q[top] ELSE 0

\* The leaf of every computed signature is used up, or the signature is one
\* of the next call; the leaves of the returned ones are used up.
Accounted ==
  /\ pc = "new" => /\ signed \subseteq FirstCertificates(Bottom) /\ returned = {}
                   /\ \A l \in Level : gen[l] = 0 /\ q[l] = 0
  /\ pc # "new" => /\ \A s \in signed : Behind(s) \/ Ahead(s) \/ Left(s)
                   /\ \A s \in returned : Behind(s)

HssInv == TypeOK /\ RefreshPlace /\ FinalPlace /\ Accounted /\ OneTimeLeaves
----------------------------------------------------------------------------
\* The levels of a hierarchy.
LEMMA LevelFacts ==
  /\ Levels \in Nat /\ Bottom \in Nat /\ Levels = Bottom + 1
  /\ \A l : l \in Level <=> l \in Int /\ 0 <= l /\ l <= Bottom
BY LevelsAssumption DEF Level, Bottom, MaxLevels

\* The levels above the bottom.
LEMMA ParentFacts ==
  \A l : l \in Parents <=> l \in Int /\ 0 <= l /\ l < Bottom
BY LevelsAssumption DEF Parents, Bottom, MaxLevels

\* A tree has two leaves at least.
LEMMA CapFacts ==
  /\ Cap \in [Level -> Nat] /\ \A l \in Level : Cap[l] >= 2
  /\ GenMod \in Nat /\ GenMod > 0
BY CapAssumption, GenModAssumption

\* Fields of a signature.
LEMMA SigFields ==
  ASSUME NEW l, NEW g, NEW n, NEW b
  PROVE  /\ Sig(l, g, n, b).key.level = l /\ Sig(l, g, n, b).key.gen = g
         /\ Sig(l, g, n, b).q = n /\ Sig(l, g, n, b).body = b
BY DEF Sig, Key

\* The initial state satisfies the invariant.
LEMMA InitInv == Init => HssInv
<1> SUFFICES ASSUME Init PROVE HssInv
  OBVIOUS
<1>1. TypeOK
  BY LevelFacts, CapFacts DEF Init, TypeOK
<1>2. RefreshPlace /\ FinalPlace
  BY DEF Init, RefreshPlace, FinalPlace
<1>3. Accounted /\ OneTimeLeaves
  BY DEF Init, Accounted, OneTimeLeaves
<1> QED
  BY <1>1, <1>2, <1>3 DEF HssInv

\* Two certificates of one refresh that use the same leaf are the same.
LEMMA PathIsOneTime ==
  ASSUME TypeOK,
         NEW t \in Level, NEW k \in Level, NEW i \in Level, t < k, k <= i,
         NEW t2 \in Level, NEW k2 \in Level, NEW i2 \in Level, t2 < k2, k2 <= i2,
         IsTop(t), IsTop(t2),
         PathCertificate(t, k, i).key = PathCertificate(t2, k2, i2).key,
         PathCertificate(t, k, i).q = PathCertificate(t2, k2, i2).q
  PROVE  PathCertificate(t, k, i) = PathCertificate(t2, k2, i2)
<1> DEFINE P == PathCertificate(t, k, i)
           R == PathCertificate(t2, k2, i2)
<1>1. t = t2
  <2>1. q[t] \in Nat /\ q[t2] \in Nat /\ Cap[t] \in Nat /\ Cap[t2] \in Nat
    BY CapFacts DEF TypeOK
  <2>2. ~ (t < t2) /\ ~ (t2 < t)
    BY <2>1 DEF IsTop
  <2> QED BY <2>2, LevelFacts
<1>2. i - 1 = i2 - 1 /\ P.key.gen = R.key.gen
  BY SigFields DEF PathCertificate, Certificate
<1>3. i = i2
  BY <1>2, LevelFacts, CapFacts
<1>4. i - 1 \in Level /\ gen[i - 1] \in Nat /\ q[t] \in Nat
  BY LevelFacts, CapFacts DEF TypeOK
<1>5. /\ P.key.gen = gen[i - 1] + (IF i > k THEN k - t ELSE i - 1 - t)
      /\ R.key.gen = gen[i - 1] + (IF i > k2 THEN k2 - t ELSE i - 1 - t)
      /\ P.q = IF i - 1 = t THEN q[t] ELSE IF i > k THEN 0 ELSE 1
      /\ R.q = IF i - 1 = t THEN q[t] ELSE IF i > k2 THEN 0 ELSE 1
  BY <1>1, <1>3, SigFields DEF PathCertificate, Certificate
<1>6. k = k2
  <2>1. CASE i - 1 = t
    BY <2>1, <1>1, <1>3, LevelFacts, CapFacts
  <2>2. CASE i - 1 # t
    <3>1. (IF i > k THEN 0 ELSE 1) = (IF i > k2 THEN 0 ELSE 1)
      BY <2>2, <1>5
    <3>2. (IF i > k THEN k - t ELSE i - 1 - t) = (IF i > k2 THEN k2 - t ELSE i - 1 - t)
      BY <1>2, <1>4, <1>5, LevelFacts, CapFacts
    <3> QED BY <3>1, <3>2, <1>1, <1>3, LevelFacts, CapFacts
  <2> QED BY <2>1, <2>2
<1> QED
  BY <1>1, <1>3, <1>6

\* A leaf of the next refresh is not used up.
LEMMA AheadIsFresh ==
  ASSUME TypeOK, NEW s, NEW r, Behind(s), Ahead(r)
  PROVE  ~ (s.key = r.key /\ s.q = r.q)
<1>1. PICK t \in Level, k \in Level, i \in Level :
        IsTop(t) /\ t < k /\ k <= i /\ r = PathCertificate(t, k, i)
  BY DEF Ahead
<1>2. i - 1 \in Level /\ gen[i - 1] \in Nat /\ q[t] \in Nat
  BY <1>1, LevelFacts, CapFacts DEF TypeOK
<1>3. /\ r.key.level = i - 1
      /\ r.key.gen = gen[i - 1] + (IF i > k THEN k - t ELSE i - 1 - t)
      /\ r.q = IF i - 1 = t THEN q[t] ELSE IF i > k THEN 0 ELSE 1
  BY <1>1, SigFields DEF PathCertificate, Certificate
<1> QED
  BY <1>1, <1>2, <1>3, LevelFacts, CapFacts DEF Behind

\* What the refresh signs next is the certificate the path names.
LEMMA ChildIsOnPath ==
  ASSUME TypeOK, RefreshPlace, pc = "refresh", CanIncrement(wgen[j])
  PROVE  /\ ChildCertificate = PathCertificate(top, lv, j)
         /\ Ahead(ChildCertificate)
<1>1. /\ lv \in Level /\ j \in Level /\ top \in Level /\ top < lv /\ lv <= j
      /\ IsTop(top) /\ j - 1 \in Level
  BY LevelFacts, CapFacts DEF RefreshPlace, TypeOK
<1>2. wgen[j - 1] = gen[j - 1] + (IF j > lv THEN lv - top ELSE j - 1 - top)
  BY <1>1, LevelFacts, CapFacts DEF RefreshPlace, Rebuilds, TypeOK
<1>3. Increment(wgen[j]) = gen[j] + (lv - top)
  BY <1>1, LevelFacts, CapFacts DEF RefreshPlace, Rebuilds, TypeOK, Increment, CanIncrement
<1>4. wq[j - 1] = IF j - 1 = top THEN q[top] ELSE IF j > lv THEN 0 ELSE 1
  <2>1. CASE j - 1 = top
    BY <1>1, <2>1, LevelFacts, CapFacts DEF RefreshPlace
  <2>2. CASE j - 1 # top /\ j > lv
    BY <1>1, <2>2, LevelFacts, CapFacts DEF RefreshPlace
  <2>3. CASE j - 1 # top /\ ~ (j > lv)
    BY <1>1, <2>3, LevelFacts, CapFacts DEF RefreshPlace
  <2> QED BY <2>1, <2>2, <2>3
<1>5. ChildCertificate = PathCertificate(top, lv, j)
  BY <1>2, <1>3, <1>4 DEF ChildCertificate, PathCertificate
<1> QED
  BY <1>1, <1>5 DEF Ahead

\* The level of a certificate of the refresh, and of a message signature.
LEMMA AheadOrLeftLevel ==
  ASSUME NEW s
  PROVE  /\ Ahead(s) => s.key.level # Bottom
         /\ Left(s) => s.key.level = Bottom
<1>1. ASSUME Ahead(s) PROVE s.key.level # Bottom
  <2>1. PICK t \in Level, k \in Level, i \in Level : s = PathCertificate(t, k, i)
    BY <1>1 DEF Ahead
  <2>2. s.key.level = i - 1
    BY <2>1, SigFields DEF PathCertificate, Certificate
  <2> QED BY <2>2, LevelFacts
<1>2. Left(s) => s.key.level = Bottom
  BY SigFields DEF Left
<1> QED BY <1>1, <1>2

\* The leaf of the next message is not used up.
LEMMA LeftIsFresh ==
  ASSUME TypeOK, NEW s, NEW r, Behind(s), Left(r)
  PROVE  ~ (s.key = r.key /\ s.q = r.q)
<1>1. PICK t \in Level, m \in Messages :
        IsTop(t) /\ r = Sig(Bottom, gen[Bottom] + (Bottom - t),
                           IF t = Bottom THEN q[t] ELSE 0, m)
  BY DEF Left
<1>2. Bottom \in Level /\ gen[Bottom] \in Nat /\ q[t] \in Nat /\ q[Bottom] \in Nat
  BY <1>1, LevelFacts, CapFacts DEF TypeOK
<1>3. /\ r.key.level = Bottom /\ r.key.gen = gen[Bottom] + (Bottom - t)
      /\ r.q = IF t = Bottom THEN q[t] ELSE 0
  BY <1>1, SigFields
<1> QED BY <1>2, <1>3, LevelFacts DEF Behind

\* The signature of the message in the last step of hss_sign is such a one.
LEMMA LastIsLeft ==
  ASSUME TypeOK, FinalPlace, pc = "final"
  PROVE  Left(Signature.last)
<1>1. Signature.last = Sig(Bottom, wgen[Bottom], wq[Bottom], msg)
  BY DEF Signature
<1>2. top \in Level /\ msg \in Messages /\ IsTop(top) /\ Bottom \in Level
      /\ gen[Bottom] \in Nat
  BY LevelFacts, CapFacts DEF TypeOK, FinalPlace
<1>3. wq[Bottom] = IF top = Bottom THEN q[top] ELSE 0
  BY DEF FinalPlace
<1>4. wgen[Bottom] = gen[Bottom] + (Bottom - top)
  BY <1>2, LevelFacts DEF FinalPlace
<1> QED BY <1>1, <1>2, <1>3, <1>4 DEF Left

\* Adding a certificate of the refresh keeps the leaves one-time.
LEMMA AddChild ==
  ASSUME HssInv, pc = "refresh", CanIncrement(wgen[j]),
         NEW s \in signed \cup {ChildCertificate},
         NEW t \in signed \cup {ChildCertificate},
         s.key = t.key, s.q = t.q, s.body # t.body
  PROVE  s.key.level = Bottom /\ ~ {s, t} \subseteq returned
<1> DEFINE c == ChildCertificate
<1>1. /\ TypeOK /\ RefreshPlace /\ Ahead(c)
      /\ \A x \in signed : Behind(x) \/ Ahead(x) \/ Left(x)
  BY ChildIsOnPath DEF HssInv, Accounted
<1>2. ASSUME NEW x \in signed, x.key = c.key, x.q = c.q
      PROVE  x.body = c.body
  <2>1. Ahead(x)
    BY <1>1, <1>2, AheadIsFresh, AheadOrLeftLevel
  <2>2. PICK t1 \in Level, k1 \in Level, i1 \in Level :
          IsTop(t1) /\ t1 < k1 /\ k1 <= i1 /\ x = PathCertificate(t1, k1, i1)
    BY <2>1 DEF Ahead
  <2>3. PICK t2 \in Level, k2 \in Level, i2 \in Level :
          IsTop(t2) /\ t2 < k2 /\ k2 <= i2 /\ c = PathCertificate(t2, k2, i2)
    BY <1>1 DEF Ahead
  <2>4. x = c
    BY <1>1, <1>2, <2>2, <2>3, PathIsOneTime
  <2> QED BY <2>4
<1>3. s \in signed /\ t \in signed
  BY <1>2
<1> QED
  BY <1>3 DEF HssInv, OneTimeLeaves
----------------------------------------------------------------------------
\* As long as the caller's key stays, what is used up and what is ahead stay.
LEMMA SameKey ==
  ASSUME UNCHANGED <<gen, q>>, NEW s
  PROVE  Behind(s)' = Behind(s) /\ Ahead(s)' = Ahead(s) /\ Left(s)' = Left(s)
BY DEF Behind, Ahead, Left, IsTop, PathCertificate, Certificate, Sig, Key

\* Making the key: the first certificates are used up at once.
LEMMA InitStep ==
  ASSUME HssInv, HssPrivateKeyInit \/ HssPrivateKeyInitFail
  PROVE  HssInv'
<1>1. \A n \in 0 .. Bottom : FirstCertificates(n) \subseteq FirstCertificates(Bottom)
  BY LevelFacts, CapFacts DEF FirstCertificates
<1>2. signed' \subseteq FirstCertificates(Bottom)
  <2>1. signed \subseteq FirstCertificates(Bottom)
    BY DEF HssInv, Accounted, HssPrivateKeyInit, HssPrivateKeyInitFail
  <2>2. CASE HssPrivateKeyInit
    BY <2>1, <2>2 DEF HssPrivateKeyInit
  <2>3. CASE HssPrivateKeyInitFail
    <3>1. PICK n \in 0 .. Bottom : signed' = signed \cup FirstCertificates(n)
      BY <2>3 DEF HssPrivateKeyInitFail
    <3> QED BY <1>1, <2>1, <3>1
  <2> QED BY <2>2, <2>3
<1>2r. returned' = {}
  BY DEF HssInv, Accounted, HssPrivateKeyInit, HssPrivateKeyInitFail
<1>3. OneTimeLeaves'
  <2> SUFFICES ASSUME NEW s \in FirstCertificates(Bottom),
                      NEW t \in FirstCertificates(Bottom), s.key = t.key
               PROVE  s.body = t.body
    BY <1>2 DEF OneTimeLeaves
  <2>1. PICK l \in 0 .. Bottom - 1 : s = Certificate(l, 0, 0, 0)
    BY DEF FirstCertificates
  <2>2. PICK m \in 0 .. Bottom - 1 : t = Certificate(m, 0, 0, 0)
    BY DEF FirstCertificates
  <2>3. l = m
    BY <2>1, <2>2, SigFields DEF Certificate
  <2> QED BY <2>1, <2>2, <2>3
<1>4. CASE HssPrivateKeyInit
  <2>1. TypeOK'
    BY <1>4, LevelFacts, CapFacts DEF HssInv, TypeOK, HssPrivateKeyInit, work
  <2>2. RefreshPlace' /\ FinalPlace'
    BY <1>4 DEF HssPrivateKeyInit, RefreshPlace, FinalPlace
  <2>3. ASSUME NEW s \in signed' PROVE Behind(s)'
    <3>1. PICK l \in 0 .. Bottom - 1 : s = Certificate(l, 0, 0, 0)
      BY <1>2 DEF FirstCertificates
    <3>2. l \in Level /\ s.key.level = l /\ s.key.gen = 0 /\ s.q = 0
      BY <3>1, SigFields, LevelFacts, CapFacts DEF Certificate
    <3>3. gen[l]' = 0 /\ q'[l] = 1
      BY <3>1, <3>2, <1>4, LevelFacts, CapFacts DEF HssPrivateKeyInit, HssInv, Accounted
    <3> QED BY <3>2, <3>3 DEF Behind
  <2>4. Accounted'
    BY <1>4, <1>2r, <2>3 DEF Accounted, HssPrivateKeyInit
  <2> QED BY <1>3, <2>1, <2>2, <2>4 DEF HssInv
<1>5. CASE HssPrivateKeyInitFail
  <2>1. TypeOK'
    BY <1>5, LevelFacts, CapFacts DEF HssInv, TypeOK, HssPrivateKeyInitFail, work, priv
  <2>2. RefreshPlace' /\ FinalPlace'
    BY <1>5 DEF HssPrivateKeyInitFail, RefreshPlace, FinalPlace
  <2>3. Accounted'
    BY <1>5, <1>2, <1>2r DEF Accounted, HssPrivateKeyInitFail, priv, HssInv
  <2> QED BY <1>3, <2>1, <2>2, <2>3 DEF HssInv
<1> QED BY <1>4, <1>5

\* A call that starts, or returns without a key.
LEMMA CallStep ==
  ASSUME HssInv, HssSign \/ HssSignNoMemory \/ RefreshExhausted
  PROVE  HssInv'
<1>1. UNCHANGED <<gen, q, signed, returned>> /\ pc # "new" /\ pc' # "new"
  BY DEF HssSign, HssSignNoMemory, RefreshExhausted, RootUsedUp, CannotRebuild, Return, priv
<1>2. OneTimeLeaves'
  BY <1>1 DEF HssInv, OneTimeLeaves
<1>3. Accounted'
  BY <1>1, SameKey DEF HssInv, Accounted
<1>4. CASE HssSign
  <2>1. top' \in Level /\ IsTop(top')
    BY <1>4, LevelFacts, CapFacts DEF HssSign, WithLeaf, Exhausted, IsTop, HssInv, TypeOK
  <2>2. TypeOK'
    <3>1. /\ gen' = gen /\ q' = q /\ wgen' = gen /\ wq' = q /\ msg' \in Messages
          /\ pc' \in {"final", "refresh"} /\ status' = "none"
          /\ lv' = top' + 1 /\ j' = top' + 1
      BY <1>4, <1>1 DEF HssSign
    <3>2. lv' \in 0 .. Levels /\ j' \in 0 .. Levels
      BY <2>1, <3>1, LevelFacts, CapFacts
    <3> QED BY <2>1, <3>1, <3>2 DEF HssInv, TypeOK
  <2>3. /\ IsTop(top)' /\ wgen' = gen' /\ wq' = q' /\ wgen' = gen /\ wq' = q
        /\ lv' = top' + 1 /\ j' = lv' /\ gen \in [Level -> Nat] /\ q \in [Level -> Nat]
        /\ top' \in Level /\ top' <= Bottom
        /\ pc' = IF top' = Bottom THEN "final" ELSE "refresh"
    BY <1>4, <2>1, <1>1, LevelFacts, CapFacts DEF HssSign, IsTop, HssInv, TypeOK
  <2>4. RefreshPlace'
    <3> SUFFICES ASSUME pc' = "refresh" PROVE RefreshPlace'
      BY DEF RefreshPlace
    <3>1. top' < Bottom /\ lv' \in Level
      BY <2>3, LevelFacts, CapFacts
    <3>2. ASSUME NEW l \in Level PROVE wgen'[l] = gen'[l] + Rebuilds(l)'
      <4>1. Rebuilds(l)' = 0
        BY <2>3, LevelFacts DEF Rebuilds
      <4>2. wgen'[l] = gen'[l] /\ gen'[l] \in Nat
        BY <2>3
      <4> QED BY <4>1, <4>2
    <3>3. j' = lv' /\ j' \in Level
      BY <2>3, <3>1
    <3>4. top' < lv' /\ lv' <= j' /\ ~ (lv' > top' + 1) /\ ~ (j' > lv')
          /\ ~ (j' > lv' + 1)
      BY <2>3, LevelFacts
    <3>5. ASSUME NEW l \in Level PROVE ~ (top' < l /\ l < lv' - 1)
      BY <2>3, LevelFacts
    <3> QED BY <2>3, <3>1, <3>2, <3>3, <3>4, <3>5 DEF RefreshPlace
  <2>5. FinalPlace'
    <3> SUFFICES ASSUME pc' = "final" PROVE FinalPlace'
      BY DEF FinalPlace
    <3>1. top' = Bottom
      BY <2>3
    <3>2. q[Bottom] < Cap[Bottom]
      BY <2>1, <3>1 DEF IsTop
    <3> QED BY <2>3, <3>1, <3>2, LevelFacts, CapFacts DEF FinalPlace
  <2> QED BY <1>2, <1>3, <2>2, <2>4, <2>5 DEF HssInv
<1>5. CASE HssSignNoMemory \/ RefreshExhausted
  <2>1. TypeOK'
    BY <1>5, LevelFacts, CapFacts
    DEF HssSignNoMemory, RefreshExhausted, Return, priv, work, HssInv, TypeOK
  <2>2. RefreshPlace' /\ FinalPlace'
    BY <1>5 DEF HssSignNoMemory, RefreshExhausted, Return, RefreshPlace, FinalPlace
  <2> QED BY <1>2, <1>3, <2>1, <2>2 DEF HssInv
<1> QED BY <1>4, <1>5

\* The last signature fails, perhaps after it has used the leaf of the message.
LEMMA LastFailStep ==
  ASSUME HssInv, ReturnNothing
  PROVE  HssInv'
<1> DEFINE last == Signature.last
<1>1. /\ UNCHANGED <<gen, q, returned>> /\ pc = "final" /\ pc' = "idle"
      /\ signed' \subseteq signed \cup {last}
  BY DEF ReturnNothing, Return, priv
<1>2. TypeOK /\ FinalPlace /\ Left(last)
  BY <1>1, LastIsLeft DEF HssInv
<1>3. last \notin returned
  BY <1>1, <1>2, LeftIsFresh DEF HssInv, Accounted
<1>4. last.key.level = Bottom
  BY <1>2, AheadOrLeftLevel
<1> HIDE DEF last
<1>5. OneTimeLeaves'
  <2> SUFFICES ASSUME NEW s \in signed \cup {last}, NEW t \in signed \cup {last},
                      s.key = t.key, s.q = t.q, s.body # t.body
               PROVE  s.key.level = Bottom /\ ~ {s, t} \subseteq returned
    BY <1>1 DEF OneTimeLeaves
  <2>1. CASE s = last \/ t = last
    BY <2>1, <1>3, <1>4
  <2>2. CASE s # last /\ t # last
    BY <2>2 DEF HssInv, OneTimeLeaves
  <2> QED BY <2>1, <2>2
<1>6. Accounted'
  <2>1. \A s \in signed' : Behind(s) \/ Ahead(s) \/ Left(s)
    BY <1>1, <1>2 DEF HssInv, Accounted
  <2> QED BY <1>1, <2>1, SameKey DEF HssInv, Accounted
<1>7. TypeOK'
  BY LevelFacts, CapFacts DEF ReturnNothing, Return, priv, work, HssInv, TypeOK
<1>8. RefreshPlace' /\ FinalPlace'
  BY <1>1 DEF RefreshPlace, FinalPlace
<1> QED BY <1>5, <1>6, <1>7, <1>8 DEF HssInv

\* A round of the refresh that fails drops the copy.
LEMMA RefreshFailStep ==
  ASSUME HssInv, RefreshLevelFail
  PROVE  HssInv'
<1>1. /\ UNCHANGED <<gen, q, returned>> /\ pc = "refresh" /\ pc' = "idle"
      /\ CanIncrement(wgen[j]) /\ signed' \subseteq signed \cup {ChildCertificate}
  BY DEF RefreshLevelFail, Return, priv
<1>2. TypeOK'
  BY LevelFacts, CapFacts DEF RefreshLevelFail, Return, priv, work, HssInv, TypeOK
<1>3. RefreshPlace' /\ FinalPlace'
  BY <1>1 DEF RefreshPlace, FinalPlace
<1>4. OneTimeLeaves'
  BY <1>1, AddChild DEF OneTimeLeaves
<1>5. Accounted'
  <2>1. \A s \in signed' : Behind(s) \/ Ahead(s) \/ Left(s)
    BY <1>1, ChildIsOnPath DEF HssInv, Accounted
  <2> QED BY <1>1, <2>1, SameKey DEF HssInv, Accounted
<1> QED BY <1>2, <1>3, <1>4, <1>5 DEF HssInv

\* A round of the refresh moves the copy along its path.
LEMMA RefreshStep ==
  ASSUME HssInv, RefreshLevel
  PROVE  HssInv'
<1>1. /\ UNCHANGED <<gen, q, top, returned>> /\ pc = "refresh" /\ pc' # "new"
      /\ CanIncrement(wgen[j]) /\ signed' = signed \cup {ChildCertificate}
      /\ wq[j - 1] < Cap[j - 1]
  BY DEF RefreshLevel, NextRebuild, priv
<1>2. /\ TypeOK /\ top \in Level /\ lv \in Level /\ j \in Level /\ j - 1 \in Level
      /\ top < lv /\ lv <= j /\ IsTop(top) /\ j <= Bottom
      /\ gen \in [Level -> Nat] /\ wgen \in [Level -> Nat]
      /\ q \in [Level -> Nat] /\ wq \in [Level -> Nat]
  BY <1>1, LevelFacts, CapFacts DEF HssInv, RefreshPlace, TypeOK
<1>3. /\ wgen' = [wgen EXCEPT ![j] = wgen[j] + 1]
      /\ wq' = [wq EXCEPT ![j - 1] = wq[j - 1] + 1, ![j] = 0]
      /\ wgen[j] + 1 < GenMod
  <2>1. wgen[j] + 1 < GenMod /\ wgen[j] \in Nat
    BY <1>1, <1>2 DEF CanIncrement
  <2>2. Increment(wgen[j]) = wgen[j] + 1
    BY <2>1, CapFacts DEF Increment
  <2>3. /\ wgen' = [wgen EXCEPT ![j] = Increment(wgen[j])]
        /\ wq' = [wq EXCEPT ![j - 1] = @ + 1, ![j] = 0]
    BY DEF RefreshLevel, Rebuilt
  <2> QED BY <2>1, <2>2, <2>3
<1>4. /\ \A l \in Level : wgen'[l] = IF l = j THEN wgen[j] + 1 ELSE wgen[l]
      /\ \A l \in Level : wq'[l] = IF l = j THEN 0 ELSE IF l = j - 1 THEN wq[l] + 1 ELSE wq[l]
      /\ wgen' \in [Level -> 0 .. GenMod - 1] /\ wq' \in [Level -> Nat]
  BY <1>2, <1>3, LevelFacts, CapFacts DEF TypeOK
<1>5. /\ lv' = IF j < Bottom THEN lv ELSE lv + 1
      /\ j' = IF j < Bottom THEN j + 1 ELSE lv + 1
      /\ pc' = IF lv' > Bottom THEN "final" ELSE "refresh"
  BY DEF RefreshLevel, NextRebuild
<1>6. TypeOK'
  <2>1. \A l \in Level : wq'[l] <= Cap[l]
    BY <1>1, <1>2, <1>4, LevelFacts, CapFacts DEF TypeOK
  <2>2. lv' \in 0 .. Levels /\ j' \in 0 .. Levels /\ pc' \in {"final", "refresh"}
    BY <1>2, <1>5, LevelFacts, CapFacts
  <2> QED BY <1>1, <1>2, <1>4, <2>1, <2>2 DEF TypeOK, RefreshLevel
<1>7. RefreshPlace'
  <2> SUFFICES ASSUME pc' = "refresh" PROVE RefreshPlace'
    BY DEF RefreshPlace
  <2>1. IsTop(top)'
    BY <1>1, <1>2 DEF IsTop
  <2>2. CASE j < Bottom
    <3>1. lv' = lv /\ j' = j + 1 /\ j' \in Level
      BY <2>2, <1>5, <1>2, LevelFacts, CapFacts
    <3>2. ASSUME NEW l \in Level PROVE wgen'[l] = gen'[l] + Rebuilds(l)'
      <4>1. wgen[l] = gen[l] + Rebuilds(l) /\ gen'[l] = gen[l] /\ gen[l] \in Nat
        BY <1>1, <1>2 DEF HssInv, RefreshPlace
      <4>2. Rebuilds(l)' = Rebuilds(l) + (IF l = j THEN 1 ELSE 0)
        BY <1>1, <1>2, <3>1, LevelFacts DEF Rebuilds
      <4>3. Rebuilds(l) \in Int
        BY <1>2, LevelFacts DEF Rebuilds
      <4> QED BY <4>1, <4>2, <4>3, <1>2, <1>4
    <3>3. \A l \in Level : l < top => wq'[l] = q'[l]
      BY <1>1, <1>2, <1>4, <3>1, LevelFacts, CapFacts DEF HssInv, RefreshPlace
    <3>4. wq'[top] = q'[top] + 1
      BY <1>1, <1>2, <1>4, <3>1, LevelFacts, CapFacts DEF HssInv, RefreshPlace
    <3>5. \A l \in Level : top < l /\ l < lv - 1 => wq'[l] = 2
      BY <1>1, <1>2, <1>4, <3>1, LevelFacts, CapFacts DEF HssInv, RefreshPlace
    <3>6. lv > top + 1 => wq'[lv - 1] = 2
      BY <1>1, <1>2, <1>4, <3>1, LevelFacts, CapFacts DEF HssInv, RefreshPlace
    <3>7. wq'[j' - 1] = 0
      BY <1>1, <1>2, <1>4, <3>1, LevelFacts, CapFacts
    <3>8. j' > lv + 1 => wq'[lv] = 1
      <4>1. CASE j = lv + 1
        BY <4>1, <1>1, <1>2, <1>4, LevelFacts DEF HssInv, RefreshPlace
      <4>2. CASE j > lv + 1
        BY <4>2, <1>1, <1>2, <1>4, LevelFacts DEF HssInv, RefreshPlace
      <4> QED BY <4>1, <4>2, <3>1, <1>2, LevelFacts
    <3> QED BY <1>1, <1>2, <2>1, <3>1, <3>2, <3>3, <3>4, <3>5, <3>6, <3>7, <3>8,
               LevelFacts, CapFacts DEF RefreshPlace
  <2>3. CASE ~ (j < Bottom)
    <3>1. j = Bottom /\ lv' = lv + 1 /\ j' = lv + 1 /\ lv' \in Level /\ lv < Bottom
      BY <2>3, <1>5, <1>2, LevelFacts, CapFacts
    <3>2. ASSUME NEW l \in Level PROVE wgen'[l] = gen'[l] + Rebuilds(l)'
      <4>1. wgen[l] = gen[l] + Rebuilds(l) /\ gen'[l] = gen[l] /\ gen[l] \in Nat
        BY <1>1, <1>2 DEF HssInv, RefreshPlace
      <4>2. Rebuilds(l)' = Rebuilds(l) + (IF l = j THEN 1 ELSE 0)
        BY <1>1, <1>2, <3>1, LevelFacts DEF Rebuilds
      <4>3. Rebuilds(l) \in Int
        BY <1>2, LevelFacts DEF Rebuilds
      <4> QED BY <4>1, <4>2, <4>3, <1>2, <1>4
    <3>3. \A l \in Level : l < top => wq'[l] = q'[l]
      BY <1>1, <1>2, <1>4, <3>1, LevelFacts, CapFacts DEF HssInv, RefreshPlace
    <3>4. wq'[top] = q'[top] + 1
      BY <1>1, <1>2, <1>4, <3>1, LevelFacts, CapFacts DEF HssInv, RefreshPlace
    <3>5. ASSUME NEW l \in Level, top < l, l < lv PROVE wq'[l] = 2
      <4>1. wq[l] = 2
        BY <1>1, <1>2, <3>1, <3>5, LevelFacts DEF HssInv, RefreshPlace
      <4>2. l # j /\ l # j - 1
        BY <1>2, <3>1, <3>5, LevelFacts
      <4> QED BY <4>1, <4>2, <1>2, <1>4, LevelFacts
    <3>6. wq'[lv] = 1
      <4>1. CASE j = lv + 1
        BY <4>1, <1>1, <1>2, <1>4, LevelFacts DEF HssInv, RefreshPlace
      <4>2. CASE j > lv + 1
        BY <4>2, <1>1, <1>2, <1>4, LevelFacts DEF HssInv, RefreshPlace
      <4> QED BY <4>1, <4>2, <3>1, <1>2, LevelFacts
    <3> QED BY <1>1, <1>2, <2>1, <3>1, <3>2, <3>3, <3>4, <3>5, <3>6,
               LevelFacts, CapFacts DEF RefreshPlace
  <2> QED BY <2>2, <2>3
<1>8. FinalPlace'
  <2> SUFFICES ASSUME pc' = "final" PROVE FinalPlace'
    BY DEF FinalPlace
  <2>1. j = Bottom /\ lv = Bottom /\ top < Bottom
    BY <1>2, <1>5, LevelFacts, CapFacts
  <2>2. IsTop(top)'
    BY <1>1, <1>2 DEF IsTop
  <2>3. ASSUME NEW l \in Level
        PROVE  wgen'[l] = gen'[l] + (IF l <= top THEN 0 ELSE l - top)
    <3>1. wgen[l] = gen[l] + Rebuilds(l) /\ gen'[l] = gen[l] /\ gen[l] \in Nat
      BY <1>1, <1>2 DEF HssInv, RefreshPlace
    <3>2. (IF l <= top THEN 0 ELSE l - top) = Rebuilds(l) + (IF l = j THEN 1 ELSE 0)
      BY <1>2, <2>1, LevelFacts DEF Rebuilds
    <3>3. Rebuilds(l) \in Int
      BY <1>2, LevelFacts DEF Rebuilds
    <3> QED BY <3>1, <3>2, <3>3, <1>2, <1>4
  <2>4. \A l \in Level : l < top => wq'[l] = q'[l]
    BY <1>1, <1>2, <1>4, <2>1, LevelFacts, CapFacts DEF HssInv, RefreshPlace
  <2>5. wq'[top] = q'[top] + 1
    BY <1>1, <1>2, <1>4, <2>1, LevelFacts, CapFacts DEF HssInv, RefreshPlace
  <2>6. \A l \in Level : top < l /\ l < Bottom => wq'[l] = 2
    BY <1>1, <1>2, <1>4, <2>1, LevelFacts, CapFacts DEF HssInv, RefreshPlace
  <2>7. wq'[Bottom] < Cap[Bottom] /\ wq'[Bottom] = 0
    BY <1>4, <2>1, LevelFacts, CapFacts
  <2> QED BY <1>1, <1>2, <2>1, <2>2, <2>3, <2>4, <2>5, <2>6, <2>7, LevelFacts
          DEF FinalPlace
<1>9. OneTimeLeaves'
  BY <1>1, AddChild DEF OneTimeLeaves
<1>10. Accounted'
  <2>1. \A s \in signed' : Behind(s) \/ Ahead(s) \/ Left(s)
    BY <1>1, <1>2, ChildIsOnPath DEF HssInv, Accounted
  <2> QED BY <1>1, <2>1, SameKey DEF HssInv, Accounted
<1> QED BY <1>6, <1>7, <1>8, <1>9, <1>10 DEF HssInv

\* What the key becomes when a call succeeds: no level goes back.
LEMMA ReturnAdvances ==
  ASSUME HssInv, ReturnSignature
  PROVE  /\ gen' = wgen /\ q' \in [Level -> Nat] /\ wgen \in [Level -> Nat]
         /\ \A l \in Level : q'[l] = IF l = Bottom THEN wq[l] + 1 ELSE wq[l]
         /\ \A l \in Level : wgen[l] > gen[l] \/ (wgen[l] = gen[l] /\ wq[l] >= q[l])
<1>1. /\ pc = "final" /\ gen' = wgen /\ q' = [wq EXCEPT ![Bottom] = wq[Bottom] + 1]
      /\ wq \in [Level -> Nat] /\ q \in [Level -> Nat]
      /\ gen \in [Level -> Nat] /\ wgen \in [Level -> Nat] /\ top \in Level
  BY CapFacts DEF ReturnSignature, HssInv, TypeOK
<1>2. q' \in [Level -> Nat]
      /\ \A l \in Level : q'[l] = IF l = Bottom THEN wq[l] + 1 ELSE wq[l]
  BY <1>1, LevelFacts
<1>3. ASSUME NEW l \in Level
      PROVE  wgen[l] > gen[l] \/ (wgen[l] = gen[l] /\ wq[l] >= q[l])
  <2>1. CASE l > top
    <3>1. wgen[l] = gen[l] + (l - top)
      BY <1>1, <2>1, LevelFacts DEF HssInv, FinalPlace
    <3> QED BY <3>1, <2>1, <1>1, LevelFacts
  <2>2. CASE l <= top
    <3>1. wgen[l] = gen[l]
      BY <1>1, <2>2, LevelFacts DEF HssInv, FinalPlace
    <3>2. wq[l] >= q[l]
      BY <1>1, <2>2, LevelFacts DEF HssInv, FinalPlace
    <3> QED BY <3>1, <3>2
  <2> QED BY <2>1, <2>2, <1>1, LevelFacts
<1> QED BY <1>1, <1>2, <1>3

\* A successful call uses up every certificate of its refresh and the leaf
\* of the message.
LEMMA ReturnStep ==
  ASSUME HssInv, ReturnSignature
  PROVE  HssInv'
<1> DEFINE last == Sig(Bottom, wgen[Bottom], wq[Bottom], msg)
<1>1. /\ pc = "final" /\ pc' = "idle" /\ signed' = signed \cup {last}
      /\ returned' = returned \cup {last}
      /\ IsTop(top) /\ top \in Level /\ TypeOK
  BY DEF ReturnSignature, Signature, HssInv, FinalPlace, TypeOK
<1>2. /\ gen' = wgen /\ q' \in [Level -> Nat] /\ wgen \in [Level -> Nat]
      /\ \A l \in Level : q'[l] = IF l = Bottom THEN wq[l] + 1 ELSE wq[l]
      /\ \A l \in Level : wgen[l] > gen[l] \/ (wgen[l] = gen[l] /\ wq[l] >= q[l])
      /\ q \in [Level -> Nat] /\ gen \in [Level -> Nat] /\ wq \in [Level -> Nat]
  BY ReturnAdvances, CapFacts DEF HssInv, TypeOK
<1>3. last.key.level = Bottom /\ last.key.gen = wgen[Bottom] /\ last.q = wq[Bottom]
  BY SigFields
<1>4. TypeOK'
  <2>1. \A l \in Level : q'[l] <= Cap[l]
    BY <1>1, <1>2, LevelFacts, CapFacts DEF HssInv, FinalPlace, TypeOK
  <2> QED BY <1>1, <1>2, <2>1 DEF ReturnSignature, TypeOK, work
<1>5. RefreshPlace' /\ FinalPlace'
  BY <1>1 DEF RefreshPlace, FinalPlace
<1>6. ASSUME NEW s, Behind(s) PROVE Behind(s)'
  <2>1. s.key.level \in Level /\ s.key.gen \in Nat /\ s.q \in Nat
    BY <1>6 DEF Behind
  <2>0. PICK l : l = s.key.level
    OBVIOUS
  <2>2. /\ l \in Level /\ gen'[l] = wgen[l] /\ q'[l] >= wq[l]
        /\ gen[l] \in Nat /\ wgen[l] \in Nat /\ q[l] \in Nat /\ wq[l] \in Nat
        /\ q'[l] \in Nat /\ (wgen[l] > gen[l] \/ (wgen[l] = gen[l] /\ wq[l] >= q[l]))
    BY <1>2, <2>0, <2>1
  <2>3. s.key.gen < gen[l] \/ (s.key.gen = gen[l] /\ s.q < q[l])
    BY <1>6, <2>0 DEF Behind
  <2>4. s.key.gen < gen'[l] \/ (s.key.gen = gen'[l] /\ s.q < q'[l])
    BY <2>1, <2>2, <2>3
  <2> QED BY <2>0, <2>1, <2>4 DEF Behind
<1>7. ASSUME NEW s, Ahead(s) PROVE Behind(s)'
  <2>1. PICK t \in Level, k \in Level, i \in Level :
          IsTop(t) /\ t < k /\ k <= i /\ s = PathCertificate(t, k, i)
    BY <1>7 DEF Ahead
  <2>2. t = top
    <3>1. q[t] \in Nat /\ q[top] \in Nat /\ Cap[t] \in Nat /\ Cap[top] \in Nat
      BY <1>1, <1>2, CapFacts
    <3>2. ~ (t < top) /\ ~ (top < t)
      BY <1>1, <2>1, <3>1 DEF IsTop
    <3> QED BY <3>2, <1>1, LevelFacts
  <2>3. i - 1 \in Level /\ i - 1 < Bottom /\ top <= i - 1
    BY <2>1, <2>2, <1>1, LevelFacts
  <2>4. /\ s.key.level = i - 1
        /\ s.key.gen = gen[i - 1] + (IF i > k THEN k - t ELSE i - 1 - t)
        /\ s.q = IF i - 1 = t THEN q[t] ELSE IF i > k THEN 0 ELSE 1
    BY <2>1, SigFields DEF PathCertificate, Certificate
  <2>5. s.key.gen \in Nat /\ s.q \in Nat
    BY <1>2, <2>1, <2>3, <2>4, LevelFacts
  <2>6. q'[i - 1] = wq[i - 1] /\ wgen[i - 1] = gen[i - 1] + (i - 1 - top)
    BY <1>1, <1>2, <2>3, LevelFacts DEF HssInv, FinalPlace
  <2>7. s.key.gen < wgen[i - 1] \/ (s.key.gen = wgen[i - 1] /\ s.q < wq[i - 1])
    <3>1. CASE i - 1 = top
      <4>1. wq[top] = q[top] + 1
        BY <1>1, <2>3, <3>1, LevelFacts DEF HssInv, FinalPlace
      <4> QED BY <4>1, <3>1, <2>1, <2>2, <2>3, <2>4, <2>6, <1>2, LevelFacts
    <3>2. CASE i - 1 # top
      <4>1. wq[i - 1] = 2
        BY <1>1, <2>3, <3>2, LevelFacts DEF HssInv, FinalPlace
      <4> QED BY <4>1, <3>2, <2>1, <2>2, <2>3, <2>4, <2>6, <1>2, LevelFacts
    <3> QED BY <3>1, <3>2
  <2> QED BY <1>2, <2>3, <2>4, <2>5, <2>6, <2>7 DEF Behind
<1>8. ASSUME NEW s, s.key = last.key, s.q = last.q PROVE Behind(s)'
  <2>1. s.key.level = Bottom /\ s.key.gen = gen'[Bottom] /\ s.q = wq[Bottom]
    BY <1>2, <1>3, <1>8
  <2>2. Bottom \in Level /\ gen'[Bottom] \in Nat /\ wq[Bottom] \in Nat
        /\ q'[Bottom] = wq[Bottom] + 1
    BY <1>2, LevelFacts
  <2> QED BY <2>1, <2>2 DEF Behind
<1>L. ASSUME NEW s, Left(s) PROVE s.key = last.key /\ s.q = last.q
  <2>1. PICK t \in Level, m \in Messages :
          IsTop(t) /\ s = Sig(Bottom, gen[Bottom] + (Bottom - t),
                             IF t = Bottom THEN q[t] ELSE 0, m)
    BY <1>L DEF Left
  <2>2. t = top
    <3>1. q[t] \in Nat /\ q[top] \in Nat /\ Cap[t] \in Nat /\ Cap[top] \in Nat
      BY <1>1, <1>2, CapFacts
    <3>2. ~ (t < top) /\ ~ (top < t)
      BY <1>1, <2>1, <3>1 DEF IsTop
    <3> QED BY <3>2, <1>1, LevelFacts
  <2>3. wgen[Bottom] = gen[Bottom] + (Bottom - top) /\ wq[Bottom] = IF top = Bottom THEN q[top] ELSE 0
    BY <1>1, <1>2, LevelFacts DEF HssInv, FinalPlace
  <2> QED BY <2>1, <2>2, <2>3 DEF Sig
<1>9. Accounted'
  <2>1. \A s \in signed' : Behind(s)'
    BY <1>1, <1>6, <1>7, <1>8, <1>L DEF HssInv, Accounted
  <2>2. \A s \in returned' : Behind(s)'
    BY <1>1, <1>6, <1>8 DEF HssInv, Accounted
  <2> QED BY <1>1, <2>1, <2>2 DEF Accounted
<1>10. ASSUME NEW s \in returned PROVE ~ (s.key = last.key /\ s.q = last.q)
  BY <1>1, <1>2, <1>3, LevelFacts DEF Behind, HssInv, Accounted
<1>11. OneTimeLeaves'
  <2> SUFFICES ASSUME NEW s \in signed', NEW t \in signed',
                      s.key = t.key, s.q = t.q, s.body # t.body
               PROVE  s.key.level = Bottom /\ ~ {s, t} \subseteq returned'
    BY DEF OneTimeLeaves
  <2>1. CASE s = last \/ t = last
    <3>1. s.key.level = Bottom
      BY <2>1, <1>3
    <3>2. {s, t} \subseteq returned' => s \in returned \/ t \in returned
      BY <1>1
    <3> QED BY <2>1, <3>1, <3>2, <1>10
  <2>2. CASE s # last /\ t # last
    BY <2>2, <1>1 DEF HssInv, OneTimeLeaves
  <2> QED BY <2>1, <2>2
<1> QED BY <1>4, <1>5, <1>9, <1>11 DEF HssInv

\* Every step keeps the invariant.
LEMMA NextInv == HssInv /\ [Next]_vars => HssInv'
<1> SUFFICES ASSUME HssInv, [Next]_vars PROVE HssInv'
  OBVIOUS
<1>1. CASE UNCHANGED vars
  <2>1. UNCHANGED <<gen, q, wgen, wq, pc, top, lv, j, msg, signed, returned, status>>
    BY <1>1 DEF vars
  <2>2. TypeOK' /\ OneTimeLeaves'
    BY <2>1 DEF HssInv, TypeOK, OneTimeLeaves
  <2>3. RefreshPlace' /\ FinalPlace'
    BY <2>1 DEF HssInv, RefreshPlace, FinalPlace, IsTop, Rebuilds
  <2>4. Accounted'
    BY <2>1, SameKey DEF HssInv, Accounted
  <2> QED BY <2>2, <2>3, <2>4 DEF HssInv
<1> QED
  BY <1>1, InitStep, CallStep, LastFailStep, RefreshFailStep, RefreshStep, ReturnStep
  DEF Next

\* The hierarchy keeps its types: no generation wraps, no tree hands out more
\* leaves than it has.
THEOREM HssTypes == Spec => []TypeOK
<1>1. HssInv => TypeOK
  BY DEF HssInv
<1> QED BY <1>1, InitInv, NextInv, PTL DEF Spec

\* No leaf of any key of the hierarchy signs two contents, whatever fails in
\* hss_sign and however often the caller retries, but for a leaf of the bottom
\* level with which a call that failed afterwards has signed another message.
THEOREM HssOneTime == Spec => []OneTimeLeaves
<1>1. HssInv => OneTimeLeaves
  BY DEF HssInv
<1> QED BY <1>1, InitInv, NextInv, PTL DEF Spec

\* No level goes back to an earlier generation or leaf.
THEOREM HssNeverBack == Spec => NeverBack
<1> DEFINE Forward == \A l \in Level :
             gen'[l] > gen[l] \/ (gen'[l] = gen[l] /\ q'[l] >= q[l])
<1>1. ASSUME HssInv, [Next]_vars PROVE [Forward]_vars
  <2>1. gen \in [Level -> Nat] /\ q \in [Level -> Nat]
    BY <1>1, CapFacts DEF HssInv, TypeOK
  <2>2. CASE UNCHANGED <<gen, q>>
    BY <2>1, <2>2
  <2>3. CASE HssPrivateKeyInit
    <3>1. \A l \in Level : gen'[l] = gen[l] /\ q[l] = 0 /\ q'[l] \in {0, 1}
      BY <1>1, <2>3 DEF HssPrivateKeyInit, HssInv, Accounted
    <3> QED BY <3>1
  <2>4. CASE ReturnSignature
    <3>1. /\ gen' = wgen /\ wq \in [Level -> Nat]
          /\ \A l \in Level : q'[l] = IF l = Bottom THEN wq[l] + 1 ELSE wq[l]
          /\ \A l \in Level : wgen[l] > gen[l] \/ (wgen[l] = gen[l] /\ wq[l] >= q[l])
      BY <1>1, <2>4, ReturnAdvances DEF HssInv, TypeOK
    <3> QED BY <3>1, <2>1
  <2> QED
    BY <1>1, <2>2, <2>3, <2>4
    DEF Next, vars, priv, Return, HssPrivateKeyInitFail, HssSign, HssSignNoMemory,
        RefreshLevel, RefreshExhausted, RefreshLevelFail, ReturnNothing
<1> QED BY <1>1, InitInv, NextInv, PTL DEF Spec, NeverBack

\* hss_sign does not give up a key that still has leaves.
THEOREM HssExhaustedForReal == Spec => []ExhaustedForReal
<1>1. Init => ExhaustedForReal
  BY DEF Init, ExhaustedForReal
<1>2. ASSUME HssInv, ExhaustedForReal, [Next]_vars PROVE ExhaustedForReal'
  <2>1. CASE UNCHANGED <<gen, q, status>>
    BY <1>2, <2>1 DEF ExhaustedForReal, Exhausted
  <2>2. CASE status' # "exhausted"
    BY <2>2 DEF ExhaustedForReal
  <2>3. CASE RefreshExhausted /\ RootUsedUp
    BY <2>3 DEF RefreshExhausted, RootUsedUp, Return, priv, ExhaustedForReal, Exhausted,
                WithLeaf
  <2>4. CASE RefreshExhausted /\ CannotRebuild
    <3>1. /\ pc = "refresh" /\ UNCHANGED <<gen, q>>
          /\ ~ CanIncrement(wgen[j]) \/ wq[j - 1] >= Cap[j - 1]
      BY <2>4 DEF RefreshExhausted, CannotRebuild, Return, priv
    <3>2. /\ lv \in Level /\ j \in Level /\ top \in Level /\ top < lv /\ lv <= j
          /\ IsTop(top) /\ gen \in [Level -> Nat] /\ wgen \in [Level -> Nat]
          /\ q \in [Level -> Nat] /\ j - 1 \in Level
      BY <1>2, <3>1, LevelFacts, CapFacts DEF HssInv, RefreshPlace, TypeOK
    <3>3. wgen[j] = gen[j] + (lv - 1 - top)
      BY <1>2, <3>1, <3>2, LevelFacts DEF HssInv, RefreshPlace, Rebuilds
    <3>4. wq[j - 1] < Cap[j - 1]
      <4>1. CASE j - 1 = top
        BY <4>1, <1>2, <3>1, <3>2, LevelFacts DEF HssInv, RefreshPlace, IsTop
      <4>2. CASE j - 1 # top /\ j > lv
        BY <4>2, <1>2, <3>1, <3>2, CapFacts DEF HssInv, RefreshPlace
      <4>3. CASE j - 1 # top /\ j = lv
        BY <4>3, <1>2, <3>1, <3>2, LevelFacts, CapFacts DEF HssInv, RefreshPlace
      <4> QED BY <4>1, <4>2, <4>3, <3>2, LevelFacts
    <3>5. Cap[j - 1] \in Nat /\ wq[j - 1] \in Nat
      BY <1>2, <3>2, CapFacts DEF HssInv, TypeOK
    <3>6. wgen[j] + 1 >= GenMod
      BY <3>1, <3>2, <3>4, <3>5, CapFacts DEF CanIncrement
    <3>7. gen[j] + Levels > GenMod
      BY <3>2, <3>3, <3>6, LevelFacts, CapFacts
    <3> QED BY <3>1, <3>2, <3>7 DEF ExhaustedForReal
  <2> QED
    BY <1>2, <2>1, <2>2, <2>3, <2>4
    DEF Next, vars, priv, Return, HssPrivateKeyInit, HssPrivateKeyInitFail, HssSign,
        HssSignNoMemory, RefreshLevel, RefreshExhausted, RefreshLevelFail,
        ReturnSignature, ReturnNothing
<1> QED BY <1>1, <1>2, InitInv, NextInv, PTL DEF Spec
----------------------------------------------------------------------------
\* c certifies, with the key of level l, the key of the level below.
Certifies(c, g, l) == c[l].key = Key(l, g[l]) /\ c[l].body = Key(l + 1, g[l + 1])

\* The certificates form a chain; in a refresh, up to the level just rebuilt.
Chained ==
  /\ cert = [l \in Parents |-> cert[l]]
  /\ pc # "new" => \A l \in Parents : Certifies(cert, gen, l)
  /\ pc \in {"refresh", "final"} => wcert = [l \in Parents |-> wcert[l]]
  /\ pc = "refresh" =>
       \A l \in Parents : (j > lv /\ l = j - 1) \/ Certifies(wcert, wgen, l)
  /\ pc = "final" => \A l \in Parents : Certifies(wcert, wgen, l)

\* What a certificate is about.
LEMMA CertificateCertifies ==
  ASSUME NEW l, NEW g, NEW n, NEW h
  PROVE  /\ Certificate(l, g, n, h).key = Key(l, g)
         /\ Certificate(l, g, n, h).body = Key(l + 1, h)
BY DEF Certificate, Sig

\* Every step keeps the certificates chained.
LEMMA ChainedStep == HssInv /\ Chained /\ [Next]_vars => Chained'
<1> SUFFICES ASSUME HssInv, Chained, [Next]_vars PROVE Chained'
  OBVIOUS
<1>1. CASE HssPrivateKeyInit
  BY <1>1, CertificateCertifies, ParentFacts, LevelFacts
  DEF HssPrivateKeyInit, Chained, Certifies, HssInv, Accounted
<1>2. CASE HssSign
  <2>1. /\ UNCHANGED <<gen, cert>> /\ wgen' = gen /\ wcert' = cert /\ pc = "idle"
        /\ pc' # "new"
    BY <1>2 DEF HssSign, priv
  <2> QED BY <2>1 DEF Chained, Certifies
<1>3. CASE RefreshLevel
  <2>1. /\ UNCHANGED <<gen, cert>> /\ pc = "refresh" /\ pc' # "new"
        /\ wcert' = [wcert EXCEPT ![j - 1] = ChildCertificate]
        /\ wgen' = [wgen EXCEPT ![j] = Increment(wgen[j])]
    BY <1>3 DEF RefreshLevel, NextRebuild, priv
  <2>2. /\ lv \in Level /\ j \in Level /\ top < lv /\ lv <= j /\ j - 1 \in Parents
        /\ wgen \in [Level -> 0 .. GenMod - 1] /\ top \in Level /\ j <= Bottom
    BY <2>1, LevelFacts, ParentFacts DEF HssInv, RefreshPlace, TypeOK
  <2>3. wcert' = [l \in Parents |-> wcert'[l]]
    BY <2>1, <2>2 DEF Chained
  <2>4. ASSUME NEW l \in Parents, l # j
        PROVE  Certifies(wcert, wgen, l)'
    <3>1. l \in Level /\ l + 1 \in Level
      BY LevelFacts, ParentFacts
    <3>2. CASE l = j - 1
      <4>1. wcert'[l] = ChildCertificate
        BY <2>1, <2>2, <3>2 DEF Chained
      <4>2. wgen'[l] = wgen[j - 1] /\ wgen'[l + 1] = Increment(wgen[j])
        BY <2>1, <2>2, <2>4, <3>1, <3>2, LevelFacts
      <4> QED BY <3>2, <4>1, <4>2, CertificateCertifies DEF ChildCertificate, Certifies
    <3>3. CASE l # j - 1
      <4>1. l + 1 # j
        BY <3>3, <2>2, ParentFacts, LevelFacts
      <4>2. wcert'[l] = wcert[l] /\ wgen'[l] = wgen[l] /\ wgen'[l + 1] = wgen[l + 1]
        BY <2>1, <2>2, <2>4, <3>1, <3>3, <4>1 DEF Chained
      <4>3. Certifies(wcert, wgen, l)
        BY <2>1, <3>3 DEF Chained
      <4> QED BY <4>2, <4>3 DEF Certifies
    <3> QED BY <3>2, <3>3
  <2>5. /\ lv' = IF j < Bottom THEN lv ELSE lv + 1
        /\ j' = IF j < Bottom THEN j + 1 ELSE lv + 1
        /\ pc' = IF lv' > Bottom THEN "final" ELSE "refresh"
    BY <1>3 DEF RefreshLevel, NextRebuild
  <2>6. pc' = "refresh" =>
          \A l \in Parents : (j' > lv' /\ l = j' - 1) \/ Certifies(wcert, wgen, l)'
    <3>1. CASE j < Bottom
      BY <3>1, <2>2, <2>4, <2>5, LevelFacts, ParentFacts
    <3>2. CASE ~ (j < Bottom)
      BY <3>2, <2>2, <2>4, <2>5, LevelFacts, ParentFacts
    <3> QED BY <3>1, <3>2
  <2>7. pc' = "final" => \A l \in Parents : Certifies(wcert, wgen, l)'
    <3>1. pc' = "final" => j = Bottom
      BY <2>2, <2>5, LevelFacts
    <3> QED BY <3>1, <2>4, ParentFacts
  <2> QED BY <2>1, <2>3, <2>6, <2>7 DEF Chained, Certifies
<1>4. CASE ReturnSignature
  <2>1. gen' = wgen /\ cert' = wcert /\ pc = "final" /\ pc' = "idle"
    BY <1>4 DEF ReturnSignature
  <2> QED BY <2>1 DEF Chained, Certifies
<1>5. CASE UNCHANGED <<gen, cert>> /\ pc' \in {"new", "idle"} /\ (pc' = "new" \/ pc # "new")
  BY <1>5 DEF Chained, Certifies
<1>6. CASE UNCHANGED vars
  BY <1>6 DEF Chained, Certifies, vars
<1> QED
  BY <1>1, <1>2, <1>3, <1>4, <1>5, <1>6
  DEF Next, Return, priv, HssPrivateKeyInitFail, HssSignNoMemory, RefreshExhausted,
      RootUsedUp, CannotRebuild, RefreshLevelFail, ReturnNothing

\* What hss_sign returns is accepted by hss_verify under the exported key.
THEOREM HssReturnedVerifies == Spec => []ReturnedVerifies
<1>1. Init => Chained /\ ReturnedVerifies
  BY DEF Init, Chained, ReturnedVerifies
<1>2. ASSUME HssInv, Chained, ReturnedVerifies, [Next]_vars PROVE ReturnedVerifies'
  <2>1. CASE ReturnSignature
    <3>1. /\ out' = Signature /\ pc = "final" /\ gen' = wgen
          /\ \A l \in Parents : Certifies(wcert, wgen, l)
      BY <1>2, <2>1 DEF ReturnSignature, Chained
    <3>2. /\ Signature.levels = Levels /\ Signature.certs = wcert
          /\ Signature.pubs = [l \in Parents |-> Key(l + 1, wgen[l + 1])]
          /\ Signature.last.key = Key(Bottom, wgen[Bottom])
      BY DEF Signature, Sig
    <3> DEFINE Signer(i) == IF i = 0 THEN PublicKey'.root ELSE Signature.pubs[i - 1]
    <3>3. \A i \in Level : Signer(i) = Key(i, wgen[i])
      <4>1. PublicKey'.root = Key(0, wgen[0])
        BY <3>1 DEF PublicKey
      <4>2. ASSUME NEW i \in Level, i # 0 PROVE Signature.pubs[i - 1] = Key(i, wgen[i])
        <5>1. i - 1 \in Parents /\ (i - 1) + 1 = i
          BY <4>2, LevelFacts, ParentFacts
        <5> QED BY <5>1, <3>2
      <4> QED BY <4>1, <4>2
    <3>4. \A i \in 0 .. Levels - 2 :
            LmsVerify(Signer(i), Signature.pubs[i], Signature.certs[i])
      <4> SUFFICES ASSUME NEW i \in 0 .. Levels - 2
                   PROVE  LmsVerify(Signer(i), Signature.pubs[i], Signature.certs[i])
        OBVIOUS
      <4>1. i \in Parents /\ i \in Level
        BY LevelFacts, ParentFacts
      <4>2. Signature.pubs[i] = Key(i + 1, wgen[i + 1])
        BY <3>2, <4>1
      <4> QED BY <3>1, <3>2, <3>3, <4>1, <4>2 DEF LmsVerify, Certifies
    <3>5. Levels - 1 \in Level /\ Levels - 1 = Bottom
      BY LevelFacts
    <3>6. LmsVerify(Signer(Levels - 1), Signature.last.body, Signature.last)
      BY <3>2, <3>3, <3>5 DEF LmsVerify
    <3>7. Levels \in 1 .. MaxLevels /\ PublicKey'.levels = Levels
      BY LevelsAssumption DEF PublicKey
    <3> HIDE DEF Signer
    <3>8. HssVerify(PublicKey, out.last.body, out)'
      BY <3>1, <3>2, <3>4, <3>6, <3>7 DEF HssVerify, Signer
    <3> QED BY <3>8 DEF ReturnedVerifies
  <2>2. CASE UNCHANGED <<gen, out>>
    BY <1>2, <2>2 DEF ReturnedVerifies, HssVerify, PublicKey
  <2> QED
    BY <1>2, <2>1, <2>2
    DEF Next, vars, priv, Return, HssPrivateKeyInit, HssPrivateKeyInitFail, HssSign,
        HssSignNoMemory, RefreshLevel, RefreshExhausted, RefreshLevelFail, ReturnNothing
<1> QED BY <1>1, <1>2, ChainedStep, InitInv, NextInv, PTL DEF Spec

\* What the fields of the signature returned last say of the levels.
OutLevels ==
  out # NoOut =>
    /\ DOMAIN out = {"levels", "certs", "pubs", "last"}
    /\ out.levels = Levels
    /\ \A n \in Parents : out.certs[n].key.level = n /\ out.pubs[n].level = n + 1

\* A chain that ends in a certificate is refused: read with all its levels,
\* its last part has the key of level n where the key of the bottom level is
\* certified; read with n + 1 levels it has too few.
LEMMA PresentedIsRefused ==
  ASSUME OutLevels, out # NoOut, NEW n \in Parents, NEW s \in Presented(out, n)
  PROVE  ~ HssVerify(PublicKey, out.pubs[n], s)
<1>1. n \in Nat /\ n < Levels - 1 /\ Levels \in Nat /\ Levels - 2 \in Parents
  BY LevelsAssumption DEF Parents, MaxLevels
<1>2. PublicKey.levels = Levels
  BY DEF PublicKey
<1>3. CASE s = [out EXCEPT !.last = out.certs[n]]
  <2>1. s.levels = Levels /\ s.pubs = out.pubs /\ s.last = out.certs[n]
    BY <1>3 DEF OutLevels
  <2>2. out.pubs[Levels - 2].level = Levels - 1 /\ out.certs[n].key.level = n
    BY <1>1 DEF OutLevels
  <2>3. out.certs[n].key # out.pubs[Levels - 2]
    BY <1>1, <2>2
  <2>4. Levels - 1 # 0 /\ (Levels - 1) - 1 = Levels - 2
    BY <1>1
  <2> QED BY <2>1, <2>3, <2>4 DEF HssVerify, LmsVerify
<1>4. CASE s = [out EXCEPT !.last = out.certs[n], !.levels = n + 1]
  <2>1. s.levels = n + 1
    BY <1>4 DEF OutLevels
  <2> QED BY <1>1, <1>2, <2>1 DEF HssVerify
<1> QED BY <1>3, <1>4 DEF Presented

\* A certificate of a returned signature, presented as the signature of a
\* message, is refused by hss_verify: the levels of the hierarchy are not
\* interchangeable.
THEOREM HssCertificateIsNoMessage == Spec => []CertificateIsNoMessage
<1>1. Init => Chained /\ OutLevels
  BY DEF Init, Chained, OutLevels
<1>2. ASSUME Chained, OutLevels, [Next]_vars PROVE OutLevels'
  <2>1. CASE ReturnSignature
    <3>1. /\ out' = Signature /\ pc = "final"
          /\ \A l \in Parents : Certifies(wcert, wgen, l)
      BY <1>2, <2>1 DEF ReturnSignature, Chained
    <3>2. /\ Signature.levels = Levels /\ Signature.certs = wcert
          /\ Signature.pubs = [l \in Parents |-> Key(l + 1, wgen[l + 1])]
      BY DEF Signature
    <3>d. DOMAIN Signature = {"levels", "certs", "pubs", "last"}
      BY Zenon DEF Signature
    <3>3. \A n \in Parents : /\ Signature.certs[n].key.level = n
                             /\ Signature.pubs[n].level = n + 1
      <4> SUFFICES ASSUME NEW n \in Parents
                   PROVE  /\ Signature.certs[n].key.level = n
                          /\ Signature.pubs[n].level = n + 1
        OBVIOUS
      <4>1. Signature.certs[n].key = Key(n, wgen[n])
        BY <3>1, <3>2 DEF Certifies
      <4>2. Signature.pubs[n] = Key(n + 1, wgen[n + 1])
        BY <3>2
      <4>3. \A l, g : Key(l, g).level = l
        BY DEF Key
      <4> QED BY <4>1, <4>2, <4>3
    <3> QED BY <3>1, <3>2, <3>d, <3>3 DEF OutLevels
  <2>2. CASE out' = out
    BY <1>2, <2>2 DEF OutLevels
  <2> QED
    BY <1>2, <2>1, <2>2
    DEF Next, vars, priv, Return, HssPrivateKeyInit, HssPrivateKeyInitFail, HssSign,
        HssSignNoMemory, RefreshLevel, RefreshExhausted, RefreshLevelFail, ReturnNothing
<1>3. OutLevels => CertificateIsNoMessage
  BY PresentedIsRefused DEF CertificateIsNoMessage
<1> QED BY <1>1, <1>2, <1>3, ChainedStep, InitInv, NextInv, PTL DEF Spec
===============================================================================
