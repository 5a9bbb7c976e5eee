--------------------------- MODULE OtsRequestsProofs ---------------------------
(***************************************************************************)
(* Proofs about OtsRequests, for every set of messages, lengths, widths and *)
(* builds: which flag vouches for which object in the task RAM at each step *)
(* of a request, and from that the verdict of a verification and the y a    *)
(* signature is sent with.                                                  *)
(***************************************************************************)
EXTENDS OtsRequests, TLAPS

-------------------------------------------------------------------------------
(* The inductive invariant.                                                *)

\* A message that travels through the task RAM.
Long(len) == len > 74 /\ len <= VERIFY_MESSAGE_MAX

\* What the task RAM can hold: y at BRIDGE_Y_ADDR, long messages at MSG_ADDR.
AnY(o) == \E m \in Messages, w \in Widths : o = Y(m, w)
AMessage(o) ==
  \E m \in Messages, len \in Lengths :
    Long(len) /\ o = Message(m, len, MSG_ADDR)

\* Objects of these kinds, no two of which overlap.
GoodRam(r) ==
  /\ \A o \in r : AnY(o) \/ AMessage(o)
  /\ \A o, p \in r : o = p \/ o.hi < p.lo \/ p.hi < o.lo

Some == Messages \cup {None}

\* A request and the handler's local state.
Job == [op : Verifies \cup Signs, m : Messages, y : Some, len : Lengths, w : Widths,
        form : {"ok", "foreign", "ots_type", "lms_type", "key", "spent"},
        buf : Some, ybuf : Some, yram : BOOLEAN, coef : Some, used : Some,
        match : BOOLEAN, left : BOOLEAN, fault : BOOLEAN, rebuilt : BOOLEAN,
        done : BOOLEAN]

Shape ==
  /\ TypeOK
  /\ GoodRam(ram)
  /\ pc # "idle" => job \in Job /\ (job.op \in Verifies => job.y \in Messages)
  /\ pc \notin {"idle", "reply"} => job.len <= VERIFY_MESSAGE_MAX /\ ~job.done /\ ~job.rebuilt
  /\ pc \in {"verify", "sign"} => job.op = pc
  /\ pc = "path" => job.op \in {"verify", "sign", "sec_lms_sign"}

\* The request's message, while a flag may claim it is in the task RAM.
Carried ==
  IF s_msg_in_ram THEN job.len > 74 /\ Message(job.m, job.len, MSG_ADDR) \in ram
                  ELSE job.buf = job.m

\* Where the message of the request is, and later its coefficients.
MessagePlace ==
  /\ pc \in {"verify", "sign"} => Carried
  /\ pc = "coef" =>
       IF job.op \in {"verify", "sign"} THEN Carried
       ELSE job.buf = job.m /\ (s_msg_in_ram => job.left)
  /\ pc = "hash" => kept = NotReady /\ (~Misled => job.buf = job.m)
  /\ pc = "ots" /\ ~Misled => Used = job.m
  /\ pc \in {"hash", "ots", "path"} => ~s_msg_in_ram
  /\ pc = "reply" /\ s_msg_in_ram => ~job.done

\* Where the y of a verification is.  It survives in the task RAM unless a
\* call failed, and nothing else there passes for it.
YPlace ==
  /\ pc \in {"coef", "hash", "ots"} /\ job.op \in Verifies =>
       IF job.yram
         THEN /\ YFits(job.w, job.len)
              /\ \A o \in ram : o.what = "y" => o.of = job.y
              /\ ~job.fault => Y(job.y, job.w) \in ram
         ELSE job.ybuf = job.y
  /\ pc = "hash" /\ ~job.fault => ~MqcFits
  /\ pc = "path" /\ job.op = "verify" =>
       /\ job.match => job.y = job.m
       /\ job.y = job.m /\ ~job.fault => job.match

\* The registered variants are those of the request that runs.
BackendPlace ==
  /\ leaf_backend = "taskram" => pc \in {"coef", "hash", "ots", "path"} /\ job.op = "verify"
  /\ pc \in {"coef", "hash", "ots"} /\ job.op = "verify" =>
       (leaf_backend = "taskram" <=> job.yram)
  /\ pc \in {"coef", "hash", "ots"} /\ job.op = "sec_sign" => sign_backend = "mmio"

\* Where the y of a signature is.
SignedPlace ==
  /\ pc = "path" /\ job.op \in Signs /\ ~Misled =>
       job.used = job.m /\ Y(job.m, job.w) \in ram
  /\ Answered(Signs) /\ job.done /\ ~Misled =>
       /\ job.used = job.m
       /\ job.op = "sec_sign" => job.ybuf = job.m
       /\ job.op # "sec_sign" =>
            sign_y_in_taskram /\ (~job.rebuilt => Y(job.m, job.w) \in ram)

ReqInv ==
  /\ Shape /\ MessagePlace /\ YPlace /\ BackendPlace /\ SignedPlace
  /\ Verdict /\ ClaimIsRefused

-------------------------------------------------------------------------------
(* Addresses.  The leaves that compute with them name the SMT solver; the  *)
(* rest of the module knows the addresses by their names.                  *)

\* What the proofs use of the constants, apart from numerals.
LEMMA ConstantTypes ==
  /\ None \notin Messages /\ NotReady \notin Messages /\ NotReady # None
  /\ Faults \in BOOLEAN /\ VERIFY_MESSAGE_MAX \in Nat
  /\ \A len \in Lengths : len \in Nat
<1>1. \A len \in Lengths : len \in Nat
  BY OtsRequestsAssumption, SMT
<1>2. None \notin Messages /\ "not_ready" \notin Messages \cup {None}
  BY OtsRequestsAssumption, SMT
<1>3. Faults \in BOOLEAN
  BY OtsRequestsAssumption, SMT
<1>4. VERIFY_MESSAGE_MAX \in Nat
  BY SMT DEF VERIFY_MESSAGE_MAX
<1> QED BY <1>1, <1>2, <1>3, <1>4 DEF NotReady

\* The four parameters, and the words of y of each.
LEMMA YSize ==
  ASSUME NEW w \in Widths
  PROVE  /\ YWords(w) \in {272, 536, 1064, 2120}
         /\ w = 1 <=> YWords(w) = 2120
         /\ w = 2 <=> YWords(w) = 1064
  BY OtsRequestsAssumption, SMT DEF YWords, Chains

\* A message that is kept in the task RAM has 19 to 512 words.
LEMMA MessageSize ==
  ASSUME NEW len \in Nat, Long(len)
  PROVE  Words(len) \in 19..512
<1> DEFINE n == (len + 3) \div 4
<1>1. n \in Int /\ 4 * n <= len + 3 /\ len + 3 < 4 * n + 4
  BY Z3
<1>2. len > 74 /\ len <= 2048
  BY SMT DEF Long, VERIFY_MESSAGE_MAX
<1> HIDE DEF n
<1>3. n \in 19..512
  BY <1>1, <1>2, SMT
<1> QED BY <1>3, SMT DEF Words, n

\* Fields of y.
LEMMA YFields ==
  ASSUME NEW m, NEW w \in Widths
  PROVE  /\ Y(m, w).what = "y" /\ Y(m, w).of = m /\ Y(m, w).size = w
         /\ Y(m, w).lo = BRIDGE_Y_ADDR /\ Y(m, w).hi = BRIDGE_Y_ADDR + YWords(w) - 1
         /\ BRIDGE_Y_ADDR \in Nat /\ YWords(w) \in Nat
         /\ Y(m, w).hi \in Nat /\ BRIDGE_Y_ADDR <= Y(m, w).hi /\ Y(m, w).hi < TASK_WORDS
<1>1. BRIDGE_Y_ADDR + YWords(w) - 1 \in Nat /\ BRIDGE_Y_ADDR <= BRIDGE_Y_ADDR + YWords(w) - 1
      /\ BRIDGE_Y_ADDR + YWords(w) - 1 < TASK_WORDS
      /\ BRIDGE_Y_ADDR \in Nat /\ YWords(w) \in Nat
  BY YSize, SMT DEF BRIDGE_Y_ADDR, TASK_WORDS
<1> QED BY <1>1, SMT DEF Y

\* Fields of a message.
LEMMA MessageFields ==
  ASSUME NEW m, NEW len \in Nat, Long(len)
  PROVE  LET o == Message(m, len, MSG_ADDR)
         IN  /\ o.what = "message" /\ o.of = m /\ o.size = len
             /\ o.lo = MSG_ADDR /\ o.hi = MSG_ADDR + Words(len) - 1
             /\ MSG_ADDR \in Nat /\ o.hi \in Nat /\ BRIDGE_Y_ADDR <= o.lo
             /\ o.lo <= o.hi /\ o.hi < TASK_WORDS
<1>1. /\ MSG_ADDR \in Nat /\ MSG_ADDR + Words(len) - 1 \in Nat /\ BRIDGE_Y_ADDR <= MSG_ADDR
      /\ MSG_ADDR <= MSG_ADDR + Words(len) - 1 /\ MSG_ADDR + Words(len) - 1 < TASK_WORDS
  <2>1. Words(len) \in 19..512
    BY MessageSize
  <2> QED BY <2>1, SMT DEF BRIDGE_Y_ADDR, TASK_WORDS, MSG_ADDR
<1> QED BY <1>1, SMT DEF Message

\* What is known of any object in the task RAM.
LEMMA ObjectFields ==
  ASSUME NEW o, AnY(o) \/ AMessage(o)
  PROVE  /\ o.of \in Messages
         /\ o.lo \in Nat /\ o.hi \in Nat /\ o.lo <= o.hi
         /\ BRIDGE_Y_ADDR <= o.lo /\ o.hi < TASK_WORDS /\ BRIDGE_Y_ADDR \in Nat
         /\ o.what \in {"y", "message"}
         /\ o.what = "y" => o.lo = BRIDGE_Y_ADDR /\ o.size \in Widths /\ o = Y(o.of, o.size)
         /\ o.what = "message" => o.lo = MSG_ADDR /\ o = Message(o.of, o.size, MSG_ADDR)
<1>1. CASE AnY(o)
  <2>1. PICK m \in Messages, w \in Widths : o = Y(m, w)
    BY <1>1 DEF AnY
  <2> QED BY <2>1, YFields, SMT
<1>2. CASE AMessage(o)
  <2>1. PICK m \in Messages, len \in Lengths : Long(len) /\ o = Message(m, len, MSG_ADDR)
    BY <1>2 DEF AMessage
  <2>2. len \in Nat
    BY ConstantTypes
  <2>3. BRIDGE_Y_ADDR \in Nat
    BY SMT DEF BRIDGE_Y_ADDR
  <2> QED BY <2>1, <2>2, <2>3, MessageFields, SMT
<1> QED BY <1>1, <1>2

\* A y that fits ends below the message and below the window of MSG_Q_COEF.
LEMMA YBelow ==
  ASSUME NEW w \in Widths, NEW len \in Nat, YFits(w, len)
  PROVE  /\ BRIDGE_Y_ADDR + YWords(w) <= MqcBase(w, len)
         /\ len > 74 => BRIDGE_Y_ADDR + YWords(w) - 1 < MSG_ADDR
  BY YSize, SMT DEF YFits, MqcBase, mqc_msg_base, BRIDGE_Y_ADDR, MSG_ADDR, TASK_WORDS

\* The window of a message that is in the task RAM ends where it begins.
LEMMA Window ==
  ASSUME NEW w \in Widths, NEW len \in Nat
  PROVE  /\ MqcBase(w, len) \in Nat /\ Words(54) = 14
         /\ len > 74 => MqcBase(w, len) + 14 = MSG_ADDR
<1>1. MqcBase(w, len) \in Nat /\ (len > 74 => MqcBase(w, len) + 14 = MSG_ADDR)
  BY YSize, SMT DEF MqcBase, BRIDGE_Y_ADDR, MSG_ADDR
<1>2. Words(54) = 14
  BY SMT DEF Words
<1> QED BY <1>1, <1>2

-------------------------------------------------------------------------------
(* The task RAM.                                                           *)

\* A write only removes, and only what it touches.
LEMMA UntouchedIs ==
  ASSUME NEW lo, NEW n, NEW r
  PROVE  /\ Untouched(lo, n, r) \subseteq r
         /\ \A o \in r : o.hi < lo \/ o.lo > lo + n - 1 => o \in Untouched(lo, n, r)
  BY DEF Untouched

\* Fewer objects are as good.
LEMMA GoodSubset ==
  ASSUME NEW r, GoodRam(r), NEW s, s \subseteq r
  PROVE  GoodRam(s)
  BY SMT DEF GoodRam

\* A write leaves a good task RAM.
LEMMA GoodUntouched ==
  ASSUME NEW r, GoodRam(r), NEW lo, NEW n
  PROVE  GoodRam(Untouched(lo, n, r))
<1>1. Untouched(lo, n, r) \subseteq r
  BY UntouchedIs
<1> QED BY <1>1, GoodSubset

\* Storing an object makes room for it.
LEMMA GoodStored ==
  ASSUME NEW r, GoodRam(r), NEW o, o.of = None \/ AnY(o) \/ AMessage(o)
  PROVE  /\ GoodRam(Stored(o, r))
         /\ Stored(o, r) \subseteq r \cup {o}
         /\ o.of # None => o \in Stored(o, r)
         /\ \A p \in r : p.hi < o.lo \/ p.lo > o.lo + (o.hi - o.lo + 1) - 1 => p \in Stored(o, r)
<1> DEFINE u == Untouched(o.lo, o.hi - o.lo + 1, r)
<1>1. /\ u \subseteq r /\ GoodRam(u)
      /\ \A p \in r : p.hi < o.lo \/ p.lo > o.lo + (o.hi - o.lo + 1) - 1 => p \in u
  BY UntouchedIs, GoodUntouched
<1>2. \A p \in u : p.hi < o.lo \/ p.lo > o.lo + (o.hi - o.lo + 1) - 1
  BY DEF Untouched
<1>3. Stored(o, r) = u \cup (IF o.of = None THEN {} ELSE {o})
  BY DEF Stored
<1> HIDE DEF u
<1>4. CASE o.of = None
  <2>1. Stored(o, r) = u
    BY <1>3, <1>4
  <2> QED BY <1>1, <1>4, <2>1
<1>5. CASE o.of # None
  <2>1. Stored(o, r) = u \cup {o}
    BY <1>3, <1>5
  <2>2. AnY(o) \/ AMessage(o)
    BY <1>5
  <2>3. o.lo \in Nat /\ o.hi \in Nat
    BY <2>2, ObjectFields
  <2>4. \A p \in u : p.hi < o.lo \/ o.hi < p.lo
    <3> SUFFICES ASSUME NEW p \in u PROVE p.hi < o.lo \/ o.hi < p.lo
      OBVIOUS
    <3>1. p.lo \in Nat /\ p.hi \in Nat
      BY <1>1, ObjectFields DEF GoodRam
    <3>2. p.hi < o.lo \/ p.lo > o.lo + (o.hi - o.lo + 1) - 1
      BY <1>2
    <3> QED BY <2>3, <3>1, <3>2
  <2>5. GoodRam(u \cup {o})
    BY <1>1, <2>2, <2>4, SMT DEF GoodRam
  <2> QED BY <1>1, <1>5, <2>1, <2>5
<1> QED BY <1>4, <1>5

\* Two objects of one place are one object.
LEMMA SamePlace ==
  ASSUME NEW r, GoodRam(r), NEW o \in r, NEW p \in r, o.what = p.what
  PROVE  o = p
<1>1. (AnY(o) \/ AMessage(o)) /\ (AnY(p) \/ AMessage(p))
  BY DEF GoodRam
<1>2. /\ o.lo \in Nat /\ o.hi \in Nat /\ o.lo <= o.hi
      /\ p.lo \in Nat /\ p.hi \in Nat /\ p.lo <= p.hi
      /\ o.lo = p.lo
  BY <1>1, ObjectFields, SMT
<1> QED BY <1>2, SMT DEF GoodRam

\* Reading yields what the object there is of, or nothing.
LEMMA ReadIs ==
  ASSUME NEW what, NEW lo, NEW size
  PROVE  \/ /\ Read(what, lo, size) = None
            /\ ~ \E o \in ram : o.what = what /\ o.lo = lo /\ o.size = size
         \/ \E o \in ram : /\ o.what = what /\ o.lo = lo /\ o.size = size
                           /\ Read(what, lo, size) = o.of
<1> DEFINE here == {o \in ram : o.what = what /\ o.lo = lo /\ o.size = size}
<1>1. Read(what, lo, size) = IF here = {} THEN None ELSE (CHOOSE o \in here : TRUE).of
  BY DEF Read
<1>2. here # {} => (CHOOSE o \in here : TRUE) \in here
  OBVIOUS
<1>3. CASE here = {}
  <2>1. Read(what, lo, size) = None
    BY <1>1, <1>3
  <2>2. ~ \E o \in ram : o.what = what /\ o.lo = lo /\ o.size = size
    BY <1>3
  <2> QED BY <2>1, <2>2
<1>4. CASE here # {}
  BY <1>1, <1>2, <1>4
<1> QED BY <1>3, <1>4

\* The y of parameter w that is there is read.
LEMMA ReadYIs ==
  ASSUME GoodRam(ram), NEW w \in Widths
  PROVE  /\ ReadY(w) \in Some
         /\ \A m \in Messages : Y(m, w) \in ram => ReadY(w) = m
         /\ \A m : (\A o \in ram : o.what = "y" => o.of = m) => ReadY(w) \in {m, None}
<1>1. \/ /\ ReadY(w) = None
         /\ ~ \E o \in ram : o.what = "y" /\ o.lo = BRIDGE_Y_ADDR /\ o.size = w
      \/ \E o \in ram : o.what = "y" /\ ReadY(w) = o.of
  BY ReadIs DEF ReadY
<1>2. ReadY(w) \in Some
  <2>1. \A o \in ram : o.of \in Messages
    BY ObjectFields DEF GoodRam
  <2> QED BY <1>1, <2>1 DEF Some
<1>3. ASSUME NEW m \in Messages, Y(m, w) \in ram PROVE ReadY(w) = m
  <2>1. Y(m, w).what = "y" /\ Y(m, w).of = m /\ Y(m, w).size = w
        /\ Y(m, w).lo = BRIDGE_Y_ADDR
    BY YFields
  <2>2. \A o \in ram : o.what = "y" => o = Y(m, w)
    BY <1>3, <2>1, SamePlace
  <2> QED BY <1>1, <1>3, <2>1, <2>2
<1>4. ASSUME NEW m, \A o \in ram : o.what = "y" => o.of = m PROVE ReadY(w) \in {m, None}
  BY <1>1, <1>4
<1> QED BY <1>2, <1>3, <1>4

\* The message of that length that is there is read.
LEMMA ReadMessageIs ==
  ASSUME GoodRam(ram), NEW len \in Nat
  PROVE  /\ ReadMessage(len) \in Some
         /\ \A m \in Messages : Long(len) /\ Message(m, len, MSG_ADDR) \in ram =>
              ReadMessage(len) = m
<1>1. \/ /\ ReadMessage(len) = None
         /\ ~ \E o \in ram : o.what = "message" /\ o.lo = MSG_ADDR /\ o.size = len
      \/ \E o \in ram : o.what = "message" /\ ReadMessage(len) = o.of
  BY ReadIs DEF ReadMessage
<1>2. ReadMessage(len) \in Some
  <2>1. \A o \in ram : o.of \in Messages
    BY ObjectFields DEF GoodRam
  <2> QED BY <1>1, <2>1 DEF Some
<1>3. ASSUME NEW m \in Messages, Long(len), Message(m, len, MSG_ADDR) \in ram
      PROVE  ReadMessage(len) = m
  <2>1. /\ Message(m, len, MSG_ADDR).what = "message" /\ Message(m, len, MSG_ADDR).of = m
        /\ Message(m, len, MSG_ADDR).size = len /\ Message(m, len, MSG_ADDR).lo = MSG_ADDR
    BY <1>3, MessageFields
  <2>2. \A o \in ram : o.what = "message" => o = Message(m, len, MSG_ADDR)
    BY <1>3, <2>1, SamePlace
  <2> QED BY <1>1, <1>3, <2>1, <2>2
<1> QED BY <1>2, <1>3

-------------------------------------------------------------------------------
(* The request.  A step changes what the handler does with it, never what  *)
(* was asked.                                                              *)

Same(j, k) ==
  /\ k.op = j.op /\ k.m = j.m /\ k.y = j.y /\ k.len = j.len /\ k.w = j.w
  /\ k.form = j.form /\ k.left = j.left

\* Fields of a request.
LEMMA JobFields ==
  ASSUME NEW j \in Job
  PROVE  /\ j.op \in Verifies \cup Signs /\ j.m \in Messages /\ j.y \in Some
         /\ j.len \in Lengths /\ j.w \in Widths
         /\ j.buf \in Some /\ j.ybuf \in Some /\ j.coef \in Some /\ j.used \in Some
  BY DEF Job

\* The buffer is filled.
LEMMA SetBuf ==
  ASSUME NEW j \in Job, NEW x \in Some
  PROVE  LET k == [j EXCEPT !.buf = x]
         IN  /\ k \in Job /\ Same(j, k) /\ k.buf = x
             /\ k.done = j.done /\ k.rebuilt = j.rebuilt /\ k.fault = j.fault
             /\ k.ybuf = j.ybuf /\ k.yram = j.yram
  BY DEF Job, Same

\* A call has failed.
LEMMA SetFault ==
  ASSUME NEW j \in Job
  PROVE  LET k == [j EXCEPT !.fault = TRUE]
         IN  k \in Job /\ Same(j, k) /\ k.fault /\ k.done = j.done /\ k.rebuilt = j.rebuilt
  BY DEF Job, Same

\* The path decides with what the leaf said.
LEMMA SetAccepted ==
  ASSUME NEW j \in Job
  PROVE  LET k == [j EXCEPT !.done = j.match]
         IN  k \in Job /\ Same(j, k) /\ k.done = j.match /\ k.fault = j.fault
  BY DEF Job, Same

\* A request as it is received.
LEMMA InputFields ==
  ASSUME s_msg_in_ram \in BOOLEAN, NEW op \in Verifies \cup Signs, NEW j \in Inputs(op)
  PROVE  /\ j \in Job /\ j.op = op /\ j.left = s_msg_in_ram
         /\ ~j.done /\ ~j.rebuilt /\ ~j.fault
         /\ op \in Verifies => j.y \in Messages
<1>1. PICK m \in Messages, y \in IF op \in Verifies THEN Messages ELSE {None},
           len \in Lengths, w \in Widths, form \in Forms(op) :
        j = New(op, m, y, len, w, form)
  BY DEF Inputs
<1>2. form \in {"ok", "foreign", "ots_type", "lms_type", "key", "spent"}
  BY DEF Forms
<1>3. y \in Some /\ None \in Some /\ (op \in Verifies => y \in Messages)
  BY DEF Some
<1> QED BY <1>1, <1>2, <1>3 DEF New, Job

-------------------------------------------------------------------------------
(* The steps.                                                              *)

Pcs == {"idle", "verify", "sign", "coef", "hash", "ots", "path", "reply"}

\* A good task RAM and flags of their types are what TypeOK asks for.
LEMMA Types ==
  ASSUME GoodRam(ram'), platform' \in Platforms, pc' \in Pcs,
         kept' \in Messages \cup {None, NotReady},
         s_msg_in_ram' \in BOOLEAN, sign_y_in_taskram' \in BOOLEAN,
         leaf_backend' \in {"mmio", "taskram"}, sign_backend' \in {"mmio", "taskram"}
  PROVE  TypeOK'
<1>1. ASSUME NEW o \in ram' PROVE o.of \in Messages /\ o.lo >= BRIDGE_Y_ADDR /\ o.hi < TASK_WORDS
  <2>1. AnY(o) \/ AMessage(o)
    BY DEF GoodRam
  <2>2. BRIDGE_Y_ADDR \in Nat /\ o.lo \in Nat /\ BRIDGE_Y_ADDR <= o.lo
    BY <2>1, ObjectFields
  <2> QED BY <2>1, <2>2, ObjectFields
<1>2. \A o, p \in ram' : o = p \/ o.hi < p.lo \/ p.hi < o.lo
  BY DEF GoodRam
<1> QED BY <1>1, <1>2 DEF TypeOK, Pcs

\* What the steps know of the state they start from.
LEMMA Known ==
  ASSUME ReqInv
  PROVE  /\ platform \in Platforms /\ pc \in Pcs
         /\ kept \in Messages \cup {None, NotReady}
         /\ s_msg_in_ram \in BOOLEAN /\ sign_y_in_taskram \in BOOLEAN
         /\ leaf_backend \in {"mmio", "taskram"} /\ sign_backend \in {"mmio", "taskram"}
         /\ GoodRam(ram)
         /\ pc # "idle" => job \in Job /\ (job.op \in Verifies => job.y \in Messages)
         /\ pc \notin {"idle", "reply"} =>
              job.len <= VERIFY_MESSAGE_MAX /\ ~job.done /\ ~job.rebuilt
         /\ pc \notin {"coef", "hash", "ots", "path"} => leaf_backend = "mmio"
  BY DEF ReqInv, Shape, TypeOK, Pcs, BackendPlace

\* Reasons for which a request may end without what it asked for.
Refusable(j) ==
  j.form # "ok" \/ ~(j.len <= VERIFY_MESSAGE_MAX) \/ j.fault \/ j.op \notin Verifies

\* A refusal claims nothing.
LEMMA Refusal ==
  ASSUME TypeOK', GoodRam(ram'), pc' = "reply", leaf_backend' = "mmio",
         job' \in Job, job'.op \in Verifies => job'.y \in Messages,
         ~job'.done, Refusable(job')
  PROVE  ReqInv'
<1>1. Shape'
  BY DEF Shape
<1>2. MessagePlace' /\ YPlace' /\ SignedPlace'
  BY DEF MessagePlace, YPlace, SignedPlace
<1>3. BackendPlace' /\ ClaimIsRefused'
  BY DEF BackendPlace, ClaimIsRefused
<1>4. Verdict'
  BY DEF Verdict, Refusable, Answered
<1> QED BY <1>1, <1>2, <1>3, <1>4 DEF ReqInv

\* Fields of a long message, from its length being one of a request.
LEMMA StoreMessage ==
  ASSUME NEW r, GoodRam(r), NEW m \in Messages, NEW len \in Lengths,
         len > 74, len <= VERIFY_MESSAGE_MAX
  PROVE  /\ GoodRam(Stored(Message(m, len, MSG_ADDR), r))
         /\ Message(m, len, MSG_ADDR) \in Stored(Message(m, len, MSG_ADDR), r)
<1> DEFINE o == Message(m, len, MSG_ADDR)
<1>1. len \in Nat /\ Long(len) /\ None \notin Messages
  BY ConstantTypes DEF Long
<1>2. o.of = m
  BY <1>1, MessageFields
<1>3. AMessage(o)
  BY <1>1 DEF AMessage
<1> HIDE DEF o
<1>4. GoodRam(Stored(o, r)) /\ o \in Stored(o, r)
  BY <1>1, <1>2, <1>3, GoodStored
<1> QED BY <1>4 DEF o

\* The LMS requests take their message: it is bridged or buffered.
LEMMA ReceiveLmsStep == ReqInv /\ ReceiveLms => ReqInv'
<1> SUFFICES ASSUME ReqInv, ReceiveLms PROVE ReqInv'
  OBVIOUS
<1>1. PICK op \in {"verify", "sign"} : \E j \in Inputs(op) :
        /\ pc = "idle"
        /\ IF j.len > VERIFY_MESSAGE_MAX
             THEN Respond(j) /\ UNCHANGED <<ram, s_msg_in_ram>>
             ELSE \E bridged \in IF j.len <= 74 THEN {FALSE} ELSE
                              IF Faults THEN BOOLEAN ELSE {TRUE} :
                    /\ s_msg_in_ram' = bridged
                    /\ ram' = IF bridged THEN Stored(Message(j.m, j.len, MSG_ADDR), ram) ELSE ram
                    /\ job' = [j EXCEPT !.buf = IF bridged THEN None ELSE j.m]
                    /\ pc' = op
        /\ UNCHANGED <<kept, sign_y_in_taskram, backends, refused, platform>>
  BY DEF ReceiveLms
<1>2. PICK j \in Inputs(op) :
        /\ pc = "idle"
        /\ IF j.len > VERIFY_MESSAGE_MAX
             THEN Respond(j) /\ UNCHANGED <<ram, s_msg_in_ram>>
             ELSE \E bridged \in IF j.len <= 74 THEN {FALSE} ELSE
                              IF Faults THEN BOOLEAN ELSE {TRUE} :
                    /\ s_msg_in_ram' = bridged
                    /\ ram' = IF bridged THEN Stored(Message(j.m, j.len, MSG_ADDR), ram) ELSE ram
                    /\ job' = [j EXCEPT !.buf = IF bridged THEN None ELSE j.m]
                    /\ pc' = op
        /\ UNCHANGED <<kept, sign_y_in_taskram, backends, refused, platform>>
  BY <1>1
<1>3. /\ s_msg_in_ram \in BOOLEAN /\ GoodRam(ram) /\ leaf_backend = "mmio"
      /\ leaf_backend' = leaf_backend /\ sign_backend' = sign_backend
      /\ kept' = kept /\ sign_y_in_taskram' = sign_y_in_taskram /\ platform' = platform
  BY <1>2, Known DEF backends
<1>4. /\ j \in Job /\ j.op = op /\ ~j.done /\ ~j.rebuilt /\ j.len \in Lengths /\ j.m \in Messages
      /\ op \in Verifies => j.y \in Messages
  BY <1>3, InputFields, JobFields DEF Verifies, Signs
<1>5. j.len \in Nat /\ VERIFY_MESSAGE_MAX \in Nat
  BY <1>4, ConstantTypes
<1>6. CASE j.len > VERIFY_MESSAGE_MAX
  <2>1. pc' = "reply" /\ job' = j /\ ram' = ram /\ s_msg_in_ram' = s_msg_in_ram
    BY <1>2, <1>6 DEF Respond
  <2>2. TypeOK'
    BY <1>3, <2>1, Known, Types DEF Pcs
  <2>3. Refusable(j)
    BY <1>5, <1>6 DEF Refusable
  <2> QED BY <1>3, <1>4, <2>1, <2>2, <2>3, Refusal
<1>7. CASE ~(j.len > VERIFY_MESSAGE_MAX)
  <2>0. j.len <= VERIFY_MESSAGE_MAX
    BY <1>5, <1>7
  <2>1. PICK bridged \in IF j.len <= 74 THEN {FALSE} ELSE IF Faults THEN BOOLEAN ELSE {TRUE} :
          /\ s_msg_in_ram' = bridged
          /\ ram' = IF bridged THEN Stored(Message(j.m, j.len, MSG_ADDR), ram) ELSE ram
          /\ job' = [j EXCEPT !.buf = IF bridged THEN None ELSE j.m]
          /\ pc' = op
    BY <1>2, <1>7
  <2>2. bridged \in BOOLEAN /\ (bridged => j.len > 74)
    <3>1. CASE j.len <= 74
      <4>1. bridged = FALSE
        BY <2>1, <3>1
      <4> QED BY <4>1
    <3>2. CASE ~(j.len <= 74)
      <4>1. j.len > 74
        BY <1>5, <3>2, SMT
      <4>2. bridged \in BOOLEAN
        BY <2>1, <3>2
      <4> QED BY <4>1, <4>2
    <3> QED BY <3>1, <3>2
  <2>3. (IF bridged THEN None ELSE j.m) \in Some
    BY <1>4 DEF Some
  <2>4. /\ job' \in Job /\ Same(j, job') /\ ~job'.done /\ ~job'.rebuilt
        /\ ~bridged => job'.buf = j.m
    BY <1>4, <2>1, <2>3, SetBuf
  <2>5. job'.op = op /\ job'.m = j.m /\ job'.len = j.len /\ job'.y = j.y
    BY <1>4, <2>4 DEF Same
  <2>6. GoodRam(ram') /\ (bridged => Message(j.m, j.len, MSG_ADDR) \in ram')
    <3>1. CASE bridged
      BY <1>3, <1>4, <2>0, <2>1, <2>2, <3>1, StoreMessage
    <3>2. CASE ~bridged
      BY <1>3, <2>1, <3>2
    <3> QED BY <3>1, <3>2
  <2>7. pc' = op /\ s_msg_in_ram' = bridged
    BY <2>1
  <2>8. TypeOK'
    BY <1>3, <2>2, <2>6, <2>7, Known, Types DEF Pcs
  <2>9. Shape'
    BY <1>4, <2>0, <2>4, <2>5, <2>6, <2>7, <2>8 DEF Shape
  <2>10. MessagePlace'
    BY <2>2, <2>4, <2>5, <2>6, <2>7 DEF MessagePlace, Carried
  <2>11. YPlace' /\ SignedPlace' /\ Verdict' /\ ClaimIsRefused'
    BY <2>7 DEF YPlace, SignedPlace, Verdict, ClaimIsRefused, Answered
  <2>12. BackendPlace'
    BY <1>3, <2>7 DEF BackendPlace
  <2> QED BY <2>9, <2>10, <2>11, <2>12 DEF ReqInv
<1> QED BY <1>6, <1>7

\* Storing y replaces any y, and spares a long message above it.
LEMMA StoreY ==
  ASSUME NEW r, GoodRam(r), NEW m \in Some, NEW w \in Widths
  PROVE  /\ GoodRam(Stored(Y(m, w), r))
         /\ m # None => /\ Y(m, w) \in Stored(Y(m, w), r)
                        /\ \A o \in Stored(Y(m, w), r) : o.what = "y" => o.of = m
         /\ \A k \in Messages, len \in Lengths :
              Long(len) /\ YFits(w, len) /\ Message(k, len, MSG_ADDR) \in r =>
                Message(k, len, MSG_ADDR) \in Stored(Y(m, w), r)
<1> DEFINE o == Y(m, w)
<1>1. /\ o.what = "y" /\ o.of = m /\ o.lo = BRIDGE_Y_ADDR /\ o.hi = BRIDGE_Y_ADDR + YWords(w) - 1
      /\ BRIDGE_Y_ADDR \in Nat /\ YWords(w) \in Nat
  BY YFields
<1>2. o.of = None \/ AnY(o)
  BY <1>1 DEF Some, AnY
<1> HIDE DEF o
<1>3. /\ GoodRam(Stored(o, r))
      /\ o.of # None => o \in Stored(o, r)
      /\ \A p \in r : p.hi < o.lo \/ p.lo > o.lo + (o.hi - o.lo + 1) - 1 => p \in Stored(o, r)
  BY <1>2, GoodStored
<1>4. ASSUME m # None, NEW p \in Stored(o, r), p.what = "y" PROVE p.of = m
  BY <1>1, <1>3, <1>4, SamePlace
<1>5. ASSUME NEW k \in Messages, NEW len \in Lengths, Long(len), YFits(w, len),
             Message(k, len, MSG_ADDR) \in r
      PROVE  Message(k, len, MSG_ADDR) \in Stored(o, r)
  <2> DEFINE p == Message(k, len, MSG_ADDR)
  <2>1. len \in Nat /\ len > 74
    BY <1>5, ConstantTypes DEF Long
  <2>2. p.lo = MSG_ADDR /\ MSG_ADDR \in Nat
    BY <1>5, <2>1, MessageFields
  <2>3. BRIDGE_Y_ADDR + YWords(w) - 1 < MSG_ADDR
    BY <1>5, <2>1, YBelow
  <2>4. p \in r
    BY <1>5
  <2> HIDE DEF p
  <2>5. p.lo > o.lo + (o.hi - o.lo + 1) - 1
    BY <1>1, <2>2, <2>3
  <2>6. p \in Stored(o, r)
    BY <1>3, <2>4, <2>5
  <2> QED BY <2>6 DEF p
<1> QED BY <1>1, <1>3, <1>4, <1>5 DEF o

\* The y of a verification is bridged below the message, or buffered.
LEMMA ReceiveSignatureStep == ReqInv /\ ReceiveSignature => ReqInv'
<1> SUFFICES ASSUME ReqInv, ReceiveSignature PROVE ReqInv'
  OBVIOUS
<1> DEFINE bridged == YFits(job.w, job.len) /\ (platform = "shake256" \/ job.len <= 74)
           got == [job EXCEPT !.yram = bridged, !.ybuf = IF bridged THEN None ELSE job.y]
<1>1. /\ pc = "verify"
      /\ \/ /\ job.form = "ots_type"
            /\ Respond(job)
            /\ UNCHANGED ram
         \/ /\ job.form # "ots_type" /\ bridged /\ Faults
            /\ Respond([job EXCEPT !.fault = TRUE])
            /\ UNCHANGED ram
         \/ /\ job.form # "ots_type"
            /\ ram' = IF bridged THEN Stored(Y(job.y, job.w), ram) ELSE ram
            /\ IF job.form \in {"lms_type", "key"}
                 THEN Respond(got)
                 ELSE pc' = "coef" /\ job' = got
      /\ leaf_backend' = IF pc' = "coef" /\ job'.yram THEN "taskram" ELSE leaf_backend
      /\ UNCHANGED <<flags, sign_backend, refused, platform>>
  BY DEF ReceiveSignature
<1>2. /\ GoodRam(ram) /\ job \in Job /\ job.y \in Messages /\ job.op = "verify"
      /\ job.len <= VERIFY_MESSAGE_MAX /\ ~job.done /\ ~job.rebuilt /\ leaf_backend = "mmio"
      /\ Carried
  BY <1>1, Known DEF ReqInv, Shape, MessagePlace, Verifies
<1>3. /\ job.m \in Messages /\ job.len \in Lengths /\ job.w \in Widths /\ job.y \in Some
      /\ None \in Some
  BY <1>2, JobFields DEF Some
<1>4. /\ kept' = kept /\ s_msg_in_ram' = s_msg_in_ram /\ platform' = platform
      /\ sign_y_in_taskram' = sign_y_in_taskram /\ sign_backend' = sign_backend
  BY <1>1 DEF flags
<1>5. bridged \in BOOLEAN
  OBVIOUS
<1>6. /\ got \in Job /\ Same(job, got) /\ got.yram = bridged
      /\ ~bridged => got.ybuf = job.y
      /\ got.buf = job.buf /\ ~got.done /\ ~got.rebuilt
  <2> DEFINE x == IF bridged THEN None ELSE job.y
  <2>1. x \in Some
    BY <1>3
  <2>2. ~bridged => x = job.y
    OBVIOUS
  <2>3. got = [job EXCEPT !.yram = bridged, !.ybuf = x]
    OBVIOUS
  <2> HIDE DEF bridged, got, x
  <2>4. /\ got \in Job /\ Same(job, got) /\ got.yram = bridged /\ got.ybuf = x
        /\ got.buf = job.buf /\ got.done = job.done /\ got.rebuilt = job.rebuilt
    BY <1>2, <1>5, <2>1, <2>3 DEF Job, Same
  <2> QED BY <1>2, <2>2, <2>4
<1>7. got.op = "verify" /\ got.y = job.y /\ got.m = job.m /\ got.len = job.len /\ got.w = job.w
      /\ got.form = job.form /\ got.left = job.left
  BY <1>2, <1>6 DEF Same
<1>8. (bridged => YFits(job.w, job.len))
  OBVIOUS
<1> HIDE DEF bridged, got
<1>9. CASE job.form = "ots_type" /\ Respond(job) /\ UNCHANGED ram
  <2>1. pc' = "reply" /\ job' = job /\ ram' = ram /\ leaf_backend' = "mmio"
    BY <1>1, <1>2, <1>9 DEF Respond
  <2>2. TypeOK'
    BY <1>2, <1>4, <2>1, Known, Types DEF Pcs
  <2>3. Refusable(job)
    BY <1>9 DEF Refusable
  <2> QED BY <1>2, <2>1, <2>2, <2>3, Refusal
<1>10. CASE Respond([job EXCEPT !.fault = TRUE]) /\ UNCHANGED ram
  <2>1. pc' = "reply" /\ job' = [job EXCEPT !.fault = TRUE] /\ ram' = ram /\ leaf_backend' = "mmio"
    BY <1>1, <1>2, <1>10 DEF Respond
  <2>2. TypeOK'
    BY <1>2, <1>4, <2>1, Known, Types DEF Pcs
  <2>3. job' \in Job /\ Same(job, job') /\ job'.fault /\ ~job'.done
    BY <1>2, <2>1, SetFault
  <2>4. Refusable(job') /\ job'.y = job.y
    BY <2>3 DEF Refusable, Same
  <2> QED BY <1>2, <2>1, <2>2, <2>3, <2>4, Refusal
<1>11. CASE /\ ram' = IF bridged THEN Stored(Y(job.y, job.w), ram) ELSE ram
            /\ IF job.form \in {"lms_type", "key"}
                 THEN Respond(got)
                 ELSE pc' = "coef" /\ job' = got
  <2>1. job' = got
    BY <1>11 DEF Respond
  <2>2. /\ GoodRam(ram')
        /\ bridged => /\ Y(job.y, job.w) \in ram'
                      /\ \A o \in ram' : o.what = "y" => o.of = job.y
        /\ Long(job.len) /\ Message(job.m, job.len, MSG_ADDR) \in ram =>
             Message(job.m, job.len, MSG_ADDR) \in ram'
    <3>1. CASE bridged
      <4>1. ram' = Stored(Y(job.y, job.w), ram)
        BY <1>11, <3>1
      <4>2. job.y # None
        BY <1>2, ConstantTypes
      <4> QED BY <1>2, <1>3, <1>8, <3>1, <4>1, <4>2, StoreY
    <3>2. CASE ~bridged
      BY <1>2, <1>11, <3>2
    <3> QED BY <3>1, <3>2
  <2>3. CASE job.form \in {"lms_type", "key"}
    <3>1. pc' = "reply" /\ leaf_backend' = "mmio"
      BY <1>1, <1>2, <1>11, <2>3 DEF Respond
    <3>2. TypeOK'
      BY <1>4, <2>2, <3>1, Known, Types DEF Pcs
    <3>3. Refusable(got)
      BY <1>7, <2>3 DEF Refusable
    <3> QED BY <1>2, <1>6, <1>7, <2>1, <2>2, <3>1, <3>2, <3>3, Refusal
  <2>4. CASE job.form \notin {"lms_type", "key"}
    <3>1. pc' = "coef"
      BY <1>11, <2>4
    <3>2. leaf_backend' = IF bridged THEN "taskram" ELSE "mmio"
      BY <1>1, <1>2, <1>6, <2>1, <3>1
    <3>3. TypeOK'
      BY <1>4, <2>2, <3>1, <3>2, Known, Types DEF Pcs
    <3>4. Shape'
      BY <1>2, <1>6, <1>7, <2>1, <2>2, <3>1, <3>3 DEF Shape
    <3>5. Carried'
      BY <1>2, <1>4, <1>6, <1>7, <2>1, <2>2 DEF Carried, Long
    <3>6. MessagePlace'
      BY <1>7, <2>1, <3>1, <3>5 DEF MessagePlace
    <3>7. YPlace'
      BY <1>5, <1>6, <1>7, <1>8, <2>1, <2>2, <3>1 DEF YPlace
    <3>8. BackendPlace'
      BY <1>5, <1>6, <1>7, <2>1, <3>1, <3>2 DEF BackendPlace
    <3>9. SignedPlace' /\ Verdict' /\ ClaimIsRefused'
      BY <3>1 DEF SignedPlace, Verdict, ClaimIsRefused, Answered
    <3> QED BY <3>4, <3>6, <3>7, <3>8, <3>9 DEF ReqInv
  <2> QED BY <2>3, <2>4
<1> QED BY <1>1, <1>9, <1>10, <1>11

\* A bridged message is read back before the tree is built over it.
LEMMA SignKeyStep == ReqInv /\ SignKey => ReqInv'
<1> SUFFICES ASSUME ReqInv, SignKey PROVE ReqInv'
  OBVIOUS
<1>1. /\ pc = "sign" /\ kept' = kept /\ leaf_backend' = leaf_backend /\ platform' = platform
  BY DEF SignKey
<1>2. /\ GoodRam(ram) /\ job \in Job /\ job.op = "sign"
      /\ job.len <= VERIFY_MESSAGE_MAX /\ ~job.done /\ ~job.rebuilt /\ leaf_backend = "mmio"
      /\ Carried /\ s_msg_in_ram \in BOOLEAN
  BY <1>1, Known DEF ReqInv, Shape, MessagePlace
<1>3. job.m \in Messages /\ job.len \in Lengths /\ job.w \in Widths /\ job.buf \in Some
      /\ job.op \notin Verifies
  BY <1>2, JobFields DEF Verifies
<1>4. CASE job.form = "key"
  <2>1. /\ pc' = "reply" /\ job' = job /\ ram' = ram /\ s_msg_in_ram' = s_msg_in_ram
        /\ sign_y_in_taskram' = sign_y_in_taskram /\ sign_backend' = sign_backend
    BY <1>4 DEF SignKey, Respond
  <2>2. TypeOK'
    BY <1>1, <1>2, <2>1, Known, Types DEF Pcs
  <2>3. Refusable(job)
    BY <1>4 DEF Refusable
  <2> QED BY <1>1, <1>2, <1>3, <2>1, <2>2, <2>3, Refusal
<1>5. CASE job.form # "key"
  <2>1. PICK hit \in BOOLEAN :
          LET j == [job EXCEPT !.buf = IF ReadsBack(hit) THEN ReadMessage(job.len) ELSE job.buf]
          IN  /\ s_msg_in_ram' = (s_msg_in_ram /\ ~ReadsBack(hit))
              /\ ram' = IF hit THEN ram ELSE Untouched(BRIDGE_Y_ADDR, YWords(job.w), ram)
              /\ sign_y_in_taskram' = FALSE
              /\ IF job.form \in {"spent", "foreign"}
                   THEN Respond(j) /\ sign_backend' = "mmio"
                   ELSE pc' = "coef" /\ job' = j /\ sign_backend' = "taskram"
    BY <1>5 DEF SignKey
  <2> DEFINE x == IF ReadsBack(hit) THEN ReadMessage(job.len) ELSE job.buf
  <2>2. job' = [job EXCEPT !.buf = x] /\ pc' \in {"reply", "coef"}
        /\ (job.form \in {"spent", "foreign"} <=> pc' = "reply")
        /\ sign_backend' \in {"mmio", "taskram"} /\ sign_y_in_taskram' = FALSE
    BY <2>1 DEF Respond
  <2>3. GoodRam(ram')
    BY <1>2, <2>1, GoodUntouched
  <2>4. ReadMessage(job.len) \in Some
    BY <1>2, <1>3, ConstantTypes, ReadMessageIs
  <2>5. x \in Some
    BY <1>3, <2>4
  <2>6. s_msg_in_ram => ReadMessage(job.len) = job.m
    <3>1. s_msg_in_ram => Long(job.len) /\ Message(job.m, job.len, MSG_ADDR) \in ram
      BY <1>2 DEF Carried, Long
    <3>2. job.len \in Nat
      BY <1>3, ConstantTypes
    <3> QED BY <1>2, <1>3, <3>1, <3>2, ReadMessageIs
  <2>7. s_msg_in_ram' = (s_msg_in_ram /\ hit) /\ s_msg_in_ram' \in BOOLEAN
    BY <2>1 DEF ReadsBack
  <2>8. ~s_msg_in_ram' => x = job.m
    BY <1>2, <2>6, <2>7 DEF ReadsBack, Carried
  <2>9. s_msg_in_ram' => s_msg_in_ram /\ ram' = ram
    BY <2>1, <2>7
  <2> HIDE DEF x
  <2>10. /\ job' \in Job /\ Same(job, job') /\ job'.buf = x
         /\ ~job'.done /\ ~job'.rebuilt
    BY <1>2, <2>2, <2>5, SetBuf
  <2>11. job'.op = "sign" /\ job'.m = job.m /\ job'.len = job.len /\ job'.form = job.form
         /\ job'.op \notin Verifies
    BY <1>2, <1>3, <2>10 DEF Same
  <2>12. TypeOK'
    BY <1>1, <1>2, <2>2, <2>3, <2>7, Known, Types DEF Pcs
  <2>13. CASE pc' = "reply"
    <3>1. Refusable(job')
      BY <2>11 DEF Refusable
    <3> QED BY <1>1, <1>2, <2>3, <2>10, <2>11, <2>12, <2>13, <3>1, Refusal
  <2>14. CASE pc' = "coef"
    <3>1. Shape'
      BY <1>2, <2>3, <2>10, <2>11, <2>12, <2>14 DEF Shape
    <3>2. Carried'
      BY <1>2, <2>7, <2>8, <2>9, <2>10, <2>11 DEF Carried
    <3>3. MessagePlace'
      BY <2>11, <2>14, <3>2 DEF MessagePlace
    <3>4. YPlace' /\ SignedPlace' /\ Verdict' /\ ClaimIsRefused'
      BY <2>11, <2>14 DEF YPlace, SignedPlace, Verdict, ClaimIsRefused, Answered
    <3>5. BackendPlace'
      BY <1>1, <1>2, <2>11, <2>14 DEF BackendPlace
    <3> QED BY <3>1, <3>3, <3>4, <3>5 DEF ReqInv
  <2> QED BY <2>2, <2>13, <2>14
<1> QED BY <1>4, <1>5

\* The LM-OTS requests buffer their message and leave s_msg_in_ram alone.
LEMMA ReceiveLmotsStep == ReqInv /\ ReceiveLmots => ReqInv'
<1> SUFFICES ASSUME ReqInv, ReceiveLmots PROVE ReqInv'
  OBVIOUS
<1>1. PICK op \in {"lmots_sign", "lmots_verify"} : \E j \in Inputs(op) :
        /\ pc = "idle"
        /\ LET bridged == op = "lmots_verify" /\ YFits(j.w, j.len)
               got == [j EXCEPT !.buf = j.m, !.yram = bridged,
                                !.ybuf = IF bridged THEN None ELSE j.y]
           IN  IF j.len > VERIFY_MESSAGE_MAX \/ j.form \in {"ots_type", "key"}
                 THEN Respond(j) /\ UNCHANGED ram
                 ELSE \/ /\ bridged /\ Faults
                         /\ Respond([j EXCEPT !.fault = TRUE])
                         /\ UNCHANGED ram
                      \/ /\ ram' = IF bridged THEN Stored(Y(j.y, j.w), ram) ELSE ram
                         /\ IF j.form = "foreign" THEN Respond(got)
                                                  ELSE pc' = "coef" /\ job' = got
        /\ sign_y_in_taskram' = (sign_y_in_taskram /\ op # "lmots_sign")
        /\ UNCHANGED <<kept, s_msg_in_ram, backends, refused, platform>>
  BY DEF ReceiveLmots
<1>2. PICK j \in Inputs(op) :
        /\ pc = "idle"
        /\ LET bridged == op = "lmots_verify" /\ YFits(j.w, j.len)
               got == [j EXCEPT !.buf = j.m, !.yram = bridged,
                                !.ybuf = IF bridged THEN None ELSE j.y]
           IN  IF j.len > VERIFY_MESSAGE_MAX \/ j.form \in {"ots_type", "key"}
                 THEN Respond(j) /\ UNCHANGED ram
                 ELSE \/ /\ bridged /\ Faults
                         /\ Respond([j EXCEPT !.fault = TRUE])
                         /\ UNCHANGED ram
                      \/ /\ ram' = IF bridged THEN Stored(Y(j.y, j.w), ram) ELSE ram
                         /\ IF j.form = "foreign" THEN Respond(got)
                                                  ELSE pc' = "coef" /\ job' = got
        /\ sign_y_in_taskram' = (sign_y_in_taskram /\ op # "lmots_sign")
        /\ UNCHANGED <<kept, s_msg_in_ram, backends, refused, platform>>
  BY <1>1
<1> DEFINE bridged == op = "lmots_verify" /\ YFits(j.w, j.len)
           got == [j EXCEPT !.buf = j.m, !.yram = bridged,
                            !.ybuf = IF bridged THEN None ELSE j.y]
<1>3. /\ s_msg_in_ram \in BOOLEAN /\ GoodRam(ram) /\ leaf_backend' = "mmio"
      /\ s_msg_in_ram' = s_msg_in_ram /\ sign_backend' = sign_backend
      /\ kept' = kept /\ platform' = platform
  BY <1>2, Known DEF backends
<1>4. sign_y_in_taskram' \in BOOLEAN
  BY <1>2
<1>5. /\ j \in Job /\ j.op = op /\ ~j.done /\ ~j.rebuilt /\ j.left = s_msg_in_ram
      /\ op \in Verifies => j.y \in Messages
      /\ j.m \in Messages /\ j.len \in Lengths /\ j.w \in Widths /\ j.y \in Some
  BY <1>3, InputFields, JobFields DEF Verifies, Signs
<1>6. j.len \in Nat /\ VERIFY_MESSAGE_MAX \in Nat
  BY <1>5, ConstantTypes
<1>7. bridged \in BOOLEAN /\ (bridged => op = "lmots_verify" /\ YFits(j.w, j.len))
  OBVIOUS
<1>8. /\ got \in Job /\ Same(j, got) /\ got.yram = bridged
      /\ ~bridged => got.ybuf = j.y
      /\ got.buf = j.m /\ ~got.done /\ ~got.rebuilt
  <2> DEFINE x == IF bridged THEN None ELSE j.y
  <2>1. x \in Some /\ j.m \in Some
    BY <1>5 DEF Some
  <2>2. ~bridged => x = j.y
    OBVIOUS
  <2>3. got = [j EXCEPT !.buf = j.m, !.yram = bridged, !.ybuf = x]
    OBVIOUS
  <2> HIDE DEF bridged, got, x
  <2>4. /\ got \in Job /\ Same(j, got) /\ got.yram = bridged /\ got.ybuf = x
        /\ got.buf = j.m /\ got.done = j.done /\ got.rebuilt = j.rebuilt
    BY <1>5, <1>7, <2>1, <2>3 DEF Job, Same
  <2> QED BY <1>5, <2>2, <2>4
<1>9. got.op = op /\ got.y = j.y /\ got.m = j.m /\ got.len = j.len /\ got.w = j.w
      /\ got.form = j.form /\ got.left = s_msg_in_ram
  BY <1>5, <1>8 DEF Same
<1>10. CASE j.len > VERIFY_MESSAGE_MAX \/ j.form \in {"ots_type", "key"}
  <2>1. pc' = "reply" /\ job' = j /\ ram' = ram
    BY <1>2, <1>10 DEF Respond
  <2>2. TypeOK'
    BY <1>3, <1>4, <2>1, Known, Types DEF Pcs
  <2>3. Refusable(j)
    BY <1>6, <1>10 DEF Refusable
  <2> QED BY <1>3, <1>5, <2>1, <2>2, <2>3, Refusal
<1>11. CASE ~(j.len > VERIFY_MESSAGE_MAX \/ j.form \in {"ots_type", "key"})
  <2>1. \/ Respond([j EXCEPT !.fault = TRUE]) /\ ram' = ram
        \/ /\ ram' = IF bridged THEN Stored(Y(j.y, j.w), ram) ELSE ram
           /\ IF j.form = "foreign" THEN Respond(got) ELSE pc' = "coef" /\ job' = got
    BY <1>2, <1>11
  <2>2. j.len <= VERIFY_MESSAGE_MAX
    BY <1>6, <1>11
  <2> HIDE DEF bridged, got
  <2>3. CASE Respond([j EXCEPT !.fault = TRUE]) /\ ram' = ram
    <3>1. pc' = "reply" /\ job' = [j EXCEPT !.fault = TRUE] /\ ram' = ram
      BY <2>3 DEF Respond
    <3>2. TypeOK'
      BY <1>3, <1>4, <3>1, Known, Types DEF Pcs
    <3>3. job' \in Job /\ Same(j, job') /\ job'.fault /\ ~job'.done
      BY <1>5, <3>1, SetFault
    <3>4. Refusable(job') /\ job'.y = j.y /\ job'.op = op
      BY <1>5, <3>3 DEF Refusable, Same
    <3> QED BY <1>3, <1>5, <3>1, <3>2, <3>3, <3>4, Refusal
  <2>4. CASE /\ ram' = IF bridged THEN Stored(Y(j.y, j.w), ram) ELSE ram
             /\ IF j.form = "foreign" THEN Respond(got) ELSE pc' = "coef" /\ job' = got
    <3>1. job' = got
      BY <2>4 DEF Respond
    <3>2. /\ GoodRam(ram')
          /\ bridged => /\ Y(j.y, j.w) \in ram'
                        /\ \A o \in ram' : o.what = "y" => o.of = j.y
      <4>1. CASE bridged
        <5>1. ram' = Stored(Y(j.y, j.w), ram)
          BY <2>4, <4>1
        <5>2. j.y # None
          BY <1>5, <1>7, <4>1, ConstantTypes DEF Verifies
        <5> QED BY <1>3, <1>5, <4>1, <5>1, <5>2, StoreY
      <4>2. CASE ~bridged
        BY <1>3, <2>4, <4>2
      <4> QED BY <4>1, <4>2
    <3>3. CASE j.form = "foreign"
      <4>1. pc' = "reply"
        BY <2>4, <3>3 DEF Respond
      <4>2. TypeOK'
        BY <1>3, <1>4, <3>2, <4>1, Known, Types DEF Pcs
      <4>3. Refusable(got)
        BY <1>9, <3>3 DEF Refusable
      <4> QED BY <1>3, <1>5, <1>8, <1>9, <3>1, <3>2, <4>1, <4>2, <4>3, Refusal
    <3>4. CASE j.form # "foreign"
      <4>1. pc' = "coef"
        BY <2>4, <3>4
      <4>2. TypeOK'
        BY <1>3, <1>4, <3>2, <4>1, Known, Types DEF Pcs
      <4>3. Shape'
        BY <1>5, <1>8, <1>9, <2>2, <3>1, <3>2, <4>1, <4>2 DEF Shape
      <4>4. MessagePlace'
        BY <1>3, <1>8, <1>9, <3>1, <4>1 DEF MessagePlace
      <4>5. YPlace'
        BY <1>7, <1>8, <1>9, <3>1, <3>2, <4>1 DEF YPlace
      <4>6. BackendPlace'
        BY <1>3, <1>9, <3>1, <4>1 DEF BackendPlace
      <4>7. SignedPlace' /\ Verdict' /\ ClaimIsRefused'
        BY <4>1 DEF SignedPlace, Verdict, ClaimIsRefused, Answered
      <4> QED BY <4>3, <4>4, <4>5, <4>6, <4>7 DEF ReqInv
    <3> QED BY <3>3, <3>4
  <2> QED BY <2>1, <2>3, <2>4
<1> QED BY <1>10, <1>11

\* The requests of the security domain do the same.
LEMMA ReceiveSecStep == ReqInv /\ ReceiveSec => ReqInv'
<1> SUFFICES ASSUME ReqInv, ReceiveSec PROVE ReqInv'
  OBVIOUS
<1>1. PICK op \in {"sec_sign", "sec_lms_sign"} : \E j \in Inputs(op), hit \in BOOLEAN :
        /\ pc = "idle"
        /\ LET got == [j EXCEPT !.buf = j.m]
               lms == op = "sec_lms_sign"
           IN  IF j.len > VERIFY_MESSAGE_MAX \/ j.form = "key"
                 THEN Respond(j) /\ UNCHANGED <<ram, sign_backend, sign_y_in_taskram>>
                 ELSE /\ ram' = IF lms /\ ~hit
                                  THEN Untouched(BRIDGE_Y_ADDR, YWords(j.w), ram) ELSE ram
                      /\ IF j.form \in {"spent", "foreign"}
                           THEN Respond(got) /\ sign_backend' = "mmio" /\ UNCHANGED sign_y_in_taskram
                           ELSE /\ pc' = "coef" /\ job' = got
                                /\ sign_backend' = IF lms THEN "taskram" ELSE "mmio"
                                /\ sign_y_in_taskram' = (sign_y_in_taskram \/ lms)
        /\ UNCHANGED <<kept, s_msg_in_ram, leaf_backend, refused, platform>>
  BY DEF ReceiveSec
<1>2. PICK j \in Inputs(op), hit \in BOOLEAN :
        /\ pc = "idle"
        /\ LET got == [j EXCEPT !.buf = j.m]
               lms == op = "sec_lms_sign"
           IN  IF j.len > VERIFY_MESSAGE_MAX \/ j.form = "key"
                 THEN Respond(j) /\ UNCHANGED <<ram, sign_backend, sign_y_in_taskram>>
                 ELSE /\ ram' = IF lms /\ ~hit
                                  THEN Untouched(BRIDGE_Y_ADDR, YWords(j.w), ram) ELSE ram
                      /\ IF j.form \in {"spent", "foreign"}
                           THEN Respond(got) /\ sign_backend' = "mmio" /\ UNCHANGED sign_y_in_taskram
                           ELSE /\ pc' = "coef" /\ job' = got
                                /\ sign_backend' = IF lms THEN "taskram" ELSE "mmio"
                                /\ sign_y_in_taskram' = (sign_y_in_taskram \/ lms)
        /\ UNCHANGED <<kept, s_msg_in_ram, leaf_backend, refused, platform>>
  BY <1>1
<1> DEFINE got == [j EXCEPT !.buf = j.m]
<1>3. /\ s_msg_in_ram \in BOOLEAN /\ GoodRam(ram) /\ leaf_backend' = "mmio"
      /\ s_msg_in_ram' = s_msg_in_ram /\ kept' = kept /\ platform' = platform
      /\ sign_y_in_taskram \in BOOLEAN
  BY <1>2, Known
<1>4. /\ j \in Job /\ j.op = op /\ ~j.done /\ ~j.rebuilt /\ j.left = s_msg_in_ram
      /\ j.m \in Messages /\ j.len \in Lengths /\ j.w \in Widths /\ op \notin Verifies
  BY <1>3, InputFields, JobFields DEF Verifies, Signs
<1>5. j.len \in Nat /\ VERIFY_MESSAGE_MAX \in Nat
  BY <1>4, ConstantTypes
<1>6. CASE j.len > VERIFY_MESSAGE_MAX \/ j.form = "key"
  <2>1. /\ pc' = "reply" /\ job' = j /\ ram' = ram
        /\ sign_backend' = sign_backend /\ sign_y_in_taskram' = sign_y_in_taskram
    BY <1>2, <1>6 DEF Respond
  <2>2. TypeOK'
    BY <1>3, <2>1, Known, Types DEF Pcs
  <2>3. Refusable(j)
    BY <1>4 DEF Refusable
  <2> QED BY <1>3, <1>4, <2>1, <2>2, <2>3, Refusal
<1>7. CASE ~(j.len > VERIFY_MESSAGE_MAX \/ j.form = "key")
  <2>1. j.len <= VERIFY_MESSAGE_MAX
    BY <1>5, <1>7
  <2>2. /\ job' = got /\ pc' \in {"reply", "coef"}
        /\ sign_backend' \in {"mmio", "taskram"}
        /\ pc' = "coef" /\ op = "sec_sign" => sign_backend' = "mmio"
    BY <1>2, <1>7 DEF Respond
  <2>3. sign_y_in_taskram' \in BOOLEAN
    <3>1. \/ sign_y_in_taskram' = sign_y_in_taskram
          \/ sign_y_in_taskram' = (sign_y_in_taskram \/ op = "sec_lms_sign")
      BY <1>2, <1>7
    <3> QED BY <1>3, <3>1
  <2>4. GoodRam(ram')
    BY <1>2, <1>3, <1>7, GoodUntouched
  <2>5. TypeOK'
    BY <1>3, <2>2, <2>3, <2>4, Known, Types DEF Pcs
  <2>6. got \in Job /\ Same(j, got) /\ got.buf = j.m /\ ~got.done /\ ~got.rebuilt
    BY <1>4, SetBuf DEF Some
  <2>7. got.op = op /\ got.m = j.m /\ got.len = j.len /\ got.left = s_msg_in_ram
    BY <1>4, <2>6 DEF Same
  <2> HIDE DEF got
  <2>8. CASE pc' = "reply"
    <3>1. Refusable(got)
      BY <1>4, <2>7 DEF Refusable
    <3> QED BY <1>3, <1>4, <2>2, <2>4, <2>5, <2>6, <2>7, <2>8, <3>1, Refusal
  <2>9. CASE pc' = "coef"
    <3>1. Shape'
      BY <1>4, <2>1, <2>2, <2>4, <2>5, <2>6, <2>7, <2>9 DEF Shape
    <3>2. MessagePlace'
      BY <1>3, <2>2, <2>6, <2>7, <2>9 DEF MessagePlace
    <3>3. BackendPlace'
      BY <1>3, <2>2, <2>7, <2>9 DEF BackendPlace
    <3>4. YPlace' /\ SignedPlace' /\ Verdict' /\ ClaimIsRefused'
      BY <1>4, <2>2, <2>7, <2>9 DEF YPlace, SignedPlace, Verdict, ClaimIsRefused, Answered
    <3> QED BY <3>1, <3>2, <3>3, <3>4 DEF ReqInv
  <2> QED BY <2>2, <2>8, <2>9
<1> QED BY <1>6, <1>7

\* What the LM-OTS layer hashes is the request's message, from wherever it
\* takes it.
LEMMA Fetched ==
  ASSUME ReqInv, pc = "coef"
  PROVE  LET x == IF FromRam THEN ReadMessage(job.len) ELSE job.buf
         IN  x \in Some /\ (~Misled => x = job.m)
<1>1. /\ GoodRam(ram) /\ job \in Job /\ s_msg_in_ram \in BOOLEAN
      /\ job.len <= VERIFY_MESSAGE_MAX
  BY Known
<1>2. job.m \in Messages /\ job.len \in Nat /\ job.buf \in Some
  BY <1>1, JobFields, ConstantTypes
<1>3. ReadMessage(job.len) \in Some
  BY <1>1, <1>2, ReadMessageIs
<1>4. IF job.op \in {"verify", "sign"} THEN Carried
      ELSE job.buf = job.m /\ (s_msg_in_ram => job.left)
  BY DEF ReqInv, MessagePlace
<1>5. CASE job.op \in {"verify", "sign"}
  <2>1. s_msg_in_ram => Long(job.len) /\ Message(job.m, job.len, MSG_ADDR) \in ram
    BY <1>1, <1>4, <1>5 DEF Carried, Long
  <2>2. s_msg_in_ram => FromRam /\ ReadMessage(job.len) = job.m
    BY <1>1, <1>2, <2>1, ReadMessageIs DEF FromRam, Long
  <2>3. ~s_msg_in_ram => ~FromRam /\ job.buf = job.m
    BY <1>4, <1>5 DEF Carried, FromRam
  <2> QED BY <1>1, <1>2, <1>3, <2>2, <2>3
<1>6. CASE job.op \notin {"verify", "sign"}
  <2>1. FromRam => Misled
    BY <1>4, <1>6 DEF FromRam, Misled
  <2> QED BY <1>2, <1>3, <1>4, <1>6, <2>1
<1> QED BY <1>5, <1>6

\* MSG_Q_COEF brings no y and destroys none that fits below its window.
LEMMA Written ==
  ASSUME GoodRam(ram), job \in Job, job.len <= VERIFY_MESSAGE_MAX
  PROVE  /\ GoodRam(MqcWritten)
         /\ \A o \in MqcWritten : o.what = "y" => o \in ram
         /\ \A k : YFits(job.w, job.len) /\ Y(k, job.w) \in ram => Y(k, job.w) \in MqcWritten
<1> DEFINE base == MqcBase(job.w, job.len)
           head == Untouched(base, Words(54), ram)
           o == Message(job.buf, job.len, base + 14)
<1>1. job.w \in Widths /\ job.len \in Lengths /\ job.len \in Nat /\ job.buf \in Some
  BY JobFields, ConstantTypes
<1>2. /\ base \in Nat /\ Words(54) = 14
      /\ job.len > 74 => base + 14 = MSG_ADDR
  BY <1>1, Window
<1>3. MqcWritten = IF FromRam THEN head
                   ELSE IF job.len > 74 THEN Stored(o, head)
                   ELSE Untouched(base + 14, Words(job.len), head)
  BY DEF MqcWritten
<1>4. GoodRam(head) /\ head \subseteq ram
  BY UntouchedIs, GoodUntouched
<1>5. ASSUME NEW k, YFits(job.w, job.len), Y(k, job.w) \in ram
      PROVE  Y(k, job.w) \in head /\ Y(k, job.w).hi \in Nat /\ Y(k, job.w).hi < base
  <2>1. /\ Y(k, job.w).hi = BRIDGE_Y_ADDR + YWords(job.w) - 1
        /\ BRIDGE_Y_ADDR \in Nat /\ YWords(job.w) \in Nat
    BY <1>1, YFields
  <2>2. BRIDGE_Y_ADDR + YWords(job.w) <= base
    BY <1>1, <1>5, YBelow
  <2> HIDE DEF base
  <2>3. Y(k, job.w).hi \in Int /\ Y(k, job.w).hi < base
    BY <1>2, <2>1, <2>2
  <2>4. Y(k, job.w).hi \in Nat
    BY <1>1, YFields
  <2>5. Y(k, job.w) \in head
    BY <1>5, <2>3, UntouchedIs
  <2> QED BY <2>3, <2>4, <2>5
<1> HIDE DEF base, head
<1>6. CASE FromRam
  <2>1. MqcWritten = head
    BY <1>3, <1>6
  <2> QED BY <1>4, <1>5, <2>1
<1>7. CASE ~FromRam /\ job.len > 74
  <2>1. MqcWritten = Stored(o, head)
    BY <1>3, <1>7
  <2>2. o = Message(job.buf, job.len, MSG_ADDR) /\ Long(job.len)
    BY <1>2, <1>7 DEF Long
  <2>3. o.what = "message" /\ o.of = job.buf /\ o.lo = base + 14
    BY <1>1, <1>2, <1>7, <2>2, MessageFields
  <2>4. o.of = None \/ AMessage(o)
    BY <1>1, <2>2, <2>3 DEF Some, AMessage
  <2> HIDE DEF o
  <2>5. /\ GoodRam(Stored(o, head)) /\ Stored(o, head) \subseteq head \cup {o}
        /\ \A p \in head : p.hi < o.lo => p \in Stored(o, head)
    BY <1>4, <2>4, GoodStored
  <2>6. \A p \in Stored(o, head) : p.what = "y" => p \in ram
    BY <1>4, <2>3, <2>5
  <2>7. ASSUME NEW k, YFits(job.w, job.len), Y(k, job.w) \in ram
        PROVE  Y(k, job.w) \in Stored(o, head)
    <3>1. Y(k, job.w) \in head /\ Y(k, job.w).hi \in Nat /\ Y(k, job.w).hi < base
      BY <1>5, <2>7
    <3>2. Y(k, job.w).hi < o.lo
      BY <1>2, <2>3, <3>1
    <3> QED BY <2>5, <3>1, <3>2
  <2> QED BY <2>1, <2>5, <2>6, <2>7
<1>8. CASE ~FromRam /\ ~(job.len > 74)
  <2>1. MqcWritten = Untouched(base + 14, Words(job.len), head)
    BY <1>3, <1>8
  <2>2. /\ GoodRam(MqcWritten) /\ MqcWritten \subseteq ram
        /\ \A p \in head : p.hi < base + 14 => p \in MqcWritten
    BY <1>4, <2>1, UntouchedIs, GoodUntouched
  <2>3. ASSUME NEW k, YFits(job.w, job.len), Y(k, job.w) \in ram
        PROVE  Y(k, job.w) \in MqcWritten
    <3>1. Y(k, job.w) \in head /\ Y(k, job.w).hi \in Nat /\ Y(k, job.w).hi < base
      BY <1>5, <2>3
    <3>2. Y(k, job.w).hi < base + 14
      BY <1>2, <3>1
    <3> QED BY <2>2, <3>1, <3>2
  <2> QED BY <2>2, <2>3
<1> QED BY <1>6, <1>7, <1>8

\* MSG_Q_COEF keeps the coefficients of the message and releases its claim.
LEMMA CoefKeptStep == ReqInv /\ CoefKept => ReqInv'
<1> SUFFICES ASSUME ReqInv, CoefKept PROVE ReqInv'
  OBVIOUS
<1> DEFINE x == IF FromRam THEN ReadMessage(job.len) ELSE job.buf
<1>1. /\ pc = "coef" /\ kept' = x /\ ram' = MqcWritten /\ s_msg_in_ram' = FALSE
      /\ pc' = "ots" /\ job' = job /\ sign_y_in_taskram' = sign_y_in_taskram
      /\ leaf_backend' = leaf_backend /\ sign_backend' = sign_backend /\ platform' = platform
  BY DEF CoefKept, backends
<1>2. /\ GoodRam(ram) /\ job \in Job /\ job.len <= VERIFY_MESSAGE_MAX
      /\ ~job.done /\ ~job.rebuilt
  BY <1>1, Known
<1>3. x \in Some /\ (~Misled => x = job.m)
  BY <1>1, Fetched
<1> HIDE DEF x
<1>4. kept' # NotReady /\ kept' \in Messages \cup {None, NotReady}
  BY <1>1, <1>3, ConstantTypes DEF Some
<1>5. GoodRam(ram')
  BY <1>1, <1>2, Written
<1>6. TypeOK'
  BY <1>1, <1>4, <1>5, Known, Types DEF Pcs
<1>7. Shape'
  BY <1>1, <1>2, <1>5, <1>6, Known DEF Shape
<1>8. MessagePlace'
  BY <1>1, <1>3, <1>4 DEF MessagePlace, Used, Misled
<1>9. YPlace'
  <2>1. job.op \in Verifies =>
          IF job.yram
            THEN /\ YFits(job.w, job.len)
                 /\ \A o \in ram : o.what = "y" => o.of = job.y
                 /\ ~job.fault => Y(job.y, job.w) \in ram
            ELSE job.ybuf = job.y
    BY <1>1 DEF ReqInv, YPlace
  <2>2. job.op \in Verifies =>
          IF job.yram
            THEN /\ YFits(job.w, job.len)
                 /\ \A o \in ram' : o.what = "y" => o.of = job.y
                 /\ ~job.fault => Y(job.y, job.w) \in ram'
            ELSE job.ybuf = job.y
    BY <1>1, <1>2, <2>1, Written
  <2> QED BY <1>1, <2>2 DEF YPlace
<1>10. BackendPlace'
  BY <1>1 DEF ReqInv, BackendPlace
<1>11. SignedPlace' /\ Verdict' /\ ClaimIsRefused'
  BY <1>1 DEF SignedPlace, Verdict, ClaimIsRefused, Answered
<1> QED BY <1>7, <1>8, <1>9, <1>10, <1>11 DEF ReqInv

\* When it fails, the message is read back and the claim released.
LEMMA CoefFallsBackStep == ReqInv /\ CoefFallsBack => ReqInv'
<1> SUFFICES ASSUME ReqInv, CoefFallsBack PROVE ReqInv'
  OBVIOUS
<1> DEFINE x == IF FromRam THEN ReadMessage(job.len) ELSE job.buf
           b == job.fault \/ MqcFits
<1>1. /\ pc = "coef" /\ kept' = NotReady /\ s_msg_in_ram' = FALSE
      /\ job' = [job EXCEPT !.buf = x, !.fault = b]
      /\ pc' = "hash" /\ sign_y_in_taskram' = sign_y_in_taskram
      /\ leaf_backend' = leaf_backend /\ sign_backend' = sign_backend /\ platform' = platform
  BY DEF CoefFallsBack, backends
<1>2. ram' = MqcWritten \/ ram' = ram
  BY DEF CoefFallsBack
<1>3. /\ GoodRam(ram) /\ job \in Job /\ job.len <= VERIFY_MESSAGE_MAX
      /\ ~job.done /\ ~job.rebuilt /\ (job.op \in Verifies => job.y \in Messages)
  BY <1>1, Known
<1>4. x \in Some /\ (~Misled => x = job.m)
  BY <1>1, Fetched
<1>5. b \in BOOLEAN /\ (~b => ~MqcFits /\ ~job.fault)
  OBVIOUS
<1> HIDE DEF x, b
<1>6. /\ job' \in Job /\ Same(job, job') /\ job'.buf = x /\ job'.fault = b
      /\ job'.yram = job.yram /\ job'.ybuf = job.ybuf
      /\ job'.done = job.done /\ job'.rebuilt = job.rebuilt
  BY <1>1, <1>3, <1>4, <1>5 DEF Job, Same
<1>7. /\ job'.op = job.op /\ job'.m = job.m /\ job'.y = job.y /\ job'.len = job.len
      /\ job'.w = job.w /\ job'.left = job.left
  BY <1>6 DEF Same
<1>8. GoodRam(ram')
  BY <1>2, <1>3, Written
<1>9. TypeOK'
  BY <1>1, <1>8, Known, Types DEF Pcs
<1>10. Shape'
  BY <1>1, <1>3, <1>6, <1>7, <1>8, <1>9 DEF Shape
<1>11. MessagePlace'
  BY <1>1, <1>4, <1>6, <1>7 DEF MessagePlace, Misled
<1>12. YPlace'
  <2>1. job.op \in Verifies =>
          IF job.yram
            THEN /\ YFits(job.w, job.len)
                 /\ \A o \in ram : o.what = "y" => o.of = job.y
                 /\ ~job.fault => Y(job.y, job.w) \in ram
            ELSE job.ybuf = job.y
    BY <1>1 DEF ReqInv, YPlace
  <2>2. job.op \in Verifies =>
          IF job.yram
            THEN /\ YFits(job.w, job.len)
                 /\ \A o \in ram' : o.what = "y" => o.of = job.y
                 /\ ~job.fault => Y(job.y, job.w) \in ram'
            ELSE job.ybuf = job.y
    BY <1>2, <1>3, <2>1, Written
  <2>3. ~job'.fault => ~MqcFits /\ ~job.fault
    BY <1>5, <1>6
  <2>4. MqcFits' <=> MqcFits
    BY <1>7 DEF MqcFits
  <2> QED BY <1>1, <1>6, <1>7, <2>2, <2>3, <2>4 DEF YPlace
<1>13. BackendPlace'
  BY <1>1, <1>6, <1>7 DEF ReqInv, BackendPlace
<1>14. SignedPlace' /\ Verdict' /\ ClaimIsRefused'
  BY <1>1 DEF SignedPlace, Verdict, ClaimIsRefused, Answered
<1> QED BY <1>10, <1>11, <1>12, <1>13, <1>14 DEF ReqInv

\* What MSG_Q_COEF is too short for, HASH_ONCE_RAM is too.
LEMMA TooLong ==
  ASSUME NEW len \in Nat, ~(54 + len <= HASH_ONCE_RAM_MAX)
  PROVE  ~HashInRam(len)
  BY SMT DEF HashInRam, HASH_RAM_MESSAGE_MAX, HASH_ONCE_RAM_MAX

\* The hash overwrites y only after a failed call.
LEMMA MessageHashStep == ReqInv /\ MessageHash => ReqInv'
<1> SUFFICES ASSUME ReqInv, MessageHash PROVE ReqInv'
  OBVIOUS
<1>0. PICK inRam \in {HashInRam(job.len)} \cup (IF Faults THEN BOOLEAN ELSE {}) :
        /\ inRam => job.len <= HASH_RAM_MESSAGE_MAX
        /\ ram' = IF inRam THEN Untouched(BRIDGE_Y_ADDR, Words(54 + job.len), ram) ELSE ram
        /\ job' = [job EXCEPT !.coef = job.buf,
                               !.fault = job.fault \/ inRam # HashInRam(job.len)]
  BY DEF MessageHash
<1>1. /\ ram' = IF inRam THEN Untouched(BRIDGE_Y_ADDR, Words(54 + job.len), ram) ELSE ram
      /\ job' = [job EXCEPT !.coef = job.buf,
                             !.fault = job.fault \/ inRam # HashInRam(job.len)]
  BY <1>0, SMT
<1> DEFINE b == job.fault \/ inRam # HashInRam(job.len)
<1>2. /\ pc = "hash" /\ pc' = "ots"
      /\ kept' = kept /\ s_msg_in_ram' = s_msg_in_ram /\ sign_y_in_taskram' = sign_y_in_taskram
      /\ leaf_backend' = leaf_backend /\ sign_backend' = sign_backend /\ platform' = platform
  BY DEF MessageHash, flags, backends
<1>3. /\ GoodRam(ram) /\ job \in Job /\ job.len <= VERIFY_MESSAGE_MAX
      /\ ~job.done /\ ~job.rebuilt /\ (job.op \in Verifies => job.y \in Messages)
  BY <1>2, Known
<1>4. job.len \in Nat /\ job.buf \in Some
  BY <1>3, JobFields, ConstantTypes
<1>5. b \in BOOLEAN /\ (~b => ~job.fault /\ inRam = HashInRam(job.len))
  OBVIOUS
<1>6. job' = [job EXCEPT !.coef = job.buf, !.fault = b]
  BY <1>1
<1> HIDE DEF b
<1>7. /\ job' \in Job /\ Same(job, job') /\ job'.coef = job.buf /\ job'.fault = b
      /\ job'.yram = job.yram /\ job'.ybuf = job.ybuf
      /\ job'.done = job.done /\ job'.rebuilt = job.rebuilt
  BY <1>3, <1>4, <1>5, <1>6 DEF Job, Same
<1>8. /\ job'.op = job.op /\ job'.m = job.m /\ job'.y = job.y /\ job'.len = job.len
      /\ job'.w = job.w /\ job'.left = job.left
  BY <1>7 DEF Same
<1>9. GoodRam(ram') /\ ram' \subseteq ram
  BY <1>1, <1>3, UntouchedIs, GoodUntouched
<1>10. TypeOK'
  BY <1>2, <1>9, Known, Types DEF Pcs
<1>11. Shape'
  BY <1>2, <1>3, <1>7, <1>8, <1>9, <1>10 DEF Shape
<1>12. MessagePlace'
  <2>1. kept = NotReady /\ (~Misled => job.buf = job.m) /\ ~s_msg_in_ram
    BY <1>2 DEF ReqInv, MessagePlace
  <2>2. Used' = job.buf
    BY <1>2, <1>7, <2>1 DEF Used
  <2>3. Misled' <=> Misled
    BY <1>8 DEF Misled
  <2> QED BY <1>2, <1>8, <2>1, <2>2, <2>3 DEF MessagePlace
<1>13. ~job'.fault => ~job.fault /\ ram' = ram
  <2> SUFFICES ASSUME ~job'.fault PROVE ~job.fault /\ ram' = ram
    OBVIOUS
  <2>1. ~job.fault /\ inRam = HashInRam(job.len)
    BY <1>5, <1>7
  <2>2. ~MqcFits
    BY <1>2, <2>1 DEF ReqInv, YPlace
  <2>3. ~HashInRam(job.len)
    BY <1>4, <2>2, TooLong DEF MqcFits
  <2>4. ~inRam
    BY <2>1, <2>3
  <2> QED BY <1>1, <2>1, <2>4
<1>14. YPlace'
  <2>1. job.op \in Verifies =>
          IF job.yram
            THEN /\ YFits(job.w, job.len)
                 /\ \A o \in ram : o.what = "y" => o.of = job.y
                 /\ ~job.fault => Y(job.y, job.w) \in ram
            ELSE job.ybuf = job.y
    BY <1>2 DEF ReqInv, YPlace
  <2>2. job.op \in Verifies =>
          IF job.yram
            THEN /\ YFits(job.w, job.len)
                 /\ \A o \in ram' : o.what = "y" => o.of = job.y
                 /\ ~job'.fault => Y(job.y, job.w) \in ram'
            ELSE job.ybuf = job.y
    BY <1>9, <1>13, <2>1
  <2> QED BY <1>2, <1>7, <1>8, <2>2 DEF YPlace
<1>15. BackendPlace'
  BY <1>2, <1>7, <1>8 DEF ReqInv, BackendPlace
<1>16. SignedPlace' /\ Verdict' /\ ClaimIsRefused'
  BY <1>2 DEF SignedPlace, Verdict, ClaimIsRefused, Answered
<1> QED BY <1>11, <1>12, <1>14, <1>15, <1>16 DEF ReqInv

\* The coefficients in use are a message or nothing, and the request's own
\* message unless a stale claim misled the LM-OTS layer.
LEMMA UsedIs ==
  ASSUME ReqInv, pc = "ots"
  PROVE  Used \in Some /\ (~Misled => Used = job.m)
<1>1. kept \in Messages \cup {None, NotReady} /\ job \in Job
  BY Known
<1>2. job.coef \in Some
  BY <1>1, JobFields
<1>3. Used \in Some
  BY <1>1, <1>2 DEF Used, Some
<1> QED BY <1>3 DEF ReqInv, MessagePlace

\* A call that fails ends the request with a refusal.
LEMMA FailedStep ==
  ASSUME ReqInv, pc \notin {"idle", "reply"}, Respond([job EXCEPT !.fault = TRUE]),
         GoodRam(ram'), platform' = platform, kept' \in Messages \cup {None, NotReady},
         s_msg_in_ram' = s_msg_in_ram, sign_y_in_taskram' = sign_y_in_taskram,
         leaf_backend' = "mmio", sign_backend' \in {"mmio", "taskram"}
  PROVE  ReqInv'
<1>1. pc' = "reply" /\ job' = [job EXCEPT !.fault = TRUE]
  BY DEF Respond
<1>2. job \in Job /\ ~job.done /\ (job.op \in Verifies => job.y \in Messages)
  BY Known
<1>3. job' \in Job /\ Same(job, job') /\ job'.fault /\ ~job'.done
  BY <1>1, <1>2, SetFault
<1>4. Refusable(job') /\ job'.y = job.y /\ job'.op = job.op
  BY <1>3 DEF Refusable, Same
<1>5. TypeOK'
  BY <1>1, Known, Types DEF Pcs
<1> QED BY <1>1, <1>2, <1>3, <1>4, <1>5, Refusal

\* The leaf compares the y of the request with its message.
LEMMA VerifyLeafStep == ReqInv /\ VerifyLeaf => ReqInv'
<1> SUFFICES ASSUME ReqInv, VerifyLeaf PROVE ReqInv'
  OBVIOUS
<1> DEFINE taskram == leaf_backend = "taskram"
           y == IF taskram THEN ReadY(job.w) ELSE job.ybuf
           b == Used # None /\ y = Used
<1>1. /\ pc = "ots" /\ job.op = "verify"
      /\ IF job.form = "foreign"
           THEN Respond(job) /\ UNCHANGED <<ram, kept>>
           ELSE /\ kept' = NotReady
                /\ ram' = IF taskram THEN ram ELSE Stored(Y(job.ybuf, job.w), ram)
                /\ \/ /\ pc' = "path"
                      /\ job' = [job EXCEPT !.used = Used, !.match = b]
                   \/ Failed
      /\ leaf_backend' = IF pc' = "reply" THEN "mmio" ELSE leaf_backend
      /\ UNCHANGED <<s_msg_in_ram, sign_y_in_taskram, sign_backend, refused, platform>>
  BY DEF VerifyLeaf
<1>2. /\ GoodRam(ram) /\ job \in Job /\ job.y \in Messages /\ job.len <= VERIFY_MESSAGE_MAX
      /\ ~job.done /\ ~job.rebuilt
  BY <1>1, Known DEF Verifies
<1>3. /\ job.w \in Widths /\ job.m \in Messages /\ job.ybuf \in Some
      /\ None \notin Messages
  BY <1>2, JobFields, ConstantTypes
<1>4. Used \in Some /\ Used = job.m /\ ~Misled
  BY <1>1, UsedIs DEF Misled
<1>5. /\ taskram <=> job.yram
      /\ IF job.yram
           THEN /\ \A o \in ram : o.what = "y" => o.of = job.y
                /\ ~job.fault => Y(job.y, job.w) \in ram
           ELSE job.ybuf = job.y
      /\ ~s_msg_in_ram
  BY <1>1 DEF ReqInv, YPlace, BackendPlace, MessagePlace, Verifies
<1>6. y \in {job.y, None} /\ (~job.fault => y = job.y)
  <2>1. CASE job.yram
    <3>1. y = ReadY(job.w)
      BY <1>5, <2>1
    <3> QED BY <1>2, <1>3, <1>5, <2>1, <3>1, ReadYIs
  <2>2. CASE ~job.yram
    BY <1>5, <2>2
  <2> QED BY <2>1, <2>2
<1>7. b \in BOOLEAN /\ (b <=> y = job.m)
  BY <1>3, <1>4
<1>8. CASE job.form = "foreign"
  <2>1. pc' = "reply" /\ job' = job /\ ram' = ram /\ kept' = kept /\ leaf_backend' = "mmio"
    BY <1>1, <1>8 DEF Respond
  <2>2. TypeOK'
    BY <1>1, <1>2, <2>1, Known, Types DEF Pcs
  <2>3. Refusable(job)
    BY <1>8 DEF Refusable
  <2> QED BY <1>2, <2>1, <2>2, <2>3, Refusal
<1>9. CASE job.form # "foreign"
  <2>1. kept' = NotReady /\ ram' \in {ram, Stored(Y(job.ybuf, job.w), ram)}
    BY <1>1, <1>9
  <2>2. GoodRam(ram')
    BY <1>2, <1>3, <2>1, StoreY
  <2>3. Failed \/ (pc' = "path" /\ job' = [job EXCEPT !.used = Used, !.match = b])
    BY <1>1, <1>9
  <2> HIDE DEF taskram, y, b
  <2>4. CASE Failed
    <3>1. Respond([job EXCEPT !.fault = TRUE]) /\ leaf_backend' = "mmio"
      BY <1>1, <2>4 DEF Failed, Respond
    <3>2. sign_backend' \in {"mmio", "taskram"}
      BY <1>1, Known
    <3> QED BY <1>1, <2>1, <2>2, <3>1, <3>2, FailedStep
  <2>5. CASE pc' = "path" /\ job' = [job EXCEPT !.used = Used, !.match = b]
    <3>1. /\ job' \in Job /\ Same(job, job') /\ job'.match = b
          /\ job'.fault = job.fault /\ job'.done = job.done /\ job'.rebuilt = job.rebuilt
      BY <1>2, <1>4, <1>7, <2>5 DEF Job, Same
    <3>2. job'.op = "verify" /\ job'.y = job.y /\ job'.m = job.m /\ job'.len = job.len
      BY <1>1, <3>1 DEF Same
    <3>3. TypeOK'
      BY <1>1, <2>1, <2>2, <2>5, Known, Types DEF Pcs
    <3>4. Shape'
      BY <1>2, <2>2, <2>5, <3>1, <3>2, <3>3 DEF Shape
    <3>5. MessagePlace'
      BY <1>1, <1>5, <2>5 DEF MessagePlace
    <3>6. YPlace'
      <4>1. job'.match => job'.y = job'.m
        BY <1>3, <1>6, <1>7, <3>1, <3>2
      <4>2. job'.y = job'.m /\ ~job'.fault => job'.match
        BY <1>6, <1>7, <3>1, <3>2
      <4> QED BY <2>5, <4>1, <4>2 DEF YPlace
    <3>7. BackendPlace'
      BY <2>5, <3>2 DEF BackendPlace
    <3>8. SignedPlace' /\ Verdict' /\ ClaimIsRefused'
      BY <2>5, <3>2 DEF SignedPlace, Verdict, ClaimIsRefused, Answered, Signs
    <3> QED BY <3>4, <3>5, <3>6, <3>7, <3>8 DEF ReqInv
  <2> QED BY <2>3, <2>4, <2>5
<1> QED BY <1>8, <1>9

\* An answer to a verification.
LEMMA Decided ==
  ASSUME TypeOK', GoodRam(ram'), pc' = "reply", leaf_backend' = "mmio",
         job' \in Job, job'.op \in Verifies, job'.y \in Messages, ~s_msg_in_ram', Verdict'
  PROVE  ReqInv'
<1>1. Shape'
  BY DEF Shape
<1>2. MessagePlace' /\ YPlace'
  BY DEF MessagePlace, YPlace
<1>3. BackendPlace' /\ ClaimIsRefused'
  BY DEF BackendPlace, ClaimIsRefused
<1>4. SignedPlace'
  BY DEF SignedPlace, Answered, Verifies, Signs
<1> QED BY <1>1, <1>2, <1>3, <1>4 DEF ReqInv

\* The path answers with that comparison.
LEMMA VerifyPathStep == ReqInv /\ VerifyPath => ReqInv'
<1> SUFFICES ASSUME ReqInv, VerifyPath PROVE ReqInv'
  OBVIOUS
<1>1. /\ pc = "path" /\ job.op = "verify"
      /\ ram' = Untouched(BRIDGE_Y_ADDR, PATH_WORDS, ram)
      /\ Respond([job EXCEPT !.done = job.match]) \/ Failed
      /\ leaf_backend' = "mmio" /\ sign_backend' = sign_backend /\ platform' = platform
      /\ kept' = kept /\ s_msg_in_ram' = s_msg_in_ram /\ sign_y_in_taskram' = sign_y_in_taskram
  BY DEF VerifyPath, flags
<1>2. /\ GoodRam(ram) /\ job \in Job /\ job.y \in Messages
      /\ kept \in Messages \cup {None, NotReady} /\ sign_backend \in {"mmio", "taskram"}
  BY <1>1, Known DEF Verifies
<1>3. GoodRam(ram')
  BY <1>1, <1>2, GoodUntouched
<1>4. CASE Failed
  <2>1. Respond([job EXCEPT !.fault = TRUE])
    BY <1>4 DEF Failed
  <2> QED BY <1>1, <1>2, <1>3, <2>1, FailedStep
<1>5. CASE Respond([job EXCEPT !.done = job.match])
  <2>1. pc' = "reply" /\ job' = [job EXCEPT !.done = job.match]
    BY <1>5 DEF Respond
  <2>2. job' \in Job /\ Same(job, job') /\ job'.done = job.match /\ job'.fault = job.fault
    BY <1>2, <2>1, SetAccepted
  <2>3. job'.op = "verify" /\ job'.y = job.y /\ job'.m = job.m
    BY <1>1, <2>2 DEF Same
  <2>4. /\ job.match => job.y = job.m
        /\ job.y = job.m /\ ~job.fault => job.match
        /\ ~s_msg_in_ram
    BY <1>1 DEF ReqInv, YPlace, MessagePlace
  <2>5. Verdict'
    BY <2>2, <2>3, <2>4 DEF Verdict
  <2>6. TypeOK'
    BY <1>1, <1>3, <2>1, Known, Types DEF Pcs
  <2>7. ~s_msg_in_ram' /\ job'.op \in Verifies
    BY <1>1, <2>3, <2>4 DEF Verifies
  <2> QED BY <1>1, <1>2, <1>3, <2>1, <2>2, <2>3, <2>5, <2>6, <2>7, Decided
<1> QED BY <1>1, <1>4, <1>5

\* An LM-OTS verification is answered at once.
LEMMA LmotsVerifyStep == ReqInv /\ LmotsVerify => ReqInv'
<1> SUFFICES ASSUME ReqInv, LmotsVerify PROVE ReqInv'
  OBVIOUS
<1> DEFINE y == IF job.yram THEN ReadY(job.w) ELSE job.ybuf
           b == Used # None /\ y = Used
<1>1. /\ pc = "ots" /\ job.op = "lmots_verify"
      /\ Respond([job EXCEPT !.used = Used, !.done = b]) \/ Failed
      /\ ram' = IF job.yram THEN ram ELSE Stored(Y(job.ybuf, job.w), ram)
      /\ kept' = NotReady /\ s_msg_in_ram' = s_msg_in_ram /\ platform' = platform
      /\ sign_y_in_taskram' = sign_y_in_taskram
      /\ leaf_backend' = leaf_backend /\ sign_backend' = sign_backend
  BY DEF LmotsVerify, backends
<1>2. /\ GoodRam(ram) /\ job \in Job /\ job.y \in Messages
      /\ sign_backend \in {"mmio", "taskram"} /\ leaf_backend \in {"mmio", "taskram"}
  BY <1>1, Known DEF Verifies
<1>3. /\ job.w \in Widths /\ job.m \in Messages /\ job.ybuf \in Some
      /\ None \notin Messages
  BY <1>2, JobFields, ConstantTypes
<1>4. Used \in Some /\ (~Misled => Used = job.m)
  BY <1>1, UsedIs
<1>5. /\ IF job.yram
           THEN /\ \A o \in ram : o.what = "y" => o.of = job.y
                /\ ~job.fault => Y(job.y, job.w) \in ram
           ELSE job.ybuf = job.y
      /\ ~s_msg_in_ram
  BY <1>1 DEF ReqInv, YPlace, MessagePlace, Verifies
<1>6. leaf_backend = "mmio"
  BY <1>1, <1>2 DEF ReqInv, BackendPlace
<1>7. y \in {job.y, None} /\ (~job.fault => y = job.y)
  <2>1. CASE job.yram
    <3>1. y = ReadY(job.w)
      BY <2>1
    <3> QED BY <1>2, <1>3, <1>5, <2>1, <3>1, ReadYIs
  <2>2. CASE ~job.yram
    BY <1>5, <2>2
  <2> QED BY <2>1, <2>2
<1>8. b \in BOOLEAN /\ (~Misled => (b <=> y = job.m))
  BY <1>3, <1>4
<1>9. GoodRam(ram')
  BY <1>1, <1>2, <1>3, StoreY
<1> HIDE DEF y, b
<1>10. CASE Failed
  <2>1. Respond([job EXCEPT !.fault = TRUE])
    BY <1>10 DEF Failed
  <2> QED BY <1>1, <1>2, <1>6, <1>9, <2>1, FailedStep
<1>11. CASE Respond([job EXCEPT !.used = Used, !.done = b])
  <2>1. pc' = "reply" /\ job' = [job EXCEPT !.used = Used, !.done = b]
    BY <1>11 DEF Respond
  <2>2. job' \in Job /\ Same(job, job') /\ job'.done = b /\ job'.fault = job.fault
    BY <1>2, <1>4, <1>8, <2>1 DEF Job, Same
  <2>3. /\ job'.op = job.op /\ job'.y = job.y /\ job'.m = job.m /\ job'.len = job.len
        /\ job'.left = job.left
    BY <2>2 DEF Same
  <2>4. Misled' <=> Misled
    BY <2>3 DEF Misled
  <2>5. ~Misled => (b => job.y = job.m) /\ (job.y = job.m /\ ~job.fault => b)
    BY <1>3, <1>7, <1>8
  <2>6. Verdict'
    BY <2>2, <2>3, <2>4, <2>5 DEF Verdict
  <2>7. TypeOK'
    BY <1>1, <1>9, <2>1, Known, Types DEF Pcs
  <2>8. job'.op \in Verifies
    BY <1>1, <2>3 DEF Verifies
  <2> QED BY <1>1, <1>2, <1>5, <1>6, <1>9, <2>1, <2>2, <2>3, <2>6, <2>7, <2>8, Decided
<1> QED BY <1>1, <1>10, <1>11

\* A finished signature.
LEMMA Signed ==
  ASSUME TypeOK', GoodRam(ram'), pc' = "reply", leaf_backend' = "mmio",
         job' \in Job, job'.op \in Signs, ~s_msg_in_ram', SignedPlace'
  PROVE  ReqInv'
<1>1. job'.op \notin Verifies
  BY DEF Verifies, Signs
<1>2. Shape'
  BY <1>1 DEF Shape
<1>3. MessagePlace' /\ YPlace'
  BY DEF MessagePlace, YPlace
<1>4. BackendPlace' /\ ClaimIsRefused'
  BY DEF BackendPlace, ClaimIsRefused
<1>5. Verdict'
  BY <1>1 DEF Verdict, Answered
<1> QED BY <1>2, <1>3, <1>4, <1>5 DEF ReqInv

\* The chains leave y of the message in the task RAM or in the buffer.
LEMMA SignChainsStep == ReqInv /\ SignChains => ReqInv'
<1> SUFFICES ASSUME ReqInv, SignChains PROVE ReqInv'
  OBVIOUS
<1> DEFINE x == IF sign_backend = "mmio" /\ job.op # "lmots_sign" THEN Used ELSE None
           k == [job EXCEPT !.used = Used, !.ybuf = x]
           l == [k EXCEPT !.done = TRUE]
<1>1. /\ pc = "ots" /\ job.op \in Signs /\ kept' = NotReady
      /\ s_msg_in_ram' = s_msg_in_ram /\ leaf_backend' = leaf_backend /\ platform' = platform
      /\ sign_backend' = IF pc' = "reply" THEN "mmio" ELSE sign_backend
  BY DEF SignChains
<1>2. \/ /\ ram' = Stored(Y(Used, job.w), ram)
         /\ IF job.op \in {"sign", "sec_lms_sign"}
              THEN pc' = "path" /\ job' = k /\ UNCHANGED sign_y_in_taskram
              ELSE /\ Respond(l)
                   /\ sign_y_in_taskram' = (job.op = "lmots_sign")
      \/ /\ Failed
         /\ ram' = Untouched(BRIDGE_Y_ADDR, YWords(job.w), ram)
         /\ UNCHANGED sign_y_in_taskram
  BY DEF SignChains
<1>3. /\ GoodRam(ram) /\ job \in Job /\ job.len <= VERIFY_MESSAGE_MAX
      /\ ~job.done /\ ~job.rebuilt
      /\ sign_backend \in {"mmio", "taskram"} /\ leaf_backend \in {"mmio", "taskram"}
      /\ sign_y_in_taskram \in BOOLEAN
  BY <1>1, Known
<1>4. job.w \in Widths /\ job.m \in Messages /\ None \notin Messages /\ None \in Some
  BY <1>3, JobFields, ConstantTypes DEF Some
<1>5. Used \in Some /\ (~Misled => Used = job.m)
  BY <1>1, UsedIs
<1>6. leaf_backend = "mmio" /\ ~s_msg_in_ram /\ job.op \notin Verifies
  BY <1>1, <1>3 DEF ReqInv, BackendPlace, MessagePlace, Signs, Verifies
<1>7. job.op = "sec_sign" => x = Used
  BY <1>1 DEF ReqInv, BackendPlace
<1>8. x \in Some
  BY <1>4, <1>5
<1> HIDE DEF x
<1>9. /\ k \in Job /\ Same(job, k) /\ k.used = Used /\ k.ybuf = x
      /\ ~k.done /\ ~k.rebuilt
      /\ l \in Job /\ Same(job, l) /\ l.used = Used /\ l.ybuf = x
      /\ l.done /\ ~l.rebuilt
  <2>1. /\ k \in Job /\ Same(job, k) /\ k.used = Used /\ k.ybuf = x
        /\ ~k.done /\ ~k.rebuilt
    BY <1>3, <1>5, <1>8 DEF Job, Same
  <2> HIDE DEF k
  <2>2. /\ l \in Job /\ Same(k, l) /\ l.used = k.used /\ l.ybuf = k.ybuf
        /\ l.done /\ l.rebuilt = k.rebuilt
    BY <2>1 DEF Job, Same
  <2>3. Same(job, l)
    BY <2>1, <2>2 DEF Same
  <2> QED BY <2>1, <2>2, <2>3
<1> HIDE DEF k, l
<1>10. /\ k.op = job.op /\ k.m = job.m /\ k.len = job.len /\ k.w = job.w /\ k.left = job.left
       /\ l.op = job.op /\ l.m = job.m /\ l.len = job.len /\ l.w = job.w /\ l.left = job.left
  BY <1>9 DEF Same
<1>11. CASE /\ Failed
            /\ ram' = Untouched(BRIDGE_Y_ADDR, YWords(job.w), ram)
            /\ UNCHANGED sign_y_in_taskram
  <2>1. Respond([job EXCEPT !.fault = TRUE]) /\ pc' = "reply"
    BY <1>11 DEF Failed, Respond
  <2>2. GoodRam(ram')
    BY <1>3, <1>11, GoodUntouched
  <2> QED BY <1>1, <1>3, <1>6, <1>11, <2>1, <2>2, FailedStep
<1>12. CASE /\ ram' = Stored(Y(Used, job.w), ram)
            /\ IF job.op \in {"sign", "sec_lms_sign"}
                 THEN pc' = "path" /\ job' = k /\ UNCHANGED sign_y_in_taskram
                 ELSE /\ Respond(l)
                      /\ sign_y_in_taskram' = (job.op = "lmots_sign")
  <2>1. GoodRam(ram') /\ (Used # None => Y(Used, job.w) \in ram')
    BY <1>3, <1>4, <1>5, <1>12, StoreY
  <2>2. ~Misled => Used = job.m /\ Y(job.m, job.w) \in ram'
    BY <1>4, <1>5, <2>1
  <2>3. CASE job.op \in {"sign", "sec_lms_sign"}
    <3>1. pc' = "path" /\ job' = k /\ sign_y_in_taskram' = sign_y_in_taskram
      BY <1>12, <2>3
    <3>2. TypeOK'
      BY <1>1, <1>3, <1>6, <2>1, <3>1, Known, Types DEF Pcs
    <3>3. Shape'
      BY <1>3, <1>6, <1>9, <1>10, <2>1, <2>3, <3>1, <3>2 DEF Shape
    <3>4. MessagePlace'
      BY <1>1, <1>6, <3>1 DEF MessagePlace
    <3>5. YPlace' /\ BackendPlace'
      BY <1>1, <1>6, <1>10, <2>3, <3>1 DEF YPlace, BackendPlace
    <3>6. Misled' <=> Misled
      BY <1>10, <3>1 DEF Misled
    <3>7. SignedPlace'
      BY <1>9, <1>10, <2>2, <3>1, <3>6 DEF SignedPlace, Answered
    <3>8. Verdict' /\ ClaimIsRefused'
      BY <3>1 DEF Verdict, ClaimIsRefused, Answered
    <3> QED BY <3>3, <3>4, <3>5, <3>7, <3>8 DEF ReqInv
  <2>4. CASE job.op \notin {"sign", "sec_lms_sign"}
    <3>1. pc' = "reply" /\ job' = l /\ sign_y_in_taskram' = (job.op = "lmots_sign")
      BY <1>12, <2>4 DEF Respond
    <3>2. sign_y_in_taskram' \in BOOLEAN
      BY <3>1
    <3>3. job.op \in {"lmots_sign", "sec_sign"}
      BY <1>1, <2>4 DEF Signs
    <3>4. TypeOK'
      BY <1>1, <1>3, <1>6, <2>1, <3>1, <3>2, Known, Types DEF Pcs
    <3>5. Misled' <=> Misled
      BY <1>10, <3>1 DEF Misled
    <3>6. job.op # "sec_sign" => sign_y_in_taskram'
      BY <3>1, <3>3
    <3>7. SignedPlace'
      BY <1>7, <1>9, <1>10, <2>2, <3>1, <3>5, <3>6 DEF SignedPlace
    <3> QED BY <1>1, <1>6, <1>9, <1>10, <2>1, <3>1, <3>4, <3>7, Signed
  <2> QED BY <2>3, <2>4
<1> QED BY <1>2, <1>11, <1>12

\* The path leaves it there unless leaves are computed.
LEMMA SignPathStep == ReqInv /\ SignPath => ReqInv'
<1> SUFFICES ASSUME ReqInv, SignPath PROVE ReqInv'
  OBVIOUS
<1>1. /\ pc = "path" /\ job.op \in Signs /\ sign_backend' = "mmio" /\ kept' = kept
      /\ s_msg_in_ram' = s_msg_in_ram /\ leaf_backend' = leaf_backend /\ platform' = platform
  BY DEF SignPath
<1>2. PICK rebuilt \in BOOLEAN :
        /\ ram' = IF rebuilt THEN Untouched(BRIDGE_Y_ADDR, YWords(job.w), ram) ELSE ram
        /\ \/ /\ Respond([job EXCEPT !.done = TRUE, !.rebuilt = rebuilt])
              /\ sign_y_in_taskram' = TRUE
           \/ /\ rebuilt /\ Failed
              /\ UNCHANGED sign_y_in_taskram
  BY DEF SignPath
<1>3. /\ GoodRam(ram) /\ job \in Job /\ leaf_backend \in {"mmio", "taskram"}
      /\ kept \in Messages \cup {None, NotReady}
  BY <1>1, Known
<1>4. leaf_backend = "mmio" /\ ~s_msg_in_ram /\ job.op # "sec_sign"
  BY <1>1, <1>3 DEF ReqInv, Shape, BackendPlace, MessagePlace, Signs
<1>5. GoodRam(ram')
  BY <1>2, <1>3, GoodUntouched
<1>6. CASE Failed /\ UNCHANGED sign_y_in_taskram
  <2>1. Respond([job EXCEPT !.fault = TRUE]) /\ sign_y_in_taskram' = sign_y_in_taskram
    BY <1>6 DEF Failed
  <2> QED BY <1>1, <1>3, <1>4, <1>5, <2>1, FailedStep
<1>7. CASE /\ Respond([job EXCEPT !.done = TRUE, !.rebuilt = rebuilt])
           /\ sign_y_in_taskram' = TRUE
  <2>1. /\ pc' = "reply" /\ job' = [job EXCEPT !.done = TRUE, !.rebuilt = rebuilt]
        /\ sign_y_in_taskram' = TRUE
    BY <1>7 DEF Respond
  <2>2. job' \in Job /\ Same(job, job') /\ job'.rebuilt = rebuilt /\ job'.used = job.used
    BY <1>2, <1>3, <2>1 DEF Job, Same
  <2>3. /\ job'.op = job.op /\ job'.m = job.m /\ job'.w = job.w
        /\ job'.len = job.len /\ job'.left = job.left
    BY <2>2 DEF Same
  <2>4. Misled' <=> Misled
    BY <2>3 DEF Misled
  <2>5. ~Misled => job.used = job.m /\ Y(job.m, job.w) \in ram
    BY <1>1 DEF ReqInv, SignedPlace
  <2>6. ~rebuilt => ram' = ram
    BY <1>2
  <2>7. SignedPlace'
    BY <1>4, <2>1, <2>2, <2>3, <2>4, <2>5, <2>6 DEF SignedPlace
  <2>8. TypeOK'
    BY <1>1, <1>3, <1>5, <2>1, Known, Types DEF Pcs
  <2> QED BY <1>1, <1>4, <1>5, <2>1, <2>2, <2>3, <2>7, <2>8, Signed
<1> QED BY <1>2, <1>6, <1>7

\* The request ends; a claim survives it only when it was refused.
LEMMA ReplyStep == ReqInv /\ Reply => ReqInv'
<1> SUFFICES ASSUME ReqInv, Reply PROVE ReqInv'
  OBVIOUS
<1>1. /\ pc = "reply" /\ pc' = "idle" /\ refused' = ~job.done /\ ram' = ram /\ kept' = kept
      /\ s_msg_in_ram' = s_msg_in_ram /\ platform' = platform
      /\ leaf_backend' = leaf_backend /\ sign_backend' = sign_backend
  BY DEF Reply, backends
<1>2. sign_y_in_taskram' \in BOOLEAN
  BY DEF Reply
<1>3. GoodRam(ram') /\ leaf_backend' = "mmio"
  BY <1>1, Known
<1>4. TypeOK'
  BY <1>1, <1>2, <1>3, Known, Types DEF Pcs
<1>5. Shape'
  BY <1>1, <1>3, <1>4 DEF Shape
<1>6. MessagePlace' /\ YPlace' /\ SignedPlace' /\ Verdict'
  BY <1>1 DEF MessagePlace, YPlace, SignedPlace, Verdict, Answered
<1>7. BackendPlace'
  BY <1>1, <1>3 DEF BackendPlace
<1>8. ClaimIsRefused'
  BY <1>1 DEF ReqInv, MessagePlace, ClaimIsRefused
<1> QED BY <1>5, <1>6, <1>7, <1>8 DEF ReqInv

\* Every step keeps the invariant.
LEMMA ReqInvInductive == ReqInv /\ [Next]_vars => ReqInv'
<1> SUFFICES ASSUME ReqInv, [Next]_vars PROVE ReqInv'
  OBVIOUS
<1>1. CASE UNCHANGED vars
  <2>1. /\ platform' = platform /\ pc' = pc /\ job' = job /\ ram' = ram /\ kept' = kept
        /\ s_msg_in_ram' = s_msg_in_ram /\ sign_y_in_taskram' = sign_y_in_taskram
        /\ leaf_backend' = leaf_backend /\ sign_backend' = sign_backend /\ refused' = refused
    BY <1>1 DEF vars, flags, backends
  <2>2. Shape'
    BY <2>1 DEF ReqInv, Shape, TypeOK
  <2>3. MessagePlace'
    BY <2>1 DEF ReqInv, MessagePlace, Carried, Misled, Used
  <2>4. YPlace' /\ BackendPlace'
    BY <2>1 DEF ReqInv, YPlace, BackendPlace, MqcFits
  <2>5. SignedPlace' /\ Verdict' /\ ClaimIsRefused'
    BY <2>1 DEF ReqInv, SignedPlace, Verdict, ClaimIsRefused, Answered, Misled
  <2> QED BY <2>2, <2>3, <2>4, <2>5 DEF ReqInv
<1> QED BY <1>1, ReceiveLmsStep, ReceiveSignatureStep, SignKeyStep, ReceiveLmotsStep,
           ReceiveSecStep, CoefKeptStep, CoefFallsBackStep, MessageHashStep, VerifyLeafStep,
           VerifyPathStep, LmotsVerifyStep, SignChainsStep, SignPathStep, ReplyStep
        DEF Next

\* It holds initially.
LEMMA ReqInvInitial == Init => ReqInv
<1> SUFFICES ASSUME Init PROVE ReqInv
  OBVIOUS
<1>1. Shape
  BY DEF Init, Shape, TypeOK, GoodRam
<1>2. MessagePlace /\ YPlace /\ BackendPlace /\ SignedPlace
  BY DEF Init, MessagePlace, YPlace, BackendPlace, SignedPlace, Answered
<1>3. Verdict /\ ClaimIsRefused
  BY DEF Init, Verdict, ClaimIsRefused, Answered
<1> QED BY <1>1, <1>2, <1>3 DEF ReqInv

\* It holds always.
LEMMA ReqInvHolds == Spec => []ReqInv
  BY ReqInvInitial, ReqInvInductive, PTL DEF Spec

-------------------------------------------------------------------------------
(* What follows, for every set of messages, lengths and parameters, with   *)
(* and without failing calls.                                              *)

\* Type correctness: every object in the task RAM lies inside it and no two
\* overlap, whatever the requests' lengths and parameters.
THEOREM RequestTypes == Spec => []TypeOK
<1>1. ReqInv => TypeOK
  BY DEF ReqInv, Shape
<1> QED BY <1>1, ReqInvHolds, PTL

\* A verification that no stale s_msg_in_ram misled accepts only the message
\* that was signed, and refuses a genuine signature only after a failed call.
THEOREM VerdictIsRight == Spec => []Verdict
<1>1. ReqInv => Verdict
  BY DEF ReqInv
<1> QED BY <1>1, ReqInvHolds, PTL

\* A signature that no stale s_msg_in_ram misled is over the request's message
\* and is sent with the y that belongs to it, from the buffer or from the task
\* RAM, unless leaves were computed over it.
THEOREM SignatureIsOwn == Spec => []OwnSignature
<1>1. ASSUME ReqInv PROVE OwnSignature
  <2> SUFFICES ASSUME Answered(Signs), job.done, ~Misled
               PROVE  job.used = job.m /\ (~job.rebuilt => SentY = job.m)
    BY DEF OwnSignature
  <2>1. pc = "reply" /\ job.op \in Signs
    BY DEF Answered
  <2>2. GoodRam(ram) /\ job \in Job
    BY <1>1, <2>1, Known
  <2>3. job.w \in Widths /\ job.m \in Messages
    BY <2>2, JobFields
  <2>4. /\ job.used = job.m
        /\ job.op = "sec_sign" => job.ybuf = job.m
        /\ job.op # "sec_sign" =>
             sign_y_in_taskram /\ (~job.rebuilt => Y(job.m, job.w) \in ram)
    BY <1>1 DEF ReqInv, SignedPlace
  <2>5. CASE job.op = "sec_sign"
    BY <2>4, <2>5 DEF SentY, Bridges
  <2>6. CASE job.op # "sec_sign"
    <3>1. SentY = ReadY(job.w)
      BY <2>1, <2>4, <2>6 DEF SentY, Bridges, Signs
    <3>2. ~job.rebuilt => ReadY(job.w) = job.m
      BY <2>2, <2>3, <2>4, <2>6, ReadYIs
    <3> QED BY <2>4, <3>1, <3>2
  <2> QED BY <2>5, <2>6
<1> QED BY <1>1, ReqInvHolds, PTL

\* s_msg_in_ram stays set between requests only after one that was refused.
THEOREM ClaimOutlivesRefusalsOnly == Spec => []ClaimIsRefused
<1>1. ReqInv => ClaimIsRefused
  BY DEF ReqInv
<1> QED BY <1>1, ReqInvHolds, PTL
===============================================================================
