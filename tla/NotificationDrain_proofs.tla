----------------------- MODULE NotificationDrain_proofs -----------------------
(***************************************************************************)
(* Proofs about NotificationDrain, for any number of deliveries, drains,   *)
(* channels and policies: overlapping drains send no delivery twice, a     *)
(* message is escalated fewer times than there are channels, what failed   *)
(* is escalated once and a scheduled broadcast fans out once.              *)
(*                                                                         *)
(* All rest on who may write a row: a row that a transaction wrote is      *)
(* written by no other, and is still what was committed when it was locked *)
(* (Exclusive, Held).  The last two rest as well on what a row that is not *)
(* committed yet follows from (OriginInv).                                 *)
(***************************************************************************)
EXTENDS NotificationDrain, FiniteSetTheorems, TLAPS

-----------------------------------------------------------------------------
(***************************************************************************)
(* The inductive invariant.                                                *)
(***************************************************************************)
\* A row has its type, few enough hops, and tries left while it may be tried.
Good(r) ==
    /\ r \in Row
    /\ r.depth < Cardinality(Channel)
    /\ r.status \in {"pending", "backoff"} => r.tries < MaxRetries

Rows == UNION {[S -> Row] : S \in SUBSET Delivery}

Transaction ==
    [pc : {"idle", "draining", "dispatching"}, rows : Rows, todo : SUBSET Delivery,
     sent : SUBSET Delivery, job : Broadcast \cup {"none"}]

TypeInv ==
    /\ delivery \in [Delivery -> Row]
    /\ broadcast \in [Broadcast -> {"scheduled", "sent"}]
    /\ chain \in Policy
    /\ worker \in [Worker -> Transaction]
    /\ accepted \in [Delivery -> Nat]
    /\ lost \in [Delivery -> Nat]
    /\ crashes \in 0..MaxCrash

GoodRows ==
    /\ \A d \in Delivery : Good(delivery[d])
    /\ \A w \in Worker : \A d \in Written(w) : Good(worker[w].rows[d])

\* What an open transaction holds.
Held ==
    \A w \in Worker :
        /\ worker[w].todo \subseteq Written(w) /\ worker[w].sent \subseteq Written(w)
        /\ worker[w].todo \cap worker[w].sent = {}
        /\ worker[w].pc # "draining" => worker[w].todo = {} /\ worker[w].sent = {}
        /\ \A d \in Written(w) :
             /\ delivery[d].status \in {"absent", "pending"}
             /\ d \in worker[w].todo => worker[w].rows[d].status = "pending"
             /\ (worker[w].rows[d].status = "sent") <=> (d \in worker[w].sent)

Exclusive ==
    \A v, w \in Worker : v # w => Written(v) \cap Written(w) = {}

\* What Held and GoodRows say of one transaction.
Fits(tx) ==
    /\ tx.todo \subseteq DOMAIN tx.rows /\ tx.sent \subseteq DOMAIN tx.rows
    /\ tx.todo \cap tx.sent = {}
    /\ tx.pc # "draining" => tx.todo = {} /\ tx.sent = {}
    /\ \A d \in DOMAIN tx.rows :
         /\ Good(tx.rows[d])
         /\ delivery[d].status \in {"absent", "pending"}
         /\ d \in tx.todo => tx.rows[d].status = "pending"
         /\ (tx.rows[d].status = "sent") <=> (d \in tx.sent)

DrainInv == TypeInv /\ GoodRows /\ Held /\ Exclusive

-----------------------------------------------------------------------------
\* The channels of a policy are different, so a chain is no longer than there
\* are channels.
LEMMA ChainLength ==
  ASSUME NEW s \in Policy
  PROVE  Len(s) \in Nat /\ Cardinality(Channel) \in Nat /\ Len(s) <= Cardinality(Channel)
<1>1. s \in Seq(Channel) /\ (\A a, b \in DOMAIN s : s[a] = s[b] => a = b) /\ IsFiniteSet(Channel)
  BY DrainAssumption DEF IsInjective
<1>2. Len(s) \in Nat /\ s \in [1..Len(s) -> Channel] /\ Cardinality(Channel) \in Nat
  BY <1>1, FS_CardinalityType
<1>3. IsFiniteSet(1..Len(s)) /\ Cardinality(1..Len(s)) = Len(s)
  <2>1. 1 \in Int /\ Len(s) \in Int
    BY <1>2
  <2>2. /\ IsFiniteSet(1..Len(s))
        /\ Cardinality(1..Len(s)) = (IF 1 > Len(s) THEN 0 ELSE Len(s) - 1 + 1)
    BY <2>1, FS_Interval, Zenon
  <2> QED
    BY <1>2, <2>2
<1>4. CASE Cardinality(Channel) < Len(s)
  <2>1. \E x, y \in 1..Len(s) : x # y /\ s[x] = s[y]
    BY <1>1, <1>2, <1>3, <1>4, FS_PigeonHole
  <2> QED
    BY <1>1, <1>2, <2>1
<1> QED
  BY <1>2, <1>4

LEMMA SomeChannel == Cardinality(Channel) \in Nat /\ 0 < Cardinality(Channel)
<1>1. IsFiniteSet(Channel) /\ Channel # {}
  BY DrainAssumption
<1>2. Cardinality(Channel) \in Nat /\ Cardinality(Channel) # 0
  BY <1>1, FS_CardinalityType, FS_EmptySet
<1> QED
  BY <1>2

LEMMA NewIsGood ==
  ASSUME NEW c \in Channel, NEW from \in Delivery \cup {0}, NEW depth \in Nat,
         NEW of \in Broadcast \cup {"none"}, depth < Cardinality(Channel)
  PROVE  /\ Good(NewRow(c, from, depth, of)) /\ NewRow(c, from, depth, of).status = "pending"
<1>1. NewRow(c, from, depth, of) \in Row
  BY DrainAssumption DEF NewRow, Row
<1> QED
  BY <1>1, DrainAssumption DEF NewRow, Good

LEMMA NoRowIsGood == Good(NoRow)
<1>1. NoRow \in Row
  BY DrainAssumption DEF NoRow, Row
<1> QED
  BY <1>1, SomeChannel DEF NoRow, Good

\* A row that was marked.
WithMark(r, st, tries) == [r EXCEPT !.status = st, !.tries = tries]

LEMMA MarkedIsGood ==
  ASSUME NEW r, Good(r), NEW st \in {"backoff", "sent", "failed", "pending", "void"},
         NEW tries \in 0..MaxRetries,
         st \in {"backoff", "pending"} => tries < MaxRetries
  PROVE  Good(WithMark(r, st, tries)) /\ WithMark(r, st, tries).status = st
<1>1. r \in Row
  BY DEF Good
<1>2. [r EXCEPT !.status = st, !.tries = tries] \in Row
  BY <1>1 DEF Row
<1>3. /\ [r EXCEPT !.status = st, !.tries = tries].status = st
      /\ [r EXCEPT !.status = st, !.tries = tries].tries = tries
      /\ [r EXCEPT !.status = st, !.tries = tries].depth = r.depth
  BY <1>1 DEF Row
<1> QED
  BY <1>2, <1>3 DEF Good, WithMark

\* The next hop stays below the number of channels.
LEMMA TargetBound ==
  ASSUME chain \in Policy, NEW c, NEW depth \in Nat, NEW t \in Target(c, depth)
  PROVE  t \in Channel /\ depth + 1 \in Nat /\ depth + 1 < Cardinality(Channel)
<1>1. chain \in Seq(Channel)
  BY DrainAssumption
<1>2. PICK i \in 1..(Len(chain) - 1) : t = chain[i + 1] /\ depth < Len(chain) - 1
  BY DEF Target
<1>3. Len(chain) \in Nat /\ Cardinality(Channel) \in Nat /\ Len(chain) <= Cardinality(Channel)
  BY ChainLength
<1>4. i + 1 \in 1..Len(chain)
  BY <1>3
<1> QED
  BY <1>1, <1>2, <1>3, <1>4

\* The rows of a transaction.
LEMMA RowsType ==
  ASSUME NEW f
  PROVE  f \in Rows <=> /\ DOMAIN f \subseteq Delivery
                       /\ f = [d \in DOMAIN f |-> f[d]]
                       /\ \A d \in DOMAIN f : f[d] \in Row
<1>1. ASSUME f \in Rows
      PROVE  DOMAIN f \subseteq Delivery /\ f = [d \in DOMAIN f |-> f[d]] /\ \A d \in DOMAIN f : f[d] \in Row
  BY <1>1 DEF Rows
<1>2. ASSUME DOMAIN f \subseteq Delivery, f = [d \in DOMAIN f |-> f[d]], \A d \in DOMAIN f : f[d] \in Row
      PROVE  f \in Rows
  <2>1. f \in [DOMAIN f -> Row]
    BY <1>2
  <2> QED
    BY <1>2, <2>1 DEF Rows
<1> QED
  BY <1>1, <1>2

\* A step of one transaction that writes rows only it has.
LEMMA OwnStep ==
  ASSUME DrainInv, NEW w \in Worker, NEW tx \in Transaction, Fits(tx),
         worker' = [worker EXCEPT ![w] = tx],
         \A v \in Worker : v # w => DOMAIN tx.rows \cap Written(v) = {},
         UNCHANGED <<delivery, broadcast, chain, lost, crashes>>,
         accepted' \in [Delivery -> Nat]
  PROVE  DrainInv'
<1> USE DEF DrainInv
<1>1. worker \in [Worker -> Transaction]
  BY DEF TypeInv
<1>2. worker'[w] = tx /\ \A v \in Worker : v # w => worker'[v] = worker[v]
  BY <1>1
<1>3. TypeInv'
  BY <1>1 DEF TypeInv
<1>4. GoodRows'
  BY <1>2 DEF GoodRows, Written, Fits
<1>5. Held'
  <2>1. ASSUME NEW v \in Worker, v # w
        PROVE  worker'[v] = worker[v] /\ Written(v)' = Written(v)
    BY <1>2, <2>1 DEF Written
  <2>2. Written(w)' = DOMAIN tx.rows
    BY <1>2 DEF Written
  <2>3. delivery' = delivery
    OBVIOUS
  <2> QED
    BY <1>2, <2>1, <2>2, <2>3 DEF Held, Fits
<1>6. Exclusive'
  <2>1. ASSUME NEW v \in Worker, v # w PROVE Written(v)' = Written(v)
    BY <1>2, <2>1 DEF Written
  <2>2. Written(w)' = DOMAIN tx.rows
    BY <1>2 DEF Written
  <2> QED
    BY <2>1, <2>2 DEF Exclusive
<1> QED
  BY <1>3, <1>4, <1>5, <1>6

LEMMA DrainingType ==
  ASSUME NEW rows \in Rows, NEW todo \in SUBSET Delivery, NEW sent \in SUBSET Delivery
  PROVE  /\ Draining(rows, todo, sent) \in Transaction
         /\ Draining(rows, todo, sent).pc = "draining" /\ Draining(rows, todo, sent).rows = rows
         /\ Draining(rows, todo, sent).todo = todo /\ Draining(rows, todo, sent).sent = sent
  BY DEF Draining, Transaction

\* A claim takes rows that are due and that nobody has locked.
LEMMA StartStep ==
  ASSUME DrainInv, NEW w \in Worker, NEW S \in SUBSET NextId, worker[w].pc = "idle",
         NEW rows, rows = [d \in S |-> NewRow(Push, 0, 0, "none")],
         NEW claim, claim \subseteq Due \cup S, Start(w, rows, claim),
         UNCHANGED <<delivery, broadcast, chain, accepted, lost, crashes>>
  PROVE  DrainInv'
<1> DEFINE all == [d \in DOMAIN rows \cup claim |-> IF d \in DOMAIN rows THEN rows[d] ELSE delivery[d]]
           tx == Draining(all, claim, {})
<1>0. DOMAIN rows = S
  OBVIOUS
<1>1. /\ S \subseteq Delivery /\ claim \subseteq Delivery
      /\ \A d \in S : delivery[d].status = "absent" /\ \A v \in Worker : d \notin Written(v)
      /\ \A d \in claim \ S : delivery[d].status = "pending" /\ \A v \in Worker : d \notin Written(v)
  BY DEF NextId, Free, Due, LockedRows
<1>2. \A d \in S : Good(rows[d]) /\ rows[d].status = "pending"
  BY NewIsGood, SomeChannel, DrainAssumption
<1>3. \A d \in claim \ S : Good(delivery[d])
  BY <1>1 DEF DrainInv, GoodRows
<1>4. /\ DOMAIN all = S \cup claim
      /\ \A d \in DOMAIN all : Good(all[d]) /\ all[d].status = "pending"
  BY <1>0, <1>1, <1>2, <1>3
<1>5. all \in Rows
  BY <1>1, <1>4, RowsType DEF Good
<1> HIDE DEF all
<1>6. tx \in Transaction /\ tx.rows = all /\ tx.todo = claim /\ tx.sent = {} /\ tx.pc = "draining"
  BY <1>1, <1>5, DrainingType
<1>7. worker' = [worker EXCEPT ![w] = tx]
  BY DEF Start, all
<1> HIDE DEF tx
<1>8. Fits(tx)
  BY <1>1, <1>4, <1>6 DEF Fits
<1>9. \A v \in Worker : v # w => DOMAIN tx.rows \cap Written(v) = {}
  BY <1>1, <1>4, <1>6
<1> QED
  BY <1>6, <1>7, <1>8, <1>9, OwnStep DEF DrainInv, TypeInv

\* What a transaction that works on d knows.
LEMMA Working ==
  ASSUME DrainInv, NEW w \in Worker, NEW d \in Delivery, d \in worker[w].todo
  PROVE  /\ worker[w] \in Transaction /\ worker[w].rows \in Rows /\ worker[w].pc = "draining"
         /\ worker[w].todo \subseteq Delivery /\ worker[w].sent \subseteq Delivery
         /\ d \in Written(w) /\ d \notin worker[w].sent
         /\ Good(worker[w].rows[d]) /\ worker[w].rows[d].status = "pending"
         /\ worker[w].rows[d].tries \in 0..MaxRetries
         /\ worker[w].rows[d].tries + 1 \in 0..MaxRetries
<1> USE DEF DrainInv
<1>1. /\ worker[w] \in Transaction /\ d \in Written(w) /\ d \notin worker[w].sent
      /\ worker[w].pc = "draining"
      /\ Good(worker[w].rows[d]) /\ worker[w].rows[d].status = "pending"
  BY DEF TypeInv, Held, GoodRows
<1>2. /\ worker[w].rows \in Rows /\ worker[w].todo \subseteq Delivery
      /\ worker[w].sent \subseteq Delivery
  BY <1>1 DEF Transaction
<1>3. worker[w].rows[d].tries \in 0..MaxRetries /\ worker[w].rows[d].tries < MaxRetries
  BY <1>1 DEF Good, Row
<1>4. worker[w].rows[d].tries + 1 \in 0..MaxRetries
  <2>1. MaxRetries \in Nat
    BY DrainAssumption
  <2>2. \A n \in 0..MaxRetries : n < MaxRetries => n + 1 \in 0..MaxRetries
    BY <2>1
  <2> QED
    BY <1>3, <2>2
<1> QED
  BY <1>1, <1>2, <1>3, <1>4

\* A transaction marks d, and may insert the rows of S.
LEMMA MarkStep ==
  ASSUME DrainInv, NEW w \in Worker, NEW d \in Delivery, d \in worker[w].todo,
         NEW st \in {"backoff", "sent", "failed"}, NEW tries \in 0..MaxRetries,
         st = "backoff" => tries < MaxRetries,
         NEW sent, sent = (IF st = "sent" THEN worker[w].sent \cup {d} ELSE worker[w].sent),
         NEW rows, DOMAIN rows = DOMAIN Marked(w, d, st, tries) \cup (DOMAIN rows \cap NextId),
         rows = [e \in DOMAIN rows |-> rows[e]],
         \A e \in DOMAIN Marked(w, d, st, tries) : rows[e] = Marked(w, d, st, tries)[e],
         \A e \in DOMAIN rows \cap NextId : Good(rows[e]) /\ rows[e].status = "pending",
         Handled(w, d, rows, sent), accepted' \in [Delivery -> Nat]
  PROVE  DrainInv'
<1> DEFINE old == worker[w].rows
           new == DOMAIN rows \cap NextId
           tx == Draining(rows, worker[w].todo \ {d}, sent)
<1>1. /\ worker[w] \in Transaction /\ old \in Rows /\ worker[w].pc = "draining"
      /\ worker[w].todo \subseteq Delivery /\ worker[w].sent \subseteq Delivery
      /\ d \in DOMAIN old /\ d \notin worker[w].sent
      /\ Good(old[d]) /\ old[d].status = "pending"
  BY Working DEF Written
<1>2. /\ DOMAIN Marked(w, d, st, tries) = DOMAIN old
      /\ \A e \in DOMAIN old : e # d => Marked(w, d, st, tries)[e] = old[e]
      /\ Good(Marked(w, d, st, tries)[d]) /\ Marked(w, d, st, tries)[d].status = st
  <2>1. Marked(w, d, st, tries) =
          [e \in DOMAIN old |-> IF e = d THEN WithMark(old[d], st, tries) ELSE old[e]]
    <3>1. DOMAIN old \cup {d} = DOMAIN old
      BY <1>1
    <3> QED
      BY <3>1, Zenon DEF Marked, Put, WithMark
  <2>2. Good(WithMark(old[d], st, tries)) /\ WithMark(old[d], st, tries).status = st
    <3>1. /\ st \in {"backoff", "sent", "failed", "pending", "void"}
          /\ st \in {"backoff", "pending"} => tries < MaxRetries
      OBVIOUS
    <3>2. \A r : Good(r) => /\ Good(WithMark(r, st, tries))
                            /\ WithMark(r, st, tries).status = st
      BY <3>1, MarkedIsGood
    <3> HIDE DEF old
    <3> QED
      BY <1>1, <3>2
  <2> HIDE DEF old
  <2> QED
    BY <1>1, <2>1, <2>2
<1>3. /\ new \subseteq Delivery
      /\ \A e \in new : delivery[e].status = "absent" /\ \A v \in Worker : e \notin Written(v)
  BY DEF NextId, Free, LockedRows
<1>4. new \cap DOMAIN old = {}
  BY <1>3 DEF Written
<1>5. \A e \in DOMAIN old : Good(old[e]) /\ delivery[e].status \in {"absent", "pending"}
                            /\ (old[e].status = "sent" <=> e \in worker[w].sent)
                            /\ (e \in worker[w].todo => old[e].status = "pending")
  BY DEF DrainInv, GoodRows, Held, Written
<1>6. DOMAIN rows = DOMAIN old \cup new
  BY <1>2
<1>7. /\ \A e \in DOMAIN old : e # d => rows[e] = old[e]
      /\ Good(rows[d]) /\ rows[d].status = st
  BY <1>1, <1>2
<1>8. \A e \in DOMAIN rows : Good(rows[e])
  BY <1>5, <1>6, <1>7
<1>9. DOMAIN old \subseteq Delivery
  BY <1>1, RowsType
<1>10. rows \in Rows
  BY <1>3, <1>6, <1>8, <1>9, RowsType DEF Good
<1>11. sent \subseteq Delivery
  BY <1>1
<1>12. /\ tx \in Transaction /\ tx.rows = rows /\ tx.todo = worker[w].todo \ {d}
       /\ tx.sent = sent /\ tx.pc = "draining"
  BY <1>1, <1>10, <1>11, DrainingType
<1>13. worker' = [worker EXCEPT ![w] = tx]
  BY DEF Handled
<1>14. worker[w].todo \subseteq DOMAIN old /\ worker[w].sent \subseteq DOMAIN old
       /\ worker[w].todo \cap worker[w].sent = {}
  BY DEF DrainInv, Held, Written
<1> HIDE DEF tx
<1>15. Fits(tx)
  <2>1. tx.todo \subseteq DOMAIN tx.rows /\ tx.sent \subseteq DOMAIN tx.rows /\ tx.todo \cap tx.sent = {}
    BY <1>1, <1>6, <1>12, <1>14
  <2>2. ASSUME NEW e \in DOMAIN rows
        PROVE  /\ delivery[e].status \in {"absent", "pending"}
               /\ e \in tx.todo => rows[e].status = "pending"
               /\ (rows[e].status = "sent") <=> (e \in sent)
    <3>1. CASE e \in new
      BY <1>3, <1>4, <1>12, <1>14, <3>1, <1>1
    <3>2. CASE e = d
      BY <1>1, <1>5, <1>7, <1>12, <3>2
    <3>3. CASE e \in DOMAIN old /\ e # d
      BY <1>5, <1>7, <1>12, <3>3
    <3> QED
      BY <1>6, <3>1, <3>2, <3>3
  <2> QED
    BY <1>8, <1>12, <2>1, <2>2 DEF Fits
<1>16. \A v \in Worker : v # w => DOMAIN tx.rows \cap Written(v) = {}
  BY <1>3, <1>6, <1>12 DEF DrainInv, Exclusive, Written
<1>17. UNCHANGED <<delivery, broadcast, chain, lost, crashes>>
  BY DEF Handled
<1> QED
  BY <1>12, <1>13, <1>15, <1>16, <1>17, OwnStep

\* A step that writes one row nobody has locked.
LEMMA RowStep ==
  ASSUME DrainInv, NEW d \in Delivery, \A w \in Worker : d \notin Written(w),
         NEW r, Good(r), delivery' = [delivery EXCEPT ![d] = r],
         UNCHANGED <<broadcast, chain, worker, accepted, lost, crashes>>
  PROVE  DrainInv'
<1> USE DEF DrainInv
<1>1. \A w \in Worker : Written(w)' = Written(w)
  BY DEF Written
<1>2. delivery \in [Delivery -> Row] /\ r \in Row
  BY DEF TypeInv, Good
<1>3. delivery'[d] = r /\ \A e \in Delivery : e # d => delivery'[e] = delivery[e]
  BY <1>2
<1>4. TypeInv'
  BY <1>2 DEF TypeInv
<1>5. GoodRows'
  BY <1>1, <1>3 DEF GoodRows
<1>6. Held'
  <2>1. \A w \in Worker : \A e \in Written(w) : e \in Delivery /\ e # d
    <3>1. ASSUME NEW w \in Worker PROVE Written(w) \subseteq Delivery
      BY RowsType DEF TypeInv, Transaction, Written
    <3> QED
      BY <3>1
  <2>2. \A w \in Worker : \A e \in Written(w) : delivery'[e] = delivery[e]
    BY <1>3, <2>1
  <2> QED
    BY <1>1, <2>2 DEF Held
<1>7. Exclusive'
  BY <1>1 DEF Exclusive
<1> QED
  BY <1>4, <1>5, <1>6, <1>7

LEMMA IdleType == Idle \in Transaction /\ Fits(Idle) /\ DOMAIN Idle.rows = {}
<1>1. << >> \in [{} -> Row]
  OBVIOUS
<1>2. << >> \in Rows
  BY <1>1 DEF Rows
<1>3. Idle \in Transaction
  BY <1>2 DEF Idle, Transaction
<1>4. DOMAIN Idle.rows = {} /\ Idle.todo = {} /\ Idle.sent = {}
  BY DEF Idle
<1> QED
  BY <1>3, <1>4 DEF Fits

\* A transaction ends; only the rows it wrote may differ.
LEMMA EndStep ==
  ASSUME DrainInv, NEW w \in Worker, worker' = [worker EXCEPT ![w] = Idle],
         delivery' = [d \in Delivery |-> delivery'[d]],
         \A d \in Delivery : Good(delivery'[d]),
         \A d \in Delivery \ Written(w) : delivery'[d] = delivery[d],
         broadcast' \in [Broadcast -> {"scheduled", "sent"}], chain' = chain,
         accepted' = accepted, lost' \in [Delivery -> Nat], crashes' \in 0..MaxCrash
  PROVE  DrainInv'
<1> USE DEF DrainInv
<1>1. worker \in [Worker -> Transaction]
  BY DEF TypeInv
<1>2. worker'[w] = Idle /\ \A v \in Worker : v # w => worker'[v] = worker[v]
  BY <1>1
<1>3. Written(w)' = {} /\ \A v \in Worker : v # w => Written(v)' = Written(v)
  BY <1>2, IdleType DEF Written
<1>4. TypeInv'
  BY <1>1, IdleType DEF TypeInv, Good
<1>5. GoodRows'
  BY <1>2, <1>3 DEF GoodRows
<1>6. Held'
  <2>1. ASSUME NEW v \in Worker, v # w, NEW e \in Written(v)
        PROVE  e \in Delivery \ Written(w)
    <3>1. Written(v) \subseteq Delivery
      BY <1>1, RowsType DEF Transaction, Written
    <3> QED
      BY <2>1, <3>1 DEF Exclusive
  <2>2. \A v \in Worker : v # w => \A e \in Written(v) : delivery'[e] = delivery[e]
    BY <2>1
  <2>3. worker'[w].todo = {} /\ worker'[w].sent = {}
    BY <1>2 DEF Idle
  <2> QED
    BY <1>2, <1>3, <2>2, <2>3 DEF Held
<1>7. Exclusive'
  BY <1>3 DEF Exclusive
<1> QED
  BY <1>4, <1>5, <1>6, <1>7

\* A row whose status alone changes.
LEMMA StatusIsGood ==
  ASSUME NEW r, Good(r), NEW st \in {"pending", "void"},
         st = "pending" => r.status = "backoff"
  PROVE  /\ Good([r EXCEPT !.status = st])
         /\ [r EXCEPT !.status = st].status = st
<1>1. r \in Row
  BY DEF Good
<1>2. [r EXCEPT !.status = st] \in Row
  BY <1>1 DEF Row
<1>3. /\ [r EXCEPT !.status = st].status = st
      /\ [r EXCEPT !.status = st].tries = r.tries
      /\ [r EXCEPT !.status = st].depth = r.depth
  BY <1>1 DEF Row
<1> QED
  BY <1>2, <1>3 DEF Good

-----------------------------------------------------------------------------
(***************************************************************************)
(* Every step keeps the invariant.                                         *)
(***************************************************************************)
LEMMA InitGood == DrainInit => DrainInv
<1> SUFFICES ASSUME DrainInit PROVE DrainInv
  OBVIOUS
<1> USE DEF DrainInit
<1>1. \A d \in Delivery : Good(delivery[d]) /\ delivery[d] \in Row
  BY NoRowIsGood DEF Good
<1>2. \A w \in Worker : Written(w) = {} /\ worker[w] = Idle
  BY IdleType DEF Written
<1>3. TypeInv
  BY <1>1, IdleType, DrainAssumption DEF TypeInv
<1>4. GoodRows
  BY <1>1, <1>2 DEF GoodRows
<1>5. Held
  BY <1>2 DEF Held, Idle
<1>6. Exclusive
  BY <1>2 DEF Exclusive
<1> QED
  BY <1>3, <1>4, <1>5, <1>6 DEF DrainInv

LEMMA EnqueueGood == ASSUME DrainInv, NEW c \in Channel, Enqueue(c) PROVE DrainInv'
<1>1. PICK d \in NextId : delivery' = [delivery EXCEPT ![d] = NewRow(c, 0, 0, "none")]
  BY DEF Enqueue
<1>2. d \in Delivery /\ \A w \in Worker : d \notin Written(w)
  BY DEF NextId, Free, LockedRows
<1>3. Good(NewRow(c, 0, 0, "none"))
  BY NewIsGood, SomeChannel
<1> QED
  BY <1>1, <1>2, <1>3, RowStep DEF Enqueue

LEMMA RetryGood == ASSUME DrainInv, NEW d \in Delivery, RetryTimeComes(d) PROVE DrainInv'
<1>1. \A w \in Worker : d \notin Written(w)
  BY DEF DrainInv, Held, RetryTimeComes
<1>2. delivery \in [Delivery -> Row] /\ Good(delivery[d])
  BY DEF DrainInv, TypeInv, GoodRows
<1>3. Good([delivery[d] EXCEPT !.status = "pending"])
  BY <1>2, StatusIsGood DEF RetryTimeComes
<1>4. delivery' = [delivery EXCEPT ![d] = [delivery[d] EXCEPT !.status = "pending"]]
  BY DEF RetryTimeComes
<1> QED
  BY <1>1, <1>3, <1>4, RowStep DEF RetryTimeComes

LEMMA OldestWithin == ASSUME NEW S PROVE Oldest(S) \subseteq S
  BY DEF Oldest

LEMMA SendDirectGood == ASSUME DrainInv, NEW w \in Worker, SendDirect(w) PROVE DrainInv'
<1>1. PICK d \in NextId :
        Start(w, [e \in {d} |-> NewRow(Push, 0, 0, "none")], Oldest(Due \cup {d}))
  BY DEF SendDirect
<1>2. Oldest(Due \cup {d}) \subseteq Due \cup {d} /\ {d} \in SUBSET NextId
  BY OldestWithin
<1> QED
  BY <1>1, <1>2, StartStep DEF SendDirect

LEMMA ClaimGood == ASSUME DrainInv, NEW w \in Worker, Claim(w) PROVE DrainInv'
<1>1. << >> = [d \in {} |-> NewRow(Push, 0, 0, "none")]
  OBVIOUS
<1>2. Oldest(Due) \subseteq Due \cup {} /\ {} \in SUBSET NextId
  BY OldestWithin
<1> QED
  BY <1>1, <1>2, StartStep DEF Claim

\* What a mark leaves of a transaction's rows.
LEMMA MarkedShape ==
  ASSUME DrainInv, NEW w \in Worker, NEW d \in Delivery, d \in worker[w].todo, NEW st, NEW tries
  PROVE  /\ DOMAIN Marked(w, d, st, tries) = Written(w)
         /\ Marked(w, d, st, tries) = [e \in Written(w) |-> Marked(w, d, st, tries)[e]]
         /\ Written(w) \cap NextId = {}
<1>1. d \in Written(w)
  BY Working
<1>2. DOMAIN worker[w].rows \cup {d} = Written(w)
  BY <1>1 DEF Written
<1>3. Written(w) \cap NextId = {}
  BY DEF NextId, Free, LockedRows
<1> QED
  BY <1>2, <1>3 DEF Marked, Put

LEMMA DeliverGood ==
  ASSUME DrainInv, NEW w \in Worker, NEW d \in Delivery, Deliver(w, d)
  PROVE  DrainInv'
<1> DEFINE rows == Marked(w, d, "sent", worker[w].rows[d].tries)
<1>1. d \in worker[w].todo /\ Handled(w, d, rows, worker[w].sent \cup {d})
      /\ accepted' = [accepted EXCEPT ![d] = @ + 1]
  BY DEF Deliver
<1>2. worker[w].rows[d].tries \in 0..MaxRetries
  BY <1>1, Working
<1>3. /\ DOMAIN rows = Written(w) /\ rows = [e \in DOMAIN rows |-> rows[e]]
      /\ DOMAIN rows \cap NextId = {}
  BY <1>1, MarkedShape
<1>4. accepted' \in [Delivery -> Nat]
  BY <1>1 DEF DrainInv, TypeInv
<1>5. DOMAIN rows = DOMAIN rows \cup (DOMAIN rows \cap NextId)
  OBVIOUS
<1> QED
  BY <1>1, <1>2, <1>3, <1>4, <1>5, MarkStep

LEMMA RescheduleGood ==
  ASSUME DrainInv, NEW w \in Worker, NEW d \in Delivery, Reschedule(w, d)
  PROVE  DrainInv'
<1> DEFINE tries == worker[w].rows[d].tries + 1
           rows == Marked(w, d, "backoff", tries)
<1>1. d \in worker[w].todo /\ Handled(w, d, rows, worker[w].sent) /\ accepted' = accepted
      /\ tries < MaxRetries
  BY DEF Reschedule, Fail
<1>2. tries \in 0..MaxRetries
  BY <1>1, Working
<1>3. /\ DOMAIN rows = Written(w) /\ rows = [e \in DOMAIN rows |-> rows[e]]
      /\ DOMAIN rows \cap NextId = {}
  BY <1>1, MarkedShape
<1>4. accepted' \in [Delivery -> Nat]
  BY <1>1 DEF DrainInv, TypeInv
<1>5. DOMAIN rows = DOMAIN rows \cup (DOMAIN rows \cap NextId)
  OBVIOUS
<1> QED
  BY <1>1, <1>2, <1>3, <1>4, <1>5, MarkStep

LEMMA GiveUpGood ==
  ASSUME DrainInv, NEW w \in Worker, NEW d \in Delivery, GiveUp(w, d)
  PROVE  DrainInv'
<1> DEFINE r == worker[w].rows[d]
           failed == Marked(w, d, "failed", r.tries + 1)
<1>1. d \in worker[w].todo /\ accepted' = accepted
  BY DEF GiveUp, Fail
<1>2. r.tries + 1 \in 0..MaxRetries /\ Good(r)
  BY <1>1, Working
<1>3. /\ DOMAIN failed = Written(w) /\ failed = [e \in DOMAIN failed |-> failed[e]]
      /\ DOMAIN failed \cap NextId = {}
  BY <1>1, MarkedShape
<1>4. accepted' \in [Delivery -> Nat]
  BY <1>1 DEF DrainInv, TypeInv
<1>5. CASE Handled(w, d, failed, worker[w].sent)
  <2>1. DOMAIN failed = DOMAIN failed \cup (DOMAIN failed \cap NextId)
    OBVIOUS
  <2> QED
    BY <1>1, <1>2, <1>3, <1>4, <1>5, <2>1, MarkStep
<1>6. ASSUME NEW c \in Target(r.channel, r.depth), NEW n \in NextId,
             Handled(w, d, Put(failed, n, NewRow(c, d, r.depth + 1, "none")), worker[w].sent)
      PROVE  DrainInv'
  <2> DEFINE new == NewRow(c, d, r.depth + 1, "none")
             rows == Put(failed, n, new)
  <2>1. r.depth \in Nat
    BY <1>2 DEF Good, Row
  <2>2. c \in Channel /\ r.depth + 1 \in Nat /\ r.depth + 1 < Cardinality(Channel)
    BY <2>1, TargetBound DEF DrainInv, TypeInv
  <2>3. Good(new) /\ new.status = "pending"
    BY <2>2, NewIsGood
  <2> HIDE DEF new, failed
  <2>4. /\ rows = [e \in DOMAIN failed \cup {n} |-> IF e = n THEN new ELSE failed[e]]
        /\ DOMAIN rows = DOMAIN failed \cup {n}
    BY DEF Put
  <2>5. n \notin DOMAIN failed /\ DOMAIN rows \cap NextId = {n}
    BY <1>3, <2>4
  <2>6. /\ rows[n] = new
        /\ \A e \in DOMAIN failed : rows[e] = failed[e]
        /\ rows = [e \in DOMAIN rows |-> rows[e]]
    BY <2>4, <2>5
  <2>7. DOMAIN rows = DOMAIN failed \cup (DOMAIN rows \cap NextId)
    BY <2>4, <2>5
  <2>8. \A e \in DOMAIN rows \cap NextId : Good(rows[e]) /\ rows[e].status = "pending"
    BY <2>3, <2>5, <2>6
  <2>9. Handled(w, d, rows, worker[w].sent)
    BY <1>6 DEF new
  <2> HIDE DEF rows
  <2> QED
    BY <1>1, <1>2, <1>4, <2>6, <2>7, <2>8, <2>9, MarkStep DEF failed
<1> QED
  BY <1>5, <1>6 DEF GiveUp, Fail

LEMMA DispatchGood ==
  ASSUME DrainInv, NEW w \in Worker, NEW b \in Broadcast, Dispatch(w, b)
  PROVE  DrainInv'
<1>1. PICK n \in NextId :
        worker' = [worker EXCEPT ![w] =
                     [pc |-> "dispatching", rows |-> [d \in {n} |-> NewRow(Push, 0, 0, b)],
                      todo |-> {}, sent |-> {}, job |-> b]]
  BY DEF Dispatch, FanOut
<1> DEFINE rows == [d \in {n} |-> NewRow(Push, 0, 0, b)]
           tx == [pc |-> "dispatching", rows |-> rows, todo |-> {}, sent |-> {}, job |-> b]
<1>2. /\ n \in Delivery /\ delivery[n].status = "absent"
      /\ \A v \in Worker : n \notin Written(v)
  BY DEF NextId, Free, LockedRows
<1>3. Good(rows[n]) /\ rows[n].status = "pending" /\ DOMAIN rows = {n}
  BY NewIsGood, SomeChannel, DrainAssumption
<1> HIDE DEF rows
<1>4. rows \in Rows
  <2>1. rows = [d \in DOMAIN rows |-> rows[d]]
    BY DEF rows
  <2> QED
    BY <1>2, <1>3, <2>1, RowsType DEF Good
<1>5. tx \in Transaction /\ Fits(tx) /\ DOMAIN tx.rows = {n}
  BY <1>2, <1>3, <1>4 DEF Transaction, Fits
<1>6. worker' = [worker EXCEPT ![w] = tx]
  BY <1>1 DEF rows
<1>7. UNCHANGED <<delivery, broadcast, chain, lost, crashes>> /\ accepted' \in [Delivery -> Nat]
  BY DEF Dispatch, FanOut, DrainInv, TypeInv
<1> HIDE DEF tx
<1> QED
  BY <1>2, <1>5, <1>6, <1>7, OwnStep

LEMMA CommitGood == ASSUME DrainInv, NEW w \in Worker, Commit(w) PROVE DrainInv'
<1>1. \A d \in Delivery : Good(delivery'[d])
  BY DEF Commit, DrainInv, GoodRows, Written
<1>2. \A d \in Delivery \ Written(w) : delivery'[d] = delivery[d]
  BY DEF Commit
<1>3. delivery' = [d \in Delivery |-> delivery'[d]]
  BY DEF Commit
<1>4. broadcast' \in [Broadcast -> {"scheduled", "sent"}]
  BY DEF Commit, DrainInv, TypeInv
<1>5. lost' \in [Delivery -> Nat] /\ crashes' \in 0..MaxCrash
  BY DEF Commit, DrainInv, TypeInv
<1> QED
  BY <1>1, <1>2, <1>3, <1>4, <1>5, EndStep DEF Commit

LEMMA RollbackGood == ASSUME DrainInv, NEW w \in Worker, Rollback(w) PROVE DrainInv'
<1>1. \A d \in Delivery : Good(delivery'[d])
  <2>1. ASSUME NEW d \in Delivery PROVE Good(delivery'[d])
    <3>1. Good(delivery[d])
      BY DEF DrainInv, GoodRows
    <3>2. Good([delivery[d] EXCEPT !.status = "void"])
      BY <3>1, StatusIsGood
    <3>3. delivery'[d] \in {delivery[d], [delivery[d] EXCEPT !.status = "void"]}
      BY DEF Rollback
    <3> QED
      BY <3>1, <3>2, <3>3
  <2> QED
    BY <2>1
<1>2. \A d \in Delivery \ Written(w) : delivery'[d] = delivery[d]
  BY DEF Rollback
<1>3. delivery' = [d \in Delivery |-> delivery'[d]]
  BY DEF Rollback
<1>4. broadcast' \in [Broadcast -> {"scheduled", "sent"}]
  BY DEF Rollback, DrainInv, TypeInv
<1>5. lost' \in [Delivery -> Nat] /\ crashes' \in 0..MaxCrash
  BY DrainAssumption DEF Rollback, DrainInv, TypeInv
<1> QED
  BY <1>1, <1>2, <1>3, <1>4, <1>5, EndStep DEF Rollback

LEMMA PolicyGood == ASSUME DrainInv, NEW s \in Policy, SetPolicy(s) PROVE DrainInv'
<1> USE DEF SetPolicy, DrainInv
<1>1. TypeInv'
  BY DEF TypeInv
<1>2. GoodRows' /\ Held' /\ Exclusive'
  BY DEF GoodRows, Held, Exclusive, Written
<1> QED
  BY <1>1, <1>2

LEMMA StutterGood == ASSUME DrainInv, UNCHANGED drainVars PROVE DrainInv'
  BY DEF DrainInv, TypeInv, GoodRows, Held, Exclusive, Written, Good, drainVars

LEMMA StepGood == ASSUME DrainInv, [DrainNext]_drainVars PROVE DrainInv'
<1>1. CASE \E c \in Channel : Enqueue(c)
  BY <1>1, EnqueueGood
<1>2. CASE \E w \in Worker : SendDirect(w) \/ Claim(w) \/ Progress(w) \/ Rollback(w)
  BY <1>2, SendDirectGood, ClaimGood, DeliverGood, RescheduleGood, GiveUpGood, CommitGood,
     RollbackGood DEF Progress
<1>3. CASE \E w \in Worker, b \in Broadcast : Dispatch(w, b)
  BY <1>3, DispatchGood
<1>4. CASE \E d \in Delivery : RetryTimeComes(d)
  BY <1>4, RetryGood
<1>5. CASE \E s \in Policy : SetPolicy(s)
  BY <1>5, PolicyGood
<1>6. CASE UNCHANGED drainVars
  BY <1>6, StutterGood
<1> QED
  BY <1>1, <1>2, <1>3, <1>4, <1>5, <1>6 DEF DrainNext

LEMMA DrainInvariant == DrainSpec => []DrainInv
<1>1. DrainInv /\ [DrainNext]_drainVars => DrainInv'
  BY StepGood
<1> QED
  BY InitGood, <1>1, PTL DEF DrainSpec

-----------------------------------------------------------------------------
\* Rows, broadcasts, policy and open transactions have their types.
THEOREM TypeCorrect == DrainSpec => []DrainTypeOK
<1>1. ASSUME DrainInv PROVE DrainTypeOK
  <2>1. ASSUME NEW w \in Worker
        PROVE  /\ worker[w].pc \in {"idle", "draining", "dispatching"}
               /\ Written(w) \subseteq Delivery
               /\ \A d \in Written(w) : worker[w].rows[d] \in Row
               /\ worker[w].todo \cup worker[w].sent \subseteq Written(w)
               /\ worker[w].job \in Broadcast \cup {"none"}
    BY <1>1, RowsType DEF DrainInv, TypeInv, Held, Transaction, Written
  <2> QED
    BY <1>1, <2>1 DEF DrainTypeOK, DrainInv, TypeInv
<1> QED
  BY <1>1, DrainInvariant, PTL

\* However the school edits its chain meanwhile, a message is escalated fewer
\* times than there are channels: the fallback of maybeEscalate terminates.
THEOREM FallbackTerminates == DrainSpec => []HopsBounded
<1>1. DrainInv => HopsBounded
  BY DEF DrainInv, GoodRows, Good, HopsBounded
<1> QED
  BY <1>1, DrainInvariant, PTL

-----------------------------------------------------------------------------
(***************************************************************************)
(* No message is sent twice.                                               *)
(***************************************************************************)
Sending(d) == \E w \in Worker : d \in worker[w].sent
Count(d) == (IF Sending(d) THEN 1 ELSE 0) + (IF delivery[d].status = "sent" THEN 1 ELSE 0)

\* What the provider took is accounted for by the rollbacks, the open drain
\* that sent it and the committed row.
Accounted == \A d \in Delivery : accepted[d] = lost[d] + Count(d)

\* A step that neither sends nor ends a transaction that has sent.
LEMMA SameCount ==
  ASSUME DrainInv, Accounted,
         \A w \in Worker : worker'[w].sent = worker[w].sent,
         \A d \in Delivery : (delivery'[d].status = "sent") <=> (delivery[d].status = "sent"),
         accepted' = accepted, lost' = lost
  PROVE  Accounted'
  BY DEF Accounted, Count, Sending

\* Of the transactions, the one that wrote d alone can have sent it.
LEMMA SentByWriter ==
  ASSUME DrainInv, NEW w \in Worker, NEW d \in Written(w)
  PROVE  /\ Sending(d) <=> d \in worker[w].sent
         /\ delivery[d].status # "sent"
         /\ worker[w].rows[d].status = "sent" <=> d \in worker[w].sent
         /\ \A v \in Worker : v # w => d \notin worker[v].sent
  BY DEF DrainInv, Held, Exclusive, Sending

LEMMA StartCounts ==
  ASSUME DrainInv, Accounted, NEW w \in Worker, worker[w].pc = "idle", NEW tx, tx.sent = {},
         worker' = [worker EXCEPT ![w] = tx], UNCHANGED <<delivery, accepted, lost>>
  PROVE  Accounted'
<1>1. worker[w].sent = {}
  BY DEF DrainInv, Held
<1>2. worker'[w] = tx /\ \A v \in Worker : v # w => worker'[v] = worker[v]
  BY DEF DrainInv, TypeInv
<1>3. \A v \in Worker : worker'[v].sent = worker[v].sent
  BY <1>1, <1>2
<1> QED
  BY <1>3, SameCount

LEMMA FailCounts ==
  ASSUME DrainInv, Accounted, NEW w \in Worker, NEW d, NEW rows, Fail(w, d, rows)
  PROVE  Accounted'
<1>1. /\ worker' = [worker EXCEPT ![w] = Draining(rows, worker[w].todo \ {d}, worker[w].sent)]
      /\ UNCHANGED <<delivery, accepted, lost>>
  BY DEF Fail, Handled
<1>2. Draining(rows, worker[w].todo \ {d}, worker[w].sent).sent = worker[w].sent
  BY DEF Draining
<1>3. worker \in [Worker -> Transaction]
  BY DEF DrainInv, TypeInv
<1>4. \A v \in Worker : worker'[v].sent = worker[v].sent
  BY <1>1, <1>2, <1>3
<1> QED
  BY <1>1, <1>4, SameCount

LEMMA DeliverCounts ==
  ASSUME DrainInv, Accounted, NEW w \in Worker, NEW d \in Delivery, Deliver(w, d)
  PROVE  Accounted'
<1> DEFINE rows == Marked(w, d, "sent", worker[w].rows[d].tries)
           tx == Draining(rows, worker[w].todo \ {d}, worker[w].sent \cup {d})
<1>1. d \in worker[w].todo /\ worker' = [worker EXCEPT ![w] = tx]
      /\ accepted' = [accepted EXCEPT ![d] = @ + 1] /\ delivery' = delivery /\ lost' = lost
  BY DEF Deliver, Handled
<1>2. tx.sent = worker[w].sent \cup {d}
  BY DEF Draining
<1> HIDE DEF tx
<1>3. worker \in [Worker -> Transaction] /\ accepted \in [Delivery -> Nat] /\ lost \in [Delivery -> Nat]
  BY DEF DrainInv, TypeInv
<1>4. worker'[w].sent = worker[w].sent \cup {d} /\ \A v \in Worker : v # w => worker'[v].sent = worker[v].sent
  BY <1>1, <1>2, <1>3
<1>5. d \in Written(w) /\ d \notin worker[w].sent
  BY <1>1, Working
<1>6. ~Sending(d) /\ delivery[d].status # "sent"
  BY <1>5, SentByWriter
<1>7. Sending(d)' /\ \A e \in Delivery : e # d => (Sending(e)' <=> Sending(e))
  BY <1>4 DEF Sending
<1>8. accepted'[d] = accepted[d] + 1 /\ \A e \in Delivery : e # d => accepted'[e] = accepted[e]
  BY <1>1, <1>3
<1>9. Count(d) = 0 /\ Count(d)' = 1 /\ \A e \in Delivery : e # d => Count(e)' = Count(e)
  BY <1>1, <1>6, <1>7 DEF Count
<1> QED
  BY <1>1, <1>3, <1>8, <1>9 DEF Accounted

LEMMA CommitCounts ==
  ASSUME DrainInv, Accounted, NEW w \in Worker, Commit(w)
  PROVE  Accounted'
<1>1. worker \in [Worker -> Transaction]
  BY DEF DrainInv, TypeInv
<1>2. /\ worker'[w].sent = {} /\ \A v \in Worker : v # w => worker'[v].sent = worker[v].sent
      /\ accepted' = accepted /\ lost' = lost
  BY <1>1 DEF Commit, Idle
<1>3. ASSUME NEW d \in Delivery, d \in Written(w) PROVE Count(d)' = Count(d)
  <2>1. delivery'[d] = worker[w].rows[d]
    BY <1>3 DEF Commit
  <2>2. ~Sending(d)'
    BY <1>2, <1>3, SentByWriter DEF Sending
  <2> QED
    BY <1>3, <2>1, <2>2, SentByWriter DEF Count
<1>4. ASSUME NEW d \in Delivery, d \notin Written(w) PROVE Count(d)' = Count(d)
  <2>1. delivery'[d] = delivery[d]
    BY <1>4 DEF Commit
  <2>2. Sending(d)' <=> Sending(d)
    BY <1>2, <1>4 DEF Sending, DrainInv, Held
  <2> QED
    BY <2>1, <2>2 DEF Count
<1> QED
  BY <1>2, <1>3, <1>4 DEF Accounted

LEMMA RollbackCounts ==
  ASSUME DrainInv, Accounted, NEW w \in Worker, Rollback(w)
  PROVE  Accounted'
<1>1. worker \in [Worker -> Transaction] /\ accepted \in [Delivery -> Nat] /\ lost \in [Delivery -> Nat]
  BY DEF DrainInv, TypeInv
<1>2. /\ worker'[w].sent = {} /\ \A v \in Worker : v # w => worker'[v].sent = worker[v].sent
      /\ accepted' = accepted
  BY <1>1 DEF Rollback, Idle
<1>3. ASSUME NEW d \in Delivery
      PROVE  (delivery'[d].status = "sent") <=> (delivery[d].status = "sent")
  <2>1. delivery[d] \in Row
    BY DEF DrainInv, TypeInv
  <2>2. [delivery[d] EXCEPT !.status = "void"].status = "void"
    BY <2>1 DEF Row
  <2> QED
    BY <2>2 DEF Rollback
<1>4. ASSUME NEW d \in Delivery PROVE accepted'[d] = lost'[d] + Count(d)'
  <2>0. accepted[d] = lost[d] + Count(d) /\ lost[d] \in Nat
    BY <1>1 DEF Accounted
  <2>1. CASE d \in worker[w].sent
    <3>1. d \in Written(w)
      BY <2>1 DEF DrainInv, Held
    <3>2. Count(d) = 1
      BY <2>1, <3>1, SentByWriter DEF Count
    <3>3. ~Sending(d)' /\ delivery[d].status # "sent"
      BY <1>2, <3>1, SentByWriter DEF Sending
    <3>4. Count(d)' = 0
      BY <1>3, <3>3 DEF Count
    <3>5. lost'[d] = lost[d] + 1
      BY <2>1 DEF Rollback
    <3> QED
      BY <1>2, <2>0, <3>2, <3>4, <3>5
  <2>2. CASE d \notin worker[w].sent
    <3>1. Sending(d)' <=> Sending(d)
      BY <1>2, <2>2 DEF Sending
    <3>2. Count(d)' = Count(d)
      BY <1>3, <3>1 DEF Count
    <3>3. lost'[d] = lost[d]
      BY <2>2 DEF Rollback
    <3> QED
      BY <1>2, <2>0, <3>2, <3>3
  <2> QED
    BY <2>1, <2>2
<1> QED
  BY <1>4 DEF Accounted

LEMMA RowCounts ==
  ASSUME DrainInv, Accounted, NEW d \in Delivery, NEW r, delivery' = [delivery EXCEPT ![d] = r],
         delivery[d].status # "sent", r.status # "sent", UNCHANGED <<worker, accepted, lost>>
  PROVE  Accounted'
<1>1. \A e \in Delivery : delivery'[e] = IF e = d THEN r ELSE delivery[e]
  BY DEF DrainInv, TypeInv
<1> QED
  BY <1>1, SameCount

LEMMA StepCounts == ASSUME DrainInv, Accounted, [DrainNext]_drainVars PROVE Accounted'
<1>1. ASSUME NEW c \in Channel, Enqueue(c) PROVE Accounted'
  <2>1. PICK d \in NextId : delivery' = [delivery EXCEPT ![d] = NewRow(c, 0, 0, "none")]
    BY <1>1 DEF Enqueue
  <2>2. d \in Delivery /\ delivery[d].status = "absent"
    BY DEF NextId, Free
  <2> QED
    BY <1>1, <2>1, <2>2, RowCounts DEF Enqueue, NewRow
<1>2. ASSUME NEW w \in Worker, SendDirect(w) \/ Claim(w) PROVE Accounted'
  <2>1. PICK rows, claim : Start(w, rows, claim)
    BY <1>2 DEF SendDirect, Claim
  <2>2. UNCHANGED <<delivery, accepted, lost>> /\ worker[w].pc = "idle"
    BY <1>2 DEF SendDirect, Claim
  <2> QED
    BY <2>1, <2>2, StartCounts DEF Start, Draining
<1>3. ASSUME NEW w \in Worker, NEW d \in Delivery, Reschedule(w, d) \/ GiveUp(w, d)
      PROVE  Accounted'
  <2>1. PICK rows : Fail(w, d, rows)
    BY <1>3 DEF Reschedule, GiveUp
  <2> QED
    BY <2>1, FailCounts
<1>4. ASSUME NEW w \in Worker, NEW b \in Broadcast, Dispatch(w, b) PROVE Accounted'
  <2>1. PICK n \in NextId :
          worker' = [worker EXCEPT ![w] =
                       [pc |-> "dispatching", rows |-> [d \in {n} |-> NewRow(Push, 0, 0, b)],
                        todo |-> {}, sent |-> {}, job |-> b]]
    BY <1>4 DEF Dispatch, FanOut
  <2> QED
    BY <1>4, <2>1, StartCounts DEF Dispatch, FanOut
<1>5. ASSUME NEW d \in Delivery, RetryTimeComes(d) PROVE Accounted'
  <2>1. delivery[d] \in Row
    BY DEF DrainInv, TypeInv
  <2>2. [delivery[d] EXCEPT !.status = "pending"].status = "pending"
    BY <2>1 DEF Row
  <2>3. delivery' = [delivery EXCEPT ![d] = [delivery[d] EXCEPT !.status = "pending"]]
    BY <1>5 DEF RetryTimeComes
  <2> QED
    BY <1>5, <2>2, <2>3, RowCounts DEF RetryTimeComes
<1>6. ASSUME NEW s \in Policy, SetPolicy(s) PROVE Accounted'
  BY <1>6, SameCount DEF SetPolicy
<1>7. CASE UNCHANGED drainVars
  BY <1>7, SameCount DEF drainVars
<1> QED
  BY <1>1, <1>2, <1>3, <1>4, <1>5, <1>6, <1>7, DeliverCounts, CommitCounts, RollbackCounts
  DEF DrainNext, Progress

\* At most one open drain has sent d.
LEMMA OneSender ==
  ASSUME DrainInv, NEW d \in Delivery
  PROVE  Cardinality(Underway(d)) = (IF Sending(d) THEN 1 ELSE 0)
<1>1. CASE Sending(d)
  <2>1. PICK w \in Worker : d \in worker[w].sent
    BY <1>1 DEF Sending
  <2>2. Underway(d) = {w}
    BY <2>1 DEF Underway, DrainInv, Held, Exclusive
  <2>3. Cardinality({w}) = 1
    BY FS_Singleton
  <2> QED
    BY <1>1, <2>2, <2>3
<1>2. CASE ~Sending(d)
  <2>1. Underway(d) = {}
    BY <1>2 DEF Underway, Sending
  <2> QED
    BY <1>2, <2>1, FS_EmptySet
<1> QED
  BY <1>1, <1>2

\* A message is handed over once, and once more for each drain that rolled back
\* after it did: the row locks of processDeliveryQueue keep drains apart.
THEOREM SentOnceEach == DrainSpec => []SentOnce
<1>1. DrainInit => Accounted
  BY DEF DrainInit, Accounted, Count, Sending, Idle, NoRow
<1>2. DrainInv /\ Accounted /\ [DrainNext]_drainVars => Accounted'
  BY StepCounts
<1>3. ASSUME DrainInv, Accounted PROVE SentOnce
  <2>1. ASSUME NEW d \in Delivery
        PROVE  accepted[d] = lost[d] + Cardinality(Underway(d))
                             + (IF delivery[d].status = "sent" THEN 1 ELSE 0)
    <3>1. accepted[d] = lost[d] + Count(d) /\ lost[d] \in Nat
      BY <1>3 DEF Accounted, DrainInv, TypeInv
    <3>2. Cardinality(Underway(d)) = (IF Sending(d) THEN 1 ELSE 0)
      BY <1>3, OneSender
    <3> QED
      BY <3>1, <3>2 DEF Count
  <2> QED
    BY <2>1 DEF SentOnce
<1> QED
  BY <1>1, <1>2, <1>3, DrainInvariant, PTL DEF DrainSpec

-----------------------------------------------------------------------------
(***************************************************************************)
(* What follows from what.                                                 *)
(***************************************************************************)
\* What the rows of an open transaction follow from: those it found keep their
\* origin; one it inserted follows from a delivery it has marked failed and from
\* nothing else, or from the broadcast it dispatches.
Origins(tx) ==
    /\ tx.pc # "dispatching" => tx.job = "none"
    /\ \A e \in DOMAIN tx.rows :
         /\ tx.rows[e].status \notin {"absent", "void"}
         /\ delivery[e].status # "absent" =>
              tx.rows[e].from = delivery[e].from /\ tx.rows[e].of = delivery[e].of
         /\ delivery[e].status = "absent" /\ tx.rows[e].from # 0 =>
              /\ tx.rows[e].from \in DOMAIN tx.rows
              /\ tx.rows[tx.rows[e].from].status = "failed"
              /\ \A f \in DOMAIN tx.rows : tx.rows[f].from = tx.rows[e].from => f = e
         /\ delivery[e].status = "absent" /\ tx.rows[e].of # "none" => tx.job = tx.rows[e].of
    /\ tx.job # "none" =>
         \E e \in DOMAIN tx.rows :
           /\ delivery[e].status = "absent"
           /\ \A f \in DOMAIN tx.rows : tx.rows[f].of = tx.job <=> f = e

\* A row that was never committed follows from nothing.
Unrelated ==
    \A d \in Delivery :
        delivery[d].status \in {"absent", "void"} => delivery[d].from = 0 /\ delivery[d].of = "none"

\* A broadcast is dispatched by one transaction, as long as it is scheduled.
Jobs ==
    \A w \in Worker :
        worker[w].job # "none" =>
            /\ broadcast[worker[w].job] = "scheduled"
            /\ \A v \in Worker : v # w => worker[v].job # worker[w].job

\* A scheduled broadcast has no committed delivery, one that was sent has one.
Fanned ==
    \A b \in Broadcast :
        /\ broadcast[b] = "scheduled" => \A d \in Delivery : delivery[d].of # b
        /\ broadcast[b] = "sent" =>
             \E d \in Delivery : \A f \in Delivery : delivery[f].of = b <=> f = d

OriginInv ==
    /\ EscalatedOnce
    /\ Unrelated
    /\ Jobs
    /\ Fanned
    /\ \A w \in Worker : Origins(worker[w])

-----------------------------------------------------------------------------
\* The rows an open transaction has, and what is committed of them.
LEMMA OwnRows ==
  ASSUME DrainInv, NEW w \in Worker
  PROVE  /\ worker[w] \in Transaction /\ Written(w) \subseteq Delivery
         /\ \A e \in Written(w) :
              /\ e \in Delivery /\ e # 0
              /\ worker[w].rows[e] \in Row /\ delivery[e] \in Row
              /\ delivery[e].status \in {"absent", "pending"}
<1>1. worker[w] \in Transaction /\ delivery \in [Delivery -> Row]
  BY DEF DrainInv, TypeInv
<1>2. Written(w) \subseteq Delivery
  BY <1>1, RowsType DEF Transaction, Written
<1>3. \A e \in Delivery : e # 0
  BY DEF Delivery
<1>4. \A e \in Written(w) : worker[w].rows[e] \in Row /\ delivery[e].status \in {"absent", "pending"}
  BY DEF DrainInv, GoodRows, Good, Held
<1> QED
  BY <1>1, <1>2, <1>3, <1>4

\* The next id is nobody's.
LEMMA NextIsFree ==
  ASSUME NEW n \in NextId
  PROVE  n \in Delivery /\ delivery[n].status = "absent" /\ \A v \in Worker : n \notin Written(v)
  BY DEF NextId, Free, LockedRows

LEMMA NewFields ==
  ASSUME NEW c, NEW from, NEW depth, NEW of
  PROVE  LET r == NewRow(c, from, depth, of) IN
         r.status = "pending" /\ r.from = from /\ r.of = of
  BY DEF NewRow

LEMMA DrainingFields ==
  ASSUME NEW rows, NEW todo, NEW sent
  PROVE  /\ Draining(rows, todo, sent).rows = rows /\ Draining(rows, todo, sent).job = "none"
         /\ Draining(rows, todo, sent).pc = "draining"
  BY DEF Draining

\* A step of one transaction, which commits nothing.
LEMMA OwnOrigins ==
  ASSUME DrainInv, OriginInv, NEW w \in Worker, NEW tx, Origins(tx),
         worker' = [worker EXCEPT ![w] = tx], UNCHANGED <<delivery, broadcast>>,
         \/ tx.job = "none"
         \/ broadcast[tx.job] = "scheduled" /\ \A v \in Worker : v # w => worker[v].job # tx.job
  PROVE  OriginInv'
<1> USE DEF OriginInv
<1>1. worker'[w] = tx /\ \A v \in Worker : v # w => worker'[v] = worker[v]
  BY DEF DrainInv, TypeInv
<1>2. EscalatedOnce' /\ Unrelated' /\ Fanned'
  BY DEF EscalatedOnce, Unrelated, Fanned
<1>3. Jobs'
  BY <1>1 DEF Jobs
<1>4. \A v \in Worker : Origins(worker[v])'
  BY <1>1 DEF Origins
<1> QED
  BY <1>2, <1>3, <1>4

\* A transaction starts to drain.
LEMMA StartOrigins ==
  ASSUME DrainInv, OriginInv, NEW w \in Worker, NEW S \in SUBSET NextId,
         NEW rows, rows = [d \in S |-> NewRow(Push, 0, 0, "none")],
         NEW claim, claim \subseteq Due \cup S, Start(w, rows, claim),
         UNCHANGED <<delivery, broadcast>>
  PROVE  OriginInv'
<1> DEFINE all == [d \in DOMAIN rows \cup claim |-> IF d \in DOMAIN rows THEN rows[d] ELSE delivery[d]]
           tx == Draining(all, claim, {})
<1>1. DOMAIN rows = S /\ DOMAIN all = S \cup claim
  OBVIOUS
<1>2. /\ \A e \in S : all[e] = NewRow(Push, 0, 0, "none") /\ delivery[e].status = "absent"
      /\ \A e \in claim \ S : all[e] = delivery[e] /\ delivery[e].status = "pending"
  BY NextIsFree DEF Due
<1> HIDE DEF all
<1>3. tx.rows = all /\ tx.job = "none"
  BY DrainingFields
<1>4. worker' = [worker EXCEPT ![w] = tx]
  BY DEF Start, all
<1> HIDE DEF tx
<1>5. \A e \in DOMAIN all :
        /\ all[e].status = "pending"
        /\ delivery[e].status # "absent" => all[e] = delivery[e]
        /\ delivery[e].status = "absent" => all[e].from = 0 /\ all[e].of = "none"
  BY <1>1, <1>2, NewFields
<1>6. Origins(tx)
  BY <1>3, <1>5 DEF Origins
<1> QED
  BY <1>3, <1>4, <1>6, OwnOrigins

\* What a transaction that works on d knows of it: nothing follows from it yet.
LEMMA WorkingOrigins ==
  ASSUME DrainInv, OriginInv, NEW w \in Worker, NEW d \in Delivery, d \in worker[w].todo
  PROVE  /\ d \in Written(w) /\ worker[w].rows[d] \in Row /\ worker[w].rows[d].status = "pending"
         /\ worker[w].job = "none"
         /\ \A e \in Written(w) : worker[w].rows[e].from # d
         /\ \A e \in Delivery : delivery[e].from # d
<1>1. /\ d \in Written(w) /\ worker[w].rows[d].status = "pending" /\ worker[w].pc = "draining"
  BY Working
<1>2. worker[w].rows[d] \in Row /\ d # 0 /\ delivery[d].status \in {"absent", "pending"}
  BY <1>1, OwnRows
<1>3. Origins(worker[w])
  BY DEF OriginInv
<1>4. \A e \in Delivery : delivery[e].from # d
  BY <1>2 DEF OriginInv, EscalatedOnce
<1>5. \A e \in Written(w) : worker[w].rows[e].from # d
  BY <1>1, <1>2, <1>3, <1>4, OwnRows DEF Origins, Written
<1> QED
  BY <1>1, <1>2, <1>3, <1>4, <1>5 DEF Origins

\* The rows of a transaction after it has marked d.
LEMMA MarkedRows ==
  ASSUME DrainInv, OriginInv, NEW w \in Worker, NEW d \in Delivery, d \in worker[w].todo,
         NEW st, NEW tries
  PROVE  LET rows == Marked(w, d, st, tries) IN
         /\ DOMAIN rows = Written(w) /\ rows[d].status = st
         /\ \A e \in Written(w) : rows[e].from = worker[w].rows[e].from
                                  /\ rows[e].of = worker[w].rows[e].of
         /\ \A e \in Written(w) : e # d => rows[e] = worker[w].rows[e]
<1> DEFINE old == worker[w].rows
           new == [old[d] EXCEPT !.status = st, !.tries = tries]
<1>1. d \in Written(w) /\ old[d] \in Row
  BY WorkingOrigins
<1>2. new.status = st /\ new.from = old[d].from /\ new.of = old[d].of
  BY <1>1 DEF Row
<1>3. Written(w) \cup {d} = Written(w)
  BY <1>1
<1>4. Marked(w, d, st, tries) = [e \in Written(w) |-> IF e = d THEN new ELSE old[e]]
  BY <1>3, Zenon DEF Marked, Put, Written
<1> HIDE DEF new, old
<1> QED
  BY <1>1, <1>2, <1>4 DEF old

LEMMA MarkOrigins ==
  ASSUME DrainInv, OriginInv, NEW w \in Worker, NEW d \in Delivery, d \in worker[w].todo,
         NEW st \in {"sent", "backoff", "failed"}, NEW tries, NEW sent,
         Handled(w, d, Marked(w, d, st, tries), sent)
  PROVE  OriginInv'
<1> DEFINE rows == Marked(w, d, st, tries)
           tx == Draining(rows, worker[w].todo \ {d}, sent)
<1>1. /\ d \in Written(w) /\ worker[w].rows[d].status = "pending"
      /\ worker[w].job = "none" /\ \A e \in Written(w) : worker[w].rows[e].from # d
  BY WorkingOrigins
<1>2. /\ DOMAIN rows = Written(w) /\ rows[d].status = st
      /\ \A e \in Written(w) : rows[e].from = worker[w].rows[e].from
                               /\ rows[e].of = worker[w].rows[e].of
      /\ \A e \in Written(w) : e # d => rows[e] = worker[w].rows[e]
  BY MarkedRows
<1>3. worker' = [worker EXCEPT ![w] = tx] /\ UNCHANGED <<delivery, broadcast>>
  BY DEF Handled
<1> HIDE DEF rows
<1>4. tx.rows = rows /\ tx.job = "none"
  BY DrainingFields
<1> HIDE DEF tx
<1>5. Origins(worker[w])
  BY DEF OriginInv
<1>6. Origins(tx)
  BY <1>1, <1>2, <1>4, <1>5 DEF Origins, Written
<1> QED
  BY <1>3, <1>4, <1>6, OwnOrigins

\* maybeEscalate: the one row that follows from d.
LEMMA EscalateOrigins ==
  ASSUME DrainInv, OriginInv, NEW w \in Worker, NEW d \in Delivery, d \in worker[w].todo,
         NEW tries, NEW c, NEW depth, NEW n \in NextId,
         Handled(w, d, Put(Marked(w, d, "failed", tries), n, NewRow(c, d, depth, "none")),
                 worker[w].sent)
  PROVE  OriginInv'
<1> DEFINE failed == Marked(w, d, "failed", tries)
           new == NewRow(c, d, depth, "none")
           rows == Put(failed, n, new)
           tx == Draining(rows, worker[w].todo \ {d}, worker[w].sent)
<1>1. /\ d \in Written(w) /\ worker[w].rows[d].status = "pending" /\ d # 0
      /\ worker[w].job = "none" /\ \A e \in Written(w) : worker[w].rows[e].from # d
  BY WorkingOrigins, OwnRows
<1>2. /\ DOMAIN failed = Written(w) /\ failed[d].status = "failed"
      /\ \A e \in Written(w) : failed[e].from = worker[w].rows[e].from
                               /\ failed[e].of = worker[w].rows[e].of
      /\ \A e \in Written(w) : e # d => failed[e] = worker[w].rows[e]
  BY MarkedRows
<1>3. n \in Delivery /\ delivery[n].status = "absent" /\ n \notin Written(w)
  BY NextIsFree
<1>4. new.status = "pending" /\ new.from = d /\ new.of = "none"
  BY NewFields
<1>5. worker' = [worker EXCEPT ![w] = tx] /\ UNCHANGED <<delivery, broadcast>>
  BY DEF Handled
<1> HIDE DEF failed, new
<1>6. /\ DOMAIN rows = Written(w) \cup {n} /\ rows[n] = new
      /\ \A e \in Written(w) : rows[e] = failed[e]
  BY <1>2, <1>3 DEF Put
<1> HIDE DEF rows
<1>7. tx.rows = rows /\ tx.job = "none"
  BY DrainingFields
<1> HIDE DEF tx
<1>8. Origins(worker[w])
  BY DEF OriginInv
<1>9. ASSUME NEW e \in Written(w)
      PROVE  /\ rows[e].status \notin {"absent", "void"}
             /\ delivery[e].status # "absent" =>
                  rows[e].from = delivery[e].from /\ rows[e].of = delivery[e].of
             /\ delivery[e].status = "absent" /\ rows[e].from # 0 =>
                  /\ rows[e].from \in Written(w)
                  /\ rows[rows[e].from].status = "failed"
                  /\ \A f \in DOMAIN rows : rows[f].from = rows[e].from => f = e
             /\ delivery[e].status = "absent" /\ rows[e].of # "none" => FALSE
  BY <1>1, <1>2, <1>4, <1>6, <1>8, <1>9 DEF Origins, Written
<1>10. \A f \in DOMAIN rows : rows[f].from = d => f = n
  BY <1>1, <1>2, <1>6
<1>11. Origins(tx)
  BY <1>1, <1>2, <1>3, <1>4, <1>6, <1>7, <1>9, <1>10 DEF Origins
<1> QED
  BY <1>5, <1>7, <1>11, OwnOrigins

\* runDueScheduledBroadcasts.
LEMMA DispatchOrigins ==
  ASSUME DrainInv, OriginInv, NEW w \in Worker, NEW b \in Broadcast, Dispatch(w, b)
  PROVE  OriginInv'
<1>1. PICK n \in NextId :
        worker' = [worker EXCEPT ![w] =
                     [pc |-> "dispatching", rows |-> [d \in {n} |-> NewRow(Push, 0, 0, b)],
                      todo |-> {}, sent |-> {}, job |-> b]]
  BY DEF Dispatch, FanOut
<1> DEFINE rows == [d \in {n} |-> NewRow(Push, 0, 0, b)]
           tx == [pc |-> "dispatching", rows |-> rows, todo |-> {}, sent |-> {}, job |-> b]
<1>2. delivery[n].status = "absent"
  BY NextIsFree
<1>3. /\ DOMAIN rows = {n} /\ rows[n].status = "pending" /\ rows[n].from = 0 /\ rows[n].of = b
  BY NewFields
<1>4. worker' = [worker EXCEPT ![w] = tx]
  BY <1>1
<1> HIDE DEF rows
<1>5. tx.rows = rows /\ tx.job = b /\ tx.pc = "dispatching"
  OBVIOUS
<1> HIDE DEF tx
<1>6. Origins(tx)
  BY <1>2, <1>3, <1>5 DEF Origins
<1>7. /\ broadcast[b] = "scheduled" /\ \A v \in Worker : worker[v].job # b
      /\ UNCHANGED <<delivery, broadcast>>
  BY DEF Dispatch, FanOut
<1> QED
  BY <1>4, <1>5, <1>6, <1>7, OwnOrigins

\* A row nobody has locked is inserted or comes up for another try.
LEMMA RowOrigins ==
  ASSUME DrainInv, OriginInv, NEW d \in Delivery, \A w \in Worker : d \notin Written(w),
         NEW r, delivery' = [delivery EXCEPT ![d] = r], r.status = "pending",
         delivery[d].status # "failed", r.from = delivery[d].from, r.of = delivery[d].of,
         UNCHANGED <<broadcast, worker>>
  PROVE  OriginInv'
<1> USE DEF OriginInv
<1>1. \A e \in Delivery : delivery'[e] = IF e = d THEN r ELSE delivery[e]
  BY DEF DrainInv, TypeInv
<1>2. \A e \in Delivery : delivery'[e].from = delivery[e].from /\ delivery'[e].of = delivery[e].of
  BY <1>1
<1>3. delivery \in [Delivery -> Row]
  BY DEF DrainInv, TypeInv
<1>4. \A e \in Delivery : delivery[e].from \in Delivery \cup {0}
  BY <1>3 DEF Row
<1>5. EscalatedOnce'
  BY <1>1, <1>2, <1>4 DEF EscalatedOnce
<1>6. Unrelated' /\ Fanned' /\ Jobs'
  BY <1>1, <1>2 DEF Unrelated, Fanned, Jobs
<1>7. ASSUME NEW w \in Worker PROVE Origins(worker[w])'
  <2>1. \A e \in Written(w) : delivery'[e] = delivery[e]
    BY <1>1, OwnRows
  <2> QED
    BY <2>1 DEF Origins, Written
<1> QED
  BY <1>5, <1>6, <1>7

LEMMA EnqueueOrigins == ASSUME DrainInv, OriginInv, NEW c, Enqueue(c) PROVE OriginInv'
<1>1. PICK d \in NextId : delivery' = [delivery EXCEPT ![d] = NewRow(c, 0, 0, "none")]
  BY DEF Enqueue
<1>2. d \in Delivery /\ delivery[d].status = "absent" /\ \A w \in Worker : d \notin Written(w)
  BY NextIsFree
<1>3. delivery[d].from = 0 /\ delivery[d].of = "none"
  BY <1>2 DEF OriginInv, Unrelated
<1> DEFINE r == NewRow(c, 0, 0, "none")
<1>4. r.status = "pending" /\ r.from = 0 /\ r.of = "none"
  BY NewFields
<1>5. delivery' = [delivery EXCEPT ![d] = r] /\ UNCHANGED <<broadcast, worker>>
  BY <1>1 DEF Enqueue
<1>6. delivery[d].status # "failed" /\ r.from = delivery[d].from /\ r.of = delivery[d].of
  BY <1>2, <1>3, <1>4
<1> HIDE DEF r
<1> QED
  BY <1>2, <1>4, <1>5, <1>6, RowOrigins

LEMMA RetryOrigins == ASSUME DrainInv, OriginInv, NEW d \in Delivery, RetryTimeComes(d) PROVE OriginInv'
<1> DEFINE r == [delivery[d] EXCEPT !.status = "pending"]
<1>1. \A w \in Worker : d \notin Written(w)
  BY DEF DrainInv, Held, RetryTimeComes
<1>2. delivery[d] \in Row
  BY DEF DrainInv, TypeInv
<1>3. r.status = "pending" /\ r.from = delivery[d].from /\ r.of = delivery[d].of
  BY <1>2 DEF Row
<1>4. delivery' = [delivery EXCEPT ![d] = r] /\ UNCHANGED <<broadcast, worker>>
      /\ delivery[d].status = "backoff"
  BY DEF RetryTimeComes
<1> HIDE DEF r
<1> QED
  BY <1>1, <1>3, <1>4, RowOrigins

\* A transaction ends.
LEMMA EndOrigins ==
  ASSUME DrainInv, OriginInv, NEW w \in Worker, worker' = [worker EXCEPT ![w] = Idle],
         \A d \in Delivery \ Written(w) : delivery'[d] = delivery[d],
         \A b \in Broadcast : b # worker[w].job => broadcast'[b] = broadcast[b],
         EscalatedOnce', Unrelated', Fanned'
  PROVE  OriginInv'
<1> USE DEF OriginInv
<1>1. worker'[w] = Idle /\ \A v \in Worker : v # w => worker'[v] = worker[v]
  BY DEF DrainInv, TypeInv
<1>2. Jobs'
  <2>1. \A v \in Worker : worker[v].job \in Broadcast \cup {"none"}
    BY DEF DrainInv, TypeInv, Transaction
  <2>2. worker'[w].job = "none"
    BY <1>1 DEF Idle
  <2> QED
    BY <1>1, <2>1, <2>2 DEF Jobs
<1>3. Origins(Idle)'
  BY IdleType DEF Origins, Idle
<1>4. ASSUME NEW v \in Worker, v # w PROVE Origins(worker[v])'
  <2>1. \A e \in Written(v) : delivery'[e] = delivery[e]
    BY <1>4, OwnRows DEF DrainInv, Exclusive
  <2>2. Origins(worker[v]) /\ worker'[v] = worker[v]
    BY <1>1, <1>4
  <2> QED
    BY <2>1, <2>2 DEF Origins, Written
<1> QED
  BY <1>1, <1>2, <1>3, <1>4

LEMMA RollbackOrigins == ASSUME DrainInv, OriginInv, NEW w \in Worker, Rollback(w) PROVE OriginInv'
<1>1. /\ worker' = [worker EXCEPT ![w] = Idle] /\ broadcast' = broadcast
      /\ \A d \in Delivery \ Written(w) : delivery'[d] = delivery[d]
  BY DEF Rollback
<1>2. ASSUME NEW d \in Delivery
      PROVE  /\ delivery'[d].from = delivery[d].from /\ delivery'[d].of = delivery[d].of
             /\ \/ delivery'[d].status = delivery[d].status
                \/ delivery[d].status = "absent" /\ delivery'[d].status = "void"
  <2>1. delivery[d] \in Row
    BY DEF DrainInv, TypeInv
  <2> DEFINE r == [delivery[d] EXCEPT !.status = "void"]
  <2>2. r.from = delivery[d].from /\ r.of = delivery[d].of /\ r.status = "void"
    BY <2>1 DEF Row
  <2>3. delivery'[d] = IF d \in Written(w) /\ delivery[d].status = "absent" THEN r ELSE delivery[d]
    BY DEF Rollback
  <2> HIDE DEF r
  <2>4. CASE d \in Written(w) /\ delivery[d].status = "absent"
    BY <2>2, <2>3, <2>4
  <2>5. CASE ~(d \in Written(w) /\ delivery[d].status = "absent")
    <3>1. delivery'[d] = delivery[d]
      BY <2>3, <2>5
    <3> QED
      BY <3>1
  <2> QED
    BY <2>4, <2>5
<1>3. \A d \in Delivery : delivery[d].from \in Delivery \cup {0}
  BY DEF DrainInv, TypeInv, Row
<1>4. EscalatedOnce'
  BY <1>2, <1>3 DEF OriginInv, EscalatedOnce
<1>5. Unrelated' /\ Fanned'
  BY <1>1, <1>2 DEF OriginInv, Unrelated, Fanned
<1> QED
  BY <1>1, <1>4, <1>5, EndOrigins

\* What is committed together was marked together.
LEMMA CommitOrigins == ASSUME DrainInv, OriginInv, NEW w \in Worker, Commit(w) PROVE OriginInv'
<1> DEFINE rows == worker[w].rows
           job == worker[w].job
<1>1. /\ worker' = [worker EXCEPT ![w] = Idle]
      /\ \A d \in Delivery : delivery'[d] = IF d \in Written(w) THEN rows[d] ELSE delivery[d]
      /\ \A b \in Broadcast : broadcast'[b] = IF b = job THEN "sent" ELSE broadcast[b]
  BY DEF Commit
<1>2. /\ Written(w) \subseteq Delivery
      /\ \A e \in Written(w) : /\ e # 0 /\ delivery[e].status \in {"absent", "pending"}
                               /\ rows[e] \in Row
  BY OwnRows
<1>3. /\ \A e \in Written(w) :
         /\ rows[e].status \notin {"absent", "void"}
         /\ delivery[e].status # "absent" =>
              rows[e].from = delivery[e].from /\ rows[e].of = delivery[e].of
         /\ delivery[e].status = "absent" /\ rows[e].from # 0 =>
              /\ rows[e].from \in Written(w)
              /\ rows[rows[e].from].status = "failed"
              /\ \A f \in Written(w) : rows[f].from = rows[e].from => f = e
         /\ delivery[e].status = "absent" /\ rows[e].of # "none" => job = rows[e].of
      /\ job # "none" =>
           \E e \in Written(w) :
             delivery[e].status = "absent" /\ \A f \in Written(w) : rows[f].of = job <=> f = e
  BY DEF OriginInv, Origins, Written
<1>4. \A e \in Delivery : delivery[e].from \in Delivery \cup {0}
  BY DEF DrainInv, TypeInv, Row
<1> HIDE DEF rows, job
<1>5. \A e \in Delivery : delivery[e].from \notin Written(w)
  BY <1>2 DEF OriginInv, EscalatedOnce
<1>6. ASSUME NEW e \in Delivery, delivery'[e].from # 0
      PROVE  /\ delivery'[delivery'[e].from].status = "failed"
             /\ \A f \in Delivery : delivery'[f].from = delivery'[e].from => f = e
  <2>1. CASE e \in Written(w) /\ delivery[e].status = "absent"
    <3>1. PICK d \in Written(w) : d = rows[e].from /\ delivery'[e].from = d /\ rows[d].status = "failed"
      BY <1>1, <1>3, <1>6, <2>1
    <3>2. \A f \in Delivery : delivery'[f].from = d => f = e
      BY <1>1, <1>3, <1>5, <1>6, <2>1, <3>1
    <3> QED
      BY <1>1, <1>2, <3>1, <3>2
  <2>2. CASE ~(e \in Written(w) /\ delivery[e].status = "absent")
    <3>1. PICK d \in Delivery : d = delivery[e].from /\ delivery'[e].from = d
      BY <1>1, <1>3, <1>4, <1>6, <2>2
    <3>2. d \notin Written(w) /\ d # 0 /\ delivery[d].status = "failed"
          /\ \A f \in Delivery : delivery[f].from = d => f = e
      BY <1>5, <1>6, <3>1 DEF OriginInv, EscalatedOnce
    <3>3. \A f \in Delivery : delivery'[f].from = d => delivery[f].from = d
      BY <1>1, <1>3, <3>2
    <3> QED
      BY <1>1, <3>1, <3>2, <3>3
  <2> QED
    BY <2>1, <2>2
<1>7. EscalatedOnce'
  BY <1>6 DEF EscalatedOnce
<1>8. Unrelated'
  BY <1>1, <1>3 DEF OriginInv, Unrelated
<1>9. ASSUME NEW b \in Broadcast
      PROVE  /\ broadcast'[b] = "scheduled" => \A d \in Delivery : delivery'[d].of # b
             /\ broadcast'[b] = "sent" =>
                  \E d \in Delivery : \A f \in Delivery : delivery'[f].of = b <=> f = d
  <2>1. b # "none"
    BY DrainAssumption
  <2>2. CASE b = job
    <3>1. \A f \in Delivery : delivery[f].of # b
      BY <2>1, <2>2 DEF OriginInv, Jobs, Fanned, job
    <3>2. PICK e \in Written(w) : \A f \in Written(w) : rows[f].of = b <=> f = e
      BY <1>3, <2>1, <2>2
    <3>3. \A f \in Delivery : delivery'[f].of = b <=> f = e
      BY <1>1, <3>1, <3>2
    <3> QED
      BY <1>1, <1>2, <2>2, <3>3
  <2>3. CASE b # job
    <3>1. \A f \in Delivery : delivery'[f].of = b <=> delivery[f].of = b
      <4>1. ASSUME NEW f \in Written(w) PROVE rows[f].of = b <=> delivery[f].of = b
        <5>1. CASE delivery[f].status = "absent"
          BY <1>2, <1>3, <2>1, <2>3, <5>1 DEF OriginInv, Unrelated
        <5>2. CASE delivery[f].status # "absent"
          BY <1>3, <5>2
        <5> QED
          BY <5>1, <5>2
      <4> QED
        BY <1>1, <4>1
    <3> QED
      BY <1>1, <2>3, <3>1 DEF OriginInv, Fanned
  <2> QED
    BY <2>2, <2>3
<1>10. Fanned'
  BY <1>9 DEF Fanned
<1> QED
  BY <1>1, <1>7, <1>8, <1>10, EndOrigins DEF job

LEMMA StepOrigins == ASSUME DrainInv, OriginInv, [DrainNext]_drainVars PROVE OriginInv'
<1>1. ASSUME NEW w \in Worker, SendDirect(w) PROVE OriginInv'
  <2>1. PICK d \in NextId :
          Start(w, [e \in {d} |-> NewRow(Push, 0, 0, "none")], Oldest(Due \cup {d}))
    BY <1>1 DEF SendDirect
  <2>2. Oldest(Due \cup {d}) \subseteq Due \cup {d} /\ {d} \in SUBSET NextId
    BY OldestWithin
  <2> QED
    BY <1>1, <2>1, <2>2, StartOrigins DEF SendDirect
<1>2. ASSUME NEW w \in Worker, Claim(w) PROVE OriginInv'
  <2>1. << >> = [d \in {} |-> NewRow(Push, 0, 0, "none")]
    OBVIOUS
  <2>2. Oldest(Due) \subseteq Due \cup {} /\ {} \in SUBSET NextId
    BY OldestWithin
  <2> QED
    BY <1>2, <2>1, <2>2, StartOrigins DEF Claim
<1>3. ASSUME NEW w \in Worker, NEW d \in Delivery, Deliver(w, d) PROVE OriginInv'
  BY <1>3, MarkOrigins DEF Deliver
<1>4. ASSUME NEW w \in Worker, NEW d \in Delivery, Reschedule(w, d) PROVE OriginInv'
  BY <1>4, MarkOrigins DEF Reschedule, Fail
<1>5. ASSUME NEW w \in Worker, NEW d \in Delivery, GiveUp(w, d) PROVE OriginInv'
  <2>1. d \in worker[w].todo
    BY <1>5 DEF GiveUp
  <2>2. CASE Fail(w, d, Marked(w, d, "failed", worker[w].rows[d].tries + 1))
    BY <2>1, <2>2, MarkOrigins DEF Fail
  <2>3. CASE \E c, depth : \E n \in NextId :
               Fail(w, d, Put(Marked(w, d, "failed", worker[w].rows[d].tries + 1), n,
                              NewRow(c, d, depth, "none")))
    BY <2>1, <2>3, EscalateOrigins DEF Fail
  <2> QED
    BY <1>5, <2>2, <2>3 DEF GiveUp
<1>6. ASSUME NEW s \in Policy, SetPolicy(s) PROVE OriginInv'
  BY <1>6 DEF SetPolicy, OriginInv, EscalatedOnce, Unrelated, Jobs, Fanned, Origins
<1>7. CASE UNCHANGED drainVars
  BY <1>7 DEF drainVars, OriginInv, EscalatedOnce, Unrelated, Jobs, Fanned, Origins
<1> QED
  BY <1>1, <1>2, <1>3, <1>4, <1>5, <1>6, <1>7, EnqueueOrigins, RetryOrigins, DispatchOrigins,
     CommitOrigins, RollbackOrigins DEF DrainNext, Progress

LEMMA OriginInit == DrainInit => OriginInv
<1> SUFFICES ASSUME DrainInit PROVE OriginInv
  OBVIOUS
<1>1. /\ \A d \in Delivery : delivery[d] = NoRow
      /\ \A b \in Broadcast : broadcast[b] = "scheduled"
      /\ \A w \in Worker : worker[w] = Idle
  BY DEF DrainInit
<1>2. NoRow.from = 0 /\ NoRow.of = "none"
  BY DEF NoRow
<1>3. EscalatedOnce /\ Unrelated /\ Fanned
  BY <1>1, <1>2, DrainAssumption DEF EscalatedOnce, Unrelated, Fanned
<1>4. Jobs
  BY <1>1 DEF Jobs, Idle
<1>5. \A w \in Worker : Origins(worker[w])
  BY <1>1, IdleType DEF Origins, Idle
<1> QED
  BY <1>3, <1>4, <1>5 DEF OriginInv

LEMMA OriginInvariant == DrainSpec => []OriginInv
<1>1. DrainInv /\ OriginInv /\ [DrainNext]_drainVars => OriginInv'
  BY StepOrigins
<1> QED
  BY OriginInit, <1>1, DrainInvariant, PTL DEF DrainSpec

\* What a delivery failed on is escalated once, and only when it failed for
\* good: the row maybeEscalate inserts is committed with the mark it follows.
THEOREM EscalatedAtMostOnce == DrainSpec => []EscalatedOnce
<1>1. OriginInv => EscalatedOnce
  BY DEF OriginInv
<1> QED
  BY <1>1, OriginInvariant, PTL

\* A scheduled broadcast fans out once, and when it is marked sent it has:
\* runDueScheduledBroadcasts claims, inserts and finalizes in one transaction.
THEOREM BroadcastOnce == DrainSpec => []FannedOutOnce
<1>1. ASSUME DrainInv, OriginInv, NEW b \in Broadcast
      PROVE  Cardinality({d \in Delivery : delivery[d].of = b})
               = (IF broadcast[b] = "sent" THEN 1 ELSE 0)
  <2>1. CASE broadcast[b] = "sent"
    <3>1. PICK d \in Delivery : \A f \in Delivery : delivery[f].of = b <=> f = d
      BY <1>1, <2>1 DEF OriginInv, Fanned
    <3>2. {e \in Delivery : delivery[e].of = b} = {d}
      BY <3>1
    <3>3. Cardinality({d}) = 1
      BY FS_Singleton
    <3> QED
      BY <2>1, <3>2, <3>3
  <2>2. CASE broadcast[b] # "sent"
    <3>1. broadcast[b] = "scheduled"
      BY <1>1, <2>2 DEF DrainInv, TypeInv
    <3>2. {e \in Delivery : delivery[e].of = b} = {}
      BY <1>1, <3>1 DEF OriginInv, Fanned
    <3> QED
      BY <2>2, <3>2, FS_EmptySet
  <2> QED
    BY <2>1, <2>2
<1>2. DrainInv /\ OriginInv => FannedOutOnce
  BY <1>1 DEF FannedOutOnce
<1> QED
  BY <1>2, DrainInvariant, OriginInvariant, PTL
=============================================================================
