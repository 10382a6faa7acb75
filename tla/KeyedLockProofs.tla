-------------------------- MODULE KeyedLockProofs --------------------------
(* The keyed lock excludes, for any keys and any number of callers. *)
EXTENDS KeyedLock, TLAPS

(* The strengthening: the unsettled acquisitions of a key form one chain. *)

(* An acquisition waits for an unsettled one of its key, one for each. *)
AheadOK ==
    \A a \in Acquisitions : ahead[a] # None =>
        /\ a \in live /\ ahead[a] \in live /\ ahead[a].key = a.key
        /\ \A b \in Acquisitions : ahead[b] = ahead[a] => b = a

(* The map's tail is the end of the chain, and there is one while anybody is
   unsettled. *)
TailOK ==
    /\ \A k \in Keys : tail[k] # None =>
        /\ tail[k].key = k
        /\ \A a \in Acquisitions : ahead[a] # tail[k]
    /\ \A a \in live : tail[a.key] \in live

(* Nobody waits for himself through others: every set of unsettled
   acquisitions has one that waits for none of the set. *)
NoCycle == \A U \in SUBSET live : U # {} => \E u \in U : ahead[u] \notin U

LockInv == LockTypeOK /\ AheadOK /\ TailOK /\ NoCycle /\ KeyExclusive

LEMMA LockInitially ==
  ASSUME LockInit
  PROVE  LockInv
<1>. USE NoneAssumption DEF LockInit
<1>1. LockTypeOK
  BY DEF LockTypeOK
<1>2. AheadOK /\ TailOK /\ NoCycle /\ KeyExclusive
  BY DEF AheadOK, TailOK, NoCycle, KeyExclusive, Granted
<1>. QED
  BY <1>1, <1>2 DEF LockInv

LEMMA EnqueueStep ==
  ASSUME LockInv, NEW a \in Acquisitions, Enqueue(a)
  PROVE  LockInv'
<1>. USE NoneAssumption DEF LockInv, LockTypeOK, Enqueue
<1>0. a.key \in Keys
  BY DEF Acquisitions
<1>1. LockTypeOK'
  BY <1>0
<1>2. \A b \in Acquisitions : ahead'[b] = IF b = a THEN (IF tail[a.key] \in live THEN tail[a.key] ELSE None) ELSE ahead[b]
  OBVIOUS
<1>3. AheadOK'
  BY <1>0, <1>2 DEF AheadOK, TailOK
<1>4. TailOK'
  BY <1>0, <1>2 DEF AheadOK, TailOK, Acquisitions
<1>5. NoCycle'
  <2>. SUFFICES ASSUME NEW U \in SUBSET live', U # {}
                PROVE  \E u \in U : ahead'[u] \notin U
    BY DEF NoCycle
  <2>1. CASE U \subseteq {a}
    BY <1>0, <1>2, <2>1
  <2>2. CASE ~(U \subseteq {a})
    <3>1. PICK u \in U \ {a} : ahead[u] \notin U \ {a}
      BY <2>2 DEF NoCycle
    <3>2. ahead[u] # a /\ ahead'[u] = ahead[u]
      BY <1>2, <3>1 DEF AheadOK
    <3>. QED
      BY <3>1, <3>2
  <2>. QED
    BY <2>1, <2>2
<1>6. KeyExclusive'
  BY <1>0, <1>2 DEF KeyExclusive, Granted, TailOK
<1>. QED
  BY <1>1, <1>3, <1>4, <1>5, <1>6

LEMMA SettleStep ==
  ASSUME LockInv, NEW a \in Acquisitions, Settle(a)
  PROVE  LockInv'
<1>. USE NoneAssumption DEF LockInv, LockTypeOK, Settle
<1>1. LockTypeOK'
  OBVIOUS
<1>2. \A b \in Acquisitions : ahead'[b] = IF ahead[b] = a THEN None ELSE ahead[b]
  OBVIOUS
<1>3. AheadOK'
  BY <1>2 DEF AheadOK, Granted
<1>4. TailOK'
  <2>1. \A k \in Keys : tail[k] # None => tail[k].key = k /\ \A b \in Acquisitions : ahead'[b] # tail[k]
    BY <1>2 DEF TailOK
  <2>2. ASSUME NEW c \in live', tail[c.key] = a
        PROVE  FALSE
    <3>. DEFINE U == {b \in live : b.key = c.key} \ {a}
    <3>1. c \in U
      OBVIOUS
    <3>2. PICK u \in U : ahead[u] \notin U
      BY <3>1 DEF NoCycle
    <3>3. u.key = a.key
      BY <2>2 DEF TailOK, Acquisitions
    <3>4. ahead[u] # None
      BY <3>3 DEF KeyExclusive, Granted
    <3>5. ahead[u] = a
      BY <3>2, <3>4 DEF AheadOK
    <3>. QED
      BY <2>2, <3>5 DEF TailOK, Acquisitions
  <2>. QED
    BY <2>1, <2>2 DEF TailOK
<1>5. NoCycle'
  <2>. SUFFICES ASSUME NEW U \in SUBSET live', U # {}
                PROVE  \E u \in U : ahead'[u] \notin U
    BY DEF NoCycle
  <2>1. PICK u \in U : ahead[u] \notin U
    BY DEF NoCycle
  <2>. QED
    BY <1>2, <2>1
<1>6. KeyExclusive'
  BY <1>2 DEF KeyExclusive, Granted, AheadOK
<1>. QED
  BY <1>1, <1>3, <1>4, <1>5, <1>6

LEMMA CleanupStep ==
  ASSUME LockInv, NEW a \in Acquisitions, Cleanup(a)
  PROVE  LockInv'
<1>. USE NoneAssumption DEF LockInv, LockTypeOK, Cleanup
<1>0. a.key \in Keys
  BY DEF Acquisitions
<1>1. LockTypeOK'
  BY <1>0
<1>2. AheadOK' /\ NoCycle' /\ KeyExclusive'
  BY DEF AheadOK, NoCycle, KeyExclusive, Granted
<1>3. TailOK'
  BY <1>0 DEF TailOK, AheadOK, Acquisitions
<1>. QED
  BY <1>1, <1>2, <1>3

LEMMA LockStep ==
  ASSUME LockInv, [LockNext]_lockVars
  PROVE  LockInv'
<1>1. CASE LockNext
  BY <1>1, EnqueueStep, SettleStep, CleanupStep, Zenon DEF LockNext
<1>2. CASE UNCHANGED lockVars
  BY <1>2
  DEF lockVars, LockInv, LockTypeOK, AheadOK, TailOK, NoCycle, KeyExclusive, Granted
<1>. QED
  BY <1>1, <1>2

(* The chain of every key is kept whole by every call, in whatever order the
   promises settle and are cleaned up. *)
THEOREM LockInvariant == LockSpec => []LockInv
<1>1. LockInv /\ [LockNext]_lockVars => LockInv'
  BY LockStep
<1>. QED
  BY <1>1, LockInitially, PTL DEF LockSpec

(* No two tasks of one key run at once. *)
THEOREM LockExcludes == LockSpec => []KeyExclusive
<1>1. LockInv => KeyExclusive
  BY DEF LockInv
<1>. QED
  BY <1>1, LockInvariant, PTL
=============================================================================
