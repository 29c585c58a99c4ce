-------------------------- MODULE RedisQueueProofs --------------------------
(***************************************************************************)
(* What each Redis command makes of the deliveries that are waiting or in  *)
(* flight: only LREM takes one away, and no more than the one it names.    *)
(***************************************************************************)
EXTENDS RedisQueue, SequenceLemmas

\* The deliveries a worker of this or a later run of the gateway will see.
Outstanding == UNION {ToSet(pending[q]) \union ToSet(processing[q]) : q \in Modality}

\* An outstanding delivery is in some queue's pending or processing list.
LEMMA OutstandingMember ==
    ASSUME NEW d
    PROVE  d \in Outstanding <=>
             \E q \in Modality : d \in ToSet(pending[q]) \/ d \in ToSet(processing[q])
BY DEF Outstanding

\* Whatever is outstanding is a delivery.
LEMMA OutstandingType ==
    ASSUME QueueTypeOK, NEW d \in Outstanding
    PROVE  d \in Delivery
BY ToSetSubset DEF Outstanding, QueueTypeOK

\* RPUSH adds its delivery.
LEMMA RPushAdds ==
    ASSUME QueueTypeOK, NEW q \in Modality, NEW d \in Delivery, RPush(q, d)
    PROVE  QueueTypeOK' /\ Outstanding' = Outstanding \union {d}
<1>1. /\ Append(pending[q], d) \in Seq(Delivery)
      /\ ToSet(Append(pending[q], d)) = ToSet(pending[q]) \union {d}
  BY AppendToSet DEF QueueTypeOK
<1>2. /\ pending' = [pending EXCEPT ![q] = Append(pending[q], d)]
      /\ processing' = processing
      /\ failed' = failed
  BY DEF RPush
<1>3. QueueTypeOK'
  BY <1>1, <1>2 DEF QueueTypeOK
<1>4. \A p \in Modality : ToSet(pending'[p]) =
          IF p = q THEN ToSet(pending[q]) \union {d} ELSE ToSet(pending[p])
  BY <1>1, <1>2 DEF QueueTypeOK
<1>5. Outstanding' = Outstanding \union {d}
  BY <1>2, <1>4 DEF Outstanding
<1> QED
  BY <1>3, <1>5

\* BLMOVE hands over an outstanding delivery, and it stays outstanding.
LEMMA BLMoveKeeps ==
    ASSUME QueueTypeOK, NEW q \in Modality, BLMove(q)
    PROVE  /\ QueueTypeOK'
           /\ Outstanding' = Outstanding
           /\ Head(pending[q]) \in Delivery
<1> DEFINE h == Head(pending[q])
           t == Tail(pending[q])
<1>1. /\ h \in Delivery
      /\ t \in Seq(Delivery)
      /\ ToSet(pending[q]) = {h} \union ToSet(t)
  BY HeadTailToSet DEF QueueTypeOK, BLMove
<1>2. /\ Append(processing[q], h) \in Seq(Delivery)
      /\ ToSet(Append(processing[q], h)) = ToSet(processing[q]) \union {h}
  BY <1>1, AppendToSet DEF QueueTypeOK
<1>3. /\ pending' = [pending EXCEPT ![q] = t]
      /\ processing' = [processing EXCEPT ![q] = Append(processing[q], h)]
      /\ failed' = failed
  BY DEF BLMove
<1> HIDE DEF h, t
<1>4. QueueTypeOK'
  BY <1>1, <1>2, <1>3 DEF QueueTypeOK
<1>5. \A p \in Modality :
        ToSet(pending'[p]) \union ToSet(processing'[p])
          = ToSet(pending[p]) \union ToSet(processing[p])
  <2> SUFFICES ASSUME NEW p \in Modality
               PROVE  ToSet(pending'[p]) \union ToSet(processing'[p])
                        = ToSet(pending[p]) \union ToSet(processing[p])
    OBVIOUS
  <2>1. CASE p = q
    <3>1. pending'[q] = t /\ processing'[q] = Append(processing[q], h)
      BY <1>3 DEF QueueTypeOK
    <3> QED
      BY <2>1, <3>1, <1>1, <1>2
  <2>2. CASE p # q
    BY <2>2, <1>3 DEF QueueTypeOK
  <2> QED
    BY <2>1, <2>2
<1>6. Outstanding' = Outstanding
  BY <1>5 DEF Outstanding
<1> QED
  BY <1>1, <1>4, <1>6 DEF h

\* LREM takes away at most the delivery it names.
LEMMA LRemTakesOne ==
    ASSUME QueueTypeOK, NEW q \in Modality, NEW d, LRem(q, d)
    PROVE  /\ QueueTypeOK'
           /\ Outstanding' \subseteq Outstanding
           /\ Outstanding \ {d} \subseteq Outstanding'
<1> DEFINE r == RemoveFirst(processing[q], d)
<1>1. /\ r \in Seq(Delivery)
      /\ ToSet(r) \subseteq ToSet(processing[q])
      /\ ToSet(processing[q]) \ {d} \subseteq ToSet(r)
  BY RemoveFirstToSet DEF QueueTypeOK
<1>2. /\ processing' = [processing EXCEPT ![q] = r]
      /\ pending' = pending
      /\ failed' = failed
  BY DEF LRem
<1> HIDE DEF r
<1>3. QueueTypeOK'
  BY <1>1, <1>2 DEF QueueTypeOK
<1>4. \A p \in Modality :
        /\ ToSet(processing'[p]) \subseteq ToSet(processing[p])
        /\ ToSet(processing[p]) \ {d} \subseteq ToSet(processing'[p])
  BY <1>1, <1>2 DEF QueueTypeOK
<1>5. Outstanding' \subseteq Outstanding
  BY <1>2, <1>4 DEF Outstanding
<1>6. Outstanding \ {d} \subseteq Outstanding'
  <2> SUFFICES ASSUME NEW e \in Outstanding, e # d
               PROVE  e \in Outstanding'
    OBVIOUS
  <2>1. PICK p \in Modality : e \in ToSet(pending[p]) \/ e \in ToSet(processing[p])
    BY OutstandingMember
  <2>2. e \in ToSet(pending'[p]) \/ e \in ToSet(processing'[p])
    BY <2>1, <1>2, <1>4
  <2> QED
    BY <2>2 DEF Outstanding
<1> QED
  BY <1>3, <1>5, <1>6

\* Recording a delivery in the dead-letter list leaves the other two alone.
LEMMA RPushFailedKeeps ==
    ASSUME QueueTypeOK, NEW q \in Modality, NEW d \in Delivery, RPushFailed(q, d)
    PROVE  QueueTypeOK' /\ Outstanding' = Outstanding
<1>1. Append(failed[q], d) \in Seq(Delivery)
  BY AppendToSet DEF QueueTypeOK
<1> QED
  BY <1>1 DEF QueueTypeOK, RPushFailed, Outstanding

\* RecoverStale loses nothing, wherever it stops.
LEMMA RecoverStaleKeeps ==
    ASSUME QueueTypeOK, NEW moved,
           \A q \in Modality : moved[q] \in 0 .. Len(processing[q]),
           RecoverStale(moved)
    PROVE  QueueTypeOK' /\ Outstanding' = Outstanding
<1>1. \A q \in Modality :
        /\ RecoveredPending(q, moved[q]) \in Seq(Delivery)
        /\ RecoveredProcessing(q, moved[q]) \in Seq(Delivery)
        /\ ToSet(RecoveredPending(q, moved[q])) \union ToSet(RecoveredProcessing(q, moved[q]))
             = ToSet(processing[q]) \union ToSet(pending[q])
  BY RecoverToSet DEF QueueTypeOK, RecoveredPending, RecoveredProcessing
<1>2. /\ pending' = [q \in Modality |-> RecoveredPending(q, moved[q])]
      /\ processing' = [q \in Modality |-> RecoveredProcessing(q, moved[q])]
      /\ failed' = failed
  BY DEF RecoverStale
<1>3. QueueTypeOK'
  BY <1>1, <1>2 DEF QueueTypeOK
<1>4. \A q \in Modality :
        ToSet(pending'[q]) \union ToSet(processing'[q])
          = ToSet(pending[q]) \union ToSet(processing[q])
  BY <1>1, <1>2
<1>5. Outstanding' = Outstanding
  BY <1>4 DEF Outstanding
<1> QED
  BY <1>3, <1>5

----------------------------------------------------------------------------
(* Queues in which nothing is delivered twice.                             *)

\* Every outstanding delivery is in one list, once.
Single ==
    /\ \A q \in Modality : IsInjective(pending[q]) /\ IsInjective(processing[q])
    /\ \A p, q \in Modality :
          /\ ToSet(pending[p]) \intersect ToSet(processing[q]) = {}
          /\ p # q => /\ ToSet(pending[p]) \intersect ToSet(pending[q]) = {}
                      /\ ToSet(processing[p]) \intersect ToSet(processing[q]) = {}

\* RPUSH of a delivery that is not outstanding.
LEMMA RPushSingle ==
    ASSUME QueueTypeOK, Single, NEW q \in Modality, NEW d \in Delivery, d \notin Outstanding,
           RPush(q, d)
    PROVE  Single'
<1>1. /\ IsInjective(Append(pending[q], d))
      /\ ToSet(Append(pending[q], d)) = ToSet(pending[q]) \union {d}
  <2>1. pending[q] \in Seq(Delivery) /\ IsInjective(pending[q]) /\ d \notin ToSet(pending[q])
    BY DEF QueueTypeOK, Single, Outstanding
  <2>2. IsInjective(Append(pending[q], d))
    BY <2>1, InjectiveAppend
  <2>3. ToSet(Append(pending[q], d)) = ToSet(pending[q]) \union {d}
    BY <2>1, AppendToSet
  <2> QED
    BY <2>2, <2>3
<1>2. /\ pending'[q] = Append(pending[q], d)
      /\ \A p \in Modality : p # q => pending'[p] = pending[p]
      /\ processing' = processing
  BY DEF RPush, QueueTypeOK
<1>3. \A p \in Modality : d \notin ToSet(pending[p]) /\ d \notin ToSet(processing[p])
  BY DEF Outstanding
<1>4. \A p \in Modality :
         /\ IsInjective(pending'[p])
         /\ ToSet(pending'[p]) = ToSet(pending[p]) \union (IF p = q THEN {d} ELSE {})
  BY <1>1, <1>2 DEF Single
<1>5. \A p \in Modality : /\ ToSet(pending[p]) \subseteq ToSet(pending'[p])
                          /\ ToSet(pending'[p]) \subseteq ToSet(pending[p]) \union {d}
                          /\ p # q => ToSet(pending'[p]) = ToSet(pending[p])
  BY <1>4
<1>6. \A p, k \in Modality :
         /\ ToSet(pending'[p]) \intersect ToSet(processing'[k]) = {}
         /\ p # k => /\ ToSet(pending'[p]) \intersect ToSet(pending'[k]) = {}
                     /\ ToSet(processing'[p]) \intersect ToSet(processing'[k]) = {}
  <2> SUFFICES ASSUME NEW p \in Modality, NEW k \in Modality
               PROVE  /\ ToSet(pending'[p]) \intersect ToSet(processing'[k]) = {}
                      /\ p # k =>
                            /\ ToSet(pending'[p]) \intersect ToSet(pending'[k]) = {}
                            /\ ToSet(processing'[p]) \intersect ToSet(processing'[k]) = {}
    OBVIOUS
  <2>1. /\ d \notin ToSet(processing[k]) /\ d \notin ToSet(pending[p]) /\ d \notin ToSet(pending[k])
        /\ ToSet(pending'[p]) \subseteq ToSet(pending[p]) \union {d}
        /\ p # q => ToSet(pending'[p]) = ToSet(pending[p])
        /\ k # q => ToSet(pending'[k]) = ToSet(pending[k])
        /\ ToSet(pending'[k]) \subseteq ToSet(pending[k]) \union {d}
    BY <1>3, <1>5
  <2>2. ToSet(pending[p]) \intersect ToSet(processing[k]) = {}
    BY DEF Single
  <2>3. p # k => /\ ToSet(pending[p]) \intersect ToSet(pending[k]) = {}
                 /\ ToSet(processing[p]) \intersect ToSet(processing[k]) = {}
    BY DEF Single
  <2>4. ToSet(pending'[p]) \intersect ToSet(processing[k]) = {}
    BY <2>1, <2>2
  <2>5. p # k => ToSet(pending'[p]) \intersect ToSet(pending'[k]) = {}
    BY <2>1, <2>3
  <2> QED
    BY <1>2, <2>3, <2>4, <2>5
<1>7. \A p \in Modality : IsInjective(pending'[p]) /\ IsInjective(processing'[p])
  BY <1>2, <1>4 DEF Single
<1> QED
  BY <1>6, <1>7 DEF Single

\* BLMOVE takes the delivery it hands over off the pending list for good.
LEMMA BLMoveSingle ==
    ASSUME QueueTypeOK, Single, NEW q \in Modality, BLMove(q)
    PROVE  Single'
<1> DEFINE h == Head(pending[q])
           t == Tail(pending[q])
           a == Append(processing[q], h)
<1>1. /\ h \in Delivery
      /\ IsInjective(t)
      /\ h \notin ToSet(t)
      /\ ToSet(pending[q]) = {h} \union ToSet(t)
  BY HeadTailToSet, InjectiveTail DEF QueueTypeOK, BLMove, Single
<1>2. pending[q] \in Seq(Delivery) /\ processing[q] \in Seq(Delivery)
  BY DEF QueueTypeOK
<1>3. h \notin ToSet(processing[q])
  BY <1>1 DEF Single
<1> HIDE DEF h, t
<1>4. /\ IsInjective(a)
      /\ ToSet(a) = ToSet(processing[q]) \union {h}
  BY <1>1, <1>2, <1>3, InjectiveAppend, AppendToSet DEF Single
<1> HIDE DEF a
<1>5. /\ pending'[q] = t /\ processing'[q] = a
      /\ \A p \in Modality : p # q => pending'[p] = pending[p] /\ processing'[p] = processing[p]
  BY DEF BLMove, QueueTypeOK, h, t, a
<1>6. \A p \in Modality :
         /\ IsInjective(pending'[p]) /\ IsInjective(processing'[p])
         /\ ToSet(pending'[p]) = ToSet(pending[p]) \ (IF p = q THEN {h} ELSE {})
         /\ ToSet(processing'[p]) = ToSet(processing[p]) \union (IF p = q THEN {h} ELSE {})
  <2> SUFFICES ASSUME NEW p \in Modality
               PROVE  /\ IsInjective(pending'[p]) /\ IsInjective(processing'[p])
                      /\ ToSet(pending'[p]) = ToSet(pending[p]) \ (IF p = q THEN {h} ELSE {})
                      /\ ToSet(processing'[p])
                           = ToSet(processing[p]) \union (IF p = q THEN {h} ELSE {})
    OBVIOUS
  <2>1. CASE p = q
    BY <2>1, <1>1, <1>4, <1>5
  <2>2. CASE p # q
    BY <2>2, <1>5 DEF Single
  <2> QED
    BY <2>1, <2>2
<1>7. h \in ToSet(pending[q])
  BY <1>1
<1>8. ASSUME NEW p \in Modality, NEW r \in Modality
      PROVE  ToSet(pending'[p]) \intersect ToSet(processing'[r]) = {}
  <2>1. ToSet(pending[p]) \intersect ToSet(processing[r]) = {}
    BY DEF Single
  <2>2. h \notin ToSet(pending'[p])
    <3>1. p # q => h \notin ToSet(pending[p])
      BY <1>7 DEF Single
    <3> QED
      BY <1>6, <3>1
  <2> QED
    BY <1>6, <2>1, <2>2
<1>9. ASSUME NEW p \in Modality, NEW r \in Modality, p # r
      PROVE  /\ ToSet(pending'[p]) \intersect ToSet(pending'[r]) = {}
             /\ ToSet(processing'[p]) \intersect ToSet(processing'[r]) = {}
  <2>1. /\ ToSet(pending[p]) \intersect ToSet(pending[r]) = {}
        /\ ToSet(processing[p]) \intersect ToSet(processing[r]) = {}
    BY <1>9 DEF Single
  <2>2. h \notin ToSet(processing[p]) /\ h \notin ToSet(processing[r])
    BY <1>7 DEF Single
  <2> QED
    BY <1>6, <1>9, <2>1, <2>2
<1> QED
  BY <1>6, <1>8, <1>9 DEF Single

\* LREM takes the delivery it names out of the queues.
LEMMA LRemSingle ==
    ASSUME QueueTypeOK, Single, NEW q \in Modality, NEW d \in ToSet(processing[q]), LRem(q, d)
    PROVE  Single' /\ Outstanding' = Outstanding \ {d}
<1> DEFINE r == RemoveFirst(processing[q], d)
<1>1. /\ IsInjective(r)
      /\ d \notin ToSet(r)
      /\ ToSet(r) \subseteq ToSet(processing[q])
  BY RemoveFirstToSet, InjectiveRemoveFirst DEF QueueTypeOK, Single
<1> HIDE DEF r
<1>2. /\ pending' = pending /\ processing'[q] = r
      /\ \A p \in Modality : p # q => processing'[p] = processing[p]
  BY DEF LRem, QueueTypeOK, r
<1>3. \A p \in Modality : /\ IsInjective(processing'[p])
                          /\ ToSet(processing'[p]) \subseteq ToSet(processing[p])
                          /\ d \notin ToSet(processing'[p])
  BY <1>1, <1>2 DEF Single
<1>4. Single'
  BY <1>2, <1>3 DEF Single
<1>5. d \notin Outstanding'
  BY <1>2, <1>3 DEF Single, Outstanding
<1> QED
  BY <1>4, <1>5, LRemTakesOne

\* RecoverStale, when nothing stops it, empties the processing lists.
LEMMA RecoverSingle ==
    ASSUME QueueTypeOK, Single, RecoverStale([q \in Modality |-> Len(processing[q])])
    PROVE  Single'
<1>1. ASSUME NEW q \in Modality
      PROVE  /\ processing'[q] = <<>>
             /\ IsInjective(pending'[q])
             /\ ToSet(pending'[q]) = ToSet(pending[q]) \union ToSet(processing[q])
  <2> DEFINE n == Len(processing[q])
  <2>1. /\ pending'[q] = Reverse(SubSeq(processing[q], 1, n)) \o pending[q]
        /\ processing'[q] = SubSeq(processing[q], n + 1, n)
    BY DEF RecoverStale, RecoveredPending, RecoveredProcessing
  <2>2. /\ processing[q] \in Seq(Delivery) /\ pending[q] \in Seq(Delivery)
        /\ IsInjective(processing[q]) /\ IsInjective(pending[q])
        /\ ToSet(processing[q]) \intersect ToSet(pending[q]) = {}
    BY DEF QueueTypeOK, Single
  <2>3. /\ IsInjective(pending'[q])
        /\ processing'[q] = <<>>
    BY <2>1, <2>2, InjectiveRecover
  <2>4. n \in Nat /\ n \in 0 .. n
    BY <2>2, LenProperties
  <2>5. ToSet(pending'[q]) \union ToSet(processing'[q])
          = ToSet(processing[q]) \union ToSet(pending[q])
    BY <2>1, <2>2, <2>4, RecoverToSet
  <2>6. ToSet(<<>>) = {}
    BY DEF ToSet
  <2> QED
    BY <2>3, <2>5, <2>6
<1>2. IsInjective(<<>>) /\ ToSet(<<>>) = {}
  BY DEF IsInjective, ToSet
<1> QED
  BY <1>1, <1>2 DEF Single
=============================================================================
