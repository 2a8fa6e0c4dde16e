----------------------- MODULE AsyncRecvListenerProofs ----------------------
(***************************************************************************)
(* The safety of async_recv_listener for any number of capture threads,    *)
(* listeners, packets and queue slots.                                     *)
(***************************************************************************)
EXTENDS AsyncRecvListener, SequenceTheorems, TLAPS

(* Taking the head of a queue and holding it in hand loses nothing. *)
LEMMA HeadInHand ==
  ASSUME NEW S, NEW s \in Seq(S), NEW q \in Seq(S), q # <<>>
  PROVE  (s \o <<>>) \o q = (s \o <<Head(q)>>) \o Tail(q)
<1>1. Head(q) \in S /\ Tail(q) \in Seq(S) /\ <<Head(q)>> \in Seq(S)
  BY HeadTailProperties
<1>2. q = <<Head(q)>> \o Tail(q)
  BY <1>1
<1>3. s \o <<>> = s
  BY ConcatEmptySeq
<1>4. (s \o <<Head(q)>>) \o Tail(q) = s \o (<<Head(q)>> \o Tail(q))
  BY <1>1, ConcatAssociative
<1> QED BY <1>2, <1>3, <1>4

(* Handing on what is in hand loses nothing. *)
LEMMA HandedOn ==
  ASSUME NEW S, NEW s \in Seq(S), NEW d \in S
  PROVE  s \o <<d>> = Append(s, d) \o <<>>
<1>1. Append(s, d) \in Seq(S) /\ Append(s, d) = s \o <<d>>
  BY AppendProperties, AppendIsConcat
<1> QED BY <1>1, ConcatEmptySeq

(* The parts of the invariant that do not mention the history. *)
LockInv == TypeOK /\ LocksMatchPcs /\ ReadsAreCurrent

(* Every step keeps the mutexes with the threads whose program counters    *)
(* say they hold them, and what was read under a mutex current.            *)
LEMMA LockStep ==
  ASSUME LockInv, [Next]_vars
  PROVE  LockInv'
<1> USE BuffSzAssumption, MaxCallsAssumption, ThreadAssumption
    DEF LockInv, TypeOK, LocksMatchPcs, ReadsAreCurrent, Holding, WorkerPcs,
        fields, producer, worker, history
<1>1. ASSUME NEW l \in Listeners \cup {Nullptr}, set_recv_listener(l)
      PROVE  LockInv'
  BY <1>1 DEF set_recv_listener, vars
<1>2. CASE remove_listener
  BY <1>2 DEF remove_listener
<1>3. ASSUME NEW p \in Producers, handle_recv(p)
      PROVE  LockInv'
  BY <1>3 DEF handle_recv, Data
<1>4. ASSUME NEW p \in Producers, handle_recv_lock(p)
      PROVE  LockInv'
  BY <1>4 DEF handle_recv_lock
<1>5. ASSUME NEW p \in Producers, handle_recv_full(p)
      PROVE  LockInv'
  BY <1>5 DEF handle_recv_full
<1>6. ASSUME NEW p \in Producers, handle_recv_push(p)
      PROVE  LockInv'
  BY <1>6 DEF handle_recv_push
<1>7. ASSUME NEW p \in Producers, handle_recv_notify(p)
      PROVE  LockInv'
  BY <1>7 DEF handle_recv_notify
<1>8. CASE worker_loop
  BY <1>8 DEF worker_loop, GoTo
<1>9. CASE worker_lock_awake
  BY <1>9 DEF worker_lock_awake, GoTo
<1>10. CASE worker_test_stop
  BY <1>10 DEF worker_test_stop, GoTo
<1>11. CASE worker_test_queue
  BY <1>11 DEF worker_test_queue, GoTo
<1>12. CASE worker_sleep
  BY <1>12 DEF worker_sleep, GoTo
<1>13. CASE worker_spurious_wakeup
  BY <1>13 DEF worker_spurious_wakeup, GoTo
<1>14. CASE worker_check_stop
  BY <1>14 DEF worker_check_stop, GoTo
<1>15. CASE worker_lock_buff
  BY <1>15 DEF worker_lock_buff, GoTo
<1>16. CASE worker_take
  <2>1. CASE wqueue = <<>>
    BY <1>16, <2>1 DEF worker_take, GoTo, Iterate
  <2>2. CASE wqueue # <<>>
    <3>1. /\ Head(wqueue) \in Data /\ Tail(wqueue) \in Seq(Data)
          /\ Len(Tail(wqueue)) = Len(wqueue) - 1
      BY <2>2, HeadTailProperties
    <3>2. /\ wdata' = Head(wqueue) /\ queue' = Tail(wqueue)
          /\ taken' = taken + 1 /\ wpc' = "lockListener"
          /\ UNCHANGED <<listener, listener_mtx, buff_mtx, awake_mtx,
                         stop_flag, producer, dpc, wqueue, wlistener, calls,
                         accepted, forwarded, takenAtStop>>
      BY <1>16, <2>2 DEF worker_take, GoTo
    <3>3. Len(queue') <= BUFF_SZ /\ queue' \in Seq(Data)
      BY <1>16, <3>1, <3>2 DEF worker_take
    <3>4. TypeOK'
      BY <1>16, <3>1, <3>2, <3>3 DEF worker_take
    <3>5. LocksMatchPcs' /\ ReadsAreCurrent'
      BY <1>16, <3>1, <3>2 DEF worker_take
    <3> QED BY <3>4, <3>5
  <2> QED BY <2>1, <2>2
<1>17. CASE worker_no_listener
  BY <1>17 DEF worker_no_listener, GoTo, Iterate
<1>18. CASE worker_call
  BY <1>18 DEF worker_call, GoTo
<1>19. CASE worker_return
  BY <1>19 DEF worker_return, GoTo, Iterate
<1>20. CASE dtor_stop
  BY <1>20 DEF dtor_stop
<1>21. CASE dtor_notify_all
  BY <1>21 DEF dtor_notify_all
<1>22. CASE UNCHANGED vars
  BY <1>22 DEF vars
<1> QED
  BY <1>1, <1>2, <1>3, <1>4, <1>5, <1>6, <1>7, <1>8, <1>9, <1>10, <1>11,
     <1>12, <1>13, <1>14, <1>15, <1>16, <1>17, <1>18, <1>19, <1>20, <1>21,
     <1>22 DEF Next, HandleRecv, WorkerStep

(* Every step keeps the invariant. *)
LEMMA InvStep ==
  ASSUME Inv, [Next]_vars
  PROVE  Inv'
<1>0. LockInv /\ LockInv'
  BY LockStep DEF Inv, LockInv
<1>1. TypeOK /\ LocksMatchPcs /\ ReadsAreCurrent
  BY DEF Inv
<1> DEFINE Rest ==
      /\ CalledListenerIsCurrent
      /\ wpc \in {"lockBuff", "take"} \/ (wpc = "checkStop" /\ ~stop_flag)
           => queue # <<>>
      /\ stop_flag <=> dpc # "alive"
      /\ stop_flag => taken <= takenAtStop +
                               (IF wpc \in {"lockBuff", "take"} THEN 0 ELSE 1)
<1>2. NothingLostOrReordered'
  <2> USE DEF NothingLostOrReordered, InHand, fields, producer, worker, history
  <2>1. accepted = (forwarded \o InHand) \o queue
    BY DEF Inv
  <2>2. /\ accepted \in Seq(Data) /\ forwarded \in Seq(Data)
        /\ queue \in Seq(Data)
    BY <1>1 DEF TypeOK
  <2>3. InHand \in Seq(Data) /\ forwarded \o InHand \in Seq(Data)
    <3>1. InHand \in Seq(Data)
      BY <1>1 DEF ReadsAreCurrent
    <3> QED BY <2>2, <3>1, ConcatProperties
  <2>4. ASSUME NEW p \in Producers, handle_recv_push(p)
        PROVE  NothingLostOrReordered'
    <3>1. pqueue[p] = queue /\ pdata[p] \in Data
      BY <1>1, <2>4 DEF ReadsAreCurrent, handle_recv_push
    <3>2. /\ queue' = Append(queue, pdata[p])
          /\ accepted' = Append(accepted, pdata[p])
          /\ UNCHANGED <<forwarded, InHand>>
      BY <2>4, <3>1 DEF handle_recv_push
    <3>3. /\ Append(accepted, pdata[p]) = accepted \o <<pdata[p]>>
          /\ Append(queue, pdata[p]) = queue \o <<pdata[p]>>
      BY <2>2, <3>1, AppendIsConcat
    <3>4. <<pdata[p]>> \in Seq(Data)
      BY <3>1
    <3> HIDE DEF InHand
    <3>5. PICK done \in Seq(Data) : done = forwarded \o InHand
      BY <2>3
    <3>6. accepted = done \o queue
      BY <2>1, <3>5
    <3>7. PICK new \in Seq(Data) : new = <<pdata[p]>>
      BY <3>4
    <3>8. (done \o queue) \o new = done \o (queue \o new)
      BY <2>2, ConcatAssociative
    <3>9. accepted' = done \o queue'
      BY <3>2, <3>3, <3>6, <3>7, <3>8
    <3>10. forwarded' = forwarded /\ InHand' = InHand
      BY <3>2
    <3> QED BY <3>5, <3>9, <3>10
  <2>5. CASE worker_take
    <3>1. wqueue = queue
      BY <1>1, <2>5 DEF worker_take, ReadsAreCurrent
    <3>2. CASE wqueue = <<>>
      BY <2>1, <2>5, <3>2 DEF worker_take, Iterate, GoTo
    <3>3. CASE wqueue # <<>>
      <4>1. /\ queue' = Tail(queue) /\ wdata' = Head(queue)
            /\ InHand = <<>> /\ InHand' = <<wdata'>>
            /\ UNCHANGED <<accepted, forwarded>>
        BY <2>5, <3>1, <3>3 DEF worker_take, GoTo
      <4>2. (forwarded \o <<>>) \o queue
              = (forwarded \o <<Head(queue)>>) \o Tail(queue)
        BY <2>2, <3>1, <3>3, HeadInHand
      <4> HIDE DEF InHand
      <4> QED BY <2>1, <4>1, <4>2
    <3> QED BY <3>2, <3>3
  <2>6. CASE worker_no_listener \/ worker_call
    <3>1. /\ forwarded' = Append(forwarded, wdata) /\ wdata \in Data
          /\ InHand = <<wdata>> /\ InHand' = <<>>
          /\ UNCHANGED <<accepted, queue>>
      BY <1>1, <2>6
         DEF worker_no_listener, worker_call, Iterate, GoTo, ReadsAreCurrent
    <3>2. forwarded \o <<wdata>> = Append(forwarded, wdata) \o <<>>
      BY <2>2, <3>1, HandedOn
    <3> HIDE DEF InHand
    <3> QED BY <2>1, <3>1, <3>2
  <2>7. CASE UNCHANGED <<accepted, forwarded, queue, InHand>>
    <3> HIDE DEF InHand
    <3> QED BY <2>1, <2>7
  <2>8. \/ \E p \in Producers : handle_recv_push(p)
        \/ worker_take \/ worker_no_listener \/ worker_call
        \/ UNCHANGED <<accepted, forwarded, queue, InHand>>
    BY DEF Next, HandleRecv, WorkerStep, vars, set_recv_listener,
       remove_listener, handle_recv, handle_recv_lock, handle_recv_full,
       handle_recv_notify, worker_loop, worker_lock_awake, worker_test_stop,
       worker_test_queue, worker_sleep, worker_spurious_wakeup,
       worker_check_stop, worker_lock_buff, worker_return, dtor_stop,
       dtor_notify_all, GoTo, Iterate
  <2> QED BY <2>4, <2>5, <2>6, <2>7, <2>8
<1>3. Rest'
  <2> USE <1>1 DEF CalledListenerIsCurrent, fields, producer, worker, history
  <2>0. Rest
    BY DEF Inv
  <2>1. ASSUME NEW l \in Listeners \cup {Nullptr}, set_recv_listener(l)
        PROVE  Rest'
    BY <2>0, <2>1, ThreadAssumption DEF set_recv_listener, vars, LocksMatchPcs
  <2>2. CASE remove_listener
    BY <2>0, <2>2, ThreadAssumption DEF remove_listener, LocksMatchPcs
  <2>3. ASSUME NEW p \in Producers,
               \/ handle_recv(p) \/ handle_recv_lock(p)
               \/ handle_recv_full(p) \/ handle_recv_notify(p)
        PROVE  Rest'
    BY <2>0, <2>3 DEF handle_recv, handle_recv_lock, handle_recv_full,
                      handle_recv_notify
  <2>4. ASSUME NEW p \in Producers, handle_recv_push(p)
        PROVE  Rest'
    <3>1. queue' # <<>>
      BY <2>4, AppendProperties DEF handle_recv_push, TypeOK, ReadsAreCurrent
    <3> QED BY <2>0, <2>4, <3>1 DEF handle_recv_push
  <2>5. CASE worker_take
    <3>1. wqueue = queue /\ queue # <<>> /\ taken \in Nat /\ takenAtStop \in Nat
      BY <2>0, <2>5 DEF worker_take, ReadsAreCurrent, TypeOK
    <3> QED BY <2>0, <2>5, <3>1 DEF worker_take, GoTo
  <2>6. CASE worker_no_listener \/ worker_call \/ worker_return
    BY <2>0, <2>6 DEF worker_no_listener, worker_call, worker_return, Iterate,
                      GoTo
  <2>7. CASE worker_loop \/ worker_lock_awake \/ worker_test_stop
               \/ worker_sleep \/ worker_spurious_wakeup
    BY <2>0, <2>7 DEF worker_loop, worker_lock_awake, worker_test_stop,
                      worker_sleep, worker_spurious_wakeup, GoTo
  <2>8. CASE worker_test_queue
    BY <2>0, <2>8 DEF worker_test_queue, GoTo
  <2>9. CASE worker_check_stop \/ worker_lock_buff
    BY <2>0, <2>9 DEF worker_check_stop, worker_lock_buff, GoTo
  <2>10. CASE dtor_stop
    BY <2>0, <2>10 DEF dtor_stop, TypeOK
  <2>11. CASE dtor_notify_all
    BY <2>0, <2>11 DEF dtor_notify_all
  <2>12. CASE UNCHANGED vars
    BY <2>0, <2>12 DEF vars
  <2> QED
    BY <2>1, <2>2, <2>3, <2>4, <2>5, <2>6, <2>7, <2>8, <2>9, <2>10, <2>11,
       <2>12 DEF Next, HandleRecv, WorkerStep
<1> QED BY <1>0, <1>2, <1>3 DEF Inv, LockInv

(* The invariant holds in every state: the locks are held where the code   *)
(* says, and what a thread read under a lock is what is there.             *)
THEOREM Invariance == Spec => []Inv
<1>1. Init => Inv
  <2> SUFFICES ASSUME Init PROVE Inv
    OBVIOUS
  <2>1. TypeOK
    <3>1. <<>> \in Seq(Data) /\ Len(<<>>) <= BUFF_SZ
      BY BuffSzAssumption
    <3>2. /\ ppc \in [Producers -> {"idle", "lock", "push", "notify"}]
          /\ pdata \in [Producers -> Data \cup {0}]
          /\ pqueue \in [Producers -> Seq(Data)]
      BY <3>1 DEF Init
    <3>3. calls \in 0 .. MaxCalls /\ taken \in Nat /\ takenAtStop \in Nat
      BY MaxCallsAssumption DEF Init
    <3>4. queue \in Seq(Data) /\ Len(queue) <= BUFF_SZ
            /\ wqueue \in Seq(Data) /\ accepted \in Seq(Data)
            /\ forwarded \in Seq(Data)
      BY <3>1 DEF Init
    <3> QED BY <3>2, <3>3, <3>4 DEF Init, TypeOK, WorkerPcs
  <2>2. LocksMatchPcs
    BY ThreadAssumption DEF Init, LocksMatchPcs, Holding
  <2>3. (<<>> \o <<>>) \o <<>> = <<>>
    BY ConcatEmptySeq
  <2> QED BY <2>1, <2>2, <2>3
          DEF Init, Inv, ReadsAreCurrent, NothingLostOrReordered, InHand,
              CalledListenerIsCurrent
<1>2. Inv /\ [Next]_vars => Inv'
  BY InvStep
<1> QED BY <1>1, <1>2, PTL DEF Spec

(* Every field and every local of the threads stays in its type; the queue *)
(* never holds more than BUFF_SZ packets.                                  *)
THEOREM TypeCorrect == Spec => []TypeOK
<1>1. Inv => TypeOK
  BY DEF Inv
<1> QED BY <1>1, Invariance, PTL

(* What handle_recv accepted is what the worker is done with, holds and    *)
(* has still to take, in order, for any number of capture threads.         *)
THEOREM NoLoss == Spec => []NothingLostOrReordered
<1>1. Inv => NothingLostOrReordered
  BY DEF Inv
<1> QED BY <1>1, Invariance, PTL

(* A listener that set_recv_listener or remove_listener has replaced is    *)
(* not being called.                                                       *)
THEOREM NoStaleCall == Spec => []CalledListenerIsCurrent
<1>1. Inv => CalledListenerIsCurrent
  BY DEF Inv
<1> QED BY <1>1, Invariance, PTL

(* The worker never goes to an empty queue after the wait. *)
THEOREM WokenWithData == Spec => []WokenForData
<1>1. Inv => WokenForData
  BY DEF Inv, WokenForData
<1> QED BY <1>1, Invariance, PTL

(* After the destructor set stop_flag at most one packet is taken. *)
THEOREM StopBound == Spec => []AtMostOneAfterStop
<1>1. Inv => AtMostOneAfterStop
  BY DEF Inv, AtMostOneAfterStop, TypeOK
<1> QED BY <1>1, Invariance, PTL
=============================================================================
