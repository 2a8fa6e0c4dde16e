-------------------------- MODULE AsyncRecvListener -------------------------
(***************************************************************************)
(* src/abstract/receiving/async_recv_listener.h: capture threads put       *)
(* packets in a bounded queue, a worker thread takes them out and calls    *)
(* the listener.  linux_iface and macos_iface own one each.                *)
(*                                                                         *)
(* A step is what a thread does between two points where another thread    *)
(* can see or change what it works on.  A critical section on the queue is *)
(* a step that takes buff_mtx and reads the queue and a later one that     *)
(* writes it (circular_queue loads and stores base_in and count); the      *)
(* queue is the sequence that CircularQueue's refinement justifies.        *)
(***************************************************************************)
EXTENDS Integers, Sequences

CONSTANTS
  Producers,  \* threads that call handle_recv: the capture threads
  Listeners,  \* the receivers set_recv_listener is called with
  Nullptr,    \* no listener
  Worker,     \* the thread the constructor starts
  Free,       \* the owner of a mutex nobody holds
  BUFF_SZ,    \* the capacity of the queue (2000 in the code)
  MaxCalls    \* bound: how many times handle_recv is called

ASSUME BuffSzAssumption == BUFF_SZ \in Nat \ {0}

ASSUME MaxCallsAssumption == MaxCalls \in Nat

ASSUME ThreadAssumption ==
  /\ Worker \notin Producers
  /\ Free \notin Producers \cup {Worker}
  /\ Nullptr \notin Listeners

VARIABLES
  \* the fields of async_recv_listener
  listener, listener_mtx, queue, buff_mtx, awake_mtx, stop_flag,
  \* the producers, inside handle_recv
  ppc, pdata, pqueue,
  \* the worker: where it is, the queue as it read it, the data it took and
  \* the listener it is calling
  wpc, wqueue, wdata, wlistener,
  \* the destructor
  dpc,
  \* history: calls of handle_recv, data pushed, data the worker is done
  \* with, and how many it had taken when stop_flag was set
  calls, accepted, forwarded, taken, takenAtStop

fields == <<listener, listener_mtx, queue, buff_mtx, awake_mtx, stop_flag>>
producer == <<ppc, pdata, pqueue>>
worker == <<wpc, wqueue, wdata, wlistener>>
history == <<calls, accepted, forwarded, taken, takenAtStop>>
vars == <<fields, producer, worker, dpc, history>>

Data == 1 .. MaxCalls     \* every call brings new data, numbered in order

WorkerPcs ==
  {"loop", "lockAwake", "test", "testQueue", "sleep", "waiting", "relock",
   "checkStop", "lockBuff", "take", "lockListener", "calling", "exited"}

TypeOK ==
  /\ listener \in Listeners \cup {Nullptr}
  /\ listener_mtx \in {Worker, Free}
  /\ queue \in Seq(Data) /\ Len(queue) <= BUFF_SZ
  /\ buff_mtx \in Producers \cup {Worker, Free}
  /\ awake_mtx \in {Worker, Free}
  /\ stop_flag \in BOOLEAN
  /\ ppc \in [Producers -> {"idle", "lock", "push", "notify"}]
  /\ pdata \in [Producers -> Data \cup {0}]
  /\ pqueue \in [Producers -> Seq(Data)]
  /\ wpc \in WorkerPcs
  /\ wqueue \in Seq(Data)
  /\ wdata \in Data \cup {0}
  /\ wlistener \in Listeners \cup {Nullptr}
  /\ dpc \in {"alive", "stopped", "detached"}
  /\ calls \in 0 .. MaxCalls
  /\ accepted \in Seq(Data) /\ forwarded \in Seq(Data)
  /\ taken \in Nat /\ takenAtStop \in Nat

\* The constructor: the members are default-initialized, stop_flag is
\* cleared and the worker starts.
Init ==
  /\ listener = Nullptr /\ listener_mtx = Free
  /\ queue = <<>> /\ buff_mtx = Free
  /\ awake_mtx = Free /\ stop_flag = FALSE
  /\ ppc = [p \in Producers |-> "idle"]
  /\ pdata = [p \in Producers |-> 0]
  /\ pqueue = [p \in Producers |-> <<>>]
  /\ wpc = "loop" /\ wqueue = <<>> /\ wdata = 0 /\ wlistener = Nullptr
  /\ dpc = "alive"
  /\ calls = 0 /\ accepted = <<>> /\ forwarded = <<>>
  /\ taken = 0 /\ takenAtStop = 0

-----------------------------------------------------------------------------
(***************************************************************************)
(* set_recv_listener and remove_listener, from any thread.  Both hold      *)
(* listener_mtx for one assignment only.                                   *)
(***************************************************************************)

\* Mutant: the listener is replaced without taking listener_mtx.
set_recv_listener_unlocked(l) ==
  /\ l # Nullptr
  /\ listener' = l
  /\ UNCHANGED <<listener_mtx, queue, buff_mtx, awake_mtx, stop_flag,
                 producer, worker, dpc, history>>

set_recv_listener(l) ==
  \/ /\ l = Nullptr
     /\ UNCHANGED vars
  \/ /\ l # Nullptr
     /\ listener_mtx = Free
     /\ listener' = l
     /\ UNCHANGED <<listener_mtx, queue, buff_mtx, awake_mtx, stop_flag,
                    producer, worker, dpc, history>>

remove_listener ==
  /\ listener_mtx = Free
  /\ listener' = Nullptr
  /\ UNCHANGED <<listener_mtx, queue, buff_mtx, awake_mtx, stop_flag,
                 producer, worker, dpc, history>>

-----------------------------------------------------------------------------
(***************************************************************************)
(* handle_recv, called by a capture thread.                                *)
(***************************************************************************)

handle_recv(p) ==
  /\ ppc[p] = "idle"
  /\ calls < MaxCalls
  /\ calls' = calls + 1
  /\ pdata' = [pdata EXCEPT ![p] = calls + 1]
  /\ ppc' = [ppc EXCEPT ![p] = "lock"]
  /\ UNCHANGED <<fields, pqueue, worker, dpc, accepted, forwarded, taken,
                 takenAtStop>>

\* Mutant: the queue is read and written without taking buff_mtx.
handle_recv_unlocked(p) ==
  /\ ppc[p] = "lock"
  /\ pqueue' = [pqueue EXCEPT ![p] = queue]
  /\ ppc' = [ppc EXCEPT ![p] = "push"]
  /\ UNCHANGED <<fields, pdata, worker, dpc, history>>

handle_recv_lock(p) ==
  /\ ppc[p] = "lock"
  /\ buff_mtx = Free
  /\ buff_mtx' = p
  /\ pqueue' = [pqueue EXCEPT ![p] = queue]
  /\ ppc' = [ppc EXCEPT ![p] = "push"]
  /\ UNCHANGED <<listener, listener_mtx, queue, awake_mtx, stop_flag, pdata,
                 worker, dpc, history>>

\* Mutant: the early return leaves buff_mtx locked.
handle_recv_full_locked(p) ==
  /\ ppc[p] = "push"
  /\ Len(pqueue[p]) = BUFF_SZ
  /\ ppc' = [ppc EXCEPT ![p] = "idle"]
  /\ UNCHANGED <<fields, pdata, pqueue, worker, dpc, history>>

\* A full queue drops the data, and tells nobody.
handle_recv_full(p) ==
  /\ ppc[p] = "push"
  /\ Len(pqueue[p]) = BUFF_SZ
  /\ buff_mtx' = Free
  /\ ppc' = [ppc EXCEPT ![p] = "idle"]
  /\ UNCHANGED <<listener, listener_mtx, queue, awake_mtx, stop_flag, pdata,
                 pqueue, worker, dpc, history>>

\* Mutant: the data is pushed whether the queue is full or not.
handle_recv_push_always(p) ==
  /\ ppc[p] = "push"
  /\ queue' = Append(pqueue[p], pdata[p])
  /\ accepted' = Append(accepted, pdata[p])
  /\ ppc' = [ppc EXCEPT ![p] = "notify"]
  /\ UNCHANGED <<listener, listener_mtx, buff_mtx, awake_mtx, stop_flag,
                 pdata, pqueue, worker, dpc, calls, forwarded, taken,
                 takenAtStop>>

handle_recv_push(p) ==
  /\ ppc[p] = "push"
  /\ Len(pqueue[p]) # BUFF_SZ
  /\ queue' = Append(pqueue[p], pdata[p])
  /\ accepted' = Append(accepted, pdata[p])
  /\ ppc' = [ppc EXCEPT ![p] = "notify"]
  /\ UNCHANGED <<listener, listener_mtx, buff_mtx, awake_mtx, stop_flag,
                 pdata, pqueue, worker, dpc, calls, forwarded, taken,
                 takenAtStop>>

\* Mutant: notify_one is forgotten.
handle_recv_silent(p) ==
  /\ ppc[p] = "notify"
  /\ buff_mtx' = Free
  /\ ppc' = [ppc EXCEPT ![p] = "idle"]
  /\ UNCHANGED <<listener, listener_mtx, queue, awake_mtx, stop_flag, pdata,
                 pqueue, worker, dpc, history>>

\* notify_one reaches the worker only if it is blocked in the wait already.
handle_recv_notify(p) ==
  /\ ppc[p] = "notify"
  /\ wpc' = IF wpc = "waiting" THEN "relock" ELSE wpc
  /\ buff_mtx' = Free
  /\ ppc' = [ppc EXCEPT ![p] = "idle"]
  /\ UNCHANGED <<listener, listener_mtx, queue, awake_mtx, stop_flag, pdata,
                 pqueue, wqueue, wdata, wlistener, dpc, history>>

-----------------------------------------------------------------------------
(***************************************************************************)
(* The worker's loop.                                                      *)
(***************************************************************************)

GoTo(pc) == wpc' = pc /\ UNCHANGED <<producer, dpc>>

\* while (!stop_flag)
worker_loop ==
  /\ wpc = "loop"
  /\ GoTo(IF stop_flag THEN "exited" ELSE "lockAwake")
  /\ UNCHANGED <<fields, wqueue, wdata, wlistener, history>>

\* unique_lock wake_lock(awake_mtx), and the relocking inside wait
worker_lock_awake ==
  /\ wpc \in {"lockAwake", "relock"}
  /\ awake_mtx = Free
  /\ awake_mtx' = Worker
  /\ GoTo("test")
  /\ UNCHANGED <<listener, listener_mtx, queue, buff_mtx, stop_flag, wqueue,
                 wdata, wlistener, history>>

\* Mutant: the predicate looks at the queue only.
worker_test_no_stop ==
  /\ wpc = "test"
  /\ GoTo("testQueue")
  /\ UNCHANGED <<fields, wqueue, wdata, wlistener, history>>

\* The predicate of wait, first line: if (stop_flag) return true
worker_test_stop ==
  /\ wpc = "test"
  /\ GoTo(IF stop_flag THEN "checkStop" ELSE "testQueue")
  /\ UNCHANGED <<fields, wqueue, wdata, wlistener, history>>

\* Mutant: the predicate does not look at the queue.
worker_test_nothing ==
  /\ wpc = "testQueue"
  /\ buff_mtx = Free
  /\ GoTo("checkStop")
  /\ UNCHANGED <<fields, wqueue, wdata, wlistener, history>>

\* The rest of the predicate, which holds buff_mtx for one read only
worker_test_queue ==
  /\ wpc = "testQueue"
  /\ buff_mtx = Free
  /\ GoTo(IF queue = <<>> THEN "sleep" ELSE "checkStop")
  /\ UNCHANGED <<fields, wqueue, wdata, wlistener, history>>

\* The predicate was false: wait unlocks awake_mtx and blocks, in one step.
worker_sleep ==
  /\ wpc = "sleep"
  /\ awake_mtx' = Free
  /\ GoTo("waiting")
  /\ UNCHANGED <<listener, listener_mtx, queue, buff_mtx, stop_flag, wqueue,
                 wdata, wlistener, history>>

\* The C++ standard allows a wait to return without a notification.
worker_spurious_wakeup ==
  /\ wpc = "waiting"
  /\ GoTo("relock")
  /\ UNCHANGED <<fields, wqueue, wdata, wlistener, history>>

\* if (stop_flag) break, which also releases wake_lock
worker_check_stop ==
  /\ wpc = "checkStop"
  /\ awake_mtx' = IF stop_flag THEN Free ELSE awake_mtx
  /\ GoTo(IF stop_flag THEN "exited" ELSE "lockBuff")
  /\ UNCHANGED <<listener, listener_mtx, queue, buff_mtx, stop_flag, wqueue,
                 wdata, wlistener, history>>

\* lock_guard lock_q(buff_mtx)
worker_lock_buff ==
  /\ wpc = "lockBuff"
  /\ buff_mtx = Free
  /\ buff_mtx' = Worker
  /\ wqueue' = queue
  /\ GoTo("take")
  /\ UNCHANGED <<listener, listener_mtx, queue, awake_mtx, stop_flag, wdata,
                 wlistener, history>>

\* The end of an iteration releases the locks taken in it.
Iterate ==
  /\ GoTo("loop")
  /\ buff_mtx' = Free /\ awake_mtx' = Free /\ listener_mtx' = Free

\* if (queue.is_empty()) continue; data = *queue.front(); queue.pop_front()
worker_take ==
  /\ wpc = "take"
  /\ IF wqueue = <<>>
     THEN /\ Iterate
          /\ UNCHANGED <<queue, wdata, taken>>
     ELSE /\ wdata' = Head(wqueue)
          /\ queue' = Tail(wqueue)
          /\ taken' = taken + 1
          /\ GoTo("lockListener")
          /\ UNCHANGED <<listener_mtx, buff_mtx, awake_mtx>>
  /\ UNCHANGED <<listener, stop_flag, wqueue, wlistener, calls, accepted,
                 forwarded, takenAtStop>>

\* if (listener == nullptr) continue: the data is dropped.
worker_no_listener ==
  /\ wpc = "lockListener"
  /\ listener_mtx = Free
  /\ listener = Nullptr
  /\ forwarded' = Append(forwarded, wdata)
  /\ Iterate
  /\ UNCHANGED <<listener, queue, stop_flag, wqueue, wdata, wlistener, calls,
                 accepted, taken, takenAtStop>>

\* listener->handle_recv(data), with all three mutexes held
worker_call ==
  /\ wpc = "lockListener"
  /\ listener_mtx = Free
  /\ listener # Nullptr
  /\ listener_mtx' = Worker
  /\ wlistener' = listener
  /\ forwarded' = Append(forwarded, wdata)
  /\ GoTo("calling")
  /\ UNCHANGED <<listener, queue, buff_mtx, awake_mtx, stop_flag, wqueue,
                 wdata, calls, accepted, taken, takenAtStop>>

\* The listener returns, and the iteration ends.
worker_return ==
  /\ wpc = "calling"
  /\ wlistener' = Nullptr
  /\ Iterate
  /\ UNCHANGED <<listener, queue, stop_flag, wqueue, wdata, history>>

-----------------------------------------------------------------------------
(***************************************************************************)
(* The destructor.  The members' memory is taken to live on: what the      *)
(* detached worker does with freed memory is not modelled.                 *)
(***************************************************************************)

\* Mutant: the destructor notifies and detaches, and forgets the flag.
dtor_no_stop ==
  /\ dpc = "alive"
  /\ dpc' = "stopped"
  /\ takenAtStop' = taken
  /\ UNCHANGED <<fields, producer, worker, calls, accepted, forwarded, taken>>

dtor_stop ==
  /\ dpc = "alive"
  /\ stop_flag' = TRUE
  /\ dpc' = "stopped"
  /\ takenAtStop' = taken
  /\ UNCHANGED <<listener, listener_mtx, queue, buff_mtx, awake_mtx,
                 producer, worker, calls, accepted, forwarded, taken>>

dtor_notify_all ==
  /\ dpc = "stopped"
  /\ wpc' = IF wpc = "waiting" THEN "relock" ELSE wpc
  /\ dpc' = "detached"
  /\ UNCHANGED <<fields, producer, wqueue, wdata, wlistener, history>>

-----------------------------------------------------------------------------

HandleRecv(p) ==
  \/ handle_recv_lock(p) \/ handle_recv_full(p)
  \/ handle_recv_push(p) \/ handle_recv_notify(p)

WorkerStep ==
  \/ worker_loop \/ worker_lock_awake \/ worker_test_stop
  \/ worker_test_queue \/ worker_sleep \/ worker_check_stop
  \/ worker_lock_buff \/ worker_take \/ worker_no_listener \/ worker_call
  \/ worker_return

Next ==
  \/ \E l \in Listeners \cup {Nullptr} : set_recv_listener(l)
  \/ remove_listener
  \/ \E p \in Producers : handle_recv(p) \/ HandleRecv(p)
  \/ WorkerStep
  \/ worker_spurious_wakeup
  \/ dtor_stop \/ dtor_notify_all

Spec == Init /\ [][Next]_vars

(***************************************************************************)
(* The scheduler runs a thread that can run, a contended mutex is granted  *)
(* in the end (the calls are finite in number), and the listener returns.  *)
(* Nothing forces a packet to arrive, a listener to be set, a spurious     *)
(* wakeup or the destructor.                                               *)
(***************************************************************************)
Fairness ==
  /\ WF_vars(WorkerStep)
  /\ \A p \in Producers : WF_vars(HandleRecv(p))
  /\ WF_vars(dtor_notify_all)

FairSpec == Spec /\ Fairness
-----------------------------------------------------------------------------
(***************************************************************************)
(* Where a thread must be to hold a mutex, and what it read under it.      *)
(***************************************************************************)
Holding == {"take", "lockListener", "calling"}

LocksMatchPcs ==
  /\ \A p \in Producers : ppc[p] \in {"push", "notify"} <=> buff_mtx = p
  /\ wpc \in Holding <=> buff_mtx = Worker
  /\ wpc = "calling" <=> listener_mtx = Worker
  /\ wpc \in Holding \cup {"test", "testQueue", "sleep", "checkStop", "lockBuff"}
       <=> awake_mtx = Worker

ReadsAreCurrent ==
  /\ \A p \in Producers : ppc[p] # "idle" => pdata[p] \in Data
  /\ \A p \in Producers : ppc[p] = "push" => pqueue[p] = queue
  /\ wpc = "take" => wqueue = queue
  /\ wpc = "lockListener" => wdata \in Data
-----------------------------------------------------------------------------
(***************************************************************************)
(* What the worker is done with, what it holds and what is queued are, in  *)
(* this order, what handle_recv accepted: nothing accepted is lost,        *)
(* doubled or overtaken, with any number of capture threads.               *)
(***************************************************************************)
InHand == IF wpc = "lockListener" THEN <<wdata>> ELSE <<>>

NothingLostOrReordered == accepted = (forwarded \o InHand) \o queue

(***************************************************************************)
(* While a listener is being called it is the current one: once            *)
(* set_recv_listener or remove_listener has returned, the listener it      *)
(* replaced is not being called and the worker will not call it again.     *)
(***************************************************************************)
CalledListenerIsCurrent == wpc = "calling" => listener = wlistener

(***************************************************************************)
(* "if (queue.is_empty()) continue" after the wait never applies: only the *)
(* worker takes, so what made it wake is still there.                      *)
(***************************************************************************)
WokenForData == wpc \in {"lockBuff", "take"} => queue # <<>>

(***************************************************************************)
(* Once the destructor has set stop_flag the worker takes at most the one  *)
(* packet it had already decided to take.                                  *)
(***************************************************************************)
AtMostOneAfterStop == dpc # "alive" => taken <= takenAtStop + 1

(***************************************************************************)
(* The inductive invariant: the properties above, what they need of the    *)
(* locks, and why the worker is where it is in its loop.                   *)
(***************************************************************************)
Inv ==
  /\ TypeOK
  /\ LocksMatchPcs
  /\ ReadsAreCurrent
  /\ NothingLostOrReordered
  /\ CalledListenerIsCurrent
  /\ wpc \in {"lockBuff", "take"} \/ (wpc = "checkStop" /\ ~stop_flag)
       => queue # <<>>
  /\ stop_flag <=> dpc # "alive"
  /\ stop_flag => taken <= takenAtStop +
                           (IF wpc \in {"lockBuff", "take"} THEN 0 ELSE 1)

Asleep == wpc \in {"sleep", "waiting"}

(***************************************************************************)
(* A worker that is up when something is queued, or that the next          *)
(* notification finds in the wait, empties the queue (or is stopped): the  *)
(* next packet accepted gets out what a lost notification left behind.     *)
(***************************************************************************)
NotificationArrives == wpc = "waiting" /\ \E p \in Producers : ppc[p] = "notify"

AwakeWorkerDrains ==
  (queue # <<>> /\ (~Asleep \/ NotificationArrives))
    ~> (queue = <<>> \/ stop_flag)

(***************************************************************************)
(* A call of handle_recv returns: capture threads and the worker never     *)
(* wait for one another for ever, although the worker calls the listener   *)
(* with buff_mtx held.                                                     *)
(***************************************************************************)
HandleRecvReturns == \A p \in Producers : ppc[p] = "lock" ~> ppc[p] = "idle"

(***************************************************************************)
(* A worker that has yet to read stop_flag when the destructor sets it     *)
(* ends.  (One that has read it and is on its way into the wait may sleep  *)
(* through notify_all.)                                                    *)
(***************************************************************************)
WorkerStops ==
  (stop_flag /\ ~Asleep /\ wpc # "testQueue") ~> wpc = "exited"

(***************************************************************************)
(* async_recv_listener.h: "receives data and forwards it async to a        *)
(* receiver".  Does not hold: a notification sent between the predicate    *)
(* and the blocking of the wait reaches nobody, and the data stays in the  *)
(* queue for as long as no other packet arrives.                           *)
(***************************************************************************)
AcceptedIsForwarded ==
  (queue # <<>> /\ listener # Nullptr)
    ~> (queue = <<>> \/ listener = Nullptr \/ stop_flag)
=============================================================================
