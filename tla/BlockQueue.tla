----------------------------- MODULE BlockQueue ------------------------------
(***************************************************************************)
(* The blocking queue of blockqueue.c between the threads of a socket: any *)
(* number of producers and one consumer, which peeks and then pops.        *)
(*                                                                         *)
(* A region under the queue's mutex is one step.  A thread that waits on a *)
(* condition is "wait" until it is signaled and "woken" until it has the   *)
(* mutex again; others may run in between, and the code does not look at   *)
(* the size a second time.                                                 *)
(***************************************************************************)
EXTENDS Integers, FiniteSets

CONSTANTS
  Producers,       \* the threads that push
  Blocks,          \* the data blocks
  NoBlock,         \* what an untouched cell of _m_data holds
  QUEUE_CAPACITY,  \* 128 in the code
  Spurious,        \* pthread_cond_wait may return without a signal
  MaxSize          \* bound on _m_size, for queues that outgrow the capacity

ASSUME QueueConstants ==
  /\ QUEUE_CAPACITY \in Nat \ {0}
  /\ MaxSize \in Nat
  /\ Spurious \in BOOLEAN
  /\ NoBlock \notin Blocks
  /\ IsFiniteSet(Producers)

Cells == 0 .. QUEUE_CAPACITY - 1

VARIABLES
  head, tail, size,  \* where the next block goes, where the first one is
  data,              \* _m_data
  ppc, pblock,       \* each producer's place in push, and its block
  cpc, seen          \* the consumer's place, and what its last peek returned

ring == <<head, tail, size, data>>
vars == <<ring, ppc, pblock, cpc, seen>>

Waiting == {p \in Producers : ppc[p] = "wait"}
Woken == {p \in Producers : ppc[p] = "woken"}
Signaling == {p \in Producers : ppc[p] = "signal"}

\* The next cell of the ring; mutants: no wrap, and one cell too far.
AdvanceUnwrapped(i) == i + 1
AdvanceTooFar(i) == (i + 1) % (QUEUE_CAPACITY + 1)
Advance(i) == (i + 1) % QUEUE_CAPACITY

block_queue_init ==
  /\ head = 0 /\ tail = 0 /\ size = 0
  /\ data = [i \in Cells |-> NoBlock]
  /\ ppc = [p \in Producers |-> "idle"]
  /\ pblock = [p \in Producers |-> NoBlock]
  /\ cpc = "idle" /\ seen = NoBlock
-----------------------------------------------------------------------------
(***************************************************************************)
(* block_queue_push_chunk: the store, either at once or after a wait that  *)
(* ends, and then the signal, which comes after the unlock.                *)
(***************************************************************************)
Store(p, b) ==
  /\ size < MaxSize
  /\ data' = [data EXCEPT ![head] = b]
  /\ head' = Advance(head)
  /\ size' = size + 1
  /\ ppc' = [ppc EXCEPT ![p] = "signal"]
  /\ pblock' = [pblock EXCEPT ![p] = NoBlock]
  /\ UNCHANGED <<tail, cpc, seen>>

PushNow(p, b) ==
  /\ ppc[p] = "idle" /\ size # QUEUE_CAPACITY
  /\ Store(p, b)

PushWait(p, b) ==
  /\ ppc[p] = "idle" /\ size = QUEUE_CAPACITY
  /\ ppc' = [ppc EXCEPT ![p] = "wait"]
  /\ pblock' = [pblock EXCEPT ![p] = b]
  /\ UNCHANGED <<ring, cpc, seen>>

PushWoken(p) ==
  /\ ppc[p] = "woken"
  /\ Store(p, pblock[p])

\* Mutants of PushSignal: no signal, and a signal for the first block only.
PushSilent(p) ==
  /\ ppc[p] = "signal"
  /\ ppc' = [ppc EXCEPT ![p] = "idle"]
  /\ UNCHANGED <<ring, pblock, cpc, seen>>
PushSignalFirst(p) ==
  /\ ppc[p] = "signal"
  /\ ppc' = [ppc EXCEPT ![p] = "idle"]
  /\ cpc' = IF cpc = "wait" /\ size = 1 THEN "woken" ELSE cpc
  /\ UNCHANGED <<ring, pblock, seen>>

PushSignal(p) ==
  /\ ppc[p] = "signal"
  /\ ppc' = [ppc EXCEPT ![p] = "idle"]
  /\ cpc' = IF cpc = "wait" THEN "woken" ELSE cpc
  /\ UNCHANGED <<ring, pblock, seen>>

Produce(p) ==
  \/ \E b \in Blocks : PushNow(p, b) \/ PushWait(p, b)
  \/ PushWoken(p) \/ PushSignal(p)
-----------------------------------------------------------------------------
(***************************************************************************)
(* block_queue_peek_chunk.                                                 *)
(***************************************************************************)
\* Mutant of Look: the newest end of the ring is looked at.
LookAtHead ==
  /\ seen' = data[head]
  /\ cpc' = "peeked"
  /\ UNCHANGED <<ring, ppc, pblock>>

Look ==
  /\ seen' = data[tail]
  /\ cpc' = "peeked"
  /\ UNCHANGED <<ring, ppc, pblock>>

PeekNow == cpc \in {"idle", "peeked"} /\ size # 0 /\ Look

PeekWait ==
  /\ cpc \in {"idle", "peeked"} /\ size = 0
  /\ cpc' = "wait"
  /\ UNCHANGED <<ring, ppc, pblock, seen>>

PeekWoken == cpc = "woken" /\ Look

(***************************************************************************)
(* block_queue_pop_chunk.  The size is looked at before the lock is taken; *)
(* an empty queue returns -1.  The signal wakes one waiting producer.      *)
(***************************************************************************)
PopCheck ==
  /\ cpc = "peeked"
  /\ cpc' = IF size = 0 THEN "idle" ELSE "pop"
  /\ UNCHANGED <<ring, ppc, pblock, seen>>

\* The signal of pop on _m_write_cond; mutants: no signal, and a signal only
\* when the queue was full.
SignalNobody == UNCHANGED ppc
SignalIfFull ==
  \/ (Waiting = {} \/ size # QUEUE_CAPACITY) /\ UNCHANGED ppc
  \/ /\ size = QUEUE_CAPACITY
     /\ \E p \in Waiting : ppc' = [ppc EXCEPT ![p] = "woken"]
SignalProducer ==
  \/ Waiting = {} /\ UNCHANGED ppc
  \/ \E p \in Waiting : ppc' = [ppc EXCEPT ![p] = "woken"]

Pop ==
  /\ cpc = "pop" /\ cpc' = "idle"
  /\ tail' = Advance(tail)
  /\ size' = size - 1
  /\ SignalProducer
  /\ UNCHANGED <<head, data, pblock, seen>>

Consume == PeekNow \/ PeekWait \/ PeekWoken \/ PopCheck \/ Pop

(***************************************************************************)
(* POSIX lets pthread_cond_wait return with no signal.                     *)
(***************************************************************************)
SpuriousWakeup ==
  /\ Spurious
  /\ \/ /\ \E p \in Waiting : ppc' = [ppc EXCEPT ![p] = "woken"]
        /\ UNCHANGED cpc
     \/ cpc = "wait" /\ cpc' = "woken" /\ UNCHANGED ppc
  /\ UNCHANGED <<ring, pblock, seen>>

Next ==
  \/ \E p \in Producers : Produce(p)
  \/ Consume
  \/ SpuriousWakeup

Spec == block_queue_init /\ [][Next]_vars

(***************************************************************************)
(* Threads in the middle of a push or a pop go on, and the consumer, like  *)
(* the loops of gbn_socket_read and of the writer thread, keeps consuming. *)
(***************************************************************************)
FairSpec ==
  /\ Spec
  /\ \A p \in Producers : WF_vars(PushWoken(p)) /\ WF_vars(PushSignal(p))
  /\ WF_vars(Consume) /\ WF_vars(PopCheck)
-----------------------------------------------------------------------------
(***************************************************************************)
(* Type invariant of the queue and of the threads that use it.             *)
(***************************************************************************)
TypeOK ==
  /\ head \in Cells /\ tail \in Cells /\ size \in Nat
  /\ data \in [Cells -> Blocks \cup {NoBlock}]
  /\ ppc \in [Producers -> {"idle", "wait", "woken", "signal"}]
  /\ pblock \in [Producers -> Blocks \cup {NoBlock}]
  /\ cpc \in {"idle", "wait", "woken", "peeked", "pop"}
  /\ seen \in Blocks \cup {NoBlock}

(***************************************************************************)
(* The two indices and the count agree, however many threads push, however *)
(* often a wait ends for no reason, and although pop looks at the size     *)
(* before it takes the lock; in particular the size never drops below 0.   *)
(***************************************************************************)
RingAligned ==
  /\ head = (tail + size) % QUEUE_CAPACITY
  /\ cpc = "pop" => size > 0

(***************************************************************************)
(* A consumer sleeps on a queue that holds blocks only while a producer is *)
(* about to signal it: signaling after the unlock loses no wakeup.         *)
(***************************************************************************)
NoLostWakeup == cpc = "wait" /\ size > 0 => Signaling # {}

(***************************************************************************)
(* Producers sleep on a queue with free cells only while at least as many  *)
(* producers as there are free cells have been woken to fill them.         *)
(***************************************************************************)
NoStarvedProducer ==
  Waiting # {} => Cardinality(Woken) >= QUEUE_CAPACITY - size

(***************************************************************************)
(* As long as it holds no more than its capacity, the ring is a bounded    *)
(* FIFO queue: the cells from the tail on are its blocks, none of them is  *)
(* overwritten before it is popped, and a peek returns the oldest.  The    *)
(* code breaks the promise in two places, neither of which looks at the    *)
(* size again after a wait, and nowhere else.  A producer that is woken    *)
(* after another one took the free cell stores a block over the oldest:    *)
(* the ring is then beyond its capacity.  And a consumer that is woken on  *)
(* an empty queue, by the late signal of a block it has popped already or  *)
(* by none, returns from peek with what the cell happens to hold.          *)
(***************************************************************************)
Fifo == INSTANCE BoundedFifo WITH
  q <- [i \in 1 .. size |-> data[(tail + i - 1) % QUEUE_CAPACITY]]

WithinCapacity == size <= QUEUE_CAPACITY
EmptyPeek == size = 0 /\ cpc = "woken" /\ cpc' = "peeked"

ImplementsFifo ==
  /\ Fifo!Init
  /\ [][WithinCapacity /\ WithinCapacity' /\ ~EmptyPeek => Fifo!Next]_<<ring, seen>>

(***************************************************************************)
(* Producers that found the queue full do not all sleep for ever: one of   *)
(* them is woken.  (Which one is up to pthread_cond_signal, so that of two *)
(* producers one may be passed over again and again.)                      *)
(***************************************************************************)
SleeperWoken == Waiting # {} ~> Woken # {}

(***************************************************************************)
(* A consumer asleep in peek eventually gets a block that is pushed.       *)
(***************************************************************************)
PushedIsSeen == (cpc = "wait" /\ size > 0) ~> cpc = "peeked"
=============================================================================
