----------------------- MODULE ThreadSafeQueueProofs -----------------------
(***************************************************************************)
(* Proofs about ThreadSafeQueue, for any number of threads, any capacity   *)
(* and any number of items.                                                *)
(***************************************************************************)
EXTENDS ThreadSafeQueue, FiniteSetTheorems, TLAPS

(* A producer inside push has an item of its own in its hands. *)
PendingOffer == \A p \in Producers : ~Idle(p) => offered[p] > 0

(* The inductive invariant.  NoLostWakeup needs NoneAsleepAfterShutdown    *)
(* for the threads that leave the mutex queue after a shutdown, the log    *)
(* needs the types, and the types need PendingOffer: the item a woken      *)
(* producer pushes is then one of its items.                               *)
IInv ==
  /\ TypeOK
  /\ LogIntact
  /\ NoLostWakeup
  /\ NoneAsleepAfterShutdown
  /\ PendingOffer
-----------------------------------------------------------------------------
(* The inductive invariant holds initially.                                *)
THEOREM IInvInit == Init => IInv
<1> USE QueueAssumption
<1> SUFFICES ASSUME Init PROVE IInv
  OBVIOUS
<1>1. TypeOK
  <2>1. queue \in Seq(Item) /\ Len(queue) <= MaxSize
    BY DEF Init
  <2>2. accepted \in Seq(Item) /\ delivered \in Seq(Item)
    BY DEF Init
  <2>3. call \in [Consumers -> Call]
    BY DEF Init, Call
  <2>4. offered \in [Producers -> 0..MaxItems]
    BY DEF Init
  <2>5. QED BY <2>1, <2>2, <2>3, <2>4 DEF Init, TypeOK
<1>2. LogIntact BY DEF Init, LogIntact
<1>3. NoLostWakeup /\ NoneAsleepAfterShutdown
  BY DEF Init, NoLostWakeup, NoneAsleepAfterShutdown
<1>4. PendingOffer BY DEF Init, PendingOffer, Idle
<1>5. QED BY <1>1, <1>2, <1>3, <1>4 DEF IInv

LEMMA WokenCount ==
  ASSUME NEW W, NEW S, IsFiniteSet(S)
  PROVE  /\ IsFiniteSet(W \cap S)
         /\ Cardinality(W \cap S) \in Nat
BY FS_Subset, FS_CardinalityType

(* Notifying adds the woken thread to those that run for the mutex. *)
LEMMA CountAdd ==
  ASSUME NEW W, NEW S, IsFiniteSet(S), NEW t \in S, t \notin W
  PROVE  Cardinality((W \cup {t}) \cap S) = Cardinality(W \cap S) + 1
<1>1. (W \cup {t}) \cap S = (W \cap S) \cup {t} OBVIOUS
<1>2. QED BY <1>1, WokenCount, FS_AddElement

LEMMA CountRemove ==
  ASSUME NEW W, NEW S, IsFiniteSet(S), NEW t
  PROVE  Cardinality((W \ {t}) \cap S) =
           IF t \in W \cap S THEN Cardinality(W \cap S) - 1 ELSE Cardinality(W \cap S)
<1>1. (W \ {t}) \cap S = (W \cap S) \ {t} OBVIOUS
<1>2. QED BY <1>1, WokenCount, FS_RemoveElement
-----------------------------------------------------------------------------
(* What a producer may have changed of its own count when it enters push.  *)
Advances(p) ==
  /\ offered' \in [Producers -> 0..MaxItems]
  /\ \A q \in Producers : offered'[q] >= offered[q]
  /\ offered'[p] > 0

LEMMA DiscardInv ==
  ASSUME IInv, NEW p \in Producers, NEW item \in Item,
         p \notin notEmpty \cup notFull, Advances(p), shut, Discard(p, item)
  PROVE  IInv'
<1> USE QueueAssumption DEF IInv, Advances, Discard
<1>1. TypeOK' BY DEF TypeOK
<1>2. LogIntact' BY DEF LogIntact
<1>3. NoLostWakeup' BY DEF NoLostWakeup, NoneAsleepAfterShutdown
<1>4. NoneAsleepAfterShutdown' BY DEF NoneAsleepAfterShutdown
<1>5. PendingOffer' BY DEF PendingOffer, Idle, TypeOK
<1>6. QED BY <1>1, <1>2, <1>3, <1>4, <1>5

LEMMA AwaitRoomInv ==
  ASSUME IInv, NEW p \in Producers,
         p \notin notEmpty \cup notFull, Advances(p), ~shut, Full, AwaitRoom(p)
  PROVE  IInv'
<1> USE QueueAssumption DEF IInv, Advances, AwaitRoom
<1>1. TypeOK' BY DEF TypeOK, Threads
<1>2. LogIntact' BY DEF LogIntact
<1>3. NoLostWakeup'
  <2>1. woken' \cap Consumers = woken \cap Consumers
    OBVIOUS
  <2>2. MaxSize - Len(queue) = 0
    BY DEF Full, TypeOK
  <2>3. Cardinality(woken' \cap Producers) \in Nat
    BY WokenCount
  <2>4. UNCHANGED <<queue, notEmpty>>
    OBVIOUS
  <2>5. notEmpty' # {} => Len(queue') <= Cardinality(woken' \cap Consumers)
    BY <2>1, <2>4 DEF NoLostWakeup
  <2>6. MaxSize - Len(queue') <= Cardinality(woken' \cap Producers)
    BY <2>2, <2>3, <2>4
  <2>7. QED BY <2>5, <2>6 DEF NoLostWakeup
<1>4. NoneAsleepAfterShutdown' BY DEF NoneAsleepAfterShutdown
<1>5. PendingOffer' BY DEF PendingOffer, Idle, TypeOK
<1>6. QED BY <1>1, <1>2, <1>3, <1>4, <1>5

LEMMA EnqueueInv ==
  ASSUME IInv, NEW p \in Producers, NEW item \in Item,
         p \notin notEmpty \cup notFull, Advances(p), ~shut, ~Full, Enqueue(p, item)
  PROVE  IInv'
<1> USE QueueAssumption DEF IInv, Advances
<1> DEFINE running == woken \ {p}
<1>0. /\ queue' = Append(queue, item) /\ accepted' = Append(accepted, item)
      /\ UNCHANGED <<shut, notFull, call, delivered, discarded>>
  BY DEF Enqueue
<1>1. /\ Len(queue') = Len(queue) + 1 /\ Len(queue') <= MaxSize
      /\ queue' \in Seq(Item) /\ accepted' \in Seq(Item)
      /\ Len(accepted') = Len(accepted) + 1
      /\ queue'[Len(queue) + 1] = item /\ accepted'[Len(accepted) + 1] = item
      /\ \A i \in 1..Len(queue) : queue'[i] = queue[i]
      /\ \A i \in 1..Len(accepted) : accepted'[i] = accepted[i]
  BY <1>0 DEF TypeOK, Full
<1>2. LogIntact'
  BY SMTT(60), <1>0, <1>1 DEF LogIntact, TypeOK
<1>3. /\ Cardinality(running \cap Consumers) = Cardinality(woken \cap Consumers)
      /\ Cardinality(running \cap Producers) >= Cardinality(woken \cap Producers) - 1
      /\ Cardinality(running \cap Consumers) \in Nat
      /\ Cardinality(running \cap Producers) \in Nat
      /\ Cardinality(woken \cap Consumers) \in Nat
      /\ Cardinality(woken \cap Producers) \in Nat
  <2>1. IsFiniteSet(Consumers) /\ IsFiniteSet(Producers) /\ p \notin woken \cap Consumers
    OBVIOUS
  <2>2. /\ Cardinality(running \cap Consumers) = Cardinality(woken \cap Consumers)
        /\ Cardinality(woken \cap Consumers) \in Nat
    BY <2>1, CountRemove, WokenCount
  <2>3. /\ Cardinality(running \cap Producers) =
             IF p \in woken \cap Producers THEN Cardinality(woken \cap Producers) - 1
                                          ELSE Cardinality(woken \cap Producers)
        /\ Cardinality(woken \cap Producers) \in Nat
    BY <2>1, CountRemove, WokenCount
  <2>4. Cardinality(running \cap Producers) \in Nat
    BY <2>1, WokenCount
  <2>5. QED BY <2>2, <2>3, <2>4
<1>4. NotifyNotEmpty(running)
  BY DEF Enqueue
<1>5. CASE notEmpty = {} /\ woken' = running /\ UNCHANGED notEmpty
  <2>1. TypeOK' BY <1>0, <1>1, <1>5 DEF TypeOK
  <2>2. NoLostWakeup'
    BY SMTT(60), <1>0, <1>1, <1>3, <1>5 DEF NoLostWakeup, TypeOK
  <2>3. NoneAsleepAfterShutdown' BY <1>0 DEF NoneAsleepAfterShutdown
  <2>4. PendingOffer' BY <1>0, <1>5 DEF PendingOffer, Idle, TypeOK
  <2>5. QED BY <1>2, <2>1, <2>2, <2>3, <2>4
<1>6. CASE \E c \in notEmpty : notEmpty' = notEmpty \ {c} /\ woken' = running \cup {c}
  <2> PICK c \in notEmpty : notEmpty' = notEmpty \ {c} /\ woken' = running \cup {c}
    BY <1>6
  <2>0. c \in Consumers /\ c \notin Producers /\ c \notin running
    BY DEF TypeOK
  <2>1. TypeOK' BY <1>0, <1>1, <2>0 DEF TypeOK, Threads
  <2>2. NoLostWakeup'
    <3>1. Cardinality(woken' \cap Consumers) = Cardinality(woken \cap Consumers) + 1
      <4>1. Cardinality((running \cup {c}) \cap Consumers)
              = Cardinality(running \cap Consumers) + 1
        BY <2>0, CountAdd
      <4>2. QED BY <4>1, <1>3
    <3>2. woken' \cap Producers = running \cap Producers
      BY <2>0
    <3>3. notEmpty # {} => Len(queue') <= Cardinality(woken' \cap Consumers)
      BY <1>1, <1>3, <3>1 DEF NoLostWakeup, TypeOK
    <3>4. notFull' # {} => MaxSize - Len(queue') <= Cardinality(woken' \cap Producers)
      <4>1. Cardinality(woken' \cap Producers) = Cardinality(running \cap Producers)
        BY <3>2
      <4>2. Len(queue) \in Nat /\ MaxSize \in Nat
        BY DEF TypeOK
      <4>3. notFull # {} => MaxSize - Len(queue) <= Cardinality(woken \cap Producers)
        BY DEF NoLostWakeup
      <4>4. MaxSize - Len(queue') = MaxSize - Len(queue) - 1 /\ notFull' = notFull
        BY <1>0, <1>1, <4>2
      <4>5. QED BY <1>3, <4>1, <4>2, <4>3, <4>4
    <3>5. QED BY <3>3, <3>4 DEF NoLostWakeup
  <2>3. NoneAsleepAfterShutdown' BY <1>0 DEF NoneAsleepAfterShutdown
  <2>4. PendingOffer' BY <1>0, <2>0 DEF PendingOffer, Idle, TypeOK
  <2>5. QED BY <1>2, <2>1, <2>2, <2>3, <2>4
<1>7. QED BY <1>4, <1>5, <1>6 DEF NotifyNotEmpty

LEMMA PushSectionInv ==
  ASSUME IInv, NEW p \in Producers, NEW item \in Item,
         p \notin notEmpty \cup notFull, Advances(p), PushSection(p, item)
  PROVE  IInv'
BY DiscardInv, EnqueueInv, AwaitRoomInv DEF PushSection
-----------------------------------------------------------------------------
(* What a consumer may have changed of the wait set and of its own call.   *)
LeavesWaitSet(c) ==
  /\ notEmpty' = notEmpty \ {c}
  /\ call' \in [Consumers -> Call]

LEMMA DequeueInv ==
  ASSUME IInv, NEW c \in Consumers, queue # << >>, LeavesWaitSet(c), Dequeue(c)
  PROVE  IInv'
<1> USE QueueAssumption DEF IInv, LeavesWaitSet
<1> DEFINE running == woken \ {c}
<1>0. /\ queue' = Tail(queue) /\ delivered' = Append(delivered, Head(queue))
      /\ UNCHANGED <<shut, offered, accepted, discarded>>
  BY DEF Dequeue
<1>1. /\ Len(queue) \in Nat \ {0} /\ Len(queue') = Len(queue) - 1
      /\ queue' \in Seq(Item) /\ delivered' \in Seq(Item)
      /\ Len(delivered') = Len(delivered) + 1
      /\ delivered'[Len(delivered) + 1] = queue[1]
      /\ \A i \in 1..Len(delivered) : delivered'[i] = delivered[i]
      /\ \A i \in 1..Len(queue') : queue'[i] = queue[i + 1]
  BY <1>0 DEF TypeOK
<1>2. LogIntact'
  <2> SUFFICES /\ Len(accepted) = Len(delivered') + Len(queue')
               /\ \A i \in 1..Len(delivered') : accepted[i] = delivered'[i]
               /\ \A i \in 1..Len(queue') : accepted[Len(delivered') + i] = queue'[i]
    BY <1>0 DEF LogIntact
  <2>1. Len(accepted) = Len(delivered') + Len(queue')
    BY <1>1 DEF LogIntact, TypeOK
  <2>2. ASSUME NEW i \in 1..Len(delivered') PROVE accepted[i] = delivered'[i]
    <3>1. CASE i = Len(delivered) + 1
      <4>1. 1 \in 1..Len(queue)
        BY <1>1
      <4>2. accepted[Len(delivered) + 1] = queue[1]
        BY <4>1 DEF LogIntact
      <4>3. QED BY <1>1, <3>1, <4>2
    <3>2. CASE i # Len(delivered) + 1
      <4>1. i \in 1..Len(delivered)
        BY <1>1, <3>2 DEF TypeOK
      <4>2. QED BY <1>1, <4>1 DEF LogIntact
    <3>3. QED BY <3>1, <3>2
  <2>3. ASSUME NEW i \in 1..Len(queue') PROVE accepted[Len(delivered') + i] = queue'[i]
    <3>1. i + 1 \in 1..Len(queue) /\ Len(delivered') + i = Len(delivered) + (i + 1)
      BY <1>1 DEF TypeOK
    <3>2. QED BY <1>1, <3>1 DEF LogIntact
  <2>4. QED BY <2>1, <2>2, <2>3
<1>3. /\ Cardinality(running \cap Producers) = Cardinality(woken \cap Producers)
      /\ Cardinality(running \cap Consumers) >= Cardinality(woken \cap Consumers) - 1
      /\ Cardinality(running \cap Consumers) \in Nat
      /\ Cardinality(woken \cap Consumers) \in Nat
      /\ Cardinality(woken \cap Producers) \in Nat
  <2>1. IsFiniteSet(Consumers) /\ IsFiniteSet(Producers) /\ c \notin woken \cap Producers
    OBVIOUS
  <2>2. /\ Cardinality(running \cap Producers) = Cardinality(woken \cap Producers)
        /\ Cardinality(woken \cap Producers) \in Nat
    <3>1. running \cap Producers = woken \cap Producers
      BY <2>1
    <3>2. QED BY <2>1, <3>1, WokenCount
  <2>3. /\ Cardinality(running \cap Consumers) =
             IF c \in woken \cap Consumers THEN Cardinality(woken \cap Consumers) - 1
                                          ELSE Cardinality(woken \cap Consumers)
        /\ Cardinality(woken \cap Consumers) \in Nat
    BY <2>1, CountRemove, WokenCount
  <2>4. Cardinality(running \cap Consumers) \in Nat
    BY <2>1, WokenCount
  <2>5. QED BY <2>2, <2>3, <2>4
<1>4. NoneAsleepAfterShutdown /\ notEmpty' \subseteq notEmpty
  OBVIOUS
<1>5. notEmpty' # {} => Len(queue') <= Cardinality(running \cap Consumers)
  BY <1>1, <1>3, <1>4 DEF NoLostWakeup, TypeOK
<1>6. CASE notFull = {} /\ woken' = running /\ UNCHANGED notFull
  <2>1. TypeOK' BY <1>0, <1>1, <1>6 DEF TypeOK
  <2>2. NoLostWakeup' BY <1>5, <1>6 DEF NoLostWakeup
  <2>3. NoneAsleepAfterShutdown' BY <1>0, <1>6 DEF NoneAsleepAfterShutdown
  <2>4. PendingOffer' BY <1>0, <1>6 DEF PendingOffer, Idle, TypeOK
  <2>5. QED BY <1>2, <2>1, <2>2, <2>3, <2>4
<1>7. CASE \E p \in notFull : notFull' = notFull \ {p} /\ woken' = running \cup {p}
  <2> PICK p \in notFull : notFull' = notFull \ {p} /\ woken' = running \cup {p}
    BY <1>7
  <2>0. p \in Producers /\ p \notin Consumers /\ p \notin running
    BY DEF TypeOK
  <2>1. TypeOK' BY <1>0, <1>1, <2>0 DEF TypeOK, Threads
  <2>2. NoLostWakeup'
    <3>1. Cardinality((running \cup {p}) \cap Producers)
            = Cardinality(running \cap Producers) + 1
      BY <2>0, CountAdd
    <3>2. woken' \cap Consumers = running \cap Consumers
      BY <2>0
    <3>3. Cardinality(woken' \cap Consumers) = Cardinality(running \cap Consumers)
      BY <3>2
    <3>4. MaxSize - Len(queue) <= Cardinality(woken \cap Producers)
      BY DEF NoLostWakeup
    <3>5. MaxSize \in Nat /\ MaxSize - Len(queue') = MaxSize - Len(queue) + 1
      BY <1>1 DEF TypeOK
    <3>6. MaxSize - Len(queue') <= Cardinality(woken' \cap Producers)
      BY <1>1, <1>3, <3>1, <3>4, <3>5
    <3>7. QED BY <1>5, <3>3, <3>6 DEF NoLostWakeup
  <2>3. NoneAsleepAfterShutdown' BY <1>0 DEF NoneAsleepAfterShutdown
  <2>4. PendingOffer' BY <1>0, <2>0 DEF PendingOffer, Idle, TypeOK
  <2>5. QED BY <1>2, <2>1, <2>2, <2>3, <2>4
<1>8. QED BY <1>6, <1>7 DEF Dequeue, NotifyNotFull

(* A consumer returns empty-handed, because of shutdown or its timer.      *)
LEMMA LeaveInv ==
  ASSUME IInv, NEW c \in Consumers, queue = << >>, LeavesWaitSet(c), Leave(c)
  PROVE  IInv'
<1> USE QueueAssumption DEF IInv, LeavesWaitSet, Leave
<1>1. TypeOK' BY DEF TypeOK
<1>2. LogIntact' BY DEF LogIntact
<1>3. NoLostWakeup'
  <2>1. Cardinality((woken \ {c}) \cap Producers) = Cardinality(woken \cap Producers)
    <3>1. (woken \ {c}) \cap Producers = woken \cap Producers
      OBVIOUS
    <3>2. QED BY <3>1
  <2>2. Len(queue) = 0 /\ Cardinality((woken \ {c}) \cap Consumers) \in Nat
    BY WokenCount
  <2>3. UNCHANGED <<queue, notFull>> /\ woken' = woken \ {c}
    OBVIOUS
  <2>4. QED BY <2>1, <2>2, <2>3 DEF NoLostWakeup
<1>4. NoneAsleepAfterShutdown' BY DEF NoneAsleepAfterShutdown
<1>5. PendingOffer' BY DEF PendingOffer, Idle, TypeOK
<1>6. QED BY <1>1, <1>2, <1>3, <1>4, <1>5

(* A consumer goes to sleep on an empty queue.                             *)
LEMMA AwaitItemInv ==
  ASSUME IInv, NEW c \in Consumers, queue = << >>, ~shut,
         notEmpty' = notEmpty \cup {c}, call' \in [Consumers -> Call], Leave(c)
  PROVE  IInv'
<1> USE QueueAssumption DEF IInv, Leave
<1>0. c \notin notFull /\ c \notin Producers
  BY DEF TypeOK
<1>1. TypeOK' BY <1>0 DEF TypeOK, Threads
<1>2. LogIntact' BY DEF LogIntact
<1>3. NoLostWakeup'
  <2>1. Cardinality((woken \ {c}) \cap Producers) = Cardinality(woken \cap Producers)
    <3>1. (woken \ {c}) \cap Producers = woken \cap Producers
      BY <1>0
    <3>2. QED BY <3>1
  <2>2. Len(queue) = 0 /\ Cardinality((woken \ {c}) \cap Consumers) \in Nat
    BY WokenCount
  <2>3. UNCHANGED <<queue, notFull>> /\ woken' = woken \ {c}
    OBVIOUS
  <2>4. QED BY <2>1, <2>2, <2>3 DEF NoLostWakeup
<1>4. NoneAsleepAfterShutdown' BY DEF NoneAsleepAfterShutdown
<1>5. PendingOffer' BY <1>0 DEF PendingOffer, Idle, TypeOK
<1>6. QED BY <1>1, <1>2, <1>3, <1>4, <1>5

LEMMA PopSectionInv ==
  ASSUME IInv, NEW c \in Consumers, c \notin notEmpty,
         call' \in [Consumers -> Call], PopSection(c)
  PROVE  IInv'
<1>1. notEmpty \ {c} = notEmpty
  OBVIOUS
<1>2. CASE queue # << >> /\ Dequeue(c) /\ UNCHANGED notEmpty
  BY <1>1, <1>2, DequeueInv DEF LeavesWaitSet
<1>3. CASE queue = << >> /\ shut /\ Leave(c) /\ UNCHANGED notEmpty
  BY <1>1, <1>3, LeaveInv DEF LeavesWaitSet
<1>4. CASE queue = << >> /\ ~shut /\ notEmpty' = notEmpty \cup {c} /\ Leave(c)
  BY <1>4, AwaitItemInv
<1>5. QED BY <1>2, <1>3, <1>4 DEF PopSection

LEMMA ShutdownInv ==
  ASSUME IInv, Shutdown
  PROVE  IInv'
<1> USE DEF IInv, Shutdown
<1>1. TypeOK' BY DEF TypeOK, Threads
<1>2. LogIntact' BY DEF LogIntact
<1>3. NoLostWakeup' /\ NoneAsleepAfterShutdown'
  BY DEF NoLostWakeup, NoneAsleepAfterShutdown
<1>4. PendingOffer' BY DEF PendingOffer, Idle
<1>5. QED BY <1>1, <1>2, <1>3, <1>4
-----------------------------------------------------------------------------
LEMMA OfferAdvances ==
  ASSUME IInv, NEW p \in Producers, Offer(p)
  PROVE  /\ Advances(p)
         /\ <<p, offered[p] + 1>> \in Item
         /\ p \notin notEmpty \cup notFull
<1>1. offered[p] \in 0..MaxItems /\ offered[p] + 1 \in 1..MaxItems
  BY QueueAssumption DEF IInv, TypeOK, Offer
<1>2. Advances(p)
  BY <1>1, QueueAssumption DEF IInv, TypeOK, Offer, Advances
<1>3. QED BY <1>1, <1>2 DEF Offer, Item, Idle

LEMMA PushWakeAdvances ==
  ASSUME IInv, NEW p \in Producers, PushWake(p)
  PROVE  /\ Advances(p)
         /\ <<p, offered[p]>> \in Item
         /\ p \notin notEmpty \cup notFull
<1>1. p \notin notEmpty \cup notFull /\ offered[p] > 0
  BY DEF IInv, TypeOK, PendingOffer, PushWake, Idle
<1>2. offered[p] \in 1..MaxItems
  BY <1>1, QueueAssumption DEF IInv, TypeOK
<1>3. Advances(p)
  BY <1>1, QueueAssumption DEF IInv, TypeOK, PushWake, Advances
<1>4. QED BY <1>1, <1>2, <1>3 DEF Item

LEMMA TryPushInv ==
  ASSUME IInv, NEW p \in Producers, TryPush(p)
  PROVE  IInv'
<1>1. Offer(p) /\ Advances(p) /\ <<p, offered[p] + 1>> \in Item
      /\ p \notin notEmpty \cup notFull
  BY OfferAdvances DEF TryPush
<1>2. CASE Refused
  <2>1. UNCHANGED <<queue, shut, notEmpty, notFull, woken, call,
                    accepted, delivered, discarded>>
    BY <1>2 DEF TryPush
  <2>2. TypeOK' BY <1>1, <2>1 DEF IInv, TypeOK, Advances
  <2>3. LogIntact' /\ NoneAsleepAfterShutdown' /\ NoLostWakeup'
    BY <2>1 DEF IInv, LogIntact, NoneAsleepAfterShutdown, NoLostWakeup
  <2>4. PendingOffer'
    BY <1>1, <2>1, QueueAssumption DEF IInv, TypeOK, PendingOffer, Idle, Advances
  <2>5. QED BY <2>2, <2>3, <2>4 DEF IInv
<1>3. CASE ~Refused
  BY <1>1, <1>3, EnqueueInv DEF TryPush, Refused
<1>4. QED BY <1>2, <1>3

LEMMA ExpireInv ==
  ASSUME IInv, NEW c \in Consumers, Expire(c)
  PROVE  IInv'
<1>1. LeavesWaitSet(c)
  BY DEF Expire, LeavesWaitSet, IInv, TypeOK
<1>2. CASE queue # << >>
  BY <1>1, <1>2, DequeueInv DEF Expire
<1>3. CASE queue = << >>
  BY <1>1, <1>3, LeaveInv DEF Expire
<1>4. QED BY <1>2, <1>3

(* Every step keeps the inductive invariant.                               *)
THEOREM IInvStep == IInv /\ [Next]_vars => IInv'
<1> SUFFICES ASSUME IInv, [Next]_vars PROVE IInv'
  OBVIOUS
<1>1. ASSUME NEW p \in Producers, Push(p) PROVE IInv'
  BY <1>1, OfferAdvances, PushSectionInv DEF Push
<1>2. ASSUME NEW p \in Producers, TryPush(p) PROVE IInv'
  BY <1>2, TryPushInv
<1>3. ASSUME NEW p \in Producers, PushWake(p) PROVE IInv'
  BY <1>3, PushWakeAdvances, PushSectionInv DEF PushWake
<1>4. ASSUME NEW c \in Consumers, Pop(c) PROVE IInv'
  <2>1. c \notin notEmpty /\ call' \in [Consumers -> Call]
    BY <1>4 DEF Pop, Idle, Call, IInv, TypeOK
  <2>2. QED BY <1>4, <2>1, PopSectionInv DEF Pop
<1>5. ASSUME NEW c \in Consumers, PopWithTimeout(c) PROVE IInv'
  <2>1. c \notin notEmpty /\ call' \in [Consumers -> Call]
    BY <1>5 DEF PopWithTimeout, Idle, Call, IInv, TypeOK
  <2>2. QED BY <1>5, <2>1, PopSectionInv DEF PopWithTimeout
<1>6. ASSUME NEW c \in Consumers, PopWake(c) PROVE IInv'
  <2>1. c \notin notEmpty /\ call' \in [Consumers -> Call]
    BY <1>6 DEF PopWake, IInv, TypeOK
  <2>2. QED BY <1>6, <2>1, PopSectionInv DEF PopWake
<1>7. ASSUME NEW c \in Consumers, Expire(c) PROVE IInv'
  BY <1>7, ExpireInv
<1>8. CASE Shutdown
  BY <1>8, ShutdownInv
<1>9. CASE UNCHANGED vars
  BY <1>9 DEF vars, IInv, TypeOK, LogIntact, NoLostWakeup,
              NoneAsleepAfterShutdown, PendingOffer, Idle
<1>10. QED BY <1>1, <1>2, <1>3, <1>4, <1>5, <1>6, <1>7, <1>8, <1>9 DEF Next

(* The inductive invariant holds of every behaviour of the queue.          *)
THEOREM IInvInvariant == Spec => []IInv
BY IInvInit, IInvStep, PTL DEF Spec

(* The deque stays within max_size and every variable keeps its type,      *)
(* whatever push, try_push, pop, pop_with_timeout and shutdown do.         *)
THEOREM TypeCorrect == Spec => []TypeOK
<1>1. IInv => TypeOK BY DEF IInv
<1>2. QED BY <1>1, IInvInvariant, PTL

(* push, pop and pop_with_timeout lose, repeat and reorder no item.        *)
THEOREM NothingLostOrReordered == Spec => []LogIntact
<1>1. IInv => LogIntact BY DEF IInv
<1>2. QED BY <1>1, IInvInvariant, PTL

(* One notify per push and per pop is enough: no thread of any number of   *)
(* them sleeps beside an item or a free slot nobody is on the way to.      *)
THEOREM WakeupsSuffice == Spec => []NoLostWakeup
<1>1. IInv => NoLostWakeup BY DEF IInv
<1>2. QED BY <1>1, IInvInvariant, PTL

(* shutdown() strands no thread in push, pop or pop_with_timeout.          *)
THEOREM ShutdownStrandsNobody == Spec => []NoneAsleepAfterShutdown
<1>1. IInv => NoneAsleepAfterShutdown BY DEF IInv
<1>2. QED BY <1>1, IInvInvariant, PTL
-----------------------------------------------------------------------------
LEMMA EnqueueSends ==
  ASSUME IInv, NEW p \in Producers, NEW item \in Item, ~shut, ~Full, Enqueue(p, item)
  PROVE  Channel!Send(item)
<1>1. Len(accepted) - Len(delivered) < MaxSize
  BY QueueAssumption DEF IInv, TypeOK, LogIntact, Full
<1>2. QED BY <1>1 DEF Enqueue, Channel!Send

LEMMA PushSectionSends ==
  ASSUME IInv, NEW p \in Producers, NEW item \in Item, PushSection(p, item)
  PROVE  [Channel!Next]_<<accepted, delivered, shut>>
<1>1. CASE shut /\ Discard(p, item)
  BY <1>1 DEF Discard
<1>2. CASE ~shut /\ ~Full /\ Enqueue(p, item)
  BY <1>2, EnqueueSends DEF Channel!Next
<1>3. CASE ~shut /\ Full /\ AwaitRoom(p)
  BY <1>3 DEF AwaitRoom
<1>4. QED BY <1>1, <1>2, <1>3 DEF PushSection

LEMMA DequeueReceives ==
  ASSUME IInv, NEW c \in Consumers, queue # << >>, Dequeue(c)
  PROVE  Channel!Receive
<1>1. Len(queue) \in Nat \ {0} /\ Head(queue) = queue[1]
  BY DEF IInv, TypeOK
<1>2. Len(delivered) < Len(accepted) /\ accepted[Len(delivered) + 1] = queue[1]
  BY <1>1 DEF IInv, TypeOK, LogIntact
<1>3. QED BY <1>1, <1>2 DEF Dequeue, Channel!Receive

LEMMA PopSectionReceives ==
  ASSUME IInv, NEW c \in Consumers, PopSection(c)
  PROVE  [Channel!Next]_<<accepted, delivered, shut>>
<1>1. CASE queue # << >> /\ Dequeue(c)
  BY <1>1, DequeueReceives DEF Channel!Next
<1>2. CASE Leave(c)
  BY <1>2 DEF Leave
<1>3. QED BY <1>1, <1>2 DEF PopSection

(* Every step of the queue is a step of the channel or leaves it alone.    *)
THEOREM ChannelStep ==
  IInv /\ [Next]_vars => [Channel!Next]_<<accepted, delivered, shut>>
<1> SUFFICES ASSUME IInv, [Next]_vars
             PROVE  [Channel!Next]_<<accepted, delivered, shut>>
  OBVIOUS
<1>1. ASSUME NEW p \in Producers, Push(p) \/ PushWake(p)
      PROVE  [Channel!Next]_<<accepted, delivered, shut>>
  BY <1>1, OfferAdvances, PushWakeAdvances, PushSectionSends DEF Push, PushWake
<1>2. ASSUME NEW p \in Producers, TryPush(p)
      PROVE  [Channel!Next]_<<accepted, delivered, shut>>
  BY <1>2, OfferAdvances, EnqueueSends DEF TryPush, Refused, Channel!Next
<1>3. ASSUME NEW c \in Consumers, Pop(c) \/ PopWithTimeout(c) \/ PopWake(c)
      PROVE  [Channel!Next]_<<accepted, delivered, shut>>
  BY <1>3, PopSectionReceives DEF Pop, PopWithTimeout, PopWake
<1>4. ASSUME NEW c \in Consumers, Expire(c)
      PROVE  [Channel!Next]_<<accepted, delivered, shut>>
  BY <1>4, DequeueReceives DEF Expire, Leave, Channel!Next
<1>5. CASE Shutdown
  BY <1>5 DEF Shutdown, Channel!Next, Channel!Close
<1>6. CASE UNCHANGED vars
  BY <1>6 DEF vars
<1>7. QED BY <1>1, <1>2, <1>3, <1>4, <1>5, <1>6 DEF Next

(* The condition-variable queue implements the bounded channel.            *)
THEOREM QueueImplementsChannel == Spec => ImplementsChannel
<1>1. Init => Channel!Init
  BY DEF Init, Channel!Init
<1>2. QED BY <1>1, ChannelStep, IInvInvariant, PTL
           DEF Spec, ImplementsChannel, Channel!Spec, Channel!chanVars
=============================================================================
