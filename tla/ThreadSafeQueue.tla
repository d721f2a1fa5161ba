--------------------------- MODULE ThreadSafeQueue ---------------------------
(***************************************************************************)
(* dpi/thread_safe_queue.py: one mutex, the condition variables not_empty  *)
(* and not_full, a bounded deque and a one-way shutdown flag.              *)
(*                                                                         *)
(* A critical section is one action.  A thread that finds its predicate    *)
(* false joins the waiters of its condition; a notification moves it to    *)
(* woken, where it competes for the mutex again and re-tests its predicate *)
(* (Condition.wait_for).  Any other thread may get in between.             *)
(*                                                                         *)
(* A definition marked "mutant" is no part of the specification: it is a   *)
(* plausible bug, put in place of the definition after it to see that the  *)
(* properties notice.                                                      *)
(***************************************************************************)
EXTENDS Naturals, Sequences, FiniteSets

CONSTANTS Producers,  \* threads that call push and try_push
          Consumers,  \* threads that call pop and pop_with_timeout
          Draining,   \* those of them that pop until the queue has no more
          MaxSize,    \* max_size of the queue
          MaxItems    \* bound: items each producer offers

ASSUME QueueAssumption ==
  /\ IsFiniteSet(Producers) /\ IsFiniteSet(Consumers)
  /\ Producers \cap Consumers = {}
  /\ MaxSize \in Nat \ {0}
  /\ MaxItems \in Nat

ASSUME DrainingAssumption == Draining \subseteq Consumers

VARIABLES
  queue,      \* _queue
  shut,       \* _shutdown
  notEmpty,   \* consumers waiting on _not_empty
  notFull,    \* producers waiting on _not_full
  woken,      \* threads notified, still to re-acquire the mutex
  call,       \* the operation each consumer is in
  offered,    \* items each producer has passed to push or try_push
  accepted,   \* history: items appended, in order
  delivered,  \* history: items handed to a consumer, in order
  discarded   \* history: items push dropped without telling its caller

vars == <<queue, shut, notEmpty, notFull, woken, call, offered,
          accepted, delivered, discarded>>

Threads == Producers \cup Consumers
Item == Producers \X (1..MaxItems)
Call == {"pop", "pop_with_timeout"}

\* Not inside an operation of the queue.
Idle(t) == t \notin notEmpty \cup notFull \cup woken

Init ==
  /\ queue = << >> /\ shut = FALSE
  /\ notEmpty = {} /\ notFull = {} /\ woken = {}
  /\ call = [c \in Consumers |-> "pop"]
  /\ offered = [p \in Producers |-> 0]
  /\ accepted = << >> /\ delivered = << >> /\ discarded = {}
-----------------------------------------------------------------------------
Full == Len(queue) >= MaxSize

(* Condition.notify: one waiter, if there is one, goes back to the mutex;  *)
(* running is the set of threads there already.                            *)
NotifyIfWasEmpty(running) ==                                    \* mutant
  IF queue = << >> /\ notEmpty # {}
  THEN \E c \in notEmpty : notEmpty' = notEmpty \ {c} /\ woken' = running \cup {c}
  ELSE woken' = running /\ UNCHANGED notEmpty

NotifyNotEmpty(running) ==
  \/ /\ notEmpty = {}
     /\ woken' = running
     /\ UNCHANGED notEmpty
  \/ \E c \in notEmpty : /\ notEmpty' = notEmpty \ {c}
                         /\ woken' = running \cup {c}

NotifyNotFull(running) ==
  \/ /\ notFull = {}
     /\ woken' = running
     /\ UNCHANGED notFull
  \/ \E p \in notFull : /\ notFull' = notFull \ {p}
                        /\ woken' = running \cup {p}

Enqueue(p, item) ==
  /\ queue' = Append(queue, item)
  /\ accepted' = Append(accepted, item)
  /\ NotifyNotEmpty(woken \ {p})
  /\ UNCHANGED <<shut, notFull, call, delivered, discarded>>

\* push returns without the item and without a word to its caller.
Discard(p, item) ==
  /\ discarded' = discarded \cup {item}
  /\ woken' = woken \ {p}
  /\ UNCHANGED <<queue, shut, notEmpty, notFull, call, accepted, delivered>>

AwaitRoom(p) ==
  /\ notFull' = notFull \cup {p}
  /\ woken' = woken \ {p}
  /\ UNCHANGED <<queue, shut, notEmpty, call, accepted, delivered, discarded>>

(* The critical section of push once the mutex is held, entered afresh or  *)
(* after a wake-up.                                                        *)
PushSection(p, item) ==
  \/ shut /\ Discard(p, item)
  \/ ~shut /\ ~Full /\ Enqueue(p, item)
  \/ ~shut /\ Full /\ AwaitRoom(p)

Offer(p) ==
  /\ Idle(p) /\ offered[p] < MaxItems
  /\ offered' = [offered EXCEPT ![p] = @ + 1]

Push(p) == Offer(p) /\ PushSection(p, <<p, offered[p] + 1>>)

PushWake(p) ==
  /\ p \in woken
  /\ PushSection(p, <<p, offered[p]>>)
  /\ UNCHANGED offered

RefusedOnlyWhenFull == Full                                     \* mutant
Refused == shut \/ Full

\* A refusal is reported to the caller: FALSE, and nothing changes.
TryPush(p) ==
  /\ Offer(p)
  /\ IF Refused
     THEN UNCHANGED <<queue, shut, notEmpty, notFull, woken, call,
                      accepted, delivered, discarded>>
     ELSE Enqueue(p, <<p, offered[p] + 1>>)
-----------------------------------------------------------------------------
Dequeue(c) ==
  /\ queue' = Tail(queue)
  /\ delivered' = Append(delivered, Head(queue))
  /\ NotifyNotFull(woken \ {c})
  /\ UNCHANGED <<shut, offered, accepted, discarded>>

\* The consumer returns to its caller, or goes to sleep, with no item.
Leave(c) ==
  /\ woken' = woken \ {c}
  /\ UNCHANGED <<queue, shut, notFull, offered, accepted, delivered, discarded>>

(* The critical section of pop and of pop_with_timeout.                    *)
PopAbandonsBacklog(c) ==                                        \* mutant
  \/ ~shut /\ queue # << >> /\ Dequeue(c) /\ UNCHANGED notEmpty
  \/ shut /\ Leave(c) /\ UNCHANGED notEmpty
  \/ ~shut /\ queue = << >> /\ notEmpty' = notEmpty \cup {c} /\ Leave(c)

PopIgnoresShutdown(c) ==                                        \* mutant
  \/ queue # << >> /\ Dequeue(c) /\ UNCHANGED notEmpty
  \/ queue = << >> /\ notEmpty' = notEmpty \cup {c} /\ Leave(c)

PopSection(c) ==
  \/ queue # << >> /\ Dequeue(c) /\ UNCHANGED notEmpty
  \/ queue = << >> /\ shut /\ Leave(c) /\ UNCHANGED notEmpty
  \/ queue = << >> /\ ~shut /\ notEmpty' = notEmpty \cup {c} /\ Leave(c)

Pop(c) ==
  /\ Idle(c)
  /\ call' = [call EXCEPT ![c] = "pop"]
  /\ PopSection(c)

PopWithTimeout(c) ==
  /\ Idle(c)
  /\ call' = [call EXCEPT ![c] = "pop_with_timeout"]
  /\ PopSection(c)

PopWake(c) == c \in woken /\ PopSection(c) /\ UNCHANGED call

(* The timer of a waiting pop_with_timeout fires.  wait_for tests the      *)
(* predicate once more before it gives up, so an item is not left behind.  *)
Expire(c) ==
  /\ c \in notEmpty /\ call[c] = "pop_with_timeout"
  /\ notEmpty' = notEmpty \ {c}
  /\ IF queue # << >> THEN Dequeue(c) ELSE Leave(c)
  /\ UNCHANGED call

(* shutdown() by any thread: the flag, and notify_all on both conditions.  *)
Shutdown ==
  /\ shut' = TRUE
  /\ woken' = woken \cup notEmpty \cup notFull
  /\ notEmpty' = {} /\ notFull' = {}
  /\ UNCHANGED <<queue, call, offered, accepted, delivered, discarded>>

Next ==
  \/ \E p \in Producers : Push(p) \/ TryPush(p) \/ PushWake(p)
  \/ \E c \in Consumers : Pop(c) \/ PopWithTimeout(c) \/ PopWake(c) \/ Expire(c)
  \/ Shutdown

Spec == Init /\ [][Next]_vars

Calls(c) == Pop(c) \/ PopWithTimeout(c)

(* A woken thread gets the mutex sooner or later, and a timer fires.  A    *)
(* run loop calls again only while its flag is set, and stop() clears that *)
(* flag before it shuts the queue down: once the queue is shut down, no    *)
(* consumer need call again (FastPathProcessor.stop: what is queued then   *)
(* is never processed).  Only a caller that drains, as the class allows,   *)
(* goes on while there is something left.  Nothing makes a producer offer  *)
(* an item or anybody call shutdown.                                       *)
Fairness ==
  /\ \A p \in Producers : WF_vars(PushWake(p))
  /\ \A c \in Consumers : /\ WF_vars(PopWake(c))
                          /\ WF_vars(Expire(c))
                          /\ WF_vars(~shut /\ Calls(c))
  /\ \A c \in Draining : WF_vars(queue # << >> /\ Calls(c))

FairSpec == Spec /\ Fairness
-----------------------------------------------------------------------------
(* Every variable has its type, the deque never exceeds max_size, and a    *)
(* thread is in at most one of the two conditions and the mutex queue.     *)
TypeOK ==
  /\ queue \in Seq(Item) /\ Len(queue) <= MaxSize
  /\ shut \in BOOLEAN
  /\ notEmpty \subseteq Consumers
  /\ notFull \subseteq Producers
  /\ woken \subseteq Threads \ (notEmpty \cup notFull)
  /\ call \in [Consumers -> Call]
  /\ offered \in [Producers -> 0..MaxItems]
  /\ accepted \in Seq(Item) /\ delivered \in Seq(Item)
  /\ discarded \subseteq Item

(* Nothing lost, duplicated or reordered: what was appended is what was    *)
(* handed out followed by what is still queued (the 4x4 stress test).      *)
LogIntact ==
  /\ Len(accepted) = Len(delivered) + Len(queue)
  /\ \A i \in 1..Len(delivered) : accepted[i] = delivered[i]
  /\ \A i \in 1..Len(queue) : accepted[Len(delivered) + i] = queue[i]

(* No lost wake-up: while a consumer sleeps, every queued item has a woken *)
(* consumer on its way to it, and while a producer sleeps every free slot  *)
(* has a woken producer on its way, although push and pop notify only one. *)
NoLostWakeup ==
  /\ notEmpty # {} => Len(queue) <= Cardinality(woken \cap Consumers)
  /\ notFull # {} => MaxSize - Len(queue) <= Cardinality(woken \cap Producers)

(* shutdown() leaves nobody asleep, and nobody goes to sleep after it.     *)
NoneAsleepAfterShutdown == shut => notEmpty = {} /\ notFull = {}

(* A blocking push loses its item only to a shutdown, and a lost item was  *)
(* never also delivered: push does one of the two, never both.             *)
LossOnlyByShutdown ==
  /\ discarded # {} => shut
  /\ \A i \in 1..Len(accepted) : accepted[i] \notin discarded

(* The queue implements the bounded channel: the waiting, notifying and    *)
(* timing out of its threads never shows.                                  *)
Channel == INSTANCE BoundedChannel WITH Capacity <- MaxSize, closed <- shut

ImplementsChannel == Channel!Spec

(* An item accepted is delivered, never left beside consumers that sleep   *)
(* in pop for ever; only a shutdown with nobody to drain the queue may     *)
(* abandon it.  "A consumer draining after shutdown still sees every item  *)
(* that made it in" (the class docstring), even beside others that have    *)
(* stopped.                                                                *)
EveryItemDelivered ==
  \A n \in 1..MaxItems * Cardinality(Producers) :
    Len(accepted) >= n ~> (Len(delivered) >= n \/ (shut /\ Draining = {}))

(* shutdown() wakes a blocked push and a blocked pop: both return.         *)
ShutdownReleases ==
  \A t \in Threads : (shut /\ ~Idle(t)) ~> Idle(t)
=============================================================================
