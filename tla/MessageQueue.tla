---------------------------- MODULE MessageQueue ----------------------------
(***************************************************************************)
(* The threads of struct suscan_mq (analyzer/mq.c): readers (blocking or   *)
(* with a timeout, of any message or of one type), pollers, writers        *)
(* (normal or urgent) and bare suscan_mq_wait() calls, around acquire_lock *)
(* and acquire_cond.                                                       *)
(*                                                                         *)
(* The queue itself is the sequence MsgList.tla shows the linked list to   *)
(* be.  The queues modelled here have no cleanup watermark; TxThread.tla   *)
(* has the one that does.  A message is written once.                      *)
(*                                                                         *)
(* The mutex and the condition variable are pthreads': a wait releases the *)
(* lock and joins the waiters in one step, a broadcast wakes all of them,  *)
(* a waiter may also wake for no reason, and it returns only with the lock.*)
(***************************************************************************)
EXTENDS Integers, SequencesExt

CONSTANTS
  Threads, Msgs, Types,
  TypeOf,               \* the type field of every message
  CallsOf,              \* the calls each thread makes
  AnyType, NoMsg, Free

\* The calls of mq.h.
Selectors == Types \cup {AnyType}
Reads == [kind : {"read"}, sel : Selectors, timed : BOOLEAN]
Polls == [kind : {"poll"}, sel : Selectors]
Waits == [kind : {"wait"}, timed : BOOLEAN]
Writes == [kind : {"write"}, msg : Msgs, urgent : BOOLEAN]
NoCall == [kind |-> "none"]
Calls == Reads \cup Polls \cup Waits \cup Writes

ASSUME MessageQueueAssumption ==
  /\ CallsOf \in [Threads -> SUBSET Calls]
  /\ TypeOf \in [Msgs -> Types]
  /\ AnyType \notin Types
  /\ NoMsg \notin Msgs
  /\ Free \notin Threads

VARIABLES
  q,          \* the messages in the list, first to last
  lock,       \* owner of acquire_lock, or Free
  pc,         \* where each thread is in its call
  call,       \* the call each thread is in
  got,        \* the message the call returned, NoMsg for a NULL return
  \* History:
  stamp,      \* when each message was inserted: 1, 2, ...; 0 if not yet
  urgent,     \* the messages inserted with suscan_mq_write_urgent
  clock       \* number of insertions so far

history == <<stamp, urgent, clock>>
vars == <<q, lock, pc, call, got, history>>

-----------------------------------------------------------------------------
Matches(sel, m) == sel = AnyType \/ TypeOf[m] = sel

\* Place i is where suscan_mq_pop (any type) or suscan_mq_pop_w_type stops.
IsFirst(s, sel, i) ==
  /\ Matches(sel, s[i])
  /\ \A j \in 1..(i - 1) : ~Matches(sel, s[j])

\* Messages some write call already owns.
InFlight == {m \in Msgs : \E t \in Threads :
               call[t].kind = "write" /\ call[t].msg = m}

-----------------------------------------------------------------------------

Init ==
  /\ q = <<>>
  /\ lock = Free
  /\ pc = [t \in Threads |-> "idle"]
  /\ call = [t \in Threads |-> NoCall]
  /\ got = [t \in Threads |-> NoMsg]
  /\ stamp = [m \in Msgs |-> 0]
  /\ urgent = {}
  /\ clock = 0

GoTo(t, there) == pc' = [pc EXCEPT ![t] = there]

\* A thread calls one of the functions; a written message is a new one.
Call(t, c) ==
  /\ pc[t] = "idle"
  /\ c \in Writes => c.msg \notin InFlight /\ stamp[c.msg] = 0
  /\ call' = [call EXCEPT ![t] = c]
  /\ got' = [got EXCEPT ![t] = NoMsg]
  /\ GoTo(t, "enter")
  /\ UNCHANGED <<q, lock, history>>

suscan_mq_enter(t) ==
  /\ pc[t] = "enter"
  /\ lock = Free
  /\ lock' = t
  /\ GoTo(t, "locked")
  /\ UNCHANGED <<q, call, got, history>>

\* Mutant: the search drops what it skips.
PopDropsSkipped(t) ==
  /\ pc[t] = "locked"
  /\ call[t].kind \in {"read", "poll"}
  /\ \E i \in 1..Len(q) :
       /\ IsFirst(q, call[t].sel, i)
       /\ got' = [got EXCEPT ![t] = q[i]]
       /\ q' = SubSeq(q, i + 1, Len(q))
  /\ GoTo(t, "leave")
  /\ UNCHANGED <<lock, call, history>>

\* The pop of a read or of a poll finds a message.
Pop(t) ==
  /\ pc[t] = "locked"
  /\ call[t].kind \in {"read", "poll"}
  /\ \E i \in 1..Len(q) :
       /\ IsFirst(q, call[t].sel, i)
       /\ got' = [got EXCEPT ![t] = q[i]]
       /\ q' = RemoveAt(q, i)
  /\ GoTo(t, "leave")
  /\ UNCHANGED <<lock, call, history>>

NothingFor(t) == ~\E i \in 1..Len(q) : Matches(call[t].sel, q[i])

\* A poll that finds nothing returns NULL.
PollEmpty(t) ==
  /\ pc[t] = "locked"
  /\ call[t].kind = "poll"
  /\ NothingFor(t)
  /\ GoTo(t, "leave")
  /\ UNCHANGED <<q, lock, call, got, history>>

\* A read that finds nothing waits; suscan_mq_wait does so without looking.
Wait(t) ==
  /\ pc[t] = "locked"
  /\ \/ call[t].kind = "read" /\ NothingFor(t)
     \/ call[t].kind = "wait"
  /\ lock' = Free
  /\ GoTo(t, "waiting")
  /\ UNCHANGED <<q, call, got, history>>

\* Mutant: pthread_cond_signal, which wakes one waiter.
SignalOne(t) ==
  LET waiting == {u \in Threads : pc[u] = "waiting"} IN
  IF waiting = {} THEN GoTo(t, "leave")
  ELSE \E u \in waiting : pc' = [pc EXCEPT ![t] = "leave", ![u] = "woken"]

\* suscan_mq_notify: the broadcast of a writer that goes on to "leave".
Broadcast(t) ==
  pc' = [u \in Threads |-> IF u = t THEN "leave"
                           ELSE IF pc[u] = "waiting" THEN "woken" ELSE pc[u]]

suscan_mq_write_msg(t) ==
  /\ pc[t] = "locked"
  /\ call[t].kind = "write" /\ ~call[t].urgent
  /\ q' = Append(q, call[t].msg)
  /\ Broadcast(t)
  /\ stamp' = [stamp EXCEPT ![call[t].msg] = clock + 1]
  /\ clock' = clock + 1
  /\ UNCHANGED <<lock, call, got, urgent>>

suscan_mq_write_msg_urgent(t) ==
  /\ pc[t] = "locked"
  /\ call[t].kind = "write" /\ call[t].urgent
  /\ q' = Cons(call[t].msg, q)
  /\ Broadcast(t)
  /\ stamp' = [stamp EXCEPT ![call[t].msg] = clock + 1]
  /\ clock' = clock + 1
  /\ urgent' = urgent \cup {call[t].msg}
  /\ UNCHANGED <<lock, call, got>>

SpuriousWakeup(t) ==
  /\ pc[t] = "waiting"
  /\ GoTo(t, "woken")
  /\ UNCHANGED <<q, lock, call, got, history>>

Timeout(t) ==
  /\ pc[t] = "waiting"
  /\ call[t].timed
  /\ GoTo(t, "expired")
  /\ UNCHANGED <<q, lock, call, got, history>>

\* The wait returns: a read looks again, unless its time is over, in which
\* case it gives up without looking; suscan_mq_wait is done.
Reacquire(t) ==
  /\ pc[t] \in {"woken", "expired"}
  /\ lock = Free
  /\ lock' = t
  /\ GoTo(t, IF pc[t] = "woken" /\ call[t].kind = "read" THEN "locked" ELSE "leave")
  /\ UNCHANGED <<q, call, got, history>>

suscan_mq_leave(t) ==
  /\ pc[t] = "leave"
  /\ lock' = Free
  /\ call' = [call EXCEPT ![t] = NoCall]
  /\ GoTo(t, "idle")
  /\ UNCHANGED <<q, got, history>>

Step(t) ==
  \/ suscan_mq_enter(t) \/ Reacquire(t)
  \/ Pop(t) \/ PollEmpty(t) \/ Wait(t)
  \/ suscan_mq_write_msg(t) \/ suscan_mq_write_msg_urgent(t)
  \/ suscan_mq_leave(t)

Next == \E t \in Threads :
  \/ \E c \in CallsOf[t] : Call(t, c)
  \/ Step(t)
  \/ SpuriousWakeup(t) \/ Timeout(t)

Spec == Init /\ [][Next]_vars

\* Threads that run keep running, and the mutex starves nobody.
FairSpec ==
  /\ Spec
  /\ \A t \in Threads :
       /\ WF_vars(Step(t))
       /\ SF_vars(suscan_mq_enter(t))
       /\ SF_vars(Reacquire(t))

-----------------------------------------------------------------------------
(* Properties *)

Places == {"idle", "enter", "locked", "leave", "waiting", "woken", "expired"}

\* The queue, the lock and every thread's call have the values they can have.
TypeOK ==
  /\ q \in Seq(Msgs)
  /\ lock \in Threads \cup {Free}
  /\ pc \in [Threads -> Places]
  /\ call \in [Threads -> Calls \cup {NoCall}]
  /\ got \in [Threads -> Msgs \cup {NoMsg}]
  /\ stamp \in [Msgs -> Nat] /\ urgent \subseteq Msgs /\ clock \in Nat

Holds(t) == pc[t] \in {"locked", "leave"}

\* The thread inside the critical section is the owner of acquire_lock, also
\* after it came back from a wait: two threads never edit the list at once.
MutualExclusion == \A t \in Threads : Holds(t) <=> lock = t

\* No read sleeps on the condition while a message it asks for is queued:
\* every insertion wakes every waiter, whatever type each waits for.
NoLostWakeup ==
  \A t \in Threads :
    pc[t] = "waiting" /\ call[t].kind = "read" => NothingFor(t)

Returned == {got[t] : t \in Threads} \ {NoMsg}

\* A message is delivered to one reader, and not while it is still queued.
DeliveredOnce ==
  /\ IsInjective(q)
  /\ Returned \cap ToSet(q) = {}
  /\ \A t, u \in Threads : got[t] = got[u] /\ got[t] # NoMsg => t = u

\* Urgent messages are queued before the normal ones, the newest first; the
\* normal ones stay in the order in which they were written.
QueueOrder ==
  \A i, j \in 1..Len(q) : i < j =>
    IF q[j] \in urgent
      THEN q[i] \in urgent /\ stamp[q[i]] > stamp[q[j]]
      ELSE q[i] \in urgent \/ stamp[q[i]] < stamp[q[j]]

\* Normal messages of one type are delivered in the order they were written,
\* also when some readers ask for that type and others for anything.
FifoPerType ==
  \A m, n \in Msgs \ urgent :
    /\ TypeOf[m] = TypeOf[n]
    /\ 0 < stamp[m] /\ stamp[m] < stamp[n]
    /\ n \notin ToSet(q)
    => m \notin ToSet(q)

Blocked(t) ==
  /\ call[t].kind = "read" /\ ~call[t].timed
  /\ pc[t] \in {"enter", "locked", "waiting", "woken"}

\* A blocking read does not starve while what it asks for stays queued.
ReaderServed ==
  \A t \in Threads, m \in Msgs :
    (Blocked(t) /\ m \in ToSet(q) /\ Matches(call[t].sel, m))
      ~> (m \notin ToSet(q) \/ ~Blocked(t))

\* With the locks and the waiting hidden, this is the queue of AtomicQueue.
Written == {m \in Msgs : stamp[m] > 0}
Abstract == INSTANCE AtomicQueue WITH queue <- q, written <- Written
ImplementsAtomicQueue == Abstract!Spec

=============================================================================
