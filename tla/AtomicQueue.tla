---------------------------- MODULE AtomicQueue ----------------------------
(***************************************************************************)
(* What a struct suscan_mq promises to its users (analyzer/mq.h): a queue  *)
(* in which a message appears at once when it is written, at the back or,  *)
(* if urgent, at the front, and disappears at once when one reader gets    *)
(* it, that reader taking the first message of the type it asks for.       *)
(* No locks, no waiting: MessageQueue.tla has those and implements this.   *)
(***************************************************************************)
EXTENDS Integers, SequencesExt

CONSTANTS Threads, Msgs, Types, TypeOf, AnyType, NoMsg

VARIABLES queue, got, written

Matches(sel, m) == sel = AnyType \/ TypeOf[m] = sel

\* Place i is the first in s whose message sel asks for.
IsFirst(s, sel, i) ==
  /\ Matches(sel, s[i])
  /\ \A j \in 1..(i - 1) : ~Matches(sel, s[j])

Init ==
  /\ queue = <<>>
  /\ got = [t \in Threads |-> NoMsg]
  /\ written = {}

Put(m) ==
  /\ m \notin written
  /\ written' = written \cup {m}
  /\ queue' \in {Append(queue, m), Cons(m, queue)}
  /\ UNCHANGED got

Get(t, sel) ==
  /\ got[t] = NoMsg
  /\ \E i \in 1..Len(queue) :
       /\ IsFirst(queue, sel, i)
       /\ got' = [got EXCEPT ![t] = queue[i]]
       /\ queue' = RemoveAt(queue, i)
  /\ UNCHANGED written

\* The thread is done with the message it got.
Done(t) ==
  /\ got' = [got EXCEPT ![t] = NoMsg]
  /\ UNCHANGED <<queue, written>>

Next ==
  \/ \E m \in Msgs : Put(m)
  \/ \E t \in Threads : Done(t) \/ \E sel \in Types \cup {AnyType} : Get(t, sel)

Spec == Init /\ [][Next]_<<queue, got, written>>

=============================================================================
