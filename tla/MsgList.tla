------------------------------ MODULE MsgList ------------------------------
(***************************************************************************)
(* The linked list inside struct suscan_mq (analyzer/mq.h) and the pool of *)
(* message cells it shares with every other queue (analyzer/mq.c).         *)
(*                                                                         *)
(* All of these functions run with the queue's acquire_lock held, so they  *)
(* are one sequential program here; MessageQueue.tla has the threads.  The *)
(* two loops over the list (suscan_mq_trigger_cleanup and                  *)
(* suscan_mq_pop_w_type) are walked one node per step, with the cursor     *)
(* (this, prev) of the code.                                               *)
(*                                                                         *)
(* mq is a history variable: the queue the pointers are meant to represent,*)
(* changed only by sequence operations.  pos is the cursor's place in it.  *)
(***************************************************************************)
EXTENDS Integers, SequencesExt

CONSTANTS
  Cells,      \* addresses at which a struct suscan_msg can live
  MsgTypes,   \* message types
  NULL,
  Watermark,  \* mq->cleanup_watermark; 0 disables the cleanup
  PoolMax     \* SUSCAN_MQ_POOL_OVERFLOW_THRESHOLD

ASSUME MsgListAssumption ==
  /\ NULL \notin Cells
  /\ Watermark \in Nat
  /\ PoolMax \in Nat

VARIABLES
  head, tail, count,  \* of struct suscan_mq
  next, type,         \* fields of every cell
  pool,               \* the free list g_msg_pool, top first
  held,               \* cells owned by callers: allocated or popped
  op,                 \* which loop is running: "idle", "cleanup", "search"
  this, prev, want,   \* locals of the loops
  mq, pos             \* history

list == <<head, tail, count>>
cells == <<next, type, pool, held>>
cursor == <<op, this, prev, want, pos>>
list_vars == <<list, cells, cursor, mq>>

Link == Cells \cup {NULL}

ListInit ==
  /\ head = NULL /\ tail = NULL /\ count = 0
  /\ next \in [Cells -> {NULL}]
  /\ \E t \in MsgTypes : type = [c \in Cells |-> t]
  /\ pool = <<>>
  /\ held = {}
  /\ op = "idle" /\ this = NULL /\ prev = NULL /\ pos = 1
  /\ want \in MsgTypes
  /\ mq = <<>>

-----------------------------------------------------------------------------
(* The cell pool *)

\* Cells that neither the pool, a queue nor a caller has: malloc() picks one.
Unused == Cells \ (ToSet(pool) \cup ToSet(mq) \cup held)

suscan_mq_alloc_msg(c) ==
  IF pool # <<>>
    THEN c = Head(pool) /\ pool' = Tail(pool)
    ELSE c \in Unused /\ pool' = pool

\* The pool keeps the cell unless it is full, in which case free() takes it.
suscan_mq_return_msg(c) ==
  pool' = IF Len(pool) < PoolMax THEN Cons(c, pool) ELSE pool

suscan_msg_new(c, t) ==
  /\ op = "idle"
  /\ suscan_mq_alloc_msg(c)
  /\ type' = [type EXCEPT ![c] = t]
  /\ next' = [next EXCEPT ![c] = NULL]
  /\ held' = held \cup {c}
  /\ UNCHANGED <<list, cursor, mq>>

suscan_msg_destroy(c) ==
  /\ op = "idle"
  /\ c \in held
  /\ held' = held \ {c}
  /\ suscan_mq_return_msg(c)
  /\ UNCHANGED <<list, next, type, cursor, mq>>

-----------------------------------------------------------------------------
(* Insertion, with the cleanup check that ends both of its forms *)

suscan_mq_cleanup_if_needed ==
  /\ IF Watermark > 0 /\ count' >= Watermark
       THEN op' = "cleanup" /\ this' = head' /\ prev' = NULL /\ pos' = 1
       ELSE UNCHANGED <<op, this, prev, pos>>
  /\ UNCHANGED want

suscan_mq_push_front(c) ==
  /\ op = "idle"
  /\ c \in held
  /\ next' = [next EXCEPT ![c] = head]
  /\ head' = c
  /\ tail' = IF tail = NULL THEN c ELSE tail
  /\ count' = count + 1
  /\ mq' = Cons(c, mq)
  /\ held' = held \ {c}
  /\ suscan_mq_cleanup_if_needed
  /\ UNCHANGED <<type, pool>>

suscan_mq_push(c) ==
  /\ op = "idle"
  /\ c \in held
  /\ next' = IF tail # NULL THEN [next EXCEPT ![tail] = c] ELSE next
  /\ tail' = c
  /\ head' = IF head = NULL THEN c ELSE head
  /\ count' = count + 1
  /\ mq' = Append(mq, c)
  /\ held' = held \ {c}
  /\ suscan_mq_cleanup_if_needed
  /\ UNCHANGED <<type, pool>>

-----------------------------------------------------------------------------
(* Removal *)

\* The locals of a loop die when its function returns.
Return ==
  /\ op' = "idle" /\ this' = NULL /\ prev' = NULL /\ pos' = 1
  /\ UNCHANGED want

suscan_mq_pop ==
  /\ op = "idle"
  /\ head # NULL
  /\ head' = next[head]
  /\ tail' = IF next[head] = NULL THEN NULL ELSE tail
  /\ next' = [next EXCEPT ![head] = NULL]
  /\ count' = count - 1
  /\ held' = held \cup {head}
  /\ mq' = Tail(mq)
  /\ UNCHANGED <<type, pool, cursor>>

suscan_mq_pop_w_type(t) ==
  /\ op = "idle"
  /\ op' = "search" /\ want' = t
  /\ this' = head /\ prev' = NULL /\ pos' = 1
  /\ UNCHANGED <<list, cells, mq>>

SearchNext ==
  /\ op = "search"
  /\ this # NULL /\ type[this] # want
  /\ prev' = this /\ this' = next[this] /\ pos' = pos + 1
  /\ UNCHANGED <<list, cells, op, want, mq>>

SearchMissed ==
  /\ op = "search" /\ this = NULL
  /\ Return
  /\ UNCHANGED <<list, cells, mq>>

SearchUnlink ==
  /\ op = "search"
  /\ this # NULL /\ type[this] = want
  /\ head' = IF prev = NULL THEN next[this] ELSE head
  /\ tail' = IF this = tail THEN prev ELSE tail
  /\ next' = [c \in Cells |-> IF c = this THEN NULL
                              ELSE IF c = prev THEN next[this] ELSE next[c]]
  /\ count' = count - 1
  /\ held' = held \cup {this}
  /\ mq' = RemoveAt(mq, pos)
  /\ Return
  /\ UNCHANGED <<type, pool>>

-----------------------------------------------------------------------------
(* suscan_mq_trigger_cleanup: the callback try_destroy decides per message *)

CleanupKeep ==
  /\ op = "cleanup" /\ this # NULL
  /\ prev' = this /\ this' = next[this] /\ pos' = pos + 1
  /\ UNCHANGED <<list, cells, op, want, mq>>

\* Mutant: the tail is not moved back.
DropKeepsTail ==
  /\ op = "cleanup" /\ this # NULL
  /\ next' = IF prev # NULL THEN [next EXCEPT ![prev] = next[this]] ELSE next
  /\ head' = IF prev # NULL THEN head ELSE next[this]
  /\ suscan_mq_return_msg(this)
  /\ count' = count - 1
  /\ mq' = RemoveAt(mq, pos)
  /\ this' = next[this]
  /\ UNCHANGED <<tail, type, held, op, prev, want, pos>>

CleanupDrop ==
  /\ op = "cleanup" /\ this # NULL
  /\ next' = IF prev # NULL THEN [next EXCEPT ![prev] = next[this]] ELSE next
  /\ head' = IF prev # NULL THEN head ELSE next[this]
  /\ tail' = IF next[this] = NULL THEN prev ELSE tail
  /\ suscan_mq_return_msg(this)
  /\ count' = count - 1
  /\ mq' = RemoveAt(mq, pos)
  /\ this' = next[this]
  /\ UNCHANGED <<type, held, op, prev, want, pos>>

CleanupDone ==
  /\ op = "cleanup" /\ this = NULL
  /\ Return
  /\ UNCHANGED <<list, cells, mq>>

ListNext ==
  \/ \E c \in Cells, t \in MsgTypes : suscan_msg_new(c, t)
  \/ \E c \in Cells : \/ suscan_msg_destroy(c)
                      \/ suscan_mq_push_front(c)
                      \/ suscan_mq_push(c)
  \/ suscan_mq_pop
  \/ \E t \in MsgTypes : suscan_mq_pop_w_type(t)
  \/ SearchNext \/ SearchMissed \/ SearchUnlink
  \/ CleanupKeep \/ CleanupDrop \/ CleanupDone

ListSpec == ListInit /\ [][ListNext]_list_vars

-----------------------------------------------------------------------------
(* Properties *)

\* Every field of the queue and of the cells has a value of its C type.
ListTypeOK ==
  /\ head \in Link /\ tail \in Link /\ count \in Nat
  /\ next \in [Cells -> Link] /\ type \in [Cells -> MsgTypes]
  /\ pool \in Seq(Cells) /\ held \subseteq Cells
  /\ op \in {"idle", "cleanup", "search"}
  /\ this \in Link /\ prev \in Link /\ want \in MsgTypes
  /\ mq \in Seq(Cells) /\ pos \in Nat \ {0}

\* What head, tail, count and the next pointers must say for the list to be
\* the sequence mq: the representation invariant of every function of mq.c.
ListIsSequence ==
  /\ count = Len(mq)
  /\ head = IF mq = <<>> THEN NULL ELSE mq[1]
  /\ tail = IF mq = <<>> THEN NULL ELSE mq[Len(mq)]
  /\ \A i \in 1..Len(mq) :
       next[mq[i]] = IF i = Len(mq) THEN NULL ELSE mq[i + 1]

\* A cell has one owner: no cell is twice in the queue or twice in the pool,
\* or in two of the queue, the pool and a caller's hands (no double free, no
\* message freed while it is queued).
SingleOwner ==
  /\ IsInjective(mq) /\ IsInjective(pool)
  /\ ToSet(mq) \cap ToSet(pool) = {}
  /\ (ToSet(mq) \cup ToSet(pool)) \cap held = {}

\* suscan_mq_push does not write msg->next, so whoever owns a message must
\* keep it NULL: suscan_msg_new and both pops have to clear it.
HeldIsDetached == \A c \in held : next[c] = NULL

\* Both loops: the cursor is a node of the list and its predecessor, also
\* after a removal under it, and a search has passed no message it wanted.
CursorInList ==
  op # "idle" =>
    /\ pos \in 1..(Len(mq) + 1)
    /\ this = IF pos <= Len(mq) THEN mq[pos] ELSE NULL
    /\ prev = IF pos = 1 THEN NULL ELSE mq[pos - 1]
    /\ op = "search" => \A i \in 1..(pos - 1) : type[mq[i]] # want

=============================================================================
