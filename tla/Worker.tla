------------------------------- MODULE Worker -------------------------------
(***************************************************************************)
(* suscan_worker_t (analyzer/worker.c): threads that run callbacks taken   *)
(* from their own queue, and the owner that creates them, pushes callbacks *)
(* and halts them, with suscan_worker_halt or, when callbacks write to the *)
(* shared mq_out, with suscan_analyzer_halt_worker (analyzer/analyzer.c).  *)
(*                                                                         *)
(* Queue operations are atomic, which MessageQueue_proofs.tla justifies;   *)
(* only suscan_mq_wait is more than one step, as it looks at no message.   *)
(* suscan_worker_wait_for_halt never runs: the loop ends only with         *)
(* halt_req set.                                                           *)
(***************************************************************************)
EXTENDS Integers, SequencesExt

CONSTANTS
  AllWorkers, Callbacks,
  Periodic,     \* callbacks that may return TRUE, to be queued again
  Publishing,   \* workers whose callbacks write to mq_out
  Aborting,     \* workers that may be asked to halt without being destroyed
  HaltWith,     \* how the owner halts each worker: "worker" or "analyzer"
  MaxOut,       \* bound on the messages in mq_out
  HALT, NULL

ASSUME WorkerAssumption ==
  /\ Periodic \subseteq Callbacks
  /\ Publishing \subseteq AllWorkers /\ Aborting \subseteq AllWorkers
  /\ HaltWith \in [AllWorkers -> {"worker", "analyzer"}]
  /\ MaxOut \in Nat
  /\ HALT \notin Callbacks /\ NULL \notin Callbacks \cup AllWorkers /\ NULL # HALT

VARIABLES
  state,      \* worker->state, "none" before it exists
  halt_req, mq_in,
  mq_out,     \* shared by all the workers
  pc, cur,    \* thread of each worker, and the message it holds
  owner,      \* where the owner is
  subject,    \* the worker its call is about
  home,       \* history: the worker each callback was pushed to
  destroyed,  \* history: how often each callback was freed
  freed,      \* history: the workers freed by suscan_worker_destroy
  late,       \* history: callbacks started after halt_req was set
  aborted     \* history: workers the owner asked to halt, once each

worker_vars == <<state, halt_req, mq_in, mq_out, pc, cur, owner, subject,
          home, destroyed, freed, late, aborted>>
thread == <<pc, cur, late>>
caller == <<owner, subject, aborted>>

Ack(w) == [type |-> "halt", from |-> w]
Data(w) == [type |-> "data", from |-> w]

WorkerInit ==
  /\ state = [w \in AllWorkers |-> "none"]
  /\ halt_req = [w \in AllWorkers |-> FALSE]
  /\ mq_in = [w \in AllWorkers |-> <<>>]
  /\ mq_out = <<>>
  /\ pc = [w \in AllWorkers |-> "none"]
  /\ cur = [w \in AllWorkers |-> NULL]
  /\ owner = "idle" /\ subject = NULL
  /\ home = [c \in Callbacks |-> NULL]
  /\ destroyed = [c \in Callbacks |-> 0]
  /\ freed = {}
  /\ late = [w \in AllWorkers |-> 0]
  /\ aborted = {}

GoTo(w, there) == pc' = [pc EXCEPT ![w] = there]
At(there) == owner' = there /\ UNCHANGED <<subject, aborted>>
Return == owner' = "idle" /\ subject' = NULL /\ aborted' = aborted

\* A write to mq_out ends the owner's suscan_mq_wait, if it is in one.
WriteOut(s) ==
  /\ mq_out' = s
  /\ At(IF owner = "asleep" THEN "drain" ELSE owner)

-----------------------------------------------------------------------------
(* suscan_worker_thread *)

\* while (!worker->halt_req), of the outer and of the inner loop.
LoopTest(w) ==
  /\ pc[w] = "while" /\ GoTo(w, IF halt_req[w] THEN "done" ELSE "read")
  /\ UNCHANGED <<state, halt_req, mq_in, mq_out, cur, caller, home, destroyed, freed, late>>

InnerTest(w) ==
  /\ pc[w] = "inner" /\ GoTo(w, IF halt_req[w] THEN "done" ELSE "poll")
  /\ UNCHANGED <<state, halt_req, mq_in, mq_out, cur, caller, home, destroyed, freed, late>>

\* The message at the head of mq_in: a callback to run, or HALT.
Take(w) ==
  /\ pc[w] \in {"read", "poll"}
  /\ mq_in[w] # <<>>
  /\ mq_in' = [mq_in EXCEPT ![w] = Tail(mq_in[w])]
  /\ IF Head(mq_in[w]) = HALT
       THEN GoTo(w, "done") /\ UNCHANGED <<cur, late>>
       ELSE /\ GoTo(w, "run")
            /\ cur' = [cur EXCEPT ![w] = Head(mq_in[w])]
            /\ late' = [late EXCEPT ![w] = @ + IF halt_req[w] THEN 1 ELSE 0]
  /\ UNCHANGED <<state, halt_req, mq_out, caller, home, destroyed, freed>>

PollEmpty(w) ==
  /\ pc[w] = "poll" /\ mq_in[w] = <<>>
  /\ GoTo(w, "while")
  /\ UNCHANGED <<state, halt_req, mq_in, mq_out, cur, caller, home, destroyed, freed, late>>

CallbackWrites(w) ==
  /\ pc[w] = "run" /\ w \in Publishing
  /\ Len(mq_out) < MaxOut
  /\ WriteOut(Append(mq_out, Data(w)))
  /\ UNCHANGED <<state, halt_req, mq_in, thread, home, destroyed, freed>>

\* The callback returns TRUE.
Requeue(w) ==
  /\ pc[w] = "run" /\ cur[w] \in Periodic
  /\ mq_in' = [mq_in EXCEPT ![w] = Append(@, cur[w])]
  /\ cur' = [cur EXCEPT ![w] = NULL]
  /\ GoTo(w, "inner")
  /\ UNCHANGED <<state, halt_req, mq_out, caller, home, destroyed, freed, late>>

\* The callback returns FALSE.
Finish(w) ==
  /\ pc[w] = "run"
  /\ destroyed' = [destroyed EXCEPT ![cur[w]] = @ + 1]
  /\ cur' = [cur EXCEPT ![w] = NULL]
  /\ GoTo(w, "inner")
  /\ UNCHANGED <<state, halt_req, mq_in, mq_out, caller, home, freed, late>>

\* suscli_datasaver_writer_cb halts its own worker when a write fails.
FinishAborting(w) ==
  /\ pc[w] = "run" /\ w \in Aborting
  /\ halt_req' = [halt_req EXCEPT ![w] = TRUE]
  /\ mq_in' = [mq_in EXCEPT ![w] = Cons(HALT, @)]
  /\ destroyed' = [destroyed EXCEPT ![cur[w]] = @ + 1]
  /\ cur' = [cur EXCEPT ![w] = NULL]
  /\ GoTo(w, "inner")
  /\ UNCHANGED <<state, mq_out, caller, home, freed, late>>

\* Mutant: the state is left for the answer's reader to find out.
DoneSilently(w) ==
  /\ pc[w] = "done"
  /\ GoTo(w, "ack")
  /\ UNCHANGED <<state, halt_req, mq_in, mq_out, cur, caller, home, destroyed, freed, late>>

Done(w) ==
  /\ pc[w] = "done"
  /\ state' = [state EXCEPT ![w] = "halted"]
  /\ GoTo(w, "ack")
  /\ UNCHANGED <<halt_req, mq_in, mq_out, cur, caller, home, destroyed, freed, late>>

suscan_worker_ack_halt(w) ==
  /\ pc[w] = "ack"
  /\ WriteOut(Cons(Ack(w), mq_out))
  /\ GoTo(w, "exited")
  /\ UNCHANGED <<state, halt_req, mq_in, cur, home, destroyed, freed, late>>

suscan_worker_thread(w) ==
  \/ LoopTest(w) \/ InnerTest(w) \/ Take(w) \/ PollEmpty(w)
  \/ Requeue(w) \/ Finish(w) \/ FinishAborting(w)
  \/ Done(w) \/ suscan_worker_ack_halt(w)

-----------------------------------------------------------------------------
(* The owner *)

\* suscan_worker_new_ex: the thread runs before the state says so.
Create(w) ==
  /\ owner = "idle" /\ state[w] = "none"
  /\ owner' = "creating" /\ subject' = w /\ aborted' = aborted
  /\ state' = [state EXCEPT ![w] = "created"]
  /\ GoTo(w, "while")
  /\ UNCHANGED <<halt_req, mq_in, mq_out, cur, home, destroyed, freed, late>>

Created ==
  /\ owner = "creating"
  /\ state' = [state EXCEPT ![subject] = "running"]
  /\ Return
  /\ UNCHANGED <<halt_req, mq_in, mq_out, thread, home, destroyed, freed>>

Alive(w) == state[w] \in {"running", "halted"} /\ w \notin freed

\* By the owner, or by another thread that knows the worker, which may be
\* halting: nobody pushes once it is being destroyed.
suscan_worker_push(w, c) ==
  /\ Alive(w) /\ ~(owner = "destroy" /\ subject = w)
  /\ home[c] = NULL
  /\ home' = [home EXCEPT ![c] = w]
  /\ mq_in' = [mq_in EXCEPT ![w] = Append(@, c)]
  /\ UNCHANGED <<state, halt_req, mq_out, thread, caller, destroyed, freed>>

BeginHalt(w) ==
  /\ owner = "idle" /\ Alive(w)
  /\ owner' = "halting" /\ subject' = w /\ aborted' = aborted
  /\ UNCHANGED <<state, halt_req, mq_in, mq_out, thread, home, destroyed, freed>>

\* while (worker->state == SUSCAN_WORKER_STATE_RUNNING)
HaltLoop ==
  /\ owner = "halting"
  /\ At(IF state[subject] = "running" THEN "flag" ELSE "destroy")
  /\ UNCHANGED <<state, halt_req, mq_in, mq_out, thread, home, destroyed, freed>>

\* suscli_datasaver_write only asks the worker to halt when it fails.
AbortOnly(w) ==
  /\ owner = "idle" /\ Alive(w) /\ w \in Aborting \ aborted
  /\ owner' = "abort" /\ subject' = w /\ aborted' = aborted \cup {w}
  /\ UNCHANGED <<state, halt_req, mq_in, mq_out, thread, home, destroyed, freed>>

\* suscan_worker_req_halt, in two steps: the thread may see the flag first.
SetFlag ==
  /\ owner \in {"flag", "abort"}
  /\ halt_req' = [halt_req EXCEPT ![subject] = TRUE]
  /\ At(IF owner = "flag" THEN "message" ELSE "abort message")
  /\ UNCHANGED <<state, mq_in, mq_out, thread, home, destroyed, freed>>

AfterRequest == IF HaltWith[subject] = "worker" THEN "reading" ELSE "drain"

\* Mutant: no message wakes the thread up.
FlagOnly ==
  /\ owner \in {"message", "abort message"}
  /\ IF owner = "message" THEN At(AfterRequest) ELSE Return
  /\ UNCHANGED <<state, halt_req, mq_in, mq_out, thread, home, destroyed, freed>>

SendHalt ==
  /\ owner \in {"message", "abort message"}
  /\ mq_in' = [mq_in EXCEPT ![subject] = Cons(HALT, @)]
  /\ IF owner = "message" THEN At(AfterRequest) ELSE Return
  /\ UNCHANGED <<state, halt_req, mq_out, thread, home, destroyed, freed>>

\* suscan_worker_halt: a blocking read, and any other message is an error.
ReadAck ==
  /\ owner = "reading" /\ mq_out # <<>>
  /\ mq_out' = Tail(mq_out)
  /\ At(IF Head(mq_out).type = "halt" THEN "halting" ELSE "failed")
  /\ UNCHANGED <<state, halt_req, mq_in, thread, home, destroyed, freed>>

\* suscan_analyzer_consume_mq_until_halt
Consume ==
  /\ owner = "drain" /\ mq_out # <<>>
  /\ mq_out' = Tail(mq_out)
  /\ At(IF Head(mq_out).type = "halt" THEN "halting" ELSE "drain")
  /\ UNCHANGED <<state, halt_req, mq_in, thread, home, destroyed, freed>>

ConsumedAll ==
  /\ owner = "drain" /\ mq_out = <<>>
  /\ At("wait")
  /\ UNCHANGED <<state, halt_req, mq_in, mq_out, thread, home, destroyed, freed>>

\* suscan_mq_wait sleeps whatever is queued by now.
WaitOut ==
  /\ owner = "wait"
  /\ At("asleep")
  /\ UNCHANGED <<state, halt_req, mq_in, mq_out, thread, home, destroyed, freed>>

SpuriousWakeup ==
  /\ owner = "asleep"
  /\ At("drain")
  /\ UNCHANGED <<state, halt_req, mq_in, mq_out, thread, home, destroyed, freed>>

suscan_worker_destroy ==
  /\ owner = "destroy"
  /\ pc[subject] = "exited"  \* pthread_join
  /\ destroyed' = [c \in Callbacks |-> destroyed[c] +
                     IF c \in ToSet(mq_in[subject]) THEN 1 ELSE 0]
  /\ mq_in' = [mq_in EXCEPT ![subject] = <<>>]
  /\ freed' = freed \cup {subject}
  /\ Return
  /\ UNCHANGED <<state, halt_req, mq_out, thread, home>>

HaltSteps ==
  \/ Created \/ HaltLoop \/ SetFlag \/ SendHalt \/ ReadAck
  \/ Consume \/ ConsumedAll \/ WaitOut \/ suscan_worker_destroy

WorkerNext ==
  \/ \E w \in AllWorkers :
       \/ suscan_worker_thread(w) \/ CallbackWrites(w)
       \/ Create(w) \/ BeginHalt(w) \/ AbortOnly(w)
       \/ \E c \in Callbacks : suscan_worker_push(w, c)
  \/ HaltSteps \/ SpuriousWakeup

WorkerSpec == WorkerInit /\ [][WorkerNext]_worker_vars

\* Threads that can run do, and callbacks return.
FairWorkerSpec ==
  /\ WorkerSpec
  /\ WF_worker_vars(HaltSteps)
  /\ \A w \in AllWorkers : WF_worker_vars(suscan_worker_thread(w))

-----------------------------------------------------------------------------
(* Properties *)

Messages == Callbacks \cup {HALT}
Answers == {Ack(w) : w \in AllWorkers} \cup {Data(w) : w \in AllWorkers}
Places == {"none", "while", "read", "inner", "poll", "run", "done", "ack", "exited"}
Calls == {"idle", "creating", "halting", "flag", "message", "abort",
          "abort message", "reading", "drain", "wait", "asleep", "destroy",
          "failed"}

\* The workers, their queues and both kinds of thread have proper values.
WorkerTypeOK ==
  /\ state \in [AllWorkers -> {"none", "created", "running", "halted"}]
  /\ halt_req \in [AllWorkers -> BOOLEAN]
  /\ mq_in \in [AllWorkers -> Seq(Messages)]
  /\ mq_out \in Seq(Answers)
  /\ pc \in [AllWorkers -> Places]
  /\ cur \in [AllWorkers -> Callbacks \cup {NULL}]
  /\ owner \in Calls
  /\ subject \in AllWorkers \cup {NULL}
  /\ home \in [Callbacks -> AllWorkers \cup {NULL}]
  /\ destroyed \in [Callbacks -> Nat]
  /\ freed \subseteq AllWorkers
  /\ late \in [AllWorkers -> Nat]
  /\ aborted \subseteq AllWorkers

\* suscan_worker_destroy frees a worker when its thread is gone, although the
\* owner decided on worker->state alone, which the thread sets before it ends.
FreedAfterExit == \A w \in freed : pc[w] = "exited"

\* The state is published before the HALT message: the owner that reads the
\* message finds the worker halted and does not ask again for an answer that
\* never comes.
AckMeansHalted ==
  \A i \in 1..Len(mq_out) :
    mq_out[i].type = "halt" => state[mq_out[i].from] = "halted"

\* After halt_req is set a worker starts one more callback at most: the one it
\* reads between its test of the flag and the arrival of HALT.
AtMostOneMore == \A w \in AllWorkers : late[w] <= 1

Waiting(w) == ToSet(mq_in[w])

\* A pushed callback is queued, running, or freed: in one place, once, also
\* while it queues itself again and while the worker is halted under it.
CallbackInOnePlace ==
  /\ \A w \in AllWorkers : \A i, j \in 1..Len(mq_in[w]) :
       mq_in[w][i] = mq_in[w][j] => i = j \/ mq_in[w][i] = HALT
  /\ \A w \in AllWorkers, c \in Callbacks :
       /\ c \in Waiting(w) => home[c] = w /\ destroyed[c] = 0 /\ cur[w] # c
       /\ cur[w] = c => home[c] = w /\ destroyed[c] = 0
       /\ home[c] = w => destroyed[c] = 1 \/ c \in Waiting(w) \/ cur[w] = c
  /\ \A c \in Callbacks : destroyed[c] <= IF home[c] = NULL THEN 0 ELSE 1

\* A destroyed worker leaves no callback behind.
NoLeak == \A c \in Callbacks : home[c] \in freed => destroyed[c] = 1

\* The owner's call always ends: the worker halts, answers and is destroyed.
HaltReturns == owner # "idle" ~> owner = "idle"

\* The owner sleeps in suscan_mq_wait beside the answer it waits for.
Missed == owner = "asleep" /\ Ack(subject) \in ToSet(mq_out)

\* The owner's call ends, in success or in the error of suscan_worker_halt, or
\* it has missed the answer: there is no other way for halting to hang.
HaltEnds == owner # "idle" ~> owner \in {"idle", "failed"} \/ Missed

\* Callbacks that queue themselves again do not starve the others.
CallbackServed ==
  \A w \in AllWorkers, c \in Callbacks :
    c \in ToSet(mq_in[w]) ~> cur[w] = c \/ destroyed[c] > 0 \/ halt_req[w]

=============================================================================
